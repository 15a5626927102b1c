--------------------------- MODULE StrictPolicy ---------------------------
(***************************************************************************)
(* The strict policies the Broker is asked to enforce, and the WFP filters *)
(* each of them compiles to.                                               *)
(*                                                                         *)
(* A policy is a revision number and a set of entries, one per selected    *)
(* application.  An entry has an action (Proxy or Block) and a family: the *)
(* App-IDs of the application's executable and of its verified children.   *)
(* A policy stands for its revision AND its canonical digest: two policies *)
(* may share a revision and still be different members of Policies.        *)
(***************************************************************************)
EXTENDS Naturals, FiniteSets

CONSTANTS
  Policies,      \* the policies a client may send
  Identities,    \* identity ids of policy entries
  Apps,          \* WFP App-IDs
  Revision,      \* Revision[p]: the policy's revision
  Entries,       \* Entries[p]: the entries of p, a function on its identities
  None,          \* "no policy"
  DatagramKey    \* stands for the two conditional datagram filters

Actions == {"Proxy", "Block"}

Entry == [action : Actions, family : (SUBSET Apps) \ {{}}]

ASSUME PolicyAssumption ==
  /\ None \notin Policies
  /\ DatagramKey \notin Apps
  /\ Revision \in [Policies -> Nat \ {0}]
  /\ \A p \in Policies :
        /\ DOMAIN Entries[p] \subseteq Identities
        /\ Entries[p] \in [DOMAIN Entries[p] -> Entry]
        /\ DOMAIN Entries[p] # {}

-----------------------------------------------------------------------------

(* App-IDs of the entries of p that have one of the given actions. *)
FamilyOf(p, actions) ==
  UNION {Entries[p][i].family :
           i \in {j \in DOMAIN Entries[p] : Entries[p][j].action \in actions}}

Protected(p) == FamilyOf(p, Actions)
Proxied(p) == FamilyOf(p, {"Proxy"})

HasProxyEntries(p) == \E i \in DOMAIN Entries[p] : Entries[p][i].action = "Proxy"

(* One key stands for the IPv4 and the IPv6 filter of an App-ID: a plan     *)
(* always holds both.  Keys depend on the App-ID alone, so two policies     *)
(* that protect the same application produce the same filter key.           *)
GuardFilters(p) ==
  Protected(p) \union (IF HasProxyEntries(p) THEN {DatagramKey} ELSE {})

DataPlaneFilters(p) == Proxied(p)

FilterKeys == Apps \union {DatagramKey}

(* Mutant of ValidateIdentityMigration: the entries are only counted.       *)
CountsEntriesOnly(old, new) ==
  /\ Revision[new] > Revision[old]
  /\ Cardinality(DOMAIN Entries[new]) = Cardinality(DOMAIN Entries[old])

(* A migration moves an enforced policy to a later revision with the same   *)
(* applications: no entry is added, dropped or changes its action, and each *)
(* family keeps every App-ID it had.  Target group and publisher are part   *)
(* of the action here.                                                      *)
ValidateIdentityMigration(old, new) ==
  /\ Revision[new] > Revision[old]
  /\ Cardinality(DOMAIN Entries[new]) = Cardinality(DOMAIN Entries[old])
  /\ \A i \in DOMAIN Entries[old] :
        /\ i \in DOMAIN Entries[new]
        /\ Entries[new][i].action = Entries[old][i].action
        /\ Entries[old][i].family \subseteq Entries[new][i].family
=============================================================================
