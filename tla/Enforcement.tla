---------------------------- MODULE Enforcement ----------------------------
(***************************************************************************)
(* What the strict Broker promises, without the Broker: which policy is on *)
(* record, and what happens to the traffic of every application.           *)
(*                                                                         *)
(* An application is free (no guard), blocked (a guard and nothing else)   *)
(* or forwarded (redirected into the Broker under a live lease).  Traffic  *)
(* becomes free again only through a recorded disable, is forwarded only   *)
(* over complete guards, and a failure can do nothing but cut it.          *)
(***************************************************************************)
EXTENDS StrictPolicy

VARIABLES
  record,     \* the policy on record, how far it is, the last revision used
  traffic     \* what happens to the traffic of each application

avars == <<record, traffic>>

States == {"none", "preparing", "enforced", "disabling"}

Record == [policy : Policies \union {None}, state : States, hwm : Nat]

Init ==
  /\ record = [policy |-> None, state |-> "none", hwm |-> 0]
  /\ traffic = [app \in Apps |-> "free"]

Active == record.state # "none"

(* No application of the policy on record is free.                          *)
Covered == \A app \in Protected(record.policy) : traffic[app] # "free"

(* No application is forwarded.                                             *)
Cut == \A app \in Apps : traffic[app] # "forwarded"

-----------------------------------------------------------------------------

(* A policy is recorded under a revision never used before: the first one,  *)
(* or a migration of the one on record.  Nothing is forwarded meanwhile.    *)
Prepare(p) ==
  /\ Revision[p] > record.hwm
  /\ \/ ~Active
     \/ /\ record.state # "disabling"
        /\ ValidateIdentityMigration(record.policy, p)
  /\ Cut
  /\ record' = [policy |-> p, state |-> "preparing", hwm |-> Revision[p]]
  /\ UNCHANGED traffic

(* All applications of the policy are guarded in one step; what was covered *)
(* before stays as it is.                                                   *)
Guard ==
  /\ record.state \in {"preparing", "enforced"}
  /\ traffic' = [app \in Apps |->
                   IF app \in Protected(record.policy) /\ traffic[app] = "free"
                   THEN "blocked" ELSE traffic[app]]
  /\ UNCHANGED record

(* A covered policy is enforced.  It may have been about to be disabled: a  *)
(* disable that failed is taken back by blocking again.                     *)
Enforce ==
  /\ Active /\ Covered
  /\ record' = [record EXCEPT !.state = "enforced"]
  /\ UNCHANGED traffic

(* Traffic of the proxied applications, and of no other, is forwarded, and  *)
(* never while an application of the policy is free.                        *)
Forward ==
  /\ Active /\ Covered
  /\ traffic' = [app \in Apps |-> IF app \in Proxied(record.policy) THEN "forwarded"
                                  ELSE traffic[app]]
  /\ UNCHANGED record

(* Whatever ends the forwarding leaves the applications blocked.            *)
Stop ==
  /\ traffic' = [app \in Apps |-> IF traffic[app] = "forwarded" THEN "blocked"
                                  ELSE traffic[app]]
  /\ UNCHANGED record

(* A disable is recorded once nothing is forwarded any more.                *)
Disable ==
  /\ Active /\ Cut
  /\ record' = [record EXCEPT !.state = "disabling"]
  /\ UNCHANGED traffic

(* The guards go, all at once.                                              *)
Release ==
  /\ record.state = "disabling" /\ Cut
  /\ traffic' = [app \in Apps |-> "free"]
  /\ UNCHANGED record

(* The record is cleared last, and remembers the revision.                  *)
Forget ==
  /\ record.state = "disabling"
  /\ \A app \in Apps : traffic[app] = "free"
  /\ record' = [policy |-> None, state |-> "none", hwm |-> record.hwm]
  /\ UNCHANGED traffic

Next ==
  \/ \E p \in Policies : Prepare(p)
  \/ Guard \/ Enforce \/ Forward \/ Stop \/ Disable \/ Release \/ Forget

Spec == Init /\ [][Next]_avars
=============================================================================
