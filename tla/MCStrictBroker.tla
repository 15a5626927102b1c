-------------------------- MODULE MCStrictBroker --------------------------
(* A small instance of StrictBroker.  "first" proxies one application.      *)
(* "upgrade" is a publisher-preserving upgrade of it whose family grew by   *)
(* one executable; "other" shares the upgrade's revision, has another       *)
(* digest and blocks an unrelated application.  "later" has the highest     *)
(* revision and a family that may follow "first" but not "upgrade", whose   *)
(* second executable it would drop.                                         *)
EXTENDS StrictBrokerRefinement

CONSTANTS first, upgrade, other, later, x, y, a, b, c

MCPolicies == {first, upgrade, other, later}
MCIdentities == {x, y}
MCApps == {a, b, c}
MCRevision ==
  [p \in MCPolicies |-> CASE p = first -> 1 [] p = later -> 3 [] OTHER -> 2]
MCEntries ==
  [p \in MCPolicies |->
     IF p = other THEN [i \in {y} |-> [action |-> "Block", family |-> {c}]]
     ELSE [i \in {x} |->
             [action |-> "Proxy",
              family |-> CASE p = first -> {a}
                           [] p = upgrade -> {a, b}
                           [] OTHER -> {a, c}]]]
=============================================================================
