--------------------------- MODULE MCFilterEngine ---------------------------
(* A small instance of FilterEngine: "first" proxies one application,       *)
(* "second" blocks it and proxies another.                                  *)
EXTENDS FilterEngine

CONSTANTS first, second, x, y, a, b

MCPolicies == {first, second}
MCIdentities == {x, y}
MCApps == {a, b}
MCRevision == [p \in MCPolicies |-> IF p = first THEN 1 ELSE 2]
MCEntries ==
  [p \in MCPolicies |->
     IF p = first THEN [i \in {x} |-> [action |-> "Proxy", family |-> {a}]]
     ELSE [i \in {x, y} |-> IF i = x THEN [action |-> "Block", family |-> {a}]
                            ELSE [action |-> "Proxy", family |-> {b}]]]

Calm == [calls |-> 4, faults |-> 0, severs |-> 0, tampers |-> 0, leases |-> 0]

MCBudgets ==
  {[Calm EXCEPT !.faults = 1],
   [Calm EXCEPT !.severs = 1],
   [Calm EXCEPT !.tampers = 1],
   [Calm EXCEPT !.leases = 2]}
=============================================================================
