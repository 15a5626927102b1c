--------------------------- MODULE MCTcpForwarding ---------------------------
(* A small instance of TcpForwarding for TLC.                               *)
EXTENDS TcpForwarding

Nothing == [connections |-> {}, activations |-> 1, stops |-> 1, faults |-> 0, exits |-> 0]

One == {CHOOSE c \in Connections : TRUE}

\* every pair of faults of one runtime; the exit of the Core; a connection and a fault;
\* two connections; a runtime after another
MCBudgets ==
  {[Nothing EXCEPT !.faults = 2],
   [Nothing EXCEPT !.connections = One, !.exits = 1],
   [Nothing EXCEPT !.connections = One, !.faults = 1],
   [Nothing EXCEPT !.connections = Connections, !.stops = 0],
   [Nothing EXCEPT !.activations = 2, !.faults = 1]}
=============================================================================
