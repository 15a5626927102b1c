---------------------------- MODULE MCUdpBridge ----------------------------
(* A small instance of UdpBridge for TLC.                                   *)
EXTENDS UdpBridge

Nothing == [flows |-> Flows, captures |-> 0, replies |-> 0, renewals |-> 0, losses |-> 0,
            closes |-> 0, faults |-> 0, stops |-> 1, ticks |-> 0]
One == {CHOOSE f \in Flows : TRUE}

\* two flows after each other; one flow that goes on as its frames are lost and its
\* entries expire, the same with two replies; two replies and a flow that closes; two
\* renewals at every point; a renewal with a fault of the driver or the socket
MCBudgets ==
  {[Nothing EXCEPT !.captures = 2, !.replies = 1, !.stops = 0, !.ticks = 3],
   [Nothing EXCEPT !.flows = One, !.captures = 3, !.losses = 1, !.stops = 0, !.ticks = 3],
   [Nothing EXCEPT !.flows = One, !.captures = 2, !.replies = 2, !.stops = 0, !.ticks = 2],
   [Nothing EXCEPT !.captures = 1, !.replies = 2, !.closes = 1],
   [Nothing EXCEPT !.flows = One, !.captures = 1, !.replies = 1, !.renewals = 2],
   [Nothing EXCEPT !.flows = One, !.captures = 1, !.replies = 1, !.renewals = 1, !.faults = 1]}
=============================================================================
