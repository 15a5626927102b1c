---------------------------- MODULE MCBrokerHost ----------------------------
(* A small instance of BrokerHost for TLC.                                  *)
EXTENDS BrokerHost

\* three commits of one Agent, of which one may be given up; two Agents after each other;
\* one commit with every way in which the service is stopped and may fail
MCBudgets ==
  {[requests |-> 3, commands |-> {"commit"}, agents |-> 0, stops |-> 0, failures |-> 1,
    delays |-> 1, faults |-> 0],
   [requests |-> 2, commands |-> Commands, agents |-> 1, stops |-> 0, failures |-> 1,
    delays |-> 0, faults |-> 0],
   [requests |-> 1, commands |-> Commands, agents |-> 0, stops |-> 1, failures |-> 1,
    delays |-> 1, faults |-> 1],
   [requests |-> 1, commands |-> {"commit"}, agents |-> 1, stops |-> 0, failures |-> 0,
    delays |-> 0, faults |-> 2]}
=============================================================================
