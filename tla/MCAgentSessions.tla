-------------------------- MODULE MCAgentSessions --------------------------
(* A small instance of AgentSessions for TLC: both requests choose a proxy  *)
(* of one group.                                                            *)
EXTENDS AgentSessions

MCKeyOf == [r \in Requests |-> "group"]

\* one client that sends two requests, which a sample may crowd out; two clients
\* of which one sends a request that the loss of the Core may interrupt
MCBudgets ==
  {[sessions |-> 1, requests |-> 2, messages |-> 1, losses |-> 0],
   [sessions |-> 1, requests |-> 2, messages |-> 0, losses |-> 1],
   [sessions |-> 2, requests |-> 1, messages |-> 0, losses |-> 1]}
=============================================================================
