-------------------------- MODULE MCCoreSupervisor --------------------------
(* A small instance of CoreSupervisor for TLC. *)
EXTENDS CoreSupervisor

\* many faults and one command, or few faults and two
MCBudgets == {[faults |-> 3, commands |-> 1], [faults |-> 2, commands |-> 2]}
=============================================================================
