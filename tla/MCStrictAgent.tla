--------------------------- MODULE MCStrictAgent ---------------------------
EXTENDS StrictAgent
CONSTANTS p1, p2
MCRevision == [p \in Policies |-> IF p = p1 THEN 1 ELSE 2]

(* A policy that was applied before and is armed. *)
ArmedBefore(p) ==
  /\ store = [enabled |-> TRUE, policy |-> p, open |-> TRUE]
  /\ runtime = [NoRuntime EXCEPT !.present = TRUE, !.policy = p,
                                 !.held = [NoSession EXCEPT ![FALSE] = "valid"]]
  /\ orch = [Fresh EXCEPT !.phase = "Active", !.desired = p, !.state = "Armed",
                          !.generation = 1, !.active = 1]
  /\ job = [t \in Tasks |-> NoJob]
  /\ published = "Armed"
  /\ strictCore = [CoreUp EXCEPT !.ingress = 1]
  /\ broker = [record |-> p, mode |-> "armed", ingress |-> 1, watermark |-> Revision[p],
               session |-> "alive", queue |-> <<>>]
  /\ strictBudget \in StrictBudgets

(* One fault against each command of the user, and against a health check. *)
MCBudgets == {[faults |-> 1, mutations |-> 1, checks |-> 0],
              [faults |-> 1, mutations |-> 0, checks |-> 1]}

MCInit == StrictInit \/ \E p \in Policies : ArmedBefore(p)
MCSpec == MCInit /\ [][StrictNext]_strictVars
MCFairSpec == MCSpec /\ Fairness
=============================================================================
