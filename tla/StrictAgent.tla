---------------------------- MODULE StrictAgent ----------------------------
(***************************************************************************)
(* The Agent's side of a strict policy (services/agent/src: strict_flow,   *)
(* strict, strict_retry, core_ingress and the strict parts of runtime):    *)
(* three tasks of one process drive one orchestrator.                      *)
(*                                                                         *)
(*   "mutation"  apply, migrate and clear, one at a time, and the restore  *)
(*               of the stored intent when the Agent starts;               *)
(*   "recovery"  the supervisor that ticks once a second;                  *)
(*   "core"      the loop that reads the Core's lines and sees it go.      *)
(*                                                                         *)
(* A task alternates between the orchestrator, under an async lock that is *)
(* held for one transition, and a request to the Broker or to the Core     *)
(* with no lock held, so another task may move the orchestrator while a    *)
(* request is under way.  job[t] is what task t does next.                 *)
(*                                                                         *)
(* The Broker is the abstract one that StrictBroker justifies: a recorded  *)
(* policy that blocks or is armed, a session that belongs to one Agent     *)
(* process, and a queue whose requests are executed even when the client   *)
(* no longer waits.  A policy migrates to policies of the same target      *)
(* groups only, so an active ingress descriptor always names the groups of *)
(* the runtime's policy.                                                   *)
(***************************************************************************)
EXTENDS Naturals, Sequences, FiniteSets

CONSTANTS
  None,          \* no policy, no request, no task
  Policies,      \* the policies a user can ask for
  Revision,      \* the revision of each policy
  Proxied,       \* the policies that have a Proxy entry, hence target groups
  MaxAttempts,   \* MAX_STRICT_RECOVERY_ATTEMPTS
  StrictBudgets  \* bound: how many faults (of the Core, the Broker, the pipe and the
                 \* processes), commands of the user and checks of a healthy Broker
                 \* there are

ASSUME RevisionAssumption == Revision \in [Policies -> Nat \ {0}]
ASSUME ProxiedAssumption == Proxied \subseteq Policies
ASSUME AttemptsAssumption == MaxAttempts \in Nat
ASSUME StrictBudgetsAssumption ==
  StrictBudgets \subseteq [faults : Nat, mutations : Nat, checks : Nat]

VARIABLES
  store,        \* the protected intent file, and whether this Agent could open it
  runtime,      \* StrictRuntime without its orchestrator, and whether it is there
  orch,         \* StrictPolicyOrchestrator with its controller and ingress
  job,          \* what each task does next
  published,    \* the strict state the user is shown
  strictCore,   \* the Core process and the Agent's link to it
  broker,       \* the abstract Broker service
  strictBudget  \* faults, commands and health checks left

strictVars == <<store, runtime, orch, job, published, strictCore, broker, strictBudget>>

Tasks == {"mutation", "recovery", "core"}
ASSUME NoneAssumption == None \notin Policies \cup Tasks
Phases == {"Idle", "AwaitPrepare", "AwaitIngress", "AwaitCommit", "Active",
           "AwaitBlocking", "AwaitBlockingRevoke", "Blocked",
           "AwaitDisable", "AwaitDisableRevoke"}
States == {"Disabled", "Preparing", "Blocking", "Armed", "Recovering"}
Ops == {"Prepare", "Commit", "Block", "Disable", "Confirm", "Status"}
Modes == {"none", "blocking", "armed", "damaged"}

Command(op, p, g) == [op |-> op, policy |-> p, ingress |-> g]
IngressRequest(g, empty) == [generation |-> g, empty |-> empty]
Proof(p, m) == [policy |-> p, mode |-> m]
Error == [policy |-> None, mode |-> "error"]

(***************************************************************************)
(* The orchestrator.  Every method returns the new orchestrator and what   *)
(* the caller has to do next.                                              *)
(***************************************************************************)
ToBroker(cmd) == [to |-> "broker", what |-> cmd]
ToCore(req) == [to |-> "core", what |-> req]
Settled(o) == [to |-> "publish", what |-> [state |-> o.state]]
Failed == [to |-> "failed", what |-> None]

Fresh ==
  [phase |-> "Idle", desired |-> None, state |-> "Disabled", disabling |-> FALSE,
   generation |-> 0, pending |-> None, active |-> 0]

Begin(o, p) ==
  [o EXCEPT !.phase = "AwaitPrepare", !.desired = p, !.state = "Preparing"]

RestoreDisable(o, p) ==
  [Begin(o, p) EXCEPT !.phase = "AwaitDisable", !.disabling = TRUE, !.state = "Blocking"]

CanReplaceOrDisable(o) == o.phase \in {"Active", "Blocked"}

BackendLost(o) == IF o.desired = None THEN o ELSE [o EXCEPT !.state = "Blocking"]

(* Mutant of BrokerLost: the controller is not told.                       *)
BrokerLostSilently(o) ==
  [o EXCEPT
     !.phase = IF o.phase \in {"AwaitPrepare", "AwaitDisable", "AwaitDisableRevoke"}
                 THEN o.phase ELSE "AwaitBlocking"]

BrokerLost(o) ==
  [BackendLost(o) EXCEPT
     !.phase = IF o.phase \in {"AwaitPrepare", "AwaitDisable", "AwaitDisableRevoke"}
                 THEN o.phase ELSE "AwaitBlocking"]

(* A proof of guards without forwarding arms a policy that only blocks. *)
GuardsProved(proof) == proof.mode \in {"blocking", "armed"}
ProofApplies(o, proof) == o.desired # None /\ proof.policy = o.desired
Applied(o, proof) ==
  [o EXCEPT !.state =
     IF GuardsProved(proof) /\ (proof.mode = "armed" \/ o.desired \notin Proxied)
       THEN "Armed" ELSE "Blocking"]

Result(o, do) == [orch |-> o, do |-> do]
Rejected(o, phase) == Result([o EXCEPT !.phase = phase], Failed)

(* Core ingress: begin(), force_revoke() and complete(). *)
BeginIngress(o) ==
  [o EXCEPT !.generation = o.generation + 1,
            !.pending = IngressRequest(o.generation + 1, FALSE)]
ForceRevoke(o) ==
  [o EXCEPT !.generation = o.generation + 1,
            !.pending = IngressRequest(o.generation + 1, TRUE)]
ResponseMatches(o, answer) ==
  o.pending # None /\ answer.ok /\ answer.generation = o.pending.generation
CompleteIngress(o, answer) ==
  [o EXCEPT !.pending = None,
            !.active = IF ~ResponseMatches(o, answer) THEN o.active
                       ELSE IF o.pending.empty THEN 0 ELSE answer.generation]

RevokeThen(o, phase) ==
  LET revoked == [ForceRevoke(o) EXCEPT !.phase = phase]
  IN  Result(revoked, ToCore(revoked.pending))

Commit(o) == ToBroker(Command("Commit", o.desired, o.active))

AcceptPrepareProof(o, proof) ==
  LET applied == Applied(o, proof)
      ingress == BeginIngress(applied)
  IN  CASE ~ProofApplies(o, proof) -> Result(o, Failed)
        [] ProofApplies(o, proof) /\ ~GuardsProved(proof) ->
             Rejected(applied, "AwaitBlocking")
        [] ProofApplies(o, proof) /\ GuardsProved(proof) /\ o.desired \notin Proxied ->
             Result([applied EXCEPT !.phase = "Active"], Settled(applied))
        [] ProofApplies(o, proof) /\ GuardsProved(proof) /\ o.desired \in Proxied ->
             IF applied.state # "Blocking" \/ o.pending # None
               THEN Rejected(BackendLost(applied), "AwaitBlocking")
             ELSE IF o.active # 0
               THEN Result([applied EXCEPT !.phase = "AwaitCommit"], Commit(applied))
             ELSE Result([ingress EXCEPT !.phase = "AwaitIngress"], ToCore(ingress.pending))

AcceptCommitProof(o, proof) ==
  LET applied == IF ProofApplies(o, proof) THEN Applied(o, proof) ELSE o
  IN  IF ProofApplies(o, proof) /\ applied.state = "Armed"
        THEN Result([applied EXCEPT !.phase = "Active"], Settled(applied))
        ELSE Rejected(applied, "AwaitBlocking")

(* Mutant of AcceptHealthProof: a Broker that only blocks is not noticed.   *)
HealthProofUnread(o, proof) ==
  IF ProofApplies(o, proof) THEN Result(o, Settled(o)) ELSE Result(o, Failed)

(* A health proof: still armed, or blocking and to be committed once more. *)
AcceptHealthProof(o, proof) ==
  LET applied == Applied(o, proof)
  IN  CASE ~ProofApplies(o, proof) -> Result(o, Failed)
        [] ProofApplies(o, proof) /\ applied.state = "Armed" ->
             Result(applied, Settled(applied))
        [] ProofApplies(o, proof) /\ applied.state # "Armed" ->
             IF ~GuardsProved(proof) \/ o.active = 0
               THEN Rejected(applied, "AwaitBlocking")
               ELSE Result([applied EXCEPT !.state = "Recovering", !.phase = "AwaitCommit"],
                           Commit(applied))

AcceptBlockingProof(o, proof) ==
  IF ~ProofApplies(o, proof) THEN Result(o, Failed)
  ELSE IF proof.mode # "blocking" THEN Rejected(BackendLost(Applied(o, proof)), "AwaitBlocking")
  ELSE RevokeThen(Applied(o, proof), "AwaitBlockingRevoke")

AcceptDisableProof(o, proof) ==
  IF proof = Proof(None, "none") THEN RevokeThen(o, "AwaitDisableRevoke") ELSE Result(o, Failed)

AcceptBrokerProof(o, proof) ==
  CASE o.phase = "AwaitPrepare"  -> AcceptPrepareProof(o, proof)
    [] o.phase = "AwaitCommit"   -> AcceptCommitProof(o, proof)
    [] o.phase = "Active"        -> AcceptHealthProof(o, proof)
    [] o.phase = "AwaitBlocking" -> AcceptBlockingProof(o, proof)
    [] o.phase = "AwaitDisable"  -> AcceptDisableProof(o, proof)
    [] OTHER                     -> Result(o, Failed)

AcceptCoreResponse(o, answer) ==
  LET done == CompleteIngress(o, answer)
      ok   == ResponseMatches(o, answer)
      gone == [done EXCEPT !.phase = "Idle", !.desired = None, !.disabling = FALSE,
                           !.state = "Disabled"]
  IN  CASE o.phase = "AwaitIngress" ->
             IF ok /\ done.active # 0
               THEN Result([done EXCEPT !.phase = "AwaitCommit"], Commit(done))
               ELSE Rejected(done, "AwaitBlocking")
        [] o.phase = "AwaitBlockingRevoke" ->
             IF ok THEN Result([done EXCEPT !.phase = "Blocked"], Settled(done))
                   ELSE Result(done, Failed)
        [] o.phase = "AwaitDisableRevoke" ->
             IF ok THEN Result(gone, Settled(gone)) ELSE Result(done, Failed)
        [] OTHER -> Result(o, Failed)

CanForceBlocking(o) ==
  o.phase \in {"AwaitIngress", "AwaitCommit", "AwaitBlocking", "Active", "Blocked"}
ForceBlocking(o, p) ==
  IF CanForceBlocking(o)
    THEN Result([BackendLost(o) EXCEPT !.phase = "AwaitBlocking"],
                ToBroker(Command("Block", p, 0)))
    ELSE Result(o, Failed)

Disable(o, p) ==
  Result([o EXCEPT !.phase = "AwaitDisable", !.disabling = TRUE, !.state = "Blocking"],
         ToBroker(Command("Disable", p, 0)))

Prepare(p) == ToBroker(Command("Prepare", p, 0))

Recover(o, p) ==
  CASE o.phase = "AwaitPrepare" -> Result(o, Prepare(p))
    [] o.phase = "AwaitDisable" -> Result(o, ToBroker(Command("Disable", p, 0)))
    [] o.phase \in {"AwaitDisableRevoke", "AwaitBlockingRevoke"} -> RevokeThen(o, o.phase)
    [] o.phase = "Blocked" -> Result(Begin(o, p), Prepare(p))
    [] o.phase \in {"AwaitBlocking", "AwaitIngress", "AwaitCommit"} -> ForceBlocking(o, p)
    [] OTHER -> Result(o, Failed)

(***************************************************************************)
(* Initial state: no stored intent, the Core connected, the Broker idle.   *)
(***************************************************************************)
NoJob == [at |-> "idle", what |-> None, then |-> "done", prev |-> None, stale |-> FALSE]
NoSession == [old \in BOOLEAN |-> "none"]
NoRuntime ==
  [present |-> FALSE, policy |-> None, held |-> NoSession, orchLock |-> None,
   pendingId |-> 0, attempts |-> 0, scheduled |-> FALSE]
CoreUp == [alive |-> TRUE, link |-> TRUE, wanted |-> TRUE, ingress |-> 0,
           inbox |-> <<>>, outbox |-> <<>>]

StrictInit ==
  /\ store = [enabled |-> FALSE, policy |-> None, open |-> TRUE]
  /\ runtime = NoRuntime
  /\ orch = Fresh
  /\ job = [t \in Tasks |-> NoJob]
  /\ published = "Disabled"
  /\ strictCore = CoreUp
  /\ broker = [record |-> None, mode |-> "none", ingress |-> 0, watermark |-> 0,
               session |-> "none", queue |-> <<>>]
  /\ strictBudget \in StrictBudgets

StrictFault ==
  /\ strictBudget.faults > 0
  /\ strictBudget' = [strictBudget EXCEPT !.faults = strictBudget.faults - 1]
UserActs ==
  /\ strictBudget.mutations > 0
  /\ strictBudget' = [strictBudget EXCEPT !.mutations = strictBudget.mutations - 1]

\* The intent to protect p is made durable.
Saved(p) == [store EXCEPT !.enabled = TRUE, !.policy = p]

(***************************************************************************)
(* How a task goes on after a transition of the orchestrator.              *)
(***************************************************************************)
Idle(t) == job[t].at = "idle"
Restoring == job["mutation"].then = "restore"
LockFree(t) == runtime.orchLock \in {None, t}

Drive(t, do) == job' = [job EXCEPT ![t].at = do.to, ![t].what = do.what]
Start(t, do, then, prev) ==
  job' = [job EXCEPT ![t] = [at |-> do.to, what |-> do.what, then |-> then, prev |-> prev,
                             stale |-> FALSE]]
Becomes(result, t) == orch' = result.orch /\ Drive(t, result.do)

(* The std mutex of the Broker session is held by the task that waits. *)
SessionFree(t) ==
  \A s \in Tasks \ {t} : ~(job[s].at = "waiting" /\ job[s].stale = job[t].stale)

(***************************************************************************)
(* A request to the Broker.  A task without a session activates one first; *)
(* the health check does not, and a failed request drops the session, but  *)
(* for the status request of a rollback.                                   *)
(***************************************************************************)
Held(t) == runtime.held[job[t].stale]
Hold(t, h) == runtime' = [runtime EXCEPT !.held = [runtime.held EXCEPT ![job[t].stale] = h]]
AfterError(t) == IF job[t].then = "status" THEN Held(t) ELSE "none"
Answered(t, answer) == job' = [job EXCEPT ![t].at = "answered", ![t].what = answer]

(* The fail-closed transition of the service. *)
Blocked(b) == [b EXCEPT !.mode = IF b.record = None THEN "none" ELSE "blocking", !.ingress = 0]
Queued(b, cmd, client) == [b EXCEPT !.queue = Append(b.queue, [cmd |-> cmd, client |-> client])]
Activated(b) == [(IF b.session = "dead" THEN Blocked(b) ELSE b) EXCEPT !.session = "alive"]

Activates(t) == Held(t) = "none" /\ job[t].then # "health"
CanRequest(t) == Held(t) = "valid" \/ (Activates(t) /\ broker.session # "alive")

SendToBroker(t) ==
  /\ job[t].at = "broker" /\ SessionFree(t)
  /\ \/ /\ CanRequest(t)
        /\ broker' = Queued(IF Activates(t) THEN Activated(broker) ELSE broker, job[t].what, t)
        /\ Hold(t, "valid")
        /\ job' = [job EXCEPT ![t].at = "waiting"]
        /\ UNCHANGED strictBudget
     \/ /\ IF CanRequest(t) THEN StrictFault ELSE UNCHANGED strictBudget
        /\ Answered(t, Error)
        /\ Hold(t, AfterError(t))
        /\ UNCHANGED broker
  /\ UNCHANGED <<store, orch, published, strictCore>>

(* What the engine makes of one command. *)
Forwards(p, g) == p \in Proxied /\ strictCore.alive /\ g # 0 /\ strictCore.ingress = g
Recorded(b, p) == [Blocked([b EXCEPT !.record = p])
                     EXCEPT !.watermark = IF p = None THEN b.watermark ELSE Revision[p]]
CanRecord(b, p) == b.record = p \/ Revision[p] > b.watermark

Arms(b, cmd) ==
  /\ cmd.op = "Commit" /\ b.record = cmd.policy /\ b.mode = "blocking"
  /\ Forwards(cmd.policy, cmd.ingress)

Executed(b, cmd) ==
  CASE cmd.op = "Prepare" /\ CanRecord(b, cmd.policy) -> Recorded(b, cmd.policy)
    [] Arms(b, cmd) -> [b EXCEPT !.mode = "armed", !.ingress = cmd.ingress]
    [] cmd.op = "Disable" /\ b.record = cmd.policy -> Recorded(b, None)
    [] cmd.op \in {"Commit", "Status", "Confirm"} /\ ~Arms(b, cmd) -> b
    [] OTHER -> Blocked(b)

Accepts(b, cmd) ==
  CASE cmd.op = "Prepare" -> CanRecord(b, cmd.policy)
    [] cmd.op = "Commit" -> Arms(b, cmd)
    [] cmd.op = "Status" -> TRUE
    [] cmd.op = "Confirm" -> b.record = None
    [] OTHER -> b.record = cmd.policy

(* A client that gets an error for its Disable asks for the status, on the *)
(* same session: only an empty proof confirms an earlier disable.          *)
Reply(t, answer, b) ==
  IF answer = Error /\ job[t].what.op = "Disable" /\ b.session = "alive" /\ Held(t) = "valid"
    THEN LET confirm == Command("Confirm", job[t].what.policy, 0)
         IN  /\ broker' = Queued(b, confirm, t)
             /\ job' = [job EXCEPT ![t].what = confirm]
             /\ UNCHANGED runtime
    ELSE /\ broker' = b
         /\ Answered(t, answer)
         /\ Hold(t, IF answer = Error THEN AfterError(t) ELSE "valid")

EngineExecutes ==
  /\ broker.queue # <<>>
  /\ LET item == Head(broker.queue)
         rest == [broker EXCEPT !.queue = Tail(broker.queue)]
         Deliver(answer, b) ==
           IF item.client = None THEN broker' = b /\ UNCHANGED <<job, runtime>>
                                 ELSE Reply(item.client, answer, b)
         done == Executed(rest, item.cmd)
     IN  \/ /\ Deliver(IF Accepts(rest, item.cmd) THEN Proof(done.record, done.mode) ELSE Error,
                       done)
            /\ UNCHANGED strictBudget
         \/ /\ StrictFault
            /\ \/ Deliver(Error, done)
               \/ Deliver(Error, Blocked(rest))
               \/ /\ Accepts(rest, item.cmd) /\ item.cmd.op \notin {"Disable", "Confirm"}
                  /\ done.record # None
                  /\ Deliver(Proof(done.record, "damaged"), Blocked(done))
  /\ UNCHANGED <<store, orch, published, strictCore>>

(* The deadline of the pipe exchange passes: the request stays queued. *)
Forsaken(queue, tasks) ==
  [i \in DOMAIN queue |->
     [queue[i] EXCEPT !.client = IF queue[i].client \in tasks THEN None ELSE queue[i].client]]

ClientGivesUp(t) ==
  /\ job[t].at = "waiting"
  /\ StrictFault
  /\ Reply(t, Error, [broker EXCEPT !.queue = Forsaken(broker.queue, {t})])
  /\ UNCHANGED <<store, orch, published, strictCore>>

(***************************************************************************)
(* The answer, under the orchestrator's lock.                              *)
(***************************************************************************)
Unlocked == [runtime EXCEPT !.orchLock = None]
Lost(t, o) == orch' = BrokerLost(o) /\ Drive(t, Failed)

DriveAnswer(t) ==
  /\ job[t].then \notin {"health", "status"} /\ ~job[t].stale
  /\ LET result == AcceptBrokerProof(orch, job[t].what)
     IN  CASE job[t].what = Error       -> Lost(t, orch)
           [] job[t].what # Error /\ result.do = Failed -> Lost(t, result.orch)
           [] OTHER                     -> Becomes(result, t)
  /\ UNCHANGED <<store, runtime>>

StaleAnswer(t) ==
  /\ job[t].stale
  /\ Drive(t, Failed)
  /\ UNCHANGED <<store, runtime, orch>>

(* Mutant of HealthAnswer: the lock taken before the request is kept.      *)
HealthKeepsLock(t) ==
  /\ job[t].then = "health"
  /\ UNCHANGED runtime
  /\ LET result == AcceptBrokerProof(orch, job[t].what)
     IN  IF job[t].what = Error
           THEN orch' = BrokerLost(orch) /\ Start(t, Failed, "done", None)
         ELSE IF result.do = Failed
           THEN orch' = BrokerLost(result.orch) /\ job' = [job EXCEPT ![t] = NoJob]
         ELSE orch' = result.orch /\ Start(t, result.do, "done", None)
  /\ UNCHANGED store

HealthAnswer(t) ==
  /\ job[t].then = "health"
  /\ runtime' = Unlocked
  /\ LET result == AcceptBrokerProof(orch, job[t].what)
     IN  IF job[t].what = Error
           THEN orch' = BrokerLost(orch) /\ Start(t, Failed, "done", None)
         ELSE IF result.do = Failed
           THEN orch' = BrokerLost(result.orch) /\ job' = [job EXCEPT ![t] = NoJob]
         ELSE orch' = result.orch /\ Start(t, result.do, "done", None)
  /\ UNCHANGED store

(* The rollback of a migration: only when the Broker still has the old one *)
(* and the old intent could be written.                                    *)
Restored(t, prev) ==
  /\ store' = Saved(prev)
  /\ orch' = Begin(Fresh, prev)
  /\ runtime' = [Unlocked EXCEPT !.policy = prev]
  /\ Start(t, Prepare(prev), "done", None)

RollbackAnswer(t) ==
  /\ job[t].then = "status"
  /\ LET prev == job[t].prev
         kept == job[t].what # Error /\ job[t].what.policy = prev
     IN  \/ kept /\ Restored(t, prev) /\ UNCHANGED strictBudget
         \/ /\ IF kept THEN StrictFault ELSE UNCHANGED strictBudget
            /\ runtime' = Unlocked
            /\ job' = [job EXCEPT ![t] = NoJob]
            /\ UNCHANGED <<store, orch>>

HandleAnswer(t) ==
  /\ job[t].at = "answered" /\ LockFree(t)
  /\ \/ (DriveAnswer(t) \/ StaleAnswer(t) \/ HealthAnswer(t)) /\ UNCHANGED strictBudget
     \/ RollbackAnswer(t)
  /\ UNCHANGED <<published, strictCore, broker>>

(***************************************************************************)
(* A settled state is shown; Armed clears the retries, Disabled ends the   *)
(* runtime.  Other tasks keep what they were doing with the old runtime.   *)
(***************************************************************************)
Ended == [NoRuntime EXCEPT !.held = [NoSession EXCEPT ![TRUE] = runtime.held[FALSE]]]
Orphaned(t) ==
  [s \in Tasks |-> IF s = t \/ Idle(s) THEN NoJob ELSE [job[s] EXCEPT !.stale = TRUE]]

Publish(t) ==
  /\ job[t].at = "publish"
  /\ published' = job[t].what.state
  /\ IF job[t].what.state = "Disabled" /\ ~job[t].stale
       THEN runtime' = Ended /\ orch' = Fresh /\ job' = Orphaned(t)
       ELSE /\ runtime' = IF job[t].what.state = "Armed" /\ ~job[t].stale
                            THEN [runtime EXCEPT !.attempts = 0, !.scheduled = FALSE] ELSE runtime
            /\ job' = [job EXCEPT ![t] = NoJob]
            /\ UNCHANGED orch
  /\ UNCHANGED <<store, strictCore, broker, strictBudget>>

(* A failed migration asks the Broker which policy it still has. *)
PublishFailure(t) ==
  /\ job[t].at = "failed"
  /\ published' = "Blocking"
  /\ job' = [job EXCEPT ![t] = IF job[t].then = "rollback" THEN [job[t] EXCEPT !.at = "rollback"]
                                                           ELSE NoJob]
  /\ UNCHANGED <<store, runtime, orch, strictCore, broker, strictBudget>>

Rollback ==
  /\ job["mutation"].at = "rollback" /\ runtime.orchLock = None
  /\ runtime' = [runtime EXCEPT !.orchLock = "mutation"]
  /\ Start("mutation", ToBroker(Command("Status", None, 0)), "status", job["mutation"].prev)
  /\ UNCHANGED <<store, orch, published, strictCore, broker, strictBudget>>

(***************************************************************************)
(* The Core.  A request leaves through the channel of the running Core; the*)
(* answer comes back to the "core" task, which works on one line at a time *)
(* and drops every line but the one whose identifier is pending.           *)
(***************************************************************************)
SendToCore(t) ==
  /\ job[t].at = "core"
  /\ \/ /\ strictCore.link
        /\ strictCore' = [strictCore EXCEPT
             !.inbox = IF strictCore.alive THEN Append(strictCore.inbox, job[t].what)
                                           ELSE strictCore.inbox]
        /\ runtime' = IF job[t].stale THEN runtime
                      ELSE [runtime EXCEPT !.pendingId = job[t].what.generation]
        /\ job' = [job EXCEPT ![t] = NoJob]
        /\ UNCHANGED <<orch, strictBudget>>
     \/ /\ IF strictCore.link THEN StrictFault ELSE UNCHANGED strictBudget
        /\ LockFree(t)
        /\ IF job[t].stale THEN Drive(t, Failed) /\ UNCHANGED <<orch, runtime>>
           ELSE /\ Lost(t, orch)
                /\ runtime' = IF strictCore.link THEN [runtime EXCEPT !.pendingId = 0] ELSE runtime
        /\ UNCHANGED strictCore
  /\ UNCHANGED <<store, published, broker>>

(* core/strict_ingress.go: listeners by generation; an empty set closes    *)
(* them whatever its generation.  Credentials are fresh in every request,  *)
(* so an equal generation is as stale as a lower one; listeners that do    *)
(* not bind take the old ones with them.                                   *)
CoreAccepts(req) == req.empty \/ req.generation > strictCore.ingress
CoreAnswer(req, ok) == [generation |-> req.generation, ok |-> ok]

CoreHandles ==
  /\ strictCore.alive /\ strictCore.inbox # <<>>
  /\ LET req == Head(strictCore.inbox)
         Answer(ingress, ok) ==
           strictCore' = [strictCore EXCEPT
             !.inbox = Tail(strictCore.inbox), !.ingress = ingress,
             !.outbox = Append(strictCore.outbox, CoreAnswer(req, ok))]
     IN  \/ /\ IF CoreAccepts(req) THEN Answer(IF req.empty THEN 0 ELSE req.generation, TRUE)
                                   ELSE Answer(strictCore.ingress, FALSE)
            /\ UNCHANGED strictBudget
         \/ StrictFault /\ ~req.empty /\ \E left \in {strictCore.ingress, 0} : Answer(left, FALSE)
  /\ UNCHANGED <<store, runtime, orch, job, published, broker>>

CoreLine ==
  /\ Idle("core") /\ strictCore.link /\ strictCore.outbox # <<>>
  /\ strictCore' = [strictCore EXCEPT !.outbox = Tail(strictCore.outbox)]
  /\ LET answer == Head(strictCore.outbox)
         result == AcceptCoreResponse(orch, answer)
         forced == ForceBlocking(result.orch, runtime.policy)
     IN  IF ~runtime.present \/ runtime.pendingId # answer.generation
           THEN UNCHANGED <<runtime, orch, job>>
         ELSE /\ LockFree("core")
              /\ runtime' = [runtime EXCEPT !.pendingId = 0]
              /\ IF result.do # Failed
                   THEN orch' = result.orch /\ Start("core", result.do, "done", None)
                 ELSE IF CanForceBlocking(result.orch)
                   THEN orch' = forced.orch /\ Start("core", forced.do, "done", None)
                 ELSE orch' = result.orch /\ UNCHANGED job
  /\ UNCHANGED <<store, published, broker, strictBudget>>

CoreDies ==
  /\ strictCore.alive /\ StrictFault
  /\ strictCore' = [strictCore EXCEPT !.alive = FALSE, !.ingress = 0, !.inbox = <<>>]
  /\ UNCHANGED <<store, runtime, orch, job, published, broker>>

(* The link is dropped at once; unread lines go with it. *)
Unlinked ==
  [strictCore EXCEPT !.alive = FALSE, !.link = FALSE, !.ingress = 0, !.inbox = <<>>,
                     !.outbox = <<>>]

CoreLossNoticed ==
  /\ Idle("core") /\ strictCore.link /\ ~strictCore.alive
  /\ strictCore' = Unlinked
  /\ IF runtime.present
       THEN /\ published' = "Recovering"
            /\ job' = [job EXCEPT !["core"].at = "lost"]
       ELSE UNCHANGED <<published, job>>
  /\ UNCHANGED <<store, runtime, orch, broker, strictBudget>>

CoreLossBlocks ==
  /\ job["core"].at = "lost" /\ LockFree("core")
  /\ LET forced == ForceBlocking(orch, runtime.policy)
     IN  orch' = forced.orch /\ Start("core", forced.do, "done", None)
  /\ UNCHANGED <<store, runtime, published, strictCore, broker, strictBudget>>

CoreStops ==
  /\ Idle("core") /\ strictCore.link /\ UserActs
  /\ strictCore' = [Unlinked EXCEPT !.wanted = FALSE]
  /\ UNCHANGED <<store, runtime, orch, job, published, broker>>

CoreRestarts ==
  /\ ~strictCore.wanted
  /\ strictCore' = [strictCore EXCEPT !.wanted = TRUE]
  /\ UNCHANGED <<store, runtime, orch, job, published, broker, strictBudget>>

CoreReady ==
  /\ Idle("core") /\ ~Restoring /\ ~strictCore.link /\ strictCore.wanted
  /\ strictCore' = CoreUp
  /\ UNCHANGED <<store, runtime, orch, job, published, broker, strictBudget>>

(***************************************************************************)
(* The recovery supervisor.  It acts only while the Core is ready: on an   *)
(* armed policy it asks for a proof, on a blocked one it starts a bounded  *)
(* number of attempts.                                                     *)
(***************************************************************************)
Ticks ==
  Idle("recovery") /\ ~Restoring /\ strictCore.link /\ runtime.present /\ LockFree("recovery")

HealthCheck ==
  /\ Ticks /\ orch.state = "Armed"
  /\ IF broker.mode # "armed" THEN UNCHANGED strictBudget
     ELSE /\ strictBudget.checks > 0
          /\ strictBudget' = [strictBudget EXCEPT !.checks = strictBudget.checks - 1]
  /\ runtime' = [runtime EXCEPT !.orchLock = "recovery"]
  /\ Start("recovery", ToBroker(Command("Status", None, 0)), "health", None)
  /\ UNCHANGED <<store, orch, published, strictCore, broker>>

Schedule ==
  /\ Ticks /\ orch.state = "Blocking" /\ ~runtime.scheduled
  /\ runtime.attempts < MaxAttempts
  /\ runtime' = [runtime EXCEPT !.attempts = runtime.attempts + 1, !.scheduled = TRUE]
  /\ UNCHANGED <<store, orch, job, published, strictCore, broker, strictBudget>>

StartAttempt ==
  /\ Ticks /\ orch.state = "Blocking" /\ runtime.scheduled
  /\ runtime' = [runtime EXCEPT !.scheduled = FALSE]
  /\ published' = "Recovering"
  /\ Start("recovery", [to |-> "recover", what |-> None], "done", None)
  /\ UNCHANGED <<store, orch, strictCore, broker, strictBudget>>

RecoverStep ==
  /\ job["recovery"].at = "recover" /\ LockFree("recovery")
  /\ IF job["recovery"].stale
       THEN Drive("recovery", Failed) /\ UNCHANGED orch
       ELSE Becomes(Recover(orch, runtime.policy), "recovery")
  /\ UNCHANGED <<store, runtime, published, strictCore, broker, strictBudget>>

(***************************************************************************)
(* Commands of the user, one at a time, each with its intent made durable  *)
(* before the Broker is asked.                                             *)
(***************************************************************************)
Applies(p, then) ==
  /\ store' = Saved(p)
  /\ runtime' = [runtime EXCEPT !.present = TRUE, !.policy = p]
  /\ orch' = Begin(Fresh, p)
  /\ published' = "Preparing"
  /\ Start("mutation", Prepare(p), then, None)

UiApply(p) ==
  /\ Idle("mutation") /\ ~runtime.present /\ store.open /\ UserActs
  /\ Applies(p, "done")
  /\ UNCHANGED <<strictCore, broker>>

(* The intent file could not be written: the command ends before anything  *)
(* else happens, and an apply shows that it failed.  Without the file no   *)
(* apply succeeds until the Agent restarts.                                *)
IntentUnwritten ==
  /\ Idle("mutation") /\ ~runtime.present
  /\ IF store.open THEN StrictFault ELSE UserActs
  /\ published' = "Blocking"
  /\ UNCHANGED <<store, runtime, orch, job, strictCore, broker>>

MutationAllowed ==
  /\ Idle("mutation") /\ runtime.present /\ LockFree("mutation")
  /\ CanReplaceOrDisable(orch) /\ UserActs

SameGroups(p, q) == (p \in Proxied) = (q \in Proxied)

(* Mutant of UiMigrate: the new intent is not written before the request.  *)
MigrateUnstored(q) ==
  /\ MutationAllowed
  /\ SameGroups(runtime.policy, q) /\ Revision[q] > Revision[runtime.policy]
  /\ orch' = Begin(orch, q)
  /\ runtime' = [runtime EXCEPT !.policy = q]
  /\ published' = "Preparing"
  /\ Start("mutation", Prepare(q), "rollback", runtime.policy)
  /\ UNCHANGED <<store, strictCore, broker>>

UiMigrate(q) ==
  /\ MutationAllowed
  /\ SameGroups(runtime.policy, q) /\ Revision[q] > Revision[runtime.policy]
  /\ store' = Saved(q)
  /\ orch' = Begin(orch, q)
  /\ runtime' = [runtime EXCEPT !.policy = q]
  /\ published' = "Preparing"
  /\ Start("mutation", Prepare(q), "rollback", runtime.policy)
  /\ UNCHANGED <<strictCore, broker>>

UiClear ==
  /\ MutationAllowed
  /\ store' = [store EXCEPT !.enabled = FALSE]
  /\ LET result == Disable(orch, runtime.policy)
     IN  orch' = result.orch /\ Start("mutation", result.do, "done", None)
  /\ published' = "Preparing"
  /\ UNCHANGED <<runtime, strictCore, broker>>

(***************************************************************************)
(* The Agent restarts: what is not in the intent file is gone, and the     *)
(* intent is restored before the Core and the supervisor are started.      *)
(* There is nothing to drive when the file cannot be read, or when the     *)
(* apply that restores it cannot write it again.                           *)
(***************************************************************************)
IntentRestored ==
  LET p    == store.policy
      what == IF store.enabled THEN Prepare(p) ELSE ToBroker(Command("Disable", p, 0))
  IN  /\ p # None
      /\ store' = [store EXCEPT !.open = TRUE]
      /\ runtime' = [NoRuntime EXCEPT !.present = TRUE, !.policy = p]
      /\ orch' = IF store.enabled THEN Begin(Fresh, p) ELSE RestoreDisable(Fresh, p)
      /\ published' = IF store.enabled THEN "Preparing" ELSE "Disabled"
      /\ job' = [t \in Tasks |->
           IF t = "mutation" THEN [NoJob EXCEPT !.at = what.to, !.what = what.what,
                                                !.then = "restore"]
                             ELSE NoJob]

NothingRestored ==
  /\ \E open \in BOOLEAN :
       /\ open => store.policy = None \/ store.enabled
       /\ store' = [store EXCEPT !.open = open]
       /\ published' = IF open /\ store.policy = None THEN "Disabled" ELSE "Blocking"
  /\ runtime' = NoRuntime /\ orch' = Fresh
  /\ job' = [t \in Tasks |-> NoJob]

AgentRestarts ==
  /\ StrictFault
  /\ strictCore' = Unlinked
  /\ broker' = [broker EXCEPT
       !.session = IF broker.session = "alive" THEN "dead" ELSE broker.session,
       !.queue = Forsaken(broker.queue, Tasks)]
  /\ IntentRestored \/ NothingRestored

(***************************************************************************)
(* The Broker service: a session whose workers or whose Agent ended is     *)
(* reaped, and the policy it armed is blocked; so does a health failure.   *)
(***************************************************************************)
Waiting == {t \in Tasks : job[t].at = "waiting"}
CutOff ==
  /\ job' = [t \in Tasks |-> IF t \in Waiting THEN [job[t] EXCEPT !.at = "answered", !.what = Error]
                                              ELSE job[t]]
  /\ runtime' = [runtime EXCEPT !.held =
       [old \in BOOLEAN |->
          IF runtime.held[old] = "none"
             \/ \E t \in Waiting : job[t].stale = old /\ job[t].then # "status"
            THEN "none" ELSE "void"]]

SessionEnds ==
  /\ broker.session = "alive" /\ StrictFault
  /\ broker' = [broker EXCEPT !.session = "dead", !.queue = Forsaken(broker.queue, Tasks)]
  /\ CutOff
  /\ UNCHANGED <<store, orch, published, strictCore>>

ReapSession ==
  /\ broker.session = "dead"
  /\ broker' = [Blocked(broker) EXCEPT !.session = "none"]
  /\ UNCHANGED <<store, runtime, orch, job, published, strictCore, strictBudget>>

BrokerRestarts ==
  /\ StrictFault
  /\ broker' = [Blocked(broker) EXCEPT !.session = "none", !.queue = <<>>]
  /\ CutOff
  /\ UNCHANGED <<store, orch, published, strictCore>>

BrokerFailsClosed ==
  /\ broker.mode = "armed"
  /\ IF Forwards(broker.record, broker.ingress) THEN StrictFault ELSE UNCHANGED strictBudget
  /\ broker' = Blocked(broker)
  /\ UNCHANGED <<store, runtime, orch, job, published, strictCore>>

StrictProgram ==
  \/ \E t \in Tasks : SendToBroker(t) \/ HandleAnswer(t) \/ SendToCore(t)
                        \/ Publish(t) \/ PublishFailure(t)
  \/ EngineExecutes \/ Rollback \/ ReapSession \/ BrokerFailsClosed
  \/ CoreHandles \/ CoreLine \/ CoreLossNoticed \/ CoreLossBlocks \/ CoreReady
  \/ HealthCheck \/ Schedule \/ StartAttempt \/ RecoverStep

StrictEnvironment ==
  \/ \E t \in Tasks : ClientGivesUp(t)
  \/ \E p \in Policies : UiApply(p) \/ UiMigrate(p)
  \/ UiClear \/ IntentUnwritten \/ CoreStops \/ CoreRestarts
  \/ CoreDies \/ AgentRestarts \/ SessionEnds \/ BrokerRestarts

StrictNext == StrictProgram \/ StrictEnvironment

(* The program does not stop while one of its threads or tasks can run;    *)
(* nothing obliges a user or a fault.                                      *)
Fairness == WF_strictVars(StrictProgram)

StrictSpec == StrictInit /\ [][StrictNext]_strictVars
StrictFairSpec == StrictSpec /\ Fairness

-----------------------------------------------------------------------------
(***************************************************************************)
(* Properties.                                                             *)
(***************************************************************************)
Sessions == {"none", "valid", "void"}
Answers == [policy : Policies \cup {None}, mode : Modes \cup {"error"}]
Requests == [generation : Nat, empty : BOOLEAN]
Commands == [op : Ops, policy : Policies \cup {None}, ingress : Nat]

StrictTypeOK ==
  /\ store \in [enabled : BOOLEAN, policy : Policies \cup {None}, open : BOOLEAN]
  /\ runtime \in [present : BOOLEAN, policy : Policies \cup {None}, held : [BOOLEAN -> Sessions],
                  orchLock : Tasks \cup {None}, pendingId : Nat, attempts : 0..MaxAttempts,
                  scheduled : BOOLEAN]
  /\ orch \in [phase : Phases, desired : Policies \cup {None}, state : States,
               disabling : BOOLEAN, generation : Nat, pending : Requests \cup {None},
               active : Nat]
  /\ \A t \in Tasks :
       /\ job[t].then \in {"done", "rollback", "status", "health", "restore"}
       /\ job[t].prev \in Policies \cup {None} /\ job[t].stale \in BOOLEAN
       /\ CASE job[t].at \in {"broker", "waiting"} -> job[t].what \in Commands
            [] job[t].at = "answered" -> job[t].what \in Answers
            [] job[t].at = "core" -> job[t].what \in Requests
            [] job[t].at = "publish" -> job[t].what \in [state : States]
            [] OTHER -> job[t].at \in {"idle", "failed", "rollback", "lost", "recover"}
  /\ published \in States
  /\ strictCore.ingress \in Nat /\ strictCore.inbox \in Seq(Requests)
  /\ strictCore.outbox \in Seq([generation : Nat, ok : BOOLEAN])
  /\ broker.record \in Policies \cup {None} /\ broker.mode \in {"none", "blocking", "armed"}
  /\ broker.session \in {"none", "alive", "dead"}
  /\ broker.queue \in Seq([cmd : Commands, client : Tasks \cup {None}])

Quiet ==
  /\ \A t \in Tasks : Idle(t)
  /\ strictCore.inbox = <<>> /\ strictCore.outbox = <<>>

(* No transaction is orphaned: when nothing is under way, the policy is in *)
(* one of the two states the supervisor acts on (runtime.rs:915, 947).     *)
(* Every error path of every task must leave the controller in one of them.*)
NoOrphanedTransaction == Quiet /\ runtime.present => orch.state \in {"Armed", "Blocking"}

(* The same, in states whose parts have the shapes that their code knows.  *)
AgentInvariant == StrictTypeOK /\ NoOrphanedTransaction

(* Whatever the Broker has armed is covered by the intent file and by a    *)
(* runtime that watches over it (runtime.rs:519, 601-617, 655, 680): a     *)
(* crash of the Agent after any step finds the policy again.  An Agent     *)
(* that could not restore its intent (runtime.rs:561-566, 1058-1064), or   *)
(* has not prepared it yet, has asked the Core for no ingress, and the     *)
(* Core forwards for nobody.                                               *)
WatchedOver ==
  runtime.present /\ store.policy # None /\ Revision[broker.record] <= Revision[store.policy]
Estranged == orch.generation = 0 /\ strictCore.ingress = 0
ArmedIsWatched == broker.mode = "armed" => WatchedOver \/ Estranged

(* Every piece of work of every task ends: no request, lock or session     *)
(* makes one task wait for another for ever (runtime.rs:759-895, 905-976). *)
WorkEnds == \A t \in Tasks : ~Idle(t) ~> Idle(t)

(* While attempts are left and the Core is to run, a blocked policy is     *)
(* retried until it is armed, gone or out of attempts (runtime.rs:905-976).*)
CanRetry == runtime.present /\ orch.state = "Blocking" /\ runtime.attempts < MaxAttempts
BlockedIsRetried == CanRetry ~> ~CanRetry \/ ~strictCore.wanted

(* A Core that restarted has no listeners: the ingress descriptor the      *)
(* orchestrator still holds is found out, revoked and renewed, unless the  *)
(* retries are used up (core_ingress.rs:207, strict_flow.rs:250-266).      *)
StaleIngress == runtime.present /\ orch.active # 0 /\ strictCore.ingress # orch.active
IngressIsRenewed ==
  StaleIngress ~> ~StaleIngress \/ ~strictCore.wanted \/ runtime.attempts = MaxAttempts

(* A policy that is armed and that no runtime watches over is blocked by   *)
(* the Broker itself, or a new command of the user takes it over           *)
(* (windows_host.rs:607-651).                                              *)
UnwatchedIsBlocked ==
  broker.mode = "armed" /\ ~WatchedOver ~> broker.mode # "armed" \/ WatchedOver

(* The system recovers within the attempts: the three statements above.    *)
AgentRecovers == BlockedIsRetried /\ IngressIsRenewed /\ UnwatchedIsBlocked

(***************************************************************************)
(* What comments of the code say and the code does not do.                 *)
(***************************************************************************)
(* strict_flow.rs:425: "Never reset an in-flight transaction: its          *)
(* authenticated response must settle first."  Recovery does not touch the *)
(* orchestrator while another task waits for the answer of its commit or   *)
(* of its ingress request.                                                 *)
TransactionSettles ==
  [][RecoverStep /\ orch.phase \in {"AwaitIngress", "AwaitCommit"} =>
       \A t \in {"mutation", "core"} : job[t].at \notin {"broker", "waiting", "core"}]_strictVars

(* runtime.rs:835: "A retry performs a new authenticated activation        *)
(* exchange."  An activation is not refused because of a session of the    *)
(* same Agent process (windows_host.rs:317-331).                           *)
RetryCanActivate ==
  \A t \in Tasks : job[t].at = "broker" /\ Activates(t) => broker.session # "alive"

(* runtime.rs:673: "Restore only after authenticated status proves the     *)
(* Broker still owns the original policy."  Once the old intent is         *)
(* restored, the Broker does not take the new policy all the same.         *)
RollbackHolds ==
  runtime.present /\ store.enabled /\ broker.record # None =>
    Revision[broker.record] <= Revision[store.policy]
=============================================================================
