----------------------------- MODULE BrokerHost -----------------------------
(***************************************************************************)
(* The Broker's service host: the activation loop with its one session     *)
(* (windows_host.rs, session_registry.rs), the pool of pipe workers of a    *)
(* session (windows_session.rs, windows_pipe_pool.rs) and the single thread *)
(* that owns the engine (run_engine_actor).                                 *)
(*                                                                         *)
(* What a command does to the policy is StrictBroker's; here only what the  *)
(* host decides on is left of it: whether forwarding is off, up, or has     *)
(* failed on one of its own threads.  A worker hands each request to its    *)
(* executor thread, which queues it for the engine and waits for at most    *)
(* 20 seconds; the command keeps its place when nobody waits any more.      *)
(***************************************************************************)
EXTENDS Naturals, Sequences, FiniteSets, SequencesExt

CONSTANTS
  Workers,       \* SESSION_WORKERS (4)
  Capacity,      \* ENGINE_QUEUE_CAPACITY, which the code sets to SESSION_WORKERS
  MaxSessions,   \* bound: activations that reach the registry
  Budgets        \* bound: how many requests of which commands, starts of an Agent, stops of the service, ends of
                 \* the runtime, deadlines that run out, and other faults there are

ASSUME CapacitiesAssumption == Workers \in Nat \ {0} /\ Capacity \in Nat \ {0}
ASSUME SessionsAssumption == MaxSessions \in Nat
\* prepare, forceBlocking and disable all deactivate the runtime
Commands == {"commit", "deactivate", "status"}

Limits == [requests : Nat, commands : SUBSET Commands, agents : Nat, stops : Nat,
           failures : Nat, delays : Nat, faults : Nat]

ASSUME BudgetsAssumption == Budgets \subseteq Limits

VARIABLES
  main,        \* the service's main thread: run_service and run_activation_loop
  active,      \* BrokerSessionRegistry.active, 0 for None
  ses,         \* each session: its pool, its Agent process, whether that knows its pipe
  req,         \* each request, in the order in which they are sent
  actor,       \* run_engine_actor
  queue,       \* the dispatch channel
  control,     \* the control channel, which holds one command
  forwarding,  \* the forwarding runtime: "off", "up" or "failed"
  agent,       \* the Agent: its process, and whether that runs
  shutdown,    \* WindowsPipeShutdown of the service, set by the service manager
  budget       \* what the environment may still do

vars == <<main, active, ses, req, actor, queue, control, forwarding, agent, shutdown, budget>>

Sessions == 1 .. MaxSessions
Requests == DOMAIN req
\* what waits for the cleanup of the engine: reap_exited, activate, the failed answer
\* to an activation, the end of the loop, and engine.shutdown
Purposes == {"reap", "activate", "undo", "close", "stop"}

TypeOK ==
  /\ main \in [at : {"starting", "loop", "clean", "wait", "join", "write", "unwind", "stop",
                     "joining", "exited"},
               for : Purposes \cup {"none"}, candidate : 0 .. MaxSessions, ok : BOOLEAN]
  /\ active \in 0 .. MaxSessions
  /\ ses \in [Sessions -> [pool : {"none", "up", "stopping", "gone"}, process : Nat,
                           known : BOOLEAN]]
  /\ \A r \in Requests :
       req[r] \in [command : Commands, session : Sessions,
                   at : {"accepted", "queued", "running", "done", "dropped"},
                   worker : {"waiting", "answered", "cut"}, stale : BOOLEAN,
                   after : SUBSET Requests]
  /\ actor \in [at : {"init", "health", "failing", "forcing", "ending", "poll",
                      "dispatch", "exited"},
                suspended : BOOLEAN, awaited : BOOLEAN, answer : {"none", "ok", "error"}]
  /\ queue \in Seq(Requests) /\ Len(queue) <= Capacity
  /\ control \in {"none", "force", "shutdown"}
  /\ forwarding \in {"off", "up", "failed"}
  /\ agent \in [process : Nat, runs : BOOLEAN]
  /\ shutdown \in BOOLEAN
  /\ budget \in Limits

Init ==
  /\ budget \in Budgets
  /\ main = [at |-> "starting", for |-> "none", candidate |-> 0, ok |-> TRUE]
  /\ active = 0
  /\ ses = [s \in Sessions |-> [pool |-> "none", process |-> 0, known |-> FALSE]]
  /\ req = << >>
  /\ actor = [at |-> "init", suspended |-> FALSE, awaited |-> FALSE, answer |-> "none"]
  /\ queue = << >>
  /\ control = "none"
  /\ forwarding = "off"
  /\ agent = [process |-> 1, runs |-> TRUE]
  /\ shutdown = FALSE

-----------------------------------------------------------------------------
Serving == main.at # "exited"

Spent(what) == budget[what] > 0 /\ budget' = [budget EXCEPT ![what] = @ - 1]

Fault == Spent("faults")

\* the engine is inside an operation on the filters, the driver or the network, which may
\* take longer than the deadlines of those who wait for it
Busy == actor.at \in {"init", "failing", "forcing", "ending", "dispatch"}

DeadlinePasses == Busy /\ Spent("delays")

MainAt(at) == main' = [main EXCEPT !.at = at]

\* the service's body is left with an error: `sessions` is dropped, then the engine stops
Unwinds == main' = [main EXCEPT !.at = "unwind", !.for = "none", !.ok = FALSE]

IsAlive(s) ==
  ses[s].process = agent.process /\ agent.runs /\ ses[s].pool # "gone"

ActiveIsDead == active # 0 /\ ~IsAlive(active)

(* Mutant of Stopped: the pool is joined without having been told to end.   *)
StoppedUntold(s) == ses

Stopped(s) ==
  [ses EXCEPT ![s].pool = IF @ = "up" THEN "stopping" ELSE @]

Cleanup(purpose) == main' = [main EXCEPT !.at = "clean", !.for = purpose]

-----------------------------------------------------------------------------
(* The main thread.                                                         *)

\* EngineActor::start waits for the engine to have recovered, for 30 seconds at most
Started ==
  /\ main.at = "starting" /\ actor.at # "init"
  /\ \/ actor.at # "exited" /\ MainAt("loop") /\ UNCHANGED budget
     \/ actor.at # "exited" /\ Fault      \* report_running fails
        /\ main' = [main EXCEPT !.at = "stop", !.for = "stop", !.ok = FALSE]
     \/ actor.at = "exited" /\ main' = [main EXCEPT !.at = "exited", !.ok = FALSE]
        /\ UNCHANGED budget
  /\ UNCHANGED <<active, ses, req, actor, queue, control, forwarding, agent, shutdown>>

StartTimesOut ==
  /\ main.at = "starting" /\ actor.at = "init"
  /\ main' = [main EXCEPT !.at = "exited", !.ok = FALSE]
  /\ DeadlinePasses
  /\ UNCHANGED <<active, ses, req, actor, queue, control, forwarding, agent, shutdown>>

LoopEnds ==
  /\ main.at = "loop" /\ shutdown
  /\ IF active = 0 THEN main' = [main EXCEPT !.at = "stop", !.for = "stop"]
                   ELSE Cleanup("close")
  /\ UNCHANGED <<active, ses, req, actor, queue, control, forwarding, agent, shutdown, budget>>

Reap ==
  /\ main.at = "loop" /\ ~shutdown /\ ActiveIsDead
  /\ Cleanup("reap")
  /\ UNCHANGED <<active, ses, req, actor, queue, control, forwarding, agent, shutdown, budget>>

\* connect_and_classify_with_image: anything but the packaged Agent, running, is rejected
\* with an answer that changes nothing here
Verified == agent.runs

\* WindowsBrokerPipeSession::start, for the next number that is free
Opened(s) ==
  /\ ses[s].pool = "none" /\ \A t \in Sessions : t < s => ses[t].pool # "none"
  /\ ses' = [ses EXCEPT ![s].pool = "up", ![s].process = agent.process]

(* The Agent asks for a session and its image is attested.  A candidate     *)
(* that finds a live session is dropped with the answer Busy.  The Agent    *)
(* may die, and the session with it, while the loop waits for a client, so  *)
(* the dead one may be replaced here without having been reaped.            *)
Activate ==
  /\ main.at = "loop"
  /\ Verified /\ (active # 0 => ~IsAlive(active))
  /\ \E s \in Sessions :
       /\ Opened(s)
       /\ IF active = 0
            THEN active' = s /\ main' = [main EXCEPT !.at = "write", !.candidate = s]
            ELSE main' = [main EXCEPT !.at = "clean", !.for = "activate", !.candidate = s]
                 /\ UNCHANGED active
  /\ UNCHANGED <<req, actor, queue, control, forwarding, agent, shutdown, budget>>

(* The answer to an installed activation is written and the pipe is         *)
(* disconnected at once.  The client reads it, or has it discarded with the *)
(* connection, or the write fails, which undoes the activation.             *)
WriteActivation ==
  /\ main.at = "write"
  /\ \/ ses' = [ses EXCEPT ![main.candidate].known = TRUE]
        /\ main' = [main EXCEPT !.at = "loop", !.candidate = 0] /\ UNCHANGED budget
     \/ Fault /\ main' = [main EXCEPT !.at = "loop", !.candidate = 0] /\ UNCHANGED ses
     \/ Fault /\ main' = [main EXCEPT !.at = "clean", !.for = "undo", !.candidate = 0]
        /\ UNCHANGED ses
  /\ UNCHANGED <<active, req, actor, queue, control, forwarding, agent, shutdown>>

\* request_control: the channel holds one command and is closed once the actor has ended
Controllable == control = "none" /\ actor.at # "exited"

\* mpsc::sync_channel(1) for the answer: a wait that was given up hears of nothing
AskEngine(command) ==
  control' = command /\ actor' = [actor EXCEPT !.awaited = FALSE, !.answer = "none"]

CleanupRequest ==
  /\ main.at = "clean" /\ Controllable
  /\ AskEngine("force") /\ MainAt("wait")
  /\ UNCHANGED <<active, ses, req, queue, forwarding, agent, shutdown, budget>>

(* Mutant of CleanupIsUnproven: the loop goes on after a failed reap.       *)
CleanupIsRetried ==
  /\ ses' = IF main.for = "activate" THEN Stopped(main.candidate) ELSE ses
  /\ main' = [main EXCEPT !.at = "loop", !.for = "none", !.candidate = 0]

(* A cleanup that is not proven keeps the old session: the activation is    *)
(* answered Internal and its candidate dropped, and everything else ends    *)
(* the service.                                                             *)
CleanupIsUnproven ==
  IF main.for = "activate"
    THEN /\ ses' = Stopped(main.candidate)
         /\ main' = [main EXCEPT !.at = "loop", !.for = "none", !.candidate = 0]
    ELSE /\ Unwinds /\ UNCHANGED ses

CleanupRefused ==
  /\ main.at = "clean" /\ ~Controllable
  /\ CleanupIsUnproven
  /\ UNCHANGED <<active, req, actor, queue, control, forwarding, agent, shutdown, budget>>

\* ENGINE_REQUEST_DEADLINE runs out, or the actor has ended with the command in its channel
Unanswered == 
  /\ actor.answer = "none"
  /\ IF actor.at = "exited" THEN UNCHANGED budget ELSE DeadlinePasses
  /\ actor' = [actor EXCEPT !.awaited = FALSE]

CleanupTimesOut ==
  /\ main.at = "wait" /\ main.for # "stop"
  /\ Unanswered /\ CleanupIsUnproven
  /\ UNCHANGED <<active, req, queue, control, forwarding, agent, shutdown>>

CleanupAnswered ==
  /\ main.at = "wait" /\ main.for # "stop" /\ actor.answer # "none"
  /\ actor' = [actor EXCEPT !.answer = "none"]
  /\ IF actor.answer = "ok" THEN ses' = Stopped(active) /\ MainAt("join")
                            ELSE CleanupIsUnproven
  /\ UNCHANGED <<active, req, queue, control, forwarding, agent, shutdown, budget>>

\* active.shutdown() has joined the pool
Released ==
  /\ main.at = "join" /\ ses[active].pool = "gone"
  /\ IF main.for = "activate"
       THEN active' = main.candidate /\ main' = [main EXCEPT !.at = "write", !.for = "none"]
       ELSE active' = 0 /\ main' = [main EXCEPT
              !.at = IF main.for = "close" THEN "stop" ELSE "loop",
              !.for = IF main.for = "close" THEN "stop" ELSE "none"]
  /\ UNCHANGED <<ses, req, actor, queue, control, forwarding, agent, shutdown, budget>>

\* dropping the registry drops its session, whose Drop shuts the pool down
Unwind ==
  /\ main.at = "unwind"
  /\ IF active # 0 /\ ses[active].pool # "gone"
       THEN ses[active].pool = "up" /\ ses' = Stopped(active) /\ UNCHANGED <<active, main>>
       ELSE active' = 0 /\ main' = [main EXCEPT !.at = "stop", !.for = "stop"] /\ UNCHANGED ses
  /\ UNCHANGED <<req, actor, queue, control, forwarding, agent, shutdown, budget>>

-----------------------------------------------------------------------------
(* EngineActor::shutdown, and the end of the process.                       *)
Exit(ok) == main' = [main EXCEPT !.at = "exited", !.ok = @ /\ ok]

StopRequest ==
  /\ main.at = "stop"
  /\ IF Controllable THEN AskEngine("shutdown") /\ MainAt("wait")
                     ELSE Exit(FALSE) /\ UNCHANGED <<control, actor>>
  /\ UNCHANGED <<active, ses, req, queue, forwarding, agent, shutdown, budget>>

\* `?` leaves before the thread is joined
StopTimesOut ==
  /\ main.at = "wait" /\ main.for = "stop"
  /\ Unanswered /\ Exit(FALSE)
  /\ UNCHANGED <<active, ses, req, queue, control, forwarding, agent, shutdown>>

Disconnected == actor.at = "exited" /\ (CleanupTimesOut \/ StopTimesOut)

StopAnswered ==
  /\ main.at = "wait" /\ main.for = "stop" /\ actor.answer # "none"
  /\ main' = [main EXCEPT !.at = "joining", !.ok = @ /\ actor.answer = "ok"]
  /\ UNCHANGED <<active, ses, req, actor, queue, control, forwarding, agent, shutdown, budget>>

EngineJoined ==
  /\ main.at = "joining" /\ actor.at = "exited"
  /\ Exit(TRUE)
  /\ UNCHANGED <<active, ses, req, actor, queue, control, forwarding, agent, shutdown, budget>>

Main ==
  \/ Started \/ LoopEnds \/ Reap \/ WriteActivation
  \/ CleanupRequest \/ CleanupRefused \/ CleanupAnswered \/ Released \/ Unwind
  \/ StopRequest \/ StopAnswered \/ EngineJoined \/ Disconnected

Deadlines == StartTimesOut \/ CleanupTimesOut \/ StopTimesOut

-----------------------------------------------------------------------------
(* The session's pool: requests, and the end of its workers.                *)

Waiting(s) == {r \in Requests : req[r].session = s /\ req[r].worker = "waiting"}

\* some worker waits in connect_and_authenticate
Listening(s) == ses[s].pool = "up" /\ Cardinality(Waiting(s)) < Workers

(* The Agent writes a request to a pipe on which a worker listens, which    *)
(* authenticates it and hands it to its executor.                           *)
Send(command) ==
  /\ command \in budget.commands /\ Spent("requests")
  /\ agent.runs
  /\ \E s \in Sessions :
       /\ ses[s].known /\ ses[s].process = agent.process
       /\ Listening(s)
       /\ req' = Append(req, [command |-> command, session |-> s, at |-> "accepted",
                              worker |-> "waiting", stale |-> FALSE,
                              after |-> {r \in Requests : req[r].worker = "answered"}])
  /\ UNCHANGED <<main, active, ses, actor, queue, control, forwarding, agent, shutdown>>

\* EngineActorClient::dispatch: try_send, which does not wait for a place
Enqueue(r) ==
  /\ req[r].at = "accepted"
  /\ IF Len(queue) < Capacity /\ actor.at # "exited"
       THEN queue' = Append(queue, r) /\ req' = [req EXCEPT ![r].at = "queued"]
       ELSE req' = [req EXCEPT ![r].at = "dropped"] /\ UNCHANGED queue
  /\ UNCHANGED <<main, active, ses, actor, control, forwarding, agent, shutdown, budget>>

\* a response or, for a command that was dropped, backendUnavailable
Answer(r) ==
  /\ req[r].worker = "waiting" /\ req[r].at \in {"done", "dropped"}
  /\ req' = [req EXCEPT ![r].worker = "answered"]
  /\ UNCHANGED <<main, active, ses, actor, queue, control, forwarding, agent, shutdown, budget>>

\* the executor's 20 seconds: the command stays where it is
DispatchTimesOut(r) ==
  /\ req[r].worker = "waiting" /\ req[r].at \in {"queued", "running"}
  /\ DeadlinePasses
  /\ req' = [req EXCEPT ![r].worker = "answered"]
  /\ UNCHANGED <<main, active, ses, actor, queue, control, forwarding, agent, shutdown>>

\* the worker's 30 seconds, when a stall has kept the executor past its own 20: the pool
\* ends and leaves the executor behind
HandlerTimesOut(r) ==
  /\ req[r].worker = "waiting" /\ req[r].at \in {"queued", "running"} /\ Busy /\ Fault
  /\ req' = [req EXCEPT ![r].worker = "answered"]
  /\ ses' = Stopped(req[r].session)
  /\ UNCHANGED <<main, active, actor, queue, control, forwarding, agent, shutdown>>

\* HandlerWait::ShuttingDown
Cut(r) ==
  /\ req[r].worker = "waiting" /\ ses[req[r].session].pool = "stopping"
  /\ req' = [req EXCEPT ![r].worker = "cut"]
  /\ UNCHANGED <<main, active, ses, actor, queue, control, forwarding, agent, shutdown, budget>>

PoolEnds(s) ==
  /\ ses[s].pool = "stopping" /\ Waiting(s) = {}
  /\ ses' = [ses EXCEPT ![s].pool = "gone"]
  /\ UNCHANGED <<main, active, req, actor, queue, control, forwarding, agent, shutdown, budget>>

Pool == (\E r \in Requests : Enqueue(r) \/ Answer(r) \/ Cut(r)) \/ (\E s \in Sessions : PoolEnds(s))

-----------------------------------------------------------------------------
(* The engine actor.                                                        *)

ActorAt(at) == actor' = [actor EXCEPT !.at = at]

\* build_dispatcher recovers the policy into a fail-closed state, or fails
ActorInit ==
  /\ actor.at = "init"
  /\ \/ ActorAt("health") /\ UNCHANGED budget
     \/ Fault /\ ActorAt("exited")
  /\ UNCHANGED <<main, active, ses, req, queue, control, forwarding, agent, shutdown>>

\* what was queued before the failure was found
MarkStale == [r \in Requests |-> [req[r] EXCEPT !.stale = @ \/ req[r].at = "queued"]]

(* The health check, then control.try_recv(): a command from the main       *)
(* thread precedes those of the queue.                                      *)
Health ==
  /\ actor.at = "health"
  /\ IF ~actor.suspended /\ forwarding = "failed"
       THEN ActorAt("failing") /\ req' = MarkStale /\ UNCHANGED control
       ELSE /\ control' = "none" /\ UNCHANGED req
            /\ IF control = "none" THEN ActorAt("poll") ELSE
                 actor' = [actor EXCEPT !.awaited = main.at = "wait",
                                        !.at = IF control = "force" THEN "forcing" ELSE "ending"]
  /\ UNCHANGED <<main, active, ses, queue, forwarding, agent, shutdown, budget>>

\* what is queued when the receivers are dropped is dropped with them
DropQueued ==
  [r \in Requests |-> [req[r] EXCEPT !.at = IF @ = "queued" THEN "dropped" ELSE @]]

Exits == ActorAt("exited") /\ queue' = << >> /\ control' = "none" /\ req' = DropQueued

(* force_fail_closed takes every step whatever became of the one before.    *)
(* The error a worker of the runtime ended with is reported as a failure of *)
(* the cleanup that joined it.                                              *)
ForceFailClosed(ok) ==
  /\ forwarding' = "off"
  /\ IF ok \/ forwarding = "failed" THEN UNCHANGED budget ELSE Fault

(* Mutant of Rejected: one place is forgotten.                              *)
RejectedButOne == SubSeq(queue, 1, IF Len(queue) < Capacity THEN Len(queue) ELSE Capacity - 1)

\* reject_queued_dispatches_after_health_failure: at most one command for each place
Rejected == SubSeq(queue, 1, IF Len(queue) < Capacity THEN Len(queue) ELSE Capacity)

Failing(ok) ==
  /\ actor.at = "failing"
  /\ ForceFailClosed(ok)
  /\ IF ok
       THEN /\ actor' = [actor EXCEPT !.at = "health", !.suspended = TRUE]
            /\ queue' = SubSeq(queue, Len(Rejected) + 1, Len(queue))
            /\ req' = [r \in Requests |-> [req[r] EXCEPT
                         !.at = IF r \in ToSet(Rejected) THEN "dropped" ELSE @]]
            /\ UNCHANGED control
       ELSE Exits
  /\ UNCHANGED <<main, active, ses, agent, shutdown>>

\* response.send: nobody hears it once the main thread has given up
Tell(ok) == IF actor.awaited THEN (IF ok THEN "ok" ELSE "error") ELSE "none"

ForceClosed(ok) ==
  /\ actor.at = "forcing"
  /\ ForceFailClosed(ok)
  /\ actor' = [actor EXCEPT !.at = "health", !.answer = Tell(ok), !.awaited = FALSE]
  /\ UNCHANGED <<main, active, ses, req, queue, control, agent, shutdown>>

End(ok) ==
  /\ actor.at = "ending"
  /\ ForceFailClosed(ok)
  /\ actor' = [actor EXCEPT !.at = "exited", !.answer = Tell(ok), !.awaited = FALSE]
  /\ queue' = << >> /\ control' = "none" /\ req' = DropQueued
  /\ UNCHANGED <<main, active, ses, agent, shutdown>>

Running == CHOOSE r \in Requests : req[r].at = "running"

(* Mutant of Poll: the newest command is taken first.                       *)
PollNewest ==
  /\ actor.at = "poll"
  /\ IF queue = << >> THEN ActorAt("health") /\ UNCHANGED <<queue, req>>
     ELSE /\ ActorAt("dispatch")
          /\ queue' = Front(queue)
          /\ req' = [req EXCEPT ![Last(queue)].at = "running"]
  /\ UNCHANGED <<main, active, ses, control, forwarding, agent, shutdown, budget>>

Poll ==
  /\ actor.at = "poll"
  /\ IF queue = << >> THEN ActorAt("health") /\ UNCHANGED <<queue, req>>
     ELSE /\ ActorAt("dispatch")
          /\ queue' = Tail(queue)
          /\ req' = [req EXCEPT ![Head(queue)].at = "running"]
  /\ UNCHANGED <<main, active, ses, control, forwarding, agent, shutdown, budget>>

(* Mutant of Dispatch: a commit does not resume supervision.                *)
DispatchUnsupervised ==
  /\ actor.at = "dispatch"
  /\ CASE req[Running].command = "commit" -> forwarding' \in {"off", "up"}
       [] req[Running].command = "deactivate" -> forwarding' = "off"
       [] req[Running].command = "status" -> UNCHANGED forwarding
  /\ ActorAt("health")
  /\ req' = [req EXCEPT ![Running].at = "done"]
  /\ UNCHANGED <<main, active, ses, queue, control, agent, shutdown, budget>>

(* A commit measures the runtime, which replaces the one before, and arms   *)
(* the policy or fails and deactivates; whichever it is, supervision is     *)
(* resumed.                                                                 *)
Dispatch ==
  /\ actor.at = "dispatch"
  /\ LET command == req[Running].command IN
     /\ CASE command = "commit" -> forwarding' \in {"off", "up"}
          [] command = "deactivate" -> forwarding' = "off"
          [] command = "status" -> UNCHANGED forwarding
     /\ actor' = [actor EXCEPT !.at = "health", !.suspended = @ /\ command # "commit"]
  /\ req' = [req EXCEPT ![Running].at = "done"]
  /\ UNCHANGED <<main, active, ses, queue, control, agent, shutdown, budget>>

Actor ==
  \/ ActorInit \/ Health \/ Poll \/ Dispatch
  \/ \E ok \in BOOLEAN : Failing(ok) \/ ForceClosed(ok) \/ End(ok)

-----------------------------------------------------------------------------
(* The environment.                                                         *)

\* a worker of the forwarding runtime ends: the listeners, the renewal or the UDP bridge
RuntimeFails ==
  /\ forwarding = "up" /\ forwarding' = "failed" /\ Spent("failures")
  /\ UNCHANGED <<main, active, ses, req, actor, queue, control, agent, shutdown>>

AgentExits ==
  /\ agent.runs /\ agent' = [agent EXCEPT !.runs = FALSE]
  /\ UNCHANGED <<main, active, ses, req, actor, queue, control, forwarding, shutdown, budget>>

AgentStarts ==
  /\ ~agent.runs /\ Spent("agents")
  /\ agent' = [process |-> agent.process + 1, runs |-> TRUE]
  /\ UNCHANGED <<main, active, ses, req, actor, queue, control, forwarding, shutdown>>

\* the service manager accepts a stop once the service runs
StopService ==
  /\ main.at # "starting" /\ ~shutdown /\ shutdown' = TRUE /\ Spent("stops")
  /\ UNCHANGED <<main, active, ses, req, actor, queue, control, forwarding, agent>>

Environment == RuntimeFails \/ AgentExits \/ AgentStarts \/ StopService

Next ==
  /\ Serving
  /\ \/ Main \/ Deadlines \/ Activate \/ Pool \/ Actor \/ Environment
     \/ \E r \in Requests : DispatchTimesOut(r) \/ HandlerTimesOut(r)
     \/ \E command \in Commands : Send(command)

(* Each thread goes on with what it has begun.  Nothing is assumed of       *)
(* clients, of deadlines, or of the environment.                            *)
Fairness ==
  /\ WF_vars(Serving /\ Main)
  /\ WF_vars(Serving /\ Actor)
  /\ WF_vars(Serving /\ Pool)

Spec == Init /\ [][Next]_vars
FairSpec == Spec /\ Fairness

-----------------------------------------------------------------------------
(* Properties.                                                              *)

(* A command that was queued when the runtime was found to have failed is   *)
(* never executed: a commit among them would open what the failure closed.  *)
StaleCommandsNeverRun ==
  \A r \in Requests : req[r].stale => req[r].at \notin {"running", "done"}

(* Forwarding that is up or has failed is under supervision, or the commit  *)
(* that resumes it is being executed: suspension is never left behind with  *)
(* a runtime nobody looks after.                                            *)
ForwardingIsSupervised ==
  forwarding # "off" => ~actor.suspended /\ actor.at # "exited"

(* By the time a command runs, everything its sender had been answered      *)
(* about before it sent the command has run or will never run, though the   *)
(* answer may have been given up waiting for it: a block that follows a     *)
(* commit whose answer timed out has the last word.                         *)
AnswersKeepTheirOrder ==
  \A r \in Requests : req[r].at = "running" =>
    \A q \in req[r].after : req[q].at \in {"done", "dropped"}

(* A service that stops without an error leaves no engine, no session and   *)
(* no forwarding behind.                                                    *)
CleanStopIsClosed ==
  main.at = "exited" /\ main.ok =>
    forwarding = "off" /\ active = 0 /\ actor.at = "exited" /\ shutdown

(* Forwarding is watched while the service runs and over when it has        *)
(* stopped, in states whose parts have the shapes that their code knows.    *)
HostInvariant == TypeOK /\ ForwardingIsSupervised /\ CleanStopIsClosed

(* The service manager's stop ends the service, whatever its session, its   *)
(* requests and its engine are at.                                          *)
StopCompletes == shutdown ~> main.at = "exited"

(* Nothing restarts an engine that has ended; once the session ends too,    *)
(* the service does, so that the service manager can start a new one.       *)
DeadEngineEndsTheService ==
  (actor.at = "exited" /\ ActiveIsDead /\ main.at = "loop") ~> main.at = "exited"

(* When the session of an Agent that exited has been reaped and no other    *)
(* has taken its place, nothing is forwarded any more.                      *)
ReapedIsClosed ==
  active = 0 /\ main.at = "loop" => forwarding = "off"
=============================================================================
