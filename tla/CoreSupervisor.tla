--------------------------- MODULE CoreSupervisor ---------------------------
(***************************************************************************)
(* Who owns the Core process: the Agent's supervisor (supervise_core in    *)
(* services/agent/src/runtime.rs), the privileged Helper that spawns the   *)
(* Core on its behalf (services/helper/src/service: hub, process_stop,     *)
(* windows) and the Core, which dials the Agent and leaves when its        *)
(* connection does.                                                        *)
(*                                                                         *)
(* The Agent asks over HTTP and gives up waiting after seconds; the Helper *)
(* handles requests on threads of its own, so a request that was given up  *)
(* may be handled later, and after a request sent later.  An attempt to    *)
(* start is one Core process: the owner "<agent instance>-<attempt>" is    *)
(* abstracted to the attempt.  One listening socket outlives all attempts, *)
(* and so does the token the Core must know: what is left in its backlog   *)
(* by one attempt is accepted by the next.                                 *)
(***************************************************************************)
EXTENDS Naturals, Sequences, FiniteSets

CONSTANTS
  CommandCapacity,  \* places in the supervisor's queue (16)
  MaxCrashRetries,  \* MAX_CRASH_RETRIES (5)
  Backends,         \* of {"helper", "local"}: config.use_helper
  Budgets           \* bound: how many faults (timeouts, crashes, stops of the
                    \* service, refused kills, failed replays) and commands there are

ASSUME CapacityAssumption == CommandCapacity \in Nat \ {0}
ASSUME RetriesAssumption == MaxCrashRetries \in Nat
ASSUME BackendsAssumption == Backends \subseteq {"helper", "local"}
ASSUME BudgetsAssumption == Budgets \subseteq [faults : Nat, commands : Nat]

VARIABLES
  backend,  \* config.use_helper, fixed when the Agent starts
  agent,    \* "up", "leaving" once supervise_core has returned, "gone"
  sup,      \* supervise_core: where it is and what its stop_backend is for
  status,   \* shared.status
  session,  \* HelperSession: owner (0: none) and attempt; child is the local Core
  call,     \* the Helper request the supervisor awaits
  late,     \* requests the Agent gave up on that the Helper may still handle
  helper,   \* the Helper service and its ManagedCore
  core,     \* the Core process of each attempt and its connection
  backlog,  \* connections in core_listener that nobody has accepted
  queue,    \* supervisor commands
  budget    \* faults and commands that may still come

vars == <<backend, agent, sup, status, session, call, late, helper, core,
          backlog, queue, budget>>

Places == {"idle", "start", "attach", "replay", "ready", "backoff", "stopping"}
Kinds == {"restart", "stop", "shutdown"}
Attempts == DOMAIN core
NoCall == [path |-> "none", owner |-> 0, reply |-> "none"]

Running(a) == core[a].run = "running"
NoneRuns == \A a \in Attempts : ~Running(a)

TypeOK ==
  /\ backend \in Backends
  /\ agent \in {"up", "leaving", "gone"}
  /\ sup \in [at : Places, for : Kinds \cup {"none", "cleanup", "crash"},
              shouldStart : BOOLEAN, crashes : Nat, stream : Nat, steady : BOOLEAN]
  /\ status \in {"starting", "ready", "stopped", "failed"}
  /\ session \in [owner : Nat, attempt : Nat, child : Nat]
  /\ call \in [path : {"none", "/start", "/stop"}, owner : Nat,
               reply : {"none", "started", "rejected", "stopped", "unconfirmed", "lost"}]
  /\ late \subseteq [path : {"/start", "/stop"}, owner : Nat]
  /\ helper \in [state : {"up", "stopped", "crashed"}, owner : Nat, core : Nat,
                 stopping : BOOLEAN, spawned : SUBSET Nat]
  /\ \A a \in Attempts :
       core[a] \in [run : {"none", "running", "exited"},
                    link : {"none", "backlog", "attached", "closed"}]
  /\ Attempts = 1 .. session.attempt
  /\ backlog \in Seq(Attempts)
  /\ queue \in Seq(Kinds) /\ Len(queue) <= CommandCapacity
  /\ budget \in [faults : Nat, commands : Nat]

Init ==
  /\ backend \in Backends
  /\ agent = "up"
  /\ sup = [at |-> "start", for |-> "none", shouldStart |-> TRUE, crashes |-> 0, stream |-> 0,
            steady |-> FALSE]
  /\ status = "starting"
  /\ session = [owner |-> 0, attempt |-> 0, child |-> 0]
  /\ call = NoCall
  /\ late = {}
  /\ helper = [state |-> "up", owner |-> 0, core |-> 0, stopping |-> FALSE, spawned |-> {}]
  /\ core = <<>>
  /\ backlog = <<>>
  /\ queue = <<>>
  /\ budget \in Budgets

Fault == budget.faults > 0 /\ budget' = [budget EXCEPT !.faults = @ - 1]

(***************************************************************************)
(* The Core: it dials the Agent, proves the token at once, and ends when   *)
(* its connection ends (startServer returns and main with it).             *)
(***************************************************************************)
CoreDials(a) ==
  /\ Running(a) /\ core[a].link = "none" /\ agent # "gone"
  /\ core' = [core EXCEPT ![a].link = "backlog"]
  /\ backlog' = Append(backlog, a)
  /\ UNCHANGED <<backend, agent, sup, status, session, call, late, helper, queue, budget>>

\* its connection was closed, or there is nobody to dial
CoreLeaves(a) ==
  /\ Running(a)
  /\ core[a].link = "closed" \/ agent = "gone"
  /\ core' = [core EXCEPT ![a].run = "exited"]
  /\ UNCHANGED <<backend, agent, sup, status, session, call, late, helper, backlog, queue,
                 budget>>

CoreCrashes(a) ==
  /\ Running(a)
  /\ Fault
  /\ core' = [core EXCEPT ![a].run = "exited"]
  /\ UNCHANGED <<backend, agent, sup, status, session, call, late, helper, backlog, queue>>

(***************************************************************************)
(* The Helper.  PROCESS is one mutex: each of these is one critical        *)
(* section.  Handle says what becomes of request r and what it answers.    *)
(***************************************************************************)
Alive(a) == a # 0 /\ Running(a)

(* Mutant of HandleStart: a stop of the service does not close the starts. *)
StartWhileStopping(o, reply) ==
  \/ /\ Alive(helper.core) \/ helper.owner = o
     /\ reply = IF Alive(helper.core) /\ helper.owner = o THEN "started" ELSE "rejected"
     /\ UNCHANGED <<helper, core, budget>>
  \/ /\ ~Alive(helper.core) /\ helper.owner # o
     /\ reply = "started"
     /\ helper' = [helper EXCEPT !.owner = o, !.core = o, !.spawned = @ \cup {o}]
     /\ core' = [core EXCEPT ![o].run = "running"]
     /\ UNCHANGED budget

\* start_core: the checks of the request, ManagedCore::prepare_start, then the spawn;
\* the owner stays even when the spawn fails
HandleStart(o, reply) ==
  \/ /\ reply = "rejected"
     /\ Fault
     /\ UNCHANGED <<helper, core>>
  \/ /\ helper.stopping \/ (Alive(helper.core) /\ helper.owner # o)
        \/ (~Alive(helper.core) /\ helper.owner = o)
     /\ reply = "rejected"
     /\ helper' = IF helper.stopping \/ Alive(helper.core)
                    THEN helper ELSE [helper EXCEPT !.core = 0]
     /\ UNCHANGED <<core, budget>>
  \/ /\ ~helper.stopping /\ Alive(helper.core) /\ helper.owner = o
     /\ reply = "started"
     /\ UNCHANGED <<helper, core, budget>>
  \/ /\ ~helper.stopping /\ ~Alive(helper.core) /\ helper.owner # o
     /\ \/ /\ reply = "started"
           /\ helper' = [helper EXCEPT !.owner = o, !.core = o, !.spawned = @ \cup {o}]
           /\ core' = [core EXCEPT ![o].run = "running"]
           /\ UNCHANGED budget
        \/ /\ Fault
           /\ reply = "rejected"
           /\ helper' = [helper EXCEPT !.owner = o, !.core = 0]
           /\ UNCHANGED core

\* stop_managed_process: the handle goes only with an exit that was seen
StopManaged(confirmed) ==
  \/ /\ confirmed
     /\ helper' = [helper EXCEPT !.core = 0]
     /\ core' = IF Alive(helper.core) THEN [core EXCEPT ![helper.core].run = "exited"] ELSE core
     /\ UNCHANGED budget
  \/ /\ ~confirmed
     /\ Alive(helper.core)
     /\ Fault
     /\ UNCHANGED <<helper, core>>

(* Mutant of HandleStop: whoever asks, an empty process table means stopped. *)
StopAnyOwner(o, reply) ==
  \E confirmed \in BOOLEAN :
    /\ StopManaged(confirmed)
    /\ reply = IF confirmed THEN "stopped" ELSE "unconfirmed"

\* stop_core: the checks of the request, then ManagedCore::stop for an owner, which must
\* be the one that is remembered
HandleStop(o, reply) ==
  \/ /\ reply = "unconfirmed"
     /\ Fault
     /\ UNCHANGED <<helper, core>>
  \/ /\ helper.owner # o
     /\ reply = "unconfirmed"
     /\ UNCHANGED <<helper, core, budget>>
  \/ /\ helper.owner = o
     /\ \E confirmed \in BOOLEAN :
          /\ StopManaged(confirmed)
          /\ reply = IF confirmed THEN "stopped" ELSE "unconfirmed"

Handle(r, reply) ==
  \/ r.path = "/start" /\ HandleStart(r.owner, reply)
  \/ r.path = "/stop" /\ HandleStop(r.owner, reply)

HelperAnswers ==
  /\ helper.state = "up"
  /\ call.path # "none" /\ call.reply = "none"
  /\ \E reply \in {"started", "rejected", "stopped", "unconfirmed"} :
       /\ Handle(call, reply)
       /\ call' = [call EXCEPT !.reply = reply]
  /\ UNCHANGED <<backend, agent, sup, status, session, late, backlog, queue>>

\* a request nobody waits for any more
HelperAnswersLate ==
  /\ helper.state = "up"
  /\ \E r \in late :
       /\ \E reply \in {"started", "rejected", "stopped", "unconfirmed"} : Handle(r, reply)
       /\ late' = late \ {r}
  /\ UNCHANGED <<backend, agent, sup, status, session, call, backlog, queue>>

\* the request's thread never got to it
LateIsDropped ==
  /\ \E r \in late : late' = late \ {r}
  /\ UNCHANGED <<backend, agent, sup, status, session, call, helper, core, backlog, queue,
                 budget>>

\* SCM stop, stop_for_service: on success no start is admitted any more
ServiceStops ==
  /\ helper.state = "up" /\ ~helper.stopping
  /\ \/ /\ Fault
        /\ helper' = [helper EXCEPT !.core = 0, !.stopping = TRUE]
        /\ core' = IF Alive(helper.core) THEN [core EXCEPT ![helper.core].run = "exited"] ELSE core
     \/ StopManaged(FALSE)
  /\ UNCHANGED <<backend, agent, sup, status, session, call, late, backlog, queue>>

\* what an HTTP server that ends takes with it
Disconnected ==
  /\ late' = {}
  /\ call' = IF call.path # "none" /\ call.reply = "none" THEN [call EXCEPT !.reply = "lost"] ELSE call

\* the server is aborted and finish_confirmed_stop reports the service Stopped
ServiceEnds ==
  /\ helper.state = "up" /\ helper.stopping
  /\ helper' = [helper EXCEPT !.state = "stopped"]
  /\ Disconnected
  /\ UNCHANGED <<backend, agent, sup, status, session, core, backlog, queue, budget>>

\* the Helper process dies; its Core does not
HelperCrashes ==
  /\ helper.state = "up"
  /\ Fault
  /\ helper' = [helper EXCEPT !.state = "crashed"]
  /\ Disconnected
  /\ UNCHANGED <<backend, agent, sup, status, session, core, backlog, queue>>

\* a new Helper process remembers nothing
HelperStarts ==
  /\ helper.state # "up"
  /\ helper' = [state |-> "up", owner |-> 0, core |-> 0, stopping |-> FALSE, spawned |-> {}]
  /\ UNCHANGED <<backend, agent, sup, status, session, call, late, core, backlog, queue,
                 budget>>

(***************************************************************************)
(* The user interface: issue_supervisor_command.                           *)
(***************************************************************************)
\* The queue has a place within IPC_ENQUEUE_TIMEOUT, or the command is refused.  The
\* answer, or missing it after ten seconds, changes nothing here: the command stays.
IssueCommand(kind) ==
  /\ agent = "up" /\ budget.commands > 0
  /\ budget' = [budget EXCEPT !.commands = @ - 1]
  /\ queue' = IF Len(queue) < CommandCapacity THEN Append(queue, kind) ELSE queue
  /\ UNCHANGED <<backend, agent, sup, status, session, call, late, helper, core, backlog>>

(***************************************************************************)
(* supervise_core.                                                         *)
(***************************************************************************)
\* the top of the loop: what the next round begins with
LoopTop(start, crashes, failed) ==
  /\ sup' = [at |-> IF start THEN "start" ELSE "idle", for |-> "none",
             shouldStart |-> start, crashes |-> crashes, stream |-> 0, steady |-> FALSE]
  /\ status' = IF start THEN "starting" ELSE IF failed THEN "failed" ELSE "stopped"

\* a connection the Agent lets go of
Dropped == IF sup.stream # 0 THEN [core EXCEPT ![sup.stream].link = "closed"] ELSE core

\* stop_backend is entered with the stream gone
StopFor(reason) ==
  /\ sup' = [sup EXCEPT !.at = "stopping", !.for = reason, !.stream = 0]
  /\ core' = Dropped

\* supervise_core runs, and awaits no answer of the Helper
Supervising == agent = "up" /\ call = NoCall

\* start_backend through the Helper: capabilities first
HelperUnfit ==
  /\ Supervising /\ sup.at = "start" /\ backend = "helper"
  /\ \/ (helper.state # "up" \/ session.owner # 0) /\ UNCHANGED budget
     \/ helper.state = "up" /\ Fault
  /\ StopFor("cleanup")
  /\ UNCHANGED <<backend, agent, status, session, call, late, helper, backlog, queue>>

\* the owner is remembered before the request: a timeout does not prove that no Core was spawned
RequestStart ==
  /\ Supervising /\ sup.at = "start" /\ backend = "helper"
  /\ helper.state = "up" /\ session.owner = 0
  /\ LET a == session.attempt + 1
     IN  /\ session' = [session EXCEPT !.attempt = a, !.owner = a]
         /\ core' = Append(core, [run |-> "none", link |-> "none"])
         /\ call' = [path |-> "/start", owner |-> a, reply |-> "none"]
  /\ UNCHANGED <<backend, agent, sup, status, late, helper, backlog, queue, budget>>

(* Mutant of StartAnswered: an answer that was lost is taken for a Core that never was. *)
StartForgets ==
  /\ agent = "up" /\ call.path = "/start" /\ call.reply \in {"started", "rejected", "lost"}
  /\ call' = NoCall
  /\ session' = IF call.reply = "started" THEN session ELSE [session EXCEPT !.owner = 0]
  /\ sup' = IF call.reply = "started" THEN [sup EXCEPT !.at = "attach"]
            ELSE [sup EXCEPT !.at = "stopping", !.for = "cleanup"]
  /\ UNCHANGED <<backend, agent, status, late, helper, core, backlog, queue, budget>>


StartAnswered ==
  /\ agent = "up" /\ call.path = "/start" /\ call.reply \in {"started", "rejected", "lost"}
  /\ call' = NoCall
  /\ session' = IF call.reply = "rejected" THEN [session EXCEPT !.owner = 0] ELSE session
  /\ sup' = IF call.reply = "started" THEN [sup EXCEPT !.at = "attach"]
            ELSE [sup EXCEPT !.at = "stopping", !.for = "cleanup"]
  /\ UNCHANGED <<backend, agent, status, late, helper, core, backlog, queue, budget>>

\* helper_request_raw: two seconds to connect, five for the answer
CallTimesOut ==
  /\ agent = "up" /\ call.path # "none" /\ call.reply # "lost"
  /\ Fault
  /\ call' = [call EXCEPT !.reply = "lost"]
  /\ late' = IF call.reply = "none" THEN late \cup {[path |-> call.path, owner |-> call.owner]}
             ELSE late
  /\ UNCHANGED <<backend, agent, sup, status, session, helper, core, backlog, queue>>

\* start_backend without the Helper: the Core is a child of the Agent
SpawnLocal ==
  /\ Supervising /\ sup.at = "start" /\ backend = "local"
  /\ \/ /\ LET a == session.attempt + 1
           IN  /\ session' = [session EXCEPT !.attempt = a, !.child = a]
               /\ core' = Append(core, [run |-> "running", link |-> "none"])
        /\ sup' = [sup EXCEPT !.at = "attach"]
        /\ UNCHANGED budget
     \/ Fault /\ StopFor("cleanup") /\ UNCHANGED session
  /\ UNCHANGED <<backend, agent, status, call, late, helper, backlog, queue>>

\* accept_core takes the oldest connection; a dead one is refused, skipped or taken for alive
Accept ==
  /\ Supervising /\ sup.at = "attach" /\ backlog # <<>>
  /\ LET a == Head(backlog)
     IN  \/ /\ sup' = [sup EXCEPT !.at = "replay", !.stream = a]
            /\ core' = [core EXCEPT ![a].link = "attached"]
         \/ /\ ~Running(a)
            /\ sup' \in {sup, [sup EXCEPT !.at = "stopping", !.for = "cleanup"]}
            /\ core' = [core EXCEPT ![a].link = "closed"]
  /\ backlog' = Tail(backlog)
  /\ UNCHANGED <<backend, agent, status, session, call, late, helper, queue, budget>>

(* Mutant of AttachTimesOut: accept_core waits for as long as it takes. *)
AttachWithoutDeadline == Supervising /\ sup.at = "attach" /\ sup.stream # 0 /\ UNCHANGED vars

\* CORE_CONNECT_TIMEOUT: nobody has connected, because the Core has ended or is slow
AttachTimesOut ==
  /\ Supervising /\ sup.at = "attach" /\ backlog = <<>>
  /\ \/ \E a \in {session.owner, session.child} : a # 0 /\ Running(a) /\ Fault
     \/ ~Alive(session.owner) /\ ~Alive(session.child) /\ UNCHANGED budget
  /\ StopFor("cleanup")
  /\ UNCHANGED <<backend, agent, status, session, call, late, helper, backlog, queue>>

\* replay_journal: an empty journal is replayed on any stream
Replayed ==
  /\ Supervising /\ sup.at = "replay"
  /\ sup' = [sup EXCEPT !.at = "ready", !.steady = FALSE]
  /\ status' = "ready"
  /\ UNCHANGED <<backend, agent, session, call, late, helper, core, backlog, queue, budget>>

ReplayFails ==
  /\ Supervising /\ sup.at = "replay"
  /\ \/ ~Running(sup.stream) /\ UNCHANGED budget
     \/ Running(sup.stream) /\ Fault
  /\ StopFor("cleanup")
  /\ UNCHANGED <<backend, agent, status, session, call, late, helper, backlog, queue>>

\* ready_at.elapsed() reaches a minute
Steadies ==
  /\ Supervising /\ sup.at = "ready" /\ ~sup.steady /\ Running(sup.stream)
  /\ sup' = [sup EXCEPT !.steady = TRUE]
  /\ UNCHANGED <<backend, agent, status, session, call, late, helper, core, backlog, queue, budget>>

\* the end of the stream, an unreadable line or a writer that gave up
CoreLost ==
  /\ Supervising /\ sup.at = "ready"
  /\ \/ ~Running(sup.stream) /\ UNCHANGED budget
     \/ Running(sup.stream) /\ Fault
  /\ StopFor("crash")
  /\ status' = "starting"
  /\ UNCHANGED <<backend, agent, session, call, late, helper, backlog, queue>>

\* recv in an idle supervisor or in one of the select! of attach, replay, ready and backoff
TakeCommand ==
  /\ Supervising /\ sup.at \in {"idle", "attach", "replay", "ready", "backoff"}
  /\ queue # <<>>
  /\ queue' = Tail(queue)
  /\ StopFor(Head(queue))
  /\ status' = IF sup.at = "ready" THEN "starting" ELSE status
  /\ UNCHANGED <<backend, agent, session, call, late, helper, backlog, budget>>

BackoffEnds ==
  /\ Supervising /\ sup.at = "backoff"
  /\ LoopTop(TRUE, sup.crashes, FALSE)
  /\ UNCHANGED <<backend, agent, session, call, late, helper, core, backlog, queue, budget>>

(***************************************************************************)
(* stop_backend and what follows it.                                       *)
(***************************************************************************)
\* a Core that was ready for a minute gives the retries back
Stopped ==
  \/ /\ sup.for \in {"cleanup", "crash"}
     /\ LET crashes == IF sup.for = "crash" /\ sup.steady THEN 1 ELSE sup.crashes + 1
        IN  IF crashes > MaxCrashRetries THEN LoopTop(FALSE, crashes, TRUE)
            ELSE /\ sup' = [sup EXCEPT !.at = "backoff", !.for = "none", !.crashes = crashes]
                 /\ UNCHANGED status
     /\ UNCHANGED agent
  \/ /\ sup.for \in {"restart", "stop"}
     /\ LoopTop(sup.for = "restart", sup.crashes, FALSE)
     /\ UNCHANGED agent
  \/ /\ sup.for = "shutdown"
     /\ status' = "stopped"
     /\ agent' = "leaving"
     /\ UNCHANGED sup

\* the exit is not confirmed: the owner stays, and the supervisor waits for a command
NotStopped ==
  /\ LoopTop(FALSE, sup.crashes, TRUE)
  /\ UNCHANGED agent

\* nothing was started, or it was rejected
NothingToStop ==
  /\ Supervising /\ sup.at = "stopping"
  /\ session.owner = 0 /\ session.child = 0
  /\ Stopped
  /\ UNCHANGED <<backend, session, call, late, helper, core, backlog, queue, budget>>

RequestStop ==
  /\ Supervising /\ sup.at = "stopping" /\ session.owner # 0
  /\ helper.state = "up"
  /\ call' = [path |-> "/stop", owner |-> session.owner, reply |-> "none"]
  /\ UNCHANGED <<backend, agent, sup, status, session, late, helper, core, backlog, queue,
                 budget>>

HelperUnreachable ==
  /\ Supervising /\ sup.at = "stopping" /\ session.owner # 0
  /\ helper.state # "up"
  /\ NotStopped
  /\ UNCHANGED <<backend, session, call, late, helper, core, backlog, queue, budget>>

StopAnswered ==
  /\ agent = "up" /\ call.path = "/stop" /\ call.reply \in {"stopped", "unconfirmed", "lost"}
  /\ call' = NoCall
  /\ IF call.reply = "stopped" THEN session' = [session EXCEPT !.owner = 0] /\ Stopped
                               ELSE UNCHANGED session /\ NotStopped
  /\ UNCHANGED <<backend, late, helper, core, backlog, queue, budget>>

\* kill and wait, at most five seconds
StopLocal ==
  /\ Supervising /\ sup.at = "stopping" /\ session.child # 0
  /\ \/ /\ session' = [session EXCEPT !.child = 0]
        /\ core' = [core EXCEPT ![session.child].run = "exited"]
        /\ Stopped
        /\ UNCHANGED budget
     \/ /\ Alive(session.child) /\ Fault
        /\ NotStopped
        /\ UNCHANGED <<session, core>>
  /\ UNCHANGED <<backend, call, late, helper, backlog, queue>>

(***************************************************************************)
(* The end of the Agent: its sockets close, and a local Core is killed     *)
(* with the handle (kill_on_drop).                                         *)
(***************************************************************************)
AgentGone ==
  /\ agent' = "gone"
  /\ core' = [a \in Attempts |->
                [run |-> IF a = session.child THEN "exited" ELSE core[a].run,
                 link |-> IF core[a].link = "none" THEN "none" ELSE "closed"]]
  /\ backlog' = <<>>
  /\ call' = NoCall
  /\ late' = IF call.path # "none" /\ call.reply = "none"
               THEN late \cup {[path |-> call.path, owner |-> call.owner]} ELSE late
  /\ UNCHANGED <<backend, sup, status, session, helper, queue>>

\* the UI handler signals once its answer is delivered, the fallback after two seconds
ShutdownSignalled == agent = "leaving" /\ AgentGone /\ UNCHANGED budget

AgentCrashes == agent = "up" /\ Fault /\ AgentGone

Program ==
  \/ \E a \in Attempts : CoreDials(a) \/ CoreLeaves(a)
  \/ HelperAnswers \/ HelperAnswersLate \/ ServiceEnds
  \/ HelperUnfit \/ RequestStart \/ StartAnswered \/ SpawnLocal
  \/ Accept \/ AttachTimesOut \/ Replayed \/ ReplayFails \/ CoreLost
  \/ TakeCommand \/ BackoffEnds
  \/ NothingToStop \/ RequestStop \/ HelperUnreachable \/ StopAnswered \/ StopLocal
  \/ ShutdownSignalled

Environment ==
  \/ \E a \in Attempts : CoreCrashes(a)
  \/ Steadies \/ LateIsDropped \/ ServiceStops \/ HelperCrashes \/ HelperStarts
  \/ CallTimesOut \/ AgentCrashes
  \/ \E kind \in Kinds : IssueCommand(kind)

Next == Program \/ Environment

Spec == Init /\ [][Next]_vars

(***************************************************************************)
(* The tasks of the Agent, the threads of the Helper and the Core go on    *)
(* when they can.  Nobody has to restart the Helper.                       *)
(***************************************************************************)
FairSpec == Spec /\ WF_vars(Program)

(***************************************************************************)
(* What the ownership protocol promises.                                   *)
(***************************************************************************)
\* A start of attempt a that may still happen, or that has.
MayRun(a) ==
  \/ Running(a)
  \/ [path |-> "/start", owner |-> a] \in late
  \/ call.path = "/start" /\ call.owner = a

\* No Core is forgotten: as long as a Core of this Agent runs, or the request
\* that would spawn it may still be handled, the supervisor holds its owner or
\* its handle, whatever was timed out, refused or lost in between.  So there
\* is never a second Core beside one whose exit nobody saw.
NoCoreForgotten ==
  agent # "gone" =>
    \A a \in Attempts : MayRun(a) => a \in {session.owner, session.child}

\* The same, in states whose parts have the shapes that their code knows.
SupervisorInvariant == TypeOK /\ NoCoreForgotten

\* Stopped means gone: when the user is told that the Core has stopped, or that
\* the Agent is leaving, no Core runs and no delayed request can bring one
\* back, also when the Helper was restarted in between and has no memory of it.
StoppedIsGone ==
  status = "stopped" /\ agent # "gone" => \A a \in Attempts : ~MayRun(a)

\* The Windows service reports Stopped only after every Core it spawned has
\* ended: a start cannot slip in behind the stop that was confirmed.
ServiceStopIsFinal ==
  helper.state = "stopped" => \A a \in helper.spawned : ~Running(a)

\* Starting ends: each round of starting, attaching, replaying and backing off
\* ends in a Core that is ready or in a stop or failure the user can see,
\* because the crash count bounds the rounds wherever they fail.
StartingSettles == status = "starting" ~> (status # "starting" \/ agent = "gone")

\* A command that was queued is taken, wherever the supervisor was when it came.
CommandsAreTaken == queue # <<>> ~> (queue = <<>> \/ agent # "up")

\* Nothing outlives the Agent: after its end, orderly or not, every Core it
\* started ends too, also one that a delayed request spawns afterwards.
NothingOutlivesTheAgent == <>[](agent = "gone" => NoneRuns)

\* The supervisor comes to an end with whatever it has begun: a start, a command
\* in its queue, its Cores when it ends itself.
SupervisorSettles == StartingSettles /\ CommandsAreTaken /\ NothingOutlivesTheAgent
=============================================================================
