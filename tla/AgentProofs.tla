---------------------------- MODULE AgentProofs ----------------------------
(***************************************************************************)
(* The two supervisors of the Agent.                                       *)
(*                                                                         *)
(* CoreSupervisor: no Core is forgotten, and stopped means gone, for any   *)
(* queue, number of retries, faults and commands.  The argument follows    *)
(* one attempt: its start is in the Agent's call, or among the requests it *)
(* gave up on, or has been handled, and never in two of these places; the  *)
(* Helper that has handled it remembers its owner until it forgets         *)
(* everything, so what the Helper confirms to have stopped is what the     *)
(* Agent meant.                                                            *)
(*                                                                         *)
(* StrictAgent: no transaction is orphaned, and what is armed is watched,  *)
(* for any policies, attempts, faults and commands.  The argument follows  *)
(* the commits: whatever the Broker has armed, or may still arm by a       *)
(* commit in its queue or on its way to it, is covered by the intent file; *)
(* and a controller between two states has a task that answers for it.     *)
(***************************************************************************)
EXTENDS CoreSupervisor, StrictAgent, SequenceTheorems, TLAPS

CoreRecords == [run : {"none", "running", "exited"},
                link : {"none", "backlog", "attached", "closed"}]

\* The parts of the state when n attempts were made: every attempt that is
\* remembered anywhere is one of them.
SupShape(s, n) ==
  /\ s \in [at : Places, for : Kinds \cup {"none", "cleanup", "crash"},
             shouldStart : BOOLEAN, crashes : Nat, stream : Nat, steady : BOOLEAN]
  /\ s.stream \in 0 .. n
SessionShape(s) ==
  /\ s \in [owner : Nat, attempt : Nat, child : Nat]
  /\ s.owner \in 0 .. s.attempt /\ s.child \in 0 .. s.attempt
CallShape(c, n) ==
  /\ c \in [path : {"none", "/start", "/stop"}, owner : Nat,
             reply : {"none", "started", "rejected", "stopped", "unconfirmed", "lost"}]
  /\ c.owner \in 0 .. n
LateShape(l, n) == l \subseteq [path : {"/start", "/stop"}, owner : 1 .. n]
HelperShape(h, n) ==
  /\ h \in [state : {"up", "stopped", "crashed"}, owner : Nat, core : Nat,
             stopping : BOOLEAN, spawned : SUBSET Nat]
  /\ h.owner \in 0 .. n /\ h.core \in {0, h.owner} /\ h.spawned \subseteq 1 .. n
CoreShape(c, n) == c \in [1 .. n -> CoreRecords]
QueueShape(q) == q \in Seq(Kinds) /\ Len(q) <= CommandCapacity
StatusShape(s) == s \in {"starting", "ready", "stopped", "failed"}
AgentShape(a) == a \in {"up", "leaving", "gone"}
BudgetShape(b) == b \in [faults : Nat, commands : Nat]

Shape ==
  /\ backend \in Backends /\ AgentShape(agent) /\ StatusShape(status)
  /\ SessionShape(session)
  /\ SupShape(sup, session.attempt)
  /\ CallShape(call, session.attempt)
  /\ LateShape(late, session.attempt)
  /\ HelperShape(helper, session.attempt)
  /\ CoreShape(core, session.attempt)
  /\ backlog \in Seq(1 .. session.attempt)
  /\ QueueShape(queue) /\ BudgetShape(budget)

\* A start of attempt a that the Helper has not handled.
Unhandled(a) ==
  \/ [path |-> "/start", owner |-> a] \in late
  \/ call.path = "/start" /\ call.owner = a /\ call.reply = "none"

OneBackend ==
  /\ backend = "helper" => session.child = 0
  /\ backend = "local" =>
       /\ session.owner = 0 /\ call = NoCall /\ late = {}
       /\ helper.owner = 0

CallIsForOwner ==
  /\ agent = "gone" => call = NoCall
  /\ call.path # "none" => call.owner = session.owner /\ session.owner # 0
  /\ call.path = "none" => call = NoCall
  /\ call.path = "/start" => call.reply \in {"none", "started", "rejected", "lost"}

\* A start is waited for, given up, or handled, and in no two of these places.
HandledOnce ==
  /\ call.path = "/start" /\ call.reply # "lost" =>
       [path |-> "/start", owner |-> call.owner] \notin late
  /\ \A a \in Attempts : Unhandled(a) => ~Running(a) /\ helper.owner # a
  /\ call.path = "/start" /\ call.reply = "rejected" => ~Running(call.owner)

\* What the Helper holds a handle to, of all it has spawned.
HandleIsHeld ==
  /\ helper.owner # 0 /\ Running(helper.owner) => helper.core = helper.owner
  /\ \A a \in helper.spawned : Running(a) => helper.core = a
  /\ helper.stopping => \A a \in helper.spawned : ~Running(a)
  /\ helper.state = "stopped" => helper.stopping

StopIsProven ==
  call.path = "/stop" /\ call.reply = "stopped" =>
    /\ ~Running(call.owner)
    /\ [path |-> "/start", owner |-> call.owner] \notin late

\* A round starts with nothing left of the one before.
RoundsStartClean ==
  /\ sup.at \in {"start", "backoff"} => session.child = 0
  /\ sup.at = "start" /\ call = NoCall /\ agent # "gone" => session.owner = 0
  /\ sup.at = "backoff" => session.owner = 0
  /\ sup.at = "start" => status = "starting"
  /\ call.path = "/start" => sup.at = "start"
  /\ call.path = "/stop" => sup.at = "stopping"
  /\ status = "stopped" => session.owner = 0 /\ session.child = 0

\* What concerns the ownership of Cores, and not the round of the supervisor.
Ownership ==
  /\ OneBackend /\ CallIsForOwner /\ HandledOnce /\ HandleIsHeld
  /\ StopIsProven /\ NoCoreForgotten

SupervisorInv == Shape /\ Ownership /\ RoundsStartClean

-----------------------------------------------------------------------------
(* What the operators that the actions share do.                           *)

LEMMA CoreAppended ==
  ASSUME NEW n \in Nat, NEW f \in [1 .. n -> CoreRecords], NEW r \in CoreRecords
  PROVE  /\ Append(f, r) \in [1 .. n + 1 -> CoreRecords]
         /\ Append(f, r)[n + 1] = r
         /\ \A i \in 1 .. n : Append(f, r)[i] = f[i]
<1>1. f \in Seq(CoreRecords) /\ Len(f) = n
      OBVIOUS
<1>2. /\ Append(f, r) \in Seq(CoreRecords) /\ Len(Append(f, r)) = n + 1
      /\ Append(f, r)[n + 1] = r
      /\ \A i \in 1 .. n : Append(f, r)[i] = f[i]
      BY <1>1, AppendProperties
<1>3. QED  BY <1>2, LenProperties

LEMMA ShapeTypes == Shape => TypeOK /\ Attempts = 1 .. session.attempt /\ session.attempt \in Nat
<1> SUFFICES ASSUME Shape PROVE TypeOK /\ Attempts = 1 .. session.attempt /\ session.attempt \in Nat
    OBVIOUS
<1> USE DEF Shape, SupShape, SessionShape, CallShape, LateShape, HelperShape, CoreShape,
            QueueShape, StatusShape, AgentShape, BudgetShape
<1>1. Attempts = 1 .. session.attempt /\ session.attempt \in Nat
      BY DEF Attempts
<1>2. \A a \in Attempts : core[a] \in CoreRecords
      BY <1>1
<1>3. QED  BY <1>1, <1>2 DEF TypeOK, CoreRecords

LEMMA BudgetFalls ==
  ASSUME BudgetShape(budget),
         Fault \/ UNCHANGED budget
  PROVE  BudgetShape(budget')
BY DEF BudgetShape, Fault

\* A part keeps its shape when there are more attempts.
LEMMA ShapeGrows ==
  ASSUME NEW n \in Nat, Shape, session.attempt = n
  PROVE  /\ SupShape(sup, n + 1) /\ CallShape(call, n + 1) /\ LateShape(late, n + 1)
         /\ HelperShape(helper, n + 1) /\ backlog \in Seq(1 .. n + 1)
<1>0. 1 .. n \subseteq 1 .. n + 1 /\ 0 .. n \subseteq 0 .. n + 1
      OBVIOUS
<1>1. SupShape(sup, n + 1)
      BY <1>0 DEF Shape, SupShape
<1>2. CallShape(call, n + 1)
      BY <1>0 DEF Shape, CallShape
<1>3. LateShape(late, n + 1)
      BY <1>0 DEF Shape, LateShape
<1>4. HelperShape(helper, n + 1)
      BY <1>0 DEF Shape, HelperShape
<1>5. backlog \in Seq(1 .. n + 1)
      BY <1>0, SeqMonotonic DEF Shape
<1>6. QED  BY <1>1, <1>2, <1>3, <1>4, <1>5

\* A write to the record of one Core.
LEMMA CoreWritten ==
  ASSUME NEW n \in Nat, CoreShape(core, n), NEW b \in 1 .. n,
         NEW link \in {"none", "backlog", "attached", "closed"},
         NEW run \in {"none", "running", "exited"}
  PROVE  /\ CoreShape([core EXCEPT ![b].link = link], n)
         /\ CoreShape([core EXCEPT ![b].run = run], n)
         /\ \A a \in 1 .. n : [core EXCEPT ![b].link = link][a].run = core[a].run
         /\ \A a \in 1 .. n : [core EXCEPT ![b].run = run][a].run
                                = IF a = b THEN run ELSE core[a].run
<1>1. \A a \in 1 .. n : /\ core[a] \in CoreRecords
                        /\ [core[a] EXCEPT !.link = link] \in CoreRecords
                        /\ [core[a] EXCEPT !.run = run] \in CoreRecords
      BY DEF CoreShape, CoreRecords
<1>2. CoreShape([core EXCEPT ![b].link = link], n)
      BY <1>1 DEF CoreShape
<1>3. CoreShape([core EXCEPT ![b].run = run], n)
      BY <1>1 DEF CoreShape
<1>4. QED  BY <1>1, <1>2, <1>3 DEF CoreShape, CoreRecords

LEMMA SupStopping ==
  ASSUME NEW n \in Nat, NEW s, SupShape(s, n), NEW reason \in Kinds \cup {"cleanup", "crash"}
  PROVE  LET t == [s EXCEPT !.at = "stopping", !.for = reason, !.stream = 0]
         IN  SupShape(t, n) /\ t.at = "stopping"
<1> DEFINE u == [s EXCEPT !.at = "stopping"]
           v == [u EXCEPT !.for = reason]
<1>1. SupShape(u, n) /\ u.at = "stopping"
      BY DEF SupShape, Places
<1>2. SupShape(v, n) /\ v.at = "stopping"
      <2> HIDE DEF u
      <2> QED BY <1>1 DEF SupShape
<1>3. SupShape([v EXCEPT !.stream = 0], n) /\ [v EXCEPT !.stream = 0].at = "stopping"
      <2> HIDE DEF v
      <2> QED BY <1>2 DEF SupShape
<1>4. QED  BY <1>3

LEMMA StopForEffect ==
  ASSUME NEW n \in Nat, SupShape(sup, n), CoreShape(core, n),
         NEW reason \in Kinds \cup {"cleanup", "crash"}, StopFor(reason)
  PROVE  /\ SupShape(sup', n) /\ sup'.at = "stopping"
         /\ CoreShape(core', n) /\ \A a \in 1 .. n : core'[a].run = core[a].run
<1>1. SupShape(sup', n) /\ sup'.at = "stopping"
      BY SupStopping DEF StopFor
<1>2. CASE sup.stream = 0
      BY <1>1, <1>2 DEF StopFor, Dropped
<1>3. CASE sup.stream # 0
  <2>1. sup.stream \in 1 .. n
        BY <1>3 DEF SupShape
  <2>2. core' = [core EXCEPT ![sup.stream].link = "closed"]
        BY <1>3 DEF StopFor, Dropped
  <2>3. /\ CoreShape([core EXCEPT ![sup.stream].link = "closed"], n)
        /\ \A a \in 1 .. n : [core EXCEPT ![sup.stream].link = "closed"][a].run = core[a].run
        BY <2>1, CoreWritten
  <2>4. QED  BY <1>1, <2>2, <2>3
<1>4. QED  BY <1>2, <1>3

LEMMA LoopTopEffect ==
  ASSUME NEW n \in Nat, SupShape(sup, n), NEW start \in BOOLEAN, NEW failed \in BOOLEAN,
         NEW crashes \in Nat, LoopTop(start, crashes, failed)
  PROVE  /\ SupShape(sup', n) /\ StatusShape(status')
         /\ sup'.at = IF start THEN "start" ELSE "idle"
         /\ status' = IF start THEN "starting" ELSE IF failed THEN "failed" ELSE "stopped"
BY DEF LoopTop, SupShape, StatusShape, Places

LEMMA StoppedEffect ==
  ASSUME NEW n \in Nat, SupShape(sup, n), StatusShape(status), agent = "up",
         sup.at = "stopping", Stopped
  PROVE  /\ SupShape(sup', n) /\ StatusShape(status') /\ AgentShape(agent')
         /\ agent' # "gone"
         /\ sup'.at = "start" => status' = "starting"
<1> DEFINE crashes == IF sup.for = "crash" /\ sup.steady THEN 1 ELSE sup.crashes + 1
<1>1. crashes \in Nat /\ sup.crashes \in Nat /\ (sup.for = "restart") \in BOOLEAN
      BY DEF SupShape
<1> HIDE DEF crashes
<1>2. CASE /\ sup.for \in {"cleanup", "crash"} /\ UNCHANGED agent
           /\ LoopTop(FALSE, crashes, TRUE)
      BY <1>1, <1>2, LoopTopEffect DEF AgentShape
<1>3. CASE /\ UNCHANGED <<agent, status>>
           /\ sup' = [sup EXCEPT !.at = "backoff", !.for = "none", !.crashes = crashes]
      BY <1>1, <1>3 DEF SupShape, AgentShape, Places
<1>4. CASE UNCHANGED agent /\ LoopTop(sup.for = "restart", sup.crashes, FALSE)
      BY <1>1, <1>4, LoopTopEffect DEF AgentShape
<1>5. CASE status' = "stopped" /\ agent' = "leaving" /\ UNCHANGED sup
      BY <1>5 DEF AgentShape, StatusShape
<1>6. QED  BY <1>2, <1>3, <1>4, <1>5 DEF Stopped, crashes

LEMMA NotStoppedEffect ==
  ASSUME NEW n \in Nat, SupShape(sup, n), NotStopped
  PROVE  /\ SupShape(sup', n) /\ StatusShape(status') /\ agent' = agent
         /\ sup'.at = "idle" /\ status' = "failed"
<1>1. sup.crashes \in Nat
      BY DEF SupShape
<1>2. QED  BY <1>1, LoopTopEffect DEF NotStopped

-----------------------------------------------------------------------------
(* The Helper: what handling a request, stopping and restarting do.        *)

HelperRecords == [state : {"up", "stopped", "crashed"}, owner : Nat, core : Nat,
                  stopping : BOOLEAN, spawned : SUBSET Nat]

LEMMA HelperReaped ==
  ASSUME NEW n \in Nat, HelperShape(helper, n),
         helper' = [helper EXCEPT !.core = 0]
  PROVE  /\ HelperShape(helper', n)
         /\ helper'.state = helper.state /\ helper'.owner = helper.owner /\ helper'.core = 0
         /\ helper'.stopping = helper.stopping /\ helper'.spawned = helper.spawned
<1>1. helper \in HelperRecords
      BY DEF HelperShape, HelperRecords
<1>2. helper' \in HelperRecords
      BY <1>1 DEF HelperRecords
<1>3. /\ helper'.state = helper.state /\ helper'.owner = helper.owner /\ helper'.core = 0
      /\ helper'.stopping = helper.stopping /\ helper'.spawned = helper.spawned
      BY <1>1 DEF HelperRecords
<1>4. HelperShape(helper', n)
      BY <1>2, <1>3 DEF HelperShape, HelperRecords
<1>5. QED  BY <1>3, <1>4

LEMMA HelperRefused ==
  ASSUME NEW n \in Nat, HelperShape(helper, n), NEW o \in 1 .. n,
         helper' = [helper EXCEPT !.owner = o, !.core = 0]
  PROVE  /\ HelperShape(helper', n)
         /\ helper'.state = helper.state /\ helper'.owner = o /\ helper'.core = 0
         /\ helper'.stopping = helper.stopping /\ helper'.spawned = helper.spawned
<1>1. helper \in HelperRecords /\ o \in Nat
      BY DEF HelperShape, HelperRecords
<1>2. helper' \in HelperRecords
      BY <1>1 DEF HelperRecords
<1>3. /\ helper'.state = helper.state /\ helper'.owner = o /\ helper'.core = 0
      /\ helper'.stopping = helper.stopping /\ helper'.spawned = helper.spawned
      BY <1>1 DEF HelperRecords
<1>4. HelperShape(helper', n)
      BY <1>2, <1>3 DEF HelperShape, HelperRecords
<1>5. QED  BY <1>3, <1>4

LEMMA HelperSpawned ==
  ASSUME NEW n \in Nat, HelperShape(helper, n), NEW o \in 1 .. n,
         helper' = [helper EXCEPT !.owner = o, !.core = o, !.spawned = @ \cup {o}]
  PROVE  /\ HelperShape(helper', n)
         /\ helper'.state = helper.state /\ helper'.owner = o /\ helper'.core = o
         /\ helper'.stopping = helper.stopping /\ helper'.spawned = helper.spawned \cup {o}
<1>1. helper \in HelperRecords /\ o \in Nat /\ helper.spawned \cup {o} \in SUBSET Nat
      BY DEF HelperShape, HelperRecords
<1>2. helper' \in HelperRecords
      BY <1>1 DEF HelperRecords
<1>3. /\ helper'.state = helper.state /\ helper'.owner = o /\ helper'.core = o
      /\ helper'.stopping = helper.stopping /\ helper'.spawned = helper.spawned \cup {o}
      BY <1>1 DEF HelperRecords
<1>4. HelperShape(helper', n)
      BY <1>2, <1>3 DEF HelperShape, HelperRecords
<1>5. QED  BY <1>3, <1>4

LEMMA HelperClosed ==
  ASSUME NEW n \in Nat, HelperShape(helper, n),
         helper' = [helper EXCEPT !.core = 0, !.stopping = TRUE]
  PROVE  /\ HelperShape(helper', n)
         /\ helper'.state = helper.state /\ helper'.owner = helper.owner /\ helper'.core = 0
         /\ helper'.stopping = TRUE /\ helper'.spawned = helper.spawned
<1>1. helper \in HelperRecords
      BY DEF HelperShape, HelperRecords
<1>2. helper' \in HelperRecords
      BY <1>1 DEF HelperRecords
<1>3. /\ helper'.state = helper.state /\ helper'.owner = helper.owner /\ helper'.core = 0
      /\ helper'.stopping = TRUE /\ helper'.spawned = helper.spawned
      BY <1>1 DEF HelperRecords
<1>4. HelperShape(helper', n)
      BY <1>2, <1>3 DEF HelperShape, HelperRecords
<1>5. QED  BY <1>3, <1>4

LEMMA HelperEnded ==
  ASSUME NEW n \in Nat, HelperShape(helper, n), NEW s \in {"stopped", "crashed"},
         helper' = [helper EXCEPT !.state = s]
  PROVE  /\ HelperShape(helper', n)
         /\ helper'.state = s /\ helper'.owner = helper.owner /\ helper'.core = helper.core
         /\ helper'.stopping = helper.stopping /\ helper'.spawned = helper.spawned
<1>1. helper \in HelperRecords
      BY DEF HelperShape, HelperRecords
<1>2. helper' \in HelperRecords
      BY <1>1 DEF HelperRecords
<1>3. /\ helper'.state = s /\ helper'.owner = helper.owner /\ helper'.core = helper.core
      /\ helper'.stopping = helper.stopping /\ helper'.spawned = helper.spawned
      BY <1>1 DEF HelperRecords
<1>4. HelperShape(helper', n)
      BY <1>2, <1>3 DEF HelperShape, HelperRecords
<1>5. QED  BY <1>3, <1>4

\* A start that was not handled before is refused, or spawns its Core.
LEMMA HandleStartEffect ==
  ASSUME Shape, NEW n \in Nat, n = session.attempt, NEW o \in 1 .. n,
         helper.owner # o, NEW reply, HandleStart(o, reply)
  PROVE  /\ HelperShape(helper', n) /\ CoreShape(core', n) /\ BudgetShape(budget')
         /\ helper'.state = helper.state /\ helper'.stopping = helper.stopping
         /\ \/ /\ reply = "rejected" /\ core' = core
               /\ helper'.spawned = helper.spawned
               /\ helper'.owner \in {helper.owner, o}
               /\ helper'.core = helper.core \/ ~Alive(helper.core)
            \/ /\ reply = "started" /\ ~helper.stopping /\ ~Alive(helper.core)
               /\ helper'.owner = o /\ helper'.core = o
               /\ helper'.spawned = helper.spawned \cup {o}
               /\ \A a \in 1 .. n : core'[a].run = IF a = o THEN "running" ELSE core[a].run
<1>1. HelperShape(helper, n) /\ CoreShape(core, n) /\ BudgetShape(budget)
      BY DEF Shape
<1>2. BudgetShape(budget')
      BY <1>1, BudgetFalls DEF HandleStart
<1>3. CASE reply = "rejected" /\ UNCHANGED <<helper, core>>
      BY <1>1, <1>2, <1>3
<1>4. CASE /\ reply = "rejected" /\ UNCHANGED core /\ ~Alive(helper.core)
           /\ helper' = [helper EXCEPT !.core = 0]
      BY <1>1, <1>2, <1>4, HelperReaped
<1>5. CASE /\ reply = "rejected" /\ UNCHANGED core /\ ~Alive(helper.core)
           /\ helper' = [helper EXCEPT !.owner = o, !.core = 0]
  <2>1. helper' = [helper EXCEPT !.owner = o, !.core = 0]
        BY <1>5
  <2>2. /\ HelperShape(helper', n)
        /\ helper'.state = helper.state /\ helper'.stopping = helper.stopping
        /\ helper'.owner = o /\ helper'.spawned = helper.spawned
        BY <1>1, <2>1, HelperRefused
  <2>3. QED  BY <1>1, <1>2, <1>5, <2>2
<1>6. CASE /\ reply = "started" /\ ~helper.stopping /\ ~Alive(helper.core)
           /\ helper' = [helper EXCEPT !.owner = o, !.core = o, !.spawned = @ \cup {o}]
           /\ core' = [core EXCEPT ![o].run = "running"]
  <2>1. /\ CoreShape([core EXCEPT ![o].run = "running"], n)
        /\ \A a \in 1 .. n : [core EXCEPT ![o].run = "running"][a].run
                               = IF a = o THEN "running" ELSE core[a].run
        BY <1>1, CoreWritten
  <2>2. /\ HelperShape(helper', n)
        /\ helper'.state = helper.state /\ helper'.stopping = helper.stopping
        /\ helper'.owner = o /\ helper'.core = o
        /\ helper'.spawned = helper.spawned \cup {o}
    <3>1. helper' = [helper EXCEPT !.owner = o, !.core = o, !.spawned = @ \cup {o}]
          BY <1>6
    <3>2. QED  BY <1>1, <3>1, HelperSpawned
  <2>3. QED  BY <1>2, <1>6, <2>1, <2>2
<1>7. QED  BY <1>3, <1>4, <1>5, <1>6 DEF HandleStart

\* A confirmed stop has seen the exit of the process that the Helper holds.
LEMMA ManagedExit ==
  ASSUME NEW n \in Nat, HelperShape(helper, n), CoreShape(core, n),
         core' = IF Alive(helper.core) THEN [core EXCEPT ![helper.core].run = "exited"] ELSE core
  PROVE  /\ CoreShape(core', n)
         /\ \A a \in 1 .. n : core'[a].run = IF Running(a) /\ a = helper.core
                                               THEN "exited" ELSE core[a].run
<1>1. CASE ~Alive(helper.core)
  <2>1. core' = core
        BY <1>1
  <2>2. \A a \in 1 .. n : ~(Running(a) /\ a = helper.core)
        BY <1>1 DEF Alive
  <2>3. QED  BY <2>1, <2>2
<1>2. CASE Alive(helper.core)
  <2>1. helper.core \in 1 .. n /\ Running(helper.core)
        BY <1>2 DEF Alive, HelperShape
  <2>2. core' = [core EXCEPT ![helper.core].run = "exited"]
        BY <1>2
  <2>3. /\ CoreShape([core EXCEPT ![helper.core].run = "exited"], n)
        /\ \A a \in 1 .. n : [core EXCEPT ![helper.core].run = "exited"][a].run
                               = IF a = helper.core THEN "exited" ELSE core[a].run
        BY <2>1, CoreWritten
  <2>4. QED  BY <2>1, <2>2, <2>3
<1>3. QED  BY <1>1, <1>2

LEMMA ManagedStopped ==
  ASSUME Shape, NEW n \in Nat, n = session.attempt, StopManaged(TRUE)
  PROVE  /\ HelperShape(helper', n) /\ CoreShape(core', n) /\ BudgetShape(budget')
         /\ helper'.state = helper.state /\ helper'.stopping = helper.stopping
         /\ helper'.owner = helper.owner /\ helper'.core = 0
         /\ helper'.spawned = helper.spawned
         /\ \A a \in 1 .. n : core'[a].run = IF Running(a) /\ a = helper.core
                                               THEN "exited" ELSE core[a].run
<1>1. HelperShape(helper, n) /\ CoreShape(core, n) /\ BudgetShape(budget)
      BY DEF Shape
<1>2. /\ helper' = [helper EXCEPT !.core = 0] /\ UNCHANGED budget
      /\ core' = IF Alive(helper.core) THEN [core EXCEPT ![helper.core].run = "exited"] ELSE core
      BY DEF StopManaged
<1>3. /\ HelperShape(helper', n)
      /\ helper'.state = helper.state /\ helper'.stopping = helper.stopping
      /\ helper'.owner = helper.owner /\ helper'.core = 0
      /\ helper'.spawned = helper.spawned
      BY <1>1, <1>2, HelperReaped
<1>4. /\ CoreShape(core', n)
      /\ \A a \in 1 .. n : core'[a].run = IF Running(a) /\ a = helper.core
                                            THEN "exited" ELSE core[a].run
      BY <1>1, <1>2, ManagedExit
<1>5. QED  BY <1>1, <1>2, <1>3, <1>4

LEMMA HandleStopEffect ==
  ASSUME Shape, NEW n \in Nat, n = session.attempt, NEW o, NEW reply, HandleStop(o, reply)
  PROVE  \/ reply = "unconfirmed" /\ UNCHANGED <<helper, core>> /\ BudgetShape(budget')
         \/ reply = "stopped" /\ helper.owner = o /\ StopManaged(TRUE)
<1>1. BudgetShape(budget)
      BY DEF Shape
<1>2. CASE /\ reply = "unconfirmed" /\ UNCHANGED <<helper, core>>
           /\ Fault \/ UNCHANGED budget
      BY <1>1, <1>2, BudgetFalls
<1>3. ASSUME NEW confirmed \in BOOLEAN, helper.owner = o, StopManaged(confirmed),
             reply = IF confirmed THEN "stopped" ELSE "unconfirmed"
      PROVE  \/ reply = "unconfirmed" /\ UNCHANGED <<helper, core>> /\ BudgetShape(budget')
             \/ reply = "stopped" /\ helper.owner = o /\ StopManaged(TRUE)
  <2>1. CASE confirmed = TRUE
        BY <1>3, <2>1
  <2>2. CASE confirmed = FALSE
        BY <1>1, <1>3, <2>2, BudgetFalls DEF StopManaged
  <2>3. QED  BY <2>1, <2>2
<1>4. QED  BY <1>2, <1>3 DEF HandleStop

-----------------------------------------------------------------------------
(* Ownership.                                                              *)

LEMMA AttemptsShape ==
  ASSUME NEW n, CoreShape(core, n), n \in Nat
  PROVE  Attempts = 1 .. n
BY DEF CoreShape, Attempts

\* Steps that only end Cores, and drop requests that nobody waits for.
LEMMA QuietStep ==
  ASSUME SupervisorInv, NEW n \in Nat, n = session.attempt,
         UNCHANGED <<backend, session, call, helper>>, late' \subseteq late,
         agent' = "gone" <=> agent = "gone",
         CoreShape(core', n),
         \A a \in 1 .. n : core'[a].run = "running" => core[a].run = "running"
  PROVE  Ownership'
<1>0. /\ OneBackend /\ CallIsForOwner /\ HandledOnce /\ HandleIsHeld
      /\ StopIsProven /\ NoCoreForgotten
      BY DEF SupervisorInv, Ownership
<1>1. Attempts = 1 .. n /\ Attempts' = 1 .. n
      BY AttemptsShape DEF SupervisorInv, Shape, CoreShape, Attempts
<1>2. /\ session.owner \in 0 .. n /\ session.child \in 0 .. n /\ helper.owner \in 0 .. n
      /\ helper.spawned \subseteq 1 .. n
      BY DEF SupervisorInv, Shape, SessionShape, HelperShape
<1>3. OneBackend'
      BY <1>0 DEF OneBackend, NoCall
<1>4. CallIsForOwner'
      BY <1>0 DEF CallIsForOwner, NoCall
<1>5. HandledOnce'
      BY <1>0, <1>1, <1>2 DEF HandledOnce, Unhandled, Running, CallIsForOwner
<1>6. HandleIsHeld'
      BY <1>0, <1>1, <1>2 DEF HandleIsHeld, Running
<1>7. StopIsProven'
      BY <1>0, <1>1, <1>2 DEF StopIsProven, Running, CallIsForOwner
<1>8. NoCoreForgotten'
      BY <1>0, <1>1 DEF NoCoreForgotten, MayRun, Running
<1>9. QED  BY <1>3, <1>4, <1>5, <1>6, <1>7, <1>8 DEF Ownership

\* The Helper handles the start of o, which its caller waits for or gave up on.
LEMMA StartHandled ==
  ASSUME SupervisorInv, NEW n \in Nat, n = session.attempt, NEW o \in 1 .. n,
         Unhandled(o), NEW reply, HandleStart(o, reply),
         UNCHANGED <<backend, session, agent>>,
         \/ /\ call.path = "/start" /\ call.owner = o /\ call.reply = "none"
            /\ call' = [call EXCEPT !.reply = reply] /\ late' = late
         \/ /\ [path |-> "/start", owner |-> o] \in late
            /\ late' = late \ {[path |-> "/start", owner |-> o]} /\ call' = call
  PROVE  /\ Ownership' /\ HelperShape(helper', n) /\ CoreShape(core', n)
         /\ BudgetShape(budget') /\ CallShape(call', n)
         /\ call'.path = call.path /\ (call' = NoCall <=> call = NoCall)
<1>0. /\ Shape /\ OneBackend /\ CallIsForOwner /\ HandledOnce /\ HandleIsHeld
      /\ StopIsProven /\ NoCoreForgotten
      BY DEF SupervisorInv, Ownership
<1>1. Attempts = 1 .. n
      BY <1>0, AttemptsShape DEF Shape
<1>2. /\ session.owner \in 0 .. n /\ session.child \in 0 .. n /\ helper.owner \in 0 .. n
      /\ helper.spawned \subseteq 1 .. n /\ helper.core \in {0, helper.owner}
      BY <1>0 DEF Shape, SessionShape, HelperShape
<1>3. ~Running(o) /\ helper.owner # o
      BY <1>0, <1>1 DEF HandledOnce
<1>4. /\ HelperShape(helper', n) /\ CoreShape(core', n) /\ BudgetShape(budget')
      /\ helper'.state = helper.state /\ helper'.stopping = helper.stopping
      BY <1>0, <1>3, HandleStartEffect
<1>5. \/ /\ reply = "rejected" /\ core' = core
         /\ helper'.spawned = helper.spawned
         /\ helper'.owner \in {helper.owner, o}
         /\ helper'.core = helper.core \/ ~Alive(helper.core)
      \/ /\ reply = "started" /\ ~helper.stopping /\ ~Alive(helper.core)
         /\ helper'.owner = o /\ helper'.core = o
         /\ helper'.spawned = helper.spawned \cup {o}
         /\ \A a \in 1 .. n : core'[a].run = IF a = o THEN "running" ELSE core[a].run
      BY <1>0, <1>3, HandleStartEffect
<1>6. Attempts' = 1 .. n
      BY <1>4 DEF CoreShape, Attempts
<1>7. /\ CallShape(call', n) /\ call'.path = call.path /\ call'.owner = call.owner
      /\ \/ /\ call.path = "/start" /\ call.owner = o /\ call.reply = "none"
            /\ call'.reply = reply
            /\ late' = late /\ [path |-> "/start", owner |-> o] \notin late
         \/ /\ call' = call /\ [path |-> "/start", owner |-> o] \in late
            /\ late' = late \ {[path |-> "/start", owner |-> o]}
            /\ (call.path = "/start" /\ call.owner = o => call.reply = "lost")
  <2>1. CallShape(call, n) /\ reply \in {"started", "rejected"}
        BY <1>0, <1>5 DEF Shape
  <2>2. CASE /\ call.path = "/start" /\ call.owner = o /\ call.reply = "none"
             /\ call' = [call EXCEPT !.reply = reply] /\ late' = late
    <3>1. CallShape(call', n) /\ call'.path = call.path /\ call'.owner = call.owner
          BY <2>1, <2>2 DEF CallShape
    <3>2. call'.reply = reply
          BY <2>1, <2>2 DEF CallShape
    <3>3. [path |-> "/start", owner |-> o] \notin late
          BY <1>0, <2>2 DEF HandledOnce
    <3>4. QED  BY <2>2, <3>1, <3>2, <3>3
  <2>3. CASE /\ [path |-> "/start", owner |-> o] \in late
             /\ late' = late \ {[path |-> "/start", owner |-> o]} /\ call' = call
        BY <1>0, <2>1, <2>3 DEF HandledOnce
  <2>4. QED  BY <2>2, <2>3
<1>8. call' = NoCall <=> call = NoCall
      BY <1>7 DEF NoCall
<1>9. \A a \in 1 .. n : Unhandled(a)' => a # o /\ Unhandled(a)
      BY <1>5, <1>7 DEF Unhandled
<1>10. backend = "helper"
      BY <1>0, <1>7, BackendsAssumption DEF OneBackend, NoCall, Shape
<1>11. OneBackend'
      BY <1>0, <1>10 DEF OneBackend
<1>12. CallIsForOwner'
      BY <1>0, <1>5, <1>7, <1>8 DEF CallIsForOwner
<1>13. HandledOnce'
  <2>1. call'.path = "/start" /\ call'.reply # "lost" =>
           [path |-> "/start", owner |-> call'.owner] \notin late'
        BY <1>0, <1>7 DEF HandledOnce
  <2>2. \A a \in 1 .. n : Unhandled(a)' => core'[a].run # "running" /\ helper'.owner # a
        BY <1>0, <1>1, <1>5, <1>9 DEF HandledOnce, Running
  <2>3. call'.path = "/start" /\ call'.reply = "rejected" => core'[call'.owner].run # "running"
        BY <1>0, <1>2, <1>3, <1>5, <1>7 DEF HandledOnce, Running, CallIsForOwner
  <2>4. QED  BY <1>6, <2>1, <2>2, <2>3 DEF HandledOnce, Running
<1>14. HandleIsHeld'
  <2>1. helper'.owner # 0 /\ core'[helper'.owner].run = "running" => helper'.core = helper'.owner
        BY <1>0, <1>2, <1>3, <1>5 DEF HandleIsHeld, Running, Alive
  <2>2. \A a \in helper'.spawned : core'[a].run = "running" => helper'.core = a
        BY <1>0, <1>2, <1>3, <1>5 DEF HandleIsHeld, Running, Alive
  <2>3. helper'.stopping => \A a \in helper'.spawned : core'[a].run # "running"
        BY <1>0, <1>2, <1>3, <1>4, <1>5 DEF HandleIsHeld, Running, Alive
  <2>4. QED  BY <1>0, <1>4, <2>1, <2>2, <2>3 DEF HandleIsHeld, Running
<1>15. StopIsProven'
  <2>1. call'.path = "/stop" /\ call'.reply = "stopped" => call' = call /\ call.owner \in 1 .. n
        BY <1>0, <1>2, <1>7 DEF CallIsForOwner
  <2>2. QED  BY <1>0, <1>5, <1>7, <2>1 DEF StopIsProven, Running
<1>16. NoCoreForgotten'
  <2>1. \A a \in 1 .. n : MayRun(a)' => MayRun(a)
        BY <1>5, <1>7 DEF MayRun, Running
  <2>2. QED  BY <1>0, <1>1, <1>6, <2>1 DEF NoCoreForgotten
<1>17. QED  BY <1>4, <1>7, <1>8, <1>11, <1>12, <1>13, <1>14, <1>15, <1>16 DEF Ownership

\* The Helper handles a stop.
LEMMA StopHandled ==
  ASSUME SupervisorInv, NEW n \in Nat, n = session.attempt, NEW o \in 1 .. n,
         NEW reply, HandleStop(o, reply), backend = "helper",
         UNCHANGED <<backend, session, agent>>,
         \/ /\ call.path = "/stop" /\ call.owner = o /\ call.reply = "none"
            /\ call' = [call EXCEPT !.reply = reply] /\ late' = late
         \/ late' = late \ {[path |-> "/stop", owner |-> o]} /\ call' = call
  PROVE  /\ Ownership' /\ HelperShape(helper', n) /\ CoreShape(core', n)
         /\ BudgetShape(budget') /\ CallShape(call', n)
         /\ call'.path = call.path /\ (call' = NoCall <=> call = NoCall)
<1>0. /\ Shape /\ OneBackend /\ CallIsForOwner /\ HandledOnce /\ HandleIsHeld
      /\ StopIsProven /\ NoCoreForgotten
      BY DEF SupervisorInv, Ownership
<1>1. Attempts = 1 .. n
      BY <1>0, AttemptsShape DEF Shape
<1>2. /\ session.owner \in 0 .. n /\ session.child \in 0 .. n /\ helper.owner \in 0 .. n
      /\ helper.spawned \subseteq 1 .. n /\ helper.core \in {0, helper.owner}
      /\ CallShape(call, n) /\ HelperShape(helper, n) /\ CoreShape(core, n)
      BY <1>0 DEF Shape, SessionShape, HelperShape
<1>3. /\ HelperShape(helper', n) /\ CoreShape(core', n) /\ BudgetShape(budget')
      /\ helper'.state = helper.state /\ helper'.stopping = helper.stopping
      /\ helper'.owner = helper.owner /\ helper'.spawned = helper.spawned
      /\ \A a \in 1 .. n : core'[a].run = "running" => core[a].run = "running"
      /\ helper'.core = helper.core \/ \A a \in 1 .. n : core'[a].run = "running" => a # helper.core
      /\ reply \in {"unconfirmed", "stopped"}
      /\ reply = "stopped" =>
           helper.owner = o /\ \A a \in 1 .. n : core'[a].run = "running" => a # helper.core
  <2>1. CASE reply = "unconfirmed" /\ UNCHANGED <<helper, core>> /\ BudgetShape(budget')
        BY <1>2, <2>1
  <2>2. CASE reply = "stopped" /\ helper.owner = o /\ StopManaged(TRUE)
    <3>1. /\ HelperShape(helper', n) /\ CoreShape(core', n) /\ BudgetShape(budget')
          /\ helper'.state = helper.state /\ helper'.stopping = helper.stopping
          /\ helper'.owner = helper.owner /\ helper'.spawned = helper.spawned
          BY <1>0, <2>2, ManagedStopped
    <3>2. \A a \in 1 .. n : core'[a].run = IF Running(a) /\ a = helper.core
                                             THEN "exited" ELSE core[a].run
          BY <1>0, <2>2, ManagedStopped
    <3>3. QED  BY <2>2, <3>1, <3>2 DEF Running
  <2>3. QED  BY <1>0, <2>1, <2>2, HandleStopEffect
<1>4. Attempts' = 1 .. n
      BY <1>3 DEF CoreShape, Attempts
<1>5. /\ CallShape(call', n) /\ call'.path = call.path /\ call'.owner = call.owner
      /\ \/ /\ call.path = "/stop" /\ call.owner = o /\ call.reply = "none"
            /\ call'.reply = reply /\ late' = late
         \/ call' = call /\ late' = late \ {[path |-> "/stop", owner |-> o]}
  <2>1. CASE /\ call.path = "/stop" /\ call.owner = o /\ call.reply = "none"
             /\ call' = [call EXCEPT !.reply = reply] /\ late' = late
    <3>1. CallShape(call', n) /\ call'.path = call.path /\ call'.owner = call.owner
          BY <1>2, <1>3, <2>1 DEF CallShape
    <3>2. call'.reply = reply
          BY <1>2, <1>3, <2>1 DEF CallShape
    <3>3. QED  BY <2>1, <3>1, <3>2
  <2>2. QED  BY <1>2, <2>1
<1>6. call' = NoCall <=> call = NoCall
      BY <1>5 DEF NoCall
<1>7. \A a \in 1 .. n : Unhandled(a)' => Unhandled(a)
      BY <1>5 DEF Unhandled
<1>8. OneBackend'
      BY <1>0 DEF OneBackend
<1>9. CallIsForOwner'
      BY <1>0, <1>3, <1>5, <1>6 DEF CallIsForOwner
<1>10. HandledOnce'
  <2>1. call'.path = "/start" => call' = call /\ late' \subseteq late /\ call.owner \in 1 .. n
        BY <1>0, <1>2, <1>5 DEF CallIsForOwner
  <2>2. QED  BY <1>0, <1>1, <1>3, <1>4, <1>7, <2>1 DEF HandledOnce, Running
<1>11. HandleIsHeld'
  <2>1. helper.owner # 0 /\ core'[helper.owner].run = "running" => helper'.core = helper.owner
        BY <1>0, <1>2, <1>3 DEF HandleIsHeld, Running
  <2>2. \A a \in helper.spawned : core'[a].run = "running" => helper'.core = a
        BY <1>0, <1>2, <1>3 DEF HandleIsHeld, Running
  <2>3. QED  BY <1>0, <1>2, <1>3, <2>1, <2>2 DEF HandleIsHeld, Running
<1>12. StopIsProven'
  <2>1. CASE call' = call
    <3>1. call.path = "/stop" => call.owner \in 1 .. n
          BY <1>0, <1>2 DEF CallIsForOwner
    <3>2. QED  BY <1>0, <1>3, <1>5, <2>1, <3>1 DEF StopIsProven, Running
  <2>2. CASE call'.owner = o /\ call'.reply = reply /\ reply = "stopped" /\ late' = late
    <3>1. helper.owner = o /\ ~Unhandled(o)
          BY <1>0, <1>1, <1>3, <2>2 DEF HandledOnce
    <3>2. core'[o].run # "running"
          BY <1>0, <1>2, <1>3, <2>2, <3>1 DEF HandleIsHeld, Running
    <3>3. QED  BY <2>2, <3>1, <3>2 DEF StopIsProven, Running, Unhandled
  <2>3. QED  BY <1>3, <1>5, <2>1, <2>2 DEF StopIsProven
<1>13. NoCoreForgotten'
  <2>1. \A a \in 1 .. n : MayRun(a)' => MayRun(a)
        BY <1>3, <1>5 DEF MayRun, Running
  <2>2. QED  BY <1>0, <1>1, <1>4, <2>1 DEF NoCoreForgotten
<1>14. QED  BY <1>3, <1>5, <1>6, <1>8, <1>9, <1>10, <1>11, <1>12, <1>13 DEF Ownership

\* Steps of the Helper alone: it forgets, it stops its Core, its answers get lost.
LEMMA HelperStep ==
  ASSUME SupervisorInv, NEW n \in Nat, n = session.attempt,
         UNCHANGED <<backend, agent, session>>, late' \subseteq late,
         call'.path = call.path, call'.owner = call.owner,
         call' = call \/ (call.path # "none" /\ call'.reply = "lost"),
         helper'.owner \in {0, helper.owner}, HandleIsHeld',
         CoreShape(core', n),
         \A a \in 1 .. n : core'[a].run = "running" => core[a].run = "running"
  PROVE  Ownership'
<1>0. /\ Shape /\ OneBackend /\ CallIsForOwner /\ HandledOnce
      /\ StopIsProven /\ NoCoreForgotten
      BY DEF SupervisorInv, Ownership
<1>1. Attempts = 1 .. n /\ Attempts' = 1 .. n
      BY <1>0, AttemptsShape DEF Shape, CoreShape, Attempts
<1>2. session.owner \in 0 .. n /\ session.child \in 0 .. n
      BY <1>0 DEF Shape, SessionShape
<1>3. OneBackend'
      BY <1>0 DEF OneBackend, NoCall
<1>4. CallIsForOwner'
      BY <1>0 DEF CallIsForOwner, NoCall
<1>5. HandledOnce'
  <2>1. \A a \in 1 .. n : Unhandled(a)' => Unhandled(a)
        BY DEF Unhandled
  <2>2. call.path = "/start" => call.owner \in 1 .. n
        BY <1>0, <1>2 DEF CallIsForOwner
  <2>3. QED  BY <1>0, <1>1, <2>1, <2>2 DEF HandledOnce, Running
<1>6. StopIsProven'
  <2>1. call.path = "/stop" => call.owner \in 1 .. n
        BY <1>0, <1>2 DEF CallIsForOwner
  <2>2. QED  BY <1>0, <1>1, <2>1 DEF StopIsProven, Running
<1>7. NoCoreForgotten'
      BY <1>0, <1>1 DEF NoCoreForgotten, MayRun, Running
<1>8. QED  BY <1>3, <1>4, <1>5, <1>6, <1>7 DEF Ownership

LEMMA DisconnectedEffect ==
  ASSUME NEW n \in Nat, CallShape(call, n), Disconnected
  PROVE  /\ CallShape(call', n) /\ LateShape(late', n) /\ late' \subseteq late
         /\ call'.path = call.path /\ call'.owner = call.owner
         /\ call' = call \/ (call.path # "none" /\ call'.reply = "lost")
<1>1. late' = {}
      BY DEF Disconnected
<1>2. CASE call' = call
      BY <1>1, <1>2 DEF LateShape
<1>3. CASE call.path # "none" /\ call' = [call EXCEPT !.reply = "lost"]
  <2>1. CallShape(call', n)
        BY <1>3 DEF CallShape
  <2>2. call'.path = call.path /\ call'.owner = call.owner /\ call'.reply = "lost"
        BY <1>3 DEF CallShape
  <2>3. QED  BY <1>1, <1>3, <2>1, <2>2 DEF LateShape
<1>4. QED  BY <1>2, <1>3 DEF Disconnected

\* Every Core that the service spawned has ended once the stop is confirmed.
LEMMA ServiceStopsStep ==
  ASSUME SupervisorInv, ServiceStops
  PROVE  /\ Ownership' /\ HelperShape(helper', session.attempt)
         /\ CoreShape(core', session.attempt) /\ BudgetShape(budget')
<1> DEFINE n == session.attempt
<1>0. /\ Shape /\ HandleIsHeld /\ n \in Nat
      BY ShapeTypes DEF SupervisorInv, Ownership
<1>1. /\ helper.spawned \subseteq 1 .. n /\ helper.owner \in 0 .. n
      /\ HelperShape(helper, n) /\ CoreShape(core, n) /\ BudgetShape(budget)
      BY <1>0 DEF Shape, HelperShape
<1>2. BudgetShape(budget')
      BY <1>1, BudgetFalls DEF ServiceStops, StopManaged
<1>3. UNCHANGED <<backend, agent, session, call, late>>
      BY DEF ServiceStops
<1>4. CASE /\ helper' = [helper EXCEPT !.core = 0, !.stopping = TRUE]
           /\ core' = IF Alive(helper.core)
                        THEN [core EXCEPT ![helper.core].run = "exited"] ELSE core
  <2>1. /\ HelperShape(helper', n) /\ helper'.state = helper.state
        /\ helper'.owner = helper.owner /\ helper'.spawned = helper.spawned
        BY <1>0, <1>1, <1>4, HelperClosed
  <2>2. /\ CoreShape(core', n)
        /\ \A a \in 1 .. n : core'[a].run = IF Running(a) /\ a = helper.core
                                              THEN "exited" ELSE core[a].run
        BY <1>0, <1>1, <1>4, ManagedExit
  <2>3. HandleIsHeld'
    <3>1. \A a \in 1 .. n : core'[a].run = "running" => Running(a) /\ a # helper.core
          BY <2>2 DEF Running
    <3>2. helper.owner # 0 => core'[helper.owner].run # "running"
          BY <1>0, <1>1, <3>1 DEF HandleIsHeld
    <3>3. \A a \in helper.spawned : core'[a].run # "running"
          BY <1>0, <1>1, <3>1 DEF HandleIsHeld
    <3>4. helper'.state # "stopped"
          BY <2>1 DEF ServiceStops
    <3>5. QED  BY <2>1, <3>2, <3>3, <3>4 DEF HandleIsHeld, Running
  <2>4. \A a \in 1 .. n : core'[a].run = "running" => core[a].run = "running"
        BY <2>2
  <2>5. Ownership'
        BY <1>0, <1>3, <2>1, <2>2, <2>3, <2>4, HelperStep
  <2>6. QED  BY <1>2, <2>1, <2>2, <2>5
<1>5. CASE UNCHANGED <<helper, core>>
  <2>1. Ownership'
        BY <1>0, <1>1, <1>3, <1>5, QuietStep
  <2>2. QED  BY <1>1, <1>2, <1>5, <2>1
<1>6. QED  BY <1>4, <1>5 DEF ServiceStops, StopManaged

LEMMA HelperEndsStep ==
  ASSUME SupervisorInv, ServiceEnds \/ HelperCrashes
  PROVE  /\ Ownership' /\ HelperShape(helper', session.attempt)
         /\ CallShape(call', session.attempt) /\ LateShape(late', session.attempt)
         /\ BudgetShape(budget')
         /\ call'.path = call.path /\ (call' = NoCall => call = NoCall)
<1> DEFINE n == session.attempt
<1>0. /\ Shape /\ HandleIsHeld /\ n \in Nat
      BY ShapeTypes DEF SupervisorInv, Ownership
<1>1. /\ HelperShape(helper, n) /\ CoreShape(core, n) /\ BudgetShape(budget)
      /\ CallShape(call, n)
      BY <1>0 DEF Shape
<1>2. /\ UNCHANGED <<backend, agent, session, core>> /\ Disconnected
      /\ \E s \in {"stopped", "crashed"} : /\ helper' = [helper EXCEPT !.state = s]
                                           /\ s = "stopped" => helper.stopping
      BY DEF ServiceEnds, HelperCrashes
<1>3. PICK s \in {"stopped", "crashed"} : /\ helper' = [helper EXCEPT !.state = s]
                                          /\ s = "stopped" => helper.stopping
      BY <1>2
<1>4. /\ HelperShape(helper', n) /\ helper'.state = s
      /\ helper'.owner = helper.owner /\ helper'.core = helper.core
      /\ helper'.stopping = helper.stopping /\ helper'.spawned = helper.spawned
      BY <1>0, <1>1, <1>3, HelperEnded
<1>5. /\ CallShape(call', n) /\ LateShape(late', n) /\ late' \subseteq late
      /\ call'.path = call.path /\ call'.owner = call.owner
      /\ call' = call \/ (call.path # "none" /\ call'.reply = "lost")
      BY <1>0, <1>1, <1>2, DisconnectedEffect
<1>6. HandleIsHeld'
      BY <1>0, <1>2, <1>3, <1>4 DEF HandleIsHeld, Running
<1>7. Ownership'
      BY <1>0, <1>1, <1>2, <1>4, <1>5, <1>6, HelperStep
<1>8. BudgetShape(budget')
      BY <1>1, BudgetFalls DEF ServiceEnds, HelperCrashes
<1>9. QED  BY <1>4, <1>5, <1>7, <1>8 DEF NoCall

LEMMA HelperStartsStep ==
  ASSUME SupervisorInv, HelperStarts
  PROVE  Ownership' /\ HelperShape(helper', session.attempt)
<1> DEFINE n == session.attempt
<1>0. Shape /\ n \in Nat
      BY ShapeTypes DEF SupervisorInv
<1>1. CoreShape(core, n)
      BY <1>0 DEF Shape
<1>2. /\ UNCHANGED <<backend, agent, session, call, late, core>>
      /\ helper' = [state |-> "up", owner |-> 0, core |-> 0, stopping |-> FALSE, spawned |-> {}]
      BY DEF HelperStarts
<1>3. HelperShape(helper', n) /\ HandleIsHeld' /\ helper'.owner = 0
      BY <1>0, <1>2 DEF HelperShape, HandleIsHeld
<1>4. Ownership'
      BY <1>0, <1>1, <1>2, <1>3, HelperStep
<1>5. QED  BY <1>3, <1>4

\* Steps of the Agent: it asks, takes an answer, gives up or ends.
LEMMA AgentStep ==
  ASSUME SupervisorInv, NEW n \in Nat, n = session.attempt,
         UNCHANGED <<backend, helper>>, CoreShape(core', n),
         \A a \in 1 .. n : core'[a].run = "running" => core[a].run = "running",
         \A a \in 1 .. n : Unhandled(a)' => Unhandled(a),
         call'.path = "/start" => call'.reply = "lost",
         call'.path = "/stop" => call'.reply # "stopped",
         OneBackend', CallIsForOwner', NoCoreForgotten'
  PROVE  Ownership'
<1>0. Shape /\ HandledOnce /\ HandleIsHeld
      BY DEF SupervisorInv, Ownership
<1>1. Attempts = 1 .. n /\ Attempts' = 1 .. n
      BY <1>0, AttemptsShape DEF Shape, CoreShape, Attempts
<1>2. helper.owner \in 0 .. n /\ helper.spawned \subseteq 1 .. n
      BY <1>0 DEF Shape, HelperShape
<1>3. HandledOnce'
      BY <1>0, <1>1 DEF HandledOnce, Running
<1>4. HandleIsHeld'
      BY <1>0, <1>2 DEF HandleIsHeld, Running
<1>5. StopIsProven'
      BY DEF StopIsProven
<1>6. QED  BY <1>3, <1>4, <1>5 DEF Ownership

LEMMA OwnerTaken ==
  ASSUME SessionShape(session), NEW m \in Nat, m = session.attempt + 1,
         session' = [session EXCEPT !.attempt = m, !.owner = m]
  PROVE  /\ SessionShape(session') /\ session'.attempt = m
         /\ session'.owner = m /\ session'.child = session.child
<1>1. session' \in [owner : Nat, attempt : Nat, child : Nat]
      BY DEF SessionShape
<1>2. session'.attempt = m /\ session'.owner = m /\ session'.child = session.child
      BY DEF SessionShape
<1>3. session.child \in 0 .. session.attempt /\ session.attempt \in Nat
      BY DEF SessionShape
<1>4. session'.child \in 0 .. m
      BY <1>2, <1>3
<1>5. QED  BY <1>1, <1>2, <1>4 DEF SessionShape

LEMMA ChildTaken ==
  ASSUME SessionShape(session), NEW m \in Nat, m = session.attempt + 1,
         session' = [session EXCEPT !.attempt = m, !.child = m]
  PROVE  /\ SessionShape(session') /\ session'.attempt = m
         /\ session'.child = m /\ session'.owner = session.owner
<1>1. session' \in [owner : Nat, attempt : Nat, child : Nat]
      BY DEF SessionShape
<1>2. session'.attempt = m /\ session'.child = m /\ session'.owner = session.owner
      BY DEF SessionShape
<1>3. session.owner \in 0 .. session.attempt /\ session.attempt \in Nat
      BY DEF SessionShape
<1>4. session'.owner \in 0 .. m
      BY <1>2, <1>3
<1>5. QED  BY <1>1, <1>2, <1>4 DEF SessionShape

LEMMA RequestStartStep ==
  ASSUME SupervisorInv, RequestStart
  PROVE  Shape' /\ Ownership'
<1> PICK n \in Nat : n = session.attempt
    BY ShapeTypes DEF SupervisorInv
<1> PICK m \in Nat : m = n + 1
    OBVIOUS
<1>0. /\ Shape /\ OneBackend /\ CallIsForOwner /\ HandledOnce /\ HandleIsHeld
      /\ NoCoreForgotten /\ RoundsStartClean
      BY DEF SupervisorInv, Ownership
<1>1. /\ Attempts = 1 .. n /\ CoreShape(core, n) /\ SessionShape(session)
      /\ late \subseteq [path : {"/start", "/stop"}, owner : 1 .. n]
      /\ helper.owner \in 0 .. n /\ helper.spawned \subseteq 1 .. n
      BY <1>0, AttemptsShape DEF Shape, LateShape, HelperShape
<1>2. /\ session' = [session EXCEPT !.attempt = m, !.owner = m]
      /\ core' = Append(core, [run |-> "none", link |-> "none"])
      /\ call' = [path |-> "/start", owner |-> m, reply |-> "none"]
      /\ UNCHANGED <<backend, agent, sup, status, late, helper, backlog, queue, budget>>
      /\ call = NoCall /\ session.owner = 0 /\ backend = "helper" /\ agent = "up"
      BY DEF RequestStart, Supervising
<1>3. /\ SessionShape(session') /\ session'.attempt = m /\ session'.owner = m
      /\ session'.child = session.child
      BY <1>1, <1>2, OwnerTaken
<1>4. CoreShape(core', m) /\ core'[m].run = "none" /\ \A a \in 1 .. n : core'[a] = core[a]
  <2>1. [run |-> "none", link |-> "none"] \in CoreRecords
        BY DEF CoreRecords
  <2>2. /\ Append(core, [run |-> "none", link |-> "none"]) \in [1 .. n + 1 -> CoreRecords]
        /\ core'[n + 1] = [run |-> "none", link |-> "none"]
        /\ \A a \in 1 .. n : core'[a] = core[a]
        BY <1>1, <1>2, <2>1, CoreAppended DEF CoreShape
  <2>3. QED  BY <1>2, <2>2 DEF CoreShape
<1>5. CallShape(call', m)
      BY <1>0, <1>2 DEF CallShape
<1>6. Shape'
      BY <1>0, <1>2, <1>3, <1>4, <1>5, ShapeGrows DEF Shape
<1>7. Attempts' = 1 .. m /\ 1 .. m = 1 .. n \cup {m}
      BY <1>0, <1>4 DEF CoreShape, Attempts
<1>8. session.child = 0 /\ \A a \in 1 .. n : ~MayRun(a)
      BY <1>0, <1>1, <1>2 DEF OneBackend, NoCoreForgotten
<1>9. OneBackend'
      BY <1>0, <1>2, <1>3 DEF OneBackend
<1>10. CallIsForOwner'
      BY <1>0, <1>2, <1>3 DEF CallIsForOwner, NoCall
<1>11. [path |-> "/start", owner |-> m] \notin late
      BY <1>0, <1>1
<1>12. call'.path = "/start" /\ call'.owner = m
      BY <1>2
<1>13. \A a \in 1 .. n : a # m /\ ~Running(a) /\ [path |-> "/start", owner |-> a] \notin late
  <2>1. \A a \in 1 .. n : a # m
        OBVIOUS
  <2>2. QED  BY <2>1, <1>8 DEF MayRun
<1>14. \A a \in 1 .. n : ~Running(a)'
      BY <1>4, <1>13 DEF Running
<1>15. HandledOnce'
  <2>1. \A a \in 1 .. n : ~Unhandled(a)'
        BY <1>2, <1>12, <1>13 DEF Unhandled
  <2>2. ~Running(m)' /\ helper.owner # m
        BY <1>0, <1>1, <1>4 DEF Running
  <2>3. call'.reply # "rejected"
        BY <1>2
  <2>4. QED  BY <1>2, <1>7, <1>11, <1>12, <2>1, <2>2, <2>3 DEF HandledOnce
<1>16. HandleIsHeld'
  <2>1. helper.owner # 0 => ~Running(helper.owner)'
        BY <1>1, <1>2, <1>14
  <2>2. \A a \in helper.spawned : ~Running(a)'
        BY <1>1, <1>2, <1>14
  <2>3. QED  BY <1>0, <1>2, <2>1, <2>2 DEF HandleIsHeld
<1>17. StopIsProven'
      BY <1>2 DEF StopIsProven
<1>18. NoCoreForgotten'
  <2>1. \A a \in 1 .. n : ~MayRun(a)'
        BY <1>2, <1>12, <1>13, <1>14 DEF MayRun
  <2>2. QED  BY <1>3, <1>7, <2>1 DEF NoCoreForgotten
<1>19. QED  BY <1>6, <1>9, <1>10, <1>15, <1>16, <1>17, <1>18 DEF Ownership

LEMMA SpawnedLocally ==
  ASSUME SupervisorInv, agent = "up", backend = "local", call = NoCall, sup.at = "start",
         session' = [session EXCEPT !.attempt = session.attempt + 1,
                                    !.child = session.attempt + 1],
         core' = Append(core, [run |-> "running", link |-> "none"]),
         sup' = [sup EXCEPT !.at = "attach"],
         UNCHANGED <<backend, agent, status, call, late, helper, backlog, queue, budget>>
  PROVE  Shape' /\ Ownership' /\ sup'.at = "attach"
<1> PICK n \in Nat : n = session.attempt
    BY ShapeTypes DEF SupervisorInv
<1> PICK m \in Nat : m = n + 1
    OBVIOUS
<1>0. /\ Shape /\ OneBackend /\ CallIsForOwner /\ HandledOnce /\ HandleIsHeld
      /\ NoCoreForgotten /\ RoundsStartClean
      BY DEF SupervisorInv, Ownership
<1>1. /\ Attempts = 1 .. n /\ CoreShape(core, n) /\ SessionShape(session)
      /\ helper.spawned \subseteq 1 .. n /\ SupShape(sup, n)
      BY <1>0, AttemptsShape DEF Shape, LateShape, HelperShape
<1>3. /\ SessionShape(session') /\ session'.attempt = m /\ session'.child = m
      /\ session'.owner = session.owner
      BY <1>1, ChildTaken
<1>4. CoreShape(core', m) /\ core'[m].run = "running" /\ \A a \in 1 .. n : core'[a] = core[a]
  <2>1. [run |-> "running", link |-> "none"] \in CoreRecords
        BY DEF CoreRecords
  <2>2. /\ Append(core, [run |-> "running", link |-> "none"]) \in [1 .. n + 1 -> CoreRecords]
        /\ core'[n + 1] = [run |-> "running", link |-> "none"]
        /\ \A a \in 1 .. n : core'[a] = core[a]
        BY <1>1, <2>1, CoreAppended DEF CoreShape
  <2>3. QED  BY <2>2 DEF CoreShape
<1>5. SupShape(sup', m) /\ sup'.at = "attach"
  <2>1. SupShape(sup, m)
        BY <1>0, ShapeGrows
  <2>2. QED  BY <2>1 DEF SupShape, Places
<1>6. Shape'
      BY <1>0, <1>3, <1>4, <1>5, ShapeGrows DEF Shape
<1>7. Attempts' = 1 .. m /\ 1 .. m = 1 .. n \cup {m}
      BY <1>0, <1>4 DEF CoreShape, Attempts
<1>8. /\ session.child = 0 /\ session.owner = 0 /\ late = {} /\ helper.owner = 0
      /\ call.path = "none"
      BY <1>0 DEF OneBackend, NoCall, RoundsStartClean
<1>9. \A a \in 1 .. n : ~Running(a)
      BY <1>0, <1>1, <1>8 DEF NoCoreForgotten, MayRun
<1>10. OneBackend'
      BY <1>0, <1>3 DEF OneBackend
<1>11. CallIsForOwner'
      BY <1>0 DEF CallIsForOwner, NoCall
<1>12. HandledOnce'
      BY <1>8 DEF HandledOnce, Unhandled
<1>13. HandleIsHeld'
      BY <1>0, <1>1, <1>4, <1>8 DEF HandleIsHeld, Running
<1>14. StopIsProven'
      BY <1>8 DEF StopIsProven
<1>15. NoCoreForgotten'
      BY <1>3, <1>4, <1>7, <1>8, <1>9 DEF NoCoreForgotten, MayRun, Running
<1>16. QED  BY <1>5, <1>6, <1>10, <1>11, <1>12, <1>13, <1>14, <1>15 DEF Ownership

\* An owner is forgotten with an answer that proves that it has no Core.
LEMMA StartAnsweredStep ==
  ASSUME SupervisorInv, StartAnswered
  PROVE  Shape' /\ Ownership' /\ sup'.at \in {"attach", "stopping"}
<1> PICK n \in Nat : n = session.attempt
    BY ShapeTypes DEF SupervisorInv
<1>0. /\ Shape /\ OneBackend /\ CallIsForOwner /\ HandledOnce
      /\ NoCoreForgotten
      BY DEF SupervisorInv, Ownership
<1>1. /\ Attempts = 1 .. n /\ CoreShape(core, n) /\ SessionShape(session) /\ SupShape(sup, n)
      BY <1>0, AttemptsShape DEF Shape
<1>2. /\ call' = NoCall /\ agent = "up" /\ call.path = "/start"
      /\ UNCHANGED <<backend, agent, status, late, helper, core, backlog, queue, budget>>
      /\ session' = IF call.reply = "rejected" THEN [session EXCEPT !.owner = 0] ELSE session
      BY DEF StartAnswered
<1>3. /\ SessionShape(session') /\ session'.attempt = n /\ session'.child = session.child
      /\ session'.owner = IF call.reply = "rejected" THEN 0 ELSE session.owner
      BY <1>1, <1>2 DEF SessionShape
<1>4. SupShape(sup', n) /\ sup'.at \in {"attach", "stopping"}
  <2>1. CASE sup' = [sup EXCEPT !.at = "attach"]
        BY <1>1, <2>1 DEF SupShape, Places
  <2>2. CASE sup' = [sup EXCEPT !.at = "stopping", !.for = "cleanup"]
    <3>1. sup' \in [at : Places, for : Kinds \cup {"none", "cleanup", "crash"},
                    shouldStart : BOOLEAN, crashes : Nat, stream : Nat, steady : BOOLEAN]
          BY <1>1, <2>2 DEF SupShape, Places, Kinds
    <3>2. sup'.stream = sup.stream /\ sup'.at = "stopping"
          BY <1>1, <2>2 DEF SupShape
    <3>3. QED  BY <1>1, <3>1, <3>2 DEF SupShape
  <2>3. QED  BY <2>1, <2>2 DEF StartAnswered
<1>5. CallShape(call', n) /\ call'.path = "none"
      BY <1>0, <1>2 DEF CallShape, NoCall
<1>6. Shape'
      BY <1>0, <1>2, <1>3, <1>4, <1>5 DEF Shape
<1>7. Attempts' = 1 .. n
      BY <1>1, <1>2 DEF Attempts
<1>8. OneBackend'
      BY <1>0, <1>2, <1>3 DEF OneBackend, NoCall
<1>9. CallIsForOwner'
      BY <1>2, <1>5 DEF CallIsForOwner
<1>10. NoCoreForgotten'
  <2>1. \A a \in 1 .. n : MayRun(a)' => MayRun(a)
        BY <1>2, <1>5 DEF MayRun, Running
  <2>2. ASSUME call.reply = "rejected", NEW o, o = session.owner PROVE ~MayRun(o)'
    <3>1. /\ call.owner = session.owner /\ ~Running(call.owner)
          /\ [path |-> "/start", owner |-> call.owner] \notin late
          BY <1>0, <1>2, <2>2 DEF HandledOnce, CallIsForOwner
    <3>2. QED  BY <1>2, <1>5, <2>2, <3>1 DEF MayRun, Running
  <2>3. \A a \in 1 .. n : MayRun(a)' => a \in {session.owner, session.child}
        BY <1>0, <1>1, <1>2, <2>1 DEF NoCoreForgotten
  <2>4. \A a \in 1 .. n : MayRun(a)' => a \in {session'.owner, session'.child}
        BY <1>3, <2>2, <2>3
  <2>5. QED  BY <1>7, <2>4 DEF NoCoreForgotten
<1>11. \A a \in 1 .. n : Unhandled(a)' => Unhandled(a)
      BY <1>2, <1>5 DEF Unhandled
<1>12. Ownership'
      BY <1>0, <1>1, <1>2, <1>5, <1>8, <1>9, <1>10, <1>11, AgentStep
<1>13. QED  BY <1>4, <1>6, <1>12

LEMMA CallTimesOutStep ==
  ASSUME SupervisorInv, CallTimesOut
  PROVE  Shape' /\ Ownership' /\ call'.path = call.path /\ call' # NoCall /\ call # NoCall
<1> PICK n \in Nat : n = session.attempt
    BY ShapeTypes DEF SupervisorInv
<1>0. /\ Shape /\ OneBackend /\ CallIsForOwner /\ NoCoreForgotten
      BY DEF SupervisorInv, Ownership
<1>1. /\ Attempts = 1 .. n /\ CoreShape(core, n) /\ CallShape(call, n) /\ LateShape(late, n)
      /\ session.owner \in 0 .. n
      BY <1>0, AttemptsShape DEF Shape, SessionShape
<1>2. /\ UNCHANGED <<backend, agent, sup, status, session, helper, core, backlog, queue>>
      /\ call.path # "none" /\ call.reply # "lost" /\ agent = "up"
      /\ call' = [call EXCEPT !.reply = "lost"]
      /\ late' = IF call.reply = "none"
                   THEN late \cup {[path |-> call.path, owner |-> call.owner]} ELSE late
      BY DEF CallTimesOut
<1>3. CallShape(call', n)
      BY <1>1, <1>2 DEF CallShape
<1>4. call'.path = call.path /\ call'.owner = call.owner /\ call'.reply = "lost"
      BY <1>1, <1>2 DEF CallShape
<1>5. call.owner \in 1 .. n /\ call.path \in {"/start", "/stop"}
      BY <1>0, <1>1, <1>2 DEF CallIsForOwner, CallShape
<1>6. LateShape(late', n)
  <2>1. [path |-> call.path, owner |-> call.owner] \in [path : {"/start", "/stop"}, owner : 1 .. n]
        BY <1>5
  <2>2. QED  BY <1>1, <1>2, <2>1 DEF LateShape
<1>7. BudgetShape(budget')
      BY <1>0, BudgetFalls DEF CallTimesOut, Shape
<1>8. Shape'
      BY <1>0, <1>2, <1>3, <1>6, <1>7 DEF Shape
<1>9. Attempts' = 1 .. n
      BY <1>1, <1>2 DEF Attempts
<1>10. call # NoCall /\ call' # NoCall
      BY <1>2, <1>4 DEF NoCall
<1>11. OneBackend'
      BY <1>0, <1>2, <1>10 DEF OneBackend
<1>12. CallIsForOwner'
      BY <1>0, <1>2, <1>4, <1>10 DEF CallIsForOwner
<1>13. \A a \in 1 .. n : [path |-> "/start", owner |-> a] \in late' =>
          [path |-> "/start", owner |-> a] \in late
            \/ (call.path = "/start" /\ call.owner = a /\ call.reply = "none")
  <2>1. \A a \in 1 .. n :
          [path |-> "/start", owner |-> a] = [path |-> call.path, owner |-> call.owner] =>
            call.path = "/start" /\ call.owner = a
        OBVIOUS
  <2>2. QED  BY <1>2, <2>1
<1>14. \A a \in 1 .. n : Unhandled(a)' => Unhandled(a)
      BY <1>4, <1>13 DEF Unhandled
<1>15. NoCoreForgotten'
  <2>1. \A a \in 1 .. n : MayRun(a)' => MayRun(a)
        BY <1>2, <1>4, <1>13 DEF MayRun, Running
  <2>2. QED  BY <1>0, <1>1, <1>2, <1>9, <2>1 DEF NoCoreForgotten
<1>16. Ownership'
      BY <1>1, <1>2, <1>4, <1>11, <1>12, <1>14, <1>15, AgentStep
<1>17. QED  BY <1>4, <1>8, <1>10, <1>16

LEMMA RequestStopStep ==
  ASSUME SupervisorInv, RequestStop
  PROVE  Shape' /\ Ownership' /\ call'.path = "/stop" /\ call' # NoCall
<1> PICK n \in Nat : n = session.attempt
    BY ShapeTypes DEF SupervisorInv
<1>0. /\ Shape /\ OneBackend /\ CallIsForOwner /\ NoCoreForgotten
      BY DEF SupervisorInv, Ownership
<1>1. /\ Attempts = 1 .. n /\ CoreShape(core, n) /\ session.owner \in 0 .. n
      BY <1>0, AttemptsShape DEF Shape, SessionShape
<1>2. /\ UNCHANGED <<backend, agent, sup, status, session, late, helper, core, backlog, queue,
                     budget>>
      /\ call = NoCall /\ agent = "up" /\ session.owner # 0
      /\ call' = [path |-> "/stop", owner |-> session.owner, reply |-> "none"]
      BY DEF RequestStop, Supervising
<1>3. CallShape(call', n)
      BY <1>1, <1>2 DEF CallShape
<1>4. call'.path = "/stop" /\ call'.owner = session.owner /\ call'.reply = "none"
      BY <1>2
<1>5. Shape'
      BY <1>0, <1>2, <1>3 DEF Shape
<1>6. call' # NoCall
      BY <1>4 DEF NoCall
<1>7. OneBackend'
      BY <1>0, <1>2 DEF OneBackend
<1>8. CallIsForOwner'
      BY <1>2, <1>4 DEF CallIsForOwner
<1>9. \A a \in 1 .. n : (Unhandled(a)' => Unhandled(a)) /\ (MayRun(a)' => MayRun(a))
      BY <1>2, <1>4 DEF Unhandled, MayRun, Running
<1>10. NoCoreForgotten'
  <2>1. Attempts' = Attempts
        BY <1>2 DEF Attempts
  <2>2. QED  BY <1>0, <1>1, <1>2, <1>9, <2>1 DEF NoCoreForgotten
<1>11. Ownership'
      BY <1>1, <1>2, <1>4, <1>7, <1>8, <1>9, <1>10, AgentStep
<1>12. QED  BY <1>4, <1>5, <1>6, <1>11

\* An owner is forgotten with a confirmed stop: no start of it is left to handle.
LEMMA StopAnsweredStep ==
  ASSUME SupervisorInv, StopAnswered
  PROVE  /\ Shape' /\ Ownership' /\ call' = NoCall /\ agent' # "gone"
         /\ sup'.at = "start" => status' = "starting"
         /\ \/ session'.owner = 0 /\ session'.child = 0
            \/ sup'.at = "idle" /\ status' = "failed"
<1> PICK n \in Nat : n = session.attempt
    BY ShapeTypes DEF SupervisorInv
<1>0. /\ Shape /\ OneBackend /\ CallIsForOwner /\ NoCoreForgotten /\ StopIsProven
      /\ RoundsStartClean
      BY DEF SupervisorInv, Ownership
<1>1. /\ Attempts = 1 .. n /\ CoreShape(core, n) /\ SessionShape(session) /\ SupShape(sup, n)
      /\ StatusShape(status) /\ AgentShape(agent) /\ backend \in Backends
      BY <1>0, AttemptsShape DEF Shape
<1>2. /\ call' = NoCall /\ agent = "up" /\ call.path = "/stop"
      /\ UNCHANGED <<backend, late, helper, core, backlog, queue, budget>>
      BY DEF StopAnswered
<1>3. CallShape(call', n) /\ call'.path = "none"
      BY <1>2 DEF CallShape, NoCall
<1>4. sup.at = "stopping" /\ session.owner # 0 /\ session.child = 0
      BY <1>0, <1>1, <1>2, BackendsAssumption DEF RoundsStartClean, CallIsForOwner, OneBackend
<1>5. /\ SessionShape(session') /\ session'.attempt = n /\ session'.child = 0
      /\ \/ call.reply = "stopped" /\ session'.owner = 0
         \/ session' = session
  <2>1. CASE call.reply = "stopped" /\ session' = [session EXCEPT !.owner = 0]
        BY <1>1, <1>4, <2>1 DEF SessionShape
  <2>2. CASE session' = session
        BY <1>1, <1>4, <2>2
  <2>3. QED  BY <2>1, <2>2 DEF StopAnswered
<1>6. /\ SupShape(sup', n) /\ StatusShape(status') /\ AgentShape(agent') /\ agent' # "gone"
      /\ sup'.at = "start" => status' = "starting"
      /\ \/ session'.owner = 0
         \/ sup'.at = "idle" /\ status' = "failed"
  <2>1. CASE call.reply = "stopped" /\ session' = [session EXCEPT !.owner = 0] /\ Stopped
    <3>1. session'.owner = 0
          BY <1>1, <2>1 DEF SessionShape
    <3>2. QED  BY <1>1, <1>2, <1>4, <2>1, <3>1, StoppedEffect
  <2>2. CASE NotStopped
        BY <1>1, <1>2, <2>2, NotStoppedEffect
  <2>3. QED  BY <2>1, <2>2 DEF StopAnswered
<1>7. Shape'
      BY <1>0, <1>2, <1>3, <1>5, <1>6 DEF Shape
<1>8. OneBackend'
      BY <1>0, <1>2, <1>4, <1>5 DEF OneBackend, NoCall
<1>9. CallIsForOwner'
      BY <1>2, <1>3 DEF CallIsForOwner
<1>10. \A a \in 1 .. n : (Unhandled(a)' => Unhandled(a)) /\ (MayRun(a)' => MayRun(a))
      BY <1>2, <1>3 DEF Unhandled, MayRun, Running
<1>11. NoCoreForgotten'
  <2>1. ASSUME NEW a \in 1 .. n, MayRun(a)', a = session.owner PROVE call.reply # "stopped"
    <3>1. Running(a) \/ [path |-> "/start", owner |-> a] \in late
          BY <1>2, <1>3, <2>1 DEF MayRun, Running
    <3>2. QED  BY <1>0, <1>2, <2>1, <3>1 DEF StopIsProven, CallIsForOwner
  <2>2. \A a \in 1 .. n : MayRun(a)' => a = session.owner
        BY <1>0, <1>1, <1>2, <1>4, <1>10 DEF NoCoreForgotten
  <2>3. Attempts' = 1 .. n
        BY <1>1, <1>2 DEF Attempts
  <2>4. QED  BY <1>5, <2>1, <2>2, <2>3 DEF NoCoreForgotten
<1>12. Ownership'
      BY <1>1, <1>2, <1>3, <1>8, <1>9, <1>10, <1>11, AgentStep
<1>13. QED  BY <1>2, <1>5, <1>6, <1>7, <1>12

LEMMA StopLocalStep ==
  ASSUME SupervisorInv, StopLocal
  PROVE  /\ Shape' /\ Ownership' /\ call' = NoCall /\ agent' # "gone"
         /\ sup'.at = "start" => status' = "starting"
         /\ \/ session'.owner = 0 /\ session'.child = 0
            \/ sup'.at = "idle" /\ status' = "failed"
<1> PICK n \in Nat : n = session.attempt
    BY ShapeTypes DEF SupervisorInv
<1>0. /\ Shape /\ OneBackend /\ CallIsForOwner /\ NoCoreForgotten /\ RoundsStartClean
      BY DEF SupervisorInv, Ownership
<1>1. /\ Attempts = 1 .. n /\ CoreShape(core, n) /\ SessionShape(session) /\ SupShape(sup, n)
      /\ StatusShape(status) /\ AgentShape(agent) /\ backend \in Backends
      /\ session.child \in 0 .. n
      BY <1>0, AttemptsShape DEF Shape, SessionShape
<1>2. /\ call = NoCall /\ agent = "up" /\ sup.at = "stopping" /\ session.child # 0
      /\ UNCHANGED <<backend, call, late, helper, backlog, queue>>
      BY DEF StopLocal, Supervising
<1>3. backend = "local" /\ session.owner = 0 /\ late = {}
      BY <1>0, <1>1, <1>2, BackendsAssumption DEF OneBackend
<1>4. CASE NotStopped /\ Fault /\ UNCHANGED <<session, core>>
  <2>1. /\ SupShape(sup', n) /\ StatusShape(status') /\ agent' = agent
        /\ sup'.at = "idle" /\ status' = "failed"
        BY <1>1, <1>4, NotStoppedEffect
  <2>2. BudgetShape(budget')
        BY <1>0, <1>4, BudgetFalls DEF Shape
  <2>3. Shape'
        BY <1>0, <1>2, <1>4, <2>1, <2>2 DEF Shape
  <2>4. Ownership'
        BY <1>1, <1>2, <1>4, <2>1, QuietStep
  <2>5. QED  BY <1>2, <2>1, <2>3, <2>4
<1>5. CASE /\ session' = [session EXCEPT !.child = 0] /\ Stopped /\ UNCHANGED budget
           /\ core' = [core EXCEPT ![session.child].run = "exited"]
  <2>1. /\ SessionShape(session') /\ session'.attempt = n
        /\ session'.child = 0 /\ session'.owner = 0
        BY <1>1, <1>3, <1>5 DEF SessionShape
  <2>2. /\ SupShape(sup', n) /\ StatusShape(status') /\ AgentShape(agent') /\ agent' # "gone"
        /\ sup'.at = "start" => status' = "starting"
        BY <1>1, <1>2, <1>5, StoppedEffect
  <2>3. session.child \in 1 .. n
        BY <1>1, <1>2
  <2>4. /\ CoreShape([core EXCEPT ![session.child].run = "exited"], n)
        /\ \A a \in 1 .. n : [core EXCEPT ![session.child].run = "exited"][a].run
                               = IF a = session.child THEN "exited" ELSE core[a].run
        BY <1>1, <2>3, CoreWritten
  <2>5. /\ CoreShape(core', n)
        /\ \A a \in 1 .. n : core'[a].run = IF a = session.child THEN "exited" ELSE core[a].run
        BY <1>5, <2>4
  <2>6. Shape'
        BY <1>0, <1>2, <1>5, <2>1, <2>2, <2>5 DEF Shape
  <2>7. OneBackend'
        BY <1>0, <1>2, <1>3, <2>1 DEF OneBackend
  <2>8. CallIsForOwner'
        BY <1>2 DEF CallIsForOwner, NoCall
  <2>9. call'.path = "none" /\ late' = {}
        BY <1>2, <1>3 DEF NoCall
  <2>10. \A a \in 1 .. n : ~Unhandled(a)' /\ ~MayRun(a)'
    <3>1. \A a \in 1 .. n : Running(a)' => FALSE
          BY <1>0, <1>1, <1>2, <1>3, <2>5 DEF NoCoreForgotten, MayRun, Running
    <3>2. QED  BY <2>9, <3>1 DEF Unhandled, MayRun
  <2>11. NoCoreForgotten'
    <3>1. Attempts' = 1 .. n
          BY <2>5 DEF CoreShape, Attempts
    <3>2. QED  BY <2>10, <3>1 DEF NoCoreForgotten
  <2>12. \A a \in 1 .. n : core'[a].run = "running" => core[a].run = "running"
        BY <2>5
  <2>13. Ownership'
        BY <1>2, <2>5, <2>7, <2>8, <2>9, <2>10, <2>11, <2>12, AgentStep
  <2>14. QED  BY <1>2, <2>1, <2>2, <2>6, <2>13
<1>6. QED  BY <1>4, <1>5 DEF StopLocal

LEMMA AgentGoneStep ==
  ASSUME SupervisorInv, AgentGone, BudgetShape(budget')
  PROVE  Shape' /\ Ownership' /\ UNCHANGED <<sup, status, session>> /\ call' = NoCall
<1> PICK n \in Nat : n = session.attempt
    BY ShapeTypes DEF SupervisorInv
<1>0. /\ Shape /\ OneBackend /\ CallIsForOwner
      BY DEF SupervisorInv, Ownership
<1>1. /\ Attempts = 1 .. n /\ CoreShape(core, n) /\ CallShape(call, n) /\ LateShape(late, n)
      /\ session.owner \in 0 .. n
      BY <1>0, AttemptsShape DEF Shape, SessionShape
<1>2. /\ agent' = "gone" /\ call' = NoCall /\ backlog' = <<>>
      /\ UNCHANGED <<backend, sup, status, session, helper, queue>>
      /\ late' = IF call.path # "none" /\ call.reply = "none"
                   THEN late \cup {[path |-> call.path, owner |-> call.owner]} ELSE late
      BY DEF AgentGone
<1>3. CoreShape(core', n) /\ \A a \in 1 .. n : core'[a].run = "running" => core[a].run = "running"
  <2> DEFINE New(a) == [run |-> IF a = session.child THEN "exited" ELSE core[a].run,
                        link |-> IF core[a].link = "none" THEN "none" ELSE "closed"]
  <2>1. core' = [a \in 1 .. n |-> New(a)]
        BY <1>1 DEF AgentGone
  <2>2. \A a \in 1 .. n : /\ New(a) \in CoreRecords
                          /\ New(a).run = "running" => core[a].run = "running"
        BY <1>1 DEF CoreShape, CoreRecords
  <2> HIDE DEF New
  <2>3. QED  BY <2>1, <2>2 DEF CoreShape
<1>4. CallShape(call', n) /\ call'.path = "none" /\ call'.reply = "none"
      BY <1>2 DEF CallShape, NoCall
<1>5. call.path # "none" => call.owner \in 1 .. n /\ call.path \in {"/start", "/stop"}
      BY <1>0, <1>1 DEF CallIsForOwner, CallShape
<1>6. LateShape(late', n)
  <2>1. call.path # "none" =>
          [path |-> call.path, owner |-> call.owner] \in [path : {"/start", "/stop"}, owner : 1 .. n]
        BY <1>5
  <2>2. QED  BY <1>1, <1>2, <2>1 DEF LateShape
<1>7. backlog' \in Seq(1 .. n) /\ AgentShape(agent')
      BY <1>2 DEF AgentShape
<1>8. Shape'
      BY <1>0, <1>2, <1>3, <1>4, <1>6, <1>7 DEF Shape
<1>9. OneBackend'
      BY <1>0, <1>2 DEF OneBackend, NoCall
<1>10. CallIsForOwner'
      BY <1>2, <1>4 DEF CallIsForOwner
<1>11. NoCoreForgotten'
      BY <1>2 DEF NoCoreForgotten
<1>12. \A a \in 1 .. n : Unhandled(a)' => Unhandled(a)
  <2>1. \A a \in 1 .. n :
          [path |-> "/start", owner |-> a] = [path |-> call.path, owner |-> call.owner] =>
            call.path = "/start" /\ call.owner = a
        OBVIOUS
  <2>2. QED  BY <1>2, <1>4, <2>1 DEF Unhandled
<1>13. Ownership'
      BY <1>2, <1>3, <1>4, <1>9, <1>10, <1>11, <1>12, AgentStep
<1>14. QED  BY <1>2, <1>8, <1>13

-----------------------------------------------------------------------------
(* The rounds of the supervisor, and the invariant.                        *)

\* The supervisor does not move.
LEMMA RoundStays ==
  ASSUME RoundsStartClean, UNCHANGED <<session, status>>, sup'.at = sup.at,
         call'.path = call.path, call' = NoCall => call = NoCall,
         agent' # "gone" => agent # "gone"
  PROVE  RoundsStartClean'
BY DEF RoundsStartClean

\* A round ends: with nothing left, or in a place where no round starts.
LEMMA RoundEnds ==
  ASSUME RoundsStartClean, call' = NoCall, sup'.at = "start" => status' = "starting",
         \/ session'.owner = 0 /\ session'.child = 0
         \/ /\ sup'.at \notin {"start", "backoff"}
            /\ status' = "stopped" => session'.owner = 0 /\ session'.child = 0
  PROVE  RoundsStartClean'
BY DEF RoundsStartClean, NoCall

\* The stream was dropped on the way to stop_backend, and nothing else changed.
LEMMA RoundIsStopped ==
  ASSUME SupervisorInv, NEW reason \in Kinds \cup {"cleanup", "crash"}, StopFor(reason),
         UNCHANGED <<backend, agent, session, call, late, helper, backlog>>,
         QueueShape(queue'), BudgetShape(budget'), call = NoCall,
         status' \in {status, "starting"}
  PROVE  SupervisorInv'
<1> PICK n \in Nat : n = session.attempt
    BY ShapeTypes DEF SupervisorInv
<1>1. Shape /\ RoundsStartClean /\ SupShape(sup, n) /\ CoreShape(core, n)
      BY DEF SupervisorInv, Shape
<1>2. /\ SupShape(sup', n) /\ sup'.at = "stopping"
      /\ CoreShape(core', n) /\ \A a \in 1 .. n : core'[a].run = core[a].run
      BY <1>1, StopForEffect
<1>3. Shape'
      BY <1>1, <1>2 DEF Shape, StatusShape
<1>4. Ownership'
      BY <1>2, QuietStep
<1>5. RoundsStartClean'
      BY <1>1, <1>2, RoundEnds DEF RoundsStartClean
<1>6. QED  BY <1>3, <1>4, <1>5 DEF SupervisorInv

LEMMA SupervisorInit == Init => SupervisorInv
<1> SUFFICES ASSUME Init PROVE SupervisorInv
    OBVIOUS
<1>1. Shape
  <2>1. CoreShape(core, 0)
        BY DEF Init, CoreShape
  <2>2. budget \in [faults : Nat, commands : Nat]
        BY BudgetsAssumption DEF Init
  <2>3. QueueShape(queue)
        BY CapacityAssumption DEF Init, QueueShape
  <2>4. SupShape(sup, 0)
        BY DEF Init, SupShape, Places, Kinds
  <2>5. QED  BY <2>1, <2>2, <2>3, <2>4 DEF Init, Shape, SessionShape, CallShape, LateShape,
                HelperShape, StatusShape, AgentShape, BudgetShape, NoCall
<1>2. Attempts = {} /\ call.path = "none"
      BY DEF Init, Attempts, NoCall
<1>3. OneBackend /\ CallIsForOwner
      BY DEF Init, OneBackend, CallIsForOwner, NoCall
<1>4. HandledOnce /\ HandleIsHeld /\ StopIsProven /\ NoCoreForgotten
      BY <1>2 DEF Init, HandledOnce, HandleIsHeld, StopIsProven, NoCoreForgotten
<1>5. RoundsStartClean
      BY <1>2 DEF Init, RoundsStartClean
<1>6. QED  BY <1>1, <1>3, <1>4, <1>5 DEF SupervisorInv, Ownership

LEMMA SupervisorStep == SupervisorInv /\ [Next]_vars => SupervisorInv'
<1> SUFFICES ASSUME SupervisorInv, [Next]_vars PROVE SupervisorInv'
    OBVIOUS
<1> PICK n \in Nat : n = session.attempt
    BY ShapeTypes DEF SupervisorInv
<1>0. /\ Shape /\ OneBackend /\ CallIsForOwner /\ RoundsStartClean
      /\ NoCoreForgotten /\ Attempts = 1 .. n
      BY ShapeTypes DEF SupervisorInv, Ownership
<1>1. /\ CoreShape(core, n) /\ SupShape(sup, n) /\ CallShape(call, n)
      /\ BudgetShape(budget) /\ QueueShape(queue) /\ StatusShape(status)
      /\ backlog \in Seq(1 .. n)
      BY <1>0 DEF Shape
<1>2. ASSUME NEW a \in Attempts, CoreDials(a) PROVE SupervisorInv'
  <2>1. /\ core' = [core EXCEPT ![a].link = "backlog"] /\ backlog' = Append(backlog, a)
        /\ UNCHANGED <<backend, agent, sup, status, session, call, late, helper, queue, budget>>
        BY <1>2 DEF CoreDials
  <2>2. /\ CoreShape([core EXCEPT ![a].link = "backlog"], n)
        /\ \A b \in 1 .. n : [core EXCEPT ![a].link = "backlog"][b].run = core[b].run
        BY <1>0, <1>1, CoreWritten
  <2>3. backlog' \in Seq(1 .. n)
        BY <1>0, <1>1, <2>1, AppendProperties
  <2>4. CoreShape(core', n) /\ \A b \in 1 .. n : core'[b].run = core[b].run
        BY <2>1, <2>2
  <2>5. Shape'
        BY <1>0, <2>1, <2>3, <2>4 DEF Shape
  <2>6. Ownership'
        BY <2>1, <2>4, QuietStep
  <2>7. RoundsStartClean'
        BY <1>0, <2>1, RoundStays
  <2>8. QED  BY <2>5, <2>6, <2>7 DEF SupervisorInv
<1>3. ASSUME NEW a \in Attempts, CoreLeaves(a) \/ CoreCrashes(a) PROVE SupervisorInv'
  <2>1. /\ core' = [core EXCEPT ![a].run = "exited"]
        /\ UNCHANGED <<backend, agent, sup, status, session, call, late, helper, backlog, queue>>
        BY <1>3 DEF CoreLeaves, CoreCrashes
  <2>2. /\ CoreShape([core EXCEPT ![a].run = "exited"], n)
        /\ \A b \in 1 .. n : [core EXCEPT ![a].run = "exited"][b].run
                               = IF b = a THEN "exited" ELSE core[b].run
        BY <1>0, <1>1, CoreWritten
  <2>3. BudgetShape(budget')
        BY <1>1, <1>3, BudgetFalls DEF CoreLeaves, CoreCrashes
  <2>4. /\ CoreShape(core', n)
        /\ \A b \in 1 .. n : core'[b].run = "running" => core[b].run = "running"
        BY <2>1, <2>2
  <2>5. Shape'
        BY <1>0, <2>1, <2>3, <2>4 DEF Shape
  <2>6. Ownership'
        BY <2>1, <2>4, QuietStep
  <2>7. RoundsStartClean'
        BY <1>0, <2>1, RoundStays
  <2>8. QED  BY <2>5, <2>6, <2>7 DEF SupervisorInv
<1>4. CASE HelperAnswers
  <2>1. PICK reply \in {"started", "rejected", "stopped", "unconfirmed"} :
            Handle(call, reply) /\ call' = [call EXCEPT !.reply = reply]
        BY <1>4 DEF HelperAnswers
  <2>2. /\ UNCHANGED <<backend, agent, sup, status, session, late, backlog, queue>>
        /\ call.path # "none" /\ call.reply = "none"
        BY <1>4 DEF HelperAnswers
  <2>3. PICK o \in 1 .. n : o = call.owner
        BY <1>0, <1>1, <2>2 DEF CallIsForOwner, CallShape
  <2>4. /\ Ownership' /\ HelperShape(helper', n) /\ CoreShape(core', n)
        /\ BudgetShape(budget') /\ CallShape(call', n)
        /\ call'.path = call.path /\ (call' = NoCall <=> call = NoCall)
    <3>1. CASE call.path = "/start" /\ HandleStart(o, reply)
      <4>1. Unhandled(o)
            BY <2>2, <2>3, <3>1 DEF Unhandled
      <4>2. QED  BY <2>1, <2>2, <2>3, <3>1, <4>1, StartHandled
    <3>2. CASE call.path = "/stop" /\ HandleStop(o, reply)
      <4>1. backend = "helper"
            BY <1>0, <2>2, BackendsAssumption DEF OneBackend, NoCall, Shape
      <4>2. QED  BY <2>1, <2>2, <2>3, <3>2, <4>1, StopHandled
    <3>3. QED  BY <2>1, <2>3, <3>1, <3>2 DEF Handle
  <2>5. Shape'
        BY <1>0, <2>2, <2>4 DEF Shape
  <2>6. RoundsStartClean'
        BY <1>0, <2>2, <2>4, RoundStays
  <2>7. QED  BY <2>4, <2>5, <2>6 DEF SupervisorInv
<1>5. CASE HelperAnswersLate
  <2>1. PICK r \in late :
            /\ \E reply \in {"started", "rejected", "stopped", "unconfirmed"} : Handle(r, reply)
            /\ late' = late \ {r}
        BY <1>5 DEF HelperAnswersLate
  <2>2. PICK reply \in {"started", "rejected", "stopped", "unconfirmed"} : Handle(r, reply)
        BY <2>1
  <2>3. UNCHANGED <<backend, agent, sup, status, session, call, backlog, queue>>
        BY <1>5 DEF HelperAnswersLate
  <2>4. r \in [path : {"/start", "/stop"}, owner : 1 .. n] /\ LateShape(late, n)
        BY <1>0 DEF Shape, LateShape
  <2>5. PICK o \in 1 .. n : o = r.owner
        BY <2>4
  <2>6. r = [path |-> r.path, owner |-> o]
        BY <2>4, <2>5
  <2>7. /\ Ownership' /\ HelperShape(helper', n) /\ CoreShape(core', n)
        /\ BudgetShape(budget')
    <3>1. CASE r.path = "/start" /\ HandleStart(o, reply)
      <4>1. [path |-> "/start", owner |-> o] \in late /\ Unhandled(o)
            BY <2>6, <3>1 DEF Unhandled
      <4>2. late' = late \ {[path |-> "/start", owner |-> o]}
            BY <2>1, <2>6, <3>1
      <4>3. QED  BY <2>3, <3>1, <4>1, <4>2, StartHandled
    <3>2. CASE r.path = "/stop" /\ HandleStop(o, reply)
      <4>1. late' = late \ {[path |-> "/stop", owner |-> o]}
            BY <2>1, <2>6, <3>2
      <4>2. backend = "helper"
            BY <1>0, <2>1, BackendsAssumption DEF OneBackend, Shape
      <4>3. QED  BY <2>3, <3>2, <4>1, <4>2, StopHandled
    <3>3. QED  BY <2>2, <2>5, <3>1, <3>2 DEF Handle
  <2>8. LateShape(late', n)
        BY <2>1, <2>4 DEF LateShape
  <2>9. Shape'
        BY <1>0, <2>3, <2>7, <2>8 DEF Shape
  <2>10. RoundsStartClean'
        BY <1>0, <2>3, RoundStays
  <2>11. QED  BY <2>7, <2>9, <2>10 DEF SupervisorInv
<1>6. CASE LateIsDropped
  <2>1. /\ UNCHANGED <<backend, agent, sup, status, session, call, helper, core, backlog, queue,
                       budget>>
        /\ late' \subseteq late
        BY <1>6 DEF LateIsDropped
  <2>2. Shape'
        BY <1>0, <2>1 DEF Shape, LateShape
  <2>3. Ownership'
        BY <1>1, <2>1, QuietStep
  <2>4. RoundsStartClean'
        BY <1>0, <2>1, RoundStays
  <2>5. QED  BY <2>2, <2>3, <2>4 DEF SupervisorInv
<1>7. CASE ServiceStops
  <2>1. UNCHANGED <<backend, agent, sup, status, session, call, late, backlog, queue>>
        BY <1>7 DEF ServiceStops
  <2>2. /\ Ownership' /\ HelperShape(helper', n) /\ CoreShape(core', n) /\ BudgetShape(budget')
        BY <1>7, ServiceStopsStep
  <2>3. Shape'
        BY <1>0, <2>1, <2>2 DEF Shape
  <2>4. RoundsStartClean'
        BY <1>0, <2>1, RoundStays
  <2>5. QED  BY <2>2, <2>3, <2>4 DEF SupervisorInv
<1>8. CASE ServiceEnds \/ HelperCrashes
  <2>1. UNCHANGED <<backend, agent, sup, status, session, core, backlog, queue>>
        BY <1>8 DEF ServiceEnds, HelperCrashes
  <2>2. /\ Ownership' /\ HelperShape(helper', n) /\ CallShape(call', n) /\ LateShape(late', n)
        /\ BudgetShape(budget')
        /\ call'.path = call.path /\ (call' = NoCall => call = NoCall)
        BY <1>8, HelperEndsStep
  <2>3. Shape'
        BY <1>0, <2>1, <2>2 DEF Shape
  <2>4. RoundsStartClean'
        BY <1>0, <2>1, <2>2, RoundStays
  <2>5. QED  BY <2>2, <2>3, <2>4 DEF SupervisorInv
<1>9. CASE HelperStarts
  <2>1. UNCHANGED <<backend, agent, sup, status, session, call, late, core, backlog, queue,
                    budget>>
        BY <1>9 DEF HelperStarts
  <2>2. Ownership' /\ HelperShape(helper', n)
        BY <1>9, HelperStartsStep
  <2>3. Shape'
        BY <1>0, <2>1, <2>2 DEF Shape
  <2>4. RoundsStartClean'
        BY <1>0, <2>1, RoundStays
  <2>5. QED  BY <2>2, <2>3, <2>4 DEF SupervisorInv
<1>10. ASSUME NEW kind \in Kinds, IssueCommand(kind) PROVE SupervisorInv'
  <2>1. UNCHANGED <<backend, agent, sup, status, session, call, late, helper, core, backlog>>
        BY <1>10 DEF IssueCommand
  <2>2. QueueShape(queue')
    <3>1. CASE queue' = queue
          BY <1>1, <3>1
    <3>2. CASE Len(queue) < CommandCapacity /\ queue' = Append(queue, kind)
          BY <1>1, <3>2, CapacityAssumption, AppendProperties, LenProperties DEF QueueShape
    <3>3. QED  BY <1>10, <3>1, <3>2 DEF IssueCommand
  <2>3. BudgetShape(budget')
        BY <1>1, <1>10 DEF IssueCommand, BudgetShape
  <2>4. Shape'
        BY <1>0, <2>1, <2>2, <2>3 DEF Shape
  <2>5. Ownership'
        BY <1>1, <2>1, QuietStep
  <2>6. RoundsStartClean'
        BY <1>0, <2>1, RoundStays
  <2>7. QED  BY <2>4, <2>5, <2>6 DEF SupervisorInv
<1>11. CASE HelperUnfit
  <2>1. BudgetShape(budget')
        BY <1>1, <1>11, BudgetFalls DEF HelperUnfit
  <2>2. QED  BY <1>1, <1>11, <2>1, RoundIsStopped DEF HelperUnfit, Supervising
<1>12. CASE AttachTimesOut
  <2>1. BudgetShape(budget')
        BY <1>1, <1>12, BudgetFalls DEF AttachTimesOut
  <2>2. QED  BY <1>1, <1>12, <2>1, RoundIsStopped DEF AttachTimesOut, Supervising
<1>13. CASE ReplayFails
  <2>1. BudgetShape(budget')
        BY <1>1, <1>13, BudgetFalls DEF ReplayFails
  <2>2. QED  BY <1>1, <1>13, <2>1, RoundIsStopped DEF ReplayFails, Supervising
<1>14. CASE CoreLost
  <2>1. BudgetShape(budget')
        BY <1>1, <1>14, BudgetFalls DEF CoreLost
  <2>2. QED  BY <1>1, <1>14, <2>1, RoundIsStopped DEF CoreLost, Supervising
<1>15. CASE TakeCommand
  <2>1. /\ queue # <<>> /\ queue' = Tail(queue) /\ StopFor(Head(queue)) /\ call = NoCall
        /\ status' \in {status, "starting"}
        /\ UNCHANGED <<backend, agent, session, call, late, helper, backlog, budget>>
        BY <1>15 DEF TakeCommand, Supervising
  <2>2. Head(queue) \in Kinds /\ QueueShape(queue')
    <3>1. queue \in Seq(Kinds) /\ Len(queue) <= CommandCapacity
          BY <1>1 DEF QueueShape
    <3>2. /\ Head(queue) \in Kinds /\ Tail(queue) \in Seq(Kinds)
          /\ Len(Tail(queue)) = Len(queue) - 1 /\ Len(queue) \in Nat
          BY <2>1, <3>1, HeadTailProperties, LenProperties
    <3>3. QED  BY <2>1, <3>1, <3>2, CapacityAssumption DEF QueueShape
  <2>3. QED  BY <1>1, <2>1, <2>2, RoundIsStopped
<1>16. CASE RequestStart
  <2>1. Shape' /\ Ownership'
        BY <1>16, RequestStartStep
  <2>2. /\ sup.at = "start" /\ UNCHANGED <<sup, status, agent>> /\ agent = "up"
        /\ backend = "helper" /\ call'.path = "/start" /\ call' # NoCall
        /\ session'.child = session.child
    <3>1. session' = [session EXCEPT !.attempt = n + 1, !.owner = n + 1]
          BY <1>16 DEF RequestStart
    <3>2. SessionShape(session)
          BY <1>0 DEF Shape
    <3>3. session'.child = session.child
          BY <3>1, <3>2 DEF SessionShape
    <3>4. QED  BY <1>16, <3>3 DEF RequestStart, Supervising, NoCall
  <2>3. status = "starting" /\ session.child = 0
        BY <1>0, <2>2 DEF RoundsStartClean
  <2>4. RoundsStartClean'
        BY <2>2, <2>3 DEF RoundsStartClean
  <2>5. QED  BY <2>1, <2>4 DEF SupervisorInv
<1>17. CASE StartAnswered
  <2>1. Shape' /\ Ownership' /\ sup'.at \in {"attach", "stopping"}
        BY <1>17, StartAnsweredStep
  <2>2. /\ status' = status /\ call' = NoCall /\ call.path = "/start"
        BY <1>17 DEF StartAnswered
  <2>3. status = "starting"
        BY <1>0, <2>2 DEF RoundsStartClean
  <2>4. RoundsStartClean'
        BY <1>0, <2>1, <2>2, <2>3, RoundEnds
  <2>5. QED  BY <2>1, <2>4 DEF SupervisorInv
<1>18. CASE CallTimesOut
  <2>1. Shape' /\ Ownership' /\ call'.path = call.path /\ call' # NoCall
        BY <1>18, CallTimesOutStep
  <2>2. UNCHANGED <<agent, sup, status, session>>
        BY <1>18 DEF CallTimesOut
  <2>3. RoundsStartClean'
        BY <1>0, <2>1, <2>2, RoundStays
  <2>4. QED  BY <2>1, <2>3 DEF SupervisorInv
<1>19. CASE SpawnLocal
  <2>1. CASE Fault /\ StopFor("cleanup") /\ UNCHANGED session
    <3>1. BudgetShape(budget')
          BY <1>1, <2>1, BudgetFalls
    <3>2. QED  BY <1>1, <1>19, <2>1, <3>1, RoundIsStopped DEF SpawnLocal, Supervising
  <2>2. CASE /\ session' = [session EXCEPT !.attempt = session.attempt + 1,
                                           !.child = session.attempt + 1]
             /\ core' = Append(core, [run |-> "running", link |-> "none"])
             /\ sup' = [sup EXCEPT !.at = "attach"] /\ UNCHANGED budget
    <3>1. /\ agent = "up" /\ backend = "local" /\ call = NoCall /\ sup.at = "start"
          /\ UNCHANGED <<backend, agent, status, call, late, helper, backlog, queue>>
          BY <1>19 DEF SpawnLocal, Supervising
    <3>2. Shape' /\ Ownership' /\ sup'.at = "attach"
          BY <2>2, <3>1, SpawnedLocally
    <3>3. status = "starting"
          BY <1>0, <3>1 DEF RoundsStartClean
    <3>4. RoundsStartClean'
          BY <1>0, <3>1, <3>2, <3>3, RoundEnds
    <3>5. QED  BY <3>2, <3>4 DEF SupervisorInv
  <2>3. QED  BY <1>19, <2>1, <2>2 DEF SpawnLocal
<1>20. CASE Accept
  <2>1. PICK a : a = Head(backlog)
        OBVIOUS
  <2>2. /\ sup.at = "attach" /\ backlog # <<>> /\ backlog' = Tail(backlog) /\ call = NoCall
        /\ UNCHANGED <<backend, agent, status, session, call, late, helper, queue, budget>>
        BY <1>20 DEF Accept, Supervising
  <2>3. a \in 1 .. n /\ backlog' \in Seq(1 .. n)
        BY <1>1, <2>1, <2>2, HeadTailProperties
  <2>4. /\ \/ sup' = [sup EXCEPT !.at = "replay", !.stream = a]
           \/ sup' = sup \/ sup' = [sup EXCEPT !.at = "stopping", !.for = "cleanup"]
        /\ \E link \in {"attached", "closed"} : core' = [core EXCEPT ![a].link = link]
        BY <1>20, <2>1 DEF Accept
  <2>5. CoreShape(core', n) /\ \A b \in 1 .. n : core'[b].run = core[b].run
    <3>1. CASE core' = [core EXCEPT ![a].link = "attached"]
      <4>1. /\ CoreShape([core EXCEPT ![a].link = "attached"], n)
            /\ \A b \in 1 .. n : [core EXCEPT ![a].link = "attached"][b].run = core[b].run
            BY <1>1, <2>3, CoreWritten
      <4>2. QED  BY <3>1, <4>1
    <3>2. CASE core' = [core EXCEPT ![a].link = "closed"]
      <4>1. /\ CoreShape([core EXCEPT ![a].link = "closed"], n)
            /\ \A b \in 1 .. n : [core EXCEPT ![a].link = "closed"][b].run = core[b].run
            BY <1>1, <2>3, CoreWritten
      <4>2. QED  BY <3>2, <4>1
    <3>3. QED  BY <2>4, <3>1, <3>2
  <2>6. SupShape(sup', n) /\ sup'.at \in {"replay", "attach", "stopping"}
    <3>1. CASE sup' = [sup EXCEPT !.at = "replay", !.stream = a]
      <4>1. sup' \in [at : Places, for : Kinds \cup {"none", "cleanup", "crash"},
                      shouldStart : BOOLEAN, crashes : Nat, stream : Nat, steady : BOOLEAN]
        <5>1. a \in Nat /\ "replay" \in Places
              BY <2>3 DEF Places
        <5>2. QED  BY <1>1, <3>1, <5>1 DEF SupShape, Kinds
      <4>2. sup'.stream = a /\ sup'.at = "replay"
            BY <1>1, <3>1 DEF SupShape
      <4>3. QED  BY <2>3, <4>1, <4>2 DEF SupShape
    <3>2. CASE sup' = [sup EXCEPT !.at = "stopping", !.for = "cleanup"]
      <4>1. sup' \in [at : Places, for : Kinds \cup {"none", "cleanup", "crash"},
                      shouldStart : BOOLEAN, crashes : Nat, stream : Nat, steady : BOOLEAN]
            BY <1>1, <3>2 DEF SupShape, Places, Kinds
      <4>2. sup'.stream = sup.stream /\ sup'.at = "stopping"
            BY <1>1, <3>2 DEF SupShape
      <4>3. QED  BY <1>1, <4>1, <4>2 DEF SupShape
    <3>3. CASE sup' = sup
          BY <1>1, <2>2, <3>3
    <3>4. QED  BY <2>4, <3>1, <3>2, <3>3
  <2>7. Shape'
        BY <1>0, <2>2, <2>3, <2>5, <2>6 DEF Shape
  <2>8. Ownership'
        BY <2>2, <2>5, QuietStep
  <2>9. RoundsStartClean'
        BY <1>0, <2>2, <2>6, RoundEnds DEF RoundsStartClean
  <2>10. QED  BY <2>7, <2>8, <2>9 DEF SupervisorInv
<1>21. CASE Replayed \/ Steadies
  <2>1. /\ UNCHANGED <<backend, agent, session, call, late, helper, core, backlog, queue, budget>>
        /\ status' \in {status, "ready"} /\ call = NoCall
        BY <1>21 DEF Replayed, Steadies, Supervising
  <2>2. SupShape(sup', n) /\ sup'.at = "ready"
    <3>1. CASE sup' = [sup EXCEPT !.at = "ready", !.steady = FALSE]
      <4>1. sup' \in [at : Places, for : Kinds \cup {"none", "cleanup", "crash"},
                      shouldStart : BOOLEAN, crashes : Nat, stream : Nat, steady : BOOLEAN]
            BY <1>1, <3>1 DEF SupShape, Places, Kinds
      <4>2. sup'.stream = sup.stream /\ sup'.at = "ready"
            BY <1>1, <3>1 DEF SupShape
      <4>3. QED  BY <1>1, <4>1, <4>2 DEF SupShape
    <3>2. CASE sup.at = "ready" /\ sup' = [sup EXCEPT !.steady = TRUE]
          BY <1>1, <3>2 DEF SupShape
    <3>3. QED  BY <1>21, <3>1, <3>2 DEF Replayed, Steadies
  <2>3. Shape'
        BY <1>0, <2>1, <2>2 DEF Shape, StatusShape
  <2>4. Ownership'
        BY <1>1, <2>1, QuietStep
  <2>5. RoundsStartClean'
        BY <1>0, <2>1, <2>2, RoundEnds DEF RoundsStartClean
  <2>6. QED  BY <2>3, <2>4, <2>5 DEF SupervisorInv
<1>22. CASE BackoffEnds
  <2>1. /\ LoopTop(TRUE, sup.crashes, FALSE) /\ sup.at = "backoff" /\ call = NoCall
        /\ UNCHANGED <<backend, agent, session, call, late, helper, core, backlog, queue, budget>>
        BY <1>22 DEF BackoffEnds, Supervising
  <2>2. sup.crashes \in Nat
        BY <1>1 DEF SupShape
  <2>3. SupShape(sup', n) /\ StatusShape(status') /\ status' = "starting"
        BY <1>1, <2>1, <2>2, LoopTopEffect
  <2>4. Shape'
        BY <1>0, <2>1, <2>3 DEF Shape
  <2>5. Ownership'
        BY <1>1, <2>1, QuietStep
  <2>6. RoundsStartClean'
        BY <1>0, <2>1, <2>3, RoundEnds DEF RoundsStartClean
  <2>7. QED  BY <2>4, <2>5, <2>6 DEF SupervisorInv
<1>23. CASE NothingToStop
  <2>1. /\ agent = "up" /\ call = NoCall /\ sup.at = "stopping" /\ Stopped
        /\ session.owner = 0 /\ session.child = 0
        /\ UNCHANGED <<backend, session, call, late, helper, core, backlog, queue, budget>>
        BY <1>23 DEF NothingToStop, Supervising
  <2>2. /\ SupShape(sup', n) /\ StatusShape(status') /\ AgentShape(agent') /\ agent' # "gone"
        /\ sup'.at = "start" => status' = "starting"
        BY <1>1, <2>1, StoppedEffect
  <2>3. Shape'
        BY <1>0, <2>1, <2>2 DEF Shape
  <2>4. Ownership'
        BY <1>1, <2>1, <2>2, QuietStep
  <2>5. RoundsStartClean'
        BY <1>0, <2>1, <2>2, RoundEnds
  <2>6. QED  BY <2>3, <2>4, <2>5 DEF SupervisorInv
<1>24. CASE RequestStop
  <2>1. Shape' /\ Ownership' /\ call'.path = "/stop" /\ call' # NoCall
        BY <1>24, RequestStopStep
  <2>2. sup.at = "stopping" /\ UNCHANGED <<agent, sup, status, session>>
        BY <1>24 DEF RequestStop
  <2>3. RoundsStartClean'
        BY <1>0, <2>1, <2>2 DEF RoundsStartClean
  <2>4. QED  BY <2>1, <2>3 DEF SupervisorInv
<1>25. CASE HelperUnreachable
  <2>1. /\ NotStopped /\ call = NoCall
        /\ UNCHANGED <<backend, session, call, late, helper, core, backlog, queue, budget>>
        BY <1>25 DEF HelperUnreachable, Supervising
  <2>2. /\ SupShape(sup', n) /\ StatusShape(status') /\ agent' = agent
        /\ sup'.at = "idle" /\ status' = "failed"
        BY <1>1, <2>1, NotStoppedEffect
  <2>3. Shape'
        BY <1>0, <2>1, <2>2 DEF Shape
  <2>4. Ownership'
        BY <1>1, <2>1, <2>2, QuietStep
  <2>5. RoundsStartClean'
        BY <1>0, <2>1, <2>2, RoundEnds
  <2>6. QED  BY <2>3, <2>4, <2>5 DEF SupervisorInv
<1>26. CASE StopAnswered \/ StopLocal
  <2>1. /\ Shape' /\ Ownership' /\ call' = NoCall
        /\ sup'.at = "start" => status' = "starting"
        /\ \/ session'.owner = 0 /\ session'.child = 0
           \/ sup'.at = "idle" /\ status' = "failed"
        BY <1>26, StopAnsweredStep, StopLocalStep
  <2>2. RoundsStartClean'
        BY <1>0, <2>1, RoundEnds
  <2>3. QED  BY <2>1, <2>2 DEF SupervisorInv
<1>27. CASE ShutdownSignalled \/ AgentCrashes
  <2>1. AgentGone /\ agent' = "gone"
        BY <1>27 DEF ShutdownSignalled, AgentCrashes, AgentGone
  <2>2. BudgetShape(budget')
        BY <1>1, <1>27, BudgetFalls DEF ShutdownSignalled, AgentCrashes
  <2>3. Shape' /\ Ownership' /\ UNCHANGED <<sup, status, session>> /\ call' = NoCall
        BY <2>1, <2>2, AgentGoneStep
  <2>4. RoundsStartClean'
        BY <1>0, <2>1, <2>3 DEF RoundsStartClean, NoCall
  <2>5. QED  BY <2>3, <2>4 DEF SupervisorInv
<1>28. CASE UNCHANGED vars
  <2>1. Shape'
        BY <1>0, <1>28 DEF vars, Shape
  <2>2. Ownership'
        BY <1>1, <1>28, QuietStep DEF vars
  <2>3. RoundsStartClean'
        BY <1>0, <1>28, RoundStays DEF vars
  <2>4. QED  BY <2>1, <2>2, <2>3 DEF SupervisorInv
<1>29. QED
      BY <1>2, <1>3, <1>4, <1>5, <1>6, <1>7, <1>8, <1>9, <1>10, <1>11, <1>12, <1>13, <1>14,
         <1>15, <1>16, <1>17, <1>18, <1>19, <1>20, <1>21, <1>22, <1>23, <1>24, <1>25, <1>26,
         <1>27, <1>28 DEF Next, Program, Environment

-----------------------------------------------------------------------------
(* The theorems.                                                           *)

\* The inductive invariant, for any queue, number of retries, faults and
\* commands: of every start it is known whether the Agent waits for it, has
\* given it up or got its answer, and the Helper holds what it has spawned.
THEOREM SupervisorInvHolds == Spec => []SupervisorInv
<1>1. Init => SupervisorInv
      BY SupervisorInit
<1>2. SupervisorInv /\ [Next]_vars => SupervisorInv'
      BY SupervisorStep
<1>3. QED  BY <1>1, <1>2, PTL DEF Spec

\* No Core is forgotten: while a Core runs, or the request that would spawn it
\* may still be handled, supervise_core holds its owner or its handle.
THEOREM NoCoreIsForgotten == Spec => []SupervisorInvariant
<1>1. SupervisorInv => SupervisorInvariant
      BY ShapeTypes DEF SupervisorInv, Ownership, SupervisorInvariant
<1>2. QED  BY <1>1, SupervisorInvHolds, PTL

\* Stopped means gone: with the status "stopped" no Core runs and no request
\* that was given up can bring one back.
THEOREM StoppedMeansGone == Spec => []StoppedIsGone
<1>1. SupervisorInv => StoppedIsGone
  <2> SUFFICES ASSUME SupervisorInv, status = "stopped", agent # "gone",
                      NEW a \in Attempts, MayRun(a)
               PROVE  FALSE
      BY DEF StoppedIsGone
  <2>1. a \in {session.owner, session.child}
        BY DEF SupervisorInv, Ownership, NoCoreForgotten
  <2>2. session.owner = 0 /\ session.child = 0
        BY DEF SupervisorInv, RoundsStartClean
  <2>3. a \in 1 .. session.attempt /\ session.attempt \in Nat
        BY ShapeTypes DEF SupervisorInv
  <2>4. QED  BY <2>1, <2>2, <2>3
<1>2. QED  BY <1>1, SupervisorInvHolds, PTL

\* The service reports Stopped only after every Core that it spawned has ended.
THEOREM ServiceStopHolds == Spec => []ServiceStopIsFinal
<1>1. SupervisorInv => ServiceStopIsFinal
      BY DEF SupervisorInv, Ownership, HandleIsHeld, ServiceStopIsFinal
<1>2. QED  BY <1>1, SupervisorInvHolds, PTL

-----------------------------------------------------------------------------
(***************************************************************************)
(* The strict orchestration.  Whatever a task does, the controller never   *)
(* stays between two states with nobody at work; and what the Broker has   *)
(* armed, or may still arm by a commit under way, is in the intent file.   *)
(***************************************************************************)
Points == {"idle", "broker", "waiting", "answered", "core", "publish", "failed",
           "rollback", "lost", "recover"}
Ends == {"done", "rollback", "status", "health", "restore"}
Asked == {"broker", "waiting", "answered"}

\* A command that names a policy names a real one.
CommandSound(c) ==
  c \in Commands /\ (c.op \in {"Prepare", "Commit", "Block"} => c.policy \in Policies)

Work ==
  [at : Points, what : Commands \cup Answers \cup Requests \cup [state : States] \cup {None},
   then : Ends, prev : Policies \cup {None}, stale : BOOLEAN]

JobSound(j) ==
  /\ j \in Work
  /\ j.at \in {"broker", "waiting"} =>
       CommandSound(j.what) /\ (j.what.op = "Status" => j.then \in {"health", "status"})
  /\ j.at = "answered" => j.what \in Answers
  /\ j.at = "core" => j.what \in Requests
  /\ j.at = "publish" => j.what \in [state : States]
  /\ j.at = "rollback" => j.then = "rollback"
  /\ j.at = "idle" => j = NoJob
JobsSound(jobs) == jobs \in [Tasks -> Work] /\ \A t \in Tasks : JobSound(jobs[t])

\* On its way out: the policy is being disabled, or is gone.
Winding(o) == o.phase \in {"AwaitDisable", "AwaitDisableRevoke"} \/ o.desired = None

OrchSound(o) ==
  /\ o \in [phase : Phases, desired : Policies \cup {None}, state : States,
            disabling : BOOLEAN, generation : Nat, pending : Requests \cup {None},
            active : Nat]
  /\ o.desired = None <=> o.state = "Disabled"
  /\ o.desired = None => o.phase \in {"Idle", "AwaitBlocking"}
  /\ o.phase = "Idle" => o.desired = None
  /\ o.state = "Preparing" => o.phase = "AwaitPrepare"
  /\ o.state = "Recovering" => o.phase = "AwaitCommit"
  /\ o.phase \in {"AwaitDisable", "AwaitDisableRevoke"} => o.state = "Blocking"

StoreSound(s) ==
  s \in [enabled : BOOLEAN, policy : Policies \cup {None}, open : BOOLEAN]
RuntimeSound(r) ==
  r \in [present : BOOLEAN, policy : Policies \cup {None}, held : [BOOLEAN -> Sessions],
         orchLock : Tasks \cup {None}, pendingId : Nat, attempts : 0 .. MaxAttempts,
         scheduled : BOOLEAN]
CoreSound(c) ==
  c \in [alive : BOOLEAN, link : BOOLEAN, wanted : BOOLEAN, ingress : Nat,
         inbox : Seq(Requests), outbox : Seq([generation : Nat, ok : BOOLEAN])]
Queues == Seq([cmd : Commands, client : Tasks \cup {None}])
BrokerSound(b) ==
  /\ b \in [record : Policies \cup {None}, mode : {"none", "blocking", "armed"}, ingress : Nat,
            watermark : Nat, session : {"none", "alive", "dead"}, queue : Queues]
  /\ b.record # None => b.watermark = Revision[b.record]
  /\ b.mode # "none" => b.record # None
BudgetSound(b) == b \in [faults : Nat, mutations : Nat, checks : Nat]

\* A request in the queue whose client still waits is that client's, and only one is.
QueueKnows(q, jobs) ==
  \A i \in 1 .. Len(q) :
    /\ CommandSound(q[i].cmd)
    /\ q[i].client # None =>
         /\ jobs[q[i].client].at = "waiting" /\ jobs[q[i].client].what = q[i].cmd
         /\ \A k \in 1 .. Len(q) : q[k].client = q[i].client => k = i

\* The end of the runtime is what the task does next.
Ending(j) == j.at = "publish" /\ j.what.state = "Disabled" /\ ~j.stale

\* What one task is about, as it concerns the others.
JobKnows(t, j, o, r) ==
  /\ j.at # "idle" /\ ~j.stale /\ (j.at = "failed" => j.then = "rollback") => r.present
  /\ j.then = "health" =>
       /\ t = "recovery" /\ j.at \in Asked /\ ~j.stale
       /\ r.orchLock = "recovery" /\ o.state = "Armed"
  /\ j.then \in {"rollback", "status"} =>
       t = "mutation" /\ ~j.stale /\ ~Winding(o) /\ j.prev \in Policies
  /\ j.then = "status" => j.at \in Asked /\ r.orchLock = "mutation"
  /\ Ending(j) => t = "core" /\ o.state = "Disabled"
  /\ j.at \in {"broker", "waiting"} /\ ~j.stale /\ j.what.op \in {"Disable", "Confirm"} =>
       Winding(o)
  /\ j.at = "answered" /\ ~j.stale /\ j.then \notin {"health", "status"}
       /\ j.what = Proof(None, "none") => Winding(o)

\* A task whose next transition ends what the controller is in the middle of.
Asks(j) == j.at \in Asked /\ ~j.stale /\ j.then \notin {"health", "status"}

Attended(o, r, jobs) ==
  /\ r.present /\ o.state = "Disabled" => Ending(jobs["core"])
  /\ o.state \in {"Preparing", "Recovering"} => \E t \in Tasks : Asks(jobs[t])

Stored(s, r, o) ==
  /\ r.present => /\ r.policy \in Policies /\ s.policy = r.policy
                  /\ o.desired \in {None, r.policy}
  /\ ~r.present => o = Fresh

\* A commit for p that will still be executed.
Commits(j, p) == j.at = "broker" /\ j.what.op = "Commit" /\ j.what.policy = p
CommitAhead(p, q, jobs) ==
  \/ \E t \in Tasks : Commits(jobs[t], p)
  \/ \E i \in 1 .. Len(q) : q[i].cmd.op = "Commit" /\ q[i].cmd.policy = p

\* What is on record is armed, or a commit under way may arm it.
Armable(b, jobs) ==
  b.record # None /\ (b.mode = "armed" \/ CommitAhead(b.record, b.queue, jobs))

\* What the Broker has said of a policy, and what it is asked to arm, it had on record.
RecordedOnce(b, o, jobs) ==
  /\ \A p \in Policies : CommitAhead(p, b.queue, jobs) => Revision[p] <= b.watermark
  /\ \A t \in Tasks : jobs[t].at = "answered" /\ jobs[t].what.policy # None =>
                        Revision[jobs[t].what.policy] <= b.watermark
  /\ o.phase = "AwaitIngress" => o.desired # None /\ Revision[o.desired] <= b.watermark

\* The Broker has no policy left, and was asked to.
Freed(j) == Asks(j) /\ j.at = "answered" /\ j.what = Proof(None, "none")
Disabled(o, jobs) ==
  \/ o.phase = "AwaitDisableRevoke" \/ o.desired = None
  \/ o.phase = "AwaitDisable" /\ \E t \in Tasks : Freed(jobs[t])

OldIsBack(j) == j.then = "status" /\ j.at = "answered" /\ j.what.policy = j.prev

Covered(b, jobs, p) == Armable(b, jobs) => p # None /\ Revision[b.record] <= Revision[p]

Watched(b, o, s, jobs) ==
  /\ Covered(b, jobs, s.policy)
  /\ OldIsBack(jobs["mutation"]) => Covered(b, jobs, jobs["mutation"].prev)
  /\ Disabled(o, jobs) => ~Armable(b, jobs)

Knows(watch, s, r, o, jobs, b) ==
  /\ StoreSound(s) /\ RuntimeSound(r) /\ OrchSound(o) /\ JobsSound(jobs) /\ BrokerSound(b)
  /\ QueueKnows(b.queue, jobs)
  /\ \A t \in Tasks : JobKnows(t, jobs[t], o, r)
  /\ Attended(o, r, jobs)
  /\ Stored(s, r, o)
  /\ RecordedOnce(b, o, jobs)
  /\ watch => Watched(b, o, s, jobs)

StrictKnown(watch) ==
  /\ Knows(watch, store, runtime, orch, job, broker)
  /\ CoreSound(strictCore) /\ BudgetSound(strictBudget) /\ published \in States

\* The Core has no ingress of this Agent, and no word of it is on its way.
Silent(c) == c.ingress = 0 /\ c.inbox = <<>> /\ c.outbox = <<>>
Calm(o) ==
  /\ o.phase \in {"Idle", "AwaitPrepare"} /\ o.generation = 0
  /\ o.state \in {"Disabled", "Preparing", "Blocking"}

\* A task that has asked the Broker for a preparation at most, and got nothing for it.
Asking(j) ==
  /\ ~j.stale /\ j.then \in {"done", "restore"}
  /\ j.at \notin {"core", "publish", "rollback"}
  /\ j.at \in {"broker", "waiting"} => j.what.op = "Prepare"
  /\ j.at = "answered" => j.what = Error

\* Behind a request of this Agent no commit of an earlier one is left.
Fenced(q) ==
  \A i, k \in 1 .. Len(q) : i <= k /\ q[i].client # None => q[k].cmd.op # "Commit"

\* An Agent that restarted and of which the Broker has executed no request yet: it may
\* have found nothing to restore, or have restored the intent to protect.
Newcomer(o, jobs, b, c) ==
  Calm(o) /\ Silent(c) /\ Fenced(b.queue) /\ \A t \in Tasks : Asking(jobs[t])

\* The intent a newcomer finds covers what is armed, or it is to be prepared anew.
NewcomerInv ==
  /\ Newcomer(orch, job, broker, strictCore)
  /\ store.enabled \/ Covered(broker, job, store.policy)

StrictInv ==
  StrictKnown(FALSE) /\ (Watched(broker, orch, store, job) \/ NewcomerInv)

LEMMA KnownWatched ==
  StrictKnown(TRUE) <=> StrictKnown(FALSE) /\ Watched(broker, orch, store, job)
BY DEF StrictKnown, Knows

-----------------------------------------------------------------------------
(* What every transition of the orchestrator keeps, whatever it is given.  *)

DoSound(do, o, watermark) ==
  /\ do \in [to : {"broker", "core", "publish", "failed"},
             what : Commands \cup Requests \cup [state : States] \cup {None}]
  /\ do.to = "broker" =>
       /\ CommandSound(do.what) /\ do.what.op \in {"Prepare", "Commit", "Block", "Disable"}
       /\ do.what.op = "Disable" => Winding(o)
       /\ do.what.op = "Commit" =>
            /\ do.what.policy = o.desired /\ ~Winding(o)
            /\ Revision[o.desired] <= watermark
  /\ do.to = "core" => do.what \in Requests
  /\ do.to = "publish" => do.what \in [state : States] /\ do.what.state = o.state

IngressKnown(o, watermark) ==
  o.phase = "AwaitIngress" => o.desired # None /\ Revision[o.desired] <= watermark

\* From o to n without a new policy, and do is next.
Goes(o, n, do, watermark) ==
  /\ OrchSound(n) /\ DoSound(do, n, watermark) /\ IngressKnown(n, watermark)
  /\ Winding(n) <=> Winding(o)
  /\ n.phase = "AwaitDisable" => o.phase = "AwaitDisable"

LEMMA LostGoes ==
  ASSUME NEW o, OrchSound(o), NEW watermark
  PROVE  /\ Goes(o, BrokerLost(o), Failed, watermark)
         /\ BrokerLost(o).desired = o.desired
         /\ BrokerLost(o).state = IF o.desired = None THEN o.state ELSE "Blocking"
         /\ BrokerLost(o).phase = "AwaitDisableRevoke" => o.phase = "AwaitDisableRevoke"
<1> DEFINE n == BrokerLost(o)
<1>1. /\ n.desired = o.desired /\ n.state = (IF o.desired = None THEN o.state ELSE "Blocking")
      /\ n.phase = (IF o.phase \in {"AwaitPrepare", "AwaitDisable", "AwaitDisableRevoke"}
                      THEN o.phase ELSE "AwaitBlocking")
      /\ n \in [phase : Phases, desired : Policies \cup {None}, state : States,
                disabling : BOOLEAN, generation : Nat, pending : Requests \cup {None},
                active : Nat]
      BY DEF BrokerLost, BackendLost, OrchSound, Phases, States
<1>2. OrchSound(n)
      BY <1>1 DEF OrchSound
<1>3. DoSound(Failed, n, watermark)
      BY DEF DoSound, Failed
<1>4. QED  BY <1>1, <1>2, <1>3 DEF Goes, Winding, IngressKnown

LEMMA ForceGoes ==
  ASSUME NEW o, OrchSound(o), NEW p \in Policies, CanForceBlocking(o), NEW watermark
  PROVE  LET r == ForceBlocking(o, p)
         IN  /\ Goes(o, r.orch, r.do, watermark)
             /\ r.orch.desired = o.desired /\ r.orch.phase = "AwaitBlocking"
             /\ r.orch.state = IF o.desired = None THEN o.state ELSE "Blocking"
             /\ r.do.to = "broker" /\ r.do.what.op = "Block"
<1> DEFINE n == ForceBlocking(o, p).orch
           do == ForceBlocking(o, p).do
<1>1. /\ n.desired = o.desired /\ n.state = (IF o.desired = None THEN o.state ELSE "Blocking")
      /\ n.phase = "AwaitBlocking"
      /\ n \in [phase : Phases, desired : Policies \cup {None}, state : States,
                disabling : BOOLEAN, generation : Nat, pending : Requests \cup {None},
                active : Nat]
      BY DEF ForceBlocking, Result, BackendLost, OrchSound, Phases, States
<1>2. do = [to |-> "broker", what |-> [op |-> "Block", policy |-> p, ingress |-> 0]]
      BY DEF ForceBlocking, Result, ToBroker, Command
<1>3. OrchSound(n)
      BY <1>1 DEF OrchSound
<1>4. DoSound(do, n, watermark)
      BY <1>2 DEF DoSound, CommandSound, Commands, Ops
<1>5. Winding(n) <=> Winding(o)
      BY <1>1 DEF Winding, CanForceBlocking, OrchSound
<1>6. QED  BY <1>1, <1>2, <1>3, <1>4, <1>5 DEF Goes, IngressKnown

LEMMA RevokeGoes ==
  ASSUME NEW o, OrchSound(o), o.desired # None, NEW watermark,
         NEW phase \in {"AwaitBlockingRevoke", "AwaitDisableRevoke"},
         phase = "AwaitDisableRevoke" <=> o.phase \in {"AwaitDisable", "AwaitDisableRevoke"},
         o.state \notin {"Preparing", "Recovering"}
  PROVE  LET r == RevokeThen(o, phase)
         IN  /\ Goes(o, r.orch, r.do, watermark)
             /\ r.orch.desired = o.desired /\ r.orch.state = o.state /\ r.orch.phase = phase
             /\ r.do.to = "core"
<1> DEFINE n == RevokeThen(o, phase).orch
           do == RevokeThen(o, phase).do
<1>1. /\ n.desired = o.desired /\ n.state = o.state /\ n.phase = phase
      /\ n \in [phase : Phases, desired : Policies \cup {None}, state : States,
                disabling : BOOLEAN, generation : Nat, pending : Requests \cup {None},
                active : Nat]
      /\ do = [to |-> "core", what |-> n.pending] /\ n.pending \in Requests
  <2>1. PICK g \in Nat : o.generation = g
        BY DEF OrchSound
  <2>2. g + 1 \in Nat /\ IngressRequest(g + 1, TRUE) \in Requests
        BY DEF IngressRequest, Requests
  <2>3. n = [[o EXCEPT !.generation = g + 1, !.pending = IngressRequest(g + 1, TRUE)]
               EXCEPT !.phase = phase]
        BY <2>1 DEF RevokeThen, ForceRevoke, Result
  <2>4. do = [to |-> "core", what |-> n.pending]
        BY DEF RevokeThen, Result, ToCore
  <2>5. phase \in Phases
        BY DEF Phases
  <2>6. QED  BY <2>2, <2>3, <2>4, <2>5 DEF OrchSound
<1>2. OrchSound(n)
      BY <1>1 DEF OrchSound
<1>3. DoSound(do, n, watermark)
      BY <1>1 DEF DoSound
<1>4. Winding(n) <=> Winding(o)
      BY <1>1 DEF Winding
<1>5. QED  BY <1>1, <1>2, <1>3, <1>4 DEF Goes, IngressKnown

\* The answer of the Broker: what the controller makes of it, and what it asks for next.
Driven(o, answer) ==
  LET r == AcceptBrokerProof(o, answer)
  IN  IF answer = Error THEN Result(BrokerLost(o), Failed)
      ELSE IF r.do = Failed THEN Result(BrokerLost(r.orch), Failed) ELSE r

AnswersTo(o, r, answer, watermark) ==
  /\ Goes(o, r.orch, r.do, watermark) /\ r.orch.desired = o.desired
  /\ r.do # Failed => o.desired # None
  /\ r.do # Failed /\ r.orch.state \in {"Preparing", "Recovering"} => r.do.to = "broker"
  /\ r.do.to = "broker" => r.do.what.op = "Commit"
  /\ r.orch.phase = "AwaitDisableRevoke" =>
       \/ o.phase = "AwaitDisableRevoke"
       \/ o.phase = "AwaitDisable" /\ answer = Proof(None, "none")

Fields == [phase : Phases, desired : Policies \cup {None}, state : States,
           disabling : BOOLEAN, generation : Nat, pending : Requests \cup {None},
           active : Nat]

LEMMA RefusedAnswers ==
  ASSUME NEW o, OrchSound(o), NEW answer, NEW watermark, IngressKnown(o, watermark)
  PROVE  AnswersTo(o, Result(o, Failed), answer, watermark)
BY DEF AnswersTo, Result, Goes, DoSound, Failed

LEMMA AppliedFields ==
  ASSUME NEW o, OrchSound(o), NEW answer, o.desired # None,
         NEW n, n = Applied(o, answer)
  PROVE  /\ n \in Fields /\ n.desired = o.desired /\ n.phase = o.phase
         /\ n.active = o.active /\ n.pending = o.pending /\ n.generation = o.generation
         /\ n.state \in {"Armed", "Blocking"}
BY DEF Applied, OrchSound, Fields, States

\* A result in a phase that is neither of a disable nor of an ingress request.
LEMMA SettledAnswers ==
  ASSUME NEW o, OrchSound(o), ~Winding(o), NEW answer, NEW watermark,
         NEW n \in Fields, n.desired = o.desired,
         n.phase \in {"AwaitCommit", "Active", "AwaitBlocking"},
         n.state \in {"Armed", "Blocking"} \/ (n.state = "Recovering" /\ n.phase = "AwaitCommit"),
         NEW do, DoSound(do, n, watermark),
         do # Failed /\ n.state = "Recovering" => do.to = "broker",
         do.to = "broker" => do.what.op = "Commit"
  PROVE  AnswersTo(o, Result(n, do), answer, watermark)
<1>1. OrchSound(n)
      BY DEF OrchSound, Fields, Winding
<1>2. Winding(n) <=> Winding(o)
      BY DEF Winding
<1>3. QED  BY <1>1, <1>2 DEF AnswersTo, Result, Goes, IngressKnown, Winding

LEMMA CommitSound ==
  ASSUME NEW o, o.desired \in Policies, o.active \in Nat, ~Winding(o), NEW watermark,
         Revision[o.desired] <= watermark
  PROVE  DoSound(Commit(o), o, watermark)
BY DEF DoSound, Commit, ToBroker, Command, CommandSound, Commands, Ops

LEMMA FailedSound ==
  \A o, watermark : DoSound(Failed, o, watermark)
BY DEF DoSound, Failed

LEMMA SettledSound ==
  ASSUME NEW o, o.state \in States, NEW n, n.state = o.state, NEW watermark
  PROVE  DoSound(Settled(o), n, watermark)
BY DEF DoSound, Settled

LEMMA PrepareAnswers ==
  ASSUME NEW o, OrchSound(o), o.phase = "AwaitPrepare", NEW answer \in Answers,
         NEW watermark, answer.policy # None => Revision[answer.policy] <= watermark
  PROVE  AnswersTo(o, AcceptPrepareProof(o, answer), answer, watermark)
<1> DEFINE applied == Applied(o, answer)
           ingress == BeginIngress(applied)
           r == AcceptPrepareProof(o, answer)
<1>1. o.desired # None /\ ~Winding(o) /\ IngressKnown(o, watermark)
      BY NoneAssumption DEF OrchSound, Winding, IngressKnown
<1>2. /\ applied \in Fields /\ applied.desired = o.desired
      /\ applied.active = o.active /\ applied.pending = o.pending
      /\ applied.generation = o.generation /\ applied.state \in {"Armed", "Blocking"}
      BY <1>1, AppliedFields
<1>3. CASE ~ProofApplies(o, answer)
      BY <1>1, <1>3, RefusedAnswers DEF AcceptPrepareProof
<1>4. CASE ProofApplies(o, answer) /\ ~GuardsProved(answer)
  <2> DEFINE n == [applied EXCEPT !.phase = "AwaitBlocking"]
  <2>1. n \in Fields /\ n.desired = o.desired /\ n.phase = "AwaitBlocking"
        /\ n.state \in {"Armed", "Blocking"}
        BY <1>2 DEF Fields, Phases
  <2>2. r = Result(n, Failed)
        BY <1>4 DEF AcceptPrepareProof, Rejected
  <2>3. DoSound(Failed, n, watermark)
        BY FailedSound
  <2> HIDE DEF n, r
  <2>4. AnswersTo(o, Result(n, Failed), answer, watermark)
        BY <1>1, <2>1, <2>3, SettledAnswers DEF Failed
  <2>5. QED  BY <2>2, <2>4 DEF r
<1>5. CASE ProofApplies(o, answer) /\ GuardsProved(answer) /\ o.desired \notin Proxied
  <2> DEFINE n == [applied EXCEPT !.phase = "Active"]
  <2>1. n \in Fields /\ n.desired = o.desired /\ n.phase = "Active"
        /\ n.state \in {"Armed", "Blocking"} /\ n.state = applied.state
        BY <1>2 DEF Fields, Phases
  <2>2. r = Result(n, Settled(applied))
        BY <1>5 DEF AcceptPrepareProof
  <2>3. DoSound(Settled(applied), n, watermark)
        BY <1>2, <2>1, SettledSound DEF Fields
  <2>4. Settled(applied).to = "publish"
        BY DEF Settled
  <2> HIDE DEF n, r, applied
  <2>5. AnswersTo(o, Result(n, Settled(applied)), answer, watermark)
        BY <1>1, <2>1, <2>3, <2>4, SettledAnswers
  <2>6. QED  BY <2>2, <2>5 DEF r
<1>6. CASE ProofApplies(o, answer) /\ GuardsProved(answer) /\ o.desired \in Proxied
  <2>1. o.desired = answer.policy /\ Revision[o.desired] <= watermark /\ o.desired \in Policies
        BY <1>1, <1>6 DEF ProofApplies, OrchSound
  <2>2. CASE applied.state # "Blocking" \/ o.pending # None
    <3> DEFINE n == [BackendLost(applied) EXCEPT !.phase = "AwaitBlocking"]
    <3>1. n \in Fields /\ n.desired = o.desired /\ n.phase = "AwaitBlocking"
          /\ n.state = "Blocking"
          BY <1>1, <1>2 DEF Fields, Phases, BackendLost, States
    <3>2. r = Result(n, Failed)
          BY <1>6, <2>2 DEF AcceptPrepareProof, Rejected
    <3>3. DoSound(Failed, n, watermark)
          BY FailedSound
    <3> HIDE DEF n, r
    <3>4. AnswersTo(o, Result(n, Failed), answer, watermark)
          BY <1>1, <3>1, <3>3, SettledAnswers DEF Failed
    <3>5. QED  BY <3>2, <3>4 DEF r
  <2>3. CASE ~(applied.state # "Blocking" \/ o.pending # None) /\ o.active # 0
    <3> DEFINE n == [applied EXCEPT !.phase = "AwaitCommit"]
    <3>1. n \in Fields /\ n.desired = o.desired /\ n.phase = "AwaitCommit"
          /\ n.state \in {"Armed", "Blocking"} /\ n.active = applied.active
          BY <1>2 DEF Fields, Phases
    <3>2. r = Result(n, Commit(n))
          BY <1>2, <1>6, <2>3, <3>1 DEF AcceptPrepareProof, Commit
    <3>3. ~Winding(n) /\ n.active \in Nat
          BY <1>1, <3>1 DEF Winding, Fields
    <3> HIDE DEF n, r
    <3>4. DoSound(Commit(n), n, watermark)
          BY <2>1, <3>1, <3>3, CommitSound
    <3>5. Commit(n).to = "broker" /\ Commit(n).what.op = "Commit"
          BY DEF Commit, ToBroker, Command
    <3>6. AnswersTo(o, Result(n, Commit(n)), answer, watermark)
          BY <1>1, <3>1, <3>4, <3>5, SettledAnswers
    <3>7. QED  BY <3>2, <3>6 DEF r
  <2>4. CASE ~(applied.state # "Blocking" \/ o.pending # None) /\ o.active = 0
    <3> DEFINE n == [ingress EXCEPT !.phase = "AwaitIngress"]
    <3>1. PICK g \in Nat : applied.generation = g
          BY <1>2 DEF Fields
    <3>2. g + 1 \in Nat /\ IngressRequest(g + 1, FALSE) \in Requests
          BY DEF IngressRequest, Requests
    <3>3. ingress = [applied EXCEPT !.generation = g + 1,
                                    !.pending = IngressRequest(g + 1, FALSE)]
          BY <3>1 DEF BeginIngress
    <3>4. n \in Fields /\ n.desired = o.desired /\ n.phase = "AwaitIngress"
          /\ n.state = "Blocking" /\ n.pending = ingress.pending /\ n.pending \in Requests
          BY <1>2, <2>4, <3>2, <3>3 DEF Fields, Phases
    <3>5. r = Result(n, ToCore(n.pending))
          BY <1>6, <2>4, <3>4 DEF AcceptPrepareProof
    <3> HIDE DEF n, r, ingress, applied
    <3>6. DoSound(ToCore(n.pending), n, watermark) /\ ToCore(n.pending).to = "core"
          BY <3>4 DEF DoSound, ToCore
    <3>7. OrchSound(n)
          BY <1>1, <3>4 DEF OrchSound, Fields
    <3>8. ~Winding(n) /\ IngressKnown(n, watermark)
          BY <1>1, <2>1, <3>4 DEF Winding, IngressKnown
    <3>9. AnswersTo(o, Result(n, ToCore(n.pending)), answer, watermark)
          BY <1>1, <3>4, <3>6, <3>7, <3>8 DEF AnswersTo, Result, Goes
    <3>10. QED  BY <3>5, <3>9 DEF r
  <2>5. QED  BY <2>2, <2>3, <2>4
<1>7. QED  BY <1>3, <1>4, <1>5, <1>6

\* A refused answer ends like a lost Broker.
LEMMA GivenUpAnswers ==
  ASSUME NEW o, OrchSound(o), ~Winding(o), NEW answer, NEW watermark,
         NEW n \in Fields, n.desired = o.desired, n.phase = "AwaitBlocking"
  PROVE  AnswersTo(o, Result(BrokerLost(n), Failed), answer, watermark)
<1> DEFINE m == BrokerLost(n)
<1>1. /\ m \in Fields /\ m.desired = o.desired /\ m.phase = "AwaitBlocking"
      /\ m.state = "Blocking"
      BY DEF BrokerLost, BackendLost, Fields, Phases, States, Winding
<1>2. DoSound(Failed, m, watermark)
      BY FailedSound
<1> HIDE DEF m
<1>3. AnswersTo(o, Result(m, Failed), answer, watermark)
      BY <1>1, <1>2, SettledAnswers DEF Failed
<1>4. QED  BY <1>3 DEF m

LEMMA LostAnswers ==
  ASSUME NEW o, OrchSound(o), NEW answer, NEW watermark, NEW r,
         AnswersTo(o, r, answer, watermark)
  PROVE  AnswersTo(o, Result(BrokerLost(r.orch), Failed), answer, watermark)
<1> DEFINE n == BrokerLost(r.orch)
<1>1. Goes(o, r.orch, r.do, watermark) /\ OrchSound(r.orch) /\ r.orch.desired = o.desired
      BY DEF AnswersTo, Goes
<1>2. /\ Goes(r.orch, n, Failed, watermark) /\ n.desired = r.orch.desired
      /\ n.phase = "AwaitDisableRevoke" => r.orch.phase = "AwaitDisableRevoke"
      BY <1>1, LostGoes
<1> HIDE DEF n
<1>3. Goes(o, n, Failed, watermark)
      BY <1>1, <1>2 DEF Goes
<1>4. AnswersTo(o, Result(n, Failed), answer, watermark)
      BY <1>1, <1>2, <1>3 DEF AnswersTo, Result, Failed
<1>5. QED  BY <1>4 DEF n

LEMMA CommitAnswers ==
  ASSUME NEW o, OrchSound(o), o.phase = "AwaitCommit", NEW answer \in Answers,
         NEW watermark
  PROVE  LET r == AcceptCommitProof(o, answer)
         IN  IF r.do = Failed
               THEN AnswersTo(o, Result(BrokerLost(r.orch), Failed), answer, watermark)
               ELSE AnswersTo(o, r, answer, watermark)
<1> DEFINE applied == Applied(o, answer)
           r == AcceptCommitProof(o, answer)
<1>1. o.desired # None /\ ~Winding(o)
      BY NoneAssumption DEF OrchSound, Winding
<1>2. /\ applied \in Fields /\ applied.desired = o.desired /\ applied.phase = o.phase
      /\ applied.state \in {"Armed", "Blocking"}
      BY <1>1, AppliedFields
<1>3. CASE ProofApplies(o, answer) /\ applied.state = "Armed"
  <2> DEFINE n == [applied EXCEPT !.phase = "Active"]
  <2>1. n \in Fields /\ n.desired = o.desired /\ n.phase = "Active" /\ n.state = "Armed"
        BY <1>2, <1>3 DEF Fields, Phases
  <2>2. r = Result(n, Settled(applied)) /\ r.do = Settled(applied)
        BY <1>3 DEF AcceptCommitProof, Result
  <2>3. DoSound(Settled(applied), n, watermark) /\ Settled(applied).to = "publish"
        BY <1>2, <1>3, <2>1, SettledSound DEF Fields, Settled
  <2>4. r.do # Failed
        BY <2>2, <2>3 DEF Failed
  <2> HIDE DEF n, r, applied
  <2>5. AnswersTo(o, Result(n, Settled(applied)), answer, watermark)
        BY <1>1, <2>1, <2>3, SettledAnswers
  <2>6. QED  BY <2>2, <2>4, <2>5 DEF r
<1>4. CASE ~(ProofApplies(o, answer) /\ applied.state = "Armed")
  <2> DEFINE n == [(IF ProofApplies(o, answer) THEN applied ELSE o)
                     EXCEPT !.phase = "AwaitBlocking"]
  <2>1. n \in Fields /\ n.desired = o.desired /\ n.phase = "AwaitBlocking"
        BY <1>2 DEF Fields, Phases, OrchSound
  <2>2. r = Result(n, Failed) /\ r.orch = n /\ r.do = Failed
        BY <1>4 DEF AcceptCommitProof, Rejected, Result
  <2> HIDE DEF n, r, applied
  <2>3. AnswersTo(o, Result(BrokerLost(n), Failed), answer, watermark)
        BY <1>1, <2>1, GivenUpAnswers
  <2>4. QED  BY <2>2, <2>3 DEF r
<1>5. QED  BY <1>3, <1>4

LEMMA HealthAnswers ==
  ASSUME NEW o, OrchSound(o), o.phase = "Active", NEW answer \in Answers,
         NEW watermark, answer.policy # None => Revision[answer.policy] <= watermark
  PROVE  AnswersTo(o, AcceptHealthProof(o, answer), answer, watermark)
<1> DEFINE applied == Applied(o, answer)
           r == AcceptHealthProof(o, answer)
<1>1. o.desired # None /\ ~Winding(o) /\ IngressKnown(o, watermark)
      BY NoneAssumption DEF OrchSound, Winding, IngressKnown
<1>2. /\ applied \in Fields /\ applied.desired = o.desired /\ applied.phase = o.phase
      /\ applied.active = o.active /\ applied.state \in {"Armed", "Blocking"}
      BY <1>1, AppliedFields
<1>3. CASE ~ProofApplies(o, answer)
      BY <1>1, <1>3, RefusedAnswers DEF AcceptHealthProof
<1>4. CASE ProofApplies(o, answer) /\ applied.state = "Armed"
  <2>1. r = Result(applied, Settled(applied))
        BY <1>4 DEF AcceptHealthProof
  <2>2. DoSound(Settled(applied), applied, watermark) /\ Settled(applied).to = "publish"
        BY <1>2, <1>4, SettledSound DEF Fields, Settled
  <2> HIDE DEF r, applied
  <2>3. AnswersTo(o, Result(applied, Settled(applied)), answer, watermark)
        BY <1>1, <1>2, <1>4, <2>2, SettledAnswers
  <2>4. QED  BY <2>1, <2>3 DEF r
<1>5. CASE ProofApplies(o, answer) /\ applied.state # "Armed"
  <2>1. o.desired = answer.policy /\ Revision[o.desired] <= watermark /\ o.desired \in Policies
        BY <1>1, <1>5 DEF ProofApplies, OrchSound
  <2>2. CASE ~GuardsProved(answer) \/ o.active = 0
    <3> DEFINE n == [applied EXCEPT !.phase = "AwaitBlocking"]
    <3>1. n \in Fields /\ n.desired = o.desired /\ n.phase = "AwaitBlocking"
          /\ n.state \in {"Armed", "Blocking"}
          BY <1>2 DEF Fields, Phases
    <3>2. r = Result(n, Failed)
          BY <1>5, <2>2 DEF AcceptHealthProof, Rejected
    <3>3. DoSound(Failed, n, watermark)
          BY FailedSound
    <3> HIDE DEF n, r
    <3>4. AnswersTo(o, Result(n, Failed), answer, watermark)
          BY <1>1, <3>1, <3>3, SettledAnswers DEF Failed
    <3>5. QED  BY <3>2, <3>4 DEF r
  <2>3. CASE ~(~GuardsProved(answer) \/ o.active = 0)
    <3> DEFINE n == [applied EXCEPT !.state = "Recovering", !.phase = "AwaitCommit"]
    <3>1. n \in Fields /\ n.desired = o.desired /\ n.phase = "AwaitCommit"
          /\ n.state = "Recovering" /\ n.active = applied.active
          BY <1>2 DEF Fields, Phases, States
    <3>2. r = Result(n, Commit(n))
          BY <1>2, <1>5, <2>3, <3>1 DEF AcceptHealthProof, Commit
    <3>3. ~Winding(n) /\ n.active \in Nat
          BY <1>1, <3>1 DEF Winding, Fields
    <3> HIDE DEF n, r
    <3>4. DoSound(Commit(n), n, watermark)
          BY <2>1, <3>1, <3>3, CommitSound
    <3>5. Commit(n).to = "broker" /\ Commit(n).what.op = "Commit"
          BY DEF Commit, ToBroker, Command
    <3>6. AnswersTo(o, Result(n, Commit(n)), answer, watermark)
          BY <1>1, <3>1, <3>4, <3>5, SettledAnswers
    <3>7. QED  BY <3>2, <3>6 DEF r
  <2>4. QED  BY <2>2, <2>3
<1>6. QED  BY <1>3, <1>4, <1>5

LEMMA BlockingAnswers ==
  ASSUME NEW o, OrchSound(o), o.phase = "AwaitBlocking", NEW answer \in Answers,
         NEW watermark
  PROVE  AnswersTo(o, AcceptBlockingProof(o, answer), answer, watermark)
<1> DEFINE applied == Applied(o, answer)
           r == AcceptBlockingProof(o, answer)
<1>1. IngressKnown(o, watermark)
      BY DEF IngressKnown
<1>2. CASE ~ProofApplies(o, answer)
      BY <1>1, <1>2, RefusedAnswers DEF AcceptBlockingProof
<1>3. CASE ProofApplies(o, answer)
  <2>1. o.desired # None /\ ~Winding(o)
        BY <1>3 DEF ProofApplies, Winding
  <2>2. /\ applied \in Fields /\ applied.desired = o.desired /\ applied.phase = o.phase
        /\ applied.state \in {"Armed", "Blocking"}
        BY <2>1, AppliedFields
  <2>3. CASE answer.mode # "blocking"
    <3> DEFINE n == [BackendLost(applied) EXCEPT !.phase = "AwaitBlocking"]
    <3>1. n \in Fields /\ n.desired = o.desired /\ n.phase = "AwaitBlocking"
          /\ n.state = "Blocking"
          BY <2>1, <2>2 DEF Fields, Phases, BackendLost, States
    <3>2. r = Result(n, Failed)
          BY <1>3, <2>3 DEF AcceptBlockingProof, Rejected
    <3>3. DoSound(Failed, n, watermark)
          BY FailedSound
    <3> HIDE DEF n, r
    <3>4. AnswersTo(o, Result(n, Failed), answer, watermark)
          BY <2>1, <3>1, <3>3, SettledAnswers DEF Failed
    <3>5. QED  BY <3>2, <3>4 DEF r
  <2>4. CASE answer.mode = "blocking"
    <3>1. OrchSound(applied)
          BY <2>1, <2>2 DEF OrchSound, Fields
    <3>2. r = RevokeThen(applied, "AwaitBlockingRevoke")
          BY <1>3, <2>4 DEF AcceptBlockingProof
    <3> HIDE DEF r, applied
    <3>3. /\ Goes(applied, r.orch, r.do, watermark)
          /\ r.orch.desired = applied.desired /\ r.orch.state = applied.state
          /\ r.orch.phase = "AwaitBlockingRevoke" /\ r.do.to = "core"
          BY <2>1, <2>2, <3>1, <3>2, RevokeGoes
    <3>4. Goes(o, r.orch, r.do, watermark)
          BY <2>2, <3>3 DEF Goes, Winding
    <3>5. AnswersTo(o, r, answer, watermark)
          BY <2>1, <2>2, <3>3, <3>4 DEF AnswersTo
    <3>6. QED  BY <3>5 DEF r
  <2>5. QED  BY <2>3, <2>4
<1>4. QED  BY <1>2, <1>3

LEMMA DisableAnswers ==
  ASSUME NEW o, OrchSound(o), o.phase = "AwaitDisable", NEW answer \in Answers,
         NEW watermark
  PROVE  AnswersTo(o, AcceptDisableProof(o, answer), answer, watermark)
<1> DEFINE r == AcceptDisableProof(o, answer)
<1>1. IngressKnown(o, watermark) /\ o.desired # None /\ o.state = "Blocking"
      BY DEF IngressKnown, OrchSound
<1>2. CASE answer # Proof(None, "none")
      BY <1>1, <1>2, RefusedAnswers DEF AcceptDisableProof
<1>3. CASE answer = Proof(None, "none")
  <2>1. r = RevokeThen(o, "AwaitDisableRevoke")
        BY <1>3 DEF AcceptDisableProof
  <2> HIDE DEF r
  <2>2. /\ Goes(o, r.orch, r.do, watermark)
        /\ r.orch.desired = o.desired /\ r.orch.state = o.state
        /\ r.orch.phase = "AwaitDisableRevoke" /\ r.do.to = "core"
        BY <1>1, <2>1, RevokeGoes
  <2>3. AnswersTo(o, r, answer, watermark)
        BY <1>1, <1>3, <2>2 DEF AnswersTo
  <2>4. QED  BY <2>3 DEF r
<1>4. QED  BY <1>2, <1>3

LEMMA OtherAnswers ==
  ASSUME NEW o, OrchSound(o), o.phase # "AwaitCommit", NEW answer \in Answers,
         NEW watermark, IngressKnown(o, watermark),
         answer.policy # None => Revision[answer.policy] <= watermark
  PROVE  AnswersTo(o, AcceptBrokerProof(o, answer), answer, watermark)
<1>1. CASE o.phase = "AwaitPrepare"
      BY <1>1, PrepareAnswers DEF AcceptBrokerProof
<1>2. CASE o.phase = "Active"
      BY <1>2, HealthAnswers DEF AcceptBrokerProof
<1>3. CASE o.phase = "AwaitBlocking"
      BY <1>3, BlockingAnswers DEF AcceptBrokerProof
<1>4. CASE o.phase = "AwaitDisable"
      BY <1>4, DisableAnswers DEF AcceptBrokerProof
<1>5. CASE o.phase \notin {"AwaitPrepare", "Active", "AwaitBlocking", "AwaitDisable"}
  <2>1. AcceptBrokerProof(o, answer) = Result(o, Failed)
        BY <1>5 DEF AcceptBrokerProof
  <2>2. QED  BY <2>1, RefusedAnswers
<1>6. QED  BY <1>1, <1>2, <1>3, <1>4, <1>5

LEMMA DrivenAnswers ==
  ASSUME NEW o, OrchSound(o), NEW answer \in Answers, NEW watermark,
         IngressKnown(o, watermark),
         answer.policy # None => Revision[answer.policy] <= watermark
  PROVE  AnswersTo(o, Driven(o, answer), answer, watermark)
<1> DEFINE r == AcceptBrokerProof(o, answer)
<1>1. CASE answer = Error
  <2>1. AnswersTo(o, Result(o, Failed), answer, watermark)
        BY RefusedAnswers
  <2>2. AnswersTo(o, Result(BrokerLost(o), Failed), answer, watermark)
        BY <2>1, LostAnswers DEF Result
  <2>3. QED  BY <1>1, <2>2 DEF Driven
<1>2. CASE answer # Error /\ o.phase = "AwaitCommit"
  <2>1. r = AcceptCommitProof(o, answer)
        BY <1>2 DEF AcceptBrokerProof
  <2>2. Driven(o, answer) = IF r.do = Failed THEN Result(BrokerLost(r.orch), Failed) ELSE r
        BY <1>2 DEF Driven
  <2> HIDE DEF r
  <2>3. IF r.do = Failed
          THEN AnswersTo(o, Result(BrokerLost(r.orch), Failed), answer, watermark)
          ELSE AnswersTo(o, r, answer, watermark)
        BY <1>2, <2>1, CommitAnswers
  <2>4. QED  BY <2>2, <2>3
<1>3. CASE answer # Error /\ o.phase # "AwaitCommit"
  <2>1. AnswersTo(o, r, answer, watermark)
        BY <1>3, OtherAnswers
  <2>2. Driven(o, answer) = IF r.do = Failed THEN Result(BrokerLost(r.orch), Failed) ELSE r
        BY <1>3 DEF Driven
  <2> HIDE DEF r
  <2>3. AnswersTo(o, Result(BrokerLost(r.orch), Failed), answer, watermark)
        BY <2>1, LostAnswers
  <2>4. QED  BY <2>1, <2>2, <2>3
<1>4. QED  BY <1>1, <1>2, <1>3

\* A lost Broker leaves the policy blocked.
LEMMA LostBlocks ==
  ASSUME NEW n \in Fields, n.desired # None
  PROVE  BrokerLost(n).state = "Blocking"
BY DEF Fields, BrokerLost, BackendLost

\* After an answer nothing is left half done, but for the command that goes out next.
LEMMA DrivenSettles ==
  ASSUME NEW o, OrchSound(o), NEW answer \in Answers, NEW watermark,
         IngressKnown(o, watermark),
         answer.policy # None => Revision[answer.policy] <= watermark,
         o.desired # None
  PROVE  Driven(o, answer).orch.state \in {"Preparing", "Recovering"} =>
           Driven(o, answer).do.to = "broker"
<1> DEFINE r == AcceptBrokerProof(o, answer)
           d == Driven(o, answer)
<1>1. AnswersTo(o, d, answer, watermark)
      BY DrivenAnswers
<1>2. o \in Fields
      BY DEF OrchSound, Fields
<1>3. CASE answer = Error
  <2>1. d = Result(BrokerLost(o), Failed)
        BY <1>3 DEF Driven
  <2> HIDE DEF d
  <2>2. d.orch.state = "Blocking"
        BY <1>2, <2>1, LostBlocks DEF Result
  <2>3. QED  BY <2>2 DEF d
<1>4. CASE answer # Error /\ r.do = Failed
  <2>1. d = Result(BrokerLost(r.orch), Failed)
        BY <1>4 DEF Driven
  <2>2. r.orch \in Fields /\ r.orch.desired = o.desired
    <3>1. CASE o.phase # "AwaitCommit"
          BY <3>1, OtherAnswers DEF AnswersTo, Goes, OrchSound, Fields
    <3>2. CASE o.phase = "AwaitCommit"
      <4> DEFINE applied == Applied(o, answer)
      <4>1. applied \in Fields /\ applied.desired = o.desired
            BY AppliedFields
      <4>2. r = AcceptCommitProof(o, answer)
            BY <3>2 DEF AcceptBrokerProof
      <4>3. \/ r.orch = [applied EXCEPT !.phase = "Active"]
            \/ r.orch = [applied EXCEPT !.phase = "AwaitBlocking"]
            \/ r.orch = [o EXCEPT !.phase = "AwaitBlocking"]
            BY <4>2 DEF AcceptCommitProof, Result, Rejected
      <4> HIDE DEF applied, r
      <4>4. QED  BY <1>2, <4>1, <4>3 DEF Fields, Phases
    <3>3. QED  BY <3>1, <3>2
  <2> HIDE DEF d, r
  <2>3. d.orch.state = "Blocking"
        BY <2>1, <2>2, LostBlocks DEF Result
  <2>4. QED  BY <2>3 DEF d
<1>5. CASE answer # Error /\ r.do # Failed
  <2>1. d = r
        BY <1>5 DEF Driven
  <2> HIDE DEF r, d
  <2>2. QED  BY <1>1, <1>5, <2>1 DEF AnswersTo, d
<1>6. QED  BY <1>3, <1>4, <1>5

\* From o to n by an answer of the Core or by a retry; do is next.
Turned(o, n, do, watermark) ==
  /\ Goes(o, n, do, watermark)
  /\ \/ n.desired = o.desired
     \/ n.desired = None /\ o.phase = "AwaitDisableRevoke" /\ do.to = "publish"
  /\ n.phase = "AwaitDisableRevoke" => o.phase = "AwaitDisableRevoke"
  /\ n.state \in {"Preparing", "Recovering"} => do.to = "broker" \/ n.state = o.state
  /\ do.to = "publish" => o.desired # None
  /\ do.to = "broker" /\ do.what.op = "Commit" => n.desired = o.desired

LEMMA StayTurned ==
  ASSUME NEW o, OrchSound(o), NEW watermark, IngressKnown(o, watermark)
  PROVE  Turned(o, o, Failed, watermark)
BY DEF Turned, Goes, DoSound, Failed

LEMMA ForceTurned ==
  ASSUME NEW o, OrchSound(o), NEW p \in Policies, CanForceBlocking(o), NEW watermark
  PROVE  LET r == ForceBlocking(o, p) IN Turned(o, r.orch, r.do, watermark)
<1> DEFINE r == ForceBlocking(o, p)
<1>1. /\ Goes(o, r.orch, r.do, watermark)
      /\ r.orch.desired = o.desired /\ r.orch.phase = "AwaitBlocking"
      /\ r.orch.state = IF o.desired = None THEN o.state ELSE "Blocking"
      /\ r.do.to = "broker" /\ r.do.what.op = "Block"
      BY ForceGoes
<1> HIDE DEF r
<1>2. Turned(o, r.orch, r.do, watermark)
      BY <1>1 DEF Turned
<1>3. QED  BY <1>2 DEF r

LEMMA RevokeTurned ==
  ASSUME NEW o, OrchSound(o), NEW watermark,
         o.phase \in {"AwaitDisableRevoke", "AwaitBlockingRevoke"}
  PROVE  LET r == RevokeThen(o, o.phase) IN Turned(o, r.orch, r.do, watermark)
<1> DEFINE r == RevokeThen(o, o.phase)
<1>1. o.desired # None /\ o.state \notin {"Preparing", "Recovering"}
      BY DEF OrchSound
<1>2. PICK phase \in {"AwaitBlockingRevoke", "AwaitDisableRevoke"} : phase = o.phase
      OBVIOUS
<1>3. /\ Goes(o, r.orch, r.do, watermark)
      /\ r.orch.desired = o.desired /\ r.orch.state = o.state /\ r.orch.phase = o.phase
      /\ r.do.to = "core"
      BY <1>1, <1>2, RevokeGoes
<1> HIDE DEF r
<1>4. Turned(o, r.orch, r.do, watermark)
      BY <1>3 DEF Turned
<1>5. QED  BY <1>4 DEF r

LEMMA RecoverTurned ==
  ASSUME NEW o, OrchSound(o), NEW p \in Policies, o.desired \in {None, p},
         NEW watermark, IngressKnown(o, watermark)
  PROVE  LET r == Recover(o, p) IN Turned(o, r.orch, r.do, watermark)
<1> DEFINE r == Recover(o, p)
<1>1. CASE o.phase = "AwaitPrepare"
  <2>1. r = Result(o, Prepare(p))
        BY <1>1 DEF Recover
  <2>2. DoSound(Prepare(p), o, watermark) /\ Prepare(p).to = "broker"
        /\ Prepare(p).what.op = "Prepare"
        BY DEF DoSound, Prepare, ToBroker, Command, CommandSound, Commands, Ops
  <2> HIDE DEF r
  <2>3. Turned(o, r.orch, r.do, watermark)
        BY <2>1, <2>2 DEF Turned, Goes, Result
  <2>4. QED  BY <2>3 DEF r
<1>2. CASE o.phase = "AwaitDisable"
  <2> DEFINE do == ToBroker(Command("Disable", p, 0))
  <2>1. r = Result(o, do)
        BY <1>2 DEF Recover
  <2>2. DoSound(do, o, watermark) /\ do.to = "broker" /\ do.what.op = "Disable"
        BY <1>2 DEF DoSound, ToBroker, Command, CommandSound, Commands, Ops, Winding
  <2> HIDE DEF r, do
  <2>3. Turned(o, r.orch, r.do, watermark)
        BY <2>1, <2>2 DEF Turned, Goes, Result
  <2>4. QED  BY <2>3 DEF r
<1>3. CASE o.phase \in {"AwaitDisableRevoke", "AwaitBlockingRevoke"}
  <2>1. r = RevokeThen(o, o.phase)
        BY <1>3 DEF Recover
  <2>2. QED  BY <1>3, <2>1, RevokeTurned
<1>4. CASE o.phase = "Blocked"
  <2>1. r = Result(Begin(o, p), Prepare(p))
        BY <1>4 DEF Recover
  <2>2. o.desired = p /\ ~Winding(o)
        BY <1>4, NoneAssumption DEF OrchSound, Winding
  <2> DEFINE n == Begin(o, p)
  <2>3. n \in Fields /\ n.desired = p /\ n.phase = "AwaitPrepare" /\ n.state = "Preparing"
        BY DEF OrchSound, Fields, Begin, Phases, States
  <2>4. DoSound(Prepare(p), n, watermark) /\ Prepare(p).to = "broker"
        /\ Prepare(p).what.op = "Prepare"
        BY DEF DoSound, Prepare, ToBroker, Command, CommandSound, Commands, Ops
  <2> HIDE DEF r, n
  <2>5. OrchSound(n) /\ ~Winding(n) /\ IngressKnown(n, watermark)
        BY <2>3, NoneAssumption DEF OrchSound, Fields, Winding, IngressKnown
  <2>6. Turned(o, n, Prepare(p), watermark)
        BY <2>2, <2>3, <2>4, <2>5 DEF Turned, Goes
  <2>7. QED  BY <2>1, <2>6 DEF r, Result, n
<1>5. CASE o.phase \in {"AwaitBlocking", "AwaitIngress", "AwaitCommit"}
  <2>1. r = ForceBlocking(o, p)
        BY <1>5 DEF Recover
  <2>2. CanForceBlocking(o)
        BY <1>5 DEF CanForceBlocking
  <2>3. QED  BY <2>1, <2>2, ForceTurned
<1>6. CASE o.phase \in {"Idle", "Active"}
  <2>1. r = Result(o, Failed)
        BY <1>6 DEF Recover
  <2>2. QED  BY <2>1, StayTurned DEF Result
<1>7. o.phase \in Phases
      BY DEF OrchSound
<1>8. QED  BY <1>1, <1>2, <1>3, <1>4, <1>5, <1>6, <1>7 DEF Phases

LEMMA CompleteFields ==
  ASSUME NEW o, OrchSound(o), NEW answer \in [generation : Nat, ok : BOOLEAN],
         NEW done, done = CompleteIngress(o, answer)
  PROVE  /\ done \in Fields /\ done.desired = o.desired /\ done.phase = o.phase
         /\ done.state = o.state
<1>1. o \in Fields
      BY DEF OrchSound, Fields
<1>2. (IF ~ResponseMatches(o, answer) THEN o.active
        ELSE IF o.pending.empty THEN 0 ELSE answer.generation) \in Nat
      BY <1>1 DEF Fields
<1>3. QED  BY <1>1, <1>2 DEF CompleteIngress, Fields

\* The controller after an answer of the Core.
LEMMA CoreTurned ==
  ASSUME NEW o, OrchSound(o), NEW answer \in [generation : Nat, ok : BOOLEAN],
         NEW watermark, IngressKnown(o, watermark)
  PROVE  LET r == AcceptCoreResponse(o, answer) IN Turned(o, r.orch, r.do, watermark)
<1> DEFINE r == AcceptCoreResponse(o, answer)
           done == CompleteIngress(o, answer)
           ok == ResponseMatches(o, answer)
<1>1. /\ done \in Fields /\ done.desired = o.desired /\ done.phase = o.phase
      /\ done.state = o.state
      BY CompleteFields
<1>2. CASE o.phase = "AwaitIngress"
  <2>1. o.desired # None /\ ~Winding(o) /\ Revision[o.desired] <= watermark
        /\ o.state \notin {"Preparing", "Recovering"} /\ o.desired \in Policies
        BY <1>2, NoneAssumption DEF OrchSound, Winding, IngressKnown
  <2>2. CASE ok /\ done.active # 0
    <3> DEFINE n == [done EXCEPT !.phase = "AwaitCommit"]
    <3>1. n \in Fields /\ n.desired = o.desired /\ n.phase = "AwaitCommit"
          /\ n.state = o.state /\ n.active = done.active
          BY <1>1 DEF Fields, Phases
    <3>2. r = Result(n, Commit(n))
          BY <1>1, <1>2, <2>2, <3>1 DEF AcceptCoreResponse, Commit
    <3>3. ~Winding(n) /\ n.active \in Nat
          BY <2>1, <3>1 DEF Winding, Fields
    <3> HIDE DEF n, r
    <3>4. DoSound(Commit(n), n, watermark) /\ Commit(n).to = "broker"
          BY <2>1, <3>1, <3>3, CommitSound DEF Commit, ToBroker
    <3>5. OrchSound(n) /\ IngressKnown(n, watermark)
          BY <2>1, <3>1 DEF OrchSound, Fields, IngressKnown
    <3>6. Turned(o, n, Commit(n), watermark)
          BY <2>1, <3>1, <3>3, <3>4, <3>5 DEF Turned, Goes
    <3>7. QED  BY <3>2, <3>6 DEF r, Result
  <2>3. CASE ~(ok /\ done.active # 0)
    <3> DEFINE n == [done EXCEPT !.phase = "AwaitBlocking"]
    <3>1. n \in Fields /\ n.desired = o.desired /\ n.phase = "AwaitBlocking"
          /\ n.state = o.state
          BY <1>1 DEF Fields, Phases
    <3>2. r = Result(n, Failed)
          BY <1>2, <2>3 DEF AcceptCoreResponse, Rejected
    <3> HIDE DEF n, r
    <3>3. OrchSound(n) /\ IngressKnown(n, watermark) /\ ~Winding(n)
          BY <2>1, <3>1, NoneAssumption DEF OrchSound, Fields, IngressKnown, Winding
    <3>4. DoSound(Failed, n, watermark) /\ Failed.to = "failed"
          BY FailedSound DEF Failed
    <3>5. Turned(o, n, Failed, watermark)
          BY <2>1, <3>1, <3>3, <3>4 DEF Turned, Goes
    <3>6. QED  BY <3>2, <3>5 DEF r, Result
  <2>4. QED  BY <2>2, <2>3
<1>3. CASE o.phase = "AwaitBlockingRevoke"
  <2>1. o.desired # None /\ ~Winding(o) /\ o.state \notin {"Preparing", "Recovering"}
        BY <1>3 DEF OrchSound, Winding
  <2>2. CASE ok
    <3> DEFINE n == [done EXCEPT !.phase = "Blocked"]
    <3>1. n \in Fields /\ n.desired = o.desired /\ n.phase = "Blocked"
          /\ n.state = o.state
          BY <1>1 DEF Fields, Phases
    <3>2. r = Result(n, Settled(done))
          BY <1>3, <2>2 DEF AcceptCoreResponse
    <3>3. DoSound(Settled(done), n, watermark) /\ Settled(done).to = "publish"
          BY <1>1, <3>1, SettledSound DEF Fields, Settled
    <3> HIDE DEF n, r, done
    <3>4. OrchSound(n) /\ IngressKnown(n, watermark) /\ ~Winding(n)
          BY <2>1, <3>1, NoneAssumption DEF OrchSound, Fields, IngressKnown, Winding
    <3>5. Turned(o, n, Settled(done), watermark)
          BY <2>1, <3>1, <3>3, <3>4 DEF Turned, Goes
    <3>6. QED  BY <3>2, <3>5 DEF r, Result
  <2>3. CASE ~ok
    <3>1. r = Result(done, Failed)
          BY <1>3, <2>3 DEF AcceptCoreResponse
    <3> HIDE DEF r, done
    <3>2. OrchSound(done) /\ IngressKnown(done, watermark) /\ ~Winding(done)
          BY <1>1, <1>3, <2>1, NoneAssumption DEF OrchSound, Fields, IngressKnown, Winding
    <3>3. DoSound(Failed, done, watermark) /\ Failed.to = "failed"
          BY FailedSound DEF Failed
    <3>4. Turned(o, done, Failed, watermark)
          BY <1>1, <1>3, <2>1, <3>2, <3>3 DEF Turned, Goes
    <3>5. QED  BY <3>1, <3>4 DEF r, Result
  <2>4. QED  BY <2>2, <2>3
<1>4. CASE o.phase = "AwaitDisableRevoke"
  <2>1. o.desired # None /\ Winding(o) /\ o.state = "Blocking"
        BY <1>4 DEF OrchSound, Winding
  <2>2. CASE ok
    <3> DEFINE n == [done EXCEPT !.phase = "Idle", !.desired = None, !.disabling = FALSE,
                                 !.state = "Disabled"]
    <3>1. n \in Fields /\ n.desired = None /\ n.phase = "Idle" /\ n.state = "Disabled"
          BY <1>1 DEF Fields, Phases, States
    <3>2. r = Result(n, Settled(n))
          BY <1>4, <2>2 DEF AcceptCoreResponse
    <3>3. DoSound(Settled(n), n, watermark) /\ Settled(n).to = "publish"
          BY <3>1, SettledSound DEF Settled, Fields
    <3> HIDE DEF n, r, done
    <3>4. OrchSound(n) /\ IngressKnown(n, watermark) /\ Winding(n)
          BY <3>1 DEF OrchSound, Fields, IngressKnown, Winding
    <3>5. Turned(o, n, Settled(n), watermark)
          BY <1>4, <2>1, <3>1, <3>3, <3>4 DEF Turned, Goes
    <3>6. QED  BY <3>2, <3>5 DEF r, Result
  <2>3. CASE ~ok
    <3>1. r = Result(done, Failed)
          BY <1>4, <2>3 DEF AcceptCoreResponse
    <3> HIDE DEF r, done
    <3>2. OrchSound(done) /\ IngressKnown(done, watermark) /\ Winding(done)
          BY <1>1, <1>4, <2>1 DEF OrchSound, Fields, IngressKnown, Winding
    <3>3. DoSound(Failed, done, watermark) /\ Failed.to = "failed"
          BY FailedSound DEF Failed
    <3>4. Turned(o, done, Failed, watermark)
          BY <1>1, <1>4, <2>1, <3>2, <3>3 DEF Turned, Goes
    <3>5. QED  BY <3>1, <3>4 DEF r, Result
  <2>4. QED  BY <2>2, <2>3
<1>5. CASE o.phase \notin {"AwaitIngress", "AwaitBlockingRevoke", "AwaitDisableRevoke"}
  <2>1. r = Result(o, Failed)
        BY <1>5 DEF AcceptCoreResponse
  <2>2. QED  BY <2>1, StayTurned DEF Result
<1>6. QED  BY <1>2, <1>3, <1>4, <1>5

-----------------------------------------------------------------------------
(* One task moves, and the Broker does not.                                *)

\* Task t goes on with n, and leaves intent s2, runtime r2 and controller o2.
Steers(watch, t, s, r, o, jobs, b, n, s2, r2, o2) ==
  /\ StoreSound(s2) /\ RuntimeSound(r2) /\ OrchSound(o2) /\ JobSound(n)
  /\ Stored(s2, r2, o2) /\ IngressKnown(o2, b.watermark) /\ JobKnows(t, n, o2, r2)
  /\ n.at \notin {"waiting", "answered"} /\ jobs[t].at # "waiting"
  /\ Winding(o2) => Winding(o) \/ t = "mutation"
  /\ r.present => /\ r2.present
                  /\ (o2 = o /\ r2.orchLock = r.orchLock) \/ r.orchLock \in {None, t}
                  /\ Winding(o) => Winding(o2)
                  /\ o.state = "Disabled" => o2.state = "Disabled"
  /\ r2.present /\ o2.state = "Disabled" =>
       \/ t = "core" /\ Ending(n)
       \/ r.present /\ o.state = "Disabled" /\ ~Ending(jobs[t])
  /\ o2.state \in {"Preparing", "Recovering"} =>
       Asks(n) \/ (o2.state = o.state /\ ~Asks(jobs[t]))
  /\ \A p : Commits(n, p) =>
       /\ p = s2.policy /\ p \in Policies /\ Revision[p] <= b.watermark /\ ~Winding(o2)
       /\ r.orchLock \in {None, t}
  /\ watch => Covered(b, jobs, s2.policy)
  /\ o2.desired = None \/ o2.phase = "AwaitDisableRevoke" => Disabled(o, jobs)
  /\ o2.phase = "AwaitDisable" => o.phase = "AwaitDisable" \/ \A u \in Tasks : ~Freed(jobs[u])

\* What one of the others knows is still so.
LEMMA OthersKnow ==
  ASSUME NEW watch \in BOOLEAN, NEW t \in Tasks, NEW u \in Tasks, u # t, NEW j,
         JobSound(j), NEW s, NEW r, NEW o,
         NEW jobs, NEW b, NEW n, NEW s2, NEW r2, NEW o2, JobKnows(u, j, o, r),
         Steers(watch, t, s, r, o, jobs, b, n, s2, r2, o2)
  PROVE  JobKnows(u, j, o2, r2)
<1>1. /\ Winding(o2) => Winding(o) \/ t = "mutation"
      /\ r.present => /\ r2.present
                      /\ (o2 = o /\ r2.orchLock = r.orchLock) \/ r.orchLock \in {None, t}
                      /\ Winding(o) => Winding(o2)
                      /\ o.state = "Disabled" => o2.state = "Disabled"
      BY DEF Steers
<1>2. u # None
      BY NoneAssumption
<1>3. /\ j.at \in {"broker", "waiting", "publish", "answered"} /\ ~j.stale => r.present
      /\ j.then \in {"health", "status"} => r.present
      BY DEF JobKnows, Asked
<1>4. j.then \in {"rollback", "status"} => ~Winding(o2)
      BY <1>1 DEF JobKnows
<1>5. j.then = "health" => r2.orchLock = "recovery" /\ o2.state = "Armed"
      BY <1>1, <1>2, <1>3 DEF JobKnows
<1>6. j.then = "status" => r2.orchLock = "mutation"
      BY <1>1, <1>2, <1>3 DEF JobKnows
<1>7. QED  BY <1>1, <1>3, <1>4, <1>5, <1>6 DEF JobKnows, Ending

LEMMA SteerStep ==
  ASSUME NEW watch \in BOOLEAN, NEW t \in Tasks, NEW s, NEW r, NEW o, NEW jobs, NEW b,
         NEW n, NEW s2, NEW r2, NEW o2,
         Knows(watch, s, r, o, jobs, b), Steers(watch, t, s, r, o, jobs, b, n, s2, r2, o2),
         NEW jobs2, jobs2 = [jobs EXCEPT ![t] = n]
  PROVE  Knows(watch, s2, r2, o2, jobs2, b)
<1>1. /\ jobs \in [Tasks -> Work] /\ n \in Work
      /\ JobSound(n) /\ \A u \in Tasks : JobSound(jobs[u])
      BY DEF Knows, JobsSound, JobSound, Steers
<1>2. /\ jobs2 \in [Tasks -> Work] /\ jobs2[t] = n
      /\ \A u \in Tasks : u # t => jobs2[u] = jobs[u]
      BY <1>1
<1>3. JobsSound(jobs2)
      BY <1>1, <1>2 DEF JobsSound
<1>4. n.at \notin {"waiting", "answered"} /\ jobs[t].at # "waiting"
      BY DEF Steers
<1>5. QueueKnows(b.queue, jobs2)
  <2>1. QueueKnows(b.queue, jobs) /\ b.queue \in Queues
        BY DEF Knows, BrokerSound
  <2>2. ASSUME NEW i \in 1 .. Len(b.queue), b.queue[i].client # None
        PROVE  jobs2[b.queue[i].client] = jobs[b.queue[i].client]
    <3>1. b.queue[i].client \in Tasks
      <4>1. b.queue[i] \in [cmd : Commands, client : Tasks \cup {None}]
            BY <2>1, <2>2, ElementOfSeq DEF Queues
      <4>2. QED  BY <2>2, <4>1
    <3>2. jobs[b.queue[i].client].at = "waiting"
          BY <2>1, <2>2 DEF QueueKnows
    <3>3. QED  BY <3>1, <3>2, <1>2, <1>4
  <2>3. QED  BY <2>1, <2>2 DEF QueueKnows
<1>6. \A u \in Tasks : JobKnows(u, jobs2[u], o2, r2)
  <2>1. JobKnows(t, jobs2[t], o2, r2)
        BY <1>2 DEF Steers
  <2>2. ASSUME NEW u \in Tasks, u # t
        PROVE  JobKnows(u, jobs2[u], o2, r2)
    <3>1. JobSound(jobs[u]) /\ JobKnows(u, jobs[u], o, r)
          BY <1>1 DEF Knows
    <3>2. JobKnows(u, jobs[u], o2, r2)
          BY <2>2, <3>1, OthersKnow
    <3>3. QED  BY <2>2, <3>2, <1>2
  <2>3. QED  BY <2>1, <2>2
<1>7. Attended(o2, r2, jobs2)
  <2>1. Attended(o, r, jobs)
        BY DEF Knows
  <2>2. r2.present /\ o2.state = "Disabled" => Ending(jobs2["core"])
    <3>1. CASE t = "core" /\ Ending(n)
          BY <3>1, <1>2
    <3>2. CASE r.present /\ o.state = "Disabled" /\ ~Ending(jobs[t])
          BY <3>2, <2>1, <1>2 DEF Attended, Tasks
    <3>3. QED  BY <3>1, <3>2 DEF Steers
  <2>3. ASSUME o2.state \in {"Preparing", "Recovering"}
        PROVE  \E u \in Tasks : Asks(jobs2[u])
    <3>1. CASE Asks(n)
          BY <3>1, <1>2
    <3>2. CASE o2.state = o.state /\ ~Asks(jobs[t])
      <4>1. PICK u \in Tasks : Asks(jobs[u])
            BY <2>1, <2>3, <3>2 DEF Attended
      <4>2. u # t
            BY <3>2, <4>1
      <4>3. QED  BY <4>1, <4>2, <1>2
    <3>3. QED  BY <2>3, <3>1, <3>2 DEF Steers
  <2>4. QED  BY <2>2, <2>3 DEF Attended
<1>8. ASSUME NEW p
      PROVE  CommitAhead(p, b.queue, jobs2) => CommitAhead(p, b.queue, jobs) \/ Commits(n, p)
      BY <1>2 DEF CommitAhead
<1>9. RecordedOnce(b, o2, jobs2)
  <2>1. RecordedOnce(b, o, jobs)
        BY DEF Knows
  <2>2. ASSUME NEW p \in Policies, CommitAhead(p, b.queue, jobs2)
        PROVE  Revision[p] <= b.watermark
        BY <2>1, <2>2, <1>8 DEF RecordedOnce, Steers
  <2>3. ASSUME NEW u \in Tasks, jobs2[u].at = "answered", jobs2[u].what.policy # None
        PROVE  Revision[jobs2[u].what.policy] <= b.watermark
        BY <2>1, <2>3, <1>2, <1>4 DEF RecordedOnce
  <2>4. QED  BY <2>2, <2>3 DEF RecordedOnce, Steers, IngressKnown
<1>10. ASSUME watch
       PROVE  Watched(b, o2, s2, jobs2)
  <2>1. Watched(b, o, s, jobs)
        BY <1>10 DEF Knows
  <2>2. Armable(b, jobs2) => Armable(b, jobs) \/ Commits(n, b.record)
        BY <1>8 DEF Armable
  <2>3. Covered(b, jobs2, s2.policy)
    <3>1. SUFFICES ASSUME Armable(b, jobs2)
                   PROVE  s2.policy # None /\ Revision[b.record] <= Revision[s2.policy]
          BY DEF Covered
    <3>2. CASE Armable(b, jobs)
          BY <1>10, <3>2 DEF Steers, Covered
    <3>3. CASE Commits(n, b.record)
      <4>1. b.record = s2.policy /\ b.record \in Policies
            BY <3>3 DEF Steers
      <4>2. PICK k \in Nat : Revision[b.record] = k
            BY <4>1, RevisionAssumption
      <4>3. QED  BY <4>1, <4>2, NoneAssumption
    <3>4. QED  BY <2>2, <3>1, <3>2, <3>3
  <2>4. ASSUME OldIsBack(jobs2["mutation"])
        PROVE  Covered(b, jobs2, jobs2["mutation"].prev)
    <3>1. t # "mutation" /\ jobs2["mutation"] = jobs["mutation"] /\ OldIsBack(jobs["mutation"])
          BY <2>4, <1>2, <1>4 DEF OldIsBack, Tasks
    <3>2. r.orchLock = "mutation"
          BY <3>1 DEF OldIsBack, Knows, JobKnows, Tasks
    <3>3. ~Commits(n, b.record)
          BY <3>1, <3>2, NoneAssumption DEF Steers, Tasks
    <3>4. Covered(b, jobs, jobs["mutation"].prev)
          BY <2>1, <3>1 DEF Watched
    <3>5. QED  BY <2>2, <3>1, <3>3, <3>4 DEF Covered
  <2>5. ASSUME Disabled(o2, jobs2)
        PROVE  ~Armable(b, jobs2)
    <3>1. Disabled(o, jobs)
      <4>1. CASE o2.desired = None \/ o2.phase = "AwaitDisableRevoke"
            BY <4>1 DEF Steers
      <4>2. CASE o2.phase = "AwaitDisable" /\ \E u \in Tasks : Freed(jobs2[u])
        <5>1. PICK u \in Tasks : Freed(jobs2[u])
              BY <4>2
        <5>2. u # t
              BY <5>1, <1>2, <1>4 DEF Freed
        <5>3. Freed(jobs[u])
              BY <5>1, <5>2, <1>2
        <5>4. o.phase = "AwaitDisable"
              BY <4>2, <5>3 DEF Steers
        <5>5. QED  BY <5>3, <5>4 DEF Disabled
      <4>3. QED  BY <2>5, <4>1, <4>2 DEF Disabled
    <3>2. Winding(o2)
          BY <2>5 DEF Disabled, Winding
    <3>3. ~Commits(n, b.record)
          BY <3>2 DEF Steers
    <3>4. QED  BY <2>1, <2>2, <3>1, <3>3 DEF Watched
  <2>6. QED  BY <2>3, <2>4, <2>5 DEF Watched
<1>11. QED  BY <1>3, <1>5, <1>6, <1>7, <1>9, <1>10 DEF Knows, Steers

\* What the invariant knows of the runtime is its presence, its policy and its lock.
LEMMA RuntimeQuiet ==
  ASSUME NEW watch \in BOOLEAN, NEW s, NEW r, NEW o, NEW jobs, NEW b,
         Knows(watch, s, r, o, jobs, b),
         NEW r2, RuntimeSound(r2),
         r2.present = r.present, r2.policy = r.policy, r2.orchLock = r.orchLock
  PROVE  Knows(watch, s, r2, o, jobs, b)
<1>1. \A t \in Tasks : JobKnows(t, jobs[t], o, r2)
      BY DEF Knows, JobKnows
<1>2. Attended(o, r2, jobs) /\ Stored(s, r2, o)
      BY DEF Knows, Attended, Stored
<1>3. QED  BY <1>1, <1>2 DEF Knows

\* The task goes on, and the controller stays as it is.
LEMMA QuietJob ==
  ASSUME NEW watch \in BOOLEAN, NEW t \in Tasks, NEW s, NEW r, NEW o, NEW jobs, NEW b,
         Knows(watch, s, r, o, jobs, b),
         NEW r2, RuntimeSound(r2), r2.present = r.present, r2.policy = r.policy,
         r2.orchLock = r.orchLock \/ r.orchLock \in {None, t},
         NEW n, JobSound(n), JobKnows(t, n, o, r2), n.at \notin {"waiting", "answered"},
         \A p : ~Commits(n, p),
         jobs[t].at # "waiting", ~Ending(jobs[t]), ~Asks(jobs[t]),
         NEW jobs2, jobs2 = [jobs EXCEPT ![t] = n]
  PROVE  Knows(watch, s, r2, o, jobs2, b)
<1>1. /\ StoreSound(s) /\ OrchSound(o) /\ Stored(s, r2, o) /\ IngressKnown(o, b.watermark)
      /\ watch => Covered(b, jobs, s.policy)
      BY DEF Knows, Stored, RecordedOnce, Watched, IngressKnown
<1>2. /\ Winding(o) => Winding(o)
      /\ r2.present /\ o.state = "Disabled" =>
           r.present /\ o.state = "Disabled" /\ ~Ending(jobs[t])
      /\ o.desired = None \/ o.phase = "AwaitDisableRevoke" => Disabled(o, jobs)
      BY DEF Disabled
<1>3. Steers(watch, t, s, r, o, jobs, b, n, s, r2, o)
      BY <1>1, <1>2 DEF Steers
<1>4. QED  BY <1>3, SteerStep

\* The controller goes to o2 and the runtime to r2 for task t; do is next, and n its work.
Drives(t, r, o, jobs, b, r2, o2, do, n) ==
  /\ r.present /\ r.orchLock \in {None, t} /\ jobs[t].at # "waiting" /\ ~Ending(jobs[t])
  /\ RuntimeSound(r2) /\ r2.present /\ r2.policy = r.policy
  /\ Goes(o, o2, do, b.watermark)
  /\ \/ o2.desired = o.desired
     \/ o2.desired = None /\ o.phase = "AwaitDisableRevoke" /\ do.to = "publish" /\ t = "core"
  /\ o2.phase = "AwaitDisableRevoke" => Disabled(o, jobs)
  /\ o2.state \in {"Preparing", "Recovering"} =>
       do.to = "broker" \/ (o2.state = o.state /\ ~Asks(jobs[t]))
  /\ do.to = "publish" => o.desired # None
  /\ \/ n \in Work /\ n.at = do.to /\ n.what = do.what /\ ~n.stale
     \/ n = NoJob /\ do = Failed
  /\ n.then \in {"done", "rollback", "restore"}
  /\ n.then = "rollback" => t = "mutation" /\ ~Winding(o) /\ n.prev \in Policies

LEMMA DriveStep ==
  ASSUME NEW watch \in BOOLEAN, NEW t \in Tasks, NEW s, NEW r, NEW o, NEW jobs, NEW b,
         Knows(watch, s, r, o, jobs, b),
         NEW r2, NEW o2, NEW do, NEW n, Drives(t, r, o, jobs, b, r2, o2, do, n),
         NEW jobs2, jobs2 = [jobs EXCEPT ![t] = n]
  PROVE  Knows(watch, s, r2, o2, jobs2, b)
<1>1. /\ StoreSound(s) /\ OrchSound(o) /\ Stored(s, r, o) /\ IngressKnown(o, b.watermark)
      /\ watch => Covered(b, jobs, s.policy)
      BY DEF Knows, RecordedOnce, Watched, IngressKnown
<1>2. /\ OrchSound(o2) /\ DoSound(do, o2, b.watermark) /\ IngressKnown(o2, b.watermark)
      /\ Winding(o2) <=> Winding(o)
      /\ o2.phase = "AwaitDisable" => o.phase = "AwaitDisable"
      BY DEF Goes, Drives
<1>3. Stored(s, r2, o2)
      BY <1>1 DEF Stored, Drives
<1>4. JobSound(n)
  <2>1. CASE n = NoJob
        BY <2>1 DEF JobSound, NoJob, Work, Points, Ends
  <2>2. CASE n \in Work /\ n.at = do.to /\ n.what = do.what
    <3>1. n.at \in {"broker", "core", "publish", "failed"}
          BY <2>2, <1>2 DEF DoSound
    <3>2. n.at = "broker" => CommandSound(n.what) /\ n.what.op # "Status"
          BY <2>2, <1>2 DEF DoSound
    <3>3. /\ n.at = "core" => n.what \in Requests
          /\ n.at = "publish" => n.what \in [state : States]
          BY <2>2, <1>2 DEF DoSound
    <3>4. QED  BY <2>2, <3>1, <3>2, <3>3 DEF JobSound
  <2>3. QED  BY <2>1, <2>2 DEF Drives
<1>5. /\ n.at \notin {"waiting", "answered"} /\ ~n.stale
      /\ n.at \in {"broker", "publish"} => n.at = do.to /\ n.what = do.what
      /\ do.to \in {"broker", "publish"} => n.at = do.to /\ n.what = do.what
      BY <1>2 DEF DoSound, NoJob, Failed, Drives
<1>6. o2.desired # o.desired =>
        o2.desired = None /\ o.phase = "AwaitDisableRevoke" /\ do.to = "publish" /\ t = "core"
      BY DEF Drives
<1>7. Ending(n) => t = "core" /\ o2.state = "Disabled"
  <2>1. SUFFICES ASSUME Ending(n) PROVE t = "core" /\ o2.state = "Disabled"
        OBVIOUS
  <2>2. do.to = "publish" /\ o2.state = "Disabled"
        BY <2>1, <1>2, <1>5 DEF Ending, DoSound
  <2>3. o2.desired = None /\ o.desired # None
        BY <2>2, <1>2 DEF OrchSound, Drives
  <2>4. QED  BY <2>2, <2>3, <1>6
<1>8. JobKnows(t, n, o2, r2)
  <2>1. n.at \in {"broker", "waiting"} /\ n.what.op \in {"Disable", "Confirm"} => Winding(o2)
        BY <1>2, <1>5 DEF DoSound
  <2>2. QED  BY <2>1, <1>2, <1>5, <1>7 DEF JobKnows, Drives
<1>9. r2.present /\ o2.state = "Disabled" =>
        \/ t = "core" /\ Ending(n)
        \/ r.present /\ o.state = "Disabled" /\ ~Ending(jobs[t])
  <2>1. SUFFICES ASSUME o2.state = "Disabled", o.state # "Disabled"
                 PROVE  t = "core" /\ Ending(n)
        BY DEF Drives
  <2>2. o2.desired = None /\ o.desired # None
        BY <2>1, <1>1, <1>2 DEF OrchSound
  <2>3. do.to = "publish" /\ t = "core"
        BY <2>2, <1>6
  <2>4. QED  BY <2>1, <2>3, <1>2, <1>5 DEF Ending, DoSound
<1>10. o.state = "Disabled" => o2.state = "Disabled"
       BY <1>1, <1>2, <1>6 DEF OrchSound
<1>11. ASSUME NEW p, Commits(n, p)
       PROVE  p = s.policy /\ p \in Policies /\ Revision[p] <= b.watermark /\ ~Winding(o2)
  <2>1. do.to = "broker" /\ do.what.op = "Commit" /\ do.what.policy = p
        BY <1>5, <1>11 DEF Commits
  <2>2. p = o2.desired /\ ~Winding(o2) /\ Revision[p] <= b.watermark
        BY <2>1, <1>2 DEF DoSound
  <2>3. o2.desired # None
        BY <2>2 DEF Winding
  <2>4. QED  BY <2>2, <2>3, <1>3 DEF Stored, Drives
<1>12. o2.state \in {"Preparing", "Recovering"} =>
         Asks(n) \/ (o2.state = o.state /\ ~Asks(jobs[t]))
       BY <1>5 DEF Asks, Asked, Drives
<1>13. o2.desired = None \/ o2.phase = "AwaitDisableRevoke" => Disabled(o, jobs)
       BY <1>6 DEF Disabled, Drives
<1>14. Steers(watch, t, s, r, o, jobs, b, n, s, r2, o2)
       BY <1>1, <1>2, <1>3, <1>4, <1>5, <1>8, <1>9, <1>10, <1>11, <1>12, <1>13 DEF Steers, Drives
<1>15. QED  BY <1>14, SteerStep

LEMMA BudgetKept ==
  ASSUME BudgetSound(strictBudget), StrictFault \/ UserActs \/ UNCHANGED strictBudget
  PROVE  BudgetSound(strictBudget')
<1>1. CASE StrictFault
  <2>1. PICK k \in Nat : strictBudget.faults = k
        BY DEF BudgetSound
  <2>2. k > 0 /\ strictBudget' = [strictBudget EXCEPT !.faults = k - 1]
        BY <1>1, <2>1 DEF StrictFault
  <2>3. k - 1 \in Nat
        BY <2>2
  <2>4. QED  BY <2>2, <2>3 DEF BudgetSound
<1>2. CASE UserActs
  <2>1. PICK k \in Nat : strictBudget.mutations = k
        BY DEF BudgetSound
  <2>2. k > 0 /\ strictBudget' = [strictBudget EXCEPT !.mutations = k - 1]
        BY <1>2, <2>1 DEF UserActs
  <2>3. k - 1 \in Nat
        BY <2>2
  <2>4. QED  BY <2>2, <2>3 DEF BudgetSound
<1>3. QED  BY <1>1, <1>2

\* The task that moves is t, and what it does next is n.
LEMMA DriveMoves ==
  ASSUME NEW t \in Tasks, NEW do, job \in [Tasks -> Work], Drive(t, do)
  PROVE  job' = [job EXCEPT ![t] = [job[t] EXCEPT !.at = do.to, !.what = do.what]]
BY DEF Drive

LEMMA FailedIs ==
  Failed.to = "failed" /\ Failed.what = None
BY DEF Failed

\* What the others of a task know when it is their turn.
LEMMA TaskFacts ==
  ASSUME NEW watch \in BOOLEAN, StrictKnown(watch), NEW t \in Tasks
  PROVE  /\ job \in [Tasks -> Work] /\ job[t] \in Work /\ JobSound(job[t])
         /\ JobKnows(t, job[t], orch, runtime)
         /\ StoreSound(store) /\ RuntimeSound(runtime) /\ OrchSound(orch)
         /\ BrokerSound(broker) /\ CoreSound(strictCore) /\ BudgetSound(strictBudget)
         /\ Stored(store, runtime, orch) /\ IngressKnown(orch, broker.watermark)
BY DEF StrictKnown, Knows, JobsSound, RecordedOnce, IngressKnown

LEMMA IdleKnows ==
  ASSUME NEW t, NEW o, NEW r
  PROVE  JobSound(NoJob) /\ JobKnows(t, NoJob, o, r) /\ \A p : ~Commits(NoJob, p)
BY DEF JobSound, Work, NoJob, Points, Ends, JobKnows, Ending, Commits, Asked

\* A failure to be shown, unless the task is a rollback or a health check.
LEMMA FailureKnows ==
  ASSUME NEW t, NEW o, NEW r, NEW n \in Work, n.at = "failed",
         n.then \in {"done", "restore"}
  PROVE  JobSound(n) /\ JobKnows(t, n, o, r) /\ \A p : ~Commits(n, p)
BY DEF JobSound, JobKnows, Ending, Commits, Asked

-----------------------------------------------------------------------------
(* The Core and the link to it.                                            *)

LEMMA CoreHandlesKeeps ==
  ASSUME NEW watch \in BOOLEAN, StrictKnown(watch), CoreHandles
  PROVE  StrictKnown(watch)'
<1>1. Knows(watch, store, runtime, orch, job, broker)'
      BY DEF StrictKnown, CoreHandles
<1>2. BudgetSound(strictBudget')
      BY BudgetKept DEF StrictKnown, CoreHandles
<1>3. CoreSound(strictCore')
  <2> DEFINE req == Head(strictCore.inbox)
  <2>1. CoreSound(strictCore) /\ strictCore.inbox # <<>>
        BY DEF StrictKnown, CoreHandles
  <2>2. strictCore.inbox \in Seq(Requests) /\ req \in Requests
        /\ Tail(strictCore.inbox) \in Seq(Requests)
    <3>1. PICK q \in Seq(Requests) : strictCore.inbox = q
          BY <2>1 DEF CoreSound
    <3>2. QED  BY <2>1, <3>1, HeadTailProperties
  <2>3. PICK ingress \in {strictCore.ingress, 0, req.generation}, ok \in BOOLEAN :
          strictCore' = [strictCore EXCEPT !.inbox = Tail(strictCore.inbox),
                           !.ingress = ingress,
                           !.outbox = Append(strictCore.outbox, CoreAnswer(req, ok))]
        BY DEF CoreHandles
  <2>4. ingress \in Nat
        BY <2>1, <2>2 DEF CoreSound, Requests
  <2>5. Append(strictCore.outbox, CoreAnswer(req, ok))
          \in Seq([generation : Nat, ok : BOOLEAN])
    <3>1. CoreAnswer(req, ok) \in [generation : Nat, ok : BOOLEAN]
          BY <2>2 DEF CoreAnswer, Requests
    <3>2. PICK q \in Seq([generation : Nat, ok : BOOLEAN]) : strictCore.outbox = q
          BY <2>1 DEF CoreSound
    <3>3. QED  BY <3>1, <3>2, AppendProperties
  <2>6. QED  BY <2>1, <2>2, <2>3, <2>4, <2>5 DEF CoreSound
<1>4. QED  BY <1>1, <1>2, <1>3 DEF StrictKnown, CoreHandles

LEMMA NothingSent ==
  <<>> \in Seq(Requests) /\ <<>> \in Seq([generation : Nat, ok : BOOLEAN])
BY EmptySeq

LEMMA UnlinkedSound ==
  ASSUME CoreSound(strictCore)
  PROVE  CoreSound(Unlinked) /\ CoreSound([Unlinked EXCEPT !.wanted = FALSE])
BY NothingSent DEF CoreSound, Unlinked

LEMMA CoreUpSound == CoreSound(CoreUp)
BY DEF CoreSound, CoreUp

LEMMA CoreLinkKeeps ==
  ASSUME NEW watch \in BOOLEAN, StrictKnown(watch),
         CoreStops \/ CoreRestarts \/ CoreReady \/ CoreDies \/ IntentUnwritten
  PROVE  StrictKnown(watch)'
<1>1. Knows(watch, store, runtime, orch, job, broker)'
      BY DEF StrictKnown, CoreStops, CoreRestarts, CoreReady, CoreDies, IntentUnwritten
<1>2. BudgetSound(strictBudget')
      BY BudgetKept DEF StrictKnown, CoreStops, CoreRestarts, CoreReady, CoreDies, IntentUnwritten
<1>3. CoreSound(strictCore')
  <2>1. CoreSound(strictCore)
        BY DEF StrictKnown
  <2>2. CASE CoreStops
        BY <2>1, <2>2, UnlinkedSound DEF CoreStops
  <2>3. CASE CoreRestarts
        BY <2>1, <2>3 DEF CoreRestarts, CoreSound
  <2>4. CASE CoreReady
        BY <2>4, CoreUpSound DEF CoreReady
  <2>5. CASE CoreDies
        BY <2>1, <2>5, NothingSent DEF CoreDies, CoreSound
  <2>6. CASE IntentUnwritten
        BY <2>1, <2>6 DEF IntentUnwritten
  <2>7. QED  BY <2>2, <2>3, <2>4, <2>5, <2>6
<1>4. published' \in States
      BY DEF StrictKnown, CoreStops, CoreRestarts, CoreReady, CoreDies, IntentUnwritten, States
<1>5. QED  BY <1>1, <1>2, <1>3, <1>4 DEF StrictKnown

-----------------------------------------------------------------------------
(* Steps of a task that leave the controller alone.                        *)

LEMMA CoreLossNoticedKeeps ==
  ASSUME NEW watch \in BOOLEAN, StrictKnown(watch), CoreLossNoticed
  PROVE  StrictKnown(watch)'
<1>1. job["core"].at = "idle" /\ "core" \in Tasks
      BY DEF CoreLossNoticed, Idle, Tasks
<1>2. /\ job \in [Tasks -> Work] /\ job["core"] = NoJob
      /\ RuntimeSound(runtime)
      BY <1>1, TaskFacts DEF JobSound
<1>3. Knows(watch, store, runtime, orch, job, broker)'
  <2>1. CASE ~runtime.present
        BY <2>1 DEF StrictKnown, CoreLossNoticed
  <2>2. CASE runtime.present
    <3> DEFINE n == [NoJob EXCEPT !.at = "lost"]
    <3>1. job' = [job EXCEPT !["core"] = n]
          BY <1>1, <1>2, <2>2 DEF CoreLossNoticed
    <3>2. JobSound(n) /\ JobKnows("core", n, orch, runtime) /\ \A p : ~Commits(n, p)
          BY <2>2 DEF NoJob, JobSound, Work, Points, Ends, JobKnows, Ending, Commits, Asked
    <3>3. n.at = "lost" /\ ~Ending(job["core"]) /\ ~Asks(job["core"])
          BY <1>1 DEF NoJob, Ending, Asks, Asked
    <3> HIDE DEF n
    <3>4. Knows(watch, store, runtime, orch, job, broker)
          BY DEF StrictKnown
    <3>5. Knows(watch, store, runtime, orch, job', broker)
          BY <1>1, <1>2, <3>1, <3>2, <3>3, <3>4, QuietJob
    <3>6. QED  BY <3>5 DEF CoreLossNoticed
  <2>3. QED  BY <2>1, <2>2
<1>4. CoreSound(strictCore') /\ BudgetSound(strictBudget') /\ published' \in States
      BY UnlinkedSound DEF StrictKnown, CoreLossNoticed, States
<1>5. QED  BY <1>3, <1>4 DEF StrictKnown

LEMMA PublishFailureKeeps ==
  ASSUME NEW watch \in BOOLEAN, StrictKnown(watch), NEW t \in Tasks, PublishFailure(t)
  PROVE  StrictKnown(watch)'
<1>1. /\ job \in [Tasks -> Work] /\ job[t] \in Work /\ JobSound(job[t])
      /\ JobKnows(t, job[t], orch, runtime) /\ RuntimeSound(runtime)
      /\ job[t].at = "failed"
      BY TaskFacts DEF PublishFailure
<1>2. PICK n : /\ job' = [job EXCEPT ![t] = n]
               /\ n = IF job[t].then = "rollback" THEN [job[t] EXCEPT !.at = "rollback"] ELSE NoJob
      BY DEF PublishFailure
<1>3. JobSound(n) /\ JobKnows(t, n, orch, runtime) /\ \A p : ~Commits(n, p)
  <2>1. CASE job[t].then = "rollback"
        BY <1>1, <1>2, <2>1 DEF JobSound, Work, Points, JobKnows, Ending, Commits, Asked
  <2>2. CASE job[t].then # "rollback"
        BY <1>2, <2>2, IdleKnows
  <2>3. QED  BY <2>1, <2>2
<1>4. n.at \in {"rollback", "idle"} /\ ~Ending(job[t]) /\ ~Asks(job[t])
      BY <1>1, <1>2 DEF NoJob, Ending, Asks, Asked, Work
<1>5. Knows(watch, store, runtime, orch, job, broker)
      BY DEF StrictKnown
<1>6. Knows(watch, store, runtime, orch, job', broker)
      BY <1>1, <1>2, <1>3, <1>4, <1>5, QuietJob
<1>7. QED  BY <1>6 DEF StrictKnown, PublishFailure, States

LEMMA RollbackKeeps ==
  ASSUME NEW watch \in BOOLEAN, StrictKnown(watch), Rollback
  PROVE  StrictKnown(watch)'
<1> DEFINE t == "mutation"
           n == [at |-> "broker", what |-> Command("Status", None, 0), then |-> "status",
                 prev |-> job[t].prev, stale |-> FALSE]
<1>1. /\ t \in Tasks /\ job \in [Tasks -> Work] /\ job[t] \in Work /\ JobSound(job[t])
      /\ JobKnows(t, job[t], orch, runtime) /\ RuntimeSound(runtime)
      /\ job[t].at = "rollback"
      BY TaskFacts DEF Rollback, Tasks
<1>2. job' = [job EXCEPT ![t] = n]
      BY DEF Rollback, Start, ToBroker
<1>3. /\ job[t].then = "rollback" /\ ~job[t].stale /\ runtime.present /\ ~Winding(orch)
      /\ job[t].prev \in Policies
      BY <1>1 DEF JobSound, JobKnows
<1>4. /\ runtime'.present = runtime.present /\ runtime'.policy = runtime.policy
      /\ runtime'.orchLock = "mutation" /\ runtime.orchLock \in {None, t} /\ RuntimeSound(runtime')
      BY <1>1 DEF Rollback, RuntimeSound, Tasks
<1>5. JobSound(n) /\ JobKnows(t, n, orch, runtime') /\ \A p : ~Commits(n, p)
  <2>1. CommandSound(Command("Status", None, 0)) /\ Command("Status", None, 0).op = "Status"
        BY DEF CommandSound, Command, Commands, Ops
  <2>2. n \in Work
        BY <1>3, <2>1 DEF Work, Points, Ends, CommandSound
  <2>3. QED  BY <1>3, <1>4, <2>1, <2>2 DEF JobSound, JobKnows, Ending, Commits, Asked
<1>6. n.at = "broker" /\ ~Ending(job[t]) /\ ~Asks(job[t])
      BY <1>1 DEF Ending, Asks, Asked
<1>7. Knows(watch, store, runtime, orch, job, broker)
      BY DEF StrictKnown
<1> HIDE DEF n, t
<1>8. Knows(watch, store, runtime', orch, job', broker)
      BY <1>1, <1>2, <1>4, <1>5, <1>6, <1>7, QuietJob
<1>9. QED  BY <1>8 DEF StrictKnown, Rollback

LEMMA HealthCheckKeeps ==
  ASSUME NEW watch \in BOOLEAN, StrictKnown(watch), HealthCheck
  PROVE  StrictKnown(watch)'
<1> DEFINE t == "recovery"
           n == [at |-> "broker", what |-> Command("Status", None, 0), then |-> "health",
                 prev |-> None, stale |-> FALSE]
<1>1. /\ t \in Tasks /\ job \in [Tasks -> Work] /\ job[t].at = "idle"
      /\ RuntimeSound(runtime) /\ runtime.present /\ runtime.orchLock \in {None, t}
      /\ orch.state = "Armed"
      BY TaskFacts DEF HealthCheck, Ticks, Idle, LockFree, Tasks
<1>2. job' = [job EXCEPT ![t] = n]
      BY DEF HealthCheck, Start, ToBroker
<1>3. /\ runtime'.present = runtime.present /\ runtime'.policy = runtime.policy
      /\ runtime'.orchLock = "recovery" /\ RuntimeSound(runtime')
      BY <1>1 DEF HealthCheck, RuntimeSound, Tasks
<1>4. JobSound(n) /\ JobKnows(t, n, orch, runtime') /\ \A p : ~Commits(n, p)
  <2>1. CommandSound(Command("Status", None, 0)) /\ Command("Status", None, 0).op = "Status"
        BY DEF CommandSound, Command, Commands, Ops
  <2>2. n \in Work
        BY <2>1 DEF Work, Points, Ends, CommandSound
  <2>3. QED  BY <1>1, <1>3, <2>1, <2>2 DEF JobSound, JobKnows, Ending, Commits, Asked
<1>5. n.at = "broker" /\ ~Ending(job[t]) /\ ~Asks(job[t]) /\ job[t].at # "waiting"
      BY <1>1 DEF Ending, Asks, Asked
<1>6. Knows(watch, store, runtime, orch, job, broker)
      BY DEF StrictKnown
<1>7. BudgetSound(strictBudget')
  <2>1. CASE UNCHANGED strictBudget
        BY <2>1 DEF StrictKnown
  <2>2. CASE strictBudget.checks > 0
               /\ strictBudget' = [strictBudget EXCEPT !.checks = strictBudget.checks - 1]
    <3>1. BudgetSound(strictBudget)
          BY DEF StrictKnown
    <3>2. PICK k \in Nat : strictBudget.checks = k
          BY <3>1 DEF BudgetSound
    <3>3. k - 1 \in Nat /\ strictBudget' = [strictBudget EXCEPT !.checks = k - 1]
          BY <2>2, <3>2
    <3>4. QED  BY <3>1, <3>3 DEF BudgetSound
  <2>3. QED  BY <2>1, <2>2 DEF HealthCheck
<1> HIDE DEF n, t
<1>8. Knows(watch, store, runtime', orch, job', broker)
      BY <1>1, <1>2, <1>3, <1>4, <1>5, <1>6, QuietJob
<1>9. QED  BY <1>7, <1>8 DEF StrictKnown, HealthCheck

LEMMA ScheduleKeeps ==
  ASSUME NEW watch \in BOOLEAN, StrictKnown(watch), Schedule
  PROVE  StrictKnown(watch)'
<1>1. RuntimeSound(runtime) /\ runtime.attempts \in 0 .. MaxAttempts
      /\ runtime.attempts < MaxAttempts
      BY DEF Schedule, StrictKnown, Knows, RuntimeSound
<1>2. PICK k : k = runtime.attempts + 1
      OBVIOUS
<1>3. k \in 0 .. MaxAttempts
      BY <1>1, <1>2, AttemptsAssumption
<1>4. runtime' = [runtime EXCEPT !.attempts = k, !.scheduled = TRUE]
      BY <1>2 DEF Schedule
<1>5. /\ RuntimeSound(runtime') /\ runtime'.present = runtime.present
      /\ runtime'.policy = runtime.policy /\ runtime'.orchLock = runtime.orchLock
      BY <1>1, <1>3, <1>4 DEF RuntimeSound
<1>6. Knows(watch, store, runtime', orch, job, broker)
      BY <1>5, RuntimeQuiet DEF StrictKnown
<1>7. QED  BY <1>6 DEF StrictKnown, Schedule

LEMMA StartAttemptKeeps ==
  ASSUME NEW watch \in BOOLEAN, StrictKnown(watch), StartAttempt
  PROVE  StrictKnown(watch)'
<1> DEFINE t == "recovery"
           n == [at |-> "recover", what |-> None, then |-> "done", prev |-> None,
                 stale |-> FALSE]
<1>1. /\ t \in Tasks /\ job \in [Tasks -> Work] /\ job[t].at = "idle"
      /\ RuntimeSound(runtime) /\ runtime.present
      BY TaskFacts DEF StartAttempt, Ticks, Idle, Tasks
<1>2. job' = [job EXCEPT ![t] = n]
      BY DEF StartAttempt, Start
<1>3. /\ runtime'.present = runtime.present /\ runtime'.policy = runtime.policy
      /\ runtime'.orchLock = runtime.orchLock /\ RuntimeSound(runtime')
      BY <1>1 DEF StartAttempt, RuntimeSound
<1>4. JobSound(n) /\ JobKnows(t, n, orch, runtime') /\ \A p : ~Commits(n, p)
      BY <1>1, <1>3 DEF Work, Points, Ends, JobSound, JobKnows, Ending, Commits, Asked
<1>5. n.at = "recover" /\ ~Ending(job[t]) /\ ~Asks(job[t]) /\ job[t].at # "waiting"
      BY <1>1 DEF Ending, Asks, Asked
<1>6. Knows(watch, store, runtime, orch, job, broker)
      BY DEF StrictKnown
<1> HIDE DEF n, t
<1>7. Knows(watch, store, runtime', orch, job', broker)
      BY <1>1, <1>2, <1>3, <1>4, <1>5, <1>6, QuietJob
<1>8. QED  BY <1>7 DEF StrictKnown, StartAttempt, States

LEMMA SendToCoreKeeps ==
  ASSUME NEW watch \in BOOLEAN, StrictKnown(watch), NEW t \in Tasks, SendToCore(t)
  PROVE  StrictKnown(watch)'
<1>1. /\ job \in [Tasks -> Work] /\ job[t] \in Work /\ JobSound(job[t])
      /\ JobKnows(t, job[t], orch, runtime) /\ RuntimeSound(runtime) /\ OrchSound(orch)
      /\ job[t].at = "core" /\ job[t].what \in Requests /\ CoreSound(strictCore)
      BY TaskFacts DEF SendToCore, JobSound
<1>2. /\ ~Ending(job[t]) /\ ~Asks(job[t]) /\ job[t].at # "waiting"
      /\ job[t].then \in {"done", "rollback", "restore"}
      BY <1>1 DEF Ending, Asks, Asked, JobKnows, Work, Ends
<1>3. Knows(watch, store, runtime, orch, job, broker)
      BY DEF StrictKnown
<1>4. CASE /\ strictCore.link
           /\ strictCore' = [strictCore EXCEPT !.inbox =
                IF strictCore.alive THEN Append(strictCore.inbox, job[t].what)
                                    ELSE strictCore.inbox]
           /\ runtime' = IF job[t].stale THEN runtime
                         ELSE [runtime EXCEPT !.pendingId = job[t].what.generation]
           /\ job' = [job EXCEPT ![t] = NoJob]
           /\ UNCHANGED <<orch, strictBudget>>
  <2>1. /\ runtime'.present = runtime.present /\ runtime'.policy = runtime.policy
        /\ runtime'.orchLock = runtime.orchLock /\ RuntimeSound(runtime')
        BY <1>1, <1>4 DEF RuntimeSound, Requests
  <2>2. CoreSound(strictCore')
    <3>1. PICK q \in Seq(Requests) : strictCore.inbox = q
          BY <1>1 DEF CoreSound
    <3>2. Append(q, job[t].what) \in Seq(Requests)
          BY <1>1, <3>1, AppendProperties
    <3>3. QED  BY <1>1, <1>4, <3>1, <3>2 DEF CoreSound
  <2>3. JobSound(NoJob) /\ JobKnows(t, NoJob, orch, runtime') /\ (\A p : ~Commits(NoJob, p))
        /\ NoJob.at \notin {"waiting", "answered"}
        BY IdleKnows DEF NoJob
  <2>4. Knows(watch, store, runtime', orch, job', broker)
        BY <1>1, <1>2, <1>3, <1>4, <2>1, <2>3, QuietJob
  <2>5. QED  BY <1>4, <2>2, <2>4 DEF StrictKnown, SendToCore
<1>5. CASE /\ IF strictCore.link THEN StrictFault ELSE UNCHANGED strictBudget
           /\ LockFree(t)
           /\ IF job[t].stale THEN Drive(t, Failed) /\ UNCHANGED <<orch, runtime>>
              ELSE /\ Lost(t, orch)
                   /\ runtime' = IF strictCore.link THEN [runtime EXCEPT !.pendingId = 0]
                                                     ELSE runtime
           /\ UNCHANGED strictCore
  <2> DEFINE n == [job[t] EXCEPT !.at = "failed", !.what = None]
  <2>1. Drive(t, Failed)
        BY <1>5 DEF Lost
  <2>2. job' = [job EXCEPT ![t] = n] /\ n \in Work /\ n.at = Failed.to /\ n.what = Failed.what
        /\ n.then = job[t].then /\ n.stale = job[t].stale /\ n.prev = job[t].prev
        BY <1>1, <2>1, DriveMoves, FailedIs DEF Work, Points
  <2>3. BudgetSound(strictBudget')
        BY <1>5, BudgetKept DEF StrictKnown
  <2> HIDE DEF n
  <2>4. CASE job[t].stale
    <3>1. n.then \in {"done", "restore"}
          BY <1>1, <1>2, <2>2, <2>4 DEF JobKnows
    <3>2. JobSound(n) /\ JobKnows(t, n, orch, runtime) /\ (\A p : ~Commits(n, p))
          BY <2>2, <3>1, FailureKnows, FailedIs
    <3>3. Knows(watch, store, runtime, orch, job', broker)
          BY <1>1, <1>2, <1>3, <2>2, <3>2, FailedIs, QuietJob
    <3>4. QED  BY <1>5, <2>3, <2>4, <3>3 DEF StrictKnown, SendToCore
  <2>5. CASE ~job[t].stale
    <3>1. runtime.present /\ runtime.orchLock \in {None, t}
          BY <1>1, <1>5, <2>5 DEF JobKnows, LockFree
    <3>2. /\ runtime'.present /\ runtime'.policy = runtime.policy /\ RuntimeSound(runtime')
          BY <1>1, <1>5, <2>5, <3>1 DEF RuntimeSound
    <3>3. orch' = BrokerLost(orch)
          BY <1>5, <2>5 DEF Lost
    <3>4. /\ Goes(orch, orch', Failed, broker.watermark)
          /\ orch'.desired = orch.desired
          /\ orch'.state = IF orch.desired = None THEN orch.state ELSE "Blocking"
          /\ orch'.phase = "AwaitDisableRevoke" => orch.phase = "AwaitDisableRevoke"
          BY <1>1, <3>3, LostGoes
    <3>5. orch'.state \notin {"Preparing", "Recovering"}
          BY <1>1, <3>4 DEF OrchSound
    <3>6. orch'.phase = "AwaitDisableRevoke" => Disabled(orch, job)
          BY <3>4 DEF Disabled
    <3>7. n.then = "rollback" => t = "mutation" /\ ~Winding(orch) /\ n.prev \in Policies
          BY <1>1, <2>2 DEF JobKnows
    <3>8. Drives(t, runtime, orch, job, broker, runtime', orch', Failed, n)
          BY <1>1, <1>2, <2>2, <2>5, <3>1, <3>2, <3>4, <3>5, <3>6, <3>7, FailedIs DEF Drives
    <3>9. Knows(watch, store, runtime', orch', job', broker)
          BY <1>3, <2>2, <3>8, DriveStep
    <3>10. QED  BY <1>5, <2>3, <3>9 DEF StrictKnown, SendToCore
  <2>6. QED  BY <2>4, <2>5
<1>6. QED  BY <1>4, <1>5 DEF SendToCore

LEMMA CoreLossBlocksKeeps ==
  ASSUME NEW watch \in BOOLEAN, StrictKnown(watch), CoreLossBlocks
  PROVE  StrictKnown(watch)'
<1> DEFINE t == "core"
           f == ForceBlocking(orch, runtime.policy)
           n == [at |-> f.do.to, what |-> f.do.what, then |-> "done", prev |-> None,
                 stale |-> FALSE]
<1>1. /\ t \in Tasks /\ job \in [Tasks -> Work] /\ job[t].at = "lost"
      /\ RuntimeSound(runtime) /\ runtime.orchLock \in {None, t} /\ OrchSound(orch)
      /\ Stored(store, runtime, orch) /\ IngressKnown(orch, broker.watermark)
      BY TaskFacts DEF CoreLossBlocks, LockFree, Tasks
<1>2. job' = [job EXCEPT ![t] = n] /\ orch' = f.orch
      BY DEF CoreLossBlocks, Start
<1>3. ~Ending(job[t]) /\ ~Asks(job[t]) /\ job[t].at # "waiting"
      BY <1>1 DEF Ending, Asks, Asked
<1>4. Knows(watch, store, runtime, orch, job, broker)
      BY DEF StrictKnown
<1>5. CASE ~CanForceBlocking(orch)
  <2>1. f = Result(orch, Failed) /\ f.orch = orch /\ f.do = Failed
        BY <1>5 DEF ForceBlocking, Result
  <2>2. n \in Work /\ n.at = "failed" /\ n.then = "done"
        BY <2>1, FailedIs DEF Work, Points, Ends
  <2> HIDE DEF n, f
  <2>3. JobSound(n) /\ JobKnows(t, n, orch, runtime) /\ (\A p : ~Commits(n, p))
        BY <2>2, FailureKnows
  <2> HIDE DEF t
  <2>4. Knows(watch, store, runtime, orch, job', broker)
        BY <1>1, <1>2, <1>3, <1>4, <2>2, <2>3, QuietJob
  <2>5. QED  BY <1>2, <2>1, <2>4 DEF StrictKnown, CoreLossBlocks
<1>6. CASE CanForceBlocking(orch)
  <2>1. runtime.present /\ runtime.policy \in Policies
        BY <1>1, <1>6 DEF Stored, CanForceBlocking, Fresh
  <2> HIDE DEF f
  <2>2. Turned(orch, f.orch, f.do, broker.watermark)
        BY <1>1, <1>6, <2>1, ForceTurned DEF f
  <2>3. n \in Work /\ n.at = f.do.to /\ n.what = f.do.what /\ ~n.stale /\ n.then = "done"
        BY <2>2 DEF Work, Points, Ends, Turned, Goes, DoSound
  <2>4. f.orch.phase = "AwaitDisableRevoke" => Disabled(orch, job)
        BY <2>2 DEF Turned, Disabled
  <2> HIDE DEF n, t
  <2>5. f.orch.state \in {"Preparing", "Recovering"} =>
          f.do.to = "broker" \/ (f.orch.state = orch.state /\ ~Asks(job[t]))
        BY <1>3, <2>2 DEF Turned
  <2>6. Drives(t, runtime, orch, job, broker, runtime, f.orch, f.do, n)
        BY <1>1, <1>3, <2>1, <2>2, <2>3, <2>4, <2>5 DEF Drives, Turned, t
  <2>7. Knows(watch, store, runtime, f.orch, job', broker)
        BY <1>1, <1>2, <1>4, <2>6, DriveStep
  <2>8. QED  BY <1>2, <2>7 DEF StrictKnown, CoreLossBlocks
<1>7. QED  BY <1>5, <1>6

LEMMA RecoverStepKeeps ==
  ASSUME NEW watch \in BOOLEAN, StrictKnown(watch), RecoverStep
  PROVE  StrictKnown(watch)'
<1> DEFINE t == "recovery"
<1>1. /\ t \in Tasks /\ job \in [Tasks -> Work] /\ job[t] \in Work /\ job[t].at = "recover"
      /\ JobKnows(t, job[t], orch, runtime)
      /\ RuntimeSound(runtime) /\ runtime.orchLock \in {None, t} /\ OrchSound(orch)
      /\ Stored(store, runtime, orch) /\ IngressKnown(orch, broker.watermark)
      BY TaskFacts DEF RecoverStep, LockFree, Tasks
<1>2. /\ ~Ending(job[t]) /\ ~Asks(job[t]) /\ job[t].at # "waiting"
      /\ job[t].then \in {"done", "restore"}
      BY <1>1 DEF Ending, Asks, Asked, JobKnows, Work, Ends
<1>3. Knows(watch, store, runtime, orch, job, broker)
      BY DEF StrictKnown
<1>4. CASE job[t].stale
  <2> DEFINE n == [job[t] EXCEPT !.at = "failed", !.what = None]
  <2>1. Drive(t, Failed) /\ UNCHANGED orch
        BY <1>4 DEF RecoverStep
  <2> HIDE DEF t
  <2>2. /\ job' = [job EXCEPT ![t] = n] /\ n \in Work /\ n.at = "failed"
        /\ n.then \in {"done", "restore"}
    <3>1. job' = [job EXCEPT ![t] = n]
          BY <1>1, <2>1, DriveMoves, FailedIs
    <3>2. QED  BY <1>1, <1>2, <3>1 DEF Work, Points
  <2> HIDE DEF n
  <2>3. JobSound(n) /\ JobKnows(t, n, orch, runtime) /\ (\A p : ~Commits(n, p))
        BY <2>2, FailureKnows
  <2>4. Knows(watch, store, runtime, orch, job', broker)
        BY <1>1, <1>2, <1>3, <2>2, <2>3, QuietJob
  <2>5. QED  BY <2>1, <2>4 DEF StrictKnown, RecoverStep
<1>5. CASE ~job[t].stale
  <2> DEFINE f == Recover(orch, runtime.policy)
             n == [job[t] EXCEPT !.at = f.do.to, !.what = f.do.what]
  <2>1. Becomes(f, t)
        BY <1>5 DEF RecoverStep
  <2>2. runtime.present /\ runtime.policy \in Policies /\ orch.desired \in {None, runtime.policy}
        BY <1>1, <1>5 DEF JobKnows, Stored
  <2> HIDE DEF f
  <2>3. Turned(orch, f.orch, f.do, broker.watermark)
        BY <1>1, <2>2, RecoverTurned DEF f
  <2>4. orch' = f.orch /\ job' = [job EXCEPT ![t] = n]
        BY <1>1, <2>1, DriveMoves DEF Becomes
  <2>5. /\ n \in Work /\ n.at = f.do.to /\ n.what = f.do.what /\ ~n.stale
        /\ n.then \in {"done", "restore"}
        BY <1>1, <1>2, <1>5, <2>3 DEF Work, Points, Ends, Turned, Goes, DoSound
  <2>6. f.orch.phase = "AwaitDisableRevoke" => Disabled(orch, job)
        BY <2>3 DEF Turned, Disabled
  <2>7. f.orch.state \in {"Preparing", "Recovering"} =>
          f.do.to = "broker" \/ (f.orch.state = orch.state /\ ~Asks(job[t]))
        BY <1>2, <2>3 DEF Turned
  <2>8. f.orch.desired = orch.desired
    <3>1. f.do.to = "publish" => FALSE
          BY DEF f, Recover, Result, Prepare, ToBroker, RevokeThen, ToCore, ForceBlocking, Failed
    <3>2. QED  BY <2>3, <3>1 DEF Turned
  <2> HIDE DEF n, t
  <2>9. Drives(t, runtime, orch, job, broker, runtime, f.orch, f.do, n)
        BY <1>1, <1>2, <2>2, <2>3, <2>5, <2>6, <2>7, <2>8 DEF Drives, Turned
  <2>10. Knows(watch, store, runtime, f.orch, job', broker)
        BY <1>1, <1>3, <2>4, <2>9, DriveStep
  <2>11. QED  BY <2>4, <2>10 DEF StrictKnown, RecoverStep
<1>6. QED  BY <1>4, <1>5

LEMMA CoreLineKeeps ==
  ASSUME NEW watch \in BOOLEAN, StrictKnown(watch), CoreLine
  PROVE  StrictKnown(watch)'
<1> DEFINE t == "core"
           answer == Head(strictCore.outbox)
           r == AcceptCoreResponse(orch, answer)
           f == ForceBlocking(r.orch, runtime.policy)
<1>1. /\ t \in Tasks /\ job \in [Tasks -> Work] /\ job[t].at = "idle" /\ JobSound(job[t])
      /\ RuntimeSound(runtime) /\ OrchSound(orch) /\ CoreSound(strictCore)
      /\ Stored(store, runtime, orch) /\ IngressKnown(orch, broker.watermark)
      BY TaskFacts DEF CoreLine, Idle, Tasks
<1>2. job[t] = NoJob /\ ~Ending(job[t]) /\ ~Asks(job[t]) /\ job[t].at # "waiting"
      BY <1>1 DEF JobSound, Ending, Asks, Asked
<1>3. Knows(watch, store, runtime, orch, job, broker)
      BY DEF StrictKnown
<1>4. /\ answer \in [generation : Nat, ok : BOOLEAN] /\ CoreSound(strictCore')
  <2>1. PICK q \in Seq([generation : Nat, ok : BOOLEAN]) : strictCore.outbox = q
        BY <1>1 DEF CoreSound
  <2>2. /\ Head(q) \in [generation : Nat, ok : BOOLEAN]
        /\ Tail(q) \in Seq([generation : Nat, ok : BOOLEAN])
        BY <2>1, HeadTailProperties DEF CoreLine
  <2>3. strictCore' = [strictCore EXCEPT !.outbox = Tail(q)]
        BY <2>1 DEF CoreLine
  <2>4. QED  BY <1>1, <2>1, <2>2, <2>3 DEF CoreSound
<1> HIDE DEF answer
<1>5. CASE ~runtime.present \/ runtime.pendingId # answer.generation
  <2>1. UNCHANGED <<runtime, orch, job>>
        BY <1>5 DEF CoreLine, answer
  <2>2. QED  BY <1>4, <2>1 DEF StrictKnown, CoreLine
<1>6. CASE ~(~runtime.present \/ runtime.pendingId # answer.generation)
  <2>1. /\ runtime' = [runtime EXCEPT !.pendingId = 0] /\ runtime.orchLock \in {None, t}
        /\ IF r.do # Failed
             THEN orch' = r.orch /\ Start("core", r.do, "done", None)
           ELSE IF CanForceBlocking(r.orch)
             THEN orch' = f.orch /\ Start("core", f.do, "done", None)
           ELSE orch' = r.orch /\ UNCHANGED job
        BY <1>6 DEF CoreLine, LockFree, answer
  <2> HIDE DEF r
  <2>2. /\ runtime'.present /\ runtime.present /\ runtime'.policy = runtime.policy
        /\ RuntimeSound(runtime') /\ runtime.policy \in Policies
        BY <1>1, <1>6, <2>1 DEF RuntimeSound, Stored
  <2>3. Turned(orch, r.orch, r.do, broker.watermark)
        BY <1>1, <1>4, CoreTurned DEF r
  <2>4. OrchSound(r.orch)
        BY <2>3 DEF Turned, Goes
  <2>5. Knows(watch, store, runtime', orch', job', broker)
    <3>1. CASE r.do # Failed
      <4> DEFINE n == [at |-> r.do.to, what |-> r.do.what, then |-> "done", prev |-> None,
                       stale |-> FALSE]
      <4>1. orch' = r.orch /\ job' = [job EXCEPT ![t] = n]
            BY <2>1, <3>1 DEF Start
      <4>2. n \in Work /\ n.at = r.do.to /\ n.what = r.do.what /\ ~n.stale /\ n.then = "done"
            BY <2>3 DEF Work, Points, Ends, Turned, Goes, DoSound
      <4>3. r.orch.phase = "AwaitDisableRevoke" => Disabled(orch, job)
            BY <2>3 DEF Turned, Disabled
      <4>4. r.orch.state \in {"Preparing", "Recovering"} =>
              r.do.to = "broker" \/ (r.orch.state = orch.state /\ ~Asks(job[t]))
            BY <1>2, <2>3 DEF Turned
      <4> HIDE DEF n, t
      <4>5. Drives(t, runtime, orch, job, broker, runtime', r.orch, r.do, n)
            BY <1>2, <2>1, <2>2, <2>3, <4>2, <4>3, <4>4 DEF Drives, Turned, t
      <4>6. Knows(watch, store, runtime', r.orch, job', broker)
            BY <1>1, <1>3, <4>1, <4>5, DriveStep DEF t
      <4>7. QED  BY <4>1, <4>6
    <3>2. CASE r.do = Failed /\ CanForceBlocking(r.orch)
      <4> DEFINE n == [at |-> f.do.to, what |-> f.do.what, then |-> "done", prev |-> None,
                       stale |-> FALSE]
      <4>1. orch' = f.orch /\ job' = [job EXCEPT ![t] = n]
            BY <2>1, <3>2 DEF Start
      <4>2. /\ Goes(r.orch, f.orch, f.do, broker.watermark)
            /\ f.orch.desired = r.orch.desired /\ f.orch.phase = "AwaitBlocking"
            /\ f.do.to = "broker" /\ f.do.what.op = "Block"
            BY <2>2, <2>4, <3>2, ForceGoes
      <4>3. r.orch.desired = orch.desired
            BY <2>3, <3>2, FailedIs DEF Turned
      <4> HIDE DEF f
      <4>4. Goes(orch, f.orch, f.do, broker.watermark)
            BY <2>3, <4>2 DEF Turned, Goes
      <4>5. n \in Work /\ n.at = f.do.to /\ n.what = f.do.what /\ ~n.stale /\ n.then = "done"
            BY <4>2 DEF Work, Points, Ends, Goes, DoSound
      <4> HIDE DEF n, t
      <4>6. Drives(t, runtime, orch, job, broker, runtime', f.orch, f.do, n)
            BY <1>2, <2>1, <2>2, <4>2, <4>3, <4>4, <4>5 DEF Drives
      <4>7. Knows(watch, store, runtime', f.orch, job', broker)
            BY <1>1, <1>3, <4>1, <4>6, DriveStep DEF t
      <4>8. QED  BY <4>1, <4>7
    <3>3. CASE r.do = Failed /\ ~CanForceBlocking(r.orch)
      <4>1. orch' = r.orch /\ job' = job
            BY <2>1, <3>3
      <4>2. r.orch.desired = orch.desired
            BY <2>3, <3>3, FailedIs DEF Turned
      <4>3. r.orch.phase = "AwaitDisableRevoke" => Disabled(orch, job)
            BY <2>3 DEF Turned, Disabled
      <4>4. r.orch.state \in {"Preparing", "Recovering"} =>
              r.orch.state = orch.state /\ ~Asks(job[t])
            BY <1>2, <2>3, <3>3, FailedIs DEF Turned
      <4>5. NoJob.then = "done"
            BY DEF NoJob
      <4> HIDE DEF t
      <4>6. job = [job EXCEPT ![t] = NoJob]
            BY <1>1, <1>2
      <4>7. Drives(t, runtime, orch, job, broker, runtime', r.orch, Failed, NoJob)
            BY <1>2, <2>1, <2>2, <2>3, <3>3, <4>2, <4>3, <4>4, <4>5, FailedIs DEF Drives, Turned
      <4>8. Knows(watch, store, runtime', r.orch, job, broker)
            BY <1>1, <1>3, <4>6, <4>7, DriveStep
      <4>9. QED  BY <4>1, <4>8
    <3>4. QED  BY <3>1, <3>2, <3>3
  <2>6. QED  BY <1>4, <2>5 DEF StrictKnown, CoreLine
<1>7. QED  BY <1>5, <1>6

LEMMA DriveAnswerKeeps ==
  ASSUME NEW watch \in BOOLEAN, StrictKnown(watch), NEW t \in Tasks,
         job[t].at = "answered", LockFree(t), DriveAnswer(t)
  PROVE  Knows(watch, store', runtime', orch', job', broker)
<1> DEFINE answer == job[t].what
           d == Driven(orch, answer)
           n == [job[t] EXCEPT !.at = d.do.to, !.what = d.do.what]
<1>1. /\ job \in [Tasks -> Work] /\ job[t] \in Work /\ JobKnows(t, job[t], orch, runtime)
      /\ RuntimeSound(runtime) /\ OrchSound(orch) /\ IngressKnown(orch, broker.watermark)
      /\ answer \in Answers /\ ~job[t].stale /\ job[t].then \in {"done", "rollback", "restore"}
      /\ UNCHANGED <<store, runtime>>
      BY TaskFacts DEF DriveAnswer, JobSound, Work, Ends
<1>2. answer.policy # None => Revision[answer.policy] <= broker.watermark
      BY DEF StrictKnown, Knows, RecordedOnce
<1>3. runtime.present /\ runtime.orchLock \in {None, t} /\ ~Ending(job[t])
      BY <1>1 DEF JobKnows, LockFree, Ending
<1>4. Knows(watch, store, runtime, orch, job, broker)
      BY DEF StrictKnown
<1>5. orch' = d.orch /\ Drive(t, d.do)
      BY DEF DriveAnswer, Lost, Becomes, Driven, Result
<1> HIDE DEF d, answer
<1>6. AnswersTo(orch, d, answer, broker.watermark)
      BY <1>1, <1>2, DrivenAnswers DEF d
<1>7. job' = [job EXCEPT ![t] = n]
      BY <1>1, <1>5, DriveMoves
<1>8. /\ n \in Work /\ n.at = d.do.to /\ n.what = d.do.what /\ ~n.stale
      /\ n.then = job[t].then /\ n.prev = job[t].prev
      BY <1>1, <1>6 DEF Work, Points, AnswersTo, Goes, DoSound
<1>9. d.orch.phase = "AwaitDisableRevoke" => Disabled(orch, job)
      BY <1>1, <1>6 DEF AnswersTo, Disabled, Freed, Asks, Asked, answer
<1>10. d.orch.state \in {"Preparing", "Recovering"} => d.do.to = "broker"
  <2>1. CASE orch.desired # None
        BY <1>1, <1>2, <2>1, DrivenSettles DEF d
  <2>2. CASE orch.desired = None
        BY <1>6, <2>2 DEF AnswersTo, Goes, OrchSound
  <2>3. QED  BY <2>1, <2>2
<1>11. /\ d.orch.desired = orch.desired /\ Goes(orch, d.orch, d.do, broker.watermark)
       /\ d.do.to = "publish" => orch.desired # None
       BY <1>6, FailedIs DEF AnswersTo
<1>12. n.then = "rollback" => t = "mutation" /\ ~Winding(orch) /\ n.prev \in Policies
       BY <1>1, <1>8 DEF JobKnows
<1> HIDE DEF n
<1>13. Drives(t, runtime, orch, job, broker, runtime, d.orch, d.do, n)
       BY <1>1, <1>3, <1>8, <1>9, <1>10, <1>11, <1>12 DEF Drives
<1>14. Knows(watch, store, runtime, d.orch, job', broker)
       BY <1>4, <1>7, <1>13, DriveStep
<1>15. QED  BY <1>1, <1>5, <1>14

LEMMA HealthAnswerKeeps ==
  ASSUME NEW watch \in BOOLEAN, StrictKnown(watch), NEW t \in Tasks,
         job[t].at = "answered", LockFree(t), HealthAnswer(t)
  PROVE  Knows(watch, store', runtime', orch', job', broker)
<1> DEFINE answer == job[t].what
           d == Driven(orch, answer)
           n == [at |-> d.do.to, what |-> d.do.what, then |-> "done", prev |-> None,
                 stale |-> FALSE]
<1>1. /\ job \in [Tasks -> Work] /\ job[t] \in Work /\ JobKnows(t, job[t], orch, runtime)
      /\ RuntimeSound(runtime) /\ OrchSound(orch) /\ IngressKnown(orch, broker.watermark)
      /\ answer \in Answers /\ UNCHANGED store
      BY TaskFacts DEF HealthAnswer, JobSound
<1>2. answer.policy # None => Revision[answer.policy] <= broker.watermark
      BY DEF StrictKnown, Knows, RecordedOnce
<1>3. /\ runtime.present /\ runtime.orchLock \in {None, t} /\ ~Ending(job[t])
      /\ orch.state = "Armed"
      BY <1>1 DEF HealthAnswer, JobKnows, LockFree, Ending
<1>4. Knows(watch, store, runtime, orch, job, broker)
      BY DEF StrictKnown
<1>5. /\ orch' = d.orch
      /\ Start(t, d.do, "done", None) \/ (job' = [job EXCEPT ![t] = NoJob] /\ d.do = Failed)
      BY DEF HealthAnswer, Driven, Result
<1>6. /\ runtime'.present /\ runtime'.policy = runtime.policy /\ RuntimeSound(runtime')
      BY <1>1, <1>3 DEF HealthAnswer, Unlocked, RuntimeSound
<1> HIDE DEF d, answer
<1>7. AnswersTo(orch, d, answer, broker.watermark)
      BY <1>1, <1>2, DrivenAnswers DEF d
<1>8. n \in Work /\ n.at = d.do.to /\ n.what = d.do.what /\ ~n.stale /\ n.then = "done"
      BY <1>7 DEF Work, Points, Ends, AnswersTo, Goes, DoSound
<1>9. orch.desired # None
      BY <1>1, <1>3 DEF OrchSound
<1>10. d.orch.phase # "AwaitDisableRevoke"
       BY <1>1, <1>3, <1>7 DEF AnswersTo, OrchSound
<1>11. d.orch.state \in {"Preparing", "Recovering"} => d.do.to = "broker"
       BY <1>1, <1>2, <1>9, DrivenSettles DEF d
<1>12. d.orch.desired = orch.desired /\ Goes(orch, d.orch, d.do, broker.watermark)
       BY <1>7 DEF AnswersTo
<1>13. CASE Start(t, d.do, "done", None)
  <2>1. job' = [job EXCEPT ![t] = n]
        BY <1>13 DEF Start
  <2> HIDE DEF n
  <2>2. Drives(t, runtime, orch, job, broker, runtime', d.orch, d.do, n)
        BY <1>3, <1>6, <1>8, <1>9, <1>10, <1>11, <1>12 DEF Drives
  <2>3. Knows(watch, store, runtime', d.orch, job', broker)
        BY <1>4, <2>1, <2>2, DriveStep
  <2>4. QED  BY <1>1, <1>5, <2>3
<1>14. CASE job' = [job EXCEPT ![t] = NoJob] /\ d.do = Failed
  <2>1. NoJob.then = "done"
        BY DEF NoJob
  <2>2. Drives(t, runtime, orch, job, broker, runtime', d.orch, Failed, NoJob)
        BY <1>3, <1>6, <1>9, <1>10, <1>11, <1>12, <1>14, <2>1, FailedIs DEF Drives
  <2>3. Knows(watch, store, runtime', d.orch, job', broker)
        BY <1>4, <1>14, <2>2, DriveStep
  <2>4. QED  BY <1>1, <1>5, <2>3
<1>15. QED  BY <1>5, <1>13, <1>14

-----------------------------------------------------------------------------
(* A new policy: it is the intent, and the controller begins with it.      *)

LEMMA BeginSound ==
  ASSUME NEW o \in Fields, NEW p \in Policies
  PROVE  /\ OrchSound(Begin(o, p)) /\ ~Winding(Begin(o, p))
         /\ Begin(o, p).desired = p /\ Begin(o, p).state = "Preparing"
         /\ Begin(o, p).phase = "AwaitPrepare"
<1> DEFINE n == Begin(o, p)
<1>1. n \in Fields /\ n.desired = p /\ n.state = "Preparing" /\ n.phase = "AwaitPrepare"
      BY DEF Begin, Fields, Phases, States
<1> HIDE DEF n
<1>2. OrchSound(n) /\ ~Winding(n)
      BY <1>1, NoneAssumption DEF OrchSound, Winding, Fields
<1>3. QED  BY <1>1, <1>2 DEF n

LEMMA FreshFields == Fresh \in Fields
BY DEF Fresh, Fields, Phases, States

LEMMA PrepareWork ==
  ASSUME NEW p \in Policies, NEW then \in {"done", "rollback"}, NEW prev \in Policies \cup {None},
         NEW n, n = [at |-> Prepare(p).to, what |-> Prepare(p).what, then |-> then, prev |-> prev,
                     stale |-> FALSE]
  PROVE  /\ n \in Work /\ n.at = "broker" /\ n.what = Command("Prepare", p, 0) /\ ~n.stale
         /\ n.then = then /\ n.prev = prev
<1>1. Prepare(p).to = "broker" /\ Prepare(p).what = Command("Prepare", p, 0)
      BY DEF Prepare, ToBroker
<1>2. Command("Prepare", p, 0) \in Commands
      BY DEF Command, Commands, Ops
<1>3. QED  BY <1>1, <1>2 DEF Work, Points, Ends

\* The user's task may begin with p, and goes on with n in runtime r2.
Renews(watch, r, o, jobs, b, p, r2, n) ==
  /\ r.present => ~Winding(o) /\ r.orchLock \in {None, "mutation"}
  /\ jobs["mutation"].at # "waiting"
  /\ RuntimeSound(r2) /\ r2.present /\ r2.policy = p /\ (watch => Covered(b, jobs, p))
  /\ n \in Work /\ n.at = "broker" /\ n.what = Command("Prepare", p, 0) /\ ~n.stale
  /\ n.then = "done" \/ (n.then = "rollback" /\ n.prev \in Policies)

LEMMA BeginStep ==
  ASSUME NEW watch \in BOOLEAN, NEW s, NEW r, NEW o, NEW jobs, NEW b,
         Knows(watch, s, r, o, jobs, b),
         NEW p \in Policies, NEW o1 \in Fields, NEW r2, NEW n, Renews(watch, r, o, jobs, b, p, r2, n)
  PROVE  Knows(watch, [s EXCEPT !.enabled = TRUE, !.policy = p], r2, Begin(o1, p),
               [jobs EXCEPT !["mutation"] = n], b)
<1> DEFINE s2 == [s EXCEPT !.enabled = TRUE, !.policy = p]
           o2 == Begin(o1, p)
<1>1. /\ OrchSound(o2) /\ ~Winding(o2) /\ o2.desired = p /\ o2.state = "Preparing"
      /\ o2.phase = "AwaitPrepare" /\ p # None
      BY BeginSound, NoneAssumption
<1>2. /\ n \in Work /\ n.at = "broker" /\ ~n.stale
      /\ CommandSound(n.what) /\ n.what.op = "Prepare"
      /\ n.then = "done" \/ (n.then = "rollback" /\ n.prev \in Policies)
      BY DEF Renews, CommandSound, Command, Commands, Ops
<1> HIDE DEF o2
<1>3. JobSound(n) /\ JobKnows("mutation", n, o2, r2) /\ Asks(n) /\ \A q : ~Commits(n, q)
      BY <1>1, <1>2 DEF JobSound, JobKnows, Ending, Asks, Asked, Commits, Renews
<1>4. StoreSound(s2) /\ s2.policy = p /\ Stored(s2, r2, o2) /\ IngressKnown(o2, b.watermark)
  <2>1. StoreSound(s2) /\ s2.policy = p
        BY DEF Knows, StoreSound
  <2>2. QED  BY <1>1, <2>1 DEF Stored, IngressKnown, Renews
<1>5. r.present => o.state # "Disabled"
      BY DEF Knows, OrchSound, Winding, Renews
<1> HIDE DEF s2
<1>6. Steers(watch, "mutation", s, r, o, jobs, b, n, s2, r2, o2)
      BY <1>1, <1>2, <1>3, <1>4, <1>5 DEF Steers, Renews
<1>7. Knows(watch, s2, r2, o2, [jobs EXCEPT !["mutation"] = n], b)
      BY <1>6, SteerStep DEF Tasks
<1>8. QED  BY <1>7 DEF s2, o2

LEMMA UiApplyKeeps ==
  ASSUME NEW watch \in BOOLEAN, StrictKnown(watch), NEW p \in Policies, UiApply(p)
  PROVE  StrictKnown(watch)'
<1> DEFINE t == "mutation"
           n == [at |-> Prepare(p).to, what |-> Prepare(p).what, then |-> "done", prev |-> None,
                 stale |-> FALSE]
<1>1. /\ t \in Tasks /\ job \in [Tasks -> Work] /\ job[t].at = "idle" /\ ~runtime.present
      /\ RuntimeSound(runtime) /\ Stored(store, runtime, orch)
      BY TaskFacts DEF UiApply, Idle, Tasks
<1>2. /\ store' = [store EXCEPT !.enabled = TRUE, !.policy = p] /\ orch' = Begin(Fresh, p)
      /\ runtime' = [runtime EXCEPT !.present = TRUE, !.policy = p]
      /\ job' = [job EXCEPT ![t] = n] /\ published' = "Preparing"
      BY DEF UiApply, Applies, Start, Saved
<1>3. RuntimeSound(runtime') /\ runtime'.present /\ runtime'.policy = p
      BY <1>1, <1>2 DEF RuntimeSound
<1>4. ASSUME watch
      PROVE  Covered(broker, job, p)
  <2>1. orch.desired = None
        BY <1>1 DEF Stored, Fresh
  <2>2. ~Armable(broker, job)
        BY <1>4, <2>1 DEF StrictKnown, Knows, Watched, Disabled
  <2>3. QED  BY <2>2 DEF Covered
<1>5. /\ n \in Work /\ n.at = "broker" /\ n.what = Command("Prepare", p, 0) /\ ~n.stale
      /\ n.then = "done"
      BY PrepareWork
<1>6. Knows(watch, store, runtime, orch, job, broker)
      BY DEF StrictKnown
<1> HIDE DEF n
<1>7. Renews(watch, runtime, orch, job, broker, p, runtime', n)
      BY <1>1, <1>3, <1>4, <1>5 DEF Renews
<1>8. Knows(watch, store', runtime', orch', job', broker)
      BY <1>2, <1>6, <1>7, FreshFields, BeginStep
<1>9. BudgetSound(strictBudget')
      BY BudgetKept DEF StrictKnown, UiApply
<1>10. QED  BY <1>2, <1>8, <1>9 DEF StrictKnown, UiApply, States

LEMMA AllowedFacts ==
  ASSUME NEW watch \in BOOLEAN, StrictKnown(watch), MutationAllowed
  PROVE  /\ job \in [Tasks -> Work] /\ job["mutation"] = NoJob
         /\ runtime.present /\ runtime.policy \in Policies /\ store.policy = runtime.policy
         /\ runtime.orchLock \in {None, "mutation"} /\ RuntimeSound(runtime)
         /\ OrchSound(orch) /\ orch \in Fields /\ ~Winding(orch)
         /\ orch.phase \in {"Active", "Blocked"} /\ BudgetSound(strictBudget')
<1>1. "mutation" \in Tasks
      BY DEF Tasks
<1>2. /\ job \in [Tasks -> Work] /\ JobSound(job["mutation"]) /\ job["mutation"].at = "idle"
      /\ runtime.present /\ RuntimeSound(runtime) /\ OrchSound(orch)
      /\ Stored(store, runtime, orch) /\ runtime.orchLock \in {None, "mutation"}
      /\ orch.phase \in {"Active", "Blocked"} /\ BudgetSound(strictBudget)
      BY <1>1, TaskFacts DEF MutationAllowed, Idle, LockFree, CanReplaceOrDisable
<1>3. BudgetSound(strictBudget')
      BY <1>2, BudgetKept DEF MutationAllowed
<1>4. QED  BY <1>2, <1>3 DEF JobSound, Stored, OrchSound, Fields, Winding

LEMMA UiMigrateKeeps ==
  ASSUME NEW watch \in BOOLEAN, StrictKnown(watch), NEW q \in Policies, UiMigrate(q)
  PROVE  StrictKnown(watch)'
<1> DEFINE t == "mutation"
           n == [at |-> Prepare(q).to, what |-> Prepare(q).what, then |-> "rollback",
                 prev |-> runtime.policy, stale |-> FALSE]
<1>1. /\ t \in Tasks /\ job \in [Tasks -> Work] /\ job[t] = NoJob
      /\ runtime.present /\ runtime.policy \in Policies /\ store.policy = runtime.policy
      /\ runtime.orchLock \in {None, t} /\ RuntimeSound(runtime)
      /\ orch \in Fields /\ ~Winding(orch) /\ BudgetSound(strictBudget')
      BY AllowedFacts DEF UiMigrate, Tasks
<1>2. /\ store' = [store EXCEPT !.enabled = TRUE, !.policy = q] /\ orch' = Begin(orch, q)
      /\ runtime' = [runtime EXCEPT !.policy = q]
      /\ job' = [job EXCEPT ![t] = n] /\ published' = "Preparing"
      BY DEF UiMigrate, Start, Saved
<1>3. RuntimeSound(runtime') /\ runtime'.present /\ runtime'.policy = q
      BY <1>1, <1>2 DEF RuntimeSound
<1>4. ASSUME watch
      PROVE  Covered(broker, job, q)
  <2>1. Covered(broker, job, runtime.policy) /\ q # None
        BY <1>1, <1>4, NoneAssumption DEF StrictKnown, Knows, Watched
  <2>2. SUFFICES ASSUME Armable(broker, job) PROVE Revision[broker.record] <= Revision[q]
        BY <2>1 DEF Covered
  <2>3. broker.record \in Policies
        BY <2>2 DEF StrictKnown, Knows, BrokerSound, Armable
  <2>4. PICK k \in Nat : k = Revision[broker.record]
        BY <2>3, RevisionAssumption
  <2>5. PICK m \in Nat : m = Revision[q]
        BY RevisionAssumption
  <2>6. PICK l \in Nat : l = Revision[runtime.policy]
        BY <1>1, RevisionAssumption
  <2>7. k <= l /\ m > l
        BY <2>1, <2>2, <2>4, <2>5, <2>6 DEF Covered, UiMigrate
  <2>8. k <= m
        BY <2>7
  <2>9. QED  BY <2>4, <2>5, <2>8
<1>5. /\ n \in Work /\ n.at = "broker" /\ n.what = Command("Prepare", q, 0) /\ ~n.stale
      /\ n.then = "rollback" /\ n.prev \in Policies
      BY <1>1, PrepareWork
<1>6. Knows(watch, store, runtime, orch, job, broker) /\ job[t].at # "waiting"
      BY <1>1 DEF StrictKnown, NoJob
<1> HIDE DEF n
<1>7. Renews(watch, runtime, orch, job, broker, q, runtime', n)
      BY <1>1, <1>3, <1>4, <1>5, <1>6 DEF Renews
<1>8. Knows(watch, store', runtime', orch', job', broker)
      BY <1>1, <1>2, <1>6, <1>7, BeginStep
<1>9. QED  BY <1>1, <1>2, <1>8 DEF StrictKnown, UiMigrate, States

LEMMA UiClearKeeps ==
  ASSUME NEW watch \in BOOLEAN, StrictKnown(watch), UiClear
  PROVE  StrictKnown(watch)'
<1> DEFINE t == "mutation"
           d == Disable(orch, runtime.policy)
           n == [at |-> d.do.to, what |-> d.do.what, then |-> "done", prev |-> None,
                 stale |-> FALSE]
<1>1. /\ t \in Tasks /\ job \in [Tasks -> Work] /\ job[t] = NoJob
      /\ runtime.present /\ runtime.policy \in Policies /\ store.policy = runtime.policy
      /\ runtime.orchLock \in {None, t} /\ RuntimeSound(runtime)
      /\ OrchSound(orch) /\ orch \in Fields /\ ~Winding(orch) /\ BudgetSound(strictBudget')
      BY AllowedFacts DEF UiClear, Tasks
<1>2. /\ store' = [store EXCEPT !.enabled = FALSE] /\ orch' = d.orch /\ UNCHANGED runtime
      /\ job' = [job EXCEPT ![t] = n] /\ published' = "Preparing"
      BY DEF UiClear, Start
<1>3. /\ d.orch \in Fields /\ d.orch.desired = orch.desired /\ d.orch.phase = "AwaitDisable"
      /\ d.orch.state = "Blocking"
      /\ d.do = [to |-> "broker", what |-> Command("Disable", runtime.policy, 0)]
      BY <1>1 DEF Disable, Result, ToBroker, Fields, Phases, States
<1> HIDE DEF d
<1>4. OrchSound(orch') /\ Winding(orch') /\ IngressKnown(orch', broker.watermark)
      /\ orch'.desired = orch.desired /\ orch'.desired # None /\ orch'.state = "Blocking"
      /\ orch'.phase = "AwaitDisable"
      BY <1>1, <1>2, <1>3 DEF OrchSound, Winding, IngressKnown, Fields
<1>5. StoreSound(store') /\ store'.policy = store.policy /\ Stored(store', runtime', orch')
  <2>1. StoreSound(store) /\ Stored(store, runtime, orch)
        BY DEF StrictKnown, Knows
  <2>2. QED  BY <1>1, <1>2, <1>4, <2>1 DEF StoreSound, Stored
<1>6. JobSound(n) /\ JobKnows(t, n, orch', runtime') /\ (\A p : ~Commits(n, p))
      /\ n.at = "broker" /\ Asks(n)
  <2>1. CommandSound(Command("Disable", runtime.policy, 0))
        /\ Command("Disable", runtime.policy, 0).op = "Disable"
        BY <1>1 DEF CommandSound, Command, Commands, Ops
  <2>2. n \in Work /\ n.at = "broker" /\ n.what = Command("Disable", runtime.policy, 0)
        BY <1>3, <2>1 DEF Work, Points, Ends, CommandSound
  <2>3. QED  BY <1>1, <1>2, <1>4, <2>1, <2>2 DEF JobSound, JobKnows, Ending, Asks, Asked, Commits
<1>7. watch => Covered(broker, job, store'.policy)
      BY <1>5 DEF StrictKnown, Knows, Watched
<1>8. \A u \in Tasks : ~Freed(job[u])
      BY <1>1 DEF StrictKnown, Knows, JobKnows, Freed, Asks
<1>9. job[t].at # "waiting" /\ orch.state # "Disabled"
      BY <1>1 DEF NoJob, OrchSound, Winding
<1> HIDE DEF n
<1>10. Steers(watch, t, store, runtime, orch, job, broker, n, store', runtime', orch')
       BY <1>1, <1>2, <1>4, <1>5, <1>6, <1>7, <1>8, <1>9 DEF Steers
<1>11. Knows(watch, store', runtime', orch', job', broker)
  <2>1. PICK s2, r2, o2, jobs2 : s2 = store' /\ r2 = runtime' /\ o2 = orch' /\ jobs2 = job'
        OBVIOUS
  <2>2. Steers(watch, t, store, runtime, orch, job, broker, n, s2, r2, o2)
        BY <1>10, <2>1
  <2>3. Knows(watch, store, runtime, orch, job, broker) /\ jobs2 = [job EXCEPT ![t] = n]
        BY <1>2, <2>1 DEF StrictKnown
  <2>4. Knows(watch, s2, r2, o2, jobs2, broker)
        BY <1>1, <2>2, <2>3, SteerStep
  <2>5. QED  BY <2>1, <2>4
<1>12. QED  BY <1>1, <1>2, <1>11 DEF StrictKnown, UiClear, States

LEMMA StaleAnswerKeeps ==
  ASSUME NEW watch \in BOOLEAN, StrictKnown(watch), NEW t \in Tasks,
         job[t].at = "answered", StaleAnswer(t)
  PROVE  Knows(watch, store', runtime', orch', job', broker)
<1> DEFINE n == [job[t] EXCEPT !.at = "failed", !.what = None]
<1>1. /\ job \in [Tasks -> Work] /\ job[t] \in Work /\ RuntimeSound(runtime)
      /\ JobKnows(t, job[t], orch, runtime)
      BY TaskFacts
<1>2. job[t].then \in {"done", "restore"} /\ ~Ending(job[t]) /\ ~Asks(job[t])
      BY <1>1 DEF StaleAnswer, JobKnows, Work, Ends, Ending, Asks
<1>3. job' = [job EXCEPT ![t] = n]
      BY <1>1, DriveMoves, FailedIs DEF StaleAnswer
<1>4. n \in Work /\ n.at = "failed" /\ n.then \in {"done", "restore"}
      BY <1>1, <1>2 DEF Work, Points
<1> HIDE DEF n
<1>5. JobSound(n) /\ JobKnows(t, n, orch, runtime) /\ (\A p : ~Commits(n, p))
      BY <1>4, FailureKnows
<1>6. Knows(watch, store, runtime, orch, job, broker)
      BY DEF StrictKnown
<1>7. Knows(watch, store, runtime, orch, job', broker)
      BY <1>1, <1>2, <1>3, <1>4, <1>5, <1>6, QuietJob
<1>8. QED  BY <1>7 DEF StaleAnswer

LEMMA RollbackAnswerKeeps ==
  ASSUME NEW watch \in BOOLEAN, StrictKnown(watch), NEW t \in Tasks,
         job[t].at = "answered", RollbackAnswer(t)
  PROVE  Knows(watch, store', runtime', orch', job', broker) /\ BudgetSound(strictBudget')
<1> DEFINE prev == job[t].prev
           kept == job[t].what # Error /\ job[t].what.policy = prev
<1>1. /\ job \in [Tasks -> Work] /\ job[t] \in Work /\ RuntimeSound(runtime)
      /\ JobKnows(t, job[t], orch, runtime) /\ job[t].then = "status"
      BY TaskFacts DEF RollbackAnswer
<1>2. /\ t = "mutation" /\ ~job[t].stale /\ ~Winding(orch) /\ prev \in Policies
      /\ runtime.present /\ runtime.orchLock = "mutation" /\ ~Ending(job[t]) /\ ~Asks(job[t])
      BY <1>1 DEF JobKnows, Ending, Asks, Asked
<1>3. Knows(watch, store, runtime, orch, job, broker)
      BY DEF StrictKnown
<1>4. CASE kept /\ Restored(t, prev) /\ UNCHANGED strictBudget
  <2> DEFINE n == [at |-> Prepare(prev).to, what |-> Prepare(prev).what, then |-> "done",
                   prev |-> None, stale |-> FALSE]
  <2>1. /\ store' = [store EXCEPT !.enabled = TRUE, !.policy = prev]
        /\ orch' = Begin(Fresh, prev)
        /\ runtime' = [Unlocked EXCEPT !.policy = prev] /\ job' = [job EXCEPT !["mutation"] = n]
        BY <1>2, <1>4 DEF Restored, Start, Saved
  <2>2. RuntimeSound(runtime') /\ runtime'.present /\ runtime'.policy = prev
        BY <1>1, <1>2, <2>1 DEF RuntimeSound, Unlocked
  <2>3. ASSUME watch
        PROVE  Covered(broker, job, prev)
    <3>1. OldIsBack(job["mutation"])
          BY <1>1, <1>2, <1>4 DEF OldIsBack
    <3>2. QED  BY <1>2, <1>3, <2>3, <3>1 DEF Knows, Watched
  <2>4. /\ n \in Work /\ n.at = "broker" /\ n.what = Command("Prepare", prev, 0) /\ ~n.stale
        /\ n.then = "done"
        BY <1>2, PrepareWork
  <2> HIDE DEF n, prev
  <2>5. Renews(watch, runtime, orch, job, broker, prev, runtime', n)
        BY <1>2, <2>2, <2>3, <2>4 DEF Renews
  <2>6. Knows(watch, store', runtime', orch', job', broker)
        BY <1>2, <1>3, <2>1, <2>5, FreshFields, BeginStep
  <2>7. QED  BY <1>4, <2>6 DEF StrictKnown
<1>5. CASE /\ IF kept THEN StrictFault ELSE UNCHANGED strictBudget
           /\ runtime' = Unlocked
           /\ job' = [job EXCEPT ![t] = NoJob]
           /\ UNCHANGED <<store, orch>>
  <2>1. /\ RuntimeSound(runtime') /\ runtime'.present = runtime.present
        /\ runtime'.policy = runtime.policy
        BY <1>1, <1>5 DEF RuntimeSound, Unlocked
  <2>2. JobSound(NoJob) /\ JobKnows(t, NoJob, orch, runtime') /\ (\A p : ~Commits(NoJob, p))
        /\ NoJob.at \notin {"waiting", "answered"}
        BY IdleKnows DEF NoJob
  <2>3. Knows(watch, store, runtime', orch, job', broker)
        BY <1>2, <1>3, <1>5, <2>1, <2>2, QuietJob
  <2>4. BudgetSound(strictBudget')
        BY <1>5, BudgetKept DEF StrictKnown
  <2>5. QED  BY <1>5, <2>3, <2>4
<1>6. QED  BY <1>4, <1>5 DEF RollbackAnswer

LEMMA HandleAnswerKeeps ==
  ASSUME NEW watch \in BOOLEAN, StrictKnown(watch), NEW t \in Tasks, HandleAnswer(t)
  PROVE  StrictKnown(watch)'
<1>1. Knows(watch, store', runtime', orch', job', broker) /\ BudgetSound(strictBudget')
  <2>1. CASE DriveAnswer(t) /\ UNCHANGED strictBudget
        BY <2>1, DriveAnswerKeeps DEF HandleAnswer, StrictKnown
  <2>2. CASE StaleAnswer(t) /\ UNCHANGED strictBudget
        BY <2>2, StaleAnswerKeeps DEF HandleAnswer, StrictKnown
  <2>3. CASE HealthAnswer(t) /\ UNCHANGED strictBudget
        BY <2>3, HealthAnswerKeeps DEF HandleAnswer, StrictKnown
  <2>4. CASE RollbackAnswer(t)
        BY <2>4, RollbackAnswerKeeps DEF HandleAnswer
  <2>5. QED  BY <2>1, <2>2, <2>3, <2>4 DEF HandleAnswer
<1>2. QED  BY <1>1 DEF HandleAnswer, StrictKnown

-----------------------------------------------------------------------------
(* The end of a runtime: other tasks keep what they were doing with it.    *)

LEMMA NoAttempts == 0 \in 0 .. MaxAttempts
BY AttemptsAssumption

LEMMA NoRuntimeSound ==
  RuntimeSound(NoRuntime)
<1>1. NoSession \in [BOOLEAN -> Sessions]
      BY DEF NoSession, Sessions
<1>2. QED  BY <1>1, NoAttempts DEF NoRuntime, RuntimeSound

LEMMA EndKeeps ==
  ASSUME NEW watch \in BOOLEAN, StrictKnown(watch), NEW t \in Tasks, Ending(job[t]),
         runtime' = Ended, orch' = Fresh, job' = Orphaned(t)
  PROVE  Knows(watch, store, runtime', orch', job', broker)
<1>1. /\ job \in [Tasks -> Work] /\ RuntimeSound(runtime)
      /\ \A u \in Tasks : JobSound(job[u]) /\ JobKnows(u, job[u], orch, runtime)
      /\ StoreSound(store) /\ BrokerSound(broker) /\ QueueKnows(broker.queue, job)
      /\ RecordedOnce(broker, orch, job) /\ OrchSound(orch)
      /\ watch => Watched(broker, orch, store, job)
      BY DEF StrictKnown, Knows, JobsSound
<1>2. orch.state = "Disabled" /\ orch.desired = None /\ job[t].at = "publish"
      BY <1>1 DEF JobKnows, OrchSound, Ending
<1>3. \A u \in Tasks : job[u].then \notin {"rollback", "status", "health"}
      BY <1>1, <1>2 DEF JobKnows, Winding
<1>4. \A u \in Tasks : /\ u # t /\ job[u].at # "idle" => job'[u] = [job[u] EXCEPT !.stale = TRUE]
                       /\ u = t \/ job[u].at = "idle" => job'[u] = NoJob
      BY DEF Orphaned, Idle
<1>5. ASSUME NEW u \in Tasks
      PROVE  /\ job'[u] \in Work /\ JobSound(job'[u])
             /\ job'[u].then \notin {"rollback", "status", "health"}
             /\ \/ job'[u] = NoJob
                \/ job'[u].stale /\ job'[u].at = job[u].at /\ job'[u].what = job[u].what
  <2>1. CASE u # t /\ job[u].at # "idle"
    <3>1. PICK j \in Work : j = job[u] /\ JobSound(j)
          BY <1>1
    <3>2. job'[u] = [j EXCEPT !.stale = TRUE]
          BY <1>4, <2>1, <3>1
    <3>3. QED  BY <1>3, <2>1, <3>1, <3>2 DEF JobSound, Work
  <2>2. CASE u = t \/ job[u].at = "idle"
    <3>1. JobSound(NoJob) /\ NoJob \in Work
          BY IdleKnows DEF JobSound
    <3>2. NoJob.then = "done"
          BY DEF NoJob
    <3>3. QED  BY <1>4, <2>2, <3>1, <3>2
  <2>3. QED  BY <2>1, <2>2
<1>6. NoJob.at = "idle"
      BY DEF NoJob
<1>7. JobsSound(job')
  <2>1. job' \in [Tasks -> Work]
        BY <1>5 DEF Orphaned
  <2>2. QED  BY <1>5, <2>1 DEF JobsSound
<1>8. QueueKnows(broker.queue, job')
  <2>1. ASSUME NEW i \in 1 .. Len(broker.queue), broker.queue[i].client # None
        PROVE  /\ job'[broker.queue[i].client].at = "waiting"
               /\ job'[broker.queue[i].client].what = broker.queue[i].cmd
    <3>1. broker.queue[i].client \in Tasks
      <4>1. broker.queue[i] \in [cmd : Commands, client : Tasks \cup {None}]
            BY <1>1, ElementOfSeq DEF BrokerSound, Queues
      <4>2. QED  BY <2>1, <4>1
    <3>2. PICK u \in Tasks : u = broker.queue[i].client
          BY <3>1
    <3>3. job[u].at = "waiting" /\ job[u].what = broker.queue[i].cmd
          BY <1>1, <2>1, <3>2 DEF QueueKnows
    <3>4. job'[u] = [job[u] EXCEPT !.stale = TRUE]
          BY <1>2, <1>4, <3>3
    <3>5. QED  BY <1>1, <3>2, <3>3, <3>4 DEF Work
  <2>2. QED  BY <1>1, <2>1 DEF QueueKnows
<1>9. ASSUME NEW u \in Tasks
      PROVE  JobKnows(u, job'[u], orch', runtime')
  <2>1. CASE job'[u] = NoJob
        BY <2>1, IdleKnows
  <2>2. CASE job'[u].stale
        BY <1>5, <2>2 DEF JobKnows, Ending
  <2>3. QED  BY <1>5, <2>1, <2>2
<1>10. ~runtime'.present /\ RuntimeSound(runtime')
  <2>1. [NoSession EXCEPT ![TRUE] = runtime.held[FALSE]] \in [BOOLEAN -> Sessions]
        BY <1>1 DEF RuntimeSound, NoSession, Sessions
  <2>2. RuntimeSound(NoRuntime) /\ ~NoRuntime.present
        BY NoRuntimeSound DEF NoRuntime
  <2>3. QED  BY <2>1, <2>2 DEF Ended, RuntimeSound
<1>11. /\ OrchSound(orch') /\ orch'.state = "Disabled" /\ orch'.phase = "Idle"
       /\ orch'.desired = None
       BY FreshFields DEF OrchSound, Fresh, Fields
<1>12. Attended(orch', runtime', job') /\ Stored(store, runtime', orch')
       BY <1>10, <1>11 DEF Attended, Stored
<1>13. ASSUME NEW p
       PROVE  CommitAhead(p, broker.queue, job') => CommitAhead(p, broker.queue, job)
       BY <1>5, <1>6 DEF CommitAhead, Commits
<1>14. RecordedOnce(broker, orch', job')
  <2>1. ASSUME NEW u \in Tasks, job'[u].at = "answered", job'[u].what.policy # None
        PROVE  Revision[job'[u].what.policy] <= broker.watermark
        BY <1>1, <1>5, <1>6, <2>1 DEF RecordedOnce
  <2>2. QED  BY <1>1, <1>11, <1>13, <2>1 DEF RecordedOnce
<1>15. watch => ~Armable(broker, job')
       BY <1>1, <1>2, <1>13 DEF Watched, Disabled, Armable
<1>16. watch => Watched(broker, orch', store, job')
       BY <1>15 DEF Watched, Covered
<1>17. QED  BY <1>1, <1>7, <1>8, <1>9, <1>10, <1>11, <1>12, <1>14, <1>16 DEF Knows

LEMMA PublishKeeps ==
  ASSUME NEW watch \in BOOLEAN, StrictKnown(watch), NEW t \in Tasks, Publish(t)
  PROVE  StrictKnown(watch)'
<1>1. /\ job \in [Tasks -> Work] /\ job[t].at = "publish" /\ RuntimeSound(runtime)
      /\ JobSound(job[t]) /\ published' = job[t].what.state /\ published' \in States
      BY TaskFacts DEF Publish, JobSound
<1>2. Knows(watch, store, runtime, orch, job, broker)
      BY DEF StrictKnown
<1>3. CASE Ending(job[t])
  <2>1. runtime' = Ended /\ orch' = Fresh /\ job' = Orphaned(t)
        BY <1>3 DEF Publish, Ending
  <2>2. Knows(watch, store, runtime', orch', job', broker)
        BY <1>3, <2>1, EndKeeps
  <2>3. QED  BY <1>1, <2>2 DEF StrictKnown, Publish
<1>4. CASE ~Ending(job[t])
  <2>1. /\ runtime' = IF job[t].what.state = "Armed" /\ ~job[t].stale
                        THEN [runtime EXCEPT !.attempts = 0, !.scheduled = FALSE] ELSE runtime
        /\ job' = [job EXCEPT ![t] = NoJob] /\ UNCHANGED orch
        BY <1>1, <1>4 DEF Publish, Ending
  <2>2. /\ RuntimeSound(runtime') /\ runtime'.present = runtime.present
        /\ runtime'.policy = runtime.policy /\ runtime'.orchLock = runtime.orchLock
        BY <1>1, <2>1, NoAttempts DEF RuntimeSound
  <2>3. JobSound(NoJob) /\ JobKnows(t, NoJob, orch, runtime') /\ (\A p : ~Commits(NoJob, p))
        /\ NoJob.at \notin {"waiting", "answered"}
        BY IdleKnows DEF NoJob
  <2>4. ~Asks(job[t]) /\ job[t].at # "waiting"
        BY <1>1 DEF Asks, Asked
  <2>5. Knows(watch, store, runtime', orch, job', broker)
        BY <1>2, <1>4, <2>1, <2>2, <2>3, <2>4, QuietJob
  <2>6. QED  BY <1>1, <2>1, <2>5 DEF StrictKnown, Publish
<1>5. QED  BY <1>3, <1>4

-----------------------------------------------------------------------------
(* The Broker's side, while the controller and the intent stay.            *)

\* A task's request goes on its way or is answered from the state b.
Served(j, n, b) ==
  /\ j.at \in {"broker", "waiting"} /\ n.at \in {"waiting", "answered"}
  /\ n.then = j.then /\ n.prev = j.prev /\ n.stale = j.stale
  /\ n.at = "waiting" => n.what = j.what \/ (j.what.op = "Disable" /\ n.what.op = "Confirm")
  /\ n.at = "answered" =>
       \/ n.what = Error
       \/ n.what.policy = b.record
            /\ (b.record = None => j.what.op \in {"Disable", "Confirm", "Status"})

\* Nothing is armed, or asked to be, that was not before.
Serves(jobs, b, jobs2, b2) ==
  /\ JobsSound(jobs2) /\ BrokerSound(b2) /\ QueueKnows(b2.queue, jobs2)
  /\ b.watermark <= b2.watermark
  /\ \A t \in Tasks : jobs2[t] = jobs[t] \/ Served(jobs[t], jobs2[t], b2)
  /\ \A p : CommitAhead(p, b2.queue, jobs2) => CommitAhead(p, b.queue, jobs)
  /\ b2.record \notin {None, b.record} => b2.mode # "armed" /\ b.watermark < Revision[b2.record]
  /\ b2.record = b.record /\ b2.mode = "armed" => Armable(b, jobs)

LEMMA ServesQuietly ==
  ASSUME NEW o, NEW jobs, NEW b, BrokerSound(b), RecordedOnce(b, o, jobs),
         NEW jobs2, NEW b2, Serves(jobs, b, jobs2, b2), Armable(b2, jobs2)
  PROVE  b2.record = b.record /\ Armable(b, jobs)
<1>1. PICK w \in Nat : w = b.watermark
      BY DEF BrokerSound
<1>2. b2.record \in Policies
      BY DEF Armable, Serves, BrokerSound
<1>3. CASE b2.record # b.record
  <2>1. b2.mode # "armed" /\ b.watermark < Revision[b2.record] /\ b2.record # None
        BY <1>3 DEF Serves, Armable
  <2>2. CommitAhead(b2.record, b.queue, jobs)
        BY <2>1 DEF Serves, Armable
  <2>3. Revision[b2.record] <= b.watermark
        BY <1>2, <2>2 DEF RecordedOnce
  <2>4. PICK k \in Nat : k = Revision[b2.record]
        BY <1>2, RevisionAssumption
  <2>5. QED  BY <1>1, <2>1, <2>3, <2>4
<1>4. CASE b2.record = b.record
      BY <1>4 DEF Serves, Armable
<1>5. QED  BY <1>3, <1>4

LEMMA ServeStep ==
  ASSUME NEW watch \in BOOLEAN, NEW s, NEW r, NEW o, NEW jobs, NEW b,
         Knows(watch, s, r, o, jobs, b),
         NEW r2, RuntimeSound(r2),
         r2.present = r.present, r2.policy = r.policy, r2.orchLock = r.orchLock,
         NEW jobs2, NEW b2, Serves(jobs, b, jobs2, b2)
  PROVE  Knows(watch, s, r2, o, jobs2, b2)
<1>1. /\ \A t \in Tasks : JobSound(jobs[t]) /\ JobKnows(t, jobs[t], o, r)
      /\ BrokerSound(b) /\ BrokerSound(b2)
      /\ RecordedOnce(b, o, jobs) /\ Attended(o, r, jobs)
      BY DEF Knows, JobsSound, Serves
<1>2. \A t \in Tasks : jobs2[t] = jobs[t] \/ Served(jobs[t], jobs2[t], b2)
      BY DEF Serves
<1>3. PICK w \in Nat : w = b.watermark
      BY <1>1 DEF BrokerSound
<1>4. PICK w2 \in Nat : w2 = b2.watermark
      BY <1>1 DEF BrokerSound
<1>5. w <= w2
      BY <1>3, <1>4 DEF Serves
<1>6. /\ Error.policy = None /\ Error # Proof(None, "none")
      /\ Proof(None, "none").policy = None
      BY DEF Error, Proof
<1>7. ASSUME NEW t \in Tasks
      PROVE  JobKnows(t, jobs2[t], o, r2)
  <2>1. CASE jobs2[t] = jobs[t]
        BY <1>1, <2>1 DEF JobKnows
  <2>2. CASE Served(jobs[t], jobs2[t], b2)
    <3>1. PICK j, n : j = jobs[t] /\ n = jobs2[t] /\ JobSound(j) /\ JobKnows(t, j, o, r)
          BY <1>1
    <3>2. /\ j.at \in {"broker", "waiting"} /\ n.at \in {"waiting", "answered"}
          /\ n.then = j.then /\ n.prev = j.prev /\ n.stale = j.stale
          BY <2>2, <3>1 DEF Served
    <3>3. ~n.stale /\ n.at = "waiting" /\ n.what.op \in {"Disable", "Confirm"} => Winding(o)
          BY <2>2, <3>1, <3>2 DEF Served, JobKnows
    <3>4. ~n.stale /\ n.at = "answered" /\ n.then \notin {"health", "status"}
            /\ n.what = Proof(None, "none") => Winding(o)
      <4>1. SUFFICES ASSUME ~n.stale, n.at = "answered", n.then \notin {"health", "status"},
                            n.what = Proof(None, "none")
                     PROVE  Winding(o)
            OBVIOUS
      <4>2. j.what.op \in {"Disable", "Confirm", "Status"}
            BY <2>2, <3>1, <4>1, <1>6 DEF Served
      <4>3. j.what.op # "Status"
            BY <3>1, <3>2, <4>1 DEF JobSound
      <4>4. QED  BY <3>1, <3>2, <4>1, <4>2, <4>3 DEF JobKnows
    <3>5. JobKnows(t, n, o, r2)
          BY <3>1, <3>2, <3>3, <3>4 DEF JobKnows, Ending, Asked
    <3>6. QED  BY <3>1, <3>5
  <2>3. QED  BY <1>2, <2>1, <2>2
<1>8. Attended(o, r2, jobs2)
  <2>1. Ending(jobs["core"]) => Ending(jobs2["core"])
        BY <1>2 DEF Served, Ending, Tasks
  <2>2. ASSUME NEW t \in Tasks, Asks(jobs[t])
        PROVE  Asks(jobs2[t])
        BY <1>2, <2>2 DEF Served, Asks, Asked
  <2>3. QED  BY <1>1, <2>1, <2>2 DEF Attended
<1>9. RecordedOnce(b2, o, jobs2)
  <2>1. ASSUME NEW p \in Policies, Revision[p] <= b.watermark
        PROVE  Revision[p] <= b2.watermark
    <3>1. PICK k \in Nat : k = Revision[p]
          BY RevisionAssumption
    <3>2. k <= w2
          BY <1>3, <1>5, <2>1, <3>1
    <3>3. QED  BY <1>4, <3>1, <3>2
  <2>2. ASSUME NEW p \in Policies, CommitAhead(p, b2.queue, jobs2)
        PROVE  Revision[p] <= b2.watermark
        BY <1>1, <2>1, <2>2 DEF Serves, RecordedOnce
  <2>3. ASSUME NEW t \in Tasks, jobs2[t].at = "answered", jobs2[t].what.policy # None
        PROVE  Revision[jobs2[t].what.policy] <= b2.watermark
    <3>1. JobSound(jobs2[t]) /\ jobs2[t].what \in Answers
          BY <2>3 DEF Serves, JobsSound, JobSound
    <3>2. jobs2[t].what.policy \in Policies
          BY <2>3, <3>1 DEF Answers
    <3>3. CASE jobs2[t] = jobs[t]
          BY <1>1, <2>1, <2>3, <3>2, <3>3 DEF RecordedOnce
    <3>4. CASE Served(jobs[t], jobs2[t], b2)
      <4>1. jobs2[t].what.policy = b2.record /\ b2.watermark = Revision[b2.record]
            BY <1>1, <1>6, <2>3, <3>4 DEF Served, BrokerSound
      <4>2. QED  BY <4>1, <1>4
    <3>5. QED  BY <1>2, <3>3, <3>4
  <2>4. o.phase = "AwaitIngress" => o.desired # None /\ Revision[o.desired] <= b2.watermark
        BY <1>1, <2>1 DEF RecordedOnce, Knows, OrchSound
  <2>5. QED  BY <2>2, <2>3, <2>4 DEF RecordedOnce
<1>10. Armable(b2, jobs2) => b2.record = b.record /\ Armable(b, jobs)
       BY <1>1, ServesQuietly
<1>11. ASSUME watch
       PROVE  Watched(b2, o, s, jobs2)
  <2>0. Watched(b, o, s, jobs)
        BY <1>11 DEF Knows
  <2>1. Covered(b2, jobs2, s.policy)
        BY <2>0, <1>10 DEF Watched, Covered
  <2>2. ASSUME OldIsBack(jobs2["mutation"])
        PROVE  Covered(b2, jobs2, jobs2["mutation"].prev)
    <3>1. CASE jobs2["mutation"] = jobs["mutation"]
          BY <2>0, <1>10, <2>2, <3>1 DEF Watched, Covered
    <3>2. CASE Served(jobs["mutation"], jobs2["mutation"], b2)
      <4>1. jobs2["mutation"].prev \in Policies
            BY <1>7, <2>2 DEF JobKnows, OldIsBack, Tasks
      <4>2. jobs2["mutation"].what.policy = b2.record
            BY <1>6, <2>2, <3>2, <4>1, NoneAssumption DEF Served, OldIsBack
      <4>3. PICK k \in Nat : k = Revision[jobs2["mutation"].prev]
            BY <4>1, RevisionAssumption
      <4>4. b2.record = jobs2["mutation"].prev
            BY <2>2, <4>2 DEF OldIsBack
      <4>5. Revision[b2.record] <= Revision[jobs2["mutation"].prev]
            BY <4>3, <4>4
      <4>6. QED  BY <4>1, <4>5, NoneAssumption DEF Covered
    <3>3. QED  BY <1>2, <3>1, <3>2 DEF Tasks
  <2>3. ASSUME Disabled(o, jobs2)
        PROVE  ~Armable(b2, jobs2)
    <3>1. CASE Disabled(o, jobs)
          BY <2>0, <1>10, <3>1 DEF Watched
    <3>2. CASE ~Disabled(o, jobs)
      <4>1. PICK t \in Tasks : Freed(jobs2[t]) /\ ~Freed(jobs[t])
            BY <2>3, <3>2 DEF Disabled
      <4>2. Served(jobs[t], jobs2[t], b2)
            BY <1>2, <4>1
      <4>3. b2.record = None
            BY <1>6, <4>1, <4>2 DEF Served, Freed
      <4>4. QED  BY <4>3 DEF Armable
    <3>3. QED  BY <3>1, <3>2
  <2>4. QED  BY <2>1, <2>2, <2>3 DEF Watched
<1>12. StoreSound(s) /\ OrchSound(o) /\ Stored(s, r2, o)
       BY DEF Knows, Stored
<1>13. QED  BY <1>7, <1>8, <1>9, <1>11, <1>12 DEF Knows, Serves

LEMMA BlockedSound ==
  ASSUME NEW b, BrokerSound(b)
  PROVE  /\ BrokerSound(Blocked(b)) /\ Blocked(b).record = b.record
         /\ Blocked(b).watermark = b.watermark /\ Blocked(b).queue = b.queue
         /\ Blocked(b).session = b.session /\ Blocked(b).mode \in {"none", "blocking"}
BY DEF BrokerSound, Blocked

\* The queue and the tasks stay.
LEMMA ModeServes ==
  ASSUME NEW watch \in BOOLEAN, NEW s, NEW r, NEW o, NEW jobs, NEW b,
         Knows(watch, s, r, o, jobs, b),
         NEW b2, BrokerSound(b2), b2.queue = b.queue, b2.record = b.record,
         b2.watermark = b.watermark, b2.mode = "armed" => b.mode = "armed"
  PROVE  Serves(jobs, b, jobs, b2)
<1>1. PICK w \in Nat : w = b.watermark
      BY DEF Knows, BrokerSound
<1>2. b2.watermark = w /\ w <= w
      BY <1>1
<1>3. QueueKnows(b2.queue, jobs) /\ JobsSound(jobs)
      BY DEF Knows
<1>4. b2.mode = "armed" => Armable(b, jobs)
      BY DEF Armable, BrokerSound
<1>5. QED  BY <1>1, <1>2, <1>3, <1>4 DEF Serves

LEMMA ReapKeeps ==
  ASSUME NEW watch \in BOOLEAN, StrictKnown(watch), ReapSession \/ BrokerFailsClosed
  PROVE  StrictKnown(watch)' /\ Serves(job, broker, job', broker')
<1>1. BrokerSound(broker) /\ Knows(watch, store, runtime, orch, job, broker) /\ RuntimeSound(runtime)
      BY DEF StrictKnown, Knows
<1>2. /\ BrokerSound(broker') /\ broker'.queue = broker.queue /\ broker'.record = broker.record
      /\ broker'.watermark = broker.watermark /\ broker'.mode # "armed"
  <2>1. CASE ReapSession
    <3>1. broker' = [Blocked(broker) EXCEPT !.session = "none"]
          BY <2>1 DEF ReapSession
    <3>2. PICK b : b = Blocked(broker)
          OBVIOUS
    <3>3. QED  BY <1>1, <3>1, <3>2, BlockedSound DEF BrokerSound
  <2>2. CASE BrokerFailsClosed
        BY <1>1, <2>2, BlockedSound DEF BrokerFailsClosed
  <2>3. QED  BY <2>1, <2>2
<1>3. Serves(job, broker, job, broker')
      BY <1>1, <1>2, ModeServes
<1>4. Knows(watch, store, runtime, orch, job, broker')
      BY <1>1, <1>3, ServeStep
<1>5. BudgetSound(strictBudget')
      BY BudgetKept DEF StrictKnown, ReapSession, BrokerFailsClosed
<1>6. QED  BY <1>3, <1>4, <1>5 DEF StrictKnown, ReapSession, BrokerFailsClosed

LEMMA ForsakenQueue ==
  ASSUME NEW q \in Queues, NEW tasks \in SUBSET Tasks,
         NEW f, f = Forsaken(q, tasks)
  PROVE  /\ f \in Queues /\ Len(f) = Len(q)
         /\ \A i \in 1 .. Len(q) :
              /\ f[i].cmd = q[i].cmd
              /\ f[i].client = IF q[i].client \in tasks THEN None ELSE q[i].client
<1>1. PICK n \in Nat : n = Len(q) /\ DOMAIN q = 1 .. n
      BY LenProperties DEF Queues
<1>2. \A i \in 1 .. n : q[i] \in [cmd : Commands, client : Tasks \cup {None}]
      BY <1>1, ElementOfSeq DEF Queues
<1>3. f = [i \in 1 .. n |-> [q[i] EXCEPT !.client =
                               IF q[i].client \in tasks THEN None ELSE q[i].client]]
      BY <1>1 DEF Forsaken
<1>4. \A i \in 1 .. n :
        /\ f[i] \in [cmd : Commands, client : Tasks \cup {None}]
        /\ f[i].cmd = q[i].cmd
        /\ f[i].client = IF q[i].client \in tasks THEN None ELSE q[i].client
      BY <1>2, <1>3
<1>5. f \in [1 .. n -> [cmd : Commands, client : Tasks \cup {None}]]
      BY <1>3, <1>4
<1>6. f \in Queues /\ Len(f) = n
  <2> DEFINE S == [cmd : Commands, client : Tasks \cup {None}]
  <2>1. f \in [1 .. n -> S]
        BY <1>5
  <2> HIDE DEF S
  <2>2. f \in Seq(S)
        BY <2>1, SeqDef
  <2>3. PICK m \in Nat : m = Len(f) /\ DOMAIN f = 1 .. m
        BY <2>2, LenProperties
  <2>4. 1 .. m = 1 .. n
        BY <2>1, <2>3
  <2>5. m = n
        BY <2>4
  <2>6. QED  BY <2>2, <2>3, <2>5 DEF Queues, S
<1>7. QED  BY <1>1, <1>4, <1>6

\* The Broker goes on as b2 without a session: its queue has no client left.
Severed(b2) ==
  /\ BrokerSound(b2) /\ b2.record = broker.record /\ b2.watermark = broker.watermark
  /\ b2.mode = "armed" => broker.mode = "armed"
  /\ b2.queue = Forsaken(broker.queue, Tasks) \/ b2.queue = <<>>

LEMMA SeveredQueue ==
  ASSUME NEW watch \in BOOLEAN, StrictKnown(watch), NEW b2, Severed(b2)
  PROVE  /\ \A i \in 1 .. Len(b2.queue) :
              CommandSound(b2.queue[i].cmd) /\ b2.queue[i].client = None
         /\ \A i \in 1 .. Len(b2.queue) : \E k \in 1 .. Len(broker.queue) :
              b2.queue[i].cmd = broker.queue[k].cmd
<1>0. /\ BrokerSound(broker) /\ QueueKnows(broker.queue, job) /\ broker.queue \in Queues
      /\ b2.queue = Forsaken(broker.queue, Tasks) \/ b2.queue = <<>>
      BY DEF StrictKnown, Knows, BrokerSound, Severed
<1>1. CASE b2.queue = <<>>
  <2>1. Len(b2.queue) = 0
        BY <1>1, EmptySeq
  <2>2. QED  BY <2>1
<1>2. CASE b2.queue = Forsaken(broker.queue, Tasks)
  <2>1. PICK f : f = b2.queue /\ f = Forsaken(broker.queue, Tasks)
        BY <1>2
  <2>2. /\ Len(f) = Len(broker.queue)
        /\ \A i \in 1 .. Len(broker.queue) :
             /\ f[i].cmd = broker.queue[i].cmd
             /\ f[i].client =
                  IF broker.queue[i].client \in Tasks THEN None ELSE broker.queue[i].client
        BY <1>0, <2>1, ForsakenQueue
  <2>3. \A i \in 1 .. Len(broker.queue) :
          broker.queue[i].client \in Tasks \cup {None} /\ CommandSound(broker.queue[i].cmd)
    <3>1. ASSUME NEW i \in 1 .. Len(broker.queue)
          PROVE  broker.queue[i] \in [cmd : Commands, client : Tasks \cup {None}]
          BY <1>0, ElementOfSeq DEF Queues
    <3>2. QED  BY <1>0, <3>1 DEF QueueKnows
  <2>4. QED  BY <2>1, <2>2, <2>3
<1>3. QED  BY <1>0, <1>1, <1>2

\* Every task that waits is answered with an error.
LEMMA CutOffServes ==
  ASSUME NEW watch \in BOOLEAN, StrictKnown(watch), CutOff, NEW b2, Severed(b2)
  PROVE  /\ Serves(job, broker, job', b2) /\ RuntimeSound(runtime')
         /\ runtime'.present = runtime.present /\ runtime'.policy = runtime.policy
         /\ runtime'.orchLock = runtime.orchLock
<1>1. /\ job \in [Tasks -> Work] /\ (\A t \in Tasks : JobSound(job[t])) /\ RuntimeSound(runtime)
      /\ BrokerSound(broker) /\ QueueKnows(broker.queue, job) /\ broker.queue \in Queues
      BY DEF StrictKnown, Knows, JobsSound, BrokerSound
<1>0. /\ BrokerSound(b2) /\ b2.record = broker.record /\ b2.watermark = broker.watermark
      /\ b2.mode = "armed" => broker.mode = "armed"
      /\ b2.queue = Forsaken(broker.queue, Tasks) \/ b2.queue = <<>>
      BY DEF Severed
<1>2. /\ RuntimeSound(runtime') /\ runtime'.present = runtime.present
      /\ runtime'.policy = runtime.policy /\ runtime'.orchLock = runtime.orchLock
  <2> DEFINE held == [old \in BOOLEAN |->
          IF runtime.held[old] = "none"
             \/ \E t \in Waiting : job[t].stale = old /\ job[t].then # "status"
            THEN "none" ELSE "void"]
  <2>1. held \in [BOOLEAN -> Sessions]
        BY DEF Sessions
  <2>2. runtime' = [runtime EXCEPT !.held = held]
        BY DEF CutOff
  <2> HIDE DEF held
  <2>3. QED  BY <1>1, <2>1, <2>2 DEF RuntimeSound
<1>3. \A t \in Tasks :
        job'[t] = IF job[t].at = "waiting" THEN [job[t] EXCEPT !.at = "answered", !.what = Error]
                                           ELSE job[t]
      BY DEF CutOff, Waiting
<1>4. Error \in Answers
      BY DEF Error, Answers, Modes
<1>5. ASSUME NEW t \in Tasks
      PROVE  /\ JobSound(job'[t])
             /\ job'[t] = job[t] \/ Served(job[t], job'[t], b2)
             /\ \A p : Commits(job'[t], p) => Commits(job[t], p)
  <2>1. PICK j \in Work : j = job[t] /\ JobSound(j)
        BY <1>1
  <2>2. CASE j.at = "waiting"
    <3>1. job'[t] = [j EXCEPT !.at = "answered", !.what = Error]
          BY <1>3, <2>1, <2>2
    <3>2. JobSound(job'[t])
          BY <1>4, <2>1, <3>1 DEF JobSound, Work, Points
    <3>3. Served(j, job'[t], b2) /\ \A p : ~Commits(job'[t], p)
          BY <2>1, <2>2, <3>1 DEF Served, Commits, Work
    <3>4. QED  BY <2>1, <3>2, <3>3
  <2>3. CASE j.at # "waiting"
        BY <1>3, <2>1, <2>3
  <2>4. QED  BY <2>2, <2>3
<1>6. JobsSound(job')
  <2>1. job' \in [Tasks -> Work]
        BY <1>5 DEF CutOff, JobSound
  <2>2. QED  BY <1>5, <2>1 DEF JobsSound
<1>7. /\ \A i \in 1 .. Len(b2.queue) : CommandSound(b2.queue[i].cmd) /\ b2.queue[i].client = None
      /\ \A i \in 1 .. Len(b2.queue) : \E k \in 1 .. Len(broker.queue) :
           b2.queue[i].cmd = broker.queue[k].cmd
      BY SeveredQueue
<1>8. QueueKnows(b2.queue, job')
      BY <1>7 DEF QueueKnows
<1>9. ASSUME NEW p, CommitAhead(p, b2.queue, job')
      PROVE  CommitAhead(p, broker.queue, job)
      BY <1>5, <1>7, <1>9 DEF CommitAhead
<1>10. b2.mode = "armed" => Armable(broker, job)
       BY <1>0 DEF Armable, BrokerSound
<1>11. broker.watermark <= b2.watermark
  <2>1. PICK w \in Nat : w = broker.watermark
        BY <1>1 DEF BrokerSound
  <2>2. QED  BY <1>0, <2>1
<1>12. Serves(job, broker, job', b2)
       BY <1>0, <1>5, <1>6, <1>8, <1>9, <1>10, <1>11 DEF Serves
<1>13. QED  BY <1>2, <1>12

LEMMA CutOffKeeps ==
  ASSUME NEW watch \in BOOLEAN, StrictKnown(watch), SessionEnds \/ BrokerRestarts
  PROVE  StrictKnown(watch)' /\ Serves(job, broker, job', broker')
<1>1. BrokerSound(broker) /\ Knows(watch, store, runtime, orch, job, broker) /\ CutOff
      BY DEF StrictKnown, Knows, SessionEnds, BrokerRestarts
<1>2. /\ BrokerSound(broker') /\ broker'.record = broker.record
      /\ broker'.watermark = broker.watermark
      /\ broker'.mode = "armed" => broker.mode = "armed"
      /\ broker'.queue = Forsaken(broker.queue, Tasks) \/ broker'.queue = <<>>
  <2>1. CASE SessionEnds
    <3>1. broker' = [broker EXCEPT !.session = "dead", !.queue = Forsaken(broker.queue, Tasks)]
          BY <2>1 DEF SessionEnds
    <3>2. Forsaken(broker.queue, Tasks) \in Queues
          BY <1>1, ForsakenQueue DEF BrokerSound
    <3>3. QED  BY <1>1, <3>1, <3>2 DEF BrokerSound
  <2>2. CASE BrokerRestarts
    <3>1. broker' = [Blocked(broker) EXCEPT !.session = "none", !.queue = <<>>]
          BY <2>2 DEF BrokerRestarts
    <3>2. <<>> \in Queues
          BY EmptySeq DEF Queues
    <3>3. PICK b : b = Blocked(broker)
          OBVIOUS
    <3>4. QED  BY <1>1, <3>1, <3>2, <3>3, BlockedSound DEF BrokerSound
  <2>3. QED  BY <2>1, <2>2
<1>3. /\ Serves(job, broker, job', broker') /\ RuntimeSound(runtime')
      /\ runtime'.present = runtime.present /\ runtime'.policy = runtime.policy
      /\ runtime'.orchLock = runtime.orchLock
  <2>1. PICK b2 : b2 = broker'
        OBVIOUS
  <2>2. Severed(b2)
        BY <1>2, <2>1 DEF Severed
  <2>3. QED  BY <1>1, <2>1, <2>2, CutOffServes
<1>4. Knows(watch, store, runtime', orch, job', broker')
      BY <1>1, <1>3, ServeStep
<1>5. BudgetSound(strictBudget')
      BY BudgetKept DEF StrictKnown, SessionEnds, BrokerRestarts
<1>6. QED  BY <1>3, <1>4, <1>5 DEF StrictKnown, SessionEnds, BrokerRestarts

-----------------------------------------------------------------------------
(* A request through the queue.                                            *)

LEMMA QueuedLast ==
  ASSUME NEW b, BrokerSound(b), NEW cmd \in Commands, NEW client \in Tasks \cup {None},
         NEW b2, b2 = Queued(b, cmd, client)
  PROVE  /\ BrokerSound(b2) /\ b2.record = b.record /\ b2.mode = b.mode
         /\ b2.watermark = b.watermark
         /\ \A i \in 1 .. Len(b2.queue) :
              \/ i \in 1 .. Len(b.queue) /\ b2.queue[i] = b.queue[i]
              \/ i \notin 1 .. Len(b.queue) /\ b2.queue[i].cmd = cmd /\ b2.queue[i].client = client
                   /\ \A k \in 1 .. Len(b2.queue) : k \notin 1 .. Len(b.queue) => k = i
<1> DEFINE S == [cmd : Commands, client : Tasks \cup {None}]
           e == [cmd |-> cmd, client |-> client]
<1>1. PICK q \in Seq(S) : q = b.queue
      BY DEF BrokerSound, Queues
<1>2. e \in S /\ e.cmd = cmd /\ e.client = client
      OBVIOUS
<1>3. b2 = [b EXCEPT !.queue = Append(q, e)]
      BY <1>1 DEF Queued
<1> HIDE DEF S, e
<1>4. /\ Append(q, e) \in Seq(S) /\ Len(Append(q, e)) = Len(q) + 1
      /\ \A i \in 1 .. Len(q) : Append(q, e)[i] = q[i]
      /\ Append(q, e)[Len(q) + 1] = e
      BY <1>1, <1>2, AppendProperties
<1>5. PICK m \in Nat : m = Len(q)
      BY <1>1, LenProperties
<1>6. PICK a \in Seq(S) : a = Append(q, e)
      BY <1>4
<1>7. BrokerSound(b2) /\ b2.queue = a /\ b2.record = b.record /\ b2.mode = b.mode
      /\ b2.watermark = b.watermark
      BY <1>3, <1>6 DEF BrokerSound, Queues, S
<1>8. ASSUME NEW i \in 1 .. m + 1
      PROVE  \/ i \in 1 .. m /\ a[i] = q[i]
             \/ /\ i \notin 1 .. m /\ a[i].cmd = cmd /\ a[i].client = client
                /\ \A k \in 1 .. m + 1 : k \notin 1 .. m => k = i
  <2>1. CASE i = m + 1
        BY <1>2, <1>4, <1>5, <1>6, <2>1
  <2>2. CASE i \in 1 .. m
        BY <1>4, <1>5, <1>6, <2>2
  <2>3. QED  BY <2>1, <2>2
<1>9. Len(a) = m + 1
      BY <1>4, <1>5, <1>6
<1>10. QED  BY <1>1, <1>5, <1>7, <1>8, <1>9

\* Task t, of which the queue of b holds nothing, waits for cmd.
WaitsFor(b, jobs, t, cmd, jobs2) ==
  /\ BrokerSound(b) /\ QueueKnows(b.queue, jobs)
  /\ \A i \in 1 .. Len(b.queue) : b.queue[i].client # t
  /\ CommandSound(cmd)
  /\ \A u \in Tasks : u # t => jobs2[u] = jobs[u]
  /\ jobs2[t].at = "waiting" /\ jobs2[t].what = cmd

\* A commit in the queue of b2 was already ahead, or is cmd.
CommitIsOf(b, jobs, cmd, b2, jobs2) ==
  \A p : CommitAhead(p, b2.queue, jobs2) =>
           CommitAhead(p, b.queue, jobs) \/ (cmd.op = "Commit" /\ cmd.policy = p)

\* Task t has a new request in the queue, and only this one.
LEMMA QueuedKnows ==
  ASSUME NEW b, NEW jobs, NEW t \in Tasks, NEW cmd, NEW jobs2, WaitsFor(b, jobs, t, cmd, jobs2),
         NEW b2, b2 = Queued(b, cmd, t)
  PROVE  QueueKnows(b2.queue, jobs2) /\ CommitIsOf(b, jobs, cmd, b2, jobs2)
<1>0. /\ BrokerSound(b) /\ QueueKnows(b.queue, jobs)
      /\ \A i \in 1 .. Len(b.queue) : b.queue[i].client # t
      /\ CommandSound(cmd)
      /\ \A u \in Tasks : u # t => jobs2[u] = jobs[u]
      /\ jobs2[t].at = "waiting" /\ jobs2[t].what = cmd
      BY DEF WaitsFor
<1>1. cmd \in Commands /\ t \in Tasks \cup {None}
      BY <1>0 DEF CommandSound
<1>2. \A i \in 1 .. Len(b2.queue) :
        \/ i \in 1 .. Len(b.queue) /\ b2.queue[i] = b.queue[i]
        \/ i \notin 1 .. Len(b.queue) /\ b2.queue[i].cmd = cmd /\ b2.queue[i].client = t
             /\ \A k \in 1 .. Len(b2.queue) : k \notin 1 .. Len(b.queue) => k = i
      BY <1>0, <1>1, QueuedLast
<1>3. \A i \in 1 .. Len(b.queue) : b.queue[i].client \in Tasks \cup {None}
  <2>1. ASSUME NEW i \in 1 .. Len(b.queue)
        PROVE  b.queue[i] \in [cmd : Commands, client : Tasks \cup {None}]
        BY <1>0, ElementOfSeq DEF BrokerSound, Queues
  <2>2. QED  BY <2>1
<1>4. ASSUME NEW i \in 1 .. Len(b2.queue)
      PROVE  /\ CommandSound(b2.queue[i].cmd)
             /\ b2.queue[i].client # None =>
                  /\ jobs2[b2.queue[i].client].at = "waiting"
                  /\ jobs2[b2.queue[i].client].what = b2.queue[i].cmd
                  /\ \A k \in 1 .. Len(b2.queue) :
                       b2.queue[k].client = b2.queue[i].client => k = i
  <2>1. CASE i \in 1 .. Len(b.queue)
    <3>1. b2.queue[i] = b.queue[i] /\ b.queue[i].client # t
          BY <1>0, <1>2, <2>1
    <3>2. ASSUME NEW k \in 1 .. Len(b2.queue), b2.queue[k].client = b.queue[i].client,
                 b.queue[i].client # None
          PROVE  k = i
          BY <1>0, <1>2, <2>1, <3>1, <3>2 DEF QueueKnows
    <3>3. QED  BY <1>0, <1>3, <2>1, <3>1, <3>2 DEF QueueKnows
  <2>2. CASE i \notin 1 .. Len(b.queue)
    <3>1. b2.queue[i].cmd = cmd /\ b2.queue[i].client = t
          BY <1>2, <2>2
    <3>2. ASSUME NEW k \in 1 .. Len(b2.queue), b2.queue[k].client = t
          PROVE  k = i
          BY <1>0, <1>2, <2>2, <3>2
    <3>3. QED  BY <1>0, <3>1, <3>2
  <2>3. QED  BY <2>1, <2>2
<1>5. QueueKnows(b2.queue, jobs2)
      BY <1>4 DEF QueueKnows
<1>6. ASSUME NEW p, CommitAhead(p, b2.queue, jobs2), ~(cmd.op = "Commit" /\ cmd.policy = p)
      PROVE  CommitAhead(p, b.queue, jobs)
  <2>1. CASE \E u \in Tasks : Commits(jobs2[u], p)
        BY <1>0, <2>1 DEF CommitAhead, Commits
  <2>2. CASE \E i \in 1 .. Len(b2.queue) :
               b2.queue[i].cmd.op = "Commit" /\ b2.queue[i].cmd.policy = p
    <3>1. PICK i \in 1 .. Len(b2.queue) :
            b2.queue[i].cmd.op = "Commit" /\ b2.queue[i].cmd.policy = p
          BY <2>2
    <3>2. i \in 1 .. Len(b.queue) /\ b2.queue[i] = b.queue[i]
          BY <1>2, <1>6, <3>1
    <3>3. QED  BY <3>1, <3>2 DEF CommitAhead
  <2>3. QED  BY <1>6, <2>1, <2>2 DEF CommitAhead
<1>7. QED  BY <1>5, <1>6 DEF CommitIsOf

LEMMA ActivatedSound ==
  ASSUME NEW b, BrokerSound(b)
  PROVE  /\ BrokerSound(Activated(b)) /\ Activated(b).record = b.record
         /\ Activated(b).watermark = b.watermark /\ Activated(b).queue = b.queue
         /\ Activated(b).mode = "armed" => b.mode = "armed"
<1> DEFINE a == IF b.session = "dead" THEN Blocked(b) ELSE b
<1>1. /\ BrokerSound(a) /\ a.record = b.record /\ a.watermark = b.watermark
      /\ a.queue = b.queue /\ (a.mode = "armed" => b.mode = "armed")
      BY BlockedSound
<1>2. Activated(b) = [a EXCEPT !.session = "alive"]
      BY DEF Activated
<1> HIDE DEF a
<1>3. QED  BY <1>1, <1>2 DEF BrokerSound

LEMMA HoldKeeps ==
  ASSUME RuntimeSound(runtime), NEW t \in Tasks, job[t] \in Work, NEW h \in Sessions, Hold(t, h)
  PROVE  /\ RuntimeSound(runtime') /\ runtime'.present = runtime.present
         /\ runtime'.policy = runtime.policy /\ runtime'.orchLock = runtime.orchLock
<1> DEFINE held == [runtime.held EXCEPT ![job[t].stale] = h]
<1>1. held \in [BOOLEAN -> Sessions]
      BY DEF RuntimeSound, Work
<1>2. runtime' = [runtime EXCEPT !.held = held]
      BY DEF Hold
<1> HIDE DEF held
<1>3. QED  BY <1>1, <1>2 DEF RuntimeSound

\* A task of which the queue holds nothing is answered from the state b1.
LEMMA AnswerServes ==
  ASSUME NEW b, NEW jobs, NEW b1, Serves(jobs, b, jobs, b1), NEW t \in Tasks,
         jobs[t].at \in {"broker", "waiting"},
         \A i \in 1 .. Len(b1.queue) : b1.queue[i].client # t,
         NEW answer \in Answers,
         \/ answer = Error
         \/ answer.policy = b1.record
              /\ (b1.record = None => jobs[t].what.op \in {"Disable", "Confirm", "Status"}),
         NEW jobs2, jobs2 = [jobs EXCEPT ![t].at = "answered", ![t].what = answer]
  PROVE  Serves(jobs, b, jobs2, b1)
<1>1. jobs \in [Tasks -> Work] /\ (\A u \in Tasks : JobSound(jobs[u])) /\ BrokerSound(b1)
      BY DEF Serves, JobsSound
<1>2. PICK j \in Work : j = jobs[t]
      BY <1>1
<1>3. PICK n : n = [j EXCEPT !.at = "answered", !.what = answer]
      OBVIOUS
<1>4. jobs2 = [jobs EXCEPT ![t] = n]
      BY <1>1, <1>2, <1>3
<1>5. n \in Work /\ JobSound(n) /\ n.at = "answered"
      BY <1>3 DEF Work, Points, JobSound
<1>6. Served(j, n, b1)
      BY <1>2, <1>3 DEF Served, Work
<1>7. /\ \A u \in Tasks : u # t => jobs2[u] = jobs[u]
      /\ jobs2[t] = n /\ jobs2 \in [Tasks -> Work]
      BY <1>1, <1>4, <1>5
<1>8. JobsSound(jobs2)
      BY <1>1, <1>5, <1>7 DEF JobsSound
<1>9. QueueKnows(b1.queue, jobs2)
  <2>1. ASSUME NEW i \in 1 .. Len(b1.queue)
        PROVE  b1.queue[i].client \in (Tasks \ {t}) \cup {None}
    <3>1. b1.queue[i] \in [cmd : Commands, client : Tasks \cup {None}]
          BY <1>1, ElementOfSeq DEF BrokerSound, Queues
    <3>2. QED  BY <3>1
  <2>2. QED  BY <1>7, <2>1 DEF Serves, QueueKnows
<1>10. ASSUME NEW p, CommitAhead(p, b1.queue, jobs2)
       PROVE  CommitAhead(p, b.queue, jobs)
  <2>1. \A u \in Tasks : Commits(jobs2[u], p) => Commits(jobs[u], p)
        BY <1>5, <1>7 DEF Commits
  <2>2. CommitAhead(p, b1.queue, jobs)
        BY <1>10, <2>1 DEF CommitAhead
  <2>3. QED  BY <2>2 DEF Serves
<1>11. \A u \in Tasks : jobs2[u] = jobs[u] \/ Served(jobs[u], jobs2[u], b1)
       BY <1>2, <1>6, <1>7
<1>12. QED  BY <1>8, <1>9, <1>10, <1>11 DEF Serves

LEMMA ErrorAnswers == Error \in Answers
BY DEF Error, Answers, Modes

\* A task goes on waiting, with the request cmd at the end of the queue of b1.
LEMMA RequestServes ==
  ASSUME NEW b, NEW jobs, NEW b1, Serves(jobs, b, jobs, b1), NEW t \in Tasks,
         jobs[t].at \in {"broker", "waiting"},
         \A i \in 1 .. Len(b1.queue) : b1.queue[i].client # t,
         NEW cmd, CommandSound(cmd),
         \/ cmd = jobs[t].what /\ jobs[t].at = "broker"
         \/ jobs[t].what.op = "Disable" /\ cmd.op = "Confirm",
         NEW jobs2, jobs2 = [jobs EXCEPT ![t].at = "waiting", ![t].what = cmd]
  PROVE  Serves(jobs, b, jobs2, Queued(b1, cmd, t))
<1>1. /\ jobs \in [Tasks -> Work] /\ (\A u \in Tasks : JobSound(jobs[u])) /\ BrokerSound(b1)
      /\ QueueKnows(b1.queue, jobs)
      BY DEF Serves, JobsSound
<1>2. PICK j \in Work : j = jobs[t] /\ JobSound(j)
      BY <1>1
<1>3. PICK n : n = [j EXCEPT !.at = "waiting", !.what = cmd]
      OBVIOUS
<1>4. jobs2 = [jobs EXCEPT ![t] = n]
      BY <1>1, <1>2, <1>3
<1>5. n \in Work /\ JobSound(n) /\ n.at = "waiting" /\ n.what = cmd
      BY <1>2, <1>3 DEF Work, Points, JobSound, CommandSound
<1>6. PICK b2 : b2 = Queued(b1, cmd, t)
      OBVIOUS
<1>7. Served(j, n, b2)
      BY <1>2, <1>3 DEF Served, Work
<1>8. /\ \A u \in Tasks : u # t => jobs2[u] = jobs[u]
      /\ jobs2[t] = n /\ jobs2 \in [Tasks -> Work]
      BY <1>1, <1>4, <1>5
<1>9. JobsSound(jobs2)
      BY <1>1, <1>5, <1>8 DEF JobsSound
<1>10. /\ QueueKnows(b2.queue, jobs2)
       /\ \A p : CommitAhead(p, b2.queue, jobs2) =>
            CommitAhead(p, b1.queue, jobs) \/ (cmd.op = "Commit" /\ cmd.policy = p)
  <2>1. jobs2[t].at = "waiting" /\ jobs2[t].what = cmd
        BY <1>5, <1>8
  <2>2. WaitsFor(b1, jobs, t, cmd, jobs2)
        BY <1>1, <1>8, <2>1 DEF WaitsFor
  <2>3. QueueKnows(b2.queue, jobs2) /\ CommitIsOf(b1, jobs, cmd, b2, jobs2)
        BY <1>6, <2>2, QueuedKnows
  <2>4. QED  BY <2>3 DEF CommitIsOf
<1>11. cmd.op = "Commit" => CommitAhead(cmd.policy, b1.queue, jobs)
       BY DEF CommitAhead, Commits
<1>12. /\ BrokerSound(b2) /\ b2.record = b1.record /\ b2.mode = b1.mode
       /\ b2.watermark = b1.watermark
       BY <1>1, <1>6, QueuedLast DEF CommandSound
<1>13. \A u \in Tasks : jobs2[u] = jobs[u] \/ Served(jobs[u], jobs2[u], b2)
       BY <1>2, <1>7, <1>8
<1>14. Serves(jobs, b, jobs2, b2)
       BY <1>9, <1>10, <1>11, <1>12, <1>13 DEF Serves
<1>15. QED  BY <1>6, <1>14

LEMMA SendToBrokerKeeps ==
  ASSUME NEW watch \in BOOLEAN, StrictKnown(watch), NEW t \in Tasks, SendToBroker(t)
  PROVE  StrictKnown(watch)' /\ Serves(job, broker, job', broker')
<1>1. /\ job \in [Tasks -> Work] /\ job[t] \in Work /\ job[t].at = "broker"
      /\ JobSound(job[t]) /\ RuntimeSound(runtime) /\ BrokerSound(broker)
      /\ QueueKnows(broker.queue, job)
      BY TaskFacts DEF SendToBroker, StrictKnown, Knows
<1>2. Knows(watch, store, runtime, orch, job, broker)
      BY DEF StrictKnown
<1>3. \A i \in 1 .. Len(broker.queue) : broker.queue[i].client # t
      BY <1>1, NoneAssumption DEF QueueKnows
<1>4. /\ Serves(job, broker, job', broker') /\ RuntimeSound(runtime')
      /\ runtime'.present = runtime.present /\ runtime'.policy = runtime.policy
      /\ runtime'.orchLock = runtime.orchLock /\ BudgetSound(strictBudget')
  <2>1. CASE /\ CanRequest(t)
             /\ broker' = Queued(IF Activates(t) THEN Activated(broker) ELSE broker, job[t].what, t)
             /\ Hold(t, "valid")
             /\ job' = [job EXCEPT ![t].at = "waiting"]
             /\ UNCHANGED strictBudget
    <3>1. PICK b1 : b1 = IF Activates(t) THEN Activated(broker) ELSE broker
          OBVIOUS
    <3>2. /\ BrokerSound(b1) /\ b1.record = broker.record /\ b1.watermark = broker.watermark
          /\ b1.queue = broker.queue /\ (b1.mode = "armed" => broker.mode = "armed")
          BY <1>1, <3>1, ActivatedSound
    <3>3. Serves(job, broker, job, b1)
          BY <1>2, <3>2, ModeServes
    <3>4. job' = [job EXCEPT ![t].at = "waiting", ![t].what = job[t].what]
          BY <1>1, <2>1 DEF Work
    <3>5. CommandSound(job[t].what)
          BY <1>1 DEF JobSound
    <3>6. PICK cmd : cmd = job[t].what
          OBVIOUS
    <3>7. PICK jobs2 : jobs2 = job'
          OBVIOUS
    <3>8. Serves(job, broker, jobs2, Queued(b1, cmd, t))
          BY <1>1, <1>3, <3>2, <3>3, <3>4, <3>5, <3>6, <3>7, RequestServes
    <3>9. "valid" \in Sessions
          BY DEF Sessions
    <3>10. QED  BY <1>1, <2>1, <3>1, <3>6, <3>7, <3>8, <3>9, HoldKeeps DEF StrictKnown
  <2>2. CASE /\ IF CanRequest(t) THEN StrictFault ELSE UNCHANGED strictBudget
             /\ Answered(t, Error)
             /\ Hold(t, AfterError(t))
             /\ UNCHANGED broker
    <3>1. Serves(job, broker, job, broker)
          BY <1>1, <1>2, ModeServes
    <3>2. PICK jobs2 : jobs2 = job'
          OBVIOUS
    <3>3. jobs2 = [job EXCEPT ![t].at = "answered", ![t].what = Error]
          BY <2>2, <3>2 DEF Answered
    <3>4. Serves(job, broker, jobs2, broker)
          BY <1>1, <1>3, <3>1, <3>3, ErrorAnswers, AnswerServes
    <3>5. AfterError(t) \in Sessions
          BY <1>1 DEF AfterError, Held, RuntimeSound, Work, Sessions
    <3>6. QED  BY <1>1, <2>2, <3>2, <3>4, <3>5, HoldKeeps, BudgetKept DEF StrictKnown
  <2>3. QED  BY <2>1, <2>2 DEF SendToBroker
<1>5. Knows(watch, store, runtime', orch, job', broker')
      BY <1>2, <1>4, ServeStep
<1>6. QED  BY <1>4, <1>5 DEF StrictKnown, SendToBroker

\* What the Broker, in the state b1, may answer to the request of task t.
Replies(t, answer, b1) ==
  /\ Serves(job, broker, job, b1)
  /\ \A i \in 1 .. Len(b1.queue) : b1.queue[i].client # t
  /\ answer \in Answers
  /\ \/ answer = Error
     \/ answer.policy = b1.record
          /\ (b1.record = None => job[t].what.op \in {"Disable", "Confirm", "Status"})

LEMMA ReplyServes ==
  ASSUME NEW watch \in BOOLEAN, StrictKnown(watch), NEW t \in Tasks,
         job[t].at = "waiting", NEW answer, NEW b1,
         Replies(t, answer, b1), Reply(t, answer, b1)
  PROVE  /\ Serves(job, broker, job', broker') /\ RuntimeSound(runtime')
         /\ runtime'.present = runtime.present /\ runtime'.policy = runtime.policy
         /\ runtime'.orchLock = runtime.orchLock
<1>1. /\ job \in [Tasks -> Work] /\ job[t] \in Work /\ JobSound(job[t]) /\ RuntimeSound(runtime)
      BY TaskFacts
<1>2. /\ Serves(job, broker, job, b1) /\ answer \in Answers
      /\ \A i \in 1 .. Len(b1.queue) : b1.queue[i].client # t
      /\ \/ answer = Error
         \/ answer.policy = b1.record
              /\ (b1.record = None => job[t].what.op \in {"Disable", "Confirm", "Status"})
      BY DEF Replies
<1>3. PICK jobs2 : jobs2 = job'
      OBVIOUS
<1>4. CASE answer = Error /\ job[t].what.op = "Disable" /\ b1.session = "alive" /\ Held(t) = "valid"
  <2>1. PICK cmd : cmd = Command("Confirm", job[t].what.policy, 0)
        OBVIOUS
  <2>2. /\ broker' = Queued(b1, cmd, t) /\ job' = [job EXCEPT ![t].what = cmd]
        /\ UNCHANGED runtime
        BY <1>4, <2>1 DEF Reply
  <2>3. CommandSound(cmd) /\ cmd.op = "Confirm"
        BY <1>1, <2>1 DEF JobSound, CommandSound, Commands, Command, Ops
  <2>4. jobs2 = [job EXCEPT ![t].at = "waiting", ![t].what = cmd]
        BY <1>1, <1>3, <2>2 DEF Work
  <2>5. Serves(job, broker, jobs2, Queued(b1, cmd, t))
        BY <1>2, <1>4, <2>3, <2>4, RequestServes
  <2>6. QED  BY <1>1, <1>3, <2>2, <2>5
<1>5. CASE ~(answer = Error /\ job[t].what.op = "Disable" /\ b1.session = "alive"
             /\ Held(t) = "valid")
  <2>1. /\ broker' = b1 /\ Answered(t, answer)
        /\ Hold(t, IF answer = Error THEN AfterError(t) ELSE "valid")
        BY <1>5 DEF Reply
  <2>2. jobs2 = [job EXCEPT ![t].at = "answered", ![t].what = answer]
        BY <1>3, <2>1 DEF Answered
  <2>3. Serves(job, broker, jobs2, b1)
        BY <1>2, <2>2, AnswerServes
  <2>4. (IF answer = Error THEN AfterError(t) ELSE "valid") \in Sessions
        BY <1>1 DEF AfterError, Held, RuntimeSound, Work, Sessions
  <2>5. QED  BY <1>1, <1>3, <2>1, <2>3, <2>4, HoldKeeps
<1>6. QED  BY <1>4, <1>5

LEMMA ClientGivesUpKeeps ==
  ASSUME NEW watch \in BOOLEAN, StrictKnown(watch), NEW t \in Tasks, ClientGivesUp(t)
  PROVE  StrictKnown(watch)' /\ Serves(job, broker, job', broker')
<1>1. /\ job[t].at = "waiting" /\ BrokerSound(broker) /\ broker.queue \in Queues
      /\ QueueKnows(broker.queue, job) /\ JobsSound(job)
      /\ Knows(watch, store, runtime, orch, job, broker)
      BY DEF ClientGivesUp, StrictKnown, Knows, BrokerSound
<1>2. PICK f : f = Forsaken(broker.queue, {t})
      OBVIOUS
<1>3. /\ f \in Queues /\ Len(f) = Len(broker.queue)
      /\ \A i \in 1 .. Len(broker.queue) :
           /\ f[i].cmd = broker.queue[i].cmd
           /\ f[i].client = IF broker.queue[i].client \in {t} THEN None ELSE broker.queue[i].client
      BY <1>1, <1>2, ForsakenQueue
<1>4. PICK b1 : b1 = [broker EXCEPT !.queue = f]
      OBVIOUS
<1>5. /\ BrokerSound(b1) /\ b1.queue = f /\ b1.record = broker.record /\ b1.mode = broker.mode
      /\ b1.watermark = broker.watermark
      BY <1>1, <1>3, <1>4 DEF BrokerSound
<1>6. QueueKnows(f, job)
      BY <1>1, <1>3 DEF QueueKnows
<1>7. \A i \in 1 .. Len(f) : f[i].client # t
      BY <1>3, NoneAssumption
<1>8. \A p : CommitAhead(p, f, job) => CommitAhead(p, broker.queue, job)
      BY <1>3 DEF CommitAhead
<1>9. PICK w \in Nat : w = broker.watermark
      BY <1>1 DEF BrokerSound
<1>10. b1.mode = "armed" => Armable(broker, job)
       BY <1>1, <1>5 DEF Armable, BrokerSound
<1>11. Serves(job, broker, job, b1)
       BY <1>1, <1>5, <1>6, <1>8, <1>9, <1>10 DEF Serves
<1>12. Replies(t, Error, b1)
       BY <1>5, <1>7, <1>11, ErrorAnswers DEF Replies
<1>13. Reply(t, Error, b1)
       BY <1>2, <1>4 DEF ClientGivesUp
<1>14. /\ Serves(job, broker, job', broker') /\ RuntimeSound(runtime')
       /\ runtime'.present = runtime.present /\ runtime'.policy = runtime.policy
       /\ runtime'.orchLock = runtime.orchLock
       BY <1>1, <1>12, <1>13, ReplyServes
<1>15. Knows(watch, store, runtime', orch, job', broker')
       BY <1>1, <1>14, ServeStep
<1>16. BudgetSound(strictBudget')
       BY BudgetKept DEF ClientGivesUp, StrictKnown
<1>17. QED  BY <1>14, <1>15, <1>16 DEF StrictKnown, ClientGivesUp

-----------------------------------------------------------------------------
(* The engine takes the next request from the queue.                       *)

\* The Broker goes from b to d by the command cmd.
Runs(b, cmd, d) ==
  /\ BrokerSound(d) /\ d.queue = b.queue /\ b.watermark <= d.watermark
  /\ d.record \notin {None, b.record} => d.mode # "armed" /\ b.watermark < Revision[d.record]
  /\ d.record = b.record /\ d.mode = "armed" =>
       b.mode = "armed" \/ (cmd.op = "Commit" /\ cmd.policy = b.record)

LEMMA StayRuns ==
  ASSUME NEW b, BrokerSound(b), NEW cmd
  PROVE  Runs(b, cmd, b)
<1>1. PICK w \in Nat : w = b.watermark
      BY DEF BrokerSound
<1>2. QED  BY <1>1 DEF Runs

LEMMA BlockedRuns ==
  ASSUME NEW b, NEW cmd, NEW d, Runs(b, cmd, d)
  PROVE  Runs(b, cmd, Blocked(d))
<1>1. PICK c : c = Blocked(d)
      OBVIOUS
<1>2. /\ BrokerSound(c) /\ c.record = d.record /\ c.watermark = d.watermark /\ c.queue = d.queue
      /\ c.mode # "armed"
      BY <1>1, BlockedSound DEF Runs
<1>3. QED  BY <1>1, <1>2 DEF Runs

LEMMA RecordedSound ==
  ASSUME NEW b, BrokerSound(b), NEW p \in Policies \cup {None}, NEW d, d = Recorded(b, p)
  PROVE  /\ BrokerSound(d) /\ d.queue = b.queue /\ d.record = p /\ d.mode # "armed"
         /\ d.watermark = IF p = None THEN b.watermark ELSE Revision[p]
<1>1. PICK w \in Nat : w = IF p = None THEN b.watermark ELSE Revision[p]
      BY RevisionAssumption DEF BrokerSound
<1>2. PICK c : c = Blocked([b EXCEPT !.record = p])
      OBVIOUS
<1>3. /\ c = [[b EXCEPT !.record = p] EXCEPT !.mode = IF p = None THEN "none" ELSE "blocking",
                                             !.ingress = 0]
      BY <1>2 DEF Blocked, BrokerSound
<1>4. d = [c EXCEPT !.watermark = w]
      BY <1>1, <1>2 DEF Recorded
<1>5. PICK m \in {"none", "blocking"} : m = IF p = None THEN "none" ELSE "blocking"
      OBVIOUS
<1>6. d = [b EXCEPT !.record = p, !.mode = m, !.ingress = 0, !.watermark = w]
      BY <1>3, <1>4, <1>5 DEF BrokerSound
<1>7. /\ d.record = p /\ d.mode = m /\ d.watermark = w /\ d.queue = b.queue
      BY <1>6 DEF BrokerSound
<1>8. BrokerSound(d)
  <2>1. d \in [record : Policies \cup {None}, mode : {"none", "blocking", "armed"},
              ingress : Nat, watermark : Nat, session : {"none", "alive", "dead"}, queue : Queues]
    <3>1. b \in [record : Policies \cup {None}, mode : {"none", "blocking", "armed"},
                ingress : Nat, watermark : Nat, session : {"none", "alive", "dead"}, queue : Queues]
          BY DEF BrokerSound
    <3>2. m \in {"none", "blocking", "armed"} /\ w \in Nat /\ 0 \in Nat
          OBVIOUS
    <3>3. QED  BY <1>6, <3>1, <3>2
  <2>2. QED  BY <1>1, <1>5, <1>7, <2>1 DEF BrokerSound
<1>9. QED  BY <1>1, <1>5, <1>7, <1>8

LEMMA ExecutedRuns ==
  ASSUME NEW b, BrokerSound(b), NEW cmd, CommandSound(cmd)
  PROVE  /\ Runs(b, cmd, Executed(b, cmd))
         /\ Accepts(b, cmd) /\ Executed(b, cmd).record = None =>
              cmd.op \in {"Disable", "Confirm", "Status"}
<1> DEFINE d == Executed(b, cmd)
<1>1. /\ cmd \in Commands /\ cmd.policy \in Policies \cup {None}
      /\ cmd.op \in {"Prepare", "Commit", "Block"} => cmd.policy \in Policies
      /\ cmd.op \in Ops
      BY DEF CommandSound, Commands
<1>2. PICK w \in Nat : w = b.watermark
      BY DEF BrokerSound
<1>0. cmd.op # "Commit" => ~Arms(b, cmd)
      BY DEF Arms
<1>3. CASE cmd.op = "Prepare"
  <2>1. CASE CanRecord(b, cmd.policy)
    <3>1. d = Recorded(b, cmd.policy)
          BY <1>0, <1>3, <2>1 DEF Executed
    <3> HIDE DEF d
    <3>2. /\ BrokerSound(d) /\ d.queue = b.queue /\ d.record = cmd.policy /\ d.mode # "armed"
          /\ d.watermark = IF cmd.policy = None THEN b.watermark ELSE Revision[cmd.policy]
          BY <1>1, <3>1, RecordedSound
    <3>3. PICK k \in Nat : k = Revision[cmd.policy]
          BY <1>1, <1>3, RevisionAssumption
    <3>4. d.watermark = k /\ cmd.policy # None
          BY <1>1, <1>3, <3>2, <3>3, NoneAssumption
    <3>5. b.record = cmd.policy => k = w
          BY <1>2, <3>3, <3>4 DEF BrokerSound
    <3>6. b.record # cmd.policy => w < k
          BY <1>2, <2>1, <3>3 DEF CanRecord
    <3>7. w <= k
          BY <3>5, <3>6
    <3>8. Runs(b, cmd, d)
          BY <1>2, <3>2, <3>3, <3>4, <3>6, <3>7 DEF Runs
    <3>9. QED  BY <3>2, <3>4, <3>8 DEF d
  <2>2. CASE ~CanRecord(b, cmd.policy)
    <3>1. d = Blocked(b)
          BY <1>0, <1>3, <2>2 DEF Executed
    <3>2. Runs(b, cmd, d)
          BY <3>1, StayRuns, BlockedRuns
    <3>3. ~Accepts(b, cmd)
          BY <1>3, <2>2 DEF Accepts
    <3>4. QED  BY <3>2, <3>3
  <2>3. QED  BY <2>1, <2>2
<1>4. CASE cmd.op = "Commit"
  <2>1. CASE Arms(b, cmd)
    <3>1. d = [b EXCEPT !.mode = "armed", !.ingress = cmd.ingress]
          BY <1>4, <2>1 DEF Executed
    <3>2. b.record = cmd.policy /\ cmd.ingress \in Nat
          BY <1>1, <2>1 DEF Arms, Commands
    <3> HIDE DEF d
    <3>3. BrokerSound(d) /\ d.queue = b.queue /\ d.record = b.record /\ d.watermark = w
          BY <1>1, <1>2, <1>4, <3>1, <3>2, NoneAssumption DEF BrokerSound
    <3>4. Runs(b, cmd, d)
          BY <1>2, <1>4, <3>2, <3>3 DEF Runs
    <3>5. d.record # None
          BY <1>1, <1>4, <3>2, <3>3, NoneAssumption
    <3>6. QED  BY <3>4, <3>5 DEF d
  <2>2. CASE ~Arms(b, cmd)
    <3>1. d = b
          BY <1>4, <2>2 DEF Executed
    <3>2. ~Accepts(b, cmd)
          BY <1>4, <2>2 DEF Accepts
    <3>3. QED  BY <3>1, <3>2, StayRuns
  <2>3. QED  BY <2>1, <2>2
<1>5. CASE cmd.op = "Disable"
  <2>1. CASE b.record = cmd.policy
    <3>1. d = Recorded(b, None)
          BY <1>0, <1>5, <2>1 DEF Executed
    <3> HIDE DEF d
    <3>2. /\ BrokerSound(d) /\ d.queue = b.queue /\ d.record = None /\ d.mode # "armed"
          /\ d.watermark = b.watermark
          BY <3>1, RecordedSound
    <3>3. Runs(b, cmd, d)
          BY <1>2, <3>2 DEF Runs
    <3>4. QED  BY <1>5, <3>3 DEF d
  <2>2. CASE b.record # cmd.policy
    <3>1. d = Blocked(b)
          BY <1>0, <1>5, <2>2 DEF Executed
    <3>2. QED  BY <1>5, <3>1, StayRuns, BlockedRuns
  <2>3. QED  BY <2>1, <2>2
<1>6. CASE cmd.op \in {"Status", "Confirm"}
  <2>1. d = b
        BY <1>0, <1>6 DEF Executed
  <2>2. QED  BY <1>6, <2>1, StayRuns
<1>7. CASE cmd.op = "Block"
  <2>1. d = Blocked(b)
        BY <1>0, <1>7 DEF Executed
  <2>2. d.record = b.record
        BY <2>1, BlockedSound
  <2>3. Accepts(b, cmd) => b.record = cmd.policy
        BY <1>7 DEF Accepts
  <2>4. b.record = cmd.policy => d.record # None
        BY <1>1, <1>7, <2>2, NoneAssumption
  <2>5. Runs(b, cmd, d)
        BY <2>1, StayRuns, BlockedRuns
  <2>6. QED  BY <2>3, <2>4, <2>5
<1>8. QED  BY <1>1, <1>3, <1>4, <1>5, <1>6, <1>7 DEF Ops

LEMMA TailQueue ==
  ASSUME NEW q \in Queues, q # <<>>
  PROVE  /\ Tail(q) \in Queues /\ Head(q) = q[1] /\ 1 \in 1 .. Len(q)
         /\ Head(q) \in [cmd : Commands, client : Tasks \cup {None}]
         /\ \A i \in 1 .. Len(Tail(q)) : i + 1 \in 1 .. Len(q) /\ Tail(q)[i] = q[i + 1] /\ i + 1 # 1
<1> DEFINE S == [cmd : Commands, client : Tasks \cup {None}]
<1>1. q \in Seq(S)
      BY DEF Queues
<1> HIDE DEF S
<1>2. /\ Head(q) \in S /\ Tail(q) \in Seq(S) /\ Len(Tail(q)) = Len(q) - 1
      /\ \A i \in 1 .. Len(Tail(q)) : Tail(q)[i] = q[i + 1]
      BY <1>1, HeadTailProperties
<1>3. PICK n \in Nat : n = Len(q) /\ DOMAIN q = 1 .. n
      BY <1>1, LenProperties
<1>4. PICK m \in Nat : m = Len(Tail(q))
      BY <1>2, LenProperties
<1>5. m = n - 1
      BY <1>2, <1>3, <1>4
<1>6. Head(q) = q[1]
      OBVIOUS
<1>7. 1 \in 1 .. n /\ \A i \in 1 .. m : i + 1 \in 1 .. n /\ i + 1 # 1
      BY <1>5
<1>8. QED  BY <1>2, <1>3, <1>4, <1>6, <1>7 DEF S, Queues

\* The answer to the request of a client, or to nobody.
Delivers(client, answer, b1) ==
  IF client = None THEN broker' = b1 /\ UNCHANGED <<job, runtime>> ELSE Reply(client, answer, b1)

\* The Broker goes from b to b1 by the command of a client, and answers it.
Decides(b, cmd, client, answer, b1) ==
  /\ Runs(b, cmd, b1) /\ Delivers(client, answer, b1)
  /\ \/ answer = Error
     \/ answer.policy = b1.record
          /\ (b1.record = None => cmd.op \in {"Disable", "Confirm", "Status"})
  /\ cmd.op = "Prepare" => b1.mode # "armed"

\* What a step of the engine is to those who wait for nothing but a preparation.
EngineMoves(item) ==
  /\ Serves(job, broker, job', broker')
  /\ item.cmd.op = "Prepare" => broker'.mode # "armed"
  /\ item.client = None => job' = job /\ broker'.queue = Tail(broker.queue)

LEMMA EngineExecutesKeeps ==
  ASSUME NEW watch \in BOOLEAN, StrictKnown(watch), EngineExecutes
  PROVE  StrictKnown(watch)' /\ EngineMoves(Head(broker.queue))
<1> DEFINE item == Head(broker.queue)
           rest == [broker EXCEPT !.queue = Tail(broker.queue)]
           done == Executed(rest, item.cmd)
<1>1. /\ BrokerSound(broker) /\ broker.queue \in Queues /\ QueueKnows(broker.queue, job)
      /\ JobsSound(job) /\ RuntimeSound(runtime) /\ broker.queue # <<>>
      /\ Knows(watch, store, runtime, orch, job, broker)
      BY DEF EngineExecutes, StrictKnown, Knows, BrokerSound
<1>2. PICK client, cmd, b : client = item.client /\ cmd = item.cmd /\ b = rest
      OBVIOUS
<1>3. PICK q : q = broker.queue
      OBVIOUS
<1>4. /\ Tail(q) \in Queues /\ item = q[1] /\ 1 \in 1 .. Len(q)
      /\ item \in [cmd : Commands, client : Tasks \cup {None}]
      /\ \A i \in 1 .. Len(Tail(q)) : i + 1 \in 1 .. Len(q) /\ Tail(q)[i] = q[i + 1] /\ i + 1 # 1
      BY <1>1, <1>3, TailQueue
<1>5. client \in Tasks \cup {None} /\ CommandSound(cmd) /\ q[1].cmd = cmd /\ q[1].client = client
      BY <1>1, <1>2, <1>3, <1>4 DEF QueueKnows
<1>6. \/ Delivers(client, IF Accepts(b, cmd) THEN Proof(done.record, done.mode) ELSE Error, done)
           /\ UNCHANGED strictBudget
      \/ /\ StrictFault
         /\ \/ Delivers(client, Error, done)
            \/ Delivers(client, Error, Blocked(b))
            \/ /\ Accepts(b, cmd) /\ cmd.op \notin {"Disable", "Confirm"}
               /\ done.record # None
               /\ Delivers(client, Proof(done.record, "damaged"), Blocked(done))
      BY <1>2 DEF EngineExecutes, Delivers
<1>7. done = Executed(b, cmd)
      BY <1>2
<1>8. /\ BrokerSound(b) /\ b.queue = Tail(q) /\ b.record = broker.record
      /\ b.watermark = broker.watermark /\ b.mode = broker.mode
      BY <1>1, <1>2, <1>3, <1>4 DEF BrokerSound
<1> HIDE DEF item, rest, done
<1>9. PICK d : d = done
      OBVIOUS
<1>10. /\ Runs(b, cmd, d)
       /\ Accepts(b, cmd) /\ d.record = None => cmd.op \in {"Disable", "Confirm", "Status"}
       BY <1>5, <1>7, <1>8, <1>9, ExecutedRuns
<1>11. Runs(b, cmd, Blocked(d)) /\ Runs(b, cmd, Blocked(b)) /\ BrokerSound(d)
  <2>1. BrokerSound(d)
        BY <1>10 DEF Runs
  <2>2. QED  BY <1>8, <1>10, <2>1, BlockedRuns, StayRuns
<1>12. QueueKnows(Tail(q), job)
  <2>1. ASSUME NEW i \in 1 .. Len(Tail(q)), Tail(q)[i].client # None,
               NEW k \in 1 .. Len(Tail(q)), Tail(q)[k].client = Tail(q)[i].client
        PROVE  k = i
    <3>1. PICK m \in Nat : m = Len(Tail(q))
          BY <1>4, LenProperties DEF Queues
    <3>2. i \in 1 .. m /\ k \in 1 .. m
          BY <3>1
    <3>3. k + 1 = i + 1
          BY <1>1, <1>3, <1>4, <2>1 DEF QueueKnows
    <3>4. QED  BY <3>2, <3>3
  <2>2. ASSUME NEW i \in 1 .. Len(Tail(q))
        PROVE  /\ CommandSound(Tail(q)[i].cmd)
               /\ Tail(q)[i].client # None =>
                    /\ job[Tail(q)[i].client].at = "waiting"
                    /\ job[Tail(q)[i].client].what = Tail(q)[i].cmd
        BY <1>1, <1>3, <1>4 DEF QueueKnows
  <2>3. QED  BY <2>1, <2>2 DEF QueueKnows
<1>13. \A p : CommitAhead(p, Tail(q), job) => CommitAhead(p, broker.queue, job)
       BY <1>3, <1>4 DEF CommitAhead
<1>14. cmd.op = "Commit" => CommitAhead(cmd.policy, broker.queue, job)
       BY <1>3, <1>4, <1>5 DEF CommitAhead
<1>15. ASSUME NEW b1, Runs(b, cmd, b1)
       PROVE  Serves(job, broker, job, b1) /\ b1.queue = Tail(q)
  <2>1. /\ BrokerSound(b1) /\ b1.queue = Tail(q) /\ broker.watermark <= b1.watermark
        /\ b1.record \notin {None, broker.record} =>
             b1.mode # "armed" /\ broker.watermark < Revision[b1.record]
        /\ b1.record = broker.record /\ b1.mode = "armed" =>
             broker.mode = "armed" \/ (cmd.op = "Commit" /\ cmd.policy = broker.record)
        BY <1>8, <1>15 DEF Runs
  <2>2. b1.record = broker.record /\ b1.mode = "armed" => Armable(broker, job)
        BY <1>14, <2>1 DEF Armable, BrokerSound
  <2>3. QED  BY <1>1, <1>12, <1>13, <2>1, <2>2 DEF Serves
<1>16. ASSUME client # None
       PROVE  /\ client \in Tasks /\ job[client].at = "waiting" /\ job[client].what = cmd
              /\ \A i \in 1 .. Len(Tail(q)) : Tail(q)[i].client # client
  <2>1. client \in Tasks /\ job[client].at = "waiting" /\ job[client].what = cmd
        BY <1>1, <1>3, <1>4, <1>5, <1>16 DEF QueueKnows
  <2>2. ASSUME NEW i \in 1 .. Len(Tail(q)), Tail(q)[i].client = client
        PROVE  FALSE
        BY <1>1, <1>3, <1>4, <1>5, <1>16, <2>2 DEF QueueKnows
  <2>3. QED  BY <2>1, <2>2
<1>17. BudgetSound(strictBudget')
       BY <1>6, BudgetKept DEF StrictKnown
<1>18. ASSUME NEW c, BrokerSound(c)
       PROVE  Blocked(c).mode # "armed" /\ Blocked(c).record = c.record
       BY <1>18, BlockedSound
<1>19. cmd.op = "Prepare" => d.mode # "armed"
  <2>1. SUFFICES ASSUME cmd.op = "Prepare" PROVE d.mode # "armed"
        OBVIOUS
  <2>2. cmd.policy \in Policies /\ ~Arms(b, cmd)
        BY <1>5, <2>1 DEF CommandSound, Arms
  <2>3. CASE CanRecord(b, cmd.policy)
    <3>1. d = Recorded(b, cmd.policy)
          BY <1>7, <1>9, <2>1, <2>2, <2>3 DEF Executed
    <3>2. QED  BY <1>8, <2>2, <3>1, RecordedSound
  <2>4. CASE ~CanRecord(b, cmd.policy)
    <3>1. d = Blocked(b)
          BY <1>7, <1>9, <2>1, <2>2, <2>4 DEF Executed
    <3>2. QED  BY <1>8, <1>18, <3>1
  <2>5. QED  BY <2>3, <2>4
<1>20. PICK answer, b1 : answer \in Answers /\ Decides(b, cmd, client, answer, b1)
  <2>1. /\ Proof(d.record, d.mode) \in Answers /\ Proof(d.record, d.mode).policy = d.record
        /\ Proof(d.record, "damaged") \in Answers /\ Proof(d.record, "damaged").policy = d.record
        BY <1>11 DEF BrokerSound, Proof, Answers, Modes
  <2>2. CASE Delivers(client, IF Accepts(b, cmd) THEN Proof(d.record, d.mode) ELSE Error, d)
    <3>1. CASE Accepts(b, cmd)
      <4>1. Decides(b, cmd, client, Proof(d.record, d.mode), d)
            BY <1>10, <1>19, <2>1, <2>2, <3>1 DEF Decides
      <4>2. QED  BY <2>1, <4>1
    <3>2. CASE ~Accepts(b, cmd)
      <4>1. Decides(b, cmd, client, Error, d)
            BY <1>10, <1>19, <2>2, <3>2 DEF Decides
      <4>2. QED  BY <4>1, ErrorAnswers
    <3>3. QED  BY <3>1, <3>2
  <2>3. CASE Delivers(client, Error, d)
    <3>1. Decides(b, cmd, client, Error, d)
          BY <1>10, <1>19, <2>3 DEF Decides
    <3>2. QED  BY <3>1, ErrorAnswers
  <2>4. CASE Delivers(client, Error, Blocked(b))
    <3>1. Decides(b, cmd, client, Error, Blocked(b))
          BY <1>8, <1>11, <1>18, <2>4 DEF Decides
    <3>2. QED  BY <3>1, ErrorAnswers
  <2>5. CASE /\ Accepts(b, cmd) /\ d.record # None
             /\ Delivers(client, Proof(d.record, "damaged"), Blocked(d))
    <3>1. Decides(b, cmd, client, Proof(d.record, "damaged"), Blocked(d))
          BY <1>11, <1>18, <2>1, <2>5 DEF Decides
    <3>2. QED  BY <2>1, <3>1
  <2>6. QED  BY <1>6, <1>9, <2>2, <2>3, <2>4, <2>5
<1>21. /\ answer \in Answers /\ Runs(b, cmd, b1) /\ Delivers(client, answer, b1)
       /\ \/ answer = Error
          \/ answer.policy = b1.record
               /\ (b1.record = None => cmd.op \in {"Disable", "Confirm", "Status"})
       /\ cmd.op = "Prepare" => b1.mode # "armed"
       BY <1>20 DEF Decides
<1>22. Serves(job, broker, job, b1) /\ b1.queue = Tail(q)
       BY <1>15, <1>21
<1>23. /\ Serves(job, broker, job', broker') /\ RuntimeSound(runtime')
       /\ runtime'.present = runtime.present /\ runtime'.policy = runtime.policy
       /\ runtime'.orchLock = runtime.orchLock
       /\ cmd.op = "Prepare" => broker'.mode # "armed"
       /\ client = None => job' = job /\ broker'.queue = Tail(q)
  <2>1. CASE client = None
    <3>1. broker' = b1 /\ job' = job /\ runtime' = runtime
          BY <1>21, <2>1 DEF Delivers
    <3>2. QED  BY <1>1, <1>21, <1>22, <3>1
  <2>2. CASE client # None
    <3>1. Reply(client, answer, b1)
          BY <1>21, <2>2 DEF Delivers
    <3>2. Replies(client, answer, b1)
          BY <1>16, <1>21, <1>22, <2>2 DEF Replies
    <3>3. /\ Serves(job, broker, job', broker') /\ RuntimeSound(runtime')
          /\ runtime'.present = runtime.present /\ runtime'.policy = runtime.policy
          /\ runtime'.orchLock = runtime.orchLock
          BY <1>16, <2>2, <3>1, <3>2, ReplyServes
    <3>4. cmd.op = "Prepare" => broker' = b1
          BY <1>16, <2>2, <3>1 DEF Reply
    <3>5. QED  BY <1>21, <2>2, <3>3, <3>4
  <2>3. QED  BY <2>1, <2>2
<1>24. Knows(watch, store, runtime', orch, job', broker')
       BY <1>1, <1>23, ServeStep
<1>25. EngineMoves(Head(broker.queue))
       BY <1>2, <1>3, <1>23 DEF EngineMoves, item
<1>26. QED  BY <1>17, <1>24, <1>25 DEF StrictKnown, EngineExecutes

-----------------------------------------------------------------------------
(* The Agent restarts: the queue and the intent are what is left.          *)

\* No task of jobs is at the Broker with a commit, or waits for it.
Restarted(o, jobs) ==
  /\ JobsSound(jobs) /\ OrchSound(o) /\ o.phase # "AwaitIngress"
  /\ \A t \in Tasks : jobs[t].at \notin {"waiting", "answered"} /\ \A p : ~Commits(jobs[t], p)

LEMMA RestartStep ==
  ASSUME StrictKnown(FALSE), NEW b2, Severed(b2), NEW o, NEW jobs, Restarted(o, jobs)
  PROVE  /\ BrokerSound(b2) /\ QueueKnows(b2.queue, jobs) /\ RecordedOnce(b2, o, jobs)
         /\ Fenced(b2.queue)
         /\ \A p : Covered(broker, job, p) => Covered(b2, jobs, p)
<1>1. /\ BrokerSound(b2) /\ b2.record = broker.record /\ b2.watermark = broker.watermark
      /\ b2.mode = "armed" => broker.mode = "armed"
      BY DEF Severed
<1>2. RecordedOnce(broker, orch, job)
      BY DEF StrictKnown, Knows
<1>3. /\ \A i \in 1 .. Len(b2.queue) : CommandSound(b2.queue[i].cmd) /\ b2.queue[i].client = None
      /\ \A i \in 1 .. Len(b2.queue) : \E k \in 1 .. Len(broker.queue) :
           b2.queue[i].cmd = broker.queue[k].cmd
      BY SeveredQueue
<1>4. /\ \A t \in Tasks : jobs[t].at \notin {"waiting", "answered"} /\ \A p : ~Commits(jobs[t], p)
      /\ o.phase # "AwaitIngress"
      BY DEF Restarted
<1>5. QueueKnows(b2.queue, jobs) /\ Fenced(b2.queue)
      BY <1>3 DEF QueueKnows, Fenced
<1>6. ASSUME NEW p, CommitAhead(p, b2.queue, jobs)
      PROVE  CommitAhead(p, broker.queue, job)
      BY <1>3, <1>4, <1>6 DEF CommitAhead
<1>7. RecordedOnce(b2, o, jobs)
      BY <1>1, <1>2, <1>4, <1>6 DEF RecordedOnce
<1>8. Armable(b2, jobs) => Armable(broker, job)
      BY <1>1, <1>6 DEF Armable
<1>9. QED  BY <1>1, <1>5, <1>7, <1>8 DEF Covered

LEMMA RestoreSound ==
  ASSUME NEW p \in Policies
  PROVE  /\ OrchSound(RestoreDisable(Fresh, p)) /\ RestoreDisable(Fresh, p).desired = p
         /\ RestoreDisable(Fresh, p).state = "Blocking"
         /\ RestoreDisable(Fresh, p).phase = "AwaitDisable"
<1> DEFINE o == RestoreDisable(Fresh, p)
<1>1. PICK c : c = Begin(Fresh, p)
      OBVIOUS
<1>2. c \in Fields /\ c.desired = p
      BY <1>1, FreshFields DEF Begin, Fields, Phases, States
<1>3. o \in Fields /\ o.desired = p /\ o.state = "Blocking" /\ o.phase = "AwaitDisable"
      BY <1>1, <1>2 DEF RestoreDisable, Fields, Phases, States
<1> HIDE DEF o
<1>4. OrchSound(o)
      BY <1>3, NoneAssumption DEF OrchSound, Fields
<1>5. QED  BY <1>3, <1>4 DEF o

LEMMA RestartFrame ==
  ASSUME StrictKnown(FALSE), AgentRestarts
  PROVE  /\ Severed(broker') /\ CoreSound(strictCore') /\ Silent(strictCore')
         /\ BudgetSound(strictBudget')
<1>1. /\ BrokerSound(broker) /\ broker.queue \in Queues
      /\ CoreSound(strictCore) /\ BudgetSound(strictBudget)
      BY DEF StrictKnown, Knows, BrokerSound
<1>2. CoreSound(strictCore') /\ BudgetSound(strictBudget')
      BY <1>1, UnlinkedSound, BudgetKept DEF AgentRestarts
<1>3. Silent(strictCore')
      BY <1>1 DEF AgentRestarts, Unlinked, Silent, CoreSound
<1>4. PICK f \in Queues : f = Forsaken(broker.queue, Tasks)
      BY <1>1, ForsakenQueue
<1>5. PICK s \in {"none", "alive", "dead"} :
        s = IF broker.session = "alive" THEN "dead" ELSE broker.session
      BY <1>1 DEF BrokerSound
<1>6. PICK b2 : b2 = broker'
      OBVIOUS
<1>7. b2 = [broker EXCEPT !.session = s, !.queue = f]
      BY <1>4, <1>5, <1>6 DEF AgentRestarts
<1>8. /\ b2.record = broker.record /\ b2.mode = broker.mode /\ b2.queue = f
      /\ b2.watermark = broker.watermark /\ BrokerSound(b2)
      BY <1>1, <1>7 DEF BrokerSound
<1>9. Severed(b2)
      BY <1>4, <1>8 DEF Severed
<1>10. QED  BY <1>2, <1>3, <1>6, <1>9

\* The Broker has taken a fresh Agent with tasks jobs, the intent s and controller o over.
Succeeds(s, o, jobs, b2) ==
  /\ BrokerSound(b2) /\ QueueKnows(b2.queue, jobs) /\ RecordedOnce(b2, o, jobs)
  /\ Fenced(b2.queue) /\ s.policy = store.policy /\ s.enabled = store.enabled /\ StoreSound(s)
  /\ \A p : Covered(broker, job, p) => Covered(b2, jobs, p)

LEMMA IdleAsks == Asking(NoJob)
BY DEF Asking, NoJob

LEMMA NothingRestoredKeeps ==
  ASSUME StrictInv, AgentRestarts, NothingRestored
  PROVE  StrictInv'
<1>1. StrictKnown(FALSE) /\ StoreSound(store)
      BY DEF StrictInv, StrictKnown, Knows
<1>2. /\ Severed(broker') /\ CoreSound(strictCore') /\ Silent(strictCore')
      /\ BudgetSound(strictBudget')
      BY <1>1, RestartFrame
<1>3. PICK s : s = store'
      OBVIOUS
<1>4. s.policy = store.policy /\ s.enabled = store.enabled /\ StoreSound(s)
      BY <1>1, <1>3 DEF NothingRestored, StoreSound
<1>5. /\ runtime' = NoRuntime /\ orch' = Fresh /\ published' \in States
      /\ job' = [t \in Tasks |-> NoJob]
      BY DEF NothingRestored, States
<1>6. NoJob.at = "idle" /\ NoJob \in Work /\ JobSound(NoJob) /\ (\A p : ~Commits(NoJob, p))
      BY IdleKnows DEF NoJob, JobSound
<1>7. PICK jobs, o, b2, c2 : jobs = job' /\ o = orch' /\ b2 = broker' /\ c2 = strictCore'
      OBVIOUS
<1>8. jobs \in [Tasks -> Work] /\ \A t \in Tasks : jobs[t] = NoJob
      BY <1>5, <1>6, <1>7
<1>9. JobsSound(jobs)
      BY <1>6, <1>8 DEF JobsSound
<1>10. OrchSound(o) /\ o.phase = "Idle" /\ o.state = "Disabled"
       BY <1>5, <1>7, FreshFields DEF OrchSound, Fresh, Fields
<1>11. Restarted(o, jobs)
       BY <1>6, <1>8, <1>9, <1>10 DEF Restarted
<1>12. Succeeds(s, o, jobs, b2)
       BY <1>1, <1>2, <1>4, <1>7, <1>11, RestartStep DEF Succeeds
<1>13. RuntimeSound(runtime') /\ ~runtime'.present
       BY <1>5, NoRuntimeSound DEF NoRuntime
<1>14. \A t \in Tasks : JobKnows(t, jobs[t], o, runtime')
       BY <1>8, IdleKnows
<1>15. Attended(o, runtime', jobs) /\ Stored(s, runtime', o)
       BY <1>5, <1>7, <1>10, <1>13 DEF Attended, Stored
<1>16. Knows(FALSE, s, runtime', o, jobs, b2)
       BY <1>9, <1>10, <1>12, <1>13, <1>14, <1>15 DEF Knows, Succeeds
<1>17. StrictKnown(FALSE)'
       BY <1>2, <1>3, <1>5, <1>7, <1>16 DEF StrictKnown
<1>18. Newcomer(o, jobs, b2, c2)
  <2>1. Calm(o)
        BY <1>5, <1>7 DEF Calm, Fresh
  <2>2. \A t \in Tasks : Asking(jobs[t])
        BY <1>8, IdleAsks
  <2>3. QED  BY <1>2, <1>7, <1>12, <2>1, <2>2 DEF Newcomer, Succeeds
<1>19. store.enabled \/ Covered(broker, job, store.policy)
       BY DEF StrictInv, NewcomerInv, Watched
<1>20. s.enabled \/ Covered(b2, jobs, s.policy)
       BY <1>12, <1>19 DEF Succeeds
<1>21. QED  BY <1>3, <1>7, <1>17, <1>18, <1>20 DEF StrictInv, NewcomerInv

LEMMA IntentRestoredKeeps ==
  ASSUME StrictInv, AgentRestarts, IntentRestored
  PROVE  StrictInv'
<1> DEFINE p == store.policy
           w == IF store.enabled THEN Prepare(p) ELSE ToBroker(Command("Disable", p, 0))
           m == [NoJob EXCEPT !.at = w.to, !.what = w.what, !.then = "restore"]
<1>1. StrictKnown(FALSE) /\ StoreSound(store)
      BY DEF StrictInv, StrictKnown, Knows
<1>2. /\ Severed(broker') /\ CoreSound(strictCore') /\ Silent(strictCore')
      /\ BudgetSound(strictBudget')
      BY <1>1, RestartFrame
<1>3. PICK s : s = store'
      OBVIOUS
<1>4. s.policy = store.policy /\ s.enabled = store.enabled /\ StoreSound(s)
      BY <1>1, <1>3 DEF IntentRestored, StoreSound
<1>5. /\ runtime' = [NoRuntime EXCEPT !.present = TRUE, !.policy = p]
      /\ orch' = IF store.enabled THEN Begin(Fresh, p) ELSE RestoreDisable(Fresh, p)
      /\ published' \in States
      /\ job' = [t \in Tasks |-> IF t = "mutation" THEN m ELSE NoJob]
      BY DEF IntentRestored, States
<1>6. p \in Policies /\ p # None
      BY <1>1 DEF StoreSound, IntentRestored
<1>7. /\ w.to = "broker" /\ CommandSound(w.what)
      /\ w.what.op = IF store.enabled THEN "Prepare" ELSE "Disable"
      BY <1>6 DEF Prepare, ToBroker, CommandSound, Command, Commands, Ops
<1>8. PICK c : c = w.what
      OBVIOUS
<1> HIDE DEF w
<1>9. m = [at |-> "broker", what |-> c, then |-> "restore", prev |-> None, stale |-> FALSE]
  <2>1. m = [NoJob EXCEPT !.at = "broker", !.what = c, !.then = "restore"]
        BY <1>7, <1>8
  <2> HIDE DEF m
  <2>2. QED  BY <2>1 DEF NoJob
<1> HIDE DEF m
<1>10. /\ m \in Work /\ JobSound(m) /\ m.at = "broker" /\ ~m.stale /\ m.then = "restore"
       /\ m.what.op = IF store.enabled THEN "Prepare" ELSE "Disable"
       BY <1>7, <1>8, <1>9 DEF Work, Points, Ends, JobSound, CommandSound
<1>11. Asks(m) /\ \A q : ~Commits(m, q)
       BY <1>10 DEF Asks, Asked, Commits
<1>12. NoJob.at = "idle" /\ NoJob \in Work /\ JobSound(NoJob) /\ (\A q : ~Commits(NoJob, q))
       BY IdleKnows DEF NoJob, JobSound
<1>13. PICK jobs, o, b2, c2 : jobs = job' /\ o = orch' /\ b2 = broker' /\ c2 = strictCore'
       OBVIOUS
<1>14. jobs \in [Tasks -> Work] /\ \A t \in Tasks : jobs[t] = IF t = "mutation" THEN m ELSE NoJob
       BY <1>5, <1>10, <1>12, <1>13
<1>15. JobsSound(jobs)
       BY <1>10, <1>12, <1>14 DEF JobsSound
<1>16. /\ OrchSound(o) /\ o.desired = p /\ o.phase \in {"AwaitPrepare", "AwaitDisable"}
       /\ o.state \in {"Preparing", "Blocking"}
       /\ ~store.enabled => o.phase = "AwaitDisable"
       BY <1>5, <1>6, <1>13, FreshFields, BeginSound, RestoreSound
<1>17. Restarted(o, jobs)
       BY <1>10, <1>11, <1>12, <1>14, <1>15, <1>16 DEF Restarted
<1>18. Succeeds(s, o, jobs, b2)
       BY <1>1, <1>2, <1>4, <1>13, <1>17, RestartStep DEF Succeeds
<1>19. RuntimeSound(runtime') /\ runtime'.present /\ runtime'.policy = p
       BY <1>5, <1>6, NoRuntimeSound DEF RuntimeSound
<1>20. JobKnows("mutation", m, o, runtime')
       BY <1>10, <1>16, <1>19 DEF JobKnows, Ending, Winding
<1>21. \A t \in Tasks : JobKnows(t, jobs[t], o, runtime')
       BY <1>14, <1>20, IdleKnows
<1>22. Attended(o, runtime', jobs)
       BY <1>11, <1>14, <1>16 DEF Attended, Tasks
<1>23. Stored(s, runtime', o)
       BY <1>4, <1>6, <1>16, <1>19 DEF Stored
<1>24. Knows(FALSE, s, runtime', o, jobs, b2)
       BY <1>15, <1>16, <1>18, <1>19, <1>21, <1>22, <1>23 DEF Knows, Succeeds
<1>25. StrictKnown(FALSE)'
       BY <1>2, <1>3, <1>5, <1>13, <1>24 DEF StrictKnown
<1>26. CASE store.enabled
  <2>1. Calm(o)
        BY <1>5, <1>13, <1>26 DEF Calm, Begin, Fresh
  <2>2. Asking(m)
        BY <1>10, <1>26 DEF Asking
  <2>3. Newcomer(o, jobs, b2, c2)
        BY <1>2, <1>13, <1>14, <1>18, <2>1, <2>2, IdleAsks DEF Newcomer, Succeeds
  <2>4. QED  BY <1>3, <1>4, <1>13, <1>25, <1>26, <2>3 DEF StrictInv, NewcomerInv
<1>27. CASE ~store.enabled
  <2>1. Covered(broker, job, p)
        BY <1>27 DEF StrictInv, NewcomerInv, Watched
  <2>2. Covered(b2, jobs, s.policy)
        BY <1>18, <2>1 DEF Succeeds
  <2>3. ~OldIsBack(jobs["mutation"])
        BY <1>10, <1>14 DEF OldIsBack, Tasks
  <2>4. ~Disabled(o, jobs)
        BY <1>6, <1>10, <1>12, <1>14, <1>16, <1>27 DEF Disabled, Freed
  <2>5. Watched(b2, o, s, jobs)
        BY <2>2, <2>3, <2>4 DEF Watched
  <2>6. QED  BY <1>3, <1>13, <1>25, <2>5 DEF StrictInv
<1>28. QED  BY <1>26, <1>27

-----------------------------------------------------------------------------
(* The newcomer: it asks for a preparation at most, and what the Broker    *)
(* still has armed stays covered until a preparation of its own is         *)
(* executed, from which on nothing is armed and everything is watched.     *)

LEMMA AskingFacts ==
  ASSUME StrictKnown(FALSE), NewcomerInv
  PROVE  /\ job \in [Tasks -> Work] /\ BrokerSound(broker) /\ OrchSound(orch)
         /\ Calm(orch) /\ Silent(strictCore) /\ Fenced(broker.queue)
         /\ store.enabled \/ Covered(broker, job, store.policy)
         /\ \A t \in Tasks : Asking(job[t]) /\ JobSound(job[t]) /\ \A p : ~Commits(job[t], p)
BY DEF StrictKnown, Knows, JobsSound, NewcomerInv, Newcomer, Asking, Commits

\* A task of a newcomer that is under way has a policy to prepare.
LEMMA AskingDrives ==
  ASSUME StrictKnown(FALSE), NewcomerInv, NEW t \in Tasks,
         job[t].at \in {"broker", "waiting", "answered", "lost", "recover"}
  PROVE  /\ runtime.present /\ runtime.policy \in Policies
         /\ orch.phase = "AwaitPrepare" /\ orch.desired # None
<1>1. Asking(job[t]) /\ Asking(job["core"]) /\ Calm(orch)
      BY AskingFacts DEF Tasks
<1>2. JobKnows(t, job[t], orch, runtime) /\ OrchSound(orch) /\ Stored(store, runtime, orch)
      BY TaskFacts
<1>3. runtime.present
      BY <1>1, <1>2 DEF JobKnows, Asking
<1>4. orch.state # "Disabled"
      BY <1>1, <1>3 DEF StrictKnown, Knows, Attended, Ending, Asking
<1>5. QED  BY <1>1, <1>2, <1>3, <1>4 DEF OrchSound, Calm, Stored

LEMMA AskingUpdate ==
  ASSUME NEW jobs \in [Tasks -> Work], \A u \in Tasks : Asking(jobs[u]),
         NEW t \in Tasks, NEW n, Asking(n), NEW jobs2, jobs2 = [jobs EXCEPT ![t] = n]
  PROVE  \A u \in Tasks : Asking(jobs2[u])
<1>1. ASSUME NEW u \in Tasks PROVE jobs2[u] = IF u = t THEN n ELSE jobs[u]
      OBVIOUS
<1>2. QED  BY <1>1

\* A step of the Agent or of the Core, with nothing for the Broker yet.
LEMMA NewcomerGoes ==
  ASSUME StrictKnown(FALSE), NewcomerInv, \A t \in Tasks : Asking(job'[t]),
         Calm(orch'), Silent(strictCore'), broker' = broker, store'.enabled \/ store' = store
  PROVE  NewcomerInv'
<1>1. PICK jobs, s : jobs = job' /\ s = store'
      OBVIOUS
<1>2. ASSUME NEW p, CommitAhead(p, broker.queue, jobs) PROVE CommitAhead(p, broker.queue, job)
      BY <1>1, <1>2 DEF CommitAhead, Asking, Commits
<1>3. Covered(broker, job, store.policy) => Covered(broker, jobs, store.policy)
      BY <1>2 DEF Covered, Armable
<1>4. s.enabled \/ Covered(broker, jobs, s.policy)
      BY <1>1, <1>3, AskingFacts
<1>5. Newcomer(orch', jobs, broker, strictCore')
      BY <1>1, AskingFacts DEF Newcomer
<1>6. QED  BY <1>1, <1>4, <1>5 DEF NewcomerInv

\* A step of the Broker, or of a task with it, that executes nothing for this Agent.
LEMMA NewcomerWaits ==
  ASSUME StrictKnown(FALSE), NewcomerInv, Serves(job, broker, job', broker'),
         \A t \in Tasks : job'[t] = job[t] \/ job'[t].at = "waiting" \/ job'[t].what = Error,
         Fenced(broker'.queue), UNCHANGED <<store, orch, strictCore>>
  PROVE  NewcomerInv'
<1>1. PICK jobs, b2 : jobs = job' /\ b2 = broker'
      OBVIOUS
<1>2. BrokerSound(broker) /\ RecordedOnce(broker, orch, job)
      BY DEF StrictKnown, Knows
<1>3. Serves(job, broker, jobs, b2)
      BY <1>1
<1>4. Armable(b2, jobs) => b2.record = broker.record /\ Armable(broker, job)
      BY <1>2, <1>3, ServesQuietly
<1>5. Covered(broker, job, store.policy) => Covered(b2, jobs, store.policy)
      BY <1>4 DEF Covered
<1>6. ASSUME NEW t \in Tasks PROVE Asking(jobs[t])
  <2>1. Asking(job[t])
        BY AskingFacts
  <2>2. jobs[t] = job[t] \/ Served(job[t], jobs[t], b2)
        BY <1>3 DEF Serves
  <2>3. jobs[t] = job[t] \/ jobs[t].at = "waiting" \/ jobs[t].what = Error
        BY <1>1
  <2>4. QED  BY <2>1, <2>2, <2>3 DEF Asking, Served
<1>7. Newcomer(orch, jobs, b2, strictCore)
      BY <1>1, <1>6, AskingFacts DEF Newcomer
<1>8. QED  BY <1>1, <1>5, <1>7, AskingFacts DEF NewcomerInv

LEMMA UnarmedIsWatched ==
  ASSUME NEW b, NEW jobs, ~Armable(b, jobs), NEW o, NEW s
  PROVE  Watched(b, o, s, jobs)
BY DEF Watched, Covered

\* The engine executes what an earlier Agent has left, or the newcomer's preparation.
LEMMA NewcomerServed ==
  ASSUME StrictKnown(FALSE), NewcomerInv, EngineExecutes
  PROVE  NewcomerInv' \/ Watched(broker, orch, store, job)'
<1> DEFINE q == broker.queue
           item == Head(q)
<1>1. /\ Serves(job, broker, job', broker')
      /\ item.cmd.op = "Prepare" => broker'.mode # "armed"
      /\ item.client = None => job' = job /\ broker'.queue = Tail(q)
      BY EngineExecutesKeeps DEF EngineMoves
<1>2. q \in Queues /\ q # <<>> /\ QueueKnows(q, job) /\ Fenced(q)
      BY AskingFacts DEF StrictKnown, Knows, BrokerSound, EngineExecutes
<1>3. /\ item = q[1] /\ 1 \in 1 .. Len(q) /\ item.client \in Tasks \cup {None}
      /\ \A i \in 1 .. Len(Tail(q)) : i + 1 \in 1 .. Len(q) /\ Tail(q)[i] = q[i + 1]
  <2>1. PICK f : f = q
        OBVIOUS
  <2>2. f \in Queues /\ f # <<>>
        BY <1>2, <2>1
  <2> HIDE DEF q
  <2>3. /\ Head(f) = f[1] /\ 1 \in 1 .. Len(f)
        /\ Head(f) \in [cmd : Commands, client : Tasks \cup {None}]
        /\ \A i \in 1 .. Len(Tail(f)) : i + 1 \in 1 .. Len(f) /\ Tail(f)[i] = f[i + 1]
        BY <2>2, TailQueue
  <2>4. QED  BY <2>1, <2>3
<1>4. CASE item.client = None
  <2>1. Fenced(Tail(q))
    <3>1. SUFFICES ASSUME NEW i \in 1 .. Len(Tail(q)), NEW k \in 1 .. Len(Tail(q)), i <= k,
                          Tail(q)[i].client # None
                   PROVE  Tail(q)[k].cmd.op # "Commit"
          BY DEF Fenced
    <3>2. /\ i + 1 \in 1 .. Len(q) /\ Tail(q)[i] = q[i + 1]
          /\ k + 1 \in 1 .. Len(q) /\ Tail(q)[k] = q[k + 1]
          BY <1>3
    <3>3. i + 1 <= k + 1
          BY <3>1
    <3>4. QED  BY <1>2, <3>1, <3>2, <3>3 DEF Fenced
  <2>2. job' = job /\ broker'.queue = Tail(q)
        BY <1>1, <1>4
  <2>3. UNCHANGED <<store, orch, strictCore>>
        BY DEF EngineExecutes
  <2>4. QED  BY <1>1, <2>1, <2>2, <2>3, NewcomerWaits
<1>5. CASE item.client # None
  <2>1. job[item.client].at = "waiting" /\ job[item.client].what = item.cmd
        BY <1>2, <1>3, <1>5 DEF QueueKnows
  <2>2. item.cmd.op = "Prepare"
        BY <1>3, <1>5, <2>1, AskingFacts DEF Asking
  <2>3. \A k \in 1 .. Len(q) : q[k].cmd.op # "Commit"
    <3>1. ASSUME NEW k \in 1 .. Len(q) PROVE 1 <= k
          OBVIOUS
    <3>2. QED  BY <1>2, <1>3, <1>5, <3>1 DEF Fenced
  <2>4. \A p : ~CommitAhead(p, q, job)
        BY <2>3, AskingFacts DEF CommitAhead
  <2>5. PICK jobs, b2 : jobs = job' /\ b2 = broker'
        OBVIOUS
  <2>6. b2.mode # "armed" /\ \A p : ~CommitAhead(p, b2.queue, jobs)
        BY <1>1, <2>2, <2>4, <2>5 DEF Serves
  <2>7. ~Armable(b2, jobs)
        BY <2>6 DEF Armable
  <2>8. QED  BY <2>5, <2>7, UnarmedIsWatched
<1>6. QED  BY <1>4, <1>5

LEMMA NewcomerSends ==
  ASSUME StrictKnown(FALSE), NewcomerInv, NEW t \in Tasks, SendToBroker(t)
  PROVE  NewcomerInv'
<1>1. Serves(job, broker, job', broker')
      BY SendToBrokerKeeps
<1>2. /\ job \in [Tasks -> Work] /\ BrokerSound(broker) /\ Fenced(broker.queue)
      /\ job[t].at = "broker" /\ Asking(job[t]) /\ JobSound(job[t])
      BY AskingFacts DEF SendToBroker
<1>3. /\ \A u \in Tasks : job'[u] = job[u] \/ job'[u].at = "waiting" \/ job'[u].what = Error
      /\ Fenced(broker'.queue)
  <2>1. CASE /\ broker' = Queued(IF Activates(t) THEN Activated(broker) ELSE broker, job[t].what, t)
             /\ job' = [job EXCEPT ![t].at = "waiting"]
    <3>1. PICK b1 : b1 = IF Activates(t) THEN Activated(broker) ELSE broker
          OBVIOUS
    <3>2. BrokerSound(b1) /\ b1.queue = broker.queue
          BY <1>2, <3>1, ActivatedSound
    <3>3. PICK cmd : cmd = job[t].what
          OBVIOUS
    <3>4. cmd \in Commands /\ cmd.op = "Prepare"
          BY <1>2, <3>3 DEF JobSound, CommandSound, Asking
    <3>5. PICK b2 : b2 = broker'
          OBVIOUS
    <3>6. b2 = Queued(b1, cmd, t)
          BY <2>1, <3>1, <3>3, <3>5
    <3>7. \A i \in 1 .. Len(b2.queue) :
            \/ i \in 1 .. Len(b1.queue) /\ b2.queue[i] = b1.queue[i]
            \/ i \notin 1 .. Len(b1.queue) /\ b2.queue[i].cmd = cmd
          BY <3>2, <3>4, <3>6, QueuedLast
    <3>8. Fenced(b2.queue)
      <4>1. SUFFICES ASSUME NEW i \in 1 .. Len(b2.queue), NEW k \in 1 .. Len(b2.queue), i <= k,
                            b2.queue[i].client # None, b2.queue[k].cmd.op = "Commit"
                     PROVE  FALSE
            BY DEF Fenced
      <4>2. k \in 1 .. Len(b1.queue) /\ b2.queue[k] = b1.queue[k]
            BY <3>4, <3>7, <4>1
      <4>3. PICK m \in Nat : m = Len(b1.queue)
            BY <3>2, LenProperties DEF BrokerSound, Queues
      <4>4. i \in 1 .. Len(b1.queue)
            BY <4>1, <4>2, <4>3
      <4>5. b2.queue[i] = b1.queue[i]
            BY <3>7, <4>4
      <4>6. QED  BY <1>2, <3>2, <4>1, <4>2, <4>4, <4>5 DEF Fenced
    <3>9. \A u \in Tasks : job'[u] = job[u] \/ job'[u].at = "waiting"
          BY <1>2, <2>1 DEF Work
    <3>10. QED  BY <3>5, <3>8, <3>9
  <2>2. CASE Answered(t, Error) /\ UNCHANGED broker
    <3>1. \A u \in Tasks : job'[u] = job[u] \/ job'[u].what = Error
          BY <1>2, <2>2 DEF Answered, Work
    <3>2. QED  BY <1>2, <2>2, <3>1
  <2>3. QED  BY <2>1, <2>2 DEF SendToBroker
<1>4. QED  BY <1>1, <1>3, NewcomerWaits DEF SendToBroker

LEMMA NewcomerGivesUp ==
  ASSUME StrictKnown(FALSE), NewcomerInv, NEW t \in Tasks, ClientGivesUp(t)
  PROVE  NewcomerInv'
<1>1. Serves(job, broker, job', broker')
      BY ClientGivesUpKeeps
<1>2. /\ job \in [Tasks -> Work] /\ broker.queue \in Queues /\ Fenced(broker.queue)
      /\ job[t].at = "waiting" /\ job[t].what.op = "Prepare"
      BY AskingFacts DEF ClientGivesUp, Asking, BrokerSound
<1>3. PICK f : f = Forsaken(broker.queue, {t})
      OBVIOUS
<1>4. /\ f \in Queues /\ Len(f) = Len(broker.queue)
      /\ \A i \in 1 .. Len(broker.queue) :
           f[i].cmd = broker.queue[i].cmd /\ f[i].client \in {None, broker.queue[i].client}
      BY <1>2, <1>3, ForsakenQueue
<1>5. Fenced(f)
      BY <1>2, <1>4 DEF Fenced
<1>6. broker' = [broker EXCEPT !.queue = f] /\ Answered(t, Error)
      BY <1>2, <1>3 DEF ClientGivesUp, Reply
<1>7. broker'.queue = f
      BY <1>6, AskingFacts DEF BrokerSound
<1>8. \A u \in Tasks : job'[u] = job[u] \/ job'[u].what = Error
      BY <1>2, <1>6 DEF Answered, Work
<1>9. QED  BY <1>1, <1>5, <1>7, <1>8, NewcomerWaits DEF ClientGivesUp

LEMMA NewcomerCutOff ==
  ASSUME StrictKnown(FALSE), NewcomerInv, SessionEnds \/ BrokerRestarts
  PROVE  NewcomerInv'
<1>1. Serves(job, broker, job', broker') /\ BrokerSound(broker) /\ broker.queue \in Queues
      BY CutOffKeeps, AskingFacts DEF BrokerSound
<1>2. \A u \in Tasks : job'[u] = job[u] \/ job'[u].what = Error
  <2>1. job' = [t \in Tasks |-> IF t \in Waiting
                                  THEN [job[t] EXCEPT !.at = "answered", !.what = Error]
                                  ELSE job[t]]
        BY DEF SessionEnds, BrokerRestarts, CutOff
  <2>2. \A u \in Tasks : job[u] \in Work
        BY AskingFacts
  <2>3. QED  BY <2>1, <2>2 DEF Work
<1>3. broker'.queue = Forsaken(broker.queue, Tasks) \/ broker'.queue = <<>>
  <2>1. CASE SessionEnds
        BY <1>1, <2>1 DEF SessionEnds, BrokerSound
  <2>2. CASE BrokerRestarts
    <3>1. PICK b : b = Blocked(broker)
          OBVIOUS
    <3>2. BrokerSound(b) /\ broker' = [b EXCEPT !.session = "none", !.queue = <<>>]
          BY <1>1, <2>2, <3>1, BlockedSound DEF BrokerRestarts
    <3>3. QED  BY <3>2 DEF BrokerSound
  <2>3. QED  BY <2>1, <2>2
<1>4. Fenced(broker'.queue)
  <2>1. CASE broker'.queue = <<>>
    <3>1. Len(broker'.queue) = 0
          BY <2>1, EmptySeq
    <3>2. QED  BY <3>1 DEF Fenced
  <2>2. CASE broker'.queue = Forsaken(broker.queue, Tasks)
    <3>1. PICK f : f = broker'.queue /\ f = Forsaken(broker.queue, Tasks)
          BY <2>2
    <3>2. /\ Len(f) = Len(broker.queue)
          /\ \A i \in 1 .. Len(broker.queue) :
               f[i].client = IF broker.queue[i].client \in Tasks THEN None
                                                                 ELSE broker.queue[i].client
          BY <1>1, <3>1, ForsakenQueue
    <3>3. \A i \in 1 .. Len(broker.queue) : broker.queue[i].client \in Tasks \cup {None}
      <4>1. ASSUME NEW i \in 1 .. Len(broker.queue)
            PROVE  broker.queue[i] \in [cmd : Commands, client : Tasks \cup {None}]
            BY <1>1, ElementOfSeq DEF Queues
      <4>2. QED  BY <4>1
    <3>4. \A i \in 1 .. Len(f) : f[i].client = None
          BY <3>2, <3>3
    <3>5. QED  BY <3>1, <3>4 DEF Fenced
  <2>3. QED  BY <1>3, <2>1, <2>2
<1>5. QED  BY <1>1, <1>2, <1>4, NewcomerWaits DEF SessionEnds, BrokerRestarts

LEMMA NewcomerReaped ==
  ASSUME StrictKnown(FALSE), NewcomerInv, ReapSession \/ BrokerFailsClosed
  PROVE  NewcomerInv'
<1>1. Serves(job, broker, job', broker') /\ BrokerSound(broker) /\ Fenced(broker.queue)
      BY ReapKeeps, AskingFacts
<1>2. PICK b : b = Blocked(broker)
      OBVIOUS
<1>3. BrokerSound(b) /\ b.queue = broker.queue
      BY <1>1, <1>2, BlockedSound
<1>4. broker' = [b EXCEPT !.session = "none"] \/ broker' = b
      BY <1>2 DEF ReapSession, BrokerFailsClosed
<1>5. broker'.queue = broker.queue
      BY <1>3, <1>4 DEF BrokerSound
<1>6. QED  BY <1>1, <1>5, NewcomerWaits DEF ReapSession, BrokerFailsClosed

LEMMA NewcomerLoses ==
  ASSUME StrictKnown(FALSE), NewcomerInv, NEW t \in Tasks, HandleAnswer(t)
  PROVE  NewcomerInv'
<1>1. /\ job \in [Tasks -> Work] /\ \A u \in Tasks : Asking(job[u])
      /\ Calm(orch) /\ Silent(strictCore) /\ OrchSound(orch)
      BY AskingFacts
<1>2. /\ job[t].at = "answered" /\ job[t].what = Error /\ ~job[t].stale
      /\ job[t].then \in {"done", "restore"}
      BY <1>1 DEF HandleAnswer, Asking
<1>3. orch.phase = "AwaitPrepare" /\ orch.desired # None
      BY <1>2, AskingDrives
<1>4. Lost(t, orch) /\ store' = store
      BY <1>2 DEF HandleAnswer, DriveAnswer, StaleAnswer, HealthAnswer, RollbackAnswer
<1>5. PICK o : o = BrokerLost(orch)
      OBVIOUS
<1>6. o.phase = "AwaitPrepare" /\ o.generation = 0 /\ o.state = "Blocking"
      BY <1>1, <1>3, <1>5 DEF BrokerLost, BackendLost, Calm, OrchSound
<1>7. PICK j \in Work : j = job[t]
      BY <1>1
<1>8. PICK n : n = [j EXCEPT !.at = "failed", !.what = None]
      OBVIOUS
<1>9. Asking(n)
      BY <1>2, <1>7, <1>8 DEF Asking, Work
<1>10. job' = [job EXCEPT ![t] = n]
       BY <1>1, <1>4, <1>7, <1>8, FailedIs DEF Lost, Drive
<1>11. \A u \in Tasks : Asking(job'[u])
  <2>1. PICK jobs : jobs = job'
        OBVIOUS
  <2>2. QED  BY <1>1, <1>9, <1>10, <2>1, AskingUpdate
<1>12. Calm(orch')
       BY <1>4, <1>5, <1>6 DEF Calm, Lost
<1>13. QED  BY <1>1, <1>4, <1>11, <1>12, NewcomerGoes DEF HandleAnswer

\* A task starts anew, or for the first time.
LEMMA StartAsks ==
  ASSUME NEW do, \/ do.to \in {"failed", "recover"}
                 \/ do.to = "broker" /\ do.what.op = "Prepare"
  PROVE  Asking([at |-> do.to, what |-> do.what, then |-> "done", prev |-> None, stale |-> FALSE])
BY DEF Asking

LEMMA PrepareAsks ==
  ASSUME NEW p
  PROVE  Prepare(p).to = "broker" /\ Prepare(p).what.op = "Prepare"
BY DEF Prepare, ToBroker, Command

\* Task t starts with do; the controller is calm and the Core silent.
LEMMA NewcomerStarts ==
  ASSUME StrictKnown(FALSE), NewcomerInv, NEW t \in Tasks, NEW do, Start(t, do, "done", None),
         \/ do.to \in {"failed", "recover"}
         \/ do.to = "broker" /\ do.what.op = "Prepare",
         Calm(orch'), strictCore' = strictCore, broker' = broker,
         store'.enabled \/ store' = store
  PROVE  NewcomerInv'
<1>1. PICK n : n = [at |-> do.to, what |-> do.what, then |-> "done", prev |-> None,
                    stale |-> FALSE]
      OBVIOUS
<1>2. Asking(n)
      BY <1>1, StartAsks
<1>3. PICK jobs : jobs = job'
      OBVIOUS
<1>4. jobs = [job EXCEPT ![t] = n]
      BY <1>1, <1>3 DEF Start
<1>5. \A u \in Tasks : Asking(jobs[u])
      BY <1>2, <1>4, AskingFacts, AskingUpdate
<1>6. QED  BY <1>3, <1>5, AskingFacts, NewcomerGoes

LEMMA NewcomerActs ==
  ASSUME StrictKnown(FALSE), NewcomerInv,
         \/ \E t \in Tasks : PublishFailure(t)
         \/ CoreLossNoticed \/ CoreLossBlocks \/ CoreReady \/ Schedule \/ StartAttempt
         \/ RecoverStep \/ IntentUnwritten \/ CoreStops \/ CoreRestarts \/ CoreDies
         \/ \E p \in Policies : UiApply(p)
  PROVE  NewcomerInv'
<1>1. /\ job \in [Tasks -> Work] /\ (\A t \in Tasks : Asking(job[t]) /\ JobSound(job[t]))
      /\ Calm(orch) /\ Silent(strictCore) /\ CoreSound(strictCore)
      BY AskingFacts DEF StrictKnown
<1>2. /\ "core" \in Tasks /\ "recovery" \in Tasks /\ "mutation" \in Tasks
      BY DEF Tasks
<1>3. ASSUME NEW t \in Tasks, PublishFailure(t) PROVE NewcomerInv'
  <2>1. job[t].then # "rollback"
        BY <1>1 DEF Asking
  <2>2. job' = [job EXCEPT ![t] = NoJob]
        BY <1>3, <2>1 DEF PublishFailure
  <2>3. PICK jobs : jobs = job'
        OBVIOUS
  <2>4. \A u \in Tasks : Asking(jobs[u])
        BY <1>1, <2>2, <2>3, AskingUpdate, IdleAsks
  <2>5. QED  BY <1>1, <1>3, <2>3, <2>4, NewcomerGoes DEF PublishFailure
<1>4. CASE CoreLossNoticed
  <2>1. Silent(strictCore')
        BY <1>1, <1>4 DEF CoreLossNoticed, Unlinked, Silent, CoreSound
  <2>2. job["core"] = NoJob
        BY <1>1, <1>2, <1>4 DEF CoreLossNoticed, Idle, JobSound
  <2>3. PICK n : n = [NoJob EXCEPT !.at = "lost"]
        OBVIOUS
  <2>4. Asking(n)
        BY <2>3 DEF Asking, NoJob
  <2>5. job' = [job EXCEPT !["core"] = n] \/ job' = job
        BY <1>1, <1>2, <1>4, <2>2, <2>3 DEF CoreLossNoticed
  <2>6. PICK jobs : jobs = job'
        OBVIOUS
  <2>7. \A u \in Tasks : Asking(jobs[u])
        BY <1>1, <1>2, <2>4, <2>5, <2>6, AskingUpdate
  <2>8. QED  BY <1>1, <1>4, <2>1, <2>6, <2>7, NewcomerGoes DEF CoreLossNoticed
<1>5. CASE CoreLossBlocks
  <2>1. orch.phase = "AwaitPrepare"
        BY <1>2, <1>5, AskingDrives DEF CoreLossBlocks
  <2>2. ForceBlocking(orch, runtime.policy).orch = orch
        /\ ForceBlocking(orch, runtime.policy).do = Failed
        BY <2>1 DEF ForceBlocking, CanForceBlocking, Result
  <2>3. orch' = orch /\ Start("core", Failed, "done", None)
        BY <1>5, <2>2 DEF CoreLossBlocks
  <2>4. QED  BY <1>1, <1>2, <1>5, <2>3, FailedIs, NewcomerStarts DEF CoreLossBlocks
<1>6. CASE CoreReady \/ CoreStops \/ CoreRestarts \/ CoreDies \/ Schedule \/ IntentUnwritten
  <2>1. Silent(strictCore')
    <3>1. CASE CoreReady
          BY <3>1 DEF CoreReady, CoreUp, Silent
    <3>2. CASE CoreStops
          BY <1>1, <3>2 DEF CoreStops, Unlinked, Silent, CoreSound
    <3>3. CASE CoreRestarts
          BY <1>1, <3>3 DEF CoreRestarts, Silent, CoreSound
    <3>4. CASE CoreDies
          BY <1>1, <3>4 DEF CoreDies, Silent, CoreSound
    <3>5. CASE Schedule \/ IntentUnwritten
          BY <1>1, <3>5 DEF Schedule, IntentUnwritten
    <3>6. QED  BY <1>6, <3>1, <3>2, <3>3, <3>4, <3>5
  <2>2. UNCHANGED <<store, orch, job, broker>>
        BY <1>6 DEF CoreReady, CoreStops, CoreRestarts, CoreDies, Schedule, IntentUnwritten
  <2>3. QED  BY <1>1, <2>1, <2>2, NewcomerGoes
<1>7. CASE StartAttempt
  <2>1. Start("recovery", [to |-> "recover", what |-> None], "done", None)
        BY <1>7 DEF StartAttempt
  <2>2. QED  BY <1>1, <1>2, <1>7, <2>1, NewcomerStarts DEF StartAttempt
<1>8. CASE RecoverStep
  <2>1. orch.phase = "AwaitPrepare" /\ ~job["recovery"].stale
        BY <1>1, <1>2, <1>8, AskingDrives DEF RecoverStep, Asking
  <2>2. PICK p : p = runtime.policy
        OBVIOUS
  <2>3. Recover(orch, p) = Result(orch, Prepare(p))
        BY <2>1 DEF Recover
  <2>4. orch' = orch /\ Drive("recovery", Prepare(p))
        BY <1>8, <2>1, <2>2, <2>3 DEF RecoverStep, Becomes, Result
  <2>5. PICK j \in Work : j = job["recovery"]
        BY <1>1, <1>2
  <2>6. PICK n : n = [j EXCEPT !.at = "broker", !.what = Prepare(p).what]
        OBVIOUS
  <2>7. Asking(n)
        BY <1>1, <1>2, <2>5, <2>6, PrepareAsks DEF Asking, Work
  <2>8. PICK jobs : jobs = job'
        OBVIOUS
  <2>9. jobs = [job EXCEPT !["recovery"] = n]
        BY <1>1, <1>2, <2>4, <2>5, <2>6, <2>8, PrepareAsks DEF Drive
  <2>10. \A u \in Tasks : Asking(jobs[u])
         BY <1>1, <1>2, <2>7, <2>9, AskingUpdate
  <2>11. QED  BY <1>1, <1>8, <2>4, <2>8, <2>10, NewcomerGoes DEF RecoverStep
<1>9. ASSUME NEW p \in Policies, UiApply(p) PROVE NewcomerInv'
  <2>1. store'.enabled
    <3>1. StoreSound(store) /\ store' = [store EXCEPT !.enabled = TRUE, !.policy = p]
          BY <1>2, <1>9, TaskFacts DEF UiApply, Applies, Saved
    <3>2. QED  BY <3>1 DEF StoreSound
  <2>2. Calm(orch')
        BY <1>9 DEF UiApply, Applies, Begin, Fresh, Calm
  <2>3. Start("mutation", Prepare(p), "done", None)
        BY <1>9 DEF UiApply, Applies
  <2>4. PICK do : do = Prepare(p)
        OBVIOUS
  <2>5. do.to = "broker" /\ do.what.op = "Prepare" /\ Start("mutation", do, "done", None)
        BY <2>3, <2>4, PrepareAsks
  <2>6. QED  BY <1>1, <1>2, <1>9, <2>1, <2>2, <2>5, NewcomerStarts DEF UiApply
<1>10. QED  BY <1>3, <1>4, <1>5, <1>6, <1>7, <1>8, <1>9

LEMMA NewcomerStep ==
  ASSUME StrictKnown(FALSE), NewcomerInv, StrictNext
  PROVE  NewcomerInv' \/ Watched(broker, orch, store, job)' \/ AgentRestarts
<1>1. /\ \A t \in Tasks : Asking(job[t])
      /\ Calm(orch) /\ Silent(strictCore)
      BY AskingFacts
<1>2. ASSUME NEW t \in Tasks PROVE ~SendToCore(t) /\ ~Publish(t)
      BY <1>1 DEF Asking, SendToCore, Publish
<1>3. ~Rollback
      BY <1>1 DEF Asking, Rollback, Tasks
<1>4. ~CoreHandles /\ ~CoreLine
      BY <1>1 DEF Silent, CoreHandles, CoreLine
<1>5. ~HealthCheck /\ ~UiClear /\ \A p \in Policies : ~UiMigrate(p)
      BY <1>1 DEF Calm, HealthCheck, UiClear, UiMigrate, MutationAllowed, CanReplaceOrDisable
<1>6. CASE StrictProgram
      BY <1>2, <1>3, <1>4, <1>5, <1>6, NewcomerSends, NewcomerLoses, NewcomerServed,
         NewcomerReaped, NewcomerActs DEF StrictProgram
<1>7. CASE StrictEnvironment
      BY <1>5, <1>7, NewcomerGivesUp, NewcomerActs, NewcomerCutOff DEF StrictEnvironment
<1>8. QED  BY <1>6, <1>7 DEF StrictNext

-----------------------------------------------------------------------------
(* The whole: StrictInv holds initially, every step keeps it, and it says  *)
(* what the two properties say.                                            *)

LEMMA InitSound == StrictInit => StrictInv
<1> SUFFICES ASSUME StrictInit PROVE StrictInv
    OBVIOUS
<1>1. /\ store = [enabled |-> FALSE, policy |-> None, open |-> TRUE]
      /\ runtime = NoRuntime /\ orch = Fresh
      /\ job = [t \in Tasks |-> NoJob] /\ published = "Disabled" /\ strictCore = CoreUp
      /\ broker = [record |-> None, mode |-> "none", ingress |-> 0, watermark |-> 0,
                   session |-> "none", queue |-> <<>>]
      /\ strictBudget \in StrictBudgets
      BY DEF StrictInit
<1>2. NoJob.at = "idle" /\ NoJob \in Work /\ JobSound(NoJob) /\ (\A p : ~Commits(NoJob, p))
      BY IdleKnows DEF NoJob, JobSound
<1>3. JobsSound(job) /\ \A t \in Tasks : job[t] = NoJob
      BY <1>1, <1>2 DEF JobsSound
<1>4. <<>> \in Queues /\ Len(<<>>) = 0
      BY EmptySeq DEF Queues
<1>5. /\ BrokerSound(broker) /\ broker.record = None /\ broker.queue = <<>>
      BY <1>1, <1>4 DEF BrokerSound
<1>6. QueueKnows(broker.queue, job)
      BY <1>4, <1>5 DEF QueueKnows
<1>7. OrchSound(orch) /\ orch.phase = "Idle" /\ orch.state = "Disabled"
      BY <1>1, FreshFields DEF OrchSound, Fresh, Fields
<1>8. RuntimeSound(runtime) /\ ~runtime.present /\ StoreSound(store)
      BY <1>1, NoRuntimeSound DEF NoRuntime, StoreSound
<1>9. \A t \in Tasks : JobKnows(t, job[t], orch, runtime)
      BY <1>3, IdleKnows
<1>10. Attended(orch, runtime, job) /\ Stored(store, runtime, orch)
       BY <1>1, <1>7, <1>8 DEF Attended, Stored
<1>11. \A p : ~CommitAhead(p, broker.queue, job)
       BY <1>2, <1>3, <1>4, <1>5 DEF CommitAhead
<1>12. RecordedOnce(broker, orch, job)
       BY <1>2, <1>3, <1>7, <1>11 DEF RecordedOnce
<1>13. Watched(broker, orch, store, job)
       BY <1>2, <1>3, <1>5 DEF Watched, Covered, Armable, OldIsBack, Tasks
<1>14. Knows(FALSE, store, runtime, orch, job, broker)
       BY <1>3, <1>5, <1>6, <1>7, <1>8, <1>9, <1>10, <1>12 DEF Knows
<1>15. CoreSound(strictCore) /\ BudgetSound(strictBudget)
       BY <1>1, CoreUpSound, StrictBudgetsAssumption DEF BudgetSound
<1>16. QED  BY <1>1, <1>13, <1>14, <1>15 DEF StrictInv, StrictKnown, States

\* Only a restart of the Agent can leave something armed that is not watched.
LEMMA StrictKeeps ==
  ASSUME NEW watch \in BOOLEAN, StrictKnown(watch), StrictNext
  PROVE  StrictKnown(watch)' \/ AgentRestarts
<1>1. CASE StrictProgram
  <2>1. ASSUME NEW t \in Tasks, SendToBroker(t) PROVE StrictKnown(watch)'
        BY <2>1, SendToBrokerKeeps
  <2>2. ASSUME NEW t \in Tasks, HandleAnswer(t) PROVE StrictKnown(watch)'
        BY <2>2, HandleAnswerKeeps
  <2>3. ASSUME NEW t \in Tasks, SendToCore(t) PROVE StrictKnown(watch)'
        BY <2>3, SendToCoreKeeps
  <2>4. ASSUME NEW t \in Tasks, Publish(t) PROVE StrictKnown(watch)'
        BY <2>4, PublishKeeps
  <2>5. ASSUME NEW t \in Tasks, PublishFailure(t) PROVE StrictKnown(watch)'
        BY <2>5, PublishFailureKeeps
  <2>6. CASE EngineExecutes
        BY <2>6, EngineExecutesKeeps
  <2>7. CASE Rollback
        BY <2>7, RollbackKeeps
  <2>8. CASE ReapSession \/ BrokerFailsClosed
        BY <2>8, ReapKeeps
  <2>9. CASE CoreHandles
        BY <2>9, CoreHandlesKeeps
  <2>10. CASE CoreLine
         BY <2>10, CoreLineKeeps
  <2>11. CASE CoreLossNoticed
         BY <2>11, CoreLossNoticedKeeps
  <2>12. CASE CoreLossBlocks
         BY <2>12, CoreLossBlocksKeeps
  <2>13. CASE CoreReady
         BY <2>13, CoreLinkKeeps
  <2>14. CASE HealthCheck
         BY <2>14, HealthCheckKeeps
  <2>15. CASE Schedule
         BY <2>15, ScheduleKeeps
  <2>16. CASE StartAttempt
         BY <2>16, StartAttemptKeeps
  <2>17. CASE RecoverStep
         BY <2>17, RecoverStepKeeps
  <2>18. QED  BY <1>1, <2>1, <2>2, <2>3, <2>4, <2>5, <2>6, <2>7, <2>8, <2>9, <2>10, <2>11, <2>12,
                 <2>13, <2>14, <2>15, <2>16, <2>17 DEF StrictProgram
<1>2. CASE StrictEnvironment
  <2>1. ASSUME NEW t \in Tasks, ClientGivesUp(t) PROVE StrictKnown(watch)'
        BY <2>1, ClientGivesUpKeeps
  <2>2. ASSUME NEW p \in Policies, UiApply(p) PROVE StrictKnown(watch)'
        BY <2>2, UiApplyKeeps
  <2>3. ASSUME NEW p \in Policies, UiMigrate(p) PROVE StrictKnown(watch)'
        BY <2>3, UiMigrateKeeps
  <2>4. CASE UiClear
        BY <2>4, UiClearKeeps
  <2>5. CASE IntentUnwritten \/ CoreStops \/ CoreRestarts \/ CoreDies
        BY <2>5, CoreLinkKeeps
  <2>6. CASE SessionEnds \/ BrokerRestarts
        BY <2>6, CutOffKeeps
  <2>7. QED  BY <1>2, <2>1, <2>2, <2>3, <2>4, <2>5, <2>6 DEF StrictEnvironment
<1>3. QED  BY <1>1, <1>2 DEF StrictNext

LEMMA StepSound == StrictInv /\ [StrictNext]_strictVars => StrictInv'
<1> SUFFICES ASSUME StrictInv, [StrictNext]_strictVars PROVE StrictInv'
    OBVIOUS
<1>1. StrictKnown(FALSE) /\ (Watched(broker, orch, store, job) \/ NewcomerInv)
      BY DEF StrictInv
<1>2. CASE AgentRestarts
      BY <1>2, NothingRestoredKeeps, IntentRestoredKeeps DEF AgentRestarts
<1>3. CASE StrictNext /\ ~AgentRestarts
  <2>1. StrictKnown(FALSE)'
        BY <1>1, <1>3, StrictKeeps
  <2>2. CASE Watched(broker, orch, store, job)
    <3>1. StrictKnown(TRUE)
          BY <1>1, <2>2, KnownWatched
    <3>2. StrictKnown(TRUE)'
          BY <1>3, <3>1, StrictKeeps
    <3>3. Watched(broker, orch, store, job)'
          BY <3>2 DEF StrictKnown, Knows
    <3>4. QED  BY <2>1, <3>3 DEF StrictInv
  <2>3. CASE NewcomerInv
    <3>1. NewcomerInv' \/ Watched(broker, orch, store, job)'
          BY <1>1, <1>3, <2>3, NewcomerStep
    <3>2. QED  BY <2>1, <3>1 DEF StrictInv
  <2>4. QED  BY <1>1, <2>2, <2>3
<1>4. CASE UNCHANGED strictVars
  <2>1. /\ store' = store /\ runtime' = runtime /\ orch' = orch /\ job' = job
        /\ published' = published /\ strictCore' = strictCore /\ broker' = broker
        /\ strictBudget' = strictBudget
        BY <1>4 DEF strictVars
  <2>2. QED  BY <1>1, <2>1 DEF StrictInv, StrictKnown, NewcomerInv
<1>5. QED  BY <1>2, <1>3, <1>4

LEMMA StrictTyped == StrictInv => StrictTypeOK
<1> SUFFICES ASSUME StrictKnown(FALSE) PROVE StrictTypeOK
    BY DEF StrictInv
<1>1. /\ StoreSound(store) /\ RuntimeSound(runtime) /\ OrchSound(orch) /\ JobsSound(job)
      /\ BrokerSound(broker) /\ CoreSound(strictCore) /\ published \in States
      BY DEF StrictKnown, Knows
<1>2. ASSUME NEW t \in Tasks
      PROVE  /\ job[t].then \in {"done", "rollback", "status", "health", "restore"}
             /\ job[t].prev \in Policies \cup {None} /\ job[t].stale \in BOOLEAN
             /\ CASE job[t].at \in {"broker", "waiting"} -> job[t].what \in Commands
                  [] job[t].at = "answered" -> job[t].what \in Answers
                  [] job[t].at = "core" -> job[t].what \in Requests
                  [] job[t].at = "publish" -> job[t].what \in [state : States]
                  [] OTHER -> job[t].at \in {"idle", "failed", "rollback", "lost", "recover"}
  <2>1. PICK j \in Work : j = job[t] /\ JobSound(j)
        BY <1>1 DEF JobsSound, JobSound
  <2>2. /\ j.then \in {"done", "rollback", "status", "health", "restore"}
        /\ j.prev \in Policies \cup {None} /\ j.stale \in BOOLEAN /\ j.at \in Points
        BY DEF Work, Ends
  <2>3. /\ j.at \in {"broker", "waiting"} => j.what \in Commands
        /\ j.at = "answered" => j.what \in Answers
        /\ j.at = "core" => j.what \in Requests
        /\ j.at = "publish" => j.what \in [state : States]
        BY <2>1 DEF JobSound, CommandSound
  <2>4. QED  BY <2>1, <2>2, <2>3 DEF Points
<1>3. store \in [enabled : BOOLEAN, policy : Policies \cup {None}, open : BOOLEAN]
      BY <1>1 DEF StoreSound
<1>4. orch \in [phase : Phases, desired : Policies \cup {None}, state : States,
                disabling : BOOLEAN, generation : Nat, pending : Requests \cup {None},
                active : Nat]
      BY <1>1 DEF OrchSound
<1>5. /\ strictCore.ingress \in Nat /\ strictCore.inbox \in Seq(Requests)
      /\ strictCore.outbox \in Seq([generation : Nat, ok : BOOLEAN])
      BY <1>1 DEF CoreSound
<1>6. /\ broker.record \in Policies \cup {None} /\ broker.mode \in {"none", "blocking", "armed"}
      /\ broker.session \in {"none", "alive", "dead"}
      /\ broker.queue \in Seq([cmd : Commands, client : Tasks \cup {None}])
      BY <1>1 DEF BrokerSound, Queues
<1>7. QED  BY <1>1, <1>2, <1>3, <1>4, <1>5, <1>6 DEF StrictTypeOK, RuntimeSound

\* A transaction that is under way has a task that answers for it.
LEMMA StrictAttends == StrictInv => NoOrphanedTransaction
<1> SUFFICES ASSUME StrictKnown(FALSE), Quiet, runtime.present
             PROVE  orch.state \in {"Armed", "Blocking"}
    BY DEF StrictInv, NoOrphanedTransaction
<1>1. \A t \in Tasks : ~Asks(job[t]) /\ ~Ending(job[t])
      BY DEF Quiet, Idle, Asks, Asked, Ending
<1>2. Attended(orch, runtime, job) /\ orch.state \in States
      BY DEF StrictKnown, Knows, OrchSound
<1>3. orch.state \notin {"Disabled", "Preparing", "Recovering"}
      BY <1>1, <1>2 DEF Attended, Tasks
<1>4. QED  BY <1>2, <1>3 DEF States

\* What is armed is watched over, or the Agent is a newcomer without any ingress.
LEMMA StrictWatches == StrictInv => ArmedIsWatched
<1> SUFFICES ASSUME StrictKnown(FALSE), Watched(broker, orch, store, job) \/ NewcomerInv,
                    broker.mode = "armed"
             PROVE  WatchedOver \/ Estranged
    BY DEF StrictInv, ArmedIsWatched
<1>1. BrokerSound(broker) /\ Stored(store, runtime, orch)
      BY DEF StrictKnown, Knows
<1>2. Armable(broker, job)
      BY <1>1 DEF Armable, BrokerSound
<1>3. CASE Watched(broker, orch, store, job)
  <2>1. store.policy # None /\ Revision[broker.record] <= Revision[store.policy]
        BY <1>2, <1>3 DEF Watched, Covered
  <2>2. runtime.present
        BY <1>1, <1>2, <1>3 DEF Stored, Watched, Disabled, Fresh
  <2>3. QED  BY <2>1, <2>2 DEF WatchedOver
<1>4. CASE NewcomerInv
      BY <1>4 DEF NewcomerInv, Newcomer, Calm, Silent, Estranged
<1>5. QED  BY <1>3, <1>4

(* Whatever a task does, and whatever error it meets, the controller is    *)
(* never left between two states with nobody at work: once nothing is      *)
(* under way, the policy is armed or blocked, the two states on which the  *)
(* recovery supervisor acts (runtime.rs:915, 947).                         *)
THEOREM TransactionsAttended == StrictSpec => []AgentInvariant
<1>1. StrictInv => AgentInvariant
      BY StrictTyped, StrictAttends DEF AgentInvariant
<1>2. QED  BY InitSound, StepSound, <1>1, PTL DEF StrictSpec

(* What the Broker has armed is covered by the intent file and by a        *)
(* runtime that watches over it, whatever commits are still in the queue   *)
(* of the engine when the Agent restarts, a migration is rolled back or a  *)
(* policy is disabled (runtime.rs:519, 601-617, 655, 680).  The exception  *)
(* is an Agent that restarted and could not restore its intent, or has not *)
(* prepared it yet (runtime.rs:561-566, 1058-1064): such an Agent *)
(* has asked the Core for no ingress, and the Core forwards for nobody.    *)
THEOREM ArmedPolicyWatched == StrictSpec => []ArmedIsWatched
BY InitSound, StepSound, StrictWatches, PTL DEF StrictSpec
===============================================================================
