-------------------------- MODULE BrokerHostProofs --------------------------
(***************************************************************************)
(* The host of the Broker, for any number of workers, places in the queue, *)
(* sessions and faults.  A request is in the engine's queue exactly while  *)
(* it is called queued, at one place, and the queue keeps the order in     *)
(* which the workers passed requests on; so a request runs after what its  *)
(* sender had heard of, and a failure of the runtime, which empties the    *)
(* queue, leaves nothing of it to run.                                     *)
(***************************************************************************)
EXTENDS BrokerHost, SequenceTheorems, TLAPS

ReqRecords ==
  [command : Commands, session : Sessions,
   at : {"accepted", "queued", "running", "done", "dropped"},
   worker : {"waiting", "answered", "cut"}, stale : BOOLEAN, after : SUBSET Nat]

MainShape(m) ==
  m \in [at : {"starting", "loop", "clean", "wait", "join", "write", "unwind", "stop",
               "joining", "exited"},
         for : Purposes \cup {"none"}, candidate : 0 .. MaxSessions, ok : BOOLEAN]
SesShape(f) ==
  f \in [Sessions -> [pool : {"none", "up", "stopping", "gone"}, process : Nat,
                      known : BOOLEAN]]
ReqShape(f, n) ==
  f \in [1 .. n -> ReqRecords] /\ \A r \in 1 .. n : f[r].after \subseteq 1 .. n
ActorShape(a) ==
  a \in [at : {"init", "health", "failing", "forcing", "ending", "poll",
               "dispatch", "exited"},
         suspended : BOOLEAN, awaited : BOOLEAN, answer : {"none", "ok", "error"}]
QueueShape(q, n) == q \in Seq(1 .. n) /\ Len(q) <= Capacity
ControlShape(c) == c \in {"none", "force", "shutdown"}
ForwardingShape(f) == f \in {"off", "up", "failed"}
AgentShape(a) == a \in [process : Nat, runs : BOOLEAN]

\* The shape of the state with n requests.
ShapeOf(n) ==
  /\ MainShape(main) /\ active \in 0 .. MaxSessions /\ SesShape(ses)
  /\ ReqShape(req, n) /\ ActorShape(actor) /\ QueueShape(queue, n)
  /\ ControlShape(control) /\ ForwardingShape(forwarding) /\ AgentShape(agent)
  /\ shutdown \in BOOLEAN /\ budget \in Limits

Shape == \E n \in Nat : ShapeOf(n)

\* A request is queued at one place, and at most one runs.
QueueMatches ==
  /\ \A i, j \in 1 .. Len(queue) : queue[i] = queue[j] => i = j
  /\ \A i \in 1 .. Len(queue) : req[queue[i]].at = "queued"
  /\ \A r \in Requests : req[r].at = "queued" => \E i \in 1 .. Len(queue) : queue[i] = r
  /\ \A r \in Requests : req[r].at = "running" => actor.at = "dispatch"
  /\ actor.at = "dispatch" => \E r \in Requests : req[r].at = "running"
  /\ \A r, q \in Requests : req[r].at = "running" /\ req[q].at = "running" => r = q

\* What was queued when the failure was found waits for being rejected, or was.
StaleIsRejected ==
  \A r \in Requests : req[r].stale =>
    req[r].at = "dropped" \/ (req[r].at = "queued" /\ actor.at = "failing")

\* The queue keeps the order in which a sender heard and asked.
OrderIsKept ==
  /\ \A r \in Requests : req[r].worker = "answered" => req[r].at # "accepted"
  /\ \A r \in Requests : \A q \in req[r].after : req[q].worker = "answered"
  /\ \A i, j \in 1 .. Len(queue) : queue[i] \in req[queue[j]].after => i < j
  /\ AnswersKeepTheirOrder

RequestsInv == QueueMatches /\ StaleIsRejected /\ OrderIsKept

\* What the main thread has seen to by the time it stops the engine.
MainKnows ==
  /\ main.at = "stop" => main.for = "stop"
  /\ main.at \in {"clean", "join"} => main.for # "stop"
  /\ main.at = "unwind" => ~main.ok
  /\ main.for = "close" => shutdown
  /\ main.ok /\ (main.at \in {"stop", "joining", "exited"} \/ (main.at = "wait" /\ main.for = "stop"))
       => active = 0 /\ shutdown
  /\ main.at = "exited" /\ main.ok => actor.at = "exited"

EngineKnows == ForwardingIsSupervised /\ (actor.at = "init" => forwarding = "off")

HostInv == Shape /\ RequestsInv /\ MainKnows /\ EngineKnows

-----------------------------------------------------------------------------
(* Shapes that writes keep.                                                *)

LEMMA BudgetSpent ==
  ASSUME budget \in Limits,
         NEW what \in {"requests", "agents", "stops", "failures", "delays", "faults"},
         Spent(what)
  PROVE  budget' \in Limits
<1>1. CASE what = "requests"
      BY <1>1 DEF Limits, Spent
<1>2. CASE what = "agents"
      BY <1>2 DEF Limits, Spent
<1>3. CASE what = "stops"
      BY <1>3 DEF Limits, Spent
<1>4. CASE what = "failures"
      BY <1>4 DEF Limits, Spent
<1>5. CASE what = "delays"
      BY <1>5 DEF Limits, Spent
<1>6. CASE what = "faults"
      BY <1>6 DEF Limits, Spent
<1>7. QED  BY <1>1, <1>2, <1>3, <1>4, <1>5, <1>6

LEMMA SesStopped ==
  ASSUME SesShape(ses), NEW s
  PROVE  SesShape(Stopped(s))
<1> DEFINE P(t) == [ses[t] EXCEPT !.pool = IF @ = "up" THEN "stopping" ELSE @]
<1>1. \A t \in Sessions :
        P(t) \in [pool : {"none", "up", "stopping", "gone"}, process : Nat, known : BOOLEAN]
      BY DEF SesShape
<1>2. Stopped(s) = [t \in Sessions |-> IF t = s THEN P(t) ELSE ses[t]]
      BY DEF Stopped, SesShape
<1> HIDE DEF P
<1>3. QED  BY <1>1, <1>2 DEF SesShape

LEMMA AtWritten ==
  ASSUME NEW n \in Nat, ReqShape(req, n), NEW q \in 1 .. n,
         NEW at \in {"accepted", "queued", "running", "done", "dropped"},
         req' = [req EXCEPT ![q].at = at]
  PROVE  /\ ReqShape(req', n)
         /\ \A r \in 1 .. n :
              /\ req'[r].at = IF r = q THEN at ELSE req[r].at
              /\ req'[r].worker = req[r].worker
              /\ req'[r].stale = req[r].stale
              /\ req'[r].after = req[r].after
<1> DEFINE P(r) == [req[r] EXCEPT !.at = at]
           new == [r \in 1 .. n |-> IF r = q THEN P(r) ELSE req[r]]
<1>1. \A r \in 1 .. n : /\ req[r] \in ReqRecords /\ P(r) \in ReqRecords
                        /\ P(r).at = at /\ P(r).worker = req[r].worker
                        /\ P(r).stale = req[r].stale /\ P(r).after = req[r].after
      BY DEF ReqShape, ReqRecords
<1>2. [req EXCEPT ![q].at = at] = new
      BY DEF ReqShape
<1> HIDE DEF P
<1>3. QED  BY <1>1, <1>2 DEF ReqShape

\* The queue is emptied into "dropped".
LEMMA QueueDropped ==
  ASSUME NEW n \in Nat, ReqShape(req, n)
  PROVE  /\ ReqShape(DropQueued, n)
         /\ \A r \in 1 .. n :
              /\ DropQueued[r].at = IF req[r].at = "queued" THEN "dropped" ELSE req[r].at
              /\ DropQueued[r].worker = req[r].worker
              /\ DropQueued[r].stale = req[r].stale
              /\ DropQueued[r].after = req[r].after
<1> DEFINE P(r) == [req[r] EXCEPT !.at = IF @ = "queued" THEN "dropped" ELSE @]
<1>1. \A r \in 1 .. n : /\ P(r) \in ReqRecords
                        /\ P(r).at = (IF req[r].at = "queued" THEN "dropped" ELSE req[r].at)
                        /\ P(r).worker = req[r].worker
                        /\ P(r).stale = req[r].stale /\ P(r).after = req[r].after
      BY DEF ReqShape, ReqRecords
<1>2. DropQueued = [r \in 1 .. n |-> P(r)]
      BY DEF DropQueued, Requests, ReqShape
<1> HIDE DEF P
<1>3. QED  BY <1>1, <1>2 DEF ReqShape

LEMMA StaleMarked ==
  ASSUME NEW n \in Nat, ReqShape(req, n)
  PROVE  /\ ReqShape(MarkStale, n)
         /\ \A r \in 1 .. n :
              /\ MarkStale[r].at = req[r].at
              /\ MarkStale[r].worker = req[r].worker
              /\ MarkStale[r].stale = (req[r].stale \/ req[r].at = "queued")
              /\ MarkStale[r].after = req[r].after
<1> DEFINE P(r) == [req[r] EXCEPT !.stale = @ \/ req[r].at = "queued"]
<1>1. \A r \in 1 .. n : /\ P(r) \in ReqRecords
                        /\ P(r).stale = (req[r].stale \/ req[r].at = "queued")
                        /\ P(r).worker = req[r].worker
                        /\ P(r).at = req[r].at /\ P(r).after = req[r].after
      BY DEF ReqShape, ReqRecords
<1>2. MarkStale = [r \in 1 .. n |-> P(r)]
      BY DEF MarkStale, Requests, ReqShape
<1> HIDE DEF P
<1>3. QED  BY <1>1, <1>2 DEF ReqShape

\* Each place of the queue is rejected: nothing is left of what was queued.
LEMMA AllRejected ==
  ASSUME NEW n \in Nat, ReqShape(req, n), QueueShape(queue, n), QueueMatches
  PROVE  /\ SubSeq(queue, Len(Rejected) + 1, Len(queue)) = << >>
         /\ [r \in Requests |-> [req[r] EXCEPT !.at = IF r \in ToSet(Rejected) THEN "dropped" ELSE @]]
              = DropQueued
<1>1. Len(queue) \in Nat /\ Len(queue) <= Capacity /\ queue \in Seq(1 .. n)
      /\ DOMAIN queue = 1 .. Len(queue)
      BY LenProperties DEF QueueShape
<1>2. Rejected = queue
  <2>1. (IF Len(queue) < Capacity THEN Len(queue) ELSE Capacity) = Len(queue)
    <3>1. PICK m \in Nat : m = Len(queue)
          BY <1>1
    <3>2. m <= Capacity /\ Capacity \in Nat
          BY <1>1, <3>1, CapacitiesAssumption
    <3>3. m < Capacity \/ m = Capacity
          BY <3>2
    <3>4. QED  BY <3>1, <3>3
  <2>2. Rejected = SubSeq(queue, 1, Len(queue))
        BY <2>1 DEF Rejected
  <2>3. QED  BY <1>1, <2>2, SubSeqFull
<1>3. SubSeq(queue, Len(Rejected) + 1, Len(queue)) = << >>
      BY <1>1, <1>2, SubSeqEmpty
<1>4. \A r \in Requests : r \in ToSet(Rejected) <=> req[r].at = "queued"
  <2>1. ToSet(queue) = {queue[i] : i \in 1 .. Len(queue)}
        BY <1>1 DEF ToSet
  <2>2. QED  BY <1>1, <1>2, <2>1 DEF QueueMatches
<1>5. \A r \in Requests :
        [req[r] EXCEPT !.at = IF r \in ToSet(Rejected) THEN "dropped" ELSE @]
          = [req[r] EXCEPT !.at = IF @ = "queued" THEN "dropped" ELSE @]
      BY <1>4
<1>6. QED  BY <1>3, <1>5 DEF DropQueued

-----------------------------------------------------------------------------
(* Where the requests are, and in which order.                             *)

LEMMA RequestsShape ==
  ASSUME NEW n, ReqShape(req, n)
  PROVE  Requests = 1 .. n
BY DEF ReqShape, Requests

\* Steps that leave the requests and the queue alone.
LEMMA RequestsStay ==
  ASSUME RequestsInv, NEW n \in Nat, ReqShape(req, n), UNCHANGED <<req, queue>>,
         actor'.at = "dispatch" <=> actor.at = "dispatch",
         actor.at = "failing" => actor'.at = "failing"
  PROVE  RequestsInv'
<1>1. Requests' = Requests
      BY DEF Requests
<1>2. QueueMatches'
      BY <1>1 DEF RequestsInv, QueueMatches
<1>3. StaleIsRejected'
      BY <1>1 DEF RequestsInv, StaleIsRejected
<1>4. OrderIsKept'
      BY <1>1 DEF RequestsInv, OrderIsKept, AnswersKeepTheirOrder
<1>5. QED  BY <1>2, <1>3, <1>4 DEF RequestsInv

\* A request has come, after what its sender has heard of.
LEMMA RequestSent ==
  ASSUME RequestsInv, NEW n \in Nat, ReqShape(req, n), QueueShape(queue, n),
         NEW command \in Commands, NEW s \in Sessions, UNCHANGED <<actor, queue>>,
         req' = Append(req, [command |-> command, session |-> s, at |-> "accepted",
                             worker |-> "waiting", stale |-> FALSE,
                             after |-> {r \in Requests : req[r].worker = "answered"}])
  PROVE  ReqShape(req', n + 1) /\ QueueShape(queue', n + 1) /\ RequestsInv'
<1> DEFINE heard == {r \in Requests : req[r].worker = "answered"}
           new == [command |-> command, session |-> s, at |-> "accepted",
                   worker |-> "waiting", stale |-> FALSE, after |-> heard]
<1>1. Requests = 1 .. n
      BY RequestsShape
<1>2. heard \subseteq 1 .. n /\ new \in ReqRecords /\ new.at = "accepted" /\ new.worker = "waiting"
      /\ new.stale = FALSE /\ new.after = heard
      BY <1>1 DEF ReqRecords
<1>3. req' = Append(req, new)
      OBVIOUS
<1> HIDE DEF new
<1>4. /\ req' \in [1 .. n + 1 -> ReqRecords] /\ req'[n + 1] = new
      /\ \A r \in 1 .. n : req'[r] = req[r]
  <2>1. req \in Seq(ReqRecords) /\ Len(req) = n
        BY DEF ReqShape
  <2>2. /\ Append(req, new) \in Seq(ReqRecords) /\ Len(Append(req, new)) = n + 1
        /\ Append(req, new)[n + 1] = new
        /\ \A r \in 1 .. n : Append(req, new)[r] = req[r]
        BY <1>2, <2>1, AppendProperties
  <2>3. QED  BY <1>3, <2>2, LenProperties
<1>5. Requests' = 1 .. n + 1 /\ 1 .. n + 1 = 1 .. n \cup {n + 1}
      BY <1>4 DEF Requests
<1>6. ReqShape(req', n + 1)
  <2>1. \A r \in 1 .. n : req'[r].after \subseteq 1 .. n + 1
        BY <1>4, <1>5 DEF ReqShape
  <2>2. req'[n + 1].after \subseteq 1 .. n + 1
        BY <1>2, <1>4, <1>5
  <2>3. QED  BY <1>4, <1>5, <2>1, <2>2 DEF ReqShape
<1>7. /\ QueueShape(queue', n + 1) /\ Len(queue) \in Nat
      /\ \A i \in 1 .. Len(queue) : queue[i] \in 1 .. n
  <2>1. queue \in Seq(1 .. n + 1)
        BY <1>5, SeqMonotonic DEF QueueShape
  <2>2. QED  BY <2>1, LenProperties DEF QueueShape
<1>8. QueueMatches'
  <2>1. \A r \in 1 .. n + 1 : req'[r].at # "accepted" => r \in 1 .. n /\ req'[r] = req[r]
        BY <1>2, <1>4, <1>5
  <2>2. QED  BY <1>1, <1>4, <1>5, <1>7, <2>1 DEF RequestsInv, QueueMatches
<1>9. StaleIsRejected'
      BY <1>1, <1>2, <1>4, <1>5 DEF RequestsInv, StaleIsRejected
<1>10. OrderIsKept'
  <2>1. \A r \in 1 .. n + 1 : req'[r].worker = "answered" => req'[r].at # "accepted"
        BY <1>1, <1>2, <1>4, <1>5 DEF RequestsInv, OrderIsKept
  <2>2. \A r \in 1 .. n : \A q \in req'[r].after : req'[q].worker = "answered"
        BY <1>1, <1>4 DEF RequestsInv, OrderIsKept, ReqShape
  <2>3. \A q \in req'[n + 1].after : req'[q].worker = "answered"
        BY <1>1, <1>2, <1>4
  <2>4. \A i, j \in 1 .. Len(queue) : queue[i] \in req'[queue[j]].after => i < j
        BY <1>4, <1>7 DEF RequestsInv, OrderIsKept
  <2>5. \A r \in 1 .. n + 1 : req'[r].at = "running" =>
           \A q \in req'[r].after : req'[q].at \in {"done", "dropped"}
    <3>1. \A r \in 1 .. n + 1 : req'[r].at = "running" => r \in 1 .. n /\ req'[r] = req[r]
          BY <1>2, <1>4, <1>5
    <3>2. QED  BY <1>1, <1>4, <3>1 DEF RequestsInv, OrderIsKept, AnswersKeepTheirOrder, ReqShape
  <2>6. QED  BY <1>5, <2>1, <2>2, <2>3, <2>4, <2>5 DEF OrderIsKept, AnswersKeepTheirOrder
<1>11. QED  BY <1>6, <1>7, <1>8, <1>9, <1>10 DEF RequestsInv

\* A worker's wait has ended, and what it waited for stays where it is.
LEMMA WaitEnded ==
  ASSUME RequestsInv, NEW n \in Nat, ReqShape(req, n), QueueShape(queue, n), NEW r \in 1 .. n,
         NEW worker \in {"waiting", "answered", "cut"},
         worker = "answered" => req[r].at # "accepted",
         req[r].worker = "waiting",
         req' = [req EXCEPT ![r].worker = worker], UNCHANGED <<actor, queue>>
  PROVE  ReqShape(req', n) /\ RequestsInv'
<1>1. /\ ReqShape(req', n)
      /\ \A q \in 1 .. n : /\ req'[q].at = req[q].at
                           /\ req'[q].worker = IF q = r THEN worker ELSE req[q].worker
                           /\ req'[q].stale = req[q].stale
                           /\ req'[q].after = req[q].after
  <2> DEFINE P(q) == [req[q] EXCEPT !.worker = worker]
  <2>1. \A q \in 1 .. n : /\ req[q] \in ReqRecords /\ P(q) \in ReqRecords
                          /\ P(q).worker = worker /\ P(q).at = req[q].at
                          /\ P(q).stale = req[q].stale /\ P(q).after = req[q].after
        BY DEF ReqShape, ReqRecords
  <2>2. req' = [q \in 1 .. n |-> IF q = r THEN P(q) ELSE req[q]]
        BY DEF ReqShape
  <2> HIDE DEF P
  <2>3. QED  BY <2>1, <2>2 DEF ReqShape
<1>2. Requests = 1 .. n /\ Requests' = 1 .. n
      BY <1>1, RequestsShape DEF ReqShape, Requests
<1>3. Len(queue) \in Nat /\ \A i \in 1 .. Len(queue) : queue[i] \in 1 .. n
      BY LenProperties DEF QueueShape
<1>4. QueueMatches'
      BY <1>1, <1>2, <1>3 DEF RequestsInv, QueueMatches
<1>5. StaleIsRejected'
      BY <1>1, <1>2 DEF RequestsInv, StaleIsRejected
<1>6. OrderIsKept'
  <2>1. \A q \in 1 .. n : req[q].after \subseteq 1 .. n
        BY DEF ReqShape
  <2>2. \A q \in 1 .. n : req[q].worker = "answered" => req'[q].worker = "answered"
        BY <1>1
  <2>3. QED  BY <1>1, <1>2, <1>3, <2>1, <2>2 DEF RequestsInv, OrderIsKept, AnswersKeepTheirOrder
<1>7. QED  BY <1>1, <1>4, <1>5, <1>6 DEF RequestsInv

\* A request takes the last place of the queue, behind all that its sender had heard of.
LEMMA RequestQueued ==
  ASSUME RequestsInv, NEW n \in Nat, ReqShape(req, n), QueueShape(queue, n), NEW r \in 1 .. n,
         req[r].at = "accepted", Len(queue) < Capacity, UNCHANGED actor,
         queue' = Append(queue, r), req' = [req EXCEPT ![r].at = "queued"]
  PROVE  ReqShape(req', n) /\ QueueShape(queue', n) /\ RequestsInv'
<1>1. /\ ReqShape(req', n)
      /\ \A q \in 1 .. n : /\ req'[q].at = IF q = r THEN "queued" ELSE req[q].at
                           /\ req'[q].worker = req[q].worker
                           /\ req'[q].stale = req[q].stale
                           /\ req'[q].after = req[q].after
      BY AtWritten
<1>2. Requests = 1 .. n /\ Requests' = 1 .. n
      BY <1>1, RequestsShape DEF ReqShape, Requests
<1>3. PICK m \in Nat : m = Len(queue)
      BY LenProperties DEF QueueShape
<1>4. /\ \A i \in 1 .. m : queue[i] \in 1 .. n /\ queue'[i] = queue[i]
      /\ queue' \in Seq(1 .. n) /\ Len(queue') = m + 1 /\ queue'[m + 1] = r
  <2>1. queue \in Seq(1 .. n)
        BY DEF QueueShape
  <2>2. QED  BY <1>3, <2>1, AppendProperties, LenProperties
<1>5. QueueShape(queue', n)
      BY <1>3, <1>4, CapacitiesAssumption DEF QueueShape
<1>6. 1 .. m + 1 = 1 .. m \cup {m + 1}
      OBVIOUS
<1>7. \A i \in 1 .. m : queue[i] # r
      BY <1>2, <1>3, <1>4 DEF RequestsInv, QueueMatches
<1>8. QueueMatches'
  <2>1. \A i, j \in 1 .. m + 1 : queue'[i] = queue'[j] => i = j
        BY <1>3, <1>4, <1>6, <1>7 DEF RequestsInv, QueueMatches
  <2>2. \A i \in 1 .. m + 1 : req'[queue'[i]].at = "queued"
        BY <1>1, <1>3, <1>4, <1>6 DEF RequestsInv, QueueMatches
  <2>3. \A q \in 1 .. n : req'[q].at = "queued" => \E i \in 1 .. m + 1 : queue'[i] = q
        BY <1>1, <1>2, <1>3, <1>4, <1>6 DEF RequestsInv, QueueMatches
  <2>4. \A q \in 1 .. n : req'[q].at = "running" <=> req[q].at = "running"
        BY <1>1
  <2>5. QED  BY <1>2, <1>4, <2>1, <2>2, <2>3, <2>4 DEF RequestsInv, QueueMatches
<1>9. StaleIsRejected'
      BY <1>1, <1>2 DEF RequestsInv, StaleIsRejected
<1>10. OrderIsKept'
  <2>1. \A q \in 1 .. n : req[q].after \subseteq 1 .. n /\ r \notin req[q].after
        BY <1>2 DEF RequestsInv, OrderIsKept, ReqShape
  <2>2. \A i, j \in 1 .. m + 1 : queue'[i] \in req'[queue'[j]].after => i < j
    <3>1. \A j \in 1 .. m + 1 : queue'[j] \in 1 .. n
          BY <1>4, <1>6
    <3>2. \A j \in 1 .. m + 1 : queue'[m + 1] \notin req'[queue'[j]].after
          BY <1>1, <1>4, <2>1, <3>1
    <3>3. \A i, j \in 1 .. m : queue'[i] \in req'[queue'[j]].after => i < j
          BY <1>1, <1>3, <1>4 DEF RequestsInv, OrderIsKept
    <3>4. \A i \in 1 .. m : i < m + 1
          OBVIOUS
    <3>5. QED  BY <1>6, <3>2, <3>3, <3>4
  <2>3. \A q \in 1 .. n : req'[q].at = "running" <=> req[q].at = "running"
        BY <1>1
  <2>4. \A q \in 1 .. n : req[q].at \in {"done", "dropped"} => req'[q].at \in {"done", "dropped"}
        BY <1>1
  <2>5. AnswersKeepTheirOrder'
        BY <1>1, <1>2, <2>1, <2>3, <2>4 DEF RequestsInv, OrderIsKept, AnswersKeepTheirOrder
  <2>6. QED  BY <1>1, <1>2, <1>4, <2>1, <2>2, <2>5 DEF RequestsInv, OrderIsKept
<1>11. QED  BY <1>1, <1>5, <1>8, <1>9, <1>10 DEF RequestsInv

\* The engine takes the first of the queue, and all its sender had heard of is over.
LEMMA RequestTaken ==
  ASSUME RequestsInv, NEW n \in Nat, ReqShape(req, n), QueueShape(queue, n),
         actor.at = "poll", actor'.at = "dispatch", queue # << >>, queue' = Tail(queue),
         NEW r, r = Head(queue), req' = [req EXCEPT ![r].at = "running"]
  PROVE  ReqShape(req', n) /\ QueueShape(queue', n) /\ RequestsInv'
<1>1. PICK m \in Nat : m + 1 = Len(queue)
  <2>1. Len(queue) \in Nat /\ Len(queue) # 0
        BY LenProperties, EmptySeq DEF QueueShape
  <2>2. Len(queue) - 1 \in Nat /\ (Len(queue) - 1) + 1 = Len(queue)
        BY <2>1
  <2>3. QED  BY <2>2
<1>2. /\ \A i \in 1 .. m + 1 : queue[i] \in 1 .. n
      /\ queue' \in Seq(1 .. n) /\ Len(queue') = m
      /\ \A i \in 1 .. m : queue'[i] = queue[i + 1]
      /\ r = queue[1] /\ r \in 1 .. n
  <2>1. queue \in Seq(1 .. n)
        BY DEF QueueShape
  <2>2. /\ \A i \in 1 .. m + 1 : queue[i] \in 1 .. n
        /\ queue' \in Seq(1 .. n) /\ Len(queue') = Len(queue) - 1
        /\ \A i \in 1 .. Len(queue') : queue'[i] = queue[i + 1]
        /\ r = queue[1]
        BY <1>1, <2>1, HeadTailProperties, LenProperties
  <2>3. Len(queue') = m
    <3>1. PICK k \in Nat : k = Len(queue)
          BY LenProperties DEF QueueShape
    <3>2. k = m + 1 /\ Len(queue') = k - 1
          BY <1>1, <2>2, <3>1
    <3>3. QED  BY <3>2
  <2>4. 1 \in 1 .. m + 1
        OBVIOUS
  <2>5. QED  BY <2>2, <2>3, <2>4
<1>3. QueueShape(queue', n)
  <2>1. m + 1 <= Capacity /\ Capacity \in Nat
        BY <1>1, CapacitiesAssumption DEF QueueShape
  <2>2. QED  BY <1>2, <2>1 DEF QueueShape
<1>4. /\ ReqShape(req', n)
      /\ \A q \in 1 .. n : /\ req'[q].at = IF q = r THEN "running" ELSE req[q].at
                           /\ req'[q].worker = req[q].worker
                           /\ req'[q].stale = req[q].stale
                           /\ req'[q].after = req[q].after
  <2> DEFINE P(q) == [req[q] EXCEPT !.at = "running"]
  <2>1. \A q \in 1 .. n : /\ req[q] \in ReqRecords /\ P(q) \in ReqRecords
                          /\ P(q).at = "running" /\ P(q).worker = req[q].worker
                          /\ P(q).stale = req[q].stale /\ P(q).after = req[q].after
        BY DEF ReqShape, ReqRecords
  <2>2. req' = [q \in 1 .. n |-> IF q = r THEN P(q) ELSE req[q]]
        BY DEF ReqShape
  <2> HIDE DEF P
  <2>3. QED  BY <2>1, <2>2 DEF ReqShape
<1>5. Requests = 1 .. n /\ Requests' = 1 .. n
      BY <1>4, RequestsShape DEF ReqShape, Requests
<1>6. \A q \in 1 .. n : req[q].at # "running"
      BY <1>5 DEF RequestsInv, QueueMatches
<1>7. /\ \A i \in 1 .. m : i + 1 \in 1 .. m + 1
      /\ \A i, j \in 1 .. m : i + 1 = j + 1 => i = j
      /\ \A i, j \in 1 .. m : i + 1 < j + 1 => i < j
      /\ \A k \in 1 .. m + 1 : k = 1 \/ \E i \in 1 .. m : k = i + 1
  <2>1. \A k \in 1 .. m + 1 : k # 1 => k - 1 \in 1 .. m /\ k = (k - 1) + 1
        OBVIOUS
  <2>2. QED  BY <2>1
<1>8. 1 \in 1 .. m + 1 /\ \A i \in 1 .. m : i + 1 # 1
      OBVIOUS
<1>9. \A i \in 1 .. m : queue'[i] # r /\ queue'[i] \in 1 .. n
  <2>1. \A i, j \in 1 .. m + 1 : queue[i] = queue[j] => i = j
        BY <1>1 DEF RequestsInv, QueueMatches
  <2>2. ASSUME NEW i \in 1 .. m PROVE queue'[i] # r /\ queue'[i] \in 1 .. n
    <3>1. i + 1 \in 1 .. m + 1 /\ 1 \in 1 .. m + 1 /\ i + 1 # 1
          BY <1>7, <1>8
    <3>2. queue[i + 1] # queue[1] /\ queue'[i] = queue[i + 1]
          BY <1>2, <2>1, <3>1
    <3>3. QED  BY <1>2, <3>1, <3>2
  <2>3. QED  BY <2>2
<1>10. req[r].at = "queued"
      BY <1>1, <1>2, <1>8 DEF RequestsInv, QueueMatches
<1>11. QueueMatches'
  <2>1. \A i, j \in 1 .. m : queue'[i] = queue'[j] => i = j
    <3>1. \A i, j \in 1 .. m + 1 : queue[i] = queue[j] => i = j
          BY <1>1 DEF RequestsInv, QueueMatches
    <3>2. QED  BY <1>2, <1>7, <3>1
  <2>2. \A i \in 1 .. m : req'[queue'[i]].at = "queued"
    <3>1. \A i \in 1 .. m : req[queue'[i]].at = "queued"
          BY <1>1, <1>2, <1>7 DEF RequestsInv, QueueMatches
    <3>2. ASSUME NEW i \in 1 .. m PROVE req'[queue'[i]].at = "queued"
      <4>1. queue'[i] \in 1 .. n /\ queue'[i] # r
            BY <1>9
      <4>2. req'[queue'[i]].at = req[queue'[i]].at
            BY <1>4, <4>1
      <4>3. QED  BY <3>1, <4>2
    <3>3. QED  BY <3>2
  <2>3. \A q \in 1 .. n : req'[q].at = "queued" => \E i \in 1 .. m : queue'[i] = q
    <3>1. ASSUME NEW q \in 1 .. n, req'[q].at = "queued" PROVE \E i \in 1 .. m : queue'[i] = q
      <4>1. q # r /\ req[q].at = "queued"
            BY <1>4, <3>1
      <4>2. PICK k \in 1 .. m + 1 : queue[k] = q
            BY <1>1, <1>5, <4>1 DEF RequestsInv, QueueMatches
      <4>3. PICK i \in 1 .. m : k = i + 1
            BY <1>2, <1>7, <4>1, <4>2
      <4>4. QED  BY <1>2, <4>2, <4>3
    <3>2. QED  BY <3>1
  <2>4. \A q \in 1 .. n : req'[q].at = "running" <=> q = r
        BY <1>4, <1>6
  <2>5. QED  BY <1>2, <1>5, <2>1, <2>2, <2>3, <2>4 DEF QueueMatches
<1>12. StaleIsRejected'
  <2>1. ~req[r].stale
        BY <1>2, <1>5, <1>10 DEF RequestsInv, StaleIsRejected
  <2>2. QED  BY <1>4, <1>5, <2>1 DEF RequestsInv, StaleIsRejected
<1>13. OrderIsKept'
  <2>1. \A q \in 1 .. n : req[q].after \subseteq 1 .. n
        BY DEF ReqShape
  <2>2. \A i, j \in 1 .. m : queue'[i] \in req'[queue'[j]].after => i < j
    <3>1. \A i, j \in 1 .. m : queue[i + 1] \in req[queue[j + 1]].after => i + 1 < j + 1
          BY <1>1, <1>7 DEF RequestsInv, OrderIsKept
    <3>2. ASSUME NEW i \in 1 .. m, NEW j \in 1 .. m, queue'[i] \in req'[queue'[j]].after
          PROVE  i < j
      <4>1. queue'[i] = queue[i + 1] /\ queue'[j] = queue[j + 1] /\ queue'[j] \in 1 .. n
            BY <1>2, <1>9
      <4>2. req'[queue'[j]].after = req[queue'[j]].after
            BY <1>4, <4>1
      <4>3. queue[i + 1] \in req[queue[j + 1]].after
            BY <3>2, <4>1, <4>2
      <4>4. QED  BY <1>7, <3>1, <4>3
    <3>3. QED  BY <3>2
  <2>3. ASSUME NEW q \in req[r].after PROVE req'[q].at \in {"done", "dropped"}
    <3>1. q \in 1 .. n /\ req[q].worker = "answered" /\ req[q].at # "accepted"
          BY <1>2, <1>5, <2>1, <2>3 DEF RequestsInv, OrderIsKept
    <3>2. req[q].at # "queued"
      <4>1. ASSUME req[q].at = "queued" PROVE FALSE
        <5>1. PICK k \in 1 .. m + 1 : queue[k] = q
              BY <1>1, <1>5, <3>1, <4>1 DEF RequestsInv, QueueMatches
        <5>2. k < 1
              BY <1>1, <1>2, <1>8, <2>3, <5>1 DEF RequestsInv, OrderIsKept
        <5>3. QED  BY <5>2
      <4>2. QED  BY <4>1
    <3>3. req[q].at \in {"accepted", "queued", "running", "done", "dropped"}
          BY <3>1 DEF ReqShape, ReqRecords
    <3>4. q # r
          BY <1>10, <3>2
    <3>5. QED  BY <1>4, <1>6, <3>1, <3>2, <3>3, <3>4
  <2>4. AnswersKeepTheirOrder'
    <3>1. \A q \in 1 .. n : req'[q].at = "running" => q = r
          BY <1>4, <1>6
    <3>2. QED  BY <1>2, <1>4, <1>5, <2>3, <3>1 DEF AnswersKeepTheirOrder
  <2>5. \A q \in 1 .. n : req'[q].worker = "answered" => req'[q].at # "accepted"
        BY <1>4, <1>5 DEF RequestsInv, OrderIsKept
  <2>6. \A p \in 1 .. n : \A q \in req'[p].after : req'[q].worker = "answered"
        BY <1>4, <1>5, <2>1 DEF RequestsInv, OrderIsKept
  <2>7. QED  BY <1>2, <1>5, <2>2, <2>4, <2>5, <2>6 DEF OrderIsKept
<1>14. QED  BY <1>3, <1>4, <1>11, <1>12, <1>13 DEF RequestsInv

\* The command that runs is over, or one that was not queued yet is given up.
LEMMA RequestOver ==
  ASSUME RequestsInv, NEW n \in Nat, ReqShape(req, n), QueueShape(queue, n), NEW r \in 1 .. n,
         \/ /\ actor.at = "dispatch" /\ req[r].at = "running"
            /\ actor'.at \notin {"dispatch", "failing"}
            /\ req' = [req EXCEPT ![r].at = "done"]
         \/ /\ actor' = actor /\ req[r].at = "accepted"
            /\ req' = [req EXCEPT ![r].at = "dropped"],
         UNCHANGED queue
  PROVE  ReqShape(req', n) /\ RequestsInv'
<1> DEFINE Over ==
      /\ ReqShape(req', n)
      /\ req'[r].at \in {"done", "dropped"}
      /\ \A q \in 1 .. n : /\ q # r => req'[q].at = req[q].at
                           /\ req'[q].worker = req[q].worker
                           /\ req'[q].stale = req[q].stale
                           /\ req'[q].after = req[q].after
<1>2. Over
  <2>1. CASE req' = [req EXCEPT ![r].at = "done"]
    <3>1. /\ ReqShape(req', n)
          /\ \A q \in 1 .. n : /\ req'[q].at = IF q = r THEN "done" ELSE req[q].at
                               /\ req'[q].worker = req[q].worker
                               /\ req'[q].stale = req[q].stale
                               /\ req'[q].after = req[q].after
          BY <2>1, AtWritten
    <3>2. QED  BY <3>1
  <2>2. CASE req' = [req EXCEPT ![r].at = "dropped"]
    <3>1. /\ ReqShape(req', n)
          /\ \A q \in 1 .. n : /\ req'[q].at = IF q = r THEN "dropped" ELSE req[q].at
                               /\ req'[q].worker = req[q].worker
                               /\ req'[q].stale = req[q].stale
                               /\ req'[q].after = req[q].after
          BY <2>2, AtWritten
    <3>2. QED  BY <3>1
  <2>3. QED  BY <2>1, <2>2
<1>3. Requests = 1 .. n /\ Requests' = 1 .. n
      BY <1>2, RequestsShape DEF ReqShape, Requests
<1>4. \A i \in 1 .. Len(queue) : queue[i] \in 1 .. n /\ queue[i] # r
  <2>1. \A i \in 1 .. Len(queue) : queue[i] \in 1 .. n
        BY LenProperties DEF QueueShape
  <2>2. QED  BY <2>1 DEF RequestsInv, QueueMatches
<1>5. /\ \A q \in 1 .. n : req'[q].at = "running" => req[q].at = "running" /\ q # r
      /\ \A q \in 1 .. n : req'[q].at = "queued" <=> req[q].at = "queued"
      BY <1>2
<1>6. QueueMatches'
  <2>1. \A i, j \in 1 .. Len(queue) : queue[i] = queue[j] => i = j
        BY DEF RequestsInv, QueueMatches
  <2>2. \A i \in 1 .. Len(queue) : req'[queue[i]].at = "queued"
        BY <1>4, <1>5 DEF RequestsInv, QueueMatches
  <2>3. \A q \in 1 .. n : req'[q].at = "queued" => \E i \in 1 .. Len(queue) : queue[i] = q
        BY <1>3, <1>5 DEF RequestsInv, QueueMatches
  <2>4. \A q \in 1 .. n : req'[q].at = "running" => actor'.at = "dispatch"
        BY <1>3, <1>5 DEF RequestsInv, QueueMatches
  <2>5. actor'.at = "dispatch" => \E q \in 1 .. n : req'[q].at = "running"
        BY <1>2, <1>3 DEF RequestsInv, QueueMatches
  <2>6. \A p, q \in 1 .. n : req'[p].at = "running" /\ req'[q].at = "running" => p = q
        BY <1>3, <1>5 DEF RequestsInv, QueueMatches
  <2>7. QED  BY <1>3, <2>1, <2>2, <2>3, <2>4, <2>5, <2>6 DEF QueueMatches
<1>7. StaleIsRejected'
  <2>1. ~req[r].stale
        BY <1>3 DEF RequestsInv, StaleIsRejected
  <2>2. \A q \in 1 .. n : q # r => (req[q].at = "queued" /\ actor.at = "failing" => actor' = actor)
        OBVIOUS
  <2>3. QED  BY <1>2, <1>3, <2>1, <2>2 DEF RequestsInv, StaleIsRejected
<1>8. OrderIsKept'
  <2>1. \A q \in 1 .. n : req[q].after \subseteq 1 .. n
        BY DEF ReqShape
  <2>2. \A p \in 1 .. n : \A q \in req'[p].after : req'[q].worker = "answered"
        BY <1>2, <1>3, <2>1 DEF RequestsInv, OrderIsKept
  <2>3. \A q \in 1 .. n : req'[q].worker = "answered" => req'[q].at # "accepted"
        BY <1>2, <1>3 DEF RequestsInv, OrderIsKept
  <2>4. \A i, j \in 1 .. Len(queue) : queue[i] \in req'[queue[j]].after => i < j
        BY <1>2, <1>4 DEF RequestsInv, OrderIsKept
  <2>5. AnswersKeepTheirOrder'
        BY <1>2, <1>3, <1>5, <2>1 DEF RequestsInv, OrderIsKept, AnswersKeepTheirOrder
  <2>6. QED  BY <1>3, <2>2, <2>3, <2>4, <2>5 DEF OrderIsKept
<1>9. QED  BY <1>2, <1>6, <1>7, <1>8 DEF RequestsInv

\* The queue is emptied: by the rejection of a failure, or with its receiver.
LEMMA RequestsDropped ==
  ASSUME RequestsInv, NEW n \in Nat, ReqShape(req, n), QueueShape(queue, n),
         actor.at # "dispatch", actor'.at \notin {"dispatch", "failing"},
         req' = DropQueued, queue' = << >>
  PROVE  ReqShape(req', n) /\ QueueShape(queue', n) /\ RequestsInv'
<1>1. /\ ReqShape(req', n)
      /\ \A q \in 1 .. n :
           /\ req'[q].at = IF req[q].at = "queued" THEN "dropped" ELSE req[q].at
           /\ req'[q].worker = req[q].worker
           /\ req'[q].stale = req[q].stale
           /\ req'[q].after = req[q].after
      BY QueueDropped
<1>2. Requests = 1 .. n /\ Requests' = 1 .. n
      BY <1>1, RequestsShape DEF ReqShape, Requests
<1>3. QueueShape(queue', n) /\ Len(queue') = 0
      BY EmptySeq, CapacitiesAssumption DEF QueueShape
<1>4. \A q \in 1 .. n : req[q].at # "running"
      BY <1>2 DEF RequestsInv, QueueMatches
<1>5. \A q \in 1 .. n : req'[q].at \notin {"queued", "running"}
      BY <1>1, <1>4
<1>6. QueueMatches'
      BY <1>2, <1>3, <1>5 DEF QueueMatches
<1>7. StaleIsRejected'
      BY <1>1, <1>2 DEF RequestsInv, StaleIsRejected
<1>8. OrderIsKept'
  <2>1. \A q \in 1 .. n : req[q].after \subseteq 1 .. n
        BY DEF ReqShape
  <2>2. \A p \in 1 .. n : \A q \in req'[p].after : req'[q].worker = "answered"
        BY <1>1, <1>2, <2>1 DEF RequestsInv, OrderIsKept
  <2>3. \A q \in 1 .. n : req'[q].worker = "answered" => req'[q].at # "accepted"
        BY <1>1, <1>2 DEF RequestsInv, OrderIsKept
  <2>4. AnswersKeepTheirOrder'
        BY <1>2, <1>5 DEF AnswersKeepTheirOrder
  <2>5. QED  BY <1>2, <1>3, <2>2, <2>3, <2>4 DEF OrderIsKept
<1>9. QED  BY <1>1, <1>3, <1>6, <1>7, <1>8 DEF RequestsInv

\* A failure is found: what is queued is stale from now on.
LEMMA FailureFound ==
  ASSUME RequestsInv, NEW n \in Nat, ReqShape(req, n), QueueShape(queue, n),
         actor.at = "health", actor'.at = "failing",
         req' = MarkStale, UNCHANGED queue
  PROVE  ReqShape(req', n) /\ RequestsInv'
<1>1. /\ ReqShape(req', n)
      /\ \A q \in 1 .. n :
           /\ req'[q].at = req[q].at
           /\ req'[q].worker = req[q].worker
           /\ req'[q].stale = (req[q].stale \/ req[q].at = "queued")
           /\ req'[q].after = req[q].after
      BY StaleMarked
<1>2. Requests = 1 .. n /\ Requests' = 1 .. n
      BY <1>1, RequestsShape DEF ReqShape, Requests
<1>3. \A i \in 1 .. Len(queue) : queue[i] \in 1 .. n
      BY LenProperties DEF QueueShape
<1>4. \A q \in 1 .. n : req[q].at # "running"
      BY <1>2 DEF RequestsInv, QueueMatches
<1>5. QueueMatches'
      BY <1>1, <1>2, <1>3, <1>4 DEF RequestsInv, QueueMatches
<1>6. StaleIsRejected'
      BY <1>1, <1>2 DEF RequestsInv, StaleIsRejected
<1>7. OrderIsKept'
  <2>1. \A q \in 1 .. n : req[q].after \subseteq 1 .. n
        BY DEF ReqShape
  <2>2. AnswersKeepTheirOrder'
        BY <1>1, <1>2, <1>4 DEF AnswersKeepTheirOrder
  <2>3. QED  BY <1>1, <1>2, <1>3, <2>1, <2>2 DEF RequestsInv, OrderIsKept
<1>8. QED  BY <1>1, <1>5, <1>6, <1>7 DEF RequestsInv

-----------------------------------------------------------------------------
(* The main thread.                                                        *)

LEMMA NoSession == 0 \in 0 .. MaxSessions
BY SessionsAssumption

\* Steps that change neither the main thread, its session nor the service's stop, and do not
\* bring the engine back.
LEMMA MainStays ==
  ASSUME MainKnows, UNCHANGED <<main, active>>, shutdown => shutdown',
         actor.at = "exited" => actor'.at = "exited"
  PROVE  MainKnows'
BY DEF MainKnows

\* Steps that change neither what the engine is at nor the forwarding.
LEMMA EngineStays ==
  ASSUME EngineKnows, UNCHANGED forwarding,
         actor'.at = actor.at, actor'.suspended = actor.suspended
  PROVE  EngineKnows'
BY DEF EngineKnows, ForwardingIsSupervised

LEMMA EngineAsked ==
  ASSUME NEW command \in {"force", "shutdown"}, ActorShape(actor), AskEngine(command)
  PROVE  /\ ActorShape(actor') /\ ControlShape(control')
         /\ actor'.at = actor.at /\ actor'.suspended = actor.suspended
BY DEF ActorShape, ControlShape, AskEngine

LEMMA NotHeard ==
  ASSUME ActorShape(actor), budget \in Limits, Unanswered
  PROVE  /\ ActorShape(actor') /\ budget' \in Limits
         /\ actor'.at = actor.at /\ actor'.suspended = actor.suspended
<1>1. ActorShape(actor') /\ actor'.at = actor.at /\ actor'.suspended = actor.suspended
      BY DEF ActorShape, Unanswered
<1>2. budget' \in Limits
      BY BudgetSpent DEF Unanswered, DeadlinePasses
<1>3. QED  BY <1>1, <1>2

\* A step of the main thread: what it does to the engine is to ask.
MainStep(n) ==
  /\ MainShape(main') /\ active' \in 0 .. MaxSessions /\ SesShape(ses')
  /\ UNCHANGED <<req, queue, forwarding, agent, shutdown>>
  /\ ActorShape(actor') /\ ControlShape(control') /\ budget' \in Limits
  /\ actor'.at = actor.at /\ actor'.suspended = actor.suspended
  /\ MainKnows'

LEMMA MainIsSound ==
  ASSUME RequestsInv, EngineKnows, NEW n \in Nat, ShapeOf(n), MainStep(n)
  PROVE  HostInv'
<1>1. RequestsInv'
      BY RequestsStay DEF ShapeOf, MainStep
<1>2. EngineKnows'
      BY EngineStays DEF MainStep
<1>3. ShapeOf(n)'
      BY DEF ShapeOf, MainStep
<1>4. QED  BY <1>1, <1>2, <1>3 DEF HostInv, Shape, MainStep

\* A move of the main thread to a place that says no more than the one before.
LEMMA MainMoved ==
  ASSUME MainShape(main),
         NEW at \in {"starting", "loop", "clean", "wait", "join", "write", "unwind", "stop",
                     "joining", "exited"},
         MainAt(at)
  PROVE  MainShape(main') /\ main'.at = at /\ main'.for = main.for /\ main'.ok = main.ok
BY DEF MainShape, MainAt

LEMMA MainUnwinds ==
  ASSUME MainShape(main), Unwinds
  PROVE  MainShape(main') /\ main'.at = "unwind" /\ main'.for = "none" /\ main'.ok = FALSE
<1>1. MainShape(main')
      BY DEF MainShape, Unwinds
<1>2. main'.at = "unwind" /\ main'.for = "none" /\ main'.ok = FALSE
      BY DEF MainShape, Unwinds
<1>3. QED  BY <1>1, <1>2

LEMMA NotProven ==
  ASSUME MainShape(main), SesShape(ses), main.at \in {"clean", "wait"}, main.for # "stop",
         MainKnows, UNCHANGED <<active, shutdown>>, CleanupIsUnproven
  PROVE  MainShape(main') /\ SesShape(ses') /\ MainKnows'
<1>1. CASE main.for = "activate"
  <2>1. main' = [main EXCEPT !.at = "loop", !.for = "none", !.candidate = 0]
        /\ ses' = Stopped(main.candidate)
        BY <1>1 DEF CleanupIsUnproven
  <2>2. MainShape(main')
        BY <2>1, NoSession DEF MainShape
  <2>3. main'.at = "loop" /\ main'.for = "none"
        BY <2>1 DEF MainShape
  <2>4. SesShape(ses')
        BY <2>1, SesStopped
  <2>5. QED  BY <2>2, <2>3, <2>4 DEF MainKnows
<1>2. CASE main.for # "activate"
  <2>1. Unwinds /\ UNCHANGED ses
        BY <1>2 DEF CleanupIsUnproven
  <2>2. MainShape(main') /\ main'.at = "unwind" /\ main'.for = "none" /\ main'.ok = FALSE
        BY <2>1, MainUnwinds
  <2>3. QED  BY <2>1, <2>2 DEF MainKnows
<1>3. QED  BY <1>1, <1>2

\* What is known of a step of the main thread before which action it is.
LEMMA MainActions ==
  ASSUME MainKnows, NEW n \in Nat, ShapeOf(n), Main \/ Deadlines \/ Activate
  PROVE  MainStep(n)
<1> USE DEF ShapeOf
<1>1. CASE Started
  <2>1. CASE actor.at # "exited" /\ MainAt("loop") /\ UNCHANGED budget
    <3>1. MainShape(main') /\ main'.at = "loop" /\ main'.for = main.for
          BY <2>1, MainMoved
    <3>2. MainKnows'
          BY <1>1, <3>1 DEF MainKnows, Started
    <3>3. QED  BY <1>1, <2>1, <3>1, <3>2 DEF MainStep, Started
  <2>2. CASE Fault /\ main' = [main EXCEPT !.at = "stop", !.for = "stop", !.ok = FALSE]
    <3>1. MainShape(main')
          BY <2>2 DEF MainShape, Purposes
    <3>2. main'.at = "stop" /\ main'.for = "stop" /\ main'.ok = FALSE
          BY <2>2 DEF MainShape
    <3>3. budget' \in Limits
          BY <2>2, BudgetSpent DEF Fault
    <3>4. QED  BY <1>1, <3>1, <3>2, <3>3 DEF MainStep, MainKnows, Started
  <2>3. CASE main' = [main EXCEPT !.at = "exited", !.ok = FALSE] /\ UNCHANGED budget
    <3>1. MainShape(main')
          BY <2>3 DEF MainShape
    <3>2. main'.at = "exited" /\ main'.ok = FALSE /\ main'.for = main.for
          BY <2>3 DEF MainShape
    <3>3. QED  BY <1>1, <2>3, <3>1, <3>2 DEF MainStep, MainKnows, Started
  <2>4. QED  BY <1>1, <2>1, <2>2, <2>3 DEF Started
<1>2. CASE StartTimesOut
  <2>1. MainShape(main')
        BY <1>2 DEF MainShape, StartTimesOut
  <2>2. main'.at = "exited" /\ main'.ok = FALSE /\ main'.for = main.for
        BY <1>2 DEF MainShape, StartTimesOut
  <2>3. budget' \in Limits
        BY <1>2, BudgetSpent DEF StartTimesOut, DeadlinePasses
  <2>4. QED  BY <1>2, <2>1, <2>2, <2>3 DEF MainStep, MainKnows, StartTimesOut
<1>3. CASE LoopEnds
  <2>1. CASE active = 0
    <3>1. main' = [main EXCEPT !.at = "stop", !.for = "stop"] /\ shutdown
          BY <1>3, <2>1 DEF LoopEnds
    <3>2. MainShape(main')
          BY <3>1 DEF MainShape, Purposes
    <3>3. main'.at = "stop" /\ main'.for = "stop"
          BY <3>1 DEF MainShape
    <3>4. QED  BY <1>3, <2>1, <3>1, <3>2, <3>3 DEF MainStep, MainKnows, LoopEnds
  <2>2. CASE active # 0
    <3>1. main' = [main EXCEPT !.at = "clean", !.for = "close"] /\ shutdown
          BY <1>3, <2>2 DEF LoopEnds, Cleanup
    <3>2. MainShape(main')
          BY <3>1 DEF MainShape, Purposes
    <3>3. main'.at = "clean" /\ main'.for = "close"
          BY <3>1 DEF MainShape
    <3>4. QED  BY <1>3, <3>1, <3>2, <3>3 DEF MainStep, MainKnows, LoopEnds
  <2>3. QED  BY <2>1, <2>2
<1>4. CASE Reap
  <2>1. main' = [main EXCEPT !.at = "clean", !.for = "reap"]
        BY <1>4 DEF Reap, Cleanup
  <2>2. MainShape(main')
        BY <2>1 DEF MainShape, Purposes
  <2>3. main'.at = "clean" /\ main'.for = "reap"
        BY <2>1 DEF MainShape
  <2>4. QED  BY <1>4, <2>2, <2>3 DEF MainStep, MainKnows, Reap
<1>5. CASE Activate
  <2>1. PICK s \in Sessions :
          /\ Opened(s)
          /\ IF active = 0
               THEN active' = s /\ main' = [main EXCEPT !.at = "write", !.candidate = s]
               ELSE main' = [main EXCEPT !.at = "clean", !.for = "activate", !.candidate = s]
                    /\ UNCHANGED active
        BY <1>5 DEF Activate
  <2>2. SesShape(ses')
    <3> DEFINE P == [ses[s] EXCEPT !.pool = "up", !.process = agent.process]
    <3>1. ses[s] \in [pool : {"none", "up", "stopping", "gone"}, process : Nat, known : BOOLEAN]
          /\ agent.process \in Nat
          BY DEF SesShape, AgentShape
    <3>2. P \in [pool : {"none", "up", "stopping", "gone"}, process : Nat, known : BOOLEAN]
          BY <3>1
    <3>3. ses' = [t \in Sessions |-> IF t = s THEN P ELSE ses[t]]
          BY <2>1 DEF Opened, SesShape
    <3> HIDE DEF P
    <3>4. QED  BY <3>2, <3>3 DEF SesShape
  <2>3. s \in 0 .. MaxSessions
        BY SessionsAssumption DEF Sessions
  <2>4. CASE active = 0
    <3>1. main' = [main EXCEPT !.at = "write", !.candidate = s] /\ active' = s
          BY <2>1, <2>4
    <3>2. MainShape(main')
          BY <2>3, <3>1 DEF MainShape
    <3>3. main'.at = "write" /\ main'.for = main.for
          BY <3>1 DEF MainShape
    <3>4. QED  BY <1>5, <2>2, <2>3, <3>1, <3>2, <3>3 DEF MainStep, MainKnows, Activate
  <2>5. CASE active # 0
    <3>1. main' = [main EXCEPT !.at = "clean", !.for = "activate", !.candidate = s]
          /\ UNCHANGED active
          BY <2>1, <2>5
    <3>2. MainShape(main')
          BY <2>3, <3>1 DEF MainShape, Purposes
    <3>3. main'.at = "clean" /\ main'.for = "activate"
          BY <3>1 DEF MainShape
    <3>4. QED  BY <1>5, <2>2, <3>1, <3>2, <3>3 DEF MainStep, MainKnows, Activate
  <2>6. QED  BY <2>4, <2>5
<1>6. CASE WriteActivation
  <2>1. CASE UNCHANGED <<ses, budget>> \/ (ses' = [ses EXCEPT ![main.candidate].known = TRUE]
             /\ UNCHANGED budget) \/ (Fault /\ UNCHANGED ses)
    <3>1. SesShape(ses')
          BY <2>1 DEF SesShape
    <3>2. budget' \in Limits
          BY <2>1, BudgetSpent DEF Fault
    <3>3. CASE main' = [main EXCEPT !.at = "loop", !.candidate = 0]
      <4>1. MainShape(main')
            BY <3>3, NoSession DEF MainShape
      <4>2. main'.at = "loop" /\ main'.for = main.for
            BY <3>3 DEF MainShape
      <4>3. QED  BY <1>6, <3>1, <3>2, <4>1, <4>2 DEF MainStep, MainKnows, WriteActivation
    <3>4. CASE main' = [main EXCEPT !.at = "clean", !.for = "undo", !.candidate = 0]
      <4>1. MainShape(main')
            BY <3>4, NoSession DEF MainShape, Purposes
      <4>2. main'.at = "clean" /\ main'.for = "undo"
            BY <3>4 DEF MainShape
      <4>3. QED  BY <1>6, <3>1, <3>2, <4>1, <4>2 DEF MainStep, MainKnows, WriteActivation
    <3>5. QED  BY <1>6, <3>3, <3>4 DEF WriteActivation
  <2>2. QED  BY <1>6, <2>1 DEF WriteActivation
<1>7. CASE CleanupRequest
  <2>1. MainShape(main') /\ main'.at = "wait" /\ main'.for = main.for
        BY <1>7, MainMoved DEF CleanupRequest
  <2>2. /\ ActorShape(actor') /\ ControlShape(control')
        /\ actor'.at = actor.at /\ actor'.suspended = actor.suspended
        BY <1>7, EngineAsked DEF CleanupRequest
  <2>3. QED  BY <1>7, <2>1, <2>2 DEF MainStep, MainKnows, CleanupRequest
<1>8. CASE CleanupRefused
  <2>1. MainShape(main') /\ SesShape(ses') /\ MainKnows'
        BY <1>8, NotProven DEF CleanupRefused, MainKnows
  <2>2. QED  BY <1>8, <2>1 DEF MainStep, CleanupRefused
<1>9. CASE CleanupTimesOut
  <2>1. MainShape(main') /\ SesShape(ses') /\ MainKnows'
        BY <1>9, NotProven DEF CleanupTimesOut
  <2>2. /\ ActorShape(actor') /\ budget' \in Limits
        /\ actor'.at = actor.at /\ actor'.suspended = actor.suspended
        BY <1>9, NotHeard DEF CleanupTimesOut
  <2>3. QED  BY <1>9, <2>1, <2>2 DEF MainStep, CleanupTimesOut
<1>10. CASE CleanupAnswered
  <2>1. ActorShape(actor') /\ actor'.at = actor.at /\ actor'.suspended = actor.suspended
        BY <1>10 DEF ActorShape, CleanupAnswered
  <2>2. CASE ses' = Stopped(active) /\ MainAt("join")
    <3>1. MainShape(main') /\ main'.at = "join" /\ main'.for = main.for
          BY <2>2, MainMoved
    <3>2. SesShape(ses')
          BY <2>2, SesStopped
    <3>3. QED  BY <1>10, <2>1, <3>1, <3>2 DEF MainStep, MainKnows, CleanupAnswered
  <2>3. CASE CleanupIsUnproven
    <3>1. MainShape(main') /\ SesShape(ses') /\ MainKnows'
          BY <1>10, <2>3, NotProven DEF CleanupAnswered
    <3>2. QED  BY <1>10, <2>1, <3>1 DEF MainStep, CleanupAnswered
  <2>4. QED  BY <1>10, <2>2, <2>3 DEF CleanupAnswered
<1>11. CASE Released
  <2>1. CASE main.for = "activate"
    <3>1. main' = [main EXCEPT !.at = "write", !.for = "none"] /\ active' = main.candidate
          BY <1>11, <2>1 DEF Released
    <3>2. MainShape(main') /\ active' \in 0 .. MaxSessions
          BY <3>1 DEF MainShape
    <3>3. main'.at = "write" /\ main'.for = "none"
          BY <3>1 DEF MainShape
    <3>4. QED  BY <1>11, <3>2, <3>3 DEF MainStep, MainKnows, Released
  <2>2. CASE main.for = "close"
    <3>1. main' = [main EXCEPT !.at = "stop", !.for = "stop"] /\ active' = 0
          BY <1>11, <2>2 DEF Released
    <3>2. MainShape(main')
          BY <3>1 DEF MainShape, Purposes
    <3>3. main'.at = "stop" /\ main'.for = "stop"
          BY <3>1 DEF MainShape
    <3>4. active' \in 0 .. MaxSessions
          BY <3>1, NoSession
    <3>5. MainKnows'
          BY <1>11, <2>2, <3>1, <3>3 DEF MainKnows, Released
    <3>6. QED  BY <1>11, <3>2, <3>4, <3>5 DEF MainStep, Released
  <2>3. CASE main.for \notin {"activate", "close"}
    <3>1. main' = [main EXCEPT !.at = "loop", !.for = "none"] /\ active' = 0
          BY <1>11, <2>3 DEF Released
    <3>2. MainShape(main')
          BY <3>1 DEF MainShape
    <3>3. main'.at = "loop" /\ main'.for = "none"
          BY <3>1 DEF MainShape
    <3>4. active' \in 0 .. MaxSessions
          BY <3>1, NoSession
    <3>5. QED  BY <1>11, <3>2, <3>3, <3>4 DEF MainStep, MainKnows, Released
  <2>4. QED  BY <2>1, <2>2, <2>3
<1>12. CASE Unwind
  <2>1. CASE ses' = Stopped(active) /\ UNCHANGED <<active, main>>
    <3>1. SesShape(ses')
          BY <2>1, SesStopped
    <3>2. MainKnows'
          BY <1>12, <2>1 DEF MainKnows, Unwind
    <3>3. QED  BY <1>12, <2>1, <3>1, <3>2 DEF MainStep, Unwind
  <2>2. CASE active' = 0 /\ main' = [main EXCEPT !.at = "stop", !.for = "stop"] /\ UNCHANGED ses
    <3>1. MainShape(main')
          BY <2>2 DEF MainShape, Purposes
    <3>2. main'.at = "stop" /\ main'.for = "stop" /\ main'.ok = main.ok
          BY <2>2 DEF MainShape
    <3>3. active' \in 0 .. MaxSessions
          BY <2>2, NoSession
    <3>4. MainKnows'
          BY <1>12, <3>2 DEF MainKnows, Unwind
    <3>5. QED  BY <1>12, <2>2, <3>1, <3>3, <3>4 DEF MainStep, Unwind
  <2>3. QED  BY <1>12, <2>1, <2>2 DEF Unwind
<1>13. ASSUME NEW at \in {"stop", "wait", "joining"}, main.at = at, NEW ok \in BOOLEAN, Exit(ok),
              at = "wait" => main.for = "stop", ok => actor.at = "exited",
              UNCHANGED <<active, shutdown>>, actor'.at = actor.at
       PROVE  MainShape(main') /\ MainKnows'
  <2>1. main.ok \in BOOLEAN
        BY DEF MainShape
  <2>2. main' = [main EXCEPT !.at = "exited", !.ok = main.ok /\ ok]
        BY <1>13 DEF Exit
  <2>3. MainShape(main')
        BY <2>1, <2>2 DEF MainShape
  <2>4. main'.at = "exited" /\ main'.for = main.for
        BY <2>2 DEF MainShape
  <2>5. main'.ok = (main.ok /\ ok)
        BY <2>2 DEF MainShape
  <2>6. QED  BY <1>13, <2>3, <2>4, <2>5 DEF MainKnows
<1>14. CASE StopRequest
  <2>1. CASE AskEngine("shutdown") /\ MainAt("wait")
    <3>1. MainShape(main') /\ main'.at = "wait" /\ main'.for = main.for /\ main'.ok = main.ok
          BY <2>1, MainMoved
    <3>2. /\ ActorShape(actor') /\ ControlShape(control')
          /\ actor'.at = actor.at /\ actor'.suspended = actor.suspended
          BY <2>1, EngineAsked
    <3>3. MainKnows'
          BY <1>14, <3>1 DEF MainKnows, StopRequest
    <3>4. QED  BY <1>14, <3>1, <3>2, <3>3 DEF MainStep, StopRequest
  <2>2. CASE Exit(FALSE) /\ UNCHANGED <<control, actor>>
    <3>1. MainShape(main') /\ MainKnows'
          BY <1>13, <1>14, <2>2 DEF StopRequest
    <3>2. QED  BY <1>14, <2>2, <3>1 DEF MainStep, StopRequest
  <2>3. QED  BY <1>14, <2>1, <2>2 DEF StopRequest
<1>15. CASE StopTimesOut
  <2>1. /\ ActorShape(actor') /\ budget' \in Limits
        /\ actor'.at = actor.at /\ actor'.suspended = actor.suspended
        BY <1>15, NotHeard DEF StopTimesOut
  <2>2. MainShape(main') /\ MainKnows'
        BY <1>13, <1>15, <2>1 DEF StopTimesOut
  <2>3. QED  BY <1>15, <2>1, <2>2 DEF MainStep, StopTimesOut
<1>16. CASE StopAnswered
  <2> DEFINE heard == actor.answer = "ok"
  <2>1. main.ok \in BOOLEAN /\ heard \in BOOLEAN
        BY DEF MainShape
  <2>2. main' = [main EXCEPT !.at = "joining", !.ok = main.ok /\ heard]
        BY <1>16 DEF StopAnswered
  <2> HIDE DEF heard
  <2>3. MainShape(main')
        BY <2>1, <2>2 DEF MainShape
  <2>4. main'.at = "joining" /\ main'.for = main.for
        BY <2>2 DEF MainShape
  <2>5. main'.ok = (main.ok /\ heard)
        BY <2>2 DEF MainShape
  <2>6. MainKnows'
        BY <1>16, <2>4, <2>5 DEF MainKnows, StopAnswered
  <2>7. QED  BY <1>16, <2>3, <2>6 DEF MainStep, StopAnswered
<1>17. CASE EngineJoined
  <2>1. MainShape(main') /\ MainKnows'
        BY <1>13, <1>17 DEF EngineJoined
  <2>2. QED  BY <1>17, <2>1 DEF MainStep, EngineJoined
<1>18. QED
  BY <1>1, <1>2, <1>3, <1>4, <1>5, <1>6, <1>7, <1>8, <1>9, <1>10, <1>11, <1>12, <1>14, <1>15,
     <1>16, <1>17 DEF Main, Deadlines, Disconnected

-----------------------------------------------------------------------------
(* The pool of a session and the environment.                              *)

\* A step that leaves the main thread and the engine alone.
AroundStep(n) ==
  /\ SesShape(ses') /\ ReqShape(req', n) /\ QueueShape(queue', n) /\ AgentShape(agent')
  /\ ForwardingShape(forwarding') /\ shutdown' \in BOOLEAN /\ budget' \in Limits
  /\ UNCHANGED <<main, active, actor, control>>
  /\ (shutdown => shutdown') /\ (forwarding' # forwarding => forwarding = "up")
  /\ RequestsInv'

LEMMA AroundIsSound ==
  ASSUME EngineKnows, MainKnows, NEW m \in Nat, ShapeOf(m), NEW n \in Nat, AroundStep(n)
  PROVE  HostInv'
<1>1. MainKnows'
      BY MainStays DEF AroundStep
<1>2. EngineKnows'
      BY DEF AroundStep, EngineKnows, ForwardingIsSupervised
<1>3. ShapeOf(n)'
      BY DEF ShapeOf, AroundStep
<1>4. QED  BY <1>1, <1>2, <1>3 DEF HostInv, Shape, AroundStep

LEMMA AroundActions ==
  ASSUME RequestsInv, NEW n \in Nat, ShapeOf(n),
         \/ Pool \/ Environment
         \/ \E r \in Requests : DispatchTimesOut(r) \/ HandlerTimesOut(r)
         \/ \E command \in Commands : Send(command)
  PROVE  \E m \in Nat : AroundStep(m)
<1> USE DEF ShapeOf
<1>1. Requests = 1 .. n
      BY RequestsShape
<1>2. ASSUME UNCHANGED <<req, queue, actor>>
      PROVE  RequestsInv' /\ ReqShape(req', n) /\ QueueShape(queue', n)
      BY <1>2, RequestsStay
<1>3. ASSUME NEW r \in Requests, Enqueue(r) PROVE AroundStep(n)
  <2>1. r \in 1 .. n
        BY <1>1
  <2>2. CASE queue' = Append(queue, r) /\ req' = [req EXCEPT ![r].at = "queued"]
             /\ Len(queue) < Capacity
    <3>1. req[r].at = "accepted" /\ UNCHANGED actor
          BY <1>3 DEF Enqueue
    <3>2. ReqShape(req', n) /\ QueueShape(queue', n) /\ RequestsInv'
          BY <2>1, <2>2, <3>1, RequestQueued
    <3>3. QED  BY <1>3, <3>2 DEF AroundStep, Enqueue
  <2>3. CASE req' = [req EXCEPT ![r].at = "dropped"] /\ UNCHANGED queue
    <3>1. req[r].at = "accepted" /\ actor' = actor
          BY <1>3 DEF Enqueue
    <3>2. ReqShape(req', n) /\ RequestsInv'
          BY <2>1, <2>3, <3>1, RequestOver
    <3>3. QED  BY <1>3, <2>3, <3>2 DEF AroundStep, Enqueue
  <2>4. QED  BY <1>3, <2>2, <2>3 DEF Enqueue
<1>4. ASSUME NEW r \in Requests, NEW worker \in {"answered", "cut"},
             req[r].worker = "waiting", req' = [req EXCEPT ![r].worker = worker],
             worker = "answered" => req[r].at # "accepted", UNCHANGED <<actor, queue>>
      PROVE  ReqShape(req', n) /\ RequestsInv'
  <2>1. r \in 1 .. n
        BY <1>1
  <2>2. CASE worker = "answered"
        BY <1>4, <2>1, <2>2, WaitEnded
  <2>3. CASE worker = "cut"
        BY <1>4, <2>1, <2>3, WaitEnded
  <2>4. QED  BY <2>2, <2>3
<1>5. ASSUME NEW r \in Requests, Answer(r) PROVE AroundStep(n)
  <2>1. ReqShape(req', n) /\ RequestsInv'
        BY <1>4, <1>5 DEF Answer
  <2>2. QED  BY <1>5, <2>1 DEF AroundStep, Answer
<1>6. ASSUME NEW r \in Requests, Cut(r) PROVE AroundStep(n)
  <2>1. ReqShape(req', n) /\ RequestsInv'
        BY <1>4, <1>6 DEF Cut
  <2>2. QED  BY <1>6, <2>1 DEF AroundStep, Cut
<1>7. ASSUME NEW r \in Requests, DispatchTimesOut(r) PROVE AroundStep(n)
  <2>1. ReqShape(req', n) /\ RequestsInv'
        BY <1>4, <1>7 DEF DispatchTimesOut
  <2>2. budget' \in Limits
        BY <1>7, BudgetSpent DEF DispatchTimesOut, DeadlinePasses
  <2>3. QED  BY <1>7, <2>1, <2>2 DEF AroundStep, DispatchTimesOut
<1>8. ASSUME NEW r \in Requests, HandlerTimesOut(r) PROVE AroundStep(n)
  <2>1. ReqShape(req', n) /\ RequestsInv'
        BY <1>4, <1>8 DEF HandlerTimesOut
  <2>2. budget' \in Limits
        BY <1>8, BudgetSpent DEF HandlerTimesOut, Fault
  <2>3. SesShape(ses')
        BY <1>8, SesStopped DEF HandlerTimesOut
  <2>4. QED  BY <1>8, <2>1, <2>2, <2>3 DEF AroundStep, HandlerTimesOut
<1>9. ASSUME NEW s \in Sessions, PoolEnds(s) PROVE AroundStep(n)
  <2>1. SesShape(ses')
        BY <1>9 DEF SesShape, PoolEnds
  <2>2. QED  BY <1>2, <1>9, <2>1 DEF AroundStep, PoolEnds
<1>10. ASSUME NEW command \in Commands, Send(command) PROVE AroundStep(n + 1)
  <2>1. PICK s \in Sessions :
          req' = Append(req, [command |-> command, session |-> s, at |-> "accepted",
                              worker |-> "waiting", stale |-> FALSE,
                              after |-> {r \in Requests : req[r].worker = "answered"}])
        BY <1>10 DEF Send
  <2>2. UNCHANGED <<actor, queue>>
        BY <1>10 DEF Send
  <2>3. ReqShape(req', n + 1) /\ QueueShape(queue', n + 1) /\ RequestsInv'
        BY <2>1, <2>2, RequestSent
  <2>4. budget' \in Limits
        BY <1>10, BudgetSpent DEF Send
  <2>5. QED  BY <1>10, <2>3, <2>4 DEF AroundStep, Send
<1>11. CASE RuntimeFails
  <2>1. budget' \in Limits
        BY <1>11, BudgetSpent DEF RuntimeFails
  <2>2. QED  BY <1>2, <1>11, <2>1 DEF AroundStep, RuntimeFails, ForwardingShape
<1>12. CASE AgentExits
  <2>1. AgentShape(agent')
        BY <1>12 DEF AgentExits, AgentShape
  <2>2. QED  BY <1>2, <1>12, <2>1 DEF AroundStep, AgentExits
<1>13. CASE AgentStarts
  <2>1. AgentShape(agent')
        BY <1>13 DEF AgentStarts, AgentShape
  <2>2. budget' \in Limits
        BY <1>13, BudgetSpent DEF AgentStarts
  <2>3. QED  BY <1>2, <1>13, <2>1, <2>2 DEF AroundStep, AgentStarts
<1>14. CASE StopService
  <2>1. budget' \in Limits
        BY <1>14, BudgetSpent DEF StopService
  <2>2. QED  BY <1>2, <1>14, <2>1 DEF AroundStep, StopService
<1>15. n + 1 \in Nat
      OBVIOUS
<1>16. QED
  BY <1>3, <1>5, <1>6, <1>7, <1>8, <1>9, <1>10, <1>11, <1>12, <1>13, <1>14, <1>15
  DEF Pool, Environment

-----------------------------------------------------------------------------
(* The engine.                                                             *)

\* A step of the engine.
ActorStep(n) ==
  /\ ReqShape(req', n) /\ ActorShape(actor') /\ QueueShape(queue', n)
  /\ ControlShape(control') /\ ForwardingShape(forwarding') /\ budget' \in Limits
  /\ UNCHANGED <<main, active, ses, agent, shutdown>>
  /\ (actor.at = "exited" => actor'.at = "exited")
  /\ RequestsInv' /\ EngineKnows'

LEMMA ActorIsSound ==
  ASSUME MainKnows, NEW n \in Nat, ShapeOf(n), ActorStep(n)
  PROVE  HostInv'
<1>1. MainKnows'
      BY MainStays DEF ActorStep
<1>2. ShapeOf(n)'
      BY DEF ShapeOf, ActorStep
<1>3. QED  BY <1>1, <1>2 DEF HostInv, Shape, ActorStep

LEMMA Forced ==
  ASSUME budget \in Limits, NEW ok \in BOOLEAN, ForceFailClosed(ok)
  PROVE  forwarding' = "off" /\ budget' \in Limits
BY BudgetSpent DEF ForceFailClosed, Fault

LEMMA ActorMoved ==
  ASSUME ActorShape(actor),
         NEW at \in {"init", "health", "failing", "forcing", "ending", "poll", "dispatch", "exited"},
         ActorAt(at)
  PROVE  ActorShape(actor') /\ actor'.at = at /\ actor'.suspended = actor.suspended
BY DEF ActorShape, ActorAt

LEMMA ActorActions ==
  ASSUME RequestsInv, EngineKnows, NEW n \in Nat, ShapeOf(n), Actor
  PROVE  ActorStep(n)
<1> USE DEF ShapeOf
<1>1. Requests = 1 .. n
      BY RequestsShape
<1>2. ASSUME UNCHANGED <<req, queue>>, actor.at # "dispatch", actor'.at # "dispatch",
             actor.at # "failing"
      PROVE  RequestsInv' /\ ReqShape(req', n) /\ QueueShape(queue', n)
      BY <1>2, RequestsStay
<1>3. CASE ActorInit
  <2>1. ActorShape(actor') /\ actor'.at \in {"health", "exited"}
        /\ actor'.suspended = actor.suspended
        BY <1>3, ActorMoved DEF ActorInit
  <2>2. budget' \in Limits
        BY <1>3, BudgetSpent DEF ActorInit, Fault
  <2>3. EngineKnows'
        BY <1>3, <2>1 DEF EngineKnows, ForwardingIsSupervised, ActorInit
  <2>4. QED  BY <1>2, <1>3, <2>1, <2>2, <2>3 DEF ActorStep, ActorInit
<1>4. CASE Health
  <2>1. CASE ~actor.suspended /\ forwarding = "failed"
    <3>1. ActorAt("failing") /\ req' = MarkStale /\ UNCHANGED <<control, queue>>
          /\ actor.at = "health"
          BY <1>4, <2>1 DEF Health
    <3>2. ActorShape(actor') /\ actor'.at = "failing" /\ actor'.suspended = actor.suspended
          BY <3>1, ActorMoved
    <3>3. ReqShape(req', n) /\ RequestsInv'
          BY <3>1, <3>2, FailureFound
    <3>4. EngineKnows'
          BY <1>4, <2>1, <3>2 DEF EngineKnows, ForwardingIsSupervised, Health
    <3>5. QED  BY <1>4, <3>1, <3>2, <3>3, <3>4 DEF ActorStep, Health
  <2>2. CASE ~(~actor.suspended /\ forwarding = "failed")
    <3>1. control' = "none" /\ UNCHANGED <<req, queue>> /\ actor.at = "health"
          BY <1>4, <2>2 DEF Health
    <3>2. ActorShape(actor') /\ actor'.at \in {"poll", "forcing", "ending"}
          /\ actor'.suspended = actor.suspended
      <4>1. CASE control = "none"
            BY <1>4, <2>2, <4>1, ActorMoved DEF Health
      <4>2. CASE control # "none"
        <5>1. actor' = [actor EXCEPT !.awaited = main.at = "wait",
                                     !.at = IF control = "force" THEN "forcing" ELSE "ending"]
              BY <1>4, <2>2, <4>2 DEF Health
        <5>2. (main.at = "wait") \in BOOLEAN
              OBVIOUS
        <5>3. ActorShape(actor')
              BY <5>1, <5>2 DEF ActorShape
        <5>4. actor'.at \in {"poll", "forcing", "ending"}
              BY <5>1 DEF ActorShape
        <5>5. actor'.suspended = actor.suspended
              BY <5>1 DEF ActorShape
        <5>6. QED  BY <5>3, <5>4, <5>5
      <4>3. QED  BY <4>1, <4>2
    <3>3. EngineKnows'
          BY <1>4, <3>2 DEF EngineKnows, ForwardingIsSupervised, Health
    <3>4. QED  BY <1>2, <1>4, <3>1, <3>2, <3>3 DEF ActorStep, Health, ControlShape
  <2>3. QED  BY <2>1, <2>2
<1>5. CASE Poll
  <2>1. CASE queue = << >>
    <3>1. ActorShape(actor') /\ actor'.at = "health" /\ actor'.suspended = actor.suspended
          BY <1>5, <2>1, ActorMoved DEF Poll
    <3>2. EngineKnows'
          BY <1>5, <3>1 DEF EngineKnows, ForwardingIsSupervised, Poll
    <3>3. QED  BY <1>2, <1>5, <2>1, <3>1, <3>2 DEF ActorStep, Poll
  <2>2. CASE queue # << >>
    <3>1. ActorShape(actor') /\ actor'.at = "dispatch" /\ actor'.suspended = actor.suspended
          BY <1>5, <2>2, ActorMoved DEF Poll
    <3>2. actor.at = "poll" /\ queue' = Tail(queue) /\ req' = [req EXCEPT ![Head(queue)].at = "running"]
          BY <1>5, <2>2 DEF Poll
    <3>3. ReqShape(req', n) /\ QueueShape(queue', n) /\ RequestsInv'
          BY <2>2, <3>1, <3>2, RequestTaken
    <3>4. EngineKnows'
          BY <1>5, <3>1 DEF EngineKnows, ForwardingIsSupervised, Poll
    <3>5. QED  BY <1>5, <3>1, <3>3, <3>4 DEF ActorStep, Poll
  <2>3. QED  BY <2>1, <2>2
<1>6. CASE Dispatch
  <2>1. Running \in 1 .. n /\ req[Running].at = "running"
    <3>1. \E r \in Requests : req[r].at = "running"
          BY <1>6 DEF RequestsInv, QueueMatches, Dispatch
    <3>2. QED  BY <1>1, <3>1 DEF Running
  <2>2. PICK r \in 1 .. n : r = Running
        BY <2>1
  <2>3. req[r].at = "running" /\ req[r].command \in Commands
        BY <2>1, <2>2 DEF ReqShape, ReqRecords
  <2>4. /\ actor.at = "dispatch"
        /\ CASE req[r].command = "commit" -> forwarding' \in {"off", "up"}
             [] req[r].command = "deactivate" -> forwarding' = "off"
             [] req[r].command = "status" -> UNCHANGED forwarding
        /\ actor' = [actor EXCEPT !.at = "health",
                                  !.suspended = actor.suspended /\ req[r].command # "commit"]
        /\ req' = [req EXCEPT ![r].at = "done"]
        /\ UNCHANGED <<main, active, ses, queue, control, agent, shutdown, budget>>
        BY <1>6, <2>2 DEF Dispatch
  <2>5. \/ forwarding' \in {"off", "up"} /\ req[r].command = "commit"
        \/ forwarding' = "off"
        \/ forwarding' = forwarding
        BY <2>3, <2>4 DEF Commands
  <2> DEFINE commits == req[r].command # "commit"
  <2>6. actor' = [actor EXCEPT !.at = "health", !.suspended = actor.suspended /\ commits]
        /\ commits \in BOOLEAN
        BY <2>4
  <2> HIDE DEF commits
  <2>7. actor.suspended \in BOOLEAN
        BY DEF ActorShape
  <2>8. ActorShape(actor')
        BY <2>6, <2>7 DEF ActorShape
  <2>9. actor'.at = "health"
        BY <2>6 DEF ActorShape
  <2>10. actor'.suspended = (actor.suspended /\ commits)
        BY <2>6 DEF ActorShape
  <2>11. EngineKnows'
        BY <2>4, <2>5, <2>9, <2>10 DEF EngineKnows, ForwardingIsSupervised, commits
  <2>12. ReqShape(req', n) /\ RequestsInv'
        BY <2>3, <2>4, <2>9, RequestOver
  <2>13. ForwardingShape(forwarding')
        BY <2>5 DEF ForwardingShape
  <2>14. QED  BY <2>4, <2>8, <2>9, <2>11, <2>12, <2>13 DEF ActorStep
<1>7. ASSUME NEW ok \in BOOLEAN, Failing(ok) PROVE ActorStep(n)
  <2>1. forwarding' = "off" /\ budget' \in Limits
        BY <1>7, Forced DEF Failing
  <2>2. CASE ok
    <3>1. actor' = [actor EXCEPT !.at = "health", !.suspended = TRUE]
          BY <1>7, <2>2 DEF Failing
    <3>2. ActorShape(actor')
          BY <3>1 DEF ActorShape
    <3>3. actor'.at = "health"
          BY <3>1 DEF ActorShape
    <3>4. req' = DropQueued /\ queue' = << >>
          BY <1>7, <2>2, AllRejected DEF Failing, RequestsInv
    <3>5. ReqShape(req', n) /\ QueueShape(queue', n) /\ RequestsInv'
          BY <1>7, <3>3, <3>4, RequestsDropped DEF Failing
    <3>6. EngineKnows'
          BY <2>1, <3>3 DEF EngineKnows, ForwardingIsSupervised
    <3>7. QED  BY <1>7, <2>1, <2>2, <3>2, <3>3, <3>5, <3>6 DEF ActorStep, Failing, ForwardingShape
  <2>3. CASE ~ok
    <3>1. Exits /\ actor.at = "failing"
          BY <1>7, <2>3 DEF Failing
    <3>2. ActorShape(actor') /\ actor'.at = "exited"
          BY <3>1, ActorMoved DEF Exits
    <3>3. ReqShape(req', n) /\ QueueShape(queue', n) /\ RequestsInv'
          BY <3>1, <3>2, RequestsDropped DEF Exits
    <3>4. EngineKnows'
          BY <2>1, <3>2 DEF EngineKnows, ForwardingIsSupervised
    <3>5. QED
      BY <1>7, <2>1, <3>1, <3>2, <3>3, <3>4
      DEF ActorStep, Failing, Exits, ForwardingShape, ControlShape
  <2>4. QED  BY <2>2, <2>3
<1>8. ASSUME NEW ok \in BOOLEAN, NEW at \in {"health", "exited"},
             actor' = [actor EXCEPT !.at = at, !.answer = Tell(ok), !.awaited = FALSE]
      PROVE  ActorShape(actor') /\ actor'.at = at
  <2> DEFINE told == Tell(ok)
  <2>1. told \in {"none", "ok", "error"}
        BY DEF Tell
  <2>2. actor' = [actor EXCEPT !.at = at, !.answer = told, !.awaited = FALSE]
        BY <1>8
  <2> HIDE DEF told
  <2>3. ActorShape(actor')
        BY <2>1, <2>2 DEF ActorShape
  <2>4. actor'.at = at
        BY <2>2 DEF ActorShape
  <2>5. QED  BY <2>3, <2>4
<1>9. ASSUME NEW ok \in BOOLEAN, ForceClosed(ok) PROVE ActorStep(n)
  <2>1. forwarding' = "off" /\ budget' \in Limits
        BY <1>9, Forced DEF ForceClosed
  <2>2. ActorShape(actor') /\ actor'.at = "health"
        BY <1>8, <1>9 DEF ForceClosed
  <2>3. EngineKnows'
        BY <2>1, <2>2 DEF EngineKnows, ForwardingIsSupervised
  <2>4. QED  BY <1>2, <1>9, <2>1, <2>2, <2>3 DEF ActorStep, ForceClosed, ForwardingShape
<1>10. ASSUME NEW ok \in BOOLEAN, End(ok) PROVE ActorStep(n)
  <2>1. forwarding' = "off" /\ budget' \in Limits
        BY <1>10, Forced DEF End
  <2>2. ActorShape(actor') /\ actor'.at = "exited"
        BY <1>8, <1>10 DEF End
  <2>3. EngineKnows'
        BY <2>1, <2>2 DEF EngineKnows, ForwardingIsSupervised
  <2>4. ReqShape(req', n) /\ QueueShape(queue', n) /\ RequestsInv'
        BY <1>10, <2>2, RequestsDropped DEF End
  <2>5. QED
    BY <1>10, <2>1, <2>2, <2>3, <2>4 DEF ActorStep, End, ForwardingShape, ControlShape
<1>11. QED  BY <1>3, <1>4, <1>5, <1>6, <1>7, <1>9, <1>10 DEF Actor

-----------------------------------------------------------------------------
(* The invariant and what follows from it.                                 *)

LEMMA HostInit ==
  ASSUME Init
  PROVE  HostInv
<1>1. ShapeOf(0)
  <2>1. MainShape(main) /\ active \in 0 .. MaxSessions
        BY NoSession DEF Init, MainShape
  <2>2. SesShape(ses)
        BY DEF Init, SesShape
  <2>3. ReqShape(req, 0) /\ QueueShape(queue, 0)
        BY EmptySeq, CapacitiesAssumption DEF Init, ReqShape, QueueShape
  <2>4. ActorShape(actor) /\ ControlShape(control) /\ ForwardingShape(forwarding)
        BY DEF Init, ActorShape, ControlShape, ForwardingShape
  <2>5. AgentShape(agent) /\ shutdown \in BOOLEAN
        BY DEF Init, AgentShape
  <2>6. budget \in Limits
        BY BudgetsAssumption DEF Init
  <2>7. QED  BY <2>1, <2>2, <2>3, <2>4, <2>5, <2>6 DEF ShapeOf
<1>2. Requests = {}
  <2>1. req \in [1 .. 0 -> ReqRecords]
        BY <1>1 DEF ShapeOf, ReqShape
  <2>2. QED  BY <2>1 DEF Requests
<1>3. Len(queue) = 0 /\ actor.at = "init"
      BY EmptySeq DEF Init
<1>4. RequestsInv
      BY <1>2, <1>3
      DEF RequestsInv, QueueMatches, StaleIsRejected, OrderIsKept, AnswersKeepTheirOrder
<1>5. MainKnows /\ EngineKnows
      BY DEF Init, MainKnows, EngineKnows, ForwardingIsSupervised
<1>6. QED  BY <1>1, <1>4, <1>5 DEF HostInv, Shape

LEMMA HostStep ==
  ASSUME HostInv, [Next]_vars
  PROVE  HostInv'
<1>1. PICK n \in Nat : ShapeOf(n)
      BY DEF HostInv, Shape
<1>2. RequestsInv /\ MainKnows /\ EngineKnows
      BY DEF HostInv
<1>3. CASE Main \/ Deadlines \/ Activate
      BY <1>1, <1>2, <1>3, MainActions, MainIsSound
<1>4. CASE \/ Pool \/ Environment
           \/ \E r \in Requests : DispatchTimesOut(r) \/ HandlerTimesOut(r)
           \/ \E command \in Commands : Send(command)
  <2>1. PICK m \in Nat : AroundStep(m)
        BY <1>1, <1>2, <1>4, AroundActions
  <2>2. QED  BY <1>1, <1>2, <2>1, AroundIsSound
<1>5. CASE Actor
      BY <1>1, <1>2, <1>5, ActorActions, ActorIsSound
<1>6. CASE UNCHANGED vars
  <2>1. MainShape(main') /\ ShapeOf(n)'
        BY <1>1, <1>6 DEF vars, ShapeOf
  <2>2. RequestsInv'
        BY <1>1, <1>2, <1>6, RequestsStay DEF vars, ShapeOf
  <2>3. MainKnows' /\ EngineKnows'
        BY <1>2, <1>6, MainStays, EngineStays DEF vars
  <2>4. QED  BY <2>1, <2>2, <2>3 DEF HostInv, Shape
<1>7. QED  BY <1>3, <1>4, <1>5, <1>6 DEF Next

\* The inductive invariant holds in every state of every behaviour.
THEOREM HostInvHolds == Spec => []HostInv
<1>1. Init => HostInv
      BY HostInit
<1>2. HostInv /\ [Next]_vars => HostInv'
      BY HostStep
<1>3. QED  BY <1>1, <1>2, PTL DEF Spec

LEMMA HostTypes ==
  ASSUME NEW n \in Nat, ShapeOf(n)
  PROVE  TypeOK
<1> USE DEF ShapeOf
<1>1. Requests = 1 .. n
      BY RequestsShape
<1>2. ASSUME NEW r \in Requests
      PROVE  req[r] \in [command : Commands, session : Sessions,
                         at : {"accepted", "queued", "running", "done", "dropped"},
                         worker : {"waiting", "answered", "cut"}, stale : BOOLEAN,
                         after : SUBSET Requests]
  <2>1. req[r] \in ReqRecords /\ req[r].after \in SUBSET Requests
        BY <1>1, <1>2 DEF ReqShape
  <2>2. QED  BY <2>1 DEF ReqRecords
<1>3. main \in [at : {"starting", "loop", "clean", "wait", "join", "write", "unwind", "stop",
                      "joining", "exited"},
                for : Purposes \cup {"none"}, candidate : 0 .. MaxSessions, ok : BOOLEAN]
      BY DEF MainShape
<1>4. ses \in [Sessions -> [pool : {"none", "up", "stopping", "gone"}, process : Nat,
                            known : BOOLEAN]]
      BY DEF SesShape
<1>5. actor \in [at : {"init", "health", "failing", "forcing", "ending", "poll",
                       "dispatch", "exited"},
                 suspended : BOOLEAN, awaited : BOOLEAN, answer : {"none", "ok", "error"}]
      BY DEF ActorShape
<1>6. queue \in Seq(Requests) /\ Len(queue) <= Capacity
      BY <1>1 DEF QueueShape
<1>7. control \in {"none", "force", "shutdown"} /\ forwarding \in {"off", "up", "failed"}
      /\ agent \in [process : Nat, runs : BOOLEAN]
      BY DEF ControlShape, ForwardingShape, AgentShape
<1>8. QED  BY <1>2, <1>3, <1>4, <1>5, <1>6, <1>7 DEF TypeOK

(* While the service runs, forwarding that is up or has failed is under the *)
(* engine's supervision; a service that has stopped without an error has    *)
(* stopped the engine, closed its session and left nothing forwarding.      *)
THEOREM ForwardingStaysSupervised == Spec => []HostInvariant
<1>1. ASSUME HostInv PROVE HostInvariant
  <2>1. TypeOK
    <3>1. PICK n \in Nat : ShapeOf(n)
          BY <1>1 DEF HostInv, Shape
    <3>2. QED  BY <3>1, HostTypes
  <2>2. forwarding \in {"off", "up", "failed"}
        BY <2>1 DEF TypeOK
  <2>3. QED
    BY <1>1, <2>1, <2>2
    DEF HostInvariant, HostInv, MainKnows, EngineKnows, CleanStopIsClosed, ForwardingIsSupervised
<1>2. QED  BY <1>1, HostInvHolds, PTL

(* A command that waited in the queue when the failure of the runtime was   *)
(* found is rejected, and never executed.                                   *)
THEOREM FailuresOutrunCommands == Spec => []StaleCommandsNeverRun
<1>1. ASSUME HostInv PROVE StaleCommandsNeverRun
      BY <1>1 DEF HostInv, RequestsInv, StaleIsRejected, StaleCommandsNeverRun
<1>2. QED  BY <1>1, HostInvHolds, PTL

(* A command runs when what its sender had been answered about is over,     *)
(* also where the answer was that the wait for it had been given up.        *)
THEOREM LastAnswerHasTheLastWord == Spec => []AnswersKeepTheirOrder
<1>1. ASSUME HostInv PROVE AnswersKeepTheirOrder
      BY <1>1 DEF HostInv, RequestsInv, OrderIsKept
<1>2. QED  BY <1>1, HostInvHolds, PTL
=============================================================================
