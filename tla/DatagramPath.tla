---------------------------- MODULE DatagramPath ----------------------------
(***************************************************************************)
(* The UDP path of the callout driver (windows/strict-driver/src/driver.c): *)
(* flow contexts with their reference counts, captured datagrams, injected *)
(* replies, and the lease, gate and teardown that bound them.              *)
(*                                                                         *)
(* Threads: one control thread (the default queue is sequential, and every *)
(* change of the lease holds FcxLeaseMutationLock); for each UDP flow the  *)
(* classify call of the established flow, the classify call of a datagram, *)
(* and the callbacks of WFP (flow deletion, completion of an injection).   *)
(* A step is what happens under one lock or one interlocked operation.     *)
(*                                                                         *)
(* A key stands for what identifies a lease to a flow: Broker process,     *)
(* policy revision and digest, nonce.                                      *)
(***************************************************************************)
EXTENDS ReplayWindow, Sequences, FiniteSets

CONSTANTS Flows,          \* flow contexts that can exist at a time
          Keys,           \* identities of leases
          Numbers,        \* sequence numbers of replies
          MaxFlows,       \* FCX_STRICT_MAX_UDP_FLOWS
          MaxInFlight,    \* FCX_STRICT_DATAGRAM_MAX_IN_FLIGHT
          MaxRecords,     \* FCX_STRICT_DATAGRAM_MAX_RECORDS
          MaxGeneration,  \* bound of the model: leases granted
          None

Leases == [key : Keys, generation : 1 .. MaxGeneration, lapsed : BOOLEAN]

ASSUME PathAssumption ==
  /\ IsFiniteSet(Flows) /\ None \notin Keys \cup Flows \cup Leases
  /\ Numbers \subseteq Nat \ {0}
  /\ MaxFlows \in Nat \ {0} /\ MaxRecords \in Nat
  /\ MaxInFlight \in Nat /\ MaxInFlight >= MaxRecords
  /\ MaxGeneration \in Nat

VARIABLES
  gate,        \* FcxDatagramActive and FcxUdpStopping
  lease,       \* FcxLeaseState
  generation,  \* FcxLeaseGeneration
  rundown,     \* FcxLeaseRundown
  receive,     \* FcxDatagramReceiveQueue: the key a request was queued under
  slots,       \* FcxUdpFlowCount and FcxUdpFlowEmptyEvent
  waking,      \* threads that took the count to 0 and have not set the event
  context,     \* the flow contexts
  wfp,         \* what WFP holds of each flow
  classify,    \* the classify call of each established flow
  capture,     \* the classify call of a datagram of each flow
  sending,     \* injections of each flow that WFP has
  finishing,   \* injections of each flow that are past their dereference
  injection,   \* FcxUdpInjectionCount and the health counters
  todo,        \* the steps the control thread has ahead
  incoming,    \* the lease a grant has built
  holding      \* the flow the control thread holds a reference to

threadVars    == <<classify, capture>>
callbackVars  == <<wfp, sending, finishing>>
leaseVars     == <<gate, lease, generation, receive, incoming>>
contextVars   == <<context, slots, waking>>
vars == <<leaseVars, rundown, contextVars, callbackVars, threadVars,
          injection, todo, holding>>

NoContext ==
  [refs |-> 0, listed |-> FALSE, associated |-> FALSE, bound |-> FALSE,
   removal |-> FALSE, key |-> None, window |-> EmptyWindow,
   sent |-> [n \in Numbers |-> 0]]

ControlThread     == <<"control", None>>
ClassifyThread(f) == <<"classify", f>>
Callback(f)       == <<"callback", f>>

-----------------------------------------------------------------------------
(* What the control thread does in one request, step by step.              *)

Steps(names) == [i \in DOMAIN names |-> [step |-> names[i], flow |-> None, number |-> 0]]

Drain == <<"stop", "drain", "flows">>

ReleaseLease ==
  Steps(<<"close", "purge", "detach", "fence", "readers", "reopen", "injections">>
          \o Drain)

(* Mutant of RenewLease: readers of the old lease are not waited for.       *)
RenewsUnderReaders == Steps(<<"swap", "fence", "reopen", "expire">>)

RenewLease == Steps(<<"swap", "fence", "readers", "reopen", "expire">>)

(* Mutant of ReplaceLease: flows are admitted again before the readers of   *)
(* the old lease are gone.                                                  *)
ResumesUnderReaders ==
  Steps(<<"close", "purge", "injections">> \o Drain
          \o <<"swap", "resume", "fence", "readers", "reopen", "expire">>)

ReplaceLease ==
  Steps(<<"close", "purge", "injections">> \o Drain
          \o <<"swap", "fence", "readers", "reopen", "resume", "expire">>)

DeactivatePath ==
  Steps(<<"close", "fence", "readers", "purge", "injections">> \o Drain
          \o <<"reopen", "expire">>)

(* A batch is validated as a whole before its first reply is sent.         *)
SubmitBatch(batch) ==
  LET Record(name, reply) == [step |-> name, flow |-> reply.flow, number |-> reply.number]
      Checks == [i \in 1 .. 2 * Len(batch) |->
                   Record(IF i % 2 = 1 THEN "check" ELSE "drop", batch[(i + 1) \div 2])]
      Sends  == [i \in 1 .. 3 * Len(batch) |->
                   Record(<<"reference", "reserve", "send">>[((i - 1) % 3) + 1],
                          batch[(i + 2) \div 3])]
  IN Checks \o Sends

Idle == todo = << >> /\ ControlThread \notin waking

AtStep(name) == todo # << >> /\ Head(todo).step = name /\ ControlThread \notin waking

Advanced == todo' = Tail(todo)

-----------------------------------------------------------------------------
(* The last reference frees the context and gives its slot back.  The event *)
(* is set by a later step of the same thread: the two are not one operation *)
(* in the code.                                                             *)

ReleaseSlot(thread) ==
  /\ slots' = [slots EXCEPT !.count = @ - 1]
  /\ waking' = IF slots.count = 1 THEN waking \cup {thread} ELSE waking

Dereference(f, record, thread) ==
  IF record.refs = 1
  THEN /\ context' = [context EXCEPT ![f] = [NoContext EXCEPT !.listed = record.listed]]
       /\ ReleaseSlot(thread)
  ELSE /\ context' = [context EXCEPT ![f] = [record EXCEPT !.refs = record.refs - 1]]
       /\ UNCHANGED <<slots, waking>>

Unlinked(record) == [record EXCEPT !.listed = FALSE]

SetEmptyEvent(thread) ==
  /\ thread \in waking
  /\ waking' = waking \ {thread}
  /\ slots' = [slots EXCEPT !.drained = TRUE]
  /\ UNCHANGED <<leaseVars, rundown, context, callbackVars, threadVars,
                 injection, todo, holding>>

-----------------------------------------------------------------------------
(* FcxClassifyUdpFlow: a UDP flow of a protected application is established. *)

AtClassify(f, pc) == classify[f].pc = pc /\ ClassifyThread(f) \notin waking

Goto(f, pc) == classify' = [classify EXCEPT ![f].pc = pc]

LeaseLive == lease # None /\ ~lease.lapsed

ClassifyAdmit(f) ==
  /\ AtClassify(f, "idle") /\ context[f].refs = 0 /\ wfp[f] = "none"
  /\ gate.active /\ ~gate.stopping
  /\ Goto(f, "admitted")
  /\ UNCHANGED <<leaseVars, rundown, contextVars, callbackVars, capture,
                 injection, todo, holding>>

(* The lease is read under rundown protection; without one that matches    *)
(* the policy the flow is aborted.                                         *)
ClassifyAcquire(f) ==
  /\ AtClassify(f, "admitted")
  /\ IF ~rundown.closed /\ LeaseLive
     THEN /\ rundown' = [rundown EXCEPT !.holders = @ + 1]
          /\ classify' = [classify EXCEPT ![f] = [pc |-> "reading", key |-> lease.key]]
     ELSE /\ Goto(f, "idle")
          /\ UNCHANGED rundown
  /\ UNCHANGED <<leaseVars, contextVars, callbackVars, capture,
                 injection, todo, holding>>

ClassifyCheck(f) ==
  /\ AtClassify(f, "reading")
  /\ Goto(f, IF gate.stopping THEN "releasing" ELSE "reserving")
  /\ UNCHANGED <<leaseVars, rundown, contextVars, callbackVars, capture,
                 injection, todo, holding>>

(* Mutant of SlotOutcome: the limit is off by one.                          *)
OneSlotMore(count) ==
  CASE count = 1            -> "counted"
    [] count > MaxFlows + 1 -> "full"
    [] OTHER                -> "reserved"

SlotOutcome(count) ==
  CASE count = 1        -> "counted"
    [] count > MaxFlows -> "full"
    [] OTHER            -> "reserved"

ClassifyCount(f) ==
  /\ AtClassify(f, "reserving")
  /\ slots' = [slots EXCEPT !.count = @ + 1]
  /\ Goto(f, SlotOutcome(slots.count + 1))
  /\ UNCHANGED <<leaseVars, rundown, context, waking, callbackVars, capture,
                 injection, todo, holding>>

ClassifyClearEvent(f) ==
  /\ AtClassify(f, "counted")
  /\ slots' = [slots EXCEPT !.drained = FALSE]
  /\ Goto(f, "reserved")
  /\ UNCHANGED <<leaseVars, rundown, context, waking, callbackVars, capture,
                 injection, todo, holding>>

(* The limit of flows is passed, or there is no memory for a context.      *)
ClassifyGiveSlotBack(f) ==
  /\ AtClassify(f, "full") \/ AtClassify(f, "reserved")
  /\ ReleaseSlot(ClassifyThread(f))
  /\ Goto(f, "releasing")
  /\ UNCHANGED <<leaseVars, rundown, context, callbackVars, capture,
                 injection, todo, holding>>

Linked(record) == [record EXCEPT !.listed = TRUE, !.refs = 2]

(* The context is linked unless a teardown has begun, with a second        *)
(* reference for WFP before WFP knows of it.                               *)
ClassifyLink(f) ==
  LET fresh == [NoContext EXCEPT !.refs = 1, !.key = classify[f].key]
  IN /\ AtClassify(f, "reserved")
     /\ IF gate.stopping
        THEN /\ context' = [context EXCEPT ![f] = fresh]
             /\ Goto(f, "leaving")
        ELSE /\ context' = [context EXCEPT ![f] = Linked(fresh)]
             /\ Goto(f, "associating")
     /\ UNCHANGED <<leaseVars, rundown, slots, waking, callbackVars, capture,
                    injection, todo, holding>>

ClassifyAssociate(f) ==
  /\ AtClassify(f, "associating")
  /\ wfp' = [wfp EXCEPT ![f] = "attached"]
  /\ Goto(f, "marking")
  /\ UNCHANGED <<leaseVars, rundown, contextVars, sending, finishing, capture,
                 injection, todo, holding>>

ClassifyAssociateFails(f) ==
  /\ AtClassify(f, "associating")
  /\ Dereference(f, Unlinked(context[f]), ClassifyThread(f))
  /\ Goto(f, "leaving")
  /\ UNCHANGED <<leaseVars, rundown, callbackVars, capture, injection, todo, holding>>

(* WFP may have deleted the flow since; a teardown that began since has    *)
(* not seen the context as associated, so this thread removes it.          *)
ClassifyMark(f) ==
  /\ AtClassify(f, "marking")
  /\ IF context[f].listed
     THEN /\ context' = [context EXCEPT ![f].associated = TRUE,
                                        ![f].removal = gate.stopping]
          /\ wfp' = IF gate.stopping THEN [wfp EXCEPT ![f] = "removing"] ELSE wfp
     ELSE UNCHANGED <<context, wfp>>
  /\ Goto(f, "leaving")
  /\ UNCHANGED <<leaseVars, rundown, slots, waking, sending, finishing, capture,
                 injection, todo, holding>>

ClassifyLeave(f) ==
  /\ AtClassify(f, "leaving")
  /\ Dereference(f, context[f], ClassifyThread(f))
  /\ Goto(f, "releasing")
  /\ UNCHANGED <<leaseVars, rundown, callbackVars, capture, injection, todo, holding>>

ClassifyRelease(f) ==
  /\ AtClassify(f, "releasing")
  /\ rundown' = [rundown EXCEPT !.holders = @ - 1]
  /\ classify' = [classify EXCEPT ![f] = [pc |-> "idle", key |-> None]]
  /\ UNCHANGED <<leaseVars, contextVars, callbackVars, capture, injection, todo, holding>>

ClassifyStep(f) ==
  \/ ClassifyAcquire(f)       \/ ClassifyCheck(f)
  \/ ClassifyCount(f)         \/ ClassifyClearEvent(f)
  \/ ClassifyGiveSlotBack(f)  \/ ClassifyLink(f)
  \/ ClassifyAssociate(f)     \/ ClassifyAssociateFails(f)
  \/ ClassifyMark(f)          \/ ClassifyLeave(f)
  \/ ClassifyRelease(f)


-----------------------------------------------------------------------------
(* FcxCaptureOutboundDatagram: a datagram of an associated flow answers the *)
(* receive request that the Broker has queued, or is blocked.               *)

CaptureBegin(f) ==
  /\ capture[f].pc = "idle" /\ wfp[f] = "attached"
  /\ gate.active /\ ~gate.stopping /\ ~rundown.closed
  /\ LeaseLive /\ lease.key = context[f].key
  /\ rundown' = [rundown EXCEPT !.holders = @ + 1]
  /\ capture' = [capture EXCEPT ![f] = [pc |-> "binding", lease |-> lease]]
  /\ UNCHANGED <<leaseVars, contextVars, callbackVars, classify, injection, todo, holding>>

Usable(f) == context[f].listed /\ context[f].associated /\ ~context[f].removal

CaptureLeaves(f) ==
  /\ rundown' = [rundown EXCEPT !.holders = @ - 1]
  /\ capture' = [capture EXCEPT ![f] = [pc |-> "idle", lease |-> None]]

CaptureBind(f) ==
  /\ capture[f].pc = "binding"
  /\ IF Usable(f)
     THEN /\ context' = [context EXCEPT ![f].bound = TRUE]
          /\ capture' = [capture EXCEPT ![f].pc = "taking"]
          /\ UNCHANGED rundown
     ELSE CaptureLeaves(f) /\ UNCHANGED context
  /\ UNCHANGED <<leaseVars, slots, waking, callbackVars, classify, injection, todo, holding>>

CaptureTake(f) ==
  /\ capture[f].pc = "taking"
  /\ receive' = None
  /\ CaptureLeaves(f)
  /\ UNCHANGED <<gate, lease, generation, incoming, contextVars, callbackVars,
                 classify, injection, todo, holding>>

(* The packet cannot be read; it is blocked and no request is taken.        *)
CaptureGivesUp(f) ==
  /\ capture[f].pc # "idle"
  /\ CaptureLeaves(f)
  /\ UNCHANGED <<leaseVars, contextVars, callbackVars, classify, injection, todo, holding>>

CaptureStep(f) == CaptureBind(f) \/ CaptureTake(f) \/ CaptureGivesUp(f)

-----------------------------------------------------------------------------
(* Callbacks of WFP.  A flow is deleted when it ends or when its context    *)
(* was removed, never while a datagram of it is being classified.           *)

FlowDelete(f) ==
  /\ wfp[f] \in {"attached", "removing"} /\ capture[f].pc = "idle"
  /\ wfp' = [wfp EXCEPT ![f] = "none"]
  /\ Dereference(f, Unlinked(context[f]), Callback(f))
  /\ UNCHANGED <<leaseVars, rundown, sending, finishing, threadVars,
                 injection, todo, holding>>

(* FcxDestroyUdpInjectionContext: the reference first, then the slot.      *)
CompleteInjection(f) ==
  /\ sending[f] > 0
  /\ sending' = [sending EXCEPT ![f] = @ - 1]
  /\ finishing' = [finishing EXCEPT ![f] = @ + 1]
  /\ Dereference(f, context[f], Callback(f))
  /\ UNCHANGED <<leaseVars, rundown, wfp, threadVars, injection, todo, holding>>

(* The counters of attempted, succeeded and failed injections are kept as   *)
(* the difference of the first and the sum of the others.                   *)
FinishedSlot(attempted) ==
  [injection EXCEPT !.count = @ - 1, !.open = IF attempted THEN @ - 1 ELSE @]

FinishInjection(f) ==
  /\ finishing[f] > 0 /\ Callback(f) \notin waking
  /\ finishing' = [finishing EXCEPT ![f] = @ - 1]
  /\ injection' = FinishedSlot(TRUE)
  /\ UNCHANGED <<leaseVars, rundown, contextVars, wfp, sending, threadVars, todo, holding>>

-----------------------------------------------------------------------------
(* Requests: the control thread takes one when it has ended the last.       *)

(* FcxBuildLease and the head of FcxReplaceLease: a renewal of the lease in *)
(* force keeps the gate and the contexts, even when its time is over.       *)
GrantLease(key) ==
  LET new == [key |-> key, generation |-> generation + 1, lapsed |-> FALSE]
  IN /\ Idle /\ generation < MaxGeneration
     /\ generation' = generation + 1
     /\ incoming' = new
     /\ todo' = IF gate.active /\ lease # None /\ lease.key = key
                THEN RenewLease ELSE ReplaceLease
     /\ UNCHANGED <<gate, lease, receive, rundown, contextVars, callbackVars,
                    threadVars, injection, holding>>

(* Lease revoked, policy uploaded or unloaded, Broker process gone.         *)
RevokeLease ==
  /\ Idle
  /\ todo' = ReleaseLease
  /\ UNCHANGED <<leaseVars, rundown, contextVars, callbackVars, threadVars,
                 injection, holding>>

Deactivate ==
  /\ Idle
  /\ todo' = DeactivatePath
  /\ UNCHANGED <<leaseVars, rundown, contextVars, callbackVars, threadVars,
                 injection, holding>>

Activate ==
  /\ Idle /\ LeaseLive
  /\ gate' = [active |-> TRUE, stopping |-> FALSE]
  /\ todo' = Steps(<<"expire">>)
  /\ UNCHANGED <<lease, receive, generation, incoming, rundown, contextVars, callbackVars,
                 threadVars, injection, holding>>

Query ==
  /\ Idle
  /\ todo' = Steps(<<"expire">>)
  /\ UNCHANGED <<leaseVars, rundown, contextVars, callbackVars, threadVars,
                 injection, holding>>

(* One request is queued at a time, before the gate opens if need be.       *)
QueueReceive ==
  /\ Idle /\ LeaseLive /\ receive = None
  /\ receive' = lease.key
  /\ UNCHANGED <<gate, lease, generation, incoming, rundown, contextVars, callbackVars,
                 threadVars, injection, todo, holding>>

(* A batch is taken from the owner of the lease in force only.              *)
Submit(batch) ==
  /\ Idle /\ gate.active /\ LeaseLive
  /\ todo' = SubmitBatch(batch)
  /\ UNCHANGED <<leaseVars, rundown, contextVars, callbackVars, threadVars,
                 injection, holding>>

Lapse ==
  /\ LeaseLive
  /\ lease' = [lease EXCEPT !.lapsed = TRUE]
  /\ UNCHANGED <<gate, generation, receive, incoming, rundown, contextVars, callbackVars,
                 threadVars, injection, todo, holding>>

-----------------------------------------------------------------------------
(* Steps of teardown and of a change of lease.                              *)

Close ==
  /\ AtStep("close") /\ Advanced
  /\ gate' = [gate EXCEPT !.active = FALSE]
  /\ UNCHANGED <<lease, generation, receive, incoming, rundown, contextVars,
                 callbackVars, threadVars, injection, holding>>

Purge ==
  /\ AtStep("purge") /\ Advanced
  /\ receive' = None
  /\ UNCHANGED <<gate, lease, generation, incoming, rundown, contextVars,
                 callbackVars, threadVars, injection, holding>>

ExchangeLease ==
  /\ AtStep("detach") \/ AtStep("swap")
  /\ Advanced
  /\ lease' = IF AtStep("swap") THEN incoming ELSE None
  /\ incoming' = None
  /\ UNCHANGED <<gate, generation, receive, rundown, contextVars,
                 callbackVars, threadVars, injection, holding>>

Fence ==
  /\ AtStep("fence") /\ Advanced
  /\ rundown' = [rundown EXCEPT !.closed = TRUE]
  /\ UNCHANGED <<leaseVars, contextVars, callbackVars, threadVars, injection, holding>>

AwaitReaders ==
  /\ AtStep("readers") /\ rundown.holders = 0 /\ Advanced
  /\ UNCHANGED <<leaseVars, rundown, contextVars, callbackVars, threadVars,
                 injection, holding>>

Reopen ==
  /\ AtStep("reopen") /\ Advanced
  /\ rundown' = [rundown EXCEPT !.closed = FALSE]
  /\ UNCHANGED <<leaseVars, contextVars, callbackVars, threadVars, injection, holding>>

AwaitInjections ==
  /\ AtStep("injections") /\ injection.count = 0 /\ Advanced
  /\ UNCHANGED <<leaseVars, rundown, contextVars, callbackVars, threadVars,
                 injection, holding>>

SetStopping(name, value) ==
  /\ AtStep(name) /\ Advanced
  /\ gate' = [gate EXCEPT !.stopping = value]
  /\ UNCHANGED <<lease, generation, receive, incoming, rundown, contextVars,
                 callbackVars, threadVars, injection, holding>>

(* Mutant of DrainFlow: the context is marked and WFP is not told.          *)
DrainMarksOnly(f) ==
  /\ AtStep("drain") /\ Usable(f)
  /\ context' = [context EXCEPT ![f].removal = TRUE]
  /\ UNCHANGED <<leaseVars, rundown, slots, waking, callbackVars, threadVars,
                 injection, todo, holding>>

(* FcxDrainUdpFlowContexts: contexts are marked and removed one by one      *)
(* while one is left that is associated.                                    *)
DrainFlow(f) ==
  /\ AtStep("drain") /\ Usable(f)
  /\ context' = [context EXCEPT ![f].removal = TRUE]
  /\ wfp' = [wfp EXCEPT ![f] = "removing"]
  /\ UNCHANGED <<leaseVars, rundown, slots, waking, sending, finishing, threadVars,
                 injection, todo, holding>>

DrainEnds ==
  /\ AtStep("drain") /\ \A f \in Flows : ~Usable(f)
  /\ Advanced
  /\ UNCHANGED <<leaseVars, rundown, contextVars, callbackVars, threadVars,
                 injection, holding>>

(* The count is read once; if it is not 0 the event is waited for.          *)
ReadCount ==
  /\ AtStep("flows")
  /\ todo' = IF slots.count = 0 THEN Tail(todo) ELSE Steps(<<"await">>) \o Tail(todo)
  /\ UNCHANGED <<leaseVars, rundown, contextVars, callbackVars, threadVars,
                 injection, holding>>

AwaitEmptyEvent ==
  /\ AtStep("await") /\ slots.drained /\ Advanced
  /\ UNCHANGED <<leaseVars, rundown, contextVars, callbackVars, threadVars,
                 injection, holding>>

(* FcxExpireLeaseIfNeeded, at the end of every request that answers with a  *)
(* snapshot.                                                                *)
Expire ==
  /\ AtStep("expire")
  /\ todo' = IF lease # None /\ lease.lapsed THEN ReleaseLease ELSE Tail(todo)
  /\ UNCHANGED <<leaseVars, rundown, contextVars, callbackVars, threadVars,
                 injection, holding>>

TeardownStep ==
  \/ Close  \/ Purge   \/ ExchangeLease
  \/ Fence  \/ AwaitReaders \/ Reopen
  \/ AwaitInjections
  \/ SetStopping("stop", TRUE) \/ SetStopping("resume", FALSE)
  \/ \E f \in Flows : DrainFlow(f)
  \/ DrainEnds \/ ReadCount \/ AwaitEmptyEvent
  \/ Expire

-----------------------------------------------------------------------------
(* Steps of a batch of replies.  FcxReferenceUdpFlowForReply looks at the   *)
(* window without advancing it; the number is committed right before the    *)
(* packet is handed to WFP, after the flow is looked at once more.          *)

Replyable(f) == Usable(f) /\ context[f].bound /\ gate.active /\ ~gate.stopping

ReferenceForReply(name) ==
  LET reply == Head(todo)
      f     == reply.flow
  IN /\ AtStep(name)
     /\ IF /\ Replyable(f) /\ context[f].key = lease.key
           /\ Accepts(context[f].window, reply.number)
        THEN /\ context' = [context EXCEPT ![f].refs = @ + 1]
             /\ holding' = f
             /\ Advanced
        ELSE /\ todo' = << >>
             /\ UNCHANGED <<context, holding>>
     /\ UNCHANGED <<leaseVars, rundown, slots, waking, callbackVars, threadVars, injection>>

Drop ==
  /\ AtStep("drop") /\ Advanced
  /\ Dereference(holding, context[holding], ControlThread)
  /\ holding' = None
  /\ UNCHANGED <<leaseVars, rundown, callbackVars, threadVars, injection>>

(* The rest of the batch is given up with the reference.                   *)
GiveUp ==
  /\ Dereference(holding, context[holding], ControlThread)
  /\ holding' = None
  /\ todo' = << >>

ReserveInjection ==
  /\ AtStep("reserve")
  /\ IF injection.count < MaxInFlight /\ gate.active /\ ~gate.stopping
     THEN /\ injection' = [injection EXCEPT !.count = @ + 1]
          /\ Advanced
          /\ UNCHANGED <<context, slots, waking, holding>>
     ELSE GiveUp /\ UNCHANGED injection
  /\ UNCHANGED <<leaseVars, rundown, callbackVars, threadVars>>

(* No memory for the packet: nothing was attempted.                        *)
PacketFails ==
  /\ AtStep("send")
  /\ GiveUp
  /\ injection' = FinishedSlot(FALSE)
  /\ UNCHANGED <<leaseVars, rundown, callbackVars, threadVars>>

CommitsReply(f, number) == Replyable(f) /\ Accepts(context[f].window, number)

Committed(record, number) ==
  [record EXCEPT !.window = Advance(record.window, number),
                 !.sent = [record.sent EXCEPT ![number] = record.sent[number] + 1]]

SendReply ==
  LET reply == Head(todo)
      f     == reply.flow
  IN /\ AtStep("send") /\ CommitsReply(f, reply.number)
     /\ context' = [context EXCEPT ![f] = Committed(context[f], reply.number)]
     /\ sending' = [sending EXCEPT ![f] = @ + 1]
     /\ injection' = [injection EXCEPT !.open = @ + 1]
     /\ holding' = None
     /\ Advanced
     /\ UNCHANGED <<leaseVars, rundown, slots, waking, wfp, finishing, threadVars>>

(* The attempt is on record, and the number is refused or WFP refuses the   *)
(* packet; then a committed number stays committed.                         *)
SendFails ==
  LET reply == Head(todo)
      f     == reply.flow
  IN /\ AtStep("send")
     /\ Dereference(f, IF CommitsReply(f, reply.number)
                       THEN Committed(context[f], reply.number) ELSE context[f],
                    ControlThread)
     /\ injection' = FinishedSlot(FALSE)
     /\ holding' = None
     /\ todo' = << >>
     /\ UNCHANGED <<leaseVars, rundown, callbackVars, threadVars>>

ReplyStep ==
  \/ ReferenceForReply("check") \/ Drop
  \/ ReferenceForReply("reference") \/ ReserveInjection
  \/ PacketFails \/ SendReply \/ SendFails

ControlStep == TeardownStep \/ ReplyStep

-----------------------------------------------------------------------------
Batches == UNION {[1 .. n -> [flow : Flows, number : Numbers]] : n \in 1 .. MaxRecords}

Request ==
  \/ \E key \in Keys : GrantLease(key)
  \/ RevokeLease \/ Activate \/ Deactivate \/ Query
  \/ QueueReceive
  \/ \E batch \in Batches : Submit(batch)

Threads == {ControlThread} \cup {ClassifyThread(f) : f \in Flows}
                           \cup {Callback(f) : f \in Flows}

Init ==
  /\ gate = [active |-> FALSE, stopping |-> FALSE]
  /\ lease = None /\ generation = 0 /\ incoming = None
  /\ rundown = [holders |-> 0, closed |-> FALSE]
  /\ receive = None
  /\ slots = [count |-> 0, drained |-> TRUE]
  /\ waking = {}
  /\ context = [f \in Flows |-> NoContext]
  /\ wfp = [f \in Flows |-> "none"]
  /\ classify = [f \in Flows |-> [pc |-> "idle", key |-> None]]
  /\ capture = [f \in Flows |-> [pc |-> "idle", lease |-> None]]
  /\ sending = [f \in Flows |-> 0] /\ finishing = [f \in Flows |-> 0]
  /\ injection = [count |-> 0, open |-> 0]
  /\ todo = << >> /\ holding = None

Next ==
  \/ Request \/ ControlStep \/ Lapse
  \/ \E thread \in Threads : SetEmptyEvent(thread)
  \/ \E f \in Flows : \/ ClassifyAdmit(f) \/ ClassifyStep(f)
                      \/ CaptureBegin(f)  \/ CaptureStep(f)
                      \/ FlowDelete(f)
                      \/ CompleteInjection(f) \/ FinishInjection(f)

Spec == Init /\ [][Next]_vars

(* Steps of the threads of a flow that are under way, and what WFP owes:    *)
(* the deletion of a flow whose context was removed, the completion of an   *)
(* injection.  Requests, datagrams and the end of a flow need not come.     *)
FlowStep(f) ==
  \/ ClassifyStep(f) \/ CaptureStep(f)
  \/ wfp[f] = "removing" /\ FlowDelete(f)
  \/ CompleteInjection(f) \/ FinishInjection(f)
  \/ SetEmptyEvent(ClassifyThread(f)) \/ SetEmptyEvent(Callback(f))

(* The control thread runs when it can, and so does one thread of each flow *)
(* that has some: the kernel does better than that.                         *)
Fairness ==
  /\ WF_vars(ControlStep \/ SetEmptyEvent(ControlThread))
  /\ \A f \in Flows : WF_vars(FlowStep(f))

FairSpec == Spec /\ Fairness

-----------------------------------------------------------------------------
(* Properties.                                                             *)

ClassifyPoints ==
  {"idle", "admitted", "reading", "reserving", "counted", "full", "reserved",
   "associating", "marking", "leaving", "releasing"}

StepNames ==
  {"close", "purge", "detach", "fence", "readers", "reopen", "injections", "stop",
   "drain", "flows", "await", "swap", "resume", "expire",
   "check", "drop", "reference", "reserve", "send"}

TypeOK ==
  /\ gate \in [active : BOOLEAN, stopping : BOOLEAN]
  /\ lease \in Leases \cup {None} /\ incoming \in Leases \cup {None}
  /\ generation \in 0 .. MaxGeneration
  /\ rundown \in [holders : Nat, closed : BOOLEAN]
  /\ receive \in Keys \cup {None}
  /\ slots \in [count : Nat, drained : BOOLEAN]
  /\ waking \subseteq Threads
  /\ context \in [Flows -> [refs : Nat, listed : BOOLEAN, associated : BOOLEAN,
                            bound : BOOLEAN, removal : BOOLEAN, key : Keys \cup {None},
                            window : Windows, sent : [Numbers -> Nat]]]
  /\ wfp \in [Flows -> {"none", "attached", "removing"}]
  /\ classify \in [Flows -> [pc : ClassifyPoints, key : Keys \cup {None}]]
  /\ capture \in [Flows -> [pc : {"idle", "binding", "taking"},
                            lease : Leases \cup {None}]]
  /\ sending \in [Flows -> Nat] /\ finishing \in [Flows -> Nat]
  /\ injection \in [count : Nat, open : Int]
  /\ todo \in Seq([step : StepNames, flow : Flows \cup {None}, number : Nat])
  /\ holding \in Flows \cup {None}

(* The reference count of a context is the number of those who will use it  *)
(* again: its creator, WFP, the reply under way and the injections that are *)
(* not complete.  So none of them finds it freed, and none is counted that  *)
(* will never let go.  A freed context is in no list (NT_ASSERT in          *)
(* FcxDereferenceUdpFlowContext).                                           *)
One(condition) == IF condition THEN 1 ELSE 0

Creating(f) == classify[f].pc \in {"associating", "marking", "leaving"}

ReferencesCounted ==
  \A f \in Flows :
    /\ context[f].refs = One(Creating(f))
                         + One(classify[f].pc = "associating" \/ wfp[f] # "none")
                         + One(holding = f) + sending[f]
    /\ context[f].refs = 0 => ~context[f].listed

(* FcxUdpFlowCount counts the contexts and the slots reserved for one, and  *)
(* is never more than its limit when it grants one; FcxReserveUdpFlowSlot   *)
(* and FcxReleaseUdpFlowSlot use no lock.                                   *)
Existing      == {f \in Flows : context[f].refs > 0}
Reserving(f)  == classify[f].pc \in {"counted", "reserved"}
SlotsCounted ==
  /\ slots.count = Cardinality(Existing)
                   + Cardinality({f \in Flows : Reserving(f) \/ classify[f].pc = "full"})
  /\ Cardinality(Existing \cup {f \in Flows : Reserving(f)}) <= MaxFlows

(* Between requests, every context that a datagram or a reply could use is  *)
(* of the lease in force, though contexts are made, marked and deleted by   *)
(* threads that the change of lease does not stop (FcxReplaceLease,         *)
(* FcxReleaseLeaseLocked, FcxClassifyUdpFlow); and the same holds of the    *)
(* receive request.                                                         *)
LeaseOwnsTheRest ==
  Idle => /\ \A f \in Flows : Usable(f) => lease # None /\ lease.key = context[f].key
          /\ receive # None => lease # None /\ lease.key = receive

(* The gate is not open without a lease, and between requests nothing goes  *)
(* on behind a closed gate: no datagram on its way to the Broker, no reply  *)
(* on its way to an application (FcxSetDatagramPathActive).                 *)
ClosedIsQuiet ==
  /\ gate.active => lease # None
  /\ Idle /\ ~gate.active =>
       /\ injection.count = 0
       /\ \A f \in Flows : /\ sending[f] = 0 /\ finishing[f] = 0
                            /\ capture[f].pc = "idle"

(* A captured datagram goes to the request of the lease that its flow was   *)
(* admitted under, and carries that lease: the one in force, unless a       *)
(* renewal is exchanging it at that moment.                                 *)
Takes(f) == capture[f].pc = "taking" /\ capture[f]' # capture[f]

CaptureOfLease ==
  [][\A f \in Flows : Takes(f) /\ receive # None =>
       /\ capture[f].lease.key = receive
       /\ capture[f].lease.key = context[f].key
       /\ Idle => lease # None /\ lease.generation = capture[f].lease.generation]_vars

(* A reply is handed to an application at most once, whatever order and     *)
(* however often its number arrives; and the window is that of the numbers  *)
(* sent (FcxUdpReplySequenceAccepts, FcxCommitUdpReplySequence).            *)
RepliesOnce ==
  \A f \in Flows :
    /\ \A n \in Numbers : context[f].sent[n] <= 1
    /\ Represents(context[f].window, {n \in Numbers : context[f].sent[n] > 0})

(* One element for each injection of each flow.                             *)
Numbered(injections) == UNION {{f} \X (1 .. injections[f]) : f \in Flows}

(* What the Broker demands of every snapshot: attempted injections are those *)
(* that succeeded, failed or are in flight; snapshots are taken between      *)
(* requests.  And the count in flight is the number of injections that exist,*)
(* within its limit.                                                         *)
Accounted ==
  /\ Idle => injection.open = injection.count
  /\ injection.count <= MaxInFlight
  /\ injection.count = Cardinality(Numbered(sending)) + Cardinality(Numbered(finishing))
                       + One(AtStep("send"))

(* What the lease owns, what the gate closes and what is counted, together: *)
(* the four statements above.                                               *)
PathInvariant ==
  TypeOK /\ ReferencesCounted /\ LeaseOwnsTheRest /\ ClosedIsQuiet /\ Accounted

(* Every request ends: no teardown waits for a reader, an injection or a    *)
(* flow that will not come.                                                 *)
RequestsEnd == []<>(todo = << >>)

(* The comment in FcxDrainUdpFlowContexts: the event says that no context   *)
(* is left when the drain is over.                                          *)
DrainIsFence ==
  [][AwaitEmptyEvent \/ (ReadCount /\ todo' = Tail(todo))
       => \A f \in Flows : context[f].refs = 0]_vars

=============================================================================
