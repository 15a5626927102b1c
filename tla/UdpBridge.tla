----------------------------- MODULE UdpBridge -----------------------------
(***************************************************************************)
(* The UDP bridge of the Strict Broker, from windows_udp_bridge.rs and     *)
(* windows_core_udp_data.rs: two threads that carry datagrams between the  *)
(* WFP callout driver and the Go Core.                                     *)
(*                                                                         *)
(*  - the receiver keeps one receive request posted to the driver; its two *)
(*    buffers circulate through the channels `free' and `captured';        *)
(*  - the bridge drains captured batches, sends their datagrams to the     *)
(*    Core, collects the Core's replies into one batch and submits it;     *)
(*  - the renewal thread advances the generation of the endpoint lease in  *)
(*    the driver and then the window of generations the bridge accepts;    *)
(*  - the owner of the runtime arms it, and stops it: it says that the     *)
(*    gate will be revoked, revokes it, and joins both threads.            *)
(*                                                                         *)
(* An association ties a flow of the driver to an identifier under which   *)
(* the Core answers.  Three tables hold it, each with its own idle timer:  *)
(* the bridge's, the transport's (the Broker's end of the socket) and the  *)
(* Core's.  A tick is half of the idle time; ages are counted in ticks.    *)
(***************************************************************************)
EXTENDS Naturals, Sequences, FiniteSets

CONSTANTS
  None,      \* no flow
  Flows,     \* flow tokens; the driver never gives one a second time
  Ids,       \* bound: the identifiers new_association_id may give
  Buffers,   \* DRIVER_BATCH_BUFFER_COUNT
  Limit,     \* associations a table holds (1024 in the code)
  Records,   \* STRICT_DRIVER_DATAGRAM_MAX_RECORDS
  Sizes,     \* sizes a reply's record may have
  Space,     \* STRICT_DRIVER_DATAGRAM_MAX_BATCH_BYTES, in the same unit
  Budgets    \* bounds: what the surroundings may do, at most

ASSUME SizesAssumption ==
  /\ Buffers \in Nat \ {0} /\ Limit \in Nat \ {0} /\ Records \in Nat \ {0}
  /\ None \notin Flows /\ 0 \notin Ids
  /\ Sizes \subseteq 1..Space /\ Space \in Nat
ASSUME BudgetsAssumption ==
  Budgets \subseteq [flows : SUBSET Flows, captures : Nat, replies : Nat, renewals : Nat,
                     losses : Nat, closes : Nat, faults : Nat, stops : Nat, ticks : Nat]

VARIABLES
  owner,        \* where the owner of the runtime is
  renewal,      \* where the renewal thread is
  driver,       \* the driver's lease, gate and injections
  request,      \* the receive request the driver holds
  open,         \* flows whose context the driver still has
  window,       \* lease_window: the current and the previous generation
  flags,        \* shutdown, cancelled, gate_revoking, alive
  receiver,     \* run_driver_receiver
  free,         \* buffers in the free channel
  captured,     \* batches in the captured channel
  bridge,       \* run_udp_bridge
  associations, \* StrictDriverUdpAssociations, by flow
  transport,    \* StrictCoreUdpTransport.associations, by identifier
  core,         \* the Core's associations, by identifier
  inbound,      \* reply frames on the socket, in no particular order
  budget,       \* what the surroundings may still do
  past          \* history that the code does not keep

tables      == <<associations, transport, core, inbound>>
workers     == <<receiver, free, captured, bridge>>
control     == <<owner, renewal, window>>
surrounding == <<open, budget, past>>
vars == <<owner, renewal, driver, request, open, window, flags, receiver, free,
          captured, bridge, associations, transport, core, inbound, budget, past>>

Idle == 2       \* STRICT_DRIVER_UDP_ASSOCIATION_IDLE, in ticks
Ended == {"done", "failed"}
Returned == {"ending", "done", "failed"}  \* the thread's channels are dropped

NoBatch == [generation |-> 0, flow |-> None]
Batch(generation, flow) == [generation |-> generation, flow |-> flow]

NoRequest == [state |-> "none", batch |-> NoBatch]

(* One entry of a table: identifier, idle time, the next number to send,    *)
(* the numbers seen.                                                        *)
Absent == [id |-> 0, age |-> 0, next |-> 0, seen |-> {}]
Entry(id) == [id |-> id, age |-> 0, next |-> 1, seen |-> {}]

Held(table)    == {k \in DOMAIN table : table[k].id # 0}
Full(table)    == Cardinality(Held(table)) >= Limit
Expired(table) == {k \in Held(table) : table[k].age >= Idle}
Overdue(table) == {k \in Held(table) : table[k].age > Idle}
Without(table, gone) == [k \in DOMAIN table |-> IF k \in gone THEN Absent ELSE table[k]]
Swept(table)   == Without(table, Expired(table))

(* The transport and the Core look for idle entries once a second at most:  *)
(* one that has just expired may outlast the look, an older one does not.   *)
SweptIfDue(table) == {Swept(table), Without(table, Overdue(table))}

Older(table) == [k \in DOMAIN table |->
                   IF k \in Held(table) \ Overdue(table)
                   THEN [table[k] EXCEPT !.age = table[k].age + 1] ELSE table[k]]

(* StrictUdpReplayWindow.accept and its twin in the Core; fewer numbers     *)
(* are used here than the window is wide (see ReplayWindow).                *)
Accepts(entry, sequence) == sequence \notin entry.seen
Accepted(entry, sequence) ==
  [entry EXCEPT !.seen = entry.seen \union {sequence}, !.age = 0]

Locked == renewal \in {"locked", "committed"}

MayStill(what) == budget[what] > 0
Spend(what)    == budget' = [budget EXCEPT ![what] = budget[what] - 1]

-----------------------------------------------------------------------------
(* The receiver thread.                                                     *)

(* A free buffer is awaited, with a look at the shutdown every 100 ms.      *)
ReceiverTakes ==
  /\ receiver.pc = "top"
  /\ IF flags.shutdown
     THEN receiver' = [receiver EXCEPT !.pc = "done"] /\ UNCHANGED free
     ELSE /\ free > 0
          /\ free' = free - 1
          /\ receiver' = [receiver EXCEPT !.pc = "posting"]
  /\ UNCHANGED <<control, driver, request, flags, captured, bridge, tables, surrounding>>

(* A failure while the gate is being revoked is the end of the work.        *)
FailedReceive == IF flags.revoking THEN "done" ELSE "ending"

(* The request goes to the driver, which takes it from the lease's owner    *)
(* only; the first one tells the owner that the bridge is armed.            *)
ReceiverPosts ==
  /\ receiver.pc = "posting"
  /\ IF flags.cancelled
     THEN /\ receiver' = [receiver EXCEPT !.pc = "done"]
          /\ UNCHANGED request
     ELSE IF driver.lease
     THEN /\ receiver' = [receiver EXCEPT !.pc = "waiting", !.ready = TRUE]
          /\ request' = [state |-> "pending", batch |-> NoBatch]
     ELSE /\ receiver' = [receiver EXCEPT !.pc = FailedReceive]
          /\ UNCHANGED request
  /\ UNCHANGED <<control, driver, flags, free, captured, bridge, tables, surrounding>>

(* The request ends: with a batch, purged by the driver, or cancelled.      *)
ReceiverCompletes ==
  /\ receiver.pc = "waiting"
  /\ \/ /\ request.state = "filled"
        /\ receiver' = [receiver EXCEPT !.pc = "publishing", !.batch = request.batch]
     \/ /\ request.state = "purged"
        /\ receiver' = [receiver EXCEPT !.pc = FailedReceive]
     \/ /\ flags.cancelled
        /\ receiver' = [receiver EXCEPT !.pc = "done"]
  /\ request' = NoRequest
  /\ UNCHANGED <<control, driver, flags, free, captured, bridge, tables, surrounding>>

(* Mutant of ReceiverExpires: the buffer of an idle wait is dropped.        *)
ReceiverDropsBuffer ==
  /\ receiver.pc = "waiting"
  /\ request' = NoRequest
  /\ receiver' = [receiver EXCEPT !.pc =
                    IF flags.cancelled \/ flags.shutdown THEN "done" ELSE "top"]
  /\ UNCHANGED <<control, driver, flags, free, captured, bridge, tables, surrounding>>

(* The deadline of the request passes; the buffer goes back, and with it a  *)
(* batch, or the driver's purge, that comes while it is being cancelled.    *)
ReceiverExpires ==
  /\ receiver.pc = "waiting"
  /\ request' = NoRequest
  /\ IF flags.cancelled \/ flags.shutdown
     THEN receiver' = [receiver EXCEPT !.pc = "done"] /\ UNCHANGED free
     ELSE receiver' = [receiver EXCEPT !.pc = "top"] /\ free' = free + 1
  /\ UNCHANGED <<control, driver, flags, captured, bridge, tables, surrounding>>

ReceiverPublishes ==
  /\ receiver.pc = "publishing"
  /\ IF bridge.pc \in Returned \/ Len(captured) = Buffers
     THEN /\ receiver' = [receiver EXCEPT
               !.pc = IF bridge.pc \in Returned /\ flags.shutdown THEN "done" ELSE "ending",
               !.batch = NoBatch]
          /\ UNCHANGED captured
     ELSE /\ captured' = Append(captured, receiver.batch)
          /\ receiver' = [receiver EXCEPT !.pc = "top", !.batch = NoBatch]
  /\ UNCHANGED <<control, driver, request, flags, free, bridge, tables, surrounding>>

(* What a thread that has failed leaves for the others to see.              *)
Failing == [flags EXCEPT !.alive = FALSE, !.shutdown = TRUE, !.cancelled = TRUE]

ReceiverFails ==
  /\ receiver.pc = "ending"
  /\ receiver' = [receiver EXCEPT !.pc = "failed"]
  /\ flags' = Failing
  /\ UNCHANGED <<control, driver, request, free, captured, bridge, tables, surrounding>>

ReceiverStep ==
  ReceiverTakes \/ ReceiverPosts \/ ReceiverCompletes \/ ReceiverPublishes \/ ReceiverFails

-----------------------------------------------------------------------------
(* The bridge thread.                                                       *)

Ending(reason) == [bridge EXCEPT !.pc = "ending", !.reason = reason,
                                 !.records = <<>>, !.identity = 0, !.space = Space,
                                 !.sending = 0]

BridgeStops ==
  /\ bridge.pc = "top" /\ flags.shutdown
  /\ bridge' = [bridge EXCEPT !.pc = "done"]
  /\ flags' = [flags EXCEPT !.alive = FALSE]
  /\ UNCHANGED <<control, driver, request, receiver, free, captured, tables, surrounding>>

(* StrictDriverDatagramHealthMonitor.observe: no injection has failed.  The *)
(* other equations hold because only this thread submits.                   *)
Healthy == ~driver.failed

BridgeObserves ==
  /\ bridge.pc = "top" /\ ~flags.shutdown /\ bridge.pending
  /\ bridge' = IF Healthy
               THEN [bridge EXCEPT !.pc = "drain", !.pending = driver.inFlight > 0]
               ELSE Ending("injection")
  /\ UNCHANGED <<control, driver, request, flags, receiver, free, captured, tables, surrounding>>

(* Nothing is pending, or the last look was less than 100 ms ago.           *)
BridgeSkipsHealth ==
  /\ bridge.pc = "top" /\ ~flags.shutdown
  /\ bridge' = [bridge EXCEPT !.pc = "drain"]
  /\ UNCHANGED <<control, driver, request, flags, receiver, free, captured, tables, surrounding>>

(* Mutant of NewAssociationId: an identifier is given again once the table  *)
(* of the bridge has forgotten it.                                          *)
AnyForgottenId ==
  CHOOSE i \in Ids : \A f \in Flows : associations[f].id # i

NewAssociationId == CHOOSE i \in Ids : past.origin[i] = None

(* The flow an identifier was first made for.                               *)
Origin(id, flow) == IF past.origin[id] = None THEN flow ELSE past.origin[id]

(* process_captured_batch, up to the send: the generation is of the window, *)
(* and the flow has an association, of whatever age, or gets one while Ids  *)
(* last.                                                                    *)
BridgeRoutes ==
  /\ bridge.pc = "drain" /\ captured # <<>> /\ ~Locked
  /\ captured' = Tail(captured)
  /\ LET flow  == captured[1].flow
         known == IF Full(associations) THEN Swept(associations) ELSE associations
         new   == NewAssociationId
         Sending(id) == [bridge EXCEPT !.pc = "send", !.sending = id]
     IN IF captured[1].generation \notin {window.current, window.previous}
        THEN bridge' = Ending("stale") /\ UNCHANGED <<associations, past>>
        ELSE IF associations[flow].id # 0
        THEN /\ bridge' = Sending(associations[flow].id)
             /\ associations' = [associations EXCEPT ![flow].age = 0]
             /\ UNCHANGED past
        ELSE IF Full(known)
        THEN bridge' = Ending("limit") /\ UNCHANGED <<associations, past>>
        ELSE /\ \E i \in Ids : past.origin[i] = None
             /\ bridge' = Sending(new)
             /\ associations' = [known EXCEPT ![flow] = Entry(new)]
             /\ past' = [past EXCEPT !.origin[new] = Origin(new, flow)]
  /\ UNCHANGED <<control, driver, request, open, flags, receiver, free, transport, core,
                 inbound, budget>>

(* Mutant of CoreAssociation: the transport does not note that it sent.     *)
CoreAssociationUntouched(table, id) ==
  IF id \in Held(table) THEN [table[id] EXCEPT !.next = table[id].next + 1]
  ELSE [Entry(id) EXCEPT !.next = 2]

(* StrictCoreUdpTransport.send: the entry once the next frame is numbered.  *)
CoreAssociation(table, id) ==
  LET entry == IF id \in Held(table) THEN table[id] ELSE Entry(id)
  IN [entry EXCEPT !.next = entry.next + 1, !.age = 0]

(* What the Core does with frame `sequence' of association `id': it finds   *)
(* or makes the association, sweeping a full table first, and drops what    *)
(* its window has seen.                                                     *)
CoreReceives(table, id, sequence) ==
  LET known == IF id \in Held(table) \/ ~Full(table) THEN table ELSE Swept(table)
      entry == IF id \in Held(table) THEN table[id] ELSE [Entry(id) EXCEPT !.next = 0]
  IN IF id \notin Held(table) /\ Full(known)
     THEN [table |-> known, refused |-> {}]
     ELSE IF Accepts(entry, sequence)
     THEN [table |-> [known EXCEPT ![id] = Accepted(entry, sequence)], refused |-> {}]
     ELSE [table |-> known, refused |-> {id}]

(* The Broker has sent or received for an association; one that it had      *)
(* nothing to do with for the whole idle time stays marked.                 *)
Awake(id) == IF past.idle[id] < Idle THEN [past.idle EXCEPT ![id] = 0] ELSE past.idle

(* core.send, on a clock of its own: it sweeps only its own table; there    *)
(* may be no room; the frame may be lost on its way to the Core.            *)
BridgeSends ==
  /\ bridge.pc = "send"
  /\ \E due \in SweptIfDue(transport), seen \in SweptIfDue(core) :
     LET id   == bridge.sending
         left == IF id \in Held(due) \/ ~Full(due) THEN due ELSE Swept(due)
         next == CoreAssociation(left, id)
         got  == CoreReceives(seen, id, next.next - 1)
     IN IF id \notin Held(left) /\ Full(left)
        THEN /\ bridge' = Ending("limit") /\ transport' = left
             /\ UNCHANGED <<core, free, budget, past>>
        ELSE /\ transport' = [left EXCEPT ![id] = next]
             /\ bridge' = [bridge EXCEPT !.pc = "drain", !.sending = 0]
             /\ free' = free + 1
             /\ \/ /\ core' = got.table
                   /\ past' = [past EXCEPT !.refused = past.refused \union got.refused,
                                           !.idle = Awake(id)]
                   /\ UNCHANGED budget
                \/ /\ MayStill("losses") /\ Spend("losses")
                   /\ past' = [past EXCEPT !.idle = Awake(id)]
                   /\ UNCHANGED core
  /\ UNCHANGED <<control, driver, request, open, flags, receiver, captured, associations,
                 inbound>>

BridgeDrained ==
  /\ bridge.pc = "drain" /\ captured = <<>>
  /\ bridge' = IF receiver.pc \in Returned /\ ~flags.shutdown
               THEN Ending("receiver") ELSE [bridge EXCEPT !.pc = "identify"]
  /\ UNCHANGED <<control, driver, request, flags, receiver, free, captured, tables, surrounding>>

(* The generation of the reply batch, read before the replies are awaited.  *)
BridgeIdentifies ==
  /\ bridge.pc = "identify" /\ ~Locked
  /\ bridge' = [bridge EXCEPT !.pc = "poll", !.identity = window.current, !.space = Space]
  /\ UNCHANGED <<control, driver, request, flags, receiver, free, captured, tables, surrounding>>

FlowOf(id) == {f \in Flows : associations[f].id = id}

(* StrictDriverDatagramBatchBuilder.push: the batch has room for the record.*)
Fits(frame) == frame.size <= bridge.space

(* poll_receive_into, before it waits for a reply.                          *)
BridgePolls ==
  /\ bridge.pc = "poll" /\ Len(bridge.records) < Records
  /\ transport' \in SweptIfDue(transport)
  /\ bridge' = [bridge EXCEPT !.pc = "receive"]
  /\ UNCHANGED <<control, driver, request, flags, receiver, free, captured, associations, core,
                 inbound, surrounding>>

(* Why a reply is refused: poll_receive_into checks it against the table of *)
(* the transport, which it does not sweep again, route_reply against the    *)
(* bridge's.                                                                *)
Refusal(frame) ==
  LET known == frame.id \in Held(transport) /\ FlowOf(frame.id) # {}
      fresh == /\ Accepts(transport[frame.id], frame.sequence)
               /\ \A f \in FlowOf(frame.id) : Accepts(associations[f], frame.sequence)
  IN CASE ~known -> "unknown"
       [] known /\ ~fresh -> "replayed"
       [] known /\ fresh /\ ~Fits(frame) -> "space"
       [] OTHER -> "none"

(* One reply is put into the batch, or ends the bridge.                     *)
BridgeCollects(frame) ==
  /\ bridge.pc = "receive" /\ frame \in inbound
  /\ inbound' = inbound \ {frame}
  /\ IF Refusal(frame) # "none"
     THEN bridge' = Ending(Refusal(frame)) /\ UNCHANGED <<transport, associations, past>>
     ELSE \E flow \in FlowOf(frame.id) :
          /\ transport' = [transport EXCEPT
                             ![frame.id] = Accepted(transport[frame.id], frame.sequence)]
          /\ associations' = [associations EXCEPT
                                ![flow] = Accepted(associations[flow], frame.sequence)]
          /\ past' = [past EXCEPT !.idle = Awake(frame.id)]
          /\ bridge' = [bridge EXCEPT !.pc = "poll",
               !.records = Append(bridge.records, [id |-> frame.id, flow |-> flow]),
               !.space = bridge.space - frame.size]
  /\ UNCHANGED <<control, driver, request, open, flags, receiver, free, captured, core, budget>>

(* associations.sweep_expired, which removes the transport's entry as well. *)
SweepExpired ==
  LET gone == {associations[f].id : f \in Expired(associations)}
  IN /\ associations' = Swept(associations)
     /\ transport' = Without(transport, gone)

NoMoreReplies == \/ bridge.pc = "receive" /\ inbound = {}
                 \/ bridge.pc = "poll" /\ Len(bridge.records) = Records
NextTurn == [bridge EXCEPT !.pc = "top", !.identity = 0, !.records = <<>>,
                            !.space = Space]

(* No reply came within 100 ms.                                             *)
BridgeIdles ==
  /\ NoMoreReplies /\ bridge.records = <<>>
  /\ SweepExpired
  /\ bridge' = NextTurn
  /\ UNCHANGED <<control, driver, request, flags, receiver, free, captured, core, inbound,
                 surrounding>>

(* The driver takes a reply batch under its current generation only, for    *)
(* flows whose context it still has.                                        *)
DriverTakes ==
  /\ driver.lease /\ driver.gate
  /\ bridge.identity = driver.generation
  /\ \A n \in DOMAIN bridge.records : bridge.records[n].flow \in open

BridgeSubmits ==
  /\ NoMoreReplies /\ bridge.records # <<>> /\ DriverTakes
  /\ driver' = [driver EXCEPT !.inFlight = driver.inFlight + Len(bridge.records)]
  /\ SweepExpired
  /\ bridge' = [NextTurn EXCEPT !.pending = TRUE]
  /\ UNCHANGED <<control, request, flags, receiver, free, captured, core, inbound, surrounding>>

BridgeIsRefused ==
  /\ NoMoreReplies /\ bridge.records # <<>> /\ ~DriverTakes
  /\ bridge' = Ending("submission")
  /\ UNCHANGED <<control, driver, request, flags, receiver, free, captured, tables, surrounding>>

(* The socket to the Core or a request to the driver reports an error.      *)
BridgeErrs ==
  /\ \/ bridge.pc \in {"send", "receive"}
     \/ bridge.pc = "top" /\ ~flags.shutdown /\ bridge.pending
     \/ NoMoreReplies /\ bridge.records # <<>>
  /\ MayStill("faults") /\ Spend("faults")
  /\ bridge' = Ending("fault")
  /\ UNCHANGED <<control, driver, request, open, flags, receiver, free, captured, tables, past>>

BridgeFails ==
  /\ bridge.pc = "ending"
  /\ bridge' = [bridge EXCEPT !.pc = "failed"]
  /\ flags' = Failing
  /\ UNCHANGED <<control, driver, request, receiver, free, captured, tables, surrounding>>

BridgeStep ==
  \/ BridgeStops      \/ BridgeObserves    \/ BridgeSkipsHealth
  \/ BridgeRoutes     \/ BridgeSends       \/ BridgeDrained
  \/ BridgeIdentifies \/ BridgePolls
  \/ \E frame \in inbound : BridgeCollects(frame)
  \/ BridgeIdles      \/ BridgeSubmits     \/ BridgeIsRefused
  \/ BridgeFails

-----------------------------------------------------------------------------
(* The renewal thread: the driver commits while the window is locked.       *)

RenewalLocks ==
  /\ renewal = "waiting" /\ driver.lease /\ MayStill("renewals") /\ Spend("renewals")
  /\ renewal' = "locked"
  /\ UNCHANGED <<owner, window, driver, request, flags, workers, tables, open, past>>

(* Mutant of RenewalCommits: the lock is taken for the window alone.        *)
RenewalCommitsUnlocked ==
  /\ renewal = "locked"
  /\ driver' = [driver EXCEPT !.generation = driver.generation + 1]
  /\ window' = [current |-> driver.generation + 1, previous |-> driver.generation + 1]
  /\ renewal' = "committed"
  /\ UNCHANGED <<owner, request, flags, workers, tables, surrounding>>

RenewalCommits ==
  /\ renewal = "locked"
  /\ driver' = [driver EXCEPT !.generation = driver.generation + 1]
  /\ renewal' = "committed"
  /\ UNCHANGED <<owner, window, request, flags, workers, tables, surrounding>>

RenewalPublishes ==
  /\ renewal = "committed"
  /\ window' = [current |-> driver.generation, previous |-> window.current]
  /\ renewal' = "waiting"
  /\ UNCHANGED <<owner, driver, request, flags, workers, tables, surrounding>>

Purged == IF request.state = "pending" THEN [request EXCEPT !.state = "purged"] ELSE request

(* The renewal fails: the thread revokes the lease and ends.                *)
RenewalFails ==
  /\ renewal = "locked" /\ MayStill("faults") /\ Spend("faults")
  /\ renewal' = "ended"
  /\ driver' = [driver EXCEPT !.lease = FALSE, !.gate = FALSE]
  /\ request' = Purged
  /\ UNCHANGED <<owner, window, flags, workers, tables, open, past>>

-----------------------------------------------------------------------------
(* The owner: spawn_windows_udp_bridge_runtime, the engine, and stop.       *)

OwnerSpawnsBridge ==
  /\ owner = "arming" /\ receiver.ready
  /\ owner' = "running"
  /\ bridge' = [bridge EXCEPT !.pc = "top"]
  /\ UNCHANGED <<renewal, window, driver, request, flags, receiver, free, captured, tables,
                 surrounding>>

(* Mutant of Stopping: the pending request is left to its deadline.         *)
StoppingUncancelled == [flags EXCEPT !.revoking = TRUE, !.shutdown = TRUE]

(* What stop tells the two threads, before it joins them.                   *)
Stopping == [flags EXCEPT !.revoking = TRUE, !.shutdown = TRUE, !.cancelled = TRUE]

(* The receiver did not say within a second that its request is posted.     *)
OwnerGivesUp ==
  /\ owner = "arming" /\ ~receiver.ready
  /\ owner' = "joining"
  /\ flags' = Stopping
  /\ bridge' = [bridge EXCEPT !.pc = "done"]
  /\ UNCHANGED <<renewal, window, driver, request, receiver, free, captured, tables, surrounding>>

(* The engine opens the datagram path once the runtime is measured.         *)
GateOpens ==
  /\ owner = "running" /\ driver.lease /\ ~driver.gate
  /\ driver' = [driver EXCEPT !.gate = TRUE]
  /\ UNCHANGED <<control, request, flags, workers, tables, surrounding>>

OwnerPrepares ==
  /\ owner = "running" /\ MayStill("stops") /\ Spend("stops")
  /\ owner' = "prepared"
  /\ flags' = [flags EXCEPT !.revoking = TRUE]
  /\ UNCHANGED <<renewal, window, driver, request, workers, tables, open, past>>

(* The canary's gate is closed under a lease that lives on; a teardown      *)
(* joins the renewal thread and revokes the lease.                          *)
OwnerRevokes ==
  /\ owner = "prepared"
  /\ owner' = "revoking"
  /\ request' = Purged
  /\ \/ driver' = [driver EXCEPT !.gate = FALSE] /\ UNCHANGED renewal
     \/ /\ renewal \in {"waiting", "ended"}
        /\ renewal' = "ended"
        /\ driver' = [driver EXCEPT !.gate = FALSE, !.lease = FALSE]
  /\ UNCHANGED <<window, flags, workers, tables, surrounding>>

(* The driver's answer comes once every injection has completed.            *)
OwnerStops ==
  /\ owner = "revoking" /\ driver.inFlight = 0
  /\ owner' = "joining"
  /\ flags' = Stopping
  /\ UNCHANGED <<renewal, window, driver, request, workers, tables, surrounding>>

OwnerJoins ==
  /\ owner = "joining" /\ receiver.pc \in Ended /\ bridge.pc \in Ended
  /\ owner' = "stopped"
  /\ UNCHANGED <<renewal, window, driver, request, flags, workers, tables, surrounding>>

OwnerStep == OwnerSpawnsBridge \/ OwnerRevokes \/ OwnerStops \/ OwnerJoins

-----------------------------------------------------------------------------
(* The driver, the Core and the clock.                                      *)

Capture(f) ==
  /\ request.state = "pending" /\ driver.lease /\ driver.gate /\ f \in open
  /\ MayStill("captures") /\ Spend("captures")
  /\ request' = [state |-> "filled", batch |-> Batch(driver.generation, f)]
  /\ UNCHANGED <<control, driver, flags, workers, tables, open, past>>

InjectionCompletes ==
  /\ driver.inFlight > 0
  /\ \/ /\ driver' = [driver EXCEPT !.inFlight = driver.inFlight - 1]
        /\ UNCHANGED budget
     \/ /\ MayStill("faults") /\ Spend("faults")
        /\ driver' = [driver EXCEPT !.inFlight = driver.inFlight - 1, !.failed = TRUE]
  /\ UNCHANGED <<control, request, flags, workers, tables, open, past>>

(* The program closes its socket; the driver deletes the flow's context.    *)
FlowCloses(f) ==
  /\ f \in open /\ MayStill("closes") /\ Spend("closes")
  /\ open' = open \ {f}
  /\ UNCHANGED <<control, driver, request, flags, workers, tables, past>>

(* WriteBack: the tunnel answers on an association that is still active;    *)
(* its frame may be lost.                                                   *)
CoreReplies(id) ==
  \E size \in Sizes :
  LET frame == [id |-> id, sequence |-> core[id].next + 1, size |-> size]
  IN /\ id \in Held(core)
     /\ core' = [core EXCEPT ![id].next = core[id].next + 1, ![id].age = 0]
     /\ \/ /\ MayStill("replies") /\ Spend("replies")
           /\ inbound' = inbound \union {frame}
        \/ MayStill("losses") /\ Spend("losses") /\ UNCHANGED inbound
     /\ UNCHANGED <<control, driver, request, flags, workers, associations, transport, open, past>>

(* Half of the idle time passes, wherever the threads are.                  *)
Tick ==
  /\ MayStill("ticks") /\ Spend("ticks")
  /\ associations' = Older(associations)
  /\ transport' = Older(transport)
  /\ core' = Older(core)
  /\ past' = [past EXCEPT
       !.silent = \/ past.silent \/ Expired(associations') # {} \/ Expired(transport') # {}
                  \/ Expired(core') # {},
       !.idle = [i \in Ids |-> IF past.origin[i] # None /\ past.idle[i] < Idle
                               THEN past.idle[i] + 1 ELSE past.idle[i]]]
  /\ UNCHANGED <<control, driver, request, flags, workers, inbound, open>>

-----------------------------------------------------------------------------
Init ==
  /\ owner = "arming" /\ renewal = "waiting"
  /\ driver = [lease |-> TRUE, gate |-> FALSE, generation |-> 1, inFlight |-> 0, failed |-> FALSE]
  /\ request = NoRequest
  /\ window = [current |-> 1, previous |-> 0]
  /\ flags = [shutdown |-> FALSE, cancelled |-> FALSE, revoking |-> FALSE, alive |-> TRUE]
  /\ receiver = [pc |-> "top", ready |-> FALSE, batch |-> NoBatch]
  /\ free = Buffers /\ captured = <<>>
  /\ bridge = [pc |-> "absent", reason |-> "none", pending |-> FALSE, sending |-> 0,
               identity |-> 0, records |-> <<>>, space |-> Space]
  /\ associations = [f \in Flows |-> Absent]
  /\ transport = [i \in Ids |-> Absent]
  /\ core = [i \in Ids |-> Absent]
  /\ inbound = {}
  /\ budget \in Budgets /\ open = budget.flows
  /\ past = [origin |-> [i \in Ids |-> None], refused |-> {}, silent |-> FALSE,
             idle |-> [i \in Ids |-> 0]]

Next ==
  \/ ReceiverStep \/ ReceiverExpires
  \/ BridgeStep \/ BridgeErrs
  \/ RenewalLocks \/ RenewalCommits \/ RenewalPublishes \/ RenewalFails
  \/ OwnerStep \/ OwnerGivesUp \/ GateOpens \/ OwnerPrepares
  \/ \E f \in Flows : Capture(f) \/ FlowCloses(f)
  \/ InjectionCompletes
  \/ \E id \in Ids : CoreReplies(id)
  \/ Tick

Spec == Init /\ [][Next]_vars

(* Both threads, the renewal in its critical section and the owner's calls  *)
(* go on; the driver completes its injections; a look at the health that    *)
(* comes due again and again is taken.  Nothing says that a datagram is     *)
(* captured, answered, or that anyone stops the bridge.                     *)
Fairness ==
  /\ WF_vars(ReceiverStep) /\ WF_vars(BridgeStep) /\ SF_vars(BridgeObserves)
  /\ WF_vars(RenewalCommits \/ RenewalPublishes)
  /\ WF_vars(OwnerStep) /\ WF_vars(OwnerGivesUp)
  /\ WF_vars(InjectionCompletes)

FairSpec == Spec /\ Fairness
-----------------------------------------------------------------------------
(* Properties.                                                              *)

TypeOK ==
  /\ owner \in {"arming", "running", "prepared", "revoking", "joining", "stopped"}
  /\ renewal \in {"waiting", "locked", "committed", "ended"}
  /\ receiver.pc \in {"top", "posting", "waiting", "publishing"} \union Returned
  /\ bridge.pc \in {"absent", "top", "drain", "send", "identify", "poll", "receive"}
                   \union Returned
  /\ request.state \in {"none", "pending", "filled", "purged"}
  /\ free \in 0..Buffers /\ Len(captured) \in 0..Buffers
  /\ Len(bridge.records) \in 0..Records
  /\ \A f \in Flows : associations[f].id \in Ids \union {0}
  /\ Cardinality(Held(associations)) <= Limit /\ Cardinality(Held(transport)) <= Limit
  /\ Cardinality(Held(core)) <= Limit

(* While both threads work no buffer is lost and none is made up: each is   *)
(* free, captured or with a thread.  So neither the errors for a full       *)
(* channel nor a receiver that waits for a buffer for ever can happen.      *)
ReceiverHolds == IF receiver.pc \in {"posting", "waiting", "publishing"} THEN 1 ELSE 0

BridgeHolds   == IF bridge.pc = "send" THEN 1 ELSE 0

BuffersConserved ==
  receiver.pc \notin Returned /\ bridge.pc \notin Returned
    => free + Len(captured) + ReceiverHolds + BridgeHolds = Buffers

(* No thread, request or buffer is in a state that its code does not know,  *)
(* and the buffers are conserved.                                           *)
BridgeInvariant == TypeOK /\ BuffersConserved

(* A reply is queued for the flow whose datagram created the association it *)
(* names, also after the flow's association expired and was made anew, or   *)
(* another flow took its place in the tables.                               *)
ReplyReachesItsFlow ==
  \A n \in DOMAIN bridge.records :
    LET reply == bridge.records[n]
    IN past.origin[reply.id] = reply.flow /\ associations[reply.flow].id = reply.id

(* The Core's replay window meets a number twice only for an association    *)
(* that the Broker had neither sent nor received for during a whole idle    *)
(* time: whatever expires where and when, and whatever is lost, a datagram  *)
(* of any other flow is not dropped as a replay.                            *)
OnlyIdleFlowsRepeat == \A id \in past.refused : past.idle[id] = Idle

(* The bridge does not end by itself: whatever ended it is a renewal that   *)
(* came between, a flow or frame that was lost, an idle time that passed, a *)
(* full table or batch, a fault of the driver, or its owner.                *)
Undisturbed(reason) ==
  CASE reason \in {"none", "injection"} -> FALSE
    [] reason = "stale"      -> driver.generation <= 2
    [] reason = "limit"      -> Cardinality({i \in Ids : past.origin[i] # None}) < Limit
    [] reason = "space"      -> \A size \in Sizes : Records * size <= Space
    [] reason = "unknown"    -> ~past.silent
    [] reason = "replayed"   -> ~past.silent
    [] reason = "submission" -> driver.generation = 1 /\ open = budget.flows /\ driver.gate
    [] reason = "receiver"   -> owner = "running" /\ driver.lease
    [] OTHER                 -> FALSE

OnlyDisturbancesEndTheBridge ==
  bridge.pc \in {"ending", "failed"} => ~Undisturbed(bridge.reason)

(* The owner that begins to stop the runtime ends up with both threads      *)
(* joined: no request, channel or buffer keeps one of them waiting.         *)
StopCompletes == owner \in {"prepared", "joining"} ~> owner = "stopped"

(* A thread that fails takes the other one with it and the runtime is seen  *)
(* to be dead, so that the engine tears the forwarding down.  A reply the   *)
(* driver failed to inject is such a failure, even when the last batch has  *)
(* long been submitted.                                                     *)
FailureIsSeen ==
  /\ receiver.pc = "failed" \/ bridge.pc = "failed"
       ~> ~flags.alive /\ receiver.pc \in Ended /\ bridge.pc \in Ended
  /\ driver.failed ~> bridge.pc \in Ended

(* The runtime comes to an end, asked to or not: the two statements above.  *)
BridgeEnds == StopCompletes /\ FailureIsSeen

-----------------------------------------------------------------------------
(* What the design says and the code does not do.                           *)

(* m3-windows-strict-detailed-design.md:366: "Returned reply batches use    *)
(* the current identity".  The identity is read before up to 64 waits for a *)
(* reply; a renewal in between makes the driver refuse the whole batch.     *)
RepliesUseTheCurrentIdentity ==
  NoMoreReplies /\ bridge.records # <<>> /\ ~Locked => bridge.identity = window.current

(* m3-windows-strict-detailed-design.md:317-318: the header of a data frame *)
(* "binds direction, generation, 128-bit credential ID, 128-bit association *)
(* ID, monotonic sequence".  The transport forgets an association on its    *)
(* own, between two sweeps of the bridge, and numbers it from 1 again       *)
(* although the Core, which sweeps at other times, still knows it.          *)
SequencesAreFresh == past.refused = {}

(* m3-windows-strict-detailed-design.md:410-412: the owner "marks pending   *)
(* receive cancellation as expected, revokes and verifies the endpoint      *)
(* lease/gate, stops renewal and bridge workers": a bridge that its owner   *)
(* stops has not failed.                                                    *)
StopIsClean == owner = "stopped" /\ bridge.pc = "failed" => bridge.reason # "receiver"
=============================================================================
