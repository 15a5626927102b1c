-------------------------- MODULE UdpBridgeProofs --------------------------
(***************************************************************************)
(* A reply reaches its flow, a datagram is taken for a replay only after   *)
(* its flow was idle, and the bridge ends for a reason, for any number of  *)
(* flows, identifiers, buffers and records, whatever the surroundings do.  *)
(*                                                                         *)
(* While the bridge works, an identifier belongs to the flow it was made   *)
(* for.  Unless the Broker had nothing to do with an association for a     *)
(* whole idle time, the transport's entry, which numbers the frames, is    *)
(* there and no older than that time, wherever the threads are and however *)
(* late the three tables look for idle entries, so that the number to come *)
(* is more than the Core has seen.  As long as no entry was ever too old,  *)
(* the tables forget nothing, and a reply on its way is known and new.     *)
(***************************************************************************)
EXTENDS UdpBridge, SequenceTheorems, FiniteSetTheorems, TLAPS

OwnerPlaces    == {"arming", "running", "prepared", "revoking", "joining", "stopped"}
RenewalPlaces  == {"waiting", "locked", "committed", "ended"}
ReceiverPlaces == {"top", "posting", "waiting", "publishing"} \union Returned
BridgePlaces   == {"absent", "top", "drain", "send", "identify", "poll", "receive"}
                  \union Returned
Reasons        == {"none", "injection", "stale", "limit", "space", "unknown", "replayed",
                   "submission", "receiver", "fault"}

BatchRecords == [generation : Nat, flow : Flows \union {None}]
ReplyRecords == [id : Ids, flow : Flows]
Entries      == [id : Ids \union {0}, age : Nat, next : Nat, seen : SUBSET Nat]
Frames       == [id : Ids, sequence : Nat, size : Sizes]

\* The shapes of the parts.
DriverShape(d)   == d \in [lease : BOOLEAN, gate : BOOLEAN, generation : Nat \ {0},
                           inFlight : Nat, failed : BOOLEAN]
RequestShape(r)  == r \in [state : {"none", "pending", "filled", "purged"}, batch : BatchRecords]
WindowShape(w)   == w \in [current : Nat, previous : Nat]
FlagsShape(f)    == f \in [shutdown : BOOLEAN, cancelled : BOOLEAN, revoking : BOOLEAN,
                           alive : BOOLEAN]
ReceiverShape(r) == r \in [pc : ReceiverPlaces, ready : BOOLEAN, batch : BatchRecords]
CapturedShape(c) == c \in Seq(BatchRecords)
BridgeShape(b)   == b \in [pc : BridgePlaces, reason : Reasons, pending : BOOLEAN,
                           sending : Ids \union {0}, identity : Nat,
                           records : Seq(ReplyRecords), space : Nat]
FlowsShape(t)    == t \in [Flows -> Entries]
IdsShape(t)      == t \in [Ids -> Entries]
InboundShape(s)  == s \subseteq Frames
BudgetShape(b)   == b \in [flows : SUBSET Flows, captures : Nat, replies : Nat, renewals : Nat,
                           losses : Nat, closes : Nat, faults : Nat, stops : Nat, ticks : Nat]
PastShape(p)     == p \in [origin : [Ids -> Flows \union {None}], refused : SUBSET Ids,
                           silent : BOOLEAN, idle : [Ids -> 0..Idle]]

Shape ==
  /\ owner \in OwnerPlaces /\ renewal \in RenewalPlaces
  /\ DriverShape(driver) /\ RequestShape(request) /\ open \in SUBSET Flows
  /\ WindowShape(window) /\ FlagsShape(flags)
  /\ ReceiverShape(receiver) /\ free \in Nat /\ CapturedShape(captured)
  /\ BridgeShape(bridge)
  /\ FlowsShape(associations) /\ IdsShape(transport) /\ IdsShape(core)
  /\ InboundShape(inbound) /\ BudgetShape(budget) /\ PastShape(past)

Working == bridge.pc \notin Returned

\* Every buffer is accounted for, and none is made up.
BuffersInv ==
  /\ free + Len(captured) + ReceiverHolds + BridgeHolds <= Buffers
  /\ BuffersConserved

\* Replies are collected in two places, and no more than a batch takes.
PhaseInv ==
  /\ owner = "arming" <=> bridge.pc = "absent"
  /\ bridge.pc \notin {"poll", "receive"} => bridge.records = <<>> /\ bridge.space = Space
  /\ Len(bridge.records) <= Records
  /\ bridge.pc = "receive" => Len(bridge.records) < Records

\* An identifier is its flow's, and known to have been given; what the Core has
\* forgotten has left no trace.
Origins ==
  /\ \A f \in Flows : associations[f].id # 0 => past.origin[associations[f].id] = f
  /\ \A i \in Ids : transport[i].id # 0 \/ core[i].id # 0 => past.origin[i] # None
  /\ \A i \in Ids : core[i].id = 0 => core[i].seen = {}

\* While the Broker has not been idle for an association, the transport has not
\* forgotten it, and what the Core has seen is less than the number to come.
TransportFollows ==
  \A f \in Flows : associations[f].id # 0 /\ past.idle[associations[f].id] < Idle =>
    LET i == associations[f].id
    IN IF transport[i].id = 0
       THEN core[i].seen = {}
       ELSE /\ transport[i].age <= past.idle[i]
            /\ \A s \in core[i].seen : s < transport[i].next

\* What is sent is sent for a flow's association.
SendingKnown ==
  bridge.pc = "send" =>
    bridge.sending # 0 /\ \E f \in Flows : associations[f].id = bridge.sending

RepliesMatch ==
  \A n \in 1..Len(bridge.records) :
    LET reply == bridge.records[n]
    IN past.origin[reply.id] = reply.flow /\ associations[reply.flow].id = reply.id

TablesInv ==
  /\ Working => Origins /\ TransportFollows /\ SendingKnown
  /\ RepliesMatch /\ OnlyIdleFlowsRepeat

\* No table holds more than its limit.
Bounded(S) == IsFiniteSet(S) /\ Cardinality(S) <= Limit
Given == {i \in Ids : past.origin[i] # None}
CountsInv ==
  /\ Bounded(Held(associations)) /\ Bounded(Held(transport)) /\ Bounded(Held(core))
  /\ IsFiniteSet(Given)

\* The window is the driver's two last generations, but while it is locked.
WindowFollows ==
  /\ window.previous + 1 = window.current
  /\ window.current = IF renewal = "committed" THEN driver.generation - 1
                                               ELSE driver.generation
Captured(batch) == batch.generation \in 1..driver.generation /\ batch.flow \in budget.flows
BatchesInv ==
  /\ WindowFollows
  /\ request.state = "filled" => Captured(request.batch)
  /\ receiver.pc = "publishing" => Captured(receiver.batch)
  /\ \A n \in 1..Len(captured) : Captured(captured[n])
  /\ bridge.pc \in {"poll", "receive"} => bridge.identity \in 1..driver.generation
  /\ open \subseteq budget.flows
  /\ \A i \in Ids : past.origin[i] \in budget.flows \union {None}

\* The gate is closed for good.
Closed == ~driver.lease \/ owner \in {"revoking", "joining", "stopped"}
AnyCapture == \/ request.state = "filled" \/ receiver.pc = "publishing" \/ captured # <<>>
              \/ \E i \in Ids : past.origin[i] # None
LifeInv ==
  /\ driver.gate => driver.lease
  /\ AnyCapture => driver.gate \/ Closed
  /\ owner = "arming" => ~driver.gate
  /\ Closed /\ driver.gate => FALSE
  /\ request.state = "purged" => Closed
  /\ flags.cancelled => flags.shutdown
  /\ receiver.pc \in Returned => flags.shutdown \/ Closed \/ ~Working

\* While nothing was ever too old, what was given is known, and what is on its
\* way is new.
Known(i) == past.origin[i] # None /\ associations[past.origin[i]].id = i
Remembered ==
  /\ \A f \in Flows : associations[f].id # 0 => associations[f].age < Idle
  /\ \A i \in Ids : transport[i].id # 0 => transport[i].age < Idle
  /\ \A i \in Ids : core[i].id # 0 => core[i].age < Idle /\ transport[i].id # 0
  /\ \A i \in Ids : past.origin[i] # None => Known(i)
Unseen ==
  /\ \A frame \in inbound :
       /\ core[frame.id].id # 0 /\ frame.sequence <= core[frame.id].next
       /\ frame.sequence \notin transport[frame.id].seen
       /\ frame.sequence \notin associations[past.origin[frame.id]].seen
  /\ \A one, two \in inbound :
       one.id = two.id /\ one.sequence = two.sequence => one = two
SeenFromCore ==
  /\ \A i \in Ids : \A s \in transport[i].seen : core[i].id # 0 /\ s <= core[i].next
  /\ \A f \in Flows : associations[f].id # 0 =>
       \A s \in associations[f].seen :
         core[associations[f].id].id # 0 /\ s <= core[associations[f].id].next
QuietInv == Working /\ ~past.silent => Remembered /\ Unseen /\ SeenFromCore

\* The room that is left is enough for the records to come, if it ever was.
SpaceInv ==
  (\A size \in Sizes : Records * size <= Space) =>
    \A size \in Sizes : bridge.space >= (Records - Len(bridge.records)) * size

\* Why the bridge has ended, in words that stay true.
Disturbed(reason) ==
  CASE reason = "stale"      -> driver.generation > 2
    [] reason = "limit"      -> Cardinality(Given) >= Limit
    [] reason = "space"      -> ~\A size \in Sizes : Records * size <= Space
    [] reason \in {"unknown", "replayed"} -> past.silent
    [] reason = "submission" -> \/ driver.generation > 1 \/ open # budget.flows
                                \/ Closed
    [] reason = "receiver"   -> Closed
    [] reason = "none"       -> FALSE
    [] OTHER                 -> TRUE
ReasonInv == bridge.pc \in {"ending", "failed"} => Disturbed(bridge.reason)

BridgeInv ==
  /\ Shape /\ BuffersInv /\ PhaseInv /\ TablesInv /\ CountsInv /\ BatchesInv /\ LifeInv
  /\ QuietInv /\ SpaceInv /\ ReasonInv

-----------------------------------------------------------------------------
(* What the operators that the actions share do.                           *)

SpentOn == {"captures", "replies", "renewals", "losses", "closes", "faults", "stops",
            "ticks"}

LEMMA BudgetSpent ==
  ASSUME BudgetShape(budget), NEW what \in SpentOn, MayStill(what), Spend(what)
  PROVE  BudgetShape(budget') /\ budget'.flows = budget.flows
<1>1. budget[what] \in Nat /\ budget[what] - 1 \in Nat
      BY DEF BudgetShape, SpentOn, MayStill
<1>2. budget' = [budget EXCEPT ![what] = budget[what] - 1]
      BY DEF Spend
<1>3. QED  BY <1>1, <1>2 DEF BudgetShape, SpentOn

LEMMA BridgeGoes ==
  ASSUME BridgeShape(bridge), NEW pc \in BridgePlaces
  PROVE  /\ BridgeShape([bridge EXCEPT !.pc = pc])
         /\ [bridge EXCEPT !.pc = pc].pc = pc
         /\ [bridge EXCEPT !.pc = pc].reason = bridge.reason
         /\ [bridge EXCEPT !.pc = pc].identity = bridge.identity
         /\ [bridge EXCEPT !.pc = pc].records = bridge.records
         /\ [bridge EXCEPT !.pc = pc].space = bridge.space
         /\ [bridge EXCEPT !.pc = pc].sending = bridge.sending
BY DEF BridgeShape

LEMMA BridgeEnding ==
  ASSUME BridgeShape(bridge), NEW reason \in Reasons
  PROVE  /\ BridgeShape(Ending(reason)) /\ Ending(reason).pc = "ending"
         /\ Ending(reason).reason = reason /\ Ending(reason).identity = 0
         /\ Ending(reason).records = <<>> /\ Ending(reason).space = Space
<1> DEFINE a == [bridge EXCEPT !.pc = "ending"]
           b == [a EXCEPT !.reason = reason]
           c == [b EXCEPT !.records = <<>>]
           d == [c EXCEPT !.identity = 0]
<1>1. BridgeShape(a) /\ a.pc = "ending"
      BY DEF BridgeShape, BridgePlaces, Returned
<1>2. BridgeShape(b) /\ b.pc = "ending" /\ b.reason = reason
      <2> HIDE DEF a
      <2> QED  BY <1>1 DEF BridgeShape
<1>3. BridgeShape(c) /\ c.pc = "ending" /\ c.reason = reason /\ c.records = <<>>
      <2> HIDE DEF b
      <2>1. <<>> \in Seq(ReplyRecords)
            OBVIOUS
      <2> QED  BY <1>2, <2>1 DEF BridgeShape
<1>4. /\ BridgeShape(d) /\ d.pc = "ending" /\ d.reason = reason /\ d.records = <<>>
      /\ d.identity = 0
      <2> HIDE DEF c
      <2> QED  BY <1>3 DEF BridgeShape
<1> DEFINE e == [d EXCEPT !.space = Space]
<1>5. /\ BridgeShape(e) /\ e.pc = "ending" /\ e.reason = reason /\ e.records = <<>>
      /\ e.identity = 0 /\ e.space = Space
      <2> HIDE DEF d
      <2>1. Space \in Nat
            BY SizesAssumption
      <2> QED  BY <1>4, <2>1 DEF BridgeShape
<1>6. Ending(reason) = [e EXCEPT !.sending = 0]
      BY DEF Ending
<1> HIDE DEF e
<1>7. QED  BY <1>5, <1>6 DEF BridgeShape

LEMMA BridgeTurning ==
  ASSUME BridgeShape(bridge)
  PROVE  /\ BridgeShape(NextTurn) /\ NextTurn.pc = "top" /\ NextTurn.records = <<>>
         /\ NextTurn.space = Space /\ NextTurn.reason = bridge.reason
<1> DEFINE a == [bridge EXCEPT !.pc = "top"]
           b == [a EXCEPT !.identity = 0]
           c == [b EXCEPT !.records = <<>>]
<1>1. BridgeShape(a) /\ a.pc = "top" /\ a.reason = bridge.reason
      BY DEF BridgeShape, BridgePlaces
<1>2. BridgeShape(b) /\ b.pc = "top" /\ b.reason = bridge.reason
      <2> HIDE DEF a
      <2> QED  BY <1>1 DEF BridgeShape
<1>3. BridgeShape(c) /\ c.pc = "top" /\ c.reason = bridge.reason /\ c.records = <<>>
      <2> HIDE DEF b
      <2>1. <<>> \in Seq(ReplyRecords)
            OBVIOUS
      <2> QED  BY <1>2, <2>1 DEF BridgeShape
<1>4. NextTurn = [c EXCEPT !.space = Space]
      BY DEF NextTurn
<1> HIDE DEF c
<1>5. Space \in Nat
      BY SizesAssumption
<1>6. QED  BY <1>3, <1>4, <1>5 DEF BridgeShape

\* Entries and tables.
LEMMA EntryMade ==
  ASSUME NEW i \in Ids
  PROVE  /\ Entry(i) \in Entries /\ Entry(i).id = i /\ Entry(i).age = 0 /\ Entry(i).next = 1
         /\ Entry(i).seen = {} /\ i # 0
         /\ Absent \in Entries /\ Absent.id = 0 /\ Absent.seen = {}
BY SizesAssumption DEF Entry, Absent, Entries

LEMMA EntryAccepts ==
  ASSUME NEW entry \in Entries, NEW s \in Nat
  PROVE  /\ Accepted(entry, s) \in Entries
         /\ Accepted(entry, s).id = entry.id /\ Accepted(entry, s).age = 0
         /\ Accepted(entry, s).next = entry.next
         /\ Accepted(entry, s).seen = entry.seen \union {s}
<1> DEFINE seen == entry.seen \union {s}
<1>1. seen \in SUBSET Nat
      BY DEF Entries
<1> DEFINE noted == [entry EXCEPT !.seen = seen]
<1>2. Accepted(entry, s) = [noted EXCEPT !.age = 0]
      BY DEF Accepted
<1> HIDE DEF seen
<1>3. noted \in Entries /\ noted.id = entry.id /\ noted.next = entry.next /\ noted.seen = seen
      BY <1>1 DEF Entries
<1> HIDE DEF noted
<1>4. /\ Accepted(entry, s) \in Entries
      /\ Accepted(entry, s).id = entry.id /\ Accepted(entry, s).age = 0
      /\ Accepted(entry, s).next = entry.next
      /\ Accepted(entry, s).seen = seen
      BY <1>2, <1>3 DEF Entries
<1>5. QED  BY <1>4 DEF seen

LEMMA HeldIn ==
  ASSUME NEW D, NEW t \in [D -> Entries]
  PROVE  /\ Held(t) \subseteq D /\ \A k \in D : k \in Held(t) <=> t[k].id # 0
         /\ \A k \in D : k \in Expired(t) <=> t[k].id # 0 /\ t[k].age >= Idle
BY DEF Held, Expired

LEMMA WithoutTable ==
  ASSUME NEW D, NEW t \in [D -> Entries], NEW gone
  PROVE  /\ Without(t, gone) \in [D -> Entries]
         /\ \A k \in D : Without(t, gone)[k] = IF k \in gone THEN Absent ELSE t[k]
         /\ Held(Without(t, gone)) = Held(t) \ gone
<1>1. Absent \in Entries /\ Absent.id = 0
      BY DEF Absent, Entries
<1>2. DOMAIN t = D
      OBVIOUS
<1>3. Without(t, gone) \in [D -> Entries]
      BY <1>1, <1>2 DEF Without
<1>4. \A k \in D : Without(t, gone)[k] = IF k \in gone THEN Absent ELSE t[k]
      BY <1>2 DEF Without
<1>5. Held(Without(t, gone)) = Held(t) \ gone
      BY <1>1, <1>3, <1>4, HeldIn
<1>6. QED  BY <1>3, <1>4, <1>5

\* A table that has lost at most entries that were idle for long enough.
Thinned(D, old, new) ==
  /\ new \in [D -> Entries] /\ Held(new) \subseteq Held(old)
  /\ \A k \in D : \/ new[k] = old[k]
                  \/ new[k] = Absent /\ old[k].id # 0 /\ ~(old[k].age < Idle)

LEMMA SweptTable ==
  ASSUME NEW D, NEW t \in [D -> Entries]
  PROVE  Thinned(D, t, Swept(t))
<1>1. \A k \in D : k \in Expired(t) => t[k].id # 0 /\ ~(t[k].age < Idle)
      BY HeldIn DEF Entries, Idle
<1>2. QED  BY <1>1, WithoutTable DEF Swept, Thinned

LEMMA SweptWhenDue ==
  ASSUME NEW D, NEW t \in [D -> Entries], NEW due \in SweptIfDue(t)
  PROVE  Thinned(D, t, due)
<1>1. CASE due = Swept(t)
      BY <1>1, SweptTable
<1>2. CASE due = Without(t, Overdue(t))
  <2>1. ASSUME NEW k \in D, k \in Overdue(t) PROVE t[k].id # 0 /\ ~(t[k].age < Idle)
    <3>1. t[k].id # 0 /\ t[k].age > Idle /\ t[k].age \in Nat
          BY <2>1, HeldIn DEF Overdue, Entries
    <3>2. QED  BY <3>1 DEF Idle
  <2>2. QED  BY <1>2, <2>1, WithoutTable DEF Thinned
<1>3. QED  BY <1>1, <1>2 DEF SweptIfDue

LEMMA ThinnedTwice ==
  ASSUME NEW D, NEW one, NEW two, NEW three, Thinned(D, one, two), Thinned(D, two, three)
  PROVE  Thinned(D, one, three)
<1>1. Absent.id = 0
      BY DEF Absent
<1>2. QED  BY <1>1 DEF Thinned

LEMMA OlderTable ==
  ASSUME NEW D, NEW t \in [D -> Entries]
  PROVE  /\ Older(t) \in [D -> Entries] /\ Held(Older(t)) = Held(t)
         /\ \A k \in D :
              /\ Older(t)[k].id = t[k].id /\ Older(t)[k].next = t[k].next
              /\ Older(t)[k].seen = t[k].seen
              /\ Older(t)[k].age \in {t[k].age, t[k].age + 1}
              /\ Older(t)[k].age >= t[k].age
<1>1. DOMAIN t = D /\ DOMAIN Older(t) = D
      BY DEF Older
<1>2. ASSUME NEW k \in D
      PROVE  /\ Older(t)[k] \in Entries
             /\ Older(t)[k].id = t[k].id /\ Older(t)[k].next = t[k].next
             /\ Older(t)[k].seen = t[k].seen
             /\ Older(t)[k].age \in {t[k].age, t[k].age + 1}
             /\ Older(t)[k].age >= t[k].age
  <2>1. t[k] \in Entries /\ t[k].age \in Nat
        BY DEF Entries
  <2>2. Older(t)[k] \in {[t[k] EXCEPT !.age = t[k].age + 1], t[k]}
        BY <1>1 DEF Older
  <2>3. [t[k] EXCEPT !.age = t[k].age + 1] \in Entries
        BY <2>1 DEF Entries
  <2>4. QED  BY <2>1, <2>2, <2>3 DEF Entries
<1>3. Older(t) \in [D -> Entries]
      BY <1>1, <1>2 DEF Older
<1>4. Held(Older(t)) = Held(t)
      BY <1>1, <1>2 DEF Held
<1>5. QED  BY <1>2, <1>3, <1>4

\* The size of a table after a sweep, and after an entry was made.
LEMMA BoundedSubset ==
  ASSUME NEW S, NEW T, Bounded(S), T \subseteq S
  PROVE  Bounded(T)
<1>1. IsFiniteSet(T) /\ Cardinality(T) <= Cardinality(S)
      BY FS_Subset DEF Bounded
<1>2. Cardinality(S) \in Nat /\ Cardinality(T) \in Nat /\ Limit \in Nat
      BY <1>1, FS_CardinalityType, SizesAssumption DEF Bounded
<1>3. QED  BY <1>1, <1>2 DEF Bounded

LEMMA BoundedAdd ==
  ASSUME NEW S, NEW T, NEW x, Bounded(S), x \in S \/ ~(Cardinality(S) >= Limit),
         T \subseteq S \union {x}
  PROVE  Bounded(T)
<1>1. Cardinality(S) \in Nat /\ Limit \in Nat
      BY FS_CardinalityType, SizesAssumption DEF Bounded
<1>2. Bounded(S \union {x})
      BY <1>1, FS_AddElement DEF Bounded
<1>3. QED  BY <1>2, BoundedSubset

-----------------------------------------------------------------------------
(* What a step keeps that leaves its parts alone.                          *)

LEMMA TablesKept ==
  ASSUME TablesInv, CountsInv, QuietInv, UNCHANGED <<tables, past>>,
         bridge.pc \in Returned => bridge'.pc \in Returned,
         bridge'.pc = "send" => bridge.pc = "send" /\ bridge'.sending = bridge.sending,
         bridge'.records = bridge.records \/ bridge'.records = <<>>
  PROVE  TablesInv' /\ CountsInv' /\ QuietInv'
<1>1. UNCHANGED <<associations, transport, core, inbound, past>>
      BY DEF tables
<1>2. Working' => Working
      BY DEF Working
<1>3. RepliesMatch'
      BY <1>1 DEF TablesInv, RepliesMatch
<1>4. TablesInv'
      BY <1>1, <1>2, <1>3 DEF TablesInv, Origins, TransportFollows, SendingKnown,
         OnlyIdleFlowsRepeat, Working
<1>5. CountsInv'
      BY <1>1 DEF CountsInv, Given
<1>6. QuietInv'
      BY <1>1, <1>2 DEF QuietInv, Remembered, Known, Unseen, SeenFromCore
<1>7. QED  BY <1>4, <1>5, <1>6

LEMMA BuffersMove ==
  ASSUME BuffersInv, free' \in Nat, free \in Nat, CapturedShape(captured), CapturedShape(captured'),
         receiver.pc \in Returned => receiver'.pc \in Returned, UNCHANGED bridge,
         free' + Len(captured') + ReceiverHolds' <= free + Len(captured) + ReceiverHolds,
         receiver'.pc \notin Returned /\ bridge'.pc \notin Returned =>
           free' + Len(captured') + ReceiverHolds' = free + Len(captured) + ReceiverHolds
  PROVE  BuffersInv'
<1>1. /\ ReceiverHolds \in Nat /\ ReceiverHolds' \in Nat
      /\ Len(captured) \in Nat /\ Len(captured') \in Nat /\ Buffers \in Nat
      /\ BridgeHolds \in Nat /\ BridgeHolds' = BridgeHolds
      BY SizesAssumption DEF ReceiverHolds, BridgeHolds, CapturedShape
<1>2. QED  BY <1>1 DEF BuffersInv, BuffersConserved

\* Nothing of the bridge's batch is filled.
LEMMA PhaseQuiet ==
  ASSUME bridge'.records = <<>>, bridge'.space = Space,
         owner' = "arming" <=> bridge'.pc = "absent"
  PROVE  PhaseInv' /\ SpaceInv'
<1>1. Len(bridge'.records) = 0 /\ Records \in Nat /\ 0 < Records
      BY SizesAssumption
<1>2. PhaseInv'
      BY <1>1 DEF PhaseInv
<1>3. SpaceInv'
  <2>1. Records - Len(bridge'.records) = Records
        BY <1>1
  <2>2. ASSUME NEW size \in Sizes, Records * size <= Space
        PROVE  bridge'.space >= (Records - Len(bridge'.records)) * size
    <3>1. size \in Nat /\ Space \in Nat /\ Records * size \in Nat
          BY SizesAssumption
    <3>2. QED  BY <2>1, <2>2, <3>1
  <2>3. QED  BY <2>2 DEF SpaceInv
<1>4. QED  BY <1>2, <1>3

LEMMA PhaseKept ==
  ASSUME PhaseInv, SpaceInv, UNCHANGED bridge, owner' = "arming" <=> owner = "arming"
  PROVE  PhaseInv' /\ SpaceInv'
BY DEF PhaseInv, SpaceInv

\* A reason stays one.
LEMMA ReasonKept ==
  ASSUME ReasonInv, DriverShape(driver), DriverShape(driver'),
         bridge'.pc \in {"ending", "failed"} =>
           bridge.pc \in {"ending", "failed"} /\ bridge'.reason = bridge.reason,
         driver'.generation >= driver.generation, past'.origin = past.origin,
         past.silent => past'.silent, open \subseteq budget.flows, open' \subseteq open,
         budget'.flows = budget.flows, Closed => Closed'
  PROVE  ReasonInv'
<1> SUFFICES ASSUME bridge'.pc \in {"ending", "failed"} PROVE Disturbed(bridge.reason)'
    BY DEF ReasonInv
<1>1. Disturbed(bridge.reason) /\ bridge'.reason = bridge.reason
      BY DEF ReasonInv
<1>2. driver.generation \in Nat /\ driver'.generation \in Nat
      BY DEF DriverShape
<1>3. Given' = Given
      BY DEF Given
<1>4. open # budget.flows => open' # budget'.flows
      OBVIOUS
<1>5. CASE bridge.reason \in {"stale", "limit", "space", "unknown", "replayed"}
      BY <1>1, <1>2, <1>3, <1>5 DEF Disturbed
<1>6. CASE bridge.reason \in {"submission", "receiver"}
      BY <1>1, <1>2, <1>4, <1>6 DEF Disturbed
<1>7. CASE bridge.reason \notin {"stale", "limit", "space", "unknown", "replayed", "submission",
                                 "receiver"}
      BY <1>1, <1>7 DEF Disturbed
<1>8. QED  BY <1>5, <1>6, <1>7

\* While nothing moves but the bridge's place, the rest is as it was.
LEMMA LifeKept ==
  ASSUME LifeInv, UNCHANGED <<driver, request, captured, past>>,
         owner' = owner, flags'.cancelled = flags.cancelled \/ flags'.shutdown,
         flags.shutdown => flags'.shutdown,
         receiver'.pc = "publishing" => receiver.pc = "publishing",
         receiver'.pc \in Returned =>
           receiver.pc \in Returned \/ flags'.shutdown \/ Closed \/ bridge'.pc \in Returned,
         bridge.pc \in Returned => bridge'.pc \in Returned
  PROVE  LifeInv'
<1>1. Closed' = Closed
      BY DEF Closed
<1>2. AnyCapture' => AnyCapture
      BY DEF AnyCapture
<1>3. QED  BY <1>1, <1>2 DEF LifeInv, Working

-----------------------------------------------------------------------------
(* The receiver.                                                           *)

LEMMA ReceiverFrame ==
  ASSUME BridgeInv, UNCHANGED <<control, driver, bridge, tables, surrounding>>,
         RequestShape(request'), FlagsShape(flags'), ReceiverShape(receiver'), free' \in Nat,
         CapturedShape(captured'), BuffersInv', BatchesInv', LifeInv'
  PROVE  BridgeInv'
<1>1. UNCHANGED <<owner, renewal, window, open, budget, past>>
      BY DEF control, surrounding
<1>2. UNCHANGED <<associations, transport, core, inbound>>
      BY DEF tables
<1>3. Shape'
      BY <1>1, <1>2 DEF BridgeInv, Shape
<1>4. TablesInv' /\ CountsInv' /\ QuietInv'
      BY <1>1, TablesKept DEF BridgeInv
<1>5. PhaseInv' /\ SpaceInv'
      BY <1>1, PhaseKept DEF BridgeInv
<1>6. ReasonInv'
  <2>1. open \subseteq budget.flows
        BY DEF BridgeInv, BatchesInv
  <2>2. driver.generation \in Nat /\ DriverShape(driver)
        BY DEF BridgeInv, Shape, DriverShape
  <2>3. Closed' = Closed
        BY <1>1 DEF Closed
  <2>4. QED  BY <1>1, <2>1, <2>2, <2>3, ReasonKept DEF BridgeInv
<1>7. QED  BY <1>3, <1>4, <1>5, <1>6 DEF BridgeInv

\* The batches stay captured when only the place of the receiver changes.
LEMMA BatchesKept ==
  ASSUME BatchesInv, UNCHANGED <<window, renewal, driver, bridge, open, budget, past>>,
         request'.state = "filled" => Captured(request'.batch),
         receiver'.pc = "publishing" => Captured(receiver'.batch),
         \A n \in 1..Len(captured') : Captured(captured'[n])
  PROVE  BatchesInv'
BY DEF BatchesInv, WindowFollows, Captured

LEMMA ReceiverGoes ==
  ASSUME ReceiverShape(receiver), NEW pc \in ReceiverPlaces
  PROVE  /\ ReceiverShape([receiver EXCEPT !.pc = pc])
         /\ [receiver EXCEPT !.pc = pc].pc = pc
         /\ [receiver EXCEPT !.pc = pc].batch = receiver.batch
BY DEF ReceiverShape

\* A step of the receiver to another place, with or without a buffer.
LEMMA ReceiverMoves ==
  ASSUME BridgeInv, UNCHANGED <<control, driver, bridge, tables, surrounding, flags, captured>>,
         RequestShape(request'), ReceiverShape(receiver'), free' \in Nat,
         receiver.pc \notin Returned, receiver'.pc # "publishing",
         request'.state \in {"none", "pending"} \/ request' = request,
         receiver'.pc \in Returned => flags.shutdown \/ Closed \/ ~Working,
         free' + ReceiverHolds' <= free + ReceiverHolds,
         receiver'.pc \notin Returned => free' + ReceiverHolds' = free + ReceiverHolds
  PROVE  BridgeInv'
<1>1. UNCHANGED <<owner, renewal, window, open, budget, past>>
      BY DEF control, surrounding
<1>2. /\ free \in Nat /\ CapturedShape(captured) /\ FlagsShape(flags)
      BY DEF BridgeInv, Shape
<1>3. /\ Len(captured) \in Nat /\ ReceiverHolds \in Nat /\ ReceiverHolds' \in Nat
      BY <1>2 DEF CapturedShape, ReceiverHolds
<1>4. BuffersInv'
  <2>0. PICK m \in Nat, h \in Nat : free' = m /\ ReceiverHolds' = h
        BY <1>3
  <2>1. free' + Len(captured') + ReceiverHolds' <= free + Len(captured) + ReceiverHolds
        BY <1>2, <1>3, <2>0
  <2>2. receiver'.pc \notin Returned =>
          free' + Len(captured') + ReceiverHolds' = free + Len(captured) + ReceiverHolds
        BY <1>2, <1>3, <2>0
  <2>3. BuffersInv /\ bridge' = bridge /\ CapturedShape(captured')
        BY <1>2 DEF BridgeInv
  <2>4. QED  BY <1>2, <2>1, <2>2, <2>3, BuffersMove
<1>5. BatchesInv'
  <2>1. BatchesInv
        BY DEF BridgeInv
  <2>2. request'.state = "filled" => Captured(request'.batch)
        BY <2>1 DEF BatchesInv
  <2>3. \A n \in 1..Len(captured') : Captured(captured'[n])
        BY <2>1 DEF BatchesInv
  <2>4. QED  BY <1>1, <2>1, <2>2, <2>3, BatchesKept
<1>6. LifeInv'
  <2>1. Closed' = Closed /\ Working' = Working
        BY <1>1 DEF Closed, Working
  <2>2. AnyCapture' => AnyCapture
        BY <1>1 DEF AnyCapture
  <2>3. QED  BY <1>1, <2>1, <2>2 DEF BridgeInv, LifeInv
<1>7. QED  BY <1>2, <1>4, <1>5, <1>6, ReceiverFrame

LEMMA Requests ==
  /\ RequestShape(NoRequest) /\ NoRequest.state = "none"
  /\ RequestShape([state |-> "pending", batch |-> NoBatch])
  /\ NoBatch \in BatchRecords
BY DEF RequestShape, NoRequest, NoBatch, BatchRecords

LEMMA ReceiverTaking == ASSUME BridgeInv, ReceiverTakes PROVE BridgeInv'
<1>1. /\ receiver.pc = "top"
      /\ UNCHANGED <<control, driver, request, flags, captured, bridge, tables, surrounding>>
      BY DEF ReceiverTakes
<1>2. ReceiverShape(receiver) /\ free \in Nat /\ RequestShape(request)
      BY DEF BridgeInv, Shape
<1>3. ReceiverHolds = 0
      BY <1>1 DEF ReceiverHolds
<1>4. CASE flags.shutdown
  <2>1. receiver' = [receiver EXCEPT !.pc = "done"] /\ free' = free
        BY <1>4 DEF ReceiverTakes
  <2>2. ReceiverShape(receiver') /\ receiver'.pc = "done"
        BY <1>2, <2>1, ReceiverGoes DEF ReceiverPlaces, Returned
  <2>3. ReceiverHolds' = 0
        BY <2>2 DEF ReceiverHolds
  <2>4. QED  BY <1>1, <1>2, <1>3, <1>4, <2>1, <2>2, <2>3, ReceiverMoves DEF Returned
<1>5. CASE ~flags.shutdown
  <2>1. free > 0 /\ free' = free - 1 /\ receiver' = [receiver EXCEPT !.pc = "posting"]
        BY <1>5 DEF ReceiverTakes
  <2>2. ReceiverShape(receiver') /\ receiver'.pc = "posting"
        BY <1>2, <2>1, ReceiverGoes DEF ReceiverPlaces
  <2>3. ReceiverHolds' = 1 /\ free' \in Nat
        BY <1>2, <2>1, <2>2 DEF ReceiverHolds
  <2>4. free' + ReceiverHolds' = free + ReceiverHolds
        BY <1>2, <1>3, <2>1, <2>3
  <2>5. receiver'.pc \notin Returned /\ receiver.pc \notin Returned
        BY <1>1, <2>2 DEF Returned
  <2>6. free' + ReceiverHolds' <= free + ReceiverHolds
        BY <1>2, <1>3, <2>4
  <2>7. QED  BY <1>1, <1>2, <2>2, <2>3, <2>4, <2>5, <2>6, ReceiverMoves
<1>6. QED  BY <1>4, <1>5

\* A receive that the driver refuses or purges: its gate is closed for good.
LEMMA ReceiverPosting ==
  ASSUME BridgeInv, ReceiverPosts \/ ReceiverExpires
  PROVE  BridgeInv'
<1>1. /\ receiver.pc \in {"posting", "waiting"}
      /\ UNCHANGED <<control, driver, flags, captured, bridge, tables, surrounding>>
      BY DEF ReceiverPosts, ReceiverExpires
<1>2. ReceiverShape(receiver) /\ free \in Nat /\ RequestShape(request) /\ FlagsShape(flags)
      BY DEF BridgeInv, Shape
<1>3. ReceiverHolds = 1 /\ receiver.pc \notin Returned
      BY <1>1 DEF ReceiverHolds, Returned
<1>4. RequestShape(request')
      BY <1>2, Requests DEF ReceiverPosts, ReceiverExpires
<1>5. request'.state \in {"none", "pending"} \/ request' = request
      BY Requests DEF ReceiverPosts, ReceiverExpires
<1>6. \/ /\ receiver' = [receiver EXCEPT !.pc = "waiting", !.ready = TRUE] /\ free' = free
      \/ /\ receiver' = [receiver EXCEPT !.pc = "top"] /\ free' = free + 1
      \/ /\ flags.shutdown \/ flags.cancelled \/ ~driver.lease
         /\ \E pc \in Returned : receiver' = [receiver EXCEPT !.pc = pc]
         /\ free' = free
      BY DEF ReceiverPosts, ReceiverExpires, FailedReceive, Returned
<1>7. CASE receiver' = [receiver EXCEPT !.pc = "waiting", !.ready = TRUE] /\ free' = free
  <2>1. ReceiverShape(receiver') /\ receiver'.pc = "waiting"
        BY <1>2, <1>7 DEF ReceiverShape, ReceiverPlaces
  <2>2. ReceiverHolds' = 1 /\ receiver'.pc \notin Returned
        BY <2>1 DEF ReceiverHolds, Returned
  <2>3. QED  BY <1>1, <1>2, <1>3, <1>4, <1>5, <1>7, <2>1, <2>2, ReceiverMoves
<1>8. CASE receiver' = [receiver EXCEPT !.pc = "top"] /\ free' = free + 1
  <2>1. ReceiverShape(receiver') /\ receiver'.pc = "top"
        BY <1>2, <1>8, ReceiverGoes DEF ReceiverPlaces
  <2>2. ReceiverHolds' = 0 /\ receiver'.pc \notin Returned
        BY <2>1 DEF ReceiverHolds, Returned
  <2>3. free' \in Nat /\ free' + ReceiverHolds' = free + ReceiverHolds
        BY <1>2, <1>3, <1>8, <2>2
  <2>4. free' + ReceiverHolds' <= free + ReceiverHolds
        BY <1>2, <1>3, <2>3
  <2>5. receiver'.pc # "publishing"
        BY <2>1
  <2>6. QED  BY <1>1, <1>2, <1>3, <1>4, <1>5, <2>1, <2>2, <2>3, <2>4, <2>5, ReceiverMoves
<1>9. CASE /\ flags.shutdown \/ flags.cancelled \/ ~driver.lease
           /\ \E pc \in Returned : receiver' = [receiver EXCEPT !.pc = pc]
           /\ free' = free
  <2>1. PICK pc \in Returned : receiver' = [receiver EXCEPT !.pc = pc]
        BY <1>9
  <2>2. ReceiverShape(receiver') /\ receiver'.pc = pc
        BY <1>2, <2>1, ReceiverGoes DEF ReceiverPlaces
  <2>3. ReceiverHolds' = 0 /\ receiver'.pc \in Returned /\ receiver'.pc # "publishing"
        BY <2>2 DEF ReceiverHolds, Returned
  <2>4. flags.shutdown \/ Closed
        BY <1>9 DEF Closed, BridgeInv, LifeInv
  <2>5. free' \in Nat /\ free' + ReceiverHolds' <= free + ReceiverHolds
        BY <1>2, <1>3, <1>9, <2>3
  <2>6. QED  BY <1>1, <1>2, <1>3, <1>4, <1>5, <2>2, <2>3, <2>4, <2>5, ReceiverMoves
<1>10. QED  BY <1>6, <1>7, <1>8, <1>9


\* A receive that ended: its batch is the driver's, or the gate is closed, or the
\* bridge is told to stop.
LEMMA ReceiverCompleting == ASSUME BridgeInv, ReceiverCompletes PROVE BridgeInv'
<1>1. /\ receiver.pc = "waiting" /\ request' = NoRequest /\ free' = free /\ captured' = captured
      /\ flags' = flags
      /\ UNCHANGED <<control, driver, flags, captured, bridge, tables, surrounding>>
      BY DEF ReceiverCompletes
<1>2. /\ ReceiverShape(receiver) /\ free \in Nat /\ RequestShape(request) /\ FlagsShape(flags)
      /\ CapturedShape(captured) /\ BuffersInv /\ BatchesInv /\ LifeInv
      BY DEF BridgeInv, Shape
<1>3. ReceiverHolds = 1 /\ receiver.pc \notin Returned
      BY <1>1 DEF ReceiverHolds, Returned
<1>4. RequestShape(request') /\ request'.state = "none"
      BY <1>1, Requests
<1>5. CASE /\ request.state = "filled"
           /\ receiver' = [receiver EXCEPT !.pc = "publishing", !.batch = request.batch]
  <2>1. request.batch \in BatchRecords
        BY <1>2 DEF RequestShape
  <2>2. ReceiverShape(receiver') /\ receiver'.pc = "publishing" /\ receiver'.batch = request.batch
        BY <1>2, <1>5, <2>1 DEF ReceiverShape, ReceiverPlaces
  <2>3. ReceiverHolds' = 1
        BY <2>2 DEF ReceiverHolds
  <2>4. BuffersInv'
        BY <1>1, <1>2, <1>3, <2>3 DEF BuffersInv, BuffersConserved, BridgeHolds
  <2>5. UNCHANGED <<owner, renewal, window, open, budget, past, driver, bridge, captured>>
        BY <1>1 DEF control, surrounding
  <2>6. Captured(request.batch) /\ \A n \in 1..Len(captured) : Captured(captured[n])
        BY <1>2, <1>5 DEF BatchesInv
  <2>7. BatchesInv'
        BY <1>2, <1>4, <2>2, <2>5, <2>6, BatchesKept
  <2>8. LifeInv'
    <3>1. Closed' = Closed /\ Working' = Working
          BY <2>5 DEF Closed, Working
    <3>2. AnyCapture
          BY <1>5 DEF AnyCapture
    <3>3. receiver'.pc \notin Returned
          BY <2>2 DEF Returned
    <3>4. QED  BY <1>1, <1>2, <1>4, <2>5, <3>1, <3>2, <3>3 DEF LifeInv
  <2>9. QED  BY <1>1, <1>2, <1>4, <2>2, <2>4, <2>7, <2>8, ReceiverFrame
<1>6. CASE \/ /\ request.state = "purged"
              /\ receiver' = [receiver EXCEPT !.pc = FailedReceive]
           \/ /\ flags.cancelled
              /\ receiver' = [receiver EXCEPT !.pc = "done"]
  <2>1. PICK pc \in Returned : receiver' = [receiver EXCEPT !.pc = pc]
        BY <1>6 DEF FailedReceive, Returned
  <2>2. ReceiverShape(receiver') /\ receiver'.pc = pc
        BY <1>2, <2>1, ReceiverGoes DEF ReceiverPlaces
  <2>3. ReceiverHolds' = 0 /\ receiver'.pc # "publishing"
        BY <2>2 DEF ReceiverHolds, Returned
  <2>4. flags.shutdown \/ Closed
        BY <1>2, <1>6 DEF LifeInv
  <2>5. free' \in Nat /\ free' + ReceiverHolds' <= free + ReceiverHolds
        BY <1>1, <1>2, <1>3, <2>3
  <2>6. QED  BY <1>1, <1>2, <1>3, <1>4, <2>2, <2>3, <2>4, <2>5, ReceiverMoves
<1>7. QED  BY <1>5, <1>6 DEF ReceiverCompletes

\* There is always room for a batch while the bridge works.
LEMMA ReceiverPublishing == ASSUME BridgeInv, ReceiverPublishes PROVE BridgeInv'
<1>1. /\ receiver.pc = "publishing" /\ request' = request /\ free' = free
      /\ UNCHANGED <<control, driver, flags, bridge, tables, surrounding>>
      BY DEF ReceiverPublishes
<1>2. /\ ReceiverShape(receiver) /\ free \in Nat /\ RequestShape(request) /\ FlagsShape(flags)
      /\ CapturedShape(captured) /\ BuffersInv /\ BatchesInv /\ LifeInv
      BY DEF BridgeInv, Shape
<1>3. ReceiverHolds = 1 /\ receiver.pc \notin Returned
      BY <1>1 DEF ReceiverHolds, Returned
<1>4. /\ Len(captured) \in Nat /\ Buffers \in Nat /\ Len(captured) # Buffers
      /\ BridgeHolds \in Nat /\ BridgeHolds' = BridgeHolds
      BY <1>1, <1>2, <1>3, SizesAssumption DEF CapturedShape, BuffersInv, BridgeHolds
<1>5. CASE bridge.pc \in Returned
  <2>1. captured' = captured
        BY <1>5 DEF ReceiverPublishes
  <2>2. PICK pc \in Returned : receiver' = [receiver EXCEPT !.pc = pc, !.batch = NoBatch]
        BY <1>5 DEF ReceiverPublishes, Returned
  <2>3. ReceiverShape(receiver') /\ receiver'.pc = pc
        BY <1>2, <2>2, Requests DEF ReceiverShape, ReceiverPlaces
  <2>4. ReceiverHolds' = 0 /\ receiver'.pc # "publishing"
        BY <2>3 DEF ReceiverHolds, Returned
  <2>5. free' \in Nat /\ free' + ReceiverHolds' <= free + ReceiverHolds
        BY <1>1, <1>2, <1>3, <2>4
  <2>6. QED  BY <1>1, <1>2, <1>3, <1>5, <2>1, <2>3, <2>4, <2>5, ReceiverMoves DEF Working
<1>6. CASE bridge.pc \notin Returned
  <2>1. /\ captured' = Append(captured, receiver.batch)
        /\ receiver' = [receiver EXCEPT !.pc = "top", !.batch = NoBatch]
        BY <1>4, <1>6 DEF ReceiverPublishes
  <2>2. ReceiverShape(receiver') /\ receiver'.pc = "top"
        BY <1>2, <2>1, Requests DEF ReceiverShape, ReceiverPlaces
  <2>3. ReceiverHolds' = 0 /\ receiver'.pc \notin Returned
        BY <2>2 DEF ReceiverHolds, Returned
  <2>4. receiver.batch \in BatchRecords
        BY <1>2 DEF ReceiverShape
  <2>5. /\ CapturedShape(captured') /\ Len(captured') = Len(captured) + 1
        /\ \A n \in 1..Len(captured') :
             captured'[n] = IF n = Len(captured) + 1 THEN receiver.batch ELSE captured[n]
        BY <1>2, <2>1, <2>4 DEF CapturedShape
  <2>6. BuffersInv'
        BY <1>1, <1>2, <1>3, <1>4, <2>3, <2>5 DEF BuffersInv, BuffersConserved
  <2>7. UNCHANGED <<owner, renewal, window, open, budget, past, driver, bridge>>
        BY <1>1 DEF control, surrounding
  <2>8. Captured(receiver.batch) /\ \A n \in 1..Len(captured) : Captured(captured[n])
        BY <1>1, <1>2 DEF BatchesInv
  <2>9. \A n \in 1..Len(captured') : Captured(captured'[n])
        BY <1>4, <2>5, <2>8
  <2>10. BatchesInv'
    <3>1. request'.state = "filled" => Captured(request'.batch)
          BY <1>1, <1>2 DEF BatchesInv
    <3>2. QED  BY <1>2, <2>2, <2>7, <2>9, <3>1, BatchesKept
  <2>11. LifeInv'
    <3>1. Closed' = Closed /\ Working' = Working
          BY <2>7 DEF Closed, Working
    <3>2. AnyCapture
          BY <1>1 DEF AnyCapture
    <3>4. QED  BY <1>1, <1>2, <2>3, <2>7, <3>1, <3>2 DEF LifeInv
  <2>12. QED  BY <1>1, <1>2, <2>2, <2>5, <2>6, <2>10, <2>11, ReceiverFrame
<1>7. QED  BY <1>5, <1>6

LEMMA FlagsFailing ==
  ASSUME FlagsShape(flags)
  PROVE  FlagsShape(Failing) /\ Failing.shutdown /\ Failing.cancelled
<1> DEFINE a == [flags EXCEPT !.alive = FALSE]
           b == [a EXCEPT !.shutdown = TRUE]
<1>1. FlagsShape(a)
      BY DEF FlagsShape
<1>2. FlagsShape(b) /\ b.shutdown
      <2> HIDE DEF a
      <2> QED  BY <1>1 DEF FlagsShape
<1>3. Failing = [b EXCEPT !.cancelled = TRUE]
      BY DEF Failing
<1> HIDE DEF b
<1>4. QED  BY <1>2, <1>3 DEF FlagsShape

LEMMA ReceiverFailing == ASSUME BridgeInv, ReceiverFails PROVE BridgeInv'
<1>1. /\ receiver.pc = "ending" /\ receiver' = [receiver EXCEPT !.pc = "failed"]
      /\ flags' = Failing /\ request' = request /\ free' = free /\ captured' = captured
      /\ UNCHANGED <<control, driver, bridge, tables, surrounding>>
      BY DEF ReceiverFails
<1>2. /\ ReceiverShape(receiver) /\ free \in Nat /\ RequestShape(request) /\ FlagsShape(flags)
      /\ CapturedShape(captured) /\ BuffersInv /\ BatchesInv /\ LifeInv
      BY DEF BridgeInv, Shape
<1>3. ReceiverShape(receiver') /\ receiver'.pc = "failed"
      BY <1>1, <1>2, ReceiverGoes DEF ReceiverPlaces, Returned
<1>4. FlagsShape(flags') /\ flags'.shutdown
      BY <1>1, <1>2, FlagsFailing
<1>5. BuffersInv'
      BY <1>1, <1>2, <1>3 DEF BuffersInv, BuffersConserved, ReceiverHolds, BridgeHolds,
         Returned
<1>6. UNCHANGED <<owner, renewal, window, open, budget, past, driver, bridge, captured>>
      BY <1>1 DEF control, surrounding
<1>7. BatchesInv'
  <2>1. request'.state = "filled" => Captured(request'.batch)
        BY <1>1, <1>2 DEF BatchesInv
  <2>2. \A n \in 1..Len(captured') : Captured(captured'[n])
        BY <1>1, <1>2 DEF BatchesInv
  <2>3. QED  BY <1>2, <1>3, <1>6, <2>1, <2>2, BatchesKept
<1>8. LifeInv'
      BY <1>1, <1>2, <1>3, <1>4, <1>6, LifeKept
<1>9. QED  BY <1>1, <1>2, <1>3, <1>4, <1>5, <1>7, <1>8, ReceiverFrame

LEMMA ReceiverKeeps ==
  ASSUME BridgeInv, ReceiverStep \/ ReceiverExpires
  PROVE  BridgeInv'
BY ReceiverTaking, ReceiverPosting, ReceiverCompleting, ReceiverPublishing, ReceiverFailing
   DEF ReceiverStep

-----------------------------------------------------------------------------
(* The bridge, where it leaves the tables alone.                           *)

LEMMA BridgeFrame ==
  ASSUME BridgeInv,
         UNCHANGED <<renewal, window, driver, request, receiver, free, captured, tables, open,
                     past>>,
         owner' \in OwnerPlaces, owner' = "arming" <=> bridge'.pc = "absent",
         BridgeShape(bridge'), FlagsShape(flags'), BudgetShape(budget'),
         budget'.flows = budget.flows, bridge'.records = <<>>, bridge'.space = Space,
         bridge.pc \in Returned => bridge'.pc \in Returned,
         bridge.pc \in {"send", "poll", "receive"} => bridge'.pc \in Returned,
         bridge'.pc \notin {"send", "receive"},
         bridge'.pc = "poll" => bridge'.identity \in 1..driver.generation,
         LifeInv', ReasonInv'
  PROVE  BridgeInv'
<1>1. UNCHANGED <<associations, transport, core, inbound>>
      BY DEF tables
<1>2. Shape'
      BY <1>1 DEF BridgeInv, Shape
<1>3. TablesInv' /\ CountsInv' /\ QuietInv'
      BY TablesKept DEF BridgeInv
<1>4. PhaseInv' /\ SpaceInv'
      BY PhaseQuiet
<1>5. BuffersInv'
  <2>1. ReceiverHolds' = ReceiverHolds /\ BridgeHolds' = 0
        BY DEF ReceiverHolds, BridgeHolds
  <2>2. PICK m \in Nat, n \in Nat, h \in Nat, k \in Nat :
          m = free /\ n = Len(captured) /\ h = ReceiverHolds /\ k = BridgeHolds
        BY DEF BridgeInv, Shape, CapturedShape, ReceiverHolds, BridgeHolds
  <2>3. m + n + h + k <= Buffers => m + n + h + 0 <= Buffers
        BY SizesAssumption
  <2>4. free' + Len(captured') + ReceiverHolds' + BridgeHolds' <= Buffers
        BY <2>1, <2>2, <2>3 DEF BridgeInv, BuffersInv
  <2>5. bridge'.pc \notin Returned => BridgeHolds = 0
        BY DEF BridgeHolds
  <2>6. BuffersConserved'
        BY <2>1, <2>5 DEF BridgeInv, BuffersInv, BuffersConserved
  <2>7. QED  BY <2>4, <2>6 DEF BuffersInv
<1>6. BatchesInv'
      BY DEF BridgeInv, BatchesInv, WindowFollows, Captured
<1>7. QED  BY <1>2, <1>3, <1>4, <1>5, <1>6 DEF BridgeInv

\* A step of the bridge's own, within one place or on to the next.
LEMMA BridgeMoves ==
  ASSUME BridgeInv,
         UNCHANGED <<control, driver, request, receiver, free, captured, tables, open, past>>,
         BridgeShape(bridge'), FlagsShape(flags'), BudgetShape(budget'),
         budget'.flows = budget.flows, bridge'.records = <<>>, bridge'.space = Space,
         bridge.pc # "absent", bridge'.pc # "absent",
         bridge.pc \in Returned => bridge'.pc \in Returned,
         bridge.pc \in {"send", "poll", "receive"} => bridge'.pc \in Returned,
         bridge'.pc \notin {"send", "receive"},
         bridge'.pc = "poll" => bridge'.identity \in 1..driver.generation,
         flags'.cancelled = flags.cancelled \/ flags'.shutdown,
         flags.shutdown => flags'.shutdown,
         bridge'.pc \in {"ending", "failed"} =>
           \/ bridge.pc \in {"ending", "failed"} /\ bridge'.reason = bridge.reason
           \/ Disturbed(bridge'.reason)
  PROVE  BridgeInv'
<1>1. UNCHANGED <<owner, renewal, window>>
      BY DEF control
<1>2. owner' \in OwnerPlaces
      BY <1>1 DEF BridgeInv, Shape
<1>3. owner' = "arming" <=> bridge'.pc = "absent"
      BY <1>1 DEF BridgeInv, PhaseInv
<1>4. LifeInv'
      BY <1>1, LifeKept DEF BridgeInv
<1>5. Closed' = Closed /\ Given' = Given
      BY <1>1 DEF Closed, Given
<1>6. ReasonInv'
  <2> SUFFICES ASSUME bridge'.pc \in {"ending", "failed"} PROVE Disturbed(bridge.reason)'
      BY DEF ReasonInv
  <2>1. Disturbed(bridge'.reason)
        BY DEF BridgeInv, ReasonInv
  <2>2. QED  BY <1>5, <2>1 DEF Disturbed
<1>7. QED  BY <1>1, <1>2, <1>3, <1>4, <1>6, BridgeFrame

LEMMA BridgeStarting ==
  ASSUME BridgeInv
  PROVE  /\ BridgeShape(bridge) /\ FlagsShape(flags) /\ BudgetShape(budget)
         /\ ReceiverShape(receiver) /\ DriverShape(driver) /\ WindowShape(window)
         /\ bridge.pc \notin {"poll", "receive"} => bridge.records = <<>> /\ bridge.space = Space
         /\ Space \in Nat
BY SizesAssumption DEF BridgeInv, Shape, PhaseInv

LEMMA BridgeStopping == ASSUME BridgeInv, BridgeStops PROVE BridgeInv'
<1>1. /\ bridge.pc = "top" /\ flags.shutdown /\ bridge' = [bridge EXCEPT !.pc = "done"]
      /\ flags' = [flags EXCEPT !.alive = FALSE]
      /\ UNCHANGED <<control, driver, request, receiver, free, captured, tables, open, past, budget>>
      BY DEF BridgeStops, surrounding
<1>2. /\ BridgeShape(bridge') /\ bridge'.pc = "done" /\ bridge'.records = <<>>
      /\ bridge'.space = Space
      BY <1>1, BridgeStarting, BridgeGoes DEF BridgePlaces, Returned
<1>3. FlagsShape(flags') /\ flags'.shutdown /\ BudgetShape(budget')
      BY <1>1, BridgeStarting DEF FlagsShape
<1>4. QED  BY <1>1, <1>2, <1>3, BridgeMoves DEF Returned

LEMMA BridgeLooking == ASSUME BridgeInv, BridgeObserves \/ BridgeSkipsHealth PROVE BridgeInv'
<1>1. /\ bridge.pc = "top"
      /\ UNCHANGED <<control, driver, request, flags, receiver, free, captured, tables, open, past,
                     budget>>
      BY DEF BridgeObserves, BridgeSkipsHealth, surrounding
<1>2. FlagsShape(flags') /\ BudgetShape(budget')
      BY <1>1, BridgeStarting
<1>3. CASE bridge' = Ending("injection")
  <2>1. /\ BridgeShape(bridge') /\ bridge'.pc = "ending" /\ bridge'.records = <<>>
        /\ bridge'.space = Space /\ bridge'.reason = "injection"
        BY <1>3, BridgeStarting, BridgeEnding DEF Reasons
  <2>2. Disturbed(bridge'.reason)
        BY <2>1 DEF Disturbed
  <2>3. QED  BY <1>1, <1>2, <2>1, <2>2, BridgeMoves DEF Returned
<1>4. CASE \E b \in BOOLEAN : bridge' = [bridge EXCEPT !.pc = "drain", !.pending = b]
  <2>1. PICK b \in BOOLEAN : bridge' = [bridge EXCEPT !.pc = "drain", !.pending = b]
        BY <1>4
  <2>2. /\ BridgeShape([bridge EXCEPT !.pc = "drain"])
        /\ [bridge EXCEPT !.pc = "drain"].records = <<>>
        /\ [bridge EXCEPT !.pc = "drain"].space = Space
        /\ [bridge EXCEPT !.pc = "drain"].pc = "drain"
        BY <1>1, BridgeStarting, BridgeGoes DEF BridgePlaces
  <2> DEFINE a == [bridge EXCEPT !.pc = "drain"]
  <2>3. bridge' = [a EXCEPT !.pending = b]
        BY <2>1
  <2> HIDE DEF a
  <2>4. /\ BridgeShape(bridge') /\ bridge'.pc = "drain" /\ bridge'.records = <<>>
        /\ bridge'.space = Space
        BY <2>2, <2>3 DEF a, BridgeShape
  <2>5. QED  BY <1>1, <1>2, <2>4, BridgeMoves DEF Returned
<1>5. CASE bridge' = [bridge EXCEPT !.pc = "drain"]
  <2>1. /\ BridgeShape(bridge') /\ bridge'.pc = "drain" /\ bridge'.records = <<>>
        /\ bridge'.space = Space
        BY <1>1, <1>5, BridgeStarting, BridgeGoes DEF BridgePlaces
  <2>2. QED  BY <1>1, <1>2, <2>1, BridgeMoves DEF Returned
<1>6. QED
  <2>1. (driver.inFlight > 0) \in BOOLEAN
        OBVIOUS
  <2>2. QED  BY <1>3, <1>4, <1>5, <2>1 DEF BridgeObserves, BridgeSkipsHealth

\* The receiver has returned and nobody asked for it: the gate is closed for good.
LEMMA BridgeDraining == ASSUME BridgeInv, BridgeDrained PROVE BridgeInv'
<1>1. /\ bridge.pc = "drain"
      /\ UNCHANGED <<control, driver, request, flags, receiver, free, captured, tables, open, past,
                     budget>>
      BY DEF BridgeDrained, surrounding
<1>2. FlagsShape(flags') /\ BudgetShape(budget')
      BY <1>1, BridgeStarting
<1>3. CASE receiver.pc \in Returned /\ ~flags.shutdown
  <2>1. bridge' = Ending("receiver")
        BY <1>3 DEF BridgeDrained
  <2>2. /\ BridgeShape(bridge') /\ bridge'.pc = "ending" /\ bridge'.records = <<>>
        /\ bridge'.space = Space /\ bridge'.reason = "receiver"
        BY <2>1, BridgeStarting, BridgeEnding DEF Reasons
  <2>3. Closed
        BY <1>1, <1>3 DEF BridgeInv, LifeInv, Working, Returned
  <2>4. Disturbed(bridge'.reason)
        BY <2>2, <2>3 DEF Disturbed
  <2>5. QED  BY <1>1, <1>2, <2>2, <2>4, BridgeMoves DEF Returned
<1>4. CASE ~(receiver.pc \in Returned /\ ~flags.shutdown)
  <2>1. bridge' = [bridge EXCEPT !.pc = "identify"]
        BY <1>4 DEF BridgeDrained
  <2>2. /\ BridgeShape(bridge') /\ bridge'.pc = "identify" /\ bridge'.records = <<>>
        /\ bridge'.space = Space
        BY <1>1, <2>1, BridgeStarting, BridgeGoes DEF BridgePlaces
  <2>3. QED  BY <1>1, <1>2, <2>2, BridgeMoves DEF Returned
<1>5. QED  BY <1>3, <1>4

LEMMA BridgeIdentifying == ASSUME BridgeInv, BridgeIdentifies PROVE BridgeInv'
<1>1. /\ bridge.pc = "identify" /\ ~Locked
      /\ bridge' = [bridge EXCEPT !.pc = "poll", !.identity = window.current, !.space = Space]
      /\ UNCHANGED <<control, driver, request, flags, receiver, free, captured, tables, open, past,
                     budget>>
      BY DEF BridgeIdentifies, surrounding
<1>2. FlagsShape(flags') /\ BudgetShape(budget')
      BY <1>1, BridgeStarting
<1>3. window.current = driver.generation /\ window.current \in Nat
      BY <1>1, BridgeStarting DEF BridgeInv, BatchesInv, WindowFollows, Locked, WindowShape
<1> DEFINE a == [bridge EXCEPT !.pc = "poll"]
           b == [a EXCEPT !.identity = window.current]
<1>4. BridgeShape(a) /\ a.pc = "poll" /\ a.records = <<>>
      BY <1>1, BridgeStarting, BridgeGoes DEF BridgePlaces
<1>5. /\ BridgeShape(b) /\ b.pc = "poll" /\ b.records = <<>> /\ b.identity = window.current
      <2> HIDE DEF a
      <2> QED  BY <1>3, <1>4 DEF BridgeShape
<1>6. bridge' = [b EXCEPT !.space = Space]
      BY <1>1
<1>7. /\ BridgeShape(bridge') /\ bridge'.pc = "poll" /\ bridge'.records = <<>>
      /\ bridge'.identity = window.current /\ bridge'.space = Space
      <2> HIDE DEF b
      <2> QED  BY <1>5, <1>6, BridgeStarting DEF BridgeShape
<1>8. bridge'.identity \in 1..driver.generation
      BY <1>3, <1>7, BridgeStarting DEF DriverShape
<1>9. QED  BY <1>1, <1>2, <1>7, <1>8, BridgeMoves DEF Returned

\* The driver takes the batch of a generation that was, of a flow that is gone, or
\* behind a closed gate from nobody.
LEMMA BridgeRefusing == ASSUME BridgeInv, BridgeIsRefused PROVE BridgeInv'
<1>1. /\ bridge.pc \in {"poll", "receive"} /\ bridge.records # <<>> /\ ~DriverTakes
      /\ bridge' = Ending("submission")
      /\ UNCHANGED <<control, driver, request, flags, receiver, free, captured, tables, open, past,
                     budget>>
      BY DEF BridgeIsRefused, NoMoreReplies, surrounding
<1>2. FlagsShape(flags') /\ BudgetShape(budget')
      BY <1>1, BridgeStarting
<1>3. /\ BridgeShape(bridge') /\ bridge'.pc = "ending" /\ bridge'.records = <<>>
      /\ bridge'.space = Space /\ bridge'.reason = "submission"
      BY <1>1, BridgeStarting, BridgeEnding DEF Reasons
<1>4. Disturbed("submission")
  <2>1. bridge.records \in Seq(ReplyRecords) /\ RepliesMatch
        BY BridgeStarting DEF BridgeShape, BridgeInv, TablesInv
  <2>2. \A n \in 1..Len(bridge.records) :
          /\ bridge.records[n] \in ReplyRecords
          /\ past.origin[bridge.records[n].id] = bridge.records[n].flow
        BY <2>1 DEF RepliesMatch
  <2>3. DOMAIN bridge.records = 1..Len(bridge.records) /\ 1 \in 1..Len(bridge.records)
        BY <1>1, <2>1
  <2>4. CASE ~driver.lease
        BY <2>4 DEF Disturbed, Closed
  <2>5. CASE ~driver.gate
    <3>1. bridge.records[1].id \in Ids /\ past.origin[bridge.records[1].id] # None
          BY <2>2, <2>3, SizesAssumption DEF ReplyRecords
    <3>2. AnyCapture
          BY <3>1 DEF AnyCapture
    <3>3. Closed
          BY <2>5, <3>2 DEF BridgeInv, LifeInv
    <3>4. QED  BY <3>3 DEF Disturbed
  <2>6. CASE bridge.identity # driver.generation
    <3>1. bridge.identity \in 1..driver.generation
          BY <1>1 DEF BridgeInv, BatchesInv
    <3>2. driver.generation > 1
          BY <2>6, <3>1, BridgeStarting DEF DriverShape
    <3>3. QED  BY <3>2 DEF Disturbed
  <2>7. CASE \E n \in DOMAIN bridge.records : bridge.records[n].flow \notin open
    <3>1. PICK n \in 1..Len(bridge.records) : bridge.records[n].flow \notin open
          BY <2>3, <2>7
    <3>2. bridge.records[n].flow \in budget.flows
          BY <2>2, <3>1, SizesAssumption DEF ReplyRecords, BridgeInv, BatchesInv
    <3>3. open # budget.flows
          BY <3>1, <3>2
    <3>4. QED  BY <3>3 DEF Disturbed
  <2>8. QED  BY <1>1, <2>4, <2>5, <2>6, <2>7 DEF DriverTakes
<1>5. QED  BY <1>1, <1>2, <1>3, <1>4, BridgeMoves DEF Returned

\* The socket or a request to the driver fails, with a datagram in hand or a batch.
LEMMA BridgeErring == ASSUME BridgeInv, BridgeErrs PROVE BridgeInv'
<1>1. /\ bridge.pc \in {"send", "receive", "top", "poll"}
      /\ MayStill("faults") /\ Spend("faults") /\ bridge' = Ending("fault")
      /\ UNCHANGED <<control, driver, request, flags, receiver, free, captured, tables, open, past>>
      BY DEF BridgeErrs, NoMoreReplies
<1>2. FlagsShape(flags') /\ BudgetShape(budget') /\ budget'.flows = budget.flows
      BY <1>1, BridgeStarting, BudgetSpent DEF SpentOn
<1>3. /\ BridgeShape(bridge') /\ bridge'.pc = "ending" /\ bridge'.records = <<>>
      /\ bridge'.space = Space /\ bridge'.reason = "fault"
      BY <1>1, BridgeStarting, BridgeEnding DEF Reasons
<1>4. Disturbed("fault")
      BY DEF Disturbed
<1>5. QED  BY <1>1, <1>2, <1>3, <1>4, BridgeMoves DEF Returned

LEMMA BridgeFailing == ASSUME BridgeInv, BridgeFails PROVE BridgeInv'
<1>1. /\ bridge.pc = "ending" /\ bridge' = [bridge EXCEPT !.pc = "failed"] /\ flags' = Failing
      /\ UNCHANGED <<control, driver, request, receiver, free, captured, tables, open, past, budget>>
      BY DEF BridgeFails, surrounding
<1>2. /\ BridgeShape(bridge') /\ bridge'.pc = "failed" /\ bridge'.records = <<>>
      /\ bridge'.space = Space /\ bridge'.reason = bridge.reason
      BY <1>1, BridgeStarting, BridgeGoes DEF BridgePlaces, Returned
<1>3. FlagsShape(flags') /\ flags'.shutdown /\ BudgetShape(budget')
      BY <1>1, BridgeStarting, FlagsFailing
<1>4. QED  BY <1>1, <1>2, <1>3, BridgeMoves DEF Returned

-----------------------------------------------------------------------------
(* The renewal, the owner and the driver.                                  *)

LEMMA ControlFrame ==
  ASSUME BridgeInv, UNCHANGED <<workers, tables, past>>,
         owner' \in OwnerPlaces, renewal' \in RenewalPlaces, owner' = "arming" <=> owner = "arming",
         DriverShape(driver'), WindowShape(window'), RequestShape(request'), FlagsShape(flags'),
         open' \subseteq open, BudgetShape(budget'), budget'.flows = budget.flows,
         driver'.generation >= driver.generation, WindowFollows',
         request'.state = "filled" => Captured(request'.batch),
         Closed => Closed', LifeInv'
  PROVE  BridgeInv'
<1>1. UNCHANGED <<receiver, free, captured, bridge, associations, transport, core, inbound, past>>
      BY DEF workers, tables
<1>2. Shape'
      BY <1>1 DEF BridgeInv, Shape
<1>3. TablesInv' /\ CountsInv' /\ QuietInv'
      BY <1>1, TablesKept DEF BridgeInv
<1>4. PhaseInv' /\ SpaceInv'
      BY <1>1, PhaseKept DEF BridgeInv
<1>5. BuffersInv'
      BY <1>1 DEF BridgeInv, BuffersInv, BuffersConserved, ReceiverHolds, BridgeHolds
<1>6. BatchesInv'
  <2>1. 1..driver.generation \subseteq 1..driver'.generation
        BY DEF BridgeInv, Shape, DriverShape
  <2>2. BatchesInv
        BY DEF BridgeInv
  <2>3. ASSUME NEW batch, Captured(batch) PROVE Captured(batch)'
        BY <2>1, <2>3 DEF Captured
  <2>4. request'.state = "filled" => Captured(request.batch)'
        BY <2>1 DEF Captured
  <2>5. receiver'.pc = "publishing" => Captured(receiver.batch)'
        BY <1>1, <2>1, <2>2 DEF Captured, BatchesInv
  <2>6. \A n \in 1..Len(captured') : Captured(captured[n])'
        BY <1>1, <2>1, <2>2 DEF Captured, BatchesInv
  <2>7. bridge'.pc \in {"poll", "receive"} => bridge'.identity \in 1..driver'.generation
        BY <1>1, <2>1, <2>2 DEF BatchesInv
  <2>8. open' \subseteq budget'.flows /\ \A i \in Ids : past'.origin[i] \in budget'.flows \union {None}
        BY <1>1, <2>2 DEF BatchesInv
  <2>9. QED  BY <2>4, <2>5, <2>6, <2>7, <2>8 DEF BatchesInv
<1>7. ReasonInv'
  <2>1. open \subseteq budget.flows
        BY DEF BridgeInv, BatchesInv
  <2>2. DriverShape(driver)
        BY DEF BridgeInv, Shape
  <2>3. QED  BY <1>1, <2>1, <2>2, ReasonKept DEF BridgeInv
<1>8. QED  BY <1>2, <1>3, <1>4, <1>5, <1>6, <1>7 DEF BridgeInv

\* The gate is neither opened nor is there anything new behind it.
LEMMA LifeClosing ==
  ASSUME LifeInv, UNCHANGED <<receiver, captured, bridge, past>>,
         driver'.gate => driver'.lease /\ driver.gate,
         driver.gate => driver'.gate \/ Closed',
         owner' = "arming" => owner = "arming",
         Closed => Closed',
         Closed' /\ driver'.gate => Closed,
         request'.state = "filled" => request.state = "filled",
         request'.state = "purged" => request.state = "purged" \/ Closed',
         flags.shutdown => flags'.shutdown,
         flags'.cancelled => flags.cancelled \/ flags'.shutdown
  PROVE  LifeInv'
<1>1. AnyCapture' => AnyCapture
      BY DEF AnyCapture
<1>2. Working' = Working
      BY DEF Working
<1>3. QED  BY <1>1, <1>2 DEF LifeInv

LEMMA ControlStarting ==
  ASSUME BridgeInv
  PROVE  /\ DriverShape(driver) /\ WindowShape(window) /\ RequestShape(request) /\ FlagsShape(flags)
         /\ BudgetShape(budget) /\ open \in SUBSET Flows
         /\ owner \in OwnerPlaces /\ renewal \in RenewalPlaces
         /\ driver.generation >= driver.generation
         /\ WindowFollows /\ LifeInv /\ (request.state = "filled" => Captured(request.batch))
BY DEF BridgeInv, BatchesInv, Shape, DriverShape

LEMMA RenewalLocking == ASSUME BridgeInv, RenewalLocks PROVE BridgeInv'
<1>1. /\ renewal = "waiting" /\ renewal' = "locked" /\ MayStill("renewals") /\ Spend("renewals")
      /\ UNCHANGED <<workers, tables, past>>
      /\ UNCHANGED <<owner, window, driver, request, flags, open>>
      BY DEF RenewalLocks
<1>2. BudgetShape(budget') /\ budget'.flows = budget.flows
      BY <1>1, ControlStarting, BudgetSpent DEF SpentOn
<1>3. WindowFollows'
      BY <1>1, ControlStarting DEF WindowFollows
<1>4. UNCHANGED <<receiver, captured, bridge>> /\ Closed' = Closed
      BY <1>1 DEF workers, Closed
<1>5. LifeInv'
      BY <1>1, <1>4, ControlStarting DEF LifeInv, AnyCapture, Working
<1>6. renewal' \in RenewalPlaces
      BY <1>1 DEF RenewalPlaces
<1>7. QED  BY <1>1, <1>2, <1>3, <1>4, <1>5, <1>6, ControlStarting, ControlFrame

LEMMA RenewalCommitting == ASSUME BridgeInv, RenewalCommits PROVE BridgeInv'
<1>1. /\ renewal = "locked" /\ renewal' = "committed"
      /\ driver' = [driver EXCEPT !.generation = driver.generation + 1]
      /\ UNCHANGED <<workers, tables, past>>
      /\ UNCHANGED <<owner, window, request, flags, open, budget>>
      BY DEF RenewalCommits, surrounding
<1>2. /\ DriverShape(driver') /\ driver'.generation = driver.generation + 1
      /\ driver'.lease = driver.lease /\ driver'.gate = driver.gate
      BY <1>1, ControlStarting DEF DriverShape
<1>3. driver'.generation >= driver.generation /\ WindowFollows'
      BY <1>1, <1>2, ControlStarting DEF WindowFollows, DriverShape, WindowShape
<1>4. UNCHANGED <<receiver, captured, bridge>> /\ Closed' = Closed
      BY <1>1, <1>2 DEF workers, Closed
<1>5. LifeInv'
      BY <1>1, <1>2, <1>4, ControlStarting DEF LifeInv, AnyCapture, Working
<1>6. renewal' \in RenewalPlaces
      BY <1>1 DEF RenewalPlaces
<1>7. QED  BY <1>1, <1>2, <1>3, <1>4, <1>5, <1>6, ControlStarting, ControlFrame

LEMMA RenewalPublishing == ASSUME BridgeInv, RenewalPublishes PROVE BridgeInv'
<1>1. /\ renewal = "committed" /\ renewal' = "waiting"
      /\ window' = [current |-> driver.generation, previous |-> window.current]
      /\ UNCHANGED <<workers, tables, past>>
      /\ UNCHANGED <<owner, driver, request, flags, open, budget>>
      BY DEF RenewalPublishes, surrounding
<1>2. WindowShape(window')
      BY <1>1, ControlStarting DEF WindowShape, DriverShape
<1>3. WindowFollows'
  <2>1. window.current = driver.generation - 1 /\ driver.generation \in Nat /\ window.current \in Nat
        BY <1>1, ControlStarting DEF WindowFollows, DriverShape, WindowShape
  <2>2. window.current + 1 = driver.generation
        BY <2>1
  <2>3. window'.previous = window.current /\ window'.current = driver.generation
        BY <1>1
  <2>4. QED  BY <1>1, <2>2, <2>3 DEF WindowFollows
<1>4. UNCHANGED <<receiver, captured, bridge>> /\ Closed' = Closed
      BY <1>1 DEF workers, Closed
<1>5. LifeInv'
      BY <1>1, <1>4, ControlStarting DEF LifeInv, AnyCapture, Working
<1>6. renewal' \in RenewalPlaces
      BY <1>1 DEF RenewalPlaces
<1>7. QED  BY <1>1, <1>2, <1>3, <1>4, <1>5, <1>6, ControlStarting, ControlFrame

LEMMA RequestPurged ==
  ASSUME RequestShape(request)
  PROVE  /\ RequestShape(Purged)
         /\ Purged.state = "filled" => Purged = request
         /\ Purged.state # "purged" => Purged = request
<1>1. /\ RequestShape([request EXCEPT !.state = "purged"])
      /\ [request EXCEPT !.state = "purged"].state = "purged"
      BY DEF RequestShape
<1>2. QED  BY <1>1 DEF Purged

\* What the driver is left with when its gate is closed, alone or with its lease.
LEMMA DriverCloses ==
  ASSUME DriverShape(driver)
  PROVE  /\ DriverShape([driver EXCEPT !.gate = FALSE])
         /\ [driver EXCEPT !.gate = FALSE].generation = driver.generation
         /\ [driver EXCEPT !.gate = FALSE].lease = driver.lease
         /\ ~[driver EXCEPT !.gate = FALSE].gate
         /\ DriverShape([driver EXCEPT !.gate = FALSE, !.lease = FALSE])
         /\ [driver EXCEPT !.gate = FALSE, !.lease = FALSE].generation = driver.generation
         /\ ~[driver EXCEPT !.gate = FALSE, !.lease = FALSE].lease
         /\ ~[driver EXCEPT !.gate = FALSE, !.lease = FALSE].gate
         /\ [driver EXCEPT !.lease = FALSE, !.gate = FALSE] =
              [driver EXCEPT !.gate = FALSE, !.lease = FALSE]
<1> DEFINE a == [driver EXCEPT !.gate = FALSE]
<1>1. DriverShape(a) /\ a.generation = driver.generation /\ a.lease = driver.lease /\ ~a.gate
      BY DEF DriverShape
<1> DEFINE b == [a EXCEPT !.lease = FALSE]
<1>2. DriverShape(b) /\ b.generation = driver.generation /\ ~b.lease /\ ~b.gate
      <2> HIDE DEF a
      <2> QED  BY <1>1 DEF DriverShape
<1>3. [driver EXCEPT !.lease = FALSE, !.gate = FALSE] =
        [driver EXCEPT !.gate = FALSE, !.lease = FALSE]
      BY DEF DriverShape
<1>4. QED  BY <1>1, <1>2, <1>3

LEMMA RenewalFailing == ASSUME BridgeInv, RenewalFails PROVE BridgeInv'
<1>1. /\ renewal = "locked" /\ renewal' = "ended" /\ MayStill("faults") /\ Spend("faults")
      /\ driver' = [driver EXCEPT !.lease = FALSE, !.gate = FALSE] /\ request' = Purged
      /\ UNCHANGED <<workers, tables, past>> /\ UNCHANGED <<owner, window, flags, open>>
      BY DEF RenewalFails
<1>2. /\ DriverShape(driver') /\ driver'.generation = driver.generation
      /\ ~driver'.lease /\ ~driver'.gate
      BY <1>1, ControlStarting, DriverCloses
<1>3. /\ RequestShape(request') /\ (request'.state = "filled" => request' = request)
      /\ (request'.state # "purged" => request' = request)
      BY <1>1, ControlStarting, RequestPurged
<1>4. BudgetShape(budget') /\ budget'.flows = budget.flows
      BY <1>1, ControlStarting, BudgetSpent DEF SpentOn
<1>5. WindowFollows' /\ driver'.generation >= driver.generation
      BY <1>1, <1>2, ControlStarting DEF WindowFollows
<1>6. UNCHANGED <<receiver, captured, bridge>> /\ Closed'
      BY <1>1, <1>2 DEF workers, Closed
<1>7. LifeInv'
      BY <1>1, <1>2, <1>3, <1>6, ControlStarting, LifeClosing
<1>8. renewal' \in RenewalPlaces
      BY <1>1 DEF RenewalPlaces
<1>9. request'.state = "filled" => Captured(request'.batch)
      BY <1>3, ControlStarting
<1>10. QED  BY <1>1, <1>2, <1>3, <1>4, <1>5, <1>6, <1>7, <1>8, <1>9, ControlStarting, ControlFrame

LEMMA OwnerRevoking == ASSUME BridgeInv, OwnerRevokes PROVE BridgeInv'
<1>1. /\ owner = "prepared" /\ owner' = "revoking" /\ request' = Purged
      /\ UNCHANGED <<workers, tables, past>> /\ UNCHANGED <<window, flags, open, budget>>
      BY DEF OwnerRevokes, surrounding
<1>2. /\ DriverShape(driver') /\ driver'.generation = driver.generation /\ ~driver'.gate
      BY ControlStarting, DriverCloses DEF OwnerRevokes
<1>3. /\ RequestShape(request') /\ (request'.state = "filled" => request' = request)
      /\ (request'.state # "purged" => request' = request)
      BY <1>1, ControlStarting, RequestPurged
<1>4. renewal' \in RenewalPlaces /\ (renewal' = "committed" <=> renewal = "committed")
      BY ControlStarting DEF OwnerRevokes, RenewalPlaces
<1>5. WindowFollows' /\ driver'.generation >= driver.generation
      BY <1>1, <1>2, <1>4, ControlStarting DEF WindowFollows
<1>6. UNCHANGED <<receiver, captured, bridge>> /\ Closed'
      BY <1>1 DEF workers, Closed
<1>7. LifeInv'
      BY <1>1, <1>2, <1>3, <1>6, ControlStarting, LifeClosing
<1>8. request'.state = "filled" => Captured(request'.batch)
      BY <1>3, ControlStarting
<1>9. owner' \in OwnerPlaces
      BY <1>1 DEF OwnerPlaces
<1>10. QED  BY <1>1, <1>2, <1>3, <1>4, <1>5, <1>6, <1>7, <1>8, <1>9, ControlStarting, ControlFrame

LEMMA FlagsStopping ==
  ASSUME FlagsShape(flags)
  PROVE  /\ FlagsShape(Stopping) /\ Stopping.shutdown
         /\ FlagsShape([flags EXCEPT !.revoking = TRUE])
         /\ [flags EXCEPT !.revoking = TRUE].shutdown = flags.shutdown
         /\ [flags EXCEPT !.revoking = TRUE].cancelled = flags.cancelled
<1> DEFINE a == [flags EXCEPT !.revoking = TRUE]
           b == [a EXCEPT !.shutdown = TRUE]
<1>1. FlagsShape(a) /\ a.shutdown = flags.shutdown /\ a.cancelled = flags.cancelled
      BY DEF FlagsShape
<1>2. FlagsShape(b) /\ b.shutdown
      <2> HIDE DEF a
      <2> QED  BY <1>1 DEF FlagsShape
<1>3. Stopping = [b EXCEPT !.cancelled = TRUE]
      BY DEF Stopping
<1>4. FlagsShape(Stopping) /\ Stopping.shutdown
      <2> HIDE DEF b
      <2> QED  BY <1>2, <1>3 DEF FlagsShape
<1>5. QED  BY <1>1, <1>4

\* The owner's steps that the driver does not notice, and the end of the gate.
LEMMA OwnerGoing ==
  ASSUME BridgeInv, OwnerPrepares \/ OwnerStops \/ OwnerJoins
  PROVE  BridgeInv'
<1>1. /\ owner \notin {"arming", "stopped"} /\ owner' \in {"prepared", "joining", "stopped"}
      /\ (owner' # "prepared" => owner \in {"revoking", "joining"})
      /\ (owner' = "prepared" => owner = "running")
      /\ UNCHANGED <<workers, tables, past>> /\ UNCHANGED <<renewal, window, driver, request, open>>
      BY DEF OwnerPrepares, OwnerStops, OwnerJoins, surrounding
<1>2. BudgetShape(budget') /\ budget'.flows = budget.flows
      BY ControlStarting, BudgetSpent DEF SpentOn, OwnerPrepares, OwnerStops, OwnerJoins, surrounding
<1>3. /\ FlagsShape(flags') /\ (flags.shutdown => flags'.shutdown)
      /\ (flags'.cancelled => flags.cancelled \/ flags'.shutdown)
      BY ControlStarting, FlagsStopping DEF OwnerPrepares, OwnerStops, OwnerJoins
<1>4. WindowFollows'
      BY <1>1, ControlStarting DEF WindowFollows
<1>5. UNCHANGED <<receiver, captured, bridge>> /\ Closed' = Closed
      BY <1>1 DEF workers, Closed
<1>6. LifeInv'
      BY <1>1, <1>3, <1>5, ControlStarting, LifeClosing DEF LifeInv
<1>7. owner' \in OwnerPlaces
      BY <1>1 DEF OwnerPlaces
<1>8. QED  BY <1>1, <1>2, <1>3, <1>4, <1>5, <1>6, <1>7, ControlStarting, ControlFrame

LEMMA GateOpening == ASSUME BridgeInv, GateOpens PROVE BridgeInv'
<1>1. /\ owner = "running" /\ driver.lease /\ driver' = [driver EXCEPT !.gate = TRUE]
      /\ UNCHANGED <<workers, tables, past>>
      /\ UNCHANGED <<owner, renewal, window, request, flags, open, budget>>
      BY DEF GateOpens, surrounding, control
<1>2. /\ DriverShape(driver') /\ driver'.generation = driver.generation /\ driver'.gate
      /\ driver'.lease
      BY <1>1, ControlStarting DEF DriverShape
<1>3. WindowFollows' /\ driver'.generation >= driver.generation
      BY <1>1, <1>2, ControlStarting DEF WindowFollows
<1>4. UNCHANGED <<receiver, captured, bridge>> /\ ~Closed /\ ~Closed'
      BY <1>1, <1>2 DEF workers, Closed
<1>5. LifeInv'
      BY <1>1, <1>2, <1>4, ControlStarting DEF LifeInv, Working
<1>6. QED  BY <1>1, <1>2, <1>3, <1>4, <1>5, ControlStarting, ControlFrame

LEMMA Capturing == ASSUME BridgeInv, NEW f \in Flows, Capture(f) PROVE BridgeInv'
<1>1. /\ driver.gate /\ f \in open /\ MayStill("captures") /\ Spend("captures")
      /\ request' = [state |-> "filled", batch |-> Batch(driver.generation, f)]
      /\ UNCHANGED <<workers, tables, past>>
      /\ UNCHANGED <<owner, renewal, window, driver, flags, open>>
      BY DEF Capture, control
<1>2. BudgetShape(budget') /\ budget'.flows = budget.flows
      BY <1>1, ControlStarting, BudgetSpent DEF SpentOn
<1>3. driver.generation \in Nat \ {0}
      BY ControlStarting DEF DriverShape
<1>4. /\ Batch(driver.generation, f) \in BatchRecords
      /\ Batch(driver.generation, f).generation = driver.generation
      /\ Batch(driver.generation, f).flow = f
      BY <1>3 DEF Batch, BatchRecords
<1>5. RequestShape(request') /\ request'.state = "filled"
      BY <1>1, <1>4 DEF RequestShape
<1>6. Captured(request'.batch)
  <2>1. open \subseteq budget.flows
        BY DEF BridgeInv, BatchesInv
  <2>2. driver.generation \in 1..driver.generation
        BY <1>3
  <2>3. QED  BY <1>1, <1>4, <2>1, <2>2 DEF Captured
<1>7. WindowFollows'
      BY <1>1, ControlStarting DEF WindowFollows
<1>8. UNCHANGED <<receiver, captured, bridge>> /\ Closed' = Closed
      BY <1>1 DEF workers, Closed
<1>9. LifeInv'
      BY <1>1, <1>5, <1>8, ControlStarting DEF LifeInv, Working
<1>10. QED  BY <1>1, <1>2, <1>5, <1>6, <1>7, <1>8, <1>9, ControlStarting, ControlFrame

LEMMA Completing == ASSUME BridgeInv, InjectionCompletes PROVE BridgeInv'
<1>1. /\ driver.inFlight > 0 /\ UNCHANGED <<workers, tables, past>>
      /\ UNCHANGED <<owner, renewal, window, request, flags, open>>
      BY DEF InjectionCompletes, control
<1>2. driver.inFlight \in Nat /\ driver.inFlight - 1 \in Nat
      BY <1>1, ControlStarting DEF DriverShape
<1> DEFINE a == [driver EXCEPT !.inFlight = driver.inFlight - 1]
<1>3. /\ DriverShape(a) /\ a.generation = driver.generation /\ a.lease = driver.lease
      /\ a.gate = driver.gate
      BY <1>2, ControlStarting DEF DriverShape
<1>4. driver' = a \/ driver' = [a EXCEPT !.failed = TRUE]
      BY DEF InjectionCompletes
<1>5. /\ DriverShape(driver') /\ driver'.generation = driver.generation
      /\ driver'.lease = driver.lease /\ driver'.gate = driver.gate
      <2> HIDE DEF a
      <2> QED  BY <1>3, <1>4 DEF DriverShape
<1>6. BudgetShape(budget') /\ budget'.flows = budget.flows
      BY ControlStarting, BudgetSpent DEF SpentOn, InjectionCompletes
<1>7. WindowFollows' /\ driver'.generation >= driver.generation
      BY <1>1, <1>5, ControlStarting DEF WindowFollows
<1>8. UNCHANGED <<receiver, captured, bridge>> /\ Closed' = Closed
      BY <1>1, <1>5 DEF workers, Closed
<1>9. LifeInv'
      BY <1>1, <1>5, <1>8, ControlStarting DEF LifeInv, AnyCapture, Working
<1>10. QED  BY <1>1, <1>5, <1>6, <1>7, <1>8, <1>9, ControlStarting, ControlFrame

LEMMA FlowClosing == ASSUME BridgeInv, NEW f \in Flows, FlowCloses(f) PROVE BridgeInv'
<1>1. /\ open' = open \ {f} /\ MayStill("closes") /\ Spend("closes")
      /\ UNCHANGED <<workers, tables, past>>
      /\ UNCHANGED <<owner, renewal, window, driver, request, flags>>
      BY DEF FlowCloses, control
<1>2. BudgetShape(budget') /\ budget'.flows = budget.flows
      BY <1>1, ControlStarting, BudgetSpent DEF SpentOn
<1>3. WindowFollows'
      BY <1>1, ControlStarting DEF WindowFollows
<1>4. UNCHANGED <<receiver, captured, bridge>> /\ Closed' = Closed
      BY <1>1 DEF workers, Closed
<1>5. LifeInv'
      BY <1>1, <1>4, ControlStarting DEF LifeInv, AnyCapture, Working
<1>6. open' \subseteq open
      BY <1>1
<1>7. QED  BY <1>1, <1>2, <1>3, <1>4, <1>5, <1>6, ControlStarting, ControlFrame

\* The bridge is spawned, or never was.
LEMMA OwnerArming == ASSUME BridgeInv, OwnerSpawnsBridge \/ OwnerGivesUp PROVE BridgeInv'
<1>1. /\ owner = "arming"
      /\ UNCHANGED <<renewal, window, driver, request, receiver, free, captured, tables, open, past,
                     budget>>
      BY DEF OwnerSpawnsBridge, OwnerGivesUp, surrounding
<1>2. bridge.pc = "absent"
      BY <1>1 DEF BridgeInv, PhaseInv
<1>3. PICK pc \in {"top", "done"} :
        /\ bridge' = [bridge EXCEPT !.pc = pc]
        /\ pc = "top" => owner' = "running" /\ flags' = flags
        /\ pc = "done" => owner' = "joining" /\ flags' = Stopping
      BY DEF OwnerSpawnsBridge, OwnerGivesUp
<1>4. /\ BridgeShape(bridge') /\ bridge'.pc = pc /\ bridge'.records = <<>>
      /\ bridge'.space = Space
      BY <1>2, <1>3, BridgeStarting, BridgeGoes DEF BridgePlaces, Returned
<1>5. /\ FlagsShape(flags') /\ (flags.shutdown => flags'.shutdown)
      /\ (flags'.cancelled => flags.cancelled \/ flags'.shutdown)
      BY <1>3, ControlStarting, FlagsStopping
<1>6. owner' \in OwnerPlaces /\ owner' # "arming"
      BY <1>3 DEF OwnerPlaces
<1>7. Closed => Closed'
      BY <1>1 DEF Closed
<1>8. AnyCapture' = AnyCapture /\ ~driver.gate
      BY <1>1, ControlStarting DEF AnyCapture, LifeInv
<1>9. LifeInv'
      BY <1>1, <1>2, <1>4, <1>5, <1>6, <1>7, <1>8, ControlStarting DEF LifeInv, Working, Returned
<1>10. bridge'.pc \notin {"absent", "send", "poll", "receive", "ending", "failed"}
      BY <1>4
<1>11. QED  BY <1>1, <1>2, <1>4, <1>5, <1>6, <1>9, <1>10, BridgeStarting, BridgeFrame
            DEF ReasonInv, Returned

LEMMA ControlKeeps ==
  ASSUME BridgeInv,
         \/ RenewalLocks \/ RenewalCommits \/ RenewalPublishes \/ RenewalFails
         \/ OwnerStep \/ OwnerGivesUp \/ GateOpens \/ OwnerPrepares
         \/ \E f \in Flows : Capture(f) \/ FlowCloses(f)
         \/ InjectionCompletes
  PROVE  BridgeInv'
BY RenewalLocking, RenewalCommitting, RenewalPublishing, RenewalFailing, OwnerRevoking, OwnerGoing,
   OwnerArming, GateOpening, Capturing, FlowClosing, Completing DEF OwnerStep

-----------------------------------------------------------------------------
(* The tables: replies of the Core, and time.                              *)

LEMMA TablesFrame ==
  ASSUME BridgeInv, UNCHANGED <<control, driver, request, flags, workers, open>>,
         FlowsShape(associations'), IdsShape(transport'), IdsShape(core'), InboundShape(inbound'),
         BudgetShape(budget'), budget'.flows = budget.flows,
         PastShape(past'), past'.origin = past.origin, past.silent => past'.silent,
         TablesInv', CountsInv', QuietInv'
  PROVE  BridgeInv'
<1>1. UNCHANGED <<owner, renewal, window, receiver, free, captured, bridge>>
      BY DEF control, workers
<1>2. Shape'
      BY <1>1 DEF BridgeInv, Shape
<1>3. PhaseInv' /\ SpaceInv'
      BY <1>1, PhaseKept DEF BridgeInv
<1>4. BuffersInv'
      BY <1>1 DEF BridgeInv, BuffersInv, BuffersConserved, ReceiverHolds, BridgeHolds
<1>5. BatchesInv'
      BY <1>1 DEF BridgeInv, BatchesInv, WindowFollows, Captured
<1>6. LifeInv'
      BY <1>1 DEF BridgeInv, LifeInv, AnyCapture, Closed, Working
<1>7. ReasonInv'
  <2>1. open \subseteq budget.flows /\ DriverShape(driver)
        BY DEF BridgeInv, BatchesInv, Shape
  <2>2. driver.generation >= driver.generation /\ Closed' = Closed
        BY <1>1, <2>1 DEF DriverShape, Closed
  <2>3. QED  BY <1>1, <2>1, <2>2, ReasonKept DEF BridgeInv
<1>8. QED  BY <1>2, <1>3, <1>4, <1>5, <1>6, <1>7 DEF BridgeInv

LEMMA TablesStarting ==
  ASSUME BridgeInv
  PROVE  /\ associations \in [Flows -> Entries] /\ transport \in [Ids -> Entries]
         /\ core \in [Ids -> Entries] /\ inbound \subseteq Frames /\ PastShape(past)
         /\ past.origin \in [Ids -> Flows \union {None}] /\ TablesInv /\ CountsInv /\ QuietInv
         /\ BudgetShape(budget) /\ 0 \notin Ids /\ None \notin Flows
BY SizesAssumption DEF BridgeInv, Shape, FlowsShape, IdsShape, InboundShape, PastShape

\* A reply is numbered after all that the Broker has seen.
LEMMA CoreReplying == ASSUME BridgeInv, NEW id \in Ids, CoreReplies(id) PROVE BridgeInv'
<1>1. /\ id \in Held(core)
      /\ core' = [core EXCEPT ![id].next = core[id].next + 1, ![id].age = 0]
      /\ UNCHANGED <<control, driver, request, flags, workers, associations, transport, open, past>>
      BY DEF CoreReplies
<1>2. core[id] \in Entries /\ core[id].id # 0 /\ core[id].next \in Nat
      BY <1>1, TablesStarting, HeldIn DEF Entries
<1>3. /\ core' \in [Ids -> Entries]
      /\ core'[id].id = core[id].id /\ core'[id].seen = core[id].seen
      /\ core'[id].next = core[id].next + 1 /\ core'[id].age = 0
      /\ \A i \in Ids \ {id} : core'[i] = core[i]
  <2> DEFINE a == [core[id] EXCEPT !.next = core[id].next + 1]
             b == [a EXCEPT !.age = 0]
  <2>1. /\ a \in Entries /\ a.id = core[id].id /\ a.seen = core[id].seen
        /\ a.next = core[id].next + 1
        BY <1>2 DEF Entries
  <2>2. /\ b \in Entries /\ b.id = core[id].id /\ b.seen = core[id].seen
        /\ b.next = core[id].next + 1 /\ b.age = 0
        <3> HIDE DEF a
        <3> QED  BY <2>1 DEF Entries
  <2>3. core' = [core EXCEPT ![id] = b]
        BY <1>1, TablesStarting
  <2> HIDE DEF b
  <2>4. QED  BY <2>2, <2>3, TablesStarting
<1>4. /\ BudgetShape(budget') /\ budget'.flows = budget.flows
      /\ \/ inbound' = inbound
         \/ \E size \in Sizes :
              inbound' = inbound \union {[id |-> id, sequence |-> core[id].next + 1, size |-> size]}
      BY TablesStarting, BudgetSpent DEF CoreReplies, SpentOn
<1>5. PICK size :
        \/ inbound' = inbound
        \/ /\ size \in Sizes
           /\ inbound' = inbound \union {[id |-> id, sequence |-> core[id].next + 1, size |-> size]}
      BY <1>4
<1> DEFINE new == [id |-> id, sequence |-> core[id].next + 1, size |-> size]
<1>6. /\ inbound' \subseteq Frames /\ new.id = id /\ new.sequence = core[id].next + 1
      /\ \A frame \in inbound' : frame \in inbound \/ frame = new
  <2>1. size \in Sizes => new \in Frames
        BY <1>2 DEF Frames
  <2>2. QED  BY <1>5, <2>1, TablesStarting
<1> HIDE DEF new
<1>7. \A i \in Ids : core'[i].id = core[i].id /\ core'[i].seen = core[i].seen
      BY <1>3
<1>8. TablesInv'
  <2>1. UNCHANGED bridge
        BY <1>1 DEF workers
  <2>2. TablesInv
        BY TablesStarting
  <2>3. Working => Origins'
        BY <1>1, <1>7, <2>2 DEF TablesInv, Origins
  <2>4. Working => TransportFollows'
    <3> SUFFICES ASSUME Working, NEW f \in Flows, associations[f].id # 0,
                        past.idle[associations[f].id] < Idle
                 PROVE  LET i == associations[f].id
                        IN IF transport[i].id = 0
                           THEN core'[i].seen = {}
                           ELSE /\ transport[i].age <= past.idle[i]
                                /\ \A s \in core'[i].seen : s < transport[i].next
        BY <1>1 DEF TransportFollows
    <3>1. associations[f].id \in Ids
          BY TablesStarting DEF Entries
    <3>2. QED  BY <1>7, <2>2, <3>1 DEF TablesInv, TransportFollows
  <2>5. QED  BY <1>1, <2>1, <2>2, <2>3, <2>4 DEF TablesInv, Working, SendingKnown, RepliesMatch,
             OnlyIdleFlowsRepeat
<1>9. CountsInv'
  <2>1. Held(core') = Held(core)
        BY <1>3, <1>7, TablesStarting DEF Held
  <2>2. QED  BY <1>1, <2>1, TablesStarting DEF CountsInv, Given
<1>10. QuietInv'
  <2> SUFFICES ASSUME Working, ~past.silent
               PROVE  Remembered' /\ Unseen' /\ SeenFromCore'
      BY <1>1 DEF QuietInv, Working, workers
  <2>1. Remembered /\ Unseen /\ SeenFromCore /\ Origins
        BY TablesStarting DEF QuietInv, TablesInv
  <2>2. Remembered'
        BY <1>1, <1>3, <2>1 DEF Remembered, Known, Idle
  <2>3. ASSUME NEW i \in Ids PROVE core[i].next \in Nat /\ core'[i].next \in Nat
        BY <1>3, TablesStarting DEF Entries
  <2>4. ASSUME NEW i \in Ids, NEW s \in Nat, s <= core[i].next PROVE s <= core'[i].next
        BY <1>2, <1>3, <2>3, <2>4
  <2>5. SeenFromCore'
    <3>1. \A i \in Ids : transport[i].seen \subseteq Nat
          BY TablesStarting DEF Entries
    <3>2. \A f \in Flows : associations[f].seen \subseteq Nat /\ associations[f].id \in Ids \union {0}
          BY TablesStarting DEF Entries
    <3>3. \A i \in Ids : \A s \in transport[i].seen : core'[i].id # 0 /\ s <= core'[i].next
          BY <1>7, <2>1, <2>4, <3>1 DEF SeenFromCore
    <3>4. \A f \in Flows : associations[f].id # 0 =>
            \A s \in associations[f].seen :
              core'[associations[f].id].id # 0 /\ s <= core'[associations[f].id].next
          BY <1>7, <2>1, <2>4, <3>2 DEF SeenFromCore
    <3>5. QED  BY <1>1, <3>3, <3>4 DEF SeenFromCore
  <2>6. ASSUME NEW frame \in inbound'
        PROVE  /\ core'[frame.id].id # 0 /\ frame.sequence <= core'[frame.id].next
               /\ frame.sequence \notin transport[frame.id].seen
               /\ frame.sequence \notin associations[past.origin[frame.id]].seen
    <3>1. CASE frame \in inbound
      <4>1. frame.id \in Ids /\ frame.sequence \in Nat
            BY <3>1, TablesStarting DEF Frames
      <4>2. QED  BY <1>7, <2>1, <2>4, <3>1, <4>1 DEF Unseen
    <3>2. CASE frame = new
      <4>1. /\ past.origin[id] # None /\ past.origin[id] \in Flows
            /\ associations[past.origin[id]].id = id
            BY <1>2, <2>1, TablesStarting DEF Origins, Remembered, Known
      <4>2. \A s \in transport[id].seen : s <= core[id].next
            BY <2>1 DEF SeenFromCore
      <4>3. \A s \in associations[past.origin[id]].seen : s <= core[id].next
            BY <2>1, <4>1, TablesStarting DEF SeenFromCore
      <4>4. ~(core[id].next + 1 <= core[id].next) /\ core[id].next + 1 <= core'[id].next
            BY <1>2, <1>3
      <4>5. QED  BY <1>2, <1>3, <1>6, <3>2, <4>2, <4>3, <4>4
    <3>3. QED  BY <1>6, <3>1, <3>2
  <2>7. ASSUME NEW one \in inbound', NEW two \in inbound', one.id = two.id,
               one.sequence = two.sequence
        PROVE  one = two
    <3>1. \A frame \in inbound : frame.id = id => frame.sequence <= core[id].next
          BY <2>1 DEF Unseen
    <3>2. \A frame \in inbound : frame.id = new.id => frame.sequence # new.sequence
          BY <1>2, <1>6, <3>1
    <3>3. QED  BY <1>6, <2>1, <2>7, <3>2 DEF Unseen
  <2>8. Unseen'
        BY <1>1, <2>6, <2>7 DEF Unseen
  <2>9. QED  BY <2>2, <2>5, <2>8
<1>11. QED  BY <1>1, <1>3, <1>4, <1>6, <1>8, <1>9, <1>10, TablesStarting, TablesFrame
            DEF FlowsShape, IdsShape, InboundShape

\* The three tables grow older together.
LEMMA Ticking == ASSUME BridgeInv, Tick PROVE BridgeInv'
<1>1. /\ associations' = Older(associations) /\ transport' = Older(transport)
      /\ core' = Older(core) /\ MayStill("ticks") /\ Spend("ticks")
      /\ UNCHANGED <<control, driver, request, flags, workers, inbound, open>>
      BY DEF Tick
<1> DEFINE silent == \/ past.silent \/ Expired(associations') # {} \/ Expired(transport') # {}
                     \/ Expired(core') # {}
           idle   == [i \in Ids |-> IF past.origin[i] # None /\ past.idle[i] < Idle
                                    THEN past.idle[i] + 1 ELSE past.idle[i]]
<1>2. /\ PastShape(past') /\ past'.origin = past.origin /\ past'.refused = past.refused
      /\ past'.silent = silent
      /\ \A i \in Ids : past'.idle[i] = IF past.origin[i] # None /\ past.idle[i] < Idle
                                        THEN past.idle[i] + 1 ELSE past.idle[i]
  <2>1. silent \in BOOLEAN
        BY TablesStarting DEF PastShape
  <2>2. idle \in [Ids -> 0..Idle]
    <3>1. ASSUME NEW i \in Ids PROVE idle[i] \in 0..Idle
      <4>1. past.idle[i] \in 0..Idle
            BY TablesStarting DEF PastShape
      <4>2. QED  BY <4>1 DEF Idle
    <3>2. QED  BY <3>1
  <2>3. past' = [[past EXCEPT !.silent = silent] EXCEPT !.idle = idle]
        BY DEF Tick
  <2>4. \A i \in Ids : idle[i] = IF past.origin[i] # None /\ past.idle[i] < Idle
                                 THEN past.idle[i] + 1 ELSE past.idle[i]
        OBVIOUS
  <2> HIDE DEF silent, idle
  <2>5. QED  BY <2>1, <2>2, <2>3, <2>4, TablesStarting DEF PastShape
<1>3. /\ associations' \in [Flows -> Entries] /\ Held(associations') = Held(associations)
      /\ \A f \in Flows :
           /\ associations'[f].id = associations[f].id
           /\ associations'[f].seen = associations[f].seen
      BY <1>1, TablesStarting, OlderTable
<1>4. /\ transport' \in [Ids -> Entries] /\ Held(transport') = Held(transport)
      /\ \A i \in Ids :
           /\ transport'[i].id = transport[i].id /\ transport'[i].next = transport[i].next
           /\ transport'[i].seen = transport[i].seen
           /\ transport'[i].age \in {transport[i].age, transport[i].age + 1}
      BY <1>1, TablesStarting, OlderTable
<1>5. /\ core' \in [Ids -> Entries] /\ Held(core') = Held(core)
      /\ \A i \in Ids :
           /\ core'[i].id = core[i].id /\ core'[i].next = core[i].next
           /\ core'[i].seen = core[i].seen
      BY <1>1, TablesStarting, OlderTable
<1>6. bridge' = bridge /\ TablesInv /\ Working' = Working
      BY <1>1, TablesStarting DEF workers, Working
<1>7. TablesInv'
  <2>1. Working => Origins'
        BY <1>2, <1>3, <1>4, <1>5, <1>6, TablesStarting DEF TablesInv, Origins
  <2>2. Working => TransportFollows'
    <3> SUFFICES ASSUME Working, NEW f \in Flows, associations'[f].id # 0,
                        past'.idle[associations'[f].id] < Idle
                 PROVE  LET i == associations'[f].id
                        IN IF transport'[i].id = 0
                           THEN core'[i].seen = {}
                           ELSE /\ transport'[i].age <= past'.idle[i]
                                /\ \A s \in core'[i].seen : s < transport'[i].next
        BY DEF TransportFollows
    <3>1. PICK i : i = associations[f].id
          OBVIOUS
    <3>2. i # 0 /\ i \in Ids /\ associations'[f].id = i
          BY <1>3, <3>1, TablesStarting DEF Entries
    <3>3. past.origin[i] # None
          BY <1>6, <3>1, <3>2, TablesStarting DEF TablesInv, Origins
    <3>4. PICK n \in Nat : past.idle[i] = n
          BY <3>2, TablesStarting DEF PastShape
    <3>5. n < Idle /\ past'.idle[i] = n + 1
          BY <1>2, <3>2, <3>3, <3>4 DEF Idle
    <3>6. IF transport[i].id = 0
          THEN core[i].seen = {}
          ELSE /\ transport[i].age <= n
               /\ \A s \in core[i].seen : s < transport[i].next
          BY <1>6, <3>1, <3>2, <3>4, <3>5 DEF TablesInv, TransportFollows
    <3>7. CASE transport[i].id = 0
          BY <1>4, <1>5, <3>2, <3>6, <3>7
    <3>8. CASE transport[i].id # 0
      <4>1. PICK a \in Nat : transport[i].age = a
            BY <3>2, TablesStarting DEF Entries
      <4>2. transport'[i].age <= n + 1
            BY <1>4, <3>2, <3>6, <3>8, <4>1
      <4>3. \A s \in core'[i].seen : s < transport'[i].next
            BY <1>4, <1>5, <3>2, <3>6, <3>8
      <4>4. QED  BY <1>4, <3>2, <3>5, <3>8, <4>2, <4>3
    <3>9. QED  BY <3>7, <3>8
  <2>3. Working => SendingKnown'
        BY <1>3, <1>6 DEF TablesInv, SendingKnown
  <2>4. RepliesMatch'
    <3>1. bridge.records \in Seq(ReplyRecords)
          BY BridgeStarting DEF BridgeShape
    <3>2. ASSUME NEW n \in 1..Len(bridge.records) PROVE bridge.records[n].flow \in Flows
      <4>1. bridge.records[n] \in ReplyRecords
            BY <3>1
      <4>2. QED  BY <4>1 DEF ReplyRecords
    <3>3. QED  BY <1>2, <1>3, <1>6, <3>2 DEF TablesInv, RepliesMatch
  <2>5. OnlyIdleFlowsRepeat'
    <3>1. past.refused \subseteq Ids /\ ~(Idle < Idle)
          BY TablesStarting DEF PastShape, Idle
    <3>2. QED  BY <1>2, <1>6, <3>1 DEF TablesInv, OnlyIdleFlowsRepeat
  <2>6. QED  BY <1>6, <2>1, <2>2, <2>3, <2>4, <2>5 DEF TablesInv
<1>8. CountsInv'
      BY <1>2, <1>3, <1>4, <1>5, TablesStarting DEF CountsInv, Given
<1>9. QuietInv'
  <2> SUFFICES ASSUME Working, ~past'.silent PROVE Remembered' /\ Unseen' /\ SeenFromCore'
      BY <1>6 DEF QuietInv
  <2>1. /\ ~past.silent /\ Expired(associations') = {} /\ Expired(transport') = {}
        /\ Expired(core') = {}
        BY <1>2
  <2>2. Remembered /\ SeenFromCore /\ Unseen
        BY <2>1, TablesStarting DEF QuietInv
  <2>3. ASSUME NEW f \in Flows, associations'[f].id # 0 PROVE associations'[f].age < Idle
    <3>1. ~(associations'[f].age >= Idle)
          BY <1>3, <2>1, <2>3, HeldIn
    <3>2. PICK n \in Nat : associations'[f].age = n
          BY <1>3 DEF Entries
    <3>3. QED  BY <3>1, <3>2 DEF Idle
  <2>4. ASSUME NEW i \in Ids, core'[i].id # 0 PROVE core'[i].age < Idle
    <3>1. ~(core'[i].age >= Idle)
          BY <1>5, <2>1, <2>4, HeldIn
    <3>2. PICK n \in Nat : core'[i].age = n
          BY <1>5 DEF Entries
    <3>3. QED  BY <3>1, <3>2 DEF Idle
  <2>5. ASSUME NEW i \in Ids, transport'[i].id # 0 PROVE transport'[i].age < Idle
    <3>1. ~(transport'[i].age >= Idle)
          BY <1>4, <2>1, <2>5, HeldIn
    <3>2. PICK n \in Nat : transport'[i].age = n
          BY <1>4 DEF Entries
    <3>3. QED  BY <3>1, <3>2 DEF Idle
  <2>6. ASSUME NEW i \in Ids, past'.origin[i] # None PROVE Known(i)'
        BY <1>2, <1>3, <2>2, <2>6, TablesStarting DEF Remembered, Known
  <2>7. \A i \in Ids : core'[i].id # 0 => transport'[i].id # 0
        BY <1>4, <1>5, <2>2 DEF Remembered
  <2>8. Remembered'
        BY <2>3, <2>4, <2>5, <2>6, <2>7 DEF Remembered
  <2>9. Unseen'
    <3>1. ASSUME NEW frame \in inbound
          PROVE  frame.id \in Ids /\ past.origin[frame.id] \in Flows
      <4>1. frame.id \in Ids /\ core[frame.id].id # 0
            BY <2>2, TablesStarting DEF Unseen, Frames
      <4>2. QED  BY <1>6, <4>1, TablesStarting DEF TablesInv, Origins
    <3>2. QED  BY <1>1, <1>2, <1>3, <1>4, <1>5, <2>2, <3>1 DEF Unseen
  <2>10. SeenFromCore'
    <3>1. \A f \in Flows : associations[f].id \in Ids \union {0}
          BY TablesStarting DEF Entries
    <3>2. QED  BY <1>3, <1>4, <1>5, <2>2, <3>1 DEF SeenFromCore
  <2>11. QED  BY <2>8, <2>9, <2>10
<1>10. BudgetShape(budget') /\ budget'.flows = budget.flows
      BY <1>1, TablesStarting, BudgetSpent DEF SpentOn
<1>11. past.silent => past'.silent
      BY <1>2
<1> HIDE DEF silent, idle
<1>12. InboundShape(inbound')
      BY <1>1, TablesStarting DEF InboundShape
<1>13. QED  BY <1>1, <1>2, <1>3, <1>4, <1>5, <1>7, <1>8, <1>9, <1>10, <1>11, <1>12, TablesFrame
            DEF FlowsShape, IdsShape

-----------------------------------------------------------------------------
(* The end of a turn: what is too old is forgotten on both sides.          *)


\* The transport forgets only what was idle: the bridge still knows what it needs.
LEMMA TransportThins ==
  ASSUME BridgeInv, Thinned(Ids, transport, transport'),
         UNCHANGED <<associations, core, inbound, past>>,
         bridge.pc \in Returned => bridge'.pc \in Returned, bridge'.pc # "send",
         bridge'.records = bridge.records
  PROVE  TablesInv' /\ CountsInv' /\ QuietInv'
<1>1. TablesInv /\ (Working' => Working)
      BY TablesStarting DEF Working
<1>2. Absent.id = 0 /\ Absent.seen = {}
      BY DEF Absent
<1>3. Working => Origins'
      BY <1>1, <1>2 DEF TablesInv, Origins, Thinned
<1>4. Working => TransportFollows'
  <2> SUFFICES ASSUME Working, NEW f \in Flows, associations[f].id # 0,
                      past.idle[associations[f].id] < Idle
               PROVE  LET i == associations[f].id
                      IN IF transport'[i].id = 0
                         THEN core[i].seen = {}
                         ELSE /\ transport'[i].age <= past.idle[i]
                              /\ \A s \in core[i].seen : s < transport'[i].next
      BY DEF TransportFollows
  <2>1. PICK i : i = associations[f].id
        OBVIOUS
  <2>2. i \in Ids /\ i # 0
        BY <2>1, TablesStarting DEF Entries
  <2>3. IF transport[i].id = 0
        THEN core[i].seen = {}
        ELSE /\ transport[i].age <= past.idle[i]
             /\ \A s \in core[i].seen : s < transport[i].next
        BY <1>1, <2>1, <2>2 DEF TablesInv, TransportFollows
  <2>4. transport[i].id # 0 => transport[i].age < Idle
        BY <2>1, <2>2, <2>3, TablesStarting DEF Idle, PastShape, Entries
  <2>5. transport'[i] = transport[i]
        BY <2>2, <2>4 DEF Thinned
  <2>6. QED  BY <2>1, <2>3, <2>5
<1>5. TablesInv'
      BY <1>1, <1>3, <1>4 DEF TablesInv, SendingKnown, RepliesMatch, OnlyIdleFlowsRepeat
<1>6. CountsInv'
      BY TablesStarting, BoundedSubset DEF CountsInv, Given, Thinned
<1>7. QuietInv'
  <2> SUFFICES ASSUME Working, ~past.silent PROVE Remembered' /\ Unseen' /\ SeenFromCore'
      BY <1>1 DEF QuietInv
  <2>1. Remembered /\ Unseen /\ SeenFromCore
        BY TablesStarting DEF QuietInv
  <2>2. transport' = transport
    <3>1. \A i \in Ids : transport'[i] = transport[i]
          BY <2>1 DEF Thinned, Remembered
    <3>2. QED  BY <3>1, TablesStarting DEF Thinned
  <2>3. QED  BY <2>1, <2>2 DEF Remembered, Known, Unseen, SeenFromCore
<1>8. QED  BY <1>5, <1>6, <1>7

LEMMA Sweeping ==
  ASSUME BridgeInv, Working, SweepExpired, UNCHANGED <<core, inbound, past>>,
         bridge'.pc = "top", bridge'.records = <<>>
  PROVE  /\ FlowsShape(associations') /\ IdsShape(transport')
         /\ TablesInv' /\ CountsInv' /\ QuietInv'
<1>1. /\ TablesInv /\ Origins /\ TransportFollows
      BY TablesStarting DEF TablesInv
<1> DEFINE gone == {associations[f].id : f \in Expired(associations)}
<1>2. associations' = Swept(associations) /\ transport' = Without(transport, gone)
      BY DEF SweepExpired
<1>3. Absent \in Entries /\ Absent.id = 0 /\ Absent.seen = {}
      BY DEF Absent, Entries
<1>4. Thinned(Flows, associations, associations')
      BY <1>2, TablesStarting, SweptTable
<1>5. \A f \in Flows : f \in Expired(associations) => associations'[f] = Absent
      BY <1>2, TablesStarting, WithoutTable DEF Swept
<1>6. \A i \in gone : \E f \in Expired(associations) : f \in Flows /\ associations[f].id = i
  <2>1. DOMAIN associations = Flows
        BY TablesStarting
  <2>2. Expired(associations) \subseteq Flows
        BY <2>1 DEF Expired, Held
  <2>3. QED  BY <2>2
<1>7. /\ transport' \in [Ids -> Entries] /\ Held(transport') \subseteq Held(transport)
      /\ \A i \in Ids : transport'[i] = IF i \in gone THEN Absent ELSE transport[i]
  <2> HIDE DEF gone
  <2>1. QED  BY <1>2, TablesStarting, WithoutTable
\* Of an association that stays, the transport's entry stays.
<1>8. ASSUME NEW f \in Flows, associations'[f].id # 0
      PROVE  /\ associations'[f] = associations[f] /\ associations[f].id \in Ids
             /\ transport'[associations[f].id] = transport[associations[f].id]
  <2>1. associations'[f] = associations[f] /\ f \notin Expired(associations)
        BY <1>3, <1>4, <1>5, <1>8 DEF Thinned
  <2>2. associations[f].id \in Ids /\ associations[f].id # 0
        BY <1>8, <2>1, TablesStarting DEF Entries
  <2>3. associations[f].id \notin gone
    <3>1. past.origin[associations[f].id] = f
          BY <1>1, <2>2 DEF Origins
    <3>2. ASSUME NEW g \in Expired(associations), g \in Flows,
                 associations[g].id = associations[f].id
          PROVE  FALSE
      <4>1. past.origin[associations[f].id] = g
            BY <1>1, <2>2, <3>2 DEF Origins
      <4>2. QED  BY <2>1, <3>1, <3>2, <4>1
    <3> HIDE DEF gone
    <3>3. QED  BY <1>6, <3>2
  <2> HIDE DEF gone
  <2>4. QED  BY <1>7, <2>1, <2>2, <2>3
<1> HIDE DEF gone
<1>9. TablesInv'
  <2>1. Origins'
    <3>1. \A f \in Flows : associations'[f].id # 0 => past.origin[associations'[f].id] = f
          BY <1>1, <1>8 DEF Origins
    <3>2. \A i \in Ids : transport'[i].id # 0 => transport[i].id # 0
          BY <1>3, <1>7
    <3>3. QED  BY <1>1, <3>1, <3>2 DEF Origins
  <2>2. TransportFollows'
        BY <1>1, <1>8 DEF TransportFollows
  <2>3. QED  BY <1>1, <2>1, <2>2 DEF TablesInv, SendingKnown, RepliesMatch, OnlyIdleFlowsRepeat
<1>10. CountsInv'
  <2>1. CountsInv /\ Given' = Given
        BY TablesStarting DEF Given
  <2>2. Bounded(Held(associations')) /\ Bounded(Held(transport'))
        BY <1>4, <1>7, <2>1, BoundedSubset DEF CountsInv, Thinned
  <2>3. QED  BY <2>1, <2>2 DEF CountsInv
\* While nothing was too old, nothing goes.
<1>11. QuietInv'
  <2> SUFFICES ASSUME ~past.silent PROVE Remembered' /\ Unseen' /\ SeenFromCore'
      BY DEF QuietInv
  <2>1. Remembered /\ Unseen /\ SeenFromCore
        BY TablesStarting DEF QuietInv
  <2>2. Expired(associations) = {}
    <3>1. ASSUME NEW f \in Flows, f \in Expired(associations) PROVE FALSE
      <4>1. associations[f].id # 0 /\ associations[f].age >= Idle /\ associations[f].age \in Nat
            BY <3>1, TablesStarting, HeldIn DEF Entries
      <4>2. QED  BY <2>1, <4>1 DEF Remembered, Idle
    <3>2. Expired(associations) \subseteq Flows
          BY TablesStarting, HeldIn DEF Expired
    <3>3. QED  BY <3>1, <3>2
  <2>3. associations' = associations
    <3>1. \A f \in Flows : associations'[f] = associations[f]
          BY <2>1, <1>4 DEF Thinned, Remembered
    <3>2. QED  BY <1>4, <3>1, TablesStarting DEF Thinned
  <2>4. transport' = transport
    <3>1. \A i \in Ids : transport'[i] = transport[i]
          BY <1>6, <1>7, <2>2
    <3>2. QED  BY <1>7, <3>1, TablesStarting
  <2>5. QED  BY <2>1, <2>3, <2>4 DEF Remembered, Known, Unseen, SeenFromCore
<1>12. QED  BY <1>4, <1>7, <1>9, <1>10, <1>11 DEF FlowsShape, IdsShape, Thinned

LEMMA BridgeTurns ==
  ASSUME BridgeInv, BridgeIdles \/ BridgeSubmits
  PROVE  BridgeInv'
<1>1. /\ bridge.pc \in {"poll", "receive"} /\ Working /\ SweepExpired
      /\ UNCHANGED <<control, request, flags, receiver, free, captured, core, inbound, surrounding>>
      BY DEF BridgeIdles, BridgeSubmits, NoMoreReplies, Working, Returned
<1>2. UNCHANGED <<owner, renewal, window, open, budget, past>>
      BY <1>1 DEF control, surrounding
<1>3. /\ BridgeShape(bridge') /\ bridge'.pc = "top" /\ bridge'.records = <<>>
      /\ bridge'.space = Space
  <2>1. /\ BridgeShape(NextTurn) /\ NextTurn.pc = "top" /\ NextTurn.records = <<>>
        /\ NextTurn.space = Space
        BY BridgeStarting, BridgeTurning
  <2>2. bridge' = NextTurn \/ bridge' = [NextTurn EXCEPT !.pending = TRUE]
        BY DEF BridgeIdles, BridgeSubmits
  <2>3. QED  BY <2>1, <2>2 DEF BridgeShape
<1>4. /\ DriverShape(driver') /\ driver'.generation = driver.generation
      /\ driver'.lease = driver.lease /\ driver'.gate = driver.gate
  <2>1. bridge.records \in Seq(ReplyRecords)
        BY BridgeStarting DEF BridgeShape
  <2>2. driver.inFlight + Len(bridge.records) \in Nat
        BY <2>1, BridgeStarting DEF DriverShape
  <2>3. \/ driver' = driver
        \/ driver' = [driver EXCEPT !.inFlight = driver.inFlight + Len(bridge.records)]
        BY DEF BridgeIdles, BridgeSubmits
  <2>4. QED  BY <2>2, <2>3, BridgeStarting DEF DriverShape
<1>5. /\ FlowsShape(associations') /\ IdsShape(transport')
      /\ TablesInv' /\ CountsInv' /\ QuietInv'
      BY <1>1, <1>2, <1>3, Sweeping
<1>6. Shape'
      BY <1>1, <1>2, <1>3, <1>4, <1>5 DEF BridgeInv, Shape
<1>7. PhaseInv' /\ SpaceInv'
  <2>1. owner # "arming"
        BY <1>1 DEF BridgeInv, PhaseInv
  <2>2. QED  BY <1>2, <1>3, <2>1, PhaseQuiet
<1>8. BuffersInv'
      BY <1>1, <1>3 DEF BridgeInv, BuffersInv, BuffersConserved, ReceiverHolds, BridgeHolds,
         Returned
<1>9. BatchesInv'
      BY <1>1, <1>2, <1>3, <1>4 DEF BridgeInv, BatchesInv, WindowFollows, Captured
<1>10. LifeInv'
  <2>1. Closed' = Closed /\ AnyCapture' = AnyCapture /\ Working
        BY <1>1, <1>2, <1>4 DEF Closed, AnyCapture, Working, Returned
  <2>2. QED  BY <1>1, <1>2, <1>4, <2>1 DEF BridgeInv, LifeInv
<1>11. ReasonInv'
      BY <1>3 DEF ReasonInv
<1>12. QED  BY <1>5, <1>6, <1>7, <1>8, <1>9, <1>10, <1>11 DEF BridgeInv

-----------------------------------------------------------------------------
(* A reply.                                                                *)

LEMMA RoomForOne ==
  ASSUME NEW k \in Nat, k >= 1, NEW size \in Nat
  PROVE  k * size >= size
<1>1. (k - 1) * size \in Nat
      OBVIOUS
<1>2. k * size = (k - 1) * size + size
      OBVIOUS
<1>3. QED  BY <1>1, <1>2

LEMMA RoomAfterOne ==
  ASSUME NEW k \in Nat, k >= 1, NEW one \in Nat, NEW size \in Nat, NEW space \in Nat,
         space >= k * one, space >= k * size
  PROVE  space - one >= (k - 1) * size
<1>1. k * size = (k - 1) * size + size /\ k * one = (k - 1) * one + one
      OBVIOUS
<1>2. (k - 1) * size \in Nat /\ (k - 1) * one \in Nat /\ k * size \in Nat /\ k * one \in Nat
      OBVIOUS
<1>3. CASE size >= one
      BY <1>1, <1>2, <1>3
<1>4. CASE one >= size
  <2>1. (k - 1) * (one - size) \in Nat
        BY <1>4
  <2>2. (k - 1) * one = (k - 1) * size + (k - 1) * (one - size)
        OBVIOUS
  <2>3. QED  BY <1>1, <1>2, <2>1, <2>2
<1>5. QED  BY <1>3, <1>4

LEMMA CollectFrame ==
  ASSUME BridgeInv, bridge.pc \in {"poll", "receive"},
         UNCHANGED <<control, driver, request, open, flags, receiver, free, captured, core,
                     budget>>,
         BridgeShape(bridge'), bridge'.pc \in {"poll", "receive", "ending"},
         bridge'.pc # "ending" => bridge'.identity = bridge.identity,
         FlowsShape(associations'), IdsShape(transport'), InboundShape(inbound'),
         PastShape(past'), past'.origin = past.origin, past'.silent = past.silent,
         TablesInv', CountsInv', QuietInv', PhaseInv', SpaceInv',
         bridge'.pc = "ending" => Disturbed(bridge'.reason)
  PROVE  BridgeInv'
<1>1. UNCHANGED <<owner, renewal, window, open, budget>>
      BY DEF control
<1>2. Shape'
      BY <1>1 DEF BridgeInv, Shape
<1>3. BuffersInv'
      BY DEF BridgeInv, BuffersInv, BuffersConserved, ReceiverHolds, BridgeHolds,
         Returned
<1>4. BatchesInv'
      BY <1>1 DEF BridgeInv, BatchesInv, WindowFollows, Captured
<1>5. Closed' = Closed /\ Given' = Given
      BY <1>1 DEF Closed, Given
<1>6. LifeInv'
  <2>1. AnyCapture' = AnyCapture /\ Working
        BY <1>1 DEF AnyCapture, Working, Returned
  <2>2. QED  BY <1>1, <1>5, <2>1 DEF BridgeInv, LifeInv
<1>7. ReasonInv'
  <2> SUFFICES ASSUME bridge'.pc = "ending" PROVE Disturbed(bridge.reason)'
      BY DEF ReasonInv
  <2>1. Disturbed(bridge'.reason)
        OBVIOUS
  <2>2. QED  BY <1>1, <1>5, <2>1 DEF Disturbed
<1>8. QED  BY <1>2, <1>3, <1>4, <1>6, <1>7 DEF BridgeInv

\* The transport looks for idle entries before it waits.
LEMMA BridgePolling == ASSUME BridgeInv, BridgePolls PROVE BridgeInv'
<1>1. /\ bridge.pc = "poll" /\ Len(bridge.records) < Records /\ Working
      /\ transport' \in SweptIfDue(transport) /\ bridge' = [bridge EXCEPT !.pc = "receive"]
      /\ UNCHANGED <<control, driver, request, open, flags, receiver, free, captured,
                     associations, core, inbound, budget, past>>
      BY DEF BridgePolls, surrounding, Working, Returned
<1>2. /\ BridgeShape(bridge') /\ bridge'.pc = "receive" /\ bridge'.records = bridge.records
      /\ bridge'.identity = bridge.identity /\ bridge'.space = bridge.space
      BY <1>1, BridgeStarting, BridgeGoes DEF BridgePlaces
<1>3. Thinned(Ids, transport, transport')
      BY <1>1, TablesStarting, SweptWhenDue
<1>4. TablesInv' /\ CountsInv' /\ QuietInv'
      BY <1>1, <1>2, <1>3, TransportThins DEF Returned
<1>5. PhaseInv' /\ SpaceInv'
  <2>1. UNCHANGED owner /\ PhaseInv /\ SpaceInv
        BY <1>1 DEF control, BridgeInv
  <2>2. QED  BY <1>1, <1>2, <2>1 DEF PhaseInv, SpaceInv
<1>6. /\ FlowsShape(associations') /\ InboundShape(inbound') /\ IdsShape(transport')
      /\ PastShape(past')
      BY <1>1, <1>3, TablesStarting DEF FlowsShape, InboundShape, IdsShape, Thinned
<1>7. QED  BY <1>1, <1>2, <1>4, <1>5, <1>6, CollectFrame

\* While nothing was too old, a reply is known and new.
LEMMA ReplyIsExpected ==
  ASSUME BridgeInv, bridge.pc = "receive", ~past.silent, NEW frame \in inbound
  PROVE  /\ frame.id \in Held(transport) /\ FlowOf(frame.id) # {}
         /\ Accepts(transport[frame.id], frame.sequence)
         /\ \A f \in FlowOf(frame.id) : Accepts(associations[f], frame.sequence)
<1>1. /\ Origins /\ Remembered /\ Unseen
      BY TablesStarting DEF TablesInv, QuietInv, Working, Returned
<1>2. PICK i : i = frame.id
      OBVIOUS
<1>3. i \in Ids /\ i # 0
      BY <1>2, TablesStarting DEF Frames
<1>4. PICK f : f = past.origin[i]
      OBVIOUS
<1>5. core[i].id # 0 /\ past.origin[i] # None
      BY <1>1, <1>2, <1>3 DEF Unseen, Origins
<1>6. f \in Flows /\ associations[f].id = i
      BY <1>1, <1>3, <1>4, <1>5, TablesStarting DEF Remembered, Known
<1>7. FlowOf(i) = {f}
      BY <1>1, <1>3, <1>4, <1>6 DEF FlowOf, Origins
<1>8. transport[i].id # 0
      BY <1>1, <1>3, <1>5 DEF Remembered
<1>9. i \in Held(transport)
      BY <1>3, <1>8, TablesStarting, HeldIn
<1>10. frame.sequence \notin transport[i].seen /\ frame.sequence \notin associations[f].seen
      BY <1>1, <1>2, <1>4 DEF Unseen
<1>11. QED  BY <1>2, <1>7, <1>9, <1>10 DEF Accepts

LEMMA RefusalHasReason ==
  ASSUME BridgeInv, bridge.pc = "receive", NEW frame \in inbound,
         Refusal(frame) # "none"
  PROVE  Refusal(frame) \in Reasons /\ Disturbed(Refusal(frame))
<1> DEFINE known == frame.id \in Held(transport) /\ FlowOf(frame.id) # {}
           fresh == /\ Accepts(transport[frame.id], frame.sequence)
                    /\ \A f \in FlowOf(frame.id) : Accepts(associations[f], frame.sequence)
<1>1. Refusal(frame) = CASE ~known -> "unknown"
                         [] known /\ ~fresh -> "replayed"
                         [] known /\ fresh /\ ~Fits(frame) -> "space"
                         [] OTHER -> "none"
      BY DEF Refusal
<1>2. ~past.silent => known /\ fresh
      BY ReplyIsExpected
<1> HIDE DEF known, fresh
<1>3. CASE ~known \/ ~fresh
  <2>1. past.silent /\ Refusal(frame) \in {"unknown", "replayed"}
        BY <1>1, <1>2, <1>3
  <2>2. QED  BY <2>1 DEF Disturbed, Reasons
<1>4. CASE known /\ fresh
  <2>1. Refusal(frame) = "space" /\ ~Fits(frame)
        BY <1>1, <1>4
  <2>2. ASSUME \A size \in Sizes : Records * size <= Space PROVE FALSE
    <3>1. frame.size \in Sizes /\ frame.size \in Nat
      <4>1. \A size \in Sizes : size \in Nat
            BY SizesAssumption
      <4>2. frame.size \in Sizes
            BY TablesStarting DEF Frames
      <4>3. QED  BY <4>1, <4>2
    <3>2. bridge.space >= (Records - Len(bridge.records)) * frame.size
          BY <2>2, <3>1 DEF BridgeInv, SpaceInv
    <3>3. /\ bridge.space \in Nat /\ bridge.records \in Seq(ReplyRecords) /\ Records \in Nat
          /\ Len(bridge.records) < Records
          BY BridgeStarting, SizesAssumption DEF BridgeShape, BridgeInv, PhaseInv
    <3>4. PICK k \in Nat : k = Records - Len(bridge.records) /\ k >= 1
      <4>1. PICK n \in Nat : n = Len(bridge.records)
            BY <3>3
      <4>2. Records - n \in Nat /\ Records - n >= 1
            BY <3>3, <4>1
      <4>3. QED  BY <4>1, <4>2
    <3>5. k * frame.size >= frame.size /\ k * frame.size \in Nat
      <4>1. PICK size \in Nat : size = frame.size
            BY <3>1
      <4>2. k * size >= size /\ k * size \in Nat
            BY <3>4, RoomForOne
      <4>3. QED  BY <4>1, <4>2
    <3>6. bridge.space >= k * frame.size
          BY <3>2, <3>4
    <3>7. bridge.space >= frame.size
          BY <3>1, <3>3, <3>5, <3>6
    <3>8. QED  BY <2>1, <3>7 DEF Fits
  <2>3. QED  BY <2>1, <2>2 DEF Disturbed, Reasons
<1>5. QED  BY <1>3, <1>4

LEMMA ReplyRefused ==
  ASSUME BridgeInv, NEW frame \in inbound, BridgeCollects(frame), Refusal(frame) # "none"
  PROVE  BridgeInv'
<1>1. /\ bridge.pc = "receive" /\ inbound' = inbound \ {frame}
      /\ bridge' = Ending(Refusal(frame))
      /\ UNCHANGED <<control, driver, request, open, flags, receiver, free, captured, core, budget,
                     associations, transport, past>>
      BY DEF BridgeCollects
<1>2. Refusal(frame) \in Reasons /\ Disturbed(Refusal(frame))
      BY <1>1, RefusalHasReason
<1>3. /\ BridgeShape(bridge') /\ bridge'.pc = "ending" /\ bridge'.records = <<>>
      /\ bridge'.space = Space /\ bridge'.reason = Refusal(frame)
      BY <1>1, <1>2, BridgeStarting, BridgeEnding
<1>4. UNCHANGED <<owner, past>>
      BY <1>1 DEF control
<1>5. TablesInv' /\ QuietInv'
      BY <1>1, <1>3, <1>4, TablesStarting DEF TablesInv, QuietInv, Working, Returned, RepliesMatch,
         OnlyIdleFlowsRepeat
<1>6. CountsInv'
      BY <1>1, TablesStarting DEF CountsInv, Given
<1>7. IdsShape(transport') /\ PastShape(past')
      BY <1>1, TablesStarting DEF IdsShape
<1>8. PhaseInv' /\ SpaceInv'
  <2>1. owner # "arming"
        BY <1>1 DEF BridgeInv, PhaseInv
  <2>2. QED  BY <1>3, <1>4, <2>1, PhaseQuiet
<1>9. FlowsShape(associations') /\ InboundShape(inbound')
      BY <1>1, TablesStarting DEF FlowsShape, InboundShape
<1>10. QED  BY <1>1, <1>2, <1>3, <1>5, <1>6, <1>7, <1>8, <1>9, CollectFrame

\* The idle time of one association ends.
LEMMA Awakes ==
  ASSUME NEW id \in Ids, PastShape(past)
  PROVE  LET p == [past EXCEPT !.idle = Awake(id)]
         IN /\ PastShape(p) /\ p.origin = past.origin /\ p.silent = past.silent
            /\ p.refused = past.refused
            /\ p.idle[id] = IF past.idle[id] < Idle THEN 0 ELSE past.idle[id]
            /\ \A i \in Ids \ {id} : p.idle[i] = past.idle[i]
<1> DEFINE p == [past EXCEPT !.idle = Awake(id)]
<1>1. past.idle \in [Ids -> 0..Idle] /\ 0 \in 0..Idle
      BY DEF PastShape, Idle
<1>2. /\ Awake(id) \in [Ids -> 0..Idle]
      /\ Awake(id)[id] = IF past.idle[id] < Idle THEN 0 ELSE past.idle[id]
      /\ \A i \in Ids \ {id} : Awake(id)[i] = past.idle[i]
      BY <1>1 DEF Awake
<1>3. /\ PastShape(p) /\ p.origin = past.origin /\ p.silent = past.silent
      /\ p.refused = past.refused /\ p.idle = Awake(id)
      BY <1>2 DEF PastShape
<1> HIDE DEF p
<1>4. QED  BY <1>2, <1>3 DEF p

LEMMA ReplyCollected ==
  ASSUME BridgeInv, NEW frame \in inbound, BridgeCollects(frame), Refusal(frame) = "none"
  PROVE  BridgeInv'
<1>1. /\ bridge.pc = "receive" /\ Len(bridge.records) < Records /\ inbound' = inbound \ {frame}
      /\ UNCHANGED <<control, driver, request, open, flags, receiver, free, captured, core, budget>>
      BY DEF BridgeCollects, BridgeInv, PhaseInv
<1>2. PICK flow \in FlowOf(frame.id) :
        /\ transport' = [transport EXCEPT
                           ![frame.id] = Accepted(transport[frame.id], frame.sequence)]
        /\ associations' = [associations EXCEPT
                              ![flow] = Accepted(associations[flow], frame.sequence)]
        /\ past' = [past EXCEPT !.idle = Awake(frame.id)]
        /\ bridge' = [bridge EXCEPT !.pc = "poll",
             !.records = Append(bridge.records, [id |-> frame.id, flow |-> flow]),
             !.space = bridge.space - frame.size]
      BY DEF BridgeCollects
<1>3. frame.id \in Held(transport) /\ Fits(frame)
  <2> DEFINE known == frame.id \in Held(transport) /\ FlowOf(frame.id) # {}
             fresh == /\ Accepts(transport[frame.id], frame.sequence)
                      /\ \A f \in FlowOf(frame.id) : Accepts(associations[f], frame.sequence)
  <2>1. Refusal(frame) = CASE ~known -> "unknown"
                           [] known /\ ~fresh -> "replayed"
                           [] known /\ fresh /\ ~Fits(frame) -> "space"
                           [] OTHER -> "none"
        BY DEF Refusal
  <2> HIDE DEF fresh
  <2>2. QED  BY <2>1
<1>4. UNCHANGED owner
      BY <1>1 DEF control
<1>5. Origins /\ TransportFollows /\ RepliesMatch /\ OnlyIdleFlowsRepeat
      BY <1>1, TablesStarting DEF TablesInv, Working, Returned
<1>6. PICK id \in Ids, sequence \in Nat, size \in Sizes :
        frame.id = id /\ frame.sequence = sequence /\ frame.size = size
      BY TablesStarting DEF Frames
<1>7. id # 0 /\ flow \in Flows /\ associations[flow].id = id /\ past.origin[id] = flow
      BY <1>2, <1>5, <1>6, TablesStarting DEF FlowOf, Origins
<1>8. transport[id].id # 0
      BY <1>3, <1>6, TablesStarting, HeldIn
\* The idle time of the association ends, unless it was a whole one.
<1>23. /\ PastShape(past') /\ past'.origin = past.origin /\ past'.silent = past.silent
       /\ past'.refused = past.refused
       /\ past'.idle[id] = IF past.idle[id] < Idle THEN 0 ELSE past.idle[id]
       /\ \A i \in Ids \ {id} : past'.idle[i] = past.idle[i]
  <2>1. past' = [past EXCEPT !.idle = Awake(id)]
        BY <1>2, <1>6
  <2> DEFINE p == [past EXCEPT !.idle = Awake(id)]
  <2>2. /\ PastShape(p) /\ p.origin = past.origin /\ p.silent = past.silent
        /\ p.refused = past.refused
        /\ p.idle[id] = IF past.idle[id] < Idle THEN 0 ELSE past.idle[id]
        /\ \A i \in Ids \ {id} : p.idle[i] = past.idle[i]
        BY TablesStarting, Awakes
  <2>3. past' = p
        BY <2>1
  <2> HIDE DEF p
  <2>4. QED  BY <2>2, <2>3
<1>9. /\ associations' \in [Flows -> Entries]
      /\ associations'[flow].id = id /\ associations'[flow].age = 0
      /\ associations'[flow].seen = associations[flow].seen \union {sequence}
      /\ \A f \in Flows \ {flow} : associations'[f] = associations[f]
      BY <1>2, <1>6, <1>7, TablesStarting, EntryAccepts
<1>10. /\ transport' \in [Ids -> Entries]
       /\ transport'[id].id = transport[id].id /\ transport'[id].age = 0
       /\ transport'[id].next = transport[id].next
       /\ transport'[id].seen = transport[id].seen \union {sequence}
       /\ \A i \in Ids \ {id} : transport'[i] = transport[i]
      BY <1>2, <1>6, TablesStarting, EntryAccepts
<1>11. Absent.id = 0 /\ Absent.seen = {}
      BY DEF Absent
<1>12. /\ bridge.records \in Seq(ReplyRecords) /\ bridge.space \in Nat /\ size \in Nat
       /\ bridge.space >= size
      BY <1>3, <1>6, BridgeStarting, SizesAssumption DEF BridgeShape, Fits
<1>13. PICK reply \in ReplyRecords : reply.id = id /\ reply.flow = flow /\
         reply = [id |-> id, flow |-> flow]
  <2>1. [id |-> id, flow |-> flow] \in ReplyRecords
        BY <1>7 DEF ReplyRecords
  <2>2. QED  BY <2>1
<1>14. /\ BridgeShape(bridge') /\ bridge'.pc = "poll" /\ bridge'.identity = bridge.identity
       /\ bridge'.records = Append(bridge.records, reply) /\ bridge'.space = bridge.space - size
  <2> DEFINE b == [bridge EXCEPT !.pc = "poll"]
             a == [b EXCEPT !.records = Append(bridge.records, reply)]
  <2>1. /\ BridgeShape(a) /\ a.pc = "poll" /\ a.identity = bridge.identity
        /\ a.records = Append(bridge.records, reply) /\ a.space = bridge.space
    <3>1. Append(bridge.records, reply) \in Seq(ReplyRecords)
          BY <1>12
    <3>2. /\ BridgeShape(b) /\ b.pc = "poll" /\ b.identity = bridge.identity
          /\ b.space = bridge.space
          BY BridgeStarting, BridgeGoes DEF BridgePlaces
    <3> HIDE DEF b
    <3>3. QED  BY <3>1, <3>2 DEF BridgeShape
  <2>2. bridge' = [a EXCEPT !.space = bridge.space - size]
        BY <1>2, <1>6, <1>13
  <2>3. bridge.space - size \in Nat
        BY <1>12
  <2> HIDE DEF a
  <2>4. QED  BY <2>1, <2>2, <2>3 DEF BridgeShape
<1>15. /\ Len(bridge'.records) = Len(bridge.records) + 1
       /\ \A n \in 1..Len(bridge'.records) :
            bridge'.records[n] = IF n = Len(bridge.records) + 1 THEN reply ELSE bridge.records[n]
      BY <1>12, <1>14
<1>16. TablesInv'
  <2>1. Origins'
    <3>1. \A i \in Ids : transport'[i].id # 0 => transport[i].id # 0
          BY <1>8, <1>10, <1>11
    <3>2. \A f \in Flows : associations'[f].id = associations[f].id
          BY <1>7, <1>9
    <3>3. QED  BY <1>1, <1>23, <1>5, <3>1, <3>2 DEF Origins
  <2>2. TransportFollows'
    <3> SUFFICES ASSUME NEW f \in Flows, associations'[f].id # 0,
                        past'.idle[associations'[f].id] < Idle
                 PROVE  LET i == associations'[f].id
                        IN IF transport'[i].id = 0
                           THEN core[i].seen = {}
                           ELSE /\ transport'[i].age <= past'.idle[i]
                                /\ \A s \in core[i].seen : s < transport'[i].next
        BY <1>1 DEF TransportFollows
    <3>1. CASE f = flow
      <4>1. past.idle[id] < Idle /\ past'.idle[id] = 0
            BY <1>9, <1>23, <3>1
      <4>2. \A s \in core[id].seen : s < transport[id].next
            BY <1>5, <1>7, <1>8, <4>1 DEF TransportFollows
      <4>3. QED  BY <1>8, <1>9, <1>10, <3>1, <4>1, <4>2
    <3>2. CASE f # flow
      <4>1. PICK i : i = associations[f].id
            OBVIOUS
      <4>2. associations'[f] = associations[f] /\ i # 0 /\ i \in Ids
            BY <1>9, <3>2, <4>1, TablesStarting DEF Entries
      <4>3. i # id
            BY <1>5, <1>7, <3>2, <4>1, <4>2 DEF Origins
      <4>4. past'.idle[i] = past.idle[i] /\ past.idle[i] < Idle
            BY <1>23, <4>1, <4>2, <4>3
      <4>5. IF transport[i].id = 0
            THEN core[i].seen = {}
            ELSE /\ transport[i].age <= past.idle[i]
                 /\ \A s \in core[i].seen : s < transport[i].next
            BY <1>5, <4>1, <4>2, <4>4 DEF TransportFollows
      <4>6. QED  BY <1>10, <4>1, <4>2, <4>3, <4>4, <4>5
    <3>3. QED  BY <3>1, <3>2
  <2>3. RepliesMatch'
    <3> SUFFICES ASSUME NEW n \in 1..Len(bridge'.records)
                 PROVE  LET r == bridge'.records[n]
                        IN past.origin[r.id] = r.flow /\ associations'[r.flow].id = r.id
        BY <1>23 DEF RepliesMatch
    <3>1. CASE n = Len(bridge.records) + 1
          BY <1>7, <1>9, <1>13, <1>15, <3>1
    <3>2. CASE n # Len(bridge.records) + 1
      <4>1. n \in 1..Len(bridge.records)
            BY <1>12, <1>15, <3>2
      <4>2. bridge'.records[n] = bridge.records[n] /\ bridge.records[n].flow \in Flows
        <5>1. bridge.records[n] \in ReplyRecords
              BY <1>12, <4>1
        <5>2. QED  BY <1>15, <3>2, <5>1 DEF ReplyRecords
      <4>3. \A f \in Flows : associations'[f].id = associations[f].id
            BY <1>7, <1>9
      <4>4. QED  BY <1>5, <4>1, <4>2, <4>3 DEF RepliesMatch
    <3>3. QED  BY <3>1, <3>2
  <2>4. OnlyIdleFlowsRepeat'
    <3>1. past.refused \subseteq Ids
          BY TablesStarting DEF PastShape
    <3>2. QED  BY <1>5, <1>23, <3>1 DEF OnlyIdleFlowsRepeat, Idle
  <2>5. QED  BY <1>14, <2>1, <2>2, <2>3, <2>4 DEF TablesInv, SendingKnown
<1>17. CountsInv'
  <2>1. Held(associations') \subseteq Held(associations)
        BY <1>7, <1>9, TablesStarting DEF Held
  <2>2. Held(transport') \subseteq Held(transport)
        BY <1>8, <1>10, <1>11, TablesStarting DEF Held
  <2>3. QED  BY <1>1, <1>23, <2>1, <2>2, TablesStarting, BoundedSubset DEF CountsInv, Given
<1>18. QuietInv'
  <2> SUFFICES ASSUME ~past.silent PROVE Remembered' /\ Unseen' /\ SeenFromCore'
      BY <1>23 DEF QuietInv
  <2>1. Remembered /\ Unseen /\ SeenFromCore
        BY <1>1, TablesStarting DEF QuietInv, Working, Returned
  <2>2. Remembered'
    <3>1. \A f \in Flows : associations'[f].id # 0 => associations'[f].age < Idle
          BY <1>9, <2>1 DEF Remembered, Idle
    <3>2. \A f \in Flows : associations'[f].id = associations[f].id
          BY <1>7, <1>9
    <3>3. \A i \in Ids : past.origin[i] # None => past.origin[i] \in Flows
          BY TablesStarting
    <3>4. \A i \in Ids : transport'[i].id # 0 => transport'[i].age < Idle
          BY <1>10, <2>1 DEF Remembered, Idle
    <3>5. \A i \in Ids : transport[i].id # 0 => transport'[i].id # 0
          BY <1>8, <1>10
    <3>6. QED  BY <1>1, <1>23, <2>1, <3>1, <3>2, <3>3, <3>4, <3>5 DEF Remembered, Known
  <2>3. core[id].id # 0 /\ sequence <= core[id].next
        BY <1>6, <2>1 DEF Unseen
  <2>4. \A i \in Ids : \A s \in transport'[i].seen :
          s \in transport[i].seen \/ (i = id /\ s = sequence)
        BY <1>10, <1>11
  <2>5. \A f \in Flows : \A s \in associations'[f].seen :
          s \in associations[f].seen \/ (f = flow /\ s = sequence)
        BY <1>9
  <2>6. SeenFromCore'
        BY <1>1, <1>7, <1>9, <2>1, <2>3, <2>4, <2>5 DEF SeenFromCore
  <2>7. ASSUME NEW other \in inbound'
        PROVE  /\ core[other.id].id # 0 /\ other.sequence <= core[other.id].next
               /\ other.sequence \notin transport'[other.id].seen
               /\ other.sequence \notin associations'[past.origin[other.id]].seen
    <3>1. other \in inbound /\ other # frame /\ other.id \in Ids
          BY <1>1, TablesStarting DEF Frames
    <3>2. other.id = id => other.sequence # sequence
          BY <1>6, <2>1, <3>1 DEF Unseen
    <3>3. /\ core[other.id].id # 0 /\ other.sequence <= core[other.id].next
          /\ other.sequence \notin transport[other.id].seen
          /\ other.sequence \notin associations[past.origin[other.id]].seen
          BY <2>1, <3>1 DEF Unseen
    <3>4. past.origin[other.id] \in Flows /\ associations[past.origin[other.id]].id = other.id
          BY <1>5, <2>1, <3>1, <3>3, TablesStarting DEF Origins, Remembered, Known
    <3>5. past.origin[other.id] = flow => other.id = id
          BY <1>7, <3>4
    <3>6. QED  BY <2>4, <2>5, <3>1, <3>2, <3>3, <3>4, <3>5
  <2>8. \A one, two \in inbound' : one.id = two.id /\ one.sequence = two.sequence => one = two
        BY <1>1, <2>1 DEF Unseen
  <2>9. Unseen'
        BY <1>1, <1>23, <2>7, <2>8 DEF Unseen
  <2>10. QED  BY <2>2, <2>6, <2>9
<1>19. PhaseInv'
  <2>1. owner # "arming" /\ Records \in Nat /\ Len(bridge.records) \in Nat
        BY <1>1, <1>12, SizesAssumption DEF BridgeInv, PhaseInv
  <2>2. QED  BY <1>1, <1>4, <1>14, <1>15, <2>1 DEF PhaseInv
<1>20. SpaceInv'
  <2> SUFFICES ASSUME \A s \in Sizes : Records * s <= Space, NEW other \in Sizes
               PROVE  bridge'.space >= (Records - Len(bridge'.records)) * other
      BY DEF SpaceInv
  <2>1. /\ bridge.space >= (Records - Len(bridge.records)) * other
        /\ bridge.space >= (Records - Len(bridge.records)) * size
        BY DEF BridgeInv, SpaceInv
  <2>2. Len(bridge.records) \in Nat /\ Records \in Nat /\ other \in Nat
        BY <1>12, SizesAssumption
  <2>3. PICK k \in Nat : k = Records - Len(bridge.records) /\ k >= 1
    <3>1. PICK n \in Nat : n = Len(bridge.records)
          BY <2>2
    <3>2. Records - n \in Nat /\ Records - n >= 1
          BY <1>1, <2>2, <3>1
    <3>3. QED  BY <3>1, <3>2
  <2>4. bridge.space >= k * other /\ bridge.space >= k * size
        BY <2>1, <2>3
  <2>5. bridge.space - size >= (k - 1) * other
        BY <1>12, <2>2, <2>3, <2>4, RoomAfterOne
  <2>6. k - 1 = Records - Len(bridge'.records)
        BY <1>15, <2>2, <2>3
  <2>7. QED  BY <1>14, <2>5, <2>6
<1>21. InboundShape(inbound')
      BY <1>1, TablesStarting DEF InboundShape
<1>22. QED  BY <1>1, <1>9, <1>10, <1>14, <1>16, <1>17, <1>18, <1>19, <1>20, <1>21, <1>23,
               CollectFrame DEF FlowsShape, IdsShape

-----------------------------------------------------------------------------
(* A captured datagram.                                                    *)

\* An association has an identifier that was given, and no two have the same.
LEMMA FlowsAreGiven ==
  ASSUME BridgeInv, Working
  PROVE  /\ Cardinality(Held(associations)) <= Cardinality(Given)
         /\ Held(transport) \subseteq Given /\ Cardinality(Given) \in Nat
<1> DEFINE f == [k \in Held(associations) |-> associations[k].id]
<1>1. Origins /\ IsFiniteSet(Given) /\ Held(associations) \subseteq Flows
      BY TablesStarting, HeldIn DEF TablesInv, CountsInv
<1>2. \A k \in Held(associations) :
        /\ associations[k].id \in Given
        /\ past.origin[associations[k].id] = k
      BY <1>1, TablesStarting, HeldIn DEF Origins, Given, Entries
<1>3. f \in Injection(Held(associations), Given)
      BY <1>2 DEF Injection, IsInjective
<1>4. Cardinality(Held(associations)) <= Cardinality(Given)
      BY <1>1, <1>3, FS_Injection
<1>5. Held(transport) \subseteq Given
      BY <1>1, TablesStarting, HeldIn DEF Origins, Given
<1>6. QED  BY <1>1, <1>4, <1>5, FS_CardinalityType

LEMMA BridgeTakes ==
  ASSUME BridgeShape(bridge), NEW pc \in BridgePlaces, NEW id \in Ids \union {0}
  PROVE  LET b == [bridge EXCEPT !.pc = pc, !.sending = id]
         IN /\ BridgeShape(b) /\ b.pc = pc /\ b.sending = id /\ b.reason = bridge.reason
            /\ b.records = bridge.records /\ b.space = bridge.space
<1> DEFINE a == [bridge EXCEPT !.pc = pc]
           b == [bridge EXCEPT !.pc = pc, !.sending = id]
<1>1. /\ BridgeShape(a) /\ a.pc = pc /\ a.reason = bridge.reason
      /\ a.records = bridge.records /\ a.space = bridge.space
      BY BridgeGoes
<1>2. b = [a EXCEPT !.sending = id]
      OBVIOUS
<1> HIDE DEF a, b
<1>3. /\ BridgeShape(b) /\ b.pc = pc /\ b.sending = id /\ b.reason = bridge.reason
      /\ b.records = bridge.records /\ b.space = bridge.space
      BY <1>1, <1>2 DEF BridgeShape
<1>4. QED  BY <1>3 DEF b

\* What holds before a batch is taken up: its flow is one of the driver's.
LEMMA RouteStarting ==
  ASSUME BridgeInv, bridge.pc = "drain", captured # <<>>
  PROVE  /\ Working /\ TablesInv /\ Origins /\ TransportFollows
         /\ captured[1].flow \in Flows /\ Captured(captured[1])
         /\ CapturedShape(Tail(captured)) /\ Len(Tail(captured)) = Len(captured) - 1
         /\ Len(captured) \in Nat \ {0}
         /\ \A n \in 1..Len(Tail(captured)) : Captured(Tail(captured)[n])
         /\ AnyCapture
<1>1. Working /\ TablesInv /\ Origins /\ TransportFollows
      BY TablesStarting DEF Working, Returned, TablesInv
<1>2. captured \in Seq(BatchRecords)
      BY DEF BridgeInv, Shape, CapturedShape
<1>3. Len(captured) \in Nat \ {0}
      BY <1>2, EmptySeq
<1>4. \A n \in 1..Len(captured) : captured[n] \in BatchRecords /\ Captured(captured[n])
      BY <1>2 DEF BridgeInv, BatchesInv
<1>5. 1 \in 1..Len(captured)
      BY <1>3
<1>6. captured[1].flow \in Flows
      BY <1>4, <1>5, TablesStarting DEF Captured, BudgetShape
<1>7. /\ Tail(captured) \in Seq(BatchRecords) /\ Len(Tail(captured)) = Len(captured) - 1
      /\ \A n \in 1..Len(Tail(captured)) : Tail(captured)[n] = captured[n + 1]
      BY <1>2, HeadTailProperties
<1>8. ASSUME NEW n \in 1..Len(Tail(captured)) PROVE Captured(Tail(captured)[n])
  <2>1. n + 1 \in 1..Len(captured)
        BY <1>3, <1>7
  <2>2. QED  BY <1>4, <1>7, <2>1
<1>9. AnyCapture
      BY DEF AnyCapture
<1>10. QED  BY <1>1, <1>3, <1>4, <1>5, <1>6, <1>7, <1>8, <1>9 DEF CapturedShape

LEMMA DrainFrame ==
  ASSUME BridgeInv, bridge.pc \in {"drain", "send"}, AnyCapture,
         UNCHANGED <<control, driver, request, open, flags, receiver, inbound>>,
         free' \in Nat, CapturedShape(captured'),
         \A n \in 1..Len(captured') : Captured(captured'[n]),
         FlowsShape(associations'), IdsShape(transport'), IdsShape(core'), PastShape(past'),
         BudgetShape(budget'), budget'.flows = budget.flows,
         \A i \in Ids : past'.origin[i] \in budget.flows \union {None},
         BridgeShape(bridge'), bridge'.pc \in {"drain", "send", "ending"},
         bridge'.records = <<>>, bridge'.space = Space,
         BuffersInv', TablesInv', CountsInv', QuietInv', ReasonInv'
  PROVE  BridgeInv'
<1>1. UNCHANGED <<owner, renewal, window>> /\ Working
      BY DEF control, Working, Returned
<1>2. Shape'
      BY <1>1 DEF BridgeInv, Shape
<1>3. PhaseInv' /\ SpaceInv'
  <2>1. owner # "arming"
        BY DEF BridgeInv, PhaseInv
  <2>2. QED  BY <1>1, <2>1, PhaseQuiet
<1>4. BatchesInv'
      BY <1>1 DEF BridgeInv, BatchesInv, WindowFollows, Captured
<1>5. LifeInv'
  <2>1. Closed' = Closed
        BY <1>1 DEF Closed
  <2>2. QED  BY <1>1, <2>1 DEF BridgeInv, LifeInv
<1>6. QED  BY <1>2, <1>3, <1>4, <1>5 DEF BridgeInv

\* A buffer goes from the channel to the bridge, or is lost with it.
LEMMA RouteKeepsBuffers ==
  ASSUME BridgeInv, bridge.pc = "drain", captured # <<>>, captured' = Tail(captured),
         UNCHANGED <<receiver, free>>, bridge'.pc \in {"send", "ending"}
  PROVE  BuffersInv'
<1>1. ReceiverHolds' = ReceiverHolds /\ ReceiverHolds \in Nat
      BY DEF ReceiverHolds
<1>2. BuffersInv /\ Buffers \in Nat /\ free \in Nat
      BY SizesAssumption DEF BridgeInv, Shape
<1>3. PICK n \in Nat : n = Len(captured) /\ Len(captured') = n - 1
      BY RouteStarting
<1>4. PICK m \in Nat, h \in Nat : free = m /\ free' = m /\ ReceiverHolds = h /\ ReceiverHolds' = h
      BY <1>1, <1>2
<1>5. BridgeHolds = 0 /\ m + n + h + 0 <= Buffers
      BY <1>2, <1>3, <1>4 DEF BridgeHolds, BuffersInv
<1>6. CASE bridge'.pc = "send"
  <2>1. BridgeHolds' = 1
        BY <1>6 DEF BridgeHolds
  <2>2. m + (n - 1) + h + 1 = m + n + h + 0
        OBVIOUS
  <2>3. free' + Len(captured') + ReceiverHolds' + BridgeHolds' =
          free + Len(captured) + ReceiverHolds + BridgeHolds
        BY <1>3, <1>4, <1>5, <2>1, <2>2
  <2>4. QED  BY <1>2, <2>3 DEF BuffersInv, BuffersConserved, Returned
<1>7. CASE bridge'.pc = "ending"
  <2>1. BridgeHolds' = 0
        BY <1>7 DEF BridgeHolds
  <2>2. m + (n - 1) + h + 0 <= Buffers
        BY <1>2, <1>5
  <2>3. free' + Len(captured') + ReceiverHolds' + BridgeHolds' <= Buffers
        BY <1>3, <1>4, <2>1, <2>2
  <2>4. QED  BY <1>7, <2>3 DEF BuffersInv, BuffersConserved, Returned
<1>8. QED  BY <1>6, <1>7

\* A generation that was neither of the last two, or a full table of the bridge.
LEMMA RouteEnds ==
  ASSUME BridgeInv, bridge.pc = "drain", captured # <<>>, captured' = Tail(captured),
         UNCHANGED <<control, driver, request, open, flags, receiver, free, budget, past,
                     associations, transport, core, inbound>>,
         NEW reason \in Reasons, bridge' = Ending(reason), Disturbed(reason)
  PROVE  BridgeInv'
<1>1. UNCHANGED <<tables, owner>>
      BY DEF tables, control
<1>2. /\ BridgeShape(bridge') /\ bridge'.pc = "ending" /\ bridge'.records = <<>>
      /\ bridge'.space = Space /\ bridge'.reason = reason
      BY BridgeStarting, BridgeEnding
<1>3. TablesInv' /\ CountsInv' /\ QuietInv'
      BY <1>1, <1>2, TablesStarting, TablesKept DEF Returned
<1>4. ReasonInv'
  <2>1. Closed' = Closed /\ Given' = Given
        BY <1>1 DEF Closed, Given
  <2>2. Disturbed(bridge.reason)'
        BY <1>2, <2>1 DEF Disturbed
  <2>3. QED  BY <2>2 DEF ReasonInv
<1>5. /\ FlowsShape(associations') /\ IdsShape(transport') /\ IdsShape(core') /\ PastShape(past')
      /\ BudgetShape(budget') /\ free' \in Nat
      BY TablesStarting DEF FlowsShape, IdsShape, BridgeInv, Shape
<1>6. \A i \in Ids : past'.origin[i] \in budget.flows \union {None}
      BY DEF BridgeInv, BatchesInv
<1>7. BuffersInv'
      BY <1>2, RouteKeepsBuffers
<1>8. QED  BY <1>2, <1>3, <1>4, <1>5, <1>6, <1>7, RouteStarting, DrainFrame

\* What is taken up: the association is the flow's, or a new one for which the table
\* of the bridge has room, once it has been swept.
Routed(flow, id, entry, known) ==
  /\ flow = captured[1].flow /\ id \in Ids
  /\ entry \in Entries /\ entry.id = id /\ entry.age = 0
  /\ Thinned(Flows, associations, known)
  /\ associations' = [known EXCEPT ![flow] = entry]
  /\ bridge' = [bridge EXCEPT !.pc = "send", !.sending = id]
  /\ \/ /\ associations[flow].id = id /\ entry.seen = associations[flow].seen
        /\ known = associations /\ past' = past
     \/ /\ associations[flow].id = 0 /\ past.origin[id] = None /\ entry.seen = {}
        /\ ~Full(known) /\ past' = [past EXCEPT !.origin[id] = flow]

LEMMA RouteChooses ==
  ASSUME BridgeInv, BridgeRoutes
  PROVE  \/ BridgeInv'
         \/ \E flow \in Flows, id \in Ids, entry \in Entries, known \in [Flows -> Entries] :
              Routed(flow, id, entry, known)
<1>1. /\ bridge.pc = "drain" /\ captured # <<>> /\ ~Locked /\ captured' = Tail(captured)
      /\ UNCHANGED <<control, driver, request, open, flags, receiver, free, transport, core,
                     inbound, budget>>
      BY DEF BridgeRoutes
<1>2. PICK flow \in Flows : flow = captured[1].flow
      BY <1>1, RouteStarting
<1>3. /\ Captured(captured[1]) /\ Working
      BY <1>1, RouteStarting
<1> DEFINE known == IF Full(associations) THEN Swept(associations) ELSE associations
<1>4. Thinned(Flows, associations, known) /\ known \in [Flows -> Entries]
  <2>1. Thinned(Flows, associations, associations)
        BY TablesStarting DEF Thinned
  <2>2. Thinned(Flows, associations, Swept(associations))
        BY TablesStarting, SweptTable
  <2>3. QED  BY <2>1, <2>2 DEF Thinned
<1>5. CASE captured[1].generation \notin {window.current, window.previous}
  <2>1. bridge' = Ending("stale") /\ UNCHANGED <<associations, past>>
        BY <1>5 DEF BridgeRoutes
  <2>2. Disturbed("stale")
    <3>1. window.current = driver.generation /\ window.previous + 1 = window.current
          BY <1>1 DEF BridgeInv, BatchesInv, WindowFollows, Locked
    <3>2. PICK g \in Nat, w \in Nat, p \in Nat :
            driver.generation = g /\ window.current = w /\ window.previous = p
          BY BridgeStarting DEF DriverShape, WindowShape
    <3>3. PICK b \in 1..g : captured[1].generation = b
          BY <1>3, <3>2 DEF Captured
    <3>4. b # g /\ b # p /\ p + 1 = g
          BY <1>5, <3>1, <3>2, <3>3
    <3>5. g > 2
          BY <3>4
    <3>6. QED  BY <3>2, <3>5 DEF Disturbed
  <2>3. QED  BY <1>1, <2>1, <2>2, RouteEnds DEF Reasons
<1>6. CASE /\ captured[1].generation \in {window.current, window.previous}
           /\ associations[flow].id # 0
  <2> DEFINE id == associations[flow].id
             entry == [associations[flow] EXCEPT !.age = 0]
  <2>1. /\ bridge' = [bridge EXCEPT !.pc = "send", !.sending = id] /\ past' = past
        /\ associations' = [associations EXCEPT ![flow].age = 0]
        BY <1>2, <1>6 DEF BridgeRoutes
  <2>2. associations' = [associations EXCEPT ![flow] = entry]
        BY <2>1
  <2>3. /\ entry \in Entries /\ entry.id = id /\ entry.age = 0
        /\ entry.seen = associations[flow].seen /\ id \in Ids
        BY <1>6, TablesStarting DEF Entries
  <2> HIDE DEF entry
  <2>4. Thinned(Flows, associations, associations) /\ associations \in [Flows -> Entries]
        BY TablesStarting DEF Thinned
  <2>5. Routed(flow, id, entry, associations)
        BY <1>2, <2>1, <2>2, <2>3, <2>4 DEF Routed
  <2>6. QED  BY <2>3, <2>4, <2>5
<1>7. CASE /\ captured[1].generation \in {window.current, window.previous}
           /\ associations[flow].id = 0 /\ Full(known)
  <2>1. bridge' = Ending("limit") /\ UNCHANGED <<associations, past>>
        BY <1>2, <1>7 DEF BridgeRoutes
  <2>2. Disturbed("limit")
    <3>1. /\ Cardinality(Held(associations)) <= Cardinality(Given) /\ Cardinality(Given) \in Nat
          BY <1>3, FlowsAreGiven
    <3>2. Cardinality(Held(associations)) \in Nat /\ Limit \in Nat
          BY TablesStarting, FS_CardinalityType, SizesAssumption DEF CountsInv, Bounded
    <3>3. Full(associations)
          BY <1>7
    <3>4. Cardinality(Given) >= Limit
          BY <3>1, <3>2, <3>3 DEF Full
    <3>5. QED  BY <3>4 DEF Disturbed
  <2>3. QED  BY <1>1, <2>1, <2>2, RouteEnds DEF Reasons
<1>8. CASE /\ captured[1].generation \in {window.current, window.previous}
           /\ associations[flow].id = 0 /\ ~Full(known)
  <2> DEFINE id == NewAssociationId
             entry == Entry(id)
  <2>1. /\ \E i \in Ids : past.origin[i] = None
        /\ bridge' = [bridge EXCEPT !.pc = "send", !.sending = id]
        /\ associations' = [known EXCEPT ![flow] = entry]
        /\ past' = [past EXCEPT !.origin[id] = Origin(id, flow)]
        BY <1>2, <1>8 DEF BridgeRoutes
  <2>2. id \in Ids /\ past.origin[id] = None
        BY <2>1 DEF NewAssociationId
  <2> HIDE DEF id
  <2>3. entry \in Entries /\ entry.id = id /\ entry.age = 0 /\ entry.seen = {}
        BY <2>2, EntryMade
  <2>4. Origin(id, flow) = flow
        BY <2>2 DEF Origin
  <2> HIDE DEF entry, known
  <2>5. Routed(flow, id, entry, known)
        BY <1>2, <1>4, <1>8, <2>1, <2>2, <2>3, <2>4 DEF Routed
  <2>6. QED  BY <1>4, <2>2, <2>3, <2>5
<1>9. QED  BY <1>5, <1>6, <1>7, <1>8

LEMMA RoutedBridge ==
  ASSUME BridgeInv, bridge.pc = "drain",
         NEW flow, NEW id, NEW entry, NEW known, Routed(flow, id, entry, known)
  PROVE  /\ BridgeShape(bridge') /\ bridge'.pc = "send" /\ bridge'.sending = id
         /\ bridge'.records = <<>> /\ bridge'.space = Space
<1> DEFINE b == [bridge EXCEPT !.pc = "send", !.sending = id]
<1>1. id \in Ids \union {0} /\ bridge' = b
      BY DEF Routed
<1>2. /\ BridgeShape(b) /\ b.pc = "send" /\ b.sending = id
      /\ b.records = bridge.records /\ b.space = bridge.space
      BY <1>1, BridgeStarting, BridgeTakes DEF BridgePlaces
<1> HIDE DEF b
<1>3. bridge.records = <<>> /\ bridge.space = Space
      BY DEF BridgeInv, PhaseInv
<1>4. QED  BY <1>1, <1>2, <1>3

LEMMA PastNotes ==
  ASSUME PastShape(past), NEW id \in Ids, NEW flow \in Flows
  PROVE  LET p == [past EXCEPT !.origin[id] = flow]
         IN /\ PastShape(p) /\ p.silent = past.silent /\ p.refused = past.refused
            /\ p.idle = past.idle /\ p.origin[id] = flow
            /\ \A i \in Ids \ {id} : p.origin[i] = past.origin[i]
<1> DEFINE origin == [past.origin EXCEPT ![id] = flow]
           p == [past EXCEPT !.origin = origin]
<1>1. /\ origin \in [Ids -> Flows \union {None}] /\ origin[id] = flow
      /\ \A i \in Ids \ {id} : origin[i] = past.origin[i]
      BY DEF PastShape
<1>2. [past EXCEPT !.origin[id] = flow] = p
      BY DEF PastShape
<1> HIDE DEF origin
<1>3. /\ PastShape(p) /\ p.silent = past.silent /\ p.refused = past.refused
      /\ p.idle = past.idle /\ p.origin = origin
      BY <1>1 DEF PastShape
<1> HIDE DEF p
<1>4. QED  BY <1>1, <1>2, <1>3

\* The bridge's table with its new entry, and the history.
LEMMA RoutedParts ==
  ASSUME BridgeInv, bridge.pc = "drain", captured # <<>>,
         NEW flow \in Flows, NEW id \in Ids, NEW entry \in Entries,
         NEW known \in [Flows -> Entries], Routed(flow, id, entry, known)
  PROVE  /\ associations' \in [Flows -> Entries] /\ Bounded(Held(associations'))
         /\ associations'[flow] = entry /\ id # 0
         /\ \A f \in Flows \ {flow} : associations'[f] = known[f] /\ associations[f].id # id
         /\ past.origin[id] \in {flow, None}
         /\ \A i \in Ids \ {id} : associations[flow].id # i
         /\ PastShape(past') /\ past'.silent = past.silent /\ past'.refused = past.refused
         /\ past'.idle = past.idle /\ past'.origin[id] = flow
         /\ \A i \in Ids \ {id} : past'.origin[i] = past.origin[i]
<1>1. /\ associations' \in [Flows -> Entries] /\ associations'[flow] = entry
      /\ \A f \in Flows \ {flow} : associations'[f] = known[f]
      BY DEF Routed
<1>2. Origins /\ CountsInv
      BY TablesStarting, RouteStarting
<1>3. id # 0
      BY TablesStarting
<1>4. past.origin[id] \in {flow, None}
      BY <1>2, <1>3 DEF Routed, Origins
<1>5. \A f \in Flows \ {flow} : associations[f].id # id
      BY <1>2, <1>3, <1>4, TablesStarting DEF Origins
<1>6. \A i \in Ids \ {id} : associations[flow].id # i
      BY TablesStarting DEF Routed
<1>7. Bounded(Held(associations'))
  <2>1. Held(known) \subseteq Held(associations) /\ Bounded(Held(known))
        BY <1>2, BoundedSubset DEF Routed, Thinned, CountsInv
  <2>2. Held(associations') \subseteq Held(known) \union {flow}
        BY <1>1 DEF Held
  <2>3. flow \in Held(known) \/ ~(Cardinality(Held(known)) >= Limit)
    <3>1. CASE associations[flow].id = id /\ known = associations
          BY <1>3, <3>1, TablesStarting, HeldIn
    <3>2. CASE ~Full(known)
          BY <3>2 DEF Full
    <3>3. QED  BY <3>1, <3>2 DEF Routed
  <2>4. QED  BY <2>1, <2>2, <2>3, BoundedAdd
<1>8. /\ PastShape(past') /\ past'.silent = past.silent /\ past'.refused = past.refused
      /\ past'.idle = past.idle /\ past'.origin[id] = flow
      /\ \A i \in Ids \ {id} : past'.origin[i] = past.origin[i]
  <2>1. CASE past' = past /\ associations[flow].id = id
        BY <1>2, <1>3, <2>1, TablesStarting DEF Origins
  <2>2. CASE past' = [past EXCEPT !.origin[id] = flow]
    <3> DEFINE p == [past EXCEPT !.origin[id] = flow]
    <3>1. /\ PastShape(p) /\ p.silent = past.silent /\ p.refused = past.refused
          /\ p.idle = past.idle /\ p.origin[id] = flow
          /\ \A i \in Ids \ {id} : p.origin[i] = past.origin[i]
          BY TablesStarting, PastNotes
    <3>2. past' = p
          BY <2>2
    <3> HIDE DEF p
    <3>3. QED  BY <3>1, <3>2
  <2>3. QED  BY <2>1, <2>2 DEF Routed
<1>9. QED  BY <1>1, <1>3, <1>4, <1>5, <1>6, <1>7, <1>8

LEMMA RouteKeepsTables ==
  ASSUME BridgeInv, bridge.pc = "drain", captured # <<>>, UNCHANGED <<transport, core, inbound>>,
         NEW flow \in Flows, NEW id \in Ids, NEW entry \in Entries,
         NEW known \in [Flows -> Entries], Routed(flow, id, entry, known)
  PROVE  TablesInv' /\ CountsInv'
<1>1. /\ Origins /\ TransportFollows /\ TablesInv
      BY RouteStarting
<1>2. /\ associations' \in [Flows -> Entries] /\ Bounded(Held(associations'))
      /\ associations'[flow] = entry /\ id # 0
      /\ \A f \in Flows \ {flow} : associations'[f] = known[f] /\ associations[f].id # id
      /\ past.origin[id] \in {flow, None}
      /\ PastShape(past') /\ past'.silent = past.silent /\ past'.refused = past.refused
      /\ past'.idle = past.idle /\ past'.origin[id] = flow
      /\ \A i \in Ids \ {id} : past'.origin[i] = past.origin[i]
      BY RoutedParts
<1>3. entry.id = id /\ entry.age = 0 /\ Absent.id = 0
      BY DEF Routed, Absent
\* An entry of another flow that stays is the old one.
<1>4. ASSUME NEW f \in Flows, f # flow, associations'[f].id # 0
      PROVE  /\ associations'[f] = associations[f] /\ associations[f].id # 0
             /\ associations[f].id \in Ids \ {id}
  <2>1. associations'[f] = associations[f]
        BY <1>2, <1>3, <1>4 DEF Routed, Thinned
  <2>2. QED  BY <1>2, <1>4, <2>1, TablesStarting DEF Entries
<1>5. Origins'
  <2>1. ASSUME NEW f \in Flows, associations'[f].id # 0
        PROVE  past'.origin[associations'[f].id] = f
    <3>1. CASE f = flow
          BY <1>2, <1>3, <3>1
    <3>2. CASE f # flow
          BY <1>1, <1>2, <1>4, <2>1, <3>2 DEF Origins
    <3>3. QED  BY <3>1, <3>2
  <2>2. \A i \in Ids : transport[i].id # 0 \/ core[i].id # 0 => past'.origin[i] # None
        BY <1>1, <1>2, TablesStarting DEF Origins
  <2>3. QED  BY <1>1, <2>1, <2>2 DEF Origins
<1>6. TransportFollows'
  <2> SUFFICES ASSUME NEW f \in Flows, associations'[f].id # 0,
                      past.idle[associations'[f].id] < Idle
               PROVE  LET i == associations'[f].id
                      IN IF transport[i].id = 0
                         THEN core[i].seen = {}
                         ELSE /\ transport[i].age <= past.idle[i]
                              /\ \A s \in core[i].seen : s < transport[i].next
      BY <1>2 DEF TransportFollows
  <2>1. CASE f = flow /\ associations[flow].id = id
        BY <1>1, <1>2, <1>3, <2>1 DEF TransportFollows
  <2>2. CASE f = flow /\ past.origin[id] = None
    <3>1. transport[id].id = 0 /\ core[id].seen = {}
          BY <1>1, <2>2 DEF Origins
    <3>2. QED  BY <1>2, <1>3, <2>2, <3>1
  <2>3. CASE f # flow
        BY <1>1, <1>4, <2>3 DEF TransportFollows
  <2>4. QED  BY <2>1, <2>2, <2>3 DEF Routed
<1>7. SendingKnown'
  <2>1. bridge'.sending = id
        BY RoutedBridge
  <2>2. QED  BY <1>2, <1>3, <2>1 DEF SendingKnown
<1>8. RepliesMatch' /\ OnlyIdleFlowsRepeat'
  <2>1. bridge'.records = <<>>
        BY RoutedBridge
  <2>2. RepliesMatch'
        BY <2>1 DEF RepliesMatch
  <2>3. QED  BY <1>1, <1>2, <2>2 DEF TablesInv, OnlyIdleFlowsRepeat
<1>9. CountsInv'
  <2>1. Given' \subseteq Given \union {id}
        BY <1>2 DEF Given
  <2>2. IsFiniteSet(Given \union {id})
        BY TablesStarting, FS_AddElement DEF CountsInv
  <2>3. IsFiniteSet(Given')
        BY <2>1, <2>2, FS_Subset
  <2>4. QED  BY <1>2, <2>3, TablesStarting DEF CountsInv
<1>10. QED  BY <1>5, <1>6, <1>7, <1>8, <1>9 DEF TablesInv

\* While nothing was too old, the sweep of a full table takes nothing.
LEMMA RouteIsQuiet ==
  ASSUME BridgeInv, bridge.pc = "drain", captured # <<>>, UNCHANGED <<transport, core, inbound>>,
         NEW flow \in Flows, NEW id \in Ids, NEW entry \in Entries,
         NEW known \in [Flows -> Entries], Routed(flow, id, entry, known)
  PROVE  QuietInv'
<1>1. /\ associations' \in [Flows -> Entries]
      /\ associations'[flow] = entry /\ id # 0
      /\ \A f \in Flows \ {flow} : associations'[f] = known[f] /\ associations[f].id # id
      /\ past.origin[id] \in {flow, None}
      /\ \A i \in Ids \ {id} : associations[flow].id # i
      /\ past'.silent = past.silent /\ past'.origin[id] = flow
      /\ \A i \in Ids \ {id} : past'.origin[i] = past.origin[i]
      BY RoutedParts
<1> SUFFICES ASSUME ~past.silent PROVE Remembered' /\ Unseen' /\ SeenFromCore'
    BY <1>1 DEF QuietInv
<1>2. Origins /\ Remembered /\ Unseen /\ SeenFromCore
      BY RouteStarting, TablesStarting DEF QuietInv
<1>3. entry.id = id /\ entry.age = 0
      BY DEF Routed
<1>4. \A f \in Flows \ {flow} : associations'[f] = associations[f]
      BY <1>1, <1>2 DEF Routed, Thinned, Remembered
\* The association of a known identifier that is not this one is another flow's.
<1>5. ASSUME NEW i \in Ids \ {id}, past.origin[i] # None
      PROVE  /\ past.origin[i] \in Flows \ {flow} /\ associations[past.origin[i]].id = i
             /\ associations'[past.origin[i]] = associations[past.origin[i]]
  <2>1. past.origin[i] \in Flows /\ associations[past.origin[i]].id = i
        BY <1>2, <1>5, TablesStarting DEF Remembered, Known
  <2>2. past.origin[i] # flow
        BY <1>1, <2>1
  <2>3. QED  BY <1>4, <2>1, <2>2
<1>6. Remembered'
  <2>1. \A f \in Flows : associations'[f].id # 0 => associations'[f].age < Idle
        BY <1>1, <1>2, <1>3, <1>4 DEF Remembered, Idle
  <2>2. ASSUME NEW i \in Ids, past'.origin[i] # None PROVE Known(i)'
    <3>1. CASE i = id
          BY <1>1, <1>3, <3>1, TablesStarting DEF Known
    <3>2. CASE i # id
          BY <1>1, <1>5, <2>2, <3>2 DEF Known
    <3>3. QED  BY <3>1, <3>2
  <2>3. QED  BY <1>2, <2>1, <2>2 DEF Remembered
<1>7. SeenFromCore'
  <2>1. ASSUME NEW f \in Flows, associations'[f].id # 0, NEW s \in associations'[f].seen
        PROVE  core[associations'[f].id].id # 0 /\ s <= core[associations'[f].id].next
    <3>1. associations[f].id = associations'[f].id /\ associations[f].seen = associations'[f].seen
      <4>1. CASE f = flow
            BY <1>1, <1>3, <2>1, <4>1 DEF Routed
      <4>2. CASE f # flow
            BY <1>4, <4>2
      <4>3. QED  BY <4>1, <4>2
    <3>2. QED  BY <1>2, <2>1, <3>1 DEF SeenFromCore
  <2>2. QED  BY <1>2, <2>1 DEF SeenFromCore
<1>8. Unseen'
  <2>1. ASSUME NEW frame \in inbound
        PROVE  frame.sequence \notin associations'[past'.origin[frame.id]].seen
    <3>1. PICK i : i = frame.id
          OBVIOUS
    <3>2. i \in Ids
          BY <3>1, TablesStarting DEF Frames
    <3>3. core[i].id # 0 /\ frame.sequence \notin associations[past.origin[i]].seen
          BY <1>2, <3>1 DEF Unseen
    <3>4. past.origin[i] # None
          BY <1>2, <3>2, <3>3 DEF Origins
    <3>5. CASE i = id
      <4>1. past.origin[id] = flow
            BY <1>1, <3>4, <3>5
      <4>2. entry.seen = {} \/ entry.seen = associations[flow].seen
            BY DEF Routed
      <4>3. QED  BY <1>1, <3>1, <3>3, <3>5, <4>1, <4>2
    <3>6. CASE i # id
          BY <1>1, <1>5, <3>1, <3>2, <3>3, <3>4, <3>6
    <3>7. QED  BY <3>5, <3>6
  <2>2. QED  BY <1>2, <2>1 DEF Unseen
<1>9. QED  BY <1>6, <1>7, <1>8

LEMMA BridgeRouting == ASSUME BridgeInv, BridgeRoutes PROVE BridgeInv'
<1>1. /\ bridge.pc = "drain" /\ captured # <<>> /\ captured' = Tail(captured)
      /\ UNCHANGED <<control, driver, request, open, flags, receiver, free, transport, core,
                     inbound, budget>>
      BY DEF BridgeRoutes
<1> SUFFICES ASSUME NEW flow \in Flows, NEW id \in Ids, NEW entry \in Entries,
                    NEW known \in [Flows -> Entries], Routed(flow, id, entry, known)
             PROVE  BridgeInv'
    BY RouteChooses
<1>2. /\ BridgeShape(bridge') /\ bridge'.pc = "send" /\ bridge'.records = <<>>
      /\ bridge'.space = Space
      BY <1>1, RoutedBridge
<1>3. TablesInv' /\ CountsInv' /\ QuietInv'
      BY <1>1, RouteKeepsTables, RouteIsQuiet
<1>4. BuffersInv' /\ ReasonInv'
      BY <1>1, <1>2, RouteKeepsBuffers DEF ReasonInv
<1>5. /\ associations' \in [Flows -> Entries] /\ PastShape(past') /\ past'.origin[id] = flow
      /\ \A i \in Ids \ {id} : past'.origin[i] = past.origin[i]
      BY <1>1, RoutedParts
<1>6. \A i \in Ids : past'.origin[i] \in budget.flows \union {None}
  <2>1. flow \in budget.flows
        BY <1>1, RouteStarting DEF Routed, Captured
  <2>2. QED  BY <1>5, <2>1 DEF BridgeInv, BatchesInv
<1>7. /\ FlowsShape(associations') /\ IdsShape(transport') /\ IdsShape(core')
      /\ BudgetShape(budget') /\ free' \in Nat
      BY <1>1, <1>5, TablesStarting DEF FlowsShape, IdsShape, BridgeInv, Shape
<1>8. QED  BY <1>1, <1>2, <1>3, <1>4, <1>5, <1>6, <1>7, RouteStarting, DrainFrame

\* What holds before a datagram is sent: it is sent for a flow's association.
LEMMA SendStarting ==
  ASSUME BridgeInv, bridge.pc = "send"
  PROVE  /\ Working /\ TablesInv /\ Origins /\ TransportFollows /\ AnyCapture
         /\ bridge.sending \in Ids /\ past.origin[bridge.sending] # None
         /\ \E f \in Flows : associations[f].id = bridge.sending
<1>1. /\ Working /\ TablesInv /\ Origins /\ TransportFollows /\ SendingKnown
      BY TablesStarting DEF Working, Returned, TablesInv
<1>2. bridge.sending \in Ids
      BY <1>1, BridgeStarting DEF SendingKnown, BridgeShape
<1>3. PICK f \in Flows : associations[f].id = bridge.sending /\ bridge.sending # 0
      BY <1>1 DEF SendingKnown
<1>4. past.origin[bridge.sending] # None
      BY <1>1, <1>3, TablesStarting DEF Origins
<1>5. AnyCapture
      BY <1>2, <1>4 DEF AnyCapture
<1>6. QED  BY <1>1, <1>2, <1>3, <1>4, <1>5

\* What the Core makes of a frame: at most its own association changes, but for a sweep.
LEMMA Receiving ==
  ASSUME NEW table \in [Ids -> Entries], Bounded(Held(table)), 0 \notin Ids,
         \A i \in Ids : table[i].id = 0 => table[i].seen = {},
         NEW id \in Ids, NEW sequence \in Nat
  PROVE  LET got == CoreReceives(table, id, sequence)
         IN /\ got.refused \subseteq {id}
            /\ sequence \notin table[id].seen => got.refused = {}
            /\ got.table \in [Ids -> Entries] /\ Bounded(Held(got.table))
            /\ \A i \in Ids \ {id} : \/ got.table[i] = table[i]
                                     \/ /\ got.table[i] = Absent
                                        /\ table[i].id # 0 /\ ~(table[i].age < Idle)
            /\ got.table[id].seen \subseteq table[id].seen \union {sequence}
            /\ got.table[id].id = 0 => got.table[id].seen = {}
            /\ got.table[id].id # 0 => got.table[id].age = 0 \/ got.table[id] = table[id]
            /\ table[id].id # 0 =>
                 got.table[id].id # 0 /\ got.table[id].next = table[id].next
<1> DEFINE got   == CoreReceives(table, id, sequence)
           known == IF id \in Held(table) \/ ~Full(table) THEN table ELSE Swept(table)
           entry == IF id \in Held(table) THEN table[id] ELSE [Entry(id) EXCEPT !.next = 0]
<1>1. Thinned(Ids, table, known) /\ (id \in Held(table) <=> table[id].id # 0)
  <2>1. Thinned(Ids, table, table) /\ Thinned(Ids, table, Swept(table))
        BY SweptTable DEF Thinned
  <2>2. QED  BY <2>1, HeldIn
<1>2. /\ known \in [Ids -> Entries] /\ Bounded(Held(known))
      /\ (id \in Held(known) <=> known[id].id # 0)
      /\ id \in Held(table) => known = table
      BY <1>1, BoundedSubset, HeldIn DEF Thinned
<1>3. Absent.id = 0 /\ Absent.seen = {}
      BY DEF Absent
<1>4. id \notin Held(table) => known[id].id = 0 /\ known[id].seen = {}
      BY <1>1, <1>3 DEF Thinned
<1>5. got = IF id \notin Held(table) /\ Full(known)
            THEN [table |-> known, refused |-> {}]
            ELSE IF Accepts(entry, sequence)
            THEN [table |-> [known EXCEPT ![id] = Accepted(entry, sequence)], refused |-> {}]
            ELSE [table |-> known, refused |-> {id}]
      BY DEF CoreReceives
<1>6. /\ entry \in Entries /\ entry.id # 0 /\ entry.seen \subseteq table[id].seen
      /\ id \in Held(table) => entry = table[id]
      /\ id \notin Held(table) => entry.seen = {}
  <2>1. CASE id \in Held(table)
        BY <1>1, <2>1
  <2>2. CASE id \notin Held(table)
    <3>1. /\ [Entry(id) EXCEPT !.next = 0] \in Entries /\ [Entry(id) EXCEPT !.next = 0].id = id
          /\ [Entry(id) EXCEPT !.next = 0].seen = {}
          BY EntryMade DEF Entries
    <3>2. QED  BY <2>2, <3>1
  <2>3. QED  BY <2>1, <2>2
<1> HIDE DEF got, known, entry
<1>7. CASE got.table = known /\ (id \in Held(table) \/ Full(known))
           /\ (got.refused = {} \/ (got.refused = {id} /\ ~Accepts(entry, sequence)))
  <2>1. sequence \notin table[id].seen => got.refused = {}
        BY <1>6, <1>7 DEF Accepts
  <2>2. \A i \in Ids : \/ got.table[i] = table[i]
                       \/ got.table[i] = Absent /\ table[i].id # 0 /\ ~(table[i].age < Idle)
        BY <1>1, <1>7 DEF Thinned
  <2>3. /\ got.table[id].seen \subseteq table[id].seen
        /\ got.table[id].id = 0 => got.table[id].seen = {}
        /\ got.table[id].id # 0 => got.table[id] = table[id]
        BY <1>3, <2>2
  <2>4. table[id].id # 0 => got.table[id] = table[id]
        BY <1>1, <1>2, <1>7
  <2>5. QED  BY <1>2, <1>7, <2>1, <2>2, <2>3, <2>4 DEF got
<1>8. CASE /\ ~(id \notin Held(table) /\ Full(known)) /\ Accepts(entry, sequence)
  <2>1. got.table = [known EXCEPT ![id] = Accepted(entry, sequence)] /\ got.refused = {}
        BY <1>5, <1>8
  <2>2. /\ Accepted(entry, sequence) \in Entries /\ Accepted(entry, sequence).id = entry.id
        /\ Accepted(entry, sequence).age = 0 /\ Accepted(entry, sequence).next = entry.next
        /\ Accepted(entry, sequence).seen = entry.seen \union {sequence}
        BY <1>6, EntryAccepts
  <2>3. /\ got.table \in [Ids -> Entries] /\ got.table[id] = Accepted(entry, sequence)
        /\ \A i \in Ids \ {id} : got.table[i] = known[i]
        BY <1>2, <2>1, <2>2
  <2>4. Bounded(Held(got.table))
    <3>1. Held(got.table) \subseteq Held(known) \union {id}
          BY <1>2, <2>3 DEF Held
    <3>2. id \in Held(known) \/ ~(Cardinality(Held(known)) >= Limit)
          BY <1>2, <1>8 DEF Full
    <3>3. QED  BY <1>2, <3>1, <3>2, BoundedAdd
  <2>5. \A i \in Ids \ {id} : \/ got.table[i] = table[i]
                              \/ got.table[i] = Absent /\ table[i].id # 0 /\ ~(table[i].age < Idle)
        BY <1>1, <2>3 DEF Thinned
  <2>6. got.table[id].id # 0 /\ got.table[id].age = 0
        BY <1>6, <2>2, <2>3
  <2>7. got.table[id].seen \subseteq table[id].seen \union {sequence}
        BY <1>6, <2>2, <2>3
  <2>8. table[id].id # 0 => got.table[id].next = table[id].next
        BY <1>1, <1>6, <2>2, <2>3
  <2>9. QED  BY <2>1, <2>3, <2>4, <2>5, <2>6, <2>7, <2>8 DEF got
<1>9. QED
  <2>1. CASE id \notin Held(table) /\ Full(known)
    <3>1. got.table = known /\ got.refused = {}
          BY <1>5, <2>1
    <3>2. /\ got.table = known /\ (id \in Held(table) \/ Full(known))
          /\ (got.refused = {} \/ (got.refused = {id} /\ ~Accepts(entry, sequence)))
          BY <2>1, <3>1
    <3>3. QED  BY <1>7, <3>2
  <2>2. CASE ~(id \notin Held(table) /\ Full(known)) /\ ~Accepts(entry, sequence)
    <3>1. got.table = known /\ got.refused = {id}
          BY <1>5, <2>2
    <3>2. id \in Held(table)
          BY <1>6, <2>2 DEF Accepts
    <3>3. QED  BY <1>7, <2>2, <3>1, <3>2
  <2>3. QED  BY <1>8, <2>1, <2>2

\* What the transport makes of a datagram, from the table as its sweep has left it.
LEMMA Numbering ==
  ASSUME NEW table \in [Ids -> Entries], 0 \notin Ids, NEW id \in Ids
  PROVE  LET next == CoreAssociation(table, id)
         IN /\ next \in Entries /\ next.id # 0 /\ next.age = 0 /\ next.next \in Nat \ {0}
            /\ next.seen \subseteq table[id].seen
            /\ table[id].id # 0 => next.next = table[id].next + 1
<1> DEFINE entry == IF id \in Held(table) THEN table[id] ELSE Entry(id)
           next  == CoreAssociation(table, id)
<1>1. id \in Held(table) <=> table[id].id # 0
      BY HeldIn
<1>2. /\ entry \in Entries /\ entry.id # 0 /\ entry.seen \subseteq table[id].seen
      /\ table[id].id # 0 => entry = table[id]
      BY <1>1, EntryMade
<1>3. next = [entry EXCEPT !.next = entry.next + 1, !.age = 0]
      BY DEF CoreAssociation
<1> HIDE DEF entry, next
<1>4. entry.next \in Nat /\ entry.next + 1 \in Nat \ {0}
      BY <1>2 DEF Entries
<1> DEFINE a == [entry EXCEPT !.next = entry.next + 1]
<1>5. a \in Entries /\ a.id = entry.id /\ a.seen = entry.seen /\ a.next = entry.next + 1
      BY <1>2, <1>4 DEF Entries
<1>6. next = [a EXCEPT !.age = 0]
      BY <1>3
<1> HIDE DEF a
<1>7. /\ next \in Entries /\ next.id = entry.id /\ next.age = 0 /\ next.next = entry.next + 1
      /\ next.seen = entry.seen
      BY <1>5, <1>6 DEF Entries
<1>8. QED  BY <1>2, <1>4, <1>7 DEF next

\* The history of a frame that was sent, and of one the Core has dropped.
Noted(id, dropped) ==
  [past EXCEPT !.refused = past.refused \union dropped, !.idle = Awake(id)]

LEMMA SendNotes ==
  ASSUME NEW id \in Ids, PastShape(past), NEW dropped \in SUBSET Ids
  PROVE  LET p == Noted(id, dropped)
         IN /\ PastShape(p) /\ p.origin = past.origin /\ p.silent = past.silent
            /\ p.refused = past.refused \union dropped
            /\ p.idle[id] = IF past.idle[id] < Idle THEN 0 ELSE past.idle[id]
            /\ \A i \in Ids \ {id} : p.idle[i] = past.idle[i]
<1> DEFINE q == [past EXCEPT !.idle = Awake(id)]
           p == Noted(id, dropped)
<1>1. /\ PastShape(q) /\ q.origin = past.origin /\ q.silent = past.silent
      /\ q.refused = past.refused
      /\ q.idle[id] = IF past.idle[id] < Idle THEN 0 ELSE past.idle[id]
      /\ \A i \in Ids \ {id} : q.idle[i] = past.idle[i]
      BY Awakes
<1>2. p = [q EXCEPT !.refused = q.refused \union dropped]
  <2>1. q.refused = past.refused
        BY <1>1
  <2>2. DOMAIN past = {"origin", "refused", "silent", "idle"}
        BY DEF PastShape
  <2>3. QED  BY <2>1, <2>2 DEF Noted
<1> HIDE DEF p, q
<1>3. q.refused \union dropped \in SUBSET Ids
      BY <1>1 DEF PastShape
<1>4. /\ PastShape(p) /\ p.origin = q.origin /\ p.silent = q.silent
      /\ p.refused = q.refused \union dropped /\ p.idle = q.idle
      BY <1>1, <1>2, <1>3 DEF PastShape
<1>5. QED  BY <1>1, <1>4 DEF p

\* What a datagram that is sent does.
SendDoes(id, sequence) ==
  /\ free' = free + 1
  /\ BridgeShape(bridge') /\ bridge'.pc = "drain"
  /\ bridge'.records = <<>> /\ bridge'.space = Space
  /\ transport' \in [Ids -> Entries] /\ Bounded(Held(transport'))
  /\ transport'[id].id # 0 /\ transport'[id].age = 0 /\ transport'[id].next = sequence + 1
  /\ \A i \in Ids : transport'[i].seen \subseteq transport[i].seen
  /\ \A i \in Ids \ {id} : \/ transport'[i] = transport[i]
                           \/ /\ transport'[i] = Absent
                              /\ transport[i].id # 0 /\ ~(transport[i].age < Idle)
  /\ core' \in [Ids -> Entries] /\ Bounded(Held(core'))
  /\ \A i \in Ids : core'[i].id = 0 => core'[i].seen = {}
  /\ core'[id].seen \subseteq core[id].seen \union {sequence}
  /\ core'[id].id # 0 => core'[id].age = 0 \/ core'[id] = core[id]
  /\ \A i \in Ids \ {id} : core'[i] = core[i] \/ core'[i] = Absent
  /\ \A i \in Ids : core[i].id # 0 /\ core[i].age < Idle =>
                      core'[i].id # 0 /\ core'[i].next = core[i].next
  /\ BudgetShape(budget') /\ budget'.flows = budget.flows
  /\ PastShape(past') /\ past'.silent = past.silent /\ past'.origin = past.origin
  /\ past'.idle[id] = IF past.idle[id] < Idle THEN 0 ELSE past.idle[id]
  /\ \A i \in Ids \ {id} : past'.idle[i] = past.idle[i]
  /\ past'.refused \subseteq past.refused \union {id}
  /\ past.idle[id] < Idle =>
       past'.refused = past.refused /\ \A s \in core[id].seen : s < sequence

\* Of an association the Broker had to do with the transport's entry has outlasted the
\* sweep, or nothing has reached the Core yet: the number is a new one.
LEMMA NumberIsNew ==
  ASSUME BridgeInv, bridge.pc = "send", NEW left, Thinned(Ids, transport, left),
         NEW id, id = bridge.sending, past.idle[id] < Idle,
         NEW sequence \in Nat, CoreAssociation(left, id).next = sequence + 1
  PROVE  \A s \in core[id].seen : s < sequence
<1>1. PICK f \in Flows : associations[f].id = id
      BY SendStarting
<1>2. id \in Ids /\ id # 0 /\ TransportFollows
      BY SendStarting, TablesStarting
<1>3. CASE transport[id].id = 0
      BY <1>1, <1>2, <1>3 DEF TransportFollows
<1>4. CASE transport[id].id # 0
  <2>1. transport[id].age <= past.idle[id] /\ \A s \in core[id].seen : s < transport[id].next
        BY <1>1, <1>2, <1>4 DEF TransportFollows
  <2>2. transport[id].age < Idle
        BY <1>2, <2>1, TablesStarting DEF PastShape, Entries, Idle
  <2>3. left[id] = transport[id] /\ left \in [Ids -> Entries]
        BY <1>2, <2>2 DEF Thinned
  <2>4. CoreAssociation(left, id).next = transport[id].next + 1
        BY <1>2, <1>4, <2>3, TablesStarting, Numbering
  <2>5. transport[id].next = sequence
    <3>1. transport[id].next \in Nat
          BY <1>2, TablesStarting DEF Entries
    <3>2. transport[id].next + 1 = sequence + 1
          BY <2>4
    <3>3. QED  BY <3>1, <3>2
  <2>6. QED  BY <2>1, <2>5
<1>5. QED  BY <1>3, <1>4

LEMMA SendReaches ==
  ASSUME BridgeInv, bridge.pc = "send", NEW id, id = bridge.sending,
         NEW left, Thinned(Ids, transport, left), NEW seen, Thinned(Ids, core, seen),
         id \in Held(left) \/ ~Full(left), NEW got,
         got = CoreReceives(seen, id, CoreAssociation(left, id).next - 1),
         transport' = [left EXCEPT ![id] = CoreAssociation(left, id)],
         bridge' = [bridge EXCEPT !.pc = "drain", !.sending = 0], free' = free + 1,
         \/ /\ core' = got.table /\ budget' = budget
            /\ past' = [past EXCEPT !.refused = past.refused \union got.refused,
                                    !.idle = Awake(id)]
         \/ /\ MayStill("losses") /\ Spend("losses") /\ core' = core
            /\ past' = [past EXCEPT !.idle = Awake(id)]
  PROVE  \E sequence \in Nat : SendDoes(id, sequence)
<1>1. /\ id \in Ids /\ id # 0 /\ Origins /\ 0 \notin Ids
      /\ left \in [Ids -> Entries] /\ seen \in [Ids -> Entries]
      BY SendStarting, TablesStarting DEF Thinned
<1> DEFINE next == CoreAssociation(left, id)
<1>2. /\ next \in Entries /\ next.id # 0 /\ next.age = 0 /\ next.next \in Nat \ {0}
      /\ next.seen \subseteq left[id].seen
      BY <1>1, Numbering
<1>3. PICK sequence \in Nat : next.next = sequence + 1 /\ next.next - 1 = sequence
  <2>1. next.next - 1 \in Nat /\ next.next = (next.next - 1) + 1
        BY <1>2
  <2>2. QED  BY <2>1
<1>4. past.idle[id] < Idle => \A s \in core[id].seen : s < sequence
      BY <1>3, NumberIsNew
<1>5. Absent.id = 0 /\ Absent.seen = {}
      BY DEF Absent
<1>6. /\ transport' \in [Ids -> Entries] /\ transport'[id] = next
      /\ \A i \in Ids \ {id} : transport'[i] = left[i]
      BY <1>1, <1>2
<1> HIDE DEF next
<1>7. Bounded(Held(transport'))
  <2>1. Bounded(Held(left))
        BY TablesStarting, BoundedSubset DEF CountsInv, Thinned
  <2>2. Held(transport') \subseteq Held(left) \union {id}
        BY <1>1, <1>6 DEF Held
  <2>3. id \in Held(left) \/ ~(Cardinality(Held(left)) >= Limit)
        BY DEF Full
  <2>4. QED  BY <2>1, <2>2, <2>3, BoundedAdd
<1>8. /\ transport'[id].id # 0 /\ transport'[id].age = 0 /\ transport'[id].next = sequence + 1
      /\ \A i \in Ids : transport'[i].seen \subseteq transport[i].seen
      /\ \A i \in Ids \ {id} : \/ transport'[i] = transport[i]
                               \/ /\ transport'[i] = Absent
                                  /\ transport[i].id # 0 /\ ~(transport[i].age < Idle)
  <2>1. \A i \in Ids : left[i].seen \subseteq transport[i].seen
        BY <1>5 DEF Thinned
  <2>2. QED  BY <1>1, <1>2, <1>3, <1>6, <2>1 DEF Thinned
\* The Core's table as its sweep has left it.
<1>9. /\ Bounded(Held(seen)) /\ \A i \in Ids : seen[i].id = 0 => seen[i].seen = {}
      /\ \A i \in Ids : seen[i].seen \subseteq core[i].seen
      /\ \A i \in Ids : core[i].id # 0 /\ core[i].age < Idle => seen[i] = core[i]
      /\ \A i \in Ids : seen[i] = core[i] \/ seen[i] = Absent
      BY <1>1, <1>5, TablesStarting, BoundedSubset DEF CountsInv, Thinned, Origins
<1>10. /\ got.refused \subseteq {id} /\ (sequence \notin seen[id].seen => got.refused = {})
       /\ got.table \in [Ids -> Entries] /\ Bounded(Held(got.table))
       /\ \A i \in Ids \ {id} : \/ got.table[i] = seen[i]
                                \/ /\ got.table[i] = Absent
                                   /\ seen[i].id # 0 /\ ~(seen[i].age < Idle)
       /\ got.table[id].seen \subseteq seen[id].seen \union {sequence}
       /\ got.table[id].id = 0 => got.table[id].seen = {}
       /\ got.table[id].id # 0 => got.table[id].age = 0 \/ got.table[id] = seen[id]
       /\ seen[id].id # 0 =>
            got.table[id].id # 0 /\ got.table[id].next = seen[id].next
  <2>1. got = CoreReceives(seen, id, sequence)
        BY <1>3 DEF next
  <2>2. QED  BY <1>1, <1>9, <2>1, Receiving
<1>11. /\ core' \in [Ids -> Entries] /\ Bounded(Held(core'))
       /\ \A i \in Ids : core'[i].id = 0 => core'[i].seen = {}
       /\ core'[id].seen \subseteq core[id].seen \union {sequence}
       /\ core'[id].id # 0 => core'[id].age = 0 \/ core'[id] = core[id]
       /\ \A i \in Ids \ {id} : core'[i] = core[i] \/ core'[i] = Absent
       /\ \A i \in Ids : core[i].id # 0 /\ core[i].age < Idle =>
                           core'[i].id # 0 /\ core'[i].next = core[i].next
  <2>1. CASE core' = core
        BY <1>1, <2>1, TablesStarting DEF Origins, CountsInv
  <2>2. CASE core' = got.table
    <3>1. \A i \in Ids \ {id} : core'[i] = core[i] \/ core'[i] = Absent
          BY <1>9, <1>10, <2>2
    <3>2. \A i \in Ids : core'[i].id = 0 => core'[i].seen = {}
          BY <1>1, <1>5, <1>10, <2>2, <3>1 DEF Origins
    <3>3. core'[id].seen \subseteq core[id].seen \union {sequence}
          BY <1>1, <1>9, <1>10, <2>2
    <3>4. core'[id].id # 0 => core'[id].age = 0 \/ core'[id] = core[id]
          BY <1>1, <1>5, <1>9, <1>10, <2>2
    <3>5. \A i \in Ids : core[i].id # 0 /\ core[i].age < Idle =>
                           core'[i].id # 0 /\ core'[i].next = core[i].next
          BY <1>9, <1>10, <2>2
    <3>6. QED  BY <1>10, <2>2, <3>1, <3>2, <3>3, <3>4, <3>5
  <2>3. QED  BY <2>1, <2>2
<1>12. BudgetShape(budget') /\ budget'.flows = budget.flows
       BY TablesStarting, BudgetSpent DEF SpentOn
<1>13. /\ PastShape(past') /\ past'.silent = past.silent /\ past'.origin = past.origin
       /\ past'.idle[id] = IF past.idle[id] < Idle THEN 0 ELSE past.idle[id]
       /\ \A i \in Ids \ {id} : past'.idle[i] = past.idle[i]
       /\ past'.refused \in {past.refused, past.refused \union got.refused}
  <2>1. CASE past' = [past EXCEPT !.refused = past.refused \union got.refused, !.idle = Awake(id)]
    <3>1. got.refused \in SUBSET Ids
          BY <1>1, <1>10
    <3> DEFINE p == Noted(id, got.refused)
    <3>2. /\ PastShape(p) /\ p.origin = past.origin /\ p.silent = past.silent
          /\ p.refused = past.refused \union got.refused
          /\ p.idle[id] = IF past.idle[id] < Idle THEN 0 ELSE past.idle[id]
          /\ \A i \in Ids \ {id} : p.idle[i] = past.idle[i]
          BY <1>1, <3>1, TablesStarting, SendNotes
    <3>3. past' = p
          BY <2>1 DEF Noted
    <3> HIDE DEF p
    <3>4. QED  BY <3>2, <3>3
  <2>2. CASE past' = [past EXCEPT !.idle = Awake(id)]
    <3> DEFINE p == [past EXCEPT !.idle = Awake(id)]
    <3>1. /\ PastShape(p) /\ p.origin = past.origin /\ p.silent = past.silent
          /\ p.refused = past.refused
          /\ p.idle[id] = IF past.idle[id] < Idle THEN 0 ELSE past.idle[id]
          /\ \A i \in Ids \ {id} : p.idle[i] = past.idle[i]
          BY <1>1, TablesStarting, Awakes
    <3>2. past' = p
          BY <2>2
    <3> HIDE DEF p
    <3>3. QED  BY <3>1, <3>2
  <2>3. QED  BY <2>1, <2>2
<1>14. /\ past'.refused \subseteq past.refused \union {id}
       /\ past.idle[id] < Idle => past'.refused = past.refused
  <2>1. past.idle[id] < Idle => sequence \notin seen[id].seen
        BY <1>1, <1>4, <1>9
  <2>2. QED  BY <1>10, <1>13, <2>1
<1>15. /\ BridgeShape(bridge') /\ bridge'.pc = "drain"
       /\ bridge'.records = <<>> /\ bridge'.space = Space
  <2> DEFINE b == [bridge EXCEPT !.pc = "drain", !.sending = 0]
  <2>1. BridgeShape(b) /\ b.pc = "drain" /\ b.records = bridge.records /\ b.space = bridge.space
    <3>1. "drain" \in BridgePlaces /\ 0 \in Ids \union {0}
          BY DEF BridgePlaces
    <3>2. QED  BY <3>1, BridgeStarting, BridgeTakes
  <2>2. bridge' = b
        OBVIOUS
  <2> HIDE DEF b
  <2>3. bridge.records = <<>> /\ bridge.space = Space
        BY DEF BridgeInv, PhaseInv
  <2>4. QED  BY <2>1, <2>2, <2>3
<1>16. SendDoes(id, sequence)
       BY <1>4, <1>6, <1>7, <1>8, <1>11, <1>12, <1>13, <1>14, <1>15 DEF SendDoes
<1>17. QED  BY <1>16

LEMMA SendKeepsTables ==
  ASSUME BridgeInv, bridge.pc = "send", UNCHANGED <<associations, inbound>>,
         NEW id, id = bridge.sending, NEW sequence \in Nat, SendDoes(id, sequence)
  PROVE  TablesInv' /\ CountsInv'
<1>1. /\ Origins /\ TransportFollows /\ TablesInv /\ id \in Ids /\ id # 0
      /\ past.origin[id] # None
      BY SendStarting, TablesStarting
<1>2. Absent.id = 0 /\ Absent.seen = {}
      BY DEF Absent
<1>3. Origins'
  <2>1. ASSUME NEW i \in Ids, transport'[i].id # 0 \/ core'[i].id # 0 PROVE past.origin[i] # None
    <3>1. CASE i = id
          BY <1>1, <3>1
    <3>2. CASE i # id
      <4>1. transport[i].id # 0 \/ core[i].id # 0
            BY <1>2, <2>1, <3>2 DEF SendDoes
      <4>2. QED  BY <1>1, <4>1 DEF Origins
    <3>3. QED  BY <3>1, <3>2
  <2>2. \A i \in Ids : core'[i].id = 0 => core'[i].seen = {}
        BY DEF SendDoes
  <2>3. past'.origin = past.origin
        BY DEF SendDoes
  <2>4. QED  BY <1>1, <2>1, <2>2, <2>3 DEF Origins
<1>4. TransportFollows'
  <2> SUFFICES ASSUME NEW f \in Flows, associations[f].id # 0,
                      past'.idle[associations[f].id] < Idle
               PROVE  LET i == associations[f].id
                      IN IF transport'[i].id = 0
                         THEN core'[i].seen = {}
                         ELSE /\ transport'[i].age <= past'.idle[i]
                              /\ \A s \in core'[i].seen : s < transport'[i].next
      BY DEF TransportFollows
  <2>1. PICK i : i = associations[f].id
        OBVIOUS
  <2>2. i \in Ids /\ i # 0
        BY <2>1, TablesStarting DEF Entries
  <2>3. CASE i = id
    <3>1. past.idle[id] < Idle /\ past'.idle[id] = 0
          BY <1>1, <2>1, <2>3 DEF SendDoes
    <3>2. \A s \in core'[id].seen : s \in Nat /\ s < sequence + 1
      <4>1. \A s \in core'[id].seen : s \in core[id].seen \/ s = sequence
            BY DEF SendDoes
      <4>2. core[id].seen \subseteq Nat /\ \A s \in core[id].seen : s < sequence
            BY <1>1, <3>1, TablesStarting DEF SendDoes, Entries
      <4>3. \A s \in Nat : s < sequence \/ s = sequence => s < sequence + 1
            OBVIOUS
      <4>4. QED  BY <4>1, <4>2, <4>3
    <3>3. transport'[id].id # 0 /\ transport'[id].age = 0 /\ transport'[id].next = sequence + 1
          BY DEF SendDoes
    <3>4. QED  BY <2>1, <2>3, <3>1, <3>2, <3>3
  <2>4. CASE i # id
    <3>1. past'.idle[i] = past.idle[i] /\ past.idle[i] < Idle
          BY <2>1, <2>2, <2>4 DEF SendDoes
    <3>2. IF transport[i].id = 0
          THEN core[i].seen = {}
          ELSE /\ transport[i].age <= past.idle[i]
               /\ \A s \in core[i].seen : s < transport[i].next
          BY <1>1, <2>1, <2>2, <3>1 DEF TransportFollows
    <3>3. transport[i].id # 0 => transport[i].age < Idle
          BY <2>2, <3>1, <3>2, TablesStarting DEF PastShape, Entries, Idle
    <3>4. transport'[i] = transport[i]
          BY <2>2, <2>4, <3>3 DEF SendDoes
    <3>5. core'[i].seen \subseteq core[i].seen
          BY <1>2, <2>2, <2>4 DEF SendDoes
    <3>6. QED  BY <2>1, <3>1, <3>2, <3>4, <3>5
  <2>5. QED  BY <2>3, <2>4
<1>5. RepliesMatch' /\ SendingKnown'
      BY DEF SendDoes, RepliesMatch, SendingKnown
<1>6. OnlyIdleFlowsRepeat'
  <2>1. \A i \in Ids : past.idle[i] = Idle => past'.idle[i] = Idle
        BY <1>1 DEF SendDoes, Idle
  <2>2. past.refused \subseteq Ids /\ past.idle[id] \in 0..Idle
        BY <1>1, TablesStarting DEF PastShape
  <2>3. past'.refused # past.refused => past.idle[id] = Idle
        BY <2>2 DEF SendDoes, Idle
  <2>4. QED  BY <1>1, <2>1, <2>2, <2>3 DEF TablesInv, OnlyIdleFlowsRepeat, SendDoes
<1>7. CountsInv'
  <2>1. Given' = Given
        BY DEF Given, SendDoes
  <2>2. QED  BY <2>1, TablesStarting DEF CountsInv, SendDoes
<1>8. QED  BY <1>3, <1>4, <1>5, <1>6, <1>7 DEF TablesInv

LEMMA SendIsQuiet ==
  ASSUME BridgeInv, bridge.pc = "send", UNCHANGED <<associations, inbound>>,
         NEW id, id = bridge.sending, NEW sequence \in Nat, SendDoes(id, sequence)
  PROVE  QuietInv'
<1> SUFFICES ASSUME ~past.silent PROVE Remembered' /\ Unseen' /\ SeenFromCore'
    BY DEF QuietInv, SendDoes
<1>1. Remembered /\ Unseen /\ SeenFromCore /\ id \in Ids
      BY SendStarting, TablesStarting DEF QuietInv
<1>2. past'.origin = past.origin
      BY DEF SendDoes
<1>3. \A i \in Ids : core[i].id # 0 => core'[i].id # 0 /\ core'[i].next = core[i].next
      BY <1>1 DEF Remembered, SendDoes
<1>4. \A i \in Ids : transport'[i].seen \subseteq transport[i].seen
      BY DEF SendDoes
<1>5. \A i \in Ids \ {id} : transport'[i] = transport[i]
      BY <1>1 DEF Remembered, SendDoes
<1>6. Remembered'
  <2>1. Absent.id = 0
        BY DEF Absent
  <2>2. \A i \in Ids : transport'[i].id # 0 => transport'[i].age < Idle
        BY <1>1, <1>5 DEF Remembered, SendDoes, Idle
  <2>3. ASSUME NEW i \in Ids, core'[i].id # 0
        PROVE  core'[i].age < Idle /\ transport'[i].id # 0
    <3>1. CASE i = id
          BY <1>1, <2>3, <3>1 DEF SendDoes, Remembered, Idle
    <3>2. CASE i # id
      <4>1. core'[i] = core[i]
            BY <2>1, <2>3, <3>2 DEF SendDoes
      <4>2. QED  BY <1>1, <1>5, <2>3, <3>2, <4>1 DEF Remembered
    <3>3. QED  BY <3>1, <3>2
  <2>4. QED  BY <1>1, <1>2, <2>2, <2>3 DEF Remembered, Known
<1>7. SeenFromCore'
  <2>1. \A i \in Ids : \A s \in transport'[i].seen : core'[i].id # 0 /\ s <= core'[i].next
        BY <1>1, <1>3, <1>4 DEF SeenFromCore
  <2>2. ASSUME NEW f \in Flows, associations[f].id # 0, NEW s \in associations[f].seen
        PROVE  core'[associations[f].id].id # 0 /\ s <= core'[associations[f].id].next
    <3>1. PICK i : i = associations[f].id
          OBVIOUS
    <3>2. i \in Ids
          BY <2>2, <3>1, TablesStarting DEF Entries
    <3>3. core[i].id # 0 /\ s <= core[i].next
          BY <1>1, <2>2, <3>1 DEF SeenFromCore
    <3>4. QED  BY <1>3, <3>1, <3>2, <3>3
  <2>3. QED  BY <2>1, <2>2 DEF SeenFromCore
<1>8. Unseen'
  <2>1. ASSUME NEW frame \in inbound
        PROVE  /\ core'[frame.id].id # 0 /\ frame.sequence <= core'[frame.id].next
               /\ frame.sequence \notin transport'[frame.id].seen
    <3>1. PICK i : i = frame.id
          OBVIOUS
    <3>2. i \in Ids
          BY <3>1, TablesStarting DEF Frames
    <3>3. /\ core[i].id # 0 /\ frame.sequence <= core[i].next
          /\ frame.sequence \notin transport[i].seen
          BY <1>1, <3>1 DEF Unseen
    <3>4. QED  BY <1>3, <1>4, <3>1, <3>2, <3>3
  <2>2. QED  BY <1>1, <1>2, <2>1 DEF Unseen
<1>9. QED  BY <1>6, <1>7, <1>8

\* The transport's table is full of entries that are not too old.
LEMMA SendLimited ==
  ASSUME BridgeInv, bridge.pc = "send",
         UNCHANGED <<control, driver, request, open, flags, receiver, captured, associations,
                     inbound, core, free, budget, past>>,
         NEW left, Thinned(Ids, transport, left), transport' = left, Full(left),
         bridge' = Ending("limit")
  PROVE  BridgeInv'
<1>1. /\ BridgeShape(bridge') /\ bridge'.pc = "ending" /\ bridge'.records = <<>>
      /\ bridge'.space = Space /\ bridge'.reason = "limit"
      BY BridgeStarting, BridgeEnding DEF Reasons
<1>2. left \in [Ids -> Entries] /\ Held(left) \subseteq Held(transport)
      BY DEF Thinned
<1>3. TablesInv' /\ QuietInv'
      BY <1>1, TablesStarting DEF TablesInv, QuietInv, Working, Returned, RepliesMatch,
         OnlyIdleFlowsRepeat
<1>4. Given' = Given
      BY DEF Given
<1>5. CountsInv'
      BY <1>2, <1>4, TablesStarting, BoundedSubset DEF CountsInv
<1>6. ReasonInv'
  <2>1. Held(transport) \subseteq Given /\ Cardinality(Given) \in Nat /\ IsFiniteSet(Given)
        BY SendStarting, FlowsAreGiven, TablesStarting DEF CountsInv
  <2>2. Cardinality(Held(left)) <= Cardinality(Given)
        BY <1>2, <2>1, FS_Subset
  <2>3. Cardinality(Held(left)) >= Limit /\ Limit \in Nat
        BY SizesAssumption DEF Full
  <2>4. Cardinality(Held(left)) \in Nat
    <3>1. IsFiniteSet(Held(left))
          BY <1>2, <2>1, FS_Subset
    <3>2. QED  BY <3>1, FS_CardinalityType
  <2>5. Cardinality(Given) >= Limit
    <3>1. PICK a \in Nat, b \in Nat : a = Cardinality(Held(left)) /\ b = Cardinality(Given)
          BY <2>1, <2>4
    <3>2. QED  BY <2>2, <2>3, <3>1
  <2>6. Disturbed(bridge.reason)'
        BY <1>1, <1>4, <2>5 DEF Disturbed
  <2>7. QED  BY <2>6 DEF ReasonInv
<1>7. \A i \in Ids : past'.origin[i] \in budget.flows \union {None}
      BY DEF BridgeInv, BatchesInv
<1>8. BuffersInv'
  <2>1. /\ BuffersInv /\ free \in Nat /\ Len(captured) \in Nat /\ ReceiverHolds \in Nat
        /\ Buffers \in Nat
        BY SizesAssumption DEF BridgeInv, Shape, CapturedShape, ReceiverHolds
  <2>2. BridgeHolds = 1 /\ BridgeHolds' = 0 /\ ReceiverHolds' = ReceiverHolds
        BY <1>1 DEF BridgeHolds, ReceiverHolds
  <2>3. free + Len(captured) + ReceiverHolds + 0 <= Buffers
        BY <2>1, <2>2 DEF BuffersInv
  <2>4. QED  BY <1>1, <2>2, <2>3 DEF BuffersInv, BuffersConserved, Returned
<1>9. /\ FlowsShape(associations') /\ IdsShape(transport') /\ IdsShape(core') /\ PastShape(past')
      /\ BudgetShape(budget') /\ free' \in Nat /\ CapturedShape(captured')
      /\ \A n \in 1..Len(captured') : Captured(captured'[n])
      BY <1>2, TablesStarting DEF FlowsShape, IdsShape, BridgeInv, Shape, BatchesInv
<1>10. QED  BY <1>1, <1>3, <1>5, <1>6, <1>7, <1>8, <1>9, SendStarting, DrainFrame

LEMMA BridgeSending == ASSUME BridgeInv, BridgeSends PROVE BridgeInv'
<1>1. /\ bridge.pc = "send"
      /\ UNCHANGED <<control, driver, request, open, flags, receiver, captured, associations,
                     inbound>>
      BY DEF BridgeSends
<1>2. PICK due \in SweptIfDue(transport), seen \in SweptIfDue(core) :
        LET id   == bridge.sending
            left == IF id \in Held(due) \/ ~Full(due) THEN due ELSE Swept(due)
            next == CoreAssociation(left, id)
            got  == CoreReceives(seen, id, next.next - 1)
        IN IF id \notin Held(left) /\ Full(left)
           THEN /\ bridge' = Ending("limit") /\ transport' = left
                /\ UNCHANGED <<core, free, budget, past>>
           ELSE /\ transport' = [left EXCEPT ![id] = next]
                /\ bridge' = [bridge EXCEPT !.pc = "drain", !.sending = 0]
                /\ free' = free + 1
                /\ \/ /\ core' = got.table
                      /\ past' = [past EXCEPT !.refused = past.refused \union got.refused,
                                              !.idle = Awake(id)]
                      /\ UNCHANGED budget
                   \/ /\ MayStill("losses") /\ Spend("losses")
                      /\ past' = [past EXCEPT !.idle = Awake(id)]
                      /\ UNCHANGED core
      BY DEF BridgeSends
<1> DEFINE id   == bridge.sending
           left == IF id \in Held(due) \/ ~Full(due) THEN due ELSE Swept(due)
           got  == CoreReceives(seen, id, CoreAssociation(left, id).next - 1)
<1>3. Thinned(Ids, transport, left) /\ Thinned(Ids, core, seen)
  <2>1. Thinned(Ids, transport, due) /\ Thinned(Ids, core, seen)
        BY TablesStarting, SweptWhenDue
  <2>2. Thinned(Ids, due, Swept(due))
        BY <2>1, SweptTable DEF Thinned
  <2>3. Thinned(Ids, transport, Swept(due))
        BY <2>1, <2>2, ThinnedTwice
  <2>4. QED  BY <2>1, <2>3
<1>4. CASE id \notin Held(left) /\ Full(left)
  <2>1. /\ bridge' = Ending("limit") /\ transport' = left
        /\ UNCHANGED <<core, free, budget, past>>
        BY <1>2, <1>4
  <2> HIDE DEF left
  <2>2. QED  BY <1>1, <1>3, <1>4, <2>1, SendLimited
<1>5. CASE id \in Held(left) \/ ~Full(left)
  <2>1. /\ transport' = [left EXCEPT ![id] = CoreAssociation(left, id)]
        /\ bridge' = [bridge EXCEPT !.pc = "drain", !.sending = 0]
        /\ free' = free + 1
        /\ \/ /\ core' = got.table /\ budget' = budget
              /\ past' = [past EXCEPT !.refused = past.refused \union got.refused,
                                      !.idle = Awake(id)]
           \/ /\ MayStill("losses") /\ Spend("losses") /\ core' = core
              /\ past' = [past EXCEPT !.idle = Awake(id)]
        BY <1>2, <1>5
  <2>2. got = CoreReceives(seen, id, CoreAssociation(left, id).next - 1)
        OBVIOUS
  <2> HIDE DEF left, got
  <2>3. PICK sequence \in Nat : SendDoes(id, sequence)
        BY <1>1, <1>3, <1>5, <2>1, <2>2, SendReaches
  <2>4. TablesInv' /\ CountsInv' /\ QuietInv'
        BY <1>1, <2>3, SendKeepsTables, SendIsQuiet
  <2>5. \A i \in Ids : past'.origin[i] \in budget.flows \union {None}
        BY <2>3 DEF BridgeInv, BatchesInv, SendDoes
  <2>6. ReasonInv'
        BY <2>3 DEF ReasonInv, SendDoes
  <2>7. BuffersInv' /\ free' \in Nat
    <3>1. /\ BuffersInv /\ free \in Nat /\ Len(captured) \in Nat /\ ReceiverHolds \in Nat
          /\ Buffers \in Nat
          BY SizesAssumption DEF BridgeInv, Shape, CapturedShape, ReceiverHolds
    <3>2. BridgeHolds = 1 /\ BridgeHolds' = 0 /\ ReceiverHolds' = ReceiverHolds
          BY <1>1, <2>3 DEF BridgeHolds, ReceiverHolds, SendDoes
    <3>3. free' + Len(captured') + ReceiverHolds' + BridgeHolds' =
            free + Len(captured) + ReceiverHolds + BridgeHolds
          BY <1>1, <2>1, <3>1, <3>2
    <3>4. QED  BY <1>1, <2>1, <3>1, <3>3 DEF BuffersInv, BuffersConserved, Returned
  <2>8. /\ FlowsShape(associations') /\ CapturedShape(captured')
        /\ \A n \in 1..Len(captured') : Captured(captured'[n])
        BY <1>1, TablesStarting DEF FlowsShape, BridgeInv, Shape, BatchesInv, Captured
  <2>9. /\ IdsShape(transport') /\ IdsShape(core') /\ PastShape(past') /\ BudgetShape(budget')
        /\ budget'.flows = budget.flows /\ BridgeShape(bridge') /\ bridge'.pc = "drain"
        /\ bridge'.records = <<>> /\ bridge'.space = Space
        BY <2>3 DEF SendDoes, IdsShape
  <2>10. QED  BY <1>1, <2>4, <2>5, <2>6, <2>7, <2>8, <2>9, SendStarting, DrainFrame
<1>6. QED  BY <1>4, <1>5

-----------------------------------------------------------------------------
(* The bridge's invariant and what follows from it.                        *)

LEMMA BridgeKeeps == ASSUME BridgeInv, BridgeStep PROVE BridgeInv'
<1>1. CASE \E frame \in inbound : BridgeCollects(frame)
      BY <1>1, ReplyRefused, ReplyCollected
<1>2. CASE BridgeIdles \/ BridgeSubmits
      BY <1>2, BridgeTurns
<1>3. CASE BridgeRoutes \/ BridgeSends \/ BridgePolls
      BY <1>3, BridgeRouting, BridgeSending, BridgePolling
<1>4. CASE BridgeStops \/ BridgeObserves \/ BridgeSkipsHealth \/ BridgeDrained
      BY <1>4, BridgeStopping, BridgeLooking, BridgeDraining
<1>5. CASE BridgeIdentifies \/ BridgeIsRefused \/ BridgeFails
      BY <1>5, BridgeIdentifying, BridgeRefusing, BridgeFailing
<1>6. QED  BY <1>1, <1>2, <1>3, <1>4, <1>5 DEF BridgeStep

LEMMA Stutters == ASSUME BridgeInv, UNCHANGED vars PROVE BridgeInv'
<1>1. UNCHANGED <<owner, renewal, driver, request, open, window, flags, receiver, free,
                  captured, bridge, associations, transport, core, inbound, budget, past>>
      BY DEF vars
<1>2. UNCHANGED <<control, driver, bridge, tables, surrounding>>
      BY <1>1 DEF control, tables, surrounding
<1>3. RequestShape(request') /\ FlagsShape(flags') /\ ReceiverShape(receiver') /\ free' \in Nat
      /\ CapturedShape(captured')
      BY <1>1 DEF BridgeInv, Shape
<1>4. BuffersInv'
      BY <1>1 DEF BridgeInv, BuffersInv, BuffersConserved, ReceiverHolds, BridgeHolds
<1>5. BatchesInv'
      BY <1>1 DEF BridgeInv, BatchesInv, WindowFollows, Captured
<1>6. LifeInv'
      BY <1>1 DEF BridgeInv, LifeInv, AnyCapture, Closed, Working
<1>7. QED  BY <1>2, <1>3, <1>4, <1>5, <1>6, ReceiverFrame

LEMMA NextPreserves == BridgeInv /\ [Next]_vars => BridgeInv'
<1> SUFFICES ASSUME BridgeInv, [Next]_vars PROVE BridgeInv'
    OBVIOUS
<1>1. CASE ReceiverStep \/ ReceiverExpires
      BY <1>1, ReceiverKeeps
<1>2. CASE BridgeStep \/ BridgeErrs
      BY <1>2, BridgeKeeps, BridgeErring
<1>3. CASE \/ RenewalLocks \/ RenewalCommits \/ RenewalPublishes \/ RenewalFails
           \/ OwnerStep \/ OwnerGivesUp \/ GateOpens \/ OwnerPrepares
           \/ \E f \in Flows : Capture(f) \/ FlowCloses(f)
           \/ InjectionCompletes
      BY <1>3, ControlKeeps
<1>4. CASE Tick \/ \E id \in Ids : CoreReplies(id)
      BY <1>4, CoreReplying, Ticking
<1>5. CASE UNCHANGED vars
      BY <1>5, Stutters
<1>6. QED  BY <1>1, <1>2, <1>3, <1>4, <1>5 DEF Next

LEMMA InitEstablishes == Init => BridgeInv
<1> SUFFICES ASSUME Init PROVE BridgeInv
    OBVIOUS
<1>1. /\ owner = "arming" /\ renewal = "waiting" /\ request = NoRequest
      /\ driver = [lease |-> TRUE, gate |-> FALSE, generation |-> 1, inFlight |-> 0,
                   failed |-> FALSE]
      /\ window = [current |-> 1, previous |-> 0]
      /\ flags = [shutdown |-> FALSE, cancelled |-> FALSE, revoking |-> FALSE, alive |-> TRUE]
      /\ receiver = [pc |-> "top", ready |-> FALSE, batch |-> NoBatch]
      /\ free = Buffers /\ captured = <<>>
      /\ bridge = [pc |-> "absent", reason |-> "none", pending |-> FALSE, sending |-> 0,
                   identity |-> 0, records |-> <<>>, space |-> Space]
      /\ associations = [f \in Flows |-> Absent]
      /\ transport = [i \in Ids |-> Absent] /\ core = [i \in Ids |-> Absent]
      /\ inbound = {} /\ budget \in Budgets /\ open = budget.flows
      /\ past = [origin |-> [i \in Ids |-> None], refused |-> {}, silent |-> FALSE,
                  idle |-> [i \in Ids |-> 0]]
      BY DEF Init
<1>2. /\ bridge.pc = "absent" /\ bridge.records = <<>> /\ bridge.space = Space
      /\ receiver.pc = "top" /\ Len(captured) = 0 /\ Len(bridge.records) = 0
      /\ driver.generation = 1 /\ driver.lease /\ ~driver.gate
      /\ window.current = 1 /\ window.previous = 0
      /\ past.origin = [i \in Ids |-> None] /\ past.refused = {} /\ ~past.silent
      /\ request.state = "none" /\ ~flags.cancelled
      BY <1>1 DEF NoRequest
<1>3. /\ Space \in Nat /\ Buffers \in Nat /\ Limit \in Nat /\ Records \in Nat
      /\ Absent \in Entries /\ Absent.id = 0 /\ Absent.seen = {}
      BY SizesAssumption DEF Absent, Entries
<1>4. BudgetShape(budget) /\ open \in SUBSET Flows
      BY <1>1, BudgetsAssumption DEF BudgetShape
<1>5. Shape
  <2>1. DriverShape(driver) /\ WindowShape(window) /\ FlagsShape(flags)
        BY <1>1 DEF DriverShape, WindowShape, FlagsShape
  <2>2. RequestShape(request) /\ ReceiverShape(receiver)
        BY <1>1, Requests DEF ReceiverShape, ReceiverPlaces
  <2>3. BridgeShape(bridge) /\ CapturedShape(captured)
        BY <1>1, <1>3 DEF BridgeShape, BridgePlaces, Reasons, CapturedShape
  <2>4. FlowsShape(associations) /\ IdsShape(transport) /\ IdsShape(core) /\ InboundShape(inbound)
        BY <1>1, <1>3 DEF FlowsShape, IdsShape, InboundShape
  <2>5. PastShape(past)
        BY <1>1 DEF PastShape, Idle
  <2>6. QED
        BY <1>1, <1>3, <1>4, <2>1, <2>2, <2>3, <2>4, <2>5 DEF Shape, OwnerPlaces, RenewalPlaces
<1>6. BuffersInv
      BY <1>1, <1>2, <1>3 DEF BuffersInv, BuffersConserved, ReceiverHolds, BridgeHolds
<1>7. PhaseInv
      BY <1>1, <1>2, <1>3 DEF PhaseInv
<1>8. TablesInv
      BY <1>1, <1>2, <1>3 DEF TablesInv, Origins, TransportFollows, SendingKnown, RepliesMatch,
         OnlyIdleFlowsRepeat
<1>9. CountsInv
  <2>1. Held(associations) = {} /\ Held(transport) = {} /\ Held(core) = {} /\ Given = {}
        BY <1>1, <1>2, <1>3 DEF Held, Given
  <2>2. QED  BY <1>3, <2>1, FS_EmptySet DEF CountsInv, Bounded
<1>10. BatchesInv
      BY <1>1, <1>2 DEF BatchesInv, WindowFollows
<1>11. LifeInv
      BY <1>1, <1>2 DEF LifeInv, AnyCapture, Closed, Returned
<1>12. QuietInv
      BY <1>1, <1>2, <1>3 DEF QuietInv, Remembered, Unseen, SeenFromCore
<1>13. SpaceInv
  <2>1. Records - Len(bridge.records) = Records
        BY <1>2, <1>3
  <2>2. ASSUME NEW size \in Sizes, Records * size <= Space
        PROVE  bridge.space >= (Records - Len(bridge.records)) * size
    <3>1. size \in Nat /\ Records * size \in Nat
          BY <1>3, SizesAssumption
    <3>2. QED  BY <1>2, <1>3, <2>1, <2>2, <3>1
  <2>3. QED  BY <2>2 DEF SpaceInv
<1>14. ReasonInv
      BY <1>2 DEF ReasonInv
<1>15. QED
      BY <1>5, <1>6, <1>7, <1>8, <1>9, <1>10, <1>11, <1>12, <1>13, <1>14 DEF BridgeInv

(* What the two threads, the renewal and the owner keep between them       *)
(* (windows_udp_bridge.rs, windows_core_udp_data.rs): an identifier belongs *)
(* to the flow it was made for, and the transport's entry, which numbers    *)
(* the frames, stays as long as the Broker is not idle for a whole period.  *)
THEOREM BridgeInvHolds == Spec => []BridgeInv
<1>1. Init => BridgeInv
      BY InitEstablishes
<1>2. BridgeInv /\ [Next]_vars => BridgeInv'
      BY NextPreserves
<1>3. QED  BY <1>1, <1>2, PTL DEF Spec

LEMMA BridgeIsTyped == BridgeInv => BridgeInvariant
<1> SUFFICES ASSUME BridgeInv PROVE TypeOK /\ BuffersConserved
    BY DEF BridgeInvariant
<1>1. Shape /\ BuffersInv /\ PhaseInv /\ CountsInv
      BY DEF BridgeInv
<1>2. /\ free \in Nat /\ Len(captured) \in Nat /\ ReceiverHolds \in Nat /\ BridgeHolds \in Nat
      /\ Buffers \in Nat /\ Records \in Nat /\ Len(bridge.records) \in Nat
      BY <1>1, SizesAssumption DEF Shape, CapturedShape, BridgeShape, ReceiverHolds,
         BridgeHolds
<1>3. free \in 0..Buffers /\ Len(captured) \in 0..Buffers
      BY <1>1, <1>2 DEF BuffersInv
<1>4. Len(bridge.records) \in 0..Records
      BY <1>1, <1>2 DEF PhaseInv
<1>5. \A f \in Flows : associations[f].id \in Ids \union {0}
      BY <1>1 DEF Shape, FlowsShape, Entries
<1>6. /\ owner \in OwnerPlaces /\ renewal \in RenewalPlaces /\ receiver.pc \in ReceiverPlaces
      /\ bridge.pc \in BridgePlaces /\ request.state \in {"none", "pending", "filled", "purged"}
      BY <1>1 DEF Shape, ReceiverShape, BridgeShape, RequestShape
<1>7. /\ Cardinality(Held(associations)) <= Limit /\ Cardinality(Held(transport)) <= Limit
      /\ Cardinality(Held(core)) <= Limit
      BY <1>1 DEF CountsInv, Bounded
<1>8. TypeOK
      BY <1>3, <1>4, <1>5, <1>6, <1>7
         DEF TypeOK, OwnerPlaces, RenewalPlaces, ReceiverPlaces, BridgePlaces
<1>9. QED  BY <1>1, <1>8 DEF BuffersInv

(* No thread or request is in a state its code does not know, no table      *)
(* holds more than its limit, and while both threads work each of the       *)
(* buffers is free, captured or with one of them, so that neither channel   *)
(* of windows_udp_bridge.rs is ever full.                                   *)
THEOREM BridgeIsSound == Spec => []BridgeInvariant
<1>1. QED  BY BridgeInvHolds, BridgeIsTyped, PTL

LEMMA RepliesAreRouted == BridgeInv => ReplyReachesItsFlow
<1> SUFFICES ASSUME BridgeInv PROVE ReplyReachesItsFlow
    OBVIOUS
<1>1. RepliesMatch /\ bridge.records \in Seq(ReplyRecords)
      BY DEF BridgeInv, TablesInv, Shape, BridgeShape
<1>2. DOMAIN bridge.records = 1..Len(bridge.records)
      BY <1>1
<1>3. QED  BY <1>1, <1>2 DEF RepliesMatch, ReplyReachesItsFlow

(* route_reply (windows_udp_bridge.rs) queues a reply for the flow whose    *)
(* datagram made the association it names, after any expiry and renewal.    *)
THEOREM RepliesReachTheirFlows == Spec => []ReplyReachesItsFlow
<1>1. QED  BY BridgeInvHolds, RepliesAreRouted, PTL

(* The numbers StrictCoreUdpTransport.send gives (windows_core_udp_data.rs) *)
(* are taken for a replay by the Core only if the Broker had sent nothing   *)
(* for the association, and received nothing, during a whole idle time,     *)
(* whenever each of the three tables looks for idle entries, and whatever   *)
(* is lost on the way.                                                      *)
THEOREM NumbersRepeatOnlyWhenIdle == Spec => []OnlyIdleFlowsRepeat
<1>1. BridgeInv => OnlyIdleFlowsRepeat
      BY DEF BridgeInv, TablesInv
<1>2. QED  BY <1>1, BridgeInvHolds, PTL

LEMMA ReasonsDisturb == BridgeInv => OnlyDisturbancesEndTheBridge
<1> SUFFICES ASSUME BridgeInv, bridge.pc \in {"ending", "failed"} PROVE ~Undisturbed(bridge.reason)
    BY DEF OnlyDisturbancesEndTheBridge
<1>1. /\ Disturbed(bridge.reason) /\ bridge.reason \in Reasons /\ driver.generation \in Nat
      /\ ~(Closed /\ driver.gate)
      BY DEF BridgeInv, ReasonInv, LifeInv, Shape, BridgeShape, DriverShape
<1>2. Cardinality(Given) \in Nat /\ Limit \in Nat
      BY FS_CardinalityType, SizesAssumption DEF BridgeInv, CountsInv
<1>3. Given = {i \in Ids : past.origin[i] # None}
      BY DEF Given
<1>4. CASE bridge.reason = "stale"
      BY <1>1, <1>4 DEF Disturbed, Undisturbed
<1>5. CASE bridge.reason = "limit"
      BY <1>1, <1>2, <1>3, <1>5 DEF Disturbed, Undisturbed
<1>6. CASE bridge.reason = "space"
      BY <1>1, <1>6 DEF Disturbed, Undisturbed
<1>7. CASE bridge.reason \in {"unknown", "replayed"}
      BY <1>1, <1>7 DEF Disturbed, Undisturbed
<1>8. CASE bridge.reason = "submission"
  <2>1. driver.generation > 1 \/ open # budget.flows \/ ~driver.gate
        BY <1>1, <1>8 DEF Disturbed
  <2>2. ~(driver.generation = 1 /\ open = budget.flows /\ driver.gate)
        BY <1>1, <2>1
  <2>3. QED  BY <1>8, <2>2 DEF Undisturbed
<1>9. CASE bridge.reason = "receiver"
      BY <1>1, <1>9 DEF Disturbed, Undisturbed, Closed
<1>10. CASE bridge.reason \in {"none", "injection", "fault"}
      BY <1>10 DEF Undisturbed
<1>11. QED
      BY <1>1, <1>4, <1>5, <1>6, <1>7, <1>8, <1>9, <1>10 DEF Reasons

(* run_udp_bridge (windows_udp_bridge.rs) ends only for a renewal that came *)
(* between, a flow or frame that was lost, an idle time that passed, a full *)
(* table or batch, a fault of the driver, or its owner.                     *)
THEOREM BridgeEndsForAReason == Spec => []OnlyDisturbancesEndTheBridge
<1>1. QED  BY BridgeInvHolds, ReasonsDisturb, PTL
=============================================================================
