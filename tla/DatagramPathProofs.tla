-------------------------- MODULE DatagramPathProofs --------------------------
(***************************************************************************)
(* What holds of the driver's datagram path for every number of flows,     *)
(* every window and every interleaving.                                    *)
(*                                                                         *)
(* A reply is handed to an application at most once: a number is committed *)
(* in the step that hands the packet on, only when the window accepts it,  *)
(* and the window represents the numbers committed; a context that is      *)
(* freed leaves nothing behind.                                            *)
(*                                                                         *)
(* References and slots are counted: every step touches one flow, and the  *)
(* counts move with what it does to it.                                    *)
(*                                                                         *)
(* What the lease owns: each request leaves, step by step, less that could *)
(* belong to the lease it ends, and whoever reads a lease is waited for.   *)
(***************************************************************************)
EXTENDS DatagramPath, FiniteSetTheorems, SequenceTheorems, TLAPS

-----------------------------------------------------------------------------
(* The window never accepts a sequence number twice, for every size and     *)
(* every order of arrival, and refuses nothing but repetitions and numbers  *)
(* that fell out of the window.                                             *)

(* A window that represents what was accepted does not accept any of it    *)
(* again: FcxUdpReplySequenceAccepts and its two counterparts.             *)
THEOREM AcceptedOnce ==
  ASSUME NEW window \in Windows, NEW accepted \in SUBSET Nat,
         NEW sequence \in Nat,
         Represents(window, accepted), Accepts(window, sequence)
  PROVE  sequence \notin accepted
<1>1. SUFFICES ASSUME sequence \in accepted
               PROVE  FALSE
      OBVIOUS
<1>2. window.highest \in Nat /\ WindowSize \in Nat \ {0}
      BY WindowAssumption DEF Windows
<1>3. sequence <= window.highest
      BY <1>1 DEF Represents
<1>4. /\ window.highest - sequence < WindowSize
      /\ window.highest - sequence \notin window.bitmap
      BY <1>2, <1>3 DEF Accepts
<1>5. window.highest - sequence \in Positions
      BY <1>2, <1>3, <1>4 DEF Positions
<1>6. window.highest - (window.highest - sequence) = sequence
      BY <1>2
<1>7. window.highest - sequence \in window.bitmap
      BY <1>1, <1>5, <1>6 DEF Represents
<1>8. QED  BY <1>4, <1>7

(* The window after an accepted number represents that number as well, so  *)
(* that AcceptedOnce holds along every sequence of arrivals.               *)
THEOREM AdvanceRepresents ==
  ASSUME NEW window \in Windows, NEW accepted \in SUBSET Nat,
         NEW sequence \in Nat,
         Represents(window, accepted), Accepts(window, sequence)
  PROVE  /\ Advance(window, sequence) \in Windows
         /\ Represents(Advance(window, sequence), accepted \cup {sequence})
<1> DEFINE next == Advance(window, sequence)
           shift == sequence - window.highest
<1>1. /\ window.highest \in Nat
      /\ window.bitmap \subseteq Positions
      /\ WindowSize \in Nat \ {0}
      /\ sequence > 0
      BY WindowAssumption DEF Windows, Accepts
<1>2. CASE sequence > window.highest
  <2>1. /\ next.highest = sequence
        /\ next.bitmap = {d \in Positions :
                            d = 0 \/ (d >= shift /\ d - shift \in window.bitmap)}
        /\ next \in Windows
        BY <1>1, <1>2 DEF Advance, Windows
  <2>2. ASSUME NEW d \in Positions
        PROVE  (d = 0 \/ (d >= shift /\ d - shift \in window.bitmap))
                 <=> sequence - d \in accepted \cup {sequence}
    <3>1. d \in Nat /\ d < WindowSize /\ shift \in Nat /\ shift > 0
          BY <1>1, <1>2 DEF Positions
    <3>2. CASE d = 0
          BY <3>2, <1>1
    <3>3. CASE d # 0 /\ d < shift
      <4>1. sequence - d > window.highest /\ sequence - d # sequence
            BY <1>1, <3>1, <3>3
      <4>2. \A s \in accepted : ~(s > window.highest)
        <5>1. \A s \in accepted : s \in Nat /\ s <= window.highest
              BY DEF Represents
        <5>2. QED  BY <1>1, <5>1
      <4>3. sequence - d \notin accepted
            BY <4>1, <4>2
      <4>4. ~(d >= shift)
            BY <3>1, <3>3
      <4>5. QED  BY <4>1, <4>3, <4>4, <3>3
    <3>4. CASE d # 0 /\ d >= shift
      <4>1. d - shift \in Positions
            BY <1>1, <3>1, <3>4 DEF Positions
      <4>2. window.highest - (d - shift) = sequence - d /\ sequence - d # sequence
            BY <1>1, <3>1, <3>4
      <4>3. d - shift \in window.bitmap <=> sequence - d \in accepted
            BY <4>1, <4>2 DEF Represents
      <4>4. QED  BY <4>2, <4>3, <3>4
    <3>5. QED  BY <3>1, <3>2, <3>3, <3>4
  <2>3. next.bitmap = {d \in Positions : next.highest - d \in accepted \cup {sequence}}
        BY <2>1, <2>2
  <2>4. \A s \in accepted \cup {sequence} : s > 0 /\ s <= next.highest
        BY <1>1, <1>2, <2>1 DEF Represents
  <2>5. QED  BY <2>1, <2>3, <2>4 DEF Represents
<1>3. CASE ~(sequence > window.highest)
  <2> DEFINE position == window.highest - sequence
  <2>1. position \in Positions /\ window.highest - position = sequence
        BY <1>1, <1>3 DEF Accepts, Positions
  <2>2. /\ next.highest = window.highest
        /\ next.bitmap = window.bitmap \cup {position}
        /\ next \in Windows
        BY <1>1, <1>3, <2>1 DEF Advance, Windows
  <2>3. ASSUME NEW d \in Positions
        PROVE  d \in window.bitmap \cup {position}
                 <=> window.highest - d \in accepted \cup {sequence}
    <3>1. d \in window.bitmap <=> window.highest - d \in accepted
          BY DEF Represents
    <3>2. d = position <=> window.highest - d = sequence
          BY <1>1 DEF Positions
    <3>3. QED  BY <3>1, <3>2
  <2>4. window.bitmap \cup {position} \subseteq Positions
        BY <1>1, <2>1
  <2>5. next.bitmap = {d \in Positions : next.highest - d \in accepted \cup {sequence}}
        BY <2>2, <2>3, <2>4
  <2>6. \A s \in accepted \cup {sequence} : s > 0 /\ s <= next.highest
    <3>1. \A s \in accepted : s > 0 /\ s <= window.highest
          BY DEF Represents
    <3>2. sequence > 0 /\ sequence <= window.highest
          BY <1>1, <1>3 DEF Accepts
    <3>3. QED  BY <2>2, <3>1, <3>2
  <2>7. QED  BY <2>2, <2>5, <2>6 DEF Represents
<1>4. QED  BY <1>2, <1>3

(* Nothing is refused without a reason: a number that is refused is zero,  *)
(* was accepted before, or lies a whole window behind the highest one.     *)
THEOREM RefusedForReason ==
  ASSUME NEW window \in Windows, NEW accepted \in SUBSET Nat,
         NEW sequence \in Nat \ {0},
         Represents(window, accepted), ~Accepts(window, sequence)
  PROVE  sequence \in accepted \/ window.highest >= sequence + WindowSize
<1>1. window.highest \in Nat /\ WindowSize \in Nat \ {0}
      BY WindowAssumption DEF Windows
<1>2. CASE window.highest - sequence < WindowSize
  <2>1. sequence <= window.highest /\ window.highest - sequence \in window.bitmap
        BY <1>1, <1>2 DEF Accepts
  <2>2. window.highest - (window.highest - sequence) = sequence
        BY <1>1
  <2>3. sequence \in accepted
        BY <2>1, <2>2 DEF Represents
  <2>4. QED  BY <2>3
<1>3. CASE ~(window.highest - sequence < WindowSize)
      BY <1>1, <1>3
<1>4. QED  BY <1>2, <1>3


-----------------------------------------------------------------------------
(* The records of a flow.                                                   *)

SentNumbers(record) == {n \in Numbers : record.sent[n] > 0}

Once(record) ==
  /\ \A n \in Numbers : record.sent[n] <= 1
  /\ Represents(record.window, SentNumbers(record))

Records ==
  [refs : Int, listed : BOOLEAN, associated : BOOLEAN, bound : BOOLEAN,
   removal : BOOLEAN, key : Keys \cup {None}, window : Windows,
   sent : [Numbers -> Nat]]

OnceRecords == {record \in Records : Once(record)}

(* A step of a reply names its flow and its number.                        *)
ReplyNames == {"check", "drop", "reference", "reserve", "send"}

PlainNames ==
  {"close", "purge", "detach", "fence", "readers", "reopen", "injections", "stop",
   "drain", "flows", "await", "swap", "resume", "expire"}

StepRecords ==
  {s \in [step : PlainNames \cup ReplyNames, flow : Flows \cup {None}, number : Nat] :
     s.step \in ReplyNames => s.flow \in Flows /\ s.number \in Numbers}

ReplyInv ==
  /\ lease \in Leases \cup {None} /\ incoming \in Leases \cup {None}
  /\ generation \in 0 .. MaxGeneration
  /\ classify \in [Flows -> [pc : ClassifyPoints, key : Keys \cup {None}]]
  /\ todo \in Seq(StepRecords)
  /\ context \in [Flows -> OnceRecords]

GateTyped == gate \in [active : BOOLEAN, stopping : BOOLEAN]

-----------------------------------------------------------------------------
(* Records.                                                                *)

LEMMA FreshRecord == NoContext \in OnceRecords
<1>1. EmptyWindow \in Windows
      BY DEF EmptyWindow, Windows
<1>2. NoContext \in Records
      BY <1>1 DEF NoContext, Records
<1>3. SentNumbers(NoContext) = {}
      BY DEF NoContext, SentNumbers
<1>4. Represents(EmptyWindow, {})
      BY DEF Represents, EmptyWindow
<1>5. NoContext.window = EmptyWindow /\ \A n \in Numbers : NoContext.sent[n] = 0
      BY DEF NoContext
<1>6. QED  BY <1>2, <1>3, <1>4, <1>5 DEF OnceRecords, Once

(* The window and the numbers sent are all that Once looks at.             *)
LEMMA OnceDepends ==
  ASSUME NEW record \in OnceRecords, NEW other \in Records,
         other.window = record.window, other.sent = record.sent
  PROVE  other \in OnceRecords
BY DEF OnceRecords, Once, SentNumbers

LEMMA CommittedOnce ==
  ASSUME NEW record \in OnceRecords, NEW number \in Numbers,
         Accepts(record.window, number)
  PROVE  Committed(record, number) \in OnceRecords
<1> DEFINE next == Committed(record, number)
<1>1. /\ record \in Records /\ record.window \in Windows
      /\ record.sent \in [Numbers -> Nat] /\ Once(record)
      BY DEF OnceRecords, Records
<1>2. number \in Nat /\ SentNumbers(record) \in SUBSET Nat
      BY PathAssumption DEF SentNumbers
<1>3. number \notin SentNumbers(record)
      BY <1>1, <1>2, AcceptedOnce DEF Once
<1>4. record.sent[number] = 0
      BY <1>1, <1>3 DEF SentNumbers
<1>5. /\ Advance(record.window, number) \in Windows
      /\ Represents(Advance(record.window, number), SentNumbers(record) \cup {number})
      BY <1>1, <1>2, AdvanceRepresents DEF Once
<1>6. /\ next \in Records
      /\ next.window = Advance(record.window, number)
      /\ next.sent = [record.sent EXCEPT ![number] = 1]
  <2> DEFINE window == Advance(record.window, number)
             sent   == [record.sent EXCEPT ![number] = record.sent[number] + 1]
  <2>1. /\ sent \in [Numbers -> Nat]
        /\ sent = [record.sent EXCEPT ![number] = 1]
        BY <1>1, <1>4
  <2>2. next = [record EXCEPT !.window = window, !.sent = sent]
        BY DEF Committed
  <2>3. window \in Windows
        BY <1>5
  <2> HIDE DEF window, sent, next
  <2>4. next \in Records /\ next.window = window /\ next.sent = sent
        BY <1>1, <2>1, <2>2, <2>3 DEF Records
  <2>5. QED  BY <2>1, <2>4 DEF window
<1> HIDE DEF next
<1>7. SentNumbers(next) = SentNumbers(record) \cup {number}
      BY <1>1, <1>6 DEF SentNumbers
<1>8. \A n \in Numbers : next.sent[n] <= 1
      BY <1>1, <1>6 DEF Once
<1>9. QED  BY <1>5, <1>6, <1>7, <1>8 DEF OnceRecords, Once, next

LEMMA DereferenceOnce ==
  ASSUME NEW f \in Flows, NEW record \in OnceRecords, NEW thread,
         context \in [Flows -> OnceRecords], Dereference(f, record, thread)
  PROVE  context' \in [Flows -> OnceRecords]
<1>1. record \in Records
      BY DEF OnceRecords
<1>2. CASE record.refs = 1
  <2>1. [NoContext EXCEPT !.listed = record.listed] \in Records
        BY <1>1, FreshRecord DEF OnceRecords, Records
  <2>2. [NoContext EXCEPT !.listed = record.listed] \in OnceRecords
        BY <2>1, FreshRecord, OnceDepends DEF OnceRecords, Records
  <2>3. QED  BY <1>1, <1>2, <2>2 DEF Dereference
<1>3. CASE record.refs # 1
  <2>1. [record EXCEPT !.refs = record.refs - 1] \in Records
        BY <1>1 DEF Records
  <2>2. [record EXCEPT !.refs = record.refs - 1] \in OnceRecords
        BY <1>1, <2>1, OnceDepends DEF Records
  <2>3. QED  BY <1>3, <2>2 DEF Dereference
<1>4. QED  BY <1>2, <1>3

-----------------------------------------------------------------------------
(* The steps ahead of the control thread.                                  *)

LEMMA PlainSteps ==
  ASSUME NEW names \in Seq(PlainNames)
  PROVE  Steps(names) \in Seq(StepRecords)
<1>1. DOMAIN names = 1 .. Len(names) /\ Len(names) \in Nat
      /\ \A i \in 1 .. Len(names) : names[i] \in PlainNames
      OBVIOUS
<1>2. \A i \in 1 .. Len(names) :
        [step |-> names[i], flow |-> None, number |-> 0] \in StepRecords
  <2>1. \A name \in PlainNames : name \notin ReplyNames
        BY DEF PlainNames, ReplyNames
  <2>2. QED  BY <1>1, <2>1 DEF StepRecords
<1>3. QED  BY <1>1, <1>2 DEF Steps

PlainRequests ==
  {ReleaseLease, RenewLease, ReplaceLease, DeactivatePath,
   Steps(<<"expire">>), Steps(<<"await">>)}

LEMMA RequestNames ==
  ASSUME NEW q \in PlainRequests
  PROVE  \E names \in Seq(PlainNames) : q = Steps(names)
<1>1. Drain \in Seq(PlainNames)
      BY DEF Drain, PlainNames
<1>2. /\ <<"close", "purge", "detach", "fence", "readers", "reopen", "injections">>
           \in Seq(PlainNames)
      /\ <<"swap", "fence", "readers", "reopen", "expire">> \in Seq(PlainNames)
      /\ <<"close", "purge", "injections">> \in Seq(PlainNames)
      /\ <<"swap", "fence", "readers", "reopen", "resume", "expire">> \in Seq(PlainNames)
      /\ <<"close", "fence", "readers", "purge", "injections">> \in Seq(PlainNames)
      /\ <<"reopen", "expire">> \in Seq(PlainNames)
      /\ <<"expire">> \in Seq(PlainNames) /\ <<"await">> \in Seq(PlainNames)
      BY DEF PlainNames
<1>3. \A s, t \in Seq(PlainNames) : s \o t \in Seq(PlainNames)
      OBVIOUS
<1>4. CASE q = ReleaseLease
      BY <1>1, <1>2, <1>3, <1>4 DEF ReleaseLease
<1>5. CASE q = RenewLease
      BY <1>2, <1>5 DEF RenewLease
<1>6. CASE q = ReplaceLease
      BY <1>1, <1>2, <1>3, <1>6 DEF ReplaceLease
<1>7. CASE q = DeactivatePath
      BY <1>1, <1>2, <1>3, <1>7 DEF DeactivatePath
<1>8. CASE q = Steps(<<"expire">>) \/ q = Steps(<<"await">>)
      BY <1>2, <1>8
<1>9. QED  BY <1>4, <1>5, <1>6, <1>7, <1>8 DEF PlainRequests

LEMMA RequestSteps ==
  /\ ReleaseLease \in Seq(StepRecords) /\ RenewLease \in Seq(StepRecords)
  /\ ReplaceLease \in Seq(StepRecords) /\ DeactivatePath \in Seq(StepRecords)
  /\ Steps(<<"expire">>) \in Seq(StepRecords)
  /\ Steps(<<"await">>) \in Seq(StepRecords)
<1>1. \A q \in PlainRequests : q \in Seq(StepRecords)
      BY RequestNames, PlainSteps
<1>2. QED  BY <1>1 DEF PlainRequests

(* A batch holds steps of replies only.                                    *)
ReplyRecords == {s \in StepRecords : s.step \in ReplyNames}

LEMMA BatchReplies ==
  ASSUME NEW batch \in Batches
  PROVE  SubmitBatch(batch) \in Seq(ReplyRecords)
<1>1. PICK length \in Nat : batch \in [1 .. length -> [flow : Flows, number : Numbers]]
      BY PathAssumption DEF Batches
<1>2. Len(batch) = length
      BY <1>1
<1> DEFINE Record(name, reply) ==
             [step |-> name, flow |-> reply.flow, number |-> reply.number]
           check(i) == Record(IF i % 2 = 1 THEN "check" ELSE "drop", batch[(i + 1) \div 2])
           send(i)  == Record(<<"reference", "reserve", "send">>[((i - 1) % 3) + 1],
                              batch[(i + 2) \div 3])
           checks == [i \in 1 .. 2 * length |-> check(i)]
           sends  == [i \in 1 .. 3 * length |-> send(i)]
<1>3. \A name \in ReplyNames, i \in 1 .. length : Record(name, batch[i]) \in ReplyRecords
      BY <1>1, PathAssumption DEF ReplyRecords, StepRecords, ReplyNames
<1>4. \A i \in 1 .. 2 * length : check(i) \in ReplyRecords
  <2>1. \A i \in 1 .. 2 * length : (i + 1) \div 2 \in 1 .. length
        BY <1>1
  <2>2. \A i \in 1 .. 2 * length : (IF i % 2 = 1 THEN "check" ELSE "drop") \in ReplyNames
        BY DEF ReplyNames
  <2>3. QED  BY <1>3, <2>1, <2>2
<1>5. \A i \in 1 .. 3 * length : send(i) \in ReplyRecords
  <2>1. \A i \in 1 .. 3 * length : (i + 2) \div 3 \in 1 .. length
        BY <1>1
  <2>2. \A i \in 1 .. 3 * length : ((i - 1) % 3) + 1 \in 1 .. 3
        BY <1>1
  <2>3. <<"reference", "reserve", "send">> \in Seq(ReplyNames)
        BY DEF ReplyNames
  <2>4. \A j \in 1 .. 3 : <<"reference", "reserve", "send">>[j] \in ReplyNames
        BY <2>3
  <2>5. QED  BY <1>3, <2>1, <2>2, <2>4
<1>6. SubmitBatch(batch) = checks \o sends
      BY <1>2, Zenon DEF SubmitBatch
<1> HIDE DEF check, send
<1>7. checks \in Seq(ReplyRecords) /\ sends \in Seq(ReplyRecords)
      BY <1>1, <1>4, <1>5
<1> HIDE DEF checks, sends
<1>8. QED  BY <1>6, <1>7

LEMMA BatchSteps ==
  ASSUME NEW batch \in Batches
  PROVE  SubmitBatch(batch) \in Seq(StepRecords)
<1>1. SubmitBatch(batch) \in Seq(ReplyRecords) /\ ReplyRecords \subseteq StepRecords
      BY BatchReplies DEF ReplyRecords
<1>2. QED  BY <1>1

-----------------------------------------------------------------------------
(* Steps, by what they change of what the invariant looks at.              *)

LEMMA OtherSteps ==
  ASSUME ReplyInv, UNCHANGED <<lease, incoming, generation, classify, context>>,
         todo' \in Seq(StepRecords)
  PROVE  ReplyInv'
BY DEF ReplyInv

LEMMA ClassifySteps ==
  ASSUME ReplyInv, UNCHANGED <<lease, incoming, generation, context, todo>>,
         classify' \in [Flows -> [pc : ClassifyPoints, key : Keys \cup {None}]]
  PROVE  ReplyInv'
BY DEF ReplyInv

LEMMA ContextSteps ==
  ASSUME ReplyInv, UNCHANGED <<lease, incoming, generation>>,
         todo' \in Seq(StepRecords),
         classify' \in [Flows -> [pc : ClassifyPoints, key : Keys \cup {None}]],
         context' \in [Flows -> OnceRecords]
  PROVE  ReplyInv'
BY DEF ReplyInv

LEMMA TailSteps ==
  ASSUME ReplyInv
  PROVE  /\ todo # << >> => Tail(todo) \in Seq(StepRecords) /\ Head(todo) \in StepRecords
         /\ << >> \in Seq(StepRecords)
BY DEF ReplyInv

LEMMA RequestPreserves ==
  ASSUME ReplyInv, Request
  PROVE  ReplyInv'
<1>1. ASSUME NEW key \in Keys, GrantLease(key)
      PROVE  ReplyInv'
  <2>1. [key |-> key, generation |-> generation + 1, lapsed |-> FALSE] \in Leases
        /\ generation + 1 \in 0 .. MaxGeneration
        BY <1>1, PathAssumption DEF GrantLease, ReplyInv, Leases
  <2>2. incoming' \in Leases \cup {None} /\ generation' \in 0 .. MaxGeneration
        BY <1>1, <2>1, Zenon DEF GrantLease
  <2>3. todo' \in Seq(StepRecords)
        BY <1>1, RequestSteps DEF GrantLease
  <2>4. UNCHANGED <<lease, classify, context>>
        BY <1>1 DEF GrantLease, threadVars, contextVars
  <2>5. QED  BY <2>2, <2>3, <2>4 DEF ReplyInv
<1>2. CASE RevokeLease \/ Activate \/ Deactivate \/ Query
  <2>1. todo' \in Seq(StepRecords)
        BY <1>2, RequestSteps DEF RevokeLease, Activate, Deactivate, Query
  <2>2. UNCHANGED <<lease, incoming, generation, classify, context>>
        BY <1>2 DEF RevokeLease, Activate, Deactivate, Query, leaseVars, threadVars, contextVars
  <2>3. QED  BY <2>1, <2>2, OtherSteps
<1>3. CASE QueueReceive
  <2>1. UNCHANGED <<lease, incoming, generation, classify, context, todo>>
        BY <1>3 DEF QueueReceive, threadVars, contextVars
  <2>2. QED  BY <2>1, OtherSteps DEF ReplyInv
<1>4. ASSUME NEW batch \in Batches, Submit(batch)
      PROVE  ReplyInv'
  <2>1. todo' \in Seq(StepRecords)
        BY <1>4, BatchSteps DEF Submit
  <2>2. UNCHANGED <<lease, incoming, generation, classify, context>>
        BY <1>4 DEF Submit, leaseVars, threadVars, contextVars
  <2>3. QED  BY <2>1, <2>2, OtherSteps
<1>5. QED  BY <1>1, <1>2, <1>3, <1>4 DEF Request

LEMMA DrainFlowOnce ==
  ASSUME ReplyInv, NEW f \in Flows, DrainFlow(f)
  PROVE  ReplyInv'
<1> DEFINE record == [context[f] EXCEPT !.removal = TRUE]
<1>1. context[f] \in OnceRecords /\ context[f] \in Records
      BY DEF ReplyInv, OnceRecords
<1>2. record \in Records /\ record.window = context[f].window
      /\ record.sent = context[f].sent
      BY <1>1 DEF Records
<1>3. record \in OnceRecords
      BY <1>1, <1>2, OnceDepends
<1>4. context' = [context EXCEPT ![f] = record]
      BY DEF DrainFlow
<1>5. context' \in [Flows -> OnceRecords]
      BY <1>3, <1>4 DEF ReplyInv
<1>6. UNCHANGED <<lease, incoming, generation, classify, todo>>
      BY DEF DrainFlow, leaseVars, threadVars
<1>7. QED  BY <1>5, <1>6, ContextSteps DEF ReplyInv

LEMMA TeardownPreserves ==
  ASSUME ReplyInv, TeardownStep
  PROVE  ReplyInv'
<1>1. CASE \/ Close \/ Purge \/ Fence \/ AwaitReaders \/ Reopen \/ AwaitInjections
           \/ SetStopping("stop", TRUE) \/ SetStopping("resume", FALSE)
           \/ DrainEnds \/ AwaitEmptyEvent
  <2>1. todo # << >> /\ todo' = Tail(todo)
        BY <1>1 DEF Close, Purge, Fence, AwaitReaders, Reopen, AwaitInjections,
                    SetStopping, DrainEnds, AwaitEmptyEvent, AtStep, Advanced
  <2>2. UNCHANGED <<lease, incoming, generation, classify, context>>
        BY <1>1 DEF Close, Purge, Fence, AwaitReaders, Reopen, AwaitInjections,
                    SetStopping, DrainEnds, AwaitEmptyEvent,
                    leaseVars, threadVars, contextVars
  <2>3. QED  BY <2>1, <2>2, TailSteps, OtherSteps
<1>2. CASE ExchangeLease
  <2>1. todo # << >> /\ todo' = Tail(todo)
        BY <1>2 DEF ExchangeLease, AtStep, Advanced
  <2>2. lease' \in Leases \cup {None} /\ incoming' = None
        BY <1>2 DEF ExchangeLease, ReplyInv
  <2>3. UNCHANGED <<generation, classify, context>>
        BY <1>2 DEF ExchangeLease, threadVars, contextVars
  <2>4. QED  BY <2>1, <2>2, <2>3, TailSteps DEF ReplyInv
<1>3. CASE \E f \in Flows : DrainFlow(f)
      BY <1>3, DrainFlowOnce
<1>4. CASE ReadCount
  <2>1. \A s, t \in Seq(StepRecords) : s \o t \in Seq(StepRecords)
        OBVIOUS
  <2>2. todo' \in Seq(StepRecords)
        BY <1>4, <2>1, TailSteps, RequestSteps DEF ReadCount, AtStep
  <2>3. UNCHANGED <<lease, incoming, generation, classify, context>>
        BY <1>4 DEF ReadCount, leaseVars, threadVars, contextVars
  <2>4. QED  BY <2>2, <2>3, OtherSteps
<1>5. CASE Expire
  <2>1. todo' \in Seq(StepRecords)
        BY <1>5, TailSteps, RequestSteps DEF Expire, AtStep
  <2>2. UNCHANGED <<lease, incoming, generation, classify, context>>
        BY <1>5 DEF Expire, leaseVars, threadVars, contextVars
  <2>3. QED  BY <2>1, <2>2, OtherSteps
<1>6. QED  BY <1>1, <1>2, <1>3, <1>4, <1>5 DEF TeardownStep

(* The control thread drops the reference it holds.                        *)
LEMMA DropOnce ==
  ASSUME ReplyInv, NEW f, NEW thread, Dereference(f, context[f], thread)
  PROVE  context' \in [Flows -> OnceRecords]
<1>1. CASE f \in Flows
      BY <1>1, DereferenceOnce DEF ReplyInv
<1>2. CASE f \notin Flows
  <2>1. PICK record : context' = [context EXCEPT ![f] = record]
        BY DEF Dereference
  <2>2. QED  BY <1>2, <2>1 DEF ReplyInv
<1>3. QED  BY <1>1, <1>2

LEMMA GiveUpPreserves ==
  ASSUME ReplyInv, GiveUp, UNCHANGED <<leaseVars, classify>>
  PROVE  ReplyInv'
<1>1. context' \in [Flows -> OnceRecords]
      BY DropOnce DEF GiveUp
<1>2. todo' \in Seq(StepRecords)
      BY TailSteps DEF GiveUp
<1>3. QED  BY <1>1, <1>2, ContextSteps DEF ReplyInv, leaseVars

(* A step of a reply finds the flow and the number it needs.               *)
LEMMA ReplyHead ==
  ASSUME ReplyInv, NEW name \in ReplyNames, AtStep(name)
  PROVE  /\ Head(todo).flow \in Flows /\ Head(todo).number \in Numbers
         /\ Tail(todo) \in Seq(StepRecords)
<1>1. todo # << >> /\ Head(todo).step = name
      BY DEF AtStep
<1>2. Head(todo) \in StepRecords /\ Tail(todo) \in Seq(StepRecords)
      BY <1>1, TailSteps
<1>3. QED  BY <1>1, <1>2 DEF StepRecords

LEMMA ReferencePreserves ==
  ASSUME ReplyInv, NEW name \in ReplyNames, ReferenceForReply(name)
  PROVE  ReplyInv'
<1> DEFINE f      == Head(todo).flow
           record == [context[f] EXCEPT !.refs = context[f].refs + 1]
<1>1. AtStep(name)
      BY DEF ReferenceForReply
<1>2. f \in Flows /\ Tail(todo) \in Seq(StepRecords)
      BY <1>1, ReplyHead
<1>3. UNCHANGED <<lease, incoming, generation, classify>>
      BY DEF ReferenceForReply, leaseVars, threadVars
<1>4. todo' \in Seq(StepRecords)
      BY <1>2, TailSteps DEF ReferenceForReply, Advanced
<1>5. record \in OnceRecords
  <2>1. context[f] \in OnceRecords /\ context[f] \in Records
        BY <1>2 DEF ReplyInv, OnceRecords
  <2>2. record \in Records /\ record.window = context[f].window
        /\ record.sent = context[f].sent
        BY <2>1 DEF Records
  <2>3. QED  BY <2>1, <2>2, OnceDepends
<1>6. context' = context \/ context' = [context EXCEPT ![f] = record]
      BY DEF ReferenceForReply
<1>7. context' \in [Flows -> OnceRecords]
      BY <1>5, <1>6 DEF ReplyInv
<1>8. QED  BY <1>3, <1>4, <1>7, ContextSteps DEF ReplyInv

LEMMA SendPreserves ==
  ASSUME ReplyInv, SendReply \/ SendFails
  PROVE  ReplyInv'
<1> DEFINE f      == Head(todo).flow
           number == Head(todo).number
           sent   == Committed(context[f], number)
<1>1. AtStep("send")
      BY DEF SendReply, SendFails
<1>2. /\ f \in Flows /\ number \in Numbers /\ Tail(todo) \in Seq(StepRecords)
      /\ context[f] \in OnceRecords
      BY <1>1, ReplyHead DEF ReplyInv, ReplyNames
<1>3. UNCHANGED <<lease, incoming, generation, classify>>
      BY DEF SendReply, SendFails, leaseVars, threadVars
<1>4. todo' \in Seq(StepRecords)
      BY <1>2, TailSteps DEF SendReply, SendFails, Advanced
<1>5. CommitsReply(f, number) => sent \in OnceRecords
      BY <1>2, CommittedOnce DEF CommitsReply
<1>6. CASE SendReply
  <2>1. CommitsReply(f, number) /\ context' = [context EXCEPT ![f] = sent]
        BY <1>6 DEF SendReply
  <2>2. context' \in [Flows -> OnceRecords]
        BY <1>5, <2>1 DEF ReplyInv
  <2>3. QED  BY <1>3, <1>4, <2>2, ContextSteps DEF ReplyInv
<1>7. CASE SendFails
  <2>1. PICK record \in OnceRecords : Dereference(f, record, ControlThread)
        BY <1>2, <1>5, <1>7 DEF SendFails
  <2>2. context' \in [Flows -> OnceRecords]
        BY <1>2, <2>1, DereferenceOnce DEF ReplyInv
  <2>3. QED  BY <1>3, <1>4, <2>2, ContextSteps DEF ReplyInv
<1>8. QED  BY <1>6, <1>7

LEMMA ReplyPreserves ==
  ASSUME ReplyInv, ReplyStep
  PROVE  ReplyInv'
<1>1. CASE ReferenceForReply("check") \/ ReferenceForReply("reference")
      BY <1>1, ReferencePreserves DEF ReplyNames
<1>2. CASE Drop
  <2>1. todo' \in Seq(StepRecords)
        BY <1>2, TailSteps DEF Drop, AtStep, Advanced
  <2>2. context' \in [Flows -> OnceRecords]
        BY <1>2, DropOnce DEF Drop
  <2>3. QED  BY <1>2, <2>1, <2>2, ContextSteps DEF Drop, ReplyInv, leaseVars, threadVars
<1>3. CASE ReserveInjection
  <2>1. CASE GiveUp
        BY <1>3, <2>1, GiveUpPreserves DEF ReserveInjection, threadVars
  <2>2. CASE ~GiveUp
    <3>1. todo # << >> /\ todo' = Tail(todo)
          BY <1>3, <2>2 DEF ReserveInjection, AtStep, Advanced
    <3>2. UNCHANGED <<lease, incoming, generation, classify, context>>
          BY <1>3, <2>2 DEF ReserveInjection, leaseVars, threadVars
    <3>3. QED  BY <3>1, <3>2, TailSteps, OtherSteps
  <2>3. QED  BY <2>1, <2>2
<1>4. CASE PacketFails
      BY <1>4, GiveUpPreserves DEF PacketFails, threadVars
<1>5. CASE SendReply \/ SendFails
      BY <1>5, SendPreserves
<1>6. QED  BY <1>1, <1>2, <1>3, <1>4, <1>5 DEF ReplyStep

-----------------------------------------------------------------------------
(* Steps of the threads of a flow.                                         *)

(* A record with the window and the numbers of a context that exists.      *)
LEMMA UpdateOnce ==
  ASSUME ReplyInv, NEW f \in Flows, NEW record \in Records,
         record.window = context[f].window, record.sent = context[f].sent,
         context' = [context EXCEPT ![f] = record]
  PROVE  context' \in [Flows -> OnceRecords]
<1>1. record \in OnceRecords
      BY OnceDepends DEF ReplyInv
<1>2. QED  BY <1>1 DEF ReplyInv

LEMMA LinkedRecord ==
  ASSUME NEW record \in OnceRecords, NEW key \in Keys \cup {None}
  PROVE  /\ [record EXCEPT !.refs = 1, !.key = key] \in OnceRecords
         /\ [record EXCEPT !.listed = TRUE, !.refs = 2] \in OnceRecords
<1> DEFINE counted == [record EXCEPT !.refs = 1]
           fresh   == [counted EXCEPT !.key = key]
           listed  == [record EXCEPT !.listed = TRUE]
           linked  == [listed EXCEPT !.refs = 2]
<1>1. record \in Records
      BY DEF OnceRecords
<1>2. counted \in Records /\ counted.window = record.window /\ counted.sent = record.sent
      BY <1>1 DEF Records
<1>3. listed \in Records /\ listed.window = record.window /\ listed.sent = record.sent
      BY <1>1 DEF Records
<1>4. /\ [record EXCEPT !.refs = 1, !.key = key] = fresh
      /\ [record EXCEPT !.listed = TRUE, !.refs = 2] = linked
      BY <1>1 DEF Records
<1> HIDE DEF counted, listed
<1>5. fresh \in Records /\ fresh.window = counted.window /\ fresh.sent = counted.sent
      BY <1>2 DEF Records
<1>6. linked \in Records /\ linked.window = listed.window /\ linked.sent = listed.sent
      BY <1>3 DEF Records
<1> HIDE DEF fresh, linked
<1>7. fresh \in OnceRecords /\ linked \in OnceRecords
      BY <1>2, <1>3, <1>5, <1>6, OnceDepends
<1>8. QED  BY <1>4, <1>7

LEMMA LinkOnce ==
  ASSUME ReplyInv, NEW f \in Flows, ClassifyLink(f)
  PROVE  context' \in [Flows -> OnceRecords]
<1> DEFINE fresh  == [NoContext EXCEPT !.refs = 1, !.key = classify[f].key]
           linked == Linked(fresh)
<1>1. classify[f].key \in Keys \cup {None}
      BY DEF ReplyInv
<1>2. fresh \in OnceRecords
      BY <1>1, FreshRecord, LinkedRecord
<1>3. linked \in OnceRecords
      BY <1>1, <1>2, LinkedRecord DEF Linked
<1>4. fresh \in OnceRecords /\ linked \in OnceRecords
      BY <1>2, <1>3
<1>5. context' = [context EXCEPT ![f] = fresh] \/ context' = [context EXCEPT ![f] = linked]
      BY DEF ClassifyLink
<1>6. QED  BY <1>4, <1>5 DEF ReplyInv

LEMMA UnlinkedOnce ==
  ASSUME NEW record \in OnceRecords
  PROVE  Unlinked(record) \in OnceRecords
<1>1. record \in Records
      BY DEF OnceRecords
<1>2. Unlinked(record) \in Records /\ Unlinked(record).window = record.window
      /\ Unlinked(record).sent = record.sent
      BY <1>1 DEF Unlinked, Records
<1>3. QED  BY <1>2, OnceDepends

LEMMA ClassifyPreserves ==
  ASSUME ReplyInv, GateTyped, NEW f \in Flows, ClassifyAdmit(f) \/ ClassifyStep(f)
  PROVE  ReplyInv'
<1> DEFINE Typed == classify' \in [Flows -> [pc : ClassifyPoints, key : Keys \cup {None}]]
<1>0. \A pc \in ClassifyPoints : Goto(f, pc) => Typed
      BY DEF Goto, ReplyInv
<1>1. CASE \/ ClassifyAdmit(f) \/ ClassifyCheck(f) \/ ClassifyClearEvent(f)
           \/ ClassifyGiveSlotBack(f) \/ ClassifyAssociate(f)
  <2>1. PICK pc \in ClassifyPoints : Goto(f, pc)
        BY <1>1 DEF ClassifyAdmit, ClassifyCheck, ClassifyClearEvent,
                    ClassifyGiveSlotBack, ClassifyAssociate, ClassifyPoints
  <2>2. UNCHANGED <<lease, incoming, generation, context, todo>>
        BY <1>1 DEF ClassifyAdmit, ClassifyCheck, ClassifyClearEvent,
                    ClassifyGiveSlotBack, ClassifyAssociate, leaseVars, contextVars
  <2>3. QED  BY <1>0, <2>1, <2>2, ClassifySteps
<1>2. CASE ClassifyCount(f)
  <2>1. PICK pc \in ClassifyPoints : Goto(f, pc)
    <3>1. CASE slots.count + 1 = 1
          BY <1>2, <3>1 DEF ClassifyCount, SlotOutcome, ClassifyPoints
    <3>2. CASE slots.count + 1 # 1 /\ slots.count + 1 > MaxFlows
          BY <1>2, <3>2 DEF ClassifyCount, SlotOutcome, ClassifyPoints
    <3>3. CASE slots.count + 1 # 1 /\ ~(slots.count + 1 > MaxFlows)
          BY <1>2, <3>3 DEF ClassifyCount, SlotOutcome, ClassifyPoints
    <3>4. QED  BY <3>1, <3>2, <3>3
  <2>2. UNCHANGED <<lease, incoming, generation, context, todo>>
        BY <1>2 DEF ClassifyCount, leaseVars
  <2>3. QED  BY <1>0, <2>1, <2>2, ClassifySteps
<1>3. CASE ClassifyAcquire(f) \/ ClassifyRelease(f)
  <2>1. LeaseLive => lease.key \in Keys
        BY DEF LeaseLive, ReplyInv, Leases
  <2>2. Typed
    <3>1. CASE Goto(f, "idle")
          BY <1>0, <3>1 DEF ClassifyPoints
    <3>2. CASE ~Goto(f, "idle")
          BY <1>3, <2>1, <3>2 DEF ClassifyAcquire, ClassifyRelease, ClassifyPoints, ReplyInv
    <3>3. QED  BY <3>1, <3>2
  <2>3. UNCHANGED <<lease, incoming, generation, context, todo>>
        BY <1>3 DEF ClassifyAcquire, ClassifyRelease, leaseVars, contextVars
  <2>4. QED  BY <2>2, <2>3, ClassifySteps
<1>4. CASE \/ ClassifyLink(f) \/ ClassifyAssociateFails(f)
           \/ ClassifyMark(f) \/ ClassifyLeave(f)
  <2>1. PICK pc \in ClassifyPoints : Goto(f, pc)
        BY <1>4 DEF ClassifyLink, ClassifyAssociateFails, ClassifyMark, ClassifyLeave,
                    ClassifyPoints
  <2>2. UNCHANGED <<lease, incoming, generation, todo>>
        BY <1>4 DEF ClassifyLink, ClassifyAssociateFails, ClassifyMark, ClassifyLeave,
                    leaseVars
  <2>3. context[f] \in OnceRecords /\ context[f] \in Records
        BY DEF ReplyInv, OnceRecords
  <2>4. context' \in [Flows -> OnceRecords]
    <3>1. CASE ClassifyLink(f)
          BY <3>1, LinkOnce
    <3>2. CASE ClassifyAssociateFails(f)
          BY <2>3, <3>2, UnlinkedOnce, DereferenceOnce DEF ClassifyAssociateFails, ReplyInv
    <3>3. CASE ClassifyMark(f)
      <4> DEFINE record == [context[f] EXCEPT !.associated = TRUE, !.removal = gate.stopping]
      <4>1. CASE UNCHANGED context
            BY <4>1 DEF ReplyInv
      <4>2. CASE context' # context
        <5>1. context' = [context EXCEPT ![f].associated = TRUE, ![f].removal = gate.stopping]
              BY <3>3, <4>2 DEF ClassifyMark
        <5>2. context' = [context EXCEPT ![f] = record]
              BY <5>1 DEF ReplyInv
        <5>3. record \in Records /\ record.window = context[f].window
              /\ record.sent = context[f].sent
              BY <2>3 DEF Records, GateTyped
        <5>4. QED  BY <5>2, <5>3, UpdateOnce
      <4>3. QED  BY <4>1, <4>2
    <3>4. CASE ClassifyLeave(f)
          BY <3>4, DropOnce DEF ClassifyLeave
    <3>5. QED  BY <1>4, <3>1, <3>2, <3>3, <3>4
  <2>5. QED  BY <1>0, <2>1, <2>2, <2>4, ContextSteps DEF ReplyInv
<1>5. QED  BY <1>1, <1>2, <1>3, <1>4 DEF ClassifyStep

LEMMA CallbackPreserves ==
  ASSUME ReplyInv, NEW f \in Flows,
         CaptureStep(f) \/ FlowDelete(f) \/ CompleteInjection(f)
  PROVE  ReplyInv'
<1>1. context[f] \in OnceRecords /\ context[f] \in Records
      BY DEF ReplyInv, OnceRecords
<1>2. UNCHANGED <<lease, incoming, generation, todo, classify>>
      BY DEF CaptureStep, CaptureBind, CaptureTake, CaptureGivesUp, FlowDelete,
             CompleteInjection,
             leaseVars, threadVars
<1>3. context' \in [Flows -> OnceRecords]
  <2>1. CASE FlowDelete(f)
        BY <1>1, <2>1, UnlinkedOnce, DereferenceOnce DEF FlowDelete, ReplyInv
  <2>2. CASE CompleteInjection(f)
        BY <2>2, DropOnce DEF CompleteInjection
  <2>3. CASE CaptureBind(f)
    <3> DEFINE record == [context[f] EXCEPT !.bound = TRUE]
    <3>1. CASE UNCHANGED context
          BY <3>1 DEF ReplyInv
    <3>2. CASE context' # context
      <4>1. context' = [context EXCEPT ![f] = record]
            BY <2>3, <3>2 DEF CaptureBind, ReplyInv
      <4>2. record \in Records /\ record.window = context[f].window
            /\ record.sent = context[f].sent
            BY <1>1 DEF Records
      <4>3. QED  BY <4>1, <4>2, UpdateOnce
    <3>3. QED  BY <3>1, <3>2
  <2>4. CASE CaptureTake(f) \/ CaptureGivesUp(f)
        BY <2>4 DEF CaptureTake, CaptureGivesUp, contextVars, ReplyInv
  <2>5. QED  BY <2>1, <2>2, <2>3, <2>4 DEF CaptureStep
<1>4. QED  BY <1>2, <1>3, ContextSteps DEF ReplyInv

LEMMA OtherPreserves ==
  ASSUME ReplyInv,
         \/ \E thread \in Threads : SetEmptyEvent(thread)
         \/ \E f \in Flows : CaptureBegin(f) \/ FinishInjection(f)
         \/ UNCHANGED vars
  PROVE  ReplyInv'
<1>1. UNCHANGED <<lease, incoming, generation, classify, context, todo>>
      BY DEF SetEmptyEvent, CaptureBegin, FinishInjection, vars, leaseVars,
             contextVars, threadVars
<1>2. QED  BY <1>1, OtherSteps DEF ReplyInv

LEMMA LapsePreserves ==
  ASSUME ReplyInv, Lapse
  PROVE  ReplyInv'
<1>1. lease \in Leases
      BY DEF Lapse, LeaseLive, ReplyInv
<1>2. lease' \in Leases
      BY <1>1 DEF Lapse, Leases
<1>3. UNCHANGED <<incoming, generation, classify, context, todo>>
      BY DEF Lapse, threadVars, contextVars
<1>4. QED  BY <1>2, <1>3 DEF ReplyInv

-----------------------------------------------------------------------------
(* The gate has its type.                                                  *)

LEMMA GateStep ==
  ASSUME GateTyped, [Next]_vars
  PROVE  GateTyped'
<1>1. CASE Request
  <2>1. CASE Activate
        BY <2>1 DEF Activate, GateTyped
  <2>2. CASE ~Activate
        BY <1>1, <2>2 DEF Request, GrantLease, RevokeLease, Deactivate, Query,
                          QueueReceive, Submit, leaseVars, GateTyped
  <2>3. QED  BY <2>1, <2>2
<1>2. CASE TeardownStep
  <2>1. CASE Close \/ SetStopping("stop", TRUE) \/ SetStopping("resume", FALSE)
        BY <2>1 DEF Close, SetStopping, GateTyped
  <2>2. CASE ~(Close \/ SetStopping("stop", TRUE) \/ SetStopping("resume", FALSE))
        BY <1>2, <2>2 DEF TeardownStep, Purge, ExchangeLease, Fence, AwaitReaders,
              Reopen, AwaitInjections, DrainFlow, DrainEnds, ReadCount,
              AwaitEmptyEvent, Expire, leaseVars, GateTyped
  <2>3. QED  BY <2>1, <2>2
<1>3. CASE ReplyStep \/ Lapse \/ UNCHANGED vars
           \/ \E thread \in Threads : SetEmptyEvent(thread)
      BY <1>3 DEF ReplyStep, ReferenceForReply, Drop, ReserveInjection, PacketFails,
            SendReply, SendFails, Lapse, SetEmptyEvent, vars, leaseVars, GateTyped
<1>4. ASSUME NEW f \in Flows, ClassifyAdmit(f) \/ ClassifyStep(f)
      PROVE  GateTyped'
      BY <1>4 DEF ClassifyAdmit, ClassifyStep, ClassifyAcquire, ClassifyCheck,
            ClassifyCount, ClassifyClearEvent, ClassifyGiveSlotBack, ClassifyLink,
            ClassifyAssociate, ClassifyAssociateFails, ClassifyMark, ClassifyLeave,
            ClassifyRelease, leaseVars, GateTyped
<1>5. ASSUME NEW f \in Flows,
             \/ CaptureBegin(f) \/ CaptureStep(f) \/ FlowDelete(f)
             \/ CompleteInjection(f) \/ FinishInjection(f)
      PROVE  GateTyped'
      BY <1>5 DEF CaptureBegin, CaptureStep, CaptureBind, CaptureTake,
            CaptureGivesUp, FlowDelete,
            CompleteInjection, FinishInjection, leaseVars, GateTyped
<1>6. QED  BY <1>1, <1>2, <1>3, <1>4, <1>5 DEF Next, ControlStep

-----------------------------------------------------------------------------
LEMMA InitReplyInv == Init => ReplyInv /\ GateTyped
<1> SUFFICES ASSUME Init PROVE ReplyInv /\ GateTyped
    OBVIOUS
<1>1. context \in [Flows -> OnceRecords]
      BY FreshRecord DEF Init
<1>2. todo \in Seq(StepRecords)
      BY DEF Init
<1>3. classify \in [Flows -> [pc : ClassifyPoints, key : Keys \cup {None}]]
      BY DEF Init, ClassifyPoints
<1>4. generation \in 0 .. MaxGeneration /\ lease = None /\ incoming = None
      BY PathAssumption DEF Init
<1>5. GateTyped
      BY DEF Init, GateTyped
<1>6. QED  BY <1>1, <1>2, <1>3, <1>4, <1>5 DEF ReplyInv

LEMMA NextReplyInv ==
  ASSUME ReplyInv, GateTyped, [Next]_vars
  PROVE  ReplyInv'
<1>1. CASE Request
      BY <1>1, RequestPreserves
<1>2. CASE ControlStep
      BY <1>2, TeardownPreserves, ReplyPreserves DEF ControlStep
<1>3. CASE Lapse
      BY <1>3, LapsePreserves
<1>4. ASSUME NEW f \in Flows, ClassifyAdmit(f) \/ ClassifyStep(f)
      PROVE  ReplyInv'
      BY <1>4, ClassifyPreserves
<1>5. ASSUME NEW f \in Flows, CaptureStep(f) \/ FlowDelete(f) \/ CompleteInjection(f)
      PROVE  ReplyInv'
      BY <1>5, CallbackPreserves
<1>6. CASE \/ \E thread \in Threads : SetEmptyEvent(thread)
           \/ \E f \in Flows : CaptureBegin(f) \/ FinishInjection(f)
           \/ UNCHANGED vars
      BY <1>6, OtherPreserves
<1>7. QED  BY <1>1, <1>2, <1>3, <1>4, <1>5, <1>6 DEF Next

(* A reply is handed to an application at most once, and the window of a   *)
(* flow is that of the numbers sent (FcxUdpReplySequenceAccepts,           *)
(* FcxCommitUdpReplySequence).                                             *)
THEOREM SentAtMostOnce == Spec => []RepliesOnce
<1>1. ReplyInv => RepliesOnce
      BY DEF ReplyInv, OnceRecords, Once, SentNumbers, RepliesOnce
<1>2. ReplyInv /\ GateTyped /\ [Next]_vars => ReplyInv' /\ GateTyped'
      BY NextReplyInv, GateStep
<1>3. QED  BY <1>1, <1>2, InitReplyInv, PTL DEF Spec

-----------------------------------------------------------------------------
(* Who uses a context, and who holds a slot.                               *)

Early      == {"admitted", "reading", "reserving", "counted", "full", "reserved"}
CreatingAt == {"associating", "marking", "leaving"}
SlotAt     == {"counted", "reserved", "full"}

(* What holds of a flow: its record, where its classify call is, what WFP   *)
(* has of it, whether the control thread holds it, the injections under way. *)
Uses(pc, atWfp, held, injections) ==
  One(pc \in CreatingAt) + One(pc = "associating" \/ atWfp # "none")
    + One(held) + injections

Sound(record, pc, atWfp, held, injections) ==
  /\ record.refs = Uses(pc, atWfp, held, injections)
  /\ record.listed => pc = "associating" \/ atWfp # "none"
  /\ pc \in Early => record.refs = 0 /\ atWfp = "none"
  /\ pc = "associating" => atWfp = "none" /\ ~record.associated

FlowSound(f) == Sound(context[f], classify[f].pc, wfp[f], holding = f, sending[f])

(* The steps of a reply follow each other: what a check or a reference      *)
(* takes is let go or handed on by the steps right behind it.               *)
HeldAt  == {"drop", "reserve", "send"}
Opening == {"check", "reference", "reserve"}

Follows(a, b) ==
  /\ b.step = "drop" <=> a.step = "check"
  /\ b.step = "reserve" <=> a.step = "reference"
  /\ b.step = "send" <=> a.step = "reserve"
  /\ b.step \in HeldAt => b.flow = a.flow

Chained(steps) ==
  \A i \in 1 .. Len(steps) :
    IF i = Len(steps) THEN steps[i].step \notin Opening ELSE Follows(steps[i], steps[i + 1])

Begins(steps) == steps # << >> => Head(steps).step \notin HeldAt

HoldsTheReply ==
  IF Begins(todo) THEN holding = None ELSE holding = Head(todo).flow

(* A slot is counted for a context and for a flow on its way to one.        *)
Slotted(record, pc) == record.refs > 0 \/ pc \in SlotAt
Granted(record, pc) == record.refs > 0 \/ pc \in SlotAt \ {"full"}
SlottedFlows == {f \in Flows : Slotted(context[f], classify[f].pc)}
GrantedFlows == {f \in Flows : Granted(context[f], classify[f].pc)}

SlotsInv ==
  slots.count = Cardinality(SlottedFlows) /\ Cardinality(GrantedFlows) <= MaxFlows

UsesTyped ==
  /\ wfp \in [Flows -> {"none", "attached", "removing"}] /\ sending \in [Flows -> Nat]
  /\ slots \in [count : Int, drained : BOOLEAN]

ChainInv == Chained(todo) /\ HoldsTheReply

UsesInv == UsesTyped /\ (\A f \in Flows : FlowSound(f)) /\ ChainInv /\ SlotsInv

(* What a step does that touches one flow: the flow is sound afterwards,   *)
(* and its slot is counted as long as it has one.                          *)
OnlyFlow(f) ==
  /\ \A g \in Flows \ {f} : /\ context'[g] = context[g] /\ classify'[g] = classify[g]
                            /\ wfp'[g] = wfp[g] /\ sending'[g] = sending[g]
                            /\ holding' = g <=> holding = g
  /\ Sound(context'[f], classify'[f].pc, wfp'[f], holding' = f, sending'[f])
  /\ slots'.count + One(Slotted(context[f], classify[f].pc))
       = slots.count + One(Slotted(context'[f], classify'[f].pc))
  /\ Granted(context'[f], classify'[f].pc)
       => Granted(context[f], classify[f].pc) \/ slots'.count <= MaxFlows

-----------------------------------------------------------------------------
(* The steps of a reply follow each other.                                 *)

LEMMA TailChains ==
  ASSUME NEW q \in Seq(StepRecords), q # << >>, Chained(q)
  PROVE  /\ Chained(Tail(q)) /\ Tail(q) \in Seq(StepRecords)
         /\ Tail(q) = << >> => Head(q).step \notin Opening
         /\ Tail(q) # << >> => Follows(Head(q), Head(Tail(q)))
<1> DEFINE rest == Tail(q)
<1>0. /\ rest \in Seq(StepRecords) /\ Len(rest) = Len(q) - 1 /\ Head(q) = q[1]
      /\ \A i \in 1 .. Len(rest) : rest[i] = q[i + 1]
      OBVIOUS
<1>1. /\ rest \in Seq(StepRecords) /\ Len(rest) = Len(q) - 1 /\ Head(q) = q[1]
      /\ \A i \in 1 .. Len(rest) : rest[i] = q[i + 1]
      /\ rest # << >> => Head(rest) = rest[1] /\ 1 \in 1 .. Len(rest)
      /\ rest = << >> => Len(rest) = 0
  <2> HIDE DEF rest
  <2>1. rest # << >> => Len(rest) \in Nat \ {0} /\ Head(rest) = rest[1]
        BY <1>0, EmptySeq
  <2>2. rest = << >> => Len(rest) = 0
        OBVIOUS
  <2>3. QED  BY <1>0, <2>1, <2>2
<1>2. Len(q) \in Nat /\ Len(q) > 0
  <2>1. Len(q) \in Nat /\ (Len(q) = 0 => q = << >>)
        BY EmptySeq
  <2>2. QED  BY <2>1
<1> HIDE DEF rest
<1>3. \A i \in 1 .. Len(rest) :
        /\ i + 1 \in 1 .. Len(q) /\ (i = Len(rest) <=> i + 1 = Len(q))
        /\ i # Len(rest) => i + 1 \in 1 .. Len(rest)
      BY <1>1, <1>2
<1>4. Chained(rest)
  <2> SUFFICES ASSUME NEW i \in 1 .. Len(rest)
               PROVE  IF i = Len(rest) THEN rest[i].step \notin Opening
                                       ELSE Follows(rest[i], rest[i + 1])
      BY DEF Chained
  <2>1. IF i + 1 = Len(q) THEN q[i + 1].step \notin Opening ELSE Follows(q[i + 1], q[(i + 1) + 1])
        BY <1>3 DEF Chained
  <2>2. CASE i = Len(rest)
        BY <1>1, <1>3, <2>1, <2>2
  <2>3. CASE i # Len(rest)
    <3>1. rest[i] = q[i + 1] /\ rest[i + 1] = q[(i + 1) + 1] /\ i + 1 # Len(q)
          BY <1>1, <1>3, <2>3
    <3>2. QED  BY <2>1, <2>3, <3>1
  <2>4. QED  BY <2>2, <2>3
<1>5. 1 \in 1 .. Len(q) /\ (Len(q) = 1 <=> Len(rest) = 0)
      BY <1>1, <1>2
<1>6. IF 1 = Len(q) THEN q[1].step \notin Opening ELSE Follows(q[1], q[1 + 1])
      BY <1>5 DEF Chained
<1>7. rest = << >> => Head(q).step \notin Opening
      BY <1>1, <1>5, <1>6
<1>8. rest # << >> => Follows(Head(q), Head(rest))
  <2> SUFFICES ASSUME rest # << >> PROVE Follows(Head(q), Head(rest))
      OBVIOUS
  <2>1. Head(rest) = q[1 + 1] /\ Len(q) # 1
        BY <1>1, <1>3, <1>5
  <2>2. QED  BY <1>1, <1>6, <2>1
<1>9. QED  BY <1>1, <1>4, <1>7, <1>8 DEF rest

LEMMA PlainChains ==
  ASSUME NEW q \in PlainRequests
  PROVE  Chained(q) /\ Begins(q)
<1>1. PICK names \in Seq(PlainNames) : q = Steps(names)
      BY RequestNames
<1>2. \A name \in PlainNames : name \notin HeldAt /\ name \notin Opening
      BY DEF PlainNames, HeldAt, Opening
<1>3. /\ Len(q) = Len(names) /\ DOMAIN q = 1 .. Len(q) /\ Len(q) \in Nat
      /\ q # << >> => Head(q) = q[1] /\ 1 \in 1 .. Len(q)
  <2>1. q = [i \in 1 .. Len(names) |-> [step |-> names[i], flow |-> None, number |-> 0]]
        BY <1>1 DEF Steps
  <2>2. QED  BY <2>1
<1>4. \A i \in 1 .. Len(q) : q[i].step \in PlainNames
      BY <1>1, <1>3 DEF Steps
<1>5. \A i \in 1 .. Len(q) : i # Len(q) => i + 1 \in 1 .. Len(q)
  <2>1. PICK n \in Nat : Len(q) = n
        BY <1>3
  <2>2. \A i \in 1 .. n : i # n => i + 1 \in 1 .. n
        OBVIOUS
  <2>3. QED  BY <2>1, <2>2
<1>6. \A i \in 1 .. Len(q) : q[i].step \notin HeldAt /\ q[i].step \notin Opening
      BY <1>2, <1>4
<1>7. Begins(q)
      BY <1>3, <1>6 DEF Begins
<1>8. Chained(q)
  <2> SUFFICES ASSUME NEW i \in 1 .. Len(q), i # Len(q) PROVE Follows(q[i], q[i + 1])
      BY <1>6 DEF Chained
  <2>1. q[i].step \notin HeldAt \cup Opening /\ q[i + 1].step \notin HeldAt \cup Opening
        BY <1>5, <1>6
  <2>2. QED  BY <2>1 DEF Follows, HeldAt, Opening
<1>9. QED  BY <1>7, <1>8

(* Waiting for the event is put before what is left of a teardown.         *)
LEMMA AwaitChains ==
  ASSUME NEW q \in Seq(StepRecords), Chained(q), Begins(q)
  PROVE  Chained(Steps(<<"await">>) \o q) /\ Begins(Steps(<<"await">>) \o q)
<1> DEFINE await == [step |-> "await", flow |-> None, number |-> 0]
           all   == <<await>> \o q
<1>1. Steps(<<"await">>) = <<await>>
      BY DEF Steps
<1>2. /\ Len(all) = Len(q) + 1 /\ all[1] = await /\ Head(all) = await
      /\ \A i \in 1 .. Len(q) : all[i + 1] = q[i]
      /\ Len(q) \in Nat /\ (Len(q) # 0 => q # << >> /\ Head(q) = q[1])
      OBVIOUS
<1>3. await.step = "await"
      OBVIOUS
<1> HIDE DEF all, await
<1>4. \A i \in 1 .. Len(all) : i = 1 \/ (i - 1 \in 1 .. Len(q) /\ (i - 1) + 1 = i)
      BY <1>2
<1>5. Begins(all)
      BY <1>2, <1>3 DEF Begins, HeldAt
<1>6. ASSUME NEW i \in 1 .. Len(all)
      PROVE  IF i = Len(all) THEN all[i].step \notin Opening ELSE Follows(all[i], all[i + 1])
  <2>1. CASE i = 1
    <3>1. CASE Len(q) = 0
          BY <1>2, <1>3, <2>1, <3>1 DEF Opening
    <3>2. CASE Len(q) # 0
      <4>1. 1 \in 1 .. Len(q) /\ i # Len(all)
            BY <1>2, <2>1, <3>2
      <4>2. all[i + 1] = q[1] /\ q[1].step \notin HeldAt
            BY <1>2, <2>1, <3>2, <4>1 DEF Begins
      <4>3. Follows(all[i], all[i + 1])
            BY <1>2, <1>3, <2>1, <4>2 DEF Follows, HeldAt
      <4>4. QED  BY <4>1, <4>3
    <3>3. QED  BY <3>1, <3>2
  <2>2. CASE i # 1
    <3> DEFINE j == i - 1
    <3>1. /\ j \in 1 .. Len(q) /\ all[i] = q[j] /\ (i = Len(all) <=> j = Len(q))
          /\ j # Len(q) => j + 1 \in 1 .. Len(q) /\ (j + 1) + 1 = i + 1
          BY <1>2, <1>4, <2>2
    <3>2. IF j = Len(q) THEN q[j].step \notin Opening ELSE Follows(q[j], q[j + 1])
          BY <3>1 DEF Chained
    <3>3. j # Len(q) => all[i + 1] = q[j + 1]
          BY <1>2, <3>1
    <3> HIDE DEF j
    <3>4. QED  BY <3>1, <3>2, <3>3
  <2>3. QED  BY <2>1, <2>2
<1>7. Chained(all)
      BY <1>6 DEF Chained
<1>8. QED  BY <1>1, <1>5, <1>7 DEF all

(* In a batch a check is followed by its drop, a reference by its reserve  *)
(* and its send.                                                           *)
LEMMA BatchChains ==
  ASSUME NEW batch \in Batches
  PROVE  Chained(SubmitBatch(batch)) /\ Begins(SubmitBatch(batch))
<1>1. PICK n \in Nat \ {0} : batch \in [1 .. n -> [flow : Flows, number : Numbers]]
      BY PathAssumption DEF Batches
<1>2. Len(batch) = n
      BY <1>1
<1> DEFINE Record(name, reply) ==
             [step |-> name, flow |-> reply.flow, number |-> reply.number]
           check(i) == Record(IF i % 2 = 1 THEN "check" ELSE "drop", batch[(i + 1) \div 2])
           send(i)  == Record(<<"reference", "reserve", "send">>[((i - 1) % 3) + 1],
                              batch[(i + 2) \div 3])
           checks == [i \in 1 .. 2 * n |-> check(i)]
           sends  == [i \in 1 .. 3 * n |-> send(i)]
           q == checks \o sends
<1>3. SubmitBatch(batch) = q
      BY <1>2 DEF SubmitBatch
<1>4. \A i \in 1 .. 2 * n :
        /\ checks[i].step = (IF i % 2 = 1 THEN "check" ELSE "drop")
        /\ checks[i].flow = batch[(i + 1) \div 2].flow
      OBVIOUS
<1>5. \A i \in 1 .. 3 * n :
        /\ sends[i].step = <<"reference", "reserve", "send">>[((i - 1) % 3) + 1]
        /\ sends[i].flow = batch[(i + 2) \div 3].flow
      OBVIOUS
<1>6. \A i \in 1 .. 3 * n :
        /\ (i - 1) % 3 = 0 => sends[i].step = "reference"
        /\ (i - 1) % 3 = 1 => sends[i].step = "reserve"
        /\ (i - 1) % 3 = 2 => sends[i].step = "send"
      BY <1>5
<1>7. /\ Len(checks) = 2 * n /\ Len(sends) = 3 * n /\ Len(q) = 5 * n
      /\ \A i \in 1 .. 2 * n : q[i] = checks[i]
      /\ \A i \in 1 .. 3 * n : q[2 * n + i] = sends[i]
      /\ Head(q) = q[1]
  <2>1. \A i \in 1 .. 2 * n : (i + 1) \div 2 \in 1 .. n
        OBVIOUS
  <2>2. \A i \in 1 .. 3 * n : (i + 2) \div 3 \in 1 .. n /\ ((i - 1) % 3) + 1 \in 1 .. 3
        OBVIOUS
  <2> DEFINE Any == [step : ReplyNames, flow : Flows, number : Numbers]
  <2>0. \A name \in ReplyNames, i \in 1 .. n : Record(name, batch[i]) \in Any
        BY <1>1
  <2>3. checks \in Seq(Any) /\ Len(checks) = 2 * n
    <3>1. \A i \in 1 .. 2 * n : (IF i % 2 = 1 THEN "check" ELSE "drop") \in ReplyNames
          BY DEF ReplyNames
    <3>2. \A i \in 1 .. 2 * n : check(i) \in Any
          BY <2>1, <2>0, <3>1
    <3> HIDE DEF check, Any
    <3>3. 2 * n \in Nat /\ checks \in [1 .. 2 * n -> Any]
          BY <3>2
    <3> HIDE DEF checks
    <3>4. QED  BY <3>3
  <2>4. sends \in Seq(Any) /\ Len(sends) = 3 * n
    <3>1. \A k \in 1 .. 3 : <<"reference", "reserve", "send">>[k] \in ReplyNames
      <4>1. <<"reference", "reserve", "send">> \in Seq(ReplyNames)
            BY DEF ReplyNames
      <4>2. QED  BY <4>1
    <3>2. \A i \in 1 .. 3 * n : send(i) \in Any
          BY <2>0, <2>2, <3>1
    <3> HIDE DEF send, Any
    <3>3. 3 * n \in Nat /\ sends \in [1 .. 3 * n -> Any]
          BY <3>2
    <3> HIDE DEF sends
    <3>4. QED  BY <3>3
  <2> HIDE DEF checks, sends, Any
  <2>8. q \in Seq(Any)
        BY <2>3, <2>4
  <2>9. /\ Len(q) = Len(checks) + Len(sends)
        /\ \A i \in 1 .. Len(checks) : q[i] = checks[i]
        /\ \A i \in 1 .. Len(sends) : q[Len(checks) + i] = sends[i]
        BY <2>3, <2>4
  <2>5. /\ q \in Seq(Any) /\ Len(q) = Len(checks) + Len(sends)
        /\ \A i \in 1 .. Len(checks) : q[i] = checks[i]
        /\ \A i \in 1 .. Len(sends) : q[Len(checks) + i] = sends[i]
        BY <2>8, <2>9
  <2> HIDE DEF q
  <2>6. Head(q) = q[1]
    <3>1. Len(q) \in Nat \ {0} /\ q \in Seq(Any)
          BY <2>3, <2>4, <2>5
    <3>2. QED  BY <3>1
  <2>7. QED  BY <2>3, <2>4, <2>5, <2>6
<1> HIDE DEF q, checks, sends
<1>8. ASSUME NEW i \in 1 .. 2 * n, i # 2 * n PROVE Follows(q[i], q[i + 1])
  <2>1. i + 1 \in 1 .. 2 * n /\ q[i] = checks[i] /\ q[i + 1] = checks[i + 1]
        BY <1>7, <1>8
  <2>2. CASE i % 2 = 1
    <3>1. (i + 1) % 2 # 1 /\ ((i + 1) + 1) \div 2 = (i + 1) \div 2
          BY <2>2
    <3>2. q[i].step = "check" /\ q[i + 1].step = "drop" /\ q[i + 1].flow = q[i].flow
          BY <1>4, <2>1, <2>2, <3>1
    <3>3. QED  BY <3>2 DEF Follows
  <2>3. CASE i % 2 # 1
    <3>1. (i + 1) % 2 = 1
          BY <2>3
    <3>2. q[i].step = "drop" /\ q[i + 1].step = "check"
          BY <1>4, <2>1, <2>3, <3>1
    <3>3. QED  BY <3>2 DEF Follows, HeldAt
  <2>4. QED  BY <2>2, <2>3
<1>9. Follows(q[2 * n], q[2 * n + 1])
  <2>1. 2 * n \in 1 .. 2 * n /\ (2 * n) % 2 # 1 /\ 1 \in 1 .. 3 * n /\ (1 - 1) % 3 = 0
        OBVIOUS
  <2>2. q[2 * n].step = "drop" /\ q[2 * n + 1].step = "reference"
        BY <1>4, <1>6, <1>7, <2>1
  <2>3. QED  BY <2>2 DEF Follows, HeldAt
<1>10. ASSUME NEW i \in 1 .. 3 * n, i # 3 * n
       PROVE  Follows(q[2 * n + i], q[(2 * n + i) + 1])
  <2>1. i + 1 \in 1 .. 3 * n /\ (2 * n + i) + 1 = 2 * n + (i + 1)
        BY <1>10
  <2>2. q[2 * n + i] = sends[i] /\ q[(2 * n + i) + 1] = sends[i + 1]
    <3>1. q[2 * n + i] = sends[i] /\ q[2 * n + (i + 1)] = sends[i + 1]
          BY <1>7, <2>1
    <3>2. QED  BY <2>1, <3>1
  <2>3. CASE (i - 1) % 3 = 0
    <3>1. ((i + 1) - 1) % 3 = 1 /\ ((i + 1) + 2) \div 3 = (i + 2) \div 3
          BY <2>3
    <3>2. /\ sends[i].step = "reference" /\ sends[i + 1].step = "reserve"
          /\ sends[i + 1].flow = sends[i].flow
          BY <1>5, <1>6, <2>1, <2>3, <3>1
    <3>3. QED  BY <2>2, <3>2 DEF Follows
  <2>4. CASE (i - 1) % 3 = 1
    <3>1. ((i + 1) - 1) % 3 = 2 /\ ((i + 1) + 2) \div 3 = (i + 2) \div 3
          BY <2>4
    <3>2. /\ sends[i].step = "reserve" /\ sends[i + 1].step = "send"
          /\ sends[i + 1].flow = sends[i].flow
      <4>1. sends[i].step = "reserve"
            BY <1>6, <2>4
      <4>2. sends[i + 1].step = "send"
            BY <1>6, <2>1, <3>1
      <4>3. sends[i + 1].flow = sends[i].flow
            BY <1>5, <2>1, <3>1
      <4>4. QED  BY <4>1, <4>2, <4>3
    <3>3. QED  BY <2>2, <3>2 DEF Follows
  <2>5. CASE (i - 1) % 3 = 2
    <3>1. ((i + 1) - 1) % 3 = 0
          BY <2>5
    <3>2. sends[i].step = "send" /\ sends[i + 1].step = "reference"
          BY <1>6, <2>1, <2>5, <3>1
    <3>3. QED  BY <2>2, <3>2 DEF Follows, HeldAt
  <2>6. (i - 1) % 3 = 0 \/ (i - 1) % 3 = 1 \/ (i - 1) % 3 = 2
        OBVIOUS
  <2>7. QED  BY <2>3, <2>4, <2>5, <2>6
<1>11. q[5 * n].step \notin Opening
  <2>1. 3 * n \in 1 .. 3 * n /\ 2 * n + 3 * n = 5 * n /\ (3 * n - 1) % 3 = 2
        OBVIOUS
  <2>2. q[5 * n].step = "send"
        BY <1>6, <1>7, <2>1
  <2>3. QED  BY <2>2 DEF Opening
<1>12. Chained(q)
  <2> SUFFICES ASSUME NEW i \in 1 .. 5 * n
               PROVE  IF i = 5 * n THEN q[i].step \notin Opening ELSE Follows(q[i], q[i + 1])
      BY <1>7 DEF Chained
  <2>1. CASE i \in 1 .. 2 * n /\ i # 2 * n
        BY <1>8, <2>1
  <2>2. CASE i = 2 * n
        BY <1>9, <2>2
  <2>3. CASE i > 2 * n /\ i # 5 * n
    <3>1. PICK j \in 1 .. 3 * n : i = 2 * n + j /\ j # 3 * n
      <4>1. i - 2 * n \in 1 .. 3 * n /\ i = 2 * n + (i - 2 * n) /\ i - 2 * n # 3 * n
            BY <2>3
      <4>2. QED  BY <4>1
    <3>2. QED  BY <1>10, <2>3, <3>1
  <2>4. CASE i = 5 * n
        BY <1>11, <2>4
  <2>5. QED  BY <2>1, <2>2, <2>3, <2>4
<1>13. Begins(q)
  <2>1. 1 \in 1 .. 2 * n /\ 1 % 2 = 1
        OBVIOUS
  <2>2. Head(q).step = "check"
        BY <1>4, <1>7, <2>1
  <2>3. QED  BY <2>2 DEF Begins, HeldAt
<1>14. QED  BY <1>3, <1>12, <1>13

-----------------------------------------------------------------------------
(* The slots are counted, whatever a step does to one flow.                *)

(* How many elements a subset has with an element more or less.            *)
LEMMA OneElement ==
  ASSUME NEW S, IsFiniteSet(S), NEW x, x \notin S, NEW condition \in BOOLEAN
  PROVE  /\ Cardinality(IF condition THEN S \cup {x} ELSE S) = Cardinality(S) + One(condition)
         /\ Cardinality(S) \in Nat
<1>1. Cardinality(S) \in Nat
      BY FS_CardinalityType
<1>2. CASE condition
      BY <1>1, <1>2, FS_AddElement DEF One
<1>3. CASE ~condition
      BY <1>1, <1>3 DEF One
<1>4. QED  BY <1>1, <1>2, <1>3

LEMMA SlotsOfOneFlow ==
  ASSUME SlotsInv, UsesTyped, slots' \in [count : Int, drained : BOOLEAN],
         NEW f \in Flows, OnlyFlow(f)
  PROVE  SlotsInv'
<1> DEFINE slot(g)   == Slotted(context[g], classify[g].pc)
           slot2(g)  == Slotted(context'[g], classify'[g].pc)
           grant(g)  == Granted(context[g], classify[g].pc)
           grant2(g) == Granted(context'[g], classify'[g].pc)
           Others    == {g \in Flows \ {f} : slot(g)}
           Granteds  == {g \in Flows \ {f} : grant(g)}
<1>1. \A g \in Flows \ {f} : (slot2(g) <=> slot(g)) /\ (grant2(g) <=> grant(g))
      BY DEF OnlyFlow
<1>2. \A g \in Flows : grant2(g) => slot2(g)
      BY DEF Granted, Slotted
<1>3. slot(f) \in BOOLEAN /\ slot2(f) \in BOOLEAN /\ grant(f) \in BOOLEAN /\ grant2(f) \in BOOLEAN
      BY DEF Granted, Slotted
<1>4. /\ SlottedFlows = IF slot(f) THEN Others \cup {f} ELSE Others
      /\ GrantedFlows = IF grant(f) THEN Granteds \cup {f} ELSE Granteds
      BY DEF SlottedFlows, GrantedFlows
<1>5. /\ SlottedFlows' = {g \in Flows : slot2(g)}
      /\ GrantedFlows' = {g \in Flows : grant2(g)}
      BY DEF SlottedFlows, GrantedFlows
<1>6. /\ slots'.count + One(slot(f)) = slots.count + One(slot2(f))
      /\ grant2(f) => grant(f) \/ slots'.count <= MaxFlows
      BY DEF OnlyFlow
<1>7. f \notin Others /\ f \notin Granteds /\ IsFiniteSet(Others) /\ IsFiniteSet(Granteds)
      BY PathAssumption, FS_Subset
<1> HIDE DEF slot, slot2, grant, grant2
<1>8. /\ SlottedFlows' = IF slot2(f) THEN Others \cup {f} ELSE Others
      /\ GrantedFlows' = IF grant2(f) THEN Granteds \cup {f} ELSE Granteds
      /\ GrantedFlows' \subseteq SlottedFlows'
      BY <1>1, <1>2, <1>5
<1>9. IsFiniteSet(SlottedFlows') /\ MaxFlows \in Nat
      BY <1>5, PathAssumption, FS_Subset
<1> HIDE DEF Others, Granteds
<1>10. PICK n \in Nat : Cardinality(Others) = n
       BY <1>7, FS_CardinalityType
<1>11. PICK m \in Nat : Cardinality(Granteds) = m
       BY <1>7, FS_CardinalityType
<1>12. /\ Cardinality(SlottedFlows) = n + One(slot(f))
       /\ Cardinality(SlottedFlows') = n + One(slot2(f))
       /\ Cardinality(GrantedFlows) = m + One(grant(f))
       /\ Cardinality(GrantedFlows') = m + One(grant2(f))
       BY <1>3, <1>4, <1>7, <1>8, <1>10, <1>11, OneElement
<1>13. slots'.count = Cardinality(SlottedFlows')
  <2>1. slots.count = n + One(slot(f)) /\ slots'.count \in Int
        BY <1>12 DEF SlotsInv
  <2>2. PICK a \in Int : slots'.count = a
        BY <2>1
  <2>3. One(slot(f)) \in {0, 1} /\ One(slot2(f)) \in {0, 1}
        BY DEF One
  <2>4. a = n + One(slot2(f))
        BY <1>6, <2>1, <2>2, <2>3
  <2>5. QED  BY <1>12, <2>2, <2>4
<1>14. Cardinality(GrantedFlows') <= MaxFlows
  <2>1. CASE grant2(f) /\ ~grant(f)
    <3>1. slots'.count <= MaxFlows
          BY <1>6, <2>1
    <3>2. Cardinality(GrantedFlows') <= Cardinality(SlottedFlows')
          BY <1>8, <1>9, FS_Subset
    <3>3. Cardinality(SlottedFlows') = n + One(slot2(f)) /\ One(slot2(f)) \in {0, 1}
          BY <1>12 DEF One
    <3>4. Cardinality(GrantedFlows') = m + 1
          BY <1>12, <2>1 DEF One
    <3>5. QED  BY <1>9, <1>13, <3>1, <3>2, <3>3, <3>4
  <2>2. CASE ~(grant2(f) /\ ~grant(f))
    <3>1. m + One(grant(f)) <= MaxFlows
          BY <1>12 DEF SlotsInv
    <3>2. One(grant2(f)) <= One(grant(f)) /\ One(grant2(f)) \in {0, 1} /\ One(grant(f)) \in {0, 1}
          BY <1>3, <2>2 DEF One
    <3>3. m + One(grant2(f)) <= MaxFlows
          BY <1>9, <3>1, <3>2
    <3>4. QED  BY <1>12, <3>3
  <2>3. QED  BY <2>1, <2>2
<1>15. QED  BY <1>13, <1>14 DEF SlotsInv

LEMMA FlowsOfOneFlow ==
  ASSUME \A g \in Flows : FlowSound(g), NEW f \in Flows, OnlyFlow(f)
  PROVE  \A g \in Flows : FlowSound(g)'
<1>1. FlowSound(f)'
      BY DEF OnlyFlow, FlowSound
<1>2. ASSUME NEW g \in Flows, g # f
      PROVE  FlowSound(g)'
      BY <1>2 DEF OnlyFlow, FlowSound
<1>3. QED  BY <1>1, <1>2

-----------------------------------------------------------------------------
(* A reference is let go: the count follows the uses, and the slot goes    *)
(* with the last of them.                                                  *)

LEMMA DereferenceEffect ==
  ASSUME ReplyInv, UsesTyped, NEW f \in Flows, NEW record \in Records, NEW thread,
         Dereference(f, record, thread)
  PROVE  /\ context'[f].refs = record.refs - 1 /\ context'[f].listed = record.listed
         /\ context'[f].associated => record.associated
         /\ \A g \in Flows \ {f} : context'[g] = context[g]
         /\ slots'.count = slots.count - One(record.refs = 1)
         /\ slots' \in [count : Int, drained : BOOLEAN]
<1>1. context \in [Flows -> OnceRecords]
      BY DEF ReplyInv
<1>2. CASE record.refs = 1
  <2> DEFINE freed == [NoContext EXCEPT !.listed = record.listed]
  <2>1. freed.refs = 0 /\ freed.listed = record.listed /\ ~freed.associated
        BY DEF NoContext
  <2>2. context' = [context EXCEPT ![f] = freed]
        BY <1>2 DEF Dereference
  <2>3. slots' = [slots EXCEPT !.count = slots.count - 1]
        BY <1>2 DEF Dereference, ReleaseSlot
  <2> HIDE DEF freed
  <2>4. slots'.count = slots.count - 1 /\ slots' \in [count : Int, drained : BOOLEAN]
        BY <2>3 DEF UsesTyped
  <2>5. context'[f] = freed /\ \A g \in Flows \ {f} : context'[g] = context[g]
        BY <1>1, <2>2
  <2>6. One(record.refs = 1) = 1 /\ record.refs - 1 = 0
        BY <1>2 DEF One
  <2>7. QED  BY <2>1, <2>4, <2>5, <2>6
<1>3. CASE record.refs # 1
  <2> DEFINE kept == [record EXCEPT !.refs = record.refs - 1]
  <2>1. kept.refs = record.refs - 1 /\ kept.listed = record.listed
        /\ kept.associated = record.associated
        BY DEF Records
  <2>2. context' = [context EXCEPT ![f] = kept] /\ slots' = slots
        BY <1>3 DEF Dereference
  <2> HIDE DEF kept
  <2>3. context'[f] = kept /\ \A g \in Flows \ {f} : context'[g] = context[g]
        BY <1>1, <2>2
  <2>4. One(record.refs = 1) = 0 /\ slots.count - 0 = slots.count
        BY <1>3 DEF One, UsesTyped
  <2>5. QED  BY <2>1, <2>2, <2>3, <2>4 DEF UsesTyped
<1>4. QED  BY <1>2, <1>3

(* The uses of a context are at least those that are known.                *)
LEMMA UsesNumber ==
  ASSUME NEW pc, NEW atWfp, NEW x, NEW y, NEW injections \in Nat
  PROVE  /\ Uses(pc, atWfp, x = y, injections) \in Nat
         /\ Uses(pc, atWfp, x = y, injections) = 0 =>
              pc \notin CreatingAt /\ atWfp = "none" /\ x # y /\ injections = 0
<1>1. \A condition \in BOOLEAN : One(condition) \in {0, 1} /\ (One(condition) = 0 => ~condition)
      BY DEF One
<1>2. (pc \in CreatingAt) \in BOOLEAN /\ (pc = "associating" \/ atWfp # "none") \in BOOLEAN
      OBVIOUS
<1> DEFINE a == One(pc \in CreatingAt)
           b == One(pc = "associating" \/ atWfp # "none")
           c == One(x = y)
<1>3. /\ a \in {0, 1} /\ (a = 0 => pc \notin CreatingAt)
      /\ b \in {0, 1} /\ (b = 0 => atWfp = "none")
      /\ c \in {0, 1} /\ (c = 0 => x # y)
      BY <1>1, <1>2
<1>4. Uses(pc, atWfp, x = y, injections) = a + b + c + injections
      BY DEF Uses
<1> HIDE DEF a, b, c
<1>5. /\ a + b + c + injections \in Nat
      /\ a + b + c + injections = 0 => a = 0 /\ b = 0 /\ c = 0 /\ injections = 0
      BY <1>3
<1>6. QED  BY <1>3, <1>4, <1>5

LEMMA LetGo ==
  ASSUME ReplyInv, UsesTyped, NEW f \in Flows, NEW record \in Records, NEW thread,
         FlowSound(f), Dereference(f, record, thread),
         record.refs = context[f].refs, record.associated => context[f].associated,
         \A g \in Flows \ {f} : /\ classify'[g] = classify[g] /\ wfp'[g] = wfp[g]
                                /\ sending'[g] = sending[g]
                                /\ holding' = g <=> holding = g,
         sending'[f] \in Nat,
         Uses(classify'[f].pc, wfp'[f], holding' = f, sending'[f]) + 1
           = Uses(classify[f].pc, wfp[f], holding = f, sending[f]),
         classify'[f].pc \notin Early,
         classify'[f].pc = "associating" => classify[f].pc = "associating" /\ wfp'[f] = wfp[f],
         record.listed => classify'[f].pc = "associating" \/ wfp'[f] # "none"
  PROVE  OnlyFlow(f) /\ slots' \in [count : Int, drained : BOOLEAN]
<1>1. /\ context'[f].refs = record.refs - 1 /\ context'[f].listed = record.listed
      /\ context'[f].associated => record.associated
      /\ \A g \in Flows \ {f} : context'[g] = context[g]
      /\ slots'.count = slots.count - One(record.refs = 1)
      /\ slots' \in [count : Int, drained : BOOLEAN]
      BY DereferenceEffect
<1>2. PICK n \in Nat : Uses(classify'[f].pc, wfp'[f], holding' = f, sending'[f]) = n
      BY UsesNumber
<1>3. /\ record.refs = n + 1 /\ context[f].refs = n + 1
      /\ classify[f].pc \notin Early
  <2>1. context[f].refs = n + 1
        BY <1>2 DEF FlowSound, Sound
  <2>2. QED  BY <2>1 DEF FlowSound, Sound
<1>4. context'[f].refs = n
      BY <1>1, <1>3
<1>5. Sound(context'[f], classify'[f].pc, wfp'[f], holding' = f, sending'[f])
      BY <1>1, <1>2, <1>4 DEF Sound, FlowSound
<1>6. /\ Slotted(context[f], classify[f].pc)
      /\ Slotted(context'[f], classify'[f].pc) <=> n > 0
      /\ Granted(context[f], classify[f].pc)
  <2>1. classify'[f].pc \notin SlotAt
        BY DEF Early, SlotAt
  <2>2. QED  BY <1>3, <1>4, <2>1 DEF Slotted, Granted
<1>7. One(record.refs = 1) = One(n = 0) /\ One(n > 0) + One(n = 0) = 1
      BY <1>3 DEF One
<1>8. slots'.count + One(Slotted(context[f], classify[f].pc))
        = slots.count + One(Slotted(context'[f], classify'[f].pc))
  <2>1. One(Slotted(context[f], classify[f].pc)) = 1
        /\ One(Slotted(context'[f], classify'[f].pc)) = One(n > 0)
        BY <1>6 DEF One
  <2>2. PICK c \in Int : slots.count = c
        BY DEF UsesTyped
  <2>3. slots'.count = c - One(n = 0)
        BY <1>1, <1>7, <2>2
  <2>4. One(n = 0) \in {0, 1} /\ One(n > 0) \in {0, 1}
        BY DEF One
  <2>5. QED  BY <1>7, <2>1, <2>2, <2>3, <2>4
<1>9. QED  BY <1>1, <1>5, <1>6, <1>8 DEF OnlyFlow

-----------------------------------------------------------------------------
(* The steps of a flow.                                                    *)

FlowInv == UsesTyped /\ \A f \in Flows : FlowSound(f)

(* Only the call of a flow moves, and it moves between points at which it  *)
(* has no context.                                                         *)
LEMMA OnlyTheCall ==
  ASSUME ReplyInv, FlowInv, NEW f \in Flows, NEW pc, NEW key,
         classify' = [classify EXCEPT ![f] = [pc |-> pc, key |-> key]]
           \/ Goto(f, pc)
  PROVE  /\ classify'[f].pc = pc
         /\ \A g \in Flows \ {f} : classify'[g] = classify[g]
BY DEF ReplyInv, Goto

LEMMA CallMoves ==
  ASSUME ReplyInv, FlowInv, NEW f \in Flows,
         \/ ClassifyAdmit(f) \/ ClassifyAcquire(f) \/ ClassifyCheck(f)
         \/ ClassifyCount(f) \/ ClassifyClearEvent(f) \/ ClassifyGiveSlotBack(f)
         \/ ClassifyRelease(f)
  PROVE  OnlyFlow(f) /\ UsesTyped'
<1> DEFINE pc  == classify[f].pc
           pc2 == classify'[f].pc
<1>1. UNCHANGED <<context, wfp, sending, holding>>
      BY DEF ClassifyAdmit, ClassifyAcquire, ClassifyCheck, ClassifyCount,
             ClassifyClearEvent, ClassifyGiveSlotBack, ClassifyRelease,
             contextVars, callbackVars
<1>2. \A g \in Flows \ {f} : classify'[g] = classify[g]
  <2>1. \/ \E p : Goto(f, p)
        \/ \E p, k : classify' = [classify EXCEPT ![f] = [pc |-> p, key |-> k]]
        BY DEF ClassifyAdmit, ClassifyAcquire, ClassifyCheck, ClassifyCount,
             ClassifyClearEvent, ClassifyGiveSlotBack, ClassifyRelease
  <2>2. QED  BY <2>1, OnlyTheCall
<1>3. Sound(context[f], pc, wfp[f], holding = f, sending[f])
      BY DEF FlowInv, FlowSound
<1>4. PICK c \in Int : slots.count = c
      BY DEF FlowInv, UsesTyped
<1>5. MaxFlows \in Nat \ {0}
      BY PathAssumption
<1> DEFINE Moved ==
             /\ slots' \in [count : Int, drained : BOOLEAN]
             /\ pc \in Early \/ pc2 \in Early \/ pc = "releasing"
             /\ pc2 \notin CreatingAt /\ pc \notin CreatingAt
             /\ pc2 \in Early => context[f].refs = 0 /\ wfp[f] = "none"
             /\ \/ slots'.count = c /\ (pc \in SlotAt <=> pc2 \in SlotAt)
                \/ slots'.count = c + 1 /\ pc \notin SlotAt /\ pc2 \in SlotAt
                                        /\ context[f].refs = 0
                \/ slots'.count = c - 1 /\ pc \in SlotAt /\ pc2 \notin SlotAt
                                        /\ context[f].refs = 0
             /\ pc2 \in SlotAt \ {"full"} =>
                  pc \in SlotAt \ {"full"} \/ slots'.count <= MaxFlows
<1>6. Moved
  <2>0. slots \in [count : Int, drained : BOOLEAN]
        BY DEF FlowInv, UsesTyped
  <2>1. CASE ClassifyAdmit(f)
    <3>1. pc = "idle" /\ pc2 = "admitted" /\ slots' = slots
          /\ context[f].refs = 0 /\ wfp[f] = "none"
          BY <2>1, OnlyTheCall DEF ClassifyAdmit, AtClassify, contextVars
    <3>2. QED  BY <1>4, <2>0, <3>1 DEF Early, SlotAt, CreatingAt
  <2>2. CASE ClassifyAcquire(f)
    <3>1. pc = "admitted" /\ pc2 \in {"reading", "idle"} /\ slots' = slots
          BY <2>2, OnlyTheCall DEF ClassifyAcquire, AtClassify, contextVars
    <3>2. QED  BY <1>3, <1>4, <2>0, <3>1 DEF Sound, Early, SlotAt, CreatingAt
  <2>3. CASE ClassifyCheck(f)
    <3>1. pc = "reading" /\ pc2 \in {"reserving", "releasing"} /\ slots' = slots
          BY <2>3, OnlyTheCall DEF ClassifyCheck, AtClassify, contextVars
    <3>2. QED  BY <1>3, <1>4, <2>0, <3>1 DEF Sound, Early, SlotAt, CreatingAt
  <2>4. CASE ClassifyCount(f)
    <3>1. pc = "reserving" /\ pc2 = SlotOutcome(slots.count + 1)
          /\ slots' = [slots EXCEPT !.count = slots.count + 1]
          BY <2>4, OnlyTheCall DEF ClassifyCount, AtClassify
    <3>2. slots'.count = c + 1 /\ slots' \in [count : Int, drained : BOOLEAN]
          BY <1>4, <2>0, <3>1
    <3>3. \/ pc2 = "counted" /\ c + 1 = 1
          \/ pc2 = "full"
          \/ pc2 = "reserved" /\ c + 1 <= MaxFlows
          BY <1>4, <1>5, <3>1 DEF SlotOutcome
    <3>4. context[f].refs = 0 /\ wfp[f] = "none"
          BY <1>3, <3>1 DEF Sound, Early
    <3>5. pc2 \in SlotAt \ {"full"} => slots'.count <= MaxFlows
          BY <1>5, <3>2, <3>3
    <3> HIDE DEF pc, pc2
    <3>6. pc2 \in {"counted", "full", "reserved"}
          BY <3>3
    <3>7. QED  BY <3>1, <3>2, <3>4, <3>5, <3>6 DEF Early, SlotAt, CreatingAt
  <2>5. CASE ClassifyClearEvent(f)
    <3>1. pc = "counted" /\ pc2 = "reserved" /\ slots' = [slots EXCEPT !.drained = FALSE]
          BY <2>5, OnlyTheCall DEF ClassifyClearEvent, AtClassify
    <3>2. slots'.count = c /\ slots' \in [count : Int, drained : BOOLEAN]
          BY <1>4, <2>0, <3>1
    <3>3. QED  BY <1>3, <3>1, <3>2 DEF Sound, Early, SlotAt, CreatingAt
  <2>6. CASE ClassifyGiveSlotBack(f)
    <3>1. pc \in {"full", "reserved"} /\ pc2 = "releasing"
          /\ slots' = [slots EXCEPT !.count = slots.count - 1]
          BY <2>6, OnlyTheCall DEF ClassifyGiveSlotBack, AtClassify, ReleaseSlot
    <3>2. slots'.count = c - 1 /\ slots' \in [count : Int, drained : BOOLEAN]
          BY <1>4, <2>0, <3>1
    <3>3. QED  BY <1>3, <3>1, <3>2 DEF Sound, Early, SlotAt, CreatingAt
  <2>7. CASE ClassifyRelease(f)
    <3>1. pc = "releasing" /\ pc2 = "idle" /\ slots' = slots
          BY <2>7, OnlyTheCall DEF ClassifyRelease, AtClassify, contextVars
    <3>2. QED  BY <1>3, <1>4, <2>0, <3>1 DEF Sound, Early, SlotAt, CreatingAt
  <2>8. QED  BY <2>1, <2>2, <2>3, <2>4, <2>5, <2>6, <2>7
<1> HIDE DEF pc, pc2
<1>7. Sound(context[f], pc2, wfp[f], holding = f, sending[f])
  <2>1. pc2 # "associating" /\ pc # "associating"
        BY <1>6 DEF CreatingAt
  <2>2. Uses(pc2, wfp[f], holding = f, sending[f]) = Uses(pc, wfp[f], holding = f, sending[f])
        BY <1>6, <2>1 DEF Uses
  <2>3. QED  BY <1>3, <1>6, <2>1, <2>2 DEF Sound
<1>8. /\ slots'.count + One(Slotted(context[f], pc)) = c + One(Slotted(context[f], pc2))
      /\ Granted(context[f], pc2) => Granted(context[f], pc) \/ slots'.count <= MaxFlows
  <2> DEFINE old == Slotted(context[f], pc)
             new == Slotted(context[f], pc2)
  <2>1. \/ slots'.count = c /\ (old <=> new)
        \/ slots'.count = c + 1 /\ ~old /\ new
        \/ slots'.count = c - 1 /\ old /\ ~new
        BY <1>6 DEF Slotted
  <2>2. old \in BOOLEAN /\ new \in BOOLEAN
        BY DEF Slotted
  <2> HIDE DEF old, new
  <2>3. /\ One(old) \in {0, 1} /\ One(new) \in {0, 1}
        /\ One(old) = 1 <=> old
        /\ One(new) = 1 <=> new
        BY <2>2 DEF One
  <2>4. slots'.count + One(old) = c + One(new)
        BY <2>1, <2>2, <2>3
  <2>5. QED  BY <1>6, <2>4 DEF Granted, old, new
<1>9. UsesTyped'
      BY <1>1, <1>6 DEF FlowInv, UsesTyped
<1>10. OnlyFlow(f)
       BY <1>1, <1>2, <1>4, <1>7, <1>8 DEF OnlyFlow, pc, pc2
<1>11. QED  BY <1>9, <1>10

(* A context stays or begins, in the slot that was counted for it.         *)
LEMMA KeepsItsSlot ==
  ASSUME UsesTyped, NEW f \in Flows,
         UNCHANGED slots,
         \A g \in Flows \ {f} : /\ context'[g] = context[g] /\ classify'[g] = classify[g]
                                /\ wfp'[g] = wfp[g] /\ sending'[g] = sending[g]
                                /\ holding' = g <=> holding = g,
         Sound(context'[f], classify'[f].pc, wfp'[f], holding' = f, sending'[f]),
         Granted(context[f], classify[f].pc), context'[f].refs > 0
  PROVE  OnlyFlow(f)
<1>1. /\ Slotted(context[f], classify[f].pc)
      /\ Slotted(context'[f], classify'[f].pc)
      BY DEF Granted, Slotted
<1>2. slots'.count = slots.count
      OBVIOUS
<1>3. One(Slotted(context[f], classify[f].pc)) = 1
      /\ One(Slotted(context'[f], classify'[f].pc)) = 1
      BY <1>1 DEF One
<1>4. QED  BY <1>2, <1>3 DEF OnlyFlow

(* What is used exists.                                                    *)
LEMMA UsedExists ==
  ASSUME ReplyInv, FlowInv, NEW f \in Flows,
         \/ classify[f].pc \in CreatingAt
         \/ wfp[f] # "none"
         \/ holding = f
         \/ sending[f] > 0
         \/ context[f].listed
  PROVE  context[f].refs \in Nat \ {0} /\ classify[f].pc \notin Early
<1>1. Sound(context[f], classify[f].pc, wfp[f], holding = f, sending[f])
      BY DEF FlowInv, FlowSound
<1>2. sending[f] \in Nat
      BY DEF FlowInv, UsesTyped
<1> DEFINE n == Uses(classify[f].pc, wfp[f], holding = f, sending[f])
<1>3. n \in Nat /\ (n = 0 => /\ classify[f].pc \notin CreatingAt /\ wfp[f] = "none"
                             /\ holding # f /\ sending[f] = 0)
  <2> DEFINE a == One(classify[f].pc \in CreatingAt)
             b == One(classify[f].pc = "associating" \/ wfp[f] # "none")
             c == One(holding = f)
  <2>1. /\ a \in {0, 1} /\ (a = 0 => classify[f].pc \notin CreatingAt)
        /\ b \in {0, 1} /\ (b = 0 => wfp[f] = "none")
        /\ c \in {0, 1} /\ (c = 0 => holding # f)
        BY DEF One
  <2>2. n = a + b + c + sending[f]
        BY DEF Uses
  <2> HIDE DEF a, b, c, n
  <2>3. n \in Nat /\ (n = 0 => a = 0 /\ b = 0 /\ c = 0 /\ sending[f] = 0)
        BY <1>2, <2>1, <2>2
  <2>4. QED  BY <2>1, <2>3
<1>4. context[f].refs = n
      BY <1>1 DEF Sound
<1> HIDE DEF n
<1>5. context[f].listed => n # 0
      BY <1>1, <1>3 DEF Sound, CreatingAt
<1>6. n # 0
      BY <1>2, <1>3, <1>5
<1>7. QED  BY <1>1, <1>3, <1>4, <1>6 DEF Sound

LEMMA LinkMoves ==
  ASSUME ReplyInv, FlowInv, NEW f \in Flows, ClassifyLink(f)
  PROVE  OnlyFlow(f) /\ UsesTyped'
<1>1. /\ UNCHANGED <<slots, wfp, sending, holding>> /\ classify[f].pc = "reserved"
      BY DEF ClassifyLink, callbackVars, AtClassify
<1>2. /\ Sound(context[f], "reserved", wfp[f], holding = f, sending[f])
      /\ sending[f] \in Nat
      BY <1>1 DEF FlowInv, FlowSound, UsesTyped
<1>3. wfp[f] = "none" /\ holding # f /\ sending[f] = 0 /\ context[f].refs = 0
  <2>1. context[f].refs = 0 /\ wfp[f] = "none"
        BY <1>2 DEF Sound, Early
  <2>2. QED  BY <1>2, <2>1, UsesNumber DEF Sound
<1> DEFINE fresh == [NoContext EXCEPT !.refs = 1, !.key = classify[f].key]
<1>4. /\ fresh.refs = 1 /\ ~fresh.listed /\ ~fresh.associated
      /\ Linked(fresh).refs = 2 /\ ~Linked(fresh).associated
      BY DEF NoContext, Linked
<1>5. \/ context' = [context EXCEPT ![f] = fresh] /\ Goto(f, "leaving")
      \/ context' = [context EXCEPT ![f] = Linked(fresh)] /\ Goto(f, "associating")
      BY DEF ClassifyLink
<1> HIDE DEF fresh
<1>6. /\ \A g \in Flows \ {f} : context'[g] = context[g] /\ classify'[g] = classify[g]
      /\ \/ context'[f] = fresh /\ classify'[f].pc = "leaving"
         \/ context'[f] = Linked(fresh) /\ classify'[f].pc = "associating"
      BY <1>5, OnlyTheCall DEF ReplyInv
<1>7. /\ Uses("leaving", "none", FALSE, 0) = 1
      /\ Uses("associating", "none", FALSE, 0) = 2
      BY DEF Uses, One, CreatingAt
<1>8. (holding' = f) = FALSE /\ wfp'[f] = "none" /\ sending'[f] = 0
      BY <1>1, <1>3
<1>9. Sound(context'[f], classify'[f].pc, "none", FALSE, 0)
      BY <1>4, <1>6, <1>7 DEF Sound, Early
<1>10. Sound(context'[f], classify'[f].pc, wfp'[f], holding' = f, sending'[f])
       BY <1>8, <1>9
<1>11. context'[f].refs > 0
       BY <1>4, <1>6
<1>12. Granted(context[f], classify[f].pc)
       BY <1>1 DEF Granted, SlotAt
<1>13. OnlyFlow(f)
       BY <1>1, <1>6, <1>10, <1>11, <1>12, KeepsItsSlot DEF FlowInv
<1>14. QED  BY <1>1, <1>13 DEF FlowInv, UsesTyped

(* Steps that change neither the references nor the list.                  *)
LEMMA RecordMoves ==
  ASSUME ReplyInv, FlowInv, NEW f \in Flows,
         \/ ClassifyAssociate(f) \/ ClassifyMark(f)
         \/ CaptureBind(f) /\ Usable(f)
         \/ DrainFlow(f)
  PROVE  OnlyFlow(f) /\ UsesTyped'
<1> DEFINE Kept == /\ context'[f].refs = context[f].refs
                   /\ context'[f].listed = context[f].listed
<1>1. UNCHANGED <<slots, sending, holding>>
      BY DEF ClassifyAssociate, ClassifyMark, CaptureBind, DrainFlow, contextVars, callbackVars
<1>2. /\ Sound(context[f], classify[f].pc, wfp[f], holding = f, sending[f])
      /\ UsesTyped
      BY DEF FlowInv, FlowSound
<1>3. context \in [Flows -> OnceRecords] /\ context[f] \in Records
      BY DEF ReplyInv, OnceRecords
<1> DEFINE Moved ==
             /\ \A g \in Flows \ {f} : /\ context'[g] = context[g] /\ classify'[g] = classify[g]
                                       /\ wfp'[g] = wfp[g]
             /\ Kept
             /\ wfp' \in [Flows -> {"none", "attached", "removing"}]
             /\ classify'[f].pc \notin Early
             /\ context[f].refs \in Nat \ {0}
             /\ classify'[f].pc \in CreatingAt <=> classify[f].pc \in CreatingAt
             /\ (classify'[f].pc = "associating" \/ wfp'[f] # "none")
                  <=> (classify[f].pc = "associating" \/ wfp[f] # "none")
             /\ classify'[f].pc = "associating" =>
                  /\ classify[f].pc = "associating" /\ wfp'[f] = wfp[f]
                  /\ context'[f].associated => context[f].associated
<1>4. Moved
  <2>0. wfp \in [Flows -> {"none", "attached", "removing"}]
        BY <1>2 DEF UsesTyped
  <2>1. CASE ClassifyAssociate(f)
    <3>1. /\ classify[f].pc = "associating" /\ context' = context
          /\ wfp' = [wfp EXCEPT ![f] = "attached"]
          /\ classify'[f].pc = "marking"
          /\ \A g \in Flows \ {f} : classify'[g] = classify[g]
          BY <2>1, OnlyTheCall DEF ClassifyAssociate, AtClassify, contextVars
    <3>2. context[f].refs \in Nat \ {0}
          BY <3>1, UsedExists DEF CreatingAt
    <3>3. wfp'[f] = "attached" /\ \A g \in Flows \ {f} : wfp'[g] = wfp[g]
          BY <2>0, <3>1
    <3>4. wfp' \in [Flows -> {"none", "attached", "removing"}]
          BY <2>0, <3>1
    <3>5. QED  BY <3>1, <3>2, <3>3, <3>4 DEF Early, CreatingAt
  <2>2. CASE ClassifyMark(f)
    <3>1. /\ classify[f].pc = "marking" /\ classify'[f].pc = "leaving"
          /\ \A g \in Flows \ {f} : classify'[g] = classify[g]
          BY <2>2, OnlyTheCall DEF ClassifyMark, AtClassify
    <3>2. context[f].refs \in Nat \ {0}
          BY <3>1, UsedExists DEF CreatingAt
    <3>3. Kept /\ \A g \in Flows \ {f} : context'[g] = context[g]
      <4>1. CASE UNCHANGED context
            BY <4>1
      <4>2. CASE context' # context
        <5>1. context' = [context EXCEPT ![f].associated = TRUE, ![f].removal = gate.stopping]
              BY <2>2, <4>2 DEF ClassifyMark
        <5>2. context' = [context EXCEPT ![f] = [context[f] EXCEPT !.associated = TRUE,
                                                                   !.removal = gate.stopping]]
              BY <1>3, <5>1
        <5>3. QED  BY <1>3, <5>2 DEF Records
      <4>3. QED  BY <4>1, <4>2
    <3>4. wfp' = wfp \/ (context[f].listed /\ wfp' = [wfp EXCEPT ![f] = "removing"])
          BY <2>2 DEF ClassifyMark
    <3>5. context[f].listed => wfp[f] # "none"
          BY <1>2, <3>1 DEF Sound
    <3>6. /\ \A g \in Flows \ {f} : wfp'[g] = wfp[g]
          /\ wfp'[f] # "none" <=> wfp[f] # "none"
          /\ wfp' \in [Flows -> {"none", "attached", "removing"}]
          BY <2>0, <3>4, <3>5
    <3>7. QED  BY <3>1, <3>2, <3>3, <3>6 DEF Early, CreatingAt
  <2>3. CASE (CaptureBind(f) /\ Usable(f)) \/ DrainFlow(f)
    <3>1. UNCHANGED classify /\ Usable(f)
          BY <2>3 DEF CaptureBind, DrainFlow, threadVars
    <3>2. context[f].refs \in Nat \ {0} /\ classify[f].pc \notin Early
          BY <3>1, UsedExists DEF Usable
    <3>3. classify[f].pc # "associating" /\ wfp[f] # "none"
          BY <1>2, <3>1 DEF Sound, Usable
    <3>4. Kept /\ \A g \in Flows \ {f} : context'[g] = context[g]
      <4>1. \/ context' = [context EXCEPT ![f].bound = TRUE]
            \/ context' = [context EXCEPT ![f].removal = TRUE]
            BY <2>3 DEF CaptureBind, DrainFlow
      <4>2. \/ context' = [context EXCEPT ![f] = [context[f] EXCEPT !.bound = TRUE]]
            \/ context' = [context EXCEPT ![f] = [context[f] EXCEPT !.removal = TRUE]]
            BY <1>3, <4>1
      <4>3. QED  BY <1>3, <4>2 DEF Records
    <3>5. wfp' = wfp \/ wfp' = [wfp EXCEPT ![f] = "removing"]
          BY <2>3 DEF CaptureBind, DrainFlow, callbackVars
    <3>6. /\ \A g \in Flows \ {f} : wfp'[g] = wfp[g]
          /\ wfp'[f] # "none" <=> wfp[f] # "none"
          /\ wfp' \in [Flows -> {"none", "attached", "removing"}]
          BY <2>0, <3>3, <3>5
    <3>7. QED  BY <3>1, <3>2, <3>3, <3>4, <3>6
  <2>4. QED  BY <2>1, <2>2, <2>3
<1>5. Uses(classify'[f].pc, wfp'[f], holding' = f, sending'[f])
        = Uses(classify[f].pc, wfp[f], holding = f, sending[f])
      BY <1>1, <1>4 DEF Uses
<1>6. Sound(context'[f], classify'[f].pc, wfp'[f], holding' = f, sending'[f])
      BY <1>2, <1>4, <1>5 DEF Sound
<1>7. Granted(context[f], classify[f].pc) /\ context'[f].refs > 0
      BY <1>4 DEF Granted
<1>8. OnlyFlow(f)
      BY <1>1, <1>2, <1>4, <1>6, <1>7, KeepsItsSlot
<1>9. QED  BY <1>1, <1>2, <1>4, <1>8 DEF UsesTyped

(* The context of a flow, as its classify call or WFP lets go of it.       *)
LEMMA UnlinkedRecord ==
  ASSUME ReplyInv, NEW f \in Flows
  PROVE  /\ context[f] \in Records
         /\ Unlinked(context[f]) \in Records /\ ~Unlinked(context[f]).listed
         /\ Unlinked(context[f]).refs = context[f].refs
         /\ Unlinked(context[f]).associated = context[f].associated
BY DEF ReplyInv, OnceRecords, Records, Unlinked

(* Steps of a classify call or of WFP that let go of a reference.          *)
LEMMA FlowLetsGo ==
  ASSUME ReplyInv, FlowInv, NEW f \in Flows,
         \/ ClassifyAssociateFails(f) \/ ClassifyLeave(f)
         \/ FlowDelete(f) \/ CompleteInjection(f)
  PROVE  OnlyFlow(f) /\ UsesTyped'
<1>1. holding' = holding
      BY DEF ClassifyAssociateFails, ClassifyLeave, FlowDelete, CompleteInjection
<1>2. /\ Sound(context[f], classify[f].pc, wfp[f], holding = f, sending[f])
      /\ UsesTyped /\ sending[f] \in Nat /\ FlowSound(f)
      BY DEF FlowInv, FlowSound, UsesTyped
<1> DEFINE record == IF ClassifyLeave(f) \/ CompleteInjection(f)
                     THEN context[f] ELSE Unlinked(context[f])
           Typed == /\ wfp' \in [Flows -> {"none", "attached", "removing"}]
                    /\ sending' \in [Flows -> Nat]
           Others == \A g \in Flows \ {f} : /\ classify'[g] = classify[g] /\ wfp'[g] = wfp[g]
                                            /\ sending'[g] = sending[g]
           Fewer == \/ /\ classify[f].pc \in CreatingAt /\ classify'[f].pc \notin CreatingAt
                       /\ classify[f].pc # "associating"
                       /\ UNCHANGED <<wfp[f], sending[f]>>
                    \/ /\ classify[f].pc \in CreatingAt <=> classify'[f].pc \in CreatingAt
                       /\ classify[f].pc = "associating" \/ wfp[f] # "none"
                       /\ classify'[f].pc # "associating" /\ wfp'[f] = "none"
                       /\ sending'[f] = sending[f]
                    \/ /\ UNCHANGED <<classify[f].pc, wfp[f]>>
                       /\ sending'[f] = sending[f] - 1 /\ sending[f] > 0
           Points == /\ classify'[f].pc \notin Early
                     /\ classify'[f].pc = "associating" =>
                          classify[f].pc = "associating" /\ wfp'[f] = wfp[f]
                     /\ record.listed => classify'[f].pc = "associating" \/ wfp'[f] # "none"
<1>3. /\ record \in Records /\ record.refs = context[f].refs
      /\ record.associated = context[f].associated
      BY UnlinkedRecord
<1>4. \E thread : Dereference(f, record, thread)
  <2>1. CASE ClassifyLeave(f) \/ CompleteInjection(f)
        BY <2>1 DEF ClassifyLeave, CompleteInjection
  <2>2. CASE ~(ClassifyLeave(f) \/ CompleteInjection(f))
        BY <2>2 DEF ClassifyAssociateFails, FlowDelete
  <2>3. QED  BY <2>1, <2>2
<1>5. Typed /\ Others /\ Fewer /\ Points
  <2>0. /\ wfp \in [Flows -> {"none", "attached", "removing"}] /\ sending \in [Flows -> Nat]
        /\ ~Unlinked(context[f]).listed
        BY <1>2, UnlinkedRecord DEF UsesTyped
  <2>1. CASE ClassifyLeave(f)
    <3>1. /\ classify[f].pc = "leaving" /\ classify'[f].pc = "releasing"
          /\ \A g \in Flows \ {f} : classify'[g] = classify[g]
          /\ UNCHANGED <<wfp, sending>>
          BY <2>1, OnlyTheCall DEF ClassifyLeave, AtClassify, callbackVars
    <3>2. record.listed => wfp'[f] # "none"
          BY <1>2, <2>1, <3>1 DEF Sound
    <3>3. QED  BY <2>0, <3>1, <3>2 DEF CreatingAt, Early
  <2>2. CASE CompleteInjection(f)
    <3>1. /\ sending[f] > 0 /\ UNCHANGED <<wfp, classify>>
          /\ sending' = [sending EXCEPT ![f] = sending[f] - 1]
          BY <2>2 DEF CompleteInjection, threadVars
    <3>2. /\ sending' \in [Flows -> Nat] /\ sending'[f] = sending[f] - 1
          /\ \A g \in Flows \ {f} : sending'[g] = sending[g]
          BY <2>0, <3>1
    <3>3. classify[f].pc \notin Early
          BY <3>1, UsedExists
    <3>4. record.listed => classify[f].pc = "associating" \/ wfp[f] # "none"
          BY <1>2, <2>2 DEF Sound
    <3>5. QED  BY <2>0, <3>1, <3>2, <3>3, <3>4
  <2>3. CASE FlowDelete(f) /\ ~(ClassifyLeave(f) \/ CompleteInjection(f))
    <3>1. /\ wfp[f] # "none" /\ UNCHANGED <<sending, classify>>
          /\ wfp' = [wfp EXCEPT ![f] = "none"]
          BY <2>3 DEF FlowDelete, threadVars
    <3>2. /\ wfp' \in [Flows -> {"none", "attached", "removing"}] /\ wfp'[f] = "none"
          /\ \A g \in Flows \ {f} : wfp'[g] = wfp[g]
          BY <2>0, <3>1
    <3>3. classify[f].pc \notin Early
          BY <3>1, UsedExists
    <3>4. classify[f].pc # "associating"
          BY <1>2, <3>1 DEF Sound
    <3>5. QED  BY <2>0, <2>3, <3>1, <3>2, <3>3, <3>4
  <2>4. CASE ClassifyAssociateFails(f) /\ ~(ClassifyLeave(f) \/ CompleteInjection(f))
    <3>1. /\ classify[f].pc = "associating" /\ classify'[f].pc = "leaving"
          /\ \A g \in Flows \ {f} : classify'[g] = classify[g]
          /\ UNCHANGED <<wfp, sending>>
          BY <2>4, OnlyTheCall DEF ClassifyAssociateFails, AtClassify, callbackVars
    <3>2. wfp[f] = "none"
          BY <1>2, <3>1 DEF Sound
    <3>3. QED  BY <2>0, <2>4, <3>1, <3>2 DEF CreatingAt, Early
  <2>5. QED  BY <2>1, <2>2, <2>3, <2>4
<1> HIDE DEF record
<1>6. Uses(classify'[f].pc, wfp'[f], holding' = f, sending'[f]) + 1
        = Uses(classify[f].pc, wfp[f], holding = f, sending[f])
  <2> DEFINE a  == One(classify[f].pc \in CreatingAt)
             b  == One(classify[f].pc = "associating" \/ wfp[f] # "none")
             c  == One(holding = f)
             a2 == One(classify'[f].pc \in CreatingAt)
             b2 == One(classify'[f].pc = "associating" \/ wfp'[f] # "none")
             c2 == One(holding' = f)
  <2>1. /\ Uses(classify[f].pc, wfp[f], holding = f, sending[f]) = a + b + c + sending[f]
        /\ Uses(classify'[f].pc, wfp'[f], holding' = f, sending'[f]) = a2 + b2 + c2 + sending'[f]
        BY DEF Uses
  <2>2. c2 = c /\ a \in {0, 1} /\ b \in {0, 1} /\ c \in {0, 1}
        BY <1>1 DEF One
  <2>3. \/ a = 1 /\ a2 = 0 /\ b2 = b /\ sending'[f] = sending[f]
        \/ a2 = a /\ b = 1 /\ b2 = 0 /\ sending'[f] = sending[f]
        \/ a2 = a /\ b2 = b /\ sending'[f] = sending[f] - 1
    <3>1. CASE /\ classify[f].pc \in CreatingAt /\ classify'[f].pc \notin CreatingAt
               /\ classify[f].pc # "associating"
               /\ UNCHANGED <<wfp[f], sending[f]>>
      <4>1. classify'[f].pc # "associating"
            BY <3>1 DEF CreatingAt
      <4>2. QED  BY <3>1, <4>1 DEF One
    <3>2. CASE /\ classify[f].pc \in CreatingAt <=> classify'[f].pc \in CreatingAt
               /\ classify[f].pc = "associating" \/ wfp[f] # "none"
               /\ classify'[f].pc # "associating" /\ wfp'[f] = "none"
               /\ sending'[f] = sending[f]
          BY <3>2 DEF One
    <3>3. CASE /\ UNCHANGED <<classify[f].pc, wfp[f]>>
               /\ sending'[f] = sending[f] - 1 /\ sending[f] > 0
          BY <3>3
    <3>4. QED  BY <1>5, <3>1, <3>2, <3>3
  <2> HIDE DEF a, b, c, a2, b2, c2
  <2>4. PICK k \in Nat : sending[f] = k
        BY <1>2
  <2>5. QED  BY <2>1, <2>2, <2>3, <2>4
<1>7. sending'[f] \in Nat
      BY <1>5
<1>8. OnlyFlow(f) /\ slots' \in [count : Int, drained : BOOLEAN]
      BY <1>1, <1>2, <1>3, <1>4, <1>5, <1>6, <1>7, LetGo
<1>9. QED  BY <1>5, <1>8 DEF UsesTyped

-----------------------------------------------------------------------------
(* The steps of a reply.                                                   *)

LEMMA ControlLetsGo ==
  ASSUME ReplyInv, FlowInv, NEW f \in Flows, holding = f, holding' = None,
         NEW record \in Records, record.refs = context[f].refs,
         record.listed = context[f].listed, record.associated = context[f].associated,
         Dereference(f, record, ControlThread), UNCHANGED <<wfp, sending, classify>>
  PROVE  OnlyFlow(f) /\ UsesTyped'
<1>1. /\ Sound(context[f], classify[f].pc, wfp[f], holding = f, sending[f])
      /\ UsesTyped /\ sending[f] \in Nat /\ FlowSound(f)
      BY DEF FlowInv, FlowSound, UsesTyped
<1>2. None \notin Flows
      BY PathAssumption
<1>3. \A g \in Flows \ {f} : holding' = g <=> holding = g
      BY <1>2
<1>4. classify[f].pc \notin Early
      BY UsedExists
<1>5. record.listed => classify'[f].pc = "associating" \/ wfp'[f] # "none"
      BY <1>1 DEF Sound
<1>6. Uses(classify'[f].pc, wfp'[f], holding' = f, sending'[f]) + 1
        = Uses(classify[f].pc, wfp[f], holding = f, sending[f])
  <2> DEFINE a == One(classify[f].pc \in CreatingAt)
             b == One(classify[f].pc = "associating" \/ wfp[f] # "none")
  <2>1. /\ Uses(classify[f].pc, wfp[f], holding = f, sending[f])
             = a + b + One(holding = f) + sending[f]
        /\ Uses(classify'[f].pc, wfp'[f], holding' = f, sending'[f])
             = a + b + One(holding' = f) + sending[f]
        BY DEF Uses
  <2>2. a \in {0, 1} /\ b \in {0, 1} /\ One(holding = f) = 1 /\ One(holding' = f) = 0
        BY <1>2 DEF One
  <2> HIDE DEF a, b
  <2>3. QED  BY <1>1, <2>1, <2>2
<1>7. OnlyFlow(f) /\ slots' \in [count : Int, drained : BOOLEAN]
      BY <1>1, <1>3, <1>4, <1>5, <1>6, LetGo
<1>8. QED  BY <1>1, <1>7 DEF UsesTyped

(* A reply takes a reference to the context it goes to.                    *)
LEMMA ReferenceMoves ==
  ASSUME ReplyInv, FlowInv, NEW f \in Flows, holding = None, holding' = f,
         UNCHANGED <<slots, wfp, sending, classify>>,
         Usable(f), context' = [context EXCEPT ![f].refs = context[f].refs + 1]
  PROVE  OnlyFlow(f) /\ UsesTyped'
<1>1. /\ Sound(context[f], classify[f].pc, wfp[f], holding = f, sending[f])
      /\ UsesTyped /\ sending[f] \in Nat
      BY DEF FlowInv, FlowSound, UsesTyped
<1>2. None \notin Flows
      BY PathAssumption
<1>3. \A g \in Flows \ {f} : holding' = g <=> holding = g
      BY <1>2
<1>4. classify[f].pc \notin Early /\ context[f].refs \in Nat \ {0}
      BY UsedExists DEF Usable
<1>5. /\ \A g \in Flows \ {f} : context'[g] = context[g]
      /\ context'[f].refs = context[f].refs + 1
      /\ context'[f].listed = context[f].listed
      /\ context'[f].associated = context[f].associated
  <2> DEFINE record == [context[f] EXCEPT !.refs = context[f].refs + 1]
  <2>1. context \in [Flows -> OnceRecords] /\ context[f] \in Records
        BY DEF ReplyInv, OnceRecords
  <2>2. context' = [context EXCEPT ![f] = record]
        BY <2>1
  <2>3. /\ record.refs = context[f].refs + 1 /\ record.listed = context[f].listed
        /\ record.associated = context[f].associated
        BY <2>1 DEF Records
  <2> HIDE DEF record
  <2>4. context'[f] = record /\ \A g \in Flows \ {f} : context'[g] = context[g]
        BY <2>1, <2>2
  <2>5. QED  BY <2>3, <2>4
<1>6. Uses(classify'[f].pc, wfp'[f], holding' = f, sending'[f])
        = Uses(classify[f].pc, wfp[f], holding = f, sending[f]) + 1
  <2> DEFINE a == One(classify[f].pc \in CreatingAt)
             b == One(classify[f].pc = "associating" \/ wfp[f] # "none")
  <2>1. /\ Uses(classify[f].pc, wfp[f], holding = f, sending[f])
             = a + b + One(holding = f) + sending[f]
        /\ Uses(classify'[f].pc, wfp'[f], holding' = f, sending'[f])
             = a + b + One(holding' = f) + sending[f]
        BY DEF Uses
  <2>2. a \in {0, 1} /\ b \in {0, 1} /\ One(holding = f) = 0 /\ One(holding' = f) = 1
        BY <1>2 DEF One
  <2> HIDE DEF a, b
  <2>3. QED  BY <1>1, <2>1, <2>2
<1>7. Sound(context'[f], classify'[f].pc, wfp'[f], holding' = f, sending'[f])
  <2>1. context'[f].refs = Uses(classify'[f].pc, wfp'[f], holding' = f, sending'[f])
        BY <1>1, <1>5, <1>6 DEF Sound
  <2>2. QED  BY <1>1, <1>4, <1>5, <2>1 DEF Sound
<1>8. Granted(context[f], classify[f].pc) /\ context'[f].refs > 0
      BY <1>4, <1>5 DEF Granted
<1>9. OnlyFlow(f)
      BY <1>1, <1>3, <1>5, <1>7, <1>8, KeepsItsSlot
<1>10. QED  BY <1>1, <1>9 DEF UsesTyped

LEMMA CommittedRecord ==
  ASSUME NEW record \in OnceRecords, NEW number
  PROVE  /\ Committed(record, number).refs = record.refs
         /\ Committed(record, number).listed = record.listed
         /\ Committed(record, number).associated = record.associated
BY DEF Committed, OnceRecords, Records

(* The reference goes with the packet to WFP.                              *)
LEMMA SendMoves ==
  ASSUME ReplyInv, FlowInv, NEW f \in Flows, holding = f, holding' = None,
         NEW number, context' = [context EXCEPT ![f] = Committed(context[f], number)],
         sending' = [sending EXCEPT ![f] = sending[f] + 1],
         UNCHANGED <<slots, wfp, classify>>
  PROVE  OnlyFlow(f) /\ UsesTyped'
<1>1. /\ Sound(context[f], classify[f].pc, wfp[f], holding = f, sending[f])
      /\ UsesTyped /\ sending[f] \in Nat /\ sending \in [Flows -> Nat]
      BY DEF FlowInv, FlowSound, UsesTyped
<1>2. None \notin Flows
      BY PathAssumption
<1>3. /\ \A g \in Flows \ {f} : holding' = g <=> holding = g
      /\ \A g \in Flows \ {f} : sending'[g] = sending[g]
      /\ sending'[f] = sending[f] + 1 /\ sending' \in [Flows -> Nat]
      BY <1>1, <1>2
<1>4. classify[f].pc \notin Early /\ context[f].refs \in Nat \ {0}
      BY UsedExists
<1>5. /\ \A g \in Flows \ {f} : context'[g] = context[g]
      /\ context'[f].refs = context[f].refs
      /\ context'[f].listed = context[f].listed
      /\ context'[f].associated = context[f].associated
  <2>1. context \in [Flows -> OnceRecords] /\ context[f] \in OnceRecords
        BY DEF ReplyInv
  <2>2. /\ context'[f] = Committed(context[f], number)
        /\ \A g \in Flows \ {f} : context'[g] = context[g]
        BY <2>1
  <2>3. QED  BY <2>1, <2>2, CommittedRecord
<1>6. Uses(classify'[f].pc, wfp'[f], holding' = f, sending'[f])
        = Uses(classify[f].pc, wfp[f], holding = f, sending[f])
  <2> DEFINE a == One(classify[f].pc \in CreatingAt)
             b == One(classify[f].pc = "associating" \/ wfp[f] # "none")
  <2>1. /\ Uses(classify[f].pc, wfp[f], holding = f, sending[f])
             = a + b + One(holding = f) + sending[f]
        /\ Uses(classify'[f].pc, wfp'[f], holding' = f, sending'[f])
             = a + b + One(holding' = f) + sending'[f]
        BY DEF Uses
  <2>2. a \in {0, 1} /\ b \in {0, 1} /\ One(holding = f) = 1 /\ One(holding' = f) = 0
        BY <1>2 DEF One
  <2> HIDE DEF a, b
  <2>3. QED  BY <1>1, <1>3, <2>1, <2>2
<1>7. Sound(context'[f], classify'[f].pc, wfp'[f], holding' = f, sending'[f])
      BY <1>1, <1>4, <1>5, <1>6 DEF Sound
<1>8. Granted(context[f], classify[f].pc) /\ context'[f].refs > 0
      BY <1>4, <1>5 DEF Granted
<1>9. OnlyFlow(f)
      BY <1>1, <1>3, <1>5, <1>7, <1>8, KeepsItsSlot
<1>10. QED  BY <1>1, <1>3, <1>9 DEF UsesTyped

-----------------------------------------------------------------------------
(* The control thread goes on to its next step.                            *)

LEMMA ChainAdvances ==
  ASSUME ReplyInv, ChainInv, todo # << >>, Advanced,
         holding' = IF Head(todo).step \in Opening THEN Head(todo).flow ELSE None
  PROVE  ChainInv'
<1> DEFINE rest == Tail(todo)
<1>1. /\ Chained(rest)
      /\ rest = << >> => Head(todo).step \notin Opening
      /\ rest # << >> => Follows(Head(todo), Head(rest))
      BY TailChains DEF ReplyInv, ChainInv
<1>2. todo' = rest
      BY DEF Advanced
<1> HIDE DEF rest
<1>3. Head(todo).step \in Opening <=> ~Begins(rest)
      BY <1>1 DEF Begins, Follows, HeldAt, Opening
<1>4. ~Begins(rest) => Head(rest).flow = Head(todo).flow
      BY <1>1 DEF Begins, Follows, HeldAt
<1>5. IF Begins(rest) THEN holding' = None ELSE holding' = Head(rest).flow
      BY <1>3, <1>4
<1>6. QED  BY <1>1, <1>2, <1>5 DEF ChainInv, HoldsTheReply

LEMMA ChainStarts ==
  ASSUME Chained(todo'), Begins(todo'), holding' = None
  PROVE  ChainInv'
BY DEF ChainInv, HoldsTheReply

LEMMA ChainEnds ==
  ASSUME todo' = << >>, holding' = None
  PROVE  ChainInv'
<1>1. Len(<< >>) = 0 /\ 1 .. 0 = {}
      OBVIOUS
<1>2. Chained(<< >>)
      BY <1>1 DEF Chained
<1>3. Begins(<< >>)
      BY DEF Begins
<1>4. QED  BY <1>2, <1>3, ChainStarts

(* Between two replies, and between two requests, no reference is held.    *)
LEMMA ChainHolds ==
  ASSUME ChainInv
  PROVE  /\ todo = << >> => holding = None
         /\ todo # << >> => IF Head(todo).step \in HeldAt THEN holding = Head(todo).flow
                                                          ELSE holding = None
BY DEF ChainInv, HoldsTheReply, Begins

-----------------------------------------------------------------------------
(* Every step preserves the invariant.                                     *)

LEMMA OneFlowStep ==
  ASSUME UsesInv, NEW f \in Flows, OnlyFlow(f), UsesTyped', ChainInv'
  PROVE  UsesInv'
<1>1. \A g \in Flows : FlowSound(g)'
      BY FlowsOfOneFlow DEF UsesInv
<1>2. slots' \in [count : Int, drained : BOOLEAN]
      BY DEF UsesTyped
<1>3. SlotsInv'
      BY <1>2, SlotsOfOneFlow DEF UsesInv
<1>4. QED  BY <1>1, <1>3 DEF UsesInv

LEMMA NoFlowStep ==
  ASSUME UsesInv, UNCHANGED <<context, classify, wfp, sending, holding>>,
         UNCHANGED slots \/ slots' = [slots EXCEPT !.drained = TRUE], ChainInv'
  PROVE  UsesInv'
<1>1. slots'.count = slots.count /\ slots' \in [count : Int, drained : BOOLEAN]
      BY DEF UsesInv, UsesTyped
<1>2. UsesTyped'
      BY <1>1 DEF UsesInv, UsesTyped
<1>3. \A g \in Flows : FlowSound(g)'
      BY DEF UsesInv, FlowSound
<1>4. SlottedFlows' = SlottedFlows /\ GrantedFlows' = GrantedFlows
      BY DEF SlottedFlows, GrantedFlows
<1>5. SlotsInv'
      BY <1>1, <1>4 DEF UsesInv, SlotsInv
<1>6. QED  BY <1>2, <1>3, <1>5 DEF UsesInv

LEMMA ChainStays ==
  ASSUME ChainInv, UNCHANGED <<todo, holding>>
  PROVE  ChainInv'
BY DEF ChainInv, HoldsTheReply

LEMMA RequestUses ==
  ASSUME ReplyInv, UsesInv, Request
  PROVE  UsesInv'
<1>1. UNCHANGED <<context, classify, wfp, sending, holding, slots>>
      BY DEF Request, GrantLease, RevokeLease, Activate, Deactivate, Query, QueueReceive,
             Submit, contextVars, callbackVars, threadVars
<1>2. todo = << >> /\ holding = None
  <2>1. todo = << >>
        BY DEF Request, GrantLease, RevokeLease, Activate, Deactivate, Query, QueueReceive,
               Submit, Idle
  <2>2. QED  BY <2>1, ChainHolds DEF UsesInv
<1>3. ChainInv'
  <2>1. CASE todo' \in PlainRequests
        BY <1>1, <1>2, <2>1, PlainChains, ChainStarts
  <2>2. CASE \E batch \in Batches : todo' = SubmitBatch(batch)
        BY <1>1, <1>2, <2>2, BatchChains, ChainStarts
  <2>3. CASE todo' = todo
        BY <1>1, <2>3, ChainStays DEF UsesInv
  <2>4. QED  BY <2>1, <2>2, <2>3 DEF Request, GrantLease, RevokeLease, Activate, Deactivate,
                Query, QueueReceive, Submit, PlainRequests
<1>4. QED  BY <1>1, <1>3, NoFlowStep

LEMMA TeardownUses ==
  ASSUME ReplyInv, UsesInv, TeardownStep
  PROVE  UsesInv'
<1>1. ASSUME NEW f \in Flows, DrainFlow(f)
      PROVE  UsesInv'
  <2>1. OnlyFlow(f) /\ UsesTyped'
        BY <1>1, RecordMoves DEF UsesInv, FlowInv
  <2>2. ChainInv'
        BY <1>1, ChainStays DEF DrainFlow, UsesInv
  <2>3. QED  BY <2>1, <2>2, OneFlowStep
<1>2. CASE \/ Close \/ Purge \/ ExchangeLease \/ Fence \/ AwaitReaders \/ Reopen
           \/ AwaitInjections \/ SetStopping("stop", TRUE) \/ SetStopping("resume", FALSE)
           \/ DrainEnds \/ ReadCount \/ AwaitEmptyEvent \/ Expire
  <2>1. UNCHANGED <<context, classify, wfp, sending, holding, slots>>
        BY <1>2 DEF Close, Purge, ExchangeLease, Fence, AwaitReaders, Reopen, AwaitInjections,
              SetStopping, DrainEnds, ReadCount, AwaitEmptyEvent, Expire,
              contextVars, callbackVars, threadVars
  <2>2. todo # << >> /\ Head(todo).step \in PlainNames
        BY <1>2 DEF Close, Purge, ExchangeLease, Fence, AwaitReaders, Reopen, AwaitInjections,
              SetStopping, DrainEnds, ReadCount, AwaitEmptyEvent, Expire, AtStep, PlainNames
  <2>3. Head(todo).step \notin HeldAt /\ Head(todo).step \notin Opening
        BY <2>2 DEF PlainNames, HeldAt, Opening
  <2>4. holding = None /\ holding' = None
        BY <2>1, <2>2, <2>3, ChainHolds DEF UsesInv
  <2>5. /\ Chained(Tail(todo)) /\ Tail(todo) \in Seq(StepRecords)
        /\ Tail(todo) # << >> => Follows(Head(todo), Head(Tail(todo)))
        BY <2>2, TailChains DEF ReplyInv, UsesInv, ChainInv
  <2>6. Begins(Tail(todo))
        BY <2>3, <2>5 DEF Begins, Follows, HeldAt, Opening
  <2>7. \/ todo' = Tail(todo)
        \/ todo' = Steps(<<"await">>) \o Tail(todo)
        \/ todo' = ReleaseLease
        BY <1>2 DEF Close, Purge, ExchangeLease, Fence, AwaitReaders, Reopen, AwaitInjections,
              SetStopping, DrainEnds, ReadCount, AwaitEmptyEvent, Expire, Advanced
  <2>8. ReleaseLease \in PlainRequests
        BY DEF PlainRequests
  <2>9. Chained(todo') /\ Begins(todo')
        BY <2>5, <2>6, <2>7, <2>8, AwaitChains, PlainChains
  <2>10. ChainInv'
        BY <2>4, <2>9, ChainStarts
  <2>11. QED  BY <2>1, <2>10, NoFlowStep
<1>3. QED  BY <1>1, <1>2 DEF TeardownStep

LEMMA ReplyUses ==
  ASSUME ReplyInv, UsesInv, ReplyStep
  PROVE  UsesInv'
<1> DEFINE f == Head(todo).flow
<1>1. todo # << >> /\ Head(todo).step \in ReplyNames
      BY DEF ReplyStep, ReferenceForReply, Drop, ReserveInjection, PacketFails, SendReply,
             SendFails, AtStep, ReplyNames
<1>2. f \in Flows /\ Head(todo).number \in Numbers /\ context[f] \in OnceRecords
      /\ context[f] \in Records
  <2>1. Head(todo) \in StepRecords
        BY <1>1, TailSteps
  <2>2. QED  BY <1>1, <2>1 DEF StepRecords, ReplyInv, OnceRecords
<1>3. /\ Head(todo).step \in HeldAt => holding = f
      /\ Head(todo).step \notin HeldAt => holding = None
      BY <1>1, ChainHolds DEF UsesInv
<1>4. FlowInv /\ ChainInv
      BY DEF UsesInv, FlowInv
<1>5. None \notin Flows
      BY PathAssumption
<1>6. CASE ReferenceForReply("check") \/ ReferenceForReply("reference")
  <2>1. Head(todo).step \in Opening /\ holding = None
        BY <1>3, <1>6 DEF ReferenceForReply, AtStep, HeldAt, Opening
  <2>2. UNCHANGED <<slots, wfp, sending, classify>>
        BY <1>6 DEF ReferenceForReply, callbackVars, threadVars
  <2>3. CASE todo' = << >> /\ UNCHANGED <<context, holding>>
        BY <2>1, <2>2, <2>3, ChainEnds, NoFlowStep
  <2>4. CASE ~(todo' = << >> /\ UNCHANGED <<context, holding>>)
    <3>1. /\ Usable(f) /\ holding' = f /\ Advanced
          /\ context' = [context EXCEPT ![f].refs = context[f].refs + 1]
          BY <1>6, <2>4 DEF ReferenceForReply, Replyable
    <3>2. OnlyFlow(f) /\ UsesTyped'
          BY <1>2, <1>4, <2>1, <2>2, <3>1, ReferenceMoves
    <3>3. ChainInv'
          BY <1>1, <1>4, <2>1, <3>1, ChainAdvances
    <3>4. QED  BY <1>2, <3>2, <3>3, OneFlowStep
  <2>5. QED  BY <2>3, <2>4
<1>7. CASE Drop
  <2>1. Head(todo).step = "drop" /\ holding = f /\ holding' = None
        BY <1>3, <1>7 DEF Drop, AtStep, HeldAt
  <2>2. Dereference(f, context[f], ControlThread) /\ UNCHANGED <<wfp, sending, classify>>
        BY <1>7, <2>1 DEF Drop, callbackVars, threadVars
  <2>3. OnlyFlow(f) /\ UsesTyped'
        BY <1>2, <1>4, <2>1, <2>2, ControlLetsGo
  <2>4. ChainInv'
        BY <1>1, <1>4, <1>7, <2>1, ChainAdvances DEF Drop, Opening
  <2>5. QED  BY <1>2, <2>3, <2>4, OneFlowStep
<1>8. CASE (ReserveInjection \/ PacketFails) /\ GiveUp
  <2>1. holding = f /\ holding' = None /\ todo' = << >>
        BY <1>3, <1>8 DEF ReserveInjection, PacketFails, GiveUp, AtStep, HeldAt
  <2>2. Dereference(f, context[f], ControlThread) /\ UNCHANGED <<wfp, sending, classify>>
        BY <1>8, <2>1 DEF ReserveInjection, PacketFails, GiveUp, callbackVars, threadVars
  <2>3. OnlyFlow(f) /\ UsesTyped'
        BY <1>2, <1>4, <2>1, <2>2, ControlLetsGo
  <2>4. ChainInv'
        BY <2>1, ChainEnds
  <2>5. QED  BY <1>2, <2>3, <2>4, OneFlowStep
<1>9. CASE ReserveInjection /\ ~GiveUp
  <2>1. /\ Head(todo).step = "reserve" /\ holding = f /\ Advanced
        /\ UNCHANGED <<context, slots, holding, wfp, sending, classify>>
        BY <1>3, <1>9 DEF ReserveInjection, AtStep, HeldAt, callbackVars, threadVars
  <2>2. ChainInv'
        BY <1>1, <1>4, <2>1, ChainAdvances DEF Opening
  <2>3. QED  BY <2>1, <2>2, NoFlowStep
<1>10. CASE SendReply
  <2>1. /\ Head(todo).step = "send" /\ holding = f /\ holding' = None /\ Advanced
        /\ UNCHANGED <<slots, wfp, classify>>
        BY <1>3, <1>10 DEF SendReply, AtStep, HeldAt, threadVars
  <2>2. /\ context' = [context EXCEPT ![f] = Committed(context[f], Head(todo).number)]
        /\ sending' = [sending EXCEPT ![f] = sending[f] + 1]
        BY <1>10 DEF SendReply
  <2>3. OnlyFlow(f) /\ UsesTyped'
        BY <1>2, <1>4, <2>1, <2>2, SendMoves
  <2>4. ChainInv'
        BY <1>1, <1>4, <2>1, ChainAdvances DEF Opening
  <2>5. QED  BY <1>2, <2>3, <2>4, OneFlowStep
<1>11. CASE SendFails
  <2>1. holding = f /\ holding' = None /\ todo' = << >> /\ UNCHANGED <<wfp, sending, classify>>
        BY <1>3, <1>11 DEF SendFails, AtStep, HeldAt, callbackVars, threadVars
  <2> DEFINE record == IF CommitsReply(f, Head(todo).number)
                       THEN Committed(context[f], Head(todo).number) ELSE context[f]
  <2>2. Dereference(f, record, ControlThread)
        BY <1>11 DEF SendFails
  <2>3. record \in OnceRecords /\ record \in Records
    <3>1. CommitsReply(f, Head(todo).number) =>
            Committed(context[f], Head(todo).number) \in OnceRecords
          BY <1>2, CommittedOnce DEF CommitsReply
    <3>2. QED  BY <1>2, <3>1 DEF OnceRecords
  <2>4. /\ record.refs = context[f].refs /\ record.listed = context[f].listed
        /\ record.associated = context[f].associated
        BY <1>2, CommittedRecord
  <2> HIDE DEF record
  <2>5. OnlyFlow(f) /\ UsesTyped'
        BY <1>2, <1>4, <2>1, <2>2, <2>3, <2>4, ControlLetsGo
  <2>6. ChainInv'
        BY <2>1, ChainEnds
  <2>7. QED  BY <1>2, <2>5, <2>6, OneFlowStep
<1>12. QED  BY <1>6, <1>7, <1>8, <1>9, <1>10, <1>11 DEF ReplyStep, PacketFails

LEMMA FlowUses ==
  ASSUME ReplyInv, UsesInv, NEW f \in Flows,
         \/ ClassifyAdmit(f) \/ ClassifyStep(f) \/ CaptureBegin(f) \/ CaptureStep(f)
         \/ FlowDelete(f) \/ CompleteInjection(f) \/ FinishInjection(f)
  PROVE  UsesInv'
<1>1. FlowInv /\ ChainInv
      BY DEF UsesInv, FlowInv
<1>2. ChainInv'
  <2>1. CASE ClassifyAdmit(f) \/ ClassifyStep(f)
    <3>1. UNCHANGED <<todo, holding>>
          BY <2>1 DEF ClassifyAdmit, ClassifyStep, ClassifyAcquire, ClassifyCheck, ClassifyCount,
             ClassifyClearEvent, ClassifyGiveSlotBack, ClassifyLink, ClassifyAssociate,
             ClassifyAssociateFails, ClassifyMark, ClassifyLeave, ClassifyRelease
    <3>2. QED  BY <1>1, <3>1, ChainStays
  <2>2. CASE ~(ClassifyAdmit(f) \/ ClassifyStep(f))
    <3>1. UNCHANGED <<todo, holding>>
          BY <2>2 DEF CaptureBegin, CaptureStep, CaptureBind, CaptureTake, CaptureGivesUp,
             FlowDelete, CompleteInjection, FinishInjection
    <3>2. QED  BY <1>1, <3>1, ChainStays
  <2>3. QED  BY <2>1, <2>2
<1>3. CASE \/ ClassifyAdmit(f) \/ ClassifyAcquire(f) \/ ClassifyCheck(f)
           \/ ClassifyCount(f) \/ ClassifyClearEvent(f) \/ ClassifyGiveSlotBack(f)
           \/ ClassifyRelease(f)
      BY <1>1, <1>2, <1>3, CallMoves, OneFlowStep
<1>4. CASE ClassifyLink(f)
      BY <1>1, <1>2, <1>4, LinkMoves, OneFlowStep
<1>5. CASE \/ ClassifyAssociate(f) \/ ClassifyMark(f)
           \/ CaptureBind(f) /\ Usable(f)
      BY <1>1, <1>2, <1>5, RecordMoves, OneFlowStep
<1>6. CASE \/ ClassifyAssociateFails(f) \/ ClassifyLeave(f)
           \/ FlowDelete(f) \/ CompleteInjection(f)
      BY <1>1, <1>2, <1>6, FlowLetsGo, OneFlowStep
<1>7. CASE \/ CaptureBegin(f) \/ CaptureTake(f) \/ CaptureGivesUp(f) \/ FinishInjection(f)
           \/ CaptureBind(f) /\ ~Usable(f)
  <2>1. UNCHANGED <<context, classify, wfp, sending, holding, slots>>
        BY <1>7 DEF CaptureBegin, CaptureTake, CaptureGivesUp, FinishInjection, CaptureBind,
                    contextVars, callbackVars, threadVars
  <2>2. QED  BY <1>2, <2>1, NoFlowStep
<1>8. QED  BY <1>3, <1>4, <1>5, <1>6, <1>7 DEF ClassifyStep, CaptureStep

LEMMA NextUsesInv ==
  ASSUME ReplyInv, UsesInv, [Next]_vars
  PROVE  UsesInv'
<1>1. CASE Request
      BY <1>1, RequestUses
<1>2. CASE ControlStep
      BY <1>2, TeardownUses, ReplyUses DEF ControlStep
<1>3. CASE Lapse \/ UNCHANGED vars \/ \E thread \in Threads : SetEmptyEvent(thread)
  <2>1. UNCHANGED <<context, classify, wfp, sending, holding, todo>>
        BY <1>3 DEF Lapse, SetEmptyEvent, vars, contextVars, callbackVars, threadVars
  <2>2. UNCHANGED slots \/ slots' = [slots EXCEPT !.drained = TRUE]
        BY <1>3 DEF Lapse, SetEmptyEvent, vars, contextVars
  <2>3. ChainInv'
        BY <2>1, ChainStays DEF UsesInv
  <2>4. QED  BY <2>1, <2>2, <2>3, NoFlowStep
<1>4. ASSUME NEW f \in Flows,
             \/ ClassifyAdmit(f) \/ ClassifyStep(f) \/ CaptureBegin(f) \/ CaptureStep(f)
             \/ FlowDelete(f) \/ CompleteInjection(f) \/ FinishInjection(f)
      PROVE  UsesInv'
      BY <1>4, FlowUses
<1>5. QED  BY <1>1, <1>2, <1>3, <1>4 DEF Next

LEMMA InitUsesInv == Init => UsesInv
<1> SUFFICES ASSUME Init PROVE UsesInv
    OBVIOUS
<1>1. /\ context = [f \in Flows |-> NoContext]
      /\ wfp = [f \in Flows |-> "none"]
      /\ classify = [f \in Flows |-> [pc |-> "idle", key |-> None]]
      /\ sending = [f \in Flows |-> 0]
      /\ slots = [count |-> 0, drained |-> TRUE]
      /\ todo = << >> /\ holding = None
      BY DEF Init
<1>2. UsesTyped
      BY <1>1 DEF UsesTyped
<1>3. \A f \in Flows : context[f].refs = 0 /\ ~context[f].listed /\ classify[f].pc = "idle"
      BY <1>1 DEF NoContext
<1>4. None \notin Flows
      BY PathAssumption
<1>5. ASSUME NEW f \in Flows PROVE FlowSound(f)
  <2>1. Uses("idle", "none", FALSE, 0) = 0
        BY DEF Uses, One, CreatingAt
  <2>2. (holding = f) = FALSE /\ wfp[f] = "none" /\ sending[f] = 0
        BY <1>1, <1>4
  <2>3. Sound(context[f], "idle", "none", FALSE, 0)
        BY <1>3, <2>1 DEF Sound, Early
  <2>4. QED  BY <1>3, <2>2, <2>3 DEF FlowSound
<1>6. ChainInv
  <2>1. Chained(<< >>) /\ Begins(<< >>)
        BY DEF Chained, Begins
  <2>2. QED  BY <1>1, <2>1 DEF ChainInv, HoldsTheReply
<1>7. SlottedFlows = {} /\ GrantedFlows = {}
      BY <1>3 DEF SlottedFlows, GrantedFlows, Slotted, Granted, SlotAt
<1>8. Cardinality({}) = 0
      BY FS_EmptySet
<1>9. SlotsInv
      BY <1>1, <1>7, <1>8, PathAssumption DEF SlotsInv
<1>10. QED  BY <1>2, <1>5, <1>6, <1>9 DEF UsesInv

THEOREM UsesInvHolds == Spec => [](ReplyInv /\ GateTyped /\ UsesInv)
<1>1. Init => ReplyInv /\ GateTyped /\ UsesInv
      BY InitReplyInv, InitUsesInv
<1>2. ReplyInv /\ GateTyped /\ UsesInv /\ [Next]_vars => (ReplyInv /\ GateTyped /\ UsesInv)'
      BY NextReplyInv, GateStep, NextUsesInv
<1>3. QED  BY <1>1, <1>2, PTL DEF Spec

(* The count of references is the number of those who use the context: no  *)
(* one finds it freed, and none is counted that will never let go          *)
(* (FcxReferenceUdpFlowContext, FcxDereferenceUdpFlowContext).             *)
THEOREM ContextsAreCounted == Spec => []ReferencesCounted
<1>1. ReplyInv /\ UsesInv => ReferencesCounted
  <2> SUFFICES ASSUME ReplyInv, UsesInv, NEW f \in Flows
               PROVE  /\ context[f].refs = One(Creating(f))
                           + One(classify[f].pc = "associating" \/ wfp[f] # "none")
                           + One(holding = f) + sending[f]
                      /\ context[f].refs = 0 => ~context[f].listed
      BY DEF ReferencesCounted
  <2>1. Sound(context[f], classify[f].pc, wfp[f], holding = f, sending[f])
        BY DEF UsesInv, FlowSound
  <2>2. context[f].listed => context[f].refs # 0
        BY UsedExists DEF UsesInv, FlowInv
  <2>3. Creating(f) = (classify[f].pc \in CreatingAt)
        BY DEF Creating, CreatingAt
  <2>4. QED  BY <2>1, <2>2, <2>3 DEF Sound, Uses
<1>2. QED  BY <1>1, UsesInvHolds, PTL

(* A slot is counted for every context and for every flow that is on its   *)
(* way to one, and the limit of flows is kept (FcxReserveUdpFlowSlot,      *)
(* FcxReleaseUdpFlowSlot: no lock).                                        *)
THEOREM SlotsFollowContexts == Spec => []SlotsCounted
<1>1. ReplyInv /\ UsesInv => SlotsCounted
  <2> SUFFICES ASSUME ReplyInv, UsesInv PROVE SlotsCounted
      OBVIOUS
  <2> DEFINE Waiting == {f \in Flows : Reserving(f) \/ classify[f].pc = "full"}
  <2>1. ASSUME NEW f \in Flows, classify[f].pc \in SlotAt
        PROVE  ~(context[f].refs > 0)
    <3>1. context[f].refs = 0
          BY <2>1 DEF UsesInv, FlowSound, Sound, SlotAt, Early
    <3>2. QED  BY <3>1
  <2>2. Waiting = {f \in Flows : classify[f].pc \in SlotAt}
        BY DEF Reserving, SlotAt
  <2>3. Existing \cap Waiting = {} /\ SlottedFlows = Existing \cup Waiting
        BY <2>1, <2>2 DEF Existing, SlottedFlows, Slotted
  <2>4. IsFiniteSet(Existing) /\ IsFiniteSet(Waiting)
        BY PathAssumption, FS_Subset DEF Existing
  <2>5. Cardinality(Existing \cup Waiting) = Cardinality(Existing) + Cardinality(Waiting)
    <3>1. PICK a \in Nat : Cardinality(Existing) = a
          BY <2>4, FS_CardinalityType
    <3>2. PICK b \in Nat : Cardinality(Waiting) = b
          BY <2>4, FS_CardinalityType
    <3>3. Cardinality(Existing \cup Waiting)
            = Cardinality(Existing) + Cardinality(Waiting) - Cardinality({})
          BY <2>3, <2>4, FS_Union
    <3>4. Cardinality({}) = 0
          BY FS_EmptySet
    <3>5. QED  BY <3>1, <3>2, <3>3, <3>4
  <2>6. GrantedFlows = Existing \cup {f \in Flows : Reserving(f)}
        BY DEF GrantedFlows, Granted, Existing, Reserving, SlotAt
  <2>7. QED  BY <2>3, <2>5, <2>6 DEF UsesInv, SlotsInv, SlotsCounted
<1>2. QED  BY <1>1, UsesInvHolds, PTL

-----------------------------------------------------------------------------
(* Who reads a lease, and what the control thread has done of a request.   *)

(* A classify call between the acquisition of the rundown and its release. *)
ReaderAt == {"reading", "reserving", "counted", "full", "reserved",
             "associating", "marking", "leaving", "releasing"}

Classifying == {f \in Flows : classify[f].pc \in ReaderAt}
Capturing   == {f \in Flows : capture[f].pc # "idle"}

HoldersInv == rundown.holders = Cardinality(Classifying) + Cardinality(Capturing)

(* The control thread sets the empty event before it goes on.              *)
SumInv ==
  /\ finishing \in [Flows -> Nat]
  /\ injection \in [count : Int, open : Int]
  /\ injection.open = Cardinality(Numbered(sending)) + Cardinality(Numbered(finishing))
  /\ injection.count = injection.open + One(todo # << >> /\ Head(todo).step = "send")
  /\ injection.count <= MaxInFlight
  /\ ControlThread \in waking => holding = None

(* A datagram under way keeps its context, of the lease it was read with.  *)
CaptureInv ==
  \A f \in Flows : capture[f].pc # "idle" =>
    /\ wfp[f] # "none"
    /\ capture[f].lease \in Leases /\ capture[f].lease.key = context[f].key

Owns(key) == lease # None /\ lease.key = key

(* Whatever there is belongs to the lease in force.                        *)
OwnedFlow(f) ==
  /\ Usable(f) \/ (classify[f].pc \in {"associating", "marking"} /\ context[f].listed)
       => Owns(context[f].key)
  /\ classify[f].pc \in {"reading", "reserving", "counted", "full", "reserved"}
       => Owns(classify[f].key)
  /\ capture[f].pc # "idle" => Owns(capture[f].lease.key)

Owned == (\A f \in Flows : OwnedFlow(f)) /\ (receive # None => Owns(receive))

Current ==
  \A f \in Flows : capture[f].pc # "idle" =>
    lease # None /\ lease.generation = capture[f].lease.generation

NoUsable      == \A f \in Flows : ~Usable(f)
NoClassifying == \A f \in Flows : classify[f].pc \notin ReaderAt
NoCapturing   == \A f \in Flows : capture[f].pc = "idle"
NoInjection   == injection.count = 0

(* The request q from its n-th step on, or waiting for the event before it. *)
On(q, n) ==
  LET rest == SubSeq(q, n, Len(q))
  IN todo = rest \/ todo = Steps(<<"await">>) \o rest

Resting ==
  /\ \A i \in 1 .. Len(todo) : todo[i].step \in ReplyNames \cup {"expire"}
  /\ Owned /\ Current
  /\ ~gate.active => NoCapturing /\ NoInjection

(* What holds by the n-th step of a renewal, of a release, of the          *)
(* replacement of a lease and of a deactivation.                           *)
RenewedBy(n) ==
  /\ Owned
  /\ n = 1 => lease # None /\ incoming # None /\ lease.key = incoming.key
  /\ n = 1 \/ n = 4 => Current
  /\ ~gate.active => NoCapturing /\ NoInjection

ReleasedBy(n) ==
  /\ n > 1 => ~gate.active
  /\ n > 2 => receive = None
  /\ IF n > 3 THEN lease = None ELSE Owned /\ Current
  /\ n > 5 => NoClassifying /\ NoCapturing
  /\ n > 7 => NoInjection
  /\ n > 8 => gate.stopping
  /\ n > 9 => NoUsable

ReplacedBy(n) ==
  /\ n > 1 => ~gate.active
  /\ n > 2 => receive = None
  /\ n > 3 => NoInjection
  /\ n > 4 => gate.stopping
  /\ n \in 6 .. 9 => NoUsable
  /\ n < 8 \/ n > 9 => Owned
  /\ n < 8 => Current
  /\ n > 9 => NoCapturing

DeactivatedBy(n) ==
  /\ Owned /\ Current
  /\ n > 1 => ~gate.active
  /\ n > 3 => NoCapturing
  /\ n > 5 => NoInjection

Renewing     == \E n \in 1 .. 4  : On(RenewLease, n) /\ RenewedBy(n)
Releasing    == \E n \in 1 .. 11 : On(ReleaseLease, n) /\ ReleasedBy(n)
Replacing    == \E n \in 1 .. 11 : On(ReplaceLease, n) /\ ReplacedBy(n)
Deactivating == \E n \in 1 .. 9  : On(DeactivatePath, n) /\ DeactivatedBy(n)

LeaseInv ==
  /\ Resting \/ Renewing \/ Releasing \/ Replacing \/ Deactivating
  /\ gate.active => lease # None

-----------------------------------------------------------------------------
(* The holders of the rundown are the calls that read a lease.             *)

ReadersTyped ==
  /\ rundown \in [holders : Int, closed : BOOLEAN]
  /\ capture \in [Flows -> [pc : {"idle", "binding", "taking"}, lease : Leases \cup {None}]]

LEMMA ReadersOfOneFlow ==
  ASSUME HoldersInv, ReadersTyped, rundown' \in [holders : Int, closed : BOOLEAN],
         NEW f \in Flows,
         \A g \in Flows \ {f} : classify'[g] = classify[g] /\ capture'[g] = capture[g],
         rundown'.holders + One(classify[f].pc \in ReaderAt) + One(capture[f].pc # "idle")
           = rundown.holders + One(classify'[f].pc \in ReaderAt) + One(capture'[f].pc # "idle")
  PROVE  HoldersInv'
<1> DEFINE reads(g)  == classify[g].pc \in ReaderAt
           reads2(g) == classify'[g].pc \in ReaderAt
           takes(g)  == capture[g].pc # "idle"
           takes2(g) == capture'[g].pc # "idle"
           Readers == {g \in Flows \ {f} : reads(g)}
           Takers  == {g \in Flows \ {f} : takes(g)}
<1>1. \A g \in Flows \ {f} : (reads2(g) <=> reads(g)) /\ (takes2(g) <=> takes(g))
      OBVIOUS
<1>2. /\ reads(f) \in BOOLEAN /\ reads2(f) \in BOOLEAN
      /\ takes(f) \in BOOLEAN /\ takes2(f) \in BOOLEAN
      OBVIOUS
<1>3. /\ Classifying = {g \in Flows : reads(g)} /\ Classifying' = {g \in Flows : reads2(g)}
      /\ Capturing = {g \in Flows : takes(g)} /\ Capturing' = {g \in Flows : takes2(g)}
      BY DEF Classifying, Capturing
<1>4. rundown'.holders + One(reads(f)) + One(takes(f))
        = rundown.holders + One(reads2(f)) + One(takes2(f))
      OBVIOUS
<1>5. f \notin Readers /\ f \notin Takers /\ IsFiniteSet(Readers) /\ IsFiniteSet(Takers)
      BY PathAssumption, FS_Subset
<1> HIDE DEF reads, reads2, takes, takes2
<1>6. /\ Classifying = IF reads(f) THEN Readers \cup {f} ELSE Readers
      /\ Classifying' = IF reads2(f) THEN Readers \cup {f} ELSE Readers
      /\ Capturing = IF takes(f) THEN Takers \cup {f} ELSE Takers
      /\ Capturing' = IF takes2(f) THEN Takers \cup {f} ELSE Takers
      BY <1>1, <1>3
<1> HIDE DEF Readers, Takers
<1>7. PICK n \in Nat : Cardinality(Readers) = n
      BY <1>5, FS_CardinalityType
<1>8. PICK m \in Nat : Cardinality(Takers) = m
      BY <1>5, FS_CardinalityType
<1>9. /\ Cardinality(Classifying) = n + One(reads(f))
      /\ Cardinality(Classifying') = n + One(reads2(f))
      /\ Cardinality(Capturing) = m + One(takes(f))
      /\ Cardinality(Capturing') = m + One(takes2(f))
      BY <1>2, <1>5, <1>6, <1>7, <1>8, OneElement
<1>10. PICK a \in Int : rundown'.holders = a
       OBVIOUS
<1>11. /\ One(reads(f)) \in {0, 1} /\ One(reads2(f)) \in {0, 1}
       /\ One(takes(f)) \in {0, 1} /\ One(takes2(f)) \in {0, 1}
       BY DEF One
<1>12. rundown.holders = n + One(reads(f)) + (m + One(takes(f)))
       BY <1>9 DEF HoldersInv
<1>13. a = (n + One(reads2(f))) + (m + One(takes2(f)))
       BY <1>4, <1>10, <1>11, <1>12
<1>14. QED  BY <1>9, <1>10, <1>13 DEF HoldersInv

LEMMA ReadersStay ==
  ASSUME HoldersInv, ReadersTyped, UNCHANGED <<classify, capture>>,
         rundown'.holders = rundown.holders, rundown' \in [holders : Int, closed : BOOLEAN]
  PROVE  HoldersInv' /\ ReadersTyped'
BY DEF HoldersInv, ReadersTyped, Classifying, Capturing

(* How many read, while one call or none moves.                            *)
LEMMA HoldersMove ==
  ASSUME ReadersTyped, NEW step \in {-1, 0, 1},
         rundown' = [rundown EXCEPT !.holders = rundown.holders + step]
           \/ (step = 0 /\ UNCHANGED rundown)
  PROVE  /\ rundown'.holders = rundown.holders + step
         /\ rundown' \in [holders : Int, closed : BOOLEAN]
BY DEF ReadersTyped

LEMMA ClassifyReaders ==
  ASSUME ReplyInv, HoldersInv, ReadersTyped, NEW f \in Flows,
         ClassifyAdmit(f) \/ ClassifyStep(f)
  PROVE  HoldersInv' /\ ReadersTyped'
<1>1. UNCHANGED capture
      BY DEF ClassifyAdmit, ClassifyStep, ClassifyAcquire, ClassifyCheck, ClassifyCount,
             ClassifyClearEvent, ClassifyGiveSlotBack, ClassifyLink, ClassifyAssociate,
             ClassifyAssociateFails, ClassifyMark, ClassifyLeave, ClassifyRelease
<1>2. PICK p : \/ Goto(f, p)
               \/ \E k : classify' = [classify EXCEPT ![f] = [pc |-> p, key |-> k]]
      BY DEF ClassifyAdmit, ClassifyStep, ClassifyAcquire, ClassifyCheck, ClassifyCount,
             ClassifyClearEvent, ClassifyGiveSlotBack, ClassifyLink, ClassifyAssociate,
             ClassifyAssociateFails, ClassifyMark, ClassifyLeave, ClassifyRelease
<1>3. classify'[f].pc = p /\ \A g \in Flows \ {f} : classify'[g] = classify[g]
      BY <1>2 DEF Goto, ReplyInv
<1> DEFINE Moves(step) ==
             /\ rundown' = [rundown EXCEPT !.holders = rundown.holders + step]
                  \/ (step = 0 /\ UNCHANGED rundown)
             /\ One(classify'[f].pc \in ReaderAt) = One(classify[f].pc \in ReaderAt) + step
<1>4. \E step \in {-1, 0, 1} : Moves(step)
  <2>1. CASE ClassifyAcquire(f)
    <3>1. CASE rundown' = rundown
      <4>1. classify[f].pc = "admitted" /\ classify'[f].pc = "idle"
        <5>1. rundown.holders + 1 # rundown.holders /\ rundown \in [holders : Int, closed : BOOLEAN]
              BY DEF ReadersTyped
        <5>2. [rundown EXCEPT !.holders = rundown.holders + 1].holders = rundown.holders + 1
              BY <5>1
        <5>3. rundown' # [rundown EXCEPT !.holders = rundown.holders + 1]
              BY <3>1, <5>1, <5>2
        <5>4. Goto(f, "idle") /\ classify[f].pc = "admitted"
              BY <2>1, <5>3 DEF ClassifyAcquire, AtClassify
        <5>5. QED  BY <5>4 DEF Goto, ReplyInv
      <4>2. Moves(0)
            BY <3>1, <4>1 DEF ReaderAt, One
      <4>3. QED  BY <4>2
    <3>2. CASE rundown' # rundown
      <4>1. /\ rundown' = [rundown EXCEPT !.holders = rundown.holders + 1]
            /\ classify[f].pc = "admitted" /\ classify'[f].pc = "reading"
            BY <2>1, <3>2 DEF ClassifyAcquire, AtClassify, ReplyInv
      <4>2. Moves(1)
            BY <4>1 DEF ReaderAt, One
      <4>3. QED  BY <4>2
    <3>3. QED  BY <3>1, <3>2
  <2>2. CASE ClassifyRelease(f)
    <3>1. /\ rundown' = [rundown EXCEPT !.holders = rundown.holders - 1]
          /\ classify[f].pc = "releasing" /\ classify'[f].pc = "idle"
          BY <2>2 DEF ClassifyRelease, AtClassify, ReplyInv
    <3>2. rundown.holders - 1 = rundown.holders + (-1)
          BY DEF ReadersTyped
    <3>3. Moves(-1)
          BY <3>1, <3>2 DEF ReaderAt, One
    <3>4. QED  BY <3>3
  <2>3. CASE ClassifyAdmit(f)
    <3>1. classify[f].pc = "idle" /\ classify'[f].pc = "admitted" /\ UNCHANGED rundown
          BY <2>3 DEF ClassifyAdmit, AtClassify, Goto, ReplyInv
    <3>2. Moves(0)
          BY <3>1 DEF ReaderAt, One
    <3>3. QED  BY <3>2
  <2>4. CASE \/ ClassifyCheck(f) \/ ClassifyCount(f) \/ ClassifyClearEvent(f)
             \/ ClassifyGiveSlotBack(f) \/ ClassifyLink(f) \/ ClassifyAssociate(f)
             \/ ClassifyAssociateFails(f) \/ ClassifyMark(f) \/ ClassifyLeave(f)
    <3>1. UNCHANGED rundown
          BY <2>4 DEF ClassifyCheck, ClassifyCount, ClassifyClearEvent,
             ClassifyGiveSlotBack, ClassifyLink, ClassifyAssociate, ClassifyAssociateFails,
             ClassifyMark, ClassifyLeave
    <3>2. classify[f].pc \in ReaderAt
          BY <2>4 DEF ClassifyCheck, ClassifyCount, ClassifyClearEvent,
             ClassifyGiveSlotBack, ClassifyLink, ClassifyAssociate, ClassifyAssociateFails,
             ClassifyMark, ClassifyLeave, AtClassify, ReaderAt
    <3>3. classify'[f].pc \in ReaderAt
      <4>1. CASE ClassifyCount(f)
        <5>1. classify'[f].pc = SlotOutcome(slots.count + 1)
              BY <4>1 DEF ClassifyCount, Goto, ReplyInv
        <5>2. \A c : SlotOutcome(c) \in {"counted", "full", "reserved"}
              BY DEF SlotOutcome
        <5>3. QED  BY <5>1, <5>2 DEF ReaderAt
      <4>2. CASE ~ClassifyCount(f)
        <5>1. \E q \in ReaderAt : Goto(f, q)
              BY <2>4, <4>2 DEF ClassifyCheck, ClassifyClearEvent,
                 ClassifyGiveSlotBack, ClassifyLink, ClassifyAssociate, ClassifyAssociateFails,
                 ClassifyMark, ClassifyLeave, ReaderAt
        <5>2. QED  BY <5>1 DEF Goto, ReplyInv
      <4>3. QED  BY <4>1, <4>2
    <3>4. Moves(0)
          BY <3>1, <3>2, <3>3 DEF One
    <3>5. QED  BY <3>4
  <2>5. QED  BY <2>1, <2>2, <2>3, <2>4 DEF ClassifyStep
<1>5. PICK step \in {-1, 0, 1} : Moves(step)
      BY <1>4
<1>6. /\ rundown'.holders = rundown.holders + step
      /\ rundown' \in [holders : Int, closed : BOOLEAN]
      BY <1>5, HoldersMove
<1>7. rundown'.holders + One(classify[f].pc \in ReaderAt) + One(capture[f].pc # "idle")
        = rundown.holders + One(classify'[f].pc \in ReaderAt) + One(capture'[f].pc # "idle")
  <2> DEFINE a == One(classify[f].pc \in ReaderAt)
             b == One(capture[f].pc # "idle")
  <2>1. a \in {0, 1} /\ b \in {0, 1}
        BY DEF One
  <2>2. PICK h \in Int : rundown.holders = h
        BY DEF ReadersTyped
  <2>3. /\ One(classify'[f].pc \in ReaderAt) = a + step /\ rundown'.holders = h + step
        /\ One(capture'[f].pc # "idle") = b
        BY <1>1, <1>5, <1>6, <2>2
  <2> HIDE DEF a, b
  <2>4. (h + step) + a + b = h + (a + step) + b
        BY <2>1
  <2>5. QED  BY <2>2, <2>3, <2>4 DEF a, b
<1>8. HoldersInv'
      BY <1>1, <1>3, <1>6, <1>7, ReadersOfOneFlow
<1>9. QED  BY <1>1, <1>6, <1>8 DEF ReadersTyped

LEMMA CaptureReaders ==
  ASSUME ReplyInv, HoldersInv, ReadersTyped, NEW f \in Flows,
         CaptureBegin(f) \/ CaptureStep(f)
  PROVE  HoldersInv' /\ ReadersTyped'
<1>1. UNCHANGED classify /\ capture \in [Flows -> [pc : {"idle", "binding", "taking"},
                                                   lease : Leases \cup {None}]]
      BY DEF CaptureBegin, CaptureStep, CaptureBind, CaptureTake, CaptureGivesUp, ReadersTyped
<1> DEFINE Moves(step) ==
             /\ rundown' = [rundown EXCEPT !.holders = rundown.holders + step]
                  \/ (step = 0 /\ UNCHANGED rundown)
             /\ One(capture'[f].pc # "idle") = One(capture[f].pc # "idle") + step
           Others == /\ \A g \in Flows \ {f} : capture'[g] = capture[g]
                     /\ capture' \in [Flows -> [pc : {"idle", "binding", "taking"},
                                                lease : Leases \cup {None}]]
<1>2. Others /\ \E step \in {-1, 0, 1} : Moves(step)
  <2>1. CASE CaptureBegin(f)
    <3>1. /\ capture[f].pc = "idle" /\ capture' = [capture EXCEPT ![f] = [pc |-> "binding", lease |-> lease]]
          /\ rundown' = [rundown EXCEPT !.holders = rundown.holders + 1]
          BY <2>1 DEF CaptureBegin
    <3>2. lease \in Leases \cup {None}
          BY DEF ReplyInv
    <3>3. Others /\ capture'[f].pc = "binding"
          BY <1>1, <3>1, <3>2
    <3>4. Moves(1)
          BY <3>1, <3>3 DEF One
    <3>5. QED  BY <3>3, <3>4
  <2>2. CASE CaptureBind(f) /\ UNCHANGED rundown
    <3>1. CASE Usable(f)
      <4>1. capture[f].pc = "binding" /\ capture' = [capture EXCEPT ![f].pc = "taking"]
            BY <2>2, <3>1 DEF CaptureBind
      <4>2. Others /\ capture'[f].pc = "taking"
            BY <1>1, <4>1
      <4>3. Moves(0)
            BY <2>2, <4>1, <4>2 DEF One
      <4>4. QED  BY <4>2, <4>3
    <3>2. CASE ~Usable(f)
      <4>1. rundown' = [rundown EXCEPT !.holders = rundown.holders - 1]
            BY <2>2, <3>2 DEF CaptureBind, CaptureLeaves
      <4>2. rundown'.holders = rundown.holders - 1 /\ rundown.holders \in Int
            BY <4>1 DEF ReadersTyped
      <4>3. QED  BY <2>2, <4>2
    <3>3. QED  BY <3>1, <3>2
  <2>3. CASE capture[f].pc # "idle" /\ CaptureLeaves(f)
    <3>1. /\ rundown' = [rundown EXCEPT !.holders = rundown.holders - 1]
          /\ capture' = [capture EXCEPT ![f] = [pc |-> "idle", lease |-> None]]
          BY <2>3 DEF CaptureLeaves
    <3>2. rundown.holders - 1 = rundown.holders + (-1)
          BY DEF ReadersTyped
    <3>3. Others /\ capture'[f].pc = "idle"
          BY <1>1, <3>1
    <3>4. Moves(-1)
          BY <2>3, <3>1, <3>2, <3>3 DEF One
    <3>5. QED  BY <3>3, <3>4
  <2>4. CASE CaptureStep(f)
        BY <2>2, <2>3, <2>4 DEF CaptureStep, CaptureBind, CaptureTake, CaptureGivesUp
  <2>5. QED  BY <2>1, <2>4
<1>3. PICK step \in {-1, 0, 1} : Moves(step)
      BY <1>2
<1>4. /\ rundown'.holders = rundown.holders + step
      /\ rundown' \in [holders : Int, closed : BOOLEAN]
      BY <1>3, HoldersMove
<1>5. rundown'.holders + One(classify[f].pc \in ReaderAt) + One(capture[f].pc # "idle")
        = rundown.holders + One(classify'[f].pc \in ReaderAt) + One(capture'[f].pc # "idle")
  <2> DEFINE a == One(classify[f].pc \in ReaderAt)
             b == One(capture[f].pc # "idle")
  <2>1. a \in {0, 1} /\ b \in {0, 1}
        BY DEF One
  <2>2. PICK h \in Int : rundown.holders = h
        BY DEF ReadersTyped
  <2>3. /\ One(capture'[f].pc # "idle") = b + step /\ rundown'.holders = h + step
        /\ One(classify'[f].pc \in ReaderAt) = a
        BY <1>1, <1>3, <1>4, <2>2
  <2> HIDE DEF a, b
  <2>4. (h + step) + a + b = h + a + (b + step)
        BY <2>1
  <2>5. QED  BY <2>2, <2>3, <2>4 DEF a, b
<1>6. HoldersInv'
      BY <1>1, <1>2, <1>4, <1>5, ReadersOfOneFlow
<1>7. QED  BY <1>2, <1>4, <1>6 DEF ReadersTyped

LEMMA NextReaders ==
  ASSUME ReplyInv, HoldersInv, ReadersTyped, [Next]_vars
  PROVE  HoldersInv' /\ ReadersTyped'
<1>1. ASSUME UNCHANGED <<classify, capture>>,
             UNCHANGED rundown \/ \E b \in BOOLEAN : rundown' = [rundown EXCEPT !.closed = b]
      PROVE  HoldersInv' /\ ReadersTyped'
  <2>1. rundown'.holders = rundown.holders /\ rundown' \in [holders : Int, closed : BOOLEAN]
        BY <1>1 DEF ReadersTyped
  <2>2. QED  BY <1>1, <2>1, ReadersStay
<1>2. CASE Request
  <2>1. UNCHANGED <<classify, capture, rundown>>
        BY <1>2 DEF Request, GrantLease, RevokeLease, Activate, Deactivate, Query, QueueReceive,
             Submit, threadVars
  <2>2. QED  BY <1>1, <2>1
<1>3. CASE TeardownStep
  <2>1. UNCHANGED <<classify, capture>>
        BY <1>3 DEF TeardownStep, Close, Purge, ExchangeLease, Fence, AwaitReaders, Reopen,
              AwaitInjections, SetStopping, DrainFlow, DrainEnds, ReadCount, AwaitEmptyEvent,
              Expire, threadVars
  <2>2. UNCHANGED rundown \/ \E b \in BOOLEAN : rundown' = [rundown EXCEPT !.closed = b]
        BY <1>3 DEF TeardownStep, Close, Purge, ExchangeLease, Fence, AwaitReaders, Reopen,
              AwaitInjections, SetStopping, DrainFlow, DrainEnds, ReadCount, AwaitEmptyEvent,
              Expire
  <2>3. QED  BY <1>1, <2>1, <2>2
<1>4. CASE ReplyStep \/ Lapse \/ UNCHANGED vars
           \/ \E thread \in Threads : SetEmptyEvent(thread)
  <2>1. UNCHANGED <<classify, capture, rundown>>
        BY <1>4 DEF ReplyStep, ReferenceForReply, Drop, ReserveInjection, PacketFails,
              SendReply, SendFails, Lapse, SetEmptyEvent, vars, threadVars
  <2>2. QED  BY <1>1, <2>1
<1>5. ASSUME NEW f \in Flows,
             FlowDelete(f) \/ CompleteInjection(f) \/ FinishInjection(f)
      PROVE  HoldersInv' /\ ReadersTyped'
  <2>1. UNCHANGED <<classify, capture, rundown>>
        BY <1>5 DEF FlowDelete, CompleteInjection, FinishInjection, threadVars
  <2>2. QED  BY <1>1, <2>1
<1>6. QED  BY <1>2, <1>3, <1>4, <1>5, ClassifyReaders, CaptureReaders DEF Next, ControlStep

-----------------------------------------------------------------------------
(* The injections that exist are counted.                                  *)

LEMMA NumberedFinite ==
  ASSUME NEW c \in [Flows -> Nat]
  PROVE  IsFiniteSet(Numbered(c)) /\ Cardinality(Numbered(c)) \in Nat
<1> DEFINE rows == [f \in Flows |-> {f} \X (1 .. c[f])]
           All  == {{f} \X (1 .. c[f]) : f \in Flows}
<1>1. \A f \in Flows : IsFiniteSet({f} \X (1 .. c[f]))
  <2> TAKE f \in Flows
  <2>1. IsFiniteSet({f})
        BY FS_Singleton
  <2>2. 1 \in Int /\ c[f] \in Int
        OBVIOUS
  <2>3. IsFiniteSet(1 .. c[f])
        BY <2>2, FS_Interval
  <2>4. QED  BY <2>1, <2>3, FS_Product
<1>2. rows \in Surjection(Flows, All)
      BY DEF Surjection
<1>3. IsFiniteSet(All)
      BY <1>2, PathAssumption, FS_Surjection
<1>4. IsFiniteSet(UNION All)
      BY <1>1, <1>3, FS_UNION
<1>5. QED  BY <1>4, FS_CardinalityType DEF Numbered

LEMMA OneInjectionMore ==
  ASSUME NEW c \in [Flows -> Nat], NEW d \in [Flows -> Nat], NEW f \in Flows,
         d[f] = c[f] + 1, \A g \in Flows \ {f} : d[g] = c[g]
  PROVE  Cardinality(Numbered(d)) = Cardinality(Numbered(c)) + 1
<1> DEFINE last == <<f, c[f] + 1>>
<1>1. \A g \in Flows : \A n : <<g, n>> \in Numbered(c) <=> n \in 1 .. c[g]
      BY DEF Numbered
<1>2. \A x \in Numbered(c) : \E g \in Flows : \E n \in 1 .. c[g] : x = <<g, n>>
      BY DEF Numbered
<1>3. \A g \in Flows : \A n : <<g, n>> \in Numbered(d) <=> n \in 1 .. d[g]
      BY DEF Numbered
<1>4. \A x \in Numbered(d) : \E g \in Flows : \E n \in 1 .. d[g] : x = <<g, n>>
      BY DEF Numbered
<1>5. last \notin Numbered(c) /\ last \in Numbered(d)
      BY <1>1, <1>3
<1>6. ASSUME NEW g \in Flows, NEW n PROVE n \in 1 .. d[g] <=> (n \in 1 .. c[g] \/ <<g, n>> = last)
  <2>1. CASE g = f
    <3>1. 1 .. c[f] + 1 = (1 .. c[f]) \cup {c[f] + 1}
          OBVIOUS
    <3>2. QED  BY <2>1, <3>1
  <2>2. CASE g # f
        BY <2>2
  <2>3. QED  BY <2>1, <2>2
<1>7. Numbered(d) = Numbered(c) \cup {last}
  <2>1. ASSUME NEW x \in Numbered(d) PROVE x \in Numbered(c) \cup {last}
    <3>1. PICK g \in Flows : \E n \in 1 .. d[g] : x = <<g, n>>
          BY <1>4
    <3>2. QED  BY <1>1, <1>6, <3>1
  <2>2. ASSUME NEW x \in Numbered(c) PROVE x \in Numbered(d)
    <3>1. PICK g \in Flows : \E n \in 1 .. c[g] : x = <<g, n>>
          BY <1>2
    <3>2. QED  BY <1>3, <1>6, <3>1
  <2>3. QED  BY <1>5, <2>1, <2>2
<1>8. IsFiniteSet(Numbered(c))
      BY NumberedFinite
<1>9. QED  BY <1>5, <1>7, <1>8, FS_AddElement

LEMMA NoInjectionLeft ==
  ASSUME NEW c \in [Flows -> Nat], Cardinality(Numbered(c)) = 0
  PROVE  \A f \in Flows : c[f] = 0
<1> SUFFICES ASSUME NEW f \in Flows, c[f] # 0 PROVE FALSE
    OBVIOUS
<1>1. <<f, 1>> \in Numbered(c)
  <2>1. 1 \in 1 .. c[f]
        OBVIOUS
  <2>2. QED  BY <2>1 DEF Numbered
<1>2. Numbered(c) = {}
      BY NumberedFinite, FS_EmptySet
<1>3. QED  BY <1>1, <1>2

LEMMA NumberedNone ==
  ASSUME NEW c \in [Flows -> Nat], \A f \in Flows : c[f] = 0
  PROVE  Cardinality(Numbered(c)) = 0
<1>1. \A f \in Flows : {f} \X (1 .. c[f]) = {}
  <2>1. 1 .. 0 = {}
        OBVIOUS
  <2>2. QED  BY <2>1
<1>2. Numbered(c) = {}
      BY <1>1 DEF Numbered
<1>3. QED  BY <1>2, FS_EmptySet

(* One more under way, one fewer, or one that goes over to be finished.    *)
Sums(under, finished, gauge, atSend) ==
  /\ gauge \in [count : Int, open : Int]
  /\ gauge.open = Cardinality(Numbered(under)) + Cardinality(Numbered(finished))
  /\ gauge.count = gauge.open + One(atSend)
  /\ gauge.count <= MaxInFlight

AtSend == todo # << >> /\ Head(todo).step = "send"

LEMMA SumParts ==
  SumInv <=> /\ finishing \in [Flows -> Nat]
             /\ Sums(sending, finishing, injection, AtSend)
             /\ ControlThread \in waking => holding = None
BY DEF SumInv, Sums, AtSend

(* The thread that has taken the count to 0 is the one that let go.        *)
LEMMA WhoWakes ==
  ASSUME NEW f, NEW record, NEW thread, Dereference(f, record, thread)
  PROVE  ControlThread \in waking' => ControlThread \in waking \/ thread = ControlThread
BY DEF Dereference, ReleaseSlot

LEMMA OtherThreads ==
  ASSUME NEW f \in Flows
  PROVE  ClassifyThread(f) # ControlThread /\ Callback(f) # ControlThread
BY DEF ClassifyThread, Callback, ControlThread

LEMMA SumsStay ==
  ASSUME SumInv, UNCHANGED <<sending, finishing, injection>>, AtSend' <=> AtSend,
         ControlThread \in waking' => holding' = None
  PROVE  SumInv'
<1>1. One(AtSend') = One(AtSend)
      BY DEF One
<1>2. QED  BY <1>1 DEF SumInv, AtSend

(* A reply that is about to be sent is held.                               *)
LEMMA SendIsHeld ==
  ASSUME ReplyInv, ChainInv, AtSend
  PROVE  holding # None
<1>1. ~Begins(todo)
      BY DEF AtSend, Begins, HeldAt
<1>2. holding = Head(todo).flow
      BY <1>1 DEF ChainInv, HoldsTheReply
<1>3. Head(todo).flow \in Flows
  <2>1. Head(todo) \in StepRecords
        BY TailSteps DEF AtSend
  <2>2. QED  BY <2>1 DEF StepRecords, AtSend, ReplyNames
<1>4. QED  BY <1>2, <1>3, PathAssumption

LEMMA NextSendIsHeld ==
  ASSUME ReplyInv', ChainInv', AtSend'
  PROVE  holding' # None
<1>1. ~Begins(todo')
      BY DEF AtSend, Begins, HeldAt
<1>2. holding' = Head(todo').flow
      BY <1>1 DEF ChainInv, HoldsTheReply
<1>3. Head(todo').flow \in Flows
  <2>1. Head(todo') \in StepRecords
    <3>1. todo' \in Seq(StepRecords) /\ todo' # << >>
          BY DEF ReplyInv, AtSend
    <3>2. QED  BY <3>1
  <2>2. QED  BY <2>1 DEF StepRecords, AtSend, ReplyNames
<1>4. QED  BY <1>2, <1>3, PathAssumption

LEMMA NextIsSend ==
  ASSUME ReplyInv, ChainInv, todo # << >>, Advanced
  PROVE  AtSend' <=> Head(todo).step = "reserve"
<1>1. /\ Tail(todo) = << >> => Head(todo).step \notin Opening
      /\ Tail(todo) # << >> => Follows(Head(todo), Head(Tail(todo)))
      BY TailChains DEF ReplyInv, ChainInv
<1>2. AtSend' <=> Tail(todo) # << >> /\ Head(Tail(todo)).step = "send"
      BY DEF Advanced, AtSend
<1>3. Tail(todo) # << >> => (Head(Tail(todo)).step = "send" <=> Head(todo).step = "reserve")
      BY <1>1 DEF Follows
<1>4. Head(todo).step = "reserve" => Tail(todo) # << >>
      BY <1>1 DEF Opening
<1>5. QED  BY <1>2, <1>3, <1>4

(* The gauges move with the injections.                                    *)
Gauges(count, open) ==
  /\ injection' \in [count : Int, open : Int]
  /\ injection'.count = injection.count + count
  /\ injection'.open = injection.open + open

InjectionsMove(count, open) ==
  /\ Gauges(count, open)
  /\ finishing' \in [Flows -> Nat]
  /\ Cardinality(Numbered(sending')) + Cardinality(Numbered(finishing'))
       = Cardinality(Numbered(sending)) + Cardinality(Numbered(finishing)) + open
  /\ count + One(AtSend) = open + One(AtSend')
  /\ injection.count + count <= MaxInFlight
  /\ ControlThread \in waking' => holding' = None

LEMMA SlotFinishes ==
  ASSUME SumInv, NEW attempted \in BOOLEAN, injection' = FinishedSlot(attempted)
  PROVE  Gauges(-1, IF attempted THEN -1 ELSE 0) /\ injection.count + (-1) <= MaxInFlight
<1>1. PICK c \in Int, o \in Int : injection = [count |-> c, open |-> o] /\ c <= MaxInFlight
      BY DEF SumInv
<1>2. injection' = [count |-> c - 1, open |-> IF attempted THEN o - 1 ELSE o]
      BY <1>1 DEF FinishedSlot
<1>3. c - 1 \in Int /\ o - 1 \in Int /\ c - 1 = c + (-1) /\ o - 1 = o + (-1) /\ o = o + 0
      OBVIOUS
<1>4. c + (-1) <= MaxInFlight
      BY <1>1, PathAssumption
<1>5. CASE attempted
      BY <1>1, <1>2, <1>3, <1>4, <1>5 DEF Gauges
<1>6. CASE ~attempted
      BY <1>1, <1>2, <1>3, <1>4, <1>6 DEF Gauges
<1>7. QED  BY <1>5, <1>6

LEMMA SumsMove ==
  ASSUME SumInv, NEW count \in Int, NEW open \in Int, InjectionsMove(count, open)
  PROVE  SumInv'
<1>1. PICK c \in Int : injection.count = c
      BY DEF SumInv
<1>2. PICK o \in Int : injection.open = o
      BY DEF SumInv
<1>3. injection \in [count : Int, open : Int]
      BY DEF SumInv
<1>4. /\ injection'.count = c + count /\ injection'.open = o + open
      /\ injection' \in [count : Int, open : Int]
      BY <1>1, <1>2, <1>3 DEF Gauges, InjectionsMove
<1>5. /\ Cardinality(Numbered(sending)) + Cardinality(Numbered(finishing)) = o
      /\ c = o + One(AtSend)
      BY <1>1, <1>2 DEF SumInv, AtSend
<1>6. Cardinality(Numbered(sending')) + Cardinality(Numbered(finishing')) = o + open
      BY <1>5 DEF InjectionsMove
<1>7. One(AtSend) \in {0, 1} /\ One(AtSend') \in {0, 1}
      BY DEF One
<1>8. c + count = (o + open) + One(AtSend')
      BY <1>5, <1>7 DEF InjectionsMove
<1>9. c + count <= MaxInFlight
      BY <1>1 DEF InjectionsMove
<1>10. QED  BY <1>4, <1>6, <1>8, <1>9 DEF SumInv, AtSend, InjectionsMove

LEMMA ReplySums ==
  ASSUME ReplyInv, UsesInv, SumInv, ReplyStep, SumInv
  PROVE  SumInv'
<1>1. /\ ChainInv /\ sending \in [Flows -> Nat] /\ finishing \in [Flows -> Nat]
      /\ injection \in [count : Int, open : Int] /\ MaxInFlight \in Nat
      BY PathAssumption DEF UsesInv, UsesTyped, SumInv
<1>2. todo # << >> /\ ControlThread \notin waking /\ UNCHANGED finishing
      BY DEF ReplyStep, ReferenceForReply, Drop, ReserveInjection, PacketFails, SendReply,
             SendFails, AtStep, callbackVars
<1>3. One(TRUE) = 1 /\ One(FALSE) = 0
      BY DEF One
<1>4. todo' = << >> => ~AtSend'
      BY DEF AtSend
<1>5. CASE ReferenceForReply("check") \/ ReferenceForReply("reference") \/ Drop
  <2>1. UNCHANGED <<sending, injection>> /\ ~AtSend /\ Head(todo).step # "reserve"
        BY <1>5 DEF ReferenceForReply, Drop, AtStep, AtSend, callbackVars
  <2>2. Advanced \/ todo' = << >>
        BY <1>5 DEF ReferenceForReply, Drop
  <2>3. ~AtSend'
        BY <1>1, <1>2, <1>4, <2>1, <2>2, NextIsSend
  <2>4. ControlThread \in waking' => holding' = None
        BY <1>2, <1>5 DEF ReferenceForReply, Drop
  <2>5. QED  BY <1>2, <2>1, <2>3, <2>4, SumsStay
<1>6. CASE ReserveInjection
  <2>1. UNCHANGED sending /\ ~AtSend /\ Head(todo).step = "reserve"
        BY <1>6 DEF ReserveInjection, AtStep, AtSend, callbackVars
  <2>2. CASE injection.count < MaxInFlight /\ gate.active /\ ~gate.stopping
    <3>1. /\ injection' = [injection EXCEPT !.count = injection.count + 1]
          /\ Advanced /\ UNCHANGED <<waking, holding>>
          BY <1>6, <2>2 DEF ReserveInjection
    <3>2. AtSend'
          BY <1>1, <1>2, <2>1, <3>1, NextIsSend
    <3>3. Gauges(1, 0)
          BY <1>1, <3>1 DEF Gauges
    <3>4. 1 + One(AtSend) = 0 + One(AtSend')
          BY <1>3, <2>1, <3>2 DEF One
    <3>5. injection.count + 1 <= MaxInFlight
          BY <1>1, <2>2
    <3>6. Cardinality(Numbered(sending')) + Cardinality(Numbered(finishing'))
            = Cardinality(Numbered(sending)) + Cardinality(Numbered(finishing)) + 0
      <4>1. Cardinality(Numbered(sending)) \in Nat /\ Cardinality(Numbered(finishing)) \in Nat
            BY <1>1, NumberedFinite
      <4>2. QED  BY <1>2, <2>1, <4>1
    <3>7. InjectionsMove(1, 0)
          BY <1>1, <1>2, <3>1, <3>3, <3>4, <3>5, <3>6 DEF InjectionsMove
    <3>8. QED  BY <3>7, SumsMove
  <2>3. CASE ~(injection.count < MaxInFlight /\ gate.active /\ ~gate.stopping)
    <3>1. todo' = << >> /\ holding' = None /\ UNCHANGED injection
          BY <1>6, <2>3 DEF ReserveInjection, GiveUp
    <3>2. QED  BY <1>2, <1>4, <2>1, <3>1, SumsStay
  <2>4. QED  BY <2>2, <2>3
<1>7. CASE PacketFails \/ SendFails
  <2>1. /\ UNCHANGED sending /\ AtSend /\ todo' = << >> /\ holding' = None
        /\ injection' = FinishedSlot(FALSE)
        BY <1>7 DEF PacketFails, SendFails, GiveUp, AtStep, AtSend, callbackVars
  <2>2. Gauges(-1, 0) /\ injection.count + (-1) <= MaxInFlight
        BY <2>1, SlotFinishes
  <2>3. -1 + One(AtSend) = 0 + One(AtSend')
        BY <1>3, <1>4, <2>1 DEF One
  <2>5. Cardinality(Numbered(sending')) + Cardinality(Numbered(finishing'))
          = Cardinality(Numbered(sending)) + Cardinality(Numbered(finishing)) + 0
    <3>1. Cardinality(Numbered(sending)) \in Nat /\ Cardinality(Numbered(finishing)) \in Nat
          BY <1>1, NumberedFinite
    <3>2. QED  BY <1>2, <2>1, <3>1
  <2>6. InjectionsMove(-1, 0)
        BY <1>1, <1>2, <2>1, <2>2, <2>3, <2>5 DEF InjectionsMove
  <2>7. QED  BY <2>6, SumsMove
<1>8. CASE SendReply
  <2> DEFINE f == Head(todo).flow
  <2>1. /\ AtSend /\ Advanced /\ holding' = None /\ Head(todo).step # "reserve"
        /\ sending' = [sending EXCEPT ![f] = sending[f] + 1]
        /\ injection' = [injection EXCEPT !.open = injection.open + 1]
        BY <1>8 DEF SendReply, AtStep, AtSend
  <2>2. f \in Flows
        BY <1>8, ReplyHead DEF SendReply, ReplyNames
  <2>3. ~AtSend'
        BY <1>1, <1>2, <2>1, NextIsSend
  <2>4. Gauges(0, 1)
        BY <1>1, <2>1 DEF Gauges
  <2>5. 0 + One(AtSend) = 1 + One(AtSend')
        BY <1>3, <2>1, <2>3 DEF One
  <2>6. injection.count + 0 <= MaxInFlight
        BY <1>1 DEF SumInv
  <2>7. Cardinality(Numbered(sending')) + Cardinality(Numbered(finishing'))
          = Cardinality(Numbered(sending)) + Cardinality(Numbered(finishing)) + 1
    <3>1. /\ sending' \in [Flows -> Nat] /\ sending'[f] = sending[f] + 1
          /\ \A g \in Flows \ {f} : sending'[g] = sending[g]
          BY <1>1, <2>1, <2>2
    <3>2. Cardinality(Numbered(sending')) = Cardinality(Numbered(sending)) + 1
          BY <1>1, <2>2, <3>1, OneInjectionMore
    <3>3. PICK a \in Nat : Cardinality(Numbered(sending)) = a
          BY <1>1, NumberedFinite
    <3>4. PICK b \in Nat : Cardinality(Numbered(finishing)) = b
          BY <1>1, NumberedFinite
    <3>5. QED  BY <1>2, <3>2, <3>3, <3>4
  <2>8. InjectionsMove(0, 1)
        BY <1>1, <1>2, <2>1, <2>4, <2>5, <2>6, <2>7 DEF InjectionsMove
  <2>9. QED  BY <2>8, SumsMove
<1>9. QED  BY <1>5, <1>6, <1>7, <1>8 DEF ReplyStep

LEMMA CompletionSums ==
  ASSUME ReplyInv, UsesInv, SumInv, NEW f \in Flows,
         CompleteInjection(f) \/ FinishInjection(f)
  PROVE  SumInv'
<1>1. /\ sending \in [Flows -> Nat] /\ finishing \in [Flows -> Nat]
      /\ injection \in [count : Int, open : Int] /\ MaxInFlight \in Nat
      BY PathAssumption DEF UsesInv, UsesTyped, SumInv
<1>2. UNCHANGED <<todo, holding>> /\ (AtSend' <=> AtSend)
      BY DEF CompleteInjection, FinishInjection, AtSend
<1>3. ControlThread \in waking' => holding' = None
  <2>1. CASE CompleteInjection(f)
    <3>1. ControlThread \in waking' => ControlThread \in waking
          BY <2>1, WhoWakes, OtherThreads DEF CompleteInjection
    <3>2. QED  BY <1>2, <3>1 DEF SumInv
  <2>2. CASE FinishInjection(f)
        BY <1>2, <2>2 DEF FinishInjection, contextVars, SumInv
  <2>3. QED  BY <2>1, <2>2
<1>4. PICK a \in Nat : Cardinality(Numbered(sending)) = a
      BY <1>1, NumberedFinite
<1>5. PICK b \in Nat : Cardinality(Numbered(finishing)) = b
      BY <1>1, NumberedFinite
<1>6. One(AtSend') = One(AtSend) /\ One(AtSend) \in {0, 1}
      BY <1>2 DEF One
<1>7. CASE CompleteInjection(f)
  <2>1. /\ sending[f] > 0 /\ UNCHANGED injection
        /\ sending' = [sending EXCEPT ![f] = sending[f] - 1]
        /\ finishing' = [finishing EXCEPT ![f] = finishing[f] + 1]
        BY <1>7 DEF CompleteInjection
  <2>2. /\ sending' \in [Flows -> Nat] /\ sending[f] = sending'[f] + 1
        /\ \A g \in Flows \ {f} : sending[g] = sending'[g]
        /\ finishing' \in [Flows -> Nat] /\ finishing'[f] = finishing[f] + 1
        /\ \A g \in Flows \ {f} : finishing'[g] = finishing[g]
        BY <1>1, <2>1
  <2>3. Cardinality(Numbered(sending)) = Cardinality(Numbered(sending')) + 1
        BY <1>1, <2>2, OneInjectionMore
  <2>4. Cardinality(Numbered(finishing')) = Cardinality(Numbered(finishing)) + 1
        BY <1>1, <2>2, OneInjectionMore
  <2>5. PICK d \in Nat : Cardinality(Numbered(sending')) = d
        BY <2>2, NumberedFinite
  <2>6. Cardinality(Numbered(sending')) + Cardinality(Numbered(finishing')) = a + b
        BY <1>4, <1>5, <2>3, <2>4, <2>5
  <2>7. QED  BY <1>2, <1>3, <1>4, <1>5, <1>6, <2>1, <2>2, <2>6 DEF SumInv, AtSend
<1>8. CASE FinishInjection(f)
  <2>1. /\ finishing[f] > 0 /\ UNCHANGED sending
        /\ finishing' = [finishing EXCEPT ![f] = finishing[f] - 1]
        /\ injection' = FinishedSlot(TRUE)
        BY <1>8 DEF FinishInjection
  <2>2. /\ finishing' \in [Flows -> Nat] /\ finishing[f] = finishing'[f] + 1
        /\ \A g \in Flows \ {f} : finishing[g] = finishing'[g]
        BY <1>1, <2>1
  <2>3. Cardinality(Numbered(finishing)) = Cardinality(Numbered(finishing')) + 1
        BY <1>1, <2>2, OneInjectionMore
  <2>4. PICK d \in Nat : Cardinality(Numbered(finishing')) = d
        BY <2>2, NumberedFinite
  <2>5. Cardinality(Numbered(sending')) + Cardinality(Numbered(finishing'))
          = Cardinality(Numbered(sending)) + Cardinality(Numbered(finishing)) + (-1)
        BY <1>4, <1>5, <2>1, <2>3, <2>4
  <2>6. Gauges(-1, -1) /\ injection.count + (-1) <= MaxInFlight
        BY <2>1, SlotFinishes
  <2>7. -1 + One(AtSend) = -1 + One(AtSend')
        BY <1>6
  <2>8. InjectionsMove(-1, -1)
        BY <1>3, <2>2, <2>5, <2>6, <2>7 DEF InjectionsMove
  <2>9. QED  BY <2>8, SumsMove
<1>9. QED  BY <1>7, <1>8

LEMMA NextSums ==
  ASSUME ReplyInv, UsesInv, SumInv, ReplyInv', UsesInv', [Next]_vars
  PROVE  SumInv'
<1>1. ASSUME UNCHANGED <<sending, finishing, injection, waking, holding>>,
             holding' = None \/ UNCHANGED todo
      PROVE  SumInv'
  <2>1. CASE holding' = None
    <3>1. ChainInv /\ ChainInv'
          BY DEF UsesInv
    <3>2. ~AtSend
          BY <1>1, <2>1, <3>1, SendIsHeld
    <3>3. ~AtSend'
          BY <2>1, <3>1, NextSendIsHeld
    <3>4. QED  BY <1>1, <2>1, <3>2, <3>3, SumsStay
  <2>2. CASE UNCHANGED todo
    <3>1. AtSend' <=> AtSend
          BY <2>2 DEF AtSend
    <3>2. ControlThread \in waking' => holding' = None
          BY <1>1 DEF SumInv
    <3>3. QED  BY <1>1, <3>1, <3>2, SumsStay
  <2>3. QED  BY <1>1, <2>1, <2>2
<1>2. CASE Request
  <2>1. UNCHANGED <<sending, finishing, injection, waking, holding>> /\ todo = << >>
        BY <1>2 DEF Request, GrantLease, RevokeLease, Activate, Deactivate, Query, QueueReceive,
             Submit, Idle, contextVars, callbackVars
  <2>2. holding = None
        BY <2>1, ChainHolds DEF UsesInv
  <2>3. QED  BY <1>1, <2>1, <2>2
<1>3. CASE TeardownStep
  <2>1. UNCHANGED <<sending, finishing, injection, waking, holding>>
        BY <1>3 DEF TeardownStep, Close, Purge, ExchangeLease, Fence, AwaitReaders, Reopen,
              AwaitInjections, SetStopping, DrainFlow, DrainEnds, ReadCount, AwaitEmptyEvent,
              Expire, contextVars, callbackVars
  <2>2. todo # << >> /\ Head(todo).step \notin HeldAt
        BY <1>3 DEF TeardownStep, Close, Purge, ExchangeLease, Fence, AwaitReaders, Reopen,
              AwaitInjections, SetStopping, DrainFlow, DrainEnds, ReadCount, AwaitEmptyEvent,
              Expire, AtStep, HeldAt
  <2>3. holding = None
        BY <2>2, ChainHolds DEF UsesInv
  <2>4. QED  BY <1>1, <2>1, <2>3
<1>4. CASE Lapse \/ UNCHANGED vars
  <2>1. UNCHANGED <<sending, finishing, injection, waking, holding, todo>>
        BY <1>4 DEF Lapse, vars, contextVars, callbackVars
  <2>2. QED  BY <1>1, <2>1
<1>5. ASSUME NEW thread \in Threads, SetEmptyEvent(thread)
      PROVE  SumInv'
  <2>1. UNCHANGED <<sending, finishing, injection, holding, todo>>
        BY <1>5 DEF SetEmptyEvent, callbackVars
  <2>2. AtSend' <=> AtSend
        BY <2>1 DEF AtSend
  <2>3. ControlThread \in waking' => ControlThread \in waking
        BY <1>5 DEF SetEmptyEvent
  <2>4. ControlThread \in waking' => holding' = None
        BY <2>1, <2>3 DEF SumInv
  <2>5. QED  BY <2>1, <2>2, <2>4, SumsStay
<1>6. ASSUME NEW f \in Flows,
             ClassifyAdmit(f) \/ ClassifyStep(f) \/ CaptureBegin(f) \/ CaptureStep(f)
               \/ FlowDelete(f)
      PROVE  SumInv'
  <2>1. UNCHANGED <<sending, finishing, injection, holding, todo>>
    <3>1. CASE ClassifyAdmit(f) \/ ClassifyStep(f)
          BY <3>1 DEF ClassifyAdmit, ClassifyStep, ClassifyAcquire, ClassifyCheck, ClassifyCount,
             ClassifyClearEvent, ClassifyGiveSlotBack, ClassifyLink, ClassifyAssociate,
             ClassifyAssociateFails, ClassifyMark, ClassifyLeave, ClassifyRelease, callbackVars
    <3>2. CASE ~(ClassifyAdmit(f) \/ ClassifyStep(f))
          BY <1>6, <3>2 DEF CaptureBegin, CaptureStep, CaptureBind, CaptureTake, CaptureGivesUp,
             FlowDelete, callbackVars
    <3>3. QED  BY <3>1, <3>2
  <2>2. AtSend' <=> AtSend
        BY <2>1 DEF AtSend
  <2>3. ControlThread \in waking' => ControlThread \in waking
    <3>1. CASE ClassifyAssociateFails(f) \/ ClassifyLeave(f) \/ FlowDelete(f)
          BY <3>1, WhoWakes, OtherThreads DEF ClassifyAssociateFails, ClassifyLeave, FlowDelete
    <3>2. CASE ClassifyGiveSlotBack(f)
          BY <3>2, OtherThreads DEF ClassifyGiveSlotBack, ReleaseSlot
    <3>3. CASE ~(ClassifyAssociateFails(f) \/ ClassifyLeave(f) \/ FlowDelete(f)
                   \/ ClassifyGiveSlotBack(f))
          BY <1>6, <3>3 DEF ClassifyAdmit, ClassifyStep, ClassifyAcquire, ClassifyCheck,
             ClassifyCount, ClassifyClearEvent, ClassifyLink, ClassifyAssociate, ClassifyMark,
             ClassifyRelease, CaptureBegin, CaptureStep, CaptureBind, CaptureTake,
             CaptureGivesUp, contextVars
    <3>4. QED  BY <3>1, <3>2, <3>3
  <2>4. ControlThread \in waking' => holding' = None
        BY <2>1, <2>3 DEF SumInv
  <2>5. QED  BY <2>1, <2>2, <2>4, SumsStay
<1>7. QED  BY <1>2, <1>3, <1>4, <1>5, <1>6, ReplySums, CompletionSums DEF Next, ControlStep

-----------------------------------------------------------------------------
(* What a step does to a context: nothing, or it takes something from it,  *)
(* or its creator links it or marks it.                                    *)

Fewer(new, old) ==
  /\ new.key = old.key
  /\ new.listed => old.listed
  /\ new.associated => old.associated
  /\ old.removal => new.removal

Fades(f) == context'[f].refs = 0 \/ Fewer(context'[f], context[f])

LEMMA FewerStays == \A record : Fewer(record, record)
BY DEF Fewer

LEMMA OtherContexts ==
  ASSUME ReplyInv, NEW f, NEW record, context' = [context EXCEPT ![f] = record],
         NEW g \in Flows
  PROVE  context'[g] = IF g = f THEN record ELSE context[g]
BY DEF ReplyInv

LEMMA UpdateFades ==
  ASSUME ReplyInv, NEW f, NEW record, context' = [context EXCEPT ![f] = record],
         f \in Flows => Fewer(record, context[f])
  PROVE  \A g \in Flows : Fades(g)
BY OtherContexts, FewerStays DEF Fades

LEMMA DereferenceFades ==
  ASSUME ReplyInv, NEW f, NEW record \in Records, NEW thread, Dereference(f, record, thread),
         f \in Flows => Fewer(record, context[f])
  PROVE  \A g \in Flows : Fades(g)
<1>1. CASE record.refs = 1
  <2> DEFINE freed == [NoContext EXCEPT !.listed = record.listed]
  <2>1. freed.refs = 0
        BY DEF NoContext
  <2>2. context' = [context EXCEPT ![f] = freed]
        BY <1>1 DEF Dereference
  <2> HIDE DEF freed
  <2>3. QED  BY <2>1, <2>2, OtherContexts, FewerStays DEF Fades
<1>2. CASE record.refs # 1
  <2> DEFINE kept == [record EXCEPT !.refs = record.refs - 1]
  <2>1. Fewer(kept, record)
        BY DEF Fewer, Records
  <2>2. context' = [context EXCEPT ![f] = kept]
        BY <1>2 DEF Dereference
  <2> HIDE DEF kept
  <2>3. f \in Flows => Fewer(kept, context[f])
        BY <2>1 DEF Fewer
  <2>4. QED  BY <2>2, <2>3, UpdateFades
<1>3. QED  BY <1>1, <1>2

LEMMA StillFades ==
  ASSUME UNCHANGED context
  PROVE  \A g \in Flows : Fades(g)
BY FewerStays DEF Fades

(* What is held is a flow.                                                 *)
LEMMA HeldIsFlow ==
  ASSUME ReplyInv, ChainInv, todo # << >>, Head(todo).step \in HeldAt
  PROVE  holding \in Flows /\ holding = Head(todo).flow
<1>1. holding = Head(todo).flow
      BY DEF ChainInv, HoldsTheReply, Begins
<1>2. Head(todo) \in StepRecords /\ Head(todo).step \in ReplyNames
      BY TailSteps DEF HeldAt, ReplyNames
<1>3. QED  BY <1>1, <1>2 DEF StepRecords

LEMMA ReplyFades ==
  ASSUME ReplyInv, UsesInv, ReplyStep
  PROVE  \A g \in Flows : Fades(g)
<1>1. ChainInv /\ \A f \in Flows : context[f] \in Records /\ Fewer(context[f], context[f])
      BY FewerStays DEF UsesInv, ReplyInv, OnceRecords
<1>2. CASE \/ Drop \/ PacketFails
           \/ (ReserveInjection /\ GiveUp)
  <2>1. Dereference(holding, context[holding], ControlThread)
        BY <1>2 DEF Drop, PacketFails, GiveUp
  <2>2. holding \in Flows
        BY <1>1, <1>2, HeldIsFlow DEF Drop, PacketFails, ReserveInjection, AtStep, HeldAt
  <2>3. QED  BY <1>1, <2>1, <2>2, DereferenceFades
<1>3. CASE ReserveInjection /\ ~GiveUp
      BY <1>3, StillFades DEF ReserveInjection
<1>4. CASE ReferenceForReply("check") \/ ReferenceForReply("reference")
  <2> DEFINE f == Head(todo).flow
             more == [context[f] EXCEPT !.refs = context[f].refs + 1]
  <2>1. context' = [context EXCEPT ![f] = more] \/ UNCHANGED context
        BY <1>4 DEF ReferenceForReply
  <2>2. ASSUME f \in Flows PROVE Fewer(more, context[f])
        BY <1>1, <2>2 DEF Fewer, Records
  <2> HIDE DEF f, more
  <2>3. QED  BY <2>1, <2>2, UpdateFades, StillFades
<1>5. CASE SendReply \/ SendFails
  <2> DEFINE f == Head(todo).flow
             sent == Committed(context[f], Head(todo).number)
  <2>1. f \in Flows
        BY <1>1, <1>5, HeldIsFlow DEF SendReply, SendFails, AtStep, HeldAt
  <2>2. Fewer(sent, context[f])
        BY <1>1, <2>1 DEF Fewer, Records, Committed
  <2>3. CASE SendReply
    <3>1. context' = [context EXCEPT ![f] = sent]
          BY <2>3 DEF SendReply
    <3> HIDE DEF sent, f
    <3>2. QED  BY <2>2, <3>1, UpdateFades
  <2>4. CASE SendFails
    <3>1. \/ /\ Dereference(f, sent, ControlThread)
             /\ CommitsReply(f, Head(todo).number)
          \/ Dereference(f, context[f], ControlThread)
          BY <2>4 DEF SendFails
    <3>2. ASSUME CommitsReply(f, Head(todo).number) PROVE sent \in Records
      <4>1. Head(todo).number \in Numbers
            BY <2>4, ReplyHead DEF SendFails, ReplyNames
      <4>2. sent \in OnceRecords
        <5>1. context[f] \in OnceRecords /\ Accepts(context[f].window, Head(todo).number)
              BY <2>1, <3>2 DEF ReplyInv, CommitsReply
        <5>2. QED  BY <4>1, <5>1, CommittedOnce
      <4>3. QED  BY <4>2 DEF OnceRecords
    <3> HIDE DEF sent, f
    <3>3. QED  BY <1>1, <2>1, <2>2, <3>1, <3>2, DereferenceFades
  <2>5. QED  BY <1>5, <2>3, <2>4
<1>6. QED  BY <1>2, <1>3, <1>4, <1>5 DEF ReplyStep

LEMMA ContextFades ==
  ASSUME ReplyInv, UsesInv, [Next]_vars, NEW g \in Flows
  PROVE  Fades(g) \/ ClassifyLink(g) \/ ClassifyMark(g)
<1>1. \A f \in Flows : /\ context[f] \in Records /\ Fewer(context[f], context[f])
                       /\ Unlinked(context[f]) \in Records
                       /\ Fewer(Unlinked(context[f]), context[f])
      BY DEF ReplyInv, OnceRecords, Records, Fewer, Unlinked
<1>2. CASE Request \/ Lapse \/ UNCHANGED vars \/ \E thread \in Threads : SetEmptyEvent(thread)
  <2>1. UNCHANGED context
        BY <1>2 DEF Request, GrantLease, RevokeLease, Activate, Deactivate, Query, QueueReceive,
             Submit, Lapse, SetEmptyEvent, vars, contextVars
  <2>2. QED  BY <2>1, StillFades
<1>3. CASE TeardownStep
  <2>1. ASSUME NEW f \in Flows, DrainFlow(f) PROVE Fades(g)
    <3> DEFINE marked == [context[f] EXCEPT !.removal = TRUE]
    <3>1. context' = [context EXCEPT ![f] = marked]
          BY <2>1 DEF DrainFlow
    <3>2. Fewer(marked, context[f])
          BY <1>1 DEF Fewer, Records
    <3> HIDE DEF marked
    <3>3. QED  BY <3>1, <3>2, UpdateFades
  <2>2. CASE ~\E f \in Flows : DrainFlow(f)
    <3>1. UNCHANGED context
          BY <1>3, <2>2 DEF TeardownStep, Close, Purge, ExchangeLease, Fence, AwaitReaders, Reopen,
              AwaitInjections, SetStopping, DrainEnds, ReadCount, AwaitEmptyEvent, Expire,
              contextVars
    <3>2. QED  BY <3>1, StillFades
  <2>3. QED  BY <2>1, <2>2
<1>4. ASSUME NEW f \in Flows, ClassifyAdmit(f) \/ ClassifyStep(f)
      PROVE  Fades(g) \/ ClassifyLink(g) \/ ClassifyMark(g)
  <2>1. CASE ClassifyAssociateFails(f) \/ ClassifyLeave(f)
        BY <1>1, <2>1, DereferenceFades DEF ClassifyAssociateFails, ClassifyLeave
  <2>2. CASE ClassifyLink(f) \/ ClassifyMark(f)
    <3>1. \E record : context' = [context EXCEPT ![f] = record]
          BY <2>2 DEF ClassifyLink, ClassifyMark, ReplyInv
    <3>2. g # f => context'[g] = context[g]
          BY <3>1, OtherContexts
    <3>3. QED  BY <2>2, <3>2, FewerStays DEF Fades
  <2>3. CASE ~(ClassifyAssociateFails(f) \/ ClassifyLeave(f) \/ ClassifyLink(f) \/ ClassifyMark(f))
    <3>1. UNCHANGED context
          BY <1>4, <2>3 DEF ClassifyAdmit, ClassifyStep, ClassifyAcquire, ClassifyCheck,
             ClassifyCount, ClassifyClearEvent, ClassifyGiveSlotBack, ClassifyAssociate,
             ClassifyRelease, contextVars
    <3>2. QED  BY <3>1, StillFades
  <2>4. QED  BY <2>1, <2>2, <2>3
<1>5. ASSUME NEW f \in Flows, CaptureBegin(f) \/ CaptureStep(f)
      PROVE  Fades(g)
  <2>1. CASE UNCHANGED context
        BY <2>1, StillFades
  <2>2. CASE ~UNCHANGED context
    <3> DEFINE bound == [context[f] EXCEPT !.bound = TRUE]
    <3>1. context' = [context EXCEPT ![f] = bound]
          BY <1>5, <2>2 DEF CaptureBegin, CaptureStep, CaptureBind, CaptureTake, CaptureGivesUp,
                            contextVars
    <3>2. Fewer(bound, context[f])
          BY <1>1 DEF Fewer, Records
    <3> HIDE DEF bound
    <3>3. QED  BY <3>1, <3>2, UpdateFades
  <2>3. QED  BY <2>1, <2>2
<1>6. ASSUME NEW f \in Flows, FlowDelete(f) \/ CompleteInjection(f) \/ FinishInjection(f)
      PROVE  Fades(g)
  <2>1. CASE FlowDelete(f) \/ CompleteInjection(f)
        BY <1>1, <2>1, DereferenceFades DEF FlowDelete, CompleteInjection
  <2>2. CASE FinishInjection(f)
        BY <2>2, StillFades DEF FinishInjection, contextVars
  <2>3. QED  BY <1>6, <2>1, <2>2
<1>7. QED  BY <1>2, <1>3, <1>4, <1>5, <1>6, ReplyFades DEF Next, ControlStep

(* What a step does to the calls of a flow, and to what WFP has of it.     *)

CaptureMoves(f) ==
  \/ CaptureBegin(f)
  \/ capture'[f].pc = "idle"
  \/ capture[f].pc # "idle" /\ capture'[f].lease = capture[f].lease

LEMMA CallsMove ==
  ASSUME ReplyInv, UsesInv, ReadersTyped, [Next]_vars, NEW g \in Flows
  PROVE  (classify'[g] = classify[g] \/ ClassifyAdmit(g) \/ ClassifyStep(g)) /\ CaptureMoves(g)
<1>1. ASSUME UNCHANGED <<classify, capture>>
      PROVE  classify'[g] = classify[g] /\ CaptureMoves(g)
      BY <1>1 DEF CaptureMoves
<1>2. CASE Request \/ Lapse \/ UNCHANGED vars \/ \E thread \in Threads : SetEmptyEvent(thread)
  <2>1. UNCHANGED <<classify, capture>>
        BY <1>2 DEF Request, GrantLease, RevokeLease, Activate, Deactivate, Query, QueueReceive,
             Submit, Lapse, SetEmptyEvent, vars, threadVars
  <2>2. QED  BY <1>1, <2>1
<1>3. CASE ControlStep
  <2>1. UNCHANGED <<classify, capture>>
    <3>1. CASE TeardownStep
          BY <3>1 DEF TeardownStep, Close, Purge, ExchangeLease, Fence, AwaitReaders, Reopen,
              AwaitInjections, SetStopping, DrainFlow, DrainEnds, ReadCount, AwaitEmptyEvent,
              Expire, threadVars
    <3>2. CASE ReplyStep
          BY <3>2 DEF ReplyStep, ReferenceForReply, Drop, ReserveInjection, PacketFails,
              SendReply, SendFails, threadVars
    <3>3. QED  BY <1>3, <3>1, <3>2 DEF ControlStep
  <2>2. QED  BY <1>1, <2>1
<1>4. ASSUME NEW f \in Flows, ClassifyAdmit(f) \/ ClassifyStep(f)
      PROVE  (classify'[g] = classify[g] \/ ClassifyAdmit(g) \/ ClassifyStep(g)) /\ CaptureMoves(g)
  <2>1. UNCHANGED capture
        BY <1>4 DEF ClassifyAdmit, ClassifyStep, ClassifyAcquire, ClassifyCheck, ClassifyCount,
             ClassifyClearEvent, ClassifyGiveSlotBack, ClassifyLink, ClassifyAssociate,
             ClassifyAssociateFails, ClassifyMark, ClassifyLeave, ClassifyRelease
  <2>2. \/ \E p : Goto(f, p)
        \/ \E r : classify' = [classify EXCEPT ![f] = r]
        BY <1>4 DEF ClassifyAdmit, ClassifyStep, ClassifyAcquire, ClassifyCheck, ClassifyCount,
             ClassifyClearEvent, ClassifyGiveSlotBack, ClassifyLink, ClassifyAssociate,
             ClassifyAssociateFails, ClassifyMark, ClassifyLeave, ClassifyRelease
  <2>3. g # f => classify'[g] = classify[g]
        BY <2>2 DEF Goto, ReplyInv
  <2>4. QED  BY <1>4, <2>1, <2>3 DEF CaptureMoves
<1>5. ASSUME NEW f \in Flows, CaptureBegin(f) \/ CaptureStep(f)
      PROVE  classify'[g] = classify[g] /\ CaptureMoves(g)
  <2>1. UNCHANGED classify
        BY <1>5 DEF CaptureBegin, CaptureStep, CaptureBind, CaptureTake, CaptureGivesUp
  <2>2. CASE CaptureBegin(f)
    <3>1. g # f => capture'[g] = capture[g]
          BY <2>2 DEF CaptureBegin, ReadersTyped
    <3>2. QED  BY <2>1, <2>2, <3>1 DEF CaptureMoves
  <2>3. CASE CaptureLeaves(f)
    <3>1. /\ g # f => capture'[g] = capture[g]
          /\ g = f => capture'[g].pc = "idle"
          BY <2>3 DEF CaptureLeaves, ReadersTyped
    <3>2. QED  BY <2>1, <3>1 DEF CaptureMoves
  <2>4. CASE ~CaptureBegin(f) /\ ~CaptureLeaves(f)
    <3>1. capture[f].pc = "binding" /\ capture' = [capture EXCEPT ![f].pc = "taking"]
          BY <1>5, <2>4 DEF CaptureStep, CaptureBind, CaptureTake, CaptureGivesUp
    <3>2. capture'[g].lease = capture[g].lease /\ (g # f => capture'[g] = capture[g])
          BY <3>1 DEF ReadersTyped
    <3>3. QED  BY <2>1, <3>1, <3>2 DEF CaptureMoves
  <2>5. QED  BY <2>2, <2>3, <2>4
<1>6. ASSUME NEW f \in Flows, FlowDelete(f) \/ CompleteInjection(f) \/ FinishInjection(f)
      PROVE  classify'[g] = classify[g] /\ CaptureMoves(g)
  <2>1. UNCHANGED <<classify, capture>>
        BY <1>6 DEF FlowDelete, CompleteInjection, FinishInjection, threadVars
  <2>2. QED  BY <1>1, <2>1
<1>7. QED  BY <1>2, <1>3, <1>4, <1>5, <1>6 DEF Next

LEMMA PresenceMoves ==
  ASSUME ReplyInv, UsesInv, ReadersTyped, [Next]_vars, NEW g \in Flows
  PROVE  \/ wfp'[g] # "none" <=> wfp[g] # "none"
         \/ ClassifyAssociate(g)
         \/ wfp'[g] = "none" /\ capture'[g].pc = "idle"
<1>1. /\ wfp \in [Flows -> {"none", "attached", "removing"}]
      /\ \A f \in Flows : FlowSound(f)
      BY DEF UsesInv, UsesTyped
<1>2. CASE Request \/ Lapse \/ UNCHANGED vars \/ \E thread \in Threads : SetEmptyEvent(thread)
      BY <1>2 DEF Request, GrantLease, RevokeLease, Activate, Deactivate, Query, QueueReceive,
             Submit, Lapse, SetEmptyEvent, vars, callbackVars
<1>3. CASE ReplyStep
      BY <1>3 DEF ReplyStep, ReferenceForReply, Drop, ReserveInjection, PacketFails,
              SendReply, SendFails, callbackVars
<1>4. CASE TeardownStep
  <2>1. ASSUME NEW f \in Flows, DrainFlow(f) PROVE wfp'[g] # "none" <=> wfp[g] # "none"
    <3>1. context[f].listed /\ context[f].associated /\ wfp' = [wfp EXCEPT ![f] = "removing"]
          BY <2>1 DEF DrainFlow, Usable
    <3>2. wfp[f] # "none"
          BY <1>1, <3>1 DEF FlowSound, Sound
    <3>3. QED  BY <1>1, <3>1, <3>2
  <2>2. CASE ~\E f \in Flows : DrainFlow(f)
        BY <1>4, <2>2 DEF TeardownStep, Close, Purge, ExchangeLease, Fence, AwaitReaders, Reopen,
              AwaitInjections, SetStopping, DrainEnds, ReadCount, AwaitEmptyEvent,
              Expire, callbackVars
  <2>3. QED  BY <2>1, <2>2
<1>5. ASSUME NEW f \in Flows, ClassifyAdmit(f) \/ ClassifyStep(f)
      PROVE  (wfp'[g] # "none" <=> wfp[g] # "none") \/ ClassifyAssociate(g)
  <2>1. CASE ClassifyAssociate(f)
    <3>1. g # f => wfp'[g] = wfp[g]
          BY <1>1, <2>1 DEF ClassifyAssociate
    <3>2. QED  BY <2>1, <3>1
  <2>2. CASE ClassifyMark(f)
    <3>1. \/ UNCHANGED wfp
          \/ /\ context[f].listed /\ classify[f].pc = "marking"
             /\ wfp' = [wfp EXCEPT ![f] = "removing"]
          BY <2>2 DEF ClassifyMark, AtClassify
    <3>2. wfp[f] # "none" \/ UNCHANGED wfp
          BY <1>1, <3>1 DEF FlowSound, Sound
    <3>3. QED  BY <1>1, <3>1, <3>2
  <2>3. CASE ~ClassifyAssociate(f) /\ ~ClassifyMark(f)
        BY <1>5, <2>3 DEF ClassifyAdmit, ClassifyStep, ClassifyAcquire, ClassifyCheck, ClassifyCount,
             ClassifyClearEvent, ClassifyGiveSlotBack, ClassifyLink,
             ClassifyAssociateFails, ClassifyLeave, ClassifyRelease, callbackVars
  <2>4. QED  BY <2>1, <2>2, <2>3
<1>6. ASSUME NEW f \in Flows, FlowDelete(f)
      PROVE  (wfp'[g] # "none" <=> wfp[g] # "none") \/ (wfp'[g] = "none" /\ capture'[g].pc = "idle")
      BY <1>1, <1>6 DEF FlowDelete, threadVars
<1>7. ASSUME NEW f \in Flows,
             CaptureBegin(f) \/ CaptureStep(f) \/ CompleteInjection(f) \/ FinishInjection(f)
      PROVE  wfp'[g] = wfp[g]
      BY <1>7 DEF CaptureBegin, CaptureStep, CaptureBind, CaptureTake, CaptureGivesUp,
             CompleteInjection, FinishInjection, callbackVars
<1>8. QED  BY <1>2, <1>3, <1>4, <1>5, <1>6, <1>7 DEF Next, ControlStep

(* What WFP has of a flow keeps its context.                               *)
LEMMA PresentIsCounted ==
  ASSUME UsesInv', NEW f \in Flows, wfp'[f] # "none"
  PROVE  context'[f].refs # 0
<1>1. FlowSound(f)'
      BY DEF UsesInv
<1>2. context'[f].refs = Uses(classify'[f].pc, wfp'[f], holding' = f, sending'[f])
      BY <1>1 DEF FlowSound, Sound
<1>3. PICK n \in Nat : sending'[f] = n
      BY DEF UsesInv, UsesTyped
<1>4. /\ One(classify'[f].pc \in CreatingAt) \in {0, 1} /\ One(holding' = f) \in {0, 1}
      /\ One(classify'[f].pc = "associating" \/ wfp'[f] # "none") = 1
      BY DEF One
<1>5. QED  BY <1>2, <1>3, <1>4 DEF Uses

LEMMA NextCapture ==
  ASSUME ReplyInv, UsesInv, ReadersTyped, CaptureInv, ReplyInv', UsesInv', [Next]_vars
  PROVE  CaptureInv'
<1> SUFFICES ASSUME NEW f \in Flows, capture'[f].pc # "idle"
             PROVE  /\ wfp'[f] # "none"
                    /\ capture'[f].lease \in Leases
                    /\ capture'[f].lease.key = context'[f].key
    BY DEF CaptureInv
<1>1. CASE CaptureBegin(f)
  <2>1. /\ wfp[f] = "attached" /\ lease # None /\ lease.key = context[f].key
        /\ capture'[f].lease = lease /\ UNCHANGED <<wfp, context>>
        BY <1>1 DEF CaptureBegin, LeaseLive, callbackVars, contextVars, ReadersTyped
  <2>2. QED  BY <2>1 DEF ReplyInv
<1>2. CASE ~CaptureBegin(f)
  <2>1. capture[f].pc # "idle" /\ capture'[f].lease = capture[f].lease
        BY <1>2, CallsMove DEF CaptureMoves
  <2>2. /\ wfp[f] # "none" /\ capture[f].lease \in Leases
        /\ capture[f].lease.key = context[f].key
        BY <2>1 DEF CaptureInv
  <2>3. FlowSound(f)
        BY DEF UsesInv
  <2>4. classify[f].pc # "associating" /\ classify[f].pc # "reserved"
        BY <2>2, <2>3 DEF FlowSound, Sound, Early
  <2>5. wfp'[f] # "none"
        BY <2>2, <2>4, PresenceMoves DEF ClassifyAssociate, AtClassify
  <2>6. context'[f].refs # 0
        BY <2>5, PresentIsCounted
  <2>7. CASE Fades(f)
        BY <2>1, <2>2, <2>5, <2>6, <2>7 DEF Fades, Fewer
  <2>8. CASE ClassifyMark(f)
    <3>1. context'[f].key = context[f].key
          BY <2>8 DEF ClassifyMark, ReplyInv, OnceRecords, Records
    <3>2. QED  BY <2>1, <2>2, <2>5, <3>1
  <2>9. ~ClassifyLink(f)
        BY <2>4 DEF ClassifyLink, AtClassify
  <2>10. QED  BY <2>7, <2>8, <2>9, ContextFades
<1>3. QED  BY <1>1, <1>2

-----------------------------------------------------------------------------
(* What belongs to the lease goes on to, until the lease is exchanged; and *)
(* what has come to rest behind a closed gate does not begin again.        *)

KeyAt  == {"reading", "reserving", "counted", "full", "reserved"}
LinkAt == {"associating", "marking"}

LEMMA ReaderMoves ==
  ASSUME ReplyInv, UsesInv, ReadersTyped, [Next]_vars, NEW f \in Flows
  PROVE  /\ classify'[f].pc \in ReaderAt => classify[f].pc \in ReaderAt \/ lease # None
         /\ classify'[f].pc \in KeyAt =>
              \/ classify[f].pc \in KeyAt /\ classify'[f].key = classify[f].key
              \/ lease # None /\ classify'[f].key = lease.key
         /\ classify'[f].pc \in LinkAt => classify[f].pc \in LinkAt \/ ClassifyLink(f)
<1>1. CASE classify'[f] = classify[f]
      BY <1>1
<1>2. CASE ClassifyAdmit(f)
  <2>1. classify'[f].pc = "admitted"
        BY <1>2 DEF ClassifyAdmit, Goto, ReplyInv
  <2>2. QED  BY <2>1 DEF ReaderAt, KeyAt, LinkAt
<1>3. CASE ClassifyAcquire(f)
  <2>1. \/ classify'[f].pc = "idle"
        \/ classify'[f] = [pc |-> "reading", key |-> lease.key] /\ lease # None
        BY <1>3 DEF ClassifyAcquire, Goto, ReplyInv, LeaseLive
  <2>2. QED  BY <2>1 DEF ReaderAt, KeyAt, LinkAt
<1>4. CASE ClassifyRelease(f)
  <2>1. classify'[f].pc = "idle"
        BY <1>4 DEF ClassifyRelease, ReplyInv
  <2>2. QED  BY <2>1 DEF ReaderAt, KeyAt, LinkAt
<1>5. CASE ClassifyCheck(f) \/ ClassifyClearEvent(f) \/ ClassifyGiveSlotBack(f)
  <2>1. /\ classify[f].pc \in KeyAt
        /\ classify'[f].pc \in {"releasing", "reserving", "reserved"}
        /\ classify'[f].key = classify[f].key
        BY <1>5 DEF ClassifyCheck, ClassifyClearEvent, ClassifyGiveSlotBack, AtClassify, Goto,
                    KeyAt, ReplyInv
  <2>2. QED  BY <2>1 DEF ReaderAt, KeyAt, LinkAt
<1>6. CASE ClassifyCount(f)
  <2>1. /\ classify[f].pc = "reserving"
        /\ classify'[f].pc = SlotOutcome(slots.count + 1)
        /\ classify'[f].key = classify[f].key
        BY <1>6 DEF ClassifyCount, AtClassify, Goto, ReplyInv
  <2>2. \A c : SlotOutcome(c) \in {"counted", "full", "reserved"}
        BY DEF SlotOutcome
  <2>3. QED  BY <2>1, <2>2 DEF ReaderAt, KeyAt, LinkAt
<1>7. CASE \/ ClassifyLink(f) \/ ClassifyAssociate(f) \/ ClassifyAssociateFails(f)
           \/ ClassifyMark(f) \/ ClassifyLeave(f)
  <2>1. /\ classify[f].pc \in ReaderAt
        /\ classify'[f].pc \in {"leaving", "associating", "marking", "releasing"}
        /\ ClassifyLink(f) \/ classify[f].pc \in LinkAt \/ classify'[f].pc \notin LinkAt
        BY <1>7 DEF ClassifyLink, ClassifyAssociate, ClassifyAssociateFails, ClassifyMark,
                    ClassifyLeave, AtClassify, Goto, ReaderAt, LinkAt, ReplyInv
  <2>2. QED  BY <2>1 DEF KeyAt
<1>8. QED  BY <1>1, <1>2, <1>3, <1>4, <1>5, <1>6, <1>7, CallsMove DEF ClassifyStep

(* What is freed is in no list.                                            *)
LEMMA FreedIsUnlisted ==
  ASSUME UsesInv', NEW f \in Flows, context'[f].refs = 0
  PROVE  ~context'[f].listed
<1>1. FlowSound(f)'
      BY DEF UsesInv
<1>2. context'[f].refs = Uses(classify'[f].pc, wfp'[f], holding' = f, sending'[f])
      /\ (context'[f].listed => classify'[f].pc = "associating" \/ wfp'[f] # "none")
      BY <1>1 DEF FlowSound, Sound
<1>3. PICK n \in Nat : sending'[f] = n
      BY DEF UsesInv, UsesTyped
<1>4. /\ One(classify'[f].pc \in CreatingAt) \in {0, 1} /\ One(holding' = f) \in {0, 1}
      /\ context'[f].listed => One(classify'[f].pc = "associating" \/ wfp'[f] # "none") = 1
      BY <1>2 DEF One
<1>5. SUFFICES ASSUME context'[f].listed PROVE FALSE
      OBVIOUS
<1>6. QED  BY <1>2, <1>3, <1>4, <1>5 DEF Uses

Tied(f) == Usable(f) \/ (classify[f].pc \in LinkAt /\ context[f].listed)

LEMMA MarkEffect ==
  ASSUME ReplyInv, NEW f \in Flows, ClassifyMark(f)
  PROVE  /\ classify[f].pc = "marking" /\ context'[f].key = context[f].key
         /\ context'[f].listed => context[f].listed
         /\ Usable(f)' => Usable(f) \/ ~gate.stopping
<1>1. classify[f].pc = "marking" /\ context[f] \in Records
      BY DEF ClassifyMark, AtClassify, ReplyInv, OnceRecords
<1>2. CASE context[f].listed
  <2> DEFINE marked == [context[f] EXCEPT !.associated = TRUE, !.removal = gate.stopping]
  <2>1. context' = [context EXCEPT ![f].associated = TRUE, ![f].removal = gate.stopping]
        BY <1>2 DEF ClassifyMark
  <2>2. context'[f] = marked
        BY <2>1 DEF ReplyInv
  <2>3. marked.key = context[f].key /\ marked.removal = gate.stopping
        BY <1>1 DEF Records
  <2> HIDE DEF marked
  <2>4. QED  BY <1>1, <1>2, <2>2, <2>3 DEF Usable
<1>3. CASE ~context[f].listed
      BY <1>1, <1>3 DEF ClassifyMark, Usable
<1>4. QED  BY <1>2, <1>3

LEMMA LinkEffect ==
  ASSUME ReplyInv, NEW f \in Flows, ClassifyLink(f)
  PROVE  /\ classify[f].pc = "reserved" /\ context'[f].key = classify[f].key
         /\ ~context'[f].associated
<1> DEFINE fresh == [NoContext EXCEPT !.refs = 1, !.key = classify[f].key]
<1>1. classify[f].pc = "reserved" /\ (context'[f] = fresh \/ context'[f] = Linked(fresh))
      BY DEF ClassifyLink, AtClassify, ReplyInv
<1>2. fresh.key = classify[f].key /\ ~fresh.associated
      BY DEF NoContext
<1>3. Linked(fresh).key = classify[f].key /\ ~Linked(fresh).associated
      BY DEF NoContext, Linked
<1> HIDE DEF fresh
<1>4. QED  BY <1>1, <1>2, <1>3

LEMMA TieMoves ==
  ASSUME ReplyInv, UsesInv, ReadersTyped, UsesInv', [Next]_vars, NEW f \in Flows
  PROVE  /\ Tied(f)' => \/ Tied(f) /\ context'[f].key = context[f].key
                        \/ classify[f].pc = "reserved" /\ context'[f].key = classify[f].key
         /\ Usable(f)' => Usable(f) \/ ~gate.stopping
         /\ Usable(f)' => Usable(f) \/ classify[f].pc = "marking"
<1>1. CASE ClassifyLink(f)
      BY <1>1, LinkEffect DEF Usable
<1>2. CASE ClassifyMark(f)
  <2>1. /\ classify[f].pc \in LinkAt /\ classify[f].pc = "marking"
        /\ context'[f].key = context[f].key
        /\ context'[f].listed => context[f].listed
        /\ Usable(f)' => Usable(f) \/ ~gate.stopping
        BY <1>2, MarkEffect DEF LinkAt
  <2>2. Tied(f)' => context'[f].listed
        BY DEF Tied, Usable
  <2>3. QED  BY <2>1, <2>2 DEF Tied
<1>3. CASE Fades(f) /\ ~ClassifyLink(f)
  <2>1. CASE context'[f].refs = 0
    <3>1. ~context'[f].listed
          BY <2>1, FreedIsUnlisted
    <3>2. QED  BY <3>1 DEF Tied, Usable
  <2>2. CASE Fewer(context'[f], context[f])
    <3>1. Usable(f)' => Usable(f)
          BY <2>2 DEF Fewer, Usable
    <3>2. classify'[f].pc \in LinkAt => classify[f].pc \in LinkAt
          BY <1>3, ReaderMoves
    <3>3. QED  BY <2>2, <3>1, <3>2 DEF Fewer, Tied
  <2>3. QED  BY <1>3, <2>1, <2>2 DEF Fades
<1>4. QED  BY <1>1, <1>2, <1>3, ContextFades

(* The lease stays, but may lapse.                                         *)
Keeps == lease' = lease \/ (lease # None /\ lease' = [lease EXCEPT !.lapsed = TRUE])

LEMMA KeepsIt ==
  ASSUME ReplyInv, Keeps
  PROVE  /\ lease' # None <=> lease # None
         /\ lease # None => lease'.key = lease.key /\ lease'.generation = lease.generation
<1>1. CASE lease' = lease
      BY <1>1
<1>2. CASE lease # None /\ lease' = [lease EXCEPT !.lapsed = TRUE]
  <2>1. lease \in Leases
        BY <1>2 DEF ReplyInv
  <2>2. lease' = [key |-> lease.key, generation |-> lease.generation, lapsed |-> TRUE]
        BY <1>2, <2>1 DEF Leases
  <2>3. lease' # None
    <3>1. lease' \in Leases
          BY <2>1, <2>2 DEF Leases
    <3>2. None \notin Leases
          BY PathAssumption
    <3>3. QED  BY <3>1, <3>2
  <2>4. QED  BY <1>2, <2>2, <2>3
<1>3. QED  BY <1>1, <1>2 DEF Keeps

KeepsKey == /\ lease' # None <=> lease # None
            /\ lease # None => lease'.key = lease.key

LEMMA OwnedStays ==
  ASSUME ReplyInv, UsesInv, ReadersTyped, UsesInv', [Next]_vars, Owned, KeepsKey,
         receive' = receive \/ receive' = None
  PROVE  Owned'
<1> DEFINE Owned2(key) == lease' # None /\ lease'.key = key
<1>1. \A key : Owns(key) => Owned2(key)
      BY DEF KeepsKey, Owns
<1>2. lease # None => lease'.key = lease.key /\ lease' # None
      BY DEF KeepsKey
<1>3. ASSUME NEW f \in Flows PROVE OwnedFlow(f)'
  <2>1. OwnedFlow(f)
        BY DEF Owned
  <2>2. Tied(f)' => \/ Owned2(context[f].key) /\ context'[f].key = context[f].key
                    \/ Owned2(classify[f].key) /\ context'[f].key = classify[f].key
    <3>1. Tied(f) => Owns(context[f].key)
          BY <2>1 DEF OwnedFlow, Tied, LinkAt
    <3>2. classify[f].pc = "reserved" => Owns(classify[f].key)
          BY <2>1 DEF OwnedFlow
    <3>3. QED  BY <1>1, <3>1, <3>2, TieMoves
  <2>3. Tied(f)' => lease' # None /\ lease'.key = context'[f].key
        BY <2>2
  <2>4. classify'[f].pc \in KeyAt => lease' # None /\ lease'.key = classify'[f].key
    <3>1. classify[f].pc \in KeyAt => Owns(classify[f].key)
          BY <2>1 DEF OwnedFlow, KeyAt
    <3>2. QED  BY <1>2, <3>1, ReaderMoves DEF Owns
  <2>5. capture'[f].pc # "idle" => lease' # None /\ lease'.key = capture'[f].lease.key
    <3>1. CASE CaptureBegin(f)
      <4>1. lease # None /\ capture'[f].lease = lease
            BY <3>1 DEF CaptureBegin, LeaseLive, ReadersTyped
      <4>2. QED  BY <1>2, <4>1
    <3>2. CASE capture[f].pc # "idle" /\ capture'[f].lease = capture[f].lease
          BY <1>2, <2>1, <3>2 DEF OwnedFlow, Owns
    <3>3. QED  BY <3>1, <3>2, CallsMove DEF CaptureMoves
  <2>6. QED  BY <2>3, <2>4, <2>5 DEF OwnedFlow, Owns, Tied, LinkAt, KeyAt
<1>4. receive' # None => receive' = receive /\ Owned2(receive)
      BY <1>1 DEF Owned
<1>5. QED  BY <1>3, <1>4 DEF Owned, Owns

LEMMA CurrentStays ==
  ASSUME ReplyInv, UsesInv, ReadersTyped, [Next]_vars, Current, Keeps
  PROVE  Current'
<1> SUFFICES ASSUME NEW f \in Flows, capture'[f].pc # "idle"
             PROVE  lease' # None /\ lease'.generation = capture'[f].lease.generation
    BY DEF Current
<1>1. CASE CaptureBegin(f)
  <2>1. lease # None /\ capture'[f].lease = lease
        BY <1>1 DEF CaptureBegin, LeaseLive, ReadersTyped
  <2>2. QED  BY <2>1, KeepsIt
<1>2. CASE capture[f].pc # "idle" /\ capture'[f].lease = capture[f].lease
      BY <1>2, KeepsIt DEF Current
<1>3. QED  BY <1>1, <1>2, CallsMove DEF CaptureMoves

LEMMA NoCapturingStays ==
  ASSUME ReplyInv, UsesInv, ReadersTyped, [Next]_vars, ~gate.active, NoCapturing
  PROVE  NoCapturing'
BY CallsMove DEF NoCapturing, CaptureMoves, CaptureBegin

LEMMA NoUsableStays ==
  ASSUME ReplyInv, UsesInv, ReadersTyped, UsesInv', [Next]_vars, gate.stopping, NoUsable
  PROVE  NoUsable'
<1>1. \A f \in Flows : Usable(f)' => Usable(f)
      BY TieMoves
<1>2. QED  BY <1>1 DEF NoUsable, Usable

LEMMA NoClassifyingStays ==
  ASSUME ReplyInv, UsesInv, ReadersTyped, [Next]_vars, lease = None, NoClassifying
  PROVE  NoClassifying'
BY ReaderMoves DEF NoClassifying

(* Nothing is injected behind a closed gate.                               *)
LEMMA NoInjectionStays ==
  ASSUME ReplyInv, UsesInv, SumInv, [Next]_vars, ~gate.active, NoInjection
  PROVE  NoInjection'
<1>1. /\ injection.count = injection.open + One(AtSend) /\ injection.count = 0
      /\ injection.open = Cardinality(Numbered(sending)) + Cardinality(Numbered(finishing))
      /\ finishing \in [Flows -> Nat] /\ sending \in [Flows -> Nat]
      BY DEF SumInv, AtSend, NoInjection, UsesInv, UsesTyped
<1>2. PICK a \in Nat : Cardinality(Numbered(sending)) = a
      BY <1>1, NumberedFinite
<1>3. PICK b \in Nat : Cardinality(Numbered(finishing)) = b
      BY <1>1, NumberedFinite
<1>4. One(AtSend) \in {0, 1}
      BY DEF One
<1>5. One(AtSend) = 0 /\ b = 0
      BY <1>1, <1>2, <1>3, <1>4
<1>6. ~AtSend /\ \A f \in Flows : finishing[f] = 0
      BY <1>1, <1>3, <1>5, NoInjectionLeft DEF One
<1>7. UNCHANGED injection
  <2>1. CASE Request \/ Lapse \/ UNCHANGED vars \/ \E thread \in Threads : SetEmptyEvent(thread)
        BY <2>1 DEF Request, GrantLease, RevokeLease, Activate, Deactivate, Query, QueueReceive,
             Submit, Lapse, SetEmptyEvent, vars
  <2>2. CASE TeardownStep
        BY <2>2 DEF TeardownStep, Close, Purge, ExchangeLease, Fence, AwaitReaders, Reopen,
              AwaitInjections, SetStopping, DrainFlow, DrainEnds, ReadCount, AwaitEmptyEvent,
              Expire
  <2>3. CASE ReplyStep
        BY <1>6, <2>3 DEF ReplyStep, ReferenceForReply, Drop, ReserveInjection, PacketFails,
              SendReply, SendFails, AtStep, AtSend
  <2>4. ASSUME NEW f \in Flows, ClassifyAdmit(f) \/ ClassifyStep(f) PROVE UNCHANGED injection
        BY <2>4 DEF ClassifyAdmit, ClassifyStep, ClassifyAcquire, ClassifyCheck, ClassifyCount,
             ClassifyClearEvent, ClassifyGiveSlotBack, ClassifyLink, ClassifyAssociate,
             ClassifyAssociateFails, ClassifyMark, ClassifyLeave, ClassifyRelease
  <2>5. ASSUME NEW f \in Flows,
               CaptureBegin(f) \/ CaptureStep(f) \/ FlowDelete(f) \/ CompleteInjection(f)
        PROVE  UNCHANGED injection
        BY <2>5 DEF CaptureBegin, CaptureStep, CaptureBind, CaptureTake, CaptureGivesUp,
             FlowDelete, CompleteInjection
  <2>6. \A f \in Flows : ~FinishInjection(f)
    <3>1. \A f \in Flows : ~(finishing[f] > 0)
          BY <1>6
    <3>2. QED  BY <3>1 DEF FinishInjection
  <2>7. QED  BY <2>1, <2>2, <2>3, <2>4, <2>5, <2>6 DEF Next, ControlStep
<1>8. QED  BY <1>7 DEF NoInjection

(* What the steps of a request count on.                                   *)
CallInv == /\ ReplyInv /\ GateTyped /\ UsesInv
           /\ ReadersTyped /\ HoldersInv /\ SumInv /\ CaptureInv

LEMMA Stays ==
  ASSUME CallInv, CallInv', [Next]_vars
  PROVE  /\ KeepsKey /\ (receive' = receive \/ receive' = None) /\ Owned => Owned'
         /\ Keeps => KeepsKey
         /\ Keeps /\ Current => Current'
         /\ ~gate.active /\ NoCapturing => NoCapturing'
         /\ ~gate.active /\ NoInjection => NoInjection'
         /\ gate.stopping /\ NoUsable => NoUsable'
         /\ lease = None /\ NoClassifying => NoClassifying'
<1>1. ReplyInv /\ UsesInv /\ ReadersTyped /\ SumInv /\ UsesInv'
      BY DEF CallInv
<1>2. KeepsKey /\ (receive' = receive \/ receive' = None) /\ Owned => Owned'
      BY <1>1, OwnedStays
<1>3. Keeps => KeepsKey
      BY <1>1, KeepsIt DEF KeepsKey
<1>4. Keeps /\ Current => Current'
      BY <1>1, CurrentStays
<1>5. /\ ~gate.active /\ NoCapturing => NoCapturing'
      /\ ~gate.active /\ NoInjection => NoInjection'
      BY <1>1, NoCapturingStays, NoInjectionStays
<1>6. /\ gate.stopping /\ NoUsable => NoUsable'
      /\ lease = None /\ NoClassifying => NoClassifying'
      BY <1>1, NoUsableStays, NoClassifyingStays
<1>7. QED  BY <1>2, <1>3, <1>4, <1>5, <1>6

-----------------------------------------------------------------------------
(* The steps of the requests, one by one.                                  *)

LEMMA RenewSteps ==
  /\ Len(RenewLease) = 5
  /\ RenewLease[1].step = "swap" /\ RenewLease[2].step = "fence"
  /\ RenewLease[3].step = "readers" /\ RenewLease[4].step = "reopen"
  /\ RenewLease[5].step = "expire"
BY DEF RenewLease, Steps

LEMMA NamesOfSteps ==
  ASSUME NEW names \in Seq(PlainNames)
  PROVE  /\ Len(Steps(names)) = Len(names)
         /\ \A i \in 1 .. Len(names) : Steps(names)[i].step = names[i]
BY DEF Steps

LEMMA JoinedNames ==
  ASSUME NEW s \in Seq(PlainNames), NEW t \in Seq(PlainNames)
  PROVE  /\ s \o t \in Seq(PlainNames) /\ Len(s \o t) = Len(s) + Len(t)
         /\ \A i \in 1 .. Len(s) : (s \o t)[i] = s[i]
         /\ \A i \in 1 .. Len(t) : (s \o t)[Len(s) + i] = t[i]
OBVIOUS

LEMMA DrainNames ==
  /\ Drain \in Seq(PlainNames) /\ Len(Drain) = 3
  /\ Drain[1] = "stop" /\ Drain[2] = "drain" /\ Drain[3] = "flows"
BY DEF Drain, PlainNames

LEMMA ReleaseSteps ==
  /\ Len(ReleaseLease) = 10
  /\ ReleaseLease[1].step = "close" /\ ReleaseLease[2].step = "purge"
  /\ ReleaseLease[3].step = "detach" /\ ReleaseLease[4].step = "fence"
  /\ ReleaseLease[5].step = "readers" /\ ReleaseLease[6].step = "reopen"
  /\ ReleaseLease[7].step = "injections" /\ ReleaseLease[8].step = "stop"
  /\ ReleaseLease[9].step = "drain" /\ ReleaseLease[10].step = "flows"
<1> DEFINE first == <<"close", "purge", "detach", "fence", "readers", "reopen", "injections">>
           all == first \o Drain
<1>1. /\ first \in Seq(PlainNames) /\ Len(first) = 7
      /\ first[1] = "close" /\ first[2] = "purge" /\ first[3] = "detach"
      /\ first[4] = "fence" /\ first[5] = "readers" /\ first[6] = "reopen"
      /\ first[7] = "injections"
      BY DEF PlainNames
<1> HIDE DEF first
<1>2. /\ all \in Seq(PlainNames) /\ Len(all) = 10
      /\ \A i \in 1 .. 7 : all[i] = first[i]
      /\ \A i \in 1 .. 3 : all[7 + i] = Drain[i]
  <2>1. first \in Seq(PlainNames) /\ Drain \in Seq(PlainNames)
        BY <1>1, DrainNames
  <2>2. /\ all \in Seq(PlainNames) /\ Len(all) = Len(first) + Len(Drain)
        /\ \A i \in 1 .. Len(first) : all[i] = first[i]
        /\ \A i \in 1 .. Len(Drain) : all[Len(first) + i] = Drain[i]
        BY <2>1, JoinedNames
  <2> HIDE DEF all
  <2>3. QED  BY <2>2, <1>1, DrainNames
<1> HIDE DEF all
<1>3. /\ all[1] = "close" /\ all[2] = "purge" /\ all[3] = "detach"
      /\ all[4] = "fence" /\ all[5] = "readers" /\ all[6] = "reopen"
      /\ all[7] = "injections" /\ all[8] = "stop" /\ all[9] = "drain"
      /\ all[10] = "flows"
      BY <1>1, <1>2, DrainNames
<1>4. ReleaseLease = Steps(all)
      BY DEF ReleaseLease, all, first
<1>5. QED  BY <1>2, <1>3, <1>4, NamesOfSteps

LEMMA ReplaceSteps ==
  /\ Len(ReplaceLease) = 12
  /\ ReplaceLease[1].step = "close" /\ ReplaceLease[2].step = "purge"
  /\ ReplaceLease[3].step = "injections" /\ ReplaceLease[4].step = "stop"
  /\ ReplaceLease[5].step = "drain" /\ ReplaceLease[6].step = "flows"
  /\ ReplaceLease[7].step = "swap" /\ ReplaceLease[8].step = "fence"
  /\ ReplaceLease[9].step = "readers" /\ ReplaceLease[10].step = "reopen"
  /\ ReplaceLease[11].step = "resume" /\ ReplaceLease[12].step = "expire"
<1> DEFINE first == <<"close", "purge", "injections">>
           last == <<"swap", "fence", "readers", "reopen", "resume", "expire">>
           front == first \o Drain
           all == front \o last
<1>1. /\ first \in Seq(PlainNames) /\ Len(first) = 3
      /\ first[1] = "close" /\ first[2] = "purge" /\ first[3] = "injections"
      BY DEF PlainNames
<1>2. /\ last \in Seq(PlainNames) /\ Len(last) = 6
      /\ last[1] = "swap" /\ last[2] = "fence" /\ last[3] = "readers"
      /\ last[4] = "reopen" /\ last[5] = "resume" /\ last[6] = "expire"
      BY DEF PlainNames
<1> HIDE DEF first, last
<1>3. /\ front \in Seq(PlainNames) /\ Len(front) = 6
      /\ \A i \in 1 .. 3 : front[i] = first[i]
      /\ \A i \in 1 .. 3 : front[3 + i] = Drain[i]
  <2>1. first \in Seq(PlainNames) /\ Drain \in Seq(PlainNames)
        BY <1>1, DrainNames
  <2>2. /\ front \in Seq(PlainNames) /\ Len(front) = Len(first) + Len(Drain)
        /\ \A i \in 1 .. Len(first) : front[i] = first[i]
        /\ \A i \in 1 .. Len(Drain) : front[Len(first) + i] = Drain[i]
        BY <2>1, JoinedNames
  <2> HIDE DEF front
  <2>3. QED  BY <2>2, <1>1, DrainNames
<1> HIDE DEF front
<1>4. /\ all \in Seq(PlainNames) /\ Len(all) = 12
      /\ \A i \in 1 .. 6 : all[i] = front[i]
      /\ \A i \in 1 .. 6 : all[6 + i] = last[i]
  <2>1. front \in Seq(PlainNames) /\ last \in Seq(PlainNames)
        BY <1>2, <1>3
  <2>2. /\ all \in Seq(PlainNames) /\ Len(all) = Len(front) + Len(last)
        /\ \A i \in 1 .. Len(front) : all[i] = front[i]
        /\ \A i \in 1 .. Len(last) : all[Len(front) + i] = last[i]
        BY <2>1, JoinedNames
  <2> HIDE DEF all
  <2>3. QED  BY <2>2, <1>2, <1>3
<1> HIDE DEF all
<1>5. /\ all[1] = "close" /\ all[2] = "purge" /\ all[3] = "injections"
      /\ all[4] = "stop" /\ all[5] = "drain" /\ all[6] = "flows"
      /\ all[7] = "swap" /\ all[8] = "fence" /\ all[9] = "readers"
      /\ all[10] = "reopen" /\ all[11] = "resume" /\ all[12] = "expire"
      BY <1>1, <1>2, <1>3, <1>4, DrainNames
<1>6. ReplaceLease = Steps(all)
      BY DEF ReplaceLease, all, front, first, last
<1>7. QED  BY <1>4, <1>5, <1>6, NamesOfSteps

LEMMA DeactivateSteps ==
  /\ Len(DeactivatePath) = 10
  /\ DeactivatePath[1].step = "close" /\ DeactivatePath[2].step = "fence"
  /\ DeactivatePath[3].step = "readers" /\ DeactivatePath[4].step = "purge"
  /\ DeactivatePath[5].step = "injections" /\ DeactivatePath[6].step = "stop"
  /\ DeactivatePath[7].step = "drain" /\ DeactivatePath[8].step = "flows"
  /\ DeactivatePath[9].step = "reopen" /\ DeactivatePath[10].step = "expire"
<1> DEFINE first == <<"close", "fence", "readers", "purge", "injections">>
           last == <<"reopen", "expire">>
           front == first \o Drain
           all == front \o last
<1>1. /\ first \in Seq(PlainNames) /\ Len(first) = 5
      /\ first[1] = "close" /\ first[2] = "fence" /\ first[3] = "readers"
      /\ first[4] = "purge" /\ first[5] = "injections"
      BY DEF PlainNames
<1>2. /\ last \in Seq(PlainNames) /\ Len(last) = 2
      /\ last[1] = "reopen" /\ last[2] = "expire"
      BY DEF PlainNames
<1> HIDE DEF first, last
<1>3. /\ front \in Seq(PlainNames) /\ Len(front) = 8
      /\ \A i \in 1 .. 5 : front[i] = first[i]
      /\ \A i \in 1 .. 3 : front[5 + i] = Drain[i]
  <2>1. first \in Seq(PlainNames) /\ Drain \in Seq(PlainNames)
        BY <1>1, DrainNames
  <2>2. /\ front \in Seq(PlainNames) /\ Len(front) = Len(first) + Len(Drain)
        /\ \A i \in 1 .. Len(first) : front[i] = first[i]
        /\ \A i \in 1 .. Len(Drain) : front[Len(first) + i] = Drain[i]
        BY <2>1, JoinedNames
  <2> HIDE DEF front
  <2>3. QED  BY <2>2, <1>1, DrainNames
<1> HIDE DEF front
<1>4. /\ all \in Seq(PlainNames) /\ Len(all) = 10
      /\ \A i \in 1 .. 8 : all[i] = front[i]
      /\ \A i \in 1 .. 2 : all[8 + i] = last[i]
  <2>1. front \in Seq(PlainNames) /\ last \in Seq(PlainNames)
        BY <1>2, <1>3
  <2>2. /\ all \in Seq(PlainNames) /\ Len(all) = Len(front) + Len(last)
        /\ \A i \in 1 .. Len(front) : all[i] = front[i]
        /\ \A i \in 1 .. Len(last) : all[Len(front) + i] = last[i]
        BY <2>1, JoinedNames
  <2> HIDE DEF all
  <2>3. QED  BY <2>2, <1>2, <1>3
<1> HIDE DEF all
<1>5. /\ all[1] = "close" /\ all[2] = "fence" /\ all[3] = "readers"
      /\ all[4] = "purge" /\ all[5] = "injections" /\ all[6] = "stop"
      /\ all[7] = "drain" /\ all[8] = "flows" /\ all[9] = "reopen"
      /\ all[10] = "expire"
      BY <1>1, <1>2, <1>3, <1>4, DrainNames
<1>6. DeactivatePath = Steps(all)
      BY DEF DeactivatePath, all, front, first, last
<1>7. QED  BY <1>4, <1>5, <1>6, NamesOfSteps

Waits == todo' = Steps(<<"await">>) \o Tail(todo)

LEMMA AwaitFirst ==
  ASSUME NEW q \in Seq(StepRecords)
  PROVE  /\ Steps(<<"await">>) \o q # << >>
         /\ Head(Steps(<<"await">>) \o q).step = "await"
         /\ Tail(Steps(<<"await">>) \o q) = q
<1> DEFINE await == [step |-> "await", flow |-> None, number |-> 0]
<1>1. Steps(<<"await">>) = <<await>> /\ await \in StepRecords /\ await.step = "await"
      BY DEF Steps, StepRecords, PlainNames, ReplyNames
<1> HIDE DEF await
<1>2. <<await>> \o q # << >> /\ Head(<<await>> \o q) = await
      BY <1>1
<1>3. Tail(<<await>> \o q) = q
      BY <1>1
<1>4. QED  BY <1>1, <1>2, <1>3

(* A request goes on with its next step, or has still to wait for the event. *)
LEMMA PlanStep ==
  ASSUME NEW q \in Seq(StepRecords), NEW n \in 1 .. Len(q) + 1, On(q, n), todo # << >>
  PROVE  \/ Head(todo).step = "await" /\ (Advanced => On(q, n)')
         \/ /\ n <= Len(q) /\ Head(todo).step = q[n].step
            /\ Advanced \/ Waits => On(q, n + 1)'
            /\ Advanced => todo' = SubSeq(q, n + 1, Len(q))
<1> DEFINE rest == SubSeq(q, n, Len(q))
<1>1. n \in Int /\ Len(q) \in Nat /\ n >= 1
      OBVIOUS
<1>2. CASE todo = Steps(<<"await">>) \o rest
  <2>1. rest \in Seq(StepRecords)
    <3>1. \A i \in n .. Len(q) : q[i] \in StepRecords
          BY <1>1
    <3>2. QED  BY <1>1, <3>1, SubSeqProperties
  <2> HIDE DEF rest
  <2>2. Head(todo).step = "await" /\ Tail(todo) = rest
        BY <1>2, <2>1, AwaitFirst
  <2>3. QED  BY <2>2 DEF On, Advanced, rest
<1>3. CASE todo = rest
  <2>1. n <= Len(q)
    <3>1. SUFFICES ASSUME Len(q) < n PROVE FALSE
          BY <1>1
    <3>2. QED  BY <1>1, <1>3, <3>1, SubSeqEmpty
  <2>2. n \in 1 .. Len(q) /\ Len(q) \in n .. Len(q)
        BY <1>1, <2>1
  <2>3. Head(rest) = q[n] /\ Tail(rest) = SubSeq(q, n + 1, Len(q))
        BY <2>2, HeadTailOfSubSeq
  <2>4. /\ Advanced \/ Waits => On(q, n + 1)'
        /\ Advanced => todo' = SubSeq(q, n + 1, Len(q))
        BY <1>3, <2>3 DEF Advanced, Waits, On
  <2>5. QED  BY <1>3, <2>1, <2>3, <2>4
<1>4. QED  BY <1>2, <1>3 DEF On

LEMMA PlanEnds ==
  ASSUME NEW q \in Seq(StepRecords), NEW n \in 1 .. Len(q) + 1, On(q, n), todo = << >>
  PROVE  n = Len(q) + 1
<1> DEFINE rest == SubSeq(q, n, Len(q))
<1>1. n \in Int /\ Len(q) \in Nat /\ n >= 1 /\ \A i \in n .. Len(q) : q[i] \in StepRecords
      OBVIOUS
<1>2. rest \in Seq(StepRecords) /\ Len(rest) = IF n <= Len(q) THEN Len(q) - n + 1 ELSE 0
      BY <1>1, SubSeqProperties
<1>3. todo = rest
  <2> HIDE DEF rest
  <2>1. Steps(<<"await">>) \o rest # << >>
        BY <1>2, AwaitFirst
  <2>2. QED  BY <2>1 DEF On, rest
<1>4. Len(rest) = 0
  <2>1. rest = << >>
        BY <1>3
  <2> HIDE DEF rest
  <2>2. QED  BY <2>1
<1>5. ~(n <= Len(q))
      BY <1>1, <1>2, <1>4
<1>6. QED  BY <1>1, <1>5

LEMMA PlanBegins ==
  ASSUME NEW q \in Seq(StepRecords), todo' = q
  PROVE  On(q, 1)'
BY SubSeqFull DEF On

LEMMA LastStep ==
  ASSUME NEW q \in Seq(StepRecords), NEW n \in 1 .. Len(q), n = Len(q),
         todo' = SubSeq(q, n, Len(q))
  PROVE  \A i \in 1 .. Len(todo') : todo'[i].step = q[n].step
<1>1. n \in Int /\ q[n] \in StepRecords
      OBVIOUS
<1>2. \A i \in n .. n : q[i] \in StepRecords
      BY <1>1
<1>3. /\ Len(SubSeq(q, n, n)) = IF n <= n THEN n - n + 1 ELSE 0
      /\ \A i \in 1 .. n - n + 1 : SubSeq(q, n, n)[i] = q[n + i - 1]
      BY <1>1, <1>2, SubSeqProperties
<1>4. Len(todo') = 1 /\ todo'[1] = q[n]
      BY <1>1, <1>3
<1>5. QED  BY <1>4

LEMMA PlanStays ==
  ASSUME NEW q, NEW n, On(q, n), UNCHANGED todo
  PROVE  On(q, n)'
BY DEF On

(* The step at the head of the request is the one that is taken.           *)
LEMMA ControlNames ==
  ASSUME ControlStep
  PROVE  /\ todo # << >>
         /\ Head(todo).step = "close" => Close
         /\ Head(todo).step = "purge" => Purge
         /\ Head(todo).step \in {"detach", "swap"} => ExchangeLease
         /\ Head(todo).step = "fence" => Fence
         /\ Head(todo).step = "readers" => AwaitReaders
         /\ Head(todo).step = "reopen" => Reopen
         /\ Head(todo).step = "injections" => AwaitInjections
         /\ Head(todo).step = "stop" => SetStopping("stop", TRUE)
         /\ Head(todo).step = "resume" => SetStopping("resume", FALSE)
         /\ Head(todo).step = "drain" => DrainEnds \/ \E f \in Flows : DrainFlow(f)
         /\ Head(todo).step = "flows" => ReadCount
         /\ Head(todo).step = "await" => AwaitEmptyEvent
         /\ Head(todo).step = "expire" => Expire
         /\ Head(todo).step \in ReplyNames => ReplyStep
<1> DEFINE name == Head(todo).step
<1>1. /\ Close => todo # << >> /\ name = "close"
      /\ Purge => todo # << >> /\ name = "purge"
      /\ ExchangeLease => todo # << >> /\ name \in {"detach", "swap"}
      /\ Fence => todo # << >> /\ name = "fence"
      /\ AwaitReaders => todo # << >> /\ name = "readers"
      /\ Reopen => todo # << >> /\ name = "reopen"
      BY DEF AtStep, Close, Purge, ExchangeLease, Fence, AwaitReaders, Reopen
<1>2. /\ AwaitInjections => todo # << >> /\ name = "injections"
      /\ SetStopping("stop", TRUE) => todo # << >> /\ name = "stop"
      /\ SetStopping("resume", FALSE) => todo # << >> /\ name = "resume"
      /\ DrainEnds => todo # << >> /\ name = "drain"
      /\ \A f \in Flows : DrainFlow(f) => todo # << >> /\ name = "drain"
      /\ ReadCount => todo # << >> /\ name = "flows"
      /\ AwaitEmptyEvent => todo # << >> /\ name = "await"
      /\ Expire => todo # << >> /\ name = "expire"
      BY DEF AtStep, AwaitInjections, SetStopping, DrainEnds, DrainFlow, ReadCount,
             AwaitEmptyEvent, Expire
<1>3. ReplyStep => todo # << >> /\ name \in ReplyNames
      BY DEF AtStep, ReplyStep, ReferenceForReply, Drop, ReserveInjection, PacketFails,
             SendReply, SendFails, ReplyNames
<1> HIDE DEF name
<1>4. TeardownStep => name \notin ReplyNames
      BY <1>1, <1>2 DEF TeardownStep, ReplyNames
<1>5. CASE ReplyStep
      BY <1>3, <1>5 DEF ReplyNames, name
<1>6. CASE TeardownStep
      BY <1>1, <1>2, <1>4, <1>6 DEF TeardownStep, name
<1>7. QED  BY <1>5, <1>6 DEF ControlStep

(* The call count of the rundown is 0 when nobody reads a lease.           *)
LEMMA NobodyReads ==
  ASSUME HoldersInv, rundown.holders = 0
  PROVE  NoClassifying /\ NoCapturing
<1>1. IsFiniteSet(Classifying) /\ IsFiniteSet(Capturing)
  <2>1. Classifying \subseteq Flows /\ Capturing \subseteq Flows
        BY DEF Classifying, Capturing
  <2>2. QED  BY <2>1, PathAssumption, FS_Subset
<1>2. PICK a \in Nat : Cardinality(Classifying) = a
      BY <1>1, FS_CardinalityType
<1>3. PICK b \in Nat : Cardinality(Capturing) = b
      BY <1>1, FS_CardinalityType
<1>4. a = 0 /\ b = 0
      BY <1>2, <1>3 DEF HoldersInv
<1>5. Classifying = {} /\ Capturing = {}
      BY <1>1, <1>2, <1>3, <1>4, FS_EmptySet
<1>6. QED  BY <1>5 DEF Classifying, Capturing, NoClassifying, NoCapturing

-----------------------------------------------------------------------------
(* What the steps of a teardown do.                                        *)

QuietNames == {"purge", "fence", "readers", "reopen", "injections", "drain", "flows", "await"}

Kept == UNCHANGED <<gate, lease, incoming>> /\ (receive' = receive \/ receive' = None)

LEMMA QuietEffects ==
  ASSUME CallInv, ControlStep, Head(todo).step \in QuietNames
  PROVE  /\ Kept
         /\ \/ Advanced
            \/ Head(todo).step = "flows" /\ Waits
            \/ Head(todo).step = "drain" /\ UNCHANGED todo
         /\ Head(todo).step = "purge" => receive' = None
         /\ Head(todo).step = "readers" => NoClassifying' /\ NoCapturing'
         /\ Head(todo).step = "injections" => NoInjection'
         /\ Head(todo).step = "drain" => UNCHANGED todo \/ (Advanced /\ NoUsable')
<1>1. CASE Head(todo).step = "purge"
  <2>1. Purge
        BY <1>1, ControlNames
  <2>2. QED  BY <1>1, <2>1 DEF Purge, Kept
<1>2. CASE Head(todo).step = "readers"
  <2>1. AwaitReaders
        BY <1>2, ControlNames
  <2>2. NoClassifying /\ NoCapturing
        BY <2>1, NobodyReads DEF AwaitReaders, CallInv
  <2>3. NoClassifying' /\ NoCapturing'
        BY <2>1, <2>2 DEF AwaitReaders, threadVars, NoClassifying, NoCapturing
  <2>4. QED  BY <1>2, <2>1, <2>3 DEF AwaitReaders, Kept, leaseVars
<1>3. CASE Head(todo).step = "injections"
  <2>1. AwaitInjections
        BY <1>3, ControlNames
  <2>2. QED  BY <1>3, <2>1 DEF AwaitInjections, NoInjection, Kept, leaseVars
<1>4. CASE Head(todo).step = "drain"
  <2>1. DrainEnds \/ \E f \in Flows : DrainFlow(f)
        BY <1>4, ControlNames
  <2>2. CASE DrainEnds
    <3>1. NoUsable'
          BY <2>2 DEF DrainEnds, NoUsable, Usable, contextVars
    <3>2. QED  BY <1>4, <2>2, <3>1 DEF DrainEnds, Kept, leaseVars
  <2>3. CASE \E f \in Flows : DrainFlow(f)
        BY <1>4, <2>3 DEF DrainFlow, Kept, leaseVars
  <2>4. QED  BY <2>1, <2>2, <2>3
<1>5. CASE Head(todo).step = "flows"
  <2>1. ReadCount
        BY <1>5, ControlNames
  <2>2. QED  BY <1>5, <2>1 DEF ReadCount, Kept, leaseVars, Advanced, Waits
<1>6. CASE Head(todo).step \in {"fence", "reopen", "await"}
  <2>1. Fence \/ Reopen \/ AwaitEmptyEvent
        BY <1>6, ControlNames
  <2>2. QED  BY <1>6, <2>1 DEF Fence, Reopen, AwaitEmptyEvent, Kept, leaseVars
<1>7. QED  BY <1>1, <1>2, <1>3, <1>4, <1>5, <1>6 DEF QuietNames

LEMMA GateEffects ==
  ASSUME CallInv, ControlStep, Head(todo).step \in {"close", "stop", "resume"}
  PROVE  /\ Advanced /\ UNCHANGED <<lease, incoming, receive>>
         /\ gate'.active => gate.active /\ Head(todo).step # "close"
         /\ Head(todo).step = "close" => gate'.stopping = gate.stopping
         /\ Head(todo).step = "stop" => gate'.stopping
<1>1. gate \in [active : BOOLEAN, stopping : BOOLEAN]
      BY DEF CallInv, GateTyped
<1>2. CASE Head(todo).step = "close"
  <2>1. Close
        BY <1>2, ControlNames
  <2>2. QED  BY <1>1, <1>2, <2>1 DEF Close
<1>3. CASE Head(todo).step = "stop"
  <2>1. SetStopping("stop", TRUE)
        BY <1>3, ControlNames
  <2>2. QED  BY <1>1, <1>3, <2>1 DEF SetStopping
<1>4. CASE Head(todo).step = "resume"
  <2>1. SetStopping("resume", FALSE)
        BY <1>4, ControlNames
  <2>2. QED  BY <1>1, <1>4, <2>1 DEF SetStopping
<1>5. QED  BY <1>2, <1>3, <1>4

LEMMA ExchangeEffects ==
  ASSUME ControlStep, Head(todo).step \in {"detach", "swap"}
  PROVE  /\ Advanced /\ UNCHANGED <<gate, receive, context, classify, capture, injection>>
         /\ lease' = IF Head(todo).step = "swap" THEN incoming ELSE None
<1>1. ExchangeLease
      BY ControlNames
<1>2. QED  BY <1>1 DEF ExchangeLease, AtStep, contextVars, threadVars

LEMMA KeptKeeps == Kept => Keeps /\ UNCHANGED gate
BY DEF Kept, Keeps

LEMMA NextOfControl == ControlStep => [Next]_vars
BY DEF Next

-----------------------------------------------------------------------------
(* The phases of a request go on while other threads take their steps.     *)

LEMMA RestStays ==
  ASSUME CallInv, CallInv', [Next]_vars, Keeps, UNCHANGED gate,
         receive' = receive \/ receive' = None
  PROVE  /\ Owned /\ Current => Owned' /\ Current'
         /\ (~gate.active => NoCapturing /\ NoInjection)
              => (~gate'.active => NoCapturing' /\ NoInjection')
BY Stays

LEMMA RenewedStays ==
  ASSUME CallInv, CallInv', [Next]_vars, Keeps, UNCHANGED <<gate, incoming>>,
         receive' = receive \/ receive' = None, NEW n \in Int, RenewedBy(n)
  PROVE  RenewedBy(n)'
<1>1. KeepsKey /\ Owned'
      BY Stays DEF RenewedBy
<1>2. n = 1 \/ n = 4 => Current'
      BY Stays DEF RenewedBy
<1>3. ~gate'.active => NoCapturing' /\ NoInjection'
      BY Stays DEF RenewedBy
<1>4. n = 1 => lease' # None /\ incoming' # None /\ lease'.key = incoming'.key
      BY <1>1 DEF RenewedBy, KeepsKey
<1>5. QED  BY <1>1, <1>2, <1>3, <1>4 DEF RenewedBy

LEMMA ReleasedStays ==
  ASSUME CallInv, CallInv', [Next]_vars, Keeps, UNCHANGED gate,
         receive' = receive \/ receive' = None, NEW n \in Int, ReleasedBy(n)
  PROVE  ReleasedBy(n)'
<1>1. /\ n > 1 => ~gate.active /\ ~gate'.active
      /\ n > 2 => receive' = None
      /\ n > 8 => gate.stopping /\ gate'.stopping
      BY DEF ReleasedBy
<1>2. IF n > 3 THEN lease' = None /\ lease = None ELSE Owned' /\ Current'
      BY Stays DEF ReleasedBy, KeepsKey
<1>3. n > 5 => NoClassifying' /\ NoCapturing'
      BY <1>1, <1>2, Stays DEF ReleasedBy
<1>4. n > 7 => NoInjection'
      BY <1>1, Stays DEF ReleasedBy
<1>5. n > 9 => NoUsable'
      BY <1>1, Stays DEF ReleasedBy
<1>6. QED  BY <1>1, <1>2, <1>3, <1>4, <1>5 DEF ReleasedBy

LEMMA ReplacedStays ==
  ASSUME CallInv, CallInv', [Next]_vars, Keeps, UNCHANGED gate,
         receive' = receive \/ receive' = None, NEW n \in Int, ReplacedBy(n)
  PROVE  ReplacedBy(n)'
<1>1. /\ n > 1 => ~gate.active /\ ~gate'.active
      /\ n > 2 => receive' = None
      /\ n > 4 => gate.stopping /\ gate'.stopping
      BY DEF ReplacedBy
<1>2. /\ n < 8 \/ n > 9 => Owned'
      /\ n < 8 => Current'
      BY Stays DEF ReplacedBy
<1>3. n > 3 => NoInjection'
      BY <1>1, Stays DEF ReplacedBy
<1>4. n \in 6 .. 9 => NoUsable'
      BY <1>1, Stays DEF ReplacedBy
<1>5. n > 9 => NoCapturing'
      BY <1>1, Stays DEF ReplacedBy
<1>6. QED  BY <1>1, <1>2, <1>3, <1>4, <1>5 DEF ReplacedBy

LEMMA DeactivatedStays ==
  ASSUME CallInv, CallInv', [Next]_vars, Keeps, UNCHANGED gate,
         receive' = receive \/ receive' = None, NEW n \in Int, DeactivatedBy(n)
  PROVE  DeactivatedBy(n)'
<1>1. n > 1 => ~gate.active /\ ~gate'.active
      BY DEF DeactivatedBy
<1>2. Owned' /\ Current'
      BY Stays DEF DeactivatedBy
<1>3. n > 3 => NoCapturing'
      BY <1>1, Stays DEF DeactivatedBy
<1>4. n > 5 => NoInjection'
      BY <1>1, Stays DEF DeactivatedBy
<1>5. QED  BY <1>1, <1>2, <1>3, <1>4 DEF DeactivatedBy

-----------------------------------------------------------------------------
(* The control thread goes through a release, step by step.                *)

GateHeld == gate.active => lease # None

LEMMA NothingIsOwned ==
  ASSUME NoUsable', NoClassifying', NoCapturing', receive' = None
  PROVE  Owned'
<1>1. \A f \in Flows : OwnedFlow(f)'
  <2>1. \A f \in Flows : /\ ~Usable(f)' /\ classify'[f].pc \notin ReaderAt
                         /\ capture'[f].pc = "idle"
        BY DEF NoUsable, NoClassifying, NoCapturing
  <2>2. QED  BY <2>1 DEF OwnedFlow, ReaderAt
<1>2. QED  BY <1>1 DEF Owned

LEMMA NothingIsOld ==
  ASSUME NoCapturing'
  PROVE  Current'
BY DEF NoCapturing, Current

LEMMA ReleasingStep ==
  ASSUME CallInv, CallInv', ControlStep, GateHeld,
         NEW n \in 1 .. 11, On(ReleaseLease, n), ReleasedBy(n)
  PROVE  Releasing' /\ GateHeld'
<1> DEFINE Reaches(m) == On(ReleaseLease, m)' /\ ReleasedBy(m)' /\ GateHeld'
<1>1. /\ [Next]_vars /\ todo # << >>
      /\ ReleaseLease \in Seq(StepRecords) /\ n \in 1 .. Len(ReleaseLease) + 1 /\ n \in Int
      BY NextOfControl, ControlNames, RequestSteps, ReleaseSteps
<1>2. \/ Head(todo).step = "await" /\ (Advanced => On(ReleaseLease, n)')
      \/ /\ n <= Len(ReleaseLease) /\ Head(todo).step = ReleaseLease[n].step
         /\ Advanced \/ Waits => On(ReleaseLease, n + 1)'
      BY <1>1, PlanStep
<1>3. Kept => ReleasedBy(n)' /\ GateHeld'
      BY <1>1, KeptKeeps, ReleasedStays DEF Kept, GateHeld
<1>4. UNCHANGED todo => On(ReleaseLease, n)'
      BY PlanStays
<1>5. CASE Head(todo).step = "await"
  <2>1. Kept /\ Advanced
        BY <1>5, QuietEffects DEF QuietNames
  <2>2. On(ReleaseLease, n)'
        BY <1>2, <1>5, <2>1, ReleaseSteps
  <2>3. Reaches(n)
        BY <1>3, <2>1, <2>2
  <2>4. QED  BY <2>3 DEF Releasing
<1>6. CASE Head(todo).step # "await"
  <2>1. /\ n \in 1 .. 10 /\ Head(todo).step = ReleaseLease[n].step
        /\ Advanced \/ Waits => On(ReleaseLease, n + 1)'
        BY <1>2, <1>6, ReleaseSteps
  <2>2. CASE n \in {2, 4, 5, 6, 7, 10}
    <3>1. Head(todo).step \in QuietNames /\ Head(todo).step # "drain"
          BY <2>1, <2>2, ReleaseSteps DEF QuietNames
    <3>2. Kept /\ (Advanced \/ Waits)
          BY <3>1, QuietEffects
    <3>3. /\ n = 2 => receive' = None
          /\ n = 5 => NoClassifying' /\ NoCapturing'
          /\ n = 7 => NoInjection'
          BY <2>1, <3>1, QuietEffects, ReleaseSteps
    <3>4. ReleasedBy(n)' /\ GateHeld' /\ On(ReleaseLease, n + 1)'
          BY <1>3, <2>1, <3>2
    <3>5. ReleasedBy(n + 1)'
          BY <2>2, <3>3, <3>4 DEF ReleasedBy
    <3>6. n + 1 \in 1 .. 11
          BY <2>1
    <3>7. QED  BY <3>4, <3>5, <3>6 DEF Releasing
  <2>3. CASE n = 9
    <3>1. Head(todo).step = "drain"
          BY <2>1, <2>3, ReleaseSteps
    <3>2. Kept /\ (UNCHANGED todo \/ (Advanced /\ NoUsable'))
          BY <3>1, QuietEffects DEF QuietNames
    <3>3. ReleasedBy(9)' /\ GateHeld'
          BY <1>3, <2>3, <3>2
    <3>4. CASE UNCHANGED todo
      <4>1. On(ReleaseLease, 9)'
            BY <1>4, <2>3, <3>4
      <4>2. QED  BY <3>3, <4>1 DEF Releasing
    <3>5. CASE Advanced /\ NoUsable'
      <4>1. On(ReleaseLease, 10)'
            BY <2>1, <2>3, <3>5
      <4>2. ReleasedBy(10)'
            BY <3>3, <3>5 DEF ReleasedBy
      <4>3. QED  BY <3>3, <4>1, <4>2 DEF Releasing
    <3>6. QED  BY <3>2, <3>4, <3>5
  <2>4. CASE n \in {1, 8}
    <3>1. Head(todo).step \in {"close", "stop"} /\ (Head(todo).step = "close" <=> n = 1)
          BY <2>1, <2>4, ReleaseSteps
    <3>2. /\ Advanced /\ UNCHANGED <<lease, receive>> /\ ~gate'.active
          /\ n = 8 => gate'.stopping
      <4>1. n = 8 => ~gate.active
            BY DEF ReleasedBy
      <4>2. QED  BY <2>4, <3>1, <4>1, GateEffects
    <3>3. On(ReleaseLease, n + 1)'
          BY <2>1, <3>2
    <3>4. GateHeld'
          BY <3>2 DEF GateHeld
    <3>5. CASE n = 1
      <4>1. Owned' /\ Current'
            BY <1>1, <3>2, <3>5, Stays DEF ReleasedBy, Keeps
      <4>2. ReleasedBy(2)'
            BY <3>2, <4>1 DEF ReleasedBy
      <4>3. On(ReleaseLease, 2)'
            BY <3>3, <3>5
      <4>4. QED  BY <3>4, <4>2, <4>3 DEF Releasing
    <3>6. CASE n = 8
      <4>1. ~gate.active /\ receive = None /\ lease = None /\ NoClassifying /\ NoCapturing
            /\ NoInjection
            BY <3>6 DEF ReleasedBy
      <4>2. NoClassifying' /\ NoCapturing' /\ NoInjection'
            BY <1>1, <4>1, Stays
      <4>3. ReleasedBy(9)'
            BY <3>2, <3>6, <4>1, <4>2 DEF ReleasedBy
      <4>4. On(ReleaseLease, 9)'
            BY <3>3, <3>6
      <4>5. QED  BY <3>4, <4>3, <4>4 DEF Releasing
    <3>7. QED  BY <2>4, <3>5, <3>6
  <2>5. CASE n = 3
    <3>1. Head(todo).step = "detach"
          BY <2>1, <2>5, ReleaseSteps
    <3>2. Advanced /\ UNCHANGED <<gate, receive>> /\ lease' = None
          BY <3>1, ExchangeEffects
    <3>3. ~gate.active /\ receive = None
          BY <2>5 DEF ReleasedBy
    <3>4. ReleasedBy(4)' /\ GateHeld'
          BY <3>2, <3>3 DEF ReleasedBy, GateHeld
    <3>5. On(ReleaseLease, 4)'
          BY <2>1, <2>5, <3>2
    <3>6. QED  BY <3>4, <3>5 DEF Releasing
  <2>6. n \in {1, 8} \/ n = 3 \/ n = 9 \/ n \in {2, 4, 5, 6, 7, 10}
        BY <2>1
  <2>7. QED  BY <2>2, <2>3, <2>4, <2>5, <2>6
<1>7. QED  BY <1>5, <1>6

(* A renewal: the gate stays open.                                         *)
LEMMA RenewingStep ==
  ASSUME CallInv, CallInv', ControlStep, GateHeld,
         NEW n \in 1 .. 4, On(RenewLease, n), RenewedBy(n)
  PROVE  (Renewing \/ Resting)' /\ GateHeld'
<1>1. /\ [Next]_vars /\ todo # << >>
      /\ RenewLease \in Seq(StepRecords) /\ n \in 1 .. Len(RenewLease) + 1 /\ n \in Int
      BY NextOfControl, ControlNames, RequestSteps, RenewSteps
<1>2. \/ Head(todo).step = "await" /\ (Advanced => On(RenewLease, n)')
      \/ /\ n <= Len(RenewLease) /\ Head(todo).step = RenewLease[n].step
         /\ Advanced \/ Waits => On(RenewLease, n + 1)'
         /\ Advanced => todo' = SubSeq(RenewLease, n + 1, Len(RenewLease))
      BY <1>1, PlanStep
<1>3. Kept => RenewedBy(n)' /\ GateHeld'
      BY <1>1, KeptKeeps, RenewedStays DEF Kept, GateHeld
<1>4. CASE Head(todo).step = "await"
  <2>1. Kept /\ Advanced
        BY <1>4, QuietEffects DEF QuietNames
  <2>2. On(RenewLease, n)'
        BY <1>2, <1>4, <2>1, RenewSteps
  <2>3. QED  BY <1>3, <2>1, <2>2 DEF Renewing
<1>5. CASE Head(todo).step # "await"
  <2>1. /\ Head(todo).step = RenewLease[n].step
        /\ Advanced \/ Waits => On(RenewLease, n + 1)'
        /\ Advanced => todo' = SubSeq(RenewLease, n + 1, 5)
        BY <1>2, <1>5, RenewSteps
  <2>2. CASE n \in {2, 3}
    <3>1. Head(todo).step \in QuietNames /\ Head(todo).step \notin {"drain", "flows"}
          /\ (n = 3 => Head(todo).step = "readers")
          BY <2>1, <2>2, RenewSteps DEF QuietNames
    <3>2. Kept /\ Advanced /\ (n = 3 => NoCapturing')
          BY <3>1, QuietEffects
    <3>3. RenewedBy(n)' /\ GateHeld' /\ On(RenewLease, n + 1)'
          BY <1>3, <2>1, <3>2
    <3>4. n = 3 => Current'
          BY <3>2, NothingIsOld
    <3>5. RenewedBy(n + 1)'
          BY <2>2, <3>3, <3>4 DEF RenewedBy
    <3>6. n + 1 \in 1 .. 4
          BY <2>2
    <3>7. QED  BY <3>3, <3>5, <3>6 DEF Renewing
  <2>3. CASE n = 4
    <3>1. Head(todo).step = "reopen"
          BY <2>1, <2>3, RenewSteps
    <3>2. Kept /\ Advanced
          BY <3>1, QuietEffects DEF QuietNames
    <3>3. RenewedBy(4)' /\ GateHeld'
          BY <1>3, <2>3, <3>2
    <3>4. todo' = SubSeq(RenewLease, 5, Len(RenewLease))
          BY <2>1, <2>3, <3>2, RenewSteps
    <3>5. \A i \in 1 .. Len(todo') : todo'[i].step = "expire"
          BY <1>1, <3>4, RenewSteps, LastStep
    <3>6. Resting'
          BY <3>3, <3>5 DEF RenewedBy, Resting
    <3>7. QED  BY <3>3, <3>6
  <2>4. CASE n = 1
    <3>1. Head(todo).step = "swap"
          BY <2>1, <2>4, RenewSteps
    <3>2. Advanced /\ UNCHANGED <<gate, receive>> /\ lease' = incoming
          BY <3>1, ExchangeEffects
    <3>3. lease # None /\ incoming # None /\ lease.key = incoming.key /\ Owned
          BY <2>4 DEF RenewedBy
    <3>4. KeepsKey
          BY <3>2, <3>3 DEF KeepsKey
    <3>5. Owned' /\ (~gate'.active => NoCapturing' /\ NoInjection')
          BY <1>1, <3>2, <3>3, <3>4, Stays DEF RenewedBy
    <3>6. RenewedBy(2)' /\ GateHeld'
          BY <3>2, <3>3, <3>5 DEF RenewedBy, GateHeld
    <3>7. On(RenewLease, 2)'
          BY <2>1, <2>4, <3>2
    <3>8. QED  BY <3>6, <3>7 DEF Renewing
  <2>5. QED  BY <2>2, <2>3, <2>4
<1>6. QED  BY <1>4, <1>5

(* A replacement: everything of the old lease is gone before the gate may  *)
(* open for the new one.                                                   *)
LEMMA ReplacingStep ==
  ASSUME CallInv, CallInv', ControlStep, GateHeld,
         NEW n \in 1 .. 11, On(ReplaceLease, n), ReplacedBy(n)
  PROVE  (Replacing \/ Resting)' /\ GateHeld'
<1>1. /\ [Next]_vars /\ todo # << >>
      /\ ReplaceLease \in Seq(StepRecords) /\ n \in 1 .. Len(ReplaceLease) + 1 /\ n \in Int
      BY NextOfControl, ControlNames, RequestSteps, ReplaceSteps
<1>2. \/ Head(todo).step = "await" /\ (Advanced => On(ReplaceLease, n)')
      \/ /\ n <= Len(ReplaceLease) /\ Head(todo).step = ReplaceLease[n].step
         /\ Advanced \/ Waits => On(ReplaceLease, n + 1)'
         /\ Advanced => todo' = SubSeq(ReplaceLease, n + 1, Len(ReplaceLease))
      BY <1>1, PlanStep
<1>3. Kept => ReplacedBy(n)' /\ GateHeld'
      BY <1>1, KeptKeeps, ReplacedStays DEF Kept, GateHeld
<1>4. CASE Head(todo).step = "await"
  <2>1. Kept /\ Advanced
        BY <1>4, QuietEffects DEF QuietNames
  <2>2. On(ReplaceLease, n)'
    <3>1. ReplaceLease[n].step # "await"
      <4>1. CASE n \in 1 .. 6
            BY <4>1, ReplaceSteps
      <4>2. CASE n \in 7 .. 11
            BY <4>2, ReplaceSteps
      <4>3. QED  BY <4>1, <4>2
    <3>2. QED  BY <1>2, <1>4, <2>1, <3>1
  <2>3. QED  BY <1>3, <2>1, <2>2 DEF Replacing
<1>5. CASE Head(todo).step # "await"
  <2>1. /\ Head(todo).step = ReplaceLease[n].step
        /\ Advanced \/ Waits => On(ReplaceLease, n + 1)'
        /\ Advanced => todo' = SubSeq(ReplaceLease, n + 1, 12)
        BY <1>2, <1>5, ReplaceSteps
  <2>2. CASE n \in {2, 3, 6, 8, 10}
    <3>1. Head(todo).step \in QuietNames /\ Head(todo).step # "drain"
          /\ (n = 2 => Head(todo).step = "purge") /\ (n = 3 => Head(todo).step = "injections")
          BY <2>1, <2>2, ReplaceSteps DEF QuietNames
    <3>2. /\ Kept /\ (Advanced \/ Waits)
          /\ n = 2 => receive' = None
          /\ n = 3 => NoInjection'
          BY <3>1, QuietEffects
    <3>3. ReplacedBy(n)' /\ GateHeld' /\ On(ReplaceLease, n + 1)'
          BY <1>3, <2>1, <3>2
    <3>4. ReplacedBy(n + 1)'
          BY <2>2, <3>2, <3>3 DEF ReplacedBy
    <3>5. n + 1 \in 1 .. 11
          BY <2>2
    <3>6. QED  BY <3>3, <3>4, <3>5 DEF Replacing
  <2>3. CASE n = 5
    <3>1. Head(todo).step = "drain"
          BY <2>1, <2>3, ReplaceSteps
    <3>2. Kept /\ (UNCHANGED todo \/ (Advanced /\ NoUsable'))
          BY <3>1, QuietEffects DEF QuietNames
    <3>3. ReplacedBy(5)' /\ GateHeld'
          BY <1>3, <2>3, <3>2
    <3>4. CASE UNCHANGED todo
      <4>1. On(ReplaceLease, 5)'
            BY <2>3, <3>4, PlanStays
      <4>2. QED  BY <3>3, <4>1 DEF Replacing
    <3>5. CASE Advanced /\ NoUsable'
      <4>1. On(ReplaceLease, 6)'
            BY <2>1, <2>3, <3>5
      <4>2. ReplacedBy(6)'
            BY <3>3, <3>5 DEF ReplacedBy
      <4>3. QED  BY <3>3, <4>1, <4>2 DEF Replacing
    <3>6. QED  BY <3>2, <3>4, <3>5
  <2>4. CASE n = 9
    <3>1. Head(todo).step = "readers"
          BY <2>1, <2>4, ReplaceSteps
    <3>2. Kept /\ Advanced /\ NoClassifying' /\ NoCapturing'
          BY <3>1, QuietEffects DEF QuietNames
    <3>3. ReplacedBy(9)' /\ GateHeld' /\ On(ReplaceLease, 10)'
          BY <1>3, <2>1, <2>4, <3>2
    <3>4. NoUsable' /\ receive' = None
          BY <3>3 DEF ReplacedBy
    <3>5. Owned'
          BY <3>2, <3>4, NothingIsOwned
    <3>6. ReplacedBy(10)'
          BY <3>2, <3>3, <3>5 DEF ReplacedBy
    <3>7. QED  BY <3>3, <3>6 DEF Replacing
  <2>5. CASE n = 7
    <3>1. Head(todo).step = "swap"
          BY <2>1, <2>5, ReplaceSteps
    <3>2. Advanced /\ UNCHANGED <<gate, receive>>
          BY <3>1, ExchangeEffects
    <3>3. ~gate.active /\ receive = None /\ NoInjection /\ gate.stopping /\ NoUsable
          BY <2>5 DEF ReplacedBy
    <3>4. NoInjection' /\ NoUsable'
          BY <1>1, <3>3, Stays
    <3>5. ReplacedBy(8)' /\ GateHeld'
          BY <3>2, <3>3, <3>4 DEF ReplacedBy, GateHeld
    <3>6. On(ReplaceLease, 8)'
          BY <2>1, <2>5, <3>2
    <3>7. QED  BY <3>5, <3>6 DEF Replacing
  <2>6. CASE n \in {1, 4, 11}
    <3>1. /\ Head(todo).step \in {"close", "stop", "resume"}
          /\ n = 1 => Head(todo).step = "close"
          /\ n = 4 => Head(todo).step = "stop"
          BY <2>1, <2>6, ReplaceSteps
    <3>2. n > 1 => ~gate.active
          BY DEF ReplacedBy
    <3>3. /\ Advanced /\ UNCHANGED <<lease, receive>>
          /\ ~gate'.active
          /\ n = 4 => gate'.stopping
      <4>1. Advanced /\ UNCHANGED <<lease, receive>> /\ (n = 4 => gate'.stopping)
            BY <3>1, GateEffects
      <4>2. ~gate'.active
            BY <2>6, <3>1, <3>2, GateEffects
      <4>3. QED  BY <4>1, <4>2
    <3>4. Keeps /\ KeepsKey /\ GateHeld'
          BY <3>3 DEF Keeps, KeepsKey, GateHeld
    <3>5. Owned'
          BY <1>1, <2>6, <3>3, <3>4, Stays DEF ReplacedBy
    <3>6. n < 8 => Current'
          BY <1>1, <3>4, Stays DEF ReplacedBy
    <3>7. n > 3 => NoInjection'
          BY <1>1, <3>2, Stays DEF ReplacedBy
    <3>8. CASE n = 1
      <4>1. ReplacedBy(2)'
            BY <3>3, <3>5, <3>6, <3>8 DEF ReplacedBy
      <4>2. On(ReplaceLease, 2)'
            BY <2>1, <3>3, <3>8
      <4>3. QED  BY <3>4, <4>1, <4>2 DEF Replacing
    <3>9. CASE n = 4
      <4>1. receive' = None
            BY <3>3, <3>9 DEF ReplacedBy
      <4>2. ReplacedBy(5)'
            BY <3>3, <3>5, <3>6, <3>7, <3>9, <4>1 DEF ReplacedBy
      <4>3. On(ReplaceLease, 5)'
            BY <2>1, <3>3, <3>9
      <4>4. QED  BY <3>4, <4>2, <4>3 DEF Replacing
    <3>10. CASE n = 11
      <4>1. NoCapturing'
            BY <1>1, <3>2, <3>10, Stays DEF ReplacedBy
      <4>2. Current' /\ NoInjection'
            BY <3>7, <3>10, <4>1, NothingIsOld
      <4>3. todo' = SubSeq(ReplaceLease, 12, Len(ReplaceLease))
            BY <2>1, <3>3, <3>10, ReplaceSteps
      <4>4. \A i \in 1 .. Len(todo') : todo'[i].step = "expire"
            BY <1>1, <4>3, ReplaceSteps, LastStep
      <4>5. Resting'
            BY <3>5, <4>1, <4>2, <4>4 DEF Resting
      <4>6. QED  BY <3>4, <4>5
    <3>11. QED  BY <2>6, <3>8, <3>9, <3>10
  <2>7. QED  BY <2>2, <2>3, <2>4, <2>5, <2>6
<1>6. QED  BY <1>4, <1>5

(* A deactivation: the lease stays.                                        *)
LEMMA DeactivatingStep ==
  ASSUME CallInv, CallInv', ControlStep, GateHeld,
         NEW n \in 1 .. 9, On(DeactivatePath, n), DeactivatedBy(n)
  PROVE  (Deactivating \/ Resting)' /\ GateHeld'
<1>1. /\ [Next]_vars /\ todo # << >>
      /\ DeactivatePath \in Seq(StepRecords) /\ n \in 1 .. Len(DeactivatePath) + 1 /\ n \in Int
      BY NextOfControl, ControlNames, RequestSteps, DeactivateSteps
<1>2. \/ Head(todo).step = "await" /\ (Advanced => On(DeactivatePath, n)')
      \/ /\ n <= Len(DeactivatePath) /\ Head(todo).step = DeactivatePath[n].step
         /\ Advanced \/ Waits => On(DeactivatePath, n + 1)'
         /\ Advanced => todo' = SubSeq(DeactivatePath, n + 1, Len(DeactivatePath))
      BY <1>1, PlanStep
<1>3. Kept => DeactivatedBy(n)' /\ GateHeld'
      BY <1>1, KeptKeeps, DeactivatedStays DEF Kept, GateHeld
<1>4. CASE Head(todo).step = "await"
  <2>1. Kept /\ Advanced
        BY <1>4, QuietEffects DEF QuietNames
  <2>2. On(DeactivatePath, n)'
        BY <1>2, <1>4, <2>1, DeactivateSteps
  <2>3. QED  BY <1>3, <2>1, <2>2 DEF Deactivating
<1>5. CASE Head(todo).step # "await"
  <2>1. /\ Head(todo).step = DeactivatePath[n].step
        /\ Advanced \/ Waits => On(DeactivatePath, n + 1)'
        /\ Advanced => todo' = SubSeq(DeactivatePath, n + 1, 10)
        BY <1>2, <1>5, DeactivateSteps
  <2>2. CASE n \in {2, 3, 4, 5, 8}
    <3>1. Head(todo).step \in QuietNames /\ Head(todo).step # "drain"
          /\ (n = 3 => Head(todo).step = "readers") /\ (n = 5 => Head(todo).step = "injections")
          BY <2>1, <2>2, DeactivateSteps DEF QuietNames
    <3>2. /\ Kept /\ (Advanced \/ Waits)
          /\ n = 3 => NoCapturing'
          /\ n = 5 => NoInjection'
          BY <3>1, QuietEffects
    <3>3. DeactivatedBy(n)' /\ GateHeld' /\ On(DeactivatePath, n + 1)'
          BY <1>3, <2>1, <3>2
    <3>4. DeactivatedBy(n + 1)'
          BY <2>2, <3>2, <3>3 DEF DeactivatedBy
    <3>5. n + 1 \in 1 .. 9
          BY <2>2
    <3>6. QED  BY <3>3, <3>4, <3>5 DEF Deactivating
  <2>3. CASE n = 7
    <3>1. Head(todo).step = "drain"
          BY <2>1, <2>3, DeactivateSteps
    <3>2. Kept /\ (UNCHANGED todo \/ Advanced)
          BY <3>1, QuietEffects DEF QuietNames
    <3>3. DeactivatedBy(7)' /\ GateHeld'
          BY <1>3, <2>3, <3>2
    <3>4. CASE UNCHANGED todo
      <4>1. On(DeactivatePath, 7)'
            BY <2>3, <3>4, PlanStays
      <4>2. QED  BY <3>3, <4>1 DEF Deactivating
    <3>5. CASE Advanced
      <4>1. On(DeactivatePath, 8)'
            BY <2>1, <2>3, <3>5
      <4>2. DeactivatedBy(8)'
            BY <3>3 DEF DeactivatedBy
      <4>3. QED  BY <3>3, <4>1, <4>2 DEF Deactivating
    <3>6. QED  BY <3>2, <3>4, <3>5
  <2>4. CASE n \in {1, 6}
    <3>1. Head(todo).step \in {"close", "stop"} /\ (n = 1 => Head(todo).step = "close")
          BY <2>1, <2>4, DeactivateSteps
    <3>2. Advanced /\ UNCHANGED <<lease, receive>>
          BY <3>1, GateEffects
    <3>3. n > 1 => ~gate.active
          BY DEF DeactivatedBy
    <3>4. ~gate'.active
          BY <2>4, <3>1, <3>3, GateEffects
    <3>5. Keeps /\ KeepsKey /\ GateHeld'
          BY <3>2, <3>4 DEF Keeps, KeepsKey, GateHeld
    <3>6. Owned' /\ Current'
          BY <1>1, <3>2, <3>5, Stays DEF DeactivatedBy
    <3>7. n = 6 => NoCapturing' /\ NoInjection'
          BY <1>1, <3>3, Stays DEF DeactivatedBy
    <3>8. DeactivatedBy(n + 1)'
          BY <2>4, <3>4, <3>6, <3>7 DEF DeactivatedBy
    <3>9. On(DeactivatePath, n + 1)' /\ n + 1 \in 1 .. 9
          BY <2>1, <2>4, <3>2
    <3>10. QED  BY <3>5, <3>8, <3>9 DEF Deactivating
  <2>5. CASE n = 9
    <3>1. Head(todo).step = "reopen"
          BY <2>1, <2>5, DeactivateSteps
    <3>2. Kept /\ Advanced
          BY <3>1, QuietEffects DEF QuietNames
    <3>3. DeactivatedBy(9)' /\ GateHeld'
          BY <1>3, <2>5, <3>2
    <3>4. todo' = SubSeq(DeactivatePath, 10, Len(DeactivatePath))
          BY <2>1, <2>5, <3>2, DeactivateSteps
    <3>5. \A i \in 1 .. Len(todo') : todo'[i].step = "expire"
          BY <1>1, <3>4, DeactivateSteps, LastStep
    <3>6. Resting'
          BY <3>3, <3>5 DEF DeactivatedBy, Resting
    <3>7. QED  BY <3>3, <3>6
  <2>6. QED  BY <2>2, <2>3, <2>4, <2>5
<1>6. QED  BY <1>4, <1>5

(* Between requests, and while a batch is gone through.                    *)
LEMMA TailRests ==
  ASSUME NEW names, NEW q \in Seq(StepRecords), q # << >>,
         \A i \in 1 .. Len(q) : q[i].step \in names
  PROVE  /\ Head(q).step \in names
         /\ \A i \in 1 .. Len(Tail(q)) : Tail(q)[i].step \in names
<1>1. Len(q) \in Nat /\ (Len(q) = 0 => q = << >>) /\ Head(q) = q[1]
      BY EmptySeq
<1>2. 1 \in 1 .. Len(q)
      BY <1>1
<1>3. /\ Len(Tail(q)) = Len(q) - 1
      /\ \A i \in 1 .. Len(Tail(q)) : Tail(q)[i] = q[i + 1]
      BY HeadTailProperties
<1>4. \A i \in 1 .. Len(Tail(q)) : i + 1 \in 1 .. Len(q)
      BY <1>1, <1>3
<1>5. QED  BY <1>1, <1>2, <1>3, <1>4

RestNames == ReplyNames \cup {"expire"}

LEMMA RestingStep ==
  ASSUME CallInv, CallInv', ControlStep, GateHeld, Resting
  PROVE  (Resting \/ Releasing)' /\ GateHeld'
<1>1. /\ [Next]_vars /\ todo # << >> /\ todo \in Seq(StepRecords)
      /\ \A i \in 1 .. Len(todo) : todo[i].step \in RestNames
      BY NextOfControl, ControlNames DEF CallInv, ReplyInv, Resting, RestNames
<1>2. /\ Head(todo).step \in RestNames
      /\ \A i \in 1 .. Len(Tail(todo)) : Tail(todo)[i].step \in RestNames
      BY <1>1, TailRests
<1>3. Expire \/ ReplyStep
      BY <1>2, ControlNames DEF RestNames
<1>4. UNCHANGED <<gate, lease, receive>>
      BY <1>3 DEF Expire, ReplyStep, ReferenceForReply, Drop, ReserveInjection, PacketFails,
             SendReply, SendFails, leaseVars
<1>5. Keeps /\ GateHeld'
      BY <1>4 DEF Keeps, GateHeld
<1>6. Owned' /\ Current' /\ (~gate'.active => NoCapturing' /\ NoInjection')
      BY <1>1, <1>4, <1>5, RestStays DEF Resting
<1>7. todo' = Tail(todo) \/ todo' = << >> \/ todo' = ReleaseLease
      BY <1>3 DEF Expire, ReplyStep, ReferenceForReply, Drop, ReserveInjection, PacketFails,
             SendReply, SendFails, GiveUp, Advanced
<1>8. CASE todo' = ReleaseLease
  <2>1. On(ReleaseLease, 1)'
        BY <1>8, RequestSteps, PlanBegins
  <2>2. ReleasedBy(1)'
        BY <1>6 DEF ReleasedBy
  <2>3. QED  BY <1>5, <2>1, <2>2 DEF Releasing
<1>9. CASE todo' = Tail(todo) \/ todo' = << >>
  <2>1. \A i \in 1 .. Len(todo') : todo'[i].step \in RestNames
    <3>1. CASE todo' = Tail(todo)
          BY <1>2, <3>1
    <3>2. CASE todo' = << >>
          BY <3>2
    <3>3. QED  BY <1>9, <3>1, <3>2
  <2>2. QED  BY <1>5, <1>6, <2>1 DEF Resting, RestNames
<1>10. QED  BY <1>7, <1>8, <1>9

(* A release that is over has left nothing.                                *)
LEMMA IdleRests ==
  ASSUME CallInv, LeaseInv, todo = << >>
  PROVE  Resting
<1>1. ~Renewing
  <2> SUFFICES ASSUME NEW n \in 1 .. 4, On(RenewLease, n) PROVE FALSE
      BY DEF Renewing
  <2>1. n \in 1 .. Len(RenewLease) + 1 /\ n # Len(RenewLease) + 1
        BY RenewSteps
  <2>2. QED  BY <2>1, PlanEnds, RequestSteps
<1>2. ~Replacing
  <2> SUFFICES ASSUME NEW n \in 1 .. 11, On(ReplaceLease, n) PROVE FALSE
      BY DEF Replacing
  <2>1. n \in 1 .. Len(ReplaceLease) + 1 /\ n # Len(ReplaceLease) + 1
        BY ReplaceSteps
  <2>2. QED  BY <2>1, PlanEnds, RequestSteps
<1>3. ~Deactivating
  <2> SUFFICES ASSUME NEW n \in 1 .. 9, On(DeactivatePath, n) PROVE FALSE
      BY DEF Deactivating
  <2>1. n \in 1 .. Len(DeactivatePath) + 1 /\ n # Len(DeactivatePath) + 1
        BY DeactivateSteps
  <2>2. QED  BY <2>1, PlanEnds, RequestSteps
<1>4. CASE Releasing
  <2>1. PICK n \in 1 .. 11 : On(ReleaseLease, n) /\ ReleasedBy(n)
        BY <1>4 DEF Releasing
  <2>2. n = 11
    <3>1. n \in 1 .. Len(ReleaseLease) + 1
          BY ReleaseSteps
    <3>2. n = Len(ReleaseLease) + 1
          BY <2>1, <3>1, PlanEnds, RequestSteps
    <3>3. QED  BY <3>2, ReleaseSteps
  <2>3. /\ receive = None /\ NoClassifying /\ NoCapturing /\ NoInjection /\ NoUsable
        BY <2>1, <2>2 DEF ReleasedBy
  <2>4. \A f \in Flows : OwnedFlow(f)
    <3>1. \A f \in Flows : ~Usable(f) /\ classify[f].pc \notin ReaderAt /\ capture[f].pc = "idle"
          BY <2>3 DEF NoUsable, NoClassifying, NoCapturing
    <3>2. QED  BY <3>1 DEF OwnedFlow, ReaderAt
  <2>5. Owned /\ Current
        BY <2>3, <2>4 DEF Owned, Current, NoCapturing
  <2>6. \A i \in 1 .. Len(todo) : FALSE
        OBVIOUS
  <2>7. QED  BY <2>3, <2>5, <2>6 DEF Resting
<1>5. QED  BY <1>1, <1>2, <1>3, <1>4 DEF LeaseInv

LEMMA RequestLease ==
  ASSUME CallInv, CallInv', Request, LeaseInv
  PROVE  LeaseInv'
<1>1. /\ [Next]_vars /\ todo = << >>
      /\ UNCHANGED <<lease, context, classify, capture, injection>>
      BY DEF Next, Request, GrantLease, RevokeLease, Activate, Deactivate, Query, QueueReceive,
             Submit, Idle, contextVars, threadVars, leaseVars
<1>2. Resting /\ GateHeld
      BY <1>1, IdleRests DEF LeaseInv, GateHeld
<1>3. Keeps /\ KeepsKey
      BY <1>1 DEF Keeps, KeepsKey
<1>4. Current' /\ (NoCapturing => NoCapturing') /\ (NoInjection => NoInjection')
      BY <1>1, <1>2 DEF Resting, Current, NoCapturing, NoInjection
<1>5. receive' = receive => Owned'
      BY <1>1, <1>2, <1>3, Stays DEF Resting
<1>6. ASSUME UNCHANGED <<gate, receive>>
      PROVE  GateHeld' /\ Owned' /\ (~gate'.active => NoCapturing' /\ NoInjection')
      BY <1>1, <1>2, <1>4, <1>5, <1>6 DEF GateHeld, Resting
<1>7. ASSUME NEW key \in Keys, GrantLease(key)
      PROVE  LeaseInv'
  <2> DEFINE new == [key |-> key, generation |-> generation + 1, lapsed |-> FALSE]
  <2>1. UNCHANGED <<gate, receive>> /\ incoming' = new /\ generation < MaxGeneration
        BY <1>7 DEF GrantLease
  <2>2. new # None
    <3>1. generation + 1 \in 1 .. MaxGeneration
          BY <2>1, PathAssumption DEF CallInv, ReplyInv
    <3>2. new \in Leases
          BY <3>1 DEF Leases
    <3>3. QED  BY <3>2, PathAssumption
  <2>3. GateHeld' /\ Owned' /\ (~gate'.active => NoCapturing' /\ NoInjection')
        BY <1>6, <2>1
  <2>4. CASE todo' = RenewLease /\ lease # None /\ lease.key = key
    <3>1. lease' # None /\ incoming' # None /\ lease'.key = incoming'.key
          BY <1>1, <2>1, <2>2, <2>4
    <3>2. RenewedBy(1)'
          BY <1>4, <2>3, <3>1 DEF RenewedBy
    <3>3. On(RenewLease, 1)'
          BY <2>4, RequestSteps, PlanBegins
    <3>4. QED  BY <2>3, <3>2, <3>3 DEF LeaseInv, Renewing, GateHeld
  <2>5. CASE todo' = ReplaceLease
    <3>1. ReplacedBy(1)'
          BY <1>4, <2>3 DEF ReplacedBy
    <3>2. On(ReplaceLease, 1)'
          BY <2>5, RequestSteps, PlanBegins
    <3>3. QED  BY <2>3, <3>1, <3>2 DEF LeaseInv, Replacing, GateHeld
  <2>6. QED  BY <1>7, <2>4, <2>5 DEF GrantLease
<1>8. CASE RevokeLease
  <2>1. GateHeld' /\ Owned'
        BY <1>6, <1>8 DEF RevokeLease, leaseVars
  <2>2. ReleasedBy(1)'
        BY <1>4, <2>1 DEF ReleasedBy
  <2>3. On(ReleaseLease, 1)'
        BY <1>8, RequestSteps, PlanBegins DEF RevokeLease
  <2>4. QED  BY <2>1, <2>2, <2>3 DEF LeaseInv, Releasing, GateHeld
<1>9. CASE Deactivate
  <2>1. GateHeld' /\ Owned'
        BY <1>6, <1>9 DEF Deactivate, leaseVars
  <2>2. DeactivatedBy(1)'
        BY <1>4, <2>1 DEF DeactivatedBy
  <2>3. On(DeactivatePath, 1)'
        BY <1>9, RequestSteps, PlanBegins DEF Deactivate
  <2>4. QED  BY <2>1, <2>2, <2>3 DEF LeaseInv, Deactivating, GateHeld
<1>10. ASSUME \A i \in 1 .. Len(todo') : todo'[i].step \in RestNames,
              GateHeld', Owned', ~gate'.active => NoCapturing' /\ NoInjection'
       PROVE  LeaseInv'
       BY <1>4, <1>10 DEF LeaseInv, Resting, RestNames, GateHeld
<1>11. \A i \in 1 .. Len(Steps(<<"expire">>)) : Steps(<<"expire">>)[i].step \in RestNames
       BY DEF Steps, RestNames
<1>12. CASE Activate
  <2>1. gate'.active /\ lease # None /\ UNCHANGED receive /\ todo' = Steps(<<"expire">>)
        BY <1>12 DEF Activate, LeaseLive
  <2>2. GateHeld' /\ Owned'
        BY <1>1, <1>5, <2>1 DEF GateHeld
  <2>3. QED  BY <1>10, <1>11, <2>1, <2>2
<1>13. CASE Query
  <2>1. UNCHANGED <<gate, receive>> /\ todo' = Steps(<<"expire">>)
        BY <1>13 DEF Query, leaseVars
  <2>2. QED  BY <1>6, <1>10, <1>11, <2>1
<1>14. ASSUME NEW batch \in Batches, Submit(batch)
       PROVE  LeaseInv'
  <2>1. UNCHANGED <<gate, receive>> /\ todo' = SubmitBatch(batch)
        BY <1>14 DEF Submit, leaseVars
  <2>2. SubmitBatch(batch) \in Seq(ReplyRecords)
        BY BatchReplies
  <2>3. \A i \in 1 .. Len(todo') : todo'[i] \in ReplyRecords
        BY <2>1, <2>2
  <2>4. \A i \in 1 .. Len(todo') : todo'[i].step \in RestNames
        BY <2>3 DEF ReplyRecords, RestNames
  <2>5. QED  BY <1>6, <1>10, <2>1, <2>4
<1>15. CASE QueueReceive
  <2>1. UNCHANGED <<gate, todo>> /\ lease # None /\ receive' = lease.key
        BY <1>15 DEF QueueReceive, LeaseLive
  <2>2. Owned'
    <3>1. \A f \in Flows : OwnedFlow(f)'
          BY <1>1, <1>2 DEF Resting, Owned, OwnedFlow, Usable, Owns
    <3>2. QED  BY <1>1, <2>1, <3>1 DEF Owned, Owns
  <2>3. GateHeld' /\ (~gate'.active => NoCapturing' /\ NoInjection')
        BY <1>1, <1>2, <1>4, <2>1 DEF GateHeld, Resting
  <2>4. \A i \in 1 .. Len(todo') : todo'[i].step \in RestNames
        BY <1>2, <2>1 DEF Resting, RestNames
  <2>5. QED  BY <1>10, <2>2, <2>3, <2>4
<1>16. QED  BY <1>7, <1>8, <1>9, <1>12, <1>13, <1>14, <1>15 DEF Request

(* The other threads and the clock leave the requests where they are.      *)
LEMMA OthersStep ==
  ASSUME ReplyInv, [Next]_vars, ~Request, ~ControlStep
  PROVE  /\ UNCHANGED <<gate, todo, incoming>> /\ Keeps
         /\ receive' = receive \/ receive' = None
<1>1. CASE Lapse
      BY <1>1 DEF Lapse, LeaseLive, Keeps
<1>2. CASE UNCHANGED vars \/ \E thread \in Threads : SetEmptyEvent(thread)
      BY <1>2 DEF vars, SetEmptyEvent, leaseVars, Keeps
<1>3. ASSUME NEW f \in Flows, ClassifyAdmit(f) \/ ClassifyStep(f)
      PROVE  UNCHANGED <<leaseVars, todo>>
      BY <1>3 DEF ClassifyAdmit, ClassifyStep, ClassifyAcquire, ClassifyCheck, ClassifyCount,
             ClassifyClearEvent, ClassifyGiveSlotBack, ClassifyLink, ClassifyAssociate,
             ClassifyAssociateFails, ClassifyMark, ClassifyLeave, ClassifyRelease
<1>4. ASSUME NEW f \in Flows,
             \/ CaptureBegin(f) \/ CaptureStep(f) \/ FlowDelete(f)
             \/ CompleteInjection(f) \/ FinishInjection(f)
      PROVE  /\ UNCHANGED <<gate, todo, incoming, lease>>
             /\ receive' = receive \/ receive' = None
      BY <1>4 DEF CaptureBegin, CaptureStep, CaptureBind, CaptureTake, CaptureGivesUp, FlowDelete,
             CompleteInjection, FinishInjection, leaseVars
<1>5. QED  BY <1>1, <1>2, <1>3, <1>4 DEF Next, leaseVars, Keeps

LEMMA NextLease ==
  ASSUME CallInv, CallInv', LeaseInv, [Next]_vars
  PROVE  LeaseInv'
<1>1. GateHeld
      BY DEF LeaseInv, GateHeld
<1>2. CASE Request
      BY <1>2, RequestLease
<1>3. CASE ControlStep
  <2>1. CASE Resting
        BY <1>1, <1>3, <2>1, RestingStep DEF LeaseInv, GateHeld
  <2>2. CASE Renewing
        BY <1>1, <1>3, <2>2, RenewingStep DEF Renewing, LeaseInv, GateHeld
  <2>3. CASE Releasing
        BY <1>1, <1>3, <2>3, ReleasingStep DEF Releasing, LeaseInv, GateHeld
  <2>4. CASE Replacing
        BY <1>1, <1>3, <2>4, ReplacingStep DEF Replacing, LeaseInv, GateHeld
  <2>5. CASE Deactivating
        BY <1>1, <1>3, <2>5, DeactivatingStep DEF Deactivating, LeaseInv, GateHeld
  <2>6. QED  BY <2>1, <2>2, <2>3, <2>4, <2>5 DEF LeaseInv
<1>4. CASE ~Request /\ ~ControlStep
  <2>1. /\ UNCHANGED <<gate, todo, incoming>> /\ Keeps
        /\ receive' = receive \/ receive' = None
        BY <1>4, OthersStep DEF CallInv
  <2>2. GateHeld'
        BY <1>1, <2>1, Stays DEF GateHeld, KeepsKey
  <2>3. \A q, n : On(q, n) => On(q, n)'
        BY <2>1 DEF On
  <2>4. ASSUME Resting PROVE Resting'
    <3>1. Owned' /\ Current' /\ (~gate'.active => NoCapturing' /\ NoInjection')
          BY <2>1, <2>4, RestStays DEF Resting
    <3>2. QED  BY <2>1, <2>4, <3>1 DEF Resting
  <2>5. ASSUME Renewing PROVE Renewing'
    <3>1. PICK n \in 1 .. 4 : On(RenewLease, n) /\ RenewedBy(n)
          BY <2>5 DEF Renewing
    <3>2. On(RenewLease, n)'
          BY <2>3, <3>1
    <3>3. RenewedBy(n)'
          BY <2>1, <3>1, RenewedStays
    <3>4. QED  BY <3>2, <3>3 DEF Renewing
  <2>6. ASSUME Releasing PROVE Releasing'
    <3>1. PICK n \in 1 .. 11 : On(ReleaseLease, n) /\ ReleasedBy(n)
          BY <2>6 DEF Releasing
    <3>2. On(ReleaseLease, n)'
          BY <2>3, <3>1
    <3>3. ReleasedBy(n)'
          BY <2>1, <3>1, ReleasedStays
    <3>4. QED  BY <3>2, <3>3 DEF Releasing
  <2>7. ASSUME Replacing PROVE Replacing'
    <3>1. PICK n \in 1 .. 11 : On(ReplaceLease, n) /\ ReplacedBy(n)
          BY <2>7 DEF Replacing
    <3>2. On(ReplaceLease, n)'
          BY <2>3, <3>1
    <3>3. ReplacedBy(n)'
          BY <2>1, <3>1, ReplacedStays
    <3>4. QED  BY <3>2, <3>3 DEF Replacing
  <2>8. ASSUME Deactivating PROVE Deactivating'
    <3>1. PICK n \in 1 .. 9 : On(DeactivatePath, n) /\ DeactivatedBy(n)
          BY <2>8 DEF Deactivating
    <3>2. On(DeactivatePath, n)'
          BY <2>3, <3>1
    <3>3. DeactivatedBy(n)'
          BY <2>1, <3>1, DeactivatedStays
    <3>4. QED  BY <3>2, <3>3 DEF Deactivating
  <2>9. (Resting \/ Renewing \/ Releasing \/ Replacing \/ Deactivating)'
        BY <2>4, <2>5, <2>6, <2>7, <2>8 DEF LeaseInv
  <2>10. QED  BY <2>2, <2>9 DEF LeaseInv, GateHeld
<1>5. QED  BY <1>2, <1>3, <1>4

-----------------------------------------------------------------------------
(* All of it together.                                                     *)

RestTyped == waking \subseteq Threads /\ receive \in Keys \cup {None}

LEMMA DereferenceWakes ==
  ASSUME RestTyped, NEW f, NEW record, NEW thread \in Threads, Dereference(f, record, thread)
  PROVE  waking' \subseteq Threads
BY DEF RestTyped, Dereference, ReleaseSlot

LEMMA NextRest ==
  ASSUME ReplyInv, RestTyped, [Next]_vars
  PROVE  RestTyped'
<1>1. /\ ControlThread \in Threads
      /\ \A f \in Flows : ClassifyThread(f) \in Threads /\ Callback(f) \in Threads
      BY DEF Threads
<1>2. receive' \in Keys \cup {None}
  <2>1. CASE QueueReceive
        BY <2>1 DEF QueueReceive, LeaseLive, ReplyInv, Leases
  <2>2. CASE Request /\ ~QueueReceive
        BY <2>2 DEF Request, GrantLease, RevokeLease, Activate, Deactivate, Query, Submit,
                    leaseVars, RestTyped
  <2>3. CASE ControlStep
    <3>1. CASE TeardownStep
          BY <3>1 DEF TeardownStep, Close, Purge, ExchangeLease, Fence, AwaitReaders, Reopen,
              AwaitInjections, SetStopping, DrainFlow, DrainEnds, ReadCount, AwaitEmptyEvent,
              Expire, leaseVars, RestTyped
    <3>2. CASE ReplyStep
          BY <3>2 DEF ReplyStep, ReferenceForReply, Drop, ReserveInjection, PacketFails,
              SendReply, SendFails, leaseVars, RestTyped
    <3>3. QED  BY <2>3, <3>1, <3>2 DEF ControlStep
  <2>4. CASE ~Request /\ ~ControlStep
        BY <2>4, OthersStep DEF RestTyped
  <2>5. QED  BY <2>1, <2>2, <2>3, <2>4
<1>3. waking' \subseteq Threads
  <2>1. CASE Request \/ Lapse \/ UNCHANGED vars
        BY <2>1 DEF Request, GrantLease, RevokeLease, Activate, Deactivate, Query, QueueReceive,
             Submit, Lapse, vars, contextVars, RestTyped
  <2>2. CASE \E thread \in Threads : SetEmptyEvent(thread)
        BY <2>2 DEF SetEmptyEvent, RestTyped
  <2>3. CASE TeardownStep
        BY <2>3 DEF TeardownStep, Close, Purge, ExchangeLease, Fence, AwaitReaders, Reopen,
              AwaitInjections, SetStopping, DrainFlow, DrainEnds, ReadCount, AwaitEmptyEvent,
              Expire, contextVars, RestTyped
  <2>4. CASE ReplyStep
    <3>1. \/ UNCHANGED waking
          \/ \E f, record : Dereference(f, record, ControlThread)
          BY <2>4 DEF ReplyStep, ReferenceForReply, Drop, ReserveInjection, PacketFails,
              SendReply, SendFails, GiveUp
    <3>2. QED  BY <1>1, <3>1, DereferenceWakes DEF RestTyped
  <2>5. ASSUME NEW f \in Flows, ClassifyAdmit(f) \/ ClassifyStep(f)
        PROVE  waking' \subseteq Threads
    <3>1. \/ UNCHANGED waking
          \/ ReleaseSlot(ClassifyThread(f))
          \/ \E record : Dereference(f, record, ClassifyThread(f))
          BY <2>5 DEF ClassifyAdmit, ClassifyStep, ClassifyAcquire, ClassifyCheck, ClassifyCount,
             ClassifyClearEvent, ClassifyGiveSlotBack, ClassifyLink, ClassifyAssociate,
             ClassifyAssociateFails, ClassifyMark, ClassifyLeave, ClassifyRelease, contextVars
    <3>2. ReleaseSlot(ClassifyThread(f)) => waking' \subseteq Threads
          BY <1>1 DEF ReleaseSlot, RestTyped
    <3>3. QED  BY <1>1, <3>1, <3>2, DereferenceWakes DEF RestTyped
  <2>6. ASSUME NEW f \in Flows,
               \/ CaptureBegin(f) \/ CaptureStep(f) \/ FlowDelete(f)
               \/ CompleteInjection(f) \/ FinishInjection(f)
        PROVE  waking' \subseteq Threads
    <3>1. UNCHANGED waking \/ \E record : Dereference(f, record, Callback(f))
          BY <2>6 DEF CaptureBegin, CaptureStep, CaptureBind, CaptureTake, CaptureGivesUp,
             FlowDelete, CompleteInjection, FinishInjection, contextVars
    <3>2. QED  BY <1>1, <3>1, DereferenceWakes DEF RestTyped
  <2>7. QED  BY <2>1, <2>2, <2>3, <2>4, <2>5, <2>6 DEF Next, ControlStep
<1>4. QED  BY <1>2, <1>3 DEF RestTyped

PathInv == CallInv /\ LeaseInv /\ RestTyped

LEMMA NextCallInv ==
  ASSUME CallInv, [Next]_vars
  PROVE  CallInv'
<1>1. ReplyInv /\ GateTyped /\ UsesInv /\ ReadersTyped /\ HoldersInv /\ SumInv /\ CaptureInv
      BY DEF CallInv
<1>2. ReplyInv' /\ GateTyped' /\ UsesInv'
      BY <1>1, NextReplyInv, GateStep, NextUsesInv
<1>3. ReadersTyped' /\ HoldersInv'
      BY <1>1, NextReaders
<1>4. SumInv'
      BY <1>1, <1>2, NextSums
<1>5. CaptureInv'
      BY <1>1, <1>2, NextCapture
<1>6. QED  BY <1>2, <1>3, <1>4, <1>5 DEF CallInv

LEMMA InitPathInv == Init => PathInv
<1> SUFFICES ASSUME Init PROVE PathInv
    OBVIOUS
<1>1. ReplyInv /\ GateTyped /\ UsesInv
      BY InitReplyInv, InitUsesInv
<1>2. /\ gate = [active |-> FALSE, stopping |-> FALSE] /\ lease = None /\ receive = None
      /\ rundown = [holders |-> 0, closed |-> FALSE] /\ waking = {}
      /\ context = [f \in Flows |-> NoContext]
      /\ classify = [f \in Flows |-> [pc |-> "idle", key |-> None]]
      /\ capture = [f \in Flows |-> [pc |-> "idle", lease |-> None]]
      /\ sending = [f \in Flows |-> 0] /\ finishing = [f \in Flows |-> 0]
      /\ injection = [count |-> 0, open |-> 0] /\ todo = << >>
      BY DEF Init
<1>3. \A f \in Flows : /\ ~Usable(f) /\ classify[f].pc = "idle" /\ capture[f].pc = "idle"
                       /\ sending[f] = 0 /\ finishing[f] = 0
      BY <1>2 DEF Usable, NoContext
<1>4. ReadersTyped /\ HoldersInv
  <2>1. Classifying = {} /\ Capturing = {} /\ Cardinality({}) = 0
        BY <1>3, FS_EmptySet DEF Classifying, Capturing, ReaderAt
  <2>2. QED  BY <1>2, <2>1 DEF ReadersTyped, HoldersInv
<1>5. SumInv
  <2>1. sending \in [Flows -> Nat] /\ finishing \in [Flows -> Nat]
        BY <1>2
  <2>2. Cardinality(Numbered(sending)) = 0 /\ Cardinality(Numbered(finishing)) = 0
        BY <1>3, <2>1, NumberedNone
  <2>3. ~(todo # << >> /\ Head(todo).step = "send") /\ ControlThread \notin waking
        BY <1>2
  <2>4. One(todo # << >> /\ Head(todo).step = "send") = 0
        BY <2>3 DEF One
  <2>5. QED  BY <1>2, <2>1, <2>2, <2>3, <2>4, PathAssumption DEF SumInv
<1>6. CaptureInv
      BY <1>3 DEF CaptureInv
<1>7. LeaseInv
  <2>1. Owned /\ Current /\ NoCapturing /\ NoInjection
        BY <1>2, <1>3 DEF Owned, OwnedFlow, Current, NoCapturing, NoInjection
  <2>2. Resting
        BY <1>2, <2>1 DEF Resting
  <2>3. QED  BY <1>2, <2>2 DEF LeaseInv
<1>8. RestTyped
      BY <1>2 DEF RestTyped
<1>9. QED  BY <1>1, <1>4, <1>5, <1>6, <1>7, <1>8 DEF PathInv, CallInv

(* What the lease owns, step by step through every request.                *)
THEOREM PathInvHolds == Spec => []PathInv
<1>1. PathInv /\ [Next]_vars => PathInv'
  <2> SUFFICES ASSUME PathInv, [Next]_vars PROVE PathInv'
      OBVIOUS
  <2>1. CallInv /\ LeaseInv /\ RestTyped /\ ReplyInv
        BY DEF PathInv, CallInv
  <2>2. CallInv'
        BY <2>1, NextCallInv
  <2>3. LeaseInv'
        BY <2>1, <2>2, NextLease
  <2>4. RestTyped'
        BY <2>1, NextRest
  <2>5. QED  BY <2>2, <2>3, <2>4 DEF PathInv
<1>2. QED  BY <1>1, InitPathInv, PTL DEF Spec

LEMMA Typed ==
  ASSUME PathInv
  PROVE  TypeOK
<1>1. /\ ReplyInv /\ GateTyped /\ UsesInv /\ ReadersTyped /\ HoldersInv /\ SumInv /\ RestTyped
      BY DEF PathInv, CallInv
<1>2. rundown \in [holders : Nat, closed : BOOLEAN]
  <2>1. Classifying \subseteq Flows /\ Capturing \subseteq Flows
        BY DEF Classifying, Capturing
  <2>2. Cardinality(Classifying) \in Nat /\ Cardinality(Capturing) \in Nat
        BY <2>1, PathAssumption, FS_Subset, FS_CardinalityType
  <2>3. rundown.holders \in Nat
        BY <1>1, <2>2 DEF HoldersInv
  <2>4. QED  BY <1>1, <2>3 DEF ReadersTyped
<1>3. slots \in [count : Nat, drained : BOOLEAN]
  <2>1. SlottedFlows \subseteq Flows
        BY DEF SlottedFlows
  <2>2. slots.count \in Nat
        BY <1>1, <2>1, PathAssumption, FS_Subset, FS_CardinalityType DEF UsesInv, SlotsInv
  <2>3. QED  BY <1>1, <2>2 DEF UsesInv, UsesTyped
<1>4. injection \in [count : Nat, open : Int] /\ finishing \in [Flows -> Nat]
  <2>1. sending \in [Flows -> Nat] /\ finishing \in [Flows -> Nat]
        BY <1>1 DEF UsesInv, UsesTyped, SumInv
  <2>2. PICK a \in Nat, b \in Nat : /\ Cardinality(Numbered(sending)) = a
                                    /\ Cardinality(Numbered(finishing)) = b
        BY <2>1, NumberedFinite
  <2>3. PICK c \in {0, 1} : One(todo # << >> /\ Head(todo).step = "send") = c
        BY DEF One
  <2>4. injection.count \in Nat
        BY <1>1, <2>2, <2>3 DEF SumInv
  <2>5. QED  BY <1>1, <2>1, <2>4 DEF SumInv
<1>5. context \in [Flows -> [refs : Nat, listed : BOOLEAN, associated : BOOLEAN,
                             bound : BOOLEAN, removal : BOOLEAN, key : Keys \cup {None},
                             window : Windows, sent : [Numbers -> Nat]]]
  <2>1. ASSUME NEW f \in Flows PROVE context[f].refs \in Nat
    <3>1. context[f].refs = Uses(classify[f].pc, wfp[f], holding = f, sending[f])
          BY <1>1 DEF UsesInv, FlowSound, Sound
    <3>2. sending[f] \in Nat
          BY <1>1 DEF UsesInv, UsesTyped
    <3>3. PICK n \in Nat : sending[f] = n
          BY <3>2
    <3>4. /\ One(classify[f].pc \in CreatingAt) \in Nat /\ One(holding = f) \in Nat
          /\ One(classify[f].pc = "associating" \/ wfp[f] # "none") \in Nat
          BY DEF One
    <3>5. DEFINE a == One(classify[f].pc \in CreatingAt)
                 b == One(classify[f].pc = "associating" \/ wfp[f] # "none")
                 c == One(holding = f)
    <3>6. context[f].refs = a + b + c + n
          BY <3>1, <3>3 DEF Uses
    <3>7. a \in Nat /\ b \in Nat /\ c \in Nat
          BY <3>4
    <3>8. HIDE DEF a, b, c
    <3>9. QED  BY <3>6, <3>7, <3>3
  <2>2. \A f \in Flows : context[f] \in Records
        BY <1>1 DEF ReplyInv, OnceRecords
  <2>3. QED  BY <1>1, <2>1, <2>2 DEF ReplyInv, Records
<1>6. todo \in Seq([step : StepNames, flow : Flows \cup {None}, number : Nat])
  <2>1. PlainNames \cup ReplyNames \subseteq StepNames
        BY DEF PlainNames, ReplyNames, StepNames
  <2>2. DEFINE Typeds == [step : StepNames, flow : Flows \cup {None}, number : Nat]
  <2>3. \A s \in StepRecords : s \in Typeds
        BY <2>1 DEF StepRecords
  <2>4. todo \in Seq(StepRecords)
        BY <1>1 DEF ReplyInv
  <2>5. HIDE DEF Typeds
  <2>6. Len(todo) \in Nat /\ \A i \in 1 .. Len(todo) : todo[i] \in Typeds
        BY <2>3, <2>4
  <2>7. todo \in Seq(Typeds)
        BY <2>3, <2>4, <2>6
  <2>8. QED  BY <2>7 DEF Typeds
<1>7. holding \in Flows \cup {None}
  <2>1. CASE Begins(todo)
        BY <1>1, <2>1 DEF UsesInv, ChainInv, HoldsTheReply
  <2>2. CASE ~Begins(todo)
    <3>1. todo # << >> /\ Head(todo).step \in HeldAt
          BY <2>2 DEF Begins
    <3>2. QED  BY <1>1, <3>1, HeldIsFlow DEF UsesInv
  <2>3. QED  BY <2>1, <2>2
<1>8. QED  BY <1>1, <1>2, <1>3, <1>4, <1>5, <1>6, <1>7
           DEF TypeOK, ReplyInv, GateTyped, UsesInv, UsesTyped, ReadersTyped, RestTyped

LEMMA QuietWhenClosed ==
  ASSUME PathInv
  PROVE  LeaseOwnsTheRest /\ ClosedIsQuiet
<1>1. CallInv /\ LeaseInv /\ UsesInv /\ SumInv
      BY DEF PathInv, CallInv
<1>2. Idle => Resting
      BY <1>1, IdleRests DEF Idle
<1>3. LeaseOwnsTheRest
      BY <1>2 DEF LeaseOwnsTheRest, Resting, Owned, OwnedFlow, Owns
<1>4. ASSUME Resting, todo = << >>, ~gate.active, NEW f \in Flows
      PROVE  injection.count = 0 /\ sending[f] = 0 /\ finishing[f] = 0 /\ capture[f].pc = "idle"
  <2>1. injection.count = 0 /\ capture[f].pc = "idle"
        BY <1>4 DEF Resting, NoInjection, NoCapturing
  <2>2. sending \in [Flows -> Nat] /\ finishing \in [Flows -> Nat]
        BY <1>1 DEF UsesInv, UsesTyped, SumInv
  <2>3. PICK a \in Nat, b \in Nat : /\ Cardinality(Numbered(sending)) = a
                                    /\ Cardinality(Numbered(finishing)) = b
        BY <2>2, NumberedFinite
  <2>4. One(todo # << >> /\ Head(todo).step = "send") = 0
        BY <1>4 DEF One
  <2>5. a = 0 /\ b = 0
        BY <1>1, <2>1, <2>3, <2>4 DEF SumInv
  <2>6. QED  BY <2>1, <2>2, <2>3, <2>5, NoInjectionLeft
<1>5. ASSUME Resting, todo = << >>, ~gate.active PROVE injection.count = 0
      BY <1>5 DEF Resting, NoInjection
<1>6. ClosedIsQuiet
      BY <1>1, <1>2, <1>4, <1>5 DEF ClosedIsQuiet, LeaseInv, Idle
<1>7. QED  BY <1>3, <1>6

LEMMA InjectionsAdd ==
  ASSUME PathInv
  PROVE  Accounted
<1>1. ReplyInv /\ UsesInv /\ SumInv /\ ChainInv
      BY DEF PathInv, CallInv, UsesInv
<1>2. AtSend <=> AtStep("send")
  <2>1. AtSend => ControlThread \notin waking
        BY <1>1, SendIsHeld DEF SumInv
  <2>2. QED  BY <2>1 DEF AtSend, AtStep
<1>3. One(AtSend) = One(AtStep("send"))
      BY <1>2 DEF One
<1>4. Idle => One(AtSend) = 0
      BY DEF Idle, AtSend, One
<1>5. /\ injection.count = injection.open + One(AtSend) /\ injection.count <= MaxInFlight
      /\ injection.open = Cardinality(Numbered(sending)) + Cardinality(Numbered(finishing))
      /\ injection.open \in Int
      BY <1>1 DEF SumInv, AtSend
<1>6. Idle => injection.open = injection.count
      BY <1>4, <1>5
<1>7. QED  BY <1>3, <1>5, <1>6 DEF Accounted

(* Every context that can be used and the receive request belong to the    *)
(* lease in force, nothing goes on behind a closed gate, and the injections *)
(* in flight are counted (FcxReplaceLease, FcxReleaseLeaseLocked,           *)
(* FcxSetDatagramPathActive), whatever the threads of the flows do while    *)
(* the lease changes.                                                       *)
THEOREM PathIsKept == Spec => []PathInvariant
<1>1. PathInv /\ ReferencesCounted => PathInvariant
      BY Typed, QuietWhenClosed, InjectionsAdd DEF PathInvariant
<1>2. QED  BY <1>1, PathInvHolds, ContextsAreCounted, PTL

(* A captured datagram goes to the request of the lease that its flow was  *)
(* admitted under, and carries that lease (FcxCaptureOutboundDatagram,     *)
(* FcxQueueDatagramReceive).                                               *)
THEOREM DatagramsFollowTheLease == Spec => CaptureOfLease
<1>1. ASSUME PathInv, NEW f \in Flows, capture[f].pc = "taking", receive # None
      PROVE  /\ capture[f].lease.key = receive
             /\ capture[f].lease.key = context[f].key
             /\ Idle => lease # None /\ lease.generation = capture[f].lease.generation
  <2>1. CallInv /\ LeaseInv /\ CaptureInv
        BY <1>1 DEF PathInv, CallInv
  <2>2. Owned
        BY <1>1, <2>1 DEF LeaseInv, Resting, Renewing, Releasing, Replacing, Deactivating,
              RenewedBy, ReleasedBy, ReplacedBy, DeactivatedBy
  <2>3. capture[f].lease.key = receive
        BY <1>1, <2>2 DEF Owned, OwnedFlow, Owns
  <2>4. capture[f].lease.key = context[f].key
        BY <1>1, <2>1 DEF CaptureInv
  <2>5. Idle => Current
        BY <2>1, IdleRests DEF Idle, Resting
  <2>6. QED  BY <1>1, <2>3, <2>4, <2>5 DEF Current
<1>2. PathInv => [\A f \in Flows : Takes(f) /\ receive # None =>
                    /\ capture[f].lease.key = receive
                    /\ capture[f].lease.key = context[f].key
                    /\ Idle => lease # None
                                 /\ lease.generation = capture[f].lease.generation]_vars
      BY <1>1 DEF Takes
<1>3. QED  BY <1>2, PathInvHolds, PTL DEF CaptureOfLease

===============================================================================
