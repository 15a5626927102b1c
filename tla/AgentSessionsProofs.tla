------------------------ MODULE AgentSessionsProofs ------------------------
(***************************************************************************)
(* A client that the Agent still serves has the answers the Agent has read *)
(* for it, and a Core is told again only what a Core has carried out, for  *)
(* any number of clients and requests and queues of any length.            *)
(*                                                                         *)
(* The first rests on two facts: the session that is served is the current *)
(* one, so that an answer goes to whoever asked; and an answer that finds  *)
(* no place cancels the session.  The second follows a request from its    *)
(* sender through channel, Core and answer to the journal.                 *)
(***************************************************************************)
EXTENDS AgentSessions, SequenceTheorems, FiniteSetTheorems, TLAPS

Outs     == {queue \in Seq(Items) : Len(queue) <= OutCapacity}
CoreLines == {queue \in Seq(Lines) : Len(queue) <= CoreCapacity}
Pendings == {queue \in Seq(Requests) : Len(queue) <= MaxEntries}
Said     == [line : Requests \cup {"message"}, ok : BOOLEAN]
SesRecords ==
  [at : Steps, cancelled : BOOLEAN, registered : BOOLEAN, woken : BOOLEAN, out : Outs,
   got : SUBSET Requests, line : Requests \cup {None}, link : Nat]

\* The shapes of the parts.
ServerShape(v)  == v \in [at : {"enable", "check", "select", "closed"}, registered : BOOLEAN,
                          woken : BOOLEAN]
SesShape(all)   == all \in [Sessions -> SesRecords]
ChanShape(c)    == c \in [generation : Nat, open : BOOLEAN, lines : CoreLines,
                          next : {"serve", "discard", "abort", "start"}]
CoreShape(c)    == c \in [generation : Nat, work : SUBSET Requests, said : Seq(Said)]
JournalShape(j) == j \in [entries : [Keys -> Requests \cup {None}], order : Seq(ProxyKeys),
                          pending : Pendings]
SenderShape(f)  == f \in [Requests -> Sessions \cup {None}]
BudgetShape(b)  == b \in [sessions : Nat, requests : Nat, messages : Nat, losses : Nat]

Served(v) == v.at \in Installed /\ ~v.cancelled
Taken(v)  == (v.got \cup ToSet(v.out)) \cap Requests
Asked(r)  == sender[r] # None

Authenticating == {s \in Sessions : ses[s].at = "auth"}
AuthBounded == IsFiniteSet(Authenticating) /\ Cardinality(Authenticating) <= MaxPending

\* Who asked has been installed, and what is on its way was asked by someone.
SendersBegan ==
  \A r \in Requests : Asked(r) => ses[sender[r]].at \notin {"none", "auth"}
LinesAsked ==
  \A s \in Sessions : /\ ses[s].line # None => Asked(ses[s].line)
                      /\ ses[s].at \in {"stage", "send"} => ses[s].line # None

SessionPart ==
  /\ SesShape(ses) /\ ui \in Sessions \cup {None} /\ SenderShape(sender)
  /\ answered \subseteq Requests /\ \A r \in answered : Asked(r)
  /\ AuthBounded /\ LiveSessionIsCurrent /\ AnswersOrDisconnects
  /\ SendersBegan /\ LinesAsked

OnTheWay ==
  /\ \A i \in 1..Len(chan.lines) : chan.lines[i] # "activity" => Asked(chan.lines[i])
  /\ \A r \in core.work : Asked(r)
  /\ \A i \in 1..Len(core.said) : core.said[i].line # "message" => Asked(core.said[i].line)

\* The Core says of a request that it was carried out when it was.
SaidIsDone ==
  \A i \in 1..Len(core.said) :
    core.said[i].ok /\ core.said[i].line # "message" => core.said[i].line \in confirmed

CorePart ==
  /\ link \in Nat /\ ChanShape(chan) /\ CoreShape(core) /\ JournalShape(journal)
  /\ confirmed \subseteq Requests
  /\ OnTheWay /\ SaidIsDone /\ ReplaysOnlyConfirmed

RestPart ==
  ServerShape(server) /\ stopping \in BOOLEAN /\ leaving \in BOOLEAN /\ BudgetShape(budget)

SessionsInv == SessionPart /\ CorePart /\ RestPart

-----------------------------------------------------------------------------
(* Queues, records and tables.                                             *)

LEMMA Names ==
  /\ None \notin Requests /\ None \notin Sessions /\ "activity" \notin Requests
  /\ "event" \notin Requests /\ "message" \notin Requests /\ "status" \notin Requests
  /\ MaxEntries \in Nat \ {0} /\ MaxPending \in Nat \ {0}
  /\ OutCapacity \in Nat \ {0} /\ CoreCapacity \in Nat \ {0} /\ Reserve \in Nat
BY NamesAssumption, CapacitiesAssumption

LEMMA QueueAppends ==
  ASSUME NEW D, NEW limit \in Nat, NEW queue \in {q \in Seq(D) : Len(q) <= limit},
         Len(queue) < limit, NEW x \in D
  PROVE  /\ Append(queue, x) \in {q \in Seq(D) : Len(q) <= limit}
         /\ ToSet(Append(queue, x)) = ToSet(queue) \cup {x}
         /\ \A i \in 1..Len(Append(queue, x)) :
              Append(queue, x)[i] = x \/ \E n \in 1..Len(queue) : Append(queue, x)[i] = queue[n]
<1> DEFINE q == Append(queue, x)
<1>1. /\ q \in Seq(D) /\ Len(q) = Len(queue) + 1 /\ q[Len(q)] = x
      /\ \A i \in 1..Len(queue) : q[i] = queue[i]
      OBVIOUS
<1>2. Len(queue) \in Nat /\ DOMAIN q = 1..Len(q) /\ DOMAIN queue = 1..Len(queue)
      BY <1>1
<1> HIDE DEF q
<1>3. Len(q) <= limit
      BY <1>1, <1>2
<1>4. \A i \in 1..Len(q) : i \in 1..Len(queue) \/ i = Len(q)
      BY <1>1, <1>2
<1>5. \A i \in 1..Len(queue) : i \in 1..Len(q)
      BY <1>1, <1>2
<1>6. Len(q) \in 1..Len(q)
      BY <1>1, <1>2
<1>7. ToSet(q) = ToSet(queue) \cup {x}
      BY <1>1, <1>2, <1>4, <1>5, <1>6 DEF ToSet
<1>8. \A i \in 1..Len(q) : q[i] = x \/ \E n \in 1..Len(queue) : q[i] = queue[n]
      BY <1>1, <1>4
<1>9. QED  BY <1>1, <1>3, <1>7, <1>8 DEF q

LEMMA QueueTails ==
  ASSUME NEW D, NEW limit \in Nat, NEW queue \in {q \in Seq(D) : Len(q) <= limit}, queue # <<>>
  PROVE  /\ Tail(queue) \in {q \in Seq(D) : Len(q) <= limit} /\ Head(queue) \in D
         /\ Head(queue) = queue[1] /\ 1 \in 1..Len(queue)
         /\ ToSet(queue) = {Head(queue)} \cup ToSet(Tail(queue))
         /\ \A i \in 1..Len(Tail(queue)) : \E n \in 1..Len(queue) : Tail(queue)[i] = queue[n]
<1> DEFINE q == Tail(queue)
<1>1. /\ q \in Seq(D) /\ Len(q) = Len(queue) - 1 /\ Head(queue) = queue[1] /\ Head(queue) \in D
      /\ \A i \in 1..Len(q) : q[i] = queue[i + 1]
      OBVIOUS
<1>2. Len(queue) \in Nat \ {0} /\ DOMAIN q = 1..Len(q) /\ DOMAIN queue = 1..Len(queue)
      BY <1>1
<1> HIDE DEF q
<1>3. Len(q) <= limit
      BY <1>1, <1>2
<1>4. \A i \in 1..Len(q) : i + 1 \in 1..Len(queue)
      BY <1>1, <1>2
<1>5. \A i \in 1..Len(queue) : i = 1 \/ (i - 1 \in 1..Len(q) /\ (i - 1) + 1 = i)
      BY <1>1, <1>2
<1>6. \A i \in 1..Len(q) : \E n \in 1..Len(queue) : q[i] = queue[n]
      BY <1>1, <1>4
<1>7. \A n \in 1..Len(queue) : n = 1 \/ \E i \in 1..Len(q) : queue[n] = q[i]
      BY <1>1, <1>5
<1>8. 1 \in 1..Len(queue)
      BY <1>2
<1>9. ToSet(queue) = {Head(queue)} \cup ToSet(q)
  <2>1. ToSet(queue) = {queue[n] : n \in 1..Len(queue)} /\ ToSet(q) = {q[i] : i \in 1..Len(q)}
        BY <1>2 DEF ToSet
  <2>2. \A y \in ToSet(queue) : y \in {Head(queue)} \cup ToSet(q)
        BY <1>1, <1>7, <2>1
  <2>3. \A y \in ToSet(q) : y \in ToSet(queue)
        BY <1>6, <2>1
  <2>4. Head(queue) \in ToSet(queue)
        BY <1>1, <1>8, <2>1
  <2>5. QED  BY <2>2, <2>3, <2>4
<1>10. QED  BY <1>1, <1>3, <1>6, <1>8, <1>9 DEF q

LEMMA QueueRemoves ==
  ASSUME NEW D, NEW queue \in Seq(D), NEW x
  PROVE  Removed(queue, x) \in Seq(D) /\ Len(Removed(queue, x)) <= Len(queue)
<1>1. CASE x \notin ToSet(queue)
      BY <1>1 DEF Removed
<1>2. CASE x \in ToSet(queue)
  <2>1. PICK i \in 1..Len(queue) : Removed(queue, x) = RemoveAt(queue, i)
    <3>1. DOMAIN queue = 1..Len(queue)
          OBVIOUS
    <3>2. \E i \in 1..Len(queue) : queue[i] = x
          BY <1>2, <3>1 DEF ToSet
    <3>3. (CHOOSE i \in DOMAIN queue : queue[i] = x) \in 1..Len(queue)
          BY <3>1, <3>2
    <3>4. QED  BY <1>2, <3>3 DEF Removed
  <2>2. Len(queue) \in Nat /\ i - 1 \in Nat /\ i - 1 <= Len(queue) /\ i + 1 \in Nat
        OBVIOUS
  <2> DEFINE front == SubSeq(queue, 1, i - 1)
             back  == SubSeq(queue, i + 1, Len(queue))
  <2>3. front \in Seq(D) /\ Len(front) = i - 1
        BY <2>2
  <2>4. back \in Seq(D) /\ Len(back) <= Len(queue) - i /\ Len(back) \in Nat
        BY <2>2
  <2> HIDE DEF front, back
  <2>5. front \o back \in Seq(D) /\ Len(front \o back) = Len(front) + Len(back)
        BY <2>3, <2>4
  <2>6. Len(front \o back) <= Len(queue)
        BY <2>2, <2>3, <2>4, <2>5
  <2>7. QED  BY <2>1, <2>5, <2>6 DEF RemoveAt, front, back
<1>3. QED  BY <1>1, <1>2

LEMMA OneChanges ==
  ASSUME NEW all, SesShape(all), NEW s \in Sessions, NEW v \in SesRecords
  PROVE  /\ SesShape([all EXCEPT ![s] = v]) /\ [all EXCEPT ![s] = v][s] = v
         /\ \A t \in Sessions \ {s} : [all EXCEPT ![s] = v][t] = all[t]
BY DEF SesShape

\* What a session record keeps when it goes to another step.
LEMMA RecordGoes ==
  ASSUME NEW v \in SesRecords, NEW at \in Steps
  PROVE  LET w == [v EXCEPT !.at = at]
         IN /\ w \in SesRecords /\ w.at = at /\ w.cancelled = v.cancelled /\ w.out = v.out
            /\ w.got = v.got /\ w.line = v.line /\ w.link = v.link
BY DEF SesRecords

LEMMA RecordQueues ==
  ASSUME NEW v \in SesRecords, NEW item \in Items, Len(v.out) < OutCapacity
  PROVE  LET w == [v EXCEPT !.out = Append(v.out, item)]
         IN /\ w \in SesRecords /\ w.at = v.at /\ w.cancelled = v.cancelled
            /\ Taken(w) = Taken(v) \cup ({item} \cap Requests) /\ w.line = v.line /\ w.link = v.link
<1>1. v.out \in Outs
      BY DEF SesRecords
<1>2. Append(v.out, item) \in Outs /\ ToSet(Append(v.out, item)) = ToSet(v.out) \cup {item}
      BY <1>1, QueueAppends, Names DEF Outs
<1> DEFINE w == [v EXCEPT !.out = Append(v.out, item)]
<1>3. /\ w \in SesRecords /\ w.at = v.at /\ w.cancelled = v.cancelled /\ w.line = v.line
      /\ w.link = v.link /\ w.out = Append(v.out, item) /\ w.got = v.got
      BY <1>2 DEF SesRecords
<1> HIDE DEF w
<1>4. Taken(w) = Taken(v) \cup ({item} \cap Requests)
      BY <1>2, <1>3 DEF Taken
<1>5. QED  BY <1>3, <1>4 DEF w

LEMMA RecordCancelled ==
  ASSUME NEW v \in SesRecords, NEW woken \in BOOLEAN
  PROVE  LET w == [v EXCEPT !.cancelled = TRUE, !.woken = woken]
         IN w \in SesRecords /\ w.at = v.at /\ w.cancelled /\ w.line = v.line
<1> DEFINE a == [v EXCEPT !.cancelled = TRUE]
<1>1. a \in SesRecords /\ a.at = v.at /\ a.cancelled /\ a.line = v.line
      BY DEF SesRecords
<1> HIDE DEF a
<1>2. /\ [a EXCEPT !.woken = woken] \in SesRecords /\ [a EXCEPT !.woken = woken].at = v.at
      /\ [a EXCEPT !.woken = woken].cancelled /\ [a EXCEPT !.woken = woken].line = v.line
      BY <1>1 DEF SesRecords
<1>3. QED  BY <1>2 DEF a

LEMMA RecordCloses ==
  ASSUME NEW at \in Steps
  PROVE  /\ Closed(at) \in SesRecords /\ Closed(at).at = at /\ ~Closed(at).cancelled
         /\ Closed(at).line = None
<1>1. <<>> \in Outs
      BY Names DEF Outs
<1>2. QED  BY <1>1 DEF Closed, SesRecords

-----------------------------------------------------------------------------
(* What the sessions keep when each of them goes on from where it was.     *)

Follows(v, w) ==
  /\ w.at \in {"none", "auth"} => v.at = w.at
  /\ Served(w) => Served(v) /\ Taken(v) \subseteq Taken(w)
  /\ w.line \in {v.line, None}
  /\ w.at \in {"stage", "send"} => v.at \in {"stage", "send"} /\ w.line = v.line

LEMMA SessionsFollow ==
  ASSUME SessionPart, SesShape(ses'), \A t \in Sessions : Follows(ses[t], ses'[t]),
         UNCHANGED sender, ui' \in Sessions \cup {None},
         \A t \in Sessions : Served(ses'[t]) /\ ui = t => ui' = t,
         answered' \subseteq Requests,
         \A r \in answered' \ answered :
           Asked(r) /\ (Served(ses'[sender[r]]) => r \in Taken(ses'[sender[r]]))
  PROVE  SessionPart'
<1>1. SenderShape(sender) /\ SenderShape(sender')
      BY DEF SessionPart
<1>2. \A r \in Requests : Asked(r)' <=> Asked(r)
      BY DEF Asked
<1>3. \A r \in answered' : Asked(r)'
      BY <1>2 DEF SessionPart
<1>4. AuthBounded'
  <2>1. Authenticating' \subseteq Authenticating
        BY DEF Authenticating, Follows
  <2>2. IsFiniteSet(Authenticating') /\ Cardinality(Authenticating') <= Cardinality(Authenticating)
        BY <2>1, FS_Subset DEF SessionPart, AuthBounded
  <2>3. /\ Cardinality(Authenticating') \in Nat /\ Cardinality(Authenticating) \in Nat
        /\ Cardinality(Authenticating) <= MaxPending /\ MaxPending \in Nat
        BY <2>2, FS_CardinalityType, Names DEF SessionPart, AuthBounded
  <2>4. QED  BY <2>2, <2>3 DEF AuthBounded
<1>5. LiveSessionIsCurrent'
  <2> SUFFICES ASSUME NEW t \in Sessions, Served(ses'[t]) PROVE ui' = t
      BY DEF LiveSessionIsCurrent, Served
  <2>1. Served(ses[t])
        BY DEF Follows
  <2>2. ui = t
        BY <2>1 DEF SessionPart, LiveSessionIsCurrent, Served
  <2>3. QED  BY <2>2
<1>6. AnswersOrDisconnects'
  <2> SUFFICES ASSUME NEW r \in answered', Served(ses'[sender[r]]) PROVE r \in Taken(ses'[sender[r]])
      BY DEF AnswersOrDisconnects, Served, Taken
  <2>1. CASE r \notin answered
        BY <2>1
  <2>2. CASE r \in answered
    <3>1. r \in Requests /\ sender[r] \in Sessions
          BY <1>1, <2>2 DEF SessionPart, Asked, SenderShape
    <3>2. Served(ses[sender[r]]) /\ Taken(ses[sender[r]]) \subseteq Taken(ses'[sender[r]])
          BY <3>1 DEF Follows
    <3>3. r \in Taken(ses[sender[r]])
          BY <2>2, <3>2 DEF SessionPart, AnswersOrDisconnects, Served, Taken
    <3>4. QED  BY <3>2, <3>3
  <2>3. QED  BY <2>1, <2>2
<1>7. SendersBegan'
  <2> SUFFICES ASSUME NEW r \in Requests, Asked(r) PROVE ses'[sender[r]].at \notin {"none", "auth"}
      BY <1>2 DEF SendersBegan
  <2>1. sender[r] \in Sessions
        BY <1>1 DEF SenderShape, Asked
  <2>2. ses[sender[r]].at \notin {"none", "auth"}
        BY DEF SessionPart, SendersBegan
  <2>3. QED  BY <2>1, <2>2 DEF Follows
<1>8. LinesAsked'
  <2>1. ASSUME NEW t \in Sessions, ses'[t].line # None PROVE sender'[ses'[t].line] # None
    <3>1. ses'[t].line = ses[t].line
          BY <2>1 DEF Follows
    <3>2. Asked(ses[t].line)
          BY <2>1, <3>1 DEF SessionPart, LinesAsked
    <3>3. QED  BY <3>1, <3>2 DEF Asked
  <2>2. ASSUME NEW t \in Sessions, ses'[t].at \in {"stage", "send"} PROVE ses'[t].line # None
    <3>1. ses[t].at \in {"stage", "send"} /\ ses'[t].line = ses[t].line
          BY <2>2 DEF Follows
    <3>2. QED  BY <3>1 DEF SessionPart, LinesAsked
  <2>3. QED  BY <2>1, <2>2 DEF LinesAsked, Asked
<1>9. QED  BY <1>1, <1>3, <1>4, <1>5, <1>6, <1>7, <1>8 DEF SessionPart

\* One session goes on, and what it takes is of no other concern.
LEMMA SessionGoes ==
  ASSUME SessionPart, NEW s \in Sessions, NEW v \in SesRecords, ses' = [ses EXCEPT ![s] = v],
         Follows(ses[s], v), UNCHANGED <<sender, answered, ui>>
  PROVE  SessionPart'
<1>1. SesShape(ses')
      BY OneChanges DEF SessionPart
<1>2. \A t \in Sessions : (t = s /\ ses'[t] = v) \/ ses'[t] = ses[t]
      BY OneChanges DEF SessionPart
<1>3. \A t \in Sessions : Follows(ses[t], ses'[t])
      BY <1>2 DEF Follows
<1>4. QED  BY <1>1, <1>3, SessionsFollow DEF SessionPart

\* A session goes to another step, or adds a line for its client.
LEMMA SessionSteps ==
  ASSUME SessionPart, NEW s \in Sessions, NEW v \in SesRecords, NEW at \in Steps,
         ses' = [ses EXCEPT ![s] = [v EXCEPT !.at = at]],
         v.cancelled = ses[s].cancelled, v.line = ses[s].line, Taken(ses[s]) \subseteq Taken(v),
         at \notin {"none", "auth"}, at \in Installed => ses[s].at \in Installed,
         at \in {"stage", "send"} => ses[s].at \in {"stage", "send"},
         UNCHANGED <<sender, answered, ui>>
  PROVE  SessionPart'
<1> DEFINE w == [v EXCEPT !.at = at]
<1>1. /\ w \in SesRecords /\ w.at = at /\ w.cancelled = v.cancelled /\ w.out = v.out
      /\ w.got = v.got /\ w.line = v.line
      BY RecordGoes
<1> HIDE DEF w
<1>2. Follows(ses[s], w)
      BY <1>1 DEF Follows, Served, Taken
<1>3. ses' = [ses EXCEPT ![s] = w]
      BY DEF w
<1>4. QED  BY <1>1, <1>2, <1>3, SessionGoes

\* Where the rest of the Agent is left alone.
LEMMA RestKept ==
  ASSUME RestPart, UNCHANGED <<server, stopping, leaving, budget>>
  PROVE  RestPart'
BY DEF RestPart

LEMMA CoreKept ==
  ASSUME CorePart, UNCHANGED <<link, chan, core, journal, confirmed, sender>>
  PROVE  CorePart'
<1>1. OnTheWay'
      BY DEF CorePart, OnTheWay, Asked
<1>2. ReplaysOnlyConfirmed'
      BY DEF CorePart, ReplaysOnlyConfirmed, ReplayLines
<1>3. QED  BY <1>1, <1>2 DEF CorePart, SaidIsDone

LEMMA SessionsKept ==
  ASSUME SessionPart, UNCHANGED <<ses, ui, sender, answered>>
  PROVE  SessionPart'
<1>1. \A t \in Sessions : Follows(ses[t], ses'[t])
      BY DEF Follows
<1>2. QED  BY <1>1, SessionsFollow DEF SessionPart

LEMMA SessionCloses ==
  ASSUME SessionPart, NEW s \in Sessions, NEW v \in SesRecords, ses' = [ses EXCEPT ![s] = v],
         v.at \in {"cleanup", "farewell", "ended"}, v.line = None,
         UNCHANGED <<sender, answered>>, ui' = ui \/ (ui' = None /\ ui = s)
  PROVE  SessionPart'
<1>1. SesShape(ses')
      BY OneChanges DEF SessionPart
<1>2. \A t \in Sessions : (t = s /\ ses'[t] = v) \/ ses'[t] = ses[t]
      BY OneChanges DEF SessionPart
<1>3. v.at \notin Installed
      BY DEF Installed
<1>4. \A t \in Sessions : Follows(ses[t], ses'[t])
      BY <1>2, <1>3 DEF Follows, Served
<1>5. \A t \in Sessions : Served(ses'[t]) /\ ui = t => ui' = t
  <2> SUFFICES ASSUME NEW t \in Sessions, Served(ses'[t]), ui = t PROVE ui' = t
      OBVIOUS
  <2>1. ses'[s] = v
        BY OneChanges DEF SessionPart
  <2>2. t # s
        BY <1>3, <2>1 DEF Served
  <2>3. QED  BY <2>2
<1>6. QED  BY <1>1, <1>4, <1>5, SessionsFollow DEF SessionPart

\* What the Core's side keeps while no entry of the journal changes.
LEMMA CoreMoves ==
  ASSUME CorePart, link' \in Nat, ChanShape(chan'), CoreShape(core'), JournalShape(journal'),
         confirmed \subseteq confirmed', confirmed' \subseteq Requests,
         journal'.entries = journal.entries, OnTheWay', SaidIsDone'
  PROVE  CorePart'
<1>1. ReplaysOnlyConfirmed'
      BY DEF CorePart, ReplaysOnlyConfirmed, ReplayLines
<1>2. QED  BY <1>1 DEF CorePart

\* The channel keeps its lines, gets one more, or loses some.
LEMMA ChannelMoves ==
  ASSUME CorePart, ChanShape(chan'), UNCHANGED <<link, core, journal, confirmed>>,
         \A r : Asked(r) => sender'[r] # None,
         \A i \in 1..Len(chan'.lines) :
           chan'.lines[i] # "activity" =>
             sender'[chan'.lines[i]] # None \/ \E n \in 1..Len(chan.lines) : chan'.lines[i] = chan.lines[n]
  PROVE  CorePart'
<1>1. OnTheWay'
      BY DEF CorePart, OnTheWay, Asked
<1>2. QED  BY <1>1, CoreMoves DEF CorePart, SaidIsDone

LEMMA JournalMoves ==
  ASSUME CorePart, JournalShape(journal'), journal'.entries = journal.entries,
         UNCHANGED <<link, chan, core, confirmed, sender>>
  PROVE  CorePart'
<1>1. OnTheWay'
      BY DEF CorePart, OnTheWay, Asked
<1>2. QED  BY <1>1, CoreMoves DEF CorePart, SaidIsDone

LEMMA ChannelAdds ==
  ASSUME ChanShape(chan), NEW line \in Lines, Room
  PROVE  LET c == [chan EXCEPT !.lines = Append(chan.lines, line)]
         IN /\ ChanShape(c)
            /\ \A i \in 1..Len(c.lines) :
                 c.lines[i] = line \/ \E n \in 1..Len(chan.lines) : c.lines[i] = chan.lines[n]
<1>1. chan.lines \in {q \in Seq(Lines) : Len(q) <= CoreCapacity} /\ Len(chan.lines) < CoreCapacity
      BY DEF ChanShape, CoreLines, Room
<1>2. /\ Append(chan.lines, line) \in CoreLines
      /\ \A i \in 1..Len(Append(chan.lines, line)) :
           \/ Append(chan.lines, line)[i] = line
           \/ \E n \in 1..Len(chan.lines) : Append(chan.lines, line)[i] = chan.lines[n]
      BY <1>1, QueueAppends, Names DEF CoreLines
<1>3. QED  BY <1>2 DEF ChanShape

LEMMA JournalGivesUp ==
  ASSUME JournalShape(journal)
  PROVE  JournalShape(Discarded(journal)) /\ Discarded(journal).entries = journal.entries
<1>1. <<>> \in Pendings
      BY Names DEF Pendings
<1>2. QED  BY <1>1 DEF Discarded, JournalShape

LEMMA JournalStages ==
  ASSUME JournalShape(journal), NEW r \in Requests
  PROVE  JournalShape(Staged(journal, r)) /\ Staged(journal, r).entries = journal.entries
<1> DEFINE q == Append(journal.pending, r)
           p == IF Len(q) > MaxEntries THEN Tail(q) ELSE q
<1>1. journal.pending \in Seq(Requests) /\ Len(journal.pending) <= MaxEntries
      BY DEF JournalShape, Pendings
<1>2. q \in Seq(Requests) /\ Len(q) = Len(journal.pending) + 1
      BY <1>1
<1>3. Len(journal.pending) \in Nat /\ MaxEntries \in Nat
      BY <1>1, Names
<1> HIDE DEF q
<1>4. Len(q) > MaxEntries => Len(q) = MaxEntries + 1 /\ q # <<>>
      BY <1>1, <1>2, <1>3
<1>5. q # <<>> => Tail(q) \in Seq(Requests) /\ Len(Tail(q)) = Len(q) - 1
      BY <1>2
<1>6. p \in Pendings
      BY <1>2, <1>3, <1>4, <1>5 DEF Pendings
<1>7. Staged(journal, r) = [journal EXCEPT !.pending = p]
      BY DEF Staged, q
<1> HIDE DEF p
<1>8. QED  BY <1>6, <1>7 DEF JournalShape

-----------------------------------------------------------------------------
(* The accept loop and the sessions.                                       *)

LEMMA Starting ==
  ASSUME SessionsInv
  PROVE  /\ SessionPart /\ CorePart /\ RestPart
         /\ SesShape(ses) /\ \A s \in Sessions : ses[s] \in SesRecords
         /\ SenderShape(sender) /\ ui \in Sessions \cup {None}
         /\ ServerShape(server) /\ BudgetShape(budget) /\ ChanShape(chan) /\ CoreShape(core)
         /\ JournalShape(journal) /\ link \in Nat
BY DEF SessionsInv, SessionPart, CorePart, RestPart, SesShape

LEMMA Serving ==
  ASSUME SessionsInv, ServeWaits \/ FallbackSignals
  PROVE  SessionsInv'
<1>1. UNCHANGED <<leaving, ses, ui, link, chan, core, journal, sender, answered, confirmed, budget>>
      BY DEF ServeWaits, FallbackSignals
<1>2. ServerShape(server') /\ stopping' \in BOOLEAN
  <2>1. CASE ServeWaits
        BY <2>1, Starting DEF ServeWaits, ServerShape, RestPart
  <2>2. CASE FallbackSignals
        BY <2>2, Starting DEF FallbackSignals, Signalled, ServerShape
  <2>3. QED  BY <2>1, <2>2
<1>3. RestPart'
      BY <1>1, <1>2, Starting DEF RestPart
<1>4. QED  BY <1>1, <1>3, Starting, SessionsKept, CoreKept DEF SessionsInv

LEMMA ServingEnds == ASSUME SessionsInv, ServeEnds PROVE SessionsInv'
<1>1. /\ server' = [server EXCEPT !.at = "closed"]
      /\ ses' = [s \in Sessions |-> Closed(IF ses[s].at = "none" THEN "none" ELSE "ended")]
      /\ ui' = None
      /\ UNCHANGED <<stopping, leaving, link, chan, core, journal, sender, answered, confirmed, budget>>
      BY DEF ServeEnds
<1>2. ASSUME NEW s \in Sessions
      PROVE  /\ ses'[s] \in SesRecords /\ ses'[s].at \in {"none", "ended"} /\ ses'[s].line = None
             /\ ses'[s].at = "none" => ses[s].at = "none"
      BY <1>1, RecordCloses DEF Steps
<1>3. SesShape(ses')
      BY <1>1, <1>2 DEF SesShape
<1>4. \A s \in Sessions : ~Served(ses'[s]) /\ Follows(ses[s], ses'[s])
      BY <1>2 DEF Served, Follows, Installed
<1>5. SessionPart'
      BY <1>1, <1>3, <1>4, Starting, SessionsFollow DEF SessionPart
<1>6. RestPart'
      BY <1>1, Starting DEF RestPart, ServerShape
<1>7. QED  BY <1>1, <1>5, <1>6, Starting, CoreKept DEF SessionsInv

LEMMA Accepting == ASSUME SessionsInv, NEW s \in Sessions, Accept(s) PROVE SessionsInv'
<1> DEFINE at == IF Cardinality({t \in Sessions : ses[t].at = "auth"}) < MaxPending
                 THEN "auth" ELSE "ended"
<1>1. /\ ses[s].at = "none" /\ budget.sessions > 0
      /\ budget' = [budget EXCEPT !.sessions = budget.sessions - 1]
      /\ ses' = [ses EXCEPT ![s] = Closed(at)]
      /\ server' = [at |-> "enable", registered |-> FALSE, woken |-> FALSE]
      /\ UNCHANGED <<stopping, leaving, ui, link, chan, core, journal, sender, answered, confirmed>>
      BY DEF Accept
<1>2. at \in {"auth", "ended"} /\ (at = "auth" => Cardinality(Authenticating) < MaxPending)
      BY DEF Authenticating
<1> HIDE DEF at
<1>3. Closed(at) \in SesRecords /\ Closed(at).at = at /\ Closed(at).line = None
      BY <1>2, RecordCloses DEF Steps
<1>4. /\ SesShape(ses') /\ ses'[s] = Closed(at)
      /\ \A t \in Sessions \ {s} : ses'[t] = ses[t]
  <2>1. SesShape(ses) /\ Closed(at) \in SesRecords
        BY <1>3, Starting
  <2>2. QED  BY <1>1, <2>1 DEF SesShape
<1>5. RestPart'
      BY <1>1, Starting DEF RestPart, ServerShape, BudgetShape
<1>6. CASE at = "ended"
      BY <1>1, <1>3, <1>5, <1>6, Starting, SessionCloses, CoreKept DEF SessionsInv
<1>7. CASE at = "auth"
  <2>1. AuthBounded'
    <3>1. Authenticating' = Authenticating \cup {s} /\ s \notin Authenticating
          BY <1>1, <1>3, <1>4, <1>7 DEF Authenticating
    <3>2. IsFiniteSet(Authenticating) /\ Cardinality(Authenticating) \in Nat
          BY Starting, FS_CardinalityType DEF SessionPart, AuthBounded
    <3>3. /\ IsFiniteSet(Authenticating')
          /\ Cardinality(Authenticating') = Cardinality(Authenticating) + 1
          BY <3>1, <3>2, FS_AddElement
    <3>4. PICK n \in Nat : Cardinality(Authenticating) = n
          BY <3>2
    <3>5. n + 1 <= MaxPending
          BY <1>2, <1>7, <3>4, Names
    <3>6. QED  BY <3>3, <3>4, <3>5 DEF AuthBounded
  <2>2. ~Served(ses'[s]) /\ ~Served(ses[s]) /\ ses'[s].line = None
        BY <1>1, <1>3, <1>4, <1>7 DEF Served, Installed
  <2>3. LiveSessionIsCurrent'
    <3>1. \A t \in Sessions : Served(ses'[t]) => ui' = t
          BY <1>1, <1>4, <2>2, Starting DEF LiveSessionIsCurrent, SessionPart, Served
    <3>2. QED  BY <3>1 DEF LiveSessionIsCurrent, Served
  <2>4. \A r \in Requests : Asked(r) => sender[r] \in Sessions \ {s}
        BY <1>1, Starting DEF SenderShape, Asked, SessionPart, SendersBegan
  <2>5. AnswersOrDisconnects'
        BY <1>1, <1>4, <2>4, Starting DEF AnswersOrDisconnects, SessionPart
  <2>6. SendersBegan'
        BY <1>1, <1>4, <2>4, Starting DEF SendersBegan, SessionPart, Asked
  <2>7. LinesAsked'
        BY <1>1, <1>3, <1>4, <1>7, <2>2, Starting DEF LinesAsked, SessionPart, Asked
  <2>8. SessionPart'
        BY <1>1, <1>4, <2>1, <2>3, <2>5, <2>6, <2>7, Starting DEF SessionPart, Asked
  <2>9. QED  BY <1>1, <1>5, <2>8, Starting, CoreKept DEF SessionsInv
<1>8. QED  BY <1>2, <1>6, <1>7

\* The session is the current one from here on; the one before it is not served.
LEMMA Installing == ASSUME SessionsInv, NEW s \in Sessions, Install(s) PROVE SessionsInv'
<1> DEFINE all == IF ui = None THEN ses ELSE Cancelled(ses, ui)
<1>1. /\ ses[s].at = "auth" /\ ui' = s /\ ses' = [all EXCEPT ![s].at = "enable"]
      /\ UNCHANGED <<server, stopping, leaving, link, chan, core, journal, sender, answered,
                     confirmed, budget>>
      BY DEF Install
<1>2. /\ SesShape(all)
      /\ \A t \in Sessions : /\ all[t] = ses[t] \/ (t = ui /\ all[t].cancelled)
                             /\ all[t].at = ses[t].at /\ all[t].line = ses[t].line
                             /\ t = ui => all[t].cancelled
  <2>1. CASE ui = None
    <3>1. all = ses /\ SesShape(ses) /\ \A t \in Sessions : t # ui
          BY <2>1, Starting, Names
    <3> HIDE DEF all
    <3>2. QED  BY <3>1
  <2>2. CASE ui # None
    <3>1. ui \in Sessions /\ ses[ui] \in SesRecords
          BY <2>2, Starting
    <3> DEFINE woken == ses[ui].woken \/ ses[ui].registered
    <3>2. woken \in BOOLEAN
          BY <3>1 DEF SesRecords
    <3> DEFINE v == [ses[ui] EXCEPT !.cancelled = TRUE, !.woken = woken]
    <3>3. all = [ses EXCEPT ![ui] = v]
          BY <2>2, <3>1, Starting DEF Cancelled, SesShape
    <3> HIDE DEF woken
    <3>4. v \in SesRecords /\ v.at = ses[ui].at /\ v.cancelled /\ v.line = ses[ui].line
          BY <3>1, <3>2, RecordCancelled
    <3> HIDE DEF v, all
    <3>5. SesShape(ses)
          BY Starting
    <3>6. SesShape(all) /\ all[ui] = v /\ \A t \in Sessions \ {ui} : all[t] = ses[t]
          BY <3>1, <3>3, <3>4, <3>5 DEF SesShape
    <3>7. QED  BY <3>4, <3>6
  <2>3. QED  BY <2>1, <2>2
<1> HIDE DEF all
<1> DEFINE w == [all[s] EXCEPT !.at = "enable"]
<1>3. all[s] \in SesRecords
      BY <1>2 DEF SesShape
<1>4. w \in SesRecords /\ w.at = "enable" /\ w.line = ses[s].line
  <2>1. "enable" \in Steps
        BY DEF Steps, Installed
  <2>2. w \in SesRecords /\ w.at = "enable" /\ w.line = all[s].line
        BY <1>3, <2>1, RecordGoes
  <2>3. QED  BY <1>2, <2>2
<1>5. ses' = [all EXCEPT ![s] = w]
      BY <1>1, <1>2 DEF SesShape
<1> HIDE DEF w
<1>6. /\ SesShape(ses') /\ ses'[s] = w /\ \A t \in Sessions \ {s} : ses'[t] = all[t]
  <2>1. SesShape(all) /\ w \in SesRecords
        BY <1>2, <1>4
  <2>2. QED  BY <1>5, <2>1 DEF SesShape
<1>7. \A t \in Sessions \ {s} : Served(ses'[t]) => ses'[t] = ses[t] /\ ui # t
  <2> SUFFICES ASSUME NEW t \in Sessions \ {s}, Served(ses'[t])
               PROVE  ses'[t] = ses[t] /\ ui # t
      OBVIOUS
  <2>1. ses'[t] = all[t] /\ ~all[t].cancelled
        BY <1>6 DEF Served
  <2>2. all[t] = ses[t]
        BY <1>2, <2>1
  <2>3. ui # t
        BY <1>2, <2>1
  <2>4. QED  BY <2>1, <2>2, <2>3
<1>8. \A t \in Sessions \ {s} : ~Served(ses'[t])
      BY <1>7, Starting DEF Served, SessionPart, LiveSessionIsCurrent
<1>9. \A t \in Sessions \ {s} : ses'[t].at = ses[t].at /\ ses'[t].line = ses[t].line
      BY <1>2, <1>6
<1>10. LiveSessionIsCurrent'
  <2>1. \A t \in Sessions : Served(ses'[t]) => ui' = t
        BY <1>1, <1>8
  <2>2. QED  BY <2>1 DEF LiveSessionIsCurrent, Served
<1>11. \A r \in Requests : Asked(r) => sender[r] \in Sessions \ {s}
       BY <1>1, Starting DEF SenderShape, Asked, SessionPart, SendersBegan
<1>12. AnswersOrDisconnects'
  <2>1. \A r \in answered' : ~Served(ses'[sender'[r]])
        BY <1>1, <1>8, <1>11, Starting DEF SessionPart
  <2>2. QED  BY <2>1 DEF AnswersOrDisconnects, Served
<1>13. SendersBegan'
       BY <1>1, <1>9, <1>11, Starting DEF SendersBegan, SessionPart, Asked
<1>14. LinesAsked'
  <2>1. \A t \in Sessions : ses'[t].line = ses[t].line
        BY <1>4, <1>6, <1>9
  <2>2. \A t \in Sessions : ses'[t].at \in {"stage", "send"} => ses[t].at = ses'[t].at
        BY <1>4, <1>6, <1>9
  <2>3. QED  BY <1>1, <2>1, <2>2, Starting DEF LinesAsked, SessionPart, Asked
<1>15. AuthBounded'
  <2>1. Authenticating' \subseteq Authenticating
        BY <1>1, <1>9 DEF Authenticating
  <2>2. IsFiniteSet(Authenticating') /\ Cardinality(Authenticating') <= Cardinality(Authenticating)
        BY <2>1, Starting, FS_Subset DEF SessionPart, AuthBounded
  <2>3. /\ Cardinality(Authenticating') \in Nat /\ Cardinality(Authenticating) \in Nat
        /\ Cardinality(Authenticating) <= MaxPending /\ MaxPending \in Nat
        BY <2>2, Starting, FS_CardinalityType, Names DEF SessionPart, AuthBounded
  <2>4. QED  BY <2>2, <2>3 DEF AuthBounded
<1>16. SessionPart'
       BY <1>1, <1>6, <1>10, <1>12, <1>13, <1>14, <1>15, Starting DEF SessionPart, Asked
<1>17. QED  BY <1>1, <1>16, Starting, RestKept, CoreKept DEF SessionsInv

LEMMA AuthFailing == ASSUME SessionsInv, NEW s \in Sessions, AuthFails(s) PROVE SessionsInv'
<1>1. /\ ses' = [ses EXCEPT ![s] = Closed("ended")]
      /\ UNCHANGED <<server, stopping, leaving, ui, link, chan, core, journal, sender, answered,
                     confirmed, budget>>
      BY DEF AuthFails
<1>2. Closed("ended") \in SesRecords /\ Closed("ended").at = "ended" /\ Closed("ended").line = None
      BY RecordCloses DEF Steps
<1>3. SessionPart'
      BY <1>1, <1>2, Starting, SessionCloses
<1>4. QED  BY <1>1, <1>3, Starting, RestKept, CoreKept DEF SessionsInv

LEMMA Going ==
  ASSUME SessionsInv, NEW s \in Sessions, Watch(s) \/ Cancel(s) \/ ClientEnds(s)
  PROVE  SessionsInv'
<1>1. UNCHANGED <<server, stopping, leaving, ui, link, chan, core, journal, sender, answered,
                  confirmed, budget>>
      BY DEF Watch, Cancel, ClientEnds
<1>2. ses[s] \in SesRecords /\ SesShape(ses)
      BY Starting
<1>3. CASE ses' = [ses EXCEPT ![s].at = "check", ![s].registered = TRUE] /\ ses[s].at = "enable"
  <2> DEFINE v == [ses[s] EXCEPT !.registered = TRUE]
  <2>1. /\ v \in SesRecords /\ v.cancelled = ses[s].cancelled /\ v.line = ses[s].line
        /\ v.out = ses[s].out /\ v.got = ses[s].got
        BY <1>2 DEF SesRecords
  <2>2. ses' = [ses EXCEPT ![s] = [v EXCEPT !.at = "check"]]
    <3>1. [[ses[s] EXCEPT !.at = "check"] EXCEPT !.registered = TRUE] = [v EXCEPT !.at = "check"]
          BY <1>2 DEF SesRecords
    <3>2. ses' = [ses EXCEPT ![s] = [[ses[s] EXCEPT !.at = "check"] EXCEPT !.registered = TRUE]]
          BY <1>2, <1>3 DEF SesShape
    <3>3. QED  BY <3>1, <3>2
  <2>3. "check" \in Steps /\ "check" \in Installed /\ "enable" \in Installed
        BY DEF Steps, Installed
  <2> HIDE DEF v
  <2>4. Taken(ses[s]) \subseteq Taken(v)
        BY <2>1 DEF Taken
  <2>5. SessionPart'
    <3>1. SessionPart /\ v \in SesRecords /\ "check" \in Steps /\ ses[s].at \in Installed
          BY <1>3, <2>1, <2>3, Starting
    <3>2. QED  BY <1>1, <2>1, <2>2, <2>4, <3>1, SessionSteps
  <2>6. QED  BY <1>1, <2>5, Starting, RestKept, CoreKept DEF SessionsInv
<1>4. CASE \E at \in {"cleanup", "greet"} :
             ses' = [ses EXCEPT ![s].at = at] /\ ses[s].at \in Installed
  <2>1. PICK at \in {"cleanup", "greet"} : ses' = [ses EXCEPT ![s].at = at]
        BY <1>4
  <2>2. ses' = [ses EXCEPT ![s] = [ses[s] EXCEPT !.at = at]]
        BY <1>2, <2>1 DEF SesShape
  <2>3. at \in Steps /\ at \notin {"none", "auth", "stage", "send"}
        BY DEF Steps, Installed
  <2>4. SessionPart'
        BY <1>1, <1>2, <1>4, <2>2, <2>3, Starting, SessionSteps
  <2>5. QED  BY <1>1, <2>4, Starting, RestKept, CoreKept DEF SessionsInv
<1>5. QED
  <2>1. CASE Watch(s) /\ ses[s].at = "enable"
        BY <1>3, <2>1 DEF Watch
  <2>2. CASE Watch(s) /\ ses[s].at = "check"
        BY <1>4, <2>2 DEF Watch, Installed
  <2>3. CASE Cancel(s) \/ ClientEnds(s)
        BY <1>4, <2>3 DEF Cancel, ClientEnds, Running
  <2>4. QED  BY <2>1, <2>2, <2>3 DEF Watch

LEMMA Writing == ASSUME SessionsInv, NEW s \in Sessions, WriteOut(s) PROVE SessionsInv'
<1> DEFINE head == {Head(ses[s].out)} \cap Requests
           a == [ses[s] EXCEPT !.out = Tail(ses[s].out)]
           v == [a EXCEPT !.got = ses[s].got \cup head]
<1>1. /\ ses[s].out # <<>> /\ Running(s)
      /\ ses' = [ses EXCEPT ![s].out = Tail(@), ![s].got = @ \cup head]
      /\ UNCHANGED <<server, stopping, leaving, ui, link, chan, core, journal, sender, answered,
                     confirmed, budget>>
      BY DEF WriteOut
<1>2. ses[s] \in SesRecords /\ SesShape(ses) /\ ses[s].out \in Outs
      BY Starting DEF SesRecords
<1>3. /\ Tail(ses[s].out) \in Outs /\ Head(ses[s].out) \in Items
      /\ ToSet(ses[s].out) = {Head(ses[s].out)} \cup ToSet(Tail(ses[s].out))
      BY <1>1, <1>2, QueueTails, Names DEF Outs
<1>4. /\ a \in SesRecords /\ a.at = ses[s].at /\ a.cancelled = ses[s].cancelled
      /\ a.line = ses[s].line /\ a.out = Tail(ses[s].out) /\ a.got = ses[s].got
      BY <1>2, <1>3 DEF SesRecords
<1>5. ses' = [ses EXCEPT ![s] = v]
      BY <1>1, <1>2 DEF SesShape, SesRecords
<1>6. head \subseteq Requests
      OBVIOUS
<1> HIDE DEF a, head
<1>7. /\ v \in SesRecords /\ v.at = ses[s].at /\ v.cancelled = ses[s].cancelled
      /\ v.line = ses[s].line /\ v.out = Tail(ses[s].out) /\ v.got = ses[s].got \cup head
      BY <1>4, <1>6 DEF SesRecords
<1> HIDE DEF v
<1>8. Taken(ses[s]) \subseteq Taken(v)
      BY <1>3, <1>7 DEF Taken, head
<1>9. Follows(ses[s], v)
      BY <1>1, <1>7, <1>8 DEF Follows, Served, Running, Installed
<1>10. SessionPart'
       BY <1>1, <1>5, <1>7, <1>9, Starting, SessionGoes
<1>11. QED  BY <1>1, <1>10, Starting, RestKept, CoreKept DEF SessionsInv

\* A line of the handler itself.
LEMMA Pushing ==
  ASSUME SessionsInv, NEW s \in Sessions, NEW next \in {"announce", "loop", "deliver"},
         Push(s, "event", next), ses[s].at \in Installed, UNCHANGED <<sender, answered, ui>>
  PROVE  SessionPart'
<1> DEFINE a == [ses[s] EXCEPT !.out = Append(ses[s].out, "event")]
<1>1. /\ Len(ses[s].out) < OutCapacity
      /\ ses' = [ses EXCEPT ![s].at = next, ![s].out = Append(@, "event")]
      BY DEF Push
<1>2. ses[s] \in SesRecords /\ SesShape(ses) /\ "event" \in Items
      BY Starting DEF Items
<1>3. ses' = [ses EXCEPT ![s] = [a EXCEPT !.at = next]]
      BY <1>1, <1>2 DEF SesShape, SesRecords
<1>4. /\ a \in SesRecords /\ a.at = ses[s].at /\ a.cancelled = ses[s].cancelled
      /\ Taken(a) = Taken(ses[s]) \cup ({"event"} \cap Requests) /\ a.line = ses[s].line
      BY <1>1, <1>2, RecordQueues
<1>5. next \in Steps /\ next \notin {"none", "auth", "stage", "send"}
      BY DEF Steps, Installed
<1> HIDE DEF a
<1>6. QED  BY <1>2, <1>3, <1>4, <1>5, Starting, SessionSteps

LEMMA Telling ==
  ASSUME SessionsInv, NEW s \in Sessions, Greet(s) \/ Deliver(s)
  PROVE  SessionsInv'
<1>1. UNCHANGED <<server, stopping, leaving, ui, link, chan, core, journal, sender, answered,
                  confirmed, budget>>
      BY DEF Greet, Deliver
<1>2. ses[s].at \in Installed /\ \E next \in {"announce", "deliver"} : Push(s, "event", next)
      BY DEF Greet, Deliver, Installed
<1>3. SessionPart'
      BY <1>1, <1>2, Pushing
<1>4. QED  BY <1>1, <1>3, Starting, RestKept, CoreKept DEF SessionsInv

LEMMA ShuttingDown == ASSUME SessionsInv, NEW s \in Sessions, SignalShutdown(s) PROVE SessionsInv'
<1>1. /\ ses' = [ses EXCEPT ![s].at = "cleanup"] /\ Signalled /\ ses[s].at = "deliver"
      /\ UNCHANGED <<leaving, ui, link, chan, core, journal, sender, answered, confirmed, budget>>
      BY DEF SignalShutdown
<1>2. ses[s] \in SesRecords /\ SesShape(ses)
      BY Starting
<1>3. ses' = [ses EXCEPT ![s] = [ses[s] EXCEPT !.at = "cleanup"]]
      BY <1>1, <1>2 DEF SesShape
<1>4. "cleanup" \in Steps /\ "cleanup" \notin Installed
      BY DEF Steps, Installed
<1>5. SessionPart'
      BY <1>1, <1>2, <1>3, <1>4, Starting, SessionSteps
<1>6. RestPart'
      BY <1>1, Starting DEF RestPart, Signalled, ServerShape
<1>7. QED  BY <1>1, <1>5, <1>6, Starting, CoreKept DEF SessionsInv

\* What tells the Core whether a user looks is nobody's request.
LEMMA Announcing == ASSUME SessionsInv, NEW s \in Sessions, Announce(s) PROVE SessionsInv'
<1>1. /\ UNCHANGED <<server, stopping, leaving, ui, link, core, journal, sender, answered,
                     confirmed, budget>>
      /\ chan' = chan \/ (Room /\ chan' = [chan EXCEPT !.lines = Append(chan.lines, "activity")])
      BY DEF Announce
<1>2. ses[s] \in SesRecords /\ SesShape(ses)
      BY Starting
<1>3. SessionPart'
  <2>1. CASE ses[s].at = "announce" /\ ses' = [ses EXCEPT ![s].at = "loop"]
    <3>1. ses' = [ses EXCEPT ![s] = [ses[s] EXCEPT !.at = "loop"]]
          BY <1>2, <2>1 DEF SesShape
    <3>2. "loop" \in Steps /\ ses[s].at \in Installed
          BY <2>1 DEF Steps, Installed
    <3>3. QED  BY <1>1, <1>2, <3>1, <3>2, Starting, SessionSteps
  <2>2. CASE ses[s].at = "farewell" /\ ses' = [ses EXCEPT ![s] = Closed("ended")]
    <3>1. /\ Closed("ended") \in SesRecords /\ Closed("ended").at = "ended"
          /\ Closed("ended").line = None
          BY RecordCloses DEF Steps
    <3>2. QED  BY <1>1, <2>2, <3>1, Starting, SessionCloses
  <2>3. QED  BY <2>1, <2>2 DEF Announce
<1>4. CorePart'
  <2>1. CASE chan' = chan
        BY <1>1, <2>1, Starting, CoreKept
  <2>2. CASE Room /\ chan' = [chan EXCEPT !.lines = Append(chan.lines, "activity")]
    <3>1. /\ ChanShape(chan')
          /\ \A i \in 1..Len(chan'.lines) :
               chan'.lines[i] = "activity" \/ \E n \in 1..Len(chan.lines) : chan'.lines[i] = chan.lines[n]
          BY <2>2, Starting, ChannelAdds DEF Lines
    <3>2. QED  BY <1>1, <3>1, Starting, ChannelMoves DEF Asked
  <2>3. QED  BY <1>1, <2>1, <2>2
<1>5. QED  BY <1>1, <1>3, <1>4, Starting, RestKept DEF SessionsInv

LEMMA Asking ==
  ASSUME SessionsInv, NEW s \in Sessions, NEW r \in Requests, Ask(s, r)
  PROVE  SessionsInv'
<1>1. /\ ses[s].at = "loop" /\ ~ses[s].cancelled /\ sender[r] = None /\ budget.requests > 0
      /\ budget' = [budget EXCEPT !.requests = budget.requests - 1]
      /\ sender' = [sender EXCEPT ![r] = s]
      /\ UNCHANGED <<server, stopping, leaving, ui, link, chan, core, journal, answered, confirmed>>
      BY DEF Ask
<1>2. /\ ses[s] \in SesRecords /\ SesShape(ses) /\ SenderShape(sender) /\ s # None
      /\ SessionPart /\ CorePart
      BY Starting, Names
<1>3. /\ SenderShape(sender') /\ sender'[r] = s /\ \A q \in Requests \ {r} : sender'[q] = sender[q]
      /\ \A q : Asked(q) => q \in Requests \/ sender'[q] = sender[q]
      BY <1>1, <1>2 DEF SenderShape
<1>4. PICK v \in SesRecords :
        /\ ses' = [ses EXCEPT ![s] = v] /\ v.at \in {"loop", "stage"} /\ ~v.cancelled
        /\ Taken(ses[s]) \subseteq Taken(v)
        /\ v.line \in {ses[s].line, r} /\ (v.at = "stage" => v.line = r)
  <2>1. CASE link = 0
    <3> DEFINE a == [ses[s] EXCEPT !.out = Append(ses[s].out, "event")]
               v == [a EXCEPT !.at = "loop"]
    <3>1. /\ Len(ses[s].out) < OutCapacity
          /\ ses' = [ses EXCEPT ![s].at = "loop", ![s].out = Append(@, "event")]
          BY <2>1 DEF Ask, Push
    <3>2. ses' = [ses EXCEPT ![s] = v]
          BY <1>2, <3>1 DEF SesShape, SesRecords
    <3>3. /\ a \in SesRecords /\ a.at = ses[s].at /\ a.cancelled = ses[s].cancelled
          /\ Taken(a) = Taken(ses[s]) \cup ({"event"} \cap Requests) /\ a.line = ses[s].line
          BY <1>2, <3>1, RecordQueues DEF Items
    <3>4. "loop" \in Steps
          BY DEF Steps, Installed
    <3> HIDE DEF a
    <3>5. /\ v \in SesRecords /\ v.at = "loop" /\ v.cancelled = a.cancelled /\ v.out = a.out
          /\ v.got = a.got /\ v.line = a.line
          BY <3>3, <3>4, RecordGoes
    <3> HIDE DEF v
    <3>6. Taken(v) = Taken(a)
          BY <3>5 DEF Taken
    <3>7. QED  BY <1>1, <3>2, <3>3, <3>5, <3>6
  <2>2. CASE link # 0
    <3> DEFINE a == [ses[s] EXCEPT !.at = "stage"]
               b == [a EXCEPT !.line = r]
               v == [b EXCEPT !.link = link]
    <3>1. ses' = [ses EXCEPT ![s].at = "stage", ![s].line = r, ![s].link = link]
          BY <2>2 DEF Ask
    <3>2. ses' = [ses EXCEPT ![s] = v]
          BY <1>2, <3>1 DEF SesShape, SesRecords
    <3>3. "stage" \in Steps /\ link \in Nat
          BY Starting DEF Steps, Installed
    <3>4. /\ a \in SesRecords /\ a.at = "stage" /\ a.cancelled = ses[s].cancelled
          /\ a.out = ses[s].out /\ a.got = ses[s].got
          BY <1>2, <3>3, RecordGoes
    <3> HIDE DEF a
    <3>5. /\ b \in SesRecords /\ b.at = "stage" /\ b.cancelled = a.cancelled /\ b.line = r
          /\ b.out = a.out /\ b.got = a.got
          BY <3>4 DEF SesRecords
    <3> HIDE DEF b
    <3>6. /\ v \in SesRecords /\ v.at = "stage" /\ v.cancelled = b.cancelled /\ v.line = r
          /\ v.out = b.out /\ v.got = b.got
          BY <3>3, <3>5 DEF SesRecords
    <3> HIDE DEF v
    <3>7. Taken(v) = Taken(ses[s])
          BY <3>4, <3>5, <3>6 DEF Taken
    <3>8. QED  BY <1>1, <3>2, <3>4, <3>5, <3>6, <3>7
  <2>3. QED  BY <2>1, <2>2
<1>5. /\ SesShape(ses') /\ ses'[s] = v /\ \A t \in Sessions \ {s} : ses'[t] = ses[t]
      BY <1>2, <1>4 DEF SesShape
<1>6. "loop" \in Installed /\ v.at \in Installed /\ "loop" \notin {"none", "auth"}
      BY <1>4 DEF Installed
<1>7. LiveSessionIsCurrent'
  <2>1. \A t \in Sessions : Served(ses'[t]) => Served(ses[t])
        BY <1>1, <1>5, <1>6 DEF Served
  <2>2. QED  BY <1>1, <1>2, <2>1 DEF LiveSessionIsCurrent, Served, SessionPart
<1>8. \A q \in answered : q \in Requests /\ Asked(q) /\ q # r
      BY <1>1, <1>2 DEF SessionPart, Asked
<1>9. AnswersOrDisconnects'
  <2> SUFFICES ASSUME NEW q \in answered, Served(ses'[sender[q]]) PROVE q \in Taken(ses'[sender[q]])
      BY <1>1, <1>3, <1>8 DEF AnswersOrDisconnects, Served, Taken
  <2>1. sender[q] \in Sessions
        BY <1>2, <1>8 DEF SenderShape, Asked
  <2>2. Served(ses[sender[q]]) /\ Taken(ses[sender[q]]) \subseteq Taken(ses'[sender[q]])
        BY <1>1, <1>4, <1>5, <1>6, <2>1 DEF Served
  <2>3. q \in Taken(ses[sender[q]])
        BY <1>2, <1>8, <2>2 DEF SessionPart, AnswersOrDisconnects, Served, Taken
  <2>4. QED  BY <2>2, <2>3
<1>10. SendersBegan'
  <2> SUFFICES ASSUME NEW q \in Requests, sender'[q] # None
               PROVE  ses'[sender'[q]].at \notin {"none", "auth"}
      BY DEF SendersBegan, Asked
  <2>1. CASE q = r
        BY <1>3, <1>4, <1>5, <2>1
  <2>2. CASE q # r
    <3>1. sender'[q] = sender[q] /\ sender[q] \in Sessions /\ Asked(q)
          BY <1>2, <1>3, <2>2 DEF SenderShape, Asked
    <3>2. ses[sender[q]].at \notin {"none", "auth"}
          BY <1>2, <3>1 DEF SessionPart, SendersBegan
    <3>3. QED  BY <1>4, <1>5, <3>1, <3>2
  <2>3. QED  BY <2>1, <2>2
<1>11. \A q \in Requests : Asked(q) => sender'[q] # None
       BY <1>2, <1>3 DEF Asked
<1>12. LinesAsked'
  <2>1. ASSUME NEW t \in Sessions, ses'[t].line # None PROVE sender'[ses'[t].line] # None
    <3>1. CASE ses'[t].line = r
          BY <1>2, <1>3, <3>1
    <3>2. CASE ses'[t].line # r
      <4>1. ses'[t].line = ses[t].line
            BY <1>4, <1>5, <3>2
      <4>2. Asked(ses[t].line) /\ ses[t].line \in Requests
            BY <1>2, <2>1, <4>1, Starting DEF SessionPart, LinesAsked, SesRecords
      <4>3. QED  BY <1>11, <4>1, <4>2
    <3>3. QED  BY <3>1, <3>2
  <2>2. ASSUME NEW t \in Sessions, ses'[t].at \in {"stage", "send"} PROVE ses'[t].line # None
        BY <1>2, <1>4, <1>5, <2>2, Names DEF SessionPart, LinesAsked
  <2>3. QED  BY <2>1, <2>2 DEF LinesAsked, Asked
<1>13. AuthBounded'
  <2>1. Authenticating' = Authenticating
        BY <1>1, <1>4, <1>5 DEF Authenticating
  <2>2. QED  BY <1>2, <2>1 DEF SessionPart, AuthBounded
<1>14. SessionPart'
  <2>1. \A q \in answered' : sender'[q] # None
        BY <1>1, <1>8, <1>11
  <2>2. QED
        BY <1>1, <1>2, <1>3, <1>5, <1>7, <1>9, <1>10, <1>12, <1>13, <2>1 DEF SessionPart, Asked
<1>15. CorePart'
  <2>1. \A i \in 1..Len(chan.lines) : chan.lines[i] # "activity" => chan.lines[i] \in Requests
        BY Starting DEF ChanShape, CoreLines, Lines
  <2>2. \A i \in 1..Len(core.said) : core.said[i].line # "message" => core.said[i].line \in Requests
    <3>1. core.said \in Seq(Said)
          BY Starting DEF CoreShape
    <3>2. \A i \in 1..Len(core.said) : core.said[i] \in Said
          BY <3>1
    <3>3. QED  BY <3>2 DEF Said
  <2>3. core.work \subseteq Requests
        BY Starting DEF CoreShape
  <2>4. OnTheWay'
        BY <1>1, <1>2, <1>11, <2>1, <2>2, <2>3 DEF CorePart, OnTheWay, Asked
  <2>5. QED  BY <1>1, <1>2, <2>4, CoreMoves DEF CorePart, SaidIsDone
<1>16. RestPart'
       BY <1>1, Starting DEF RestPart, BudgetShape
<1>17. QED  BY <1>14, <1>15, <1>16 DEF SessionsInv

LEMMA Staging == ASSUME SessionsInv, NEW s \in Sessions, Stage(s) PROVE SessionsInv'
<1>1. /\ ses[s].at = "stage" /\ journal' = Staged(journal, ses[s].line)
      /\ ses' = [ses EXCEPT ![s].at = "send"]
      /\ UNCHANGED <<server, stopping, leaving, ui, link, chan, core, sender, answered,
                     confirmed, budget>>
      BY DEF Stage
<1>2. ses[s] \in SesRecords /\ SesShape(ses)
      BY Starting
<1>3. ses[s].line \in Requests
      BY <1>1, <1>2, Starting DEF SessionPart, LinesAsked, SesRecords
<1>4. ses' = [ses EXCEPT ![s] = [ses[s] EXCEPT !.at = "send"]]
      BY <1>1, <1>2 DEF SesShape
<1>5. "send" \in Steps /\ ses[s].at \in Installed
      BY <1>1 DEF Steps, Installed
<1>6. SessionPart'
      BY <1>1, <1>2, <1>4, <1>5, Starting, SessionSteps
<1>7. JournalShape(journal') /\ journal'.entries = journal.entries
      BY <1>1, <1>3, Starting, JournalStages
<1>8. CorePart'
      BY <1>1, <1>7, Starting, JournalMoves
<1>9. QED  BY <1>1, <1>6, <1>8, Starting, RestKept DEF SessionsInv

LEMMA Sending == ASSUME SessionsInv, NEW s \in Sessions, Send(s) PROVE SessionsInv'
<1>1. /\ ses[s].at = "send" /\ Room
      /\ chan' = [chan EXCEPT !.lines = Append(chan.lines, ses[s].line)]
      /\ ses' = [ses EXCEPT ![s].at = "loop", ![s].line = None, ![s].link = 0]
      /\ UNCHANGED <<server, stopping, leaving, ui, link, core, journal, sender, answered,
                     confirmed, budget>>
      BY DEF Send
<1>2. ses[s] \in SesRecords /\ SesShape(ses) /\ ChanShape(chan)
      BY Starting
<1>3. ses[s].line \in Requests /\ Asked(ses[s].line)
      BY <1>1, <1>2, Starting DEF SessionPart, LinesAsked, SesRecords
<1> DEFINE a == [ses[s] EXCEPT !.at = "loop"]
           b == [a EXCEPT !.line = None]
           v == [b EXCEPT !.link = 0]
<1>4. ses' = [ses EXCEPT ![s] = v]
      BY <1>1, <1>2 DEF SesShape, SesRecords
<1>5. "loop" \in Steps /\ "loop" \notin {"none", "auth", "stage", "send"} /\ ses[s].at \in Installed
      BY <1>1 DEF Steps, Installed
<1>6. /\ v \in SesRecords /\ v.at = "loop" /\ v.cancelled = ses[s].cancelled
      /\ Taken(v) = Taken(ses[s]) /\ v.line = None
  <2>1. /\ a \in SesRecords /\ a.at = "loop" /\ a.cancelled = ses[s].cancelled
        /\ a.out = ses[s].out /\ a.got = ses[s].got
        BY <1>2, <1>5, RecordGoes
  <2> HIDE DEF a
  <2>2. /\ b \in SesRecords /\ b.at = "loop" /\ b.cancelled = a.cancelled /\ b.out = a.out
        /\ b.got = a.got /\ b.line = None
        BY <2>1 DEF SesRecords
  <2> HIDE DEF b
  <2>3. /\ v \in SesRecords /\ v.at = "loop" /\ v.cancelled = b.cancelled /\ v.out = b.out
        /\ v.got = b.got /\ v.line = None
        BY <2>2 DEF SesRecords
  <2> HIDE DEF v
  <2>4. Taken(v) = Taken(ses[s])
        BY <2>1, <2>2, <2>3 DEF Taken
  <2>5. QED  BY <2>1, <2>2, <2>3, <2>4
<1> HIDE DEF v
<1>7. Follows(ses[s], v)
      BY <1>5, <1>6 DEF Follows, Served
<1>8. SessionPart'
      BY <1>1, <1>4, <1>6, <1>7, Starting, SessionGoes
<1>9. /\ ChanShape(chan')
      /\ \A i \in 1..Len(chan'.lines) :
           chan'.lines[i] = ses[s].line \/ \E n \in 1..Len(chan.lines) : chan'.lines[i] = chan.lines[n]
      BY <1>1, <1>2, <1>3, ChannelAdds DEF Lines
<1>10. CorePart'
       BY <1>1, <1>3, <1>9, Starting, ChannelMoves DEF Asked
<1>11. QED  BY <1>1, <1>8, <1>10, Starting, RestKept DEF SessionsInv

LEMMA SendingFails == ASSUME SessionsInv, NEW s \in Sessions, SendFails(s) PROVE SessionsInv'
<1>1. /\ journal' = Discarded(journal)
      /\ ses' = [ses EXCEPT ![s].at = "cleanup", ![s].line = None]
      /\ UNCHANGED <<server, stopping, leaving, ui, link, chan, core, sender, answered,
                     confirmed, budget>>
      BY DEF SendFails
<1>2. ses[s] \in SesRecords /\ SesShape(ses)
      BY Starting
<1> DEFINE a == [ses[s] EXCEPT !.at = "cleanup"]
           v == [a EXCEPT !.line = None]
<1>3. ses' = [ses EXCEPT ![s] = v]
      BY <1>1, <1>2 DEF SesShape, SesRecords
<1>4. "cleanup" \in Steps
      BY DEF Steps
<1>5. a \in SesRecords /\ a.at = "cleanup"
      BY <1>2, <1>4, RecordGoes
<1> HIDE DEF a
<1>6. v \in SesRecords /\ v.at = "cleanup" /\ v.line = None
      BY <1>5 DEF SesRecords
<1> HIDE DEF v
<1>7. SessionPart'
      BY <1>1, <1>3, <1>6, Starting, SessionCloses
<1>8. JournalShape(journal') /\ journal'.entries = journal.entries
      BY <1>1, Starting, JournalGivesUp
<1>9. CorePart'
      BY <1>1, <1>8, Starting, JournalMoves
<1>10. QED  BY <1>1, <1>7, <1>9, Starting, RestKept DEF SessionsInv

LEMMA CleaningUp == ASSUME SessionsInv, NEW s \in Sessions, Cleanup(s) PROVE SessionsInv'
<1> DEFINE at == IF ui = s THEN "farewell" ELSE "ended"
           told == (ui = s) /\ ses[s].cancelled
           v == [Closed(at) EXCEPT !.cancelled = told]
<1>1. /\ ui' = (IF ui = s THEN None ELSE ui) /\ ses' = [ses EXCEPT ![s] = v]
      /\ UNCHANGED <<server, stopping, leaving, link, chan, core, journal, sender, answered,
                     confirmed, budget>>
      BY DEF Cleanup
<1>2. ses[s] \in SesRecords
      BY Starting
<1>3. at \in {"farewell", "ended"} /\ at \in Steps
      BY DEF Steps
<1>4. told \in BOOLEAN
      BY <1>2 DEF SesRecords
<1> HIDE DEF told, at
<1>5. Closed(at) \in SesRecords /\ Closed(at).at = at /\ Closed(at).line = None
      BY <1>3, RecordCloses
<1>6. v \in SesRecords /\ v.at = at /\ v.line = None
      BY <1>4, <1>5 DEF SesRecords
<1> HIDE DEF v
<1>7. ui' = ui \/ (ui' = None /\ ui = s)
      BY <1>1
<1>8. SessionPart'
      BY <1>1, <1>3, <1>6, <1>7, Starting, SessionCloses
<1>9. QED  BY <1>1, <1>8, Starting, RestKept, CoreKept DEF SessionsInv

-----------------------------------------------------------------------------
(* What the Agent tells the client that it serves, without waiting.        *)

\* A line is queued, or it is a sample that is dropped, or it costs the session.
LEMMA ForwardCases ==
  ASSUME SessionsInv, NEW line \in Requests \cup {"message", "status"}, NEW all,
         all = Forward(line)
  PROVE  \/ all = ses /\ (ui = None \/ ses[ui].cancelled \/ line = "message")
         \/ /\ ui \in Sessions /\ ~ses[ui].cancelled /\ Len(ses[ui].out) < OutCapacity
            /\ all = [ses EXCEPT ![ui].out = Append(@, IF line \in Requests THEN line ELSE "event")]
         \/ ui \in Sessions /\ ~ses[ui].cancelled /\ all = Cancelled(ses, ui)
<1>1. CASE ui = None \/ ses[ui].cancelled
      BY <1>1 DEF Forward
<1>2. CASE ui # None /\ ~ses[ui].cancelled
  <2>1. ui \in Sessions /\ ses[ui] \in SesRecords
        BY <1>2, Starting
  <2>2. Len(ses[ui].out) \in Nat /\ OutCapacity \in Nat /\ Reserve \in Nat
        BY <2>1, Names DEF SesRecords, Outs
  <2> DEFINE free == OutCapacity - Len(ses[ui].out)
             queued == [ses EXCEPT ![ui].out = Append(@, IF line \in Requests THEN line ELSE "event")]
  <2>3. all = IF line = "message" THEN (IF free > Reserve THEN queued ELSE ses)
              ELSE IF free > 0 THEN queued ELSE Cancelled(ses, ui)
        BY <1>2, <2>1 DEF Forward
  <2>4. free > Reserve \/ free > 0 => Len(ses[ui].out) < OutCapacity
        BY <2>2
  <2> HIDE DEF free, queued
  <2>5. CASE all = queued /\ Len(ses[ui].out) < OutCapacity
        BY <1>2, <2>1, <2>5 DEF queued
  <2>6. QED  BY <1>2, <2>1, <2>3, <2>4, <2>5
<1>3. QED  BY <1>1, <1>2

LEMMA Forwarding ==
  ASSUME SessionsInv, NEW line \in Requests \cup {"message", "status"}, NEW all,
         all = Forward(line)
  PROVE  /\ SesShape(all)
         /\ \A t \in Sessions : Follows(ses[t], all[t]) /\ all[t].at = ses[t].at
                                /\ all[t].line = ses[t].line
         /\ line \in Requests /\ ui # None => (Served(all[ui]) => line \in Taken(all[ui]))
<1>1. SesShape(ses) /\ ui \in Sessions \cup {None} /\ None \notin Sessions
      BY Starting, Names
<1>2. CASE all = ses /\ (ui = None \/ ses[ui].cancelled \/ line = "message")
  <2>1. line \in Requests => line # "message"
        BY Names
  <2>2. line \in Requests /\ ui # None => ~Served(all[ui])
        BY <1>2, <2>1 DEF Served
  <2>3. \A t \in Sessions : Follows(ses[t], all[t]) /\ all[t].at = ses[t].at /\ all[t].line = ses[t].line
        BY <1>2 DEF Follows
  <2>4. QED  BY <1>1, <1>2, <2>2, <2>3
<1>3. CASE /\ ui \in Sessions /\ ~ses[ui].cancelled /\ Len(ses[ui].out) < OutCapacity
           /\ all = [ses EXCEPT ![ui].out = Append(@, IF line \in Requests THEN line ELSE "event")]
  <2> DEFINE item == IF line \in Requests THEN line ELSE "event"
             v == [ses[ui] EXCEPT !.out = Append(ses[ui].out, item)]
  <2>1. ses[ui] \in SesRecords /\ item \in Items
        BY <1>3, Starting DEF Items
  <2>2. all = [ses EXCEPT ![ui] = v]
        BY <1>1, <1>3 DEF SesShape
  <2>3. line \in Requests => item = line
        OBVIOUS
  <2> HIDE DEF item
  <2>4. /\ v \in SesRecords /\ v.at = ses[ui].at /\ v.cancelled = ses[ui].cancelled
        /\ Taken(v) = Taken(ses[ui]) \cup ({item} \cap Requests) /\ v.line = ses[ui].line
        BY <1>3, <2>1, RecordQueues
  <2> HIDE DEF v
  <2>5. SesShape(all) /\ all[ui] = v /\ \A t \in Sessions \ {ui} : all[t] = ses[t]
        BY <1>1, <1>3, <2>2, <2>4 DEF SesShape
  <2>6. Follows(ses[ui], v)
        BY <2>4 DEF Follows, Served
  <2>7. \A t \in Sessions : Follows(ses[t], all[t]) /\ all[t].at = ses[t].at /\ all[t].line = ses[t].line
    <3>1. \A t \in Sessions \ {ui} : Follows(ses[t], ses[t])
          BY DEF Follows
    <3>2. QED  BY <2>4, <2>5, <2>6, <3>1
  <2>8. line \in Requests => line \in Taken(all[ui])
        BY <2>3, <2>4, <2>5
  <2>9. QED  BY <2>5, <2>7, <2>8
<1>4. CASE ui \in Sessions /\ ~ses[ui].cancelled /\ all = Cancelled(ses, ui)
  <2> DEFINE woken == ses[ui].woken \/ ses[ui].registered
             v == [ses[ui] EXCEPT !.cancelled = TRUE, !.woken = woken]
  <2>1. ses[ui] \in SesRecords
        BY <1>4, Starting
  <2>2. woken \in BOOLEAN
        BY <2>1 DEF SesRecords
  <2>3. all = [ses EXCEPT ![ui] = v]
        BY <1>1, <1>4 DEF Cancelled, SesShape
  <2> HIDE DEF woken
  <2>4. v \in SesRecords /\ v.at = ses[ui].at /\ v.cancelled /\ v.line = ses[ui].line
        BY <2>1, <2>2, RecordCancelled
  <2> HIDE DEF v
  <2>5. SesShape(all) /\ all[ui] = v /\ \A t \in Sessions \ {ui} : all[t] = ses[t]
        BY <1>1, <1>4, <2>3, <2>4 DEF SesShape
  <2>6. ~Served(v) /\ Follows(ses[ui], v)
        BY <2>4 DEF Follows, Served
  <2>7. \A t \in Sessions : Follows(ses[t], all[t]) /\ all[t].at = ses[t].at /\ all[t].line = ses[t].line
    <3>1. \A t \in Sessions \ {ui} : Follows(ses[t], ses[t])
          BY DEF Follows
    <3>2. QED  BY <2>4, <2>5, <2>6, <3>1
  <2>8. QED  BY <2>5, <2>6, <2>7
<1>5. QED  BY <1>2, <1>3, <1>4, ForwardCases

LEMMA SessionsForward ==
  ASSUME SessionsInv, NEW line \in {"message", "status"}, ses' = Forward(line),
         UNCHANGED <<sender, ui, answered>>
  PROVE  SessionPart'
<1>1. SesShape(ses') /\ \A t \in Sessions : Follows(ses[t], ses'[t])
      BY Forwarding
<1>2. QED  BY <1>1, Starting, SessionsFollow DEF SessionPart

\* A Core that is gone leaves nothing behind but what the channel holds.
LEMMA CoreGone ==
  ASSUME CorePart, NEW g \in Nat, core' = [generation |-> g, work |-> {}, said |-> <<>>],
         link' \in Nat, ChanShape(chan'), JournalShape(journal'),
         journal'.entries = journal.entries, UNCHANGED <<confirmed, sender>>,
         chan'.lines \in {chan.lines, <<>>}
  PROVE  CorePart'
<1>1. CoreShape(core') /\ Len(core'.said) = 0 /\ core'.work = {}
      BY DEF CoreShape, Said
<1>2. \A i \in 1..Len(core'.said) : FALSE
      BY <1>1
<1>3. \A i \in 1..Len(chan'.lines) : chan'.lines[i] # "activity" => Asked(chan'.lines[i])
      BY DEF CorePart, OnTheWay
<1>4. OnTheWay'
      BY <1>1, <1>2, <1>3 DEF OnTheWay, Asked
<1>5. SaidIsDone'
      BY <1>2 DEF SaidIsDone
<1>6. QED  BY <1>1, <1>4, <1>5, CoreMoves DEF CorePart

\* What becomes of the channel.
LEMMA ChannelEmpties ==
  ASSUME ChanShape(chan), NEW next \in {"serve", "discard", "abort", "start"}
  PROVE  /\ ChanShape([chan EXCEPT !.next = next])
         /\ [chan EXCEPT !.next = next].lines = chan.lines
         /\ ChanShape([chan EXCEPT !.open = FALSE, !.lines = <<>>, !.next = next])
         /\ [chan EXCEPT !.open = FALSE, !.lines = <<>>, !.next = next].lines = <<>>
<1>1. <<>> \in CoreLines
      BY Names DEF CoreLines
<1>2. QED  BY <1>1 DEF ChanShape

LEMMA Losing == ASSUME SessionsInv, CoreLost PROVE SessionsInv'
<1>1. /\ budget.losses > 0 /\ budget' = [budget EXCEPT !.losses = budget.losses - 1]
      /\ link' = 0 /\ chan' = [chan EXCEPT !.next = "discard"]
      /\ core' = [generation |-> 0, work |-> {}, said |-> <<>>] /\ ses' = Forward("status")
      /\ UNCHANGED <<server, stopping, leaving, ui, journal, sender, answered, confirmed>>
      BY DEF CoreLost
<1>2. SessionPart'
      BY <1>1, SessionsForward
<1>3. ChanShape(chan') /\ chan'.lines = chan.lines
      BY <1>1, Starting, ChannelEmpties
<1>4. CorePart'
  <2>1. CorePart /\ 0 \in Nat /\ JournalShape(journal)
        BY Starting
  <2>2. QED  BY <1>1, <1>3, <2>1, CoreGone
<1>5. RestPart'
      BY <1>1, Starting DEF RestPart, BudgetShape
<1>6. QED  BY <1>2, <1>4, <1>5 DEF SessionsInv

LEMMA Restarting == ASSUME SessionsInv, CoreReady PROVE SessionsInv'
<1> DEFINE g == chan.generation + 1
<1>1. /\ link' = g /\ core' = [generation |-> g, work |-> {}, said |-> <<>>]
      /\ chan' = [generation |-> g, open |-> TRUE, lines |-> <<>>, next |-> "serve"]
      /\ ses' = Forward("status")
      /\ UNCHANGED <<server, stopping, leaving, ui, journal, sender, answered, confirmed, budget>>
      BY DEF CoreReady
<1>2. g \in Nat
      BY Starting DEF ChanShape
<1> HIDE DEF g
<1>3. SessionPart'
      BY <1>1, SessionsForward
<1>4. ChanShape(chan') /\ chan'.lines = <<>>
  <2>1. <<>> \in CoreLines
        BY Names DEF CoreLines
  <2>2. QED  BY <1>1, <1>2, <2>1 DEF ChanShape
<1>5. CorePart'
  <2>1. CorePart /\ JournalShape(journal)
        BY Starting
  <2>2. QED  BY <1>1, <1>2, <1>4, <2>1, CoreGone
<1>6. QED  BY <1>1, <1>3, <1>5, Starting, RestKept DEF SessionsInv

LEMMA Leaving == ASSUME SessionsInv, NEW s \in Sessions, ShutdownAcked(s) PROVE SessionsInv'
<1> DEFINE all == Forward("status")
<1>1. /\ ses[s].at = "loop" /\ leaving' = TRUE /\ ses' = [all EXCEPT ![s].at = "acked"]
      /\ link' = 0 /\ chan' = [chan EXCEPT !.open = FALSE, !.lines = <<>>, !.next = "start"]
      /\ core' = [generation |-> 0, work |-> {}, said |-> <<>>]
      /\ journal' = Discarded(journal)
      /\ UNCHANGED <<server, stopping, ui, sender, answered, confirmed, budget>>
      BY DEF ShutdownAcked
<1>2. /\ SesShape(all)
      /\ \A t \in Sessions : Follows(ses[t], all[t]) /\ all[t].at = ses[t].at
                             /\ all[t].line = ses[t].line
      BY Forwarding
<1> HIDE DEF all
<1> DEFINE v == [all[s] EXCEPT !.at = "acked"]
<1>3. all[s] \in SesRecords /\ "acked" \in Steps /\ ses[s].at \in Installed
      /\ "acked" \notin {"none", "auth", "stage", "send"}
      BY <1>1, <1>2 DEF SesShape, Steps, Installed
<1>4. ses' = [all EXCEPT ![s] = v]
      BY <1>1, <1>2 DEF SesShape
<1>5. /\ v \in SesRecords /\ v.at = "acked" /\ v.cancelled = all[s].cancelled
      /\ v.out = all[s].out /\ v.got = all[s].got /\ v.line = all[s].line
      BY <1>3, RecordGoes
<1> HIDE DEF v
<1>6. /\ SesShape(ses') /\ ses'[s] = v /\ \A t \in Sessions \ {s} : ses'[t] = all[t]
      BY <1>2, <1>4, <1>5 DEF SesShape
<1>7. Follows(ses[s], v)
  <2>1. Served(v) => Served(all[s])
        BY <1>2, <1>3, <1>5 DEF Served
  <2>2. Taken(v) = Taken(all[s])
        BY <1>5 DEF Taken
  <2>3. QED  BY <1>2, <1>3, <1>5, <2>1, <2>2 DEF Follows
<1>8. \A t \in Sessions : Follows(ses[t], ses'[t])
      BY <1>2, <1>6, <1>7
<1>9. SessionPart'
      BY <1>1, <1>6, <1>8, Starting, SessionsFollow DEF SessionPart
<1>10. ChanShape(chan') /\ chan'.lines = <<>>
       BY <1>1, Starting, ChannelEmpties
<1>11. JournalShape(journal') /\ journal'.entries = journal.entries
       BY <1>1, Starting, JournalGivesUp
<1>12. CorePart'
  <2>1. CorePart /\ 0 \in Nat
        BY Starting
  <2>2. QED  BY <1>1, <1>10, <1>11, <2>1, CoreGone
<1>13. RestPart'
       BY <1>1, Starting DEF RestPart
<1>14. QED  BY <1>9, <1>12, <1>13 DEF SessionsInv

\* What is pending is given up, then the writer is stopped.
LEMMA GivingUp == ASSUME SessionsInv, DiscardPending \/ WriterAborted PROVE SessionsInv'
<1>1. UNCHANGED <<server, stopping, leaving, ses, ui, link, core, sender, answered, confirmed, budget>>
      BY DEF DiscardPending, WriterAborted
<1>2. /\ ChanShape(chan') /\ chan'.lines \in {chan.lines, <<>>}
      /\ JournalShape(journal') /\ journal'.entries = journal.entries
  <2>1. CASE DiscardPending
        BY <2>1, Starting, ChannelEmpties, JournalGivesUp DEF DiscardPending
  <2>2. CASE WriterAborted
        BY <2>2, Starting, ChannelEmpties DEF WriterAborted
  <2>3. QED  BY <2>1, <2>2
<1>3. CorePart'
  <2>1. CorePart
        BY Starting
  <2>2. OnTheWay'
    <3>1. \A i \in 1..Len(chan'.lines) : chan'.lines[i] # "activity" => Asked(chan'.lines[i])
          BY <1>2, <2>1 DEF CorePart, OnTheWay
    <3>2. QED  BY <1>1, <2>1, <3>1 DEF CorePart, OnTheWay, Asked
  <2>3. QED  BY <1>1, <1>2, <2>1, <2>2, CoreMoves DEF CorePart, SaidIsDone
<1>4. QED  BY <1>1, <1>3, Starting, SessionsKept, RestKept DEF SessionsInv

-----------------------------------------------------------------------------
(* The Core.                                                               *)

\* The writer hands over the request at the head of the channel.
LEMMA WriterSending == ASSUME SessionsInv, WriterSends PROVE SessionsInv'
<1>1. /\ chan.lines # <<>> /\ chan' = [chan EXCEPT !.lines = Tail(chan.lines)]
      /\ core' = [core EXCEPT !.work = core.work \cup ({Head(chan.lines)} \cap Requests)]
      /\ UNCHANGED <<server, stopping, leaving, ses, ui, link, journal, sender, answered,
                     confirmed, budget>>
      BY DEF WriterSends
<1>2. CorePart /\ ChanShape(chan) /\ CoreShape(core) /\ chan.lines \in CoreLines
      BY Starting DEF ChanShape
<1>3. /\ Tail(chan.lines) \in CoreLines
      /\ Head(chan.lines) = chan.lines[1] /\ 1 \in 1..Len(chan.lines)
      /\ \A i \in 1..Len(Tail(chan.lines)) : \E n \in 1..Len(chan.lines) : Tail(chan.lines)[i] = chan.lines[n]
      BY <1>1, <1>2, QueueTails, Names DEF CoreLines
<1>4. ChanShape(chan') /\ chan'.lines = Tail(chan.lines)
      BY <1>1, <1>2, <1>3 DEF ChanShape
<1> DEFINE more == {Head(chan.lines)} \cap Requests
<1>5. more \subseteq Requests /\ \A r \in more : Asked(r)
  <2>1. \A r \in more : r = chan.lines[1] /\ r # "activity"
        BY <1>3, Names
  <2>2. QED  BY <1>2, <1>3, <2>1 DEF CorePart, OnTheWay
<1> HIDE DEF more
<1>6. CoreShape(core') /\ core'.work = core.work \cup more /\ core'.said = core.said
  <2>1. core' = [core EXCEPT !.work = core.work \cup more]
        BY <1>1 DEF more
  <2>2. QED  BY <1>2, <1>5, <2>1 DEF CoreShape
<1>7. OnTheWay'
  <2>1. \A i \in 1..Len(chan'.lines) : chan'.lines[i] # "activity" => Asked(chan'.lines[i])
        BY <1>2, <1>3, <1>4 DEF CorePart, OnTheWay
  <2>2. \A r \in core'.work : Asked(r)
        BY <1>2, <1>5, <1>6 DEF CorePart, OnTheWay
  <2>3. QED  BY <1>1, <1>2, <1>6, <2>1, <2>2 DEF CorePart, OnTheWay, Asked
<1>8. SaidIsDone'
      BY <1>1, <1>2, <1>6 DEF CorePart, SaidIsDone
<1>9. CorePart'
      BY <1>1, <1>2, <1>4, <1>6, <1>7, <1>8, CoreMoves DEF CorePart
<1>10. QED  BY <1>1, <1>9, Starting, SessionsKept, RestKept DEF SessionsInv

LEMMA CoreSaysMore ==
  ASSUME CorePart, NEW work \in SUBSET core.work, NEW x \in Said,
         core' = [core EXCEPT !.work = work, !.said = Append(core.said, x)],
         x.line # "message" => Asked(x.line) /\ (x.ok => x.line \in confirmed'),
         confirmed \subseteq confirmed', confirmed' \subseteq Requests,
         UNCHANGED <<link, chan, journal, sender>>
  PROVE  CorePart'
<1>1. CoreShape(core) /\ core.said \in Seq(Said) /\ core.work \subseteq Requests
      BY DEF CorePart, CoreShape
<1> DEFINE q == Append(core.said, x)
<1>2. q \in Seq(Said) /\ Len(q) = Len(core.said) + 1 /\ q[Len(q)] = x
      /\ \A i \in 1..Len(core.said) : q[i] = core.said[i]
      BY <1>1
<1>3. Len(core.said) \in Nat
      BY <1>1
<1> HIDE DEF q
<1>4. \A i \in 1..Len(q) : i \in 1..Len(core.said) \/ i = Len(q)
      BY <1>2, <1>3
<1>5. CoreShape(core') /\ core'.work = work /\ core'.said = q
  <2> DEFINE a == [core EXCEPT !.work = work]
  <2>1. CoreShape(a) /\ a.work = work /\ a.said = core.said
        BY <1>1 DEF CoreShape
  <2>2. core' = [a EXCEPT !.said = q]
        BY <1>1 DEF CoreShape, q
  <2> HIDE DEF a
  <2>3. QED  BY <1>2, <2>1, <2>2 DEF CoreShape
<1>6. \A i \in 1..Len(q) : q[i] = x \/ \E n \in 1..Len(core.said) : q[i] = core.said[n]
      BY <1>2, <1>4
<1>7. OnTheWay'
  <2>1. \A i \in 1..Len(q) : q[i].line # "message" => Asked(q[i].line)
        BY <1>6 DEF CorePart, OnTheWay
  <2>2. \A r \in work : Asked(r)
        BY DEF CorePart, OnTheWay
  <2>3. QED  BY <1>5, <2>1, <2>2 DEF CorePart, OnTheWay, Asked
<1>8. SaidIsDone'
  <2>1. \A i \in 1..Len(q) : q[i].ok /\ q[i].line # "message" => q[i].line \in confirmed'
        BY <1>6 DEF CorePart, SaidIsDone
  <2>2. QED  BY <1>5, <2>1 DEF SaidIsDone
<1>9. QED  BY <1>5, <1>7, <1>8, CoreMoves DEF CorePart

LEMMA Answering ==
  ASSUME SessionsInv, NEW r \in Requests, NEW ok \in BOOLEAN, CoreAnswers(r, ok)
  PROVE  SessionsInv'
<1> DEFINE x == [line |-> r, ok |-> ok]
<1>1. /\ r \in core.work
      /\ core' = [core EXCEPT !.work = core.work \ {r}, !.said = Append(core.said, x)]
      /\ confirmed' = IF ok THEN confirmed \cup {r} ELSE confirmed
      /\ UNCHANGED <<server, stopping, leaving, ses, ui, link, chan, journal, sender, answered, budget>>
      BY DEF CoreAnswers
<1>2. x \in Said /\ x.line = r /\ x.ok = ok
      BY DEF Said
<1>3. CorePart /\ confirmed \subseteq Requests /\ Asked(r)
      BY <1>1, Starting DEF CorePart, OnTheWay
<1> HIDE DEF x
<1>4. confirmed \subseteq confirmed' /\ confirmed' \subseteq Requests /\ (ok => r \in confirmed')
      BY <1>1, <1>3
<1>5. core.work \ {r} \in SUBSET core.work
      OBVIOUS
<1>6. CorePart'
      BY <1>1, <1>2, <1>3, <1>4, <1>5, CoreSaysMore
<1>7. QED  BY <1>1, <1>6, Starting, SessionsKept, RestKept DEF SessionsInv

LEMMA Speaking == ASSUME SessionsInv, CoreSpeaks PROVE SessionsInv'
<1> DEFINE x == [line |-> "message", ok |-> TRUE]
<1>1. /\ budget.messages > 0 /\ core' = [core EXCEPT !.said = Append(core.said, x)]
      /\ budget' = [budget EXCEPT !.messages = budget.messages - 1]
      /\ UNCHANGED <<server, stopping, leaving, ses, ui, link, chan, journal, sender, answered,
                     confirmed>>
      BY DEF CoreSpeaks
<1>2. x \in Said /\ x.line = "message"
      BY DEF Said
<1>3. CorePart /\ confirmed \subseteq Requests /\ CoreShape(core)
      BY Starting DEF CorePart
<1> HIDE DEF x
<1>4. core' = [core EXCEPT !.work = core.work, !.said = Append(core.said, x)]
      BY <1>1, <1>3 DEF CoreShape
<1>5. core.work \in SUBSET core.work
      OBVIOUS
<1>6. CorePart'
      BY <1>1, <1>2, <1>3, <1>4, <1>5, CoreSaysMore
<1>7. RestPart'
      BY <1>1, Starting DEF RestPart, BudgetShape
<1>8. QED  BY <1>1, <1>6, <1>7, Starting, SessionsKept DEF SessionsInv

LEMMA JournalRemoves ==
  ASSUME NEW j, JournalShape(j), NEW r \in Requests
  PROVE  JournalShape(Without(j, r)) /\ Without(j, r).entries = j.entries
<1>1. j.pending \in Seq(Requests) /\ Len(j.pending) <= MaxEntries
      BY DEF JournalShape, Pendings
<1> DEFINE p == Removed(j.pending, r)
<1>2. p \in Seq(Requests) /\ Len(p) <= Len(j.pending)
      BY <1>1, QueueRemoves
<1> HIDE DEF p
<1>3. p \in Pendings
      BY <1>1, <1>2, Names DEF Pendings
<1>4. Without(j, r) = [j EXCEPT !.pending = p]
      BY DEF Without, p
<1>5. QED  BY <1>3, <1>4 DEF JournalShape

\* A request that is recorded replaces the value of its key, and nothing else is new.
LEMMA JournalRecords ==
  ASSUME NEW j, JournalShape(j), NEW r \in Requests
  PROVE  /\ JournalShape(Record(j, r))
         /\ \A k \in Keys : \/ Record(j, r).entries[k] \in {j.entries[k], None}
                            \/ k = KeyOf[r] /\ Record(j, r).entries[k] = r
<1> DEFINE k == KeyOf[r]
           entries == [j.entries EXCEPT ![k] = r]
           order == IF k \in ProxyKeys THEN Append(Removed(j.order, k), k) ELSE j.order
           full == Cardinality({q \in Keys : entries[q] # None}) > MaxEntries
           forgets == [j EXCEPT !.entries = [entries EXCEPT ![Head(order)] = None], !.order = Tail(order)]
           keeps == [j EXCEPT !.entries = entries, !.order = order]
<1>1. Record(j, r) = IF full /\ order # <<>> THEN forgets ELSE keeps
      BY DEF Record
<1>2. k \in Keys /\ ProxyKeys \subseteq Keys
      BY KeysAssumption
<1>3. j.entries \in [Keys -> Requests \cup {None}] /\ j.order \in Seq(ProxyKeys)
      BY DEF JournalShape
<1>4. /\ entries \in [Keys -> Requests \cup {None}]
      /\ \A q \in Keys : entries[q] = j.entries[q] \/ (q = k /\ entries[q] = r)
      BY <1>2, <1>3
<1>5. order \in Seq(ProxyKeys)
  <2>1. Removed(j.order, k) \in Seq(ProxyKeys)
        BY <1>3, QueueRemoves
  <2>2. QED  BY <1>3, <2>1
<1> HIDE DEF entries, order, full
<1>6. CASE Record(j, r) = keeps
  <2> DEFINE a == [j EXCEPT !.entries = entries]
  <2>1. JournalShape(a) /\ a.entries = entries
        BY <1>4 DEF JournalShape
  <2>2. keeps = [a EXCEPT !.order = order]
        BY DEF JournalShape
  <2> HIDE DEF a
  <2>3. JournalShape([a EXCEPT !.order = order]) /\ [a EXCEPT !.order = order].entries = entries
        BY <1>5, <2>1 DEF JournalShape
  <2> HIDE DEF keeps
  <2>4. JournalShape(Record(j, r)) /\ Record(j, r).entries = entries
        BY <1>6, <2>2, <2>3
  <2>5. QED  BY <1>4, <2>4
<1>7. CASE Record(j, r) = forgets /\ order # <<>>
  <2>1. Head(order) \in Keys /\ Tail(order) \in Seq(ProxyKeys)
        BY <1>2, <1>5, <1>7
  <2> DEFINE less == [entries EXCEPT ![Head(order)] = None]
             rest == Tail(order)
             a == [j EXCEPT !.entries = less]
  <2>2. less \in [Keys -> Requests \cup {None}] /\ \A q \in Keys : less[q] \in {entries[q], None}
        BY <1>4, <2>1
  <2>3. rest \in Seq(ProxyKeys)
        BY <2>1
  <2>4. forgets = [j EXCEPT !.entries = less, !.order = rest]
        OBVIOUS
  <2> HIDE DEF less, rest, forgets
  <2>5. JournalShape(a) /\ a.entries = less
        BY <2>2 DEF JournalShape
  <2>6. [j EXCEPT !.entries = less, !.order = rest] = [a EXCEPT !.order = rest]
        BY DEF JournalShape
  <2> HIDE DEF a
  <2>7. JournalShape([a EXCEPT !.order = rest]) /\ [a EXCEPT !.order = rest].entries = less
        BY <2>3, <2>5 DEF JournalShape
  <2>8. JournalShape(Record(j, r)) /\ Record(j, r).entries = less
        BY <1>7, <2>4, <2>6, <2>7
  <2>9. \A q \in Keys : less[q] \in {j.entries[q], None} \/ (q = KeyOf[r] /\ less[q] = r)
    <3>1. \A q \in Keys : less[q] \in {entries[q], None}
          BY <2>2
    <3>2. \A q \in Keys : entries[q] = j.entries[q] \/ (q = KeyOf[r] /\ entries[q] = r)
          BY <1>4
    <3>3. QED  BY <3>1, <3>2
  <2>10. QED  BY <2>8, <2>9
<1>8. QED  BY <1>1, <1>6, <1>7

\* Committed is only what was accepted.
LEMMA JournalCommits ==
  ASSUME NEW j, JournalShape(j), NEW r \in Requests, NEW ok \in BOOLEAN
  PROVE  /\ JournalShape(Commit(j, r, ok))
         /\ \A k \in Keys : \/ Commit(j, r, ok).entries[k] \in {j.entries[k], None}
                            \/ ok /\ k = KeyOf[r] /\ Commit(j, r, ok).entries[k] = r
<1>1. JournalShape(Without(j, r)) /\ Without(j, r).entries = j.entries
      BY JournalRemoves
<1>2. CASE Commit(j, r, ok) = j
      BY <1>2
<1>3. CASE Commit(j, r, ok) = Without(j, r)
      BY <1>1, <1>3
<1>4. CASE ok /\ Commit(j, r, ok) = Record(Without(j, r), r)
  <2> DEFINE w == Without(j, r)
  <2>1. JournalShape(w) /\ w.entries = j.entries
        BY <1>1
  <2> HIDE DEF w
  <2>2. /\ JournalShape(Record(w, r))
        /\ \A k \in Keys : \/ Record(w, r).entries[k] \in {w.entries[k], None}
                           \/ k = KeyOf[r] /\ Record(w, r).entries[k] = r
        BY <2>1, JournalRecords
  <2>3. Commit(j, r, ok) = Record(w, r)
        BY <1>4 DEF w
  <2>4. QED  BY <1>4, <2>1, <2>2, <2>3
<1>5. QED  BY <1>2, <1>3, <1>4 DEF Commit

LEMMA Reading == ASSUME SessionsInv, AgentReads PROVE SessionsInv'
<1> DEFINE said == Head(core.said)
<1>1. /\ core.said # <<>>
      /\ journal' = IF said.line = "message" THEN journal ELSE Commit(journal, said.line, said.ok)
      /\ answered' = answered \cup ({said.line} \cap Requests)
      /\ ses' = Forward(said.line)
      /\ core' = [core EXCEPT !.said = Tail(core.said)]
      /\ UNCHANGED <<server, stopping, leaving, ui, link, chan, sender, confirmed, budget>>
      BY DEF AgentReads
<1>2. SessionPart /\ CorePart /\ CoreShape(core) /\ JournalShape(journal) /\ core.said \in Seq(Said)
      BY Starting DEF CoreShape
<1>3. /\ said \in Said /\ said = core.said[1] /\ 1 \in 1..Len(core.said)
      /\ Tail(core.said) \in Seq(Said)
      /\ \A i \in 1..Len(Tail(core.said)) : \E n \in 1..Len(core.said) : Tail(core.said)[i] = core.said[n]
  <2>1. core.said \in {q \in Seq(Said) : Len(q) <= Len(core.said)} /\ Len(core.said) \in Nat
        BY <1>2
  <2>2. QED  BY <1>1, <2>1, QueueTails
<1> HIDE DEF said
<1>4. /\ said.line \in Requests \cup {"message"} /\ said.ok \in BOOLEAN
      /\ said.line # "message" => said.line \in Requests /\ Asked(said.line)
      /\ said.ok /\ said.line # "message" => said.line \in confirmed
      BY <1>2, <1>3 DEF Said, CorePart, OnTheWay, SaidIsDone
<1>5. /\ SesShape(ses') /\ \A t \in Sessions : Follows(ses[t], ses'[t])
      /\ said.line \in Requests /\ ui # None => (Served(ses'[ui]) => said.line \in Taken(ses'[ui]))
      BY <1>1, <1>4, Forwarding
<1>6. SessionPart'
  <2>1. ASSUME NEW r \in answered' \ answered
        PROVE  Asked(r) /\ (Served(ses'[sender[r]]) => r \in Taken(ses'[sender[r]]))
    <3>1. r = said.line /\ r \in Requests /\ Asked(r)
          BY <1>1, <1>4, <2>1, Names
    <3>2. sender[r] \in Sessions
          BY <3>1, Starting DEF SenderShape, Asked
    <3>3. ASSUME Served(ses'[sender[r]]) PROVE r \in Taken(ses'[sender[r]])
      <4>1. Served(ses[sender[r]])
            BY <1>5, <3>2, <3>3 DEF Follows
      <4>2. ui = sender[r] /\ ui # None
            BY <1>2, <3>2, <4>1, Names DEF SessionPart, LiveSessionIsCurrent, Served
      <4>3. QED  BY <1>5, <3>1, <3>3, <4>2
    <3>4. QED  BY <3>1, <3>3
  <2>2. answered' \subseteq Requests
        BY <1>1, <1>2 DEF SessionPart
  <2>3. QED  BY <1>1, <1>5, <2>1, <2>2, Starting, SessionsFollow
<1>7. CoreShape(core') /\ core'.work = core.work /\ core'.said = Tail(core.said)
      BY <1>1, <1>2, <1>3 DEF CoreShape
<1>8. /\ JournalShape(journal')
      /\ \A k \in Keys : \/ journal'.entries[k] \in {journal.entries[k], None}
                         \/ /\ said.line \in confirmed /\ k = KeyOf[said.line]
                            /\ journal'.entries[k] = said.line
  <2>1. CASE said.line = "message"
        BY <1>1, <1>2, <2>1
  <2>2. CASE said.line # "message"
    <3>1. journal' = Commit(journal, said.line, said.ok) /\ said.line \in Requests
          BY <1>1, <1>4, <2>2
    <3>2. QED  BY <1>2, <1>4, <2>2, <3>1, JournalCommits
  <2>3. QED  BY <2>1, <2>2
<1>9. ReplaysOnlyConfirmed'
  <2>1. \A k \in Keys : journal.entries[k] # None =>
          journal.entries[k] \in confirmed /\ KeyOf[journal.entries[k]] = k
        BY <1>2 DEF CorePart, ReplaysOnlyConfirmed, ReplayLines
  <2>2. \A k \in Keys : journal'.entries[k] # None =>
          journal'.entries[k] \in confirmed /\ KeyOf[journal'.entries[k]] = k
        BY <1>8, <2>1
  <2>3. QED  BY <1>1, <2>2 DEF ReplaysOnlyConfirmed, ReplayLines
<1>10. OnTheWay'
  <2>1. \A i \in 1..Len(core'.said) : core'.said[i].line # "message" => Asked(core'.said[i].line)
        BY <1>2, <1>3, <1>7 DEF CorePart, OnTheWay
  <2>2. QED  BY <1>1, <1>2, <1>7, <2>1 DEF CorePart, OnTheWay, Asked
<1>11. SaidIsDone'
  <2>1. \A i \in 1..Len(core'.said) :
          core'.said[i].ok /\ core'.said[i].line # "message" => core'.said[i].line \in confirmed
        BY <1>2, <1>3, <1>7 DEF CorePart, SaidIsDone
  <2>2. QED  BY <1>1, <2>1 DEF SaidIsDone
<1>12. CorePart'
       BY <1>1, <1>2, <1>7, <1>8, <1>9, <1>10, <1>11 DEF CorePart
<1>13. QED  BY <1>1, <1>6, <1>12, Starting, RestKept DEF SessionsInv

-----------------------------------------------------------------------------
(* The invariant.                                                          *)

LEMMA InitEstablishes == Init => SessionsInv
<1> SUFFICES ASSUME Init PROVE SessionsInv
    OBVIOUS
<1>1. ASSUME NEW s \in Sessions
      PROVE  ses[s] \in SesRecords /\ ses[s].at = "none" /\ ses[s].line = None /\ ~Served(ses[s])
      BY RecordCloses DEF Init, Steps, Installed, Served
<1>2. SesShape(ses)
      BY <1>1 DEF SesShape, Init
<1>3. Authenticating = {} /\ IsFiniteSet({}) /\ Cardinality({}) = 0 /\ 0 <= MaxPending
      BY <1>1, FS_EmptySet, Names DEF Authenticating
<1>4. \A r \in Requests : ~Asked(r)
      BY DEF Asked, Init
<1>5. SessionPart
      BY <1>1, <1>2, <1>3, <1>4
      DEF SessionPart, Init, SenderShape, AuthBounded, LiveSessionIsCurrent, AnswersOrDisconnects,
          SendersBegan, LinesAsked, Served
<1>6. <<>> \in CoreLines /\ <<>> \in Pendings /\ <<>> \in Seq(Said) /\ <<>> \in Seq(ProxyKeys)
      /\ Len(<<>>) = 0 /\ \A i \in 1..0 : FALSE
      BY Names DEF CoreLines, Pendings
<1>7. ChanShape(chan) /\ CoreShape(core) /\ JournalShape(journal)
      BY <1>6 DEF Init, ChanShape, CoreShape, JournalShape
<1>8. ReplaysOnlyConfirmed
      BY DEF Init, ReplaysOnlyConfirmed, ReplayLines
<1>9. OnTheWay /\ SaidIsDone
      BY <1>6 DEF Init, OnTheWay, SaidIsDone
<1>10. CorePart
       BY <1>7, <1>8, <1>9 DEF CorePart, Init
<1>11. RestPart
       BY BudgetsAssumption DEF RestPart, Init, ServerShape, BudgetShape
<1>12. QED  BY <1>5, <1>10, <1>11 DEF SessionsInv

LEMMA Stutters == ASSUME SessionsInv, UNCHANGED vars PROVE SessionsInv'
<1>1. UNCHANGED <<server, stopping, leaving, ses, ui, link, chan, core, journal, sender, answered,
                  confirmed, budget>>
      BY DEF vars
<1>2. QED  BY <1>1, Starting, SessionsKept, CoreKept, RestKept DEF SessionsInv

LEMMA NextPreserves == SessionsInv /\ [Next]_vars => SessionsInv'
<1> SUFFICES ASSUME SessionsInv, [Next]_vars PROVE SessionsInv'
    OBVIOUS
<1>1. CASE ServeWaits \/ ServeEnds \/ FallbackSignals
      BY <1>1, Serving, ServingEnds
<1>2. ASSUME NEW s \in Sessions,
             AuthFails(s) \/ Install(s) \/ Watch(s) \/ Cancel(s) \/ WriteOut(s) \/ Greet(s)
             \/ Announce(s) \/ Stage(s) \/ Send(s) \/ SendFails(s) \/ Deliver(s)
             \/ SignalShutdown(s) \/ Cleanup(s)
      PROVE  SessionsInv'
  <2>1. CASE AuthFails(s) \/ Install(s)
        BY <2>1, AuthFailing, Installing
  <2>2. CASE Watch(s) \/ Cancel(s)
        BY <2>2, Going
  <2>3. CASE WriteOut(s) \/ Greet(s) \/ Deliver(s)
        BY <2>3, Writing, Telling
  <2>4. CASE Announce(s) \/ SignalShutdown(s)
        BY <2>4, Announcing, ShuttingDown
  <2>5. CASE Stage(s) \/ Send(s) \/ SendFails(s)
        BY <2>5, Staging, Sending, SendingFails
  <2>6. CASE Cleanup(s)
        BY <2>6, CleaningUp
  <2>7. QED  BY <1>2, <2>1, <2>2, <2>3, <2>4, <2>5, <2>6
<1>3. CASE WriterSends \/ AgentReads \/ DiscardPending \/ WriterAborted \/ CoreReady
      BY <1>3, WriterSending, Reading, GivingUp, Restarting
<1>4. ASSUME NEW r \in Requests, NEW ok \in BOOLEAN, CoreAnswers(r, ok) PROVE SessionsInv'
      BY <1>4, Answering
<1>5. ASSUME NEW s \in Sessions,
             Accept(s) \/ ClientEnds(s) \/ ShutdownAcked(s) \/ \E r \in Requests : Ask(s, r)
      PROVE  SessionsInv'
      BY <1>5, Accepting, Going, Leaving, Asking
<1>6. CASE CoreSpeaks \/ CoreLost
      BY <1>6, Speaking, Losing
<1>7. CASE UNCHANGED vars
      BY <1>7, Stutters
<1>8. QED  BY <1>1, <1>2, <1>3, <1>4, <1>5, <1>6, <1>7 DEF Next, Program, Environment

\* Whatever clients, the Core and the accept loop of serve_ui do, the parts of
\* the Agent stay as SessionsInv says: which session is served, where a request
\* and its answer are, and what the journal holds.
THEOREM SessionsInvHolds == Spec => []SessionsInv
<1>1. Init => SessionsInv
      BY InitEstablishes
<1>2. SessionsInv /\ [Next]_vars => SessionsInv'
      BY NextPreserves
<1>3. QED  BY <1>1, <1>2, PTL DEF Spec

LEMMA PartsHaveTheirTypes == SessionsInv => TypeOK
<1> SUFFICES ASSUME SessionsInv PROVE TypeOK
    OBVIOUS
<1>1. /\ ses \in [Sessions -> [at : Steps, cancelled : BOOLEAN, registered : BOOLEAN,
                               woken : BOOLEAN, out : Seq(Items), got : SUBSET Requests,
                               line : Requests \cup {None}, link : Nat]]
      /\ \A s \in Sessions : Len(ses[s].out) <= OutCapacity
  <2>1. \A s \in Sessions : ses[s] \in SesRecords
        BY Starting
  <2>2. \A s \in Sessions :
          /\ ses[s] \in [at : Steps, cancelled : BOOLEAN, registered : BOOLEAN,
                         woken : BOOLEAN, out : Seq(Items), got : SUBSET Requests,
                         line : Requests \cup {None}, link : Nat]
          /\ Len(ses[s].out) <= OutCapacity
        BY <2>1 DEF SesRecords, Outs
  <2>3. QED  BY <2>2, Starting DEF SesShape
<1>2. Cardinality({s \in Sessions : ses[s].at = "auth"}) <= MaxPending
      BY Starting DEF SessionPart, AuthBounded, Authenticating
<1>3. /\ chan \in [generation : Nat, open : BOOLEAN, lines : Seq(Lines),
                   next : {"serve", "discard", "abort", "start"}]
      /\ Len(chan.lines) <= CoreCapacity
      BY Starting DEF ChanShape, CoreLines
<1>4. /\ journal \in [entries : [Keys -> Requests \cup {None}], order : Seq(ProxyKeys),
                      pending : Seq(Requests)]
      /\ Len(journal.pending) <= MaxEntries
      BY Starting DEF JournalShape, Pendings
<1>5. core \in [generation : Nat, work : SUBSET Requests,
                said : Seq([line : Requests \cup {"message"}, ok : BOOLEAN])]
      BY Starting DEF CoreShape, Said
<1>6. QED
      BY <1>1, <1>2, <1>3, <1>4, <1>5, Starting
      DEF TypeOK, SessionPart, CorePart, RestPart, ServerShape, SenderShape, BudgetShape

\* SessionsInvariant for any number of clients, requests and losses of the Core:
\* the session that is served is the one in shared.ui (install_session and the
\* clean-up that compares the id), and the replay journal gives a new Core only
\* what one before it acknowledged (commit_response).
THEOREM SessionsAreSound == Spec => []SessionsInvariant
<1>1. SessionsInv => SessionsInvariant
      BY PartsHaveTheirTypes DEF SessionsInv, SessionPart, CorePart, SessionsInvariant
<1>2. QED  BY <1>1, SessionsInvHolds, PTL

\* AnswersOrDisconnects for queues of any length: forward_to_ui does not wait for
\* a slow client, and still the session that asked has its answer or is cancelled.
THEOREM AnswersAreNeverLost == Spec => []AnswersOrDisconnects
<1>1. SessionsInv => AnswersOrDisconnects
      BY DEF SessionsInv, SessionPart
<1>2. QED  BY <1>1, SessionsInvHolds, PTL
=============================================================================
