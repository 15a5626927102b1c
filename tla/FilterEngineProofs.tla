-------------------------- MODULE FilterEngineProofs --------------------------
(***************************************************************************)
(* The filters of the Broker, for any policies, any number of lives of the *)
(* service, calls and disturbances.  A transaction that is not lost with   *)
(* its session belongs to the call under way, and what it would commit     *)
(* differs from the filters by what the call has done so far: so a commit  *)
(* is one change of the filters of one class, whatever failed before.      *)
(***************************************************************************)
EXTENDS FilterEngine, TLAPS

Keys == Layers \X FilterKeys
Rights == {"indexed", "clear", "unregistered", "persistent"}
FilterActions == {"Terminating", "FlowTracking", "ConditionalCapture"}
Specs == [key : Keys, layer : Layers, app : FilterKeys, action : FilterActions,
           rights : SUBSET Rights]
Work == Specs \cup Layers
Writes == {"provision", "replace", "remove"}
DriverCalls == {"upload", "unload", "activate", "deactivate"}
\* Where a call has a transaction of its own.
Inside == Steps \cup {"abort"}

CallShape(c) ==
  c \in [op : {"none", "snapshot"} \cup Writes \cup DriverCalls, class : Classes,
         policy : Policies \cup {None},
         pc : Inside \cup {"idle", "begin", "issue", "reply", "attest", "driver", "objects",
                           "filters"},
         left : SUBSET Work, keys : SUBSET Keys, done : BOOLEAN]
AnswerShape(a) ==
  a \in [op : {"none", "snapshot"} \cup Writes \cup DriverCalls, class : Classes, ok : BOOLEAN]
DraftShape(d) == d \in [objects : Conditions, filters : SUBSET Filter]
SessionShape(w) == w \in {NoSession} \cup ((1 .. MaxLives) \X Classes)
ProcessShape(p) == p \in [running : BOOLEAN, life : 0 .. MaxLives]
HandlesShape(h) == h \in [Classes -> BOOLEAN]
ControlShape(c) == c \in [observed : Nat, filter : Nat]
DriverShape(d) ==
  d \in [policy : Policies \cup {None}, generation : Nat, lease : {"none", "live", "expired"},
         active : BOOLEAN, stopping : BOOLEAN]
BudgetShape(b) == b \in [calls : Nat, faults : Nat, severs : Nat, tampers : Nat, leases : Nat]
PastShape(p) == p \in [steady : SUBSET Keys, seen : SUBSET Keys, changed : BOOLEAN]

Shape ==
  /\ objects \in Conditions /\ filters \subseteq Filter /\ SessionShape(writer)
  /\ DraftShape(draft) /\ lingering \subseteq (1 .. MaxLives) \X Classes
  /\ ProcessShape(process) /\ HandlesShape(handles) /\ CallShape(call) /\ AnswerShape(answer)
  /\ ControlShape(control) /\ DriverShape(driver) /\ report \in Nat /\ BudgetShape(budget)
  /\ PastShape(past)

\* The specifications a call puts in.
Wanted(c) == IF c.op = "replace" THEN Plan(c.class, c.policy) ELSE {}

\* What a call is about, wherever it has come to.
CallKnows ==
  /\ call.pc = "idle" => call = Idle
  /\ call.pc # "idle" => process.running /\ answer = NoAnswer
  /\ call.pc \in Inside \cup {"begin"} => call.op \in Writes
  /\ call.pc \in {"issue", "reply", "attest"} => call.op \in DriverCalls
  /\ call.pc \in {"driver", "objects", "filters"} => call.op = "snapshot"
  /\ call.pc \in {"driver", "objects"} => call.keys = {}
  /\ call.pc = "filters" => call.left \subseteq Layers
  /\ call.op \in {"replace", "upload"} => call.policy \in Policies
  /\ call.op \in Writes => call.left \subseteq Wanted(call)
  /\ call.pc \in {"begin", "ensure", "verify", "clear"} => call.left = Wanted(call)
  /\ call.pc = "ensure" => call.op = "provision"
  /\ call.pc = "verify" => call.op # "remove"
  /\ call.pc \in {"clear", "add"} => call.op # "provision"
  /\ call.pc = "add" => call.left # {}
  /\ call.pc = "commit" => call.left = {}
  /\ call.done => call.pc = "abort"

\* A transaction is its call's as long as the session of the call answers.
SessionsKnow ==
  /\ process.running => process.life \in 1 .. MaxLives
  /\ \A s \in lingering : s[1] <= process.life
  /\ process.running => \A c \in Classes : handles[c] => Session(c) \notin lingering
  /\ writer # NoSession /\ writer \notin lingering =>
       call.pc \in Inside /\ writer = Session(call.class) /\ handles[call.class]
  /\ call.pc \in Inside /\ handles[call.class] => writer = Session(call.class)

\* A filter's key names its layer, and guards belong to no session.
Sound(set) ==
  \A f \in set :
    /\ f.key = Key(f.layer, f.app)
    /\ f.layer \in LayersOf("Guard") \/ f.provider = "other" => f.session = 0

\* What the transaction of the call would leave of the filters.
Drafted ==
  IF call.pc \in {"ensure", "verify", "clear"} \/ call.op = "provision" THEN filters
  ELSE (filters \ Owned(filters, call.class))
       \cup {Stored(call.class, s, process.life) : s \in Wanted(call) \ call.left}

FiltersKnow ==
  /\ Sound(filters) /\ Sound(draft.filters)
  /\ call.pc \in Steps /\ handles[call.class] => draft.filters = Drafted

\* What a snapshot will say, and what it has seen so far.
ReportsKnow ==
  /\ Greater(control.filter, control.observed) >= report
  /\ past.changed => Greater(control.filter, control.observed) > report
  /\ call.pc = "filters" =>
       /\ past.steady \subseteq KeysOf(Ours(filters)) /\ KeysOf(Ours(filters)) \subseteq past.seen
       /\ call.keys \subseteq past.seen
       /\ \A k \in past.steady : k \in call.keys \/ k[1] \in call.left

EngineInv ==
  Shape /\ CallKnows /\ SessionsKnow /\ FiltersKnow /\ ReportsKnow /\ RefusedOncePerLease

-----------------------------------------------------------------------------
(* Layers, plans and filters.                                              *)

LEMMA LayersAreSplit ==
  /\ LayersOf("Guard") \cap LayersOf("DataPlane") = {}
  /\ Layers = LayersOf("Guard") \cup LayersOf("DataPlane")
  /\ \A c \in Classes : \A l \in LayersOf(c) : l \in Layers /\ ClassOf(l) = c
  /\ \A l \in Layers : ClassOf(l) \in Classes /\ l \in LayersOf(ClassOf(l))
<1>1. LayersOf("Guard") \cap LayersOf("DataPlane") = {}
      BY DEF LayersOf
<1>2. Layers = LayersOf("Guard") \cup LayersOf("DataPlane")
      BY DEF Layers
<1>3. QED  BY <1>1, <1>2 DEF ClassOf, Classes

LEMMA FamiliesAreApps ==
  ASSUME NEW p \in Policies
  PROVE  Protected(p) \subseteq Apps /\ Proxied(p) \subseteq Apps
<1>1. \A i \in DOMAIN Entries[p] : Entries[p][i].family \subseteq Apps
  <2>1. Entries[p] \in [DOMAIN Entries[p] -> Entry]
        BY PolicyAssumption
  <2>2. \A i \in DOMAIN Entries[p] : Entries[p][i] \in Entry
        BY <2>1
  <2>3. QED  BY <2>2 DEF Entry
<1>2. QED  BY <1>1 DEF Protected, Proxied, FamilyOf

LEMMA KeysAreKeys ==
  ASSUME NEW l \in Layers, NEW app \in FilterKeys
  PROVE  Key(l, app) \in Keys
BY DEF Key, Keys

LEMMA FilterOfSpec ==
  ASSUME NEW l \in Layers, NEW app \in FilterKeys,
         NEW action \in FilterActions, NEW rights \in SUBSET Rights
  PROVE  [key |-> Key(l, app), layer |-> l, app |-> app, action |-> action, rights |-> rights]
           \in Specs
BY KeysAreKeys DEF Specs

\* A plan's specifications are for the layers of its class, under keys that name the layer.
Planned(class, specs) ==
  \A s \in specs : s \in Specs /\ s.layer \in LayersOf(class) /\ s.key = Key(s.layer, s.app)

LEMMA PlanIsPlanned ==
  ASSUME NEW class \in Classes, NEW p \in Policies
  PROVE  Planned(class, Plan(class, p))
<1>1. \A app \in Apps : app \in FilterKeys
      BY DEF FilterKeys
<1>2. DatagramKey \in FilterKeys
      BY DEF FilterKeys
<1>3. ASSUME NEW c \in Classes, NEW l \in LayersOf(c), NEW app \in FilterKeys,
             NEW action \in FilterActions, NEW rights \in SUBSET Rights
      PROVE  LET s == [key |-> Key(l, app), layer |-> l, app |-> app, action |-> action,
                       rights |-> rights]
             IN  s \in Specs /\ s.layer \in LayersOf(c) /\ s.key = Key(s.layer, s.app)
  <2>1. l \in Layers
        BY LayersAreSplit
  <2>2. QED  BY <2>1, FilterOfSpec
<1>4. \A f \in Families :
        /\ <<"AuthConnect", f>> \in LayersOf("Guard")
        /\ <<"DatagramData", f>> \in LayersOf("Guard")
        /\ <<"ConnectRedirect", f>> \in LayersOf("DataPlane")
        /\ <<"FlowEstablished", f>> \in LayersOf("DataPlane")
      BY DEF LayersOf
<1>5. ASSUME NEW c \in Classes, NEW l \in LayersOf(c), NEW app \in FilterKeys
      PROVE  /\ Planned(c, {TerminatingFilter(l, app)})
             /\ Planned(c, {FlowTrackingFilter(l, app)})
             /\ Planned(c, {ConditionalFilter(l)})
  <2>1. FlowTrackingFilter(l, app) =
          [key |-> Key(l, app), layer |-> l, app |-> app, action |-> "FlowTracking",
           rights |-> {"indexed"}]
    <3> DEFINE u == TerminatingFilter(l, app)
               v == [u EXCEPT !.action = "FlowTracking"]
    <3>1. u = [key |-> Key(l, app), layer |-> l, app |-> app, action |-> "Terminating",
               rights |-> {"indexed", "clear"}]
          BY DEF TerminatingFilter
    <3>2. FlowTrackingFilter(l, app) = [v EXCEPT !.rights = {"indexed"}]
          BY DEF FlowTrackingFilter
    <3> HIDE DEF u
    <3>3. v = [key |-> Key(l, app), layer |-> l, app |-> app, action |-> "FlowTracking",
               rights |-> {"indexed", "clear"}]
          BY <3>1
    <3> HIDE DEF v
    <3>4. QED  BY <3>2, <3>3
  <2>2. "Terminating" \in FilterActions /\ "FlowTracking" \in FilterActions
        /\ "ConditionalCapture" \in FilterActions
        BY DEF FilterActions
  <2>3. {"indexed", "clear"} \in SUBSET Rights /\ {"indexed"} \in SUBSET Rights
        /\ {"unregistered"} \in SUBSET Rights
        BY DEF Rights
  <2>4. Planned(c, {TerminatingFilter(l, app)})
        BY <1>3, <2>2, <2>3 DEF Planned, TerminatingFilter
  <2>5. Planned(c, {FlowTrackingFilter(l, app)})
        BY <1>3, <2>1, <2>2, <2>3 DEF Planned
  <2>6. Planned(c, {ConditionalFilter(l)})
        BY <1>2, <1>3, <2>2, <2>3 DEF Planned, ConditionalFilter
  <2>7. QED  BY <2>4, <2>5, <2>6
<1>6. "Guard" \in Classes /\ "DataPlane" \in Classes
      BY DEF Classes
<1>7. CASE class = "Guard"
  <2>1. ASSUME NEW s \in PlanGuards(p) PROVE Planned("Guard", {s})
    <3>1. CASE \E f \in Families, app \in Protected(p) : s = TerminatingFilter(<<"AuthConnect", f>>, app)
          BY <1>1, <1>4, <1>5, <1>6, <3>1, FamiliesAreApps
    <3>2. CASE \E f \in Families : s = ConditionalFilter(<<"DatagramData", f>>)
          BY <1>2, <1>4, <1>5, <1>6, <3>2
    <3>3. QED  BY <2>1, <3>1, <3>2 DEF PlanGuards
  <2>2. QED  BY <1>7, <2>1 DEF Plan, Planned
<1>8. CASE class = "DataPlane"
  <2>1. ASSUME NEW s \in PlanRedirects(p) PROVE Planned("DataPlane", {s})
    <3>1. CASE \E f \in Families, app \in Proxied(p) :
                 s = TerminatingFilter(<<"ConnectRedirect", f>>, app)
          BY <1>1, <1>4, <1>5, <1>6, <3>1, FamiliesAreApps
    <3>2. CASE \E f \in Families, app \in Proxied(p) :
                 s = FlowTrackingFilter(<<"FlowEstablished", f>>, app)
          BY <1>1, <1>4, <1>5, <1>6, <3>2, FamiliesAreApps
    <3>3. QED  BY <2>1, <3>1, <3>2 DEF PlanRedirects
  <2>2. QED  BY <1>8, <2>1 DEF Plan, Planned
<1>9. QED  BY <1>7, <1>8 DEF Classes

LEMMA StoredIsFilter ==
  ASSUME NEW class \in Classes, NEW s \in Specs, s.layer \in LayersOf(class),
         s.key = Key(s.layer, s.app), NEW life \in 0 .. MaxLives
  PROVE  LET f == Stored(class, s, life)
         IN  /\ f \in Filter /\ f.key = s.key /\ f.layer = s.layer /\ f.provider = "ours"
             /\ f.key = Key(f.layer, f.app)
             /\ f.layer \in LayersOf("Guard") \/ f.provider = "other" => f.session = 0
<1> DEFINE flags == FilterFlags(class, s)
           session == IF class = "Guard" THEN 0 ELSE life
<1>1. /\ s.key \in Keys /\ s.layer \in Layers /\ s.app \in FilterKeys
      /\ s.action \in FilterActions /\ s.rights \subseteq Rights
      BY DEF Specs
<1>2. flags \subseteq Rights
      BY <1>1 DEF FilterFlags, Rights
<1>3. session \in 0 .. MaxLives
      BY EngineAssumption
<1>4. s.layer \in LayersOf("Guard") => session = 0
      BY LayersAreSplit DEF Classes
<1>5. Stored(class, s, life) =
        [key |-> s.key, layer |-> s.layer, app |-> s.app, action |-> s.action,
         flags |-> flags, provider |-> "ours", session |-> session]
      BY DEF Stored
<1> HIDE DEF flags, session
<1>6. Stored(class, s, life) \in Filter
      BY <1>1, <1>2, <1>3, <1>5 DEF Filter, Keys, Rights, FilterActions
<1>7. QED  BY <1>4, <1>5, <1>6

\* The owned filters of a class, by their layers.
LEMMA OwnedAre ==
  ASSUME NEW set \in SUBSET Filter, NEW class \in Classes
  PROVE  Owned(set, class) = {f \in set : f.provider = "ours" /\ f.layer \in LayersOf(class)}
BY DEF Owned, Enumerated

-----------------------------------------------------------------------------
(* Writes to the state of the service.                                     *)

LEMMA SpendIs ==
  ASSUME BudgetShape(budget), NEW what \in {"calls", "faults", "severs", "tampers", "leases"},
         MayStill(what), Spend(what)
  PROVE  /\ BudgetShape(budget')
         /\ budget'.tampers = IF what = "tampers" THEN budget.tampers - 1 ELSE budget.tampers
         /\ what = "tampers" => budget.tampers > 0
<1>1. CASE what = "calls"
      BY <1>1 DEF BudgetShape, MayStill, Spend
<1>2. CASE what = "faults"
      BY <1>2 DEF BudgetShape, MayStill, Spend
<1>3. CASE what = "severs"
      BY <1>3 DEF BudgetShape, MayStill, Spend
<1>4. CASE what = "tampers"
      BY <1>4 DEF BudgetShape, MayStill, Spend
<1>5. CASE what = "leases"
      BY <1>5 DEF BudgetShape, MayStill, Spend
<1>6. QED  BY <1>1, <1>2, <1>3, <1>4, <1>5

LEMMA IdleIs ==
  /\ CallShape(Idle)
  /\ Idle.op = "none" /\ Idle.class = "Guard" /\ Idle.policy = None /\ Idle.pc = "idle"
  /\ Idle.left = {} /\ Idle.keys = {} /\ Idle.done = FALSE
BY DEF Idle, CallShape, Classes, Writes, DriverCalls, Inside, Steps

LEMMA CallGoes ==
  ASSUME CallShape(call),
         NEW pc \in Inside \cup {"idle", "begin", "issue", "reply", "attest", "driver", "objects",
                                 "filters"},
         Goes(pc)
  PROVE  /\ CallShape(call') /\ call'.pc = pc
         /\ call'.op = call.op /\ call'.class = call.class /\ call'.policy = call.policy
         /\ call'.left = call.left /\ call'.keys = call.keys /\ call'.done = call.done
         /\ Wanted(call') = Wanted(call)
<1>1. CallShape(call')
      BY DEF CallShape, Goes
<1>2. /\ call'.pc = pc
      /\ call'.op = call.op /\ call'.class = call.class /\ call'.policy = call.policy
      /\ call'.left = call.left /\ call'.keys = call.keys /\ call'.done = call.done
      BY DEF CallShape, Goes
<1>3. QED  BY <1>1, <1>2 DEF Wanted

LEMMA CallIsOver ==
  ASSUME CallShape(call), NEW ok \in BOOLEAN, Answers(ok)
  PROVE  CallShape(call') /\ AnswerShape(answer') /\ CallKnows' /\ call'.pc = "idle"
         /\ answer'.op = call.op /\ answer'.ok = ok /\ call' = Idle
<1>1. call' = Idle /\ answer' = [op |-> call.op, class |-> call.class, ok |-> ok]
      BY DEF Answers
<1>2. AnswerShape(answer')
      BY <1>1 DEF AnswerShape, CallShape
<1>3. Wanted(call') = {}
      BY <1>1, IdleIs DEF Wanted
<1>4. CallKnows'
      BY <1>1, <1>3, IdleIs DEF CallKnows, Inside, Steps, Writes, DriverCalls
<1>5. QED  BY <1>1, <1>2, <1>4, IdleIs

\* Steps outside transactions that leave the filtering engine and the sessions alone.
LEMMA OutsideStays ==
  ASSUME SessionsKnow, FiltersKnow, call'.pc \notin Inside,
         call.pc \notin Inside \/ writer \in lingering \cup {NoSession},
         UNCHANGED <<filters, writer, draft, lingering, process, handles>>
  PROVE  SessionsKnow' /\ FiltersKnow'
<1>1. SessionsKnow'
      BY DEF SessionsKnow, Session
<1>2. FiltersKnow'
      BY DEF FiltersKnow, Inside, Sound
<1>3. QED  BY <1>1, <1>2

\* Steps that no snapshot sees.
LEMMA ReportsStay ==
  ASSUME ReportsKnow, call'.pc # "filters", UNCHANGED <<control, report>>,
         past'.changed => past.changed
  PROVE  ReportsKnow'
BY DEF ReportsKnow

\* A change is dated past everything reported.
LEMMA Dated ==
  ASSUME NEW c, ControlShape(c)
  PROVE  /\ ControlShape(RecordMutation(c))
         /\ RecordMutation(c).observed = c.observed
         /\ RecordMutation(c).filter > Greater(c.filter, c.observed)
         /\ Greater(RecordMutation(c).filter, RecordMutation(c).observed)
              > Greater(c.filter, c.observed)
<1>1. c.filter \in Nat /\ c.observed \in Nat
      BY DEF ControlShape
<1>2. PICK g \in Nat : g = Greater(c.filter, c.observed)
      BY <1>1 DEF Greater
<1>3. RecordMutation(c) = [c EXCEPT !.filter = g + 1]
      BY <1>2 DEF RecordMutation
<1>4. /\ ControlShape(RecordMutation(c))
      /\ RecordMutation(c).observed = c.observed /\ RecordMutation(c).filter = g + 1
      BY <1>3 DEF ControlShape
<1>5. Greater(g + 1, c.observed) > g
      BY <1>1, <1>2 DEF Greater
<1>6. QED  BY <1>2, <1>4, <1>5

\* A report that was taken up.
LEMMA Observed ==
  ASSUME ControlShape(control), NEW g \in Nat, g >= control.observed
  PROVE  LET c == [control EXCEPT !.observed = g]
         IN  /\ ControlShape(c) /\ c.observed = g /\ c.filter = control.filter
             /\ Greater(c.filter, c.observed) >= Greater(control.filter, control.observed)
<1> DEFINE c == [control EXCEPT !.observed = g]
<1>1. control.filter \in Nat /\ control.observed \in Nat
      BY DEF ControlShape
<1>2. ControlShape(c) /\ c.observed = g /\ c.filter = control.filter
      BY DEF ControlShape
<1> HIDE DEF c
<1>3. Greater(control.filter, g) >= Greater(control.filter, control.observed)
      BY <1>1 DEF Greater
<1>4. QED  BY <1>2, <1>3 DEF c

-----------------------------------------------------------------------------
(* The driver.                                                             *)

LEMMA ReleasedIs ==
  ASSUME NEW d, DriverShape(d)
  PROVE  /\ DriverShape(Released(d)) /\ Released(d).stopping /\ Released(d).policy = d.policy
         /\ Released(d).generation = d.generation
<1>1. DriverShape(Released(d))
      BY DEF DriverShape, Released
<1>2. Released(d).stopping /\ Released(d).policy = d.policy /\ Released(d).generation = d.generation
      BY DEF DriverShape, Released
<1>3. QED  BY <1>1, <1>2

\* The driver is in a state that its snapshot reports as one or refuses once.
DriverKnows(d) == d.policy # None /\ d.lease = "none" => d.stopping

LEMMA EffectIsSound ==
  ASSUME DriverShape(driver), DriverKnows(driver), call.op \in DriverCalls,
         call.op = "upload" => call.policy \in Policies, Accepted(driver)
  PROVE  DriverShape(Effect(driver)) /\ DriverKnows(Effect(driver))
<1> DEFINE u == Released(driver)
           g == driver.generation + 1
<1>1. DriverShape(u) /\ u.stopping
      BY ReleasedIs
<1>2. g \in Nat
      BY DEF DriverShape
<1>3. CASE call.op = "upload"
  <2>1. Effect(driver) = [u EXCEPT !.policy = call.policy, !.generation = g]
        BY <1>3 DEF Effect
  <2>2. call.policy \in Policies
        BY <1>3
  <2> HIDE DEF u, g
  <2>3. DriverShape(Effect(driver))
        BY <1>1, <1>2, <2>1, <2>2 DEF DriverShape
  <2>4. Effect(driver).stopping
        BY <1>1, <2>1 DEF DriverShape
  <2>5. QED  BY <2>3, <2>4 DEF DriverKnows
<1>4. CASE call.op = "unload"
  <2>1. Effect(driver) = [u EXCEPT !.policy = None, !.generation = g]
        BY <1>4 DEF Effect
  <2> HIDE DEF u, g
  <2>2. DriverShape(Effect(driver))
        BY <1>1, <1>2, <2>1 DEF DriverShape
  <2>3. Effect(driver).stopping
        BY <1>1, <2>1 DEF DriverShape
  <2>4. QED  BY <2>2, <2>3 DEF DriverKnows
<1>5. CASE call.op = "activate"
  <2>1. Effect(driver) = [driver EXCEPT !.active = TRUE, !.stopping = FALSE] /\ driver.lease = "live"
        BY <1>5 DEF Effect, Accepted
  <2>2. DriverShape(Effect(driver))
        BY <2>1 DEF DriverShape
  <2>3. Effect(driver).lease = "live"
        BY <2>1 DEF DriverShape
  <2>4. QED  BY <2>2, <2>3 DEF DriverKnows
<1>6. CASE call.op = "deactivate"
  <2>1. Effect(driver) = [driver EXCEPT !.active = FALSE, !.stopping = TRUE]
        BY <1>6 DEF Effect
  <2>2. DriverShape(Effect(driver))
        BY <2>1 DEF DriverShape
  <2>3. Effect(driver).stopping
        BY <2>1 DEF DriverShape
  <2>4. QED  BY <2>2, <2>3 DEF DriverKnows
<1>7. QED  BY <1>3, <1>4, <1>5, <1>6 DEF DriverCalls

LEMMA TakenIsSound ==
  ASSUME DriverShape(driver), DriverKnows(driver)
  PROVE  DriverShape(SnapshotTaken(driver)) /\ DriverKnows(SnapshotTaken(driver))
BY ReleasedIs DEF SnapshotTaken, DriverKnows

LEMMA SnapshotIs ==
  ASSUME DriverShape(driver)
  PROVE  Snapshot(driver).generation \in Nat
BY DEF DriverShape, Snapshot

-----------------------------------------------------------------------------
(* Calls to the driver, snapshots, and what starts a call.                 *)

LEMMA DriverIsRefused ==
  RefusedOncePerLease <=> DriverKnows(driver)
BY DEF RefusedOncePerLease, DriverKnows

LEMMA PastIs ==
  ASSUME PastShape(past)
  PROVE  /\ PastShape([past EXCEPT !.changed = TRUE])
         /\ PastShape(Unwitnessed) /\ Unwitnessed.changed = past.changed
         /\ PastShape([steady |-> {}, seen |-> {}, changed |-> FALSE])
<1>1. PastShape([past EXCEPT !.changed = TRUE])
      BY DEF PastShape
<1>2. PastShape(Unwitnessed)
      BY DEF PastShape, Unwitnessed
<1>3. Unwitnessed.changed = past.changed
      BY DEF PastShape, Unwitnessed
<1>4. PastShape([steady |-> {}, seen |-> {}, changed |-> FALSE])
      BY DEF PastShape
<1>5. QED  BY <1>1, <1>2, <1>3, <1>4

\* The requests a client or the service itself may begin with.
Asked(request) ==
  /\ CallShape(request) /\ request.pc \in {"begin", "issue", "driver"}
  /\ request.op # "provision" /\ request.keys = {} /\ request.done = FALSE
  /\ request.pc = "begin" => request.op \in Writes
  /\ request.pc = "issue" => request.op \in DriverCalls
  /\ request.pc = "driver" => request.op = "snapshot"
  /\ request.op \in {"replace", "upload"} => request.policy \in Policies
  /\ request.op \in Writes => request.left = Wanted(request)

LEMMA CallsIsSound ==
  ASSUME EngineInv, NEW request, Asked(request), Calls(request)
  PROVE  EngineInv'
<1> USE DEF EngineInv, Shape
<1>1. /\ call' = request /\ answer' = NoAnswer /\ call.pc = "idle" /\ process.running
      /\ UNCHANGED <<bfe, host, driver, report, past>>
      BY IdleIs DEF Calls
<1>2. BudgetShape(budget')
      BY SpendIs DEF Calls
<1>3. CallShape(call') /\ AnswerShape(answer')
      BY <1>1 DEF Asked, AnswerShape, NoAnswer, Classes
<1>4. CallKnows'
      BY <1>1 DEF CallKnows, Asked, host, Inside, Steps, Writes, DriverCalls
<1>5. SessionsKnow' /\ FiltersKnow'
      BY <1>1, OutsideStays DEF Asked, host, bfe, Inside, Steps
<1>6. ReportsKnow'
      BY <1>1, ReportsStay DEF Asked, host
<1>7. QED
  BY <1>1, <1>2, <1>3, <1>4, <1>5, <1>6 DEF host, bfe, RefusedOncePerLease

LEMMA CallReplaceIsSound ==
  ASSUME EngineInv, NEW c \in Classes, CallReplace(c)
  PROVE  EngineInv'
<1> DEFINE plan == Plan(c, driver.policy)
           request == [Idle EXCEPT !.op = "replace", !.class = c, !.policy = driver.policy,
                                   !.pc = "begin", !.left = plan]
<1>1. driver.policy \in Policies /\ Calls(request)
      BY DEF CallReplace, EngineInv, Shape, DriverShape
<1>2. plan \in SUBSET Work
      BY <1>1, PlanIsPlanned DEF Planned, Work
<1>3. PICK p \in Policies : p = driver.policy
      BY <1>1
<1> DEFINE u1 == [Idle EXCEPT !.op = "replace"]
           u2 == [u1 EXCEPT !.class = c]
           u3 == [u2 EXCEPT !.policy = p]
           u4 == [u3 EXCEPT !.pc = "begin"]
<1>4. CallShape(u1) /\ u1.op = "replace" /\ u1.keys = {} /\ u1.done = FALSE
      BY IdleIs DEF CallShape, Writes
<1> HIDE DEF u1
<1>5. CallShape(u2) /\ u2.op = "replace" /\ u2.class = c /\ u2.keys = {} /\ u2.done = FALSE
      BY <1>4 DEF CallShape
<1> HIDE DEF u2
<1>6. CallShape(u3) /\ u3.op = "replace" /\ u3.class = c /\ u3.policy = p /\ u3.keys = {}
      /\ u3.done = FALSE
      BY <1>5 DEF CallShape
<1> HIDE DEF u3
<1>7. CallShape(u4) /\ u4.op = "replace" /\ u4.class = c /\ u4.policy = p /\ u4.keys = {}
      /\ u4.done = FALSE /\ u4.pc = "begin"
      BY <1>6 DEF CallShape
<1> HIDE DEF u4, plan
<1>8. request = [u4 EXCEPT !.left = plan]
      BY <1>3 DEF u1, u2, u3, u4
<1> HIDE DEF request
<1>9. CallShape(request)
      BY <1>2, <1>7, <1>8 DEF CallShape
<1>10. /\ request.op = "replace" /\ request.class = c /\ request.policy = p /\ request.keys = {}
       /\ request.done = FALSE /\ request.pc = "begin" /\ request.left = plan
      BY <1>7, <1>8 DEF CallShape
<1>11. request.left = Wanted(request)
      BY <1>3, <1>10 DEF Wanted, plan
<1>12. Asked(request)
      BY <1>9, <1>10, <1>11 DEF Asked, Writes, DriverCalls
<1>13. QED  BY <1>1, <1>12, CallsIsSound

LEMMA CallRemoveIsSound ==
  ASSUME EngineInv, NEW c \in Classes, CallRemove(c)
  PROVE  EngineInv'
<1> DEFINE request == [Idle EXCEPT !.op = "remove", !.class = c, !.pc = "begin"]
<1>1. Calls(request)
      BY DEF CallRemove
<1>2. CallShape(request)
      BY IdleIs DEF CallShape, Writes
<1>3. /\ request.op = "remove" /\ request.keys = {} /\ request.left = {}
      /\ request.done = FALSE /\ request.pc = "begin"
      BY IdleIs DEF CallShape
<1> HIDE DEF request
<1>4. Asked(request)
      BY <1>2, <1>3 DEF Asked, Writes, DriverCalls, Wanted
<1>5. QED  BY <1>1, <1>4, CallsIsSound

LEMMA CallUploadIsSound ==
  ASSUME EngineInv, NEW p \in Policies, CallUpload(p)
  PROVE  EngineInv'
<1> DEFINE request == [Idle EXCEPT !.op = "upload", !.policy = p, !.pc = "issue"]
<1>1. Calls(request)
      BY DEF CallUpload
<1>2. CallShape(request)
      BY IdleIs DEF CallShape, DriverCalls
<1>3. /\ request.op = "upload" /\ request.keys = {} /\ request.policy = p
      /\ request.done = FALSE /\ request.pc = "issue"
      BY IdleIs DEF CallShape
<1> HIDE DEF request
<1>4. Asked(request)
      BY <1>2, <1>3 DEF Asked, Writes, DriverCalls
<1>5. QED  BY <1>1, <1>4, CallsIsSound

LEMMA CallDriverIsSound ==
  ASSUME EngineInv, NEW op \in {"unload", "activate", "deactivate"}, CallDriver(op)
  PROVE  EngineInv'
<1> DEFINE request == [Idle EXCEPT !.op = op, !.pc = "issue"]
<1>1. Calls(request)
      BY DEF CallDriver
<1>2. CallShape(request)
      BY IdleIs DEF CallShape, DriverCalls
<1>3. request.op = op /\ request.keys = {} /\ request.done = FALSE /\ request.pc = "issue"
      BY IdleIs DEF CallShape
<1> HIDE DEF request
<1>4. Asked(request)
      BY <1>2, <1>3 DEF Asked, Writes, DriverCalls
<1>5. QED  BY <1>1, <1>4, CallsIsSound

LEMMA CallSnapshotIsSound ==
  ASSUME EngineInv, CallSnapshot
  PROVE  EngineInv'
<1> DEFINE request == [Idle EXCEPT !.op = "snapshot", !.pc = "driver"]
<1>1. Calls(request)
      BY DEF CallSnapshot
<1>2. CallShape(request)
      BY IdleIs DEF CallShape
<1>3. request.op = "snapshot" /\ request.keys = {} /\ request.done = FALSE /\ request.pc = "driver"
      BY IdleIs DEF CallShape
<1> HIDE DEF request
<1>4. Asked(request)
      BY <1>2, <1>3 DEF Asked, Writes, DriverCalls
<1>5. QED  BY <1>1, <1>4, CallsIsSound

\* A call that goes on or ends outside of transactions and leaves the filters alone.
LEMMA CallPasses ==
  ASSUME EngineInv, call.pc \notin Inside \cup {"idle"}, CallShape(call'), AnswerShape(answer'),
         CallKnows', call'.pc \notin Inside,
         UNCHANGED <<bfe, process, handles>>, ControlShape(control'), DriverShape(driver'),
         DriverKnows(driver'), report' \in Nat, BudgetShape(budget'), PastShape(past'), ReportsKnow'
  PROVE  EngineInv'
<1>1. SessionsKnow' /\ FiltersKnow'
      BY OutsideStays DEF EngineInv, bfe
<1>2. Shape'
      BY DEF EngineInv, Shape, bfe
<1>3. RefusedOncePerLease'
      BY DEF RefusedOncePerLease, DriverKnows
<1>4. QED  BY <1>1, <1>2, <1>3 DEF EngineInv

LEMMA IssuesIsSound ==
  ASSUME EngineInv, Issues
  PROVE  EngineInv'
<1> USE DEF EngineInv, Shape
<1>1. call.pc = "issue" /\ UNCHANGED <<bfe, process, handles, control, report, budget, past>>
      BY DEF Issues, host
<1>2. call.op \in DriverCalls /\ (call.op = "upload" => call.policy \in Policies)
      BY <1>1 DEF CallKnows
<1>3. CASE Accepted(driver)
  <2>1. driver' = Effect(driver) /\ Goes("reply") /\ UNCHANGED answer
        BY <1>3 DEF Issues
  <2>2. DriverShape(driver') /\ DriverKnows(driver')
        BY <1>2, <1>3, <2>1, EffectIsSound, DriverIsRefused
  <2>3. /\ CallShape(call') /\ call'.pc = "reply" /\ call'.op = call.op /\ call'.done = call.done
        /\ call'.policy = call.policy
        BY <2>1, CallGoes
  <2>4. CallKnows'
        BY <1>1, <1>2, <2>1, <2>3 DEF CallKnows, Inside, Steps, Writes, DriverCalls
  <2>5. ReportsKnow'
        BY <1>1, <2>3, ReportsStay
  <2>6. QED  BY <1>1, <2>1, <2>2, <2>3, <2>4, <2>5, CallPasses DEF Inside, Steps
<1>4. CASE ~Accepted(driver)
  <2>1. Answers(FALSE) /\ UNCHANGED driver
        BY <1>4 DEF Issues
  <2>2. CallShape(call') /\ AnswerShape(answer') /\ CallKnows' /\ call'.pc = "idle"
        BY <2>1, CallIsOver
  <2>3. ReportsKnow'
        BY <1>1, <2>2, ReportsStay
  <2>4. QED  BY <1>1, <2>1, <2>2, <2>3, CallPasses, DriverIsRefused DEF Inside, Steps
<1>5. QED  BY <1>3, <1>4

LEMMA RepliesIsSound ==
  ASSUME EngineInv, Replies
  PROVE  EngineInv'
<1> USE DEF EngineInv, Shape
<1>1. /\ call.pc = "reply" /\ driver' = SnapshotTaken(driver)
      /\ UNCHANGED <<bfe, process, handles, control, report, budget, past>>
      BY DEF Replies, host
<1>2. call.op \in DriverCalls /\ (call.op = "upload" => call.policy \in Policies)
      BY <1>1 DEF CallKnows
<1>3. DriverShape(driver') /\ DriverKnows(driver')
      BY <1>1, TakenIsSound, DriverIsRefused
<1>4. CASE Goes("attest") /\ UNCHANGED answer
  <2>1. /\ CallShape(call') /\ call'.pc = "attest" /\ call'.op = call.op /\ call'.done = call.done
        /\ call'.policy = call.policy
        BY <1>4, CallGoes
  <2>2. CallKnows'
        BY <1>1, <1>2, <1>4, <2>1 DEF CallKnows, Inside, Steps, Writes, DriverCalls
  <2>3. ReportsKnow'
        BY <1>1, <2>1, ReportsStay
  <2>4. QED  BY <1>1, <1>3, <1>4, <2>1, <2>2, <2>3, CallPasses DEF Inside, Steps
<1>5. CASE Answers(FALSE)
  <2>1. CallShape(call') /\ AnswerShape(answer') /\ CallKnows' /\ call'.pc = "idle"
        BY <1>5, CallIsOver
  <2>2. ReportsKnow'
        BY <1>1, <2>1, ReportsStay
  <2>3. QED  BY <1>1, <1>3, <2>1, <2>2, CallPasses DEF Inside, Steps
<1>6. QED  BY <1>4, <1>5 DEF Replies

LEMMA AttestsIsSound ==
  ASSUME EngineInv, Attests
  PROVE  EngineInv'
<1> USE DEF EngineInv, Shape
<1> DEFINE valid == Plausible(Snapshot(driver)) /\ Attested(Snapshot(driver))
           c == [control EXCEPT !.observed = Snapshot(driver).generation]
<1>1. /\ call.pc = "attest" /\ driver' = SnapshotTaken(driver) /\ Answers(valid)
      /\ UNCHANGED <<bfe, process, handles, report, budget>>
      /\ valid => control' = RecordMutation(c) /\ past' = [past EXCEPT !.changed = TRUE]
      /\ ~valid => UNCHANGED <<control, past>>
      BY DEF Attests
<1>2. DriverShape(driver') /\ DriverKnows(driver')
      BY <1>1, TakenIsSound, DriverIsRefused
<1>3. valid \in BOOLEAN
      OBVIOUS
<1>4. CallShape(call') /\ AnswerShape(answer') /\ CallKnows' /\ call'.pc = "idle"
      BY <1>1, <1>3, CallIsOver
<1>5. CASE valid
  <2>1. PICK g \in Nat : g = Snapshot(driver).generation /\ g >= control.observed
        BY <1>5, SnapshotIs DEF Plausible
  <2>2. /\ ControlShape(c) /\ Greater(c.filter, c.observed) >= Greater(control.filter, control.observed)
        BY <2>1, Observed
  <2> HIDE DEF c
  <2>3. /\ ControlShape(control')
        /\ Greater(control'.filter, control'.observed) > Greater(c.filter, c.observed)
        BY <1>1, <1>5, <2>2, Dated
  <2>4. PastShape(past')
        BY <1>1, <1>5, PastIs
  <2>5. /\ c.filter \in Nat /\ c.observed \in Nat /\ control.filter \in Nat /\ control.observed \in Nat
        /\ control'.filter \in Nat /\ control'.observed \in Nat
        BY <2>2, <2>3 DEF ControlShape
  <2>6. Greater(control'.filter, control'.observed) > report
        BY <2>2, <2>3, <2>5 DEF ReportsKnow, Greater
  <2>7. ReportsKnow'
        BY <1>1, <1>4, <2>5, <2>6 DEF ReportsKnow, Greater
  <2>8. QED  BY <1>1, <1>2, <1>4, <2>3, <2>4, <2>7, CallPasses DEF Inside, Steps
<1>6. CASE ~valid
  <2>1. ReportsKnow'
        BY <1>1, <1>4, <1>6, ReportsStay
  <2>2. QED  BY <1>1, <1>2, <1>4, <1>6, <2>1, CallPasses DEF Inside, Steps
<1>7. QED  BY <1>5, <1>6

LEMMA ReadsDriverIsSound ==
  ASSUME EngineInv, ReadsDriver
  PROVE  EngineInv'
<1> USE DEF EngineInv, Shape
<1> DEFINE c == [control EXCEPT !.observed = Snapshot(driver).generation]
<1>1. /\ call.pc = "driver" /\ driver' = SnapshotTaken(driver)
      /\ UNCHANGED <<bfe, process, handles, report, budget, past>>
      /\ \/ Plausible(Snapshot(driver)) /\ control' = c /\ Goes("objects") /\ UNCHANGED answer
         \/ Answers(FALSE) /\ UNCHANGED control
      BY DEF ReadsDriver
<1>2. DriverShape(driver') /\ DriverKnows(driver')
      BY <1>1, TakenIsSound, DriverIsRefused
<1>3. CASE Plausible(Snapshot(driver)) /\ control' = c /\ Goes("objects") /\ UNCHANGED answer
  <2>1. PICK g \in Nat : g = Snapshot(driver).generation /\ g >= control.observed
        BY <1>3, SnapshotIs DEF Plausible
  <2>2. /\ ControlShape(c) /\ Greater(c.filter, c.observed) >= Greater(control.filter, control.observed)
        BY <2>1, Observed
  <2> HIDE DEF c
  <2>3. /\ CallShape(call') /\ call'.pc = "objects" /\ call'.op = call.op /\ call'.done = call.done
        /\ call'.keys = call.keys
        BY <1>3, CallGoes
  <2>4. CallKnows'
        BY <1>1, <1>3, <2>3 DEF CallKnows, Inside, Steps, Writes, DriverCalls
  <2>5. c.filter \in Nat /\ c.observed \in Nat /\ control.filter \in Nat /\ control.observed \in Nat
        BY <2>2 DEF ControlShape
  <2>6. ReportsKnow'
        BY <1>1, <1>3, <2>2, <2>3, <2>5 DEF ReportsKnow, Greater
  <2>7. QED  BY <1>1, <1>2, <1>3, <2>2, <2>3, <2>4, <2>6, CallPasses DEF Inside, Steps
<1>4. CASE Answers(FALSE) /\ UNCHANGED control
  <2>1. CallShape(call') /\ AnswerShape(answer') /\ CallKnows' /\ call'.pc = "idle"
        BY <1>4, CallIsOver
  <2>2. ReportsKnow'
        BY <1>1, <1>4, <2>1, ReportsStay
  <2>3. QED  BY <1>1, <1>2, <1>4, <2>1, <2>2, CallPasses DEF Inside, Steps
<1>5. QED  BY <1>1, <1>3, <1>4

-----------------------------------------------------------------------------
(* A snapshot of the filters.                                              *)

LEMMA OursHaveKeys ==
  ASSUME filters \subseteq Filter, Sound(filters)
  PROVE  /\ KeysOf(Ours(filters)) \subseteq Keys
         /\ \A k \in KeysOf(Ours(filters)) : k[1] \in Layers
         /\ \A f \in filters : f.layer = f.key[1]
<1>1. \A f \in filters : f.key \in Keys /\ f.layer \in Layers /\ f.key = <<f.layer, f.app>>
      BY DEF Filter, Keys, Sound, Key
<1>2. \A f \in filters : f.key[1] = f.layer
      BY <1>1
<1>3. QED  BY <1>1, <1>2 DEF KeysOf, Ours

LEMMA ReadsObjectsIsSound ==
  ASSUME EngineInv, ReadsObjects
  PROVE  EngineInv'
<1> USE DEF EngineInv, Shape
<1> DEFINE k == KeysOf(Ours(filters))
<1>1. /\ call.pc = "objects"
      /\ UNCHANGED <<bfe, process, handles, control, driver, report, budget>>
      /\ \/ /\ call' = [call EXCEPT !.pc = "filters", !.left = Layers] /\ UNCHANGED answer
            /\ past' = [past EXCEPT !.steady = k, !.seen = k]
         \/ Answers(FALSE) /\ UNCHANGED past
      BY DEF ReadsObjects, host
<1>2. DriverKnows(driver')
      BY <1>1, DriverIsRefused
<1>3. CASE /\ call' = [call EXCEPT !.pc = "filters", !.left = Layers] /\ UNCHANGED answer
           /\ past' = [past EXCEPT !.steady = k, !.seen = k]
  <2>1. k \subseteq Keys /\ \A x \in k : x[1] \in Layers
        BY OursHaveKeys DEF FiltersKnow
  <2>2. Layers \in SUBSET Work
        BY DEF Work
  <2> HIDE DEF k
  <2>3. CallShape(call')
        BY <1>3, <2>2 DEF CallShape
  <2>4. /\ call'.pc = "filters" /\ call'.left = Layers /\ call'.op = call.op /\ call'.done = call.done
        /\ call'.keys = call.keys
        BY <1>3 DEF CallShape
  <2>5. PastShape(past')
        BY <1>3, <2>1 DEF PastShape
  <2>6. past'.steady = k /\ past'.seen = k /\ past'.changed = past.changed
        BY <1>3 DEF PastShape
  <2>7. CallKnows'
        BY <1>1, <1>3, <2>4 DEF CallKnows, Inside, Steps, Writes, DriverCalls
  <2>8. call.keys = {} /\ UNCHANGED filters
        BY <1>1 DEF CallKnows, bfe
  <2>9. ReportsKnow'
        BY <1>1, <2>1, <2>4, <2>6, <2>8 DEF ReportsKnow, k
  <2>10. QED  BY <1>1, <1>2, <1>3, <2>3, <2>4, <2>5, <2>7, <2>9, CallPasses DEF Inside, Steps
<1>4. CASE Answers(FALSE) /\ UNCHANGED past
  <2>1. CallShape(call') /\ AnswerShape(answer') /\ CallKnows' /\ call'.pc = "idle"
        BY <1>4, CallIsOver
  <2>2. ReportsKnow'
        BY <1>1, <1>4, <2>1, ReportsStay
  <2>3. QED  BY <1>1, <1>2, <1>4, <2>1, <2>2, CallPasses DEF Inside, Steps
<1>5. QED  BY <1>1, <1>3, <1>4

\* The layer that is enumerated next.
NextLayer ==
  CHOOSE l \in call.left : ClassOf(l) = "Guard" \/ call.left \subseteq LayersOf("DataPlane")

LEMMA NextLayerIsLeft ==
  ASSUME call.left \subseteq Layers, call.left # {}
  PROVE  NextLayer \in call.left
<1>1. \E l \in call.left : ClassOf(l) = "Guard" \/ call.left \subseteq LayersOf("DataPlane")
  <2>1. CASE \E l \in call.left : ClassOf(l) = "Guard"
        BY <2>1
  <2>2. CASE \A l \in call.left : ClassOf(l) # "Guard"
    <3>1. call.left \subseteq LayersOf("DataPlane")
          BY <2>2, LayersAreSplit DEF Classes
    <3>2. QED  BY <3>1
  <2>3. QED  BY <2>1, <2>2
<1>2. QED  BY <1>1 DEF NextLayer

LEMMA ReadsFiltersIsSound ==
  ASSUME EngineInv, ReadsFilters
  PROVE  EngineInv'
<1> USE DEF EngineInv, Shape
<1>1. call.pc = "filters" /\ call.left # {} /\ call.left \subseteq Layers
      BY DEF ReadsFilters, CallKnows
<1>2. PICK layer \in call.left : layer = NextLayer
      BY <1>1, NextLayerIsLeft
<1> DEFINE found == Enumerated(filters, layer)
<1>3. /\ UNCHANGED <<bfe, process, handles, control, driver, report, budget>>
      /\ \/ /\ call' = [call EXCEPT !.left = call.left \ {layer},
                                    !.keys = call.keys \union KeysOf(found)]
            /\ UNCHANGED <<answer, past>>
         \/ Answers(FALSE) /\ past' = Unwitnessed
      BY <1>2 DEF ReadsFilters, NextLayer, host
<1>4. DriverKnows(driver')
      BY <1>3, DriverIsRefused
<1>5. CASE /\ call' = [call EXCEPT !.left = call.left \ {layer},
                                   !.keys = call.keys \union KeysOf(found)]
           /\ UNCHANGED <<answer, past>>
  <2> DEFINE k == KeysOf(found)
             l == call.left \ {layer}
             ks == call.keys \union k
  <2>1. k \subseteq KeysOf(Ours(filters))
        BY DEF KeysOf, Ours, Enumerated
  <2>2. \A x \in KeysOf(Ours(filters)) : x[1] = layer => x \in k
    <3>1. \A f \in filters : f.layer = f.key[1]
          BY OursHaveKeys DEF FiltersKnow
    <3>2. QED  BY <3>1 DEF KeysOf, Ours, Enumerated
  <2>3. KeysOf(Ours(filters)) \subseteq Keys
        BY OursHaveKeys DEF FiltersKnow
  <2>4. call.left \subseteq Work /\ call.keys \subseteq Keys
        BY DEF CallShape
  <2>5. l \in SUBSET Work /\ ks \in SUBSET Keys
        BY <2>1, <2>3, <2>4
  <2>6. call' = [call EXCEPT !.left = l, !.keys = ks]
        BY <1>5
  <2> HIDE DEF k, l, ks
  <2>7. CallShape(call')
        BY <2>5, <2>6 DEF CallShape
  <2>8. /\ call'.pc = call.pc /\ call'.left = l /\ call'.op = call.op /\ call'.done = call.done
        /\ call'.keys = ks
        BY <2>6 DEF CallShape
  <2>9. CallKnows'
        BY <1>1, <1>3, <1>5, <2>8 DEF CallKnows, Inside, Steps, Writes, DriverCalls, l
  <2>10. UNCHANGED filters
        BY <1>3 DEF bfe
  <2>11. \A x \in past.steady : x \in ks \/ x[1] \in l
    <3>1. \A x \in past.steady : x \in call.keys \/ x[1] \in call.left
          BY <1>1 DEF ReportsKnow
    <3>2. past.steady \subseteq KeysOf(Ours(filters))
          BY <1>1 DEF ReportsKnow
    <3>3. QED  BY <2>2, <3>1, <3>2 DEF ks, l
  <2>12. ks \subseteq past.seen
        BY <1>1, <2>1 DEF ks, ReportsKnow
  <2>13. ReportsKnow'
        BY <1>1, <1>3, <1>5, <2>8, <2>10, <2>11, <2>12 DEF ReportsKnow
  <2>14. QED
    BY <1>1, <1>3, <1>4, <1>5, <2>7, <2>8, <2>9, <2>13, CallPasses DEF Inside, Steps
<1>6. CASE Answers(FALSE) /\ past' = Unwitnessed
  <2>1. CallShape(call') /\ AnswerShape(answer') /\ CallKnows' /\ call'.pc = "idle"
        BY <1>6, CallIsOver
  <2>2. PastShape(past') /\ past'.changed = past.changed
        BY <1>6, PastIs
  <2>3. ReportsKnow'
        BY <1>3, <2>1, <2>2, ReportsStay
  <2>4. QED  BY <1>1, <1>3, <1>4, <2>1, <2>2, <2>3, CallPasses DEF Inside, Steps
<1>7. QED  BY <1>3, <1>5, <1>6

LEMMA ReadFailsIsSound ==
  ASSUME EngineInv, ReadFails
  PROVE  EngineInv'
<1> USE DEF EngineInv, Shape
<1>1. /\ call.pc \in {"issue", "reply", "attest", "driver", "objects", "filters"}
      /\ Answers(FALSE) /\ past' = Unwitnessed
      /\ UNCHANGED <<bfe, process, handles, control, driver, report>>
      BY DEF ReadFails, host
<1>2. BudgetShape(budget')
      BY SpendIs DEF ReadFails
<1>3. CallShape(call') /\ AnswerShape(answer') /\ CallKnows' /\ call'.pc = "idle"
      BY <1>1, CallIsOver
<1>4. PastShape(past') /\ past'.changed = past.changed
      BY <1>1, PastIs
<1>5. ReportsKnow'
      BY <1>1, <1>3, <1>4, ReportsStay
<1>6. QED
  BY <1>1, <1>2, <1>3, <1>4, <1>5, CallPasses, DriverIsRefused DEF Inside, Steps

LEMMA ReportsIsSound ==
  ASSUME EngineInv, Reports
  PROVE  EngineInv'
<1> USE DEF EngineInv, Shape
<1>1. /\ call.pc = "filters" /\ report' = Greater(control.filter, control.observed)
      /\ Answers(TRUE) /\ past' = [steady |-> {}, seen |-> {}, changed |-> FALSE]
      /\ UNCHANGED <<bfe, process, handles, control, driver, budget>>
      BY DEF Reports, host
<1>2. CallShape(call') /\ AnswerShape(answer') /\ CallKnows' /\ call'.pc = "idle"
      BY <1>1, CallIsOver
<1>3. PastShape(past') /\ past'.changed = FALSE
      BY <1>1, PastIs
<1>4. report' \in Nat
      BY <1>1 DEF ControlShape, Greater
<1>5. ReportsKnow'
      BY <1>1, <1>2, <1>3, <1>4 DEF ReportsKnow
<1>6. QED
  BY <1>1, <1>2, <1>3, <1>4, <1>5, CallPasses, DriverIsRefused DEF Inside, Steps

-----------------------------------------------------------------------------
(* Transactions.                                                           *)

LEMMA SessionIs ==
  ASSUME ProcessShape(process), process.running, SessionsKnow
  PROVE  \A c \in Classes : /\ Session(c) \in (1 .. MaxLives) \X Classes
                            /\ Session(c) # NoSession /\ Session(c)[1] = process.life
<1>1. process.life \in 1 .. MaxLives
      BY DEF SessionsKnow
<1>2. process.life # 0
      BY <1>1
<1>3. QED  BY <1>1, <1>2 DEF Session, NoSession

LEMMA NothingIs ==
  DraftShape(Nothing) /\ Nothing.filters = {}
BY DEF DraftShape, Nothing, Absent, Conditions

\* A call begins or ends a transaction with what it had, and nothing committed has changed.
LEMMA BeginsIsSound ==
  ASSUME EngineInv, Begins
  PROVE  EngineInv'
<1> USE DEF EngineInv, Shape
<1> DEFINE pc == Body[call.op]
<1>1. /\ call.pc = "begin" /\ handles[call.class] /\ writer = NoSession
      /\ writer' = Session(call.class) /\ draft' = [objects |-> objects, filters |-> filters]
      /\ Goes(pc)
      /\ UNCHANGED <<objects, filters, lingering, process, handles, control, answer, driver,
                     report, budget, past>>
      BY DEF Begins, host
<1>2. call.op \in Writes /\ process.running /\ call.class \in Classes /\ answer = NoAnswer
      /\ call.left = Wanted(call) /\ call.done = FALSE
      BY <1>1 DEF CallKnows, CallShape
<1>3. /\ pc \in {"ensure", "verify", "clear"}
      /\ pc = "ensure" => call.op = "provision"
      /\ pc = "verify" => call.op = "replace"
      /\ pc = "clear" => call.op = "remove"
      BY <1>2 DEF Body, Writes
<1> HIDE DEF pc
<1>4. /\ CallShape(call') /\ call'.pc = pc /\ call'.class = call.class
      /\ call'.op = call.op /\ call'.policy = call.policy
      /\ call'.left = call.left /\ call'.keys = call.keys /\ call'.done = call.done
      /\ Wanted(call') = Wanted(call)
      BY <1>1, <1>3, CallGoes DEF Inside, Steps
<1>5. CallKnows'
      BY <1>1, <1>2, <1>3, <1>4 DEF CallKnows, Inside, Steps, Writes, DriverCalls
<1>6. SessionShape(writer') /\ DraftShape(draft')
      BY <1>1, <1>2, SessionIs DEF SessionShape, DraftShape
<1>7. draft'.filters = filters
      BY <1>1
<1>8. SessionsKnow'
      BY <1>1, <1>2, <1>3, <1>4 DEF SessionsKnow, Session, Inside, Steps
<1>9. FiltersKnow'
      BY <1>1, <1>3, <1>4, <1>7 DEF FiltersKnow, Drafted, Sound
<1>10. ReportsKnow'
      BY <1>1, <1>3, <1>4, ReportsStay
<1>11. QED
  BY <1>1, <1>4, <1>5, <1>6, <1>8, <1>9, <1>10 DEF RefusedOncePerLease

\* A call that fails while no transaction of it is open.
LEMMA FailureIsSound ==
  ASSUME EngineInv, CallFails, call.pc \in Inside \cup {"begin"},
         writer' \in lingering \cup {NoSession}, writer' \in {writer, NoSession},
         draft' \in {draft, Nothing},
         UNCHANGED <<objects, filters, handles, control, driver, report, budget, past>>
  PROVE  EngineInv'
<1> USE DEF EngineInv, Shape
<1>1. Answers(FALSE)
      BY DEF CallFails
<1>2. CallShape(call') /\ AnswerShape(answer') /\ CallKnows' /\ call'.pc = "idle"
      BY <1>1, CallIsOver
<1>3. process.running
      BY DEF CallKnows, Inside, Steps
<1>4. SessionShape(writer') /\ DraftShape(draft')
      BY NothingIs DEF SessionShape
<1>5. /\ ProcessShape(process') /\ process'.life = process.life
      /\ lingering' \subseteq (1 .. MaxLives) \X Classes /\ lingering \subseteq lingering'
      /\ \A s \in lingering' : s[1] <= process.life
      /\ process'.running => UNCHANGED <<process, lingering>>
  <2>1. CASE call.op = "provision"
    <3>1. process' = [process EXCEPT !.running = FALSE]
          /\ lingering' = lingering \union {Session(c) : c \in Classes}
          BY <2>1 DEF CallFails
    <3>2. ProcessShape(process') /\ process'.life = process.life /\ process'.running = FALSE
          BY <3>1 DEF ProcessShape
    <3>3. process.life \in Nat
          BY EngineAssumption DEF ProcessShape
    <3>4. QED  BY <1>3, <3>1, <3>2, <3>3, SessionIs DEF SessionsKnow
  <2>2. CASE call.op # "provision"
        BY <2>2 DEF CallFails, SessionsKnow
  <2>3. QED  BY <2>1, <2>2
<1>6. SessionsKnow'
  <2>1. \A s \in lingering' : s[1] <= process'.life
        BY <1>5
  <2>2. process'.running => \A c \in Classes : handles'[c] => Session(c)' \notin lingering'
        BY <1>5 DEF SessionsKnow, Session
  <2>3. writer' = NoSession \/ writer' \in lingering'
        BY <1>5
  <2>4. process'.running => process'.life \in 1 .. MaxLives
        BY <1>5 DEF SessionsKnow
  <2>5. QED  BY <1>2, <2>1, <2>2, <2>3, <2>4 DEF SessionsKnow, Inside, Steps
<1>7. FiltersKnow'
      BY <1>2, NothingIs DEF FiltersKnow, Sound, Inside, Steps
<1>8. ReportsKnow'
      BY <1>2, ReportsStay
<1>9. QED
  BY <1>2, <1>4, <1>5, <1>6, <1>7, <1>8 DEF RefusedOncePerLease

LEMMA BeginFailsIsSound ==
  ASSUME EngineInv, BeginFails
  PROVE  EngineInv'
<1>1. /\ call.pc = "begin" /\ CallFails
      /\ UNCHANGED <<objects, filters, writer, draft, handles, control, driver, report, budget, past>>
      BY DEF BeginFails
<1>2. writer \in lingering \cup {NoSession}
      BY <1>1 DEF EngineInv, SessionsKnow, Inside, Steps
<1>3. QED  BY <1>1, <1>2, FailureIsSound

LEMMA AbortsIsSound ==
  ASSUME EngineInv, Aborts
  PROVE  EngineInv'
<1>1. /\ call.pc = "abort" /\ CallFails
      /\ UNCHANGED <<objects, filters, handles, control, driver, report, budget, past>>
      /\ IF handles[call.class] THEN writer' = NoSession /\ draft' = Nothing
         ELSE UNCHANGED <<writer, draft>>
      BY DEF Aborts
<1>2. ~handles[call.class] => writer \in lingering \cup {NoSession}
      BY <1>1 DEF EngineInv, SessionsKnow
<1>3. writer' \in lingering \cup {NoSession} /\ writer' \in {writer, NoSession}
      /\ draft' \in {draft, Nothing}
      BY <1>1, <1>2
<1>4. QED  BY <1>1, <1>3, FailureIsSound DEF Inside

\* A step within a transaction, which only its draft may show.
LEMMA StepIsSound ==
  ASSUME EngineInv, call.pc \in Steps, CallShape(call'), call'.pc \in Inside, CallKnows',
         call'.class = call.class, DraftShape(draft'), Sound(draft'.filters),
         call'.pc \in Steps => draft'.filters = Drafted',
         UNCHANGED <<objects, filters, writer, lingering, process, handles, control, answer, driver,
                     report, past>>,
         BudgetShape(budget')
  PROVE  EngineInv'
<1> USE DEF EngineInv, Shape
<1>1. SessionsKnow'
      BY DEF SessionsKnow, Session, Inside
<1>2. FiltersKnow'
      BY DEF FiltersKnow, Sound
<1>3. ReportsKnow'
      BY ReportsStay DEF Inside, Steps
<1>4. QED  BY <1>1, <1>2, <1>3 DEF RefusedOncePerLease

LEMMA StepFailsIsSound ==
  ASSUME EngineInv, StepFails
  PROVE  EngineInv'
<1> USE DEF EngineInv, Shape
<1>1. /\ call.pc \in Steps /\ Goes("abort")
      /\ UNCHANGED <<bfe, process, handles, control, answer, driver, report, past>>
      BY DEF StepFails, host
<1>2. BudgetShape(budget')
      BY SpendIs DEF StepFails
<1>3. /\ CallShape(call') /\ call'.pc = "abort" /\ call'.class = call.class
      /\ call'.op = call.op /\ call'.policy = call.policy
      /\ call'.left = call.left /\ call'.keys = call.keys /\ call'.done = call.done
      /\ Wanted(call') = Wanted(call)
      BY <1>1, CallGoes DEF Inside
<1>4. CallKnows'
      BY <1>1, <1>3 DEF CallKnows, Inside, Steps, Writes, DriverCalls
<1>5. DraftShape(draft') /\ Sound(draft'.filters)
      BY <1>1 DEF bfe, FiltersKnow
<1>6. QED  BY <1>1, <1>2, <1>3, <1>4, <1>5, StepIsSound DEF bfe, Inside, Steps

LEMMA EnsuredIs == Ensured(draft.objects) \in Conditions
BY DEF Ensured, Conditions

LEMMA EnsuresIsSound ==
  ASSUME EngineInv, Ensures
  PROVE  EngineInv'
<1> USE DEF EngineInv, Shape
<1>1. /\ call.pc = "ensure" /\ handles[call.class]
      /\ UNCHANGED <<objects, filters, writer, lingering, process, handles, control, answer, driver,
                     report, budget, past>>
      /\ \/ Goes("verify") /\ draft' = [draft EXCEPT !.objects = Ensured(draft.objects)]
         \/ Goes("abort") /\ UNCHANGED draft
      BY DEF Ensures, Within, host
<1>2. draft.filters = filters /\ Sound(filters)
      BY <1>1 DEF FiltersKnow, Drafted, Steps
<1>3. DraftShape(draft') /\ draft'.filters = filters
      BY <1>1, <1>2, EnsuredIs DEF DraftShape
<1>4. PICK pc \in {"verify", "abort"} : Goes(pc)
      BY <1>1
<1>5. /\ CallShape(call') /\ call'.pc = pc /\ call'.class = call.class
      /\ call'.op = call.op /\ call'.policy = call.policy
      /\ call'.left = call.left /\ call'.keys = call.keys /\ call'.done = call.done
      /\ Wanted(call') = Wanted(call)
      BY <1>4, CallGoes DEF Inside, Steps
<1>6. CallKnows'
      BY <1>1, <1>5 DEF CallKnows, Inside, Steps, Writes, DriverCalls
<1>7. call'.pc \in Steps => draft'.filters = Drafted'
      BY <1>1, <1>3, <1>5 DEF Drafted, Steps
<1>8. QED  BY <1>1, <1>2, <1>3, <1>5, <1>6, <1>7, StepIsSound DEF Inside, Steps

LEMMA VerifiesIsSound ==
  ASSUME EngineInv, Verifies
  PROVE  EngineInv'
<1> USE DEF EngineInv, Shape
<1>1. /\ call.pc = "verify" /\ handles[call.class]
      /\ UNCHANGED <<bfe, process, handles, control, answer, driver, report, budget, past>>
      /\ Goes(IF ~Canonical(draft.objects) THEN "abort"
              ELSE IF call.op = "provision" THEN "commit" ELSE "clear")
      BY DEF Verifies, Within, host
<1>2. draft.filters = filters /\ Sound(filters)
      BY <1>1 DEF FiltersKnow, Drafted, Steps
<1>3. call.op \in {"provision", "replace"} /\ call.left = Wanted(call)
      BY <1>1 DEF CallKnows, Writes, Inside, Steps
<1>4. PICK pc \in {"abort", "commit", "clear"} :
        /\ Goes(pc)
        /\ pc = "commit" => call.op = "provision"
        /\ pc = "clear" => call.op # "provision"
      BY <1>1
<1>5. /\ CallShape(call') /\ call'.pc = pc /\ call'.class = call.class
      /\ call'.op = call.op /\ call'.policy = call.policy
      /\ call'.left = call.left /\ call'.keys = call.keys /\ call'.done = call.done
      /\ Wanted(call') = Wanted(call)
      BY <1>4, CallGoes DEF Inside, Steps
<1>6. CallKnows'
  <2>1. call.op = "provision" => call.left = {}
        BY <1>3 DEF Wanted
  <2>2. QED  BY <1>1, <1>3, <1>4, <1>5, <2>1 DEF CallKnows, Inside, Steps, Writes, DriverCalls
<1>7. call'.pc \in Steps => draft'.filters = Drafted'
      BY <1>1, <1>2, <1>4, <1>5 DEF Drafted, Steps, bfe
<1>8. QED  BY <1>1, <1>2, <1>5, <1>6, <1>7, StepIsSound DEF Inside, Steps, bfe

LEMMA SetSubset ==
  ASSUME NEW S, NEW T, S \subseteq T PROVE S \in SUBSET T
OBVIOUS

LEMMA ClearsIsSound ==
  ASSUME EngineInv, Clears
  PROVE  EngineInv'
<1> USE DEF EngineInv, Shape
<1> DEFINE found == Owned(draft.filters, call.class)
           rest == draft.filters \ found
<1>1. /\ call.pc = "clear" /\ handles[call.class]
      /\ UNCHANGED <<objects, filters, writer, lingering, process, handles, control, answer, driver,
                     report, budget, past>>
      /\ \/ /\ draft' = [draft EXCEPT !.filters = rest]
            /\ Goes(IF call.left = {} THEN "commit" ELSE "add")
         \/ UNCHANGED draft /\ Goes("abort")
      BY DEF Clears, Within, host
<1>2. draft.filters = filters /\ Sound(filters) /\ draft.filters \subseteq Filter
      BY <1>1 DEF FiltersKnow, Drafted, Steps, DraftShape
<1>3. call.op \in {"replace", "remove"} /\ call.left = Wanted(call) /\ call.class \in Classes
      BY <1>1 DEF CallKnows, Writes, Inside, Steps, CallShape
<1>4. CASE /\ draft' = [draft EXCEPT !.filters = rest]
           /\ Goes(IF call.left = {} THEN "commit" ELSE "add")
  <2>1. rest \in SUBSET Filter
        BY <1>2
  <2>2. Sound(rest)
        BY <1>2 DEF Sound
  <2>3. rest = filters \ Owned(filters, call.class)
        BY <1>2
  <2> HIDE DEF found, rest
  <2>4. DraftShape(draft') /\ draft'.filters = rest
        BY <1>4, <2>1 DEF DraftShape
  <2>5. PICK pc \in {"commit", "add"} :
          Goes(pc) /\ (pc = "commit" => call.left = {}) /\ (pc = "add" => call.left # {})
        BY <1>4
  <2>6. /\ CallShape(call') /\ call'.pc = pc /\ call'.class = call.class
        /\ call'.op = call.op /\ call'.policy = call.policy
        /\ call'.left = call.left /\ call'.keys = call.keys /\ call'.done = call.done
        /\ Wanted(call') = Wanted(call)
        BY <2>5, CallGoes DEF Inside, Steps
  <2>7. CallKnows'
        BY <1>1, <1>3, <2>5, <2>6 DEF CallKnows, Inside, Steps, Writes, DriverCalls
  <2>8. Drafted' = rest
    <3>1. Wanted(call') \ call'.left = {}
          BY <1>3, <2>6
    <3>2. Drafted' = (filters \ Owned(filters, call.class)) \cup
            {Stored(call.class, s, process.life) : s \in Wanted(call') \ call'.left}
          BY <1>1, <1>3, <2>6 DEF Drafted
    <3>3. QED  BY <2>3, <3>1, <3>2
  <2>9. QED  BY <1>1, <2>2, <2>4, <2>6, <2>7, <2>8, StepIsSound DEF Inside, Steps
<1>5. CASE UNCHANGED draft /\ Goes("abort")
  <2>1. /\ CallShape(call') /\ call'.pc = "abort" /\ call'.class = call.class
        /\ call'.op = call.op /\ call'.policy = call.policy
        /\ call'.left = call.left /\ call'.keys = call.keys /\ call'.done = call.done
        /\ Wanted(call') = Wanted(call)
        BY <1>5, CallGoes DEF Inside
  <2>2. CallKnows'
        BY <1>1, <2>1 DEF CallKnows, Inside, Steps, Writes, DriverCalls
  <2>3. QED  BY <1>1, <1>2, <1>5, <2>1, <2>2, StepIsSound DEF Inside, Steps
<1>6. QED  BY <1>1, <1>4, <1>5

LEMMA AddsIsSound ==
  ASSUME EngineInv, Adds
  PROVE  EngineInv'
<1> USE DEF EngineInv, Shape
<1>1. call.pc = "add" /\ handles[call.class]
      BY DEF Adds, Within
<1>2. /\ call.op \in {"replace", "remove"} /\ call.left # {} /\ call.left \subseteq Wanted(call)
      /\ call.class \in Classes /\ call.done = FALSE /\ process.running
      BY <1>1 DEF CallKnows, Writes, Inside, Steps, CallShape
<1>3. Planned(call.class, Wanted(call))
  <2>1. CASE call.op = "replace"
        BY <1>2, <2>1, PlanIsPlanned DEF Wanted, CallKnows
  <2>2. CASE call.op # "replace"
        BY <2>2 DEF Wanted, Planned
  <2>3. QED  BY <2>1, <2>2
<1>4. PICK spec \in call.left : spec = CHOOSE s \in call.left : TRUE
      BY <1>2
<1> DEFINE f == Stored(call.class, spec, process.life)
           rest == call.left \ {spec}
           pc == IF call.left = {spec} THEN "commit" ELSE "add"
           more == draft.filters \union {f}
<1>5. /\ UNCHANGED <<objects, filters, writer, lingering, process, handles, control, answer, driver,
                     report, budget, past>>
      /\ \/ Goes("abort") /\ UNCHANGED draft
         \/ /\ draft' = [draft EXCEPT !.filters = more]
            /\ call' = [call EXCEPT !.left = rest, !.pc = pc]
      BY <1>4 DEF Adds, host
<1>6. draft.filters = Drafted /\ Sound(draft.filters) /\ draft.filters \subseteq Filter
      BY <1>1 DEF FiltersKnow, Steps, DraftShape
<1>7. CASE Goes("abort") /\ UNCHANGED draft
  <2>1. /\ CallShape(call') /\ call'.pc = "abort" /\ call'.class = call.class
        /\ call'.op = call.op /\ call'.policy = call.policy
        /\ call'.left = call.left /\ call'.keys = call.keys /\ call'.done = call.done
        /\ Wanted(call') = Wanted(call)
        BY <1>7, CallGoes DEF Inside
  <2>2. CallKnows'
        BY <1>1, <1>5, <2>1 DEF CallKnows, Inside, Steps, Writes, DriverCalls
  <2>3. QED  BY <1>1, <1>5, <1>6, <1>7, <2>1, <2>2, StepIsSound DEF Inside, Steps
<1>8. CASE draft' = [draft EXCEPT !.filters = more] /\ call' = [call EXCEPT !.left = rest, !.pc = pc]
  <2>1. spec \in Specs /\ spec.layer \in LayersOf(call.class) /\ spec.key = Key(spec.layer, spec.app)
        BY <1>2, <1>3 DEF Planned
  <2>2. process.life \in 0 .. MaxLives
        BY DEF ProcessShape
  <2>3. f \in Filter /\ f.key = Key(f.layer, f.app)
        /\ (f.layer \in LayersOf("Guard") \/ f.provider = "other" => f.session = 0)
        BY <1>2, <2>1, <2>2, StoredIsFilter
  <2>4. rest \in SUBSET Work /\ rest \subseteq Wanted(call)
        BY <1>2 DEF CallShape
  <2>5. (pc = "commit" => rest = {}) /\ (pc = "add" => rest # {}) /\ pc \in {"commit", "add"}
        OBVIOUS
  <2>6. more \in SUBSET Filter /\ Sound(more)
        BY <1>6, <2>3 DEF Sound
  <2>7. more = (filters \ Owned(filters, call.class))
               \cup {Stored(call.class, s, process.life) : s \in Wanted(call) \ rest}
    <3>1. draft.filters = (filters \ Owned(filters, call.class))
               \cup {Stored(call.class, s, process.life) : s \in Wanted(call) \ call.left}
          BY <1>1, <1>2, <1>6 DEF Drafted
    <3>2. Wanted(call) \ rest = (Wanted(call) \ call.left) \cup {spec}
          BY <1>2
    <3>3. QED  BY <3>1, <3>2
  <2> HIDE DEF rest, pc, more, f
  <2>8. CallShape(call')
        BY <1>8, <2>4, <2>5 DEF CallShape, Inside, Steps
  <2>9. /\ call'.pc = pc /\ call'.class = call.class /\ call'.op = call.op
        /\ call'.policy = call.policy /\ call'.left = rest /\ call'.keys = call.keys
        /\ call'.done = call.done
        BY <1>8 DEF CallShape
  <2>10. Wanted(call') = Wanted(call)
        BY <2>9 DEF Wanted
  <2>11. CallKnows'
        BY <1>1, <1>2, <1>5, <2>4, <2>5, <2>9, <2>10 DEF CallKnows, Inside, Steps, Writes, DriverCalls
  <2>12. DraftShape(draft') /\ draft'.filters = more
        BY <1>8, <2>6 DEF DraftShape
  <2>13. Drafted' = more
        BY <1>2, <1>5, <2>5, <2>7, <2>9, <2>10 DEF Drafted
  <2>14. QED
    BY <1>1, <1>5, <2>5, <2>6, <2>8, <2>9, <2>11, <2>12, <2>13, StepIsSound DEF Inside, Steps
<1>9. QED  BY <1>5, <1>7, <1>8

\* A commit that is not heard of, or is: the draft is what the filters become.
LEMMA CommitsIsSound ==
  ASSUME EngineInv, Commits
  PROVE  EngineInv'
<1> USE DEF EngineInv, Shape
<1>1. /\ call.pc = "commit" /\ handles[call.class] /\ Answers(TRUE)
      /\ objects' = draft.objects /\ filters' = draft.filters
      /\ writer' = NoSession /\ draft' = Nothing
      /\ UNCHANGED <<lingering, process, handles, driver, report, budget>>
      /\ \/ UNCHANGED <<control, past>>
         \/ control' = RecordMutation(control) /\ past' = [past EXCEPT !.changed = TRUE]
      BY DEF Commits, Within, Committed
<1>2. CallShape(call') /\ AnswerShape(answer') /\ CallKnows' /\ call'.pc = "idle"
      BY <1>1, CallIsOver
<1>3. /\ objects' \in Conditions /\ filters' \subseteq Filter /\ SessionShape(writer')
      /\ DraftShape(draft')
      BY <1>1, NothingIs DEF DraftShape, SessionShape
<1>4. SessionsKnow'
      BY <1>1, <1>2 DEF SessionsKnow, Session, Inside, Steps
<1>5. FiltersKnow'
      BY <1>1, <1>2, NothingIs DEF FiltersKnow, Sound, Steps
<1>6. ControlShape(control') /\ PastShape(past')
      BY <1>1, Dated, PastIs
<1>7. ReportsKnow'
  <2>1. CASE UNCHANGED <<control, past>>
        BY <1>1, <1>2, <2>1, ReportsStay
  <2>2. CASE control' = RecordMutation(control)
    <3>1. Greater(control'.filter, control'.observed) > Greater(control.filter, control.observed)
          BY <2>2, Dated
    <3>2. /\ control.filter \in Nat /\ control.observed \in Nat
          /\ control'.filter \in Nat /\ control'.observed \in Nat
          BY <1>6 DEF ControlShape
    <3>3. QED  BY <1>1, <1>2, <3>1, <3>2 DEF ReportsKnow, Greater
  <2>3. QED  BY <1>1, <2>1, <2>2
<1>8. QED
  BY <1>1, <1>2, <1>3, <1>4, <1>5, <1>6, <1>7 DEF RefusedOncePerLease

\* A session has broken.
LEMMA HandleLost ==
  ASSUME HandlesShape(handles), NEW c \in Classes, handles' = [handles EXCEPT ![c] = FALSE]
  PROVE  HandlesShape(handles') /\ handles'[c] = FALSE
         /\ \A d \in Classes : handles'[d] => handles[d] /\ d # c
BY DEF HandlesShape

LEMMA CommitUnheardIsSound ==
  ASSUME EngineInv, CommitUnheard
  PROVE  EngineInv'
<1> USE DEF EngineInv, Shape
<1>1. /\ call.pc = "commit" /\ handles[call.class]
      /\ handles' = [handles EXCEPT ![call.class] = FALSE]
      /\ lingering' = lingering \union {Session(call.class)}
      /\ UNCHANGED <<process, control, answer, driver, report, past>>
      BY DEF CommitUnheard, Within
<1>2. BudgetShape(budget')
      BY SpendIs DEF CommitUnheard
<1>3. call.class \in Classes /\ process.running /\ call.op \in Writes
      BY <1>1 DEF CallShape, CallKnows, Inside, Steps
<1>4. /\ HandlesShape(handles') /\ handles'[call.class] = FALSE
      /\ \A d \in Classes : handles'[d] => handles[d] /\ d # call.class
      BY <1>1, <1>3, HandleLost
<1>5. /\ \/ /\ objects' = draft.objects /\ filters' = draft.filters
            /\ writer' = NoSession /\ draft' = Nothing
            /\ call' = [call EXCEPT !.pc = "abort", !.done = TRUE]
         \/ UNCHANGED <<objects, filters, writer, draft>> /\ Goes("abort")
      BY DEF CommitUnheard, Committed
<1>6. CallShape(call')
      BY <1>5 DEF CallShape, Goes, Inside
<1>7. /\ call'.pc = "abort" /\ call'.class = call.class /\ call'.op = call.op
      /\ call'.policy = call.policy /\ call'.left = call.left
      BY <1>5 DEF CallShape, Goes
<1>8. CallKnows'
  <2>1. Wanted(call') = Wanted(call)
        BY <1>7 DEF Wanted
  <2>2. QED  BY <1>1, <1>3, <1>7, <2>1 DEF CallKnows, Inside, Steps, Writes, DriverCalls
<1>9. /\ objects' \in Conditions /\ filters' \subseteq Filter /\ SessionShape(writer')
      /\ DraftShape(draft') /\ Sound(filters') /\ Sound(draft'.filters)
      BY <1>5, NothingIs DEF DraftShape, SessionShape, FiltersKnow, Sound
<1>10. /\ lingering' \subseteq (1 .. MaxLives) \X Classes
       /\ \A s \in lingering' : s[1] <= process.life
  <2>1. process.life \in Nat
        BY EngineAssumption DEF ProcessShape
  <2>2. QED  BY <1>1, <1>3, <2>1, SessionIs DEF SessionsKnow
<1>11. \A d, e \in Classes : Session(d) = Session(e) => d = e
      BY DEF Session
<1>12. SessionsKnow'
  <2>1. \A c \in Classes : handles'[c] => Session(c)' \notin lingering'
        BY <1>1, <1>3, <1>4, <1>11 DEF SessionsKnow, Session
  <2>2. writer' = NoSession \/ writer' \in lingering'
        BY <1>1, <1>5 DEF SessionsKnow, Inside
  <2>3. QED  BY <1>1, <1>4, <1>7, <1>10, <2>1, <2>2 DEF SessionsKnow
<1>13. FiltersKnow'
      BY <1>7, <1>9 DEF FiltersKnow, Steps
<1>14. ReportsKnow'
      BY <1>1, <1>7, ReportsStay
<1>15. QED
  BY <1>1, <1>2, <1>4, <1>6, <1>8, <1>9, <1>10, <1>12, <1>13, <1>14 DEF RefusedOncePerLease

-----------------------------------------------------------------------------
(* The service comes and goes.                                             *)

LEMMA OpensIsSound ==
  ASSUME EngineInv, Opens
  PROVE  EngineInv'
<1> USE DEF EngineInv, Shape
<1>1. /\ ~process.running /\ process.life < MaxLives
      /\ process' = [running |-> TRUE, life |-> process.life + 1]
      /\ handles' = [c \in Classes |-> TRUE]
      /\ call' = [Idle EXCEPT !.op = "provision", !.pc = "begin"] /\ answer' = NoAnswer
      /\ UNCHANGED <<bfe, control, driver, report, budget, past>>
      BY DEF Opens
<1>2. CallShape(call')
      BY <1>1, IdleIs DEF CallShape, Writes
<1>3. /\ call'.op = "provision" /\ call'.pc = "begin" /\ call'.left = {} /\ call'.done = FALSE
      BY <1>1, IdleIs DEF CallShape
<1>4. AnswerShape(answer')
      BY <1>1 DEF AnswerShape, NoAnswer, Classes
<1>5. process.life \in Nat /\ MaxLives \in Nat
      BY EngineAssumption DEF ProcessShape
<1>6. ProcessShape(process') /\ process'.running /\ process'.life = process.life + 1
      /\ process'.life \in 1 .. MaxLives
      BY <1>1, <1>5 DEF ProcessShape
<1>7. HandlesShape(handles')
      BY <1>1 DEF HandlesShape
<1>8. Wanted(call') = {}
      BY <1>3 DEF Wanted
<1>9. CallKnows'
      BY <1>1, <1>3, <1>6, <1>8 DEF CallKnows, Inside, Steps, Writes, DriverCalls
<1>10. SessionsKnow'
  <2>1. \A s \in lingering : s[1] <= process.life /\ s[1] \in 1 .. MaxLives
        BY DEF SessionsKnow
  <2>2. UNCHANGED <<writer, lingering>>
        BY <1>1 DEF bfe
  <2>3. \A s \in lingering' : s[1] <= process'.life /\ s[1] # process'.life
        BY <1>5, <1>6, <2>1, <2>2
  <2>4. \A c \in Classes : Session(c)'[1] = process'.life
        BY DEF Session
  <2>5. writer' = NoSession \/ writer' \in lingering'
    <3>1. call.pc \notin Inside
          BY <1>1 DEF CallKnows, Inside, Steps
    <3>2. QED  BY <2>2, <3>1 DEF SessionsKnow
  <2>6. QED  BY <1>3, <1>6, <2>3, <2>4, <2>5 DEF SessionsKnow, Inside, Steps
<1>11. FiltersKnow'
      BY <1>1, <1>3 DEF FiltersKnow, Sound, Steps, bfe
<1>12. ReportsKnow'
      BY <1>1, <1>3, ReportsStay
<1>13. QED
  BY <1>1, <1>2, <1>4, <1>6, <1>7, <1>9, <1>10, <1>11, <1>12 DEF RefusedOncePerLease, bfe

LEMMA CrashesIsSound ==
  ASSUME EngineInv, Crashes
  PROVE  EngineInv'
<1> USE DEF EngineInv, Shape
<1>1. /\ process.running /\ process' = [process EXCEPT !.running = FALSE]
      /\ lingering' = lingering \union {Session(c) : c \in Classes}
      /\ driver' = (IF driver.lease = "none" THEN driver ELSE Released(driver))
      /\ call' = Idle /\ answer' \in {answer, NoAnswer}
      /\ past' = [steady |-> {}, seen |-> {}, changed |-> FALSE]
      /\ handles' = [c \in Classes |-> FALSE]
      /\ control' = [observed |-> 0, filter |-> 0] /\ report' = 0
      /\ UNCHANGED <<objects, filters, writer, draft, budget>>
      BY DEF Crashes
<1>2. ProcessShape(process') /\ process'.running = FALSE /\ process'.life = process.life
      BY <1>1 DEF ProcessShape
<1>3. /\ lingering' \subseteq (1 .. MaxLives) \X Classes
      /\ \A s \in lingering' : s[1] <= process'.life
  <2>1. process.life \in Nat
        BY EngineAssumption DEF ProcessShape
  <2>2. QED  BY <1>1, <1>2, <2>1, SessionIs DEF SessionsKnow
<1>4. DriverShape(driver') /\ DriverKnows(driver')
      BY <1>1, ReleasedIs, DriverIsRefused DEF DriverKnows
<1>5. CallShape(call') /\ call'.pc = "idle" /\ call'.op = "none" /\ call'.done = FALSE
      BY <1>1, IdleIs
<1>6. AnswerShape(answer')
  <2>1. AnswerShape(NoAnswer)
        BY DEF AnswerShape, NoAnswer, Classes
  <2>2. QED  BY <1>1, <2>1
<1>7. CallKnows'
      BY <1>1, <1>5 DEF CallKnows, Inside, Steps, Writes, DriverCalls
<1>8. SessionsKnow'
  <2>1. writer' = NoSession \/ writer' \in lingering'
    <3>1. call.class \in Classes
          BY DEF CallShape
    <3>2. QED  BY <1>1, <3>1 DEF SessionsKnow
  <2>2. QED  BY <1>2, <1>3, <1>5, <2>1 DEF SessionsKnow, Inside, Steps
<1>9. FiltersKnow'
      BY <1>1, <1>5 DEF FiltersKnow, Sound, Steps
<1>10. ControlShape(control') /\ HandlesShape(handles') /\ PastShape(past') /\ report' \in Nat
      BY <1>1, PastIs DEF ControlShape, HandlesShape
<1>11. ReportsKnow'
  <2>1. control'.filter = 0 /\ control'.observed = 0 /\ past'.changed = FALSE
        BY <1>1
  <2>2. QED  BY <1>1, <1>5, <2>1 DEF ReportsKnow, Greater
<1>12. QED
  BY <1>1, <1>2, <1>3, <1>4, <1>5, <1>6, <1>7, <1>8, <1>9, <1>10, <1>11, DriverIsRefused
  DEF RefusedOncePerLease, DriverKnows

LEMMA BreaksIsSound ==
  ASSUME EngineInv, NEW c \in Classes, Breaks(c)
  PROVE  EngineInv'
<1> USE DEF EngineInv, Shape
<1>1. /\ process.running /\ handles[c] /\ handles' = [handles EXCEPT ![c] = FALSE]
      /\ lingering' = lingering \union {Session(c)}
      /\ UNCHANGED <<objects, filters, writer, draft, process, control, call, answer, driver,
                     report, past>>
      BY DEF Breaks
<1>2. BudgetShape(budget')
      BY SpendIs DEF Breaks
<1>3. /\ HandlesShape(handles') /\ handles'[c] = FALSE
      /\ \A d \in Classes : handles'[d] => handles[d] /\ d # c
      BY <1>1, HandleLost
<1>4. /\ lingering' \subseteq (1 .. MaxLives) \X Classes
      /\ \A s \in lingering' : s[1] <= process.life
  <2>1. process.life \in Nat
        BY EngineAssumption DEF ProcessShape
  <2>2. QED  BY <1>1, <2>1, SessionIs DEF SessionsKnow
<1>5. \A d, e \in Classes : Session(d) = Session(e) => d = e
      BY DEF Session
<1>6. call.class \in Classes
      BY DEF CallShape
<1>7. SessionsKnow'
  <2>1. \A d \in Classes : handles'[d] => Session(d)' \notin lingering'
        BY <1>1, <1>3, <1>5 DEF SessionsKnow, Session
  <2>2. writer # NoSession /\ writer \notin lingering' =>
          call.pc \in Inside /\ writer = Session(call.class) /\ handles'[call.class]
    <3>1. ASSUME writer # NoSession, writer \notin lingering'
          PROVE  call.pc \in Inside /\ writer = Session(call.class) /\ handles'[call.class]
      <4>1. call.pc \in Inside /\ writer = Session(call.class) /\ handles[call.class]
            BY <1>1, <3>1 DEF SessionsKnow
      <4>2. call.class # c
            BY <1>1, <3>1, <4>1
      <4>3. handles'[call.class]
            BY <1>1, <1>6, <4>1, <4>2 DEF HandlesShape
      <4>4. QED  BY <4>1, <4>3
    <3>2. QED  BY <3>1
  <2>3. call.pc \in Inside /\ handles'[call.class] => writer = Session(call.class)
        BY <1>3, <1>6 DEF SessionsKnow
  <2>4. QED  BY <1>1, <1>4, <2>1, <2>2, <2>3 DEF SessionsKnow, Session
<1>8. FiltersKnow'
      BY <1>1, <1>3, <1>6 DEF FiltersKnow, Sound, Drafted
<1>9. ReportsKnow'
      BY <1>1 DEF ReportsKnow
<1>10. CallKnows'
      BY <1>1 DEF CallKnows
<1>11. QED
  BY <1>1, <1>2, <1>3, <1>4, <1>7, <1>8, <1>9, <1>10 DEF RefusedOncePerLease

-----------------------------------------------------------------------------
(* What others do to the filters, the sessions and the driver.             *)

LEMMA WitnessedIsSound ==
  ASSUME PastShape(past), ReportsKnow, filters' \subseteq Filter, Sound(filters'),
         Witnessed(filters'), UNCHANGED <<call, control, report>>
  PROVE  PastShape(past') /\ ReportsKnow'
<1> DEFINE k == KeysOf(Ours(filters'))
<1>1. k \subseteq Keys
      BY DEF KeysOf, Ours, Sound, Filter, Keys
<1>2. CASE call.pc = "filters"
  <2> DEFINE steady == past.steady \intersect k
             seen == past.seen \union k
  <2>1. past' = [past EXCEPT !.steady = steady, !.seen = seen]
        BY <1>2 DEF Witnessed
  <2>2. steady \in SUBSET Keys /\ seen \in SUBSET Keys
        BY <1>1 DEF PastShape
  <2>3. steady \subseteq past.steady /\ steady \subseteq k /\ k \subseteq seen /\ past.seen \subseteq seen
        OBVIOUS
  <2> HIDE DEF k, steady, seen
  <2>4. PastShape(past')
        BY <2>1, <2>2 DEF PastShape
  <2>5. past'.steady = steady /\ past'.seen = seen /\ past'.changed = past.changed
        BY <2>1 DEF PastShape
  <2>6. ReportsKnow'
    <3>1. k = KeysOf(Ours(filters))'
          BY DEF k, KeysOf, Ours
    <3>2. QED  BY <1>2, <2>3, <2>5, <3>1 DEF ReportsKnow
  <2>7. QED  BY <2>4, <2>6
<1>3. CASE call.pc # "filters"
      BY <1>3, ReportsStay DEF Witnessed
<1>4. QED  BY <1>2, <1>3

\* While nobody has the call's transaction open, the filters are free to change.
LEMMA FiltersChange ==
  ASSUME EngineInv, ~(call.pc \in Inside /\ handles[call.class]),
         filters' \subseteq Filter, Sound(filters'), objects' \in Conditions,
         lingering' \subseteq lingering, writer' = NoSession, draft' \in {draft, Nothing},
         Witnessed(filters'), BudgetShape(budget'),
         UNCHANGED <<process, handles, control, call, answer, driver, report>>
  PROVE  EngineInv'
<1> USE DEF EngineInv, Shape
<1>1. SessionShape(writer') /\ DraftShape(draft') /\ Sound(draft'.filters)
      BY NothingIs DEF SessionShape, FiltersKnow, Sound
<1>2. SessionsKnow'
      BY DEF SessionsKnow, Session
<1>3. FiltersKnow'
      BY <1>1 DEF FiltersKnow, Inside
<1>4. PastShape(past') /\ ReportsKnow'
      BY WitnessedIsSound
<1>5. CallKnows'
      BY DEF CallKnows
<1>6. lingering' \subseteq (1 .. MaxLives) \X Classes
      OBVIOUS
<1>7. QED  BY <1>1, <1>2, <1>3, <1>4, <1>5, <1>6 DEF RefusedOncePerLease

LEMMA OpenIsCalls ==
  ASSUME EngineInv, call.pc \in Inside, handles[call.class]
  PROVE  writer # NoSession /\ writer \notin lingering
<1>1. call.class \in Classes /\ process.running /\ writer = Session(call.class)
      BY DEF EngineInv, Shape, CallShape, CallKnows, SessionsKnow, Inside, Steps
<1>2. QED  BY <1>1, SessionIs DEF EngineInv, Shape, SessionsKnow

LEMMA RunsDownIsSound ==
  ASSUME EngineInv, NEW s \in lingering, RunsDown(s)
  PROVE  EngineInv'
<1>1. /\ s \in lingering /\ writer \in {NoSession, s}
      /\ lingering' = lingering \ {s} /\ writer' = NoSession /\ draft' = Nothing
      /\ filters' = {f \in filters : s # <<f.session, "DataPlane">>}
      /\ Witnessed(filters')
      /\ UNCHANGED <<objects, process, handles, control, call, answer, driver, report, budget>>
      BY DEF RunsDown, host
<1>2. ~(call.pc \in Inside /\ handles[call.class])
      BY <1>1, OpenIsCalls
<1>3. filters' \subseteq Filter /\ Sound(filters')
      BY <1>1 DEF EngineInv, Shape, FiltersKnow, Sound
<1>4. lingering' \subseteq lingering
      BY <1>1
<1>5. BudgetShape(budget') /\ objects' \in Conditions
      BY <1>1 DEF EngineInv, Shape
<1>6. QED  BY <1>1, <1>2, <1>3, <1>4, <1>5, FiltersChange

\* A filter that lost its terms, and one of another program.
LEMMA AlteredFilter ==
  ASSUME NEW f \in Filter, f.key = Key(f.layer, f.app),
         f.layer \in LayersOf("Guard") \/ f.provider = "other" => f.session = 0
  PROVE  LET g == [f EXCEPT !.flags = {}]
         IN  /\ g \in Filter /\ g.key = f.key /\ g.layer = f.layer /\ g.provider = f.provider
             /\ g.key = Key(g.layer, g.app)
             /\ g.layer \in LayersOf("Guard") \/ g.provider = "other" => g.session = 0
<1> DEFINE g == [f EXCEPT !.flags = {}]
<1>1. g \in Filter
      BY DEF Filter
<1>2. g.key = f.key /\ g.layer = f.layer /\ g.app = f.app /\ g.session = f.session
      /\ g.provider = f.provider
      BY DEF Filter
<1> HIDE DEF g
<1>3. QED  BY <1>1, <1>2 DEF g

LEMMA ForeignFilter ==
  ASSUME NEW f \in Filter, f.key = Key(f.layer, f.app), f.session = 0
  PROVE  LET g == [f EXCEPT !.provider = "other"]
         IN  /\ g \in Filter /\ g.key = Key(g.layer, g.app) /\ g.session = 0
             /\ g.provider = "other"
<1> DEFINE g == [f EXCEPT !.provider = "other"]
<1>1. g \in Filter
      BY DEF Filter
<1>2. g.key = f.key /\ g.layer = f.layer /\ g.app = f.app /\ g.session = f.session
      /\ g.provider = "other"
      BY DEF Filter
<1> HIDE DEF g
<1>3. QED  BY <1>1, <1>2 DEF g

\* What other programs can do: delete or alter a filter of ours, or add one of their own.
LEMMA TamperedIs ==
  ASSUME filters \subseteq Filter, Sound(filters), NEW set \in Tampered
  PROVE  /\ set \subseteq Filter /\ Sound(set)
         /\ \/ \E f \in filters : set = filters \ {f}
            \/ \E f \in filters : \E g \in Filter :
                 /\ g.key = f.key /\ g.layer = f.layer /\ g.provider = f.provider
                 /\ set = (filters \ {f}) \union {g}
            \/ \E g \in Filter : g.provider = "other" /\ set = filters \union {g}
<1>1. CASE \E f \in Ours(filters) : set = filters \ {f}
      BY <1>1 DEF Ours, Sound
<1>2. CASE \E f \in Ours(filters) : set = (filters \ {f}) \union {[f EXCEPT !.flags = {}]}
  <2>1. PICK f \in Ours(filters) : set = (filters \ {f}) \union {[f EXCEPT !.flags = {}]}
        BY <1>2
  <2> DEFINE g == [f EXCEPT !.flags = {}]
  <2>2. f \in Filter /\ f \in filters /\ f.key = Key(f.layer, f.app)
        /\ (f.layer \in LayersOf("Guard") \/ f.provider = "other" => f.session = 0)
        BY DEF Ours, Sound
  <2>3. /\ g \in Filter /\ g.key = f.key /\ g.layer = f.layer /\ g.provider = f.provider
        /\ g.key = Key(g.layer, g.app)
        /\ g.layer \in LayersOf("Guard") \/ g.provider = "other" => g.session = 0
        BY <2>2, AlteredFilter
  <2>4. set = (filters \ {f}) \union {g}
        BY <2>1
  <2> HIDE DEF g
  <2>5. QED  BY <2>2, <2>3, <2>4 DEF Sound
<1>3. CASE \E s \in {t \in UNION {PlanGuards(p) : p \in Policies} : t.key \notin KeysOf(filters)} :
             set = filters \union {[Stored("Guard", s, 0) EXCEPT !.provider = "other"]}
  <2>1. PICK s, p : /\ p \in Policies /\ s \in PlanGuards(p)
                    /\ set = filters \union {[Stored("Guard", s, 0) EXCEPT !.provider = "other"]}
        BY <1>3
  <2> DEFINE f == Stored("Guard", s, 0)
             g == [f EXCEPT !.provider = "other"]
  <2>2. "Guard" \in Classes /\ 0 \in 0 .. MaxLives
        BY EngineAssumption DEF Classes
  <2>3. s \in Specs /\ s.layer \in LayersOf("Guard") /\ s.key = Key(s.layer, s.app)
    <3>1. Plan("Guard", p) = PlanGuards(p)
          BY DEF Plan
    <3>2. QED  BY <2>1, <2>2, <3>1, PlanIsPlanned DEF Planned
  <2>4. f \in Filter /\ f.key = Key(f.layer, f.app) /\ f.session = 0
    <3>1. /\ f \in Filter /\ f.key = Key(f.layer, f.app) /\ f.layer = s.layer
          /\ (f.layer \in LayersOf("Guard") \/ f.provider = "other" => f.session = 0)
          BY <2>2, <2>3, StoredIsFilter
    <3>2. QED  BY <2>3, <3>1
  <2> HIDE DEF f
  <2>5. /\ g \in Filter /\ g.key = Key(g.layer, g.app) /\ g.session = 0 /\ g.provider = "other"
        BY <2>4, ForeignFilter
  <2>6. set = filters \union {g}
        BY <2>1 DEF f
  <2> HIDE DEF g
  <2>7. QED  BY <2>5, <2>6 DEF Sound
<1> DEFINE Lost == UNION {{filters \ {f}, (filters \ {f}) \union {[f EXCEPT !.flags = {}]}} :
                          f \in Ours(filters)}
           Taken == {filters \union {[Stored("Guard", s, 0) EXCEPT !.provider = "other"]} :
                       s \in {t \in UNION {PlanGuards(p) : p \in Policies} : t.key \notin KeysOf(filters)}}
<1>4. CASE set \in Lost
  <2>1. PICK f \in Ours(filters) : set \in {filters \ {f}, (filters \ {f}) \union {[f EXCEPT !.flags = {}]}}
        BY <1>4
  <2>2. set = filters \ {f} \/ set = (filters \ {f}) \union {[f EXCEPT !.flags = {}]}
        BY <2>1
  <2>3. QED  BY <1>1, <1>2, <2>2
<1>5. CASE set \in Taken
      BY <1>3, <1>5
<1>6. Tampered = Lost \union Taken
      BY DEF Tampered
<1> HIDE DEF Lost, Taken
<1>7. QED  BY <1>4, <1>5, <1>6

LEMMA TampersIsSound ==
  ASSUME EngineInv, Tampers
  PROVE  EngineInv'
<1>1. /\ writer = NoSession /\ MayStill("tampers") /\ Spend("tampers")
      /\ \/ filters' \in Tampered /\ UNCHANGED objects
         \/ UNCHANGED filters
            /\ \E o \in Objects : objects' = [objects EXCEPT ![o] = "altered"]
      /\ Witnessed(filters')
      /\ UNCHANGED <<writer, draft, lingering, process, handles, control, call, answer, driver,
                     report>>
      BY DEF Tampers, host
<1>2. ~(call.pc \in Inside /\ handles[call.class])
      BY <1>1, OpenIsCalls
<1>3. filters' \subseteq Filter /\ Sound(filters')
      BY <1>1, TamperedIs DEF EngineInv, Shape, FiltersKnow
<1>4. BudgetShape(budget')
      BY <1>1, SpendIs DEF EngineInv, Shape
<1>5. objects' \in Conditions
      BY <1>1 DEF EngineInv, Shape, Conditions
<1>6. QED  BY <1>1, <1>2, <1>3, <1>4, <1>5, FiltersChange

LEMMA DriverIsSound ==
  ASSUME EngineInv, Leases \/ Lapses
  PROVE  EngineInv'
<1> USE DEF EngineInv, Shape
<1>1. UNCHANGED <<bfe, process, handles, control, call, answer, report, past>>
      BY DEF Leases, Lapses, host
<1>2. DriverShape(driver') /\ DriverKnows(driver') /\ BudgetShape(budget')
  <2>1. CASE Leases
    <3>1. PICK kept \in BOOLEAN :
            driver' = [driver EXCEPT !.lease = "live", !.active = kept, !.stopping = FALSE]
      <4>1. (driver.active /\ driver.lease # "none") \in BOOLEAN
            BY DEF DriverShape
      <4>2. QED  BY <2>1, <4>1 DEF Leases
    <3>2. DriverShape(driver')
          BY <3>1 DEF DriverShape
    <3>3. driver'.lease = "live"
          BY <3>1 DEF DriverShape
    <3>4. BudgetShape(budget')
          BY <2>1, SpendIs DEF Leases
    <3>5. QED  BY <3>2, <3>3, <3>4 DEF DriverKnows
  <2>2. CASE Lapses
    <3>1. driver' = [driver EXCEPT !.lease = "expired"] /\ UNCHANGED budget
          BY <2>2 DEF Lapses
    <3>2. DriverShape(driver') /\ driver'.lease = "expired"
          BY <3>1 DEF DriverShape
    <3>3. QED  BY <3>1, <3>2 DEF DriverKnows
  <2>3. QED  BY <2>1, <2>2
<1>3. SessionsKnow' /\ FiltersKnow' /\ CallKnows' /\ ReportsKnow'
  <2>1. SessionsKnow'
        BY <1>1 DEF SessionsKnow, Session, bfe
  <2>2. FiltersKnow'
        BY <1>1 DEF FiltersKnow, Sound, Drafted, bfe
  <2>3. CallKnows'
        BY <1>1 DEF CallKnows
  <2>4. ReportsKnow'
        BY <1>1 DEF ReportsKnow, bfe
  <2>5. QED  BY <2>1, <2>2, <2>3, <2>4
<1>4. Shape'
      BY <1>1, <1>2 DEF bfe
<1>5. QED  BY <1>2, <1>3, <1>4 DEF RefusedOncePerLease, DriverKnows

-----------------------------------------------------------------------------
(* The invariant.                                                          *)

LEMMA EngineInit ==
  ASSUME Init
  PROVE  EngineInv
<1>1. objects \in Conditions /\ filters = {} /\ lingering = {}
      BY DEF Init, Absent, Conditions
<1>2. SessionShape(writer) /\ writer = NoSession
      BY DEF Init, SessionShape
<1>3. DraftShape(draft) /\ draft.filters = {}
      BY NothingIs DEF Init
<1>4. ProcessShape(process) /\ process.running = FALSE
      BY EngineAssumption DEF Init, ProcessShape
<1>5. HandlesShape(handles)
      BY DEF Init, HandlesShape
<1>6. CallShape(call) /\ call = Idle /\ call.pc = "idle" /\ call.op = "none" /\ call.done = FALSE
      BY IdleIs DEF Init
<1>7. AnswerShape(answer)
      BY DEF Init, AnswerShape, NoAnswer, Classes
<1>8. ControlShape(control) /\ report = 0 /\ control.filter = 0 /\ control.observed = 0
      BY DEF Init, ControlShape
<1>9. DriverShape(driver) /\ driver.policy = None
      BY DEF Init, DriverShape
<1>10. BudgetShape(budget)
      BY EngineAssumption DEF Init, BudgetShape
<1>11. PastShape(past) /\ past.changed = FALSE
      BY DEF Init, PastShape
<1>12. CallKnows
      BY <1>6 DEF CallKnows, Inside, Steps, Writes, DriverCalls
<1>13. SessionsKnow /\ FiltersKnow
      BY <1>1, <1>2, <1>3, <1>4, <1>6 DEF SessionsKnow, FiltersKnow, Sound, Inside, Steps
<1>14. ReportsKnow
      BY <1>6, <1>8, <1>11 DEF ReportsKnow, Greater
<1>15. Shape
      BY <1>1, <1>2, <1>3, <1>4, <1>5, <1>6, <1>7, <1>8, <1>9, <1>10, <1>11 DEF Shape
<1>16. QED  BY <1>9, <1>12, <1>13, <1>14, <1>15 DEF EngineInv, RefusedOncePerLease

LEMMA EngineStep ==
  ASSUME EngineInv, [Next]_vars
  PROVE  EngineInv'
<1>1. CASE Opens
      BY <1>1, OpensIsSound
<1>2. CASE \E c \in Classes : CallReplace(c) \/ CallRemove(c)
      BY <1>2, CallReplaceIsSound, CallRemoveIsSound
<1>3. CASE \E p \in Policies : CallUpload(p)
      BY <1>3, CallUploadIsSound
<1>4. CASE (\E op \in {"unload", "activate", "deactivate"} : CallDriver(op)) \/ CallSnapshot
      BY <1>4, CallDriverIsSound, CallSnapshotIsSound
<1>5. CASE Begins \/ BeginFails \/ Ensures \/ Verifies \/ Clears \/ Adds
      BY <1>5, BeginsIsSound, BeginFailsIsSound, EnsuresIsSound, VerifiesIsSound, ClearsIsSound,
         AddsIsSound
<1>6. CASE StepFails \/ Commits \/ CommitUnheard \/ Aborts
      BY <1>6, StepFailsIsSound, CommitsIsSound, CommitUnheardIsSound, AbortsIsSound
<1>7. CASE Issues \/ Replies \/ Attests \/ ReadsDriver \/ ReadsObjects \/ ReadsFilters
      BY <1>7, IssuesIsSound, RepliesIsSound, AttestsIsSound, ReadsDriverIsSound,
         ReadsObjectsIsSound, ReadsFiltersIsSound
<1>8. CASE ReadFails \/ Reports
      BY <1>8, ReadFailsIsSound, ReportsIsSound
<1>9. CASE Crashes \/ \E c \in Classes : Breaks(c)
      BY <1>9, CrashesIsSound, BreaksIsSound
<1>10. CASE \E s \in lingering : RunsDown(s)
      BY <1>10, RunsDownIsSound
<1>11. CASE Tampers \/ Leases \/ Lapses
      BY <1>11, TampersIsSound, DriverIsSound
<1>12. CASE UNCHANGED vars
  <2> USE DEF EngineInv, Shape
  <2>1. /\ UNCHANGED <<objects, filters, writer, draft, lingering, process, handles, call, answer>>
        /\ UNCHANGED <<control, driver, report, budget, past>>
        BY <1>12 DEF vars
  <2>2. SessionsKnow'
        BY <2>1 DEF SessionsKnow, Session
  <2>3. FiltersKnow'
        BY <2>1 DEF FiltersKnow, Sound, Drafted
  <2>4. CallKnows' /\ ReportsKnow' /\ RefusedOncePerLease'
        BY <2>1 DEF CallKnows, ReportsKnow, RefusedOncePerLease
  <2>5. Shape'
        BY <2>1
  <2>6. QED  BY <2>2, <2>3, <2>4, <2>5
<1>13. QED
  BY <1>1, <1>2, <1>3, <1>4, <1>5, <1>6, <1>7, <1>8, <1>9, <1>10, <1>11, <1>12 DEF Next

\* The inductive invariant holds in every state of every behaviour.
THEOREM EngineInvHolds == Spec => []EngineInv
<1>1. Init => EngineInv
      BY EngineInit
<1>2. EngineInv /\ [Next]_vars => EngineInv'
      BY EngineStep
<1>3. QED  BY <1>1, <1>2, PTL DEF Spec

LEMMA EngineTypes ==
  ASSUME Shape
  PROVE  TypeOK
<1> USE DEF Shape
<1>1. draft.objects \in Conditions /\ draft.filters \subseteq Filter
      BY DEF DraftShape
<1>2. /\ writer \in {NoSession} \union ((1..MaxLives) \X Classes)
      /\ process \in [running : BOOLEAN, life : 0..MaxLives] /\ handles \in [Classes -> BOOLEAN]
      BY DEF SessionShape, ProcessShape, HandlesShape
<1>3. control \in [observed : Nat, filter : Nat]
      BY DEF ControlShape
<1>4. driver \in [policy : Policies \union {None}, generation : Nat,
                 lease : {"none", "live", "expired"}, active : BOOLEAN, stopping : BOOLEAN]
      BY DEF DriverShape
<1>5. QED  BY <1>1, <1>2, <1>3, <1>4 DEF TypeOK

(* No path of a transaction leaves it open: a writer that is no session on  *)
(* its way out belongs to the call under way.  And the driver refuses to    *)
(* answer for a lease at most once, whatever the calls before.              *)
THEOREM EngineIsLeftInOrder == Spec => []EngineInvariant
<1>1. ASSUME EngineInv PROVE EngineInvariant
  <2>1. TypeOK
        BY <1>1, EngineTypes DEF EngineInv
  <2>2. call = Idle => call.pc \notin Inside
        BY IdleIs DEF Inside, Steps
  <2>3. QED  BY <1>1, <2>1, <2>2 DEF EngineInvariant, NothingLeftOpen, EngineInv, SessionsKnow
<1>2. QED  BY <1>1, EngineInvHolds, PTL

(* A snapshot is dated past every one before it if a confirmed change came  *)
(* in between, names every filter that was there all the while, and none    *)
(* that never was.                                                          *)
THEOREM SnapshotsAreTrue == Spec => ReportsAreTrue
<1>1. ASSUME EngineInv, [Next]_vars
      PROVE  [Reports =>
                /\ report' >= report
                /\ past.changed => report' > report
                /\ past.steady \subseteq call.keys /\ call.keys \subseteq past.seen]_vars
  <2>1. CASE Reports
    <3>1. /\ call.pc = "filters" /\ call.left = {}
          /\ report' = Greater(control.filter, control.observed)
          BY <2>1 DEF Reports
    <3>2. QED  BY <1>1, <3>1 DEF EngineInv, ReportsKnow
  <2>2. CASE ~Reports
        BY <2>2
  <2>3. QED  BY <2>1, <2>2
<1>2. QED  BY <1>1, EngineInvHolds, PTL DEF Spec, ReportsAreTrue

-----------------------------------------------------------------------------
(* The refinement.                                                         *)

\* What the store holds, is asked and has answered, as functions of the engine's state.
HeldIn(set) == [c \in Classes |-> KeysOf(Owned(set, c))]
RequestOf(c) ==
  IF c.op \in {"replace", "remove"}
  THEN [kind |-> c.class, done |-> c.done,
        keys |-> IF c.op = "remove" THEN {} ELSE KeysOf(Plan(c.class, c.policy))]
  ELSE [kind |-> "none", keys |-> {}, done |-> FALSE]
Told(a) ==
  IF a.op \notin {"replace", "remove"} THEN "none" ELSE IF a.ok THEN "ok" ELSE "failed"

LEMMA StoreIs ==
  /\ Held = HeldIn(filters) /\ Held' = HeldIn(filters')
  /\ StoreRequest = RequestOf(call) /\ StoreRequest' = RequestOf(call')
  /\ Outcome = Told(answer) /\ Outcome' = Told(answer')
BY DEF Held, HeldIn, StoreRequest, RequestOf, Outcome, Told

LEMMA NothingAsked ==
  /\ RequestOf(Idle) = Store!NoRequest /\ Told(NoAnswer) = "none"
  /\ \A c : c.op \notin {"replace", "remove"} => RequestOf(c) = Store!NoRequest
BY IdleIs DEF RequestOf, Told, NoAnswer, Store!NoRequest

\* A step that the store does not see.
LEMMA Stutters ==
  ASSUME UNCHANGED filters, RequestOf(call') = RequestOf(call), Told(answer') = Told(answer),
         budget'.tampers = budget.tampers
  PROVE  [Store!Next]_(Store!svars)
<1>1. UNCHANGED <<Held, StoreRequest, Outcome>>
      BY StoreIs
<1>2. UNCHANGED (filters \ Ours(filters))
      BY DEF Ours
<1>3. QED  BY <1>1, <1>2 DEF Store!svars

\* A step of a call that leaves the filters as they are and goes on.
LEMMA GoesOnRefines ==
  ASSUME CallShape(call), UNCHANGED <<filters, answer>>, CallShape(call'),
         call'.op = call.op, call'.class = call.class, call'.policy = call.policy,
         call'.done = call.done, budget'.tampers = budget.tampers
  PROVE  [Store!Next]_(Store!svars)
<1>1. RequestOf(call') = RequestOf(call)
      BY DEF RequestOf
<1>2. QED  BY <1>1, Stutters

\* A call that ends: the failure of a write, or anything that is not a write.
LEMMA EndRefines ==
  ASSUME EngineInv, UNCHANGED filters, call.pc # "idle", call' = Idle,
         budget'.tampers = budget.tampers,
         Told(answer') \in {"none", "failed"},
         call.op \notin {"replace", "remove"} => Told(answer') = "none"
  PROVE  [Store!Next]_(Store!svars)
<1>1. Told(answer) = "none" /\ RequestOf(call') = Store!NoRequest
      BY NothingAsked DEF EngineInv, CallKnows
<1>2. CASE call.op \in {"replace", "remove"}
  <2>1. call.class \in Classes
        BY DEF EngineInv, Shape, CallShape
  <2>2. RequestOf(call) # Store!NoRequest
    <3>1. RequestOf(call).kind = call.class /\ Store!NoRequest.kind = "none"
          BY <1>2 DEF RequestOf, Store!NoRequest
    <3>2. QED  BY <2>1, <3>1 DEF Classes
  <2>3. UNCHANGED Held /\ UNCHANGED (filters \ Ours(filters))
        BY StoreIs DEF Ours
  <2>4. Outcome' \in {"failed", "none"}
        BY StoreIs
  <2>5. Store!Abandon
        BY <1>1, <2>2, <2>3, <2>4, StoreIs DEF Store!Abandon
  <2>6. QED  BY <2>5 DEF Store!Next
<1>3. CASE call.op \notin {"replace", "remove"}
  <2>1. RequestOf(call') = RequestOf(call) /\ Told(answer') = Told(answer)
        BY <1>1, <1>3, NothingAsked
  <2>2. QED  BY <2>1, Stutters
<1>4. QED  BY <1>2, <1>3

\* A call begins.
LEMMA AskRefines ==
  ASSUME EngineInv, NEW r, Calls(r),
         \/ RequestOf(r) = Store!NoRequest
         \/ \E k \in Classes : \E keys \in PlanKeys[k] :
              RequestOf(r) = [kind |-> k, keys |-> keys, done |-> FALSE]
  PROVE  [Store!Next]_(Store!svars)
<1>1. /\ call = Idle /\ call' = r /\ answer' = NoAnswer /\ UNCHANGED filters
      /\ MayStill("calls") /\ Spend("calls")
      BY DEF Calls, bfe
<1>2. budget'.tampers = budget.tampers
      BY <1>1, SpendIs DEF EngineInv, Shape
<1>3. StoreRequest = Store!NoRequest /\ Outcome' = "none"
      BY <1>1, NothingAsked, StoreIs
<1>4. UNCHANGED Held /\ UNCHANGED (filters \ Ours(filters))
      BY <1>1, StoreIs DEF Ours
<1>5. StoreRequest' = RequestOf(r)
      BY <1>1, StoreIs
<1>6. \/ UNCHANGED StoreRequest
      \/ \E k \in Classes : \E keys \in PlanKeys[k] :
           StoreRequest' = [kind |-> k, keys |-> keys, done |-> FALSE]
      BY <1>3, <1>5
<1>7. Store!Ask
      BY <1>2, <1>3, <1>4, <1>6 DEF Store!Ask
<1>8. QED  BY <1>7 DEF Store!Next

LEMMA CallReplaceRefines ==
  ASSUME EngineInv, NEW c \in Classes, CallReplace(c)
  PROVE  [Store!Next]_(Store!svars)
<1> DEFINE specs == Plan(c, driver.policy)
           r == [Idle EXCEPT !.op = "replace", !.class = c, !.policy = driver.policy,
                             !.pc = "begin", !.left = specs]
<1>1. Calls(r) /\ driver.policy \in Policies
      BY DEF CallReplace, EngineInv, Shape, DriverShape
<1> DEFINE u1 == [Idle EXCEPT !.op = "replace"]
           u2 == [u1 EXCEPT !.class = c]
           u3 == [u2 EXCEPT !.policy = driver.policy]
           u4 == [u3 EXCEPT !.pc = "begin"]
<1>2. r.op = "replace" /\ r.class = c /\ r.policy = driver.policy /\ r.done = FALSE
  <2>1. CallShape(u1) /\ u1.op = "replace" /\ u1.done = FALSE
        BY IdleIs DEF CallShape, Writes
  <2> HIDE DEF u1
  <2>2. CallShape(u2) /\ u2.op = "replace" /\ u2.class = c /\ u2.done = FALSE
        BY <2>1 DEF CallShape
  <2> HIDE DEF u2
  <2>3. CallShape(u3) /\ u3.op = "replace" /\ u3.class = c /\ u3.policy = driver.policy
        /\ u3.done = FALSE
        BY <1>1, <2>2 DEF CallShape
  <2> HIDE DEF u3
  <2>4. CallShape(u4) /\ u4.op = "replace" /\ u4.class = c /\ u4.policy = driver.policy
        /\ u4.done = FALSE
        BY <2>3 DEF CallShape
  <2> HIDE DEF u4, specs
  <2>5. r = [u4 EXCEPT !.left = specs]
        BY DEF u1, u2, u3, u4
  <2> HIDE DEF r
  <2>6. QED  BY <2>4, <2>5 DEF CallShape
<1> HIDE DEF r
<1>4. RequestOf(r) = [kind |-> c, keys |-> KeysOf(specs), done |-> FALSE]
      BY <1>2 DEF RequestOf
<1>5. KeysOf(specs) \in PlanKeys[c]
      BY <1>1 DEF PlanKeys
<1>6. QED  BY <1>1, <1>4, <1>5, AskRefines

LEMMA CallRemoveRefines ==
  ASSUME EngineInv, NEW c \in Classes, CallRemove(c)
  PROVE  [Store!Next]_(Store!svars)
<1> DEFINE r == [Idle EXCEPT !.op = "remove", !.class = c, !.pc = "begin"]
<1>1. Calls(r)
      BY DEF CallRemove
<1>2. r.op = "remove" /\ r.class = c /\ r.done = FALSE
      BY DEF Idle
<1> HIDE DEF r
<1>3. RequestOf(r) = [kind |-> c, keys |-> {}, done |-> FALSE]
      BY <1>2 DEF RequestOf
<1>4. {} \in PlanKeys[c]
      BY DEF PlanKeys
<1>5. QED  BY <1>1, <1>3, <1>4, AskRefines

LEMMA OtherCallsRefine ==
  ASSUME EngineInv,
         \/ \E p \in Policies : CallUpload(p)
         \/ \E op \in {"unload", "activate", "deactivate"} : CallDriver(op)
         \/ CallSnapshot
  PROVE  [Store!Next]_(Store!svars)
<1>1. \E r : Calls(r) /\ r.op \notin {"replace", "remove"}
  <2>1. CASE \E p \in Policies : CallUpload(p)
    <3>1. PICK p \in Policies : CallUpload(p)
          BY <2>1
    <3> DEFINE r == [Idle EXCEPT !.op = "upload", !.policy = p, !.pc = "issue"]
    <3>2. Calls(r) /\ r.op = "upload"
          BY <3>1 DEF CallUpload, Idle
    <3>3. QED  BY <3>2
  <2>2. CASE \E op \in {"unload", "activate", "deactivate"} : CallDriver(op)
    <3>1. PICK op \in {"unload", "activate", "deactivate"} : CallDriver(op)
          BY <2>2
    <3> DEFINE r == [Idle EXCEPT !.op = op, !.pc = "issue"]
    <3>2. Calls(r) /\ r.op = op
          BY <3>1 DEF CallDriver, Idle
    <3>3. QED  BY <3>2
  <2>3. CASE CallSnapshot
    <3> DEFINE r == [Idle EXCEPT !.op = "snapshot", !.pc = "driver"]
    <3>1. Calls(r) /\ r.op = "snapshot"
          BY <2>3 DEF CallSnapshot, Idle
    <3>2. QED  BY <3>1
  <2>4. QED  BY <2>1, <2>2, <2>3
<1>2. QED  BY <1>1, AskRefines, NothingAsked

LEMMA OpensRefines ==
  ASSUME EngineInv, Opens
  PROVE  [Store!Next]_(Store!svars)
<1>1. /\ answer' = NoAnswer /\ UNCHANGED <<filters, budget>> /\ ~process.running
      /\ call' = [Idle EXCEPT !.op = "provision", !.pc = "begin"]
      BY DEF Opens, bfe
<1>2. call = Idle
      BY <1>1 DEF EngineInv, CallKnows
<1>3. call'.op = "provision"
      BY <1>1 DEF Idle
<1>4. StoreRequest = Store!NoRequest /\ UNCHANGED StoreRequest /\ Outcome' = "none"
      BY <1>1, <1>2, <1>3, StoreIs, NothingAsked
<1>5. UNCHANGED Held /\ UNCHANGED (filters \ Ours(filters))
      BY <1>1, StoreIs DEF Ours
<1>6. Store!Ask
      BY <1>1, <1>4, <1>5 DEF Store!Ask
<1>7. QED  BY <1>6 DEF Store!Next

\* The steps of a call that go on, and change at most the draft of its transaction.
LEMMA StepsRefine ==
  ASSUME EngineInv, Begins \/ Ensures \/ Verifies \/ Clears \/ Adds \/ StepFails
  PROVE  [Store!Next]_(Store!svars)
<1> USE DEF EngineInv, Shape
<1>1. UNCHANGED <<filters, answer>>
      BY DEF Begins, Ensures, Verifies, Clears, Adds, StepFails, bfe
<1>2. budget'.tampers = budget.tampers
  <2>1. CASE StepFails
        BY <2>1, SpendIs DEF StepFails
  <2>2. CASE Begins \/ Ensures \/ Verifies \/ Clears \/ Adds
        BY <2>2 DEF Begins, Ensures, Verifies, Clears, Adds
  <2>3. QED  BY <2>1, <2>2
<1>3. call'.op = call.op /\ call'.class = call.class /\ call'.policy = call.policy
      /\ call'.done = call.done
  <2>1. ASSUME NEW pc, Goes(pc)
        PROVE  call'.op = call.op /\ call'.class = call.class /\ call'.policy = call.policy
               /\ call'.done = call.done
        BY <2>1 DEF Goes, CallShape
  <2>2. CASE Begins
        BY <2>1, <2>2 DEF Begins
  <2>3. CASE Ensures
        BY <2>1, <2>3 DEF Ensures
  <2>4. CASE Verifies
        BY <2>1, <2>4 DEF Verifies
  <2>5. CASE Clears
        BY <2>1, <2>5 DEF Clears
  <2>6. CASE StepFails
        BY <2>1, <2>6 DEF StepFails
  <2>7. CASE Adds
    <3>1. CASE Goes("abort")
          BY <2>1, <3>1
    <3>2. CASE ~Goes("abort")
      <4>1. \E left, pc : call' = [call EXCEPT !.left = left, !.pc = pc]
            BY <2>7, <3>2 DEF Adds
      <4>2. QED  BY <4>1 DEF CallShape
    <3>3. QED  BY <3>1, <3>2
  <2>8. QED  BY <2>2, <2>3, <2>4, <2>5, <2>6, <2>7
<1>4. RequestOf(call') = RequestOf(call)
      BY <1>3 DEF RequestOf
<1>5. QED  BY <1>1, <1>2, <1>4, Stutters

\* A request to the driver or a snapshot, or the failure of a transaction.
LEMMA FailuresRefine ==
  ASSUME EngineInv, BeginFails \/ Aborts
  PROVE  [Store!Next]_(Store!svars)
<1>1. UNCHANGED <<filters, budget>> /\ Answers(FALSE) /\ call.pc \in Inside \cup {"begin"}
      BY DEF BeginFails, Aborts, CallFails, Inside
<1>2. call' = Idle /\ answer' = [op |-> call.op, class |-> call.class, ok |-> FALSE]
      BY <1>1 DEF Answers
<1>3. Told(answer') = IF call.op \in {"replace", "remove"} THEN "failed" ELSE "none"
      BY <1>2 DEF Told
<1>4. call.pc # "idle"
      BY <1>1 DEF Inside, Steps
<1>5. QED  BY <1>1, <1>2, <1>3, <1>4, EndRefines

LEMMA ReadsRefine ==
  ASSUME EngineInv,
         \/ Issues \/ Replies \/ Attests \/ ReadsDriver \/ ReadsObjects \/ ReadsFilters
         \/ ReadFails \/ Reports
  PROVE  [Store!Next]_(Store!svars)
<1> USE DEF EngineInv, Shape
<1>1. UNCHANGED filters
      BY DEF Issues, Replies, Attests, ReadsDriver, ReadsObjects, ReadsFilters, ReadFails,
         Reports, bfe
<1>2. call.pc \in {"issue", "reply", "attest", "driver", "objects", "filters"}
      BY DEF Issues, Replies, Attests, ReadsDriver, ReadsObjects, ReadsFilters, ReadFails,
         Reports
<1>3. call.op \notin {"replace", "remove"} /\ call.pc # "idle"
      BY <1>2 DEF CallKnows, DriverCalls
<1>4. budget'.tampers = budget.tampers
  <2>1. CASE ReadFails
        BY <2>1, SpendIs DEF ReadFails
  <2>2. CASE ~ReadFails
        BY <2>2 DEF Issues, Replies, Attests, ReadsDriver, ReadsObjects, ReadsFilters, Reports
  <2>3. QED  BY <2>1, <2>2
<1>5. \/ call' = Idle /\ answer'.op = call.op
      \/ UNCHANGED answer /\ call'.op = call.op
  <2>1. ASSUME NEW pc, Goes(pc) PROVE call'.op = call.op
        BY <2>1 DEF Goes, CallShape
  <2>2. CASE Issues
        BY <2>1, <2>2 DEF Issues, Answers
  <2>3. CASE Replies
        BY <2>1, <2>3 DEF Replies, Answers
  <2>4. CASE Attests
        BY <2>4 DEF Attests, Answers
  <2>5. CASE ReadsDriver
        BY <2>1, <2>5 DEF ReadsDriver, Answers
  <2>6. CASE ReadsObjects
    <3>1. CASE Answers(FALSE)
          BY <3>1 DEF Answers
    <3>2. CASE ~Answers(FALSE)
      <4>1. call' = [call EXCEPT !.pc = "filters", !.left = Layers] /\ UNCHANGED answer
            BY <2>6, <3>2 DEF ReadsObjects
      <4>2. QED  BY <4>1 DEF CallShape
    <3>3. QED  BY <3>1, <3>2
  <2>7. CASE ReadsFilters
    <3>1. CASE Answers(FALSE)
          BY <3>1 DEF Answers
    <3>2. CASE ~Answers(FALSE)
      <4>1. UNCHANGED answer
            /\ \E left, keys : call' = [call EXCEPT !.left = left, !.keys = keys]
            BY <2>7, <3>2 DEF ReadsFilters
      <4>2. QED  BY <4>1 DEF CallShape
    <3>3. QED  BY <3>1, <3>2
  <2>8. CASE ReadFails \/ Reports
        BY <2>8 DEF ReadFails, Reports, Answers
  <2>9. QED  BY <2>2, <2>3, <2>4, <2>5, <2>6, <2>7, <2>8
<1>6. CASE call' = Idle /\ answer'.op = call.op
  <2>1. Told(answer') = "none"
        BY <1>3, <1>6 DEF Told
  <2>2. QED  BY <1>1, <1>3, <1>4, <1>6, <2>1, EndRefines
<1>7. CASE UNCHANGED answer /\ call'.op = call.op
  <2>1. RequestOf(call') = RequestOf(call)
        BY <1>3, <1>7, NothingAsked
  <2>2. QED  BY <1>1, <1>4, <1>7, <2>1, Stutters
<1>8. QED  BY <1>5, <1>6, <1>7

\* The death of the service is heard by no client.
LEMMA CrashesRefines ==
  ASSUME EngineInv, Crashes
  PROVE  [Store!Next]_(Store!svars)
<1>1. /\ UNCHANGED <<filters, budget>> /\ call' = Idle
      /\ answer' = IF call = Idle THEN answer ELSE NoAnswer
      BY DEF Crashes
<1>2. CASE call.pc = "idle"
  <2>1. call = Idle
        BY <1>2 DEF EngineInv, CallKnows
  <2>2. QED  BY <1>1, <2>1, Stutters
<1>3. CASE call.pc # "idle"
  <2>1. call # Idle
        BY <1>3, IdleIs
  <2>2. QED  BY <1>1, <1>3, <2>1, NothingAsked, EndRefines
<1>4. QED  BY <1>2, <1>3

LEMMA BreaksRefines ==
  ASSUME EngineInv, NEW c \in Classes, Breaks(c)
  PROVE  [Store!Next]_(Store!svars)
<1>1. UNCHANGED <<filters, call, answer>>
      BY DEF Breaks
<1>2. budget'.tampers = budget.tampers
      BY SpendIs DEF Breaks, EngineInv, Shape
<1>3. QED  BY <1>1, <1>2, Stutters

LEMMA LeasesRefines ==
  ASSUME EngineInv, Leases \/ Lapses
  PROVE  [Store!Next]_(Store!svars)
<1>1. UNCHANGED <<filters, call, answer>>
      BY DEF Leases, Lapses, bfe
<1>2. budget'.tampers = budget.tampers
      BY SpendIs DEF Leases, Lapses, EngineInv, Shape
<1>3. QED  BY <1>1, <1>2, Stutters

\* Replacing the filters of a class by those of a plan leaves all others.
LEMMA ReplacedIs ==
  ASSUME NEW set \in SUBSET Filter, NEW class \in Classes, NEW specs, Planned(class, specs),
         NEW life \in 0 .. MaxLives, NEW new,
         new = (set \ Owned(set, class)) \cup {Stored(class, s, life) : s \in specs}
  PROVE  /\ HeldIn(new) = [HeldIn(set) EXCEPT ![class] = KeysOf(specs)]
         /\ new \ Ours(new) = set \ Ours(set)
<1> DEFINE added == {Stored(class, s, life) : s \in specs}
<1>1. \A s \in specs : LET f == Stored(class, s, life)
                       IN  /\ f \in Filter /\ f.key = s.key /\ f.layer \in LayersOf(class)
                           /\ f.provider = "ours"
      BY StoredIsFilter DEF Planned
<1>2. \A f \in added : f \in Filter /\ f.layer \in LayersOf(class) /\ f.provider = "ours"
      BY <1>1
<1>3. KeysOf(added) = KeysOf(specs)
      BY <1>1 DEF KeysOf
<1> HIDE DEF added
<1>4. new = (set \ Owned(set, class)) \cup added
      BY DEF added
<1>5. new \in SUBSET Filter
      BY <1>2, <1>4
<1>6. Owned(new, class) = added
      BY <1>2, <1>4, <1>5, OwnedAre
<1>7. \A c \in Classes \ {class} : Owned(new, c) = Owned(set, c)
  <2>1. ASSUME NEW c \in Classes, c # class
        PROVE  Owned(new, c) = Owned(set, c)
    <3>1. LayersOf(c) \cap LayersOf(class) = {}
          BY <2>1, LayersAreSplit DEF Classes
    <3>2. \A f : f \in new /\ f.layer \in LayersOf(c) <=> f \in set /\ f.layer \in LayersOf(c)
      <4>1. \A f \in Owned(set, class) : f.layer \in LayersOf(class)
            BY OwnedAre
      <4>2. QED  BY <1>2, <1>4, <3>1, <4>1
    <3>3. /\ Owned(new, c) = {f \in new : f.provider = "ours" /\ f.layer \in LayersOf(c)}
          /\ Owned(set, c) = {f \in set : f.provider = "ours" /\ f.layer \in LayersOf(c)}
          BY <1>5, OwnedAre
    <3>4. QED  BY <3>2, <3>3
  <2>2. QED  BY <2>1
<1>8. HeldIn(new) = [HeldIn(set) EXCEPT ![class] = KeysOf(specs)]
      BY <1>3, <1>6, <1>7 DEF HeldIn
<1>9. \A f \in set : f \in Owned(set, class) => f.provider = "ours"
      BY OwnedAre
<1>10. new \ Ours(new) = set \ Ours(set)
      BY <1>2, <1>4, <1>9 DEF Ours
<1>11. QED  BY <1>8, <1>10

\* What the transaction of a write commits.
LEMMA CommittedIs ==
  ASSUME EngineInv, Within("commit"), filters' = draft.filters
  PROVE  /\ call.op = "provision" => filters' = filters
         /\ call.op \in {"replace", "remove"} =>
              /\ HeldIn(filters') = [HeldIn(filters) EXCEPT ![call.class] = RequestOf(call).keys]
              /\ filters' \ Ours(filters') = filters \ Ours(filters)
<1> USE DEF EngineInv, Shape
<1>1. call.pc = "commit" /\ handles[call.class] /\ call.pc \in Steps /\ call.left = {}
      BY DEF Within, Steps, CallKnows
<1>2. filters' = Drafted
      BY <1>1 DEF FiltersKnow
<1>3. CASE call.op = "provision"
      BY <1>2, <1>3 DEF Drafted
<1>4. CASE call.op \in {"replace", "remove"}
  <2> DEFINE specs == Wanted(call)
  <2>1. filters' = (filters \ Owned(filters, call.class))
                   \cup {Stored(call.class, s, process.life) : s \in specs}
        BY <1>1, <1>2, <1>4 DEF Drafted
  <2>2. call.class \in Classes /\ process.life \in 0 .. MaxLives
        BY DEF CallShape, ProcessShape
  <2>3. Planned(call.class, specs)
    <3>1. CASE call.op = "replace"
          BY <2>2, <3>1, PlanIsPlanned DEF Wanted, CallKnows
    <3>2. CASE call.op = "remove"
          BY <3>2 DEF Wanted, Planned
    <3>3. QED  BY <1>4, <3>1, <3>2
  <2>4. RequestOf(call).keys = KeysOf(specs)
        BY <1>4 DEF RequestOf, Wanted, KeysOf
  <2> HIDE DEF specs
  <2>5. QED  BY <1>4, <2>1, <2>2, <2>3, <2>4, ReplacedIs
<1>5. call.op \in Writes
      BY <1>1 DEF CallKnows, Inside
<1>6. QED  BY <1>3, <1>4, <1>5 DEF Writes

LEMMA CommitsRefines ==
  ASSUME EngineInv, Commits
  PROVE  [Store!Next]_(Store!svars)
<1>1. /\ Within("commit") /\ filters' = draft.filters /\ UNCHANGED budget
      /\ call' = Idle /\ answer' = [op |-> call.op, class |-> call.class, ok |-> TRUE]
      BY DEF Commits, Committed, Answers
<1>2. call.pc = "commit" /\ call.op \in Writes /\ ~call.done /\ call.class \in Classes
      BY <1>1 DEF Within, EngineInv, CallKnows, Shape, CallShape, Inside, Steps
<1>3. CASE call.op = "provision"
  <2>1. UNCHANGED filters /\ Told(answer') = "none"
        BY <1>1, <1>3, CommittedIs DEF Told
  <2>2. QED  BY <1>1, <1>2, <1>3, <2>1, EndRefines
<1>4. CASE call.op \in {"replace", "remove"}
  <2>1. RequestOf(call).kind = call.class /\ RequestOf(call).done = FALSE
        BY <1>2, <1>4 DEF RequestOf, EngineInv, Shape, CallShape
  <2>2. Held' = [Held EXCEPT ![RequestOf(call).kind] = RequestOf(call).keys]
        /\ UNCHANGED (filters \ Ours(filters))
    <3>1. (filters \ Ours(filters))' = filters' \ Ours(filters')
          BY DEF Ours
    <3>2. QED  BY <1>1, <1>4, <2>1, <3>1, CommittedIs, StoreIs
  <2>3. RequestOf(call') = Store!NoRequest /\ Told(answer') = "ok"
        BY <1>1, <1>4, NothingAsked DEF Told
  <2>4. Store!Perform
        BY <1>1, <1>2, <2>1, <2>2, <2>3, StoreIs DEF Store!Perform
  <2>5. QED  BY <2>4 DEF Store!Next
<1>5. QED  BY <1>2, <1>3, <1>4 DEF Writes

\* The transaction was committed, but its session broke before that was heard.
LEMMA CommitUnheardRefines ==
  ASSUME EngineInv, CommitUnheard
  PROVE  [Store!Next]_(Store!svars)
<1> USE DEF EngineInv, Shape
<1>1. Within("commit") /\ UNCHANGED answer /\ budget'.tampers = budget.tampers
      BY SpendIs DEF CommitUnheard
<1>2. call.pc = "commit" /\ call.op \in Writes /\ ~call.done /\ call.class \in Classes
      BY <1>1 DEF Within, CallKnows, CallShape, Inside, Steps
<1>3. CASE UNCHANGED filters /\ Goes("abort")
  <2>1. CallShape(call') /\ call'.op = call.op /\ call'.class = call.class
        /\ call'.policy = call.policy /\ call'.done = call.done
        BY <1>3, CallGoes DEF Inside
  <2>2. QED  BY <1>1, <1>3, <2>1, GoesOnRefines
<1>4. CASE Committed /\ call' = [call EXCEPT !.pc = "abort", !.done = TRUE]
  <2>1. filters' = draft.filters
        BY <1>4 DEF Committed
  <2>2. call'.op = call.op /\ call'.class = call.class /\ call'.policy = call.policy
        /\ call'.done = TRUE
        BY <1>4 DEF CallShape
  <2>3. CASE call.op = "provision"
    <3>1. UNCHANGED filters
          BY <1>1, <2>1, <2>3, CommittedIs
    <3>2. RequestOf(call') = RequestOf(call)
          BY <2>2, <2>3 DEF RequestOf
    <3>3. QED  BY <1>1, <3>1, <3>2, Stutters
  <2>4. CASE call.op \in {"replace", "remove"}
    <3>1. RequestOf(call).kind = call.class /\ RequestOf(call).done = FALSE
          BY <1>2, <2>4 DEF RequestOf, CallShape
    <3>2. RequestOf(call') = [RequestOf(call) EXCEPT !.done = TRUE]
      <4> DEFINE keys == IF call.op = "remove" THEN {} ELSE KeysOf(Plan(call.class, call.policy))
      <4>1. RequestOf(call) = [kind |-> call.class, done |-> call.done, keys |-> keys]
            BY <2>4 DEF RequestOf
      <4>2. RequestOf(call') = [kind |-> call.class, done |-> TRUE, keys |-> keys]
            BY <2>2, <2>4 DEF RequestOf
      <4> HIDE DEF keys
      <4>3. call.class \in {call.class} /\ keys \in {keys} /\ call.done \in BOOLEAN
            BY DEF CallShape
      <4>4. /\ RequestOf(call) \in [kind : {call.class}, done : BOOLEAN, keys : {keys}]
            /\ RequestOf(call') \in [kind : {call.class}, done : BOOLEAN, keys : {keys}]
            BY <4>1, <4>2, <4>3
      <4>5. /\ RequestOf(call).kind = call.class /\ RequestOf(call).keys = keys
            /\ RequestOf(call').kind = call.class /\ RequestOf(call').keys = keys
            /\ RequestOf(call').done = TRUE
            BY <4>1, <4>2
      <4>6. QED  BY <4>4, <4>5
    <3>3. Held' = [Held EXCEPT ![RequestOf(call).kind] = RequestOf(call).keys]
          /\ UNCHANGED (filters \ Ours(filters))
      <4>1. (filters \ Ours(filters))' = filters' \ Ours(filters')
            BY DEF Ours
      <4>2. QED  BY <1>1, <2>1, <2>4, <3>1, <4>1, CommittedIs, StoreIs
    <3>4. UNCHANGED Outcome
          BY <1>1, StoreIs
    <3>5. Store!Perform
          BY <1>1, <1>2, <3>1, <3>2, <3>3, <3>4, StoreIs DEF Store!Perform
    <3>6. QED  BY <3>5 DEF Store!Next
  <2>5. QED  BY <1>2, <2>3, <2>4 DEF Writes
<1>5. QED  BY <1>3, <1>4 DEF CommitUnheard

\* Only filters of the dynamic class leave with a session.
LEMMA RunsDownRefines ==
  ASSUME EngineInv, NEW s \in lingering, RunsDown(s)
  PROVE  [Store!Next]_(Store!svars)
<1> USE DEF EngineInv, Shape
<1>1. /\ filters' = {f \in filters : s # <<f.session, "DataPlane">>}
      /\ UNCHANGED <<call, answer, budget>>
      BY DEF RunsDown
<1>2. s[1] \in 1 .. MaxLives /\ s[1] # 0
      BY EngineAssumption
<1>3. filters' \subseteq filters /\ filters' \in SUBSET Filter
      BY <1>1
<1>4. \A f \in filters : f.layer \in LayersOf("Guard") \/ f.provider = "other" => f \in filters'
      BY <1>1, <1>2 DEF FiltersKnow, Sound
<1>5. \A f \in filters : f.provider \in {"ours", "other"}
      BY DEF Filter
<1>6. Owned(filters', "Guard") = Owned(filters, "Guard")
      BY <1>3, <1>4, OwnedAre DEF Classes
<1>7. Owned(filters', "DataPlane") \subseteq Owned(filters, "DataPlane")
      BY <1>3, OwnedAre DEF Classes
<1>8. Held' = HeldIn(filters') /\ Held = HeldIn(filters)
      BY StoreIs
<1>9. Held'["DataPlane"] \subseteq Held["DataPlane"]
      /\ \A k \in Classes \ {"DataPlane"} : Held'[k] = Held[k]
      BY <1>6, <1>7, <1>8 DEF HeldIn, KeysOf, Classes
<1>10. UNCHANGED (filters \ Ours(filters))
  <2>1. filters' \ Ours(filters') = filters \ Ours(filters)
        BY <1>3, <1>4, <1>5 DEF Ours
  <2>2. QED  BY <2>1 DEF Ours
<1>11. UNCHANGED <<StoreRequest, Outcome>>
      BY <1>1, StoreIs
<1>12. Store!SessionEnds
      BY <1>1, <1>9, <1>10, <1>11 DEF Store!SessionEnds
<1>13. QED  BY <1>12 DEF Store!Next

LEMMA TampersRefines ==
  ASSUME EngineInv, Tampers
  PROVE  [Store!Next]_(Store!svars)
<1> USE DEF EngineInv, Shape
<1>1. UNCHANGED <<call, answer>> /\ (filters' \in Tampered \/ UNCHANGED filters)
      BY DEF Tampers
<1>2. budget.tampers > 0 /\ budget'.tampers = budget.tampers - 1
      BY SpendIs DEF Tampers
<1>3. filters \in SUBSET Filter /\ Sound(filters)
      BY DEF FiltersKnow
<1>4. ASSUME NEW c \in Classes
      PROVE  KeysOf(Owned(filters', c)) \subseteq KeysOf(Owned(filters, c))
  <2>1. CASE UNCHANGED filters
        BY <2>1
  <2>2. CASE filters' \in Tampered
    <3>1. filters' \in SUBSET Filter
          BY <1>3, <2>2, TamperedIs
    <3>2. ASSUME NEW g \in Owned(filters', c)
          PROVE  \E f \in Owned(filters, c) : f.key = g.key
      <4>1. g \in filters' /\ g.provider = "ours" /\ g.layer \in LayersOf(c)
            BY <3>1, OwnedAre
      <4>2. \E f \in filters : f.key = g.key /\ f.provider = "ours" /\ f.layer = g.layer
        <5>1. CASE \E f \in filters : filters' = filters \ {f}
              BY <4>1, <5>1
        <5>2. CASE \E f \in filters : \E h \in Filter :
                     /\ h.key = f.key /\ h.layer = f.layer /\ h.provider = f.provider
                     /\ filters' = (filters \ {f}) \union {h}
              BY <4>1, <5>2
        <5>3. CASE \E h \in Filter : h.provider = "other" /\ filters' = filters \union {h}
              BY <4>1, <5>3
        <5>4. QED  BY <1>3, <2>2, <5>1, <5>2, <5>3, TamperedIs
      <4>3. QED  BY <1>3, <4>1, <4>2, OwnedAre
    <3>3. QED  BY <3>2 DEF KeysOf
  <2>3. QED  BY <1>1, <2>1, <2>2
<1>5. \A k \in Classes : Held'[k] \subseteq Held[k]
      BY <1>4, StoreIs DEF HeldIn
<1>6. UNCHANGED <<StoreRequest, Outcome>>
      BY <1>1, StoreIs
<1>7. Store!Interfere
      BY <1>2, <1>5, <1>6 DEF Store!Interfere
<1>8. QED  BY <1>7 DEF Store!Next

LEMMA StoreInit ==
  ASSUME Init
  PROVE  Store!Init
<1>1. filters = {} /\ call = Idle /\ answer = NoAnswer /\ budget.tampers \in Nat
      BY EngineAssumption DEF Init
<1>2. \A c \in Classes : Owned(filters, c) = {}
      BY <1>1, OwnedAre
<1>3. Held = [c \in Classes |-> {}]
      BY <1>2, StoreIs DEF HeldIn, KeysOf
<1>4. filters \ Ours(filters) = {}
      BY <1>1
<1>5. QED  BY <1>1, <1>3, <1>4, StoreIs, NothingAsked DEF Store!Init

LEMMA EngineRefines ==
  ASSUME EngineInv, [Next]_vars
  PROVE  [Store!Next]_(Store!svars)
<1>1. CASE Opens
      BY <1>1, OpensRefines
<1>2. CASE \E c \in Classes : CallReplace(c) \/ CallRemove(c)
      BY <1>2, CallReplaceRefines, CallRemoveRefines
<1>3. CASE \/ \E p \in Policies : CallUpload(p)
           \/ \E op \in {"unload", "activate", "deactivate"} : CallDriver(op)
           \/ CallSnapshot
      BY <1>3, OtherCallsRefine
<1>4. CASE Begins \/ Ensures \/ Verifies \/ Clears \/ Adds \/ StepFails
      BY <1>4, StepsRefine
<1>5. CASE BeginFails \/ Aborts
      BY <1>5, FailuresRefine
<1>6. CASE Commits \/ CommitUnheard
      BY <1>6, CommitsRefines, CommitUnheardRefines
<1>7. CASE Issues \/ Replies \/ Attests \/ ReadsDriver \/ ReadsObjects \/ ReadsFilters
           \/ ReadFails \/ Reports
      BY <1>7, ReadsRefine
<1>8. CASE Crashes \/ \E c \in Classes : Breaks(c)
      BY <1>8, CrashesRefines, BreaksRefines
<1>9. CASE \E s \in lingering : RunsDown(s)
      BY <1>9, RunsDownRefines
<1>10. CASE Tampers \/ Leases \/ Lapses
      BY <1>10, TampersRefines, LeasesRefines
<1>11. CASE UNCHANGED vars
      BY <1>11, Stutters DEF vars
<1>12. QED
  BY <1>1, <1>2, <1>3, <1>4, <1>5, <1>6, <1>7, <1>8, <1>9, <1>10, <1>11 DEF Next

(* Each replace and remove of WindowsWfpEngineStore is one indivisible      *)
(* change of one class of filters, confirmed only if it was made: through   *)
(* failing steps, sessions that break, crashes and what ends late.          *)
THEOREM EngineImplementsStore == Spec => ImplementsStore
<1>1. EngineInv /\ [Next]_vars => [Store!Next]_(Store!svars)
      BY EngineRefines
<1>2. QED
  BY <1>1, StoreInit, EngineInvHolds, PTL DEF Spec, ImplementsStore, Store!Spec
=============================================================================
