------------------------ MODULE TcpForwardingProofs ------------------------
(***************************************************************************)
(* The forwarding runtime leaves nothing open, for any number of relay     *)
(* workers and connections, and whatever faults, stops and exits come.     *)
(* The argument has two halves.  The lease is the owner's from the first   *)
(* activation to the revocation or the expiry, and what the owner and the  *)
(* renewal thread believe of its end is never too early, but in the moment *)
(* between an activation and the look at the clock.  A connection that was *)
(* redirected is in the backlog, or some worker holds it; a worker that    *)
(* has ended holds none.                                                   *)
(***************************************************************************)
EXTENDS TcpForwarding, TLAPS

\* Where the owner is.  Before its first activation returns, and after the
\* revocation or the expiry, the driver has no lease.
Before == {"idle", "querying", "attesting", "probing", "pinging", "pooling", "leasing"}
Arming == {"leased", "planning", "arming", "spawning"}
Armed  == {"canary", "binding", "child", "restoring", "evidence", "gate", "rearming",
           "active", "forcing", "stopping", "joining"}
Revoking == {"revoking", "expiring"}
After    == {"unbridging", "closing"}
Places   == Before \union Arming \union Armed \union Revoking \union After

RenewalPlaces == {"none", "waiting", "verifying", "committing", "committed", "advancing",
                  "revoking", "expiring", "closing", "ended"}
WorkerPlaces == {"none", "receiving", "validating", "querying", "foreign", "connecting",
                 "greeting", "asking", "relaying", "ended"}
ConnPlaces == {"new", "backlog", "queued", "served", "refused", "gone"}

WorkerRecords == [pc : WorkerPlaces, serving : Connections \union {None},
                  queue : Connections \union {None}]
ConnRecords   == [at : ConnPlaces, age : 0..Old]

\* The shapes of the parts.
OwnerShape(o)    == o \in [pc : Places, ok : BOOLEAN]
RenewalShape(r)  == r \in [pc : RenewalPlaces, ok : BOOLEAN]
ClockShape(t)    == t \in 0..TTL
PlanShape(p)     == p \in [set : BOOLEAN, lag : 0..1]
BridgeShape(b)   == b \in {"none", "running", "failed"}
ListenerShape(l) == l \in {"none", "running", "joining", "ended"}
FlagsShape(f)    == f \in [shutdown : BOOLEAN, alive : BOOLEAN]
WorkerShape(w)   == w \in [Indices -> WorkerRecords]
ConnShape(c)     == c \in [Connections -> ConnRecords]

Shape ==
  /\ OwnerShape(owner) /\ RenewalShape(renewal)
  /\ ClockShape(lease) /\ ClockShape(expiry)
  /\ stop \in BOOLEAN /\ core \in BOOLEAN
  /\ PlanShape(plan) /\ BridgeShape(bridge)
  /\ ListenerShape(listener) /\ FlagsShape(flags)
  /\ WorkerShape(worker) /\ next \in Indices /\ ConnShape(conn)

\* The renewal thread lives only within the owner's runtime.
RenewalIsOwned ==
  /\ owner.pc \notin Armed => renewal.pc \in {"none", "ended"}
  /\ owner.pc \in Arming \union {"leasing"} => renewal.pc = "none"

LeaseIsOwned == lease > 0 => owner.pc \notin Before \union After

\* What is believed of the lease's end is not too early.
LeaseIsCovered == lease <= expiry \/ owner.pc = "leased" \/ renewal.pc = "committed"

RenewalCloses ==
  /\ renewal.pc = "closing" => lease = 0
  /\ RenewalEndsClosed

\* The plan is at most one renewal behind the driver.
PlanFollows ==
  /\ owner.pc \in Before \union {"leased", "planning"} => plan = NoPlan
  /\ plan.lag = 1 => renewal.pc \notin {"none", "waiting", "verifying", "committing"}

PartsAreOwned ==
  /\ owner.pc \in Before \union {"leased", "planning", "arming", "closing"} => bridge = "none"
  /\ owner.pc \in Before \ {"leasing"} => listener \in {"none", "ended"}

Leasing == /\ RenewalIsOwned /\ LeaseIsOwned /\ LeaseIsCovered
           /\ RenewalCloses /\ PlanFollows /\ PartsAreOwned

\* The workers live while the listener does, and one that ended holds nothing.
WorkersServe ==
  /\ listener = "none" => \A w \in Indices : worker[w].pc = "none"
  /\ listener \in {"running", "joining"} => \A w \in Indices : worker[w].pc # "none"
  /\ listener = "ended" => \A w \in Indices : worker[w].pc = "ended"
  /\ \A w \in Indices :
       /\ worker[w].pc \in {"none", "receiving", "ended"} => worker[w].serving = None
       /\ worker[w].pc \in {"none", "ended"} => worker[w].queue = None

\* A connection that was accepted and is not over is some worker's.
ConnectionsAreHeld ==
  \A c \in Connections :
    conn[c].at \in {"queued", "served"} =>
      \E w \in Indices : worker[w].queue = c \/ worker[w].serving = c

BacklogIsOwned ==
  owner.pc \in Before => \A c \in Connections : conn[c].at # "backlog"

RuntimeInv ==
  Shape /\ Leasing /\ WorkersServe /\ ConnectionsAreHeld /\ BacklogIsOwned

-----------------------------------------------------------------------------
(* What the states say, and what the operators that the actions share do.  *)

LEMMA ShapeIsType == Shape <=> TypeOK
BY DEF Shape, TypeOK, OwnerShape, RenewalShape, ClockShape, PlanShape, BridgeShape,
       ListenerShape, FlagsShape, WorkerShape, ConnShape, WorkerRecords, ConnRecords, Places,
       Before, Arming, Armed, Revoking, After, RenewalPlaces, WorkerPlaces, ConnPlaces

\* When the listener has ended, or none was started, nothing is held.
LEMMA NothingIsHeld ==
  ASSUME Shape, WorkersServe, ConnectionsAreHeld, listener \in {"none", "ended"}
  PROVE  /\ \A w \in Indices : worker[w].serving = None /\ worker[w].queue = None
         /\ \A c \in Connections : conn[c].at \notin {"queued", "served"}
<1>1. \A w \in Indices : worker[w].pc \in {"none", "ended"}
      BY DEF WorkersServe
<1>2. \A w \in Indices : worker[w].serving = None /\ worker[w].queue = None
      BY <1>1 DEF WorkersServe
<1>3. ASSUME NEW c \in Connections PROVE conn[c].at \notin {"queued", "served"}
      BY <1>2, WorkersAssumption DEF ConnectionsAreHeld
<1>4. QED  BY <1>2, <1>3

LEMMA InvImpliesProperties == RuntimeInv => ForwardingInvariant
<1> SUFFICES ASSUME RuntimeInv PROVE ForwardingInvariant
    OBVIOUS
<1>1. TypeOK
      BY ShapeIsType DEF RuntimeInv
<1>2. PortsOutliveTheLease
      BY DEF RuntimeInv, Leasing, LeaseIsOwned, PortsOutliveTheLease, PortsAreBound, Before
<1>3. RuntimeLeavesNothing
  <2> SUFFICES ASSUME owner.pc = "idle" PROVE RuntimeLeavesNothing
      BY DEF RuntimeLeavesNothing
  <2>1. owner.pc \in Before \ {"leasing"} /\ owner.pc \notin Armed
        BY DEF Before, Armed
  <2>2. lease = 0
    <3>1. lease \in 0..TTL
          BY DEF RuntimeInv, Shape, ClockShape
    <3>2. QED  BY <2>1, <3>1 DEF RuntimeInv, Leasing, LeaseIsOwned, TTL
  <2>3. /\ renewal.pc \in {"none", "ended"} /\ bridge = "none"
        /\ listener \in {"none", "ended"}
        BY <2>1 DEF RuntimeInv, Leasing, RenewalIsOwned, PartsAreOwned
  <2>4. \A w \in Indices : worker[w].serving = None /\ worker[w].queue = None
        BY <2>3, NothingIsHeld DEF RuntimeInv
  <2>5. \A c \in Connections : conn[c].at \notin {"backlog", "queued", "served"}
        BY <2>1, <2>3, NothingIsHeld DEF RuntimeInv, BacklogIsOwned
  <2>6. QED  BY <2>2, <2>3, <2>4, <2>5 DEF RuntimeLeavesNothing
<1>4. RenewalEndsClosed
      BY DEF RuntimeInv, Leasing, RenewalCloses
<1>5. QED  BY <1>1, <1>2, <1>3, <1>4 DEF ForwardingInvariant

LEMMA OwnerGoes ==
  ASSUME OwnerShape(owner), NEW pc \in Places, Goes(pc)
  PROVE  OwnerShape(owner') /\ owner'.pc = pc
BY DEF OwnerShape, Goes

LEMMA RenewalGoesOn ==
  ASSUME RenewalShape(renewal), NEW pc \in RenewalPlaces, RenewalGoes(pc)
  PROVE  RenewalShape(renewal') /\ renewal'.pc = pc
BY DEF RenewalShape, RenewalGoes

\* An activation, whatever it answers, gives a lease or leaves everything; the
\* connections grow older, and stay where they are.
LEMMA ActivationEffect ==
  ASSUME Shape, NEW ok \in BOOLEAN, Activates(ok), plan.set => plan.lag = 0
  PROVE  /\ ClockShape(lease') /\ PlanShape(plan') /\ ConnShape(conn')
         /\ plan = NoPlan => plan' = NoPlan
         /\ plan' = plan \/ plan'.lag = plan.lag + 1
         /\ \A c \in Connections : conn'[c].at = conn[c].at
<1>1. CASE LeaseCommits
  <2>1. ClockShape(lease')
        BY <1>1 DEF LeaseCommits, ClockShape, TTL
  <2>2. \/ plan' = plan
        \/ plan.set /\ plan' = [plan EXCEPT !.lag = plan.lag + 1]
        BY <1>1 DEF LeaseCommits
  <2>3. PlanShape(plan)
        BY DEF Shape
  <2>4. PlanShape(plan') /\ (plan' = plan \/ plan'.lag = plan.lag + 1)
        BY <2>2, <2>3 DEF PlanShape
  <2>5. plan = NoPlan => plan' = NoPlan
        BY <2>2 DEF NoPlan
  <2>6. conn' = [c \in Connections |->
                   IF conn[c].at \in {"backlog", "queued"} /\ conn[c].age < Old
                   THEN [conn[c] EXCEPT !.age = conn[c].age + 1] ELSE conn[c]]
        BY <1>1 DEF LeaseCommits
  <2>7. ASSUME NEW c \in Connections PROVE conn'[c] \in ConnRecords /\ conn'[c].at = conn[c].at
    <3>1. conn[c] \in ConnRecords
          BY DEF Shape, ConnShape
    <3>2. CASE conn[c].age < Old
      <4>1. [conn[c] EXCEPT !.age = conn[c].age + 1] \in ConnRecords
            BY <3>1, <3>2 DEF ConnRecords, Old
      <4>2. [conn[c] EXCEPT !.age = conn[c].age + 1].at = conn[c].at
            BY <3>1 DEF ConnRecords
      <4>3. QED  BY <2>6, <3>1, <4>1, <4>2
    <3>3. QED  BY <2>6, <3>1, <3>2
  <2>8. ConnShape(conn')
        BY <2>6, <2>7 DEF ConnShape
  <2>9. QED  BY <2>1, <2>4, <2>5, <2>7, <2>8
<1>2. CASE UNCHANGED <<lease, conn, plan>>
      BY <1>2 DEF Shape
<1>3. QED  BY <1>1, <1>2 DEF Activates

LEMMA RevocationEffect ==
  ASSUME ClockShape(lease), NEW ok \in BOOLEAN, Revokes(ok)
  PROVE  ClockShape(lease') /\ (lease' = 0 \/ (~ok /\ lease' = lease))
<1>1. \/ lease' = 0
      \/ ~ok /\ lease' = lease
      BY Zenon DEF Revokes
<1>2. ClockShape(lease')
      BY <1>1 DEF ClockShape, TTL
<1>3. QED  BY <1>1, <1>2

\* The relaying half does not change when its variables do not.
LEMMA RelayingKept ==
  ASSUME WorkersServe, ConnectionsAreHeld, UNCHANGED <<listener, worker>>,
         \A c \in Connections : conn'[c].at = conn[c].at
  PROVE  WorkersServe' /\ ConnectionsAreHeld'
BY DEF WorkersServe, ConnectionsAreHeld

LEMMA BacklogKept ==
  ASSUME BacklogIsOwned, \A c \in Connections : conn'[c].at = conn[c].at,
         owner'.pc \in Before => owner.pc \in Before
  PROVE  BacklogIsOwned'
BY DEF BacklogIsOwned

\* A step of the owner or of the renewal thread that touches no connection.
LEMMA RelaysUntouched ==
  ASSUME RuntimeInv, UNCHANGED <<pool, core>>, Leasing',
         owner'.pc \in Before => owner.pc \in Before,
         OwnerShape(owner'), RenewalShape(renewal'), ClockShape(lease'), ClockShape(expiry'),
         stop' \in BOOLEAN, PlanShape(plan'), BridgeShape(bridge'), FlagsShape(flags')
  PROVE  RuntimeInv'
<1>1. Shape'
      BY DEF RuntimeInv, Shape, pool
<1>2. WorkersServe' /\ ConnectionsAreHeld' /\ BacklogIsOwned'
      BY RelayingKept, BacklogKept DEF RuntimeInv, pool
<1>3. QED  BY <1>1, <1>2 DEF RuntimeInv

-----------------------------------------------------------------------------
(* The owner.                                                              *)

\* The owner moves on, and nothing else does.
LEMMA OwnerMoves ==
  ASSUME RuntimeInv, OwnerShape(owner'),
         UNCHANGED <<leasing, renewal, stop, plan, bridge, pool, flags, core>>,
         \/ owner.pc \in Before \ {"leasing"} /\ owner'.pc \in Before \ {"leasing"}
         \/ owner.pc \in Armed /\ owner'.pc \in Armed
  PROVE  RuntimeInv'
<1>1. Leasing'
      BY DEF RuntimeInv, Leasing, RenewalIsOwned, LeaseIsOwned, LeaseIsCovered, RenewalCloses,
             RenewalEndsClosed, PlanFollows, PartsAreOwned, leasing, pool,
             Before, Arming, Armed, After
<1>2. owner'.pc \in Before => owner.pc \in Before
      BY DEF Before, Armed
<1>3. QED  BY <1>1, <1>2, RelaysUntouched DEF RuntimeInv, Shape, leasing

LEMMA OwnerStarting ==
  ASSUME RuntimeInv,
         \/ OwnerBinds \/ OwnerQueries \/ OwnerAttests \/ OwnerProbes \/ OwnerPings
         \/ OwnerCannotListen
  PROVE  RuntimeInv'
<1>1. PICK pc \in Before \ {"leasing"} : Goes(pc)
      BY DEF OwnerBinds, OwnerQueries, OwnerAttests, OwnerProbes, OwnerPings, OwnerCannotListen,
             Probe, Either, Before
<1>2. /\ owner.pc \in Before \ {"leasing"}
      /\ UNCHANGED <<leasing, renewal, stop, plan, bridge, pool, flags, core>>
      BY DEF OwnerBinds, OwnerQueries, OwnerAttests, OwnerProbes, OwnerPings, OwnerCannotListen,
             Probe, Before
<1>3. OwnerShape(owner') /\ owner'.pc = pc
      BY <1>1, OwnerGoes DEF RuntimeInv, Shape, Places
<1>4. QED  BY <1>1, <1>2, <1>3, OwnerMoves

LEMMA OwnerMeasuring ==
  ASSUME RuntimeInv,
         \/ OwnerMapsName \/ OwnerBindsCanary \/ OwnerWaitsForChild \/ OwnerConfirms
         \/ OwnerMeasures \/ OwnerVerifies \/ OwnerDeactivates \/ OwnerForced
  PROVE  RuntimeInv'
<1>1. /\ owner.pc \in Armed
      /\ UNCHANGED <<leasing, renewal, stop, plan, bridge, pool, flags, core>>
      BY DEF OwnerMapsName, OwnerBindsCanary, OwnerWaitsForChild, OwnerConfirms, OwnerMeasures,
             OwnerVerifies, OwnerDeactivates, OwnerForced, CanaryStep, Armed
<1>2. \/ \E pc \in Armed : Goes(pc)
      \/ owner' = [pc |-> "gate", ok |-> FALSE]
      BY DEF OwnerMapsName, OwnerBindsCanary, OwnerWaitsForChild, OwnerConfirms, OwnerMeasures,
             OwnerVerifies, OwnerDeactivates, OwnerForced, CanaryStep, Armed, Goes
<1>3. OwnerShape(owner') /\ owner'.pc \in Armed
  <2>1. CASE \E pc \in Armed : Goes(pc)
        BY <2>1, OwnerGoes DEF RuntimeInv, Shape, Places
  <2>2. CASE owner' = [pc |-> "gate", ok |-> FALSE]
        BY <2>2 DEF OwnerShape, Places, Armed
  <2>3. QED  BY <1>2, <2>1, <2>2
<1>4. QED  BY <1>1, <1>3, OwnerMoves

\* The workers are made anew, and what the last ones held is over.
LEMMA OwnerListening == ASSUME RuntimeInv, OwnerListens PROVE RuntimeInv'
<1>1. /\ owner.pc = "pooling" /\ listener' = "running" /\ next' = 0
      /\ worker' = [w \in Indices |-> [NoWorker EXCEPT !.pc = "receiving"]]
      /\ flags' = [shutdown |-> FALSE, alive |-> TRUE]
      /\ expiry' = TTL /\ renewal' = [pc |-> "none", ok |-> TRUE]
      /\ UNCHANGED <<lease, stop, plan, bridge, conn, core>>
      BY DEF OwnerListens
<1>2. OwnerShape(owner') /\ owner'.pc = "leasing"
      BY OwnerGoes DEF OwnerListens, RuntimeInv, Shape, Places, Before
<1>3. owner.pc \in Before \ {"leasing"} /\ owner.pc \notin After
      BY <1>1 DEF Before, After
<1>4. lease = 0 /\ lease <= TTL
      BY <1>3 DEF RuntimeInv, Shape, Leasing, LeaseIsOwned, ClockShape, TTL
<1>5. Leasing'
  <2> USE DEF RuntimeInv, Leasing
  <2>1. RenewalIsOwned' /\ RenewalCloses'
        BY <1>1, <1>2, <1>4 DEF RenewalIsOwned, RenewalCloses, RenewalEndsClosed
  <2>2. LeaseIsOwned' /\ LeaseIsCovered'
        BY <1>1, <1>4 DEF LeaseIsOwned, LeaseIsCovered
  <2>3. PlanFollows'
        BY <1>1, <1>2, <1>3 DEF PlanFollows, NoPlan
  <2>4. PartsAreOwned'
        BY <1>1, <1>2, <1>3 DEF PartsAreOwned
  <2>5. QED  BY <2>1, <2>2, <2>3, <2>4
<1>6. [NoWorker EXCEPT !.pc = "receiving"] = [pc |-> "receiving", serving |-> None, queue |-> None]
      BY DEF NoWorker
<1>7. Shape'
  <2>1. WorkerShape(worker')
        BY <1>1, <1>6 DEF WorkerShape, WorkerRecords, WorkerPlaces
  <2>2. next' \in Indices
        BY <1>1, WorkersAssumption DEF Indices
  <2>3. RenewalShape(renewal') /\ ListenerShape(listener')
        BY <1>1 DEF RenewalShape, RenewalPlaces, ListenerShape
  <2>4. FlagsShape(flags') /\ ClockShape(expiry')
        BY <1>1 DEF FlagsShape, ClockShape, TTL
  <2>5. QED  BY <1>1, <1>2, <2>1, <2>2, <2>3, <2>4 DEF RuntimeInv, Shape
<1>8. WorkersServe'
      BY <1>1, <1>6 DEF WorkersServe
<1>9. listener \in {"none", "ended"}
      BY <1>3 DEF RuntimeInv, Leasing, PartsAreOwned
<1>10. ConnectionsAreHeld'
       BY <1>1, <1>9, NothingIsHeld DEF RuntimeInv, ConnectionsAreHeld
<1>11. BacklogIsOwned'
       BY <1>1, <1>3 DEF RuntimeInv, BacklogIsOwned
<1>12. QED  BY <1>5, <1>7, <1>8, <1>10, <1>11 DEF RuntimeInv

LEMMA OwnerLeasing == ASSUME RuntimeInv, OwnerLeases PROVE RuntimeInv'
<1>1. PICK ok \in BOOLEAN : Activates(ok) /\ owner' = [pc |-> "leased", ok |-> ok]
      BY DEF OwnerLeases
<1>2. /\ owner.pc = "leasing"
      /\ UNCHANGED <<expiry, renewal, stop, bridge, listener, flags, worker, next, core>>
      BY DEF OwnerLeases
<1>3. owner.pc \in Before /\ owner.pc \notin Armed
      BY <1>2 DEF Before, Armed
<1>4. plan = NoPlan /\ renewal.pc = "none" /\ bridge = "none"
      BY <1>2, <1>3 DEF RuntimeInv, Leasing, PlanFollows, RenewalIsOwned, PartsAreOwned
<1>5. plan.set => plan.lag = 0
      BY <1>4 DEF NoPlan
<1>6. /\ ClockShape(lease') /\ ConnShape(conn') /\ plan' = NoPlan /\ PlanShape(plan')
      /\ \A c \in Connections : conn'[c].at = conn[c].at
      BY <1>1, <1>4, <1>5, ActivationEffect DEF RuntimeInv
<1>7. OwnerShape(owner') /\ owner'.pc = "leased"
      BY <1>1 DEF OwnerShape, Places, Arming
<1>8. Shape'
      BY <1>2, <1>6, <1>7 DEF RuntimeInv, Shape
<1>9. Leasing'
  <2>1. RenewalIsOwned' /\ RenewalCloses'
        BY <1>2, <1>4, <1>7 DEF RenewalIsOwned, RenewalCloses, RenewalEndsClosed
  <2>2. LeaseIsOwned' /\ LeaseIsCovered'
        BY <1>7 DEF LeaseIsOwned, LeaseIsCovered, Before, After
  <2>3. PlanFollows'
        BY <1>2, <1>4, <1>6 DEF PlanFollows, NoPlan
  <2>4. PartsAreOwned'
        BY <1>2, <1>4, <1>7 DEF PartsAreOwned, Before
  <2>5. QED  BY <2>1, <2>2, <2>3, <2>4 DEF Leasing
<1>10. WorkersServe' /\ ConnectionsAreHeld'
       BY <1>2, <1>6, RelayingKept DEF RuntimeInv
<1>11. BacklogIsOwned'
       BY <1>3, <1>6, BacklogKept DEF RuntimeInv
<1>12. QED  BY <1>8, <1>9, <1>10, <1>11 DEF RuntimeInv

LEMMA OwnerObserving == ASSUME RuntimeInv, OwnerObserves PROVE RuntimeInv'
<1>1. /\ owner.pc = "leased" /\ expiry' = TTL
      /\ UNCHANGED <<lease, renewal, stop, plan, bridge, pool, flags, core>>
      BY DEF OwnerObserves
<1>2. OwnerShape(owner') /\ owner'.pc \in {"planning", "revoking"}
  <2>1. \/ Goes("planning")
        \/ Goes("revoking")
        BY DEF OwnerObserves
  <2>2. QED  BY <2>1, OwnerGoes DEF RuntimeInv, Shape, Places, Arming, Revoking
<1>3. owner.pc \in Arming /\ owner.pc \notin Armed
      BY <1>1 DEF Arming, Armed
<1>4. owner'.pc \notin Before \union After \union {"arming", "closing", "leased"}
      BY <1>2 DEF Before, After
<1>5. Leasing'
  <2> USE DEF RuntimeInv, Leasing
  <2>1. RenewalIsOwned' /\ RenewalCloses'
        BY <1>1, <1>2, <1>3 DEF RenewalIsOwned, RenewalCloses, RenewalEndsClosed
  <2>2. LeaseIsOwned' /\ LeaseIsCovered'
        BY <1>1, <1>4 DEF LeaseIsOwned, LeaseIsCovered, Shape, ClockShape
  <2>3. PlanFollows' /\ PartsAreOwned'
        BY <1>1, <1>4 DEF PlanFollows, PartsAreOwned, pool
  <2>4. QED  BY <2>1, <2>2, <2>3
<1>6. ClockShape(expiry')
      BY <1>1 DEF ClockShape, TTL
<1>7. QED  BY <1>1, <1>2, <1>4, <1>5, <1>6, RelaysUntouched DEF RuntimeInv, Shape

\* The steps of the owner between the activation and the canary.
LEMMA OwnerPreparing ==
  ASSUME RuntimeInv, OwnerPlans \/ OwnerArms \/ OwnerSpawnsRenewal
  PROVE  RuntimeInv'
<1> USE DEF RuntimeInv, Shape
<1>1. CASE OwnerPlans
  <2>1. /\ owner.pc = "planning"
        /\ \/ plan' = [set |-> TRUE, lag |-> 0] /\ Goes("arming")
           \/ plan' = plan /\ Goes("revoking")
        /\ UNCHANGED <<lease, expiry, renewal, stop, bridge, pool, flags, core>>
        BY <1>1 DEF OwnerPlans, leasing
  <2>0. OwnerShape(owner') /\ owner'.pc \in {"arming", "revoking"}
        BY <2>1, OwnerGoes DEF Places, Arming, Revoking
  <2>2. PlanShape(plan') /\ (plan' = plan \/ plan'.lag = 0)
    <3>1. CASE plan' = plan
          BY <3>1
    <3>2. CASE plan' = [set |-> TRUE, lag |-> 0]
          BY <3>2 DEF PlanShape
    <3>3. QED  BY <2>1, <3>1, <3>2
  <2>3. Leasing'
        BY <2>0, <2>1, <2>2 DEF Leasing, RenewalIsOwned, LeaseIsOwned, LeaseIsCovered, RenewalCloses,
               RenewalEndsClosed, PlanFollows, PartsAreOwned, pool, Before, Arming, Armed, After
  <2>4. owner'.pc \notin Before
        BY <2>0 DEF Before
  <2>5. QED  BY <2>0, <2>1, <2>2, <2>3, <2>4, RelaysUntouched
<1>2. CASE OwnerArms
  <2>1. /\ owner.pc = "arming"
        /\ \/ bridge' = "running" /\ Goes("spawning")
           \/ bridge' = bridge /\ Goes("revoking")
        /\ UNCHANGED <<lease, expiry, renewal, stop, plan, pool, flags, core>>
        BY <1>2 DEF OwnerArms, leasing
  <2>2. OwnerShape(owner') /\ owner'.pc \in {"spawning", "revoking"} /\ BridgeShape(bridge')
        BY <2>1, OwnerGoes DEF Places, Arming, Revoking, BridgeShape
  <2>3. Leasing'
        BY <2>1, <2>2 DEF Leasing, RenewalIsOwned, LeaseIsOwned, LeaseIsCovered, RenewalCloses,
               RenewalEndsClosed, PlanFollows, PartsAreOwned, pool, Before, Arming, Armed, After
  <2>4. owner'.pc \notin Before
        BY <2>2 DEF Before
  <2>5. QED  BY <2>1, <2>2, <2>3, <2>4, RelaysUntouched
<1>3. CASE OwnerSpawnsRenewal
  <2>1. /\ owner.pc = "spawning" /\ stop' = FALSE
        /\ \/ renewal' = [pc |-> "waiting", ok |-> TRUE] /\ Goes("canary")
           \/ renewal' = renewal /\ Goes("revoking")
        /\ UNCHANGED <<lease, expiry, plan, bridge, pool, flags, core>>
        BY <1>3 DEF OwnerSpawnsRenewal, leasing
  <2>2. OwnerShape(owner') /\ RenewalShape(renewal')
    <3>1. OwnerShape(owner')
          BY <2>1, OwnerGoes DEF Places, Armed, Revoking
    <3>2. RenewalShape(renewal')
      <4>1. RenewalShape([pc |-> "waiting", ok |-> TRUE])
            BY DEF RenewalShape, RenewalPlaces
      <4>2. QED  BY <2>1, <4>1
    <3>3. QED  BY <3>1, <3>2
  <2>3. \/ owner'.pc = "canary" /\ renewal'.pc = "waiting"
        \/ owner'.pc = "revoking" /\ renewal' = renewal
        BY <2>1, OwnerGoes DEF Places, Armed, Revoking
  <2>4. renewal.pc = "none"
        BY <2>1 DEF Leasing, RenewalIsOwned, Arming
  <2>5. Leasing'
    <3>1. RenewalIsOwned' /\ RenewalCloses'
          BY <2>1, <2>3, <2>4 DEF RenewalIsOwned, RenewalCloses, RenewalEndsClosed, Armed, Arming
    <3>2. LeaseIsOwned' /\ LeaseIsCovered'
          BY <2>1, <2>3, <2>4 DEF Leasing, LeaseIsOwned, LeaseIsCovered, Before, After
    <3>3. PlanFollows' /\ PartsAreOwned'
          BY <2>1, <2>3, <2>4 DEF Leasing, PlanFollows, PartsAreOwned, pool, Before
    <3>4. QED  BY <3>1, <3>2, <3>3 DEF Leasing
  <2>6. owner'.pc \notin Before
        BY <2>3 DEF Before
  <2>7. QED  BY <2>1, <2>2, <2>5, <2>6, RelaysUntouched
<1>4. QED  BY <1>1, <1>2, <1>3

\* The canary's bridge is stopped, and another started.
LEMMA OwnerRebridging ==
  ASSUME RuntimeInv, OwnerShutsGate \/ OwnerRearms
  PROVE  RuntimeInv'
<1>1. /\ owner.pc \in Armed
      /\ UNCHANGED <<lease, expiry, renewal, stop, plan, pool, flags, core>>
      BY DEF OwnerShutsGate, OwnerRearms, leasing, Armed
<1>2. BridgeShape(bridge')
      BY DEF OwnerShutsGate, OwnerRearms, BridgeShape, RuntimeInv, Shape
<1>3. \E pc \in Armed : Goes(pc)
      BY DEF OwnerShutsGate, OwnerRearms, Armed
<1>4. OwnerShape(owner') /\ owner'.pc \in Armed
      BY <1>3, OwnerGoes DEF RuntimeInv, Shape, Places
<1>5. owner'.pc \notin Before \union Arming \union After \union {"closing", "leased"}
      /\ owner.pc # "leased"
      BY <1>1, <1>4 DEF Before, Arming, Armed, After
<1>6. Leasing'
      BY <1>1, <1>4, <1>5 DEF RuntimeInv, Leasing, RenewalIsOwned, LeaseIsOwned, LeaseIsCovered,
         RenewalCloses, RenewalEndsClosed, PlanFollows, PartsAreOwned, Before, Arming
<1>7. QED  BY <1>1, <1>2, <1>4, <1>5, <1>6, RelaysUntouched DEF RuntimeInv, Shape

\* The runtime is torn down up to the revocation.
LEMMA OwnerEnding ==
  ASSUME RuntimeInv, OwnerForces \/ OwnerStops \/ OwnerJoinsRenewal
  PROVE  RuntimeInv'
<1> USE DEF RuntimeInv, Shape
<1>1. CASE OwnerForces
  <2>1. /\ owner.pc = "forcing" /\ Goes("stopping")
        /\ UNCHANGED <<expiry, renewal, stop, plan, bridge, pool, flags, core>>
        BY <1>1 DEF OwnerForces
  <2>2. OwnerShape(owner') /\ owner'.pc = "stopping"
        BY <2>1, OwnerGoes DEF Places, Armed
  <2>3. ClockShape(lease') /\ (lease' = 0 \/ lease' = lease)
        BY <1>1, RevocationEffect DEF OwnerForces
  <2>4. lease \in 0..TTL /\ expiry \in 0..TTL
        BY DEF ClockShape
  <2>5. LeaseIsOwned' /\ LeaseIsCovered' /\ RenewalCloses'
        BY <2>1, <2>2, <2>3, <2>4 DEF Leasing, LeaseIsOwned, LeaseIsCovered, RenewalCloses,
           RenewalEndsClosed, Before, After, TTL
  <2>6. RenewalIsOwned' /\ PlanFollows' /\ PartsAreOwned'
        BY <2>1, <2>2 DEF Leasing, RenewalIsOwned, PlanFollows, PartsAreOwned, pool,
           Before, Arming, Armed
  <2>7. owner'.pc \notin Before
        BY <2>2 DEF Before
  <2>8. QED  BY <2>1, <2>2, <2>3, <2>5, <2>6, <2>7, RelaysUntouched DEF Leasing
<1>2. CASE OwnerStops
  <2>1. /\ owner.pc = "stopping" /\ stop' = TRUE /\ Goes("joining")
        /\ UNCHANGED <<lease, expiry, renewal, plan, bridge, pool, flags, core>>
        BY <1>2 DEF OwnerStops, leasing
  <2>2. OwnerShape(owner') /\ owner'.pc = "joining"
        BY <2>1, OwnerGoes DEF Places, Armed
  <2>3. Leasing'
        BY <2>1, <2>2 DEF Leasing, RenewalIsOwned, LeaseIsOwned, LeaseIsCovered, RenewalCloses,
               RenewalEndsClosed, PlanFollows, PartsAreOwned, pool, Before, Arming, Armed, After
  <2>4. owner'.pc \notin Before
        BY <2>2 DEF Before
  <2>5. QED  BY <2>1, <2>2, <2>3, <2>4, RelaysUntouched
<1>3. CASE OwnerJoinsRenewal
  <2>1. /\ owner.pc = "joining" /\ renewal.pc = "ended" /\ Goes("revoking")
        /\ UNCHANGED <<lease, expiry, renewal, stop, plan, bridge, pool, flags, core>>
        BY <1>3 DEF OwnerJoinsRenewal, leasing
  <2>2. OwnerShape(owner') /\ owner'.pc = "revoking"
        BY <2>1, OwnerGoes DEF Places, Revoking
  <2>3. Leasing'
        BY <2>1, <2>2 DEF Leasing, RenewalIsOwned, LeaseIsOwned, LeaseIsCovered, RenewalCloses,
               RenewalEndsClosed, PlanFollows, PartsAreOwned, pool, Before, Arming, Armed, After
  <2>4. owner'.pc \notin Before
        BY <2>2 DEF Before
  <2>5. QED  BY <2>1, <2>2, <2>3, <2>4, RelaysUntouched
<1>4. QED  BY <1>1, <1>2, <1>3

\* The lease is over before the owner goes on: it is revoked, or its time is
\* up for the driver too, because no activation is under way.
LEMMA OwnerRevoking ==
  ASSUME RuntimeInv, OwnerRevokes \/ OwnerWaits
  PROVE  RuntimeInv'
<1> USE DEF RuntimeInv, Shape
<1>1. /\ owner.pc \in Revoking
      /\ UNCHANGED <<expiry, renewal, stop, plan, bridge, pool, flags, core>>
      BY DEF OwnerRevokes, OwnerWaits, leasing, Revoking
<1>2. renewal.pc \in {"none", "ended"} /\ owner.pc # "leased"
      BY <1>1 DEF Leasing, RenewalIsOwned, Revoking, Armed
<1>3. lease \in 0..TTL /\ expiry \in 0..TTL /\ lease <= expiry
      BY <1>2 DEF ClockShape, Leasing, LeaseIsCovered
<1>4. /\ ClockShape(lease') /\ (lease' = 0 \/ lease' = lease)
      /\ OwnerShape(owner') /\ owner'.pc \in {"unbridging", "expiring"}
      /\ owner'.pc = "unbridging" => lease' = 0
  <2>1. CASE OwnerRevokes
    <3>1. PICK ok \in BOOLEAN : Revokes(ok) /\ Goes(IF ok THEN "unbridging" ELSE "expiring")
          BY <2>1 DEF OwnerRevokes
    <3>2. ClockShape(lease') /\ (lease' = 0 \/ (~ok /\ lease' = lease))
          BY <3>1, RevocationEffect
    <3>3. CASE ok
          BY <3>1, <3>2, <3>3, OwnerGoes DEF Places, After
    <3>4. CASE ~ok
          BY <3>1, <3>2, <3>4, OwnerGoes DEF Places, Revoking
    <3>5. QED  BY <3>3, <3>4
  <2>2. CASE OwnerWaits
    <3>1. expiry = 0 /\ lease' = lease /\ Goes("unbridging")
          BY <2>2 DEF OwnerWaits, leasing
    <3>2. lease = 0
          BY <1>3, <3>1 DEF TTL
    <3>3. QED  BY <3>1, <3>2, OwnerGoes DEF Places, After
  <2>3. QED  BY <2>1, <2>2
<1>5. owner'.pc \notin Before \union Arming \union Armed \union {"closing"}
      BY <1>4 DEF Before, Arming, Armed
<1>6. LeaseIsOwned'
      BY <1>4 DEF LeaseIsOwned, Before, After
<1>7. LeaseIsCovered' /\ RenewalCloses'
      BY <1>1, <1>2, <1>3, <1>4 DEF Leasing, LeaseIsCovered, RenewalCloses, RenewalEndsClosed, TTL
<1>8. RenewalIsOwned' /\ PlanFollows' /\ PartsAreOwned'
      BY <1>1, <1>2, <1>5 DEF Leasing, RenewalIsOwned, PlanFollows, PartsAreOwned, pool, Before,
         Arming
<1>9. QED  BY <1>1, <1>4, <1>5, <1>6, <1>7, <1>8, RelaysUntouched DEF Leasing

LEMMA OwnerUnbridging == ASSUME RuntimeInv, OwnerStopsBridge PROVE RuntimeInv'
<1> USE DEF RuntimeInv, Shape
<1>1. /\ owner.pc = "unbridging" /\ bridge' = "none" /\ Goes("closing")
      /\ flags' = [flags EXCEPT !.shutdown = TRUE]
      /\ UNCHANGED <<lease, expiry, renewal, stop, plan, pool, core>>
      BY DEF OwnerStopsBridge, leasing
<1>2. OwnerShape(owner') /\ owner'.pc = "closing"
      BY <1>1, OwnerGoes DEF Places, After
<1>3. BridgeShape(bridge') /\ FlagsShape(flags')
      BY <1>1 DEF BridgeShape, FlagsShape
<1>4. Leasing'
      BY <1>1, <1>2 DEF Leasing, RenewalIsOwned, LeaseIsOwned, LeaseIsCovered, RenewalCloses,
         RenewalEndsClosed, PlanFollows, PartsAreOwned, pool, Before, Arming, Armed, After
<1>5. owner'.pc \notin Before
      BY <1>2 DEF Before
<1>6. QED  BY <1>1, <1>2, <1>3, <1>4, <1>5, RelaysUntouched

\* The last step: what was never accepted is reset, and nothing else is left.
LEMMA OwnerClosing == ASSUME RuntimeInv, OwnerJoinsListener PROVE RuntimeInv'
<1> USE DEF RuntimeInv, Shape
<1>1. /\ owner.pc = "closing" /\ listener = "ended"
      /\ owner' = [pc |-> "idle", ok |-> TRUE] /\ plan' = NoPlan /\ expiry' = 0
      /\ conn' = [c \in Connections |->
                    IF conn[c].at = "backlog" THEN Connection("gone") ELSE conn[c]]
      /\ UNCHANGED <<lease, renewal, stop, bridge, listener, worker, flags, next, core>>
      BY DEF OwnerJoinsListener
<1>2. OwnerShape(owner') /\ owner'.pc = "idle"
      BY <1>1 DEF OwnerShape, Places, Before
<1>3. lease = 0 /\ bridge = "none" /\ renewal.pc \in {"none", "ended"}
      BY <1>1 DEF Leasing, LeaseIsOwned, PartsAreOwned, RenewalIsOwned, ClockShape, TTL,
         After, Armed
<1>4. ClockShape(expiry') /\ PlanShape(plan')
      BY <1>1 DEF ClockShape, PlanShape, NoPlan, TTL
<1>5. Leasing'
      BY <1>1, <1>2, <1>3 DEF Leasing, RenewalIsOwned, LeaseIsOwned, LeaseIsCovered,
         RenewalCloses, RenewalEndsClosed, PlanFollows, PartsAreOwned, NoPlan, Arming
<1>6. ASSUME NEW c \in Connections
      PROVE  /\ conn'[c] \in ConnRecords /\ conn'[c].at # "backlog"
             /\ conn'[c].at \in {conn[c].at, "gone"}
  <2>1. conn[c] \in ConnRecords
        BY DEF ConnShape
  <2>2. Connection("gone") \in ConnRecords /\ Connection("gone").at = "gone"
        BY DEF Connection, ConnRecords, ConnPlaces, Old
  <2>3. QED  BY <1>1, <2>1, <2>2
<1>7. ConnShape(conn')
      BY <1>1, <1>6 DEF ConnShape
<1>8. WorkersServe'
      BY <1>1 DEF WorkersServe
<1>9. ConnectionsAreHeld'
      BY <1>1, <1>6 DEF ConnectionsAreHeld
<1>10. BacklogIsOwned'
       BY <1>6 DEF BacklogIsOwned
<1>11. QED  BY <1>1, <1>2, <1>4, <1>5, <1>7, <1>8, <1>9, <1>10

-----------------------------------------------------------------------------
(* The renewal thread, and time.                                           *)

\* While the renewal thread runs, the owner watches or stops the runtime.
LEMMA RenewalMeetsOwner ==
  ASSUME Leasing, renewal.pc \notin {"none", "ended"}
  PROVE  /\ owner.pc \in Armed /\ owner.pc # "leased"
         /\ owner.pc \notin Before \union After \union Arming \union {"closing"}
BY DEF Leasing, RenewalIsOwned, Armed, Before, After, Arming

\* A step of the renewal thread that leaves the owner and the parts.
LEMMA RenewalStep ==
  ASSUME RuntimeInv, renewal.pc \notin {"none", "ended"}, RenewalShape(renewal'),
         renewal'.pc # "none",
         UNCHANGED <<owner, stop, bridge, pool, core>>,
         ClockShape(lease'), ClockShape(expiry'), PlanShape(plan'), FlagsShape(flags'),
         LeaseIsCovered', RenewalCloses',
         plan'.lag = 1 => renewal'.pc \notin {"none", "waiting", "verifying", "committing"}
  PROVE  RuntimeInv'
<1>1. /\ owner.pc \in Armed
      /\ owner.pc \notin Before \union After \union Arming \union {"closing"}
      BY RenewalMeetsOwner DEF RuntimeInv
<1>2. RenewalIsOwned' /\ LeaseIsOwned' /\ PartsAreOwned'
      BY <1>1 DEF RenewalIsOwned, LeaseIsOwned, PartsAreOwned, Before, Arming
<1>3. PlanFollows'
      BY <1>1 DEF PlanFollows, Before, Arming
<1>4. QED  BY <1>1, <1>2, <1>3, RelaysUntouched DEF RuntimeInv, Shape, Leasing

LEMMA RenewalWorking ==
  ASSUME RuntimeInv,
         RenewalStops \/ RenewalWakes \/ RenewalVerifies \/ RenewalObserves \/ RenewalAdvances
  PROVE  RuntimeInv'
<1> USE DEF RuntimeInv, Shape
<1>1. CASE RenewalStops
  <2>1. /\ renewal.pc = "waiting" /\ stop /\ RenewalGoes("ended")
        /\ UNCHANGED <<owner, lease, expiry, stop, plan, bridge, pool, flags, core>>
        BY <1>1 DEF RenewalStops, leasing
  <2>2. RenewalShape(renewal') /\ renewal'.pc = "ended"
        BY <2>1, RenewalGoesOn DEF RenewalPlaces
  <2>3. LeaseIsCovered' /\ RenewalCloses'
        BY <2>1, <2>2 DEF Leasing, LeaseIsCovered, RenewalCloses, RenewalEndsClosed
  <2>4. QED  BY <2>1, <2>2, <2>3, RenewalStep
<1>2. CASE RenewalWakes \/ RenewalVerifies
  <2>1. /\ renewal.pc \in {"waiting", "verifying"}
        /\ UNCHANGED <<owner, lease, expiry, stop, plan, bridge, pool, flags, core>>
        BY <1>2 DEF RenewalWakes, RenewalVerifies, leasing
  <2>2. \E pc \in {"verifying", "committing", "revoking"} : RenewalGoes(pc)
        BY <1>2 DEF RenewalWakes, RenewalVerifies
  <2>3. RenewalShape(renewal') /\ renewal'.pc \in {"verifying", "committing", "revoking"}
        BY <2>2, RenewalGoesOn DEF RenewalPlaces
  <2>4. LeaseIsCovered' /\ RenewalCloses'
        BY <2>1, <2>3 DEF Leasing, LeaseIsCovered, RenewalCloses, RenewalEndsClosed
  <2>5. plan'.lag # 1
        BY <2>1 DEF Leasing, PlanFollows
  <2>6. QED  BY <2>1, <2>3, <2>4, <2>5, RenewalStep
<1>3. CASE RenewalObserves
  <2>1. /\ renewal.pc = "committed" /\ expiry' = TTL
        /\ UNCHANGED <<owner, lease, stop, plan, bridge, pool, flags, core>>
        BY <1>3 DEF RenewalObserves
  <2>2. \E pc \in {"advancing", "revoking"} : RenewalGoes(pc)
        BY <1>3 DEF RenewalObserves
  <2>3. RenewalShape(renewal') /\ renewal'.pc \in {"advancing", "revoking"}
        BY <2>2, RenewalGoesOn DEF RenewalPlaces
  <2>4. ClockShape(expiry') /\ lease \in 0..TTL
        BY <2>1 DEF ClockShape, TTL
  <2>5. LeaseIsCovered' /\ RenewalCloses'
        BY <2>1, <2>3, <2>4 DEF LeaseIsCovered, RenewalCloses, RenewalEndsClosed
  <2>6. QED  BY <2>1, <2>3, <2>4, <2>5, RenewalStep
<1>4. CASE RenewalAdvances
  <2>1. /\ renewal.pc = "advancing" /\ plan' = [plan EXCEPT !.lag = 0] /\ RenewalGoes("waiting")
        /\ UNCHANGED <<owner, lease, expiry, stop, bridge, pool, flags, core>>
        BY <1>4 DEF RenewalAdvances, leasing
  <2>2. RenewalShape(renewal') /\ renewal'.pc = "waiting"
        BY <2>1, RenewalGoesOn DEF RenewalPlaces
  <2>3. PlanShape(plan') /\ plan'.lag = 0
        BY <2>1 DEF PlanShape
  <2>4. LeaseIsCovered' /\ RenewalCloses'
        BY <2>1, <2>2 DEF Leasing, LeaseIsCovered, RenewalCloses, RenewalEndsClosed
  <2>5. QED  BY <2>1, <2>2, <2>3, <2>4, RenewalStep
<1>5. QED  BY <1>1, <1>2, <1>3, <1>4

LEMMA RenewalCommitting == ASSUME RuntimeInv, RenewalCommits PROVE RuntimeInv'
<1> USE DEF RuntimeInv, Shape
<1>1. PICK ok \in BOOLEAN : Activates(ok) /\ renewal' = [pc |-> "committed", ok |-> ok]
      BY DEF RenewalCommits
<1>2. /\ renewal.pc = "committing"
      /\ UNCHANGED <<owner, expiry, stop, bridge, listener, flags, worker, next, core>>
      BY DEF RenewalCommits
<1>3. /\ owner.pc \in Armed
      /\ owner.pc \notin Before \union After \union Arming \union {"closing"}
      BY <1>2, RenewalMeetsOwner
<1>4. plan.lag = 0
      BY <1>2 DEF Leasing, PlanFollows, PlanShape
<1>5. /\ ClockShape(lease') /\ ConnShape(conn') /\ PlanShape(plan')
      /\ \A c \in Connections : conn'[c].at = conn[c].at
      BY <1>1, <1>4, ActivationEffect
<1>6. RenewalShape(renewal') /\ renewal'.pc = "committed"
      BY <1>1 DEF RenewalShape, RenewalPlaces
<1>7. Leasing'
      BY <1>2, <1>3, <1>6 DEF Leasing, RenewalIsOwned, LeaseIsOwned, LeaseIsCovered,
         RenewalCloses, RenewalEndsClosed, PlanFollows, PartsAreOwned, Before, Arming
<1>8. WorkersServe' /\ ConnectionsAreHeld' /\ BacklogIsOwned'
      BY <1>2, <1>5, RelayingKept, BacklogKept
<1>9. QED  BY <1>2, <1>5, <1>6, <1>7, <1>8

\* The renewal thread gives up: it ends only when the lease has.
LEMMA RenewalGivingUp ==
  ASSUME RuntimeInv, RenewalRevokes \/ RenewalWaits \/ RenewalEnds
  PROVE  RuntimeInv'
<1> USE DEF RuntimeInv, Shape
<1>1. lease \in 0..TTL /\ expiry \in 0..TTL
      BY DEF ClockShape
<1>2. CASE RenewalRevokes
  <2>1. PICK ok \in BOOLEAN : Revokes(ok) /\ RenewalGoes(IF ok THEN "closing" ELSE "expiring")
        BY <1>2 DEF RenewalRevokes
  <2>2. /\ renewal.pc = "revoking"
        /\ UNCHANGED <<owner, expiry, stop, plan, bridge, pool, flags, core>>
        BY <1>2 DEF RenewalRevokes
  <2>3. ClockShape(lease') /\ (lease' = 0 \/ (~ok /\ lease' = lease))
        BY <2>1, RevocationEffect
  <2>4. RenewalShape(renewal') /\ renewal'.pc = (IF ok THEN "closing" ELSE "expiring")
        BY <2>1, RenewalGoesOn DEF RenewalPlaces
  <2>5. LeaseIsCovered'
        BY <1>1, <2>2, <2>3 DEF Leasing, LeaseIsCovered, TTL
  <2>6. RenewalCloses'
        BY <2>3, <2>4 DEF RenewalCloses, RenewalEndsClosed
  <2>7. QED  BY <2>2, <2>3, <2>4, <2>5, <2>6, RenewalStep
<1>3. CASE RenewalWaits
  <2>1. /\ renewal.pc = "expiring" /\ expiry = 0 /\ RenewalGoes("closing")
        /\ UNCHANGED <<owner, lease, expiry, stop, plan, bridge, pool, flags, core>>
        BY <1>3 DEF RenewalWaits, leasing
  <2>2. RenewalShape(renewal') /\ renewal'.pc = "closing"
        BY <2>1, RenewalGoesOn DEF RenewalPlaces
  <2>3. owner.pc # "leased"
        BY <2>1, RenewalMeetsOwner
  <2>4. lease = 0
        BY <1>1, <2>1, <2>3 DEF Leasing, LeaseIsCovered, TTL
  <2>5. LeaseIsCovered' /\ RenewalCloses'
        BY <2>1, <2>2, <2>4 DEF LeaseIsCovered, RenewalCloses, RenewalEndsClosed
  <2>6. QED  BY <2>1, <2>2, <2>5, RenewalStep
<1>4. CASE RenewalEnds
  <2>1. /\ renewal.pc = "closing" /\ flags' = [flags EXCEPT !.shutdown = TRUE]
        /\ RenewalGoes("ended")
        /\ UNCHANGED <<owner, lease, expiry, stop, plan, bridge, pool, core>>
        BY <1>4 DEF RenewalEnds, leasing
  <2>2. RenewalShape(renewal') /\ renewal'.pc = "ended"
        BY <2>1, RenewalGoesOn DEF RenewalPlaces
  <2>3. FlagsShape(flags')
        BY <2>1 DEF FlagsShape
  <2>4. LeaseIsCovered' /\ RenewalCloses'
        BY <2>1, <2>2 DEF Leasing, LeaseIsCovered, RenewalCloses, RenewalEndsClosed
  <2>5. QED  BY <2>1, <2>2, <2>3, <2>4, RenewalStep
<1>5. QED  BY <1>2, <1>3, <1>4

\* Time passes for the driver's lease and for what is believed of it.
LEMMA Ticking == ASSUME RuntimeInv, Tick PROVE RuntimeInv'
<1> USE DEF RuntimeInv, Shape
<1>1. lease \in 0..TTL /\ expiry \in 0..TTL
      BY DEF ClockShape
<1>2. /\ lease' = Less(lease) /\ expiry' = Less(expiry)
      /\ UNCHANGED <<owner, renewal, stop, plan, bridge, pool, flags, core>>
      BY DEF Tick
<1>3. /\ lease' \in 0..TTL /\ expiry' \in 0..TTL /\ lease' <= lease
      /\ lease <= expiry => lease' <= expiry'
      BY <1>1, <1>2 DEF Less, TTL
<1>4. LeaseIsOwned' /\ LeaseIsCovered' /\ RenewalCloses'
      BY <1>1, <1>2, <1>3 DEF Leasing, LeaseIsOwned, LeaseIsCovered, RenewalCloses,
         RenewalEndsClosed, TTL
<1>5. RenewalIsOwned' /\ PlanFollows' /\ PartsAreOwned'
      BY <1>2 DEF Leasing, RenewalIsOwned, PlanFollows, PartsAreOwned, pool
<1>6. ClockShape(lease') /\ ClockShape(expiry')
      BY <1>3 DEF ClockShape
<1>7. QED  BY <1>2, <1>4, <1>5, <1>6, RelaysUntouched DEF Leasing

-----------------------------------------------------------------------------
(* The listener, its workers and the surroundings.                         *)

LEMMA LeasingKept ==
  ASSUME Leasing, UNCHANGED <<owner, lease, expiry, renewal, stop, plan, bridge, listener>>
  PROVE  Leasing'
BY DEF Leasing, RenewalIsOwned, LeaseIsOwned, LeaseIsCovered, RenewalCloses, RenewalEndsClosed,
       PlanFollows, PartsAreOwned

LEMMA PartsFailing == ASSUME RuntimeInv, CoreExits \/ BridgeFails PROVE RuntimeInv'
<1> USE DEF RuntimeInv, Shape
<1>1. CASE CoreExits
  <2>1. core' = FALSE /\ UNCHANGED <<owner, lease, expiry, renewal, stop, plan, bridge, pool, flags>>
        BY <1>1 DEF CoreExits, leasing
  <2>2. Leasing'
        BY <2>1, LeasingKept DEF pool
  <2>3. WorkersServe' /\ ConnectionsAreHeld' /\ BacklogIsOwned'
        BY <2>1, RelayingKept, BacklogKept DEF pool
  <2>4. QED  BY <2>1, <2>2, <2>3 DEF pool
<1>2. CASE BridgeFails
  <2>1. /\ bridge = "running" /\ bridge' = "failed"
        /\ UNCHANGED <<owner, lease, expiry, renewal, stop, plan, pool, flags, core>>
        BY <1>2 DEF BridgeFails, leasing
  <2>2. Leasing'
        BY <2>1 DEF Leasing, RenewalIsOwned, LeaseIsOwned, LeaseIsCovered, RenewalCloses,
               RenewalEndsClosed, PlanFollows, PartsAreOwned, pool
  <2>3. BridgeShape(bridge')
        BY <2>1 DEF BridgeShape
  <2>4. QED  BY <2>1, <2>2, <2>3, RelaysUntouched
<1>3. QED  BY <1>1, <1>2

LEMMA Redirecting ==
  ASSUME RuntimeInv, NEW c \in Connections, Redirected(c)
  PROVE  RuntimeInv'
<1> USE DEF RuntimeInv, Shape
<1>1. /\ lease > 0 /\ conn' = [conn EXCEPT ![c] = Connection("backlog")]
      /\ UNCHANGED <<owner, lease, expiry, renewal, stop, plan, bridge, listener, flags, worker,
                     next, core>>
      BY DEF Redirected, leasing
<1>2. owner.pc \notin Before
      BY <1>1 DEF Leasing, LeaseIsOwned
<1>3. Connection("backlog") \in ConnRecords /\ Connection("backlog").at = "backlog"
      BY DEF Connection, ConnRecords, ConnPlaces, Old
<1>4. ConnShape(conn')
      BY <1>1, <1>3 DEF ConnShape
<1>5. ConnectionsAreHeld'
  <2>1. \A d \in Connections : conn'[d].at \in {"queued", "served"} => conn'[d] = conn[d]
        BY <1>1, <1>3 DEF ConnShape
  <2>2. QED  BY <1>1, <2>1 DEF ConnectionsAreHeld
<1>6. WorkersServe' /\ BacklogIsOwned' /\ Leasing'
      BY <1>1, <1>2, LeasingKept DEF WorkersServe, BacklogIsOwned
<1>7. QED  BY <1>1, <1>4, <1>5, <1>6

LEMMA ListenerEnding ==
  ASSUME RuntimeInv, ListenerStops \/ ListenerFails \/ ListenerEnds
  PROVE  RuntimeInv'
<1> USE DEF RuntimeInv, Shape
<1>1. /\ UNCHANGED <<owner, lease, expiry, renewal, stop, plan, bridge, worker, next, conn, core>>
      /\ \/ listener = "running" /\ listener' = "joining"
         \/ /\ listener = "joining" /\ listener' = "ended"
            /\ \A w \in Indices : worker[w].pc = "ended"
      BY DEF ListenerStops, ListenerFails, ListenerEnds, ListenerLeaves, leasing
<1>2. \/ flags' = [flags EXCEPT !.shutdown = TRUE]
      \/ flags' = [flags EXCEPT !.alive = FALSE]
      BY DEF ListenerStops, ListenerFails, ListenerEnds, ListenerLeaves
<1>3. FlagsShape(flags') /\ ListenerShape(listener')
      BY <1>1, <1>2 DEF FlagsShape, ListenerShape
<1>4. Leasing'
      BY <1>1 DEF Leasing, RenewalIsOwned, LeaseIsOwned, LeaseIsCovered, RenewalCloses,
             RenewalEndsClosed, PlanFollows, PartsAreOwned
<1>5. WorkersServe'
      BY <1>1 DEF WorkersServe
<1>6. ConnectionsAreHeld' /\ BacklogIsOwned'
      BY <1>1 DEF ConnectionsAreHeld, BacklogIsOwned
<1>7. QED  BY <1>1, <1>3, <1>4, <1>5, <1>6

\* What a step of worker w must respect: it does not lose a connection, and it
\* holds none when it is done with it.
LEMMA WorkerStep ==
  ASSUME RuntimeInv, NEW w \in Indices, WorkerShape(worker'), ConnShape(conn'), next' \in Indices,
         UNCHANGED <<owner, leasing, renewal, stop, plan, bridge, listener, flags, core>>,
         \A v \in Indices : v # w => worker'[v] = worker[v],
         worker[w].pc \notin {"none", "ended"}, worker'[w].pc # "none",
         worker'[w].pc \in {"receiving", "ended"} => worker'[w].serving = None,
         worker'[w].pc = "ended" => worker'[w].queue = None,
         \A c \in Connections :
           /\ conn'[c].at = "backlog" => conn[c].at = "backlog"
           /\ conn'[c].at \in {"queued", "served"} =>
                \/ worker'[w].queue = c \/ worker'[w].serving = c
                \/ /\ conn[c].at \in {"queued", "served"}
                   /\ worker[w].queue # c /\ worker[w].serving # c
  PROVE  RuntimeInv'
<1> USE DEF RuntimeInv, Shape
<1>1. Leasing'
      BY LeasingKept DEF leasing
<1>2. WorkersServe'
      BY DEF WorkersServe, ListenerShape
<1>3. ConnectionsAreHeld'
  <2> SUFFICES ASSUME NEW c \in Connections, conn'[c].at \in {"queued", "served"},
                      worker'[w].queue # c, worker'[w].serving # c
               PROVE  \E v \in Indices : worker'[v].queue = c \/ worker'[v].serving = c
      BY DEF ConnectionsAreHeld
  <2>1. PICK v \in Indices : worker[v].queue = c \/ worker[v].serving = c
        BY DEF ConnectionsAreHeld
  <2>2. v # w
        BY <2>1
  <2>3. QED  BY <2>1, <2>2
<1>4. BacklogIsOwned'
      BY DEF BacklogIsOwned
<1>5. QED  BY <1>1, <1>2, <1>3, <1>4 DEF leasing

LEMMA ConnectionMade ==
  ASSUME NEW at \in ConnPlaces
  PROVE  Connection(at) \in ConnRecords /\ Connection(at).at = at
BY DEF Connection, ConnRecords, Old

\* A connection that is written to, or no connection at all.
LEMMA ConnectionWritten ==
  ASSUME ConnShape(conn), NEW d, NEW at \in ConnPlaces,
         conn' = [conn EXCEPT ![d] = Connection(at)]
  PROVE  /\ ConnShape(conn')
         /\ \A c \in Connections : IF c = d THEN conn'[c].at = at ELSE conn'[c] = conn[c]
BY ConnectionMade DEF ConnShape

LEMMA Proceeding ==
  ASSUME RuntimeInv, NEW w \in Indices, Proceeds(w, worker'[w].pc),
         worker[w].pc \notin {"none", "receiving", "ended"},
         worker'[w].pc \in WorkerPlaces \ {"none", "receiving", "ended"},
         UNCHANGED <<owner, leasing, renewal, stop, plan, bridge, listener, flags, next, core>>
  PROVE  RuntimeInv'
<1> DEFINE pc == worker'[w].pc
<1>1. /\ worker' = [worker EXCEPT ![w].pc = pc]
      /\ conn' = [conn EXCEPT ![worker[w].serving] = Connection("served")]
      BY DEF Proceeds
<1>2. WorkerShape(worker) /\ ConnShape(conn) /\ next \in Indices
      BY DEF RuntimeInv, Shape
<1>3. pc \in WorkerPlaces
      OBVIOUS
<1>4. /\ ConnShape(conn')
      /\ \A c \in Connections : IF c = worker[w].serving THEN conn'[c].at = "served"
                                                         ELSE conn'[c] = conn[c]
      BY <1>1, <1>2, ConnectionWritten DEF ConnPlaces
<1> HIDE DEF pc
<1>5. /\ WorkerShape(worker') /\ \A v \in Indices : v # w => worker'[v] = worker[v]
      /\ worker'[w].serving = worker[w].serving /\ worker'[w].queue = worker[w].queue
      BY <1>1, <1>2, <1>3 DEF WorkerShape, WorkerRecords
<1>6. ASSUME NEW c \in Connections
      PROVE  /\ conn'[c].at = "backlog" => conn[c].at = "backlog"
             /\ conn'[c].at \in {"queued", "served"} =>
                  \/ worker'[w].queue = c \/ worker'[w].serving = c
                  \/ /\ conn[c].at \in {"queued", "served"}
                     /\ worker[w].queue # c /\ worker[w].serving # c
      BY <1>4, <1>5
<1>7. QED  BY <1>2, <1>4, <1>5, <1>6, WorkerStep

LEMMA Returning ==
  ASSUME RuntimeInv, NEW w \in Indices, NEW at \in {"gone", "refused"}, Returns(w, at),
         worker[w].pc \notin {"none", "receiving", "ended"},
         UNCHANGED <<owner, leasing, renewal, stop, plan, bridge, listener, flags, next, core>>
  PROVE  RuntimeInv'
<1>1. /\ worker' = [worker EXCEPT ![w].pc = "receiving", ![w].serving = None]
      /\ conn' = [conn EXCEPT ![worker[w].serving] = Connection(at)]
      BY DEF Returns
<1>2. WorkerShape(worker) /\ ConnShape(conn) /\ next \in Indices /\ at \in ConnPlaces
      BY DEF RuntimeInv, Shape, ConnPlaces
<1>3. /\ ConnShape(conn')
      /\ \A c \in Connections : IF c = worker[w].serving THEN conn'[c].at = at
                                                         ELSE conn'[c] = conn[c]
      BY <1>1, <1>2, ConnectionWritten
<1>4. /\ WorkerShape(worker') /\ \A v \in Indices : v # w => worker'[v] = worker[v]
      /\ worker'[w].pc = "receiving" /\ worker'[w].serving = None
      /\ worker'[w].queue = worker[w].queue
      BY <1>1, <1>2 DEF WorkerShape, WorkerRecords, WorkerPlaces
<1>5. ASSUME NEW c \in Connections
      PROVE  /\ conn'[c].at = "backlog" => conn[c].at = "backlog"
             /\ conn'[c].at \in {"queued", "served"} =>
                  \/ worker'[w].queue = c \/ worker'[w].serving = c
                  \/ /\ conn[c].at \in {"queued", "served"}
                     /\ worker[w].queue # c /\ worker[w].serving # c
      BY <1>3, <1>4
<1>6. QED  BY <1>2, <1>3, <1>4, <1>5, WorkerStep

\* A worker between the query and the end of the relay.
LEMMA WorkerServing ==
  ASSUME RuntimeInv, NEW w \in Indices,
         \/ WorkerValidates(w) \/ WorkerQueries(w) \/ WorkerConnects(w)
         \/ WorkerAuthenticates(w) \/ WorkerRequests(w) \/ WorkerIsTold(w) \/ RelayEnds(w)
  PROVE  RuntimeInv'
<1>1. /\ worker[w].pc \in {"validating", "querying", "foreign", "connecting", "greeting",
                           "asking", "relaying"}
      /\ UNCHANGED <<owner, leasing, renewal, stop, plan, bridge, listener, flags, next, core>>
      BY DEF WorkerValidates, WorkerQueries, WorkerConnects, WorkerAuthenticates, WorkerRequests,
             WorkerIsTold, RelayEnds, Handshake
<1>2. \/ \E at \in {"gone", "refused"} : Returns(w, at)
      \/ \E pc \in {"querying", "foreign", "connecting", "greeting", "asking", "relaying"} :
           Proceeds(w, pc)
      BY DEF WorkerValidates, WorkerQueries, WorkerConnects, WorkerAuthenticates, WorkerRequests,
             WorkerIsTold, RelayEnds, Handshake
<1>3. CASE \E at \in {"gone", "refused"} : Returns(w, at)
      BY <1>1, <1>3, Returning
<1>4. CASE \E pc \in {"querying", "foreign", "connecting", "greeting", "asking", "relaying"} :
             Proceeds(w, pc)
  <2>1. PICK pc \in {"querying", "foreign", "connecting", "greeting", "asking", "relaying"} :
          Proceeds(w, pc)
        BY <1>4
  <2>2. worker \in [Indices -> WorkerRecords] /\ worker[w] \in WorkerRecords
        BY DEF RuntimeInv, Shape, WorkerShape
  <2>3. worker'[w].pc = pc
        BY <2>1, <2>2 DEF Proceeds, WorkerRecords
  <2>4. pc \in WorkerPlaces \ {"none", "receiving", "ended"}
        BY DEF WorkerPlaces
  <2>5. QED  BY <1>1, <2>1, <2>3, <2>4, Proceeding
<1>5. QED  BY <1>2, <1>3, <1>4

LEMMA WorkerEnding ==
  ASSUME RuntimeInv, NEW w \in Indices, WorkerEnds(w)
  PROVE  RuntimeInv'
<1>1. /\ worker[w].pc = "receiving"
      /\ worker' = [worker EXCEPT ![w] = [NoWorker EXCEPT !.pc = "ended"]]
      /\ conn' = [c \in Connections |->
                    IF c = worker[w].queue THEN Connection("gone") ELSE conn[c]]
      /\ UNCHANGED <<owner, leasing, renewal, stop, plan, bridge, listener, flags, next, core>>
      BY DEF WorkerEnds
<1>2. WorkerShape(worker) /\ ConnShape(conn) /\ next \in Indices
      BY DEF RuntimeInv, Shape
<1>3. worker[w].serving = None /\ None \notin Connections
      BY <1>1, WorkersAssumption DEF RuntimeInv, WorkersServe
<1>4. [NoWorker EXCEPT !.pc = "ended"] = [pc |-> "ended", serving |-> None, queue |-> None]
      BY DEF NoWorker
<1>5. /\ WorkerShape(worker') /\ \A v \in Indices : v # w => worker'[v] = worker[v]
      /\ worker'[w] = [pc |-> "ended", serving |-> None, queue |-> None]
      BY <1>1, <1>2, <1>4 DEF WorkerShape, WorkerRecords, WorkerPlaces
<1>6. Connection("gone") \in ConnRecords /\ Connection("gone").at = "gone"
      BY ConnectionMade DEF ConnPlaces
<1>7. ConnShape(conn')
      BY <1>1, <1>2, <1>6 DEF ConnShape
<1>8. ASSUME NEW c \in Connections
      PROVE  /\ conn'[c].at = "backlog" => conn[c].at = "backlog"
             /\ conn'[c].at \in {"queued", "served"} =>
                  /\ conn[c].at \in {"queued", "served"}
                  /\ worker[w].queue # c /\ worker[w].serving # c
      BY <1>1, <1>3, <1>6
<1>9. /\ worker'[w].pc = "ended" /\ worker'[w].serving = None /\ worker'[w].queue = None
      /\ worker[w].pc \notin {"none", "ended"}
      BY <1>1, <1>5
<1>10. next' \in Indices
       BY <1>1, <1>2
<1>11. QED  BY <1>1, <1>5, <1>7, <1>8, <1>9, <1>10, WorkerStep

LEMMA WorkerTaking ==
  ASSUME RuntimeInv, NEW w \in Indices, WorkerTakes(w)
  PROVE  RuntimeInv'
<1>1. /\ worker[w].pc = "receiving" /\ worker[w].queue # None
      /\ worker' = [worker EXCEPT ![w] =
                      [pc |-> "validating", serving |-> worker[w].queue, queue |-> None]]
      /\ UNCHANGED <<owner, leasing, renewal, stop, plan, bridge, listener, flags, next, conn, core>>
      BY DEF WorkerTakes
<1>2. WorkerShape(worker) /\ ConnShape(conn) /\ next \in Indices
      BY DEF RuntimeInv, Shape
<1>3. worker[w].serving = None /\ None \notin Connections
      BY <1>1, WorkersAssumption DEF RuntimeInv, WorkersServe
<1>4. worker[w].queue \in Connections \union {None}
      BY <1>2 DEF WorkerShape, WorkerRecords
<1>5. /\ WorkerShape(worker') /\ \A v \in Indices : v # w => worker'[v] = worker[v]
      /\ worker'[w] = [pc |-> "validating", serving |-> worker[w].queue, queue |-> None]
      BY <1>1, <1>2, <1>4 DEF WorkerShape, WorkerRecords, WorkerPlaces
<1>6. /\ worker'[w].pc = "validating" /\ worker'[w].serving = worker[w].queue
      /\ worker[w].pc \notin {"none", "ended"}
      BY <1>1, <1>5
<1>7. ConnShape(conn') /\ next' \in Indices
      BY <1>1, <1>2
<1>8. ASSUME NEW c \in Connections
      PROVE  /\ conn'[c].at = "backlog" => conn[c].at = "backlog"
             /\ conn'[c].at \in {"queued", "served"} =>
                  \/ worker'[w].queue = c \/ worker'[w].serving = c
                  \/ /\ conn[c].at \in {"queued", "served"}
                     /\ worker[w].queue # c /\ worker[w].serving # c
      BY <1>1, <1>3, <1>6
<1>9. QED  BY <1>1, <1>5, <1>6, <1>7, <1>8, WorkerStep

\* The worker that is chosen had nothing in its queue.
LEMMA Accepting ==
  ASSUME RuntimeInv, NEW c \in Connections, Accept(c)
  PROVE  RuntimeInv'
<1>1. /\ listener = "running" /\ conn[c].at = "backlog"
      /\ UNCHANGED <<owner, leasing, renewal, stop, plan, bridge, listener, flags, core>>
      BY DEF Accept
<1>2. WorkerShape(worker) /\ ConnShape(conn) /\ next \in Indices
      BY DEF RuntimeInv, Shape
<1>3. CASE \E w \in Indices : Free(w)
  <2>1. PICK offset \in Indices :
          /\ Chosen(offset)
          /\ worker' = [worker EXCEPT ![Order(offset)].queue = c]
          /\ next' = (Order(offset) + 1) % Workers
          /\ conn' = [conn EXCEPT ![c].at = "queued"]
        BY <1>3 DEF Accept
  <2> DEFINE w == Order(offset)
  <2>2. w \in Indices /\ next' \in Indices
    <3>1. \A n \in Nat : n % Workers \in Indices
          BY WorkersAssumption DEF Indices
    <3>2. next + offset \in Nat
          BY <1>2 DEF Indices
    <3>3. w \in Indices
          BY <3>1, <3>2 DEF Order
    <3>4. w + 1 \in Nat
          BY <3>3 DEF Indices
    <3>5. QED  BY <2>1, <3>1, <3>3, <3>4
  <2>3. worker[w].pc # "ended" /\ worker[w].queue = None
        BY <2>1 DEF Chosen, Free
  <2> HIDE DEF w
  <2>4. worker' = [worker EXCEPT ![w].queue = c]
        BY <2>1 DEF w
  <2>5. /\ WorkerShape(worker') /\ \A v \in Indices : v # w => worker'[v] = worker[v]
        /\ worker'[w].pc = worker[w].pc /\ worker'[w].serving = worker[w].serving
        /\ worker'[w].queue = c
        BY <1>2, <2>2, <2>4 DEF WorkerShape, WorkerRecords
  <2>6. /\ ConnShape(conn') /\ conn'[c].at = "queued"
        /\ \A d \in Connections : d # c => conn'[d] = conn[d]
        BY <1>2, <2>1 DEF ConnShape, ConnRecords, ConnPlaces
  <2>7. worker[w].pc # "none"
        BY <1>1, <2>2 DEF RuntimeInv, WorkersServe
  <2>8. worker[w].pc = "receiving" => worker[w].serving = None
        BY <2>2 DEF RuntimeInv, WorkersServe
  <2>9. Leasing'
        BY <1>1, LeasingKept DEF RuntimeInv, leasing
  <2>10. WorkersServe'
         BY <1>1, <2>2, <2>3, <2>5, <2>7, <2>8 DEF RuntimeInv, WorkersServe
  <2>11. ASSUME NEW d \in Connections, conn'[d].at \in {"queued", "served"}
         PROVE  \E v \in Indices : worker'[v].queue = d \/ worker'[v].serving = d
    <3>1. CASE d = c
          BY <2>2, <2>5, <3>1
    <3>2. CASE d # c
      <4>1. PICK v \in Indices : worker[v].queue = d \/ worker[v].serving = d
            BY <2>6, <2>11, <3>2 DEF RuntimeInv, ConnectionsAreHeld
      <4>2. worker'[v].queue = d \/ worker'[v].serving = d
            BY <2>3, <2>5, <4>1, WorkersAssumption
      <4>3. QED  BY <4>2
    <3>3. QED  BY <3>1, <3>2
  <2>12. ConnectionsAreHeld'
         BY <2>11 DEF ConnectionsAreHeld
  <2>13. BacklogIsOwned'
         BY <1>1, <2>6 DEF RuntimeInv, BacklogIsOwned
  <2>14. QED  BY <1>1, <2>2, <2>5, <2>6, <2>9, <2>10, <2>12, <2>13 DEF RuntimeInv, Shape, leasing
<1>4. CASE ~\E w \in Indices : Free(w)
  <2>1. conn' = [conn EXCEPT ![c] = Connection("gone")] /\ UNCHANGED <<worker, next>>
        BY <1>4 DEF Accept
  <2>2. /\ ConnShape(conn') /\ conn'[c].at = "gone"
        /\ \A d \in Connections : d # c => conn'[d] = conn[d]
        BY <1>2, <2>1, ConnectionWritten DEF ConnPlaces
  <2>3. Leasing'
        BY <1>1, LeasingKept DEF RuntimeInv, leasing
  <2>4. WorkersServe'
        BY <1>1, <2>1 DEF RuntimeInv, WorkersServe
  <2>5. ConnectionsAreHeld' /\ BacklogIsOwned'
        BY <1>1, <2>1, <2>2 DEF RuntimeInv, ConnectionsAreHeld, BacklogIsOwned
  <2>6. QED  BY <1>1, <2>1, <2>2, <2>3, <2>4, <2>5 DEF RuntimeInv, Shape, leasing
<1>5. QED  BY <1>3, <1>4

-----------------------------------------------------------------------------
(* The invariant, for every step.                                          *)

LEMMA InitEstablishes == Init => RuntimeInv
<1> SUFFICES ASSUME Init PROVE RuntimeInv
    OBVIOUS
<1>1. /\ owner = [pc |-> "idle", ok |-> TRUE] /\ renewal = [pc |-> "none", ok |-> TRUE]
      /\ lease = 0 /\ expiry = 0 /\ stop = FALSE /\ core = TRUE /\ plan = NoPlan
      /\ bridge = "none" /\ listener = "none" /\ flags = [shutdown |-> FALSE, alive |-> FALSE]
      /\ worker = [w \in Indices |-> NoWorker] /\ next = 0
      /\ conn = [c \in Connections |-> Connection("new")]
      BY DEF Init
<1>2. OwnerShape(owner) /\ RenewalShape(renewal)
      BY <1>1 DEF OwnerShape, RenewalShape, Places, Before, RenewalPlaces
<1>3. ClockShape(lease) /\ ClockShape(expiry) /\ BridgeShape(bridge) /\ ListenerShape(listener)
      BY <1>1 DEF ClockShape, BridgeShape, ListenerShape, TTL
<1>4. PlanShape(plan) /\ FlagsShape(flags)
      BY <1>1 DEF PlanShape, FlagsShape, NoPlan
<1>5. WorkerShape(worker) /\ next \in Indices
      BY <1>1, WorkersAssumption DEF WorkerShape, WorkerRecords, WorkerPlaces, NoWorker, Indices
<1>6. ConnShape(conn) /\ \A c \in Connections : conn[c].at = "new"
      BY <1>1, ConnectionMade DEF ConnShape, ConnPlaces
<1>7. Leasing
      BY <1>1 DEF Leasing, RenewalIsOwned, LeaseIsOwned, LeaseIsCovered, RenewalCloses,
         RenewalEndsClosed, PlanFollows, PartsAreOwned, NoPlan, Arming
<1>8. WorkersServe
      BY <1>1 DEF WorkersServe, NoWorker
<1>9. ConnectionsAreHeld /\ BacklogIsOwned
      BY <1>6 DEF ConnectionsAreHeld, BacklogIsOwned
<1>10. QED  BY <1>1, <1>2, <1>3, <1>4, <1>5, <1>6, <1>7, <1>8, <1>9 DEF RuntimeInv, Shape

LEMMA NextPreserves == RuntimeInv /\ [Next]_vars => RuntimeInv'
<1> SUFFICES ASSUME RuntimeInv, [Next]_vars PROVE RuntimeInv'
    OBVIOUS
<1>1. CASE OwnerSteps
      BY <1>1, OwnerStarting, OwnerListening, OwnerLeasing, OwnerObserving, OwnerPreparing,
         OwnerMeasuring, OwnerRebridging, OwnerEnding, OwnerRevoking, OwnerUnbridging, OwnerClosing
      DEF OwnerSteps
<1>2. CASE RenewalSteps
      BY <1>2, RenewalWorking, RenewalCommitting, RenewalGivingUp DEF RenewalSteps
<1>3. CASE ListenerSteps
      BY <1>3, Accepting, ListenerEnding DEF ListenerSteps
<1>4. CASE \E w \in Indices : WorkerSteps(w) \/ RelayEnds(w)
      BY <1>4, WorkerServing, WorkerEnding, WorkerTaking DEF WorkerSteps
<1>5. CASE \E c \in Connections : Redirected(c)
      BY <1>5, Redirecting
<1>6. CASE OwnerBinds \/ OwnerCannotListen \/ OwnerDeactivates \/ OwnerForced
      BY <1>6, OwnerStarting, OwnerMeasuring
<1>7. CASE CoreExits \/ ListenerFails \/ BridgeFails \/ Tick
      BY <1>7, PartsFailing, ListenerEnding, Ticking
<1>8. CASE UNCHANGED vars
  <2>1. Leasing'
        BY <1>8, LeasingKept DEF vars, RuntimeInv
  <2>2. WorkersServe' /\ ConnectionsAreHeld' /\ BacklogIsOwned'
        BY <1>8 DEF vars, RuntimeInv, WorkersServe, ConnectionsAreHeld, BacklogIsOwned
  <2>3. QED  BY <1>8, <2>1, <2>2 DEF vars, RuntimeInv, Shape
<1>9. QED  BY <1>1, <1>2, <1>3, <1>4, <1>5, <1>6, <1>7, <1>8 DEF Next

THEOREM RuntimeInvHolds == Spec => []RuntimeInv
<1>1. QED  BY InitEstablishes, NextPreserves, PTL DEF Spec

\* Nothing is left open: the ports are kept while the driver may redirect to
\* them, a runtime that was torn down left no lease, thread or connection, and a
\* renewal worker that gave up left no lease, for any number of workers,
\* connections, activations and faults
\* (windows_tcp_runtime.rs:596-621 and 645-661).
THEOREM ForwardingLeavesNothing == Spec => []ForwardingInvariant
<1>1. QED  BY RuntimeInvHolds, InvImpliesProperties, PTL
=============================================================================
