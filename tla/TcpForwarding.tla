---------------------------- MODULE TcpForwarding ----------------------------
(***************************************************************************)
(* The forwarding runtime of the Strict Broker, from windows_tcp_runtime.rs,*)
(* windows_tcp_listener_pool.rs and windows_tcp_session.rs: the threads    *)
(* that keep the driver's endpoint lease alive and relay the connections   *)
(* the driver redirects.                                                   *)
(*                                                                         *)
(*  - the owner (the engine's thread) starts the runtime, watches it, and  *)
(*    tears it down;                                                       *)
(*  - the renewal thread activates the lease again and again, each time    *)
(*    with the next generation, and then tells the session plan;           *)
(*  - the listener accepts redirected connections and hands each to one of *)
(*    its workers, which checks the generation the driver stamped on it    *)
(*    and relays it to the Core;                                           *)
(*  - the driver redirects a connection to the listener's port as long as  *)
(*    the lease lives, so the ports must not be given back before.         *)
(*                                                                         *)
(* Generations are counted back from the driver's: the age of a connection *)
(* and the lag of the plan are how many renewals ago theirs was the        *)
(* driver's.  This needs no bound on the number of renewals.  A tick is    *)
(* half of the lease's time (3 s).  The UDP bridge is one thread here (see *)
(* UdpBridge).                                                             *)
(***************************************************************************)
EXTENDS Naturals, FiniteSets

CONSTANTS
  None,         \* no connection
  Connections,  \* bound: the connections programs may open
  Workers,      \* number of relay workers (2 to 16 in the code)
  Budgets       \* bounds: what the surroundings may do, at most

ASSUME WorkersAssumption == Workers \in Nat \ {0} /\ None \notin Connections
ASSUME BudgetsAssumption ==
  Budgets \subseteq [connections : SUBSET Connections, activations : Nat, stops : Nat,
                     faults : Nat, exits : Nat]

VARIABLES
  owner,     \* where the owner is, and whether its last call succeeded
  lease,     \* ticks the driver's lease has left
  expiry,    \* conservative_expiry, in ticks from now
  renewal,   \* the renewal thread, likewise
  stop,      \* renewal_stop was signalled
  plan,      \* the session plan: set, and how far behind the driver
  bridge,    \* the UDP bridge's thread
  listener,  \* the listener's thread
  flags,     \* listener_shutdown and listener_alive
  worker,    \* the relay workers, with the one-place queue of each
  next,      \* next_worker
  conn,      \* the connections
  core,      \* whether the attested Core process runs
  budget     \* what the surroundings may still do

pool    == <<listener, worker, next, conn>>
leasing == <<lease, expiry>>
vars == <<owner, lease, expiry, renewal, stop, plan, bridge, listener, flags, worker,
          next, conn, core, budget>>

TTL == 2    \* ENDPOINT_LEASE_TTL: 6 s
Old == 3    \* an age no plan accepts: ages are not counted further

Indices == 0..Workers-1
Connection(at) == [at |-> at, age |-> 0]
NoWorker == [pc |-> "none", serving |-> None, queue |-> None]
NoPlan == [set |-> FALSE, lag |-> 0]

MayStill(what) == budget[what] > 0
Spend(what)    == budget' = [budget EXCEPT ![what] = budget[what] - 1]

(* The ports are bound by the pool's sockets and by the owner's duplicates. *)
PortsAreBound == owner.pc # "idle" \/ listener \in {"running", "joining"}

-----------------------------------------------------------------------------
(* The driver's lease.                                                      *)

(* FcxReplaceLease: a new lease with the next generation.                   *)
LeaseCommits ==
  /\ lease' = TTL
  /\ conn' = [c \in Connections |->
                IF conn[c].at \in {"backlog", "queued"} /\ conn[c].age < Old
                THEN [conn[c] EXCEPT !.age = conn[c].age + 1] ELSE conn[c]]
  /\ plan' = IF plan.set THEN [plan EXCEPT !.lag = plan.lag + 1] ELSE plan

(* activate_endpoint_lease: the driver takes the lease, refuses it, or      *)
(* takes it and the call fails all the same.                                *)
Activates(ok) ==
  \/ ok /\ LeaseCommits /\ UNCHANGED budget
  \/ ~ok /\ MayStill("faults") /\ Spend("faults") /\ LeaseCommits
  \/ ~ok /\ MayStill("faults") /\ Spend("faults") /\ UNCHANGED <<lease, conn, plan>>

(* revoke_endpoint_lease succeeds, or fails and leaves the lease.           *)
Revokes(ok) ==
  \/ ok /\ lease' = 0 /\ UNCHANGED budget
  \/ ~ok /\ MayStill("faults") /\ Spend("faults") /\ UNCHANGED lease

Less(ticks) == IF ticks = 0 THEN 0 ELSE ticks - 1

Tick ==
  /\ lease > 0 \/ expiry > 0
  /\ lease' = Less(lease)
  /\ expiry' = Less(expiry)
  /\ UNCHANGED <<owner, renewal, stop, plan, bridge, pool, flags, core, budget>>

-----------------------------------------------------------------------------
(* The owner starts the runtime.                                            *)

Goes(pc) == owner' = [owner EXCEPT !.pc = pc]

(* A step that leads on, or to another place.                               *)
Either(ok, on, off) == Goes(IF ok THEN on ELSE off)

(* Ports are bound.  Up to the lease, an error drops them again.            *)
OwnerBinds ==
  /\ owner.pc = "idle"
  /\ MayStill("activations") /\ Spend("activations")
  /\ Goes("querying")
  /\ UNCHANGED <<leasing, renewal, stop, plan, bridge, pool, flags, core>>

(* The tables of the system name one process for all listeners of the Core. *)
Listed == core

(* Its image is verified and a handle to it retained.                       *)
OwnerQueries ==
  /\ owner.pc = "querying"
  /\ \E ok \in BOOLEAN : (ok => Listed) /\ Either(ok, "attesting", "idle")
  /\ UNCHANGED <<leasing, renewal, stop, plan, bridge, pool, flags, core, budget>>

(* With the handle the tables are read once more: the process may have      *)
(* ended, and its ports may be another's, since the first time.             *)
OwnerAttests ==
  /\ owner.pc = "attesting"
  /\ Either(Listed, "probing", "idle")
  /\ UNCHANGED <<leasing, renewal, stop, plan, bridge, pool, flags, core, budget>>

(* Every ingress must take its credentials, and answer an authenticated     *)
(* datagram, within a deadline each.                                        *)
Probe(pc, on) ==
  /\ owner.pc = pc
  /\ \E ok \in BOOLEAN : (ok => core) /\ Either(ok, on, "idle")
  /\ UNCHANGED <<leasing, renewal, stop, plan, bridge, pool, flags, core, budget>>

OwnerProbes == Probe("probing", "pinging")
OwnerPings  == Probe("pinging", "pooling")

(* The listener is started, whose handler waits for a plan.                 *)
OwnerListens ==
  /\ owner.pc = "pooling"
  /\ Goes("leasing")
  /\ listener' = "running"
  /\ worker' = [w \in Indices |-> [NoWorker EXCEPT !.pc = "receiving"]]
  /\ next' = 0
  /\ flags' = [shutdown |-> FALSE, alive |-> TRUE]
  /\ expiry' = TTL
  /\ renewal' = [pc |-> "none", ok |-> TRUE]
  /\ UNCHANGED <<lease, stop, plan, bridge, conn, core, budget>>

OwnerCannotListen ==
  /\ owner.pc = "pooling" /\ MayStill("faults") /\ Spend("faults")
  /\ Goes("idle")
  /\ UNCHANGED <<leasing, renewal, stop, plan, bridge, pool, flags, core>>

OwnerLeases ==
  /\ owner.pc = "leasing"
  /\ \E ok \in BOOLEAN : Activates(ok) /\ owner' = [pc |-> "leased", ok |-> ok]
  /\ UNCHANGED <<expiry, renewal, stop, bridge, listener, flags, worker, next, core>>

(* The expiry is counted from the return of the call.                       *)
OwnerObserves ==
  /\ owner.pc = "leased"
  /\ expiry' = TTL
  /\ Goes(IF owner.ok THEN "planning" ELSE "revoking")
  /\ UNCHANGED <<lease, renewal, stop, plan, bridge, pool, flags, core, budget>>

OwnerPlans ==
  /\ owner.pc = "planning"
  /\ IF core
     THEN plan' = [set |-> TRUE, lag |-> 0] /\ Goes("arming")
     ELSE UNCHANGED plan /\ Goes("revoking")
  /\ UNCHANGED <<leasing, renewal, stop, bridge, pool, flags, core, budget>>

(* A thread that cannot be started, or armed, is a fault.                   *)
OwnerArms ==
  /\ owner.pc = "arming"
  /\ \/ bridge' = "running" /\ Goes("spawning") /\ UNCHANGED budget
     \/ MayStill("faults") /\ Spend("faults") /\ Goes("revoking") /\ UNCHANGED bridge
  /\ UNCHANGED <<leasing, renewal, stop, plan, pool, flags, core>>

OwnerSpawnsRenewal ==
  /\ owner.pc = "spawning"
  /\ \/ renewal' = [pc |-> "waiting", ok |-> TRUE] /\ Goes("canary") /\ UNCHANGED budget
     \/ MayStill("faults") /\ Spend("faults") /\ Goes("revoking") /\ UNCHANGED renewal
  /\ stop' = FALSE
  /\ UNCHANGED <<leasing, plan, bridge, pool, flags, core>>

(* run_canaries, of one target group: whatever fails, the gate is next.     *)
CanaryStep(pc, on, needed) ==
  /\ owner.pc = pc
  /\ \E ok \in BOOLEAN :
       /\ ok => needed
       /\ owner' = IF ok THEN [owner EXCEPT !.pc = on] ELSE [pc |-> "gate", ok |-> FALSE]
  /\ UNCHANGED <<leasing, renewal, stop, plan, bridge, pool, flags, core, budget>>

(* The Core maps a name to an address for the canary.                       *)
OwnerMapsName == CanaryStep("canary", "binding", core)

(* The driver admits the child under the live lease only.                   *)
OwnerBindsCanary == CanaryStep("binding", "child", lease > 0)

(* The child, a process of its own, sends by TCP, DNS and QUIC.             *)
OwnerWaitsForChild == CanaryStep("child", "restoring", TRUE)

(* The Core has seen the name the child asked for.                          *)
OwnerConfirms == CanaryStep("restoring", "evidence", core)

(* The driver counted what the child sent, under the same lease.            *)
OwnerMeasures == CanaryStep("evidence", "gate", lease > 0)

(* Whatever was measured, the canary's bridge is stopped and its gate shut. *)
OwnerShutsGate ==
  /\ owner.pc = "gate"
  /\ bridge' = "none"
  /\ \/ Goes(IF owner.ok /\ bridge = "running" THEN "rearming" ELSE "stopping")
        /\ UNCHANGED budget
     \/ MayStill("faults") /\ Spend("faults") /\ Goes("stopping")
  /\ UNCHANGED <<leasing, renewal, stop, plan, pool, flags, core>>

(* verify_alive, for a given state of the bridge.                           *)
Alive(b) ==
  /\ flags.alive /\ listener # "ended"
  /\ renewal.pc # "ended"
  /\ b = "running"

OwnerRearms ==
  /\ owner.pc = "rearming"
  /\ \/ /\ bridge' = "running"
        /\ Goes(IF Alive(bridge') THEN "active" ELSE "stopping")
        /\ UNCHANGED budget
     \/ MayStill("faults") /\ Spend("faults") /\ Goes("stopping") /\ UNCHANGED bridge
  /\ UNCHANGED <<leasing, renewal, stop, plan, pool, flags, core>>

-----------------------------------------------------------------------------
(* The owner watches the runtime and tears it down.                         *)

(* A dead part is found by the engine's poll, which fails closed.           *)
OwnerVerifies ==
  /\ owner.pc = "active" /\ ~Alive(bridge)
  /\ Goes("forcing")
  /\ UNCHANGED <<leasing, renewal, stop, plan, bridge, pool, flags, core, budget>>

(* A policy is replaced or disabled.                                        *)
OwnerDeactivates ==
  /\ owner.pc = "active"
  /\ MayStill("stops") /\ Spend("stops")
  /\ Goes("stopping")
  /\ UNCHANGED <<leasing, renewal, stop, plan, bridge, pool, flags, core>>

(* The service or the Agent ends: force_fail_closed on a runtime that lives. *)
OwnerForced ==
  /\ owner.pc = "active"
  /\ MayStill("stops") /\ Spend("stops")
  /\ Goes("forcing")
  /\ UNCHANGED <<leasing, renewal, stop, plan, bridge, pool, flags, core>>

(* force_fail_closed revokes the lease first, while the renewal runs.       *)
OwnerForces ==
  /\ owner.pc = "forcing"
  /\ \E ok \in BOOLEAN : Revokes(ok)
  /\ Goes("stopping")
  /\ UNCHANGED <<expiry, renewal, stop, plan, bridge, pool, flags, core>>

OwnerStops ==
  /\ owner.pc = "stopping"
  /\ stop' = TRUE
  /\ Goes("joining")
  /\ UNCHANGED <<leasing, renewal, plan, bridge, pool, flags, core, budget>>

(* A mutant: the renewal is told to stop but not waited for.                *)
OwnerDoesNotJoin ==
  /\ owner.pc = "joining"
  /\ Goes("revoking")
  /\ UNCHANGED <<leasing, renewal, stop, plan, bridge, pool, flags, core, budget>>

OwnerJoinsRenewal ==
  /\ owner.pc = "joining" /\ renewal.pc = "ended"
  /\ Goes("revoking")
  /\ UNCHANGED <<leasing, renewal, stop, plan, bridge, pool, flags, core, budget>>

(* revoke_or_wait: a revocation that failed is waited out.                  *)
OwnerRevokes ==
  /\ owner.pc = "revoking"
  /\ \E ok \in BOOLEAN : Revokes(ok) /\ Goes(IF ok THEN "unbridging" ELSE "expiring")
  /\ UNCHANGED <<expiry, renewal, stop, plan, bridge, pool, flags, core>>

OwnerWaits ==
  /\ owner.pc = "expiring" /\ expiry = 0
  /\ Goes("unbridging")
  /\ UNCHANGED <<leasing, renewal, stop, plan, bridge, pool, flags, core, budget>>

OwnerStopsBridge ==
  /\ owner.pc = "unbridging"
  /\ bridge' = "none"
  /\ flags' = [flags EXCEPT !.shutdown = TRUE]
  /\ Goes("closing")
  /\ UNCHANGED <<leasing, renewal, stop, plan, pool, core, budget>>

(* The listener is joined and the ports given back; a connection that was   *)
(* never accepted is reset.                                                 *)
OwnerJoinsListener ==
  /\ owner.pc = "closing" /\ listener = "ended"
  /\ owner' = [pc |-> "idle", ok |-> TRUE]
  /\ plan' = NoPlan
  /\ conn' = [c \in Connections |->
                IF conn[c].at = "backlog" THEN Connection("gone") ELSE conn[c]]
  /\ expiry' = 0
  /\ UNCHANGED <<lease, renewal, stop, bridge, listener, worker, flags, next, core, budget>>

-----------------------------------------------------------------------------
(* The renewal thread.                                                      *)

RenewalGoes(pc) == renewal' = [renewal EXCEPT !.pc = pc]

RenewalStops ==
  /\ renewal.pc = "waiting" /\ stop
  /\ RenewalGoes("ended")
  /\ UNCHANGED <<owner, leasing, stop, plan, bridge, pool, flags, core, budget>>

RenewalWakes ==
  /\ renewal.pc = "waiting" /\ ~stop
  /\ RenewalGoes("verifying")
  /\ UNCHANGED <<owner, leasing, stop, plan, bridge, pool, flags, core, budget>>

(* A mutant: the Core is not looked at again.                               *)
RenewalTrustsCore ==
  /\ renewal.pc = "verifying"
  /\ RenewalGoes(IF flags.alive THEN "committing" ELSE "revoking")
  /\ UNCHANGED <<owner, leasing, stop, plan, bridge, pool, flags, core, budget>>

(* The listener must live and the Core must still own its ports.            *)
RenewalVerifies ==
  /\ renewal.pc = "verifying"
  /\ RenewalGoes(IF flags.alive /\ Listed THEN "committing" ELSE "revoking")
  /\ UNCHANGED <<owner, leasing, stop, plan, bridge, pool, flags, core, budget>>

RenewalCommits ==
  /\ renewal.pc = "committing"
  /\ \E ok \in BOOLEAN : Activates(ok) /\ renewal' = [pc |-> "committed", ok |-> ok]
  /\ UNCHANGED <<owner, expiry, stop, bridge, listener, flags, worker, next, core>>

(* The call returns to activate_lease, which moves the expiry whatever the  *)
(* call says; the window of the UDP bridge moves under its lock.            *)
RenewalObserves ==
  /\ renewal.pc = "committed"
  /\ expiry' = TTL
  /\ RenewalGoes(IF renewal.ok THEN "advancing" ELSE "revoking")
  /\ UNCHANGED <<owner, lease, stop, plan, bridge, pool, flags, core, budget>>

RenewalAdvances ==
  /\ renewal.pc = "advancing"
  /\ plan' = [plan EXCEPT !.lag = 0]
  /\ RenewalGoes("waiting")
  /\ UNCHANGED <<owner, leasing, stop, bridge, pool, flags, core, budget>>

RenewalRevokes ==
  /\ renewal.pc = "revoking"
  /\ \E ok \in BOOLEAN : Revokes(ok) /\ RenewalGoes(IF ok THEN "closing" ELSE "expiring")
  /\ UNCHANGED <<owner, expiry, stop, plan, bridge, pool, flags, core>>

RenewalWaits ==
  /\ renewal.pc = "expiring" /\ expiry = 0
  /\ RenewalGoes("closing")
  /\ UNCHANGED <<owner, leasing, stop, plan, bridge, pool, flags, core, budget>>

RenewalEnds ==
  /\ renewal.pc = "closing"
  /\ flags' = [flags EXCEPT !.shutdown = TRUE]
  /\ RenewalGoes("ended")
  /\ UNCHANGED <<owner, leasing, stop, plan, bridge, pool, core, budget>>

-----------------------------------------------------------------------------
(* The listener and its workers.                                            *)

(* The driver redirects a connection to the listener's port and stamps it   *)
(* with the generation of its lease.                                        *)
Redirected(c) ==
  /\ conn[c].at = "new" /\ c \in budget.connections
  /\ lease > 0
  /\ conn' = [conn EXCEPT ![c] = Connection("backlog")]
  /\ UNCHANGED <<owner, leasing, renewal, stop, plan, bridge, listener, flags, worker,
                 next, core, budget>>

(* dispatch_connection: from next_worker on, the first whose queue is free, *)
(* whether or not it is busy; with every queue full or gone the connection  *)
(* is closed.  The loop accepts what is there before it looks at shutdown.  *)
Free(w) == worker[w].pc # "ended" /\ worker[w].queue = None
Order(offset) == (next + offset) % Workers
Chosen(offset) == Free(Order(offset)) /\ \A o \in 0..offset-1 : ~Free(Order(o))

Accept(c) ==
  /\ listener = "running"
  /\ conn[c].at = "backlog"
  /\ IF \E w \in Indices : Free(w)
     THEN \E offset \in Indices :
            /\ Chosen(offset)
            /\ worker' = [worker EXCEPT ![Order(offset)].queue = c]
            /\ next' = (Order(offset) + 1) % Workers
            /\ conn' = [conn EXCEPT ![c].at = "queued"]
     ELSE /\ conn' = [conn EXCEPT ![c] = Connection("gone")]
          /\ UNCHANGED <<worker, next>>
  /\ UNCHANGED <<owner, leasing, renewal, stop, plan, bridge, listener, flags, core, budget>>

(* The accept loop ends: it was told to, or its sockets failed.             *)
ListenerLeaves ==
  /\ listener' = "joining"
  /\ flags' = [flags EXCEPT !.shutdown = TRUE]
  /\ UNCHANGED <<owner, leasing, renewal, stop, plan, bridge, worker, next, conn, core>>

ListenerStops ==
  /\ listener = "running" /\ flags.shutdown
  /\ ListenerLeaves
  /\ UNCHANGED budget

ListenerFails ==
  /\ listener = "running" /\ MayStill("faults") /\ Spend("faults")
  /\ ListenerLeaves

(* run returns with its workers joined; only then is listener_alive false.  *)
ListenerEnds ==
  /\ listener = "joining"
  /\ \A w \in Indices : worker[w].pc = "ended"
  /\ listener' = "ended"
  /\ flags' = [flags EXCEPT !.alive = FALSE]
  /\ UNCHANGED <<owner, leasing, renewal, stop, plan, bridge, worker, next, conn, core, budget>>

(* A worker that stops drops what its queue holds.                          *)
WorkerEnds(w) ==
  /\ worker[w].pc = "receiving" /\ flags.shutdown
  /\ worker' = [worker EXCEPT ![w] = [NoWorker EXCEPT !.pc = "ended"]]
  /\ conn' = [c \in Connections |->
                IF c = worker[w].queue THEN Connection("gone") ELSE conn[c]]
  /\ UNCHANGED <<owner, leasing, renewal, stop, plan, bridge, listener, flags, next, core, budget>>

WorkerTakes(w) ==
  /\ worker[w].pc = "receiving" /\ ~flags.shutdown
  /\ worker[w].queue # None
  /\ worker' = [worker EXCEPT ![w] =
                  [pc |-> "validating", serving |-> worker[w].queue, queue |-> None]]
  /\ UNCHANGED <<owner, leasing, renewal, stop, plan, bridge, listener, flags, next, conn,
                 core, budget>>

Returns(w, at) ==
  /\ worker' = [worker EXCEPT ![w].pc = "receiving", ![w].serving = None]
  /\ conn' = [conn EXCEPT ![worker[w].serving] = Connection(at)]

Proceeds(w, pc) ==
  /\ worker' = [worker EXCEPT ![w].pc = pc]
  /\ conn' = [conn EXCEPT ![worker[w].serving] = Connection("served")]

(* The generation of a connection is the plan's or the one before.          *)
Current(age) == age \in {plan.lag, plan.lag + 1}

(* The binding is read here, so what the query will find is settled here:   *)
(* a later renewal changes neither it nor the generation on the connection. *)
WorkerValidates(w) ==
  /\ worker[w].pc = "validating"
  /\ IF flags.shutdown \/ ~plan.set \/ ~core
     THEN Returns(w, "gone")
     ELSE Proceeds(w, IF Current(conn[worker[w].serving].age) THEN "querying" ELSE "foreign")
  /\ UNCHANGED <<owner, leasing, renewal, stop, plan, bridge, listener, flags, next, core, budget>>

(* The context the driver left on the socket fits the binding, or does not, *)
(* or the query fails.                                                      *)
WorkerQueries(w) ==
  /\ worker[w].pc \in {"querying", "foreign"}
  /\ \/ worker[w].pc = "querying" /\ Proceeds(w, "connecting")
     \/ worker[w].pc = "foreign" /\ Returns(w, "refused")
     \/ Returns(w, "gone")
  /\ UNCHANGED <<owner, leasing, renewal, stop, plan, bridge, listener, flags, next, core, budget>>

(* The way to the Core: a connection of its own, authentication, CONNECT,   *)
(* each with a deadline.  A shutdown is looked at before and after.         *)
Handshake(w, pc, on, allowed) ==
  /\ worker[w].pc = pc
  /\ \/ allowed /\ Proceeds(w, on)
     \/ Returns(w, "gone")
  /\ UNCHANGED <<owner, leasing, renewal, stop, plan, bridge, listener, flags, next, core, budget>>

WorkerConnects(w)      == Handshake(w, "connecting", "greeting", core /\ ~flags.shutdown)
WorkerAuthenticates(w) == Handshake(w, "greeting", "asking", core)
WorkerRequests(w)      == Handshake(w, "asking", "relaying", core /\ ~flags.shutdown)

(* A mutant: a relay does not look at the shutdown.                         *)
WorkerIsNotTold(w) ==
  /\ worker[w].pc = "relaying" /\ ~core
  /\ Returns(w, "gone")
  /\ UNCHANGED <<owner, leasing, renewal, stop, plan, bridge, listener, flags, next, core, budget>>

(* A relay looks at the shutdown every 100 ms, and at the end of either     *)
(* side: the Core's exit is one.                                            *)
WorkerIsTold(w) ==
  /\ worker[w].pc = "relaying" /\ (flags.shutdown \/ ~core)
  /\ Returns(w, "gone")
  /\ UNCHANGED <<owner, leasing, renewal, stop, plan, bridge, listener, flags, next, core, budget>>

RelayEnds(w) ==
  /\ worker[w].pc = "relaying"
  /\ Returns(w, "gone")
  /\ UNCHANGED <<owner, leasing, renewal, stop, plan, bridge, listener, flags, next, core, budget>>

-----------------------------------------------------------------------------
(* The surroundings.                                                        *)

CoreExits ==
  /\ core /\ MayStill("exits") /\ Spend("exits")
  /\ core' = FALSE
  /\ UNCHANGED <<owner, leasing, renewal, stop, plan, bridge, pool, flags>>

BridgeFails ==
  /\ bridge = "running" /\ MayStill("faults") /\ Spend("faults")
  /\ bridge' = "failed"
  /\ UNCHANGED <<owner, leasing, renewal, stop, plan, pool, flags, core>>

-----------------------------------------------------------------------------
Init ==
  /\ owner = [pc |-> "idle", ok |-> TRUE]
  /\ lease = 0 /\ expiry = 0
  /\ renewal = [pc |-> "none", ok |-> TRUE]
  /\ stop = FALSE
  /\ plan = NoPlan
  /\ bridge = "none"
  /\ listener = "none"
  /\ flags = [shutdown |-> FALSE, alive |-> FALSE]
  /\ worker = [w \in Indices |-> NoWorker]
  /\ next = 0
  /\ conn = [c \in Connections |-> Connection("new")]
  /\ core = TRUE
  /\ budget \in Budgets

OwnerSteps ==
  \/ OwnerQueries \/ OwnerAttests \/ OwnerProbes \/ OwnerPings \/ OwnerListens \/ OwnerLeases \/ OwnerObserves \/ OwnerPlans \/ OwnerArms \/ OwnerSpawnsRenewal
  \/ OwnerMapsName \/ OwnerBindsCanary \/ OwnerWaitsForChild \/ OwnerConfirms
  \/ OwnerMeasures \/ OwnerShutsGate \/ OwnerRearms \/ OwnerVerifies \/ OwnerForces
  \/ OwnerStops \/ OwnerJoinsRenewal \/ OwnerRevokes \/ OwnerWaits \/ OwnerStopsBridge
  \/ OwnerJoinsListener
RenewalSteps ==
  \/ RenewalStops \/ RenewalWakes \/ RenewalVerifies \/ RenewalCommits \/ RenewalObserves
  \/ RenewalAdvances \/ RenewalRevokes \/ RenewalWaits \/ RenewalEnds
ListenerSteps == (\E c \in Connections : Accept(c)) \/ ListenerStops \/ ListenerEnds
WorkerSteps(w) ==
  \/ WorkerEnds(w) \/ WorkerTakes(w) \/ WorkerValidates(w) \/ WorkerQueries(w)
  \/ WorkerConnects(w) \/ WorkerAuthenticates(w) \/ WorkerRequests(w) \/ WorkerIsTold(w)

Next ==
  \/ OwnerSteps \/ RenewalSteps \/ ListenerSteps
  \/ \E w \in Indices : WorkerSteps(w) \/ RelayEnds(w)
  \/ \E c \in Connections : Redirected(c)
  \/ OwnerBinds \/ OwnerCannotListen \/ OwnerDeactivates \/ OwnerForced
  \/ CoreExits \/ ListenerFails \/ BridgeFails \/ Tick

Spec == Init /\ [][Next]_vars

(* Every thread is scheduled and every call it makes returns: calls to the  *)
(* driver and the handshake have deadlines, polls have timeouts.  Neither   *)
(* a client nor the Core ever has to end a relay.                           *)
FairSpec ==
  /\ Spec
  /\ WF_vars(OwnerSteps) /\ WF_vars(RenewalSteps) /\ WF_vars(ListenerSteps)
  /\ \A w \in Indices : WF_vars(WorkerSteps(w))
  /\ WF_vars(Tick)

-----------------------------------------------------------------------------
(* Properties.                                                              *)

TypeOK ==
  /\ owner \in [pc : {"idle", "querying", "attesting", "probing", "pinging", "pooling",
                      "leasing", "leased", "planning", "arming", "spawning", "canary", "binding",
                      "child", "restoring", "evidence", "gate", "rearming", "active", "forcing", "stopping",
                      "joining", "revoking", "expiring", "unbridging", "closing"},
                ok : BOOLEAN]
  /\ lease \in 0..TTL /\ expiry \in 0..TTL
  /\ renewal \in [pc : {"none", "waiting", "verifying", "committing", "committed",
                        "advancing", "revoking", "expiring", "closing", "ended"},
                  ok : BOOLEAN]
  /\ stop \in BOOLEAN /\ core \in BOOLEAN
  /\ plan \in [set : BOOLEAN, lag : 0..1]
  /\ bridge \in {"none", "running", "failed"}
  /\ listener \in {"none", "running", "joining", "ended"}
  /\ flags \in [shutdown : BOOLEAN, alive : BOOLEAN]
  /\ worker \in [Indices -> [pc : {"none", "receiving", "validating", "querying",
                                   "foreign", "connecting", "greeting", "asking",
                                   "relaying", "ended"},
                             serving : Connections \union {None},
                             queue : Connections \union {None}]]
  /\ next \in Indices
  /\ conn \in [Connections -> [at : {"new", "backlog", "queued", "served", "refused",
                                     "gone"},
                               age : 0..Old]]

(* The ports are not given back while the driver may still redirect a       *)
(* connection to them, whatever became of the calls and the threads         *)
(* (windows_tcp_runtime.rs:611-621 and 645-661).                            *)
PortsOutliveTheLease == lease > 0 => PortsAreBound

(* A runtime that was torn down, after any failure at any step of its       *)
(* setup, left nothing behind: no lease, no thread and no connection.       *)
RuntimeLeavesNothing ==
  owner.pc = "idle" =>
    /\ lease = 0
    /\ renewal.pc \in {"none", "ended"}
    /\ bridge = "none"
    /\ listener \in {"none", "ended"}
    /\ \A w \in Indices : worker[w].serving = None /\ worker[w].queue = None
    /\ \A c \in Connections : conn[c].at \notin {"backlog", "queued", "served"}

(* A renewal worker that gives up by itself leaves no lease, also when the  *)
(* call that failed had taken effect and the revocation failed too          *)
(* (windows_tcp_runtime.rs:596-605).                                        *)
RenewalEndsClosed == renewal.pc = "ended" /\ ~stop => lease = 0

(* What is torn down is torn down to the end: no thread waits for ever for  *)
(* another one.                                                             *)
TeardownCompletes ==
  owner.pc \in {"forcing", "stopping", "joining", "revoking", "closing"}
    ~> owner.pc = "idle"

(* Nothing is left open: the three statements above, in states whose parts  *)
(* have the shapes their code knows.                                        *)
ForwardingInvariant ==
  TypeOK /\ PortsOutliveTheLease /\ RuntimeLeavesNothing /\ RenewalEndsClosed

(* When the attested Core exits, the lease ends, whoever notices first      *)
(* (windows_tcp_runtime.rs:582).                                            *)
DeadCoreClosesAdmission == ~core ~> lease = 0

(* What the comment at windows_tcp_session.rs:114-116 says: the handoff     *)
(* race of a renewal is closed, so while no call fails a connection that    *)
(* carries the driver's latest generation is not refused for its generation. *)
HandoffIsClosed ==
  [][\A w \in Indices :
       (renewal.ok /\ worker[w].pc = "validating" /\ worker'[w].pc = "foreign")
         => conn[worker[w].serving].age # 0]_vars
=============================================================================
