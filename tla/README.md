# FreedomCloud: formal verification of strict enforcement

FreedomCloud is a desktop proxy client. Its Flutter front end drives a Go core
(mihomo) directly or through an Agent; on Windows it can also put selected
applications under a *strict policy*: a privileged service, the **strict
Broker**, makes sure that a selected application either reaches the network
through the proxy core or does not reach it at all, whatever process crashes,
whatever call fails, and across host reboots. That promise is what this
development is about: it is the part of the program where an error is silent (an
application's traffic leaves unproxied), where the hard cases are orders of
failures that no test sets up, and whose code is written as a protocol with
durable state, transactions and proofs.

Paths below are relative to the repository. `lib.rs` alone means
`src/services/strict-broker/src/lib.rs`, and other Rust files without a
directory are its neighbours; `driver.c` is `src/windows/strict-driver/src/driver.c`.

## 1. Inventory

### Parts of the strict system

| Part | Code | State it keeps | Operations |
|---|---|---|---|
| Strict contract | `services/strict-contract/src/lib.rs` | none (types) | policy validation, identity-migration rule, proof validation, request/response envelopes |
| Broker engine | `lib.rs`, `dispatch.rs` | marker, high watermark, phase, forwarding health, verification lease | prepare (new, replay, migrate), commit, force_blocking, disable, status, recover |
| Planned backend | `planned_wfp_backend.rs`, `wfp_plan.rs` | the active plan | install and remove guards, install and remove the data plane, snapshot with inventory check |
| WFP control | `windows_wfp_control.rs`, `windows_wfp_engine.rs`, `windows_driver_channel.rs` | filter generation; persistent guards; filters of a dynamic session | one transaction per filter change; upload, unload, gate and lease IOCTLs, each attested by a read |
| Recovery file | `recovery_file.rs` | revision high watermark, marker (policy, phase) | atomic persist, clear, load |
| Callout driver | `driver.c`, `policy.c` | policy snapshot, endpoint lease with deadline, datagram gate, canary, receive queues, flow contexts | lease replace/revoke/expire, gate, canary, policy replace, classify callouts, datagram receive and inject |
| Engine actor, activation loop | `windows_host.rs`, `session_registry.rs` | request and control queues, health supervision flag, sessions | dispatch one command at a time, health check between two, fail-closed teardown, shutdown, session activation and reaping |
| Forwarding runtime | `windows_tcp_runtime.rs`, `windows_udp_bridge.rs`, `windows_canary.rs`, listener and session files | listeners, renewal worker, UDP bridge, conservative lease expiry | activate (measure), canary, renew, verify_alive, deactivate |
| Agent orchestration | `services/agent/src/strict*.rs`, `core_ingress.rs`, parts of `runtime.rs` | stage of the policy flow, Core ingress generation, retry budget | begin, accept Broker proof, accept Core response, fail, disable, supervise recovery |
| Core ingress | `core/strict_ingress.go` | listeners by generation | configure, health, revoke |
| Agent runtime | `services/agent/src/runtime.rs`, `journal.rs` | Core process and its attempt, supervisor commands, UI sessions, link to the Core, replay journal | start, restart, stop the Core; accept, replace, serve and cancel a UI session; forward; replay |
| Helper | `services/helper/src/service/hub.rs`, `process_stop.rs`, `windows.rs` | managed Core and its owner | start, stop, stop of the service |

### The rest of the program

The Flutter application (`lib/`: profiles, node catalog and health store,
purchase flow, tray), the remaining Go core wrapper (`core/`: config
transactions, delay tasks, catalog providers, control server), the helper
service (`services/helper`), the older `windows/strict_capture` driver, the
macOS app-proxy extension (`macos/StrictProxy`), the native runners, plugins and
build scripts. PROJECT.json lists each with the reason it is not modelled: they
are user interface, I/O, prototypes, or separate protocols that come later in the
plan.

### How the parts interact

```
 app -> Agent --(named pipe, authenticated request)--> engine actor -> dispatcher
          |                                              |  health_probe: forwarding runtime
          v                                              v
        Core ingress                              BrokerEngine -> recovery file
                                                         v
                                                  planned backend -> WFP engine (guards, redirects)
                                                         v
                                                  callout driver (policy, lease, gate)
                                                         ^
                          renewal worker, UDP bridge ----+
```

* The engine actor owns the engine. It takes one command at a time and, before
  each, verifies that the forwarding runtime is alive; a runtime that is not is
  torn down (`force_fail_closed`).
* The dispatcher gives up the forwarding runtime before it prepares, blocks or
  disables, so the driver's lease and gate change *behind the back* of the backend.
* The renewal worker and the UDP bridge are threads of their own that use the
  same driver handle; the driver releases a lease on its own when it expires or
  when the owner process ends.
* Guards are *persistent* WFP objects and survive everything; redirects belong to
  a *dynamic* session and die with the process; the driver's policy survives the
  process but not the host; the recovery file survives everything.

* The Agent asks the Helper over HTTP to start or stop the Core; either side may
  give up or restart while the other goes on. The Core dials the Agent.
* UI clients and the Core meet in the Agent: one bounded channel to the Core, one
  bounded queue to each client, one task that must never wait for a client.

### What is hard, and what makes each part correct

* **Crash between any two effects.** The recovery file is written before filters
  are touched and cleared after they are gone. Correct: enforced on disk implies
  complete guards, guards imply a marker that explains them (`FailClosed` and
  `GuardsAreAccountedFor`, two of the five parts of `FollowsTheFile`), and a restart
  gets from any such state back to service (`ProtectedPolicyRecovers`,
  `InterruptedDisableFinishes`).
* **Half-done effects.** An IOCTL may happen and be reported as failed; an
  attestation after a transaction may fail. Correct: no error path uncovers an
  application (`GuardsLeaveOnlyByDisable`), memory and file stay in step
  (`MemoryFollowsDisk`), and a forwarding runtime that failed half way leaves nothing
  (`ForwardingInvariant`).
* **Lease and gate change underneath.** Correct: traffic is redirected only above
  complete guards, the gate is open only under a live lease
  (`RedirectsUnderGuards`), and no status proof claims forwarding that is not there
  (`HonestStatus`).
* **Lifetime of the executable locks.** Correct: what is guarded stays
  replacement-locked on every error path (`ExecutablesLocked`).
* **Old and new policies.** Correct: a revision is never used for two contents,
  across disables and restarts (`RevisionsAdvance`).
* **Runtime failures.** Correct: a runtime that lost a worker is given up without
  anybody asking (`DeadRuntimeIsGivenUp`), and an engine thread that ended takes the
  service down with it, so that it can be restarted (`DeadEngineEndsTheService`).
* **Callbacks that no teardown stops.** In the driver, WFP deletes flows and completes
  injections on its own threads while the lease is renewed, replaced or revoked.
  Correct: nothing is freed in use, outlives its lease or moves behind a closed gate
  (parts of `PathInvariant`), a reply
  is delivered once (`RepliesOnce`), and every teardown ends (`RequestsEnd`).
* **Requests that nobody waits for any more.** Every client of this system has a
  deadline, and no server forgets a request because of it. Correct: a command that
  was queued behind a failure does not run (`StaleCommandsNeverRun`), answers go to the
  request they belong to (`AnswersKeepTheirOrder`), a policy armed late is watched, or
  forwards nothing until it is blocked (`ArmedIsWatched`, `UnwatchedIsBlocked`), a Core
  started late is not forgotten (`SupervisorInvariant`, `StoppedIsGone`, `ServiceStopIsFinal`).
* **Threads that wait for each other.** Correct: every stop, teardown and shutdown ends
  (`TeardownCompletes`, `BridgeEnds`, `StopCompletes`, `SessionsEnd`, `WorkEnds`).
* **Leases with a clock.** The driver's lease outlives a failed call, a failed renewal
  and the thread that renews it. Correct: no port is given back under a live lease
  (`ForwardingInvariant`), and the lease of a dead Core ends (`DeadCoreClosesAdmission`).
* **Tables that forget at different times.** Each of the three tables of associations has
  its own clock and its own moment to look for idle entries. Correct: a reply reaches the
  flow that asked (`ReplyReachesItsFlow`), and a sequence number is used twice only by a
  flow that was silent for a whole idle time (`OnlyIdleFlowsRepeat`). That it is never
  used twice (`SequencesAreFresh`) is not so.
* **Bounded retries.** Correct: while attempts are left, a blocked policy and a stale
  ingress are retried (`AgentRecovers`).
* **Transactions of an external store.** Correct: a change of filters happens once, as a
  whole, and is confirmed only if it happened (`ImplementsStore`); a snapshot is true
  and later than the changes before it (`ReportsAreTrue`).

PROJECT.json `hazards` lists each of these at the line where it bites, with the
properties that cover it.

## 2. Modules

| Module | What it is |
|---|---|
| `StrictPolicy` | Policies, entries, App-ID families, the guard and redirect filters a policy compiles to, the identity-migration rule. Pure operators. |
| `StrictBroker` | The Broker from the dispatcher down to single effects: its state machine, specification and properties. |
| `MCStrictBroker` | The small instance all runs use: four policies, two entries, three App-IDs. |
| `StrictBrokerProofs` | The inductive invariant of the Broker, kept by every action; the theorems, each from it; and the proof that every step is a step of `Enforcement` or a stutter. |
| `Enforcement` | What the Broker promises, abstractly: the policy on record, and for every application whether its traffic is free, blocked or forwarded. |
| `StrictBrokerRefinement` | The refinement mapping: recovery file, filters and lease of `StrictBroker` read as a record and a treatment per application. |
| `ReplayWindow` | The sliding window against replayed sequence numbers, which driver, Broker and Core each implement. Pure operators. |
| `DatagramPath` | The driver's datagram path: flow contexts, capture, replies, lease, gate and teardown. |
| `MCDatagramPath` | Its instances for TLC. |
| `DatagramPathProofs` | What the window accepts and refuses, for every window size; that a reply is handed to an application at most once; that references and slots are counted; that everything in use belongs to the lease in force, through every request. |
| `StrictAgent` | The Agent's strict orchestration: three tasks, one orchestrator, an abstract Broker and Core. |
| `CoreSupervisor` | Who owns the Core process: the Agent's supervisor, the Helper and the Core. |
| `AgentProofs` | The inductive invariants of `CoreSupervisor` and `StrictAgent`: no Core is forgotten, and stopped means gone; no transaction is orphaned, and what is armed is watched. |
| `AgentSessions` | The Agent between its UI clients and the Core, with the replay journal. |
| `AgentSessionsProofs` | Its inductive invariant: who is served, where a request and its answer are, and what the journal may hold. |
| `BrokerHost` | The Broker's service: activation loop, sessions, pipe workers, engine thread, shutdown. |
| `BrokerHostProofs` | Its inductive invariant: what the queue holds, in which order, and what the main thread has seen to. |
| `UdpBridge` | The two threads between the driver's datagrams and the Core. |
| `UdpBridgeProofs` | Its inductive invariant: whose an identifier is, how the tables age together, and why the bridge has ended. |
| `TcpForwarding` | The forwarding runtime: lease renewal, listener, relay workers, canary, teardown. |
| `TcpForwardingProofs` | Its inductive invariant: whose the lease is, when it ends, and who holds a redirected connection. |
| `FilterStore` | What the Broker asks of its store of filters, abstractly. |
| `FilterEngine` | The store as it is: transactions of two WFP sessions, and the snapshots of filters and driver. |
| `FilterEngineProofs` | Its inductive invariant, the truth of its snapshots, and the proof that it implements `FilterStore`. |

`StrictAgent`, `CoreSupervisor`, `AgentSessions`, `BrokerHost`, `UdpBridge`, `TcpForwarding`
and `FilterEngine` each have an `MC` module of their name with the budgets TLC runs them with.

The modules fit together by what each takes as given of the others. `StrictBroker` has
the filter changes as atomic steps: `FilterEngine` shows that they are (`FilterStore`).
It has the forwarding runtime as alive, deaf or dead: `TcpForwarding` and `UdpBridge`
are that runtime, and `DatagramPath` is the driver below it. It executes one command at
a time: `BrokerHost` is the queue in front of it. `StrictAgent` is the client behind
that queue, over a Broker reduced to record, mode, session and queue; `CoreSupervisor`
and `AgentSessions` are the Agent's two other halves.

### State of StrictBroker and the code

| Variable | Code |
|---|---|
| `disk` | `RecoveryRecord` in the recovery file: `hwm`, `marker` (`NoMarker` for none) |
| `guards`, `dataPlane` | the filters in the WFP engine, persistent and dynamic. One key stands for the IPv4/IPv6 pair of an App-ID, `DatagramKey` for the two conditional datagram filters; an App-ID in `dataPlane` stands for its two redirect and two flow filters, which one transaction adds together |
| `driver` | the driver's policy, endpoint lease, datagram gate, canary binding; `counted` says its policy generation is not zero |
| `broker` | `BrokerEngine` (marker, high watermark, phase, health, verification lease), `PlannedWfpBackend.active_plan`, the forwarding runtime, and whether the WFP control has counted a mutation |
| `job` | the command the engine actor is executing and the step it has reached. `down`: no process; `halted`: the actor ended and the service goes on |
| `reply` | the last response: error, or the parts of the proof that properties look at |
| `faults` | failures injected so far |

A policy value stands for a revision *and* a digest; two policies may share a
revision. A family is a set of App-IDs.

### Actions and the code

A command is a path through `job.at`. Each action is one effect that can fail or
be cut by a crash on its own (a file write, a WFP transaction, an IOCTL), or one
attesting read, together with the memory assignments that follow it in the code.

* `prepare`: `Prepare` (deactivate the runtime, choose replay, migration or new
  policy) → `PersistPreparing` → `Upload` → `Replace` (→ `UnloadUnused` if the
  transaction fails) → `Attest` → `Publish`. A migration first runs the
  force-blocking path (`Deactivate` → `DropRedirects` → `Blocked`).
* `commit`: `Commit` → `Measure` (runtime and lease) → `Canary` → `CloseGate` →
  `Redirects` → `Activate` → `AttestActive` → `Verify` → `Arm`; failures go to
  `Cleanup`, `Rollback` → `Deactivate` → `DropRedirects` → `RolledBack`, or
  straight to `Failed`, as in the code.
* `force_blocking` and `force_fail_closed`: `ForceBlocking`, `Teardown`,
  `HealthTeardown` → `Deactivate` → `DropRedirects` → `Blocked`.
* `disable`: `Disable` → `PersistDisabling` → `Deactivate` → `DropRedirects` →
  `Disarmed` → `DropGuards` → `Unload` → `Clear`.
* `recover`, at start and for an exact replay: `Load` → the disable path for a
  Disabling marker, else (→ `Deactivate` → `DropRedirects` when redirects are
  found) → `Upload` → `Replace` → `Attest` → `Publish`.
* `Fails` is the end of a failed command: what the dispatcher, the actor or the
  service does with the error.
* Environment: `Crash`, `HostReboot`, `LeaseExpires`, `RenewLate` (a renewal after
  the lease was lost), `RenewalFails`, `BridgeFails`.

### State of DatagramPath and the code

| Variable | Code (`driver.c`) |
|---|---|
| `gate` | `FcxDatagramActive`, `FcxUdpStopping` |
| `lease`, `generation`, `incoming` | `FcxLeaseState`, `FcxLeaseGeneration`, the lease that `FcxBuildLease` has made and `FcxReplaceLease` installs |
| `rundown` | `FcxLeaseRundown`: readers of the lease, and whether it is being run down |
| `receive` | the request in `FcxDatagramReceiveQueue`, by its owner |
| `slots`, `waking` | `FcxUdpFlowCount` and `FcxUdpFlowEmptyEvent`; the threads between the decrement to 0 and `KeSetEvent` |
| `context` | `FCX_STRICT_UDP_FLOW_CONTEXT` of each flow, and (`sent`) how often each number was handed to WFP |
| `wfp`, `sending`, `finishing` | what WFP has of a flow: its context, its injections, and completions past `FcxDereferenceUdpFlowContext` |
| `classify`, `capture` | where `FcxClassifyUdpFlow` and `FcxCaptureOutboundDatagram` are |
| `injection` | `FcxUdpInjectionCount`; `open` is attempts less successes and failures |
| `todo`, `holding` | the steps that the request under way has ahead, and the flow it holds a reference to |

A *key* is what identifies the owner of a lease to a flow: Broker process, revision,
digest and nonce. One step is what happens under one spin lock or in one interlocked
operation; where several are one action (the head of `FcxCaptureOutboundDatagram`, a
dereference and the unlink before it), nobody can tell the difference in between.
The four teardowns of the code (`FcxReleaseLeaseLocked`, the two paths of
`FcxReplaceLease`, the closing path of `FcxSetDatagramPathActive`) are the sequences
`ReleaseLease`, `RenewLease`, `ReplaceLease`, `DeactivatePath` of the same steps in
the order of the code, and one action takes each step, so that a wrong order is one
line of the model as it is one line of the code.

There is one control thread: the default queue of the driver is sequential
(`driver.c:3733`), every change of the lease holds `FcxLeaseMutationLock`, and the
notification that the Broker's process ended, which is on another thread, comes
when that process has no thread left that could be inside a request.

### State of StrictAgent and the code

| Variable | Code (`services/agent/src`) |
|---|---|
| `store` | the protected intent file (`strict_store.rs`): whether it is enabled, the policy, and whether this Agent could open it (without it no apply succeeds) |
| `runtime` | `StrictRuntime`: policy, the Broker sessions its clients hold, the lock around the orchestrator, attempts used, whether a retry is scheduled |
| `orch` | `StrictPolicyOrchestrator` with its controller and its `CoreIngressController` (`generation`, `pending`, `active`) |
| `job` | where each of the three tasks is between the orchestrator and a request |
| `published` | the state the user is shown |
| `strictCore`, `broker` | the Core's listeners and the two directions of its pipe; the Broker: record, mode, session, and the queue, which keeps requests nobody waits for |
| `strictBudget` | bound: the faults, user commands and health checks left |

An orchestrator transition (`AcceptBrokerProof`, `AcceptCoreResponse`, `Recover`, ...) is
an operator from one `orch` to the next and what is to be done; `HandleAnswer` is the
task that applies it under the lock, and the requests in between (`SendToBroker`,
`EngineExecutes`, `SendToCore`, `CoreHandles`) are actions without it. `ClientGivesUp`
is the client's timeout.

`AgentRestarts` loses everything but `store`. Then either the intent is restored and its
first request is on its way (`IntentRestored`), or the Agent has nothing to drive
(`NothingRestored`): there is no policy, the file could not be opened
(`runtime.rs:1058-1064`), or the apply that restores an enabled intent could not write it
again (`runtime.rs:561-566`). Restoring a disabled intent does not fail: its policy was
validated when the file was loaded (`strict_store.rs:85`) and the orchestrator is new.

### State of CoreSupervisor and the code

`sup` is where `supervise_core` is and what its `stop_backend` is for; `session` the
`HelperSession` (owner, attempt) or the local child; `call` the HTTP request it awaits and
`late` those it gave up on, which the Helper still handles in any order; `helper` the
service and its `ManagedCore`; `core[a]` the process of attempt `a` and its connection;
`backlog` what is in the listening socket. An owner string is abstracted to its attempt.
Crash retries, the backoff and the deadlines are actions that may happen while the code
waits; `MaxCrashRetries` is the code's constant, made small.

### State of AgentSessions and the code

`ses[s]` is one UI connection: where its handler is, its bounded output queue, what it has
read; `ui` and `link` are `shared.ui` and `shared.core`; `chan` the channel to the Core's
writer task; `journal` the `ReplayJournal` (entries and pending requests).
`sender`, `answered`, `confirmed` are history for the properties. `Install` cancels the
session before and takes its place; `Watch`, `WriteOut` and the reading steps are the three
futures of `select!`; `Forward` is the task that must not wait.

### State of BrokerHost and the code

`main` is the service's thread (`run_service`, `run_activation_loop`, the cleanup it waits
for); `active` the registry's session; `ses` its pool of pipe workers; `req` each request
from its worker to its executor, with the 20 s of the dispatch and the worker's own
deadline as actions (`DispatchTimesOut`, `HandlerTimesOut`); `queue`, `control` the two
channels of `run_engine_actor` (`actor`); `forwarding` off, up or failed. `Poll` takes a
command, `Health` looks at the runtime before it, `DropQueued` rejects what was queued
behind a failure.

### State of UdpBridge and the code

`receiver` and `bridge` are `run_driver_receiver` and `run_udp_bridge`; `request` the
posted receive, `free` and `captured` the two channels its buffers circulate through;
`window` the lease window under its lock; `associations`, `transport`, `core` the three
tables, each with ages in ticks of half the idle time; `inbound` the reply frames, in no
order; `renewal` and `owner` the two threads outside; `past` history: the flow an
identifier was made for (`origin`), how long the Broker has had nothing to do with it
(`idle`), whether any entry was ever due to go (`silent`), and the identifiers of which the
Core has dropped a frame as a replay (`refused`). Only verdicts of the formats are kept: a
frame is its identifier, sequence number and size.

`Tick` lets time pass between any two steps. A pass of the bridge is `BridgeObserves` or
`BridgeSkipsHealth`, then for each captured batch `BridgeRoutes` (the bridge's table, whose
entries it uses at any age) and `BridgeSends` (the transport's sweep and table, and the
Core's), then `BridgeIdentifies`, for each reply `BridgePolls` (the transport's sweep) and
`BridgeCollects`, and last `BridgeSubmits` or `BridgeIdles` with `SweepExpired`. Transport
and Core look for idle entries once a second at most, which is short against the idle
time: an entry that has just expired may or may not outlast a look, one that has been
expired for half an idle time does not (`SweptIfDue`).

### State of TcpForwarding and the code

`owner` is the engine's thread in `activate`, the canary and the two teardowns; `renewal`
the lease worker; `listener`, `worker`, `next`, `conn` the listener pool with one place per
queue; `lease` and `expiry` the time the driver's lease really has and the conservative
bound the code keeps, in ticks of half a lease; `plan` how far the session plan lags.
Generations are kept as ages relative to the driver's, so the number of renewals needs no
bound. The wait for `expiry` before ports are given back is `OwnerWaits`/`RenewalWaits`.

### State of FilterEngine and the code

`objects` and `filters` are what the base filtering engine (BFE) has committed; `writer` and `draft` its open
transaction; `lingering` the sessions whose owner died; `handles` the two handles of
`WindowsWfpEngineStore`; `call` the call under way, step by step (`Begins`, `Ensures`,
`Verifies`, `Clears`, `Adds`, `Commits`, `Aborts`; `Issues`, `Replies`, `Attests` for an
IOCTL; `ReadsDriver`, `ReadsObjects`, `ReadsFilters`, `Reports` for a snapshot); `control`
the two counters of `WindowsWfpControl`; `report` and `past` history. The BFE is external:
one writer at a time, reads of committed state, deletion of a filter of another session
refused or not, the filters of a dynamic session gone some time after its owner.

### Failures

`StepFails` lets any step fail without effect. IOCTLs and attested transactions
may also take effect and then report failure (`Try`, and the explicit `Fault`
disjuncts). WFP transactions are atomic: `transaction` in
`windows_wfp_engine.rs` aborts on error. A recovery-file write is atomic
(temporary file, flush, replace). Every injected failure counts against
`MaxFaults`. Two events are free because the code does them by itself without
any failure: a runtime that had failed makes its deactivation report an error
(`GivenUp`), and the bridge ends when a renewal cancels its pre-armed receive under
a closed gate (`BridgeFails`).

## 3. Runs

| Run | Properties | Bounds |
|---|---|---|
| `broker_safety` | `FollowsTheFile`, `HonestStatus`, `GuardsLeaveOnlyByDisable`, `RevisionsAdvance`, refinement of `Enforcement` | 3 faults, host reboots |
| `broker_liveness` | `ProtectedPolicyRecovers`, `InterruptedDisableFinishes`, `DeadRuntimeIsGivenUp` | 3 faults, no host reboot |
| `datagram_replies` | `PathInvariant`, `RepliesOnce`, `CaptureOfLease` | 1 flow, 2 keys, 2 leases, batches of up to 2 replies, numbers 1 to 3, window of 2 |
| `datagram_flows` | `SlotsCounted`, `RequestsEnd` | 2 flows for 1 slot, 1 lease, no replies |
| `agent` | `AgentInvariant`, `ArmedIsWatched`, `WorkEnds`, `AgentRecovers` | 2 policies, 2 attempts; one fault against a command, or against a health check; fresh, or with either policy armed |
| `core_supervisor` | `SupervisorInvariant`, `StoppedIsGone`, `ServiceStopIsFinal`, `SupervisorSettles` | 3 faults and 1 command, or 2 and 2; both backends |
| `agent_sessions` | `SessionsInvariant`, `AnswersOrDisconnects`, `SessionsEnd` | 1 client with 2 requests, or 2 clients with 1; queues of 2 and 1; one loss of the Core |
| `host` | `HostInvariant`, `StaleCommandsNeverRun`, `AnswersKeepTheirOrder`, `StopCompletes`, `DeadEngineEndsTheService` | 3 workers, 2 sessions, queue of 2, and four budgets of requests, failures, delays, exits and stops |
| `udp` | `BridgeInvariant`, `ReplyReachesItsFlow`, `OnlyIdleFlowsRepeat`, `OnlyDisturbancesEndTheBridge`, `BridgeEnds` | 2 flows, 3 identifiers, tables of 1, 2 buffers, batches of 2 records and 3 units of space; six budgets, up to 3 ticks |
| `tcp` | `ForwardingInvariant`, `TeardownCompletes`, `DeadCoreClosesAdmission` | 2 workers, 2 connections; five budgets, among them every pair of faults of one runtime |
| `filters` | `EngineInvariant`, `ReportsAreTrue`, refinement of `FilterStore` | 2 policies, IPv4, 4 calls, 2 lives of the service, with one fault, one broken session, one interference, or two leases |
| `replay_fails` | `ReplayRecovers` is violated | 0 faults |

Several properties are conjunctions, so that one run asks one question of each:

* `FollowsTheFile`: `FailClosed` (enforced on file means complete guards),
  `GuardsAreAccountedFor` (guards mean a policy on file), `RedirectsUnderGuards`,
  `MemoryFollowsDisk`, `ExecutablesLocked`.
* `PathInvariant`: the types, `ReferencesCounted` (no context is freed in use),
  `LeaseOwnsTheRest` (none outlives its lease), `ClosedIsQuiet`, `Accounted`.
* `AgentInvariant`: the types and `NoOrphanedTransaction`. `AgentRecovers`:
  `BlockedIsRetried`, `IngressIsRenewed` and `UnwatchedIsBlocked` (an armed policy without
  a runtime is blocked by the Broker, or taken over).
* `SupervisorInvariant`: the types and `NoCoreForgotten`. `SupervisorSettles`:
  `StartingSettles`, `CommandsAreTaken`, `NothingOutlivesTheAgent`.
* `SessionsInvariant`: the types, `LiveSessionIsCurrent`, `ReplaysOnlyConfirmed`.
  `SessionsEnd`: `CancelledSessionsEnd` and `ShutdownCompletes`.
* `HostInvariant`: the types, `ForwardingIsSupervised`, `CleanStopIsClosed`.
* `BridgeInvariant`: the types and `BuffersConserved`. `BridgeEnds`: `StopCompletes` and
  `FailureIsSeen`.
* `ForwardingInvariant`: the types, `PortsOutliveTheLease`, `RuntimeLeavesNothing`,
  `RenewalEndsClosed`.
* `EngineInvariant`: the types, `NothingLeftOpen`, `RefusedOncePerLease`.

### Bounds

**Broker.** The runs use `MCStrictBroker`: *first* (revision 1) proxies application *a*;
*upgrade* (revision 2) is a publisher-preserving upgrade of it with the family
{*a*, *b*}; *other* shares revision 2 and blocks an unrelated application; *later*
(revision 3) has the family {*a*, *c*}, so it may follow *first* but not *upgrade*. That
is the smallest set with a fresh policy, a legal migration, an illegal one, a
clash of revisions, a proxied and a block-only policy. No symmetry is declared: the
policies are all different. `MaxFaults` is the only bound on behaviour; the number of
commands, restarts and migrations is not bounded. Three faults allow a failed effect, a
failure of the error path that follows it, and a crash on top; the theorems, which hold
for every `MaxFaults`, confirm that the fourth adds nothing for safety.
`broker_liveness` runs without host reboots because `RestartStarts` does not hold
(below), and `ProtectedPolicyRecovers` speaks of markers that are not Disabling.

**Driver.** `datagram_replies` has the smallest numbers for which a number can be ahead of,
inside and behind the window, be doubled inside a batch and across batches, and meet a
context of another owner; keys are symmetric, for the model never compares them with
anything but each other. `datagram_flows` has two flows because the count and its event
race only between flows, and a limit of 1 so that the second is over it.
`MaxGeneration`, the number of leases, is the one bound on behaviour; the number of
flows that come and go, of datagrams, of batches and of gate changes is not bounded.

**The other modules** bound what their surroundings may do by a *budget*, a record of what
is left, of which an action of the environment takes one. A run starts from several
budgets, each of which makes one kind of trouble possible together with what it interacts
with; the program itself is never limited by them. That keeps the interleavings of every
step while no budget holds all troubles at once. What each budget is for is a comment in
the `MC` module. The capacities (queues, tables, buffers, workers, retries) are the
code's constants made small enough to be exceeded: three requests for a queue of two, two
flows for a table of one, two records that do not fit a batch together. The age of an
association or a lease is counted in two ticks, the least for which something renewed may
outlive something that was not; in `UdpBridge` up to three ticks pass, anywhere, the least
for which an entry that was renewed after the first is overdue after the last. In
`UdpBridge` a new association is made only while an
identifier of `Ids` is left; the code draws 128 random bits. `FilterEngine` has IPv4
only (`Families`), since the two families never meet in the code, and two lives, the
least for which a session of a crashed service lingers beside that of its successor.

Deadlock is checked where the system always has something it can be asked
(`StrictBroker`, `DatagramPath`). The other runs have `CHECK_DEADLOCK FALSE` because
their systems do stop: the service ends, the Agent leaves, the budget is used up.

### Fairness

Weak fairness of `EngineStep` (the actor is a thread that runs a command to its
end), of `HealthTeardown` (the actor's loop checks the runtime before it takes the
next command, so a request never overtakes the check for good) and of `Start`
(the service control manager restarts the service). Nothing is assumed of clients,
sessions, renewals or the environment, and none of a service without its actor.

For `StrictAgent`, `CoreSupervisor` and `AgentSessions`: weak fairness of `Program`
(`StrictProgram` in the first: its names carry a prefix where `AgentProofs` needs both
modules), the steps of the three processes' tasks: some task that can go on does. Users, faults,
timeouts and crashes are outside of it. It is one condition for all tasks and so less than
a multi-threaded runtime gives; it is enough because no task can keep busy for ever.

For `BrokerHost`: of the main thread, of the engine thread and of the pool, each while the
service runs. A deadline passes at any time, so that none of the liveness properties
relies on one not passing.

For `UdpBridge`: of each thread, of the renewal's critical section, of the owner's steps and
of the completion of injections, which WFP guarantees. Strong fairness of
`BridgeObserves` says that the bridge, which looks at the failure counter every time
round unless its clock says it did so less than the health interval ago, does not skip it
for ever.

For `TcpForwarding`: of owner, renewal, listener, each worker, and of time. Relaying ends
when peer or Core do, about which nothing is assumed, and workers are cancelled instead.

For the driver: weak fairness of the control thread's steps, and of each flow's steps
under way. The latter contain what WFP guarantees: an injection is completed, and a
flow whose context was removed is deleted once no datagram of it is being
classified. One condition per flow, not per thread, is less than the kernel gives.
Nothing makes a flow begin or end, a datagram arrive, a lease run out or a request
come.

### Findings

* **The exact replay of an Armed policy always fails** (`replay_fails`): the
  dispatcher has just closed the gate, and the inventory check wants it open while
  the redirects stand. `lib.rs:525` says that an exact replay is recovery.

  It uncovers no application: it costs the replay, after which the Broker blocks until a
  new policy or a disable arrives.

### Statements TLC refutes

Comments, tests and the design document state more than the code does. These statements
are definitions of the modules, next to the place they are about, and not among the
runs; put one in place of the properties of the named configuration, and TLC shows a
counterexample. *m3* is `engineering/m3-windows-strict-detailed-design.md`.

| Statement | Configuration | What is said, and what happens |
|---|---|---|
| `DisableIsAcknowledged` | `MCStrictBroker.cfg`, property | The proof of a completed disable carries a filter generation that is not zero and revision zero, which `validate_broker_proof` (`strict-contract/src/lib.rs:840`) refuses: the disable is answered with an error. The Agent's test `strict_flow.rs:753` expects the proof. |
| `NothingOrphaned` | `MCStrictBroker.cfg`, invariant | With no guards left, `complete_disable` (`lib.rs:860`) skips the unload of the driver's policy; after an upload that was reported as failed, a disable leaves it loaded and the next start refuses to come up. |
| `RestartStarts` | `MCStrictBrokerLive.cfg` with `HostMayReboot = TRUE`, property | m3:161: a restart comes up blocking. A host reboot in the middle of a disable leaves guards and an empty driver, on which recovery insists (`lib.rs:861`). |
| `EngineOutlivesRuntime` | `MCStrictBroker.cfg`, invariant | `windows_host.rs:598`: the actor stays available after a failed runtime. The error of the joined worker counts as a failed cleanup (`:593`), and the actor ends. |
| `DrainIsFence` | `DatagramFlows.cfg`, property | `driver.c:1420`: the empty event is the ownership fence. Count and event change without a lock (`:980`); an event set late lets a drain return over a live context. |
| `ReapedIsClosed` | `MCBrokerHost.cfg`, invariant | m3:634: the engine is closed before the session is reaped. A commit of the exited Agent that was still queued is executed after the cleanup (`windows_host.rs:607-651`). |
| `RepliesUseTheCurrentIdentity` | `MCUdpBridge.cfg`, invariant | m3:366: reply batches use the current identity. It is read before up to 64 waits for replies (`windows_udp_bridge.rs:681`); a renewal in between makes the driver refuse the batch. |
| `SequencesAreFresh` | `MCUdpBridge.cfg`, invariant | m3:317: the header of a data frame binds a "monotonic sequence". The bridge uses its entry at any age between two of its sweeps (`windows_udp_bridge.rs:140-157`); the transport sweeps its own table when it sends (`windows_core_udp_data.rs:146`) and numbers from 1 again (`:171`); the Core, which sweeps once a second at most (`strict_ingress.go:427`), drops the frame as a replay (`:590`). Only a flow that was silent for a whole idle time is touched (`OnlyIdleFlowsRepeat`). |
| `StopIsClean` | `MCUdpBridge.cfg`, invariant | m3:410: an expected cancellation of the receive is no failure. The bridge may see the receiver gone first and end with an error (`windows_udp_bridge.rs:675`). |
| `HandoffIsClosed` | `MCTcpForwarding.cfg`, property | `windows_tcp_session.rs:114`: the handoff race of a renewal is closed. A connection stamped with the new generation is refused when it is checked before the plan is advanced. |
| `TransactionSettles` | `MCStrictAgent.cfg`, property | `strict_flow.rs:425`: an in-flight transaction is never reset. The supervisor's recovery (`runtime.rs:966`) does, while another task awaits its answer. |
| `RetryCanActivate` | `MCStrictAgent.cfg`, invariant | `runtime.rs:835`: a retry performs a new activation. The Broker refuses it while the session of the same Agent process is alive (`windows_host.rs:317-331`). |
| `RollbackHolds` | `MCStrictAgent.cfg`, invariant | `runtime.rs:672`: the old intent is restored only when the Broker still owns the old policy. A migration the Agent gave up on may be executed after that status. |

The safety properties of the runs hold in all these states: what they cost is
availability, or a response that can be trusted. Two more observations follow from
reading `CoreSupervisor` and need no statement of their own: a connection left in the
backlog by an earlier attempt is accepted by the next, since the token is the same
(`runtime.rs:2166-2211`); and a Helper that restarted knows no owner, so that the Agent's
stop stays unconfirmed (`runtime.rs:2049-2054`, `process_stop.rs:46-56`).

## 4. Proofs

`StrictBrokerProofs` proves for every set of policies, every number of faults and
with or without host reboots: `TypeOK`, `FailClosed`, `GuardsAreAccountedFor`,
`RedirectsUnderGuards`, `ExecutablesLocked`, `MemoryFollowsDisk`, `HonestStatus` as
invariants, `GuardsLeaveOnlyByDisable` and `RevisionsAdvance` as action
properties, and `FollowsTheFile` as `StateFollowsTheFile`, the conjunction of the
first. The assumptions are `PolicyAssumption` (what
`StrictPolicyBundle::validate` guarantees: positive revisions, at least one entry,
non-empty families; and that `None` and `DatagramKey` are no policy and no App-ID)
and `BoundAssumption` (the types of the two bounds).

None of these invariants is inductive alone. `IInv`
adds what the position in a command implies:

* `Routed`: which steps belong to which command, and that a job with a policy
  carries the one it must.
* `Staged`: what each step has established so far, for example that guards are
  installed only for a verified policy whose marker is not Disabling, or that
  `DropGuards` runs under a Disabling marker and without redirects.
* `Gated`: how gate, canary, lease and redirects hang together, step by step.
* `Planned`: that an active plan and installed redirects are those of the marker.
* `Synced`: memory and file agree at every step at which the engine runs, with the
  exceptions during start.

The proof has one lemma per action (`UploadKeeps`, `BlockedKeeps`, ...), `Invariance`
collects them, and each theorem follows from `IInv` by a short step. `FailClosed`
needs `MatchedGuards`: when a snapshot that passed the inventory check also matches
the marker, the installed guards are complete. `GuardsLeaveOnlyByDisable` needs
`MigrationKeepsGuards`: the migration rule makes every old guard a guard of the new
policy. `IInv` was checked with TLC on the instance above before it was proved.

The last part of `StrictBrokerProofs` proves `Spec => ImplementsEnforcement`. The mapping
reads the recovery file as the record (Blocking and Armed are both *enforced*), and
an application's traffic as forwarded while its redirect filter stands under a live
lease, as blocked while only its guard does, and as free otherwise. The steps fall
into three kinds. Those that write neither the file nor the guards (all of the
environment among them) need no case analysis: `TrafficStep` shows from
`RedirectsUnderGuards` before and after that they start, stop or keep the
forwarding. `Replace` and `DropGuards` are `Guard` and `Release`. The writes of the
file are `Prepare`, `Enforce`, `Disable` and `Forget`; the first and the last need
one fact that `IInv` lacks, `Lineage`: a policy is about to be recorded only over no
policy or over the one it migrates, and a record about to be cleared says Disabling.
`Enforce` is allowed from *disabling* too, and `Forward` is not forbidden there,
because `force_blocking` after a disable that failed half way takes the disable
back, and a commit may follow it.

`DatagramPathProofs` first proves, for every window size, what the bitmap is worth. A window
*represents* a set of numbers if its bits are those of the set that are inside it.
`AcceptedOnce`: then it accepts none of them. `AdvanceRepresents`: after a commit
it represents the set with the new number. `RefusedForReason`: what it refuses was
there before or is too old. They assume only that the window has at least one bit.

It then proves `Spec => []RepliesOnce` for any number of flows, leases,
records and in-flight injections (`PathAssumption`: the types of the constants, and
that a batch fits into the injections in flight, which the driver asserts at compile
time). `ReplyInv` says of every context that no number was sent twice and that the
window represents those sent; it is inductive with the types of what contexts are
made from, and with the one thing that batches contribute: a step that sends names
a flow and a positive number. The argument is that the only step that hands a
packet on commits its number in the same step, under `CommittedOnce`, which is
`AcceptedOnce` with `AdvanceRepresents`; and that freeing a context clears both
(`DereferenceOnce`).

The third part proves `Spec => []ReferencesCounted` and `Spec => []SlotsCounted`. `UsesInv` says
of each flow (`Sound`) that the references of its context are its uses and that it has
none while its classify call is on its way to a slot, and of the control thread
(`ChainInv`) that the steps of a reply follow each other, so that it holds a reference
exactly where the next step lets go of it. Every step touches at most one flow
(`OnlyFlow`); `LetGo` is the step that frees, `SlotsOfOneFlow` the arithmetic: the counter
moves with the one flow that gains or loses its slot. The limit is kept because a slot is
granted on the counter's own answer, and the counter is never below the slots granted.

The fourth part proves `Spec => []PathInvariant` and `CaptureOfLease`. That whatever is
usable belongs to the lease in force (`Owned`) is not inductive: a request of the Broker
takes many steps, and the threads of the flows go on between any two of them. `LeaseInv`
says where the control thread is in a request (`On(q, n)`: before the n-th step of q, or
waiting for the event in front of it) and what that request has achieved by then
(`RenewedBy`, `ReleasedBy`, `ReplacedBy`, `DeactivatedBy`). In a release the gate is closed first, then
the receive request is gone, then the lease, then everybody who could have read it, then
what they were injecting, then the contexts. What has been achieved stays (the *stays*
lemmas): a classify call that finds no lease, a gate that is closed or a lease of another
generation does not go further. The step that waits for readers needs that the rundown
counts them (`HoldersInv`), the one that waits for injections that the counter does
(`SumInv`), and a capture needs that its context does not change its key meanwhile
(`CaptureInv`). `PathAssumption` says of the constants here that flows are finitely many
and that `None` is neither a key, a flow nor a lease.

The first part of `AgentProofs` proves `SupervisorInvariant` (no Core is forgotten), `StoppedIsGone`
and `ServiceStopIsFinal` for any queue, number of retries, faults and commands; it assumes
only the types of the bounds. That the supervisor holds the owner of every Core that runs
or may yet be spawned is not inductive: a start that the Agent gave up on is still on its
way, and what a late stop or a restarted Helper does to it depends on who has handled
what. `SupervisorInv` follows one attempt. `HandledOnce`: its start is in the Agent's call,
or among the requests given up, or handled, and in no two of these places. `HandleIsHeld`:
the Helper holds the handle of every Core it has spawned and not ended, until it has
stopped. `StopIsProven`: a confirmed stop leaves neither the Core nor a request for it.
`RoundsStartClean`: a round of the supervisor begins with nothing of the round before.
The status *stopped* then means that nobody is left whom the supervisor could forget.

The second part of `AgentProofs` proves `AgentInvariant` and `ArmedIsWatched` of
`StrictAgent` for any policies and revisions, any number of recovery attempts and any
faults, commands and checks; it assumes the types of the constants, that revisions are
positive, and that `None` is neither a policy nor a task. Neither invariant is inductive: the
Broker's queue keeps requests whose client has given up, so a commit may arm a policy
long after the task that wanted it was told that it failed, and a restarted Agent knows
nothing of it. `StrictInv` therefore speaks of what the Broker *may still* arm (`Armable`:
the policy on record is armed, or a commit for it is in the queue or on its way,
`CommitAhead`). It is `StrictKnown(FALSE) /\ (Watched \/ NewcomerInv)`: what is known of
every state, and one of two reasons why an armed policy does no harm.

* `Watched`: what is armable is covered by the intent file, that is, the file has a policy
  and its revision is not below that of the record. After a disable that the Broker has
  confirmed (`Disabled`) nothing is armable, which is why the file may then be cleared;
  when a rollback has heard that the Broker still has the old policy (`OldIsBack`), the
  old policy covers what is armable too, which is why it may be written back.
* `NewcomerInv`: an Agent that restarted may have restored nothing, and then nothing
  watches over what an earlier Agent armed. Until the Broker has executed a request of the
  new one, its controller has asked the Core for nothing (`Calm`), the Core has no ingress
  and no word of one is on its way (`Silent`), behind a request of this Agent no commit of
  an earlier one is left in the queue (`Fenced`), and its tasks have asked for a
  preparation at most. The intent is then to be prepared anew, or covers what is armed.
* `RecordedOnce`: a policy that is committed, or that the Broker has answered for, was on
  record, so its revision is not above the Broker's high watermark. Hence a policy that is
  recorded anew has no commit ahead of it, and a late commit finds another record.
* `Attended`: while the controller is *Preparing* or *Recovering* some task has a request
  whose outcome moves it on (`Asks`), and a *Disabled* runtime that is still there has
  the task that ends it (`Ending`).
* `JobKnows`, `Stored`, `QueueKnows`: what the position of a task says about runtime, lock
  and controller, what the file and the runtime have in common, and that a request whose
  client waits is the one that client sent.

The orchestrator is treated first, as the pure operators that it is: one lemma per
transition says which phase follows and what may be asked next (`Goes`). On the Agent's side
every step of a task drops its job, hands on what it was told, begins a command, or
applies a transition (`QuietJob`, `SteerStep`, `BeginStep`, `DriveStep`); on the Broker's side
`ServeStep` says what it needs to know of queue and record (`Serves`, `Served`). These
lemmas hold with and without `Watched` (the parameter of `StrictKnown`), so `StrictKeeps`
shows that no step but `AgentRestarts` breaks it. `RestartStep` is that restart, in which all
tasks are lost and the file decides (`NothingRestoredKeeps`, `IntentRestoredKeeps`);
`NewcomerStep` shows that a newcomer stays one until the Broker executes a request of
it. After a Prepare nothing is armed and no older commit is left, so that it is `Watched`
(`NewcomerServed`). `ArmedIsWatched` promises no more of a newcomer than that it forwards
nothing (`Estranged`); that its armed policy is blocked or taken over in the end is
`UnwatchedIsBlocked`, which only TLC checks. The theorems are about `StrictSpec`, from a
fresh start; the run also starts from a policy that was armed before, which takes a fresh
start many steps to reach.

`BrokerHostProofs` proves `HostInvariant`, `StaleCommandsNeverRun` and
`AnswersKeepTheirOrder` for any number of sessions, pipe workers, places in the queue and
requests (a request is numbered as it comes, so the shapes of the state grow with a
number that `Shape` hides). `QueueMatches`: the queue holds exactly the requests that
are called queued, each at one place, and at most one runs. `StaleIsRejected`: what was
queued when a failure was found is dropped or waits for that. `OrderIsKept`: of two
queued requests the one whose answer the sender of the other had heard is in front;
this is what makes the last answer have the last word, and it needs that a worker never
answers for a request it has not passed on. `MainKnows`: by the time the main thread
stops the engine no session is active and none can begin.

`FilterEngineProofs` proves `EngineInvariant`, `ReportsAreTrue` and `ImplementsStore`, from
`PolicyAssumption` and `EngineAssumption` (there is an IP family, and the bounds are
numbers). `SessionsKnow`: an open transaction whose session is not on its way out
belongs to the call under way, and a call whose session answers has the transaction it
believes to have. `FiltersKnow`: what that transaction would commit is, at every step,
`Drafted`: the filters as they are, without those of the call's class once these were
cleared, and with those of the plan that were added so far. This holds in spite of
other programs and of sessions that end, because both must wait for the writer.
`ReportsKnow` is the argument of the snapshots: the greater of the two generations is
never below what was reported and above it after a change, and a key that was there
throughout is among those read or in a layer still to be read. From `Drafted` follows
the refinement: a commit, heard of or not, replaces the filters of one class and of no
other (`ReplacedIs`: the layers of the classes are disjoint, the provider is ours), every
other step of a call leaves the filters alone, and a session that ends takes only
filters of the dynamic class with it, for guards and other programs' filters belong to
no session.

`TcpForwardingProofs` proves `ForwardingInvariant` for any number of relay workers,
connections, activations and faults; it assumes the types of the constants and that
`None` is no connection. `Leasing` is the first half of `RuntimeInv`: the lease is the
owner's from its first activation to the revocation or the expiry, the renewal thread lives
only in between, and `expiry` is never before the end of the lease, except between an
activation and the look at the clock that follows it; so whoever has waited for `expiry`
may give the ports back. The second half follows a connection: one that was redirected is
in the backlog, which is the listener's, or a worker serves it or has it queued; a worker
that has ended holds none, and joining the listener means that all have ended.

`UdpBridgeProofs` proves `BridgeInvariant`, `ReplyReachesItsFlow`, `OnlyIdleFlowsRepeat` and
`OnlyDisturbancesEndTheBridge` for any number of flows, identifiers, buffers, records and
record sizes, from `SizesAssumption` and `BudgetsAssumption`: the bounds are positive
numbers, 0 is no identifier and `None` no flow, no record is larger than a batch. The
three tables forget on their own, at any point between two steps, and `BridgeInv` says
what holds between them although they do. `Origins`: while the bridge works, the
association of a flow has an identifier made for that flow, and what the Core has
forgotten it has seen nothing of. `TransportFollows`: as long as the Broker has not been
idle for an association (`past.idle`, which grows with each tick and starts again with each
frame sent or received), the transport's entry is no older than that, hence not swept, and
everything the Core has seen is less than its next number; if the transport has no entry,
nothing was sent. It is the ages, not the order of sweeps, on which the invariant rests,
and beyond a whole idle time it promises nothing. Why the bridge
ended is put as a fact that stays true (`Disturbed`). That a batch is stale only after two
renewals follows from `WindowFollows` (the window is the driver's last two generations,
but while it is locked), and that a reply is refused only after an idle time from
`QuietInv`: as long as no entry was ever too old, every identifier that was given is still
its flow's, and every reply on its way is known and new. `SpaceInv` is the arithmetic of a batch: the room that
is left is enough for the records to come, if it was at the beginning.

`AgentSessionsProofs` proves `SessionsInvariant` and `AnswersOrDisconnects` for any number
of clients, requests and losses of the Core, and any capacity of the queues; it assumes the
types of the constants, that capacities are positive, the reserve smaller than the output
queue, and that no request has the name of another kind of line. `Follows` is what a session
may do while it lives: it never returns to authentication, is never served again once it is
not, and loses nothing it was given; `SessionsFollow` turns that, for all sessions at once,
into the invariant, so that only `Accept`, `Install` and `Ask` need more. An answer goes
to the session in `shared.ui`, not to the one that asked: that it is the same one, if the
asker is still served, is `LiveSessionIsCurrent`, and `Forwarding` shows that a line which
finds no place costs the session. For the journal, `OnTheWay` and `SaidIsDone` follow a
request through channel and Core: a positive answer that has not been read yet is about
something the Core has done, which `JournalCommits` carries over to the entries; the
oldest proxy choice that `Record` forgets only takes an entry away.

Every inductive invariant was checked with TLC on the instance of its component's run
before it was proved. Only model-checked are
the liveness properties, because fairness and ENABLED are out of the prover's reach:
`ProtectedPolicyRecovers`, `InterruptedDisableFinishes`, `DeadRuntimeIsGivenUp`,
`RequestsEnd`, `WorkEnds`, `AgentRecovers`, `SupervisorSettles`, `SessionsEnd`,
`StopCompletes`, `DeadEngineEndsTheService`, `BridgeEnds`, `TeardownCompletes` and
`DeadCoreClosesAdmission`. Every invariant and every action property of a passing run
has a theorem.

## 5. What is abstracted and what is not modelled

* Digests, paths, certificates: a policy value. Identity verification is a choice
  between success and failure; so is every attestation of a mutation that did what
  it was asked to.
* The three health bits of a proof are one; they are always set together by the
  engine. Of the capability set, only whether it claims forwarding is kept.
* In `StrictBroker` commands queue outside the model: one is executed at a time. The
  queue, its deadlines and what it does to commands nobody waits for are in `BrokerHost`.
* In `StrictBroker` a guard transaction that reports a failure has not committed. The code
  does not know that (`windows_wfp_engine.rs:586-600`; `planned_wfp_backend.rs:73-81` keeps
  no plan), and `FilterEngine` has the other outcome (`CommitUnheard`). Added to `Replace`
  as one more fault, it leaves the liveness run as it is, and in the safety run TLC finds
  `FollowsTheFile` violated, by three faults in a row: a first `prepare` installs its guards
  unheard of, its snapshot cannot be unloaded, and then a migration uploads a wider policy
  and hears of an error. The backend has no plan to compare the guards with
  (`validate_present_inventory` needs one), so `force_blocking` records the wider policy
  as blocking over the guards of the narrower one. The theorems about the Broker are to
  be read with this assumption.
* In `FilterEngine` an abort succeeds while its session lives; one that fails in a living
  session (`windows_wfp_engine.rs:604-608`) is left out.
* In `StrictBroker` the lease has no clock: it may be lost at any time, and taken again by a late
  renewal. `TcpForwarding` has the clock.
* `Status` and `Diagnostics` are the same to the engine.
* In `DatagramPath` the lease lapses at any time. Addresses, ports and payloads are left
  out: a datagram is its flow, a reply its flow and its number. The policy, its rundown
  and its upload (which revokes the lease first), the canary, the counter of partial
  batches, the sequence numbers of captures and the unload of the driver are left out,
  and so is whether the receive queue is started. Counters of 64 bits do not overflow.
* A flow of the model that has ended may begin again with a new context: it stands for
  the next flow to use the slot.
* In `TcpForwarding` the driver's datagram gate is left out (`DatagramPath`,
  `FilterEngine` have it), the UDP bridge is one thread that runs or has failed, and the
  relay of a connection ends at any time.
* In `UdpBridge` a captured datagram has no number of its own: the window of captured
  sequences and the check of a flow's unchanged metadata, either of which ends the bridge
  (`windows_udp_bridge.rs:141-150`), are left out, and a batch has one record. The
  transport's and the bridge's look at one reply are one step, although each reads the
  clock. A batch is routed, and sent to the Core, which handles the frame, in two steps; an
  error of socket or driver (`BridgeErrs`) ends the bridge before the step has an effect.
* In `StrictAgent` a migration is between policies of the same target groups, so an active
  ingress always names the groups of the policy; descriptors and ports are a generation.
* In `FilterEngine` one filter stands for a key, and a key for its layer and App-ID (the
  code hashes them); conditions and weights are fixed by the layer. A sum of counters that
  exceeds 64 bits, which the code refuses, needs 2^64 mutations and is out of reach.
  Handles that broke are never opened again by the code, so snapshots fail until the
  service restarts; the model shows it, and no property claims otherwise.
* Head-of-line blocking: a worker's queue has one place, and a connection that was queued
  waits for the one being relayed (`windows_tcp_listener_pool.rs:317`). It is modelled
  and no property bounds it.
* A damaged recovery file is an error of `Load`; its parsing is not modelled.

### Not modelled

* `policy.c` and the classify callouts that redirect or block by address: computation on
  bytes without state of its own; the datagram classify is in `DatagramPath`.
* Encodings: IOCTL buffers, datagram batches, SOCKS and UDP frames, canonical JSON; code
  signatures, ACLs and the service manager. Each is a verdict in the module that uses it.
* The Go core beyond its ingress and UDP associations, the macOS extension, the older
  capture driver, the Flutter application, the Android service, runners and build
  scripts: PROJECT.json gives the reason for each.

## 6. Plan

Done: the Broker engine with its proofs, `Enforcement`, the driver's datagram path, the
Agent's three parts, the Broker's host, the forwarding runtime in two modules, and the
filter engine with its abstract store; for each of them the theorems of section 4.

Next:

1. A composition of `StrictAgent` with `BrokerHost`, in place of the abstract queue.
2. `DriverClassify`: the driver's decision for a packet under every combination of policy,
   lease, gate and flow context.
3. `CoreIngress` (Go), the Core's delay tasks, and the macOS flow dispatcher.
