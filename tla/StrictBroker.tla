--------------------------- MODULE StrictBroker ---------------------------
(***************************************************************************)
(* The privileged strict Broker: the command dispatcher, the BrokerEngine, *)
(* the planned WFP backend under it and the WFP control that drives the    *)
(* filter engine and the callout driver.                                   *)
(*                                                                         *)
(* The engine actor executes one command at a time, so at most one job is  *)
(* under way; job.at is the point it has reached.  An action of the job is *)
(* one external effect (a recovery-file write, a WFP transaction, a driver *)
(* IOCTL) or one attesting read, with the assignments to memory that       *)
(* follow it.  Between two actions the process may crash, the host may     *)
(* reboot and the endpoint lease may be lost.  An effect may fail without  *)
(* happening, and an IOCTL or an attested mutation may happen and then be  *)
(* reported as failed; every such failure counts against MaxFaults.        *)
(***************************************************************************)
EXTENDS StrictPolicy

CONSTANTS
  MaxFaults,       \* bound on injected failures, crashes, reboots, lost leases
  HostMayReboot    \* whether the environment may reboot the host

ASSUME BoundAssumption == MaxFaults \in Nat /\ HostMayReboot \in BOOLEAN

VARIABLES
  disk,       \* recovery file: the revision high watermark and the marker
  guards,     \* persistent guard filters in the WFP engine
  dataPlane,  \* redirect and flow filters, owned by the Broker's dynamic session
  driver,     \* callout driver: policy snapshot, endpoint lease, datagram gate
  broker,     \* memory of the Broker process
  job,        \* the command the engine actor executes
  reply,      \* the last response given to the Agent
  faults      \* injected failures so far

vars == <<disk, guards, dataPlane, driver, broker, job, reply, faults>>

Phases == {"Disabled", "Preparing", "Blocking", "Armed", "Recovering", "Disabling"}

(* A marker with policy None stands for "no marker in the file".            *)
Marker == [policy : Policies \union {None}, phase : Phases]
NoMarker == [policy |-> None, phase |-> "Disabled"]

(* generation: some WFP mutation has been counted (filter_generation > 0).  *)
(* health: the forwarding health recorded by the last commit.               *)
(* verified: the policy whose executables are held replacement-locked.      *)
(* plan: PlannedWfpBackend.active_plan.                                     *)
(* runtime: the forwarding runtime (listeners, UDP bridge and the worker    *)
(* that renews the endpoint lease), "deaf" when the bridge has ended and    *)
(* "dead" when the worker has.                                              *)
Runtimes == {"none", "alive", "deaf", "dead"}

BrokerMemory ==
  [marker : Marker, hwm : Nat, phase : Phases, health : BOOLEAN,
   verified : Policies \union {None}, plan : Policies \union {None},
   runtime : Runtimes, generation : BOOLEAN]

FreshMemory ==
  [marker |-> NoMarker, hwm |-> 0, phase |-> "Disabled", health |-> FALSE,
   verified |-> None, plan |-> None, runtime |-> "none", generation |-> FALSE]

(* lease: the endpoint lease is live.  datagram: the datagram gate is open; *)
(* canary: for the bound canary process only.  counted: the driver's policy *)
(* generation is not zero.                                                  *)
DriverState ==
  [policy : Policies \union {None}, lease : BOOLEAN, datagram : BOOLEAN,
   canary : BOOLEAN, counted : BOOLEAN]

BootedDriver ==
  [policy |-> None, lease |-> FALSE, datagram |-> FALSE, canary |-> FALSE,
   counted |-> FALSE]

Ops == {"none", "start", "replay", "prepare", "migrate", "commit", "block", "status",
        "teardown", "health", "shutdown", "disable"}

(* down: no engine.  halted: the engine actor has ended and the service     *)
(* goes on without it.                                                      *)
Steps == {"down", "halted", "idle", "Load", "Preparing", "Upload", "Replace",
          "UnloadUnused", "Attest", "Publish", "Disabling", "Deactivate",
          "DropRedirects", "Removed", "DropGuards", "Unload", "Clear",
          "Measure", "Canary", "CloseGate", "Redirects", "Activate", "AttestActive", "Cleanup",
          "Verify", "Arm", "Rollback", "Failed"}

(* clean: the dispatcher's deactivation of the runtime reported no error.   *)
Job == [op : Ops, at : Steps, policy : Policies \union {None}, clean : BOOLEAN]

(* The engine is there and has taken over what the recovery file says.      *)
Running == job.at \notin {"down", "halted"} /\ job.op # "start"

NoJob(at) == [op |-> "none", at |-> at, policy |-> None, clean |-> TRUE]

(* What a response tells the Agent.  ok is FALSE for an error response.     *)
Reply == [op : Ops, ok : BOOLEAN, policy : Policies \union {None},
          guarded : BOOLEAN, capable : BOOLEAN, healthy : BOOLEAN]

Silent(op) == [op |-> op, ok |-> FALSE, policy |-> None, guarded |-> FALSE,
               capable |-> FALSE, healthy |-> FALSE]

Init ==
  /\ disk = [hwm |-> 0, marker |-> NoMarker]
  /\ guards = {} /\ dataPlane = {}
  /\ driver = BootedDriver
  /\ broker = FreshMemory
  /\ job = NoJob("down")
  /\ reply = Silent("none")
  /\ faults = 0

-----------------------------------------------------------------------------
(* Failures, and moving the job on.                                         *)

Fault == faults < MaxFaults /\ faults' = faults + 1
NoFault == UNCHANGED faults

Goto(at) == job' = [job EXCEPT !.at = at] /\ UNCHANGED reply

(* The step succeeds and the job goes to next, or fails and goes to failed. *)
Try(next, failed) == (NoFault /\ Goto(next)) \/ (Fault /\ Goto(failed))

(* Mutant of Unleased: the lease goes and the gate stays as it is.          *)
ReleasedGateOpen == [driver EXCEPT !.lease = FALSE, !.canary = FALSE]

(* Releasing the endpoint lease closes the gate and forgets the canary.     *)
Unleased == [driver EXCEPT !.lease = FALSE, !.datagram = FALSE, !.canary = FALSE]

(* The policy the engine's marker names.                                    *)
Current == broker.marker.policy

ReadyPhase(p) == IF HasProxyEntries(p) THEN "Blocking" ELSE "Armed"

-----------------------------------------------------------------------------
(* Reading the enforced state back.                                         *)

(* validate_inventory: the enumeration is exactly the plan of p.            *)
ExactInventory(p, redirects, active) ==
  /\ driver.policy = p
  /\ guards = GuardFilters(p)
  /\ dataPlane = IF redirects THEN DataPlaneFilters(p) ELSE {}
  /\ driver.datagram = active

(* Mutants of PresentInventory: the guards of another plan are as good; the *)
(* plan of the marker is demanded even from a process that installed none.  *)
AnyInventory == broker.plan # None => guards # {} \/ driver.policy = None

MarkedInventory ==
  \/ guards = {} /\ dataPlane = {} /\ ~driver.datagram
  \/ /\ disk.marker # NoMarker
     /\ driver.policy = disk.marker.policy
     /\ guards = GuardFilters(disk.marker.policy)

(* validate_present_inventory: with an active plan, a snapshot of the       *)
(* backend is refused unless nothing is installed or all guards of the plan *)
(* are, with all redirects and an open gate or no redirect and a closed one. *)
PresentInventory ==
  broker.plan # None =>
    \/ guards = {} /\ dataPlane = {} /\ ~driver.datagram
    \/ /\ driver.policy = broker.plan
       /\ guards = GuardFilters(broker.plan)
       /\ dataPlane \in {{}, DataPlaneFilters(broker.plan)}
       /\ driver.datagram = (dataPlane # {})

(* validate_snapshot: the backend holds p, guarded, with or without redirects. *)
MatchesMarker(p, redirects) ==
  /\ driver.policy = p
  /\ guards # {}
  /\ (dataPlane # {}) = redirects

(* What a snapshot of the backend with driver d, guards g and data plane dp *)
(* reports.                                                                 *)
Snapshot(d, g, dp) ==
  [policy |-> d.policy, counted |-> d.counted, datagram |-> d.datagram,
   guarded |-> g # {}, redirected |-> dp # {}]

(* status_from_snapshot and validate_broker_proof: the response the Agent   *)
(* gets when the engine's memory is b and the snapshot is snap.  A proof of *)
(* revision zero must be all zero, its filter generation included; a proof  *)
(* of a revision must name a marker; a capability needs the guards.  A      *)
(* proof that fails these checks is replaced by an error.                   *)
StatusReply(op, b, snap) ==
  LET armed == b.phase = "Armed"
      valid == IF b.marker = NoMarker
               THEN /\ snap.policy = None /\ ~snap.guarded
                    /\ ~(b.generation \/ snap.counted)
               ELSE snap.guarded \/ b.plan = None \/ snap.policy = None
  IN IF valid
     THEN [op |-> op, ok |-> TRUE, policy |-> b.marker.policy,
           guarded |-> snap.guarded,
           capable |-> armed /\ b.health /\ snap.redirected /\ snap.datagram,
           healthy |-> armed /\ b.health]
     ELSE Silent(op)

(* The job ends; the dispatcher reports an error if its deactivation of the *)
(* runtime had failed, whatever the transition did.  Recovery at startup    *)
(* and a teardown answer no Agent; an unclean teardown has failed, and a    *)
(* shutdown ends the engine as a failure would.                             *)
Finish(b, snap) ==
  CASE job.op = "start" -> job' = NoJob("idle") /\ UNCHANGED reply
    [] job.op \in {"teardown", "health"} ->
         /\ job' = IF job.clean THEN NoJob("idle") ELSE [job EXCEPT !.at = "Failed"]
         /\ UNCHANGED reply
    [] job.op = "shutdown" -> Goto("Failed")
    [] OTHER ->
         /\ job' = NoJob("idle")
         /\ reply' = IF job.clean THEN StatusReply(job.op, b, snap) ELSE Silent(job.op)

-----------------------------------------------------------------------------
(* Commands reach the dispatcher when the engine actor is idle.             *)

Begin(op, at, p, clean) ==
  job' = [op |-> op, at |-> at, policy |-> p, clean |-> clean] /\ UNCHANGED reply

Reject(op) == job' = NoJob("idle") /\ reply' = Silent(op)

(* Giving up a runtime joins its workers and reports what they ended with:  *)
(* a runtime that had failed is always reported as a failed deactivation.   *)
GivenUp(clean) ==
  /\ broker' = [broker EXCEPT !.runtime = "none"]
  /\ broker.runtime \in {"deaf", "dead"} => ~clean
  /\ IF clean \/ broker.runtime \in {"deaf", "dead"} THEN NoFault ELSE Fault

(* Mutant of DeactivateRuntime: the lease is left to expire by itself.      *)
LeavesLease(clean) ==
  /\ clean \/ broker.runtime # "none"
  /\ UNCHANGED driver
  /\ GivenUp(clean)

(* health_probe.deactivate: the runtime is given up first, then the lease   *)
(* is revoked; if the revocation fails the call waits until the lease has   *)
(* expired and reports the failure.  Either way no lease is left.           *)
DeactivateRuntime(clean) ==
  /\ clean \/ broker.runtime # "none"
  /\ driver' = IF broker.runtime = "none" THEN driver ELSE Unleased
  /\ GivenUp(clean)

(* Dispatch of PreparePolicy up to its first effect.  An exact replay of    *)
(* the current policy is a recovery; another policy while one is active     *)
(* must be a migration of it; without an active policy the revision must be *)
(* new.                                                                     *)
Replays(p) == Current = p /\ broker.marker.phase # "Disabling"

Migrates(p) ==
  /\ Current \notin {None, p}
  /\ broker.marker.phase # "Disabling"
  /\ Revision[p] > broker.hwm
  /\ ValidateIdentityMigration(Current, p)

(* Mutant of IsFresh: the revision used last may be used again.             *)
IsNotOlder(p) == Current = None /\ Revision[p] >= broker.hwm

IsFresh(p) == Current = None /\ Revision[p] > broker.hwm

Prepare(p) ==
  /\ job.at = "idle"
  /\ DeactivateRuntime(TRUE)
  /\ \/ Replays(p) /\ Begin("replay", "Load", p, TRUE)
     \/ Migrates(p) /\ Begin("migrate", "Deactivate", p, TRUE)
     \/ IsFresh(p) /\ Begin("prepare", "Preparing", p, TRUE)
     \/ ~(Replays(p) \/ Migrates(p) \/ IsFresh(p)) /\ Reject("prepare")
  /\ UNCHANGED <<disk, guards, dataPlane>>

(* Deactivating the runtime fails, and the policy is not looked at.         *)
PrepareUndeactivated ==
  /\ job.at = "idle"
  /\ DeactivateRuntime(FALSE)
  /\ Reject("prepare")
  /\ UNCHANGED <<disk, guards, dataPlane>>

(* Identity verification refuses the executables of a new policy.           *)
PrepareUnverified(p) ==
  /\ job.at = "idle"
  /\ Migrates(p) \/ IsFresh(p)
  /\ broker.runtime \in {"none", "alive"}
  /\ Fault
  /\ Reject("prepare")
  /\ driver' = IF broker.runtime = "none" THEN driver ELSE Unleased
  /\ broker' = [broker EXCEPT !.runtime = "none"]
  /\ UNCHANGED <<disk, guards, dataPlane>>

(* validate_forwarding_ingress refuses before anything is touched.          *)
Commit(p) ==
  /\ job.at = "idle"
  /\ NoFault
  /\ IF Current = p /\ broker.phase = "Blocking"
     THEN Begin("commit", "Measure", p, TRUE)
     ELSE Reject("commit")
  /\ UNCHANGED <<disk, guards, dataPlane, driver, broker>>

(* ForceBlocking and DisablePolicy deactivate the runtime and then run the  *)
(* transition whether or not the deactivation failed.                       *)
ForceBlocking(p) ==
  /\ job.at = "idle"
  /\ \E clean \in BOOLEAN :
        /\ DeactivateRuntime(clean)
        /\ IF Current # None /\ Revision[Current] = Revision[p]
           THEN Begin("block", "Deactivate", Current, clean)
           ELSE Reject("block")
  /\ UNCHANGED <<disk, guards, dataPlane>>

Disable(p) ==
  /\ job.at = "idle"
  /\ \E clean \in BOOLEAN :
        /\ DeactivateRuntime(clean)
        /\ IF Current # None /\ Revision[Current] = Revision[p]
           THEN Begin("disable", "Disabling", Current, clean)
           ELSE Reject("disable")
  /\ UNCHANGED <<disk, guards, dataPlane>>

(* Status reads the backend and answers; the read may fail.                 *)
Status ==
  /\ job.at = "idle"
  /\ \/ /\ NoFault
        /\ reply' = IF PresentInventory
                    THEN StatusReply("status", broker,
                                     Snapshot(driver, guards, dataPlane))
                    ELSE Silent("status")
     \/ Fault /\ reply' = Silent("status")
  /\ UNCHANGED <<disk, guards, dataPlane, driver, broker, job>>

(* force_fail_closed: the actor's own reaction to an unhealthy runtime, the *)
(* cleanup of a session that ended and the shutdown of the service.  The    *)
(* lease is revoked directly, the runtime deactivated, and the active       *)
(* policy forced back to blocking.                                          *)
Teardown(op) ==
  /\ job.at = "idle"
  /\ driver' = Unleased
  /\ \E clean \in BOOLEAN :
        /\ GivenUp(clean)
        /\ IF Current # None THEN Begin(op, "Deactivate", Current, clean)
           ELSE IF PresentInventory /\ clean /\ op # "shutdown"
                THEN UNCHANGED <<job, reply>>
                ELSE Begin(op, "Failed", None, clean)
  /\ UNCHANGED <<disk, guards, dataPlane>>

-----------------------------------------------------------------------------
(* Writing the recovery file.  persist replaces the file atomically, never  *)
(* lowers the high watermark and refuses an older revision.                 *)

Persist(p, phase) ==
  /\ Revision[p] >= disk.hwm
  /\ disk' = [hwm |-> Revision[p], marker |-> [policy |-> p, phase |-> phase]]

(* prepare and migrate: the Preparing marker is durable before the first    *)
(* filter is touched.                                                       *)
PersistPreparing ==
  /\ job.at = "Preparing"
  /\ NoFault
  /\ Persist(job.policy, "Preparing")
  /\ broker' = [broker EXCEPT !.marker = [policy |-> job.policy, phase |-> "Preparing"],
                              !.hwm = Revision[job.policy],
                              !.phase = "Preparing",
                              !.health = FALSE,
                              !.verified = job.policy]
  /\ Goto("Upload")
  /\ UNCHANGED <<guards, dataPlane, driver>>

-----------------------------------------------------------------------------
(* install_guards.                                                          *)

(* Uploading a policy snapshot releases the lease and replaces the policy.  *)
Upload ==
  /\ job.at = "Upload"
  /\ driver' = [Unleased EXCEPT !.policy = Current, !.counted = TRUE]
  /\ Try("Replace", "Failed")
  /\ UNCHANGED <<disk, guards, dataPlane, broker>>

(* One WFP transaction deletes all owned guards and adds the plan's.        *)
Replace ==
  /\ job.at = "Replace"
  /\ NoFault
  /\ guards' = GuardFilters(Current)
  /\ broker' = [broker EXCEPT !.plan = Current, !.generation = TRUE]
  /\ Goto("Attest")
  /\ UNCHANGED <<disk, dataPlane, driver>>

(* The guard transaction failed: the unused snapshot is unloaded and the    *)
(* command fails.                                                           *)
UnloadUnused ==
  /\ job.at = "UnloadUnused"
  /\ driver' = [Unleased EXCEPT !.policy = None, !.counted = TRUE]
  /\ Try("Failed", "Failed")
  /\ UNCHANGED <<disk, guards, dataPlane, broker>>

Attest ==
  /\ job.at = "Attest"
  /\ NoFault
  /\ Goto(IF ExactInventory(Current, FALSE, FALSE) THEN "Publish" ELSE "Failed")
  /\ UNCHANGED <<disk, guards, dataPlane, driver, broker>>

(* The new phase is recorded.  prepare assigns it to memory before it       *)
(* writes the file, migrate and recover after.                              *)
Publish ==
  /\ job.at = "Publish"
  /\ LET phase == ReadyPhase(Current)
         ready == [broker EXCEPT !.marker.phase = phase, !.phase = phase]
     IN \/ /\ NoFault
           /\ Persist(Current, phase)
           /\ broker' = ready
           /\ Finish(ready, Snapshot(driver, guards, dataPlane))
        \/ /\ Fault
           /\ broker' = IF job.op = "prepare" THEN ready ELSE broker
           /\ Goto("Failed")
           /\ UNCHANGED disk
  /\ UNCHANGED <<guards, dataPlane, driver>>

-----------------------------------------------------------------------------
(* recover: at startup, and for an exact replay of the active policy.       *)

Orphaned == guards # {} \/ dataPlane # {} \/ driver.policy # None

Load ==
  /\ job.at = "Load"
  /\ LET loaded == [broker EXCEPT !.marker = disk.marker, !.hwm = disk.hwm,
                                  !.phase = "Recovering", !.health = FALSE]
         off == [broker EXCEPT !.marker = NoMarker, !.hwm = disk.hwm,
                               !.phase = "Disabled"]
     IN \/ /\ ~PresentInventory
           /\ NoFault /\ broker' = [broker EXCEPT !.hwm = disk.hwm] /\ Goto("Failed")
        \/ /\ PresentInventory /\ disk.marker = NoMarker
           /\ NoFault
           /\ IF Orphaned THEN broker' = [broker EXCEPT !.hwm = disk.hwm] /\ Goto("Failed")
              ELSE broker' = off /\ Finish(off, Snapshot(driver, guards, dataPlane))
        \/ /\ PresentInventory /\ disk.marker.phase = "Disabling"
           /\ NoFault /\ broker' = loaded /\ Goto("Deactivate")
        \/ /\ PresentInventory /\ disk.marker # NoMarker
           /\ disk.marker.phase # "Disabling"
           /\ \/ /\ NoFault
                 /\ broker' = [loaded EXCEPT !.verified = disk.marker.policy]
                 /\ Goto(IF dataPlane # {} THEN "Deactivate" ELSE "Upload")
              \/ Fault /\ broker' = loaded /\ Goto("Failed")
  /\ UNCHANGED <<disk, guards, dataPlane, driver>>

-----------------------------------------------------------------------------
(* remove_data_plane: the gate is closed before the filters go.             *)

Deactivate ==
  /\ job.at = "Deactivate"
  /\ driver' = [driver EXCEPT !.datagram = FALSE]
  /\ \/ NoFault /\ broker' = [broker EXCEPT !.generation = TRUE] /\ Goto("DropRedirects")
     \/ Fault /\ Goto("Failed") /\ UNCHANGED broker
  /\ UNCHANGED <<disk, guards, dataPlane>>

DropRedirects ==
  /\ job.at = "DropRedirects"
  /\ dataPlane' = {}
  /\ Try("Removed", "Failed")
  /\ UNCHANGED <<disk, guards, driver, broker>>

(* force_blocking, on its own and as the first part of a migration: the     *)
(* phase is assigned before the file is written, the marker after.          *)
Blocked ==
  /\ job.at = "Removed"
  /\ job.op \in {"block", "teardown", "health", "shutdown", "migrate"}
  /\ LET phase == ReadyPhase(Current)
         weakened == [broker EXCEPT !.phase = phase, !.health = FALSE]
         blocked == [weakened EXCEPT !.marker.phase = phase]
         sound == PresentInventory /\ MatchesMarker(Current, FALSE)
     IN \/ ~sound /\ NoFault /\ Goto("Failed") /\ UNCHANGED <<disk, broker>>
        \/ /\ sound
           /\ NoFault
           /\ Persist(Current, phase)
           /\ broker' = blocked
           /\ IF job.op = "migrate" THEN Goto("Preparing")
              ELSE Finish(blocked, Snapshot(driver, guards, dataPlane))
        \/ sound /\ Fault /\ broker' = weakened /\ Goto("Failed") /\ UNCHANGED disk
  /\ UNCHANGED <<guards, dataPlane, driver>>

(* rollback_redirects records Blocking again; the commit still fails.       *)
RolledBack ==
  /\ job.at = "Removed"
  /\ job.op = "commit"
  /\ NoFault
  /\ Goto("Failed")
  /\ IF PresentInventory /\ MatchesMarker(Current, FALSE)
     THEN /\ Persist(Current, "Blocking")
          /\ broker' = [broker EXCEPT !.marker.phase = "Blocking"]
     ELSE UNCHANGED <<disk, broker>>
  /\ UNCHANGED <<guards, dataPlane, driver>>

(* Mutant of AfterRedirects: guards that are already gone must still match  *)
(* the marker.                                                              *)
InsistsOnGuards ==
  IF ~PresentInventory THEN "Failed"
  ELSE IF broker.marker.phase # "Disabling" THEN "Upload"
  ELSE IF MatchesMarker(Current, FALSE) THEN "DropGuards"
  ELSE "Failed"

(* complete_disable, in a disable command and in a recovery that finds a    *)
(* Disabling marker: guards are removed only if they match the marker.      *)
AfterRedirects ==
  IF ~PresentInventory THEN "Failed"
  ELSE IF broker.marker.phase # "Disabling" THEN "Upload"
  ELSE IF guards = {} THEN "Clear"
  ELSE IF MatchesMarker(Current, FALSE) THEN "DropGuards"
  ELSE "Failed"

Disarmed ==
  /\ job.at = "Removed"
  /\ job.op \in {"disable", "start", "replay"}
  /\ NoFault
  /\ Goto(AfterRedirects)
  /\ UNCHANGED <<disk, guards, dataPlane, driver, broker>>

PersistDisabling ==
  /\ job.at = "Disabling"
  /\ NoFault
  /\ Persist(Current, "Disabling")
  /\ broker' = [broker EXCEPT !.marker.phase = "Disabling",
                              !.phase = "Recovering", !.health = FALSE]
  /\ Goto("Deactivate")
  /\ UNCHANGED <<guards, dataPlane, driver>>

DropGuards ==
  /\ job.at = "DropGuards"
  /\ guards' = {}
  /\ Try("Unload", "Failed")
  /\ UNCHANGED <<disk, dataPlane, driver, broker>>

Unload ==
  /\ job.at = "Unload"
  /\ driver' = [Unleased EXCEPT !.policy = None, !.counted = TRUE]
  /\ \/ NoFault /\ broker' = [broker EXCEPT !.plan = None] /\ Goto("Clear")
     \/ Fault /\ Goto("Failed") /\ UNCHANGED broker
  /\ UNCHANGED <<disk, guards, dataPlane>>

(* clear_marker keeps the high watermark; memory forgets the policy and     *)
(* gives its executables free.                                              *)
Clear ==
  /\ job.at = "Clear"
  /\ NoFault
  /\ disk' = [disk EXCEPT !.marker = NoMarker]
  /\ LET off == [broker EXCEPT !.marker = NoMarker, !.verified = None,
                               !.phase = "Disabled", !.health = FALSE]
     IN broker' = off /\ Finish(off, Snapshot(driver, guards, dataPlane))
  /\ UNCHANGED <<guards, dataPlane, driver>>

-----------------------------------------------------------------------------
(* commit: the forwarding runtime is measured, the redirects installed, the *)
(* gate opened, and only then is the policy armed.                          *)

(* measure binds the endpoints and takes the endpoint lease, which the      *)
(* driver refuses for a policy it does not hold.                            *)
Measure ==
  /\ job.at = "Measure"
  /\ NoFault
  /\ IF driver.policy = Current
     THEN /\ driver' = [Unleased EXCEPT !.lease = TRUE]
          /\ broker' = [broker EXCEPT !.runtime = "alive"]
          /\ Goto("Canary")
     ELSE Goto("Failed") /\ UNCHANGED <<driver, broker>>
  /\ UNCHANGED <<disk, guards, dataPlane>>

(* The gate is opened for a canary process, bound to the live lease.        *)
Canary ==
  /\ job.at = "Canary"
  /\ NoFault
  /\ IF driver.lease
     THEN driver' = [driver EXCEPT !.canary = TRUE, !.datagram = TRUE] /\ Goto("CloseGate")
     ELSE UNCHANGED driver /\ Goto("Failed")
  /\ UNCHANGED <<disk, guards, dataPlane, broker>>

(* It is closed again before the canary is forgotten, and the runtime must  *)
(* still be healthy.  A lease lost in the meantime may be noticed here or   *)
(* only later.                                                              *)
CloseGate ==
  /\ job.at = "CloseGate"
  /\ driver' = [driver EXCEPT !.datagram = FALSE, !.canary = FALSE]
  /\ \/ broker.runtime = "alive" /\ Try("Redirects", "Failed")
     \/ ~(driver.lease /\ broker.runtime = "alive") /\ NoFault /\ Goto("Failed")
  /\ UNCHANGED <<disk, guards, dataPlane, broker>>

Redirects ==
  /\ job.at = "Redirects"
  /\ IF ExactInventory(Current, FALSE, FALSE) /\ broker.verified # None
     THEN /\ dataPlane' = DataPlaneFilters(Current)
          /\ broker' = [broker EXCEPT !.plan = Current, !.generation = TRUE]
          /\ Try("Activate", "Rollback")
     ELSE /\ NoFault
          /\ Goto(IF broker.verified = None THEN "Failed" ELSE "Rollback")
          /\ UNCHANGED <<dataPlane, broker>>
  /\ UNCHANGED <<disk, guards, driver>>

(* The gate opens only for the process that owns the live lease.            *)
Activate ==
  /\ job.at = "Activate"
  /\ \/ driver.lease /\ driver' = [driver EXCEPT !.datagram = TRUE]
        /\ Try("AttestActive", "Cleanup")
     \/ ~driver.lease /\ NoFault /\ Goto("Cleanup") /\ UNCHANGED driver
  /\ UNCHANGED <<disk, guards, dataPlane, broker>>

AttestActive ==
  /\ job.at = "AttestActive"
  /\ NoFault
  /\ Goto(IF ExactInventory(Current, TRUE, TRUE) THEN "Verify" ELSE "Cleanup")
  /\ UNCHANGED <<disk, guards, dataPlane, driver, broker>>

(* cleanup_failed_datagram_activation: close the gate, drop the filters; it *)
(* stops at the first failure and the rollback follows in any case.         *)
Cleanup ==
  /\ job.at = "Cleanup"
  /\ Goto("Rollback")
  /\ \/ NoFault /\ driver' = [driver EXCEPT !.datagram = FALSE] /\ dataPlane' = {}
     \/ Fault /\ driver' = [driver EXCEPT !.datagram = FALSE] /\ UNCHANGED dataPlane
     \/ Fault /\ UNCHANGED <<driver, dataPlane>>
  /\ UNCHANGED <<disk, guards, broker>>

(* A snapshot that is refused ends the commit without a rollback.           *)
Verify ==
  /\ job.at = "Verify"
  /\ NoFault
  /\ Goto(IF ~PresentInventory THEN "Failed"
          ELSE IF MatchesMarker(Current, TRUE) /\ driver.lease THEN "Arm"
          ELSE "Rollback")
  /\ UNCHANGED <<disk, guards, dataPlane, driver, broker>>

(* The response carries the snapshot that Verify took.                      *)
Arm ==
  /\ job.at = "Arm"
  /\ NoFault
  /\ Persist(Current, "Armed")
  /\ LET armed == [broker EXCEPT !.marker.phase = "Armed", !.phase = "Armed",
                                 !.health = TRUE]
         verified == [Snapshot(driver, guards, dataPlane) EXCEPT !.datagram = TRUE]
     IN broker' = armed /\ Finish(armed, verified)
  /\ UNCHANGED <<guards, dataPlane, driver>>

Rollback ==
  /\ job.at = "Rollback"
  /\ NoFault
  /\ broker' = [broker EXCEPT !.phase = "Blocking", !.health = FALSE]
  /\ Goto("Deactivate")
  /\ UNCHANGED <<disk, guards, dataPlane, driver>>

-----------------------------------------------------------------------------
(* Errors, crashes and the environment.                                     *)

(* The engine is gone: its memory, its dynamic filters and its lease with   *)
(* it.  Guards, recovery file and the driver's policy stay.                 *)
Stopped(at) ==
  /\ job' = NoJob(at)
  /\ broker' = FreshMemory
  /\ dataPlane' = {}
  /\ UNCHANGED <<disk, guards, reply>>

(* The command returns an error.  A failed commit deactivates the runtime.  *)
(* A failed recovery at startup stops the service, and so does a shutdown.  *)
(* A cleanup after bad health that fails ends the actor and leaves the      *)
(* service without it.  The failed cleanup of a session is reported to the  *)
(* activation loop, and the actor goes on until that loop ends or tries     *)
(* again.                                                                   *)
Fails ==
  /\ job.at = "Failed"
  /\ NoFault
  /\ \/ job.op \in {"start", "shutdown"} /\ Stopped("down") /\ driver' = Unleased
     \/ job.op = "health" /\ Stopped("halted") /\ driver' = Unleased
     \/ /\ job.op = "teardown"
        /\ job' = NoJob("idle")
        /\ UNCHANGED <<disk, guards, dataPlane, driver, broker, reply>>
     \/ /\ job.op = "commit"
        /\ driver' = Unleased
        /\ broker' = [broker EXCEPT !.runtime = "none"]
        /\ Reject(job.op)
        /\ UNCHANGED <<disk, guards, dataPlane>>
     \/ /\ job.op \notin {"start", "teardown", "health", "shutdown", "commit"}
        /\ Reject(job.op)
        /\ UNCHANGED <<disk, guards, dataPlane, driver, broker>>

(* A step fails without any effect and the error is handled where it is     *)
(* raised: the guard transaction unloads its snapshot, the redirect         *)
(* transaction and the armed marker roll back, the gate is cleaned up, and  *)
(* every other error ends the command.                                      *)
StepFails ==
  /\ job.at \notin {"down", "halted", "idle", "Failed", "Rollback", "Publish", "Cleanup"}
  /\ Fault
  /\ Goto(CASE job.at = "Replace" -> "UnloadUnused"
            [] job.at \in {"Redirects", "Arm"} -> "Rollback"
            [] job.at \in {"Activate", "AttestActive"} -> "Cleanup"
            [] OTHER -> "Failed")
  /\ UNCHANGED <<disk, guards, dataPlane, driver, broker>>

Start ==
  /\ job.at = "down"
  /\ NoFault
  /\ job' = [op |-> "start", at |-> "Load", policy |-> None, clean |-> TRUE]
  /\ UNCHANGED <<disk, guards, dataPlane, driver, broker, reply>>

(* A service without its actor answers every request with an error, until   *)
(* the end of a session makes it ask the actor for a cleanup and end.       *)
Unavailable ==
  /\ job.at = "halted"
  /\ \E op \in {"prepare", "commit", "block", "disable", "status"} : reply' = Silent(op)
  /\ UNCHANGED <<disk, guards, dataPlane, driver, broker, job, faults>>

ServiceEnds ==
  /\ job.at = "halted"
  /\ job' = NoJob("down")
  /\ UNCHANGED <<disk, guards, dataPlane, driver, broker, reply, faults>>

Crash == job.at # "down" /\ Fault /\ Stopped("down") /\ driver' = Unleased

(* A reboot also loses the driver's policy and its generation counter.      *)
HostReboot ==
  /\ HostMayReboot
  /\ Fault
  /\ Stopped("down")
  /\ driver' = BootedDriver

(* The lease expires before it is renewed.                                  *)
LeaseExpires ==
  /\ driver.lease
  /\ Fault
  /\ driver' = Unleased
  /\ UNCHANGED <<disk, guards, dataPlane, broker, job, reply>>

(* A renewal that comes late takes a new lease, and leaves the gate closed. *)
(* The worker renews the lease whether or not the bridge is still there.    *)
RenewLate ==
  /\ broker.runtime \in {"alive", "deaf"} /\ ~driver.lease
  /\ NoFault
  /\ driver.policy = Current
  /\ driver' = [driver EXCEPT !.lease = TRUE]
  /\ UNCHANGED <<disk, guards, dataPlane, broker, job, reply>>

(* A renewal fails: the worker revokes the lease and ends.                  *)
RenewalFails ==
  /\ broker.runtime \in {"alive", "deaf"}
  /\ Fault
  /\ driver' = Unleased
  /\ broker' = [broker EXCEPT !.runtime = "dead"]
  /\ UNCHANGED <<disk, guards, dataPlane, job, reply>>

(* The UDP bridge ends.  That takes no failure while the gate is closed: a  *)
(* lost lease, and a renewal that finds the gate closed, cancel the receive *)
(* the bridge has pending in the driver.                                    *)
BridgeFails ==
  /\ broker.runtime = "alive"
  /\ IF driver.datagram THEN Fault ELSE NoFault
  /\ broker' = [broker EXCEPT !.runtime = "deaf"]
  /\ UNCHANGED <<disk, guards, dataPlane, driver, job, reply>>

-----------------------------------------------------------------------------

Request ==
  \/ \E p \in Policies :
        Prepare(p) \/ PrepareUnverified(p) \/ Commit(p) \/ ForceBlocking(p) \/ Disable(p)
  \/ PrepareUndeactivated
  \/ Status

Unhealthy == broker.runtime \in {"deaf", "dead"}

(* Mutant of HealthTeardown: only a runtime whose gate is open is watched.   *)
WatchesOpenGates == Unhealthy /\ driver.datagram /\ Teardown("health")

(* verify_health finds that the bridge or the renewal worker has ended.     *)
HealthTeardown == Unhealthy /\ Teardown("health")

EngineStep ==
  \/ PersistPreparing \/ Upload \/ Replace \/ UnloadUnused \/ Attest \/ Publish
  \/ Load
  \/ Deactivate \/ DropRedirects \/ Blocked \/ RolledBack \/ Disarmed
  \/ PersistDisabling \/ DropGuards \/ Unload \/ Clear
  \/ Measure \/ Canary \/ CloseGate \/ Redirects \/ Activate \/ AttestActive \/ Cleanup \/ Verify
  \/ Arm \/ Rollback
  \/ Fails \/ StepFails

Halted == Unavailable \/ ServiceEnds

Environment ==
  Crash \/ HostReboot \/ LeaseExpires \/ RenewLate \/ RenewalFails \/ BridgeFails

Next ==
  \/ Request \/ Teardown("teardown") \/ Teardown("shutdown") \/ HealthTeardown
  \/ EngineStep \/ Start \/ Halted \/ Environment

(* The engine actor is a thread that runs its command to the end and then   *)
(* checks the runtime's health before it takes the next one; the service    *)
(* manager restarts a service that stopped.  Nothing is assumed of clients, *)
(* of the environment, or of a service that has lost its actor.             *)
Fairness == WF_vars(EngineStep) /\ WF_vars(HealthTeardown) /\ WF_vars(Start)

Spec == Init /\ [][Next]_vars
FairSpec == Spec /\ Fairness

-----------------------------------------------------------------------------
(* Properties.                                                              *)

(* The variables stay within the shapes declared above.                     *)
TypeOK ==
  /\ disk \in [hwm : Nat, marker : Marker]
  /\ guards \subseteq FilterKeys
  /\ dataPlane \subseteq Apps
  /\ driver \in DriverState
  /\ broker \in BrokerMemory
  /\ job \in Job
  /\ reply \in Reply
  /\ faults \in Nat

Enforced == {"Blocking", "Armed"}

(* Fail closed.  Once the recovery file says that a policy is enforced, its *)
(* complete set of guard filters is installed, whatever crashed, rebooted   *)
(* or failed since (lib.rs prepare, commit, force_blocking, recover).       *)
FailClosed ==
  disk.marker.phase \in Enforced => guards = GuardFilters(disk.marker.policy)

(* No filter without a reason on disk.  Guards are only ever installed for  *)
(* a policy the recovery file names, and the marker is cleared last, so a   *)
(* restart always finds the policy whose filters block the user's traffic   *)
(* (lib.rs complete_disable; recover bails on orphans).                     *)
GuardsAreAccountedFor ==
  guards # {} => /\ disk.marker # NoMarker
                 /\ guards \subseteq GuardFilters(disk.marker.policy)

(* Redirect filters exist only above the complete guards of the same policy *)
(* (remove_guards, remove_data_plane and migrate_identity order this), and  *)
(* the datagram gate is open only under a live lease, and for anybody but   *)
(* the canary only over redirects.                                          *)
RedirectsUnderGuards ==
  /\ dataPlane # {} =>
        /\ disk.marker # NoMarker
        /\ guards = GuardFilters(disk.marker.policy)
        /\ dataPlane = DataPlaneFilters(disk.marker.policy)
  /\ driver.datagram =>
        /\ driver.lease /\ driver.policy = disk.marker.policy
        /\ dataPlane # {} \/ driver.canary

(* Outside recovery at startup, memory and the recovery file name the same  *)
(* policy, agree on a pending disable and on the high watermark, although   *)
(* either write may fail and prepare assigns memory before it persists.     *)
MemoryFollowsDisk ==
  Running =>
    /\ broker.marker.policy = disk.marker.policy
    /\ broker.hwm = disk.hwm
    /\ (broker.marker.phase = "Disabling") = (disk.marker.phase = "Disabling")

(* While a started engine has guards installed it keeps the executables of  *)
(* a policy that covers all of them replacement-locked: the verification    *)
(* lease outlives failed disables, failed migrations and rollbacks.         *)
ExecutablesLocked ==
  Running /\ guards # {} =>
    broker.verified # None /\ guards \subseteq GuardFilters(broker.verified)

(* What is installed, remembered and locked follows the recovery file, at   *)
(* every step of every command and of every recovery: the five statements   *)
(* above.                                                                   *)
FollowsTheFile ==
  /\ FailClosed /\ GuardsAreAccountedFor /\ RedirectsUnderGuards
  /\ MemoryFollowsDisk /\ ExecutablesLocked

(* A status read never claims forwarding that is not there: the proof that  *)
(* makes an Agent report Armed is given only for an exact inventory with    *)
(* the gate open and the lease live, and an all-zero proof only when no     *)
(* filter and no driver policy is left.                                     *)
HonestStatus ==
  job.at = "idle" /\ PresentInventory =>
    LET answer == StatusReply("status", broker, Snapshot(driver, guards, dataPlane))
    IN answer.ok =>
         /\ answer.capable => /\ driver.lease /\ ~driver.canary
                             /\ ExactInventory(answer.policy, TRUE, TRUE)
         /\ answer.policy = None => guards = {} /\ driver.policy = None

(* A guard is taken away only under a durable Disabling marker: no          *)
(* migration, rollback, recovery, crash or failed transaction ever          *)
(* uncovers an application that was covered (lib.rs:573-575).               *)
GuardsLeaveOnlyByDisable ==
  [][guards \subseteq guards' \/ disk.marker.phase = "Disabling"]_vars

(* The high watermark never falls and no policy enters the recovery file    *)
(* under a revision that was used before, across restarts and disables.     *)
RevisionsAdvance ==
  [][/\ disk'.hwm >= disk.hwm
     /\ disk'.marker.policy \notin {None, disk.marker.policy}
          => Revision[disk'.marker.policy] > disk.hwm]_vars

(* A stopped engine whose recovery file names an enforced or half-prepared  *)
(* policy comes back with that policy guarded and serves again: no crash,   *)
(* reboot or failed step leaves a state that recovery cannot repair.        *)
ProtectedPolicyRecovers ==
  (job.at = "down" /\ disk.marker.phase \in {"Preparing", "Blocking", "Armed"}) ~>
  (/\ job.at = "idle"
   /\ disk.marker # NoMarker
   /\ guards = GuardFilters(disk.marker.policy))

(* A disable that a crash interrupted is finished by the restart, as long   *)
(* as the driver still holds the policy whose guards are to be removed.     *)
InterruptedDisableFinishes ==
  (/\ job.at = "down"
   /\ disk.marker.phase = "Disabling"
   /\ (guards = {} \/ driver.policy = disk.marker.policy)) ~>
  (disk.marker = NoMarker)

(* A forwarding runtime that lost a worker is given up and the gate closed  *)
(* without anybody asking (windows_host.rs run_engine_actor).               *)
DeadRuntimeIsGivenUp ==
  Unhealthy ~> (broker.runtime = "none" /\ ~driver.datagram)

-----------------------------------------------------------------------------
(* What the repository says of the program and the program does not do.     *)

(* strict_flow.rs, test disable_removes_broker_policy_before_core_ingress:  *)
(* a disable that the Broker completed is answered with a proof.            *)
DisableIsAcknowledged ==
  [][Clear /\ job.op = "disable" /\ job.clean => reply'.ok]_vars

(* "Exact replay is recovery" (lib.rs:525): without any failure the replay  *)
(* of the active policy recovers it.                                        *)
ReplayRecovers ==
  job.op = "replay" /\ job.at = "Failed" => faults > 0

(* The plan's last removal step unloads the driver's snapshot (wfp_plan.rs  *)
(* remove_steps): once the marker is cleared, nothing is left of the policy *)
(* and a later start finds no orphaned state.                               *)
NothingOrphaned ==
  job.at = "idle" /\ disk.marker = NoMarker => ~Orphaned

(* "Keep the single-owner actor available for status, disable and a fresh   *)
(* authenticated commit" (windows_host.rs:598): a runtime that fails, and   *)
(* nothing else going wrong, does not end the actor.                        *)
EngineOutlivesRuntime == job.at = "halted" => faults > 1

(* "Restart reads the recovery marker, ... and starts" (design document,    *)
(* filter lifetime, item 4): a restart that finds a marker comes up.        *)
RestartStarts ==
  (job.at = "down" /\ disk.marker # NoMarker) ~> (job.at = "idle")
=============================================================================
