------------------------ MODULE StrictBrokerProofs ------------------------
(***************************************************************************)
(* What is proved of StrictBroker for every value of its constants: the    *)
(* inductive invariant IInv, which every action keeps; the invariants and  *)
(* action properties, each from it; and that every step of the Broker is a *)
(* step of Enforcement or a stutter.                                       *)
(***************************************************************************)
EXTENDS StrictBroker, StrictBrokerRefinement, TLAPS

Policy == Policies \union {None}

SnapshotType ==
  [policy : Policy, counted : BOOLEAN, datagram : BOOLEAN, guarded : BOOLEAN,
   redirected : BOOLEAN]

-----------------------------------------------------------------------------
(* What a policy compiles to.                                               *)

(* Guards and redirects are filter keys; redirects are never the gate's.    *)
LEMMA FilterTypes ==
  ASSUME NEW p \in Policies
  PROVE  GuardFilters(p) \subseteq FilterKeys /\ DataPlaneFilters(p) \subseteq Apps
BY PolicyAssumption
   DEF GuardFilters, DataPlaneFilters, Protected, Proxied, FamilyOf, FilterKeys,
       Actions, Entry

(* A policy has guards, and one with proxied entries has redirects.         *)
LEMMA FiltersExist ==
  ASSUME NEW p \in Policies
  PROVE  GuardFilters(p) # {} /\ (HasProxyEntries(p) => DataPlaneFilters(p) # {})
<1>1. \A i \in DOMAIN Entries[p] :
        Entries[p][i].action \in Actions /\ Entries[p][i].family # {}
  BY PolicyAssumption DEF Entry
<1>2. DOMAIN Entries[p] # {}
  BY PolicyAssumption
<1>3. Protected(p) # {}
  BY <1>1, <1>2 DEF Protected, FamilyOf
<1>4. HasProxyEntries(p) => Proxied(p) # {}
  BY <1>1 DEF HasProxyEntries, Proxied, FamilyOf
<1>5. QED
  BY <1>3, <1>4 DEF GuardFilters, DataPlaneFilters

(* A migration keeps every guard of the policy it replaces.                 *)
LEMMA MigrationKeepsGuards ==
  ASSUME NEW old \in Policies, NEW new \in Policies,
         ValidateIdentityMigration(old, new)
  PROVE  GuardFilters(old) \subseteq GuardFilters(new)
<1>1. Protected(old) \subseteq Protected(new)
  BY DEF ValidateIdentityMigration, Protected, FamilyOf
<1>2. HasProxyEntries(old) => HasProxyEntries(new)
  BY DEF ValidateIdentityMigration, HasProxyEntries
<1>3. QED
  BY <1>1, <1>2 DEF GuardFilters

(* Snapshots and the replies made from them have their shapes.              *)
LEMMA SnapshotTyped ==
  ASSUME NEW d \in DriverState, NEW g, NEW dp
  PROVE  Snapshot(d, g, dp) \in SnapshotType
BY DEF DriverState, Snapshot, SnapshotType, Policy

(* A reply carries the marker's policy and what the snapshot saw.           *)
LEMMA ReplyTyped ==
  ASSUME NEW op \in Ops, NEW b \in BrokerMemory, NEW s \in SnapshotType
  PROVE  StatusReply(op, b, s) \in Reply /\ Silent(op) \in Reply
<1>1. Silent(op) \in Reply
  BY DEF Silent, Reply
<1>2. b.marker.policy \in Policy /\ s.guarded \in BOOLEAN
  BY DEF BrokerMemory, Marker, SnapshotType, Policy
<1>3. [op |-> op, ok |-> TRUE, policy |-> b.marker.policy, guarded |-> s.guarded,
       capable |-> b.phase = "Armed" /\ b.health /\ s.redirected /\ s.datagram,
       healthy |-> b.phase = "Armed" /\ b.health] \in Reply
  BY <1>2 DEF Reply, Policy
<1>4. QED
  BY <1>1, <1>3 DEF StatusReply

-----------------------------------------------------------------------------
(* The inductive invariant.  The safety properties are not inductive on     *)
(* their own: what a step does rests on what the steps before it checked.   *)
(* Placed collects that, for every place a job can be at.                   *)

(* At these steps no policy is needed.                                      *)
Absent == {"down", "halted"}
Policyless == Absent \union {"idle", "Load", "Preparing", "Failed"}
CommitSteps == {"Measure", "Canary", "CloseGate", "Redirects", "Activate",
                "AttestActive", "Cleanup", "Verify", "Arm", "Rollback"}
InstallSteps == {"Upload", "Replace", "UnloadUnused", "Attest", "Publish"}
RemoveSteps == {"Deactivate", "DropRedirects", "Removed"}

WellFormed(m) == m = NoMarker \/ m.policy \in Policies

(* A job writes the policy the marker names, so one under way must have it. *)
TypeInv ==
  /\ TypeOK
  /\ WellFormed(disk.marker) /\ WellFormed(broker.marker)
  /\ job.at \notin Policyless => Current \in Policies
  /\ job.op \in {"prepare", "migrate"} => job.policy \in Policies

(* Which commands pass through which steps.                                 *)
Routed ==
  /\ job.at \in Absent \union {"idle"} <=> job.op = "none"
  /\ job.at = "Load" => job.op \in {"start", "replay"}
  /\ job.at = "Preparing" => job.op \in {"prepare", "migrate"}
  /\ job.at = "Disabling" => job.op = "disable"
  /\ job.at \in {"DropGuards", "Unload", "Clear"} =>
        job.op \in {"disable", "start", "replay"}
  /\ job.at \in CommitSteps => job.op = "commit"
  /\ (job.op = "migrate" /\ job.at \in RemoveSteps) =>
        ValidateIdentityMigration(Current, job.policy)
  /\ (broker.phase = "Blocking" \/ job.op = "commit") =>
        Current \in Policies /\ HasProxyEntries(Current)

(* What is installed, and what the marker says, at the step of the job.     *)
Staged ==
  /\ job.at \in InstallSteps =>
        broker.verified = Current /\ broker.marker.phase # "Disabling"
  /\ (job.op \in {"start", "replay", "disable"} /\ job.at \in RemoveSteps) =>
        (broker.marker.phase = "Disabling" \/ broker.verified = Current)
  /\ job.at = "DropGuards" => broker.marker.phase = "Disabling"
  /\ job.at \in {"Publish", "Arm"} => guards = GuardFilters(Current)
  /\ job.at \in {"Unload", "Clear"} => guards = {}
  /\ job.at = "Preparing" => /\ Revision[job.policy] > disk.hwm
                             /\ guards \subseteq GuardFilters(job.policy)
  /\ job.at \in {"Removed", "DropGuards", "Unload", "Clear", "Preparing"} =>
        dataPlane = {}
  /\ job.at = "Activate" => dataPlane = DataPlaneFilters(Current)

(* The driver forwards only for a runtime of the Broker.                    *)
Gated ==
  /\ job.at = "idle" \/ job.op = "commit" \/ broker.runtime = "none"
  /\ driver.lease => broker.runtime # "none"
  /\ job.at \in {"Canary", "CloseGate", "Redirects", "Activate"} =>
        driver.policy = Current
  /\ driver.canary => job.op = "commit" /\ job.at \in {"CloseGate", "Failed"}
  /\ job.at = "DropRedirects" => ~driver.datagram

(* A process that has guards installed planned them.                        *)
Planned ==
  /\ (Running /\ broker.plan = None) => guards = {}
  /\ job.at \in {"Attest", "Publish"} => broker.plan # None

(* MemoryFollowsDisk, also for a recovery that has read the file; and the   *)
(* high watermark is the revision of the policy the file names.             *)
Synced ==
  /\ disk.marker # NoMarker => disk.hwm = Revision[disk.marker.policy]
  /\ (job.at \notin Absent /\ ~(job.op = "start" /\ job.at \in {"Load", "Failed"})) =>
        /\ broker.marker.policy = disk.marker.policy
        /\ broker.hwm = disk.hwm
        /\ (broker.marker.phase = "Disabling") = (disk.marker.phase = "Disabling")

Placed == Routed /\ Staged /\ Gated /\ Planned /\ Synced

Safe ==
  /\ FailClosed
  /\ GuardsAreAccountedFor
  /\ RedirectsUnderGuards
  /\ ExecutablesLocked

IInv == TypeInv /\ Placed /\ Safe

(* The conjunctions that the invariant is made of, and the sets of steps,   *)
(* are expanded everywhere below.                                           *)
USE DEF IInv, TypeInv, TypeOK, Placed, Safe, Running, Absent, Policyless, CommitSteps, RemoveSteps,
        InstallSteps, WellFormed, Current

-----------------------------------------------------------------------------
(* How jobs move, begin and end.                                            *)

(* Moving on changes where the job is, and nothing else about it.           *)
LEMMA GotoMoves ==
  ASSUME job \in Job, NEW at \in Steps, Goto(at)
  PROVE  /\ job' \in Job /\ job'.at = at
         /\ job'.op = job.op /\ job'.policy = job.policy
         /\ reply' = reply
BY DEF Goto, Job

(* A step that may fail moves the job to one of its two successors.         *)
LEMMA TryMoves ==
  ASSUME job \in Job, faults \in Nat, NEW next \in Steps, NEW failed \in Steps, Try(next, failed)
  PROVE  /\ job' \in Job /\ job'.at \in {next, failed}
         /\ job'.op = job.op /\ job'.policy = job.policy
         /\ reply' = reply /\ faults' \in Nat
BY GotoMoves DEF Try, NoFault, Fault

(* A job that ends leaves the actor idle, or has failed after all.          *)
LEMMA FinishTyped ==
  ASSUME TypeOK, NEW b \in BrokerMemory, NEW s \in SnapshotType, Finish(b, s)
  PROVE  /\ job' \in Job /\ reply' \in Reply
         /\ \/ job'.at = "idle" /\ job'.op = "none"
            \/ job'.at = "Failed" /\ job'.op = job.op /\ job'.policy = job.policy
               /\ job.op \in {"teardown", "health", "shutdown"}
<1>1. job.op \in Ops /\ NoJob("idle") \in Job /\ reply \in Reply
  BY DEF Job, NoJob, Ops, Steps
<1>2. NoJob("idle").at = "idle" /\ NoJob("idle").op = "none"
  BY DEF NoJob
<1>3. StatusReply(job.op, b, s) \in Reply /\ Silent(job.op) \in Reply
  BY <1>1, ReplyTyped
<1>4. CASE job.op \in {"start", "teardown", "health"} /\ job' = NoJob("idle") /\ UNCHANGED reply
  BY <1>1, <1>2, <1>4
<1>5. CASE job.op \in {"teardown", "health"} /\ job' = [job EXCEPT !.at = "Failed"] /\ UNCHANGED reply
  BY <1>1, <1>5 DEF Job, Steps
<1>6. CASE job.op = "shutdown" /\ Goto("Failed")
  BY <1>1, <1>6 DEF Goto, Job, Steps
<1>7. CASE /\ job' = NoJob("idle")
           /\ reply' = IF job.clean THEN StatusReply(job.op, b, s) ELSE Silent(job.op)
  BY <1>1, <1>2, <1>3, <1>7
<1>8. QED
  BY <1>4, <1>5, <1>6, <1>7 DEF Finish

(* persist writes the policy that the marker in memory names.               *)
LEMMA PersistCurrent ==
  ASSUME TypeOK, Current \in Policies, NEW phase \in Phases, Persist(Current, phase)
  PROVE  /\ disk' \in [hwm : Nat, marker : Marker] /\ disk'.hwm = Revision[Current]
         /\ disk'.marker.policy = Current /\ disk'.marker.phase = phase
         /\ disk'.marker # NoMarker /\ Revision[Current] >= disk.hwm
BY PolicyAssumption DEF Persist, Marker, NoMarker

(* The phase a policy is published under is never a pending disable.        *)
LEMMA ReadyPhases ==
  ASSUME NEW p \in Policies
  PROVE  /\ ReadyPhase(p) \in Phases /\ ReadyPhase(p) # "Disabling"
         /\ ReadyPhase(p) = "Blocking" => HasProxyEntries(p)
BY DEF ReadyPhase, Phases

-----------------------------------------------------------------------------
(* install_guards, prepare and recover.                                     *)

(* The new policy enters file and memory together; the guards that stay are *)
(* its own.                                                                 *)
LEMMA PersistPreparingKeeps == ASSUME IInv, PersistPreparing PROVE IInv'
<1>1. /\ job.at = "Preparing" /\ job.op \in {"prepare", "migrate"}
      /\ job.policy \in Policies
      /\ job \in Job /\ broker \in BrokerMemory /\ disk \in [hwm : Nat, marker : Marker]
      /\ UNCHANGED <<guards, dataPlane, driver, faults>>
  BY DEF PersistPreparing, NoFault, Routed
<1>2. /\ job' \in Job /\ job'.at = "Upload"
      /\ job'.op = job.op /\ job'.policy = job.policy
      /\ reply' = reply
  BY <1>1, GotoMoves DEF PersistPreparing, Steps
<1>3. /\ disk' \in [hwm : Nat, marker : Marker]
      /\ disk'.hwm = Revision[job.policy]
      /\ disk'.marker.policy = job.policy /\ disk'.marker.phase = "Preparing"
  BY <1>1, PolicyAssumption DEF PersistPreparing, Persist, Marker, Phases
<1>4. /\ broker' \in BrokerMemory
      /\ broker'.marker.policy = job.policy /\ broker'.marker.phase = "Preparing"
      /\ broker'.hwm = disk'.hwm /\ broker'.phase = "Preparing" /\ broker'.verified = job.policy
      /\ broker'.plan = broker.plan /\ broker'.runtime = broker.runtime
  BY <1>1, <1>3, PolicyAssumption DEF PersistPreparing, BrokerMemory, Marker, Phases
<1>5. ~driver.lease /\ ~driver.datagram
  BY <1>1 DEF Gated, RedirectsUnderGuards
<1>6. /\ dataPlane = {} /\ guards \subseteq GuardFilters(job.policy)
  BY <1>1 DEF Staged
<1>7. disk'.marker # NoMarker
  BY <1>1, <1>3, PolicyAssumption DEF NoMarker
<1>8. QED
  BY <1>1, <1>2, <1>3, <1>4, <1>5, <1>6, <1>7, PolicyAssumption
     DEF Routed, Staged, Gated, Planned, Synced, FailClosed, GuardsAreAccountedFor,
         RedirectsUnderGuards, ExecutablesLocked, Enforced

(* An upload closes the gate before the driver holds another policy.        *)
LEMMA UploadKeeps ==
  ASSUME IInv, Upload
  PROVE  IInv'
<1>1. /\ job.at = "Upload" /\ Current \in Policies
      /\ UNCHANGED <<disk, guards, dataPlane, broker>>
      /\ job \in Job /\ driver \in DriverState /\ faults \in Nat
  BY DEF Upload
<1>2. /\ job' \in Job /\ job'.at \in {"Replace", "Failed"}
      /\ job'.op = job.op /\ job'.policy = job.policy
      /\ reply' = reply /\ faults' \in Nat
  BY <1>1, TryMoves DEF Upload, Steps
<1>3. /\ driver' \in DriverState /\ driver'.policy = Current
      /\ ~driver'.lease /\ ~driver'.datagram /\ ~driver'.canary
  BY <1>1 DEF Upload, Unleased, DriverState
<1>5. QED
  BY <1>1, <1>2, <1>3
     DEF Routed, Staged, Gated, Planned, Synced, FailClosed, GuardsAreAccountedFor,
         RedirectsUnderGuards, ExecutablesLocked

(* The transaction installs the guards of the marker's policy.              *)
LEMMA ReplaceKeeps == ASSUME IInv, Replace PROVE IInv'
<1>1. /\ job.at = "Replace" /\ Current \in Policies
      /\ job \in Job /\ broker \in BrokerMemory
      /\ UNCHANGED <<disk, dataPlane, driver, faults>>
      /\ guards' = GuardFilters(Current)
  BY DEF Replace, NoFault
<1>2. /\ job' \in Job /\ job'.at = "Attest"
      /\ job'.op = job.op /\ job'.policy = job.policy
      /\ reply' = reply
  BY <1>1, GotoMoves DEF Replace, Steps
<1>3. /\ broker' \in BrokerMemory /\ broker'.plan = Current
      /\ broker'.marker = broker.marker /\ broker'.hwm = broker.hwm
      /\ broker'.phase = broker.phase /\ broker'.verified = broker.verified
      /\ broker'.runtime = broker.runtime
  BY <1>1 DEF Replace, BrokerMemory
<1>4. guards' \subseteq FilterKeys
  BY <1>1, FilterTypes
<1>5. /\ disk.marker.policy = Current /\ disk.marker # NoMarker /\ broker.verified = Current
  BY <1>1, PolicyAssumption DEF Synced, Staged, NoMarker
<1>8. QED
  BY <1>1, <1>2, <1>3, <1>4, <1>5, PolicyAssumption
     DEF Routed, Staged, Gated, Planned, Synced, FailClosed, GuardsAreAccountedFor,
         RedirectsUnderGuards, ExecutablesLocked

(* Unloading the snapshot closes the gate and touches no filter.            *)
LEMMA UnloadUnusedKeeps == ASSUME IInv, UnloadUnused PROVE IInv'
<1>1. /\ job.at = "UnloadUnused"
      /\ UNCHANGED <<disk, guards, dataPlane, broker>>
      /\ job \in Job /\ driver \in DriverState /\ faults \in Nat
  BY DEF UnloadUnused
<1>2. /\ job' \in Job /\ job'.at = "Failed"
      /\ job'.op = job.op /\ job'.policy = job.policy
      /\ reply' = reply /\ faults' \in Nat
  BY <1>1, TryMoves DEF UnloadUnused, Steps
<1>3. /\ driver' \in DriverState
      /\ ~driver'.lease /\ ~driver'.datagram /\ ~driver'.canary
  BY <1>1 DEF UnloadUnused, Unleased, DriverState
<1>4. QED
  BY <1>1, <1>2, <1>3
     DEF Routed, Staged, Gated, Planned, Synced, FailClosed, GuardsAreAccountedFor,
         RedirectsUnderGuards, ExecutablesLocked

(* A policy is published only with exactly its guards installed.            *)
LEMMA AttestKeeps == ASSUME IInv, Attest PROVE IInv'
<1>1. /\ job.at = "Attest" /\ job \in Job
      /\ UNCHANGED <<disk, guards, dataPlane, driver, broker, faults>>
  BY DEF Attest, NoFault
<1>2. /\ job' \in Job
      /\ \/ job'.at = "Publish" /\ guards = GuardFilters(Current)
         \/ job'.at = "Failed"
      /\ job'.op = job.op /\ job'.policy = job.policy
      /\ reply' = reply
  BY <1>1, GotoMoves DEF Attest, Steps, ExactInventory
<1>4. QED
  BY <1>1, <1>2
     DEF Routed, Staged, Gated, Planned, Synced, FailClosed, GuardsAreAccountedFor,
         RedirectsUnderGuards, ExecutablesLocked

(* The published phase is enforced: the guards were attested the step       *)
(* before.                                                                  *)
LEMMA PublishKeeps == ASSUME IInv, Publish PROVE IInv'
<1> DEFINE phase == ReadyPhase(Current)
<1> DEFINE ready == [broker EXCEPT !.marker.phase = phase, !.phase = phase]
<1>1. /\ job.at = "Publish" /\ Current \in Policies
      /\ job \in Job /\ broker \in BrokerMemory /\ driver \in DriverState /\ faults \in Nat
      /\ UNCHANGED <<guards, dataPlane, driver>>
  BY DEF Publish
<1>2. /\ phase \in Phases /\ phase # "Disabling"
      /\ phase = "Blocking" => HasProxyEntries(Current)
  BY <1>1, ReadyPhases
<1>3. /\ ready \in BrokerMemory /\ ready.marker.policy = Current
      /\ ready.marker.phase = phase /\ ready.phase = phase
      /\ ready.plan = broker.plan /\ ready.verified = broker.verified
      /\ ready.hwm = broker.hwm /\ ready.runtime = broker.runtime
  BY <1>1, <1>2 DEF BrokerMemory, Marker
<1> HIDE DEF phase, ready
<1>4. Snapshot(driver, guards, dataPlane) \in SnapshotType
  BY <1>1, SnapshotTyped
<1>5. /\ guards = GuardFilters(Current) /\ broker.verified = Current /\ broker.plan # None
      /\ disk.marker.policy = Current /\ disk.hwm = broker.hwm
      /\ disk.marker.phase # "Disabling"
  BY <1>1 DEF Staged, Planned, Synced
<1>6. CASE /\ NoFault /\ Persist(Current, phase) /\ broker' = ready
           /\ Finish(ready, Snapshot(driver, guards, dataPlane))
  <2>1. /\ disk' \in [hwm : Nat, marker : Marker] /\ disk'.hwm = Revision[Current]
        /\ disk'.marker.policy = Current /\ disk'.marker.phase = phase
        /\ disk'.marker # NoMarker
    BY <1>1, <1>2, <1>6, PersistCurrent
  <2>2. disk.hwm = Revision[Current]
    BY <1>1, <1>5, PolicyAssumption DEF Synced, NoMarker
  <2>3. /\ job' \in Job /\ reply' \in Reply
        /\ \/ job'.at = "idle" /\ job'.op = "none"
           \/ job'.at = "Failed" /\ job'.op = job.op /\ job'.policy = job.policy
              /\ job.op \in {"teardown", "health", "shutdown"}
    BY <1>1, <1>3, <1>4, <1>6, FinishTyped
  <2>4. QED
    BY <1>1, <1>2, <1>3, <1>5, <1>6, <2>1, <2>2, <2>3, PolicyAssumption
       DEF NoFault, Routed, Staged, Gated, Planned, Synced, FailClosed,
           GuardsAreAccountedFor, RedirectsUnderGuards, ExecutablesLocked
<1>7. CASE Fault /\ broker' \in {ready, broker} /\ Goto("Failed") /\ UNCHANGED disk
  <2>1. /\ job' \in Job /\ job'.at = "Failed"
        /\ job'.op = job.op /\ job'.policy = job.policy /\ reply' = reply
    BY <1>1, <1>7, GotoMoves DEF Steps
  <2>2. QED
    BY <1>1, <1>2, <1>3, <1>5, <1>7, <2>1
       DEF Fault, Routed, Staged, Gated, Planned, Synced, FailClosed,
           GuardsAreAccountedFor, RedirectsUnderGuards, ExecutablesLocked
<1>8. QED
  BY <1>6, <1>7 DEF Publish, phase, ready

(* Recovery takes over what the file says and starts from there.            *)
LEMMA LoadKeeps == ASSUME IInv, Load PROVE IInv'
<1> DEFINE loaded == [broker EXCEPT !.marker = disk.marker, !.hwm = disk.hwm,
                                    !.phase = "Recovering", !.health = FALSE]
<1> DEFINE off == [broker EXCEPT !.marker = NoMarker, !.hwm = disk.hwm,
                                 !.phase = "Disabled"]
<1> DEFINE checked == [loaded EXCEPT !.verified = disk.marker.policy]
<1> DEFINE unread == [broker EXCEPT !.hwm = disk.hwm]
<1>1. /\ job.at = "Load" /\ job.op \in {"start", "replay"}
      /\ job \in Job /\ broker \in BrokerMemory /\ driver \in DriverState /\ faults \in Nat
      /\ disk \in [hwm : Nat, marker : Marker]
      /\ UNCHANGED <<disk, guards, dataPlane, driver>>
  BY DEF Load, Routed
<1>2. /\ loaded \in BrokerMemory /\ loaded.marker = disk.marker /\ loaded.hwm = disk.hwm
      /\ loaded.phase = "Recovering" /\ loaded.plan = broker.plan
      /\ loaded.verified = broker.verified /\ loaded.runtime = broker.runtime
  BY <1>1 DEF BrokerMemory, Phases
<1>3. /\ checked \in BrokerMemory /\ checked.marker = disk.marker /\ checked.hwm = disk.hwm
      /\ checked.phase = "Recovering" /\ checked.plan = broker.plan
      /\ checked.verified = disk.marker.policy /\ checked.runtime = broker.runtime
  BY <1>1 DEF BrokerMemory, Phases, Marker
<1>4. /\ off \in BrokerMemory /\ off.marker = NoMarker /\ off.hwm = disk.hwm
      /\ off.phase = "Disabled" /\ off.plan = broker.plan
      /\ off.verified = broker.verified /\ off.runtime = broker.runtime
  BY <1>1 DEF BrokerMemory, Phases, NoMarker, Marker
<1>5. /\ unread \in BrokerMemory /\ unread.marker = broker.marker /\ unread.hwm = disk.hwm
      /\ unread.phase = broker.phase /\ unread.plan = broker.plan
      /\ unread.verified = broker.verified /\ unread.runtime = broker.runtime
  BY <1>1 DEF BrokerMemory
<1> HIDE DEF loaded, off, checked, unread
<1>6. CASE Goto("Failed") /\ faults' \in Nat /\ broker' \in {unread, loaded}
  <2>1. /\ job' \in Job /\ job'.at = "Failed"
        /\ job'.op = job.op /\ job'.policy = job.policy /\ reply' = reply
    BY <1>1, <1>6, GotoMoves DEF Steps
  <2>2. QED
    BY <1>1, <1>2, <1>5, <1>6, <2>1
       DEF Routed, Staged, Gated, Planned, Synced, FailClosed,
           GuardsAreAccountedFor, RedirectsUnderGuards, ExecutablesLocked
<1>7. CASE /\ disk.marker = NoMarker /\ ~Orphaned /\ NoFault /\ broker' = off
           /\ Finish(off, Snapshot(driver, guards, dataPlane))
  <2>1. Snapshot(driver, guards, dataPlane) \in SnapshotType
    BY <1>1, SnapshotTyped
  <2>2. /\ job' \in Job /\ reply' \in Reply
        /\ job'.at = "idle" /\ job'.op = "none"
    BY <1>1, <1>4, <1>7, <2>1, FinishTyped
  <2>3. guards = {} /\ dataPlane = {}
    BY <1>7 DEF Orphaned
  <2>4. QED
    BY <1>1, <1>4, <1>7, <2>2, <2>3
       DEF NoFault, Routed, Staged, Gated, Planned, Synced, FailClosed,
           GuardsAreAccountedFor, RedirectsUnderGuards, ExecutablesLocked
<1>8. CASE /\ disk.marker.phase = "Disabling"
           /\ NoFault /\ broker' = loaded /\ Goto("Deactivate")
  <2>1. /\ job' \in Job /\ job'.at = "Deactivate"
        /\ job'.op = job.op /\ job'.policy = job.policy /\ reply' = reply
    BY <1>1, <1>8, GotoMoves DEF Steps
  <2>2. disk.marker.policy \in Policies
    BY <1>8 DEF NoMarker
  <2>3. QED
    BY <1>1, <1>2, <1>8, <2>1, <2>2
       DEF NoFault, Routed, Staged, Gated, Planned, Synced, FailClosed,
           GuardsAreAccountedFor, RedirectsUnderGuards, ExecutablesLocked
<1>9. CASE /\ disk.marker # NoMarker /\ disk.marker.phase # "Disabling"
           /\ NoFault /\ broker' = checked
           /\ Goto(IF dataPlane # {} THEN "Deactivate" ELSE "Upload")
  <2>1. /\ job' \in Job /\ job'.at \in {"Deactivate", "Upload"}
        /\ job'.op = job.op /\ job'.policy = job.policy /\ reply' = reply
    BY <1>1, <1>9, GotoMoves DEF Steps
  <2>2. disk.marker.policy \in Policies
    BY <1>9
  <2>3. QED
    BY <1>1, <1>3, <1>9, <2>1, <2>2, PolicyAssumption
       DEF NoFault, Routed, Staged, Gated, Planned, Synced, FailClosed,
           GuardsAreAccountedFor, RedirectsUnderGuards, ExecutablesLocked
<1>10. QED
  BY <1>1, <1>6, <1>7, <1>8, <1>9
     DEF Load, NoFault, Fault, loaded, off, checked, unread

-----------------------------------------------------------------------------
(* Removing the data plane, and the guards.                                 *)

(* The gate is closed before the redirects go.                              *)
LEMMA DeactivateKeeps == ASSUME IInv, Deactivate PROVE IInv'
<1>1. /\ job.at = "Deactivate"
      /\ job \in Job /\ broker \in BrokerMemory /\ driver \in DriverState /\ faults \in Nat
      /\ UNCHANGED <<disk, guards, dataPlane>>
  BY DEF Deactivate
<1>2. /\ job' \in Job /\ job'.at \in {"DropRedirects", "Failed"}
      /\ job'.op = job.op /\ job'.policy = job.policy
      /\ reply' = reply /\ faults' \in Nat
  BY <1>1, GotoMoves DEF Deactivate, NoFault, Fault, Steps
<1>3. /\ driver' \in DriverState /\ ~driver'.datagram
      /\ driver'.policy = driver.policy
      /\ driver'.lease = driver.lease /\ driver'.canary = driver.canary
  BY <1>1 DEF Deactivate, DriverState
<1>4. /\ broker' \in BrokerMemory
      /\ broker'.marker = broker.marker /\ broker'.hwm = broker.hwm
      /\ broker'.phase = broker.phase /\ broker'.verified = broker.verified
      /\ broker'.plan = broker.plan /\ broker'.runtime = broker.runtime
  BY <1>1 DEF Deactivate, BrokerMemory
<1>5. QED
  BY <1>1, <1>2, <1>3, <1>4
     DEF Routed, Staged, Gated, Planned, Synced, FailClosed, GuardsAreAccountedFor,
         RedirectsUnderGuards, ExecutablesLocked

(* Redirects go with the gate closed.                                       *)
LEMMA DropRedirectsKeeps == ASSUME IInv, DropRedirects PROVE IInv'
<1>1. /\ job.at = "DropRedirects"
      /\ job \in Job /\ faults \in Nat /\ ~driver.datagram
      /\ dataPlane' = {} /\ UNCHANGED <<disk, guards, driver, broker>>
  BY DEF DropRedirects, Gated
<1>2. /\ job' \in Job /\ job'.at \in {"Removed", "Failed"}
      /\ job'.op = job.op /\ job'.policy = job.policy
      /\ reply' = reply /\ faults' \in Nat
  BY <1>1, TryMoves DEF DropRedirects, Steps
<1>3. QED
  BY <1>1, <1>2
     DEF Routed, Staged, Gated, Planned, Synced, FailClosed, GuardsAreAccountedFor,
         RedirectsUnderGuards, ExecutablesLocked

(* A snapshot that is accepted and matches the marker shows all its guards. *)
LEMMA MatchedGuards ==
  ASSUME IInv, Running,
         NEW redirects \in BOOLEAN, PresentInventory, MatchesMarker(Current, redirects)
  PROVE  guards = GuardFilters(Current) /\ (~redirects => dataPlane = {})
<1>1. guards # {} /\ driver.policy = Current /\ (~redirects => dataPlane = {})
  BY DEF MatchesMarker
<1>2. broker.plan # None
  BY <1>1 DEF Planned
<1>3. QED
  BY <1>1, <1>2 DEF PresentInventory

(* force_blocking records an enforced phase above complete guards, and a    *)
(* migration goes on from there.                                            *)
LEMMA BlockedKeeps == ASSUME IInv, Blocked PROVE IInv'
<1> DEFINE phase == ReadyPhase(Current)
<1> DEFINE weakened == [broker EXCEPT !.phase = phase, !.health = FALSE]
<1> DEFINE blocked == [weakened EXCEPT !.marker.phase = phase]
<1>1. /\ job.at = "Removed" /\ Current \in Policies
      /\ job.op \in {"block", "teardown", "health", "shutdown", "migrate"}
      /\ job \in Job /\ broker \in BrokerMemory /\ driver \in DriverState /\ faults \in Nat
      /\ UNCHANGED <<guards, dataPlane, driver>>
  BY DEF Blocked
<1>2. /\ phase \in Phases /\ phase # "Disabling"
      /\ phase = "Blocking" => HasProxyEntries(Current)
  BY <1>1, ReadyPhases
<1>3. /\ weakened \in BrokerMemory /\ weakened.marker = broker.marker
      /\ weakened.phase = phase
      /\ weakened.plan = broker.plan /\ weakened.verified = broker.verified
      /\ weakened.hwm = broker.hwm /\ weakened.runtime = broker.runtime
  BY <1>1, <1>2 DEF BrokerMemory
<1>4. /\ blocked \in BrokerMemory /\ blocked.marker.policy = Current
      /\ blocked.marker.phase = phase /\ blocked.phase = phase
      /\ blocked.plan = broker.plan /\ blocked.verified = broker.verified
      /\ blocked.hwm = broker.hwm /\ blocked.runtime = broker.runtime
  BY <1>1, <1>2 DEF BrokerMemory, Marker
<1> HIDE DEF phase, weakened, blocked
<1>5. CASE Goto("Failed") /\ faults' \in Nat /\ broker' \in {broker, weakened} /\ UNCHANGED disk
  <2>1. /\ job' \in Job /\ job'.at = "Failed"
        /\ job'.op = job.op /\ job'.policy = job.policy /\ reply' = reply
    BY <1>1, <1>5, GotoMoves DEF Steps
  <2>2. QED
    BY <1>1, <1>2, <1>3, <1>5, <2>1
       DEF Routed, Staged, Gated, Planned, Synced, FailClosed,
           GuardsAreAccountedFor, RedirectsUnderGuards, ExecutablesLocked
<1>6. CASE /\ PresentInventory /\ MatchesMarker(Current, FALSE)
           /\ NoFault /\ Persist(Current, phase) /\ broker' = blocked
           /\ IF job.op = "migrate" THEN Goto("Preparing")
              ELSE Finish(blocked, Snapshot(driver, guards, dataPlane))
  <2>1. guards = GuardFilters(Current) /\ dataPlane = {}
    BY <1>1, <1>6, MatchedGuards
  <2>2. /\ disk' \in [hwm : Nat, marker : Marker] /\ disk'.hwm = Revision[Current]
        /\ disk'.marker.policy = Current /\ disk'.marker.phase = phase
        /\ disk'.marker # NoMarker
    BY <1>1, <1>2, <1>6, PersistCurrent
  <2>3. disk.marker.policy = Current /\ broker.hwm = Revision[Current]
    BY <1>1, PolicyAssumption DEF Synced, NoMarker
  <2>4. CASE job.op = "migrate"
    <3>1. /\ job' \in Job /\ job'.at = "Preparing"
          /\ job'.op = job.op /\ job'.policy = job.policy /\ reply' = reply
      BY <1>1, <1>6, <2>4, GotoMoves DEF Steps
    <3>2. /\ job.policy \in Policies
          /\ ValidateIdentityMigration(Current, job.policy)
      BY <1>1, <2>4 DEF Routed
    <3>3. /\ guards \subseteq GuardFilters(job.policy)
          /\ Revision[job.policy] > Revision[Current]
      BY <1>1, <2>1, <3>2, MigrationKeepsGuards DEF ValidateIdentityMigration
    <3>4. QED
      BY <1>1, <1>2, <1>4, <1>6, <2>1, <2>2, <2>3, <2>4, <3>1, <3>2, <3>3
         DEF NoFault, Routed, Staged, Gated, Planned, Synced, FailClosed,
             GuardsAreAccountedFor, RedirectsUnderGuards, ExecutablesLocked
  <2>5. CASE job.op # "migrate"
    <3>1. Snapshot(driver, guards, dataPlane) \in SnapshotType
      BY <1>1, SnapshotTyped
    <3>2. /\ job' \in Job /\ reply' \in Reply
          /\ \/ job'.at = "idle" /\ job'.op = "none"
             \/ job'.at = "Failed" /\ job'.op = job.op /\ job'.policy = job.policy
                /\ job.op \in {"teardown", "health", "shutdown"}
      BY <1>1, <1>4, <1>6, <2>5, <3>1, FinishTyped
    <3>3. QED
      BY <1>1, <1>2, <1>4, <1>6, <2>1, <2>2, <2>3, <2>5, <3>2
         DEF NoFault, Routed, Staged, Gated, Planned, Synced, FailClosed,
             GuardsAreAccountedFor, RedirectsUnderGuards, ExecutablesLocked
  <2>6. QED
    BY <2>4, <2>5
<1>7. CASE NoFault /\ Goto("Failed") /\ UNCHANGED <<disk, broker>>
  BY <1>1, <1>5, <1>7 DEF NoFault
<1>8. CASE Fault /\ broker' = weakened /\ Goto("Failed") /\ UNCHANGED disk
  BY <1>1, <1>5, <1>8 DEF Fault
<1>9. QED
  BY <1>6, <1>7, <1>8 DEF Blocked, phase, weakened, blocked

(* A rolled back commit records Blocking only above complete guards.        *)
LEMMA RolledBackKeeps == ASSUME IInv, RolledBack PROVE IInv'
<1>1. /\ job.at = "Removed" /\ Current \in Policies /\ job.op = "commit"
      /\ job \in Job /\ broker \in BrokerMemory /\ driver \in DriverState /\ faults \in Nat
      /\ UNCHANGED <<guards, dataPlane, driver, faults>>
  BY DEF RolledBack, NoFault
<1>2. /\ job' \in Job /\ job'.at = "Failed"
      /\ job'.op = job.op /\ job'.policy = job.policy /\ reply' = reply
  BY <1>1, GotoMoves DEF RolledBack, Steps
<1>3. CASE UNCHANGED <<disk, broker>>
  BY <1>1, <1>2, <1>3
     DEF Routed, Staged, Gated, Planned, Synced, FailClosed, GuardsAreAccountedFor,
         RedirectsUnderGuards, ExecutablesLocked
<1>4. CASE /\ PresentInventory /\ MatchesMarker(Current, FALSE)
           /\ Persist(Current, "Blocking")
           /\ broker' = [broker EXCEPT !.marker.phase = "Blocking"]
  <2>1. guards = GuardFilters(Current) /\ dataPlane = {}
    BY <1>1, <1>4, MatchedGuards
  <2>2. /\ disk' \in [hwm : Nat, marker : Marker] /\ disk'.hwm = Revision[Current]
        /\ disk'.marker.policy = Current /\ disk'.marker.phase = "Blocking"
        /\ disk'.marker # NoMarker
    BY <1>1, <1>4, PersistCurrent DEF Phases
  <2>3. /\ broker' \in BrokerMemory /\ broker'.marker.policy = Current
        /\ broker'.marker.phase = "Blocking" /\ broker'.phase = broker.phase
        /\ broker'.plan = broker.plan /\ broker'.verified = broker.verified
        /\ broker'.hwm = broker.hwm /\ broker'.runtime = broker.runtime
    BY <1>1, <1>4 DEF BrokerMemory, Marker, Phases
  <2>4. disk.marker.policy = Current /\ broker.hwm = Revision[Current]
    BY <1>1, PolicyAssumption DEF Synced, NoMarker
  <2>5. QED
    BY <1>1, <1>2, <2>1, <2>2, <2>3, <2>4
       DEF Routed, Staged, Gated, Planned, Synced, FailClosed,
           GuardsAreAccountedFor, RedirectsUnderGuards, ExecutablesLocked
<1>5. QED
  BY <1>3, <1>4 DEF RolledBack

(* Guards are given up only for a pending disable.                          *)
LEMMA DisarmedKeeps == ASSUME IInv, Disarmed PROVE IInv'
<1>1. /\ job.at = "Removed" /\ Current \in Policies
      /\ job.op \in {"disable", "start", "replay"} /\ job \in Job
      /\ UNCHANGED <<disk, guards, dataPlane, driver, broker, faults>>
  BY DEF Disarmed, NoFault
<1>2. /\ AfterRedirects \in {"Failed", "Upload", "Clear", "DropGuards"}
      /\ AfterRedirects = "Upload" => broker.marker.phase # "Disabling"
      /\ AfterRedirects = "Clear" => guards = {}
      /\ AfterRedirects = "DropGuards" => broker.marker.phase = "Disabling"
  BY DEF AfterRedirects
<1>3. /\ job' \in Job /\ job'.at = AfterRedirects
      /\ job'.op = job.op /\ job'.policy = job.policy /\ reply' = reply
  BY <1>1, <1>2, GotoMoves DEF Disarmed, Steps
<1>4. QED
  BY <1>1, <1>2, <1>3
     DEF Routed, Staged, Gated, Planned, Synced, FailClosed, GuardsAreAccountedFor,
         RedirectsUnderGuards, ExecutablesLocked

(* The pending disable is durable before anything is removed.               *)
LEMMA PersistDisablingKeeps == ASSUME IInv, PersistDisabling PROVE IInv'
<1>1. /\ job.at = "Disabling" /\ Current \in Policies
      /\ job \in Job /\ broker \in BrokerMemory
      /\ UNCHANGED <<guards, dataPlane, driver, faults>>
  BY DEF PersistDisabling, NoFault
<1>2. /\ job' \in Job /\ job'.at = "Deactivate"
      /\ job'.op = job.op /\ job'.policy = job.policy /\ reply' = reply
  BY <1>1, GotoMoves DEF PersistDisabling, Steps
<1>3. /\ disk' \in [hwm : Nat, marker : Marker] /\ disk'.hwm = Revision[Current]
      /\ disk'.marker.policy = Current /\ disk'.marker.phase = "Disabling"
      /\ disk'.marker # NoMarker
  BY <1>1, PersistCurrent DEF PersistDisabling, Phases
<1>4. /\ broker' \in BrokerMemory /\ broker'.marker.policy = Current
      /\ broker'.marker.phase = "Disabling" /\ broker'.phase = "Recovering"
      /\ broker'.plan = broker.plan /\ broker'.verified = broker.verified
      /\ broker'.hwm = broker.hwm /\ broker'.runtime = broker.runtime
  BY <1>1 DEF PersistDisabling, BrokerMemory, Marker, Phases
<1>5. disk.marker.policy = Current /\ broker.hwm = Revision[Current] /\ disk.marker # NoMarker
  BY <1>1, PolicyAssumption DEF Synced, NoMarker
<1>6. job.op = "disable"
  BY <1>1 DEF Routed
<1>7. QED
  BY <1>1, <1>2, <1>3, <1>4, <1>5, <1>6
     DEF Enforced, Routed, Staged, Gated, Planned, Synced, FailClosed,
         GuardsAreAccountedFor, RedirectsUnderGuards, ExecutablesLocked

(* The guards go under a Disabling marker, after the redirects.             *)
LEMMA DropGuardsKeeps == ASSUME IInv, DropGuards PROVE IInv'
<1>1. /\ job.at = "DropGuards" /\ job \in Job /\ faults \in Nat
      /\ guards' = {} /\ UNCHANGED <<disk, dataPlane, driver, broker>>
  BY DEF DropGuards
<1>2. /\ job' \in Job /\ job'.at \in {"Unload", "Failed"}
      /\ job'.op = job.op /\ job'.policy = job.policy
      /\ reply' = reply /\ faults' \in Nat
  BY <1>1, TryMoves DEF DropGuards, Steps
<1>3. disk.marker.phase = "Disabling" /\ dataPlane = {}
  BY <1>1 DEF Staged, Synced
<1>4. QED
  BY <1>1, <1>2, <1>3
     DEF Enforced, Routed, Staged, Gated, Planned, Synced, FailClosed,
         GuardsAreAccountedFor, RedirectsUnderGuards, ExecutablesLocked

(* The plan is forgotten when no guard is left.                             *)
LEMMA UnloadKeeps == ASSUME IInv, Unload PROVE IInv'
<1>1. /\ job.at = "Unload"
      /\ job \in Job /\ broker \in BrokerMemory /\ driver \in DriverState /\ faults \in Nat
      /\ UNCHANGED <<disk, guards, dataPlane>>
  BY DEF Unload
<1>2. /\ job' \in Job /\ job'.at \in {"Clear", "Failed"}
      /\ job'.op = job.op /\ job'.policy = job.policy
      /\ reply' = reply /\ faults' \in Nat
  BY <1>1, GotoMoves DEF Unload, NoFault, Fault, Steps
<1>3. /\ driver' \in DriverState
      /\ ~driver'.lease /\ ~driver'.datagram /\ ~driver'.canary
  BY <1>1 DEF Unload, Unleased, DriverState
<1>4. /\ broker' \in BrokerMemory
      /\ broker'.marker = broker.marker /\ broker'.hwm = broker.hwm
      /\ broker'.phase = broker.phase /\ broker'.verified = broker.verified
      /\ broker'.runtime = broker.runtime
  BY <1>1 DEF Unload, BrokerMemory
<1>5. guards = {}
  BY <1>1 DEF Staged
<1>6. QED
  BY <1>1, <1>2, <1>3, <1>4, <1>5
     DEF Routed, Staged, Gated, Planned, Synced, FailClosed, GuardsAreAccountedFor,
         RedirectsUnderGuards, ExecutablesLocked

(* The marker is cleared when no filter is left.                            *)
LEMMA ClearKeeps == ASSUME IInv, Clear PROVE IInv'
<1> DEFINE off == [broker EXCEPT !.marker = NoMarker, !.verified = None,
                                 !.phase = "Disabled", !.health = FALSE]
<1>1. /\ job.at = "Clear" /\ job.op \notin {"none", "commit"}
      /\ job \in Job /\ broker \in BrokerMemory /\ driver \in DriverState
      /\ disk \in [hwm : Nat, marker : Marker]
      /\ UNCHANGED <<guards, dataPlane, driver, faults>>
  BY DEF Clear, NoFault, Routed
<1>2. /\ off \in BrokerMemory /\ off.marker = NoMarker /\ off.phase = "Disabled"
      /\ off.plan = broker.plan /\ off.hwm = broker.hwm /\ off.runtime = broker.runtime
  BY <1>1 DEF BrokerMemory, Marker, NoMarker, Phases
<1> HIDE DEF off
<1>3. broker' = off /\ Finish(off, Snapshot(driver, guards, dataPlane))
  BY DEF Clear, off
<1>4. /\ disk' \in [hwm : Nat, marker : Marker]
      /\ disk'.marker = NoMarker /\ disk'.hwm = disk.hwm
  BY <1>1 DEF Clear, Marker, NoMarker, Phases
<1>5. Snapshot(driver, guards, dataPlane) \in SnapshotType
  BY <1>1, SnapshotTyped
<1>6. /\ job' \in Job /\ reply' \in Reply
      /\ \/ job'.at = "idle" /\ job'.op = "none"
         \/ job'.at = "Failed" /\ job'.op = job.op /\ job'.policy = job.policy
            /\ job.op \in {"teardown", "health", "shutdown"}
  BY <1>2, <1>3, <1>5, FinishTyped
<1>7. guards = {} /\ dataPlane = {} /\ ~driver.datagram
  BY <1>1 DEF Staged, Gated, RedirectsUnderGuards
<1>8. broker.hwm = disk.hwm
  BY <1>1 DEF Synced
<1>9. NoMarker.policy = None /\ NoMarker.phase = "Disabled"
  BY DEF NoMarker
<1>10. QED
  BY <1>1, <1>2, <1>3, <1>4, <1>6, <1>7, <1>8, <1>9
     DEF Enforced, Routed, Staged, Gated, Planned, Synced, FailClosed,
         GuardsAreAccountedFor, RedirectsUnderGuards, ExecutablesLocked

-----------------------------------------------------------------------------
(* commit.                                                                  *)

(* The lease belongs to a runtime, and starts with the gate closed.         *)
LEMMA MeasureKeeps == ASSUME IInv, Measure PROVE IInv'
<1>1. /\ job.at = "Measure" /\ job.op = "commit" /\ Current \in Policies
      /\ job \in Job /\ broker \in BrokerMemory /\ driver \in DriverState /\ faults \in Nat
      /\ UNCHANGED <<disk, guards, dataPlane, faults>>
  BY DEF Measure, NoFault, Routed
<1>2. CASE Goto("Failed") /\ UNCHANGED <<driver, broker>>
  <2>1. /\ job' \in Job /\ job'.at = "Failed"
        /\ job'.op = job.op /\ job'.policy = job.policy /\ reply' = reply
    BY <1>1, <1>2, GotoMoves DEF Steps
  <2>2. QED
    BY <1>1, <1>2, <2>1
       DEF Routed, Staged, Gated, Planned, Synced, FailClosed,
           GuardsAreAccountedFor, RedirectsUnderGuards, ExecutablesLocked
<1>3. CASE /\ driver.policy = Current
           /\ driver' = [Unleased EXCEPT !.lease = TRUE]
           /\ broker' = [broker EXCEPT !.runtime = "alive"]
           /\ Goto("Canary")
  <2>1. /\ job' \in Job /\ job'.at = "Canary"
        /\ job'.op = job.op /\ job'.policy = job.policy /\ reply' = reply
    BY <1>1, <1>3, GotoMoves DEF Steps
  <2>2. /\ driver' \in DriverState /\ driver'.policy = Current
        /\ ~driver'.datagram /\ ~driver'.canary
    BY <1>1, <1>3 DEF Unleased, DriverState
  <2>3. /\ broker' \in BrokerMemory
        /\ broker'.marker = broker.marker /\ broker'.hwm = broker.hwm
        /\ broker'.phase = broker.phase /\ broker'.verified = broker.verified
        /\ broker'.plan = broker.plan /\ broker'.runtime = "alive"
    BY <1>1, <1>3 DEF BrokerMemory, Runtimes
  <2>4. QED
    BY <1>1, <2>1, <2>2, <2>3
       DEF Routed, Staged, Gated, Planned, Synced, FailClosed,
           GuardsAreAccountedFor, RedirectsUnderGuards, ExecutablesLocked
<1>4. QED
  BY <1>2, <1>3 DEF Measure

(* The gate opens for the canary under the lease.                           *)
LEMMA CanaryKeeps == ASSUME IInv, Canary PROVE IInv'
<1>1. /\ job.at = "Canary" /\ job.op = "commit" /\ Current \in Policies
      /\ driver.policy = Current
      /\ job \in Job /\ driver \in DriverState
      /\ UNCHANGED <<disk, guards, dataPlane, broker, faults>>
  BY DEF Canary, NoFault, Routed, Gated
<1>2. CASE UNCHANGED driver /\ Goto("Failed")
  <2>1. /\ job' \in Job /\ job'.at = "Failed"
        /\ job'.op = job.op /\ job'.policy = job.policy /\ reply' = reply
    BY <1>1, <1>2, GotoMoves DEF Steps
  <2>2. QED
    BY <1>1, <1>2, <2>1
       DEF Routed, Staged, Gated, Planned, Synced, FailClosed,
           GuardsAreAccountedFor, RedirectsUnderGuards, ExecutablesLocked
<1>3. CASE /\ driver.lease /\ Goto("CloseGate")
           /\ driver' = [driver EXCEPT !.canary = TRUE, !.datagram = TRUE]
  <2>1. /\ job' \in Job /\ job'.at = "CloseGate"
        /\ job'.op = job.op /\ job'.policy = job.policy /\ reply' = reply
    BY <1>1, <1>3, GotoMoves DEF Steps
  <2>2. /\ driver' \in DriverState /\ driver'.policy = Current
        /\ driver'.lease /\ driver'.canary
    BY <1>1, <1>3 DEF DriverState
  <2>3. disk.marker.policy = Current
    BY <1>1 DEF Synced
  <2>4. QED
    BY <1>1, <1>3, <2>1, <2>2, <2>3
       DEF Routed, Staged, Gated, Planned, Synced, FailClosed,
           GuardsAreAccountedFor, RedirectsUnderGuards, ExecutablesLocked
<1>4. QED
  BY <1>2, <1>3 DEF Canary

(* The gate is closed and the canary forgotten together.                    *)
LEMMA CloseGateKeeps == ASSUME IInv, CloseGate PROVE IInv'
<1>1. /\ job.at = "CloseGate" /\ job.op = "commit" /\ Current \in Policies
      /\ job \in Job /\ driver \in DriverState /\ faults \in Nat
      /\ UNCHANGED <<disk, guards, dataPlane, broker>>
  BY DEF CloseGate, Routed
<1>2. /\ job' \in Job /\ job'.at \in {"Redirects", "Failed"}
      /\ job'.op = job.op /\ job'.policy = job.policy
      /\ reply' = reply /\ faults' \in Nat
  BY <1>1, TryMoves, GotoMoves DEF CloseGate, NoFault, Steps
<1>3. /\ driver' \in DriverState /\ driver'.policy = driver.policy
      /\ driver'.lease = driver.lease /\ ~driver'.datagram /\ ~driver'.canary
  BY <1>1 DEF CloseGate, DriverState
<1>4. QED
  BY <1>1, <1>2, <1>3
     DEF Routed, Staged, Gated, Planned, Synced, FailClosed, GuardsAreAccountedFor,
         RedirectsUnderGuards, ExecutablesLocked

(* Redirects are installed above the exact guards, with the gate closed.    *)
LEMMA RedirectsKeeps == ASSUME IInv, Redirects PROVE IInv'
<1>1. /\ job.at = "Redirects" /\ job.op = "commit" /\ Current \in Policies
      /\ driver.policy = Current
      /\ job \in Job /\ broker \in BrokerMemory /\ faults \in Nat
      /\ UNCHANGED <<disk, guards, driver>>
  BY DEF Redirects, Routed, Gated
<1>2. CASE /\ NoFault /\ UNCHANGED <<dataPlane, broker>>
           /\ Goto(IF broker.verified = None THEN "Failed" ELSE "Rollback")
  <2>1. /\ job' \in Job /\ job'.at \in {"Failed", "Rollback"}
        /\ job'.op = job.op /\ job'.policy = job.policy /\ reply' = reply
    BY <1>1, <1>2, GotoMoves DEF Steps
  <2>2. QED
    BY <1>1, <1>2, <2>1
       DEF NoFault, Routed, Staged, Gated, Planned, Synced, FailClosed,
           GuardsAreAccountedFor, RedirectsUnderGuards, ExecutablesLocked
<1>3. CASE /\ ExactInventory(Current, FALSE, FALSE)
           /\ dataPlane' = DataPlaneFilters(Current)
           /\ broker' = [broker EXCEPT !.plan = Current, !.generation = TRUE]
           /\ Try("Activate", "Rollback")
  <2>1. /\ job' \in Job /\ job'.at \in {"Activate", "Rollback"}
        /\ job'.op = job.op /\ job'.policy = job.policy
        /\ reply' = reply /\ faults' \in Nat
    BY <1>1, <1>3, TryMoves DEF Steps
  <2>2. /\ broker' \in BrokerMemory
        /\ broker'.marker = broker.marker /\ broker'.hwm = broker.hwm
        /\ broker'.phase = broker.phase /\ broker'.verified = broker.verified
        /\ broker'.plan = Current /\ broker'.runtime = broker.runtime
    BY <1>1, <1>3 DEF BrokerMemory
  <2>3. /\ guards = GuardFilters(Current) /\ ~driver.datagram
        /\ dataPlane' \subseteq Apps /\ disk.marker.policy = Current /\ disk.marker # NoMarker
    BY <1>1, <1>3, FilterTypes, PolicyAssumption
       DEF ExactInventory, Synced, NoMarker
  <2>4. QED
    BY <1>1, <1>3, <2>1, <2>2, <2>3, PolicyAssumption
       DEF Routed, Staged, Gated, Planned, Synced, FailClosed,
           GuardsAreAccountedFor, RedirectsUnderGuards, ExecutablesLocked
<1>4. QED
  BY <1>2, <1>3 DEF Redirects

(* The gate opens above the redirects, under the lease.                     *)
LEMMA ActivateKeeps == ASSUME IInv, Activate PROVE IInv'
<1>1. /\ job.at = "Activate" /\ job.op = "commit" /\ Current \in Policies
      /\ driver.policy = Current /\ dataPlane = DataPlaneFilters(Current)
      /\ HasProxyEntries(Current)
      /\ job \in Job /\ driver \in DriverState /\ faults \in Nat
      /\ UNCHANGED <<disk, guards, dataPlane, broker>>
  BY DEF Activate, Routed, Gated, Staged
<1>2. CASE NoFault /\ Goto("Cleanup") /\ UNCHANGED driver
  <2>1. /\ job' \in Job /\ job'.at = "Cleanup"
        /\ job'.op = job.op /\ job'.policy = job.policy /\ reply' = reply
    BY <1>1, <1>2, GotoMoves DEF Steps
  <2>2. QED
    BY <1>1, <1>2, <2>1
       DEF NoFault, Routed, Staged, Gated, Planned, Synced, FailClosed,
           GuardsAreAccountedFor, RedirectsUnderGuards, ExecutablesLocked
<1>3. CASE /\ driver.lease /\ driver' = [driver EXCEPT !.datagram = TRUE]
           /\ Try("AttestActive", "Cleanup")
  <2>1. /\ job' \in Job /\ job'.at \in {"AttestActive", "Cleanup"}
        /\ job'.op = job.op /\ job'.policy = job.policy
        /\ reply' = reply /\ faults' \in Nat
    BY <1>1, <1>3, TryMoves DEF Steps
  <2>2. /\ driver' \in DriverState /\ driver'.policy = Current
        /\ driver'.lease /\ driver'.canary = driver.canary
    BY <1>1, <1>3 DEF DriverState
  <2>3. disk.marker.policy = Current /\ dataPlane # {}
    BY <1>1, FiltersExist DEF Synced
  <2>4. QED
    BY <1>1, <1>3, <2>1, <2>2, <2>3
       DEF Routed, Staged, Gated, Planned, Synced, FailClosed,
           GuardsAreAccountedFor, RedirectsUnderGuards, ExecutablesLocked
<1>4. QED
  BY <1>2, <1>3 DEF Activate

(* Attesting changes nothing but the job.                                   *)
LEMMA AttestActiveKeeps == ASSUME IInv, AttestActive PROVE IInv'
<1>1. /\ job.at = "AttestActive" /\ job \in Job
      /\ UNCHANGED <<disk, guards, dataPlane, driver, broker, faults>>
  BY DEF AttestActive, NoFault
<1>2. /\ job' \in Job /\ job'.at \in {"Verify", "Cleanup"}
      /\ job'.op = job.op /\ job'.policy = job.policy /\ reply' = reply
  BY <1>1, GotoMoves DEF AttestActive, Steps
<1>3. QED
  BY <1>1, <1>2
     DEF Routed, Staged, Gated, Planned, Synced, FailClosed, GuardsAreAccountedFor,
         RedirectsUnderGuards, ExecutablesLocked

(* Cleaning up closes the gate before it drops a filter.                    *)
LEMMA CleanupKeeps == ASSUME IInv, Cleanup PROVE IInv'
<1>1. /\ job.at = "Cleanup" /\ job \in Job /\ driver \in DriverState /\ faults \in Nat
      /\ UNCHANGED <<disk, guards, broker>>
  BY DEF Cleanup
<1>2. /\ job' \in Job /\ job'.at = "Rollback"
      /\ job'.op = job.op /\ job'.policy = job.policy /\ reply' = reply
  BY <1>1, GotoMoves DEF Cleanup, Steps
<1>3. faults' \in Nat
  BY <1>1 DEF Cleanup, NoFault, Fault
<1>4. CASE UNCHANGED <<driver, dataPlane>>
  BY <1>1, <1>2, <1>3, <1>4
     DEF Routed, Staged, Gated, Planned, Synced, FailClosed, GuardsAreAccountedFor,
         RedirectsUnderGuards, ExecutablesLocked
<1>5. CASE driver' = [driver EXCEPT !.datagram = FALSE] /\ dataPlane' \in {dataPlane, {}}
  <2>1. /\ driver' \in DriverState /\ driver'.policy = driver.policy
        /\ driver'.lease = driver.lease /\ ~driver'.datagram
        /\ driver'.canary = driver.canary
    BY <1>1, <1>5 DEF DriverState
  <2>2. QED
    BY <1>1, <1>2, <1>3, <1>5, <2>1
       DEF Routed, Staged, Gated, Planned, Synced, FailClosed,
           GuardsAreAccountedFor, RedirectsUnderGuards, ExecutablesLocked
<1>6. QED
  BY <1>4, <1>5 DEF Cleanup

(* Only a snapshot that matches the marker leads to Arm.                    *)
LEMMA VerifyKeeps == ASSUME IInv, Verify PROVE IInv'
<1>1. /\ job.at = "Verify" /\ job.op = "commit" /\ job \in Job
      /\ UNCHANGED <<disk, guards, dataPlane, driver, broker, faults>>
  BY DEF Verify, NoFault, Routed
<1>2. /\ job' \in Job /\ job'.at \in {"Failed", "Arm", "Rollback"}
      /\ job'.at = "Arm" => PresentInventory /\ MatchesMarker(Current, TRUE)
      /\ job'.op = job.op /\ job'.policy = job.policy /\ reply' = reply
  BY <1>1, GotoMoves DEF Verify, Steps
<1>3. job'.at = "Arm" => guards = GuardFilters(Current)
  BY <1>1, <1>2, MatchedGuards
<1>4. QED
  BY <1>1, <1>2, <1>3
     DEF Routed, Staged, Gated, Planned, Synced, FailClosed, GuardsAreAccountedFor,
         RedirectsUnderGuards, ExecutablesLocked

(* The policy is armed above its complete guards.                           *)
LEMMA ArmKeeps == ASSUME IInv, Arm PROVE IInv'
<1> DEFINE armed == [broker EXCEPT !.marker.phase = "Armed", !.phase = "Armed",
                                   !.health = TRUE]
<1> DEFINE verified == [Snapshot(driver, guards, dataPlane) EXCEPT !.datagram = TRUE]
<1>1. /\ job.at = "Arm" /\ job.op = "commit" /\ Current \in Policies
      /\ guards = GuardFilters(Current)
      /\ job \in Job /\ broker \in BrokerMemory /\ driver \in DriverState
      /\ UNCHANGED <<guards, dataPlane, driver, faults>>
  BY DEF Arm, NoFault, Routed, Staged
<1>2. /\ armed \in BrokerMemory /\ armed.marker.policy = Current
      /\ armed.marker.phase = "Armed" /\ armed.phase = "Armed"
      /\ armed.plan = broker.plan /\ armed.verified = broker.verified
      /\ armed.hwm = broker.hwm /\ armed.runtime = broker.runtime
  BY <1>1 DEF BrokerMemory, Marker, Phases
<1>3. verified \in SnapshotType
  <2>1. Snapshot(driver, guards, dataPlane) \in SnapshotType
    BY <1>1, SnapshotTyped
  <2>2. QED
    BY <2>1 DEF SnapshotType
<1> HIDE DEF armed, verified
<1>4. Persist(Current, "Armed") /\ broker' = armed /\ Finish(armed, verified)
  BY DEF Arm, armed, verified
<1>5. /\ disk' \in [hwm : Nat, marker : Marker] /\ disk'.hwm = Revision[Current]
      /\ disk'.marker.policy = Current /\ disk'.marker.phase = "Armed"
      /\ disk'.marker # NoMarker
  BY <1>1, <1>4, PersistCurrent DEF Phases
<1>6. /\ job' \in Job /\ reply' \in Reply /\ job'.at = "idle" /\ job'.op = "none"
  BY <1>1, <1>2, <1>3, <1>4, FinishTyped
<1>7. disk.marker.policy = Current /\ broker.hwm = Revision[Current] /\ disk.marker # NoMarker
  BY <1>1, PolicyAssumption DEF Synced, NoMarker
<1>8. QED
  BY <1>1, <1>2, <1>4, <1>5, <1>6, <1>7
     DEF Routed, Staged, Gated, Planned, Synced, FailClosed, GuardsAreAccountedFor,
         RedirectsUnderGuards, ExecutablesLocked

(* A rollback concerns a policy with proxied entries.                       *)
LEMMA RollbackKeeps == ASSUME IInv, Rollback PROVE IInv'
<1>1. /\ job.at = "Rollback" /\ job.op = "commit" /\ job \in Job /\ broker \in BrokerMemory
      /\ UNCHANGED <<disk, guards, dataPlane, driver, faults>>
  BY DEF Rollback, NoFault, Routed
<1>2. /\ job' \in Job /\ job'.at = "Deactivate"
      /\ job'.op = job.op /\ job'.policy = job.policy /\ reply' = reply
  BY <1>1, GotoMoves DEF Rollback, Steps
<1>3. /\ broker' \in BrokerMemory
      /\ broker'.marker = broker.marker /\ broker'.hwm = broker.hwm
      /\ broker'.phase = "Blocking" /\ broker'.verified = broker.verified
      /\ broker'.plan = broker.plan /\ broker'.runtime = broker.runtime
  BY <1>1 DEF Rollback, BrokerMemory, Phases
<1>4. QED
  BY <1>1, <1>2, <1>3
     DEF Routed, Staged, Gated, Planned, Synced, FailClosed, GuardsAreAccountedFor,
         RedirectsUnderGuards, ExecutablesLocked

-----------------------------------------------------------------------------
(* Errors, crashes and the environment.                                     *)

(* A step that fails without effect goes to its error handling.             *)
LEMMA StepFailsKeeps == ASSUME IInv, StepFails PROVE IInv'
<1>1. /\ job.at \notin Absent \union {"idle"} /\ job \in Job /\ faults \in Nat
      /\ UNCHANGED <<disk, guards, dataPlane, driver, broker>>
  BY DEF StepFails
<1>2. /\ job' \in Job
      /\ \/ job.at = "Replace" /\ job'.at = "UnloadUnused"
         \/ job.at \in {"Redirects", "Arm"} /\ job'.at = "Rollback"
         \/ job.at \in {"Activate", "AttestActive"} /\ job'.at = "Cleanup"
         \/ job'.at = "Failed"
      /\ job'.op = job.op /\ job'.policy = job.policy /\ reply' = reply
  BY <1>1, GotoMoves DEF StepFails, Steps
<1>3. faults' \in Nat
  BY <1>1 DEF StepFails, Fault
<1>4. QED
  BY <1>1, <1>2, <1>3
     DEF Routed, Staged, Gated, Planned, Synced, FailClosed, GuardsAreAccountedFor,
         RedirectsUnderGuards, ExecutablesLocked

(* An engine that is gone leaves guards and file as they were.              *)
LEMMA StoppedKeeps ==
  ASSUME IInv, NEW at \in Absent, Stopped(at), faults' \in Nat,
         driver' \in DriverState, ~driver'.lease, ~driver'.datagram, ~driver'.canary
  PROVE  IInv'
<1>1. /\ job' \in Job /\ job'.at = at /\ job'.op = "none"
      /\ dataPlane' = {} /\ UNCHANGED <<disk, guards, reply>>
  BY DEF Stopped, NoJob, Job, Ops, Steps
<1>2. /\ broker' \in BrokerMemory /\ broker'.marker = NoMarker
      /\ broker'.phase = "Disabled" /\ broker'.runtime = "none"
  BY DEF Stopped, FreshMemory, BrokerMemory, Runtimes, NoMarker, Marker, Phases
<1>3. QED
  BY <1>1, <1>2
     DEF Routed, Staged, Gated, Planned, Synced, FailClosed, GuardsAreAccountedFor,
         RedirectsUnderGuards, ExecutablesLocked

(* Without the lease the gate is closed and no canary is bound.             *)
LEMMA UnleasedTyped ==
  ASSUME driver \in DriverState
  PROVE  /\ Unleased \in DriverState /\ Unleased.policy = driver.policy
         /\ ~Unleased.lease /\ ~Unleased.datagram /\ ~Unleased.canary
BY DEF Unleased, DriverState

(* A command that failed leaves the engine idle, or stopped.                *)
LEMMA FailsKeeps == ASSUME IInv, Fails PROVE IInv'
<1>1. /\ job.at = "Failed" /\ job \in Job /\ broker \in BrokerMemory
      /\ driver \in DriverState /\ faults \in Nat /\ UNCHANGED faults
  BY DEF Fails, NoFault
<1>2. CASE (Stopped("down") \/ Stopped("halted")) /\ driver' = Unleased
  BY <1>1, <1>2, UnleasedTyped, StoppedKeeps
<1>3. NoJob("idle") \in Job /\ NoJob("idle").at = "idle" /\ NoJob("idle").op = "none"
  BY DEF NoJob, Job, Ops, Steps
<1>4. Silent(job.op) \in Reply
  BY <1>1 DEF Silent, Reply, Job
<1>5. CASE /\ job.op \notin {"start", "commit"}
           /\ job' = NoJob("idle") /\ reply' \in Reply
           /\ UNCHANGED <<disk, guards, dataPlane, driver, broker>>
  BY <1>1, <1>3, <1>5
     DEF Routed, Staged, Gated, Planned, Synced, FailClosed, GuardsAreAccountedFor,
         RedirectsUnderGuards, ExecutablesLocked
<1>6. CASE /\ job.op = "commit" /\ job' = NoJob("idle") /\ reply' \in Reply
           /\ driver' = Unleased /\ broker' = [broker EXCEPT !.runtime = "none"]
           /\ UNCHANGED <<disk, guards, dataPlane>>
  <2>1. /\ driver' \in DriverState /\ driver'.policy = driver.policy
        /\ ~driver'.lease /\ ~driver'.datagram /\ ~driver'.canary
    BY <1>1, <1>6, UnleasedTyped
  <2>2. /\ broker' \in BrokerMemory
        /\ broker'.marker = broker.marker /\ broker'.hwm = broker.hwm
        /\ broker'.phase = broker.phase /\ broker'.verified = broker.verified
        /\ broker'.plan = broker.plan /\ broker'.runtime = "none"
    BY <1>1, <1>6 DEF BrokerMemory, Runtimes
  <2>3. QED
    BY <1>1, <1>3, <1>6, <2>1, <2>2
       DEF Routed, Staged, Gated, Planned, Synced, FailClosed,
           GuardsAreAccountedFor, RedirectsUnderGuards, ExecutablesLocked
<1>7. reply \in Reply
  OBVIOUS
<1>8. QED
  BY <1>2, <1>4, <1>5, <1>6, <1>7 DEF Fails, Reject

(* A started engine has nothing yet.                                        *)
LEMMA StartKeeps == ASSUME IInv, Start PROVE IInv'
<1>1. /\ job.at = "down"
      /\ job' \in Job /\ job'.at = "Load" /\ job'.op = "start" /\ job'.policy = None
      /\ UNCHANGED <<disk, guards, dataPlane, driver, broker, reply, faults>>
  BY DEF Start, NoFault, Job, Ops, Steps
<1>2. broker.runtime = "none"
  BY <1>1 DEF Gated, Routed
<1>3. QED
  BY <1>1, <1>2
     DEF Routed, Staged, Gated, Planned, Synced, FailClosed, GuardsAreAccountedFor,
         RedirectsUnderGuards, ExecutablesLocked

(* A service without its actor holds nothing that could change.             *)
LEMMA HaltedKeeps == ASSUME IInv, Halted PROVE IInv'
<1>1. /\ job.at = "halted"
      /\ UNCHANGED <<disk, guards, dataPlane, driver, broker, faults>>
  BY DEF Halted, Unavailable, ServiceEnds
<1>2. CASE Unavailable
  <2>1. reply' \in Reply /\ job' = job
    BY <1>2 DEF Unavailable, Silent, Reply, Ops
  <2>2. QED
    BY <1>1, <2>1
       DEF Routed, Staged, Gated, Planned, Synced, FailClosed,
           GuardsAreAccountedFor, RedirectsUnderGuards, ExecutablesLocked
<1>3. CASE ServiceEnds
  <2>1. /\ job' \in Job /\ job'.at = "down" /\ job'.op = "none" /\ reply' = reply
    BY <1>3 DEF ServiceEnds, NoJob, Job, Ops, Steps
  <2>2. QED
    BY <1>1, <2>1
       DEF Routed, Staged, Gated, Planned, Synced, FailClosed,
           GuardsAreAccountedFor, RedirectsUnderGuards, ExecutablesLocked
<1>4. QED
  BY <1>2, <1>3 DEF Halted

(* No crash, reboot or lost lease disturbs the invariant.                   *)
LEMMA EnvironmentKeeps == ASSUME IInv, Environment PROVE IInv'
<1>1. /\ job \in Job /\ broker \in BrokerMemory /\ driver \in DriverState /\ faults \in Nat
  OBVIOUS
<1>2. CASE Crash
  BY <1>1, <1>2, UnleasedTyped, StoppedKeeps DEF Crash, Fault
<1>3. CASE HostReboot
  <2>1. /\ BootedDriver \in DriverState
        /\ ~BootedDriver.lease /\ ~BootedDriver.datagram /\ ~BootedDriver.canary
    BY DEF BootedDriver, DriverState
  <2>2. QED
    BY <1>1, <1>3, <2>1, StoppedKeeps DEF HostReboot, Fault
<1>4. CASE LeaseExpires
  <2>1. /\ driver' \in DriverState /\ driver'.policy = driver.policy
        /\ ~driver'.lease /\ ~driver'.datagram /\ ~driver'.canary
    BY <1>1, <1>4, UnleasedTyped DEF LeaseExpires
  <2>2. faults' \in Nat /\ UNCHANGED <<disk, guards, dataPlane, broker, job, reply>>
    BY <1>1, <1>4 DEF LeaseExpires, Fault
  <2>3. QED
    BY <1>1, <2>1, <2>2
       DEF Routed, Staged, Gated, Planned, Synced, FailClosed,
           GuardsAreAccountedFor, RedirectsUnderGuards, ExecutablesLocked
<1>5. CASE RenewLate
  <2>1. /\ broker.runtime # "none" /\ ~driver.lease
        /\ UNCHANGED <<disk, guards, dataPlane, broker, job, reply, faults>>
    BY <1>5 DEF RenewLate, NoFault
  <2>2. ~driver.datagram
    BY <2>1 DEF RedirectsUnderGuards
  <2>3. /\ driver' \in DriverState /\ driver'.policy = driver.policy
        /\ ~driver'.datagram /\ driver'.canary = driver.canary
    BY <1>1, <1>5, <2>2 DEF RenewLate, DriverState
  <2>4. QED
    BY <1>1, <2>1, <2>3
       DEF Routed, Staged, Gated, Planned, Synced, FailClosed,
           GuardsAreAccountedFor, RedirectsUnderGuards, ExecutablesLocked
<1>6. CASE RenewalFails
  <2>1. /\ driver' \in DriverState /\ driver'.policy = driver.policy
        /\ ~driver'.lease /\ ~driver'.datagram /\ ~driver'.canary
    BY <1>1, <1>6, UnleasedTyped DEF RenewalFails
  <2>2. /\ faults' \in Nat /\ UNCHANGED <<disk, guards, dataPlane, job, reply>>
        /\ broker.runtime # "none"
    BY <1>1, <1>6 DEF RenewalFails, Fault
  <2>3. /\ broker' \in BrokerMemory
        /\ broker'.marker = broker.marker /\ broker'.hwm = broker.hwm
        /\ broker'.phase = broker.phase /\ broker'.verified = broker.verified
        /\ broker'.plan = broker.plan
    BY <1>1, <1>6 DEF RenewalFails, BrokerMemory, Runtimes
  <2>4. job.at = "idle" \/ job.op = "commit"
    BY <2>2 DEF Gated
  <2>5. QED
    BY <1>1, <2>1, <2>2, <2>3, <2>4
       DEF Routed, Staged, Gated, Planned, Synced, FailClosed,
           GuardsAreAccountedFor, RedirectsUnderGuards, ExecutablesLocked
<1>7. CASE BridgeFails
  <2>1. /\ faults' \in Nat /\ UNCHANGED <<disk, guards, dataPlane, driver, job, reply>>
        /\ broker.runtime = "alive"
    BY <1>1, <1>7 DEF BridgeFails, Fault, NoFault
  <2>2. /\ broker' \in BrokerMemory
        /\ broker'.marker = broker.marker /\ broker'.hwm = broker.hwm
        /\ broker'.phase = broker.phase /\ broker'.verified = broker.verified
        /\ broker'.plan = broker.plan /\ broker'.runtime = "deaf"
    BY <1>1, <1>7 DEF BridgeFails, BrokerMemory, Runtimes
  <2>3. job.at = "idle" \/ job.op = "commit"
    BY <2>1 DEF Gated
  <2>4. QED
    BY <1>1, <2>1, <2>2, <2>3
       DEF Routed, Staged, Gated, Planned, Synced, FailClosed,
           GuardsAreAccountedFor, RedirectsUnderGuards, ExecutablesLocked
<1>8. QED
  BY <1>2, <1>3, <1>4, <1>5, <1>6, <1>7 DEF Environment

-----------------------------------------------------------------------------
(* Commands.                                                                *)

(* What a command that begins looks like.                                   *)
LEMMA BeginsTyped ==
  ASSUME NEW op \in Ops, NEW at \in Steps, NEW p \in Policy, NEW clean \in BOOLEAN,
         Begin(op, at, p, clean)
  PROVE  job' \in Job /\ job'.op = op /\ job'.at = at /\ job'.policy = p /\ reply' = reply
BY DEF Begin, Job, Policy

(* What a command that is refused leaves.                                   *)
LEMMA RejectTyped ==
  ASSUME NEW op \in Ops, Reject(op)
  PROVE  /\ job' \in Job /\ job'.op = "none" /\ job'.at = "idle"
         /\ reply' \in Reply
<1>1. Silent(op) \in Reply
  BY DEF Silent, Reply
<1>2. QED
  BY <1>1 DEF Reject, NoJob, Job, Ops, Steps

(* What giving up the runtime leaves.                                       *)
Idled ==
  /\ driver' \in DriverState /\ driver'.policy = driver.policy
  /\ ~driver'.lease /\ ~driver'.datagram /\ ~driver'.canary
  /\ broker' \in BrokerMemory
  /\ broker'.marker = broker.marker /\ broker'.hwm = broker.hwm
  /\ broker'.phase = broker.phase /\ broker'.verified = broker.verified
  /\ broker'.plan = broker.plan /\ broker'.runtime = "none"

(* Giving up the runtime closes the gate, even when there was no lease to   *)
(* revoke.                                                                  *)
LEMMA RuntimeGivenUp ==
  ASSUME IInv, job.at = "idle",
         driver' = Unleased \/ (broker.runtime = "none" /\ driver' = driver),
         broker' = [broker EXCEPT !.runtime = "none"]
  PROVE  Idled
<1>1. broker \in BrokerMemory /\ driver \in DriverState
  OBVIOUS
<1>2. CASE driver' = Unleased
  BY <1>1, <1>2, UnleasedTyped DEF Idled, BrokerMemory, Runtimes
<1>3. CASE broker.runtime = "none" /\ driver' = driver
  <2>1. ~driver.lease /\ ~driver.datagram /\ ~driver.canary
    BY <1>3 DEF Gated, RedirectsUnderGuards
  <2>2. QED
    BY <1>1, <1>3, <2>1 DEF Idled, BrokerMemory, Runtimes
<1>4. QED
  BY <1>2, <1>3

(* deactivate always leaves the runtime given up.                           *)
LEMMA Deactivated ==
  ASSUME IInv, job.at = "idle", NEW clean, DeactivateRuntime(clean)
  PROVE  Idled /\ faults' \in Nat
<1>1. faults' \in Nat
  BY DEF DeactivateRuntime, GivenUp, NoFault, Fault
<1>2. QED
  BY <1>1, RuntimeGivenUp DEF DeactivateRuntime, GivenUp

(* A refused command has at most given up the runtime.                      *)
LEMMA RejectedKeeps ==
  ASSUME IInv, job.at = "idle", NEW op \in Ops, Reject(op), Idled, faults' \in Nat,
         UNCHANGED <<disk, guards, dataPlane>>
  PROVE  IInv'
<1>1. /\ job' \in Job /\ job'.op = "none" /\ job'.at = "idle" /\ reply' \in Reply
      /\ job.op = "none"
  BY RejectTyped DEF Routed
<1>2. QED
  BY <1>1
     DEF Idled, Routed, Staged, Gated, Planned, Synced, FailClosed,
         GuardsAreAccountedFor, RedirectsUnderGuards, ExecutablesLocked

(* PreparePolicy begins a replay, a migration or a fresh policy, or is      *)
(* refused.                                                                 *)
LEMMA PrepareKeeps == ASSUME IInv, NEW p \in Policies, Prepare(p) PROVE IInv'
<1>1. /\ job.at = "idle" /\ job.op = "none" /\ Idled /\ faults' \in Nat
      /\ UNCHANGED <<disk, guards, dataPlane>>
  BY Deactivated DEF Prepare, Routed
<1>2. p \in Policy
  BY DEF Policy
<1>3. CASE Replays(p) /\ Begin("replay", "Load", p, TRUE)
  <2>1. /\ job' \in Job /\ job'.op = "replay" /\ job'.at = "Load" /\ reply' = reply
    <3>1. "replay" \in Ops /\ "Load" \in Steps /\ TRUE \in BOOLEAN
      BY DEF Ops, Steps
    <3>2. QED
      BY <1>2, <1>3, <3>1, BeginsTyped
  <2>2. QED
    BY <1>1, <2>1
       DEF Idled, Routed, Staged, Gated, Planned, Synced, FailClosed,
           GuardsAreAccountedFor, RedirectsUnderGuards, ExecutablesLocked
<1>4. CASE Migrates(p) /\ Begin("migrate", "Deactivate", p, TRUE)
  <2>1. /\ job' \in Job /\ job'.op = "migrate" /\ job'.at = "Deactivate"
        /\ job'.policy = p /\ reply' = reply
    <3>1. "migrate" \in Ops /\ "Deactivate" \in Steps /\ TRUE \in BOOLEAN
      BY DEF Ops, Steps
    <3>2. QED
      BY <1>2, <1>4, <3>1, BeginsTyped
  <2>2. /\ ValidateIdentityMigration(Current, p) /\ Current # None
        /\ broker.marker.phase # "Disabling"
    BY <1>4 DEF Migrates
  <2>3. Current \in Policies
    BY <2>2 DEF NoMarker
  <2>4. QED
    BY <1>1, <2>1, <2>2, <2>3
       DEF Idled, Routed, Staged, Gated, Planned, Synced, FailClosed,
           GuardsAreAccountedFor, RedirectsUnderGuards, ExecutablesLocked
<1>5. CASE IsFresh(p) /\ Begin("prepare", "Preparing", p, TRUE)
  <2>1. /\ job' \in Job /\ job'.op = "prepare" /\ job'.at = "Preparing"
        /\ job'.policy = p /\ reply' = reply
    <3>1. "prepare" \in Ops /\ "Preparing" \in Steps /\ TRUE \in BOOLEAN
      BY DEF Ops, Steps
    <3>2. QED
      BY <1>2, <1>5, <3>1, BeginsTyped
  <2>2. Revision[p] > disk.hwm /\ disk.marker.policy = None
    BY <1>1, <1>5 DEF IsFresh, Synced
  <2>3. disk.marker = NoMarker
    BY <2>2, PolicyAssumption
  <2>4. guards = {} /\ dataPlane = {}
    BY <2>3 DEF GuardsAreAccountedFor, RedirectsUnderGuards
  <2>5. QED
    BY <1>1, <2>1, <2>2, <2>4
       DEF Idled, Routed, Staged, Gated, Planned, Synced, FailClosed,
           GuardsAreAccountedFor, RedirectsUnderGuards, ExecutablesLocked
<1>6. CASE Reject("prepare")
  BY <1>1, <1>6, RejectedKeeps DEF Ops
<1>7. QED
  BY <1>3, <1>4, <1>5, <1>6 DEF Prepare

(* PreparePolicy is refused when the runtime cannot be given up.            *)
LEMMA PrepareUndeactivatedKeeps == ASSUME IInv, PrepareUndeactivated PROVE IInv'
<1>1. /\ job.at = "idle" /\ Reject("prepare") /\ Idled /\ faults' \in Nat
      /\ UNCHANGED <<disk, guards, dataPlane>>
  BY Deactivated DEF PrepareUndeactivated
<1>2. QED
  BY <1>1, RejectedKeeps DEF Ops

(* PreparePolicy is refused when the executables do not verify.             *)
LEMMA PrepareUnverifiedKeeps ==
  ASSUME IInv, NEW p \in Policies, PrepareUnverified(p)
  PROVE  IInv'
<1>1. /\ job.at = "idle" /\ Reject("prepare") /\ Idled /\ faults' \in Nat
      /\ UNCHANGED <<disk, guards, dataPlane>>
  BY RuntimeGivenUp DEF PrepareUnverified, Fault
<1>2. QED
  BY <1>1, RejectedKeeps DEF Ops

(* CommitPolicy begins only for a blocking policy, which has proxied        *)
(* entries.                                                                 *)
LEMMA CommitKeeps == ASSUME IInv, NEW p \in Policies, Commit(p) PROVE IInv'
<1>1. /\ job.at = "idle" /\ job.op = "none"
      /\ UNCHANGED <<disk, guards, dataPlane, driver, broker, faults>>
  BY DEF Commit, NoFault, Routed
<1>2. CASE Current = p /\ broker.phase = "Blocking" /\ Begin("commit", "Measure", p, TRUE)
  <2>1. /\ job' \in Job /\ job'.op = "commit" /\ job'.at = "Measure" /\ reply' = reply
    BY <1>2, BeginsTyped DEF Ops, Steps, Policy
  <2>2. QED
    BY <1>1, <1>2, <2>1
       DEF Routed, Staged, Gated, Planned, Synced, FailClosed,
           GuardsAreAccountedFor, RedirectsUnderGuards, ExecutablesLocked
<1>3. CASE Reject("commit")
  <2>1. job' \in Job /\ job'.op = "none" /\ job'.at = "idle" /\ reply' \in Reply
    BY <1>3, RejectTyped DEF Ops
  <2>2. QED
    BY <1>1, <2>1
       DEF Routed, Staged, Gated, Planned, Synced, FailClosed,
           GuardsAreAccountedFor, RedirectsUnderGuards, ExecutablesLocked
<1>4. QED
  BY <1>2, <1>3 DEF Commit

(* ForceBlocking begins under the policy of the marker.                     *)
LEMMA ForceBlockingKeeps == ASSUME IInv, NEW p \in Policies, ForceBlocking(p) PROVE IInv'
<1>1. job.at = "idle" /\ job.op = "none" /\ UNCHANGED <<disk, guards, dataPlane>>
  BY DEF ForceBlocking, Routed
<1>2. PICK clean \in BOOLEAN :
        /\ DeactivateRuntime(clean)
        /\ IF Current # None /\ Revision[Current] = Revision[p]
           THEN Begin("block", "Deactivate", Current, clean)
           ELSE Reject("block")
  BY DEF ForceBlocking
<1>3. Idled /\ faults' \in Nat
  BY <1>1, <1>2, Deactivated
<1>4. CASE Current # None /\ Begin("block", "Deactivate", Current, clean)
  <2>1. Current \in Policies
    BY <1>4 DEF NoMarker
  <2>2. /\ job' \in Job /\ job'.op = "block" /\ job'.at = "Deactivate" /\ reply' = reply
    BY <1>4, <2>1, BeginsTyped DEF Ops, Steps, Policy
  <2>3. QED
    BY <1>1, <1>3, <2>1, <2>2
       DEF Idled, Routed, Staged, Gated, Planned, Synced, FailClosed,
           GuardsAreAccountedFor, RedirectsUnderGuards, ExecutablesLocked
<1>5. CASE Reject("block")
  BY <1>1, <1>3, <1>5, RejectedKeeps DEF Ops
<1>6. QED
  BY <1>2, <1>4, <1>5

(* DisablePolicy begins under the policy of the marker.                     *)
LEMMA DisableKeeps == ASSUME IInv, NEW p \in Policies, Disable(p) PROVE IInv'
<1>1. job.at = "idle" /\ job.op = "none" /\ UNCHANGED <<disk, guards, dataPlane>>
  BY DEF Disable, Routed
<1>2. PICK clean \in BOOLEAN :
        /\ DeactivateRuntime(clean)
        /\ IF Current # None /\ Revision[Current] = Revision[p]
           THEN Begin("disable", "Disabling", Current, clean)
           ELSE Reject("disable")
  BY DEF Disable
<1>3. Idled /\ faults' \in Nat
  BY <1>1, <1>2, Deactivated
<1>4. CASE Current # None /\ Begin("disable", "Disabling", Current, clean)
  <2>1. Current \in Policies
    BY <1>4 DEF NoMarker
  <2>2. /\ job' \in Job /\ job'.op = "disable" /\ job'.at = "Disabling" /\ reply' = reply
    BY <1>4, <2>1, BeginsTyped DEF Ops, Steps, Policy
  <2>3. QED
    BY <1>1, <1>3, <2>1, <2>2
       DEF Idled, Routed, Staged, Gated, Planned, Synced, FailClosed,
           GuardsAreAccountedFor, RedirectsUnderGuards, ExecutablesLocked
<1>5. CASE Reject("disable")
  BY <1>1, <1>3, <1>5, RejectedKeeps DEF Ops
<1>6. QED
  BY <1>2, <1>4, <1>5

(* A status read changes only the reply.                                    *)
LEMMA StatusKeeps == ASSUME IInv, Status PROVE IInv'
<1>1. UNCHANGED <<disk, guards, dataPlane, driver, broker, job>>
  BY DEF Status
<1>2. reply' \in Reply /\ faults' \in Nat
  <2>1. broker \in BrokerMemory /\ driver \in DriverState /\ faults \in Nat
    OBVIOUS
  <2>2. Snapshot(driver, guards, dataPlane) \in SnapshotType
    BY <2>1, SnapshotTyped
  <2>3. /\ Silent("status") \in Reply
        /\ StatusReply("status", broker, Snapshot(driver, guards, dataPlane)) \in Reply
    BY <2>1, <2>2, ReplyTyped DEF Ops
  <2>4. QED
    BY <2>1, <2>3 DEF Status, NoFault, Fault
<1>3. QED
  BY <1>1, <1>2
     DEF Routed, Staged, Gated, Planned, Synced, FailClosed, GuardsAreAccountedFor,
         RedirectsUnderGuards, ExecutablesLocked

(* A teardown gives up the runtime whatever the policy is.                  *)
LEMMA TeardownKeeps ==
  ASSUME IInv, NEW op \in {"teardown", "health", "shutdown"}, Teardown(op)
  PROVE  IInv'
<1>1. /\ job.at = "idle" /\ job.op = "none" /\ Idled
      /\ UNCHANGED <<disk, guards, dataPlane>>
  BY RuntimeGivenUp DEF Teardown, GivenUp, Routed
<1>2. PICK clean \in BOOLEAN :
        /\ GivenUp(clean)
        /\ IF Current # None THEN Begin(op, "Deactivate", Current, clean)
           ELSE IF PresentInventory /\ clean /\ op # "shutdown"
                THEN UNCHANGED <<job, reply>>
                ELSE Begin(op, "Failed", None, clean)
  BY DEF Teardown
<1>3. faults' \in Nat
  BY <1>2 DEF GivenUp, NoFault, Fault
<1>4. CASE Current # None /\ Begin(op, "Deactivate", Current, clean)
  <2>1. Current \in Policies
    BY <1>4 DEF NoMarker
  <2>2. /\ job' \in Job /\ job'.op = op /\ job'.at = "Deactivate" /\ reply' = reply
    BY <1>4, <2>1, BeginsTyped DEF Ops, Steps, Policy
  <2>3. QED
    BY <1>1, <1>3, <2>1, <2>2
       DEF Idled, Routed, Staged, Gated, Planned, Synced, FailClosed,
           GuardsAreAccountedFor, RedirectsUnderGuards, ExecutablesLocked
<1>5. CASE UNCHANGED <<job, reply>>
  BY <1>1, <1>3, <1>5
     DEF Idled, Routed, Staged, Gated, Planned, Synced, FailClosed,
         GuardsAreAccountedFor, RedirectsUnderGuards, ExecutablesLocked
<1>6. CASE Begin(op, "Failed", None, clean)
  <2>1. /\ job' \in Job /\ job'.op = op /\ job'.at = "Failed" /\ reply' = reply
    BY <1>6, BeginsTyped DEF Ops, Steps, Policy
  <2>2. QED
    BY <1>1, <1>3, <2>1
       DEF Idled, Routed, Staged, Gated, Planned, Synced, FailClosed,
           GuardsAreAccountedFor, RedirectsUnderGuards, ExecutablesLocked
<1>7. QED
  BY <1>2, <1>4, <1>5, <1>6

-----------------------------------------------------------------------------
(* The invariant.                                                           *)

(* A freshly installed Broker satisfies the invariant.                      *)
LEMMA InitInvariant == Init => IInv
<1> SUFFICES ASSUME Init PROVE IInv
  OBVIOUS
<1>1. TypeInv
  BY DEF Init, BootedDriver, DriverState, FreshMemory, BrokerMemory, Runtimes, NoMarker,
         Marker, Phases, NoJob, Job, Ops, Steps, Silent, Reply, FilterKeys
<1>2. Placed
  BY DEF Init, Routed, Staged, Gated, Planned, Synced, NoJob, FreshMemory,
         BootedDriver, NoMarker
<1>3. Safe
  BY DEF Init, FailClosed, GuardsAreAccountedFor, RedirectsUnderGuards,
         ExecutablesLocked, Enforced, NoMarker, NoJob, BootedDriver
<1>4. QED
  BY <1>1, <1>2, <1>3

(* Every step keeps the invariant.                                          *)
LEMMA Invariance == IInv /\ [Next]_vars => IInv'
<1> SUFFICES ASSUME IInv, [Next]_vars PROVE IInv'
  OBVIOUS
<1>1. CASE Request
  <2>1. CASE PrepareUndeactivated
    BY <2>1, PrepareUndeactivatedKeeps
  <2>2. CASE Status
    BY <2>2, StatusKeeps
  <2>3. ASSUME NEW p \in Policies,
               Prepare(p) \/ PrepareUnverified(p) \/ Commit(p) \/ ForceBlocking(p)
                 \/ Disable(p)
        PROVE  IInv'
    BY <2>3, PrepareKeeps, PrepareUnverifiedKeeps, CommitKeeps, ForceBlockingKeeps,
       DisableKeeps
  <2>4. QED
    BY <1>1, <2>1, <2>2, <2>3 DEF Request
<1>2. CASE Teardown("teardown") \/ Teardown("shutdown") \/ HealthTeardown
  BY <1>2, TeardownKeeps DEF HealthTeardown
<1>3. CASE EngineStep
  BY <1>3, PersistPreparingKeeps, UploadKeeps, ReplaceKeeps, UnloadUnusedKeeps,
     AttestKeeps, PublishKeeps, LoadKeeps, DeactivateKeeps, DropRedirectsKeeps,
     BlockedKeeps, RolledBackKeeps, DisarmedKeeps, PersistDisablingKeeps,
     DropGuardsKeeps, UnloadKeeps, ClearKeeps, MeasureKeeps, CanaryKeeps,
     CloseGateKeeps, RedirectsKeeps, ActivateKeeps, AttestActiveKeeps, CleanupKeeps,
     VerifyKeeps, ArmKeeps, RollbackKeeps, FailsKeeps, StepFailsKeeps
     DEF EngineStep
<1>4. CASE Start
  BY <1>4, StartKeeps
<1>5. CASE Environment
  BY <1>5, EnvironmentKeeps
<1>6. CASE Halted
  BY <1>6, HaltedKeeps
<1>7. CASE UNCHANGED vars
  BY <1>7
     DEF vars, Routed, Staged, Gated, Planned, Synced, FailClosed,
         GuardsAreAccountedFor, RedirectsUnderGuards, ExecutablesLocked
<1>8. QED
  BY <1>1, <1>2, <1>3, <1>4, <1>5, <1>6, <1>7 DEF Next

(* The invariant holds throughout.                                          *)
LEMMA InvariantHolds == Spec => []IInv
<1>1. QED
  BY InitInvariant, Invariance, PTL DEF Spec

-----------------------------------------------------------------------------
(* What follows from the invariant.                                        *)

USE DEF IInv, TypeInv, TypeOK, Placed, Safe, Running, Absent, Policyless,
        CommitSteps, RemoveSteps, InstallSteps, WellFormed, Current

(* Every variable keeps its shape, for any policies and any number of       *)
(* faults.                                                                  *)
THEOREM TypeCorrect == Spec => []TypeOK
<1>1. IInv => TypeOK
  OBVIOUS
<1>2. QED
  BY <1>1, InvariantHolds, PTL

(* The complete guards are installed whenever the recovery file names an    *)
(* enforced policy (lib.rs prepare, commit, force_blocking, recover).       *)
THEOREM FailsClosed == Spec => []FailClosed
<1>1. IInv => FailClosed
  OBVIOUS
<1>2. QED
  BY <1>1, InvariantHolds, PTL

(* No guard is ever installed that the recovery file does not explain       *)
(* (lib.rs complete_disable, recover).                                      *)
THEOREM AllGuardsAccountedFor == Spec => []GuardsAreAccountedFor
<1>1. IInv => GuardsAreAccountedFor
  OBVIOUS
<1>2. QED
  BY <1>1, InvariantHolds, PTL

(* Redirects exist only above the complete guards, and the gate is open     *)
(* only under a lease (planned_wfp_backend.rs, driver.c).                   *)
THEOREM ForwardsOnlyGuarded == Spec => []RedirectsUnderGuards
<1>1. IInv => RedirectsUnderGuards
  OBVIOUS
<1>2. QED
  BY <1>1, InvariantHolds, PTL

(* Whatever the guards cover is verified and replacement-locked (lib.rs     *)
(* verification lease).                                                     *)
THEOREM KeepsExecutablesLocked == Spec => []ExecutablesLocked
<1>1. IInv => ExecutablesLocked
  OBVIOUS
<1>2. QED
  BY <1>1, InvariantHolds, PTL

(* Memory and recovery file agree outside startup (lib.rs,                  *)
(* recovery_file.rs).                                                       *)
THEOREM MemoryIsDurable == Spec => []MemoryFollowsDisk
<1>1. IInv => MemoryFollowsDisk
  BY DEF Synced, MemoryFollowsDisk
<1>2. QED
  BY <1>1, InvariantHolds, PTL

(* Filters, gate, memory and locks follow the recovery file (lib.rs,        *)
(* planned_wfp_backend.rs, recovery_file.rs).                               *)
THEOREM StateFollowsTheFile == Spec => []FollowsTheFile
<1>1. FailClosed /\ GuardsAreAccountedFor /\ RedirectsUnderGuards
        /\ MemoryFollowsDisk /\ ExecutablesLocked
      => FollowsTheFile
  BY DEF FollowsTheFile
<1>2. QED
  BY <1>1, FailsClosed, AllGuardsAccountedFor, ForwardsOnlyGuarded, MemoryIsDurable,
     KeepsExecutablesLocked, PTL

(* A status proof claims no forwarding, and no absence of filters, that is  *)
(* not real (lib.rs status_from_snapshot).                                  *)
THEOREM StatusIsHonest == Spec => []HonestStatus
<1>1. ASSUME IInv PROVE HonestStatus
  <2> DEFINE answer == StatusReply("status", broker, Snapshot(driver, guards, dataPlane))
  <2> SUFFICES ASSUME job.at = "idle", PresentInventory, answer.ok
               PROVE  /\ answer.capable => /\ driver.lease /\ ~driver.canary
                                           /\ ExactInventory(answer.policy, TRUE, TRUE)
                      /\ answer.policy = None => guards = {} /\ driver.policy = None
    BY DEF HonestStatus
  <2>1. /\ answer.policy = Current
        /\ answer.capable => dataPlane # {} /\ driver.datagram
        /\ broker.marker = NoMarker => driver.policy = None /\ guards = {}
    BY DEF StatusReply, Silent, Snapshot
  <2> HIDE DEF answer
  <2>2. /\ broker.marker.policy = disk.marker.policy /\ job.op = "none"
        /\ broker.marker = NoMarker \/ broker.marker.policy \in Policies
        /\ disk.marker = NoMarker \/ disk.marker.policy \in Policies
    BY <1>1 DEF Synced, Routed
  <2>3. Current = None => guards = {} /\ driver.policy = None
    BY <2>1, <2>2, PolicyAssumption
  <2>4. ASSUME dataPlane # {}, driver.datagram
        PROVE  /\ driver.lease /\ ~driver.canary
               /\ ExactInventory(Current, TRUE, TRUE)
    <3>1. /\ guards = GuardFilters(disk.marker.policy) /\ disk.marker # NoMarker
          /\ dataPlane = DataPlaneFilters(disk.marker.policy)
          /\ driver.lease /\ driver.policy = disk.marker.policy /\ ~driver.canary
      BY <1>1, <2>2, <2>4 DEF Gated, RedirectsUnderGuards
    <3>2. QED
      BY <2>2, <2>4, <3>1 DEF ExactInventory
  <2>5. QED
    BY <2>1, <2>3, <2>4
<1>2. QED
  BY <1>1, InvariantHolds, PTL

(* Guards are removed only under a durable Disabling marker (lib.rs         *)
(* complete_disable).                                                       *)
THEOREM GuardsStay == Spec => GuardsLeaveOnlyByDisable
<1>1. ASSUME IInv, [Next]_vars
      PROVE  [guards \subseteq guards' \/ disk.marker.phase = "Disabling"]_vars
  <2>1. CASE Replace
    <3>1. /\ job.at = "Replace" /\ guards' = GuardFilters(Current)
      BY <2>1 DEF Replace
    <3>2. disk.marker.policy = Current
      BY <1>1, <3>1 DEF Synced
    <3>3. guards \subseteq GuardFilters(Current)
      BY <1>1, <3>2 DEF GuardsAreAccountedFor
    <3>4. QED
      BY <3>1, <3>3
  <2>2. CASE DropGuards
    <3>1. disk.marker.phase = "Disabling"
      BY <1>1, <2>2 DEF DropGuards, Staged, Synced
    <3>2. QED
      BY <3>1
  <2>3. CASE UNCHANGED guards
    BY <2>3
  <2>4. Next => UNCHANGED guards \/ Replace \/ DropGuards
    <3>1. Request \/ Start \/ Halted \/ Environment => UNCHANGED guards
      BY DEF Request, Prepare, PrepareUnverified, Commit, ForceBlocking, Disable,
             PrepareUndeactivated, Status, Start, Environment, Crash, HostReboot,
             LeaseExpires, RenewLate, RenewalFails, BridgeFails, Stopped, Halted,
             Unavailable, ServiceEnds
    <3>2. Teardown("teardown") \/ Teardown("shutdown") \/ HealthTeardown => UNCHANGED guards
      BY DEF Teardown, HealthTeardown
    <3>3. EngineStep => UNCHANGED guards \/ Replace \/ DropGuards
      BY DEF EngineStep, PersistPreparing, Upload, UnloadUnused, Attest, Publish,
             Load, Deactivate, DropRedirects, Blocked, RolledBack, Disarmed,
             PersistDisabling, Unload, Clear, Measure, Canary, CloseGate, Redirects,
             Activate, AttestActive, Cleanup, Verify, Arm, Rollback, Fails,
             StepFails, Stopped
    <3>4. QED
      BY <3>1, <3>2, <3>3 DEF Next
  <2>5. QED
    BY <1>1, <2>1, <2>2, <2>3, <2>4 DEF vars
<1>2. QED
  BY <1>1, InvariantHolds, PTL DEF Spec, GuardsLeaveOnlyByDisable

(* The high watermark never falls and no revision is used twice             *)
(* (recovery_file.rs persist).                                              *)
THEOREM RevisionsOnlyAdvance == Spec => RevisionsAdvance
<1> DEFINE Advances ==
      /\ disk'.hwm >= disk.hwm
      /\ disk'.marker.policy \notin {None, disk.marker.policy}
           => Revision[disk'.marker.policy] > disk.hwm
<1>1. ASSUME IInv, [Next]_vars PROVE [Advances]_vars
  <2>0. disk \in [hwm : Nat, marker : Marker]
    BY <1>1
  <2>1. CASE PersistPreparing
    <3>1. /\ job.at = "Preparing" /\ job.policy \in Policies
      BY <1>1, <2>1 DEF PersistPreparing, Routed
    <3>2. Revision[job.policy] > disk.hwm
      BY <1>1, <3>1 DEF Staged
    <3>3. disk' = [hwm |-> Revision[job.policy],
                   marker |-> [policy |-> job.policy, phase |-> "Preparing"]]
      BY <2>1 DEF PersistPreparing, Persist
    <3>4. QED
      BY <2>0, <3>1, <3>2, <3>3, PolicyAssumption
  <2>2. ASSUME NEW phase \in Phases, Persist(Current, phase), Current = disk.marker.policy,
               Current \in Policies
        PROVE  Advances
    BY <1>1, <2>2, <2>0, PersistCurrent, PolicyAssumption
  <2>3. CASE Publish \/ Blocked \/ RolledBack \/ PersistDisabling \/ Arm
    <3>1. Current \in Policies /\ Current = disk.marker.policy
      BY <1>1, <2>3
         DEF Publish, Blocked, RolledBack, PersistDisabling, Arm, Routed, Synced
    <3>2. UNCHANGED disk \/ \E phase \in Phases : Persist(Current, phase)
      BY <2>3, <3>1, ReadyPhases
         DEF Publish, Blocked, RolledBack, PersistDisabling, Arm, Phases
    <3>3. QED
      BY <2>0, <2>2, <3>1, <3>2
  <2>4. CASE Clear
    BY <2>0, <2>4 DEF Clear, NoMarker
  <2>5. CASE UNCHANGED disk
    BY <2>0, <2>5
  <2>6. Next => UNCHANGED disk \/ PersistPreparing \/ Publish \/ Blocked \/ RolledBack
                  \/ PersistDisabling \/ Arm \/ Clear
    <3>1. Request \/ Start \/ Halted \/ Environment => UNCHANGED disk
      BY DEF Request, Prepare, PrepareUnverified, Commit, ForceBlocking, Disable,
             PrepareUndeactivated, Status, Start, Environment, Crash, HostReboot,
             LeaseExpires, RenewLate, RenewalFails, BridgeFails, Stopped, Halted,
             Unavailable, ServiceEnds
    <3>2. Teardown("teardown") \/ Teardown("shutdown") \/ HealthTeardown => UNCHANGED disk
      BY DEF Teardown, HealthTeardown
    <3>3. EngineStep => UNCHANGED disk \/ PersistPreparing \/ Publish \/ Blocked
                          \/ RolledBack \/ PersistDisabling \/ Arm \/ Clear
      BY DEF EngineStep, Upload, Replace, UnloadUnused, Attest, Load, Deactivate,
             DropRedirects, Disarmed, DropGuards, Unload, Measure, Canary,
             CloseGate, Redirects, Activate, AttestActive, Cleanup, Verify,
             Rollback, Fails, StepFails, Stopped
    <3>4. QED
      BY <3>1, <3>2, <3>3 DEF Next
  <2>7. QED
    BY <1>1, <2>1, <2>3, <2>4, <2>5, <2>6 DEF vars
<1>2. QED
  BY <1>1, InvariantHolds, PTL DEF Spec, RevisionsAdvance

-----------------------------------------------------------------------------
(* The refinement.  The variables are changed in three ways only: a step    *)
(* writes the recovery file, or changes the guards, or does neither; each   *)
(* way has its own lemma about the step of the promise it amounts to.       *)

(* The promise's names stand for the Broker's: both read the same policies. *)
LEMMA SamePolicies ==
  /\ \A p : Promise!Protected(p) = Protected(p) /\ Promise!Proxied(p) = Proxied(p)
  /\ \A p, q : ValidateIdentityMigration(p, q) => Promise!ValidateIdentityMigration(p, q)
<1>1. \A p : Promise!Protected(p) = Protected(p) /\ Promise!Proxied(p) = Proxied(p)
  BY DEF Promise!Protected, Promise!Proxied, Promise!FamilyOf, Promise!Actions, Protected,
         Proxied, FamilyOf, Actions
<1>2. \A S : Promise!Cardinality(S) = Cardinality(S)
  BY DEF Promise!Cardinality, Cardinality
<1>3. QED
  BY <1>1, <1>2 DEF Promise!ValidateIdentityMigration, ValidateIdentityMigration

(* A guard key of an application is in the policy's families.               *)
LEMMA GuardsOfApps ==
  ASSUME NEW p \in Policies, NEW app \in Apps
  PROVE  app \in GuardFilters(p) <=> app \in Protected(p)
BY PolicyAssumption DEF GuardFilters

(* Families name applications, and what is proxied is protected.            *)
LEMMA ProtectedAreApps ==
  ASSUME NEW p \in Policies
  PROVE  Protected(p) \subseteq Apps /\ Proxied(p) \subseteq Protected(p)
BY PolicyAssumption DEF Protected, Proxied, FamilyOf, Actions, Entry

-----------------------------------------------------------------------------
(* What the inductive invariant does not say of the steps before a write.   *)

(* A policy is about to be recorded only over no other policy or over the   *)
(* one it migrates, and the record is about to be cleared only when it says *)
(* Disabling.                                                               *)
Lineage ==
  /\ job.at = "Preparing" =>
        \/ disk.marker = NoMarker
        \/ /\ disk.marker.phase # "Disabling"
           /\ ValidateIdentityMigration(disk.marker.policy, job.policy)
  /\ job.at \in {"Unload", "Clear"} => disk.marker.phase = "Disabling"

(* Nothing is on its way in a fresh installation.                           *)
LEMMA InitLineage == Init => Lineage
BY DEF Init, Lineage, NoJob

(* Every step keeps it.                                                     *)
LEMMA LineageKept == IInv /\ Lineage /\ [Next]_vars => Lineage'
<1> SUFFICES ASSUME IInv, Lineage, [Next]_vars PROVE Lineage'
  OBVIOUS
<1>1. ASSUME job'.at \notin {"Preparing", "Unload", "Clear"} PROVE Lineage'
  BY <1>1 DEF Lineage
<1>2. ASSUME UNCHANGED <<job, disk>> PROVE Lineage'
  BY <1>2 DEF Lineage
<1>3. job \in Job
  OBVIOUS
<1>4. ASSUME NEW at \in Steps, NEW failed \in Steps
      PROVE  /\ Goto(at) => job'.at = at /\ job'.policy = job.policy
             /\ Try(at, failed) => job'.at \in {at, failed}
  BY <1>3 DEF Goto, Try, Job
<1>5. CASE Request
  <2>1. ASSUME NEW p \in Policies, Prepare(p) PROVE Lineage'
    <3>1. CASE Migrates(p) /\ Begin("migrate", "Deactivate", p, TRUE)
      BY <1>1, <3>1 DEF Begin
    <3>2. CASE IsFresh(p) /\ Begin("prepare", "Preparing", p, TRUE)
      <4>1. disk.marker = NoMarker /\ UNCHANGED disk
        BY <2>1, <3>2, PolicyAssumption DEF Prepare, IsFresh, Routed, Synced
      <4>2. job'.at = "Preparing"
        BY <3>2 DEF Begin
      <4>3. QED
        BY <4>1, <4>2 DEF Lineage
    <3>3. CASE Begin("replay", "Load", p, TRUE) \/ Reject("prepare")
      BY <1>1, <3>3 DEF Begin, Reject, NoJob
    <3>4. QED
      BY <2>1, <3>1, <3>2, <3>3 DEF Prepare
  <2>2. ASSUME NEW p \in Policies,
               PrepareUnverified(p) \/ Commit(p) \/ ForceBlocking(p) \/ Disable(p)
        PROVE  Lineage'
    BY <1>1, <2>2 DEF PrepareUnverified, Commit, ForceBlocking, Disable, Begin, Reject, NoJob
  <2>3. CASE PrepareUndeactivated
    BY <1>1, <2>3 DEF PrepareUndeactivated, Reject, NoJob
  <2>4. CASE Status
    BY <1>2, <2>4 DEF Status
  <2>5. QED
    BY <1>5, <2>1, <2>2, <2>3, <2>4 DEF Request
<1>6. CASE Teardown("teardown") \/ Teardown("shutdown") \/ HealthTeardown
  BY <1>1, <1>2, <1>6 DEF HealthTeardown, Teardown, Begin
<1>7. CASE EngineStep
  <2>1. CASE Blocked
    <3>1. /\ job.at = "Removed" /\ job.op \in {"block", "teardown", "health", "shutdown", "migrate"}
          /\ Current \in Policies
      BY <2>1 DEF Blocked
    <3>2. CASE job.op = "migrate" /\ Persist(Current, ReadyPhase(Current)) /\ Goto("Preparing")
      <4>1. ValidateIdentityMigration(Current, job.policy)
        BY <3>1, <3>2 DEF Routed
      <4>2. disk'.marker.policy = Current /\ disk'.marker.phase # "Disabling"
        BY <3>1, <3>2, PersistCurrent, ReadyPhases
      <4>3. job'.at = "Preparing" /\ job'.policy = job.policy
        BY <1>4, <3>2 DEF Steps
      <4>4. QED
        BY <4>1, <4>2, <4>3 DEF Lineage
    <3>3. CASE Goto("Failed")
      BY <1>1, <1>4, <3>3 DEF Steps
    <3>4. CASE \E b, s : Finish(b, s)
      BY <1>1, <1>3, <3>1, <3>4 DEF Finish, NoJob, Goto, Job
    <3>5. QED
      BY <2>1, <3>2, <3>3, <3>4 DEF Blocked
  <2>2. CASE Disarmed
    <3>1. /\ job.at = "Removed" /\ job.op \in {"disable", "start", "replay"}
          /\ Goto(AfterRedirects) /\ UNCHANGED disk
      BY <2>2 DEF Disarmed
    <3>2. (broker.marker.phase = "Disabling") = (disk.marker.phase = "Disabling")
      BY <3>1 DEF Synced
    <3>3. AfterRedirects = "Clear" => broker.marker.phase = "Disabling"
      BY DEF AfterRedirects
    <3>4. AfterRedirects \in {"Failed", "Upload", "Clear", "DropGuards"}
      BY DEF AfterRedirects
    <3>5. job'.at = AfterRedirects
      BY <1>4, <3>1, <3>4 DEF Steps
    <3>6. QED
      BY <3>1, <3>2, <3>3, <3>4, <3>5 DEF Lineage
  <2>3. CASE DropGuards
    <3>1. disk.marker.phase = "Disabling" /\ UNCHANGED disk
      BY <2>3 DEF DropGuards, Staged, Synced
    <3>2. job'.at \in {"Unload", "Failed"}
      BY <1>4, <2>3 DEF DropGuards, Steps
    <3>3. QED
      BY <3>1, <3>2 DEF Lineage
  <2>4. CASE Unload
    <3>1. disk.marker.phase = "Disabling" /\ UNCHANGED disk
      BY <2>4 DEF Unload, Lineage
    <3>2. job'.at \in {"Clear", "Failed"}
      BY <1>4, <2>4 DEF Unload, Steps
    <3>3. QED
      BY <3>1, <3>2 DEF Lineage
  <2>5. CASE Publish \/ Load \/ Clear \/ Arm
    <3>1. \/ job'.at \in {"Failed", "Deactivate", "Upload"}
          \/ \E b, s : Finish(b, s)
      BY <1>4, <2>5 DEF Publish, Load, Clear, Arm, Steps
    <3>2. (\E b, s : Finish(b, s)) => job'.at \in {"idle", "Failed"}
      BY <1>3 DEF Finish, NoJob, Goto, Job
    <3>3. QED
      BY <1>1, <3>1, <3>2
  <2>6. CASE \/ PersistPreparing \/ Upload \/ Replace \/ UnloadUnused \/ Attest
             \/ Deactivate \/ DropRedirects \/ RolledBack \/ PersistDisabling
    BY <1>1, <1>4, <2>6
       DEF PersistPreparing, Upload, Replace, UnloadUnused, Attest, Deactivate,
           DropRedirects, RolledBack, PersistDisabling, Steps
  <2>7. CASE \/ Measure \/ Canary \/ CloseGate \/ Redirects \/ Activate \/ AttestActive
             \/ Cleanup \/ Verify \/ Rollback
    BY <1>1, <1>4, <2>7
       DEF Measure, Canary, CloseGate, Redirects, Activate, AttestActive, Cleanup,
           Verify, Rollback, Steps
  <2>8. CASE Fails
    BY <1>1, <2>8 DEF Fails, Stopped, NoJob, Reject
  <2>9. CASE StepFails
    <3>1. \E at \in {"UnloadUnused", "Rollback", "Cleanup", "Failed"} : Goto(at)
      BY <2>9 DEF StepFails
    <3>2. QED
      BY <1>1, <1>4, <3>1 DEF Steps
  <2>10. QED
    BY <1>7, <2>1, <2>2, <2>3, <2>4, <2>5, <2>6, <2>7, <2>8, <2>9 DEF EngineStep
<1>8. CASE Start \/ Halted \/ Environment
  BY <1>1, <1>2, <1>8
     DEF Start, Halted, Unavailable, ServiceEnds, Environment, Crash, HostReboot,
         LeaseExpires, RenewLate, RenewalFails, BridgeFails, Stopped, NoJob
<1>9. CASE UNCHANGED vars
  BY <1>2, <1>9 DEF vars
<1>10. QED
  BY <1>5, <1>6, <1>7, <1>8, <1>9 DEF Next

(* So it holds throughout.                                                  *)
LEMMA LineageHolds == Spec => []Lineage
<1>1. QED
  BY InitLineage, LineageKept, InvariantHolds, PTL DEF Spec

-----------------------------------------------------------------------------
(* The steps of the Broker, as steps of the promise.                        *)

Keeps == UNCHANGED <<FileRecord, Treatment>>

(* Over a recorded policy, redirects mean that no application of it is      *)
(* free.                                                                    *)
LEMMA ForwardsCovered ==
  ASSUME IInv, dataPlane # {}
  PROVE  /\ disk.marker # NoMarker /\ disk.marker.policy \in Policies
         /\ guards = GuardFilters(disk.marker.policy)
         /\ dataPlane = Proxied(disk.marker.policy)
BY DEF RedirectsUnderGuards, DataPlaneFilters

(* A marker is an active record, in a state that follows its phase.         *)
LEMMA ActiveRecord ==
  /\ disk.marker # NoMarker => FileRecord.state # "none"
  /\ (disk.marker # NoMarker /\ disk.marker.phase = "Disabling") =>
        FileRecord.state = "disabling"
  /\ (disk.marker # NoMarker /\ disk.marker.phase # "Disabling") =>
        FileRecord.state \in {"preparing", "enforced"}
  /\ disk.marker = NoMarker => FileRecord.state = "none"
  /\ FileRecord.policy = disk.marker.policy /\ FileRecord.hwm = disk.hwm
BY DEF FileRecord, RecordState, NoMarker, Enforced

(* A step that leaves file and guards alone starts, stops or keeps the      *)
(* forwarding: whatever redirects there are lie over complete guards.       *)
LEMMA TrafficStep ==
  ASSUME IInv, IInv', UNCHANGED <<disk, guards>>
  PROVE  Promise!Forward \/ Promise!Stop \/ Keeps
<1>1. UNCHANGED FileRecord
  BY DEF FileRecord, RecordState
<1>2. dataPlane # {} => /\ dataPlane = Proxied(disk.marker.policy)
                        /\ dataPlane \subseteq guards
  BY ForwardsCovered, ProtectedAreApps, GuardsOfApps
<1>3. dataPlane' # {} => /\ disk.marker # NoMarker /\ disk.marker.policy \in Policies
                         /\ guards = GuardFilters(disk.marker.policy)
                         /\ dataPlane' = Proxied(disk.marker.policy)
  BY DEF RedirectsUnderGuards, DataPlaneFilters
<1>4. CASE dataPlane' = {} \/ ~driver'.lease
  <2>1. Treatment' = [app \in Apps |-> IF Treatment[app] = "forwarded" THEN "blocked"
                                       ELSE Treatment[app]]
    BY <1>2, <1>4 DEF Treatment
  <2>2. QED
    BY <1>1, <2>1 DEF Promise!Stop
<1>5. CASE dataPlane' # {} /\ driver'.lease
  <2>1. Promise!Active
    BY <1>3, <1>5, ActiveRecord DEF Promise!Active
  <2>2. \A app \in Protected(disk.marker.policy) : app \in Apps /\ app \in guards
    BY <1>3, <1>5, ProtectedAreApps, GuardsOfApps
  <2>3. Promise!Covered
    BY <2>2, ActiveRecord, SamePolicies DEF Promise!Covered, Treatment
  <2>4. Treatment' = [app \in Apps |-> IF app \in Proxied(disk.marker.policy)
                                       THEN "forwarded" ELSE Treatment[app]]
    BY <1>2, <1>3, <1>5 DEF Treatment
  <2>5. QED
    BY <1>1, <2>1, <2>3, <2>4, ActiveRecord, SamePolicies DEF Promise!Forward
<1>6. QED
  BY <1>4, <1>5

(* Installing the guards covers the policy and frees nothing.               *)
LEMMA ReplaceGuards == ASSUME IInv, Replace PROVE Promise!Guard
<1>1. /\ job.at = "Replace" /\ guards' = GuardFilters(Current) /\ Current \in Policies
      /\ UNCHANGED <<disk, dataPlane, driver>>
  BY DEF Replace
<1>2. /\ disk.marker.policy = Current /\ disk.marker.phase # "Disabling"
      /\ disk.marker # NoMarker
  BY <1>1, PolicyAssumption DEF Staged, Synced, NoMarker
<1>3. UNCHANGED FileRecord
  BY <1>1 DEF FileRecord, RecordState
<1>4. guards \subseteq GuardFilters(Current)
  BY <1>2 DEF GuardsAreAccountedFor
<1>5. Treatment' = [app \in Apps |->
                      IF app \in Protected(Current) /\ Treatment[app] = "free"
                      THEN "blocked" ELSE Treatment[app]]
  BY <1>1, <1>4, GuardsOfApps DEF Treatment
<1>6. FileRecord.state \in {"preparing", "enforced"} /\ FileRecord.policy = Current
  BY <1>2, ActiveRecord
<1>7. QED
  BY <1>3, <1>5, <1>6, SamePolicies DEF Promise!Guard

(* Removing the guards releases all traffic, under a recorded disable.      *)
LEMMA DropReleases == ASSUME IInv, DropGuards PROVE Promise!Release
<1>1. /\ job.at = "DropGuards" /\ guards' = {} /\ dataPlane = {}
      /\ UNCHANGED <<disk, dataPlane, driver>>
  BY DEF DropGuards, Staged
<1>2. disk.marker # NoMarker /\ disk.marker.phase = "Disabling"
  BY <1>1 DEF Staged, Synced, NoMarker
<1>3. UNCHANGED FileRecord
  BY <1>1 DEF FileRecord, RecordState
<1>4. Promise!Cut /\ Treatment' = [app \in Apps |-> "free"]
  BY <1>1 DEF Promise!Cut, Treatment
<1>5. QED
  BY <1>2, <1>3, <1>4, ActiveRecord DEF Promise!Release

(* Writing an enforced phase enforces: the guards are complete by then.     *)
LEMMA PersistEnforces ==
  ASSUME IInv, IInv', UNCHANGED <<guards, dataPlane, driver>>, NEW phase \in Enforced,
         Current \in Policies, Current = disk.marker.policy, Persist(Current, phase)
  PROVE  Promise!Enforce
<1>1. /\ disk' = [hwm |-> Revision[Current],
                  marker |-> [policy |-> Current, phase |-> phase]]
      /\ disk.marker # NoMarker
  BY PolicyAssumption DEF Persist, NoMarker
<1>2. disk.hwm = Revision[Current]
  BY <1>1 DEF Synced
<1>3. guards = GuardFilters(Current)
  BY <1>1 DEF FailClosed
<1>4. UNCHANGED Treatment
  BY DEF Treatment
<1>5. \A app \in Protected(Current) : app \in Apps /\ app \in guards
  BY <1>3, ProtectedAreApps, GuardsOfApps
<1>6. Promise!Active /\ Promise!Covered
  BY <1>1, <1>5, ActiveRecord, SamePolicies DEF Promise!Active, Promise!Covered, Treatment
<1>7. FileRecord' = [FileRecord EXCEPT !.state = "enforced"]
  <2>1. RecordState' = "enforced"
    BY <1>1, PolicyAssumption DEF RecordState, NoMarker, Enforced
  <2>2. QED
    BY <1>1, <1>2, <2>1 DEF FileRecord
<1>8. QED
  BY <1>4, <1>6, <1>7 DEF Promise!Enforce

(* A new policy is recorded with the forwarding down.                       *)
LEMMA PreparingRecords ==
  ASSUME IInv, Lineage, PersistPreparing
  PROVE  Promise!Prepare(job.policy) /\ job.policy \in Policies
<1>1. /\ job.at = "Preparing" /\ dataPlane = {} /\ Revision[job.policy] > disk.hwm
      /\ UNCHANGED <<guards, dataPlane, driver>>
  BY DEF PersistPreparing, Staged
<1>2. job.policy \in Policies
  BY <1>1 DEF Routed
<1>3. disk' = [hwm |-> Revision[job.policy],
               marker |-> [policy |-> job.policy, phase |-> "Preparing"]]
  BY DEF PersistPreparing, Persist
<1>4. UNCHANGED Treatment /\ Promise!Cut
  BY <1>1 DEF Treatment, Promise!Cut
<1>5. FileRecord' = [policy |-> job.policy, state |-> "preparing",
                     hwm |-> Revision[job.policy]]
  <2>1. RecordState' = "preparing"
    BY <1>2, <1>3, PolicyAssumption DEF RecordState, NoMarker, Enforced
  <2>2. QED
    BY <1>3, <2>1 DEF FileRecord
<1>6. \/ ~Promise!Active
      \/ /\ FileRecord.state # "disabling"
         /\ Promise!ValidateIdentityMigration(FileRecord.policy, job.policy)
  BY <1>1, ActiveRecord, SamePolicies DEF Lineage, Promise!Active
<1>7. QED
  BY <1>1, <1>2, <1>4, <1>5, <1>6, ActiveRecord DEF Promise!Prepare

(* A disable is recorded with the forwarding down: a command of the actor   *)
(* other than a commit runs without a runtime, and so without a lease.      *)
LEMMA DisablingRecords == ASSUME IInv, PersistDisabling PROVE Promise!Disable
<1>1. /\ job.at = "Disabling" /\ job.op = "disable" /\ Current \in Policies
      /\ UNCHANGED <<guards, dataPlane, driver>>
  BY DEF PersistDisabling, Routed
<1>2. disk.marker.policy = Current /\ disk.marker # NoMarker
  BY <1>1, PolicyAssumption DEF Synced, NoMarker
<1>3. disk' = [hwm |-> Revision[Current],
               marker |-> [policy |-> Current, phase |-> "Disabling"]]
  BY DEF PersistDisabling, Persist
<1>4. disk.hwm = Revision[Current]
  BY <1>2 DEF Synced
<1>5. ~driver.lease
  BY <1>1 DEF Gated
<1>6. UNCHANGED Treatment /\ Promise!Cut
  BY <1>1, <1>5 DEF Treatment, Promise!Cut
<1>7. FileRecord' = [FileRecord EXCEPT !.state = "disabling"]
  BY <1>1, <1>2, <1>3, <1>4, PolicyAssumption
     DEF FileRecord, RecordState, NoMarker, Enforced
<1>8. QED
  BY <1>2, <1>6, <1>7, ActiveRecord DEF Promise!Disable, Promise!Active

(* The record is cleared only of a disabled policy without guards.          *)
LEMMA ClearForgets == ASSUME IInv, Lineage, Clear PROVE Promise!Forget
<1>1. /\ job.at = "Clear" /\ guards = {} /\ dataPlane = {}
      /\ disk.marker.phase = "Disabling"
      /\ UNCHANGED <<guards, dataPlane, driver>>
  BY DEF Clear, Staged, Lineage
<1>2. disk.marker # NoMarker
  BY <1>1 DEF NoMarker
<1>3. UNCHANGED Treatment /\ \A app \in Apps : Treatment[app] = "free"
  BY <1>1 DEF Treatment
<1>4. disk \in [hwm : Nat, marker : Marker] /\ disk' = [disk EXCEPT !.marker = NoMarker]
  BY DEF Clear
<1>5. disk'.hwm = disk.hwm /\ disk'.marker = NoMarker
  BY <1>4
<1>6. FileRecord' = [policy |-> None, state |-> "none", hwm |-> FileRecord.hwm]
  <2>1. RecordState' = "none" /\ disk'.marker.policy = None
    BY <1>5 DEF RecordState, NoMarker, Enforced
  <2>2. QED
    BY <1>5, <2>1, ActiveRecord DEF FileRecord
<1>7. QED
  BY <1>1, <1>2, <1>3, <1>6, ActiveRecord DEF Promise!Forget

-----------------------------------------------------------------------------
(* The refinement.                                                          *)

(* An empty recovery file and no filter are what the promise starts from.   *)
LEMMA InitRefines == Init => Promise!Init
BY DEF Init, Promise!Init, FileRecord, RecordState, Treatment, NoMarker, Enforced

(* Which steps write the file or change the guards.                         *)
LEMMA OtherSteps ==
  ASSUME [Next]_vars
  PROVE  \/ UNCHANGED <<disk, guards>> \/ Replace \/ DropGuards \/ PersistPreparing
         \/ Publish \/ Blocked \/ RolledBack \/ PersistDisabling \/ Arm \/ Clear
<1>1. Request \/ Start \/ Halted \/ Environment => UNCHANGED <<disk, guards>>
  BY DEF Request, Prepare, PrepareUnverified, Commit, ForceBlocking, Disable,
         PrepareUndeactivated, Status, Start, Environment, Crash, HostReboot,
         LeaseExpires, RenewLate, RenewalFails, BridgeFails, Stopped, Halted,
         Unavailable, ServiceEnds
<1>2. Teardown("teardown") \/ Teardown("shutdown") \/ HealthTeardown
        => UNCHANGED <<disk, guards>>
  BY DEF Teardown, HealthTeardown
<1>3. EngineStep =>
        \/ UNCHANGED <<disk, guards>> \/ Replace \/ DropGuards \/ PersistPreparing
        \/ Publish \/ Blocked \/ RolledBack \/ PersistDisabling \/ Arm \/ Clear
  BY DEF EngineStep, Upload, UnloadUnused, Attest, Load, Deactivate, DropRedirects,
         Disarmed, Unload, Measure, Canary, CloseGate, Redirects, Activate,
         AttestActive, Cleanup, Verify, Rollback, Fails, StepFails, Stopped
<1>4. QED
  BY <1>1, <1>2, <1>3 DEF Next, vars

(* Every step of the Broker is a step of the promise or a stutter.          *)
LEMMA NextRefines ==
  ASSUME IInv, IInv', Lineage, [Next]_vars
  PROVE  [Promise!Next]_(Promise!avars)
<1>1. ASSUME Promise!Forward \/ Promise!Stop \/ Promise!Guard \/ Promise!Enforce
               \/ Promise!Disable \/ Promise!Release \/ Promise!Forget \/ Keeps
      PROVE  [Promise!Next]_(Promise!avars)
  BY <1>1 DEF Promise!Next, Promise!avars, Keeps
<1>2. CASE UNCHANGED <<disk, guards>>
  BY <1>1, <1>2, TrafficStep
<1>3. CASE PersistPreparing
  BY <1>3, PreparingRecords DEF Promise!Next
<1>4. CASE Publish \/ Blocked \/ RolledBack \/ Arm
  <2>1. /\ Current \in Policies /\ Current = disk.marker.policy
        /\ UNCHANGED <<guards, dataPlane, driver>>
    BY <1>4 DEF Publish, Blocked, RolledBack, Arm, Synced
  <2>2. UNCHANGED disk \/ \E phase \in Enforced : Persist(Current, phase)
    BY <1>4, <2>1 DEF Publish, Blocked, RolledBack, Arm, ReadyPhase, Enforced
  <2>3. QED
    BY <1>1, <1>2, <2>1, <2>2, PersistEnforces
<1>5. QED
  BY <1>1, <1>2, <1>3, <1>4, OtherSteps, ReplaceGuards, DropReleases,
     DisablingRecords, ClearForgets

(* The Broker implements the promise: traffic is freed only through a       *)
(* recorded disable, forwarded only over complete guards, and cut, never    *)
(* freed, by whatever fails (lib.rs, planned_wfp_backend.rs, driver.c).     *)
THEOREM BrokerImplementsEnforcement == Spec => ImplementsEnforcement
<1>1. IInv /\ IInv' /\ Lineage /\ [Next]_vars => [Promise!Next]_(Promise!avars)
  BY NextRefines
<1>2. QED
  BY <1>1, InitRefines, InvariantHolds, LineageHolds, PTL
     DEF Spec, ImplementsEnforcement, Promise!Spec
=============================================================================
