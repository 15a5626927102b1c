---------------------------- MODULE FilterEngine ----------------------------
(***************************************************************************)
(* The filters of the strict Broker in the Windows Filtering Platform:     *)
(* WindowsWfpEngineStore (windows_wfp_engine.rs), its transactions against *)
(* the base filtering engine (BFE), and WindowsWfpControl                  *)
(* (windows_wfp_control.rs), which joins the filters and the driver's      *)
(* answers into one snapshot with one generation.                          *)
(*                                                                         *)
(* The Broker owns two sessions of the BFE: guards are persistent and are  *)
(* written through the one, redirects belong to the other, which is        *)
(* dynamic, and leave with it.  The BFE has one writer at a time.  Readers *)
(* see what is committed, and each enumeration is a read of its own, so    *)
(* other programs and ending sessions may change the filters between two.  *)
(*                                                                         *)
(* One filter stands for a key; keys are derived from the layer and the    *)
(* App-ID by a hash, here by the pair of them.                             *)
(***************************************************************************)
EXTENDS StrictPolicy, Sequences

CONSTANTS
  Families,   \* bound: the IP families of the layers, 4 and 6
  MaxLives,   \* bound: how often the service starts
  Budgets     \* bounds: the calls made and what the surroundings may do

Classes == {"Guard", "DataPlane"}

ASSUME EngineAssumption ==
  /\ Families # {} /\ MaxLives \in Nat
  /\ Budgets \subseteq [calls : Nat, faults : Nat, severs : Nat, tampers : Nat,
                        leases : Nat]

VARIABLES
  objects,    \* BFE: provider, sublayer and callouts
  filters,    \* BFE: the committed filters
  writer,     \* BFE: the session whose transaction is open
  draft,      \* BFE: what that transaction would commit
  lingering,  \* BFE: sessions whose owner is gone, not run down yet
  process,    \* the service: whether it runs, how often it started
  handles,    \* which of its two sessions still answer
  call,       \* the call under way
  answer,     \* how the last one ended
  control,    \* observed_driver_generation, filter_generation
  driver,     \* policy, generation, lease and gate of the callout driver
  report,     \* the generation of the last snapshot of this life
  budget,     \* what may still happen
  past        \* history that the code does not keep

bfe  == <<objects, filters, writer, draft, lingering>>
host == <<process, handles, control>>
vars == <<objects, filters, writer, draft, lingering, process, handles, call, answer,
          control, driver, report, budget, past>>

-----------------------------------------------------------------------------
(* Layers, filters and plans.                                               *)

LayersOf(class) ==
  (IF class = "Guard" THEN {"AuthConnect", "DatagramData"}
                      ELSE {"ConnectRedirect", "FlowEstablished"}) \X Families
Layers == LayersOf("Guard") \union LayersOf("DataPlane")
ClassOf(layer) == IF layer \in LayersOf("Guard") THEN "Guard" ELSE "DataPlane"

IsConditionalCapture(layer) == layer[1] = "DatagramData"
IsFlowTracking(layer)       == layer[1] = "FlowEstablished"

Key(layer, app) == <<layer, app>>

ActionOf(layer) ==
  CASE IsConditionalCapture(layer) -> "ConditionalCapture"
    [] IsFlowTracking(layer)       -> "FlowTracking"
    [] OTHER                       -> "Terminating"

(* Specifications as the plan builds them: every action has its own set of  *)
(* rights, and the conditional capture names no application.                *)
TerminatingFilter(layer, app) ==
  [key |-> Key(layer, app), layer |-> layer, app |-> app, action |-> "Terminating",
   rights |-> {"indexed", "clear"}]
FlowTrackingFilter(layer, app) ==
  [TerminatingFilter(layer, app) EXCEPT !.action = "FlowTracking", !.rights = {"indexed"}]
ConditionalFilter(layer) ==
  [key |-> Key(layer, DatagramKey), layer |-> layer, app |-> DatagramKey,
   action |-> "ConditionalCapture", rights |-> {"unregistered"}]

PlanGuards(p) ==
  {TerminatingFilter(<<"AuthConnect", f>>, app) : f \in Families, app \in Protected(p)}
  \union (IF HasProxyEntries(p)
          THEN {ConditionalFilter(<<"DatagramData", f>>) : f \in Families} ELSE {})
PlanRedirects(p) ==
  {TerminatingFilter(<<"ConnectRedirect", f>>, app) : f \in Families, app \in Proxied(p)}
  \union {FlowTrackingFilter(<<"FlowEstablished", f>>, app) : f \in Families, app \in Proxied(p)}
Plan(class, p) == IF class = "Guard" THEN PlanGuards(p) ELSE PlanRedirects(p)

(* validate_filter_specs: the shape of every filter follows from its layer, *)
(* and no key occurs twice.                                                 *)
ValidSpecs(class, specs) ==
  /\ \A s \in specs :
       /\ s.layer \in LayersOf(class)
       /\ s.key = Key(s.layer, s.app)
       /\ s.action = ActionOf(s.layer)
       /\ s.rights = CASE s.action = "Terminating"  -> {"indexed", "clear"}
                       [] s.action = "FlowTracking" -> {"indexed"}
                       [] OTHER                     -> {"unregistered"}
       /\ (s.app = DatagramKey) = (s.action = "ConditionalCapture")
  /\ \A s, t \in specs : s.key = t.key => s = t

FilterFlags(class, spec) ==
  spec.rights \union (IF class = "Guard" THEN {"persistent"} ELSE {})

(* A filter as the BFE keeps it; session 0 is no session.                   *)
Stored(class, spec, life) ==
  [key |-> spec.key, layer |-> spec.layer, app |-> spec.app, action |-> spec.action,
   flags |-> FilterFlags(class, spec), provider |-> "ours",
   session |-> IF class = "Guard" THEN 0 ELSE life]

EnumeratedFlags(class, layer) ==
  LET persistent == IF class = "Guard" THEN {"persistent"} ELSE {}
  IN  CASE IsConditionalCapture(layer) -> persistent \union {"unregistered"}
        [] IsFlowTracking(layer)       -> {"indexed"}
        [] OTHER                       -> persistent \union {"indexed", "clear"}

(* validate_enumerated_filter: everything that matters for enforcement, and *)
(* the key binds the App-ID of the condition.                               *)
ValidFilter(f, layer) ==
  /\ f.flags = EnumeratedFlags(ClassOf(layer), layer)
  /\ f.action = ActionOf(layer)
  /\ (f.app = DatagramKey) = IsConditionalCapture(layer)
  /\ f.key = Key(layer, f.app)

(* The enumeration of one layer finds the filters under our provider.       *)
Enumerated(set, layer) == {f \in set : f.provider = "ours" /\ f.layer = layer}

(* Mutant of Owned: the layers of both classes are enumerated.              *)
OwnedAnywhere(set, class) == UNION {Enumerated(set, l) : l \in Layers}

Owned(set, class) == UNION {Enumerated(set, l) : l \in LayersOf(class)}
KeysOf(set) == {f.key : f \in set}

-----------------------------------------------------------------------------
(* Management objects.                                                      *)

Objects == {<<"provider", 0>>, <<"sublayer", 0>>} \union Layers   \* a callout per layer
Absent == [o \in Objects |-> "absent"]

Canonical(set) == \A o \in Objects : set[o] = "canonical"
NoCollision(set) == \A o \in Objects : set[o] # "altered"
Ensured(set) == [o \in Objects |-> "canonical"]

-----------------------------------------------------------------------------
(* Sessions and calls.                                                      *)

NoSession == <<0, "none">>
Session(class) == <<process.life, class>>
Nothing == [objects |-> Absent, filters |-> {}]

Idle == [op |-> "none", class |-> "Guard", policy |-> None, pc |-> "idle",
         left |-> {}, keys |-> {}, done |-> FALSE]
NoAnswer == [op |-> "none", class |-> "Guard", ok |-> FALSE]
Unwitnessed == [past EXCEPT !.steady = {}, !.seen = {}]

MayStill(what) == budget[what] > 0
Spend(what)    == budget' = [budget EXCEPT ![what] = budget[what] - 1]

Answers(ok) ==
  /\ call' = Idle
  /\ answer' = [op |-> call.op, class |-> call.class, ok |-> ok]

Goes(pc) == call' = [call EXCEPT !.pc = pc]

Greater(m, n) == IF m < n THEN n ELSE m

(* Mutant of RecordMutation: the driver's generation is not considered.     *)
CountsFiltersOnly(c) == [c EXCEPT !.filter = c.filter + 1]

(* record_mutation: past everything reported so far.                        *)
RecordMutation(c) ==
  [c EXCEPT !.filter = Greater(c.filter, c.observed) + 1]

-----------------------------------------------------------------------------
(* The start of the service: two sessions, then the management objects.     *)

Init ==
  /\ objects = Absent /\ filters = {}
  /\ writer = NoSession /\ draft = Nothing /\ lingering = {}
  /\ process = [running |-> FALSE, life |-> 0]
  /\ handles = [c \in Classes |-> FALSE]
  /\ call = Idle /\ answer = NoAnswer /\ report = 0
  /\ control = [observed |-> 0, filter |-> 0]
  /\ driver = [policy |-> None, generation |-> 0, lease |-> "none", active |-> FALSE,
               stopping |-> FALSE]
  /\ budget \in Budgets
  /\ past = [steady |-> {}, seen |-> {}, changed |-> FALSE]

Opens ==
  /\ ~process.running /\ process.life < MaxLives
  /\ process' = [running |-> TRUE, life |-> process.life + 1]
  /\ handles' = [c \in Classes |-> TRUE]
  /\ call' = [Idle EXCEPT !.op = "provision", !.pc = "begin"]
  /\ answer' = NoAnswer
  /\ UNCHANGED <<bfe, control, driver, report, budget, past>>

Calls(request) ==
  /\ process.running /\ call = Idle
  /\ MayStill("calls") /\ Spend("calls")
  /\ call' = request /\ answer' = NoAnswer
  /\ UNCHANGED <<bfe, host, driver, report, past>>

(* The plan of the policy that was uploaded last is put in.                 *)
CallReplace(class) ==
  /\ driver.policy # None
  /\ ValidSpecs(class, Plan(class, driver.policy))
  /\ Calls([Idle EXCEPT !.op = "replace", !.class = class, !.policy = driver.policy,
                        !.pc = "begin", !.left = Plan(class, driver.policy)])
CallRemove(class) == Calls([Idle EXCEPT !.op = "remove", !.class = class, !.pc = "begin"])
CallUpload(p)     == Calls([Idle EXCEPT !.op = "upload", !.policy = p, !.pc = "issue"])
CallDriver(op)    == Calls([Idle EXCEPT !.op = op, !.pc = "issue"])
CallSnapshot      == Calls([Idle EXCEPT !.op = "snapshot", !.pc = "driver"])

-----------------------------------------------------------------------------
(* A transaction: WfpEngineHandle::transaction and the bodies it is given.  *)

Steps == {"ensure", "verify", "clear", "add", "commit"}

Body == [provision |-> "ensure", replace |-> "verify", remove |-> "clear"]

(* The service does not run without its management objects.                 *)
CallFails ==
  /\ Answers(FALSE)
  /\ IF call.op = "provision"
     THEN /\ process' = [process EXCEPT !.running = FALSE]
          /\ lingering' = lingering \union {Session(c) : c \in Classes}
     ELSE UNCHANGED <<process, lingering>>

(* The BFE lets a writer wait for 3 s, the one before it to finish.         *)
Begins ==
  /\ call.pc = "begin" /\ handles[call.class]
  /\ writer = NoSession
  /\ writer' = Session(call.class)
  /\ draft' = [objects |-> objects, filters |-> filters]
  /\ Goes(Body[call.op])
  /\ UNCHANGED <<objects, filters, lingering, host, answer, driver, report, budget, past>>

BeginFails ==
  /\ call.pc = "begin"
  /\ ~handles[call.class] \/ writer # NoSession
  /\ CallFails
  /\ UNCHANGED <<objects, filters, writer, draft, handles, control, driver, report,
                 budget, past>>

(* A step of the body while the session answers.                            *)
Within(pc) == call.pc = pc /\ handles[call.class]

(* Missing objects are added; one of ours under other terms is a collision, *)
(* and is left as it is.                                                    *)
Ensures ==
  /\ Within("ensure")
  /\ IF NoCollision(draft.objects)
     THEN Goes("verify") /\ draft' = [draft EXCEPT !.objects = Ensured(draft.objects)]
     ELSE Goes("abort") /\ UNCHANGED draft
  /\ UNCHANGED <<objects, filters, writer, lingering, host, answer, driver, report,
                 budget, past>>

Verifies ==
  /\ Within("verify")
  /\ Goes(IF ~Canonical(draft.objects) THEN "abort"
          ELSE IF call.op = "provision" THEN "commit" ELSE "clear")
  /\ UNCHANGED <<bfe, host, answer, driver, report, budget, past>>

(* Filters of another dynamic session are not ours to delete, or they are:  *)
(* the BFE is asked.                                                        *)
Deletable(set) == \A f \in set : f.session \in {0, process.life}

(* delete_owned_filters: all layers of the class are enumerated, and        *)
(* nothing is deleted unless every filter found is canonical.               *)
Clears ==
  /\ Within("clear")
  /\ LET found == Owned(draft.filters, call.class)
         valid == \A f \in found : ValidFilter(f, f.layer)
     IN  \/ /\ valid
            /\ draft' = [draft EXCEPT !.filters = draft.filters \ found]
            /\ Goes(IF call.left = {} THEN "commit" ELSE "add")
         \/ /\ ~valid \/ ~Deletable(found)
            /\ UNCHANGED draft
            /\ Goes("abort")
  /\ UNCHANGED <<objects, filters, writer, lingering, host, answer, driver, report,
                 budget, past>>

(* One filter after the other; the BFE refuses a key that is in use.        *)
Adds ==
  /\ Within("add")
  /\ LET spec == CHOOSE s \in call.left : TRUE
     IN  IF spec.key \in KeysOf(draft.filters)
         THEN Goes("abort") /\ UNCHANGED draft
         ELSE /\ draft' = [draft EXCEPT !.filters =
                             draft.filters \union {Stored(call.class, spec, process.life)}]
              /\ call' = [call EXCEPT !.left = call.left \ {spec},
                                     !.pc = IF call.left = {spec} THEN "commit" ELSE "add"]
  /\ UNCHANGED <<objects, filters, writer, lingering, host, answer, driver, report,
                 budget, past>>

(* A call to the BFE fails: it refuses, or the session is broken.           *)
StepFails ==
  /\ call.pc \in Steps
  /\ IF handles[call.class] THEN MayStill("faults") /\ Spend("faults") ELSE UNCHANGED budget
  /\ Goes("abort")
  /\ UNCHANGED <<bfe, host, answer, driver, report, past>>

(* What the transaction commits, and that it is over.                       *)
Committed ==
  /\ objects' = draft.objects /\ filters' = draft.filters
  /\ writer' = NoSession /\ draft' = Nothing

Commits ==
  /\ Within("commit")
  /\ Committed
  /\ Answers(TRUE)
  /\ IF call.op = "provision" THEN UNCHANGED <<control, past>>
     ELSE /\ control' = RecordMutation(control)
          /\ past' = [past EXCEPT !.changed = TRUE]
  /\ UNCHANGED <<lingering, process, handles, driver, report, budget>>

(* The session breaks while the BFE commits: it did, or it did not.         *)
CommitUnheard ==
  /\ Within("commit") /\ MayStill("severs") /\ Spend("severs")
  /\ handles' = [handles EXCEPT ![call.class] = FALSE]
  /\ lingering' = lingering \union {Session(call.class)}
  /\ \/ Committed /\ call' = [call EXCEPT !.pc = "abort", !.done = TRUE]
     \/ UNCHANGED <<objects, filters, writer, draft>> /\ Goes("abort")
  /\ UNCHANGED <<process, control, answer, driver, report, past>>

(* Mutant of Aborts: an error returns at once.                              *)
ReturnsUnaborted ==
  /\ call.pc = "abort"
  /\ CallFails
  /\ UNCHANGED <<objects, filters, writer, draft, handles, control, driver, report, budget, past>>

(* The abort reaches the BFE, or the session is broken and the transaction  *)
(* stays open until the session is run down.                                *)
Aborts ==
  /\ call.pc = "abort"
  /\ IF handles[call.class] THEN writer' = NoSession /\ draft' = Nothing
     ELSE UNCHANGED <<writer, draft>>
  /\ CallFails
  /\ UNCHANGED <<objects, filters, handles, control, driver, report, budget, past>>

-----------------------------------------------------------------------------
(* The driver: its policy snapshot is uploaded and attested.                *)

(* FcxReleaseLease: the gate closes and no flow is taken any more.          *)
Released(d) == [d EXCEPT !.lease = "none", !.active = FALSE, !.stopping = TRUE]

Effect(d) ==
  CASE call.op = "upload" -> [Released(d) EXCEPT !.policy = call.policy,
                                                 !.generation = d.generation + 1]
    [] call.op = "unload" -> [Released(d) EXCEPT !.policy = None,
                                                 !.generation = d.generation + 1]
    [] call.op = "activate" -> [d EXCEPT !.active = TRUE, !.stopping = FALSE]
    [] OTHER                -> [d EXCEPT !.active = FALSE, !.stopping = TRUE]

(* The gate opens for the owner of a live lease only.                       *)
Accepted(d) == call.op = "activate" => d.lease = "live"

(* The device carries the request out, or refuses it.                       *)
Issues ==
  /\ call.pc = "issue"
  /\ IF Accepted(driver) THEN driver' = Effect(driver) /\ Goes("reply") /\ UNCHANGED answer
                         ELSE Answers(FALSE) /\ UNCHANGED driver
  /\ UNCHANGED <<bfe, host, report, budget, past>>

(* FcxFillDriverSnapshot: the capabilities are read first, an expired lease *)
(* is released next, and the lease is read last.                            *)
Snapshot(d) ==
  [policy |-> d.policy, generation |-> d.generation,
   capable |-> d.policy # None /\ ~d.stopping,
   leased |-> d.policy # None /\ d.lease = "live",
   active |-> d.policy # None /\ d.lease = "live" /\ d.active]

SnapshotTaken(d) == IF d.lease = "expired" THEN Released(d) ELSE d

(* What the channel accepts of any reply.                                   *)
Decoded(snap) ==
  /\ snap.policy # None => snap.generation # 0
  /\ snap.policy = None => ~snap.capable /\ ~snap.leased
  /\ snap.active => snap.leased

(* What the control plane accepts beyond that: no redirect without a lease. *)
WellFormed(snap) ==
  /\ Decoded(snap)
  /\ snap.active => snap.policy # None
  /\ snap.capable => snap.leased

(* The driver's generation never falls behind what was seen of it.          *)
Plausible(snap) == WellFormed(snap) /\ snap.generation >= control.observed

Attested(snap) ==
  CASE call.op = "upload"   -> snap.policy = call.policy
    [] call.op = "unload"   -> snap.policy = None
    [] call.op = "activate" -> snap.active
    [] OTHER                -> ~snap.active

(* Every request is answered with a snapshot, taken once it is carried out: *)
(* a lease may run out in between.                                          *)
Replies ==
  /\ call.pc = "reply"
  /\ LET snap == Snapshot(driver)
     IN  IF Decoded(snap) /\ Attested(snap) THEN Goes("attest") /\ UNCHANGED answer
                                            ELSE Answers(FALSE)
  /\ driver' = SnapshotTaken(driver)
  /\ UNCHANGED <<bfe, host, report, budget, past>>

(* Only then is the driver asked once more, and believed.                   *)
Attests ==
  /\ call.pc = "attest"
  /\ LET snap == Snapshot(driver)
         valid == Plausible(snap) /\ Attested(snap)
     IN  /\ Answers(valid)
         /\ IF valid
            THEN /\ control' = RecordMutation([control EXCEPT !.observed = snap.generation])
                 /\ past' = [past EXCEPT !.changed = TRUE]
            ELSE UNCHANGED <<control, past>>
  /\ driver' = SnapshotTaken(driver)
  /\ UNCHANGED <<bfe, process, handles, report, budget>>

-----------------------------------------------------------------------------
(* WindowsWfpControl.snapshot: the driver's answer, then the filters, layer *)
(* by layer.                                                                *)

ReadsDriver ==
  /\ call.pc = "driver"
  /\ LET snap == Snapshot(driver)
     IN  IF Plausible(snap)
         THEN /\ control' = [control EXCEPT !.observed = snap.generation]
              /\ Goes("objects") /\ UNCHANGED answer
         ELSE Answers(FALSE) /\ UNCHANGED control
  /\ driver' = SnapshotTaken(driver)
  /\ UNCHANGED <<bfe, process, handles, report, budget, past>>

Ours(set) == {f \in set : f.provider = "ours"}

ReadsObjects ==
  /\ call.pc = "objects"
  /\ IF handles["Guard"] /\ Canonical(objects)
     THEN /\ call' = [call EXCEPT !.pc = "filters", !.left = Layers] /\ UNCHANGED answer
          /\ past' = [past EXCEPT !.steady = KeysOf(Ours(filters)), !.seen = KeysOf(Ours(filters))]
     ELSE Answers(FALSE) /\ UNCHANGED past
  /\ UNCHANGED <<bfe, host, driver, report, budget>>

(* One enumeration, through the session of the layer's class; guards first. *)
ReadsFilters ==
  /\ call.pc = "filters" /\ call.left # {}
  /\ LET layer == CHOOSE l \in call.left :
                    ClassOf(l) = "Guard" \/ call.left \subseteq LayersOf("DataPlane")
         found == Enumerated(filters, layer)
     IN  \/ /\ handles[ClassOf(layer)]
            /\ \A f \in found : ValidFilter(f, layer)
            /\ call' = [call EXCEPT !.left = call.left \ {layer},
                                   !.keys = call.keys \union KeysOf(found)]
            /\ UNCHANGED <<answer, past>>
         \/ /\ ~handles[ClassOf(layer)] \/ \E f \in found : ~ValidFilter(f, layer)
            /\ Answers(FALSE) /\ past' = Unwitnessed
  /\ UNCHANGED <<bfe, host, driver, report, budget>>

(* An IOCTL fails or overruns its deadline, when it is cancelled and waited *)
(* for: it was carried out before, or never will be.  Or an enumeration is  *)
(* refused.                                                                 *)
ReadFails ==
  /\ call.pc \in {"issue", "reply", "attest", "driver", "objects", "filters"}
  /\ MayStill("faults") /\ Spend("faults")
  /\ Answers(FALSE) /\ past' = Unwitnessed
  /\ UNCHANGED <<bfe, host, driver, report>>

Reports ==
  /\ call.pc = "filters" /\ call.left = {}
  /\ report' = Greater(control.filter, control.observed)
  /\ Answers(TRUE)
  /\ past' = [steady |-> {}, seen |-> {}, changed |-> FALSE]
  /\ UNCHANGED <<bfe, host, driver, budget>>

-----------------------------------------------------------------------------
(* The surroundings.                                                        *)

(* A snapshot under way has to do with filters before and after a change.   *)
Witnessed(set) ==
  past' = IF call.pc = "filters"
          THEN [past EXCEPT !.steady = past.steady \intersect KeysOf(Ours(set)),
                            !.seen = past.seen \union KeysOf(Ours(set))]
          ELSE past

(* The service is killed; the driver is told of the end of the process.     *)
Crashes ==
  /\ process.running
  /\ process' = [process EXCEPT !.running = FALSE]
  /\ lingering' = lingering \union {Session(c) : c \in Classes}
  /\ driver' = IF driver.lease = "none" THEN driver ELSE Released(driver)
  /\ call' = Idle
  /\ answer' = IF call = Idle THEN answer ELSE NoAnswer
  /\ past' = [steady |-> {}, seen |-> {}, changed |-> FALSE]
  /\ handles' = [c \in Classes |-> FALSE]
  /\ control' = [observed |-> 0, filter |-> 0]
  /\ report' = 0
  /\ UNCHANGED <<objects, filters, writer, draft, budget>>

(* A session of the Broker breaks under it; nothing opens it again.         *)
Breaks(class) ==
  /\ process.running /\ handles[class]
  /\ MayStill("severs") /\ Spend("severs")
  /\ handles' = [handles EXCEPT ![class] = FALSE]
  /\ lingering' = lingering \union {Session(class)}
  /\ UNCHANGED <<objects, filters, writer, draft, process, control, call, answer, driver,
                 report, past>>

(* The BFE ends a session: its transaction is undone, its filters leave.    *)
RunsDown(session) ==
  /\ session \in lingering /\ writer \in {NoSession, session}
  /\ lingering' = lingering \ {session}
  /\ writer' = NoSession /\ draft' = Nothing
  /\ filters' = {f \in filters : session # <<f.session, "DataPlane">>}
  /\ Witnessed(filters')
  /\ UNCHANGED <<objects, host, call, answer, driver, report, budget>>

(* Another program deletes or alters a filter of ours, or takes a key first.*)
Tampered ==
  (UNION {{filters \ {f}, (filters \ {f}) \union {[f EXCEPT !.flags = {}]}} : f \in Ours(filters)})
  \union {filters \union {[Stored("Guard", s, 0) EXCEPT !.provider = "other"]} :
            s \in {t \in UNION {PlanGuards(p) : p \in Policies} : t.key \notin KeysOf(filters)}}

Tampers ==
  /\ writer = NoSession /\ MayStill("tampers") /\ Spend("tampers")
  /\ \/ filters' \in Tampered /\ UNCHANGED objects
     \/ /\ \E o \in Objects : objects[o] = "absent" /\ objects' = [objects EXCEPT ![o] = "altered"]
        /\ UNCHANGED filters
  /\ Witnessed(filters')
  /\ UNCHANGED <<writer, draft, lingering, host, call, answer, driver, report>>

(* The forwarding runtime of the same process leases its endpoints.  A      *)
(* renewal, also of a lease that has just run out, keeps the gate open.     *)
Leases ==
  /\ process.running /\ driver.policy # None
  /\ MayStill("leases") /\ Spend("leases")
  /\ \E kept \in {driver.active /\ driver.lease # "none", FALSE} :
       driver' = [driver EXCEPT !.lease = "live", !.active = kept, !.stopping = FALSE]
  /\ UNCHANGED <<bfe, host, call, answer, report, past>>

Lapses ==
  /\ driver.lease = "live"
  /\ driver' = [driver EXCEPT !.lease = "expired"]
  /\ UNCHANGED <<bfe, host, call, answer, report, budget, past>>

-----------------------------------------------------------------------------

Next ==
  \/ Opens
  \/ \E c \in Classes : CallReplace(c) \/ CallRemove(c)
  \/ \E p \in Policies : CallUpload(p)
  \/ \E op \in {"unload", "activate", "deactivate"} : CallDriver(op)
  \/ CallSnapshot
  \/ Begins \/ BeginFails \/ Ensures \/ Verifies \/ Clears \/ Adds
  \/ StepFails \/ Commits \/ CommitUnheard \/ Aborts
  \/ Issues \/ Replies \/ Attests \/ ReadsDriver \/ ReadsObjects \/ ReadsFilters
  \/ ReadFails \/ Reports
  \/ Crashes \/ \E c \in Classes : Breaks(c)
  \/ \E s \in lingering : RunsDown(s)
  \/ Tampers \/ Leases \/ Lapses

Spec == Init /\ [][Next]_vars

-----------------------------------------------------------------------------
(* Properties.                                                              *)

Filter == [key : Layers \X FilterKeys, layer : Layers, app : FilterKeys,
           action : {"Terminating", "FlowTracking", "ConditionalCapture"},
           flags : SUBSET {"indexed", "clear", "unregistered", "persistent"},
           provider : {"ours", "other"}, session : 0..MaxLives]
Conditions == [Objects -> {"absent", "canonical", "altered"}]

TypeOK ==
  /\ objects \in Conditions /\ filters \subseteq Filter
  /\ writer \in {NoSession} \union ((1..MaxLives) \X Classes)
  /\ draft.objects \in Conditions /\ draft.filters \subseteq Filter
  /\ lingering \subseteq (1..MaxLives) \X Classes
  /\ process \in [running : BOOLEAN, life : 0..MaxLives]
  /\ handles \in [Classes -> BOOLEAN]
  /\ control \in [observed : Nat, filter : Nat]
  /\ driver \in [policy : Policies \union {None}, generation : Nat,
                 lease : {"none", "live", "expired"}, active : BOOLEAN, stopping : BOOLEAN]

(* A transaction is open while a call works on it, or because its session   *)
(* broke: every error path of WfpEngineHandle::transaction ends it.  One    *)
(* left open would keep the other session's writes waiting for good.        *)
NothingLeftOpen ==
  /\ writer # NoSession => writer \in lingering \/ writer = Session(call.class)
  /\ call = Idle => writer \in lingering \union {NoSession}

(* The driver claims to redirect only while it holds a lease, if one that   *)
(* has run out: FcxFillDriverSnapshot may then answer with capabilities and *)
(* no lease, which validate_driver_snapshot_shape refuses, and has released *)
(* the lease, so that the next snapshot is accepted.                        *)
RefusedOncePerLease ==
  driver.policy # None /\ driver.lease = "none" => driver.stopping

(* The engine and the driver are left in order by every call.               *)
EngineInvariant == TypeOK /\ NothingLeftOpen /\ RefusedOncePerLease

(* Snapshots are dated: one taken after a change that was confirmed has a   *)
(* greater generation than all before it, the driver's and the filters'     *)
(* changes in any order.  And it is true: a key that was there throughout   *)
(* is in it, and none is that never was (WindowsWfpControl::snapshot).      *)
ReportsAreTrue ==
  [][Reports =>
       /\ report' >= report
       /\ past.changed => report' > report
       /\ past.steady \subseteq call.keys /\ call.keys \subseteq past.seen]_vars

Held ==
  [c \in Classes |-> KeysOf(Owned(filters, c))]
StoreRequest ==
  IF call.op \in {"replace", "remove"}
  THEN [kind |-> call.class, done |-> call.done,
        keys |-> IF call.op = "remove" THEN {} ELSE KeysOf(Plan(call.class, call.policy))]
  ELSE [kind |-> "none", keys |-> {}, done |-> FALSE]
Outcome ==
  IF answer.op \notin {"replace", "remove"} THEN "none"
  ELSE IF answer.ok THEN "ok" ELSE "failed"
PlanKeys ==
  [c \in Classes |-> {{}} \union {KeysOf(Plan(c, p)) : p \in Policies}]

Store == INSTANCE FilterStore
           WITH Kinds <- Classes, Temporary <- "DataPlane", Sets <- PlanKeys,
                held <- Held, foreign <- filters \ Ours(filters), request <- StoreRequest,
                outcome <- Outcome, interference <- budget.tampers

(* The engine implements the store: through failing calls, a broken         *)
(* session, a crash between any two steps and sessions that end late, each  *)
(* replace and remove is one indivisible change, confirmed only if made.    *)
ImplementsStore == Store!Spec
=============================================================================
