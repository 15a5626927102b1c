--------------------------- MODULE AgentSessions ---------------------------
(***************************************************************************)
(* The Agent between its user interfaces and the Core (serve_ui, the UI    *)
(* session handler and forward_to_ui of services/agent/src/runtime.rs, and *)
(* the replay journal of journal.rs).                                      *)
(*                                                                         *)
(* Each connection has a task of its own: it authenticates, takes the      *)
(* place of the session before it, and then runs three futures at once,    *)
(* one that waits to be cancelled, one that writes to the client and one   *)
(* that reads from it.  Requests go through one bounded channel to the     *)
(* Core of the present generation; its answers are read by one task, which *)
(* commits them to the journal and must never wait for a client.           *)
(***************************************************************************)
EXTENDS Naturals, Sequences, FiniteSets, SequencesExt

CONSTANTS
  None,
  Sessions,       \* the connections that clients make, numbered as they come
  Requests,       \* the Core actions clients send, each with an id of its own
  Keys,           \* what a request sets: replay_key
  KeyOf,          \* the key of each request
  ProxyKeys,      \* the keys "changeProxy:<group>", which the journal may forget
  MaxEntries,     \* MAX_REPLAY_ENTRIES (128)
  MaxPending,     \* MAX_PENDING_UI_AUTH (8)
  OutCapacity,    \* places in a session's output queue (CHANNEL_CAPACITY, 256)
  Reserve,        \* of them, kept for reliable lines (UI_RELIABLE_RESERVE, 32)
  CoreCapacity,   \* places in the channel to the Core (256)
  Budgets         \* bound: how many connections, requests, unsolicited lines and losses
                  \* of the Core there are

ASSUME KeysAssumption == KeyOf \in [Requests -> Keys] /\ ProxyKeys \subseteq Keys
ASSUME NumbersAssumption == Sessions \subseteq Nat
ASSUME NamesAssumption ==
  /\ None \notin Sessions
  /\ {None, "activity", "event", "message", "status"} \cap Requests = {}
ASSUME BudgetsAssumption ==
  Budgets \subseteq [sessions : Nat, requests : Nat, messages : Nat, losses : Nat]
ASSUME CapacitiesAssumption ==
  /\ {MaxEntries, MaxPending, OutCapacity, CoreCapacity} \subseteq Nat \ {0}
  /\ Reserve \in 0 .. OutCapacity - 1

VARIABLES
  server,     \* serve_ui: the accept loop and its shutdown notification
  stopping,   \* shared.shutting_down
  leaving,    \* a shutdown was acknowledged; the fallback signal is on its way
  ses,        \* each session handler
  ui,         \* shared.ui: the current session
  link,       \* shared.core: the generation requests go to, 0 for None
  chan,       \* the channel to the Core's writer task, which outlives the link, and what
              \* the supervisor does next about a Core that was lost
  core,       \* the Core: its generation, what it works on, what it has sent
  journal,    \* ReplayJournal
  sender,     \* the session each request came from
  answered,   \* requests whose answer the Agent has read
  confirmed,  \* requests some Core has carried out
  budget      \* messages and losses of the Core still to come

vars == <<server, stopping, leaving, ses, ui, link, chan, core, journal, sender,
          answered, confirmed, budget>>

\* where a session is once it has been installed and until it ends
Installed == {"enable", "check", "greet", "announce", "loop", "stage", "send", "acked", "deliver"}
Steps == Installed \cup {"none", "auth", "cleanup", "farewell", "ended"}
\* a request, or what tells the Core whether a user looks
Lines == Requests \cup {"activity"}
\* the answer to a request, or any other line for the client
Items == Requests \cup {"event"}

TypeOK ==
  /\ server \in [at : {"enable", "check", "select", "closed"}, registered : BOOLEAN,
                 woken : BOOLEAN]
  /\ stopping \in BOOLEAN /\ leaving \in BOOLEAN
  /\ ses \in [Sessions -> [at : Steps, cancelled : BOOLEAN, registered : BOOLEAN,
                           woken : BOOLEAN, out : Seq(Items), got : SUBSET Requests,
                           line : Requests \cup {None}, link : Nat]]
  /\ \A s \in Sessions : Len(ses[s].out) <= OutCapacity
  /\ Cardinality({s \in Sessions : ses[s].at = "auth"}) <= MaxPending
  /\ ui \in Sessions \cup {None}
  /\ link \in Nat
  /\ chan \in [generation : Nat, open : BOOLEAN, lines : Seq(Lines),
               next : {"serve", "discard", "abort", "start"}]
  /\ Len(chan.lines) <= CoreCapacity
  /\ core \in [generation : Nat, work : SUBSET Requests,
               said : Seq([line : Requests \cup {"message"}, ok : BOOLEAN])]
  /\ journal \in [entries : [Keys -> Requests \cup {None}], order : Seq(ProxyKeys),
                  pending : Seq(Requests)]
  /\ Len(journal.pending) <= MaxEntries
  /\ sender \in [Requests -> Sessions \cup {None}]
  /\ answered \subseteq Requests /\ confirmed \subseteq Requests
  /\ budget \in [sessions : Nat, requests : Nat, messages : Nat, losses : Nat]

Closed(at) ==
  [at |-> at, cancelled |-> FALSE, registered |-> FALSE, woken |-> FALSE,
   out |-> <<>>, got |-> {}, line |-> None, link |-> 0]

Init ==
  /\ server = [at |-> "enable", registered |-> FALSE, woken |-> FALSE]
  /\ stopping = FALSE /\ leaving = FALSE
  /\ ses = [s \in Sessions |-> Closed("none")]
  /\ ui = None
  /\ link = 1
  /\ chan = [generation |-> 1, open |-> TRUE, lines |-> <<>>, next |-> "serve"]
  /\ core = [generation |-> 1, work |-> {}, said |-> <<>>]
  /\ journal = [entries |-> [k \in Keys |-> None], order |-> <<>>, pending |-> <<>>]
  /\ sender = [r \in Requests |-> None]
  /\ answered = {} /\ confirmed = {}
  /\ budget \in Budgets

(***************************************************************************)
(* The journal.                                                            *)
(***************************************************************************)
Staged(j, r) ==
  LET pending == Append(j.pending, r)
  IN  [j EXCEPT !.pending = IF Len(pending) > MaxEntries THEN Tail(pending) ELSE pending]

\* position and remove: an element is in a queue of the journal at most once
Removed(queue, x) ==
  IF x \in ToSet(queue) THEN RemoveAt(queue, CHOOSE i \in DOMAIN queue : queue[i] = x) ELSE queue

Without(j, r) == [j EXCEPT !.pending = Removed(j.pending, r)]
Discarded(j) == [j EXCEPT !.pending = <<>>]

\* replay_lines: what a new Core is told
ReplayLines(j) == {j.entries[k] : k \in Keys} \ {None}

\* the newest value of a key replaces the one before; past the limit, the proxy
\* choice that is longest unchanged is forgotten
Record(j, r) ==
  LET k == KeyOf[r]
      entries == [j.entries EXCEPT ![k] = r]
      order == IF k \in ProxyKeys THEN Append(Removed(j.order, k), k) ELSE j.order
      full == Cardinality({q \in Keys : entries[q] # None}) > MaxEntries
  IN  IF full /\ order # <<>>
        THEN [j EXCEPT !.entries = [entries EXCEPT ![Head(order)] = None], !.order = Tail(order)]
        ELSE [j EXCEPT !.entries = entries, !.order = order]

\* commit_response: only what is staged, and only if the Core has accepted it
Commit(j, r, ok) ==
  IF r \notin ToSet(j.pending) THEN j
  ELSE IF ok THEN Record(Without(j, r), r) ELSE Without(j, r)

(***************************************************************************)
(* Cancellation, and what the Agent sends to a client without waiting.     *)
(***************************************************************************)
\* the flag first, then those who are registered: notify_waiters keeps nothing for later
Cancelled(all, s) ==
  [all EXCEPT ![s].cancelled = TRUE, ![s].woken = @ \/ all[s].registered]

(* Mutant of Forward: a line that finds no place is dropped, whatever it is. *)
ForwardOrDrop(line) ==
  IF ui = None \/ ses[ui].cancelled \/ Len(ses[ui].out) = OutCapacity THEN ses
  ELSE [ses EXCEPT ![ui].out = Append(@, IF line \in Requests THEN line ELSE "event")]

\* forward_to_ui: "message" is an unsolicited sample, "status" a state of the Core
Forward(line) ==
  IF ui = None \/ ses[ui].cancelled THEN ses
  ELSE LET free == OutCapacity - Len(ses[ui].out)
           queued == [ses EXCEPT ![ui].out = Append(@, IF line \in Requests THEN line ELSE "event")]
       IN  IF line = "message" THEN (IF free > Reserve THEN queued ELSE ses)
           ELSE IF free > 0 THEN queued ELSE Cancelled(ses, ui)

(***************************************************************************)
(* serve_ui.                                                               *)
(***************************************************************************)
(* Mutant of ServeWaits: it looks at the flag, then registers. *)
ServeRegistersLate ==
  /\ \/ /\ server.at = "enable" /\ ~stopping
        /\ server' = [server EXCEPT !.at = "check"]
     \/ /\ server.at = "check"
        /\ server' = [server EXCEPT !.at = "select", !.registered = TRUE]
  /\ UNCHANGED <<stopping, leaving, ses, ui, link, chan, core, journal, sender, answered,
                 confirmed, budget>>

\* it registers for the notification before it looks at the flag
ServeWaits ==
  /\ \/ /\ server.at = "enable"
        /\ server' = [server EXCEPT !.at = "check", !.registered = TRUE]
     \/ /\ server.at = "check" /\ ~stopping
        /\ server' = [server EXCEPT !.at = "select"]
  /\ UNCHANGED <<stopping, leaving, ses, ui, link, chan, core, journal, sender, answered,
                 confirmed, budget>>

\* a connection beyond MAX_PENDING_UI_AUTH is closed at once
Accept(s) ==
  /\ server.at = "select" /\ ~server.woken
  /\ ses[s].at = "none" /\ \A t \in Sessions : t < s => ses[t].at # "none"
  /\ budget.sessions > 0
  /\ budget' = [budget EXCEPT !.sessions = @ - 1]
  /\ ses' = [ses EXCEPT ![s] =
               Closed(IF Cardinality({t \in Sessions : ses[t].at = "auth"}) < MaxPending
                        THEN "auth" ELSE "ended")]
  /\ server' = [at |-> "enable", registered |-> FALSE, woken |-> FALSE]
  /\ UNCHANGED <<stopping, leaving, ui, link, chan, core, journal, sender, answered,
                 confirmed>>

\* every handler is aborted where it is, and nobody is the current session
ServeEnds ==
  /\ \/ server.at = "check" /\ stopping
     \/ server.at = "select" /\ server.woken
  /\ server' = [server EXCEPT !.at = "closed"]
  /\ ses' = [s \in Sessions |-> Closed(IF ses[s].at = "none" THEN "none" ELSE "ended")]
  /\ ui' = None
  /\ UNCHANGED <<stopping, leaving, link, chan, core, journal, sender, answered, confirmed, budget>>

\* signal_shutdown
Signalled ==
  /\ stopping' = TRUE
  /\ server' = [server EXCEPT !.woken = @ \/ server.registered]

\* two seconds after a shutdown was acknowledged
FallbackSignals ==
  /\ leaving /\ ~stopping
  /\ Signalled
  /\ UNCHANGED <<leaving, ses, ui, link, chan, core, journal, sender, answered, confirmed, budget>>

(***************************************************************************)
(* A session.                                                              *)
(***************************************************************************)
\* the token is wrong, missing, too long or three seconds late
AuthFails(s) ==
  /\ ses[s].at = "auth"
  /\ ses' = [ses EXCEPT ![s] = Closed("ended")]
  /\ UNCHANGED <<server, stopping, leaving, ui, link, chan, core, journal, sender, answered,
                 confirmed, budget>>

\* the session is current from here on, and the one before it is cancelled
Install(s) ==
  /\ ses[s].at = "auth"
  /\ ui' = s
  /\ ses' = [(IF ui = None THEN ses ELSE Cancelled(ses, ui)) EXCEPT ![s].at = "enable"]
  /\ UNCHANGED <<server, stopping, leaving, link, chan, core, journal, sender, answered,
                 confirmed, budget>>

\* SessionCancel::cancelled registers before it looks at the flag
Watch(s) ==
  /\ \/ /\ ses[s].at = "enable"
        /\ ses' = [ses EXCEPT ![s].at = "check", ![s].registered = TRUE]
     \/ /\ ses[s].at = "check"
        /\ ses' = [ses EXCEPT ![s].at = IF ses[s].cancelled THEN "cleanup" ELSE "greet"]
  /\ UNCHANGED <<server, stopping, leaving, ui, link, chan, core, journal, sender, answered,
                 confirmed, budget>>

Running(s) == ses[s].at \in Installed \ {"enable", "check"}

\* the select ends with the notification, wherever the handler is
Cancel(s) ==
  /\ Running(s) /\ ses[s].woken
  /\ ses' = [ses EXCEPT ![s].at = "cleanup"]
  /\ UNCHANGED <<server, stopping, leaving, ui, link, chan, core, journal, sender, answered,
                 confirmed, budget>>

\* the client closes, sends what cannot be read, or does not take a line in five seconds
ClientEnds(s) ==
  /\ Running(s) /\ ~ses[s].woken
  /\ ses' = [ses EXCEPT ![s].at = "cleanup"]
  /\ UNCHANGED <<server, stopping, leaving, ui, link, chan, core, journal, sender, answered,
                 confirmed, budget>>

\* write_ui_output: the client takes a line
WriteOut(s) ==
  /\ Running(s) /\ ses[s].out # <<>>
  /\ ses' = [ses EXCEPT ![s].out = Tail(@), ![s].got = @ \cup ({Head(ses[s].out)} \cap Requests)]
  /\ UNCHANGED <<server, stopping, leaving, ui, link, chan, core, journal, sender, answered,
                 confirmed, budget>>

\* a line of the handler itself waits for a place
Push(s, item, next) ==
  /\ Len(ses[s].out) < OutCapacity
  /\ ses' = [ses EXCEPT ![s].at = next, ![s].out = Append(@, item)]

Greet(s) ==
  /\ Running(s) /\ ses[s].at = "greet"
  /\ Push(s, "event", "announce")
  /\ UNCHANGED <<server, stopping, leaving, ui, link, chan, core, journal, sender, answered,
                 confirmed, budget>>

Open(g) == chan.open /\ chan.generation = g
Room == Len(chan.lines) < CoreCapacity

\* send_ui_activity: no Core, a full channel for two seconds, or a channel that closed
\* are only logged
Announce(s) ==
  /\ \/ ses[s].at = "announce" /\ ses' = [ses EXCEPT ![s].at = "loop"]
     \/ ses[s].at = "farewell" /\ ses' = [ses EXCEPT ![s] = Closed("ended")]
  /\ chan' = IF link # 0 /\ Open(link) /\ Room
               THEN [chan EXCEPT !.lines = Append(@, "activity")] ELSE chan
  /\ UNCHANGED <<server, stopping, leaving, ui, link, core, journal, sender, answered,
                 confirmed, budget>>

\* a Core action: the handler keeps the channel it saw
Ask(s, r) ==
  /\ ses[s].at = "loop" /\ ~ses[s].cancelled
  /\ sender[r] = None /\ r = CHOOSE q \in Requests : sender[q] = None
  /\ budget.requests > 0
  /\ budget' = [budget EXCEPT !.requests = @ - 1]
  /\ sender' = [sender EXCEPT ![r] = s]
  /\ IF link = 0
       THEN Push(s, "event", "loop")
       ELSE ses' = [ses EXCEPT ![s].at = "stage", ![s].line = r, ![s].link = link]
  /\ UNCHANGED <<server, stopping, leaving, ui, link, chan, core, journal, answered, confirmed>>

Stage(s) ==
  /\ ses[s].at = "stage"
  /\ journal' = Staged(journal, ses[s].line)
  /\ ses' = [ses EXCEPT ![s].at = "send"]
  /\ UNCHANGED <<server, stopping, leaving, ui, link, chan, core, sender, answered,
                 confirmed, budget>>

Send(s) ==
  /\ ses[s].at = "send" /\ Open(ses[s].link) /\ Room
  /\ chan' = [chan EXCEPT !.lines = Append(@, ses[s].line)]
  /\ ses' = [ses EXCEPT ![s].at = "loop", ![s].line = None, ![s].link = 0]
  /\ UNCHANGED <<server, stopping, leaving, ui, link, core, journal, sender, answered,
                 confirmed, budget>>

\* the channel is closed, or has no place for two seconds: all that is pending is given up
SendFails(s) ==
  /\ ses[s].at = "send" /\ ~(Open(ses[s].link) /\ Room)
  /\ journal' = Discarded(journal)
  /\ ses' = [ses EXCEPT ![s].at = "cleanup", ![s].line = None]
  /\ UNCHANGED <<server, stopping, leaving, ui, link, chan, core, sender, answered,
                 confirmed, budget>>

(* Mutant of Cleanup: whoever ends empties the place. *)
CleanupAnyone(s) ==
  /\ ses[s].at = "cleanup"
  /\ ui' = None
  /\ ses' = [ses EXCEPT ![s] = [Closed("farewell") EXCEPT !.cancelled = ses[s].cancelled]]
  /\ UNCHANGED <<server, stopping, leaving, link, chan, core, journal, sender, answered,
                 confirmed, budget>>

\* a session that ends takes its place with it only while the place is its own
Cleanup(s) ==
  /\ ses[s].at = "cleanup"
  /\ ui' = IF ui = s THEN None ELSE ui
  /\ ses' = [ses EXCEPT ![s] = [Closed(IF ui = s THEN "farewell" ELSE "ended") EXCEPT
                                 !.cancelled = (ui = s) /\ ses[s].cancelled]]
  /\ UNCHANGED <<server, stopping, leaving, link, chan, core, journal, sender, answered,
                 confirmed, budget>>

\* shutdownAgent: the supervisor has stopped the Core and acknowledged
ShutdownAcked(s) ==
  /\ ses[s].at = "loop" /\ ~ses[s].cancelled /\ ~leaving
  /\ leaving' = TRUE
  /\ ses' = [Forward("status") EXCEPT ![s].at = "acked"]
  /\ link' = 0
  /\ chan' = [chan EXCEPT !.open = FALSE, !.lines = <<>>, !.next = "start"]
  /\ core' = [generation |-> 0, work |-> {}, said |-> <<>>]
  /\ journal' = Discarded(journal)
  /\ UNCHANGED <<server, stopping, ui, sender, answered, confirmed, budget>>

Deliver(s) ==
  /\ ses[s].at = "acked"
  /\ Push(s, "event", "deliver")
  /\ UNCHANGED <<server, stopping, leaving, ui, link, chan, core, journal, sender, answered,
                 confirmed, budget>>

\* the result was written, or a second has gone by
SignalShutdown(s) ==
  /\ ses[s].at = "deliver"
  /\ Signalled
  /\ ses' = [ses EXCEPT ![s].at = "cleanup"]
  /\ UNCHANGED <<leaving, ui, link, chan, core, journal, sender, answered, confirmed, budget>>

(***************************************************************************)
(* The Core and the loop of supervise_core that reads it.                  *)
(***************************************************************************)
\* the writer task; the Core begins a request as soon as it has it
WriterSends ==
  /\ chan.open /\ chan.lines # <<>> /\ core.generation = chan.generation
  /\ chan' = [chan EXCEPT !.lines = Tail(@)]
  /\ core' = [core EXCEPT !.work = @ \cup ({Head(chan.lines)} \cap Requests)]
  /\ UNCHANGED <<server, stopping, leaving, ses, ui, link, journal, sender, answered,
                 confirmed, budget>>

\* requests are handled side by side, so they may end in any order
CoreAnswers(r, ok) ==
  /\ r \in core.work
  /\ core' = [core EXCEPT !.work = @ \ {r}, !.said = Append(@, [line |-> r, ok |-> ok])]
  /\ confirmed' = IF ok THEN confirmed \cup {r} ELSE confirmed
  /\ UNCHANGED <<server, stopping, leaving, ses, ui, link, chan, journal, sender, answered, budget>>

CoreSpeaks ==
  /\ core.generation # 0 /\ budget.messages > 0
  /\ core' = [core EXCEPT !.said = Append(@, [line |-> "message", ok |-> TRUE])]
  /\ budget' = [budget EXCEPT !.messages = @ - 1]
  /\ UNCHANGED <<server, stopping, leaving, ses, ui, link, chan, journal, sender, answered,
                 confirmed>>

AgentReads ==
  /\ link # 0 /\ core.generation = link /\ core.said # <<>>
  /\ LET said == Head(core.said)
     IN  /\ journal' = IF said.line = "message" THEN journal ELSE Commit(journal, said.line, said.ok)
         /\ answered' = answered \cup ({said.line} \cap Requests)
         /\ ses' = Forward(said.line)
  /\ core' = [core EXCEPT !.said = Tail(@)]
  /\ UNCHANGED <<server, stopping, leaving, ui, link, chan, sender, confirmed, budget>>

\* the Core is gone: no new request reaches it, and the user sees it at once
CoreLost ==
  /\ link # 0 /\ budget.losses > 0
  /\ budget' = [budget EXCEPT !.losses = @ - 1]
  /\ link' = 0
  /\ chan' = [chan EXCEPT !.next = "discard"]
  /\ core' = [generation |-> 0, work |-> {}, said |-> <<>>]
  /\ ses' = Forward("status")
  /\ UNCHANGED <<server, stopping, leaving, ui, journal, sender, answered, confirmed>>

DiscardPending ==
  /\ chan.next = "discard"
  /\ journal' = Discarded(journal)
  /\ chan' = [chan EXCEPT !.next = "abort"]
  /\ UNCHANGED <<server, stopping, leaving, ses, ui, link, core, sender, answered, confirmed, budget>>

WriterAborted ==
  /\ chan.next = "abort"
  /\ chan' = [chan EXCEPT !.open = FALSE, !.lines = <<>>, !.next = "start"]
  /\ UNCHANGED <<server, stopping, leaving, ses, ui, link, core, journal, sender, answered,
                 confirmed, budget>>

\* the entries were replayed to a new Core, which is ready
CoreReady ==
  /\ chan.next = "start" /\ ~leaving
  /\ LET g == chan.generation + 1
     IN  /\ link' = g
         /\ core' = [generation |-> g, work |-> {}, said |-> <<>>]
         /\ chan' = [generation |-> g, open |-> TRUE, lines |-> <<>>, next |-> "serve"]
  /\ ses' = Forward("status")
  /\ UNCHANGED <<server, stopping, leaving, ui, journal, sender, answered, confirmed, budget>>

Program ==
  \/ ServeWaits \/ ServeEnds \/ FallbackSignals
  \/ \E s \in Sessions :
       \/ AuthFails(s) \/ Install(s) \/ Watch(s) \/ Cancel(s) \/ WriteOut(s)
       \/ Greet(s) \/ Announce(s) \/ Stage(s) \/ Send(s) \/ SendFails(s)
       \/ Deliver(s) \/ SignalShutdown(s) \/ Cleanup(s)
  \/ WriterSends \/ AgentReads \/ DiscardPending \/ WriterAborted \/ CoreReady
  \/ \E r \in Requests, ok \in BOOLEAN : CoreAnswers(r, ok)

Environment ==
  \/ \E s \in Sessions :
       \/ Accept(s) \/ ClientEnds(s) \/ ShutdownAcked(s)
       \/ \E r \in Requests : Ask(s, r)
  \/ CoreSpeaks \/ CoreLost

Next == Program \/ Environment

Spec == Init /\ [][Next]_vars

(***************************************************************************)
(* Every task of the Agent and of the Core goes on when it can; clients    *)
(* need not send, take or close anything.  (That a client takes its lines  *)
(* is no assumption: one that does not has ended after five seconds.)      *)
(***************************************************************************)
FairSpec == Spec /\ WF_vars(Program)

(***************************************************************************)
(* What the Agent promises its clients and the Core.                       *)
(***************************************************************************)
\* The session a client talks to is the one the Agent talks to: a session that
\* is installed and was not cancelled is the current one, so neither the
\* clean-up of an older session nor a newer one can cut it off unnoticed.
LiveSessionIsCurrent ==
  \A s \in Sessions : ses[s].at \in Installed /\ ~ses[s].cancelled => ui = s

\* An answer is never lost on a live session: once the Agent has read the answer
\* to a request, the session that asked has it, is about to be given it, or is
\* cancelled or over; a full queue of a slow client drops samples, not answers.
AnswersOrDisconnects ==
  \A r \in answered :
    LET s == sender[r]
    IN  ses[s].at \in Installed /\ ~ses[s].cancelled => r \in ses[s].got \cup ToSet(ses[s].out)

\* Only what a Core has carried out is replayed to the next one, whatever was
\* refused, given up, forgotten or asked of a Core that died over it.
ReplaysOnlyConfirmed ==
  /\ ReplayLines(journal) \subseteq confirmed
  /\ \A k \in Keys : journal.entries[k] # None => KeyOf[journal.entries[k]] = k

\* The session and the journal keep what they promise, in states whose parts
\* have the shapes that their code knows.
SessionsInvariant == TypeOK /\ LiveSessionIsCurrent /\ ReplaysOnlyConfirmed

\* A session that is told to end ends, also when it is told before it has begun
\* to listen and its client never sends or takes another byte.
CancelledSessionsEnd ==
  \A s \in Sessions : ses[s].cancelled ~> ses[s].at = "ended"

\* An acknowledged shutdown ends the Agent's service and every session, whether
\* or not the client that asked lives to see the answer, and wherever the accept
\* loop was when it was signalled.
ShutdownCompletes ==
  leaving ~> (server.at = "closed" /\ \A s \in Sessions : ses[s].at \in {"none", "ended"})

\* What is told to end ends, a session as much as the service: both of the above.
SessionsEnd == CancelledSessionsEnd /\ ShutdownCompletes
=============================================================================
