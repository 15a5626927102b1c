---------------------------- MODULE FilterStore ----------------------------
(***************************************************************************)
(* What the Broker asks of its store of WFP filters ("each replace/remove  *)
(* method must be one WFP transaction scoped to our provider/sublayer"):   *)
(* one request at a time, which takes effect as a whole or not at all and  *)
(* is confirmed only if it did.  Filters leave without a request only with *)
(* the session they belong to, and those are never guards.                 *)
(***************************************************************************)
EXTENDS Naturals

CONSTANTS
  Kinds,      \* the classes of filters
  Temporary,  \* the class whose filters end with their session
  Sets        \* Sets[k]: the sets of keys a request may ask for

VARIABLES
  held,          \* the keys held, by class
  foreign,       \* the filters of other programs
  request,       \* the request under way
  outcome,       \* how the last one ended
  interference   \* what other programs may still do to the filters

svars == <<held, foreign, request, outcome, interference>>

NoRequest == [kind |-> "none", keys |-> {}, done |-> FALSE]

Init ==
  /\ held = [k \in Kinds |-> {}]
  /\ foreign = {}
  /\ request = NoRequest
  /\ outcome = "none"
  /\ interference \in Nat

Ask ==
  /\ request = NoRequest
  /\ \/ UNCHANGED request
     \/ \E k \in Kinds : \E keys \in Sets[k] :
          request' = [kind |-> k, keys |-> keys, done |-> FALSE]
  /\ outcome' = "none"
  /\ UNCHANGED <<held, foreign, interference>>

(* The request takes effect, once and as a whole.                           *)
Perform ==
  /\ request.kind \in Kinds /\ ~request.done
  /\ held' = [held EXCEPT ![request.kind] = request.keys]
  /\ \/ request' = [request EXCEPT !.done = TRUE] /\ UNCHANGED outcome
     \/ request' = NoRequest /\ outcome' = "ok"
  /\ UNCHANGED <<foreign, interference>>

(* Its failure is reported, whether or not it took effect; a client that    *)
(* crashes hears nothing.                                                   *)
Abandon ==
  /\ request # NoRequest
  /\ request' = NoRequest
  /\ outcome' \in {"failed", "none"}
  /\ UNCHANGED <<held, foreign, interference>>

(* A session ends: filters of the temporary class leave, no other one.      *)
SessionEnds ==
  /\ held'[Temporary] \subseteq held[Temporary]
  /\ \A k \in Kinds \ {Temporary} : held'[k] = held[k]
  /\ UNCHANGED <<foreign, request, outcome, interference>>

Interfere ==
  /\ interference > 0
  /\ interference' = interference - 1
  /\ \A k \in Kinds : held'[k] \subseteq held[k]
  /\ UNCHANGED <<request, outcome>>

Next == Ask \/ Perform \/ Abandon \/ SessionEnds \/ Interfere

Spec == Init /\ [][Next]_svars
=============================================================================
