----------------------- MODULE StrictBrokerRefinement -----------------------
(***************************************************************************)
(* The Broker implements Enforcement: how the recovery file, the filters   *)
(* and the driver of StrictBroker amount to a record and to a treatment of *)
(* every application's traffic.                                            *)
(***************************************************************************)
EXTENDS StrictBroker

(* The recovery file is the record; Blocking and Armed are both enforced.   *)
RecordState ==
  CASE disk.marker = NoMarker -> "none"
    [] disk.marker.phase = "Disabling" -> "disabling"
    [] disk.marker.phase \in Enforced -> "enforced"
    [] OTHER -> "preparing"

FileRecord ==
  [policy |-> disk.marker.policy, state |-> RecordState, hwm |-> disk.hwm]

(* The driver redirects an application while the filter that calls it is    *)
(* there and its lease is live, and blocks the connection otherwise.  The   *)
(* guard alone blocks too.                                                  *)
Treatment ==
  [app \in Apps |-> IF app \in dataPlane /\ driver.lease THEN "forwarded"
                    ELSE IF app \in guards THEN "blocked"
                    ELSE "free"]

Promise == INSTANCE Enforcement WITH record <- FileRecord, traffic <- Treatment

(* Every step of the Broker, and of its environment, is a step of the       *)
(* promise or changes nothing the promise speaks of: no crash, reboot, lost *)
(* lease or failed step between two effects of a command frees traffic,     *)
(* forwards past a missing guard, or skips or repeats a revision.           *)
ImplementsEnforcement == Promise!Spec
=============================================================================
