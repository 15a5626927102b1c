---------------------------- MODULE ReplayWindow ----------------------------
(***************************************************************************)
(* The sliding window against replayed sequence numbers.  The driver keeps *)
(* one per UDP flow for replies (driver.c), the Broker one per direction   *)
(* of an association (strict_udp_frame.rs), the Core one per association   *)
(* (strict_ingress.go); the three do the same thing with a 64 bit bitmap.  *)
(* Here the bitmap is the set of positions of its set bits: position d     *)
(* stands for the sequence number highest - d.                             *)
(***************************************************************************)
EXTENDS Integers

CONSTANT WindowSize     \* bits of the bitmap, 64 in the code

ASSUME WindowAssumption == WindowSize \in Nat \ {0}

Positions == 0 .. WindowSize - 1

Windows == [highest : Nat, bitmap : SUBSET Positions]

EmptyWindow == [highest |-> 0, bitmap |-> {}]

(* A sequence number is taken when it is ahead of the window, or inside it *)
(* at a position that is not set.  Zero is never taken.                    *)
Accepts(window, sequence) ==
  /\ sequence # 0
  /\ \/ sequence > window.highest
     \/ /\ window.highest - sequence < WindowSize
        /\ window.highest - sequence \notin window.bitmap

(* Mutant of Advance: a shift clears the bitmap.                            *)
AdvanceAndForget(window, sequence) ==
  IF sequence > window.highest
  THEN [highest |-> sequence, bitmap |-> {0}]
  ELSE [window EXCEPT !.bitmap = @ \cup {window.highest - sequence}]

(* The window after an accepted sequence number: shifted so that position  *)
(* 0 is the new highest number, or with one more position set.  Positions  *)
(* shifted beyond the bitmap are lost.                                     *)
Advance(window, sequence) ==
  IF sequence > window.highest
  THEN LET shift == sequence - window.highest
       IN [highest |-> sequence,
           bitmap  |-> {d \in Positions :
                          d = 0 \/ (d >= shift /\ d - shift \in window.bitmap)}]
  ELSE [highest |-> window.highest,
        bitmap  |-> window.bitmap \cup {window.highest - sequence}]

(* What a window says about the sequence numbers accepted so far: the bits *)
(* are exactly those of them that are still inside the window.             *)
Represents(window, accepted) ==
  /\ window.bitmap = {d \in Positions : window.highest - d \in accepted}
  /\ \A sequence \in accepted : sequence > 0 /\ sequence <= window.highest

=============================================================================
