---------------------------- MODULE FrameStream ----------------------------
(***************************************************************************)
(* What the host may assume of the whole frames that leave the UART.       *)
(* Until the firmware flags backpressure they are the frames of every      *)
(* result, in order and without a gap.  Once flagged, frames may be        *)
(* missing, a transfer may be torn or replaced by a later frame, but the   *)
(* order remains; and as long as none has been, consecutive frames have    *)
(* the same sequence number or consecutive ones.  UartLink implements this *)
(* specification.                                                          *)
(***************************************************************************)
EXTENDS Integers

CONSTANTS FRAMES, SEQUENCES, NoFrame

VARIABLES last,      \* the last frame transmitted whole
          torn,      \* a transfer was not what the UART had been given
          flagged    \* a status bit has reported backpressure

NextSequence(number) == (number + 1) % SEQUENCES

\* The frame after a frame, or the first one of all.
Successor(f) ==
    IF f = NoFrame
    THEN [sequence |-> 0, result |-> 1, index |-> 0]
    ELSE [sequence |-> NextSequence(f.sequence),
          result |-> IF f.index = FRAMES - 1 THEN f.result + 1 ELSE f.result,
          index |-> IF f.index = FRAMES - 1 THEN 0 ELSE f.index + 1]

Later(f, g) == \/ g.result > f.result
               \/ g.result = f.result /\ g.index > f.index

InSequence(f, g) == g.sequence \in {f.sequence, NextSequence(f.sequence)}

Init == last = NoFrame /\ torn = FALSE /\ flagged = FALSE

Deliver ==
    /\ Later(last, last')
    /\ ~flagged => last' = Successor(last)
    /\ ~torn /\ last # NoFrame => InSequence(last, last')
    /\ UNCHANGED <<torn, flagged>>

\* Nothing whole, or a later frame than the one the transfer began with.
Tear ==
    /\ flagged
    /\ torn' = TRUE
    /\ last' = last \/ Later(last, last')
    /\ UNCHANGED flagged

Flag == flagged' = TRUE /\ UNCHANGED <<last, torn>>

Next == Deliver \/ Tear \/ Flag

Spec == Init /\ [][Next]_<<last, torn, flagged>>

=============================================================================
