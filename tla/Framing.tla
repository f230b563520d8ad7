------------------------------ MODULE Framing -------------------------------
(***************************************************************************)
(* What the encoder and both decoders of the telemetry protocol share: the *)
(* bytes framing tells apart, the escape, the bodies that pass the CRC and *)
(* the format checks, and the comparison of sequence numbers               *)
(* (core/telemetry.c, tools/spectrum_monitor.py).                          *)
(*                                                                         *)
(* A byte is one of the two reserved bytes, one of their escaped forms, or *)
(* any other.  A frame's body is its raw bytes before escaping; the frame  *)
(* that carries sequence number n has body Body[n].  The CRC is abstracted *)
(* to what it is for: it tells a body that was sent from every other one.  *)
(***************************************************************************)
EXTENDS Integers, Sequences

CONSTANTS
    RAW_LENGTH,   \* TELEMETRY_RAW_SPECTRUM_LEN: bytes of a body
    SEQUENCES,    \* size of the sequence number's type, 2^16 in the code
    Body,         \* sequence number -> body of the frame
    Foreign       \* bodies with a good CRC that fail the format checks

\* TELEMETRY_SOF, TELEMETRY_ESC, the two XOR 0x20, and the rest.
Bytes == {"SOF", "ESC", "SOF^20", "ESC^20", "data"}

ASSUME FramingAssumption ==
    /\ RAW_LENGTH \in Nat \ {0}
    /\ SEQUENCES \in Nat /\ SEQUENCES > 1
    /\ Body \in [0 .. SEQUENCES - 1 -> Seq(Bytes)]
    /\ \A n \in 0 .. SEQUENCES - 1 : Len(Body[n]) = RAW_LENGTH
    /\ \A m, n \in 0 .. SEQUENCES - 1 : Body[m] = Body[n] => m = n
    /\ \A b \in Foreign : b # <<>>
    /\ \A b \in Foreign, n \in 0 .. SEQUENCES - 1 : b # Body[n]

Reserved == {"SOF", "ESC"}
Escapes == {"SOF^20", "ESC^20"}

\* byte ^ 0x20, for the bytes the protocol applies it to.
Flip(byte) == CASE byte = "SOF" -> "SOF^20" [] byte = "SOF^20" -> "SOF"
                [] byte = "ESC" -> "ESC^20" [] byte = "ESC^20" -> "ESC"

\* The CRC of the body is the one at its end.
PassesCrc(body) == body \in Foreign \/ \E n \in DOMAIN Body : Body[n] = body

\* The header of the body is one of this protocol's.
WellFormed(body) == body \notin Foreign

SequenceOf(body) == CHOOSE n \in DOMAIN Body : Body[n] = body

\* (uint16_t)(a - b)
Delta(a, b) == (a - b) % SEQUENCES

=============================================================================
