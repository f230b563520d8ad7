-------------------------- MODULE MCTelemetryLine ---------------------------
(***************************************************************************)
(* TelemetryLine for TLC: eight sequence numbers, bodies of five bytes.    *)
(***************************************************************************)
EXTENDS TelemetryLine

S == "SOF"
E == "ESC"
s == "SOF^20"
e == "ESC^20"
d == "data"

\* Any two bodies, escaped or not, are three bytes lost, changed or inserted
\* apart, so that two faults never make one out of another.  One needs the whole
\* of the output buffer.
Words == << <<S, S, e, e, S>>, <<d, d, S, e, d>>, <<s, d, s, d, E>>,
            <<e, E, s, e, s>>, <<E, S, s, E, d>>, <<S, d, E, S, s>>,
            <<E, S, E, S, S>>, <<s, s, E, e, e>> >>

MCBody == [n \in 0 .. SEQUENCES - 1 |-> Words[n + 1]]

\* Not a word of the code.
MCForeign == {<<d, d, d, d, S>>}
=============================================================================
