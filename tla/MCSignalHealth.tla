--------------------------- MODULE MCSignalHealth ---------------------------
(***************************************************************************)
(* SignalHealth for TLC: a converter of four bits whose samples have five, *)
(* blocks of eight words of which every other one is previewed.  In the    *)
(* field of 17 elements 3 is the cosine of 45 degrees: 2 * 3 * 3 = 1.      *)
(***************************************************************************)
EXTENDS SignalHealth, TLC

\* Stuck, a good tone, weak, and a tone the preview does not see.
Others == <<[i \in 0 .. 7 |-> 6],
            [i \in 0 .. 7 |-> IF i % 4 < 2 THEN 4 ELSE 11],
            [i \in 0 .. 7 |-> IF i % 4 < 2 THEN 7 ELSE 8],
            [i \in 0 .. 7 |-> IF i % 2 = 0 THEN 4 ELSE 11]>>

\* Any three of five levels over and over, and one of the others beside them.
MCBlocks == {LET a == [i \in 0 .. 7 |-> s[i % 3]]
             IN  (0 :> a) @@ (1 :> Others[((s[0] + s[1] + s[2]) % 4) + 1]) :
               s \in [0 .. 2 -> {0, 1, 7, 14, 15}]}
MCProcessingTimes == {3, 4}

MCCOS == 0 :> 1 @@ 1 :> 3 @@ 2 :> 0 @@ 3 :> 14 @@ 4 :> 16 @@ 5 :> 14
           @@ 6 :> 0 @@ 7 :> 3
MCWINDOW == [i \in 0 .. 7 |-> IF i < 4 THEN i * i ELSE (7 - i) * (7 - i)]

Four(a, b, c, d) == 0 :> a @@ 1 :> b @@ 2 :> c @@ 3 :> d

\* None at all, beside a larger DC, a plateau beyond full scale, two equal ones,
\* the last bin, and an inner one.
MCAmplitudes ==
    {0 :> Four(0, 0, 0, 0) @@ 1 :> Four(2, 5, 12, 8),
     0 :> Four(10, 5, 1, 0) @@ 1 :> Four(12, 5, 4, 1),
     0 :> Four(9, 40, 50, 45) @@ 1 :> Four(3, 9, 1, 9),
     0 :> Four(8, 5, 2, 0) @@ 1 :> Four(1, 2, 3, 9)}

\* Numbers all of whose bytes matter, and the greatest of four.
MCStamps == {[sequence |-> 91, timestamp_us |-> 48879, sample_rate_hz |-> 4660,
              processing_us |-> 65535, dropped_blocks |-> 33825]}
=============================================================================
