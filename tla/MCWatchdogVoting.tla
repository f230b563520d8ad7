------------------------- MODULE MCWatchdogVoting --------------------------
(***************************************************************************)
(* WatchdogVoting for TLC, in slots of 50 ms: the window of 250 ms and the *)
(* IWDG's 32032 ticks of an oscillator of 47, 32 and 17 kHz.               *)
(***************************************************************************)
EXTENDS WatchdogVoting

MCTimeouts == {13, 20, 37}
=============================================================================
