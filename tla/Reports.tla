------------------------------ MODULE Reports ------------------------------
(***************************************************************************)
(* What the sample pipeline promises to its reader: a mailbox holding the  *)
(* newest result.  Each result is made of one whole block and follows the  *)
(* one before it in the sense of Follows, and the reader gets every result *)
(* at most once.  SamplePipeline implements this specification.            *)
(***************************************************************************)
EXTENDS Integers

CONSTANTS Results, NoResult

VARIABLES latest,   \* the last result published
          fresh,    \* nobody has read it yet
          report    \* what the reader transmits

Intact(result) == result.samples = {result.generation}

\* A later result: newer, unless it carries the bit of a repetition; complete in
\* its status; and marked if blocks are missing before it.
Follows(earlier, later) ==
    /\ earlier.generation <= later.generation
    /\ earlier.status \subseteq later.status
    /\ later.generation = earlier.generation => "BLOCK_GAP" \in later.status
    /\ earlier.generation # 0 /\ later.generation # earlier.generation + 1
         => later.status \cap {"BLOCK_GAP", "FRAME_DROPPED"} # {}

Init == latest = NoResult /\ fresh = FALSE /\ report = NoResult

Publish ==
    /\ latest' \in Results
    /\ Intact(latest')
    /\ Follows(latest, latest')
    /\ fresh' = TRUE
    /\ UNCHANGED report

Take ==
    /\ fresh
    /\ fresh' = FALSE
    /\ report' = latest
    /\ UNCHANGED latest

Next == Publish \/ Take

Spec == Init /\ [][Next]_<<latest, fresh, report>>

=============================================================================
