--------------------------- MODULE HealthMonitor ---------------------------
(***************************************************************************)
(* acquisition_health_check of core/health_monitor.c, in the width of its  *)
(* integers: the generation and the microsecond clock of a block are read  *)
(* modulo WORD, and the check must find every lost, repeated or late block *)
(* from their differences, also where they wrap.                           *)
(***************************************************************************)
EXTENDS Integers

CONSTANTS
    WORD,                 \* size of a uint32_t, 2^32 in the code
    EXPECTED_PERIOD,      \* block_period_us
    FIRST_GENERATION, FIRST_TIME,
    MaxChecks             \* bound: blocks checked

Tolerance == EXPECTED_PERIOD \div 20 + 1

ASSUME MonitorAssumption ==
    /\ WORD \in Nat /\ EXPECTED_PERIOD \in Nat
    /\ EXPECTED_PERIOD + 2 * Tolerance < WORD
    /\ FIRST_GENERATION \in Nat /\ FIRST_TIME \in Nat /\ MaxChecks \in Nat

VARIABLES
    generation, time,     \* of the last block, without a width
    monitor,              \* acquisition_health_t
    status,               \* what the last check returned
    checks,
    missed, repeated      \* blocks never checked; blocks checked again

vars == <<generation, time, monitor, status, checks, missed, repeated>>

Words == 0 .. WORD - 1

TypeOK ==
    /\ generation \in Nat /\ time \in Nat
    /\ monitor \in [initialized : BOOLEAN, last_generation : Words,
                    last_timestamp : Words, dropped_blocks : Words,
                    timing_faults : Words]
    /\ status \subseteq {"ADC_RUNNING", "BLOCK_GAP", "NUMERIC_FAULT"}
    /\ checks \in 0 .. MaxChecks
    /\ missed \in Nat /\ repeated \in Nat

Init ==
    /\ generation = FIRST_GENERATION /\ time = FIRST_TIME
    /\ monitor = [initialized |-> FALSE, last_generation |-> 0,
                  last_timestamp |-> 0, dropped_blocks |-> 0,
                  timing_faults |-> 0]
    /\ status = {} /\ checks = 0 /\ missed = 0 /\ repeated = 0

-----------------------------------------------------------------------------
\* mutant: the sum keeps bits a uint32_t does not have
Plus_Unbounded(a, b) == a + b

\* uint32_t arithmetic.
Plus(a, b) == (a + b) % WORD
Minus(a, b) == (a - b) % WORD

\* mutant: only a step forward by more than one is a gap
Skips_ForwardOnly(delta) == delta > 1

Skips(delta) == delta # 1

\* elapsed + tolerance may wrap.
OffTime(elapsed) ==
    \/ Plus(elapsed, Tolerance) < EXPECTED_PERIOD
    \/ elapsed > EXPECTED_PERIOD + Tolerance

\* mutant: the block that arrived is counted, too
DroppedBy_All(delta) == IF delta > 1 THEN delta ELSE 1

DroppedBy(delta) == IF delta > 1 THEN delta - 1 ELSE 1

\* A block without samples, or of another size, is refused.
Refuse == status' = {"NUMERIC_FAULT"} /\ UNCHANGED monitor

Accept(block) ==
    LET delta == Minus(block.generation, monitor.last_generation)
        elapsed == Minus(block.timestamp, monitor.last_timestamp)
        skips == monitor.initialized /\ Skips(delta)
        offTime == monitor.initialized /\ OffTime(elapsed)
    IN  /\ status' = {"ADC_RUNNING"}
                       \cup (IF skips \/ offTime THEN {"BLOCK_GAP"} ELSE {})
        /\ monitor' =
             [initialized |-> TRUE,
              last_generation |-> block.generation,
              last_timestamp |-> block.timestamp,
              dropped_blocks |-> Plus(monitor.dropped_blocks,
                                      IF skips THEN DroppedBy(delta) ELSE 0),
              timing_faults |-> Plus(monitor.timing_faults,
                                     IF offTime THEN 1 ELSE 0)]

acquisition_health_check(block) == IF block.usable THEN Accept(block) ELSE Refuse

\* A block "ahead" generations and "elapsed" microseconds after the last.
Check(ahead, elapsed) ==
    /\ checks < MaxChecks
    /\ checks' = checks + 1
    /\ generation' = generation + ahead
    /\ time' = time + elapsed
    /\ acquisition_health_check([usable |-> TRUE,
                                 generation |-> generation' % WORD,
                                 timestamp |-> time' % WORD])
    /\ missed' = missed + IF monitor.initialized /\ ahead > 1
                          THEN ahead - 1 ELSE 0
    /\ repeated' = repeated + IF monitor.initialized /\ ahead = 0
                              THEN 1 ELSE 0

CheckUnusable ==
    /\ checks < MaxChecks
    /\ checks' = checks + 1
    /\ acquisition_health_check([usable |-> FALSE])
    /\ UNCHANGED <<generation, time, missed, repeated>>

Finished == checks = MaxChecks /\ UNCHANGED vars

Next == (\E ahead, elapsed \in Words : Check(ahead, elapsed))
            \/ CheckUnusable \/ Finished

Spec == Init /\ [][Next]_vars

-----------------------------------------------------------------------------
(* Properties.                                                             *)

\* A block is reported as a gap exactly when it is not the successor of the last
\* one accepted or its distance in time, as integers without a width, is off by
\* more than the tolerance: wraps neither hide a gap nor invent one
\* (health_monitor.c:19-34).
OnTime == time' - time \in EXPECTED_PERIOD - Tolerance
                             .. EXPECTED_PERIOD + Tolerance

GapExact ==
    [][checks' # checks /\ status' # {"NUMERIC_FAULT"} =>
         ("BLOCK_GAP" \in status' <=>
            monitor.initialized /\ ~(generation' = generation + 1 /\ OnTime))
      ]_vars

\* However the generations wrap, dropped_blocks is the number of blocks that
\* were never checked plus, one each, those checked again
\* (health_monitor.c:23-24).
DroppedExact == monitor.dropped_blocks = (missed + repeated) % WORD

=============================================================================
