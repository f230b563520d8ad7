------------------------ MODULE HealthMonitorProofs -------------------------
(***************************************************************************)
(* Proofs about HealthMonitor, for every width of the integers and every   *)
(* period that is short against it: the differences modulo WORD are the    *)
(* true distances, so that gaps are reported and counted exactly.          *)
(***************************************************************************)
EXTENDS HealthMonitor, NumberLemmas, TLAPS

-----------------------------------------------------------------------------
(* Arithmetic modulo WORD.                                                 *)

\* The size of the integers is one.
LEMMA WordSize == WORD \in Nat \ {0} /\ Words = 0 .. WORD - 1
BY MonitorAssumption DEF Words, Tolerance

\* Reduced, a number is a word, and a word is itself.
LEMMA Reduced ==
  /\ \A n \in Int : n % WORD \in Words
  /\ \A r \in Words : r % WORD = r
BY WordSize

\* The difference of two remainders is the distance, wherever it wraps.
LEMMA Distance ==
  ASSUME NEW n \in Nat, NEW a \in Words
  PROVE  Minus((n + a) % WORD, n % WORD) = a
<1>1. n \in Int /\ a \in Int /\ n + a \in Int /\ (n + a) - n = a
  BY WordSize
<1>2. (((n + a) % WORD) - (n % WORD)) % WORD = a % WORD
  <2>1. (((n + a) % WORD) - (n % WORD)) % WORD = ((n + a) - n) % WORD
    BY <1>1, WordSize, SubtractRemainders, Zenon
  <2>. QED
    BY <1>1, <2>1
<1>3. a % WORD = a
  BY Reduced
<1>. QED
  BY <1>2, <1>3 DEF Minus

-----------------------------------------------------------------------------
(* The invariant.                                                          *)

\* What the monitor keeps of the last block, and counts.
MonitorInv ==
    /\ TypeOK
    /\ DroppedExact
    /\ ~monitor.initialized => missed = 0 /\ repeated = 0
    /\ monitor.initialized =>
         /\ monitor.last_generation = generation % WORD
         /\ monitor.last_timestamp = time % WORD

\* The differences the check computes are the true distances.
LEMMA Differences ==
  ASSUME MonitorInv, monitor.initialized,
         NEW ahead \in Words, NEW elapsed \in Words
  PROVE  /\ Minus((generation + ahead) % WORD, monitor.last_generation) = ahead
         /\ Minus((time + elapsed) % WORD, monitor.last_timestamp) = elapsed
BY Distance DEF MonitorInv, TypeOK

\* The count of dropped blocks is kept modulo WORD.
LEMMA Counting ==
  ASSUME NEW m \in Nat, NEW r \in Nat, NEW x \in Nat
  PROVE  Plus((m + r) % WORD, x) = ((m + r) + x) % WORD
<1>1. m + r \in Int /\ x \in Int
  OBVIOUS
<1>. QED
  BY <1>1, WordSize, AddRemainder, Zenon DEF Plus

\* Checking a usable block preserves the invariant.
LEMMA CheckStep ==
  ASSUME MonitorInv, NEW ahead \in Words, NEW elapsed \in Words,
         Check(ahead, elapsed)
  PROVE  MonitorInv'
<1>. DEFINE block == [usable |-> TRUE, generation |-> generation' % WORD,
                      timestamp |-> time' % WORD]
            delta == Minus(block.generation, monitor.last_generation)
            skips == monitor.initialized /\ Skips(delta)
            drops == IF skips THEN DroppedBy(delta) ELSE 0
<1>1. /\ generation' = generation + ahead /\ time' = time + elapsed
      /\ checks' = checks + 1 /\ checks < MaxChecks
      /\ missed' = missed + IF monitor.initialized /\ ahead > 1
                            THEN ahead - 1 ELSE 0
      /\ repeated' = repeated + IF monitor.initialized /\ ahead = 0
                                THEN 1 ELSE 0
      /\ Accept(block)
  BY DEF Check, acquisition_health_check
<1>2. /\ generation \in Nat /\ time \in Nat /\ missed \in Nat /\ repeated \in Nat
      /\ ahead \in Nat /\ elapsed \in Nat
      /\ generation' \in Nat /\ time' \in Nat
      /\ missed' \in Nat /\ repeated' \in Nat
  BY <1>1 DEF MonitorInv, TypeOK, Words
<1>3. monitor.initialized => delta = ahead
  BY <1>1, Differences
<1>4. /\ drops \in Nat
      /\ missed' + repeated' = missed + repeated + drops
  <2>1. CASE ~monitor.initialized
    BY <1>1, <1>2, <2>1
  <2>2. CASE monitor.initialized
    <3>. HIDE DEF delta
    <3>. QED
      BY <1>1, <1>2, <1>3, <2>2 DEF Skips, DroppedBy
  <2>. QED
    BY <2>1, <2>2
<1>5. /\ status' \subseteq {"ADC_RUNNING", "BLOCK_GAP", "NUMERIC_FAULT"}
      /\ monitor'.initialized = TRUE
      /\ monitor'.last_generation = generation' % WORD
      /\ monitor'.last_timestamp = time' % WORD
      /\ monitor'.dropped_blocks = Plus(monitor.dropped_blocks, drops)
      /\ monitor' \in [initialized : BOOLEAN, last_generation : Words,
                       last_timestamp : Words, dropped_blocks : Words,
                       timing_faults : Words]
  <2>1. /\ generation' % WORD \in Words /\ time' % WORD \in Words
        /\ Plus(monitor.dropped_blocks, drops) \in Words
    <3>. HIDE DEF drops
    <3>1. monitor.dropped_blocks + drops \in Int
      BY <1>4 DEF MonitorInv, TypeOK, Words
    <3>. QED
      BY <1>2, <3>1, Reduced DEF Plus
  <2>2. \A x \in {0, 1} : Plus(monitor.timing_faults, x) \in Words
    <3>1. \A x \in {0, 1} : monitor.timing_faults + x \in Int
      BY DEF MonitorInv, TypeOK, Words
    <3>. QED
      BY <3>1, Reduced DEF Plus
  <2>3. PICK x \in {0, 1} :
          monitor' = [initialized |-> TRUE,
                      last_generation |-> generation' % WORD,
                      last_timestamp |-> time' % WORD,
                      dropped_blocks |-> Plus(monitor.dropped_blocks, drops),
                      timing_faults |-> Plus(monitor.timing_faults, x)]
    BY <1>1 DEF Accept
  <2>4. status' \subseteq {"ADC_RUNNING", "BLOCK_GAP", "NUMERIC_FAULT"}
    BY <1>1 DEF Accept
  <2>. HIDE DEF drops
  <2>. QED
    BY <2>1, <2>2, <2>3, <2>4
<1>6. DroppedExact'
  <2>1. (missed + repeated + drops) % WORD = Plus((missed + repeated) % WORD, drops)
    <3>. HIDE DEF drops
    <3>. QED
      BY <1>2, <1>4, Counting
  <2>2. monitor.dropped_blocks = (missed + repeated) % WORD
    BY DEF MonitorInv, DroppedExact
  <2>. HIDE DEF drops
  <2>. QED
    BY <1>4, <1>5, <2>1, <2>2 DEF DroppedExact
<1>7. checks' \in 0 .. MaxChecks
  BY <1>1, MonitorAssumption DEF MonitorInv, TypeOK
<1>. QED
  BY <1>2, <1>5, <1>6, <1>7 DEF MonitorInv, TypeOK

\* Every step preserves the invariant.
LEMMA MonitorInvStep == MonitorInv /\ [Next]_vars => MonitorInv'
<1>. SUFFICES ASSUME MonitorInv, [Next]_vars
             PROVE  MonitorInv'
  OBVIOUS
<1>1. CASE \E ahead, elapsed \in Words : Check(ahead, elapsed)
  BY <1>1, CheckStep
<1>2. CASE CheckUnusable
  BY <1>2, MonitorAssumption
     DEF CheckUnusable, acquisition_health_check, Refuse, MonitorInv, TypeOK,
         DroppedExact
<1>3. CASE Finished \/ UNCHANGED vars
  BY <1>3 DEF Finished, vars, MonitorInv, TypeOK, DroppedExact
<1>. QED
  BY <1>1, <1>2, <1>3 DEF Next

\* The invariant holds throughout.
LEMMA MonitorInductive == Spec => []MonitorInv
<1>1. Init => MonitorInv
  <2>1. 0 % WORD = 0 /\ 0 \in Words
    BY Reduced, WordSize
  <2>. QED
    BY <2>1, MonitorAssumption DEF Init, MonitorInv, TypeOK, DroppedExact
<1>. QED
  BY <1>1, MonitorInvStep, PTL DEF Spec

\* The monitor's integers keep their width.
THEOREM MonitorTypeCorrect == Spec => []TypeOK
<1>1. MonitorInv => TypeOK
  BY DEF MonitorInv
<1>. QED
  BY <1>1, MonitorInductive, PTL

\* However the generations wrap, dropped_blocks counts exactly.
THEOREM DroppedCountedExactly == Spec => []DroppedExact
<1>1. MonitorInv => DroppedExact
  BY DEF MonitorInv
<1>. QED
  BY <1>1, MonitorInductive, PTL

-----------------------------------------------------------------------------
\* The comparison with the tolerance, which may wrap, is right.
LEMMA OffTimeExact ==
  ASSUME NEW elapsed \in Words
  PROVE  OffTime(elapsed) <=> ~(elapsed \in EXPECTED_PERIOD - Tolerance
                                              .. EXPECTED_PERIOD + Tolerance)
<1>. DEFINE t == Tolerance
<1>1. /\ t \in Nat /\ EXPECTED_PERIOD \in Nat /\ WORD \in Nat
      /\ EXPECTED_PERIOD + 2 * t < WORD /\ elapsed \in Nat /\ elapsed < WORD
  BY MonitorAssumption DEF Tolerance, Words
<1>2. CASE elapsed + t < WORD
  <2>1. Plus(elapsed, t) = elapsed + t
    <3>. HIDE DEF t
    <3>1. elapsed + t \in Words
      BY <1>1, <1>2 DEF Words
    <3>. QED
      BY <3>1, Reduced DEF Plus
  <2>. HIDE DEF t
  <2>2. (Plus(elapsed, t) < EXPECTED_PERIOD \/ elapsed > EXPECTED_PERIOD + t)
          <=> ~(elapsed \in EXPECTED_PERIOD - t .. EXPECTED_PERIOD + t)
    BY <1>1, <2>1
  <2>. QED
    BY <2>2 DEF t, OffTime
<1>3. CASE elapsed + t >= WORD
  <2>. HIDE DEF t
  <2>1. elapsed > EXPECTED_PERIOD + t
    BY <1>1, <1>3
  <2>2. ~(elapsed \in EXPECTED_PERIOD - t .. EXPECTED_PERIOD + t)
    BY <1>1, <2>1
  <2>. QED
    BY <2>1, <2>2 DEF t, OffTime
<1>. QED
  BY <1>1, <1>2, <1>3

\* A block is reported as a gap exactly when it is not the successor in time.
THEOREM GapsExact == Spec => GapExact
<1>. DEFINE Exact == checks' # checks /\ status' # {"NUMERIC_FAULT"} =>
                       ("BLOCK_GAP" \in status' <=>
                          monitor.initialized /\ ~(generation' = generation + 1
                                                   /\ OnTime))
<1>1. ASSUME MonitorInv, [Next]_vars
      PROVE  [Exact]_vars
  <2>1. ASSUME NEW ahead \in Words, NEW elapsed \in Words,
               Check(ahead, elapsed)
        PROVE  Exact
    <3>. DEFINE block == [usable |-> TRUE, generation |-> generation' % WORD,
                          timestamp |-> time' % WORD]
    <3>1. /\ generation' = generation + ahead /\ time' = time + elapsed
          /\ Accept(block)
      BY <2>1 DEF Check, acquisition_health_check
    <3>2. /\ generation \in Nat /\ time \in Nat /\ ahead \in Nat /\ elapsed \in Nat
      BY <1>1 DEF MonitorInv, TypeOK, Words
    <3>3. CASE ~monitor.initialized
      BY <3>1, <3>3 DEF Accept
    <3>4. CASE monitor.initialized
      <4>1. /\ Minus(block.generation, monitor.last_generation) = ahead
            /\ Minus(block.timestamp, monitor.last_timestamp) = elapsed
        BY <1>1, <3>1, <3>4, Differences
      <4>2. "BLOCK_GAP" \in status' <=> Skips(ahead) \/ OffTime(elapsed)
        BY <3>1, <3>4, <4>1 DEF Accept
      <4>3. Skips(ahead) <=> generation' # generation + 1
        BY <3>1, <3>2 DEF Skips
      <4>4. OffTime(elapsed) <=> ~OnTime
        <5>1. time' - time = elapsed
          BY <3>1, <3>2
        <5>. QED
          BY <5>1, OffTimeExact DEF OnTime
      <4>. QED
        BY <3>4, <4>2, <4>3, <4>4
    <3>. QED
      BY <3>3, <3>4
  <2>2. CASE CheckUnusable
    BY <2>2 DEF CheckUnusable, acquisition_health_check, Refuse
  <2>3. CASE Finished \/ UNCHANGED vars
    BY <2>3 DEF Finished
  <2>. HIDE DEF Exact
  <2>. QED
    BY <1>1, <2>1, <2>2, <2>3 DEF Next
<1>. QED
  BY <1>1, MonitorInductive, PTL DEF Spec, GapExact

=============================================================================
