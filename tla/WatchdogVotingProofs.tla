------------------------ MODULE WatchdogVotingProofs ------------------------
(***************************************************************************)
(* Proofs about WatchdogVoting, for every window, every set of timeouts    *)
(* long enough for it, every number of tolerated failures and any sequence *)
(* of faults and resets: the cause of a reset is reported right, a fault   *)
(* is followed by a reset in time, and nothing else is.                    *)
(***************************************************************************)
EXTENDS WatchdogVoting, TLAPS

-----------------------------------------------------------------------------
(* Types.                                                                  *)

\* The countdown to the sample.
LEMMA NextSampleRange ==
  ASSUME toSample \in 1 .. WINDOW
  PROVE  NextSample \in 1 .. WINDOW
BY WatchdogAssumption DEF NextSample

\* What a slot does, one value of its choices at a time.
SlotOf(early, fails, slips) ==
    LET sent == result /\ uart /\ ~fails
        votes == Votes(sent, slips)
        samples == toSample = 1
        observed == IF early THEN health_mask ELSE health_mask \cup votes
    IN  /\ fails => uart /\ result /\ failures < MAX_FAILURES
        /\ slips => sent
        /\ failures' = IF fails THEN failures + 1
                       ELSE IF sent THEN 0 ELSE failures
        /\ late' = slips
        /\ age' = IF ~(samples /\ Refreshes(observed)) THEN age + 1
                  ELSE IF early THEN 1 ELSE 0
        /\ health_mask' = IF ~samples THEN health_mask \cup votes
                          ELSE IF early THEN votes ELSE {}

\* A slot is one of them.
LEMMA SlotChoice ==
  ASSUME Slot
  PROVE  /\ \E early, fails, slips \in BOOLEAN : SlotOf(early, fails, slips)
         /\ board = "run" /\ age < timeout
         /\ result' = (stream /\ dsp)
         /\ toSample' = NextSample
         /\ faultAge' = Aged
         /\ UNCHANGED <<board, timeout, stream, dsp, uart, rcc_flag, detected,
                        reported, cause>>
BY DEF Slot, SlotOf, environment, flags

\* Votes are among those required.
LEMMA VotesRequired ==
  ASSUME NEW sent, NEW slips
  PROVE  Votes(sent, slips) \subseteq HEALTH_REQUIRED
BY DEF Votes, HEALTH_REQUIRED

\* A slot preserves the types.
LEMMA SlotTypes ==
  ASSUME TypeOK, Slot
  PROVE  TypeOK'
<1>1. PICK early, fails, slips \in BOOLEAN : SlotOf(early, fails, slips)
  BY SlotChoice
<1>2. /\ toSample' \in 1 .. WINDOW /\ faultAge' \in Int
      /\ result' \in BOOLEAN
      /\ board' = "run" /\ age < timeout
      /\ UNCHANGED <<timeout, stream, dsp, uart, rcc_flag, detected, reported,
                     cause>>
  BY SlotChoice, NextSampleRange DEF TypeOK, Aged
<1>3. late' \in BOOLEAN /\ failures' \in 0 .. MAX_FAILURES
  BY <1>1, WatchdogAssumption DEF SlotOf, TypeOK
<1>4. health_mask' \subseteq HEALTH_REQUIRED
  BY <1>1, VotesRequired DEF SlotOf, TypeOK
<1>5. timeout \in Nat \ {0}
  BY WatchdogAssumption DEF TypeOK
<1>6. age' \in 0 .. timeout
  BY <1>1, <1>2, <1>5 DEF SlotOf, TypeOK
<1>. QED
  BY <1>2, <1>3, <1>4, <1>6 DEF TypeOK

\* So does every other step.
LEMMA TypeStep == TypeOK /\ [Next]_vars => TypeOK'
<1>. SUFFICES ASSUME TypeOK, [Next]_vars
             PROVE  TypeOK'
  OBVIOUS
<1>. USE WatchdogAssumption DEF TypeOK, tasks, environment, flags
<1>1. CASE PlatformInit
  BY <1>1 DEF PlatformInit
<1>2. CASE AppStart
  BY <1>2 DEF AppStart, platform_watchdog_start
<1>3. CASE BootFails
  BY <1>3 DEF BootFails
<1>4. CASE Slot
  BY <1>4, SlotTypes
<1>5. CASE SlotHalted
  BY <1>5 DEF SlotHalted, Aged
<1>6. CASE PartFails
  <2>1. /\ UNCHANGED <<board, timeout, age, toSample, health_mask, result, late,
                       failures, rcc_flag, detected, reported, cause>>
        /\ faultAge' \in Int
    BY <1>6 DEF PartFails, Failing
  <2>2. stream' \in BOOLEAN /\ dsp' \in BOOLEAN /\ uart' \in BOOLEAN
    BY <1>6, Zenon DEF PartFails
  <2>. QED
    BY <2>1, <2>2
<1>7. CASE Halt
  BY <1>7 DEF Halt, Failing
<1>8. CASE Bite \/ PinReset
  <2>1. /\ board' = "reset" /\ age' = 0 /\ toSample' = WINDOW
        /\ health_mask' = {} /\ failures' = 0 /\ timeout' = timeout
        /\ faultAge' \in {-1, 0} /\ cause' \in {"iwdg", "pin"}
    BY <1>8 DEF Bite, PinReset, Reset
  <2>2. /\ stream' \in BOOLEAN /\ dsp' \in BOOLEAN /\ uart' \in BOOLEAN
        /\ result' \in BOOLEAN /\ late' \in BOOLEAN
        /\ detected' \in BOOLEAN /\ reported' \in BOOLEAN
    BY <1>8, Zenon DEF Bite, PinReset, Reset
  <2>3. rcc_flag' \in BOOLEAN
    BY <1>8, Zenon DEF Bite, PinReset
  <2>. QED
    BY <2>1, <2>2, <2>3
<1>9. CASE UNCHANGED vars
  BY <1>9 DEF vars
<1>. QED
  BY <1>1, <1>2, <1>3, <1>4, <1>5, <1>6, <1>7, <1>8, <1>9 DEF Next

\* The variables keep their types: the IWDG never counts past its timeout, and
\* failures stay within what a good UART may do.
THEOREM WatchdogTypeCorrect == Spec => []TypeOK
<1>1. Init => TypeOK
  <2>. SUFFICES ASSUME Init
               PROVE  TypeOK
    OBVIOUS
  <2>1. /\ board = "reset" /\ timeout \in TIMEOUTS /\ age \in 0 .. timeout
        /\ toSample \in 1 .. WINDOW /\ health_mask = {}
        /\ failures \in 0 .. MAX_FAILURES
        /\ cause = "power" /\ faultAge \in Int
    BY WatchdogAssumption DEF Init
  <2>2. /\ result \in BOOLEAN /\ late \in BOOLEAN
        /\ stream \in BOOLEAN /\ dsp \in BOOLEAN /\ uart \in BOOLEAN
        /\ rcc_flag \in BOOLEAN /\ detected \in BOOLEAN /\ reported \in BOOLEAN
    BY Zenon DEF Init
  <2>. QED
    BY <2>1, <2>2 DEF TypeOK
<1>. QED
  BY <1>1, TypeStep, PTL DEF Spec

-----------------------------------------------------------------------------
(* The reported cause.                                                     *)

\* How the cause gets from the flag to the status bit.
CauseInv ==
    /\ board = "reset" => (rcc_flag <=> cause = "iwdg")
    /\ board # "reset" => ~rcc_flag
    /\ board = "boot" => (detected <=> cause = "iwdg")
    /\ board \in {"reset", "boot"} => ~reported
    /\ CauseReported

\* STATUS_WATCHDOG_RESET names the last reset, over any sequence of resets.
THEOREM CauseIsReported == Spec => []CauseReported
<1>1. Init => CauseInv
  BY DEF Init, CauseInv, CauseReported
<1>2. CauseInv /\ [Next]_vars => CauseInv'
  <2>. SUFFICES ASSUME CauseInv, [Next]_vars
               PROVE  CauseInv'
    OBVIOUS
  <2>. USE DEF CauseInv, CauseReported, flags
  <2>1. CASE PlatformInit
    <3>1. /\ board = "reset" /\ board' = "boot"
          /\ detected' = rcc_flag /\ rcc_flag' = FALSE
          /\ UNCHANGED <<reported, cause>>
      BY <2>1 DEF PlatformInit
    <3>. QED
      BY <3>1, Zenon
  <2>2. CASE AppStart
    <3>1. /\ board = "boot" /\ board' = "run"
          /\ reported' = (reported \/ detected)
          /\ UNCHANGED <<rcc_flag, cause>>
      BY <2>2 DEF AppStart
    <3>2. ~rcc_flag /\ ~reported /\ (detected <=> cause = "iwdg")
      BY <3>1
    <3>3. reported' <=> cause' = "iwdg"
      BY <3>1, <3>2
    <3>. QED
      BY <3>1, <3>2, <3>3
  <2>3. CASE BootFails \/ Slot \/ SlotHalted \/ PartFails \/ Halt
    BY <2>3 DEF BootFails, Slot, SlotHalted, PartFails, Halt
  <2>4. CASE Bite
    BY <2>4 DEF Bite, Reset
  <2>5. CASE PinReset
    <3>1. /\ board' = "reset" /\ cause' = "pin" /\ reported' = FALSE
          /\ ~rcc_flag /\ rcc_flag' = rcc_flag
      BY <2>5 DEF PinReset, Reset
    <3>. QED
      BY <3>1
  <2>6. CASE UNCHANGED vars
    BY <2>6 DEF vars
  <2>. QED
    BY <2>1, <2>2, <2>3, <2>4, <2>5, <2>6 DEF Next
<1>3. CauseInv => CauseReported
  BY DEF CauseInv
<1>. QED
  BY <1>1, <1>2, <1>3, PTL DEF Spec

-----------------------------------------------------------------------------
(* After a fault.                                                          *)

\* A required vote is missing in this window and cannot be given any more.
Dead == \/ ~stream /\ "ACQUISITION" \notin health_mask
        \/ ~dsp /\ "DSP" \notin health_mask
        \/ ~uart /\ ~late /\ "TELEMETRY" \notin health_mask

\* A board that starts has no votes, no result and its whole window ahead.
FreshInv ==
    board \in {"reset", "boot"} =>
      /\ toSample = WINDOW /\ health_mask = {}
      /\ ~late /\ ~result /\ failures = 0

\* As long as the votes given may still be complete, the fault is no older than
\* the window; after that the IWDG is not refreshed.
FaultInv ==
    /\ faultAge >= -1
    /\ board \in {"reset", "boot", "hung"} => faultAge <= 0
    /\ board # "halted" => (Healthy <=> faultAge = -1)
    /\ board = "run" /\ ~Healthy =>
         /\ ~Dead => faultAge + toSample <= WINDOW + 1
         /\ Dead => faultAge <= age + WINDOW + 1
         /\ ~uart /\ late /\ stream /\ dsp => faultAge = 0
    /\ board = "halted" => faultAge >= 0 /\ faultAge <= age + WINDOW + 1

\* Which votes a slot gives.
LEMMA VotesGiven ==
  ASSUME NEW sent \in BOOLEAN, NEW slips \in BOOLEAN
  PROVE  /\ "ACQUISITION" \in Votes(sent, slips) <=> stream
         /\ "DSP" \in Votes(sent, slips) <=> stream /\ dsp
         /\ "TELEMETRY" \in Votes(sent, slips) <=> late \/ (sent /\ ~slips)
BY DEF Votes, TelVotes

\* A slot with something broken.
LEMMA SlotFaultInv ==
  ASSUME TypeOK, FaultInv, Slot
  PROVE  FaultInv'
<1>1. PICK early, fails, slips \in BOOLEAN : SlotOf(early, fails, slips)
  BY SlotChoice
<1>2. /\ board = "run" /\ board' = "run"
      /\ toSample' = NextSample /\ faultAge' = Aged
      /\ UNCHANGED <<stream, dsp, uart>>
  BY SlotChoice
<1>3. toSample \in 1 .. WINDOW /\ faultAge \in Int /\ age \in Nat /\ WINDOW \in Nat
  BY WatchdogAssumption DEF TypeOK
<1>4. Healthy' <=> Healthy
  BY <1>2 DEF Healthy
<1>5. CASE Healthy
  BY <1>2, <1>3, <1>4, <1>5 DEF FaultInv, Aged
<1>6. CASE ~Healthy
  <2>. DEFINE sent == result /\ uart /\ ~fails
              votes == Votes(sent, slips)
  <2>1. /\ health_mask' = IF toSample # 1 THEN health_mask \cup votes
                          ELSE IF early THEN votes ELSE {}
        /\ late' = slips /\ (slips => uart)
        /\ age' \in Nat
        /\ ~("ACQUISITION" \in health_mask \cup votes /\
             "DSP" \in health_mask \cup votes /\
             "TELEMETRY" \in health_mask \cup votes) => age' = age + 1
    BY <1>1, <1>3 DEF SlotOf, Refreshes, HEALTH_REQUIRED
  <2>2. /\ "ACQUISITION" \in votes <=> stream
        /\ "DSP" \in votes <=> stream /\ dsp
        /\ "TELEMETRY" \in votes => late \/ uart
    <3>1. sent \in BOOLEAN
      OBVIOUS
    <3>. QED
      BY <3>1, VotesGiven
  <2>. HIDE DEF sent, votes
  <2>3. faultAge >= 0 /\ faultAge' = faultAge + 1
    BY <1>2, <1>3, <1>6 DEF FaultInv, Aged
  <2>4. ~uart' => ~late'
    BY <1>2, <2>1
  <2>5. CASE Dead
    <3>1. Dead'
      BY <1>2, <2>1, <2>2, <2>5 DEF Dead
    <3>2. age' = age + 1
      BY <2>1, <2>2, <2>5 DEF Dead
    <3>. QED
      BY <1>2, <1>3, <1>4, <1>6, <2>3, <2>4, <2>5, <3>1, <3>2 DEF FaultInv
  <2>6. CASE ~Dead
    <3>1. faultAge + toSample <= WINDOW + 1
      BY <1>2, <1>6, <2>6 DEF FaultInv
    <3>2. faultAge' <= age' + WINDOW + 1
      <4>1. PICK a \in Nat : age' = a
        BY <2>1
      <4>. QED
        BY <1>3, <2>3, <3>1, <4>1
    <3>3. ~Dead' => faultAge' + toSample' <= WINDOW + 1
      <4>1. CASE toSample # 1
        BY <1>2, <1>3, <2>3, <3>1, <4>1 DEF NextSample
      <4>2. CASE toSample = 1 /\ ~Dead'
        <5>1. stream /\ dsp
          BY <1>2, <2>1, <2>2, <4>2 DEF Dead
        <5>2. ~uart
          BY <1>6, <5>1 DEF Healthy
        <5>3. late
          BY <1>2, <2>1, <2>2, <2>4, <4>2, <5>2 DEF Dead
        <5>4. faultAge = 0
          BY <1>2, <1>6, <5>1, <5>2, <5>3 DEF FaultInv
        <5>. QED
          BY <1>2, <1>3, <2>3, <4>2, <5>4 DEF NextSample
      <4>. QED
        BY <4>1, <4>2
    <3>. QED
      BY <1>2, <1>3, <1>4, <1>6, <2>3, <2>4, <3>2, <3>3 DEF FaultInv
  <2>. QED
    BY <2>5, <2>6
<1>. QED
  BY <1>5, <1>6

\* The failure of a part.
LEMMA PartFailsFaultInv ==
  ASSUME TypeOK, FaultInv, PartFails
  PROVE  FaultInv'
<1>1. /\ board = "run" /\ board' = "run"
      /\ faultAge' = IF faultAge < 0 THEN 0 ELSE faultAge
      /\ UNCHANGED <<age, toSample, health_mask, late>>
  BY DEF PartFails, Failing, tasks
<1>2. /\ ~Healthy'
      /\ ~stream => ~stream'
      /\ ~dsp => ~dsp'
      /\ ~uart => ~uart'
  BY DEF PartFails, Healthy
<1>3. toSample \in 1 .. WINDOW /\ faultAge \in Int /\ age \in Nat /\ WINDOW \in Nat
  BY WatchdogAssumption DEF TypeOK
<1>4. faultAge' \in Nat
  BY <1>1, <1>3 DEF FaultInv
<1>5. CASE Healthy
  BY <1>1, <1>2, <1>3, <1>4, <1>5 DEF FaultInv
<1>6. CASE ~Healthy
  <2>1. faultAge >= 0 /\ faultAge' = faultAge
    BY <1>1, <1>3, <1>6 DEF FaultInv
  <2>2. Dead => Dead'
    BY <1>1, <1>2 DEF Dead
  <2>3. Dead' => faultAge <= age + WINDOW + 1
    BY <1>1, <1>3, <1>6 DEF FaultInv
  <2>4. ~Dead' => faultAge + toSample <= WINDOW + 1
    BY <1>1, <1>6, <2>2 DEF FaultInv
  <2>5. ~uart' /\ late' /\ stream' /\ dsp' => faultAge = 0
    BY <1>1, <1>2, <1>6 DEF FaultInv, Healthy, PartFails
  <2>. QED
    BY <1>1, <1>2, <2>1, <2>3, <2>4, <2>5 DEF FaultInv
<1>. QED
  BY <1>5, <1>6

\* Every step preserves FreshInv and FaultInv.
LEMMA FaultInvStep ==
  ASSUME TypeOK, FreshInv, FaultInv, [Next]_vars
  PROVE  FreshInv' /\ FaultInv'
<1>. USE WatchdogAssumption DEF TypeOK, FreshInv
<1>1. CASE PlatformInit \/ BootFails \/ UNCHANGED vars
  <2>1. /\ UNCHANGED <<age, toSample, health_mask, result, late, failures, stream,
                       dsp, uart, faultAge>>
        /\ \/ board = "reset" /\ board' = "boot"
           \/ board = "boot" /\ board' = "hung"
           \/ UNCHANGED board
    BY <1>1 DEF PlatformInit, BootFails, vars, tasks, environment
  <2>. QED
    BY <2>1 DEF FaultInv, Healthy, Dead
<1>2. CASE AppStart
  <2>1. /\ board = "boot" /\ board' = "run" /\ age' = 0
        /\ UNCHANGED <<toSample, health_mask, result, late, failures, stream, dsp,
                       uart, faultAge>>
    BY <1>2 DEF AppStart, platform_watchdog_start, tasks, environment
  <2>2. (Healthy' <=> Healthy) /\ ~late /\ toSample = WINDOW /\ faultAge <= 0
    BY <2>1 DEF Healthy, FaultInv
  <2>. QED
    BY <2>1, <2>2 DEF FaultInv
<1>3. CASE Slot
  <2>1. board' = "run"
    BY <1>3, SlotChoice
  <2>. QED
    BY <1>3, <2>1, SlotFaultInv
<1>4. CASE SlotHalted
  BY <1>4 DEF SlotHalted, Aged, FaultInv
<1>5. CASE PartFails
  <2>1. board' = "run"
    BY <1>5 DEF PartFails
  <2>. QED
    BY <1>5, <2>1, PartFailsFaultInv
<1>6. CASE Halt
  <2>1. /\ board = "run" /\ board' = "halted" /\ age' = age
        /\ faultAge' = IF faultAge < 0 THEN 0 ELSE faultAge
    BY <1>6 DEF Halt, Failing
  <2>2. age \in Nat
    OBVIOUS
  <2>. QED
    BY <2>1, <2>2 DEF FaultInv
<1>7. CASE Bite \/ PinReset
  <2>1. /\ board' = "reset" /\ toSample' = WINDOW /\ health_mask' = {}
        /\ ~late' /\ ~result' /\ failures' = 0
        /\ faultAge' = IF Healthy' THEN -1 ELSE 0
    BY <1>7 DEF Bite, PinReset, Reset
  <2>. QED
    BY <2>1 DEF FaultInv
<1>. QED
  BY <1>1, <1>2, <1>3, <1>4, <1>5, <1>6, <1>7 DEF Next

\* They hold throughout.
LEMMA FaultInductive == Spec => [](FreshInv /\ FaultInv)
<1>1. Init => FreshInv /\ FaultInv
  BY WatchdogAssumption DEF Init, FreshInv, FaultInv, Healthy
<1>2. TypeOK /\ FreshInv /\ FaultInv /\ [Next]_vars => (FreshInv /\ FaultInv)'
  BY FaultInvStep
<1>. QED
  BY <1>1, <1>2, WatchdogTypeCorrect, PTL DEF Spec

\* A fault for good is followed by a reset within the timeout, a window and a
\* slot, whatever else fails, and whatever has been buffered.
THEOREM ResetsInTime == Spec => []ResetInTime
<1>1. TypeOK /\ FreshInv /\ FaultInv => ResetInTime
  <2>. SUFFICES ASSUME TypeOK, FreshInv, FaultInv
               PROVE  faultAge <= timeout + WINDOW + 1
    BY DEF ResetInTime
  <2>1. /\ timeout \in Nat /\ age \in Nat /\ age <= timeout
        /\ toSample \in 1 .. WINDOW /\ WINDOW \in Nat /\ faultAge \in Int
        /\ board \in {"reset", "boot", "run", "halted", "hung"}
    BY WatchdogAssumption DEF TypeOK
  <2>. QED
    BY <2>1 DEF FaultInv
<1>. QED
  BY <1>1, WatchdogTypeCorrect, FaultInductive, PTL

-----------------------------------------------------------------------------
(* Without a fault.                                                        *)

\* The IWDG is refreshed at a sample, or one slot before when the task sampled
\* early: at the next sample its age is a number of windows, and at most one slot.
Cadence == \E k \in Nat, e \in {0, 1} : age + toSample = k * WINDOW + e

\* Without a result to send, the board has not run yet.
Started == ~result => /\ age = 0 /\ failures = 0 /\ ~late /\ toSample = WINDOW
                      /\ health_mask = {}

\* Acquisition and DSP vote in every slot, and the vote of the telemetry task is
\* as old as the transmissions in a row that failed.
Patience ==
    /\ toSample < WINDOW => {"ACQUISITION", "DSP"} \subseteq health_mask
    /\ "TELEMETRY" \in health_mask => age + toSample <= MAX_FAILURES + WINDOW + 3
    /\ "TELEMETRY" \notin health_mask /\ late => age <= MAX_FAILURES + 2
    /\ "TELEMETRY" \notin health_mask /\ ~late => age <= failures + 1

RefreshInv == board = "run" /\ Healthy => Cadence /\ Started /\ Patience

\* What a slot of a healthy board does.
LEMMA HealthySlot ==
  ASSUME TypeOK, RefreshInv, Slot, Healthy,
         NEW early \in BOOLEAN, NEW fails \in BOOLEAN, NEW slips \in BOOLEAN,
         SlotOf(early, fails, slips)
  PROVE  \E votes \in SUBSET HEALTH_REQUIRED :
           /\ {"ACQUISITION", "DSP"} \subseteq votes
           /\ "TELEMETRY" \in votes <=> late \/ (result /\ ~fails /\ ~slips)
           /\ fails => result /\ failures < MAX_FAILURES
           /\ slips => result /\ ~fails
           /\ late' = slips /\ result' = TRUE
           /\ failures' = IF fails THEN failures + 1
                          ELSE IF result THEN 0 ELSE failures
           /\ toSample # 1 => /\ age' = age + 1
                              /\ toSample' = toSample - 1
                              /\ health_mask' = health_mask \cup votes
           /\ toSample = 1 =>
                /\ toSample' = WINDOW
                /\ result
                /\ IF "TELEMETRY" \in health_mask
                        \/ (~early /\ "TELEMETRY" \in votes)
                   THEN age' = IF early THEN 1 ELSE 0
                   ELSE age' = age + 1
                /\ health_mask' = IF early THEN votes ELSE {}
<1>. DEFINE sent == result /\ uart /\ ~fails
            votes == Votes(sent, slips)
<1>1. sent \in BOOLEAN /\ (sent <=> result /\ ~fails) /\ stream /\ dsp /\ uart
  BY DEF Healthy
<1>2. /\ votes \in SUBSET HEALTH_REQUIRED
      /\ {"ACQUISITION", "DSP"} \subseteq votes
      /\ "TELEMETRY" \in votes <=> late \/ (result /\ ~fails /\ ~slips)
  BY <1>1, VotesGiven, VotesRequired
<1>3. /\ fails => result /\ failures < MAX_FAILURES
      /\ slips => result /\ ~fails
      /\ late' = slips
  BY <1>1 DEF SlotOf
<1>4. failures' = IF fails THEN failures + 1 ELSE IF result THEN 0 ELSE failures
  BY <1>1 DEF SlotOf
<1>5. result' = TRUE /\ toSample' = NextSample /\ board = "run"
  BY <1>1, SlotChoice
<1>6. /\ age' = IF ~(toSample = 1 /\ Refreshes(IF early THEN health_mask
                                              ELSE health_mask \cup votes))
                THEN age + 1
                ELSE IF early THEN 1 ELSE 0
      /\ health_mask' = IF toSample # 1 THEN health_mask \cup votes
                        ELSE IF early THEN votes ELSE {}
  BY DEF SlotOf
<1>. HIDE DEF votes, sent
<1>7. ASSUME toSample # 1
      PROVE  /\ age' = age + 1
             /\ toSample' = toSample - 1
             /\ health_mask' = health_mask \cup votes
  BY <1>5, <1>6, <1>7 DEF NextSample
<1>8. ASSUME toSample = 1
      PROVE  /\ toSample' = WINDOW
             /\ result
             /\ IF "TELEMETRY" \in health_mask
                     \/ (~early /\ "TELEMETRY" \in votes)
                THEN age' = IF early THEN 1 ELSE 0
                ELSE age' = age + 1
             /\ health_mask' = IF early THEN votes ELSE {}
  <2>1. toSample < WINDOW
    BY <1>8, WatchdogAssumption, TimeoutAssumption
  <2>2. result /\ {"ACQUISITION", "DSP"} \subseteq health_mask
    BY <1>5, <2>1 DEF RefreshInv, Started, Patience, TypeOK
  <2>3. health_mask \subseteq HEALTH_REQUIRED
    BY DEF TypeOK
  <2>4. Refreshes(IF early THEN health_mask ELSE health_mask \cup votes)
           <=> "TELEMETRY" \in health_mask \/ (~early /\ "TELEMETRY" \in votes)
    <3>1. Refreshes(health_mask) <=> "TELEMETRY" \in health_mask
      BY <2>2, <2>3 DEF Refreshes, HEALTH_REQUIRED
    <3>2. Refreshes(health_mask \cup votes)
             <=> "TELEMETRY" \in health_mask \/ "TELEMETRY" \in votes
      BY <1>2, <2>2, <2>3 DEF Refreshes, HEALTH_REQUIRED
    <3>. QED
      BY <3>1, <3>2
  <2>. QED
    BY <1>5, <1>6, <1>8, <2>2, <2>4 DEF NextSample
<1>. QED
  BY <1>2, <1>3, <1>4, <1>5, <1>7, <1>8

\* A slot of a healthy board keeps the cadence and the patience.
LEMMA HealthySlotInv ==
  ASSUME TypeOK, RefreshInv, Slot, Healthy
  PROVE  Cadence' /\ Started' /\ Patience'
<1>1. PICK early, fails, slips \in BOOLEAN : SlotOf(early, fails, slips)
  BY SlotChoice
<1>2. PICK votes \in SUBSET HEALTH_REQUIRED :
           /\ {"ACQUISITION", "DSP"} \subseteq votes
           /\ "TELEMETRY" \in votes <=> late \/ (result /\ ~fails /\ ~slips)
           /\ fails => result /\ failures < MAX_FAILURES
           /\ slips => result /\ ~fails
           /\ late' = slips /\ result' = TRUE
           /\ failures' = IF fails THEN failures + 1
                          ELSE IF result THEN 0 ELSE failures
           /\ toSample # 1 => /\ age' = age + 1
                              /\ toSample' = toSample - 1
                              /\ health_mask' = health_mask \cup votes
           /\ toSample = 1 =>
                /\ toSample' = WINDOW
                /\ result
                /\ IF "TELEMETRY" \in health_mask
                        \/ (~early /\ "TELEMETRY" \in votes)
                   THEN age' = IF early THEN 1 ELSE 0
                   ELSE age' = age + 1
                /\ health_mask' = IF early THEN votes ELSE {}
  BY <1>1, HealthySlot, ZenonT(60)
<1>3. Cadence /\ Started /\ Patience
  BY SlotChoice DEF RefreshInv
<1>4. /\ toSample \in 1 .. WINDOW /\ age \in Nat /\ failures \in 0 .. MAX_FAILURES
      /\ WINDOW \in Nat /\ MAX_FAILURES \in Nat
  BY WatchdogAssumption DEF TypeOK
<1>5. Started'
  BY <1>2 DEF Started
<1>6. PICK k \in Nat, e \in {0, 1} : age + toSample = k * WINDOW + e
  BY <1>3 DEF Cadence
<1>7. CASE toSample # 1
  <2>1. /\ age' = age + 1 /\ toSample' = toSample - 1
        /\ health_mask' = health_mask \cup votes
    BY <1>2, <1>7
  <2>2. Cadence'
    <3>1. age' + toSample' = age + toSample
      BY <1>4, <2>1
    <3>. QED
      BY <1>6, <3>1 DEF Cadence
  <2>3. {"ACQUISITION", "DSP"} \subseteq health_mask'
    BY <1>2, <2>1
  <2>4. "TELEMETRY" \in health_mask' => age' + toSample' <= MAX_FAILURES + WINDOW + 3
    BY <1>2, <1>3, <1>4, <2>1 DEF Patience
  <2>5. "TELEMETRY" \notin health_mask' =>
          IF slips THEN age' <= MAX_FAILURES + 2 ELSE age' <= failures' + 1
    BY <1>2, <1>3, <1>4, <2>1 DEF Patience, Started
  <2>. QED
    BY <1>2, <1>5, <2>2, <2>3, <2>4, <2>5 DEF Patience
<1>8. CASE toSample = 1
  <2>1. toSample' = WINDOW /\ result
    BY <1>2, <1>8
  <2>2. CASE "TELEMETRY" \in health_mask \/ (~early /\ "TELEMETRY" \in votes)
    <3>1. age' = (IF early THEN 1 ELSE 0)
      BY <1>2, <1>8, <2>2
    <3>2. Cadence'
      <4>1. age' + toSample' = 1 * WINDOW + (IF early THEN 1 ELSE 0)
        BY <1>4, <2>1, <3>1
      <4>. QED
        BY <4>1 DEF Cadence
    <3>3. /\ age' + toSample' <= MAX_FAILURES + WINDOW + 3
          /\ age' <= MAX_FAILURES + 2
          /\ age' <= failures' + 1
      BY <1>2, <1>4, <2>1, <3>1
    <3>. QED
      BY <1>4, <1>5, <2>1, <3>2, <3>3 DEF Patience
  <2>3. CASE ~("TELEMETRY" \in health_mask \/ (~early /\ "TELEMETRY" \in votes))
    <3>1. age' = age + 1 /\ health_mask' = IF early THEN votes ELSE {}
      BY <1>2, <1>8, <2>3
    <3>2. Cadence'
      <4>1. age' + toSample' = (k + 1) * WINDOW + e
        <5>1. (k + 1) * WINDOW = k * WINDOW + WINDOW
          BY <1>4
        <5>2. k * WINDOW \in Int
          BY <1>4
        <5>. QED
          BY <1>4, <1>6, <1>8, <2>1, <3>1, <5>1, <5>2
      <4>. QED
        BY <4>1 DEF Cadence
    <3>3. "TELEMETRY" \in health_mask' =>
            age' + toSample' <= MAX_FAILURES + WINDOW + 3
      BY <1>2, <1>3, <1>4, <2>1, <2>3, <3>1 DEF Patience
    <3>4. "TELEMETRY" \notin health_mask' =>
            IF slips THEN age' <= MAX_FAILURES + 2 ELSE age' <= failures' + 1
      BY <1>2, <1>3, <1>4, <2>1, <2>3, <3>1 DEF Patience
    <3>. QED
      BY <1>2, <1>4, <1>5, <2>1, <3>2, <3>3, <3>4 DEF Patience
  <2>. QED
    BY <2>2, <2>3
<1>. QED
  BY <1>7, <1>8

\* Every step preserves RefreshInv.
LEMMA RefreshInvStep ==
  ASSUME TypeOK, FreshInv, RefreshInv, [Next]_vars
  PROVE  RefreshInv'
<1>. SUFFICES ASSUME board' = "run", Healthy'
             PROVE  Cadence' /\ Started' /\ Patience'
  BY DEF RefreshInv
<1>1. CASE AppStart
  <2>1. /\ board = "boot" /\ age' = 0
        /\ UNCHANGED <<toSample, health_mask, result, late, failures>>
    BY <1>1 DEF AppStart, platform_watchdog_start, tasks
  <2>2. /\ toSample' = WINDOW /\ health_mask' = {} /\ ~late' /\ ~result'
        /\ failures' = 0
    BY <2>1 DEF FreshInv
  <2>3. age' + toSample' = 1 * WINDOW + 0
    BY <2>1, <2>2, WatchdogAssumption
  <2>. QED
    BY <2>1, <2>2, <2>3, WatchdogAssumption DEF Cadence, Started, Patience
<1>2. CASE Slot
  <2>1. Healthy
    BY <1>2, SlotChoice DEF Healthy
  <2>. QED
    BY <1>2, <2>1, HealthySlotInv
<1>3. CASE PartFails
  BY <1>3 DEF PartFails, Healthy
<1>4. CASE UNCHANGED vars
  BY <1>4 DEF vars, tasks, environment, RefreshInv, Healthy, Cadence, Started,
              Patience
<1>5. ASSUME PlatformInit \/ BootFails \/ SlotHalted \/ Halt \/ Bite \/ PinReset
      PROVE  FALSE
  BY <1>5 DEF PlatformInit, BootFails, SlotHalted, Halt, Bite, PinReset, Reset
<1>. QED
  BY <1>1, <1>2, <1>3, <1>4, <1>5 DEF Next

\* The age of the IWDG on a healthy board stays below its timeout.
LEMMA AgeBound ==
  ASSUME TypeOK, RefreshInv, board = "run", Healthy
  PROVE  age < timeout
<1>. DEFINE q == (MAX_FAILURES + 3) \div WINDOW
<1>1. /\ toSample \in 1 .. WINDOW /\ age \in Nat /\ failures \in 0 .. MAX_FAILURES
      /\ WINDOW \in Nat \ {0} /\ MAX_FAILURES \in Nat
      /\ timeout \in Nat /\ timeout > WINDOW * (q + 1)
  BY WatchdogAssumption, TimeoutAssumption DEF TypeOK
<1>2. q \in Nat /\ MAX_FAILURES + 3 < WINDOW * (q + 1)
  BY <1>1
<1>. HIDE DEF q
<1>3. CASE "TELEMETRY" \in health_mask
  <2>1. PICK k \in Nat, e \in {0, 1} : age + toSample = k * WINDOW + e
    BY DEF RefreshInv, Cadence
  <2>2. age + toSample <= MAX_FAILURES + WINDOW + 3
    BY <1>3 DEF RefreshInv, Patience
  <2>3. k * WINDOW < WINDOW * (q + 1) + WINDOW
    BY <1>1, <1>2, <2>1, <2>2
  <2>4. k <= q + 1
    <3>1. CASE k >= q + 2
      <4>1. k * WINDOW >= (q + 2) * WINDOW
        BY <1>1, <1>2, <3>1
      <4>2. (q + 2) * WINDOW = WINDOW * (q + 1) + WINDOW
        BY <1>1, <1>2
      <4>. QED
        BY <1>1, <1>2, <2>3, <4>1, <4>2
    <3>. QED
      BY <1>2, <3>1
  <2>5. k * WINDOW <= WINDOW * (q + 1)
    BY <1>1, <1>2, <2>4
  <2>. QED
    BY <1>1, <1>2, <2>1, <2>5
<1>4. CASE "TELEMETRY" \notin health_mask
  BY <1>1, <1>2, <1>4 DEF RefreshInv, Patience
<1>. QED
  BY <1>3, <1>4

\* A reset by the IWDG has a fault behind it, although windows lack a vote while
\* a good UART fails now and then.
THEOREM NoResetWithoutFault == Spec => NoFalseReset
<1>1. Init => RefreshInv
  BY DEF Init, RefreshInv
<1>2. TypeOK /\ FreshInv /\ RefreshInv /\ [Next]_vars => RefreshInv'
  BY RefreshInvStep
<1>3. TypeOK /\ FaultInv /\ RefreshInv /\ [Next]_vars => [Bite => faultAge >= 0]_vars
  <2>. SUFFICES ASSUME TypeOK, FaultInv, RefreshInv, Bite
               PROVE  faultAge >= 0
    OBVIOUS
  <2>1. board \in {"run", "halted"} /\ age = timeout
    BY DEF Bite
  <2>2. CASE board = "halted"
    BY <2>2 DEF FaultInv
  <2>3. CASE board = "run"
    <3>1. ~Healthy
      <4>1. timeout \in Nat
        BY WatchdogAssumption DEF TypeOK
      <4>. QED
        BY <2>1, <2>3, <4>1, AgeBound
    <3>2. faultAge # -1 /\ faultAge >= -1 /\ faultAge \in Int
      BY <2>3, <3>1 DEF FaultInv, TypeOK
    <3>. QED
      BY <3>2
  <2>. QED
    BY <2>1, <2>2, <2>3
<1>. QED
  BY <1>1, <1>2, <1>3, WatchdogTypeCorrect, FaultInductive, PTL
     DEF Spec, NoFalseReset

=============================================================================
