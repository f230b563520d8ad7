--------------------------- MODULE WatchdogVoting ---------------------------
(***************************************************************************)
(* The watchdog over the life of the board, in time: boot, the votes of    *)
(* the three tasks, the sample every WINDOW, the refresh of the IWDG, its  *)
(* expiry and the reset cause reported after it (app/main.c, app_start,    *)
(* watchdog_task and the votes in app/tasks.c, platform_init and           *)
(* platform_watchdog_start in platform/stm32f446/board_skeleton.c).        *)
(*                                                                         *)
(* The unit of time is one period of telemetry_task, 50 ms, a slot.  In a  *)
(* slot about five blocks arrive, so that acquisition and DSP vote in      *)
(* every slot they are healthy in; SamplePipeline has their details.       *)
(***************************************************************************)
EXTENDS Integers

CONSTANTS
    WINDOW,         \* WATCHDOG_WINDOW_MS, in slots
    TIMEOUTS,       \* what the IWDG's timeout may be, given its oscillator
    MAX_FAILURES    \* transmissions in a row that a good UART may fail

ASSUME WatchdogAssumption ==
    /\ WINDOW \in Nat \ {0}
    /\ TIMEOUTS \subseteq Nat \ {0}
    /\ MAX_FAILURES \in Nat

\* The IWDG outlasts every window that may lack a vote while the UART fails.
ASSUME TimeoutAssumption ==
    /\ WINDOW > 1
    /\ \A t \in TIMEOUTS :
         t > WINDOW * (((MAX_FAILURES + 3) \div WINDOW) + 1)

HEALTH_REQUIRED == {"ACQUISITION", "DSP", "TELEMETRY"}

VARIABLES
    board,        \* "reset", "boot", "run", "halted" with the IWDG on, "hung"
                  \* without
    timeout, age, \* of the IWDG; slots since its last refresh
    toSample,     \* slots until the watchdog task wakes
    health_mask,
    result,       \* result_queue is full
    late,         \* the last transmission ends, and is voted for, in this slot
    failures,     \* transmissions failed in a row
    stream, dsp, uart,  \* the parts that may fail for good
    rcc_flag,     \* RCC_FLAG_IWDGRST
    detected,     \* watchdog_reset_detected
    reported,     \* STATUS_WATCHDOG_RESET is in sticky_status
    cause,        \* history: of the last reset
    faultAge      \* history: slots since something failed for good, or -1

environment == <<stream, dsp, uart>>
tasks == <<toSample, health_mask, result, late, failures>>
flags == <<rcc_flag, detected, reported>>
vars == <<board, timeout, age, tasks, environment, flags, cause, faultAge>>

TypeOK ==
    /\ board \in {"reset", "boot", "run", "halted", "hung"}
    /\ timeout \in TIMEOUTS /\ age \in 0 .. timeout
    /\ toSample \in 1 .. WINDOW
    /\ health_mask \subseteq HEALTH_REQUIRED
    /\ failures \in 0 .. MAX_FAILURES
    /\ result \in BOOLEAN /\ late \in BOOLEAN
    /\ stream \in BOOLEAN /\ dsp \in BOOLEAN /\ uart \in BOOLEAN
    /\ rcc_flag \in BOOLEAN /\ detected \in BOOLEAN /\ reported \in BOOLEAN
    /\ cause \in {"power", "iwdg", "pin"}
    /\ faultAge \in Int

Healthy == stream /\ dsp /\ uart

Init ==
    /\ board = "reset"
    /\ timeout \in TIMEOUTS /\ age = 0
    /\ toSample = WINDOW /\ health_mask = {} /\ result = FALSE
    /\ late = FALSE /\ failures = 0
    /\ stream = TRUE /\ dsp = TRUE /\ uart = TRUE
    /\ rcc_flag = FALSE /\ detected = FALSE /\ reported = FALSE
    /\ cause = "power"
    /\ faultAge = -1

-----------------------------------------------------------------------------
(* platform_init, app_start and the start of the scheduler.               *)

\* mutant: the reset flags are not cleared
PlatformInit_KeepsFlags ==
    /\ board = "reset"
    /\ board' = "boot"
    /\ detected' = rcc_flag
    /\ UNCHANGED <<timeout, age, tasks, environment, rcc_flag, reported, cause,
                   faultAge>>

PlatformInit ==
    /\ board = "reset"
    /\ board' = "boot"
    /\ detected' = rcc_flag
    /\ rcc_flag' = FALSE
    /\ UNCHANGED <<timeout, age, tasks, environment, reported, cause, faultAge>>

platform_watchdog_start == age' = 0

\* The watchdog task has the highest priority: it starts the IWDG first of all.
AppStart ==
    /\ board = "boot"
    /\ board' = "run"
    /\ reported' = (reported \/ detected)
    /\ platform_watchdog_start
    /\ UNCHANGED <<timeout, tasks, environment, rcc_flag, detected, cause,
                   faultAge>>

\* A configASSERT, or vTaskStartScheduler returns: no IWDG is running yet.
BootFails ==
    /\ board = "boot"
    /\ board' = "hung"
    /\ UNCHANGED <<timeout, age, tasks, environment, flags, cause, faultAge>>

-----------------------------------------------------------------------------
(* One slot.                                                               *)

Aged == IF faultAge < 0 THEN -1 ELSE faultAge + 1

\* mutant: the task wakes one slot late
NextSample_OffByOne == IF toSample = 0 THEN WINDOW ELSE toSample - 1

NextSample == IF toSample = 1 THEN WINDOW ELSE toSample - 1

\* mutant: any vote refreshes the IWDG
Refreshes_AnyVote(observed) == observed # {}

Refreshes(observed) == observed = HEALTH_REQUIRED

\* mutant: a transmission that outlasts its period is not voted for
TelVotes_InTime(sent, slips) == sent /\ ~slips

TelVotes(sent, slips) == late \/ (sent /\ ~slips)

Votes(sent, slips) ==
    (IF stream THEN {"ACQUISITION"} ELSE {})
      \cup (IF stream /\ dsp THEN {"DSP"} ELSE {})
      \cup (IF TelVotes(sent, slips) THEN {"TELEMETRY"} ELSE {})

\* The telemetry task takes the result of the slot before; its transmission may
\* fail or slip into the next slot.  The watchdog task samples early, before
\* this slot's votes, or after them.
Slot ==
    /\ board = "run" /\ age < timeout
    /\ \E early, fails, slips \in BOOLEAN :
         LET sent == result /\ uart /\ ~fails
             votes == Votes(sent, slips)
             samples == toSample = 1
             observed == IF early THEN health_mask ELSE health_mask \cup votes
         IN  /\ fails => uart /\ result /\ failures < MAX_FAILURES
             /\ slips => sent
             /\ failures' = IF fails THEN failures + 1
                            ELSE IF sent THEN 0 ELSE failures
             /\ late' = slips
             /\ age' = IF ~(samples /\ Refreshes(observed)) THEN age + 1
                       ELSE IF early THEN 1 ELSE 0
             /\ health_mask' = IF ~samples THEN health_mask \cup votes
                               ELSE IF early THEN votes ELSE {}
    /\ result' = (stream /\ dsp)
    /\ toSample' = NextSample
    /\ faultAge' = Aged
    /\ UNCHANGED <<board, timeout, environment, flags, cause>>

\* Interrupts are off for ever; the IWDG counts on.
SlotHalted ==
    /\ board = "halted" /\ age < timeout
    /\ age' = age + 1
    /\ faultAge' = Aged
    /\ UNCHANGED <<board, timeout, tasks, environment, flags, cause>>

-----------------------------------------------------------------------------
(* What may fail, and the resets.                                          *)

Failing == faultAge' = IF faultAge < 0 THEN 0 ELSE faultAge

\* The sample stream stops, the DSP task is suspended, the UART stops.
PartFails ==
    /\ board = "run"
    /\ \/ stream /\ stream' = FALSE /\ UNCHANGED <<dsp, uart>>
       \/ dsp /\ dsp' = FALSE /\ UNCHANGED <<stream, uart>>
       \/ uart /\ uart' = FALSE /\ UNCHANGED <<stream, dsp>>
    /\ Failing
    /\ UNCHANGED <<board, timeout, age, tasks, flags, cause>>

\* A failed configASSERT, the stack overflow and malloc hooks.
Halt ==
    /\ board = "run"
    /\ board' = "halted"
    /\ Failing
    /\ UNCHANGED <<timeout, age, tasks, environment, flags, cause>>

\* RAM and peripherals start anew; what had failed may still be broken.
Reset ==
    /\ board' = "reset"
    /\ age' = 0
    /\ toSample' = WINDOW /\ health_mask' = {} /\ result' = FALSE
    /\ late' = FALSE /\ failures' = 0
    /\ stream' \in {stream, TRUE} /\ dsp' \in {dsp, TRUE}
    /\ uart' \in {uart, TRUE}
    /\ faultAge' = IF Healthy' THEN -1 ELSE 0
    /\ detected' = FALSE /\ reported' = FALSE
    /\ UNCHANGED timeout

Bite ==
    /\ board \in {"run", "halted"} /\ age = timeout
    /\ rcc_flag' = TRUE /\ cause' = "iwdg"
    /\ Reset

\* The reset pin does not touch the flag.  It is not pressed again in the few
\* microseconds before platform_init has read it.
PinReset ==
    /\ board # "reset"
    /\ cause' = "pin"
    /\ UNCHANGED rcc_flag
    /\ Reset

Next == \/ PlatformInit \/ AppStart \/ BootFails
        \/ Slot \/ SlotHalted \/ PartFails \/ Halt
        \/ Bite \/ PinReset

Spec == Init /\ [][Next]_vars

-----------------------------------------------------------------------------
(* Properties.                                                             *)

\* A board on which nothing has failed for good is never reset, from its first
\* window on, although windows lack a vote while the UART fails
\* (tasks.c:242-251).
NoFalseReset == [][Bite => faultAge >= 0]_vars

\* When something has failed for good, the reset comes within the timeout, a
\* window and the slot in which a late transmission may still be voted for
\* (docs/architecture.md:52-56).
ResetInTime == faultAge <= timeout + WINDOW + 1

\* STATUS_WATCHDOG_RESET tells what the last reset was, over any sequence of
\* resets (board_skeleton.c:52-54, tasks.c:255-257).
CauseReported == board = "run" => (reported <=> cause = "iwdg")

=============================================================================
