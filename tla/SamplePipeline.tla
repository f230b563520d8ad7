--------------------------- MODULE SamplePipeline ---------------------------
(***************************************************************************)
(* The sample pipeline of the analyzer, from the ADC's circular DMA buffer *)
(* to the spectrum handed to the UART: the ADC half of                     *)
(* platform/stm32f446/board_skeleton.c and the four tasks of app/tasks.c.  *)
(*                                                                         *)
(* The ADC and its DMA fill the two halves of adc_dma_words in turn and    *)
(* never wait.  An interrupt publishes each completed half; the tasks pass *)
(* a descriptor of it (not a copy) down to the DSP task, which therefore   *)
(* reads the half in a race with the DMA and decides with two reads of the *)
(* generation counter whether what it read is one block.                   *)
(*                                                                         *)
(* A sample word is abstracted to the number of the block it belongs to    *)
(* (0: never written).  The tasks run under FreeRTOS's fixed priorities:   *)
(* a task takes a step only when no task above it is ready.                *)
(***************************************************************************)
EXTENDS Integers, Sequences, FiniteSets

CONSTANTS
    FRAMES,           \* ADC_DMA_FRAMES_PER_HALF: words in one half
    QUEUE_DEPTH,      \* depth of block_queue
    BOOT_STATUS,      \* sticky bits set before the first sample is taken
    FAULT_INJECT_DROP_EVERY_N_BLOCKS,       \* 0: not built in
    FAULT_INJECT_DSP_STALL_AFTER_BLOCKS,    \* 0: not built in
    FAULT_INJECT_FREEZE_ADC,
    MaxBlocks,        \* bound: the ADC completes this many halves
    MaxErrors         \* bound: and raises this many error interrupts

StatusBits == {"ADC_RUNNING", "BLOCK_GAP", "ADC_OVERRUN", "FRAME_DROPPED",
               "DMA_STALE", "UART_BACKPRESSURE", "FAULT_INJECTED",
               "TEST_SIGNAL", "WATCHDOG_RESET"}

ASSUME ConstantsAssumption ==
    /\ FRAMES \in Nat \ {0}
    /\ QUEUE_DEPTH \in Nat \ {0}
    /\ BOOT_STATUS \subseteq StatusBits
    /\ FAULT_INJECT_DROP_EVERY_N_BLOCKS \in Nat
    /\ FAULT_INJECT_DSP_STALL_AFTER_BLOCKS \in Nat
    /\ FAULT_INJECT_FREEZE_ADC \in BOOLEAN
    /\ MaxBlocks \in Nat
    /\ MaxErrors \in Nat

VARIABLES
    (* hardware *)
    adc_dma_words,    \* half -> word -> block the word was sampled for
    filling,          \* the block the DMA is writing
    pos,              \* words of it already written
    irq,              \* a half is complete and its interrupt is pending
    stalled,          \* the ADC or its DMA has stopped for good
    errors,           \* error interrupts raised so far
    (* board_skeleton.c *)
    completed_generation, completed_half, adc_overrun_count,
    notified,         \* the acquisition task's notification value
    (* acquisition_task *)
    acqPc, acqNotes, acqLoad, acqBlock, monitor, blocks_seen,
    (* dsp_task *)
    block_queue, dspPc, dspBlock, reads, channel_samples, dsp_result,
    blocks_processed,
    (* telemetry_task *)
    result_queue, telPc, telemetry_result,
    (* shared status, votes and the watchdog *)
    sticky_status, health_mask, fed,
    (* history *)
    refreshes         \* times watchdog_task has refreshed the IWDG, up to one
                      \* more than there are blocks

hardware == <<adc_dma_words, filling, pos, irq, stalled, errors>>
board == <<completed_generation, completed_half, adc_overrun_count, notified>>
acqVars == <<acqPc, acqNotes, acqLoad, acqBlock, monitor, blocks_seen>>
dspVars == <<dspPc, dspBlock, reads, channel_samples, dsp_result,
             blocks_processed>>
telVars == <<telPc, telemetry_result>>
queues == <<block_queue, result_queue>>
watchdog == <<fed, refreshes>>
votes == <<health_mask, watchdog>>
vars == <<hardware, board, acqVars, dspVars, telVars, queues, sticky_status,
          votes>>

HEALTH_REQUIRED == {"ACQUISITION", "DSP", "TELEMETRY"}

Descriptors == [generation : Nat, half : {0, 1}]
Results == [generation : Nat, status : SUBSET StatusBits,
            dropped_blocks : Nat, samples : SUBSET Nat]

NoBlock == [generation |-> 0, half |-> 0]
NoResult == [generation |-> 0, status |-> {}, dropped_blocks |-> 0,
             samples |-> {}]

HardwareTypeOK ==
    /\ adc_dma_words \in [{0, 1} -> [0 .. FRAMES - 1 -> Nat]]
    /\ filling \in Nat \ {0}
    /\ pos \in 0 .. FRAMES - 1
    /\ irq \in BOOLEAN
    /\ stalled \in BOOLEAN
    /\ errors \in Nat

BoardTypeOK ==
    /\ completed_generation \in Nat
    /\ completed_half \in {0, 1}
    /\ adc_overrun_count \in Nat
    /\ notified \in Nat

AcqTypeOK ==
    /\ acqPc \in {"wait", "load", "store", "read", "check", "send"}
    /\ acqNotes \in Nat
    /\ acqPc \in {"load", "store"} => acqNotes > 1
    /\ acqLoad \in Nat
    /\ acqBlock \in Descriptors
    /\ monitor \in [initialized : BOOLEAN, last_generation : Nat]
    /\ blocks_seen \in Nat

DspTypeOK ==
    /\ dspPc \in {"receive", "first", "unpack", "second", "analyse", "status",
                  "publish", "suspended"}
    /\ dspBlock \in Descriptors
    /\ reads \in 0 .. 2 * FRAMES
    /\ dspPc = "unpack" => reads < 2 * FRAMES
    /\ channel_samples \in SUBSET Nat
    /\ dsp_result \in Results
    /\ blocks_processed \in Nat

TelTypeOK ==
    /\ telPc \in {"delay", "send"}
    /\ telemetry_result \in Results

\* Both queues stay within their static storage.
QueuesTypeOK ==
    /\ block_queue \in Seq(Descriptors)
    /\ result_queue \in Seq(Results)
    /\ Len(block_queue) <= QUEUE_DEPTH
    /\ Len(result_queue) <= 1

StatusTypeOK ==
    /\ sticky_status \in SUBSET StatusBits
    /\ health_mask \in SUBSET HEALTH_REQUIRED
    /\ fed \in BOOLEAN
    /\ refreshes \in Nat

\* Types, and both queues within their static storage
\* (tasks.c:20-21, 258-264).
TypeOK == /\ HardwareTypeOK /\ BoardTypeOK /\ AcqTypeOK /\ DspTypeOK
          /\ TelTypeOK /\ QueuesTypeOK /\ StatusTypeOK

(***************************************************************************)
(* The state after platform_adc_start, when the acquisition task waits for *)
(* its first block.                                                        *)
(***************************************************************************)
Init ==
    /\ adc_dma_words = [h \in {0, 1} |-> [i \in 0 .. FRAMES - 1 |-> 0]]
    /\ filling = 1 /\ pos = 0
    /\ irq = FALSE /\ stalled = FALSE /\ errors = 0
    /\ completed_generation = 0 /\ completed_half = 0
    /\ adc_overrun_count = 0 /\ notified = 0
    /\ acqPc = "wait" /\ acqNotes = 0 /\ acqLoad = 0 /\ acqBlock = NoBlock
    /\ monitor = [initialized |-> FALSE, last_generation |-> 0]
    /\ blocks_seen = 0
    /\ block_queue = <<>> /\ result_queue = <<>>
    /\ dspPc = "receive" /\ dspBlock = NoBlock /\ reads = 0
    /\ channel_samples = {} /\ dsp_result = NoResult /\ blocks_processed = 0
    /\ telPc = "delay" /\ telemetry_result = NoResult
    /\ sticky_status = BOOT_STATUS
    /\ health_mask = {} /\ fed = FALSE /\ refreshes = 0

-----------------------------------------------------------------------------
(* The ADC, its DMA stream and the interrupts.                             *)

\* Half-buffer of a block: the DMA alternates between them.
Half(block) == (block - 1) % 2

AdcRunning == ~stalled /\ filling <= MaxBlocks

\* One conversion of the dual ADC lands in the buffer.
DmaWrites ==
    /\ AdcRunning
    /\ pos < FRAMES - 1
    /\ adc_dma_words' = [adc_dma_words EXCEPT ![Half(filling)][pos] = filling]
    /\ pos' = pos + 1
    /\ UNCHANGED <<filling, irq, stalled, errors, board, acqVars, dspVars,
                   telVars, queues, sticky_status, votes>>

\* The last word of a half.  A masked interrupt is taken within one half: the
\* longest section the firmware masks interrupts for is a queue copy.
DmaCompletesHalf ==
    /\ AdcRunning
    /\ pos = FRAMES - 1
    /\ ~irq
    /\ adc_dma_words' = [adc_dma_words EXCEPT ![Half(filling)][pos] = filling]
    /\ filling' = filling + 1
    /\ pos' = 0
    /\ irq' = TRUE
    /\ UNCHANGED <<stalled, errors, board, acqVars, dspVars, telVars, queues,
                   sticky_status, votes>>

\* HAL_ADC_ConvHalfCpltCallback and HAL_ADC_ConvCpltCallback.
PublishCompletedHalf ==
    /\ irq
    /\ irq' = FALSE
    /\ completed_half' = Half(filling - 1)
    /\ completed_generation' = completed_generation + 1
    /\ notified' = notified + 1
    /\ UNCHANGED <<adc_dma_words, filling, pos, stalled, errors,
                   adc_overrun_count, acqVars, dspVars, telVars, queues,
                   sticky_status, votes>>

\* HAL_ADC_ErrorCallback: an ADC or DMA error, after which the stream may go on
\* or may be dead.
AdcError ==
    /\ AdcRunning
    /\ errors < MaxErrors
    /\ errors' = errors + 1
    /\ adc_overrun_count' = adc_overrun_count + 1
    /\ stalled' \in BOOLEAN
    /\ UNCHANGED <<adc_dma_words, filling, pos, irq, completed_generation,
                   completed_half, notified, acqVars, dspVars, telVars, queues,
                   sticky_status, votes>>

\* The sample clock or the stream stops without a word.
AdcStops ==
    /\ AdcRunning
    /\ stalled' = TRUE
    /\ UNCHANGED <<adc_dma_words, filling, pos, irq, errors, board, acqVars,
                   dspVars, telVars, queues, sticky_status, votes>>

-----------------------------------------------------------------------------
(* Scheduling.  A pending interrupt is taken before the next instruction   *)
(* of a task unless that task has masked it, so that no task runs between  *)
(* the first word of a new half and the interrupt of the half before.      *)
(* WATCHDOG > ACQUISITION > DSP > TELEMETRY; a step that masks interrupts  *)
(* is one action.                                                          *)

TaskRuns == irq => pos = 0

AcqBlocked == acqPc = "wait" /\ notified = 0
DspRuns == TaskRuns /\ AcqBlocked
DspBlocked == dspPc = "suspended" \/ (dspPc = "receive" /\ block_queue = <<>>)
TelRuns == DspRuns /\ DspBlocked

\* status_set and app_health_kick: a read-modify-write in a critical section.
\* mutant: an assignment instead of an or
AddStatus_Replaces(bits) == sticky_status' = bits
AddStatus(bits) == sticky_status' = sticky_status \cup bits
AddVote(task) == health_mask' = health_mask \cup {task}

-----------------------------------------------------------------------------
(* platform_adc_wait_block, called by the acquisition task.                *)

\* mutant: the addition is not guarded
Coalesced_Always == notified > 0
Coalesced == notified > 1

\* ulTaskNotifyTake(pdTRUE): all notifications at once.
AcqTake ==
    /\ TaskRuns
    /\ acqPc = "wait" /\ notified > 0
    /\ acqNotes' = notified
    /\ notified' = 0
    /\ acqPc' = IF Coalesced THEN "load" ELSE "read"
    /\ UNCHANGED <<hardware, completed_generation, completed_half,
                   adc_overrun_count, acqLoad, acqBlock, monitor, blocks_seen,
                   dspVars, telVars, queues, sticky_status, votes>>

\* The wait times out only when no interrupt came for two block periods.  The
\* task sets a status bit and withholds its vote.
AcqTimeout ==
    /\ acqPc = "wait" /\ notified = 0
    /\ ~AdcRunning /\ ~irq
    /\ AddStatus({"ADC_OVERRUN"})
    /\ UNCHANGED <<hardware, board, acqVars, dspVars, telVars, queues, votes>>

\* adc_overrun_count += notifications - 1u is a load and a store of a volatile
\* that AdcError increments from an interrupt.
AcqLoadOverruns ==
    /\ TaskRuns
    /\ acqPc = "load"
    /\ acqLoad' = adc_overrun_count
    /\ acqPc' = "store"
    /\ UNCHANGED <<hardware, board, acqNotes, acqBlock, monitor, blocks_seen,
                   dspVars, telVars, queues, sticky_status, votes>>

\* mutant: every notification counts as a missed block
Missed_All(notifications) == notifications
Missed(notifications) == notifications - 1

AcqStoreOverruns ==
    /\ TaskRuns
    /\ acqPc = "store"
    /\ adc_overrun_count' = acqLoad + Missed(acqNotes)
    /\ acqPc' = "read"
    /\ UNCHANGED <<hardware, completed_generation, completed_half, notified,
                   acqNotes, acqLoad, acqBlock, monitor, blocks_seen, dspVars,
                   telVars, queues, sticky_status, votes>>

\* The critical section; the call returns and its locals go out of scope.
AcqReadHalf ==
    /\ TaskRuns
    /\ acqPc = "read"
    /\ acqBlock' = [generation |-> completed_generation,
                    half |-> completed_half]
    /\ acqNotes' = 0 /\ acqLoad' = 0
    /\ acqPc' = "check"
    /\ UNCHANGED <<hardware, board, monitor, blocks_seen, dspVars, telVars,
                   queues, sticky_status, votes>>

-----------------------------------------------------------------------------
(* The rest of the loop of acquisition_task.                               *)

\* acquisition_health_check: "late" stands for a timestamp outside the
\* tolerance.
HealthStatus(block, late) ==
    {"ADC_RUNNING"} \cup
    IF /\ monitor.initialized
       /\ late \/ block.generation # monitor.last_generation + 1
    THEN {"BLOCK_GAP"} ELSE {}

AcqCheck ==
    /\ TaskRuns
    /\ acqPc = "check"
    /\ \E late \in BOOLEAN :
         AddStatus(HealthStatus(acqBlock, late) \cup
                   IF adc_overrun_count # 0 THEN {"ADC_OVERRUN"} ELSE {})
    /\ monitor' = [initialized |-> TRUE,
                   last_generation |-> acqBlock.generation]
    /\ acqPc' = "send"
    /\ UNCHANGED <<hardware, board, acqNotes, acqLoad, acqBlock, blocks_seen,
                   dspVars, telVars, queues, votes>>

\* blocks_seen exists only in a build that drops blocks; here it also counts
\* the blocks of every other build.
DropsNext == /\ FAULT_INJECT_DROP_EVERY_N_BLOCKS > 0
             /\ (blocks_seen + 1) % FAULT_INJECT_DROP_EVERY_N_BLOCKS = 0

\* mutant: the injected drop is not announced as a drop
InjectedDrop_Silent == {"FAULT_INJECTED"}
InjectedDrop == {"FRAME_DROPPED", "FAULT_INJECTED"}

AcqInjectDrop ==
    /\ TaskRuns
    /\ acqPc = "send" /\ DropsNext
    /\ blocks_seen' = blocks_seen + 1
    /\ AddStatus(InjectedDrop)
    /\ AddVote("ACQUISITION")
    /\ acqPc' = "wait"
    /\ UNCHANGED <<hardware, board, acqNotes, acqLoad, acqBlock, monitor,
                   dspVars, telVars, queues, watchdog>>

\* xQueueSend without waiting: a full queue drops the new block.  The kick
\* after it commutes with the steps of every other task, so it is not apart.
AcqSend ==
    /\ TaskRuns
    /\ acqPc = "send" /\ ~DropsNext
    /\ blocks_seen' = blocks_seen + 1
    /\ IF Len(block_queue) < QUEUE_DEPTH
       THEN /\ block_queue' = Append(block_queue, acqBlock)
            /\ UNCHANGED sticky_status
       ELSE /\ AddStatus({"FRAME_DROPPED"})
            /\ UNCHANGED block_queue
    /\ AddVote("ACQUISITION")
    /\ acqPc' = "wait"
    /\ UNCHANGED <<hardware, board, acqNotes, acqLoad, acqBlock, monitor,
                   dspVars, telVars, result_queue, watchdog>>

-----------------------------------------------------------------------------
(* dsp_task.                                                               *)

DspReceive ==
    /\ DspRuns
    /\ dspPc = "receive" /\ block_queue # <<>>
    /\ dspBlock' = Head(block_queue)
    /\ block_queue' = Tail(block_queue)
    /\ dsp_result' = [generation |-> Head(block_queue).generation,
                      status |-> {}, dropped_blocks |-> 0, samples |-> {}]
    /\ dspPc' = "first"
    /\ UNCHANGED <<hardware, board, acqVars, reads, channel_samples,
                   blocks_processed, telVars, result_queue,
                   sticky_status, votes>>

\* mutant: a block stays current while the DMA fills the half after it
BlockIsCurrent_Late == completed_generation <= dspBlock.generation + 1
BlockIsCurrent == completed_generation = dspBlock.generation

\* mutant: a stale block is not reported as dropped
StaleBlock_Silent == {"DMA_STALE"}
StaleBlock == {"DMA_STALE", "FRAME_DROPPED"}

\* Either generation check fails: the block is dropped, and the task votes.
DspReject ==
    /\ DspRuns
    /\ dspPc \in {"first", "second"} /\ ~BlockIsCurrent
    /\ AddStatus(StaleBlock)
    /\ AddVote("DSP")
    /\ dspPc' = "receive"
    /\ UNCHANGED <<hardware, board, acqVars, dspBlock, reads, channel_samples,
                   dsp_result, blocks_processed, telVars, queues, watchdog>>

DspFirstCheck ==
    /\ DspRuns
    /\ dspPc = "first" /\ BlockIsCurrent
    /\ reads' = 0
    /\ channel_samples' = {}
    /\ dspPc' = "unpack"
    /\ UNCHANGED <<hardware, board, acqVars, dspBlock, dsp_result,
                   blocks_processed, telVars, queues, sticky_status,
                   votes>>

\* unpack_dual_adc reads the half twice, word by word: once for the means and
\* the clipping, once for the samples.  channel_samples is the set of blocks the
\* words read belonged to.
WordRead == IF FAULT_INJECT_FREEZE_ADC THEN 0
            ELSE IF reads < FRAMES THEN reads ELSE reads - FRAMES

DspUnpack ==
    /\ DspRuns
    /\ dspPc = "unpack" /\ reads < 2 * FRAMES
    /\ channel_samples' = channel_samples
                            \cup {adc_dma_words[dspBlock.half][WordRead]}
    /\ reads' = reads + 1
    /\ dspPc' = IF reads + 1 = 2 * FRAMES THEN "second" ELSE "unpack"
    /\ UNCHANGED <<hardware, board, acqVars, dspBlock, dsp_result,
                   blocks_processed, telVars, queues, sticky_status,
                   votes>>

DspSecondCheck ==
    /\ DspRuns
    /\ dspPc = "second" /\ BlockIsCurrent
    /\ dspPc' = "analyse"
    /\ UNCHANGED <<hardware, board, acqVars, dspBlock, reads, channel_samples,
                   dsp_result, blocks_processed, telVars, queues,
                   sticky_status, votes>>

\* Both FFTs, then dropped_blocks.
DspAnalyse ==
    /\ DspRuns
    /\ dspPc = "analyse"
    /\ dsp_result' = [dsp_result EXCEPT !.samples = channel_samples,
                                        !.dropped_blocks = adc_overrun_count]
    /\ dspPc' = "status"
    /\ UNCHANGED <<hardware, board, acqVars, dspBlock, reads, channel_samples,
                   blocks_processed, telVars, queues, sticky_status,
                   votes>>

\* The bits of spectrum_health_check are about the signal, not the pipeline.
ResultStatus == sticky_status \cup
                IF FAULT_INJECT_FREEZE_ADC THEN {"FAULT_INJECTED"} ELSE {}

DspStatus ==
    /\ DspRuns
    /\ dspPc = "status"
    /\ dsp_result' = [dsp_result EXCEPT !.status = ResultStatus]
    /\ dspPc' = "publish"
    /\ UNCHANGED <<hardware, board, acqVars, dspBlock, reads, channel_samples,
                   blocks_processed, telVars, queues, sticky_status,
                   votes>>

StallsNow == /\ FAULT_INJECT_DSP_STALL_AFTER_BLOCKS > 0
             /\ blocks_processed + 1 >= FAULT_INJECT_DSP_STALL_AFTER_BLOCKS

\* mutant: the result is sent, not overwritten, into the queue of one
Overwrite_Sends(queue, result) == Append(queue, result)
Overwrite(queue, result) == <<result>>

\* xQueueOverwrite, then the vote, unless the injected stall suspends the task.
DspPublish ==
    /\ DspRuns
    /\ dspPc = "publish"
    /\ result_queue' = Overwrite(result_queue, dsp_result)
    /\ blocks_processed' = blocks_processed + 1
    /\ IF StallsNow
       THEN /\ AddStatus({"FAULT_INJECTED"})
            /\ dspPc' = "suspended"
            /\ UNCHANGED health_mask
       ELSE /\ AddVote("DSP")
            /\ dspPc' = "receive"
            /\ UNCHANGED sticky_status
    /\ UNCHANGED <<hardware, board, acqVars, dspBlock, reads, channel_samples,
                   dsp_result, telVars, block_queue, watchdog>>

-----------------------------------------------------------------------------
(* telemetry_task, every 50 ms.  telemetry_result is the task's own, so    *)
(* the eight frames of one result are one step here; module UartLink has   *)
(* them one by one.                                                        *)

TelReceive ==
    /\ TelRuns
    /\ telPc = "delay" /\ result_queue # <<>>
    /\ telemetry_result' = Head(result_queue)
    /\ result_queue' = Tail(result_queue)
    /\ telPc' = "send"
    /\ UNCHANGED <<hardware, board, acqVars, dspVars, block_queue,
                   sticky_status, votes>>

TelSent ==
    /\ TelRuns
    /\ telPc = "send"
    /\ AddVote("TELEMETRY")
    /\ telPc' = "delay"
    /\ UNCHANGED <<hardware, board, acqVars, dspVars, telemetry_result, queues,
                   sticky_status, watchdog>>

TelFails ==
    /\ TelRuns
    /\ telPc = "send"
    /\ AddStatus({"UART_BACKPRESSURE"})
    /\ telPc' = "delay"
    /\ UNCHANGED <<hardware, board, acqVars, dspVars, telemetry_result, queues,
                   votes>>

-----------------------------------------------------------------------------
(* watchdog_task, every 250 ms, above every other task.                    *)

\* mutant: the votes are read but not cleared
WatchdogSamples_Keeps ==
    /\ TaskRuns
    /\ fed' = (health_mask = HEALTH_REQUIRED)
    /\ refreshes' = refreshes + IF health_mask = HEALTH_REQUIRED
                                     /\ refreshes <= MaxBlocks THEN 1 ELSE 0
    /\ UNCHANGED <<hardware, board, acqVars, dspVars, telVars, queues,
                   sticky_status, health_mask>>

\* fed: this sample refreshed the IWDG.
WatchdogSamples ==
    /\ TaskRuns
    /\ fed' = (health_mask = HEALTH_REQUIRED)
    /\ refreshes' = refreshes + IF health_mask = HEALTH_REQUIRED
                                     /\ refreshes <= MaxBlocks THEN 1 ELSE 0
    /\ health_mask' = {}
    /\ UNCHANGED <<hardware, board, acqVars, dspVars, telVars, queues,
                   sticky_status>>

-----------------------------------------------------------------------------
Hardware == DmaWrites \/ DmaCompletesHalf \/ AdcError \/ AdcStops

Acquisition ==
    \/ AcqTake \/ AcqTimeout \/ AcqLoadOverruns \/ AcqStoreOverruns
    \/ AcqReadHalf \/ AcqCheck \/ AcqInjectDrop \/ AcqSend

Dsp ==
    \/ DspReceive \/ DspReject \/ DspFirstCheck \/ DspUnpack
    \/ DspSecondCheck \/ DspAnalyse \/ DspStatus \/ DspPublish

Telemetry == TelReceive \/ TelSent \/ TelFails

Next == \/ Hardware \/ PublishCompletedHalf \/ Acquisition \/ Dsp \/ Telemetry
        \/ WatchdogSamples

\* Interrupts are served and the scheduler runs whoever is ready and not
\* preempted; the hardware owes nothing.
Fairness == /\ WF_vars(PublishCompletedHalf)
            /\ WF_vars(Acquisition)
            /\ WF_vars(Dsp)
            /\ WF_vars(Telemetry)
            /\ WF_vars(WatchdogSamples)

Spec == Init /\ [][Next]_vars

FairSpec == Spec /\ Fairness

-----------------------------------------------------------------------------
(* Properties.                                                             *)

\* A result made of words of the block it is labelled with and of no other.
Intact(result) == result.samples = {result.generation}

\* Every spectrum that leaves the DSP task was computed from one whole block,
\* the one its generation names, although the DMA overwrites the half under the
\* task's two passes (the two generation checks of tasks.c:144-154).
ResultsIntact ==
    /\ dspPc = "analyse" => channel_samples = {dspBlock.generation}
    /\ dspPc \in {"status", "publish"} => Intact(dsp_result)
    /\ \A i \in 1 .. Len(result_queue) : Intact(result_queue[i])
    /\ telPc = "send" => Intact(telemetry_result)

\* The last result the DSP task let out: the mailbox holds it until the telemetry
\* task takes it.
Latest == IF result_queue # <<>> THEN result_queue[1] ELSE telemetry_result

\* When consecutive results skip or repeat a block, the later one says so,
\* whichever of the five places lost the block: the notification, the critical
\* section, the full queue, a generation check or an injected drop.
GapsReported ==
    dspPc = "publish" =>
        \/ Latest.generation = 0
        \/ dsp_result.generation = Latest.generation + 1
        \/ dsp_result.status \cap {"BLOCK_GAP", "FRAME_DROPPED"} # {}

\* An error interrupt is never forgotten, although the acquisition task's
\* read-modify-write of the counter may overwrite its increment
\* (board_skeleton.c:146 against 154).
OverrunRemembered == errors > 0 => adc_overrun_count > 0

\* The counter reports no loss that did not happen: with the blocks the
\* acquisition task has dealt with it never exceeds the errors and the halves
\* completed.
OverrunsNotInvented ==
    adc_overrun_count + blocks_seen <= errors + completed_generation

\* Seen from the UART the whole pipeline is a mailbox of one result: what is
\* transmitted never goes back in time, never loses a status bit, and repeats or
\* skips a block only with the bit that says so - overwriting the queue,
\* rejecting blocks and racing the interrupts included.
Mailbox == INSTANCE Reports WITH latest <- Latest,
                                 fresh <- result_queue # <<>>,
                                 report <- telemetry_result

ImplementsReports == Mailbox!Spec

\* The watchdog is refreshed at most once per spectrum: the DSP task votes even
\* for a block it rejects (tasks.c:146, 152), yet a board whose DSP task rejects
\* every block is reset, because the telemetry task votes only for a result.
RefreshesEarned == refreshes <= blocks_processed

\* When the sample stream dies, the watchdog is refreshed only finitely often,
\* so that the IWDG resets the board: no task votes on a timeout
\* (tasks.c:68-70, 136, 205).
StallStopsRefresh == stalled ~> []~fed

\* docs/protocol.md:30 "dropped block count": a result that reports a dropped
\* frame counts at least one dropped block.  The code counts only coalesced
\* notifications and error interrupts there.
DropsCounted ==
    \A i \in 1 .. Len(result_queue) :
        "FRAME_DROPPED" \in result_queue[i].status =>
            result_queue[i].dropped_blocks > 0

-----------------------------------------------------------------------------
(* The inductive invariant behind the safety properties and the refinement. *)

\* What the buffer holds: one half is the last block completed; the other is
\* the block being written up to pos and from there the one two before it.  The
\* generation lags by the pending interrupt.
BufferInv ==
    /\ completed_generation = filling - (IF irq THEN 2 ELSE 1)
    /\ completed_generation > 0 => completed_half = Half(completed_generation)
    /\ \A i \in 0 .. FRAMES - 1 :
         /\ filling > 1 => adc_dma_words[Half(filling - 1)][i] = filling - 1
         /\ i < pos => adc_dma_words[Half(filling)][i] = filling
         /\ i >= pos /\ filling > 2
              => adc_dma_words[Half(filling)][i] = filling - 2

\* A descriptor names a completed block and the half it was written to.
Describes(block) == /\ block.generation \in 1 .. completed_generation
                    /\ block.half = Half(block.generation)

DescriptorInv ==
    /\ acqPc # "wait" \/ notified > 0 => completed_generation > 0
    /\ acqPc \in {"check", "send"} => Describes(acqBlock)
    /\ \A i \in 1 .. Len(block_queue) : Describes(block_queue[i])
    /\ dspPc # "receive" => Describes(dspBlock)

\* While its block is the last one completed the DSP task has read that block
\* only; once the block is not, it can never be again.
CopyInv ==
    /\ dspPc \notin {"receive", "suspended"}
         => dsp_result.generation = dspBlock.generation
    /\ dspPc = "unpack" /\ reads > 0 => channel_samples # {}
    /\ dspPc = "second" => channel_samples # {}
    /\ dspPc \in {"unpack", "second"} /\ BlockIsCurrent
         => channel_samples \subseteq {dspBlock.generation}

\* The notifications the task still has to account for, and the blocks it has
\* in hand.
CountInv ==
    LET dealtWith == adc_overrun_count + blocks_seen + notified
        happened == errors + completed_generation
    IN  /\ acqPc = "wait" => dealtWith <= happened
        /\ acqPc \in {"load", "store"} => dealtWith + acqNotes <= happened
        /\ acqPc = "store" => acqLoad <= adc_overrun_count
        /\ acqPc \in {"read", "check", "send"} => dealtWith + 1 <= happened

CoreInv == /\ TypeOK /\ BufferInv /\ DescriptorInv /\ CopyInv
           /\ ResultsIntact /\ CountInv /\ OverrunRemembered

\* Votes of the telemetry task that have been or can still be cast.
VoteInv == refreshes + (IF "TELEMETRY" \in health_mask THEN 1 ELSE 0)
             + (IF telPc = "send" THEN 1 ELSE 0) + Len(result_queue)
           <= blocks_processed

DspBusy == dspPc \notin {"receive", "suspended"}

\* A generation already handed on by the acquisition task: older than the block
\* it is about to send, unless a repetition has been noticed.
HandedOn(generation) ==
    /\ generation <= monitor.last_generation
    /\ acqPc = "send" /\ generation = monitor.last_generation
         => "BLOCK_GAP" \in sticky_status

Before(earlier, later) ==
    /\ earlier <= later
    /\ earlier = later => "BLOCK_GAP" \in sticky_status

\* Blocks pass through the acquisition task, the queue, the DSP task and the
\* mailbox in the order of their generations.
OrderInv ==
    /\ ~monitor.initialized => /\ acqPc # "send" /\ block_queue = <<>>
                               /\ dspPc = "receive" /\ Latest.generation = 0
                               /\ monitor.last_generation = 0
    /\ monitor.last_generation <= completed_generation
    /\ acqPc = "check" => monitor.last_generation <= acqBlock.generation
    /\ acqPc = "send" => monitor.last_generation = acqBlock.generation
    /\ \A i \in 1 .. Len(block_queue) :
         /\ HandedOn(block_queue[i].generation)
         /\ \A j \in 1 .. i - 1 :
              Before(block_queue[j].generation, block_queue[i].generation)
         /\ DspBusy => Before(dspBlock.generation, block_queue[i].generation)
         /\ Before(Latest.generation, block_queue[i].generation)
    /\ DspBusy => /\ HandedOn(dspBlock.generation)
                  /\ Before(Latest.generation, dspBlock.generation)
    /\ HandedOn(Latest.generation)

\* As long as no bit says that a block was lost, none is missing between the
\* acquisition task and the mailbox.
LossNoted == sticky_status \cap {"BLOCK_GAP", "FRAME_DROPPED"} # {}

Queued == Len(block_queue) + (IF acqPc = "send" THEN 1 ELSE 0)

NoneMissing ==
    /\ \A i \in 1 .. Len(block_queue) :
         block_queue[i].generation = monitor.last_generation - Queued + i
    /\ DspBusy => dspBlock.generation = monitor.last_generation - Queued
    /\ \/ Latest.generation = 0
       \/ Latest.generation = monitor.last_generation - Queued
                                - (IF DspBusy THEN 1 ELSE 0)

LossInv == LossNoted \/ NoneMissing

\* The status of a result covers that of the result before it.
StatusInv ==
    /\ Latest.status \subseteq ResultStatus
    /\ dspPc = "publish" =>
         /\ Latest.status \subseteq dsp_result.status
         /\ dsp_result.status \subseteq ResultStatus
         /\ Latest.generation = dsp_result.generation
              => "BLOCK_GAP" \in dsp_result.status

FlowInv == VoteInv /\ OrderInv /\ LossInv /\ StatusInv /\ GapsReported

IndInv == CoreInv /\ FlowInv

=============================================================================
