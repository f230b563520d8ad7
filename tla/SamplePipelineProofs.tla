----------------------- MODULE SamplePipelineProofs -----------------------
(***************************************************************************)
(* Proofs about SamplePipeline, for every size of the half, depth of the   *)
(* block queue, number of blocks and errors, and build option.             *)
(*                                                                         *)
(* CoreInv, the part of the inductive invariant about the buffer and the   *)
(* counters, is inductive by itself; FlowInv, below it, adds the part      *)
(* about the order of the blocks.  The conjuncts are proved one by one:    *)
(* for each, a frame lemma names the actions that can disturb it, and a    *)
(* step lemma has one case per such action.                                *)
(***************************************************************************)
EXTENDS SamplePipeline, SequenceTheorems, TLAPS

\* The DMA alternates between the halves: block b + 1 goes to the other half,
\* block b + 2 overwrites block b.
LEMMA HalfAlternates ==
  ASSUME NEW b \in Nat \ {0}
  PROVE  /\ Half(b) \in {0, 1}
         /\ Half(b + 1) \in {0, 1}
         /\ Half(b + 1) # Half(b)
         /\ Half(b + 2) = Half(b)
BY SMT DEF Half

\* There are two halves.
LEMMA HalfRange ==
  ASSUME NEW b \in Int
  PROVE  Half(b) \in {0, 1}
BY SMT DEF Half

\* What xQueueReceive takes from block_queue and what it leaves.
LEMMA BlockQueueHead ==
  ASSUME QueuesTypeOK, block_queue # <<>>
  PROVE  /\ Head(block_queue) \in Descriptors
         /\ Tail(block_queue) \in Seq(Descriptors)
         /\ Len(Tail(block_queue)) = Len(block_queue) - 1
BY HeadTailProperties DEF QueuesTypeOK

\* The bits the tasks set are status bits.
LEMMA StatusAdditions ==
  /\ {"ADC_OVERRUN"} \subseteq StatusBits
  /\ InjectedDrop \subseteq StatusBits
  /\ StaleBlock \subseteq StatusBits
  /\ {"FRAME_DROPPED"} \subseteq StatusBits
  /\ {"FAULT_INJECTED"} \subseteq StatusBits
  /\ {"UART_BACKPRESSURE"} \subseteq StatusBits
  /\ \A block, late : HealthStatus(block, late) \subseteq StatusBits
BY DEF StatusBits, HealthStatus, InjectedDrop, StaleBlock

\* The types hold once the ADC has been started.
LEMMA TypeInit == Init => TypeOK
BY ConstantsAssumption, SMT
   DEF Init, TypeOK, HardwareTypeOK, BoardTypeOK, AcqTypeOK, DspTypeOK,
       TelTypeOK, QueuesTypeOK, StatusTypeOK, NoBlock, NoResult, Descriptors,
       Results, HEALTH_REQUIRED

\* Types of the buffer and of the DMA: changed by the hardware and its
\* interrupts.
LEMMA HardwareTypeOKStep ==
  ASSUME TypeOK, [Next]_vars
  PROVE  HardwareTypeOK'
<1>. USE ConstantsAssumption DEF TypeOK
<1>1. CASE DmaWrites
  <2>1. Half(filling) \in {0, 1}
    BY HalfAlternates DEF HardwareTypeOK
  <2>2. adc_dma_words' \in [{0, 1} -> [0 .. FRAMES - 1 -> Nat]]
    <3>1. adc_dma_words[Half(filling)] \in [0 .. FRAMES - 1 -> Nat]
      BY <2>1 DEF HardwareTypeOK
    <3>2. [adc_dma_words[Half(filling)] EXCEPT ![pos] = filling]
            \in [0 .. FRAMES - 1 -> Nat]
      BY <3>1 DEF HardwareTypeOK
    <3>. QED
      BY <1>1, <2>1, <3>2 DEF DmaWrites, HardwareTypeOK
  <2>. QED
    BY <1>1, <2>2, SMTT(60) DEF DmaWrites, HardwareTypeOK
<1>2. CASE DmaCompletesHalf
  <2>1. Half(filling) \in {0, 1}
    BY HalfAlternates DEF HardwareTypeOK
  <2>2. adc_dma_words' \in [{0, 1} -> [0 .. FRAMES - 1 -> Nat]]
    <3>1. adc_dma_words[Half(filling)] \in [0 .. FRAMES - 1 -> Nat]
      BY <2>1 DEF HardwareTypeOK
    <3>2. [adc_dma_words[Half(filling)] EXCEPT ![pos] = filling]
            \in [0 .. FRAMES - 1 -> Nat]
      BY <3>1 DEF HardwareTypeOK
    <3>. QED
      BY <1>2, <2>1, <3>2 DEF DmaCompletesHalf, HardwareTypeOK
  <2>. QED
    BY <1>2, <2>2 DEF DmaCompletesHalf, HardwareTypeOK
<1>3. CASE AdcError
  BY <1>3 DEF AdcError, HardwareTypeOK
<1>4. CASE AdcStops
  BY <1>4 DEF AdcStops, HardwareTypeOK
<1>5. CASE PublishCompletedHalf
  BY <1>5 DEF PublishCompletedHalf, HardwareTypeOK
<1>6. CASE UNCHANGED hardware
  BY <1>6 DEF hardware, HardwareTypeOK
<1>. QED
  BY <1>1, <1>2, <1>3, <1>4, <1>5, <1>6
     DEF Next, Hardware, Acquisition, Dsp, Telemetry, vars, AcqTake,
         AcqTimeout, AcqLoadOverruns, AcqStoreOverruns, AcqReadHalf,
         AcqCheck, AcqInjectDrop, AcqSend, DspReceive, DspReject,
         DspFirstCheck, DspUnpack, DspSecondCheck, DspAnalyse, DspStatus,
         DspPublish, TelReceive, TelSent, TelFails, WatchdogSamples

\* Types of the counters of board_skeleton.c.
LEMMA BoardTypeOKStep ==
  ASSUME TypeOK, [Next]_vars
  PROVE  BoardTypeOK'
<1>. USE ConstantsAssumption DEF TypeOK
<1>1. CASE PublishCompletedHalf
  BY <1>1, HalfRange, filling - 1 \in Int
     DEF PublishCompletedHalf, BoardTypeOK, HardwareTypeOK
<1>2. CASE AdcError
  BY <1>2 DEF AdcError, BoardTypeOK
<1>3. CASE AcqTake
  BY <1>3 DEF AcqTake, BoardTypeOK
<1>4. CASE AcqStoreOverruns
  BY <1>4 DEF AcqStoreOverruns, Missed, BoardTypeOK, AcqTypeOK
<1>5. CASE UNCHANGED board
  BY <1>5 DEF board, BoardTypeOK
<1>. QED
  BY <1>1, <1>2, <1>3, <1>4, <1>5
     DEF Next, Hardware, Acquisition, Dsp, Telemetry, vars, DmaWrites,
         DmaCompletesHalf, AdcStops, AcqTimeout, AcqLoadOverruns,
         AcqReadHalf, AcqCheck, AcqInjectDrop, AcqSend, DspReceive,
         DspReject, DspFirstCheck, DspUnpack, DspSecondCheck, DspAnalyse,
         DspStatus, DspPublish, TelReceive, TelSent, TelFails,
         WatchdogSamples

\* Types of the acquisition task's locals.
LEMMA AcqTypeOKStep ==
  ASSUME TypeOK, [Next]_vars
  PROVE  AcqTypeOK'
<1>. USE ConstantsAssumption DEF TypeOK
<1>1. CASE AcqTake
  BY <1>1 DEF AcqTake, Coalesced, AcqTypeOK, BoardTypeOK
<1>2. CASE AcqLoadOverruns
  BY <1>2 DEF AcqLoadOverruns, AcqTypeOK, BoardTypeOK
<1>3. CASE AcqStoreOverruns
  BY <1>3 DEF AcqStoreOverruns, AcqTypeOK
<1>4. CASE AcqReadHalf
  BY <1>4 DEF AcqReadHalf, AcqTypeOK, BoardTypeOK, Descriptors
<1>5. CASE AcqCheck
  BY <1>5 DEF AcqCheck, AcqTypeOK, Descriptors
<1>6. CASE AcqInjectDrop
  BY <1>6 DEF AcqInjectDrop, AcqTypeOK
<1>7. CASE AcqSend
  BY <1>7 DEF AcqSend, AcqTypeOK
<1>8. CASE UNCHANGED acqVars
  BY <1>8 DEF acqVars, AcqTypeOK
<1>. QED
  BY <1>1, <1>2, <1>3, <1>4, <1>5, <1>6, <1>7, <1>8
     DEF Next, Hardware, Acquisition, Dsp, Telemetry, vars, DmaWrites,
         DmaCompletesHalf, AdcError, AdcStops, PublishCompletedHalf,
         AcqTimeout, DspReceive, DspReject, DspFirstCheck, DspUnpack,
         DspSecondCheck, DspAnalyse, DspStatus, DspPublish, TelReceive,
         TelSent, TelFails, WatchdogSamples

\* Types of the DSP task's locals; its passes stay within the half.
LEMMA DspTypeOKStep ==
  ASSUME TypeOK, [Next]_vars
  PROVE  DspTypeOK'
<1>. USE ConstantsAssumption DEF TypeOK
<1>1. CASE DspReceive
  BY <1>1, BlockQueueHead DEF DspReceive, DspTypeOK, Descriptors, Results
<1>2. CASE DspReject
  BY <1>2 DEF DspReject, DspTypeOK
<1>3. CASE DspFirstCheck
  BY <1>3 DEF DspFirstCheck, DspTypeOK
<1>4. CASE DspUnpack
  <2>1. WordRead \in 0 .. FRAMES - 1
    BY <1>4 DEF DspUnpack, DspTypeOK, WordRead
  <2>2. adc_dma_words[dspBlock.half][WordRead] \in Nat
    BY <2>1 DEF HardwareTypeOK, DspTypeOK, Descriptors
  <2>3. channel_samples' \in SUBSET Nat
    BY <1>4, <2>2 DEF DspUnpack, DspTypeOK
  <2>4. /\ reads' \in 0 .. 2 * FRAMES
        /\ dspPc' = "unpack" => reads' < 2 * FRAMES
    BY <1>4 DEF DspUnpack, DspTypeOK
  <2>. QED
    BY <1>4, <2>3, <2>4 DEF DspUnpack, DspTypeOK
<1>5. CASE DspSecondCheck
  BY <1>5 DEF DspSecondCheck, DspTypeOK
<1>6. CASE DspAnalyse
  BY <1>6 DEF DspAnalyse, DspTypeOK, BoardTypeOK, Results
<1>7. CASE DspStatus
  BY <1>7
     DEF DspStatus, ResultStatus, DspTypeOK, StatusTypeOK, Results, StatusBits
<1>8. CASE DspPublish
  BY <1>8 DEF DspPublish, DspTypeOK, Results
<1>9. CASE UNCHANGED dspVars
  BY <1>9 DEF dspVars, DspTypeOK
<1>. QED
  BY <1>1, <1>2, <1>3, <1>4, <1>5, <1>6, <1>7, <1>8, <1>9
     DEF Next, Hardware, Acquisition, Dsp, Telemetry, vars, DmaWrites,
         DmaCompletesHalf, AdcError, AdcStops, PublishCompletedHalf, AcqTake,
         AcqTimeout, AcqLoadOverruns, AcqStoreOverruns, AcqReadHalf,
         AcqCheck, AcqInjectDrop, AcqSend, TelReceive, TelSent, TelFails,
         WatchdogSamples

\* Types of the telemetry task's locals.
LEMMA TelTypeOKStep ==
  ASSUME TypeOK, [Next]_vars
  PROVE  TelTypeOK'
<1>. USE ConstantsAssumption DEF TypeOK
<1>1. CASE TelReceive
  BY <1>1 DEF TelReceive, TelTypeOK, QueuesTypeOK
<1>2. CASE TelSent
  BY <1>2 DEF TelSent, TelTypeOK, QueuesTypeOK
<1>3. CASE TelFails
  BY <1>3 DEF TelFails, TelTypeOK, QueuesTypeOK
<1>4. CASE UNCHANGED telVars
  BY <1>4 DEF telVars, TelTypeOK, QueuesTypeOK
<1>. QED
  BY <1>1, <1>2, <1>3, <1>4
     DEF Next, Hardware, Acquisition, Dsp, Telemetry, vars, DmaWrites,
         DmaCompletesHalf, AdcError, AdcStops, PublishCompletedHalf, AcqTake,
         AcqTimeout, AcqLoadOverruns, AcqStoreOverruns, AcqReadHalf,
         AcqCheck, AcqInjectDrop, AcqSend, DspReceive, DspReject,
         DspFirstCheck, DspUnpack, DspSecondCheck, DspAnalyse, DspStatus,
         DspPublish, WatchdogSamples

\* Both queues stay within their static storage.
LEMMA QueuesTypeOKStep ==
  ASSUME TypeOK, [Next]_vars
  PROVE  QueuesTypeOK'
<1>. USE ConstantsAssumption DEF TypeOK
<1>1. CASE AcqSend
  <2>1. CASE Len(block_queue) < QUEUE_DEPTH
    <3>1. /\ Append(block_queue, acqBlock) \in Seq(Descriptors)
          /\ Len(Append(block_queue, acqBlock)) = Len(block_queue) + 1
      BY AppendProperties DEF QueuesTypeOK, AcqTypeOK
    <3>. QED
      BY <1>1, <2>1, <3>1, LenProperties DEF AcqSend, QueuesTypeOK
  <2>2. CASE ~(Len(block_queue) < QUEUE_DEPTH)
    BY <1>1, <2>2 DEF AcqSend, QueuesTypeOK
  <2>. QED
    BY <2>1, <2>2
<1>2. CASE DspReceive
  BY <1>2 DEF DspReceive, QueuesTypeOK, AcqTypeOK, DspTypeOK
<1>3. CASE DspPublish
  BY <1>3 DEF DspPublish, Overwrite, QueuesTypeOK, AcqTypeOK, DspTypeOK
<1>4. CASE TelReceive
  BY <1>4 DEF TelReceive, QueuesTypeOK, AcqTypeOK, DspTypeOK
<1>5. CASE UNCHANGED queues
  BY <1>5 DEF queues, QueuesTypeOK, AcqTypeOK, DspTypeOK
<1>. QED
  BY <1>1, <1>2, <1>3, <1>4, <1>5
     DEF Next, Hardware, Acquisition, Dsp, Telemetry, vars, DmaWrites,
         DmaCompletesHalf, AdcError, AdcStops, PublishCompletedHalf, AcqTake,
         AcqTimeout, AcqLoadOverruns, AcqStoreOverruns, AcqReadHalf,
         AcqCheck, AcqInjectDrop, DspReject, DspFirstCheck, DspUnpack,
         DspSecondCheck, DspAnalyse, DspStatus, TelSent, TelFails,
         WatchdogSamples

\* Types of the shared status, the votes and the watchdog.
LEMMA StatusTypeOKStep ==
  ASSUME TypeOK, [Next]_vars
  PROVE  StatusTypeOK'
<1>. USE ConstantsAssumption DEF TypeOK, AddStatus, AddVote, votes, watchdog
<1>1. CASE AcqTimeout
  BY <1>1, StatusAdditions DEF AcqTimeout, StatusTypeOK
<1>2. CASE AcqCheck
  BY <1>2, StatusAdditions DEF AcqCheck, StatusTypeOK
<1>3. CASE AcqInjectDrop
  BY <1>3, StatusAdditions DEF AcqInjectDrop, StatusTypeOK, HEALTH_REQUIRED
<1>4. CASE AcqSend
  BY <1>4, StatusAdditions DEF AcqSend, StatusTypeOK, HEALTH_REQUIRED
<1>5. CASE DspReject
  BY <1>5, StatusAdditions DEF DspReject, StatusTypeOK, HEALTH_REQUIRED
<1>6. CASE DspPublish
  BY <1>6, StatusAdditions DEF DspPublish, StatusTypeOK, HEALTH_REQUIRED
<1>7. CASE TelSent
  BY <1>7, StatusAdditions DEF TelSent, StatusTypeOK, HEALTH_REQUIRED
<1>8. CASE TelFails
  BY <1>8, StatusAdditions DEF TelFails, StatusTypeOK
<1>9. CASE WatchdogSamples
  BY <1>9, StatusAdditions DEF WatchdogSamples, StatusTypeOK, HEALTH_REQUIRED
<1>10. CASE UNCHANGED <<sticky_status, votes>>
  BY <1>10, StatusAdditions DEF StatusTypeOK, HEALTH_REQUIRED
<1>. QED
  BY <1>1, <1>2, <1>3, <1>4, <1>5, <1>6, <1>7, <1>8, <1>9, <1>10
     DEF Next, Hardware, Acquisition, Dsp, Telemetry, vars, DmaWrites,
         DmaCompletesHalf, AdcError, AdcStops, PublishCompletedHalf, AcqTake,
         AcqLoadOverruns, AcqStoreOverruns, AcqReadHalf, DspReceive,
         DspFirstCheck, DspUnpack, DspSecondCheck, DspAnalyse, DspStatus,
         TelReceive

\* Every step preserves the types.
LEMMA TypeStep == TypeOK /\ [Next]_vars => TypeOK'
BY HardwareTypeOKStep, BoardTypeOKStep, AcqTypeOKStep, DspTypeOKStep,
   TelTypeOKStep, QueuesTypeOKStep, StatusTypeOKStep
   DEF TypeOK

-----------------------------------------------------------------------------
\* Only the DMA and its interrupt change what BufferInv is about.
LEMMA BufferFrame ==
  ASSUME [Next]_vars
  PROVE  \/ DmaWrites \/ DmaCompletesHalf \/ PublishCompletedHalf
         \/ UNCHANGED <<adc_dma_words, filling, pos, irq, completed_generation,
                        completed_half>>
BY DEF Next, Hardware, Acquisition, Dsp, Telemetry, vars, hardware, board,
    acqVars, dspVars, telVars, queues, AdcError, AdcStops, AcqTake,
    AcqTimeout, AcqLoadOverruns, AcqStoreOverruns, AcqReadHalf, AcqCheck,
    AcqInjectDrop, AcqSend, DspReceive, DspReject, DspFirstCheck, DspUnpack,
    DspSecondCheck, DspAnalyse, DspStatus, DspPublish, TelReceive, TelSent,
    TelFails, WatchdogSamples

\* Every step preserves what BufferInv says the two halves hold.
LEMMA BufferInvStep ==
  ASSUME TypeOK, BufferInv, [Next]_vars
  PROVE  BufferInv'
<1>. USE ConstantsAssumption DEF TypeOK, HardwareTypeOK, BoardTypeOK
<1>1. CASE DmaWrites
  <2>1. /\ Half(filling) \in {0, 1}
        /\ filling > 1 => Half(filling - 1) # Half(filling)
    BY HalfAlternates, HalfRange, filling > 1 => filling - 1 \in Nat \ {0}, SMTT(60)
  <2>2. \A i \in 0 .. FRAMES - 1 :
          adc_dma_words'[Half(filling)][i] =
            IF i = pos THEN filling ELSE adc_dma_words[Half(filling)][i]
    BY <1>1, <2>1 DEF DmaWrites
  <2>3. filling > 1 => adc_dma_words'[Half(filling - 1)]
                         = adc_dma_words[Half(filling - 1)]
    BY <1>1, <2>1, HalfRange DEF DmaWrites
  <2>4. UNCHANGED <<filling, irq, completed_generation, completed_half>>
        /\ pos' = pos + 1
    BY <1>1 DEF DmaWrites, board
  <2>5. /\ Half(filling)' = Half(filling)
        /\ Half(filling - 1)' = Half(filling - 1)
    BY <2>4 DEF Half
  <2>6. ASSUME NEW i \in 0 .. FRAMES - 1
        PROVE  /\ filling > 1
                    => adc_dma_words'[Half(filling - 1)][i] = filling - 1
               /\ i < pos' => adc_dma_words'[Half(filling)][i] = filling
               /\ i >= pos' /\ filling > 2
                    => adc_dma_words'[Half(filling)][i] = filling - 2
    <3>1. i < pos' => i = pos \/ i < pos
      BY <2>4
    <3>2. i >= pos' => i # pos /\ i >= pos
      BY <2>4
    <3>. QED
      BY <2>2, <2>3, <3>1, <3>2 DEF BufferInv
  <2>. QED
    BY <2>4, <2>5, <2>6 DEF BufferInv
<1>2. CASE DmaCompletesHalf
  <2>1. /\ Half(filling) \in {0, 1}
        /\ Half(filling + 1) \in {0, 1}
        /\ Half(filling + 1) # Half(filling)
        /\ filling > 1 => Half(filling + 1) = Half(filling - 1)
    BY HalfAlternates, filling > 1 => filling - 1 \in Nat \ {0}, SMTT(60)
  <2>2. \A i \in 0 .. FRAMES - 1 :
          adc_dma_words'[Half(filling)][i] =
            IF i = pos THEN filling ELSE adc_dma_words[Half(filling)][i]
    BY <1>2, <2>1 DEF DmaCompletesHalf
  <2>3. adc_dma_words'[Half(filling + 1)] = adc_dma_words[Half(filling + 1)]
    BY <1>2, <2>1 DEF DmaCompletesHalf
  <2>4. /\ UNCHANGED <<completed_generation, completed_half>>
        /\ filling' = filling + 1
        /\ pos = FRAMES - 1 /\ pos' = 0
        /\ ~irq /\ irq'
    BY <1>2 DEF DmaCompletesHalf, board
  <2>5. \A i \in 0 .. FRAMES - 1 : adc_dma_words'[Half(filling)][i] = filling
    BY <2>2, <2>4 DEF BufferInv
  <2>6. \A i \in 0 .. FRAMES - 1 :
          filling > 1 => adc_dma_words'[Half(filling + 1)][i] = filling - 1
    BY <2>1, <2>3 DEF BufferInv
  <2>. QED
    BY <2>4, <2>5, <2>6 DEF BufferInv
<1>3. CASE PublishCompletedHalf
  <2>1. /\ UNCHANGED <<adc_dma_words, filling, pos>>
        /\ completed_half' = Half(filling - 1)
        /\ completed_generation' = completed_generation + 1
        /\ irq /\ ~irq'
    BY <1>3 DEF PublishCompletedHalf
  <2>. QED
    BY <2>1 DEF BufferInv
<1>4. CASE UNCHANGED <<adc_dma_words, filling, pos, irq, completed_generation,
                       completed_half>>
  BY <1>4 DEF BufferInv
<1>. QED
  BY <1>1, <1>2, <1>3, <1>4, BufferFrame

-----------------------------------------------------------------------------
\* The published generation never goes back.
LEMMA GenerationGrows ==
  ASSUME TypeOK, [Next]_vars
  PROVE  completed_generation <= completed_generation'
<1>1. CASE PublishCompletedHalf
  BY <1>1 DEF PublishCompletedHalf, TypeOK, BoardTypeOK
<1>2. CASE ~PublishCompletedHalf
  <2>1. UNCHANGED completed_generation
    BY <1>2, BufferFrame DEF DmaWrites, DmaCompletesHalf, board
  <2>. QED
    BY <2>1 DEF TypeOK, BoardTypeOK
<1>. QED
  BY <1>1, <1>2

\* A descriptor once right stays right.
LEMMA DescribesStable ==
  ASSUME TypeOK, [Next]_vars, NEW block \in Descriptors, Describes(block)
  PROVE  Describes(block)'
BY GenerationGrows, BoardTypeOKStep
   DEF Describes, TypeOK, BoardTypeOK, Descriptors

\* Only these steps change what the acquisition task has in hand.
LEMMA AcquisitionFrame ==
  ASSUME [Next]_vars
  PROVE  \/ PublishCompletedHalf \/ AcqTake \/ AcqLoadOverruns
         \/ AcqStoreOverruns \/ AcqReadHalf \/ AcqCheck \/ AcqInjectDrop
         \/ AcqSend
         \/ UNCHANGED <<acqPc, acqBlock, notified>>
BY DEF Next, Hardware, Acquisition, Dsp, Telemetry, vars, hardware, board,
    acqVars, dspVars, telVars, queues, DmaWrites, DmaCompletesHalf, AdcError,
    AdcStops, AcqTimeout, DspReceive, DspReject, DspFirstCheck, DspUnpack,
    DspSecondCheck, DspAnalyse, DspStatus, DspPublish, TelReceive, TelSent,
    TelFails, WatchdogSamples

\* The block the acquisition task reads in its critical section is one that
\* has been completed, in the half it was written to.
LEMMA AcquisitionDescriptor ==
  ASSUME TypeOK, BufferInv, DescriptorInv, [Next]_vars
  PROVE  /\ acqPc' # "wait" \/ notified' > 0 => completed_generation' > 0
         /\ acqPc' \in {"check", "send"} => Describes(acqBlock)'
<1>. USE DEF TypeOK, AcqTypeOK, BoardTypeOK
<1>1. completed_generation <= completed_generation'
  BY GenerationGrows
<1>2. acqPc \in {"check", "send"} => Describes(acqBlock)
  BY DEF DescriptorInv
<1>3. completed_generation' \in Nat
  BY BoardTypeOKStep
<1>4. CASE PublishCompletedHalf
  BY <1>1, <1>2, <1>3, <1>4
     DEF PublishCompletedHalf, acqVars, Describes, Descriptors
<1>5. CASE AcqReadHalf
  <2>1. completed_generation > 0
    BY <1>5 DEF AcqReadHalf, DescriptorInv
  <2>2. /\ acqBlock' = [generation |-> completed_generation,
                        half |-> completed_half]
        /\ UNCHANGED completed_generation
    BY <1>5 DEF AcqReadHalf, board
  <2>. QED
    BY <2>1, <2>2 DEF Describes, BufferInv
<1>6. CASE AcqTake
  BY <1>6, <1>1, <1>3 DEF AcqTake, DescriptorInv
<1>7. CASE AcqLoadOverruns \/ AcqStoreOverruns
  BY <1>7, <1>1, <1>3 DEF AcqLoadOverruns, AcqStoreOverruns, DescriptorInv
<1>8. CASE AcqCheck \/ AcqInjectDrop \/ AcqSend
  BY <1>8, <1>1, <1>3, DescribesStable
     DEF AcqCheck, AcqInjectDrop, AcqSend, DescriptorInv, Describes, board
<1>9. CASE UNCHANGED <<acqPc, acqBlock, notified>>
  BY <1>9, <1>1, <1>2, <1>3 DEF DescriptorInv, Describes, Descriptors
<1>. QED
  BY <1>4, <1>5, <1>6, <1>7, <1>8, <1>9, AcquisitionFrame

\* Only AcqSend and DspReceive change block_queue.
LEMMA BlockQueueFrame ==
  ASSUME [Next]_vars
  PROVE  AcqSend \/ DspReceive \/ UNCHANGED block_queue
BY DEF Next, Hardware, Acquisition, Dsp, Telemetry, vars, hardware, board,
    acqVars, dspVars, telVars, queues, DmaWrites, DmaCompletesHalf, AdcError,
    AdcStops, PublishCompletedHalf, AcqTake, AcqTimeout, AcqLoadOverruns,
    AcqStoreOverruns, AcqReadHalf, AcqCheck, AcqInjectDrop, DspReject,
    DspFirstCheck, DspUnpack, DspSecondCheck, DspAnalyse, DspStatus,
    DspPublish, TelReceive, TelSent, TelFails, WatchdogSamples

\* Every queued descriptor is right.
LEMMA BlockQueueDescriptors ==
  ASSUME TypeOK, DescriptorInv, [Next]_vars
  PROVE  (\A i \in 1 .. Len(block_queue) : Describes(block_queue[i]))'
<1>1. block_queue \in Seq(Descriptors) /\ block_queue' \in Seq(Descriptors)
  BY QueuesTypeOKStep DEF TypeOK, QueuesTypeOK
<1>2. ASSUME NEW block \in Descriptors, Describes(block)
      PROVE  Describes(block)'
  BY <1>2, DescribesStable
<1>3. \A i \in 1 .. Len(block_queue) : /\ block_queue[i] \in Descriptors
                                       /\ Describes(block_queue[i])
  BY <1>1 DEF DescriptorInv
<1>4. SUFFICES ASSUME NEW i \in 1 .. Len(block_queue')
               PROVE  Describes(block_queue[i])'
  OBVIOUS
<1>5. CASE AcqSend
  <2>1. acqBlock \in Descriptors /\ Describes(acqBlock)
    BY <1>5 DEF AcqSend, DescriptorInv, TypeOK, AcqTypeOK
  <2>2. \/ block_queue' = Append(block_queue, acqBlock)
        \/ block_queue' = block_queue
    BY <1>5 DEF AcqSend
  <2>3. \/ block_queue'[i] = acqBlock
        \/ i \in 1 .. Len(block_queue) /\ block_queue'[i] = block_queue[i]
    BY <1>1, <2>1, <2>2, AppendProperties
  <2>4. block_queue'[i] \in Descriptors /\ Describes(block_queue'[i])
    BY <1>3, <2>1, <2>3
  <2>. QED
    BY <1>2, <2>4, GenerationGrows, BoardTypeOKStep
       DEF Describes, Descriptors, TypeOK, BoardTypeOK
<1>6. CASE DspReceive
  <2>1. block_queue # <<>> /\ block_queue' = Tail(block_queue)
    BY <1>6 DEF DspReceive
  <2>2. /\ i + 1 \in 1 .. Len(block_queue)
        /\ block_queue'[i] = block_queue[i + 1]
    BY <1>1, <2>1, HeadTailProperties
  <2>3. block_queue'[i] \in Descriptors /\ Describes(block_queue'[i])
    BY <1>3, <2>2
  <2>. QED
    BY <2>3, GenerationGrows, BoardTypeOKStep
       DEF Describes, Descriptors, TypeOK, BoardTypeOK
<1>7. CASE UNCHANGED block_queue
  <2>1. block_queue'[i] \in Descriptors /\ Describes(block_queue'[i])
    BY <1>3, <1>7
  <2>. QED
    BY <2>1, GenerationGrows, BoardTypeOKStep
       DEF Describes, Descriptors, TypeOK, BoardTypeOK
<1>. QED
  BY <1>5, <1>6, <1>7, BlockQueueFrame

\* Only the DSP task changes its locals.
LEMMA DspFrame ==
  ASSUME [Next]_vars
  PROVE  Dsp \/ UNCHANGED dspVars
BY DEF Next, Hardware, Acquisition, Telemetry, vars, hardware, board,
    acqVars, telVars, queues, DmaWrites, DmaCompletesHalf, AdcError,
    AdcStops, PublishCompletedHalf, AcqTake, AcqTimeout, AcqLoadOverruns,
    AcqStoreOverruns, AcqReadHalf, AcqCheck, AcqInjectDrop, AcqSend,
    TelReceive, TelSent, TelFails, WatchdogSamples

\* The descriptor the DSP task works on is right.
LEMMA DspBlockDescriptor ==
  ASSUME TypeOK, DescriptorInv, [Next]_vars
  PROVE  dspPc' # "receive" => Describes(dspBlock)'
<1>1. dspBlock \in Descriptors
  BY DEF TypeOK, DspTypeOK
<1>2. CASE DspReceive
  <2>1. /\ block_queue # <<>>
        /\ dspBlock' = Head(block_queue)
        /\ UNCHANGED completed_generation
    BY <1>2 DEF DspReceive, board
  <2>2. Describes(Head(block_queue))
    <3>1. /\ 1 \in 1 .. Len(block_queue)
          /\ Head(block_queue) = block_queue[1]
      BY <2>1, HeadTailProperties DEF TypeOK, QueuesTypeOK
    <3>. QED
      BY <3>1 DEF DescriptorInv
  <2>. QED
    BY <2>1, <2>2 DEF Describes
<1>3. CASE Dsp /\ ~DspReceive
  <2>1. dspPc # "receive" /\ UNCHANGED <<dspBlock, completed_generation>>
    BY <1>3
       DEF Dsp, DspReceive, DspReject, DspFirstCheck, DspUnpack,
           DspSecondCheck, DspAnalyse, DspStatus, DspPublish, board
  <2>. QED
    BY <2>1 DEF DescriptorInv, Describes
<1>4. CASE UNCHANGED dspVars
  <2>1. UNCHANGED <<dspPc, dspBlock>>
    BY <1>4 DEF dspVars
  <2>2. dspPc # "receive" => Describes(dspBlock)
    BY DEF DescriptorInv
  <2>. QED
    BY <1>1, <2>1, <2>2, GenerationGrows, BoardTypeOKStep
       DEF Describes, Descriptors, TypeOK, BoardTypeOK
<1>. QED
  BY <1>2, <1>3, <1>4, DspFrame

\* Every step preserves DescriptorInv.
LEMMA DescriptorInvStep ==
  ASSUME TypeOK, BufferInv, DescriptorInv, [Next]_vars
  PROVE  DescriptorInv'
BY AcquisitionDescriptor, BlockQueueDescriptors, DspBlockDescriptor
   DEF DescriptorInv

-----------------------------------------------------------------------------
\* As long as a task can run and its block is the last one completed, every
\* word of the half still belongs to that block: a pending interrupt means that
\* the DMA has entered the half but not written to it.
LEMMA WordOfCurrentBlock ==
  ASSUME TypeOK, BufferInv, DescriptorInv, TaskRuns, BlockIsCurrent,
         dspPc # "receive", NEW i \in 0 .. FRAMES - 1
  PROVE  adc_dma_words[dspBlock.half][i] = dspBlock.generation
<1>. USE DEF TypeOK, HardwareTypeOK, BoardTypeOK
<1>1. /\ dspBlock.generation = completed_generation
      /\ completed_generation > 0
      /\ dspBlock.half = Half(completed_generation)
  BY DEF BlockIsCurrent, DescriptorInv, Describes
<1>2. CASE ~irq
  BY <1>1, <1>2 DEF BufferInv
<1>3. CASE irq
  <2>1. /\ filling = completed_generation + 2
        /\ pos = 0
    BY <1>3 DEF BufferInv, TaskRuns
  <2>2. Half(filling) = Half(completed_generation)
    BY <1>1, <2>1, HalfAlternates
  <2>. QED
    BY <1>1, <2>1, <2>2 DEF BufferInv
<1>. QED
  BY <1>2, <1>3

\* Every step preserves CopyInv: the passes read the current block only, and
\* a block that is no longer current never becomes current again.
LEMMA CopyInvStep ==
  ASSUME TypeOK, BufferInv, DescriptorInv, CopyInv, [Next]_vars
  PROVE  CopyInv'
<1>. USE DEF CopyInv, TypeOK, DspTypeOK
<1>1. CASE DspReceive
  BY <1>1 DEF DspReceive
<1>2. CASE DspReject
  BY <1>2 DEF DspReject
<1>3. CASE DspFirstCheck
  BY <1>3 DEF DspFirstCheck, BlockIsCurrent
<1>4. CASE DspUnpack
  <2>1. WordRead \in 0 .. FRAMES - 1
    BY <1>4, ConstantsAssumption DEF DspUnpack, WordRead
  <2>2. BlockIsCurrent
          => adc_dma_words[dspBlock.half][WordRead] = dspBlock.generation
    BY <1>4, <2>1, WordOfCurrentBlock DEF DspUnpack, DspRuns
  <2>3. /\ channel_samples' = channel_samples
             \cup {adc_dma_words[dspBlock.half][WordRead]}
        /\ UNCHANGED <<dspBlock, dsp_result, completed_generation>>
        /\ dspPc = "unpack" /\ dspPc' \in {"unpack", "second"}
    BY <1>4 DEF DspUnpack, board
  <2>. QED
    BY <2>2, <2>3 DEF BlockIsCurrent
<1>5. CASE DspSecondCheck
  BY <1>5 DEF DspSecondCheck
<1>6. CASE DspAnalyse
  BY <1>6 DEF DspAnalyse, Results
<1>7. CASE DspStatus
  BY <1>7 DEF DspStatus, Results
<1>8. CASE DspPublish
  BY <1>8 DEF DspPublish
<1>9. CASE UNCHANGED dspVars
  <2>1. UNCHANGED <<dspPc, dspBlock, reads, channel_samples, dsp_result>>
    BY <1>9 DEF dspVars
  <2>2. dspPc # "receive" /\ BlockIsCurrent' => BlockIsCurrent
    BY <2>1, GenerationGrows
       DEF BlockIsCurrent, DescriptorInv, Describes, BoardTypeOK
  <2>. QED
    BY <2>1, <2>2
<1>. QED
  BY <1>1, <1>2, <1>3, <1>4, <1>5, <1>6, <1>7, <1>8, <1>9, DspFrame DEF Dsp

\* Only DspPublish and TelReceive move results.
LEMMA ResultFrame ==
  ASSUME [Next]_vars
  PROVE  \/ DspPublish \/ TelReceive
         \/ UNCHANGED <<result_queue, telemetry_result>>
            /\ (telPc' = "send" => telPc = "send")
BY DEF Next, Hardware, Acquisition, Dsp, Telemetry, vars, hardware, board,
    acqVars, dspVars, telVars, queues, DmaWrites, DmaCompletesHalf, AdcError,
    AdcStops, PublishCompletedHalf, AcqTake, AcqTimeout, AcqLoadOverruns,
    AcqStoreOverruns, AcqReadHalf, AcqCheck, AcqInjectDrop, AcqSend,
    DspReceive, DspReject, DspFirstCheck, DspUnpack, DspSecondCheck,
    DspAnalyse, DspStatus, TelSent, TelFails, WatchdogSamples

\* What the second generation check lets through is one whole block.
LEMMA DspWorkIntact ==
  ASSUME TypeOK, CopyInv, ResultsIntact, [Next]_vars
  PROVE  /\ dspPc' = "analyse" => channel_samples' = {dspBlock'.generation}
         /\ dspPc' \in {"status", "publish"} => Intact(dsp_result)'
<1>. USE DEF TypeOK, DspTypeOK, ResultsIntact, Intact
<1>1. CASE DspReceive
  BY <1>1 DEF DspReceive
<1>2. CASE DspReject
  BY <1>2 DEF DspReject
<1>3. CASE DspFirstCheck
  BY <1>3 DEF DspFirstCheck
<1>4. CASE DspUnpack
  BY <1>4 DEF DspUnpack
<1>5. CASE DspSecondCheck
  <2>1. /\ channel_samples # {}
        /\ channel_samples \subseteq {dspBlock.generation}
    BY <1>5 DEF DspSecondCheck, CopyInv
  <2>2. channel_samples = {dspBlock.generation}
    BY <2>1, ZenonT(60)
  <2>. QED
    BY <1>5, <2>2 DEF DspSecondCheck
<1>6. CASE DspAnalyse
  BY <1>6 DEF DspAnalyse, CopyInv, Results
<1>7. CASE DspStatus
  BY <1>7 DEF DspStatus, Results
<1>8. CASE DspPublish
  BY <1>8 DEF DspPublish
<1>9. CASE UNCHANGED dspVars
  BY <1>9 DEF dspVars
<1>. QED
  BY <1>1, <1>2, <1>3, <1>4, <1>5, <1>6, <1>7, <1>8, <1>9, DspFrame DEF Dsp

\* Every step preserves ResultsIntact.
LEMMA ResultsIntactStep ==
  ASSUME TypeOK, CopyInv, ResultsIntact, [Next]_vars
  PROVE  ResultsIntact'
<1>1. /\ \A i \in 1 .. Len(result_queue') : Intact(result_queue[i])'
      /\ telPc' = "send" => Intact(telemetry_result)'
  <2>1. CASE DspPublish
    <3>1. Intact(dsp_result)
      BY <2>1 DEF DspPublish, ResultsIntact
    <3>2. result_queue' = <<dsp_result>> /\ UNCHANGED telVars
      BY <2>1 DEF DspPublish, Overwrite
    <3>. QED
      BY <3>1, <3>2 DEF ResultsIntact, Intact, telVars
  <2>2. CASE TelReceive
    <3>1. /\ result_queue # <<>>
          /\ result_queue \in Seq(Results)
          /\ Len(result_queue) <= 1
          /\ telemetry_result' = Head(result_queue)
          /\ result_queue' = Tail(result_queue)
      BY <2>2 DEF TelReceive, TypeOK, QueuesTypeOK
    <3>2. /\ Head(result_queue) = result_queue[1]
          /\ Len(Tail(result_queue)) = Len(result_queue) - 1
          /\ Len(result_queue) \in Nat /\ Len(result_queue) # 0
      BY <3>1, EmptySeq, HeadTailProperties, LenProperties
    <3>3. /\ Len(result_queue) = 1
          /\ telemetry_result' = result_queue[1]
          /\ Len(result_queue') = 0
      BY <3>1, <3>2
    <3>. QED
      BY <3>3 DEF ResultsIntact, Intact
  <2>3. CASE UNCHANGED <<result_queue, telemetry_result>>
             /\ (telPc' = "send" => telPc = "send")
    BY <2>3 DEF ResultsIntact, Intact
  <2>. QED
    BY <2>1, <2>2, <2>3, ResultFrame
<1>. QED
  BY <1>1, DspWorkIntact DEF ResultsIntact

-----------------------------------------------------------------------------
\* Only these steps change the counters CountInv is about.
LEMMA CountFrame ==
  ASSUME [Next]_vars
  PROVE  \/ PublishCompletedHalf \/ AdcError \/ AcqTake \/ AcqLoadOverruns
         \/ AcqStoreOverruns \/ AcqReadHalf \/ AcqCheck \/ AcqInjectDrop
         \/ AcqSend
         \/ UNCHANGED <<board, acqVars, errors>>
BY DEF Next, Hardware, Acquisition, Dsp, Telemetry, vars, hardware, dspVars,
    telVars, queues, DmaWrites, DmaCompletesHalf, AdcStops, AcqTimeout,
    DspReceive, DspReject, DspFirstCheck, DspUnpack, DspSecondCheck,
    DspAnalyse, DspStatus, DspPublish, TelReceive, TelSent, TelFails,
    WatchdogSamples

\* Every step preserves CountInv; a lost update only lowers the counter.
LEMMA CountInvStep ==
  ASSUME TypeOK, CountInv, [Next]_vars
  PROVE  CountInv'
<1>. USE DEF TypeOK, HardwareTypeOK, BoardTypeOK, AcqTypeOK, CountInv
<1>1. CASE PublishCompletedHalf
  BY <1>1 DEF PublishCompletedHalf, acqVars
<1>2. CASE AdcError
  BY <1>2 DEF AdcError, acqVars
<1>3. CASE AcqTake
  BY <1>3 DEF AcqTake, Coalesced, hardware
<1>4. CASE AcqLoadOverruns
  BY <1>4 DEF AcqLoadOverruns, hardware, board
<1>5. CASE AcqStoreOverruns
  BY <1>5 DEF AcqStoreOverruns, Missed, hardware
<1>6. CASE AcqReadHalf
  BY <1>6 DEF AcqReadHalf, hardware, board
<1>7. CASE AcqCheck
  BY <1>7 DEF AcqCheck, hardware, board
<1>8. CASE AcqInjectDrop \/ AcqSend
  BY <1>8, SMTT(60) DEF AcqInjectDrop, AcqSend, hardware, board
<1>9. CASE UNCHANGED <<board, acqVars, errors>>
  BY <1>9 DEF board, acqVars
<1>. QED
  BY <1>1, <1>2, <1>3, <1>4, <1>5, <1>6, <1>7, <1>8, <1>9, CountFrame

\* Every step preserves OverrunRemembered: a store that overwrites an
\* increment writes at least one, because the addition is guarded.
LEMMA OverrunRememberedStep ==
  ASSUME TypeOK, OverrunRemembered, [Next]_vars
  PROVE  OverrunRemembered'
<1>. USE DEF TypeOK, HardwareTypeOK, BoardTypeOK, AcqTypeOK, OverrunRemembered
<1>1. CASE AdcError
  BY <1>1 DEF AdcError
<1>2. CASE AcqStoreOverruns
  BY <1>2 DEF AcqStoreOverruns, Missed
<1>3. CASE ~AdcError /\ ~AcqStoreOverruns
  <2>1. UNCHANGED <<errors, adc_overrun_count>>
    BY <1>3, CountFrame
       DEF PublishCompletedHalf, AcqTake, AcqLoadOverruns, AcqReadHalf,
           AcqCheck, AcqInjectDrop, AcqSend, hardware, board
  <2>. QED
    BY <2>1
<1>. QED
  BY <1>1, <1>2, <1>3

-----------------------------------------------------------------------------
\* The inductive invariant holds initially ...
LEMMA CoreInvInit == Init => CoreInv
<1>1. Init => TypeOK
  BY TypeInit
<1>2. Init => BufferInv /\ DescriptorInv /\ CopyInv
  BY DEF Init, BufferInv, DescriptorInv, CopyInv
<1>3. Init => ResultsIntact /\ CountInv /\ OverrunRemembered
  BY DEF Init, ResultsIntact, CountInv, OverrunRemembered
<1>. QED
  BY <1>1, <1>2, <1>3 DEF CoreInv

\* ... is preserved by every step ...
LEMMA CoreInvStep == CoreInv /\ [Next]_vars => CoreInv'
BY TypeStep, BufferInvStep, DescriptorInvStep, CopyInvStep,
   ResultsIntactStep, CountInvStep, OverrunRememberedStep
   DEF CoreInv

\* ... and so holds always.
LEMMA CoreInductive == Spec => []CoreInv
BY CoreInvInit, CoreInvStep, PTL DEF Spec

\* Every variable keeps its type and both queues stay within their storage,
\* for every size of the half and depth of the queue.
THEOREM TypeCorrect == Spec => []TypeOK
<1>1. CoreInv => TypeOK
  BY DEF CoreInv
<1>. QED
  BY <1>1, CoreInductive, PTL

\* Every result the DSP task lets out was computed from the one whole block
\* its generation names, however the DMA, the interrupts and the tasks
\* interleave (tasks.c:144-154).
THEOREM IntactResults == Spec => []ResultsIntact
<1>1. CoreInv => ResultsIntact
  BY DEF CoreInv
<1>. QED
  BY <1>1, CoreInductive, PTL

\* An error interrupt is never forgotten by the racing overrun counter
\* (board_skeleton.c:146 against 154).
THEOREM ErrorsRemembered == Spec => []OverrunRemembered
<1>1. CoreInv => OverrunRemembered
  BY DEF CoreInv
<1>. QED
  BY <1>1, CoreInductive, PTL

\* The overrun counter never reports a loss that did not happen
\* (board_skeleton.c:145-154).
THEOREM LossesNotInvented == Spec => []OverrunsNotInvented
<1>1. CoreInv => OverrunsNotInvented
  BY DEF CoreInv, CountInv, OverrunsNotInvented, TypeOK, BoardTypeOK,
      HardwareTypeOK, AcqTypeOK
<1>. QED
  BY <1>1, CoreInductive, PTL

-----------------------------------------------------------------------------
(***************************************************************************)
(* The order in which blocks pass through the pipeline, that no loss goes  *)
(* unreported, and that the pipeline implements Reports.  FlowInv is       *)
(* inductive relative to CoreInv.                                          *)
(***************************************************************************)

\* What xQueueSend makes of block_queue.
LEMMA BlockQueueAppend ==
  ASSUME QueuesTypeOK, NEW block \in Descriptors
  PROVE  /\ Len(Append(block_queue, block)) = Len(block_queue) + 1
         /\ \A i \in 1 .. Len(block_queue) + 1 :
              Append(block_queue, block)[i] =
                IF i = Len(block_queue) + 1 THEN block ELSE block_queue[i]
BY AppendProperties, LenProperties DEF QueuesTypeOK

\* What xQueueReceive makes of it, element by element.
LEMMA BlockQueueTail ==
  ASSUME QueuesTypeOK, block_queue # <<>>
  PROVE  /\ Len(block_queue) \in Nat \ {0}
         /\ Head(block_queue) = block_queue[1]
         /\ Len(Tail(block_queue)) = Len(block_queue) - 1
         /\ \A i \in 1 .. Len(block_queue) - 1 :
              Tail(block_queue)[i] = block_queue[i + 1]
BY HeadTailProperties, LenProperties, EmptySeq DEF QueuesTypeOK

\* The status bits only accumulate.
LEMMA StatusGrows ==
  ASSUME [Next]_vars
  PROVE  sticky_status \subseteq sticky_status'
BY DEF Next, Hardware, Acquisition, Dsp, Telemetry, vars, DmaWrites,
    DmaCompletesHalf, AdcError, AdcStops, PublishCompletedHalf, AcqTake,
    AcqTimeout, AcqLoadOverruns, AcqStoreOverruns, AcqReadHalf, AcqCheck,
    AcqInjectDrop, AcqSend, DspReceive, DspReject, DspFirstCheck, DspUnpack,
    DspSecondCheck, DspAnalyse, DspStatus, DspPublish, TelReceive, TelSent,
    TelFails, WatchdogSamples, AddStatus

\* The telemetry task takes the newest result out of the mailbox; only the DSP
\* task replaces it.
LEMMA TakeKeepsLatest ==
  ASSUME TypeOK, TelReceive
  PROVE  /\ telemetry_result' = Latest
         /\ result_queue' = <<>>
         /\ Latest' = Latest
<1>1. /\ result_queue # <<>>
      /\ result_queue \in Seq(Results)
      /\ Len(result_queue) <= 1
      /\ telemetry_result' = Head(result_queue)
      /\ result_queue' = Tail(result_queue)
  BY DEF TelReceive, TypeOK, QueuesTypeOK
<1>2. /\ Head(result_queue) = result_queue[1]
      /\ Len(result_queue) = 1
      /\ Tail(result_queue) \in Seq(Results)
      /\ Len(Tail(result_queue)) = Len(result_queue) - 1
  BY <1>1, EmptySeq, HeadTailProperties, LenProperties
<1>3. Tail(result_queue) = <<>>
  <2>1. ASSUME NEW rest \in Seq(Results), Len(rest) = 0
        PROVE  rest = <<>>
    BY <2>1, EmptySeq
  <2>2. Len(Tail(result_queue)) = 0
    BY <1>2
  <2>. QED
    BY <1>2, <2>1, <2>2, Zenon
<1>. QED
  BY <1>1, <1>2, <1>3 DEF Latest

\* A step that leaves the blocks in hand, the mailbox and the order monitor
\* alone.
Quiet ==
  /\ UNCHANGED <<monitor, block_queue, dspBlock>>
  /\ Latest' = Latest
  /\ \/ UNCHANGED <<acqPc, acqBlock>>
     \/ acqPc \notin {"check", "send"} /\ acqPc' \notin {"check", "send"}
  /\ \/ UNCHANGED dspPc
     \/ DspBusy /\ DspBusy'
  /\ dspPc' = "publish" => UNCHANGED <<dspPc, dsp_result>>

\* Every other step is one of these eight.
LEMMA FlowFrame ==
  ASSUME TypeOK, [Next]_vars
  PROVE  \/ AcqReadHalf \/ AcqCheck \/ AcqInjectDrop \/ AcqSend
         \/ DspReceive \/ DspReject \/ DspStatus \/ DspPublish \/ Quiet
<1>1. CASE Hardware \/ PublishCompletedHalf \/ WatchdogSamples
  BY <1>1
     DEF Hardware, DmaWrites, DmaCompletesHalf, AdcError, AdcStops,
         PublishCompletedHalf, WatchdogSamples, Quiet, acqVars, dspVars,
         telVars, queues, Latest
<1>2. CASE AcqTake \/ AcqTimeout \/ AcqLoadOverruns \/ AcqStoreOverruns
  BY <1>2
     DEF AcqTake, AcqTimeout, AcqLoadOverruns, AcqStoreOverruns, Quiet,
         acqVars, dspVars, telVars, queues, Latest
<1>3. CASE DspFirstCheck \/ DspUnpack \/ DspSecondCheck \/ DspAnalyse
  BY <1>3
     DEF DspFirstCheck, DspUnpack, DspSecondCheck, DspAnalyse, Quiet,
         DspBusy, acqVars, telVars, queues, Latest
<1>4. CASE TelReceive
  BY <1>4, TakeKeepsLatest DEF TelReceive, Quiet, acqVars, dspVars
<1>5. CASE TelSent \/ TelFails
  BY <1>5
     DEF TelSent, TelFails, Quiet, acqVars, dspVars, queues, Latest
<1>6. CASE UNCHANGED vars
  BY <1>6 DEF vars, Quiet, acqVars, dspVars, telVars, queues, Latest
<1>. QED
  BY <1>1, <1>2, <1>3, <1>4, <1>5, <1>6
     DEF Next, Acquisition, Dsp, Telemetry

\* What a quiet step leaves of the notions the flow invariants are made of.
LEMMA QuietFlow ==
  ASSUME TypeOK, [Next]_vars, Quiet
  PROVE  /\ DspBusy' = DspBusy
         /\ dspPc = "receive" => dspPc' = "receive"
         /\ acqPc' = "send" <=> acqPc = "send"
         /\ acqPc' = "check" <=> acqPc = "check"
         /\ acqPc' \in {"check", "send"} => UNCHANGED acqBlock
BY DEF Quiet, DspBusy

\* Generations handed on stay so, as the status bits only accumulate.
LEMMA HandedOnStable ==
  ASSUME UNCHANGED monitor, acqPc' = "send" => acqPc = "send",
         sticky_status \subseteq sticky_status', NEW a, HandedOn(a)
  PROVE  HandedOn(a)'
BY DEF HandedOn

LEMMA BeforeStable ==
  ASSUME sticky_status \subseteq sticky_status', NEW a, NEW b, Before(a, b)
  PROVE  Before(a, b)'
BY DEF Before

-----------------------------------------------------------------------------
\* Every step preserves VoteInv: a refresh uses up the telemetry task's vote,
\* the vote a result, and the result a processed block.
LEMMA VoteInvStep ==
  ASSUME TypeOK, VoteInv, [Next]_vars
  PROVE  VoteInv'
<1>. USE DEF VoteInv, TypeOK, DspTypeOK, StatusTypeOK, TelTypeOK
<1>1. CASE DspPublish
  <2>1. /\ Len(result_queue) \in Nat
        /\ Len(result_queue') = 1
    BY <1>1, LenProperties DEF DspPublish, Overwrite, QueuesTypeOK
  <2>2. "TELEMETRY" \in health_mask' <=> "TELEMETRY" \in health_mask
    BY <1>1 DEF DspPublish, AddVote
  <2>3. UNCHANGED <<refreshes, telPc>> /\ blocks_processed' = blocks_processed + 1
    BY <1>1 DEF DspPublish, watchdog, telVars
  <2>. QED
    BY <2>1, <2>2, <2>3
<1>2. CASE TelReceive
  <2>1. /\ result_queue # <<>>
        /\ result_queue' = Tail(result_queue)
        /\ telPc = "delay" /\ telPc' = "send"
        /\ UNCHANGED <<refreshes, health_mask, blocks_processed>>
    BY <1>2 DEF TelReceive, votes, watchdog, dspVars
  <2>2. /\ Len(result_queue) \in Nat
        /\ Len(result_queue') = Len(result_queue) - 1
    BY <2>1, HeadTailProperties, LenProperties DEF QueuesTypeOK
  <2>. QED
    BY <2>1, <2>2
<1>3. CASE TelSent
  <2>1. /\ telPc = "send" /\ telPc' = "delay"
        /\ UNCHANGED <<refreshes, result_queue, blocks_processed>>
    BY <1>3 DEF TelSent, watchdog, dspVars, queues
  <2>2. Len(result_queue) \in Nat
    BY LenProperties DEF QueuesTypeOK
  <2>. QED
    BY <2>1, <2>2
<1>4. CASE TelFails
  <2>1. /\ telPc = "send" /\ telPc' = "delay"
        /\ UNCHANGED <<refreshes, result_queue, blocks_processed, health_mask>>
    BY <1>4 DEF TelFails, votes, watchdog, dspVars, queues
  <2>2. Len(result_queue) \in Nat
    BY LenProperties DEF QueuesTypeOK
  <2>. QED
    BY <2>1, <2>2
<1>5. CASE WatchdogSamples
  <2>1. /\ health_mask' = {}
        /\ UNCHANGED <<result_queue, telPc, blocks_processed>>
        /\ \/ refreshes' = refreshes
           \/ refreshes' = refreshes + 1 /\ "TELEMETRY" \in health_mask
    BY <1>5
       DEF WatchdogSamples, HEALTH_REQUIRED, queues, telVars, dspVars
  <2>2. Len(result_queue) \in Nat
    BY LenProperties DEF QueuesTypeOK
  <2>. QED
    BY <2>1, <2>2
<1>6. CASE AcqInjectDrop \/ AcqSend \/ DspReject
  <2>1. UNCHANGED <<refreshes, result_queue, telPc, blocks_processed>>
    BY <1>6
       DEF AcqInjectDrop, AcqSend, DspReject, watchdog, queues, telVars,
           dspVars
  <2>2. "TELEMETRY" \in health_mask' <=> "TELEMETRY" \in health_mask
    BY <1>6 DEF AcqInjectDrop, AcqSend, DspReject, AddVote
  <2>. QED
    BY <2>1, <2>2
<1>7. CASE UNCHANGED <<votes, result_queue, telPc, blocks_processed>>
  BY <1>7 DEF votes, watchdog
<1>. QED
  BY <1>1, <1>2, <1>3, <1>4, <1>5, <1>6, <1>7
     DEF Next, Hardware, Acquisition, Dsp, Telemetry, vars, queues, telVars,
         dspVars, DmaWrites, DmaCompletesHalf, AdcError, AdcStops,
         PublishCompletedHalf, AcqTake, AcqTimeout, AcqLoadOverruns,
         AcqStoreOverruns, AcqReadHalf, AcqCheck, DspReceive, DspFirstCheck,
         DspUnpack, DspSecondCheck, DspAnalyse, DspStatus

-----------------------------------------------------------------------------
\* Generations are numbers, wherever they are.
LEMMA Generations ==
  ASSUME TypeOK
  PROVE  /\ completed_generation \in Nat
         /\ monitor.last_generation \in Nat /\ monitor.initialized \in BOOLEAN
         /\ acqBlock.generation \in Nat
         /\ dspBlock.generation \in Nat /\ dsp_result.generation \in Nat
         /\ Latest \in Results /\ Latest.generation \in Nat
         /\ Len(block_queue) \in Nat
         /\ \A i \in 1 .. Len(block_queue) : block_queue[i].generation \in Nat
<1>1. Latest \in Results
  <2>1. CASE result_queue # <<>>
    <3>1. result_queue \in Seq(Results) /\ 1 \in 1 .. Len(result_queue)
      BY <2>1, EmptySeq DEF TypeOK, QueuesTypeOK
    <3>2. result_queue[1] \in Results
      BY <3>1
    <3>. QED
      BY <2>1, <3>2 DEF Latest
  <2>2. CASE result_queue = <<>>
    BY <2>2 DEF Latest, TypeOK, TelTypeOK
  <2>. QED
    BY <2>1, <2>2
<1>2. Latest.generation \in Nat
  BY <1>1 DEF Results
<1>3. /\ Len(block_queue) \in Nat
      /\ \A i \in 1 .. Len(block_queue) : block_queue[i] \in Descriptors
  BY LenProperties DEF TypeOK, QueuesTypeOK
<1>. QED
  BY <1>1, <1>2, <1>3
     DEF TypeOK, BoardTypeOK, AcqTypeOK, DspTypeOK, Descriptors, Results

\* The order is kept by the steps that move no block.
LEMMA OrderInvQuiet ==
  ASSUME TypeOK, OrderInv, [Next]_vars, Quiet
  PROVE  OrderInv'
<1>1. /\ UNCHANGED <<monitor, block_queue, dspBlock>>
      /\ Latest' = Latest
  BY DEF Quiet
<1>2. /\ DspBusy' = DspBusy
      /\ dspPc = "receive" => dspPc' = "receive"
      /\ acqPc' = "send" <=> acqPc = "send"
      /\ acqPc' = "check" <=> acqPc = "check"
      /\ acqPc' \in {"check", "send"} => UNCHANGED acqBlock
  BY QuietFlow
<1>3. sticky_status \subseteq sticky_status'
  BY StatusGrows
<1>4. monitor.last_generation <= completed_generation'
  BY Generations, GenerationGrows, BoardTypeOKStep DEF OrderInv, BoardTypeOK
<1>. QED
  BY <1>1, <1>2, <1>3, <1>4 DEF OrderInv, HandedOn, Before

\* Reading the half: the acquisition task takes the last block completed.
LEMMA OrderInvReadHalf ==
  ASSUME TypeOK, OrderInv, AcqReadHalf
  PROVE  OrderInv'
<1>1. /\ UNCHANGED <<monitor, block_queue, dspBlock, dspPc, Latest,
                     sticky_status, completed_generation>>
      /\ DspBusy' = DspBusy
      /\ acqPc = "read" /\ acqPc' = "check"
      /\ acqBlock'.generation = completed_generation
  BY DEF AcqReadHalf, board, dspVars, telVars, queues, Latest, DspBusy
<1>. QED
  BY <1>1 DEF OrderInv, HandedOn, Before

\* The health check: a block handed on before is older, or the check notices
\* the repetition.
LEMMA OrderInvCheck ==
  ASSUME TypeOK, DescriptorInv, OrderInv, [Next]_vars, AcqCheck
  PROVE  OrderInv'
<1>1. /\ UNCHANGED <<block_queue, dspBlock, dspPc, Latest, acqBlock,
                     completed_generation>>
      /\ DspBusy' = DspBusy
      /\ acqPc = "check" /\ acqPc' = "send"
      /\ monitor'.initialized
      /\ monitor'.last_generation = acqBlock.generation
  BY DEF AcqCheck, board, dspVars, telVars, queues, Latest, DspBusy
<1>2. sticky_status \subseteq sticky_status'
  BY StatusGrows
<1>3. /\ monitor.last_generation <= acqBlock.generation
      /\ acqBlock.generation \in 1 .. completed_generation
  BY <1>1 DEF OrderInv, DescriptorInv, Describes
<1>4. acqBlock.generation = monitor.last_generation
        => "BLOCK_GAP" \in sticky_status'
  BY <1>1, <1>3, Generations
     DEF AcqCheck, AddStatus, HealthStatus, OrderInv
<1>5. ASSUME NEW a \in Nat, HandedOn(a)
      PROVE  HandedOn(a)'
  BY <1>1, <1>3, <1>4, <1>5, Generations DEF HandedOn
<1>6. ASSUME NEW a, NEW b, Before(a, b)
      PROVE  Before(a, b)'
  BY <1>2, <1>6 DEF Before
<1>7. /\ HandedOn(Latest.generation)'
      /\ DspBusy => /\ HandedOn(dspBlock.generation)'
                    /\ Before(Latest.generation, dspBlock.generation)'
  BY <1>1, <1>5, <1>6, Generations DEF OrderInv
<1>. QED
  BY <1>1, <1>3, <1>5, <1>6, <1>7, Generations DEF OrderInv

\* Sending the block, or dropping it: the queue stays in order.
LEMMA OrderInvSend ==
  ASSUME TypeOK, DescriptorInv, OrderInv, [Next]_vars, AcqSend \/ AcqInjectDrop
  PROVE  OrderInv'
<1>1. /\ UNCHANGED <<monitor, dspBlock, dspPc, Latest, acqBlock,
                     completed_generation>>
      /\ DspBusy' = DspBusy
      /\ acqPc = "send" /\ acqPc' = "wait"
  BY DEF AcqSend, AcqInjectDrop, board, dspVars, telVars, queues, Latest,
      DspBusy
<1>2. sticky_status \subseteq sticky_status'
  BY StatusGrows
<1>3. /\ monitor.last_generation = acqBlock.generation
      /\ monitor.initialized
  BY <1>1 DEF OrderInv
<1>4. ASSUME NEW a, HandedOn(a)
      PROVE  HandedOn(a)'
  BY <1>1, <1>4 DEF HandedOn
<1>5. ASSUME NEW a, NEW b, Before(a, b)
      PROVE  Before(a, b)'
  BY <1>2, <1>5 DEF Before
<1>6. ASSUME NEW a, HandedOn(a)
      PROVE  Before(a, acqBlock.generation)'
  BY <1>1, <1>2, <1>3, <1>6 DEF HandedOn, Before
<1>7. HandedOn(acqBlock.generation)'
  BY <1>1, <1>3, Generations DEF HandedOn
<1>8. CASE UNCHANGED block_queue
  BY <1>1, <1>4, <1>5, <1>3, <1>8 DEF OrderInv
<1>9. CASE block_queue' = Append(block_queue, acqBlock)
  <2>1. /\ Len(block_queue') = Len(block_queue) + 1
        /\ \A i \in 1 .. Len(block_queue') :
             block_queue'[i] = IF i = Len(block_queue) + 1 THEN acqBlock
                                                         ELSE block_queue[i]
    BY <1>9, BlockQueueAppend DEF TypeOK, AcqTypeOK
  <2>2. ASSUME NEW i \in 1 .. Len(block_queue')
        PROVE  /\ HandedOn(block_queue[i].generation)'
               /\ \A j \in 1 .. i - 1 :
                    Before(block_queue[j].generation,
                           block_queue[i].generation)'
               /\ DspBusy => Before(dspBlock.generation,
                                    block_queue[i].generation)'
               /\ Before(Latest.generation, block_queue[i].generation)'
    <3>1. CASE i = Len(block_queue) + 1
      <4>1. block_queue'[i] = acqBlock
        BY <2>1, <3>1
      <4>2. \A j \in 1 .. i - 1 :
              /\ block_queue'[j] = block_queue[j]
              /\ HandedOn(block_queue[j].generation)
        BY <2>1, <3>1, Generations DEF OrderInv
      <4>3. \A j \in 1 .. i - 1 :
              Before(block_queue[j].generation, block_queue[i].generation)'
        BY <1>1, <1>6, <4>1, <4>2
      <4>. QED
        BY <1>1, <1>6, <1>7, <4>1, <4>3 DEF OrderInv
    <3>2. CASE i \in 1 .. Len(block_queue)
      <4>1. /\ block_queue'[i] = block_queue[i]
            /\ \A j \in 1 .. i - 1 : block_queue'[j] = block_queue[j]
        BY <2>1, <3>2, Generations
      <4>2. \A j \in 1 .. i - 1 :
              Before(block_queue[j].generation, block_queue[i].generation)'
        BY <1>5, <3>2, <4>1 DEF OrderInv
      <4>. QED
        BY <1>1, <1>4, <1>5, <3>2, <4>1, <4>2 DEF OrderInv
    <3>. QED
      BY <2>1, <3>1, <3>2, Generations
  <2>. QED
    BY <1>1, <1>3, <1>4, <1>5, <2>2 DEF OrderInv
<1>. QED
  BY <1>8, <1>9 DEF AcqSend, AcqInjectDrop, queues

\* The DSP task takes the oldest block.
LEMMA OrderInvReceive ==
  ASSUME TypeOK, OrderInv, DspReceive
  PROVE  OrderInv'
<1>1. /\ UNCHANGED <<monitor, acqPc, acqBlock, Latest, sticky_status,
                     completed_generation>>
      /\ block_queue # <<>>
      /\ ~DspBusy /\ DspBusy'
      /\ block_queue' = Tail(block_queue)
      /\ dspBlock' = Head(block_queue)
  BY DEF DspReceive, board, acqVars, telVars, queues, Latest, DspBusy
<1>2. /\ Len(block_queue) \in Nat \ {0}
      /\ dspBlock' = block_queue[1]
      /\ Len(block_queue') = Len(block_queue) - 1
      /\ \A i \in 1 .. Len(block_queue') :
           /\ block_queue'[i] = block_queue[i + 1]
           /\ i + 1 \in 1 .. Len(block_queue)
           /\ 1 \in 1 .. (i + 1) - 1
  BY <1>1, BlockQueueTail DEF TypeOK
<1>3. ASSUME NEW i \in 1 .. Len(block_queue'), NEW j \in 1 .. i - 1
      PROVE  /\ block_queue'[j] = block_queue[j + 1]
             /\ j + 1 \in 1 .. (i + 1) - 1
  BY <1>2
<1>4. /\ HandedOn(Latest.generation)'
      /\ HandedOn(dspBlock.generation)'
      /\ Before(Latest.generation, dspBlock.generation)'
  BY <1>1, <1>2 DEF OrderInv, HandedOn, Before
<1>5. ASSUME NEW i \in 1 .. Len(block_queue')
      PROVE  /\ HandedOn(block_queue[i].generation)'
             /\ Before(dspBlock.generation, block_queue[i].generation)'
             /\ Before(Latest.generation, block_queue[i].generation)'
  BY <1>1, <1>2 DEF OrderInv, HandedOn, Before
<1>6. ASSUME NEW i \in 1 .. Len(block_queue'), NEW j \in 1 .. i - 1
      PROVE  Before(block_queue[j].generation, block_queue[i].generation)'
  BY <1>1, <1>2, <1>3 DEF OrderInv, Before
<1>7. monitor'.initialized
  BY <1>1 DEF OrderInv
<1>. QED
  BY <1>1, <1>4, <1>5, <1>6, <1>7 DEF OrderInv

\* A rejected block leaves the pipeline.
LEMMA OrderInvReject ==
  ASSUME TypeOK, OrderInv, [Next]_vars, DspReject
  PROVE  OrderInv'
<1>1. /\ UNCHANGED <<monitor, acqPc, acqBlock, block_queue, Latest,
                     completed_generation>>
      /\ DspBusy /\ ~DspBusy' /\ dspPc' = "receive"
  BY DEF DspReject, board, acqVars, telVars, queues, Latest, DspBusy
<1>2. sticky_status \subseteq sticky_status'
  BY StatusGrows
<1>. QED
  BY <1>1, <1>2 DEF OrderInv, HandedOn, Before

\* Setting the status moves no block.
LEMMA OrderInvStatus ==
  ASSUME TypeOK, OrderInv, DspStatus
  PROVE  OrderInv'
<1>1. /\ UNCHANGED <<monitor, acqPc, acqBlock, block_queue, dspBlock, Latest,
                     sticky_status, completed_generation>>
      /\ DspBusy /\ DspBusy'
  BY DEF DspStatus, board, acqVars, telVars, queues, Latest, DspBusy
<1>2. monitor.initialized
  BY <1>1 DEF OrderInv, DspBusy
<1>. QED
  BY <1>1, <1>2 DEF OrderInv, HandedOn, Before

\* What a published result makes of the mailbox.
LEMMA PublishedIsLatest ==
  ASSUME TypeOK, DspPublish
  PROVE  Latest' = dsp_result
BY DEF DspPublish, Overwrite, Latest

\* A published result is older than every block behind it.
LEMMA OrderInvPublish ==
  ASSUME TypeOK, CopyInv, OrderInv, [Next]_vars, DspPublish
  PROVE  OrderInv'
<1>1. /\ UNCHANGED <<monitor, acqPc, acqBlock, block_queue,
                     completed_generation>>
      /\ DspBusy /\ ~DspBusy'
      /\ Latest' = dsp_result
  BY PublishedIsLatest DEF DspPublish, board, acqVars, DspBusy
<1>2. sticky_status \subseteq sticky_status'
  BY StatusGrows
<1>3. dsp_result.generation = dspBlock.generation
  BY <1>1 DEF CopyInv, DspBusy
<1>4. monitor.initialized
  BY <1>1 DEF OrderInv, DspBusy
<1>. QED
  BY <1>1, <1>2, <1>3, <1>4 DEF OrderInv, HandedOn, Before

\* Every step keeps the blocks in order.
LEMMA OrderInvStep ==
  ASSUME TypeOK, DescriptorInv, CopyInv, OrderInv, [Next]_vars
  PROVE  OrderInv'
BY FlowFrame, OrderInvQuiet, OrderInvReadHalf, OrderInvCheck, OrderInvSend,
   OrderInvReceive, OrderInvReject, OrderInvStatus, OrderInvPublish

-----------------------------------------------------------------------------
\* A loss once noted stays noted.
LEMMA LossNotedStable ==
  ASSUME [Next]_vars, LossNoted
  PROVE  LossNoted'
BY StatusGrows DEF LossNoted

\* As long as none is noted the steps that move no block lose none, nor does
\* the reading of the half.
LEMMA NoneMissingQuiet ==
  ASSUME TypeOK, NoneMissing, [Next]_vars, Quiet \/ AcqReadHalf \/ DspStatus
  PROVE  NoneMissing'
<1>1. /\ UNCHANGED <<monitor, block_queue, dspBlock>>
      /\ Latest' = Latest
      /\ DspBusy' = DspBusy
      /\ acqPc' = "send" <=> acqPc = "send"
  BY QuietFlow
     DEF Quiet, AcqReadHalf, DspStatus, acqVars, dspVars, telVars, queues,
         Latest, DspBusy
<1>. QED
  BY <1>1 DEF NoneMissing, Queued

\* A check that finds no gap has the successor of the block before in hand, or
\* the first block of all.
LEMMA NoneMissingCheck ==
  ASSUME TypeOK, OrderInv, NoneMissing, [Next]_vars, AcqCheck, ~LossNoted'
  PROVE  NoneMissing'
<1>1. /\ UNCHANGED <<block_queue, dspBlock, dspPc, Latest>>
      /\ DspBusy' = DspBusy
      /\ acqPc = "check" /\ acqPc' = "send"
      /\ monitor'.last_generation = acqBlock.generation
  BY DEF AcqCheck, dspVars, telVars, queues, Latest, DspBusy
<1>2. CASE monitor.initialized
  <2>1. acqBlock.generation = monitor.last_generation + 1
    BY <1>2 DEF AcqCheck, AddStatus, HealthStatus, LossNoted
  <2>2. monitor'.last_generation - Queued' = monitor.last_generation - Queued
    BY <1>1, <2>1, Generations DEF Queued
  <2>. QED
    BY <1>1, <2>2 DEF NoneMissing
<1>3. CASE ~monitor.initialized
  <2>1. /\ block_queue = <<>> /\ Len(block_queue) = 0
        /\ ~DspBusy /\ Latest.generation = 0
    BY <1>3, EmptySeq DEF OrderInv, DspBusy
  <2>. QED
    BY <1>1, <2>1 DEF NoneMissing
<1>. QED
  BY <1>2, <1>3

\* A block that is sent without a drop lines up behind the others.
LEMMA NoneMissingSend ==
  ASSUME TypeOK, OrderInv, NoneMissing, AcqSend, ~LossNoted'
  PROVE  NoneMissing'
<1>1. /\ UNCHANGED <<monitor, dspBlock, dspPc, Latest>>
      /\ DspBusy' = DspBusy
      /\ acqPc = "send" /\ acqPc' = "wait"
      /\ monitor.last_generation = acqBlock.generation
  BY DEF AcqSend, dspVars, telVars, Latest, DspBusy, OrderInv
<1>2. block_queue' = Append(block_queue, acqBlock)
  BY DEF AcqSend, AddStatus, LossNoted
<1>3. /\ Len(block_queue') = Len(block_queue) + 1
      /\ \A i \in 1 .. Len(block_queue') :
           block_queue'[i] = IF i = Len(block_queue) + 1 THEN acqBlock
                                                       ELSE block_queue[i]
  BY <1>2, BlockQueueAppend DEF TypeOK, AcqTypeOK
<1>4. Queued' = Queued /\ Queued = Len(block_queue) + 1
  BY <1>1, <1>3, Generations DEF Queued
<1>5. ASSUME NEW i \in 1 .. Len(block_queue')
      PROVE  block_queue'[i].generation = monitor.last_generation - Queued + i
  <2>1. CASE i = Len(block_queue) + 1
    BY <1>1, <1>3, <1>4, <2>1, Generations
  <2>2. CASE i \in 1 .. Len(block_queue)
    <3>1. block_queue'[i] = block_queue[i]
      BY <1>3, <2>2, Generations
    <3>2. block_queue[i].generation = monitor.last_generation - Queued + i
      BY <2>2 DEF NoneMissing
    <3>. QED
      BY <3>1, <3>2
  <2>. QED
    BY <1>3, <2>1, <2>2, Generations
<1>. QED
  BY <1>1, <1>4, <1>5 DEF NoneMissing

\* The block received is the successor of the last result.
LEMMA NoneMissingReceive ==
  ASSUME TypeOK, NoneMissing, DspReceive
  PROVE  NoneMissing'
<1>1. /\ UNCHANGED <<monitor, acqPc, Latest>>
      /\ block_queue # <<>>
      /\ ~DspBusy /\ DspBusy'
      /\ block_queue' = Tail(block_queue)
      /\ dspBlock' = Head(block_queue)
  BY DEF DspReceive, acqVars, telVars, Latest, DspBusy
<1>2. /\ Len(block_queue) \in Nat \ {0}
      /\ dspBlock' = block_queue[1]
      /\ Len(block_queue') = Len(block_queue) - 1
      /\ \A i \in 1 .. Len(block_queue') :
           /\ block_queue'[i] = block_queue[i + 1]
           /\ i + 1 \in 1 .. Len(block_queue)
  BY <1>1, BlockQueueTail DEF TypeOK
<1>3. Queued \in Int /\ Queued' = Queued - 1
  BY <1>1, <1>2 DEF Queued
<1>4. ASSUME NEW i \in 1 .. Len(block_queue')
      PROVE  block_queue'[i].generation = monitor.last_generation - Queued' + i
  <2>1. /\ i + 1 \in 1 .. Len(block_queue)
        /\ block_queue'[i] = block_queue[i + 1]
    BY <1>2
  <2>2. block_queue[i + 1].generation
          = monitor.last_generation - Queued + (i + 1)
    BY <2>1 DEF NoneMissing
  <2>3. /\ i \in Int /\ Queued \in Int /\ Queued' = Queued - 1
        /\ monitor'.last_generation \in Int
        /\ monitor'.last_generation = monitor.last_generation
    BY <1>1, <1>3, Generations
  <2>4. block_queue'[i].generation
          = monitor.last_generation - Queued + (i + 1)
    BY <2>1, <2>2
  <2>. QED
    BY <2>3, <2>4
<1>5. dspBlock'.generation = monitor.last_generation - Queued'
  <2>1. block_queue[1].generation = monitor.last_generation - Queued + 1
    BY <1>2 DEF NoneMissing
  <2>2. monitor.last_generation \in Int
    BY Generations
  <2>. QED
    BY <1>2, <1>3, <2>1, <2>2
<1>6. \/ Latest.generation = 0
      \/ Latest.generation = monitor.last_generation - Queued' - 1
  <2>1. \/ Latest.generation = 0
        \/ Latest.generation = monitor.last_generation - Queued - 0
    BY <1>1 DEF NoneMissing
  <2>2. monitor.last_generation \in Int
    BY Generations
  <2>. QED
    BY <1>3, <2>1, <2>2
<1>. QED
  BY <1>1, <1>4, <1>5, <1>6 DEF NoneMissing

\* Publishing hands the block on to the mailbox.
LEMMA NoneMissingPublish ==
  ASSUME TypeOK, CopyInv, NoneMissing, DspPublish
  PROVE  NoneMissing'
<1>1. /\ UNCHANGED <<monitor, acqPc, block_queue>>
      /\ DspBusy /\ ~DspBusy'
      /\ Latest' = dsp_result
      /\ dsp_result.generation = dspBlock.generation
  BY PublishedIsLatest DEF DspPublish, acqVars, DspBusy, CopyInv
<1>2. Queued' = Queued /\ Queued \in Int
  BY <1>1, Generations DEF Queued
<1>. QED
  BY <1>1, <1>2, Generations DEF NoneMissing

\* Every step preserves LossInv: a step that loses a block notes it.
LEMMA LossInvStep ==
  ASSUME TypeOK, CopyInv, OrderInv, LossInv, [Next]_vars
  PROVE  LossInv'
<1>1. CASE LossNoted
  BY <1>1, LossNotedStable DEF LossInv
<1>2. CASE NoneMissing /\ ~LossNoted'
  <2>1. ~AcqInjectDrop /\ ~DspReject
    BY <1>2
       DEF AcqInjectDrop, DspReject, AddStatus, InjectedDrop, StaleBlock,
           LossNoted
  <2>. QED
    BY <1>2, <2>1, FlowFrame, NoneMissingQuiet, NoneMissingCheck,
       NoneMissingSend, NoneMissingReceive, NoneMissingPublish
       DEF LossInv
<1>. QED
  BY <1>1, <1>2 DEF LossInv

-----------------------------------------------------------------------------
\* Every step preserves StatusInv: bits accumulate, and a result that repeats a
\* block was computed after the repetition was noticed.
LEMMA StatusInvStep ==
  ASSUME TypeOK, CopyInv, OrderInv, StatusInv, [Next]_vars
  PROVE  StatusInv'
<1>1. ResultStatus \subseteq ResultStatus'
  BY StatusGrows DEF ResultStatus
<1>2. CASE DspPublish
  <2>1. /\ Latest' = dsp_result
        /\ dspPc = "publish" /\ dspPc' # "publish"
    BY <1>2, PublishedIsLatest DEF DspPublish
  <2>. QED
    BY <1>1, <2>1 DEF StatusInv
<1>3. CASE DspStatus
  <2>1. /\ Latest' = Latest
        /\ UNCHANGED ResultStatus
        /\ dsp_result'.status = ResultStatus
        /\ dsp_result'.generation = dsp_result.generation
        /\ dsp_result.generation = dspBlock.generation
    BY <1>3
       DEF DspStatus, Latest, telVars, queues, ResultStatus, TypeOK,
           DspTypeOK, Results, CopyInv
  <2>2. Latest.generation = dspBlock.generation
          => "BLOCK_GAP" \in sticky_status
    BY <1>3 DEF OrderInv, DspBusy, Before, DspStatus
  <2>. QED
    BY <2>1, <2>2 DEF StatusInv, ResultStatus
<1>4. CASE AcqReadHalf \/ AcqCheck \/ AcqInjectDrop \/ AcqSend
  <2>1. /\ Latest' = Latest
        /\ UNCHANGED <<dspPc, dsp_result>>
    BY <1>4
       DEF AcqReadHalf, AcqCheck, AcqInjectDrop, AcqSend, Latest, dspVars,
           telVars, queues
  <2>. QED
    BY <1>1, <2>1 DEF StatusInv
<1>5. CASE DspReceive \/ DspReject
  <2>1. /\ Latest' = Latest
        /\ dspPc' # "publish"
    BY <1>5 DEF DspReceive, DspReject, Latest, telVars, queues
  <2>. QED
    BY <1>1, <2>1 DEF StatusInv
<1>6. CASE Quiet
  BY <1>1, <1>6 DEF Quiet, StatusInv
<1>. QED
  BY <1>2, <1>3, <1>4, <1>5, <1>6, FlowFrame

\* Every step preserves GapsReported: when the status is set, either a loss has
\* been noted or no block is missing before this one.
LEMMA GapsReportedStep ==
  ASSUME TypeOK, CopyInv, LossInv, GapsReported, [Next]_vars
  PROVE  GapsReported'
<1>1. CASE DspStatus
  <2>1. /\ Latest' = Latest
        /\ DspBusy
        /\ sticky_status \subseteq dsp_result'.status
        /\ dsp_result'.generation = dspBlock.generation
    BY <1>1
       DEF DspStatus, Latest, telVars, queues, ResultStatus, TypeOK,
           DspTypeOK, Results, CopyInv, DspBusy
  <2>2. CASE LossNoted
    BY <2>1, <2>2 DEF LossNoted, GapsReported
  <2>3. CASE NoneMissing
    <3>1. Queued \in Int
      BY Generations DEF Queued
    <3>2. \/ Latest.generation = 0
          \/ dspBlock.generation = Latest.generation + 1
      BY <2>1, <2>3, <3>1, Generations DEF NoneMissing
    <3>. QED
      BY <2>1, <3>2 DEF GapsReported
  <2>. QED
    BY <2>2, <2>3 DEF LossInv
<1>2. CASE AcqReadHalf \/ AcqCheck \/ AcqInjectDrop \/ AcqSend
  <2>1. /\ Latest' = Latest
        /\ UNCHANGED <<dspPc, dsp_result>>
    BY <1>2
       DEF AcqReadHalf, AcqCheck, AcqInjectDrop, AcqSend, Latest, dspVars,
           telVars, queues
  <2>. QED
    BY <2>1 DEF GapsReported
<1>3. CASE DspReceive \/ DspReject \/ DspPublish
  BY <1>3 DEF DspReceive, DspReject, DspPublish, GapsReported
<1>4. CASE Quiet
  BY <1>4 DEF Quiet, GapsReported
<1>. QED
  BY <1>1, <1>2, <1>3, <1>4, FlowFrame

-----------------------------------------------------------------------------
\* The inductive invariant holds initially ...
LEMMA IndInvInit == Init => IndInv
<1>. SUFFICES ASSUME Init
               PROVE  IndInv
  OBVIOUS
<1>2. CoreInv
  BY CoreInvInit
<1>3. /\ Latest = NoResult
      /\ Len(result_queue) = 0 /\ Len(block_queue) = 0
      /\ ~DspBusy
  BY EmptySeq DEF Init, Latest, DspBusy
<1>4. VoteInv
  BY <1>3 DEF Init, VoteInv
<1>5. OrderInv
  BY <1>3 DEF Init, OrderInv, HandedOn, NoResult
<1>6. LossInv
  BY <1>3 DEF Init, LossInv, NoneMissing, NoResult
<1>7. StatusInv /\ GapsReported
  BY <1>3 DEF Init, StatusInv, GapsReported, NoResult
<1>. QED
  BY <1>2, <1>4, <1>5, <1>6, <1>7 DEF IndInv, FlowInv

\* ... is preserved by every step ...
LEMMA IndInvStep == IndInv /\ [Next]_vars => IndInv'
<1>1. CoreInv /\ [Next]_vars => CoreInv'
  BY CoreInvStep
<1>2. CoreInv /\ FlowInv /\ [Next]_vars => FlowInv'
  BY VoteInvStep, OrderInvStep, LossInvStep, StatusInvStep, GapsReportedStep
     DEF CoreInv, FlowInv
<1>. QED
  BY <1>1, <1>2 DEF IndInv

\* ... and so holds always.
THEOREM Inductive == Spec => []IndInv
BY IndInvInit, IndInvStep, PTL DEF Spec

\* A result that skips or repeats a block says so, wherever the block was lost
\* (tasks.c:64-87, 134-154; health_monitor.c:11-39).
THEOREM LossesReported == Spec => []GapsReported
<1>1. IndInv => GapsReported
  BY DEF IndInv, FlowInv
<1>. QED
  BY <1>1, Inductive, PTL

\* The watchdog is refreshed at most once per spectrum computed, although the
\* DSP task votes for the blocks it rejects (tasks.c:144-154, 205, 236-252).
THEOREM EveryRefreshEarned == Spec => []RefreshesEarned
<1>1. IndInv => RefreshesEarned
  <2>1. TypeOK /\ VoteInv => RefreshesEarned
    <3>1. QueuesTypeOK => Len(result_queue) \in Nat
      BY LenProperties DEF QueuesTypeOK
    <3>. QED
      BY <3>1
         DEF TypeOK, VoteInv, RefreshesEarned, StatusTypeOK, DspTypeOK
  <2>. QED
    BY <2>1 DEF IndInv, CoreInv, FlowInv
<1>. QED
  BY <1>1, Inductive, PTL

-----------------------------------------------------------------------------
\* The pipeline starts as an empty mailbox ...
LEMMA RefinesInit == Init => Mailbox!Init
BY DEF Init, Mailbox!Init, Latest

\* ... the DSP task publishes into it ...
LEMMA RefinesPublish ==
  ASSUME IndInv, DspPublish
  PROVE  Mailbox!Publish
<1>. USE DEF IndInv, CoreInv, FlowInv
<1>1. /\ Latest' = dsp_result
      /\ (result_queue # <<>>)' = TRUE
      /\ UNCHANGED telemetry_result
      /\ dspPc = "publish" /\ DspBusy
  BY PublishedIsLatest DEF DspPublish, Overwrite, telVars, DspBusy
<1>2. dsp_result \in Results /\ Mailbox!Intact(dsp_result)
  BY <1>1 DEF TypeOK, DspTypeOK, ResultsIntact, Intact, Mailbox!Intact
<1>3. Mailbox!Follows(Latest, dsp_result)
  BY <1>1, Generations
     DEF Mailbox!Follows, StatusInv, GapsReported, OrderInv, Before, CopyInv,
         DspBusy
<1>. QED
  BY <1>1, <1>2, <1>3 DEF Mailbox!Publish

\* ... the telemetry task takes from it, and every other step stutters.
LEMMA RefinesNext ==
  ASSUME IndInv, [Next]_vars
  PROVE  [Mailbox!Next]_<<Latest, result_queue # <<>>, telemetry_result>>
<1>. USE DEF IndInv, CoreInv
<1>1. CASE DspPublish
  BY <1>1, RefinesPublish DEF Mailbox!Next
<1>2. CASE TelReceive
  <2>1. /\ result_queue # <<>> /\ result_queue' = <<>>
        /\ telemetry_result' = Latest /\ Latest' = Latest
    BY <1>2, TakeKeepsLatest DEF TelReceive
  <2>. QED
    BY <2>1 DEF Mailbox!Next, Mailbox!Take
<1>3. CASE UNCHANGED <<result_queue, telemetry_result>>
  BY <1>3 DEF Latest
<1>. QED
  BY <1>1, <1>2, <1>3, ResultFrame

\* The pipeline implements Reports: what reaches the UART is in order, keeps
\* its status bits and admits its gaps (tasks.c:90-236).
THEOREM PipelineImplementsReports == Spec => ImplementsReports
<1>1. Init => Mailbox!Init
  BY RefinesInit
<1>2. IndInv /\ [Next]_vars
        => [Mailbox!Next]_<<Latest, result_queue # <<>>, telemetry_result>>
  BY RefinesNext
<1>. QED
  BY <1>1, <1>2, Inductive, PTL DEF Spec, ImplementsReports, Mailbox!Spec

=============================================================================
