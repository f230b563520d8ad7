# Spectrum analyzer: TLA+ specifications and proofs

Specifications of the STM32F446 spectrum analyzer: the firmware's sample
pipeline, its telemetry link and watchdog, and the decoder and assembler that
read the telemetry on the host. Line numbers are those of the sources in `src/`.
`tlc -config X.cfg M` runs a check, `tlapm MProofs.tla` the proofs of a module.

## The system

| component | state | operations | talks to |
|---|---|---|---|
| acquisition (`app/tasks.c`, `board_skeleton.c`) | circular DMA buffer of two halves, generation, overrun counter, notification | half and full transfer interrupt, error interrupt, `platform_adc_wait_block`, `acquisition_task` | descriptors by reference to DSP through `block_queue`; sticky status; vote |
| DSP (`tasks.c`) | block in hand, result | generation check, `unpack_dual_adc`, check again, analyse, publish | `result_queue` (a mailbox, overwritten); sticky status; vote |
| telemetry (`tasks.c`, `board_skeleton.c`) | result, sequence number, one frame buffer, `uart_waiter` | encode, start the UART's DMA, wait, time out, abort | completion interrupt; serial line; vote |
| protocol (`core/telemetry.c`) | decoder: body, escape, dropping, counters | `telemetry_encode_spectrum_chunk`, `telemetry_decoder_feed` | the host's decoder |
| host decoder (`spectrum_monitor.py`) | as the firmware's | `FrameDecoder.feed`, `decode_raw` | chunks to the assembler |
| host assembler (`spectrum_monitor.py`) | table of incomplete spectra, at most 16 | `push` | spectra to output |
| health monitor (`core/health_monitor.c`) | last generation and time, counters | `acquisition_health_check`, `spectrum_health_check` | status bits |
| watchdog and boot (`tasks.c`, `main.c`, `board_skeleton.c`) | votes, IWDG, reset flags | window sample, refresh, expiry, boot, halting hooks | votes of the three tasks |
| FFT (`core/spectrum.c`, `spectrum_cmsis.c`) | a workspace per channel, kept from block to block | window, transform in place, amplitudes, dominant frequency | called by DSP |
| peripherals, other tools, build | static | configuration; desk tests | - |

What is hard: the DSP task reads a half the DMA will overwrite, and the two
generation checks are its only defence; the overrun counter is updated in two
contexts without a lock; losses happen in five places and must all be reported; a
UART timeout races its completion interrupt; three voters keep each other fed, so
that a stopped one must be seen through buffered work; the decoders must recover
from any damage on the line; the host cannot tell a restart of the board; the
transform overwrites a workspace it keeps; the layout of a chunk is written down
twice, in two languages. What
makes each component correct is the list of properties below; `PROJECT.json` lists
the hazards line by line with the properties that cover them.

## The modules

**SamplePipeline** composes the ADC and its DMA, the two interrupts, the four
tasks and the two queues, with one action per atomic step of the code. Variables
keep the names of the code's objects; `acqPc`, `dspPc`, `telPc` are the tasks'
places.

- A sample word is abstracted to the number of its block. `DmaWrites` writes one
  word; `DmaCompletesHalf` raises the interrupt that `PublishCompletedHalf` serves.
- FreeRTOS's priorities are in the guards: a task takes a step only when no task
  above it is ready (`DspRuns`, `TelRuns`). The watchdog task, above all, samples
  at any point.
- Interrupts are served within a half-buffer, 10.24 ms: the longest stretch with
  interrupts masked is the copy of a result into the mailbox. So a task steps
  while an interrupt is pending only at `pos = 0`, and the DMA does not complete a
  second half before it.
- `AcqLoadOverruns` and `AcqStoreOverruns` are the two halves of
  `adc_overrun_count += n`, between which `AdcError` may increment it.
- `AcqTimeout` needs the stream to have stopped: the wait is 20 ms, a block 10.24.
- `refreshes` counts the watchdog's refreshes, as a history, up to one more than there
  are blocks.
- The generation has no width; a `uint32_t` wraps after 509 days. HealthMonitor
  has the width. `blocks_seen` is counted in every build, as a history of the
  blocks dealt with. The vote is part of the step that queues the block or
  the result: only the watchdog task and, for the result, acquisition could come
  between, and neither order can be told apart by what either reads.
- `monitor.dropped_blocks` and `timing_faults` are never read by the firmware and
  are modelled in HealthMonitor. Signal bits (clipping, frozen input, ...) depend
  on numbers and are left to SignalHealth. Telemetry is one step that succeeds or fails.

**Reports** is what the pipeline promises to the UART: a mailbox with the newest
result, each made of one whole block, none older than the one before, its status
bits never withdrawn, repetitions and gaps marked. `ImplementsReports` is the
refinement: `latest` is the result in the mailbox or the one telemetry took from it,
`fresh` that it is still in the mailbox, `report` what telemetry transmits. DMA,
interrupts, block queue, checks and votes are stuttering steps.

**UartLink** takes that step apart: frames one by one through one buffer, which the
UART's DMA reads in `PIECES` parts. `TelRegister`, `TelTransmit`, `TelNotified` or
`TelTimeout`, `TelUnregister`, `TelAbort` are `platform_uart_write_dma` line by line,
`UartCompletes` the interrupt. The HAL's handle is external.

**FrameStream** is what the host may assume of the frames: every frame of every result
in order until backpressure has been flagged; after that frames may be missing, and
sequence numbers have a gap only when a transfer was torn. `ImplementsFrameStream`
refines it with the last whole frame on the wire, the history of tears and the
sticky bit; results, buffer, waiter, notification and abort disappear.

**Framing**, **FrameDecoder**, **HostDecoder**, **TelemetryLine**: the two decoders are
pure functions from a state and a byte to a state, each translated from its own
source. A byte is SOF, ESC, one of their escaped forms or other. The CRC is
abstracted to what it is for: it accepts bodies that were sent, and a set of
`Foreign` bodies that fail the header checks. TelemetryLine sends encoded frames
through a line that loses, changes and inserts bytes, with a sender that cuts a
frame off and sends it again with its number, and a board that restarts. `Encode`
writes into a buffer of `MAX_FRAME` bytes with the code's capacity checks. `heard` is a
history variable that no action reads: counted from the first frame begun, which ones
were the first and the newest decoded, and whether half of all numbers have gone by
between two of them.

**SpectrumAssembler** is `SpectrumAssembler.push` with the dictionary as a sequence in
insertion order, fed by the loops of `telemetry_task` through a line that loses
chunks. The seven metadata fields are one value. Parts carry, as history, the
result they are from.

**HealthMonitor** is `acquisition_health_check` with arithmetic modulo `WORD`.

**Spectrum** is the analysis as pure functions: `bit_reverse`, butterflies, groups and
stages of `fft_in_place`, the search for the largest bin and the parabola through it.
Of its numbers the transform needs sums, products and a root of unity; here they are
complex numbers over a prime field, so that sums are exact and the result can be compared with the definition of
the discrete Fourier transform (`Dft`). Rounding of floats is left out. Such a field
has no order: the amplitudes the search looks at are inputs of their own. The target
build calls CMSIS-DSP for the transform, which is external; its own code around it
(amplitudes saturated before they are compared) is `Corrected`.

**ChunkLayout** is the raw bytes of a chunk: the offsets and conversions of
`telemetry_encode_spectrum_chunk` and `decode_body` on one side, the format string and
slices of `decode_raw` on the other. A byte is a number below `BYTE`.

**SignalHealth** composes the two with the rest of `dsp_task` and `health_monitor.c`: one
block from `unpack_dual_adc` (mean, scaling, cast to `int16_t`, clipped words) through
RMS, peak, transform, preview and `spectrum_health_check` to the status and the chunks
that are sent. `spectrum_workspace` survives from block to block; `cmsis` chooses the
build. Its converter has few bits; the thresholds keep the order they have in
`health_monitor.h`, span below RMS below clipping.

**WatchdogVoting** has the watchdog in time. A slot is telemetry's period, 50 ms. In a
slot acquisition and DSP vote if they can, telemetry votes if it had a result and
its transmission ended, in this slot or, late, in the next; the watchdog task
samples before or after the slot's votes. The IWDG counts 32032 ticks of an
oscillator of 47, 32 or 17 kHz: 13, 20 or 37 slots. Boot, failed asserts before
and after the IWDG starts, the reset flag and the pin are actions.

## What the runs check

| run | bounds | shows |
|---|---|---|
| `pipeline` | production build, 2 words a half, 5 blocks | `ResultsIntact`, `GapsReported`, `RefreshesEarned`, `ImplementsReports` |
| `pipeline_faults` | 1 word a half, 4 blocks, 1 error, all fault injections, fairness | `OverrunRemembered`, `OverrunsNotInvented`, `StallStopsRefresh`; `IndInv`, which implies `GapsReported`, holds of every reachable state |
| `uart` | 3 frames, 4 results, numbers modulo 4, the tenth frame fails, fairness of the task | `TornOnlyAfterBackpressure`, `VoteMeansHandedOver`, `CompletionWakes`, `ImplementsFrameStream`, `TransmissionEnds` |
| `line` | 4 frames, 2 faults, 5-byte bodies, numbers modulo 8 | `WholeFrameDecoded`, `DecodersAgree`, `LossIsTrue`, `NothingForged` |
| `assembler` | 4 results, 2 channels, 3 chunks, a table of 2, restarts | `PendingBounded`, `OneResult`, `WholeSpectrumAssembled`, `LossesAccounted`, `MetadataAgrees` |
| `block_health` | words of 3 bits, 3 blocks | `GapExact`, `DroppedExact` |
| `signal` | 2 channels of 8 words of 4 bits: any 3 of 5 levels repeated in one, 4 signals in the other; 4 bins, 2 chunks, both builds | `FreezeReported`, `ClippingReported`, `SignalRecovers`, `SpectrumOfBlock`, `DominantPlausible`, `ChunksFaithful` |
| `watchdog` | the code's own times, 6 failures in a row | `ResetInTime`, `NoFalseReset`, `CauseReported` |

Why the bounds are enough. Two words make a copy that can be torn at every place
relative to the DMA; five blocks are what a full queue needs on top of one block
in the DSP task and one coalesced. Four results let two transfers be aborted and
leave a stale notification twice. Bodies of five bytes with distance four or more
keep two faults from making one body of another, and hold every kind of byte;
eight sequence numbers make the half-range rule and the wrap reachable. Two faults
cannot hide half of all numbers: what `LossIsTrue` says of such an outage rests on the
proof. A table
of two overflows with the third spectrum. Three-bit words take every pair of
differences. Three words over five levels, the two rails among them, take every shape
that matters: constant, clipped in or out of the preview, far from the mean on
either side; the second channel adds a tone aliased by the preview. Eight words give
the transform three stages, a bit reversal that moves words and leaves others, and
roots that are not 1 or i; the transform is linear, so that a few hundred blocks are
many more than a basis. Four bins hold every case of the interpolation (both
neighbours, a larger DC bin, plateau, last bin, silence, saturation), and with
`BYTE = 16` two chunks of two bins and two words of preview use every field, with
magnitudes that saturate and previews of either sign. In the watchdog the state is
finite.

Two of the runs state something the repository says that the code does not do.

- `pipeline_dropped_blocks`: `dropped_blocks` is "dropped block count" in
  `docs/protocol.md:30`; blocks lost at the full queue, at a generation check or by
  injection are not in it (`tasks.c:174`).
- `line_host_length`: "The firmware and Python decoders bound input length"
  (`docs/protocol.md:60`); the host appends escaped bytes without a limit.

And two show defects.

- `signal_wrap`: `(int16_t)(adc1 << 4)` (`tasks.c:119-120`) does not hold a word 2048 or
  more above its block's mean, or more than 2048 below it. Short pulses on a low
  level become negative samples, are measured and displayed, and the result is
  marked valid.
- `uart_stale_notification`: a transfer that completes after `ulTaskNotifyTake` has
  timed out and before `uart_waiter = NULL` (`board_skeleton.c:182-184`) leaves a
  notification that ends the next wait at once; the next frame is encoded into the
  buffer the DMA is reading. The run `uart` shows what survives: backpressure has
  been reported before anything is torn.

More observations:

- The DSP task votes for a block it has thrown away (`tasks.c:146`, `152`). The
  watchdog is refreshed all the same at most once per spectrum (`RefreshesEarned`),
  because telemetry votes only for a result; but one spectrum per window is enough,
  however many blocks are rejected beside it.
- A DC bin larger than the largest other one is still the left neighbour of bin 1 in
  the interpolation (`spectrum.c:114`) and draws it down; the clamp keeps it within
  half a bin (`DominantPlausible`).
- A tone that the preview's step of eight aliases to a constant, such as 12.5 kHz, is
  reported as frozen, as `docs/protocol.md:57` allows.
- The `FRAME_DROPPED` of a full queue (`tasks.c:84`) is never needed: by the time the
  queue of two is full the blocks in it are stale, and their rejection sets the bit
  as well.
- `LossIsTrue` holds until the board restarts: the numbers then begin at 0 again, and
  both decoders count the distance to 0 as frames lost if it is less than half of all
  numbers, and the new frames as out of order if it is not, although
  `docs/protocol.md:61` speaks of "true sequence loss". The protocol has no mark of a
  session, so no property covers the counts after a restart.
- While the board runs the count is exact, but for an outage in which half of all
  numbers or more go by unheard, which at 160 frames a second takes somewhat over
  three minutes: the frames after it are taken for old ones, repeated ones or ones a
  few ahead, and what was missed is counted in part or not at all.
- Seven transmissions that fail in a row just after boot, at the fastest oscillator,
  are enough for a reset although nothing has failed for good: with
  `MAX_FAILURES = 7` TLC finds `NoFalseReset` violated.

## Fairness

SamplePipeline's `Fairness` is weak, of the interrupt and of each task: interrupts are
served, and the scheduler runs the ready task of highest priority, which the guards
express. The hardware owes nothing: the ADC may stop anywhere. That the refreshes end
when the DSP task stops while blocks keep coming needs no bound on the blocks, and
is `ResetInTime` of WatchdogVoting, a safety property in time. UartLink's `TaskSpec`
is fair to the task only, whose wait is bounded by its timeout; the UART may stop.

## What is proved

Eight modules hold proofs, for every value of the constants that the named
assumptions admit. The assumptions are types and sizes, with these exceptions: a
clock word longer than the expected period and its tolerance (`MonitorAssumption`);
numbers that fit the fields of a chunk (`LayoutAssumption`, and the words of two and
four bytes in `SignalAssumption`); the order of the thresholds, which is the order of
those in `include/health_monitor.h` (`SIGNAL_MIN_RMS < SIGNAL_CLIP <= WORD \div 2`, in
`SignalAssumption`); that `COS` holds cosines: the angles of the roots it makes add up,
and half a circle is -1 (`RootAssumption`); and the times below. TLC evaluates each of them for the constants
of every run.

| module | theorems |
|---|---|
| `SamplePipelineProofs` | `TypeCorrect`, `IntactResults`, `ErrorsRemembered`, `LossesNotInvented`, `Inductive`, `LossesReported`, `EveryRefreshEarned`, `PipelineImplementsReports` |
| `UartLinkProofs` | `LinkInductive`, `LinkTypeCorrect`, `TearsAreFlagged`, `VotesEarned`, `NoLostWakeup`, `LinkImplementsFrameStream` |
| `TelemetryLineProofs` | `DecodersAlwaysAgree`, `FirmwareBounded`, `LineTypeCorrect`, `WholeFramesAreDecoded`, `LossesAreTrue` |
| `SpectrumAssemblerProofs` | `AssemblerTypeCorrect`, `BoundedMemory`, `MetadataNeverMix`, `ResultsNeverMix`, `AllAccounted`, `WholeIsReturned` |
| `HealthMonitorProofs` | `MonitorTypeCorrect`, `DroppedCountedExactly`, `GapsExact` |
| `SignalHealthProofs` | `PlausibleDominant`, `ClippingIsReported`, `FreezeIsReported`, `SignalAlwaysRecovers`, `ChunksAreFaithful`, `SpectrumIsOfBlock`, `SignalTypeCorrect` |
| `WatchdogVotingProofs` | `WatchdogTypeCorrect`, `CauseIsReported`, `ResetsInTime`, `NoResetWithoutFault` |
| `NumberLemmas` | no specification of its own: quotients, remainders and products, cited by the others |

**The pipeline.** None of its properties is inductive. `ResultsIntact` needs to know
what the halves hold (`BufferInv`: the last block, and in the other half the block
being written up to `pos` over the one two before), that descriptors name completed
blocks and their halves (`DescriptorInv`), and that a copy has met only its block as
long as that block is the last one completed (`CopyInv`); a block that is not the
last never is again. The counters need the notifications in hand (`CountInv`).
`GapsReported` needs to place every block between the last result and the newest
descriptor: `OrderInv` orders the generations from the mailbox back to the monitor,
`LossInv` says that either a sticky bit reports a loss or no block is missing on that
way, `StatusInv` that published bits stay set, `VoteInv` counts refreshes, votes and
results in transit against spectra. `IndInv` is their conjunction, checked by TLC in
`pipeline_faults`. For each conjunct a frame lemma names the actions that can
disturb it and a step lemma goes through them. `PipelineImplementsReports` then maps
`DspPublish` to `Publish`, `TelReceive` to `Take` and every other action to a stutter.

**The link.** `LinkInv` relates, at each line of `platform_uart_write_dma`, the buffer to
the transfer (`BufferInv`), waiter, notification and HAL state (`WaiterInv`), what was
delivered to what is being sent (`OrderInv`, `SequenceInv`), and says that none of the
disorder a late completion causes is possible before backpressure (`UnflaggedInv`).
The refinement of FrameStream follows action by action.

**The decoders.** `DecodersAgree` is strengthened to a simulation: body, escape and
dropping are the same in both, except that the host's buffer may already be longer
than a frame (an escaped byte beyond the limit) while the firmware has counted an
overflow; from there both end in an error at the delimiter and resynchronise alike.

**Whole frames.** `Reading` follows one frame through the line: as long as no byte of
it was touched, the body in the firmware's decoder and its escape flag are what the
bytes so far stand for. `Escaped` is a recursive function; how much it writes
(`MAX_FRAME` is enough: two bytes for each, and two delimiters) and that reading
undoes it are shown by induction on the length. The last delimiter then closes
exactly the body that was sent, whatever the decoder held before, since a delimiter
begins it. `LineInv`, which also gives the types, is `Agree` and `Reading`.

**Losses.** `LossIsTrue` is an equation between the decoder's counters and `heard`: what
is counted as lost are the frames begun between the first and the newest decoded less
the different ones decoded. `Numbering` says that the number in use is that of the last
frame begun or of the next one. `Accounted` says that the decoder's `last_sequence` is
the number of one of the frames between the first and the newest decoded, and that it
has credited no more than came up to that one; without an outage, that it is the newest
and the credit is exact. A frame accepted is known by its number among the last half
(`OrdinalIs`), and within a half the distance of two numbers is the distance of the
frames (`DeltaBounded`), so the half-range rule keeps both across a wrap; after an
outage only the bound is left. A body the CRC accepts although it was not sent would
break either, and no CRC of 16 bits excludes it for any number of damaged bytes, so
`LossesAreTrue` is `Spec /\ NothingForged => []LossIsTrue`. `NothingForged` is an action
property of its own, which the run `line` checks for faults that the CRC is bound to
find.

**The assembler.** Until a restart the table is in the order in which results were
sent (`InOrder`), so that the entry evicted for a new key is never the one being
received; that gives `WholeSpectrumAssembled`. After one, only the equality of the metadata
within an entry survives, and gives `MetadataAgrees`.

**The monitor** is arithmetic modulo `WORD`: two lemmas on differences and sums across
the wrap. **Dominant frequency**: integer bounds on the clamped vertex. **Clipping**: a word at
a rail makes the set of clipped positions nonempty.

**Freeze and recovery.** The sums of the mean and of the squares are recursive functions
over the positions, about which lemmas by induction on the position say what a proof
needs: a constant block has its level as mean, so that its samples are 0; a sum of
squares bounds the RMS from below through the rounding. A good block's samples are not
changed by the cast to `int16_t`, its peak stays below `SIGNAL_CLIP`, and two samples of
the preview span enough; the status is cleared for each block, so nothing before it
counts.

**Chunks.** The digits of a number smaller than `BYTE^n` put together again give the
number. The fields of `Place` neither overlap nor leave a byte out, so each byte of the
header belongs to one field (`FieldAtIs`); the host's offsets, added up from its widths,
are the firmware's (`HostPlaces`). What is left is that every field's number fits its
width, of which the status word, RMS and peak and the dominant frequency need a lemma
each, and that narrowing to two bytes and back keeps a sample's sign.

**The transform.** `fft_in_place` is the definition of the transform for every size the
code could have, 4 to 1024. The numbers modulo `PRIME` are a commutative ring, which is
all that is asked of them: no division occurs. Counting up from the highest bit mirrors
counting (`ReversesNext`), so that `bit_reverse`, which exchanges each pair once, when it
meets the smaller index, moves every number to its mirrored index (`BitReverseIs`); an
index is known by its bits, and mirroring twice is the identity. A group of butterflies
touches its own places only and uses the roots in their order (`GroupIs`, `StageIs`).
After the stage of length L, place k holds the transform of length L, at k, of every
(`FFT_SIZE \div L`)th number (`Partial`): a stage joins the even and the odd half of
each sum (`SumSplit`, `PartialNext`), and the last one leaves the whole. Each loop is a
recursive function for which a closed form is given and shown by induction over the
naturals or the powers of two. `WorkspaceInv` adds that nothing else writes to the workspace,
and that what it held before is overwritten.

**The watchdog.** As long as the votes of a window may still be complete, a fault is no
older than the window; once a required vote cannot come any more (`Dead`) the IWDG is
not refreshed (`FaultInv`), which bounds the reset. Without a fault, `Cadence` (at a
sample the IWDG's age is a number of windows, and at most one slot) and `Patience`
(the telemetry task's last vote is as old as the transmissions in a row that failed) show that it never expires,
if every timeout exceeds the windows that `MAX_FAILURES` can spoil
(`TimeoutAssumption`, which TLC evaluates for 13, 20 and 37 slots and six failures).

Only checked by TLC: the liveness properties `StallStopsRefresh` and `TransmissionEnds`
(no prover for fairness and `ENABLED`), and `NothingForged`, which bounded faults and the
distance of the bodies imply on the run's instance only.

## Not modelled

- `board_peripherals.c` and the HAL and FreeRTOS configuration headers: register values
  and switches without behaviour of their own; the clock rates and priorities they set
  are constants and guards of the models.
- CMSIS-DSP's transform and the failure of its initialisation (`spectrum_cmsis.c:27-39`),
  the rounding of floats in either build, and the arithmetic of the CRC.
- `main`, plotting, CSV and JSON of `spectrum_monitor.py`, and its scaling to floats:
  formatting and I/O around the decoder and the assembler.
- The desk-test tools and the build.

FreeRTOS and the HAL are not in the repository and are modelled by what the code
relies on.

## How the modules grew

SamplePipeline and its proofs came first, then UartLink, the decoders and the line,
SpectrumAssembler, HealthMonitor, WatchdogVoting and SignalHealth; then the abstract
specifications Reports and FrameStream with their refinements, Spectrum and
ChunkLayout, and the proofs about every component. What could
follow: the CRC as a function over bits, with the errors it is bound to find; and a
bound on the frames lost after a burst of errors on the line.
