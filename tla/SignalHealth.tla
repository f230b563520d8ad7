---------------------------- MODULE SignalHealth ----------------------------
(***************************************************************************)
(* What becomes of the samples of a block: dsp_task takes the mean off and *)
(* scales them to int16_t (unpack_dual_adc in app/tasks.c), measures them  *)
(* (spectrum_analyze_q15 in core/spectrum.c) and derives the signal bits   *)
(* of the result from the measures (spectrum_health_check in               *)
(* core/health_monitor.c), which go out with the sticky bits.              *)
(*                                                                         *)
(* The integers have the code's widths, in units of a small converter.     *)
(* The transform is Spectrum's; as its field has no order, the amplitudes  *)
(* of the bins are chosen apart from it.  The result goes out in the       *)
(* chunks of ChunkLayout.                                                  *)
(***************************************************************************)
EXTENDS Spectrum, ChunkLayout

CONSTANTS
    PREVIEW_SAMPLES,
    ADC_MAX,                     \* 4095 in the code
    RAIL,                        \* distance from the end that counts as clipped
    SCALE, WORD,                 \* << 4, and the size of an int16_t
    SIGNAL_MIN_RMS, SIGNAL_CLIP, SIGNAL_MIN_SPAN, DSP_DEADLINE,
    Blocks,                      \* channel -> index -> word: the inputs
    ProcessingTimes,             \* what the timer may return
    Stamps,                      \* the numbers of a result that are not measured
    Amplitudes                   \* channel -> bin -> amplitude, beyond Q15, too

Channels == 0 .. CHANNELS - 1
NYQUIST == BINS * BIN_MILLIHZ

\* What two and four bytes hold.
Word16 == 0 .. BYTE * BYTE - 1
Word32 == 0 .. BYTE * BYTE * BYTE * BYTE - 1

ASSUME SignalAssumption ==
    /\ PREVIEW_SAMPLES \in Nat \ {0}
    /\ FFT_SIZE \in Nat /\ FFT_SIZE % PREVIEW_SAMPLES = 0
    /\ BINS = CHUNKS * BINS_PER_CHUNK
    /\ PREVIEW_SAMPLES = CHUNKS * PREVIEW_PER_CHUNK
    /\ WORD <= BYTE * BYTE /\ WORD % 2 = 0
    /\ {ADC_MAX, RAIL, DSP_DEADLINE} \subseteq Nat
    /\ {SCALE, SIGNAL_MIN_RMS, SIGNAL_CLIP, SIGNAL_MIN_SPAN} \subseteq Nat \ {0}
    /\ WORD = SCALE * (ADC_MAX + 1)
    /\ SIGNAL_MIN_RMS < SIGNAL_CLIP /\ SIGNAL_CLIP <= WORD \div 2
    /\ Blocks \subseteq [Channels -> [Positions -> 0 .. ADC_MAX]]
    /\ ProcessingTimes \subseteq Nat
    /\ Amplitudes \subseteq [Channels -> [Bins -> Nat]]
    /\ {NYQUIST, 16384} \subseteq Word32
    /\ Q15_MAX < MAGNITUDE_STEP * BYTE
    /\ Stamps \subseteq [sequence : Word16, timestamp_us : Word32,
                         sample_rate_hz : Word32, processing_us : Word32,
                         dropped_blocks : Word32]

VARIABLES
    pc,
    cmsis,                \* built with ANALYZER_USE_CMSIS_DSP
    block,                \* the words of the block in hand
    channel_samples, channel_clipped_samples,
    spectrum_workspace,   \* channel -> the numbers transformed in place
    amplitudes, dominant, \* channel -> its bins, its dominant frequency
    status,               \* of dsp_result
    sticky_status

input == <<block, channel_samples, channel_clipped_samples>>
spectra == <<spectrum_workspace, amplitudes, dominant>>
vars == <<pc, cmsis, input, spectra, status, sticky_status>>

SignalBits == {"SIGNAL_VALID", "SIGNAL_WEAK", "ADC_CLIPPING", "SIGNAL_FROZEN",
               "NUMERIC_FAULT"}
StickyBits == {"ADC_RUNNING", "FRAME_DROPPED", "DMA_STALE"}
Int16 == -(WORD \div 2) .. ((WORD \div 2) - 1)

TypeOK ==
    /\ pc \in {"receive", "unpack", "analyse", "publish"}
    /\ pc \in {"analyse", "publish"} =>
         /\ block \in Blocks
         /\ channel_samples \in [Channels -> [Positions -> Int16]]
         /\ channel_clipped_samples \in [Channels -> 0 .. FFT_SIZE]
    /\ cmsis \in BOOLEAN
    /\ spectrum_workspace \in [Channels -> [Positions -> Complex]]
    /\ pc = "publish" =>
         /\ amplitudes \in [Channels -> [Bins -> Nat]]
         /\ dominant \in [Channels -> Nat]
    /\ status \subseteq SignalBits \cup StickyBits \cup {"DSP_DEADLINE"}
    /\ sticky_status \subseteq StickyBits

None == <<>>

Init ==
    /\ pc = "receive" /\ block = None
    /\ channel_samples = None /\ channel_clipped_samples = None
    /\ cmsis \in BOOLEAN
    /\ spectrum_workspace = [c \in Channels |->
                               [i \in Positions |-> Number(0, 0)]]
    /\ amplitudes = None /\ dominant = None
    /\ status = {} /\ sticky_status = {"ADC_RUNNING"}

-----------------------------------------------------------------------------
(* unpack_dual_adc.                                                        *)

\* A loop over the positions that adds up.
AddedUp(f) == LET sum[n \in 0 .. FFT_SIZE] ==
                      IF n = 0 THEN 0 ELSE sum[n - 1] + f[n - 1]
              IN  sum

Total(word) == AddedUp(word)[FFT_SIZE]

\* mutant: the mean is left in
Mean_Zero(word) == 0 * word[0]

\* To the nearest integer.
Mean(word) == (Total(word) + (FFT_SIZE \div 2)) \div FFT_SIZE

\* mutant: the sample keeps bits an int16_t does not have
Narrow_Wide(x) == x

\* The cast to int16_t.
Narrow(x) == ((x + (WORD \div 2)) % WORD) - (WORD \div 2)

\* mutant: only the upper rail is watched
AtRail_Upper(word) == word >= ADC_MAX - RAIL

AtRail(word) == word <= RAIL \/ word >= ADC_MAX - RAIL

Unpacked(word) == LET mean == Mean(word)
                  IN  [i \in Positions |-> Narrow(SCALE * (word[i] - mean))]

Unpack ==
    /\ pc = "unpack"
    /\ block' \in Blocks
    /\ channel_samples' = [c \in Channels |-> Unpacked(block'[c])]
    /\ channel_clipped_samples' =
         [c \in Channels |-> Cardinality({i \in Positions : AtRail(block'[c][i])})]
    /\ pc' = "analyse"
    /\ UNCHANGED <<cmsis, spectra, status, sticky_status>>

-----------------------------------------------------------------------------
(* spectrum_analyze_q15, the preview, and spectrum_health_check.           *)

Size(x) == IF x < 0 THEN -x ELSE x

SquareSum(samples) ==
    AddedUp([i \in Positions |-> samples[i] * samples[i]])[FFT_SIZE]

\* clamp_q15 of the largest sample.
Peak(samples) ==
    LET peak == Max({Size(samples[i]) : i \in Positions})
    IN  IF peak > (WORD \div 2) - 1 THEN (WORD \div 2) - 1 ELSE peak

\* To the nearest integer, and clamp_q15.
Rms(samples) ==
    LET sum == 4 * SquareSum(samples)
    IN  Max({0} \cup {r \in 1 .. (WORD \div 2) - 1 :
                        FFT_SIZE * (2 * r - 1) * (2 * r - 1) <= sum})

\* Every (FFT_SIZE / PREVIEW_SAMPLES)th sample.
preview_q15(samples) ==
    [i \in 0 .. PREVIEW_SAMPLES - 1 |-> samples[i * (FFT_SIZE \div PREVIEW_SAMPLES)]]

Previewed == {i \in Positions : i % (FFT_SIZE \div PREVIEW_SAMPLES) = 0}

Span(samples) == Max({samples[i] : i \in Previewed})
                   - Min({samples[i] : i \in Previewed})

\* The bits one channel adds to the status.
Faults(samples, clipped, frequency) ==
    (IF frequency > NYQUIST THEN {"NUMERIC_FAULT"} ELSE {})
      \cup (IF Rms(samples) < SIGNAL_MIN_RMS THEN {"SIGNAL_WEAK"} ELSE {})
      \cup (IF clipped # 0 \/ Peak(samples) >= SIGNAL_CLIP
            THEN {"ADC_CLIPPING"} ELSE {})
      \cup (IF Span(samples) < SIGNAL_MIN_SPAN THEN {"SIGNAL_FROZEN"} ELSE {})

spectrum_health_check(frequency, processing_us) ==
    LET faults == UNION {Faults(channel_samples[c], channel_clipped_samples[c],
                                frequency[c]) : c \in Channels}
    IN  faults \cup (IF faults = {} THEN {"SIGNAL_VALID"} ELSE {})
               \cup (IF processing_us > DSP_DEADLINE THEN {"DSP_DEADLINE"} ELSE {})

\* mutant: dsp_result is not cleared
Receive_KeepsStatus ==
    /\ pc = "receive"
    /\ pc' = "unpack"
    /\ UNCHANGED <<cmsis, input, spectra, status, sticky_status>>

\* The memset of dsp_result.
Receive ==
    /\ pc = "receive"
    /\ status' = {}
    /\ pc' = "unpack"
    /\ UNCHANGED <<cmsis, input, spectra, sticky_status>>

\* The DMA has reused the block, before or after it was unpacked.
Reject ==
    /\ pc \in {"unpack", "analyse"}
    /\ sticky_status' = sticky_status \cup {"DMA_STALE", "FRAME_DROPPED"}
    /\ pc' = "receive"
    /\ block' = None
    /\ channel_samples' = None /\ channel_clipped_samples' = None
    /\ UNCHANGED <<cmsis, spectra, status>>

\* The reference build transforms in its workspace, which the target's has not.
Transform ==
    IF cmsis THEN UNCHANGED spectrum_workspace
    ELSE spectrum_workspace' =
           [c \in Channels |-> fft_in_place(Windowed(spectrum_workspace[c],
                                                    channel_samples[c]))]

Analyse ==
    /\ pc = "analyse"
    /\ Transform
    /\ amplitudes' \in IF cmsis THEN {[c \in Channels |-> Corrected(a[c])] :
                                        a \in Amplitudes}
                       ELSE Amplitudes
    /\ dominant' = [c \in Channels |-> dominant_millihz(amplitudes'[c])]
    /\ \E processing_us \in ProcessingTimes :
         status' = status \cup sticky_status
                          \cup spectrum_health_check(dominant', processing_us)
    /\ pc' = "publish"
    /\ UNCHANGED <<cmsis, input, sticky_status>>

\* The result is out; the samples and bins are not looked at again before they
\* are overwritten.  The workspace stays.
Publish ==
    /\ pc = "publish"
    /\ pc' = "receive"
    /\ block' = None
    /\ channel_samples' = None /\ channel_clipped_samples' = None
    /\ amplitudes' = None /\ dominant' = None
    /\ UNCHANGED <<cmsis, spectrum_workspace, status, sticky_status>>

\* The bits of analyzer_types.h.
Bit(b, mask) == IF b \in status THEN mask ELSE 0
StatusWord ==
    Bit("ADC_RUNNING", 1) + Bit("SIGNAL_VALID", 2) + Bit("DSP_DEADLINE", 16)
      + Bit("NUMERIC_FAULT", 64) + Bit("FRAME_DROPPED", 256) + Bit("DMA_STALE", 1024)
      + Bit("SIGNAL_WEAK", 2048) + Bit("ADC_CLIPPING", 4096)
      + Bit("SIGNAL_FROZEN", 8192)

\* What is published.
dsp_result(stamp) ==
    [timestamp_us |-> stamp.timestamp_us, sample_rate_hz |-> stamp.sample_rate_hz,
     processing_us |-> stamp.processing_us, dropped_blocks |-> stamp.dropped_blocks,
     status |-> StatusWord,
     channel |-> [c \in Channels |->
        [magnitude_q15 |-> Corrected(amplitudes[c]),
         preview_q15 |-> preview_q15(channel_samples[c]),
         rms_q15 |-> Rms(channel_samples[c]), peak_q15 |-> Peak(channel_samples[c]),
         dominant_millihz |-> dominant[c]]]]

\* status_set by another task.
StatusSet ==
    /\ sticky_status' = sticky_status \cup {"FRAME_DROPPED"}
    /\ UNCHANGED <<pc, cmsis, input, spectra, status>>

Next == Receive \/ Unpack \/ Reject \/ Analyse \/ Publish \/ StatusSet

Spec == Init /\ [][Next]_vars

-----------------------------------------------------------------------------
(* Properties, in terms of the words the ADC has delivered.                *)

\* docs/fault_injection.md:34-36: a channel on which every word of the block is
\* the same is reported weak and frozen, and never valid, at whatever level it
\* is stuck (tasks.c:106-120, health_monitor.c:55-75).
FreezeReported ==
    pc = "publish" /\ (\E c \in Channels : \A i \in Positions :
                         block[c][i] = block[c][0]) =>
        /\ {"SIGNAL_WEAK", "SIGNAL_FROZEN"} \subseteq status
        /\ "SIGNAL_VALID" \notin status

\* docs/protocol.md:56: a word near full scale anywhere in the block, not only in
\* the preview, is reported, and the result is not valid.
ClippingReported ==
    pc = "publish" /\ (\E c \in Channels, i \in Positions :
                         block[c][i] \in (0 .. RAIL)
                                           \cup (ADC_MAX - RAIL .. ADC_MAX)) =>
        "ADC_CLIPPING" \in status /\ "SIGNAL_VALID" \notin status

\* A channel that swings within the converter's range and within half of it to
\* either side of its mean, enough between two samples of the preview.
Good(word) ==
    LET mean == Mean(word)
        swing == [i \in Positions |-> SCALE * (word[i] - mean)]
    IN  /\ \A i \in Positions : /\ RAIL < word[i] /\ word[i] < ADC_MAX - RAIL
                                /\ Size(swing[i]) < SIGNAL_CLIP
        /\ SquareSum(swing) >= FFT_SIZE * SIGNAL_MIN_RMS * SIGNAL_MIN_RMS
        /\ \E i, j \in Previewed : swing[i] - swing[j] >= SIGNAL_MIN_SPAN

\* docs/architecture.md:60-61: signal-quality flags recover on the next valid
\* result, whatever the results before it were.
SignalRecovers ==
    pc = "publish" /\ (\A c \in Channels : Good(block[c])) =>
        status \cap SignalBits = {"SIGNAL_VALID"}

\* The bins come from this block's samples of this channel alone, whatever the
\* workspace held: the transform in place equals the discrete Fourier transform
\* of the windowed samples (spectrum.c:25-91).
SpectrumOfBlock ==
    pc = "publish" /\ ~cmsis =>
        \A c \in Channels :
            spectrum_workspace[c] =
              Dft([i \in Positions |-> Number(channel_samples[c][i] * WINDOW[i], 0)])

\* docs/architecture.md:51: the dominant frequency is plausible.  It stays within
\* half a bin (rounded) of a largest one other than DC, also beside a larger DC
\* bin, on a plateau and without any signal, so that the check never mistakes it
\* for a fault (spectrum.c:112-127, spectrum_cmsis.c:73-88).
DominantPlausible ==
    pc = "publish" =>
        /\ \A c \in Channels : \E bin \in Bins :
             /\ IsLargest(amplitudes[c], bin)
             /\ 2 * Size(dominant[c] - bin * BIN_MILLIHZ) <= BIN_MILLIHZ + 1
        /\ "NUMERIC_FAULT" \notin status

\* docs/protocol.md:12-34: both decoders read from a chunk what was measured, in
\* whatever byte it is: the numbers in full, the signed samples of this chunk's
\* part of the preview, and the magnitudes to half a step, to a whole one where the
\* byte saturates (telemetry.c:63-93, 126-147, spectrum_monitor.py:90-116).
ChunksFaithful ==
    pc = "publish" =>
        \A stamp \in Stamps, c \in Channels, k \in 0 .. CHUNKS - 1 :
            LET result == dsp_result(stamp)
                raw == Encoded(stamp.sequence, result, c, k)
                chunk == decode_body(raw)
            IN  /\ decode_raw(raw) = chunk /\ chunk # BadFormat
                /\ chunk.header.channel = c /\ chunk.header.chunk_index = k
                /\ \A f \in DOMAIN stamp : chunk.header[f] = stamp[f]
                /\ chunk.header.status = result.status
                /\ chunk.header.dominant_millihz = dominant[c]
                /\ chunk.header.rms_q15 = Rms(channel_samples[c])
                /\ chunk.header.peak_q15 = Peak(channel_samples[c])
                /\ \A i \in 0 .. BINS_PER_CHUNK - 1 :
                     LET received == chunk.magnitudes[i]
                         magnitude == Corrected(amplitudes[c])[k * BINS_PER_CHUNK + i]
                     IN  2 * Size(MAGNITUDE_STEP * received - magnitude)
                           <= MAGNITUDE_STEP * IF received = BYTE - 1 THEN 2 ELSE 1
                /\ \A i \in 0 .. PREVIEW_PER_CHUNK - 1 :
                     chunk.preview[i] =
                       channel_samples[c][(k * PREVIEW_PER_CHUNK + i)
                                            * (FFT_SIZE \div PREVIEW_SAMPLES)]

\* docs/protocol.md:32: the preview is the waveform.  In a valid result it rises
\* and falls as the words do (tasks.c:119: (int16_t)(adc1 << 4)).
SamplesFaithful ==
    pc = "publish" /\ "SIGNAL_VALID" \in status =>
        \A c \in Channels, i, j \in Previewed :
            block[c][i] <= block[c][j] =>
                channel_samples[c][i] <= channel_samples[c][j]

=============================================================================
