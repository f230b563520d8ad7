\* One channel with any three words of five levels over and over, one with a typical signal.
SPECIFICATION Spec
CONSTANTS
    CHANNELS = 2
    CHUNKS = 2
    BINS_PER_CHUNK = 2
    PREVIEW_PER_CHUNK = 2
    BYTE = 16
    MAGNITUDE_STEP = 2
    Stamps <- MCStamps
    FFT_SIZE = 8
    PRIME = 17
    COS <- MCCOS
    WINDOW <- MCWINDOW
    BIN_MILLIHZ = 11
    Q15_MAX = 31
    PREVIEW_SAMPLES = 4
    ADC_MAX = 15
    RAIL = 0
    SCALE = 2
    WORD = 32
    SIGNAL_MIN_RMS = 4
    SIGNAL_CLIP = 15
    SIGNAL_MIN_SPAN = 3
    DSP_DEADLINE = 3
    Blocks <- MCBlocks
    ProcessingTimes <- MCProcessingTimes
    Amplitudes <- MCAmplitudes
INVARIANTS
    TypeOK
    FreezeReported
    ClippingReported
    SignalRecovers
    SpectrumOfBlock
    DominantPlausible
    ChunksFaithful
