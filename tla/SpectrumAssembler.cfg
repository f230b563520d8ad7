\* Any chunks of four results lost, a dictionary of two, and restarts after which
\* timestamps repeat.
SPECIFICATION Spec
CONSTANTS
    CHANNELS = 2
    CHUNKS = 3
    MAX_PENDING_SPECTRA = 2
    Metadata <- MCMetadata
    MaxResults = 4
INVARIANTS
    TypeOK
    PendingBounded
    OneResult
    LossesAccounted
    MetadataAgrees
PROPERTY
    WholeSpectrumAssembled
