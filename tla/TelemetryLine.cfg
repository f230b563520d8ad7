\* Two faults, a restart among them, anywhere in four frames, across the wrap of
\* the sequence number.
SPECIFICATION Spec
CONSTANTS
    RAW_LENGTH = 5
    SEQUENCES = 8
    Body <- MCBody
    Foreign <- MCForeign
    FIRST = 6
    MaxFrames = 4
    MaxFaults = 2
INVARIANTS
    TypeOK
    DecodersAgree
    LossIsTrue
PROPERTIES
    NothingForged
    WholeFrameDecoded
