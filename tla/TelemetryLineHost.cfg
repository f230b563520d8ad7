\* Both delimiters between two frames are lost or changed.
SPECIFICATION Spec
CONSTANTS
    RAW_LENGTH = 5
    SEQUENCES = 8
    Body <- MCBody
    Foreign <- MCForeign
    FIRST = 3
    MaxFrames = 2
    MaxFaults = 2
INVARIANT
    HostBounded
