\* The code's own times; up to six transmissions in a row may fail.
SPECIFICATION Spec
CONSTANTS
    WINDOW = 5
    TIMEOUTS <- MCTimeouts
    MAX_FAILURES = 6
INVARIANTS
    TypeOK
    ResetInTime
    CauseReported
PROPERTY
    NoFalseReset
