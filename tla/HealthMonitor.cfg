\* Three blocks, each any distance from the one before that a word can hold.
SPECIFICATION Spec
CONSTANTS
    WORD = 8
    EXPECTED_PERIOD = 3
    FIRST_GENERATION = 6
    FIRST_TIME = 5
    MaxChecks = 3
INVARIANTS
    TypeOK
    DroppedExact
PROPERTY
    GapExact
