\* Every wait may time out or race its completion, the UART may stop for good, and
\* the tenth frame is made to fail.
SPECIFICATION TaskSpec
CONSTANTS
    FRAMES = 3
    PIECES = 2
    SEQUENCES = 4
    FAULT_INJECT_UART_FAIL_EVERY_N_FRAMES = 10
    MaxResults = 4
INVARIANTS
    TypeOK
    TornOnlyAfterBackpressure
    VoteMeansHandedOver
    CompletionWakes
PROPERTIES
    ImplementsFrameStream
    TransmissionEnds
