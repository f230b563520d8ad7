\* A completion that comes too late for its own wait.
SPECIFICATION Spec
CONSTANTS
    FRAMES = 3
    PIECES = 2
    SEQUENCES = 4
    FAULT_INJECT_UART_FAIL_EVERY_N_FRAMES = 0
    MaxResults = 3
PROPERTY
    BufferStable
