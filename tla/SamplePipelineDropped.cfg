\* dropped_blocks against the frames the pipeline has dropped.
SPECIFICATION Spec
CONSTANTS
    FRAMES = 2
    QUEUE_DEPTH = 2
    BOOT_STATUS <- MCBootStatus
    FAULT_INJECT_DROP_EVERY_N_BLOCKS = 0
    FAULT_INJECT_DSP_STALL_AFTER_BLOCKS = 0
    FAULT_INJECT_FREEZE_ADC = FALSE
    MaxBlocks = 4
    MaxErrors = 0
INVARIANT
    DropsCounted
