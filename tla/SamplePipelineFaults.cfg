\* The build that drops every second block, freezes the ADC data and suspends the
\* DSP task after its second result, under the scheduler's fairness; an error
\* interrupt, and an ADC that may stop, at any point.
SPECIFICATION FairSpec
CONSTANTS
    FRAMES = 1
    QUEUE_DEPTH = 2
    BOOT_STATUS <- MCBootStatus
    FAULT_INJECT_DROP_EVERY_N_BLOCKS = 2
    FAULT_INJECT_DSP_STALL_AFTER_BLOCKS = 2
    FAULT_INJECT_FREEZE_ADC = TRUE
    MaxBlocks = 4
    MaxErrors = 1
INVARIANTS
    OverrunRemembered
    OverrunsNotInvented
    IndInv
PROPERTY
    StallStopsRefresh
