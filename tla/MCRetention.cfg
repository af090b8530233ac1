SPECIFICATION Spec
CONSTANTS
    DataBit <- PairBit
    ParityBit <- PairParityBit
    Label <- PairLabel
    Codewords = 1
    Word <- MCWord
    WordOf <- PairWordOf
    FaultMenu <- RetentionMenu
    FlipMasks <- PairFlips
    Temperatures = {85, 86}
    Holds = {1}
    DRAM_MAX_FAULTS = 2
    MaxAge = 2
    MaxCount = 1
PROPERTY
    DischargeDefeatsEcc
