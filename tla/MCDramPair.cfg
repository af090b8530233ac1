SPECIFICATION Spec
CONSTANTS
    DataBit <- PairBit
    ParityBit <- PairParityBit
    Label <- PairLabel
    Codewords = 2
    Word <- MCWord
    WordOf <- PairWordOf
    FaultMenu <- PairMenu
    FlipMasks <- PairFlips
    Temperatures = {}
    Holds = {}
    DRAM_MAX_FAULTS = 2
    MaxAge = 2
    MaxCount = 1
INVARIANT
    TypeOK
PROPERTIES
    UncorrectableSurvivesScrub
    WriteReadsBack
