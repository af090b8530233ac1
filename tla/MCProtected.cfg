SPECIFICATION ProtectedSpec
CONSTANTS
    DataBit <- MCDataBit
    ParityBit <- MCParityBit
    Label <- MCLabel
    Codewords = 2
    Word <- MCWord
    WordOf <- MCWordOf
    FaultMenu <- CoveredMenu
    FlipMasks <- MCFlips
    Temperatures = {95}
    Holds = {1}
    DRAM_MAX_FAULTS = 2
    MaxAge = 1
    MaxCount = 1
INVARIANT
    NeverUncorrectable
PROPERTY
    RefinesIdealMemory
VIEW
    MCView
