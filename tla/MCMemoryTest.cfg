SPECIFICATION TestSpec
CONSTANTS
    DataBit <- MCDataBit
    ParityBit <- TableParityBit
    Label <- TableLabel
    Codewords = 2
    Word <- MCWord
    WordOf <- MCWordOf
    FaultMenu <- MCMenu
    FlipMasks <- MCFlips
    Temperatures = {}
    Holds = {}
    DRAM_MAX_FAULTS = 1
    MaxAge = 0
    MaxCount = 40
    Ranges <- MCRanges
    Patterns <- MCPatterns
    Layouts <- MCLayouts
    Tags <- MCTags
INVARIANT
    TestTypeOK
PROPERTIES
    MarchDetectsEveryFault
    NoFalseAlarm
    TopologyFindsAliases
    NoSilentEscape
    PassMeansPatternHolds
