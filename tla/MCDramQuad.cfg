SPECIFICATION Spec
CONSTANTS
    DataBit <- QuadBit
    ParityBit <- QuadParityBit
    Label <- QuadLabel
    Codewords = 1
    Word <- MCWord
    WordOf <- QuadWordOf
    FaultMenu <- QuadMenu
    FlipMasks <- QuadFlips
    Temperatures = {95}
    Holds = {1}
    DRAM_MAX_FAULTS = 1
    MaxAge = 1
    MaxCount = 1
PROPERTIES
    ScrubTransparent
    SecondCorrectionIsHard
