SPECIFICATION Spec
CONSTANTS
    DataBit <- MCDataBit
    ParityBit <- TableParityBit
    Label <- TableLabel
    Samples <- MCSamples
    MaxFlips = 2
INVARIANTS
    TypeOK
    SingleErrorCorrected
    DoubleErrorNeverClean
    CorrectionLeavesCodeword
