SPECIFICATION WorkbenchSpec
CONSTANTS
    DataBit <- MCDataBit
    ParityBit <- TableParityBit
    Label <- TableLabel
    Codewords = 10
    Word <- MCWord
    WordOf <- MCWordOf
    FaultMenu <- MCFaultMenu
    FlipMasks = {}
    Temperatures = {}
    Holds = {}
    DRAM_MAX_FAULTS = 32
    MaxAge = 200
    MaxCount = 2000
    Ranges = {}
    Patterns = {}
    Layouts = {}
    Tags <- MCTags
    SMOKE_ADDR <- MCSmoke
    BITFLIP_ADDR <- MCBitflip
    STUCK_ADDR <- MCStuck
    SOFT_ADDR <- MCSoft
    MISCORRECT_ADDR <- MCMiscorrect
    UNCORR_ADDR <- MCUncorr
    MATRIX_ADDR <- MCMatrix
    MATRIX_VICTIM = 9
    REGION <- MCRegion
    RETENTION <- MCRetention
    TOPOLOGY <- MCTopology
    ShmooTemps <- MCTemps
    ShmooPeriods <- MCPeriods
    Options <- AloneOptions
    DEMO_REGION <- MCRegion
    DEMO_STUCK_ADDR <- MCStuck
    RealWords = 3
PROPERTY
    EachRunsAlone
