SPECIFICATION Spec
CONSTANTS
    DLOG_LINE_MAX = 8
    CHUNK_MAX = 5
    TMP_MAX = 4
    Formats <- MCFormats
    Platforms = {"host", "uefi"}
INVARIANTS
    BuffersHold
    PrintsTheLine
PROPERTY
    CallReturns
