SPECIFICATION Spec
CONSTANTS
    ColumnBits = 10
    BaBits = 2
    BgBits = 3
    RowBits = 16
    CidBits = {1, 2}
    Packed <- MCPacked
INVARIANTS
    TypeOK
    BankMapTellsThemApart
PROPERTIES
    NoAliasing
    RowsSpreadOverBanks
