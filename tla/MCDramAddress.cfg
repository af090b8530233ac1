SPECIFICATION Spec
CONSTANTS
    DRAM_SPEC_COL_BITS = 1
    DRAM_SPEC_BA_BITS = 1
    DRAM_SPEC_BG_BITS = 1
    DRAM_SPEC_ROW_BITS = 2
    Sizes <- MCSizes
    Addresses <- MCAddresses
    Locations <- MCLocations
INVARIANTS
    TypeOK
    EncodeNeverLeavesMemory
    GeometryIsLargest
PROPERTY
    RoundTrip
