------------------------------ MODULE DramAddress ------------------------------
(***************************************************************************)
(* The geometry of core/dram_model.c and the two translations between an   *)
(* address and a location [ COL | BA | BG | ROW ], as the topology tests   *)
(* (host/main.c tc1, memory_test_topology_pattern) and the scrub report    *)
(* use them: on buffers the caller keeps from call to call.                *)
(*                                                                         *)
(* Addresses and fields are sets of bit positions (BitFields).             *)
(***************************************************************************)
EXTENDS BitFields

CONSTANTS
    DRAM_SPEC_COL_BITS, DRAM_SPEC_BA_BITS, DRAM_SPEC_BG_BITS, DRAM_SPEC_ROW_BITS,
    Sizes,      \* the sizes in bytes dram_init is called with
    Addresses,  \* the addresses a caller may hold
    Locations   \* the locations a caller may ask for

\* The bits below the row: one row in every bank.
RowShift == DRAM_SPEC_COL_BITS + DRAM_SPEC_BA_BITS + DRAM_SPEC_BG_BITS

Location == [bg : SUBSET Nat, bank : SUBSET Nat, row : SUBSET Nat, column : SUBSET Nat]

ASSUME DramAddressAssumption ==
    /\ DRAM_SPEC_COL_BITS \in Nat /\ DRAM_SPEC_BA_BITS \in Nat
    /\ DRAM_SPEC_BG_BITS \in Nat /\ DRAM_SPEC_ROW_BITS \in Nat
    /\ Sizes \subseteq Nat
    /\ Addresses \subseteq SUBSET Nat
    /\ Locations \subseteq Location

VARIABLES
    size_bytes,
    ready,      \* the geometry describes at least one row
    row_bits,
    address,    \* the caller's address
    decoded     \* the caller's DramAddress

vars == <<size_bytes, ready, row_bits, address, decoded>>

-----------------------------------------------------------------------------
rows_available(size) == size \div 2^RowShift

\* Mutants: the loop goes one bit past the datasheet; it stops one bit early.
RowBitsPastLimit(size) ==
    {r \in 0 .. DRAM_SPEC_ROW_BITS + 1 :
        /\ 2^r <= rows_available(size)
        /\ r <= DRAM_SPEC_ROW_BITS => 2^(r + 1) > rows_available(size)}
RowBitsStrict(size) ==
    {r \in 0 .. DRAM_SPEC_ROW_BITS :
        /\ r > 0 => 2^r < rows_available(size)
        /\ r < DRAM_SPEC_ROW_BITS => 2^(r + 1) >= rows_available(size)}

\* The loop stops at the largest power of two of rows that fits, up to the
\* datasheet's.
RowBitsOf(size) ==
    {r \in 0 .. DRAM_SPEC_ROW_BITS :
        /\ 2^r <= rows_available(size)
        /\ r < DRAM_SPEC_ROW_BITS => 2^(r + 1) > rows_available(size)}

\* modelled_size_bytes is 2 to this power.
ModelledBits == RowShift + row_bits

Modelled(a) == ready /\ Fits(a, ModelledBits)

LocationOf(a) ==
    [column |-> Field(a, 0, DRAM_SPEC_COL_BITS),
     bank   |-> Field(a, DRAM_SPEC_COL_BITS, DRAM_SPEC_BA_BITS),
     bg     |-> Field(a, DRAM_SPEC_COL_BITS + DRAM_SPEC_BA_BITS, DRAM_SPEC_BG_BITS),
     row    |-> Field(a, RowShift, row_bits)]

\* Mutant: bank and bank group change places.
AddressSwapped(l) ==
    l.column
    \cup Place(l.bg, DRAM_SPEC_COL_BITS)
    \cup Place(l.bank, DRAM_SPEC_COL_BITS + DRAM_SPEC_BG_BITS)
    \cup Place(l.row, RowShift)

AddressOf(l) ==
    l.column
    \cup Place(l.bank, DRAM_SPEC_COL_BITS)
    \cup Place(l.bg, DRAM_SPEC_COL_BITS + DRAM_SPEC_BA_BITS)
    \cup Place(l.row, RowShift)

\* Mutant: the row is not checked.
InGeometryAnyRow(l) ==
    /\ ready
    /\ Fits(l.column, DRAM_SPEC_COL_BITS) /\ Fits(l.bank, DRAM_SPEC_BA_BITS)
    /\ Fits(l.bg, DRAM_SPEC_BG_BITS)

InGeometry(l) ==
    /\ ready
    /\ Fits(l.column, DRAM_SPEC_COL_BITS) /\ Fits(l.bank, DRAM_SPEC_BA_BITS)
    /\ Fits(l.bg, DRAM_SPEC_BG_BITS) /\ Fits(l.row, row_bits)

-----------------------------------------------------------------------------
Origin == [bg |-> {}, bank |-> {}, row |-> {}, column |-> {}]

Init ==
    /\ size_bytes = 0 /\ ready = FALSE /\ row_bits = 0
    /\ address = {} /\ decoded = Origin

\* dram_init with dram_geometry_init; sizes below one row are rejected.
dram_init(size) ==
    /\ ~ready
    /\ rows_available(size) > 0
    /\ size_bytes' = size /\ ready' = TRUE /\ row_bits' \in RowBitsOf(size)
    /\ UNCHANGED <<address, decoded>>

dram_free ==
    /\ size_bytes' = 0 /\ ready' = FALSE /\ row_bits' = 0
    /\ UNCHANGED <<address, decoded>>

\* The caller's next address or location.
Ask ==
    /\ \/ address' \in Addresses /\ UNCHANGED decoded
       \/ decoded' \in Locations /\ UNCHANGED address
    /\ UNCHANGED <<size_bytes, ready, row_bits>>

dram_decode_address ==
    /\ Modelled(address)
    /\ decoded' = LocationOf(address)
    /\ UNCHANGED <<size_bytes, ready, row_bits, address>>

dram_encode_address ==
    /\ InGeometry(decoded)
    /\ Modelled(AddressOf(decoded))
    /\ address' = AddressOf(decoded)
    /\ UNCHANGED <<size_bytes, ready, row_bits, decoded>>

Next ==
    \/ \E size \in Sizes : dram_init(size)
    \/ dram_free
    \/ Ask
    \/ dram_decode_address
    \/ dram_encode_address

Spec == Init /\ [][Next]_vars

-----------------------------------------------------------------------------
TypeOK ==
    /\ size_bytes \in Nat /\ ready \in BOOLEAN
    /\ row_bits \in Nat /\ row_bits <= DRAM_SPEC_ROW_BITS
    /\ address \in SUBSET Nat
    /\ decoded \in Location

(***************************************************************************)
(* The claim tc1 samples (host/main.c): the two translations are inverse,  *)
(* so two locations never share an address and no modelled address is out  *)
(* of reach of a location, for every geometry a size may give.             *)
(***************************************************************************)
RoundTrip ==
    [][/\ dram_encode_address => LocationOf(address') = decoded
       /\ dram_decode_address => InGeometry(decoded') /\ AddressOf(decoded') = address]_vars

(***************************************************************************)
(* The check at the end of dram_encode_address never fires: a location     *)
(* inside the geometry has an address inside the modelled memory.          *)
(***************************************************************************)
EncodeNeverLeavesMemory == InGeometry(decoded) => Modelled(AddressOf(decoded))

(***************************************************************************)
(* The geometry is the largest one there is room for: it fits the          *)
(* allocation, and one more row bit would exceed it or the datasheet.      *)
(***************************************************************************)
GeometryIsLargest ==
    ready =>
        /\ 2^ModelledBits <= size_bytes
        /\ row_bits = DRAM_SPEC_ROW_BITS \/ 2^(ModelledBits + 1) > size_bytes

==============================================================================
