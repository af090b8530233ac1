-------------------------- MODULE DramAddressProofs --------------------------
(***************************************************************************)
(* Theorems about DramAddress for every geometry, address and location.    *)
(***************************************************************************)
EXTENDS DramAddress, FiniteSets, FiniteSetTheorems, TLAPS

BaShift == DRAM_SPEC_COL_BITS
BgShift == DRAM_SPEC_COL_BITS + DRAM_SPEC_BA_BITS

\* Each field of an address starts where the one below it ends.
LEMMA Shifts ==
  /\ DRAM_SPEC_COL_BITS \in Nat /\ DRAM_SPEC_BA_BITS \in Nat
  /\ DRAM_SPEC_BG_BITS \in Nat /\ DRAM_SPEC_ROW_BITS \in Nat
  /\ BaShift \in Nat /\ BgShift \in Nat /\ RowShift \in Nat
  /\ BaShift = DRAM_SPEC_COL_BITS /\ BgShift = BaShift + DRAM_SPEC_BA_BITS
  /\ RowShift = BgShift + DRAM_SPEC_BG_BITS
BY DramAddressAssumption DEF BaShift, BgShift, RowShift

\* A field that is cut out of an address fits its width.
LEMMA FieldType ==
  ASSUME NEW a, NEW s, NEW w \in Nat
  PROVE  Field(a, s, w) \in SUBSET Nat /\ Fits(Field(a, s, w), w)
BY DEF Field, Fits

\* A field that is shifted into place is a set of bit positions.
LEMMA PlaceType ==
  ASSUME NEW f \in SUBSET Nat, NEW s \in Nat
  PROVE  Place(f, s) \in SUBSET Nat
BY DEF Place

\* Decoding gives fields that fit the geometry.
LEMMA LocationType ==
  ASSUME TypeOK, NEW a PROVE LocationOf(a) \in Location
BY FieldType, Shifts DEF LocationOf, Location, TypeOK, BaShift, BgShift

\* Encoding a location gives an address.
LEMMA AddressType ==
  ASSUME NEW l \in Location PROVE AddressOf(l) \in SUBSET Nat
<1>1. /\ l.column \in SUBSET Nat /\ l.bank \in SUBSET Nat
      /\ l.bg \in SUBSET Nat /\ l.row \in SUBSET Nat
  BY DEF Location
<1> QED BY <1>1, PlaceType, Shifts DEF AddressOf, BaShift, BgShift

\* dram_decode_address never hands out a field wider than the geometry has.
THEOREM TypeCorrect == Spec => []TypeOK
<1>1. Init => TypeOK
  <2>1. Origin \in Location
    BY DEF Origin, Location
  <2>2. 0 \in Nat /\ 0 <= DRAM_SPEC_ROW_BITS /\ {} \in SUBSET Nat
    BY Shifts
  <2> QED BY <2>1, <2>2 DEF Init, TypeOK
<1>2. ASSUME TypeOK, [Next]_vars PROVE TypeOK'
  <2>1. ASSUME NEW size \in Sizes, dram_init(size) PROVE TypeOK'
    <3>1. row_bits' \in Nat /\ row_bits' <= DRAM_SPEC_ROW_BITS
      BY <2>1, Shifts DEF dram_init, RowBitsOf
    <3> QED BY <1>2, <2>1, <3>1, DramAddressAssumption DEF TypeOK, dram_init
  <2>2. ASSUME dram_free PROVE TypeOK'
    <3>1. 0 \in Nat /\ 0 <= DRAM_SPEC_ROW_BITS
      BY Shifts
    <3> QED BY <1>2, <2>2, <3>1 DEF TypeOK, dram_free
  <2>3. ASSUME Ask PROVE TypeOK'
    BY <1>2, <2>3, DramAddressAssumption DEF TypeOK, Ask
  <2>4. ASSUME dram_decode_address PROVE TypeOK'
    BY <1>2, <2>4, LocationType DEF TypeOK, dram_decode_address
  <2>5. ASSUME dram_encode_address PROVE TypeOK'
    <3>1. AddressOf(decoded) \in SUBSET Nat
      BY <1>2, AddressType DEF TypeOK
    <3> QED BY <1>2, <2>5, <3>1 DEF TypeOK, dram_encode_address
  <2>6. CASE UNCHANGED vars
    BY <1>2, <2>6 DEF TypeOK, vars
  <2> QED BY <1>2, <2>1, <2>2, <2>3, <2>4, <2>5, <2>6 DEF Next
<1> QED BY <1>1, <1>2, PTL DEF Spec

-----------------------------------------------------------------------------
(* The fields are adjacent and do not overlap.                              *)

\* The part of an encoded address that a field of it occupies.
LEMMA Occupies ==
  ASSUME NEW f, NEW s \in Nat, NEW w \in Nat, Fits(f, w)
  PROVE  /\ \A i \in Place(f, s) : i \in Nat /\ s <= i /\ i < s + w
         /\ \A i \in Nat : i \in f <=> (i < w /\ i + s \in Place(f, s))
<1>1. \A i \in f : i \in Nat /\ i < w
  BY DEF Fits
<1> QED BY <1>1 DEF Place

\* An address inside the geometry is made of the fields of its location.
LEMMA EncodeOfDecode ==
  ASSUME TypeOK, NEW a \in SUBSET Nat, Modelled(a)
  PROVE  InGeometry(LocationOf(a)) /\ AddressOf(LocationOf(a)) = a
<1> DEFINE l == LocationOf(a)
<1>1. InGeometry(l)
  BY FieldType, Shifts DEF LocationOf, InGeometry, Modelled, TypeOK
<1>2. /\ l.column = Field(a, 0, DRAM_SPEC_COL_BITS)
      /\ l.bank = Field(a, BaShift, DRAM_SPEC_BA_BITS)
      /\ l.bg = Field(a, BgShift, DRAM_SPEC_BG_BITS)
      /\ l.row = Field(a, RowShift, row_bits)
  BY DEF LocationOf, BaShift, BgShift
<1>3. \A s, w \in Nat : \A i \in Nat :
        i \in Place(Field(a, s, w), s) <=> (s <= i /\ i < s + w /\ i \in a)
  <2> SUFFICES ASSUME NEW s \in Nat, NEW w \in Nat, NEW i \in Nat
               PROVE  i \in Place(Field(a, s, w), s) <=> (s <= i /\ i < s + w /\ i \in a)
    OBVIOUS
  <2>1. ASSUME i \in Place(Field(a, s, w), s) PROVE s <= i /\ i < s + w /\ i \in a
    BY <2>1 DEF Place, Field
  <2>2. ASSUME s <= i, i < s + w, i \in a PROVE i \in Place(Field(a, s, w), s)
    <3>1. i - s \in 0 .. w - 1 /\ (i - s) + s = i
      BY <2>2
    <3> QED BY <2>2, <3>1 DEF Place, Field
  <2> QED BY <2>1, <2>2
<1>4. \A i \in Nat : i \in l.column <=> (i < BaShift /\ i \in a)
  BY <1>2, Shifts DEF Field
<1>5. AddressOf(l) = l.column \cup Place(l.bank, BaShift) \cup Place(l.bg, BgShift)
                        \cup Place(l.row, RowShift)
  BY DEF AddressOf, BaShift, BgShift
<1>6. AddressOf(l) \in SUBSET Nat
  BY LocationType, AddressType
<1>7. \A i \in a : i < RowShift + row_bits
  BY Shifts DEF Modelled, Fits, ModelledBits, TypeOK
<1> HIDE DEF l
<1>8. ASSUME NEW i \in Nat PROVE i \in AddressOf(l) <=> i \in a
  <2>1. row_bits \in Nat
    BY DEF TypeOK
  <2>2. /\ i \in Place(l.bank, BaShift) <=> (BaShift <= i /\ i < BgShift /\ i \in a)
        /\ i \in Place(l.bg, BgShift) <=> (BgShift <= i /\ i < RowShift /\ i \in a)
        /\ i \in Place(l.row, RowShift) <=> (RowShift <= i /\ i < RowShift + row_bits /\ i \in a)
    BY <1>2, <1>3, <2>1, Shifts
  <2> QED BY <1>4, <1>5, <1>7, <2>1, <2>2, Shifts
<1> QED BY <1>1, <1>6, <1>8 DEF l

\* A location inside the geometry is read back from its address.
LEMMA DecodeOfEncode ==
  ASSUME TypeOK, NEW l \in Location, InGeometry(l)
  PROVE  Modelled(AddressOf(l)) /\ LocationOf(AddressOf(l)) = l
<1> DEFINE a == AddressOf(l)
<1>1. /\ Fits(l.column, DRAM_SPEC_COL_BITS) /\ Fits(l.bank, DRAM_SPEC_BA_BITS)
      /\ Fits(l.bg, DRAM_SPEC_BG_BITS) /\ Fits(l.row, row_bits) /\ ready
  BY DEF InGeometry
<1>2. a = l.column \cup Place(l.bank, BaShift) \cup Place(l.bg, BgShift)
            \cup Place(l.row, RowShift)
  BY DEF AddressOf, BaShift, BgShift
<1>3. row_bits \in Nat
  BY DEF TypeOK
<1>4. /\ \A i \in l.column : i \in Nat /\ i < BaShift
      /\ \A i \in Place(l.bank, BaShift) : i \in Nat /\ BaShift <= i /\ i < BgShift
      /\ \A i \in Place(l.bg, BgShift) : i \in Nat /\ BgShift <= i /\ i < RowShift
      /\ \A i \in Place(l.row, RowShift) : i \in Nat /\ RowShift <= i /\ i < RowShift + row_bits
  BY <1>1, <1>3, Occupies, Shifts DEF Fits
<1>5. Modelled(a)
  BY <1>1, <1>2, <1>3, <1>4, Shifts DEF Modelled, Fits, ModelledBits
<1> HIDE DEF a
<1>6. l.column = Field(a, 0, DRAM_SPEC_COL_BITS)
  BY <1>1, <1>2, <1>4, Shifts DEF Field, Fits
<1>7. l.bank = Field(a, BaShift, DRAM_SPEC_BA_BITS)
  <2>1. \A i \in 0 .. DRAM_SPEC_BA_BITS - 1 : i + BaShift \in a <=> i + BaShift \in Place(l.bank, BaShift)
    BY <1>2, <1>4, Shifts
  <2>2. \A i \in Nat : i \in l.bank <=> (i < DRAM_SPEC_BA_BITS /\ i + BaShift \in Place(l.bank, BaShift))
    BY <1>1, Occupies, Shifts
  <2>3. \A i \in l.bank : i \in Nat
    BY <1>1 DEF Fits
  <2> QED BY <2>1, <2>2, <2>3, Shifts DEF Field
<1>8. l.bg = Field(a, BgShift, DRAM_SPEC_BG_BITS)
  <2>1. \A i \in 0 .. DRAM_SPEC_BG_BITS - 1 : i + BgShift \in a <=> i + BgShift \in Place(l.bg, BgShift)
    BY <1>2, <1>4, Shifts
  <2>2. \A i \in Nat : i \in l.bg <=> (i < DRAM_SPEC_BG_BITS /\ i + BgShift \in Place(l.bg, BgShift))
    BY <1>1, Occupies, Shifts
  <2>3. \A i \in l.bg : i \in Nat
    BY <1>1 DEF Fits
  <2> QED BY <2>1, <2>2, <2>3, Shifts DEF Field
<1>9. l.row = Field(a, RowShift, row_bits)
  <2>1. \A i \in 0 .. row_bits - 1 : i + RowShift \in a <=> i + RowShift \in Place(l.row, RowShift)
    BY <1>2, <1>3, <1>4, Shifts
  <2>2. \A i \in Nat : i \in l.row <=> (i < row_bits /\ i + RowShift \in Place(l.row, RowShift))
    BY <1>1, <1>3, Occupies, Shifts
  <2>3. \A i \in l.row : i \in Nat
    BY <1>1 DEF Fits
  <2>4. \A i \in Nat : i \in 0 .. row_bits - 1 <=> i < row_bits
    BY <1>3
  <2>5. \A i \in l.row : i \in 0 .. row_bits - 1 /\ i + RowShift \in a
    BY <2>1, <2>2, <2>3, <2>4
  <2>6. \A i \in 0 .. row_bits - 1 : i + RowShift \in a => i \in l.row
    BY <1>3, <2>1, <2>2
  <2> QED BY <2>5, <2>6 DEF Field
<1>10. LocationOf(a) = l
  <2>1. LocationOf(a) = [column |-> l.column, bank |-> l.bank, bg |-> l.bg, row |-> l.row]
    BY <1>6, <1>7, <1>8, <1>9 DEF LocationOf, BaShift, BgShift
  <2>2. l = [column |-> l.column, bank |-> l.bank, bg |-> l.bg, row |-> l.row]
    BY DEF Location
  <2> QED BY <2>1, <2>2
<1> QED BY <1>5, <1>10 DEF a

(***************************************************************************)
(* dram_encode_address and dram_decode_address undo each other, whatever   *)
(* the geometry: tc1 passes for every location of every memory.            *)
(***************************************************************************)
THEOREM AddressesRoundTrip == Spec => RoundTrip
<1>1. ASSUME TypeOK, dram_encode_address PROVE LocationOf(address') = decoded
  <2>1. LocationOf(AddressOf(decoded)) = decoded
    BY <1>1, DecodeOfEncode DEF TypeOK, dram_encode_address
  <2>2. address' = AddressOf(decoded)
    BY <1>1 DEF dram_encode_address
  <2> QED BY <2>1, <2>2
<1>2. ASSUME TypeOK, dram_decode_address
      PROVE  InGeometry(decoded') /\ AddressOf(decoded') = address
  <2>1. InGeometry(LocationOf(address)) /\ AddressOf(LocationOf(address)) = address
    BY <1>2, EncodeOfDecode DEF TypeOK, dram_decode_address
  <2>2. decoded' = LocationOf(address)
    BY <1>2 DEF dram_decode_address
  <2> QED BY <2>1, <2>2
<1>3. TypeOK /\ [Next]_vars =>
        [/\ dram_encode_address => LocationOf(address') = decoded
         /\ dram_decode_address => InGeometry(decoded') /\ AddressOf(decoded') = address]_vars
  BY <1>1, <1>2
<1> QED BY <1>3, TypeCorrect, PTL DEF Spec, RoundTrip

(***************************************************************************)
(* A location inside the geometry always has an address in the modelled    *)
(* memory: the last check of dram_encode_address never fires.              *)
(***************************************************************************)
THEOREM EncodeStaysInside == Spec => []EncodeNeverLeavesMemory
<1>1. TypeOK => EncodeNeverLeavesMemory
  BY DecodeOfEncode DEF TypeOK, EncodeNeverLeavesMemory
<1> QED BY <1>1, TypeCorrect, PTL

-----------------------------------------------------------------------------
(* Powers of two.  The provers know nothing of an exponent that is not a    *)
(* number, so 2^n is read as the number of subsets of a set of n bits.      *)

\* A set of n bits has 2^n subsets.
LEMMA SubsetsOfBits ==
  ASSUME NEW S, IsFiniteSet(S)
  PROVE  /\ IsFiniteSet(SUBSET S) /\ Cardinality(SUBSET S) = 2^Cardinality(S)
         /\ 2^Cardinality(S) \in Nat /\ 2^Cardinality(S) > 0
<1>1. IsFiniteSet(SUBSET S) /\ Cardinality(SUBSET S) = 2^Cardinality(S)
  BY FS_SUBSET
<1>2. Cardinality(SUBSET S) \in Nat
  BY <1>1, FS_CardinalityType
<1>3. Cardinality(SUBSET S) # 0
  <2>1. {} \in SUBSET S
    OBVIOUS
  <2> QED BY <1>1, <2>1, FS_EmptySet
<1> QED BY <1>1, <1>2, <1>3

LEMMA PowerType == ASSUME NEW n \in Nat PROVE 2^n \in Nat /\ 2^n > 0
<1>1. IsFiniteSet(1 .. n) /\ Cardinality(1 .. n) = n
  BY FS_Interval
<1> QED BY <1>1, SubsetsOfBits

\* A subset of m + n bits is a subset of the lower m and one of the upper n.
LEMMA PowerAdds == ASSUME NEW m \in Nat, NEW n \in Nat PROVE 2^(m + n) = 2^m * 2^n
<1> DEFINE Low == 1 .. m
           High == m + 1 .. m + n
           All == 1 .. m + n
           Split == [s \in SUBSET All |-> <<s \cap Low, s \cap High>>]
<1>1. /\ IsFiniteSet(Low) /\ Cardinality(Low) = m
      /\ IsFiniteSet(High) /\ Cardinality(High) = n
      /\ IsFiniteSet(All) /\ Cardinality(All) = m + n
  <2>1. IsFiniteSet(Low) /\ Cardinality(Low) = m
    BY FS_Interval
  <2>2. IsFiniteSet(High) /\ Cardinality(High) = n
    <3>1. IsFiniteSet(High) /\ Cardinality(High) = IF m + 1 > m + n THEN 0 ELSE (m + n) - (m + 1) + 1
      BY FS_Interval, m + 1 \in Int, m + n \in Int
    <3> QED BY <3>1
  <2>3. IsFiniteSet(All) /\ Cardinality(All) = m + n
    BY FS_Interval, m + n \in Nat
  <2> QED BY <2>1, <2>2, <2>3
<1>2. All = Low \cup High /\ Low \cap High = {}
  OBVIOUS
<1> HIDE DEF Low, High, All
<1>3. Split \in Bijection(SUBSET All, (SUBSET Low) \X (SUBSET High))
  <2>1. Split \in [SUBSET All -> (SUBSET Low) \X (SUBSET High)]
    OBVIOUS
  <2>2. ASSUME NEW s \in SUBSET All, NEW t \in SUBSET All, Split[s] = Split[t] PROVE s = t
    <3>1. s \cap Low = t \cap Low /\ s \cap High = t \cap High
      BY <2>2
    <3> QED BY <1>2, <3>1
  <2>3. ASSUME NEW p \in (SUBSET Low) \X (SUBSET High)
        PROVE  \E s \in SUBSET All : Split[s] = p
    <3>1. PICK u \in SUBSET Low, v \in SUBSET High : p = <<u, v>>
      OBVIOUS
    <3>2. u \cup v \in SUBSET All
      BY <1>2
    <3>3. (u \cup v) \cap Low = u /\ (u \cup v) \cap High = v
      BY <1>2
    <3>4. Split[u \cup v] = <<u, v>>
      BY <3>2, <3>3
    <3> QED BY <3>1, <3>2, <3>4
  <2> HIDE DEF Split
  <2> QED BY <2>1, <2>2, <2>3 DEF Bijection, Injection, Surjection, IsInjective
<1> HIDE DEF Split
<1>4. /\ IsFiniteSet(SUBSET Low) /\ Cardinality(SUBSET Low) = 2^m
      /\ IsFiniteSet(SUBSET High) /\ Cardinality(SUBSET High) = 2^n
      /\ IsFiniteSet(SUBSET All) /\ Cardinality(SUBSET All) = 2^(m + n)
  BY <1>1, SubsetsOfBits
<1>5. Cardinality((SUBSET Low) \X (SUBSET High)) = 2^m * 2^n
  <2>1. Cardinality((SUBSET Low) \X (SUBSET High)) = Cardinality(SUBSET Low) * Cardinality(SUBSET High)
    BY <1>4, FS_Product, Zenon
  <2> QED BY <1>4, <2>1
<1>6. ExistsBijection(SUBSET All, (SUBSET Low) \X (SUBSET High))
  BY <1>3 DEF ExistsBijection
<1> QED BY <1>4, <1>5, <1>6, FS_Bijection

-----------------------------------------------------------------------------
\* What dram_geometry_init leaves, as it left it: the row bits are those of
\* the size, and the size has room for a row.
GeometryOfSize ==
    ready => size_bytes \in Nat /\ rows_available(size_bytes) > 0
             /\ row_bits \in RowBitsOf(size_bytes)

\* The rows of the largest geometry fill the allocation but for less than
\* one more bit of them.
LEMMA RowsFillSize ==
  ASSUME NEW size \in Nat, NEW r \in Nat, NEW s \in Nat
  PROVE  /\ 2^r <= size \div 2^s => 2^(s + r) <= size
         /\ 2^r > size \div 2^s => 2^(s + r) > size
<1> DEFINE unit == 2^s
           rows == size \div unit
           power == 2^r
<1>1. unit \in Nat /\ unit > 0 /\ power \in Nat
  BY PowerType
<1>2. 2^(s + r) = unit * power
  BY PowerAdds
<1> HIDE DEF unit, power
<1>3. rows \in Nat /\ unit * rows <= size /\ size < unit * (rows + 1)
  BY <1>1
<1> HIDE DEF rows
<1>4. ASSUME power <= rows PROVE unit * power <= size
  <2>1. unit * power <= unit * rows
    BY <1>1, <1>3, <1>4
  <2> QED BY <1>1, <1>3, <2>1
<1>5. ASSUME power > rows PROVE unit * power > size
  <2>1. rows + 1 <= power
    BY <1>1, <1>3, <1>5
  <2>2. unit * (rows + 1) <= unit * power
    BY <1>1, <1>3, <2>1
  <2> QED BY <1>1, <1>3, <2>2
<1> QED BY <1>2, <1>4, <1>5 DEF rows, unit, power

(***************************************************************************)
(* The geometry dram_init sets up is the largest power of two that fits    *)
(* the allocation and the datasheet, for every size it is called with.     *)
(***************************************************************************)
THEOREM GeometryFillsMemory == Spec => []GeometryIsLargest
<1>1. Init => GeometryOfSize
  BY DEF Init, GeometryOfSize
<1>2. ASSUME GeometryOfSize, [Next]_vars PROVE GeometryOfSize'
  <2>1. ASSUME NEW size \in Sizes, dram_init(size) PROVE GeometryOfSize'
    BY <2>1, DramAddressAssumption DEF GeometryOfSize, dram_init, RowBitsOf, rows_available, RowShift
  <2>2. ASSUME dram_free PROVE GeometryOfSize'
    BY <2>2 DEF GeometryOfSize, dram_free
  <2>3. CASE UNCHANGED <<size_bytes, ready, row_bits>>
    BY <1>2, <2>3 DEF GeometryOfSize, RowBitsOf, rows_available, RowShift
  <2>4. Ask \/ dram_decode_address \/ dram_encode_address \/ UNCHANGED vars
          => UNCHANGED <<size_bytes, ready, row_bits>>
    BY DEF Ask, dram_decode_address, dram_encode_address, vars
  <2> QED BY <1>2, <2>1, <2>2, <2>3, <2>4 DEF Next
<1>3. GeometryOfSize => GeometryIsLargest
  <2> SUFFICES ASSUME GeometryOfSize, ready PROVE GeometryIsLargest
    BY DEF GeometryIsLargest
  <2>1. /\ size_bytes \in Nat /\ row_bits \in Nat /\ row_bits <= DRAM_SPEC_ROW_BITS
        /\ 2^row_bits <= size_bytes \div 2^RowShift
        /\ row_bits < DRAM_SPEC_ROW_BITS => 2^(row_bits + 1) > size_bytes \div 2^RowShift
    BY Shifts DEF GeometryOfSize, RowBitsOf, rows_available
  <2>2. 2^(RowShift + row_bits) <= size_bytes
    BY <2>1, RowsFillSize, Shifts
  <2>3. ASSUME row_bits # DRAM_SPEC_ROW_BITS PROVE 2^(RowShift + (row_bits + 1)) > size_bytes
    <3>1. row_bits + 1 \in Nat /\ row_bits < DRAM_SPEC_ROW_BITS
      BY <2>1, <2>3, Shifts
    <3> QED BY <2>1, <3>1, RowsFillSize, Shifts
  <2>4. RowShift + (row_bits + 1) = ModelledBits + 1
    BY <2>1, Shifts DEF ModelledBits
  <2> QED BY <2>2, <2>3, <2>4 DEF GeometryIsLargest, ModelledBits
<1> QED BY <1>1, <1>2, <1>3, PTL DEF Spec

==============================================================================
