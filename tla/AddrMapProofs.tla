---------------------------- MODULE AddrMapProofs ----------------------------
(***************************************************************************)
(* Theorems about AddrMap for all field widths, profiles and addresses.    *)
(***************************************************************************)
EXTENDS AddrMap, TLAPS

\* Equal fields have equal bits.
LEMMA FieldAgrees ==
  ASSUME NEW a, NEW b, NEW shift \in Nat, NEW width \in Nat,
         Field(a, shift, width) = Field(b, shift, width),
         NEW i \in Nat, shift <= i, i < shift + width
  PROVE  i \in a <=> i \in b
<1>1. i - shift \in 0 .. width - 1 /\ (i - shift) + shift = i
  OBVIOUS
<1>2. /\ i - shift \in Field(a, shift, width) <=> i \in a
      /\ i - shift \in Field(b, shift, width) <=> i \in b
  BY <1>1 DEF Field
<1> QED BY <1>2

\* The exclusive or with the same bits loses nothing.
LEMMA SymDiffCancels ==
  ASSUME NEW x, NEW y, NEW h, SymDiff(x, h) = SymDiff(y, h)
  PROVE  x = y
BY DEF SymDiff

\* Each field of an address starts where the one below it ends.
LEMMA Shifts ==
  /\ BaShift \in Nat /\ BgShift \in Nat /\ RowShift \in Nat /\ CidShift \in Nat
  /\ ColumnBits \in Nat /\ BaBits \in Nat /\ BgBits \in Nat /\ RowBits \in Nat
  /\ BaShift = ColumnBits /\ BgShift = BaShift + BaBits
  /\ RowShift = BgShift + BgBits /\ CidShift = RowShift + RowBits
BY AddrMapAssumption DEF BaShift, BgShift, RowShift, CidShift

\* The fields of the linear map cover every bit of an address of the profile.
LEMMA LinearInjective ==
  ASSUME NEW c \in Nat, NEW a \in SUBSET Nat, NEW b \in SUBSET Nat,
         InProfile(a, c), InProfile(b, c), map_linear(a, c) = map_linear(b, c)
  PROVE  a = b
<1>1. /\ Field(a, 0, ColumnBits) = Field(b, 0, ColumnBits)
      /\ Field(a, BaShift, BaBits) = Field(b, BaShift, BaBits)
      /\ Field(a, BgShift, BgBits) = Field(b, BgShift, BgBits)
      /\ Field(a, RowShift, RowBits) = Field(b, RowShift, RowBits)
      /\ Field(a, CidShift, c) = Field(b, CidShift, c)
      /\ Field(a, CidShift + c, 1) = Field(b, CidShift + c, 1)
  BY DEF map_linear
<1>2. ASSUME NEW i \in Nat, i < CidShift + c + 1 PROVE i \in a <=> i \in b
  <2>1. CASE i < BaShift
    BY <1>1, <2>1, FieldAgrees, Shifts
  <2>2. CASE BaShift <= i /\ i < BgShift
    BY <1>1, <2>2, FieldAgrees, Shifts
  <2>3. CASE BgShift <= i /\ i < RowShift
    BY <1>1, <2>3, FieldAgrees, Shifts
  <2>4. CASE RowShift <= i /\ i < CidShift
    BY <1>1, <2>4, FieldAgrees, Shifts
  <2>5. CASE CidShift <= i /\ i < CidShift + c
    BY <1>1, <2>5, FieldAgrees, Shifts
  <2>6. CASE i = CidShift + c
    BY <1>1, <2>6, FieldAgrees, Shifts
  <2> QED BY <1>2, <2>1, <2>2, <2>3, <2>4, <2>5, <2>6, Shifts
<1>3. \A i \in a \cup b : i \in Nat /\ i < CidShift + c + 1
  BY Shifts DEF InProfile, Fits
<1> QED BY <1>2, <1>3

\* Knowing the row, the hash and the interleave can be undone.
LEMMA MapsInjective ==
  ASSUME NEW c \in Nat, NEW m \in MapName, NEW a \in SUBSET Nat, NEW b \in SUBSET Nat,
         InProfile(a, c), InProfile(b, c), Mapped(m, a, c) = Mapped(m, b, c)
  PROVE  a = b
<1> DEFINE x == map_linear(a, c)
<1> DEFINE y == map_linear(b, c)
<1>1. \A z \in {x, y} : z = [column |-> z.column, ba |-> z.ba, bg |-> z.bg,
                             row |-> z.row, cid |-> z.cid, cs |-> z.cs]
  BY DEF map_linear
<1>2. SUFFICES x = y
  BY LinearInjective
<1>3. CASE m = "linear"
  BY <1>3 DEF Mapped
<1>4. CASE m = "bank_hash"
  <2> DEFINE u(z) == [z EXCEPT !.bg = SymDiff(@, Field(z.row, 0, BgBits)),
                               !.ba = SymDiff(@, Field(z.row, BgBits, BaBits))]
  <2>1. u(x) = u(y)
    BY <1>4 DEF Mapped, map_bank_hash
  <2> HIDE DEF x, y
  <2>2. /\ \A z \in {x, y} : /\ u(z).row = z.row /\ u(z).column = z.column
                             /\ u(z).cid = z.cid /\ u(z).cs = z.cs
                             /\ u(z).bg = SymDiff(z.bg, Field(z.row, 0, BgBits))
                             /\ u(z).ba = SymDiff(z.ba, Field(z.row, BgBits, BaBits))
    BY <1>1
  <2> HIDE DEF u
  <2>3. x.row = y.row /\ x.column = y.column /\ x.cid = y.cid /\ x.cs = y.cs
    BY <2>1, <2>2
  <2>4. x.bg = y.bg
    <3>1. SymDiff(x.bg, Field(x.row, 0, BgBits)) = SymDiff(y.bg, Field(x.row, 0, BgBits))
      BY <2>1, <2>2, <2>3
    <3> QED BY <3>1, SymDiffCancels
  <2>5. x.ba = y.ba
    <3>1. SymDiff(x.ba, Field(x.row, BgBits, BaBits))
            = SymDiff(y.ba, Field(x.row, BgBits, BaBits))
      BY <2>1, <2>2, <2>3
    <3> QED BY <3>1, SymDiffCancels
  <2> QED BY <1>1, <2>3, <2>4, <2>5
<1>5. CASE m = "rank_interleave"
  <2> DEFINE u(z) == [z EXCEPT !.cs = SymDiff(@, Field(z.row, 0, 1))]
  <2>1. u(x) = u(y)
    BY <1>5 DEF Mapped, map_rank_interleave
  <2> HIDE DEF x, y
  <2>2. /\ \A z \in {x, y} : /\ u(z).row = z.row /\ u(z).column = z.column
                             /\ u(z).cid = z.cid /\ u(z).bg = z.bg /\ u(z).ba = z.ba
                             /\ u(z).cs = SymDiff(z.cs, Field(z.row, 0, 1))
    BY <1>1
  <2> HIDE DEF u
  <2>3. /\ x.row = y.row /\ x.column = y.column /\ x.cid = y.cid
        /\ x.bg = y.bg /\ x.ba = y.ba
    BY <2>1, <2>2
  <2>4. x.cs = y.cs
    <3>1. SymDiff(x.cs, Field(x.row, 0, 1)) = SymDiff(y.cs, Field(x.row, 0, 1))
      BY <2>1, <2>2, <2>3
    <3> QED BY <3>1, SymDiffCancels
  <2> QED BY <1>1, <2>3, <2>4
<1> QED BY <1>3, <1>4, <1>5 DEF MapName

-----------------------------------------------------------------------------
\* The caller's location is that of the address decoded last.
OutIsMapped ==
    /\ profile \in CidBits /\ map \in MapName
    /\ packed \in SUBSET Nat /\ InProfile(packed, profile)
    /\ out = Mapped(map, packed, profile)

\* The location the caller holds is always that of the address decoded last.
LEMMA OutIsMappedInvariant == Spec => []OutIsMapped
<1>1. Init => OutIsMapped
  <2> SUFFICES ASSUME Init PROVE OutIsMapped
    OBVIOUS
  <2>1. Mapped(map, {}, profile) = map_linear({}, profile)
    <3> DEFINE z == map_linear({}, profile)
    <3>1. z = [column |-> {}, ba |-> {}, bg |-> {}, row |-> {}, cid |-> {}, cs |-> {}]
      BY DEF map_linear, Field
    <3>2. \A s, w : Field({}, s, w) = {}
      BY DEF Field
    <3>3. SymDiff({}, {}) = {}
      BY DEF SymDiff
    <3>4. z.row = {} /\ z.bg = {} /\ z.ba = {} /\ z.cs = {}
      BY <3>1
    <3>5. [z EXCEPT !.bg = {}, !.ba = {}] = z /\ [z EXCEPT !.cs = {}] = z
      <4>1. z \in [column : {{}}, ba : {{}}, bg : {{}}, row : {{}}, cid : {{}}, cs : {{}}]
        BY <3>1
      <4> HIDE DEF z
      <4> QED BY <4>1
    <3>6. /\ SymDiff(z.bg, Field(z.row, 0, BgBits)) = {}
          /\ SymDiff(z.ba, Field(z.row, BgBits, BaBits)) = {}
          /\ SymDiff(z.cs, Field(z.row, 0, 1)) = {}
      <4> HIDE DEF z
      <4> QED BY <3>2, <3>3, <3>4
    <3>7. /\ [z EXCEPT !.bg = SymDiff(z.bg, Field(z.row, 0, BgBits)),
                       !.ba = SymDiff(z.ba, Field(z.row, BgBits, BaBits))] = z
          /\ [z EXCEPT !.cs = SymDiff(z.cs, Field(z.row, 0, 1))] = z
      <4> HIDE DEF z
      <4> QED BY <3>5, <3>6
    <3> QED BY <3>7 DEF Mapped, map_bank_hash, map_rank_interleave
  <2> QED BY <2>1 DEF Init, OutIsMapped, InProfile, Fits
<1>2. OutIsMapped /\ [Next]_vars => OutIsMapped'
  <2> SUFFICES ASSUME OutIsMapped, [Next]_vars PROVE OutIsMapped'
    OBVIOUS
  <2>1. ASSUME NEW address \in Packed, addr_decode(address) PROVE OutIsMapped'
    BY <2>1, AddrMapAssumption DEF OutIsMapped, addr_decode
  <2>2. CASE UNCHANGED vars
    BY <2>2 DEF OutIsMapped, vars
  <2> QED BY <2>1, <2>2 DEF Next
<1> QED BY <1>1, <1>2, PTL DEF Spec

(***************************************************************************)
(* No map of host/addr_map.c sends two addresses of a profile to one       *)
(* location, whatever the widths of its fields.                            *)
(***************************************************************************)
THEOREM MapsNeverAlias == Spec => NoAliasing
<1>1. ASSUME OutIsMapped, Next, out' = out PROVE packed' = packed
  <2>1. PICK address \in Packed : addr_decode(address)
    BY <1>1 DEF Next
  <2>2. /\ profile \in Nat /\ map \in MapName
        /\ packed \in SUBSET Nat /\ InProfile(packed, profile)
        /\ address \in SUBSET Nat /\ InProfile(address, profile)
        /\ Mapped(map, packed, profile) = Mapped(map, address, profile)
    BY <1>1, <2>1, AddrMapAssumption DEF OutIsMapped, addr_decode
  <2>3. packed = address
    BY <2>2, MapsInjective
  <2> QED BY <2>1, <2>3 DEF addr_decode
<1>2. OutIsMapped /\ [Next]_vars => [out' = out => packed' = packed]_vars
  BY <1>1
<1> QED BY <1>2, OutIsMappedInvariant, PTL DEF Spec, NoAliasing

-----------------------------------------------------------------------------
\* Rows that differ in hashed bits only have the same linear bank.
LEMMA NeighboursShareBank ==
  ASSUME NEW c, NEW a, NEW b, NeighbouringRows(a, b)
  PROVE  map_linear(a, c).bg = map_linear(b, c).bg /\ map_linear(a, c).ba = map_linear(b, c).ba
<1>1. \A i \in Nat : i < RowShift => (i \in a <=> i \in b)
  BY Shifts, AddrMapAssumption DEF NeighbouringRows, Hashed, SymDiff
<1>2. Field(a, BgShift, BgBits) = Field(b, BgShift, BgBits)
  BY <1>1, Shifts DEF Field
<1>3. Field(a, BaShift, BaBits) = Field(b, BaShift, BaBits)
  BY <1>1, Shifts DEF Field
<1> QED BY <1>2, <1>3 DEF map_linear

\* The bank hash puts two rows that differ in their lowest bit into different banks.
LEMMA NeighboursHashApart ==
  ASSUME NEW c, NEW a \in SUBSET Nat, NEW b \in SUBSET Nat, NeighbouringRows(a, b)
  PROVE  Bank(map_bank_hash(a, c)) # Bank(map_bank_hash(b, c))
<1> DEFINE x == map_linear(a, c)
<1> DEFINE y == map_linear(b, c)
<1>1. PICK i \in Hashed : (RowShift + i \in a) # (RowShift + i \in b)
  <2>1. PICK j \in SymDiff(a, b) : j \in {RowShift + i : i \in Hashed}
    BY DEF NeighbouringRows, SymDiff
  <2>2. PICK i \in Hashed : j = RowShift + i
    BY <2>1
  <2>3. (j \in a) # (j \in b)
    BY <2>1 DEF SymDiff
  <2> QED BY <2>2, <2>3
<1>2. i \in 0 .. RowBits - 1 /\ i + RowShift = RowShift + i
  BY Shifts, AddrMapAssumption DEF Hashed
<1>3. (i \in x.row) # (i \in y.row)
  BY <1>1, <1>2 DEF map_linear, Field
<1>4. x.bg = y.bg /\ x.ba = y.ba
  BY NeighboursShareBank
<1>5. \A z \in {x, y} :
        /\ [z EXCEPT !.bg = SymDiff(@, Field(z.row, 0, BgBits)),
                     !.ba = SymDiff(@, Field(z.row, BgBits, BaBits))].bg
             = SymDiff(z.bg, Field(z.row, 0, BgBits))
        /\ [z EXCEPT !.bg = SymDiff(@, Field(z.row, 0, BgBits)),
                     !.ba = SymDiff(@, Field(z.row, BgBits, BaBits))].ba
             = SymDiff(z.ba, Field(z.row, BgBits, BaBits))
  BY DEF map_linear
<1>6. /\ map_bank_hash(a, c).bg = SymDiff(x.bg, Field(x.row, 0, BgBits))
      /\ map_bank_hash(a, c).ba = SymDiff(x.ba, Field(x.row, BgBits, BaBits))
      /\ map_bank_hash(b, c).bg = SymDiff(y.bg, Field(y.row, 0, BgBits))
      /\ map_bank_hash(b, c).ba = SymDiff(y.ba, Field(y.row, BgBits, BaBits))
  BY <1>5 DEF map_bank_hash
<1> HIDE DEF x, y
<1>7. CASE i < BgBits
  <2>1. i \in 0 .. BgBits - 1 /\ i + 0 = i
    BY <1>2, <1>7, Shifts
  <2>2. (i \in Field(x.row, 0, BgBits)) # (i \in Field(y.row, 0, BgBits))
    BY <1>3, <2>1 DEF Field
  <2>3. SymDiff(x.bg, Field(x.row, 0, BgBits)) # SymDiff(y.bg, Field(y.row, 0, BgBits))
    BY <1>4, <2>2 DEF SymDiff
  <2> QED BY <1>6, <2>3 DEF Bank
<1>8. CASE i >= BgBits
  <2>1. i - BgBits \in 0 .. BaBits - 1 /\ (i - BgBits) + BgBits = i
    BY <1>2, <1>8, Shifts DEF Hashed
  <2>2. (i - BgBits \in Field(x.row, BgBits, BaBits))
           # (i - BgBits \in Field(y.row, BgBits, BaBits))
    BY <1>3, <2>1 DEF Field
  <2>3. SymDiff(x.ba, Field(x.row, BgBits, BaBits))
           # SymDiff(y.ba, Field(y.row, BgBits, BaBits))
    BY <1>4, <2>2 DEF SymDiff
  <2> QED BY <1>6, <2>3 DEF Bank
<1> QED BY <1>2, <1>7, <1>8, Shifts

(***************************************************************************)
(* bank_hash sends rows of one bank that differ in hashed bits to          *)
(* different banks, for all widths; the linear map keeps them in one.      *)
(***************************************************************************)
THEOREM RowsSpread == Spec => RowsSpreadOverBanks
<1>1. ASSUME OutIsMapped, Next, NeighbouringRows(packed, packed')
      PROVE  /\ map = "bank_hash" => Bank(out') # Bank(out)
             /\ map = "linear" => Bank(out') = Bank(out)
  <2>1. PICK address \in Packed : addr_decode(address)
    BY <1>1 DEF Next
  <2>2. /\ packed \in SUBSET Nat /\ address \in SUBSET Nat /\ packed' = address
        /\ out = Mapped(map, packed, profile) /\ out' = Mapped(map, address, profile)
    BY <1>1, <2>1, AddrMapAssumption DEF OutIsMapped, addr_decode
  <2>3. NeighbouringRows(packed, address)
    BY <1>1, <2>2
  <2>4. CASE map = "bank_hash"
    <3>1. Bank(map_bank_hash(packed, profile)) # Bank(map_bank_hash(address, profile))
      BY <2>2, <2>3, NeighboursHashApart
    <3> QED BY <2>2, <2>4, <3>1 DEF Mapped
  <2>5. CASE map = "linear"
    <3>1. /\ map_linear(packed, profile).bg = map_linear(address, profile).bg
          /\ map_linear(packed, profile).ba = map_linear(address, profile).ba
      BY <2>3, NeighboursShareBank
    <3> QED BY <2>2, <2>5, <3>1 DEF Mapped, Bank
  <2> QED BY <2>4, <2>5
<1>2. OutIsMapped /\ [Next]_vars =>
        [NeighbouringRows(packed, packed') =>
           /\ map = "bank_hash" => Bank(out') # Bank(out)
           /\ map = "linear" => Bank(out') = Bank(out)]_vars
  BY <1>1
<1> QED BY <1>2, OutIsMappedInvariant, PTL DEF Spec, RowsSpreadOverBanks

-----------------------------------------------------------------------------
\* Hashing and interleaving XOR into a field no bit that the field has no room for.
LEMMA MappedFits ==
  ASSUME NEW m, NEW address, NEW c
  PROVE  Mapped(m, address, c) \in MappedLocation(c)
<1> DEFINE z == map_linear(address, c)
<1>1. \A bits, shift, width : Field(bits, shift, width) \in SUBSET (0 .. width - 1)
  BY DEF Field
<1>2. Field(address, CidShift + c, 1) \in SUBSET {0}
  BY DEF Field
<1>3. z \in MappedLocation(c)
  BY <1>1, <1>2 DEF map_linear, MappedLocation
<1> HIDE DEF z
<1>4. /\ z.bg \in SUBSET (0 .. BgBits - 1) /\ z.ba \in SUBSET (0 .. BaBits - 1)
      /\ z.cs \in SUBSET {0}
  BY <1>3 DEF MappedLocation
<1>5. /\ SymDiff(z.bg, Field(z.row, 0, BgBits)) \in SUBSET (0 .. BgBits - 1)
      /\ SymDiff(z.ba, Field(z.row, BgBits, BaBits)) \in SUBSET (0 .. BaBits - 1)
      /\ SymDiff(z.cs, Field(z.row, 0, 1)) \in SUBSET {0}
  <2>1. Field(z.row, 0, 1) \in SUBSET {0}
    BY DEF Field
  <2> QED BY <1>1, <1>4, <2>1 DEF SymDiff
<1>6. /\ \A u \in SUBSET (0 .. BgBits - 1), v \in SUBSET (0 .. BaBits - 1) :
            [z EXCEPT !.bg = u, !.ba = v] \in MappedLocation(c)
      /\ \A u \in SUBSET {0} : [z EXCEPT !.cs = u] \in MappedLocation(c)
  BY <1>3 DEF MappedLocation
<1>7. map_bank_hash(address, c) \in MappedLocation(c)
  BY <1>5, <1>6 DEF map_bank_hash, z
<1>8. map_rank_interleave(address, c) \in MappedLocation(c)
  BY <1>5, <1>6 DEF map_rank_interleave, z
<1> QED BY <1>3, <1>7, <1>8 DEF Mapped, z

(***************************************************************************)
(* Every map leaves each field of the location within its width: no hash   *)
(* names a bank or a rank the module does not have.                        *)
(***************************************************************************)
THEOREM MapTypeCorrect == Spec => []TypeOK
<1>1. OutIsMapped => TypeOK
  BY MappedFits DEF OutIsMapped, TypeOK
<1> QED BY <1>1, OutIsMappedInvariant, PTL

-----------------------------------------------------------------------------
(* bank_map.csv.                                                            *)

\* A failing row, by its bits.
FailRow == {{0, 1}, {0, 2}, {0, 1, 2}, {2, 3}, {2, 4}}

\* The bank the hash sends the address of a row to, all other fields of it being 0.
HashOf(row) == <<Field(row, 0, BgBits), Field(row, BgBits, BaBits)>>

LEMMA FailRowsAreRows == \A i \in DOMAIN FailRows : FailRows[i] \in FailRow
<1>1. DOMAIN FailRows = 1 .. 10
  BY DEF FailRows
<1>2. \A i \in 1 .. 10 : i \in {1, 2, 3, 4} \/ i \in {5, 6} \/ i = 7 \/ i \in {8, 9} \/ i = 10
  OBVIOUS
<1> QED BY <1>1, <1>2 DEF FailRows, FailRow

\* The address of a failing row is of every profile and has nothing but the row.
LEMMA FailRowMapped ==
  ASSUME NEW row \in FailRow, NEW c \in Nat
  PROVE  LET address == Place(row, RowShift)
         IN  /\ InProfile(address, c)
             /\ Bank(Mapped("linear", address, c)) = <<{}, {}>>
             /\ Bank(Mapped("bank_hash", address, c)) = HashOf(row)
<1> DEFINE address == Place(row, RowShift)
<1> DEFINE z == map_linear(address, c)
<1>1. \A i \in row : i \in Nat /\ i < RowBits
  BY AddrMapAssumption DEF FailRow
<1>2. \A i \in address : i \in Nat /\ RowShift <= i /\ i < CidShift
  BY <1>1, Shifts DEF Place
<1>3. InProfile(address, c)
  BY <1>2, Shifts DEF InProfile, Fits
<1>4. z.ba = {} /\ z.bg = {}
  <2>1. z.ba = Field(address, BaShift, BaBits) /\ z.bg = Field(address, BgShift, BgBits)
    BY DEF map_linear
  <2>2. \A s, w \in Nat : s + w <= RowShift => Field(address, s, w) = {}
    BY <1>2, Shifts DEF Field
  <2> QED BY <2>1, <2>2, Shifts
<1>5. z.row = row
  <2>1. z.row = Field(address, RowShift, RowBits)
    BY DEF map_linear
  <2>2. \A i \in Nat : i + RowShift \in address <=> i \in row
    BY <1>1, Shifts DEF Place
  <2> QED BY <1>1, <2>1, <2>2, Shifts DEF Field
<1>6. z = [column |-> z.column, ba |-> z.ba, bg |-> z.bg,
           row |-> z.row, cid |-> z.cid, cs |-> z.cs]
  BY DEF map_linear
<1>7. Mapped("linear", address, c) = z
  BY DEF Mapped
<1>8. Mapped("bank_hash", address, c)
        = [z EXCEPT !.bg = SymDiff(@, Field(z.row, 0, BgBits)),
                    !.ba = SymDiff(@, Field(z.row, BgBits, BaBits))]
  BY DEF Mapped, map_bank_hash
<1> HIDE DEF z, address
<1>9. /\ Mapped("bank_hash", address, c).bg = SymDiff({}, Field(row, 0, BgBits))
      /\ Mapped("bank_hash", address, c).ba = SymDiff({}, Field(row, BgBits, BaBits))
  BY <1>4, <1>5, <1>6, <1>8
<1>10. \A h : SymDiff({}, h) = h
  BY DEF SymDiff
<1> QED BY <1>3, <1>4, <1>7, <1>9, <1>10 DEF Bank, HashOf, address

\* The hash tells the failing rows apart: it sees at least their lowest four bits.
LEMMA HashTellsFailRowsApart ==
  ASSUME NEW r \in FailRow, NEW q \in FailRow, HashOf(r) = HashOf(q)
  PROVE  r = q
<1>1. Field(r, 0, BgBits) = Field(q, 0, BgBits) /\ Field(r, BgBits, BaBits) = Field(q, BgBits, BaBits)
  BY DEF HashOf
<1>2. \A i \in Nat : i < BgBits + BaBits => (i \in r <=> i \in q)
  <2> TAKE i \in Nat
  <2>1. CASE i < BgBits
    BY <1>1, <2>1, FieldAgrees, Shifts
  <2>2. CASE BgBits <= i /\ i < BgBits + BaBits
    BY <1>1, <2>2, FieldAgrees, Shifts
  <2> QED BY <2>1, <2>2, Shifts
<1>3. \A i \in {0, 1, 2, 3} : i \in r <=> i \in q
  BY <1>2, AddrMapAssumption
<1> QED BY <1>3 DEF FailRow

(***************************************************************************)
(* The two columns of bank_map.csv tell the maps apart in every profile:   *)
(* linear has all fails in one bank, bank_hash one bank for each failing   *)
(* row, whatever the widths of the fields.                                 *)
(***************************************************************************)
THEOREM BankMapScatters == Spec => []BankMapTellsThemApart
<1>1. OutIsMapped => BankMapTellsThemApart
  <2> SUFFICES ASSUME OutIsMapped PROVE BankMapTellsThemApart
    OBVIOUS
  <2>1. profile \in Nat
    BY AddrMapAssumption DEF OutIsMapped
  <2>2. <<{}, {}>> \in Banks
    BY DEF Banks
  <2>3. BankCount("linear", profile, <<{}, {}>>) = Cardinality(DOMAIN FailRows)
    <3>1. {i \in DOMAIN FailRows :
              LET address == Place(FailRows[i], RowShift)
              IN  InProfile(address, profile) /\ Bank(Mapped("linear", address, profile)) = <<{}, {}>>}
            = DOMAIN FailRows
      BY <2>1, FailRowsAreRows, FailRowMapped
    <3> QED BY <3>1 DEF BankCount
  <2>4. ASSUME NEW row \in {FailRows[i] : i \in DOMAIN FailRows}
        PROVE  /\ HashOf(row) \in Banks
               /\ BankCount("bank_hash", profile, HashOf(row)) = Fails(row)
               /\ Bank(Mapped("bank_hash", Place(row, RowShift), profile)) = HashOf(row)
    <3>1. row \in FailRow
      BY FailRowsAreRows
    <3>2. {i \in DOMAIN FailRows :
              LET address == Place(FailRows[i], RowShift)
              IN  /\ InProfile(address, profile)
                  /\ Bank(Mapped("bank_hash", address, profile)) = HashOf(row)}
            = {i \in DOMAIN FailRows : FailRows[i] = row}
      BY <2>1, <3>1, FailRowsAreRows, FailRowMapped, HashTellsFailRowsApart
    <3>3. BankCount("bank_hash", profile, HashOf(row)) = Fails(row)
      BY <3>2 DEF BankCount, Fails
    <3>4. HashOf(row) \in Banks
      BY DEF HashOf, Banks, Field
    <3> QED BY <2>1, <3>1, <3>3, <3>4, FailRowMapped
  <2> QED BY <2>2, <2>3, <2>4 DEF BankMapTellsThemApart
<1> QED BY <1>1, OutIsMappedInvariant, PTL

==============================================================================
