------------------------------- MODULE AddrMap -------------------------------
(***************************************************************************)
(* host/addr_map.c: how a packed host address is spread over rank, bank    *)
(* group, bank, row and column of a 3DS module, with row bits hashed into  *)
(* the bank or interleaved into the rank; and the way run_cli_addrmap      *)
(* (host/main.c) calls it, on one MappedLocation it keeps.                 *)
(*                                                                         *)
(* Addresses and fields are sets of bit positions (BitFields).             *)
(***************************************************************************)
EXTENDS BitFields, FiniteSetsExt

CONSTANTS
    ColumnBits, BaBits, BgBits, RowBits,   \* widths of COLUMN, BA, BG, ROW
    CidBits,    \* the CID widths of the profiles
    Packed      \* the packed addresses decoded

ASSUME AddrMapAssumption ==
    /\ ColumnBits \in Nat /\ BaBits \in Nat /\ BgBits \in Nat
    \* The hash and the interleave take their bits from the row.
    /\ RowBits \in Nat /\ RowBits >= BgBits + BaBits /\ RowBits >= 1
    /\ CidBits \subseteq Nat
    /\ Packed \subseteq SUBSET Nat
    \* The failing rows of the demonstration are rows, and the hash sees more than
    \* the bits they have in common.
    /\ RowBits >= 5 /\ BgBits + BaBits >= 4

BaShift == ColumnBits
BgShift == ColumnBits + BaBits
RowShift == ColumnBits + BaBits + BgBits
CidShift == ColumnBits + BaBits + BgBits + RowBits

MapName == {"linear", "bank_hash", "rank_interleave"}

-----------------------------------------------------------------------------
\* An address the profile has no room for is rejected.
InProfile(packed, cid_bits) == Fits(packed, CidShift + cid_bits + 1)

map_linear(packed, cid_bits) ==
    [column |-> Field(packed, 0, ColumnBits),
     ba     |-> Field(packed, BaShift, BaBits),
     bg     |-> Field(packed, BgShift, BgBits),
     row    |-> Field(packed, RowShift, RowBits),
     cid    |-> Field(packed, CidShift, cid_bits),
     cs     |-> Field(packed, CidShift + cid_bits, 1)]

\* Mutants of the hash: row bits are not masked; they are set instead of XORed;
\* bank group and bank take the same ones.
HashUnmasked(packed, cid_bits) ==
    LET at == map_linear(packed, cid_bits)
    IN  [at EXCEPT !.bg = SymDiff(@, at.row),
                   !.ba = SymDiff(@, Field(at.row, BgBits, BaBits))]
HashSets(packed, cid_bits) ==
    LET at == map_linear(packed, cid_bits)
    IN  [at EXCEPT !.bg = @ \cup Field(at.row, 0, BgBits),
                   !.ba = SymDiff(@, Field(at.row, BgBits, BaBits))]
HashUnshifted(packed, cid_bits) ==
    LET at == map_linear(packed, cid_bits)
    IN  [at EXCEPT !.bg = SymDiff(@, Field(at.row, 0, BgBits)),
                   !.ba = SymDiff(@, Field(at.row, 0, BaBits))]

\* The lowest row bits select the bank group, the next ones the bank.
map_bank_hash(packed, cid_bits) ==
    LET at == map_linear(packed, cid_bits)
    IN  [at EXCEPT !.bg = SymDiff(@, Field(at.row, 0, BgBits)),
                   !.ba = SymDiff(@, Field(at.row, BgBits, BaBits))]

map_rank_interleave(packed, cid_bits) ==
    LET at == map_linear(packed, cid_bits)
    IN  [at EXCEPT !.cs = SymDiff(@, Field(at.row, 0, 1))]

Mapped(map, packed, cid_bits) ==
    IF map = "linear" THEN map_linear(packed, cid_bits)
    ELSE IF map = "bank_hash" THEN map_bank_hash(packed, cid_bits)
    ELSE map_rank_interleave(packed, cid_bits)

MappedLocation(cid_bits) ==
    [column : SUBSET (0 .. ColumnBits - 1), ba : SUBSET (0 .. BaBits - 1),
     bg : SUBSET (0 .. BgBits - 1), row : SUBSET (0 .. RowBits - 1),
     cid : SUBSET (0 .. cid_bits - 1), cs : SUBSET {0}]

Bank(location) == <<location.bg, location.ba>>

\* The rows kFailRows of write_bank_map_csv, as fields: 3, 5, 7, 12 and 20.
FailRows ==
    LET r3 == {0, 1}  r5 == {0, 2}  r7 == {0, 1, 2}  r12 == {2, 3}  r20 == {2, 4}
    IN  <<r3, r3, r3, r3, r5, r5, r7, r12, r12, r20>>

\* A line of bank_map.csv: how many of the fails the map sends to the bank.
BankCount(map_name, cid_bits, bank) ==
    Cardinality({i \in DOMAIN FailRows :
        LET address == Place(FailRows[i], RowShift)
        IN  InProfile(address, cid_bits) /\ Bank(Mapped(map_name, address, cid_bits)) = bank})

-----------------------------------------------------------------------------
VARIABLES
    profile,    \* the profile chosen, by its CID bits
    map,        \* the map chosen
    packed,     \* the address decoded last
    out         \* the caller's MappedLocation

vars == <<profile, map, packed, out>>

Init ==
    /\ profile \in CidBits
    /\ map \in MapName
    /\ packed = {} /\ out = map_linear({}, profile)

\* A rejected address leaves the caller's location as it was.
addr_decode(address) ==
    /\ InProfile(address, profile)
    /\ packed' = address
    /\ out' = Mapped(map, address, profile)
    /\ UNCHANGED <<profile, map>>

Next == \E address \in Packed : addr_decode(address)

Spec == Init /\ [][Next]_vars

-----------------------------------------------------------------------------
TypeOK ==
    /\ profile \in CidBits /\ map \in MapName
    /\ packed \in SUBSET Nat
    /\ out \in MappedLocation(profile)

(***************************************************************************)
(* No map aliases: hashing and interleaving move an address to another     *)
(* bank or rank but never two addresses of a profile to one cell.          *)
(***************************************************************************)
NoAliasing ==
    [][out' = out => packed' = packed]_vars

(***************************************************************************)
(* What bank_hash is for (run_cli_addrmap prints it for eight rows): two   *)
(* rows of one bank that differ in the hashed row bits only are mapped to  *)
(* different banks, while the linear map keeps them in one.                *)
(***************************************************************************)
Hashed == 0 .. BgBits + BaBits - 1
NeighbouringRows(a, b) ==
    /\ a # b
    /\ SymDiff(a, b) \subseteq {RowShift + i : i \in Hashed}

RowsSpreadOverBanks ==
    [][NeighbouringRows(packed, packed') =>
         /\ map = "bank_hash" => Bank(out') # Bank(out)
         /\ map = "linear" => Bank(out') = Bank(out)]_vars

(***************************************************************************)
(* What bank_map.csv is for (docs/test_plan.md: linear piles up in one     *)
(* bank, bank_hash scatters): the linear column has every fail in one      *)
(* bank, the other one a bank of its own for each failing row, and neither *)
(* loses a fail.                                                           *)
(***************************************************************************)
Banks == (SUBSET (0 .. BgBits - 1)) \X (SUBSET (0 .. BaBits - 1))
Fails(row) == Cardinality({i \in DOMAIN FailRows : FailRows[i] = row})

BankMapTellsThemApart ==
    /\ \E bank \in Banks : BankCount("linear", profile, bank) = Cardinality(DOMAIN FailRows)
    /\ \A row \in {FailRows[i] : i \in DOMAIN FailRows} :
          \E bank \in Banks :
              /\ BankCount("bank_hash", profile, bank) = Fails(row)
              /\ Bank(Mapped("bank_hash", Place(row, RowShift), profile)) = bank

==============================================================================
