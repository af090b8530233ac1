----------------------------- MODULE IdealMemory -----------------------------
(***************************************************************************)
(* What a program expects of a memory: a read returns the value last       *)
(* written to its word, and powering up or down clears everything.         *)
(* "call" is the interface: the last call completed, with its arguments    *)
(* and, for a read, the value it returned.                                 *)
(***************************************************************************)
CONSTANTS
    Codeword,   \* the codewords
    Word,       \* the words of a codeword
    Cell(_)     \* Cell(w): the bits of word w

VARIABLES
    mem,        \* mem[c]: the bits of codeword c that are 1
    call

Empty == [c \in Codeword |-> {}]

Init ==
    /\ call = <<"power">>
    /\ mem = Empty

Power ==
    /\ call' = <<"power">>
    /\ mem' = Empty

Write(c, w, value) ==
    /\ call' = <<"write", c, w, value>>
    /\ mem' = [mem EXCEPT ![c] = (@ \ Cell(w)) \cup value]

Read(c, w) ==
    /\ call' = <<"read", c, w, mem[c] \cap Cell(w)>>
    /\ UNCHANGED mem

Next ==
    \/ Power
    \/ \E c \in Codeword, w \in Word :
          \/ Read(c, w)
          \/ \E value \in SUBSET Cell(w) : Write(c, w, value)

Spec == Init /\ [][Next]_<<mem, call>>
==============================================================================
