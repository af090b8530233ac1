-------------------------------- MODULE Console --------------------------------
(***************************************************************************)
(* The debug log: dlog_printf and format_line (core/dlog.c) render a line  *)
(* into a buffer, and plat_puts prints it, at once on the host             *)
(* (host/plat_host.c) and in chunks at boot time (plat_uefi.c).            *)
(*                                                                         *)
(* A format is the sequence of its items: literals and conversions with    *)
(* their arguments.  Characters are strings of length one; "\n" is the     *)
(* newline, "\r" the carriage return.                                      *)
(***************************************************************************)
EXTENDS Integers, Sequences, SequencesExt

CONSTANTS
    DLOG_LINE_MAX,  \* size of the line buffer, its terminator included
    CHUNK_MAX,      \* size of the chunk buffer of the boot-time plat_puts
    TMP_MAX,        \* size of the digit buffer of format_unsigned
    Formats,        \* the formats dlog_printf may be called with
    Platforms       \* the builds: "host", "uefi"

\* An item: its kind and what it prints, a text or a number.
Text(kind, chars) == [kind |-> kind, chars |-> chars]
Number(kind, value, width, zero_pad) ==
    [kind |-> kind, value |-> value, width |-> width, zero_pad |-> zero_pad]
Base(item) == IF item.kind = "x" THEN 16 ELSE 10
Power(base, n) ==
    LET power[i \in 0 .. TMP_MAX] == IF i = 0 THEN 1 ELSE base * power[i - 1]
    IN  power[n]
DigitChar == <<"0", "1", "2", "3", "4", "5", "6", "7", "8", "9", "A", "B", "C", "D", "E", "F">>
Digit(d) == DigitChar[d + 1]

Item ==
    [kind : {"literal", "c", "s", "%", "unknown"}, chars : Seq(STRING)]
    \cup [kind : {"d", "u", "x"}, value : Int, width : Nat, zero_pad : BOOLEAN]

ASSUME ConsoleAssumption ==
    /\ DLOG_LINE_MAX \in Nat \ {0} /\ TMP_MAX \in Nat \ {0}
    /\ CHUNK_MAX \in Nat /\ CHUNK_MAX > 3
    /\ Platforms \subseteq {"host", "uefi"}
    /\ \A fmt \in Formats : fmt \in Seq(Item)
    \* The digit buffer takes every number of the build's integer width.
    /\ \A fmt \in Formats : \A i \in DOMAIN fmt :
          fmt[i].kind \in {"d", "u", "x"} =>
              /\ -Power(Base(fmt[i]), TMP_MAX) < fmt[i].value
              /\ fmt[i].value < Power(Base(fmt[i]), TMP_MAX)

VARIABLES
    phase,      \* "idle", "format", "puts"
    platform,
    format,     \* the format of the call
    item,       \* the next of its items
    out,        \* the line buffer, up to its terminator
    s,          \* the next character plat_puts looks at
    chunk,      \* its chunk buffer, up to the terminator
    screen      \* what the console has printed of this call

vars == <<phase, platform, format, item, out, s, chunk, screen>>

Init ==
    /\ phase = "idle" /\ platform \in Platforms
    /\ format = <<>> /\ item = 1 /\ out = <<>>
    /\ s = 1 /\ chunk = <<>> /\ screen = <<>>

-----------------------------------------------------------------------------
(* format_line.                                                             *)

Smaller(a, b) == IF a < b THEN a ELSE b
Larger(a, b) == IF a < b THEN b ELSE a
Prefix(text, length) == SubSeq(text, 1, Smaller(length, Len(text)))

\* The copy loops stop one place before the end of the buffer.
Room == DLOG_LINE_MAX - 1 - Len(out)

Copied(text) == out \o Prefix(text, Room)

\* Mutant: digits are copied as they were produced.
UnsignedUnreversed(value, base, width, zero_pad) ==
    LET left[i \in 0 .. TMP_MAX] == IF i = 0 THEN value ELSE left[i - 1] \div base
        count == Cardinality({i \in 1 .. TMP_MAX : left[i - 1] > 0 \/ i = 1})
    IN  [i \in 1 .. Larger(count, Smaller(width, TMP_MAX)) |->
            IF i <= count THEN Digit(left[i - 1] % base) ELSE IF zero_pad THEN "0" ELSE " "]

\* Digits by repeated division, lowest first, then padding; copied in reverse.
format_unsigned(value, base, width, zero_pad) ==
    LET left[i \in 0 .. TMP_MAX] == IF i = 0 THEN value ELSE left[i - 1] \div base
        count == Cardinality({i \in 1 .. TMP_MAX : left[i - 1] > 0 \/ i = 1})
        tmp == [i \in 1 .. Larger(count, Smaller(width, TMP_MAX)) |->
                   IF i <= count THEN Digit(left[i - 1] % base)
                                 ELSE IF zero_pad THEN "0" ELSE " "]
    IN  Reverse(tmp)

Magnitude(value) == IF value < 0 THEN -value ELSE value

\* The text of a conversion, were there room for it.
Conversion(i) ==
    IF i.kind \in {"d", "u", "x"}
    THEN (IF i.value < 0 THEN <<"-">> ELSE <<>>)
         \o format_unsigned(Magnitude(i.value), Base(i), i.width, i.zero_pad)
    ELSE i.chars

dlog_printf ==
    /\ phase = "idle"
    /\ format' \in Formats
    /\ phase' = "format" /\ item' = 1 /\ out' = <<>> /\ screen' = <<>>
    /\ UNCHANGED <<platform, s, chunk>>

\* Mutant: a conversion that prints nothing is tried again.
ItemTriedAgain ==
    /\ phase = "format" /\ item <= Len(format) /\ Room > 0
    /\ out' = Copied(Conversion(format[item]))
    /\ item' = IF out' = out THEN item ELSE item + 1
    /\ UNCHANGED <<phase, platform, format, s, chunk, screen>>

\* A literal, %c and %% write one character, which the loop has checked; the
\* others copy what there is room for.
format_item ==
    /\ phase = "format" /\ item <= Len(format) /\ Room > 0
    /\ out' = Copied(Conversion(format[item]))
    /\ item' = item + 1
    /\ UNCHANGED <<phase, platform, format, s, chunk, screen>>

format_end ==
    /\ phase = "format" /\ (item > Len(format) \/ Room = 0)
    /\ phase' = "puts" /\ s' = 1 /\ chunk' = <<>>
    /\ UNCHANGED <<platform, format, item, out, screen>>

-----------------------------------------------------------------------------
(* plat_puts.                                                               *)

host_puts ==
    /\ phase = "puts" /\ platform = "host"
    /\ screen' = screen \o out
    /\ phase' = "idle"
    /\ UNCHANGED <<platform, format, item, out, s, chunk>>

\* Mutant: the room for a carriage return is forgotten.
FlushLate ==
    /\ phase = "puts" /\ platform = "uefi" /\ s <= Len(out)
    /\ LET flush == Len(chunk) >= CHUNK_MAX - 1
           new == IF out[s] = "\n" THEN <<"\r", "\n">> ELSE <<out[s]>>
       IN  /\ screen' = IF flush THEN screen \o chunk ELSE screen
           /\ chunk' = (IF flush THEN <<>> ELSE chunk) \o new
    /\ s' = s + 1
    /\ UNCHANGED <<phase, platform, format, item, out>>

\* Three places are kept: "\r", "\n" and the terminator.
uefi_put_char ==
    /\ phase = "puts" /\ platform = "uefi" /\ s <= Len(out)
    /\ LET flush == Len(chunk) >= CHUNK_MAX - 3
           new == IF out[s] = "\n" THEN <<"\r", "\n">> ELSE <<out[s]>>
       IN  /\ screen' = IF flush THEN screen \o chunk ELSE screen
           /\ chunk' = (IF flush THEN <<>> ELSE chunk) \o new
    /\ s' = s + 1
    /\ UNCHANGED <<phase, platform, format, item, out>>

uefi_put_end ==
    /\ phase = "puts" /\ platform = "uefi" /\ s > Len(out)
    /\ screen' = screen \o chunk
    /\ phase' = "idle" /\ chunk' = <<>>
    /\ UNCHANGED <<platform, format, item, out, s>>

\* The rest of a call, once it is made.
Proceeds == format_item \/ format_end \/ host_puts \/ uefi_put_char \/ uefi_put_end

Next == dlog_printf \/ Proceeds

\* Nothing makes the caller log again; a call it makes runs on.
Spec == Init /\ [][Next]_vars /\ WF_vars(Proceeds)

-----------------------------------------------------------------------------
(* Properties.                                                              *)

(***************************************************************************)
(* Neither buffer overflows, its terminator included, whatever the format  *)
(* and wherever its newlines fall (dlog.c, plat_uefi.c chunk[64]).         *)
(***************************************************************************)
BuffersHold == Len(out) < DLOG_LINE_MAX /\ Len(chunk) < CHUNK_MAX

\* The decimal or hexadecimal numeral of a value, by the place of its digits.
Size(value, base) == CHOOSE n \in 1 .. TMP_MAX :
    value < Power(base, n) /\ (n = 1 \/ value >= Power(base, n - 1))
Numeral(value, base, width, zero_pad) ==
    LET length == Larger(Size(value, base), Smaller(width, TMP_MAX))
    IN  [k \in 1 .. length |->
            IF k > length - Size(value, base) THEN Digit((value \div Power(base, length - k)) % base)
            ELSE IF zero_pad THEN "0" ELSE " "]
Meant(i) ==
    IF i.kind \in {"d", "u", "x"}
    THEN (IF i.value < 0 THEN <<"-">> ELSE <<>>)
         \o Numeral(Magnitude(i.value), Base(i), i.width, i.zero_pad)
    ELSE i.chars
MeantLine == Prefix(FlattenSeq([k \in DOMAIN format |-> Meant(format[k])]), DLOG_LINE_MAX - 1)

(***************************************************************************)
(* What reaches the console is the line the format means, cut at the size  *)
(* of the buffer: no character of it is lost, doubled or out of order      *)
(* between the line buffer and the chunks; at boot time each newline has   *)
(* a carriage return.                                                      *)
(***************************************************************************)
PrintsTheLine ==
    phase = "idle" =>
        screen = IF platform = "host" THEN MeantLine
                 ELSE FlattenSeq([k \in DOMAIN MeantLine |->
                         IF MeantLine[k] = "\n" THEN <<"\r", "\n">> ELSE <<MeantLine[k]>>])

\* Every call returns: the loops of the formatter and of plat_puts end.
CallReturns == (phase = "format") ~> (phase = "idle")

================================================================================
