------------------------------- MODULE Terminal -------------------------------
(* Port 1 of the machine (out of machine.c) on the terminals it is made for: *)
(* a VT100, to which the escape sequences are translated byte by byte, and   *)
(* the console of UEFI, whose services are called.  The state of a sequence  *)
(* is a static variable: it survives the program that began it.              *)
EXTENDS Integers, Sequences

CONSTANTS
  Rows, Cols,         \* size of the screen
  Bytes,              \* what programs write to port 1
  Characters          \* those of them they write outside of a sequence

TerminalAssumption ==
  /\ Rows \in Nat \ {0} /\ Cols \in Nat \ {0} /\ Bytes \subseteq 0..255
  /\ Characters \subseteq Bytes

VARIABLES
  efi,                \* the build: TRUE for UEFI
  esc, row, vt_cnv,   \* of machine.c
  running,            \* a program runs; otherwise the monitor does
  term,               \* the terminal
  broken              \* history: a program has halted inside a sequence

vars == <<efi, esc, row, vt_cnv, running, term, broken>>

Number(t, i) == IF i <= Len(t.params) THEN t.params[i] ELSE 0

(* What a program sees: the row it gave is in the number the VT100 is        *)
(* reading, or in the variable row.                                          *)
Waiting ==
  CASE esc = 1 -> "code" [] esc = 2 -> "row" [] esc = 3 -> "column"
    [] esc = 0 -> IF term.reads = "text" THEN "text" ELSE "lost"
RowWaiting ==
  IF esc # 3 THEN 0 ELSE IF efi THEN row
  ELSE IF Number(term, 1) > 32767 THEN Number(term, 1) - 65537 ELSE Number(term, 1) - 1

T == INSTANCE Screen WITH screen <- term.screen, cursor <- term.cursor,
       waiting <- Waiting, row <- RowWaiting, plain <- (vt_cnv = 0)

----------------------------------------------------------------------------
(* The terminals                                                             *)

(* A VT100 reading a byte: text, ESC [, numbers, and the letters J and H.    *)
Ground(t) == [t EXCEPT !.reads = "text", !.params = <<>>]
Within(n, size) == IF n = 0 THEN 0 ELSE IF n > size THEN size - 1 ELSE n - 1

Final(t, v) ==
  IF v = 74 /\ Number(t, 1) = 2 THEN [Ground(t) EXCEPT !.screen = T!Empty]
  ELSE IF v = 72 THEN
    [Ground(t) EXCEPT !.cursor = <<Within(Number(t, 1), Rows), Within(Number(t, 2), Cols)>>]
  ELSE Ground(t)

Reads(t, v) ==
  IF t.reads = "text" THEN
    IF v = T!ESC /\ ~ efi THEN [t EXCEPT !.reads = "escape"]
    ELSE [t EXCEPT !.screen = T!Shown(@, t.cursor, v), !.cursor = T!Right(@, v)]
  ELSE IF t.reads = "escape" THEN
    IF v = 91 THEN [t EXCEPT !.reads = "control", !.params = <<0>>] ELSE Ground(t)
  ELSE IF v \in 48..57 THEN [t EXCEPT !.params[Len(t.params)] = (10 * @) + v - 48]
  ELSE IF v = 59 THEN [t EXCEPT !.params = Append(@, 0)]
  ELSE Final(t, v)

(* con_putchar for each byte of a string.                                    *)
After(t, bytes) ==
  LET read[i \in 0..Len(bytes)] == IF i = 0 THEN t ELSE Reads(read[i - 1], bytes[i])
  IN  read[Len(bytes)]
con_puts(bytes) == term' = After(term, bytes)

ClearScreen == term' = [term EXCEPT !.screen = T!Empty, !.cursor = T!Home]
SetCursorPosition(column, line) ==
  term' = IF <<line, column>> \in T!Places THEN [term EXCEPT !.cursor = <<line, column>>] ELSE term

----------------------------------------------------------------------------
(* out(1, val)                                                               *)

(* con_putnum_u16(n, -1): five digits of a 16-bit number.                    *)
Digit(n, i) == (n \div <<10000, 1000, 100, 10, 1>>[i]) % 10
Digits(n) == [i \in 1..5 |-> 48 + Digit(n % 65536, i)]

Begin == <<27, 91>>
EraseDisplay == <<27, 91, 50, 74>>

Clear ==
  IF vt_cnv = 1 THEN con_puts(EraseDisplay) ELSE IF efi THEN ClearScreen ELSE UNCHANGED term

AfterEscape(val) ==
  /\ esc = 1 /\ UNCHANGED row
  /\ \/ val = 61 /\ esc' = 2 /\ UNCHANGED term
     \/ val = 59 /\ esc' = 0 /\ Clear
     \/ val \notin {59, 61} /\ esc' = 0 /\ UNCHANGED term

RowByte(val) ==
  /\ esc = 2 /\ esc' = 3
  /\ IF vt_cnv = 1 THEN con_puts(Begin \o Digits(val - 32 + 1)) /\ UNCHANGED row
     ELSE UNCHANGED term /\ row' = IF efi THEN val - 32 ELSE row

(* Mutation: the column counts from 0 on a VT100. *)
ColumnFromZero(val) ==
  /\ esc = 3 /\ esc' = 0 /\ UNCHANGED row
  /\ IF vt_cnv = 1 THEN con_puts(<<59>> \o Digits(val - 32) \o <<72>>)
     ELSE IF efi THEN SetCursorPosition(val - 32, row) ELSE UNCHANGED term

ColumnByte(val) ==
  /\ esc = 3 /\ esc' = 0 /\ UNCHANGED row
  /\ IF vt_cnv = 1 THEN con_puts(<<59>> \o Digits(val - 32 + 1) \o <<72>>)
     ELSE IF efi THEN SetCursorPosition(val - 32, row) ELSE UNCHANGED term

Character(val) ==
  /\ esc = 0 /\ UNCHANGED row
  /\ \/ (vt_cnv = 0 \/ val \notin {26, 27}) /\ con_puts(<<val>>) /\ UNCHANGED esc
     \/ vt_cnv # 0 /\ val = 26 /\ Clear /\ UNCHANGED esc
     \/ vt_cnv # 0 /\ val = 27 /\ esc' = 1 /\ UNCHANGED term

(* A program that writes without conversion sends no ESC of its own here:    *)
(* what that does depends on the terminal alone.                             *)
Out(val) ==
  /\ running /\ (vt_cnv = 0 => val # 27) /\ (esc = 0 => val \in Characters)
  /\ AfterEscape(val) \/ RowByte(val) \/ ColumnByte(val) \/ Character(val)
  /\ UNCHANGED <<efi, vt_cnv, running, broken>>

----------------------------------------------------------------------------
(* The program halts and the monitor prints its prompt; its command vt, or   *)
(* efi in the UEFI build (its console reads no VT100 sequences, so that vt   *)
(* on is not given there); a program is booted.                              *)
Halt ==
  /\ running /\ running' = FALSE
  /\ con_puts(<<62>>)
  /\ broken' = (broken \/ esc # 0)
  /\ UNCHANGED <<efi, esc, row, vt_cnv>>

VtMode(on) ==
  /\ ~ running /\ vt_cnv' = (IF on THEN IF efi THEN 2 ELSE 1 ELSE 0)
  /\ UNCHANGED <<efi, esc, row, running, term, broken>>

Boot == ~ running /\ running' = TRUE /\ UNCHANGED <<efi, esc, row, vt_cnv, term, broken>>

Init ==
  /\ efi \in BOOLEAN /\ vt_cnv = IF efi THEN 2 ELSE 1
  /\ esc = 0 /\ row = 0 /\ running = TRUE /\ broken = FALSE
  /\ term = [reads |-> "text", params |-> <<>>, screen |-> T!Empty, cursor |-> T!Home]

Next == (\E val \in Bytes : Out(val)) \/ Halt \/ (\E on \in BOOLEAN : VtMode(on)) \/ Boot
Spec == Init /\ [][Next]_vars

----------------------------------------------------------------------------
UINT16_MAX == 65535

(* The cursor stays on the screen and the terminal is never given a number   *)
(* or a sequence it cannot hold (con_putnum_u16, out).                       *)
TypeOK ==
  /\ esc \in 0..3 /\ vt_cnv \in 0..2 /\ row \in -32..223 /\ broken \in BOOLEAN
  /\ term.cursor \in T!Places
  /\ term.reads \in {"text", "escape", "control"} /\ Len(term.params) <= 1
  /\ \A i \in DOMAIN term.params : term.params[i] \in 0..UINT16_MAX

(* With the translation, the terminal is the screen of module Screen: every  *)
(* byte a program writes shows the character, moves the cursor and clears as *)
(* the screen does for that byte, and so does the monitor's prompt.  esc     *)
(* lives on after a program that halts inside a sequence: the next program   *)
(* does not start with text, and nothing is promised from then on.           *)
ImplementsScreen ==
  /\ T!SInit
  /\ [][~ broken' =>
          /\ \A val \in Bytes : Out(val) => T!Write(val)
          /\ Halt => T!Write(62)
          /\ \A on \in BOOLEAN : VtMode(on) => T!Mode(~ on)
          /\ Boot => UNCHANGED T!svars]_vars
===============================================================================
