-------------------------------- MODULE Screen --------------------------------
(* What port 1 promises to a CP/M program: a screen with a cursor, cleared   *)
(* by 1a or ESC ; and addressed by ESC = row column, both with an offset of  *)
(* 20 (hexadecimal).  In plain mode every byte goes to the terminal.         *)
EXTENDS Integers

CONSTANTS Rows, Cols, Bytes

VARIABLES
  screen,     \* the byte shown at every place, 0 where there is none
  cursor,     \* <<row, column>>
  waiting,    \* "text", or for "code", "row", "column" of a sequence
  row,        \* the row given, while it waits for the column
  plain

svars == <<screen, cursor, waiting, row, plain>>

ESC == 27
SUB == 26
Places == (0..Rows - 1) \X (0..Cols - 1)
Home == <<0, 0>>
Empty == [at \in Places |-> 0]
Printable(v) == v \in 32..126

(* A character is shown and the cursor goes right as far as it can.          *)
Shown(s, at, v) == IF Printable(v) THEN [s EXCEPT ![at] = v] ELSE s
Right(at, v) == IF Printable(v) /\ at[2] < Cols - 1 THEN <<at[1], at[2] + 1>> ELSE at

Text(v) ==
  /\ waiting = "text" /\ (plain \/ v \notin {ESC, SUB})
  /\ screen' = Shown(screen, cursor, v) /\ cursor' = Right(cursor, v)
  /\ UNCHANGED <<waiting, row, plain>>

(* A clearing may leave the cursor where it is.                              *)
Cleared ==
  /\ screen' = Empty /\ cursor' \in {cursor, Home}
  /\ waiting' = "text" /\ UNCHANGED <<row, plain>>

Control(v) ==
  /\ waiting = "text" /\ ~ plain
  /\ \/ v = SUB /\ Cleared
     \/ v = ESC /\ waiting' = "code" /\ UNCHANGED <<screen, cursor, row, plain>>

Code(v) ==
  /\ waiting = "code"
  /\ \/ v = 59 /\ Cleared
     \/ /\ v # 59 /\ waiting' = (IF v = 61 THEN "row" ELSE "text")
        /\ UNCHANGED <<screen, cursor, row, plain>>

Row(v) ==
  /\ waiting = "row" /\ waiting' = "column" /\ row' = v - 32
  /\ UNCHANGED <<screen, cursor, plain>>

(* A place that is not on the screen may be any place.                       *)
Column(v) ==
  /\ waiting = "column" /\ waiting' = "text"
  /\ IF <<row, v - 32>> \in Places THEN cursor' = <<row, v - 32>> ELSE cursor' \in Places
  /\ row' = 0 /\ UNCHANGED <<screen, plain>>

(* A byte is written to port 1. *)
Write(v) == Text(v) \/ Control(v) \/ Code(v) \/ Row(v) \/ Column(v)

Mode(p) ==
  /\ waiting = "text" /\ plain' = p
  /\ UNCHANGED <<screen, cursor, waiting, row>>

SInit ==
  /\ screen = Empty /\ cursor = Home /\ waiting = "text" /\ row = 0 /\ plain = FALSE

SNext == (\E v \in Bytes : Write(v)) \/ (\E p \in BOOLEAN : Mode(p))

SSpec == SInit /\ [][SNext]_svars
===============================================================================
