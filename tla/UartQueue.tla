------------------------------- MODULE UartQueue -------------------------------
(* The input queue of con_avr_uart.c: the pin-change interrupt puts received *)
(* characters into it between any two accesses of the main program, which    *)
(* takes them out.  Characters are numbered in the order they arrive.        *)
EXTENDS Integers

CONSTANTS
  Size,                 \* slots of fifo (8 in the code)
  MaxSent               \* bound: characters received

ASSUME SizeAssumption == Size \in Nat \ {0, 1} /\ MaxSent \in Nat

VARIABLES
  fifo, fifo_rdptr, fifo_wrptr,
  pc, rc,               \* where con_getchar is, and its local variable
  sent, got,            \* history: the last character received, and returned
  overrun,              \* history: one came while the queue was full
  promised              \* history: con_peek saw a character not yet taken

reader == <<pc, rc, got, promised>>
vars == <<fifo, fifo_rdptr, fifo_wrptr, reader, sent, overrun>>

(* Mutation: the index is not masked. *)
MaskedNot(p) == p

(* The code's "&= 7" of an index that was incremented. *)
Masked(p) == IF p = Size THEN 0 ELSE p

Full == Masked(fifo_wrptr + 1) = fifo_rdptr

-----------------------------------------------------------------------------
(* The test does not mask the incremented index. *)
UartPush(c) ==
  IF fifo_rdptr # fifo_wrptr + 1
  THEN /\ fifo' = [fifo EXCEPT ![fifo_wrptr] = c]
       /\ fifo_wrptr' = Masked(fifo_wrptr + 1)
  ELSE UNCHANGED <<fifo, fifo_wrptr>>

UartInt ==
  /\ sent < MaxSent
  /\ sent' = sent + 1
  /\ UartPush(sent')
  /\ overrun' = (overrun \/ Full)
  /\ UNCHANGED <<fifo_rdptr, reader>>

-----------------------------------------------------------------------------
(* Mutation: con_peek compares with the slot before the next. *)
PeekAhead ==
  /\ pc = "idle"
  /\ promised' = (Masked(fifo_wrptr + 1) # fifo_rdptr)
  /\ UNCHANGED <<fifo, fifo_rdptr, fifo_wrptr, pc, rc, sent, got, overrun>>

ConPeek ==
  /\ pc = "idle"
  /\ promised' = (fifo_wrptr # fifo_rdptr)
  /\ UNCHANGED <<fifo, fifo_rdptr, fifo_wrptr, pc, rc, sent, got, overrun>>

(* con_getchar returns -1... *)
GetEmpty ==
  /\ pc = "idle" /\ fifo_rdptr = fifo_wrptr
  /\ promised' = FALSE
  /\ UNCHANGED <<fifo, fifo_rdptr, fifo_wrptr, pc, rc, sent, got, overrun>>

(* ... or goes on to read the slot... *)
GetTest ==
  /\ pc = "idle" /\ fifo_rdptr # fifo_wrptr
  /\ pc' = "read"
  /\ UNCHANGED <<fifo, fifo_rdptr, fifo_wrptr, rc, sent, got, promised, overrun>>

GetRead ==
  /\ pc = "read"
  /\ rc' = fifo[fifo_rdptr]
  /\ pc' = "advance"
  /\ UNCHANGED <<fifo, fifo_rdptr, fifo_wrptr, sent, got, promised, overrun>>

(* Mutation: the index advances past the character received meanwhile. *)
GetAdvanceReset ==
  /\ pc = "advance"
  /\ fifo_rdptr' = fifo_wrptr
  /\ got' = rc
  /\ promised' = FALSE
  /\ pc' = "idle"
  /\ UNCHANGED <<fifo, fifo_wrptr, rc, sent, overrun>>

(* Mutation: con_getchar forgets to advance the index. *)
GetStays ==
  /\ pc = "advance"
  /\ got' = rc
  /\ promised' = FALSE
  /\ pc' = "idle"
  /\ UNCHANGED <<fifo, fifo_rdptr, fifo_wrptr, rc, sent, overrun>>

(* ... and advances the index, stored once, masked. *)
GetAdvance ==
  /\ pc = "advance"
  /\ fifo_rdptr' = Masked(fifo_rdptr + 1)
  /\ got' = rc
  /\ promised' = FALSE
  /\ pc' = "idle"
  /\ UNCHANGED <<fifo, fifo_wrptr, rc, sent, overrun>>

Init ==
  /\ fifo = [i \in 0..(Size - 1) |-> 0]
  /\ fifo_rdptr = 0 /\ fifo_wrptr = 0
  /\ pc = "idle" /\ rc = 0
  /\ sent = 0 /\ got = 0
  /\ overrun = FALSE /\ promised = FALSE

Next == UartInt \/ ConPeek \/ GetEmpty \/ GetTest \/ GetRead \/ GetAdvance

Spec == Init /\ [][Next]_vars

-----------------------------------------------------------------------------
(* Properties *)

TypeOK ==
  /\ fifo \in [0..(Size - 1) -> Nat]
  /\ fifo_rdptr \in 0..(Size - 1) /\ fifo_wrptr \in 0..(Size - 1)
  /\ pc \in {"idle", "read", "advance"}
  /\ rc \in Nat /\ sent \in Nat /\ got \in Nat
  /\ overrun \in BOOLEAN /\ promised \in BOOLEAN

(* As long as no character came while Size - 1 of them waited, con_getchar   *)
(* returns each one, in order, whatever the interrupt does between its steps.*)
Exact == [][GetAdvance /\ ~ overrun => got' = got + 1]_vars

(* Even after an overrun con_getchar never returns a character twice or one  *)
(* that is older than the last: what is lost is lost, nothing is stale.      *)
InOrder == [][GetAdvance => got' > got]_vars

(* When port 0 (con_peek) has said that a character waits, port 1            *)
(* (con_getchar) finds one, as long as there was no overrun.                 *)
PeekKept == [][GetEmpty /\ promised => overrun]_vars
==============================================================================
