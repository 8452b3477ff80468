------------------------------- MODULE SoftUart -------------------------------
(* The serial line of the ATmega88 board, done in software: con_putchar and  *)
(* the pin-change interrupt of con_avr_uart.c with uart_tx and uart_rx of    *)
(* con_avr_uart_asm.S.  uart_tx sends a character and at the same time       *)
(* watches for the start bit of one that comes in, and then receives it.     *)
(*                                                                           *)
(* Time passes in quarters of a bit, the length of the assembler's wait; the *)
(* few instructions between two waits take no time, both ends of the line    *)
(* have the same clock, and an edge stands for one that comes within the     *)
(* quarter before.                                                           *)
EXTENDS Integers, Sequences

CONSTANT Bits           \* data bits of a character (8 in the code)
BitsAssumption == Bits \in Nat \ {0}      \* assumed where Bits gets its value

Chars == [1..Bits -> {0, 1}]
DataEnd == 4 * (Bits + 1)       \* quarters up to the stop bit
FrameEnd == 4 * (Bits + 2)      \* quarters of a whole frame

VARIABLES
  pos, ch,              \* the terminal's frame: quarters since it began, character
  pc,                   \* where con_putchar is
  n,                    \* quarters it has spent there
  r20, r21,             \* uart_tx: rx mode (phase of the start bit), rx bits
  char, out,            \* character being sent, level of the TX pin
  rx, m, bits,          \* who runs uart_rx, since when, bits it has
  pcie, pcif,           \* pin-change interrupt: enabled, flag
  tx_age,               \* history: quarters since the start bit was due
  owed,                 \* history: characters begun and not yet received
  disturbed             \* history: a start bit came in the blind quarter

recv == <<r20, r21>>
sender == <<char, out, tx_age>>
receiver == <<rx, m, bits>>
vars == <<pos, ch, pc, n, recv, sender, receiver, pcie, pcif, owed, disturbed>>

(* The level a frame of character c has q quarters after its beginning. *)
Level(c, q) ==
  IF q < 4 THEN 0 ELSE IF q < DataEnd THEN c[q \div 4] ELSE 1

RxPin(q) == Level(ch, q)

Idle == pos = FrameEnd
Later(q) == IF q = FrameEnd THEN q ELSE q + 1

(* A start bit that comes after the last look of uart_tx at the pin is over  *)
(* when con_putchar looks again, four quarters of stop bit later.            *)
BlindQuarter == pc = "stop" /\ n = 0

Quiet == Idle /\ pc = "idle" /\ rx = "no" /\ ~ pcif

-----------------------------------------------------------------------------
(* The terminal *)

Starts ==
  /\ Idle
  /\ pos' = 0
  /\ ch' \in Chars
  /\ pcif' = TRUE
  /\ disturbed' = (BlindQuarter \/ (disturbed /\ ~ Quiet))
  /\ owed' = IF disturbed' THEN <<>> ELSE Append(owed, ch')
  /\ UNCHANGED <<pc, n, recv, sender, receiver, pcie>>

-----------------------------------------------------------------------------
(* What takes no time *)

(* A character goes to uart_push.                                            *)
Push == owed' = IF owed = <<>> THEN owed ELSE Tail(owed)

Interrupt ==
  /\ pcie /\ pcif /\ rx = "no"
  /\ rx' = "interrupt" /\ m' = 0 /\ bits' = <<>>
  /\ pcie' = FALSE
  /\ UNCHANGED <<pos, ch, pc, n, recv, sender, pcif, owed, disturbed>>

(* The end of uart_int. *)
RxDone ==
  /\ rx # "no" /\ m = DataEnd
  /\ Push
  /\ rx' = "no"
  /\ pcif' = FALSE /\ pcie' = TRUE
  /\ UNCHANGED <<pos, ch, pc, n, recv, sender, m, bits, disturbed>>

(* Mutation: con_putchar leaves the interrupt on. *)
PutCallEnabled ==
  /\ pc = "idle" /\ rx = "no" /\ ~ pcif
  /\ pc' = "tx" /\ n' = 0
  /\ char' \in Chars /\ tx_age' = 0
  /\ r20' = 0 /\ r21' = <<>>
  /\ UNCHANGED <<pos, ch, out, receiver, pcie, pcif, owed, disturbed>>

(* con_putchar up to the first wait of uart_tx. *)
PutCall ==
  /\ pc = "idle" /\ rx = "no" /\ ~ pcif
  /\ pc' = "tx" /\ n' = 0
  /\ char' \in Chars /\ tx_age' = 0
  /\ r20' = 0 /\ r21' = <<>>
  /\ pcie' = FALSE
  /\ UNCHANGED <<pos, ch, out, receiver, pcif, owed, disturbed>>

(* uart_tx has returned: uart_push, reset_int and enable_int. *)
PutReturn ==
  /\ pc \in {"stop", "last"} /\ n = 4
  /\ pc' = "poll"
  /\ IF pc = "last" THEN Push ELSE UNCHANGED owed
  /\ pcif' = FALSE /\ pcie' = TRUE
  /\ UNCHANGED <<pos, ch, n, recv, sender, receiver, disturbed>>

(* Mutation: con_putchar does not look at the pin again. *)
PutPollBlind ==
  /\ pc = "poll" /\ rx = "no" /\ ~ pcif
  /\ pc' = "idle"
  /\ UNCHANGED <<pos, ch, n, recv, sender, receiver, pcie, pcif, owed, disturbed>>

(* The last line of con_putchar; an interrupt that is pending comes first.   *)
PutPoll ==
  /\ pc = "poll" /\ rx = "no" /\ ~ pcif
  /\ pc' = "idle"
  /\ IF RxPin(pos) = 0
     THEN /\ rx' = "poll" /\ m' = 0 /\ bits' = <<>>
          /\ pcie' = FALSE
     ELSE UNCHANGED <<receiver, pcie>>
  /\ UNCHANGED <<pos, ch, n, recv, sender, pcif, owed, disturbed>>

-----------------------------------------------------------------------------
(* A quarter of a bit passes *)

Urgent ==
  \/ pcie /\ pcif /\ rx = "no"
  \/ rx # "no" /\ m = DataEnd
  \/ rx = "no" /\ (pc = "poll" \/ (pc \in {"stop", "last"} /\ n = 4))

(* uart_rx: a bit every four quarters, the first after four. *)
Receive ==
  /\ m' = m + 1
  /\ bits' = IF m % 4 = 0 /\ m > 0 THEN Append(bits, RxPin(pos)) ELSE bits
  /\ UNCHANGED <<pc, n, recv, char, out, rx>>

Phase == (n % 4) + 1

(* uart_tx looks for a start bit in each of the four phases of a sent bit... *)
StartSeen(p) == IF r20 = 0 /\ RxPin(pos) = 0 THEN p ELSE r20

(* ... and then samples at the end of the same phase, the start bit first.   *)
Sampled(p) ==
  IF r20' = p THEN Append(r21, RxPin(Later(pos))) ELSE r21

(* The start bit and all data bits are sampled. *)
TxDone == Len(r21') = Bits + 1

Send ==
  /\ pc = "tx"
  /\ out' = Level(char, n)
  /\ r20' = StartSeen(Phase)
  /\ r21' = Sampled(Phase)
  /\ IF n + 1 < DataEnd
     THEN n' = n + 1 /\ UNCHANGED pc
     ELSE /\ n' = 0
          /\ pc' = IF r20' = 0 THEN "stop" ELSE IF TxDone THEN "last" ELSE "rest"
  /\ UNCHANGED <<char, receiver>>

(* The stop bit, in whole bits until the incoming character is complete. *)
SendRest ==
  /\ pc = "rest"
  /\ out' = 1
  /\ UNCHANGED r20
  /\ r21' = Sampled(Phase)
  /\ n' = (n + 1) % 4
  /\ pc' = IF n < 3 THEN "rest" ELSE IF TxDone THEN "last" ELSE "rest"
  /\ UNCHANGED <<char, receiver>>

SendStop ==
  /\ pc \in {"stop", "last"}
  /\ out' = 1
  /\ n' = n + 1
  /\ UNCHANGED <<pc, recv, char, receiver>>

Tick ==
  /\ ~ Urgent
  /\ pos' = Later(pos)
  /\ pcif' = (pcif \/ RxPin(pos') # RxPin(pos))
  /\ tx_age' = Later(tx_age)
  /\ \/ rx # "no" /\ Receive
     \/ rx = "no" /\ (Send \/ SendRest \/ SendStop)
     \/ rx = "no" /\ pc = "idle" /\ UNCHANGED <<pc, n, recv, char, out, receiver>>
  /\ UNCHANGED <<ch, pcie, owed, disturbed>>

Init ==
  /\ pos = FrameEnd /\ ch = [i \in 1..Bits |-> 1]
  /\ pc = "idle" /\ n = 0
  /\ r20 = 0 /\ r21 = <<>>
  /\ char = [i \in 1..Bits |-> 1] /\ out = 1 /\ tx_age = FrameEnd
  /\ rx = "no" /\ m = 0 /\ bits = <<>>
  /\ pcie = TRUE /\ pcif = FALSE
  /\ owed = <<>> /\ disturbed = FALSE

Next ==
  Starts \/ Interrupt \/ RxDone \/ PutCall \/ PutReturn \/ PutPoll \/ Tick

Spec == Init /\ [][Next]_vars

-----------------------------------------------------------------------------
(* Properties *)

TypeOK ==
  /\ pos \in 0..FrameEnd /\ ch \in Chars
  /\ pc \in {"idle", "tx", "stop", "rest", "last", "poll"}
  /\ n \in 0..(DataEnd - 1) /\ tx_age \in 0..FrameEnd
  /\ r20 \in 0..4 /\ r21 \in UNION {[1..k -> {0, 1}] : k \in 0..(Bits + 1)}
  /\ char \in Chars /\ out \in {0, 1}
  /\ rx \in {"no", "interrupt", "poll"} /\ m \in 0..DataEnd
  /\ bits \in UNION {[1..k -> {0, 1}] : k \in 0..Bits}
  /\ pcie \in BOOLEAN /\ pcif \in BOOLEAN
  /\ owed \in UNION {[1..k -> Chars] : k \in 0..2} /\ disturbed \in BOOLEAN

Taken(c) == owed # <<>> /\ c = Head(owed)

(* Full duplex: whenever the terminal starts a character, also while one is  *)
(* being sent, it is received as it was sent, once and in order, and all of  *)
(* them are received when the line is quiet; unless a start bit came in the  *)
(* blind quarter of uart_tx.                                                 *)
DuplexExact ==
  [][~ disturbed =>
       /\ RxDone => Taken(bits)
       /\ PutReturn /\ pc = "last" => Taken(Tail(r21))
       /\ Starts /\ Quiet => owed = <<>>]_vars

(* The terminal sees every character as a frame of exact bits and at least   *)
(* one stop bit: nothing suspends uart_tx.                                   *)
FramesExact ==
  [][/\ tx_age' # tx_age /\ tx_age' > 0 => out' = Level(char', tx_age)
     /\ PutCall => tx_age = FrameEnd]_vars
==============================================================================
