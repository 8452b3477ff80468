----------------------------- MODULE CdcConsole -----------------------------
(* The USB console of the ATmega32U2/32U4 boards (con_avr_cdc.c): the main   *)
(* program and the USB interrupts share two rings, one per direction, and    *)
(* the endpoint registers.  The compiler keeps the order of the volatile     *)
(* accesses of con_putchar and con_getchar; an interrupt may come between    *)
(* any two of them, and runs to its end.                                     *)
(*                                                                           *)
(* Characters are numbered in the order they are sent, which is all that     *)
(* tells them apart.                                                         *)
EXTENDS Integers, Sequences

CONSTANTS
  TxSize, RxSize,       \* sizes of tx_buf and rx_buf (16 and 4 in the code)
  PacketSizes,          \* sizes of the packets the host sends (up to 32)
  Requests,             \* requests of the host, by what they do here
  MaxPut, MaxSent,      \* bounds: characters per direction
  MaxResets             \* bound: resets, of the bus and of the program

ASSUME SizesAssumption ==
  /\ TxSize \in Nat \ {0, 1} /\ RxSize \in Nat \ {0, 1}
  /\ PacketSizes \subseteq Nat \ {0}
  /\ Requests \subseteq {"dte_present", "handled", "unsupported"}
  /\ MaxPut \in Nat /\ MaxSent \in Nat /\ MaxResets \in Nat

VARIABLES
  pc,                   \* where the main program is
  tx_buf, tx_wr_index, tx_rd_index,
  rx_buf, rx_wr_index, rx_rd_index,
  rc,                   \* the local variable of con_getchar
  state,                \* not_ready, ready or error
  txine,                \* TXINE of endpoint 3: interrupt when it is free
  in_free,              \* TXINI of endpoint 3: the host took the last packet
  out_packet,           \* endpoint 2: the packet the host sent, if any
  setup,                \* endpoint 0: the pending request, if any
  resets,               \* resets so far
  terminal,             \* history: ready since the last bus reset
  tx_put, to_host,      \* history: characters put, characters in packets
  rx_sent, rx_kept, rx_got  \* history: bytes sent, kept by the interrupt, read

txv == <<tx_buf, tx_wr_index, tx_rd_index, tx_put, to_host>>
rxv == <<rx_buf, rx_wr_index, rx_rd_index, rc, rx_kept, rx_got>>
usb == <<state, txine, in_free, out_packet, setup, terminal>>
vars == <<pc, txv, rxv, usb, resets, rx_sent>>

(* The requests on endpoint 0 differ here in what becomes of the state: SET_ *)
(* CONTROL_LINE_STATE with a terminal present, one that is handled without a *)
(* trace (descriptors, address, line coding, ...), one not supported.        *)
NoRequest == "none"

(* Mutation: the mask is forgotten. *)
TxNextUnmasked(i) == i + 1

TxNext(i) == (i + 1) % TxSize
RxNext(i) == (i + 1) % RxSize
TxCount == (tx_wr_index - tx_rd_index) % TxSize
RxCount == (rx_wr_index - rx_rd_index) % RxSize

(* con_peek *)
Peek == RxCount

-----------------------------------------------------------------------------
(* The main program *)

(* The end of con_init: wait for a terminal. *)
WaitReady ==
  /\ pc = "init" /\ state = "ready"
  /\ pc' = "idle"
  /\ UNCHANGED <<txv, rxv, usb, resets, rx_sent>>

PutCall ==
  /\ pc = "idle" /\ tx_put < MaxPut
  /\ pc' = "spin"
  /\ UNCHANGED <<txv, rxv, usb, resets, rx_sent>>

(* Mutation: does not wait. *)
PutSpinOverruns ==
  /\ pc = "spin"
  /\ pc' = "store"
  /\ UNCHANGED <<txv, rxv, usb, resets, rx_sent>>

(* Waits while the buffer is full. *)
PutSpin ==
  /\ pc = "spin" /\ TxNext(tx_wr_index) # tx_rd_index
  /\ pc' = "store"
  /\ UNCHANGED <<txv, rxv, usb, resets, rx_sent>>

PutStore ==
  /\ pc = "store"
  /\ pc' = "advance"
  /\ tx_buf' = [tx_buf EXCEPT ![tx_wr_index] = tx_put + 1]
  /\ UNCHANGED <<tx_wr_index, tx_rd_index, tx_put, to_host, rxv, usb, resets, rx_sent>>

PutAdvance ==
  /\ pc = "advance"
  /\ pc' = "arm"
  /\ tx_wr_index' = TxNext(tx_wr_index)
  /\ tx_put' = tx_put + 1
  /\ UNCHANGED <<tx_buf, tx_rd_index, to_host, rxv, usb, resets, rx_sent>>

(* Mutation: leaves the interrupt as it is. *)
PutArmForgets ==
  /\ pc = "arm"
  /\ pc' = "idle"
  /\ UNCHANGED <<txv, rxv, usb, resets, rx_sent>>

(* The section between cli() and sei(). *)
PutArm ==
  /\ pc = "arm"
  /\ pc' = "idle"
  /\ txine' = TRUE
  /\ UNCHANGED <<txv, rxv, state, in_free, out_packet, setup, resets, terminal, rx_sent>>

(* con_getchar on an empty buffer returns -1 and changes nothing. *)
GetRead ==
  /\ pc = "idle" /\ rx_wr_index # rx_rd_index
  /\ pc' = "take"
  /\ rc' = rx_buf[rx_rd_index]
  /\ UNCHANGED <<txv, rx_buf, rx_wr_index, rx_rd_index, rx_kept, rx_got,
                 usb, resets, rx_sent>>

GetTake ==
  /\ pc = "take"
  /\ pc' = "idle"
  /\ rx_rd_index' = RxNext(rx_rd_index)
  /\ rx_got' = Append(rx_got, rc)
  /\ UNCHANGED <<txv, rx_buf, rx_wr_index, rc, rx_kept, usb, resets, rx_sent>>

(* Monitor command r: a jump to address 0.  The static variables start over  *)
(* (and with them the histories), the USB module keeps its registers, and    *)
(* con_init returns early.                                                   *)
SoftReset ==
  /\ pc = "idle" /\ resets < MaxResets
  /\ resets' = resets + 1
  /\ tx_wr_index' = 0 /\ tx_rd_index' = 0 /\ tx_put' = 0 /\ to_host' = <<>>
  /\ rx_wr_index' = 0 /\ rx_rd_index' = 0 /\ rx_kept' = <<>> /\ rx_got' = <<>>
  /\ tx_buf' = [i \in 0..(TxSize - 1) |-> 0]
  /\ rx_buf' = [i \in 0..(RxSize - 1) |-> 0]
  /\ state' = "not_ready"
  /\ UNCHANGED <<pc, rc, txine, in_free, out_packet, setup, terminal, rx_sent>>

Main ==
  \/ WaitReady \/ PutCall \/ PutSpin \/ PutStore \/ PutAdvance \/ PutArm
  \/ GetRead \/ GetTake \/ SoftReset

-----------------------------------------------------------------------------
(* The interrupts *)

(* Mutation: the ring is filled to the last slot. *)
RxRoomWhole == RxSize - RxCount

RxRoom == (rx_rd_index - rx_wr_index - 1) % RxSize

(* A byte is taken from the packet only while there is room; the first one   *)
(* that comes while the state is not ready is disposed of (it is left in the *)
(* slot of the next one).                                                    *)
Disposes == out_packet # <<>> /\ state # "ready" /\ RxRoom > 0

Kept ==
  LET bytes == IF Disposes THEN Tail(out_packet) ELSE out_packet
  IN  SubSeq(bytes, 1, IF Len(bytes) < RxRoom THEN Len(bytes) ELSE RxRoom)

Receive ==
  /\ rx_buf' = [i \in 0..(RxSize - 1) |->
       LET n == (i - rx_wr_index) % RxSize
       IN  IF n < Len(Kept) THEN Kept[n + 1] ELSE rx_buf[i]]
  /\ rx_wr_index' = (rx_wr_index + Len(Kept)) % RxSize
  /\ rx_kept' = rx_kept \o Kept
  /\ out_packet' = <<>>         \* the rest of the packet is dropped

(* The whole ring goes into one packet. *)
TxContents == [i \in 1..TxCount |-> tx_buf[(tx_rd_index + i - 1) % TxSize]]
CanTransmit == tx_rd_index # tx_wr_index /\ in_free

(* Mutation: the interrupt disables itself although the endpoint was busy. *)
TxineOff == FALSE

TxineAfter == txine /\ ~ CanTransmit

Transmit ==
  IF CanTransmit
  THEN /\ to_host' = to_host \o TxContents
       /\ tx_rd_index' = tx_wr_index
       /\ in_free' = FALSE
  ELSE UNCHANGED <<to_host, tx_rd_index, in_free>>

StateAfter(st) ==
  IF setup = NoRequest \/ st = "error" THEN st
  ELSE CASE setup = "dte_present" -> "ready"
         [] setup = "unsupported" -> "error"
         [] OTHER -> st

(* USB_COM_vect: receive, transmit, then the control endpoint. *)
UsbCom ==
  /\ out_packet # <<>> \/ (txine /\ in_free) \/ setup # NoRequest
  /\ Receive
  /\ Transmit
  /\ txine' = TxineAfter
  /\ state' = StateAfter(IF Disposes THEN "ready" ELSE state)
  /\ terminal' = (terminal \/ state' = "ready")
  /\ setup' = NoRequest
  /\ UNCHANGED <<pc, tx_buf, tx_wr_index, tx_put, rx_rd_index, rc, rx_got,
                 resets, rx_sent>>

(* USB_GEN_vect after a bus reset: the endpoints are set up anew, empty, the *)
(* transmit interrupt disabled.  The returns on a failure of ep_init, which  *)
(* leave the state error, are left out.                                      *)
BusReset ==
  /\ resets < MaxResets
  /\ resets' = resets + 1
  /\ state' = "not_ready"
  /\ terminal' = FALSE
  /\ txine' = FALSE /\ in_free' = TRUE
  /\ out_packet' = <<>> /\ setup' = NoRequest
  /\ UNCHANGED <<pc, txv, rxv, rx_sent>>

-----------------------------------------------------------------------------
(* The host *)

HostTakesPacket ==
  /\ ~ in_free
  /\ in_free' = TRUE
  /\ UNCHANGED <<pc, txv, rxv, state, txine, out_packet, setup, resets, terminal, rx_sent>>

HostSends ==
  /\ out_packet = <<>>
  /\ \E n \in PacketSizes :
       /\ rx_sent + n <= MaxSent
       /\ out_packet' = [i \in 1..n |-> rx_sent + i]
       /\ rx_sent' = rx_sent + n
  /\ UNCHANGED <<pc, txv, rxv, state, txine, in_free, setup, resets, terminal>>

HostRequest ==
  /\ setup = NoRequest
  /\ setup' \in Requests
  /\ UNCHANGED <<pc, txv, rxv, state, txine, in_free, out_packet, resets, terminal, rx_sent>>

Init ==
  /\ pc = "init"
  /\ tx_buf = [i \in 0..(TxSize - 1) |-> 0]
  /\ rx_buf = [i \in 0..(RxSize - 1) |-> 0]
  /\ tx_wr_index = 0 /\ tx_rd_index = 0
  /\ rx_wr_index = 0 /\ rx_rd_index = 0
  /\ rc = 0
  /\ state = "not_ready" /\ terminal = FALSE
  /\ txine = FALSE /\ in_free = TRUE
  /\ out_packet = <<>> /\ setup = NoRequest
  /\ resets = 0
  /\ tx_put = 0 /\ to_host = <<>>
  /\ rx_sent = 0 /\ rx_kept = <<>> /\ rx_got = <<>>

Next ==
  \/ Main \/ UsbCom \/ BusReset
  \/ HostTakesPacket \/ HostSends \/ HostRequest

Spec == Init /\ [][Next]_vars

(* A pending interrupt is served, con_putchar goes on once it was called,    *)
(* the host polls endpoint 3 and, after a bus reset, sends the requests of   *)
(* an enumeration.                                                           *)
Putting == PutSpin \/ PutStore \/ PutAdvance \/ PutArm
Enumerate == state # "ready" /\ HostRequest
Fairness ==
  /\ WF_vars(UsbCom) /\ WF_vars(Putting) /\ WF_vars(GetTake)
  /\ WF_vars(HostTakesPacket) /\ WF_vars(Enumerate)

FairSpec == Spec /\ Fairness

-----------------------------------------------------------------------------
(* Properties *)

TypeOK ==
  /\ pc \in {"init", "idle", "spin", "store", "advance", "arm", "take"}
  /\ tx_buf \in [0..(TxSize - 1) -> Nat]
  /\ tx_wr_index \in 0..(TxSize - 1) /\ tx_rd_index \in 0..(TxSize - 1)
  /\ rx_buf \in [0..(RxSize - 1) -> Nat]
  /\ rx_wr_index \in 0..(RxSize - 1) /\ rx_rd_index \in 0..(RxSize - 1)
  /\ rc \in Nat
  /\ state \in {"not_ready", "ready", "error"}
  /\ terminal \in BOOLEAN /\ txine \in BOOLEAN /\ in_free \in BOOLEAN
  /\ out_packet \in Seq(Nat)
  /\ setup \in Requests \cup {NoRequest}
  /\ resets \in Nat /\ tx_put \in Nat /\ rx_sent \in Nat
  /\ to_host \in Seq(Nat) /\ rx_kept \in Seq(Nat) /\ rx_got \in Seq(Nat)

(* Whenever the interrupt comes, the characters of con_putchar reach the     *)
(* endpoint each once and in order: the packets and the ring hold exactly    *)
(* the characters put, 1 up to tx_put.                                       *)
TxExact ==
  LET all == to_host \o TxContents IN
  Len(all) = tx_put /\ \A i \in 1..tx_put : all[i] = i

(* con_getchar returns the bytes the interrupt kept, each once and in order, *)
(* also when the interrupt fills the ring between its two accesses.          *)
RxContents == [i \in 1..RxCount |-> rx_buf[(rx_rd_index + i - 1) % RxSize]]
RxExact == rx_kept = rx_got \o RxContents

(* A terminal that was told a character waits (con_peek) finds it: only      *)
(* reading it, or a reset, makes the count of waiting characters go down.    *)
PeekHolds == [][Peek' < Peek => GetTake \/ SoftReset]_vars

(* con_putchar always returns, also if the ring was full and the bus was     *)
(* reset under it.                                                           *)
PutReturns == (pc = "spin") ~> (pc = "idle")

(* No character stays in the ring: TXINE is set after the index advances, so *)
(* the interrupt that clears it cannot miss a character.                     *)
TxDrains == (TxCount > 0) ~> (TxCount = 0)

(* con_avr_cdc.c:468: con_init skips the initialization "in order to keep    *)
(* the CDC functionality available during software resets": once a terminal  *)
(* is there, a byte that finds room is kept until the bus is reset.          *)
InputSurvivesReset ==
  [][UsbCom /\ terminal /\ out_packet # <<>> /\ RxRoom > 0
       => rx_kept' # rx_kept]_vars
==============================================================================
