-------------------------------- MODULE IoExt ---------------------------------
(* The external I/O bus: io_out and io_in of io_avr.c against a device that  *)
(* follows the protocol as ioext_test.ino does, but answers with any byte.   *)
(* The lines are /IOE, /READY, /DATA (high in the address phase), /W and the *)
(* eight data lines.                                                         *)
EXTENDS Integers

CONSTANTS
  Ports, DataBytes      \* bytes the CPU's OUT and IN instructions use

PullUp == 255      \* what undriven data lines show
Byte == 0..255

ASSUME IoAssumption ==
  Ports \subseteq Byte /\ DataBytes \subseteq Byte

VARIABLES
  host, op,        \* where the host is, and [in, port, val] of its operation
  result,          \* of the host's last operation: "ok", "timeout" or "none"
  data,            \* what io_in returns
  late,            \* an operation has timed out since the start
  selected,        \* /IOE is low
  ready,           \* /READY is low
  address,         \* /DATA is high
  reading,         \* /W is high
  latch, hostOut,  \* PORTD; DDRD = 0xff
  device, devOut,  \* where the device is; its data pins are outputs
  devPort, devIn, devData   \* port, direction and data the device took;
                            \* for IN, devData is what it answers

lines == <<selected, address, reading, latch, hostOut>>
hvars == <<host, op, result, data, late, lines>>
dvars == <<device, ready, devOut, devPort, devIn, devData>>
vars == <<hvars, dvars>>

Bus == IF hostOut THEN latch ELSE IF devOut THEN devData ELSE PullUp

-----------------------------------------------------------------------------
(* The host. *)

Ops == [in : BOOLEAN, port : Ports, val : DataBytes]

(* Mutation: the latch takes the port as the 8080's own address bus shows it *)
(* with IN and OUT, in both bytes.                                           *)
CallWide(o) ==
  /\ host = "idle" /\ host' = "address" /\ op' = o /\ latch' = o.port * 257
  /\ address' = TRUE /\ reading' = o.in /\ selected' = TRUE /\ result' = "none"
  /\ data' = PullUp /\ UNCHANGED <<late, hostOut, dvars>>

Call(o) ==
  /\ host = "idle"
  /\ host' = "address" /\ op' = o
  /\ latch' = o.port
  /\ address' = TRUE /\ reading' = o.in
  /\ selected' = TRUE
  /\ result' = "none" /\ data' = PullUp
  /\ UNCHANGED <<late, hostOut, dvars>>

(* Mutation: the data phase starts without waiting for /READY to rise. *)
AnsweredEarly ==
  /\ host = "address" /\ ready
  /\ host' = "data" /\ hostOut' = ~ op.in
  /\ latch' = (IF op.in THEN PullUp ELSE op.val)
  /\ address' = FALSE /\ selected' = TRUE
  /\ UNCHANGED <<op, result, data, late, reading, dvars>>

(* /READY came in time. *)
Answered ==
  /\ host = "address" /\ ready
  /\ host' = "answered" /\ selected' = FALSE
  /\ UNCHANGED <<op, result, data, late, address, reading, latch, hostOut, dvars>>

(* 65535 polls went by: "Revert". *)
GiveUp ==
  /\ host = "address" /\ ~ ready
  /\ host' = "idle" /\ result' = "timeout" /\ late' = TRUE
  /\ selected' = FALSE /\ address' = FALSE /\ reading' = TRUE
  /\ UNCHANGED <<op, data, latch, hostOut, dvars>>

(* Mutation: io_in leaves DDRD as it is. *)
DataPhaseDriven ==
  /\ host = "answered" /\ ~ ready
  /\ host' = "data" /\ latch' = PullUp
  /\ address' = FALSE /\ selected' = TRUE
  /\ UNCHANGED <<op, result, data, late, reading, hostOut, dvars>>

DataPhase ==
  /\ host = "answered" /\ ~ ready
  /\ host' = "data"
  /\ hostOut' = ~ op.in
  /\ latch' = IF op.in THEN PullUp ELSE op.val
  /\ address' = FALSE /\ selected' = TRUE
  /\ UNCHANGED <<op, result, data, late, reading, dvars>>

(* Mutation: the data phase is started over. *)
TransferredRepeats ==
  /\ host = "data" /\ ready
  /\ host' = "answered" /\ selected' = FALSE
  /\ UNCHANGED <<op, result, data, late, address, reading, latch, hostOut, dvars>>

(* io_in samples the lines while the device still holds /READY low. *)
Transferred ==
  /\ host = "data" /\ ready
  /\ host' = "transferred" /\ selected' = FALSE
  /\ data' = IF op.in THEN Bus ELSE data
  /\ UNCHANGED <<op, result, late, address, reading, latch, hostOut, dvars>>

Return ==
  /\ host = "transferred" /\ ~ ready
  /\ host' = "idle" /\ result' = "ok"
  /\ hostOut' = TRUE /\ reading' = TRUE
  /\ UNCHANGED <<op, data, late, selected, address, latch, dvars>>

(* Between two operations the data lines carry memory addresses and data. *)
OtherBusUse ==
  /\ host = "idle"
  /\ latch' \in DataBytes
  /\ UNCHANGED <<host, op, result, data, late, selected, address, reading, hostOut,
                 dvars>>

Host ==
  \/ \E o \in Ops : Call(o)
  \/ Answered \/ GiveUp \/ DataPhase \/ Transferred \/ Return \/ OtherBusUse

-----------------------------------------------------------------------------
(* The device. *)

Step(from, to) == device = from /\ device' = to

Selected ==
  /\ Step("idle", "port") /\ selected
  /\ UNCHANGED <<ready, devOut, devPort, devIn, devData, hvars>>

TakePort ==
  /\ Step("port", "check") /\ devPort' = Bus
  /\ UNCHANGED <<ready, devOut, devIn, devData, hvars>>

(* The check for the port phase only prints. *)
TakeDirection ==
  /\ Step("check", "checked") /\ devIn' = reading
  /\ UNCHANGED <<ready, devOut, devPort, devData, hvars>>

PortTaken ==
  /\ Step("checked", "portReady") /\ ready' = TRUE
  /\ UNCHANGED <<devOut, devPort, devIn, devData, hvars>>

PortAcked ==
  /\ Step("portReady", "between") /\ ~ selected
  /\ ready' = FALSE
  /\ UNCHANGED <<devOut, devPort, devIn, devData, hvars>>

Exchange ==
  /\ Step("between", "exchanged") /\ selected
  /\ devOut' = devIn
  /\ IF devIn THEN devData' \in DataBytes ELSE devData' = Bus
  /\ UNCHANGED <<ready, devPort, devIn, hvars>>

DataTaken ==
  /\ Step("exchanged", "dataReady") /\ ready' = TRUE
  /\ UNCHANGED <<devOut, devPort, devIn, devData, hvars>>

DataAcked ==
  /\ Step("dataReady", "released") /\ ~ selected
  /\ devOut' = FALSE
  /\ UNCHANGED <<ready, devPort, devIn, devData, hvars>>

Done ==
  /\ Step("released", "idle") /\ ready' = FALSE
  /\ UNCHANGED <<devOut, devPort, devIn, devData, hvars>>

Device ==
  \/ Selected \/ TakePort \/ TakeDirection \/ PortTaken \/ PortAcked
  \/ Exchange \/ DataTaken \/ DataAcked \/ Done

Init ==
  /\ host = "idle" /\ op = [in |-> TRUE, port |-> PullUp, val |-> PullUp]
  /\ result = "none" /\ data = PullUp /\ late = FALSE
  /\ selected = FALSE /\ address = FALSE /\ reading = TRUE
  /\ latch = PullUp /\ hostOut = TRUE
  /\ device = "idle" /\ ready = FALSE /\ devOut = FALSE
  /\ devPort = PullUp /\ devIn = TRUE /\ devData = PullUp

Next == Host \/ Device

Spec == Init /\ [][Next]_vars

(* The host runs on, and the device's loop does; neither has to be called. *)
HostGoesOn == Answered \/ GiveUp \/ DataPhase \/ Transferred \/ Return
Fairness == WF_vars(HostGoesOn) /\ WF_vars(Device)

FairSpec == Spec /\ Fairness

-----------------------------------------------------------------------------
(* The lines are lines, and each side is at a place of its program. *)
TypeOK ==
  /\ host \in {"idle", "address", "answered", "data", "transferred"}
  /\ op \in [in : BOOLEAN, port : Byte, val : Byte]
  /\ result \in {"none", "ok", "timeout"} /\ data \in Byte /\ late \in BOOLEAN
  /\ selected \in BOOLEAN /\ ready \in BOOLEAN /\ address \in BOOLEAN
  /\ reading \in BOOLEAN /\ latch \in Byte /\ hostOut \in BOOLEAN
  /\ device \in {"idle", "port", "check", "checked", "portReady", "between",
                 "exchanged", "dataReady", "released"}
  /\ devOut \in BOOLEAN
  /\ devPort \in Byte /\ devIn \in BOOLEAN /\ devData \in Byte

(* Until an operation times out, host and device never drive the data lines  *)
(* at the same time: the device outputs only after io_in has released them,  *)
(* and stops before it returns (io_in, and the device's loop).               *)
BusReleased == ~ late => ~ (hostOut /\ devOut)

(* An operation that returned took place: the device took its port, its      *)
(* direction and, for OUT, its data, in the port phase that /DATA announced, *)
(* and the byte that an IN returned is the one the device answered with      *)
(* (io_out, io_in), as long as no operation timed out.                       *)
Paired ==
  ~ late =>
    /\ device = "check" => address
    /\ result = "ok" =>
         /\ devPort = op.port /\ devIn = op.in
         /\ devData = IF op.in THEN data ELSE op.val

(* Every operation returns: neither side waits for the other for ever, also  *)
(* after operations that timed out and left the device one phase behind.     *)
Returns == host # "idle" ~> host = "idle"
=============================================================================
