---------------------------- MODULE Devices_proofs ----------------------------
(* Proofs about the devices of Devices.  The external I/O bus (IoExt), for   *)
(* every set of ports and data bytes: host and device never drive the data   *)
(* lines together and agree on every operation, as long as none has timed    *)
(* out.  The console on a file (FileConsole), for every number of characters *)
(* typed.  The card and the USB console take only the steps of their own     *)
(* modules, so that what the proofs of these show for all constants holds.   *)
EXTENDS Devices, SequenceTheorems, TLAPS

(* /READY is low where the device says so, whatever the host does.           *)
ReadyShown == ready <=> device \in {"portReady", "dataReady", "released"}

(* The device drives the lines only between its exchange and its release.    *)
OutShown == devOut => devIn /\ device \in {"exchanged", "dataReady"}

(* What the device took in the port phase is what the host sends.            *)
PortKnown == devPort = op.port /\ devIn = op.in
DataKnown == ~ op.in => devData = op.val
DataRead == op.in => data = devData

(* Where the device can be, for each place of the host, before a time-out.   *)
Before ==
  host = "idle" =>
    /\ device = "idle" /\ ~ selected /\ hostOut
    /\ result = "ok" => PortKnown /\ DataKnown /\ DataRead

InPortPhase ==
  host = "address" =>
    /\ selected /\ address /\ hostOut /\ reading = op.in /\ latch = op.port
    /\ device \in {"idle", "port", "check", "checked", "portReady"}
    /\ device \in {"check", "checked", "portReady"} => devPort = op.port
    /\ device \in {"checked", "portReady"} => devIn = op.in

BetweenPhases ==
  host = "answered" =>
    ~ selected /\ device \in {"portReady", "between"} /\ PortKnown

InDataPhase ==
  host = "data" =>
    /\ selected /\ hostOut = ~ op.in /\ (~ op.in => latch = op.val)
    /\ device \in {"between", "exchanged", "dataReady"} /\ PortKnown
    /\ device \in {"exchanged", "dataReady"} => DataKnown /\ devOut = devIn

AfterPhases ==
  host = "transferred" =>
    /\ ~ selected /\ hostOut = ~ op.in
    /\ device \in {"dataReady", "released", "idle"}
    /\ PortKnown /\ DataKnown /\ DataRead

InStep ==
  /\ Before /\ InPortPhase /\ BetweenPhases /\ InDataPhase /\ AfterPhases
  /\ result = "ok" => host = "idle"

IInv == TypeOK /\ ReadyShown /\ OutShown /\ (~ late => InStep)

-------------------------------------------------------------------------------
LEMMA InitInv == Init => IInv
<1>1. PullUp \in Byte
  BY SMT DEF PullUp, Byte
<1>2. [in |-> TRUE, port |-> PullUp, val |-> PullUp]
        \in [in : BOOLEAN, port : Byte, val : Byte]
  BY <1>1
<1>3. Init => TypeOK
  BY <1>1, <1>2, Zenon DEF Init, TypeOK
<1>4. Init => ReadyShown /\ OutShown /\ InStep
  BY DEF Init, ReadyShown, OutShown, InStep, Before, InPortPhase, BetweenPhases,
         InDataPhase, AfterPhases
<1> QED
  BY <1>3, <1>4 DEF IInv

LEMMA BusByte == TypeOK => Bus \in Byte
<1>1. PullUp \in Byte
  BY SMT DEF PullUp, Byte
<1> QED
  BY <1>1 DEF TypeOK, Bus

LEMMA NextType == TypeOK /\ [Next]_vars => TypeOK'
<1> SUFFICES ASSUME TypeOK, [Next]_vars PROVE TypeOK'
  OBVIOUS
<1>1. PullUp \in Byte /\ Bus \in Byte
  BY BusByte, SMT DEF PullUp, Byte
<1>2. CASE \E o \in Ops : Call(o)
  <2> PICK o \in Ops : Call(o)
    BY <1>2
  <2>1. o \in [in : BOOLEAN, port : Byte, val : Byte] /\ o.port \in Byte /\ o.in \in BOOLEAN
    BY IoAssumption DEF Ops
  <2>2. /\ host' = "address" /\ op' = o /\ latch' = o.port /\ address' = TRUE
        /\ reading' = o.in /\ selected' = TRUE /\ result' = "none" /\ data' = PullUp
        /\ UNCHANGED <<late, hostOut, device, ready, devOut, devPort, devIn, devData>>
    BY DEF Call, dvars
  <2>3. /\ late' \in BOOLEAN /\ selected' \in BOOLEAN /\ ready' \in BOOLEAN
        /\ address' \in BOOLEAN /\ reading' \in BOOLEAN /\ hostOut' \in BOOLEAN
        /\ devOut' \in BOOLEAN /\ devIn' \in BOOLEAN
    BY <2>1, <2>2, Zenon DEF TypeOK
  <2> QED
    BY <1>1, <2>1, <2>2, <2>3, SMT DEF TypeOK
<1>3. CASE Answered
  <2>1. host' = "answered" /\ selected' = FALSE
    BY <1>3, Zenon DEF Answered
  <2>2. /\ op' = op /\ result' = result /\ data' = data /\ late' = late
        /\ address' = address /\ reading' = reading
    BY <1>3, Zenon DEF Answered
  <2>3. latch' = latch /\ hostOut' = hostOut
    BY <1>3, Zenon DEF Answered
  <2>4. UNCHANGED dvars
    BY <1>3, Zenon DEF Answered
  <2>5. /\ device' = device /\ ready' = ready /\ devOut' = devOut
        /\ devPort' = devPort /\ devIn' = devIn /\ devData' = devData
    BY <2>4, Zenon DEF dvars
  <2>6. /\ host' \in {"idle", "address", "answered", "data", "transferred"}
        /\ op' \in [in : BOOLEAN, port : Byte, val : Byte] /\ latch' \in Byte
        /\ result' \in {"none", "ok", "timeout"}
        /\ device' \in {"idle", "port", "check", "checked", "portReady", "between",
                        "exchanged", "dataReady", "released"}
        /\ devPort' \in Byte /\ devData' \in Byte /\ data' \in Byte
    BY <2>1, <2>2, <2>3, <2>5, SMT DEF TypeOK
  <2>7. /\ late' \in BOOLEAN /\ selected' \in BOOLEAN /\ ready' \in BOOLEAN
        /\ address' \in BOOLEAN /\ reading' \in BOOLEAN /\ hostOut' \in BOOLEAN
        /\ devOut' \in BOOLEAN /\ devIn' \in BOOLEAN
    BY <2>1, <2>2, <2>3, <2>5, Zenon DEF TypeOK
  <2> QED
    BY <2>6, <2>7, Zenon DEF TypeOK
<1>4. CASE GiveUp
  BY <1>4 DEF GiveUp, dvars, TypeOK
<1>5. CASE DataPhase
  <2>1. op.in \in BOOLEAN /\ op.val \in Byte
    BY SMT DEF TypeOK
  <2>2. latch' \in Byte
    BY <1>1, <1>5, <2>1, SMT DEF DataPhase, TypeOK
  <2>3. hostOut' \in BOOLEAN
    BY <1>5, Zenon DEF DataPhase
  <2>4. /\ host' = "data" /\ address' = FALSE /\ selected' = TRUE
        /\ UNCHANGED <<op, result, data, late, reading>>
        /\ UNCHANGED <<device, ready, devOut, devPort, devIn, devData>>
    BY <1>5 DEF DataPhase, dvars
  <2> QED
    BY <2>2, <2>3, <2>4, ZenonT(60) DEF TypeOK
<1>6. CASE Transferred
  <2>1. host' = "transferred" /\ selected' = FALSE
    BY <1>6, Zenon DEF Transferred
  <2>2. /\ op' = op /\ result' = result /\ late' = late
        /\ address' = address /\ reading' = reading
    BY <1>6, Zenon DEF Transferred
  <2>0. data' \in Byte
    BY <1>1, <1>6 DEF Transferred, TypeOK
  <2>3. latch' = latch /\ hostOut' = hostOut
    BY <1>6, Zenon DEF Transferred
  <2>4. UNCHANGED dvars
    BY <1>6, Zenon DEF Transferred
  <2>5. /\ device' = device /\ ready' = ready /\ devOut' = devOut
        /\ devPort' = devPort /\ devIn' = devIn /\ devData' = devData
    BY <2>4, Zenon DEF dvars
  <2>6. /\ host' \in {"idle", "address", "answered", "data", "transferred"}
        /\ op' \in [in : BOOLEAN, port : Byte, val : Byte] /\ latch' \in Byte
        /\ result' \in {"none", "ok", "timeout"}
        /\ device' \in {"idle", "port", "check", "checked", "portReady", "between",
                        "exchanged", "dataReady", "released"}
        /\ devPort' \in Byte /\ devData' \in Byte /\ data' \in Byte
    BY <2>0, <2>1, <2>2, <2>3, <2>5, SMT DEF TypeOK
  <2>7. /\ late' \in BOOLEAN /\ selected' \in BOOLEAN /\ ready' \in BOOLEAN
        /\ address' \in BOOLEAN /\ reading' \in BOOLEAN /\ hostOut' \in BOOLEAN
        /\ devOut' \in BOOLEAN /\ devIn' \in BOOLEAN
    BY <2>1, <2>2, <2>3, <2>5, Zenon DEF TypeOK
  <2> QED
    BY <2>6, <2>7, Zenon DEF TypeOK
<1>7. CASE Return
  BY <1>7 DEF Return, dvars, TypeOK
<1>8. CASE OtherBusUse
  BY <1>8, IoAssumption DEF OtherBusUse, dvars, TypeOK
<1>9. CASE Device
  <2>1. UNCHANGED <<host, op, result, data, late, selected, address, reading, latch, hostOut>>
    BY <1>9 DEF Device, Selected, TakePort, TakeDirection, PortTaken, PortAcked,
       Exchange, DataTaken, DataAcked, Done, hvars, lines
  <2>2. device' \in {"idle", "port", "check", "checked", "portReady", "between",
                     "exchanged", "dataReady", "released"}
    BY <1>9 DEF Device, Selected, TakePort, TakeDirection, PortTaken, PortAcked,
       Exchange, DataTaken, DataAcked, Done, Step, TypeOK
  <2>3. ready' \in BOOLEAN /\ devOut' \in BOOLEAN /\ devIn' \in BOOLEAN
    BY <1>9, Zenon DEF Device, Selected, TakePort, TakeDirection, PortTaken, PortAcked,
       Exchange, DataTaken, DataAcked, Done, TypeOK
  <2>4. devPort' \in Byte /\ devData' \in Byte
    BY <1>1, <1>9, IoAssumption DEF Device, Selected, TakePort, TakeDirection, PortTaken, PortAcked,
       Exchange, DataTaken, DataAcked, Done, TypeOK
  <2> QED
    BY <2>1, <2>2, <2>3, <2>4 DEF TypeOK
<1>10. CASE UNCHANGED vars
  BY <1>10 DEF vars, hvars, lines, dvars, TypeOK
<1> QED
  BY <1>2, <1>3, <1>4, <1>5, <1>6, <1>7, <1>8, <1>9, <1>10 DEF Next, Host

(* /READY and the device's pins follow its place in its loop.                *)
LEMMA NextDevice ==
  TypeOK /\ ReadyShown /\ OutShown /\ [Next]_vars => ReadyShown' /\ OutShown'
<1> SUFFICES ASSUME TypeOK, ReadyShown, OutShown, [Next]_vars
             PROVE ReadyShown' /\ OutShown'
  OBVIOUS
<1>1. CASE Host \/ UNCHANGED vars
  <2>1. UNCHANGED <<device, ready, devOut, devIn>>
    BY <1>1 DEF Host, Call, Answered, GiveUp, DataPhase, Transferred, Return, OtherBusUse,
       vars, dvars
  <2> QED
    BY <2>1 DEF ReadyShown, OutShown
<1>2. CASE Device
  BY <1>2 DEF TypeOK, ReadyShown, OutShown, Device, Selected, TakePort, TakeDirection,
     PortTaken, PortAcked, Exchange, DataTaken, DataAcked, Done, Step
<1> QED
  BY <1>1, <1>2 DEF Next

(* Before a time-out every step keeps host and device in step.               *)
LEMMA NextInStep ==
  IInv /\ [Next]_vars /\ ~ late' => InStep'
<1> SUFFICES ASSUME IInv, [Next]_vars, ~ late' PROVE InStep'
  OBVIOUS
<1>1. ~ late
  BY DEF IInv, TypeOK, Next, Host, Device, Call, Answered, GiveUp, DataPhase, Transferred,
     Return, OtherBusUse, Selected, TakePort, TakeDirection, PortTaken, PortAcked,
     Exchange, DataTaken, DataAcked, Done, vars, hvars
<1>2. InStep /\ TypeOK /\ ReadyShown
  BY <1>1 DEF IInv
<1> USE <1>2 DEF InStep, Before, InPortPhase, BetweenPhases, InDataPhase, AfterPhases,
                 PortKnown, DataKnown, DataRead
<1>3. CASE \E o \in Ops : Call(o)
  BY <1>3 DEF Call, dvars
<1>4. CASE Answered
  BY <1>4 DEF Answered, dvars, ReadyShown
<1>5. CASE GiveUp
  BY <1>5 DEF GiveUp
<1>6. CASE DataPhase
  BY <1>6 DEF DataPhase, dvars, ReadyShown, TypeOK
<1>7. CASE Transferred
  BY <1>7 DEF Transferred, dvars, ReadyShown, Bus, TypeOK
<1>8. CASE Return
  BY <1>8 DEF Return, dvars, ReadyShown
<1>9. CASE OtherBusUse
  BY <1>9 DEF OtherBusUse, dvars
<1>10. CASE Device
  <2>1. UNCHANGED <<host, op, result, data, late, selected, address, reading, latch, hostOut>>
    BY <1>10 DEF Device, Selected, TakePort, TakeDirection, PortTaken, PortAcked,
       Exchange, DataTaken, DataAcked, Done, hvars, lines
  <2>2. CASE Selected \/ PortTaken \/ PortAcked \/ DataTaken \/ DataAcked \/ Done
    BY <2>1, <2>2 DEF Selected, PortTaken, PortAcked, DataTaken, DataAcked, Done, Step
  <2>3. CASE TakePort
    BY <2>1, <2>3 DEF TakePort, Step, Bus
  <2>4. CASE TakeDirection
    BY <2>1, <2>4 DEF TakeDirection, Step
  <2>5. CASE Exchange
    BY <2>1, <2>5 DEF Exchange, Step, Bus, TypeOK
  <2> QED
    BY <1>10, <2>2, <2>3, <2>4, <2>5 DEF Device
<1>11. CASE UNCHANGED vars
  BY <1>11 DEF vars, hvars, lines, dvars
<1> QED
  BY <1>3, <1>4, <1>5, <1>6, <1>7, <1>8, <1>9, <1>10, <1>11 DEF Next, Host

LEMMA Invariant == Spec => []IInv
<1>1. IInv /\ [Next]_vars => IInv'
  BY NextType, NextDevice, NextInStep DEF IInv
<1> QED
  BY InitInv, <1>1, PTL DEF Spec

-------------------------------------------------------------------------------
(* The lines, the places of host and device, and what the device has taken   *)
(* keep to their ranges, after a time-out too (io_out, io_in).               *)
THEOREM Typing == Spec => []TypeOK
<1>1. IInv => TypeOK
  BY DEF IInv
<1> QED
  BY <1>1, Invariant, PTL

(* Before a time-out the data lines have one driver at most (io_in).         *)
THEOREM OneDriver == Spec => []BusReleased
<1>1. IInv => BusReleased
  BY DEF IInv, BusReleased, InStep, Before, InPortPhase, BetweenPhases, InDataPhase,
     AfterPhases, PortKnown, OutShown, TypeOK
<1> QED
  BY <1>1, Invariant, PTL

(* Before a time-out an operation that returned took place at the device,    *)
(* and what an IN returned is what the device answered (io_out, io_in).      *)
THEOREM OperationsPaired == Spec => []Paired
<1>1. IInv => Paired
  BY DEF IInv, Paired, InStep, Before, InPortPhase, BetweenPhases, InDataPhase,
     AfterPhases, PortKnown, DataKnown, DataRead, TypeOK
<1> QED
  BY <1>1, Invariant, PTL
-------------------------------------------------------------------------------
(* The console on a file, for every number of characters typed. *)

(* Before the status is asked for twice, the program knows whether con_peek  *)
(* holds a character, and con_peek is called only when it holds none.        *)
PeekedOnce ==
  ~ again => /\ fc_ready <=> fifo_flag # Console!None
             /\ fc_pc # "run" => fifo_flag = Console!None

ConsoleInv == Console!TypeOK /\ Console!OneWakeup /\ PeekedOnce /\ Console!NothingLost

(* The initial state has its types. *)
LEMMA ConsoleInit ==
  ASSUME Console!ConsoleAssumption, Console!Init
  PROVE  Console!TypeOK
<1>1. taken \in Seq(1..got)
  BY DEF Console!Init
<1>2. again \in BOOLEAN /\ fc_ready \in BOOLEAN /\ locked \in BOOLEAN /\ thread_block \in BOOLEAN
  BY Zenon DEF Console!Init
<1> QED
  BY <1>1, <1>2 DEF Console!Init, Console!TypeOK, Console!None,
     Console!ConsoleAssumption

(* A step keeps the types; what was taken stays among what was read. *)
LEMMA ConsoleType ==
  ASSUME Console!ConsoleAssumption, Console!TypeOK, [Console!Next]_(Console!vars)
  PROVE  Console!TypeOK'
<1> USE DEF Console!None, Console!ConsoleAssumption
<1>1. taken' \in Seq(1..got')
  <2>1. CASE Console!GetLookahead
    <3>1. fifo_flag \in 1..got /\ taken' = Append(taken, fifo_flag) /\ got' = got
      BY <2>1 DEF Console!GetLookahead, Console!TypeOK
    <3> QED
      BY <3>1 DEF Console!TypeOK
  <2>2. CASE Console!PeekReads
    <3>1. got' \in 0..typed /\ got <= got'
      BY <2>2 DEF Console!PeekReads, Console!TypeOK
    <3>2. taken \in Seq(1..got')
      <4>1. 1..got \subseteq 1..got'
        BY <3>1 DEF Console!TypeOK
      <4>2. Len(taken) \in Nat /\ taken \in [1..Len(taken) -> 1..got]
        <5>1. taken \in Seq(1..got)
          BY Zenon DEF Console!TypeOK
        <5> QED
          BY <5>1, LenProperties
      <4>3. taken \in [1..Len(taken) -> 1..got']
        BY <4>1, <4>2
      <4> QED
        BY <4>2, <4>3, SeqDef
    <3> QED
      BY <2>2, <3>1, <3>2, SMTT(30) DEF Console!PeekReads, Console!TypeOK
  <2>3. CASE UNCHANGED <<got, taken>>
    BY <2>3 DEF Console!TypeOK
  <2> QED
    BY <2>1, <2>2, <2>3 DEF Console!Next, Console!Thread, Console!Timer,
       Console!Type, Console!Status, Console!GetPeeks, Console!Block,
       Console!Wake, Console!TimerClears, Console!TimerUnlocks, Console!vars,
       Console!console
<1>2. typed' \in 0..MaxTyped /\ got' \in 0..typed' /\ fifo_flag' \in {Console!None} \cup 1..got'
  BY DEF Console!TypeOK, Console!Next, Console!Thread, Console!Timer,
     Console!Type, Console!Status, Console!GetLookahead, Console!GetPeeks,
     Console!Block, Console!Wake, Console!PeekReads, Console!TimerClears,
     Console!TimerUnlocks, Console!vars, Console!console
<1>3. /\ fc_pc' \in {"run", "sleep", "lock", "read"} /\ caller' \in {"status", "get"}
      /\ timer' \in {"idle", "unlock"}
  BY DEF Console!TypeOK, Console!Next, Console!Thread, Console!Timer,
     Console!Type, Console!Status, Console!GetLookahead, Console!GetPeeks,
     Console!Block, Console!Wake, Console!PeekReads, Console!TimerClears,
     Console!TimerUnlocks, Console!vars, Console!console, Console!nacl
<1>4. fc_ready' \in BOOLEAN /\ again' \in BOOLEAN
  BY Zenon DEF Console!TypeOK, Console!Next, Console!Thread, Console!Timer,
     Console!Type, Console!Status, Console!GetLookahead, Console!GetPeeks,
     Console!Block, Console!Wake, Console!PeekReads, Console!TimerClears,
     Console!TimerUnlocks, Console!vars, Console!console, Console!nacl
<1>5. locked' \in BOOLEAN /\ thread_block' \in BOOLEAN
  BY Zenon DEF Console!TypeOK, Console!Next, Console!Thread, Console!Timer,
     Console!Type, Console!Status, Console!GetLookahead, Console!GetPeeks,
     Console!Block, Console!Wake, Console!PeekReads, Console!TimerClears,
     Console!TimerUnlocks, Console!vars, Console!console, Console!nacl
<1> QED
  BY <1>1, <1>2, <1>3, <1>4, <1>5 DEF Console!TypeOK

(* The hand-off: the thread waits from Block on until the timer, which has   *)
(* seen thread_block, unlocks.                                               *)
LEMMA NextWakeup ==
  ASSUME Console!TypeOK, Console!OneWakeup, [Console!Next]_(Console!vars)
  PROVE  Console!OneWakeup'
<1> USE DEF Console!TypeOK, Console!OneWakeup
<1>1. CASE Console!Type
  BY <1>1 DEF Console!Type, Console!nacl
<1>2. CASE Console!Thread
  <2>1. CASE Console!Status \/ Console!GetLookahead \/ Console!GetPeeks
    BY <2>1 DEF Console!Status, Console!GetLookahead, Console!GetPeeks,
       Console!nacl
  <2>2. CASE Console!Block
    BY <2>2 DEF Console!Block
  <2>3. CASE Console!Wake
    BY <2>3 DEF Console!Wake
  <2>4. CASE Console!PeekReads
    BY <2>4 DEF Console!PeekReads, Console!nacl
  <2> QED
    BY <1>2, <2>1, <2>2, <2>3, <2>4 DEF Console!Thread
<1>3. CASE Console!Timer
  BY <1>3 DEF Console!Timer, Console!TimerClears, Console!TimerUnlocks
<1>4. CASE UNCHANGED Console!vars
  BY <1>4 DEF Console!vars, Console!nacl
<1> QED
  BY <1>1, <1>2, <1>3, <1>4 DEF Console!Next

(* A character that is taken is the one after those taken before. *)
LEMMA Taking ==
  ASSUME NEW s, NEW m \in Nat, s \in Seq(1..m), NEW c, c = Len(s) + 1,
         \A i \in 1..Len(s) : s[i] = i
  PROVE  Len(Append(s, c)) = c /\ \A i \in 1..Len(Append(s, c)) : Append(s, c)[i] = i
OBVIOUS

(* PeekedOnce is kept by the steps of con_peek and con_getchar. *)
LEMMA NextPeeked ==
  ASSUME Console!TypeOK, PeekedOnce, [Console!Next]_(Console!vars)
  PROVE  PeekedOnce'
<1> USE DEF Console!TypeOK, PeekedOnce, Console!None
<1>1. CASE Console!Type
  BY <1>1 DEF Console!Type, Console!console
<1>2. CASE Console!Thread
  <2>1. CASE Console!Status
    BY <2>1 DEF Console!Status
  <2>2. CASE Console!GetLookahead
    BY <2>2 DEF Console!GetLookahead
  <2>3. CASE Console!GetPeeks \/ Console!Block \/ Console!Wake
    BY <2>3 DEF Console!GetPeeks, Console!Block, Console!Wake, Console!console
  <2>4. CASE Console!PeekReads
    BY <2>4 DEF Console!PeekReads
  <2> QED
    BY <1>2, <2>1, <2>2, <2>3, <2>4 DEF Console!Thread
<1>3. CASE Console!Timer \/ UNCHANGED Console!vars
  BY <1>3 DEF Console!Timer, Console!TimerClears, Console!TimerUnlocks,
     Console!console, Console!vars
<1> QED
  BY <1>1, <1>2, <1>3 DEF Console!Next

(* con_peek fills an empty look-ahead, con_getchar empties it. *)
LEMMA NextHeld ==
  ASSUME Console!TypeOK, PeekedOnce, Console!NothingLost, [Console!Next]_(Console!vars)
  PROVE  Console!NothingLost'
<1> SUFFICES ASSUME ~ again'
             PROVE  /\ \A i \in 1..Len(taken') : taken'[i] = i
                    /\ got' = Len(taken') + (IF fifo_flag' = Console!None THEN 0 ELSE 1)
                    /\ fifo_flag' # Console!None => fifo_flag' = got'
  BY DEF Console!NothingLost
<1> USE DEF Console!None
<1>1. ~ again
  BY DEF Console!TypeOK, Console!Next, Console!Thread, Console!Timer,
     Console!Type, Console!Status, Console!GetLookahead, Console!GetPeeks,
     Console!Block, Console!Wake, Console!PeekReads, Console!TimerClears,
     Console!TimerUnlocks, Console!vars, Console!console
<1>2. /\ \A i \in 1..Len(taken) : taken[i] = i
      /\ got = Len(taken) + (IF fifo_flag = Console!None THEN 0 ELSE 1)
      /\ fifo_flag # Console!None => fifo_flag = got
  BY <1>1 DEF Console!NothingLost
<1>3. taken \in Seq(1..got) /\ got \in Nat /\ typed \in Nat /\ fifo_flag \in Nat
  BY DEF Console!TypeOK
<1>4. CASE Console!GetLookahead
  <2>1. /\ fifo_flag = Len(taken) + 1 /\ taken' = Append(taken, fifo_flag)
        /\ fifo_flag' = Console!None /\ got' = got
    BY <1>2, <1>3, <1>4 DEF Console!GetLookahead
  <2> QED
    BY <2>1, <1>2, <1>3, Taking
<1>5. CASE Console!PeekReads
  <2>1. fifo_flag = Console!None
    BY <1>1, <1>5 DEF Console!PeekReads, PeekedOnce
  <2>2. CASE UNCHANGED taken
    BY <1>2, <1>3, <1>5, <2>1, <2>2 DEF Console!PeekReads
  <2>3. CASE taken' # taken
    <3>1. /\ got' = Len(taken) + 1 /\ taken' = Append(taken, got')
          /\ fifo_flag' = Console!None
      BY <1>2, <1>3, <1>5, <2>1, <2>3 DEF Console!PeekReads
    <3> QED
      BY <3>1, <1>2, <1>3, Taking
  <2> QED
    BY <2>2, <2>3
<1>6. CASE UNCHANGED <<got, fifo_flag, taken>>
  BY <1>2, <1>6
<1> QED
  BY <1>4, <1>5, <1>6 DEF Console!Next, Console!Thread, Console!Timer,
     Console!Type, Console!Status, Console!GetPeeks, Console!Block,
     Console!Wake, Console!TimerClears, Console!TimerUnlocks, Console!vars,
     Console!console

LEMMA ConsoleInvariant ==
  ASSUME Console!ConsoleAssumption
  PROVE  Console!Spec => []ConsoleInv
<1>1. Console!Init => ConsoleInv
  <2> SUFFICES ASSUME Console!Init PROVE ConsoleInv
    OBVIOUS
  <2>1. Console!OneWakeup /\ PeekedOnce
    BY DEF Console!Init, Console!OneWakeup, PeekedOnce, Console!None
  <2>2. taken = <<>> /\ got = 0 /\ fifo_flag = 0
    BY DEF Console!Init, Console!None
  <2>3. Console!NothingLost
    BY <2>2 DEF Console!NothingLost, Console!None
  <2> QED
    BY ConsoleInit, <2>1, <2>3 DEF ConsoleInv
<1>2. ConsoleInv /\ [Console!Next]_(Console!vars) => ConsoleInv'
  BY ConsoleType, NextWakeup, NextPeeked, NextHeld DEF ConsoleInv
<1> QED
  BY <1>1, <1>2, PTL DEF Console!Spec

-------------------------------------------------------------------------------
(* The proofs of the card and the USB console, with the constants of Devices.*)
CardProof == INSTANCE SdCard_proofs WITH
  Kinds <- {"none", "sd1", "sd2", "sdhc"}, Blocks <- {1, 512},
  Values <- {"u", "v"}, MaxPolls <- 2,
  ready <- sd_ready, pc <- sd_pc, op <- sd_op, result <- sd_result

UsbProof == INSTANCE CdcConsole_proofs WITH
  TxSize <- 4, RxSize <- 2, PacketSizes <- {1},
  Requests <- {"dte_present", "handled", "unsupported"},
  MaxPut <- 5, MaxSent <- 1, MaxResets <- 1,
  pc <- cdc_pc, rc <- cdc_rc

(* Devices takes the steps of each module. *)
LEMMA BusSteps == DevicesSpec => Spec
<1>1. DevicesInit => Init
  BY DEF DevicesInit
<1>2. [DevicesNext]_dvcs => [Next]_vars
  BY DEF DevicesNext, dvcs, OnBus, OnCard, OnConsole, OnUsb
<1> QED
  BY <1>1, <1>2, PTL DEF DevicesSpec, Spec

LEMMA CardSteps == DevicesSpec => CardProof!Spec
<1>1. DevicesInit => CardProof!Init
  BY DEF DevicesInit, Card!Init, Card!Junk, Card!Nothing,
     CardProof!Init, CardProof!Junk, CardProof!Nothing
<1>2. [DevicesNext]_dvcs => [Card!Next]_(Card!vars)
  BY SMTT(30) DEF DevicesNext, dvcs, OnBus, OnCard, OnConsole, OnUsb, cardv,
     Card!vars, Card!drvvars, Card!cardvars, Card!late
<1>3. [Card!Next]_(Card!vars) <=> [CardProof!Next]_(CardProof!vars)
  BY Zenon DEF
     Card!Next, Card!Driver, Card!Open, Card!Finish, Card!Remove, Card!Fetch,
     Card!Flush, Card!Begins, Card!GoIdle, Card!SendIfCond, Card!SendOpCond,
     Card!AppCmd, Card!SdSendOpCond, Card!ReadOcr, Card!FetchAnswered, Card!Token,
     Card!Data, Card!StoreAnswered, Card!DataResponse, Card!NotBusy, Card!BusyTimeout,
     Card!Ends, Card!Programs, Card!Programmed, Card!Usable, Card!Arg, Card!Same,
     Card!Return, Card!GoesTo, Card!GivesUp, Card!Send, Card!CardCmd, Card!Noise,
     Card!Starts, Card!Answers, Card!Silent, Card!Addressed, Card!Rest, Card!Head1,
     Card!Junk, Card!Nothing, Card!TheData, Card!Contents, Card!Timeout, Card!R1,
     Card!vars, Card!drvvars, Card!cardvars, Card!late, CardProof!Next,
     CardProof!Driver, CardProof!Open, CardProof!Finish, CardProof!Remove,
     CardProof!Fetch, CardProof!Flush, CardProof!Begins, CardProof!GoIdle,
     CardProof!SendIfCond, CardProof!SendOpCond, CardProof!AppCmd,
     CardProof!SdSendOpCond, CardProof!ReadOcr, CardProof!FetchAnswered,
     CardProof!Token, CardProof!Data, CardProof!StoreAnswered, CardProof!DataResponse,
     CardProof!NotBusy, CardProof!BusyTimeout, CardProof!Ends, CardProof!Programs,
     CardProof!Programmed, CardProof!Usable, CardProof!Arg, CardProof!Same,
     CardProof!Return, CardProof!GoesTo, CardProof!GivesUp, CardProof!Send,
     CardProof!CardCmd, CardProof!Noise, CardProof!Starts, CardProof!Answers,
     CardProof!Silent, CardProof!Addressed, CardProof!Rest, CardProof!Head1,
     CardProof!Junk, CardProof!Nothing, CardProof!TheData, CardProof!Contents,
     CardProof!Timeout, CardProof!R1, CardProof!vars, CardProof!drvvars,
     CardProof!cardvars, CardProof!late
<1>4. [DevicesNext]_dvcs => [CardProof!Next]_(CardProof!vars)
  BY <1>2, <1>3
<1> QED
  BY <1>1, <1>4, PTL DEF DevicesSpec, CardProof!Spec

LEMMA ConsoleSteps == DevicesSpec => Console!Spec
<1>1. DevicesInit => Console!Init
  BY DEF DevicesInit
<1>2. [DevicesNext]_dvcs => [Console!Next]_(Console!vars)
  BY DEF DevicesNext, dvcs, OnBus, OnCard, OnConsole, OnUsb, consolev,
     Console!vars, Console!console, Console!nacl
<1> QED
  BY <1>1, <1>2, PTL DEF DevicesSpec, Console!Spec

LEMMA ConsoleKept == DevicesSpec => []ConsoleInv
<1>1. Console!ConsoleAssumption
  BY DevicesAssumption
<1> QED
  BY <1>1, ConsoleInvariant, ConsoleSteps, PTL

LEMMA UsbSteps == DevicesSpec => UsbProof!Spec
<1>1. DevicesInit => UsbProof!Init
  BY DEF DevicesInit, Usb!Init, Usb!NoRequest, UsbProof!Init,
     UsbProof!NoRequest
<1>2. [DevicesNext]_dvcs => [Usb!Next]_(Usb!vars)
  BY DEF DevicesNext, dvcs, OnBus, OnCard, OnConsole, OnUsb, usbv, Usb!vars,
     Usb!txv, Usb!rxv, Usb!usb
<1>3. [Usb!Next]_(Usb!vars) <=> [UsbProof!Next]_(UsbProof!vars)
  BY DEF Usb!Next, Usb!Main, Usb!WaitReady, Usb!PutCall, Usb!PutSpin,
     Usb!PutStore, Usb!PutAdvance, Usb!PutArm, Usb!GetRead, Usb!GetTake,
     Usb!SoftReset, Usb!UsbCom, Usb!BusReset, Usb!HostTakesPacket,
     Usb!HostSends, Usb!HostRequest, Usb!Receive, Usb!Transmit,
     Usb!TxineAfter, Usb!StateAfter, Usb!CanTransmit, Usb!TxContents,
     Usb!Kept, Usb!Disposes, Usb!RxRoom, Usb!Peek, Usb!RxCount, Usb!TxCount,
     Usb!RxNext, Usb!TxNext, Usb!NoRequest, Usb!vars, Usb!txv, Usb!rxv,
     Usb!usb, UsbProof!Next, UsbProof!Main, UsbProof!WaitReady,
     UsbProof!PutCall, UsbProof!PutSpin, UsbProof!PutStore,
     UsbProof!PutAdvance, UsbProof!PutArm, UsbProof!GetRead,
     UsbProof!GetTake, UsbProof!SoftReset, UsbProof!UsbCom,
     UsbProof!BusReset, UsbProof!HostTakesPacket, UsbProof!HostSends,
     UsbProof!HostRequest, UsbProof!Receive, UsbProof!Transmit,
     UsbProof!TxineAfter, UsbProof!StateAfter, UsbProof!CanTransmit,
     UsbProof!TxContents, UsbProof!Kept, UsbProof!Disposes, UsbProof!RxRoom,
     UsbProof!Peek, UsbProof!RxCount, UsbProof!TxCount, UsbProof!RxNext,
     UsbProof!TxNext, UsbProof!NoRequest, UsbProof!vars, UsbProof!txv,
     UsbProof!rxv, UsbProof!usb
<1>4. [DevicesNext]_dvcs => [UsbProof!Next]_(UsbProof!vars)
  BY <1>2, <1>3
<1> QED
  BY <1>1, <1>4, PTL DEF DevicesSpec, UsbProof!Spec

(* The tuple of the card's variables, in this step and the next.             *)
LEMMA SameCardvars ==
  CardProof!vars = Card!vars /\ (CardProof!vars)' = (Card!vars)'
BY DEF CardProof!vars, Card!vars, CardProof!cardvars, Card!cardvars, CardProof!drvvars,
   Card!drvvars, CardProof!late, Card!late

LEMMA CardConstants == CardProof!SdCardAssumption
BY DEF CardProof!SdCardAssumption

LEMMA UsbConstants == UsbProof!SizesAssumption
BY DEF UsbProof!SizesAssumption

-------------------------------------------------------------------------------
(* Whichever device runs, the variables of all four keep to their ranges     *)
(* (TypeOK of IoExt, SdCard, FileConsole and CdcConsole).                    *)
THEOREM DevicesTyping == DevicesSpec => []DevicesTypeOK
<1>1. DevicesSpec => []TypeOK
  BY BusSteps, Typing, PTL
<1>2. DevicesSpec => []Card!TypeOK
  <2>1. CardProof!TypeOK <=> Card!TypeOK
    BY DEF CardProof!TypeOK, Card!TypeOK, CardProof!Junk, Card!Junk, CardProof!Contents,
       Card!Contents, CardProof!Nothing, Card!Nothing, CardProof!TheData, Card!TheData
  <2> QED
    BY <2>1, CardSteps, CardConstants, CardProof!Typing, PTL
<1>3. DevicesSpec => []Console!TypeOK
  <2>1. ConsoleInv => Console!TypeOK
    BY DEF ConsoleInv
  <2> QED
    BY <2>1, ConsoleKept, PTL
<1>4. DevicesSpec => []Usb!TypeOK
  <2>1. UsbProof!TypeOK <=> Usb!TypeOK
    BY DEF UsbProof!TypeOK, Usb!TypeOK, UsbProof!NoRequest, Usb!NoRequest
  <2> QED
    BY <2>1, UsbSteps, UsbConstants, UsbProof!Typing, PTL
<1> QED
  BY <1>1, <1>2, <1>3, <1>4, PTL DEF DevicesTypeOK

(* The card is addressed in the unit it expects (sdcard_open).               *)
THEOREM UnitKnown == DevicesSpec => []CcsRight
<1>1. CardProof!CcsRight <=> CcsRight
  BY DEF CcsRight, CardProof!CcsRight, Card!CcsRight, CardProof!Usable, Card!Usable
<1> QED
  BY <1>1, CardSteps, CardConstants, CardProof!UnitKnown, PTL

(* A fetch that reports success gives the block asked for or, in the cases   *)
(* it names, no block at all, and never another one (sdcard_fetch).          *)
THEOREM FetchExact == DevicesSpec => FetchRight
<1>1. (CardProof!Data <=> Card!Data) /\ CardProof!Head1 = Card!Head1
      /\ CardProof!Junk = Card!Junk
  BY DEF
     Card!Data, Card!Head1, Card!Return, Card!R1, Card!Timeout, Card!Junk, Card!Rest,
     Card!vars, Card!cardvars, Card!drvvars, Card!late, CardProof!Data,
     CardProof!Head1, CardProof!Return, CardProof!R1, CardProof!Timeout,
     CardProof!Junk, CardProof!Rest, CardProof!vars, CardProof!cardvars,
     CardProof!drvvars, CardProof!late
<1>2. [(CardProof!Data /\ "missed" \notin faults) =>
         \/ buffer' = media[blk]
         \/ /\ buffer' = CardProof!Junk
            /\ kind = "none" \/ CardProof!Head1.is = "error" \/ spoilt]_(CardProof!vars)
      => [(Card!Data /\ "missed" \notin faults) =>
            \/ buffer' = media[blk]
            \/ /\ buffer' = Card!Junk
               /\ kind = "none" \/ Card!Head1.is = "error" \/ spoilt]_(Card!vars)
  BY <1>1, SameCardvars
<1> QED
  BY <1>2, CardSteps, CardConstants, CardProof!FetchExact, PTL
     DEF FetchRight, Card!FetchRight, CardProof!FetchRight

(* A flush that reports success has stored the block fetched last but in the *)
(* cases it names, and a block changes only to what a flush was to put there *)
(* (sdcard_store).                                                           *)
THEOREM StoreExact == DevicesSpec => StoreRight
<1>1. (CardProof!NotBusy <=> Card!NotBusy) /\ CardProof!Meant = Card!Meant
  BY DEF
     Card!NotBusy, Card!Ends, Card!Return, Card!Rest, Card!Nothing, Card!Junk,
     Card!Meant, Card!vars, Card!cardvars, Card!drvvars, Card!late, CardProof!NotBusy,
     CardProof!Ends, CardProof!Return, CardProof!Rest, CardProof!Nothing,
     CardProof!Junk, CardProof!Meant, CardProof!vars, CardProof!cardvars,
     CardProof!drvvars, CardProof!late
<1>2. [ "missed" \notin faults =>
         /\ (CardProof!NotBusy /\ sd_result' = 0) => media[cur_blk] = buffer \/ kind = "none" \/ spoilt
         /\ \A b \in {1, 512} : media'[b] # media[b] =>
              \E store \in CardProof!Meant :
                store.b = b /\ (media'[b] = store.v \/ kind' = "none")]_(CardProof!vars)
      => [ "missed" \notin faults =>
           /\ (Card!NotBusy /\ sd_result' = 0) => media[cur_blk] = buffer \/ kind = "none" \/ spoilt
           /\ \A b \in {1, 512} : media'[b] # media[b] =>
                \E store \in Card!Meant :
                  store.b = b /\ (media'[b] = store.v \/ kind' = "none")]_(Card!vars)
  BY <1>1, SameCardvars
<1> QED
  BY <1>2, CardSteps, CardConstants, CardProof!StoreExact, PTL
     DEF StoreRight, Card!StoreRight, CardProof!StoreRight

(* However the emulator's thread and the timer callback interleave, exactly  *)
(* one wake-up is on its way while the thread sleeps, and none at any other  *)
(* time (platform_nacl.cc).                                                  *)
THEOREM HandOff == DevicesSpec => []OneWakeup
<1>1. ConsoleInv => OneWakeup
  BY DEF ConsoleInv, OneWakeup
<1> QED
  BY <1>1, ConsoleKept, PTL

(* Until the status is asked for twice, every character typed reaches the    *)
(* program once and in order (con_posix.c).                                  *)
THEOREM Lookahead == DevicesSpec => []NothingLost
<1>1. ConsoleInv => NothingLost
  BY DEF ConsoleInv, NothingLost
<1> QED
  BY <1>1, ConsoleKept, PTL
===============================================================================
