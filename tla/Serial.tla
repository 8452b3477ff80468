-------------------------------- MODULE Serial --------------------------------
(* The serial console of the ATmega88 board: its input queue (UartQueue) and *)
(* its line (SoftUart).  What the line receives goes into the queue; the     *)
(* queue takes any number of characters at any time, so that each half is    *)
(* checked against more than the other does, and one of them runs.           *)
EXTENDS UartQueue, Sequences

CONSTANT Bits         \* data bits of a character (SoftUart)

VARIABLES
  part,                                           \* the half that runs
  pos, ch, line_pc, n, r20, r21, char, out, rx, m, bits, pcie, pcif,
  tx_age, owed, disturbed                         \* SoftUart

linev == <<pos, ch, line_pc, n, r20, r21, char, out, rx, m, bits, pcie, pcif,
           tx_age, owed, disturbed>>

Line == INSTANCE SoftUart WITH pc <- line_pc

ASSUME SerialAssumption == Line!BitsAssumption

SerialInit == part \in {"queue", "line"} /\ Init /\ Line!Init

OnQueue == part = "queue" /\ UNCHANGED <<part, linev>>
OnLine == part = "line" /\ UNCHANGED <<part, vars>>

SerialNext ==
  \/ OnQueue /\ Next
  \/ OnLine /\ Line!Next

SerialSpec == SerialInit /\ [][SerialNext]_<<part, vars, linev>>

-------------------------------------------------------------------------------
(* Every variable of the console keeps to its range (TypeOK of each module): *)
(* the indices of the queue, the sample counts of uart_tx and uart_rx.       *)
SerialTypeOK == TypeOK /\ Line!TypeOK

(* A character that comes in while one goes out is received exactly.         *)
DuplexExact == Line!DuplexExact

(* Every character goes out as a frame of exact bits (uart_tx).              *)
FramesExact == Line!FramesExact
===============================================================================
