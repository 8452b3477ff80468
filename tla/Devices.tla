------------------------------- MODULE Devices --------------------------------
(* The devices whose programs must come to an end: the external I/O bus      *)
(* (IoExt), the SD card (SdCard), the console on a file (FileConsole) and    *)
(* the USB console with small rings (CdcConsole).  No two of them share a    *)
(* variable or call each other, so that a run of all four at once would show *)
(* nothing that four runs do not: at the start one of them is chosen, and    *)
(* only that one takes steps.                                                *)
EXTENDS IoExt, Sequences

CONSTANT MaxTyped         \* characters typed at the console on a file

VARIABLES
  part,                                                       \* the device that runs
  kind, sd_ready, polls, app, media, prog, faults, out, sd_pc, sd_op, blk, rc,
  ccs, cur_blk, buffer, sd_result, owed, spoilt,              \* SdCard
  typed, got, fifo_flag, taken, fc_pc, caller, fc_ready, again, locked,
  thread_block, timer,                                        \* FileConsole
  cdc_pc, tx_buf, tx_wr_index, tx_rd_index, rx_buf, rx_wr_index, rx_rd_index,
  cdc_rc, state, txine, in_free, out_packet, setup, resets, terminal, tx_put,
  to_host, rx_sent, rx_kept, rx_got                           \* CdcConsole

cardv == <<kind, sd_ready, polls, app, media, prog, faults, out, sd_pc, sd_op, blk, rc,
           ccs, cur_blk, buffer, sd_result, owed, spoilt>>
consolev == <<typed, got, fifo_flag, taken, fc_pc, caller, fc_ready, again, locked,
              thread_block, timer>>
usbv == <<cdc_pc, tx_buf, tx_wr_index, tx_rd_index, rx_buf, rx_wr_index, rx_rd_index,
          cdc_rc, state, txine, in_free, out_packet, setup, resets, terminal, tx_put,
          to_host, rx_sent, rx_kept, rx_got>>
dvcs == <<part, vars, cardv, consolev, usbv>>

Card == INSTANCE SdCard WITH
  Kinds <- {"none", "sd1", "sd2", "sdhc"}, Blocks <- {1, 512},
  Values <- {"u", "v"}, MaxPolls <- 2,
  ready <- sd_ready, pc <- sd_pc, op <- sd_op, result <- sd_result

Console == INSTANCE FileConsole WITH pc <- fc_pc, ready <- fc_ready

Usb == INSTANCE CdcConsole WITH
  TxSize <- 4, RxSize <- 2, PacketSizes <- {1},
  Requests <- {"dte_present", "handled", "unsupported"},
  MaxPut <- 5, MaxSent <- 1, MaxResets <- 1,
  pc <- cdc_pc, rc <- cdc_rc

ASSUME DevicesAssumption ==
  Card!SdCardAssumption /\ Console!ConsoleAssumption /\ Usb!SizesAssumption

(* The card's start is one of many only when it is the card that runs.       *)
DevicesInit ==
  /\ part \in {"bus", "card", "console", "usb"}
  /\ Init /\ Card!Init /\ Console!Init /\ Usb!Init
  /\ part # "card" => kind = "none" /\ polls = 0 /\ media \in [{1, 512} -> {"u"}]

OnBus == part = "bus" /\ UNCHANGED <<part, cardv, consolev, usbv>>
OnCard == part = "card" /\ UNCHANGED <<part, vars, consolev, usbv>>
OnConsole == part = "console" /\ UNCHANGED <<part, vars, cardv, usbv>>
OnUsb == part = "usb" /\ UNCHANGED <<part, vars, cardv, consolev>>

DevicesNext ==
  \/ OnBus /\ Next
  \/ OnCard /\ Card!Next
  \/ OnConsole /\ Console!Next
  \/ OnUsb /\ Usb!Next

(* The fairness of each module. *)
DevicesFairness ==
  /\ WF_dvcs(OnBus /\ HostGoesOn) /\ WF_dvcs(OnBus /\ Device)
  /\ WF_dvcs(OnCard /\ Card!Driver)
  /\ WF_dvcs(OnConsole /\ Console!ThreadGoesOn) /\ WF_dvcs(OnConsole /\ Console!Timer)
  /\ WF_dvcs(OnUsb /\ Usb!UsbCom) /\ WF_dvcs(OnUsb /\ Usb!Putting)
  /\ WF_dvcs(OnUsb /\ Usb!GetTake) /\ WF_dvcs(OnUsb /\ Usb!HostTakesPacket)
  /\ WF_dvcs(OnUsb /\ Usb!Enumerate)

DevicesSpec == DevicesInit /\ [][DevicesNext]_dvcs /\ DevicesFairness

-------------------------------------------------------------------------------
(* Every variable of a device keeps to its range (TypeOK of each module).    *)
DevicesTypeOK == TypeOK /\ Card!TypeOK /\ Console!TypeOK /\ Usb!TypeOK

(* The driver addresses the card in the unit it expects (sdcard_open).       *)
CcsRight == Card!CcsRight

(* A fetch that succeeds gives the block asked for, or no block at all where *)
(* the driver cannot tell (sdcard_fetch).                                    *)
FetchRight == Card!FetchRight

(* A flush that succeeds has stored the buffer in the block fetched last,    *)
(* but for a card pulled out or still busy, and blocks change only to what a *)
(* flush was to store there (sdcard_store).                                  *)
StoreRight == Card!StoreRight

(* While the thread waits for the mutex exactly one wake-up is on its way,   *)
(* and none otherwise (platform_nacl.cc).                                    *)
OneWakeup == Console!OneWakeup

(* Every character reaches the program once and in order (con_posix.c).      *)
NothingLost == Console!NothingLost

(* A sleep of con_peek always ends (platform_nacl.cc).                       *)
SleepEnds == Console!SleepEnds

(* Every operation on the bus and every call of the SD driver comes to its   *)
(* end, after time-outs and failures too (io_out, io_in, sdcard_fetch, ...). *)
CallsReturn == Returns /\ Card!Returns

(* con_putchar of the USB console always returns (con_avr_cdc.c).            *)
PutReturns == Usb!PutReturns

(* No character stays behind in the ring (con_avr_cdc.c).                    *)
TxDrains == Usb!TxDrains
===============================================================================
