------------------------------- MODULE SdCard -------------------------------
(* The block driver of the AVR builds (sdcard_avr.c) and the card it talks   *)
(* to over SPI.  A command is sent whole, the card queues what it will shift *)
(* out, and every sd_busy of the driver either finds the next answer or, the *)
(* line staying high, gives up after 65535 polls.  A bit the card does not   *)
(* drive is read as 1: the pull-up of P_DO.                                  *)
(*                                                                           *)
(* The card is the environment.  It may be absent, of any of three kinds,    *)
(* need some polls to start, answer a read with an error token, refuse a     *)
(* write, miss a command, take longer over a read or a write than the driver *)
(* waits and be pulled out at any moment, in the middle of a block too.      *)
(* What answers a command does so within a few clocks, as the card's         *)
(* specification has it.                                                     *)
(*                                                                           *)
(* Left out: the monitor's so, which opens the card a second time, and its   *)
(* ss, which stores the buffer in any block.                                 *)
EXTENDS Integers, Sequences

CONSTANTS
    Kinds,          \* kinds of card: subset of {"none", "sd1", "sd2", "sdhc"}
    Blocks,         \* the blocks of the card the machine uses
    Values,         \* contents of a block
    MaxPolls        \* bound on the polls a card needs to start

SdCardAssumption ==
    Kinds \subseteq {"none", "sd1", "sd2", "sdhc"} /\ Blocks \subseteq Nat /\ MaxPolls \in Nat

VARIABLES
    kind, ready, polls, app,    \* the card: its kind, started or not, polls to go, CMD55 seen
    media,                      \* the contents of its blocks
    prog,                       \* the block it is programming, and with what
    faults,                     \* "missed": a command of the start; "removed"
    out,                        \* answers it has still to shift out
    pc,                         \* what the driver waits for; "free" between calls
    op, blk,                    \* the call under way and its block
    rc,                         \* the data response sdcard_store has read, 0 outside of it
    ccs, cur_blk, buffer,       \* the driver's variables
    result,                     \* what the last call returned, 0 while one is under way
    owed,                       \* what a call gave up on and the card still does
    spoilt                      \* the card was at it when the call began

cardvars == <<kind, ready, polls, app, media, prog, faults>>
late == <<owed, spoilt>>
drvvars == <<blk, rc, ccs, cur_blk, buffer>>
vars == <<cardvars, out, pc, op, drvvars, result, late>>

R1(v) == [is |-> "r1", v |-> v]
Timeout == -1           \* 0xffffffff of sd_cmd
Junk == "junk"          \* 512 bytes that are no block
Nothing == [b |-> -1, v |-> Junk]
TheData == [b |-> -1, v |-> "data"]     \* a read's data, given up on
Contents == Values \cup {Junk}

(* What reading past an answer gives: ones.                                  *)
Head1 == IF out = <<>> THEN R1(Timeout) ELSE Head(out)
Rest == IF out = <<>> THEN <<>> ELSE Tail(out)

----------------------------------------------------------------------------
(* The card                                                                  *)

(* SDHC cards take block numbers, the others byte addresses.                 *)
Addressed(arg) == IF kind = "sdhc" THEN arg ELSE IF arg % 512 = 0 THEN arg \div 512 ELSE -1

Silent == UNCHANGED cardvars /\ out' = Rest
Answers(items) == out' = Rest \o items

Starts(v) ==
    /\ polls' = IF polls > 0 THEN polls - 1 ELSE 0
    /\ ready' = (polls = 0)
    /\ Answers(<<R1(IF polls = 0 THEN 0 ELSE v)>>)

(* Still at what the driver has given up on, the card hears no command, and  *)
(* the driver takes the bits on the line for answers.                        *)
Noise(cmd) ==
    /\ UNCHANGED cardvars
    /\ \/ \E v \in {Timeout, 0, 64} : out' = <<R1(v)>>
       \/ cmd = "cmd17" /\ out' = <<R1(0), [is |-> "noise"]>>

CardCmd(cmd, arg) ==
    \/ kind = "none" /\ Silent
    \/ owed # Nothing /\ Noise(cmd)
    \/ /\ kind # "none" /\ owed = Nothing /\ out' = Rest
       /\ faults' = faults \cup (IF cmd \in {"cmd17", "cmd24"} THEN {} ELSE {"missed"})
       /\ UNCHANGED <<kind, ready, polls, app, media, prog>>
    \/ /\ kind # "none" /\ owed = Nothing
       /\ app' = (cmd = "cmd55")
       /\ UNCHANGED <<kind, media, prog, faults>>
       /\ \/ cmd = "cmd0" /\ ready' = FALSE /\ Answers(<<R1(1)>>) /\ UNCHANGED polls
          \/ /\ cmd = "cmd8" /\ UNCHANGED <<ready, polls>>
             /\ Answers(<<IF kind = "sd1" THEN R1(5) ELSE [is |-> "r7"]>>)
          \/ cmd = "cmd1" /\ kind = "sd1" /\ Starts(1)
          \/ cmd = "cmd1" /\ kind # "sd1" /\ Answers(<<R1(5)>>) /\ UNCHANGED <<ready, polls>>
          \/ cmd = "cmd55" /\ Answers(<<R1(IF ready THEN 0 ELSE 1)>>) /\ UNCHANGED <<ready, polls>>
          \/ cmd = "acmd41" /\ app /\ Starts(1)
          \/ cmd = "acmd41" /\ ~ app /\ Answers(<<R1(5)>>) /\ UNCHANGED <<ready, polls>>
          \/ /\ cmd = "cmd58" /\ UNCHANGED <<ready, polls>>
             /\ Answers(<<[is |-> "r3", powered |-> ready, ccs |-> kind = "sdhc"]>>)
          \/ /\ cmd \in {"cmd17", "cmd24"} /\ UNCHANGED <<ready, polls>>
             /\ IF ~ ready \/ Addressed(arg) \notin Blocks THEN Answers(<<R1(64)>>)
                ELSE IF cmd = "cmd24" THEN Answers(<<R1(0)>>)
                ELSE \/ Answers(<<R1(0), [is |-> "data", v |-> media[Addressed(arg)]]>>)
                     \/ Answers(<<R1(0), [is |-> "error"]>>)

Programmed(v) == IF prog.b \in Blocks THEN [media EXCEPT ![prog.b] = v] ELSE media

(* The card ends what it has taken in hand, a write or the data of a read.   *)
Finish ==
    /\ prog # Nothing \/ owed # Nothing
    /\ media' = Programmed(prog.v) /\ prog' = Nothing /\ owed' = Nothing
    /\ UNCHANGED <<kind, ready, polls, app, faults, out, pc, op, drvvars, result, spoilt>>

(* The card is pulled out, whatever is going on; a block being programmed is *)
(* the old one, the new one or neither.                                      *)
Remove ==
    /\ kind # "none"
    /\ kind' = "none" /\ out' = <<>> /\ faults' = faults \cup {"removed"}
    /\ media' \in {media, Programmed(prog.v), Programmed(Junk)}
    /\ prog' = Nothing /\ owed' = Nothing
    /\ UNCHANGED <<ready, polls, app, pc, op, drvvars, result, spoilt>>

----------------------------------------------------------------------------
(* The driver                                                                *)

Send(cmd, arg) == pc' = cmd /\ CardCmd(cmd, arg) /\ result' = 0 /\ UNCHANGED owed
Return(r) == pc' = "free" /\ result' = r /\ out' = Rest /\ UNCHANGED <<cardvars, owed>>
GoesTo(p) == pc' = p /\ UNCHANGED <<cardvars, result, owed>>
GivesUp(r, on) == pc' = "free" /\ result' = r /\ out' = <<>> /\ owed' = on /\ UNCHANGED cardvars
Same == UNCHANGED <<op, drvvars, spoilt>>

(* sdcard_open: an answer is looked at and the next command sent.            *)
Open ==
    /\ pc = "free" /\ op = "none"
    /\ op' = "open" /\ Send("cmd0", 0) /\ UNCHANGED <<drvvars, spoilt>>

GoIdle ==
    /\ pc = "cmd0" /\ Same
    /\ IF Head1 # R1(1) THEN Return(-1) ELSE Send("cmd8", 0)

SendIfCond ==
    /\ pc = "cmd8" /\ Same
    /\ Send(IF Head1.is = "r7" THEN "cmd55" ELSE "cmd1", 0)

SendOpCond ==
    /\ pc = "cmd1" /\ UNCHANGED <<op, blk, rc, cur_blk, buffer, spoilt>>
    /\ \/ Head1 = R1(0) /\ ccs' = 0 /\ Return(0)
       \/ Head1 = R1(Timeout) /\ UNCHANGED ccs /\ Return(-2)
       \/ Head1 \notin {R1(0), R1(Timeout)} /\ UNCHANGED ccs /\ Send("cmd1", 0)

AppCmd == pc = "cmd55" /\ Same /\ Send("acmd41", 0)

(* Mutation: 1, the idle state, is taken for the end of the start.           *)
SdSendOpCondBusy ==
    /\ pc = "acmd41" /\ Same
    /\ Send(IF Head1 = R1(1) THEN "cmd58" ELSE "cmd55", 0)

SdSendOpCond ==
    /\ pc = "acmd41" /\ Same
    /\ Send(IF Head1 = R1(0) THEN "cmd58" ELSE "cmd55", 0)

(* Mutation: takes every card for a standard one.                            *)
ReadOcrStandard ==
    /\ pc = "cmd58" /\ UNCHANGED <<op, blk, rc, cur_blk, buffer, spoilt>>
    /\ ccs' = 0 /\ Return(0)

(* Both bits of the OCR are ones when nothing answers.                       *)
ReadOcr ==
    /\ pc = "cmd58" /\ UNCHANGED <<op, blk, rc, cur_blk, buffer, spoilt>>
    /\ LET ones == Head1.is # "r3"
           powered == IF ones THEN TRUE ELSE Head1.powered
           high == IF ones THEN TRUE ELSE Head1.ccs
       IN  IF powered THEN ccs' = (IF high THEN 1 ELSE 0) /\ Return(0)
           ELSE UNCHANGED ccs /\ Send("cmd58", 0)

(* sdcard_fetch and sdcard_flush, which stores the block fetched last.       *)
ArgBlock(b) == b

Arg(b) == IF ccs # 0 THEN b ELSE b * 512

(* The machine goes on, to fat_init and disk_read, also when the card could  *)
(* not be opened.                                                            *)
Usable == pc = "free" /\ op # "none"

Begins(call, b) == Usable /\ op' = call /\ blk' = b /\ spoilt' = (owed # Nothing)

Fetch(b) ==
    /\ Begins("fetch", b) /\ cur_blk' = b
    /\ Send("cmd17", Arg(b)) /\ UNCHANGED <<rc, ccs, buffer>>

(* The machine changes a part of the buffer and flushes it, whatever the     *)
(* fetch returned: a buffer that holds no block is flushed all the same.     *)
Flush(v) ==
    /\ op # "open" /\ Begins("store", cur_blk)
    /\ v = Junk <=> buffer = Junk
    /\ buffer' = v
    /\ Send("cmd24", Arg(cur_blk)) /\ UNCHANGED <<rc, ccs, cur_blk>>

FetchAnswered ==
    /\ pc = "cmd17" /\ Same
    /\ IF Head1 # R1(0) THEN Return(-1) ELSE GoesTo("token") /\ out' = Rest

(* Any low bit starts the data: the error token's too.                       *)
Token ==
    /\ pc = "token" /\ Same
    /\ \/ out # <<>> /\ GoesTo("data") /\ UNCHANGED out
       \/ GivesUp(-2, IF Head1.is \in {"data", "error"} THEN TheData ELSE owed)

(* The bytes are read one by one and nothing is looked at: those that no     *)
(* card sends any more are ones.                                             *)
Data ==
    /\ pc = "data" /\ UNCHANGED <<op, blk, rc, ccs, cur_blk, spoilt>>
    /\ buffer' = IF Head1.is = "data" THEN Head1.v ELSE Junk
    /\ Return(0)

(* The data block goes to the card, which takes it and starts to program it  *)
(* or refuses it; a card that did not hear the command takes nothing.        *)
Programs ==
    \/ kind = "none" /\ Silent
    \/ spoilt /\ UNCHANGED cardvars
       /\ \E v \in {0, 5, 11} : Answers(<<[is |-> "drsp", v |-> v]>>)
    \/ /\ kind # "none" /\ ~ spoilt /\ Answers(<<[is |-> "drsp", v |-> 5]>>)
       /\ \E b \in Blocks : b = Addressed(Arg(blk)) /\ prog' = [b |-> b, v |-> buffer]
       /\ UNCHANGED <<kind, ready, polls, app, media, faults>>
    \/ /\ kind # "none" /\ ~ spoilt /\ Answers(<<[is |-> "drsp", v |-> 11]>>)
       /\ UNCHANGED cardvars

StoreAnswered ==
    /\ pc = "cmd24" /\ Same
    /\ IF Head1 # R1(0) THEN Return(-1)
       ELSE pc' = "drsp" /\ Programs /\ UNCHANGED <<result, owed>>

(* Mutation: forgets to look at the data response.                           *)
DataResponseIgnored ==
    /\ pc = "drsp" /\ UNCHANGED <<op, blk, ccs, cur_blk, buffer, spoilt>>
    /\ \/ out = <<>> /\ UNCHANGED rc /\ Return(-3)
       \/ out # <<>> /\ rc' = 5 /\ GoesTo("busy") /\ out' = Rest

DataResponse ==
    /\ pc = "drsp" /\ UNCHANGED <<op, blk, ccs, cur_blk, buffer, spoilt>>
    /\ \/ out = <<>> /\ UNCHANGED rc /\ Return(-3)
       \/ out # <<>> /\ rc' = Head(out).v /\ GoesTo("busy") /\ out' = Rest

Ends == rc' = 0 /\ UNCHANGED <<op, blk, ccs, cur_blk, buffer, spoilt>>

(* The line goes up when the card has finished; without a card it is up.     *)
NotBusy ==
    /\ pc = "busy" /\ Ends
    /\ prog = Nothing \/ spoilt
    /\ Return(IF rc = 5 THEN 0 ELSE IF rc = 0 THEN -5 ELSE -rc)

(* It stays low for longer than the driver waits.                            *)
BusyTimeout ==
    /\ pc = "busy" /\ Ends
    /\ prog # Nothing \/ spoilt
    /\ GivesUp(-4, IF spoilt THEN owed ELSE [b |-> cur_blk, v |-> buffer])

----------------------------------------------------------------------------
Driver ==
    \/ GoIdle \/ SendIfCond \/ SendOpCond \/ AppCmd \/ SdSendOpCond \/ ReadOcr
    \/ FetchAnswered \/ Token \/ Data
    \/ StoreAnswered \/ DataResponse \/ NotBusy \/ BusyTimeout

Next ==
    \/ Driver \/ Open \/ Finish \/ Remove
    \/ \E b \in Blocks : Fetch(b)
    \/ \E v \in Contents : Flush(v)

Init ==
    /\ kind \in Kinds /\ ready = FALSE /\ polls \in 0..MaxPolls /\ app = FALSE
    /\ media \in [Blocks -> Values] /\ prog = Nothing /\ faults = {}
    /\ owed = Nothing /\ spoilt = FALSE
    /\ out = <<>> /\ pc = "free" /\ op = "none" /\ result = 0
    /\ blk = 0 /\ rc = 0 /\ ccs = 0 /\ cur_blk = 0 /\ buffer = Junk

Spec == Init /\ [][Next]_vars

(* The driver's loops run by themselves.                                     *)
FairSpec == Spec /\ WF_vars(Driver)

----------------------------------------------------------------------------
TypeOK ==
    /\ media \in [Blocks -> Contents] /\ buffer \in Contents
    /\ ccs \in {0, 1} /\ {blk, cur_blk} \subseteq Blocks \cup {0}
    /\ {prog, owed} \subseteq [b : Blocks, v : Contents] \cup {Nothing, TheData}
    /\ Len(out) <= 2 /\ spoilt \in BOOLEAN
    /\ op \in {"none", "open", "fetch", "store"} /\ (op = "none" => pc = "free")

(* Once sdcard_open has succeeded, the driver addresses the card in the unit *)
(* the card expects: "ccs bit high means SDHC card" (sdcard_avr.c:198).  A   *)
(* card that missed a command of the start may be taken for the other kind.  *)
CcsRight == (Usable /\ kind # "none" /\ faults = {}) => (ccs = 1 <=> kind = "sdhc")

(* A fetch that reports success leaves the block it was asked for in the     *)
(* buffer, whatever block, kind of card, failure, late answer or missed      *)
(* command before (sdcard_avr.c:207-227).  It never leaves another block     *)
(* there, and no block at all only when an error token came, which sd_busy   *)
(* takes for the data's beginning, the card was pulled out during the data   *)
(* or it was still at what an earlier call had given up on.                  *)
FetchRight ==
    [][(Data /\ "missed" \notin faults) =>
        \/ buffer' = media[blk]
        \/ buffer' = Junk /\ (kind = "none" \/ Head1.is = "error" \/ spoilt)]_vars

(* What the flush under way, or one that has given up on the card, was to    *)
(* store.                                                                    *)
Meant == {owed} \cup (IF pc \in {"drsp", "busy"} THEN {[b |-> cur_blk, v |-> buffer]} ELSE {})

(* A flush that reports success has stored the buffer in the block fetched   *)
(* last, unless the card was pulled out or still at an earlier call; and a   *)
(* block of the card changes only to what that flush, or one that has given  *)
(* up on the card, was to put there (sdcard_avr.c:229-251).                  *)
StoreRight ==
    [][ "missed" \notin faults =>
       /\ (NotBusy /\ result' = 0) => media[cur_blk] = buffer \/ kind = "none" \/ spoilt
       /\ \A b \in Blocks : media'[b] # media[b] =>
            \E store \in Meant : store.b = b /\ (media'[b] = store.v \/ kind' = "none")]_vars

(* Every fetch and flush returns, whatever the card does, and sdcard_open    *)
(* too, also when nothing ever answered; only a card that misses commands or *)
(* is pulled out while it starts can hold sdcard_open in its loop.           *)
Returns == pc # "free" ~> pc = "free" \/ (op = "open" /\ faults # {})
=============================================================================
