----------------------------- MODULE SdCard_proofs -----------------------------
(* Proofs about SdCard, for every set of blocks and contents and every card: *)
(* the driver addresses the card in the card's unit, a fetch that succeeds   *)
(* gives the block it was asked for, and a flush changes no other block.     *)
EXTENDS SdCard, SequenceTheorems, TLAPS

(* The answers a card gives besides R1. *)
IfCond == [is |-> "r7"]
Ocr(p, h) == [is |-> "r3", powered |-> p, ccs |-> h]
DataToken(v) == [is |-> "data", v |-> v]
ErrorToken == [is |-> "error"]
NoiseToken == [is |-> "noise"]
Response(v) == [is |-> "drsp", v |-> v]

(* What the driver waits for, in each of its calls. *)
Opening == {"cmd0", "cmd8", "cmd1", "cmd55", "acmd41", "cmd58"}
Fetching == {"cmd17", "token", "data"}
Storing == {"cmd24", "drsp", "busy"}

(* The card and the call under way. *)
Card ==
  /\ kind \in {"none", "sd1", "sd2", "sdhc"} /\ ready \in BOOLEAN
  /\ faults \subseteq {"missed", "removed"}
  /\ "removed" \in faults => kind = "none"
  /\ kind = "none" => out = <<>> /\ prog = Nothing /\ owed = Nothing

Call ==
  /\ pc \in Opening => op = "open"
  /\ pc \in Fetching => op = "fetch"
  /\ pc \in Storing => op = "store"
  /\ pc \in Opening \cup Fetching \cup Storing \cup {"free"}
  /\ op = "store" => blk = cur_blk
  /\ op \in {"fetch", "store"} => blk \in Blocks /\ cur_blk \in Blocks
  /\ pc = "busy" => rc \in {0, 5, 11}
  /\ pc \in {"data", "drsp"} /\ out = <<>> => kind = "none"

(* A call begun while the card was at an earlier one is spoilt, others have  *)
(* the card to themselves.                                                   *)
Behind ==
  /\ op \in {"none", "open"} => owed = Nothing /\ prog = Nothing /\ spoilt = FALSE
  /\ pc # "free" /\ ~ spoilt => owed = Nothing

(* What the card has still to shift out, if anything. *)
Answer ==
  out # <<>> =>
    /\ pc \notin {"free", "busy"}
    /\ pc \in {"cmd0", "cmd1", "cmd55", "acmd41"} => \E v \in {0, 1, 5} : out = <<R1(v)>>
    /\ pc = "cmd8" => out \in {<<R1(5)>>, <<IfCond>>}
    /\ pc = "cmd58" => \E p, h \in BOOLEAN : out = <<Ocr(p, h)>>
    /\ pc = "cmd17" => \/ \E v \in {Timeout, 0, 64} : out = <<R1(v)>>
                       \/ ~ spoilt /\ out = <<R1(0), ErrorToken>>
                       \/ spoilt /\ out = <<R1(0), NoiseToken>>
                       \/ ~ spoilt /\ \E v \in Contents : out = <<R1(0), DataToken(v)>>
    /\ pc \in {"token", "data"} =>
         \/ ~ spoilt /\ out = <<ErrorToken>>
         \/ spoilt /\ out = <<NoiseToken>>
         \/ ~ spoilt /\ \E v \in Contents : out = <<DataToken(v)>>
    /\ pc = "cmd24" => \E v \in {Timeout, 0, 64} : out = <<R1(v)>>
    /\ pc = "drsp" => \E v \in {0, 5, 11} : out = <<Response(v)>>

(* What sdcard_open has found out of a card that misses nothing, at each of  *)
(* its commands and when it has succeeded.                                   *)
Opened == op \in {"fetch", "store"} \/ (op = "open" /\ pc = "free")

Recognized ==
  kind # "none" /\ faults = {} =>
    /\ pc = "cmd0" => out = <<R1(1)>>
    /\ pc = "cmd1" => \E v \in {0, 1, 5} : out = <<R1(v)>>
    /\ pc = "cmd8" => out = <<IF kind = "sd1" THEN R1(5) ELSE IfCond>>
    /\ pc = "cmd1" => kind = "sd1"
    /\ pc \in {"cmd55", "acmd41", "cmd58"} => kind # "sd1"
    /\ pc = "cmd58" => \E p \in BOOLEAN : out = <<Ocr(p, kind = "sdhc")>>
    /\ Opened => (ccs = 1 <=> kind = "sdhc")

(* The data on its way is that of the block asked for, and what the card has *)
(* taken is on its way to the block fetched last or lies there.              *)
Owning == pc \in {"drsp", "busy"} /\ ~ spoilt

Exact ==
  "missed" \notin faults =>
    /\ pc = "cmd17" => \A v \in Contents : out = <<R1(0), DataToken(v)>> => v = media[blk]
    /\ pc \in {"token", "data"} => \A v \in Contents : out = <<DataToken(v)>> => v = media[blk]
    /\ prog # Nothing => prog = IF Owning THEN [b |-> cur_blk, v |-> buffer] ELSE owed
    /\ prog = Nothing /\ Owning /\ kind # "none" =>
         /\ pc = "drsp" /\ out = <<Response(5)>> => media[cur_blk] = buffer
         /\ pc = "busy" /\ rc = 5 => media[cur_blk] = buffer

IInv == TypeOK /\ Card /\ Call /\ Behind /\ Answer /\ Recognized /\ Exact

-------------------------------------------------------------------------------
(* The driver finds the only answer, or ones. *)
LEMMA OneAnswer ==
  ASSUME NEW x, out = <<x>>
  PROVE  Head1 = x /\ Rest = <<>>
BY DEF Head1, Rest

LEMMA NoAnswer ==
  ASSUME out = <<>>
  PROVE  Head1 = R1(Timeout) /\ Rest = <<>>
BY DEF Head1, Rest

LEMMA TwoAnswers ==
  ASSUME NEW x, NEW y, out = <<x, y>>
  PROVE  Head1 = x /\ Rest = <<y>>
BY DEF Head1, Rest

(* What the card adds is all there is to shift out. *)
LEMMA Shifted ==
  ASSUME Rest = <<>>
  PROVE  /\ \A x : Answers(<<x>>) => out' = <<x>>
         /\ \A x, y : Answers(<<x, y>>) => out' = <<x, y>>
BY DEF Answers

LEMMA Lengths ==
  Len(<<>>) = 0 /\ (\A x : Len(<<x>>) = 1) /\ \A x, y : Len(<<x, y>>) = 2
OBVIOUS

LEMMA AtMostTwo ==
  ASSUME NEW n, n = 0 \/ n = 1 \/ n = 2
  PROVE  n <= 2
OBVIOUS

(* The answers differ. *)
LEMMA AnswersDiffer ==
  /\ \A v, w : R1(v) = R1(w) => v = w
  /\ NoiseToken.is = "noise" /\ \A v : R1(v).is = "r1" /\ DataToken(v).is = "data" /\ Response(v).is = "drsp"
  /\ \A v : R1(v).v = v /\ DataToken(v).v = v /\ Response(v).v = v
  /\ \A p, h : Ocr(p, h).is = "r3" /\ Ocr(p, h).powered = p /\ Ocr(p, h).ccs = h
  /\ IfCond.is = "r7" /\ ErrorToken.is = "error" /\ Timeout = -1
<1>1. \A v : R1(v).is = "r1" /\ R1(v).v = v
  BY DEF R1
<1>2. \A v, w : R1(v) = R1(w) => v = w
  <2> TAKE v, w
  <2> HAVE R1(v) = R1(w)
  <2> QED
    BY <1>1
<1> QED
  BY <1>1, <1>2 DEF DataToken, Response, Ocr, IfCond, ErrorToken, NoiseToken, Timeout

(* A command to a driver that has read everything: the card keeps what it    *)
(* is, and answers what the driver knows of.                                 *)
LEMMA Commanded ==
  ASSUME SdCardAssumption, TypeOK, Card, Rest = <<>>, NEW cmd, NEW arg,
         cmd \in Opening \cup {"cmd17", "cmd24"}, CardCmd(cmd, arg),
         owed' = owed, cmd \in Opening => owed = Nothing
  PROVE  /\ kind' = kind /\ media' = media /\ prog' = prog /\ Card'
         /\ cmd \in {"cmd17", "cmd24"} => faults' = faults
         /\ faults \subseteq faults'
         /\ cmd \in {"cmd0", "cmd1", "cmd55", "acmd41"} =>
              out' = <<>> \/ \E v \in {0, 1, 5} : out' = <<R1(v)>>
         /\ cmd = "cmd8" => out' \in {<<>>, <<R1(5)>>, <<IfCond>>}
         /\ cmd = "cmd58" => out' = <<>> \/ \E p \in BOOLEAN : out' = <<Ocr(p, kind = "sdhc")>>
         /\ cmd = "cmd17" =>
              \/ out' \in {<<>>, <<R1(64)>>}
              \/ owed = Nothing /\ out' = <<R1(0), ErrorToken>>
              \/ /\ owed = Nothing /\ kind # "none" /\ Addressed(arg) \in Blocks
                 /\ out' = <<R1(0), DataToken(media[Addressed(arg)])>>
              \/ owed # Nothing /\ (\E v \in {Timeout, 0, 64} : out' = <<R1(v)>>)
              \/ owed # Nothing /\ out' = <<R1(0), NoiseToken>>
         /\ cmd = "cmd24" => out' = <<>> \/ \E v \in {Timeout, 0, 64} : out' = <<R1(v)>>
         /\ kind # "none" /\ faults' = {} =>
              /\ cmd = "cmd0" => out' = <<R1(1)>>
              /\ cmd = "cmd1" => \E v \in {0, 1, 5} : out' = <<R1(v)>>
              /\ cmd = "cmd8" => out' = <<IF kind = "sd1" THEN R1(5) ELSE IfCond>>
              /\ cmd = "cmd58" => out' # <<>>
<1>1. CASE kind = "none" /\ Silent
  BY <1>1 DEF Silent, cardvars, Card
<1>0. CASE owed # Nothing /\ Noise(cmd)
  <2>1. cmd \in {"cmd17", "cmd24"} /\ kind # "none" /\ UNCHANGED cardvars
    BY <1>0 DEF Noise, Card
  <2>2. \/ \E v \in {Timeout, 0, 64} : out' = <<R1(v)>>
        \/ cmd = "cmd17" /\ out' = <<R1(0), NoiseToken>>
    BY <1>0 DEF Noise, NoiseToken
  <2> QED
    BY <1>0, <2>1, <2>2 DEF Card, cardvars
<1>2. CASE /\ kind # "none" /\ owed = Nothing /\ out' = Rest
           /\ faults' = faults \cup (IF cmd \in {"cmd17", "cmd24"} THEN {} ELSE {"missed"})
           /\ UNCHANGED <<kind, ready, polls, app, media, prog>>
  BY <1>2 DEF Card, Opening
<1> DEFINE Live == kind # "none" /\ owed = Nothing /\ UNCHANGED <<kind, media, prog, faults>>
<1>3. CASE Live /\ cmd = "cmd0" /\ ready' = FALSE /\ Answers(<<R1(1)>>)
  <2>1. out' = <<R1(1)>>
    BY <1>3, Shifted
  <2> QED
    BY <1>3, <2>1 DEF Card
<1>4. CASE /\ Live /\ cmd = "cmd8" /\ UNCHANGED ready
           /\ Answers(<<IF kind = "sd1" THEN R1(5) ELSE [is |-> "r7"]>>)
  <2>1. out' = <<IF kind = "sd1" THEN R1(5) ELSE IfCond>>
    BY <1>4, Shifted DEF IfCond
  <2> QED
    BY <1>4, <2>1 DEF Card
<1>5. CASE Live /\ cmd \in {"cmd1", "acmd41"} /\ Starts(1)
  <2>1. ready' \in BOOLEAN /\ \E v \in {0, 1} : Answers(<<R1(v)>>)
    BY <1>5 DEF Starts
  <2>2. \E v \in {0, 1} : out' = <<R1(v)>>
    BY <2>1, Shifted
  <2> QED
    BY <1>5, <2>1, <2>2 DEF Card
<1>6. CASE Live /\ cmd \in {"cmd1", "acmd41"} /\ Answers(<<R1(5)>>) /\ UNCHANGED ready
  <2>1. out' = <<R1(5)>>
    BY <1>6, Shifted
  <2> QED
    BY <1>6, <2>1 DEF Card
<1>7. CASE Live /\ cmd = "cmd55" /\ Answers(<<R1(IF ready THEN 0 ELSE 1)>>) /\ UNCHANGED ready
  <2>1. \E v \in {0, 1} : out' = <<R1(v)>>
    BY <1>7, Shifted
  <2> QED
    BY <1>7, <2>1 DEF Card
<1>8. CASE /\ Live /\ cmd = "cmd58" /\ UNCHANGED ready
           /\ Answers(<<[is |-> "r3", powered |-> ready, ccs |-> kind = "sdhc"]>>)
  <2>1. out' = <<Ocr(ready, kind = "sdhc")>>
    BY <1>8, Shifted DEF Ocr
  <2>2. ready \in BOOLEAN
    BY DEF Card
  <2> QED
    BY <1>8, <2>1, <2>2 DEF Card
<1>9. CASE /\ Live /\ cmd \in {"cmd17", "cmd24"} /\ UNCHANGED ready
           /\ IF ~ ready \/ Addressed(arg) \notin Blocks THEN Answers(<<R1(64)>>)
              ELSE IF cmd = "cmd24" THEN Answers(<<R1(0)>>)
              ELSE \/ Answers(<<R1(0), [is |-> "data", v |-> media[Addressed(arg)]]>>)
                   \/ Answers(<<R1(0), [is |-> "error"]>>)
  <2>1. CASE Answers(<<R1(64)>>)
    BY <1>9, <2>1, Shifted DEF Card
  <2>2. CASE Addressed(arg) \in Blocks /\ cmd = "cmd24" /\ Answers(<<R1(0)>>)
    BY <1>9, <2>2, Shifted DEF Card
  <2>3. CASE cmd = "cmd17" /\ Answers(<<R1(0), [is |-> "error"]>>)
    <3>1. out' = <<R1(0), ErrorToken>>
      BY <2>3, Shifted DEF ErrorToken
    <3> QED
      BY <1>9, <2>3, <3>1 DEF Card
  <2>4. CASE /\ cmd = "cmd17" /\ Addressed(arg) \in Blocks
             /\ Answers(<<R1(0), [is |-> "data", v |-> media[Addressed(arg)]]>>)
    <3>1. out' = <<R1(0), DataToken(media[Addressed(arg)])>>
      BY <2>4, Shifted DEF DataToken
    <3> QED
      BY <1>9, <2>4, <3>1 DEF Card
  <2> QED
    BY <1>9, <2>1, <2>2, <2>3, <2>4
<1> QED
  BY <1>0, <1>1, <1>2, <1>3, <1>4, <1>5, <1>6, <1>7, <1>8, <1>9 DEF CardCmd

(* The block that a card understands is the one the driver means, once the   *)
(* driver knows the card's unit.                                             *)
LEMMA UnitRight ==
  ASSUME ccs \in {0, 1}, ccs = 1 <=> kind = "sdhc", NEW b \in Nat
  PROVE  Addressed(Arg(b)) = b
<1>1. CASE kind = "sdhc"
  BY <1>1 DEF Addressed, Arg
<1>2. CASE kind # "sdhc"
  <2>1. Arg(b) = b * 512
    BY <1>2 DEF Arg
  <2>2. (b * 512) % 512 = 0 /\ (b * 512) \div 512 = b
    OBVIOUS
  <2> QED
    BY <1>2, <2>1, <2>2 DEF Addressed
<1> QED
  BY <1>1, <1>2

-------------------------------------------------------------------------------
(* The start. *)
LEMMA InitInv ==
  ASSUME SdCardAssumption, Init
  PROVE  IInv
<1>1. TypeOK
  <2>1. media \in [Blocks -> Contents] /\ buffer \in Contents
    BY DEF Init, Contents
  <2>2. Len(out) <= 2
    BY Lengths, AtMostTwo DEF Init
  <2>3. {prog, owed} \subseteq [b : Blocks, v : Contents] \cup {Nothing, TheData}
    BY DEF Init
  <2> QED
    BY <2>1, <2>2, <2>3 DEF Init, TypeOK
<1>2. Card /\ Call /\ Behind
  BY DEF SdCardAssumption, Init, Card, Call, Behind, Opening, Fetching, Storing
<1>3. Answer /\ Recognized /\ Exact
  BY DEF Init, Answer, Recognized, Opened, Exact, Owning
<1> QED
  BY <1>1, <1>2, <1>3 DEF IInv

(* A call returns when there is nothing left to shift out, or gives up. *)
LEMMA Ended ==
  ASSUME SdCardAssumption, IInv, op # "none", pc' = "free", out' = <<>>, UNCHANGED cardvars,
         UNCHANGED <<op, blk, cur_blk, spoilt>>, ccs' \in {0, 1}, buffer' \in Contents,
         owed' \in [b : Blocks, v : Contents] \cup {Nothing, TheData},
         op = "open" \/ kind = "none" => owed' = Nothing,
         "missed" \notin faults /\ prog # Nothing => prog = owed',
         kind # "none" /\ faults = {} => (ccs' = 1 <=> kind = "sdhc")
  PROVE  IInv'
<1>1. UNCHANGED <<kind, ready, media, prog, faults>>
  BY DEF cardvars
<1>2. TypeOK'
  BY <1>1 DEF IInv, TypeOK
<1>3. Card'
  BY <1>1 DEF IInv, Card
<1>4. Call' /\ Behind'
  BY <1>1 DEF IInv, TypeOK, Call, Behind, Opening, Fetching, Storing
<1>5. Answer' /\ Exact'
  BY <1>1 DEF Answer, Exact, Owning
<1>6. Recognized'
  BY <1>1 DEF IInv, Recognized, Opened
<1> QED
  BY <1>2, <1>3, <1>4, <1>5, <1>6 DEF IInv

LEMMA Returned ==
  ASSUME SdCardAssumption, IInv, op # "none", Rest = <<>>, NEW r, Return(r),
         UNCHANGED <<op, blk, cur_blk, spoilt>>, ccs' \in {0, 1}, buffer' \in Contents,
         Owning => prog = Nothing,
         kind # "none" /\ faults = {} => (ccs' = 1 <=> kind = "sdhc")
  PROVE  IInv'
<1>1. pc' = "free" /\ out' = <<>> /\ UNCHANGED cardvars /\ owed' = owed
  BY DEF Return
<1>2. /\ owed \in [b : Blocks, v : Contents] \cup {Nothing, TheData}
      /\ op = "open" \/ kind = "none" => owed = Nothing
      /\ "missed" \notin faults /\ prog # Nothing => prog = owed
  BY DEF IInv, TypeOK, Card, Behind, Exact
<1> QED
  BY <1>1, <1>2, Ended

(* A command of sdcard_open, in the order that suits the card. *)
LEMMA SentOpening ==
  ASSUME SdCardAssumption, IInv, Rest = <<>>, NEW cmd \in Opening, Send(cmd, 0),
         op' = "open", op \in {"none", "open"}, UNCHANGED drvvars, spoilt' = spoilt,
         kind # "none" /\ faults = {} /\ cmd = "cmd1" => kind = "sd1",
         kind # "none" /\ faults = {} /\ cmd \in {"cmd55", "acmd41", "cmd58"} => kind # "sd1"
  PROVE  IInv'
<1>1. /\ pc' = cmd /\ CardCmd(cmd, 0) /\ UNCHANGED <<blk, rc, ccs, cur_blk, buffer>>
      /\ TypeOK /\ Card /\ owed' = owed /\ owed = Nothing /\ prog = Nothing /\ spoilt = FALSE
  BY DEF Send, drvvars, IInv, Behind
<1>2. /\ kind' = kind /\ media' = media /\ prog' = prog /\ Card' /\ faults \subseteq faults'
      /\ cmd \in {"cmd0", "cmd1", "cmd55", "acmd41"} =>
           out' = <<>> \/ \E v \in {0, 1, 5} : out' = <<R1(v)>>
      /\ cmd = "cmd8" => out' \in {<<>>, <<R1(5)>>, <<IfCond>>}
      /\ cmd = "cmd58" => out' = <<>> \/ \E p \in BOOLEAN : out' = <<Ocr(p, kind = "sdhc")>>
      /\ kind # "none" /\ faults' = {} =>
           /\ cmd = "cmd0" => out' = <<R1(1)>>
           /\ cmd = "cmd1" => \E v \in {0, 1, 5} : out' = <<R1(v)>>
           /\ cmd = "cmd8" => out' = <<IF kind = "sd1" THEN R1(5) ELSE IfCond>>
           /\ cmd = "cmd58" => out' # <<>>
  BY <1>1, Commanded
<1>3. Len(out') = 0 \/ Len(out') = 1
  <2>1. CASE cmd \in {"cmd0", "cmd1", "cmd55", "acmd41"}
    <3>1. PICK v \in {0, 1, 5} : out' = <<>> \/ out' = <<R1(v)>>
      BY <1>2, <2>1
    <3> QED
      BY <3>1, Lengths, Zenon
  <2>2. CASE cmd = "cmd8"
    <3>1. out' = <<>> \/ out' = <<R1(5)>> \/ out' = <<IfCond>>
      BY <1>2, <2>2
    <3> QED
      BY <3>1, Lengths, Zenon
  <2>3. CASE cmd = "cmd58"
    <3>1. PICK p \in BOOLEAN : out' = <<>> \/ out' = <<Ocr(p, kind = "sdhc")>>
      BY <1>2, <2>3
    <3> QED
      BY <3>1, Lengths, Zenon
  <2> QED
    BY <2>1, <2>2, <2>3 DEF Opening
<1>4. TypeOK'
  <2>1. Len(out') <= 2
    BY <1>3, AtMostTwo
  <2> QED
    BY <1>1, <1>2, <2>1 DEF TypeOK
<1>5. Call' /\ Behind'
  BY <1>1, <1>2 DEF IInv, Call, Behind, Opening, Fetching, Storing
<1>6. Answer'
  <2>1. cmd = "cmd58" => out' = <<>> \/ \E p, h \in BOOLEAN : out' = <<Ocr(p, h)>>
    BY <1>2
  <2> QED
    BY <1>1, <1>2, <2>1 DEF Answer, Opening
<1>7. Recognized'
  <2>1. kind' # "none" /\ faults' = {} => kind # "none" /\ faults = {}
    BY <1>2
  <2>2. ~ Opened'
    BY <1>1 DEF Opened, Opening
  <2> QED
    BY <1>1, <1>2, <2>1, <2>2 DEF Recognized
<1>8. Exact'
  BY <1>1, <1>2 DEF Exact, Owning, Opening
<1> QED
  BY <1>2, <1>4, <1>5, <1>6, <1>7, <1>8 DEF IInv

(* At most one answer is left of a command of sdcard_open, which sends only  *)
(* what the kind of the card calls for.                                      *)
LEMMA OpeningAnswer ==
  ASSUME IInv, pc \in Opening
  PROVE  /\ Rest = <<>> /\ op = "open"
         /\ kind # "none" /\ faults = {} =>
              /\ pc = "cmd1" => kind = "sd1"
              /\ pc \in {"cmd55", "acmd41", "cmd58"} => kind # "sd1"
<1>1. /\ op = "open"
      /\ kind # "none" /\ faults = {} =>
           /\ pc = "cmd1" => kind = "sd1"
           /\ pc \in {"cmd55", "acmd41", "cmd58"} => kind # "sd1"
  BY DEF IInv, Call, Recognized
<1>2. CASE out = <<>>
  BY <1>1, <1>2, NoAnswer
<1>3. CASE out # <<>> /\ pc \in {"cmd0", "cmd1", "cmd55", "acmd41"}
  <2>1. PICK v \in {0, 1, 5} : out = <<R1(v)>>
    BY <1>3 DEF IInv, Answer
  <2> QED
    BY <1>1, <2>1, OneAnswer
<1>4. CASE out # <<>> /\ pc = "cmd8"
  <2>1. out = <<R1(5)>> \/ out = <<IfCond>>
    BY <1>4 DEF IInv, Answer
  <2> QED
    BY <1>1, <1>4, <2>1, OneAnswer
<1>5. CASE out # <<>> /\ pc = "cmd58"
  <2>1. PICK p, h \in BOOLEAN : out = <<Ocr(p, h)>>
    BY <1>5 DEF IInv, Answer
  <2> QED
    BY <1>1, <1>5, <2>1, OneAnswer
<1> QED
  BY <1>2, <1>3, <1>4, <1>5 DEF Opening

(* sdcard_open. *)
LEMMA OpenInv ==
  ASSUME SdCardAssumption, IInv,
         Open \/ GoIdle \/ SendIfCond \/ SendOpCond \/ AppCmd \/ SdSendOpCond \/ ReadOcr
  PROVE  IInv'
<1>1. /\ ccs \in {0, 1} /\ buffer \in Contents
      /\ op = "open" => op # "none" /\ op \in {"none", "open"}
      /\ pc \in Opening => ~ Owning
  BY DEF IInv, TypeOK, Opening, Owning
<1>2. CASE Open
  <2>1. Rest = <<>> /\ op \in {"none", "open"} /\ UNCHANGED <<drvvars, spoilt>>
    BY <1>2, NoAnswer DEF Open, IInv, Answer
  <2>2. "cmd0" \in Opening
    BY DEF Opening
  <2> QED
    BY <1>2, <2>1, <2>2, SentOpening DEF Open
<1>3. CASE GoIdle
  <2>1. /\ pc = "cmd0" /\ Rest = <<>> /\ op = "open" /\ op' = "open" /\ pc \in Opening
        /\ UNCHANGED <<drvvars, spoilt>>
    <3>1. pc = "cmd0" /\ pc \in Opening
      BY <1>3 DEF GoIdle, Opening
    <3> QED
      BY <1>3, <3>1, OpeningAnswer DEF GoIdle, Same, drvvars
  <2>2. CASE Head1 # R1(1) /\ Return(-1)
    <3>1. kind = "none" \/ faults # {}
      BY <2>1, <2>2, OneAnswer DEF IInv, Recognized
    <3> QED
      BY <1>1, <2>1, <2>2, <3>1, Returned DEF drvvars
  <2>3. CASE Send("cmd8", 0)
    BY <1>1, <2>1, <2>3, SentOpening DEF Opening
  <2> QED
    BY <1>3, <2>2, <2>3 DEF GoIdle
<1>4. CASE SendIfCond
  <2>1. /\ pc = "cmd8" /\ Rest = <<>> /\ op = "open" /\ op' = "open" /\ pc \in Opening
        /\ UNCHANGED <<drvvars, spoilt>>
    <3>1. pc = "cmd8" /\ pc \in Opening
      BY <1>4 DEF SendIfCond, Opening
    <3> QED
      BY <1>4, <3>1, OpeningAnswer DEF SendIfCond, Same, drvvars
  <2>2. kind # "none" /\ faults = {} => (Head1.is = "r7" <=> kind # "sd1")
    <3>1. SUFFICES ASSUME kind # "none", faults = {} PROVE Head1.is = "r7" <=> kind # "sd1"
      OBVIOUS
    <3>2. Head1 = IF kind = "sd1" THEN R1(5) ELSE IfCond
      BY <2>1, <3>1, OneAnswer DEF IInv, Recognized
    <3> QED
      BY <3>2, AnswersDiffer
  <2>3. CASE Head1.is = "r7" /\ Send("cmd55", 0)
    BY <1>1, <2>1, <2>2, <2>3, SentOpening DEF Opening
  <2>4. CASE Head1.is # "r7" /\ Send("cmd1", 0)
    BY <1>1, <2>1, <2>2, <2>4, SentOpening DEF Opening
  <2> QED
    BY <1>4, <2>3, <2>4 DEF SendIfCond
<1>5. CASE SendOpCond
  <2>1. /\ pc = "cmd1" /\ Rest = <<>> /\ op = "open" /\ op' = "open" /\ pc \in Opening
        /\ UNCHANGED <<blk, rc, cur_blk, buffer, spoilt>>
        /\ kind # "none" /\ faults = {} => kind = "sd1"
    <3>1. pc = "cmd1" /\ pc \in Opening
      BY <1>5 DEF SendOpCond, Opening
    <3> QED
      BY <1>5, <3>1, OpeningAnswer DEF SendOpCond
  <2>2. CASE ccs' = 0 /\ Return(0)
    BY <1>1, <2>1, <2>2, Returned
  <2>3. CASE Head1 = R1(Timeout) /\ UNCHANGED ccs /\ Return(-2)
    <3>1. kind = "none" \/ faults # {}
      <4>1. \A v \in {0, 1, 5} : R1(v) # R1(Timeout)
        BY AnswersDiffer
      <4> QED
        BY <2>1, <2>3, <4>1, OneAnswer DEF IInv, Recognized
    <3> QED
      BY <1>1, <2>1, <2>3, <3>1, Returned
  <2>4. CASE UNCHANGED ccs /\ Send("cmd1", 0)
    BY <1>1, <2>1, <2>4, SentOpening DEF Opening, drvvars
  <2> QED
    BY <1>5, <2>2, <2>3, <2>4 DEF SendOpCond
<1>6. CASE AppCmd
  <2>1. /\ pc = "cmd55" /\ Rest = <<>> /\ op = "open" /\ op' = "open" /\ UNCHANGED <<drvvars, spoilt>>
        /\ kind # "none" /\ faults = {} => kind # "sd1"
    <3>1. pc = "cmd55" /\ pc \in Opening
      BY <1>6 DEF AppCmd, Opening
    <3> QED
      BY <1>6, <3>1, OpeningAnswer DEF AppCmd, Same, drvvars
  <2> QED
    BY <1>1, <1>6, <2>1, SentOpening DEF AppCmd, Opening
<1>7. CASE SdSendOpCond
  <2>1. /\ pc = "acmd41" /\ Rest = <<>> /\ op = "open" /\ op' = "open" /\ UNCHANGED <<drvvars, spoilt>>
        /\ kind # "none" /\ faults = {} => kind # "sd1"
    <3>1. pc = "acmd41" /\ pc \in Opening
      BY <1>7 DEF SdSendOpCond, Opening
    <3> QED
      BY <1>7, <3>1, OpeningAnswer DEF SdSendOpCond, Same, drvvars
  <2>2. PICK cmd \in {"cmd55", "cmd58"} : Send(cmd, 0)
    BY <1>7 DEF SdSendOpCond
  <2> QED
    BY <1>1, <2>1, <2>2, SentOpening DEF Opening
<1>8. CASE ReadOcr
  <2>1. /\ pc = "cmd58" /\ Rest = <<>> /\ op = "open" /\ op' = "open" /\ pc \in Opening
        /\ UNCHANGED <<blk, rc, cur_blk, buffer, spoilt>>
        /\ kind # "none" /\ faults = {} => kind # "sd1"
    <3>1. pc = "cmd58" /\ pc \in Opening
      BY <1>8 DEF ReadOcr, Opening
    <3> QED
      BY <1>8, <3>1, OpeningAnswer DEF ReadOcr
  <2> DEFINE ones == Head1.is # "r3"
             powered == IF ones THEN TRUE ELSE Head1.powered
             high == IF ones THEN TRUE ELSE Head1.ccs
  <2>2. IF powered THEN ccs' = (IF high THEN 1 ELSE 0) /\ Return(0)
        ELSE UNCHANGED ccs /\ Send("cmd58", 0)
    BY <1>8 DEF ReadOcr
  <2>3. kind # "none" /\ faults = {} => (high <=> kind = "sdhc")
    <3>1. SUFFICES ASSUME kind # "none", faults = {} PROVE high <=> kind = "sdhc"
      OBVIOUS
    <3>2. PICK p \in BOOLEAN : out = <<Ocr(p, kind = "sdhc")>>
      BY <2>1, <3>1 DEF IInv, Recognized
    <3>3. Head1.is = "r3" /\ Head1.ccs = (kind = "sdhc")
      BY <3>2, OneAnswer, AnswersDiffer
    <3> QED
      BY <3>3
  <2> HIDE DEF powered, high
  <2>4. CASE ccs' = (IF high THEN 1 ELSE 0) /\ Return(0)
    BY <1>1, <2>1, <2>3, <2>4, Returned
  <2>5. CASE UNCHANGED ccs /\ Send("cmd58", 0)
    BY <1>1, <2>1, <2>5, SentOpening DEF Opening, drvvars
  <2> QED
    BY <2>2, <2>4, <2>5
<1> QED
  BY <1>2, <1>3, <1>4, <1>5, <1>6, <1>7, <1>8

(* A call that may be made: the driver knows the card's unit. *)
LEMMA Known ==
  ASSUME IInv, Usable
  PROVE  /\ Rest = <<>> /\ pc = "free" /\ op # "none"
         /\ kind # "none" /\ faults = {} => (ccs = 1 <=> kind = "sdhc")
         /\ ccs \in {0, 1}
<1>1. pc = "free" /\ op \in {"open", "fetch", "store"} /\ out = <<>>
  BY DEF IInv, TypeOK, Answer, Usable
<1>2. Opened
  BY <1>1 DEF Opened
<1> QED
  BY <1>1, <1>2, NoAnswer DEF IInv, Recognized, TypeOK

(* sdcard_fetch sends its command. *)
LEMMA FetchInv ==
  ASSUME SdCardAssumption, IInv, NEW b \in Blocks, Fetch(b)
  PROVE  IInv'
<1>1. /\ op' = "fetch" /\ blk' = b /\ cur_blk' = b /\ pc' = "cmd17" /\ Usable
      /\ CardCmd("cmd17", Arg(b)) /\ UNCHANGED <<rc, ccs, buffer>> /\ b \in Nat
      /\ owed' = owed /\ spoilt' = (owed # Nothing) /\ TypeOK /\ Card
  BY DEF Fetch, Begins, Send, SdCardAssumption, IInv
<1>2. /\ Rest = <<>> /\ ccs \in {0, 1}
      /\ kind # "none" /\ faults = {} => (ccs = 1 <=> kind = "sdhc")
  BY <1>1, Known
<1>3. /\ kind' = kind /\ media' = media /\ prog' = prog /\ Card' /\ faults' = faults
      /\ \/ out' \in {<<>>, <<R1(64)>>}
         \/ owed = Nothing /\ out' = <<R1(0), ErrorToken>>
         \/ /\ owed = Nothing /\ kind # "none" /\ Addressed(Arg(b)) \in Blocks
            /\ out' = <<R1(0), DataToken(media[Addressed(Arg(b))])>>
         \/ owed # Nothing /\ (\E v \in {Timeout, 0, 64} : out' = <<R1(v)>>)
         \/ owed # Nothing /\ out' = <<R1(0), NoiseToken>>
  BY <1>1, <1>2, Commanded DEF Opening
<1>4. Len(out') = 0 \/ Len(out') = 1 \/ Len(out') = 2
  BY <1>3, Lengths, Zenon
<1>5. TypeOK'
  <2>1. Len(out') <= 2
    BY <1>4, AtMostTwo
  <2> QED
    BY <1>1, <1>3, <2>1 DEF TypeOK
<1>6. Call' /\ Behind'
  BY <1>1 DEF Call, Behind, Opening, Fetching, Storing
<1>7. Answer'
  <2>1. Addressed(Arg(b)) \in Blocks => media[Addressed(Arg(b))] \in Contents
    BY <1>1 DEF TypeOK
  <2>2. \/ out' = <<>>
        \/ \E v \in {Timeout, 0, 64} : out' = <<R1(v)>>
        \/ ~ spoilt' /\ out' = <<R1(0), ErrorToken>>
        \/ spoilt' /\ out' = <<R1(0), NoiseToken>>
        \/ ~ spoilt' /\ \E v \in Contents : out' = <<R1(0), DataToken(v)>>
    BY <1>1, <1>3, <2>1
  <2> QED
    BY <1>1, <2>2 DEF Answer
<1>8. Recognized'
  BY <1>1, <1>2, <1>3 DEF Recognized
<1>9. Exact'
  <2>1. "missed" \notin faults' /\ prog' # Nothing => prog' = owed' /\ ~ Owning'
    BY <1>1, <1>3 DEF IInv, Exact, Owning, Usable
  <2>2. ASSUME "missed" \notin faults, NEW v \in Contents, out' = <<R1(0), DataToken(v)>>
        PROVE  v = media[b]
    <3>1. Len(out') = 2
      BY <2>2, Lengths
    <3>2. out' # <<>> /\ \A w : out' # <<R1(w)>>
      BY <3>1, Lengths
    <3>3. out' # <<R1(0), ErrorToken>> /\ out' # <<R1(0), NoiseToken>>
      <4>1. DataToken(v) # ErrorToken /\ DataToken(v) # NoiseToken
        <5>1. DataToken(v).is # ErrorToken.is /\ DataToken(v).is # NoiseToken.is
          BY AnswersDiffer
        <5> QED
          BY <5>1
      <4> QED
        BY <2>2, <4>1
    <3>4. /\ kind # "none" /\ Addressed(Arg(b)) \in Blocks
          /\ out' = <<R1(0), DataToken(media[Addressed(Arg(b))])>>
      BY <1>3, <3>2, <3>3
    <3>5. v = media[Addressed(Arg(b))]
      <4>1. DataToken(v) = DataToken(media[Addressed(Arg(b))])
        BY <2>2, <3>4
      <4> QED
        BY <4>1, AnswersDiffer
    <3>6. faults = {}
      BY <1>1, <2>2, <3>4 DEF Card
    <3> QED
      BY <1>1, <1>2, <3>4, <3>5, <3>6, UnitRight
  <2> QED
    BY <1>1, <1>3, <2>1, <2>2 DEF Exact, Owning
<1> QED
  BY <1>3, <1>5, <1>6, <1>7, <1>8, <1>9 DEF IInv

(* sdcard_store sends its command. *)
LEMMA FlushInv ==
  ASSUME SdCardAssumption, IInv, NEW u \in Contents, Flush(u)
  PROVE  IInv'
<1>1. /\ op' = "store" /\ blk' = cur_blk /\ cur_blk' = cur_blk /\ pc' = "cmd24" /\ Usable
      /\ CardCmd("cmd24", Arg(cur_blk)) /\ UNCHANGED <<rc, ccs>> /\ buffer' = u
      /\ owed' = owed /\ spoilt' = (owed # Nothing) /\ op # "open" /\ TypeOK /\ Card
  BY DEF Flush, Begins, Send, IInv
<1>2. /\ Rest = <<>> /\ cur_blk \in Blocks
      /\ kind # "none" /\ faults = {} => (ccs = 1 <=> kind = "sdhc")
  <2>1. op \in {"fetch", "store"}
    BY <1>1 DEF TypeOK, Usable
  <2> QED
    BY <1>1, <2>1, Known DEF IInv, Call
<1>3. /\ kind' = kind /\ media' = media /\ prog' = prog /\ Card' /\ faults' = faults
      /\ out' = <<>> \/ \E v \in {Timeout, 0, 64} : out' = <<R1(v)>>
  BY <1>1, <1>2, Commanded DEF Opening
<1>4. Len(out') = 0 \/ Len(out') = 1
  BY <1>3, Lengths, Zenon
<1>5. TypeOK'
  <2>1. Len(out') <= 2
    BY <1>4, AtMostTwo
  <2> QED
    BY <1>1, <1>3, <2>1 DEF TypeOK
<1>6. Call' /\ Behind'
  BY <1>1, <1>2 DEF Call, Behind, Opening, Fetching, Storing
<1>7. Answer'
  BY <1>1, <1>3 DEF Answer
<1>8. Recognized'
  BY <1>1, <1>2, <1>3 DEF Recognized
<1>9. Exact'
  BY <1>1, <1>3 DEF IInv, Exact, Owning, Usable
<1> QED
  BY <1>3, <1>5, <1>6, <1>7, <1>8, <1>9 DEF IInv

(* What the driver knows at each step of a fetch. *)
LEMMA FetchingKnown ==
  ASSUME IInv, pc \in Fetching
  PROVE  /\ op = "fetch" /\ ccs \in {0, 1} /\ buffer \in Contents /\ ~ Owning
         /\ kind # "none" /\ faults = {} => (ccs = 1 <=> kind = "sdhc")
BY DEF IInv, TypeOK, Call, Recognized, Opened, Owning, Fetching

(* A fetch reads the answer: the rest is the data, or what it takes for      *)
(* them, or nothing.                                                         *)
LEMMA FetchAnsweredInv ==
  ASSUME SdCardAssumption, IInv, FetchAnswered
  PROVE  IInv'
<1>1. /\ pc = "cmd17" /\ UNCHANGED <<op, blk, rc, ccs, cur_blk, buffer, spoilt>>
      /\ op = "fetch" /\ ccs \in {0, 1} /\ buffer \in Contents /\ ~ Owning
      /\ kind # "none" /\ faults = {} => (ccs = 1 <=> kind = "sdhc")
  BY FetchingKnown DEF FetchAnswered, Same, drvvars, Fetching
<1>2. \/ out = <<>>
      \/ \E v \in {Timeout, 0, 64} : out = <<R1(v)>>
      \/ ~ spoilt /\ out = <<R1(0), ErrorToken>>
      \/ spoilt /\ out = <<R1(0), NoiseToken>>
      \/ ~ spoilt /\ \E v \in Contents : out = <<R1(0), DataToken(v)>>
  BY <1>1 DEF IInv, Answer
<1>3. CASE Head1 # R1(0)
  <2>1. Return(-1)
    BY <1>3 DEF FetchAnswered
  <2>2. Rest = <<>>
    BY <1>2, <1>3, NoAnswer, OneAnswer, TwoAnswers
  <2> QED
    BY <1>1, <2>1, <2>2, Returned
<1>4. CASE Head1 = R1(0)
  <2>1. /\ pc' = "token" /\ out' = Rest
        /\ UNCHANGED <<kind, ready, media, prog, faults, result, owed>>
    BY <1>4 DEF FetchAnswered, GoesTo, cardvars
  <2>2. \/ out' = <<>>
        \/ ~ spoilt /\ out' = <<ErrorToken>>
        \/ spoilt /\ out' = <<NoiseToken>>
        \/ /\ ~ spoilt
           /\ \E v \in Contents : out = <<R1(0), DataToken(v)>> /\ out' = <<DataToken(v)>>
    BY <1>2, <2>1, NoAnswer, OneAnswer, TwoAnswers
  <2>3. TypeOK'
    <3>1. Len(out') = 0 \/ Len(out') = 1
      BY <2>2, Lengths, Zenon
    <3>2. Len(out') <= 2
      BY <3>1, AtMostTwo
    <3> QED
      BY <1>1, <2>1, <3>2 DEF IInv, TypeOK
  <2>4. Card'
    BY <2>1, NoAnswer DEF IInv, Card
  <2>5. Call' /\ Behind'
    BY <1>1, <2>1 DEF IInv, Call, Behind, Opening, Fetching, Storing
  <2>6. Answer'
    BY <1>1, <2>1, <2>2 DEF Answer
  <2>7. Recognized'
    BY <1>1, <2>1 DEF Recognized
  <2>8. Exact'
    <3>1. ASSUME "missed" \notin faults, NEW v \in Contents, out' = <<DataToken(v)>>
          PROVE  v = media[blk]
      <4>1. DataToken(v) # ErrorToken /\ DataToken(v) # NoiseToken
        <5>1. DataToken(v).is # ErrorToken.is /\ DataToken(v).is # NoiseToken.is
          BY AnswersDiffer
        <5> QED
          BY <5>1
      <4>2. PICK w \in Contents : out = <<R1(0), DataToken(w)>> /\ out' = <<DataToken(w)>>
        BY <2>2, <3>1, <4>1
      <4>3. w = v
        <5>1. DataToken(w) = DataToken(v)
          BY <3>1, <4>2
        <5> QED
          BY <5>1, AnswersDiffer
      <4> QED
        BY <1>1, <3>1, <4>2, <4>3 DEF IInv, Exact
    <3> QED
      BY <1>1, <2>1, <3>1 DEF IInv, Exact, Owning
  <2> QED
    BY <2>3, <2>4, <2>5, <2>6, <2>7, <2>8 DEF IInv
<1> QED
  BY <1>3, <1>4

(* A fetch finds a low bit or gives up: the data are then owed.              *)
LEMMA TokenInv ==
  ASSUME SdCardAssumption, IInv, Token
  PROVE  IInv'
<1>1. /\ pc = "token" /\ UNCHANGED <<op, blk, rc, ccs, cur_blk, buffer, spoilt>>
      /\ op = "fetch" /\ ccs \in {0, 1} /\ buffer \in Contents /\ ~ Owning
      /\ kind # "none" /\ faults = {} => (ccs = 1 <=> kind = "sdhc")
  BY FetchingKnown DEF Token, Same, drvvars, Fetching
<1>2. CASE out # <<>> /\ GoesTo("data") /\ UNCHANGED out
  <2>1. pc' = "data" /\ UNCHANGED <<kind, ready, media, prog, faults, result, owed, out>>
    BY <1>2 DEF GoesTo, cardvars
  <2>2. TypeOK' /\ Card'
    BY <1>1, <2>1 DEF IInv, TypeOK, Card
  <2>3. Call' /\ Behind'
    BY <1>1, <1>2, <2>1 DEF IInv, Call, Behind, Opening, Fetching, Storing
  <2>4. Answer'
    BY <1>1, <2>1 DEF IInv, Answer
  <2>5. Recognized'
    BY <1>1, <2>1 DEF Recognized
  <2>6. Exact'
    BY <1>1, <2>1 DEF IInv, Exact, Owning
  <2> QED
    BY <2>2, <2>3, <2>4, <2>5, <2>6 DEF IInv
<1>3. CASE GivesUp(-2, IF Head1.is \in {"data", "error"} THEN TheData ELSE owed)
  <2>1. pc' = "free" /\ out' = <<>> /\ UNCHANGED cardvars /\ owed' \in {owed, TheData}
    BY <1>3 DEF GivesUp
  <2>2. owed \in [b : Blocks, v : Contents] \cup {Nothing, TheData}
    BY DEF IInv, TypeOK
  <2>3. kind = "none" => owed' = Nothing
    <3>1. SUFFICES ASSUME kind = "none" PROVE owed' = Nothing
      OBVIOUS
    <3>2. out = <<>> /\ owed = Nothing
      BY <3>1 DEF IInv, Card
    <3>3. Head1.is = "r1"
      BY <3>2, NoAnswer, AnswersDiffer
    <3> QED
      BY <1>3, <3>2, <3>3 DEF GivesUp
  <2>4. "missed" \notin faults /\ prog # Nothing => prog = owed'
    <3>1. SUFFICES ASSUME "missed" \notin faults, prog # Nothing PROVE owed' = owed /\ prog = owed
      OBVIOUS
    <3>2. prog = owed
      BY <1>1, <3>1 DEF IInv, Exact
    <3>3. spoilt
      BY <1>1, <3>1, <3>2 DEF IInv, Behind
    <3>4. Head1.is \notin {"data", "error"}
      <4>1. out = <<>> \/ out = <<NoiseToken>>
        BY <1>1, <3>3 DEF IInv, Answer
      <4> QED
        BY <4>1, NoAnswer, OneAnswer, AnswersDiffer
    <3> QED
      BY <1>1, <1>3, <3>2, <3>4 DEF GivesUp
  <2> QED
    BY <1>1, <2>1, <2>2, <2>3, <2>4, Ended
<1> QED
  BY <1>2, <1>3 DEF Token

(* A fetch reads the block, or 512 bytes that are none. *)
LEMMA DataInv ==
  ASSUME SdCardAssumption, IInv, Data
  PROVE  IInv'
<1>1. /\ pc = "data" /\ UNCHANGED <<op, blk, rc, ccs, cur_blk, spoilt>> /\ Return(0)
      /\ buffer' = IF Head1.is = "data" THEN Head1.v ELSE Junk
      /\ op = "fetch" /\ ccs \in {0, 1} /\ ~ Owning
      /\ kind # "none" /\ faults = {} => (ccs = 1 <=> kind = "sdhc")
  BY FetchingKnown DEF Data, Fetching
<1>2. \/ out = <<>> \/ out = <<ErrorToken>> \/ out = <<NoiseToken>>
      \/ \E v \in Contents : out = <<DataToken(v)>>
  BY <1>1 DEF IInv, Answer
<1>3. Rest = <<>> /\ buffer' \in Contents
  <2>1. CASE out = <<>> \/ out = <<ErrorToken>> \/ out = <<NoiseToken>>
    <3>1. Rest = <<>> /\ Head1.is # "data"
      BY <2>1, NoAnswer, OneAnswer, AnswersDiffer
    <3> QED
      BY <1>1, <3>1 DEF Contents
  <2>2. CASE \E v \in Contents : out = <<DataToken(v)>>
    <3>1. PICK v \in Contents : out = <<DataToken(v)>>
      BY <2>2
    <3> QED
      BY <1>1, <3>1, OneAnswer, AnswersDiffer
  <2> QED
    BY <1>2, <2>1, <2>2
<1> QED
  BY <1>1, <1>3, Returned

(* What the driver knows at each step of a store. *)
LEMMA StoringKnown ==
  ASSUME SdCardAssumption, IInv, pc \in Storing
  PROVE  /\ op = "store" /\ ccs \in {0, 1} /\ buffer \in Contents
         /\ blk = cur_blk /\ cur_blk \in Blocks /\ cur_blk \in Nat
         /\ kind # "none" /\ faults = {} => (ccs = 1 <=> kind = "sdhc")
BY DEF SdCardAssumption, IInv, TypeOK, Call, Recognized, Opened, Storing

(* A store sends the block when its command was answered: a card that heard  *)
(* the command takes the block in hand, for the block fetched last, or       *)
(* refuses it.                                                               *)
LEMMA Stored ==
  ASSUME SdCardAssumption, IInv, StoreAnswered, Head1 = R1(0)
  PROVE  /\ pc' = "drsp" /\ op' = "store" /\ kind # "none"
         /\ UNCHANGED <<blk, rc, ccs, cur_blk, buffer, spoilt, owed, kind, ready, media, faults>>
         /\ \/ prog' = prog /\ \E v \in {0, 5, 11} : out' = <<Response(v)>> /\ (v = 11 \/ spoilt)
            \/ /\ ~ spoilt /\ out' = <<Response(5)>>
               /\ \E b \in Blocks : /\ prog' = [b |-> b, v |-> buffer]
                                    /\ "missed" \notin faults => b = cur_blk
<1>1. /\ pc = "cmd24" /\ pc' = "drsp" /\ Programs /\ owed' = owed
      /\ op' = op /\ UNCHANGED <<blk, rc, ccs, cur_blk, buffer, spoilt>>
  BY DEF StoreAnswered, Same, drvvars
<1>2. /\ op = "store" /\ blk = cur_blk /\ cur_blk \in Nat /\ ccs \in {0, 1}
      /\ kind # "none" /\ faults = {} => (ccs = 1 <=> kind = "sdhc")
  BY <1>1, StoringKnown DEF Storing
<1>3. out # <<>>
  BY NoAnswer, AnswersDiffer
<1>4. PICK x : out = <<x>>
  BY <1>1, <1>3 DEF IInv, Answer
<1>5. Rest = <<>> /\ kind # "none" /\ ("missed" \notin faults => faults = {})
  BY <1>3, <1>4, OneAnswer DEF IInv, Card
<1>6. CASE /\ spoilt /\ UNCHANGED cardvars
           /\ \E v \in {0, 5, 11} : Answers(<<[is |-> "drsp", v |-> v]>>)
  <2>1. \E v \in {0, 5, 11} : out' = <<Response(v)>>
    BY <1>5, <1>6, Shifted DEF Response
  <2> QED
    BY <1>1, <1>2, <1>5, <1>6, <2>1 DEF cardvars
<1>7. CASE /\ ~ spoilt /\ Answers(<<[is |-> "drsp", v |-> 5]>>)
           /\ \E b \in Blocks : b = Addressed(Arg(blk)) /\ prog' = [b |-> b, v |-> buffer]
           /\ UNCHANGED <<kind, ready, polls, app, media, faults>>
  <2>1. out' = <<Response(5)>>
    BY <1>5, <1>7, Shifted DEF Response
  <2>2. PICK b \in Blocks : b = Addressed(Arg(blk)) /\ prog' = [b |-> b, v |-> buffer]
    BY <1>7
  <2>3. "missed" \notin faults => b = cur_blk
    BY <1>2, <1>5, <2>2, UnitRight
  <2> QED
    BY <1>1, <1>2, <1>5, <1>7, <2>1, <2>2, <2>3
<1>8. CASE /\ ~ spoilt /\ Answers(<<[is |-> "drsp", v |-> 11]>>)
           /\ UNCHANGED cardvars
  <2>1. out' = <<Response(11)>>
    BY <1>5, <1>8, Shifted DEF Response
  <2> QED
    BY <1>1, <1>2, <1>5, <1>8, <2>1 DEF cardvars
<1> QED
  BY <1>1, <1>5, <1>6, <1>7, <1>8 DEF Programs

(* What comes of a store's answer keeps the invariant. *)
LEMMA StoreAnsweredInv ==
  ASSUME SdCardAssumption, IInv, StoreAnswered
  PROVE  IInv'
<1>1. /\ pc = "cmd24" /\ UNCHANGED <<op, blk, rc, ccs, cur_blk, buffer, spoilt>>
      /\ op = "store" /\ ccs \in {0, 1} /\ buffer \in Contents /\ ~ Owning
      /\ cur_blk \in Blocks
      /\ kind # "none" /\ faults = {} => (ccs = 1 <=> kind = "sdhc")
  BY StoringKnown DEF StoreAnswered, Same, drvvars, Storing, Owning
<1>2. CASE Head1 # R1(0)
  <2>1. Return(-1)
    BY <1>2 DEF StoreAnswered
  <2>2. Rest = <<>>
    <3>1. out = <<>> \/ \E x : out = <<x>>
      BY <1>1 DEF IInv, Answer
    <3> QED
      BY <3>1, NoAnswer, OneAnswer
  <2> QED
    BY <1>1, <2>1, <2>2, Returned
<1>3. CASE Head1 = R1(0)
  <2>1. /\ pc' = "drsp" /\ kind # "none"
        /\ UNCHANGED <<owed, kind, ready, media, faults>>
        /\ \/ prog' = prog /\ \E v \in {0, 5, 11} : out' = <<Response(v)>> /\ (v = 11 \/ spoilt)
           \/ /\ ~ spoilt /\ out' = <<Response(5)>>
              /\ \E b \in Blocks : /\ prog' = [b |-> b, v |-> buffer]
                                   /\ "missed" \notin faults => b = cur_blk
    BY <1>3, Stored
  <2>2. PICK v \in {0, 5, 11} : out' = <<Response(v)>>
    BY <2>1
  <2>3. out' # <<>> /\ Len(out') <= 2
    <3>1. Len(out') = 1
      BY <2>2, Lengths
    <3> QED
      BY <3>1, Lengths, AtMostTwo
  <2>4. prog' \in [b : Blocks, v : Contents] \cup {Nothing, TheData}
    <3>1. prog \in [b : Blocks, v : Contents] \cup {Nothing, TheData}
      BY DEF IInv, TypeOK
    <3> QED
      BY <1>1, <2>1, <3>1
  <2>5. TypeOK'
    <3>1. {prog', owed'} \subseteq [b : Blocks, v : Contents] \cup {Nothing, TheData}
      BY <2>1, <2>4 DEF IInv, TypeOK
    <3> QED
      BY <1>1, <2>1, <2>3, <3>1 DEF IInv, TypeOK
  <2>6. Card'
    BY <2>1 DEF IInv, Card
  <2>7. Call' /\ Behind'
    BY <1>1, <2>1, <2>3 DEF IInv, Call, Behind, Opening, Fetching, Storing
  <2>8. Answer'
    BY <2>1, <2>2 DEF Answer
  <2>9. Recognized'
    BY <1>1, <2>1 DEF Recognized
  <2>10. Exact'
    <3>1. SUFFICES ASSUME "missed" \notin faults
                   PROVE  /\ prog' # Nothing =>
                               prog' = IF ~ spoilt THEN [b |-> cur_blk, v |-> buffer] ELSE owed
                          /\ prog' = Nothing /\ ~ spoilt => out' # <<Response(5)>>
      BY <1>1, <2>1 DEF Exact, Owning
    <3>2. CASE /\ ~ spoilt
               /\ \E b \in Blocks : prog' = [b |-> b, v |-> buffer] /\ b = cur_blk
      <4>1. prog' = [b |-> cur_blk, v |-> buffer] /\ cur_blk # -1
        BY <3>2, StoringKnown, <1>1 DEF Storing
      <4> QED
        BY <3>2, <4>1 DEF Nothing
    <3>3. CASE prog' = prog /\ out' = <<Response(11)>> /\ ~ spoilt
      <4>1. prog = Nothing
        BY <1>1, <3>1, <3>3 DEF IInv, Exact, Behind
      <4>2. Response(5).v # Response(11).v
        BY AnswersDiffer
      <4> QED
        BY <3>3, <4>1, <4>2
    <3>4. CASE prog' = prog /\ spoilt
      BY <1>1, <3>1, <3>4 DEF IInv, Exact
    <3> QED
      BY <2>1, <3>1, <3>2, <3>3, <3>4
  <2> QED
    BY <2>5, <2>6, <2>7, <2>8, <2>9, <2>10 DEF IInv
<1> QED
  BY <1>2, <1>3

(* The data response, which says whether the card has taken the block. *)
LEMMA DataResponseInv ==
  ASSUME SdCardAssumption, IInv, DataResponse
  PROVE  IInv'
<1>1. /\ pc = "drsp" /\ UNCHANGED <<op, blk, ccs, cur_blk, buffer, spoilt>>
      /\ op = "store" /\ ccs \in {0, 1} /\ buffer \in Contents
      /\ kind # "none" /\ faults = {} => (ccs = 1 <=> kind = "sdhc")
  BY StoringKnown DEF DataResponse, Storing
<1>2. CASE out = <<>> /\ Return(-3)
  <2>1. prog = Nothing
    BY <1>1, <1>2 DEF IInv, Call, Card
  <2> QED
    BY <1>1, <1>2, <2>1, NoAnswer, Returned
<1>3. CASE out # <<>> /\ rc' = Head(out).v /\ GoesTo("busy") /\ out' = Rest
  <2>1. /\ pc' = "busy" /\ rc' = Head1.v
        /\ UNCHANGED <<kind, ready, media, prog, faults, result, owed>>
    BY <1>3 DEF GoesTo, cardvars, Head1
  <2>2. PICK v \in {0, 5, 11} : out = <<Response(v)>>
    BY <1>1, <1>3 DEF IInv, Answer
  <2>3. out' = <<>> /\ rc' = v
    BY <1>3, <2>1, <2>2, OneAnswer, AnswersDiffer
  <2>4. TypeOK' /\ Card'
    <3>1. Len(out') <= 2
      BY <2>3, Lengths, AtMostTwo
    <3> QED
      BY <1>1, <2>1, <2>3, <3>1 DEF IInv, TypeOK, Card
  <2>5. Call' /\ Behind'
    BY <1>1, <2>1, <2>3 DEF IInv, Call, Behind, Opening, Fetching, Storing
  <2>6. Answer' /\ Recognized'
    BY <1>1, <2>1, <2>3 DEF Answer, Recognized
  <2>7. Exact'
    <3>1. Owning' <=> Owning
      BY <1>1, <2>1 DEF Owning
    <3> QED
      BY <1>1, <2>1, <2>2, <2>3, <3>1 DEF IInv, Exact
  <2> QED
    BY <2>4, <2>5, <2>6, <2>7 DEF IInv
<1> QED
  BY <1>2, <1>3 DEF DataResponse

(* The end of a store: the line has gone up, or the driver gives up.         *)
LEMMA BusyInv ==
  ASSUME SdCardAssumption, IInv, NotBusy \/ BusyTimeout
  PROVE  IInv'
<1>1. /\ pc = "busy" /\ UNCHANGED <<op, blk, ccs, cur_blk, buffer, spoilt>>
      /\ op = "store" /\ ccs \in {0, 1} /\ buffer \in Contents /\ cur_blk \in Blocks
      /\ kind # "none" /\ faults = {} => (ccs = 1 <=> kind = "sdhc")
  BY StoringKnown DEF NotBusy, BusyTimeout, Ends, Storing
<1>2. out = <<>>
  BY <1>1 DEF IInv, Answer
<1>3. CASE NotBusy
  <2>1. PICK r : Return(r)
    BY <1>3 DEF NotBusy
  <2>2. Owning => prog = Nothing
    BY <1>3 DEF NotBusy, Owning
  <2> QED
    BY <1>1, <1>2, <2>1, <2>2, NoAnswer, Returned
<1>4. CASE BusyTimeout
  <2>1. /\ pc' = "free" /\ out' = <<>> /\ UNCHANGED cardvars /\ (prog # Nothing \/ spoilt)
        /\ owed' = IF spoilt THEN owed ELSE [b |-> cur_blk, v |-> buffer]
    BY <1>4 DEF BusyTimeout, GivesUp
  <2>2. owed' \in [b : Blocks, v : Contents] \cup {Nothing, TheData}
    BY <1>1, <2>1 DEF IInv, TypeOK
  <2>3. kind = "none" => owed' = Nothing
    BY <2>1 DEF IInv, Card
  <2>4. "missed" \notin faults /\ prog # Nothing => prog = owed'
    BY <1>1, <2>1 DEF IInv, Exact, Owning
  <2> QED
    BY <1>1, <2>1, <2>2, <2>3, <2>4, Ended
<1> QED
  BY <1>3, <1>4

(* What is programmed is a block's contents. *)
LEMMA ProgrammedMedia ==
  ASSUME TypeOK, SdCardAssumption
  PROVE  /\ \A v \in Contents : Programmed(v) \in [Blocks -> Contents]
         /\ Programmed(prog.v) \in [Blocks -> Contents]
<1>1. \A v \in Contents : Programmed(v) \in [Blocks -> Contents]
  BY DEF Programmed, TypeOK
<1>2. CASE prog \in [b : Blocks, v : Contents]
  BY <1>1, <1>2
<1>3. CASE prog \in {Nothing, TheData}
  <2>1. prog.b \notin Blocks
    BY <1>3 DEF Nothing, TheData, SdCardAssumption
  <2> QED
    BY <1>1, <2>1 DEF Programmed, TypeOK
<1> QED
  BY <1>1, <1>2, <1>3 DEF TypeOK

(* The card finishes, or is pulled out: nothing of it is left to do. *)
LEMMA FinishInv ==
  ASSUME SdCardAssumption, IInv, Finish
  PROVE  IInv'
<1>1. /\ media' = Programmed(prog.v) /\ prog' = Nothing /\ owed' = Nothing
      /\ UNCHANGED <<kind, ready, faults, out, pc, op, blk, rc, ccs, cur_blk, buffer,
                     result, spoilt>>
  BY DEF Finish, drvvars
<1>2. TypeOK'
  <2>1. media' \in [Blocks -> Contents]
    BY <1>1, ProgrammedMedia DEF IInv
  <2> QED
    BY <1>1, <2>1 DEF IInv, TypeOK
<1>3. Card' /\ Call' /\ Behind'
  BY <1>1 DEF IInv, Card, Call, Behind, Opening, Fetching, Storing
<1>4. Answer' /\ Recognized'
  <2>1. Answer'
    BY <1>1 DEF IInv, Answer
  <2>2. Opened' <=> Opened
    BY <1>1 DEF Opened
  <2> QED
    BY <1>1, <2>1, <2>2 DEF IInv, Recognized
<1>5. Exact'
  <2>1. SUFFICES ASSUME "missed" \notin faults PROVE Exact'
    BY <1>1 DEF Exact
  <2>2. Owning' <=> Owning
    BY <1>1 DEF Owning
  <2>3. CASE Owning
    <3>1. pc \in {"drsp", "busy"} /\ pc \in Storing
      BY <2>3 DEF Owning, Storing
    <3>2. prog = Nothing \/ (prog = [b |-> cur_blk, v |-> buffer] /\ cur_blk \in Blocks)
      BY <2>1, <2>3, <3>1, StoringKnown DEF IInv, Exact
    <3>3. media \in [Blocks -> Contents]
      BY DEF IInv, TypeOK
    <3>4. CASE prog = Nothing
      <4>1. media' = media
        <5>1. prog.b \notin Blocks
          BY <3>4 DEF Nothing, SdCardAssumption
        <5> QED
          BY <1>1, <5>1 DEF Programmed
      <4> QED
        BY <1>1, <2>1, <2>2, <3>1, <3>4, <4>1 DEF IInv, Exact
    <3>5. CASE prog = [b |-> cur_blk, v |-> buffer] /\ cur_blk \in Blocks
      <4>1. media'[cur_blk] = buffer
        BY <1>1, <3>3, <3>5 DEF Programmed
      <4> QED
        BY <1>1, <2>1, <2>2, <3>1, <4>1 DEF Exact
    <3> QED
      BY <3>2, <3>4, <3>5
  <2>4. CASE ~ Owning
    <3>1. prog \in {Nothing, owed}
      BY <2>1, <2>4 DEF IInv, Exact
    <3>2. CASE prog = Nothing
      <4>1. media' = media
        <5>1. prog.b \notin Blocks
          BY <3>2 DEF Nothing, SdCardAssumption
        <5> QED
          BY <1>1, <5>1 DEF Programmed
      <4> QED
        BY <1>1, <2>1, <2>2, <2>4, <4>1 DEF IInv, Exact
    <3>3. CASE prog = owed /\ owed # Nothing
      <4>1. pc = "free" \/ spoilt
        BY <3>3 DEF IInv, Behind
      <4>2. \A v \in Contents : out # <<R1(0), DataToken(v)>> \/ pc # "cmd17"
        <5>1. SUFFICES ASSUME pc = "cmd17", NEW v \in Contents, out = <<R1(0), DataToken(v)>>
                       PROVE  FALSE
          OBVIOUS
        <5>2. Len(out) = 2 /\ DataToken(v) # NoiseToken
          <6>1. DataToken(v).is # NoiseToken.is
            BY AnswersDiffer
          <6> QED
            BY <5>1, <6>1, Lengths
        <5>3. out # <<>> /\ out # <<R1(0), NoiseToken>> /\ \A w : out # <<R1(w)>>
          BY <5>1, <5>2, Lengths
        <5> QED
          BY <4>1, <5>1, <5>3 DEF IInv, Answer
      <4>3. \A v \in Contents : out # <<DataToken(v)>> \/ pc \notin {"token", "data"}
        <5>1. SUFFICES ASSUME pc \in {"token", "data"}, NEW v \in Contents, out = <<DataToken(v)>>
                       PROVE  FALSE
          OBVIOUS
        <5>2. out # <<NoiseToken>>
          <6>1. DataToken(v).is # NoiseToken.is
            BY AnswersDiffer
          <6> QED
            BY <5>1, <6>1
        <5> QED
          BY <4>1, <5>1, <5>2 DEF IInv, Answer
      <4> QED
        BY <1>1, <2>1, <2>2, <2>4, <4>2, <4>3 DEF Exact
    <3> QED
      BY <3>1, <3>2, <3>3
  <2> QED
    BY <2>3, <2>4
<1> QED
  BY <1>2, <1>3, <1>4, <1>5 DEF IInv

(* The card is pulled out: nothing is left of its answers. *)
LEMMA RemoveInv ==
  ASSUME SdCardAssumption, IInv, Remove
  PROVE  IInv'
<1>1. /\ kind' = "none" /\ out' = <<>> /\ faults' = faults \cup {"removed"}
      /\ prog' = Nothing /\ owed' = Nothing
      /\ UNCHANGED <<ready, pc, op, blk, rc, ccs, cur_blk, buffer, result, spoilt>>
  BY DEF Remove, drvvars
<1>2. TypeOK'
  <2>1. media' \in [Blocks -> Contents]
    <3>1. Junk \in Contents /\ media \in [Blocks -> Contents]
      BY DEF Contents, IInv, TypeOK
    <3> QED
      BY <3>1, ProgrammedMedia DEF IInv, Remove
  <2>2. Len(out') <= 2
    BY <1>1, Lengths, AtMostTwo
  <2> QED
    BY <1>1, <2>1, <2>2 DEF IInv, TypeOK
<1>3. Card' /\ Call' /\ Behind'
  BY <1>1 DEF IInv, Card, Call, Behind, Opening, Fetching, Storing
<1>4. Answer' /\ Recognized'
  BY <1>1 DEF Answer, Recognized
<1>5. Exact'
  <2>1. \A v : <<>> # <<v>>
    OBVIOUS
  <2>2. \A v, w : <<>> # <<v, w>>
    OBVIOUS
  <2> QED
    BY <1>1, <2>1, <2>2 DEF Exact
<1> QED
  BY <1>2, <1>3, <1>4, <1>5 DEF IInv

LEMMA NextInv ==
  ASSUME SdCardAssumption, IInv, [Next]_vars
  PROVE  IInv'
<1>1. CASE UNCHANGED vars
  <2>1. UNCHANGED <<kind, ready, media, prog, faults, out, pc, op, blk, rc, ccs, cur_blk,
                    buffer, result, owed, spoilt>>
    BY <1>1 DEF vars, cardvars, drvvars, late
  <2>2. TypeOK' /\ Card'
    BY <2>1 DEF IInv, TypeOK, Card
  <2>3. Call' /\ Behind' /\ Answer'
    BY <2>1 DEF IInv, Call, Behind, Answer
  <2>4. Recognized' /\ Exact'
    <3>1. (Opened' <=> Opened) /\ (Owning' <=> Owning)
      BY <2>1 DEF Opened, Owning
    <3> QED
      BY <2>1, <3>1 DEF IInv, Recognized, Exact
  <2> QED
    BY <2>2, <2>3, <2>4 DEF IInv
<1> QED
  BY <1>1, OpenInv, FetchInv, FlushInv, FetchAnsweredInv, TokenInv, DataInv, StoreAnsweredInv,
     DataResponseInv, BusyInv, FinishInv, RemoveInv DEF Next, Driver

LEMMA Invariance ==
  ASSUME SdCardAssumption
  PROVE  Spec => []IInv
<1>1. Init => IInv
  BY InitInv
<1>2. IInv /\ [Next]_vars => IInv'
  BY NextInv
<1> QED
  BY <1>1, <1>2, PTL DEF Spec

-------------------------------------------------------------------------------
(* The driver's variables keep to their ranges, and no more than two answers *)
(* wait to be shifted out (sd_cmd, sd_busy).                                 *)
THEOREM Typing ==
  ASSUME SdCardAssumption
  PROVE  Spec => []TypeOK
<1>1. IInv => TypeOK
  BY DEF IInv
<1> QED
  BY <1>1, Invariance, PTL

(* An sdcard_open with a card that missed nothing has left ccs as the card's *)
(* unit is, whatever its kind and the polls it needed.                       *)
THEOREM UnitKnown ==
  ASSUME SdCardAssumption
  PROVE  Spec => []CcsRight
<1>1. IInv => CcsRight
  BY Known DEF CcsRight
<1> QED
  BY <1>1, Invariance, PTL

(* An sdcard_fetch that reports success leaves the block it was asked for in *)
(* the buffer, or, after an error token, a removal or a wait given up on     *)
(* before, no block at all, and never another block.                         *)
THEOREM FetchExact ==
  ASSUME SdCardAssumption
  PROVE  Spec => FetchRight
<1>1. ASSUME IInv, Data, "missed" \notin faults
      PROVE  \/ buffer' = media[blk]
             \/ buffer' = Junk /\ (kind = "none" \/ Head1.is = "error" \/ spoilt)
  <2>1. pc = "data" /\ buffer' = IF Head1.is = "data" THEN Head1.v ELSE Junk
    BY <1>1 DEF Data
  <2>2. CASE out = <<>>
    <3>1. Head1.is = "r1" /\ kind = "none"
      BY <1>1, <2>1, <2>2, NoAnswer, AnswersDiffer DEF IInv, Call
    <3> QED
      BY <2>1, <3>1
  <2>3. CASE out = <<ErrorToken>>
    BY <2>1, <2>3, OneAnswer, AnswersDiffer
  <2>4. CASE spoilt /\ out = <<NoiseToken>>
    BY <2>1, <2>4, OneAnswer, AnswersDiffer
  <2>5. CASE \E v \in Contents : out = <<DataToken(v)>>
    <3>1. PICK v \in Contents : out = <<DataToken(v)>>
      BY <2>5
    <3>2. buffer' = v
      BY <2>1, <3>1, OneAnswer, AnswersDiffer
    <3> QED
      BY <1>1, <2>1, <3>1, <3>2 DEF IInv, Exact
  <2> QED
    BY <1>1, <2>1, <2>2, <2>3, <2>4, <2>5 DEF IInv, Answer
<1>2. IInv => (Data /\ "missed" \notin faults =>
                 \/ buffer' = media[blk]
                 \/ buffer' = Junk /\ (kind = "none" \/ Head1.is = "error" \/ spoilt))
  BY <1>1
<1> QED
  BY <1>2, Invariance, PTL DEF FetchRight

(* Only the card changes its blocks: when it ends a write or is pulled out   *)
(* during one.                                                               *)
LEMMA Untouched ==
  ASSUME Next, media' # media
  PROVE  Finish \/ Remove
<1>1. CASE Open \/ GoIdle \/ SendIfCond \/ SendOpCond \/ AppCmd \/ SdSendOpCond \/ ReadOcr
           \/ (\E d \in Blocks : Fetch(d)) \/ (\E v \in Contents : Flush(v))
  <2>1. (\E cmd, arg : CardCmd(cmd, arg)) \/ UNCHANGED cardvars
    BY <1>1 DEF Open, GoIdle, SendIfCond, SendOpCond, AppCmd, SdSendOpCond, ReadOcr, Fetch,
       Flush, Send, Return
  <2>2. media' = media
    BY <2>1 DEF CardCmd, Noise, Silent, Starts, cardvars
  <2> QED
    BY <2>2
<1>2. CASE FetchAnswered \/ Token \/ Data \/ DataResponse \/ NotBusy \/ BusyTimeout
  BY <1>2 DEF FetchAnswered, Token, Data, DataResponse, NotBusy, BusyTimeout, Return, GoesTo,
     GivesUp, cardvars
<1>3. CASE StoreAnswered
  BY <1>3 DEF StoreAnswered, Return, Programs, Silent, cardvars
<1> QED
  BY <1>1, <1>2, <1>3 DEF Next, Driver

(* The block the card changes is the one the flush it has taken was for.     *)
LEMMA OnlyMeant ==
  ASSUME SdCardAssumption, IInv, Finish \/ Remove, "missed" \notin faults,
         NEW d \in Blocks, media'[d] # media[d]
  PROVE  \E store \in Meant : store.b = d /\ (media'[d] = store.v \/ kind' = "none")
<1>1. media \in [Blocks -> Contents] /\ SdCardAssumption
  BY DEF IInv, TypeOK
<1>2. PICK v : media' = Programmed(v) /\ (v = prog.v \/ kind' = "none")
  BY DEF Finish, Remove
<1>3. prog.b \in Blocks /\ prog.b = d /\ media'[d] = v
  BY <1>1, <1>2 DEF Programmed
<1>4. prog # Nothing
  BY <1>3 DEF Nothing, SdCardAssumption
<1>5. prog \in Meant
  BY <1>4 DEF IInv, Exact, Meant, Owning
<1> QED
  BY <1>2, <1>3, <1>5

(* An sdcard_store that reports success has stored the buffer in the block   *)
(* fetched last, unless the card was pulled out or still at an earlier call, *)
(* and every change of a block is what a flush was to put there.             *)
THEOREM StoreExact ==
  ASSUME SdCardAssumption
  PROVE  Spec => StoreRight
<1>1. ASSUME IInv, NotBusy, result' = 0, "missed" \notin faults
      PROVE  media[cur_blk] = buffer \/ kind = "none" \/ spoilt
  <2>1. /\ pc = "busy" /\ (prog = Nothing \/ spoilt)
        /\ result' = IF rc = 5 THEN 0 ELSE IF rc = 0 THEN -5 ELSE -rc
    BY <1>1 DEF NotBusy, Return
  <2>2. rc \in {0, 5, 11}
    BY <1>1, <2>1 DEF IInv, Call
  <2>3. rc = 5
    BY <1>1, <2>1, <2>2
  <2> QED
    BY <1>1, <2>1, <2>3 DEF IInv, Exact, Owning
<1>2. IInv /\ [Next]_vars =>
        ("missed" \notin faults =>
           /\ (NotBusy /\ result' = 0) => media[cur_blk] = buffer \/ kind = "none" \/ spoilt
           /\ \A b \in Blocks : media'[b] # media[b] =>
                \E store \in Meant : store.b = b /\ (media'[b] = store.v \/ kind' = "none"))
  <2>1. UNCHANGED vars => media' = media
    BY DEF vars, cardvars
  <2>2. ASSUME IInv, Next, "missed" \notin faults, NEW b \in Blocks, media'[b] # media[b]
        PROVE  \E store \in Meant : store.b = b /\ (media'[b] = store.v \/ kind' = "none")
    <3>1. Finish \/ Remove
      BY <2>2, Untouched
    <3> QED
      BY <2>2, <3>1, OnlyMeant
  <2> QED
    BY <1>1, <2>1, <2>2
<1> QED
  BY <1>2, Invariance, PTL DEF StoreRight, Spec

===============================================================================
