------------------------------ MODULE Serial_proofs ------------------------------
(* Proofs about UartQueue: types, and that the queue is exact and keeps what *)
(* con_peek says until it overruns, and in order even then, for every Size   *)
(* and MaxSent.  Proofs about the line (SoftUart), for every number of data  *)
(* bits: types, that uart_tx sends exact frames whatever comes in, and that  *)
(* until a start bit comes in its blind quarter the line is full duplex.     *)
(* And the properties of Serial, which runs one of them.                     *)
EXTENDS Serial, SequenceTheorems, TLAPS

Slots == 0..(Size - 1)

(* How many characters wait, and the slot of the k-th of them. *)
Waiting ==
  IF fifo_wrptr >= fifo_rdptr
  THEN fifo_wrptr - fifo_rdptr
  ELSE fifo_wrptr - fifo_rdptr + Size

Slot(k) ==
  IF fifo_rdptr + k < Size THEN fifo_rdptr + k ELSE fifo_rdptr + k - Size

(* While nothing has overrun, the queue holds the characters received and    *)
(* not yet returned, and what the main program has learnt about it is true.  *)
InFlight ==
  /\ sent = got + Waiting
  /\ \A k \in 0..(Waiting - 1) : fifo[Slot(k)] = got + 1 + k
  /\ pc # "idle" => fifo_rdptr # fifo_wrptr
  /\ promised => fifo_rdptr # fifo_wrptr
  /\ pc = "advance" => rc = got + 1

IInv == TypeOK /\ (~ overrun => InFlight)

(* The initial state satisfies the invariant. *)
LEMMA InitIInv == Init => IInv
<1> SUFFICES ASSUME Init PROVE IInv
  OBVIOUS
<1> USE SizeAssumption DEF Init
<1>1. TypeOK
  <2>1. overrun \in BOOLEAN /\ promised \in BOOLEAN
    BY Zenon
  <2> QED
    BY <2>1 DEF TypeOK
<1>2. sent = got + Waiting /\ 0..(Waiting - 1) = {}
  BY DEF Waiting
<1>3. InFlight
  BY <1>2 DEF InFlight
<1> QED
  BY <1>1, <1>3 DEF IInv

(* Every step keeps the types. *)
LEMMA NextType == TypeOK /\ [Next]_vars => TypeOK'
<1> SUFFICES ASSUME TypeOK, [Next]_vars PROVE TypeOK'
  OBVIOUS
<1> USE SizeAssumption DEF TypeOK
<1>0. overrun' \in BOOLEAN /\ promised' \in BOOLEAN
  BY DEF Next, UartInt, ConPeek, GetEmpty, GetTest, GetRead, GetAdvance, vars,
         reader, Full
<1>1. CASE UartInt
  BY <1>0, <1>1 DEF UartInt, UartPush, Masked, Full, reader
<1>2. CASE ConPeek
  BY <1>0, <1>2 DEF ConPeek
<1>3. CASE GetEmpty
  BY <1>0, <1>3 DEF GetEmpty
<1>4. CASE GetTest
  BY <1>0, <1>4 DEF GetTest
<1>5. CASE GetRead
  BY <1>0, <1>5 DEF GetRead
<1>6. CASE GetAdvance
  BY <1>0, <1>6 DEF GetAdvance, Masked
<1>7. CASE UNCHANGED vars
  BY <1>0, <1>7 DEF vars, reader
<1> QED
  BY <1>1, <1>2, <1>3, <1>4, <1>5, <1>6, <1>7 DEF Next

(* A character that finds room goes to the slot behind those that wait. *)
LEMMA PushKeeps ==
  ASSUME TypeOK, InFlight, UartInt, ~ Full
  PROVE  InFlight'
<1> USE SizeAssumption DEF TypeOK, UartInt, reader
<1>1. /\ fifo' = [fifo EXCEPT ![fifo_wrptr] = sent + 1]
      /\ fifo_wrptr' = Masked(fifo_wrptr + 1)
      /\ fifo_rdptr' = fifo_rdptr
  BY DEF UartPush, Full, Masked
<1>2. Waiting' = Waiting + 1 /\ Waiting \in 0..(Size - 2)
  BY <1>1 DEF Waiting, Masked, Full
<1>3. Slot(Waiting) = fifo_wrptr
  BY DEF Slot, Waiting
<1>4. ASSUME NEW k \in 0..(Waiting - 1)
      PROVE  Slot(k) \in Slots /\ Slot(k) # fifo_wrptr
  BY <1>2 DEF Slot, Waiting, Slots
<1>5. ASSUME NEW k \in 0..Waiting PROVE fifo'[Slot(k)] = got + 1 + k
  <2>1. CASE k = Waiting
    BY <1>1, <1>3, <2>1 DEF InFlight
  <2>2. CASE k \in 0..(Waiting - 1)
    BY <1>1, <1>4, <2>2 DEF InFlight, Slots
  <2> QED
    BY <1>2, <2>1, <2>2
<1>6. ASSUME NEW k \in 0..(Waiting' - 1) PROVE fifo'[Slot(k)'] = got' + 1 + k
  BY <1>1, <1>2, <1>5 DEF Slot
<1>7. fifo_rdptr' # fifo_wrptr'
  BY <1>1 DEF Masked, Full
<1>8. sent' = got' + Waiting'
  BY <1>2 DEF InFlight
<1> QED
  BY <1>6, <1>7, <1>8 DEF InFlight

(* The character returned is the first that waits. *)
LEMMA AdvanceKeeps ==
  ASSUME TypeOK, InFlight, GetAdvance
  PROVE  InFlight' /\ got' = got + 1
<1> USE SizeAssumption DEF TypeOK, GetAdvance
<1>1. got' = got + 1 /\ fifo_rdptr # fifo_wrptr
  BY DEF InFlight
<1>2. Waiting' = Waiting - 1 /\ Waiting \in 1..(Size - 1)
  BY <1>1 DEF Waiting, Masked
<1>3. ASSUME NEW k \in 0..(Waiting' - 1)
      PROVE  Slot(k)' = Slot(k + 1) /\ k + 1 \in 0..(Waiting - 1)
  BY <1>2 DEF Slot, Masked
<1>4. ASSUME NEW k \in 0..(Waiting' - 1) PROVE fifo'[Slot(k)'] = got' + 1 + k
  BY <1>1, <1>2, <1>3 DEF InFlight
<1>5. sent' = got' + Waiting'
  BY <1>1, <1>2 DEF InFlight
<1> QED
  BY <1>1, <1>4, <1>5 DEF InFlight

(* A step that leaves the queue alone keeps what is in it. *)
LEMMA SameQueue ==
  ASSUME UNCHANGED <<fifo, fifo_rdptr, fifo_wrptr, sent, got>>, InFlight
  PROVE  /\ (sent = got + Waiting)'
         /\ (\A k \in 0..(Waiting - 1) : fifo[Slot(k)] = got + 1 + k)'
BY DEF InFlight, Waiting, Slot

(* Every step keeps the invariant. *)
LEMMA NextIInv == IInv /\ [Next]_vars => IInv'
<1> SUFFICES ASSUME IInv, [Next]_vars, ~ overrun' PROVE InFlight'
  BY NextType DEF IInv
<1> USE DEF IInv
<1>1. CASE UartInt
  <2>1. ~ overrun /\ ~ Full
    BY <1>1 DEF UartInt
  <2> QED
    BY <1>1, <2>1, PushKeeps
<1>2. CASE ConPeek
  BY <1>2, SameQueue DEF ConPeek, InFlight
<1>3. CASE GetEmpty
  BY <1>3, SameQueue DEF GetEmpty, InFlight
<1>4. CASE GetTest
  BY <1>4, SameQueue DEF GetTest, InFlight
<1>5. CASE GetRead
  <2>1. ~ overrun
    BY <1>5 DEF GetRead
  <2>2. 0 \in 0..(Waiting - 1) /\ Slot(0) = fifo_rdptr
    BY <1>5, <2>1, SizeAssumption DEF GetRead, InFlight, Waiting, Slot, TypeOK
  <2>3. rc' = got + 1
    BY <1>5, <2>1, <2>2 DEF GetRead, InFlight, TypeOK
  <2> QED
    BY <1>5, <2>1, <2>3, SameQueue DEF GetRead, InFlight
<1>6. CASE GetAdvance
  BY <1>6, AdvanceKeeps DEF GetAdvance
<1>7. CASE UNCHANGED vars
  BY <1>7, SameQueue DEF vars, reader, InFlight
<1> QED
  BY <1>1, <1>2, <1>3, <1>4, <1>5, <1>6, <1>7 DEF Next

(* The invariant holds in every state. *)
LEMMA Invariant == Spec => []IInv
BY InitIInv, NextIInv, PTL DEF Spec

(* The variables keep their types. *)
THEOREM Typing == Spec => []TypeOK
<1>1. IInv => TypeOK
  BY DEF IInv
<1> QED
  BY <1>1, Invariant, PTL

(* con_getchar returns every character once and in order until one comes     *)
(* while the queue is full, however the interrupt falls between its steps.   *)
THEOREM ExactReceipt == Spec => Exact
<1>1. IInv /\ [Next]_vars => [GetAdvance /\ ~ overrun => got' = got + 1]_vars
  BY AdvanceKeeps DEF IInv
<1> QED
  BY <1>1, Invariant, PTL DEF Spec, Exact

(* What con_peek has promised, con_getchar finds. *)
THEOREM PeekTrue == Spec => PeekKept
<1>1. IInv /\ [Next]_vars => [GetEmpty /\ promised => overrun]_vars
  BY DEF IInv, InFlight, GetEmpty
<1> QED
  BY <1>1, Invariant, PTL DEF Spec, PeekKept

-----------------------------------------------------------------------------
(* What holds after an overrun too. *)

(* The slots the main program may still read before it finds the queue       *)
(* empty: all of them if the interrupt went round while it was in            *)
(* con_getchar.                                                              *)
Span == IF pc = "idle" \/ fifo_rdptr # fifo_wrptr THEN Waiting ELSE Size

(* They hold ever newer characters, all newer than what was returned.        *)
Rising ==
  /\ got <= sent
  /\ \A k \in 0..(Span - 1) : got < fifo[Slot(k)] /\ fifo[Slot(k)] <= sent
  /\ \A j, k \in 0..(Span - 1) : j < k => fifo[Slot(j)] < fifo[Slot(k)]
  /\ pc = "advance" =>
       /\ got < rc /\ rc <= sent
       /\ \A k \in 1..(Span - 1) : rc < fifo[Slot(k)]

(* The initial queue is empty. *)
LEMMA InitRising == Init => Rising
<1> SUFFICES ASSUME Init PROVE Rising
  OBVIOUS
<1>1. Span = 0
  BY SizeAssumption DEF Init, Span, Waiting
<1> QED
  BY <1>1 DEF Init, Rising

(* The range of the slots. *)
LEMMA SpanRange ==
  ASSUME TypeOK
  PROVE  /\ Span \in 0..Size
         /\ \A k \in 0..(Span - 1) : Slot(k) \in Slots
BY SizeAssumption DEF TypeOK, Span, Waiting, Slot, Slots

(* A new character is the newest, also where it overwrites the oldest.       *)
LEMMA PushRising ==
  ASSUME TypeOK, Rising, UartInt
  PROVE  Rising'
<1> USE SizeAssumption DEF TypeOK
<1>1. CASE fifo_rdptr = fifo_wrptr + 1
  <2>1. UNCHANGED <<fifo, fifo_wrptr, fifo_rdptr, pc, rc, got>> /\ sent' = sent + 1
    BY <1>1 DEF UartInt, UartPush, reader
  <2>2. Span' = Span /\ \A k \in 0..(Span - 1) : Slot(k)' = Slot(k)
    BY <2>1 DEF Span, Waiting, Slot
  <2>3. \A k \in 0..(Span - 1) : fifo[Slot(k)] \in Nat
    BY SpanRange DEF Slots
  <2> QED
    BY <2>1, <2>2, <2>3 DEF Rising, Slot
<1>2. CASE fifo_rdptr # fifo_wrptr + 1
  <2>1. /\ fifo' = [fifo EXCEPT ![fifo_wrptr] = sent + 1]
        /\ fifo_wrptr' = Masked(fifo_wrptr + 1)
        /\ sent' = sent + 1
        /\ UNCHANGED <<fifo_rdptr, pc, rc, got>>
    BY <1>2 DEF UartInt, UartPush, reader
  <2>2. Span' \in 0..Size
    BY <2>1 DEF Span, Waiting, Masked
  <2>3. PICK s \in 0..Size : s = Span'
    BY <2>2
  <2>4. \A k \in 0..(s - 1) : Slot(k)' = Slot(k)
    BY <2>1 DEF Slot
  <2>5. ASSUME NEW k \in 0..(s - 1)
        PROVE  \/ /\ k < s - 1
                  /\ k \in 0..(Span - 1)
                  /\ Slot(k) \in Slots \ {fifo_wrptr}
                  /\ fifo'[Slot(k)] = fifo[Slot(k)]
               \/ k = s - 1 /\ fifo'[Slot(k)] = sent + 1
    <3>1. \/ k < s - 1 /\ k \in 0..(Span - 1) /\ Slot(k) \in Slots \ {fifo_wrptr}
          \/ k = s - 1 /\ Slot(k) = fifo_wrptr
      BY <2>1, <2>3 DEF Span, Waiting, Masked, Slot, Slots
    <3> QED
      BY <2>1, <3>1 DEF Slots
  <2>6. \A k \in 0..(Span - 1) : fifo[Slot(k)] \in Nat
    BY SpanRange, SMTT(30) DEF Slots
  <2>7. \A k \in 0..(s - 1) : got < fifo'[Slot(k)] /\ fifo'[Slot(k)] <= sent + 1
    BY <2>5, <2>6, SMTT(30) DEF Rising
  <2>8. \A j, k \in 0..(s - 1) : j < k => fifo'[Slot(j)] < fifo'[Slot(k)]
    <3> SUFFICES ASSUME NEW j \in 0..(s - 1), NEW k \in 0..(s - 1), j < k
                 PROVE  fifo'[Slot(j)] < fifo'[Slot(k)]
      OBVIOUS
    <3>1. j < s - 1 /\ j \in 0..(Span - 1) /\ fifo'[Slot(j)] = fifo[Slot(j)]
      BY <2>5
    <3>2. fifo[Slot(j)] \in Nat /\ fifo[Slot(j)] <= sent
      BY <2>6, <3>1 DEF Rising
    <3>3. CASE k = s - 1 /\ fifo'[Slot(k)] = sent + 1
      BY <3>1, <3>2, <3>3
    <3>4. CASE k \in 0..(Span - 1) /\ fifo'[Slot(k)] = fifo[Slot(k)]
      BY <3>1, <3>4, Zenon DEF Rising
    <3> QED
      BY <2>5, <3>3, <3>4
  <2>9. pc = "advance" =>
          /\ got < rc /\ rc <= sent + 1
          /\ \A k \in 1..(s - 1) : rc < fifo'[Slot(k)]
    <3> SUFFICES ASSUME pc = "advance"
                 PROVE  /\ got < rc /\ rc <= sent + 1
                        /\ \A k \in 1..(s - 1) : rc < fifo'[Slot(k)]
      OBVIOUS
    <3>1. got < rc /\ rc <= sent
      BY DEF Rising
    <3>2. ASSUME NEW k \in 1..(s - 1) PROVE rc < fifo'[Slot(k)]
      <4>1. k \in 0..(s - 1)
        OBVIOUS
      <4>2. k \in 0..(Span - 1) => rc < fifo[Slot(k)]
        <5>1. k \in 0..(Span - 1) => k \in 1..(Span - 1)
          BY SpanRange
        <5> QED
          BY <5>1 DEF Rising
      <4> QED
        BY <2>5, <3>1, <4>1, <4>2
    <3> QED
      BY <3>1, <3>2
  <2>10. got' <= sent'
    BY <2>1 DEF Rising
  <2> QED
    <3>1. \A k \in 0..(Span' - 1) :
            got' < fifo'[Slot(k)'] /\ fifo'[Slot(k)'] <= sent'
      BY <2>1, <2>3, <2>7, <2>4
    <3>2. \A j, k \in 0..(Span' - 1) : j < k => fifo'[Slot(j)'] < fifo'[Slot(k)']
      BY <2>3, <2>8, <2>4
    <3>3. \A k \in 1..(Span' - 1) : Slot(k)' = Slot(k)
      BY <2>1 DEF Slot
    <3>4. pc' = "advance" =>
            /\ got' < rc' /\ rc' <= sent'
            /\ \A k \in 1..(Span' - 1) : rc' < fifo'[Slot(k)']
      BY <2>1, <2>3, <2>9, <3>3
    <3> QED
      BY <2>10, <3>1, <3>2, <3>4 DEF Rising
<1> QED
  BY <1>1, <1>2

(* The reader moves on to a newer character. *)
LEMMA AdvanceRising ==
  ASSUME TypeOK, Rising, GetAdvance
  PROVE  Rising' /\ got' > got
<1> USE SizeAssumption DEF TypeOK, GetAdvance
<1>1. got < rc /\ rc <= sent /\ \A k \in 1..(Span - 1) : rc < fifo[Slot(k)]
  BY DEF Rising
<1>2. Span' = Span - 1 /\ Span \in 1..Size
  BY DEF Span, Waiting, Masked
<1>3. ASSUME NEW k \in 0..(Span' - 1)
      PROVE  Slot(k)' = Slot(k + 1) /\ k + 1 \in 1..(Span - 1)
  BY <1>2 DEF Slot, Masked
<1>4. \A k \in 0..(Span' - 1) : got' < fifo'[Slot(k)'] /\ fifo'[Slot(k)'] <= sent'
  BY <1>1, <1>2, <1>3 DEF Rising
<1>5. \A j, k \in 0..(Span' - 1) : j < k => fifo'[Slot(j)'] < fifo'[Slot(k)']
  <2> SUFFICES ASSUME NEW j \in 0..(Span' - 1), NEW k \in 0..(Span' - 1), j < k
               PROVE  fifo'[Slot(j)'] < fifo'[Slot(k)']
    OBVIOUS
  <2>1. j + 1 \in 0..(Span - 1) /\ k + 1 \in 0..(Span - 1) /\ j + 1 < k + 1
    BY <1>2
  <2> QED
    BY <1>3, <2>1 DEF Rising
<1>6. got' <= sent' /\ got' > got /\ pc' # "advance"
  BY <1>1
<1> QED
  BY <1>4, <1>5, <1>6 DEF Rising

(* Every step keeps Rising. *)
LEMMA NextRising == TypeOK /\ Rising /\ [Next]_vars => Rising'
<1> SUFFICES ASSUME TypeOK, Rising, [Next]_vars PROVE Rising'
  OBVIOUS
<1>1. CASE UartInt
  BY <1>1, PushRising
<1>2. CASE ConPeek
  BY <1>2 DEF ConPeek, Rising, Span, Waiting, Slot
<1>3. CASE GetEmpty
  BY <1>3 DEF GetEmpty, Rising, Span, Waiting, Slot
<1>4. CASE GetTest
  <2>1. Span' = Span /\ pc' # "advance"
    BY <1>4 DEF GetTest, Span, Waiting
  <2> QED
    BY <1>4, <2>1 DEF GetTest, Rising, Slot
<1>5. CASE GetRead
  <2>1. Span' = Span /\ Span \in 1..Size /\ Slot(0) = fifo_rdptr
    BY <1>5, SizeAssumption DEF GetRead, Span, Waiting, Slot, TypeOK
  <2>2. rc' = fifo[Slot(0)] /\ 0 \in 0..(Span - 1)
    BY <1>5, <2>1 DEF GetRead
  <2>3. got < rc' /\ rc' <= sent
    BY <2>2 DEF Rising
  <2>4. \A k \in 1..(Span - 1) : k \in 0..(Span - 1) /\ 0 < k
    BY <2>1
  <2>5. \A k \in 1..(Span - 1) : rc' < fifo[Slot(k)]
    BY <2>2, <2>4 DEF Rising
  <2> QED
    BY <1>5, <2>1, <2>3, <2>5 DEF GetRead, Rising, Slot
<1>6. CASE GetAdvance
  BY <1>6, AdvanceRising
<1>7. CASE UNCHANGED vars
  BY <1>7 DEF vars, reader, Rising, Span, Waiting, Slot
<1> QED
  BY <1>1, <1>2, <1>3, <1>4, <1>5, <1>6, <1>7 DEF Next

(* However often the queue overruns, what con_getchar returns is always      *)
(* newer than what it returned before.                                       *)
THEOREM InOrderReceipt == Spec => InOrder
<1>1. Spec => []Rising
  BY InitRising, NextRising, Typing, PTL DEF Spec
<1>2. TypeOK /\ Rising /\ [Next]_vars => [GetAdvance => got' > got]_vars
  BY AdvanceRising
<1> QED
  BY <1>1, <1>2, Typing, PTL DEF Spec, InOrder

-----------------------------------------------------------------------------
(* The samples of a character: by uart_rx, and by uart_tx with the start bit. *)
Read(c, k) == [i \in 1..k |-> c[i]]
Samples(c, k) == [i \in 1..k |-> IF i = 1 THEN 0 ELSE c[i - 1]]

(* Numbers, flags and places in their ranges. *)
Marks ==
  /\ pos \in 0..Line!FrameEnd /\ ch \in Line!Chars
  /\ line_pc \in {"idle", "tx", "stop", "rest", "last", "poll"}
  /\ n \in 0..Line!DataEnd - 1 /\ tx_age \in 0..Line!FrameEnd
  /\ r20 \in 0..4 /\ char \in Line!Chars /\ out \in {0, 1}
  /\ rx \in {"no", "interrupt", "poll"} /\ m \in 0..Line!DataEnd
  /\ pcie \in BOOLEAN /\ pcif \in BOOLEAN /\ disturbed \in BOOLEAN

(* The bits sampled so far, and the characters owed. *)
Strings ==
  /\ r21 \in Seq({0, 1}) /\ Len(r21) <= Bits + 1
  /\ bits \in Seq({0, 1}) /\ Len(bits) <= Bits
  /\ owed \in Seq(Line!Chars) /\ Len(owed) <= 2

Ranges == Marks /\ Strings

(* The interrupt is on while neither uart_tx nor uart_rx runs.               *)
Control ==
  /\ rx # "no" => ~ pcie /\ line_pc \in {"idle", "poll"}
  /\ rx = "no" /\ line_pc \in {"idle", "poll"} => pcie
  /\ line_pc \in {"tx", "rest", "stop", "last"} => ~ pcie

(* The number of samples follows from the time. *)
Counts ==
  /\ rx # "no" => IF m = 0 THEN Len(bits) = 0
                  ELSE 4 * Len(bits) < m /\ m <= 4 * Len(bits) + 4
  /\ line_pc = "tx" => IF r20 = 0 THEN r21 = <<>>
                       ELSE Len(r21) >= 1 /\ 4 * (Len(r21) - 1) + r20 <= n
  /\ line_pc = "rest" => /\ r20 # 0 /\ n \in 0..3 /\ Len(r21) >= 1
                         /\ n < r20 => Len(r21) <= Bits
  /\ line_pc \in {"stop", "last"} => n \in 0..4
  /\ line_pc = "stop" => r20 = 0 /\ r21 = <<>>
  /\ line_pc = "last" => r20 # 0

(* How long the character has been under way. *)
Frame ==
  /\ line_pc = "tx" => tx_age = n
  /\ line_pc = "stop" => tx_age = Line!DataEnd + n
  /\ line_pc \in {"rest", "last"} => tx_age >= Line!DataEnd + n
  /\ line_pc \in {"idle", "poll"} => tx_age = Line!FrameEnd

(* The line at rest, and a character begun and not yet received.             *)
Resting == pos >= Line!DataEnd /\ owed = <<>>
Begun == owed = <<ch>>

(* uart_rx has run for m quarters, and began in the start bit. *)
Receiving ==
  rx # "no" => Begun /\ m <= pos /\ pos <= m + 3 /\ bits = Read(ch, Len(bits))

(* Nobody runs: the edge of a start bit has just come, or nothing is owed, or *)
(* con_putchar is about to look at the pin in the start bit.                  *)
LineWaiting ==
  rx = "no" /\ line_pc \in {"idle", "poll"} =>
    IF pcif THEN pos = 0 /\ Begun ELSE Resting \/ (line_pc = "poll" /\ pos < 4 /\ Begun)

(* uart_tx has seen no start bit before: there is none yet, or it has just begun. *)
Looking == line_pc = "tx" /\ r20 = 0 => Resting \/ (pos = 0 /\ Begun)

(* uart_tx found the start bit: the last sample tells where the terminal is. *)
Sampling ==
  (line_pc = "tx" /\ r20 # 0) \/ line_pc = "rest" =>
    /\ Begun /\ r21 = Samples(ch, Len(r21))
    /\ pos = 4 * (Len(r21) - 1) + 1 + ((n - r20) % 4)

(* In the stop bit a character may begin, after the blind quarter.            *)
Stopping == line_pc = "stop" => Resting \/ (pos < n /\ pos < 4 /\ Begun)

(* uart_tx has a whole character; at the very end the next one may begin.     *)
Finishing ==
  line_pc = "last" =>
         /\ owed # <<>> /\ r21 = Samples(Head(owed), Bits + 1)
         /\ \/ Begun /\ pos = 4 * Bits + 1 + (4 - r20) + n
            \/ n = 4 /\ pos = 0 /\ owed = <<Head(owed), ch>>

Duplex == Receiving /\ LineWaiting /\ Looking /\ Sampling /\ Stopping /\ Finishing

LineInv ==
  /\ Ranges /\ Control /\ Counts /\ Frame
  /\ disturbed => owed = <<>>
  /\ ~ disturbed => Duplex

-----------------------------------------------------------------------------
(* The lengths in quarters. *)
LEMMA BitsNat ==
  ASSUME Line!BitsAssumption
  PROVE  Bits \in Nat /\ Bits >= 1 /\ Line!DataEnd = 4 * Bits + 4 /\ Line!FrameEnd = 4 * Bits + 8
BY DEF Line!BitsAssumption, Line!DataEnd, Line!FrameEnd

(* A frame: four quarters of start bit, four of each data bit, and the stop bit. *)
LEMMA Levels ==
  ASSUME Line!BitsAssumption, NEW c \in Line!Chars, NEW q \in Nat
  PROVE  /\ Line!Level(c, q) \in {0, 1}
         /\ q < 4 => Line!Level(c, q) = 0
         /\ q >= Line!DataEnd => Line!Level(c, q) = 1
         /\ \A k \in 1..Bits : 4 * k <= q /\ q <= 4 * k + 3 => Line!Level(c, q) = c[k]
<1>1. 4 <= q /\ q < Line!DataEnd => q \div 4 \in 1..Bits
  BY BitsNat
<1>2. \A k \in 1..Bits : c[k] \in {0, 1}
  BY DEF Line!Chars
<1>3. \A k \in 1..Bits : 4 * k <= q /\ q <= 4 * k + 3 => q \div 4 = k /\ 4 <= q /\ q < Line!DataEnd
  BY BitsNat
<1> QED
  BY <1>1, <1>2, <1>3, BitsNat DEF Line!Level

(* The samples of uart_rx: one more each time, in the end the character. *)
LEMMA ReadFacts ==
  ASSUME Line!BitsAssumption, NEW c \in Line!Chars
  PROVE  /\ \A k \in 0..Bits : Read(c, k) \in Seq({0, 1}) /\ Len(Read(c, k)) = k
         /\ Read(c, 0) = <<>> /\ Read(c, Bits) = c
         /\ \A k \in 0..Bits - 1 : Append(Read(c, k), c[k + 1]) = Read(c, k + 1)
<1>1. c \in [1..Bits -> {0, 1}] /\ Bits \in Nat
  BY BitsNat DEF Line!Chars
<1>2. ASSUME NEW k \in 0..Bits PROVE Read(c, k) \in Seq({0, 1}) /\ Len(Read(c, k)) = k
  <2>1. k \in Nat /\ Read(c, k) \in [1..k -> {0, 1}]
    BY <1>1 DEF Read
  <2> QED
    BY <2>1
<1>3. Read(c, 0) = <<>> /\ Read(c, Bits) = c
  BY <1>1 DEF Read
<1>4. ASSUME NEW k \in 0..Bits - 1 PROVE Append(Read(c, k), c[k + 1]) = Read(c, k + 1)
  <2>1. k \in 0..Bits /\ k + 1 \in 0..Bits /\ k \in Nat
    BY <1>1
  <2>2. Len(Read(c, k)) = k /\ Read(c, k) \in Seq({0, 1})
    BY <1>2, <2>1
  <2>3. /\ Len(Append(Read(c, k), c[k + 1])) = k + 1
        /\ Append(Read(c, k), c[k + 1]) \in Seq({0, 1})
        /\ \A i \in 1..k + 1 : Append(Read(c, k), c[k + 1])[i] = IF i <= k THEN Read(c, k)[i] ELSE c[k + 1]
    BY <1>1, <2>1, <2>2
  <2>4. Len(Read(c, k + 1)) = k + 1 /\ Read(c, k + 1) \in Seq({0, 1})
    BY <1>2, <2>1
  <2>5. \A i \in 1..k + 1 : Append(Read(c, k), c[k + 1])[i] = Read(c, k + 1)[i]
    BY <2>1, <2>3 DEF Read
  <2> QED
    BY <2>3, <2>4, <2>5, SeqEqual
<1> QED
  BY <1>2, <1>3, <1>4

(* The samples of uart_tx: the start bit, one more each time, in the end the  *)
(* character behind the start bit.                                             *)
LEMMA SampleFacts ==
  ASSUME Line!BitsAssumption, NEW c \in Line!Chars
  PROVE  /\ \A k \in 0..Bits + 1 : Samples(c, k) \in Seq({0, 1}) /\ Len(Samples(c, k)) = k
         /\ <<0>> = Samples(c, 1) /\ Tail(Samples(c, Bits + 1)) = c
         /\ \A k \in 1..Bits : Append(Samples(c, k), c[k]) = Samples(c, k + 1)
<1>1. c \in [1..Bits -> {0, 1}] /\ Bits \in Nat
  BY BitsNat DEF Line!Chars
<1>2. ASSUME NEW k \in 0..Bits + 1 PROVE Samples(c, k) \in Seq({0, 1}) /\ Len(Samples(c, k)) = k
  <2>1. k \in Nat /\ Samples(c, k) \in [1..k -> {0, 1}]
    BY <1>1 DEF Samples
  <2> QED
    BY <2>1
<1>3. <<0>> = Samples(c, 1)
  BY DEF Samples
<1>4. Tail(Samples(c, Bits + 1)) = c
  <2>1. Bits + 1 \in 0..Bits + 1 /\ Bits + 1 # 0
    BY <1>1
  <2>2. Samples(c, Bits + 1) \in Seq({0, 1}) /\ Len(Samples(c, Bits + 1)) = Bits + 1
    BY <1>2, <2>1
  <2>3. Tail(Samples(c, Bits + 1)) = [i \in 1..Bits |-> Samples(c, Bits + 1)[i + 1]]
    <3>1. Samples(c, Bits + 1) # <<>>
      BY <1>1, <2>2
    <3>2. /\ Tail(Samples(c, Bits + 1)) \in Seq({0, 1})
          /\ Len(Tail(Samples(c, Bits + 1))) = Bits
          /\ \A i \in 1..Bits : Tail(Samples(c, Bits + 1))[i] = Samples(c, Bits + 1)[i + 1]
      BY <1>1, <2>2, <3>1, HeadTailProperties
    <3> QED
      BY <1>1, <3>2, LenProperties
  <2>4. \A i \in 1..Bits : Samples(c, Bits + 1)[i + 1] = c[i]
    BY <1>1 DEF Samples
  <2> QED
    BY <1>1, <2>3, <2>4
<1>5. ASSUME NEW k \in 1..Bits PROVE Append(Samples(c, k), c[k]) = Samples(c, k + 1)
  <2>1. k \in 0..Bits + 1 /\ k \in Nat /\ k # 0
    BY <1>1
  <2>2. Len(Samples(c, k)) = k /\ Samples(c, k) \in Seq({0, 1})
    BY <1>2, <2>1
  <2>3. /\ Len(Append(Samples(c, k), c[k])) = k + 1
        /\ Append(Samples(c, k), c[k]) \in Seq({0, 1})
        /\ \A i \in 1..k + 1 : Append(Samples(c, k), c[k])[i] = IF i <= k THEN Samples(c, k)[i] ELSE c[k]
    BY <1>1, <2>1, <2>2
  <2>4. Len(Samples(c, k + 1)) = k + 1 /\ Samples(c, k + 1) \in Seq({0, 1})
    <3>1. k + 1 \in 0..Bits + 1
      BY <1>1
    <3> QED
      BY <1>2, <3>1
  <2>5. \A i \in 1..k + 1 : Append(Samples(c, k), c[k])[i] = Samples(c, k + 1)[i]
    BY <2>1, <2>3 DEF Samples
  <2> QED
    BY <2>3, <2>4, <2>5, SeqEqual
<1> QED
  BY <1>2, <1>3, <1>4, <1>5

(* The line is at rest at first. *)
LEMMA LineInit == ASSUME Line!BitsAssumption PROVE Line!Init => LineInv
<1> SUFFICES ASSUME Line!Init PROVE LineInv
  OBVIOUS
<1>1. Ranges
  <2>1. [i \in 1..Bits |-> 1] \in Line!Chars
    BY DEF Line!Chars
  <2>2. /\ r21 \in Seq({0, 1}) /\ bits \in Seq({0, 1}) /\ owed \in Seq(Line!Chars)
        /\ Len(r21) = 0 /\ Len(bits) = 0 /\ Len(owed) = 0
    BY DEF Line!Init
  <2>3. /\ pos \in 0..Line!FrameEnd /\ ch \in Line!Chars
        /\ line_pc \in {"idle", "tx", "stop", "rest", "last", "poll"}
        /\ n \in 0..Line!DataEnd - 1 /\ tx_age \in 0..Line!FrameEnd /\ r20 \in 0..4
        /\ char \in Line!Chars /\ out \in {0, 1} /\ m \in 0..Line!DataEnd
    BY <2>1, BitsNat DEF Line!Init
  <2>4. rx \in {"no", "interrupt", "poll"} /\ pcie \in BOOLEAN /\ pcif \in BOOLEAN /\ disturbed \in BOOLEAN
    BY DEF Line!Init
  <2> QED
    BY <2>2, <2>3, <2>4, BitsNat DEF Ranges, Marks, Strings
<1>2. Control /\ Counts /\ Frame
  BY BitsNat DEF Line!Init, Control, Counts, Frame
<1>3. Duplex
  BY BitsNat DEF Line!Init, Duplex, Receiving, LineWaiting, Looking, Sampling, Stopping, Finishing, Resting
<1> QED
  BY <1>1, <1>2, <1>3 DEF LineInv, Line!Init

(* What one and two owed characters are as sequences. *)
LEMMA One == \A c \in Line!Chars : /\ <<c>> \in Seq(Line!Chars) /\ Len(<<c>>) = 1 /\ Head(<<c>>) = c
                                   /\ Tail(<<c>>) = <<>> /\ <<c>> # <<>>
                                   /\ Append(<<>>, c) = <<c>>
OBVIOUS
LEMMA Two == \A c, d \in Line!Chars : /\ <<c, d>> \in Seq(Line!Chars) /\ Len(<<c, d>>) = 2
                                      /\ Head(<<c, d>>) = c /\ Tail(<<c, d>>) = <<d>>
                                      /\ <<c, d>> # <<>> /\ Append(<<c>>, d) = <<c, d>>
<1> SUFFICES ASSUME NEW c \in Line!Chars, NEW d \in Line!Chars
             PROVE  /\ <<c, d>> \in Seq(Line!Chars) /\ Len(<<c, d>>) = 2
                    /\ Head(<<c, d>>) = c /\ Tail(<<c, d>>) = <<d>>
                    /\ <<c, d>> # <<>> /\ Append(<<c>>, d) = <<c, d>>
  OBVIOUS
<1>1. <<c, d>> \in Seq(Line!Chars) /\ Len(<<c, d>>) = 2
  OBVIOUS
<1>2. Head(<<c, d>>) = c /\ <<c, d>> # <<>>
  OBVIOUS
<1>3. Tail(<<c, d>>) = <<d>>
  OBVIOUS
<1>4. Append(<<c>>, d) = <<c, d>>
  <2>1. /\ Append(<<c>>, d) \in Seq(Line!Chars) /\ Len(Append(<<c>>, d)) = 2
        /\ Append(<<c>>, d)[1] = c /\ Append(<<c>>, d)[2] = d
    OBVIOUS
  <2>2. <<c, d>>[1] = c /\ <<c, d>>[2] = d
    OBVIOUS
  <2>3. \A i \in 1..2 : Append(<<c>>, d)[i] = <<c, d>>[i]
    BY <2>1, <2>2
  <2> QED
    BY <1>1, <2>1, <2>3, SeqEqual
<1> QED
  BY <1>1, <1>2, <1>3, <1>4

(* A character begins: it is the only one owed, or the second when uart_tx has *)
(* just sampled the first, or it comes in the blind quarter.                   *)
LEMMA StartsKeeps == ASSUME Line!BitsAssumption, LineInv, Line!Starts PROVE LineInv'
<1>1. /\ Ranges /\ Control /\ Counts /\ Frame
      /\ disturbed => owed = <<>>
      /\ ~ disturbed => Duplex
  BY DEF LineInv
<1>2. /\ pos = Line!FrameEnd /\ pos' = 0 /\ ch' \in Line!Chars /\ pcif' = TRUE
      /\ disturbed' = (Line!BlindQuarter \/ (disturbed /\ ~ Line!Quiet))
      /\ owed' = IF disturbed' THEN <<>> ELSE Append(owed, ch')
      /\ UNCHANGED <<line_pc, n, r20, r21, char, out, tx_age, rx, m, bits, pcie>>
  BY DEF Line!Starts, Line!Idle, Line!recv, Line!sender, Line!receiver
<1>3. /\ line_pc \in {"idle", "tx", "stop", "rest", "last", "poll"} /\ n \in Nat
      /\ r20 \in 0..4
      /\ r21 \in Seq({0, 1}) /\ Len(r21) \in Nat /\ Len(r21) <= Bits + 1
      /\ m \in 0..Line!DataEnd /\ disturbed \in BOOLEAN /\ ch \in Line!Chars
      /\ rx \in {"no", "interrupt", "poll"} /\ pcif \in BOOLEAN
  BY <1>1, BitsNat DEF Ranges, Marks, Strings
<1>4. disturbed' \in BOOLEAN /\ (~ disturbed' => ~ Line!BlindQuarter /\ (~ disturbed \/ Line!Quiet))
  <2>1. Line!BlindQuarter \in BOOLEAN /\ Line!Quiet \in BOOLEAN
    BY DEF Line!BlindQuarter, Line!Quiet, Line!Idle
  <2> QED
    BY <1>2, <1>3, <2>1, Zenon
<1>5. ASSUME ~ disturbed', owed # <<>> 
      PROVE  /\ line_pc = "last" /\ n = 4 /\ r21 = Samples(ch, Bits + 1) /\ owed = <<ch>>
  <2>1. ~ disturbed
    BY <1>1, <1>4, <1>5
  <2>2. Duplex
    BY <1>1, <2>1
  <2>3. rx = "no"
    BY <1>2, <1>3, <2>2, BitsNat DEF Duplex, Receiving
  <2>4. line_pc \notin {"idle", "poll"}
    BY <1>2, <1>3, <1>5, <2>2, <2>3, BitsNat DEF Duplex, LineWaiting, Resting
  <2>5. ~ (line_pc = "tx" /\ r20 = 0)
    BY <1>2, <1>3, <1>5, <2>2, BitsNat DEF Duplex, Looking, Resting
  <2>6. ~ ((line_pc = "tx" /\ r20 # 0) \/ line_pc = "rest")
    BY <1>1, <1>2, <1>3, <2>2, BitsNat DEF Duplex, Sampling, Counts
  <2>7. line_pc # "stop"
    BY <1>2, <1>3, <1>5, <2>2, BitsNat DEF Duplex, Stopping, Resting
  <2>8. line_pc = "last"
    BY <1>3, <2>4, <2>5, <2>6, <2>7
  <2>9. Begun /\ r21 = Samples(Head(owed), Bits + 1)
        /\ pos = 4 * Bits + 1 + (4 - r20) + n /\ n \in 0..4 /\ r20 # 0
    BY <1>1, <1>2, <2>2, <2>8, BitsNat DEF Duplex, Finishing, Counts
  <2>10. n = 4
    <3>1. pos = Line!FrameEnd /\ r20 \in 1..4
      BY <1>2, <1>3, <2>9
    <3> QED
      BY <2>9, <3>1, BitsNat
  <2>11. Head(owed) = ch
    BY <1>3, <2>9, One DEF Begun
  <2> QED
    BY <2>8, <2>9, <2>10, <2>11 DEF Begun
<1>6. owed' \in Seq(Line!Chars) /\ Len(owed') <= 2 /\ (disturbed' => owed' = <<>>)
  <2>1. CASE disturbed'
    BY <1>2, <2>1
  <2>2. CASE ~ disturbed' /\ owed = <<>>
    BY <1>2, <2>2, One
  <2>3. CASE ~ disturbed' /\ owed # <<>>
    <3>1. owed' = <<ch, ch'>> /\ ch' \in Line!Chars
      <4>1. owed = <<ch>> /\ owed' = Append(owed, ch')
        BY <1>2, <1>5, <2>3
      <4> QED
        BY <1>2, <1>3, <4>1, Two
    <3>2. <<ch, ch'>> \in Seq(Line!Chars) /\ Len(<<ch, ch'>>) = 2
      BY <1>3, <3>1, Two
    <3> QED
      BY <2>3, <3>1, <3>2
  <2> QED
    BY <2>1, <2>2, <2>3
<1>7. Ranges'
  BY <1>1, <1>2, <1>4, <1>6, BitsNat DEF Ranges, Marks, Strings
<1>8. Control' /\ Counts' /\ Frame'
  BY <1>1, <1>2 DEF Control, Counts, Frame
<1>9. ASSUME ~ disturbed', owed = <<>> PROVE Duplex'
  <2>1. Begun'
    BY <1>2, <1>9, One DEF Begun
  <2>2. rx = "no"
    <3>1. CASE disturbed
      BY <1>4, <1>9, <3>1 DEF Line!Quiet
    <3>2. CASE ~ disturbed
      BY <1>1, <1>3, <1>9, <3>2, One DEF Duplex, Receiving, Begun
    <3> QED
      BY <3>1, <3>2
  <2>3. ~ ((line_pc = "tx" /\ r20 # 0) \/ line_pc = "rest") /\ line_pc # "last"
    <3>1. CASE disturbed
      BY <1>4, <1>9, <3>1 DEF Line!Quiet
    <3>2. CASE ~ disturbed
      BY <1>1, <1>3, <1>9, <3>2, One DEF Duplex, Sampling, Finishing, Begun
    <3> QED
      BY <3>1, <3>2
  <2>4. line_pc = "stop" => n > 0
    BY <1>3, <1>4, <1>9 DEF Line!BlindQuarter
  <2>5. Receiving' /\ LineWaiting' /\ Looking'
    BY <1>2, <2>1, <2>2 DEF Receiving, LineWaiting, Looking
  <2>6. Sampling' /\ Stopping' /\ Finishing'
    BY <1>2, <2>1, <2>3, <2>4 DEF Sampling, Stopping, Finishing
  <2> QED
    BY <2>5, <2>6 DEF Duplex
<1>10. ASSUME ~ disturbed', owed # <<>> PROVE Duplex'
  <2>1. line_pc = "last" /\ n = 4 /\ r21 = Samples(ch, Bits + 1) /\ owed = <<ch>>
    BY <1>5, <1>10
  <2>2. owed' = <<ch, ch'>> /\ Head(owed') = ch
    BY <1>2, <1>3, <1>10, <2>1, Two
  <2>3. rx = "no"
    BY <1>1, <1>3, <2>1 DEF Control
  <2>4. Finishing'
    BY <1>2, <1>3, <2>1, <2>2, Two DEF Finishing
  <2> QED
    BY <1>2, <2>1, <2>3, <2>4 DEF Duplex, Receiving, LineWaiting, Looking, Sampling, Stopping
<1> QED
  BY <1>6, <1>7, <1>8, <1>9, <1>10 DEF LineInv

(* The pin-change interrupt runs in the quarter of the edge. *)
LEMMA InterruptKeeps == ASSUME Line!BitsAssumption, LineInv, Line!Interrupt PROVE LineInv'
<1>1. /\ Ranges /\ Control /\ Counts /\ Frame
      /\ disturbed => owed = <<>>
      /\ ~ disturbed => Duplex
  BY DEF LineInv
<1>2. /\ pcie /\ pcif /\ rx = "no" /\ rx' = "interrupt" /\ m' = 0 /\ bits' = <<>>
      /\ pcie' = FALSE
      /\ UNCHANGED <<pos, ch, line_pc, n, r20, r21, char, out, tx_age, pcif, owed, disturbed>>
  BY DEF Line!Interrupt, Line!recv, Line!sender
<1>3. line_pc \in {"idle", "poll"}
  BY <1>1, <1>2 DEF Control, Ranges, Marks, Strings
<1>4. bits' \in Seq({0, 1}) /\ Len(bits') = 0
  BY <1>2
<1>5. Ranges'
  <2>1. Marks'
    <3>1. /\ m' \in 0..Line!DataEnd /\ n' \in 0..Line!DataEnd - 1
          /\ tx_age' \in 0..Line!FrameEnd /\ pos' \in 0..Line!FrameEnd
      BY <1>1, <1>2, BitsNat DEF Ranges, Marks
    <3>2. pcie' \in BOOLEAN /\ pcif' \in BOOLEAN /\ disturbed' \in BOOLEAN
      BY <1>1, <1>2, Zenon DEF Ranges, Marks
    <3> QED
      BY <1>1, <1>2, <3>1, <3>2 DEF Ranges, Marks
  <2>2. Strings'
    BY <1>1, <1>2, <1>4, BitsNat DEF Ranges, Strings
  <2> QED
    BY <2>1, <2>2 DEF Ranges
<1>6. Control' /\ Counts' /\ Frame'
  BY <1>1, <1>2, <1>3, <1>4 DEF Control, Counts, Frame
<1>7. ASSUME ~ disturbed' PROVE Duplex'
  <2>1. pos = 0 /\ Begun
    BY <1>1, <1>2, <1>3, <1>7 DEF Duplex, LineWaiting
  <2>2. bits' = Read(ch, 0) /\ ch \in Line!Chars
    BY <1>1, <1>2, ReadFacts DEF Ranges, Marks, Strings
  <2>3. Receiving'
    BY <1>2, <1>4, <2>1, <2>2 DEF Receiving, Begun
  <2> QED
    BY <1>2, <1>3, <2>3 DEF Duplex, LineWaiting, Looking, Sampling, Stopping, Finishing
<1> QED
  BY <1>1, <1>2, <1>5, <1>6, <1>7 DEF LineInv

(* uart_push takes the first character owed, if any. *)
LEMMA PushType == ASSUME owed \in Seq(Line!Chars), Line!Push
                  PROVE  /\ owed' \in Seq(Line!Chars) /\ Len(owed') <= Len(owed)
                         /\ owed = <<>> => owed' = <<>>
<1>1. CASE owed = <<>>
  BY <1>1 DEF Line!Push
<1>2. CASE owed # <<>>
  <2>1. owed' = Tail(owed)
    BY <1>2 DEF Line!Push
  <2>2. Tail(owed) \in Seq(Line!Chars) /\ Len(Tail(owed)) = Len(owed) - 1 /\ Len(owed) \in Nat
    BY <1>2, HeadTailProperties, LenProperties
  <2> QED
    BY <1>2, <2>1, <2>2
<1> QED
  BY <1>1, <1>2

(* When uart_rx is done, all bits are read. *)
LEMMA AllRead ==
  ASSUME Line!BitsAssumption, LineInv, rx # "no", m = Line!DataEnd
  PROVE  Len(bits) = Bits /\ (~ disturbed => owed = <<ch>> /\ bits = ch /\ pos >= Line!DataEnd)
<1>1. Ranges /\ Counts /\ (~ disturbed => Duplex)
  BY DEF LineInv
<1>2. Len(bits) \in Nat /\ m # 0
  BY <1>1, BitsNat, SMTT(30) DEF Ranges, Marks, Strings
<1>3. Len(bits) = Bits
  BY <1>1, <1>2, BitsNat DEF Counts
<1>4. ASSUME ~ disturbed PROVE owed = <<ch>> /\ bits = ch /\ pos >= Line!DataEnd
  <2>1. Begun /\ m <= pos /\ bits = Read(ch, Len(bits))
    BY <1>1, <1>4 DEF Duplex, Receiving
  <2>2. Read(ch, Bits) = ch
    BY <1>1, ReadFacts DEF Ranges, Marks, Strings
  <2> QED
    BY <1>3, <2>1, <2>2 DEF Begun
<1> QED
  BY <1>3, <1>4

(* uart_rx is done: the character is delivered, and the line is at rest.       *)
LEMMA RxDoneKeeps == ASSUME Line!BitsAssumption, LineInv, Line!RxDone PROVE LineInv'
<1>1. /\ Ranges /\ Control /\ Counts /\ Frame
      /\ disturbed => owed = <<>>
      /\ ~ disturbed => Duplex
  BY DEF LineInv
<1>2. /\ rx # "no" /\ m = Line!DataEnd /\ Line!Push /\ rx' = "no" /\ pcif' = FALSE /\ pcie' = TRUE
      /\ UNCHANGED <<pos, ch, line_pc, n, r20, r21, char, out, tx_age, m, bits, disturbed>>
  BY DEF Line!RxDone, Line!recv, Line!sender
<1>3. line_pc \in {"idle", "poll"}
  BY <1>1, <1>2 DEF Control
<1>4. owed' \in Seq(Line!Chars) /\ Len(owed') <= Len(owed) /\ (owed = <<>> => owed' = <<>>)
      /\ Len(owed') \in Nat /\ Len(owed) \in Nat /\ Len(owed) <= 2
  BY <1>1, <1>2, PushType DEF Ranges, Marks, Strings
<1>5. Ranges'
  <2>1. Len(owed') <= 2
    BY <1>4
  <2> QED
    BY <1>1, <1>2, <1>4, <2>1 DEF Ranges, Marks, Strings
<1>6. Control' /\ Counts' /\ Frame'
  BY <1>1, <1>2, <1>3 DEF Control, Counts, Frame
<1>7. ASSUME ~ disturbed' PROVE Duplex'
  <2>1. owed = <<ch>> /\ pos >= Line!DataEnd /\ ch \in Line!Chars
    BY <1>1, <1>2, <1>7, AllRead DEF Ranges, Marks, Strings
  <2>2. owed' = <<>>
    BY <1>2, <2>1, One DEF Line!Push
  <2>3. LineWaiting'
    BY <1>2, <2>1, <2>2 DEF LineWaiting, Resting
  <2> QED
    BY <1>2, <1>3, <2>3 DEF Duplex, Receiving, Looking, Sampling, Stopping, Finishing
<1> QED
  BY <1>1, <1>2, <1>4, <1>5, <1>6, <1>7 DEF LineInv

(* con_putchar starts on a line at rest. *)
LEMMA PutCallKeeps == ASSUME Line!BitsAssumption, LineInv, Line!PutCall PROVE LineInv'
<1>1. /\ Ranges /\ Control /\ Counts /\ Frame
      /\ disturbed => owed = <<>>
      /\ ~ disturbed => Duplex
  BY DEF LineInv
<1>2. /\ line_pc = "idle" /\ rx = "no" /\ ~ pcif /\ line_pc' = "tx" /\ n' = 0 /\ char' \in Line!Chars
      /\ tx_age' = 0 /\ r20' = 0 /\ r21' = <<>> /\ pcie' = FALSE
      /\ UNCHANGED <<pos, ch, out, rx, m, bits, pcif, owed, disturbed>>
  BY DEF Line!PutCall, Line!receiver
<1>3. r21' \in Seq({0, 1}) /\ Len(r21') = 0
  BY <1>2
<1>4. Ranges'
  <2>1. Marks'
    <3>1. /\ m' \in 0..Line!DataEnd /\ n' \in 0..Line!DataEnd - 1
          /\ tx_age' \in 0..Line!FrameEnd /\ pos' \in 0..Line!FrameEnd
      BY <1>1, <1>2, BitsNat DEF Ranges, Marks
    <3>2. pcie' \in BOOLEAN /\ pcif' \in BOOLEAN /\ disturbed' \in BOOLEAN
      BY <1>1, <1>2, Zenon DEF Ranges, Marks
    <3> QED
      BY <1>1, <1>2, <3>1, <3>2 DEF Ranges, Marks
  <2>2. Strings'
    BY <1>1, <1>2, <1>3, BitsNat DEF Ranges, Strings
  <2> QED
    BY <2>1, <2>2 DEF Ranges
<1>5. Control' /\ Counts' /\ Frame'
  BY <1>2 DEF Control, Counts, Frame
<1>6. ASSUME ~ disturbed' PROVE Duplex'
  <2>1. Resting
    BY <1>1, <1>2, <1>6 DEF Duplex, LineWaiting
  <2>2. Looking'
    BY <1>2, <2>1 DEF Looking, Resting
  <2> QED
    BY <1>2, <2>2 DEF Duplex, Receiving, LineWaiting, Sampling, Stopping, Finishing
<1> QED
  BY <1>1, <1>2, <1>4, <1>5, <1>6 DEF LineInv

(* con_putchar after uart_tx: nothing has come in, or it is delivered, or the   *)
(* next character is in its start bit.                                          *)
LEMMA PutReturnKeeps == ASSUME Line!BitsAssumption, LineInv, Line!PutReturn PROVE LineInv'
<1>1. /\ Ranges /\ Control /\ Counts /\ Frame
      /\ disturbed => owed = <<>>
      /\ ~ disturbed => Duplex
  BY DEF LineInv
<1>2. /\ line_pc \in {"stop", "last"} /\ n = 4 /\ line_pc' = "poll" /\ pcif' = FALSE /\ pcie' = TRUE
      /\ IF line_pc = "last" THEN Line!Push ELSE owed' = owed
      /\ UNCHANGED <<pos, ch, n, r20, r21, char, out, tx_age, rx, m, bits, disturbed>>
  BY DEF Line!PutReturn, Line!recv, Line!sender, Line!receiver
<1>3. rx = "no"
  BY <1>1, <1>2 DEF Control
<1>4. owed' \in Seq(Line!Chars) /\ Len(owed') <= 2 /\ (owed = <<>> => owed' = <<>>)
  <2>1. owed \in Seq(Line!Chars) /\ Len(owed) <= 2 /\ Len(owed) \in Nat
    BY <1>1 DEF Ranges, Marks, Strings
  <2>2. CASE line_pc = "last"
    <3>1. owed' \in Seq(Line!Chars) /\ Len(owed') <= Len(owed) /\ (owed = <<>> => owed' = <<>>)
      BY <1>2, <2>1, <2>2, PushType
    <3>2. Len(owed') \in Nat
      BY <3>1
    <3> QED
      BY <2>1, <3>1, <3>2
  <2>3. CASE line_pc # "last"
    BY <1>2, <2>1, <2>3
  <2> QED
    BY <2>2, <2>3
<1>5. Ranges'
  BY <1>1, <1>2, <1>4 DEF Ranges, Marks, Strings
<1>6. tx_age = Line!FrameEnd
  <2>1. tx_age \in 0..Line!FrameEnd
    BY <1>1 DEF Ranges, Marks, Strings
  <2> QED
    BY <1>1, <1>2, <2>1, BitsNat DEF Frame
<1>7. Control' /\ Counts' /\ Frame'
  BY <1>2, <1>3, <1>6 DEF Control, Counts, Frame
<1>8. ASSUME ~ disturbed' PROVE Resting' \/ (pos < 4 /\ Begun')
  <2>1. CASE line_pc = "stop"
    BY <1>1, <1>2, <1>8, <2>1 DEF Duplex, Stopping, Resting, Begun
  <2>2. CASE line_pc = "last"
    <3>1. /\ owed # <<>> /\ owed' = Tail(owed)
          /\ \/ Begun /\ pos = 4 * Bits + 1 + (4 - r20) + n
             \/ n = 4 /\ pos = 0 /\ owed = <<Head(owed), ch>>
      BY <1>1, <1>2, <1>8, <2>2 DEF Duplex, Finishing, Line!Push
    <3>2. ch \in Line!Chars /\ Head(owed) \in Line!Chars /\ r20 \in 0..4
      BY <1>1, <3>1 DEF Ranges, Marks, Strings
    <3>3. CASE Begun /\ pos = 4 * Bits + 1 + (4 - r20) + n
      <4>1. owed' = <<>>
        BY <3>1, <3>2, <3>3, One DEF Begun
      <4>2. pos >= Line!DataEnd
        BY <1>2, <3>2, <3>3, BitsNat
      <4> QED
        BY <1>2, <4>1, <4>2 DEF Resting
    <3>4. CASE pos = 0 /\ owed = <<Head(owed), ch>>
      <4>1. owed' = <<ch>>
        <5>1. \A h \in Line!Chars : owed = <<h, ch>> => Tail(owed) = <<ch>>
          BY <3>2, Two
        <5> QED
          BY <3>1, <3>2, <3>4, <5>1
      <4> QED
        BY <1>2, <3>4, <4>1 DEF Begun
    <3> QED
      BY <3>1, <3>3, <3>4
  <2> QED
    BY <1>2, <2>1, <2>2
<1>9. ASSUME ~ disturbed' PROVE Duplex'
  <2>1. LineWaiting'
    BY <1>2, <1>8, <1>9 DEF LineWaiting
  <2> QED
    BY <1>2, <1>3, <2>1 DEF Duplex, Receiving, Looking, Sampling, Stopping, Finishing
<1> QED
  BY <1>1, <1>2, <1>4, <1>5, <1>7, <1>9 DEF LineInv

(* The last look at the pin: it finds a start bit that the interrupt missed.    *)
LEMMA PutPollKeeps == ASSUME Line!BitsAssumption, LineInv, Line!PutPoll PROVE LineInv'
<1>1. /\ Ranges /\ Control /\ Counts /\ Frame
      /\ disturbed => owed = <<>>
      /\ ~ disturbed => Duplex
  BY DEF LineInv
<1>2. /\ line_pc = "poll" /\ rx = "no" /\ ~ pcif /\ line_pc' = "idle"
      /\ UNCHANGED <<pos, ch, n, r20, r21, char, out, tx_age, pcif, owed, disturbed>>
  BY DEF Line!PutPoll, Line!recv, Line!sender
<1>3. ch \in Line!Chars /\ pos \in Nat
  BY <1>1, BitsNat DEF Ranges, Marks, Strings
<1>4. (pos < 4 => Line!RxPin(pos) = 0) /\ (pos >= Line!DataEnd => Line!RxPin(pos) = 1)
  BY <1>3, Levels DEF Line!RxPin
<1>5. ~ disturbed' => Resting \/ (pos < 4 /\ Begun)
  BY <1>1, <1>2 DEF Duplex, LineWaiting
<1>6. CASE Line!RxPin(pos) = 0
  <2>1. rx' = "poll" /\ m' = 0 /\ bits' = <<>> /\ pcie' = FALSE
    BY <1>6 DEF Line!PutPoll
  <2>2. bits' \in Seq({0, 1}) /\ Len(bits') = 0 /\ bits' = Read(ch, 0)
    BY <1>3, <2>1, ReadFacts
  <2>3. Ranges'
    <3>1. Marks'
      <4>1. /\ m' \in 0..Line!DataEnd /\ n' \in 0..Line!DataEnd - 1
            /\ tx_age' \in 0..Line!FrameEnd /\ pos' \in 0..Line!FrameEnd
        BY <1>1, <1>2, <2>1, BitsNat DEF Ranges, Marks
      <4>2. pcie' \in BOOLEAN /\ pcif' \in BOOLEAN /\ disturbed' \in BOOLEAN
        BY <1>1, <1>2, <2>1, Zenon DEF Ranges, Marks
      <4> QED
        BY <1>1, <1>2, <2>1, <4>1, <4>2 DEF Ranges, Marks
    <3>2. Strings'
      BY <1>1, <1>2, <2>1, <2>2, BitsNat DEF Ranges, Strings
    <3> QED
      BY <3>1, <3>2 DEF Ranges
  <2>4. Control' /\ Counts' /\ Frame'
    BY <1>1, <1>2, <2>1, <2>2 DEF Control, Counts, Frame
  <2>5. ASSUME ~ disturbed' PROVE Duplex'
    <3>1. pos < 4 /\ Begun
      BY <1>4, <1>5, <1>6, <2>5 DEF Resting
    <3>2. Receiving'
      BY <1>2, <1>3, <2>1, <2>2, <3>1 DEF Receiving, Begun
    <3> QED
      BY <1>2, <2>1, <3>2 DEF Duplex, LineWaiting, Looking, Sampling, Stopping, Finishing
  <2> QED
    BY <1>1, <1>2, <2>3, <2>4, <2>5 DEF LineInv
<1>7. CASE Line!RxPin(pos) # 0
  <2>1. UNCHANGED <<rx, m, bits, pcie>>
    BY <1>7 DEF Line!PutPoll, Line!receiver
  <2>2. Ranges'
    BY <1>1, <1>2, <2>1 DEF Ranges, Marks, Strings
  <2>3. Control' /\ Counts' /\ Frame'
    BY <1>1, <1>2, <2>1 DEF Control, Counts, Frame
  <2>4. ASSUME ~ disturbed' PROVE Duplex'
    <3>1. Resting
      BY <1>4, <1>5, <1>7, <2>4
    <3>2. LineWaiting'
      BY <1>2, <3>1 DEF LineWaiting, Resting
    <3> QED
      BY <1>2, <2>1, <3>2 DEF Duplex, Receiving, Looking, Sampling, Stopping, Finishing
  <2> QED
    BY <1>1, <1>2, <2>2, <2>3, <2>4 DEF LineInv
<1> QED
  BY <1>6, <1>7

(* What all steps of time have in common. *)
LEMMA TimePasses ==
  ASSUME Line!BitsAssumption, LineInv, Line!Tick
  PROVE  /\ ~ Line!Urgent
         /\ pos' = (IF pos = Line!FrameEnd THEN pos ELSE pos + 1) /\ pos' \in 0..Line!FrameEnd
         /\ tx_age' = (IF tx_age = Line!FrameEnd THEN tx_age ELSE tx_age + 1)
         /\ tx_age' \in 0..Line!FrameEnd
         /\ pcif' \in BOOLEAN
         /\ pos \in Nat /\ tx_age \in Nat /\ n \in 0..Line!DataEnd - 1 /\ m \in 0..Line!DataEnd
         /\ r20 \in 0..4 /\ ch \in Line!Chars
         /\ UNCHANGED <<ch, pcie, owed, disturbed>>
<1>1. Marks
  BY DEF LineInv, Ranges
<1>2. pos \in 0..Line!FrameEnd /\ tx_age \in 0..Line!FrameEnd /\ n \in 0..Line!DataEnd - 1 /\ m \in 0..Line!DataEnd
      /\ r20 \in 0..4 /\ ch \in Line!Chars /\ pcif \in BOOLEAN
  BY <1>1 DEF Marks
<1>3. ~ Line!Urgent /\ pos' = Line!Later(pos) /\ tx_age' = Line!Later(tx_age)
      /\ pcif' = (pcif \/ Line!RxPin(pos') # Line!RxPin(pos))
      /\ UNCHANGED <<ch, pcie, owed, disturbed>>
  BY DEF Line!Tick
<1>4. pcif' \in BOOLEAN
  BY <1>2, <1>3
<1>5. pos' = (IF pos = Line!FrameEnd THEN pos ELSE pos + 1) /\ tx_age' = (IF tx_age = Line!FrameEnd THEN tx_age ELSE tx_age + 1)
  BY <1>3 DEF Line!Later
<1>6. pos' \in 0..Line!FrameEnd /\ tx_age' \in 0..Line!FrameEnd
  BY <1>2, <1>5, BitsNat
<1> QED
  BY <1>2, <1>3, <1>4, <1>5, <1>6, BitsNat

(* uart_rx samples every fourth quarter, in the bit it is at. *)
LEMMA ReceiveKeeps == ASSUME Line!BitsAssumption, LineInv, Line!Tick, rx # "no", Line!Receive PROVE LineInv'
<1>1. /\ Ranges /\ Control /\ Counts /\ Frame
      /\ disturbed => owed = <<>>
      /\ ~ disturbed => Duplex
  BY DEF LineInv
<1>2. /\ m' = m + 1
      /\ bits' = IF m % 4 = 0 /\ m > 0 THEN Append(bits, Line!RxPin(pos)) ELSE bits
      /\ UNCHANGED <<line_pc, n, r20, r21, char, out, rx>>
  BY DEF Line!Receive, Line!recv
<1>3. /\ pos' = (IF pos = Line!FrameEnd THEN pos ELSE pos + 1) /\ pos' \in 0..Line!FrameEnd
      /\ tx_age' = (IF tx_age = Line!FrameEnd THEN tx_age ELSE tx_age + 1)
      /\ tx_age' \in 0..Line!FrameEnd
      /\ pcif' \in BOOLEAN /\ pos \in Nat /\ m \in 0..Line!DataEnd /\ ch \in Line!Chars
      /\ UNCHANGED <<ch, pcie, owed, disturbed>>
  BY TimePasses
<1>4. m # Line!DataEnd
  BY TimePasses DEF Line!Urgent
<1>5. line_pc \in {"idle", "poll"}
  BY <1>1 DEF Control
<1>6. bits \in Seq({0, 1}) /\ Len(bits) \in Nat /\ Len(bits) <= Bits /\ Line!RxPin(pos) \in {0, 1}
  BY <1>1, <1>3, Levels DEF Ranges, Strings, Line!RxPin
<1>7. IF m = 0 THEN Len(bits) = 0 ELSE 4 * Len(bits) < m /\ m <= 4 * Len(bits) + 4
  BY <1>1 DEF Counts
<1>8. /\ bits' \in Seq({0, 1}) /\ Len(bits') <= Bits
      /\ 4 * Len(bits') < m' /\ m' <= 4 * Len(bits') + 4 /\ m' # 0
      /\ ~ disturbed /\ Receiving => bits' = Read(ch, Len(bits'))
  <2>1. CASE m % 4 = 0 /\ m > 0
    <3>1. m = 4 * Len(bits) + 4 /\ Len(bits) + 1 <= Bits
      <4>1. m \in Nat /\ Len(bits) \in Nat /\ Bits \in Nat /\ m <= 4 * Bits + 4
        BY <1>3, <1>6, BitsNat
      <4>2. m % 4 = 0 /\ 4 * Len(bits) < m /\ m <= 4 * Len(bits) + 4 /\ m # 4 * Bits + 4
        BY <1>4, <1>7, <2>1, BitsNat
      <4>3. \A a, b, c \in Nat :
              a <= 4 * c + 4 /\ a % 4 = 0 /\ 4 * b < a /\ a <= 4 * b + 4 /\ a # 4 * c + 4
                => a = 4 * b + 4 /\ b + 1 <= c
        OBVIOUS
      <4> QED
        BY <4>1, <4>2, <4>3
    <3>2. bits' = Append(bits, Line!RxPin(pos))
      BY <1>2, <2>1
    <3>3. bits' \in Seq({0, 1}) /\ Len(bits') = Len(bits) + 1
      BY <1>6, <3>2
    <3>4. 4 * Len(bits') < m' /\ m' <= 4 * Len(bits') + 4 /\ Len(bits') <= Bits /\ m' # 0
      BY <1>2, <1>6, <3>1, <3>3
    <3>5. ASSUME ~ disturbed, Receiving PROVE bits' = Read(ch, Len(bits'))
      <4>1. m <= pos /\ pos <= m + 3 /\ bits = Read(ch, Len(bits))
        BY <3>5 DEF Receiving
      <4>2. Line!RxPin(pos) = ch[Len(bits) + 1]
        <5>1. Len(bits) + 1 \in 1..Bits /\ 4 * (Len(bits) + 1) <= pos /\ pos <= 4 * (Len(bits) + 1) + 3
          BY <1>3, <1>6, <3>1, <4>1, BitsNat
        <5> QED
          BY <1>3, <5>1, Levels DEF Line!RxPin
      <4>3. Len(bits) \in 0..Bits - 1
        BY <1>6, <3>1, BitsNat
      <4>4. Append(Read(ch, Len(bits)), ch[Len(bits) + 1]) = Read(ch, Len(bits) + 1)
        BY <1>3, <4>3, ReadFacts
      <4> QED
        BY <3>2, <3>3, <4>1, <4>2, <4>4
    <3> QED
      BY <3>3, <3>4, <3>5
  <2>2. CASE ~ (m % 4 = 0 /\ m > 0)
    <3>1. bits' = bits
      BY <1>2, <2>2
    <3>2. 4 * Len(bits) < m + 1 /\ m + 1 <= 4 * Len(bits) + 4 /\ m + 1 # 0
      BY <1>3, <1>6, <1>7, <2>2
    <3> QED
      BY <1>2, <1>6, <3>1, <3>2 DEF Receiving
  <2> QED
    BY <2>1, <2>2
<1>9. Ranges'
  <2>1. m' \in 0..Line!DataEnd
    <3>1. Line!DataEnd \in Nat
      BY BitsNat
    <3> QED
      BY <1>2, <1>3, <1>4, <3>1, SMTT(30)
  <2>2. pcie' \in BOOLEAN /\ pcif' \in BOOLEAN /\ disturbed' \in BOOLEAN
    BY <1>1, <1>3, Zenon DEF Ranges, Marks
  <2>3. Marks'
    BY <1>1, <1>2, <1>3, <2>1, <2>2 DEF Ranges, Marks
  <2>4. Strings'
    BY <1>1, <1>2, <1>3, <1>8 DEF Ranges, Strings
  <2> QED
    BY <2>3, <2>4 DEF Ranges
<1>10. Control' /\ Counts' /\ Frame'
  <2>1. tx_age' = Line!FrameEnd
    BY <1>1, <1>3, <1>5 DEF Frame
  <2> QED
    BY <1>1, <1>2, <1>3, <1>5, <1>8, <2>1 DEF Control, Counts, Frame
<1>11. ASSUME ~ disturbed' PROVE Duplex'
  <2>1. Receiving /\ Begun /\ m <= pos /\ pos <= m + 3
    BY <1>1, <1>3, <1>11 DEF Duplex, Receiving
  <2>2. m' <= pos' /\ pos' <= m' + 3
    BY <1>2, <1>3, <1>4, <2>1, BitsNat
  <2>3. Receiving'
    BY <1>3, <1>8, <1>11, <2>1, <2>2 DEF Receiving, Begun, Read
  <2> QED
    BY <1>2, <1>5, <2>3 DEF Duplex, LineWaiting, Looking, Sampling, Stopping, Finishing
<1> QED
  BY <1>1, <1>3, <1>9, <1>10, <1>11 DEF LineInv

(* One more quarter of an incoming character that uart_tx has found.         *)
LEMMA SampleKeeps ==
  ASSUME Line!BitsAssumption, Ranges, r20 # 0, n \in 0..Line!DataEnd - 1, r21 # <<>>,
         Begun, r21 = Samples(ch, Len(r21)),
         pos = 4 * (Len(r21) - 1) + 1 + ((n - r20) % 4),
         r20' = r20, r21' = Line!Sampled(Line!Phase), Len(r21') <= Bits + 1,
         pos' = (IF pos = Line!FrameEnd THEN pos ELSE pos + 1)
  PROVE  /\ r21' = Samples(ch, Len(r21'))
         /\ pos' = 4 * (Len(r21') - 1) + 1 + ((n + 1 - r20) % 4)
<1>1. /\ r20 \in 1..4 /\ ch \in Line!Chars /\ r21 \in Seq({0, 1}) /\ Len(r21) \in Nat
      /\ Len(r21) # 0
      /\ Len(r21) <= Bits + 1 /\ pos \in 0..Line!FrameEnd /\ n \in Nat
  BY BitsNat DEF Ranges, Marks, Strings
<1>2. pos < Line!FrameEnd /\ pos' = pos + 1
  <2>1. (n - r20) % 4 \in 0..3
    BY <1>1
  <2> QED
    BY <1>1, <2>1, BitsNat
<1>3. CASE r20 = Line!Phase
  <2>1. (n - r20) % 4 = 3 /\ (n + 1 - r20) % 4 = 0
    BY <1>1, <1>3 DEF Line!Phase
  <2>2. pos = 4 * Len(r21)
    BY <1>1, <2>1
  <2>3. r21' = Append(r21, Line!RxPin(pos + 1))
    BY <1>2, <1>3 DEF Line!Sampled, Line!Later
  <2>4. Line!RxPin(pos + 1) \in {0, 1}
    BY <1>1, Levels DEF Line!RxPin
  <2>5. Len(r21') = Len(r21) + 1
    BY <1>1, <2>3, <2>4
  <2>6. Len(r21) \in 1..Bits
    BY <1>1, <2>5, BitsNat, SMTT(30)
  <2>7. Line!RxPin(pos + 1) = ch[Len(r21)]
    <3>1. pos + 1 \in Nat /\ 4 * Len(r21) <= pos + 1 /\ pos + 1 <= 4 * Len(r21) + 3
      BY <1>1, <2>2
    <3> QED
      BY <1>1, <2>6, <3>1, Levels DEF Line!RxPin
  <2>8. Append(Samples(ch, Len(r21)), ch[Len(r21)]) = Samples(ch, Len(r21) + 1)
    BY <1>1, <2>6, SampleFacts
  <2>9. r21' = Samples(ch, Len(r21'))
    BY <2>3, <2>5, <2>7, <2>8
  <2> QED
    BY <1>1, <1>2, <2>1, <2>2, <2>5, <2>9
<1>4. CASE r20 # Line!Phase
  <2>1. (n + 1 - r20) % 4 = ((n - r20) % 4) + 1
    BY <1>1, <1>4 DEF Line!Phase
  <2>2. r21' = r21
    BY <1>4 DEF Line!Sampled
  <2> QED
    BY <1>1, <1>2, <2>1, <2>2
<1> QED
  BY <1>3, <1>4

(* The number of samples uart_tx has. *)
LEMMA SampleCount ==
  ASSUME Line!BitsAssumption, Ranges, r20' \in 1..4, n \in 0..Line!DataEnd - 1, r20 \in {0, r20'},
         IF r20 = 0 THEN r21 = <<>> /\ r20' = Line!Phase
                    ELSE Len(r21) >= 1 /\ 4 * (Len(r21) - 1) + r20 <= n,
         r21' = Line!Sampled(Line!Phase)
  PROVE  Len(r21') >= 1 /\ 4 * (Len(r21') - 1) + r20' <= n + 1
<1>1. /\ ch \in Line!Chars /\ r21 \in Seq({0, 1}) /\ Len(r21) \in Nat /\ n \in Nat
      /\ pos \in 0..Line!FrameEnd
  BY BitsNat DEF Ranges, Marks, Strings
<1>2. CASE r20' = Line!Phase
  <2>1. Line!RxPin(Line!Later(pos)) \in {0, 1}
    <3>1. Line!Later(pos) \in Nat
      BY <1>1, BitsNat DEF Line!Later
    <3> QED
      BY <1>1, <3>1, Levels DEF Line!RxPin
  <2>2. Len(r21') = Len(r21) + 1
    BY <1>1, <1>2, <2>1 DEF Line!Sampled
  <2>3. CASE r20 = 0
    <3>1. Len(r21) = 0
      BY <2>3
    <3>2. n % 4 <= n /\ r20' = (n % 4) + 1
      BY <1>1, <1>2 DEF Line!Phase
    <3>3. Len(r21') = 1
      BY <2>2, <3>1
    <3>4. r20' <= n + 1
      BY <1>1, <3>2
    <3>5. Len(r21') >= 1 /\ 4 * (Len(r21') - 1) = 0
      BY <3>3
    <3> QED
      BY <3>4, <3>5
  <2>4. CASE r20 # 0
    <3>1. Len(r21) >= 1 /\ 4 * (Len(r21) - 1) + r20' <= n /\ r20' = (n % 4) + 1
      BY <1>2, <2>4 DEF Line!Phase
    <3>2. 4 * Len(r21) + r20' <= n + 1
      BY <1>1, <3>1
    <3> QED
      BY <1>1, <2>2, <3>1, <3>2
  <2> QED
    BY <2>3, <2>4
<1>3. CASE r20' # Line!Phase
  <2>1. r20 = r20' /\ r20 # 0 /\ r21' = r21
    BY <1>3 DEF Line!Sampled
  <2> QED
    BY <1>1, <2>1
<1> QED
  BY <1>2, <1>3

(* What uart_tx samples are bits. *)
LEMMA SampledType ==
  ASSUME Line!BitsAssumption, Ranges PROVE Line!Sampled(Line!Phase) \in Seq({0, 1})
<1>1. r21 \in Seq({0, 1}) /\ ch \in Line!Chars /\ pos \in 0..Line!FrameEnd
  BY DEF Ranges, Marks, Strings
<1>2. Line!RxPin(Line!Later(pos)) \in {0, 1}
  <2>1. Line!Later(pos) \in Nat
    BY <1>1, BitsNat DEF Line!Later
  <2> QED
    BY <1>1, <2>1, Levels DEF Line!RxPin
<1> QED
  BY <1>1, <1>2 DEF Line!Sampled

(* The phase goes round at the end of a bit. *)
LEMMA WholeBits == \A a \in Nat, r \in 0..4 : a % 4 = 3 => (a + 1 - r) % 4 = (0 - r) % 4
OBVIOUS

(* uart_tx and its search for a start bit. *)
LEMMA SendKeeps == ASSUME Line!BitsAssumption, LineInv, Line!Tick, rx = "no", Line!Send PROVE LineInv'
<1>1. /\ Ranges /\ Control /\ Counts /\ Frame
      /\ disturbed => owed = <<>>
      /\ ~ disturbed => Duplex
  BY DEF LineInv
<1>2. /\ line_pc = "tx" /\ out' = Line!Level(char, n) /\ r20' = Line!StartSeen(Line!Phase)
      /\ r21' = Line!Sampled(Line!Phase)
      /\ IF n + 1 < Line!DataEnd
         THEN n' = n + 1 /\ line_pc' = line_pc
         ELSE /\ n' = 0
              /\ line_pc' = IF r20' = 0 THEN "stop" ELSE IF Line!TxDone THEN "last" ELSE "rest"
      /\ UNCHANGED <<char, rx, m, bits>>
  BY DEF Line!Send, Line!receiver
<1>3. /\ pos' = (IF pos = Line!FrameEnd THEN pos ELSE pos + 1) /\ pos' \in 0..Line!FrameEnd
      /\ tx_age' = (IF tx_age = Line!FrameEnd THEN tx_age ELSE tx_age + 1)
      /\ tx_age' \in 0..Line!FrameEnd
      /\ pcif' \in BOOLEAN /\ pos \in Nat /\ n \in 0..Line!DataEnd - 1 /\ r20 \in 0..4
      /\ ch \in Line!Chars
      /\ UNCHANGED <<ch, pcie, owed, disturbed>>
  BY TimePasses
<1>4. Line!Phase \in 1..4
  BY <1>3, BitsNat DEF Line!Phase
<1>5. /\ r20' \in 0..4 /\ (r20 # 0 => r20' = r20)
      /\ r20 = 0 => r20' = IF Line!RxPin(pos) = 0 THEN Line!Phase ELSE 0
  BY <1>2, <1>3, <1>4 DEF Line!StartSeen
<1>6. IF r20 = 0 THEN r21 = <<>> ELSE Len(r21) >= 1 /\ 4 * (Len(r21) - 1) + r20 <= n
  BY <1>1, <1>2 DEF Counts
<1>7. r21' \in Seq({0, 1}) /\ Len(r21') \in Nat
  BY <1>1, <1>2, SampledType
<1>8. r20' # 0 => Len(r21') >= 1 /\ 4 * (Len(r21') - 1) + r20' <= n + 1 /\ Len(r21') <= Bits + 1
  <2>1. r20' # 0 => Len(r21') >= 1 /\ 4 * (Len(r21') - 1) + r20' <= n + 1
    BY <1>1, <1>2, <1>3, <1>5, <1>6, SampleCount, SMTT(30)
  <2> QED
    BY <1>3, <1>5, <1>7, <2>1, BitsNat, SMTT(30)
<1>9. r20' = 0 => r20 = 0 /\ r21' = <<>> /\ Line!RxPin(pos) # 0
  BY <1>2, <1>4, <1>5, <1>6 DEF Line!Sampled
<1>10. /\ line_pc' \in {"tx", "rest", "stop", "last"} /\ n' \in 0..Line!DataEnd - 1
       /\ line_pc' = "tx" => n' = n + 1
       /\ line_pc' # "tx" => n = Line!DataEnd - 1 /\ n' = 0
       /\ line_pc' = "stop" => r20' = 0
       /\ line_pc' \in {"rest", "last"} => r20' # 0
       /\ line_pc' = "last" => Len(r21') = Bits + 1
       /\ line_pc' = "rest" => Len(r21') # Bits + 1
  BY <1>2, <1>3, BitsNat, SMTT(30) DEF Line!TxDone
<1>11. Ranges'
  <2>1. pcie' \in BOOLEAN /\ disturbed' \in BOOLEAN /\ pcif' \in BOOLEAN
    BY <1>1, <1>3, Zenon DEF Ranges, Marks
  <2>2. out' \in {0, 1} /\ char \in Line!Chars
    <3>1. char \in Line!Chars /\ n \in Nat
      BY <1>1, <1>3, BitsNat DEF Ranges, Marks
    <3> QED
      BY <1>2, <3>1, Levels
  <2>3. Marks'
    BY <1>1, <1>2, <1>3, <1>5, <1>10, <2>1, <2>2 DEF Ranges, Marks
  <2>4. Len(r21') <= Bits + 1
    <3>1. r21' = <<>> => Len(r21') = 0
      OBVIOUS
    <3> QED
      BY <1>8, <1>9, <3>1, BitsNat
  <2>5. Strings'
    BY <1>1, <1>2, <1>3, <1>7, <2>4 DEF Ranges, Strings
  <2> QED
    BY <2>3, <2>5 DEF Ranges
<1>12. Control'
  BY <1>1, <1>2, <1>3, <1>10 DEF Control
<1>13. Frame'
  <2>1. tx_age = n /\ tx_age' = n + 1
    BY <1>1, <1>2, <1>3, BitsNat DEF Frame
  <2>2. line_pc' = "tx" => tx_age' = n'
    BY <1>10, <2>1
  <2>3. line_pc' # "tx" => tx_age' = Line!DataEnd + n'
    BY <1>10, <2>1, BitsNat
  <2>4. line_pc' # "tx" => tx_age' >= Line!DataEnd + n'
    BY <1>10, <2>3, BitsNat
  <2> QED
    BY <1>10, <2>2, <2>3, <2>4 DEF Frame
<1>14. Counts'
  <2>1. rx' = "no"
    BY <1>2
  <2>2. CASE line_pc' = "tx"
    BY <1>8, <1>9, <1>10, <2>1, <2>2 DEF Counts
  <2>3. CASE line_pc' = "rest"
    BY <1>5, <1>7, <1>8, <1>10, <2>1, <2>3, BitsNat DEF Counts
  <2>4. CASE line_pc' = "stop"
    BY <1>9, <1>10, <2>1, <2>4 DEF Counts
  <2>5. CASE line_pc' = "last"
    BY <1>10, <2>1, <2>5 DEF Counts
  <2> QED
    BY <1>10, <2>2, <2>3, <2>4, <2>5
<1>15. ASSUME ~ disturbed' PROVE Duplex'
  <2>1. Looking /\ Sampling
    BY <1>1, <1>3, <1>15 DEF Duplex
  <2>2. r20' = 0 => Resting'
    <3>1. (pos = 0 => Line!RxPin(pos) = 0) /\ pos \in Nat
      BY <1>3, Levels DEF Line!RxPin
    <3>2. r20' = 0 => Resting
      BY <1>2, <1>9, <2>1, <3>1 DEF Looking
    <3> QED
      BY <1>3, <3>2, BitsNat DEF Resting
  <2>3. ASSUME r20' # 0
        PROVE  /\ Begun /\ r21' = Samples(ch, Len(r21'))
               /\ pos' = 4 * (Len(r21') - 1) + 1 + ((n + 1 - r20') % 4)
    <3>1. CASE r20 = 0
      <4>1. Line!RxPin(pos) = 0 /\ r20' = Line!Phase
        BY <1>5, <2>3, <3>1
      <4>2. pos = 0 /\ Begun
        <5>1. pos >= Line!DataEnd => Line!RxPin(pos) = 1
          BY <1>3, Levels DEF Line!RxPin
        <5> QED
          BY <1>2, <2>1, <3>1, <4>1, <5>1 DEF Looking, Resting
      <4>3. pos' = 1 /\ Line!RxPin(Line!Later(pos)) = 0
        <5>1. Line!Later(pos) = 1 /\ pos' = 1
          BY <1>3, <4>2, BitsNat DEF Line!Later
        <5> QED
          BY <1>3, <5>1, Levels DEF Line!RxPin
      <4>4. r21' = <<0>>
        BY <1>2, <1>6, <3>1, <4>1, <4>3 DEF Line!Sampled
      <4>5. (n + 1 - r20') % 4 = 0
        BY <1>3, <4>1, BitsNat DEF Line!Phase
      <4>6. Len(r21') = 1 /\ r21' = Samples(ch, 1)
        BY <1>3, <4>4, SampleFacts
      <4> QED
        BY <4>2, <4>3, <4>5, <4>6
    <3>2. CASE r20 # 0
      <4>1. /\ Begun /\ r21 = Samples(ch, Len(r21))
            /\ pos = 4 * (Len(r21) - 1) + 1 + ((n - r20) % 4)
        BY <1>2, <2>1, <3>2 DEF Sampling
      <4>2. r20' = r20 /\ r21 # <<>> /\ Len(r21') <= Bits + 1
        BY <1>5, <1>6, <1>8, <2>3, <3>2
      <4>3. /\ r21' = Samples(ch, Len(r21'))
            /\ pos' = 4 * (Len(r21') - 1) + 1 + ((n + 1 - r20) % 4)
        BY <1>1, <1>2, <1>3, <3>2, <4>1, <4>2, SampleKeeps
      <4> QED
        BY <4>1, <4>2, <4>3
    <3> QED
      BY <3>1, <3>2
  <2>4. (n' - r20') % 4 = (n + 1 - r20') % 4
    <3>1. ASSUME n' = n + 1 PROVE (n' - r20') % 4 = (n + 1 - r20') % 4
      <4>1. n \in Int /\ r20' \in Int
        BY <1>3, <1>5, BitsNat
      <4> QED
        BY <3>1, <4>1
    <3>2. ASSUME n' # n + 1 PROVE (n' - r20') % 4 = (n + 1 - r20') % 4
      <4>1. n' = 0 /\ n = 4 * Bits + 3 /\ n \in Nat
        BY <1>2, <1>3, <3>2, BitsNat
      <4>2. n % 4 = 3
        BY <4>1, BitsNat
      <4>3. (n + 1 - r20') % 4 = (0 - r20') % 4
        BY <1>5, <4>1, <4>2, WholeBits
      <4> QED
        BY <1>5, <4>1, <4>3
    <3> QED
      BY <3>1, <3>2
  <2>5. Sampling'
    <3>1. line_pc' \in {"tx", "rest"} /\ r20' # 0 => Begun' /\ r21' = Samples(ch', Len(r21'))
                  /\ pos' = 4 * (Len(r21') - 1) + 1 + ((n' - r20') % 4)
      BY <1>3, <2>3, <2>4 DEF Begun
    <3> QED
      BY <1>10, <3>1 DEF Sampling, Samples
  <2>6. Finishing'
    <3> SUFFICES ASSUME line_pc' = "last" PROVE Finishing'
      BY DEF Finishing
    <3>1. r20' \in 1..4 /\ n' = 0 /\ Len(r21') = Bits + 1 /\ line_pc' # "tx"
      BY <1>5, <1>10
    <3>2. (n' - r20') % 4 = 4 - r20'
      <4>1. \A r \in 1..4 : (0 - r) % 4 = 4 - r
        OBVIOUS
      <4> QED
        BY <3>1, <4>1
    <3>3. Begun' /\ owed' = <<ch>> /\ owed' # <<>> /\ Head(owed') = ch
      BY <1>3, <2>3, <3>1, One, SMTT(30) DEF Begun
    <3>4. r21' = Samples(ch, Bits + 1) /\ pos' = 4 * Bits + 1 + (4 - r20') + n'
      BY <2>3, <2>4, <3>1, <3>2, BitsNat, SMTT(30)
    <3> QED
      BY <3>3, <3>4 DEF Finishing, Samples
  <2>7. Looking' /\ Stopping'
    BY <1>3, <1>10, <2>2 DEF Looking, Stopping
  <2> QED
    BY <1>2, <1>10, <2>5, <2>6, <2>7 DEF Duplex, Receiving, LineWaiting
<1> QED
  BY <1>1, <1>3, <1>11, <1>12, <1>13, <1>14, <1>15 DEF LineInv

(* A history that stops at the end of a frame does not fall behind. *)
LEMMA AgeGrows == \A d, a, b, x, y \in Nat :
  x >= d + a /\ b <= a + 1 /\ b <= 3 /\ (y = d + 4 \/ y = x + 1) => y >= d + b
OBVIOUS

(* The stop bits while a character still comes in. *)
LEMMA SendRestKeeps == ASSUME Line!BitsAssumption, LineInv, Line!Tick, rx = "no", Line!SendRest PROVE LineInv'
<1>1. /\ Ranges /\ Control /\ Counts /\ Frame
      /\ disturbed => owed = <<>>
      /\ ~ disturbed => Duplex
  BY DEF LineInv
<1>2. /\ line_pc = "rest" /\ out' = 1 /\ r20' = r20 /\ r21' = Line!Sampled(Line!Phase)
      /\ n' = (n + 1) % 4
      /\ line_pc' = IF n < 3 THEN "rest" ELSE IF Line!TxDone THEN "last" ELSE "rest"
      /\ UNCHANGED <<char, rx, m, bits>>
  BY DEF Line!SendRest, Line!receiver
<1>3. /\ pos' = (IF pos = Line!FrameEnd THEN pos ELSE pos + 1) /\ pos' \in 0..Line!FrameEnd
      /\ tx_age' = (IF tx_age = Line!FrameEnd THEN tx_age ELSE tx_age + 1)
      /\ tx_age' \in 0..Line!FrameEnd
      /\ pcif' \in BOOLEAN /\ pos \in Nat /\ n \in 0..Line!DataEnd - 1 /\ r20 \in 0..4
      /\ ch \in Line!Chars
      /\ tx_age \in Nat /\ UNCHANGED <<ch, pcie, owed, disturbed>>
  BY TimePasses
<1>4. r20 \in 1..4 /\ n \in 0..3 /\ Len(r21) >= 1 /\ (n < r20 => Len(r21) <= Bits)
  BY <1>1, <1>2, <1>3 DEF Counts
<1>5. /\ n' \in 0..3 /\ n' \in 0..Line!DataEnd - 1
      /\ n < 3 => n' = n + 1
      /\ n = 3 => n' = 0
  BY <1>2, <1>4, BitsNat
<1>6. /\ r21 \in Seq({0, 1}) /\ Len(r21) \in Nat /\ Len(r21) <= Bits + 1
      /\ r21' \in Seq({0, 1}) /\ Len(r21') \in Nat
  BY <1>1, <1>2, SampledType DEF Ranges, Strings
<1>7. Len(r21') = Len(r21) + (IF r20 = n + 1 THEN 1 ELSE 0)
  <2>1. Line!Phase = n + 1
    BY <1>4 DEF Line!Phase
  <2>2. CASE r20 = n + 1
    <3>1. Line!RxPin(Line!Later(pos)) \in {0, 1}
      <4>1. Line!Later(pos) \in Nat
        BY <1>3, BitsNat DEF Line!Later
      <4> QED
        BY <1>3, <4>1, Levels DEF Line!RxPin
    <3>2. r21' = Append(r21, Line!RxPin(Line!Later(pos)))
      BY <1>2, <2>1, <2>2 DEF Line!Sampled
    <3> QED
      BY <1>6, <2>2, <3>1, <3>2
  <2>3. CASE r20 # n + 1
    BY <1>2, <1>6, <2>1, <2>3 DEF Line!Sampled
  <2> QED
    BY <2>2, <2>3
<1>8. Len(r21') >= 1 /\ Len(r21') <= Bits + 1
  BY <1>4, <1>6, <1>7, BitsNat
<1>9. /\ line_pc' \in {"rest", "last"}
      /\ line_pc' = "last" => n' = 0 /\ Len(r21') = Bits + 1
      /\ line_pc' = "rest" /\ n = 3 => Len(r21') # Bits + 1
  BY <1>2, <1>4, <1>5 DEF Line!TxDone
<1>10. Ranges'
  <2>1. pcie' \in BOOLEAN /\ disturbed' \in BOOLEAN /\ pcif' \in BOOLEAN
    BY <1>1, <1>3, Zenon DEF Ranges, Marks
  <2>2. Marks'
    BY <1>1, <1>2, <1>3, <1>5, <1>9, <2>1 DEF Ranges, Marks
  <2>3. Strings'
    BY <1>1, <1>2, <1>3, <1>6, <1>8 DEF Ranges, Strings
  <2> QED
    BY <2>2, <2>3 DEF Ranges
<1>11. Control'
  BY <1>1, <1>2, <1>3, <1>9 DEF Control
<1>12. Frame'
  <2>1. tx_age >= Line!DataEnd + n
    BY <1>1, <1>2 DEF Frame
  <2>2. tx_age' >= Line!DataEnd + n'
    <3>1. n' <= n + 1 /\ n' <= 3 /\ n' \in Nat
      BY <1>4, <1>5
    <3>2. Line!DataEnd \in Nat /\ Line!FrameEnd = Line!DataEnd + 4
      BY BitsNat
    <3>3. \/ tx_age' = Line!DataEnd + 4
          \/ tx_age' = tx_age + 1
      BY <1>3, <3>2
    <3>4. Line!DataEnd \in Nat /\ n \in Nat /\ tx_age \in Nat /\ tx_age' \in Nat
      BY <1>3, <1>4, <3>2
    <3> QED
      BY <2>1, <3>1, <3>3, <3>4, AgeGrows
  <2> QED
    BY <1>9, <2>2 DEF Frame
<1>13. Counts'
  <2>1. rx' = "no"
    BY <1>2
  <2>2. n' < r20 => Len(r21') <= Bits \/ Len(r21') = Bits + 1
    BY <1>6, <1>8, BitsNat
  <2>3. n' < r20 /\ n < 3 => Len(r21') <= Bits
    BY <1>4, <1>5, <1>7
  <2>4. line_pc' = "rest" => (n' < r20 => Len(r21') <= Bits)
    BY <1>4, <1>9, <2>2, <2>3
  <2> QED
    BY <1>2, <1>4, <1>5, <1>8, <1>9, <2>1, <2>4 DEF Counts
<1>14. ASSUME ~ disturbed' PROVE Duplex'
  <2>1. Begun /\ r21 = Samples(ch, Len(r21)) /\ pos = 4 * (Len(r21) - 1) + 1 + ((n - r20) % 4)
    BY <1>1, <1>2, <1>3, <1>14 DEF Duplex, Sampling
  <2>2. r20 # 0 /\ r21 # <<>>
    BY <1>4
  <2>3. r21' = Samples(ch, Len(r21')) /\ pos' = 4 * (Len(r21') - 1) + 1 + ((n + 1 - r20) % 4)
    BY <1>1, <1>2, <1>3, <1>8, <2>1, <2>2, SampleKeeps
  <2>4. (n' - r20') % 4 = (n + 1 - r20) % 4
    <3>1. n = 3 => (n' - r20) % 4 = (n + 1 - r20) % 4
      <4>1. \A r \in 1..4 : (0 - r) % 4 = (3 + 1 - r) % 4
        OBVIOUS
      <4> QED
        BY <1>4, <1>5, <4>1
    <3>2. n < 3 => (n' - r20) % 4 = (n + 1 - r20) % 4
      BY <1>4, <1>5
    <3> QED
      BY <1>2, <1>4, <3>1, <3>2
  <2>5. Sampling'
    BY <1>3, <2>1, <2>3, <2>4 DEF Sampling, Samples, Begun
  <2>6. Finishing'
    <3> SUFFICES ASSUME line_pc' = "last" PROVE Finishing'
      BY DEF Finishing
    <3>1. r20' \in 1..4 /\ n' = 0 /\ Len(r21') = Bits + 1
      BY <1>2, <1>4, <1>9
    <3>2. (n' - r20') % 4 = 4 - r20'
      <4>1. \A r \in 1..4 : (0 - r) % 4 = 4 - r
        OBVIOUS
      <4> QED
        BY <3>1, <4>1
    <3>3. Begun' /\ owed' = <<ch>> /\ owed' # <<>> /\ Head(owed') = ch
      BY <1>3, <2>1, One DEF Begun
    <3>4. r21' = Samples(ch, Bits + 1) /\ pos' = 4 * Bits + 1 + (4 - r20') + n'
      BY <2>3, <2>4, <3>1, <3>2, BitsNat, SMTT(30)
    <3> QED
      BY <3>3, <3>4 DEF Finishing, Samples
  <2> QED
    BY <1>2, <1>9, <2>5, <2>6 DEF Duplex, Receiving, LineWaiting, Looking, Stopping
<1> QED
  BY <1>1, <1>3, <1>10, <1>11, <1>12, <1>13, <1>14 DEF LineInv

(* The stop bit. *)
LEMMA SendStopKeeps == ASSUME Line!BitsAssumption, LineInv, Line!Tick, rx = "no", Line!SendStop PROVE LineInv'
<1>1. /\ Ranges /\ Control /\ Counts /\ Frame
      /\ disturbed => owed = <<>>
      /\ ~ disturbed => Duplex
  BY DEF LineInv
<1>2. /\ line_pc \in {"stop", "last"} /\ out' = 1 /\ n' = n + 1
      /\ UNCHANGED <<line_pc, r20, r21, char, rx, m, bits>>
  BY DEF Line!SendStop, Line!receiver, Line!recv
<1>3. /\ pos' = (IF pos = Line!FrameEnd THEN pos ELSE pos + 1) /\ pos' \in 0..Line!FrameEnd
      /\ tx_age' = (IF tx_age = Line!FrameEnd THEN tx_age ELSE tx_age + 1)
      /\ tx_age' \in 0..Line!FrameEnd
      /\ pcif' \in BOOLEAN /\ pos \in Nat /\ n \in 0..Line!DataEnd - 1 /\ r20 \in 0..4
      /\ ch \in Line!Chars
      /\ tx_age \in Nat /\ UNCHANGED <<ch, pcie, owed, disturbed>>
  BY TimePasses
<1>4. n \in 0..3 /\ n' \in 1..4 /\ n' \in 0..Line!DataEnd - 1
  <2>1. n \in 0..4
    BY <1>1, <1>2 DEF Counts
  <2>2. n # 4
    BY <1>2, TimePasses DEF Line!Urgent
  <2> QED
    BY <1>2, <2>1, <2>2, BitsNat
<1>5. Ranges'
  <2>1. pcie' \in BOOLEAN /\ disturbed' \in BOOLEAN /\ pcif' \in BOOLEAN
    BY <1>1, <1>3, Zenon DEF Ranges, Marks
  <2>2. Marks'
    BY <1>1, <1>2, <1>3, <1>4, <2>1 DEF Ranges, Marks
  <2>3. Strings'
    BY <1>1, <1>2, <1>3 DEF Ranges, Strings
  <2> QED
    BY <2>2, <2>3 DEF Ranges
<1>6. Control' /\ Counts'
  BY <1>1, <1>2, <1>3, <1>4 DEF Control, Counts
<1>7. Frame'
  <2>1. ASSUME line_pc = "stop" PROVE tx_age' = Line!DataEnd + n'
    <3>1. tx_age = Line!DataEnd + n /\ n' = n + 1 /\ Line!DataEnd \in Nat /\ n \in 0..3
      BY <1>1, <1>2, <1>4, <2>1, BitsNat DEF Frame
    <3>2. tx_age # Line!FrameEnd
      BY <3>1, BitsNat
    <3>3. tx_age' = tx_age + 1
      BY <1>3, <3>2
    <3>4. \A d, a \in Nat : (d + a) + 1 = d + (a + 1)
      OBVIOUS
    <3> QED
      BY <3>1, <3>3, <3>4
  <2>2. line_pc = "last" => tx_age' >= Line!DataEnd + n'
    BY <1>1, <1>2, <1>3, <1>4, BitsNat DEF Frame
  <2> QED
    BY <1>2, <2>1, <2>2 DEF Frame
<1>8. ASSUME ~ disturbed' PROVE Duplex'
  <2>1. Stopping /\ Finishing
    BY <1>1, <1>3, <1>8 DEF Duplex
  <2>2. Stopping'
    BY <1>2, <1>3, <1>4, <2>1, BitsNat DEF Stopping, Resting, Begun
  <2>3. Finishing'
    <3> SUFFICES ASSUME line_pc = "last" PROVE Finishing'
      BY <1>2 DEF Finishing
    <3>1. owed # <<>> /\ r21 = Samples(Head(owed), Bits + 1)
          /\ Begun /\ pos = 4 * Bits + 1 + (4 - r20) + n /\ r20 # 0
      BY <1>1, <1>4, <2>1 DEF Finishing, Counts
    <3>2. n \in 0..3 /\ n' = n + 1 /\ r20 \in 1..4 /\ Bits \in Nat
      BY <1>2, <1>3, <1>4, <3>1, BitsNat
    <3>3. pos' = pos + 1
      <4>1. pos # Line!FrameEnd
        BY <3>1, <3>2, BitsNat
      <4> QED
        BY <1>3, <4>1
    <3>4. pos' = 4 * Bits + 1 + (4 - r20) + n'
      BY <3>1, <3>2, <3>3
    <3> QED
      BY <1>2, <1>3, <3>1, <3>4 DEF Finishing, Begun, Samples
  <2> QED
    BY <1>2, <2>2, <2>3 DEF Duplex, Receiving, LineWaiting, Looking, Sampling
<1> QED
  BY <1>1, <1>3, <1>5, <1>6, <1>7, <1>8 DEF LineInv

(* The line is idle and nobody is busy. *)
LEMMA IdleKeeps ==
  ASSUME Line!BitsAssumption, LineInv, Line!Tick, rx = "no", line_pc = "idle", UNCHANGED <<line_pc, n, Line!recv, char, out, Line!receiver>>
  PROVE  LineInv'
<1>1. /\ Ranges /\ Control /\ Counts /\ Frame
      /\ disturbed => owed = <<>>
      /\ ~ disturbed => Duplex
  BY DEF LineInv
<1>2. UNCHANGED <<line_pc, n, r20, r21, char, out, rx, m, bits>>
  BY DEF Line!receiver, Line!recv
<1>3. /\ pos' = (IF pos = Line!FrameEnd THEN pos ELSE pos + 1) /\ pos' \in 0..Line!FrameEnd
      /\ tx_age' = (IF tx_age = Line!FrameEnd THEN tx_age ELSE tx_age + 1)
      /\ tx_age' \in 0..Line!FrameEnd
      /\ pcif' \in BOOLEAN /\ pos \in Nat /\ n \in 0..Line!DataEnd - 1 /\ r20 \in 0..4
      /\ ch \in Line!Chars
      /\ tx_age \in Nat /\ UNCHANGED <<ch, pcie, owed, disturbed>>
  BY TimePasses
<1>4. Ranges'
  <2>1. pcie' \in BOOLEAN /\ disturbed' \in BOOLEAN /\ pcif' \in BOOLEAN
    BY <1>1, <1>3, Zenon DEF Ranges, Marks
  <2>2. Marks'
    BY <1>1, <1>2, <1>3, <2>1 DEF Ranges, Marks
  <2>3. Strings'
    BY <1>1, <1>2, <1>3 DEF Ranges, Strings
  <2> QED
    BY <2>2, <2>3 DEF Ranges
<1>5. Control' /\ Counts' /\ Frame'
  BY <1>1, <1>2, <1>3 DEF Control, Counts, Frame
<1>6. ASSUME ~ disturbed' PROVE Duplex'
  <2>1. ~ pcif
    BY <1>1, TimePasses DEF Line!Urgent, Control
  <2>2. Resting
    BY <1>1, <1>3, <1>6, <2>1 DEF Duplex, LineWaiting
  <2>3. pos' >= Line!DataEnd /\ Resting'
    <3>1. pos >= Line!DataEnd
      BY <2>2 DEF Resting
    <3>2. pos' >= Line!DataEnd
      BY <1>3, <3>1, BitsNat
    <3> QED
      BY <1>3, <2>2, <3>2 DEF Resting
  <2>4. Line!RxPin(pos') = 1 /\ Line!RxPin(pos) = 1
    <3>1. pos' \in Nat
      BY <1>3, BitsNat
    <3>2. Line!Level(ch, pos) = 1 /\ Line!Level(ch, pos') = 1
      BY <1>3, <2>2, <2>3, <3>1, Levels DEF Resting
    <3> QED
      BY <3>2 DEF Line!RxPin
  <2>5. ~ pcif'
    <3>1. pcif' = (pcif \/ Line!RxPin(pos') # Line!RxPin(pos))
      BY DEF Line!Tick
    <3> QED
      BY <2>1, <2>4, <3>1, Zenon
  <2>6. LineWaiting'
    BY <2>3, <2>5 DEF LineWaiting
  <2> QED
    BY <1>2, <2>6 DEF Duplex, Receiving, Looking, Sampling, Stopping, Finishing
<1> QED
  BY <1>1, <1>3, <1>4, <1>5, <1>6 DEF LineInv

(* Every step keeps the invariant. *)
LEMMA StepKeeps == ASSUME Line!BitsAssumption PROVE LineInv /\ [Line!Next]_(Line!vars) => LineInv'
<1> SUFFICES ASSUME LineInv, [Line!Next]_(Line!vars) PROVE LineInv'
  OBVIOUS
<1>1. CASE Line!Starts
  BY <1>1, StartsKeeps
<1>2. CASE Line!Interrupt
  BY <1>2, InterruptKeeps
<1>3. CASE Line!RxDone
  BY <1>3, RxDoneKeeps
<1>4. CASE Line!PutCall
  BY <1>4, PutCallKeeps
<1>5. CASE Line!PutReturn
  BY <1>5, PutReturnKeeps
<1>6. CASE Line!PutPoll
  BY <1>6, PutPollKeeps
<1>7. CASE Line!Tick
  <2>1. CASE rx # "no" /\ Line!Receive
    BY <1>7, <2>1, ReceiveKeeps
  <2>2. CASE rx = "no" /\ Line!Send
    BY <1>7, <2>2, SendKeeps
  <2>3. CASE rx = "no" /\ Line!SendRest
    BY <1>7, <2>3, SendRestKeeps
  <2>4. CASE rx = "no" /\ Line!SendStop
    BY <1>7, <2>4, SendStopKeeps
  <2>5. CASE rx = "no" /\ line_pc = "idle" /\ UNCHANGED <<line_pc, n, Line!recv, char, out, Line!receiver>>
    BY <1>7, <2>5, IdleKeeps
  <2> QED
    BY <1>7, <2>1, <2>2, <2>3, <2>4, <2>5 DEF Line!Tick
<1>8. CASE UNCHANGED Line!vars
  <2>1. UNCHANGED <<pos, ch, line_pc, n, r20, r21, char, out, tx_age, rx, m, bits, pcie, pcif, owed, disturbed>>
    BY <1>8, SMTT(30) DEF Line!vars, Line!recv, Line!sender, Line!receiver
  <2>2. Ranges' /\ Control' /\ Counts' /\ Frame' /\ (disturbed' => owed' = <<>>)
    BY <2>1 DEF LineInv, Ranges, Marks, Strings, Control, Counts, Frame
  <2>3. ~ disturbed' => Duplex'
    BY <2>1 DEF LineInv, Duplex, Receiving, LineWaiting, Looking, Sampling, Stopping, Finishing,
                Resting, Begun, Read, Samples
  <2> QED
    BY <2>2, <2>3 DEF LineInv
<1> QED
  BY <1>1, <1>2, <1>3, <1>4, <1>5, <1>6, <1>7, <1>8 DEF Line!Next

(* The invariant holds in every state. *)
LEMMA LineInvariant == ASSUME Line!BitsAssumption PROVE Line!Spec => []LineInv
BY LineInit, StepKeeps, PTL DEF Line!Spec

(* A short sequence is a function on one of few domains. *)
LEMMA SequenceType ==
  ASSUME NEW S, NEW s \in Seq(S), NEW k \in Nat, Len(s) <= k
  PROVE  s \in UNION {[1..j -> S] : j \in 0..k}
<1>1. Len(s) \in 0..k /\ s \in [1..Len(s) -> S]
  BY LenProperties
<1> QED
  BY <1>1

(* The sample counts of uart_tx and uart_rx, the quarters and what is owed keep  *)
(* to their ranges (con_avr_uart_asm.S).                                         *)
LEMMA LineTyping == ASSUME Line!BitsAssumption PROVE Line!Spec => []Line!TypeOK
<1>1. LineInv => Line!TypeOK
  <2> SUFFICES ASSUME Marks, Strings PROVE Line!TypeOK
    BY DEF LineInv, Ranges
  <2>1. /\ r21 \in UNION {[1..k -> {0, 1}] : k \in 0..(Bits + 1)}
        /\ bits \in UNION {[1..k -> {0, 1}] : k \in 0..Bits}
        /\ owed \in UNION {[1..k -> Line!Chars] : k \in 0..2}
    <3>1. Bits \in Nat /\ Bits + 1 \in Nat /\ 2 \in Nat
      BY BitsNat
    <3> QED
      BY <3>1, SequenceType DEF Strings
  <2> QED
    BY <2>1 DEF Marks, Line!TypeOK
<1> QED
  BY <1>1, LineInvariant, PTL

(* Whatever comes in, a character goes out as exact bits and a stop bit: in the  *)
(* q-th quarter of its frame the pin has the level of that quarter (uart_tx).    *)
LEMMA FrameExact == ASSUME Line!BitsAssumption PROVE Line!Spec => Line!FramesExact
<1>1. LineInv /\ [Line!Next]_(Line!vars) =>
        [/\ tx_age' # tx_age /\ tx_age' > 0 => out' = Line!Level(char', tx_age)
         /\ Line!PutCall => tx_age = Line!FrameEnd]_(Line!vars)
  <2> SUFFICES ASSUME LineInv, Line!Next
               PROVE  /\ tx_age' # tx_age /\ tx_age' > 0 => out' = Line!Level(char', tx_age)
                      /\ Line!PutCall => tx_age = Line!FrameEnd
    OBVIOUS
  <2>1. Control /\ Counts /\ Frame /\ Ranges
    BY DEF LineInv
  <2>2. Line!PutCall => tx_age = Line!FrameEnd
    BY <2>1 DEF Line!PutCall, Frame
  <2>3. ASSUME tx_age' # tx_age, tx_age' > 0 PROVE out' = Line!Level(char', tx_age)
    <3>1. Line!Tick
      BY <2>3 DEF Line!Next, Line!Starts, Line!Interrupt, Line!RxDone, Line!PutCall, Line!PutReturn, Line!PutPoll, Line!sender
    <3>2. tx_age # Line!FrameEnd /\ tx_age \in Nat /\ n \in 0..Line!DataEnd - 1
      BY <2>3, <3>1, TimePasses
    <3>3. rx = "no" /\ (Line!Send \/ Line!SendRest \/ Line!SendStop)
      BY <2>1, <3>1, <3>2 DEF Line!Tick, Control, Frame
    <3>4. CASE Line!Send
      BY <2>1, <3>4 DEF Line!Send, Frame
    <3>5. CASE Line!SendRest \/ Line!SendStop
      <4>1. out' = 1 /\ char' = char /\ line_pc \in {"rest", "stop", "last"} /\ char \in Line!Chars
        BY <2>1, <3>5 DEF Line!SendRest, Line!SendStop, Ranges, Marks
      <4>2. tx_age >= Line!DataEnd
        BY <2>1, <3>2, <4>1, BitsNat DEF Frame
      <4>3. Line!Level(char, tx_age) = 1
        BY <3>2, <4>1, <4>2, Levels
      <4> QED
        BY <4>1, <4>3
    <3> QED
      BY <3>3, <3>4, <3>5
  <2> QED
    BY <2>2, <2>3
<1> QED
  BY <1>1, LineInvariant, PTL DEF Line!Spec, Line!FramesExact

(* Until a start bit comes in the blind quarter, every character that comes in   *)
(* is delivered as it was sent, once and in order, also while one is sent, and   *)
(* none is left when the line is quiet (con_putchar, uart_tx, uart_rx).          *)
LEMMA DuplexReceipt == ASSUME Line!BitsAssumption PROVE Line!Spec => Line!DuplexExact
<1>1. LineInv /\ [Line!Next]_(Line!vars) =>
        [~ disturbed =>
           /\ Line!RxDone => Line!Taken(bits)
           /\ Line!PutReturn /\ line_pc = "last" => Line!Taken(Tail(r21))
           /\ Line!Starts /\ Line!Quiet => owed = <<>>]_(Line!vars)
  <2> SUFFICES ASSUME LineInv, ~ disturbed
               PROVE  /\ Line!RxDone => Line!Taken(bits)
                      /\ Line!PutReturn /\ line_pc = "last" => Line!Taken(Tail(r21))
                      /\ Line!Starts /\ Line!Quiet => owed = <<>>
    OBVIOUS
  <2>1. Duplex /\ Ranges
    BY DEF LineInv
  <2>2. ASSUME Line!RxDone PROVE Line!Taken(bits)
    <3>1. rx # "no" /\ m = Line!DataEnd
      BY <2>2 DEF Line!RxDone
    <3>2. owed = <<ch>> /\ bits = ch /\ ch \in Line!Chars
      BY <2>1, <3>1, AllRead DEF Ranges, Marks
    <3> QED
      BY <3>2, One DEF Line!Taken
  <2>3. ASSUME line_pc = "last" PROVE Line!Taken(Tail(r21))
    <3>1. owed # <<>> /\ r21 = Samples(Head(owed), Bits + 1)
      BY <2>1, <2>3 DEF Duplex, Finishing
    <3>2. Head(owed) \in Line!Chars
      BY <2>1, <3>1, HeadTailProperties DEF Ranges, Strings
    <3> QED
      BY <3>1, <3>2, SampleFacts DEF Line!Taken
  <2>4. ASSUME Line!Quiet PROVE owed = <<>>
    BY <2>1, <2>4 DEF Duplex, LineWaiting, Resting, Line!Quiet
  <2> QED
    BY <2>2, <2>3, <2>4
<1> QED
  BY <1>1, LineInvariant, PTL DEF Line!Spec, Line!DuplexExact

-----------------------------------------------------------------------------
(* Serial takes the steps of each half. *)
LEMMA QueueSteps == SerialSpec => Spec
<1>1. SerialInit => Init
  BY DEF SerialInit
<1>2. [SerialNext]_<<part, vars, linev>> => [Next]_vars
  BY DEF SerialNext, OnQueue, OnLine
<1> QED
  BY <1>1, <1>2, PTL DEF SerialSpec, Spec

LEMMA LineSteps == SerialSpec => Line!Spec
<1>1. SerialInit => Line!Init
  BY DEF SerialInit
<1>2. [SerialNext]_<<part, vars, linev>> => [Line!Next]_(Line!vars)
  BY DEF SerialNext, OnQueue, OnLine, linev, Line!vars, Line!recv, Line!sender,
     Line!receiver
<1> QED
  BY <1>1, <1>2, PTL DEF SerialSpec, Line!Spec

(* Whichever half runs, the variables of both keep to their ranges (TypeOK   *)
(* of UartQueue and SoftUart).                                               *)
THEOREM SerialTyping == SerialSpec => []SerialTypeOK
BY SerialAssumption, QueueSteps, LineSteps, Typing, LineTyping, PTL DEF SerialTypeOK

(* The queue keeps its promises beside the line. *)
THEOREM QueueKept == SerialSpec => Exact /\ InOrder /\ PeekKept
BY QueueSteps, ExactReceipt, InOrderReceipt, PeekTrue, PTL

(* Whatever comes in, a character goes out as exact bits and a stop bit      *)
(* (uart_tx).                                                                *)
THEOREM FrameKept == SerialSpec => FramesExact
BY SerialAssumption, LineSteps, FrameExact, PTL DEF FramesExact

(* Until a start bit comes in the blind quarter, every character that comes  *)
(* in is delivered as it was sent, once and in order, also while one goes    *)
(* out (con_putchar, uart_tx, uart_rx).                                      *)
THEOREM DuplexKept == SerialSpec => DuplexExact
BY SerialAssumption, LineSteps, DuplexReceipt, PTL DEF DuplexExact
==================================================================================
