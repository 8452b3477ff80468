------------------------- MODULE CdcConsole_proofs --------------------------
(* Proofs about CdcConsole, for rings and packets of every size. *)
EXTENDS CdcConsole, SequenceTheorems, TLAPS

-----------------------------------------------------------------------------
(* Index arithmetic of a ring of n slots. *)

LEMMA ModUnique ==
  ASSUME NEW n \in Nat \ {0}, NEW x \in Int, NEW q \in Int, NEW r \in 0..(n - 1),
         x = q * n + r
  PROVE  x % n = r
BY SMT

LEMMA ModStep ==
  ASSUME NEW n \in Nat \ {0}, NEW a \in 0..(n - 1), NEW k \in 0..n
  PROVE  (a + k) % n = IF a + k < n THEN a + k ELSE a + k - n
BY ModUnique, SMT

LEMMA ModDiff ==
  ASSUME NEW n \in Nat \ {0}, NEW a \in 0..(n - 1), NEW b \in 0..(n - 1)
  PROVE  (a - b) % n = IF a >= b THEN a - b ELSE a - b + n
BY ModUnique, SMT

LEMMA ModRange ==
  ASSUME NEW n \in Nat \ {0}, NEW a \in 0..(n - 1), NEW b \in 0..(n - 1)
  PROVE  (a - b) % n \in 0..(n - 1)
BY ModDiff, SMT

-----------------------------------------------------------------------------
(* The invariant.  Both rings are described slot by slot, from the read      *)
(* index on.  The program counter matters in three places: con_putchar has   *)
(* room from the end of its spin until the index advances, it has stored     *)
(* its character before that, and con_getchar holds the oldest byte.         *)

TxRing ==
  /\ Len(to_host) + TxCount = tx_put
  /\ \A i \in 1..Len(to_host) : to_host[i] = i
  /\ \A i \in 1..TxCount :
       tx_buf[(tx_rd_index + i - 1) % TxSize] = Len(to_host) + i
  /\ pc \in {"store", "advance"} => TxCount < TxSize - 1
  /\ pc = "advance" => tx_buf[tx_wr_index] = tx_put + 1

RxRing ==
  /\ Len(rx_kept) = Len(rx_got) + RxCount
  /\ \A i \in 1..Len(rx_got) : rx_kept[i] = rx_got[i]
  /\ \A i \in 1..RxCount :
       rx_kept[Len(rx_got) + i] = rx_buf[(rx_rd_index + i - 1) % RxSize]
  /\ pc = "take" => RxCount > 0 /\ rc = rx_buf[rx_rd_index]

IInv == TypeOK /\ TxRing /\ RxRing

LEMMA Sizes ==
  /\ TxSize \in Nat \ {0} /\ TxSize >= 2
  /\ RxSize \in Nat \ {0} /\ RxSize >= 2
BY SizesAssumption DEF SizesAssumption

LEMMA TxNextValue ==
  ASSUME NEW i \in 0..(TxSize - 1)
  PROVE  TxNext(i) = IF i + 1 = TxSize THEN 0 ELSE i + 1
<1>1. TxSize \in Nat \ {0} /\ 1 \in 0..TxSize
  BY Sizes
<1>2. (i + 1) % TxSize = IF i + 1 < TxSize THEN i + 1 ELSE i + 1 - TxSize
  BY <1>1, ModStep
<1> QED
  BY <1>1, <1>2 DEF TxNext

LEMMA RxNextValue ==
  ASSUME NEW i \in 0..(RxSize - 1)
  PROVE  RxNext(i) = IF i + 1 = RxSize THEN 0 ELSE i + 1
<1>1. RxSize \in Nat \ {0} /\ 1 \in 0..RxSize
  BY Sizes
<1>2. (i + 1) % RxSize = IF i + 1 < RxSize THEN i + 1 ELSE i + 1 - RxSize
  BY <1>1, ModStep
<1> QED
  BY <1>1, <1>2 DEF RxNext

(* Counts and slots, free of modulus. *)
LEMMA Counts ==
  ASSUME TypeOK
  PROVE  /\ TxCount = IF tx_wr_index >= tx_rd_index THEN tx_wr_index - tx_rd_index
                      ELSE tx_wr_index - tx_rd_index + TxSize
         /\ RxCount = IF rx_wr_index >= rx_rd_index THEN rx_wr_index - rx_rd_index
                      ELSE rx_wr_index - rx_rd_index + RxSize
         /\ TxCount \in 0..(TxSize - 1) /\ RxCount \in 0..(RxSize - 1)
<1>1. TxSize \in Nat \ {0} /\ RxSize \in Nat \ {0}
  BY SizesAssumption DEF SizesAssumption
<1>2. TxCount = IF tx_wr_index >= tx_rd_index THEN tx_wr_index - tx_rd_index
                ELSE tx_wr_index - tx_rd_index + TxSize
  BY <1>1, ModDiff DEF TxCount, TypeOK
<1>3. RxCount = IF rx_wr_index >= rx_rd_index THEN rx_wr_index - rx_rd_index
                ELSE rx_wr_index - rx_rd_index + RxSize
  BY <1>1, ModDiff DEF RxCount, TypeOK
<1> QED
  BY <1>1, <1>2, <1>3 DEF TypeOK

LEMMA TxSlot ==
  ASSUME TypeOK, NEW i \in 1..TxSize
  PROVE  (tx_rd_index + i - 1) % TxSize
           = IF tx_rd_index + i - 1 < TxSize THEN tx_rd_index + i - 1
             ELSE tx_rd_index + i - 1 - TxSize
<1>1. TxSize \in Nat \ {0} /\ tx_rd_index \in 0..(TxSize - 1) /\ i - 1 \in 0..TxSize
  BY SizesAssumption DEF SizesAssumption, TypeOK
<1>2. (tx_rd_index + (i - 1)) % TxSize
        = IF tx_rd_index + (i - 1) < TxSize THEN tx_rd_index + (i - 1)
          ELSE tx_rd_index + (i - 1) - TxSize
  BY <1>1, ModStep
<1>3. tx_rd_index + i - 1 = tx_rd_index + (i - 1)
  BY <1>1
<1> QED
  BY <1>2, <1>3

LEMMA RxSlot ==
  ASSUME TypeOK, NEW i \in 1..RxSize
  PROVE  (rx_rd_index + i - 1) % RxSize
           = IF rx_rd_index + i - 1 < RxSize THEN rx_rd_index + i - 1
             ELSE rx_rd_index + i - 1 - RxSize
<1>1. RxSize \in Nat \ {0} /\ rx_rd_index \in 0..(RxSize - 1) /\ i - 1 \in 0..RxSize
  BY SizesAssumption DEF SizesAssumption, TypeOK
<1>2. (rx_rd_index + (i - 1)) % RxSize
        = IF rx_rd_index + (i - 1) < RxSize THEN rx_rd_index + (i - 1)
          ELSE rx_rd_index + (i - 1) - RxSize
  BY <1>1, ModStep
<1>3. rx_rd_index + i - 1 = rx_rd_index + (i - 1)
  BY <1>1
<1> QED
  BY <1>2, <1>3

-----------------------------------------------------------------------------
LEMMA InitIInv == Init => IInv
<1> SUFFICES ASSUME Init PROVE IInv
  OBVIOUS
<1>1. TypeOK
  <2>1. <<>> \in Seq(Nat)
    OBVIOUS
  <2>2. 0 \in 0..(TxSize - 1) /\ 0 \in 0..(RxSize - 1)
    BY Sizes
  <2> QED
    BY <2>1, <2>2 DEF Init, TypeOK, NoRequest
<1>2. TxCount = 0 /\ RxCount = 0
  BY <1>1, Counts, Sizes DEF Init
<1> QED
  BY <1>1, <1>2 DEF Init, IInv, TxRing, RxRing

(* The steps of con_putchar and con_getchar. *)

LEMMA SpinIInv == IInv /\ PutSpin => IInv'
<1> SUFFICES ASSUME IInv, PutSpin PROVE IInv'
  OBVIOUS
<1>1. TxNext(tx_wr_index) = IF tx_wr_index + 1 = TxSize THEN 0 ELSE tx_wr_index + 1
  BY TxNextValue DEF IInv, TypeOK
<1>2. TxCount < TxSize - 1
  <2>1. TxNext(tx_wr_index) # tx_rd_index
    BY DEF PutSpin
  <2>2. tx_wr_index \in 0..(TxSize - 1) /\ tx_rd_index \in 0..(TxSize - 1)
    BY DEF IInv, TypeOK
  <2>3. TxCount = IF tx_wr_index >= tx_rd_index THEN tx_wr_index - tx_rd_index
                  ELSE tx_wr_index - tx_rd_index + TxSize
    BY Counts DEF IInv
  <2> QED
    BY <1>1, <2>1, <2>2, <2>3, Sizes
<1>3. TypeOK'
  BY DEF IInv, TypeOK, PutSpin, txv, rxv, usb
<1>4. UNCHANGED <<TxCount, RxCount>>
  BY DEF PutSpin, txv, rxv, TxCount, RxCount
<1> QED
  BY <1>2, <1>3, <1>4 DEF IInv, TxRing, RxRing, PutSpin, txv, rxv

LEMMA StoreIInv == IInv /\ PutStore => IInv'
<1> SUFFICES ASSUME IInv, PutStore PROVE IInv'
  OBVIOUS
<1>1. TypeOK'
  BY DEF IInv, TypeOK, PutStore, txv, rxv, usb
<1>2. UNCHANGED <<TxCount, RxCount>>
  BY DEF PutStore, rxv, TxCount, RxCount
<1>3. tx_wr_index \in 0..(TxSize - 1) /\ tx_rd_index \in 0..(TxSize - 1)
      /\ tx_buf \in [0..(TxSize - 1) -> Nat]
  BY DEF IInv, TypeOK
<1>4. ASSUME NEW i \in 1..TxCount
      PROVE  tx_buf'[(tx_rd_index + i - 1) % TxSize] = Len(to_host) + i
  <2>1. TxCount < TxSize - 1 /\ TxCount \in 0..(TxSize - 1)
    BY Counts DEF IInv, TxRing, PutStore
  <2>2. i \in 1..TxSize
    BY <2>1, Sizes
  <2>3. (tx_rd_index + i - 1) % TxSize
          = IF tx_rd_index + i - 1 < TxSize THEN tx_rd_index + i - 1
            ELSE tx_rd_index + i - 1 - TxSize
    BY <2>2, TxSlot DEF IInv
  <2>4. TxCount = IF tx_wr_index >= tx_rd_index THEN tx_wr_index - tx_rd_index
                  ELSE tx_wr_index - tx_rd_index + TxSize
    BY Counts DEF IInv
  <2>5. (tx_rd_index + i - 1) % TxSize # tx_wr_index
        /\ (tx_rd_index + i - 1) % TxSize \in 0..(TxSize - 1)
    BY <1>3, <2>1, <2>2, <2>3, <2>4, Sizes
  <2> QED
    BY <1>3, <2>5 DEF PutStore, IInv, TxRing
<1>5. tx_buf'[tx_wr_index] = tx_put + 1
  BY <1>3 DEF PutStore
<1>6. TxCount < TxSize - 1
  BY DEF IInv, TxRing, PutStore
<1>7. TxRing'
  BY <1>2, <1>4, <1>5, <1>6 DEF IInv, TxRing, PutStore
<1> QED
  BY <1>1, <1>2, <1>7 DEF IInv, RxRing, PutStore, rxv

LEMMA AdvanceIInv == IInv /\ PutAdvance => IInv'
<1> SUFFICES ASSUME IInv, PutAdvance PROVE IInv'
  OBVIOUS
<1>1. tx_wr_index' = IF tx_wr_index + 1 = TxSize THEN 0 ELSE tx_wr_index + 1
  BY TxNextValue DEF IInv, TypeOK, PutAdvance
<1>2. TypeOK'
  <2>1. tx_wr_index' \in 0..(TxSize - 1) /\ tx_put' \in Nat
    BY <1>1, Sizes DEF IInv, TypeOK, PutAdvance
  <2> QED
    BY <2>1 DEF IInv, TypeOK, PutAdvance, rxv, usb
<1>3. TxCount < TxSize - 1 /\ tx_buf[tx_wr_index] = tx_put + 1
  BY DEF IInv, TxRing, PutAdvance
<1>4. /\ tx_wr_index \in 0..(TxSize - 1) /\ tx_rd_index \in 0..(TxSize - 1)
      /\ TxCount = IF tx_wr_index >= tx_rd_index THEN tx_wr_index - tx_rd_index
                   ELSE tx_wr_index - tx_rd_index + TxSize
      /\ TxCount \in 0..(TxSize - 1)
  BY Counts DEF IInv, TypeOK
<1>5. TxCount' = TxCount + 1
  <2>1. TxCount' = IF tx_wr_index' >= tx_rd_index THEN tx_wr_index' - tx_rd_index
                   ELSE tx_wr_index' - tx_rd_index + TxSize
    <3>1. TxSize \in Nat \ {0} /\ tx_wr_index' \in 0..(TxSize - 1)
      BY <1>2, Sizes DEF TypeOK
    <3>2. TxCount' = (tx_wr_index' - tx_rd_index) % TxSize
      BY DEF TxCount, PutAdvance
    <3> QED
      BY <1>4, <3>1, <3>2, ModDiff
  <2> QED
    BY <1>1, <1>3, <1>4, <2>1, Sizes
<1>6. RxCount' = RxCount
  BY DEF PutAdvance, rxv, RxCount
<1>7. Len(to_host) \in Nat /\ Len(to_host) + TxCount = tx_put /\ tx_put \in Nat
  BY DEF IInv, TypeOK, TxRing
<1>8. ASSUME NEW i \in 1..(TxCount + 1)
      PROVE  tx_buf[(tx_rd_index + i - 1) % TxSize] = Len(to_host) + i
  <2>1. CASE i \in 1..TxCount
    BY <2>1 DEF IInv, TxRing
  <2>2. CASE i = TxCount + 1
    <3>1. i \in 1..TxSize
      BY <1>3, <1>4, <2>2, Sizes
    <3>2. (tx_rd_index + i - 1) % TxSize
            = IF tx_rd_index + i - 1 < TxSize THEN tx_rd_index + i - 1
              ELSE tx_rd_index + i - 1 - TxSize
      BY <3>1, TxSlot DEF IInv
    <3>3. (tx_rd_index + i - 1) % TxSize = tx_wr_index
      BY <1>3, <1>4, <2>2, <3>2, Sizes
    <3>4. Len(to_host) + i = tx_put + 1
      BY <1>4, <1>7, <2>2, Sizes
    <3> QED
      BY <1>3, <3>3, <3>4
  <2> QED
    BY <1>4, <2>1, <2>2
<1>9. TxRing'
  <2>1. Len(to_host') + TxCount' = tx_put'
    BY <1>4, <1>5, <1>7, SMTT(30) DEF PutAdvance
  <2> QED
    BY <1>5, <1>8, <2>1 DEF IInv, TxRing, PutAdvance
<1> QED
  BY <1>2, <1>6, <1>9 DEF IInv, RxRing, PutAdvance, rxv
LEMMA GetReadIInv == IInv /\ GetRead => IInv'
<1> SUFFICES ASSUME IInv, GetRead PROVE IInv'
  OBVIOUS
<1>1. TypeOK'
  BY DEF IInv, TypeOK, GetRead, txv, usb
<1>2. UNCHANGED <<TxCount, RxCount>>
  BY DEF GetRead, txv, TxCount, RxCount
<1>3. RxCount > 0
  <2>1. rx_wr_index # rx_rd_index
    BY DEF GetRead
  <2>2. rx_wr_index \in 0..(RxSize - 1) /\ rx_rd_index \in 0..(RxSize - 1)
    BY DEF IInv, TypeOK
  <2>3. RxCount = IF rx_wr_index >= rx_rd_index THEN rx_wr_index - rx_rd_index
                  ELSE rx_wr_index - rx_rd_index + RxSize
    BY Counts DEF IInv
  <2> QED
    BY <2>1, <2>2, <2>3, Sizes
<1>4. TxRing'
  BY <1>2 DEF IInv, TxRing, GetRead, txv
<1>5. RxRing'
  BY <1>2, <1>3 DEF IInv, RxRing, GetRead
<1> QED
  BY <1>1, <1>4, <1>5 DEF IInv

LEMMA GetTakeIInv == IInv /\ GetTake => IInv'
<1> SUFFICES ASSUME IInv, GetTake PROVE IInv'
  OBVIOUS
<1>1. rx_rd_index' = IF rx_rd_index + 1 = RxSize THEN 0 ELSE rx_rd_index + 1
  BY RxNextValue DEF IInv, TypeOK, GetTake
<1>2. RxCount > 0 /\ rc = rx_buf[rx_rd_index]
  BY DEF IInv, RxRing, GetTake
<1>3. /\ rx_wr_index \in 0..(RxSize - 1) /\ rx_rd_index \in 0..(RxSize - 1)
      /\ RxCount = IF rx_wr_index >= rx_rd_index THEN rx_wr_index - rx_rd_index
                   ELSE rx_wr_index - rx_rd_index + RxSize
      /\ RxCount \in 0..(RxSize - 1)
  BY Counts DEF IInv, TypeOK
<1>4. /\ rx_got \in Seq(Nat) /\ rc \in Nat /\ rx_got' = Append(rx_got, rc)
      /\ Len(rx_got) \in Nat /\ Len(rx_got') = Len(rx_got) + 1
      /\ rx_kept' = rx_kept /\ rx_buf' = rx_buf /\ rx_wr_index' = rx_wr_index
  BY DEF IInv, TypeOK, GetTake
<1>5. TypeOK'
  <2>1. rx_rd_index' \in 0..(RxSize - 1) /\ rx_got' \in Seq(Nat)
    BY <1>1, <1>3, <1>4, Sizes
  <2> QED
    BY <2>1 DEF IInv, TypeOK, GetTake, txv, usb
<1>6. TxRing'
  <2>1. TxCount' = TxCount
    BY DEF GetTake, txv, TxCount
  <2> QED
    BY <2>1 DEF IInv, TxRing, GetTake, txv
<1>7. RxCount' = RxCount - 1
  <2>1. RxCount' = IF rx_wr_index >= rx_rd_index' THEN rx_wr_index - rx_rd_index'
                   ELSE rx_wr_index - rx_rd_index' + RxSize
    <3>1. RxSize \in Nat \ {0} /\ rx_rd_index' \in 0..(RxSize - 1)
      BY <1>5, Sizes DEF TypeOK
    <3>2. RxCount' = (rx_wr_index - rx_rd_index') % RxSize
      BY <1>4 DEF RxCount
    <3> QED
      BY <1>3, <3>1, <3>2, ModDiff
  <2> QED
    BY <1>1, <1>2, <1>3, <2>1, Sizes
<1>8. rx_kept[Len(rx_got) + 1] = rc
  <2>1. 1 \in 1..RxCount /\ 1 \in 1..RxSize
    BY <1>2, <1>3, Sizes
  <2>2. rx_kept[Len(rx_got) + 1] = rx_buf[(rx_rd_index + 1 - 1) % RxSize]
    BY <2>1 DEF IInv, RxRing
  <2>3. (rx_rd_index + 1 - 1) % RxSize
          = IF rx_rd_index + 1 - 1 < RxSize THEN rx_rd_index + 1 - 1
            ELSE rx_rd_index + 1 - 1 - RxSize
    BY <2>1, RxSlot DEF IInv
  <2>4. (rx_rd_index + 1 - 1) % RxSize = rx_rd_index
    BY <1>3, <2>3, Sizes
  <2> QED
    BY <1>2, <2>2, <2>4
<1>9. ASSUME NEW i \in 1..Len(rx_got')
      PROVE  rx_kept[i] = rx_got'[i]
  <2>1. CASE i \in 1..Len(rx_got)
    BY <1>4, <2>1 DEF IInv, RxRing
  <2>2. CASE i = Len(rx_got) + 1
    BY <1>4, <1>8, <2>2
  <2> QED
    BY <1>4, <2>1, <2>2
<1>10. ASSUME NEW i \in 1..(RxCount - 1)
       PROVE  rx_kept[Len(rx_got') + i] = rx_buf[(rx_rd_index' + i - 1) % RxSize]
  <2>1. i + 1 \in 1..RxCount /\ i + 1 \in 1..RxSize /\ i \in 1..RxSize /\ i \in Nat
    BY <1>3, Sizes
  <2>2. rx_kept[Len(rx_got) + (i + 1)]
          = rx_buf[(rx_rd_index + (i + 1) - 1) % RxSize]
    BY <2>1 DEF IInv, RxRing
  <2>3. (rx_rd_index + (i + 1) - 1) % RxSize
          = IF rx_rd_index + (i + 1) - 1 < RxSize THEN rx_rd_index + (i + 1) - 1
            ELSE rx_rd_index + (i + 1) - 1 - RxSize
    BY <2>1, RxSlot DEF IInv
  <2>4. (rx_rd_index' + (i - 1)) % RxSize
          = IF rx_rd_index' + (i - 1) < RxSize THEN rx_rd_index' + (i - 1)
            ELSE rx_rd_index' + (i - 1) - RxSize
    <3>1. RxSize \in Nat \ {0} /\ rx_rd_index' \in 0..(RxSize - 1)
          /\ i - 1 \in 0..RxSize
      BY <1>5, <2>1, Sizes DEF TypeOK
    <3> QED
      BY <3>1, ModStep
  <2>5. rx_rd_index' + (i - 1) = rx_rd_index' + i - 1
    BY <1>1, <1>3, <2>1, Sizes
  <2>6. (rx_rd_index + (i + 1) - 1) % RxSize = (rx_rd_index' + i - 1) % RxSize
    BY <1>1, <1>3, <2>1, <2>3, <2>4, <2>5, Sizes
  <2>7. Len(rx_got) + (i + 1) = Len(rx_got') + i
    BY <1>4, <2>1
  <2> QED
    BY <2>2, <2>6, <2>7
<1>11. Len(rx_kept) = Len(rx_got') + RxCount'
  <2>1. Len(rx_kept) = Len(rx_got) + RxCount /\ RxCount \in Nat
    BY <1>3, Sizes DEF IInv, RxRing
  <2> QED
    BY <1>4, <1>7, <2>1
<1>12. pc' = "idle"
  BY DEF GetTake
<1>13. RxRing'
  BY <1>4, <1>7, <1>9, <1>10, <1>11, <1>12 DEF RxRing
<1> QED
  BY <1>5, <1>6, <1>13 DEF IInv

(* A step that touches neither ring. *)
LEMMA QuietIInv ==
  ASSUME IInv, TypeOK', UNCHANGED <<txv, rxv>>,
         pc' = pc \/ pc' \in {"init", "idle", "spin", "arm"}
  PROVE  IInv'
<1>1. UNCHANGED <<TxCount, RxCount>>
  BY DEF txv, rxv, TxCount, RxCount
<1>2. TxRing'
  BY <1>1 DEF IInv, TxRing, txv
<1>3. RxRing'
  BY <1>1 DEF IInv, RxRing, rxv
<1> QED
  BY <1>2, <1>3 DEF IInv

LEMMA OtherMainIInv ==
  IInv /\ (WaitReady \/ PutCall \/ PutArm) => IInv'
<1>1. ASSUME IInv, WaitReady PROVE IInv'
  <2>1. TypeOK'
    BY <1>1 DEF IInv, TypeOK, WaitReady, txv, rxv, usb
  <2> QED
    BY <1>1, <2>1, QuietIInv DEF WaitReady
<1>2. ASSUME IInv, PutCall PROVE IInv'
  <2>1. TypeOK'
    BY <1>2 DEF IInv, TypeOK, PutCall, txv, rxv, usb
  <2> QED
    BY <1>2, <2>1, QuietIInv DEF PutCall
<1>3. ASSUME IInv, PutArm PROVE IInv'
  <2>1. TypeOK'
    BY <1>3 DEF IInv, TypeOK, PutArm, txv, rxv
  <2> QED
    BY <1>3, <2>1, QuietIInv DEF PutArm
<1> QED
  BY <1>1, <1>2, <1>3

LEMMA SoftResetIInv == IInv /\ SoftReset => IInv'
<1> SUFFICES ASSUME IInv, SoftReset PROVE IInv'
  OBVIOUS
<1>1. TypeOK'
  <2>1. <<>> \in Seq(Nat)
    OBVIOUS
  <2>2. 0 \in 0..(TxSize - 1) /\ 0 \in 0..(RxSize - 1)
    BY Sizes
  <2>3. tx_buf' \in [0..(TxSize - 1) -> Nat] /\ rx_buf' \in [0..(RxSize - 1) -> Nat]
    BY DEF SoftReset
  <2> QED
    BY <2>1, <2>2, <2>3 DEF IInv, TypeOK, SoftReset
<1>2. TxCount' = 0 /\ RxCount' = 0
  <2>1. TxCount' = (0 - 0) % TxSize /\ RxCount' = (0 - 0) % RxSize
    BY DEF TxCount, RxCount, SoftReset
  <2>2. 0 \in 0..(TxSize - 1) /\ 0 \in 0..(RxSize - 1)
    BY Sizes
  <2>3. (0 - 0) % TxSize = IF 0 >= 0 THEN 0 - 0 ELSE 0 - 0 + TxSize
    BY <2>2, Sizes, ModDiff
  <2>4. (0 - 0) % RxSize = IF 0 >= 0 THEN 0 - 0 ELSE 0 - 0 + RxSize
    BY <2>2, Sizes, ModDiff
  <2> QED
    BY <2>1, <2>3, <2>4
<1> QED
  BY <1>1, <1>2 DEF SoftReset, IInv, TxRing, RxRing
-----------------------------------------------------------------------------
(* The interrupts and the host. *)

LEMMA RoomValue == TypeOK => RxRoom = RxSize - 1 - RxCount
<1> SUFFICES ASSUME TypeOK PROVE RxRoom = RxSize - 1 - RxCount
  OBVIOUS
<1>1. /\ rx_wr_index \in 0..(RxSize - 1) /\ rx_rd_index \in 0..(RxSize - 1)
      /\ RxCount = IF rx_wr_index >= rx_rd_index THEN rx_wr_index - rx_rd_index
                   ELSE rx_wr_index - rx_rd_index + RxSize
      /\ RxCount \in 0..(RxSize - 1)
  BY Counts DEF TypeOK
<1> DEFINE x == rx_rd_index - rx_wr_index - 1
           r == RxSize - 1 - RxCount
           q == IF rx_wr_index >= rx_rd_index THEN -1 ELSE 0
<1>2. x \in Int /\ r \in 0..(RxSize - 1) /\ q \in Int /\ RxSize \in Nat \ {0}
  BY <1>1, Sizes
<1>3. x = q * RxSize + r
  BY <1>1, Sizes
<1> HIDE DEF x, r, q
<1>4. x % RxSize = r
  BY <1>2, <1>3, ModUnique
<1> QED
  BY <1>4 DEF x, r, RxRoom

LEMMA KeptFits ==
  ASSUME TypeOK
  PROVE  /\ Kept \in Seq(Nat) /\ Len(Kept) \in 0..(RxSize - 1)
         /\ RxCount + Len(Kept) <= RxSize - 1
<1> DEFINE bytes == IF Disposes THEN Tail(out_packet) ELSE out_packet
           n == IF Len(bytes) < RxRoom THEN Len(bytes) ELSE RxRoom
<1>1. RxCount \in 0..(RxSize - 1) /\ RxRoom = RxSize - 1 - RxCount
  BY Counts, RoomValue
<1>2. bytes \in Seq(Nat)
  BY DEF TypeOK, Disposes
<1>3. n \in 0..Len(bytes) /\ n <= RxRoom
  <2>1. RxRoom \in Nat
    BY <1>1, Sizes
  <2> QED
    BY <1>2, <2>1
<1>4. Kept = SubSeq(bytes, 1, n)
  BY DEF Kept
<1> HIDE DEF bytes, n
<1>5. Kept \in Seq(Nat) /\ Len(Kept) = n
  BY <1>2, <1>3, <1>4
<1> QED
  BY <1>1, <1>3, <1>5, Sizes

LEMMA ReceiveRxRing ==
  ASSUME IInv, Receive, UNCHANGED <<rx_rd_index, rx_got, rc, pc>>
  PROVE  /\ rx_buf' \in [0..(RxSize - 1) -> Nat]
         /\ rx_wr_index' \in 0..(RxSize - 1) /\ rx_kept' \in Seq(Nat)
         /\ RxRing'
<1> DEFINE m == Len(Kept)
<1>1. Kept \in Seq(Nat) /\ m \in 0..(RxSize - 1) /\ RxCount + m <= RxSize - 1
  BY KeptFits DEF IInv
<1>2. /\ rx_wr_index \in 0..(RxSize - 1) /\ rx_rd_index \in 0..(RxSize - 1)
      /\ RxCount = IF rx_wr_index >= rx_rd_index THEN rx_wr_index - rx_rd_index
                   ELSE rx_wr_index - rx_rd_index + RxSize
      /\ RxCount \in 0..(RxSize - 1)
  BY Counts DEF IInv, TypeOK
<1>3. rx_wr_index' = IF rx_wr_index + m < RxSize THEN rx_wr_index + m
                     ELSE rx_wr_index + m - RxSize
  <2>1. m \in 0..RxSize /\ RxSize \in Nat \ {0}
    BY <1>1, Sizes
  <2>2. (rx_wr_index + m) % RxSize = IF rx_wr_index + m < RxSize THEN rx_wr_index + m
                                     ELSE rx_wr_index + m - RxSize
    BY <1>2, <2>1, ModStep
  <2> QED
    BY <2>2 DEF Receive
<1>4. rx_wr_index' \in 0..(RxSize - 1)
  BY <1>1, <1>2, <1>3, Sizes
<1>5. RxCount' = RxCount + m
  <2>1. RxCount' = IF rx_wr_index' >= rx_rd_index THEN rx_wr_index' - rx_rd_index
                   ELSE rx_wr_index' - rx_rd_index + RxSize
    <3>1. RxCount' = (rx_wr_index' - rx_rd_index) % RxSize
      BY DEF RxCount
    <3> QED
      BY <1>2, <1>4, <3>1, Sizes, ModDiff
  <2> QED
    BY <1>1, <1>2, <1>3, <2>1, Sizes
<1>6. ASSUME NEW i \in 0..(RxSize - 1)
      PROVE  rx_buf'[i] = IF (IF i >= rx_wr_index THEN i - rx_wr_index
                              ELSE i - rx_wr_index + RxSize) < m
                          THEN Kept[(IF i >= rx_wr_index THEN i - rx_wr_index
                                     ELSE i - rx_wr_index + RxSize) + 1]
                          ELSE rx_buf[i]
  <2>1. (i - rx_wr_index) % RxSize
          = IF i >= rx_wr_index THEN i - rx_wr_index ELSE i - rx_wr_index + RxSize
    BY <1>2, Sizes, ModDiff
  <2>2. rx_buf'[i] = IF (i - rx_wr_index) % RxSize < m
                     THEN Kept[((i - rx_wr_index) % RxSize) + 1] ELSE rx_buf[i]
    BY DEF Receive
  <2> QED
    BY <2>1, <2>2
<1>7. rx_buf' \in [0..(RxSize - 1) -> Nat]
  <2>1. rx_buf' = [i \in 0..(RxSize - 1) |-> rx_buf'[i]]
    BY DEF Receive
  <2>2. ASSUME NEW i \in 0..(RxSize - 1) PROVE rx_buf'[i] \in Nat
    <3> DEFINE d == IF i >= rx_wr_index THEN i - rx_wr_index
                    ELSE i - rx_wr_index + RxSize
    <3>1. d \in Nat
      BY <1>2, Sizes
    <3>2. rx_buf'[i] = IF d < m THEN Kept[d + 1] ELSE rx_buf[i]
      BY <1>6
    <3>3. rx_buf[i] \in Nat
      BY DEF IInv, TypeOK
    <3>4. CASE d < m
      <4>1. d + 1 \in 1..Len(Kept)
        BY <1>1, <3>1, <3>4, Sizes
      <4>2. Kept[d + 1] \in Nat
        BY <1>1, <4>1
      <4> QED
        BY <3>2, <3>4, <4>2
    <3> QED
      BY <3>2, <3>3, <3>4
  <2> QED
    BY <2>1, <2>2
<1>8. /\ rx_kept \in Seq(Nat) /\ rx_got \in Seq(Nat) /\ rx_kept' = rx_kept \o Kept
      /\ Len(rx_kept) = Len(rx_got) + RxCount
  BY DEF IInv, TypeOK, RxRing, Receive
<1>9. rx_kept' \in Seq(Nat) /\ Len(rx_kept') = Len(rx_kept) + m
  <2>1. rx_kept \o Kept \in Seq(Nat) /\ Len(rx_kept \o Kept) = Len(rx_kept) + m
    BY <1>1, <1>8, ConcatProperties
  <2> QED
    BY <1>8, <2>1
<1>10. ASSUME NEW i \in 1..(RxCount + m)
       PROVE  rx_kept'[Len(rx_got) + i] = rx_buf'[(rx_rd_index + i - 1) % RxSize]
  <2> DEFINE s == (rx_rd_index + i - 1) % RxSize
             d == IF s >= rx_wr_index THEN s - rx_wr_index
                  ELSE s - rx_wr_index + RxSize
  <2>1. i \in 1..RxSize
    BY <1>1, <1>2, Sizes
  <2>2. s = IF rx_rd_index + i - 1 < RxSize THEN rx_rd_index + i - 1
            ELSE rx_rd_index + i - 1 - RxSize
    BY <2>1, RxSlot DEF IInv
  <2> HIDE DEF s
  <2>3. s \in 0..(RxSize - 1)
    BY <1>2, <2>1, <2>2, Sizes
  <2>4. rx_buf'[s] = IF d < m THEN Kept[d + 1] ELSE rx_buf[s]
    BY <1>6, <2>3
  <2>5. CASE i <= RxCount
    <3>1. ~ (d < m)
      BY <1>1, <1>2, <2>1, <2>2, <2>3, <2>5, Sizes
    <3>2. rx_buf'[s] = rx_buf[s]
      BY <2>4, <3>1
    <3>3. i \in 1..RxCount
      BY <1>2, <2>1, <2>5, Sizes
    <3>4. rx_kept[Len(rx_got) + i] = rx_buf[s]
      BY <3>3 DEF IInv, RxRing, s
    <3>5. Len(rx_got) + i \in 1..Len(rx_kept)
      BY <1>2, <1>8, <3>3, Sizes
    <3>6. rx_kept'[Len(rx_got) + i] = rx_kept[Len(rx_got) + i]
      BY <1>1, <1>8, <3>5
    <3> QED
      BY <3>2, <3>4, <3>6 DEF s
  <2>6. CASE i > RxCount
    <3>1. d = i - RxCount - 1 /\ d < m
      BY <1>1, <1>2, <2>1, <2>2, <2>3, <2>6, Sizes
    <3>2. d + 1 = i - RxCount
      BY <1>2, <2>1, <3>1, Sizes
    <3>3. rx_buf'[s] = Kept[i - RxCount]
      BY <2>4, <3>1, <3>2
    <3>4. Len(rx_got) + i \in (Len(rx_kept) + 1)..(Len(rx_kept) + m)
          /\ Len(rx_got) + i - Len(rx_kept) = i - RxCount
      BY <1>1, <1>2, <1>8, <2>1, <2>6, Sizes, SMTT(30)
    <3>5. rx_kept'[Len(rx_got) + i] = Kept[Len(rx_got) + i - Len(rx_kept)]
      BY <1>1, <1>8, <3>4, SMTT(30)
    <3> QED
      BY <3>3, <3>4, <3>5 DEF s
  <2> QED
    BY <1>2, <2>1, <2>5, <2>6, Sizes
<1>11. ASSUME NEW i \in 1..Len(rx_got)
       PROVE  rx_kept'[i] = rx_got[i]
  <2>1. rx_kept[i] = rx_got[i]
    BY DEF IInv, RxRing
  <2>2. i \in 1..Len(rx_kept)
    BY <1>2, <1>8, Sizes
  <2> QED
    BY <1>1, <1>8, <2>1, <2>2
<1>12. pc = "take" => RxCount' > 0 /\ rc = rx_buf'[rx_rd_index]
  <2> SUFFICES ASSUME pc = "take" PROVE RxCount' > 0 /\ rc = rx_buf'[rx_rd_index]
    OBVIOUS
  <2>1. RxCount > 0 /\ rc = rx_buf[rx_rd_index]
    BY DEF IInv, RxRing
  <2> DEFINE d == IF rx_rd_index >= rx_wr_index THEN rx_rd_index - rx_wr_index
                  ELSE rx_rd_index - rx_wr_index + RxSize
  <2>2. ~ (d < m)
    BY <1>1, <1>2, <2>1, Sizes
  <2>3. rx_buf'[rx_rd_index] = IF d < m THEN Kept[d + 1] ELSE rx_buf[rx_rd_index]
    BY <1>2, <1>6
  <2>4. RxCount' > 0
    BY <1>1, <1>2, <1>5, <2>1, Sizes
  <2> QED
    BY <2>1, <2>2, <2>3, <2>4
<1>13. Len(rx_kept') = Len(rx_got) + RxCount'
  BY <1>1, <1>2, <1>5, <1>8, <1>9, Sizes
<1>14. RxRing'
  BY <1>5, <1>10, <1>11, <1>12, <1>13 DEF RxRing
<1> QED
  BY <1>4, <1>7, <1>9, <1>14

LEMMA TransmitTxRing ==
  ASSUME IInv, Transmit, UNCHANGED <<tx_buf, tx_wr_index, tx_put, pc>>
  PROVE  /\ to_host' \in Seq(Nat) /\ tx_rd_index' \in 0..(TxSize - 1)
         /\ in_free' \in BOOLEAN
         /\ TxRing'
<1>1. CASE ~ CanTransmit
  <2>1. UNCHANGED <<to_host, tx_rd_index, in_free>>
    BY <1>1 DEF Transmit
  <2>2. TxCount' = TxCount
    BY <2>1 DEF TxCount
  <2> QED
    BY <2>1, <2>2 DEF IInv, TypeOK, TxRing
<1>2. CASE CanTransmit
  <2>1. to_host' = to_host \o TxContents /\ tx_rd_index' = tx_wr_index /\ in_free' = FALSE
    BY <1>2 DEF Transmit
  <2>2. tx_wr_index \in 0..(TxSize - 1) /\ to_host \in Seq(Nat)
        /\ Len(to_host) \in Nat /\ tx_put \in Nat
    BY DEF IInv, TypeOK
  <2>3. TxCount \in Nat /\ Len(to_host) + TxCount = tx_put
    BY Counts, Sizes DEF IInv, TxRing
  <2>4. ASSUME NEW i \in 1..TxCount PROVE TxContents[i] = Len(to_host) + i
    BY DEF IInv, TxRing, TxContents
  <2>5. TxContents \in Seq(Nat) /\ Len(TxContents) = TxCount
    <3>1. TxContents = [i \in 1..TxCount |-> TxContents[i]]
      BY DEF TxContents
    <3>2. \A i \in 1..TxCount : TxContents[i] \in Nat
      BY <2>2, <2>3, <2>4
    <3> QED
      BY <2>3, <3>1, <3>2
  <2>6. to_host' \in Seq(Nat) /\ Len(to_host') = tx_put
    <3>1. to_host \o TxContents \in Seq(Nat)
          /\ Len(to_host \o TxContents) = Len(to_host) + Len(TxContents)
      BY <2>2, <2>5, ConcatProperties
    <3> QED
      BY <2>1, <2>3, <2>5, <3>1
  <2>7. ASSUME NEW i \in 1..Len(to_host') PROVE to_host'[i] = i
    <3>1. CASE i \in 1..Len(to_host)
      <4>1. to_host[i] = i
        BY <3>1 DEF IInv, TxRing
      <4> QED
        BY <2>1, <2>2, <2>5, <3>1, <4>1
    <3>2. CASE i > Len(to_host)
      <4>1. i - Len(to_host) \in 1..TxCount
        BY <2>2, <2>3, <2>6, <3>2
      <4>2. to_host'[i] = TxContents[i - Len(to_host)]
        BY <2>1, <2>2, <2>5, <4>1
      <4>3. TxContents[i - Len(to_host)] = Len(to_host) + (i - Len(to_host))
        BY <2>4, <4>1
      <4> QED
        BY <2>2, <2>6, <4>2, <4>3
    <3> QED
      BY <2>2, <2>6, <3>1, <3>2
  <2>8. TxCount' = 0
    <3>1. TxCount' = (tx_wr_index - tx_wr_index) % TxSize
      BY <2>1 DEF TxCount
    <3>2. (tx_wr_index - tx_wr_index) % TxSize
            = IF tx_wr_index >= tx_wr_index THEN tx_wr_index - tx_wr_index
              ELSE tx_wr_index - tx_wr_index + TxSize
      BY <2>2, Sizes, ModDiff
    <3> QED
      BY <2>2, <3>1, <3>2, Sizes
  <2>9. Len(to_host') + TxCount' = tx_put' /\ TxCount' < TxSize - 1
    BY <2>2, <2>6, <2>8, Sizes
  <2>10. pc' = "advance" => tx_buf'[tx_wr_index'] = tx_put' + 1
    BY DEF IInv, TxRing
  <2>11. TxRing'
    BY <2>7, <2>8, <2>9, <2>10 DEF TxRing
  <2> QED
    BY <2>1, <2>2, <2>6, <2>11
<1> QED
  BY <1>1, <1>2

LEMMA UsbComIInv == IInv /\ UsbCom => IInv'
<1> SUFFICES ASSUME IInv, UsbCom PROVE IInv'
  OBVIOUS
<1>1. /\ rx_buf' \in [0..(RxSize - 1) -> Nat]
      /\ rx_wr_index' \in 0..(RxSize - 1) /\ rx_kept' \in Seq(Nat)
      /\ RxRing'
  BY ReceiveRxRing DEF UsbCom
<1>2. /\ to_host' \in Seq(Nat) /\ tx_rd_index' \in 0..(TxSize - 1)
      /\ in_free' \in BOOLEAN
      /\ TxRing'
  BY TransmitTxRing DEF UsbCom
<1>3. state' \in {"not_ready", "ready", "error"} /\ terminal' \in BOOLEAN
      /\ txine' \in BOOLEAN
  BY DEF UsbCom, StateAfter, TxineAfter, IInv, TypeOK
<1>4. out_packet' \in Seq(Nat)
  <2>1. out_packet' = <<>>
    BY DEF UsbCom, Receive
  <2> QED
    BY <2>1
<1>5. TypeOK'
  BY <1>1, <1>2, <1>3, <1>4 DEF UsbCom, IInv, TypeOK
<1> QED
  BY <1>1, <1>2, <1>5 DEF IInv

LEMMA OutsideIInv ==
  IInv /\ (BusReset \/ HostTakesPacket \/ HostSends \/ HostRequest) => IInv'
<1>1. ASSUME IInv, BusReset PROVE IInv'
  <2>1. <<>> \in Seq(Nat)
    OBVIOUS
  <2>2. terminal' \in BOOLEAN /\ txine' \in BOOLEAN /\ in_free' \in BOOLEAN
    BY <1>1 DEF BusReset
  <2>3. /\ state' \in {"not_ready", "ready", "error"}
        /\ out_packet' \in Seq(Nat) /\ setup' \in Requests \cup {NoRequest}
        /\ resets' \in Nat
    BY <1>1, <2>1 DEF IInv, TypeOK, BusReset
  <2>4. TypeOK'
    BY <1>1, <2>2, <2>3 DEF IInv, TypeOK, BusReset, txv, rxv
  <2> QED
    BY <1>1, <2>4, QuietIInv DEF BusReset
<1>2. ASSUME IInv, HostTakesPacket PROVE IInv'
  <2>1. TypeOK'
    BY <1>2 DEF IInv, TypeOK, HostTakesPacket, txv, rxv
  <2> QED
    BY <1>2, <2>1, QuietIInv DEF HostTakesPacket
<1>3. ASSUME IInv, HostSends PROVE IInv'
  <2>1. PICK n \in PacketSizes :
          /\ out_packet' = [i \in 1..n |-> rx_sent + i]
          /\ rx_sent' = rx_sent + n
    BY <1>3 DEF HostSends
  <2>2. n \in Nat /\ rx_sent \in Nat
    BY <1>3, SizesAssumption DEF SizesAssumption, IInv, TypeOK
  <2>3. out_packet' \in Seq(Nat) /\ rx_sent' \in Nat
    BY <2>1, <2>2
  <2>4. TypeOK'
    BY <1>3, <2>3 DEF IInv, TypeOK, HostSends, txv, rxv
  <2> QED
    BY <1>3, <2>4, QuietIInv DEF HostSends
<1>4. ASSUME IInv, HostRequest PROVE IInv'
  <2>1. TypeOK'
    BY <1>4 DEF IInv, TypeOK, HostRequest, txv, rxv
  <2> QED
    BY <1>4, <2>1, QuietIInv DEF HostRequest
<1> QED
  BY <1>1, <1>2, <1>3, <1>4

LEMMA Inductive == Spec => []IInv
<1>1. IInv /\ [Next]_vars => IInv'
  <2> SUFFICES ASSUME IInv, [Next]_vars PROVE IInv'
    OBVIOUS
  <2>1. CASE Main
    BY <2>1, OtherMainIInv, SpinIInv, StoreIInv, AdvanceIInv, GetReadIInv,
       GetTakeIInv, SoftResetIInv DEF Main
  <2>2. CASE UsbCom
    BY <2>2, UsbComIInv
  <2>3. CASE BusReset \/ HostTakesPacket \/ HostSends \/ HostRequest
    BY <2>3, OutsideIInv
  <2>4. CASE UNCHANGED vars
    <3>1. TypeOK'
      BY <2>4 DEF IInv, TypeOK, vars, txv, rxv, usb
    <3> QED
      BY <2>4, <3>1, QuietIInv DEF vars
  <2> QED
    BY <2>1, <2>2, <2>3, <2>4 DEF Next
<1> QED
  BY <1>1, InitIInv, PTL DEF Spec

-----------------------------------------------------------------------------
(* The variables of con_avr_cdc.c keep their types; in particular the        *)
(* indices stay inside the rings whatever the host and the program do.       *)
THEOREM Typing == Spec => []TypeOK
<1>1. IInv => TypeOK
  BY DEF IInv
<1> QED
  BY <1>1, Inductive, PTL

(* con_putchar against the interrupt: with a ring of any size and whatever   *)
(* comes between its steps, every character put is in a packet or in the     *)
(* ring, once and in order.                                                  *)
THEOREM TransmitExact == Spec => []TxExact
<1>1. IInv => TxExact
  <2> SUFFICES ASSUME IInv PROVE TxExact
    OBVIOUS
  <2> DEFINE all == to_host \o TxContents
  <2>1. /\ to_host \in Seq(Nat) /\ Len(to_host) \in Nat
        /\ TxCount \in Nat /\ Len(to_host) + TxCount = tx_put /\ tx_put \in Nat
    BY Counts, Sizes, SMTT(30) DEF IInv, TypeOK, TxRing
  <2>2. ASSUME NEW i \in 1..TxCount PROVE TxContents[i] = Len(to_host) + i
    BY DEF IInv, TxRing, TxContents
  <2>3. TxContents \in Seq(Nat) /\ Len(TxContents) = TxCount
    <3>1. TxContents = [i \in 1..TxCount |-> TxContents[i]]
      BY DEF TxContents
    <3>2. \A i \in 1..TxCount : TxContents[i] \in Nat
      BY <2>1, <2>2
    <3> QED
      BY <2>1, <3>1, <3>2
  <2>4. Len(all) = tx_put
    <3>1. Len(all) = Len(to_host) + Len(TxContents)
      BY <2>1, <2>3, ConcatProperties
    <3> QED
      BY <2>1, <2>3, <3>1
  <2>5. ASSUME NEW i \in 1..tx_put PROVE all[i] = i
    <3>1. CASE i \in 1..Len(to_host)
      <4>1. to_host[i] = i
        BY <3>1 DEF IInv, TxRing
      <4> QED
        BY <2>1, <2>3, <3>1, <4>1
    <3>2. CASE i > Len(to_host)
      <4>1. i - Len(to_host) \in 1..TxCount
        BY <2>1, <3>2
      <4>2. all[i] = TxContents[i - Len(to_host)]
        BY <2>1, <2>3, <4>1
      <4>3. TxContents[i - Len(to_host)] = Len(to_host) + (i - Len(to_host))
        BY <2>2, <4>1
      <4> QED
        BY <2>1, <4>2, <4>3
    <3> HIDE DEF all
    <3>3. i \in 1..Len(to_host) \/ i > Len(to_host)
      BY <2>1
    <3> QED
      BY <3>1, <3>2, <3>3
  <2> QED
    BY <2>4, <2>5 DEF TxExact
<1> QED
  BY <1>1, Inductive, PTL

(* con_getchar against the interrupt: what it returned and what waits in the *)
(* ring are the bytes the interrupt kept, once and in order.                 *)
THEOREM ReceiveExact == Spec => []RxExact
<1>1. IInv => RxExact
  <2> SUFFICES ASSUME IInv PROVE RxExact
    OBVIOUS
  <2>1. /\ rx_got \in Seq(Nat) /\ rx_kept \in Seq(Nat)
        /\ Len(rx_got) \in Nat /\ RxCount \in Nat
        /\ Len(rx_kept) = Len(rx_got) + RxCount
    BY Counts, Sizes, SMTT(30) DEF IInv, TypeOK, RxRing
  <2>2. ASSUME NEW i \in 1..RxCount PROVE rx_kept[Len(rx_got) + i] = RxContents[i]
    BY DEF IInv, RxRing, RxContents
  <2>3. RxContents \in Seq(Nat) /\ Len(RxContents) = RxCount
    <3>1. RxContents = [i \in 1..RxCount |-> RxContents[i]]
      BY DEF RxContents
    <3>2. ASSUME NEW i \in 1..RxCount PROVE RxContents[i] \in Nat
      <4>1. Len(rx_got) + i \in 1..Len(rx_kept)
        BY <2>1
      <4> QED
        BY <2>1, <2>2, <4>1, ElementOfSeq
    <3>3. RxContents \in [1..RxCount -> Nat]
      BY <3>1, <3>2
    <3> QED
      BY <2>1, <3>3
  <2>4. Len(rx_got \o RxContents) = Len(rx_kept)
        /\ rx_got \o RxContents \in Seq(Nat)
    <3>1. rx_got \o RxContents \in Seq(Nat)
          /\ Len(rx_got \o RxContents) = Len(rx_got) + Len(RxContents)
      BY <2>1, <2>3, ConcatProperties
    <3> QED
      BY <2>1, <2>3, <3>1
  <2>5. ASSUME NEW i \in 1..Len(rx_kept) PROVE rx_kept[i] = (rx_got \o RxContents)[i]
    <3>1. CASE i \in 1..Len(rx_got)
      <4>1. rx_kept[i] = rx_got[i]
        BY <3>1 DEF IInv, RxRing
      <4> QED
        BY <2>1, <2>3, <3>1, <4>1
    <3>2. CASE i > Len(rx_got)
      <4>1. i - Len(rx_got) \in 1..RxCount
        BY <2>1, <3>2
      <4>2. (rx_got \o RxContents)[i] = RxContents[i - Len(rx_got)]
        BY <2>1, <2>3, <4>1
      <4>3. rx_kept[Len(rx_got) + (i - Len(rx_got))] = RxContents[i - Len(rx_got)]
        BY <2>2, <4>1
      <4>4. Len(rx_got) + (i - Len(rx_got)) = i
        BY <2>1
      <4> QED
        BY <4>2, <4>3, <4>4
    <3>3. i \in 1..Len(rx_got) \/ i > Len(rx_got)
      BY <2>1
    <3> QED
      BY <3>1, <3>2, <3>3
  <2>6. rx_kept = rx_got \o RxContents
    BY <2>1, <2>4, <2>5, SeqEqual
  <2> QED
    BY <2>6 DEF RxExact
<1> QED
  BY <1>1, Inductive, PTL

(* con_peek tells the truth to a program that reads later: whatever the      *)
(* interrupt does, the count of waiting characters goes down only when       *)
(* con_getchar takes one, or on a reset.                                     *)
THEOREM PeekTrue == Spec => PeekHolds
<1>1. ASSUME IInv, IInv', [Next]_vars, ~ GetTake, ~ SoftReset PROVE ~ (Peek' < Peek)
  <2>1. RxCount \in Nat /\ RxCount' \in Nat
    <3>1. RxCount \in 0..(RxSize - 1)
      BY <1>1, Counts DEF IInv
    <3>2. RxCount' \in 0..(RxSize - 1)
      <4>1. TypeOK'
        BY <1>1 DEF IInv
      <4>2. rx_wr_index' \in 0..(RxSize - 1) /\ rx_rd_index' \in 0..(RxSize - 1)
        BY <4>1 DEF TypeOK
      <4>3. (rx_wr_index' - rx_rd_index') % RxSize \in 0..(RxSize - 1)
        BY <4>2, Sizes, ModRange
      <4> QED
        BY <4>3 DEF RxCount
    <3> QED
      BY <3>1, <3>2, Sizes
  <2>2. CASE UNCHANGED <<rx_wr_index, rx_rd_index>>
    BY <2>1, <2>2 DEF Peek, RxCount
  <2>3. CASE UsbCom
    <3>1. rx_kept' = rx_kept \o Kept /\ rx_got' = rx_got
      BY <2>3 DEF UsbCom, Receive
    <3>2. Kept \in Seq(Nat) /\ Len(Kept) \in Nat
      BY <1>1, KeptFits DEF IInv
    <3>3. rx_kept \in Seq(Nat) /\ Len(rx_kept) \in Nat /\ Len(rx_got) \in Nat
      <4>1. rx_kept \in Seq(Nat) /\ rx_got \in Seq(Nat)
        BY <1>1 DEF IInv, TypeOK
      <4> QED
        BY <4>1, LenProperties
    <3>4. Len(rx_kept \o Kept) = Len(rx_kept) + Len(Kept)
      BY <3>2, <3>3, ConcatProperties
    <3>5. /\ Len(rx_kept) = Len(rx_got) + RxCount
          /\ Len(rx_kept') = Len(rx_got') + RxCount'
      BY <1>1 DEF IInv, RxRing
    <3> QED
      BY <2>1, <3>1, <3>2, <3>3, <3>4, <3>5 DEF Peek
  <2> QED
    BY <1>1, <2>2, <2>3 DEF Next, Main, WaitReady, PutCall, PutSpin, PutStore, PutAdvance,
       PutArm, GetRead, BusReset, HostTakesPacket, HostSends, HostRequest, vars, rxv
<1>2. IInv /\ IInv' /\ [Next]_vars => [Peek' < Peek => GetTake \/ SoftReset]_vars
  BY <1>1
<1> QED
  BY <1>2, Inductive, PTL DEF Spec, PeekHolds
==============================================================================
