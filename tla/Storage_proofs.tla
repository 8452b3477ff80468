---------------------------- MODULE Storage_proofs ----------------------------
(* Proofs about Storage.  The FAT reader, for every card of the Layout: what *)
(* a read of the mounted image gets, where a write goes, what a mount finds. *)
(* The settings and the short image, from Settings_proofs and Fdc_proofs.    *)
EXTENDS Storage, WellFoundedInduction, TLAPS

LEMMA Sizes == FatAssumption /\ Layout
BY StorageAssumption

-----------------------------------------------------------------------------
(* Induction over the natural numbers, for a set of them.                    *)
LEMMA LeastElement ==
  ASSUME NEW T, T \subseteq Nat, T # {}
  PROVE  \E x \in T : \A y \in T : x <= y
<1>1. PICK x \in T : \A y \in T : ~ (<<y, x>> \in OpToRel(<, Nat))
  BY NatLessThanWellFounded, WFMin
<1>2. ASSUME NEW y \in T PROVE x <= y
  <2>1. <<y, x>> \in OpToRel(<, Nat) <=> y < x
    BY DEF OpToRel
  <2>2. ~ (y < x)
    BY <1>1, <2>1, Zenon
  <2> QED
    BY <2>2
<1> QED
  BY <1>2

(* A set with 0, and with every successor of its elements, has all of Nat.  *)
LEMMA NatInd ==
  ASSUME NEW S, 0 \in S, \A n \in Nat : n \in S => n + 1 \in S
  PROVE  Nat \subseteq S
<1> SUFFICES ASSUME Nat \ S # {} PROVE FALSE
  OBVIOUS
<1>1. PICK x \in Nat \ S : \A y \in Nat \ S : x <= y
  BY LeastElement
<1>2. x # 0 /\ x - 1 \in Nat
  BY <1>1
<1>3. x - 1 \in S
  BY <1>1, <1>2
<1> QED
  BY <1>1, <1>2, <1>3

-----------------------------------------------------------------------------
Links == Clusters \cup {0}
Follow(c) == IF c = 0 THEN 0 ELSE FatNext[c]
Walk == [Links -> Links]
Walks(h, n) ==
  /\ h \in [0..n -> Walk]
  /\ h[0] = [c \in Links |-> c]
  /\ \A k \in 0..n - 1 : h[k + 1] = [c \in Links |-> h[k][Follow(c)]]
AfterWalk(n) == (CHOOSE h : Walks(h, n))[n]
IsChain(f) ==
  f = [p \in Links \X Nat |->
        IF p[1] = 0 \/ p[2] = 0 THEN p[1] ELSE f[<<FatNext[p[1]], p[2] - 1>>]]

(* Links lead to clusters of the card, or to the end. *)
LEMMA FollowType == ASSUME FatAssumption, NEW c \in Links PROVE Follow(c) \in Links
BY DEF Links, Follow, FatAssumption

(* Walks(h, n): h[k] gives the cluster that k links lead to, for k up to n.  *)
(* There is one for every n, and they agree where they overlap.              *)
LEMMA WalksExist == ASSUME FatAssumption, NEW n \in Nat PROVE \E h : Walks(h, n)
<1> DEFINE S == {m \in Nat : \E h : Walks(h, m)}
<1>1. 0 \in S
  <2> DEFINE h == [k \in 0..0 |-> [c \in Links |-> c]]
  <2>1. Walks(h, 0)
    BY DEF Walks, Walk
  <2> QED
    BY <2>1
<1>2. ASSUME NEW m \in Nat, m \in S PROVE m + 1 \in S
  <2>1. PICK h : Walks(h, m)
    BY <1>2
  <2> DEFINE g == [k \in 0..m + 1 |-> IF k <= m THEN h[k]
                                      ELSE [c \in Links |-> h[m][Follow(c)]]]
  <2>2. [c \in Links |-> h[m][Follow(c)]] \in Walk
    BY <2>1, FollowType DEF Walks, Walk
  <2>3. g \in [0..m + 1 -> Walk]
    BY <2>1, <2>2 DEF Walks
  <2>4. g[0] = [c \in Links |-> c]
    BY <2>1 DEF Walks
  <2>5. ASSUME NEW k \in 0..m PROVE g[k + 1] = [c \in Links |-> g[k][Follow(c)]]
    <3>1. g[k] = h[k]
      OBVIOUS
    <3>2. CASE k < m
      <4>1. k \in 0..m - 1 /\ g[k + 1] = h[k + 1]
        BY <3>2
      <4>2. h[k + 1] = [c \in Links |-> h[k][Follow(c)]]
        BY <2>1, <4>1 DEF Walks
      <4> QED
        BY <3>1, <4>1, <4>2
    <3>3. CASE k = m
      BY <3>1, <3>3
    <3> QED
      BY <3>2, <3>3
  <2> HIDE DEF g
  <2>6. Walks(g, m + 1)
    <3>1. (m + 1) - 1 = m
      OBVIOUS
    <3> QED
      BY <2>3, <2>4, <2>5, <3>1 DEF Walks
  <2> QED
    BY <2>6
<1> HIDE DEF S
<1>3. Nat \subseteq S
  BY <1>1, <1>2, NatInd
<1> QED
  BY <1>3 DEF S

(* Two walks agree as far as both go. *)
LEMMA WalksAgree ==
  ASSUME NEW m \in Nat, NEW n \in Nat, NEW g, NEW h, Walks(g, m), Walks(h, n), m <= n
  PROVE  g[m] = h[m]
<1> DEFINE S == {k \in Nat : k <= m => g[k] = h[k]}
<1>1. 0 \in S
  BY DEF Walks
<1>2. ASSUME NEW k \in Nat, k \in S PROVE k + 1 \in S
  <2>1. CASE k + 1 <= m
    <3>1. k \in 0..m - 1 /\ k \in 0..n - 1 /\ g[k] = h[k]
      BY <1>2, <2>1
    <3>2. /\ g[k + 1] = [c \in Links |-> g[k][Follow(c)]]
          /\ h[k + 1] = [c \in Links |-> h[k][Follow(c)]]
      BY <3>1 DEF Walks
    <3> QED
      BY <3>1, <3>2
  <2> QED
    BY <2>1
<1> HIDE DEF S
<1>3. Nat \subseteq S
  BY <1>1, <1>2, NatInd
<1> QED
  BY <1>3 DEF S

(* One link more is the walk from the next cluster. *)
LEMMA AfterWalks ==
  ASSUME FatAssumption, NEW n \in Nat
  PROVE  /\ AfterWalk(n) \in Walk
         /\ AfterWalk(0) = [c \in Links |-> c]
         /\ AfterWalk(n + 1) = [c \in Links |-> AfterWalk(n)[Follow(c)]]
<1> DEFINE W(k) == CHOOSE h : Walks(h, k)
<1>1. \A k \in Nat : Walks(W(k), k)
  BY WalksExist
<1>2. \A k \in Nat : AfterWalk(k) = W(k)[k]
  BY DEF AfterWalk
<1> HIDE DEF W
<1>3. AfterWalk(n) \in Walk
  <2>0. Walks(W(n), n)
    BY <1>1, Zenon
  <2>1. W(n) \in [0..n -> Walk] /\ n \in 0..n
    BY <2>0 DEF Walks
  <2>2. W(n)[n] \in Walk
    BY <2>1, Zenon
  <2>3. AfterWalk(n) = W(n)[n]
    BY <1>2, Zenon
  <2> QED
    BY <2>2, <2>3, Zenon
<1>4. AfterWalk(0) = [c \in Links |-> c]
  BY <1>1, <1>2 DEF Walks
<1>5. W(n + 1)[n] = W(n)[n]
  BY <1>1, WalksAgree
<1>6. W(n + 1)[n + 1] = [c \in Links |-> W(n + 1)[n][Follow(c)]]
  <2>1. n + 1 \in Nat /\ n \in 0..(n + 1) - 1
    OBVIOUS
  <2>2. Walks(W(n + 1), n + 1)
    BY <1>1, <2>1
  <2> QED
    BY <2>1, <2>2 DEF Walks
<1>7. AfterWalk(n + 1) = [c \in Links |-> AfterWalk(n)[Follow(c)]]
  BY <1>2, <1>5, <1>6
<1> QED
  BY <1>3, <1>4, <1>7

(* The end of a chain has no successor. *)
LEMMA WalkFromNone == ASSUME FatAssumption, NEW n \in Nat PROVE AfterWalk(n)[0] = 0
<1> DEFINE S == {m \in Nat : AfterWalk(m)[0] = 0}
<1>0. 0 \in Links /\ Follow(0) = 0
  BY DEF Links, Follow
<1>1. 0 \in S
  BY <1>0, AfterWalks
<1>2. ASSUME NEW m \in Nat, m \in S PROVE m + 1 \in S
  <2>1. AfterWalk(m + 1) = [c \in Links |-> AfterWalk(m)[Follow(c)]]
    BY AfterWalks
  <2>2. AfterWalk(m + 1)[0] = AfterWalk(m)[Follow(0)]
    BY <1>0, <2>1
  <2> QED
    BY <1>0, <1>2, <2>2
<1> HIDE DEF S
<1>3. Nat \subseteq S
  BY <1>1, <1>2, NatInd
<1> QED
  BY <1>3 DEF S

(* The recursive definition of Chain has the solution AfterWalk.             *)
LEMMA ChainExists == ASSUME FatAssumption PROVE IsChain(Chain)
<1> DEFINE f == [p \in Links \X Nat |-> AfterWalk(p[2])[p[1]]]
<1>1. ASSUME NEW p \in Links \X Nat
      PROVE f[p] = IF p[1] = 0 \/ p[2] = 0 THEN p[1] ELSE f[<<FatNext[p[1]], p[2] - 1>>]
  <2>1. p[1] \in Links /\ p[2] \in Nat /\ f[p] = AfterWalk(p[2])[p[1]]
    OBVIOUS
  <2>2. CASE p[1] = 0
    BY <2>1, <2>2, WalkFromNone
  <2>3. CASE p[2] = 0
    BY <2>1, <2>3, AfterWalks, ZenonT(60)
  <2>4. CASE p[1] # 0 /\ p[2] # 0
    <3>1. p[2] - 1 \in Nat /\ (p[2] - 1) + 1 = p[2]
      BY <2>1, <2>4
    <3>2. FatNext[p[1]] \in Links /\ Follow(p[1]) = FatNext[p[1]]
      BY <2>1, <2>4, FollowType DEF Follow
    <3>3. AfterWalk(p[2]) = [c \in Links |-> AfterWalk(p[2] - 1)[Follow(c)]]
      BY <3>1, AfterWalks
    <3>4. f[<<FatNext[p[1]], p[2] - 1>>] = AfterWalk(p[2] - 1)[FatNext[p[1]]]
      BY <3>1, <3>2
    <3> QED
      BY <2>1, <2>4, <3>2, <3>3, <3>4
  <2> QED
    BY <2>2, <2>3, <2>4
<1>2. f = [p \in Links \X Nat |-> f[p]]
  OBVIOUS
<1> HIDE DEF f
<1>3. IsChain(f)
  BY <1>1, <1>2 DEF IsChain
<1>4. Chain = CHOOSE g : IsChain(g)
  BY DEF Chain, IsChain, Links
<1> QED
  BY <1>3, <1>4

(* One unfolding of Chain. *)
LEMMA ChainStep ==
  ASSUME FatAssumption, NEW c \in Links, NEW n \in Nat
  PROVE  /\ Chain[<<c, 0>>] = c /\ Chain[<<0, n>>] = 0
         /\ c # 0 => Chain[<<c, n + 1>>] = Chain[<<FatNext[c], n>>]
<1>1. \A p \in Links \X Nat :
        Chain[p] = IF p[1] = 0 \/ p[2] = 0 THEN p[1] ELSE Chain[<<FatNext[p[1]], p[2] - 1>>]
  <2>1. Chain = [p \in Links \X Nat |-> IF p[1] = 0 \/ p[2] = 0 THEN p[1]
                                        ELSE Chain[<<FatNext[p[1]], p[2] - 1>>]]
    BY ChainExists DEF IsChain
  <2> QED
    BY <2>1
<1>2. <<c, 0>> \in Links \X Nat /\ <<0, n>> \in Links \X Nat /\ <<c, n + 1>> \in Links \X Nat
  BY DEF Links
<1>3. Chain[<<c, 0>>] = c /\ Chain[<<0, n>>] = 0
  BY <1>1, <1>2
<1>4. c # 0 => Chain[<<c, n + 1>>] = Chain[<<FatNext[c], (n + 1) - 1>>]
  BY <1>1, <1>2
<1> QED
  BY <1>3, <1>4

-----------------------------------------------------------------------------
(* Arithmetic of blocks, entries and clusters. *)

(* The quotient and the rest. *)
LEMMA DivMod ==
  ASSUME NEW n \in Nat \ {0}, NEW q \in Nat, NEW r \in 0..n - 1
  PROVE  (q * n + r) \div n = q /\ (q * n + r) % n = r
OBVIOUS

(* Quotient and rest make up the number. *)
LEMMA DivSplit ==
  ASSUME NEW n \in Nat \ {0}, NEW a \in Nat
  PROVE  a \div n \in Nat /\ a % n \in 0..n - 1 /\ a = (a \div n) * n + (a % n)
OBVIOUS
(* Division keeps the order. *)
LEMMA DivMonotone ==
  ASSUME NEW n \in Nat \ {0}, NEW a \in Nat, NEW b \in Nat, a <= b
  PROVE  a \div n <= b \div n
OBVIOUS
(* So does multiplication. *)
LEMMA Products ==
  ASSUME NEW a \in Nat, NEW b \in Nat, NEW c \in Nat, a <= b
  PROVE  a * c \in Nat /\ a * c <= b * c 
OBVIOUS

(* The types of the sizes. *)
LEMMA Numbers ==
  /\ SPC \in Nat \ {0} /\ EPB \in Nat \ {0} /\ 0 \in Slot /\ Slot = 0..EPB - 1
  /\ KeyBlocks \in Nat \ {0, 1} /\ DirEntries \in Nat \ {0}
  /\ BootBlocks \in Nat \ {0, 1} /\ 0 \in 0..BootBlocks - 1
<1>1. SPC \in Nat \ {0} /\ EPB \in Nat \ {0}
  BY Sizes DEF FatAssumption
<1>2. KeyBlocks \in Nat \ {0, 1} /\ DirEntries \in Nat \ {0}
  BY Sizes DEF FatAssumption
<1>3. BootBlocks \in Nat \ {0, 1}
  <2>1. BootBlocks > 1
    BY Sizes, Zenon DEF Layout
  <2>2. BootBlocks \in Nat
    BY Sizes DEF FatAssumption
  <2> QED
    BY <2>1, <2>2
<1> QED
  BY <1>1, <1>2, <1>3 DEF Slot

(* The types of the links of the FAT. *)
LEMMA LinkTypes ==
  /\ Links = Clusters \cup {0} /\ Links \subseteq Nat
  /\ \A c \in Clusters : c \in Nat \ {0, 1} /\ FatNext[c] \in Links
<1>1. Clusters \subseteq Nat \ {0, 1} /\ FatNext \in [Clusters -> Clusters \cup {0}]
  BY Sizes DEF FatAssumption
<1> QED
  BY <1>1 DEF Links

(* The mark of an empty slot is no cluster. *)
LEMMA NoLink == \A c \in Links : c # None
<1>1. None \notin Nat \cup Names
  BY Sizes, Zenon DEF FatAssumption
<1> QED
  BY <1>1, LinkTypes, Zenon

(* A chain leads to clusters of the card, or to its end. *)
LEMMA ChainType ==
  ASSUME NEW c \in Links, NEW n \in Nat
  PROVE  Chain[<<c, n>>] \in Links
<1> DEFINE S == {m \in Nat : \A d \in Links : Chain[<<d, m>>] \in Links}
<1>1. 0 \in S
  BY Sizes, ChainStep
<1>2. ASSUME NEW m \in Nat, m \in S PROVE m + 1 \in S
  <2> SUFFICES ASSUME NEW d \in Links PROVE Chain[<<d, m + 1>>] \in Links
    OBVIOUS
  <2>1. CASE d = 0
    <3>1. 0 \in Links /\ m + 1 \in Nat
      BY DEF Links
    <3>2. Chain[<<0, m + 1>>] = 0
      BY <3>1, Sizes, ChainStep
    <3> QED
      BY <2>1, <3>1, <3>2
  <2>2. CASE d # 0
    <3>1. Chain[<<d, m + 1>>] = Chain[<<FatNext[d], m>>]
      BY <2>2, Sizes, ChainStep
    <3>2. FatNext[d] \in Links
      <4>1. d \in Clusters
        BY <2>2 DEF Links
      <4> QED
        BY <4>1, LinkTypes
    <3> QED
      BY <1>2, <3>1, <3>2
  <2> QED
    BY <2>1, <2>2
<1> HIDE DEF S
<1>3. Nat \subseteq S
  BY <1>1, <1>2, NatInd
<1> QED
  BY <1>3 DEF S

(* A chain that has ended stays so. *)
LEMMA ChainEnds ==
  ASSUME NEW c \in Links, NEW m \in Nat, NEW n \in Nat, m <= n, Chain[<<c, m>>] = 0
  PROVE  Chain[<<c, n>>] = 0
<1> DEFINE S == {k \in Nat : \A d \in Links, l \in Nat :
                               k <= l /\ Chain[<<d, k>>] = 0 => Chain[<<d, l>>] = 0}
<1>1. 0 \in S
  <2> SUFFICES ASSUME NEW d \in Links, NEW l \in Nat, Chain[<<d, 0>>] = 0
               PROVE  Chain[<<d, l>>] = 0
    OBVIOUS
  <2>1. d = 0
    BY Sizes, ChainStep
  <2> QED
    BY <2>1, Sizes, ChainStep
<1>2. ASSUME NEW k \in Nat, k \in S PROVE k + 1 \in S
  <2> SUFFICES ASSUME NEW d \in Links, NEW l \in Nat, k + 1 <= l, Chain[<<d, k + 1>>] = 0
               PROVE  Chain[<<d, l>>] = 0
    OBVIOUS
  <2>1. CASE d = 0
    BY <2>1, Sizes, ChainStep
  <2>2. CASE d # 0
    <3>1. l - 1 \in Nat /\ k <= l - 1 /\ (l - 1) + 1 = l
      OBVIOUS
    <3>2. Chain[<<d, k + 1>>] = Chain[<<FatNext[d], k>>]
      BY <2>2, Sizes, ChainStep
    <3>3. Chain[<<d, (l - 1) + 1>>] = Chain[<<FatNext[d], l - 1>>]
      BY <2>2, <3>1, Sizes, ChainStep
    <3>4. FatNext[d] \in Links
      BY <2>2, LinkTypes
    <3>5. Chain[<<FatNext[d], l - 1>>] = 0
      BY <1>2, <3>1, <3>2, <3>4
    <3> QED
      BY <3>1, <3>3, <3>5
  <2> QED
    BY <2>1, <2>2
<1> HIDE DEF S
<1>3. Nat \subseteq S
  BY <1>1, <1>2, NatInd
<1> QED
  BY <1>3 DEF S

(* The root directory fills its blocks. *)
LEMMA RootSize ==
  DirEntries = RootBlocks * EPB /\ RootBlocks \in Nat /\ RootBlocks <= KeyBlocks
<1>1. DirEntries % EPB = 0 /\ RootBlocks <= KeyBlocks
  BY Sizes DEF FatAssumption
<1> DEFINE q == DirEntries \div EPB
<1>2. q \in Nat /\ DirEntries = q * EPB + (DirEntries % EPB)
  BY Numbers, DivSplit
<1> HIDE DEF q
<1>3. DirEntries + EPB - 1 = q * EPB + (EPB - 1) /\ EPB - 1 \in 0..EPB - 1 /\ DirEntries = q * EPB
  <2>1. q * EPB \in Nat
    BY <1>2, Numbers
  <2> QED
    BY <1>1, <1>2, <2>1, Numbers
<1>4. RootBlocks = q
  BY <1>2, <1>3, Numbers, DivMod DEF RootBlocks
<1> QED
  BY <1>1, <1>2, <1>3, <1>4

(* The walk stops a cluster early at the first block of a cluster. *)
HopsTo(b) == IF b = 0 THEN 0 ELSE (b - 1) \div SPC

LEMMA HopsBlocks ==
  ASSUME NEW b \in Nat
  PROVE  /\ Hops(b * EPB) = HopsTo(b) /\ HopsTo(b) \in Nat /\ HopsTo(b) <= b \div SPC
         /\ HopsTo(b) * SPC <= b
<1>1. SPC \in Nat \ {0} /\ EPB \in Nat \ {0}
  BY Numbers
<1>2. CASE b = 0
  <2>1. b * EPB = 0 /\ b \div SPC \in Nat
    BY <1>1, <1>2
  <2> QED
    BY <1>1, <1>2, <2>1 DEF Hops, HopsTo
<1>3. CASE b # 0
  <2> DEFINE h == (b - 1) \div SPC
             r == (b - 1) % SPC
  <2>1. b - 1 \in Nat
    BY <1>3
  <2>2. h \in Nat /\ r \in 0..SPC - 1 /\ b - 1 = h * SPC + r
    BY <1>1, <2>1, DivSplit
  <2>3. h <= b \div SPC
    BY <1>1, <2>1, DivMonotone
  <2> HIDE DEF h, r
  <2>4. r * EPB + (EPB - 1) \in 0..ClusterLength - 1
    <3>1. r * EPB \in Nat
      BY <1>1, <2>2
    <3>2. (r + 1) * EPB <= SPC * EPB
      BY <1>1, <2>2, Products
    <3>3. (r + 1) * EPB = r * EPB + EPB
      BY <1>1, <2>2
    <3> QED
      BY <1>1, <3>1, <3>2, <3>3 DEF ClusterLength
  <2>5. ClusterLength \in Nat \ {0}
    BY <1>1 DEF ClusterLength
  <2>6. b * EPB - 1 = h * ClusterLength + (r * EPB + (EPB - 1))
    <3>1. b * EPB = (h * SPC + r + 1) * EPB
      BY <2>1, <2>2, <1>1
    <3>2. (h * SPC + r + 1) * EPB = h * SPC * EPB + r * EPB + EPB
      BY <1>1, <2>2
    <3>3. h * SPC * EPB = h * ClusterLength
      BY <1>1, <2>2 DEF ClusterLength
    <3>4. h * ClusterLength \in Nat /\ r * EPB \in Nat
      BY <1>1, <2>2, <2>5
    <3> QED
      BY <1>1, <3>1, <3>2, <3>3, <3>4
  <2>7. (b * EPB - 1) \div ClusterLength = h
    BY <2>2, <2>4, <2>5, <2>6, DivMod
  <2>8. b * EPB # 0
    BY <1>1, <1>3
  <2>9. h * SPC <= b
    <3>1. h * SPC \in Nat
      BY <1>1, <2>2
    <3> QED
      BY <2>1, <2>2, <3>1
  <2> QED
    BY <1>3, <2>2, <2>3, <2>7, <2>8, <2>9 DEF Hops, HopsTo, h
<1> QED
  BY <1>2, <1>3

(* No cluster covers the FAT. *)
LEMMA Places ==
  /\ DirSize \in Nat
  /\ \A c \in Clusters : ClusterSector(c) \in Nat /\ ClusterSector(c) > FatBlock
<1>1. SPC \in Nat \ {0} /\ EPB \in Nat \ {0} /\ DirEntries \in Nat
  BY Numbers
<1>2. DirEntries \div EPB \in Nat
  BY <1>1, DivSplit
<1>3. DirEntries \div EPB + SPC - 1 \in Nat
  BY <1>1, <1>2
<1>4. DirSize \in Nat
  BY <1>1, <1>3, DivSplit DEF DirSize
<1>5. ASSUME NEW c \in Clusters
      PROVE  ClusterSector(c) \in Nat /\ ClusterSector(c) > FatBlock
  <2>1. DirSize + c - 2 \in Nat
    BY <1>4, LinkTypes
  <2>2. (DirSize + c - 2) * SPC \in Nat
    BY <1>1, <2>1
  <2> QED
    BY <2>2 DEF ClusterSector, FatBlock, DirSector
<1> QED
  BY <1>4, <1>5

(* The walk stops short of b's cluster by h - HopsTo(b) clusters of SPC      *)
(* blocks: by none inside a cluster, and by one at the first block of it.    *)
LEMMA WalkStops ==
  ASSUME NEW b \in Nat
  PROVE  LET h == b \div SPC
         IN  /\ h \in Nat /\ b % SPC \in 0..SPC - 1
             /\ b = 0 \/ b % SPC # 0 => HopsTo(b) = h /\ b - HopsTo(b) * SPC = b % SPC
             /\ b # 0 /\ b % SPC = 0 =>
                  h - 1 \in Nat /\ HopsTo(b) = h - 1 /\ b - HopsTo(b) * SPC = SPC
<1> DEFINE h == b \div SPC
           r == b % SPC
<1>1. SPC \in Nat \ {0}
  BY Numbers
<1>2. h \in Nat /\ r \in 0..SPC - 1 /\ b = h * SPC + r
  BY <1>1, DivSplit
<1>3. CASE b = 0
  <2>1. h = 0 /\ r = 0
    BY <1>1, <1>3
  <2> QED
    BY <1>1, <1>2, <1>3, <2>1 DEF HopsTo
<1>4. CASE b # 0 /\ r # 0
  <2> HIDE DEF h, r
  <2>1. b - 1 = h * SPC + (r - 1) /\ r - 1 \in 0..SPC - 1 /\ h * SPC \in Nat
    BY <1>1, <1>2, <1>4
  <2>2. (b - 1) \div SPC = h
    BY <1>1, <1>2, <2>1, DivMod
  <2>3. HopsTo(b) = h /\ b - h * SPC = r
    BY <1>2, <1>4, <2>1, <2>2 DEF HopsTo
  <2> QED
    BY <1>2, <1>4, <2>3 DEF h, r
<1>5. CASE b # 0 /\ r = 0
  <2> HIDE DEF h, r
  <2>1. h # 0
    BY <1>1, <1>2, <1>5
  <2>2. h - 1 \in Nat /\ (h - 1) * SPC \in Nat /\ h * SPC = (h - 1) * SPC + SPC
    BY <1>1, <1>2, <2>1
  <2>3. b - 1 = (h - 1) * SPC + (SPC - 1) /\ SPC - 1 \in 0..SPC - 1
    BY <1>1, <1>2, <1>5, <2>2
  <2>4. (b - 1) \div SPC = h - 1
    <3>1. ((h - 1) * SPC + (SPC - 1)) \div SPC = h - 1
      BY <1>1, <2>2, <2>3, DivMod
    <3> QED
      BY <2>3, <3>1
  <2>5. HopsTo(b) = h - 1 /\ b - (h - 1) * SPC = SPC
    BY <1>1, <1>2, <1>5, <2>2, <2>4 DEF HopsTo
  <2> QED
    BY <1>2, <1>5, <2>2, <2>5 DEF h, r
<1> QED
  BY <1>3, <1>4, <1>5

(* The block that the walk finds for block b of a file. *)
LEMMA LocatedIs ==
  ASSUME NEW c \in Clusters, NEW b \in Nat
  PROVE  LET d == Chain[<<c, HopsTo(b)>>]
         IN  Located(c, b * EPB) = IF d = 0 THEN FatBlock
                                   ELSE ClusterSector(d) + (b - HopsTo(b) * SPC)
<1> DEFINE h == HopsTo(b)
           d == Chain[<<c, h>>]
<1>1. SPC \in Nat \ {0} /\ EPB \in Nat \ {0} /\ c # 0
  BY Numbers, LinkTypes
<1>2. Hops(b * EPB) = h /\ h \in Nat /\ h * SPC <= b
  BY HopsBlocks
<1> HIDE DEF h
<1>3. (b * EPB - h * ClusterLength) \div EPB = b - h * SPC
  <2>1. h * SPC \in Nat /\ b - h * SPC \in Nat
    BY <1>1, <1>2
  <2>2. b * EPB - h * ClusterLength = (b - h * SPC) * EPB + 0
    BY <1>1, <1>2 DEF ClusterLength
  <2>3. 0 \in 0..EPB - 1
    BY <1>1
  <2>4. ((b - h * SPC) * EPB + 0) \div EPB = b - h * SPC
    BY <1>1, <2>1, <2>3, DivMod
  <2> QED
    BY <2>2, <2>4
<1>4. Located(c, b * EPB) = IF d = 0 THEN FatBlock ELSE ClusterSector(d) + (b - h * SPC)
  BY <1>1, <1>2, <1>3 DEF Located
<1> QED
  BY <1>4 DEF h

(* Where the chain reaches block b, the walk to it and to an earlier block   *)
(* does not end before it; and it finds the block of the layout unless that  *)
(* is the first one of a piece.                                              *)
LEMMA WalkReaches ==
  ASSUME NEW c \in Clusters, NEW b \in Nat, Chain[<<c, b \div SPC>>] # 0,
         NEW a \in Nat, a <= b
  PROVE  /\ Chain[<<c, a \div SPC>>] # 0
         /\ Located(c, a * EPB) # FatBlock
         /\ ~ BeginsPiece(c, a) => Located(c, a * EPB) = BlockOf(c, a)
<1> DEFINE h == a \div SPC
           r == a % SPC
<1>1. SPC \in Nat \ {0} /\ c \in Links
  BY Numbers, LinkTypes
<1>2. h \in Nat /\ r \in 0..SPC - 1 /\ b \div SPC \in Nat /\ h <= b \div SPC
  BY <1>1, DivSplit, DivMonotone
<1>3. Chain[<<c, h>>] # 0 /\ Chain[<<c, h>>] \in Clusters
  <2>1. Chain[<<c, h>>] # 0
    BY <1>1, <1>2, ChainEnds
  <2> QED
    BY <1>1, <1>2, <2>1, ChainType, LinkTypes
<1>4. BlockOf(c, a) = ClusterSector(Chain[<<c, h>>]) + r
  BY DEF BlockOf
<1>5. ClusterSector(Chain[<<c, h>>]) \in Nat /\ ClusterSector(Chain[<<c, h>>]) > FatBlock
  BY <1>3, Places
<1>6. CASE a = 0 \/ r # 0
  <2>1. HopsTo(a) = h /\ a - HopsTo(a) * SPC = r
    BY <1>6, WalkStops
  <2>2. Located(c, a * EPB) = ClusterSector(Chain[<<c, h>>]) + r
    BY <1>3, <2>1, LocatedIs
  <2> QED
    BY <1>1, <1>2, <1>3, <1>4, <1>5, <2>2 DEF FatBlock
<1>7. CASE a # 0 /\ r = 0
  <2> DEFINE d == Chain[<<c, h - 1>>]
  <2>1. h - 1 \in Nat /\ HopsTo(a) = h - 1 /\ a - HopsTo(a) * SPC = SPC
    BY <1>7, WalkStops
  <2>2. d # 0 /\ d \in Clusters
    <3>1. d # 0
      BY <1>1, <1>2, <1>3, <2>1, ChainEnds
    <3> QED
      BY <1>1, <2>1, <3>1, ChainType, LinkTypes
  <2>3. Located(c, a * EPB) = ClusterSector(d) + SPC
    BY <2>1, <2>2, LocatedIs
  <2>4. ClusterSector(d) \in Nat /\ ClusterSector(d) > FatBlock
    BY <2>2, Places
  <2>5. ASSUME ~ BeginsPiece(c, a) PROVE Located(c, a * EPB) = BlockOf(c, a)
    <3>1. Chain[<<c, h>>] = d + 1
      BY <1>3, <1>7, <2>5 DEF BeginsPiece
    <3>2. d \in Nat /\ DirSize \in Nat
      BY <2>2, LinkTypes, Places
    <3>3. (DirSize + (d + 1) - 2) * SPC = (DirSize + d - 2) * SPC + SPC
      BY <1>1, <3>2
    <3>4. (DirSize + d - 2) * SPC \in Int
      BY <1>1, <3>2
    <3>5. ClusterSector(d + 1) = ClusterSector(d) + SPC
      BY <1>1, <3>3, <3>4 DEF ClusterSector, DirSector
    <3> QED
      BY <1>4, <1>5, <1>7, <2>3, <3>1, <3>5
  <2>6. Located(c, a * EPB) # FatBlock
    BY <1>1, <2>3, <2>4 DEF FatBlock
  <2> QED
    BY <1>3, <2>5, <2>6
<1> QED
  BY <1>6, <1>7

(* In the root directory the blocks follow one another. *)
LEMMA LocatedType ==
  ASSUME NEW c \in Links, NEW b \in Nat
  PROVE  /\ Located(c, b * EPB) \in Nat
         /\ c = 0 => Located(c, b * EPB) = DirSector + b
<1>1. CASE c = 0
  <2>1. (b * EPB + 0) \div EPB = b /\ b * EPB + 0 = b * EPB
    <3>1. EPB \in Nat \ {0} /\ 0 \in 0..EPB - 1
      BY Numbers
    <3>2. b * EPB \in Nat
      BY <3>1
    <3> QED
      BY <3>1, <3>2, DivMod
  <2> QED
    BY <1>1, <2>1 DEF Located, DirSector
<1>2. CASE c # 0
  <2>1. c \in Clusters
    BY <1>2, LinkTypes
  <2>2. b - HopsTo(b) * SPC \in Nat /\ HopsTo(b) \in Nat
    <3>1. HopsTo(b) \in Nat /\ HopsTo(b) * SPC <= b
      BY HopsBlocks
    <3>2. HopsTo(b) * SPC \in Nat
      BY <3>1, Numbers
    <3> QED
      BY <3>1, <3>2
  <2>3. Chain[<<c, HopsTo(b)>>] \in Links
    BY <2>2, ChainType
  <2>4. CASE Chain[<<c, HopsTo(b)>>] = 0
    BY <1>2, <2>1, <2>4, LocatedIs DEF FatBlock
  <2>5. CASE Chain[<<c, HopsTo(b)>>] # 0
    <3>1. ClusterSector(Chain[<<c, HopsTo(b)>>]) \in Nat
      BY <2>3, <2>5, LinkTypes, Places
    <3>2. Located(c, b * EPB) = ClusterSector(Chain[<<c, HopsTo(b)>>]) + (b - HopsTo(b) * SPC)
      BY <2>1, <2>5, LocatedIs
    <3> QED
      BY <1>2, <2>2, <3>1, <3>2
  <2> QED
    BY <2>4, <2>5
<1> QED
  BY <1>1, <1>2

(* A block below KeyBlocks is its own key. *)
LEMMA SmallKey == ASSUME NEW b \in 0..KeyBlocks - 1 PROVE b % KeyBlocks = b
<1>1. KeyBlocks \in Nat \ {0} /\ b \in Nat
  BY Numbers
<1>2. (0 * KeyBlocks + b) % KeyBlocks = b /\ 0 * KeyBlocks + b = b
  BY <1>1, DivMod
<1> QED
  BY <1>2

(* The key of an entry is the one of its block. *)
LEMMA Keys ==
  ASSUME NEW b \in Nat, NEW s \in Slot
  PROVE  /\ Key(b * EPB + s) = b % KeyBlocks /\ Key(b * EPB) = b % KeyBlocks
         /\ (b * EPB + s) \div EPB = b /\ (b * EPB + s) % EPB = s /\ (b * EPB) \div EPB = b
<1>1. EPB \in Nat \ {0} /\ 0 \in 0..EPB - 1 /\ s \in 0..EPB - 1
  BY Numbers
<1>2. (b * EPB + s) \div EPB = b /\ (b * EPB + s) % EPB = s
  BY <1>1, DivMod
<1>3. (b * EPB + 0) \div EPB = b /\ b * EPB + 0 = b * EPB
  <2>1. b * EPB \in Nat
    BY <1>1
  <2> QED
    BY <1>1, <2>1, DivMod
<1> QED
  BY <1>2, <1>3 DEF Key

-----------------------------------------------------------------------------
(* The greatest and the least number of a set that is not empty. *)
LEMMA Extremes ==
  ASSUME NEW n \in Nat, NEW T, T \subseteq 0..n, T # {}
  PROVE  /\ Max(T) \in T /\ \A y \in T : y <= Max(T)
         /\ Min(T) \in T /\ \A y \in T : Min(T) <= y
<1>0. T \subseteq Nat
  OBVIOUS
<1>1. PICK x \in T : \A y \in T : x <= y
  BY <1>0, LeastElement
<1>2. PICK z \in T : \A y \in T : y <= z
  <2> DEFINE U == {n - y : y \in T}
  <2>1. U \subseteq Nat /\ U # {}
    OBVIOUS
  <2>2. PICK u \in U : \A v \in U : u <= v
    BY <2>1, LeastElement
  <2>3. PICK z \in T : u = n - z
    BY <2>2
  <2>4. ASSUME NEW y \in T PROVE y <= z
    <3>1. n - y \in U
      OBVIOUS
    <3>2. n - z <= n - y
      BY <2>2, <2>3, <3>1
    <3> QED
      BY <3>2
  <2> QED
    BY <2>4
<1> QED
  BY <1>1, <1>2 DEF Max, Min

(* The block and the slot of an entry of a directory. *)
LEMMA ScanIndex ==
  ASSUME NEW i \in 0..DirEntries - 1
  PROVE  /\ i \div EPB \in 0..RootBlocks - 1 /\ i \div EPB \in 0..KeyBlocks - 1
         /\ i % EPB \in Slot
         /\ i = (i \div EPB) * EPB + (i % EPB) /\ i - (i % EPB) = (i \div EPB) * EPB
         /\ Key(i) = i \div EPB
         /\ (i < EPB <=> i \div EPB = 0)
<1> DEFINE k == i \div EPB
           s == i % EPB
<1>0. i \in Nat /\ EPB \in Nat \ {0}
  BY Numbers
<1>1. k \in Nat /\ s \in 0..EPB - 1 /\ i = k * EPB + s
  BY <1>0, Numbers, DivSplit
<1>2. DirEntries = RootBlocks * EPB /\ RootBlocks \in Nat /\ RootBlocks <= KeyBlocks
  BY RootSize
<1> HIDE DEF k, s
<1>3. k < RootBlocks
  <2> SUFFICES ASSUME RootBlocks <= k PROVE FALSE
    BY <1>1, <1>2
  <2>1. RootBlocks * EPB <= k * EPB /\ k * EPB \in Nat
    BY <1>1, <1>2, Numbers, Products
  <2> QED
    BY <1>1, <1>2, <2>1
<1>4. k \in 0..KeyBlocks - 1 /\ s \in Slot
  BY <1>1, <1>2, <1>3, Numbers
<1>5. Key(i) = k
  BY <1>1, <1>4, Keys, SmallKey
<1>6. k * EPB \in Nat
  BY <1>1, Numbers
<1>7. i < EPB <=> k = 0
  <2>1. CASE k = 0
    <3>1. i = s
      BY <1>0, <1>1, <2>1
    <3> QED
      BY <1>0, <1>1, <2>1, <3>1
  <2>2. CASE k # 0
    <3>1. 1 * EPB <= k * EPB
      BY <1>1, <2>2, Numbers, Products
    <3> QED
      BY <1>1, <1>6, <2>2, <3>1, <1>0
  <2> QED
    BY <2>1, <2>2
<1>8. k \in 0..RootBlocks - 1 /\ i - s = k * EPB
  BY <1>1, <1>2, <1>3, <1>6
<1> QED
  BY <1>1, <1>4, <1>5, <1>7, <1>8 DEF k, s

(* The buffer holds the block the cache says; of a directory, the cache      *)
(* knows blocks that have different keys.                                    *)
CacheOf(buf) ==
  last_cluster # None =>
    /\ buf = Located(last_cluster, last_offset * EPB)
    /\ last_cluster \in DirClusters => last_offset \in 0..KeyBlocks - 1
Honest == CacheOf(cur_blk)

(* The scan sees the blocks of the directory. *)
LEMMA ScanTrue ==
  ASSUME NEW buf, CacheOf(buf), NEW d \in Links, d \in DirClusters,
         NEW i \in 0..DirEntries - 1
  PROVE  /\ ScanBlock(buf, d, i) = Located(d, (i \div EPB) * EPB)
         /\ i < EPB /\ Hit(d, 0) => last_offset = i \div EPB
<1>1. i - (i % EPB) = (i \div EPB) * EPB /\ (i < EPB <=> i \div EPB = 0)
  BY ScanIndex
<1>2. CASE i < EPB /\ Hit(d, 0)
  <2>1. last_cluster = d /\ last_offset % KeyBlocks = Key(0)
    BY <1>2 DEF Hit
  <2>2. Key(0) = 0 /\ 0 * EPB = 0
    <3>1. 0 \in 0..KeyBlocks - 1 /\ 0 * EPB + 0 = 0 /\ 0 * EPB = 0 /\ 0 \in Nat
      BY Numbers
    <3>2. 0 % KeyBlocks = 0
      BY <3>1, SmallKey
    <3>3. Key(0 * EPB) = 0 % KeyBlocks
      BY <3>1, Keys, Numbers
    <3> QED
      BY <3>1, <3>2, <3>3
  <2>3. d # None
    BY NoLink
  <2>4. buf = Located(d, last_offset * EPB) /\ last_offset \in 0..KeyBlocks - 1
    BY <2>1, <2>3 DEF CacheOf
  <2>5. last_offset = 0
    BY <2>1, <2>2, <2>4, SmallKey
  <2> QED
    BY <1>1, <1>2, <2>2, <2>4, <2>5 DEF ScanBlock
<1>3. CASE ~ (i < EPB /\ Hit(d, 0))
  BY <1>1, <1>3 DEF ScanBlock
<1> QED
  BY <1>2, <1>3

(* What every scan of a directory leaves. *)
AfterScan(buf, d) ==
  /\ last_cluster' = d /\ last_offset' \in Nat /\ cur_blk' \in Nat /\ seen' = {}
  /\ CacheOf(buf) => Honest'

(* Where a scan ends. *)
LEMMA StopsHonest ==
  ASSUME TypeOK, NEW buf \in Nat, NEW d \in Links, d \in DirClusters,
         NEW i \in 0..DirEntries - 1, ScanStops(buf, d, i)
  PROVE  AfterScan(buf, d)
<1>1. i \div EPB \in 0..KeyBlocks - 1 /\ i - (i % EPB) = (i \div EPB) * EPB
  BY ScanIndex
<1>2. /\ last_cluster' = d /\ cur_blk' = ScanBlock(buf, d, i) /\ seen' = {}
      /\ last_offset' = IF i < EPB /\ Hit(d, 0) THEN last_offset ELSE i \div EPB
  BY DEF ScanStops
<1>3. i \div EPB \in Nat /\ Located(d, (i \div EPB) * EPB) \in Nat /\ last_offset \in Nat
  <2>1. i \div EPB \in Nat
    BY <1>1, Numbers
  <2> QED
    BY <2>1, LocatedType DEF TypeOK
<1>4. cur_blk' \in Nat /\ last_offset' \in Nat
  BY <1>1, <1>2, <1>3 DEF ScanBlock
<1>5. ASSUME CacheOf(buf) PROVE Honest'
  <2>1. cur_blk' = Located(d, (i \div EPB) * EPB) /\ last_offset' = i \div EPB
    BY <1>2, <1>5, ScanTrue
  <2> QED
    BY <1>1, <1>2, <2>1 DEF Honest, CacheOf
<1> QED
  BY <1>2, <1>4, <1>5 DEF AfterScan

(* So does a scan of the whole directory. *)
LEMMA AllHonest ==
  ASSUME TypeOK, NEW buf \in Nat, NEW d \in Links, d \in DirClusters, ScanAll(buf, d)
  PROVE  AfterScan(buf, d)
<1>1. DirEntries - 1 \in Nat /\ 0 \in 0..DirEntries - 1
  BY Numbers
<1>2. Scanned(buf, d) \subseteq 0..DirEntries - 1
  BY DEF Scanned
<1>3. Scanned(buf, d) # {} => Max(Scanned(buf, d)) \in 0..DirEntries - 1
  BY <1>1, <1>2, Extremes
<1>4. PICK i \in 0..DirEntries - 1 : ScanStops(buf, d, i)
  <2> DEFINE m == Max(Scanned(buf, d))
             i == IF Scanned(buf, d) = {} THEN 0 ELSE IF m = DirEntries - 1 THEN DirEntries - 1
                  ELSE m + 1
  <2>1. i \in 0..DirEntries - 1
    BY <1>1, <1>3
  <2>2. ScanStops(buf, d, i)
    BY DEF ScanAll
  <2> QED
    BY <2>1, <2>2, Zenon
<1> QED
  BY <1>4, StopsHonest

(* What the scan finds is an entry of the card. *)
LEMMA MatchIs ==
  ASSUME NEW buf, NEW d, NEW n, NEW dirsOnly \in BOOLEAN, Matches(buf, d, n, dirsOnly) # {}
  PROVE  /\ Min(Matches(buf, d, n, dirsOnly)) \in Matches(buf, d, n, dirsOnly)
         /\ \A i \in Matches(buf, d, n, dirsOnly) :
              /\ i \in 0..DirEntries - 1 /\ Min(Matches(buf, d, n, dirsOnly)) <= i
              /\ EntryAt(buf, d, i) \in Entries /\ EntryAt(buf, d, i) \in Entry
              /\ EntryAt(buf, d, i).name = n
<1>1. Matches(buf, d, n, dirsOnly) \subseteq 0..DirEntries - 1
  BY DEF Matches, Scanned
<1>2. DirEntries - 1 \in Nat
  BY Numbers
<1>3. ASSUME NEW i \in Matches(buf, d, n, dirsOnly)
      PROVE  /\ EntryAt(buf, d, i) \in Entries /\ EntryAt(buf, d, i) \in Entry
             /\ EntryAt(buf, d, i).name = n
  <2>1. EntryAt(buf, d, i) # None /\ EntryAt(buf, d, i).name = n
    BY DEF Matches
  <2>2. PICK b \in DOMAIN Directory : EntryAt(buf, d, i) = Directory[b][i % EPB]
    BY <2>1 DEF EntryAt
  <2>3. i % EPB \in Slot
    BY <1>1, ScanIndex
  <2>4. Directory[b][i % EPB] \in Entry \cup {None}
    BY <2>3, Sizes DEF FatAssumption
  <2> QED
    BY <2>1, <2>2, <2>3, <2>4 DEF Entries
<1> QED
  BY <1>1, <1>2, <1>3, Extremes

-----------------------------------------------------------------------------
(* The file in use is a file of the card; the directory is a directory. *)
Opened ==
  /\ Fits(file_cluster, file_size) /\ dir_cluster \in DirClusters
  /\ file_size > 0 => file_cluster \notin DirClusters
Start == (mode = "off" => last_cluster = None /\ ~ mixed) /\ (damaged => mode = "cpm")
Cached == ~ mixed => Honest
(* The cache's block of the file is one of those read in a row. *)
Traced ==
  /\ \A a, b \in seen : a % KeyBlocks = b % KeyBlocks
  /\ file_size > 0 => \A b \in seen : b < file_size
  /\ file_size > 0 /\ last_cluster = file_cluster => last_offset \in seen
(* After the second block of a boot, the cache is right again. *)
Settled ==
  mixed /\ sd_fat = 1 /\ file_size > 0 =>
    /\ mode = "boot" /\ next_blk = 1 => last_offset % KeyBlocks = 0
    /\ mode = "cpm" \/ (mode = "boot" /\ next_blk > 1) => Honest

IInv == TypeOK /\ Opened /\ Start /\ Cached /\ Traced /\ Settled /\ ReachesItsBlock

CacheType ==
  last_cluster \in Clusters \cup {0, None} /\ last_offset \in Nat /\ cur_blk \in Nat
    /\ seen \subseteq Nat
FileType ==
  /\ file_cluster \in Clusters \cup {0}
  /\ file_size \in Nat /\ file_offset \in Nat /\ (file_size > 0 => file_offset < file_size)
ModeType ==
  /\ dir_cluster \in Clusters \cup {0}
  /\ sd_fat \in {0, 1} /\ eeprom \in Names \cup {None}
  /\ mode \in {"off", "monitor", "boot", "cpm"} /\ next_blk \in 0..BootBlocks - 1
  /\ asked \in Nat \cup {None} /\ mixed \in BOOLEAN /\ damaged \in BOOLEAN

(* TypeOK in three parts. *)
LEMMA Types == TypeOK <=> CacheType /\ FileType /\ ModeType
BY DEF TypeOK, CacheType, FileType, ModeType

(* A directory's cluster is no file's. *)
LEMMA ScanTraces ==
  ASSUME NEW buf, NEW d \in Links, AfterScan(buf, d), d \in DirClusters,
         (file_size > 0 => file_cluster \notin DirClusters)'
  PROVE  CacheType' /\ Traced'
BY LinkTypes DEF AfterScan, CacheType, Traced

(* A mount leaves the cache right, and an entry of the card opened. *)
LEMMA MountKeeps ==
  ASSUME TypeOK, Opened, NEW buf \in Nat, NEW d \in Links, d \in DirClusters,
         NEW n \in Names, MountIn(buf, d, n)
  PROVE  /\ AfterScan(buf, d) /\ FileType'
         /\ Fits(file_cluster, file_size)' /\ (file_size > 0 => file_cluster \notin DirClusters)'
         /\ sd_fat' \in {0, 1} /\ eeprom' \in Names \cup {None}
<1> DEFINE M == Matches(buf, d, n, FALSE)
<1>1. CASE M = {}
  <2>1. ScanAll(buf, d) /\ sd_fat' = 0 /\ UNCHANGED <<file, eeprom>>
    BY <1>1 DEF MountIn
  <2>2. AfterScan(buf, d)
    BY <2>1, AllHonest
  <2> QED
    BY <2>1, <2>2, Types DEF file, FileType, ModeType, Opened
<1>2. CASE M # {}
  <2> DEFINE e == EntryAt(buf, d, Min(M))
  <2>1. /\ ScanStops(buf, d, Min(M)) /\ FatOpen(e)
        /\ sd_fat' = 1 /\ eeprom' = n
    BY <1>2 DEF MountIn
  <2>2. Min(M) \in 0..DirEntries - 1 /\ e \in Entries /\ e \in Entry
    BY <1>2, MatchIs
  <2>3. AfterScan(buf, d)
    BY <2>1, <2>2, StopsHonest
  <2> HIDE DEF M, e
  <2>4. /\ e.cluster \in Clusters \cup {0} /\ e.size \in Nat /\ Fits(e.cluster, e.size)
        /\ e.size > 0 => e.cluster \notin DirClusters
    BY <2>2, Sizes DEF Entry, Layout
  <2>5. /\ file_cluster' = e.cluster /\ file_size' = e.size
        /\ file_offset' = IF e.size > 0 THEN 0 ELSE file_offset
    BY <2>1 DEF FatOpen
  <2>6. file_offset \in Nat
    BY Types DEF FileType
  <2>7. FileType'
    BY <2>4, <2>5, <2>6 DEF FileType
  <2>8. Fits(file_cluster, file_size)' /\ (file_size > 0 => file_cluster \notin DirClusters)'
    BY <2>4, <2>5 DEF Fits
  <2> QED
    BY <2>1, <2>3, <2>7, <2>8
<1> QED
  BY <1>1, <1>2

(* A fetch through the cache leaves the block, or on a hit one with its key. *)
LEMMA FetchHonest ==
  ASSUME CacheType, NEW c \in Links, c \notin DirClusters, NEW b \in Nat,
         FetchCluster(c, b * EPB)
  PROVE  /\ last_cluster' = c /\ last_offset' \in Nat /\ cur_blk' \in Nat
         /\ last_offset' % KeyBlocks = b % KeyBlocks
         /\ \/ last_offset' = b
            \/ last_cluster = c /\ last_offset' = last_offset
         /\ Honest \/ b % KeyBlocks # last_offset % KeyBlocks => Honest'
<1>1. Key(b * EPB) = b % KeyBlocks /\ (b * EPB) \div EPB = b
  BY Keys, Numbers
<1>2. CASE Hit(c, b * EPB)
  <2>1. last_cluster = c /\ last_offset % KeyBlocks = b % KeyBlocks
    BY <1>1, <1>2 DEF Hit
  <2>2. UNCHANGED <<last_cluster, last_offset, cur_blk>>
    BY <1>2 DEF FetchCluster, cache
  <2> QED
    BY <2>1, <2>2 DEF CacheType, Honest, CacheOf
<1>3. CASE ~ Hit(c, b * EPB)
  <2>1. last_cluster' = c /\ last_offset' = b /\ cur_blk' = Located(c, b * EPB)
    BY <1>1, <1>3 DEF FetchCluster
  <2>2. Located(c, b * EPB) \in Nat
    BY LocatedType
  <2>3. Honest'
    BY <2>1 DEF Honest, CacheOf
  <2> QED
    BY <2>1, <2>2, <2>3
<1> QED
  BY <1>2, <1>3

(* What disk_read gets from the mounted image. *)
LEMMA ReadKeeps ==
  ASSUME TypeOK, Opened, Traced, sd_fat = 1, file_size > 0, NEW b \in Nat, DiskRead(b)
  PROVE  /\ CacheType' /\ FileType' /\ Opened' /\ Traced'
         /\ last_offset' \in seen' /\ last_offset' \in 0..file_size - 1
         /\ b < file_size => last_offset' % KeyBlocks = b % KeyBlocks
         /\ Honest => Honest'
         /\ b < file_size /\ b % KeyBlocks # last_offset % KeyBlocks => Honest'
         /\ Honest' => \/ BeginsPiece(file_cluster, last_offset')
                      \/ cur_blk' = BlockOf(file_cluster, last_offset')
<1>1. /\ file_cluster \in Links /\ file_offset \in Nat /\ file_size \in Nat
      /\ file_offset < file_size /\ file_cluster \notin DirClusters /\ 0 \in DirClusters
      /\ CacheType
  BY Types, LinkTypes DEF FileType, Opened, DirClusters
<1>2. /\ file_offset' = IF b < file_size THEN b ELSE file_offset
      /\ FetchCluster(file_cluster, file_offset' * EPB)
      /\ seen' = {file_offset'} \cup {a \in seen : a % KeyBlocks = file_offset' % KeyBlocks}
      /\ UNCHANGED <<file_cluster, file_size, dir_cluster>>
  BY DEF DiskRead, FatSeek, Sees
<1>3. /\ file_offset' \in Nat /\ file_offset' < file_size
      /\ b < file_size => file_offset' = b
  BY <1>1, <1>2
<1>4. FileType' /\ Opened'
  BY <1>1, <1>2, <1>3, LinkTypes DEF FileType, Opened, Fits
<1>5. /\ last_cluster' = file_cluster /\ last_offset' \in Nat /\ cur_blk' \in Nat
      /\ last_offset' % KeyBlocks = file_offset' % KeyBlocks
      /\ \/ last_offset' = file_offset'
         \/ last_cluster = file_cluster /\ last_offset' = last_offset
      /\ Honest \/ file_offset' % KeyBlocks # last_offset % KeyBlocks => Honest'
  BY <1>1, <1>2, <1>3, FetchHonest
<1>6. last_offset' \in seen'
  <2>1. CASE last_offset' = file_offset'
    BY <1>2, <2>1
  <2>2. CASE last_cluster = file_cluster /\ last_offset' = last_offset
    BY <1>2, <1>5, <2>2 DEF Traced
  <2> QED
    BY <1>5, <2>1, <2>2
<1>7. seen' \subseteq Nat /\ \A a \in seen' : a < file_size /\ a % KeyBlocks = file_offset' % KeyBlocks
  BY <1>1, <1>2, <1>3 DEF CacheType, Traced
<1>8. CacheType'
  BY <1>1, <1>5, <1>7, LinkTypes DEF CacheType
<1>9. Traced'
  BY <1>2, <1>6, <1>7 DEF Traced
<1>10. last_offset' \in 0..file_size - 1
  BY <1>1, <1>5, <1>6, <1>7
<1>11. ASSUME Honest'
       PROVE  \/ BeginsPiece(file_cluster, last_offset')
              \/ cur_blk' = BlockOf(file_cluster, last_offset')
  <2>1. file_cluster \in Clusters /\ file_cluster # None
    BY <1>1, LinkTypes, NoLink
  <2>2. cur_blk' = Located(file_cluster, last_offset' * EPB)
    BY <1>5, <1>11, <2>1 DEF Honest, CacheOf
  <2>3. Chain[<<file_cluster, last_offset' \div SPC>>] # 0
    BY <1>10 DEF Opened, Fits
  <2>4. last_offset' \in Nat /\ last_offset' <= last_offset'
    BY <1>5
  <2>5. ~ BeginsPiece(file_cluster, last_offset')
          => Located(file_cluster, last_offset' * EPB) = BlockOf(file_cluster, last_offset')
    BY <2>1, <2>3, <2>4, WalkReaches
  <2> QED
    BY <2>2, <2>5
<1> QED
  BY <1>3, <1>4, <1>5, <1>6, <1>8, <1>9, <1>10, <1>11

(* The invariant holds when the machine is switched on. *)
LEMMA Initially == Init => IInv
<1> SUFFICES ASSUME Init PROVE IInv
  OBVIOUS
<1>1. TypeOK
  <2>1. CacheType
    BY DEF Init, CacheType, Mbr
  <2>2. FileType
    BY DEF Init, FileType
  <2>3. ModeType
    <3>1. MountNames \subseteq Names
      BY Sizes DEF FatAssumption
    <3> QED
      BY <3>1, Numbers DEF Init, ModeType
  <2> QED
    BY <2>1, <2>2, <2>3, Types
<1>2. Opened
  BY DEF Init, Opened, Fits, DirClusters
<1>3. Start /\ Cached /\ Settled /\ Traced
  BY DEF Init, Start, Cached, Settled, Honest, CacheOf, Traced
<1>4. ReachesItsBlock
  BY DEF Init, ReachesItsBlock, ImageRead
<1> QED
  BY <1>1, <1>2, <1>3, <1>4 DEF IInv

(* An action of the monitor answers no read and leaves the monitor running.  *)
LEMMA Idle ==
  ASSUME IInv, CacheType', FileType', ModeType', Opened', Traced',
         mode' \in {"monitor", "boot"}, next_blk' = 0 \/ mode' = "monitor", asked' = None,
         ~ damaged', ~ mixed' => Honest'
  PROVE  IInv'
<1>1. TypeOK'
  BY DEF TypeOK, CacheType, FileType, ModeType
<1>2. Start' /\ Cached' /\ Settled' /\ ReachesItsBlock'
  <2>1. mode' # "off" /\ ~ (mode' = "cpm") /\ ~ (mode' = "boot" /\ next_blk' > 1)
        /\ ~ (mode' = "boot" /\ next_blk' = 1)
    BY DEF ModeType
  <2> QED
    BY <2>1 DEF Start, Cached, Settled, ReachesItsBlock, ImageRead
<1> QED
  BY <1>1, <1>2 DEF IInv

(* What every command of the monitor has in common. *)
LEMMA MonitorKeeps ==
  ASSUME IInv, NEW c, Monitor(c)
  PROVE  /\ mode = "monitor" /\ asked' = None /\ asked' \in Nat \cup {None}
         /\ damaged' = FALSE /\ damaged' \in BOOLEAN
         /\ mixed' \in BOOLEAN /\ (~ mixed' => ~ mixed /\ Honest)
         /\ c \in {"sf", "cd /"} => mixed'
         /\ TypeOK /\ CacheType /\ FileType /\ ModeType /\ Opened /\ Traced
<1>1. TypeOK /\ CacheType /\ FileType /\ ModeType /\ Opened /\ Traced /\ Cached
  BY Types DEF IInv
<1>2. mode = "monitor" /\ asked' = None /\ mixed' = (mixed \/ c \in {"sf", "cd /"})
      /\ damaged' = damaged /\ ~ damaged
  BY DEF Monitor
<1>3. damaged = FALSE
  BY <1>1, <1>2 DEF ModeType
<1>4. mixed' \in BOOLEAN /\ (~ mixed' => ~ mixed) /\ (c \in {"sf", "cd /"} => mixed')
  BY <1>1, <1>2, Zenon DEF ModeType
<1> QED
  BY <1>1, <1>2, <1>3, <1>4 DEF Cached

(* Each action keeps the invariant. *)
LEMMA LsKeeps == ASSUME IInv, Ls PROVE IInv'
<1>1. Monitor("ls") /\ ScanAll(cur_blk, dir_cluster)
      /\ UNCHANGED <<dir_cluster, file, sd_fat, eeprom, mode, next_blk>>
  BY DEF Ls
<1>2. dir_cluster \in Links /\ dir_cluster \in DirClusters /\ cur_blk \in Nat
  BY <1>1, MonitorKeeps, LinkTypes DEF CacheType, ModeType, Opened
<1>3. AfterScan(cur_blk, dir_cluster)
  BY <1>1, <1>2, MonitorKeeps, AllHonest
<1>4. FileType' /\ Opened' /\ ModeType'
  BY <1>1, MonitorKeeps DEF FileType, Opened, ModeType, file
<1>5. CacheType' /\ Traced' /\ (Honest => Honest')
  BY <1>2, <1>3, <1>4, ScanTraces DEF Opened, AfterScan, Honest
<1> QED
  BY <1>1, <1>4, <1>5, MonitorKeeps, Idle

LEMMA CdKeeps == ASSUME IInv, NEW n \in Names, Cd(n) PROVE IInv'
<1> DEFINE M == Matches(cur_blk, dir_cluster, n, TRUE)
<1>1. Monitor("cd") /\ UNCHANGED <<file, sd_fat, eeprom, mode, next_blk>>
  BY DEF Cd
<1>2. dir_cluster \in Links /\ dir_cluster \in DirClusters /\ cur_blk \in Nat
  BY <1>1, MonitorKeeps, LinkTypes DEF CacheType, ModeType, Opened
<1>3. AfterScan(cur_blk, dir_cluster) /\ dir_cluster' \in Links /\ dir_cluster' \in DirClusters
  <2>1. CASE M = {}
    <3>1. ScanAll(cur_blk, dir_cluster) /\ dir_cluster' = dir_cluster
      BY <2>1 DEF Cd
    <3> QED
      BY <1>1, <1>2, <3>1, MonitorKeeps, AllHonest
  <2>2. CASE M # {}
    <3> DEFINE e == EntryAt(cur_blk, dir_cluster, Min(M))
    <3>1. ScanStops(cur_blk, dir_cluster, Min(M)) /\ dir_cluster' = e.cluster
      BY <2>2 DEF Cd
    <3>2. Min(M) \in 0..DirEntries - 1 /\ e \in Entry /\ e \in Entries /\ Min(M) \in M
      BY <2>2, MatchIs
    <3>3. e.isDir
      BY <3>2 DEF Matches
    <3> HIDE DEF e, M
    <3>4. e.cluster \in Links /\ e.cluster \in DirClusters
      BY <3>2, <3>3, LinkTypes DEF Entry, DirClusters
    <3> QED
      BY <1>1, <1>2, <3>1, <3>2, <3>4, MonitorKeeps, StopsHonest
  <2> QED
    BY <2>1, <2>2
<1>4. FileType' /\ ModeType' /\ Opened'
  BY <1>1, <1>3, MonitorKeeps, LinkTypes DEF FileType, Opened, ModeType, file
<1>5. CacheType' /\ Traced' /\ (Honest => Honest')
  BY <1>2, <1>3, <1>4, ScanTraces DEF Opened, AfterScan, Honest
<1> QED
  BY <1>1, <1>4, <1>5, MonitorKeeps, Idle

LEMMA CdRootKeeps == ASSUME IInv, CdRoot PROVE IInv'
<1>1. Monitor("cd /") /\ dir_cluster' = 0 /\ cur_blk' = Bpb
      /\ UNCHANGED <<file, last_cluster, last_offset, sd_fat, eeprom, mode, next_blk, seen>>
  BY DEF CdRoot
<1>2. CacheType' /\ FileType' /\ ModeType'
  BY <1>1, MonitorKeeps DEF FileType, ModeType, CacheType, Bpb, file
<1>3. Opened' /\ Traced'
  BY <1>1, MonitorKeeps DEF Opened, Traced, file, DirClusters
<1> QED
  BY <1>1, <1>2, <1>3, MonitorKeeps, Idle

LEMMA SdFetchKeeps == ASSUME IInv, NEW b \in MonBlocks, SdFetch(b) PROVE IInv'
<1>1. Monitor("sf") /\ cur_blk' = b
      /\ UNCHANGED <<dir_cluster, file, last_cluster, last_offset, sd_fat, eeprom, mode,
                     next_blk, seen>>
  BY DEF SdFetch
<1>2. b \in Nat
  BY Sizes DEF FatAssumption
<1>3. CacheType' /\ FileType' /\ ModeType'
  BY <1>1, <1>2, MonitorKeeps DEF FileType, ModeType, CacheType, file
<1>4. Opened' /\ Traced'
  BY <1>1, MonitorKeeps DEF Opened, Traced, file
<1> QED
  BY <1>1, <1>3, <1>4, MonitorKeeps, Idle

LEMMA MountIsKept == ASSUME IInv, NEW n \in MountNames, Mount(n) PROVE IInv'
<1>1. Monitor("m") /\ MountIn(cur_blk, dir_cluster, n) /\ UNCHANGED <<dir_cluster, mode, next_blk>>
  BY DEF Mount
<1>2. n \in Names
  BY Sizes DEF FatAssumption
<1>3. dir_cluster \in Links /\ dir_cluster \in DirClusters /\ cur_blk \in Nat
  BY <1>1, MonitorKeeps, LinkTypes DEF CacheType, ModeType, Opened
<1>4. /\ AfterScan(cur_blk, dir_cluster) /\ FileType'
      /\ Fits(file_cluster, file_size)' /\ (file_size > 0 => file_cluster \notin DirClusters)'
      /\ sd_fat' \in {0, 1} /\ eeprom' \in Names \cup {None}
  BY <1>1, <1>2, <1>3, MonitorKeeps, MountKeeps
<1>5. ModeType'
  BY <1>1, <1>4, MonitorKeeps DEF ModeType
<1>6. Opened'
  BY <1>1, <1>3, <1>4 DEF Opened
<1>7. CacheType' /\ Traced' /\ (Honest => Honest')
  BY <1>3, <1>4, ScanTraces DEF AfterScan, Honest
<1> QED
  BY <1>1, <1>4, <1>5, <1>6, <1>7, MonitorKeeps, Idle

LEMMA MachineBootKeeps == ASSUME IInv, MachineBoot PROVE IInv'
<1>1. CacheType /\ FileType /\ ModeType /\ Opened /\ Traced /\ Start /\ TypeOK
  BY Types DEF IInv
<1>2. /\ dir_cluster' = 0 /\ mode' \in {"monitor", "boot"} /\ next_blk' = 0 /\ asked' = None
      /\ damaged' = damaged /\ mixed' = (mixed \/ mode = "monitor")
      /\ mode \in {"off", "monitor"}
  BY DEF MachineBoot
<1>3. damaged' = FALSE /\ mixed' \in BOOLEAN
  <2>1. damaged = FALSE
    <3>1. mode # "cpm"
      BY <1>2
    <3>2. ~ damaged
      BY <1>1, <3>1, Zenon DEF Start
    <3> QED
      BY <1>1, <3>2 DEF ModeType
  <2>2. mixed' \in BOOLEAN
    BY <1>1, <1>2, Zenon DEF ModeType
  <2> QED
    BY <1>2, <2>1, <2>2
<1>4. ~ mixed' => last_cluster = None
  BY <1>1, <1>2, Zenon DEF Start
<1>5. 0 \in Links /\ 0 \in DirClusters /\ Bpb \in Nat
  BY LinkTypes DEF DirClusters, Bpb
<1>6. CASE eeprom # None
  <2>1. MountIn(Bpb, 0, eeprom)
    BY <1>6 DEF MachineBoot
  <2>2. eeprom \in Names
    BY <1>1, <1>6 DEF ModeType
  <2>3. /\ AfterScan(Bpb, 0) /\ FileType'
        /\ Fits(file_cluster, file_size)' /\ (file_size > 0 => file_cluster \notin DirClusters)'
        /\ sd_fat' \in {0, 1} /\ eeprom' \in Names \cup {None}
    BY <1>1, <1>5, <2>1, <2>2, MountKeeps
  <2>4. ~ mixed' => Honest'
    BY <1>4, <2>3 DEF AfterScan, CacheOf
  <2>5. ModeType'
    BY <1>2, <1>3, <2>3, Numbers DEF ModeType
  <2>6. Opened'
    BY <1>2, <1>5, <2>3 DEF Opened
  <2>7. CacheType' /\ Traced'
    BY <1>5, <2>3, ScanTraces
  <2> QED
    BY <1>2, <1>3, <2>3, <2>4, <2>5, <2>6, <2>7, Idle
<1>7. CASE eeprom = None
  <2>1. cur_blk' = Bpb /\ sd_fat' = 1
        /\ UNCHANGED <<file, last_cluster, last_offset, eeprom, seen>>
    BY <1>7 DEF MachineBoot
  <2>2. CacheType' /\ FileType'
    BY <1>1, <2>1 DEF CacheType, FileType, Bpb, file
  <2>3. ModeType'
    BY <1>1, <1>2, <1>3, <2>1, Numbers DEF ModeType
  <2>4. ~ mixed' => Honest'
    BY <1>4, <2>1 DEF Honest, CacheOf
  <2>5. Opened' /\ Traced'
    BY <1>1, <1>2, <1>5, <2>1 DEF Opened, Traced, file
  <2> QED
    BY <1>2, <1>3, <2>2, <2>3, <2>4, <2>5, Idle
<1> QED
  BY <1>6, <1>7

LEMMA BootKeeps == ASSUME IInv, Boot PROVE IInv'
<1>1. Monitor("b") /\ mode' = "boot" /\ next_blk' = 0
      /\ UNCHANGED <<dir_cluster, file, cache, sd_fat, eeprom, seen>>
  BY DEF Boot
<1>2. CacheType' /\ FileType' /\ Opened' /\ Traced' /\ (Honest => Honest')
  BY <1>1, MonitorKeeps DEF FileType, Opened, Traced, CacheType, Honest, CacheOf, file, cache
<1>3. ModeType'
  BY <1>1, MonitorKeeps, Numbers DEF ModeType
<1> QED
  BY <1>1, <1>2, <1>3, MonitorKeeps, Idle

LEMMA HaltKeeps == ASSUME IInv, Halt PROVE IInv'
<1>1. mode' = "monitor" /\ asked' = None /\ ~ damaged
      /\ UNCHANGED <<dir_cluster, file, cache, sd_fat, eeprom, next_blk, seen, mixed, damaged>>
  BY DEF Halt
<1>2. CacheType /\ FileType /\ ModeType /\ Opened /\ Traced /\ Cached
  BY Types DEF IInv
<1>3. CacheType' /\ FileType' /\ Opened' /\ Traced'
  BY <1>1, <1>2 DEF FileType, Opened, Traced, CacheType, file, cache
<1>4. ModeType' /\ (Honest => Honest')
  BY <1>1, <1>2 DEF ModeType, Honest, CacheOf, file, cache
<1> QED
  BY <1>1, <1>2, <1>3, <1>4, Idle DEF Cached

(* What a read of the image leaves, ReachesItsBlock says. *)
LEMMA Reached ==
  ASSUME NEW b \in Nat, asked' = b, UNCHANGED <<file_cluster, file_size>>,
         last_offset' \in seen', b < file_size => last_offset' % KeyBlocks = b % KeyBlocks,
         Honest' => \/ BeginsPiece(file_cluster, last_offset')
                   \/ cur_blk' = BlockOf(file_cluster, last_offset'),
         (mixed' => mode' = "cpm") => Honest'
  PROVE  ReachesItsBlock'
<1> SUFFICES ASSUME mixed' => mode' = "cpm", b < file_size
             PROVE  \E a \in seen' :
                      /\ a % KeyBlocks = b % KeyBlocks
                      /\ (BeginsPiece(file_cluster, a) \/ cur_blk' = BlockOf(file_cluster, a))
  BY DEF ReachesItsBlock, ImageRead, BeginsPiece, BlockOf
<1> QED
  OBVIOUS

(* The first two blocks of a boot have different keys: the second one is     *)
(* fetched, whatever the buffer held before.                                 *)
LEMMA BootReadKeeps == ASSUME IInv, BootRead PROVE IInv'
<1>1. CacheType /\ FileType /\ ModeType /\ Opened /\ Traced /\ Cached /\ Settled /\ Start /\ TypeOK
  BY Types DEF IInv
<1>2. /\ mode = "boot" /\ asked' = next_blk /\ DiskRead(next_blk)
      /\ UNCHANGED <<dir_cluster, file_cluster, file_size, sd_fat, eeprom, damaged>>
      /\ mixed' = (mixed \/ sd_fat = 0 \/ file_size = 0)
  BY DEF BootRead, DiskRead
<1>3. IF next_blk + 1 < BootBlocks THEN next_blk' = next_blk + 1 /\ mode' = "boot"
      ELSE next_blk' = 0 /\ mode' = "cpm"
  BY <1>2 DEF BootRead
<1>4. next_blk \in 0..BootBlocks - 1 /\ BootBlocks \in Nat \ {0, 1} /\ next_blk \in Nat
      /\ file_size \in Nat /\ file_size # 1
  BY <1>1, Numbers DEF ModeType, FileType, Opened, Fits
<1>5. /\ mode' \in {"boot", "cpm"} /\ next_blk' \in 0..BootBlocks - 1
      /\ mode' = "boot" /\ next_blk' = 1 => next_blk = 0
      /\ mode' = "cpm" \/ (mode' = "boot" /\ next_blk' > 1) => next_blk >= 1
  BY <1>3, <1>4
<1> DEFINE read == sd_fat = 1 /\ file_size > 0
<1>6. mixed' \in BOOLEAN /\ (read => mixed' = mixed) /\ (~ read => mixed')
  <2>1. mixed \in BOOLEAN /\ sd_fat \in {0, 1}
    BY <1>1 DEF ModeType
  <2>2. mixed' \in BOOLEAN
    BY <1>2, <2>1, Zenon
  <2>3. /\ sd_fat = 1 => ~ (sd_fat = 0)
        /\ file_size > 0 => ~ (file_size = 0)
        /\ ~ read => sd_fat = 0 \/ file_size = 0
    BY <1>4, <2>1
  <2> HIDE DEF read
  <2>4. read => sd_fat = 1 /\ file_size > 0
    BY DEF read
  <2>5. read => mixed' = mixed
    BY <1>2, <2>1, <2>3, <2>4, Zenon
  <2>6. ~ read => mixed'
    BY <1>2, <2>1, <2>3, Zenon
  <2> QED
    BY <2>2, <2>5, <2>6
<1>7. ModeType'
  BY <1>1, <1>2, <1>4, <1>5, <1>6 DEF ModeType
<1>8. Start'
  BY <1>1, <1>2, <1>5 DEF Start
<1>9. CASE ~ read
  <2>1. CacheType' /\ FileType' /\ Opened' /\ Traced'
    <3>1. CASE sd_fat = 0
      <4>1. cur_blk' = next_blk /\ UNCHANGED <<last_cluster, last_offset, file_offset, seen>>
        BY <1>2, <3>1 DEF DiskRead
      <4> QED
        BY <1>1, <1>2, <1>4, <4>1 DEF CacheType, FileType, Opened, Traced
    <3>2. CASE sd_fat # 0
      <4>1. file_size = 0 /\ file_offset \in Nat /\ file_cluster \in Links
        BY <1>1, <1>4, <1>9, <3>2, LinkTypes DEF ModeType, FileType
      <4>2. /\ file_offset' = file_offset
            /\ FetchCluster(file_cluster, file_offset * EPB)
            /\ seen' = {file_offset} \cup {a \in seen : a % KeyBlocks = file_offset % KeyBlocks}
        BY <1>2, <1>4, <3>2, <4>1 DEF DiskRead, FatSeek, Sees
      <4>3. (file_offset * EPB) \div EPB = file_offset
            /\ Located(file_cluster, file_offset * EPB) \in Nat
        BY <4>1, Keys, Numbers, LocatedType
      <4>4. CacheType'
        BY <1>1, <4>1, <4>2, <4>3, LinkTypes DEF FetchCluster, CacheType, cache
      <4>5. FileType' /\ Opened'
        BY <1>1, <1>2, <4>2 DEF FileType, Opened
      <4>6. Traced'
        BY <1>2, <4>1, <4>2 DEF Traced
      <4> QED
        BY <4>4, <4>5, <4>6
    <3> QED
      BY <3>1, <3>2
  <2>2. TypeOK'
    BY <1>7, <2>1 DEF TypeOK, CacheType, FileType, ModeType
  <2>3. mixed' /\ ~ (sd_fat' = 1 /\ file_size' > 0)
    BY <1>2, <1>6, <1>9
  <2>4. Cached' /\ Settled'
    BY <2>3 DEF Cached, Settled
  <2>5. ReachesItsBlock'
    <3>1. ~ (sd_fat' = 1 /\ asked' < file_size')
      BY <1>2, <1>4, <2>3
    <3> QED
      BY <3>1 DEF ReachesItsBlock, ImageRead
  <2> QED
    BY <1>8, <2>1, <2>2, <2>4, <2>5 DEF IInv
<1>10. CASE read
  <2>1. /\ CacheType' /\ FileType' /\ Opened' /\ Traced'
        /\ last_offset' \in seen'
        /\ next_blk < file_size => last_offset' % KeyBlocks = next_blk % KeyBlocks
        /\ Honest => Honest'
        /\ next_blk < file_size /\ next_blk % KeyBlocks # last_offset % KeyBlocks => Honest'
        /\ Honest' => \/ BeginsPiece(file_cluster, last_offset')
                     \/ cur_blk' = BlockOf(file_cluster, last_offset')
    BY <1>1, <1>2, <1>4, <1>10, ReadKeeps
  <2>2. mixed' = mixed /\ file_size' = file_size /\ file_cluster' = file_cluster /\ sd_fat' = 1
    BY <1>2, <1>6, <1>10
  <2>3. TypeOK'
    BY <1>7, <2>1 DEF TypeOK, CacheType, FileType, ModeType
  <2>4. Cached'
    BY <1>1, <2>1, <2>2 DEF Cached
  <2>5. 0 % KeyBlocks = 0 /\ 1 % KeyBlocks = 1
    BY Numbers, SmallKey
  <2>6. ASSUME mixed, next_blk >= 1 PROVE Honest'
    <3>1. CASE next_blk = 1
      <4>1. last_offset % KeyBlocks = 0 /\ next_blk < file_size
        BY <1>1, <1>2, <1>4, <1>10, <2>6, <3>1 DEF Settled
      <4> QED
        BY <2>1, <2>5, <3>1, <4>1
    <3>2. CASE next_blk > 1
      <4>1. Honest
        BY <1>1, <1>2, <1>10, <2>6, <3>2 DEF Settled
      <4> QED
        BY <2>1, <4>1
    <3> QED
      BY <1>4, <2>6, <3>1, <3>2
  <2>7. Settled'
    <3> SUFFICES ASSUME mixed
                 PROVE  /\ mode' = "boot" /\ next_blk' = 1 => last_offset' % KeyBlocks = 0
                        /\ mode' = "cpm" \/ (mode' = "boot" /\ next_blk' > 1) => Honest'
      BY <2>2 DEF Settled
    <3>1. ASSUME mode' = "boot", next_blk' = 1 PROVE last_offset' % KeyBlocks = 0
      BY <1>4, <1>5, <1>10, <2>1, <2>5, <3>1
    <3>2. ASSUME mode' = "cpm" \/ (mode' = "boot" /\ next_blk' > 1) PROVE Honest'
      BY <1>5, <2>6, <3>2
    <3> QED
      BY <3>1, <3>2
  <2>8. (mixed' => mode' = "cpm") => Honest'
    <3>1. CASE mixed
      BY <1>5, <2>2, <2>6, <3>1
    <3>2. CASE ~ mixed
      BY <1>1, <2>1, <3>2 DEF Cached
    <3> QED
      BY <3>1, <3>2
  <2>9. ReachesItsBlock'
    BY <1>2, <1>4, <2>1, <2>8, Reached
  <2> QED
    BY <1>8, <2>1, <2>3, <2>4, <2>7, <2>9 DEF IInv
<1> QED
  BY <1>9, <1>10

(* A command finds the cache right; it writes outside the image only where   *)
(* it asks for the first block of a piece.                                   *)
LEMMA CommandKeeps ==
  ASSUME IInv, NEW b \in DiskBlocks, NEW write \in BOOLEAN, Command(b, write)
  PROVE  /\ IInv'
         /\ damaged' => damaged \/ \E a \in seen' : BeginsPiece(file_cluster', a)
<1>1. CacheType /\ FileType /\ ModeType /\ Opened /\ Traced /\ Cached /\ Settled /\ TypeOK
  BY Types DEF IInv
<1>2. /\ mode = "cpm" /\ sd_fat = 1 /\ file_size > 0 /\ asked' = b /\ DiskRead(b)
      /\ UNCHANGED <<dir_cluster, file_cluster, file_size, sd_fat, eeprom, mode, next_blk, mixed>>
      /\ damaged' = (damaged \/ (write /\ cur_blk' \notin FileBlocks))
  BY DEF Command, DiskRead
<1>3. b \in Nat
  BY Sizes DEF FatAssumption
<1>4. Honest
  <2>1. CASE mixed
    BY <1>1, <1>2, <2>1 DEF Settled
  <2>2. CASE ~ mixed
    BY <1>1, <2>2 DEF Cached
  <2> QED
    BY <2>1, <2>2
<1>5. /\ CacheType' /\ FileType' /\ Opened' /\ Traced' /\ Honest'
      /\ last_offset' \in seen' /\ last_offset' \in 0..file_size - 1
      /\ b < file_size => last_offset' % KeyBlocks = b % KeyBlocks
      /\ \/ BeginsPiece(file_cluster, last_offset')
         \/ cur_blk' = BlockOf(file_cluster, last_offset')
  BY <1>1, <1>2, <1>3, <1>4, ReadKeeps
<1>6. damaged' \in BOOLEAN
  <2>1. damaged \in BOOLEAN
    BY <1>1 DEF ModeType
  <2> QED
    BY <1>2, <2>1, Zenon
<1>7. ModeType'
  BY <1>1, <1>2, <1>3, <1>6 DEF ModeType
<1>8. TypeOK'
  BY <1>5, <1>7 DEF TypeOK, CacheType, FileType, ModeType
<1>9. Start' /\ Cached' /\ Settled'
  BY <1>2, <1>5 DEF Start, Cached, Settled
<1>10. ReachesItsBlock'
  BY <1>2, <1>3, <1>5, Reached
<1>11. damaged' => damaged \/ \E a \in seen' : BeginsPiece(file_cluster', a)
  <2>1. CASE BeginsPiece(file_cluster, last_offset')
    <3>1. BeginsPiece(file_cluster', last_offset')
      BY <1>2, <2>1
    <3> QED
      BY <1>5, <3>1
  <2>2. CASE cur_blk' = BlockOf(file_cluster, last_offset')
    <3>1. cur_blk' \in FileBlocks
      BY <1>5, <2>2 DEF FileBlocks
    <3> QED
      BY <1>2, <3>1, Zenon
  <2> QED
    BY <1>5, <2>1, <2>2
<1> QED
  BY <1>5, <1>8, <1>9, <1>10, <1>11 DEF IInv

(* The invariant is inductive. *)
LEMMA StepKeeps == IInv /\ [Next]_vars => IInv'
<1> SUFFICES ASSUME IInv, [Next]_vars PROVE IInv'
  OBVIOUS
<1>1. CASE UNCHANGED vars
  <2>1. UNCHANGED <<dir_cluster, file_cluster, file_offset, file_size, last_cluster, last_offset,
                    cur_blk, sd_fat, eeprom, mode, next_blk, asked, seen, mixed, damaged>>
    BY <1>1 DEF vars, file, cache
  <2>2. TypeOK' /\ Opened' /\ Start' /\ Cached' /\ Traced'
    BY <2>1 DEF IInv, TypeOK, Opened, Start, Cached, Traced, Honest, CacheOf
  <2>3. Settled' /\ ReachesItsBlock'
    BY <2>1 DEF IInv, Settled, Honest, CacheOf, ReachesItsBlock, ImageRead
  <2> QED
    BY <2>2, <2>3 DEF IInv
<1>2. CASE Next
  BY <1>2, MachineBootKeeps, BootKeeps, BootReadKeeps, HaltKeeps, LsKeeps, CdRootKeeps,
     MountIsKept, CdKeeps, SdFetchKeeps, CommandKeeps DEF Next
<1> QED
  BY <1>1, <1>2

LEMMA Inductive == Spec => []IInv
BY Initially, StepKeeps, PTL DEF Spec

(* For every card of the layout, the offsets, the cache and the boot keep to *)
(* their ranges.                                                             *)
THEOREM FatTyping == Spec => []TypeOK
<1>1. IInv => TypeOK
  BY DEF IInv
<1> QED
  BY <1>1, Inductive, PTL

(* What boot() and the controller get for a block of the mounted image is    *)
(* that block, or one read just before it with the same low 16 bits of its   *)
(* offset, on a card of any fragmentation but for the first blocks of its    *)
(* pieces (fetch_cluster, fat_seek, disk_read).                              *)
THEOREM BlockReached == Spec => []ReachesItsBlock
<1>1. IInv => ReachesItsBlock
  BY DEF IInv
<1> QED
  BY <1>1, Inductive, PTL

(* An image whose blocks the key tells apart and whose clusters follow one   *)
(* another is read exactly, whatever was read before (fetch_cluster).        *)
Plain == file_size <= KeyBlocks /\ \A b \in 0..file_size - 1 : ~ BeginsPiece(file_cluster, b)
THEOREM PlainImageRead == Spec => [](Plain => FileRead)
<1>1. ASSUME IInv, Plain, ImageRead PROVE cur_blk = BlockOf(file_cluster, asked)
  <2>1. /\ file_size \in Nat /\ asked \in Nat /\ asked < file_size
        /\ \A b \in seen : b < file_size /\ b \in Nat
    BY <1>1 DEF IInv, TypeOK, Traced, ImageRead
  <2>2. PICK b \in seen :
          /\ b % KeyBlocks = asked % KeyBlocks
          /\ (BeginsPiece(file_cluster, b) \/ cur_blk = BlockOf(file_cluster, b))
    BY <1>1 DEF IInv, ReachesItsBlock
  <2>3. b \in 0..KeyBlocks - 1 /\ asked \in 0..KeyBlocks - 1 /\ b \in 0..file_size - 1
    BY <1>1, <2>1, Numbers DEF Plain
  <2>4. b = asked
    BY <2>2, <2>3, SmallKey
  <2> QED
    BY <1>1, <2>2, <2>3, <2>4 DEF Plain
<1>2. IInv => (Plain => FileRead)
  BY <1>1 DEF FileRead
<1> QED
  BY <1>2, Inductive, PTL

(* A write goes outside the mounted image only where a command asks for the  *)
(* first block of a piece (fat_seek, disk_write).                            *)
THEOREM ImageKept == Spec => StaysInImage
<1>1. ASSUME IInv, Next, damaged', ~ damaged
      PROVE  \E b \in seen' : BeginsPiece(file_cluster', b)
  <2>1. CASE \E b \in DiskBlocks, write \in BOOLEAN : Command(b, write)
    BY <1>1, <2>1, CommandKeeps
  <2>2. CASE ~ \E b \in DiskBlocks, write \in BOOLEAN : Command(b, write)
    <3>1. \A c \in {"r", "b", "ls", "cd", "cd /", "m", "sf"} : Monitor(c) => damaged' = damaged
      BY DEF Monitor
    <3>2. damaged' = damaged
      BY <1>1, <2>2, <3>1 DEF Next, MachineBoot, Boot, BootRead, Halt, Ls, CdRoot, Mount, Cd, SdFetch
    <3> QED
      BY <1>1, <3>2
  <2> QED
    BY <2>1, <2>2
<1>2. IInv /\ [Next]_vars =>
        [damaged' => damaged \/ \E b \in seen' : BeginsPiece(file_cluster', b)]_vars
  BY <1>1
<1> QED
  BY <1>2, Inductive, PTL DEF Spec, StaysInImage

-----------------------------------------------------------------------------
(* A block of a directory: the scan reaches it, and the blocks before it.    *)
LEMMA DirectoryBlock ==
  ASSUME NEW d \in Links, InOnePiece(d), NEW b \in DirBlocks(d)
  PROVE  \E k \in 0..RootBlocks - 1 :
           /\ b = Located(d, k * EPB)
           /\ \A a \in 0..k : Located(d, a * EPB) # FatBlock /\ Located(d, a * EPB) \in DirBlocks(d)
<1>1. RootBlocks \in Nat
  BY RootSize
<1>2. CASE d = 0
  <2>1. PICK k \in 0..RootBlocks - 1 : b = DirSector + k
    BY <1>2 DEF DirBlocks
  <2>2. ASSUME NEW a \in 0..k
        PROVE  Located(d, a * EPB) = DirSector + a /\ a \in 0..RootBlocks - 1
    BY <1>1, <1>2, LocatedType
  <2>3. ASSUME NEW a \in 0..k
        PROVE  Located(d, a * EPB) # FatBlock /\ Located(d, a * EPB) \in DirBlocks(d)
    BY <1>2, <2>2 DEF DirBlocks, DirSector, FatBlock
  <2>4. b = Located(d, k * EPB)
    BY <1>1, <2>1, <2>2
  <2> QED
    BY <2>3, <2>4
<1>3. CASE d # 0
  <2>1. d \in Clusters
    BY <1>3, LinkTypes
  <2>2. PICK k \in 0..RootBlocks - 1 : Chain[<<d, k \div SPC>>] # 0 /\ b = BlockOf(d, k)
    BY <1>3 DEF DirBlocks
  <2>3. ASSUME NEW a \in 0..k
        PROVE  /\ Located(d, a * EPB) = BlockOf(d, a) /\ Located(d, a * EPB) # FatBlock
               /\ Chain[<<d, a \div SPC>>] # 0 /\ a \in 0..RootBlocks - 1
    <3>1. a \in 0..RootBlocks - 1 /\ a \in Nat /\ a <= k /\ k \in Nat
      BY <1>1
    <3>2. ~ BeginsPiece(d, a)
      BY <3>1 DEF InOnePiece
    <3> QED
      BY <2>1, <2>2, <3>1, <3>2, WalkReaches
  <2>4. ASSUME NEW a \in 0..k PROVE Located(d, a * EPB) \in DirBlocks(d)
    BY <1>3, <2>3 DEF DirBlocks
  <2>5. b = Located(d, k * EPB)
    BY <1>1, <2>2, <2>3
  <2> QED
    BY <2>3, <2>4, <2>5
<1> QED
  BY <1>2, <1>3

(* The scan of a directory finds the entry of a name that is in it.          *)
LEMMA ScanFinds ==
  ASSUME TypeOK, NEW buf, CacheOf(buf), NEW d \in Links, d \in DirClusters, InOnePiece(d),
         NEW e \in EntriesOf(d)
  PROVE  /\ Matches(buf, d, e.name, FALSE) # {}
         /\ EntryAt(buf, d, Min(Matches(buf, d, e.name, FALSE))) = e
<1> DEFINE M == Matches(buf, d, e.name, FALSE)
<1>1. PICK b \in DirBlocks(d) \cap DOMAIN Directory, s \in Slot : e = Directory[b][s] /\ e # None
  BY DEF EntriesOf
<1>2. PICK k \in 0..RootBlocks - 1 :
        /\ b = Located(d, k * EPB)
        /\ \A a \in 0..k : Located(d, a * EPB) # FatBlock /\ Located(d, a * EPB) \in DirBlocks(d)
  BY <1>1, DirectoryBlock
<1> DEFINE i == k * EPB + s
<1>3. i \in 0..DirEntries - 1 /\ i \div EPB = k /\ i % EPB = s /\ k \in Nat
  <2>1. k \in Nat /\ RootBlocks \in Nat /\ k + 1 <= RootBlocks /\ s \in 0..EPB - 1
    BY RootSize, Numbers
  <2>2. (k + 1) * EPB <= RootBlocks * EPB /\ (k + 1) * EPB = k * EPB + EPB /\ k * EPB \in Nat
    BY <2>1, Numbers, Products
  <2>3. i \div EPB = k /\ i % EPB = s
    BY <2>1, Numbers, DivMod
  <2> QED
    BY <2>1, <2>2, <2>3, RootSize, Numbers
<1> HIDE DEF i
<1>4. ASSUME NEW j \in 0..i
      PROVE  /\ j \in 0..DirEntries - 1 /\ j \div EPB \in 0..k /\ j % EPB \in Slot
             /\ ScanBlock(buf, d, j) = Located(d, (j \div EPB) * EPB)
  <2>1. j \in 0..DirEntries - 1 /\ j \in Nat /\ i \in Nat /\ j <= i
    BY <1>3, Numbers
  <2>2. j \div EPB <= k /\ j \div EPB \in Nat
    BY <1>3, <2>1, Numbers, DivSplit, DivMonotone
  <2> QED
    BY <1>3, <2>1, <2>2, ScanTrue, ScanIndex
<1>5. i \in Scanned(buf, d)
  BY <1>2, <1>3, <1>4 DEF Scanned
<1>6. EntryAt(buf, d, i) = e
  <2>1. ScanBlock(buf, d, i) = b
    BY <1>2, <1>3, <1>4
  <2> QED
    BY <1>1, <1>3, <2>1 DEF EntryAt
<1>7. i \in M
  BY <1>1, <1>5, <1>6 DEF Matches
<1> DEFINE m == Min(M)
<1>8. m \in M /\ m \in 0..DirEntries - 1 /\ m <= i /\ EntryAt(buf, d, m).name = e.name
      /\ EntryAt(buf, d, m) \in Entries
  <2>1. M # {} /\ FALSE \in BOOLEAN
    BY <1>7
  <2>2. /\ Min(M) \in M
        /\ \A j \in M : /\ j \in 0..DirEntries - 1 /\ Min(M) <= j
                      /\ EntryAt(buf, d, j) \in Entries /\ EntryAt(buf, d, j) \in Entry
                      /\ EntryAt(buf, d, j).name = e.name
    <3>1. ASSUME NEW n, Matches(buf, d, n, FALSE) # {}
          PROVE  /\ Min(Matches(buf, d, n, FALSE)) \in Matches(buf, d, n, FALSE)
                 /\ \A j \in Matches(buf, d, n, FALSE) :
                      /\ j \in 0..DirEntries - 1 /\ Min(Matches(buf, d, n, FALSE)) <= j
                      /\ EntryAt(buf, d, j) \in Entries /\ EntryAt(buf, d, j) \in Entry
                      /\ EntryAt(buf, d, j).name = n
      BY <2>1, <3>1, MatchIs
    <3> QED
      BY <2>1, <3>1
  <2> QED
    BY <1>7, <2>2
<1> HIDE DEF m, M
<1>9. m \in 0..i
  BY <1>3, <1>8
<1>10. EntryAt(buf, d, m) \in EntriesOf(d)
  <2>1. EntryAt(buf, d, m) # None
    BY <1>8 DEF Entries
  <2>2. ScanBlock(buf, d, m) \in DirBlocks(d) /\ m % EPB \in Slot
    BY <1>2, <1>4, <1>9
  <2>3. ScanBlock(buf, d, m) \in DOMAIN Directory
        /\ EntryAt(buf, d, m) = Directory[ScanBlock(buf, d, m)][m % EPB]
    BY <2>1 DEF EntryAt
  <2> QED
    BY <2>1, <2>2, <2>3 DEF EntriesOf
<1>11. EntryAt(buf, d, m) = e
  <2>1. \A x, y \in EntriesOf(d) : x.name = y.name => x = y
    BY Sizes, LinkTypes DEF Layout
  <2> QED
    BY <1>8, <1>10, <2>1
<1> QED
  BY <1>7, <1>11 DEF m, M

(* A mount opens the file it was given. *)
LEMMA MountOpens ==
  ASSUME TypeOK, NEW buf, CacheOf(buf), NEW d \in Links, d \in DirClusters, InOnePiece(d),
         NEW e \in EntriesOf(d), MountIn(buf, d, e.name)
  PROVE  sd_fat' = 1 /\ file_cluster' = e.cluster /\ file_size' = e.size
BY ScanFinds DEF MountIn, FatOpen

(* m and the automatic mount find a file that is in the directory. *)
THEOREM MountedFileFound == Spec => MountFindsFile
<1> DEFINE Found(e) == sd_fat' = 1 /\ file_cluster' = e.cluster /\ file_size' = e.size
<1>1. ASSUME IInv, [Next]_vars,
             NEW e \in EntriesOf(dir_cluster'), InOnePiece(dir_cluster'), ~ mixed',
             Mount(e.name) \/ (MachineBoot /\ eeprom = e.name)
      PROVE  Found(e)
  <2>1. CASE Mount(e.name)
    <3>1. /\ Monitor("m") /\ MountIn(cur_blk, dir_cluster, e.name)
          /\ dir_cluster' = dir_cluster
      BY <2>1 DEF Mount
    <3>2. TypeOK /\ Honest /\ dir_cluster \in Links /\ dir_cluster \in DirClusters
      BY <1>1, <3>1, MonitorKeeps, LinkTypes DEF ModeType, Opened
    <3>3. CacheOf(cur_blk) /\ e \in EntriesOf(dir_cluster) /\ InOnePiece(dir_cluster)
      BY <1>1, <3>1, <3>2 DEF Honest
    <3> QED
      BY <3>1, <3>2, <3>3, MountOpens
  <2>2. CASE MachineBoot /\ eeprom = e.name
    <3>1. dir_cluster' = 0 /\ mixed' = (mixed \/ mode = "monitor") /\ mode \in {"off", "monitor"}
      BY <2>2 DEF MachineBoot
    <3>2. TypeOK /\ Start
      BY <1>1 DEF IInv
    <3>3. CacheOf(Bpb)
      BY <1>1, <3>1, <3>2, Zenon DEF CacheOf, Start
    <3>4. e \in EntriesOf(0) /\ 0 \in Links /\ 0 \in DirClusters /\ InOnePiece(0)
      BY <1>1, <3>1, LinkTypes DEF DirClusters
    <3>5. eeprom # None
      <4>1. PICK b \in DOMAIN Directory, s \in Slot : e = Directory[b][s] /\ e # None
        BY <3>4 DEF EntriesOf
      <4>2. e \in Entry
        BY <4>1, Sizes DEF FatAssumption
      <4> QED
        BY <2>2, <4>2, Sizes DEF Entry, FatAssumption
    <3>6. MountIn(Bpb, 0, e.name)
      BY <2>2, <3>5 DEF MachineBoot
    <3> QED
      BY <3>2, <3>3, <3>4, <3>6, MountOpens
  <2> QED
    BY <1>1, <2>1, <2>2
<1>2. IInv /\ [Next]_vars =>
        [\A e \in EntriesOf(dir_cluster') :
           InOnePiece(dir_cluster') /\ ~ mixed'
             /\ (Mount(e.name) \/ (MachineBoot /\ eeprom = e.name))
             => sd_fat' = 1 /\ file_cluster' = e.cluster /\ file_size' = e.size]_vars
  BY <1>1
<1> QED
  BY <1>2, Inductive, PTL DEF Spec, MountFindsFile

-----------------------------------------------------------------------------
(* Steps of Storage are steps of the component that runs. *)
LEMMA FatSteps == StorageSpec => Spec
<1>1. StorageInit => Init
  BY DEF StorageInit
<1>2. [StorageNext]_<<part, vars, settingsv, fdcv>> => [Next]_vars
  BY DEF StorageNext, OnFat, OnEeprom, OnShort
<1> QED
  BY <1>1, <1>2, PTL DEF StorageSpec, Spec

EepromProof == INSTANCE Settings_proofs WITH
  Size <- 7, MountNames <- {<<65>>, <<65, 66>>}, Backends <- {"avr", "posix"},
  file <- stored, buffer <- image, mode <- monitor

ShortProof == INSTANCE Fdc_proofs WITH
  Value <- {0, 1}, Zero <- 0, Records <- ShortImage, Images <- {[r \in ShortImage |-> 0]},
  Drives <- {0, 1}, Tracks <- {0, 76}, Sects <- {26}, DmaLo <- {0}, DmaHi <- {0},
  Commands <- {0, 1}, MonBlocks <- {0}, Sectors <- {},
  ReadErrors <- FALSE, WriteErrors <- TRUE, CurBlkFirst <- FALSE, WriteBehind <- TRUE,
  cur_blk <- fdc_blk, file <- fdc_file, card <- fdc_card

LEMMA EepromConstants == EepromProof!SettingsAssumption /\ "refill" \notin {"avr", "posix"}
BY StorageAssumption DEF EepromProof!SettingsAssumption, Eeprom!SettingsAssumption, EepromProof!NameCell, Eeprom!NameCell

LEMMA ShortConstants == ShortProof!ConstantsAssumption
BY StorageAssumption DEF Short!ConstantsAssumption, Short!Slots, Short!Byte,
   Short!ValidAddress, ShortProof!ConstantsAssumption, ShortProof!Slots,
   ShortProof!Byte, ShortProof!ValidAddress

LEMMA EepromSteps == StorageSpec => EepromProof!Spec
<1>1. Eeprom!Init <=> EepromProof!Init
  BY DEF Eeprom!Init, Eeprom!AllBlank, Eeprom!Blank, Eeprom!Cells,
     EepromProof!Init, EepromProof!AllBlank, EepromProof!Blank,
     EepromProof!Cells
<1>2. StorageInit => EepromProof!Init
  BY <1>1 DEF StorageInit
<1>3. [StorageNext]_<<part, vars, settingsv, fdcv>> => [Eeprom!Next]_(Eeprom!vars)
  BY DEF StorageNext, OnFat, OnEeprom, OnShort, settingsv, Eeprom!vars,
     Eeprom!ram, Eeprom!ok, Eeprom!build
<1>4. [Eeprom!Next]_(Eeprom!vars) <=> [EepromProof!Next]_(EepromProof!vars)
  BY DEF Eeprom!Next, Eeprom!InitializeCells, Eeprom!LoadSettings,
     Eeprom!LoadAutoBoot, Eeprom!WriteNext, Eeprom!Programmed,
     Eeprom!SetAutoBoot, Eeprom!MountName, Eeprom!Reset, Eeprom!PowerCycle,
     Eeprom!Read, Eeprom!Write, Eeprom!Cell, Eeprom!Datum, Eeprom!Last,
     Eeprom!Begin, Eeprom!Holds, Eeprom!AutoBoot, Eeprom!Contents,
     Eeprom!AllBlank, Eeprom!Mark, Eeprom!Blank, Eeprom!Cells,
     Eeprom!InitCell, Eeprom!AutoCell, Eeprom!NameCell, Eeprom!vars,
     Eeprom!ram, Eeprom!ok, Eeprom!build, EepromProof!Next,
     EepromProof!InitializeCells, EepromProof!LoadSettings,
     EepromProof!LoadAutoBoot, EepromProof!WriteNext,
     EepromProof!Programmed, EepromProof!SetAutoBoot, EepromProof!MountName,
     EepromProof!Reset, EepromProof!PowerCycle, EepromProof!Read,
     EepromProof!Write, EepromProof!Cell, EepromProof!Datum,
     EepromProof!Last, EepromProof!Begin, EepromProof!Holds,
     EepromProof!AutoBoot, EepromProof!Contents, EepromProof!AllBlank,
     EepromProof!Mark, EepromProof!Blank, EepromProof!Cells,
     EepromProof!InitCell, EepromProof!AutoCell, EepromProof!NameCell,
     EepromProof!vars, EepromProof!ram, EepromProof!ok, EepromProof!build
<1>5. [StorageNext]_<<part, vars, settingsv, fdcv>> => [EepromProof!Next]_(EepromProof!vars)
  BY <1>3, <1>4
<1> QED
  BY <1>2, <1>5, PTL DEF StorageSpec, EepromProof!Spec

LEMMA ShortSteps == StorageSpec => ShortProof!Spec
<1>1. Short!Init <=> ShortProof!Init
  BY DEF Short!Init, Short!BootCounts, Short!FetchCounts, Short!FetchedFrom,
     Short!ClearedBuffer, Short!Slots, Short!Pages, ShortProof!Init,
     ShortProof!BootCounts, ShortProof!FetchCounts, ShortProof!FetchedFrom,
     ShortProof!ClearedBuffer, ShortProof!Slots, ShortProof!Pages
<1>2. StorageInit => ShortProof!Init
  BY <1>1 DEF StorageInit
<1>3. [StorageNext]_<<part, vars, settingsv, fdcv>> => [Short!Next]_(Short!vars)
  BY DEF StorageNext, OnFat, OnEeprom, OnShort, fdcv, Short!vars,
     Short!regs, Short!store
<1>4. [Short!Next]_(Short!vars) <=> [ShortProof!Next]_(ShortProof!vars)
  BY DEF Short!Next, Short!Command, Short!StoreBlock, Short!Others,
     Short!OutDrive, Short!OutTrack, Short!OutSect, Short!OutDmaLo,
     Short!OutDmaHi, Short!Poke, Short!WriteProtect, Short!FetchBlock,
     Short!Restart, Short!MonitorReset, Short!NoSuchDrive,
     Short!ReadSector, Short!WriteSector, Short!RefuseCommand,
     Short!SetDiskErr, Short!HasDrive, Short!WriteStatus, Short!Fetched,
     Short!FetchedFrom, Short!FetchedBlk, Short!FetchCounts,
     Short!CardsAfterFetch, Short!StoreOutcomes, Short!Stored,
     Short!CardAfterStore, Short!BlockRecords, Short!BootCounts,
     Short!ClearedBuffer, Short!Blk, Short!Off, Short!Address, Short!Area,
     Short!RecordOf, Short!Record, Short!Block, Short!Slot, Short!Slots,
     Short!Pages, Short!DriveI, Short!RecordWrap, Short!vars, Short!regs,
     Short!store, ShortProof!Next, ShortProof!Command,
     ShortProof!StoreBlock, ShortProof!Others, ShortProof!OutDrive,
     ShortProof!OutTrack, ShortProof!OutSect, ShortProof!OutDmaLo,
     ShortProof!OutDmaHi, ShortProof!Poke, ShortProof!WriteProtect,
     ShortProof!FetchBlock, ShortProof!Restart, ShortProof!MonitorReset,
     ShortProof!NoSuchDrive, ShortProof!ReadSector, ShortProof!WriteSector,
     ShortProof!RefuseCommand, ShortProof!SetDiskErr, ShortProof!HasDrive,
     ShortProof!WriteStatus, ShortProof!Fetched, ShortProof!FetchedFrom,
     ShortProof!FetchedBlk, ShortProof!FetchCounts,
     ShortProof!CardsAfterFetch, ShortProof!StoreOutcomes,
     ShortProof!Stored, ShortProof!CardAfterStore, ShortProof!BlockRecords,
     ShortProof!BootCounts, ShortProof!ClearedBuffer, ShortProof!Blk,
     ShortProof!Off, ShortProof!Address, ShortProof!Area,
     ShortProof!RecordOf, ShortProof!Record, ShortProof!Block,
     ShortProof!Slot, ShortProof!Slots, ShortProof!Pages, ShortProof!DriveI,
     ShortProof!RecordWrap, ShortProof!vars, ShortProof!regs,
     ShortProof!store
<1>5. [StorageNext]_<<part, vars, settingsv, fdcv>> => [ShortProof!Next]_(ShortProof!vars)
  BY <1>3, <1>4
<1> QED
  BY <1>2, <1>5, PTL DEF StorageSpec, ShortProof!Spec

(* The actions the properties name. *)
LEMMA EepromActions ==
  /\ Eeprom!InitializeCells <=> EepromProof!InitializeCells
  /\ Eeprom!LoadSettings <=> EepromProof!LoadSettings
  /\ Eeprom!LoadAutoBoot <=> EepromProof!LoadAutoBoot
BY DEF Eeprom!InitializeCells, Eeprom!LoadSettings, Eeprom!LoadAutoBoot,
   Eeprom!Read, Eeprom!Begin, Eeprom!Holds, Eeprom!AutoBoot,
   Eeprom!Contents, Eeprom!AllBlank, Eeprom!Mark, Eeprom!Blank,
   Eeprom!Cells, Eeprom!InitCell, Eeprom!AutoCell, Eeprom!NameCell,
   Eeprom!ram, Eeprom!ok, Eeprom!build, EepromProof!InitializeCells,
   EepromProof!LoadSettings, EepromProof!LoadAutoBoot, EepromProof!Read,
   EepromProof!Begin, EepromProof!Holds, EepromProof!AutoBoot,
   EepromProof!Contents, EepromProof!AllBlank, EepromProof!Mark,
   EepromProof!Blank, EepromProof!Cells, EepromProof!InitCell,
   EepromProof!AutoCell, EepromProof!NameCell, EepromProof!ram,
   EepromProof!ok, EepromProof!build

LEMMA ShortActions ==
  /\ Short!Command <=> ShortProof!Command
BY DEF Short!Command, Short!NoSuchDrive, Short!ReadSector,
   Short!WriteSector, Short!RefuseCommand, Short!SetDiskErr, Short!HasDrive,
   Short!WriteStatus, Short!Fetched, Short!FetchedFrom, Short!FetchedBlk,
   Short!FetchCounts, Short!CardsAfterFetch, Short!StoreOutcomes,
   Short!Stored, Short!CardAfterStore, Short!BlockRecords, Short!BootCounts,
   Short!ClearedBuffer, Short!Blk, Short!Off, Short!Address, Short!Area,
   Short!RecordOf, Short!Record, Short!Block, Short!Slot, Short!Slots,
   Short!Pages, Short!DriveI, Short!RecordWrap, Short!regs, Short!store,
   ShortProof!Command, ShortProof!NoSuchDrive, ShortProof!ReadSector,
   ShortProof!WriteSector, ShortProof!RefuseCommand, ShortProof!SetDiskErr,
   ShortProof!HasDrive, ShortProof!WriteStatus, ShortProof!Fetched,
   ShortProof!FetchedFrom, ShortProof!FetchedBlk, ShortProof!FetchCounts,
   ShortProof!CardsAfterFetch, ShortProof!StoreOutcomes, ShortProof!Stored,
   ShortProof!CardAfterStore, ShortProof!BlockRecords,
   ShortProof!BootCounts, ShortProof!ClearedBuffer, ShortProof!Blk,
   ShortProof!Off, ShortProof!Address, ShortProof!Area, ShortProof!RecordOf,
   ShortProof!Record, ShortProof!Block, ShortProof!Slot, ShortProof!Slots,
   ShortProof!Pages, ShortProof!DriveI, ShortProof!RecordWrap,
   ShortProof!regs, ShortProof!store

(* Offsets, cells and sequences keep to their ranges (TypeOK of Fat and of   *)
(* Settings).                                                                *)
THEOREM StorageTyping == StorageSpec => []StorageTypeOK
<1>1. EepromProof!TypeOK <=> Eeprom!TypeOK
  BY DEF Eeprom!TypeOK, EepromProof!TypeOK, Eeprom!Byte, EepromProof!Byte,
     Eeprom!Cell, EepromProof!Cell, Eeprom!Cells, EepromProof!Cells,
     Eeprom!Datum, EepromProof!Datum, Eeprom!Blank, EepromProof!Blank,
     Eeprom!Mark, EepromProof!Mark, Eeprom!InitCell, EepromProof!InitCell,
     Eeprom!AutoCell, EepromProof!AutoCell, Eeprom!NameCell,
     EepromProof!NameCell, Eeprom!Last, EepromProof!Last
<1>2. TypeOK /\ Eeprom!TypeOK => StorageTypeOK
  BY DEF StorageTypeOK
<1> QED
  BY <1>1, <1>2, FatSteps, FatTyping, EepromSteps, EepromConstants, EepromProof!Typing, PTL

(* The reads, writes and mounts of Fat, where the other two components run   *)
(* as well.                                                                  *)
THEOREM FatKept == StorageSpec => []ReachesItsBlock /\ StaysInImage /\ MountFindsFile
BY FatSteps, BlockReached, ImageKept, MountedFileFound, PTL

(* A name marked valid is a name that was given to m (mount). *)
THEOREM NamesStayWhole == StorageSpec => []NameWhole
<1>1. EepromProof!NameWhole <=> NameWhole
  BY DEF NameWhole, Eeprom!NameWhole, Eeprom!Holds, Eeprom!Mark,
     Eeprom!InitCell, Eeprom!NameCell, EepromProof!NameWhole,
     EepromProof!Holds, EepromProof!Mark, EepromProof!InitCell,
     EepromProof!NameCell
<1> QED
  BY <1>1, EepromSteps, EepromConstants, EepromProof!WholeNames, PTL

(* The next start boots as the last command a said (machine_boot). *)
THEOREM AutoBootFound == StorageSpec => AutoBootKept
<1>1. [~ dropped /\ (EepromProof!LoadAutoBoot \/ EepromProof!InitializeCells)
         => want' \in okAuto]_(EepromProof!vars)
      => [~ dropped /\ (Eeprom!LoadAutoBoot \/ Eeprom!InitializeCells)
            => want' \in okAuto]_(Eeprom!vars)
  BY EepromActions DEF Eeprom!vars, Eeprom!ram, Eeprom!ok, Eeprom!build,
     EepromProof!vars, EepromProof!ram, EepromProof!ok, EepromProof!build
<1> QED
  BY <1>1, EepromSteps, EepromConstants, EepromProof!AutoBootFound, PTL
     DEF AutoBootKept, Eeprom!AutoBootKept, EepromProof!AutoBootKept

(* The next start mounts the image mounted last (machine_boot, mount). *)
THEOREM MountFound == StorageSpec => MountKept
<1>1. \A n \in {<<65>>, <<65, 66>>} :
        EepromProof!Holds(EepromProof!Contents, n) <=> Eeprom!Holds(Eeprom!Contents, n)
  BY DEF Eeprom!Holds, Eeprom!Contents, Eeprom!AllBlank, Eeprom!Blank,
     Eeprom!Cells, Eeprom!NameCell, EepromProof!Holds, EepromProof!Contents,
     EepromProof!AllBlank, EepromProof!Blank, EepromProof!Cells,
     EepromProof!NameCell
<1>2. EepromProof!Contents[EepromProof!NameCell] = EepromProof!Mark
        <=> Eeprom!Contents[Eeprom!NameCell] = Eeprom!Mark
  BY DEF Eeprom!Mark, Eeprom!Contents, Eeprom!AllBlank, Eeprom!Blank,
     Eeprom!Cells, Eeprom!NameCell, EepromProof!Mark, EepromProof!Contents,
     EepromProof!AllBlank, EepromProof!Blank, EepromProof!Cells,
     EepromProof!NameCell
<1>3. [~ dropped =>
        /\ EepromProof!InitializeCells => <<>> \in okName
        /\ EepromProof!LoadSettings /\ EepromProof!Contents[EepromProof!NameCell] # EepromProof!Mark
             => <<>> \in okName
        /\ EepromProof!LoadSettings /\ EepromProof!Contents[EepromProof!NameCell] = EepromProof!Mark =>
             \E n \in okName \cap {<<65>>, <<65, 66>>} :
               EepromProof!Holds(EepromProof!Contents, n)]_(EepromProof!vars)
      => [~ dropped =>
          /\ Eeprom!InitializeCells => <<>> \in okName
          /\ Eeprom!LoadSettings /\ Eeprom!Contents[Eeprom!NameCell] # Eeprom!Mark
               => <<>> \in okName
          /\ Eeprom!LoadSettings /\ Eeprom!Contents[Eeprom!NameCell] = Eeprom!Mark =>
               \E n \in okName \cap {<<65>>, <<65, 66>>} :
                 Eeprom!Holds(Eeprom!Contents, n)]_(Eeprom!vars)
  BY <1>1, <1>2, EepromActions DEF Eeprom!vars, Eeprom!ram, Eeprom!ok,
     Eeprom!build, EepromProof!vars, EepromProof!ram, EepromProof!ok,
     EepromProof!build
<1> QED
  BY <1>3, EepromSteps, EepromConstants, EepromProof!MountFound, PTL
     DEF MountKept, Eeprom!MountKept, EepromProof!MountKept

(* On an image that ends inside a block a command damages no block but the   *)
(* addressed one and the one fetched before (sdcard_posix.c).                *)
THEOREM TruncationContained == StorageSpec => TruncatedStaysInBlock
<1>1. [ShortProof!Command => \A r \in ShortImage : fdc_file'[r] # fdc_file[r]
         => ShortProof!Block(r) \in ShortProof!BlocksAtRisk]_(ShortProof!vars)
      => [Short!Command => \A r \in ShortImage : fdc_file'[r] # fdc_file[r]
            => Short!Block(r) \in Short!BlocksAtRisk]_(Short!vars)
  BY ShortActions DEF Short!BlocksAtRisk, Short!Block, Short!Blk,
     Short!RecordOf, Short!Record, Short!Address, Short!DriveI,
     Short!RecordWrap, Short!vars, Short!regs, Short!store,
     ShortProof!BlocksAtRisk, ShortProof!Block, ShortProof!Blk,
     ShortProof!RecordOf, ShortProof!Record, ShortProof!Address,
     ShortProof!DriveI, ShortProof!RecordWrap, ShortProof!vars,
     ShortProof!regs, ShortProof!store
<1> QED
  BY <1>1, ShortSteps, ShortConstants, ShortProof!CommandContained, PTL
     DEF TruncatedStaysInBlock, Short!CommandStaysInBlock, ShortProof!CommandStaysInBlock
===============================================================================
