-------------------------- MODULE Programs_proofs ---------------------------
(* Proofs about Programs, for every program in memory, every answer of a     *)
(* port and every operand: the two emulators compute alike (the lemmas of    *)
(* the arithmetic compare the flags cpu_8080.c recovers with those of the    *)
(* AVR's adder), registers keep their width, an instruction touches only     *)
(* what its opcode names, what is taken from the stack is what was put       *)
(* there, and the terminal behind port 1 is the screen a program expects.    *)
EXTENDS Programs, SequenceTheorems, TLAPS

(* The table of cpu_8080.c has the parity that par_set of i8080.S counts.    *)
LEMMA NibbleParity ==
  \A n \in 0..15 : tbl_par[n + 1] = 1 - (NibbleOnes(n) % 2) /\ NibbleOnes(n) \in 0..4
<1>1. SUFFICES ASSUME NEW n \in 0..15
      PROVE  tbl_par[n + 1] = 1 - (NibbleOnes(n) % 2) /\ NibbleOnes(n) \in 0..4
  OBVIOUS
<1>2. n \in {0, 1, 2, 3, 4, 5, 6, 7, 8, 9, 10, 11, 12, 13, 14, 15} OBVIOUS
<1> QED BY <1>2 DEF tbl_par, NibbleOnes

(* The sign, zero and parity flags of a result, from the table and counted.  *)
LEMMA Flags ==
  ASSUME NEW s \in Byte
  PROVE  /\ flag_zsp(s) = On(s = 0, F_Z) + On(s > 127, F_S) + par_set(s)
         /\ par_set(s) \in {0, 4}
         /\ flag_zsp(s) \in 0..196
<1>1. s % 16 \in 0..15 /\ s \div 16 \in 0..15 BY DEF Byte, UINT8_MAX
<1>2. Has(s, F_S) <=> s > 127 BY DEF Has, Byte, UINT8_MAX, F_S
<1>3. PICK l \in 0..15 : l = s % 16 BY <1>1
<1>4. PICK h \in 0..15 : h = s \div 16 BY <1>1
<1>5. tbl_par[l + 1] = 1 - (NibbleOnes(l) % 2) /\ NibbleOnes(l) \in 0..4 BY NibbleParity
<1>6. tbl_par[h + 1] = 1 - (NibbleOnes(h) % 2) /\ NibbleOnes(h) \in 0..4 BY NibbleParity
<1>7. (tbl_par[l + 1] + tbl_par[h + 1] # 1) <=> (NibbleOnes(l) + NibbleOnes(h)) % 2 = 0
  BY <1>5, <1>6
<1>8. On(tbl_par[(s % 16) + 1] + tbl_par[(s \div 16) + 1] # 1, F_P) = par_set(s)
  BY <1>3, <1>4, <1>7 DEF par_set
<1>9. par_set(s) \in {0, 4} BY DEF par_set, On, F_P
<1> QED BY <1>2, <1>8, <1>9 DEF flag_zsp, On, F_S, F_Z, F_P, Byte, UINT8_MAX

(* A carry. As a name, not {0, 1}: the provers look for members of a name.   *)
Bit == {0, 1}

(* A half carry or a half borrow shows when the low digits are compared.     *)
LEMMA Nibbles ==
  \A m \in 0..15, k \in 0..15, c \in Bit :
    /\ (m + k + c) % 16 < m + c <=> m + k + c > 15
    /\ (m - k - c) % 16 > m - c <=> m < k + c
BY DEF Bit

(* A carry shows when the sum is compared with an operand (cpu_8080.c:113).  *)
LEMMA Adder ==
  ASSUME NEW x \in Byte, NEW v \in Byte, NEW c \in Bit, NEW s, s = B(x + v + c)
  PROVE  /\ s \in Byte
         /\ s < x + c <=> x + v + c > 255
         /\ s % 16 < (x % 16) + c <=> (x % 16) + (v % 16) + c > 15
<1>0. s = IF x + v + c > 255 THEN x + v + c - 256 ELSE x + v + c
  BY DEF B, Bit, Byte, UINT8_MAX
<1>1. s \in Byte /\ (s < x + c <=> x + v + c > 255) BY <1>0 DEF Bit, Byte, UINT8_MAX
<1>2. x % 16 \in 0..15 /\ v % 16 \in 0..15 BY DEF Byte, UINT8_MAX
<1>3. s % 16 = ((x % 16) + (v % 16) + c) % 16 BY DEF B, Bit, Byte, UINT8_MAX
<1> QED BY <1>1, <1>2, <1>3, Nibbles

(* The same for a borrow: the comparison must be with a - c, not with a.     *)
LEMMA Subtracter ==
  ASSUME NEW x \in Byte, NEW v \in Byte, NEW c \in Bit, NEW d, d = B(x - v - c)
  PROVE  /\ d \in Byte
         /\ d > x - c <=> x < v + c
         /\ d % 16 > (x % 16) - c <=> x % 16 < (v % 16) + c
<1>0. d = IF x < v + c THEN x - v - c + 256 ELSE x - v - c
  BY SMTT(30) DEF B, Bit, Byte, UINT8_MAX
<1>1. d \in Byte /\ (d > x - c <=> x < v + c) BY <1>0, SMTT(30) DEF Bit, Byte, UINT8_MAX
<1>2. x % 16 \in 0..15 /\ v % 16 \in 0..15 BY DEF Byte, UINT8_MAX
<1>3. d % 16 = ((x % 16) - (v % 16) - c) % 16 BY DEF B, Bit, Byte, UINT8_MAX
<1> QED BY <1>1, <1>2, <1>3, Nibbles

(* The adder of cpu_8080.c is the AVR's, with every carry.                   *)
LEMMA Carried ==
  ASSUME NEW x \in Byte, NEW v \in Byte, NEW c \in Bit, NEW g, g % 2 = c
  PROVE  adc(x, g, v) = SumAvr(x, v, c) /\ sbb(x, g, v) = DifferenceAvr(x, v, c)
<1>1. adc(x, g, v) = SumAvr(x, v, c)
  <2>1. PICK s : s = B(x + v + c) OBVIOUS
  <2>2. /\ s \in Byte
        /\ s < x + c <=> x + v + c > 255
        /\ s % 16 < (x % 16) + c <=> (x % 16) + (v % 16) + c > 15
    BY <2>1, Adder, ZenonT(60)
  <2>3. flag_zsp(s) = On(s = 0, F_Z) + On(s > 127, F_S) + par_set(s) /\ par_set(s) \in {0, 4}
    BY <2>2, Flags
  <2>4. adc(x, g, v)
         = Result(s, On(s < x + c, F_CY) + On(s % 16 < (x % 16) + c, F_AC) + flag_zsp(s))
    BY <2>1 DEF adc
  <2>5. SumAvr(x, v, c) = Result(s, comp(x + v + c > 255, (x % 16) + (v % 16) + c > 15, s))
    BY <2>1 DEF SumAvr
  <2>6. comp(x + v + c > 255, (x % 16) + (v % 16) + c > 15, s)
         = On(x + v + c > 255, F_CY) + On((x % 16) + (v % 16) + c > 15, F_AC) + flag_zsp(s)
    BY <2>3 DEF comp, On, F_CY, F_AC, F_Z, F_S
  <2> QED BY <2>2, <2>4, <2>5, <2>6 DEF On
<1>2. sbb(x, g, v) = DifferenceAvr(x, v, c)
  <2>1. PICK s : s = B(x - v - c) OBVIOUS
  <2>2. /\ s \in Byte
        /\ s > x - c <=> x < v + c
        /\ s % 16 > (x % 16) - c <=> x % 16 < (v % 16) + c
    BY <2>1, Subtracter, ZenonT(60)
  <2>3. flag_zsp(s) = On(s = 0, F_Z) + On(s > 127, F_S) + par_set(s) /\ par_set(s) \in {0, 4}
    BY <2>2, Flags
  <2>4. sbb(x, g, v)
         = Result(s, On(s > x - c, F_CY) + On(s % 16 > (x % 16) - c, F_AC) + flag_zsp(s))
    BY <2>1 DEF sbb
  <2>5. DifferenceAvr(x, v, c) = Result(s, comp(x < v + c, x % 16 < (v % 16) + c, s))
    BY <2>1 DEF DifferenceAvr
  <2>6. comp(x < v + c, x % 16 < (v % 16) + c, s)
         = On(x < v + c, F_CY) + On(x % 16 < (v % 16) + c, F_AC) + flag_zsp(s)
    BY <2>3 DEF comp, On, F_CY, F_AC, F_Z, F_S
  <2> QED BY <2>2, <2>4, <2>5, <2>6 DEF On
<1> QED BY <1>1, <1>2

(* The logic operations give the flags that the AVR's macros give.           *)
LEMMA Logic ==
  ASSUME NEW x \in Byte, NEW v \in Byte, NEW g \in Byte
  PROVE  /\ ana(x, g, v).a \in Byte /\ ana(x, g, v).f \in Byte
         /\ ana(x, g, v) = Result(ana(x, g, v).a, comp(FALSE, TRUE, ana(x, g, v).a))
         /\ xra(x, g, v).a \in Byte /\ xra(x, g, v).f \in Byte
         /\ xra(x, g, v) = Result(xra(x, g, v).a, comp(FALSE, FALSE, xra(x, g, v).a))
         /\ ora(x, g, v).a \in Byte /\ ora(x, g, v).f \in Byte
         /\ ora(x, g, v) = Result(ora(x, g, v).a, comp(FALSE, FALSE, ora(x, g, v).a))
<1>1. /\ ana(x, g, v).a \in Byte /\ ana(x, g, v).f \in Byte
      /\ ana(x, g, v) = Result(ana(x, g, v).a, comp(FALSE, TRUE, ana(x, g, v).a))
  <2>1. PICK s : s = Combined(x, v, LAMBDA m, n : m /\ n) OBVIOUS
  <2>2. s \in Byte BY <2>1 DEF Combined, On, Byte, UINT8_MAX
  <2>3. flag_zsp(s) = On(s = 0, F_Z) + On(s > 127, F_S) + par_set(s) /\ par_set(s) \in {0, 4}
    BY <2>2, Flags
  <2>4. ana(x, g, v) = Result(s, F_AC + flag_zsp(s)) BY <2>1 DEF ana
  <2>5. comp(FALSE, TRUE, s) = F_AC + flag_zsp(s) BY <2>3 DEF comp, On, F_CY, F_AC, F_Z, F_S
  <2>6. ana(x, g, v).a = s BY <2>4 DEF Result
  <2>7. ana(x, g, v).f \in Byte
    <3>1. flag_zsp(s) \in 0..196 BY <2>2, Flags
    <3>2. F_AC + flag_zsp(s) \in Byte BY <3>1 DEF F_AC, Byte, UINT8_MAX
    <3> QED BY <2>4, <3>2 DEF Result
  <2> QED BY <2>2, <2>4, <2>5, <2>6, <2>7
<1>2. /\ xra(x, g, v).a \in Byte /\ xra(x, g, v).f \in Byte
      /\ xra(x, g, v) = Result(xra(x, g, v).a, comp(FALSE, FALSE, xra(x, g, v).a))
  <2>1. PICK s : s = Combined(x, v, LAMBDA m, n : m # n) OBVIOUS
  <2>2. s \in Byte BY <2>1 DEF Combined, On, Byte, UINT8_MAX
  <2>3. flag_zsp(s) = On(s = 0, F_Z) + On(s > 127, F_S) + par_set(s) /\ par_set(s) \in {0, 4}
    BY <2>2, Flags
  <2>4. xra(x, g, v) = Result(s, flag_zsp(s)) BY <2>1 DEF xra
  <2>5. comp(FALSE, FALSE, s) = flag_zsp(s) BY <2>3 DEF comp, On, F_CY, F_AC, F_Z, F_S
  <2>6. xra(x, g, v).a = s BY <2>4 DEF Result
  <2>7. xra(x, g, v).f \in Byte
    <3>1. flag_zsp(s) \in 0..196 BY <2>2, Flags
    <3>2. flag_zsp(s) \in Byte BY <3>1 DEF F_AC, Byte, UINT8_MAX
    <3> QED BY <2>4, <3>2 DEF Result
  <2> QED BY <2>2, <2>4, <2>5, <2>6, <2>7
<1>3. /\ ora(x, g, v).a \in Byte /\ ora(x, g, v).f \in Byte
      /\ ora(x, g, v) = Result(ora(x, g, v).a, comp(FALSE, FALSE, ora(x, g, v).a))
  <2>1. PICK s : s = Combined(x, v, LAMBDA m, n : m \/ n) OBVIOUS
  <2>2. s \in Byte BY <2>1 DEF Combined, On, Byte, UINT8_MAX
  <2>3. flag_zsp(s) = On(s = 0, F_Z) + On(s > 127, F_S) + par_set(s) /\ par_set(s) \in {0, 4}
    BY <2>2, Flags
  <2>4. ora(x, g, v) = Result(s, flag_zsp(s)) BY <2>1 DEF ora
  <2>5. comp(FALSE, FALSE, s) = flag_zsp(s) BY <2>3 DEF comp, On, F_CY, F_AC, F_Z, F_S
  <2>6. ora(x, g, v).a = s BY <2>4 DEF Result
  <2>7. ora(x, g, v).f \in Byte
    <3>1. flag_zsp(s) \in 0..196 BY <2>2, Flags
    <3>2. flag_zsp(s) \in Byte BY <3>1 DEF F_AC, Byte, UINT8_MAX
    <3> QED BY <2>4, <3>2 DEF Result
  <2> QED BY <2>2, <2>4, <2>5, <2>6, <2>7
<1> QED BY <1>1, <1>2, <1>3

(* The eight operations of an opcode 80-bf in both emulators.                *)
LEMMA ArithmeticAgrees ==
  ASSUME NEW x \in Byte, NEW g \in Byte, NEW v \in Byte, NEW i \in 0..7
  PROVE  Arithmetic(i, x, g, v) = ArithmeticAvr(i, x, g, v)
<1>0. g % 2 \in Bit /\ 0 % 2 = 0 BY DEF Bit, Byte, UINT8_MAX
<1>1. adc(x, 0, v) = SumAvr(x, v, 0) /\ sbb(x, 0, v) = DifferenceAvr(x, v, 0)
  <2>1. 0 \in Bit BY DEF Bit
  <2> QED BY <1>0, <2>1, Carried
<1>2. adc(x, g, v) = SumAvr(x, v, g % 2) /\ sbb(x, g, v) = DifferenceAvr(x, v, g % 2)
  <2>1. PICK c \in Bit : g % 2 = c BY <1>0
  <2> QED BY <2>1, Carried
<1>3. i \in {0, 1, 2, 3, 4, 5, 6, 7} OBVIOUS
<1>4. /\ add(x, g, v) = SumAvr(x, v, 0) /\ adc(x, g, v) = SumAvr(x, v, g % 2)
      /\ sub(x, g, v) = DifferenceAvr(x, v, 0) /\ sbb(x, g, v) = DifferenceAvr(x, v, g % 2)
      /\ cmp(x, g, v) = Result(x, DifferenceAvr(x, v, 0).f)
  BY <1>1, <1>2 DEF add, sub, cmp
<1>5. CASE i = 0 BY <1>4, <1>5 DEF Arithmetic, ArithmeticAvr
<1>6. CASE i = 1 BY <1>4, <1>6 DEF Arithmetic, ArithmeticAvr
<1>7. CASE i = 2 BY <1>4, <1>7 DEF Arithmetic, ArithmeticAvr
<1>8. CASE i = 3 BY <1>4, <1>8 DEF Arithmetic, ArithmeticAvr
<1>9. CASE i = 4
  <2>1. Arithmetic(i, x, g, v) = ana(x, g, v) BY <1>9 DEF Arithmetic
  <2>2. ArithmeticAvr(i, x, g, v) = Result(ana(x, g, v).a, comp(FALSE, TRUE, ana(x, g, v).a))
    BY <1>9 DEF ArithmeticAvr
  <2> QED BY <2>1, <2>2, Logic
<1>10. CASE i = 5
  <2>1. Arithmetic(i, x, g, v) = xra(x, g, v) BY <1>10 DEF Arithmetic
  <2>2. ArithmeticAvr(i, x, g, v) = Result(xra(x, g, v).a, comp(FALSE, FALSE, xra(x, g, v).a))
    BY <1>10 DEF ArithmeticAvr
  <2> QED BY <2>1, <2>2, Logic
<1>11. CASE i = 6
  <2>1. Arithmetic(i, x, g, v) = ora(x, g, v) BY <1>11 DEF Arithmetic
  <2>2. ArithmeticAvr(i, x, g, v) = Result(ora(x, g, v).a, comp(FALSE, FALSE, ora(x, g, v).a))
    BY <1>11 DEF ArithmeticAvr
  <2> QED BY <2>1, <2>2, Logic
<1>12. CASE i = 7 BY <1>4, <1>12 DEF Arithmetic, ArithmeticAvr
<1> QED BY <1>3, <1>5, <1>6, <1>7, <1>8, <1>9, <1>10, <1>11, <1>12

(* INR and DCR in both emulators.                                            *)
LEMMA CountsAgree ==
  ASSUME NEW x \in Byte, NEW g \in Byte
  PROVE  inr(x, g) = inrAvr(x, g) /\ dcr(x, g) = dcrAvr(x, g)
<1>1. g % 2 = On(Has(g, F_CY), F_CY) BY DEF On, Has, F_CY, Byte, UINT8_MAX
<1>2. inr(x, g) = inrAvr(x, g)
  <2>1. PICK s : s = B(x + 1) OBVIOUS
  <2>2. s \in Byte BY <2>1 DEF B, Byte, UINT8_MAX
  <2>3. flag_zsp(s) = On(s = 0, F_Z) + On(s > 127, F_S) + par_set(s) /\ par_set(s) \in {0, 4}
    BY <2>2, Flags
  <2>4. Stepped(g, s, 0) = comp(Has(g, F_CY), s % 16 = 0, s)
    BY <1>1, <2>3 DEF Stepped, comp, On, F_CY, F_AC, F_Z, F_S
  <2> QED BY <2>1, <2>4 DEF inr, inrAvr
<1>3. dcr(x, g) = dcrAvr(x, g)
  <2>1. PICK s : s = B(x - 1) OBVIOUS
  <2>2. s \in Byte BY <2>1 DEF B, Byte, UINT8_MAX
  <2>3. flag_zsp(s) = On(s = 0, F_Z) + On(s > 127, F_S) + par_set(s) /\ par_set(s) \in {0, 4}
    BY <2>2, Flags
  <2>4. Stepped(g, s, 15) = comp(Has(g, F_CY), s % 16 = 15, s)
    BY <1>1, <2>3 DEF Stepped, comp, On, F_CY, F_AC, F_Z, F_S
  <2> QED BY <2>1, <2>4 DEF dcr, dcrAvr
<1> QED BY <1>2, <1>3

(* Shifting by sums, and the carry shifted out.                              *)
LEMMA Rotated ==
  ASSUME NEW x \in Byte, NEW c \in Bit
  PROVE  /\ B(x * 2) + c = B((2 * x) + c)
         /\ x > 127 <=> (2 * x) + c > 255
         /\ (x \div 2) + (c * 128) = ((256 * c) + x) \div 2
<1>1. B(x * 2) + c = B((2 * x) + c) /\ (x > 127 <=> (2 * x) + c > 255)
  BY DEF B, Bit, Byte, UINT8_MAX
<1>2. c = 0 => (x \div 2) + (c * 128) = ((256 * c) + x) \div 2 BY DEF Byte, UINT8_MAX
<1>3. c = 1 => (x \div 2) + (c * 128) = ((256 * c) + x) \div 2 BY DEF Byte, UINT8_MAX
<1> QED BY <1>1, <1>2, <1>3 DEF Bit

(* The rotations by shifts and by the AVR's rol and ror; CMC.                *)
LEMMA RotationsAgree ==
  ASSUME NEW x \in Byte, NEW g \in Byte
  PROVE  /\ rlc(x, g) = RolAvr(x, g, On(x > 127, 1))
         /\ rrc(x, g) = RorAvr(x, g, x % 2)
         /\ ral(x, g) = RolAvr(x, g, g % 2)
         /\ rar(x, g) = RorAvr(x, g, g % 2)
         /\ cmc(x, g) = Result(x, Combined(g, F_CY, LAMBDA m, n : m # n))
<1>1. Has(x, 128) <=> x > 127 BY DEF Has, Byte, UINT8_MAX
<1>2. Has(x, 1) <=> x % 2 = 1 BY DEF Has, Byte, UINT8_MAX
<1>3. PICK t \in Bit : t = x \div 128 /\ t = On(x > 127, 1) BY DEF On, Bit, Byte, UINT8_MAX
<1>4. rlc(x, g) = RolAvr(x, g, On(x > 127, 1))
  <2>1. B(x * 2) + t = B((2 * x) + t) /\ (x > 127 <=> (2 * x) + t > 255) BY Rotated
  <2> QED BY <1>1, <1>3, <2>1 DEF rlc, RolAvr, WithCarry
<1>5. rrc(x, g) = RorAvr(x, g, x % 2)
  <2>1. PICK c \in Bit : c = x % 2 BY DEF Bit, Byte, UINT8_MAX
  <2>2. (x \div 2) + (c * 128) = ((256 * c) + x) \div 2 BY Rotated
  <2> QED BY <1>2, <2>1, <2>2 DEF rrc, RorAvr, WithCarry
<1>6. PICK c \in Bit : c = g % 2 BY DEF Bit, Byte, UINT8_MAX
<1>7. ral(x, g) = RolAvr(x, g, g % 2)
  <2>1. B(x * 2) + c = B((2 * x) + c) /\ (x > 127 <=> (2 * x) + c > 255) BY Rotated
  <2> QED BY <1>1, <1>6, <2>1 DEF ral, RolAvr, WithCarry
<1>8. rar(x, g) = RorAvr(x, g, g % 2)
  <2>2. (x \div 2) + (c * 128) = ((256 * c) + x) \div 2 BY Rotated
  <2> QED BY <1>2, <1>6, <2>2 DEF rar, RorAvr, WithCarry
<1>9. cmc(x, g) = Result(x, Combined(g, F_CY, LAMBDA m, n : m # n))
  BY SMTT(30) DEF cmc, Combined, WithCarry, With, Without, On, Has, F_CY, Byte, UINT8_MAX, Result
<1> QED BY <1>4, <1>5, <1>7, <1>8, <1>9

(* The operations 07..3f on the accumulator, DAA aside (see the run          *)
(* alu_daa_c).                                                               *)
LEMMA AccumulatorAgrees ==
  ASSUME NEW x \in Byte, NEW g \in Byte, NEW i \in 0..7 \ {4}
  PROVE  OnAccumulator(i, x, g) = OnAccumulatorAvr(i, x, g)
<1>1. /\ OnAccumulator(0, x, g) = rlc(x, g) /\ OnAccumulator(1, x, g) = rrc(x, g)
      /\ OnAccumulator(2, x, g) = ral(x, g) /\ OnAccumulator(3, x, g) = rar(x, g)
      /\ OnAccumulator(5, x, g) = Result(255 - x, g)
      /\ OnAccumulator(6, x, g) = Result(x, With(g, F_CY))
      /\ OnAccumulator(7, x, g) = cmc(x, g)
  BY DEF OnAccumulator, cma, stc
<1>2. /\ OnAccumulatorAvr(0, x, g) = RolAvr(x, g, On(x > 127, 1))
      /\ OnAccumulatorAvr(1, x, g) = RorAvr(x, g, x % 2)
      /\ OnAccumulatorAvr(2, x, g) = RolAvr(x, g, g % 2)
      /\ OnAccumulatorAvr(3, x, g) = RorAvr(x, g, g % 2)
      /\ OnAccumulatorAvr(5, x, g) = Result(255 - x, g)
      /\ OnAccumulatorAvr(6, x, g) = Result(x, With(g, F_CY))
  BY DEF OnAccumulatorAvr
<1>3. OnAccumulatorAvr(7, x, g) = Result(x, Combined(g, F_CY, LAMBDA m, n : m # n))
  BY DEF OnAccumulatorAvr
<1>4. i \in {0, 1, 2, 3, 5, 6, 7} OBVIOUS
<1>5. cmc(x, g) = OnAccumulatorAvr(7, x, g) BY <1>3, RotationsAgree
<1>6. /\ rlc(x, g) = RolAvr(x, g, On(x > 127, 1)) /\ rrc(x, g) = RorAvr(x, g, x % 2)
      /\ ral(x, g) = RolAvr(x, g, g % 2) /\ rar(x, g) = RorAvr(x, g, g % 2)
  BY RotationsAgree
<1>7. CASE i \in {0, 1, 2, 3} BY <1>1, <1>2, <1>6, <1>7
<1>8. CASE i \in {5, 6, 7} BY <1>1, <1>2, <1>5, <1>8
<1> QED BY <1>4, <1>7, <1>8

(* The sum of two words, byte by byte with the carry between them.           *)
LEMMA TwoBytes ==
  ASSUME NEW h1 \in Byte, NEW l1 \in Byte, NEW h2 \in Byte, NEW l2 \in Byte, NEW c \in Bit,
         c = On(l1 + l2 > 255, 1)
  PROVE  /\ W((h1 * 256) + l1 + (h2 * 256) + l2)
               = (B(h1 + h2 + c) * 256) + B(l1 + l2)
         /\ W((h1 * 256) + l1 + (h2 * 256) + l2) < (h1 * 256) + l1 <=> h1 + h2 + c > 255
<1>1. B(l1 + l2) = l1 + l2 - (256 * c) BY DEF B, Bit, Byte, UINT8_MAX, On
<1>2. B(h1 + h2 + c) = IF h1 + h2 + c > 255 THEN h1 + h2 + c - 256 ELSE h1 + h2 + c
  BY DEF B, Bit, Byte, UINT8_MAX
<1>3. W((h1 * 256) + l1 + (h2 * 256) + l2) =
         IF (h1 * 256) + l1 + (h2 * 256) + l2 > 65535 
         THEN (h1 * 256) + l1 + (h2 * 256) + l2 - 65536 ELSE (h1 * 256) + l1 + (h2 * 256) + l2
  BY DEF W, Bit, Byte, UINT8_MAX
<1>4. (h1 * 256) + l1 + (h2 * 256) + l2 > 65535 <=> h1 + h2 + c > 255
  BY DEF Bit, Byte, UINT8_MAX, On
<1>5. (B(h1 + h2 + c) * 256) + B(l1 + l2) =
         IF h1 + h2 + c > 255
         THEN (h1 * 256) + l1 + (h2 * 256) + l2 - 65536 ELSE (h1 * 256) + l1 + (h2 * 256) + l2
  <2>1. CASE h1 + h2 + c > 255 BY <1>1, <1>2, <2>1 DEF Bit, Byte, UINT8_MAX
  <2>2. CASE ~ (h1 + h2 + c > 255) BY <1>1, <1>2, <2>2 DEF Bit, Byte, UINT8_MAX
  <2> QED BY <2>1, <2>2
<1>6. W((h1 * 256) + l1 + (h2 * 256) + l2) = (B(h1 + h2 + c) * 256) + B(l1 + l2)
  BY <1>3, <1>4, <1>5 DEF Bit, Byte, UINT8_MAX
<1>7. W((h1 * 256) + l1 + (h2 * 256) + l2) < (h1 * 256) + l1 <=> h1 + h2 + c > 255
  BY <1>3, <1>4, SMTT(30) DEF Bit, Byte, UINT8_MAX
<1> QED BY <1>6, <1>7

(* The range of a word, which the provers would otherwise enumerate.         *)
LEMMA InWord == \A n \in Int : n \in Word <=> 0 <= n /\ n <= 65535
<1>1. UINT16_MAX = 65535 BY DEF UINT16_MAX
<1> QED BY <1>1, SMTT(30) DEF Word

(* What a word is.                                                           *)
LEMMA OfWord == \A w \in Word : w \in Int /\ 0 <= w /\ w <= 65535
<1>1. \A w \in Word : w \in Int BY SMTT(30) DEF Word
<1> QED BY <1>1, InWord

(* A word is its two bytes.                                                  *)
LEMMA BytesOf == \A w \in Word : Lo(w) \in Byte /\ Hi(w) \in Byte /\ w = (Hi(w) * 256) + Lo(w)
<1>1. SUFFICES ASSUME NEW w \in Int, 0 <= w, w <= 65535
      PROVE  Lo(w) \in Byte /\ Hi(w) \in Byte /\ w = (Hi(w) * 256) + Lo(w)
  BY OfWord
<1> QED BY <1>1 DEF Lo, Hi, Byte, UINT8_MAX

(* Sixteen bits of any number are a word.                                    *)
LEMMA Wraps == \A n \in Int : W(n) \in Word
<1>1. \A n \in Int : W(n) \in Int /\ 0 <= W(n) /\ W(n) <= 65535 BY DEF W
<1> QED BY <1>1, InWord

(* A word is kept by the truncation to sixteen bits.                         *)
LEMMA Kept == ASSUME NEW w \in Word PROVE W(w) = w
<1>1. w \in Int /\ 0 <= w /\ w <= 65535 BY OfWord
<1> QED BY <1>1 DEF W

(* DAD in both emulators.                                                    *)
LEMMA WordsAgree ==
  ASSUME NEW w1 \in Word, NEW w2 \in Word, NEW g
  PROVE  dad(w1, g, w2) = dadAvr(w1, g, w2)
<1>1. PICK l1 \in Byte : l1 = Lo(w1) BY BytesOf
<1>2. PICK h1 \in Byte : h1 = Hi(w1) BY BytesOf
<1>3. PICK l2 \in Byte : l2 = Lo(w2) BY BytesOf
<1>4. PICK h2 \in Byte : h2 = Hi(w2) BY BytesOf
<1>5. w1 = (h1 * 256) + l1 BY <1>1, <1>2, BytesOf
<1>6. w2 = (h2 * 256) + l2 BY <1>3, <1>4, BytesOf
<1>7. PICK c \in Bit : c = On(l1 + l2 > 255, 1) BY DEF On, Bit
<1>8. w1 + w2 = (h1 * 256) + l1 + (h2 * 256) + l2 BY <1>5, <1>6 DEF Byte, UINT8_MAX
<1>9. W(w1 + w2) = Pair(B(h1 + h2 + c), B(l1 + l2)) /\ (W(w1 + w2) < w1 <=> h1 + h2 + c > 255)
  BY <1>5, <1>7, <1>8, TwoBytes DEF Pair
<1>10. dadAvr(w1, g, w2)
         = [w |-> Pair(B(h1 + h2 + c), B(l1 + l2)), f |-> WithCarry(g, h1 + h2 + c > 255)]
  BY <1>1, <1>2, <1>3, <1>4, <1>7 DEF dadAvr
<1>11. dad(w1, g, w2) = [w |-> W(w1 + w2), f |-> WithCarry(g, W(w1 + w2) < w1)]
  BY DEF dad, WithCarry
<1> QED BY <1>9, <1>10, <1>11 DEF WithCarry

(* Every operation returns an accumulator and flags that are bytes.          *)
LEMMA ArithmeticTyped ==
  ASSUME NEW x \in Byte, NEW g \in Byte, NEW v \in Byte, NEW i \in 0..7
  PROVE  Arithmetic(i, x, g, v).a \in Byte /\ Arithmetic(i, x, g, v).f \in Byte
<1>1. \A c \in Bit : /\ SumAvr(x, v, c).a \in Byte /\ SumAvr(x, v, c).f \in Byte
                        /\ DifferenceAvr(x, v, c).a \in Byte /\ DifferenceAvr(x, v, c).f \in Byte
  <2>1. SUFFICES ASSUME NEW c \in Bit
        PROVE  /\ SumAvr(x, v, c).a \in Byte /\ SumAvr(x, v, c).f \in Byte
               /\ DifferenceAvr(x, v, c).a \in Byte /\ DifferenceAvr(x, v, c).f \in Byte
    OBVIOUS
  <2>5. B(x + v + c) \in Byte /\ B(x - v - c) \in Byte BY DEF B, Bit, Byte, UINT8_MAX
  <2>2. PICK s \in Byte, d \in Byte : s = B(x + v + c) /\ d = B(x - v - c) BY <2>5
  <2>4. par_set(s) \in {0, 4} /\ par_set(d) \in {0, 4} BY Flags
  <2>3. /\ comp(x + v + c > 255, (x % 16) + (v % 16) + c > 15, s) \in Byte
        /\ comp(x < v + c, x % 16 < (v % 16) + c, d) \in Byte
    BY <2>4 DEF Bit, comp, On, F_CY, F_AC, F_Z, F_S, Byte, UINT8_MAX
  <2> QED BY <2>2, <2>3 DEF SumAvr, DifferenceAvr, Result
<1>2. /\ ana(x, g, v).a \in Byte /\ xra(x, g, v).a \in Byte /\ ora(x, g, v).a \in Byte
      /\ ana(x, g, v).f \in Byte /\ xra(x, g, v).f \in Byte /\ ora(x, g, v).f \in Byte
  BY Logic
<1>3. g % 2 \in Bit /\ 0 \in Bit BY DEF Bit, Byte, UINT8_MAX
<1>4. Arithmetic(i, x, g, v) \in
        {SumAvr(x, v, 0), SumAvr(x, v, g % 2), DifferenceAvr(x, v, 0), DifferenceAvr(x, v, g % 2),
         Result(x, DifferenceAvr(x, v, 0).f), ana(x, g, v), xra(x, g, v), ora(x, g, v)}
  <2>1. /\ ArithmeticAvr(0, x, g, v) = SumAvr(x, v, 0)
        /\ ArithmeticAvr(1, x, g, v) = SumAvr(x, v, g % 2)
        /\ ArithmeticAvr(2, x, g, v) = DifferenceAvr(x, v, 0)
        /\ ArithmeticAvr(3, x, g, v) = DifferenceAvr(x, v, g % 2)
        /\ ArithmeticAvr(7, x, g, v) = Result(x, DifferenceAvr(x, v, 0).f)
    BY DEF ArithmeticAvr
  <2>2. /\ Arithmetic(4, x, g, v) = ana(x, g, v) /\ Arithmetic(5, x, g, v) = xra(x, g, v)
        /\ Arithmetic(6, x, g, v) = ora(x, g, v)
    BY DEF Arithmetic
  <2>3. i \in {0, 1, 2, 3, 4, 5, 6, 7} OBVIOUS
  <2> QED BY <2>1, <2>2, <2>3, ArithmeticAgrees
<1> QED BY <1>1, <1>2, <1>3, <1>4 DEF Result

(* Setting and clearing a flag of a byte.                                    *)
LEMMA BitsKept ==
  ASSUME NEW g \in Byte
  PROVE  /\ With(g, 1) \in Byte /\ Without(g, 1) \in Byte /\ With(g, 2) \in Byte
         /\ \E l \in 0..3, h \in 0..7 : Without(Without(Without(g, 64), 128), 4) = l + (8 * h)
<1>1. /\ With(g, 1) \in Byte /\ Without(g, 1) \in Byte /\ With(g, 2) \in Byte
  BY DEF With, Without, Has, Byte, UINT8_MAX
<1>2. PICK u \in 0..3, t \in 0..63 : g = (64 * u) + t BY DEF Byte, UINT8_MAX
<1>3. Without(g, 64) = (128 * (u \div 2)) + t BY <1>2 DEF Without, Has
<1>4. Without((128 * (u \div 2)) + t, 128) = t  BY <1>2 DEF Without, Has
<1>5. Without(t, 4) = (t % 4) + (8 * (t \div 8)) BY DEF Without, Has
<1>6. t % 4 \in 0..3 /\ t \div 8 \in 0..7 OBVIOUS
<1> QED BY <1>1, <1>3, <1>4, <1>5, <1>6

(* The flags DAA changes last, in a byte without sign, zero and parity.      *)
LEMMA FlagsSet ==
  \A l \in 0..3, h \in 0..7 :
    /\ \E m \in 0..3 : With(l + (8 * h), 1) = m + (8 * h)
    /\ \E m \in 0..3 : Without(l + (8 * h), 1) = m + (8 * h)
    /\ With(l + (8 * h), 16) \in 0..59 /\ Without(l + (8 * h), 16) \in 0..59
<1>1. SUFFICES ASSUME NEW l \in 0..3, NEW h \in 0..7
      PROVE  /\ \E m \in 0..3 : With(l + (8 * h), 1) = m + (8 * h)
             /\ \E m \in 0..3 : Without(l + (8 * h), 1) = m + (8 * h)
             /\ With(l + (8 * h), 16) \in 0..59 /\ Without(l + (8 * h), 16) \in 0..59
  OBVIOUS
<1>2. Has(l + (8 * h), 1) <=> l % 2 = 1 BY DEF Has
<1>3. (Has(l + (8 * h), 16) <=> h \in {2, 3, 6, 7}) BY DEF Has
<1>4. With(l + (8 * h), 1) = (IF l % 2 = 1 THEN l ELSE l + 1) + (8 * h) BY <1>2 DEF With
<1>5. Without(l + (8 * h), 1) = (IF l % 2 = 1 THEN l - 1 ELSE l) + (8 * h) BY <1>2 DEF Without
<1>6. (IF l % 2 = 1 THEN l ELSE l + 1) \in 0..3 /\ (IF l % 2 = 1 THEN l - 1 ELSE l) \in 0..3
  OBVIOUS
<1>7. With(l + (8 * h), 16) \in 0..59 /\ Without(l + (8 * h), 16) \in 0..59
  BY <1>3 DEF With, Without
<1> QED BY <1>4, <1>5, <1>6, <1>7

(* DAA returns bytes.                                                        *)
LEMMA DaaTyped ==
  ASSUME NEW x \in Byte, NEW g \in Byte
  PROVE  daa(x, g).a \in Byte /\ daa(x, g).f \in Byte
<1> DEFINE low == (x % 16) > 9 \/ Has(g, F_AC)
           high == (x \div 16) > 9 \/ Has(g, F_CY)
           s == B((((x \div 16) + On(high, 6)) * 16) + ((x % 16) + On(low, 6)))
           kept == Without(Without(Without(g, F_Z), F_S), F_P)
           carried == IF high THEN With(kept, F_CY) ELSE Without(kept, F_CY)
           flags2 == IF low THEN With(carried, F_AC) ELSE Without(carried, F_AC)
<1>1. daa(x, g) = Result(s, flags2 + flag_zsp(s))
  BY DEF daa
<1>2. s \in Byte
  <2>1. On(high, 6) \in {0, 6} /\ On(low, 6) \in {0, 6} BY DEF On
  <2>2. x % 16 \in 0..15 /\ x \div 16 \in 0..15 BY DEF Byte, UINT8_MAX
  <2> HIDE DEF high, low
  <2> QED BY <2>1, <2>2 DEF B, Byte, UINT8_MAX
<1>3. PICK l \in 0..3, h \in 0..7 : kept = l + (8 * h)
  BY BitsKept DEF F_Z, F_S, F_P
<1>4. PICK m \in 0..3 : carried = m + (8 * h)
  BY <1>3, FlagsSet DEF F_CY
<1>5. flags2 \in 0..59
  BY <1>4, FlagsSet DEF F_AC
<1>6. flag_zsp(s) \in 0..196 BY <1>2, Flags
<1> HIDE DEF s, flags2
<1>7. flags2 + flag_zsp(s) \in Byte BY <1>5, <1>6 DEF Byte, UINT8_MAX
<1> QED BY <1>1, <1>2, <1>7 DEF Result

(* So do the other operations on the accumulator.                            *)
LEMMA AccumulatorTyped ==
  ASSUME NEW x \in Byte, NEW g \in Byte, NEW i \in 0..7
  PROVE  OnAccumulator(i, x, g).a \in Byte /\ OnAccumulator(i, x, g).f \in Byte
<1>1. /\ OnAccumulator(0, x, g) = rlc(x, g) /\ OnAccumulator(1, x, g) = rrc(x, g)
      /\ OnAccumulator(2, x, g) = ral(x, g) /\ OnAccumulator(3, x, g) = rar(x, g)
      /\ OnAccumulator(4, x, g) = daa(x, g)
      /\ OnAccumulator(5, x, g) = Result(255 - x, g)
      /\ OnAccumulator(6, x, g) = Result(x, With(g, F_CY))
      /\ OnAccumulator(7, x, g) = cmc(x, g)
  BY DEF OnAccumulator, cma, stc
<1>2. With(g, F_CY) \in Byte /\ Without(g, F_CY) \in Byte BY BitsKept DEF F_CY
<1>3. B(x * 2) \in 0..254 /\ x \div 128 \in {0, 1} /\ g % 2 \in {0, 1} /\ x % 2 \in {0, 1}
         /\ x \div 2 \in 0..127 /\ 255 - x \in Byte
  BY DEF B, Byte, UINT8_MAX
<1>4. /\ B(x * 2) + (x \div 128) \in Byte /\ (x \div 2) + ((x % 2) * 128) \in Byte
      /\ B(x * 2) + (g % 2) \in Byte /\ (x \div 2) + ((g % 2) * 128) \in Byte
  BY <1>3 DEF Byte, UINT8_MAX
<1>5. /\ rlc(x, g).a \in Byte /\ rlc(x, g).f \in Byte
      /\ rrc(x, g).a \in Byte /\ rrc(x, g).f \in Byte
      /\ ral(x, g).a \in Byte /\ ral(x, g).f \in Byte
      /\ rar(x, g).a \in Byte /\ rar(x, g).f \in Byte
      /\ cmc(x, g).a \in Byte /\ cmc(x, g).f \in Byte
  BY <1>2, <1>4 DEF rlc, rrc, ral, rar, cmc, WithCarry, Result
<1>6. i \in {0, 1, 2, 3, 4, 5, 6, 7} OBVIOUS
<1> QED BY <1>1, <1>2, <1>3, <1>5, <1>6, DaaTyped DEF Result

(* INR and DCR return bytes.                                                 *)
LEMMA CountsTyped ==
  ASSUME NEW x \in Byte, NEW g \in Byte
  PROVE  /\ inr(x, g).a \in Byte /\ inr(x, g).f \in Byte
         /\ dcr(x, g).a \in Byte /\ dcr(x, g).f \in Byte
<1>0. B(x + 1) \in Byte /\ B(x - 1) \in Byte /\ g % 2 \in 0..1 BY DEF B, Byte, UINT8_MAX
<1>1. PICK s \in Byte, d \in Byte : s = B(x + 1) /\ d = B(x - 1) BY <1>0
<1>2. flag_zsp(s) \in 0..196 /\ flag_zsp(d) \in 0..196 /\ g % 2 \in 0..1 BY <1>0, Flags
<1>3. Stepped(g, s, 0) \in Byte /\ Stepped(g, d, 15) \in Byte
  BY <1>2 DEF Stepped, On, F_AC, Byte, UINT8_MAX
<1> QED BY <1>1, <1>3 DEF inr, dcr, Result

(* DAD returns a word and a byte of flags.                                   *)
LEMMA DadTyped ==
  ASSUME NEW w1 \in Word, NEW w2 \in Word, NEW g \in Byte
  PROVE  dad(w1, g, w2).w \in Word /\ dad(w1, g, w2).f \in Byte
<1>1. W(w1 + w2) \in Word BY OfWord, Wraps
<1>2. With(g, F_CY) \in Byte /\ Without(g, F_CY) \in Byte BY BitsKept DEF F_CY
<1> QED BY <1>1, <1>2 DEF dad

-----------------------------------------------------------------------------

(* Two bytes make a word and are its bytes.                                  *)
LEMMA PairOfBytes ==
  \A h, l \in Byte : Pair(h, l) \in Word /\ Hi(Pair(h, l)) = h /\ Lo(Pair(h, l)) = l
<1>1. SUFFICES ASSUME NEW h \in Byte, NEW l \in Byte
      PROVE  Pair(h, l) \in Word /\ Hi(Pair(h, l)) = h /\ Lo(Pair(h, l)) = l
  OBVIOUS
<1>2. Pair(h, l) \in Int /\ 0 <= Pair(h, l) /\ Pair(h, l) <= 65535
  BY DEF Pair, Byte, UINT8_MAX
<1>3. Hi(Pair(h, l)) = h BY DEF Pair, Hi, Byte, UINT8_MAX
<1>4. Lo(Pair(h, l)) = l BY DEF Pair, Lo, Byte, UINT8_MAX
<1> QED BY <1>2, <1>3, <1>4, InWord

(* A word is a number.                                                       *)
LEMMA WordInt == \A w \in Word : w \in Int
BY OfWord

Names == {"b", "c", "d", "e", "h", "l", "a", "f"}

CpuInv ==
  /\ r \in [Names -> Byte] /\ sp \in Word /\ pc \in Word
  /\ IsMemory(mem) /\ IsMemory(image)
  /\ status \in {0, HALT} \cup {n - 256 : n \in Illegal}

(* The names of the registers.                                               *)
LEMMA NamesDef == DOMAIN Registers = Names
BY DEF Registers, Names

(* Memory returns bytes.                                                     *)
LEMMA Loaded == ASSUME IsMemory(mem), NEW n PROVE Load(n) \in Byte
<1>1. 0 \in Byte BY DEF Byte, UINT8_MAX
<1> QED BY <1>1 DEF IsMemory, Load

(* Memory stays memory when a byte is stored at any address.                 *)
LEMMA StoredTyped ==
  ASSUME NEW m, IsMemory(m), NEW n \in Int, NEW v \in Byte
  PROVE  IsMemory(Stored(m, n, v))
BY Wraps DEF IsMemory, Stored

(* Memory stays memory when a word is stored.                                *)
LEMMA StoredWordTyped ==
  ASSUME IsMemory(mem), NEW n \in Int, NEW w \in Word
  PROVE  IsMemory(StoredWord(n, w))
<1>1. Lo(w) \in Byte /\ Hi(w) \in Byte BY BytesOf
<1>2. IsMemory(Stored(mem, n, Lo(w))) BY <1>1, StoredTyped
<1>3. n + 1 \in Int OBVIOUS
<1> QED BY <1>1, <1>2, <1>3, StoredTyped DEF StoredWord

(* The fields of an opcode and its operands.                                 *)
LEMMA Decoded ==
  ASSUME IsMemory(mem)
  PROVE  /\ Op \in Byte /\ y \in 0..7 /\ p \in 0..3 /\ z \in 0..7
         /\ Imm8 \in Byte /\ Imm16 \in Word
         /\ \A n : LoadWord(n) \in Word
<1>1. Op \in Byte BY Loaded DEF Op
<1>2. y \in 0..7 /\ p \in 0..3 /\ z \in 0..7 BY <1>1 DEF y, p, z, Byte, UINT8_MAX
<1> QED BY <1>1, <1>2, Loaded, PairOfBytes DEF Imm8, Imm16, LoadWord

(* The fields of an opcode name registers.                                   *)
LEMMA Named ==
  /\ \A i \in 0..7 : i # 6 => Code[i + 1] \in Names
  /\ \A i \in 0..3 : High[i + 1] \in Names /\ Low[i + 1] \in Names
<1>1. \A i \in 0..7 : i \in {0, 1, 2, 3, 4, 5, 6, 7} OBVIOUS
<1>2. \A i \in 0..3 : i \in {0, 1, 2, 3} OBVIOUS
<1>3. \A i \in 0..7 : i # 6 => Code[i + 1] \in Names BY <1>1 DEF Code, Names
<1>4. \A i \in 0..3 : High[i + 1] \in Names /\ Low[i + 1] \in Names
  BY <1>2 DEF High, Low, Names
<1> QED BY <1>3, <1>4

(* What the registers, the pairs and the operands hold.                      *)
LEMMA RegistersTyped ==
  ASSUME r \in [Names -> Byte], IsMemory(mem)
  PROVE  /\ r.b \in Byte /\ r.c \in Byte /\ r.d \in Byte /\ r.e \in Byte
         /\ r.h \in Byte /\ r.l \in Byte /\ r.a \in Byte /\ r.f \in Byte
         /\ HL \in Word
         /\ \A i \in 0..3 : PairOf(i) \in Word
         /\ \A i \in 0..3 : sp \in Word => WordOf(i) \in Word
         /\ \A i \in 0..7 : Operand(i) \in Byte
<1>1. /\ r.b \in Byte /\ r.c \in Byte /\ r.d \in Byte /\ r.e \in Byte
      /\ r.h \in Byte /\ r.l \in Byte /\ r.a \in Byte /\ r.f \in Byte
  BY DEF Names
<1>2. HL \in Word BY <1>1, PairOfBytes DEF HL
<1>3. \A i \in 0..3 : PairOf(i) \in Word
  BY Named, PairOfBytes DEF PairOf
<1>4. \A i \in 0..3 : sp \in Word => WordOf(i) \in Word
  BY <1>3 DEF WordOf
<1>5. \A i \in 0..7 : Operand(i) \in Byte
  BY Named, Loaded DEF Operand
<1> QED BY <1>1, <1>2, <1>3, <1>4, <1>5

(* A word put into a pair.                                                   *)
LEMMA PutTyped ==
  ASSUME r \in [Names -> Byte], NEW i \in 0..3, NEW w \in Word
  PROVE  Put(i, w) \in [Names -> Byte]
BY Named, BytesOf DEF Put

(* A byte put into a register.                                               *)
LEMMA IntoTyped ==
  ASSUME NEW regs \in [Names -> Byte], NEW i \in 0..7, NEW v \in Byte
  PROVE  Into(i, v, regs) \in [Names -> Byte]
BY Named DEF Into

(* A byte put where HL points.                                               *)
LEMMA BesideTyped ==
  ASSUME r \in [Names -> Byte], IsMemory(mem), NEW i \in 0..7, NEW v \in Byte
  PROVE  IsMemory(Beside(i, v))
<1>0. HL \in Word BY RegistersTyped
<1>1. HL \in Int BY <1>0, WordInt
<1> QED BY <1>1, StoredTyped DEF Beside

(* The end of an instruction keeps the invariant.                            *)
LEMMA LeavesTyped ==
  ASSUME CpuInv, NEW regs \in [Names -> Byte], NEW stack \in Int, NEW next \in Int,
         NEW memory, IsMemory(memory), Leaves(regs, stack, next, memory)
  PROVE  CpuInv'
BY Wraps DEF CpuInv, Leaves, IsMemory

(* The registers with one replaced, and with accumulator and flags.          *)
LEMMA ReplacedTyped ==
  ASSUME NEW regs \in [Names -> Byte], NEW n \in Names, NEW v \in Byte
  PROVE  [regs EXCEPT ![n] = v] \in [Names -> Byte]
OBVIOUS

(* Loads, stores and moves keep the invariant.                               *)
LEMMA MoveTyped ==
  ASSUME CpuInv, Move
  PROVE  CpuInv'
<1> USE DEF CpuInv
<1>0. /\ \A w \in Word : w \in Int
      /\ sp \in Int /\ pc + 1 \in Int /\ pc + 2 \in Int /\ pc + 3 \in Int
      /\ r \in [Names -> Byte] /\ IsMemory(mem)
      /\ Imm8 \in Byte /\ Imm16 \in Word /\ HL \in Word
      /\ y \in 0..7 /\ z \in 0..7 /\ p \in 0..3
      /\ r.a \in Byte /\ r.d \in Byte /\ r.e \in Byte /\ r.h \in Byte /\ r.l \in Byte
  <2>1. /\ \A w \in Word : w \in Int
        /\ sp \in Int /\ pc + 1 \in Int /\ pc + 2 \in Int /\ pc + 3 \in Int
    BY WordInt
  <2> QED BY <2>1, Decoded, RegistersTyped
<1>1. CASE LXI
  <2>1. CASE p = 3 BY <1>0, <1>1, <2>1, LeavesTyped DEF LXI
  <2>2. CASE p # 3
    <3>1. Put(p, Imm16) \in [Names -> Byte] BY <1>0, PutTyped
    <3> QED BY <1>0, <1>1, <2>2, <3>1, LeavesTyped DEF LXI, Regs
  <2> QED BY <2>1, <2>2
<1>2. CASE STAX
  <2>1. PairOf(p) \in Int BY <1>0, RegistersTyped
  <2>2. IsMemory(Stored(mem, PairOf(p), r.a)) BY <1>0, <2>1, StoredTyped
  <2> QED BY <1>0, <1>2, <2>2, LeavesTyped DEF STAX
<1>3. CASE LDAX
  <2>1. [r EXCEPT !.a = Load(PairOf(p))] \in [Names -> Byte]
    BY <1>0, Loaded, ReplacedTyped DEF Names
  <2> QED BY <1>0, <1>3, <2>1, LeavesTyped DEF LDAX, Regs
<1>4. CASE STA
  <2>1. IsMemory(Stored(mem, Imm16, r.a)) BY <1>0, StoredTyped
  <2> QED BY <1>0, <1>4, <2>1, LeavesTyped DEF STA
<1>5. CASE LDA
  <2>1. [r EXCEPT !.a = Load(Imm16)] \in [Names -> Byte]
    BY <1>0, Loaded, ReplacedTyped DEF Names
  <2> QED BY <1>0, <1>5, <2>1, LeavesTyped DEF LDA, Regs
<1>6. CASE SHLD
  <2>1. IsMemory(StoredWord(Imm16, HL)) BY <1>0, StoredWordTyped
  <2> QED BY <1>0, <1>6, <2>1, LeavesTyped DEF SHLD
<1>7. CASE LHLD
  <2>1. Put(2, LoadWord(Imm16)) \in [Names -> Byte] BY <1>0, Decoded, PutTyped
  <2> QED BY <1>0, <1>7, <2>1, LeavesTyped DEF LHLD, Regs
<1>8. CASE MVI
  <2>1. Into(y, Imm8, r) \in [Names -> Byte] /\ IsMemory(Beside(y, Imm8))
    BY <1>0, IntoTyped, BesideTyped
  <2> QED BY <1>0, <1>8, <2>1, LeavesTyped DEF MVI
<1>9. CASE MOV
  <2>1. Operand(z) \in Byte BY <1>0, RegistersTyped
  <2>2. Into(y, Operand(z), r) \in [Names -> Byte] /\ IsMemory(Beside(y, Operand(z)))
    BY <1>0, <2>1, IntoTyped, BesideTyped
  <2> QED BY <1>0, <1>9, <2>2, LeavesTyped DEF MOV
<1>10. CASE XCHG
  <2>1. [r EXCEPT !.h = r.d, !.l = r.e, !.d = r.h, !.e = r.l] \in [Names -> Byte]
    BY <1>0 DEF Names
  <2> QED BY <1>0, <1>10, <2>1, LeavesTyped DEF XCHG, Regs
<1>11. CASE XTHL
  <2>1. Put(2, LoadWord(sp)) \in [Names -> Byte] BY <1>0, Decoded, PutTyped
  <2>2. IsMemory(StoredWord(sp, HL)) BY <1>0, StoredWordTyped
  <2> QED BY <1>0, <1>11, <2>1, <2>2, LeavesTyped DEF XTHL
<1>12. CASE SPHL BY <1>0, <1>12, LeavesTyped DEF SPHL
<1> QED BY <1>1, <1>2, <1>3, <1>4, <1>5, <1>6, <1>7, <1>8, <1>9, <1>10, <1>11, <1>12 DEF Move

(* Arithmetic keeps the invariant.                                           *)
LEMMA ComputeTyped ==
  ASSUME CpuInv, Compute
  PROVE  CpuInv'
<1> USE DEF CpuInv
<1>0. /\ \A w \in Word : w \in Int
      /\ sp \in Int /\ pc + 1 \in Int /\ pc + 2 \in Int
      /\ r \in [Names -> Byte] /\ IsMemory(mem)
      /\ Imm8 \in Byte /\ HL \in Word
      /\ y \in 0..7 /\ z \in 0..7 /\ p \in 0..3
      /\ r.a \in Byte /\ r.f \in Byte /\ WordOf(p) \in Word
  <2>1. (\A w \in Word : w \in Int) /\ sp \in Int /\ pc + 1 \in Int /\ pc + 2 \in Int
    BY WordInt
  <2> QED BY <2>1, Decoded, RegistersTyped
<1>a. ASSUME NEW v \in Byte, NEW g \in Byte
      PROVE  [r EXCEPT !.a = v, !.f = g] \in [Names -> Byte]
  BY <1>0 DEF Names
<1>1. CASE CountWord
  <2>1. PICK w \in Word : w = W(WordOf(p) + (IF Has(Op, 8) THEN -1 ELSE 1))
    BY <1>0, Wraps
  <2>2. Put(p, w) \in [Names -> Byte] BY <1>0, PutTyped
  <2> QED BY <1>0, <1>1, <2>1, <2>2, LeavesTyped DEF CountWord, Regs
<1>2. CASE DAD
  <2>1. dad(HL, r.f, WordOf(p)).w \in Word /\ dad(HL, r.f, WordOf(p)).f \in Byte
    BY <1>0, DadTyped
  <2>2. Put(2, dad(HL, r.f, WordOf(p)).w) \in [Names -> Byte] BY <1>0, <2>1, PutTyped
  <2>3. [Put(2, dad(HL, r.f, WordOf(p)).w) EXCEPT !.f = dad(HL, r.f, WordOf(p)).f]
          \in [Names -> Byte]
    BY <2>1, <2>2, ReplacedTyped DEF Names
  <2> QED BY <1>0, <1>2, <2>3, LeavesTyped DEF DAD, Regs
<1>3. CASE CountByte
  <2>1. PICK s : /\ s = IF z = 4 THEN inr(Operand(y), r.f) ELSE dcr(Operand(y), r.f)
                 /\ Leaves([Into(y, s.a, r) EXCEPT !.f = s.f], sp, pc + 1, Beside(y, s.a))
    BY <1>3 DEF CountByte
  <2>2. Operand(y) \in Byte BY <1>0, RegistersTyped
  <2>3. s.a \in Byte /\ s.f \in Byte BY <1>0, <2>1, <2>2, CountsTyped
  <2>4. Into(y, s.a, r) \in [Names -> Byte] /\ IsMemory(Beside(y, s.a))
    BY <1>0, <2>3, IntoTyped, BesideTyped
  <2>5. [Into(y, s.a, r) EXCEPT !.f = s.f] \in [Names -> Byte]
    BY <2>3, <2>4, ReplacedTyped DEF Names
  <2> QED BY <1>0, <2>1, <2>4, <2>5, LeavesTyped
<1>4. CASE Accumulator
  <2>1. /\ OnAccumulator(y, r.a, r.f).a \in Byte
        /\ OnAccumulator(y, r.a, r.f).f \in Byte
    BY <1>0, AccumulatorTyped
  <2> QED BY <1>0, <1>a, <1>4, <2>1, LeavesTyped DEF Accumulator, Acc, Regs
<1>5. CASE Alu
  <2>1. Operand(z) \in Byte BY <1>0, RegistersTyped
  <2>2. /\ Arithmetic(y, r.a, r.f, Operand(z)).a \in Byte
        /\ Arithmetic(y, r.a, r.f, Operand(z)).f \in Byte
    BY <1>0, <2>1, ArithmeticTyped
  <2> QED BY <1>0, <1>a, <1>5, <2>2, LeavesTyped DEF Alu, Acc, Regs
<1>6. CASE AluImmediate
  <2>1. /\ Arithmetic(y, r.a, r.f, Imm8).a \in Byte
        /\ Arithmetic(y, r.a, r.f, Imm8).f \in Byte
    BY <1>0, ArithmeticTyped
  <2> QED BY <1>0, <1>a, <1>6, <2>1, LeavesTyped DEF AluImmediate, Acc, Regs
<1> QED BY <1>1, <1>2, <1>3, <1>4, <1>5, <1>6 DEF Compute

(* A call keeps the invariant.                                               *)
LEMMA CallTyped ==
  ASSUME CpuInv, NEW target \in Int, NEW back \in Int, CallTo(target, back)
  PROVE  CpuInv'
<1> USE DEF CpuInv
<1>1. sp - 2 \in Int BY WordInt
<1>2. W(back) \in Word BY Wraps
<1>3. IsMemory(StoredWord(sp - 2, W(back))) BY <1>1, <1>2, StoredWordTyped
<1> QED BY <1>1, <1>3, LeavesTyped DEF CallTo

(* Jumps, calls, returns, pushes and pops keep the invariant.                *)
LEMMA TransferTyped ==
  ASSUME CpuInv, Transfer
  PROVE  CpuInv'
<1> USE DEF CpuInv
<1>0. /\ \A w \in Word : w \in Int
      /\ sp \in Int /\ sp + 2 \in Int /\ sp - 2 \in Int
      /\ pc + 1 \in Int /\ pc + 3 \in Int
      /\ r \in [Names -> Byte] /\ IsMemory(mem)
      /\ Imm16 \in Word /\ HL \in Word /\ LoadWord(sp) \in Word
      /\ y \in 0..7 /\ p \in 0..3
      /\ r.a \in Byte /\ r.f \in Byte /\ PairOf(p) \in Word
  <2>1. sp + 2 \in Int /\ sp - 2 \in Int /\ pc + 1 \in Int /\ pc + 3 \in Int
    BY WordInt
  <2> QED BY <2>1, WordInt, Decoded, RegistersTyped
<1>1. CASE JMP BY <1>0, <1>1, LeavesTyped DEF JMP
<1>2. CASE JumpIf
  <2>1. CASE Condition BY <1>0, <1>2, <2>1, LeavesTyped DEF JumpIf
  <2>2. CASE ~ Condition BY <1>0, <1>2, <2>2, LeavesTyped DEF JumpIf
  <2> QED BY <2>1, <2>2
<1>3. CASE CALL BY <1>0, <1>3, CallTyped DEF CALL
<1>4. CASE CallIf
  <2>1. CASE Condition BY <1>0, <1>4, <2>1, CallTyped DEF CallIf
  <2>2. CASE ~ Condition BY <1>0, <1>4, <2>2, LeavesTyped DEF CallIf, Regs
  <2> QED BY <2>1, <2>2
<1>5. CASE RST
  <2>1. 8 * y \in Int BY <1>0
  <2> QED BY <1>0, <1>5, <2>1, CallTyped DEF RST
<1>6. CASE RET BY <1>0, <1>6, LeavesTyped DEF RET, Returns
<1>7. CASE ReturnIf
  <2>1. CASE Condition BY <1>0, <1>7, <2>1, LeavesTyped DEF ReturnIf, Returns
  <2>2. CASE ~ Condition BY <1>0, <1>7, <2>2, LeavesTyped DEF ReturnIf, Regs
  <2> QED BY <2>1, <2>2
<1>8. CASE PCHL BY <1>0, <1>8, LeavesTyped DEF PCHL
<1>9. CASE PUSH
  <2>1. PICK w : /\ w = IF p = 3 THEN Pair(r.a, With(r.f, 2)) ELSE PairOf(p)
                 /\ Leaves(r, sp - 2, pc + 1, StoredWord(sp - 2, w))
    BY <1>9 DEF PUSH
  <2>2. With(r.f, 2) \in Byte BY <1>0, BitsKept
  <2>3. w \in Word BY <1>0, <2>1, <2>2, PairOfBytes
  <2>4. IsMemory(StoredWord(sp - 2, w)) BY <1>0, <2>3, StoredWordTyped
  <2> QED BY <1>0, <2>1, <2>4, LeavesTyped
<1>10. CASE POP
  <2>1. Put(p, LoadWord(sp)) \in [Names -> Byte] BY <1>0, PutTyped
  <2> QED BY <1>0, <1>10, <2>1, LeavesTyped DEF POP
<1> QED BY <1>1, <1>2, <1>3, <1>4, <1>5, <1>6, <1>7, <1>8, <1>9, <1>10 DEF Transfer

(* Every instruction keeps the invariant.                                    *)
LEMMA StepTyped ==
  ASSUME CpuAssumption, CpuInv, Step
  PROVE  CpuInv'
<1>0. /\ pc + 1 \in Int /\ pc + 2 \in Int /\ sp \in Int
      /\ W(pc + 1) \in Word /\ W(pc + 2) \in Word
  <2>1. pc + 1 \in Int /\ pc + 2 \in Int /\ sp \in Int BY WordInt DEF CpuInv
  <2> QED BY <2>1, Wraps
<1>1. CASE NOP BY <1>0, <1>1, LeavesTyped DEF NOP, Regs, CpuInv
<1>2. CASE OutPort BY <1>0, <1>2 DEF OutPort, CpuInv, IsMemory
<1>3. CASE InPort
  <2>1. PICK v \in Answers : r' = [r EXCEPT !.a = v] BY <1>3 DEF InPort
  <2>2. v \in Byte BY <2>1 DEF CpuAssumption
  <2>3. r' \in [Names -> Byte] BY <2>1, <2>2, ReplacedTyped DEF CpuInv, Names
  <2> QED BY <1>0, <1>3, <2>3 DEF InPort, CpuInv, IsMemory
<1>4. CASE HLT BY <1>0, <1>4 DEF HLT, Stops, CpuInv, IsMemory
<1>5. CASE IllegalOp BY <1>0, <1>5 DEF IllegalOp, Stops, CpuInv, IsMemory
<1> QED BY <1>1, <1>2, <1>3, <1>4, <1>5, MoveTyped, ComputeTyped, TransferTyped DEF Step

(* The registers after a reset.                                              *)
LEMMA ResetTyped ==
  /\ Registers \in [Names -> Byte] /\ 65535 \in Word /\ 0 \in Word
  /\ 0 \in {0, HALT} \cup {n - 256 : n \in Illegal}
<1>1. 0 \in Word /\ 65535 \in Word BY InWord
<1> QED BY <1>1 DEF Registers, Names, Byte, UINT8_MAX

(* A boot keeps the invariant.                                               *)
LEMMA BootTyped ==
  ASSUME CpuInv, Boot
  PROVE  CpuInv'
<1>1. IsMemory(mem') /\ IsMemory(image') BY DEF Boot, IsMemory, CpuInv
<1> QED BY <1>1, ResetTyped DEF Boot, CpuInv, IsMemory

-----------------------------------------------------------------------------

(* The bytes of memory outside of places are those of mem.                   *)
Untouched(memory, places) ==
  \A n \in DOMAIN mem \cup DOMAIN memory :
    n \notin places => n \in DOMAIN mem /\ n \in DOMAIN memory /\ memory[n] = mem[n]

(* What Framed says of a step.                                               *)
FrameOf ==
  /\ Untouched(mem', Targets)
  /\ sp' # sp => Op \in StackOps
  /\ pc' \in {W(pc + InstructionLength)} \cup Destinations

(* Memory that is not stored to.                                             *)
LEMMA UntouchedByNone == ASSUME NEW places PROVE Untouched(mem, places)
BY DEF Untouched

(* A byte stored.                                                            *)
LEMMA UntouchedByByte ==
  ASSUME NEW n \in Word, NEW v
  PROVE  Untouched(Stored(mem, n, v), {n})
BY Kept DEF Untouched, Stored

(* A word stored, which may wrap.                                            *)
LEMMA UntouchedByWord ==
  ASSUME NEW n \in Int, NEW w
  PROVE  Untouched(StoredWord(n, w), {W(n), W(n + 1)})
<1>1. DOMAIN StoredWord(n, w) = DOMAIN mem \cup {W(n), W(n + 1)}
  BY DEF StoredWord, Stored
<1>2. ASSUME NEW m \in DOMAIN mem, m # W(n), m # W(n + 1)
      PROVE  StoredWord(n, w)[m] = mem[m]
  BY <1>2 DEF StoredWord, Stored
<1> QED BY <1>1, <1>2 DEF Untouched

(* The end of an instruction that stores within its targets.                 *)
LEMMA FramedLeaves ==
  ASSUME NEW regs, NEW stack, NEW next, NEW memory, Leaves(regs, stack, next, memory),
         Untouched(memory, Targets), W(stack) # sp => Op \in StackOps,
         W(next) \in {W(pc + InstructionLength)} \cup Destinations
  PROVE  FrameOf
BY DEF Leaves, FrameOf

(* The end of an instruction that stores nothing and goes on.                *)
LEMMA FramedQuiet ==
  ASSUME CpuInv, NEW regs, NEW k, Leaves(regs, sp, pc + k, mem), InstructionLength = k
  PROVE  FrameOf
<1>1. W(sp) = sp BY Kept DEF CpuInv
<1> QED BY <1>1, FramedLeaves, UntouchedByNone

(* The opcodes of the classes.                                               *)
LEMMA Opcodes ==
  ASSUME CpuInv
  PROVE  /\ Op < 64 /\ z = 1 /\ ~ Has(Op, 8) => Op \in {1, 17, 33, 49}
         /\ Op < 64 /\ z = 1 /\ Has(Op, 8) => Op \in {9, 25, 41, 57}
         /\ Op < 64 /\ z = 3 => Op \in {3, 11, 19, 27, 35, 43, 51, 59}
         /\ Op < 64 /\ z \in {4, 5} =>
              Op \in {4, 5, 12, 13, 20, 21, 28, 29, 36, 37, 44, 45, 52, 53, 60, 61}
         /\ Op < 64 /\ z = 6 => Op \in {6, 14, 22, 30, 38, 46, 54, 62}
         /\ Op < 64 /\ z = 7 => Op \in {7, 15, 23, 31, 39, 47, 55, 63}
         /\ Op >= 192 /\ z = 0 => Op \in {192, 200, 208, 216, 224, 232, 240, 248}
         /\ Op >= 192 /\ z = 1 /\ ~ Has(Op, 8) => Op \in {193, 209, 225, 241}
         /\ Op >= 192 /\ z = 2 => Op \in {194, 202, 210, 218, 226, 234, 242, 250}
         /\ Op >= 192 /\ z = 4 => Op \in {196, 204, 212, 220, 228, 236, 244, 252}
         /\ Op >= 192 /\ z = 5 /\ ~ Has(Op, 8) => Op \in {197, 213, 229, 245}
         /\ Op >= 192 /\ z = 6 => Op \in {198, 206, 214, 222, 230, 238, 246, 254}
         /\ Op >= 192 /\ z = 7 => Op \in {199, 207, 215, 223, 231, 239, 247, 255}
<1>0. Op \in Byte BY Decoded DEF CpuInv
<1>1. PICK o \in Byte : o = Op BY <1>0
<1>2. PICK q \in 0..31, k \in 0..7 : o = (8 * q) + k BY DEF Byte, UINT8_MAX
<1>3. z = k BY <1>1, <1>2 DEF z
<1>4. Has(o, 8) <=> q % 2 = 1 BY <1>2 DEF Has
<1>5. q < 8 => q \in {0, 1, 2, 3, 4, 5, 6, 7} OBVIOUS
<1>6. q >= 24 => q \in {24, 25, 26, 27, 28, 29, 30, 31} OBVIOUS
<1>7. (o < 64 <=> q < 8) /\ (o >= 192 <=> q >= 24) BY <1>2
<1> QED BY <1>1, <1>2, <1>3, <1>4, <1>5, <1>6, <1>7

(* Loads, stores and moves are framed.                                       *)
LEMMA MoveFramed ==
  ASSUME CpuInv, Move
  PROVE  FrameOf
<1>0. /\ sp \in Word /\ pc \in Word /\ HL \in Word /\ Imm16 \in Word
      /\ Op \in Byte /\ y \in 0..7 /\ W(sp) = sp
  BY Decoded, RegistersTyped, Kept DEF CpuInv
<1>1. CASE LXI
  <2>1. Op \in {1, 17, 33, 49} BY <1>1, Opcodes DEF LXI
  <2>2. InstructionLength = 3 BY <2>1 DEF InstructionLength
  <2>3. CASE p = 3
    <3>1. Op = 49 BY <2>1, <2>3 DEF p
    <3>2. Op \in StackOps BY <3>1 DEF StackOps
    <3> QED BY <1>1, <2>2, <2>3, <3>2, FramedLeaves, UntouchedByNone DEF LXI
  <2>4. CASE p # 3 BY <1>1, <2>2, <2>4, FramedQuiet DEF LXI, Regs
  <2> QED BY <2>3, <2>4
<1>2. CASE STAX
  <2>1. InstructionLength = 1 /\ Targets = {PairOf(p)}
    BY <1>2 DEF STAX, InstructionLength, Targets, Pushes, Calls
  <2>2. PairOf(p) \in Word BY Decoded, RegistersTyped DEF CpuInv
  <2>3. Untouched(Stored(mem, PairOf(p), r.a), {PairOf(p)}) BY <2>2, UntouchedByByte
  <2> QED BY <1>0, <1>2, <2>1, <2>3, FramedLeaves DEF STAX
<1>3. CASE LDAX
  <2>1. InstructionLength = 1 BY <1>3 DEF LDAX, InstructionLength
  <2> QED BY <1>3, <2>1, FramedQuiet DEF LDAX, Regs
<1>4. CASE STA
  <2>1. InstructionLength = 3 /\ Targets = {Imm16}
    BY <1>4 DEF STA, InstructionLength, Targets, Pushes, Calls
  <2>2. Untouched(Stored(mem, Imm16, r.a), {Imm16}) BY <1>0, UntouchedByByte
  <2> QED BY <1>0, <1>4, <2>1, <2>2, FramedLeaves DEF STA
<1>5. CASE LDA
  <2>1. InstructionLength = 3 BY <1>5 DEF LDA, InstructionLength
  <2> QED BY <1>5, <2>1, FramedQuiet DEF LDA, Regs
<1>6. CASE SHLD
  <2>1. InstructionLength = 3 /\ Targets = {Imm16, W(Imm16 + 1)}
    BY <1>6 DEF SHLD, InstructionLength, Targets, Pushes, Calls
  <2>2. Untouched(StoredWord(Imm16, HL), {W(Imm16), W(Imm16 + 1)})
    BY <1>0, WordInt, UntouchedByWord
  <2>3. W(Imm16) = Imm16 BY <1>0, Kept
  <2> QED BY <1>0, <1>6, <2>1, <2>2, <2>3, FramedLeaves DEF SHLD
<1>7. CASE LHLD
  <2>1. InstructionLength = 3 BY <1>7 DEF LHLD, InstructionLength
  <2> QED BY <1>7, <2>1, FramedQuiet DEF LHLD, Regs
<1>8. CASE MVI
  <2>1. Op \in {6, 14, 22, 30, 38, 46, 54, 62} BY <1>8, Opcodes DEF MVI
  <2>2. InstructionLength = 2 BY <2>1 DEF InstructionLength
  <2>3. CASE y = 6
    <3>1. Op = 54 BY <2>1, <2>3 DEF y
    <3>2. Targets = {HL} BY <3>1 DEF Targets, Pushes, Calls
    <3>3. Untouched(Beside(y, Imm8), {HL}) BY <1>0, <2>3, UntouchedByByte DEF Beside
    <3> QED BY <1>0, <1>8, <2>2, <3>2, <3>3, FramedLeaves DEF MVI
  <2>4. CASE y # 6 BY <1>8, <2>2, <2>4, FramedQuiet DEF MVI, Beside
  <2> QED BY <2>3, <2>4
<1>9. CASE MOV
  <2>1. InstructionLength = 1 BY <1>9 DEF MOV, InstructionLength
  <2>2. CASE y = 6
    <3>1. Op \in 112..119 \ {118} BY <1>9, <2>2 DEF MOV, y
    <3>2. Targets = {HL} BY <3>1 DEF Targets, Pushes, Calls
    <3>3. Untouched(Beside(y, Operand(z)), {HL}) BY <1>0, <2>2, UntouchedByByte DEF Beside
    <3> QED BY <1>0, <1>9, <2>1, <3>2, <3>3, FramedLeaves DEF MOV
  <2>3. CASE y # 6 BY <1>9, <2>1, <2>3, FramedQuiet DEF MOV, Beside
  <2> QED BY <2>2, <2>3
<1>10. CASE XCHG
  <2>1. InstructionLength = 1 BY <1>10 DEF XCHG, InstructionLength
  <2> QED BY <1>10, <2>1, FramedQuiet DEF XCHG, Regs
<1>11. CASE XTHL
  <2>1. InstructionLength = 1 /\ Targets = {sp, W(sp + 1)}
    BY <1>11 DEF XTHL, InstructionLength, Targets, Pushes, Calls
  <2>2. Untouched(StoredWord(sp, HL), {W(sp), W(sp + 1)}) BY <1>0, WordInt, UntouchedByWord
  <2> QED BY <1>0, <1>11, <2>1, <2>2, FramedLeaves DEF XTHL
<1>12. CASE SPHL
  <2>1. InstructionLength = 1 /\ Op \in StackOps
    BY <1>12 DEF SPHL, InstructionLength, StackOps
  <2> QED BY <1>12, <2>1, FramedLeaves, UntouchedByNone DEF SPHL
<1> QED BY <1>1, <1>2, <1>3, <1>4, <1>5, <1>6, <1>7, <1>8, <1>9, <1>10, <1>11, <1>12 DEF Move

(* Arithmetic is framed.                                                     *)
LEMMA ComputeFramed ==
  ASSUME CpuInv, Compute
  PROVE  FrameOf
<1>0. HL \in Word /\ Op \in Byte /\ W(sp) = sp
  BY Decoded, RegistersTyped, Kept DEF CpuInv
<1>1. CASE CountWord
  <2>1. Op \in {3, 11, 19, 27, 35, 43, 51, 59} BY <1>1, Opcodes DEF CountWord
  <2>2. InstructionLength = 1 BY <2>1 DEF InstructionLength
  <2>3. CASE p = 3
    <3>1. Op \in {51, 59} BY <2>1, <2>3 DEF p
    <3>2. Op \in StackOps BY <3>1 DEF StackOps
    <3> QED BY <1>1, <2>2, <2>3, <3>2, FramedLeaves, UntouchedByNone DEF CountWord
  <2>4. CASE p # 3 BY <1>1, <2>2, <2>4, FramedQuiet DEF CountWord, Regs
  <2> QED BY <2>3, <2>4
<1>2. CASE DAD
  <2>1. Op \in {9, 25, 41, 57} BY <1>2, Opcodes DEF DAD
  <2>2. InstructionLength = 1 BY <2>1 DEF InstructionLength
  <2> QED BY <1>2, <2>2, FramedQuiet DEF DAD, Regs
<1>3. CASE CountByte
  <2>1. PICK s, regs : Leaves(regs, sp, pc + 1, Beside(y, s.a))
    BY <1>3 DEF CountByte
  <2>2. Op \in {4, 5, 12, 13, 20, 21, 28, 29, 36, 37, 44, 45, 52, 53, 60, 61}
    BY <1>3, Opcodes DEF CountByte
  <2>3. InstructionLength = 1 BY <2>2 DEF InstructionLength
  <2>4. CASE y = 6
    <3>1. Op \in {52, 53} BY <2>2, <2>4 DEF y
    <3>2. Targets = {HL} BY <3>1 DEF Targets, Pushes, Calls
    <3>3. Untouched(Beside(y, s.a), {HL}) BY <1>0, <2>4, UntouchedByByte DEF Beside
    <3> QED BY <1>0, <2>1, <2>3, <3>2, <3>3, FramedLeaves
  <2>5. CASE y # 6 BY <2>1, <2>3, <2>5, FramedQuiet DEF Beside
  <2> QED BY <2>4, <2>5
<1>4. CASE Accumulator
  <2>1. Op \in {7, 15, 23, 31, 39, 47, 55, 63} BY <1>4, Opcodes DEF Accumulator
  <2>2. InstructionLength = 1 BY <2>1 DEF InstructionLength
  <2> QED BY <1>4, <2>2, FramedQuiet DEF Accumulator, Acc, Regs
<1>5. CASE Alu
  <2>1. InstructionLength = 1 BY <1>5 DEF Alu, InstructionLength
  <2> QED BY <1>5, <2>1, FramedQuiet DEF Alu, Acc, Regs
<1>6. CASE AluImmediate
  <2>1. Op \in {198, 206, 214, 222, 230, 238, 246, 254} BY <1>6, Opcodes DEF AluImmediate
  <2>2. InstructionLength = 2 BY <2>1 DEF InstructionLength
  <2> QED BY <1>6, <2>2, FramedQuiet DEF AluImmediate, Acc, Regs
<1> QED BY <1>1, <1>2, <1>3, <1>4, <1>5, <1>6 DEF Compute

(* A push moves the stack pointer, also around address 0.                    *)
LEMMA StackMoves == \A w \in Word : W(w - 2) # w /\ W(w - 2) \in Word /\ (w - 2) + 1 = w - 1
<1>1. SUFFICES ASSUME NEW w \in Int, 0 <= w, w <= 65535
      PROVE  W(w - 2) # w /\ W(w - 2) \in Word /\ (w - 2) + 1 = w - 1
  BY OfWord
<1>2. W(w - 2) = IF w < 2 THEN w + 65534 ELSE w - 2 BY <1>1 DEF W
<1>3. W(w - 2) \in Word BY <1>1, Wraps
<1> QED BY <1>1, <1>2, <1>3

(* A call that is taken is framed.                                           *)
LEMMA CallFramed ==
  ASSUME CpuInv, NEW target, NEW back, CallTo(target, back),
         Op \in Calls, W(target) \in {W(pc + InstructionLength)} \cup Destinations
  PROVE  FrameOf
<1>1. sp \in Word BY DEF CpuInv
<1>2. sp' # sp /\ (sp - 2) + 1 = sp - 1 BY <1>1, StackMoves DEF CallTo, Leaves
<1>3. Op \notin {2, 18, 34, 50, 227} \cup {52, 53, 54} \cup (112..119 \ {118}) BY DEF Calls
<1>4. Targets = {W(sp - 1), W(sp - 2)} BY <1>2, <1>3 DEF Targets
<1>5. Untouched(StoredWord(sp - 2, W(back)), {W(sp - 2), W((sp - 2) + 1)})
  BY <1>1, WordInt, UntouchedByWord
<1>6. Untouched(StoredWord(sp - 2, W(back)), Targets) BY <1>2, <1>4, <1>5
<1>7. Op \in StackOps BY DEF StackOps
<1> QED BY <1>6, <1>7, FramedLeaves DEF CallTo

(* Jumps, calls, returns, pushes and pops are framed.                        *)
LEMMA TransferFramed ==
  ASSUME CpuInv, Transfer
  PROVE  FrameOf
<1>0. /\ sp \in Word /\ HL \in Word /\ Imm16 \in Word /\ LoadWord(sp) \in Word
      /\ Op \in Byte /\ y \in 0..7
      /\ W(sp) = sp /\ W(HL) = HL /\ W(Imm16) = Imm16 /\ W(LoadWord(sp)) = LoadWord(sp)
  BY Decoded, RegistersTyped, Kept DEF CpuInv
<1>1. CASE JMP
  <2>1. Destinations = {Imm16} BY <1>1 DEF JMP, Destinations, ReturnsOps, Calls
  <2> QED BY <1>0, <1>1, <2>1, FramedLeaves, UntouchedByNone DEF JMP
<1>2. CASE JumpIf
  <2>1. Op \in {194, 202, 210, 218, 226, 234, 242, 250} BY <1>2, Opcodes DEF JumpIf
  <2>2. InstructionLength = 3 BY <2>1 DEF InstructionLength
  <2>3. Destinations = {Imm16} BY <1>0, <2>1 DEF Destinations, ReturnsOps, Calls
  <2>4. CASE Condition
    BY <1>0, <1>2, <2>3, <2>4, FramedLeaves, UntouchedByNone DEF JumpIf
  <2>5. CASE ~ Condition BY <1>2, <2>2, <2>5, FramedQuiet DEF JumpIf
  <2> QED BY <2>4, <2>5
<1>3. CASE CALL
  <2>1. Op \in Calls BY <1>3 DEF CALL, Calls
  <2>2. Destinations = {Imm16} BY <1>3 DEF CALL, Destinations, ReturnsOps, Calls
  <2> QED BY <1>0, <1>3, <2>1, <2>2, CallFramed DEF CALL
<1>4. CASE CallIf
  <2>1. Op \in {196, 204, 212, 220, 228, 236, 244, 252} BY <1>4, Opcodes DEF CallIf
  <2>2. InstructionLength = 3 BY <2>1 DEF InstructionLength
  <2>3. Op \in Calls BY <1>0, <2>1 DEF Calls
  <2>4. Destinations = {Imm16} BY <1>0, <2>1 DEF Destinations, ReturnsOps, Calls
  <2>5. CASE Condition BY <1>0, <1>4, <2>3, <2>4, <2>5, CallFramed DEF CallIf
  <2>6. CASE ~ Condition BY <1>4, <2>2, <2>6, FramedQuiet DEF CallIf, Regs
  <2> QED BY <2>5, <2>6
<1>5. CASE RST
  <2>1. Op \in {199, 207, 215, 223, 231, 239, 247, 255} BY <1>5, Opcodes DEF RST
  <2>2. Op \in Calls BY <1>0, <2>1 DEF Calls
  <2>6. Op # 233 /\ Op \notin ReturnsOps /\ Op % 8 = 7 BY <2>1 DEF ReturnsOps
  <2>3. Destinations = {Op - 199} BY <2>2, <2>6 DEF Destinations
  <2>4. Op - 199 = 8 * y BY <2>1 DEF y
  <2>5. W(8 * y) = 8 * y
    <3>1. \A k \in 0..7 : 8 * k \in Word BY InWord
    <3> QED BY <1>0, <3>1, Kept
  <2> QED BY <1>5, <2>2, <2>3, <2>4, <2>5, CallFramed DEF RST
<1>6. ASSUME Op \in ReturnsOps, Returns
      PROVE  FrameOf
  <2>0. Op # 233 /\ Op \notin Calls \cup {195} \cup {n \in Byte : n >= 192 /\ n % 8 = 2}
    BY <1>6 DEF ReturnsOps, Calls
  <2>1. Destinations = {LoadWord(sp)} BY <1>6, <2>0 DEF Destinations
  <2>2. Op \in StackOps BY <1>6 DEF StackOps
  <2> QED BY <1>0, <1>6, <2>1, <2>2, FramedLeaves, UntouchedByNone DEF Returns
<1>7. CASE RET
  <2>1. Op \in ReturnsOps BY <1>7 DEF RET, ReturnsOps
  <2> QED BY <1>6, <1>7, <2>1 DEF RET
<1>8. CASE ReturnIf
  <2>1. Op \in {192, 200, 208, 216, 224, 232, 240, 248} BY <1>8, Opcodes DEF ReturnIf
  <2>2. InstructionLength = 1 BY <2>1 DEF InstructionLength
  <2>3. Op \in ReturnsOps BY <1>0, <2>1 DEF ReturnsOps
  <2>4. CASE Condition BY <1>6, <1>8, <2>3, <2>4 DEF ReturnIf
  <2>5. CASE ~ Condition BY <1>8, <2>2, <2>5, FramedQuiet DEF ReturnIf, Regs
  <2> QED BY <2>4, <2>5
<1>9. CASE PCHL
  <2>1. Destinations = {HL} BY <1>9 DEF PCHL, Destinations, ReturnsOps, Calls
  <2> QED BY <1>0, <1>9, <2>1, FramedLeaves, UntouchedByNone DEF PCHL
<1>10. CASE PUSH
  <2>1. PICK w : Leaves(r, sp - 2, pc + 1, StoredWord(sp - 2, w)) BY <1>10 DEF PUSH
  <2>2. Op \in {197, 213, 229, 245} BY <1>10, Opcodes DEF PUSH
  <2>3. InstructionLength = 1 /\ Op \in StackOps
    BY <2>2 DEF InstructionLength, StackOps, Pushes
  <2>4. Targets = {W(sp - 1), W(sp - 2)} BY <2>2 DEF Targets, Pushes
  <2>5. Untouched(StoredWord(sp - 2, w), {W(sp - 2), W((sp - 2) + 1)})
    BY <1>0, WordInt, UntouchedByWord
  <2>6. (sp - 2) + 1 = sp - 1 BY <1>0, StackMoves
  <2>7. Untouched(StoredWord(sp - 2, w), Targets) BY <2>4, <2>5, <2>6
  <2> QED BY <2>1, <2>3, <2>7, FramedLeaves
<1>11. CASE POP
  <2>1. Op \in {193, 209, 225, 241} BY <1>11, Opcodes DEF POP
  <2>2. InstructionLength = 1 /\ Op \in StackOps
    BY <2>1 DEF InstructionLength, StackOps, Pops
  <2> QED BY <1>11, <2>2, FramedLeaves, UntouchedByNone DEF POP
<1> QED BY <1>1, <1>2, <1>3, <1>4, <1>5, <1>7, <1>8, <1>9, <1>10, <1>11 DEF Transfer

(* Every instruction is framed.                                              *)
LEMMA StepFramed ==
  ASSUME CpuInv, Step
  PROVE  FrameOf
<1>1. CASE NOP
  <2>1. InstructionLength = 1 BY <1>1 DEF NOP, InstructionLength
  <2> QED BY <1>1, <2>1, FramedQuiet DEF NOP, Regs
<1>2. CASE OutPort \/ InPort
  <2>1. Op \in {211, 219} BY <1>2 DEF OutPort, InPort
  <2>2. InstructionLength = 2 BY <2>1 DEF InstructionLength
  <2> QED BY <1>2, <2>2, UntouchedByNone DEF OutPort, InPort, FrameOf
<1>3. CASE HLT
  <2>1. InstructionLength = 1 BY <1>3 DEF HLT, InstructionLength
  <2> QED BY <1>3, <2>1, UntouchedByNone DEF HLT, Stops, FrameOf
<1>4. CASE IllegalOp
  <2>1. InstructionLength = 1 BY <1>4 DEF IllegalOp, Illegal, InstructionLength
  <2> QED BY <1>4, <2>1, UntouchedByNone DEF IllegalOp, Stops, FrameOf
<1> QED BY <1>1, <1>2, <1>3, <1>4, MoveFramed, ComputeFramed, TransferFramed DEF Step
-----------------------------------------------------------------------------
(* The instance Both computes with the operators of Alu8080.                 *)
LEMMA SameFlags ==
  /\ Both!Byte = Byte /\ Both!F_CY = F_CY /\ Both!F_AC = F_AC
  /\ \A v, bit : Both!With(v, bit) = With(v, bit) /\ Both!Without(v, bit) = Without(v, bit)
  /\ \A v : Both!B(v) = B(v) /\ Both!W(v) = W(v) /\ Both!flag_zsp(v) = flag_zsp(v)
  /\ \A v, g : Both!Result(v, g) = Result(v, g) /\ Both!Pair(v, g) = Pair(v, g)
BY DEF Byte, UINT8_MAX, F_CY, F_P, F_S, F_Z, F_AC, With, Without, Has, B, W, flag_zsp, On, tbl_par,
       Result, Pair,
       Both!Byte, Both!UINT8_MAX, Both!F_CY, Both!F_P, Both!F_S, Both!F_Z, Both!F_AC, Both!With,
       Both!Without, Both!Has, Both!B, Both!W, Both!flag_zsp, Both!On, Both!tbl_par, Both!Result,
       Both!Pair

(* The sums and differences of the instance.                                 *)
LEMMA SameSums ==
  ASSUME NEW x, NEW g, NEW v
  PROVE  /\ Both!adc(x, g, v) = adc(x, g, v) /\ Both!sbb(x, g, v) = sbb(x, g, v)
         /\ Both!add(x, g, v) = add(x, g, v) /\ Both!sub(x, g, v) = sub(x, g, v)
         /\ Both!cmp(x, g, v) = cmp(x, g, v)
<1>1. \A k : Both!adc(x, k, v) = adc(x, k, v)
  BY SameFlags DEF adc, On, F_CY, F_AC, Both!adc, Both!On, Both!F_CY, Both!F_AC
<1>2. \A k : Both!sbb(x, k, v) = sbb(x, k, v)
  BY SameFlags DEF sbb, On, F_CY, F_AC, Both!sbb, Both!On, Both!F_CY, Both!F_AC
<1> QED BY <1>1, <1>2, SameFlags DEF add, sub, cmp, Both!add, Both!sub, Both!cmp

(* Its logic operations.                                                     *)
LEMMA SameLogic ==
  ASSUME NEW x, NEW g, NEW v
  PROVE  /\ Both!ana(x, g, v) = ana(x, g, v) /\ Both!xra(x, g, v) = xra(x, g, v)
         /\ Both!ora(x, g, v) = ora(x, g, v)
<1>1. Both!ana(x, g, v) = ana(x, g, v)
  BY DEF ana, Combined, Has, On, Result, flag_zsp, tbl_par, F_AC, F_P, F_S, F_Z,
         Both!ana, Both!Combined, Both!Has, Both!On, Both!Result, Both!flag_zsp, Both!tbl_par,
         Both!F_AC, Both!F_P, Both!F_S, Both!F_Z
<1>2. Both!xra(x, g, v) = xra(x, g, v)
  BY DEF xra, Combined, Has, On, Result, flag_zsp, tbl_par, F_P, F_S, F_Z,
         Both!xra, Both!Combined, Both!Has, Both!On, Both!Result, Both!flag_zsp, Both!tbl_par,
         Both!F_P, Both!F_S, Both!F_Z
<1>3. Both!ora(x, g, v) = ora(x, g, v)
  BY DEF ora, Combined, Has, On, Result, flag_zsp, tbl_par, F_P, F_S, F_Z,
         Both!ora, Both!Combined, Both!Has, Both!On, Both!Result, Both!flag_zsp, Both!tbl_par,
         Both!F_P, Both!F_S, Both!F_Z
<1> QED BY <1>1, <1>2, <1>3

(* Its AVR adder and flags.                                                  *)
LEMMA SameAvr ==
  ASSUME NEW x, NEW v, NEW c
  PROVE  /\ Both!SumAvr(x, v, c) = SumAvr(x, v, c)
         /\ Both!DifferenceAvr(x, v, c) = DifferenceAvr(x, v, c)
         /\ Both!comp(FALSE, TRUE, x) = comp(FALSE, TRUE, x)
         /\ Both!comp(FALSE, FALSE, x) = comp(FALSE, FALSE, x)
<1>1. Both!SumAvr(x, v, c) = SumAvr(x, v, c)
  BY DEF SumAvr, comp, par_set, NibbleOnes, On, B, Result, F_CY, F_P, F_AC, F_Z, F_S,
         Both!SumAvr, Both!comp, Both!par_set, Both!NibbleOnes, Both!On, Both!B, Both!Result,
         Both!F_CY, Both!F_P, Both!F_AC, Both!F_Z, Both!F_S
<1>2. Both!DifferenceAvr(x, v, c) = DifferenceAvr(x, v, c)
  BY DEF DifferenceAvr, comp, par_set, NibbleOnes, On, B, Result, F_CY, F_P, F_AC, F_Z, F_S,
         Both!DifferenceAvr, Both!comp, Both!par_set, Both!NibbleOnes, Both!On, Both!B,
         Both!Result, Both!F_CY, Both!F_P, Both!F_AC, Both!F_Z, Both!F_S
<1>3. /\ Both!comp(FALSE, TRUE, x) = comp(FALSE, TRUE, x)
      /\ Both!comp(FALSE, FALSE, x) = comp(FALSE, FALSE, x)
  BY DEF comp, par_set, NibbleOnes, On, F_CY, F_P, F_AC, F_Z, F_S, Both!comp, Both!par_set,
         Both!NibbleOnes, Both!On, Both!F_CY, Both!F_P, Both!F_AC, Both!F_Z, Both!F_S
<1> QED BY <1>1, <1>2, <1>3

(* Its eight operations of an opcode.                                        *)
LEMMA SameArithmetic ==
  ASSUME NEW i, NEW x, NEW g, NEW v
  PROVE  /\ Both!Arithmetic(i, x, g, v) = Arithmetic(i, x, g, v)
         /\ Both!ArithmeticAvr(i, x, g, v) = ArithmeticAvr(i, x, g, v)
<1>1. Both!Arithmetic(i, x, g, v) = Arithmetic(i, x, g, v)
  BY SameSums, SameLogic DEF Arithmetic, Both!Arithmetic
<1>2. /\ \A k : Both!comp(FALSE, TRUE, k) = comp(FALSE, TRUE, k)
      /\ \A k : Both!comp(FALSE, FALSE, k) = comp(FALSE, FALSE, k)
  BY SameAvr
<1>3. Both!ArithmeticAvr(i, x, g, v) = ArithmeticAvr(i, x, g, v)
  BY <1>2, SameAvr, SameLogic, SameFlags DEF ArithmeticAvr, Both!ArithmeticAvr
<1> QED BY <1>1, <1>3

(* Its operations on the accumulator.                                        *)
LEMMA SameAccumulator ==
  ASSUME NEW i, NEW x, NEW g
  PROVE  /\ Both!OnAccumulator(i, x, g) = OnAccumulator(i, x, g)
         /\ Both!OnAccumulatorAvr(i, x, g) = OnAccumulatorAvr(i, x, g)
<1>1. Both!OnAccumulator(i, x, g) = OnAccumulator(i, x, g)
  BY DEF OnAccumulator, rlc, rrc, ral, rar, daa, cma, stc, cmc, WithCarry, With, Without, Result,
         flag_zsp, tbl_par, On, Has, B, F_CY, F_P, F_AC, F_Z, F_S,
         Both!OnAccumulator, Both!rlc, Both!rrc, Both!ral, Both!rar, Both!daa, Both!cma, Both!stc,
         Both!cmc, Both!WithCarry, Both!With, Both!Without, Both!Result, Both!flag_zsp,
         Both!tbl_par, Both!On, Both!Has, Both!B, Both!F_CY, Both!F_P, Both!F_AC, Both!F_Z,
         Both!F_S
<1>2. Both!OnAccumulatorAvr(i, x, g) = OnAccumulatorAvr(i, x, g)
  BY DEF OnAccumulatorAvr, RolAvr, RorAvr, daa_op, comp, par_set, NibbleOnes, WithCarry, With,
         Without, Result, Combined, On, Has, B, F_CY, F_P, F_AC, F_Z, F_S,
         Both!OnAccumulatorAvr, Both!RolAvr, Both!RorAvr, Both!daa_op, Both!comp, Both!par_set,
         Both!NibbleOnes, Both!WithCarry, Both!With, Both!Without, Both!Result, Both!Combined,
         Both!On, Both!Has, Both!B, Both!F_CY, Both!F_P, Both!F_AC, Both!F_Z, Both!F_S
<1> QED BY <1>1, <1>2

(* Its INR, DCR and DAD.                                                     *)
LEMMA SameCounts ==
  ASSUME NEW x, NEW g, NEW v
  PROVE  /\ Both!inr(x, g) = inr(x, g) /\ Both!dcr(x, g) = dcr(x, g)
         /\ Both!inrAvr(x, g) = inrAvr(x, g) /\ Both!dcrAvr(x, g) = dcrAvr(x, g)
         /\ Both!dad(x, g, v) = dad(x, g, v) /\ Both!dadAvr(x, g, v) = dadAvr(x, g, v)
         /\ Both!Pair(x, v) = Pair(x, v) /\ Both!Byte = Byte
<1>1. Both!inr(x, g) = inr(x, g) /\ Both!dcr(x, g) = dcr(x, g)
  BY DEF inr, dcr, Stepped, Result, flag_zsp, tbl_par, On, Has, B, F_P, F_AC, F_Z, F_S,
         Both!inr, Both!dcr, Both!Stepped, Both!Result, Both!flag_zsp, Both!tbl_par, Both!On,
         Both!Has, Both!B, Both!F_P, Both!F_AC, Both!F_Z, Both!F_S
<1>2. Both!inrAvr(x, g) = inrAvr(x, g) /\ Both!dcrAvr(x, g) = dcrAvr(x, g)
  BY DEF inrAvr, dcrAvr, comp, par_set, NibbleOnes, Result, On, Has, B, F_CY, F_P, F_AC, F_Z, F_S,
         Both!inrAvr, Both!dcrAvr, Both!comp, Both!par_set, Both!NibbleOnes, Both!Result, Both!On,
         Both!Has, Both!B, Both!F_CY, Both!F_P, Both!F_AC, Both!F_Z, Both!F_S
<1>3. Both!dad(x, g, v) = dad(x, g, v) /\ Both!dadAvr(x, g, v) = dadAvr(x, g, v)
  BY DEF dad, dadAvr, W, B, Hi, Lo, Pair, On, WithCarry, With, Without, Has, F_CY,
         Both!dad, Both!dadAvr, Both!W, Both!B, Both!Hi, Both!Lo, Both!Pair, Both!On,
         Both!WithCarry, Both!With, Both!Without, Both!Has, Both!F_CY
<1>4. Both!Pair(x, v) = Pair(x, v) /\ Both!Byte = Byte
  BY DEF Pair, Byte, UINT8_MAX, Both!Pair, Both!Byte, Both!UINT8_MAX
<1> QED BY <1>1, <1>2, <1>3, <1>4

(* The invariant of the arithmetic: both registers are bytes.                *)
AluInv == acc \in Byte /\ flags \in Byte

(* Every step of the arithmetic keeps its invariant.                         *)
LEMMA AluKept ==
  ASSUME ProgramsAssumption, AluInv, [Both!Next]_aluv
  PROVE  AluInv'
<1>1. Operands \subseteq Byte BY DEF ProgramsAssumption
<1>2. ASSUME NEW i \in 0..7, NEW v \in Operands, Both!Compute(i, v)
      PROVE  AluInv'
  <2>1. acc' = Arithmetic(i, acc, flags, v).a /\ flags' = Arithmetic(i, acc, flags, v).f
    BY <1>2, SameArithmetic DEF Both!Compute
  <2> QED BY <1>1, <2>1, ArithmeticTyped DEF AluInv
<1>3. ASSUME NEW i \in 0..7, Both!Adjust(i)
      PROVE  AluInv'
  <2>1. acc' = OnAccumulator(i, acc, flags).a /\ flags' = OnAccumulator(i, acc, flags).f
    BY <1>3, SameAccumulator DEF Both!Adjust
  <2> QED BY <2>1, AccumulatorTyped DEF AluInv
<1>4. CASE Both!Count
  <2>1. PICK s \in {inr(acc, flags), dcr(acc, flags)} : acc' = s.a /\ flags' = s.f
    BY <1>4, SameCounts DEF Both!Count
  <2> QED BY <2>1, CountsTyped DEF AluInv
<1>5. CASE UNCHANGED aluv BY <1>5 DEF AluInv, aluv
<1> QED BY <1>2, <1>3, <1>4, <1>5 DEF Both!Next

(* Under the invariant the emulators agree, for every operand.               *)
LEMMA AluAgrees ==
  ASSUME ProgramsAssumption, AluInv
  PROVE  Both!EmulatorsAgree
<1>1. Operands \subseteq Byte BY DEF ProgramsAssumption
<1>2. Both!Probes \subseteq Byte BY <1>1, SameCounts DEF Both!Probes
<1>3. ASSUME NEW i \in 0..7, NEW v \in Both!Probes
      PROVE  Both!Arithmetic(i, acc, flags, v) = Both!ArithmeticAvr(i, acc, flags, v)
  BY <1>2, SameArithmetic, ArithmeticAgrees DEF AluInv
<1>4. ASSUME NEW i \in 0..7 \ {4}
      PROVE  Both!OnAccumulator(i, acc, flags) = Both!OnAccumulatorAvr(i, acc, flags)
  <2>1. OnAccumulator(i, acc, flags) = OnAccumulatorAvr(i, acc, flags)
    BY AccumulatorAgrees DEF AluInv
  <2> QED BY <2>1, SameAccumulator
<1>5. /\ Both!inr(acc, flags) = Both!inrAvr(acc, flags)
      /\ Both!dcr(acc, flags) = Both!dcrAvr(acc, flags)
  <2>1. inr(acc, flags) = inrAvr(acc, flags) /\ dcr(acc, flags) = dcrAvr(acc, flags)
    BY CountsAgree DEF AluInv
  <2> QED BY <2>1, SameCounts
<1>6. ASSUME NEW lo \in Operands, NEW hi \in Operands
      PROVE  Both!dad(Both!Pair(acc, lo), flags, Both!Pair(hi, acc))
               = Both!dadAvr(Both!Pair(acc, lo), flags, Both!Pair(hi, acc))
  <2>1. PICK u \in Word, w \in Word : u = Pair(acc, lo) /\ w = Pair(hi, acc)
    BY <1>1, PairOfBytes DEF AluInv
  <2>2. Both!Pair(acc, lo) = u /\ Both!Pair(hi, acc) = w BY <2>1, SameCounts
  <2>3. Both!dad(u, flags, w) = Both!dadAvr(u, flags, w) BY SameCounts, WordsAgree
  <2> QED BY <2>2, <2>3
<1> QED BY <1>3, <1>4, <1>5, <1>6 DEF Both!EmulatorsAgree

-----------------------------------------------------------------------------
(* The invariant of the instructions and of the arithmetic.                  *)
LEMMA Started == ASSUME ProgramsAssumption, CpuAssumption, ProgramsInit PROVE CpuInv /\ AluInv
<1>1. AluInv
  <2>1. acc = 0 /\ flags = 0 BY DEF ProgramsInit, Both!Init
  <2> QED BY <2>1 DEF AluInv, Byte, UINT8_MAX
<1>2. IsMemory(image) /\ mem = image
  <2>1. CASE part = "cpu"
    BY <2>1 DEF ProgramsInit, MCInit, Init, CpuAssumption
  <2>2. CASE part # "cpu"
    <3>1. image = <<>> /\ mem = <<>> BY <2>2 DEF ProgramsInit
    <3> QED BY <3>1 DEF IsMemory
  <2> QED BY <2>1, <2>2
<1>3. Reset BY DEF ProgramsInit, MCInit, Init
<1> QED BY <1>1, <1>2, <1>3, ResetTyped DEF Reset, CpuInv

(* Every step of the processor keeps its invariant.                          *)
LEMMA CpuKept ==
  ASSUME CpuAssumption, CpuInv, [Next]_vars
  PROVE  CpuInv'
<1>1. CASE UNCHANGED vars BY <1>1 DEF vars, CpuInv, IsMemory
<1> QED BY <1>1, StepTyped, BootTyped DEF Next

(* What a step of the whole means for the instructions and the arithmetic.   *)
LEMMA Parts ==
  ASSUME [ProgramsNext]_<<part, cpuv, aluv, termv>>
  PROVE  /\ [MCNext]_<<vars, pushed>> /\ [Next]_vars /\ [Both!Next]_aluv
<1>1. [MCNext]_<<vars, pushed>> /\ [Both!Next]_aluv
  BY DEF ProgramsNext, cpuv
<1>2. MCNext => Next BY DEF MCNext, Next
<1> QED BY <1>1, <1>2

-----------------------------------------------------------------------------
(* The words on the stack are in memory.                                     *)
Remembered == \A n \in DOMAIN pushed : n \in Word /\ LoadWord(n) = pushed[n]

(* A word outside of what a step stores to stays.                            *)
LEMMA LoadsKept ==
  ASSUME CpuInv, NEW places, Untouched(mem', places), NEW n \in Word,
         n \notin places, W(n + 1) \notin places
  PROVE  LoadWord(n)' = LoadWord(n)
<1>1. W(n) = n BY Kept
<1>2. Load(n)' = Load(n) BY <1>1 DEF Load, Untouched
<1>3. Load(n + 1)' = Load(n + 1) BY DEF Load, Untouched
<1> QED BY <1>2, <1>3 DEF LoadWord

(* The place after a place, around the end of memory.                        *)
LEMMA NextPlace == \A n \in Int : W(W(n) + 1) = W(n + 1) /\ W(W(n)) = W(n) /\ W(n + 1) # W(n)
BY DEF W

(* A word stored is what is loaded there.                                    *)
LEMMA LoadsStored ==
  ASSUME NEW n \in Int, NEW w \in Word, mem' = StoredWord(n, w)
  PROVE  LoadWord(W(n))' = w
<1>1. W(W(n) + 1) = W(n + 1) /\ W(W(n)) = W(n) /\ W(n + 1) # W(n) BY NextPlace
<1>2. Load(W(n))' = Lo(w) /\ Load(W(n) + 1)' = Hi(w)
  BY <1>1 DEF Load, StoredWord, Stored
<1> QED BY <1>2, BytesOf DEF LoadWord, Pair

(* The instructions that put a word on the stack or take one from it.        *)
StackWords == Pushes \cup Pops \cup {227} \cup Calls \cup ReturnsOps

(* None of the other instructions has an opcode of those.                    *)
LEMMA NotAmongOthers ==
  ASSUME CpuInv, Op \in StackWords
  PROVE  /\ ~ NOP /\ ~ Compute /\ ~ OutPort /\ ~ InPort /\ ~ HLT /\ ~ IllegalOp
         /\ Move => XTHL
         /\ Transfer => PUSH \/ POP \/ CALL \/ CallIf \/ RST \/ RET \/ ReturnIf
<1>1. /\ Op >= 192 /\ Op \in Byte
      /\ Op \in {193, 197, 201, 205, 209, 213, 225, 227, 229, 241, 245} \/ z \in {0, 4, 7}
  BY Decoded DEF CpuInv, StackWords, Pushes, Pops, Calls, ReturnsOps, z
<1>2. Op \notin {195, 203, 211, 217, 219, 221, 233, 235, 237, 243, 249, 251, 253}
  BY <1>1 DEF z
<1>3. ~ (Op >= 192 /\ z \in {2, 6}) BY <1>1, Opcodes
<1>4. ~ NOP /\ ~ OutPort /\ ~ InPort /\ ~ HLT /\ ~ IllegalOp
  BY <1>1, <1>2 DEF NOP, OutPort, InPort, HLT, IllegalOp, Illegal
<1>5. ~ Compute
  <2>1. ~ Op < 64 /\ Op \notin 128..191 BY <1>1 DEF Byte, UINT8_MAX
  <2> QED BY <1>3, <2>1
    DEF Compute, CountWord, DAD, CountByte, Accumulator, Alu, AluImmediate
<1>6. Move => XTHL
  <2>1. ~ Op < 64 /\ Op \notin 64..127 /\ Op \notin {2, 18, 10, 26, 50, 58, 34, 42}
    BY <1>1 DEF Byte, UINT8_MAX
  <2> QED BY <1>2, <2>1 DEF Move, LXI, STAX, LDAX, STA, LDA, SHLD, LHLD, MVI, MOV, XCHG, SPHL
<1>7. ~ JMP /\ ~ PCHL /\ ~ JumpIf
  BY <1>2, <1>3 DEF JMP, PCHL, JumpIf
<1> QED BY <1>4, <1>5, <1>6, <1>7 DEF Transfer

(* A step with such an opcode is one of these instructions.                  *)
LEMMA StackStep ==
  ASSUME CpuInv, Step, Op \in StackWords
  PROVE  PUSH \/ POP \/ XTHL \/ CALL \/ CallIf \/ RST \/ RET \/ ReturnIf
BY NotAmongOthers DEF Step

(* The opcodes of those instructions.                                        *)
LEMMA StackCodes ==
  ASSUME CpuInv
  PROVE  /\ PUSH => Op \in {197, 213, 229, 245}
         /\ POP => Op \in {193, 209, 225, 241}
         /\ XTHL => Op = 227
         /\ CALL => Op = 205
         /\ CallIf => Op \in {196, 204, 212, 220, 228, 236, 244, 252}
         /\ RST => Op \in {199, 207, 215, 223, 231, 239, 247, 255}
         /\ RET => Op = 201
         /\ ReturnIf => Op \in {192, 200, 208, 216, 224, 232, 240, 248}
BY Opcodes DEF PUSH, POP, XTHL, CALL, CallIf, RST, RET, ReturnIf

(* What is pushed is in memory, where the stack pointer then points.         *)
LEMMA PushedWord ==
  ASSUME CpuInv, Step, Pushed
  PROVE  \E n \in Word : n = sp' /\ LoadWord(n)' = Word2Push
<1>0. /\ sp \in Word /\ sp \in Int /\ sp - 2 \in Int /\ pc + 1 \in Int /\ pc + 3 \in Int
      /\ W(sp - 2) \in Word /\ W(sp) = sp /\ HL \in Word
      /\ W(pc + 1) \in Word /\ W(pc + 3) \in Word
  <2>1. sp \in Word /\ sp \in Int /\ sp - 2 \in Int /\ pc + 1 \in Int /\ pc + 3 \in Int
    BY WordInt DEF CpuInv
  <2> QED BY <2>1, Wraps, Kept, RegistersTyped DEF CpuInv
<1>1. ASSUME NEW n \in Int, NEW w \in Word, mem' = StoredWord(n, w), sp' = W(n), w = Word2Push
      PROVE  \E k \in Word : k = sp' /\ LoadWord(k)' = Word2Push
  BY <1>1, Wraps, LoadsStored
<1>2. CASE PUSH
  <2>1. PICK w : /\ w = IF p = 3 THEN Pair(r.a, With(r.f, 2)) ELSE PairOf(p)
                 /\ sp' = W(sp - 2) /\ mem' = StoredWord(sp - 2, w)
    BY <1>2 DEF PUSH, Leaves
  <2>2. Op \in {197, 213, 229, 245} BY <1>2, StackCodes
  <2>3. /\ r.a \in Byte /\ r.f \in Byte /\ With(r.f, 2) \in Byte
        /\ \A i \in 0..3 : PairOf(i) \in Word
    BY RegistersTyped, BitsKept DEF CpuInv
  <2>4. p \in 0..3 /\ (p = 3 <=> Op = 245) /\ (p = 0 <=> Op = 197) /\ (p = 1 <=> Op = 213)
    BY <2>2 DEF p
  <2>5. w \in Word BY <2>1, <2>3, <2>4, PairOfBytes
  <2>6. /\ PairOf(0) = Pair(r.b, r.c) /\ PairOf(1) = Pair(r.d, r.e)
        /\ PairOf(2) = Pair(r.h, r.l)
    BY DEF PairOf, High, Low
  <2>7. w = Word2Push
    <3>1. CASE Op = 245 BY <2>1, <2>4, <3>1 DEF Word2Push
    <3>2. CASE Op = 197 BY <2>1, <2>4, <2>6, <3>2 DEF Word2Push
    <3>3. CASE Op = 213 BY <2>1, <2>4, <2>6, <3>3 DEF Word2Push
    <3>4. CASE Op = 229
      <4>1. p = 2 BY <2>4, <3>4
      <4> QED BY <2>1, <2>6, <3>4, <4>1 DEF Word2Push
    <3> QED BY <2>2, <3>1, <3>2, <3>3, <3>4
  <2> QED BY <1>0, <1>1, <2>1, <2>5, <2>7
<1>3. CASE XTHL
  <2>1. sp' = W(sp) /\ mem' = StoredWord(sp, HL) BY <1>3 DEF XTHL, Leaves
  <2>2. HL = Word2Push BY <1>3 DEF XTHL, HL, Word2Push
  <2> QED BY <1>0, <1>1, <2>1, <2>2
<1>4. CASE CALL \/ (CallIf /\ Condition)
  <2>1. sp' = W(sp - 2) /\ mem' = StoredWord(sp - 2, W(pc + 3))
    BY <1>4 DEF CALL, CallIf, CallTo, Leaves
  <2>2. Op \in {205, 196, 204, 212, 220, 228, 236, 244, 252} BY <1>4, StackCodes
  <2>3. InstructionLength = 3 BY <2>2 DEF InstructionLength
  <2>4. Word2Push = W(pc + 3) BY <2>2, <2>3 DEF Word2Push
  <2> QED BY <1>0, <1>1, <2>1, <2>4
<1>5. CASE RST
  <2>1. sp' = W(sp - 2) /\ mem' = StoredWord(sp - 2, W(pc + 1))
    BY <1>5 DEF RST, CallTo, Leaves
  <2>2. Op \in {199, 207, 215, 223, 231, 239, 247, 255} BY <1>5, StackCodes
  <2>3. InstructionLength = 1 BY <2>2 DEF InstructionLength
  <2>4. Word2Push = W(pc + 1) BY <2>2, <2>3 DEF Word2Push
  <2> QED BY <1>0, <1>1, <2>1, <2>4
<1>6. ~ (CallIf /\ ~ Condition)
  <2>1. CallIf /\ ~ Condition => sp' = sp BY <1>0 DEF CallIf, Regs, Leaves
  <2>2. CallIf => Op \notin Pushes \cup {227} BY StackCodes DEF Pushes
  <2> QED BY <2>1, <2>2 DEF Pushed
<1>7. ~ POP /\ ~ RET /\ ~ ReturnIf
  <2>1. Op \in Pushes \cup {227} \cup Calls BY DEF Pushed
  <2>2. Op \notin {193, 209, 225, 241, 201, 192, 200, 208, 216, 224, 232, 240, 248}
    BY <2>1 DEF Pushes, Calls
  <2> QED BY <2>2, StackCodes
<1>8. Op \in StackWords BY DEF Pushed, StackWords
<1> QED BY <1>2, <1>3, <1>4, <1>5, <1>6, <1>7, <1>8, StackStep

(* What is taken is the word the stack pointer pointed at.                   *)
LEMMA TakenWord ==
  ASSUME CpuInv, Step, Taken
  PROVE  WordTaken = LoadWord(sp)
<1>0. /\ r \in [Names -> Byte] /\ LoadWord(sp) \in Word
      /\ W(sp) = sp /\ W(LoadWord(sp)) = LoadWord(sp)
  BY Decoded, Kept DEF CpuInv
<1>a. Pair(Hi(LoadWord(sp)), Lo(LoadWord(sp))) = LoadWord(sp)
  BY <1>0, BytesOf DEF Pair
<1>1. CASE POP
  <2>1. r' = Put(p, LoadWord(sp)) BY <1>1 DEF POP, Leaves
  <2>2. Op \in {193, 209, 225, 241} BY <1>1, StackCodes
  <2>3. CASE Op = 193
    <3>1. p = 0 BY <2>3 DEF p
    <3>2. r'.b = Hi(LoadWord(sp)) /\ r'.c = Lo(LoadWord(sp))
      BY <1>0, <2>1, <3>1 DEF Put, High, Low, Names
    <3> QED BY <1>a, <2>3, <3>2 DEF WordTaken
  <2>4. CASE Op = 209
    <3>1. p = 1 BY <2>4 DEF p
    <3>2. r'.d = Hi(LoadWord(sp)) /\ r'.e = Lo(LoadWord(sp))
      BY <1>0, <2>1, <3>1 DEF Put, High, Low, Names
    <3> QED BY <1>a, <2>4, <3>2 DEF WordTaken
  <2>5. CASE Op = 225
    <3>1. p = 2 BY <2>5 DEF p
    <3>2. r'.h = Hi(LoadWord(sp)) /\ r'.l = Lo(LoadWord(sp))
      BY <1>0, <2>1, <3>1 DEF Put, High, Low, Names
    <3> QED BY <1>a, <2>5, <3>2 DEF WordTaken
  <2>6. CASE Op = 241
    <3>1. p = 3 BY <2>6 DEF p
    <3>2. r'.a = Hi(LoadWord(sp)) /\ r'.f = Lo(LoadWord(sp))
      BY <1>0, <2>1, <3>1 DEF Put, High, Low, Names
    <3> QED BY <1>a, <2>6, <3>2 DEF WordTaken
  <2> QED BY <2>2, <2>3, <2>4, <2>5, <2>6
<1>2. CASE XTHL
  <2>1. r' = Put(2, LoadWord(sp)) BY <1>2 DEF XTHL, Leaves
  <2>2. r'.h = Hi(LoadWord(sp)) /\ r'.l = Lo(LoadWord(sp))
    BY <1>0, <2>1 DEF Put, High, Low, Names
  <2> QED BY <1>a, <1>2, <2>2 DEF WordTaken, XTHL
<1>3. CASE RET \/ (ReturnIf /\ Condition)
  <2>1. pc' = LoadWord(sp) BY <1>0, <1>3 DEF RET, ReturnIf, Returns, Leaves
  <2>2. Op \in {201, 192, 200, 208, 216, 224, 232, 240, 248} BY <1>3, StackCodes
  <2> QED BY <2>1, <2>2 DEF WordTaken
<1>4. ~ (ReturnIf /\ ~ Condition)
  <2>1. ReturnIf /\ ~ Condition => sp' = sp BY <1>0 DEF ReturnIf, Regs, Leaves
  <2>2. ReturnIf => Op \notin Pops \cup {227} BY StackCodes DEF Pops
  <2> QED BY <2>1, <2>2 DEF Taken
<1>5. ~ PUSH /\ ~ CALL /\ ~ CallIf /\ ~ RST
  <2>1. Op \in Pops \cup {227} \cup ReturnsOps BY DEF Taken
  <2>2. Op \notin {197, 213, 229, 245, 205, 196, 204, 212, 220, 228, 236, 244, 252,
                   199, 207, 215, 223, 231, 239, 247, 255}
    BY <2>1 DEF Pops, ReturnsOps
  <2> QED BY <2>2, StackCodes
<1>6. Op \in StackWords BY DEF Taken, StackWords
<1> QED BY <1>1, <1>2, <1>3, <1>4, <1>5, <1>6, StackStep

(* Every step keeps the words of the stack in memory.                        *)
LEMMA StillRemembered ==
  ASSUME CpuAssumption, CpuInv, Remembered, [MCNext]_<<vars, pushed>>
  PROVE  Remembered'
<1>1. CASE Step /\ Remember
  <2>1. Untouched(mem', Targets) BY <1>1, StepFramed DEF FrameOf
  <2>2. ASSUME NEW n \in DOMAIN pushed, n \notin Targets, W(n + 1) \notin Targets
        PROVE  n \in Word /\ LoadWord(n)' = pushed[n]
    BY <2>1, <2>2, LoadsKept DEF Remembered
  <2>3. CASE Pushed
    <3>1. PICK k \in Word : k = sp' /\ LoadWord(k)' = Word2Push BY <1>1, <2>3, PushedWord
    <3>2. ASSUME NEW n \in DOMAIN pushed'
          PROVE  n \in Word /\ LoadWord(n)' = pushed'[n]
      <4>1. CASE n = sp' BY <1>1, <2>3, <3>1, <3>2, <4>1 DEF Remember
      <4>2. CASE n # sp' BY <1>1, <2>2, <2>3, <3>2, <4>2 DEF Remember
      <4> QED BY <4>1, <4>2
    <3> QED BY <3>2 DEF Remembered
  <2>4. CASE ~ Pushed BY <1>1, <2>2, <2>4 DEF Remembered, Remember
  <2> QED BY <2>3, <2>4
<1>2. CASE Boot /\ pushed' = <<>> BY <1>2 DEF Remembered
<1>3. CASE UNCHANGED <<vars, pushed>> BY <1>3 DEF Remembered, vars, LoadWord, Load
<1> QED BY <1>1, <1>2, <1>3 DEF MCNext

-------------------------------------------------------------------------------
(* Lengths of strings. A name: the provers do not enumerate it.              *)
Short == 0..7

(* A string of 7 bytes at most is read byte by byte: its states, unrolled,   *)
(* because an induction over strings is out of the provers' reach.           *)
LEMMA Unfold ==
  ASSUME NEW t, NEW b, Len(b) \in Short
  PROVE  \E g : /\ g[0] = t
                /\ \A i \in 1..Len(b) : g[i] = Term!Reads(g[i - 1], b[i])
                /\ Term!After(t, b) = g[Len(b)]
<1> DEFINE n == Len(b)
           r1 == Term!Reads(t, b[1])
           r2 == Term!Reads(r1, b[2])
           r3 == Term!Reads(r2, b[3])
           r4 == Term!Reads(r3, b[4])
           r5 == Term!Reads(r4, b[5])
           r6 == Term!Reads(r5, b[6])
           r7 == Term!Reads(r6, b[7])
           w(i) == CASE i = 0 -> t [] i = 1 -> r1 [] i = 2 -> r2 [] i = 3 -> r3 [] i = 4 -> r4
                     [] i = 5 -> r5 [] i = 6 -> r6 [] i = 7 -> r7
           F(g) == [i \in 0..n |-> IF i = 0 THEN t ELSE Term!Reads(g[i - 1], b[i])]
           wf == [i \in 0..n |-> w(i)]
           read == CHOOSE g : g = F(g)
<1>1. n \in Nat /\ n <= 7
  <2>1. \A k \in Short : k \in Nat /\ k <= 7 BY DEF Short
  <2>2. n \in Short OBVIOUS
  <2> HIDE DEF n
  <2> QED BY <2>1, <2>2
<1>2. w(0) = t /\ \A i \in 1..7 : w(i) = Term!Reads(w(i - 1), b[i])
  <2> HIDE DEF r1, r2, r3, r4, r5, r6, r7
  <2>1. /\ w(0) = t /\ w(1) = r1 /\ w(2) = r2 /\ w(3) = r3 /\ w(4) = r4 /\ w(5) = r5
        /\ w(6) = r6 /\ w(7) = r7
    OBVIOUS
  <2>2. /\ w(1) = Term!Reads(w(0), b[1]) /\ w(2) = Term!Reads(w(1), b[2])
        /\ w(3) = Term!Reads(w(2), b[3]) /\ w(4) = Term!Reads(w(3), b[4])
        /\ w(5) = Term!Reads(w(4), b[5]) /\ w(6) = Term!Reads(w(5), b[6])
        /\ w(7) = Term!Reads(w(6), b[7])
    <3> HIDE DEF w
    <3> QED BY <2>1 DEF r1, r2, r3, r4, r5, r6, r7
  <2> HIDE DEF w
  <2>3. \A i \in 1..7 : i \in {1, 2, 3, 4, 5, 6, 7} OBVIOUS
  <2> QED BY <2>1, <2>2, <2>3
<1> HIDE DEF w, n
<1>3. wf = F(wf)
  <2>1. ASSUME NEW i \in 0..n
        PROVE  wf[i] = IF i = 0 THEN t ELSE Term!Reads(wf[i - 1], b[i])
    <3>1. CASE i = 0 BY <1>2, <3>1
    <3>2. CASE i # 0
      <4>1. i \in 1..7 /\ i - 1 \in 0..n BY <1>1, <3>2
      <4>2. wf[i] = w(i) /\ wf[i - 1] = w(i - 1) BY <4>1
      <4> QED BY <1>2, <3>2, <4>1, <4>2
    <3> QED BY <3>1, <3>2
  <2> QED BY <2>1
<1>4. read = F(read) BY <1>3
<1>5. Term!After(t, b) = read[n] BY DEF Term!After, n
<1>6. PICK g : g = F(g) /\ Term!After(t, b) = g[n] BY <1>4, <1>5
<1>7. g[0] = t
  <2>1. 0 \in 0..n BY <1>1
  <2> QED BY <1>6, <2>1
<1>8. \A i \in 1..n : g[i] = Term!Reads(g[i - 1], b[i])
  <2> TAKE i \in 1..n
  <2>1. i \in 0..n /\ i # 0 BY <1>1
  <2> QED BY <1>6, <2>1
<1> QED BY <1>6, <1>7, <1>8 DEF n

-------------------------------------------------------------------------------
(* The terminal by what it holds.                                            *)
Tm(g, ps, s, c) == [reads |-> g, params |-> ps, screen |-> s, cursor |-> c]

Screens == [Term!T!Places -> 0..255]
Words == 0..Term!UINT16_MAX

(* Words by their bounds.                                                    *)
LEMMA InWords == \A n \in Int : n \in Words <=> 0 <= n /\ n <= 65535
<1>1. Term!UINT16_MAX = 65535 BY DEF Term!UINT16_MAX
<1> QED BY <1>1, SMTT(30) DEF Words

(* The bounds of a word.                                                     *)
LEMMA OfWords == \A n \in Words : n \in Nat /\ n < 65536
<1>1. \A n \in Words : n \in Int BY SMTT(30) DEF Words
<1> QED BY <1>1, InWords

(* What a terminal reading text makes of a byte.                             *)
LEMMA ReadsText ==
  ASSUME NEW ps, NEW s, NEW c, NEW v, v # 27 \/ efi
  PROVE  Term!Reads(Tm("text", ps, s, c), v)
           = Tm("text", ps, Term!T!Shown(s, c, v), Term!T!Right(c, v))
BY DEF Term!Reads, Tm, Term!T!ESC

(* ESC [ begins a sequence of numbers.                                       *)
LEMMA ReadsEscape ==
  ASSUME NEW ps, NEW s, NEW c, ~ efi
  PROVE  /\ Term!Reads(Tm("text", ps, s, c), 27) = Tm("escape", ps, s, c)
         /\ Term!Reads(Tm("escape", ps, s, c), 91) = Tm("control", << 0 >>, s, c)
BY DEF Term!Reads, Tm, Term!T!ESC

(* The codes of the digits. A name: see Short.                               *)
Codes == 48..57

(* A digit of the first number.                                              *)
LEMMA ReadsDigit ==
  ASSUME NEW s, NEW c, NEW n, NEW v \in Codes
  PROVE  Term!Reads(Tm("control", <<n>>, s, c), v) = Tm("control", <<10 * n + v - 48>>, s, c)
<1>1. \A ps : Term!Reads(Tm("control", ps, s, c), v)
                = Tm("control", [ps EXCEPT ![Len(ps)] = (10 * @) + v - 48], s, c)
  BY DEF Term!Reads, Tm, Codes
<1> DEFINE d == 10 * n + v - 48
<1>2. [<<n>> EXCEPT ![Len(<<n>>)] = (10 * @) + v - 48] = <<d>> OBVIOUS
<1> QED BY <1>1, <1>2

(* A digit of the second number.                                             *)
LEMMA ReadsSecond ==
  ASSUME NEW s, NEW c, NEW m, NEW n, NEW v \in Codes
  PROVE  Term!Reads(Tm("control", <<m, n>>, s, c), v) = Tm("control", <<m, 10 * n + v - 48>>, s, c)
<1>1. \A ps : Term!Reads(Tm("control", ps, s, c), v)
                = Tm("control", [ps EXCEPT ![Len(ps)] = (10 * @) + v - 48], s, c)
  BY DEF Term!Reads, Tm, Codes
<1> DEFINE d == 10 * n + v - 48
<1>2. [<<m, n>> EXCEPT ![Len(<<m, n>>)] = (10 * @) + v - 48] = <<m, d>> OBVIOUS
<1> QED BY <1>1, <1>2

(* A semicolon begins the second number.                                     *)
LEMMA ReadsNext ==
  ASSUME NEW s, NEW c, NEW n \in Nat
  PROVE  Term!Reads(Tm("control", <<n>>, s, c), 59) = Tm("control", <<n, 0>>, s, c)
<1>1. \A ps : Term!Reads(Tm("control", ps, s, c), 59) = Tm("control", Append(ps, 0), s, c)
  BY SMTT(30) DEF Term!Reads, Tm
<1>2. Append(<<n>>, 0) = <<n, 0>>
  <2>1. PICK a : a = Append(<<n>>, 0) OBVIOUS
  <2>2. <<n>> \in Seq(Nat) /\ Len(<<n>>) = 1 /\ <<n>>[1] = n OBVIOUS
  <2>3. a \in Seq(Nat) /\ Len(a) = 2 /\ a[1] = n /\ a[2] = 0 BY <2>1, <2>2, AppendProperties
  <2>4. PICK b : b = <<n, 0>> OBVIOUS
  <2>5. b \in Seq(Nat) /\ Len(b) = 2 /\ b[1] = n /\ b[2] = 0 BY <2>4
  <2>6. \A i \in 1..2 : a[i] = b[i]
    <3>1. \A i \in 1..2 : i = 1 \/ i = 2 OBVIOUS
    <3> QED BY <2>3, <2>5, <3>1
  <2>7. a = b BY <2>3, <2>5, <2>6, SeqEqual
  <2> QED BY <2>1, <2>4, <2>7
<1> QED BY <1>1, <1>2

(* The final letter of a sequence brings back text.                          *)
LEMMA Grounded ==
  ASSUME NEW ps, NEW s, NEW c
  PROVE  Term!Ground(Tm("control", ps, s, c)) = Tm("text", <<>>, s, c)
<1>1. [Tm("control", ps, s, c) EXCEPT !.reads = "text"] = Tm("text", ps, s, c) BY DEF Tm
<1>2. [Tm("text", ps, s, c) EXCEPT !.params = <<>>] = Tm("text", <<>>, s, c) BY DEF Tm
<1>3. Term!Ground(Tm("control", ps, s, c))
        = [[Tm("control", ps, s, c) EXCEPT !.reads = "text"] EXCEPT !.params = <<>>]
  BY DEF Term!Ground
<1> QED BY <1>1, <1>2, <1>3

(* ESC [ 2 J clears the screen.                                              *)
LEMMA ReadsErasing ==
  ASSUME NEW s, NEW c
  PROVE  Term!Reads(Tm("control", <<2>>, s, c), 74) = Tm("text", <<>>, Term!T!Empty, c)
<1>1. \A ps : Term!Reads(Tm("control", ps, s, c), 74) = Term!Final(Tm("control", ps, s, c), 74)
  BY DEF Term!Reads, Tm
<1>2. Term!Number(Tm("control", <<2>>, s, c), 1) = 2 BY DEF Term!Number, Tm
<1>3. [Tm("text", <<>>, s, c) EXCEPT !.screen = Term!T!Empty] = Tm("text", <<>>, Term!T!Empty, c)
  BY DEF Tm
<1> QED BY <1>1, <1>2, <1>3, Grounded DEF Term!Final

(* ESC [ m ; n H moves the cursor.                                           *)
LEMMA ReadsPlace ==
  ASSUME NEW s, NEW c, NEW m, NEW n
  PROVE  Term!Reads(Tm("control", <<m, n>>, s, c), 72)
           = Tm("text", <<>>, s, <<Term!Within(m, Rows), Term!Within(n, Cols)>>)
<1>1. \A ps : Term!Reads(Tm("control", ps, s, c), 72) = Term!Final(Tm("control", ps, s, c), 72)
  BY DEF Term!Reads, Tm
<1>2. /\ Term!Number(Tm("control", <<m, n>>, s, c), 1) = m
      /\ Term!Number(Tm("control", <<m, n>>, s, c), 2) = n
  BY DEF Term!Number, Tm
<1>3. \A d : [Tm("text", <<>>, s, c) EXCEPT !.cursor = d] = Tm("text", <<>>, s, d) BY DEF Tm
<1> QED BY <1>1, <1>2, <1>3, Grounded DEF Term!Final

(* Any other letter ends the sequence.                                       *)
LEMMA ReadsPrompt ==
  ASSUME NEW s, NEW c, NEW ps
  PROVE  Term!Reads(Tm("control", ps, s, c), 62) = Tm("text", <<>>, s, c)
<1>1. Term!Reads(Tm("control", ps, s, c), 62) = Term!Final(Tm("control", ps, s, c), 62)
  BY DEF Term!Reads, Tm
<1> QED BY <1>1, Grounded DEF Term!Final

(* A number is the number of its five digits (con_putnum_u16).               *)
LEMMA FiveDigits ==
  ASSUME NEW m \in Nat, m < 65536
  PROVE  /\ \A i \in 1..5 : 48 + Term!Digit(m, i) \in Codes
         /\ m = 10 * (10 * (10 * (10 * Term!Digit(m, 1) + Term!Digit(m, 2)) + Term!Digit(m, 3))
                        + Term!Digit(m, 4)) + Term!Digit(m, 5)
<1>1. /\ Term!Digit(m, 1) = (m \div 10000) % 10 /\ Term!Digit(m, 2) = (m \div 1000) % 10
      /\ Term!Digit(m, 3) = (m \div 100) % 10 /\ Term!Digit(m, 4) = (m \div 10) % 10
      /\ Term!Digit(m, 5) = m % 10
  BY DEF Term!Digit
<1>2. \A i \in 1..5 : i \in {1, 2, 3, 4, 5} OBVIOUS
<1>3. /\ Term!Digit(m, 1) \in 0..9 /\ Term!Digit(m, 2) \in 0..9 /\ Term!Digit(m, 3) \in 0..9
      /\ Term!Digit(m, 4) \in 0..9 /\ Term!Digit(m, 5) \in 0..9
  BY <1>1
<1> DEFINE q1 == m \div 10
           q2 == m \div 100
           q3 == m \div 1000
           q4 == m \div 10000
<1>4. /\ q1 \in Nat /\ q2 \in Nat /\ q3 \in Nat /\ q4 \in 0..9
      /\ m = 10 * q1 + (m % 10) /\ q1 = 10 * q2 + (q1 % 10)
      /\ q2 = 10 * q3 + (q2 % 10) /\ q3 = 10 * q4 + (q3 % 10) /\ q4 = q4 % 10
  OBVIOUS
<1>5. /\ Term!Digit(m, 1) = q4 /\ Term!Digit(m, 2) = q3 % 10 /\ Term!Digit(m, 3) = q2 % 10
      /\ Term!Digit(m, 4) = q1 % 10 /\ Term!Digit(m, 5) = m % 10
  BY <1>1, <1>4
<1>6. \A i \in 1..5 : 48 + Term!Digit(m, i) \in Codes BY <1>2, <1>3 DEF Codes
<1> HIDE DEF q1, q2, q3, q4
<1>7. /\ q3 = 10 * Term!Digit(m, 1) + Term!Digit(m, 2) /\ q2 = 10 * q3 + Term!Digit(m, 3)
      /\ q1 = 10 * q2 + Term!Digit(m, 4) /\ m = 10 * q1 + Term!Digit(m, 5)
  BY <1>4, <1>5
<1> QED BY <1>6, <1>7

(* The bytes of two strings, one after the other.                            *)
LEMMA Joined ==
  ASSUME NEW e \in Seq(Nat), NEW d \in Seq(Nat)
  PROVE  /\ e \o d \in Seq(Nat) /\ Len(e \o d) = Len(e) + Len(d)
         /\ \A i \in 1..Len(e) : (e \o d)[i] = e[i]
         /\ \A i \in 1..Len(d) : (e \o d)[i + Len(e)] = d[i]
<1>1. e \o d \in Seq(Nat) /\ Len(e \o d) = Len(e) + Len(d) BY ConcatProperties
<1>2. \A i \in 1..Len(e) + Len(d) : (e \o d)[i] = IF i <= Len(e) THEN e[i] ELSE d[i - Len(e)]
  BY ConcatProperties, Zenon
<1> QED BY <1>1, <1>2

(* A function of 1..n is a string of n bytes.                                *)
LEMMA AsSequence ==
  ASSUME NEW n \in Nat, NEW d \in [1..n -> Nat]
  PROVE  d \in Seq(Nat) /\ Len(d) = n
<1>1. d \in Seq(Nat) /\ DOMAIN d = 1..n OBVIOUS
<1>2. Len(d) = n BY <1>1, LenProperties
<1> QED BY <1>1, <1>2

(* The strings sent to a VT100.                                              *)
RowString(n) == Term!Begin \o Term!Digits(n)
ColumnString(n) == <<59>> \o Term!Digits(n) \o <<72>>

(* The bytes of the strings that machine.c sends for a row and for a column: *)
(* five digits of the number modulo 2^16, between their brackets.            *)
LEMMA StringsSent ==
  ASSUME NEW n \in Int
  PROVE  \E m \in Nat :
           /\ m = n % 65536 /\ m < 65536
           /\ Len(RowString(n)) = 7
           /\ RowString(n)[1] = 27 /\ RowString(n)[2] = 91
           /\ \A i \in 1..5 : RowString(n)[i + 2] = 48 + Term!Digit(m, i)
           /\ Len(ColumnString(n)) = 7
           /\ ColumnString(n)[1] = 59 /\ ColumnString(n)[7] = 72
           /\ \A i \in 1..5 : ColumnString(n)[i + 1] = 48 + Term!Digit(m, i)
<1>1. PICK m \in Nat : m = n % 65536 /\ m < 65536 OBVIOUS
<1>2. \A i \in 1..5 : 48 + Term!Digit(m, i) \in Nat
  <2>1. \A i \in 1..5 : 48 + Term!Digit(m, i) \in Codes BY <1>1, FiveDigits
  <2> QED BY <2>1 DEF Codes
<1>3. PICK d : d = Term!Digits(n) OBVIOUS
<1>4. d \in [1..5 -> Nat] /\ \A i \in 1..5 : d[i] = 48 + Term!Digit(m, i)
  BY <1>1, <1>2, <1>3 DEF Term!Digits
<1>5. d \in Seq(Nat) /\ Len(d) = 5 BY <1>4, AsSequence, Zenon
<1>6. PICK e, f, h : e = <<27, 91>> /\ f = <<59>> /\ h = <<72>> OBVIOUS
<1>7. /\ e \in Seq(Nat) /\ Len(e) = 2 /\ e[1] = 27 /\ e[2] = 91
      /\ f \in Seq(Nat) /\ Len(f) = 1 /\ f[1] = 59
      /\ h \in Seq(Nat) /\ Len(h) = 1 /\ h[1] = 72
  BY <1>6
<1>8. PICK x : x = e \o d OBVIOUS
<1>9. /\ x \in Seq(Nat) /\ Len(x) = Len(e) + Len(d)
      /\ \A i \in 1..Len(e) : x[i] = e[i]
      /\ \A i \in 1..Len(d) : x[i + Len(e)] = d[i]
  <2>1. e \in Seq(Nat) /\ d \in Seq(Nat) BY <1>5, <1>7
  <2>2. /\ e \o d \in Seq(Nat) /\ Len(e \o d) = Len(e) + Len(d)
        /\ \A i \in 1..Len(e) : (e \o d)[i] = e[i]
        /\ \A i \in 1..Len(d) : (e \o d)[i + Len(e)] = d[i]
    BY ONLY <2>1, Joined
  <2> QED BY <1>8, <2>2
<1>10. /\ Len(x) = 7 /\ x[1] = 27 /\ x[2] = 91
       /\ \A i \in 1..5 : x[i + 2] = 48 + Term!Digit(m, i)
  BY <1>4, <1>5, <1>7, <1>9
<1>11. PICK u : u = f \o d OBVIOUS
<1>12. /\ u \in Seq(Nat) /\ Len(u) = Len(f) + Len(d)
       /\ \A i \in 1..Len(f) : u[i] = f[i]
       /\ \A i \in 1..Len(d) : u[i + Len(f)] = d[i]
  <2>1. f \in Seq(Nat) /\ d \in Seq(Nat) BY <1>5, <1>7
  <2>2. /\ f \o d \in Seq(Nat) /\ Len(f \o d) = Len(f) + Len(d)
        /\ \A i \in 1..Len(f) : (f \o d)[i] = f[i]
        /\ \A i \in 1..Len(d) : (f \o d)[i + Len(f)] = d[i]
    BY ONLY <2>1, Joined
  <2> QED BY <1>11, <2>2
<1>13. /\ Len(u) = 6 /\ u[1] = 59
       /\ \A i \in 1..5 : u[i + 1] = 48 + Term!Digit(m, i)
  BY <1>4, <1>5, <1>7, <1>12
<1>14. PICK c : c = u \o h OBVIOUS
<1>15. /\ c \in Seq(Nat) /\ Len(c) = Len(u) + Len(h)
       /\ \A i \in 1..Len(u) : c[i] = u[i]
       /\ \A i \in 1..Len(h) : c[i + Len(u)] = h[i]
  <2>1. u \in Seq(Nat) /\ h \in Seq(Nat) BY <1>7, <1>12
  <2>2. /\ u \o h \in Seq(Nat) /\ Len(u \o h) = Len(u) + Len(h)
        /\ \A i \in 1..Len(u) : (u \o h)[i] = u[i]
        /\ \A i \in 1..Len(h) : (u \o h)[i + Len(u)] = h[i]
    BY ONLY <2>1, Joined
  <2> QED BY <1>14, <2>2
<1>16. /\ Len(c) = 7 /\ c[1] = 59 /\ c[7] = 72
       /\ \A i \in 1..5 : c[i + 1] = 48 + Term!Digit(m, i)
  BY <1>7, <1>13, <1>15
<1>17. x = RowString(n) /\ c = ColumnString(n)
  BY <1>3, <1>6, <1>8, <1>11, <1>14 DEF RowString, ColumnString, Term!Begin
<1> QED BY <1>1, <1>10, <1>16, <1>17

(* Five digits make a number of the parameter they come after.               *)
LEMMA FiveSteps ==
  ASSUME NEW m \in Nat, m < 65536, NEW g, NEW j \in Nat,
         \A i \in 1..5 : g[j + i] = Term!Reads(g[j + i - 1], 48 + Term!Digit(m, i))
  PROVE  \E v1 \in Codes, v2 \in Codes, v3 \in Codes, v4 \in Codes, v5 \in Codes :
           /\ m = 10 * (10 * (10 * (10 * (10 * 0 + v1 - 48) + v2 - 48) + v3 - 48) + v4 - 48)
                    + v5 - 48
           /\ \E g1, g2, g3, g4 :
                /\ g1 = Term!Reads(g[j], v1) /\ g2 = Term!Reads(g1, v2) /\ g3 = Term!Reads(g2, v3)
                /\ g4 = Term!Reads(g3, v4) /\ g[j + 5] = Term!Reads(g4, v5)
<1> DEFINE d1 == Term!Digit(m, 1)
           d2 == Term!Digit(m, 2)
           d3 == Term!Digit(m, 3)
           d4 == Term!Digit(m, 4)
           d5 == Term!Digit(m, 5)
<1>1. /\ g[j + 1] = Term!Reads(g[j + 1 - 1], 48 + d1)
      /\ g[j + 2] = Term!Reads(g[j + 2 - 1], 48 + d2)
      /\ g[j + 3] = Term!Reads(g[j + 3 - 1], 48 + d3)
      /\ g[j + 4] = Term!Reads(g[j + 4 - 1], 48 + d4)
      /\ g[j + 5] = Term!Reads(g[j + 5 - 1], 48 + d5)
  OBVIOUS
<1>2. /\ j + 1 - 1 = j /\ j + 2 - 1 = j + 1 /\ j + 3 - 1 = j + 2 /\ j + 4 - 1 = j + 3
      /\ j + 5 - 1 = j + 4
  OBVIOUS
<1>3. /\ 48 + d1 \in Codes /\ 48 + d2 \in Codes /\ 48 + d3 \in Codes /\ 48 + d4 \in Codes
      /\ 48 + d5 \in Codes
  BY FiveDigits
<1>4. m = 10 * (10 * (10 * (10 * d1 + d2) + d3) + d4) + d5 BY FiveDigits
<1>5. PICK v1 \in Codes, v2 \in Codes, v3 \in Codes, v4 \in Codes, v5 \in Codes :
        v1 = 48 + d1 /\ v2 = 48 + d2 /\ v3 = 48 + d3 /\ v4 = 48 + d4 /\ v5 = 48 + d5
  BY <1>3
<1>6. d1 \in Int /\ d2 \in Int /\ d3 \in Int /\ d4 \in Int /\ d5 \in Int BY DEF Term!Digit
<1> HIDE DEF d1, d2, d3, d4, d5
<1>7. PICK g1, g2, g3, g4 :
        /\ g1 = Term!Reads(g[j], v1) /\ g2 = Term!Reads(g1, v2) /\ g3 = Term!Reads(g2, v3)
        /\ g4 = Term!Reads(g3, v4) /\ g[j + 5] = Term!Reads(g4, v5)
  BY <1>1, <1>2, <1>5
<1>8. m = 10 * (10 * (10 * (10 * (10 * 0 + v1 - 48) + v2 - 48) + v3 - 48) + v4 - 48) + v5 - 48
  BY <1>4, <1>5, <1>6
<1> QED BY <1>5, <1>7, <1>8

(* Five digits are the first number, whatever string they are in.            *)
LEMMA ReadsNumber ==
  ASSUME NEW s, NEW c, NEW m \in Nat, m < 65536, NEW g, NEW j \in Nat,
         \A i \in 1..5 : g[j + i] = Term!Reads(g[j + i - 1], 48 + Term!Digit(m, i)),
         g[j] = Tm("control", << 0 >>, s, c)
  PROVE  g[j + 5] = Tm("control", <<m>>, s, c)
<1>0. PICK v1 \in Codes, v2 \in Codes, v3 \in Codes, v4 \in Codes, v5 \in Codes :
        /\ m = 10 * (10 * (10 * (10 * (10 * 0 + v1 - 48) + v2 - 48) + v3 - 48) + v4 - 48)
                 + v5 - 48
        /\ \E g1, g2, g3, g4 :
             /\ g1 = Term!Reads(g[j], v1) /\ g2 = Term!Reads(g1, v2) /\ g3 = Term!Reads(g2, v3)
             /\ g4 = Term!Reads(g3, v4) /\ g[j + 5] = Term!Reads(g4, v5)
  BY FiveSteps
<1>1. PICK g1, g2, g3, g4 :
        /\ g1 = Term!Reads(g[j], v1) /\ g2 = Term!Reads(g1, v2) /\ g3 = Term!Reads(g2, v3)
        /\ g4 = Term!Reads(g3, v4) /\ g[j + 5] = Term!Reads(g4, v5)
  BY <1>0
<1> DEFINE n1 == 10 * 0 + v1 - 48
           n2 == 10 * n1 + v2 - 48
           n3 == 10 * n2 + v3 - 48
           n4 == 10 * n3 + v4 - 48
<1>2. g1 = Tm("control", <<n1>>, s, c) BY <1>1, ReadsDigit
<1>3. m = 10 * n4 + v5 - 48 BY <1>0
<1> HIDE DEF n1
<1>4. g2 = Tm("control", <<n2>>, s, c) BY <1>1, <1>2, ReadsDigit
<1> HIDE DEF n2
<1>5. g3 = Tm("control", <<n3>>, s, c) BY <1>1, <1>4, ReadsDigit
<1> HIDE DEF n3
<1>6. g4 = Tm("control", <<n4>>, s, c) BY <1>1, <1>5, ReadsDigit
<1> HIDE DEF n4
<1> QED BY <1>1, <1>3, <1>6, ReadsDigit

(* Five digits are the second number.                                        *)
LEMMA ReadsSecondNumber ==
  ASSUME NEW s, NEW c, NEW k, NEW m \in Nat, m < 65536, NEW g, NEW j \in Nat,
         \A i \in 1..5 : g[j + i] = Term!Reads(g[j + i - 1], 48 + Term!Digit(m, i)),
         g[j] = Tm("control", <<k, 0>>, s, c)
  PROVE  g[j + 5] = Tm("control", <<k, m>>, s, c)
<1>0. PICK v1 \in Codes, v2 \in Codes, v3 \in Codes, v4 \in Codes, v5 \in Codes :
        /\ m = 10 * (10 * (10 * (10 * (10 * 0 + v1 - 48) + v2 - 48) + v3 - 48) + v4 - 48)
                 + v5 - 48
        /\ \E g1, g2, g3, g4 :
             /\ g1 = Term!Reads(g[j], v1) /\ g2 = Term!Reads(g1, v2) /\ g3 = Term!Reads(g2, v3)
             /\ g4 = Term!Reads(g3, v4) /\ g[j + 5] = Term!Reads(g4, v5)
  BY FiveSteps
<1>1. PICK g1, g2, g3, g4 :
        /\ g1 = Term!Reads(g[j], v1) /\ g2 = Term!Reads(g1, v2) /\ g3 = Term!Reads(g2, v3)
        /\ g4 = Term!Reads(g3, v4) /\ g[j + 5] = Term!Reads(g4, v5)
  BY <1>0
<1> DEFINE n1 == 10 * 0 + v1 - 48
           n2 == 10 * n1 + v2 - 48
           n3 == 10 * n2 + v3 - 48
           n4 == 10 * n3 + v4 - 48
<1>2. g1 = Tm("control", <<k, n1>>, s, c) BY <1>1, ReadsSecond
<1>3. m = 10 * n4 + v5 - 48 BY <1>0
<1> HIDE DEF n1
<1>4. g2 = Tm("control", <<k, n2>>, s, c) BY <1>1, <1>2, ReadsSecond
<1> HIDE DEF n2
<1>5. g3 = Tm("control", <<k, n3>>, s, c) BY <1>1, <1>4, ReadsSecond
<1> HIDE DEF n3
<1>6. g4 = Tm("control", <<k, n4>>, s, c) BY <1>1, <1>5, ReadsSecond
<1> HIDE DEF n4
<1> QED BY <1>1, <1>3, <1>6, ReadsSecond

(* ESC [ 2 J empties the screen.                                             *)
LEMMA ReadsErase ==
  ASSUME NEW s, NEW c, ~ efi
  PROVE  Term!After(Tm("text", <<>>, s, c), Term!EraseDisplay) = Tm("text", <<>>, Term!T!Empty, c)
<1>1. PICK b : b = Term!EraseDisplay OBVIOUS
<1>2. Len(b) = 4 /\ b[1] = 27 /\ b[2] = 91 /\ b[3] = 50 /\ b[4] = 74
  BY <1>1 DEF Term!EraseDisplay
<1>3. Len(b) \in Short BY <1>2 DEF Short
<1>4. PICK g : /\ g[0] = Tm("text", <<>>, s, c)
               /\ \A i \in 1..Len(b) : g[i] = Term!Reads(g[i - 1], b[i])
               /\ Term!After(Tm("text", <<>>, s, c), b) = g[Len(b)]
  BY ONLY <1>3, Unfold
<1>5. /\ g[1] = Term!Reads(g[0], 27) /\ g[2] = Term!Reads(g[1], 91) /\ g[3] = Term!Reads(g[2], 50)
      /\ g[4] = Term!Reads(g[3], 74)
  BY <1>2, <1>4
<1>6. g[2] = Tm("control", << 0 >>, s, c) BY <1>4, <1>5, ReadsEscape
<1>7. g[3] = Tm("control", <<2>>, s, c)
  <2>1. Term!Reads(Tm("control", << 0 >>, s, c), 50) = Tm("control", <<10 * 0 + 50 - 48>>, s, c)
    <3>1. PICK v \in Codes : v = 50 BY DEF Codes
    <3>2. Term!Reads(Tm("control", << 0 >>, s, c), v) = Tm("control", <<10 * 0 + v - 48>>, s, c)
      BY ReadsDigit
    <3> QED BY <3>1, <3>2
  <2> QED BY <1>5, <1>6, <2>1
<1> QED BY <1>1, <1>2, <1>4, <1>5, <1>7, ReadsErasing

(* The string of a row leaves its number in the terminal.                    *)
LEMMA ReadsRow ==
  ASSUME NEW s, NEW c, NEW n \in Int, ~ efi
  PROVE  Term!After(Tm("text", <<>>, s, c), RowString(n))
           = Tm("control", <<n % 65536>>, s, c)
<1>1. PICK b : b = RowString(n) OBVIOUS
<1>2. PICK m \in Nat : /\ m = n % 65536 /\ m < 65536
                       /\ Len(b) = 7 /\ b[1] = 27 /\ b[2] = 91
                       /\ \A i \in 1..5 : b[i + 2] = 48 + Term!Digit(m, i)
  BY <1>1, StringsSent
<1>3. Len(b) \in Short BY <1>2 DEF Short
<1>4. PICK g : /\ g[0] = Tm("text", <<>>, s, c)
               /\ \A i \in 1..Len(b) : g[i] = Term!Reads(g[i - 1], b[i])
               /\ Term!After(Tm("text", <<>>, s, c), b) = g[Len(b)]
  BY ONLY <1>3, Unfold
<1>5. /\ g[1] = Term!Reads(g[0], 27) /\ g[2] = Term!Reads(g[1], 91) BY <1>2, <1>4
<1>6. g[2] = Tm("control", << 0 >>, s, c) BY <1>4, <1>5, ReadsEscape
<1>7. g[7] = Tm("control", <<m>>, s, c)
  <2>1. PICK j \in Nat : j = 2 OBVIOUS
  <2>2. \A i \in 1..5 : g[j + i] = Term!Reads(g[j + i - 1], 48 + Term!Digit(m, i))
    <3> TAKE i \in 1..5
    <3>1. j + i \in 1..7 /\ b[j + i] = 48 + Term!Digit(m, i) BY <1>2, <2>1
    <3> QED BY <1>2, <1>4, <3>1
  <2>3. g[j] = Tm("control", << 0 >>, s, c) BY <1>6, <2>1
  <2>4. g[j + 5] = Tm("control", <<m>>, s, c) BY <1>2, <2>2, <2>3, ReadsNumber
  <2> QED BY <2>1, <2>4
<1> QED BY <1>1, <1>2, <1>4, <1>7

(* The string of a column moves the cursor to the row held and the column.   *)
LEMMA ReadsColumn ==
  ASSUME NEW s, NEW c, NEW n \in Int, NEW k \in Nat, ~ efi
  PROVE  Term!After(Tm("control", <<k>>, s, c), ColumnString(n))
           = Tm("text", <<>>, s, <<Term!Within(k, Rows), Term!Within(n % 65536, Cols)>>)
<1>1. PICK b : b = ColumnString(n) OBVIOUS
<1>2. PICK m \in Nat : /\ m = n % 65536 /\ m < 65536
                       /\ Len(b) = 7 /\ b[1] = 59 /\ b[7] = 72
                       /\ \A i \in 1..5 : b[i + 1] = 48 + Term!Digit(m, i)
  BY <1>1, StringsSent
<1>3. Len(b) \in Short BY <1>2 DEF Short
<1>4. PICK g : /\ g[0] = Tm("control", <<k>>, s, c)
               /\ \A i \in 1..Len(b) : g[i] = Term!Reads(g[i - 1], b[i])
               /\ Term!After(Tm("control", <<k>>, s, c), b) = g[Len(b)]
  BY ONLY <1>3, Unfold
<1>5. g[1] = Term!Reads(g[0], 59) /\ g[7] = Term!Reads(g[6], 72) BY <1>2, <1>4
<1>6. g[1] = Tm("control", <<k, 0>>, s, c) BY <1>4, <1>5, ReadsNext
<1>7. g[6] = Tm("control", <<k, m>>, s, c)
  <2>1. PICK j \in Nat : j = 1 OBVIOUS
  <2>2. \A i \in 1..5 : g[j + i] = Term!Reads(g[j + i - 1], 48 + Term!Digit(m, i))
    <3> TAKE i \in 1..5
    <3>1. j + i \in 1..7 /\ b[j + i] = 48 + Term!Digit(m, i) BY <1>2, <2>1
    <3> QED BY <1>2, <1>4, <3>1
  <2>3. g[j] = Tm("control", <<k, 0>>, s, c) BY <1>6, <2>1
  <2>4. g[j + 5] = Tm("control", <<k, m>>, s, c) BY <1>2, <2>2, <2>3, ReadsSecondNumber
  <2> QED BY <2>1, <2>4
<1>8. g[7] = Tm("text", <<>>, s, <<Term!Within(k, Rows), Term!Within(m, Cols)>>)
  BY <1>5, <1>7, ReadsPlace
<1> QED BY <1>1, <1>2, <1>4, <1>8

-------------------------------------------------------------------------------
(* The screen and the cursor keep to their types.                            *)
LEMMA ScreenTypes ==
  ASSUME Term!TerminalAssumption
  PROVE  /\ Term!T!Empty \in Screens /\ Term!T!Home \in Term!T!Places
         /\ \A s \in Screens, c \in Term!T!Places, v \in Byte :
              Term!T!Shown(s, c, v) \in Screens /\ Term!T!Right(c, v) \in Term!T!Places
         /\ \A m \in Nat, n \in Nat :
              <<Term!Within(m, Rows), Term!Within(n, Cols)>> \in Term!T!Places
<1>1. Term!T!Empty \in Screens BY DEF Term!T!Empty, Screens
<1>2. Term!T!Home \in Term!T!Places BY DEF Term!TerminalAssumption, Term!T!Home, Term!T!Places
<1>3. ASSUME NEW s \in Screens, NEW c \in Term!T!Places, NEW v \in Byte
      PROVE  Term!T!Shown(s, c, v) \in Screens
  BY <1>3 DEF Term!T!Shown, Screens, Byte, UINT8_MAX
<1>4. ASSUME NEW c \in Term!T!Places, NEW v \in Byte
      PROVE  Term!T!Right(c, v) \in Term!T!Places
  <2>1. PICK l \in 0..Rows - 1, k \in 0..Cols - 1 : c = <<l, k>> BY DEF Term!T!Places
  <2>2. Term!T!Right(c, v) = <<l, k>> \/ (k < Cols - 1 /\ Term!T!Right(c, v) = <<l, k + 1>>)
    BY <2>1 DEF Term!T!Right
  <2>3. k < Cols - 1 => k + 1 \in 0..Cols - 1 BY DEF Term!TerminalAssumption
  <2> QED BY <2>1, <2>2, <2>3 DEF Term!T!Places
<1>5. ASSUME NEW m \in Nat, NEW n \in Nat
      PROVE  <<Term!Within(m, Rows), Term!Within(n, Cols)>> \in Term!T!Places
  <2>1. Term!Within(m, Rows) \in 0..Rows - 1 BY DEF Term!TerminalAssumption, Term!Within
  <2>2. Term!Within(n, Cols) \in 0..Cols - 1 BY DEF Term!TerminalAssumption, Term!Within
  <2> QED BY <2>1, <2>2 DEF Term!T!Places
<1> QED BY <1>1, <1>2, <1>3, <1>4, <1>5

(* A single byte sent.                                                       *)
LEMMA ReadsOne ==
  ASSUME NEW t, NEW v
  PROVE  Term!After(t, <<v>>) = Term!Reads(t, v)
<1>1. PICK b : b = <<v>> OBVIOUS
<1>2. Len(b) = 1 /\ b[1] = v BY <1>1
<1>3. Len(b) \in Short BY <1>2 DEF Short
<1>4. PICK g : /\ g[0] = t
               /\ \A i \in 1..Len(b) : g[i] = Term!Reads(g[i - 1], b[i])
               /\ Term!After(t, b) = g[Len(b)]
  BY ONLY <1>3, Unfold, ZenonT(60)
<1>5. g[1] = Term!Reads(g[0], v) BY <1>2, <1>4
<1> QED BY <1>1, <1>2, <1>4, <1>5

(* A terminal between two characters.                                        *)
InText(t) == \E s \in Screens, c \in Term!T!Places : t = Tm("text", <<>>, s, c)

(* A terminal reading text is still reading text after a character.          *)
LEMMA KeepsText ==
  ASSUME Term!TerminalAssumption, NEW t, InText(t), NEW v \in Byte, v # 27 \/ efi
  PROVE  InText(Term!Reads(t, v))
<1>1. PICK s \in Screens, c \in Term!T!Places : t = Tm("text", <<>>, s, c) BY DEF InText
<1>2. Term!Reads(t, v) = Tm("text", <<>>, Term!T!Shown(s, c, v), Term!T!Right(c, v))
  BY <1>1, ReadsText
<1>3. Term!T!Shown(s, c, v) \in Screens /\ Term!T!Right(c, v) \in Term!T!Places BY ScreenTypes
<1> QED BY <1>2, <1>3 DEF InText

(* A column sent to a terminal that reads text (a program halted inside of   *)
(* the sequence) is shown.                                                   *)
LEMMA ShowsColumn ==
  ASSUME Term!TerminalAssumption, NEW t, InText(t), NEW n \in Int
  PROVE  InText(Term!After(t, ColumnString(n)))
<1>1. PICK b : b = ColumnString(n) OBVIOUS
<1>2. PICK m \in Nat : /\ m = n % 65536 /\ m < 65536
                       /\ Len(b) = 7 /\ b[1] = 59 /\ b[7] = 72
                       /\ \A i \in 1..5 : b[i + 1] = 48 + Term!Digit(m, i)
  BY <1>1, StringsSent
<1>3. Len(b) \in Short BY <1>2 DEF Short
<1>4. PICK g : /\ g[0] = t
               /\ \A i \in 1..Len(b) : g[i] = Term!Reads(g[i - 1], b[i])
               /\ Term!After(t, b) = g[Len(b)]
  BY ONLY <1>3, Unfold
<1>5. \A k \in 1..7 : b[k] \in Byte /\ b[k] # 27
  <2>1. \A i \in 1..5 : b[i + 1] \in Codes BY <1>2, FiveDigits
  <2> TAKE k \in 1..7
  <2>2. CASE k = 1 \/ k = 7 BY <1>2, <2>2 DEF Byte, UINT8_MAX
  <2>3. CASE k \in 2..6
    <3>1. PICK i \in 1..5 : k = i + 1 BY <2>3
    <3>2. b[k] \in Codes BY <2>1, <3>1
    <3> QED BY <3>2 DEF Codes, Byte, UINT8_MAX
  <2> QED BY <2>2, <2>3
<1>6. \A k \in 1..7 : InText(g[k - 1]) => InText(g[k])
  <2> TAKE k \in 1..7
  <2> HAVE InText(g[k - 1])
  <2>1. g[k] = Term!Reads(g[k - 1], b[k]) BY <1>2, <1>4
  <2> QED BY <1>5, <2>1, KeepsText
<1>7. InText(g[0]) BY <1>4
<1>8. InText(g[1]) BY <1>6, <1>7
<1>9. InText(g[2]) BY <1>6, <1>8
<1>10. InText(g[3]) BY <1>6, <1>9
<1>11. InText(g[4]) BY <1>6, <1>10
<1>12. InText(g[5]) BY <1>6, <1>11
<1>13. InText(g[6]) BY <1>6, <1>12
<1>14. InText(g[7]) BY <1>6, <1>13
<1> QED BY <1>1, <1>2, <1>4, <1>14

-------------------------------------------------------------------------------
(* Inside of a number only when the column is awaited.                       *)
InNumber(t) == \E s \in Screens, c \in Term!T!Places, n \in Words : t = Tm("control", <<n>>, s, c)

Settled ==
  /\ esc \in 0..3 /\ vt_cnv \in 0..2 /\ row \in -32..223
  /\ broken \in BOOLEAN /\ running \in BOOLEAN /\ efi \in BOOLEAN
  /\ vt_cnv # (IF efi THEN 1 ELSE 2)

Held == InText(term) \/ (running /\ esc = 3 /\ vt_cnv = 1 /\ InNumber(term))

(* No sequence is begun without conversion, none is left open by a program   *)
(* that halts, and the column is awaited by a terminal that has its row.     *)
Whole ==
  ~ broken =>
    /\ ~ running \/ vt_cnv = 0 => esc = 0
    /\ esc = 3 /\ vt_cnv = 1 => InNumber(term)

TermInv == Settled /\ Held /\ Whole

-------------------------------------------------------------------------------
(* The screen of a terminal, its cursor and its state.                       *)
LEMMA TermFields ==
  \A g, ps, s, c : /\ Tm(g, ps, s, c).reads = g /\ Tm(g, ps, s, c).params = ps
                   /\ Tm(g, ps, s, c).screen = s /\ Tm(g, ps, s, c).cursor = c
BY DEF Tm

(* At the start the terminal is the empty screen.                            *)
LEMMA TermInitially == Term!TerminalAssumption /\ Term!Init => TermInv /\ Term!T!SInit
<1> SUFFICES ASSUME Term!TerminalAssumption, Term!Init PROVE TermInv /\ Term!T!SInit
  OBVIOUS
<1>1. term = Tm("text", <<>>, Term!T!Empty, Term!T!Home) BY DEF Term!Init, Tm
<1>2. InText(term) BY <1>1, ScreenTypes DEF InText
<1>3. Settled
  <2>1. efi \in BOOLEAN /\ broken \in BOOLEAN /\ running \in BOOLEAN BY DEF Term!Init
  <2>2. vt_cnv \in 0..2 /\ vt_cnv # (IF efi THEN 1 ELSE 2) BY DEF Term!Init
  <2>3. esc \in 0..3 /\ row \in -32..223 BY DEF Term!Init
  <2> QED BY <2>1, <2>2, <2>3 DEF Settled
<1>4. Whole BY DEF Term!Init, Whole
<1>5. TermInv BY <1>2, <1>3, <1>4 DEF TermInv, Held
<1>6. Term!T!SInit
  BY <1>1, TermFields DEF Term!Init, Term!T!SInit, Term!Waiting, Term!RowWaiting
<1> QED BY <1>5, <1>6

(* What a clear screen leaves on each terminal.                              *)
LEMMA Clears ==
  ASSUME Term!TerminalAssumption, Settled, NEW s \in Screens, NEW c \in Term!T!Places,
         term = Tm("text", <<>>, s, c), Term!Clear
  PROVE  /\ term' \in {Tm("text", <<>>, s, c), Tm("text", <<>>, Term!T!Empty, c),
                       Tm("text", <<>>, Term!T!Empty, Term!T!Home)}
         /\ vt_cnv # 0 => term' # Tm("text", <<>>, s, c) \/ s = Term!T!Empty
<1>1. CASE vt_cnv = 1
  <2>1. term' = Term!After(term, Term!EraseDisplay) /\ ~ efi
    BY <1>1 DEF Term!Clear, Term!con_puts, Settled
  <2>2. term' = Tm("text", <<>>, Term!T!Empty, c) BY <2>1, ReadsErase
  <2> QED BY <2>2, TermFields
<1>2. CASE vt_cnv # 1 /\ efi
  <2>1. term' = [Tm("text", <<>>, s, c) EXCEPT !.screen = Term!T!Empty, !.cursor = Term!T!Home]
    BY <1>2 DEF Term!Clear, Term!ClearScreen
  <2>2. [Tm("text", <<>>, s, c) EXCEPT !.screen = Term!T!Empty] = Tm("text", <<>>, Term!T!Empty, c)
    BY DEF Tm
  <2>3. [Tm("text", <<>>, Term!T!Empty, c) EXCEPT !.cursor = Term!T!Home]
          = Tm("text", <<>>, Term!T!Empty, Term!T!Home)
    BY DEF Tm
  <2>4. term' = Tm("text", <<>>, Term!T!Empty, Term!T!Home) BY <2>1, <2>2, <2>3
  <2> QED BY <2>4, TermFields
<1>3. CASE vt_cnv # 1 /\ ~ efi BY <1>3 DEF Term!Clear, Settled
<1> QED BY <1>1, <1>2, <1>3

(* The byte after ESC: = begins a cursor address, anything else is dropped.  *)
LEMMA EscapeStep ==
  ASSUME Term!TerminalAssumption, TermInv, NEW val \in Bytes, running, Term!AfterEscape(val),
         UNCHANGED <<efi, vt_cnv, running, broken>>
  PROVE  TermInv' /\ (~ broken' => Term!T!Write(val))
<1>1. esc = 1 /\ UNCHANGED row BY DEF Term!AfterEscape
<1>2. PICK s \in Screens, c \in Term!T!Places : term = Tm("text", <<>>, s, c)
  BY <1>1 DEF TermInv, Held, InText
<1>3. CASE val = 61
  <2>1. esc' = 2 /\ UNCHANGED term BY <1>3 DEF Term!AfterEscape
  <2>2. TermInv' BY <1>1, <2>1 DEF TermInv, Settled, Held, Whole, InText, InNumber
  <2>3. Term!T!Code(val) BY <1>1, <1>3, <2>1 DEF Term!T!Code, Term!Waiting, Term!RowWaiting
  <2> QED BY <2>2, <2>3 DEF Term!T!Write
<1>4. CASE val \notin {59, 61}
  <2>1. esc' = 0 /\ UNCHANGED term BY <1>4 DEF Term!AfterEscape
  <2>2. TermInv' BY <1>1, <2>1 DEF TermInv, Settled, Held, Whole, InText, InNumber
  <2>3. Term!T!Code(val)
    BY <1>1, <1>2, <1>4, <2>1, TermFields DEF Term!T!Code, Term!Waiting, Term!RowWaiting
  <2> QED BY <2>2, <2>3 DEF Term!T!Write
<1>5. CASE val = 59
  <2>1. esc' = 0 /\ Term!Clear BY <1>5 DEF Term!AfterEscape
  <2>2. PICK s2 \in {s, Term!T!Empty}, c2 \in {c, Term!T!Home} :
          term' = Tm("text", <<>>, s2, c2) /\ (vt_cnv # 0 => s2 = Term!T!Empty)
    BY <1>2, <2>1, Clears, TermFields DEF TermInv
  <2>3. InText(term') BY <2>2, ScreenTypes DEF InText
  <2>4. TermInv' BY <1>1, <2>1, <2>3 DEF TermInv, Settled, Held, Whole, InText
  <2>5. ASSUME ~ broken' PROVE Term!T!Code(val)
    <3>1. vt_cnv # 0 BY <1>1, <2>5 DEF TermInv, Whole
    <3>2. term'.screen = Term!T!Empty /\ term'.cursor \in {term.cursor, Term!T!Home}
      BY <1>2, <2>2, <3>1, TermFields
    <3>3. term'.reads = "text" BY <2>2, TermFields
    <3> QED
      BY <1>1, <1>5, <2>1, <3>2, <3>3 DEF Term!T!Code, Term!T!Cleared, Term!Waiting, Term!RowWaiting
  <2> QED BY <2>4, <2>5 DEF Term!T!Write
<1> QED BY <1>3, <1>4, <1>5

(* The row of a cursor address.                                              *)
LEMMA RowStep ==
  ASSUME Term!TerminalAssumption, TermInv, NEW val \in Bytes, running, Term!RowByte(val),
         UNCHANGED <<efi, vt_cnv, running, broken>>
  PROVE  TermInv' /\ (~ broken' => Term!T!Write(val))
<1>1. esc = 2 /\ esc' = 3 BY DEF Term!RowByte
<1>2. PICK s \in Screens, c \in Term!T!Places : term = Tm("text", <<>>, s, c)
  BY <1>1 DEF TermInv, Held, InText
<1>3. val \in Byte BY DEF Term!TerminalAssumption, Byte, UINT8_MAX
<1>4. CASE vt_cnv = 1
  <2>1. term' = Term!After(term, RowString(val - 32 + 1)) /\ UNCHANGED row /\ ~ efi
    BY <1>4 DEF Term!RowByte, Term!con_puts, RowString, TermInv, Settled
  <2>2. PICK n \in Int : n = val - 32 + 1 BY <1>3 DEF Byte, UINT8_MAX
  <2>3. term' = Tm("control", <<n % 65536>>, s, c)
    <3>1. term' = Term!After(Tm("text", <<>>, s, c), RowString(n)) /\ ~ efi BY <1>2, <2>1, <2>2
    <3> QED BY ONLY <3>1, n \in Int, ReadsRow
  <2>4. PICK m \in Words : m = n % 65536
    <3>1. n % 65536 \in Nat /\ n % 65536 < 65536 OBVIOUS
    <3> QED BY ONLY <3>1, InWords
  <2>5. InNumber(term') BY <2>3, <2>4 DEF InNumber
  <2>6. TermInv' BY <1>1, <1>4, <2>1, <2>5 DEF TermInv, Settled, Held, Whole, InNumber
  <2>7. ASSUME ~ broken' PROVE Term!T!Row(val)
    <3>1. Term!Number(term', 1) = m /\ term'.reads = "control" BY <2>3, <2>4 DEF Term!Number, Tm
    <3>2. Term!RowWaiting' = val - 32
      <4>1. (IF m > 32767 THEN m - 65537 ELSE m - 1) = val - 32
        BY <1>3, <2>2, <2>4, OfWords DEF Byte, UINT8_MAX
      <4> QED BY <1>1, <2>1, <3>1, <4>1 DEF Term!RowWaiting
    <3>3. term'.screen = term.screen /\ term'.cursor = term.cursor BY <1>2, <2>3, TermFields
    <3>4. Term!Waiting = "row" /\ Term!Waiting' = "column" BY <1>1 DEF Term!Waiting
    <3> QED BY <3>2, <3>3, <3>4 DEF Term!T!Row
  <2> QED BY <2>6, <2>7 DEF Term!T!Write
<1>5. CASE vt_cnv # 1
  <2>1. UNCHANGED term /\ row' = IF efi THEN val - 32 ELSE row BY <1>5 DEF Term!RowByte
  <2>2. row' \in -32..223 BY <1>3, <2>1 DEF Byte, UINT8_MAX, TermInv, Settled
  <2>3. TermInv' BY <1>1, <1>5, <2>1, <2>2 DEF TermInv, Settled, Held, Whole, InText, InNumber
  <2>4. ASSUME ~ broken' PROVE Term!T!Row(val)
    <3>1. efi BY <1>1, <1>5, <2>4 DEF TermInv, Settled, Whole
    <3>2. Term!RowWaiting' = val - 32 BY <1>1, <2>1, <3>1 DEF Term!RowWaiting
    <3>3. Term!Waiting = "row" /\ Term!Waiting' = "column" BY <1>1 DEF Term!Waiting
    <3> QED BY <2>1, <3>2, <3>3 DEF Term!T!Row
  <2> QED BY <2>3, <2>4 DEF Term!T!Write
<1> QED BY <1>4, <1>5

(* The column of a cursor address moves the cursor, on each terminal.        *)
LEMMA ColumnStep ==
  ASSUME Term!TerminalAssumption, TermInv, NEW val \in Bytes, running, Term!ColumnByte(val),
         UNCHANGED <<efi, vt_cnv, running, broken>>
  PROVE  TermInv' /\ (~ broken' => Term!T!Write(val))
<1>1. esc = 3 /\ esc' = 0 /\ UNCHANGED row BY DEF Term!ColumnByte
<1>2. val \in Byte BY DEF Term!TerminalAssumption, Byte, UINT8_MAX
<1>3. ASSUME InText(term')
      PROVE  /\ TermInv' /\ term'.reads = "text"
             /\ Term!Waiting = "column" /\ Term!Waiting' = "text"
             /\ Term!RowWaiting' = 0 /\ term'.cursor \in Term!T!Places
  <2>1. PICK s \in Screens, c \in Term!T!Places : term' = Tm("text", <<>>, s, c)
    BY <1>3 DEF InText
  <2>2. term'.reads = "text" /\ term'.cursor \in Term!T!Places BY <2>1, TermFields
  <2>3. TermInv' BY <1>1, <1>3 DEF TermInv, Settled, Held, Whole, InText
  <2>4. Term!Waiting = "column" BY <1>1 DEF Term!Waiting
  <2>5. Term!Waiting' = "text" BY <1>1, <2>2 DEF Term!Waiting
  <2>6. Term!RowWaiting' = 0 BY <1>1 DEF Term!RowWaiting
  <2> QED BY <2>2, <2>3, <2>4, <2>5, <2>6
<1>4. CASE vt_cnv = 1
  <2>1. term' = Term!After(term, ColumnString(val - 32 + 1)) /\ ~ efi
    BY <1>4 DEF Term!ColumnByte, Term!con_puts, ColumnString, TermInv, Settled
  <2>2. PICK k \in Int : k = val - 32 + 1 BY <1>2 DEF Byte, UINT8_MAX
  <2>3. CASE InText(term)
    <3>1. InText(term') BY <2>1, <2>2, <2>3, ShowsColumn
    <3>2. broken
      <4>1. PICK s \in Screens, c \in Term!T!Places : term = Tm("text", <<>>, s, c)
        BY <2>3 DEF InText
      <4>2. ~ InNumber(term)
        <5>1. term.reads = "text" BY <4>1, TermFields
        <5>2. InNumber(term) => term.reads = "control" BY TermFields DEF InNumber
        <5> QED BY <5>1, <5>2
      <4> QED BY <1>1, <1>4, <4>2 DEF TermInv, Whole
    <3> QED BY <1>3, <3>1, <3>2
  <2>4. CASE InNumber(term)
    <3>1. PICK s \in Screens, c \in Term!T!Places, n \in Words : term = Tm("control", <<n>>, s, c)
      BY <2>4 DEF InNumber
    <3>2. n \in Nat /\ n < 65536 BY OfWords
    <3>3. PICK m \in Nat : m = k % 65536 /\ m < 65536 OBVIOUS
    <3>4. term' = Tm("text", <<>>, s, <<Term!Within(n, Rows), Term!Within(m, Cols)>>)
      BY <2>1, <2>2, <3>1, <3>2, <3>3, ReadsColumn
    <3>5. InText(term') BY <3>2, <3>4, ScreenTypes DEF InText
    <3>6. Term!Number(term, 1) = n BY <3>1 DEF Term!Number, Tm
    <3>7. Term!RowWaiting = IF n > 32767 THEN n - 65537 ELSE n - 1
      BY <1>1, <2>1, <3>6 DEF Term!RowWaiting
    <3>8. ASSUME <<Term!RowWaiting, val - 32>> \in Term!T!Places
          PROVE  term'.cursor = <<Term!RowWaiting, val - 32>>
      <4>1. Term!RowWaiting \in 0..Rows - 1 /\ val - 32 \in 0..Cols - 1
        BY <3>8 DEF Term!T!Places
      <4>2. Term!Within(n, Rows) = Term!RowWaiting
        BY <3>2, <3>7, <4>1 DEF Term!TerminalAssumption, Term!Within
      <4>3. m = k BY <1>2, <2>2, <3>3, <4>1 DEF Byte, UINT8_MAX
      <4>4. Term!Within(m, Cols) = val - 32
        BY <1>2, <2>2, <4>1, <4>3 DEF Term!TerminalAssumption, Term!Within, Byte, UINT8_MAX
      <4> QED BY <3>4, <4>2, <4>4, TermFields
    <3>9. term'.screen = term.screen BY <3>1, <3>4, TermFields
    <3>10. Term!T!Column(val) BY <1>3, <3>5, <3>8, <3>9 DEF Term!T!Column
    <3> QED BY <1>3, <3>5, <3>10 DEF Term!T!Write
  <2> QED BY <2>3, <2>4 DEF TermInv, Held
<1>5. CASE vt_cnv # 1
  <2>1. PICK s \in Screens, c \in Term!T!Places : term = Tm("text", <<>>, s, c)
    BY <1>5 DEF TermInv, Held, InText
  <2>2. CASE efi
    <3>1. Term!SetCursorPosition(val - 32, row) BY <1>5, <2>2 DEF Term!ColumnByte
    <3>2. Term!RowWaiting = row BY <1>1, <2>2 DEF Term!RowWaiting
    <3>3. \A d : [Tm("text", <<>>, s, c) EXCEPT !.cursor = d] = Tm("text", <<>>, s, d) BY DEF Tm
    <3>4. CASE <<row, val - 32>> \in Term!T!Places
      <4>1. term' = Tm("text", <<>>, s, <<row, val - 32>>)
        BY <2>1, <3>1, <3>3, <3>4 DEF Term!SetCursorPosition
      <4>2. InText(term') BY <3>4, <4>1 DEF InText
      <4>3. term'.cursor = <<row, val - 32>> /\ term'.screen = term.screen
        BY <2>1, <4>1, TermFields
      <4>4. Term!T!Column(val) BY <1>3, <3>2, <3>4, <4>2, <4>3 DEF Term!T!Column
      <4> QED BY <1>3, <4>2, <4>4 DEF Term!T!Write
    <3>5. CASE <<row, val - 32>> \notin Term!T!Places
      <4>1. term' = term BY <3>1, <3>5 DEF Term!SetCursorPosition
      <4>2. InText(term') BY <2>1, <4>1 DEF InText
      <4>3. Term!T!Column(val) BY <1>3, <3>2, <3>5, <4>1, <4>2 DEF Term!T!Column
      <4> QED BY <1>3, <4>2, <4>3 DEF Term!T!Write
    <3> QED BY <3>4, <3>5
  <2>3. CASE ~ efi
    <3>1. term' = term BY <1>5, <2>3 DEF Term!ColumnByte
    <3>2. InText(term') BY <2>1, <3>1 DEF InText
    <3>3. broken BY <1>1, <1>5, <2>3 DEF TermInv, Settled, Whole
    <3> QED BY <1>3, <3>2, <3>3
  <2> QED BY <2>2, <2>3
<1> QED BY <1>4, <1>5

(* A byte outside of a sequence: shown, a clear screen, or ESC.              *)
LEMMA CharacterStep ==
  ASSUME Term!TerminalAssumption, TermInv, NEW val \in Bytes, running, Term!Character(val),
         vt_cnv = 0 => val # 27, UNCHANGED <<efi, vt_cnv, running, broken>>
  PROVE  TermInv' /\ (~ broken' => Term!T!Write(val))
<1>1. esc = 0 /\ UNCHANGED row BY DEF Term!Character
<1>2. PICK s \in Screens, c \in Term!T!Places : term = Tm("text", <<>>, s, c)
  BY <1>1 DEF TermInv, Held, InText
<1>3. val \in Byte BY DEF Term!TerminalAssumption, Byte, UINT8_MAX
<1>4. Term!Waiting = "text" /\ Term!RowWaiting = 0
  BY <1>1, <1>2, TermFields DEF Term!Waiting, Term!RowWaiting
<1>5. CASE (vt_cnv = 0 \/ val \notin {26, 27}) /\ Term!con_puts(<<val>>) /\ UNCHANGED esc
  <2>1. val # 27 BY <1>5
  <2>2. term' = Tm("text", <<>>, Term!T!Shown(s, c, val), Term!T!Right(c, val))
    BY <1>2, <1>5, <2>1, ReadsOne, ReadsText DEF Term!con_puts
  <2>3. InText(term') BY <1>3, <2>2, ScreenTypes DEF InText
  <2>4. TermInv' BY <1>1, <1>5, <2>3 DEF TermInv, Settled, Held, Whole, InText
  <2>5. /\ term'.screen = Term!T!Shown(term.screen, term.cursor, val)
        /\ term'.cursor = Term!T!Right(term.cursor, val) /\ term'.reads = "text"
    BY <1>2, <2>2, TermFields
  <2>6. Term!Waiting' = "text" /\ Term!RowWaiting' = 0
    BY <1>1, <1>5, <2>5 DEF Term!Waiting, Term!RowWaiting
  <2>7. Term!T!Text(val) BY <1>4, <1>5, <2>5, <2>6 DEF Term!T!Text, Term!T!ESC, Term!T!SUB
  <2> QED BY <2>4, <2>7 DEF Term!T!Write
<1>6. CASE vt_cnv # 0 /\ val = 26 /\ Term!Clear /\ UNCHANGED esc
  <2>1. PICK s2 \in {s, Term!T!Empty}, c2 \in {c, Term!T!Home} :
          term' = Tm("text", <<>>, s2, c2) /\ (vt_cnv # 0 => s2 = Term!T!Empty)
    BY <1>2, <1>6, Clears, TermFields DEF TermInv
  <2>2. InText(term') BY <2>1, ScreenTypes DEF InText
  <2>3. TermInv' BY <1>1, <1>6, <2>2 DEF TermInv, Settled, Held, Whole, InText
  <2>4. /\ term'.screen = Term!T!Empty /\ term'.cursor \in {term.cursor, Term!T!Home}
        /\ term'.reads = "text"
    BY <1>2, <1>6, <2>1, TermFields
  <2>5. Term!Waiting' = "text" /\ Term!RowWaiting' = 0
    BY <1>1, <1>6, <2>4 DEF Term!Waiting, Term!RowWaiting
  <2>6. Term!T!Control(val)
    BY <1>4, <1>6, <2>4, <2>5 DEF Term!T!Control, Term!T!Cleared, Term!T!SUB
  <2> QED BY <2>3, <2>6 DEF Term!T!Write
<1>7. CASE vt_cnv # 0 /\ val = 27 /\ esc' = 1 /\ UNCHANGED term
  <2>1. TermInv' BY <1>1, <1>7 DEF TermInv, Settled, Held, Whole, InText, InNumber
  <2>2. Term!Waiting' = "code" /\ Term!RowWaiting' = 0 BY <1>7 DEF Term!Waiting, Term!RowWaiting
  <2>3. Term!T!Control(val) BY <1>4, <1>7, <2>2 DEF Term!T!Control, Term!T!ESC
  <2> QED BY <2>1, <2>3 DEF Term!T!Write
<1> QED BY <1>5, <1>6, <1>7 DEF Term!Character

(* The prompt of the monitor after a program.                                *)
LEMMA HaltStep ==
  ASSUME Term!TerminalAssumption, TermInv, Term!Halt
  PROVE  TermInv' /\ (~ broken' => Term!T!Write(62))
<1>1. /\ running /\ running' = FALSE /\ broken' = (broken \/ esc # 0)
      /\ UNCHANGED <<efi, esc, row, vt_cnv>> /\ term' = Term!Reads(term, 62)
  BY ReadsOne DEF Term!Halt, Term!con_puts
<1>2. InText(term')
  <2>1. CASE InText(term)
    <3>1. PICK v \in Byte : v = 62 BY DEF Byte, UINT8_MAX
    <3> QED BY <1>1, <2>1, <3>1, KeepsText
  <2>2. CASE InNumber(term)
    <3>1. PICK s \in Screens, c \in Term!T!Places, n \in Words : term = Tm("control", <<n>>, s, c)
      BY <2>2 DEF InNumber
    <3> QED BY <1>1, <3>1, ReadsPrompt DEF InText
  <2> QED BY <2>1, <2>2 DEF TermInv, Held
<1>3. TermInv'
  <2>1. Settled' BY <1>1 DEF TermInv, Settled
  <2>2. Held' BY <1>2 DEF Held, InText
  <2>3. Whole'
    <3>1. ASSUME ~ broken' PROVE esc' = 0 /\ esc' # 3
      <4>1. esc = 0 BY <1>1, <3>1
      <4> QED BY <1>1, <4>1
    <3> QED BY <3>1, Zenon DEF Whole
  <2> QED BY <2>1, <2>2, <2>3 DEF TermInv
<1>4. ASSUME ~ broken' PROVE Term!T!Text(62)
  <2>1. esc = 0 BY <1>1, <1>4 DEF TermInv, Settled
  <2>2. PICK s \in Screens, c \in Term!T!Places : term = Tm("text", <<>>, s, c)
    BY <2>1 DEF TermInv, Held, InText
  <2>3. term' = Tm("text", <<>>, Term!T!Shown(s, c, 62), Term!T!Right(c, 62))
    BY <1>1, <2>2, ReadsText
  <2>4. /\ term.reads = "text" /\ term'.reads = "text"
        /\ term'.screen = Term!T!Shown(term.screen, term.cursor, 62)
        /\ term'.cursor = Term!T!Right(term.cursor, 62)
    BY <2>2, <2>3, TermFields
  <2>5. Term!Waiting = "text" /\ Term!Waiting' = "text" BY <1>1, <2>1, <2>4 DEF Term!Waiting
  <2>6. Term!RowWaiting = 0 /\ Term!RowWaiting' = 0 BY <1>1, <2>1 DEF Term!RowWaiting
  <2> QED BY <1>1, <2>4, <2>5, <2>6 DEF Term!T!Text, Term!T!ESC, Term!T!SUB
<1> QED BY <1>3, <1>4 DEF Term!T!Write

(* The command vt.                                                           *)
LEMMA ModeStep ==
  ASSUME Term!TerminalAssumption, TermInv, NEW on \in BOOLEAN, Term!VtMode(on)
  PROVE  TermInv' /\ (~ broken' => Term!T!Mode(~ on))
<1>1. /\ ~ running /\ vt_cnv' = (IF on THEN IF efi THEN 2 ELSE 1 ELSE 0)
      /\ UNCHANGED <<efi, esc, row, running, term, broken>>
  BY DEF Term!VtMode
<1>2. InText(term) BY <1>1 DEF TermInv, Held
<1>3. TermInv'
  <2>1. Settled' BY <1>1 DEF TermInv, Settled, Term!TerminalAssumption
  <2>2. Held' BY <1>1, <1>2 DEF Held, InText
  <2>3. Whole'
    <3>1. ~ broken => esc = 0 BY <1>1 DEF TermInv, Whole
    <3>2. ~ broken' => esc' = 0 /\ esc' # 3 BY <1>1, <3>1
    <3> QED BY <3>2, Zenon DEF Whole
  <2> QED BY <2>1, <2>2, <2>3 DEF TermInv
<1>4. ASSUME ~ broken' PROVE Term!T!Mode(~ on)
  <2>1. esc = 0 BY <1>1, <1>4 DEF TermInv, Whole
  <2>2. term.reads = "text" BY <1>2, TermFields DEF InText
  <2>3. Term!Waiting = "text" /\ Term!Waiting' = "text" BY <1>1, <2>1, <2>2 DEF Term!Waiting
  <2>4. Term!RowWaiting = 0 /\ Term!RowWaiting' = 0 BY <1>1, <2>1 DEF Term!RowWaiting
  <2>5. (vt_cnv' = 0) = ~ on BY <1>1
  <2> QED BY <1>1, <2>3, <2>4, <2>5 DEF Term!T!Mode
<1> QED BY <1>3, <1>4

(* A program starts: the screen is as it was.                                *)
LEMMA BootStep ==
  ASSUME TermInv, Term!Boot
  PROVE  TermInv' /\ UNCHANGED Term!T!svars
<1>1. ~ running /\ running' = TRUE /\ UNCHANGED <<efi, esc, row, vt_cnv, term, broken>>
  BY DEF Term!Boot
<1>2. TermInv' BY <1>1 DEF TermInv, Settled, Held, Whole, InText, InNumber
<1>3. UNCHANGED Term!T!svars
  BY <1>1 DEF Term!T!svars, Term!Waiting, Term!RowWaiting, Term!Number
<1> QED BY <1>2, <1>3

(* A byte written to port 1 is what the screen promises for it.              *)
LEMMA OutStep ==
  ASSUME Term!TerminalAssumption, TermInv, NEW val \in Bytes, Term!Out(val)
  PROVE  TermInv' /\ (~ broken' => Term!T!Write(val))
BY EscapeStep, RowStep, ColumnStep, CharacterStep DEF Term!Out

-------------------------------------------------------------------------------
(* Every step of the terminal keeps its invariant.                           *)
LEMMA TermStep ==
  ASSUME Term!TerminalAssumption
  PROVE  TermInv /\ [Term!Next]_(Term!vars) => TermInv'
<1> SUFFICES ASSUME TermInv, [Term!Next]_(Term!vars) PROVE TermInv'
  OBVIOUS
<1>1. ASSUME NEW val \in Bytes, Term!Out(val) PROVE TermInv'
  BY <1>1, OutStep
<1>2. CASE Term!Halt BY <1>2, HaltStep
<1>3. ASSUME NEW on \in BOOLEAN, Term!VtMode(on) PROVE TermInv'
  BY <1>3, ModeStep
<1>4. CASE Term!Boot BY <1>4, BootStep
<1>5. CASE UNCHANGED Term!vars
  BY <1>5 DEF Term!vars, TermInv, Settled, Held, Whole, InText, InNumber
<1> QED BY <1>1, <1>2, <1>3, <1>4, <1>5 DEF Term!Next

(* Every behaviour of the terminal keeps its invariant.                      *)
LEMMA TermInvariant ==
  ASSUME Term!TerminalAssumption
  PROVE  Term!Spec => []TermInv
<1>1. Term!Init => TermInv BY TermInitially
<1>2. TermInv /\ [Term!Next]_(Term!vars) => TermInv' BY TermStep
<1> QED BY <1>1, <1>2, PTL DEF Term!Spec

(* The cursor stays on the screen, and the terminal holds one number of 16   *)
(* bits at most (out, con_putnum_u16).                                       *)
LEMMA TermTyping ==
  ASSUME Term!TerminalAssumption
  PROVE  Term!Spec => []Term!TypeOK
<1>1. TermInv => Term!TypeOK
  <2> SUFFICES ASSUME TermInv PROVE Term!TypeOK
    OBVIOUS
  <2>1. CASE InText(term)
    <3>1. PICK s \in Screens, c \in Term!T!Places : term = Tm("text", <<>>, s, c)
      BY <2>1 DEF InText
    <3>2. term.cursor \in Term!T!Places /\ term.reads = "text" /\ term.params = <<>>
      BY <3>1, TermFields
    <3> QED BY <3>2 DEF TermInv, Settled, Term!TypeOK
  <2>2. CASE InNumber(term)
    <3>1. PICK s \in Screens, c \in Term!T!Places, n \in Words : term = Tm("control", <<n>>, s, c)
      BY <2>2 DEF InNumber
    <3>2. term.cursor \in Term!T!Places /\ term.reads = "control" /\ term.params = <<n>>
      BY <3>1, TermFields
    <3>3. /\ Len(term.params) = 1
          /\ \A i \in DOMAIN term.params : term.params[i] \in 0..Term!UINT16_MAX
      <4>1. PICK q : q = <<n>> OBVIOUS
      <4>2. Len(q) = 1 /\ DOMAIN q = {1} /\ q[1] = n BY <4>1
      <4>3. \A i \in DOMAIN q : q[i] \in Words BY <4>2
      <4> QED BY <3>2, <4>1, <4>2, <4>3 DEF Words
    <3> QED BY <3>2, <3>3 DEF TermInv, Settled, Term!TypeOK
  <2> QED BY <2>1, <2>2 DEF TermInv, Held
<1> QED BY <1>1, TermInvariant, PTL

(* A step shows what the screen promises for it.                             *)
Shows ==
  ~ broken' =>
    /\ \A val \in Bytes : Term!Out(val) => Term!T!Write(val)
    /\ Term!Halt => Term!T!Write(62)
    /\ \A on \in BOOLEAN : Term!VtMode(on) => Term!T!Mode(~ on)
    /\ Term!Boot => UNCHANGED Term!T!svars

(* The terminal implements the screen, outside of what a program that halts  *)
(* inside a sequence leaves (out, machine.c).                                *)
LEMMA ScreenShown ==
  ASSUME Term!TerminalAssumption
  PROVE  Term!Spec => Term!ImplementsScreen
<1>1. TermInv => Shows
  <2> SUFFICES ASSUME TermInv, ~ broken'
      PROVE  /\ \A val \in Bytes : Term!Out(val) => Term!T!Write(val)
             /\ Term!Halt => Term!T!Write(62)
             /\ \A on \in BOOLEAN : Term!VtMode(on) => Term!T!Mode(~ on)
             /\ Term!Boot => UNCHANGED Term!T!svars
    BY DEF Shows
  <2> QED BY OutStep, HaltStep, ModeStep, BootStep
<1>2. Term!Init => Term!T!SInit BY TermInitially
<1> QED BY <1>1, <1>2, TermInvariant, PTL DEF Term!Spec, Term!ImplementsScreen, Shows

-----------------------------------------------------------------------------
(* The whole invariant: of the processor, of the arithmetic, of the stack.   *)
ProgramsInv == CpuInv /\ AluInv /\ Remembered

(* Every program keeps it.                                                   *)
LEMMA Invariant == ProgramsSpec => []ProgramsInv
<1>1. ProgramsInit => ProgramsInv
  <2>1. ProgramsInit => pushed = <<>> BY DEF ProgramsInit, MCInit
  <2>2. pushed = <<>> => Remembered BY DEF Remembered
  <2> QED BY <2>1, <2>2, ProgramsAssumption, CpuAssumption, Started DEF ProgramsInv
<1>2. ProgramsInv /\ [ProgramsNext]_<<part, cpuv, aluv, termv>> => ProgramsInv'
  BY ProgramsAssumption, CpuAssumption, Parts, CpuKept, AluKept, StillRemembered DEF ProgramsInv
<1> QED BY <1>1, <1>2, PTL DEF ProgramsSpec

(* The registers, the stack pointer and the program counter keep their       *)
(* width, memory holds bytes at word addresses, and the emulator stops with  *)
(* one of its own results, whatever the program (cpu_8080.c).                *)
THEOREM WidthsKept == ProgramsSpec => []TypeOK
<1>1. ProgramsInv => TypeOK BY NamesDef DEF ProgramsInv, CpuInv, TypeOK
<1> QED BY <1>1, Invariant, PTL

(* For every accumulator, every flags and every operand, the emulator in C   *)
(* and the one of the AVR compute the same result and the same flags, DAA    *)
(* aside (cpu_8080.c:113-160, i8080.S).                                      *)
THEOREM SameResults == ProgramsSpec => []EmulatorsAgree
<1>1. ProgramsInv => EmulatorsAgree
  BY ProgramsAssumption, AluAgrees DEF ProgramsInv, EmulatorsAgree
<1> QED BY <1>1, Invariant, PTL

(* An instruction stores only the bytes its opcode names, moves the stack    *)
(* pointer only if it is a stack instruction, and is followed by the next    *)
(* instruction unless it transfers control (cpu_8080.c), in every program.   *)
THEOREM NothingElseTouched == ProgramsSpec => Framed
<1>1. ProgramsInv =>
        [Step =>
          /\ \A n \in DOMAIN mem \cup DOMAIN mem' :
               n \notin Targets => n \in DOMAIN mem /\ n \in DOMAIN mem' /\ mem'[n] = mem[n]
          /\ sp' # sp => Op \in StackOps
          /\ pc' \in {W(pc + InstructionLength)} \cup Destinations]_vars
  BY StepFramed DEF ProgramsInv, FrameOf, Untouched
<1> QED BY <1>1, Invariant, PTL DEF Framed

(* What POP, RET and XTHL take is the word that PUSH, CALL, RST or XTHL put  *)
(* there, unless an instruction has stored to it: whatever the program, and  *)
(* wherever the stack wraps (cpu_8080.c:206-245).                            *)
THEOREM WordsReturn == ProgramsSpec => WordsComeBack
<1>1. ProgramsInv =>
        [(Step /\ Taken /\ sp \in DOMAIN pushed) => WordTaken = pushed[sp]]_<<vars, pushed>>
  BY TakenWord DEF ProgramsInv, Remembered
<1> QED BY <1>1, Invariant, PTL DEF WordsComeBack

(* Every behaviour of the whole is one of the terminal.                      *)
LEMMA TermSteps == ProgramsSpec => Term!Spec
<1>1. ProgramsInit => Term!Init BY DEF ProgramsInit
<1>2. [ProgramsNext]_<<part, cpuv, aluv, termv>> => [Term!Next]_(Term!vars)
  BY DEF ProgramsNext, termv, Term!vars
<1> QED BY <1>1, <1>2, PTL DEF ProgramsSpec, Term!Spec

(* Whatever programs run and write, the registers and the memory keep their  *)
(* width (cpu_8080.c), the cursor stays on the screen and the terminal holds *)
(* one number of 16 bits at most (out and con_putnum_u16, machine.c).        *)
THEOREM ProgramsTyping == ProgramsSpec => []ProgramsTypeOK
<1>1. Term!TerminalAssumption BY ProgramsAssumption
<1>2. Term!Spec => []Term!TypeOK BY <1>1, TermTyping
<1> QED BY <1>2, TermSteps, WidthsKept, PTL DEF ProgramsTypeOK

(* On a VT100, on the console of UEFI and without conversion, for a screen   *)
(* of any size: the terminal shows what the program asked for, through the   *)
(* digits sent for a cursor address and the bytes lost inside one, until a   *)
(* program halts inside a sequence (out, machine.c).                         *)
THEOREM ScreenKept == ProgramsSpec => ImplementsScreen
<1>1. Term!TerminalAssumption BY ProgramsAssumption
<1>2. Term!Spec => Term!ImplementsScreen BY <1>1, ScreenShown
<1> QED BY <1>2, TermSteps, PTL DEF ImplementsScreen
===============================================================================
