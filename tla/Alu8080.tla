------------------------------ MODULE Alu8080 ------------------------------
(* The arithmetic of the two 8080 emulators.  cpu_8080.c computes a result   *)
(* in bytes and recovers the flags from it by comparisons; i8080.S, the      *)
(* emulator of the AVR builds, lets the AVR's own adder set carry and half   *)
(* carry and copies them.  Both are functions of the accumulator a, the      *)
(* flag byte f and an operand, and return both registers.                    *)
EXTENDS Integers

UINT8_MAX == 255
UINT16_MAX == 65535
Byte == 0..UINT8_MAX
Word == 0..UINT16_MAX

F_CY == 1
F_P  == 4
F_AC == 16
F_Z  == 64
F_S  == 128

B(n) == n % 256
W(n) == n % 65536

(* Bits of a byte.                                                           *)
Has(x, bit) == (x \div bit) % 2 = 1
With(x, bit) == IF Has(x, bit) THEN x ELSE x + bit
Without(x, bit) == IF Has(x, bit) THEN x - bit ELSE x
On(cond, bit) == IF cond THEN bit ELSE 0
Combined(x, y, Op(_, _)) ==
    LET Bit(n) == On(Op(Has(x, n), Has(y, n)), n)
    IN  Bit(1) + Bit(2) + Bit(4) + Bit(8) + Bit(16) + Bit(32) + Bit(64) + Bit(128)

Pair(hi, lo) == (hi * 256) + lo
Hi(w) == w \div 256
Lo(w) == w % 256

Result(a, f) == [a |-> a, f |-> f]

----------------------------------------------------------------------------
(* cpu_8080.c                                                                *)

(* The parity of a nibble: 1 when it holds an even number of ones.           *)
tbl_par == <<1, 0, 0, 1, 0, 1, 1, 0, 0, 1, 1, 0, 1, 0, 0, 1>>

flag_zsp(v) ==
    On(v = 0, F_Z) + On(Has(v, F_S), F_S)
      + On(tbl_par[(v % 16) + 1] + tbl_par[(v \div 16) + 1] # 1, F_P)

(* f &= F_CY, then the half carry of the step and the flags of the result.   *)
Stepped(f, v, nibble) == (f % 2) + On(v % 16 = nibble, F_AC) + flag_zsp(v)

inr(v, f) == Result(B(v + 1), Stepped(f, B(v + 1), 0))
dcr(v, f) == Result(B(v - 1), Stepped(f, B(v - 1), 15))

adc(a, f, v) ==
    LET c == f % 2
        r == B(a + v + c)
    IN  Result(r, On(r < a + c, F_CY) + On(r % 16 < (a % 16) + c, F_AC) + flag_zsp(r))

add(a, f, v) == adc(a, 0, v)

(* Compares with the accumulator alone, as sub may.                          *)
SbbForgetsBorrow(a, f, v) ==
    LET r == B(a - v - (f % 2))
    IN  Result(r, On(r > a, F_CY) + On(r % 16 > a % 16, F_AC) + flag_zsp(r))

sbb(a, f, v) ==
    LET c == f % 2
        r == B(a - v - c)
    IN  Result(r, On(r > a - c, F_CY) + On(r % 16 > (a % 16) - c, F_AC) + flag_zsp(r))

sub(a, f, v) == sbb(a, 0, v)

ana(a, f, v) ==
    LET r == Combined(a, v, LAMBDA x, y : x /\ y) IN Result(r, F_AC + flag_zsp(r))
xra(a, f, v) ==
    LET r == Combined(a, v, LAMBDA x, y : x # y) IN Result(r, flag_zsp(r))
ora(a, f, v) ==
    LET r == Combined(a, v, LAMBDA x, y : x \/ y) IN Result(r, flag_zsp(r))
cmp(a, f, v) == Result(a, sub(a, f, v).f)

(* DAA corrects the two digits one beside the other: the carry the low       *)
(* digit's correction makes reaches the high digit only in the sum.          *)
daa(a, f) ==
    LET low == (a % 16) > 9 \/ Has(f, F_AC)
        high == (a \div 16) > 9 \/ Has(f, F_CY)
        l == (a % 16) + On(low, 6)
        h == (a \div 16) + On(high, 6)
        r == B((h * 16) + l)
        kept == Without(Without(Without(f, F_Z), F_S), F_P)
        carried == IF high THEN With(kept, F_CY) ELSE Without(kept, F_CY)
    IN  Result(r, (IF low THEN With(carried, F_AC) ELSE Without(carried, F_AC)) + flag_zsp(r))

(* DAD: a 16-bit sum whose wrap is its carry.                                *)
dad(hl, f, w) ==
    LET r == W(hl + w)
    IN  [w |-> r, f |-> IF r < hl THEN With(f, F_CY) ELSE Without(f, F_CY)]

WithCarry(f, cond) == IF cond THEN With(f, F_CY) ELSE Without(f, F_CY)

rlc(a, f) == Result(B(a * 2) + (a \div 128), WithCarry(f, Has(a, 128)))
rrc(a, f) == Result((a \div 2) + ((a % 2) * 128), WithCarry(f, Has(a, 1)))
ral(a, f) == Result(B(a * 2) + (f % 2), WithCarry(f, Has(a, 128)))
rar(a, f) == Result((a \div 2) + ((f % 2) * 128), WithCarry(f, Has(a, 1)))
cma(a, f) == Result(255 - a, f)
stc(a, f) == Result(a, With(f, F_CY))
cmc(a, f) == Result(a, WithCarry(f, ~ Has(f, F_CY)))

(* Opcode bits 3 to 5 choose the operation, for 80-bf and for c6..fe alike,  *)
(* and for the accumulator operations 07..3f.                                *)
Arithmetic(y, a, f, v) ==
    CASE y = 0 -> add(a, f, v) [] y = 1 -> adc(a, f, v)
      [] y = 2 -> sub(a, f, v) [] y = 3 -> sbb(a, f, v)
      [] y = 4 -> ana(a, f, v) [] y = 5 -> xra(a, f, v)
      [] y = 6 -> ora(a, f, v) [] y = 7 -> cmp(a, f, v)

OnAccumulator(y, a, f) ==
    CASE y = 0 -> rlc(a, f) [] y = 1 -> rrc(a, f) [] y = 2 -> ral(a, f)
      [] y = 3 -> rar(a, f) [] y = 4 -> daa(a, f) [] y = 5 -> cma(a, f)
      [] y = 6 -> stc(a, f) [] y = 7 -> cmc(a, f)

----------------------------------------------------------------------------
(* i8080.S                                                                   *)

(* par_set shifts the result out and counts its ones.                        *)
NibbleOnes(n) == (n % 2) + ((n \div 2) % 2) + ((n \div 4) % 2) + ((n \div 8) % 2)
par_set(r) == On((NibbleOnes(r % 16) + NibbleOnes(r \div 16)) % 2 = 0, F_P)

(* add_comp, sub_comp, cmp_comp: the flags of the AVR after the operation.   *)
comp(carry, half, r) ==
    On(carry, F_CY) + On(half, F_AC) + On(r = 0, F_Z) + On(r > 127, F_S) + par_set(r)

(* The AVR's adc and sbc, with the carry they are given.                     *)
SumAvr(a, v, c) ==
    Result(B(a + v + c), comp(a + v + c > 255, (a % 16) + (v % 16) + c > 15, B(a + v + c)))
DifferenceAvr(a, v, c) ==
    Result(B(a - v - c), comp(a < v + c, a % 16 < (v % 16) + c, B(a - v - c)))

ArithmeticAvr(y, a, f, v) ==
    CASE y = 0 -> SumAvr(a, v, 0) [] y = 1 -> SumAvr(a, v, f % 2)
      [] y = 2 -> DifferenceAvr(a, v, 0) [] y = 3 -> DifferenceAvr(a, v, f % 2)
      [] y = 4 -> LET r == ana(a, f, v).a IN Result(r, comp(FALSE, TRUE, r))
      [] y = 5 -> LET r == xra(a, f, v).a IN Result(r, comp(FALSE, FALSE, r))
      [] y = 6 -> LET r == ora(a, f, v).a IN Result(r, comp(FALSE, FALSE, r))
      [] y = 7 -> Result(a, DifferenceAvr(a, v, 0).f)

(* inr_comp and dcr_comp keep the carry of f.                                *)
inrAvr(v, f) == Result(B(v + 1), comp(Has(f, F_CY), B(v + 1) % 16 = 0, B(v + 1)))
dcrAvr(v, f) == Result(B(v - 1), comp(Has(f, F_CY), B(v - 1) % 16 = 15, B(v - 1)))

(* DAA corrects the low digit in place and looks at the byte that gives: a   *)
(* carry out of the byte is forgotten.                                       *)
daa_op(a, f) ==
    LET low == (a % 16) >= 10 \/ Has(f, F_AC)
        mid == IF low THEN B(a + 6) ELSE a
        high == mid >= 160 \/ Has(f, F_CY)
        r == IF high THEN B(mid + 96) ELSE mid
        other == (f % 64) - On(Has(f, F_CY), F_CY) - On(Has(f, F_AC), F_AC)
                   - On(Has(f, F_P), F_P)
    IN  Result(r, other + comp(high, low, r))

(* add l, c ; adc h, b: byte by byte, the carry of the high byte is kept.    *)
dadAvr(hl, f, w) ==
    LET low == Lo(hl) + Lo(w)
        high == Hi(hl) + Hi(w) + On(low > 255, 1)
    IN  [w |-> Pair(B(high), B(low)), f |-> WithCarry(f, high > 255)]

(* rol and ror through the AVR's carry, which rlc and rrc load first.        *)
RolAvr(a, f, in) == Result(B((2 * a) + in), WithCarry(f, (2 * a) + in > 255))
RorAvr(a, f, in) == Result(((256 * in) + a) \div 2, WithCarry(f, a % 2 = 1))

OnAccumulatorAvr(y, a, f) ==
    CASE y = 0 -> RolAvr(a, f, On(a > 127, 1)) [] y = 1 -> RorAvr(a, f, a % 2)
      [] y = 2 -> RolAvr(a, f, f % 2) [] y = 3 -> RorAvr(a, f, f % 2)
      [] y = 4 -> daa_op(a, f) [] y = 5 -> Result(255 - a, f)
      [] y = 6 -> Result(a, With(f, F_CY))
      [] y = 7 -> Result(a, Combined(f, F_CY, LAMBDA p, q : p # q))
=============================================================================
