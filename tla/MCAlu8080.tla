----------------------------- MODULE MCAlu8080 -----------------------------
(* The accumulator and the flags under every sequence of arithmetic          *)
(* instructions, of the emulator in C (CPU_EMU_C) or of the AVR's, with the  *)
(* invariants that compare the two and compare DAA with decimal arithmetic.  *)
EXTENDS Alu8080

CONSTANTS
    CPU_EMU_C,      \* TRUE: cpu_8080.c executes; FALSE: i8080.S
    Operands        \* bytes the program adds, subtracts, ...

VARIABLES a, f

vars == <<a, f>>

Init == a = 0 /\ f = 0

(* ADD, ADC, SUB, SBB, ANA, XRA, ORA, CMP and their immediate forms.         *)
Compute(y, v) ==
    LET r == IF CPU_EMU_C THEN Arithmetic(y, a, f, v) ELSE ArithmeticAvr(y, a, f, v)
    IN  a' = r.a /\ f' = r.f

(* RLC, RRC, RAL, RAR, DAA, CMA, STC, CMC.                                    *)
Adjust(y) ==
    LET r == IF CPU_EMU_C THEN OnAccumulator(y, a, f) ELSE OnAccumulatorAvr(y, a, f)
    IN  a' = r.a /\ f' = r.f

(* INR A, DCR A.                                                             *)
Count ==
    \E r \in {inr(a, f), dcr(a, f)} : a' = r.a /\ f' = r.f

Next ==
    \/ \E y \in 0..7, v \in Operands : Compute(y, v)
    \/ \E y \in 0..7 : Adjust(y)
    \/ Count

Spec == Init /\ [][Next]_vars

----------------------------------------------------------------------------
(* Operands at the boundaries, and one for each pair of digits a place of    *)
(* the accumulator, which takes every value, can meet there.                 *)
Probes == Operands \cup {v \in Byte : v % 17 = 0}

(* Whatever the program has computed, the next arithmetic or rotate          *)
(* instruction gives the same accumulator and the same five flags in both    *)
(* emulators, for every operand: the carries cpu_8080.c recovers by          *)
(* comparing bytes (cpu_8080.c:113-160) are those of the AVR's adder.  DAA   *)
(* is left out: DecimalSums is about it.                                     *)
EmulatorsAgree ==
    /\ \A y \in 0..7, v \in Probes : Arithmetic(y, a, f, v) = ArithmeticAvr(y, a, f, v)
    /\ \A y \in 0..7 \ {4} : OnAccumulator(y, a, f) = OnAccumulatorAvr(y, a, f)
    /\ inr(a, f) = inrAvr(a, f) /\ dcr(a, f) = dcrAvr(a, f)
    /\ \A lo, hi \in Operands :
         dad(Pair(a, lo), f, Pair(hi, a)) = dadAvr(Pair(a, lo), f, Pair(hi, a))

Decimal(n) == ((n \div 10) * 16) + (n % 10)

(* ADD or ADC of two packed decimal bytes followed by DAA is the decimal     *)
(* sum, its hundreds in the carry (cpu_8080.c:390-407, i8080.S:729-750).     *)
DecimalSum(p, q, Daa(_, _)) ==
    LET s == add(Decimal(p), f, Decimal(q))
        d == Daa(s.a, s.f)
    IN  d.a = Decimal((p + q) % 100) /\ (Has(d.f, F_CY) <=> p + q > 99)
DecimalSums ==
    \A p, q \in 0..99 :
      a = Decimal(p) =>
        IF CPU_EMU_C THEN DecimalSum(p, q, daa) ELSE DecimalSum(p, q, daa_op)
=============================================================================
