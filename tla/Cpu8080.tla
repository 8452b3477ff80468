------------------------------ MODULE Cpu8080 ------------------------------
(* cpu_8080.c, the 8080 emulator of every build but the AVR's, as boot() in  *)
(* machine.c runs it: the image is loaded, the registers are cleared and     *)
(* cpu_8080_step executes one instruction at a time until a HLT or an        *)
(* instruction that does not exist.                                          *)
(*                                                                           *)
(* The switch of the source has a case for each opcode; the cases of a class *)
(* differ in the registers only, which opcode bits 3-5 (y), 4-5 (p) and 0-2  *)
(* (z) name, and are one action here.  Memory holds the bytes written so     *)
(* far; the others are 0.                                                    *)
EXTENDS Alu8080, Sequences

CONSTANTS
    Images,     \* what boot() may leave in the bytes it loads
    Answers,    \* bytes in() returns
    MaxSteps    \* bound on the instructions executed

VARIABLES
    image,      \* the system tracks of the disk, as boot() loads them
    r,          \* the eight-bit registers of cpu_8080_work
    sp, pc,
    mem,        \* what load_8 and store_8 reach
    io,         \* the last port read or written: <<"in" or "out", port, value>>
    status,     \* what cpu_8080_step returned last; 0 while the machine runs
    steps       \* instructions executed

(* Memory is of bytes, at word addresses.                                    *)
IsMemory(m) == \A n \in DOMAIN m : n \in Word /\ m[n] \in Byte

ASSUME CpuAssumption ==
    Answers \subseteq Byte /\ MaxSteps \in Nat /\ \A m \in Images : IsMemory(m)

vars == <<image, r, sp, pc, mem, io, status, steps>>

Registers == [b |-> 0, c |-> 0, d |-> 0, e |-> 0, h |-> 0, l |-> 0, a |-> 0, f |-> 0]
HALT == 1
Illegal == {8, 16, 24, 32, 40, 48, 56, 203, 217, 221, 237, 253}

Load(a) == IF W(a) \in DOMAIN mem THEN mem[W(a)] ELSE 0
Stored(m, a, v) == [n \in DOMAIN m \cup {W(a)} |-> IF n = W(a) THEN v ELSE m[n]]

Op == Load(pc)
y == (Op \div 8) % 8
p == (Op \div 16) % 4
z == Op % 8
Imm8 == Load(pc + 1)
Imm16 == Pair(Load(pc + 2), Load(pc + 1))

(* Register y or z of the opcode; 6 is the byte HL points at.                *)
Code == <<"b", "c", "d", "e", "h", "l", "m", "a">>
HL == Pair(r.h, r.l)
Operand(i) == IF i = 6 THEN Load(HL) ELSE r[Code[i + 1]]
Into(i, v, regs) == IF i = 6 THEN regs ELSE [regs EXCEPT ![Code[i + 1]] = v]
Beside(i, v) == IF i = 6 THEN Stored(mem, HL, v) ELSE mem

(* Register pairs: BC, DE, HL, and SP or the accumulator with the flags.     *)
High == <<"b", "d", "h", "a">>
Low == <<"c", "e", "l", "f">>
PairOf(i) == Pair(r[High[i + 1]], r[Low[i + 1]])
Put(i, w) == [r EXCEPT ![High[i + 1]] = Hi(w), ![Low[i + 1]] = Lo(w)]
WordOf(i) == IF i = 3 THEN sp ELSE PairOf(i)

(* The two bytes of w in memory, the low one first: SHLD, and the pushes.    *)
StoredWord(a, w) == Stored(Stored(mem, a, Lo(w)), a + 1, Hi(w))
LoadWord(a) == Pair(Load(a + 1), Load(a))

(* The end of a case: what the instruction leaves in the registers, in SP,   *)
(* PC and memory.                                                            *)
Leaves(regs, stack, next, memory) ==
    /\ r' = regs /\ sp' = W(stack) /\ pc' = W(next) /\ mem' = memory
    /\ UNCHANGED <<image, io, status>>

Regs(regs, length) == Leaves(regs, sp, pc + length, mem)
Acc(res, length) == Regs([r EXCEPT !.a = res.a, !.f = res.f], length)

Running == status = 0 /\ steps < MaxSteps /\ steps' = steps + 1

----------------------------------------------------------------------------
(* Loads, stores and moves                                                   *)

NOP == Op \in {0, 243, 251} /\ Regs(r, 1)       \* NOP, DI, EI

LXI ==
    /\ Op < 64 /\ z = 1 /\ ~ Has(Op, 8)
    /\ IF p = 3 THEN Leaves(r, Imm16, pc + 3, mem) ELSE Regs(Put(p, Imm16), 3)

STAX == Op \in {2, 18} /\ Leaves(r, sp, pc + 1, Stored(mem, PairOf(p), r.a))
LDAX == Op \in {10, 26} /\ Regs([r EXCEPT !.a = Load(PairOf(p))], 1)
STA == Op = 50 /\ Leaves(r, sp, pc + 3, Stored(mem, Imm16, r.a))
LDA == Op = 58 /\ Regs([r EXCEPT !.a = Load(Imm16)], 3)
SHLD == Op = 34 /\ Leaves(r, sp, pc + 3, StoredWord(Imm16, HL))
LHLD == Op = 42 /\ Regs(Put(2, LoadWord(Imm16)), 3)

MVI ==
    /\ Op < 64 /\ z = 6
    /\ Leaves(Into(y, Imm8, r), sp, pc + 2, Beside(y, Imm8))

MOV ==
    /\ Op \in 64..127 \ {118}
    /\ Leaves(Into(y, Operand(z), r), sp, pc + 1, Beside(y, Operand(z)))

XCHG ==
    /\ Op = 235
    /\ Regs([r EXCEPT !.h = r.d, !.l = r.e, !.d = r.h, !.e = r.l], 1)

(* XTHL exchanges HL with the word on the stack, byte by byte.               *)
XTHL == Op = 227 /\ Leaves(Put(2, LoadWord(sp)), sp, pc + 1, StoredWord(sp, HL))

SPHL == Op = 249 /\ Leaves(r, HL, pc + 1, mem)

----------------------------------------------------------------------------
(* Arithmetic                                                                *)

(* Counts in a word wider than the pair.                                     *)
CountWordWide ==
    /\ Op < 64 /\ z = 3
    /\ LET w == WordOf(p) + (IF Has(Op, 8) THEN -1 ELSE 1)
       IN  IF p = 3 THEN Leaves(r, w, pc + 1, mem) ELSE Regs(Put(p, w), 1)

(* INX and DCX: no flags.                                                    *)
CountWord ==
    /\ Op < 64 /\ z = 3
    /\ LET w == W(WordOf(p) + (IF Has(Op, 8) THEN -1 ELSE 1))
       IN  IF p = 3 THEN Leaves(r, w, pc + 1, mem) ELSE Regs(Put(p, w), 1)

DAD ==
    /\ Op < 64 /\ z = 1 /\ Has(Op, 8)
    /\ LET s == dad(HL, r.f, WordOf(p))
       IN  Regs([Put(2, s.w) EXCEPT !.f = s.f], 1)

(* INR and DCR.                                                              *)
CountByte ==
    /\ Op < 64 /\ z \in {4, 5}
    /\ LET s == IF z = 4 THEN inr(Operand(y), r.f) ELSE dcr(Operand(y), r.f)
       IN  Leaves([Into(y, s.a, r) EXCEPT !.f = s.f], sp, pc + 1, Beside(y, s.a))

(* RLC, RRC, RAL, RAR, DAA, CMA, STC, CMC.                                   *)
Accumulator == Op < 64 /\ z = 7 /\ Acc(OnAccumulator(y, r.a, r.f), 1)

(* ADD to CMP with a register or the byte HL points at.                      *)
Alu == Op \in 128..191 /\ Acc(Arithmetic(y, r.a, r.f, Operand(z)), 1)

(* ADI to CPI.                                                               *)
AluImmediate == Op >= 192 /\ z = 6 /\ Acc(Arithmetic(y, r.a, r.f, Imm8), 2)

----------------------------------------------------------------------------
(* Jumps, calls and the stack                                                *)

(* NZ, Z, NC, C, PO, PE, P, M.                                               *)
Condition == Has(r.f, <<F_Z, F_CY, F_P, F_S>>[(y \div 2) + 1]) <=> y % 2 = 1

(* The return address is read after the target, so it is past the operand.   *)
CallTo(target, back) == Leaves(r, sp - 2, target, StoredWord(sp - 2, W(back)))

Returns == Leaves(r, sp + 2, LoadWord(sp), mem)

(* A jump that is not taken falls into its operand.                          *)
JumpIfShort ==
    /\ Op >= 192 /\ z = 2
    /\ Leaves(r, sp, IF Condition THEN Imm16 ELSE pc + 1, mem)

JMP == Op = 195 /\ Leaves(r, sp, Imm16, mem)

JumpIf ==
    /\ Op >= 192 /\ z = 2
    /\ Leaves(r, sp, IF Condition THEN Imm16 ELSE pc + 3, mem)

(* Saves PC before it has read the target.                                   *)
CallEarly == Op = 205 /\ CallTo(Imm16, pc + 1)

CALL == Op = 205 /\ CallTo(Imm16, pc + 3)

CallIf ==
    /\ Op >= 192 /\ z = 4
    /\ IF Condition THEN CallTo(Imm16, pc + 3) ELSE Regs(r, 3)
RST == Op >= 192 /\ z = 7 /\ CallTo(8 * y, pc + 1)

RET == Op = 201 /\ Returns
ReturnIf == Op >= 192 /\ z = 0 /\ (IF Condition THEN Returns ELSE Regs(r, 1))

PCHL == Op = 233 /\ Leaves(r, sp, HL, mem)

(* PUSH PSW sets bit 1 of the flags it stores; POP PSW takes what it finds.  *)
PUSH ==
    /\ Op >= 192 /\ z = 5 /\ ~ Has(Op, 8)
    /\ LET w == IF p = 3 THEN Pair(r.a, With(r.f, 2)) ELSE PairOf(p)
       IN  Leaves(r, sp - 2, pc + 1, StoredWord(sp - 2, w))
POP ==
    /\ Op >= 192 /\ z = 1 /\ ~ Has(Op, 8)
    /\ Leaves(Put(p, LoadWord(sp)), sp + 2, pc + 1, mem)

----------------------------------------------------------------------------
(* Ports, HLT and what does not exist                                        *)

(* The controller behind port 13 may write the memory: that is Fdc's part,   *)
(* and left out here.                                                        *)
OutPort ==
    /\ Op = 211
    /\ io' = <<"out", Imm8, r.a>> /\ pc' = W(pc + 2)
    /\ UNCHANGED <<image, r, sp, mem, status>>
InPort ==
    /\ Op = 219
    /\ \E v \in Answers : io' = <<"in", Imm8, v>> /\ r' = [r EXCEPT !.a = v]
    /\ pc' = W(pc + 2) /\ UNCHANGED <<image, sp, mem, status>>

Stops(result) ==
    /\ status' = result /\ pc' = W(pc + 1)
    /\ UNCHANGED <<image, r, sp, mem, io>>
HLT == Op = 118 /\ Stops(HALT)
IllegalOp == Op \in Illegal /\ Stops(Op - 256)

----------------------------------------------------------------------------
Move == LXI \/ STAX \/ LDAX \/ STA \/ LDA \/ SHLD \/ LHLD \/ MVI \/ MOV \/ XCHG \/ XTHL \/ SPHL
Compute == CountWord \/ DAD \/ CountByte \/ Accumulator \/ Alu \/ AluImmediate
Transfer == JMP \/ JumpIf \/ CALL \/ CallIf \/ RST \/ RET \/ ReturnIf \/ PCHL \/ PUSH \/ POP

(* cpu_8080_step                                                             *)
Step == Running /\ (NOP \/ Move \/ Compute \/ Transfer \/ OutPort \/ InPort \/ HLT \/ IllegalOp)

(* What boot() writes: the thirteen sectors of the system, and page zero.    *)
LoadedBytes == 0..255 \cup 58240..64895

(* cpu_8080_reset and the loading of the system in boot(), which the monitor *)
(* may do again once the machine has stopped; the rest of memory stays.      *)
Boot ==
    /\ status # 0
    /\ r' = Registers /\ sp' = 65535 /\ pc' = 0 /\ status' = 0
    /\ mem' = [n \in DOMAIN image \cup (DOMAIN mem \ LoadedBytes) |->
                 IF n \in DOMAIN image THEN image[n] ELSE mem[n]]
    /\ UNCHANGED <<image, io, steps>>

Reset == r = Registers /\ sp = 65535 /\ pc = 0 /\ status = 0 /\ io = <<>> /\ steps = 0
Init == image \in Images /\ mem = image /\ Reset

Next == Step \/ Boot
Spec == Init /\ [][Next]_vars

(* Every register keeps its width: no sum, shift or word leaves it.          *)
TypeOK ==
    /\ \A x \in DOMAIN Registers : r[x] \in Byte
    /\ sp \in Word /\ pc \in Word
    /\ IsMemory(mem)
    /\ status \in {0, HALT} \cup {n - 256 : n \in Illegal}
=============================================================================
