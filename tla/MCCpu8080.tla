----------------------------- MODULE MCCpu8080 -----------------------------
(* Every program of a few instructions, run from the cold boot entry of the  *)
(* BIOS, with a record of the words it has put on the stack.                 *)
EXTENDS Cpu8080, SequencesExt, TLC

CONSTANT Length     \* instructions in a program

VARIABLE pushed     \* words put on the stack and not overwritten, by address

(* Page zero jumps to the BIOS at fa00 (machine.c:105-110).                  *)
PageZero == (0 :> 195) @@ (2 :> 250) @@ (5 :> 195) @@ (6 :> 6) @@ (7 :> 236)
ImageOf(bytes) == PageZero @@ [n \in 64000..(63999 + Len(bytes)) |-> bytes[n - 63999]]

(* Loads, stores and arithmetic.                                             *)
DataInstructions ==
    { <<33, 255, 0>>, <<1, 255, 255>>, <<17, 0, 251>>,          \* LXI H, B, D
      <<2>>, <<26>>, <<34, 255, 255>>, <<42, 254, 0>>,          \* STAX B, LDAX D, SHLD, LHLD
      <<50, 3, 250>>, <<58, 0, 0>>, <<54, 128>>, <<62, 153>>,   \* STA, LDA, MVI M, MVI A
      <<126>>, <<117>>, <<72>>, <<235>>,                        \* MOV A,M; MOV M,L; MOV C,B; XCHG
      <<35>>, <<27>>, <<41>>, <<52>>, <<61>>,                   \* INX H, DCX D, DAD H, INR M, DCR A
      <<23>>, <<134>>, <<222, 1>>,                              \* RAL, ADD M, SBI
      <<211, 1>>, <<219, 0>>, <<118>>, <<8>>, <<0>> }           \* OUT, IN, HLT, illegal, NOP

(* Jumps, calls and the stack.  LXI SP,1 puts the next word half at ffff     *)
(* and half at 0.                                                            *)
StackInstructions ==
    { <<49, 1, 0>>, <<33, 2, 250>>, <<249>>, <<51>>,            \* LXI SP, LXI H, SPHL, INX SP
      <<197>>, <<245>>, <<229>>, <<241>>, <<209>>, <<225>>,     \* PUSH B PSW H, POP PSW D H
      <<227>>, <<205, 3, 250>>, <<196, 1, 250>>, <<199>>,       \* XTHL, CALL, CNZ, RST 0
      <<201>>, <<208>>, <<202, 2, 250>>, <<195, 1, 250>>,       \* RET, RNC, JZ, JMP
      <<233>>, <<55>>, <<61>>, <<34, 254, 255>> }               \* PCHL, STC, DCR A, SHLD

Longer(programs, instructions) == {prog \o i : prog \in programs, i \in instructions}
Programs(instructions) == FoldLeft(Longer, {<<>>}, [n \in 1..Length |-> instructions])
MCImages ==
    {ImageOf(prog) : prog \in Programs(DataInstructions) \cup Programs(StackInstructions)}

----------------------------------------------------------------------------
(* What an instruction may touch, by opcode.                                 *)

Calls == {205} \cup {n \in Byte : n >= 192 /\ n % 8 \in {4, 7}}
ReturnsOps == {201} \cup {n \in Byte : n >= 192 /\ n % 8 = 0}
Pushes == {197, 213, 229, 245}
Pops == {193, 209, 225, 241}

InstructionLength ==
    IF Op \in {1, 17, 33, 49, 34, 42, 50, 58, 195, 205}
         \/ (Op >= 192 /\ Op % 8 \in {2, 4}) THEN 3
    ELSE IF Op \in {211, 219} \/ (Op < 64 /\ Op % 8 = 6) \/ (Op >= 192 /\ Op % 8 = 6)
    THEN 2 ELSE 1

(* The bytes of memory it stores.                                            *)
Targets ==
    CASE Op \in {2, 18} -> {PairOf(p)}
      [] Op = 50 -> {Imm16}
      [] Op = 34 -> {Imm16, W(Imm16 + 1)}
      [] Op \in {52, 53, 54} \cup (112..119 \ {118}) -> {HL}
      [] Op = 227 -> {sp, W(sp + 1)}
      [] Op \in Pushes \/ (Op \in Calls /\ sp' # sp) -> {W(sp - 1), W(sp - 2)}
      [] OTHER -> {}

(* Where else than to the next instruction it may go.                        *)
Destinations ==
    CASE Op = 233 -> {HL}
      [] Op \in ReturnsOps -> {LoadWord(sp)}
      [] Op \in Calls /\ Op % 8 = 7 -> {Op - 199}
      [] Op % 8 # 7 /\ Op \in Calls \cup {195} \cup {n \in Byte : n >= 192 /\ n % 8 = 2} -> {Imm16}
      [] OTHER -> {}

StackOps == Calls \cup ReturnsOps \cup Pushes \cup Pops \cup {49, 51, 59, 249}

(* The word a push, a call or XTHL leaves on the stack.                      *)
Word2Push ==
    CASE Op = 197 -> Pair(r.b, r.c) [] Op = 213 -> Pair(r.d, r.e)
      [] Op \in {229, 227} -> Pair(r.h, r.l) [] Op = 245 -> Pair(r.a, With(r.f, 2))
      [] OTHER -> W(pc + InstructionLength)
(* The word a pop, a return or XTHL takes from it.                           *)
WordTaken ==
    CASE Op = 193 -> Pair(r'.b, r'.c) [] Op = 209 -> Pair(r'.d, r'.e)
      [] Op \in {225, 227} -> Pair(r'.h, r'.l) [] Op = 241 -> Pair(r'.a, r'.f)
      [] OTHER -> pc'

Taken == Op \in Pops \cup {227} \/ (Op \in ReturnsOps /\ sp' # sp)
Pushed == Op \in Pushes \cup {227} \/ (Op \in Calls /\ sp' # sp)

Remember ==
    LET kept == {n \in DOMAIN pushed : n \notin Targets /\ W(n + 1) \notin Targets}
        rest == [n \in kept |-> pushed[n]]
        push == [n \in kept \cup {sp'} |-> IF n = sp' THEN Word2Push ELSE pushed[n]]
    IN  pushed' = IF Pushed THEN push ELSE rest

MCInit == Init /\ pushed = <<>>
MCNext == (Step /\ Remember) \/ (Boot /\ pushed' = <<>>)
MCSpec == MCInit /\ [][MCNext]_<<vars, pushed>>

(* A word pushed by PUSH, CALL, RST or XTHL is what POP, RET or XTHL at the  *)
(* same address takes back, however many instructions lie between them and   *)
(* wherever the stack wraps: a call returns to the instruction after it, and *)
(* POP PSW restores accumulator and flags (cpu_8080.c:206-245, XTHL, PUSH).  *)
WordsComeBack ==
    [][(Step /\ Taken /\ sp \in DOMAIN pushed) => WordTaken = pushed[sp]]_<<vars, pushed>>

(* An instruction stores only the bytes its opcode names, moves the stack    *)
(* pointer only if it is a stack instruction, and is followed by the next    *)
(* instruction unless it transfers control: an operand is never executed,    *)
(* and a conditional that is not taken skips its operand.  What the disk     *)
(* controller writes for an OUT to port 13 is no part of the instruction.    *)
Framed ==
    [][Step =>
         /\ \A n \in DOMAIN mem \cup DOMAIN mem' :
              n \notin Targets => n \in DOMAIN mem /\ n \in DOMAIN mem' /\ mem'[n] = mem[n]
         /\ sp' # sp => Op \in StackOps
         /\ pc' \in {W(pc + InstructionLength)} \cup Destinations]_vars
=============================================================================
