------------------------------- MODULE Programs -------------------------------
(* What CP/M programs see of the machine they run on: the instructions       *)
(* (Cpu8080), the arithmetic under every operand (Alu8080), and the screen   *)
(* behind port 1 (Terminal), with a VT100 and with the console of UEFI.      *)
(* The three share no variable: at the start one of them is chosen to run.   *)
EXTENDS MCCpu8080

CONSTANTS
  Operands,                           \* bytes the program adds, subtracts, ... (MCAlu8080)
  Rows, Cols, Bytes, Characters       \* Terminal

VARIABLES
  part,                                               \* what runs
  acc, flags,                                         \* MCAlu8080
  efi, esc, row, vt_cnv, running, term, broken        \* Terminal

cpuv == <<vars, pushed>>
aluv == <<acc, flags>>
termv == <<efi, esc, row, vt_cnv, running, term, broken>>

Both == INSTANCE MCAlu8080 WITH
  CPU_EMU_C <- TRUE, a <- acc, f <- flags
Term == INSTANCE Terminal

ASSUME ProgramsAssumption == Operands \subseteq Byte /\ Term!TerminalAssumption

(* The programs in memory are many only when they are what runs, and only    *)
(* the terminal differs between the builds.                                  *)
ProgramsInit ==
  /\ part \in {"cpu", "alu", "port"}
  /\ IF part = "cpu" THEN MCInit
     ELSE image = <<>> /\ mem = <<>> /\ pushed = <<>> /\ Reset
  /\ Both!Init /\ Term!Init /\ (efi => part = "port")

ProgramsNext ==
  \/ part = "cpu" /\ UNCHANGED <<part, aluv, termv>> /\ MCNext
  \/ part = "alu" /\ UNCHANGED <<part, cpuv, termv>> /\ Both!Next
  \/ part = "port" /\ UNCHANGED <<part, cpuv, aluv>> /\ Term!Next

ProgramsSpec == ProgramsInit /\ [][ProgramsNext]_<<part, cpuv, aluv, termv>>

-------------------------------------------------------------------------------
(* The registers keep their width, the cursor stays on the screen (TypeOK of *)
(* Cpu8080 and of Terminal).                                                 *)
ProgramsTypeOK == TypeOK /\ Term!TypeOK

(* Both emulators compute alike, DAA left out (cpu_8080.c:113-160, i8080.S). *)
EmulatorsAgree == part = "alu" => Both!EmulatorsAgree

(* The terminal is the screen a program expects (out, port 1).               *)
ImplementsScreen == Term!ImplementsScreen
===============================================================================
