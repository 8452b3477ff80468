----------------------------- MODULE FileConsole ------------------------------
(* Console input from a stream that never blocks (con_posix.c) as ports 0    *)
(* and 1 and the monitor use it (machine.c), in the Native Client build      *)
(* where con_peek's sleep is a hand-off of a mutex from the browser's timer  *)
(* callback to the emulator's thread (platform_nacl.cc).  On POSIX the sleep *)
(* only passes time, which is a special case.                                *)
EXTENDS Integers, Sequences

CONSTANT MaxTyped \* characters typed: 1, 2, ... in this order

ConsoleAssumption == MaxTyped \in Nat

None == 0         \* -1 in fifo_flag

VARIABLES
  typed, got,     \* characters typed; characters fgetc has returned
  fifo_flag,      \* con_posix.c
  taken,          \* what the program got from port 1, or the monitor
  pc, caller,     \* the emulator's thread, and who called con_peek
  ready,          \* the program saw the status "ready" and has not read since
  again,          \* it has asked for the status again then
  locked, thread_block, timer     \* platform_nacl.cc, the main thread

console == <<got, fifo_flag, taken, ready, again>>
nacl == <<locked, thread_block, timer>>
vars == <<typed, console, pc, caller, nacl>>

Type ==
  /\ typed < MaxTyped
  /\ typed' = typed + 1
  /\ UNCHANGED <<console, pc, caller, nacl>>

-----------------------------------------------------------------------------
(* The emulator's thread. *)

(* in(0) *)
Status ==
  /\ pc = "run"
  /\ pc' = "sleep" /\ caller' = "status"
  /\ again' = (again \/ ready)
  /\ UNCHANGED <<typed, got, fifo_flag, taken, ready, nacl>>

(* in(1) and the monitor call con_getchar until it has a character. *)
GetLookahead ==
  /\ pc = "run" /\ fifo_flag # None
  /\ taken' = Append(taken, fifo_flag)
  /\ fifo_flag' = None /\ ready' = FALSE
  /\ UNCHANGED <<typed, got, again, pc, caller, nacl>>

(* Mutation: the look-ahead character is not consulted. *)
GetPeeksAlways ==
  /\ pc = "run"
  /\ pc' = "sleep" /\ caller' = "get"
  /\ UNCHANGED <<typed, console, nacl>>

GetPeeks ==
  /\ pc = "run" /\ fifo_flag = None
  /\ pc' = "sleep" /\ caller' = "get"
  /\ UNCHANGED <<typed, console, nacl>>

Block ==
  /\ pc = "sleep" /\ pc' = "lock"
  /\ thread_block' = TRUE
  /\ UNCHANGED <<typed, console, caller, locked, timer>>

(* Mutation: the thread sleeps again. *)
WakeSleeps ==
  /\ pc = "lock" /\ ~ locked /\ pc' = "sleep" /\ locked' = TRUE
  /\ UNCHANGED <<typed, console, caller, thread_block, timer>>

Wake ==
  /\ pc = "lock" /\ ~ locked
  /\ pc' = "read" /\ locked' = TRUE
  /\ UNCHANGED <<typed, console, caller, thread_block, timer>>

(* fgetc, and what con_peek's caller does with the answer. *)
PeekReads ==
  /\ pc = "read"
  /\ got' = IF got < typed THEN got + 1 ELSE got
  /\ LET c == IF got < typed THEN got + 1 ELSE None
     IN  IF caller = "status"
         THEN /\ pc' = "run" /\ fifo_flag' = c /\ ready' = (c # None)
              /\ UNCHANGED taken
         ELSE /\ fifo_flag' = None
              /\ IF c = None THEN pc' = "sleep" /\ UNCHANGED <<taken, ready>>
                 ELSE pc' = "run" /\ taken' = Append(taken, c) /\ ready' = FALSE
  /\ UNCHANGED <<typed, again, caller, nacl>>

Thread == Status \/ GetLookahead \/ GetPeeks \/ Block \/ Wake \/ PeekReads

-----------------------------------------------------------------------------
(* The timer callback of the main thread, every 10 ms. *)

(* Mutation: the flag is cleared and the mutex stays locked. *)
TimerForgets ==
  /\ timer = "idle" /\ thread_block
  /\ thread_block' = FALSE
  /\ UNCHANGED <<typed, console, pc, caller, locked, timer>>

TimerClears ==
  /\ timer = "idle" /\ thread_block
  /\ thread_block' = FALSE /\ timer' = "unlock"
  /\ UNCHANGED <<typed, console, pc, caller, locked>>

TimerUnlocks ==
  /\ timer = "unlock"
  /\ locked' = FALSE /\ timer' = "idle"
  /\ UNCHANGED <<typed, console, pc, caller, thread_block>>

Timer == TimerClears \/ TimerUnlocks

Init ==
  /\ typed = 0 /\ got = 0 /\ fifo_flag = None /\ taken = <<>>
  /\ pc = "run" /\ caller = "get" /\ ready = FALSE /\ again = FALSE
  /\ locked = TRUE /\ thread_block = FALSE /\ timer = "idle"

Next == Type \/ Thread \/ Timer

Spec == Init /\ [][Next]_vars

(* The emulator's thread runs whenever it is not blocked, the timer goes on. *)
(* Nothing says that a program ever polls or reads.                          *)
ThreadGoesOn == Block \/ Wake \/ PeekReads
FairSpec == Spec /\ WF_vars(ThreadGoesOn) /\ WF_vars(Timer)

-----------------------------------------------------------------------------
(* con_peek holds a character that was typed and read, or none, and so does  *)
(* what the program was given (fifo_flag).                                   *)
TypeOK ==
  /\ typed \in 0..MaxTyped /\ got \in 0..typed
  /\ fifo_flag \in {None} \cup 1..got
  /\ taken \in Seq(1..got)
  /\ pc \in {"run", "sleep", "lock", "read"}
  /\ caller \in {"status", "get"} /\ ready \in BOOLEAN /\ again \in BOOLEAN
  /\ locked \in BOOLEAN /\ thread_block \in BOOLEAN
  /\ timer \in {"idle", "unlock"}

(* While the thread sleeps there is exactly one wake-up on its way: the flag *)
(* that the timer has not seen yet, or the timer between its two steps, or   *)
(* the mutex already open.  There is none at any other time, so that no      *)
(* sleep ends early on the wake-up of another one and none is lost (Block,   *)
(* TimerCallback).                                                           *)
OneWakeup ==
  /\ pc = "lock" <=> thread_block \/ timer = "unlock" \/ ~ locked
  /\ thread_block => timer = "idle" /\ locked
  /\ timer = "unlock" => locked

(* Every character typed reaches the program once and in order, except the   *)
(* one con_peek holds, as long as the program reads a character before it    *)
(* asks for the status again: a second con_peek forgets what the first read. *)
NothingLost ==
  ~ again =>
    /\ \A i \in 1..Len(taken) : taken[i] = i
    /\ got = Len(taken) + (IF fifo_flag = None THEN 0 ELSE 1)
    /\ fifo_flag # None => fifo_flag = got

(* The thread always wakes up from its sleep. *)
SleepEnds == pc = "sleep" ~> pc = "read"
=============================================================================
