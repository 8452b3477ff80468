---------------------------- MODULE Settings_proofs ----------------------------
(* Proofs about Settings, for every number of cells and every set of names:  *)
(* whenever the power fails, the next start finds what the completed         *)
(* commands left, on the AVR's EEPROM and on the image file of POSIX.        *)
EXTENDS Settings, SequenceTheorems, TLAPS

(* What the cells may hold if the power fails now. *)
Spoiled(img, c, old) == {[img EXCEPT ![c] = v] : v \in {Blank, old, img[c]}}
AfterFailure == IF busy = <<>> THEN {file} ELSE Spoiled(file, busy[1], busy[2])

(* A start that finds the cells img does what one of okAuto and okName says. *)
Found(img) ==
  /\ img[InitCell] = Mark =>
       /\ img[AutoCell] = Mark => TRUE \in okAuto
       /\ img[AutoCell] # Mark => FALSE \in okAuto
       /\ img[NameCell] = Mark => \E n \in okName \cap MountNames : Holds(img, n)
       /\ img[NameCell] # Mark => <<>> \in okName
  /\ img[InitCell] # Mark => FALSE \in okAuto /\ <<>> \in okName

Recoverable == \A img \in AfterFailure : Found(img)

(* The cells an access sees are those that are stored. *)
Shown ==
  /\ backend # "avr" => busy = <<>>
  /\ backend = "posix" => (loaded => buffer = file) /\ (~ exists => file = AllBlank)

(* What a command has written when it is at a step. *)
Initializing ==
  job = "init" =>
    /\ mode = "loading" /\ okAuto = {FALSE} /\ okName = {<<>>}
    /\ step = 0 => file[InitCell] # Mark
    /\ \A c \in Cells : c < step => file[c] = 0
    /\ busy # <<>> => step > 0 /\ busy[1] = step - 1 /\ (step = 1 => busy[2] # Mark)

Mounting ==
  job = "mount" =>
    /\ arg \in MountNames /\ <<>> \in okName
    /\ step > 0 => file[NameCell] = 0
    /\ \A i \in 1..Len(arg) : i < step => file[NameCell + i] = arg[i]
    /\ step = Len(arg) + 2 => file[NameCell + Len(arg) + 1] = 0

Choosing ==
  job = "auto" => want \in okAuto /\ (backend = "avr" => FALSE \in okAuto)

(* Once the machine has started, the cells are marked as initialized; a mark *)
(* that is not programmed yet came from the initialization.                  *)
Started ==
  /\ mode = "off" => job = "idle"
  /\ mode # "off" /\ job # "init" => file[InitCell] = Mark
  /\ job \in {"mount", "auto"} => mode # "off"

(* What is known of a completed command whose last cell is being programmed. *)
Completing ==
  busy # <<>> =>
    /\ busy[1] = AutoCell /\ job \in {"idle", "mount"} =>
         file[InitCell] = Mark /\ (file[AutoCell] = Mark <=> want)
    /\ busy[1] = NameCell /\ job \in {"idle", "auto"} =>
         file[InitCell] = Mark /\ file[NameCell] = Mark

Kept ==
  /\ Recoverable /\ Initializing /\ Mounting /\ Choosing /\ Started /\ Completing

(* UEFI and U-Boot never store more than one cell that is not blank. *)
Alone == backend = "refill" => \E c \in Cells : \A d \in Cells \ {c} : file[d] = Blank

(* Only a mount has an argument, and it is a name. *)
Named == job = "mount" => arg \in MountNames

IInv == TypeOK /\ Named /\ Shown /\ Alone /\ (~ dropped /\ backend # "refill" => Kept)

-------------------------------------------------------------------------------
(* The cells and the names. *)
LEMMA Constants ==
  ASSUME SettingsAssumption
  PROVE  /\ Size \in Nat /\ 2 < Size
         /\ InitCell \in Cells /\ AutoCell \in Cells /\ NameCell \in Cells
         /\ InitCell = 0 /\ AutoCell = 1 /\ NameCell = 2
         /\ Mark = 136 /\ Blank = 255 /\ Mark \in Byte /\ Blank \in Byte /\ 0 \in Byte
BY DEF SettingsAssumption, Cells, InitCell, AutoCell, NameCell, Mark, Blank, Byte

LEMMA Name ==
  ASSUME SettingsAssumption, NEW n \in MountNames
  PROVE  /\ n \in Seq(1..127) /\ n # <<>> /\ Len(n) \in Nat /\ NameCell + Len(n) + 1 < Size
         /\ \A i \in 1..Len(n) : n[i] \in 1..127 /\ NameCell + i \in Cells
         /\ NameCell + Len(n) + 1 \in Cells
<1>1. n \in Seq(1..127) /\ n # <<>> /\ NameCell + Len(n) + 1 < Size
  BY DEF SettingsAssumption
<1>2. Len(n) \in Nat /\ \A i \in 1..Len(n) : n[i] \in 1..127
  BY <1>1, LenProperties, ElementOfSeq
<1> QED
  BY <1>1, <1>2, Constants DEF Cells

(* The names differ before or at the end of the shorter one. *)
LEMMA OneName ==
  ASSUME SettingsAssumption, NEW img, NEW m \in MountNames, NEW n \in MountNames,
         Holds(img, m), Holds(img, n)
  PROVE  m = n
<1>1. /\ m \in Seq(1..127) /\ n \in Seq(1..127) /\ Len(m) \in Nat /\ Len(n) \in Nat
      /\ \A i \in 1..Len(n) : n[i] \in 1..127
      /\ \A i \in 1..Len(m) : m[i] \in 1..127
  BY Name
<1>2. ~ (Len(m) < Len(n))
  <2> SUFFICES ASSUME Len(m) < Len(n) PROVE FALSE
    OBVIOUS
  <2>1. Len(m) + 1 \in 1..Len(n)
    BY <1>1
  <2>2. img[NameCell + (Len(m) + 1)] = n[Len(m) + 1]
    BY <2>1 DEF Holds
  <2>3. NameCell + (Len(m) + 1) = NameCell + Len(m) + 1
    BY <1>1 DEF NameCell
  <2>4. img[NameCell + Len(m) + 1] = 0
    BY DEF Holds
  <2>5. n[Len(m) + 1] \in 1..127
    BY <1>1, <2>1
  <2>6. n[Len(m) + 1] = 0
    BY <2>2, <2>3, <2>4
  <2> QED
    BY <2>5, <2>6
<1>3. ~ (Len(n) < Len(m))
  <2> SUFFICES ASSUME Len(n) < Len(m) PROVE FALSE
    OBVIOUS
  <2>1. Len(n) + 1 \in 1..Len(m)
    BY <1>1
  <2>2. img[NameCell + (Len(n) + 1)] = m[Len(n) + 1]
    BY <2>1 DEF Holds
  <2>3. NameCell + (Len(n) + 1) = NameCell + Len(n) + 1
    BY <1>1 DEF NameCell
  <2>4. img[NameCell + Len(n) + 1] = 0
    BY DEF Holds
  <2>5. m[Len(n) + 1] \in 1..127
    BY <1>1, <2>1
  <2>6. m[Len(n) + 1] = 0
    BY <2>2, <2>3, <2>4
  <2> QED
    BY <2>5, <2>6
<1>4. Len(m) = Len(n) /\ \A i \in 1..Len(m) : m[i] = n[i]
  BY <1>1, <1>2, <1>3 DEF Holds
<1> QED
  BY <1>1, <1>4, SeqEqual

-------------------------------------------------------------------------------
(* What a write stores is a byte in a cell. *)
LEMMA Written ==
  ASSUME SettingsAssumption, TypeOK, job # "idle", job = "mount" => arg \in MountNames
  PROVE  /\ Cell(job, arg, step) \in Cells /\ Datum(job, arg, step) \in Byte
         /\ Last(job, arg) \in Nat
<1> USE Constants
<1>1. CASE job = "init"
  BY <1>1 DEF TypeOK, Cell, Datum, Last, Cells
<1>2. CASE job = "mount"
  <2>1. step \in Nat /\ step <= Len(arg) + 2 /\ Len(arg) \in Nat
    BY <1>2, Name DEF TypeOK, Last
  <2>2. CASE step \in 1..Len(arg)
    <3>1. arg[step] \in 1..127 /\ NameCell + step \in Cells
      BY <1>2, <2>2, Name
    <3>2. Cell(job, arg, step) = NameCell + step /\ Datum(job, arg, step) = arg[step]
      BY <1>2, <2>1, <2>2 DEF Cell, Datum
    <3> QED
      BY <1>2, <2>1, <3>1, <3>2, SMTT(30) DEF Last, Byte
  <2>3. CASE step = Len(arg) + 1
    <3>1. NameCell + step = NameCell + Len(arg) + 1
      BY <2>1, <2>3
    <3> QED
      BY <1>2, <2>1, <2>3, <3>1, Name DEF Cell, Datum, Last, Byte
  <2>4. CASE step \notin 1..Len(arg) + 1
    BY <1>2, <2>1, <2>4, Name DEF Cell, Datum, Last, Byte
  <2> QED
    BY <2>1, <2>2, <2>3, <2>4
<1>3. CASE job = "auto"
  BY <1>3 DEF TypeOK, Cell, Datum, Last, Cells
<1> QED
  BY <1>1, <1>2, <1>3 DEF TypeOK

(* An access sees bytes. *)
LEMMA Bytes ==
  ASSUME SettingsAssumption, TypeOK
  PROVE  AllBlank \in [Cells -> Byte] /\ Contents \in [Cells -> Byte]
<1>1. AllBlank \in [Cells -> Byte]
  BY Constants DEF AllBlank
<1>2. backend \in {"avr", "posix", "refill"}
  BY DEF TypeOK, SettingsAssumption
<1> QED
  BY <1>1, <1>2 DEF Contents, TypeOK

(* But for a build that never reads, an access sees what is stored. *)
LEMMA Seen ==
  ASSUME SettingsAssumption, TypeOK, Shown, backend # "refill"
  PROVE  Contents = file
BY DEF SettingsAssumption, TypeOK, Shown, Contents

(* Init establishes the invariant. *)
LEMMA InitInv ==
  ASSUME SettingsAssumption, Init
  PROVE  IInv
<1> USE Constants DEF Init
<1>1. TypeOK
  <2>1. AllBlank \in [Cells -> Byte]
    BY DEF AllBlank
  <2>2. file \in [Cells -> Byte] /\ buffer \in [Cells -> Byte]
    BY <2>1
  <2>3. step \in 0..(IF job = "idle" THEN 0 ELSE Last(job, arg))
    OBVIOUS
  <2> QED
    BY <2>2, <2>3 DEF TypeOK
<1>2. Named /\ Shown
  BY DEF Named, Shown
<1>3. Alone
  BY DEF Alone, AllBlank
<1>4. Recoverable
  <2>1. AfterFailure = {AllBlank} /\ AllBlank[InitCell] # Mark
    BY DEF AfterFailure, AllBlank
  <2> QED
    BY <2>1 DEF Recoverable, Found
<1>5. Initializing /\ Mounting /\ Choosing /\ Started /\ Completing
  BY DEF Initializing, Mounting, Choosing, Started, Completing
<1> QED
  BY <1>1, <1>2, <1>3, <1>4, <1>5 DEF IInv, Kept

(* What a write that was not dropped leaves in the cells. *)
LEMMA Stored ==
  ASSUME SettingsAssumption, TypeOK, NEW c \in Cells, NEW v \in Byte, Write(c, v)
  PROVE  /\ file' \in [Cells -> Byte] /\ buffer' = file' /\ loaded' = TRUE /\ exists' = TRUE
         /\ busy = <<>> /\ busy' \in {<<>>} \cup (Cells \X Byte)
         /\ backend # "avr" => busy' = <<>>
         /\ dropped' \in BOOLEAN /\ (dropped => dropped')
<1>1. Contents \in [Cells -> Byte] /\ file \in [Cells -> Byte]
  BY Bytes DEF TypeOK
<1>2. CASE file' = [Contents EXCEPT ![c] = v] /\ UNCHANGED dropped
           /\ busy' = IF backend = "avr" THEN <<c, file[c]>> ELSE <<>>
  <2>1. file[c] \in Byte /\ <<c, file[c]>> \in Cells \X Byte
    BY <1>1
  <2>2. busy' \in {<<>>} \cup (Cells \X Byte) /\ (backend # "avr" => busy' = <<>>)
    BY <1>2, <2>1
  <2>3. file' \in [Cells -> Byte]
    BY <1>1, <1>2
  <2> QED
    BY <1>2, <2>2, <2>3 DEF Write, TypeOK
<1>3. CASE backend = "avr" /\ dropped' = TRUE /\ UNCHANGED <<file, busy>>
  BY <1>1, <1>3 DEF Write, TypeOK
<1> QED
  BY <1>2, <1>3 DEF Write

(* The next cell of a command, or its end. *)
LEMMA WriteNextTyped ==
  ASSUME SettingsAssumption, TypeOK, Named, WriteNext
  PROVE  TypeOK' /\ Named'
<1> USE Constants
<1>1. /\ Cell(job, arg, step) \in Cells /\ Datum(job, arg, step) \in Byte
      /\ Last(job, arg) \in Nat /\ Write(Cell(job, arg, step), Datum(job, arg, step))
      /\ job \in {"init", "mount", "auto"} /\ UNCHANGED <<backend, want>>
      /\ step \in 0..Last(job, arg)
  BY Written DEF WriteNext, Named, TypeOK
<1>2. /\ file' \in [Cells -> Byte] /\ buffer' \in [Cells -> Byte]
      /\ loaded' \in BOOLEAN /\ exists' \in BOOLEAN /\ dropped' \in BOOLEAN
      /\ busy' \in {<<>>} \cup (Cells \X Byte)
  <2>1. PICK c \in Cells, v \in Byte : Write(c, v)
    BY <1>1
  <2>2. /\ file' \in [Cells -> Byte] /\ buffer' = file' /\ loaded' = TRUE /\ exists' = TRUE
        /\ dropped' \in BOOLEAN /\ busy' \in {<<>>} \cup (Cells \X Byte)
    BY <2>1, Stored, Zenon
  <2> QED
    BY <2>2
<1>3. mode' \in {"off", "loading", "prompt"}
  BY DEF WriteNext, TypeOK
<1>4. CASE step < Last(job, arg)
  <2>1. step' = step + 1 /\ UNCHANGED <<job, arg, okAuto, okName>>
    BY <1>4 DEF WriteNext
  <2>2. step' \in 0..(IF job' = "idle" THEN 0 ELSE Last(job', arg'))
    BY <1>1, <1>4, <2>1
  <2> QED
    BY <1>1, <1>2, <1>3, <2>1, <2>2 DEF TypeOK, Named
<1>5. CASE ~ (step < Last(job, arg))
  <2>1. /\ job' = "idle" /\ step' = 0 /\ arg' = <<>>
        /\ okAuto' \in {{want}, okAuto}
        /\ okName' \in {okName, {arg}, {arg} \cup {<<>>}}
    BY <1>5 DEF WriteNext
  <2> QED
    BY <1>1, <1>2, <1>3, <2>1 DEF TypeOK, Named
<1> QED
  BY <1>4, <1>5

(* Every step keeps the types. *)
LEMMA NextTyped ==
  ASSUME SettingsAssumption, TypeOK, Named, [Next]_vars
  PROVE  TypeOK' /\ Named'
<1> USE Constants
<1>1. CASE InitializeCells
  <2>1. /\ buffer' \in [Cells -> Byte] /\ loaded' = TRUE /\ mode' = "loading"
        /\ job' = "init" /\ arg' = <<>> /\ step' = 0 /\ want' = FALSE
        /\ okAuto' = {FALSE} /\ okName' = {<<>>}
        /\ UNCHANGED <<backend, dropped, file, exists, busy>>
    BY <1>1, Bytes DEF InitializeCells, Read, Begin, build
  <2>2. step' \in 0..(IF job' = "idle" THEN 0 ELSE Last(job', arg'))
    BY <2>1 DEF Last
  <2> QED
    BY <2>1, <2>2 DEF TypeOK, Named
<1>2. CASE LoadSettings
  <2>1. /\ buffer' \in [Cells -> Byte] /\ loaded' = TRUE /\ mode' = "loading"
        /\ UNCHANGED <<backend, dropped, file, exists, busy, want, okAuto>>
    BY <1>2, Bytes DEF LoadSettings, Read, build
  <2>2. CASE UNCHANGED <<job, arg, step>>
             /\ \E n \in MountNames \cup {<<>>} : okName' = {n}
    BY <2>1, <2>2 DEF TypeOK, Named
  <2>3. CASE \E n \in MountNames : Begin("mount", n) /\ okName' = {n, <<>>}
    <3>1. PICK n \in MountNames : Begin("mount", n) /\ okName' = {n, <<>>}
      BY <2>3
    <3>2. step' \in 0..(IF job' = "idle" THEN 0 ELSE Last(job', arg'))
      BY <3>1, Name DEF Begin, Last
    <3> QED
      BY <2>1, <3>1, <3>2 DEF TypeOK, Named, Begin
  <2> QED
    BY <1>2, <2>2, <2>3 DEF LoadSettings
<1>3. CASE LoadAutoBoot
  <2>1. buffer' \in [Cells -> Byte] /\ AutoBoot \in BOOLEAN
    BY <1>3, Bytes DEF LoadAutoBoot, Read, AutoBoot
  <2> QED
    BY <1>3, <2>1 DEF LoadAutoBoot, Read, build, TypeOK, Named
<1>4. CASE WriteNext
  BY <1>4, WriteNextTyped
<1>5. CASE Programmed
  BY <1>5 DEF Programmed, build, ram, TypeOK, Named
<1>6. CASE \E b \in BOOLEAN : SetAutoBoot(b)
  <2>1. PICK b \in BOOLEAN : SetAutoBoot(b)
    BY <1>6
  <2>2. step' \in 0..(IF job' = "idle" THEN 0 ELSE Last(job', arg'))
    BY <2>1 DEF SetAutoBoot, Begin, Last
  <2> QED
    BY <2>1, <2>2 DEF SetAutoBoot, Begin, build, ram, TypeOK, Named
<1>7. CASE \E n \in MountNames : MountName(n)
  <2>1. PICK n \in MountNames : MountName(n)
    BY <1>7
  <2>2. step' \in 0..(IF job' = "idle" THEN 0 ELSE Last(job', arg'))
    BY <2>1, Name DEF MountName, Begin, Last
  <2> QED
    BY <2>1, <2>2 DEF MountName, Begin, build, ram, TypeOK, Named
<1>8. CASE Reset
  BY <1>8 DEF Reset, build, ram, ok, TypeOK, Named
<1>9. CASE PowerCycle
  <2>1. file' \in [Cells -> Byte]
    <3>1. CASE busy = <<>>
      BY <1>9, <3>1 DEF PowerCycle, TypeOK
    <3>2. CASE busy # <<>>
      <4>1. busy[1] \in Cells /\ busy[2] \in Byte /\ file \in [Cells -> Byte]
        BY <3>2 DEF TypeOK
      <4>2. PICK v \in {Blank, busy[2], file[busy[1]]} : file' = [file EXCEPT ![busy[1]] = v]
        BY <1>9, <3>2 DEF PowerCycle
      <4> QED
        BY <4>1, <4>2
    <3> QED
      BY <3>1, <3>2
  <2>2. AllBlank \in [Cells -> Byte]
    BY Bytes
  <2> QED
    BY <1>9, <2>1, <2>2 DEF PowerCycle, build, ok, TypeOK, Named
<1>10. CASE UNCHANGED vars
  BY <1>10 DEF vars, ram, ok, TypeOK, Named
<1> QED
  BY <1>1, <1>2, <1>3, <1>4, <1>5, <1>6, <1>7, <1>8, <1>9, <1>10 DEF Next

-------------------------------------------------------------------------------
(* Every step keeps what is stored and what an access sees in agreement. *)
LEMMA NextShown ==
  ASSUME SettingsAssumption, TypeOK, Named, Shown, [Next]_vars
  PROVE  Shown'
<1> USE Constants
<1>1. CASE InitializeCells \/ LoadSettings \/ LoadAutoBoot
  <2>1. Read /\ UNCHANGED <<backend, file, exists, busy>>
    BY <1>1 DEF InitializeCells, LoadSettings, LoadAutoBoot, build
  <2>2. backend = "posix" => buffer' = file'
    BY <2>1, Seen DEF Read
  <2> QED
    BY <2>1, <2>2 DEF Shown
<1>2. CASE WriteNext
  <2>1. UNCHANGED backend
    BY <1>2 DEF WriteNext
  <2>2. PICK c \in Cells, v \in Byte : Write(c, v)
    BY <1>2, Written DEF WriteNext, Named
  <2> QED
    BY <2>1, <2>2, Stored DEF Shown
<1>3. CASE Programmed
  BY <1>3 DEF Programmed, build, ram, Shown
<1>4. CASE \E b \in BOOLEAN : SetAutoBoot(b)
  BY <1>4 DEF SetAutoBoot, build, ram, Shown
<1>5. CASE \E n \in MountNames : MountName(n)
  BY <1>5 DEF MountName, build, ram, Shown
<1>6. CASE Reset
  BY <1>6 DEF Reset, build, ram, Shown
<1>7. CASE PowerCycle
  <2>1. loaded' = FALSE /\ busy' = <<>> /\ UNCHANGED <<backend, exists>>
    BY <1>7 DEF PowerCycle, build
  <2>2. backend = "posix" => file' = file
    BY <1>7 DEF PowerCycle, Shown
  <2> QED
    BY <2>1, <2>2 DEF Shown
<1>8. CASE UNCHANGED vars
  BY <1>8 DEF vars, ram, Shown
<1> QED
  BY <1>1, <1>2, <1>3, <1>4, <1>5, <1>6, <1>7, <1>8 DEF Next

(* A build that never reads writes one byte into cells it takes for blank. *)
LEMMA NextAlone ==
  ASSUME SettingsAssumption, TypeOK, Named, Shown, Alone, [Next]_vars
  PROVE  Alone'
<1> SUFFICES ASSUME backend' = "refill"
             PROVE  (\E c \in Cells : \A d \in Cells \ {c} : file[d] = Blank)'
  BY DEF Alone
<1> USE Constants
<1>1. backend = "refill" /\ busy = <<>>
  BY DEF Next, InitializeCells, LoadSettings, LoadAutoBoot, WriteNext, Programmed, SetAutoBoot,
         MountName, Reset, PowerCycle, build, vars, Shown
<1>2. CASE UNCHANGED file
  BY <1>1, <1>2 DEF Alone
<1>3. CASE WriteNext
  <2>1. PICK c \in Cells, v \in Byte : Write(c, v)
    BY <1>3, Written DEF WriteNext, Named
  <2>2. file' = [AllBlank EXCEPT ![c] = v]
    BY <1>1, <2>1 DEF Write, Contents
  <2>3. \A d \in Cells \ {c} : file'[d] = Blank
    BY <2>2 DEF AllBlank
  <2> QED
    BY <2>1, <2>3
<1>4. CASE PowerCycle
  BY <1>1, <1>2, <1>4 DEF PowerCycle
<1> QED
  BY <1>2, <1>3, <1>4 DEF Next, InitializeCells, LoadSettings, LoadAutoBoot, Programmed,
     SetAutoBoot, MountName, Reset, vars

(* No step takes back that a write was dropped, or changes the build. *)
LEMMA NextBuild ==
  ASSUME SettingsAssumption, TypeOK, Named, [Next]_vars
  PROVE  UNCHANGED backend /\ (dropped => dropped')
<1>1. CASE WriteNext
  <2>1. PICK c \in Cells, v \in Byte : Write(c, v)
    BY <1>1, Written DEF WriteNext, Named
  <2> QED
    BY <1>1, <2>1, Stored DEF WriteNext
<1>2. CASE ~ WriteNext
  <2>1. UNCHANGED build
    BY <1>2 DEF Next, InitializeCells, LoadSettings, LoadAutoBoot, Programmed, SetAutoBoot,
       MountName, Reset, PowerCycle, build, vars
  <2> QED
    BY <2>1, Zenon DEF build
<1> QED
  BY <1>1, <1>2

-------------------------------------------------------------------------------
(* The writes of a command, where no write is dropped: one lemma for each    *)
(* command.  Whatever becomes of the cell, the others are as they were.      *)
LEMMA Spoils ==
  ASSUME SettingsAssumption, TypeOK, Shown, backend # "refill",
         NEW c \in Cells, NEW v \in Byte, Write(c, v), ~ dropped'
  PROVE  /\ busy = <<>> /\ ~ dropped /\ file \in AfterFailure
         /\ file' = [file EXCEPT ![c] = v]
         /\ busy' = IF backend = "avr" THEN <<c, file[c]>> ELSE <<>>
         /\ \A img \in AfterFailure' :
              /\ \A d \in Cells \ {c} : img[d] = file[d]
              /\ img[c] = v \/ (backend = "avr" /\ img[c] \in {Blank, file[c]})
<1>1. Contents = file /\ file \in [Cells -> Byte]
  BY Seen DEF TypeOK
<1>2. /\ busy = <<>> /\ file' = [file EXCEPT ![c] = v] /\ UNCHANGED dropped
      /\ busy' = IF backend = "avr" THEN <<c, file[c]>> ELSE <<>>
  BY <1>1 DEF Write
<1>3. ~ dropped
  BY <1>2, Zenon
<1>4. file' \in [Cells -> Byte] /\ file'[c] = v /\ \A d \in Cells \ {c} : file'[d] = file[d]
  BY <1>1, <1>2
<1>5. ASSUME NEW img \in AfterFailure'
      PROVE  /\ \A d \in Cells \ {c} : img[d] = file[d]
             /\ img[c] = v \/ (backend = "avr" /\ img[c] \in {Blank, file[c]})
  <2>1. CASE backend = "avr"
    <3>1. busy' # <<>> /\ busy'[1] = c /\ busy'[2] = file[c]
      BY <1>2, <2>1
    <3>2. PICK u \in {Blank, file[c], file'[c]} : img = [file' EXCEPT ![c] = u]
      BY <3>1 DEF AfterFailure, Spoiled
    <3> QED
      BY <1>4, <2>1, <3>2
  <2>2. CASE backend # "avr"
    BY <1>2, <1>4, <2>2 DEF AfterFailure
  <2> QED
    BY <2>1, <2>2
<1> QED
  BY <1>2, <1>3, <1>5 DEF AfterFailure

(* The cells that are stored are among those a failure may leave. *)
LEMMA Present ==
  ASSUME SettingsAssumption, TypeOK, Recoverable
  PROVE  file \in AfterFailure /\ Found(file)
<1>1. CASE busy = <<>>
  BY <1>1 DEF AfterFailure, Recoverable
<1>2. CASE busy # <<>>
  <2>1. busy[1] \in Cells /\ file = [file EXCEPT ![busy[1]] = file[busy[1]]]
    BY <1>2 DEF TypeOK
  <2> QED
    BY <1>2, <2>1 DEF AfterFailure, Spoiled, Recoverable
<1> QED
  BY <1>1, <1>2

(* machine_boot clears the cells in order, and marks them at last. *)
LEMMA InitWrites ==
  ASSUME SettingsAssumption, TypeOK, Named, Shown, Kept, backend # "refill",
         WriteNext, job = "init", ~ dropped'
  PROVE  Kept'
<1> USE Constants
<1> DEFINE c == Cell(job, arg, step)
           v == Datum(job, arg, step)
<1>1. c \in Cells /\ v \in Byte /\ Last(job, arg) = Size /\ Write(c, v)
  BY Written DEF WriteNext, Last
<1> HIDE DEF c, v
<1>2. /\ busy = <<>> /\ file' = [file EXCEPT ![c] = v] /\ file \in [Cells -> Byte]
      /\ busy' = IF backend = "avr" THEN <<c, file[c]>> ELSE <<>>
      /\ \A img \in AfterFailure' :
           /\ \A d \in Cells \ {c} : img[d] = file[d]
           /\ img[c] = v \/ (backend = "avr" /\ img[c] \in {Blank, file[c]})
  BY <1>1, Spoils DEF TypeOK
<1>3. /\ mode = "loading" /\ okAuto = {FALSE} /\ okName = {<<>>}
      /\ step = 0 => file[InitCell] # Mark
      /\ \A d \in Cells : d < step => file[d] = 0
      /\ step \in 0..Size
  BY <1>1 DEF Kept, Initializing, TypeOK
<1>4. CASE step < Size
  <2>1. c = step /\ v = 0
    BY <1>4 DEF c, v, Cell, Datum
  <2>2. /\ step' = step + 1 /\ job' = "init" /\ mode' = "loading"
        /\ okAuto' = {FALSE} /\ okName' = {<<>>}
    BY <1>1, <1>3, <1>4 DEF WriteNext
  <2>3. Recoverable'
    <3>1. SUFFICES ASSUME NEW img \in AfterFailure' PROVE img[InitCell] # Mark
      BY <2>2 DEF Recoverable, Found
    <3>2. CASE step = 0
      BY <1>2, <1>3, <2>1, <3>2
    <3>3. CASE step # 0
      <4>1. InitCell < step /\ InitCell # c /\ file[InitCell] = 0
        BY <1>3, <2>1, <3>3
      <4> QED
        BY <1>2, <4>1
    <3> QED
      BY <3>2, <3>3
  <2>4. \A d \in Cells : d < step' => file'[d] = 0
    <3> SUFFICES ASSUME NEW d \in Cells, d < step + 1 PROVE file'[d] = 0
      BY <2>2
    <3>1. d = c \/ d < step
      BY <1>3, <2>1 DEF Cells
    <3> QED
      BY <1>1, <1>2, <1>3, <2>1, <3>1
  <2>5. busy' # <<>> => busy'[1] = step /\ (step = 0 => busy'[2] # Mark)
    BY <1>2, <1>3, <2>1
  <2>6. Initializing'
    <3>1. step' > 0 /\ step' - 1 = step /\ (step' = 1 <=> step = 0)
      BY <1>3, <2>2
    <3>2. busy' # <<>> => busy'[1] = step' - 1 /\ (step' = 1 => busy'[2] # Mark)
      BY <2>5, <3>1
    <3> QED
      BY <2>2, <2>4, <3>1, <3>2 DEF Initializing
  <2>7. (Mounting /\ Choosing /\ Started /\ Completing)'
    BY <2>2 DEF Mounting, Choosing, Started, Completing
  <2> QED
    BY <2>3, <2>6, <2>7 DEF Kept
<1>5. CASE step = Size
  <2>1. c = InitCell /\ v = Mark
    BY <1>5 DEF c, v, Cell, Datum
  <2>2. job' = "idle" /\ okAuto' = {FALSE} /\ okName' = {<<>>}
    <3>1. ~ (step < Last(job, arg))
      BY <1>1, <1>5
    <3>2. job' = "idle" /\ okAuto' = okAuto /\ okName' = okName
      BY <3>1 DEF WriteNext
    <3> QED
      BY <1>3, <3>2
  <2>3. file[AutoCell] = 0 /\ file[NameCell] = 0
    BY <1>3, <1>5
  <2>4. Recoverable'
    <3>1. SUFFICES ASSUME NEW img \in AfterFailure'
                   PROVE  img[AutoCell] # Mark /\ img[NameCell] # Mark
      BY <2>2 DEF Recoverable, Found
    <3> QED
      BY <1>2, <2>1, <2>3
  <2>5. file'[InitCell] = Mark
    BY <1>2, <2>1
  <2>6. (Initializing /\ Mounting /\ Choosing /\ Started)'
    BY <2>2, <2>5 DEF Initializing, Mounting, Choosing, Started
  <2>7. busy' # <<>> => busy'[1] = InitCell
    BY <1>2, <2>1
  <2>8. Completing'
    BY <2>7 DEF Completing
  <2> QED
    BY <2>4, <2>6, <2>8 DEF Kept
<1> QED
  BY <1>3, <1>4, <1>5

(* Whether the cells hold a name does not depend on its mark. *)
LEMMA Beside ==
  ASSUME SettingsAssumption, NEW img, NEW n \in MountNames,
         \A d \in Cells \ {NameCell} : img[d] = file[d]
  PROVE  Holds(img, n) <=> Holds(file, n)
<1>1. /\ \A i \in 1..Len(n) : NameCell + i \in Cells \ {NameCell}
      /\ NameCell + Len(n) + 1 \in Cells \ {NameCell}
  BY Name, Constants
<1> QED
  BY <1>1 DEF Holds

(* mount() clears the name's mark, writes the name, and marks it at last. *)
LEMMA MountWrites ==
  ASSUME SettingsAssumption, TypeOK, Named, Shown, Kept, backend # "refill",
         WriteNext, job = "mount", ~ dropped'
  PROVE  Kept'
<1> USE Constants
<1> DEFINE c == Cell(job, arg, step)
           v == Datum(job, arg, step)
<1>1. /\ c \in Cells /\ v \in Byte /\ Write(c, v)
      /\ Last(job, arg) = Len(arg) + 2 /\ Len(arg) \in Nat /\ arg \in MountNames
  BY Written, Name DEF WriteNext, Last, Named
<1> HIDE DEF c, v
<1>2. /\ busy = <<>> /\ file' = [file EXCEPT ![c] = v] /\ file \in [Cells -> Byte]
      /\ busy' = IF backend = "avr" THEN <<c, file[c]>> ELSE <<>>
      /\ \A img \in AfterFailure' :
           /\ \A d \in Cells \ {c} : img[d] = file[d]
           /\ img[c] = v \/ (backend = "avr" /\ img[c] \in {Blank, file[c]})
  BY <1>1, Spoils DEF TypeOK
<1>3. /\ <<>> \in okName /\ Found(file) /\ file[InitCell] = Mark
      /\ step > 0 => file[NameCell] = 0
      /\ \A i \in 1..Len(arg) : i < step => file[NameCell + i] = arg[i]
      /\ step = Len(arg) + 2 => file[NameCell + Len(arg) + 1] = 0
      /\ step \in 0..Len(arg) + 2
  BY <1>1, Present DEF Kept, Mounting, Started, TypeOK
<1>4. c # InitCell /\ c # AutoCell /\ file'[InitCell] = Mark
      /\ (step \in 1..Len(arg) + 1 => c = NameCell + step)
      /\ (step \notin 1..Len(arg) + 1 => c = NameCell)
  BY <1>1, <1>2, <1>3 DEF c, Cell
<1>5. ASSUME NEW img \in AfterFailure'
      PROVE  img[InitCell] = Mark /\ img[AutoCell] = file[AutoCell]
  BY <1>2, <1>3, <1>4
<1>6. CASE step < Len(arg) + 2
  <2>1. UNCHANGED <<job, arg, okAuto, okName>> /\ step' = step + 1 /\ mode' = mode
    BY <1>1, <1>6 DEF WriteNext
  <2>2. v # Mark /\ (step = 0 => v = 0) /\ (step = Len(arg) + 1 => v = 0)
        /\ (step \in 1..Len(arg) => v = arg[step])
    <3>1. step \in 1..Len(arg) => arg[step] \in 1..127
      BY <1>1, Name
    <3>2. v = IF step \in 1..Len(arg) THEN arg[step]
              ELSE IF step = Len(arg) + 2 THEN Mark ELSE 0
      BY DEF v, Datum
    <3>3. CASE step \in 1..Len(arg)
      <4>1. v = arg[step] /\ step # 0 /\ step # Len(arg) + 1
        BY <1>1, <3>2, <3>3
      <4>2. arg[step] \in 1..127
        BY <3>1, <3>3, Zenon
      <4>3. arg[step] # Mark
        BY <4>2 DEF Mark
      <4>4. v # Mark
        BY <4>1, <4>3, Zenon
      <4> QED
        BY <3>3, <4>1, <4>4
    <3>4. CASE step \notin 1..Len(arg)
      <4>1. v = 0
        BY <1>1, <1>3, <1>6, <3>2, <3>4
      <4> QED
        BY <3>4, <4>1
    <3> QED
      BY <3>3, <3>4
  <2>3. Recoverable'
    <3>1. SUFFICES ASSUME NEW img \in AfterFailure' PROVE Found(img)'
      BY DEF Recoverable
    <3>2. /\ img[AutoCell] = Mark => TRUE \in okAuto
          /\ img[AutoCell] # Mark => FALSE \in okAuto
      BY <1>3, <1>5 DEF Found
    <3>3. img[NameCell] = Mark => \E n \in okName \cap MountNames : Holds(img, n)
      <4>1. SUFFICES ASSUME img[NameCell] = Mark
                     PROVE  \E n \in okName \cap MountNames : Holds(img, n)
        OBVIOUS
      <4>2. step = 0 /\ c = NameCell
        BY <1>2, <1>3, <1>4, <2>2, <4>1
      <4>3. file[NameCell] = Mark
        BY <1>2, <2>2, <4>1, <4>2
      <4>4. PICK n \in okName \cap MountNames : Holds(file, n)
        BY <1>3, <4>3 DEF Found
      <4> QED
        BY <1>2, <4>2, <4>4, Beside
    <3> QED
      BY <1>3, <1>5, <2>1, <3>2, <3>3 DEF Found
  <2>4. Mounting'
    <3>1. file'[NameCell] = 0
      <4>1. CASE step = 0
        BY <1>2, <1>4, <2>2, <4>1
      <4>2. CASE step > 0
        BY <1>2, <1>3, <1>4, <1>6, <4>2
      <4> QED
        BY <1>3, <4>1, <4>2
    <3>2. ASSUME NEW i \in 1..Len(arg), i < step + 1 PROVE file'[NameCell + i] = arg[i]
      <4>1. NameCell + i \in Cells
        BY <1>1, Name
      <4>2. CASE i = step
        BY <1>2, <1>4, <2>2, <4>1, <4>2
      <4>3. CASE i < step
        BY <1>2, <1>3, <1>4, <1>6, <4>1, <4>3
      <4> QED
        BY <1>3, <3>2, <4>2, <4>3
    <3>3. step + 1 = Len(arg) + 2 => file'[NameCell + Len(arg) + 1] = 0
      <4>1. SUFFICES ASSUME step = Len(arg) + 1 PROVE file'[NameCell + Len(arg) + 1] = 0
        BY <1>1, <1>3
      <4>2. c = NameCell + Len(arg) + 1 /\ v = 0
        BY <1>1, <1>4, <2>2, <4>1
      <4> QED
        BY <1>1, <1>2, <4>2
    <3> QED
      BY <1>1, <1>3, <2>1, <3>1, <3>2, <3>3 DEF Mounting
  <2>5. (Initializing /\ Choosing /\ Started)'
    BY <1>4, <2>1 DEF Initializing, Choosing, Started, Kept
  <2>6. Completing'
    <3>1. busy' # <<>> => busy'[1] = c
      BY <1>2
    <3> QED
      BY <1>4, <2>1, <3>1 DEF Completing
  <2> QED
    BY <2>3, <2>4, <2>5, <2>6 DEF Kept
<1>7. CASE step = Len(arg) + 2
  <2>1. ~ (step < Last(job, arg))
    BY <1>1, <1>7
  <2>2. /\ job' = "idle" /\ okAuto' = okAuto /\ mode' = mode
        /\ okName' = {arg} \cup (IF busy' = <<>> THEN {} ELSE {<<>>})
    BY <2>1 DEF WriteNext
  <2>3. c = NameCell /\ v = Mark
    BY <1>1, <1>4, <1>7 DEF v, Datum
  <2>4. Holds(file, arg)
    BY <1>1, <1>3, <1>7 DEF Holds
  <2>5. Recoverable'
    <3>1. SUFFICES ASSUME NEW img \in AfterFailure' PROVE Found(img)'
      BY DEF Recoverable
    <3>2. /\ img[AutoCell] = Mark => TRUE \in okAuto'
          /\ img[AutoCell] # Mark => FALSE \in okAuto'
      BY <1>3, <1>5, <2>2 DEF Found
    <3>3. Holds(img, arg) /\ arg \in okName'
      BY <1>1, <1>2, <2>2, <2>3, <2>4, Beside
    <3>4. img[NameCell] # Mark => <<>> \in okName'
      <4>1. SUFFICES ASSUME img[NameCell] # Mark PROVE busy' # <<>>
        BY <2>2
      <4> QED
        BY <1>2, <2>3, <4>1
    <3> QED
      BY <1>1, <1>5, <3>2, <3>3, <3>4 DEF Found
  <2>6. (Initializing /\ Mounting /\ Choosing)'
    BY <2>2 DEF Initializing, Mounting, Choosing
  <2>7. Started'
    BY <1>4, <2>2 DEF Started
  <2>8. Completing'
    <3>1. busy' # <<>> => busy'[1] = NameCell
      BY <1>2, <2>3
    <3>2. file'[NameCell] = Mark
      BY <1>2, <2>3
    <3> QED
      BY <1>4, <3>1, <3>2 DEF Completing
  <2> QED
    BY <2>5, <2>6, <2>7, <2>8 DEF Kept
<1> QED
  BY <1>1, <1>3, <1>6, <1>7

(* a writes one byte; on the AVR the cell may be left as it was. *)
LEMMA AutoWrites ==
  ASSUME SettingsAssumption, TypeOK, Named, Shown, Kept, backend # "refill",
         WriteNext, job = "auto", ~ dropped'
  PROVE  Kept'
<1> USE Constants
<1> DEFINE v == IF want THEN Mark ELSE 0
<1>1. /\ v \in Byte /\ Write(AutoCell, v) /\ want \in BOOLEAN
      /\ job' = "idle" /\ okName' = okName /\ mode' = mode /\ want' = want
      /\ okAuto' = IF busy' = <<>> THEN {want} ELSE okAuto
  BY DEF WriteNext, Last, Cell, Datum, TypeOK
<1>2. (v = Mark <=> want)
  BY <1>1
<1> HIDE DEF v
<1>3. /\ busy = <<>> /\ file' = [file EXCEPT ![AutoCell] = v] /\ file \in [Cells -> Byte]
      /\ busy' = IF backend = "avr" THEN <<AutoCell, file[AutoCell]>> ELSE <<>>
      /\ \A img \in AfterFailure' :
           /\ \A d \in Cells \ {AutoCell} : img[d] = file[d]
           /\ img[AutoCell] = v \/ (backend = "avr" /\ img[AutoCell] \in {Blank, file[AutoCell]})
  BY <1>1, Spoils DEF TypeOK
<1>4. /\ want \in okAuto /\ (backend = "avr" => FALSE \in okAuto)
      /\ Found(file) /\ file[InitCell] = Mark
  BY Present DEF Kept, Choosing, Started
<1>5. Recoverable'
  <2>1. SUFFICES ASSUME NEW img \in AfterFailure' PROVE Found(img)'
    BY DEF Recoverable
  <2>2. img[InitCell] = Mark /\ img[NameCell] = file[NameCell]
    BY <1>3, <1>4
  <2>3. img[NameCell] = Mark => \E n \in okName \cap MountNames : Holds(img, n)
    <3>1. SUFFICES ASSUME img[NameCell] = Mark
                   PROVE  \E n \in okName \cap MountNames : Holds(img, n)
      OBVIOUS
    <3>2. PICK n \in okName \cap MountNames : Holds(file, n)
      BY <1>4, <2>2, <3>1 DEF Found
    <3>3. /\ \A i \in 1..Len(n) : NameCell + i \in Cells \ {AutoCell}
          /\ NameCell + Len(n) + 1 \in Cells \ {AutoCell}
      BY Name
    <3>4. Holds(img, n)
      BY <1>3, <3>2, <3>3 DEF Holds
    <3> QED
      BY <3>2, <3>4
  <2>4. img[NameCell] # Mark => <<>> \in okName
    BY <1>4, <2>2 DEF Found
  <2>5. /\ img[AutoCell] = Mark => TRUE \in okAuto'
        /\ img[AutoCell] # Mark => FALSE \in okAuto'
    <3>1. CASE busy' = <<>>
      <4>1. img[AutoCell] = v /\ okAuto' = {want}
        BY <1>1, <1>3, <3>1
      <4>2. CASE want
        <5>1. want = TRUE
          BY <1>1, <4>2
        <5> QED
          BY <1>2, <4>1, <4>2, <5>1
      <4>3. CASE ~ want
        <5>1. want = FALSE
          BY <1>1, <4>3
        <5> QED
          BY <1>2, <4>1, <4>3, <5>1
      <4> QED
        BY <4>2, <4>3
    <3>2. CASE busy' # <<>>
      <4>1. okAuto' = okAuto /\ FALSE \in okAuto
        BY <1>1, <1>3, <1>4, <3>2
      <4>2. SUFFICES ASSUME img[AutoCell] = Mark PROVE TRUE \in okAuto
        BY <4>1
      <4>3. CASE v = Mark
        <5>1. want = TRUE
          BY <1>1, <1>2, <4>3
        <5> QED
          BY <1>4, <5>1
      <4>4. CASE file[AutoCell] = Mark
        BY <1>4, <4>4 DEF Found
      <4>5. img[AutoCell] \in {v, Blank, file[AutoCell]}
        BY <1>3
      <4>6. v = Mark \/ file[AutoCell] = Mark
        BY <4>2, <4>5
      <4> QED
        BY <4>3, <4>4, <4>6
    <3> QED
      BY <3>1, <3>2
  <2> QED
    BY <1>1, <2>2, <2>3, <2>4, <2>5 DEF Found
<1>6. file'[InitCell] = Mark /\ (file'[AutoCell] = Mark <=> want)
  BY <1>2, <1>3, <1>4
<1>7. (Initializing /\ Mounting /\ Choosing)'
  BY <1>1 DEF Initializing, Mounting, Choosing
<1>8. Started'
  BY <1>1, <1>6 DEF Started
<1>9. Completing'
  <2>1. busy' # <<>> => busy'[1] = AutoCell
    BY <1>3
  <2>2. want' <=> want
    BY <1>1, Zenon
  <2> QED
    BY <1>6, <2>1, <2>2 DEF Completing
<1> QED
  BY <1>5, <1>7, <1>8, <1>9 DEF Kept

-------------------------------------------------------------------------------
(* A failure leaves the same cells before and after a step that writes none. *)
LEMMA SameCells ==
  ASSUME UNCHANGED <<file, busy>>
  PROVE  AfterFailure' = AfterFailure
<1>1. file' = file /\ busy' = busy
  OBVIOUS
<1> QED
  BY <1>1, Zenon DEF AfterFailure, Spoiled

(* More choices and the same cells: a start still finds one of the choices. *)
LEMMA StillRecoverable ==
  ASSUME Recoverable, UNCHANGED <<file, busy>>, okAuto \subseteq okAuto', okName \subseteq okName'
  PROVE  Recoverable'
<1>1. AfterFailure' = AfterFailure
  BY SameCells, Zenon
<1>2. ASSUME NEW img \in AfterFailure PROVE Found(img)'
  <2>1. Found(img)
    BY Zenon DEF Recoverable
  <2>2. (\E n \in okName \cap MountNames : Holds(img, n))
           => \E n \in okName' \cap MountNames : Holds(img, n)
    BY Zenon
  <2> QED
    BY <2>1, <2>2, Zenon DEF Found
<1> QED
  BY <1>1, <1>2, Zenon DEF Recoverable

(* With nothing being programmed, a failure leaves what is stored. *)
LEMMA RestRecoverable ==
  ASSUME busy' = <<>>, Found(file)'
  PROVE  Recoverable'
<1>1. AfterFailure' = {file'}
  BY Zenon DEF AfterFailure
<1> QED
  BY <1>1, Zenon DEF Recoverable

(* The other steps keep what is recoverable, where no write is dropped. *)
LEMMA NextKept ==
  ASSUME SettingsAssumption, TypeOK, Named, Shown, Kept, backend # "refill", ~ dropped',
         [Next]_vars
  PROVE  Kept'
<1> USE Constants
<1>1. Found(file) /\ file \in AfterFailure
  BY Present DEF Kept
<1>2. CASE InitializeCells
  <2>1. /\ busy = <<>> /\ busy' = <<>> /\ file' = file /\ file[InitCell] # Mark
        /\ job' = "init" /\ step' = 0 /\ mode' = "loading"
        /\ okAuto' = {FALSE} /\ okName' = {<<>>}
    BY <1>2, Seen DEF InitializeCells, Read, Begin
  <2>2. Recoverable'
    <3>1. Found(file)'
      BY <2>1 DEF Found
    <3> QED
      BY <2>1, <3>1, RestRecoverable
  <2>3. \A c \in Cells : ~ (c < 0)
    BY DEF Cells
  <2>4. Initializing'
    BY <2>1, <2>3 DEF Initializing
  <2>5. (Mounting /\ Choosing /\ Started /\ Completing)'
    BY <2>1 DEF Mounting, Choosing, Started, Completing
  <2> QED
    BY <2>2, <2>4, <2>5 DEF Kept
<1>3. CASE LoadSettings
  <2>1. /\ busy = <<>> /\ busy' = <<>> /\ file' = file /\ Contents = file
        /\ file[InitCell] = Mark
        /\ mode = "off" /\ job = "idle" /\ mode' = "loading" /\ okAuto' = okAuto
    BY <1>3, Seen DEF LoadSettings, Read, Kept, Started
  <2>2. /\ file[AutoCell] = Mark => TRUE \in okAuto
        /\ file[AutoCell] # Mark => FALSE \in okAuto
        /\ file[NameCell] = Mark => \E n \in okName \cap MountNames : Holds(file, n)
    BY <1>1, <2>1 DEF Found
  <2>3. CASE file[NameCell] # Mark
    <3>1. okName' = {<<>>} /\ job' = "idle"
      BY <1>3, <2>1, <2>3 DEF LoadSettings
    <3>2. Recoverable'
      <4>1. Found(file)'
        BY <2>1, <2>2, <2>3, <3>1 DEF Found
      <4> QED
        BY <2>1, <4>1, RestRecoverable
    <3> QED
      BY <2>1, <3>1, <3>2
         DEF Kept, Initializing, Mounting, Choosing, Started, Completing
  <2>4. CASE file[NameCell] = Mark
    <3>1. PICK n \in MountNames :
            /\ Holds(file, n)
            /\ \/ Begin("mount", n) /\ okName' = {n, <<>>}
               \/ UNCHANGED <<job, arg, step>> /\ okName' = {n}
      BY <1>3, <2>1, <2>2, <2>4 DEF LoadSettings
    <3>2. Recoverable'
      <4>1. Found(file)'
        BY <2>1, <2>2, <2>4, <3>1 DEF Found
      <4> QED
        BY <2>1, <4>1, RestRecoverable
    <3>3. job' \in {"idle", "mount"}
      BY <2>1, <3>1 DEF Begin
    <3>4. Mounting'
      <4>1. SUFFICES ASSUME job' = "mount" PROVE Mounting'
        BY DEF Mounting
      <4>2. arg' = n /\ step' = 0 /\ okName' = {n, <<>>}
        BY <2>1, <3>1, <4>1 DEF Begin
      <4>3. Len(n) \in Nat /\ \A i \in 1..Len(n) : ~ (i < 0)
        BY Name
      <4> QED
        BY <4>2, <4>3 DEF Mounting
    <3>5. (Initializing /\ Choosing /\ Started /\ Completing)'
      BY <2>1, <3>3 DEF Initializing, Choosing, Started, Completing
    <3> QED
      BY <3>2, <3>4, <3>5 DEF Kept
  <2> QED
    BY <2>3, <2>4
<1>4. CASE LoadAutoBoot
  <2>1. /\ busy = <<>> /\ busy' = <<>> /\ file' = file /\ file[InitCell] = Mark
        /\ job = "idle" /\ job' = "idle" /\ mode' = "prompt" /\ okName' = okName
        /\ okAuto' = {file[AutoCell] = Mark}
    BY <1>4, Seen DEF LoadAutoBoot, Read, Kept, Started, AutoBoot
  <2>2. /\ file[NameCell] = Mark => \E n \in okName \cap MountNames : Holds(file, n)
        /\ file[NameCell] # Mark => <<>> \in okName
    BY <1>1, <2>1 DEF Found
  <2>3. /\ file[AutoCell] = Mark => TRUE \in okAuto'
        /\ file[AutoCell] # Mark => FALSE \in okAuto'
    BY <2>1
  <2>4. Recoverable'
    <3>1. Found(file)'
      BY <2>1, <2>2, <2>3 DEF Found
    <3> QED
      BY <2>1, <3>1, RestRecoverable
  <2> QED
    BY <2>1, <2>4 DEF Kept, Initializing, Mounting, Choosing, Started, Completing
<1>5. CASE WriteNext
  <2>1. job \in {"init", "mount", "auto"}
    BY <1>5 DEF WriteNext, TypeOK
  <2> QED
    BY <1>5, <2>1, InitWrites, MountWrites, AutoWrites
<1>6. CASE Programmed
  <2>1. /\ busy # <<>> /\ busy' = <<>>
        /\ UNCHANGED <<file, mode, job, arg, step, want, backend>>
        /\ okAuto' = IF busy[1] = AutoCell /\ job \in {"idle", "mount"} THEN {want} ELSE okAuto
        /\ okName' = IF busy[1] = NameCell /\ job \in {"idle", "auto"}
                     THEN okName \ {<<>>} ELSE okName
    BY <1>6 DEF Programmed, build
  <2>2. /\ (file[InitCell] = Mark /\ file[AutoCell] = Mark => TRUE \in okAuto')
        /\ (file[InitCell] # Mark \/ file[AutoCell] # Mark => FALSE \in okAuto')
    <3>1. CASE busy[1] = AutoCell /\ job \in {"idle", "mount"}
      <4>1. okAuto' = {want} /\ file[InitCell] = Mark /\ (file[AutoCell] = Mark <=> want)
            /\ want \in BOOLEAN
        BY <2>1, <3>1 DEF Kept, Completing, TypeOK
      <4>2. want => want = TRUE
        BY <4>1
      <4>3. ~ want => want = FALSE
        BY <4>1
      <4> QED
        BY <4>1, <4>2, <4>3
    <3>2. CASE ~ (busy[1] = AutoCell /\ job \in {"idle", "mount"})
      BY <1>1, <2>1, <3>2 DEF Found
    <3> QED
      BY <3>1, <3>2
  <2>3. /\ (file[InitCell] = Mark /\ file[NameCell] = Mark
              => \E n \in okName' \cap MountNames : Holds(file, n))
        /\ (file[InitCell] # Mark \/ file[NameCell] # Mark => <<>> \in okName')
    <3>1. CASE busy[1] = NameCell /\ job \in {"idle", "auto"}
      <4>1. okName' = okName \ {<<>>} /\ file[InitCell] = Mark /\ file[NameCell] = Mark
        BY <2>1, <3>1 DEF Kept, Completing
      <4>2. PICK n \in okName \cap MountNames : Holds(file, n)
        BY <1>1, <4>1 DEF Found
      <4> QED
        BY <4>1, <4>2, Name
    <3>2. CASE ~ (busy[1] = NameCell /\ job \in {"idle", "auto"})
      BY <1>1, <2>1, <3>2 DEF Found
    <3> QED
      BY <3>1, <3>2
  <2>4. Recoverable'
    <3>1. file' = file /\ busy' = <<>>
      BY <2>1
    <3>2. Found(file)'
      BY <2>2, <2>3, <3>1, Zenon DEF Found
    <3> QED
      BY <3>1, <3>2, RestRecoverable
  <2>5. Initializing'
    <3>1. job = "init" => okAuto' = okAuto /\ okName' = okName
      BY <2>1
    <3> QED
      BY <2>1, <3>1 DEF Kept, Initializing
  <2>6. Mounting' /\ Choosing'
    <3>1. job = "mount" => okName' = okName
      BY <2>1
    <3>2. job = "auto" => okAuto' = okAuto
      BY <2>1
    <3> QED
      BY <2>1, <3>1, <3>2 DEF Kept, Mounting, Choosing
  <2>7. Started' /\ Completing'
    BY <2>1 DEF Kept, Started, Completing
  <2> QED
    BY <2>4, <2>5, <2>6, <2>7 DEF Kept
<1>7. CASE \E b \in BOOLEAN : SetAutoBoot(b)
  <2>1. PICK b \in BOOLEAN : SetAutoBoot(b)
    BY <1>7
  <2>2. /\ mode = "prompt" /\ job = "idle" /\ job' = "auto" /\ want' = b
        /\ b \in okAuto' /\ okAuto \subseteq okAuto' /\ (backend' = "avr" => FALSE \in okAuto')
        /\ UNCHANGED <<file, busy, mode, okName>>
    BY <2>1 DEF SetAutoBoot, Begin, build
  <2>3. Recoverable'
    BY <2>2, StillRecoverable DEF Kept
  <2>4. Choosing'
    BY <2>2 DEF Choosing
  <2>5. (Initializing /\ Mounting /\ Started /\ Completing)'
    BY <2>2 DEF Kept, Initializing, Mounting, Started, Completing
  <2> QED
    BY <2>3, <2>4, <2>5 DEF Kept
<1>8. CASE \E n \in MountNames : MountName(n)
  <2>1. PICK n \in MountNames : MountName(n)
    BY <1>8
  <2>2. /\ mode = "prompt" /\ job = "idle" /\ job' = "mount" /\ arg' = n /\ step' = 0
        /\ okName' = okName \cup {<<>>}
        /\ UNCHANGED <<file, busy, mode, want, okAuto>>
    BY <2>1 DEF MountName, Begin
  <2>3. Recoverable'
    BY <2>2, StillRecoverable DEF Kept
  <2>4. Len(n) \in Nat /\ \A i \in 1..Len(n) : ~ (i < 0)
    BY Name
  <2>5. Mounting'
    BY <2>2, <2>4 DEF Mounting
  <2>6. (Initializing /\ Choosing /\ Started /\ Completing)'
    BY <2>2 DEF Kept, Initializing, Choosing, Started, Completing
  <2> QED
    BY <2>3, <2>5, <2>6 DEF Kept
<1>9. CASE Reset
  <2>1. /\ job = "idle" /\ mode' = "off"
        /\ UNCHANGED <<file, busy, job, arg, step, want, okAuto, okName>>
    BY <1>9 DEF Reset, ok
  <2>2. Recoverable'
    BY <2>1, StillRecoverable DEF Kept
  <2> QED
    BY <2>1, <2>2 DEF Kept, Initializing, Mounting, Choosing, Started, Completing
<1>10. CASE PowerCycle
  <2>1. /\ mode' = "off" /\ job' = "idle" /\ busy' = <<>>
        /\ UNCHANGED <<okAuto, okName>>
    BY <1>10 DEF PowerCycle, ok
  <2>2. file' \in AfterFailure
    BY <1>1, <1>10 DEF PowerCycle, AfterFailure, Spoiled
  <2>3. Recoverable'
    BY <2>1, <2>2, ZenonT(60) DEF Kept, Recoverable, AfterFailure, Found
  <2> QED
    BY <2>1, <2>3 DEF Kept, Initializing, Mounting, Choosing, Started, Completing
<1>11. CASE UNCHANGED vars
  <2>1. UNCHANGED <<backend, file, busy, mode, job, arg, step, want, okAuto, okName>>
    BY <1>11 DEF vars, ok
  <2>2. Recoverable'
    BY <2>1, StillRecoverable DEF Kept
  <2>3. Initializing'
    BY <2>1, ZenonT(60) DEF Kept, Initializing
  <2>4. Mounting'
    BY <2>1 DEF Kept, Mounting
  <2>5. Choosing'
    BY <2>1 DEF Kept, Choosing
  <2>6. Started'
    BY <2>1 DEF Kept, Started
  <2>7. Completing'
    BY <2>1 DEF Kept, Completing
  <2> QED
    BY <2>2, <2>3, <2>4, <2>5, <2>6, <2>7 DEF Kept
<1> QED
  BY <1>2, <1>3, <1>4, <1>5, <1>6, <1>7, <1>8, <1>9, <1>10, <1>11 DEF Next

-------------------------------------------------------------------------------
(* The invariant is inductive. *)
LEMMA NextInv ==
  ASSUME SettingsAssumption, IInv, [Next]_vars
  PROVE  IInv'
<1>1. TypeOK' /\ Named' /\ Shown' /\ Alone'
  BY NextTyped, NextShown, NextAlone DEF IInv
<1>2. ASSUME ~ dropped', backend' # "refill" PROVE Kept'
  <2>1. backend # "refill" /\ ~ dropped
    BY <1>2, NextBuild DEF IInv
  <2> QED
    BY <1>2, <2>1, NextKept DEF IInv
<1> QED
  BY <1>1, <1>2 DEF IInv

LEMMA Invariance ==
  ASSUME SettingsAssumption
  PROVE  Spec => []IInv
<1>1. Init => IInv
  BY InitInv
<1>2. IInv /\ [Next]_vars => IInv'
  BY NextInv
<1> QED
  BY <1>1, <1>2, PTL DEF Spec

(* The cells keep bytes, and the writes of a command stay in them, for every *)
(* size of the EEPROM and every set of names that fit in it.                 *)
THEOREM Typing ==
  ASSUME SettingsAssumption
  PROVE  Spec => []TypeOK
<1>1. IInv => TypeOK
  BY DEF IInv
<1> QED
  BY <1>1, Invariance, PTL

(* Whenever the power fails while mount() writes the name, no name is found  *)
(* but a whole one that was given to it: not on any build, unless a write    *)
(* was dropped.                                                              *)
THEOREM WholeNames ==
  ASSUME SettingsAssumption
  PROVE  Spec => []NameWhole
<1>1. ASSUME IInv PROVE NameWhole
  <2>1. SUFFICES ASSUME ~ dropped, file[InitCell] = Mark, file[NameCell] = Mark
                 PROVE  \E n \in MountNames : Holds(file, n)
    BY DEF NameWhole
  <2>2. CASE backend = "refill"
    <3>1. PICK c \in Cells : \A d \in Cells \ {c} : file[d] = Blank
      BY <1>1, <2>2 DEF IInv, Alone
    <3> QED
      BY <2>1, <3>1, Constants
  <2>3. CASE backend # "refill"
    <3>1. Found(file)
      BY <1>1, <2>1, <2>3, Present DEF IInv, Kept
    <3> QED
      BY <2>1, <3>1 DEF Found
  <2> QED
    BY <2>2, <2>3
<1> QED
  BY <1>1, Invariance, PTL

(* machine_boot finds what the completed commands left, on the two kinds of  *)
(* EEPROM that are read at all.                                              *)
LEMMA StartFinds ==
  ASSUME SettingsAssumption, "refill" \notin Backends, IInv, ~ dropped, busy = <<>>
  PROVE  Contents = file /\ Found(file) /\ Started
<1>1. backend # "refill"
  BY DEF IInv, TypeOK
<1>2. Contents = file
  BY <1>1, Seen DEF IInv
<1> QED
  BY <1>1, <1>2, Present DEF IInv, Kept

(* The next start boots as the last completed command a said, whatever       *)
(* commands and power failures came before, on the builds that read what     *)
(* they stored.                                                              *)
THEOREM AutoBootFound ==
  ASSUME SettingsAssumption, "refill" \notin Backends
  PROVE  Spec => AutoBootKept
<1>1. ASSUME IInv, ~ dropped, LoadAutoBoot PROVE want' \in okAuto
  <2>1. busy = <<>> /\ mode = "loading" /\ job = "idle" /\ want' = AutoBoot
    BY <1>1 DEF LoadAutoBoot, Read
  <2>2. Contents = file /\ Found(file) /\ file[InitCell] = Mark
    BY <1>1, <2>1, StartFinds DEF Started
  <2>3. CASE file[AutoCell] = Mark
    <3>1. want' = TRUE
      BY <2>1, <2>2, <2>3 DEF AutoBoot
    <3> QED
      BY <2>2, <2>3, <3>1 DEF Found
  <2>4. CASE file[AutoCell] # Mark
    <3>1. want' = FALSE
      BY <2>1, <2>2, <2>4 DEF AutoBoot
    <3> QED
      BY <2>2, <2>4, <3>1 DEF Found
  <2> QED
    BY <2>3, <2>4
<1>2. ASSUME IInv, ~ dropped, InitializeCells PROVE want' \in okAuto
  <2>1. busy = <<>> /\ want' = FALSE
    BY <1>2 DEF InitializeCells, Read
  <2> QED
    BY <1>2, <2>1, StartFinds DEF InitializeCells, Found
<1>3. IInv => (~ dropped /\ (LoadAutoBoot \/ InitializeCells) => want' \in okAuto)
  BY <1>1, <1>2
<1> QED
  BY <1>3, Invariance, PTL DEF AutoBootKept

(* The next start mounts the image whose mount was completed last, unless a  *)
(* power failure interrupted a mount, on the builds that read what they      *)
(* stored.                                                                   *)
THEOREM MountFound ==
  ASSUME SettingsAssumption, "refill" \notin Backends
  PROVE  Spec => MountKept
<1>1. ASSUME IInv, ~ dropped, InitializeCells PROVE <<>> \in okName
  <2>1. busy = <<>>
    BY <1>1 DEF InitializeCells, Read
  <2> QED
    BY <1>1, <2>1, StartFinds DEF InitializeCells, Found
<1>2. ASSUME IInv, ~ dropped, LoadSettings
      PROVE  /\ Contents[NameCell] # Mark => <<>> \in okName
             /\ Contents[NameCell] = Mark =>
                  \E n \in okName \cap MountNames : Holds(Contents, n)
  <2>1. busy = <<>> /\ Contents[InitCell] = Mark
    BY <1>2 DEF LoadSettings, Read
  <2> QED
    BY <1>2, <2>1, StartFinds DEF Found
<1>3. IInv => (~ dropped =>
               /\ InitializeCells => <<>> \in okName
               /\ LoadSettings /\ Contents[NameCell] # Mark => <<>> \in okName
               /\ LoadSettings /\ Contents[NameCell] = Mark =>
                    \E n \in okName \cap MountNames : Holds(Contents, n))
  BY <1>1, <1>2
<1> QED
  BY <1>3, Invariance, PTL DEF MountKept

===============================================================================
