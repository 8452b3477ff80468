# Verification of CP/Mega88

CP/Mega88 emulates an 8080 machine that runs CP/M 2.2: on ATmega micro-
controllers with an SD card, and, from the same sources, as a program on POSIX
systems, UEFI, U-Boot, ESP32 and Native Client.  This directory holds TLA+
models of it, the TLC configurations that check them, and TLAPS proofs.  Paths
below are relative to `src/src` of the repository unless they say otherwise.

`PROJECT.json` lists the components, the runs, the hazards of the code, the
source lines every definition models, and mutations of the models that the
properties are known to detect.

## 1. The system

| component | state | operations | interacts with | modelled in |
|---|---|---|---|---|
| Floppy disk controller, `machine.c` `out`/`in`, ports 10-16 | `drive track sect disk_err dma_lo dma_hi wr_prt` | register writes; command 0 (read), 1 (write), others refused | CPU (ports), memory (DMA area), block driver, monitor (`wp`) | `Fdc` |
| Block drivers, `sdcard_*.c` | 512-byte `buffer`, `cur_blk`, card or file | open, fetch, store, flush, crc | controller, monitor (`sd sf ss`), FAT reader; the SD card over SPI, or a file | `Fdc` (results), `SdCard` (AVR driver and card) |
| FAT reader, `fat.c` | BPB values, directory position, open file, cluster cache | `fat_init next chdir open seek read` | block driver's buffer, which it uses as its cache | `Fat` |
| USB console, `con_avr_cdc.c` | two rings, `state`, endpoint registers | `con_putchar getchar peek`, two interrupts | main program, USB host | `CdcConsole` |
| Soft UART console, `con_avr_uart*` | queue of 8 | the same, pin-change interrupt | main program, the line | `SoftUart`, `UartQueue` |
| File consoles, `con_posix.c con_uefi.c ...` | one look-ahead character | the same | terminal; the timer thread of Native Client | `FileConsole` (POSIX, Native Client) |
| Settings, `eeprom_*.c`, `machine.c` `mount`, `a on/off` | 512 bytes | byte read, byte write, image flush | monitor, boot | `Settings` |
| External I/O bus, `io_avr.c` | port pins | two-phase handshake with time-out | a device (`../ioext`) | `IoExt` |
| 8080 CPU, `cpu_8080.c`, `i8080.S` | registers, flags | step | memory, ports | `Cpu8080`, `Alu8080` (of `i8080.S` the arithmetic) |
| Monitor and boot, `machine.c` `prompt`, `machine_boot`, `boot`, port 1 | line buffer, `sd_fat`, `vt_cnv`, `esc` | commands, boot, escape sequences | everything | `Fat`, `Settings`, `Fdc`, `Cpu8080`, `Terminal` |
| Platforms, `platform_*` | | start, reset, sleep | machine | `CdcConsole`, `Fdc`, `FileConsole` |
| Memory chip, LED | | pin sequences | | not modelled |

How they interact: everything runs in one thread, except the interrupts of the
two AVR consoles, the external device on the I/O bus, the USB host, the SD card,
and the main thread of Native Client.  The components share the block buffer of
the driver, which is at once the controller's sector buffer, the FAT reader's
cache and the monitor's dump buffer.

What is hard to test:

* **Shared block buffer.** Sectors are a quarter of a block; a write is a
  read-modify-write through the buffer; results of fetches are ignored; the FAT
  cache has no invalidation.
* **Interrupts** between any two accesses of the console queues.
* **Restarts**: the process killed between a store and its arrival in the file, the
  power lost between two bytes of a setting, and the resets, which keep part of the state.
* **Handshakes** that time out on one side only; waits without a bound.
* **State that outlives its owner**: half an escape sequence, a look-ahead
  character, the FAT cache over a reset.
* **Numeric edges**: the position of a sector, the wrap of an index, decimal
  adjustment, words that wrap at ffff, 16-bit keys for 32-bit offsets.

What makes each component correct: the controller is a disk of independent
sectors; the FAT reader returns the block of the file at the given offset; the
consoles deliver characters once and in order, drop only what the code says it
drops, and never block for ever; settings are whole or absent after any restart;
the bus handshake pairs each address with its own data; a block fetched from the
card is the block asked for; the CPU computes what the 8080 computes; port 1 is
a screen with a cursor.

## 2. Modules

| module | about | checked by | proofs |
|---|---|---|---|
| `CpmDisk` | abstract: a disk of independent sectors | `fdc_avr`, `fdc_posix` (as a refinement) | |
| `Fdc`, `MCFdc` | the controller on the block drivers | `fdc_*`, `storage` | `Fdc_proofs` |
| `CdcConsole` | the USB console | `cdc_safety`, `cdc_softreset`, `devices` | `CdcConsole_proofs` |
| `SoftUart` | full duplex on one line, in quarters of a bit | `serial` | `Serial_proofs` |
| `UartQueue` | the input queue | `serial` | `Serial_proofs` |
| `Fat`, `MCFat` | the FAT reader under monitor, boot and controller | `storage`, `fat_fragmented` | `Storage_proofs` |
| `Settings` | the EEPROM and what the next start finds in it | `storage` | `Settings_proofs` |
| `IoExt` | the external bus and a device | `devices` | `Devices_proofs` |
| `SdCard` | the AVR block driver and an SD card | `devices` | `SdCard_proofs` |
| `FileConsole` | look-ahead, and the sleep of Native Client | `devices` | `Devices_proofs` |
| `Alu8080`, `MCAlu8080` | arithmetic and flags of both emulators | `programs`, `alu_daa_c` | `Programs_proofs` |
| `Cpu8080`, `MCCpu8080` | every instruction of `cpu_8080.c` | `programs` | `Programs_proofs` |
| `Screen` | abstract: what port 1 promises | `programs` (as a refinement) | `Programs_proofs` |
| `Terminal` | port 1 on a VT100 and under UEFI | `programs` | `Programs_proofs` |
| `Serial`, `Devices`, `Programs`, `Storage` | unions of modules for one run each | | `Devices_proofs`, `Serial_proofs`, `Programs_proofs`, `Storage_proofs` |

The four unions put components side by side that share no variable and never
call each other: a run of their interleavings would show nothing that separate
runs do not.  So a variable `part` chooses at the start which of them runs, and
the others keep their initial state.  The union gives most constants of the
modules it instantiates in `INSTANCE ... WITH`, assumes their assumptions, and
repeats their properties under their own names; `Fairness` is stated for each
part apart.  The conjuncts like `OnCard /\ ...` in it are needed because an action
of one part changes nothing else.  The proof modules of the unions carry the theorems of
the parts over to them: a step of a union is a step of the part that runs or leaves its
variables alone (`CardSteps`, `FatSteps`, `LineSteps`, `TermSteps`, ...), and what a part
never violates the union never does.

Several properties end with the first event that the code does not claim to
survive.  A history variable says when: `late` (a time-out on the bus), `faults` (the
card missed a command of its start, or was pulled out), `dropped` (an interrupt in the
timed write of the EEPROM), `mixed` (the monitor has used the block buffer behind
the FAT cache), `again` (two status polls without a read), `broken` (a program halted
inside an escape sequence), `disturbed` (a start bit in the blind quarter of
`uart_tx`), `overrun` (the input queue was full).  Others say what a property may compare
with: `seen` (the blocks of the image just read whose offsets have the same low 16 bits),
`damaged` (a write went outside the image), `owed` and `spoilt` (what the SD driver has
given up on and the card is still doing).  Section 12 says what happens after each of the
events.  Apart from `damaged`, after which only commands follow, and `owed` and `spoilt`,
which are what the card is doing and so decide what it answers, no action depends on them.

## 3. The disk: `CpmDisk`, `Fdc`

`CpmDisk` is what a program may rely on: a function from addresses (drive, track,
sector) to contents, five registers, and a medium that lags behind by at most the
sector written last.  A read changes only the addressed memory area, a write only
the addressed sector; a refused command changes nothing but the status.

`Fdc` is the code.  The image is counted in 128-byte records, four to a block, so
that the block buffer's sharing and the position arithmetic stay visible; the
contents of a record are a model value.  State and actions:

| model | code |
|---|---|
| `drive track sect disk_err dma_lo dma_hi wr_prt` | the static variables of `machine.c` |
| `buffer`, `cur_blk` | those of `sdcard_*.c` |
| `file` | the image as the driver reads it back |
| `card` | what the next start would find: equal to `file` on an SD card, behind it by what waits in the stdio stream on POSIX |
| `sram` | the memory areas a program uses for DMA |
| `Out...` | `out()` on ports 10-12, 15, 16 |
| `Command` | `out()` on port 13, with the fetch, the transfer and the flush |
| `FetchBlock`, `StoreBlock`, `WriteProtect` | monitor `sf`, `ss`, `wp` |
| `Restart`, `MonitorReset` | stop and start; `r` on POSIX (`longjmp`) |
| `Poke` | a program fills an area |

Two constants tell the drivers apart: `CurBlkFirst` (the AVR driver sets `cur_blk`
before the fetch and fails before the first byte; the file drivers set it after a
full read, and a partial read leaves a mixed buffer) and `WriteBehind` (POSIX).
UEFI and ESP32 are the remaining combination (both FALSE).  Errors are constants,
too: with `ReadErrors` and `WriteErrors` FALSE a transfer still fails outside the
image.  DMA areas are 128-byte pages of memory (`DmaLo` is 0 or 128), so areas do
not overlap; overlapping areas would need a model of memory by bytes.

`Restart` is a loss of power on the AVR, whose driver returns when the card has
programmed the block.  On POSIX it is the end of the *process*: killed, or by Ctrl-C.
What `fseek` has pushed out of the stream (`sdcard_posix.c:72`, `:84`) is then with the
kernel and stays in the file; what `fwrite` left in the stream may be gone.  The driver
never calls `fflush` or `fsync`, so that nothing bounds what a power failure of the *host*
takes back: the kernel may hold any number of acknowledged writes.  No property here
promises anything for that case.

| run | shows |
|---|---|
| `fdc_avr` | `TypeOK`; the AVR controller implements `CpmDisk`, stores may fail, `sf` may come between commands |
| `fdc_posix` | the same for POSIX, and the bound on what a kill of the process loses |
| `fdc_avr_errors` | any fetch may fail and the failure is ignored: the damage stays in the addressed block |
| `storage` (part "short image") | `TruncatedStaysInBlock`: on POSIX with an image that ends inside a block, the damage stays in the addressed block and the one fetched before |
| `fdc_z80pack` | (violation) a 256256-byte image loses acknowledged writes to its last two sectors and damages another block |

Bounds: three blocks of the image, among them block 500, which holds the end of
drive A and the start of drive I, and block 6, so that two sectors of one drive
lie in different blocks; drives A, B (which has no image) and I; two values; one
or two areas.  The handlers treat all blocks alike, so a third block adds nothing
but the distinction between the addressed block, the stale one and an untouched
one.  `BiosSpec` restricts the commands to sectors of the geometry and leaves out
`ss`, which overwrites any block by design; `Spec` has everything.

Known limit: the position of a sector of drive A is not checked against the
drive's 77 tracks (`machine.c:868`), so that a program which asks for track 77 or
above gets sectors of drive I.  The BIOS never does.

### Proofs (`Fdc_proofs`)

`ConstantsAssumption` is the only assumption of the typing and containment
theorems; the refinement and the bound on a restart assume `Reliable`: every sector of
the BIOS lies in the image and fetches do not fail.

* `RecordInjective`: the position arithmetic, with its wrap-around, maps the
  sectors of both drives to different records.
* `Typing`: `Spec => []TypeOK`, one lemma per action.
* `CommandContained`: `Spec => CommandStaysInBlock`, without any assumption on
  errors.  It follows from the type invariant and the shape of a store.
* `Refinement`: `BiosSpec => ImplementsCpmDisk`.  The key lemma is that after a
  successful fetch of the addressed block the patched buffer, stored back, is the
  old image with one record replaced; with `RecordInjective` this is the update of
  one sector.
* `CrashBound`: the abstract disk's `LagsByOneSector`, carried over.

## 4. The FAT reader and mounted images: `Fat`, `MCFat`

`fat.c` keeps its place by pointers into the block buffer of the driver and a cache
of one cluster key: (`last_cluster`, `last_offset`), the offset cut to 16 bits, says
which block the buffer holds.  `Fat` knows the buffer by its block (`cur_blk`) and
counts offsets in directory entries.  A scan of a directory is one action with
the caches it leaves behind; the monitor's commands and the controller's reads
come between any two of them.

| model | code |
|---|---|
| `FetchCluster`, `Hit`, `Hops` | `fetch_cluster`: cache, walk along the FAT, fetch |
| `ScanAll`, `ScanStops`, `Matches` | `fat_rewind` and `fat_next` repeated, to the end or to a match |
| `FatOpen`, `MountIn`, `FatSeek`, `DiskRead` | `fat_open`, `mount`, and `fat_seek` and `fat_read` under `disk_read` |
| `Ls Cd CdRoot Mount SdFetch` | the monitor commands `ls`, `cd n`, `cd`, `m`, `sf` |
| `MachineBoot`, `Boot`, `BootRead`, `Halt` | start or `r`, `b`, `boot()`'s reads, HLT |
| `Command` | port 13 on the mounted image |

What a read gives.  The walk of `fetch_cluster` (`fat.c:87`) follows `offset > cluster`
links, one too few when the offset is exactly a cluster's length: the first block of a
cluster is read from behind the cluster before.  That is right where the clusters of a
file follow one another.  And the cache's key is the offset cut to 16 bits (`fat.c:81`), so
that in a file of more than 64 KiB, as every CP/M image is, a read of block b+128 directly
after one of block b gives block b again, and a write after it goes there.
`ReachesItsBlock` states exactly this: the block that `boot()` and the controller get is
that of an offset in `seen`, the blocks read in a row just before that have one key, at its
place in the file, or the walk ended at the first block of a *piece* (`BeginsPiece`, a
cluster that does not follow the one before it on the card).  For an image of at most
64 KiB in one piece `seen` has one member and the property is `FileRead`: the block is the
one asked for (`PlainImageRead`).

`StaysInImage`: whatever block is named, a write lands outside the image only if it is on
the first block of a piece (`fat_seek` refuses a block past the end and leaves the old
position).  After such a write (`damaged`) the model lets commands follow but not the
monitor, as directory and FAT may be overwritten.
`MountFindsFile`: `m` and the automatic mount find a file that is in a directory in one
piece, with the right cluster and size.  The first and the last hold until `sf`, `cd` without
a name, `r` or a boot without a mounted image bring another block into the buffer than
the cache believes (`mixed`); `ReachesItsBlock` holds again once `boot()` has loaded its
blocks.  The boot without an image is in that list because of `cd .`: after it the cache
has the key of the directory's first block, the boot reads the card's own blocks into the
buffer, and the next `m` scans one of those.  A boot of an empty file never reads its own
blocks, and sets `mixed`, too.

`Layout` names the cards that these properties are about: every file has the clusters its
size needs, in any order; a file is no directory; the names of a directory differ; no file
is exactly one block long, and a boot loads more than one (a boot reads block 0 and then,
at the end of a file of one block, block 0 again, which never evicts a stale buffer).  A file
may be empty: `fat_seek(0)` then fails and the offset of the file before stays
(`TypeOK` bounds it for files that are not empty only).

Run `storage`: a root directory of four blocks with the entry of a file in its second, a
directory SUB with its entries `.` and `..` and an empty file; DISK1 of 6 blocks where the
key tells 4 apart, so that blocks 0 and 4 share a key; DISK2 of 3 blocks in two pieces;
DISK3 of 2; clusters of two blocks, a boot of two, commands on blocks 0, 1, 2, 4 and 6, the
last of them past the end of each; all monitor commands.  The run meets both ways to another block: block 0
read for block 4, and a write outside the image at DISK2's second piece.  Run
`fat_fragmented` (violation of `FileRead`): with DISK1 in clusters 2 and 8, the block
behind the first cluster is read for the first block of the second.

### Proofs (`Storage_proofs`)

For every card of the `Layout`, files of every length in any clusters, every size of
cluster, directory, cache key and boot, and every set of names and commands: `FatTyping`,
`BlockReached` (`ReachesItsBlock`), `ImageKept` (`StaysInImage`), `MountedFileFound`
(`MountFindsFile`), and `PlainImageRead` (`FileRead` of the images it holds for).

* `ChainStep` unfolds the recursive function `Chain` once.  A recursive definition is a
  CHOOSE, so a function that satisfies the equation has to be shown first
  (`ChainExists`); it is built from the walks of every length (`WalksExist`,
  `WalksAgree`).  The inductions use `NatInd`, induction for a *set* of numbers, which
  follows from the least element of a set (`LeastElement`).
* `ChainEnds`, `HopsBlocks`, `WalkStops`, `LocatedIs`, `WalkReaches`: where the chain
  reaches a block, the walk of `fetch_cluster` stops in the cluster of that block or, for the
  first block of a cluster, in the one before, and finds the block of the layout unless the
  two clusters are apart.  `Places`: no cluster lies over the FAT's block, by which the
  model tells that a chain ended.
* The invariant `IInv` is built around `Honest`: the buffer holds the block the cache
  says, at the *full* offset of the fetch, of which `Hit` compares the low bits only.  It
  holds while not `mixed` (`Cached`).  `Traced` ties the cache to `seen`: all of it has one key,
  and as long as the cache's cluster is the file's, its offset is one of `seen`.
  `Settled` follows a boot after the buffer was mixed: block 0 may be a false hit, block 1
  has another key and is fetched, and from then on the cache is right again.  `Opened`: the
  open file's chain is long enough, and is no directory's, so that a scan cannot leave the
  file's key in the cache.  The properties alone are not inductive: what a read
  gives depends on what the cache claims, which they do not mention.
* `ScanFinds`: a scan that starts with a right cache meets every block of the directory
  up to the entry's; of the entries with the name it takes the first, and names differ.

Left out: FATs longer than one block, 12-bit and 32-bit entries (which the code does not read
either), failing fetches (Section 3 has them for raw images), and what a monitor command
finds after a write outside the image.

## 5. The settings: `Settings`

The mark of the EEPROM, the automatic boot and the name of the mounted image are
written byte by byte; the mark of a name is cleared first and set last.  Every byte is
a step and the emulator may stop between any two (`PowerCycle`).  Three kinds of EEPROM:
`"avr"` (a cell takes time to program: a power failure leaves anything in it, and an
interrupt between the two instructions that start a write makes the hardware drop
it), `"posix"` (an image file, loaded at the first access, flushed at each write), and
`"refill"` (UEFI and U-Boot, whose load never gives a byte).  On `"posix"` the stop is a
kill of the process: what `fflush` has handed to the kernel stays in the file.  Nothing
calls `fsync`, and nothing is claimed for a power failure of the host.  The array of
`eeprom_espidf.c` is not modelled: it lives in RAM, starts with both marks set, and is never
saved (its TODO says so), so that no setting outlives a start on ESP32.
  `InitializeCells`,
`LoadSettings` and `LoadAutoBoot` are `machine_boot`; `SetAutoBoot`, `MountName` and
`Reset` the commands `a`, `m` and `r`; `WriteNext` one `eeprom_write` of the sequence
under way.

`okAuto` and `okName` hold what a start may find: the values of the commands that
were completed, and while one is under way its old and new value.  `NameWhole` says
that a marked name is one that was given to `m`, never a mixture; `AutoBootKept` and
`MountKept` that the next start finds what the completed commands said.  They hold
with the back ends avr and posix (run `storage`, 7 cells, two names, one the
beginning of the other, so that a terminating 0 that is missing or late shows).  With
`"refill"` the last two do not hold (Section 12), and the run leaves it out.

### Proofs (`Settings_proofs`)

For every size of the EEPROM and every set of names that fit into it: `Typing`,
`WholeNames` (`NameWhole`), and for back ends without `"refill"` `AutoBootFound`
(`AutoBootKept`) and `MountFound` (`MountKept`).  The invariant says, for each step of
each sequence of writes, which cells already have their new value and which still
the old, so that the mark is absent from before the first byte of a name differs until
after the last is written; and that the cell under programming is the one of the step
before.  `Storage_proofs` states the same of the union (`NamesStayWhole`, `AutoBootFound`,
`MountFound`), and from `Fdc_proofs` `TruncationContained` (`TruncatedStaysInBlock`).

## 6. The SD card: `SdCard`

The driver of the AVR builds sends a command and shifts in the answer; the model's
step is a command, and `out` is what the card has still to shift out.  A bit the card
does not drive reads as 1.  `Open`, `GoIdle`, `SendIfCond`, `SendOpCond`, `AppCmd`,
`SdSendOpCond` and `ReadOcr` are `sdcard_open`; `Fetch`, `FetchAnswered`, `Token`, `Data`
are `sdcard_fetch`; `Flush`, `StoreAnswered`, `DataResponse`, `NotBusy`, `BusyTimeout` are
`sdcard_store` through `sdcard_flush`.  The machine ignores the results (`machine.c:873`): it
fetches after an open that failed, and flushes after a fetch that failed.

The card (`CardCmd`, external) may be absent, of the first or second version or SDHC,
need some polls, miss a command, answer a read with an error token, refuse the data of
a write, take longer than the driver waits, and be pulled out at any moment (`Remove`).
Three things follow that the driver cannot tell:

* It reads the 512 bytes of a block without looking at any of them.  A card pulled out
  in between leaves ones in the buffer, and the fetch reports success; so does an error
  token, whose low bit `sd_busy` takes for the beginning of the data.
* A card pulled out while it programs a block looks ready, as the line is pulled up, and the
  store reports success.  The block (`prog`) then holds the old contents, the new, or neither.
* When the driver has given up on a card, the card may still answer (`owed`); a call
  that begins before it has finished (`spoilt`) takes the bits on the line for its own answers
  (`Noise`).

`CcsRight`: block numbers or byte addresses, as the card wants.  `FetchRight`: a
fetch that reports success leaves the block asked for in the buffer; never another block,
and no block at all (`Junk`) only in the cases above.  `StoreRight`: a flush that reports
success has stored the buffer in the block fetched last, except in the cases above; and
a block of the card changes only to what a flush meant for it.  Both hold as long as the
card missed no command of its start, after which the unit of addresses may be wrong.
`Returns` (part of `CallsReturn`): every call comes to its end, and `sdcard_open` too
unless the card misses commands or is pulled out while it starts.

Bounds (run `devices`): blocks 1 and 512 (512 is the number that is the byte address of block
1, so that a wrong unit hits the other block), two contents, two polls.  Left out: clock
edges; the checksum, which is read and never compared; the monitor's `so`, which opens the
card again (`machine.c:397`), and `ss`, which stores the buffer in any block (`machine.c:456`).

### Proofs (`SdCard_proofs`)

For every set of blocks and contents and any number of polls: `Typing`, `UnitKnown`
(`CcsRight`), `FetchExact` (`FetchRight`) and `StoreExact` (`StoreRight`).  The invariant
says what the card may still have to shift out at each of the driver's waits
(`Answer`), what the driver has found out of a card that missed nothing (`Recognized`),
that a token on its way has the contents of the block that was meant, that the block being
programmed is the one of the call under way or of the one given up on, and what the card may
still be at when a call begins.

## 7. The external bus: `IoExt`

The host (`io_out`, `io_in`) and a device that follows the protocol as `../ioext`'s
example does share four control lines and eight data lines.  Each wait of either
side and each change of the lines is a step; the host may give up in the address
phase (`GiveUp`, the 65535 polls of the code), the device may be slow at any point.
`OtherBusUse` is `sram_avr.c`'s use of the same port between two operations.

`BusReleased`: the two never drive the data lines together.  `Paired`: an
operation that returned took place at the device, at its port, in its direction and
with its data; `data` is what `io_in` read from the lines and returns.  Both until the first time-out (`late`).  `Returns`: every operation
comes to its end, after time-outs too.  Fairness: the host goes on, the device's
loop runs; neither has to be called.  Bounds: two ports, two data bytes.

### Proofs (`Devices_proofs`)

From `IoAssumption` (ports and data are bytes), for every set of ports and data:
`Typing`, `OneDriver` (`BusReleased`), `OperationsPaired` (`Paired`).  The inductive
invariant gives, for each place of the host, where the device can be and what it has
taken by then (`Before`, `InPortPhase`, `BetweenPhases`, `InDataPhase`, `AfterPhases`),
and ties /READY and the device's direction to its place.  `Paired` alone is not
inductive: that the device has taken the port is known only from the place where it
waits.  The last-named parts hold before a time-out only; typing and the
line invariants hold always, and the proof keeps them apart for that reason.
The module also has the theorems of the union `Devices`: `DevicesTyping`, and `CcsRight`,
`FetchRight`, `StoreRight`, `OneWakeup` and `NothingLost` of its parts.

## 8. The file consoles: `FileConsole`

`con_peek` of `con_posix.c` sleeps, reads a character and keeps it for `con_getchar`.
Under Native Client the sleep blocks the emulator's thread on a mutex that the timer
callback of the main thread unlocks every 10 ms when `thread_block` is set
(`platform_nacl.cc`).  `Status` and `GetLookahead`/`GetPeeks` are ports 0 and 1;
`Block`, `Wake` the sleep; `TimerClears`, `TimerUnlocks` the two steps of the callback;
`PeekReads` `fgetc` and what the caller does with the answer.

`OneWakeup`: while the thread waits for the mutex, exactly one wake-up is on its way
(the flag, the callback's next step or the open mutex), and at any other time none: no
wake-up is lost, and no sleep ends on the wake-up of another.  `NothingLost`: every character
reaches the program once and in order, until the program asks for the status twice
without reading (`again`).  `SleepEnds` under fairness of the thread's unblocked steps
and of the timer.  Bound: four characters.

### Proofs (in `Devices_proofs`)

For any number of characters, the types (in `DevicesTyping`), `HandOff` (`OneWakeup`, inductive
with the types) and `Lookahead` (`NothingLost`).  The last needs `PeekedOnce`: before
the status is asked for twice, the program knows whether the look-ahead is filled,
and `con_peek` is reached with an empty one only.

## 9. The processor: `Alu8080`, `Cpu8080`

`Alu8080` has the arithmetic twice: as `cpu_8080.c` computes it, where the carries are
recovered by comparing wrapped bytes, and as the AVR's instructions in `i8080.S` do,
whose half carry and carry are those of its adder.  `MCAlu8080` runs every sequence of
arithmetic instructions over eight operands at the boundaries.  `EmulatorsAgree`: in
every state reached, for the operands of the instructions and every seventeenth byte
(both digits take all their values), both give the same accumulator and flags
for the eight operations, the rotates, INR, DCR and DAD.  DAA is left out: the run
`alu_daa_c` (violation of `DecimalSums`) shows that the C emulator's is wrong for 99+01.

`Cpu8080` is `cpu_8080_step` with one action for each class of opcodes (their cases
differ in the registers that bits of the opcode name), and `boot()`'s start of it.
`MCCpu8080` runs every program of three instructions out of 28 that move data and
every one out of 22 that jump, call and use the stack, placed so that words wrap at
ffff, with a record of the words pushed.  `WordsComeBack`: what POP, RET and XTHL take is
what was pushed at that address, whatever lies between.  `Framed`: an instruction
stores only the bytes its opcode names, moves SP only if it is a stack instruction, and
the next one executed is the next in memory or its destination, so that operands are never
executed.  What the disk controller writes into memory for an OUT to port 13 is no part of
the instruction and left out (`Fdc` has it).  Bound: eight instructions executed, which loops reach.  (Run `programs`, with
the terminal: 471617 states.)

### Proofs (`Programs_proofs`)

For every memory the host may load, every answer of a port, every accumulator, flag byte
and operand: `ProgramsTyping` (with `WidthsKept`, the part of the processor),
`SameResults` (`EmulatorsAgree`), `NothingElseTouched` (`Framed`) and `WordsReturn`
(`WordsComeBack`).  The bounds `MaxSteps` and `Length` are arbitrary.

* The arithmetic.  `Flags` is the bridge: the parity table of `cpu_8080.c` is the parity
  counted by `par_set`.  `Adder` and `Subtracter` show, for the byte and for the half
  byte, that a comparison of the wrapped result with an operand (`r < a + c`) is the
  carry the adder gives; `Logic` handles AND, OR and XOR bit by bit, `TwoBytes` the sum of
  DAD from those of its two bytes.  `ArithmeticAgrees`, `AccumulatorAgrees`, `CountsAgree`
  and `WordsAgree` are the four comparisons.  They hold for *all* operands, of which TLC
  takes the boundaries.
* The processor.  `ProgramsInv` is `CpuInv` (registers are bytes, SP and PC words,
  memory is a function from words to bytes), `AluInv` and `Remembered`: every word in the
  record is still in memory.  `StepTyped` and `StepFramed` have one lemma for each class
  of opcodes (`MoveTyped`, `MoveFramed`, ...).
* `WordsComeBack` is not inductive: it speaks of the moment a word is taken, and only
  of the address SP has then.  `Remembered` speaks of all addresses at all times.  That a
  step keeps it rests on `Framed`: the record drops what the step may have stored to
  (`Targets`), and everything else is untouched (`LoadsKept`).  The wrap of a word at ffff
  enters through `NextPlace` and `StackMoves`.

## 10. The terminal: `Screen`, `Terminal`

`Screen` is what port 1 promises: characters, `1a` and `ESC ;` clear, `ESC = row column`
moves the cursor.  `Terminal` is `out(1, val)` with its static `esc` and `row`, on a VT100
that reads the translated sequences byte by byte (external), and on UEFI's console,
whose services are called.  `ImplementsScreen` is the refinement, stated step by
step: each `Out(val)` is `Screen`'s `Write(val)`, the prompt after HLT is a write of `>`, the
monitor's `vt` is `Mode`, a boot is nothing.  The row of an unfinished address is found
in the number the VT100 is reading, from where the refinement mapping takes it.  It
holds until a program halts inside a sequence (`broken`).  The variable `efi` is the build,
chosen at the start.  Run `programs`: a screen of 2x2 in both builds, bytes for each of
the code's distinctions, among them 14, which is below the offset of 20 hexadecimal and
goes to the VT100 as a number of five digits, and 3e, which is outside of the screen.

### Proofs (`Programs_proofs`)

For every size of the screen and every set of bytes, in both builds: `ScreenKept`
(`ImplementsScreen`), and the terminal's part of `ProgramsTyping`.  `TermInv` says what the
refinement mapping relies on and the property does not: between two bytes of the
program the terminal reads text, or one number of 16 bits, and then only while the
column is awaited (`Held`); and as long as no program has halted inside a sequence, none
is open in the monitor or without conversion, and a column awaited means that the terminal
has its row (`Whole`).  `Settled` has the types.  There is one lemma for each state of
`esc` (`CharacterStep`, `EscapeStep`, `RowStep`, `ColumnStep`), and `HaltStep`, `ModeStep`,
`BootStep`.

A string sent to the VT100 is read by the recursive function `After`.  An induction over
strings is out of the prover's reach, but the strings of `out` have 7 bytes at most:
`Unfold` builds the states such a string leads through, from which `ReadsRow`,
`ReadsColumn` and `ReadsErase` follow byte by byte.  `FiveDigits` shows that the five
digits of `con_putnum_u16` make the number again, for every number modulo 2^16, so for
the negative ones, too.

## 11. The AVR consoles

### The USB console: `CdcConsole`

The main program and the USB interrupts share two rings.  The main program is cut
at every access to a shared variable (`pc`); the interrupt handlers are atomic, as
interrupts do not nest here.  The endpoint registers are reduced to what decides
the control flow: `TXINE` and `TXINI` of endpoint 3, the packet in endpoint 2, the
request in endpoint 0.

| model | code |
|---|---|
| `PutCall PutSpin PutStore PutAdvance PutArm` | `con_putchar` up to its next shared access |
| `GetRead GetTake` | `con_getchar`; `Peek` is `con_peek` |
| `WaitReady` | the last loop of `con_init` |
| `SoftReset` | `platform_reset` of `platform_avr.c`: the variables start over, the USB module does not (one step: the start-up code disables interrupts before it clears the variables, and `con_init` returns before it enables them) |
| `UsbCom` | `USB_COM_vect`: receive, transmit, control request |
| `BusReset` | `USB_GEN_vect` on a reset of the bus |
| `Host...` | the host takes a packet, sends one, sends a request |

Characters are numbered; history variables record what was put, sent, kept and
read.  Control requests are reduced to their effect on `state`.

| run | shows |
|---|---|
| `cdc_safety` | `TypeOK`; `TxExact` and `RxExact`: no character lost, duplicated or reordered between program and endpoint; `PeekHolds`: what `con_peek` announced stays there |
| `devices` (part "usb") | `PutReturns`, `TxDrains` |
| `cdc_softreset` | (violation) input after a software reset loses its first byte |

Bounds: rings of 4 (the code has 16 and 4; 4 and 2 in `devices`), which five characters
per direction fill and wrap; packets of one byte and of more than fit; one reset.
Fairness (`devices`): a pending interrupt is served (`UsbCom`), `con_putchar` and
`con_getchar` run on once called, the host takes packets, and after a bus reset the host
sends the requests of an enumeration, which is what makes the USB a bus; nothing is
assumed of the program's calls.

Proofs (`CdcConsole_proofs`): the inductive invariant describes both rings slot by
slot from the read index, and adds what the program counter knows: between the end
of the spin and the advance of the index there is room, after `PutStore` the slot holds
the character, after `GetRead` the local variable holds the oldest byte.  Without
these facts neither exactness property is inductive, because the interrupt may come at
each of those points.  From it follow `Typing`, `TransmitExact`, `ReceiveExact` and
`PeekTrue` (`PeekHolds`), for
rings and packets of every size (at least 2 slots), from `SizesAssumption` alone.  The
bounds `MaxPut`, `MaxSent` and `MaxResets` are arbitrary in the proofs.

### The soft UART: `SoftUart`, `UartQueue`

The ATmega88 has no UART for its console.  `uart_tx` sends a character by setting a
pin and, four times per bit, looks whether the terminal has begun one; if so, it
samples the incoming bits at that phase.  Otherwise a pin-change interrupt receives.
The two modules look at two different things: the time on the line, and the queue.

`SoftUart` counts time in quarters of a bit, the length of `wait` in the assembler;
`x4wait` is four of them.  `Tick` lets one quarter pass: `Receive` is the inside of
`uart_rx`, `Send`, `SendRest` and `SendStop` the parts of `uart_tx` before, during and
after the stop bit while a character comes in.  `Interrupt`, `RxDone` (end of
`uart_int`), `PutCall`, `PutReturn` and `PutPoll` (`con_putchar` around `uart_tx`)
take no time.  `Starts` is the terminal, free to start a character at any quarter once
the previous stop bit is over.  `owed` is what it has begun and nobody has pushed.

`UartQueue` cuts `con_getchar` at its accesses to the queue; `UartInt` may come
between any two of them.  A character pushed by `con_putchar` is the same action, at a
time when the main program is not in `con_getchar`.

Run `serial`: `DuplexExact` (what the terminal sends is received once, in order and
with the right bits, at every offset to what is being sent, back to back included),
`FramesExact` (the output is never disturbed by reception), `Exact` until a character
comes while 7 wait, `InOrder` always, `PeekKept` (port 1 does not wait after port 0 said
ready).

`DuplexExact` has one exception, and without it TLC finds a counterexample: a start
bit in the last quarter before the stop bit (`BlindQuarter`).  `uart_tx` looks for the
last time at the beginning of that quarter, and when `con_putchar` polls the pin four
quarters later the start bit is over.  The property is suspended from there until the
line is quiet; no comment in the code claims more.

`UartPush` keeps the code's test, which compares with the index before it is masked:
with the write index at 7 and the read index at 0 the queue is full but the test says
no, and the queue then looks empty.  `Exact` ends where the first character finds the
queue full, so it does not depend on this; `InOrder` goes on and shows that even a
wrap in the middle of `con_getchar` makes no old character come back.

Bounds: 3 data bits (the loops are the same for 8; one more multiplies the states by
sixteen), every pair of characters; a queue of 8 slots as in the code and 20
characters, enough for two wraps with overruns.  Assumed: both ends have the same
clock; the cycles between two waits take no time.

Proofs of the queue (`Serial_proofs`), for every size: `Typing`; `ExactReceipt` and
`PeekTrue` from the invariant `InFlight`, which says what each waiting slot holds as long
as nothing overran; `InOrderReceipt` from `Rising`: the slots the reader may still visit
hold rising numbers above the last one returned.  The point of `Rising` is `Span`: when
the indices are equal while `con_getchar` is between its test and its advance, the
interrupt has gone round, and all slots, not none, lie before the reader.

Proofs of the line (`Serial_proofs`, too), for every number of data bits (`BitsAssumption`: at
least one) and every pair of characters at every offset: `SerialTyping`, `FrameKept`
(`FramesExact`) and `DuplexKept` (`DuplexExact`); `QueueKept` has those of the queue for
the union.  The inductive invariant `LineInv` has three layers.  `Control`
and `Counts` hold always: the interrupt is on exactly while neither `uart_tx` nor
`uart_rx` runs, and the number of samples follows from the quarters gone by.  `Frame` says
how long a character has been going out, and gives `FramesExact` alone.  `Duplex`,
suspended with `disturbed`, says for each place of the receiver where the terminal is in
its frame and which bits are sampled: `Receiving` (at most three quarters behind the start
bit), `Looking`, `Sampling` (the position follows from the number of samples and the
phase), `Stopping`, `Finishing`, `Waiting`.  `DuplexExact` is not inductive because it speaks only of the
moment of delivery.  `Stopping` is where the blind quarter shows: a character that begins at
`n = 0` keeps `pos = n`, and at the last look, four quarters later, its start bit is over; one
that begins later satisfies `pos < n` and is found.

## 12. Results

### Where code and claim part (runs that expect a violation)

* `fdc_z80pack`: the README says an image can be used for z80pack; the last two
  sectors of such an image lie in half a block, `sdcard_fetch` fails and `disk_read`
  ignores it, so that a write there reports success and replaces another sector.
* `cdc_softreset`: `con_init` returns early on a software reset "to keep the CDC
  functionality available", but `state` starts over, and the next byte is thrown away.
* `fat_fragmented`: Section 4.
* `alu_daa_c`: the C emulator's DAA tests the high digit before the carry of the low
  digit's correction reaches it.

### Known limits, without a run

These are read off the models; each is the reason for a condition in a property.

* `i8080.S:738`: the DAA of the AVR emulator is left out of `EmulatorsAgree`.
* `fat.c:81`: the cache compares 16 bits of an offset; in an image of more than 64 KiB
  (`KeyBlocks` blocks, 128 in the code), as every CP/M image is, a read of a block directly
  after one 128 blocks before or behind it gives the earlier block, and a write after it goes
  there.  This is an error of the code; `ReachesItsBlock` says how far it goes, and run
  `storage` reaches it.
* `fat.c:80`: nothing invalidates the cache when `sf`, `cd`, a reset or a boot without an
  image changes the buffer; the mount of the stored name after `r`, or of a file after
  `cd .`, `b` and HLT, may read a stale block (`mixed`).
* `eeprom_avr.c:44`: interrupts are on while a write is started, and a dropped write is
  not noticed (`dropped`).
* `eeprom_uefi.c:46`: the load's error paths are taken on success, so that settings are
  cleared at every start (`"refill"`).
* `io_avr.c:107`: after a time-out the device may still answer, and both may drive the
  lines (`late`).
* `con_posix.c:145`: a second status poll forgets the character of the first (`again`).
* `sdcard_avr.c:217`, `:219`, `:246`: an error token is taken for the beginning of data, and a
  card pulled out in the middle of a block or while busy is reported as a success
  (`FetchRight`, `StoreRight` name the cases).
* `sdcard_avr.c:199`: a CMD58 that is missed leaves the wrong unit of addresses (`faults`);
  `:191`: a card that stops answering keeps `sdcard_open` in its loop.
* `io_avr.c:86`: a device that stops in the middle of an operation hangs the machine; the
  fairness of `CallsReturn` assumes that it goes on.
* `con_avr_uart.c:74`: an overrun with the write index at 7 loses eight characters instead
  of one; `Exact` has ended by then, and `InOrder` allows it.
* `sdcard_posix.c:72`, `eeprom_posix.c`: nothing calls `fsync`; a power failure of the host
  may take back any number of acknowledged writes.
* `machine.c:785`: a program that halts inside an escape sequence leaves its rest to the
  next one (`broken`).
* `machine.c:868`: tracks 77 and above of drive A reach drive I.

### Proved, and only model-checked

Proved for every value of the constants: the theorems of `Fdc_proofs`,
`CdcConsole_proofs`, `Serial_proofs`, `Devices_proofs`, `SdCard_proofs`, `Settings_proofs`,
`Programs_proofs` and `Storage_proofs` above.  They state every invariant and every action
property of the runs that are to pass.  Their only hypotheses are the assumptions of the
modules (`...Assumption`), which TLC evaluates in the runs, and where it says so
`Reliable` and the absence of `"refill"`.

Model-checked only, on the bounds above:

* All liveness (`CallsReturn`, `SleepEnds`, `PutReturns`, `TxDrains`): out of the prover's
  reach, as is everything with ENABLED.
* What the runs that expect a violation refute.

The proofs found three things about the models.  `TypeOK` of `Fat` first said that the offset
is inside the file; an empty file refuted it.  And `MountFindsFile` turned out to need the
boot without an image among the events that set `mixed`, which TLC confirmed once the card
had a directory with a `.` entry (Section 4).  In `Framed`, the destination of an RST and
of a jump were two cases of one CASE with guards that both hold for an RST: TLC takes
the first, the logic leaves the choice open, and the proof for RST failed until the
guard of the second excluded it (`Destinations`).

### Not modelled

* `eeprom_espidf.c` (Section 5); the failure returns of `ep_init` (`con_avr_cdc.c:316`).
* `con_uefi.c`, `con_uboot.c`, `con_espidf.cc`: each operation is one call of the firmware.
* Of `i8080.S` the fetch loop, loads, stores and jumps; of `con_avr_cdc.c` descriptors,
  waits inside control transfers and the tick counter.
* The prompt's line editor, dumps, memory edits and messages of the monitor.
* The end of the Native Client plug-in (its destructor joins a thread that never ends).
* `sram_avr.c` and the LED: pin sequences in a fixed order, pure output; clock and
  pin set-up; `con_base.c`'s number formatting except where digits matter (`Terminal`).
