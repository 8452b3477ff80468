-------------------------------- MODULE Storage --------------------------------
(* What must still be right after the next command or the next start: where  *)
(* the blocks of a disk image lie in a FAT file system (Fat), the settings   *)
(* in the EEPROM (Settings), and an image that ends inside a block (Fdc).    *)
(* Fat takes the stored name as a whole, Settings shows that it is one; no   *)
(* two of them share a variable, and one of them is chosen to run.           *)
EXTENDS MCFat, Sequences

VARIABLES
  part,                                                     \* what runs
  backend, stored, exists, image, loaded, busy, monitor, job, arg, step,
  want, okAuto, okName, dropped,                            \* Settings
  drive, track, sect, disk_err, dma_lo, dma_hi, wr_prt, buffer, fdc_blk,
  fdc_file, fdc_card, sram                                  \* Fdc

settingsv == <<backend, stored, exists, image, loaded, busy, monitor, job, arg, step,
               want, okAuto, okName, dropped>>
fdcv == <<drive, track, sect, disk_err, dma_lo, dma_hi, wr_prt, buffer, fdc_blk,
          fdc_file, fdc_card, sram>>

(* Two names, one the beginning of the other. *)
Eeprom == INSTANCE Settings WITH
  Size <- 7, MountNames <- {<<65>>, <<65, 66>>}, Backends <- {"avr", "posix"},
  file <- stored, buffer <- image, mode <- monitor

(* The records of an image of 77x26x128 bytes: block 500 is half there.      *)
ShortImage == {0, 1, 2, 3, 24, 25, 26, 27, 2000, 2001}

Short == INSTANCE Fdc WITH
  Value <- {0, 1}, Zero <- 0, Records <- ShortImage, Images <- {[r \in ShortImage |-> 0]},
  Drives <- {0, 1}, Tracks <- {0, 76}, Sects <- {26}, DmaLo <- {0}, DmaHi <- {0},
  Commands <- {0, 1}, MonBlocks <- {0}, Sectors <- {},
  ReadErrors <- FALSE, WriteErrors <- TRUE, CurBlkFirst <- FALSE, WriteBehind <- TRUE,
  cur_blk <- fdc_blk, file <- fdc_file, card <- fdc_card

ASSUME StorageAssumption ==
  FatAssumption /\ Layout /\ Eeprom!SettingsAssumption /\ Short!ConstantsAssumption

StorageInit ==
  /\ part \in {"fat", "eeprom", "short image"}
  /\ Init /\ Eeprom!Init /\ Short!Init
  /\ part # "fat" => eeprom = None

OnFat == part = "fat" /\ UNCHANGED <<part, settingsv, fdcv>>
OnEeprom == part = "eeprom" /\ UNCHANGED <<part, vars, fdcv>>
OnShort == part = "short image" /\ UNCHANGED <<part, vars, settingsv>>

StorageNext ==
  \/ OnFat /\ Next
  \/ OnEeprom /\ Eeprom!Next
  \/ OnShort /\ Short!Next

StorageSpec == StorageInit /\ [][StorageNext]_<<part, vars, settingsv, fdcv>>

-------------------------------------------------------------------------------
(* Offsets, cells and sequences keep to their ranges (TypeOK of Fat and of   *)
(* Settings).                                                                *)
StorageTypeOK == TypeOK /\ Eeprom!TypeOK

(* A name marked valid is a name that was given to m (mount).                *)
NameWhole == Eeprom!NameWhole

(* The next start boots as the last command a said (machine_boot).           *)
AutoBootKept == Eeprom!AutoBootKept

(* The next start mounts the image mounted last (machine_boot, mount).       *)
MountKept == Eeprom!MountKept

(* On an image that ends inside a block, every fetch of that block fails,    *)
(* and a write there changes no other block than the one fetched before      *)
(* (sdcard_posix.c).                                                         *)
TruncatedStaysInBlock == Short!CommandStaysInBlock
===============================================================================
