------------------------------- MODULE MCFdc -------------------------------
(* Instances of Fdc for TLC.  Sector 26 of track 76 of drive A and sector 1  *)
(* of track 0 of drive I are neighbours in block 500 of the image.           *)
EXTENDS Fdc

McBlocks == {0, 6, 500}
McRecords == {4 * b + i : b \in McBlocks, i \in Slots}
McSectors == {<<0, 76, 26>>, <<8, 0, 1>>, <<0, 0, 26>>}

(* For the runs where everything may fail. *)
McRecordsE == {4 * b + i : b \in {0, 500}, i \in Slots}
McBlankImages == {[r \in Records |-> 0]}

(* The records of a 77x26x128-byte image: block 500 is only half there. *)
McRecordsA == {r \in McRecords : r < DriveI}
McSectorsA == {<<0, 76, 26>>, <<0, 0, 26>>}

McImages == {[r \in Records |-> r % 2]}
==============================================================================
