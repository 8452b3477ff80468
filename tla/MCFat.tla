-------------------------------- MODULE MCFat --------------------------------
(* A small FAT file system for Fat: clusters of two blocks of two entries; a *)
(* root directory of four blocks; DISK1 and DISK3 in it, DISK2, an empty     *)
(* file and the way back to the root directory in SUB.                       *)
EXTENDS Fat

MCImage(n, c, s) == [name |-> n, isDir |-> FALSE, cluster |-> c, size |-> s]
MCSub == [name |-> "SUB", isDir |-> TRUE, cluster |-> 4, size |-> 0]

MCSelf == [name |-> ".", isDir |-> TRUE, cluster |-> 4, size |-> 0]
MCParent == [name |-> "..", isDir |-> TRUE, cluster |-> 0, size |-> 0]

(* Root: blocks 3 to 6; SUB: cluster 4, blocks 11 and 12.  First cluster: block 7. *)
MCDirectory(c, s) ==
  3 :> (0 :> MCImage("DISK1", c, s) @@ 1 :> MCSub)
  @@ 4 :> (0 :> None @@ 1 :> MCImage("DISK3", 7, 2))
  @@ 11 :> (0 :> MCImage("DISK2", 5, 3) @@ 1 :> MCSelf)
  @@ 12 :> (0 :> MCImage("EMPTY", 0, 0) @@ 1 :> MCParent)
MCSmall == MCDirectory(2, 4)
MCLarge == MCDirectory(8, 6)    \* more blocks than the cache's key has values

(* DISK1 in one piece, DISK2 in two: clusters 5 and 11. *)
MCLargeNext ==
  4 :> 0 @@ 5 :> 11 @@ 11 :> 0 @@ 7 :> 0 @@ 8 :> 9 @@ 9 :> 10 @@ 10 :> 0
(* DISK1 in two pieces: clusters 2 and 8. *)
MCFragmented == 2 :> 8 @@ 8 :> 0 @@ 3 :> 0 @@ 4 :> 0 @@ 5 :> 6 @@ 6 :> 0 @@ 7 :> 0
=============================================================================
