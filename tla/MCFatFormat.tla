------------------------------ MODULE MCFatFormat ------------------------------
(***************************************************************************)
(* Drives about every size at which f_mkfs changes its mind, with and      *)
(* without a partition table, and the options that move the areas.         *)
(***************************************************************************)
EXTENDS FatFormat

Near(S) == UNION {n - 1 .. n + 1 : n \in S}

\* Sizes of a volume: the least one, and those of the most clusters that FAT12
\* and FAT16 can have, at each cluster size; of the RAM disks and of a byte count
\* that fills 16 bits; at which the tables change the cluster size.
Volumes ==
  Near({128, 256, 65536} \cup {4085 * 2 ^ k : k \in 0 .. 7} \cup {65525 * 2 ^ k : k \in 0 .. 7}
       \cup {4096 * c : c \in cst} \cup {131072 * c : c \in cst32})

\* The same with the sectors of the FATs and the directory in addition, where the
\* clusters that are left are as many as the type can have.
AndTables ==
  UNION {Near({4085 * 2 ^ k + n : n \in {12, 13, 24, 25} \cup {44, 45, 56, 57}}) : k \in 0 .. 7}
    \cup UNION {Near({65525 * 2 ^ k + n : n \in {257, 289, 513, 545, 1058}}) : k \in 0 .. 7}

Sizes == {v + N_SEC_TRACK : v \in Volumes \cup AndTables} \cup Volumes \cup AndTables

Default == [fmt |-> {"FAT", "FAT32"}, n_fat |-> 0, n_root |-> 0, align |-> 0, au_size |-> 0]

\* What was there before: nothing but a volume on the whole drive, or one in a partition.
Before == {[Default EXCEPT !.fmt = @ \cup {"SFD"}], [Default EXCEPT !.n_fat = 2]}

\* Options that leave the choice to f_mkfs or narrow it, as the demo program does
\* (FM_FAT and FM_SFD), and options that move the areas, some of them invalid.
Passed ==
  {[Default EXCEPT !.fmt = f, !.n_fat = n] :
     f \in {{"FAT", "FAT32"}, {"FAT", "SFD"}, {"FAT32", "SFD"}, {"SFD"}}, n \in {1, 2}}
  \cup {[Default EXCEPT !.fmt = {"FAT", "FAT32", "SFD"}, !.n_fat = n, !.align = m[1], !.n_root = m[2], !.au_size = u] :
     n \in {1, 2}, m \in {<<64, 16>>, <<2048, 500>>, <<65536, 16>>}, u \in {0, 1000, 4096, 131072}}

-----------------------------------------------------------------------------
(* What goes wrong: a drive of the smallest size on which the alignment    *)
(* leaves no cluster behind the areas it moved.                            *)

Smallest == {128}
Aligned == {[Default EXCEPT !.fmt = {"FAT", "SFD"}, !.align = 128]}
==============================================================================
