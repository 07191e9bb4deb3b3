-------------------------------- MODULE MCFatFS --------------------------------
(***************************************************************************)
(* Instances of FatFS for TLC: volumes of every FAT type with sectors of   *)
(* four bytes, two directory entries to a sector.                          *)
(***************************************************************************)
EXTENDS FatFS

CONSTANTS h1, h2

a  == <<"a">>
b  == <<"b">>
d  == <<"d">>
e  == <<"e">>
da == <<"d", "a">>
ea == <<"e", "a">>

\* Three clusters; on FAT12 the entry of cluster 2 straddles two sectors.
Fat12 == [fs_type |-> "FAT12", csize |-> 1, n_fats |-> 2, n_rootdir |-> 2, n_fatent |-> 5]
Fat16 == [Fat12 EXCEPT !.fs_type = "FAT16", !.n_fats = 1]
Fat32 == [Fat16 EXCEPT !.fs_type = "FAT32", !.n_rootdir = 0]

Update == {"READ", "WRITE", "OPEN_ALWAYS"}
Create == {"WRITE", "CREATE_ALWAYS"}
Extend == {"WRITE", "OPEN_ALWAYS", "APPEND"}

\* A program that mounts a volume and does nothing else.
Idle(g) ==
  [geo |-> g, calls |-> {"f_mount"}, handles |-> {h1}, paths |-> {a}, modes |-> {},
   counts |-> {}, bytes |-> {1}, seeks |-> {}, size |-> 8,
   faults |-> 0, reach |-> 0, cuts |-> {}, trust |-> FALSE]

Calling(s, cs) == [s EXCEPT !.calls = @ \cup cs]

-----------------------------------------------------------------------------
(* Without faults. *)

\* One file anywhere in its clusters, in part through its buffer.
RandomAccess ==
  Calling([Idle(Fat12) EXCEPT !.modes = {Update}, !.counts = {2, 6}, !.seeks = {6}],
          {"f_open", "f_write", "f_lseek", "f_truncate", "f_close"})

\* Clusters of two sectors, transfers of several sectors at once.
LargeClusters ==
  Calling([Idle([Fat32 EXCEPT !.csize = 2]) EXCEPT
             !.modes = {Update, {"READ"}}, !.counts = {2, 8}, !.seeks = {0, 6}, !.size = 10],
          {"f_unmount", "f_open", "f_read", "f_write", "f_lseek", "f_sync", "f_close", "f_stat"})

\* Two files at once on a disk too small for both.
TwoFiles ==
  Calling([Idle(Fat16) EXCEPT !.handles = {h1, h2}, !.modes = {Create, Extend},
             !.counts = {6}, !.paths = {a, b}],
          {"f_unmount", "f_open", "f_write", "f_close", "f_unlink", "f_rename", "f_getfree"})

\* A tree of directories, which grow and move.
Directories ==
  Calling([Idle(Fat16) EXCEPT !.paths = {d, e, da, ea}], {"f_mkdir", "f_rename", "f_unlink"})

\* A root directory that grows, listed while it changes.
Listing ==
  Calling([Idle(Fat32) EXCEPT !.modes = {{"WRITE", "CREATE_NEW"}}, !.paths = {a, b, d}],
          {"f_open", "f_close", "f_opendir", "f_readdir", "f_closedir", "f_unlink"})


-----------------------------------------------------------------------------
(* One fault, in any of the accesses of any call. *)

Failing(s) == [s EXCEPT !.faults = 1, !.reach = 20, !.cuts = BOOLEAN]
Cutting(s) == [Failing(s) EXCEPT !.cuts = {TRUE}]

Files12 ==
  Failing(Calling([Idle(Fat12) EXCEPT !.modes = {Create, Extend}, !.counts = {6}, !.paths = {a, b}],
                  {"f_open", "f_write", "f_sync", "f_close", "f_unlink"}))

Tree16 ==
  Failing(Calling([Idle(Fat16) EXCEPT !.modes = {Create}, !.paths = {a, b}],
                  {"f_open", "f_close", "f_unlink", "f_mkdir"}))

Uses == {RandomAccess, LargeClusters, TwoFiles, Directories, Listing, Files12, Tree16}

-----------------------------------------------------------------------------
(* What goes wrong: a file that shrinks and an entry that moves when the   *)
(* power is lost, a table that grows then, a close that is tried again, a  *)
(* directory that cannot be made, a directory moved into itself.           *)

ShrinkCut == {Cutting(Calling([Idle(Fat16) EXCEPT !.modes = {Update}, !.counts = {6}, !.seeks = {0}],
                              {"f_open", "f_write", "f_lseek", "f_truncate", "f_close"}))}

RenameCut == {Cutting(Calling([Idle([Fat16 EXCEPT !.n_rootdir = 4]) EXCEPT !.modes = {Extend}, !.counts = {6}, !.paths = {a, b}],
                              {"f_open", "f_write", "f_close", "f_rename", "f_unlink"}))}

CloseAgain == {[Files12 EXCEPT !.trust = TRUE]}

IntoItself == {Calling(Directories, {"into itself"})}

NoRoom == {Calling([Idle(Fat12) EXCEPT !.paths = {a, b, d}], {"f_mkdir", "f_unmount"})}
=============================================================================
