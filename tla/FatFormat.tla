------------------------------- MODULE FatFormat -------------------------------
(***************************************************************************)
(* Where a FAT volume lies on a drive: f_mkfs of FatFS/ff.c decides it and *)
(* writes it into the boot records, mount_volume works it out from them    *)
(* again. A program formats a drive, once or again, and mounts it.         *)
(*                                                                         *)
(* Numbers are those of ff.c: sectors of 512 bytes, entries of 32. Two of  *)
(* the drive's sectors are kept, the only ones a boot record can be in: 0, *)
(* and N_SEC_TRACK, where the partition of a partitioned drive begins.     *)
(* Disk errors and texts (labels, serial numbers, CHS values) are left out.*)
(***************************************************************************)
EXTENDS Integers, FiniteSets

CONSTANTS Drives,     \* sizes of the drive, in sectors
          Earlier,    \* what the drive may have been formatted with before
          Options     \* options the program passes to f_mkfs

(***************************************************************************)
(* An option set is a record like MKFS_PARM: fmt, a set of "FAT", "FAT32"  *)
(* and "SFD" (no partition table); n_fat; n_root; align, in sectors;       *)
(* au_size, in bytes.                                                      *)
(***************************************************************************)
ASSUME FormatAssumption ==
  /\ Drives \subseteq 1 .. 2 ^ 28
  /\ \A o \in Earlier \cup Options :
       o.fmt \subseteq {"FAT", "FAT32", "SFD"} /\ {o.n_fat, o.n_root, o.align, o.au_size} \subseteq Nat

SS == 512
SZDIRE == 32
MAX_FAT12 == 4085
MAX_FAT16 == 65525
MAX_FAT32 == 268435445
N_SEC_TRACK == 63

VARIABLES drive,    \* its size
          boot,     \* its sectors 0 and N_SEC_TRACK
          formats,  \* calls of f_mkfs so far
          mk,       \* the local variables of f_mkfs, or of its last call
          fs        \* the FATFS object

vars == <<drive, boot, formats, mk, fs>>

IsPowerOf2(n) == \E k \in 0 .. 30 : n = 2 ^ k

\* Mutant: down to the block.
RoundDown(n, m) == (n \div m) * m

RoundUp(n, m) == ((n + m - 1) \div m) * m

Blank == [kind |-> "none"]
NotMounted == [res |-> "none"]

-----------------------------------------------------------------------------
(* f_mkfs: its options, and where the volume goes. *)

sz_blk(o) == IF IsPowerOf2(o.align) /\ o.align <= 32768 THEN o.align ELSE 1
n_fat(o)  == IF o.n_fat \in {1, 2} THEN o.n_fat ELSE 1

\* Mutant: a root directory need not fill its sectors.
AnyRoot(o) == IF o.n_root \in 1 .. 32768 THEN o.n_root ELSE 512

n_root(o) == IF o.n_root \in 1 .. 32768 /\ o.n_root % (SS \div SZDIRE) = 0 THEN o.n_root ELSE 512
AU(o)     == IF o.au_size <= 16777216 /\ IsPowerOf2(o.au_size) THEN o.au_size \div SS ELSE 0

Partitioned(o, size) == "SFD" \notin o.fmt /\ size > N_SEC_TRACK
b_vol(o, size)  == IF Partitioned(o, size) THEN N_SEC_TRACK ELSE 0
sz_vol(o, size) == size - b_vol(o, size)

Begin(o) ==
  LET au == IF AU(o) > 128 THEN 128 ELSE AU(o)
      only32 == "FAT32" \in o.fmt /\ "FAT" \notin o.fmt
      start(p, r) == [pc |-> p, res |-> r, opt |-> o, fsty |-> IF only32 THEN "FAT32" ELSE "FAT16",
                      sz_au |-> au]
  IN
  /\ mk.pc = "idle"
  /\ o \in (IF formats = 0 THEN Earlier ELSE Options) /\ formats < 2
  /\ mk' = IF sz_vol(o, drive) < 128 THEN start("idle", "MKFS_ABORTED")
           ELSE IF {"FAT", "FAT32"} \cap o.fmt = {} THEN start("idle", "INVALID_PARAMETER")
           ELSE start("rounds", "OK")
  /\ formats' = formats + 1 /\ fs' = NotMounted
  /\ UNCHANGED <<drive, boot>>

-----------------------------------------------------------------------------
(* The loop that looks for a cluster size and a FAT type that fit. *)

cst   == {1, 4, 16, 64, 256, 512}
cst32 == {1, 2, 4, 8, 16, 32}

\* The cluster size by table: doubled for every boundary reached.
FromTable(fsty, size) ==
  IF fsty = "FAT32" THEN 2 ^ Cardinality({c \in cst32 : c <= size \div 131072})
  ELSE 2 ^ Cardinality({c \in cst : c <= size \div 4096})

\* Bytes of a FAT, from the number of clusters the whole volume would have.
FatBytes(fsty, clusters) ==
  CASE fsty = "FAT32" -> clusters * 4 + 8
    [] fsty = "FAT16" -> clusters * 2 + 4
    [] fsty = "FAT12" -> (clusters * 3 + 1) \div 2 + 3

\* As a DWORD a negative number of sectors is more than 2^31.
AsDword(n) == IF n < 0 THEN 2147483647 ELSE n

\* The cluster size and the FAT type a round starts from.
Guess ==
  LET size == sz_vol(mk.opt, drive)
      pau  == IF mk.sz_au = 0 THEN FromTable(mk.fsty, size) ELSE mk.sz_au
  IN  [pau |-> pau, guess |-> size \div pau,
       fsty |-> IF mk.fsty # "FAT32" /\ size \div pau <= MAX_FAT12 THEN "FAT12" ELSE mk.fsty]

\* The layout it arrives at. The data area is moved to the next block of the
\* medium: on FAT32 the FATs move with it, else they grow.
Layout(g) ==
  LET o     == mk.opt
      size  == sz_vol(o, drive)
      is32  == g.fsty = "FAT32"
      fat0  == (FatBytes(g.fsty, g.guess) + SS - 1) \div SS
      rsv0  == IF is32 THEN 32 ELSE 1
      dir   == IF is32 THEN 0 ELSE (n_root(o) * SZDIRE) \div SS
      data0 == b_vol(o, drive) + rsv0 + fat0 * n_fat(o) + dir
      gap   == RoundUp(data0, sz_blk(o)) - data0
      odd   == gap % n_fat(o)
      rsv   == rsv0 + (IF is32 THEN gap ELSE odd)
      fat   == fat0 + (IF is32 THEN 0 ELSE (gap - odd) \div n_fat(o))
  IN  [fsty |-> g.fsty, pau |-> g.pau, guess |-> g.guess, sz_rsv |-> rsv, sz_fat |-> fat, sz_dir |-> dir,
       b_vol |-> b_vol(o, drive), sz_vol |-> size, n_fat |-> n_fat(o),
       n_root |-> IF is32 THEN 0 ELSE n_root(o), b_data0 |-> data0,
       n_clst |-> AsDword(size - rsv - fat * n_fat(o) - dir) \div g.pau]

Tried == {Layout(g) : g \in {Guess}}

TooSmall(l) == l.sz_vol < l.b_data0 + l.pau * 16 - l.b_vol

\* What becomes of a round: the layout is taken, or the loop goes round again
\* with another cluster size or FAT type, or gives up. A cluster size is only
\* changed when it was left open.
Again(ty, au) == [go |-> "again", fsty |-> ty, sz_au |-> au]
Abort         == [go |-> "abort", fsty |-> mk.fsty, sz_au |-> mk.sz_au]
Take          == [Abort EXCEPT !.go = "take"]

AuOpen == mk.sz_au = 0

TooFewFat32(l) == IF AuOpen /\ l.pau > 1 THEN Again("FAT32", l.pau \div 2) ELSE Abort

TooManyFat16(l) ==
  IF AuOpen /\ l.pau * 2 <= 64 THEN Again("FAT16", l.pau * 2)
  ELSE IF "FAT32" \in mk.opt.fmt THEN Again("FAT32", mk.sz_au)
  ELSE IF AuOpen /\ l.pau * 2 <= 128 THEN Again("FAT16", l.pau * 2)
  ELSE Abort

\* Mutant: a volume between the two types is given up.
TooFewGivesUp(l) == Abort

TooFewFat16(l) == IF AuOpen /\ l.pau * 2 <= 128 THEN Again("FAT16", l.pau * 2) ELSE Abort

Verdict(l) ==
  CASE l.fsty = "FAT32" /\ (l.guess <= MAX_FAT16 \/ l.guess > MAX_FAT32) -> Abort
    [] TooSmall(l) -> Abort
    [] l.fsty = "FAT32" /\ ~TooSmall(l) /\ l.n_clst <= MAX_FAT16 -> TooFewFat32(l)
    [] l.fsty = "FAT16" /\ ~TooSmall(l) /\ l.n_clst > MAX_FAT16 -> TooManyFat16(l)
    [] l.fsty = "FAT16" /\ ~TooSmall(l) /\ l.n_clst <= MAX_FAT12 -> TooFewFat16(l)
    [] l.fsty = "FAT12" /\ ~TooSmall(l) /\ l.n_clst > MAX_FAT12 -> Abort
    [] OTHER -> Take

\* Mutant: the new cluster size is forgotten.
GoRoundAsBefore ==
  /\ mk.pc = "rounds"
  /\ \E l \in Tried : \E w \in {Verdict(l)} : w.go = "again" /\ mk' = [mk EXCEPT !.fsty = w.fsty]
  /\ UNCHANGED <<drive, boot, formats, fs>>

GoRound ==
  /\ mk.pc = "rounds"
  /\ \E l \in Tried : \E w \in {Verdict(l)} :
       w.go = "again" /\ mk' = [mk EXCEPT !.fsty = w.fsty, !.sz_au = w.sz_au]
  /\ UNCHANGED <<drive, boot, formats, fs>>

GiveUp ==
  /\ mk.pc = "rounds" /\ \E l \in Tried : Verdict(l).go = "abort"
  /\ mk' = [mk EXCEPT !.pc = "idle", !.res = "MKFS_ABORTED"]
  /\ UNCHANGED <<drive, boot, formats, fs>>

-----------------------------------------------------------------------------
(* What f_mkfs writes. *)

\* The boot record, with the width of its fields.
VBR(l) ==
  [kind |-> "vbr", type32 |-> l.fsty = "FAT32", SecPerClus |-> l.pau % 256,
   RsvdSecCnt |-> l.sz_rsv % 65536, NumFATs |-> l.n_fat, RootEntCnt |-> l.n_root % 65536,
   TotSec16 |-> IF l.sz_vol < 65536 THEN l.sz_vol ELSE 0,
   TotSec32 |-> IF l.sz_vol < 65536 THEN 0 ELSE l.sz_vol,
   FATSz16 |-> IF l.fsty = "FAT32" THEN 0 ELSE l.sz_fat % 65536,
   FATSz32 |-> IF l.fsty = "FAT32" THEN l.sz_fat ELSE 0,
   RootClus |-> 2, Free_Count |-> l.n_clst - 1, Nxt_Free |-> 2]

\* create_partition: one partition behind the first track, cut at the drive's end.
MBR(l) ==
  [kind |-> "mbr", StLba |-> N_SEC_TRACK,
   SizLba |-> IF N_SEC_TRACK + l.sz_vol > drive THEN drive - N_SEC_TRACK ELSE l.sz_vol]

\* Mutant: no table, nothing to zero.
ClearedTable(l) == [from |-> l.b_vol + l.sz_rsv + l.sz_fat * l.n_fat, count |-> l.sz_dir]

\* The first sector behind the FATs, from which sectors are zeroed for the
\* root directory, and how many.
Cleared(l) ==
  [from |-> l.b_vol + l.sz_rsv + l.sz_fat * l.n_fat,
   count |-> IF l.fsty = "FAT32" THEN l.pau ELSE l.sz_dir]

\* The sectors the FATs and the root directory overwrite.
Filled(l) ==
  l.b_vol + l.sz_rsv .. Cleared(l).from + Cleared(l).count - 1

Write ==
  /\ mk.pc = "rounds"
  /\ \E l \in Tried :
       /\ Verdict(l).go = "take"
       /\ mk' = [pc |-> "idle", res |-> "OK", opt |-> mk.opt, fsty |-> l.fsty, sz_au |-> mk.sz_au,
                 layout |-> l, cleared |-> Cleared(l)]
       /\ boot' = [s \in {0, N_SEC_TRACK} |->
                    CASE s = l.b_vol -> VBR(l)
                      [] s # l.b_vol /\ "SFD" \notin mk.opt.fmt -> MBR(l)
                      [] s # l.b_vol /\ "SFD" \in mk.opt.fmt /\ s \in Filled(l) -> Blank
                      [] OTHER -> boot[s]]
  /\ UNCHANGED <<drive, formats, fs>>

-----------------------------------------------------------------------------
(* mount_volume. *)

\* 0: a FAT boot record; 2: another; 3: none.
check_fs(s) ==
  LET proper == /\ IsPowerOf2(s.SecPerClus) /\ s.RsvdSecCnt # 0 /\ s.NumFATs \in {1, 2}
                /\ s.RootEntCnt # 0 /\ (s.TotSec16 >= 128 \/ s.TotSec32 >= 65536)
                /\ s.FATSz16 # 0
  IN  IF s.kind = "none" THEN 3
      ELSE IF s.kind = "vbr" /\ (s.type32 \/ proper) THEN 0 ELSE 2

\* Sector 0 is taken if it is a FAT boot record, else the partition's is.
find_volume ==
  LET part == boot[0].StLba IN
  CASE check_fs(boot[0]) # 2 -> [fmt |-> check_fs(boot[0]), bsect |-> 0]
    [] check_fs(boot[0]) = 2 /\ boot[0].kind = "mbr" -> [fmt |-> check_fs(boot[part]), bsect |-> part]
    [] OTHER -> [fmt |-> 3, bsect |-> 0]

\* The analysis of the boot record s, found at sector bsect.
Analysed(s, bsect) ==
  LET fsize  == IF s.FATSz16 = 0 THEN s.FATSz32 ELSE s.FATSz16
      fasize == fsize * s.NumFATs
      tsect  == IF s.TotSec16 = 0 THEN s.TotSec32 ELSE s.TotSec16
      sysect == s.RsvdSecCnt + fasize + s.RootEntCnt \div (SS \div SZDIRE)
      nclst  == (tsect - sysect) \div s.SecPerClus
      fmt    == CASE nclst <= MAX_FAT12 -> "FAT12"
                  [] nclst \in MAX_FAT12 + 1 .. MAX_FAT16 -> "FAT16"
                  [] nclst \in MAX_FAT16 + 1 .. MAX_FAT32 -> "FAT32"
                  [] OTHER -> "none"
      ents   == nclst + 2
      need   == CASE fmt = "FAT32" -> ents * 4
                  [] fmt = "FAT16" -> ents * 2
                  [] OTHER -> (ents * 3) \div 2 + (ents % 2)
      bad    == \/ s.NumFATs \notin {1, 2} \/ ~IsPowerOf2(s.SecPerClus)
                \/ s.RootEntCnt % (SS \div SZDIRE) # 0 \/ s.RsvdSecCnt = 0
                \/ tsect < sysect \/ nclst = 0 \/ fmt = "none"
                \/ (fmt = "FAT32") # (s.RootEntCnt = 0)
                \/ fsize < (need + SS - 1) \div SS
      fatbase == bsect + s.RsvdSecCnt
  IN  IF bad THEN [res |-> "NO_FILESYSTEM"]
      ELSE [res |-> "OK", fs_type |-> fmt, csize |-> s.SecPerClus, n_fats |-> s.NumFATs,
            n_rootdir |-> s.RootEntCnt, n_fatent |-> ents, fsize |-> fsize, volbase |-> bsect,
            fatbase |-> fatbase, database |-> bsect + sysect,
            dirbase |-> IF fmt = "FAT32" THEN s.RootClus ELSE fatbase + fasize,
            free_clst |-> IF fmt = "FAT32" THEN s.Free_Count ELSE -1,
            last_clst |-> IF fmt = "FAT32" THEN s.Nxt_Free ELSE -1]

Mount ==
  LET f == find_volume IN
  /\ mk.pc = "idle"
  /\ fs' = IF f.fmt >= 2 THEN [res |-> "NO_FILESYSTEM"] ELSE Analysed(boot[f.bsect], f.bsect)
  /\ UNCHANGED <<drive, boot, formats, mk>>

Init ==
  /\ drive \in Drives
  /\ boot = [s \in {0, N_SEC_TRACK} |-> Blank]
  /\ formats = 0
  /\ mk = [pc |-> "idle", res |-> "none"]
  /\ fs = NotMounted

Next ==
  \/ \E o \in Earlier \cup Options : Begin(o)
  \/ GoRound \/ GiveUp \/ Write \/ Mount

\* f_mkfs does not stop in its loop.
Spec == Init /\ [][Next]_vars /\ WF_vars(GoRound \/ GiveUp \/ Write)

-----------------------------------------------------------------------------
(* What holds of it. *)

\* The last f_mkfs made a volume.
Made == mk.pc = "idle" /\ mk.res = "OK"

\* Types of the variables.
TypeOK ==
  /\ drive \in Drives /\ formats \in 0 .. 2
  /\ mk.pc \in {"idle", "rounds"} /\ mk.res \in {"none", "OK", "MKFS_ABORTED", "INVALID_PARAMETER"}
  /\ DOMAIN boot = {0, N_SEC_TRACK}
  /\ boot[0].kind \in {"none", "vbr", "mbr"} /\ boot[N_SEC_TRACK].kind \in {"none", "vbr"}
  /\ fs.res \in {"none", "OK", "NO_FILESYSTEM"}

\* However the loop of f_mkfs moved the areas about, they follow one another
\* inside the drive (a FAT32 boot area with room for the copies in sectors 6
\* and 7), the FATs have an entry for every cluster, and the data area begins
\* at a block of the medium.
RegionsApart ==
  Made =>
    LET l == mk.layout
        data == l.b_vol + l.sz_rsv + l.sz_fat * l.n_fat + l.sz_dir
        bits == CASE l.fsty = "FAT32" -> 32 [] l.fsty = "FAT16" -> 16 [] OTHER -> 12
    IN  /\ data + l.n_clst * l.pau <= drive
        /\ l.fsty = "FAT32" => l.sz_rsv > 7
        /\ ((l.n_clst + 2) \div 8) * bits + (((l.n_clst + 2) % 8) * bits + 7) \div 8 <= l.sz_fat * SS
        /\ data % sz_blk(mk.opt) = 0

\* The two together.
FormatInv == TypeOK /\ RegionsApart

\* mount_volume finds the volume f_mkfs made last, whatever the drive held
\* before: the same type, areas and clusters, with none but the root directory
\* in use, though it works them out from the boot record alone.
MountsFormat ==
  Made /\ fs # NotMounted =>
    LET l == mk.layout IN
    /\ fs.res = "OK"
    /\ fs.fs_type = l.fsty /\ fs.csize = l.pau /\ fs.n_fatent = l.n_clst + 2
    /\ fs.volbase = l.b_vol /\ fs.fatbase = l.b_vol + l.sz_rsv /\ fs.fsize = l.sz_fat
    /\ fs.database = fs.fatbase + l.sz_fat * l.n_fat + l.sz_dir
    /\ fs.free_clst \in {-1, l.n_clst - 1} /\ fs.last_clst \in {-1, 2}

\* The sectors f_mkfs zeroed behind the FATs are those of the root directory
\* as the mounted volume finds it: a table, or cluster RootClus.
RootCleared ==
  Made /\ fs.res = "OK" =>
    mk.cleared =
      IF fs.fs_type = "FAT32"
      THEN [from |-> fs.database + (fs.dirbase - 2) * fs.csize, count |-> fs.csize]
      ELSE [from |-> fs.dirbase, count |-> fs.n_rootdir \div (SS \div SZDIRE)]

\* f_mkfs left to choose the type and the cluster size, on a medium whose blocks
\* are single sectors (sz_blk = 1, so that no area has to move), always finds a
\* pair that fits a volume of 128 sectors or more, though every type has a least
\* and a greatest number of clusters and FATs take sectors from them.
DefaultFits ==
  LET o == mk.opt IN
  mk.pc = "idle" /\ mk.res # "none" =>
    ({"FAT", "FAT32"} \subseteq o.fmt /\ AU(o) = 0 /\ sz_blk(o) = 1 /\ sz_vol(o, drive) >= 128
       => mk.res = "OK")

\* The loop of f_mkfs ends: no cluster size and type are tried in turn for ever.
Ends == mk.pc = "rounds" ~> mk.pc = "idle"
=============================================================================
