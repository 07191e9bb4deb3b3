-------------------------------- MODULE FatFS --------------------------------
(***************************************************************************)
(* A program that uses one FatFS volume (FatFS/ff.c): it mounts it, opens, *)
(* reads, writes and closes files, lists a directory and changes the tree. *)
(* ffconf.h sets FF_FS_REENTRANT to 0, so the calls come one at a time:    *)
(* each is one action. It sets FF_FS_LOCK to 0 too, which leaves it to the *)
(* program not to open, remove or rename what is open (ffconf.h:271); the  *)
(* guards named May... are that rule.                                      *)
(*                                                                         *)
(* A fault is a disk access of a call that fails: alone, and the call      *)
(* returns an error or does without; or with the power, and the program    *)
(* starts again with the disk as it is.                                    *)
(***************************************************************************)
EXTENDS FatView, TLC

CONSTANTS Handles,    \* the program's file objects
          MaxSize,    \* bound on the size of a file
          Setups      \* what a behaviour is played with, see below

VARIABLES setup,   \* the setup of this behaviour
          vol,     \* the volume: the disk and the FATFS object
          files,   \* the file objects
          dir,     \* the directory being listed, and history: what it listed
          tree,    \* history: what the program sees, by path
          kept,    \* history: what the disk must hold, by path
          faults   \* history: faults so far

vars == <<setup, vol, files, dir, tree, kept, faults>>

(***************************************************************************)
(* A setup: geo, the geometry of the volume; calls, the calls the program  *)
(* makes; handles, the file objects it uses; paths; modes, of f_open;      *)
(* counts and bytes, of transfers; seeks; size, up to which files grow;    *)
(* faults, the bound on faults; reach, the accesses of a call among which  *)
(* the fault is; cuts, whether the power goes with them; trust, whether    *)
(* every successful f_sync and f_close is taken for an acknowledgement.    *)
(****************************************************************************)

\* A volume has a cluster at least, and one or two FATs; the numbers of a
\* FAT12 volume's clusters fit into 12 bits, the end mark among them.
MAX_FAT12 == 4085

Geometry(g) ==
  /\ g.fs_type \in {"FAT12", "FAT16", "FAT32"} /\ g.n_fats \in {1, 2}
  /\ g.csize \in Nat \ {0} /\ g.n_rootdir \in Nat /\ g.n_fatent \in Nat /\ g.n_fatent >= 3
  /\ g.fs_type = "FAT12" => g.n_fatent <= MAX_FAT12 + 2

ASSUME SetupAssumption ==
  \A s \in Setups :
    /\ Geometry(s.geo)
    /\ s.handles \subseteq Handles /\ \A p \in s.paths : p \in Seq(STRING)
    /\ s.counts \subseteq Nat /\ s.seeks \subseteq Nat
    /\ s.faults \in Nat /\ s.reach \in Nat /\ s.cuts \subseteq BOOLEAN

NoDir == [open |-> FALSE]

\* No promise: a path that a program is changing, or failed to change.
NoPromise == [kind |-> "any", data |-> <<>>]
Absent    == [kind |-> "none", data |-> <<>>]
IsDir     == [kind |-> "dir", data |-> <<>>]

-----------------------------------------------------------------------------
(* A volume as f_mkfs leaves it: reserved sectors, FATs, root directory,   *)
(* data. The reserved sector of the boot record is all this module needs.  *)

FatLength(g) ==
  CASE g.fs_type = "FAT12" -> (FirstByte(g.n_fatent - 1) + 1) \div SS + 1
    [] g.fs_type = "FAT16" -> (g.n_fatent - 1) \div (SS \div 2) + 1
    [] g.fs_type = "FAT32" -> (g.n_fatent - 1) \div (SS \div 4) + 1

\* Sector n of the first FAT: two entries are reserved, and on FAT32 the
\* root directory has the third.
FirstFat(g, n) ==
  LET bytes  == <<248, 255, 255>>
      taken  == IF g.fs_type = "FAT32" THEN <<268435448, 268435455, 268435455>>
                ELSE <<65528, 65535>>
      per    == IF g.fs_type = "FAT16" THEN SS \div 2 ELSE SS \div 4
      first(s, m) == [i \in 0 .. m - 1 |-> IF n * m + i < Len(s) THEN s[n * m + i + 1] ELSE 0]
  IN  FatSector(IF g.fs_type = "FAT12" THEN first(bytes, SS) ELSE first(taken, per))

Formatted(g) ==
  LET nrsv  == IF g.fs_type = "FAT32" THEN 2 ELSE 1
      fsize == FatLength(g)
      root  == (g.n_rootdir * SZDIRE) \div SS
      data  == nrsv + g.n_fats * fsize + root
      disk  == [s \in 0 .. data + g.csize * (g.n_fatent - 2) - 1 |->
                  IF s < nrsv THEN IF s = 0 THEN DataSector(ZeroBuf) ELSE InfoSector(g.n_fatent - 3, 2)
                  ELSE IF s < data - root THEN FirstFat(g, (s - nrsv) % fsize)
                  ELSE IF s < data \/ (g.fs_type = "FAT32" /\ s < data + g.csize) THEN ZeroSector
                  ELSE DataSector(ZeroBuf)]
  IN  [fs_type |-> g.fs_type, csize |-> g.csize, n_fats |-> g.n_fats, n_rootdir |-> g.n_rootdir,
       n_fatent |-> g.n_fatent, fsize |-> fsize, volbase |-> 0, fatbase |-> nrsv,
       dirbase |-> IF g.fs_type = "FAT32" THEN 2 ELSE data - root, database |-> data,
       state |-> "none", win |-> DataSector(ZeroBuf), winsect |-> NoSector, wflag |-> FALSE,
       free_clst |-> UNKNOWN, last_clst |-> UNKNOWN, fsi_flag |-> 0, disk |-> disk,
       res |-> "OK", val |-> 0, fuel |-> NoFault, cut |-> FALSE, dp |-> RootDir]

Init ==
  /\ setup \in Setups
  /\ vol = Formatted(setup.geo)
  /\ files = [h \in Handles |-> Closed]
  /\ dir = NoDir
  /\ tree = [p \in setup.paths |-> Absent]
  /\ kept = [p \in setup.paths |-> Absent]
  /\ faults = 0

-----------------------------------------------------------------------------
(* What the program sees: the volume through the window while it is        *)
(* mounted, and the disk, which it will see when it mounts it next.        *)

Viewed(v) == IF v.state = "mounted" THEN v ELSE OnDisk(v)

View == Viewed(vol)

Users(fs, p) == {h \in Handles : fs[h].open /\ fs[h].path = p}

\* A file object is ahead of its entry.
Tree(v, fs) ==
  LET w   == Viewed(v)
      fat == Fat(w)
      held(p) == FileBytes(w, fat, fs[CHOOSE h \in Users(fs, p) : TRUE])
  IN  [p \in setup.paths |->
         IF Users(fs, p) = {} THEN Node(w, fat, p) ELSE [kind |-> "file", data |-> held(p)]]

-----------------------------------------------------------------------------
(* The shape of a call: it is made with a fault or without, on the volume  *)
(* Armed(f); Returned says what it leaves behind.                          *)

NoFaultAtAll == [fuel |-> NoFault, cut |-> FALSE]

FaultsNow ==
  {NoFaultAtAll} \cup
  (IF faults < setup.faults THEN [fuel : 0 .. setup.reach, cut : setup.cuts] ELSE {})

Armed(f) == [vol EXCEPT !.fuel = f.fuel, !.cut = f.cut]

\* The fault has come: after a single one the disk works again.
Came(v, f) == v.fuel = IF f.cut THEN 0 ELSE NoFault

\* Between calls the registers mean nothing.
Settled(v) == [v EXCEPT !.res = "OK", !.val = 0, !.dp = RootDir, !.fuel = NoFault, !.cut = FALSE]

\* After a loss of power the FATFS object is zero.
Restarted(v) ==
  [Settled(v) EXCEPT !.state = "none", !.win = DataSector(ZeroBuf), !.winsect = NoSector,
                     !.wflag = FALSE, !.free_clst = UNKNOWN, !.last_clst = UNKNOWN, !.fsi_flag = 0]

\* The call that met fault f leaves v, the file objects fs and the listing d.
Returned(v, f, fs, d) ==
  /\ Came(v, f)
  /\ \E w \in {IF f.cut THEN Restarted(v) ELSE Settled(v)},
        g \in {IF f.cut THEN [h \in Handles |-> Closed] ELSE fs} :
       vol' = w /\ files' = g /\ tree' = Tree(w, g)
  /\ dir' = IF f.cut THEN NoDir ELSE d
  /\ faults' = IF f = NoFaultAtAll THEN faults ELSE faults + 1
  /\ UNCHANGED setup

\* What is promised of the paths ps after a call that changes them: what the
\* call was to make of them if it succeeded, else nothing.
Promise(v, f, ps, node) ==
  kept' = [p \in setup.paths |->
             IF p \notin ps THEN kept[p]
             ELSE IF v.res = "OK" /\ ~f.cut THEN node ELSE NoPromise]

\* A refusal by which nothing is changed.
Refusal(v, f) ==
  v.res \in {"DENIED", "EXIST", "NO_FILE", "NO_PATH", "INVALID_NAME"} /\ ~f.cut

Called(c) == c \in setup.calls

-----------------------------------------------------------------------------
(* What the program may do. *)

Under(q, p) == Len(q) >= Len(p) /\ SubSeq(q, 1, Len(p)) = p

Writing(h) == files[h].open /\ Has(files[h], "WRITE")
MayOpen(p, mode) ==
  IF mode = {"READ"} THEN \A h \in Users(files, p) : ~Writing(h) ELSE Users(files, p) = {}
MayRemove(p) ==
  /\ \A h \in Handles : files[h].open => ~Under(files[h].path, p)
  /\ dir.open => ~Under(dir.path, p)

\* A name that is changed while its directory is listed may be listed or not.
Disturbed(ps) ==
  LET Name(p) == p[Len(p)]
      gone == IF dir.open THEN {Name(p) : p \in {q \in ps : q # ROOT /\ SubSeq(q, 1, Len(q) - 1) = dir.path}}
              ELSE {}
  IN  IF ~dir.open THEN dir
      ELSE [dir EXCEPT !.due = @ \ gone, !.seen = SelectSeq(@, LAMBDA n : n \notin gone)]

-----------------------------------------------------------------------------
(* The calls. *)

Mount(now) ==
  /\ Called("f_mount") /\ vol.state = "none"
  /\ \E f \in FaultsNow :
       \E v \in {f_mount(Armed(f), now)} : Returned(v, f, files, dir) /\ UNCHANGED kept

\* Nothing is open: the objects of a volume that is unmounted are invalid.
Unmount ==
  /\ Called("f_unmount") /\ vol.state # "none"
  /\ ~dir.open /\ \A h \in Handles : ~files[h].open
  /\ Returned(Restarted(Unregistered(vol)), NoFaultAtAll, files, dir)
  /\ UNCHANGED kept

Open(h, p, mode) ==
  /\ Called("f_open") /\ vol.state # "none" /\ ~files[h].open /\ MayOpen(p, mode)
  /\ \E f \in FaultsNow :
       \E r \in {f_open(Armed(f), p, mode)} :
       /\ Returned(r.vol, f, [files EXCEPT ![h] = r.fil], dir)
       /\ IF (r.vol.res = "OK" /\ ~f.cut /\ ~Has(r.fil, "MODIFIED")) \/ Refusal(r.vol, f)
            THEN UNCHANGED kept ELSE Promise(r.vol, f, {p}, NoPromise)

\* A call on an open file.
OnFile(h, f, r) == Returned(r.vol, f, [files EXCEPT ![h] = r.fil], dir)

\* A file that is being written holds what it did on the disk no longer.
Unsettled(h) ==
  kept' = IF Writing(h) THEN [kept EXCEPT ![files[h].path] = NoPromise] ELSE kept

Read(h, n) ==
  /\ Called("f_read") /\ files[h].open
  /\ \E f \in FaultsNow : OnFile(h, f, f_read(Armed(f), files[h], n))
  /\ UNCHANGED kept

Write(h, n, byte) ==
  /\ Called("f_write") /\ files[h].open /\ files[h].fptr + n <= setup.size
  /\ \E f \in FaultsNow : OnFile(h, f, f_write(Armed(f), files[h], n, byte))
  /\ Unsettled(h)

Seek(h, ofs) ==
  /\ Called("f_lseek") /\ files[h].open /\ ofs <= setup.size
  /\ \E f \in FaultsNow : OnFile(h, f, f_lseek(Armed(f), files[h], ofs))
  /\ UNCHANGED kept

Truncate(h) ==
  /\ Called("f_truncate") /\ files[h].open
  /\ \E f \in FaultsNow : OnFile(h, f, f_truncate(Armed(f), files[h]))
  /\ Unsettled(h)

\* A file whose writes succeeded is promised when it is synchronised. When
\* there was nothing to synchronise the promise stays what it was, unless the
\* setup takes that for an acknowledgement too.
Acknowledged(h, v, f) ==
  IF /\ Writing(h) /\ files[h].err = "OK"
     /\ Has(files[h], "MODIFIED") \/ (setup.trust /\ v.res = "OK" /\ ~f.cut)
  THEN Promise(v, f, {files[h].path}, tree[files[h].path])
  ELSE UNCHANGED kept

Sync(h) ==
  /\ Called("f_sync") /\ files[h].open
  /\ \E f \in FaultsNow :
       \E r \in {f_sync(Armed(f), files[h])} : OnFile(h, f, r) /\ Acknowledged(h, r.vol, f)

Close(h) ==
  /\ Called("f_close") /\ files[h].open
  /\ \E f \in FaultsNow :
       \E r \in {f_close(Armed(f), files[h])} : OnFile(h, f, r) /\ Acknowledged(h, r.vol, f)

Unlink(p) ==
  /\ Called("f_unlink") /\ vol.state # "none" /\ MayRemove(p)
  /\ \E f \in FaultsNow :
       \E v \in {f_unlink(Armed(f), p)} :
       /\ Returned(v, f, files, IF Refusal(v, f) THEN dir ELSE Disturbed({p}))
       /\ IF Refusal(v, f) THEN UNCHANGED kept ELSE Promise(v, f, {p}, Absent)

Mkdir(p) ==
  /\ Called("f_mkdir") /\ vol.state # "none"
  /\ \E f \in FaultsNow :
       \E v \in {f_mkdir(Armed(f), p)} :
       /\ Returned(v, f, files, dir)
       /\ IF Refusal(v, f) THEN UNCHANGED kept ELSE Promise(v, f, {p}, IsDir)

\* f_rename does not look whether a directory is moved into itself; a program
\* that does so loses the subtree, and is a setup of its own.
Rename(p, q) ==
  LET moved == {r \in setup.paths : Under(r, p) \/ Under(r, q)}
      node(r) == IF r = p THEN Absent ELSE IF r = q THEN kept[p] ELSE NoPromise
  IN
  /\ Called("f_rename") /\ vol.state # "none" /\ MayRemove(p)
  /\ q # p /\ Under(q, p) => Called("into itself")
  /\ \E f \in FaultsNow :
       \E v \in {f_rename(Armed(f), p, q)} :
       /\ Returned(v, f, files, IF Refusal(v, f) THEN dir ELSE Disturbed({p, q}))
       /\ kept' = [r \in setup.paths |->
                     IF r \notin moved \/ Refusal(v, f) \/ (p = q /\ v.res = "OK") THEN kept[r]
                     ELSE IF v.res = "OK" /\ ~f.cut THEN node(r) ELSE NoPromise]

Stat(p) ==
  /\ Called("f_stat") /\ vol.state # "none"
  /\ \E f \in FaultsNow : Returned(f_stat(Armed(f), p), f, files, dir)
  /\ UNCHANGED kept

GetFree ==
  /\ Called("f_getfree") /\ vol.state # "none"
  /\ \E f \in FaultsNow : Returned(f_getfree(Armed(f)), f, files, dir)
  /\ UNCHANGED kept

\* Listing. seen: the names listed so far; due: those there all the time.
OpenDir(p) ==
  /\ Called("f_opendir") /\ vol.state # "none" /\ ~dir.open
  /\ \E f \in FaultsNow :
       \E v \in {f_opendir(Armed(f), p)} :
         Returned(v, f, files,
           IF v.res # "OK" THEN NoDir
           ELSE [open |-> TRUE, path |-> p, dp |-> v.dp, seen |-> <<>>, done |-> FALSE,
                 due |-> {e.name : e \in Listed(v, Fat(v), v.dp.sclust)}])
  /\ UNCHANGED kept

ReadDir ==
  /\ Called("f_readdir") /\ dir.open /\ ~dir.done
  /\ \E f \in FaultsNow :
       \E r \in {f_readdir(Armed(f), dir.dp)} :
         LET at == [dir EXCEPT !.dp = r.vol.dp]
         IN  Returned(r.vol, f, files,
               IF r.vol.res # "OK" THEN at
               ELSE IF r.name = "none" THEN [at EXCEPT !.done = TRUE]
               ELSE [at EXCEPT !.seen = Append(@, r.name)])
  /\ UNCHANGED kept

CloseDir ==
  /\ Called("f_closedir") /\ dir.open
  /\ dir' = NoDir
  /\ UNCHANGED <<setup, vol, files, tree, kept, faults>>

Next ==
  \/ \E now \in BOOLEAN : Mount(now)
  \/ Unmount
  \/ GetFree
  \/ ReadDir
  \/ CloseDir
  \/ \E p \in setup.paths \cup {ROOT} :
       \/ Unlink(p)
       \/ Mkdir(p)
       \/ Stat(p)
       \/ OpenDir(p)
       \/ \E q \in setup.paths : Rename(p, q)
  \/ \E h \in setup.handles :
       \/ \E p \in setup.paths, mode \in setup.modes : Open(h, p, mode)
       \/ \E n \in setup.counts : Read(h, n)
       \/ \E n \in setup.counts, byte \in setup.bytes : Write(h, n, byte)
       \/ \E ofs \in setup.seeks : Seek(h, ofs)
       \/ Truncate(h)
       \/ Sync(h)
       \/ Close(h)

Spec == Init /\ [][Next]_vars

-----------------------------------------------------------------------------
(* Properties. *)

\* The type of the state.
TypeOK ==
  /\ vol.state \in {"none", "registered", "mounted"}
  /\ vol.winsect \in DOMAIN vol.disk \cup {NoSector}
  /\ \A s \in DOMAIN vol.disk : vol.disk[s].kind \in {"fat", "data", "dir", "info"}
  /\ \A s \in vol.fatbase .. vol.fatbase + vol.n_fats * vol.fsize - 1 : vol.disk[s].kind = "fat"
  /\ vol.free_clst \in -1 .. vol.n_fatent /\ vol.last_clst \in -1 .. vol.n_fatent
  /\ \A h \in Handles : files[h].open =>
       /\ files[h].flag \subseteq FileFlags
       /\ files[h].fptr \in 0 .. files[h].objsize
       /\ files[h].clust \in {0} \cup Clusters(vol)
  /\ faults \in 0 .. setup.faults

\* A file or directory to be looked at: where its chain begins, and how many
\* bytes the chain must hold. A file object that writes is ahead of its entry.
Heads ==
  LET fat == Fat(View)
      writer(p) == {h \in Users(files, p) : Writing(h)}
      head(p) == LET e == EntryOf(View, fat, p) IN
        IF writer(p) # {} THEN LET fp == files[CHOOSE h \in writer(p) : TRUE] IN [clust |-> fp.sclust, size |-> fp.objsize]
        ELSE [clust |-> e.clust, size |-> IF e.attr = "dir" THEN 1 ELSE e.size]
      root == [clust |-> vol.dirbase, size |-> 1]
  IN  [p \in {q \in setup.paths : EntryOf(View, fat, q) # NoEntry} |-> head(p)]
      @@ (IF vol.fs_type = "FAT32" THEN (ROOT :> root) ELSE <<>>)

Chains(heads) == LET fat == Fat(View) IN [p \in DOMAIN heads |-> ChainIn(fat, heads[p].clust)]

\* No cluster belongs to two files or directories or twice to one, none that
\* belongs to one is free, and every chain is as long as the size demands,
\* whatever create_chain and remove_chain did and in whatever order the
\* window went to the disk.
ChainsApart ==
  LET fat == Fat(View)
      heads == Heads
      chains == Chains(heads)
  IN  /\ \A p \in DOMAIN chains :
           /\ Sound(vol, fat, chains[p])
           /\ Len(chains[p]) * ClusterBytes(vol) >= heads[p].size
      /\ \A p, q \in DOMAIN chains : p # q => Range(chains[p]) \cap Range(chains[q]) = {}

\* The two together.
VolumeInv == TypeOK /\ ChainsApart

\* Every cluster that is not free belongs to a file or directory: no call
\* loses clusters, not even one that finds the disk or a directory full.
NoneLost ==
  setup.faults = 0 =>
    LET chains == Chains(Heads)
    IN  UNION {Range(chains[p]) : p \in DOMAIN chains} = Clusters(vol) \ FreeClusters(View)

\* The count of free clusters, kept by create_chain and remove_chain and
\* handed on through the FSInfo sector, is exact when it is known.
FreeExact ==
  setup.faults = 0 /\ vol.state = "mounted" /\ CountKnown(vol) => vol.free_clst = Cardinality(FreeClusters(vol))

\* When the window has been written, the second FAT is a copy of the first.
MirrorEqual ==
  setup.faults = 0 /\ ~vol.wflag /\ vol.n_fats = 2 =>
    \A s \in vol.fatbase .. vol.fatbase + vol.fsize - 1 : vol.disk[s] = vol.disk[s + vol.fsize]

\* What f_sync, f_close, f_unlink, f_mkdir and f_rename acknowledged is on
\* the disk, through all later calls on other paths, their errors and losses
\* of power.
Kept ==
  LET d   == OnDisk(vol)
      fat == Fat(d)
  IN  \A p \in setup.paths : kept[p] = NoPromise \/ Node(d, fat, p) = kept[p]

\* A seek to ofs and a read of n bytes succeed and return bytes.
ReadsAt(fp, ofs, n, bytes) ==
  After(f_lseek(vol, fp, ofs), LAMBDA s :
    After(f_read(s.vol, s.fil, n), LAMBDA r :
      s.vol.res = "OK" /\ r.vol.res = "OK" /\ r.data = bytes))

\* From every state a file object can seek to any place of its file and read
\* what the clusters and its buffer hold from there on: the buffer is never
\* stale and never stands for another sector.
ReadsBack ==
  \A h \in Handles : files[h].open /\ files[h].err = "OK" =>
    LET data == FileBytes(vol, Fat(vol), files[h])
        fp   == [files[h] EXCEPT !.flag = (@ \cup {"READ"}) \ {"WRITE"}]
    IN  \A ofs \in 0 .. Len(data), n \in setup.counts :
          ReadsAt(fp, ofs, n, SubSeq(data, ofs + 1, Min2(ofs + n, Len(data))))

\* A write that stores fewer bytes than it was given has filled the disk.
FullMeansFull ==
  \A h \in Handles, n \in setup.counts : Writing(h) /\ files[h].err = "OK" =>
    LET r == f_write(vol, files[h], n, 1) IN
    r.vol.res = "OK" /\ (r.left = 0 \/ FreeClusters(r.vol) = {})

\* A path is found exactly when the entries lead to it, also behind deleted
\* entries and in clusters added to a directory.
FindsExactly ==
  vol.state # "none" =>
    LET fat == Fat(View)
        kind(q) == Node(View, fat, q).kind
    IN
    \A p \in setup.paths :
      LET parent == SubSeq(p, 1, Len(p) - 1)
      IN  f_stat(vol, p).res = IF kind(p) # "none" THEN "OK"
                               ELSE IF kind(parent) = "dir" THEN "NO_FILE" ELSE "NO_PATH"

\* A listing lists nothing twice and, when it ends, has listed everything
\* that was there all the time, whatever other calls did in between.
ListsAll ==
  dir.open =>
    /\ \A i, j \in DOMAIN dir.seen : i # j => dir.seen[i] # dir.seen[j]
    /\ dir.done => dir.due \subseteq Range(dir.seen)

-----------------------------------------------------------------------------
(* The calls implement FileStore. *)

Pos ==
  [h \in Handles |->
     IF files[h].open
       THEN [open |-> TRUE, path |-> files[h].path, at |-> files[h].fptr, write |-> Writing(h)]
       ELSE [open |-> FALSE]]

Abstract == INSTANCE FileStore WITH Sizes <- 0 .. MaxSize, tree <- tree, pos <- Pos

\* Without faults every call changes the tree and the positions as FileStore
\* says, or not at all.
StoreSpec ==
  Abstract!Init /\ [][setup.faults = 0 => Abstract!Next]_<<tree, Pos>>
=============================================================================
