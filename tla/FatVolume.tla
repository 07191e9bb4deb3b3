------------------------------ MODULE FatVolume ------------------------------
(***************************************************************************)
(* The lower half of FatFS (FatFS/ff.c, as FatFS/ffconf.h configures it):  *)
(* the disk behind disk_read and disk_write, the one-sector window through *)
(* which the file allocation table (FAT) and the directories are accessed, *)
(* and the operations on FAT entries and cluster chains.                   *)
(*                                                                         *)
(* A volume v is a record: the fields of the FATFS object that mounting    *)
(* fills in (fs_type, csize, n_fats, n_rootdir, n_fatent, fsize, volbase,  *)
(* fatbase, dirbase, database), those that change (win, winsect, wflag, free_clst,  *)
(* last_clst, fsi_flag), the disk itself, and the registers of a call:     *)
(*   res   the FRESULT of the operation just done                          *)
(*   val   the cluster number or FAT entry it returned                     *)
(*   fuel  disk accesses before the one that fails; NoFault if none does   *)
(*   cut   the failure is a loss of power: every later access fails too    *)
(* An operation of ff.c is an operator that returns the volume it leaves.  *)
(***************************************************************************)
EXTENDS Integers, Sequences, FiniteSets

CONSTANTS SS,       \* bytes in a sector
          SZDIRE    \* bytes in a directory entry

ASSUME SectorAssumption ==
  /\ SS \in Nat \ {0} /\ SZDIRE \in Nat \ {0}
  /\ SS % 4 = 0 /\ SS % SZDIRE = 0

NoFault  == -1
NoSector == -1          \* (LBA_t)0 - 1, the number of an invalid window
DISK     == -1          \* 0xFFFFFFFF as a status: a disk error
UNKNOWN  == -1          \* 0xFFFFFFFF as a cluster count: not known
SEARCHING == -2

Ok(v)         == [v EXCEPT !.res = "OK"]
Failed(v, r)  == [v EXCEPT !.res = r]
Returns(v, c) == [v EXCEPT !.val = c]

\* A step of a call goes on from what the one before it left behind, After in
\* any case, IfOk unless it failed.
After(v, Step(_)) == Step(v)
IfOk(v, Step(_))  == IF v.res = "OK" THEN Step(v) ELSE v

\* The result of a loop: Body is applied while Cond holds, at most n times.
While(Cond(_), Body(_), start, n) ==
  LET after[i \in 0 .. n] ==
        IF i = 0 THEN start
        ELSE LET s == after[i - 1] IN IF Cond(s) THEN Body(s) ELSE s
  IN  after[n]

\* The result of n steps in order, of which the first that fails is the last.
For(n, Step(_, _), start) ==
  LET after[i \in 0 .. n] ==
        IF i = 0 THEN start
        ELSE LET s == after[i - 1] IN IF s.res = "OK" THEN Step(i, s) ELSE s
  IN  after[n]

-----------------------------------------------------------------------------
(* Sectors. A sector holds the bytes or entries of a FAT ("fat"), SS bytes *)
(* of a file ("data"), directory entries ("dir") or the FSInfo structure.  *)

FatSector(f)     == [kind |-> "fat", body |-> f]
DataSector(d)    == [kind |-> "data", body |-> d]
DirSector(e)     == [kind |-> "dir", body |-> e]
InfoSector(f, l) == [kind |-> "info", body |-> <<f, l>>]

EndEntry     == [name |-> "end", attr |-> "none", clust |-> 0, size |-> 0]
DeletedEntry == [name |-> "deleted", attr |-> "none", clust |-> 0, size |-> 0]

Slots      == 0 .. (SS \div SZDIRE) - 1
ZeroSector == DirSector([i \in Slots |-> EndEntry])

-----------------------------------------------------------------------------
(* The disk. *)

Reachable(v, sect) == v.fuel # 0 /\ sect \in DOMAIN v.disk

Spent(v) ==
  IF v.fuel > 0 THEN [v EXCEPT !.fuel = @ - 1]
  ELSE IF v.cut THEN v ELSE [v EXCEPT !.fuel = NoFault]

disk_write(v, sect, content) ==
  IF Reachable(v, sect)
    THEN [Spent(v) EXCEPT !.disk[sect] = content, !.res = "OK"]
    ELSE Failed(Spent(v), "DISK_ERR")

\* The status of reading a sector; what was read is v.disk[sect].
disk_read(v, sect) ==
  Failed(Spent(v), IF Reachable(v, sect) THEN "OK" ELSE "DISK_ERR")

-----------------------------------------------------------------------------
(* The window. *)

InFirstFat(v, sect) == sect \in v.fatbase .. v.fatbase + v.fsize - 1

\* Mutant: the second FAT is not written.
SyncWindowOnce(v) ==
  IF v.wflag THEN [disk_write(v, v.winsect, v.win) EXCEPT !.wflag = FALSE] ELSE Ok(v)

\* The copy in the second FAT is written without a look at its outcome.
sync_window(v) ==
  IF ~v.wflag THEN Ok(v)
  ELSE IfOk(disk_write(v, v.winsect, v.win), LAMBDA w :
         IF v.n_fats = 2 /\ InFirstFat(v, v.winsect)
           THEN Ok(disk_write([w EXCEPT !.wflag = FALSE], v.winsect + v.fsize, v.win))
           ELSE [w EXCEPT !.wflag = FALSE])

move_window(v, sect) ==
  IF sect = v.winsect THEN Ok(v)
  ELSE IfOk(sync_window(v), LAMBDA w :
         After(disk_read(w, sect), LAMBDA r :
           IF r.res = "OK" THEN [r EXCEPT !.winsect = sect, !.win = r.disk[sect]]
           ELSE [r EXCEPT !.winsect = NoSector]))

\* Mutant: without an FSInfo sector there is nothing to do.
SyncFsInfoOnly(v) == IF v.fs_type = "FAT32" THEN sync_window(v) ELSE Ok(v)

\* The FSInfo sector is written through the window's buffer, and whether
\* the write succeeded is not looked at.
sync_fs(v) ==
  IfOk(sync_window(v), LAMBDA w :
    CASE w.fsi_flag # 1 -> w
      [] w.fsi_flag = 1 /\ v.fs_type # "FAT32" -> [w EXCEPT !.fsi_flag = 0]
      [] OTHER -> LET info == InfoSector(w.free_clst, w.last_clst)
                      sect == v.volbase + 1
                  IN  Ok(disk_write([w EXCEPT !.fsi_flag = 0, !.winsect = sect, !.win = info],
                                    sect, info)))

-----------------------------------------------------------------------------
(* FAT entries. *)

IsCluster(v, clst) == clst \in 2 .. v.n_fatent - 1

clst2sect(v, clst) ==
  IF IsCluster(v, clst) THEN v.database + v.csize * (clst - 2) ELSE 0

\* What the end-of-chain mark 0xFFFFFFFF becomes in an entry.
EOC(v) == CASE v.fs_type = "FAT12" -> 4095
            [] v.fs_type = "FAT16" -> 65535
            [] v.fs_type = "FAT32" -> 268435455

\* Entries of a FAT16 or FAT32 sector; a FAT12 sector is a row of bytes.
PerSector(v) == IF v.fs_type = "FAT16" THEN SS \div 2 ELSE SS \div 4

FirstByte(clst) == clst + clst \div 2

\* The 12 bits of an entry, from the two bytes that hold it.
Entry12(clst, lo, hi) ==
  IF clst % 2 = 1 THEN (lo + 256 * hi) \div 16 ELSE (lo + 256 * hi) % 4096

LowByte12(clst, old, val) ==
  IF clst % 2 = 1 THEN (old % 16) + ((val * 16) % 256) ELSE val % 256

HighByte12(clst, old, val) ==
  IF clst % 2 = 1 THEN (val \div 16) % 256
  ELSE (old - (old % 16)) + ((val \div 256) % 16)

get_fat(v, clst) ==
  LET bc == FirstByte(clst)
      At(w, value) == Returns(w, IF w.res = "OK" THEN value ELSE DISK)
  IN  IF ~IsCluster(v, clst) THEN Returns(v, 1)
      ELSE IF v.fs_type = "FAT12"
        THEN After(move_window(v, v.fatbase + bc \div SS), LAMBDA w1 :
               IF w1.res # "OK" THEN Returns(w1, DISK)
               ELSE After(move_window(w1, v.fatbase + (bc + 1) \div SS), LAMBDA w2 :
                      At(w2, Entry12(clst, w1.win.body[bc % SS], w2.win.body[(bc + 1) % SS]))))
      ELSE After(move_window(v, v.fatbase + clst \div PerSector(v)), LAMBDA w :
             At(w, w.win.body[clst % PerSector(v)]))

Stored(v, i, byte) == [v EXCEPT !.win.body[i] = byte, !.wflag = TRUE]

put_fat(v, clst, val) ==
  LET bc == FirstByte(clst)
      j  == (bc + 1) % SS
  IN  IF ~IsCluster(v, clst) THEN Failed(v, "INT_ERR")
      ELSE IF v.fs_type = "FAT12"
        THEN IfOk(move_window(v, v.fatbase + bc \div SS), LAMBDA w1 :
             IfOk(move_window(Stored(w1, bc % SS, LowByte12(clst, w1.win.body[bc % SS], val)),
                              v.fatbase + (bc + 1) \div SS), LAMBDA w2 :
               Stored(w2, j, HighByte12(clst, w2.win.body[j], val))))
      ELSE IfOk(move_window(v, v.fatbase + clst \div PerSector(v)), LAMBDA w :
             Stored(w, clst % PerSector(v), val))

-----------------------------------------------------------------------------
(* Cluster chains. *)

CountKnown(v) == v.free_clst \in 0 .. v.n_fatent - 2

\* fsi_flag |= 1
Changed(v) == [v EXCEPT !.fsi_flag = IF @ % 2 = 0 THEN @ + 1 ELSE @]

\* One round of remove_chain's loop: the cluster v.val is freed and v.val
\* becomes the one that followed it; res is "DONE" after the last.
FreeOne(v) ==
  LET Counted(p) == IF p.free_clst \in 0 .. v.n_fatent - 3
                      THEN Changed([p EXCEPT !.free_clst = @ + 1]) ELSE p
  IN  After(get_fat(v, v.val), LAMBDA g :
        CASE g.val = 0    -> Failed(g, "DONE")
          [] g.val = 1    -> Failed(g, "INT_ERR")
          [] g.val = DISK -> Failed(g, "DISK_ERR")
          [] OTHER -> IfOk(put_fat(g, v.val, 0), LAMBDA p :
                        IF g.val < v.n_fatent THEN Returns(Counted(p), g.val)
                        ELSE Failed(Counted(p), "DONE")))

\* Mutant: what is left of the chain keeps its link to the rest.
RemoveUnended(v, clst, pclst) ==
  Ok(While(LAMBDA w : w.res = "OK", FreeOne, Returns(Ok(v), clst), v.n_fatent))

remove_chain(v, clst, pclst) ==
  IF ~IsCluster(v, clst) THEN Failed(v, "INT_ERR")
  ELSE IfOk(IF pclst = 0 THEN Ok(v) ELSE put_fat(v, pclst, EOC(v)), LAMBDA p :
         After(While(LAMBDA w : w.res = "OK", FreeOne, Returns(p, clst), v.n_fatent), LAMBDA r :
           IF r.res = "DONE" THEN Ok(r) ELSE r))

\* Mutant: the search does not go on at the beginning.
SearchUpwards(v, ncl, scl) == IF ncl + 1 < v.n_fatent THEN ncl + 1 ELSE 0

\* The next cluster to look at in the search for a free one; 0 when the
\* search has come round to where it began.
NextCandidate(v, ncl, scl) ==
  IF ncl + 1 < v.n_fatent THEN ncl + 1 ELSE IF 2 > scl THEN 0 ELSE 2

\* The search: cand is the cluster looked at, found what it returns.
LookAt(s, ncl, scl) ==
  After(get_fat(s.vol, ncl), LAMBDA g :
    [vol |-> g, cand |-> ncl,
     found |-> CASE g.val = 0           -> ncl
                 [] g.val \in {1, DISK} -> g.val
                 [] OTHER -> IF ncl = scl THEN 0 ELSE SEARCHING])

SearchFree(v, scl) ==
  After(While(LAMBDA s : s.found = SEARCHING,
              LAMBDA s : After(NextCandidate(v, s.cand, scl), LAMBDA ncl :
                           IF ncl = 0 THEN [s EXCEPT !.found = 0] ELSE LookAt(s, ncl, scl)),
              [vol |-> v, cand |-> scl, found |-> SEARCHING], v.n_fatent),
        LAMBDA s : Returns(s.vol, s.found))

\* A cluster to continue clst with: the next one if it is free, else the first
\* free one from where the last was found.
FreeCluster(v, clst) ==
  LET next == IF clst + 1 < v.n_fatent THEN clst + 1 ELSE 2
      from == IF v.last_clst \in 1 .. v.n_fatent - 1 THEN v.last_clst ELSE 1
      hint == IF v.last_clst \in 2 .. v.n_fatent - 1 THEN v.last_clst ELSE clst
  IN  IF clst = 0 THEN SearchFree(v, from)
      ELSE After(get_fat(v, next), LAMBDA n :
             CASE n.val = 0           -> Returns(n, next)
               [] n.val \in {1, DISK} -> n
               [] OTHER               -> SearchFree(n, hint))

\* Mutant: the new cluster is not counted.
LinkUncounted(v, ncl, clst) ==
  After(IfOk(put_fat(v, ncl, EOC(v)), LAMBDA m : IF clst # 0 THEN put_fat(m, clst, ncl) ELSE m),
        LAMBDA l : Returns([l EXCEPT !.last_clst = ncl], IF l.res = "OK" THEN ncl ELSE DISK))

\* Marks ncl as the end of a chain and links it behind clst, if there is one.
LinkNew(v, ncl, clst) ==
  LET Linked(m) == IF clst # 0 THEN put_fat(m, clst, ncl) ELSE m
      Counted(c) == IF c.free_clst \in 1 .. v.n_fatent - 2
                      THEN Changed([c EXCEPT !.free_clst = @ - 1]) ELSE c
  IN  After(IfOk(put_fat(v, ncl, EOC(v)), Linked), LAMBDA l :
        IF l.res = "OK" THEN Counted(Returns([l EXCEPT !.last_clst = ncl], ncl))
        ELSE Returns(l, IF l.res = "DISK_ERR" THEN DISK ELSE 1))

\* The cluster that follows clst, a new one if there is none; with clst = 0
\* the first cluster of a new chain. Returns 0 when no cluster is free.
create_chain(v, clst) ==
  After(IF clst = 0 THEN Returns(v, EOC(v)) ELSE get_fat(v, clst), LAMBDA g :
    IF g.val \in {0, 1} THEN Returns(g, 1)
    ELSE IF g.val = DISK \/ g.val < v.n_fatent THEN g
    ELSE IF v.free_clst = 0 THEN Returns(g, 0)
    ELSE After(FreeCluster(g, clst), LAMBDA f :
           IF f.val \in {0, 1, DISK} THEN f ELSE LinkNew(f, f.val, clst)))
=============================================================================
