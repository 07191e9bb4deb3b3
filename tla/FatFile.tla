------------------------------- MODULE FatFile -------------------------------
(***************************************************************************)
(* The calls of the FatFS interface (FatFS/ff.c): mounting, files and the  *)
(* sector buffer each open file has of its own, and changes to the         *)
(* directory tree. A call is an operator on a record s of the volume vol,  *)
(* the file object fil and what the call transfers:                        *)
(*   left  bytes still to be read or written                               *)
(*   data  the bytes read so far, or the byte that is written              *)
(* and returns that record as the call leaves it, with the FRESULT in      *)
(* vol.res. The byte a write stores is the same for all its positions.     *)
(***************************************************************************)
EXTENDS FatDir

ZeroBuf == [i \in 0 .. SS - 1 |-> 0]

Closed == [open |-> FALSE]

FileFlags == {"READ", "WRITE", "MODIFIED", "DIRTY"}

\* The bytes of a sector as file data; those of another kind read as zero.
Bytes(content) == IF content.kind = "data" THEN content.body ELSE ZeroBuf

Has(fp, f)   == f \in fp.flag
Raise(fp, f) == [fp EXCEPT !.flag = @ \cup {f}]
Lower(fp, f) == [fp EXCEPT !.flag = @ \ {f}]

Max2(a, b) == IF a > b THEN a ELSE b
Min2(a, b) == IF a < b THEN a ELSE b

\* ABORT: the error sticks to the file object.
Abort(s, r) == [s EXCEPT !.vol.res = r, !.fil.err = r, !.go = FALSE]

\* What follows in a call that has not been aborted or ended.
IfGo(s, Step(_)) == IF s.go THEN Step(s) ELSE s

ClusterBytes(v) == v.csize * SS

-----------------------------------------------------------------------------
(* Mounting. *)

\* Every call with a path mounts the volume if that has not been done.
mount_volume(v) ==
  LET Blank(w) == [w EXCEPT !.free_clst = UNKNOWN, !.last_clst = UNKNOWN, !.fsi_flag = 128]
      Known(i) == [i EXCEPT !.free_clst = i.win.body[1], !.last_clst = i.win.body[2], !.fsi_flag = 0]
      Mounted(w) == [w EXCEPT !.state = "mounted"]
  IN  CASE v.state = "mounted" -> Ok(v)
        [] v.state = "none"    -> Failed(v, "NOT_ENABLED")
        [] OTHER ->
             IfOk(move_window([v EXCEPT !.wflag = FALSE, !.winsect = NoSector], v.volbase), LAMBDA b :
               Mounted(IF v.fs_type # "FAT32" THEN Blank(b)
                       ELSE After(move_window(Blank(b), v.volbase + 1), LAMBDA i :
                              IF i.res = "OK" THEN Known(i) ELSE Ok(i))))

\* f_mount(0): the window is dropped as it is.
Unregistered(v) == Ok([v EXCEPT !.state = "none"])

f_mount(v, now) ==
  LET r == [v EXCEPT !.state = "registered"] IN IF now THEN mount_volume(r) ELSE Ok(r)

\* The beginning of a call with a path.
Located(v, path) == IfOk(mount_volume(v), LAMBDA m : follow_path(m, path))

-----------------------------------------------------------------------------
(* f_open *)

\* Mutant: the clusters are not freed.
EmptiedOnly(v) ==
  SetEntry(v, [name |-> Entry(v).name, attr |-> "file", clust |-> 0, size |-> 0])

\* The entry of an existing or new file is reset before its clusters are
\* freed, and the next new chain will begin where this one did.
Emptied(v) ==
  LET cl == Entry(v).clust
      z  == SetEntry(v, [name |-> Entry(v).name, attr |-> "file", clust |-> 0, size |-> 0])
  IN  IF cl = 0 THEN z
      ELSE IfOk(remove_chain(z, cl, 0), LAMBDA r :
             [move_window(r, z.winsect) EXCEPT !.last_clst = cl - 1])

Creating(mode) == mode \cap {"CREATE_ALWAYS", "OPEN_ALWAYS", "CREATE_NEW"} # {}

\* FA_OPEN_APPEND goes to the end of the file along its chain.
SeekEnd(v, fp) ==
  LET hops == (fp.objsize - 1) \div ClusterBytes(v)
      ofs  == fp.objsize - hops * ClusterBytes(v)
      Hop(i, h) == After(get_fat(h, h.val), LAMBDA g :
                     CASE g.val \in {0, 1} -> Failed(g, "INT_ERR")
                       [] g.val = DISK     -> Failed(g, "DISK_ERR")
                       [] OTHER            -> Ok(g))
  IN  IF fp.objsize = 0 THEN [vol |-> Ok(v), fil |-> fp]
      ELSE After(For(hops, Hop, Returns(Ok(v), fp.sclust)), LAMBDA w :
        LET sect == clst2sect(v, w.val) + ofs \div SS
            end  == [fp EXCEPT !.fptr = fp.objsize, !.clust = w.val]
        IN  IF w.res # "OK" \/ ofs % SS = 0 THEN [vol |-> w, fil |-> end]
            ELSE IF ~IsCluster(v, w.val) THEN [vol |-> Failed(w, "INT_ERR"), fil |-> end]
            ELSE [vol |-> disk_read(w, sect),
                  fil |-> [end EXCEPT !.sect = sect, !.buf = Bytes(v.disk[sect])]])

\* The entry of the path, which a creating mode makes if it is not there.
EntryToOpen(p, mode) ==
  IF p.res = "NO_FILE" /\ Creating(mode) THEN dir_register(p)
  ELSE IF p.res # "OK" THEN p
  ELSE IF p.dp.noname THEN Failed(p, "INVALID_NAME")
  ELSE IF p.dp.attr = "dir" THEN Failed(p, IF Creating(mode) THEN "DENIED" ELSE "NO_FILE")
  ELSE IF "CREATE_NEW" \in mode THEN Failed(p, "EXIST") ELSE p

f_open(v, path, mode) ==
  After(Located(v, path), LAMBDA p :
    LET fresh == Creating(mode) /\ (p.res # "OK" \/ "CREATE_ALWAYS" \in mode)
        New(e) == [open |-> TRUE, path |-> path, err |-> "OK",
                   flag |-> (mode \cap FileFlags) \cup (IF fresh THEN {"MODIFIED"} ELSE {}),
                   dir_sect |-> e.winsect, dir_slot |-> Slot(e.dp),
                   sclust |-> Entry(e).clust, objsize |-> Entry(e).size,
                   fptr |-> 0, clust |-> 0, sect |-> 0, buf |-> ZeroBuf]
    IN  After(IfOk(EntryToOpen(p, mode), LAMBDA c : IF fresh THEN Emptied(c) ELSE c), LAMBDA e :
          IF e.res # "OK" THEN [vol |-> e, fil |-> Closed]
          ELSE IF "APPEND" \notin mode THEN [vol |-> e, fil |-> New(e)]
          ELSE After(SeekEnd(e, New(e)), LAMBDA s :
                 IF s.vol.res = "OK" THEN s ELSE [s EXCEPT !.fil = Closed])))

-----------------------------------------------------------------------------
(* The sector buffer of a file. *)

\* A dirty buffer is written back.
WriteBack(s) ==
  IF ~Has(s.fil, "DIRTY") THEN s
  ELSE After(disk_write(s.vol, s.fil.sect, DataSector(s.fil.buf)), LAMBDA w :
         IF w.res # "OK" THEN Abort([s EXCEPT !.vol = w], "DISK_ERR")
         ELSE [s EXCEPT !.vol = w, !.fil = Lower(@, "DIRTY")])

\* The buffer is filled from a sector.
Fill(s, sect) ==
  After(disk_read(s.vol, sect), LAMBDA r :
    IF r.res # "OK" THEN Abort([s EXCEPT !.vol = r], "DISK_ERR")
    ELSE [s EXCEPT !.vol = r, !.fil.buf = Bytes(r.disk[sect])])

SectorInCluster(s) == (s.fil.fptr \div SS) % s.vol.csize

\* The sector the file pointer is in.
CurrentSector(s) == clst2sect(s.vol, s.fil.clust) + SectorInCluster(s)

\* How many whole sectors can be moved at once without the buffer.
WholeSectors(s) == Min2(s.left \div SS, s.vol.csize - SectorInCluster(s))

\* Mutant: only the first sector is looked at.
IsFirst(fp, sect, n) == fp.sect = sect

InRange(fp, sect, n) == fp.sect \in sect .. sect + n - 1

-----------------------------------------------------------------------------
(* f_read *)

\* At a cluster boundary the chain is followed.
FollowForRead(s) ==
  After(IF s.fil.fptr = 0 THEN Returns(s.vol, s.fil.sclust) ELSE get_fat(s.vol, s.fil.clust), LAMBDA g :
    LET t == [s EXCEPT !.vol = g]
    IN  CASE g.val \in {0, 1} -> Abort(t, "INT_ERR")
          [] g.val = DISK     -> Abort(t, "DISK_ERR")
          [] OTHER            -> [t EXCEPT !.fil.clust = g.val])

\* cc sectors straight from the disk, with the dirty buffer laid over them.
ReadSectors(s, cc) ==
  LET sect == CurrentSector(s)
      byte(i) == IF Has(s.fil, "DIRTY") /\ s.fil.sect = sect + i \div SS
                   THEN s.fil.buf[i % SS] ELSE Bytes(s.vol.disk[sect + i \div SS])[i % SS]
      n    == SS * cc
  IN  After(For(cc, LAMBDA i, r : disk_read(r, sect + i - 1), Ok(s.vol)), LAMBDA r :
        IF r.res # "OK" THEN Abort([s EXCEPT !.vol = r], "DISK_ERR")
        ELSE [s EXCEPT !.vol = r, !.left = @ - n, !.fil.fptr = @ + n,
                       !.data = @ \o [i \in 1 .. n |-> byte(i - 1)]])

ReadBuffer(s) ==
  LET at == s.fil.fptr % SS
      n  == Min2(SS - at, s.left)
  IN  [s EXCEPT !.left = @ - n, !.fil.fptr = @ + n,
                !.data = @ \o [i \in 1 .. n |-> s.fil.buf[at + i - 1]]]

LoadForRead(s) ==
  LET sect == CurrentSector(s)
  IN  IF s.fil.sect = sect THEN s
      ELSE IfGo(IfGo(WriteBack(s), LAMBDA b : Fill(b, sect)), LAMBDA r : [r EXCEPT !.fil.sect = sect])

ReadPiece(s) ==
  IF s.fil.fptr % SS # 0 THEN ReadBuffer(s)
  ELSE IfGo(IF SectorInCluster(s) = 0 THEN FollowForRead(s) ELSE s, LAMBDA f :
         IF ~IsCluster(f.vol, f.fil.clust) THEN Abort(f, "INT_ERR")
         ELSE IF s.left >= SS THEN ReadSectors(f, WholeSectors(s))
         ELSE IfGo(LoadForRead(f), ReadBuffer))

Transfer(v, fp, n, d) == [vol |-> Ok(v), fil |-> fp, left |-> n, data |-> d, go |-> TRUE]

Refused(v, fp, r) == [Transfer(v, fp, 0, <<>>) EXCEPT !.vol.res = r]

f_read(v, fp, btr) ==
  LET n == Min2(btr, fp.objsize - fp.fptr)
  IN  IF fp.err # "OK" THEN Refused(v, fp, fp.err)
      ELSE IF ~Has(fp, "READ") THEN Refused(v, fp, "DENIED")
      ELSE While(LAMBDA s : s.go /\ s.left > 0, ReadPiece, Transfer(v, fp, n, <<>>), n)

-----------------------------------------------------------------------------
(* f_write *)

\* At a cluster boundary the chain is followed or stretched; a full disk
\* ends the write without an error.
FollowForWrite(s) ==
  After(IF s.fil.fptr = 0 /\ s.fil.sclust # 0 THEN Returns(s.vol, s.fil.sclust)
        ELSE create_chain(s.vol, IF s.fil.fptr = 0 THEN 0 ELSE s.fil.clust), LAMBDA c :
    LET t == [s EXCEPT !.vol = c]
    IN  CASE c.val = 0    -> [t EXCEPT !.go = FALSE, !.vol = Ok(c)]
          [] c.val = 1    -> Abort(t, "INT_ERR")
          [] c.val = DISK -> Abort(t, "DISK_ERR")
          [] OTHER -> [t EXCEPT !.fil.clust = c.val,
                                !.fil.sclust = IF @ = 0 THEN c.val ELSE @])

\* n bytes are done; the size follows the file pointer.
Advanced(s, n) ==
  [s EXCEPT !.left = @ - n, !.fil.fptr = @ + n,
            !.fil.objsize = Max2(@, s.fil.fptr + n)]

\* cc sectors straight to the disk; a buffer of one of them is made good.
WriteSectors(s, cc) ==
  LET sect == CurrentSector(s)
      full == [i \in 0 .. SS - 1 |-> s.data]
      fp == IF InRange(s.fil, sect, cc) THEN Lower([s.fil EXCEPT !.buf = full], "DIRTY") ELSE s.fil
  IN  After(For(cc, LAMBDA i, w : disk_write(w, sect + i - 1, DataSector(full)), Ok(s.vol)), LAMBDA w :
        IF w.res # "OK" THEN Abort([s EXCEPT !.vol = w], "DISK_ERR")
        ELSE Advanced([s EXCEPT !.vol = w, !.fil = fp], SS * cc))

WriteBuffer(s) ==
  LET at == s.fil.fptr % SS
      n  == Min2(SS - at, s.left)
      b  == [i \in 0 .. SS - 1 |-> IF i \in at .. at + n - 1 THEN s.data ELSE s.fil.buf[i]]
  IN  Advanced([s EXCEPT !.fil = Raise([@ EXCEPT !.buf = b], "DIRTY")], n)

\* Mutant: the buffer is taken as it is.
TakeBuffer(s) == [s EXCEPT !.fil.sect = CurrentSector(s)]

\* The buffer is read in only where the file already has data.
LoadForWrite(s) ==
  LET sect == CurrentSector(s)
  IN  IfGo(IF s.fil.sect # sect /\ s.fil.fptr < s.fil.objsize THEN Fill(s, sect) ELSE s, LAMBDA r :
        [r EXCEPT !.fil.sect = sect])

WritePiece(s) ==
  IF s.fil.fptr % SS # 0 THEN WriteBuffer(s)
  ELSE IfGo(IF SectorInCluster(s) = 0 THEN FollowForWrite(s) ELSE s, LAMBDA f :
       IfGo(WriteBack(f), LAMBDA b :
         IF ~IsCluster(b.vol, b.fil.clust) THEN Abort(b, "INT_ERR")
         ELSE IF s.left >= SS THEN WriteSectors(b, WholeSectors(s))
         ELSE IfGo(LoadForWrite(b), WriteBuffer)))

\* A write that is aborted does not mark the file as modified. The clipping of
\* btw where the position would pass 4 GiB is left out: no file is so long.
f_write(v, fp, btw, byte) ==
  IF fp.err # "OK" THEN Refused(v, fp, fp.err)
  ELSE IF ~Has(fp, "WRITE") THEN Refused(v, fp, "DENIED")
  ELSE After(While(LAMBDA t : t.go /\ t.left > 0, WritePiece, Transfer(v, fp, btw, byte), btw), LAMBDA s :
         IF s.fil.err = "OK" THEN [s EXCEPT !.fil = Raise(@, "MODIFIED")] ELSE s)

-----------------------------------------------------------------------------
(* f_sync, f_close *)

\* The entry takes the file's start cluster and size, the buffer is written
\* back before, the window and the FSInfo sector after.
f_sync(v, fp) ==
  LET Updated(m) == LET e == EntryIn(m.win, fp.dir_slot) IN
        [m EXCEPT !.win = Enter(@, fp.dir_slot, [e EXCEPT !.clust = fp.sclust, !.size = fp.objsize]),
                  !.wflag = TRUE]
  IN  IF ~Has(fp, "MODIFIED") THEN Transfer(v, fp, 0, <<>>)
      ELSE After(WriteBack(Transfer(v, fp, 0, <<>>)), LAMBDA b :
             IF ~b.go THEN [b EXCEPT !.fil.err = fp.err]
             ELSE After(move_window(b.vol, fp.dir_sect), LAMBDA m :
                    IF m.res # "OK" THEN [b EXCEPT !.vol = m]
                    ELSE [b EXCEPT !.vol = sync_fs(Updated(m)), !.fil = Lower(@, "MODIFIED")]))

f_close(v, fp) ==
  After(f_sync(v, fp), LAMBDA s : IF s.vol.res = "OK" THEN [s EXCEPT !.fil = Closed] ELSE s)

-----------------------------------------------------------------------------
(* f_lseek *)

\* Where the walk along the chain begins: at the current cluster when the
\* target is in it or behind it, else at the first, made if there is none.
SeekFrom(s) ==
  LET bcs   == ClusterBytes(s.vol)
      ifptr == s.fil.fptr
      ahead == ifptr > 0 /\ (s.left - 1) \div bcs >= (ifptr - 1) \div bcs
      base  == ((ifptr - 1) \div bcs) * bcs
  IN  IF ahead THEN [s EXCEPT !.vol.val = s.fil.clust, !.fil.fptr = base, !.left = @ - base]
      ELSE After(IF s.fil.sclust # 0 THEN Returns(s.vol, s.fil.sclust) ELSE create_chain(s.vol, 0), LAMBDA c :
             LET t == [s EXCEPT !.vol = c, !.fil.fptr = 0]
             IN  CASE c.val = 1    -> Abort(t, "INT_ERR")
                   [] c.val = DISK -> Abort(t, "DISK_ERR")
                   [] OTHER        -> [t EXCEPT !.fil.sclust = c.val, !.fil.clust = c.val])

\* One cluster on, stretching the chain of a file open for writing; a full
\* disk ends the walk where the chain ends.
SeekHop(s) ==
  LET bcs == ClusterBytes(s.vol)
  IN  After(IF Has(s.fil, "WRITE") THEN create_chain(s.vol, s.vol.val)
            ELSE get_fat(s.vol, s.vol.val), LAMBDA c :
        LET t == [s EXCEPT !.vol = c, !.left = @ - bcs, !.fil.fptr = @ + bcs]
        IN  IF c.val = 0 /\ Has(s.fil, "WRITE") THEN [t EXCEPT !.left = 0]
            ELSE IF c.val = DISK THEN Abort(t, "DISK_ERR")
            ELSE IF ~IsCluster(c, c.val) THEN Abort(t, "INT_ERR")
            ELSE [t EXCEPT !.fil.clust = c.val])

\* The size follows the pointer, and the buffer is loaded if the target is
\* inside a sector that is not in it.
SeekEnds(s) ==
  LET ext   == s.fil.fptr > s.fil.objsize
      f     == IF ext THEN [s EXCEPT !.fil = Raise([@ EXCEPT !.objsize = s.fil.fptr], "MODIFIED")] ELSE s
      nsect == clst2sect(s.vol, s.vol.val) + s.left \div SS
  IN  IF s.fil.fptr % SS = 0 \/ nsect = s.fil.sect THEN f
      ELSE IfGo(IfGo(WriteBack(f), LAMBDA b : Fill(b, nsect)), LAMBDA r : [r EXCEPT !.fil.sect = nsect])

f_lseek(v, fp, ofs) ==
  LET to  == IF Has(fp, "WRITE") THEN ofs ELSE Min2(ofs, fp.objsize)
      s0  == Transfer(v, fp, to, <<>>)
      Land(s2) ==
        LET s3 == [s2 EXCEPT !.fil.fptr = @ + s2.left]
        IN  IF (s2.left % SS) # 0 /\ ~IsCluster(v, s2.vol.val) THEN Abort(s3, "INT_ERR") ELSE SeekEnds(s3)
      Walked(s1) ==
        IF s1.vol.val = 0 THEN [s1 EXCEPT !.fil.fptr = 0]
        ELSE IfGo(While(LAMBDA s : s.go /\ s.left > ClusterBytes(s.vol), SeekHop, s1, to), Land)
  IN  IF fp.err # "OK" THEN Refused(v, fp, fp.err)
      ELSE After(IF to = 0 THEN [s0 EXCEPT !.fil.fptr = 0] ELSE IfGo(SeekFrom(s0), Walked), LAMBDA end :
             IF end.go THEN [end EXCEPT !.vol.res = "OK"] ELSE end)

-----------------------------------------------------------------------------
(* f_truncate *)

\* The clusters behind the file pointer are freed; the entry is brought up
\* to date only when the file is synchronised.
f_truncate(v, fp) ==
  LET Cut(g) == CASE g.val = DISK -> Failed(g, "DISK_ERR")
                  [] g.val = 1    -> Failed(g, "INT_ERR")
                  [] OTHER -> IF g.val < v.n_fatent THEN remove_chain(g, g.val, fp.clust) ELSE Ok(g)
      short  == Raise([fp EXCEPT !.sclust = IF fp.fptr = 0 THEN 0 ELSE @, !.objsize = fp.fptr], "MODIFIED")
  IN  IF fp.err # "OK" THEN Refused(v, fp, fp.err)
      ELSE IF ~Has(fp, "WRITE") THEN Refused(v, fp, "DENIED")
      ELSE IF fp.fptr >= fp.objsize THEN Transfer(v, fp, 0, <<>>)
      ELSE After(IF fp.fptr = 0 THEN remove_chain(v, fp.sclust, 0)
                 ELSE After(get_fat(v, fp.clust), Cut), LAMBDA c :
             LET s == [Transfer(v, short, 0, <<>>) EXCEPT !.vol = c]
             IN  IF c.res # "OK" THEN Abort(s, c.res) ELSE WriteBack(s))

=============================================================================
