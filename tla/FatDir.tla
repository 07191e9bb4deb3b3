-------------------------------- MODULE FatDir --------------------------------
(***************************************************************************)
(* The directories of FatFS (FatFS/ff.c): walking a directory table entry  *)
(* by entry, stretching it, finding, adding and removing entries, and      *)
(* following a path. The directory object a call works on is the field dp  *)
(* of the volume: sclust, clust, sect, dptr as in DIR, attr and the path's *)
(* last segment fn; noname stands for NS_NONAME. The pointer dp->dir into  *)
(* the window is the slot that dptr selects.                               *)
(*                                                                         *)
(* ffconf.h leaves long names and relative paths out: a name is one entry, *)
(* a path starts at the root. Names are values; their 8.3 layout, times,   *)
(* volume labels and the read-only attribute (no call of this              *)
(* configuration sets either) are left out.                                *)
(***************************************************************************)
EXTENDS FatVolume

RootDir == [sclust |-> 0, clust |-> 0, sect |-> 0, dptr |-> 0,
            attr |-> "none", fn |-> "none", noname |-> FALSE]

ROOT == <<>>            \* the path of the root directory

\* 0x200000 bytes: a table has no more entries than this many bytes hold.
MAX_DIR == 65536 * SZDIRE

\* It has as many as the root or the clusters hold.
MaxEntries(v) ==
  v.n_rootdir + 1 + ((v.n_fatent - 2) * v.csize * SS) \div SZDIRE

\* What code that looks for a directory entry finds in a sector.
Foreign == [name |-> "foreign", attr |-> "none", clust |-> 0, size |-> 0]

EntryIn(content, i) == IF content.kind = "dir" THEN content.body[i] ELSE Foreign

Slot(dp) == (dp.dptr % SS) \div SZDIRE
Entry(v) == EntryIn(v.win, Slot(v.dp))

Enter(content, i, e) ==
  IF content.kind = "dir" THEN [content EXCEPT !.body[i] = e]
  ELSE DirSector([j \in Slots |-> IF j = i THEN e ELSE Foreign])

\* The entry under dp is overwritten in the window.
SetEntry(v, e) == [v EXCEPT !.win = Enter(@, Slot(v.dp), e), !.wflag = TRUE]

-----------------------------------------------------------------------------
(* Walking a table. *)

\* One write per sector; the window is left on the first, all zero.
dir_clear(v, clst) ==
  LET t == clst2sect(v, clst)
  IN  IfOk(sync_window(v), LAMBDA s :
        For(v.csize, LAMBDA n, f : disk_write(f, t + n - 1, ZeroSector),
            [s EXCEPT !.winsect = t, !.win = ZeroSector]))

\* dir_sdi(dp, 0): every call of this configuration goes to the beginning.
Rewind(v) ==
  LET root == v.dp.sclust = 0 /\ v.fs_type # "FAT32"
      clst == IF v.dp.sclust = 0 /\ v.fs_type = "FAT32" THEN v.dirbase ELSE v.dp.sclust
      sect == IF root THEN v.dirbase ELSE clst2sect(v, clst)
      at   == [v EXCEPT !.dp.dptr = 0, !.dp.sect = sect]
  IN  IF root THEN Ok([at EXCEPT !.dp.clust = 0])
      ELSE Failed([at EXCEPT !.dp.clust = clst], IF sect = 0 THEN "INT_ERR" ELSE "OK")

EndOfTable(v) == Failed([v EXCEPT !.dp.sect = 0], "NO_FILE")

\* The first sector of cluster clst becomes the current one.
EnterCluster(v, clst, ofs) ==
  Ok([v EXCEPT !.dp.clust = clst, !.dp.sect = clst2sect(v, clst), !.dp.dptr = ofs])

\* A cluster is added to the table: linked first, then cleared.
Stretch(v, ofs) ==
  After(create_chain(v, v.dp.clust), LAMBDA c :
    CASE c.val = 0    -> Failed(c, "DENIED")
      [] c.val = 1    -> Failed(c, "INT_ERR")
      [] c.val = DISK -> Failed(c, "DISK_ERR")
      [] OTHER -> After(dir_clear(c, c.val), LAMBDA z :
                    IF z.res # "OK" THEN Failed(z, "DISK_ERR")
                    ELSE EnterCluster(z, c.val, ofs)))

dir_next(v, stretch) ==
  LET ofs == v.dp.dptr + SZDIRE
      s   == [v EXCEPT !.dp.sect = @ + 1]
  IN  IF v.dp.sect = 0 \/ ofs >= MAX_DIR THEN EndOfTable(v)
      ELSE IF ofs % SS # 0 THEN Ok([v EXCEPT !.dp.dptr = ofs])
      ELSE IF v.dp.clust = 0
             THEN IF ofs \div SZDIRE >= v.n_rootdir THEN EndOfTable(s)
                  ELSE Ok([s EXCEPT !.dp.dptr = ofs])
      ELSE IF (ofs \div SS) % v.csize # 0 THEN Ok([s EXCEPT !.dp.dptr = ofs])
      ELSE After(get_fat(s, v.dp.clust), LAMBDA g :
             CASE g.val \in {0, 1}   -> Failed(g, "INT_ERR")
               [] g.val = DISK       -> Failed(g, "DISK_ERR")
               [] IsCluster(v, g.val) -> EnterCluster(g, g.val, ofs)
               [] OTHER -> IF stretch THEN Stretch(g, ofs) ELSE EndOfTable(g))

\* The walk shared by the searches: from the entry under dp, step by step,
\* until one whose name is among names, or, if ~among, is not. The result is
\* "FOUND" at that entry, and otherwise why the walk ended. A table whose
\* chain closes on itself is walked round until MAX_DIR.
Walk(v, names, among, stretch) ==
  After(While(LAMBDA w : w.res = "OK",
              LAMBDA w : IfOk(move_window(w, w.dp.sect), LAMBDA m :
                           IF (Entry(m).name \in names) = among THEN Failed(m, "FOUND")
                           ELSE dir_next(m, stretch)),
              v, MaxEntries(v)),
        LAMBDA w : IF w.res = "OK" THEN EndOfTable(w) ELSE w)

Found(v) == Ok([v EXCEPT !.dp.attr = Entry(v).attr])

\* Finds a free entry, behind the last one if need be.
dir_alloc(v) ==
  After(Walk(Rewind(v), {"deleted", "end"}, TRUE, TRUE), LAMBDA w :
    CASE w.res = "FOUND"   -> Ok(w)
      [] w.res = "NO_FILE" -> Failed(w, "DENIED")
      [] OTHER -> w)

\* Mutant: a deleted entry is taken for the end.
FindStopsShort(v) ==
  After(Walk(Rewind(v), {"end", "deleted", v.dp.fn}, TRUE, FALSE), LAMBDA w :
    IF w.res # "FOUND" THEN w
    ELSE IF Entry(w).name = v.dp.fn THEN Found(w) ELSE Failed(w, "NO_FILE"))

dir_find(v) ==
  After(Walk(Rewind(v), {"end", v.dp.fn}, TRUE, FALSE), LAMBDA w :
    IF w.res # "FOUND" THEN w
    ELSE IF Entry(w).name = "end" THEN Failed(w, "NO_FILE") ELSE Found(w))

\* The next entry that is neither free nor a dot entry, from where dp is.
dir_read(v) ==
  After(IF v.dp.sect = 0 THEN Failed(v, "NO_FILE")
        ELSE Walk(Ok(v), {"deleted", ".", ".."}, FALSE, FALSE), LAMBDA w :
    CASE w.res = "FOUND" /\ Entry(w).name # "end" -> Found(w)
      [] w.res = "FOUND" /\ Entry(w).name = "end" -> EndOfTable(w)
      [] OTHER -> [w EXCEPT !.dp.sect = 0])

dir_register(v) ==
  IfOk(dir_alloc(v), LAMBDA a :
    IfOk(move_window(a, a.dp.sect), LAMBDA m : SetEntry(m, [EndEntry EXCEPT !.name = v.dp.fn])))

\* Mutant: the entry becomes one that was never used.
RemoveEnds(v) == IfOk(move_window(v, v.dp.sect), LAMBDA m : SetEntry(m, EndEntry))

\* Only the first byte of the name is changed; no code reads the rest of a
\* deleted entry.
dir_remove(v) == IfOk(move_window(v, v.dp.sect), LAMBDA m : SetEntry(m, DeletedEntry))

-----------------------------------------------------------------------------
(* Paths: sequences of names from the root. *)

\* One segment: found, or not found with the error of an inner segment.
Descend(v, path, i) ==
  After(dir_find([v EXCEPT !.dp.fn = path[i]]), LAMBDA f :
    CASE f.res = "NO_FILE" /\ i < Len(path) -> Failed(f, "NO_PATH")
      [] f.res = "OK" /\ i < Len(path) ->
           IF f.dp.attr # "dir" THEN Failed(f, "NO_PATH")
           ELSE [f EXCEPT !.dp.sclust = Entry(f).clust]
      [] OTHER -> f)

follow_path(v, path) ==
  LET origin == [v EXCEPT !.dp.sclust = 0, !.dp.noname = (path = ROOT)]
  IN  IF path = ROOT THEN Rewind(origin)
      ELSE For(Len(path), LAMBDA i, s : Descend(s, path, i), Ok(origin))

=============================================================================
