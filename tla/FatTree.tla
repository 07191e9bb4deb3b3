------------------------------- MODULE FatTree -------------------------------
(***************************************************************************)
(* The calls of FatFS/ff.c that change or read the directory tree. A       *)
(* directory object of a call, or one that f_opendir leaves to the         *)
(* application, is the dp of the volume it worked on.                      *)
(***************************************************************************)
EXTENDS FatFile

With(v, dp) == [v EXCEPT !.dp = dp]

-----------------------------------------------------------------------------
(* f_unlink *)

\* A sub-directory may be removed when nothing but dot entries is in it.
Removable(v) ==
  IF v.dp.attr # "dir" THEN v
  ELSE After(IfOk(Rewind([v EXCEPT !.dp.sclust = Entry(v).clust]), dir_read), LAMBDA d :
    LET w == With(d, v.dp)
    IN  CASE d.res = "OK"      -> Failed(w, "DENIED")
          [] d.res = "NO_FILE" -> Ok(w)
          [] OTHER             -> w)

\* The entry goes first, then the clusters.
f_unlink(v, path) ==
  IfOk(Located(v, path), LAMBDA p :
    IF p.dp.noname THEN Failed(p, "INVALID_NAME")
    ELSE IfOk(Removable(p), LAMBDA c :
         IfOk(dir_remove(c), LAMBDA e :
         IfOk(IF Entry(p).clust # 0 THEN remove_chain(e, Entry(p).clust, 0) ELSE e, sync_fs))))

-----------------------------------------------------------------------------
(* f_mkdir *)

Dot(name, clst) == [name |-> name, attr |-> "dir", clust |-> clst, size |-> 0]

\* The table of the new directory, in the window that dir_clear left on it.
WithDots(v, dcl, pcl) ==
  [v EXCEPT !.win = DirSector([i \in Slots |-> CASE i = 0 -> Dot(".", dcl)
                                                 [] i = 1 -> Dot("..", pcl)
                                                 [] OTHER -> EndEntry]),
            !.wflag = TRUE]

\* A cluster is made into a table before the entry that leads to it; if the
\* entry cannot be made the cluster is given back.
f_mkdir(v, path) ==
  After(Located(v, path), LAMBDA p :
    CASE p.res = "OK" -> Failed(p, "EXIST")
      [] p.res \notin {"OK", "NO_FILE"} -> p
      [] p.res = "NO_FILE" -> After(create_chain(p, 0), LAMBDA c :
           LET dcl == c.val
           IN  After(CASE dcl = 0    -> Failed(c, "DENIED")
                       [] dcl = 1    -> Failed(c, "INT_ERR")
                       [] dcl = DISK -> Failed(c, "DISK_ERR")
                       [] OTHER -> IfOk(dir_clear(c, dcl), LAMBDA z :
                                     dir_register(WithDots(z, dcl, p.dp.sclust))), LAMBDA d :
                 IF d.res = "OK" THEN sync_fs(SetEntry(d, Dot(p.dp.fn, dcl)))
                 ELSE Failed(remove_chain(d, dcl, 0), d.res))))

-----------------------------------------------------------------------------
(* f_rename *)

\* The ".." entry of a directory that moves is made to name its new parent.
NewParent(v, old) ==
  LET sect == clst2sect(v, Entry(v).clust)
      Named(m) == LET up == EntryIn(m.win, 1) IN
        IF up.name # ".." THEN m
        ELSE [m EXCEPT !.win = Enter(@, 1, [up EXCEPT !.clust = v.dp.sclust]), !.wflag = TRUE]
  IN  IF Entry(v).attr # "dir" \/ old.sclust = v.dp.sclust THEN v
      ELSE IF sect = 0 THEN Failed(v, "INT_ERR")
      ELSE IfOk(move_window(v, sect), Named)

\* The new entry is made before the old one is removed.
f_rename(v, path_old, path_new) ==
  IfOk(Located(v, path_old), LAMBDA p :
    IF p.dp.noname THEN Failed(p, "INVALID_NAME")
    ELSE After(follow_path(p, path_new), LAMBDA q :
      LET same == q.dp.sclust = p.dp.sclust /\ q.dp.dptr = p.dp.dptr
          new  == [Entry(p) EXCEPT !.name = q.dp.fn]
      IN  CASE q.res = "OK" /\ ~same -> Failed(q, "EXIST")
            [] q.res \notin {"OK", "NO_FILE"} -> q
            [] OTHER -> IfOk(dir_register(q), LAMBDA r :
                        IfOk(NewParent(SetEntry(r, new), p.dp), LAMBDA n :
                        IfOk(dir_remove(With(n, p.dp)), sync_fs)))))

-----------------------------------------------------------------------------
(* f_stat, f_getfree *)

f_stat(v, path) ==
  IfOk(Located(v, path), LAMBDA p : IF p.dp.noname THEN Failed(p, "INVALID_NAME") ELSE p)

\* One entry is looked at: FAT16 and FAT32 walk the sectors from the first,
\* FAT12 the clusters.
CountNext(s) ==
  LET v == s.vol
      Tally(g, free) == [vol |-> g, clst |-> s.clst + 1, n |-> IF free THEN s.n + 1 ELSE s.n]
  IN  IF v.fs_type = "FAT12"
        THEN After(get_fat(v, s.clst), LAMBDA g :
               CASE g.val = DISK -> Tally(Failed(g, "DISK_ERR"), FALSE)
                 [] g.val = 1    -> Tally(Failed(g, "INT_ERR"), FALSE)
                 [] OTHER        -> Tally(Ok(g), g.val = 0))
      ELSE After(move_window(v, v.fatbase + s.clst \div PerSector(v)), LAMBDA g :
             Tally(g, g.res = "OK" /\ g.win.body[s.clst % PerSector(v)] = 0))

\* Counts the free entries of the whole FAT unless the count is known.
f_getfree(v) ==
  IfOk(mount_volume(v), LAMBDA m :
    IF CountKnown(m) THEN m
    ELSE After(While(LAMBDA s : s.vol.res = "OK" /\ s.clst < m.n_fatent, CountNext,
                     [vol |-> m, n |-> 0, clst |-> IF m.fs_type = "FAT12" THEN 2 ELSE 0], m.n_fatent),
               LAMBDA s : IF s.vol.res = "OK" THEN Changed([s.vol EXCEPT !.free_clst = s.n]) ELSE s.vol))

-----------------------------------------------------------------------------
(* f_opendir, f_readdir *)

f_opendir(v, path) ==
  After(IfOk(Located(v, path), LAMBDA p :
          IF p.dp.noname THEN Rewind(p)
          ELSE IF p.dp.attr # "dir" THEN Failed(p, "NO_PATH")
          ELSE Rewind([p EXCEPT !.dp.sclust = Entry(p).clust])), LAMBDA r :
    IF r.res = "NO_FILE" THEN Failed(r, "NO_PATH") ELSE r)

\* The name of the next entry, "none" at the end of the table, and the volume
\* with the directory object moved behind it.
f_readdir(v, dp) ==
  After(dir_read(With(v, dp)), LAMBDA r :
    After(IF r.res \in {"OK", "NO_FILE"} THEN dir_next(r, FALSE) ELSE r, LAMBDA w :
      [vol  |-> IF w.res = "NO_FILE" THEN Ok(w) ELSE w,
       name |-> IF r.res = "OK" THEN Entry(r).name ELSE "none"]))

=============================================================================
