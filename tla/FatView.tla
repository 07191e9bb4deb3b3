------------------------------- MODULE FatView -------------------------------
(***************************************************************************)
(* What a FatFS volume means: the FAT, the chains, the directory tree and  *)
(* the bytes of the files, read off the sectors without any of the code's  *)
(* loops. The specifications' properties compare the code with it. An      *)
(* operator looks through the window, so that it sees what the calls see;  *)
(* OnDisk(v) is the volume as a power loss would leave it.                 *)
(***************************************************************************)
EXTENDS FatTree, SequencesExt

OnDisk(v) == [v EXCEPT !.winsect = NoSector, !.wflag = FALSE]

Seen(v, sect) == IF sect = v.winsect THEN v.win ELSE v.disk[sect]

Clusters(v) == 2 .. v.n_fatent - 1

FatEntry(v, clst) ==
  LET bc == FirstByte(clst)
      byte(i) == Seen(v, v.fatbase + i \div SS).body[i % SS]
  IN  IF v.fs_type = "FAT12" THEN Entry12(clst, byte(bc), byte(bc + 1))
      ELSE Seen(v, v.fatbase + clst \div PerSector(v)).body[clst % PerSector(v)]

Fat(v) == [c \in Clusters(v) |-> FatEntry(v, c)]

FreeClusters(v) == {c \in Clusters(v) : FatEntry(v, c) = 0}

\* The clusters from clst on, in order; as many as the FAT has entries if
\* the chain closes on itself.
ChainIn(fat, clst) ==
  LET last(s) == s[Len(s)]
      walk[n \in 0 .. Cardinality(DOMAIN fat)] ==
        IF n = 0 THEN IF clst \in DOMAIN fat THEN <<clst>> ELSE <<>>
        ELSE LET s == walk[n - 1]
             IN  IF s # <<>> /\ fat[last(s)] \in DOMAIN fat THEN Append(s, fat[last(s)]) ELSE s
  IN  walk[Cardinality(DOMAIN fat)]

\* A chain without a repetition that ends with the end-of-chain mark.
Sound(v, fat, chain) ==
  /\ \A i, j \in DOMAIN chain : i # j => chain[i] # chain[j]
  /\ chain # <<>> => fat[chain[Len(chain)]] >= v.n_fatent

-----------------------------------------------------------------------------
(* The tree. *)

\* The sectors of a chain, in order.
ChainSectors(v, chain) ==
  [i \in 1 .. Len(chain) * v.csize |->
     clst2sect(v, chain[(i - 1) \div v.csize + 1]) + ((i - 1) % v.csize)]

\* The sectors of a directory table.
TableSectors(v, fat, clst) ==
  LET first == IF clst = 0 /\ v.fs_type = "FAT32" THEN v.dirbase ELSE clst
  IN  IF first # 0 THEN ChainSectors(v, ChainIn(fat, first))
      ELSE [i \in 1 .. (v.n_rootdir * SZDIRE) \div SS |-> v.dirbase + i - 1]

EntriesIn(v, sects) ==
  LET per == SS \div SZDIRE
  IN  [i \in 1 .. Len(sects) * per |->
         EntryIn(Seen(v, sects[(i - 1) \div per + 1]), (i - 1) % per)]

\* The entries up to the first that was never used.
Used(entries) ==
  LET ends == {i \in DOMAIN entries : entries[i].name = "end"}
  IN  IF ends = {} THEN entries
      ELSE SubSeq(entries, 1, (CHOOSE i \in ends : \A j \in ends : i <= j) - 1)

Table(v, fat, clst) == Used(EntriesIn(v, TableSectors(v, fat, clst)))

Listed(v, fat, clst) ==
  {e \in Range(Table(v, fat, clst)) : e.name \notin {"deleted", ".", ".."}}

NoEntry == [name |-> "none", attr |-> "none", clust |-> 0, size |-> 0]

Named(entries, name) ==
  IF \E e \in entries : e.name = name THEN CHOOSE e \in entries : e.name = name ELSE NoEntry

\* The entry of a path; the root counts as a directory.
EntryOf(v, fat, path) ==
  FoldLeft(LAMBDA up, name :
             IF up.attr = "dir" THEN Named(Listed(v, fat, up.clust), name) ELSE NoEntry,
           [NoEntry EXCEPT !.attr = "dir"], path)

-----------------------------------------------------------------------------
(* Contents. *)

\* size bytes along the chain from clst, as sector(n) gives them.
BytesAlong(v, fat, clst, size, sector(_)) ==
  After(ChainSectors(v, ChainIn(fat, clst)), LAMBDA sects :
    [i \in 1 .. Min2(size, Len(sects) * SS) |-> sector(sects[(i - 1) \div SS + 1])[(i - 1) % SS]])

\* The bytes of a file as its entry leads to them, and as an open file sees
\* them: from its own start cluster and size and with its dirty buffer.
EntryBytes(v, fat, e) ==
  BytesAlong(v, fat, e.clust, e.size, LAMBDA s : Bytes(Seen(v, s)))

FileBytes(v, fat, fp) ==
  BytesAlong(v, fat, fp.sclust, fp.objsize,
    LAMBDA s : IF Has(fp, "DIRTY") /\ fp.sect = s THEN fp.buf ELSE Bytes(Seen(v, s)))

\* What a path holds, as an application sees it that reads the entry.
Node(v, fat, path) ==
  After(EntryOf(v, fat, path), LAMBDA e :
    CASE e.attr = "dir"  -> [kind |-> "dir", data |-> <<>>]
      [] e.attr = "none" -> [kind |-> "none", data |-> <<>>]
      [] e.attr = "file" -> [kind |-> "file", data |-> EntryBytes(v, fat, e)])
=============================================================================
