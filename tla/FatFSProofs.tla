------------------------------ MODULE FatFSProofs ------------------------------
(***************************************************************************)
(* The file system's driver, for volumes of any size and FAT type, any     *)
(* program of its calls and any faults: after every call the volume is     *)
(* sane (Sane), the FATs are where they were formatted and well-typed, and *)
(* without faults the second FAT is a copy of the first and the count of   *)
(* free clusters is exact.                                                 *)
(*                                                                         *)
(* G is the volume as it was formatted; Good(G, v) says what every step    *)
(* keeps of a volume v, faults or not: the geometry, FAT sectors in the    *)
(* FATs and well-formed entries in directory tables, and a window that,    *)
(* if it was changed, does not lie in the second FAT.  A lemma of an       *)
(* operation relates the volume before it to the one after it:             *)
(*   Differ   only the named fields changed;                               *)
(*   Unhurt   good again, the FAT looks the same, the FATs stay alike;     *)
(*   Serves   good again, the FATs stay alike, an exact count stays exact  *)
(*            (one Cardinality of the free clusters more or less for one   *)
(*            entry written);                                              *)
(*   Walks, Goes   the same with a directory object that stays sound;      *)
(*   Sits, Held, Works, Buffers   the same for a session of a file object, *)
(*            whose pointer, cluster and buffer stay inside the volume;    *)
(*   Leaves   what a whole call keeps, mounting included.                  *)
(* The parts follow the code from the disk upwards: window and FAT         *)
(* entries, chains, directories, the calls on paths, those on files, the   *)
(* formatted volume, and the steps of a program.                           *)
(***************************************************************************)
EXTENDS FatFS, FiniteSetTheorems, TLAPS

-----------------------------------------------------------------------------
(* Volumes as records: IsVol, and Differ for w that is v but for the       *)
(* fields F.                                                               *)

VolFields ==
  {"fs_type", "csize", "n_fats", "n_rootdir", "n_fatent", "fsize", "volbase",
   "fatbase", "dirbase", "database", "state", "win", "winsect", "wflag",
   "free_clst", "last_clst", "fsi_flag", "disk", "res", "val", "fuel", "cut", "dp"}

IsVol(v) == v = [f \in VolFields |-> v[f]]

Differ(v, w, F) == IsVol(w) /\ \A f \in VolFields : f \notin F => w[f] = v[f]

LEMMA DifferMore ==
  ASSUME NEW v, NEW w, NEW F, NEW H, Differ(v, w, F), F \subseteq H PROVE Differ(v, w, H)
BY Zenon DEF Differ

LEMMA DifferTwice ==
  ASSUME NEW v, NEW u, NEW w, NEW F, Differ(v, u, F), Differ(u, w, F) PROVE Differ(v, w, F)
BY Zenon DEF Differ

(* What the operators that set a field or two do.                          *)
LEMMA ResIs ==
  ASSUME NEW v, IsVol(v), NEW r
  PROVE  /\ Differ(v, Failed(v, r), {"res"}) /\ Failed(v, r).res = r
         /\ Differ(v, Ok(v), {"res"}) /\ Ok(v).res = "OK"
BY Zenon DEF IsVol, Differ, VolFields, Failed, Ok

LEMMA ValIs ==
  ASSUME NEW v, IsVol(v), NEW c
  PROVE  Differ(v, Returns(v, c), {"val"}) /\ Returns(v, c).val = c
BY Zenon DEF IsVol, Differ, VolFields, Returns

LEMMA FlagIs ==
  ASSUME NEW v, IsVol(v), NEW b
  PROVE  Differ(v, [v EXCEPT !.wflag = b], {"wflag"}) /\ [v EXCEPT !.wflag = b].wflag = b
BY Zenon DEF IsVol, Differ, VolFields

-----------------------------------------------------------------------------
(* Geometry: G is the volume as it was formatted. *)

GeoFields ==
  {"fs_type", "csize", "n_fats", "n_rootdir", "n_fatent", "fsize", "volbase",
   "fatbase", "dirbase", "database"}

(* The sectors of the first FAT, of all FATs, and where the FATs end.      *)
Ends(G) == IF G.n_fats = 2 THEN G.fatbase + 2 * G.fsize ELSE G.fatbase + G.fsize
Fat1(G) == G.fatbase .. G.fatbase + G.fsize - 1
Fats(G) == G.fatbase .. Ends(G) - 1

(* The cells of the FAT, bytes or entries: how many a sector has, and the  *)
(* last that is used.                                                      *)
Width(G)    == IF G.fs_type = "FAT12" THEN SS ELSE PerSector(G)
LastCell(G) == IF G.fs_type = "FAT12" THEN FirstByte(G.n_fatent - 1) + 1 ELSE G.n_fatent - 1

Byte   == 0 .. 255
Bits12 == 0 .. 4095

GeoOK(G) ==
  /\ G.fs_type \in {"FAT12", "FAT16", "FAT32"}
  /\ G.n_fats \in {1, 2} /\ G.csize \in Nat \ {0} /\ G.fsize \in Nat \ {0}
  /\ G.n_fatent \in Nat /\ G.n_fatent >= 3 /\ G.n_rootdir \in Nat
  /\ G.fs_type = "FAT12" => G.n_fatent \in Bits12
  /\ G.volbase = 0 /\ G.fatbase \in Nat /\ G.fatbase >= 1
  /\ G.fs_type = "FAT32" => G.fatbase >= 2
  /\ G.database \in Nat /\ G.database >= Ends(G)
  /\ G.fs_type # "FAT32" => G.dirbase \in Nat /\ G.dirbase >= Ends(G)
  /\ DOMAIN G.disk = 0 .. G.database + G.csize * (G.n_fatent - 2) - 1
  /\ LastCell(G) \div Width(G) < G.fsize

HasGeo(G, v) ==
  /\ IsVol(v) /\ DOMAIN v.disk = DOMAIN G.disk
  /\ \A f \in GeoFields : v[f] = G[f]

(* What a sector holds, by where it is.                                    *)
CellType(G) == IF G.fs_type = "FAT12" THEN Byte ELSE Nat
Row(G)      == [0 .. Width(G) - 1 -> CellType(G)]

IsFat(G, x) == x = FatSector(x.body) /\ x.body \in Row(G)

(* The two entries before those of the clusters are not free.              *)
Reserved(G, s, x) ==
  G.fs_type # "FAT12" =>
    \A k \in {0, 1} : s = G.fatbase + k \div Width(G) => x.body[k % Width(G)] # 0

IsEntry(e) ==
  e = [name |-> e.name, attr |-> e.attr, clust |-> e.clust, size |-> e.size] /\ e.size \in Nat

IsTable(x) ==
  x.kind = "dir" =>
    /\ x = DirSector(x.body) /\ x.body = [i \in Slots |-> x.body[i]]
    /\ \A i \in Slots : IsEntry(x.body[i])

Content(G, s, x) ==
  /\ s \in Fats(G) => IsFat(G, x)
  /\ s \in Fat1(G) => Reserved(G, s, x)
  /\ IsTable(x)

DiskOK(G, v) == \A s \in DOMAIN G.disk : Content(G, s, v.disk[s])

(* Where sectors other than the FATs' may be written.                      *)
Beyond(G, s) == s \in Int /\ s >= Ends(G)

(* The window: a changed one is of the first FAT or of what is behind the  *)
(* FATs; one that was not changed is what the disk has.                    *)
WindowOK(G, v) ==
  /\ v.winsect \in DOMAIN G.disk \cup {NoSector} /\ v.wflag \in BOOLEAN
  /\ Content(G, v.winsect, v.win)
  /\ v.wflag => v.winsect \in Fat1(G) \/ Beyond(G, v.winsect)
  /\ ~v.wflag /\ v.winsect \in Fat1(G) => v.win = v.disk[v.winsect]

Good(G, v) == HasGeo(G, v) /\ DiskOK(G, v) /\ WindowOK(G, v)

(* No fault is to come.                                                    *)
Quiet(v) == v.fuel = NoFault

(* The second FAT is a copy of the first.                                  *)
Mirror(G, v) == G.n_fats = 2 => \A s \in Fat1(G) : v.disk[s] = v.disk[s + G.fsize]

(* The FAT looks the same.                                                 *)
FatSame(G, v, w) == \A s \in Fat1(G) : Seen(w, s) = Seen(v, s)

(* Without a fault to come there is none afterwards, and the FATs stay     *)
(* alike.                                                                  *)
Calm(G, v, w) == Quiet(v) => Quiet(w) /\ (Mirror(G, v) => Mirror(G, w))

-----------------------------------------------------------------------------
(* The disk. *)

(* The geometry, field by field.                                           *)
LEMMA GeoIs ==
  ASSUME NEW G, NEW v, HasGeo(G, v)
  PROVE  /\ IsVol(v) /\ DOMAIN v.disk = DOMAIN G.disk
         /\ v.fs_type = G.fs_type /\ v.csize = G.csize /\ v.n_fats = G.n_fats
         /\ v.n_rootdir = G.n_rootdir /\ v.n_fatent = G.n_fatent /\ v.fsize = G.fsize
         /\ v.volbase = G.volbase /\ v.fatbase = G.fatbase /\ v.dirbase = G.dirbase
         /\ v.database = G.database
BY Zenon DEF HasGeo, GeoFields

LEMMA GeoStays ==
  ASSUME NEW G, NEW v, NEW w, NEW F, HasGeo(G, v), Differ(v, w, F), F \cap GeoFields = {},
         DOMAIN w.disk = DOMAIN v.disk
  PROVE  HasGeo(G, w)
<1>1. \A f \in GeoFields : f \in VolFields /\ f \notin F
  BY Zenon DEF GeoFields, VolFields
<1> QED
  BY <1>1, Zenon DEF HasGeo, Differ

LEMMA SpentIs ==
  ASSUME NEW v, IsVol(v)
  PROVE  Differ(v, Spent(v), {"fuel"}) /\ (Quiet(v) => Quiet(Spent(v)))
<1> DEFINE x == IF v.fuel > 0 THEN v.fuel - 1 ELSE NoFault
<1>1. Spent(v) = [v EXCEPT !.fuel = x] \/ Spent(v) = v
  BY Zenon DEF Spent
<1>2. Quiet(v) => x = NoFault
  BY SMT DEF Quiet, NoFault
<1> HIDE DEF x
<1>3. Differ(v, [v EXCEPT !.fuel = x], {"fuel"}) /\ [v EXCEPT !.fuel = x].fuel = x
  BY Zenon DEF IsVol, Differ, VolFields
<1>4. Differ(v, v, {"fuel"})
  BY Zenon DEF Differ
<1> QED
  BY <1>1, <1>2, <1>3, <1>4, Zenon DEF Quiet

LEMMA ReachableQuiet ==
  ASSUME NEW v, Quiet(v), NEW s PROVE Reachable(v, s) <=> s \in DOMAIN v.disk
BY SMT DEF Quiet, Reachable, NoFault

LEMMA DiskWriteIs ==
  ASSUME NEW v, IsVol(v), NEW s, NEW c
  PROVE  LET w == disk_write(v, s, c) IN
         /\ Differ(v, w, {"disk", "fuel", "res"}) /\ w.res \in {"OK", "DISK_ERR"}
         /\ IF w.res = "OK" THEN s \in DOMAIN v.disk /\ w.disk[s] = c ELSE w.disk = v.disk
         /\ DOMAIN w.disk = DOMAIN v.disk /\ \A t \in DOMAIN v.disk : t # s => w.disk[t] = v.disk[t]
         /\ Quiet(v) => Quiet(w) /\ (w.res = "OK" <=> s \in DOMAIN v.disk)
<1> DEFINE d == [v.disk EXCEPT ![s] = c]
<1>1. PICK u : u = Spent(v)
  OBVIOUS
<1>2. Differ(v, u, {"fuel"}) /\ (Quiet(v) => Quiet(u))
  BY <1>1, SpentIs, Zenon
<1>3. IsVol(u) /\ u.disk = v.disk
  BY <1>2, Zenon DEF Differ, VolFields
<1>4. CASE Reachable(v, s)
  <2>1. disk_write(v, s, c) = [u EXCEPT !.disk = d, !.res = "OK"]
    BY <1>1, <1>3, <1>4 DEF disk_write
  <2>2. /\ DOMAIN d = DOMAIN v.disk /\ \A t \in DOMAIN v.disk : t # s => d[t] = v.disk[t]
        /\ s \in DOMAIN v.disk => d[s] = c
    OBVIOUS
  <2> HIDE DEF d
  <2>3. PICK w : w = [u EXCEPT !.disk = d, !.res = "OK"]
    OBVIOUS
  <2>4. Differ(u, w, {"disk", "res"}) /\ w.disk = d /\ w.res = "OK"
    BY <1>3, <2>3, Zenon DEF IsVol, Differ, VolFields
  <2>5. Differ(v, w, {"disk", "fuel", "res"})
    BY <1>2, <2>4, Zenon DEF Differ
  <2>6. Quiet(u) => Quiet(w)
    BY <2>4, Zenon DEF Quiet, Differ, VolFields
  <2>7. s \in DOMAIN v.disk
    BY <1>4, Zenon DEF Reachable
  <2> QED
    BY <1>2, <2>1, <2>2, <2>3, <2>4, <2>5, <2>6, <2>7, Zenon
<1>5. CASE ~Reachable(v, s)
  <2>1. disk_write(v, s, c) = Failed(u, "DISK_ERR")
    BY <1>1, <1>5, Zenon DEF disk_write
  <2>2. PICK w : w = Failed(u, "DISK_ERR")
    OBVIOUS
  <2>3. Differ(u, w, {"res"}) /\ w.res = "DISK_ERR"
    BY <1>3, <2>2, ResIs, Zenon
  <2>4. w.disk = v.disk /\ (Quiet(u) => Quiet(w))
    BY <1>3, <2>3, Zenon DEF Quiet, Differ, VolFields
  <2>5. Differ(v, w, {"disk", "fuel", "res"})
    BY <1>2, <2>3, Zenon DEF Differ
  <2>6. Quiet(v) => s \notin DOMAIN v.disk
    BY <1>5, ReachableQuiet, Zenon
  <2>7. "DISK_ERR" # "OK"
    OBVIOUS
  <2> QED
    BY <1>2, <2>1, <2>2, <2>3, <2>4, <2>5, <2>6, <2>7, Zenon
<1> QED
  BY <1>4, <1>5

LEMMA DiskReadIs ==
  ASSUME NEW v, IsVol(v), NEW s
  PROVE  LET w == disk_read(v, s) IN
         /\ Differ(v, w, {"fuel", "res"}) /\ w.res \in {"OK", "DISK_ERR"}
         /\ w.res = "OK" => s \in DOMAIN v.disk
         /\ Quiet(v) => Quiet(w) /\ (w.res = "OK" <=> s \in DOMAIN v.disk)
<1>1. PICK u : u = Spent(v)
  OBVIOUS
<1>2. Differ(v, u, {"fuel"}) /\ (Quiet(v) => Quiet(u))
  BY <1>1, SpentIs, Zenon
<1>3. PICK w : w = disk_read(v, s)
  OBVIOUS
<1> DEFINE r == IF Reachable(v, s) THEN "OK" ELSE "DISK_ERR"
<1>4. w = Failed(u, r)
  BY <1>1, <1>3, Zenon DEF disk_read
<1>5. IsVol(u)
  BY <1>2, Zenon DEF Differ
<1> HIDE DEF r
<1>6. Differ(u, w, {"res"}) /\ w.res = r
  BY <1>4, <1>5, ResIs, Zenon
<1>7. Differ(v, w, {"fuel", "res"}) /\ (Quiet(u) => Quiet(w))
  BY <1>2, <1>6, Zenon DEF Quiet, Differ, VolFields
<1>8. /\ r \in {"OK", "DISK_ERR"} /\ (r = "OK" => s \in DOMAIN v.disk)
      /\ Quiet(v) => (r = "OK" <=> s \in DOMAIN v.disk)
  BY ReachableQuiet DEF r, Reachable
<1> QED
  BY <1>2, <1>3, <1>6, <1>7, <1>8, Zenon

(* w is v but for the fields F and is good again, the FAT looks the same,  *)
(* and the FATs stay alike if no fault is to come.                         *)
Unhurt(G, v, w, F) == Differ(v, w, F) /\ Good(G, w) /\ FatSame(G, v, w) /\ Calm(G, v, w)

(* The fields that window, chain and directory operations change.          *)
WinFields == {"disk", "fuel", "res", "wflag", "win", "winsect"}
ReadFields  == WinFields \cup {"val", "fsi_flag"}
ChainFields == ReadFields \cup {"free_clst", "last_clst"}
DirFields == ChainFields \cup {"dp"}

LEMMA UnhurtTwice ==
  ASSUME NEW G, NEW v, NEW u, NEW w, NEW F, Unhurt(G, v, u, F), Unhurt(G, u, w, F)
  PROVE  Unhurt(G, v, w, F)
<1>1. Differ(v, w, F)
  BY DifferTwice, Zenon DEF Unhurt
<1>2. FatSame(G, v, w) /\ Calm(G, v, w)
  BY Zenon DEF Unhurt, FatSame, Calm
<1> QED
  BY <1>1, <1>2, Zenon DEF Unhurt

LEMMA UnhurtMore ==
  ASSUME NEW G, NEW v, NEW w, NEW F, NEW H, Unhurt(G, v, w, F), F \subseteq H
  PROVE  Unhurt(G, v, w, H)
BY DifferMore, Zenon DEF Unhurt

LEMMA UnhurtUp ==
  ASSUME NEW G, NEW v, NEW w
  PROVE  Unhurt(G, v, w, WinFields) => Unhurt(G, v, w, ReadFields)
<1>1. WinFields \subseteq ReadFields
  BY Zenon DEF ReadFields
<1> QED
  BY <1>1, UnhurtMore, Zenon

(* The registers and counts of a volume may change.                        *)
LEMMA RegisterUnhurt ==
  ASSUME NEW G, NEW v, Good(G, v), NEW w, NEW F, Differ(v, w, F),
         F \cap GeoFields = {}, F \cap {"disk", "fuel", "wflag", "win", "winsect"} = {}
  PROVE  Unhurt(G, v, w, F)
<1>1. w.disk = v.disk /\ w.fuel = v.fuel /\ w.wflag = v.wflag /\ w.win = v.win /\ w.winsect = v.winsect
  BY Zenon DEF Differ, VolFields
<1>2. HasGeo(G, w)
  BY <1>1, GeoStays, Zenon DEF Good
<1>3. DiskOK(G, w) /\ WindowOK(G, w)
  BY <1>1, Zenon DEF Good, DiskOK, WindowOK
<1>4. FatSame(G, v, w) /\ Calm(G, v, w)
  BY <1>1, Zenon DEF FatSame, Calm, Seen, Quiet, Mirror
<1> QED
  BY <1>2, <1>3, <1>4, Zenon DEF Unhurt, Good

LEMMA GoodIsVol ==
  ASSUME NEW G, NEW v, Good(G, v) PROVE IsVol(v) /\ HasGeo(G, v)
BY Zenon DEF Good, HasGeo

LEMMA ResUnhurt ==
  ASSUME NEW G, NEW v, Good(G, v), NEW r
  PROVE  /\ Unhurt(G, v, Failed(v, r), WinFields) /\ Failed(v, r).res = r
         /\ Unhurt(G, v, Ok(v), WinFields) /\ Ok(v).res = "OK"
<1> DEFINE F == {"res"}
<1>1. F \cap GeoFields = {} /\ F \cap {"disk", "fuel", "wflag", "win", "winsect"} = {} /\ F \subseteq WinFields
  BY Zenon DEF GeoFields, WinFields
<1>2. Differ(v, Failed(v, r), F) /\ Differ(v, Ok(v), F) /\ Failed(v, r).res = r /\ Ok(v).res = "OK"
  BY ResIs, GoodIsVol, Zenon
<1> HIDE DEF F
<1> QED
  BY <1>1, <1>2, RegisterUnhurt, UnhurtMore, Zenon

LEMMA ValUnhurt ==
  ASSUME NEW G, NEW v, Good(G, v), NEW c
  PROVE  Unhurt(G, v, Returns(v, c), ReadFields) /\ Returns(v, c).val = c
<1> DEFINE F == {"val"}
<1>1. F \cap GeoFields = {} /\ F \cap {"disk", "fuel", "wflag", "win", "winsect"} = {} /\ F \subseteq ReadFields
  BY Zenon DEF GeoFields, ReadFields
<1>2. Differ(v, Returns(v, c), F) /\ Returns(v, c).val = c
  BY ValIs, GoodIsVol, Zenon
<1> HIDE DEF F
<1> QED
  BY <1>1, <1>2, RegisterUnhurt, UnhurtMore, Zenon

(* Reading the disk costs fuel.                                            *)
LEMMA FuelUnhurt ==
  ASSUME NEW G, NEW v, Good(G, v), NEW w, Differ(v, w, {"fuel", "res"}), Quiet(v) => Quiet(w)
  PROVE  Unhurt(G, v, w, WinFields)
<1>1. w.disk = v.disk /\ w.wflag = v.wflag /\ w.win = v.win /\ w.winsect = v.winsect
  BY Zenon DEF Differ, VolFields
<1>2. HasGeo(G, w)
  <2>1. {"fuel", "res"} \cap GeoFields = {}
    BY Zenon DEF GeoFields
  <2> QED
    BY <1>1, <2>1, GeoStays, Zenon DEF Good
<1>3. DiskOK(G, w) /\ WindowOK(G, w)
  BY <1>1, Zenon DEF Good, DiskOK, WindowOK
<1>4. FatSame(G, v, w) /\ Calm(G, v, w)
  BY <1>1, Zenon DEF FatSame, Calm, Seen, Mirror
<1>5. Differ(v, w, WinFields)
  BY Zenon DEF Differ, WinFields
<1> QED
  BY <1>2, <1>3, <1>4, <1>5, Zenon DEF Unhurt, Good

(* Where the FATs are.                                                     *)
LEMMA FatsIn ==
  ASSUME NEW G, GeoOK(G)
  PROVE  /\ Fat1(G) \subseteq Fats(G) /\ Fats(G) \subseteq DOMAIN G.disk
         /\ NoSector \notin Fats(G) /\ 0 \notin Fats(G)
         /\ G.fs_type = "FAT32" => 1 \notin Fats(G) /\ 1 \in DOMAIN G.disk
         /\ \A s : Beyond(G, s) => s \notin Fats(G) /\ s # NoSector /\ s # 0
         /\ G.n_fats = 2 => \A s \in Fat1(G) :
              /\ s + G.fsize \in Fats(G) /\ s + G.fsize \notin Fat1(G)
              /\ \A t \in Fat1(G) : t # s => t + G.fsize # s + G.fsize
<1>1. G.csize * (G.n_fatent - 2) \in Nat
  BY DEF GeoOK
<1>2. G.fatbase \in Nat /\ G.fsize \in Nat \ {0} /\ G.fatbase >= 1 /\ Ends(G) \in Nat /\ G.n_fats \in {1, 2}
  BY SMTT(30) DEF GeoOK, Ends
<1>3. Ends(G) >= G.fatbase + G.fsize
  BY <1>2 DEF Ends
<1>4. Fats(G) \subseteq DOMAIN G.disk
  <2>1. PICK m, e : m = G.csize * (G.n_fatent - 2) /\ e = Ends(G)
    OBVIOUS
  <2>2. DOMAIN G.disk = 0 .. G.database + m - 1 /\ G.database >= e
    BY <2>1, Zenon DEF GeoOK
  <2>3. G.database \in Nat /\ m \in Nat /\ e \in Nat
    BY <1>1, <1>2, <2>1, Zenon DEF GeoOK
  <2>4. Fats(G) = G.fatbase .. e - 1
    BY <2>1, Zenon DEF Fats
  <2> QED
    BY <1>2, <2>2, <2>3, <2>4
<1>5. NoSector \notin Fats(G) /\ 0 \notin Fats(G)
  BY <1>2 DEF Fats, NoSector
<1>6. G.fs_type = "FAT32" => 1 \notin Fats(G) /\ 1 \in DOMAIN G.disk
  BY <1>1, <1>2, <1>3, SMTT(30) DEF GeoOK, Fats
<1>7. \A s : Beyond(G, s) => s \notin Fats(G) /\ s # NoSector /\ s # 0
  BY <1>2, <1>3 DEF Beyond, Fats, NoSector
<1>8. ASSUME G.n_fats = 2, NEW s \in Fat1(G)
      PROVE  /\ s + G.fsize \in Fats(G) /\ s + G.fsize \notin Fat1(G)
             /\ \A t \in Fat1(G) : t # s => t + G.fsize # s + G.fsize
  BY <1>2, <1>8 DEF Fat1, Fats, Ends
<1>9. Fat1(G) \subseteq Fats(G)
  BY <1>2, <1>3 DEF Fat1, Fats
<1> QED
  BY <1>4, <1>5, <1>6, <1>7, <1>8, <1>9, Zenon

(* Sectors other than the FATs' may be written.                            *)
LEMMA WriteUnhurt ==
  ASSUME NEW G, GeoOK(G), NEW v, Good(G, v), NEW s, s \notin Fats(G), NEW c, IsTable(c)
  PROVE  Unhurt(G, v, disk_write(v, s, c), WinFields)
<1>1. PICK w : w = disk_write(v, s, c)
  OBVIOUS
<1>2. /\ Differ(v, w, {"disk", "fuel", "res"}) /\ DOMAIN w.disk = DOMAIN v.disk
      /\ w.disk = v.disk \/ (s \in DOMAIN v.disk /\ w.disk[s] = c)
      /\ \A t \in DOMAIN v.disk : t # s => w.disk[t] = v.disk[t]
      /\ Quiet(v) => Quiet(w)
  <2>1. IsVol(v)
    BY GoodIsVol, Zenon
  <2> QED
    BY <1>1, <2>1, DiskWriteIs
<1>3. HasGeo(G, w)
  <2>1. {"disk", "fuel", "res"} \cap GeoFields = {}
    BY Zenon DEF GeoFields
  <2> QED
    BY <1>2, <2>1, GeoStays, Zenon DEF Good
<1>4. DOMAIN v.disk = DOMAIN G.disk
  BY Zenon DEF Good, HasGeo
<1>5. \A t \in DOMAIN G.disk : t # s => w.disk[t] = v.disk[t]
  BY <1>2, <1>4
<1>6. s \in DOMAIN G.disk => w.disk[s] \in {v.disk[s], c}
  BY <1>2, <1>4
<1>7. s \notin Fat1(G) /\ Fats(G) \subseteq DOMAIN G.disk /\ Fat1(G) \subseteq Fats(G)
  BY FatsIn, Zenon
<1>8. DiskOK(G, w)
  BY <1>5, <1>6, <1>7, Zenon DEF Good, DiskOK, Content
<1>9. w.win = v.win /\ w.winsect = v.winsect /\ w.wflag = v.wflag
  BY <1>2, Zenon DEF Differ, VolFields
<1>10. WindowOK(G, w)
  BY <1>5, <1>7, <1>9, Zenon DEF Good, WindowOK
<1>11. FatSame(G, v, w)
  BY <1>5, <1>7, <1>9, Zenon DEF FatSame, Seen
<1>12. Mirror(G, v) => Mirror(G, w)
  <2>1. G.n_fats = 2 => \A t \in Fat1(G) : t + G.fsize \in Fats(G)
    BY FatsIn, Zenon
  <2> QED
    BY <1>5, <1>7, <2>1, Zenon DEF Mirror
<1>13. Differ(v, w, WinFields)
  BY <1>2, Zenon DEF Differ, WinFields
<1> QED
  BY <1>1, <1>2, <1>3, <1>8, <1>10, <1>11, <1>12, <1>13, Zenon DEF Unhurt, Good, Calm

(* The window, written, is as the disk; the second FAT gets its copy.      *)
LEMMA WindowWritten ==
  ASSUME NEW G, GeoOK(G), NEW v, Good(G, v), v.wflag,
         NEW w, Differ(v, w, {"disk", "fuel", "res", "wflag"}), ~w.wflag /\ w.wflag \in BOOLEAN,
         DOMAIN w.disk = DOMAIN v.disk, Quiet(v) => Quiet(w),
         w.disk[v.winsect] = v.win,
         \A t \in DOMAIN G.disk :
           \/ t = v.winsect \/ w.disk[t] = v.disk[t]
           \/ t = v.winsect + G.fsize /\ G.n_fats = 2 /\ v.winsect \in Fat1(G) /\ w.disk[t] = v.win,
         Quiet(v) /\ G.n_fats = 2 /\ v.winsect \in Fat1(G) => w.disk[v.winsect + G.fsize] = v.win
  PROVE  Unhurt(G, v, w, WinFields)
<1>1. HasGeo(G, w)
  <2>1. {"disk", "fuel", "res", "wflag"} \cap GeoFields = {}
    BY Zenon DEF GeoFields
  <2> QED
    BY <2>1, GeoStays, Zenon DEF Good
<1>2. w.win = v.win /\ w.winsect = v.winsect
  BY Zenon DEF Differ, VolFields
<1>3. v.winsect \in Fat1(G) \/ Beyond(G, v.winsect)
  BY Zenon DEF Good, WindowOK
<1>4. /\ Fat1(G) \subseteq Fats(G) /\ Fats(G) \subseteq DOMAIN G.disk
      /\ NoSector \notin Fats(G)
      /\ \A s : Beyond(G, s) => s \notin Fats(G) /\ s # NoSector
      /\ G.n_fats = 2 => \A s \in Fat1(G) :
           /\ s + G.fsize \in Fats(G) /\ s + G.fsize \notin Fat1(G)
           /\ \A t \in Fat1(G) : t # s => t + G.fsize # s + G.fsize
  BY FatsIn, Zenon
<1>5. v.winsect \in DOMAIN G.disk
  BY <1>3, <1>4, Zenon DEF Good, WindowOK
<1>6. Content(G, v.winsect, v.win)
  BY Zenon DEF Good, WindowOK
<1>7. DiskOK(G, w)
  <2> SUFFICES ASSUME NEW t \in DOMAIN G.disk PROVE Content(G, t, w.disk[t])
    BY Zenon DEF DiskOK
  <2>1. CASE t = v.winsect
    BY <1>6, <2>1, Zenon
  <2>2. CASE w.disk[t] = v.disk[t]
    BY <2>2, Zenon DEF Good, DiskOK
  <2>3. CASE t = v.winsect + G.fsize /\ G.n_fats = 2 /\ v.winsect \in Fat1(G) /\ w.disk[t] = v.win
    BY <1>4, <1>6, <2>3, Zenon DEF Content
  <2> QED
    BY <2>1, <2>2, <2>3, Zenon
<1>8. WindowOK(G, w)
  BY <1>2, <1>5, <1>6, Zenon DEF WindowOK
<1>9. \A t \in Fat1(G) : t # v.winsect => w.disk[t] = v.disk[t]
  BY <1>4, Zenon
<1>10. FatSame(G, v, w)
  BY <1>2, <1>9, Zenon DEF FatSame, Seen
<1>11. Quiet(v) /\ Mirror(G, v) => Mirror(G, w)
  <2> SUFFICES ASSUME Quiet(v), Mirror(G, v), G.n_fats = 2, NEW t \in Fat1(G)
               PROVE  w.disk[t] = w.disk[t + G.fsize]
    BY Zenon DEF Mirror
  <2>1. CASE t = v.winsect
    BY <2>1, Zenon
  <2>2. CASE t # v.winsect
    <3>1. w.disk[t] = v.disk[t] /\ v.disk[t] = v.disk[t + G.fsize]
      BY <1>9, <2>2, Zenon DEF Mirror
    <3>2. t + G.fsize # v.winsect
      <4>1. CASE v.winsect \in Fat1(G)
        BY <1>4, <4>1, Zenon
      <4>2. CASE Beyond(G, v.winsect)
        BY <1>4, <4>2, Zenon
      <4> QED
        BY <1>3, <4>1, <4>2
    <3>3. v.winsect \in Fat1(G) => t + G.fsize # v.winsect + G.fsize
      BY <1>4, <2>2, Zenon
    <3>4. t + G.fsize \in DOMAIN G.disk
      BY <1>4, Zenon
    <3>5. w.disk[t + G.fsize] = v.disk[t + G.fsize]
      BY <3>2, <3>3, <3>4, Zenon
    <3> QED
      BY <3>1, <3>5, Zenon
  <2> QED
    BY <2>1, <2>2
<1>12. Differ(v, w, WinFields)
  BY Zenon DEF Differ, WinFields
<1> QED
  BY <1>1, <1>7, <1>8, <1>10, <1>11, <1>12, Zenon DEF Unhurt, Good, Calm

LEMMA SyncUnhurt ==
  ASSUME NEW G, GeoOK(G), NEW v, Good(G, v)
  PROVE  LET w == sync_window(v) IN
         /\ Unhurt(G, v, w, WinFields) /\ w.res \in {"OK", "DISK_ERR"}
         /\ w.win = v.win /\ w.winsect = v.winsect
         /\ w.res = "OK" => w.wflag = FALSE
         /\ Quiet(v) => w.res = "OK"
<1>1. IsVol(v) /\ v.wflag \in BOOLEAN /\ DOMAIN v.disk = DOMAIN G.disk /\ v.n_fats = G.n_fats
      /\ InFirstFat(v, v.winsect) = (v.winsect \in Fat1(G)) /\ v.fsize = G.fsize
  <2>1. HasGeo(G, v) /\ v.wflag \in BOOLEAN
    BY Zenon DEF Good, WindowOK
  <2> QED
    BY <2>1, GeoIs DEF InFirstFat, Fat1
<1>2. CASE ~v.wflag
  <2>1. sync_window(v) = Ok(v)
    BY <1>2, Zenon DEF sync_window
  <2>2. Unhurt(G, v, Ok(v), WinFields) /\ Ok(v).res = "OK"
    BY ResUnhurt, Zenon
  <2>3. Ok(v).win = v.win /\ Ok(v).winsect = v.winsect /\ Ok(v).wflag = v.wflag
    BY <1>1, ResIs, Zenon DEF Differ, VolFields
  <2> QED
    BY <1>1, <1>2, <2>1, <2>2, <2>3
<1>3. CASE v.wflag
  <2>1. PICK u : u = disk_write(v, v.winsect, v.win)
    OBVIOUS
  <2>2. /\ Differ(v, u, {"disk", "fuel", "res"}) /\ u.res \in {"OK", "DISK_ERR"}
        /\ IF u.res = "OK" THEN v.winsect \in DOMAIN v.disk /\ u.disk[v.winsect] = v.win ELSE u.disk = v.disk
        /\ DOMAIN u.disk = DOMAIN v.disk /\ \A t \in DOMAIN v.disk : t # v.winsect => u.disk[t] = v.disk[t]
        /\ Quiet(v) => Quiet(u) /\ (u.res = "OK" <=> v.winsect \in DOMAIN v.disk)
    BY <1>1, <2>1, DiskWriteIs
  <2>3. v.winsect \in DOMAIN v.disk /\ (v.winsect \in Fat1(G) \/ Beyond(G, v.winsect))
    <3>1. v.winsect \in Fat1(G) \/ Beyond(G, v.winsect)
      BY <1>3, Zenon DEF Good, WindowOK
    <3>2. v.winsect # NoSector
      BY <3>1, FatsIn, Zenon
    <3> QED
      BY <1>1, <3>1, <3>2, Zenon DEF Good, WindowOK
  <2>4. u.win = v.win /\ u.winsect = v.winsect /\ u.wflag = v.wflag /\ IsVol(u)
    BY <2>2, Zenon DEF Differ, VolFields
  <2>5. CASE u.res # "OK"
    <3>1. sync_window(v) = u
      BY <1>3, <2>1, <2>5, Zenon DEF sync_window, IfOk
    <3>2. Differ(v, u, {"fuel", "res"})
      BY <2>2, <2>5, Zenon DEF Differ, VolFields
    <3>4. Unhurt(G, v, u, WinFields)
      BY <2>2, <3>2, FuelUnhurt, Zenon
    <3> QED
      BY <2>2, <2>3, <2>4, <2>5, <3>1, <3>4, Zenon
  <2>6. CASE u.res = "OK"
    <3>1. PICK x : x = [u EXCEPT !.wflag = FALSE]
      OBVIOUS
    <3>2. Differ(u, x, {"wflag"}) /\ x.wflag = FALSE /\ x.disk = u.disk /\ x.win = v.win
          /\ x.winsect = v.winsect /\ x.res = "OK" /\ (Quiet(u) => Quiet(x)) /\ IsVol(x)
      <4>1. Differ(u, x, {"wflag"}) /\ x.wflag = FALSE
        BY <2>4, <3>1, FlagIs, Zenon
      <4> QED
        BY <2>4, <2>6, <4>1, Zenon DEF Differ, VolFields, Quiet
    <3>3. Differ(v, x, {"disk", "fuel", "res", "wflag"})
      BY <2>2, <3>2, Zenon DEF Differ
    <3>4. u.disk[v.winsect] = v.win /\ \A t \in DOMAIN G.disk : t # v.winsect => u.disk[t] = v.disk[t]
      BY <1>1, <2>2, <2>3, <2>6
    <3>5. CASE ~(v.n_fats = 2 /\ InFirstFat(v, v.winsect))
      <4>1. sync_window(v) = x
        BY <1>3, <2>1, <2>6, <3>1, <3>5 DEF sync_window, IfOk
      <4>2. Unhurt(G, v, x, WinFields)
        BY <1>1, <1>3, <2>2, <3>2, <3>3, <3>4, <3>5, WindowWritten
      <4> QED
        BY <3>2, <4>1, <4>2, Zenon
    <3>6. CASE v.n_fats = 2 /\ InFirstFat(v, v.winsect)
      <4>1. PICK y : y = disk_write(x, v.winsect + v.fsize, v.win)
        OBVIOUS
      <4>2. /\ Differ(x, y, {"disk", "fuel", "res"})
            /\ IF y.res = "OK" THEN v.winsect + v.fsize \in DOMAIN x.disk /\ y.disk[v.winsect + v.fsize] = v.win
               ELSE y.disk = x.disk
            /\ DOMAIN y.disk = DOMAIN x.disk
            /\ \A t \in DOMAIN x.disk : t # v.winsect + v.fsize => y.disk[t] = x.disk[t]
            /\ Quiet(x) => Quiet(y) /\ (y.res = "OK" <=> v.winsect + v.fsize \in DOMAIN x.disk)
        BY <3>2, <4>1, DiskWriteIs
      <4>3. PICK z : z = Ok(y)
        OBVIOUS
      <4>4. Differ(y, z, {"res"}) /\ z.res = "OK"
        BY <4>2, <4>3, ResIs, Zenon DEF Differ
      <4>5. sync_window(v) = z
        BY <1>3, <2>1, <2>6, <3>1, <3>6, <4>1, <4>3 DEF sync_window, IfOk
      <4>6. v.winsect \in Fat1(G) /\ v.winsect + v.fsize \in DOMAIN G.disk
            /\ v.winsect + v.fsize # v.winsect
        BY <1>1, <3>6, FatsIn, Zenon
      <4>7. /\ z.disk = y.disk /\ z.wflag = FALSE /\ z.win = v.win /\ z.winsect = v.winsect
            /\ Quiet(y) => Quiet(z)
        BY <3>2, <4>2, <4>4, Zenon DEF Differ, VolFields, Quiet
      <4>8. Differ(v, z, {"disk", "fuel", "res", "wflag"})
        BY <3>3, <4>2, <4>4, Zenon DEF Differ
      <4>9. /\ z.disk[v.winsect] = v.win
            /\ \A t \in DOMAIN G.disk :
                 \/ t = v.winsect \/ z.disk[t] = v.disk[t]
                 \/ t = v.winsect + G.fsize /\ z.disk[t] = v.win
            /\ Quiet(v) => z.disk[v.winsect + G.fsize] = v.win
        BY <1>1, <2>2, <2>3, <2>6, <3>2, <3>4, <4>2, <4>6, <4>7
      <4>10. Unhurt(G, v, z, WinFields)
        BY <1>1, <1>3, <2>2, <3>2, <3>6, <4>2, <4>6, <4>7, <4>8, <4>9, WindowWritten
      <4> QED
        BY <4>4, <4>5, <4>7, <4>10, Zenon
    <3> QED
      BY <3>5, <3>6
  <2> QED
    BY <2>2, <2>5, <2>6
<1> QED
  BY <1>1, <1>2, <1>3

LEMMA FieldsApart ==
  /\ WinFields \cap GeoFields = {} /\ ReadFields \cap GeoFields = {}
  /\ ChainFields \cap GeoFields = {} /\ DirFields \cap GeoFields = {}
BY Zenon DEF WinFields, ReadFields, ChainFields, DirFields, GeoFields

(* A window that was not changed may be turned to another sector.          *)
LEMMA TurnUnhurt ==
  ASSUME NEW G, GeoOK(G), NEW v, Good(G, v), v.wflag = FALSE,
         NEW w, NEW F, Differ(v, w, F), F \cap GeoFields = {},
         w.disk = v.disk, Quiet(v) => Quiet(w), w.wflag = FALSE,
         w.winsect \in DOMAIN G.disk \cup {NoSector}, Content(G, w.winsect, w.win),
         w.winsect \in Fat1(G) => w.win = w.disk[w.winsect]
  PROVE  Unhurt(G, v, w, F)
<1>1. HasGeo(G, w)
  BY GeoStays, Zenon DEF Good
<1>2. DiskOK(G, w) /\ WindowOK(G, w)
  BY Zenon DEF Good, DiskOK, WindowOK
<1>3. v.winsect \in Fat1(G) => v.win = v.disk[v.winsect]
  BY Zenon DEF Good, WindowOK
<1>4. FatSame(G, v, w) /\ Calm(G, v, w)
  BY <1>3, Zenon DEF FatSame, Calm, Seen, Mirror
<1> QED
  BY <1>1, <1>2, <1>4, Zenon DEF Unhurt, Good

LEMMA MoveUnhurt ==
  ASSUME NEW G, GeoOK(G), NEW v, Good(G, v), NEW s
  PROVE  LET w == move_window(v, s) IN
         /\ Unhurt(G, v, w, WinFields) /\ w.res \in {"OK", "DISK_ERR"}
         /\ w.res = "OK" => w.winsect = s
         /\ Quiet(v) /\ s \in DOMAIN G.disk => w.res = "OK"
<1>1. CASE s = v.winsect
  <2>1. move_window(v, s) = Ok(v)
    BY <1>1, Zenon DEF move_window
  <2>2. Unhurt(G, v, Ok(v), WinFields) /\ Ok(v).res = "OK"
    BY ResUnhurt, Zenon
  <2>3. Ok(v).winsect = v.winsect
    BY ResIs, GoodIsVol, Zenon DEF Differ, VolFields
  <2> QED
    BY <1>1, <2>1, <2>2, <2>3
<1>2. CASE s # v.winsect
  <2>1. PICK u : u = sync_window(v)
    OBVIOUS
  <2>2. /\ Unhurt(G, v, u, WinFields) /\ u.res \in {"OK", "DISK_ERR"}
        /\ u.res = "OK" => u.wflag = FALSE
        /\ Quiet(v) => u.res = "OK"
    BY <2>1, SyncUnhurt
  <2>3. CASE u.res # "OK"
    <3>1. move_window(v, s) = u
      BY <1>2, <2>1, <2>3, Zenon DEF move_window, IfOk
    <3> QED
      BY <2>2, <2>3, <3>1, Zenon
  <2>4. CASE u.res = "OK"
    <3>1. PICK r : r = disk_read(u, s)
      OBVIOUS
    <3>2. Good(G, u) /\ u.wflag = FALSE
      BY <2>2, <2>4, Zenon DEF Unhurt
    <3>3. IsVol(u) /\ DOMAIN u.disk = DOMAIN G.disk
      BY <3>2, Zenon DEF Good, HasGeo
    <3>4. /\ Differ(u, r, {"fuel", "res"}) /\ r.res \in {"OK", "DISK_ERR"}
          /\ r.res = "OK" => s \in DOMAIN u.disk
          /\ Quiet(u) => Quiet(r) /\ (r.res = "OK" <=> s \in DOMAIN u.disk)
      BY <3>1, <3>3, DiskReadIs
    <3>5. r.disk = u.disk /\ r.wflag = FALSE /\ r.win = u.win /\ IsVol(r)
      BY <3>2, <3>4, Zenon DEF Differ, VolFields
    <3>6. CASE r.res = "OK"
      <4>1. PICK w : w = [r EXCEPT !.winsect = s, !.win = r.disk[s]]
        OBVIOUS
      <4>2. move_window(v, s) = w
        BY <1>2, <2>1, <2>4, <3>1, <3>6, <4>1 DEF move_window, IfOk, After
      <4>3. Differ(r, w, {"win", "winsect"}) /\ w.winsect = s /\ w.win = r.disk[s]
        BY <3>5, <4>1, Zenon DEF IsVol, Differ, VolFields
      <4>4. /\ Differ(u, w, WinFields) /\ w.disk = u.disk /\ (Quiet(r) => Quiet(w)) /\ w.wflag = FALSE
            /\ w.res = "OK"
        BY <3>4, <3>5, <3>6, <4>3, Zenon DEF Differ, VolFields, Quiet, WinFields
      <4>5. s \in DOMAIN G.disk /\ Content(G, w.winsect, w.win)
        BY <3>2, <3>3, <3>4, <3>5, <3>6, <4>3, Zenon DEF Good, DiskOK
      <4>6. Unhurt(G, u, w, WinFields)
        BY <3>2, <3>4, <3>5, <4>3, <4>4, <4>5, FieldsApart, TurnUnhurt, Zenon
      <4>7. Unhurt(G, v, w, WinFields)
        BY <2>2, <4>6, UnhurtTwice, Zenon
      <4> QED
        BY <4>2, <4>3, <4>4, <4>7, Zenon
    <3>7. CASE r.res # "OK"
      <4>1. PICK w : w = [r EXCEPT !.winsect = NoSector]
        OBVIOUS
      <4>2. move_window(v, s) = w
        BY <1>2, <2>1, <2>4, <3>1, <3>7, <4>1 DEF move_window, IfOk, After
      <4>3. Differ(r, w, {"winsect"}) /\ w.winsect = NoSector
        BY <3>5, <4>1, Zenon DEF IsVol, Differ, VolFields
      <4>4. /\ Differ(u, w, WinFields) /\ w.disk = u.disk /\ (Quiet(r) => Quiet(w)) /\ w.wflag = FALSE
            /\ w.res = r.res /\ w.win = u.win
        BY <3>4, <3>5, <4>3, Zenon DEF Differ, VolFields, Quiet, WinFields
      <4>5. Content(G, w.winsect, w.win) /\ w.winsect \notin Fat1(G)
        <5>1. NoSector \notin Fats(G) /\ Fat1(G) \subseteq Fats(G)
          BY FatsIn, Zenon
        <5> QED
          BY <3>2, <4>3, <4>4, <5>1, Zenon DEF Good, WindowOK, Content
      <4>6. Unhurt(G, u, w, WinFields)
        BY <3>2, <3>4, <4>3, <4>4, <4>5, FieldsApart, TurnUnhurt, Zenon
      <4>7. Unhurt(G, v, w, WinFields)
        BY <2>2, <4>6, UnhurtTwice, Zenon
      <4>8. Quiet(v) => Quiet(u)
        BY <2>2, Zenon DEF Unhurt, Calm
      <4> QED
        BY <3>3, <3>4, <3>7, <4>2, <4>4, <4>7, <4>8, Zenon
    <3> QED
      BY <3>6, <3>7
  <2> QED
    BY <2>3, <2>4
<1> QED
  BY <1>1, <1>2

LEMMA SyncFsUnhurt ==
  ASSUME NEW G, GeoOK(G), NEW v, Good(G, v) PROVE Unhurt(G, v, sync_fs(v), ReadFields)
<1>1. PICK u : u = sync_window(v)
  OBVIOUS
<1>2. Unhurt(G, v, u, WinFields) /\ (u.res = "OK" => u.wflag = FALSE)
  BY <1>1, SyncUnhurt
<1>3. Unhurt(G, v, u, ReadFields) /\ Good(G, u) /\ IsVol(u)
  BY <1>2, UnhurtUp, GoodIsVol, Zenon DEF Unhurt
<1>4. CASE u.res # "OK" \/ u.fsi_flag # 1
  <2>1. sync_fs(v) = u
    <3>1. CASE u.res # "OK"
      BY <1>1, <3>1, Zenon DEF sync_fs, IfOk
    <3>2. CASE u.res = "OK" /\ u.fsi_flag # 1
      BY <1>1, <3>2 DEF sync_fs, IfOk
    <3> QED
      BY <1>4, <3>1, <3>2
  <2> QED
    BY <1>3, <2>1, Zenon
<1>5. CASE u.res = "OK" /\ u.fsi_flag = 1 /\ v.fs_type # "FAT32"
  <2>1. PICK w : w = [u EXCEPT !.fsi_flag = 0]
    OBVIOUS
  <2>2. sync_fs(v) = w
    BY <1>1, <1>5, <2>1 DEF sync_fs, IfOk
  <2> DEFINE F == {"fsi_flag"}
  <2>3. Differ(u, w, F)
    BY <1>3, <2>1, Zenon DEF IsVol, Differ, VolFields
  <2>4. F \cap GeoFields = {} /\ F \cap {"disk", "fuel", "wflag", "win", "winsect"} = {} /\ F \subseteq ReadFields
    BY Zenon DEF GeoFields, ReadFields
  <2> HIDE DEF F
  <2>5. Unhurt(G, u, w, ReadFields)
    BY <1>3, <2>3, <2>4, RegisterUnhurt, UnhurtMore, Zenon
  <2> QED
    BY <1>3, <2>2, <2>5, UnhurtTwice, Zenon
<1>6. CASE u.res = "OK" /\ u.fsi_flag = 1 /\ v.fs_type = "FAT32"
  <2> DEFINE info == InfoSector(u.free_clst, u.last_clst)
             sect == v.volbase + 1
  <2>1. PICK x : x = [u EXCEPT !.fsi_flag = 0, !.winsect = sect, !.win = info]
    OBVIOUS
  <2>2. PICK y : y = disk_write(x, sect, info)
    OBVIOUS
  <2>3. sync_fs(v) = Ok(y)
    BY <1>1, <1>6, <2>1, <2>2 DEF sync_fs, IfOk
  <2>4. HasGeo(G, v)
    BY GoodIsVol, Zenon
  <2>5. sect = 1 /\ G.fs_type = "FAT32"
    BY <1>6, <2>4, GeoIs DEF GeoOK
  <2>6. sect \notin Fats(G) /\ sect \in DOMAIN G.disk /\ sect \notin Fat1(G)
    BY <2>5, FatsIn, Zenon
  <2>7. IsTable(info)
    BY DEF IsTable, InfoSector
  <2> HIDE DEF info, sect
  <2>8. Differ(u, x, {"fsi_flag", "winsect", "win"}) /\ x.winsect = sect /\ x.win = info
    BY <1>3, <2>1, Zenon DEF IsVol, Differ, VolFields
  <2>9. /\ Differ(u, x, ReadFields) /\ x.disk = u.disk /\ (Quiet(u) => Quiet(x)) /\ x.wflag = FALSE
        /\ u.wflag = FALSE
    BY <1>2, <1>6, <2>8, Zenon DEF Differ, VolFields, Quiet, ReadFields, WinFields
  <2>10. Content(G, x.winsect, x.win)
    BY <2>6, <2>7, <2>8, Zenon DEF Content
  <2>11. Unhurt(G, u, x, ReadFields)
    BY <1>3, <2>6, <2>8, <2>9, <2>10, FieldsApart, TurnUnhurt, Zenon
  <2>12. Unhurt(G, x, y, WinFields)
    BY <2>2, <2>6, <2>7, <2>11, WriteUnhurt, Zenon DEF Unhurt
  <2>13. Unhurt(G, y, Ok(y), WinFields)
    BY <2>12, ResUnhurt, Zenon DEF Unhurt
  <2> QED
    BY <1>3, <2>3, <2>11, <2>12, <2>13, UnhurtTwice, UnhurtUp, Zenon
<1> QED
  BY <1>4, <1>5, <1>6

-----------------------------------------------------------------------------
(* The cells of the FAT. *)

(* Cell k, a byte or an entry, as the calls see it.                        *)
CellSector(G, k) == G.fatbase + k \div Width(G)
Cell(G, v, k)    == Seen(v, CellSector(G, k)).body[k % Width(G)]

LEMMA DivMod ==
  ASSUME NEW m \in Nat \ {0}, NEW k \in Nat
  PROVE  /\ k \div m \in Nat /\ k % m \in 0 .. m - 1 /\ k = m * (k \div m) + (k % m)
BY SMT

LEMMA DivOrder ==
  ASSUME NEW m \in Nat \ {0}, NEW k \in Nat, NEW j \in Nat, k <= j
  PROVE  k \div m <= j \div m
<1> DEFINE a == k \div m
           b == j \div m
<1>1. a \in Nat /\ b \in Nat /\ m * a <= k /\ j < m * b + m
  BY DivMod
<1> HIDE DEF a, b
<1>2. m * a < m * (b + 1)
  BY <1>1
<1>3. a < b + 1
  BY <1>1, <1>2, SMT
<1> QED
  BY <1>1, <1>3 DEF a, b

LEMMA WidthIs ==
  ASSUME NEW G, GeoOK(G)
  PROVE  /\ Width(G) \in Nat \ {0} /\ LastCell(G) \in Nat
         /\ G.fs_type = "FAT12" => Width(G) = SS
         /\ G.fs_type # "FAT12" => Width(G) = PerSector(G)
<1>1. SS \div 2 \in Nat \ {0} /\ SS \div 4 \in Nat \ {0} /\ SS \in Nat \ {0}
  BY SectorAssumption
<1>2. PerSector(G) \in Nat \ {0}
  BY <1>1, Zenon DEF PerSector
<1>3. Width(G) \in Nat \ {0}
  BY <1>1, <1>2, Zenon DEF Width
<1>4. G.n_fatent \in Nat /\ G.n_fatent >= 3
  BY DEF GeoOK
<1>5. FirstByte(G.n_fatent - 1) + 1 \in Nat /\ G.n_fatent - 1 \in Nat
  BY <1>4 DEF FirstByte
<1>6. LastCell(G) \in Nat
  BY <1>5, Zenon DEF LastCell
<1> QED
  BY <1>3, <1>6, Zenon DEF Width

LEMMA CellIn ==
  ASSUME NEW G, GeoOK(G), NEW k \in 0 .. LastCell(G)
  PROVE  CellSector(G, k) \in Fat1(G) /\ k % Width(G) \in 0 .. Width(G) - 1
<1>1. Width(G) \in Nat \ {0} /\ LastCell(G) \in Nat
  BY WidthIs
<1>2. k \div Width(G) <= LastCell(G) \div Width(G)
  BY <1>1, DivOrder
<1>3. k \div Width(G) \in Nat /\ LastCell(G) \div Width(G) \in Nat /\ k % Width(G) \in 0 .. Width(G) - 1
  BY <1>1, DivMod
<1>4. G.fatbase \in Nat /\ G.fsize \in Nat /\ LastCell(G) \div Width(G) < G.fsize
  BY DEF GeoOK
<1> QED
  BY <1>2, <1>3, <1>4 DEF CellSector, Fat1

LEMMA CellsApart ==
  ASSUME NEW G, GeoOK(G), NEW k \in Nat, NEW j \in Nat,
         CellSector(G, k) = CellSector(G, j), k % Width(G) = j % Width(G)
  PROVE  k = j
<1>1. Width(G) \in Nat \ {0} /\ G.fatbase \in Nat
  BY WidthIs DEF GeoOK
<1>2. k \div Width(G) \in Nat /\ j \div Width(G) \in Nat
  BY <1>1, DivMod
<1>3. k \div Width(G) = j \div Width(G)
  BY <1>1, <1>2 DEF CellSector
<1>4. /\ k = Width(G) * (k \div Width(G)) + (k % Width(G))
      /\ j = Width(G) * (j \div Width(G)) + (j % Width(G))
  BY <1>1, DivMod
<1> QED
  BY <1>3, <1>4, Zenon

LEMMA FatSectorGood ==
  ASSUME NEW G, GeoOK(G), NEW v, Good(G, v), NEW s \in Fat1(G)
  PROVE  Content(G, s, Seen(v, s)) /\ IsFat(G, Seen(v, s))
<1>1. Fat1(G) \subseteq Fats(G) /\ Fats(G) \subseteq DOMAIN G.disk
  BY FatsIn, Zenon
<1>2. Content(G, s, Seen(v, s))
  BY <1>1, Zenon DEF Good, DiskOK, WindowOK, Seen
<1> QED
  BY <1>1, <1>2, Zenon DEF Content

LEMMA CellTyped ==
  ASSUME NEW G, GeoOK(G), NEW v, Good(G, v), NEW k \in 0 .. LastCell(G)
  PROVE  Cell(G, v, k) \in CellType(G)
<1>1. CellSector(G, k) \in Fat1(G) /\ k % Width(G) \in 0 .. Width(G) - 1
  BY CellIn
<1>2. Seen(v, CellSector(G, k)).body \in [0 .. Width(G) - 1 -> CellType(G)]
  BY <1>1, FatSectorGood, Zenon DEF IsFat, Row
<1> QED
  BY <1>1, <1>2, Zenon DEF Cell

LEMMA CellSame ==
  ASSUME NEW G, GeoOK(G), NEW v, NEW w, FatSame(G, v, w), NEW k \in 0 .. LastCell(G)
  PROVE  Cell(G, w, k) = Cell(G, v, k)
<1>1. CellSector(G, k) \in Fat1(G)
  BY CellIn
<1> QED
  BY <1>1, Zenon DEF Cell, FatSame

(* The cells that are not a cluster's are not free.                        *)
LEMMA CellReserved ==
  ASSUME NEW G, GeoOK(G), NEW v, Good(G, v), G.fs_type # "FAT12", NEW k \in {0, 1}
  PROVE  Cell(G, v, k) # 0
<1>1. k \in 0 .. LastCell(G)
  BY DEF GeoOK, LastCell
<1>2. CellSector(G, k) \in Fat1(G)
  BY <1>1, CellIn
<1>3. Reserved(G, CellSector(G, k), Seen(v, CellSector(G, k)))
  BY <1>2, FatSectorGood, Zenon DEF Content
<1> QED
  BY <1>3, Zenon DEF Reserved, Cell, CellSector

(* The cells of an entry: its own, or two bytes.                           *)
SecondByte(c) == FirstByte(c) + 1

LEMMA EntryCells ==
  ASSUME NEW G, GeoOK(G), NEW c \in Clusters(G)
  PROVE  /\ c \in Nat /\ c >= 2
         /\ G.fs_type # "FAT12" => c \in 0 .. LastCell(G)
         /\ G.fs_type = "FAT12" => FirstByte(c) \in 0 .. LastCell(G) /\ SecondByte(c) \in 0 .. LastCell(G)
<1>1. G.n_fatent \in Nat /\ c \in 2 .. G.n_fatent - 1
  BY DEF GeoOK, Clusters
<1>2. c \in 0 .. G.n_fatent - 1
  BY <1>1
<1>3. /\ FirstByte(c) \in 0 .. FirstByte(G.n_fatent - 1) + 1
      /\ SecondByte(c) \in 0 .. FirstByte(G.n_fatent - 1) + 1
  BY <1>1 DEF FirstByte, SecondByte
<1>4. c \in Nat /\ c >= 2
  BY <1>1
<1> QED
  BY <1>2, <1>3, <1>4, Zenon DEF LastCell

LEMMA EntryIs ==
  ASSUME NEW G, NEW v, HasGeo(G, v), NEW c
  PROVE  FatEntry(v, c) = IF G.fs_type = "FAT12"
                            THEN Entry12(c, Cell(G, v, FirstByte(c)), Cell(G, v, SecondByte(c)))
                            ELSE Cell(G, v, c)
<1>1. v.fs_type = G.fs_type /\ v.fatbase = G.fatbase
  BY GeoIs, Zenon
<1>2. PerSector(v) = PerSector(G)
  BY <1>1, Zenon DEF PerSector
<1>3. CASE G.fs_type = "FAT12"
  BY <1>1, <1>3, Zenon DEF FatEntry, Cell, CellSector, Width, SecondByte
<1>4. CASE G.fs_type # "FAT12"
  BY <1>1, <1>2, <1>4, Zenon DEF FatEntry, Cell, CellSector, Width
<1> QED
  BY <1>3, <1>4

LEMMA EntryTyped ==
  ASSUME NEW G, GeoOK(G), NEW v, Good(G, v), NEW c \in Clusters(G)
  PROVE  FatEntry(v, c) \in Nat
<1>1. HasGeo(G, v)
  BY Zenon DEF Good
<1>2. CASE G.fs_type = "FAT12"
  <2>1. Cell(G, v, FirstByte(c)) \in Byte /\ Cell(G, v, SecondByte(c)) \in Byte
    BY <1>2, EntryCells, CellTyped, Zenon DEF CellType
  <2>2. c \in Nat
    BY EntryCells
  <2>3. PICK lo \in Nat, hi \in Nat : lo = Cell(G, v, FirstByte(c)) /\ hi = Cell(G, v, SecondByte(c))
    <3>1. Byte \subseteq Nat
      BY DEF Byte
    <3> QED
      BY <2>1, <3>1, Zenon
  <2>4. FatEntry(v, c) = Entry12(c, lo, hi)
    BY <1>1, <1>2, <2>3, EntryIs
  <2>5. Entry12(c, lo, hi) \in Nat
    BY <2>2 DEF Entry12
  <2> QED
    BY <2>4, <2>5, Zenon
<1>3. CASE G.fs_type # "FAT12"
  <2>1. Cell(G, v, c) \in Nat
    BY <1>3, EntryCells, CellTyped, Zenon DEF CellType
  <2> QED
    BY <1>1, <1>3, <2>1, EntryIs, Zenon
<1> QED
  BY <1>2, <1>3

LEMMA EntrySame ==
  ASSUME NEW G, GeoOK(G), NEW v, NEW w, HasGeo(G, v), HasGeo(G, w), FatSame(G, v, w),
         NEW c \in Clusters(G)
  PROVE  FatEntry(w, c) = FatEntry(v, c)
<1>1. CASE G.fs_type = "FAT12"
  <2>1. /\ Cell(G, w, FirstByte(c)) = Cell(G, v, FirstByte(c))
        /\ Cell(G, w, SecondByte(c)) = Cell(G, v, SecondByte(c))
    BY <1>1, EntryCells, CellSame, Zenon
  <2> QED
    BY <1>1, <2>1, EntryIs
<1>2. CASE G.fs_type # "FAT12"
  BY <1>2, EntryCells, CellSame, EntryIs
<1> QED
  BY <1>1, <1>2

(* How the code finds a cell.                                              *)
LEMMA CodeCell ==
  ASSUME NEW G, NEW v, HasGeo(G, v), NEW k
  PROVE  /\ G.fs_type = "FAT12" => v.fatbase + k \div SS = CellSector(G, k) /\ k % SS = k % Width(G)
         /\ G.fs_type # "FAT12" => /\ v.fatbase + k \div PerSector(v) = CellSector(G, k)
                                   /\ k % PerSector(v) = k % Width(G)
         /\ v.fs_type = G.fs_type /\ (IsCluster(v, k) <=> k \in Clusters(G))
<1>1. v.fs_type = G.fs_type /\ v.fatbase = G.fatbase /\ v.n_fatent = G.n_fatent
  BY GeoIs, Zenon
<1> QED
  BY <1>1, Zenon DEF CellSector, Width, PerSector, IsCluster, Clusters

(* A cell is brought into the window.                                      *)
LEMMA LoadCell ==
  ASSUME NEW G, GeoOK(G), NEW v, Good(G, v), NEW k \in 0 .. LastCell(G)
  PROVE  LET w == move_window(v, CellSector(G, k)) IN
         /\ Unhurt(G, v, w, WinFields) /\ w.res \in {"OK", "DISK_ERR"}
         /\ w.res = "OK" => w.winsect = CellSector(G, k) /\ w.win.body[k % Width(G)] = Cell(G, v, k)
         /\ Quiet(v) => w.res = "OK"
<1>1. PICK w : w = move_window(v, CellSector(G, k))
  OBVIOUS
<1>2. CellSector(G, k) \in DOMAIN G.disk
  BY CellIn, FatsIn
<1>3. /\ Unhurt(G, v, w, WinFields) /\ w.res \in {"OK", "DISK_ERR"}
      /\ w.res = "OK" => w.winsect = CellSector(G, k)
      /\ Quiet(v) => w.res = "OK"
  BY <1>1, <1>2, MoveUnhurt
<1>4. Cell(G, w, k) = Cell(G, v, k)
  BY <1>3, CellSame, Zenon DEF Unhurt
<1>5. w.winsect = CellSector(G, k) => w.win.body[k % Width(G)] = Cell(G, w, k)
  BY Zenon DEF Cell, Seen
<1> QED
  BY <1>1, <1>3, <1>4, <1>5, Zenon

LEMMA StatusApart ==
  /\ NoFault = -1 /\ NoSector = -1 /\ DISK = -1 /\ UNKNOWN = -1 /\ SEARCHING = -2
  /\ DISK \notin Nat /\ DISK # 0 /\ DISK # 1 /\ SEARCHING \notin {0, 1, DISK} /\ SEARCHING \notin Nat
BY SMT DEF NoFault, NoSector, DISK, UNKNOWN, SEARCHING

LEMMA GetIs ==
  ASSUME NEW G, GeoOK(G), NEW v, Good(G, v), NEW c
  PROVE  LET w == get_fat(v, c) IN
         /\ Unhurt(G, v, w, ReadFields) /\ w.val \in Nat \cup {DISK}
         /\ c \notin Clusters(G) => w.val = 1
         /\ c \in Clusters(G) => w.val = FatEntry(v, c) \/ w.val = DISK
         /\ Quiet(v) => w.val # DISK
<1>1. HasGeo(G, v)
  BY Zenon DEF Good
<1>2. CASE c \notin Clusters(G)
  <2>1. get_fat(v, c) = Returns(v, 1)
    BY <1>1, <1>2, CodeCell, Zenon DEF get_fat
  <2>2. Unhurt(G, v, Returns(v, 1), ReadFields) /\ Returns(v, 1).val = 1
    BY ValUnhurt, Zenon
  <2>3. 1 # DISK /\ 1 \in Nat
    BY StatusApart
  <2> QED
    BY <1>2, <2>1, <2>2, <2>3
<1>3. CASE c \in Clusters(G) /\ G.fs_type # "FAT12"
  <2>1. c \in 0 .. LastCell(G) /\ FatEntry(v, c) = Cell(G, v, c) /\ FatEntry(v, c) \in Nat
    BY <1>1, <1>3, EntryCells, EntryIs, EntryTyped
  <2>2. PICK w : w = move_window(v, CellSector(G, c))
    OBVIOUS
  <2>3. /\ Unhurt(G, v, w, WinFields) /\ w.res \in {"OK", "DISK_ERR"}
        /\ w.res = "OK" => w.win.body[c % Width(G)] = Cell(G, v, c)
        /\ Quiet(v) => w.res = "OK"
    BY <2>1, <2>2, LoadCell
  <2> DEFINE x == IF w.res = "OK" THEN w.win.body[c % Width(G)] ELSE DISK
  <2>4. get_fat(v, c) = Returns(w, x)
    BY <1>1, <1>3, <2>2, CodeCell DEF get_fat, After
  <2>5. (x = FatEntry(v, c) \/ x = DISK) /\ (Quiet(v) => x = FatEntry(v, c))
    BY <2>1, <2>3
  <2> HIDE DEF x
  <2>6. PICK u : u = Returns(w, x)
    OBVIOUS
  <2>7. Unhurt(G, w, u, ReadFields) /\ u.val = x
    BY <2>3, <2>6, ValUnhurt, Zenon DEF Unhurt
  <2>8. Unhurt(G, v, u, ReadFields)
    BY <2>3, <2>7, UnhurtUp, UnhurtTwice, Zenon
  <2>9. FatEntry(v, c) # DISK
    BY <2>1, StatusApart, Zenon
  <2> QED
    BY <1>3, <2>1, <2>4, <2>5, <2>6, <2>7, <2>8, <2>9, Zenon
<1>4. CASE c \in Clusters(G) /\ G.fs_type = "FAT12"
  <2> DEFINE j == FirstByte(c)
             k == SecondByte(c)
  <2>1. /\ j \in 0 .. LastCell(G) /\ k \in 0 .. LastCell(G)
        /\ FatEntry(v, c) = Entry12(c, Cell(G, v, j), Cell(G, v, k)) /\ FatEntry(v, c) \in Nat
    <3>1. FatEntry(v, c) = Entry12(c, Cell(G, v, j), Cell(G, v, k))
      BY <1>1, <1>4, EntryIs, Zenon
    <3> QED
      BY <1>4, <3>1, EntryCells, EntryTyped, Zenon
  <2>2. PICK w : w = move_window(v, CellSector(G, j))
    OBVIOUS
  <2>3. /\ Unhurt(G, v, w, WinFields) /\ w.res \in {"OK", "DISK_ERR"}
        /\ w.res = "OK" => w.win.body[j % Width(G)] = Cell(G, v, j)
        /\ Quiet(v) => w.res = "OK"
    <3> HIDE DEF j
    <3> QED
      BY <2>1, <2>2, LoadCell
  <2>4. CASE w.res # "OK"
    <3>1. PICK u : u = Returns(w, DISK)
      OBVIOUS
    <3>2. get_fat(v, c) = u
      <4>1. move_window(v, v.fatbase + FirstByte(c) \div SS) = w
        BY <1>1, <1>4, <2>2, CodeCell, Zenon
      <4> QED
        BY <1>1, <1>4, <2>4, <3>1, <4>1, CodeCell, Zenon DEF get_fat, After
    <3>3. Unhurt(G, w, u, ReadFields) /\ u.val = DISK
      BY <2>3, <3>1, ValUnhurt, Zenon DEF Unhurt
    <3>4. Unhurt(G, v, u, ReadFields)
      BY <2>3, <3>3, UnhurtUp, UnhurtTwice, Zenon
    <3> QED
      BY <1>4, <2>3, <2>4, <3>2, <3>3, <3>4, Zenon
  <2>5. CASE w.res = "OK"
    <3>1. PICK x : x = move_window(w, CellSector(G, k))
      OBVIOUS
    <3>2. /\ Unhurt(G, w, x, WinFields) /\ x.res \in {"OK", "DISK_ERR"}
          /\ x.res = "OK" => x.win.body[k % Width(G)] = Cell(G, w, k)
          /\ Quiet(w) => x.res = "OK"
      <4>1. Good(G, w)
        BY <2>3, Zenon DEF Unhurt
      <4> HIDE DEF k
      <4> QED
        BY <2>1, <3>1, <4>1, LoadCell
    <3>3. Cell(G, w, k) = Cell(G, v, k)
      BY <2>1, <2>3, CellSame, Zenon DEF Unhurt
    <3> DEFINE y == IF x.res = "OK" THEN Entry12(c, w.win.body[j % Width(G)], x.win.body[k % Width(G)]) ELSE DISK
    <3>4. PICK u : u = Returns(x, y)
      OBVIOUS
    <3>5. get_fat(v, c) = u
      <4>1. /\ move_window(v, v.fatbase + FirstByte(c) \div SS) = w
            /\ FirstByte(c) % SS = j % Width(G)
        BY <1>1, <1>4, <2>2, CodeCell, Zenon
      <4>2. /\ move_window(w, v.fatbase + (FirstByte(c) + 1) \div SS) = x
            /\ (FirstByte(c) + 1) % SS = k % Width(G)
        BY <1>1, <1>4, <3>1, CodeCell, ZenonT(40) DEF SecondByte
      <4> QED
        BY <1>1, <1>4, <2>5, <3>4, <4>1, <4>2, CodeCell, Zenon DEF get_fat, After
    <3>6. (y = FatEntry(v, c) \/ y = DISK) /\ (Quiet(w) => y = FatEntry(v, c))
      <4> HIDE DEF j, k
      <4> QED
        BY <2>1, <2>3, <2>5, <3>2, <3>3
    <3> HIDE DEF y
    <3>7. Unhurt(G, x, u, ReadFields) /\ u.val = y
      BY <3>2, <3>4, ValUnhurt, Zenon DEF Unhurt
    <3>8. Unhurt(G, v, u, ReadFields)
      BY <2>3, <3>2, <3>7, UnhurtUp, UnhurtTwice, Zenon
    <3>9. FatEntry(v, c) # DISK /\ (Quiet(v) => Quiet(w))
      BY <2>1, <2>3, StatusApart, Zenon DEF Unhurt, Calm
    <3> QED
      BY <1>4, <2>1, <3>5, <3>6, <3>7, <3>8, <3>9, Zenon
  <2> QED
    BY <2>4, <2>5
<1> QED
  BY <1>2, <1>3, <1>4

(* One cell of the sector in the window is written.                        *)
LEMMA StoreCell ==
  ASSUME NEW G, GeoOK(G), NEW v, Good(G, v), NEW k \in 0 .. LastCell(G),
         v.winsect = CellSector(G, k), NEW x \in CellType(G),
         G.fs_type # "FAT12" => k >= 2
  PROVE  LET w == Stored(v, k % Width(G), x) IN
         /\ Differ(v, w, WinFields) /\ Good(G, w) /\ Calm(G, v, w) /\ w.res = v.res
         /\ w.winsect = v.winsect
         /\ Cell(G, w, k) = x /\ \A j \in 0 .. LastCell(G) : j # k => Cell(G, w, j) = Cell(G, v, j)
<1> DEFINE i == k % Width(G)
<1>1. CellSector(G, k) \in Fat1(G) /\ i \in 0 .. Width(G) - 1
  BY CellIn
<1> HIDE DEF i
<1>2. Seen(v, v.winsect) = v.win
  BY Zenon DEF Seen
<1>3. Content(G, v.winsect, v.win) /\ IsFat(G, v.win)
  BY <1>1, <1>2, FatSectorGood, Zenon
<1> DEFINE b == [v.win.body EXCEPT ![i] = x]
<1>4. v.win.body \in [0 .. Width(G) - 1 -> CellType(G)] /\ v.win = FatSector(v.win.body)
  BY <1>3, Zenon DEF IsFat, Row
<1>5. /\ b \in [0 .. Width(G) - 1 -> CellType(G)] /\ b[i] = x
      /\ \A n : n # i /\ n \in 0 .. Width(G) - 1 => b[n] = v.win.body[n]
  <2>1. PICK f, D, T : f = v.win.body /\ D = 0 .. Width(G) - 1 /\ T = CellType(G)
    OBVIOUS
  <2>2. f \in [D -> T] /\ i \in D /\ x \in T
    BY <1>1, <1>4, <2>1, Zenon
  <2>3. [f EXCEPT ![i] = x] \in [D -> T] /\ [f EXCEPT ![i] = x][i] = x
        /\ \A n \in D : n # i => [f EXCEPT ![i] = x][n] = f[n]
    BY <2>2
  <2> QED
    BY <2>1, <2>3, Zenon
<1> HIDE DEF b
<1>6. PICK w : w = [v EXCEPT !.win.body[i] = x, !.wflag = TRUE]
  OBVIOUS
<1>7. w = Stored(v, i, x)
  BY <1>6, Zenon DEF Stored
<1>8. IsVol(v)
  BY GoodIsVol, Zenon
<1>9. Differ(v, w, {"win", "wflag"}) /\ w.wflag = TRUE /\ w.win = [v.win EXCEPT !.body = b]
  BY <1>6, <1>8, Zenon DEF IsVol, Differ, VolFields, b
<1>10. w.win = FatSector(b)
  <2>1. PICK y, z : y = v.win /\ z = v.win.body
    OBVIOUS
  <2>2. y = FatSector(z)
    BY <1>4, <2>1, Zenon
  <2>3. [y EXCEPT !.body = b] = FatSector(b)
    BY <2>2 DEF FatSector
  <2> QED
    BY <1>9, <2>1, <2>3, Zenon
<1>11. w.disk = v.disk /\ w.winsect = v.winsect /\ w.fuel = v.fuel /\ w.res = v.res
  BY <1>9, Zenon DEF Differ, VolFields
<1>12. w.win.body = b /\ w.win.kind = "fat"
  BY <1>10 DEF FatSector
<1>13. \A j \in 0 .. LastCell(G) : j # k =>
         ~(CellSector(G, j) = v.winsect /\ j % Width(G) = i)
  <2>1. LastCell(G) \in Nat
    BY WidthIs, Zenon
  <2>2. k \in Nat /\ \A j \in 0 .. LastCell(G) : j \in Nat
    BY <2>1
  <2> QED
    BY <2>2, CellsApart, Zenon DEF i
<1>14. \A j \in 0 .. LastCell(G) : j # k => Cell(G, w, j) = Cell(G, v, j)
  <2> SUFFICES ASSUME NEW j \in 0 .. LastCell(G), j # k PROVE Cell(G, w, j) = Cell(G, v, j)
    OBVIOUS
  <2>1. j % Width(G) \in 0 .. Width(G) - 1
    BY CellIn
  <2>2. CASE CellSector(G, j) = v.winsect
    BY <1>5, <1>11, <1>12, <1>13, <2>1, <2>2, Zenon DEF Cell, Seen
  <2>3. CASE CellSector(G, j) # v.winsect
    BY <1>11, <2>3, Zenon DEF Cell, Seen
  <2> QED
    BY <2>2, <2>3
<1>15. Cell(G, w, k) = x
  BY <1>5, <1>11, <1>12, Zenon DEF Cell, Seen, i
<1>16. Content(G, w.winsect, w.win)
  <2>1. IsFat(G, w.win)
    BY <1>5, <1>10, <1>12, Zenon DEF IsFat, Row
  <2>2. IsTable(w.win)
    BY <1>12 DEF IsTable
  <2>3. Reserved(G, w.winsect, w.win)
    <3> SUFFICES ASSUME G.fs_type # "FAT12", NEW m \in {0, 1}, w.winsect = G.fatbase + m \div Width(G)
                 PROVE  w.win.body[m % Width(G)] # 0
      BY Zenon DEF Reserved
    <3>1. m # k /\ m \in 0 .. LastCell(G)
      <4>1. LastCell(G) = G.n_fatent - 1 /\ G.n_fatent >= 3 /\ G.n_fatent \in Nat /\ k >= 2
        BY DEF LastCell, GeoOK
      <4> QED
        BY <4>1
    <3>2. m % Width(G) \in 0 .. Width(G) - 1 /\ m % Width(G) # i
      BY <1>11, <1>13, <3>1, CellIn, Zenon DEF CellSector
    <3>3. v.win.body[m % Width(G)] # 0
      BY <1>1, <1>3, <1>11, Zenon DEF Content, Reserved
    <3> QED
      BY <1>5, <1>12, <3>2, <3>3, Zenon
  <2> QED
    BY <2>1, <2>2, <2>3, Zenon DEF Content
<1>17. HasGeo(G, w)
  <2>1. {"win", "wflag"} \cap GeoFields = {}
    BY Zenon DEF GeoFields
  <2> QED
    BY <1>9, <1>11, <2>1, GeoStays, Zenon DEF Good
<1>18. DiskOK(G, w) /\ WindowOK(G, w)
  BY <1>1, <1>9, <1>11, <1>16, Zenon DEF Good, DiskOK, WindowOK
<1>19. Calm(G, v, w)
  BY <1>11, Zenon DEF Calm, Quiet, Mirror
<1>20. Differ(v, w, WinFields)
  BY <1>9, Zenon DEF Differ, WinFields
<1> QED
  BY <1>7, <1>11, <1>14, <1>15, <1>17, <1>18, <1>19, <1>20, Zenon DEF Good, i

(* The two bytes of a FAT12 entry, and the one it shares.                  *)
LEMMA Nibbles ==
  ASSUME NEW c \in Nat, NEW lo \in Byte, NEW hi \in Byte, NEW val \in Bits12
  PROVE  /\ LowByte12(c, lo, val) \in Byte /\ HighByte12(c, hi, val) \in Byte
         /\ Entry12(c, LowByte12(c, lo, val), HighByte12(c, hi, val)) = val
<1>1. /\ lo \in 0 .. 255 /\ hi \in 0 .. 255 /\ val \in 0 .. 4095
  BY DEF Byte, Bits12
<1>2. CASE c % 2 = 1
  <2>1. PICK p \in 0 .. 255, q \in 0 .. 15 : val = 16 * p + q
    <3>1. val \div 16 \in 0 .. 255 /\ val % 16 \in 0 .. 15 /\ val = 16 * (val \div 16) + (val % 16)
      BY <1>1
    <3> QED
      BY <3>1
  <2>2. PICK l \in 0 .. 15 : l = lo % 16
    BY <1>1
  <2>3. LowByte12(c, lo, val) = l + 16 * q
    <3>1. (val * 16) % 256 = 16 * q
      BY <2>1
    <3> QED
      BY <1>2, <2>2, <3>1 DEF LowByte12
  <2>4. HighByte12(c, hi, val) = p
    BY <1>2, <2>1 DEF HighByte12
  <2>5. Entry12(c, l + 16 * q, p) = 16 * p + q
    BY <1>2, <2>1, <2>2 DEF Entry12
  <2>6. l + 16 * q \in Byte /\ p \in Byte
    BY <2>1, <2>2 DEF Byte
  <2> QED
    BY <2>1, <2>3, <2>4, <2>5, <2>6
<1>3. CASE c % 2 # 1
  <2>1. PICK p \in 0 .. 15, q \in 0 .. 255 : val = 256 * p + q
    <3>1. val \div 256 \in 0 .. 15 /\ val % 256 \in 0 .. 255 /\ val = 256 * (val \div 256) + (val % 256)
      BY <1>1
    <3> QED
      BY <3>1
  <2>2. PICK h \in 0 .. 15 : hi - (hi % 16) = 16 * h
    <3>1. hi \div 16 \in 0 .. 15 /\ hi - (hi % 16) = 16 * (hi \div 16)
      BY <1>1
    <3> QED
      BY <3>1
  <2>3. LowByte12(c, lo, val) = q
    BY <1>3, <2>1 DEF LowByte12
  <2>4. HighByte12(c, hi, val) = 16 * h + p
    BY <1>3, <2>1, <2>2 DEF HighByte12
  <2>5. Entry12(c, q, 16 * h + p) = 256 * p + q
    BY <1>3, <2>1, <2>2 DEF Entry12
  <2>6. q \in Byte /\ 16 * h + p \in Byte
    BY <2>1, <2>2 DEF Byte
  <2> QED
    BY <2>1, <2>3, <2>4, <2>5, <2>6
<1> QED
  BY <1>2, <1>3

LEMMA SharedByte ==
  ASSUME NEW c \in Nat, NEW d \in Nat, c # d
  PROVE  /\ FirstByte(c) # FirstByte(d) /\ SecondByte(c) # SecondByte(d)
         /\ FirstByte(c) # SecondByte(c)
         /\ FirstByte(d) = SecondByte(c) => c % 2 # 1 /\ d % 2 = 1
         /\ SecondByte(d) = FirstByte(c) => c % 2 = 1 /\ d % 2 # 1
BY SMT DEF FirstByte, SecondByte

LEMMA NibblesKept ==
  ASSUME NEW c \in Nat, NEW d \in Nat, NEW lo \in Byte, NEW hi \in Byte, NEW o \in Byte,
         NEW val \in Bits12
  PROVE  /\ c % 2 # 1 /\ d % 2 = 1 => Entry12(d, HighByte12(c, hi, val), o) = Entry12(d, hi, o)
         /\ c % 2 = 1 /\ d % 2 # 1 => Entry12(d, o, LowByte12(c, lo, val)) = Entry12(d, o, lo)
BY SMT DEF LowByte12, HighByte12, Entry12, Byte, Bits12

(* What put_fat does on a FAT12 volume, cell by cell.                      *)
LEMMA Put12 ==
  ASSUME NEW G, GeoOK(G), G.fs_type = "FAT12", NEW v, Good(G, v), NEW c \in Clusters(G),
         NEW val \in Bits12
  PROVE  LET w == put_fat(v, c, val)
             j == FirstByte(c)
             k == SecondByte(c)
         IN
         /\ Differ(v, w, WinFields) /\ Good(G, w) /\ Calm(G, v, w) /\ w.res \in {"OK", "DISK_ERR"}
         /\ w.res = "OK" =>
              /\ Cell(G, w, j) = LowByte12(c, Cell(G, v, j), val)
              /\ Cell(G, w, k) = HighByte12(c, Cell(G, v, k), val)
              /\ \A n \in 0 .. LastCell(G) : n # j /\ n # k => Cell(G, w, n) = Cell(G, v, n)
         /\ Quiet(v) => w.res = "OK"
<1>1. HasGeo(G, v)
  BY Zenon DEF Good
<1>2. PICK j, k : j = FirstByte(c) /\ k = SecondByte(c)
  OBVIOUS
<1>3. j \in 0 .. LastCell(G) /\ k \in 0 .. LastCell(G) /\ j # k /\ c \in Nat
  <2>1. c \in Nat
    BY EntryCells, Zenon
  <2>2. c + 1 \in Nat /\ c + 1 # c
    BY <2>1
  <2>3. j # k
    BY <1>2, <2>1, <2>2, SharedByte, Zenon
  <2> QED
    BY <1>2, <2>1, <2>3, EntryCells, Zenon
<1>4. /\ v.fatbase + FirstByte(c) \div SS = CellSector(G, j) /\ FirstByte(c) % SS = j % Width(G)
      /\ v.fatbase + (FirstByte(c) + 1) \div SS = CellSector(G, k) /\ (FirstByte(c) + 1) % SS = k % Width(G)
      /\ v.fs_type = "FAT12" /\ IsCluster(v, c)
  BY <1>1, <1>2, CodeCell, Zenon DEF SecondByte
<1>5. \A x \in Byte : x \in CellType(G)
  BY Zenon DEF CellType
<1>6. Cell(G, v, j) \in Byte /\ Cell(G, v, k) \in Byte
  BY <1>3, CellTyped, Zenon DEF CellType
<1>7. PICK lo, hi : lo = LowByte12(c, Cell(G, v, j), val) /\ hi = HighByte12(c, Cell(G, v, k), val)
  OBVIOUS
<1>8. lo \in CellType(G) /\ hi \in CellType(G)
  BY <1>3, <1>5, <1>6, <1>7, Nibbles, Zenon
<1>9. PICK w1 : w1 = move_window(v, CellSector(G, j))
  OBVIOUS
<1>10. /\ Unhurt(G, v, w1, WinFields) /\ w1.res \in {"OK", "DISK_ERR"}
       /\ w1.res = "OK" => w1.winsect = CellSector(G, j) /\ w1.win.body[j % Width(G)] = Cell(G, v, j)
       /\ Quiet(v) => w1.res = "OK"
  BY <1>3, <1>9, LoadCell
<1>11. CASE w1.res # "OK"
  <2>1. put_fat(v, c, val) = w1
    BY <1>4, <1>9, <1>11, Zenon DEF put_fat, IfOk
  <2> QED
    BY <1>2, <1>10, <1>11, <2>1, Zenon DEF Unhurt
<1>12. CASE w1.res = "OK"
  <2>1. PICK x : x = Stored(w1, j % Width(G), lo)
    OBVIOUS
  <2>2. /\ Differ(w1, x, WinFields) /\ Good(G, x) /\ Calm(G, w1, x)
        /\ Cell(G, x, j) = lo /\ \A n \in 0 .. LastCell(G) : n # j => Cell(G, x, n) = Cell(G, w1, n)
    <3>1. Good(G, w1) /\ w1.winsect = CellSector(G, j)
      BY <1>10, <1>12, Zenon DEF Unhurt
    <3> QED
      BY <1>3, <1>8, <2>1, <3>1, StoreCell
  <2>3. \A n \in 0 .. LastCell(G) : Cell(G, w1, n) = Cell(G, v, n)
    BY <1>10, CellSame, Zenon DEF Unhurt
  <2>4. PICK w2 : w2 = move_window(x, CellSector(G, k))
    OBVIOUS
  <2>5. /\ Unhurt(G, x, w2, WinFields) /\ w2.res \in {"OK", "DISK_ERR"}
        /\ w2.res = "OK" => w2.winsect = CellSector(G, k) /\ w2.win.body[k % Width(G)] = Cell(G, x, k)
        /\ Quiet(x) => w2.res = "OK"
    BY <1>3, <2>2, <2>4, LoadCell
  <2>6. Quiet(v) => Quiet(x)
    BY <1>10, <2>2, Zenon DEF Unhurt, Calm
  <2>7. Differ(v, w2, WinFields) /\ Calm(G, v, w2) /\ Good(G, w2)
    <3>1. Differ(v, w1, WinFields) /\ Differ(w1, x, WinFields) /\ Differ(x, w2, WinFields)
      BY <1>10, <2>2, <2>5, Zenon DEF Unhurt
    <3>2. Calm(G, v, w1) /\ Calm(G, w1, x) /\ Calm(G, x, w2)
      BY <1>10, <2>2, <2>5, Zenon DEF Unhurt
    <3> QED
      BY <2>5, <3>1, <3>2, DifferTwice, Zenon DEF Calm, Unhurt
  <2>8. CASE w2.res # "OK"
    <3>1. put_fat(v, c, val) = w2
      BY <1>4, <1>7, <1>9, <1>10, <1>12, <2>1, <2>4, <2>8, Zenon DEF put_fat, IfOk
    <3> QED
      BY <1>2, <2>5, <2>6, <2>7, <2>8, <3>1, Zenon
  <2>9. CASE w2.res = "OK"
    <3>1. PICK u : u = Stored(w2, k % Width(G), hi)
      OBVIOUS
    <3>2. w2.win.body[k % Width(G)] = Cell(G, v, k) /\ w2.winsect = CellSector(G, k)
      BY <1>3, <2>2, <2>3, <2>5, <2>9, Zenon
    <3>3. put_fat(v, c, val) = u
      BY <1>4, <1>7, <1>9, <1>10, <1>12, <2>1, <2>4, <2>9, <3>1, <3>2, Zenon DEF put_fat, IfOk
    <3>4. /\ Differ(w2, u, WinFields) /\ Good(G, u) /\ Calm(G, w2, u) /\ u.res = w2.res
          /\ Cell(G, u, k) = hi /\ \A n \in 0 .. LastCell(G) : n # k => Cell(G, u, n) = Cell(G, w2, n)
      <4>1. CellSector(G, k) = w2.winsect
        BY <3>2
      <4> QED
        BY <1>3, <1>8, <2>7, <3>1, <4>1, StoreCell
    <3>5. \A n \in 0 .. LastCell(G) : Cell(G, w2, n) = Cell(G, x, n)
      BY <2>5, CellSame, Zenon DEF Unhurt
    <3>6. Differ(v, u, WinFields) /\ Calm(G, v, u)
      BY <2>7, <3>4, DifferTwice, Zenon DEF Calm
    <3>7. Cell(G, u, j) = lo
      BY <1>3, <2>2, <3>4, <3>5, Zenon
    <3>8. \A n \in 0 .. LastCell(G) : n # j /\ n # k => Cell(G, u, n) = Cell(G, v, n)
      BY <2>2, <2>3, <3>4, <3>5, Zenon
    <3> QED
      BY <1>2, <1>7, <2>9, <3>3, <3>4, <3>6, <3>7, <3>8
  <2> QED
    BY <2>8, <2>9
<1> QED
  BY <1>11, <1>12

(* An entry is written: nothing else of the FAT changes.                   *)
PutOne(G, v, w, c, val) ==
  /\ c \in Clusters(G) /\ FatEntry(w, c) = val
  /\ \A d \in Clusters(G) : d # c => FatEntry(w, d) = FatEntry(v, d)

LEMMA PutIs ==
  ASSUME NEW G, GeoOK(G), NEW v, Good(G, v), NEW c, NEW val \in Nat,
         G.fs_type = "FAT12" => val \in Bits12
  PROVE  LET w == put_fat(v, c, val) IN
         /\ Differ(v, w, WinFields) /\ Good(G, w) /\ Calm(G, v, w)
         /\ w.res \in {"OK", "DISK_ERR", "INT_ERR"}
         /\ w.res = "OK" => PutOne(G, v, w, c, val)
         /\ c \notin Clusters(G) => Unhurt(G, v, w, WinFields) /\ w.res = "INT_ERR"
         /\ Quiet(v) /\ c \in Clusters(G) => w.res = "OK"
<1>1. HasGeo(G, v)
  BY Zenon DEF Good
<1>2. PICK w : w = put_fat(v, c, val)
  OBVIOUS
<1>3. CASE c \notin Clusters(G)
  <2>1. w = Failed(v, "INT_ERR")
    BY <1>1, <1>2, <1>3, CodeCell, Zenon DEF put_fat
  <2>2. Unhurt(G, v, w, WinFields) /\ w.res = "INT_ERR"
    BY <2>1, ResUnhurt, Zenon
  <2> QED
    BY <1>2, <1>3, <2>2 DEF Unhurt
<1>4. CASE c \in Clusters(G) /\ G.fs_type # "FAT12"
  <2>1. c \in 0 .. LastCell(G) /\ c >= 2 /\ val \in CellType(G)
    BY <1>4, EntryCells DEF CellType
  <2>2. PICK u : u = move_window(v, CellSector(G, c))
    OBVIOUS
  <2>3. /\ Unhurt(G, v, u, WinFields) /\ u.res \in {"OK", "DISK_ERR"}
        /\ u.res = "OK" => u.winsect = CellSector(G, c)
        /\ Quiet(v) => u.res = "OK"
    BY <2>1, <2>2, LoadCell
  <2>4. CASE u.res # "OK"
    <3>1. w = u
      BY <1>1, <1>2, <1>4, <2>2, <2>4, CodeCell, Zenon DEF put_fat, IfOk
    <3> QED
      BY <1>2, <1>4, <2>3, <2>4, <3>1 DEF Unhurt
  <2>5. CASE u.res = "OK"
    <3>1. w = Stored(u, c % Width(G), val)
      BY <1>1, <1>2, <1>4, <2>2, <2>5, CodeCell, Zenon DEF put_fat, IfOk
    <3>2. /\ Differ(u, w, WinFields) /\ Good(G, w) /\ Calm(G, u, w) /\ w.res = u.res
          /\ Cell(G, w, c) = val /\ \A j \in 0 .. LastCell(G) : j # c => Cell(G, w, j) = Cell(G, u, j)
      <4>1. Good(G, u) /\ u.winsect = CellSector(G, c)
        BY <2>3, <2>5, Zenon DEF Unhurt
      <4> QED
        BY <2>1, <3>1, <4>1, StoreCell
    <3>3. HasGeo(G, w) /\ HasGeo(G, u)
      BY <2>3, <3>2, Zenon DEF Unhurt, Good
    <3>4. FatEntry(w, c) = val
      BY <1>4, <3>2, <3>3, EntryIs
    <3>5. ASSUME NEW d \in Clusters(G), d # c PROVE FatEntry(w, d) = FatEntry(v, d)
      <4>1. FatEntry(w, d) = Cell(G, w, d) /\ FatEntry(u, d) = Cell(G, u, d)
        BY <1>4, <3>3, EntryIs
      <4>2. FatEntry(u, d) = FatEntry(v, d)
        BY <1>1, <2>3, <3>3, EntrySame, Zenon DEF Unhurt
      <4>3. Cell(G, w, d) = Cell(G, u, d)
        BY <1>4, <3>2, <3>5, EntryCells, Zenon
      <4> QED
        BY <4>1, <4>2, <4>3, Zenon
    <3>6. Differ(v, w, WinFields) /\ Calm(G, v, w)
      BY <2>3, <3>2, DifferTwice, Zenon DEF Unhurt, Calm
    <3> QED
      BY <1>2, <1>4, <2>5, <3>2, <3>4, <3>5, <3>6, Zenon DEF PutOne
  <2> QED
    BY <2>4, <2>5
<1>5. CASE c \in Clusters(G) /\ G.fs_type = "FAT12"
  <2>1. PICK j, k : j = FirstByte(c) /\ k = SecondByte(c)
    OBVIOUS
  <2>2. val \in Bits12
    BY <1>5, Zenon
  <2>3. /\ Differ(v, w, WinFields) /\ Good(G, w) /\ Calm(G, v, w) /\ w.res \in {"OK", "DISK_ERR"}
        /\ w.res = "OK" =>
             /\ Cell(G, w, j) = LowByte12(c, Cell(G, v, j), val)
             /\ Cell(G, w, k) = HighByte12(c, Cell(G, v, k), val)
             /\ \A n \in 0 .. LastCell(G) : n # j /\ n # k => Cell(G, w, n) = Cell(G, v, n)
        /\ Quiet(v) => w.res = "OK"
    BY <1>2, <1>5, <2>1, <2>2, Put12
  <2>4. HasGeo(G, w)
    BY <2>3, Zenon DEF Good
  <2>5. j \in 0 .. LastCell(G) /\ k \in 0 .. LastCell(G) /\ c \in Nat
    BY <1>5, <2>1, EntryCells, Zenon
  <2>6. PICK lo \in Byte, hi \in Byte : lo = Cell(G, v, j) /\ hi = Cell(G, v, k)
    BY <1>5, <2>5, CellTyped, Zenon DEF CellType
  <2>7. ASSUME w.res = "OK" PROVE PutOne(G, v, w, c, val)
    <3>1. FatEntry(w, c) = val
      <4>1. FatEntry(w, c) = Entry12(c, Cell(G, w, j), Cell(G, w, k))
        BY <1>5, <2>1, <2>4, EntryIs, Zenon
      <4>2. FatEntry(w, c) = Entry12(c, LowByte12(c, lo, val), HighByte12(c, hi, val))
        BY <2>3, <2>6, <2>7, <4>1, Zenon
      <4> QED
        BY <2>2, <2>5, <4>2, Nibbles, Zenon
    <3>2. ASSUME NEW d \in Clusters(G), d # c PROVE FatEntry(w, d) = FatEntry(v, d)
      <4>1. PICK p, q : p = FirstByte(d) /\ q = SecondByte(d)
        OBVIOUS
      <4>2. /\ FatEntry(w, d) = Entry12(d, Cell(G, w, p), Cell(G, w, q))
            /\ FatEntry(v, d) = Entry12(d, Cell(G, v, p), Cell(G, v, q))
        BY <1>1, <1>5, <2>4, <4>1, EntryIs, Zenon
      <4>3. p \in 0 .. LastCell(G) /\ q \in 0 .. LastCell(G) /\ d \in Nat
        BY <1>5, <4>1, EntryCells, Zenon
      <4>4. /\ p # j /\ q # k
            /\ p = k => c % 2 # 1 /\ d % 2 = 1
            /\ q = j => c % 2 = 1 /\ d % 2 # 1
        BY <2>1, <2>5, <3>2, <4>1, <4>3, SharedByte, Zenon
      <4>5. Cell(G, v, p) \in Byte /\ Cell(G, v, q) \in Byte
        BY <1>5, <4>3, CellTyped, Zenon DEF CellType
      <4>6. CASE p # k /\ q # j
        BY <2>3, <2>7, <4>2, <4>3, <4>4, <4>6, Zenon
      <4>7. CASE p = k
        <5>1. c % 2 # 1 /\ d % 2 = 1 /\ q # j
          BY <4>4, <4>7, Zenon
        <5>2. Cell(G, w, q) = Cell(G, v, q) /\ Cell(G, w, p) = HighByte12(c, hi, val) /\ Cell(G, v, p) = hi
          BY <2>3, <2>6, <2>7, <4>3, <4>4, <4>7, <5>1, Zenon
        <5>3. Entry12(d, HighByte12(c, hi, val), Cell(G, v, q)) = Entry12(d, hi, Cell(G, v, q))
          BY <2>2, <2>5, <4>3, <4>5, <5>1, NibblesKept
        <5> QED
          BY <4>2, <5>2, <5>3, Zenon
      <4>8. CASE q = j /\ p # k
        <5>1. c % 2 = 1 /\ d % 2 # 1
          BY <4>4, <4>8, Zenon
        <5>2. Cell(G, w, p) = Cell(G, v, p) /\ Cell(G, w, q) = LowByte12(c, lo, val) /\ Cell(G, v, q) = lo
          BY <2>3, <2>6, <2>7, <4>3, <4>4, <4>8, Zenon
        <5>3. Entry12(d, Cell(G, v, p), LowByte12(c, lo, val)) = Entry12(d, Cell(G, v, p), lo)
          BY <2>2, <2>5, <4>3, <4>5, <5>1, NibblesKept
        <5> QED
          BY <4>2, <5>2, <5>3, Zenon
      <4> QED
        BY <4>6, <4>7, <4>8
    <3> QED
      BY <1>5, <3>1, <3>2, Zenon DEF PutOne
  <2> QED
    BY <1>2, <1>5, <2>3, <2>7, Zenon
<1> QED
  BY <1>3, <1>4, <1>5

-----------------------------------------------------------------------------
(* Counting the free clusters. *)

Exact(v) == CountKnown(v) => v.free_clst = Cardinality(FreeClusters(v))

CountStays(v, w) == Quiet(v) /\ Exact(v) => Exact(w)

(* w is v but for the fields F and is good again; if no fault is to come   *)
(* the FATs stay alike and the count of free clusters stays exact.         *)
Serves(G, v, w, F) == Differ(v, w, F) /\ Good(G, w) /\ Calm(G, v, w) /\ CountStays(v, w)

LEMMA ServesTwice ==
  ASSUME NEW G, NEW v, NEW u, NEW w, NEW F, Serves(G, v, u, F), Serves(G, u, w, F)
  PROVE  Serves(G, v, w, F)
<1>1. Differ(v, w, F)
  BY DifferTwice, Zenon DEF Serves
<1>2. CountStays(v, w) /\ Calm(G, v, w)
  BY Zenon DEF Serves, CountStays, Calm
<1> QED
  BY <1>1, <1>2, Zenon DEF Serves

LEMMA ServesMore ==
  ASSUME NEW G, NEW v, NEW w, NEW F, NEW H, Serves(G, v, w, F), F \subseteq H
  PROVE  Serves(G, v, w, H)
BY DifferMore, Zenon DEF Serves

LEMMA FreeSame ==
  ASSUME NEW G, GeoOK(G), NEW v, NEW w, HasGeo(G, v), HasGeo(G, w), FatSame(G, v, w)
  PROVE  /\ FreeClusters(w) = FreeClusters(v) /\ v.n_fatent = G.n_fatent /\ w.n_fatent = G.n_fatent
         /\ Clusters(v) = Clusters(G) /\ Clusters(w) = Clusters(G)
<1>1. v.n_fatent = G.n_fatent /\ w.n_fatent = G.n_fatent
  BY GeoIs, Zenon
<1>2. Clusters(v) = Clusters(G) /\ Clusters(w) = Clusters(G)
  BY <1>1, Zenon DEF Clusters
<1>3. \A c \in Clusters(G) : FatEntry(w, c) = FatEntry(v, c)
  BY EntrySame, Zenon
<1> QED
  BY <1>1, <1>2, <1>3 DEF FreeClusters

LEMMA UnhurtServes ==
  ASSUME NEW G, GeoOK(G), NEW v, Good(G, v), NEW w, NEW F, Unhurt(G, v, w, F), "free_clst" \notin F
  PROVE  Serves(G, v, w, F)
<1>1. HasGeo(G, v) /\ HasGeo(G, w) /\ FatSame(G, v, w)
  BY Zenon DEF Unhurt, Good
<1>2. w.free_clst = v.free_clst
  BY Zenon DEF Unhurt, Differ, VolFields
<1>3. FreeClusters(w) = FreeClusters(v) /\ w.n_fatent = v.n_fatent
  BY <1>1, FreeSame, Zenon
<1>4. CountStays(v, w)
  BY <1>2, <1>3, Zenon DEF CountStays, Exact, CountKnown
<1> QED
  BY <1>4, Zenon DEF Unhurt, Serves

LEMMA ReadServes ==
  ASSUME NEW G, GeoOK(G), NEW v, Good(G, v), NEW w
  PROVE  /\ Unhurt(G, v, w, WinFields) => Serves(G, v, w, ChainFields)
         /\ Unhurt(G, v, w, ReadFields) => Serves(G, v, w, ChainFields)
<1>1. ReadFields \subseteq ChainFields /\ "free_clst" \notin ReadFields
  BY Zenon DEF ReadFields, ChainFields, WinFields
<1> QED
  BY <1>1, UnhurtServes, UnhurtUp, ServesMore, Zenon

LEMMA IntervalCount ==
  ASSUME NEW b \in Int, b >= 2 PROVE IsFiniteSet(2 .. b) /\ Cardinality(2 .. b) = b - 1
BY FS_Interval

LEMMA FreeCount ==
  ASSUME NEW G, GeoOK(G), NEW v, HasGeo(G, v)
  PROVE  /\ IsFiniteSet(Clusters(G)) /\ IsFiniteSet(FreeClusters(v))
         /\ FreeClusters(v) = {c \in Clusters(G) : FatEntry(v, c) = 0}
         /\ Cardinality(Clusters(G)) = G.n_fatent - 2
         /\ Cardinality(FreeClusters(v)) \in 0 .. G.n_fatent - 2
<1>1. G.n_fatent \in Nat /\ G.n_fatent >= 3
  BY DEF GeoOK
<1>2. IsFiniteSet(Clusters(G)) /\ Cardinality(Clusters(G)) = G.n_fatent - 2
  <2>1. PICK b \in Int : b = G.n_fatent - 1 /\ b >= 2
    BY <1>1
  <2>2. IsFiniteSet(2 .. b) /\ Cardinality(2 .. b) = b - 1
    BY <2>1, IntervalCount, Zenon
  <2>3. Clusters(G) = 2 .. b /\ b - 1 = G.n_fatent - 2
    BY <1>1, <2>1 DEF Clusters
  <2> QED
    BY <2>2, <2>3, Zenon
<1>3. FreeClusters(v) = {c \in Clusters(G) : FatEntry(v, c) = 0}
  BY GeoIs, Zenon DEF FreeClusters, Clusters
<1>4. FreeClusters(v) \subseteq Clusters(G)
  BY <1>3, Zenon
<1>5. IsFiniteSet(FreeClusters(v)) /\ Cardinality(FreeClusters(v)) <= Cardinality(Clusters(G))
  BY <1>2, <1>4, FS_Subset
<1>6. Cardinality(FreeClusters(v)) \in Nat
  BY <1>5, FS_CardinalityType
<1> QED
  BY <1>1, <1>2, <1>3, <1>5, <1>6

(* A cluster becomes free, or is taken, or keeps being one or the other.   *)
LEMMA PutCount ==
  ASSUME NEW G, GeoOK(G), NEW v, NEW w, HasGeo(G, v), HasGeo(G, w), NEW c, NEW val,
         PutOne(G, v, w, c, val)
  PROVE  LET m == Cardinality(FreeClusters(v))
             n == Cardinality(FreeClusters(w))
         IN  /\ FatEntry(v, c) # 0 /\ val = 0 => n = m + 1
             /\ FatEntry(v, c) = 0 /\ val # 0 => m = n + 1
             /\ FatEntry(v, c) # 0 /\ val # 0 => n = m
             /\ n \in 0 .. G.n_fatent - 2 /\ m \in 0 .. G.n_fatent - 2
<1> DEFINE A == FreeClusters(v)
           B == FreeClusters(w)
<1>1. /\ IsFiniteSet(A) /\ IsFiniteSet(B)
      /\ A = {d \in Clusters(G) : FatEntry(v, d) = 0} /\ B = {d \in Clusters(G) : FatEntry(w, d) = 0}
      /\ Cardinality(A) \in 0 .. G.n_fatent - 2 /\ Cardinality(B) \in 0 .. G.n_fatent - 2
  BY FreeCount
<1> HIDE DEF A, B
<1>2. c \in Clusters(G) /\ FatEntry(w, c) = val /\ \A d \in Clusters(G) : d # c => FatEntry(w, d) = FatEntry(v, d)
  BY Zenon DEF PutOne
<1>3. ASSUME FatEntry(v, c) # 0, val = 0 PROVE Cardinality(B) = Cardinality(A) + 1
  <2>1. B = A \cup {c} /\ c \notin A
    BY <1>1, <1>2, <1>3
  <2> QED
    BY <1>1, <2>1, FS_AddElement
<1>4. ASSUME FatEntry(v, c) = 0, val # 0 PROVE Cardinality(A) = Cardinality(B) + 1
  <2>1. A = B \cup {c} /\ c \notin B
    BY <1>1, <1>2, <1>4
  <2> QED
    BY <1>1, <2>1, FS_AddElement
<1>5. ASSUME FatEntry(v, c) # 0, val # 0 PROVE B = A
  BY <1>1, <1>2, <1>5
<1> QED
  BY <1>1, <1>3, <1>4, <1>5 DEF A, B

(* The count is set.                                                       *)
CountSet(v, u, n) == Differ(v, u, {"free_clst"}) /\ u.free_clst = n

LEMMA CountSetIs ==
  ASSUME NEW G, NEW v, Good(G, v), NEW n
  PROVE  CountSet(v, [v EXCEPT !.free_clst = n], n)
BY GoodIsVol, Zenon DEF CountSet, IsVol, Differ, VolFields

LEMMA AdjustIs ==
  ASSUME NEW G, GeoOK(G), NEW v, Good(G, v), NEW n, NEW u,
         CountSet(v, u, n), NEW w, w = Changed(u)
  PROVE  /\ Unhurt(G, v, w, ChainFields) /\ w.free_clst = n /\ w.res = v.res /\ w.val = v.val
         /\ FreeClusters(w) = FreeClusters(v) /\ w.n_fatent = v.n_fatent
<1>2. Differ(v, u, {"free_clst"}) /\ u.free_clst = n
  BY Zenon DEF CountSet
<1>3. PICK x : x = IF u.fsi_flag % 2 = 0 THEN u.fsi_flag + 1 ELSE u.fsi_flag
  OBVIOUS
<1>4. w = [u EXCEPT !.fsi_flag = x]
  BY <1>3, Zenon DEF Changed
<1>6. IsVol(u)
  BY <1>2, Zenon DEF Differ
<1>7. Differ(u, w, {"fsi_flag"})
  BY <1>4, <1>6, Zenon DEF IsVol, Differ, VolFields
<1> DEFINE F == {"free_clst", "fsi_flag"}
<1>8. Differ(v, w, F) /\ w.free_clst = n /\ w.res = v.res /\ w.val = v.val
  BY <1>2, <1>7, Zenon DEF Differ, VolFields
<1>9. F \cap GeoFields = {} /\ F \cap {"disk", "fuel", "wflag", "win", "winsect"} = {} /\ F \subseteq ChainFields
  BY Zenon DEF GeoFields, ChainFields, ReadFields
<1> HIDE DEF F
<1>10. Unhurt(G, v, w, ChainFields)
  BY <1>8, <1>9, RegisterUnhurt, UnhurtMore, Zenon
<1>11. FreeClusters(w) = FreeClusters(v) /\ w.n_fatent = v.n_fatent
  BY <1>10, FreeSame, Zenon DEF Unhurt, Good
<1> QED
  BY <1>8, <1>10, <1>11, Zenon

-----------------------------------------------------------------------------
(* Cluster chains. *)

LEMMA FreedCount ==
  ASSUME NEW G, GeoOK(G), NEW v, Good(G, v), NEW p, Good(G, p), p.free_clst = v.free_clst, NEW c,
         PutOne(G, v, p, c, 0), FatEntry(v, c) # 0, NEW q,
         q = IF p.free_clst \in 0 .. v.n_fatent - 3
               THEN Changed([p EXCEPT !.free_clst = p.free_clst + 1]) ELSE p
  PROVE  (Exact(v) => Exact(q)) /\ Good(G, q) /\ Differ(p, q, ChainFields) /\ Calm(G, p, q)
<1>1. /\ HasGeo(G, v) /\ HasGeo(G, p) /\ v.n_fatent = G.n_fatent /\ p.n_fatent = G.n_fatent
      /\ G.n_fatent \in Nat /\ IsVol(p)
  <2>1. HasGeo(G, v) /\ HasGeo(G, p) /\ IsVol(p)
    BY GoodIsVol, Zenon DEF Good
  <2> QED
    BY <2>1, GeoIs DEF GeoOK
<1> DEFINE m == Cardinality(FreeClusters(v))
           n == Cardinality(FreeClusters(p))
<1>2. n = m + 1 /\ n \in 0 .. G.n_fatent - 2 /\ m \in 0 .. G.n_fatent - 2
  BY <1>1, PutCount
<1>3. CASE p.free_clst \in 0 .. v.n_fatent - 3
  <2>1. /\ Unhurt(G, p, q, ChainFields) /\ q.free_clst = p.free_clst + 1
        /\ FreeClusters(q) = FreeClusters(p) /\ q.n_fatent = p.n_fatent
    <3>1. PICK x : x = p.free_clst + 1
      OBVIOUS
    <3> DEFINE u == [p EXCEPT !.free_clst = x]
    <3>2. q = Changed(u)
      BY <1>3, <3>1
    <3>4. CountSet(p, u, x)
      BY CountSetIs, Zenon
    <3> HIDE DEF u, m, n
    <3>3. /\ Unhurt(G, p, q, ChainFields) /\ q.free_clst = x
          /\ FreeClusters(q) = FreeClusters(p) /\ q.n_fatent = p.n_fatent
      BY <3>2, <3>4, AdjustIs
    <3> QED
      BY <3>1, <3>3, Zenon
  <2>2. Cardinality(FreeClusters(q)) = n
    BY <2>1, Zenon
  <2> HIDE DEF m, n
  <2>3. Exact(v) => v.free_clst = m
    BY <1>1, <1>3 DEF Exact, CountKnown, m
  <2>4. Exact(v) => Exact(q)
    BY <1>2, <2>1, <2>2, <2>3 DEF Exact
  <2> QED
    BY <2>1, <2>4, Zenon DEF Unhurt
<1>4. CASE ~(p.free_clst \in 0 .. v.n_fatent - 3)
  <2>1. q = p
    BY <1>4, Zenon
  <2> HIDE DEF m, n
  <2>2. Exact(v) => ~CountKnown(p)
    BY <1>1, <1>2, <1>4 DEF Exact, CountKnown, m
  <2>3. Differ(p, p, ChainFields) /\ Calm(G, p, p)
    BY <1>1, Zenon DEF Differ, Calm
  <2> QED
    BY <2>1, <2>2, <2>3, Zenon DEF Exact
<1> QED
  BY <1>3, <1>4

LEMMA TakenCount ==
  ASSUME NEW G, GeoOK(G), NEW v, NEW p, Good(G, p), p.free_clst = v.free_clst, HasGeo(G, v),
         Cardinality(FreeClusters(v)) = Cardinality(FreeClusters(p)) + 1, NEW q,
         q = IF p.free_clst \in 1 .. v.n_fatent - 2
               THEN Changed([p EXCEPT !.free_clst = p.free_clst - 1]) ELSE p
  PROVE  (Exact(v) => Exact(q)) /\ Good(G, q) /\ Differ(p, q, ChainFields) /\ Calm(G, p, q)
<1>1. /\ HasGeo(G, p) /\ v.n_fatent = G.n_fatent /\ p.n_fatent = G.n_fatent /\ G.n_fatent \in Nat
      /\ IsVol(p)
  <2>1. HasGeo(G, p) /\ IsVol(p)
    BY GoodIsVol, Zenon DEF Good
  <2> QED
    BY <2>1, GeoIs DEF GeoOK
<1> DEFINE m == Cardinality(FreeClusters(v))
           n == Cardinality(FreeClusters(p))
<1>2. m = n + 1 /\ n \in 0 .. G.n_fatent - 2 /\ m \in 0 .. G.n_fatent - 2
  BY <1>1, FreeCount
<1>3. CASE p.free_clst \in 1 .. v.n_fatent - 2
  <2>1. /\ Unhurt(G, p, q, ChainFields) /\ q.free_clst = p.free_clst - 1
        /\ FreeClusters(q) = FreeClusters(p) /\ q.n_fatent = p.n_fatent
    <3>1. PICK x : x = p.free_clst - 1
      OBVIOUS
    <3> DEFINE u == [p EXCEPT !.free_clst = x]
    <3>2. q = Changed(u)
      BY <1>3, <3>1
    <3>4. CountSet(p, u, x)
      BY CountSetIs, Zenon
    <3> HIDE DEF u, m, n
    <3>3. /\ Unhurt(G, p, q, ChainFields) /\ q.free_clst = x
          /\ FreeClusters(q) = FreeClusters(p) /\ q.n_fatent = p.n_fatent
      BY <3>2, <3>4, AdjustIs
    <3> QED
      BY <3>1, <3>3, Zenon
  <2>2. Cardinality(FreeClusters(q)) = n
    BY <2>1, Zenon
  <2> HIDE DEF m, n
  <2>3. Exact(v) => v.free_clst = m
    BY <1>1, <1>3 DEF Exact, CountKnown, m
  <2>4. Exact(v) => Exact(q)
    BY <1>2, <2>1, <2>2, <2>3 DEF Exact
  <2> QED
    BY <2>1, <2>4, Zenon DEF Unhurt
<1>4. CASE ~(p.free_clst \in 1 .. v.n_fatent - 2)
  <2>1. q = p
    BY <1>4, Zenon
  <2> HIDE DEF m, n
  <2>2. Exact(v) => ~CountKnown(p)
    BY <1>1, <1>2, <1>4 DEF Exact, CountKnown, m
  <2>3. Differ(p, p, ChainFields) /\ Calm(G, p, p)
    BY <1>1, Zenon DEF Differ, Calm
  <2> QED
    BY <2>1, <2>2, <2>3, Zenon DEF Exact
<1> QED
  BY <1>3, <1>4

LEMMA FreeOneServes ==
  ASSUME NEW G, GeoOK(G), NEW v, Good(G, v)
  PROVE  Serves(G, v, FreeOne(v), ChainFields)
<1>1. PICK g : g = get_fat(v, v.val)
  OBVIOUS
<1>2. /\ Unhurt(G, v, g, ReadFields) /\ g.val \in Nat \cup {DISK}
      /\ v.val \notin Clusters(G) => g.val = 1
      /\ v.val \in Clusters(G) => g.val = FatEntry(v, v.val) \/ g.val = DISK
  BY <1>1, GetIs
<1>3. Good(G, g) /\ Serves(G, v, g, ChainFields)
  BY <1>2, ReadServes, Zenon DEF Unhurt
<1>4. CASE g.val \in {0, 1, DISK}
  <2>1. \E r : FreeOne(v) = Failed(g, r)
    BY <1>1, <1>4, StatusApart DEF FreeOne, After
  <2>2. PICK r : FreeOne(v) = Failed(g, r)
    BY <2>1
  <2>3. Serves(G, g, Failed(g, r), ChainFields)
    BY <1>3, ResUnhurt, ReadServes, Zenon
  <2> QED
    BY <1>3, <2>2, <2>3, ServesTwice, Zenon
<1>5. CASE g.val \notin {0, 1, DISK}
  <2>1. PICK p : p = put_fat(g, v.val, 0)
    OBVIOUS
  <2> DEFINE q == IF p.free_clst \in 0 .. v.n_fatent - 3
                    THEN Changed([p EXCEPT !.free_clst = p.free_clst + 1]) ELSE p
             u == IF g.val < v.n_fatent THEN Returns(q, g.val) ELSE Failed(q, "DONE")
  <2>2. FreeOne(v) = IF p.res = "OK" THEN u ELSE p
    BY <1>1, <1>5, <2>1 DEF FreeOne, After, IfOk
  <2>3. v.val \in Clusters(G) /\ g.val = FatEntry(v, v.val)
    BY <1>2, <1>5, Zenon
  <2>4. /\ Differ(g, p, WinFields) /\ Good(G, p) /\ Calm(G, g, p)
        /\ p.res = "OK" => PutOne(G, g, p, v.val, 0)
        /\ Quiet(g) => p.res = "OK"
    <3>1. G.fs_type = "FAT12" => 0 \in Bits12
      BY DEF Bits12
    <3> QED
      BY <1>3, <2>1, <2>3, <3>1, PutIs
  <2>5. Differ(v, p, ChainFields) /\ Calm(G, v, p)
    <3>1. WinFields \subseteq ChainFields
      BY Zenon DEF ChainFields, ReadFields
    <3>2. Differ(g, p, ChainFields)
      BY <2>4, <3>1, DifferMore, Zenon
    <3> QED
      BY <1>3, <2>4, <3>2, DifferTwice, Zenon DEF Serves, Calm
  <2>6. CASE p.res # "OK"
    <3>1. ~Quiet(v)
      BY <1>2, <2>4, <2>6, Zenon DEF Unhurt, Calm
    <3> QED
      BY <2>2, <2>4, <2>5, <2>6, <3>1, Zenon DEF Serves, CountStays
  <2>7. CASE p.res = "OK"
    <3>1. p.free_clst = g.free_clst /\ g.free_clst = v.free_clst /\ v.n_fatent = g.n_fatent
      <4>1. "free_clst" \notin WinFields /\ "free_clst" \in VolFields
        BY Zenon DEF WinFields, VolFields
      <4>2. "free_clst" \notin ReadFields
        BY Zenon DEF ReadFields, WinFields
      <4>3. p["free_clst"] = g["free_clst"] /\ g["free_clst"] = v["free_clst"]
        BY <1>2, <2>4, <4>1, <4>2, Zenon DEF Differ, Unhurt
      <4>4. v.n_fatent = g.n_fatent
        <5>1. HasGeo(G, v) /\ HasGeo(G, g)
          BY <1>3, Zenon DEF Good
        <5>2. v.n_fatent = G.n_fatent /\ g.n_fatent = G.n_fatent
          BY <5>1, GeoIs
        <5> QED
          BY <5>2
      <4> QED
        BY <4>3, <4>4
    <3>2. FatEntry(g, v.val) # 0
      <4>1. FatEntry(g, v.val) = FatEntry(v, v.val)
        <5> HIDE DEF q, u
        <5>1. HasGeo(G, v) /\ HasGeo(G, g) /\ FatSame(G, v, g)
          BY <1>2, <1>3, Zenon DEF Unhurt, Good
        <5>2. PICK c : c = v.val
          OBVIOUS
        <5>3. FatEntry(g, c) = FatEntry(v, c)
          BY <2>3, <5>1, <5>2, EntrySame
        <5> QED
          BY <5>2, <5>3, Zenon
      <4> QED
        BY <1>5, <2>3, <4>1
    <3>3. (Exact(g) => Exact(q)) /\ Good(G, q) /\ Differ(p, q, ChainFields) /\ Calm(G, p, q)
      BY <1>3, <2>4, <2>7, <3>1, <3>2, FreedCount
    <3> HIDE DEF q
    <3>4. Serves(G, v, q, ChainFields)
      <4>1. Differ(v, q, ChainFields)
        BY <2>5, <3>3, DifferTwice, Zenon
      <4>2. Calm(G, v, q)
        BY <2>5, <3>3, Zenon DEF Calm
      <4>3. CountStays(v, q)
        BY <1>3, <3>3, Zenon DEF CountStays, Serves
      <4> QED
        BY <3>3, <4>1, <4>2, <4>3, Zenon DEF Serves
    <3>5. Serves(G, q, u, ChainFields)
      BY <3>3, ResUnhurt, ValUnhurt, ReadServes, Zenon
    <3> HIDE DEF u
    <3> QED
      BY <2>2, <2>7, <3>4, <3>5, ServesTwice, Zenon
  <2> QED
    BY <2>6, <2>7
<1> QED
  BY <1>4, <1>5

LEMMA ServesStays ==
  ASSUME NEW G, NEW v, Good(G, v), NEW F PROVE Serves(G, v, v, F)
<1>1. Differ(v, v, F)
  BY GoodIsVol, Zenon DEF Differ
<1> QED
  BY <1>1, Zenon DEF Serves, Calm, CountStays

LEMMA AllNumbers ==
  \A T : 0 \in T /\ (\A k \in Nat : k \in T => k + 1 \in T) => Nat \subseteq T
<1> SUFFICES ASSUME NEW T, 0 \in T, \A k \in Nat : k \in T => k + 1 \in T, Nat \ T # {}
             PROVE  FALSE
  BY Zenon
<1>1. IsWellFoundedOn(OpToRel(<, Nat), Nat)
  BY NatLessThanWellFounded
<1>2. PICK m \in Nat \ T : \A k \in Nat \ T : ~(<<k, m>> \in OpToRel(<, Nat))
  BY <1>1, WFMin
<1>3. m \in Nat /\ m # 0 /\ m \notin T
  BY <1>2
<1>4. m - 1 \in Nat /\ m - 1 < m /\ (m - 1) + 1 = m
  BY <1>3
<1>5. m - 1 \in T
  BY <1>2, <1>4 DEF OpToRel
<1> QED
  BY <1>3, <1>4, <1>5

(* The loop of remove_chain.                                               *)
FreeStep(c, i, s)  == IF s.res = "OK" THEN FreeOne(s) ELSE s
FreeKeeps(c, i, s) == Serves(c.G, c.v, s, ChainFields)
FreeLoop == INSTANCE Loops WITH Step <- FreeStep, Keeps <- FreeKeeps

LEMMA FreeAllServes ==
  ASSUME NEW G, GeoOK(G), NEW v, Good(G, v), NEW n \in Nat
  PROVE  Serves(G, v, While(LAMBDA w : w.res = "OK", FreeOne, v, n), ChainFields)
<1>1. PICK c : c = [G |-> G, v |-> v]
  OBVIOUS
<1>2. c.G = G /\ c.v = v
  BY <1>1
<1>3. FreeKeeps(c, 0, v)
  BY <1>2, ServesStays, Zenon DEF FreeKeeps
<1>4. ASSUME NEW i \in 1 .. n, NEW s, FreeKeeps(c, i - 1, s) PROVE FreeKeeps(c, i, FreeStep(c, i, s))
  <2>1. Serves(G, v, s, ChainFields)
    BY <1>2, <1>4, Zenon DEF FreeKeeps
  <2>2. Serves(G, s, FreeOne(s), ChainFields)
    BY <2>1, FreeOneServes, Zenon DEF Serves
  <2> QED
    BY <1>2, <2>1, <2>2, ServesTwice, Zenon DEF FreeKeeps, FreeStep
<1>5. FreeKeeps(c, n, FreeLoop!Track(c, v, n)[n])
  BY <1>3, <1>4, FreeLoop!LoopKeeps, AllNumbers, Zenon
<1>6. FreeLoop!Track(c, v, n)[n] = While(LAMBDA w : w.res = "OK", FreeOne, v, n)
  BY DEF FreeLoop!Track, While, FreeStep
<1> QED
  BY <1>2, <1>5, <1>6, Zenon DEF FreeKeeps

LEMMA EocIs ==
  ASSUME NEW G, GeoOK(G), NEW v, HasGeo(G, v)
  PROVE  EOC(v) \in Nat /\ EOC(v) # 0 /\ (G.fs_type = "FAT12" => EOC(v) \in Bits12)
<1>1. G.fs_type \in {"FAT12", "FAT16", "FAT32"} /\ v.fs_type = G.fs_type
  BY GeoIs, Zenon DEF GeoOK
<1> QED
  BY <1>1 DEF EOC, Bits12

LEMMA RemoveServes ==
  ASSUME NEW G, GeoOK(G), NEW v, Good(G, v), NEW clst, NEW pclst,
         Quiet(v) /\ pclst \in Clusters(G) => FatEntry(v, pclst) # 0
  PROVE  Serves(G, v, remove_chain(v, clst, pclst), ChainFields)
<1>1. CASE ~IsCluster(v, clst)
  BY <1>1, ResUnhurt, ReadServes, Zenon DEF remove_chain
<1>2. CASE IsCluster(v, clst)
  <2>1. PICK p : p = IF pclst = 0 THEN Ok(v) ELSE put_fat(v, pclst, EOC(v))
    OBVIOUS
  <2>2. HasGeo(G, v) /\ v.n_fatent \in Nat
    <3>1. HasGeo(G, v)
      BY Zenon DEF Good
    <3> QED
      BY <3>1, GeoIs DEF GeoOK
  <2>3. Serves(G, v, p, ChainFields)
    <3>1. CASE pclst = 0
      BY <2>1, <3>1, ResUnhurt, ReadServes, Zenon
    <3>2. CASE pclst # 0
      <4>1. /\ Differ(v, p, WinFields) /\ Good(G, p) /\ Calm(G, v, p)
            /\ p.res = "OK" => PutOne(G, v, p, pclst, EOC(v))
            /\ pclst \notin Clusters(G) => Unhurt(G, v, p, WinFields)
            /\ Quiet(v) /\ pclst \in Clusters(G) => p.res = "OK"
        <5>1. EOC(v) \in Nat /\ (G.fs_type = "FAT12" => EOC(v) \in Bits12)
          BY <2>2, EocIs
        <5>2. p = put_fat(v, pclst, EOC(v))
          BY <2>1, <3>2
        <5> QED
          BY <5>1, <5>2, PutIs
      <4>2. CASE pclst \notin Clusters(G)
        BY <4>1, <4>2, ReadServes, Zenon
      <4>3. CASE pclst \in Clusters(G)
        <5>1. CountStays(v, p)
          <6> SUFFICES ASSUME Quiet(v), Exact(v) PROVE Exact(p)
            BY Zenon DEF CountStays
          <6>1. PutOne(G, v, p, pclst, EOC(v)) /\ FatEntry(v, pclst) # 0
            BY <4>1, <4>3, Zenon
          <6>2. EOC(v) # 0 /\ HasGeo(G, p)
            BY <2>2, <4>1, EocIs, Zenon DEF Good
          <6>3. Cardinality(FreeClusters(p)) = Cardinality(FreeClusters(v))
            BY <2>2, <6>1, <6>2, PutCount
          <6>4. p.free_clst = v.free_clst /\ p.n_fatent = v.n_fatent
            BY <4>1, Zenon DEF Differ, VolFields, WinFields
          <6> QED
            BY <6>3, <6>4, Zenon DEF Exact, CountKnown
        <5>2. WinFields \subseteq ChainFields
          BY Zenon DEF ChainFields, ReadFields
        <5> QED
          BY <4>1, <5>1, <5>2, DifferMore, Zenon DEF Serves
      <4> QED
        BY <4>2, <4>3
    <3> QED
      BY <3>1, <3>2
  <2>4. CASE p.res # "OK"
    <3>1. remove_chain(v, clst, pclst) = p
      BY <1>2, <2>1, <2>4, Zenon DEF remove_chain, IfOk
    <3> QED
      BY <2>3, <3>1, Zenon
  <2>5. CASE p.res = "OK"
    <3>1. PICK s : s = Returns(p, clst)
      OBVIOUS
    <3>2. PICK r : r = While(LAMBDA w : w.res = "OK", FreeOne, s, v.n_fatent)
      OBVIOUS
    <3>3. remove_chain(v, clst, pclst) = IF r.res = "DONE" THEN Ok(r) ELSE r
      BY <1>2, <2>1, <2>5, <3>1, <3>2 DEF remove_chain, IfOk, After
    <3>4. Good(G, p) /\ Serves(G, p, s, ChainFields)
      BY <2>3, <3>1, ValUnhurt, ReadServes, Zenon DEF Serves
    <3>5. Serves(G, s, r, ChainFields)
      <4>1. Good(G, s)
        BY <3>4, Zenon DEF Serves
      <4> QED
        BY <2>2, <3>2, <4>1, FreeAllServes
    <3>6. Serves(G, r, Ok(r), ChainFields)
      BY <3>5, ResUnhurt, ReadServes, Zenon DEF Serves
    <3> QED
      BY <2>3, <3>3, <3>4, <3>5, <3>6, ServesTwice, Zenon
  <2> QED
    BY <2>4, <2>5
<1> QED
  BY <1>1, <1>2

(* A round of the search for a free cluster: what was found is free.       *)
IsSearch(s) == s = [vol |-> s.vol, cand |-> s.cand, found |-> s.found]

FreeFound(G, v, s) ==
  /\ IsSearch(s) /\ Unhurt(G, v, s.vol, ReadFields)
  /\ s.found \in Clusters(G) => FatEntry(s.vol, s.found) = 0

LEMMA Below12 == \A n \in Bits12 : \A c \in 2 .. n - 1 : c \in Bits12
  BY SMTT(30) DEF Bits12

LEMMA ClustersAre ==
  ASSUME NEW G, GeoOK(G)
  PROVE  /\ 0 \notin Clusters(G) /\ 1 \notin Clusters(G) /\ DISK \notin Clusters(G)
         /\ SEARCHING \notin Clusters(G) /\ Clusters(G) \subseteq Nat
         /\ G.fs_type = "FAT12" => Clusters(G) \subseteq Bits12
<1>1. G.n_fatent \in Nat /\ (G.fs_type = "FAT12" => G.n_fatent \in Bits12)
  BY DEF GeoOK
<1>2. 0 \notin Clusters(G) /\ 1 \notin Clusters(G) /\ Clusters(G) \subseteq Nat
  BY <1>1 DEF Clusters
<1>3. G.fs_type = "FAT12" => Clusters(G) \subseteq Bits12
  <2> SUFFICES ASSUME G.fs_type = "FAT12", NEW c \in Clusters(G) PROVE c \in Bits12
    OBVIOUS
  <2>1. PICK n : n = G.n_fatent
    OBVIOUS
  <2>2. n \in Bits12 /\ c \in 2 .. n - 1
    BY <1>1, <2>1, Zenon DEF Clusters
  <2> QED
    BY <2>2, Below12, Zenon
<1> QED
  BY <1>2, <1>3, StatusApart, Zenon

LEMMA GetFree0 ==
  ASSUME NEW G, GeoOK(G), NEW v, Good(G, v), NEW c, NEW w, w = get_fat(v, c), w.val = 0
  PROVE  c \in Clusters(G) /\ FatEntry(w, c) = 0
<1>1. /\ Unhurt(G, v, w, ReadFields)
      /\ c \notin Clusters(G) => w.val = 1
      /\ c \in Clusters(G) => w.val = FatEntry(v, c) \/ w.val = DISK
  BY GetIs
<1>2. c \in Clusters(G) /\ FatEntry(v, c) = 0
  BY <1>1, StatusApart
<1>3. HasGeo(G, v) /\ HasGeo(G, w) /\ FatSame(G, v, w)
  BY <1>1, Zenon DEF Unhurt, Good
<1> QED
  BY <1>2, <1>3, EntrySame

LEMMA LookFinds ==
  ASSUME NEW G, GeoOK(G), NEW v, NEW s, FreeFound(G, v, s), NEW ncl, NEW scl
  PROVE  FreeFound(G, v, LookAt(s, ncl, scl))
<1>1. PICK g : g = get_fat(s.vol, ncl)
  OBVIOUS
<1>2. PICK n : n = CASE g.val = 0           -> ncl
                     [] g.val \in {1, DISK} -> g.val
                     [] OTHER -> IF ncl = scl THEN 0 ELSE SEARCHING
  OBVIOUS
<1>3. LookAt(s, ncl, scl) = [vol |-> g, cand |-> ncl, found |-> n]
  BY <1>1, <1>2 DEF LookAt, After
<1>4. Good(G, s.vol) /\ Unhurt(G, v, s.vol, ReadFields)
  BY Zenon DEF FreeFound, Unhurt
<1>5. Unhurt(G, v, g, ReadFields)
  <2>1. Unhurt(G, s.vol, g, ReadFields)
    BY <1>1, <1>4, GetIs
  <2> QED
    BY <1>4, <2>1, UnhurtTwice, Zenon
<1>6. n \in Clusters(G) => FatEntry(g, n) = 0
  <2>1. CASE g.val = 0
    <3>1. FatEntry(g, ncl) = 0
      BY <1>1, <1>4, <2>1, GetFree0, Zenon
    <3>2. n = ncl
      BY <1>2, <2>1, StatusApart
    <3> QED
      BY <3>1, <3>2, Zenon
  <2>2. CASE g.val # 0
    <3>1. n \in {0, 1, DISK, SEARCHING}
      BY <1>2, <2>2
    <3> QED
      BY <3>1, ClustersAre
  <2> QED
    BY <2>1, <2>2
<1>7. PICK t : t = [vol |-> g, cand |-> ncl, found |-> n]
  OBVIOUS
<1>8. t.vol = g /\ t.found = n /\ IsSearch(t)
  BY <1>7, Zenon DEF IsSearch
<1> QED
  BY <1>3, <1>5, <1>6, <1>7, <1>8, Zenon DEF FreeFound

(* The loop of the search.                                                 *)
SearchRound(v, scl, s) ==
  After(NextCandidate(v, s.cand, scl), LAMBDA ncl :
    IF ncl = 0 THEN [s EXCEPT !.found = 0] ELSE LookAt(s, ncl, scl))

SearchStep(c, i, s)  == IF s.found = SEARCHING THEN SearchRound(c.v, c.scl, s) ELSE s
SearchKeeps(c, i, s) == FreeFound(c.G, c.v, s)
SearchLoop == INSTANCE Loops WITH Step <- SearchStep, Keeps <- SearchKeeps

LEMMA RoundFinds ==
  ASSUME NEW G, GeoOK(G), NEW v, NEW s, FreeFound(G, v, s), NEW scl
  PROVE  FreeFound(G, v, SearchRound(v, scl, s))
<1>1. PICK ncl : ncl = NextCandidate(v, s.cand, scl)
  OBVIOUS
<1>2. CASE ncl = 0
  <2>1. SearchRound(v, scl, s) = [s EXCEPT !.found = 0]
    BY <1>1, <1>2, Zenon DEF SearchRound, After
  <2>2. PICK t : t = [s EXCEPT !.found = 0]
    OBVIOUS
  <2>3. t.vol = s.vol /\ t.found = 0 /\ IsSearch(t)
    BY <2>2, Zenon DEF FreeFound, IsSearch
  <2> QED
    BY <2>1, <2>2, <2>3, ClustersAre, Zenon DEF FreeFound
<1>3. CASE ncl # 0
  <2>1. SearchRound(v, scl, s) = LookAt(s, ncl, scl)
    BY <1>1, <1>3, Zenon DEF SearchRound, After
  <2> QED
    BY <2>1, LookFinds, Zenon
<1> QED
  BY <1>2, <1>3

LEMMA SearchIs ==
  ASSUME NEW G, GeoOK(G), NEW v, Good(G, v), NEW scl
  PROVE  LET w == SearchFree(v, scl) IN
         /\ Unhurt(G, v, w, ReadFields)
         /\ w.val \in Clusters(G) => FatEntry(w, w.val) = 0
<1>1. PICK c : c = [G |-> G, v |-> v, scl |-> scl]
  OBVIOUS
<1>2. c.G = G /\ c.v = v /\ c.scl = scl
  BY <1>1
<1> DEFINE start == [vol |-> v, cand |-> scl, found |-> SEARCHING]
           end   == SearchLoop!Track(c, start, v.n_fatent)[v.n_fatent]
<1>3. SearchKeeps(c, 0, start)
  <2>1. PICK t : t = [vol |-> v, cand |-> scl, found |-> SEARCHING]
    OBVIOUS
  <2>2. t.vol = v /\ t.found = SEARCHING /\ IsSearch(t)
    BY <2>1, Zenon DEF IsSearch
  <2>3. Unhurt(G, v, v, ReadFields)
    BY GoodIsVol, Zenon DEF Unhurt, Differ, FatSame, Calm
  <2>4. FreeFound(G, v, t)
    BY <2>2, <2>3, ClustersAre, Zenon DEF FreeFound
  <2> QED
    BY <1>2, <2>1, <2>4, Zenon DEF SearchKeeps
<1> HIDE DEF start
<1>4. ASSUME NEW i \in 1 .. v.n_fatent, NEW s, SearchKeeps(c, i - 1, s)
      PROVE  SearchKeeps(c, i, SearchStep(c, i, s))
  <2>1. FreeFound(G, v, s)
    BY <1>2, <1>4, Zenon DEF SearchKeeps
  <2>2. FreeFound(G, v, SearchRound(v, scl, s))
    BY <2>1, RoundFinds, Zenon
  <2> QED
    BY <1>2, <2>1, <2>2, Zenon DEF SearchKeeps, SearchStep
<1>5. v.n_fatent \in Nat
  <2>1. HasGeo(G, v)
    BY Zenon DEF Good
  <2> QED
    BY <2>1, GeoIs DEF GeoOK
<1>6. SearchKeeps(c, v.n_fatent, end)
  BY <1>3, <1>4, <1>5, SearchLoop!LoopKeeps, AllNumbers, Zenon
<1>7. SearchFree(v, scl) = Returns(end.vol, end.found)
  BY <1>2 DEF SearchFree, start, SearchLoop!Track, While, SearchStep, SearchRound, After
<1> HIDE DEF end
<1>8. FreeFound(G, v, end)
  BY <1>2, <1>6, Zenon DEF SearchKeeps
<1>9. PICK w : w = Returns(end.vol, end.found)
  OBVIOUS
<1>12. Good(G, end.vol) /\ Unhurt(G, v, end.vol, ReadFields)
  BY <1>8, Zenon DEF FreeFound, Unhurt
<1>10. Unhurt(G, v, end.vol, ReadFields) /\ Unhurt(G, end.vol, w, ReadFields) /\ w.val = end.found
  <2>1. PICK u : u = end.vol
    OBVIOUS
  <2>2. PICK k : k = end.found
    OBVIOUS
  <2>3. w = Returns(u, k) /\ Good(G, u)
    BY <1>9, <1>12, <2>1, <2>2, Zenon
  <2>4. Unhurt(G, u, w, ReadFields) /\ w.val = k
    BY <2>3, ValUnhurt
  <2> QED
    BY <1>12, <2>1, <2>2, <2>4, Zenon
<1>11. ASSUME w.val \in Clusters(G) PROVE FatEntry(w, w.val) = 0
  <2>1. HasGeo(G, end.vol) /\ HasGeo(G, w) /\ FatSame(G, end.vol, w)
    BY <1>10, Zenon DEF Unhurt, Good
  <2>2. PICK k : k = w.val
    OBVIOUS
  <2>3. FatEntry(w, k) = FatEntry(end.vol, k)
    BY <1>11, <2>1, <2>2, EntrySame
  <2> QED
    BY <1>8, <1>10, <1>11, <2>2, <2>3, Zenon DEF FreeFound
<1> QED
  BY <1>7, <1>9, <1>10, <1>11, UnhurtTwice, Zenon

(* A cluster to continue with is a free one.                               *)
LEMMA FreeClusterIs ==
  ASSUME NEW G, GeoOK(G), NEW v, Good(G, v), NEW clst
  PROVE  LET w == FreeCluster(v, clst) IN
         /\ Unhurt(G, v, w, ReadFields)
         /\ w.val \in Clusters(G) => FatEntry(w, w.val) = 0
<1>1. PICK next : next = IF clst + 1 < v.n_fatent THEN clst + 1 ELSE 2
  OBVIOUS
<1>2. PICK from : from = IF v.last_clst \in 1 .. v.n_fatent - 1 THEN v.last_clst ELSE 1
  OBVIOUS
<1>3. PICK hint : hint = IF v.last_clst \in 2 .. v.n_fatent - 1 THEN v.last_clst ELSE clst
  OBVIOUS
<1>4. PICK n : n = get_fat(v, next)
  OBVIOUS
<1>5. FreeCluster(v, clst) =
        IF clst = 0 THEN SearchFree(v, from)
        ELSE CASE n.val = 0           -> Returns(n, next)
               [] n.val \in {1, DISK} -> n
               [] OTHER               -> SearchFree(n, hint)
  BY <1>1, <1>2, <1>3, <1>4 DEF FreeCluster, After
<1>6. CASE clst = 0
  <2>1. FreeCluster(v, clst) = SearchFree(v, from)
    BY <1>5, <1>6
  <2> QED
    BY <2>1, SearchIs
<1>7. CASE clst # 0
  <2>1. Unhurt(G, v, n, ReadFields) /\ Good(G, n)
    <3>1. Unhurt(G, v, n, ReadFields)
      BY <1>4, GetIs
    <3> QED
      BY <3>1, Zenon DEF Unhurt
  <2>2. CASE n.val = 0
    <3>1. PICK w : w = Returns(n, next)
      OBVIOUS
    <3>2. FreeCluster(v, clst) = w
      BY <1>5, <1>7, <2>2, <3>1, StatusApart
    <3>3. Unhurt(G, n, w, ReadFields) /\ w.val = next
      BY <2>1, <3>1, ValUnhurt
    <3>4. next \in Clusters(G) /\ FatEntry(n, next) = 0
      BY <1>4, <2>2, GetFree0
    <3>5. HasGeo(G, n) /\ HasGeo(G, w) /\ FatSame(G, n, w)
      BY <2>1, <3>3, Zenon DEF Unhurt, Good
    <3>6. FatEntry(w, next) = FatEntry(n, next)
      BY <3>4, <3>5, EntrySame
    <3> QED
      BY <2>1, <3>2, <3>3, <3>4, <3>6, UnhurtTwice, Zenon
  <2>3. CASE n.val \in {1, DISK}
    <3>1. FreeCluster(v, clst) = n
      BY <1>5, <1>7, <2>3, StatusApart
    <3>2. n.val \notin Clusters(G)
      BY <2>3, ClustersAre
    <3> QED
      BY <2>1, <3>1, <3>2, Zenon
  <2>4. CASE n.val \notin {0, 1, DISK}
    <3>1. PICK w : w = SearchFree(n, hint)
      OBVIOUS
    <3>2. FreeCluster(v, clst) = w
      BY <1>5, <1>7, <2>4, <3>1
    <3>3. Unhurt(G, n, w, ReadFields) /\ (w.val \in Clusters(G) => FatEntry(w, w.val) = 0)
      BY <2>1, <3>1, SearchIs
    <3> QED
      BY <2>1, <3>2, <3>3, UnhurtTwice, Zenon
  <2> QED
    BY <2>2, <2>3, <2>4
<1> QED
  BY <1>6, <1>7

(* A link behind clst, which was the end of a chain, leaves the count.     *)
LEMMA LinkBehind ==
  ASSUME NEW G, GeoOK(G), NEW v, Good(G, v), NEW clst, NEW ncl \in Clusters(G),
         clst \in Clusters(G) => FatEntry(v, clst) # 0, NEW l, l = put_fat(v, clst, ncl)
  PROVE  /\ Differ(v, l, WinFields) /\ Good(G, l) /\ Calm(G, v, l)
         /\ l.res \in {"OK", "DISK_ERR", "INT_ERR"}
         /\ Quiet(v) /\ clst \in Clusters(G) => l.res = "OK"
         /\ l.res = "OK" => Cardinality(FreeClusters(l)) = Cardinality(FreeClusters(v))
<1>1. ncl \in Nat /\ ncl # 0 /\ (G.fs_type = "FAT12" => ncl \in Bits12)
  BY ClustersAre
<1>2. /\ Differ(v, l, WinFields) /\ Good(G, l) /\ Calm(G, v, l)
      /\ l.res \in {"OK", "DISK_ERR", "INT_ERR"}
      /\ l.res = "OK" => PutOne(G, v, l, clst, ncl)
      /\ clst \notin Clusters(G) => l.res = "INT_ERR"
      /\ Quiet(v) /\ clst \in Clusters(G) => l.res = "OK"
  BY <1>1, PutIs
<1>3. ASSUME l.res = "OK" PROVE Cardinality(FreeClusters(l)) = Cardinality(FreeClusters(v))
  <2>1. PutOne(G, v, l, clst, ncl) /\ FatEntry(v, clst) # 0
    BY <1>2, <1>3
  <2>2. HasGeo(G, v) /\ HasGeo(G, l)
    BY <1>2, Zenon DEF Good
  <2> QED
    BY <1>1, <2>1, <2>2, PutCount
<1> QED
  BY <1>2, <1>3, Zenon

LEMMA WinServes ==
  ASSUME NEW G, NEW v, NEW w, Differ(v, w, WinFields), Good(G, w), Calm(G, v, w), CountStays(v, w)
  PROVE  Serves(G, v, w, ChainFields)
<1>1. WinFields \subseteq ChainFields
  BY Zenon DEF ChainFields, ReadFields
<1> QED
  BY <1>1, DifferMore, Zenon DEF Serves

LEMMA LinkServes ==
  ASSUME NEW G, GeoOK(G), NEW v, Good(G, v), NEW ncl, NEW clst,
         ncl \in Clusters(G) => FatEntry(v, ncl) = 0,
         clst = 0 \/ (clst \in Clusters(G) /\ FatEntry(v, clst) # 0)
  PROVE  LET w == LinkNew(v, ncl, clst) IN
         /\ Serves(G, v, w, ChainFields)
         /\ w.val \in {1, DISK} \cup {c \in Clusters(G) : c = ncl}
<1>1. PICK m : m = put_fat(v, ncl, EOC(v))
  OBVIOUS
<1>2. PICK l : l = IF m.res = "OK" THEN (IF clst # 0 THEN put_fat(m, clst, ncl) ELSE m) ELSE m
  OBVIOUS
<1>3. PICK t : t = [l EXCEPT !.last_clst = ncl]
  OBVIOUS
<1>4. PICK c : c = Returns(t, ncl)
  OBVIOUS
<1> DEFINE q == IF c.free_clst \in 1 .. v.n_fatent - 2
                  THEN Changed([c EXCEPT !.free_clst = c.free_clst - 1]) ELSE c
<1>5. LinkNew(v, ncl, clst) =
        IF l.res = "OK" THEN q ELSE Returns(l, IF l.res = "DISK_ERR" THEN DISK ELSE 1)
  BY <1>1, <1>2, <1>3, <1>4 DEF LinkNew, After, IfOk
<1>6. HasGeo(G, v) /\ v.n_fatent = G.n_fatent
  <2>1. HasGeo(G, v)
    BY Zenon DEF Good
  <2> QED
    BY <2>1, GeoIs
<1>7. /\ Differ(v, m, WinFields) /\ Good(G, m) /\ Calm(G, v, m)
      /\ m.res = "OK" => PutOne(G, v, m, ncl, EOC(v))
      /\ ncl \notin Clusters(G) => Unhurt(G, v, m, WinFields) /\ m.res = "INT_ERR"
      /\ Quiet(v) /\ ncl \in Clusters(G) => m.res = "OK"
  <2>1. EOC(v) \in Nat /\ (G.fs_type = "FAT12" => EOC(v) \in Bits12)
    BY <1>6, EocIs
  <2> QED
    BY <1>1, <2>1, PutIs
<1> HIDE DEF q
<1>8. CASE m.res # "OK"
  <2>1. l = m /\ LinkNew(v, ncl, clst) = Returns(m, IF m.res = "DISK_ERR" THEN DISK ELSE 1)
    BY <1>2, <1>5, <1>8
  <2>2. Serves(G, v, m, ChainFields)
    <3>1. CASE ncl \notin Clusters(G)
      BY <1>7, <3>1, ReadServes, Zenon
    <3>2. CASE ncl \in Clusters(G)
      BY <1>7, <1>8, <3>2, WinServes, Zenon DEF CountStays
    <3> QED
      BY <3>1, <3>2
  <2>3. PICK k : k = IF m.res = "DISK_ERR" THEN DISK ELSE 1
    OBVIOUS
  <2>4. Serves(G, m, Returns(m, k), ChainFields) /\ Returns(m, k).val = k
    BY <1>7, ValUnhurt, ReadServes, Zenon
  <2>5. k \in {1, DISK}
    BY <2>3
  <2> QED
    BY <2>1, <2>2, <2>3, <2>4, <2>5, ServesTwice, Zenon
<1>9. CASE m.res = "OK"
  <2>1. ncl \in Clusters(G) /\ FatEntry(v, ncl) = 0 /\ PutOne(G, v, m, ncl, EOC(v)) /\ HasGeo(G, m)
    BY <1>7, <1>9, Zenon DEF Good
  <2>2. Cardinality(FreeClusters(v)) = Cardinality(FreeClusters(m)) + 1
    <3>1. EOC(v) # 0
      BY <1>6, EocIs
    <3> QED
      BY <1>6, <2>1, <3>1, PutCount
  <2>3. clst \in Clusters(G) => FatEntry(m, clst) # 0
    <3>1. EOC(v) # 0
      BY <1>6, EocIs
    <3> QED
      BY <2>1, <3>1, ClustersAre DEF PutOne
  <2>4. /\ Differ(m, l, WinFields) /\ Good(G, l) /\ Calm(G, m, l)
        /\ l.res \in {"OK", "DISK_ERR", "INT_ERR"}
        /\ Quiet(m) => l.res = "OK"
        /\ l.res = "OK" => Cardinality(FreeClusters(l)) = Cardinality(FreeClusters(m))
    <3>1. CASE clst = 0
      <4>1. l = m /\ IsVol(m)
        BY <1>2, <1>7, <1>9, <3>1, Zenon DEF Differ
      <4> QED
        BY <1>7, <1>9, <4>1, Zenon DEF Differ, Calm
    <3>2. CASE clst # 0
      <4>1. l = put_fat(m, clst, ncl) /\ clst \in Clusters(G)
        BY <1>2, <1>9, <3>2
      <4> QED
        BY <1>7, <2>1, <2>3, <4>1, LinkBehind
    <3> QED
      BY <3>1, <3>2
  <2>5. Differ(v, l, WinFields) /\ Calm(G, v, l)
    BY <1>7, <2>4, DifferTwice, Zenon DEF Calm
  <2>6. CASE l.res # "OK"
    <3>1. CountStays(v, l)
      BY <1>7, <2>4, <2>6, Zenon DEF CountStays, Calm
    <3>2. Serves(G, v, l, ChainFields)
      BY <2>4, <2>5, <3>1, WinServes, Zenon
    <3>3. PICK k : k = IF l.res = "DISK_ERR" THEN DISK ELSE 1
      OBVIOUS
    <3>4. Serves(G, l, Returns(l, k), ChainFields) /\ Returns(l, k).val = k
      BY <2>4, ValUnhurt, ReadServes, Zenon
    <3>5. k \in {1, DISK}
      BY <3>3
    <3>6. LinkNew(v, ncl, clst) = Returns(l, k)
      BY <1>5, <2>6, <3>3
    <3> QED
      BY <3>2, <3>4, <3>5, <3>6, ServesTwice, Zenon
  <2>7. CASE l.res = "OK"
    <3>1. IsVol(l)
      BY <2>4, Zenon DEF Differ
    <3>2. Differ(l, t, {"last_clst"}) /\ t.last_clst = ncl /\ IsVol(t)
      BY <1>3, <3>1, Zenon DEF Differ, IsVol, VolFields
    <3>3. Differ(t, c, {"val"}) /\ c.val = ncl
      BY <1>4, <3>2, ValIs, Zenon
    <3> DEFINE F == {"last_clst", "val"}
    <3>4. Differ(l, c, F)
      BY <3>2, <3>3, Zenon DEF Differ
    <3>5. F \cap GeoFields = {} /\ F \cap {"disk", "fuel", "wflag", "win", "winsect"} = {} /\ F \subseteq ChainFields
      BY Zenon DEF GeoFields, ChainFields, ReadFields
    <3>6. "free_clst" \notin F
      OBVIOUS
    <3> HIDE DEF F
    <3>7. Unhurt(G, l, c, F)
      BY <2>4, <3>4, <3>5, RegisterUnhurt, Zenon
    <3>8. Good(G, c) /\ HasGeo(G, l) /\ HasGeo(G, c) /\ FatSame(G, l, c)
      BY <2>4, <3>7, Zenon DEF Unhurt, Good
    <3>9. FreeClusters(c) = FreeClusters(l)
      BY <3>8, FreeSame
    <3>10. c.free_clst = v.free_clst
      <4>1. "free_clst" \notin WinFields /\ "free_clst" \in VolFields
        BY Zenon DEF WinFields, VolFields
      <4>2. c["free_clst"] = l["free_clst"] /\ l["free_clst"] = v["free_clst"]
        BY <2>5, <3>4, <3>6, <4>1, Zenon DEF Differ
      <4> QED
        BY <4>2
    <3>11. Cardinality(FreeClusters(v)) = Cardinality(FreeClusters(c)) + 1
      BY <2>2, <2>4, <2>7, <3>9
    <3>12. (Exact(v) => Exact(q)) /\ Good(G, q) /\ Differ(c, q, ChainFields) /\ Calm(G, c, q)
      BY <1>6, <3>8, <3>10, <3>11, TakenCount DEF q
    <3>13. Differ(v, q, ChainFields)
      <4>1. Differ(l, c, ChainFields)
        BY <3>4, <3>5, DifferMore, Zenon
      <4>2. Differ(v, l, ChainFields)
        BY <2>4, <2>5, DifferMore, Zenon DEF ChainFields, ReadFields
      <4> QED
        BY <3>12, <4>1, <4>2, DifferTwice, Zenon
    <3>14. Calm(G, v, q)
      BY <2>5, <3>7, <3>12, Zenon DEF Calm, Unhurt
    <3>15. Serves(G, v, q, ChainFields)
      BY <3>12, <3>13, <3>14, Zenon DEF Serves, CountStays
    <3>16. q.val = ncl
      <4>1. CASE c.free_clst \in 1 .. v.n_fatent - 2
        <5> DEFINE u == [c EXCEPT !.free_clst = c.free_clst - 1]
        <5>1. q = Changed(u)
          BY <4>1 DEF q
        <5>2. PICK x : x = c.free_clst - 1
          OBVIOUS
        <5>3. CountSet(c, u, x)
          BY <3>8, <5>2, CountSetIs
        <5> HIDE DEF u
        <5> QED
          BY <3>3, <3>8, <5>1, <5>3, AdjustIs
      <4>2. CASE ~(c.free_clst \in 1 .. v.n_fatent - 2)
        BY <3>3, <4>2, Zenon DEF q
      <4> QED
        BY <4>1, <4>2
    <3>17. LinkNew(v, ncl, clst) = q
      BY <1>5, <2>7
    <3> QED
      BY <2>1, <3>15, <3>16, <3>17
  <2> QED
    BY <2>6, <2>7
<1> QED
  BY <1>8, <1>9

LEMMA CreateServes ==
  ASSUME NEW G, GeoOK(G), NEW v, Good(G, v), NEW clst
  PROVE  LET w == create_chain(v, clst) IN
         /\ Serves(G, v, w, ChainFields)
         /\ w.val \in {0, 1, DISK} \cup Clusters(G)
<1>1. PICK g : g = IF clst = 0 THEN Returns(v, EOC(v)) ELSE get_fat(v, clst)
  OBVIOUS
<1>2. PICK f : f = FreeCluster(g, clst)
  OBVIOUS
<1>3. create_chain(v, clst) =
        IF g.val \in {0, 1} THEN Returns(g, 1)
        ELSE IF g.val = DISK \/ g.val < v.n_fatent THEN g
        ELSE IF v.free_clst = 0 THEN Returns(g, 0)
        ELSE IF f.val \in {0, 1, DISK} THEN f ELSE LinkNew(f, f.val, clst)
  BY <1>1, <1>2, Zenon DEF create_chain, After
<1>4. HasGeo(G, v) /\ v.n_fatent = G.n_fatent /\ G.n_fatent \in Nat
  <2>1. HasGeo(G, v)
    BY Zenon DEF Good
  <2> QED
    BY <2>1, GeoIs DEF GeoOK
<1>5. /\ Unhurt(G, v, g, ReadFields) /\ g.val \in Nat \cup {DISK}
      /\ g.val \notin {0, 1, DISK} => clst = 0 \/ (clst \in Clusters(G) /\ FatEntry(v, clst) # 0)
  <2>1. CASE clst = 0
    <3>1. EOC(v) \in Nat
      BY <1>4, EocIs
    <3>2. g = Returns(v, EOC(v))
      BY <1>1, <2>1
    <3>3. Unhurt(G, v, g, ReadFields) /\ g.val = EOC(v)
      BY <3>2, ValUnhurt, Zenon
    <3> QED
      BY <2>1, <3>1, <3>3
  <2>2. CASE clst # 0
    <3>1. g = get_fat(v, clst)
      BY <1>1, <2>2
    <3> QED
      BY <3>1, GetIs
  <2> QED
    BY <2>1, <2>2
<1>6. Good(G, g) /\ Serves(G, v, g, ChainFields)
  BY <1>5, ReadServes, Zenon DEF Unhurt
<1>7. Serves(G, g, Returns(g, 0), ChainFields) /\ Serves(G, g, Returns(g, 1), ChainFields)
      /\ Returns(g, 0).val = 0 /\ Returns(g, 1).val = 1
  BY <1>6, ValUnhurt, ReadServes, Zenon
<1>8. CASE g.val \in {0, 1}
  <2>1. create_chain(v, clst) = Returns(g, 1)
    BY <1>3, <1>8, Zenon
  <2> QED
    BY <1>6, <1>7, <2>1, ServesTwice, Zenon
<1>9. CASE g.val \notin {0, 1} /\ (g.val = DISK \/ g.val < v.n_fatent)
  <2>1. create_chain(v, clst) = g
    BY <1>3, <1>9, Zenon
  <2>2. g.val \in {0, 1, DISK} \cup Clusters(G)
    BY <1>4, <1>5, <1>9 DEF Clusters
  <2> QED
    BY <1>6, <2>1, <2>2, Zenon
<1>10. CASE g.val \notin {0, 1} /\ ~(g.val = DISK \/ g.val < v.n_fatent)
  <2>1. CASE v.free_clst = 0
    <3>1. create_chain(v, clst) = Returns(g, 0)
      BY <1>3, <1>10, <2>1, Zenon
    <3> QED
      BY <1>6, <1>7, <3>1, ServesTwice, Zenon
  <2>2. CASE v.free_clst # 0
    <3>1. create_chain(v, clst) = IF f.val \in {0, 1, DISK} THEN f ELSE LinkNew(f, f.val, clst)
      BY <1>3, <1>10, <2>2, Zenon
    <3>2. /\ Unhurt(G, g, f, ReadFields)
          /\ f.val \in Clusters(G) => FatEntry(f, f.val) = 0
      BY <1>2, <1>6, FreeClusterIs
    <3>3. Good(G, f) /\ Serves(G, v, f, ChainFields)
      <4>1. Serves(G, g, f, ChainFields) /\ Good(G, f)
        BY <1>6, <3>2, ReadServes, Zenon DEF Unhurt
      <4> QED
        BY <1>6, <4>1, ServesTwice, Zenon
    <3>4. CASE f.val \in {0, 1, DISK}
      BY <3>1, <3>3, <3>4, Zenon
    <3>5. CASE f.val \notin {0, 1, DISK}
      <4>1. clst = 0 \/ (clst \in Clusters(G) /\ FatEntry(f, clst) # 0)
        <5>1. clst = 0 \/ (clst \in Clusters(G) /\ FatEntry(v, clst) # 0)
          BY <1>5, <1>10, Zenon
        <5>2. HasGeo(G, f) /\ FatSame(G, v, f)
          BY <1>5, <3>2, UnhurtTwice, Zenon DEF Unhurt, Good
        <5> QED
          BY <1>4, <5>1, <5>2, EntrySame
      <4>2. PICK n : n = f.val
        OBVIOUS
      <4>3. PICK w : w = LinkNew(f, n, clst)
        OBVIOUS
      <4>4. Serves(G, f, w, ChainFields) /\ w.val \in {1, DISK} \cup {c \in Clusters(G) : c = n}
        BY <3>2, <3>3, <4>1, <4>2, <4>3, LinkServes
      <4>5. create_chain(v, clst) = w
        BY <3>1, <3>5, <4>2, <4>3, Zenon
      <4>6. w.val \in {0, 1, DISK} \cup Clusters(G)
        BY <4>4, Zenon
      <4> QED
        BY <3>3, <4>4, <4>5, <4>6, ServesTwice, Zenon
    <3> QED
      BY <3>4, <3>5
  <2> QED
    BY <2>1, <2>2
<1> QED
  BY <1>8, <1>9, <1>10

-----------------------------------------------------------------------------
(* Directories. *)

(* Directory objects: at the end of the table, or in a sector behind the   *)
(* FATs.                                                                   *)
DpNames == {"sclust", "clust", "sect", "dptr", "attr", "fn", "noname"}

IsDp(dp) == dp = [f \in DpNames |-> dp[f]]

DpOK(G, dp) == IsDp(dp) /\ dp.dptr \in Nat /\ (dp.sect = 0 \/ Beyond(G, dp.sect))

(* w comes from v in a walk over directories.                              *)
Walks(G, v, w) ==
  Serves(G, v, w, DirFields) /\ DpOK(G, w.dp) /\ w.dp.noname = v.dp.noname

(* The window is on the entry of the directory object.                     *)
Stands(G, v) == v.winsect = v.dp.sect /\ Beyond(G, v.winsect)

LEMMA WalksTwice ==
  ASSUME NEW G, NEW v, NEW u, NEW w, Walks(G, v, u), Walks(G, u, w) PROVE Walks(G, v, w)
BY ServesTwice, Zenon DEF Walks

LEMMA WalksGood ==
  ASSUME NEW G, NEW v, NEW w, Walks(G, v, w) PROVE Good(G, w) /\ DpOK(G, w.dp) /\ IsVol(w)
BY Zenon DEF Walks, Serves, Differ

LEMMA WalksStays ==
  ASSUME NEW G, NEW v, Good(G, v), DpOK(G, v.dp) PROVE Walks(G, v, v)
BY ServesStays, Zenon DEF Walks

(* Operations on chains and the window do not move the directory object.   *)
LEMMA ServesWalks ==
  ASSUME NEW G, NEW v, NEW w, Serves(G, v, w, ChainFields), DpOK(G, v.dp)
  PROVE  Walks(G, v, w) /\ w.dp = v.dp
<1>1. "dp" \notin ChainFields /\ "dp" \in VolFields /\ ChainFields \subseteq DirFields
  BY Zenon DEF ChainFields, ReadFields, WinFields, VolFields, DirFields
<1>2. w["dp"] = v["dp"]
  BY <1>1, Zenon DEF Serves, Differ
<1>3. w.dp = v.dp
  BY <1>2
<1>4. Serves(G, v, w, DirFields)
  BY <1>1, ServesMore, Zenon
<1> QED
  BY <1>3, <1>4, Zenon DEF Walks

LEMMA WinWalks ==
  ASSUME NEW G, GeoOK(G), NEW v, Good(G, v), DpOK(G, v.dp), NEW w
  PROVE  /\ Unhurt(G, v, w, WinFields) => Walks(G, v, w) /\ w.dp = v.dp
         /\ Unhurt(G, v, w, ReadFields) => Walks(G, v, w) /\ w.dp = v.dp
BY ReadServes, ServesWalks, Zenon

LEMMA ResWalks ==
  ASSUME NEW G, GeoOK(G), NEW v, Good(G, v), DpOK(G, v.dp), NEW r
  PROVE  /\ Walks(G, v, Failed(v, r)) /\ Failed(v, r).res = r /\ Failed(v, r).dp = v.dp
         /\ Failed(v, r).winsect = v.winsect /\ Failed(v, r).win = v.win
         /\ Walks(G, v, Ok(v)) /\ Ok(v).res = "OK" /\ Ok(v).dp = v.dp
         /\ Ok(v).winsect = v.winsect /\ Ok(v).win = v.win
<1>1. IsVol(v)
  BY GoodIsVol, Zenon
<1>2. Differ(v, Failed(v, r), {"res"}) /\ Failed(v, r).res = r
      /\ Differ(v, Ok(v), {"res"}) /\ Ok(v).res = "OK"
  BY <1>1, ResIs, Zenon
<1>3. /\ Failed(v, r).dp = v.dp /\ Failed(v, r).winsect = v.winsect /\ Failed(v, r).win = v.win
      /\ Ok(v).dp = v.dp /\ Ok(v).winsect = v.winsect /\ Ok(v).win = v.win
  BY <1>2, Zenon DEF Differ, VolFields
<1>4. Walks(G, v, Failed(v, r)) /\ Walks(G, v, Ok(v))
  BY ResUnhurt, WinWalks, Zenon
<1> QED
  BY <1>2, <1>3, <1>4, Zenon

LEMMA FailWalks ==
  ASSUME NEW G, GeoOK(G), NEW v, Good(G, v), DpOK(G, v.dp), NEW r
  PROVE  /\ Walks(G, v, Failed(v, r)) /\ Failed(v, r).res = r /\ Failed(v, r).dp = v.dp
         /\ Failed(v, r).winsect = v.winsect /\ Failed(v, r).win = v.win
BY ResWalks

LEMMA OkWalks ==
  ASSUME NEW G, GeoOK(G), NEW v, Good(G, v), DpOK(G, v.dp)
  PROVE  /\ Walks(G, v, Ok(v)) /\ Ok(v).res = "OK" /\ Ok(v).dp = v.dp
         /\ Ok(v).winsect = v.winsect /\ Ok(v).win = v.win
BY ResWalks

-----------------------------------------------------------------------------
(* Sectors of clusters. *)

LEMMA ProductOrder ==
  ASSUME NEW a \in Nat, NEW b \in Nat, NEW c \in Nat, a <= b PROVE c * a <= c * b
<1>1. c * (b - a) >= 0 /\ c * b = c * (b - a) + c * a
  <2>1. PICK d : d = b - a
    OBVIOUS
  <2>2. d \in Nat /\ b = d + a
    BY <2>1
  <2>3. c * d \in Nat /\ c * (d + a) = c * d + c * a
    BY <2>2
  <2> QED
    BY <2>1, <2>2, <2>3
<1>2. c * a \in Nat /\ c * b \in Nat
  OBVIOUS
<1> QED
  BY <1>1, <1>2

LEMMA EndsIs ==
  ASSUME NEW G, GeoOK(G) PROVE Ends(G) \in Nat /\ Ends(G) >= 1
BY SMTT(30) DEF GeoOK, Ends

LEMMA ClusterSector ==
  ASSUME NEW G, GeoOK(G), NEW v, HasGeo(G, v), NEW clst
  PROVE  /\ clst \in Clusters(G) =>
              /\ IsCluster(v, clst) /\ clst2sect(v, clst) \in DOMAIN G.disk
              /\ Beyond(G, clst2sect(v, clst))
         /\ clst \notin Clusters(G) => ~IsCluster(v, clst) /\ clst2sect(v, clst) = 0
<1>1. /\ v.database = G.database /\ v.csize = G.csize /\ v.n_fatent = G.n_fatent
      /\ G.csize \in Nat \ {0} /\ G.n_fatent \in Nat /\ G.database \in Nat /\ G.database >= Ends(G)
      /\ DOMAIN G.disk = 0 .. G.database + G.csize * (G.n_fatent - 2) - 1
  <2>1. v.database = G.database /\ v.csize = G.csize /\ v.n_fatent = G.n_fatent
    BY GeoIs
  <2>2. /\ G.csize \in Nat \ {0} /\ G.n_fatent \in Nat /\ G.database \in Nat /\ G.database >= Ends(G)
        /\ DOMAIN G.disk = 0 .. G.database + G.csize * (G.n_fatent - 2) - 1
    BY DEF GeoOK
  <2> QED
    BY <2>1, <2>2
<1>2. CASE clst \in Clusters(G)
  <2>1. IsCluster(v, clst)
    BY <1>1, <1>2 DEF Clusters, IsCluster
  <2>2. PICK x : x = G.csize * (clst - 2)
    OBVIOUS
  <2>3. PICK y : y = G.csize * (G.n_fatent - 2)
    OBVIOUS
  <2>4. x \in Nat /\ y \in Nat /\ x + 1 <= y
    <3>1. PICK a : a = clst - 2
      OBVIOUS
    <3>2. PICK b : b = G.n_fatent - 2
      OBVIOUS
    <3>3. PICK m : m = G.csize
      OBVIOUS
    <3>4. a \in Nat /\ b \in Nat /\ a + 1 <= b /\ m \in Nat /\ m >= 1
      BY <1>1, <1>2, <3>1, <3>2, <3>3 DEF Clusters
    <3>5. m * (a + 1) <= m * b
      BY <3>4, ProductOrder
    <3>6. m * (a + 1) = m * a + m /\ m * a \in Nat /\ m * b \in Nat
      BY <3>4
    <3>7. x = m * a /\ y = m * b
      BY <2>2, <2>3, <3>1, <3>2, <3>3
    <3> QED
      BY <3>4, <3>5, <3>6, <3>7
  <2>5. clst2sect(v, clst) = G.database + x
    BY <1>1, <2>1, <2>2 DEF clst2sect
  <2>6. DOMAIN G.disk = 0 .. G.database + y - 1
    BY <1>1, <2>3
  <2>7. G.database + x \in 0 .. G.database + y - 1 /\ Beyond(G, G.database + x)
    BY <1>1, <2>4, EndsIs, SMTT(30) DEF Beyond
  <2> QED
    BY <1>2, <2>1, <2>5, <2>6, <2>7
<1>3. CASE clst \notin Clusters(G)
  <2>1. ~IsCluster(v, clst)
    BY <1>1, <1>3 DEF Clusters, IsCluster
  <2> QED
    BY <1>3, <2>1 DEF clst2sect
<1> QED
  BY <1>2, <1>3

LEMMA BeyondMore ==
  ASSUME NEW G, GeoOK(G), NEW s, Beyond(G, s), NEW n \in Nat
  PROVE  Beyond(G, s + n) /\ s + n # 0 /\ s # 0 /\ s \in Nat
BY EndsIs DEF Beyond

LEMMA ZeroTable == IsTable(ZeroSector)
<1>1. PICK b : b = [i \in Slots |-> EndEntry]
  OBVIOUS
<1>2. ZeroSector = DirSector(b)
  BY <1>1 DEF ZeroSector
<1>3. ZeroSector.body = b
  BY <1>2 DEF DirSector
<1>4. IsEntry(EndEntry)
  BY DEF IsEntry, EndEntry
<1>5. b = [i \in Slots |-> b[i]] /\ \A i \in Slots : IsEntry(b[i])
  BY <1>1, <1>4
<1> QED
  BY <1>2, <1>3, <1>5, Zenon DEF IsTable

(* The loop of dir_clear.                                                  *)
ClearStep(c, i, s)  == IF s.res = "OK" THEN disk_write(s, c.t + i - 1, ZeroSector) ELSE s
ClearKeeps(c, i, s) == Unhurt(c.G, c.v, s, WinFields) /\ s.winsect = c.v.winsect /\ s.win = c.v.win
ClearLoop == INSTANCE Loops WITH Step <- ClearStep, Keeps <- ClearKeeps

ClearAll(n, t, v) == For(n, LAMBDA m, f : disk_write(f, t + m - 1, ZeroSector), v)

LEMMA ClearedSectors ==
  ASSUME NEW G, GeoOK(G), NEW v, Good(G, v), NEW t, Beyond(G, t), NEW n \in Nat
  PROVE  LET w == ClearAll(n, t, v) IN
         Unhurt(G, v, w, WinFields) /\ w.winsect = v.winsect /\ w.win = v.win
<1>1. PICK c : c = [G |-> G, v |-> v, t |-> t]
  OBVIOUS
<1>2. c.G = G /\ c.v = v /\ c.t = t
  BY <1>1
<1>3. ClearKeeps(c, 0, v)
  <2>1. Unhurt(G, v, v, WinFields)
    BY GoodIsVol, Zenon DEF Unhurt, Differ, FatSame, Calm
  <2> QED
    BY <1>2, <2>1, Zenon DEF ClearKeeps
<1>4. ASSUME NEW i \in 1 .. n, NEW s, ClearKeeps(c, i - 1, s) PROVE ClearKeeps(c, i, ClearStep(c, i, s))
  <2>1. Unhurt(G, v, s, WinFields) /\ Good(G, s) /\ s.winsect = v.winsect /\ s.win = v.win
    BY <1>2, <1>4, Zenon DEF ClearKeeps, Unhurt
  <2>2. PICK k : k = t + i - 1
    OBVIOUS
  <2>3. Beyond(G, k)
    BY <2>2, EndsIs DEF Beyond
  <2>4. k \notin Fats(G)
    BY <2>3, FatsIn
  <2>5. PICK w : w = disk_write(s, k, ZeroSector)
    OBVIOUS
  <2>6. Unhurt(G, s, w, WinFields)
    BY <2>1, <2>4, <2>5, ZeroTable, WriteUnhurt
  <2>7. w.winsect = s.winsect /\ w.win = s.win
    <3>1. Differ(s, w, {"disk", "fuel", "res"})
      BY <2>1, <2>5, GoodIsVol, DiskWriteIs
    <3> QED
      BY <3>1, Zenon DEF Differ, VolFields
  <2>8. ClearStep(c, i, s) = IF s.res = "OK" THEN w ELSE s
    BY <1>2, <2>2, <2>5 DEF ClearStep
  <2> QED
    BY <1>2, <2>1, <2>6, <2>7, <2>8, UnhurtTwice, Zenon DEF ClearKeeps
<1>5. ClearKeeps(c, n, ClearLoop!Track(c, v, n)[n])
  BY <1>3, <1>4, ClearLoop!LoopKeeps, AllNumbers, Zenon
<1>6. ClearLoop!Track(c, v, n)[n] = ClearAll(n, t, v)
  BY <1>2 DEF ClearAll, ClearLoop!Track, For, ClearStep
<1> QED
  BY <1>2, <1>5, <1>6, Zenon DEF ClearKeeps

LEMMA ClearUnhurt ==
  ASSUME NEW G, GeoOK(G), NEW v, Good(G, v), NEW clst \in Clusters(G)
  PROVE  LET w == dir_clear(v, clst) IN
         /\ Unhurt(G, v, w, WinFields)
         /\ w.res = "OK" => w.winsect = clst2sect(v, clst)
<1>1. PICK t : t = clst2sect(v, clst)
  OBVIOUS
<1>2. PICK s : s = sync_window(v)
  OBVIOUS
<1>3. PICK x : x = [s EXCEPT !.winsect = t, !.win = ZeroSector]
  OBVIOUS
<1>4. PICK w : w = ClearAll(v.csize, t, x)
  OBVIOUS
<1>5. dir_clear(v, clst) = IF s.res = "OK" THEN w ELSE s
  BY <1>1, <1>2, <1>3, <1>4 DEF dir_clear, IfOk, ClearAll, For
<1>6. Unhurt(G, v, s, WinFields) /\ (s.res = "OK" => s.wflag = FALSE) /\ Good(G, s) /\ IsVol(s)
  <2>1. Unhurt(G, v, s, WinFields) /\ (s.res = "OK" => s.wflag = FALSE)
    BY <1>2, SyncUnhurt
  <2> QED
    BY <2>1, GoodIsVol, Zenon DEF Unhurt
<1>7. CASE s.res # "OK"
  BY <1>5, <1>6, <1>7
<1>8. CASE s.res = "OK"
  <2>1. t \in DOMAIN G.disk /\ Beyond(G, t) /\ t \notin Fats(G) /\ t \notin Fat1(G)
    <3>1. HasGeo(G, v)
      BY Zenon DEF Good
    <3>2. t \in DOMAIN G.disk /\ Beyond(G, t)
      BY <1>1, <3>1, ClusterSector, Zenon
    <3> QED
      BY <3>2, FatsIn, Zenon
  <2>2. Differ(s, x, {"winsect", "win"}) /\ x.winsect = t /\ x.win = ZeroSector
    BY <1>3, <1>6, Zenon DEF IsVol, Differ, VolFields
  <2>3. /\ Differ(s, x, WinFields) /\ x.disk = s.disk /\ (Quiet(s) => Quiet(x)) /\ x.wflag = FALSE
        /\ s.wflag = FALSE
    BY <1>6, <1>8, <2>2, Zenon DEF Differ, VolFields, Quiet, WinFields
  <2>4. Content(G, x.winsect, x.win)
    BY <2>1, <2>2, ZeroTable, Zenon DEF Content
  <2>5. Unhurt(G, s, x, WinFields)
    BY <1>6, <2>1, <2>2, <2>3, <2>4, FieldsApart, TurnUnhurt, Zenon
  <2>6. v.csize \in Nat
    <3>1. HasGeo(G, v)
      BY Zenon DEF Good
    <3> QED
      BY <3>1, GeoIs DEF GeoOK
  <2>7. Unhurt(G, x, w, WinFields) /\ w.winsect = x.winsect
    <3>1. Good(G, x)
      BY <2>5, Zenon DEF Unhurt
    <3> QED
      BY <1>4, <2>1, <2>6, <3>1, ClearedSectors
  <2> QED
    BY <1>1, <1>5, <1>6, <1>8, <2>2, <2>5, <2>7, UnhurtTwice, Zenon
<1> QED
  BY <1>7, <1>8

(* An entry is set in the window.                                          *)
LEMMA PartIn ==
  ASSUME NEW n \in Nat \ {0}, NEW m \in Nat \ {0}, n % m = 0, NEW d \in Nat
  PROVE  (d % n) \div m \in 0 .. (n \div m) - 1
<1>1. PICK x : x = d % n
  OBVIOUS
<1>2. x \in 0 .. n - 1
  BY <1>1, DivMod
<1>3. PICK q : q = n \div m
  OBVIOUS
<1>4. q \in Nat /\ n = m * q
  BY <1>3, DivMod
<1>5. PICK r : r = x \div m
  OBVIOUS
<1>6. r \in Nat /\ m * r \in Nat /\ x >= m * r
  <2>1. x \in Nat
    BY <1>2
  <2>2. r \in Nat /\ x % m \in 0 .. m - 1 /\ x = m * r + (x % m)
    BY <1>5, <2>1, DivMod
  <2>3. m * r \in Nat
    BY <2>2
  <2> QED
    BY <2>2, <2>3
<1>7. ~(q <= r)
  <2> SUFFICES ASSUME q <= r PROVE FALSE
    OBVIOUS
  <2>1. m * q <= m * r
    BY <1>4, <1>6, ProductOrder
  <2> QED
    BY <1>2, <1>4, <1>6, <2>1
<1> QED
  BY <1>1, <1>3, <1>4, <1>5, <1>6, <1>7

LEMMA SlotIn ==
  ASSUME NEW dp, dp.dptr \in Nat PROVE Slot(dp) \in Slots
BY SectorAssumption, PartIn DEF Slot, Slots

LEMMA EnterTable ==
  ASSUME NEW x, IsTable(x), NEW i \in Slots, NEW e, IsEntry(e) PROVE IsTable(Enter(x, i, e))
<1>1. CASE x.kind = "dir"
  <2>1. x = DirSector(x.body) /\ x.body = [j \in Slots |-> x.body[j]] /\ \A j \in Slots : IsEntry(x.body[j])
    BY <1>1, Zenon DEF IsTable
  <2>2. PICK b : b = [j \in Slots |-> IF j = i THEN e ELSE x.body[j]]
    OBVIOUS
  <2>3. Enter(x, i, e) = DirSector(b)
    <3>1. PICK y : y = x.body
      OBVIOUS
    <3>2. x = [kind |-> "dir", body |-> y] /\ y = [j \in Slots |-> y[j]]
      BY <2>1, <3>1 DEF DirSector
    <3>3. [x EXCEPT !.body[i] = e] = [kind |-> "dir", body |-> [y EXCEPT ![i] = e]]
      BY <3>2
    <3>4. [y EXCEPT ![i] = e] = b
      BY <2>2, <3>1, <3>2
    <3> QED
      BY <1>1, <3>3, <3>4 DEF Enter, DirSector
  <2>4. DirSector(b).body = b
    BY SMTT(30) DEF DirSector
  <2>5. b = [j \in Slots |-> b[j]] /\ \A j \in Slots : IsEntry(b[j])
    BY <2>1, <2>2
  <2> QED
    BY <2>3, <2>4, <2>5, Zenon DEF IsTable
<1>2. CASE x.kind # "dir"
  <2>1. PICK b : b = [j \in Slots |-> IF j = i THEN e ELSE Foreign]
    OBVIOUS
  <2>2. Enter(x, i, e) = DirSector(b)
    BY <1>2, <2>1 DEF Enter
  <2>3. DirSector(b).body = b
    BY SMTT(30) DEF DirSector
  <2>4. IsEntry(Foreign)
    BY DEF IsEntry, Foreign
  <2>5. b = [j \in Slots |-> b[j]] /\ \A j \in Slots : IsEntry(b[j])
    BY <2>1, <2>4
  <2> QED
    BY <2>2, <2>3, <2>5, Zenon DEF IsTable
<1> QED
  BY <1>1, <1>2

(* What is set in a window behind the FATs.                                *)
WindowGets(v, w, x) == Differ(v, w, {"win", "wflag"}) /\ w.win = x /\ w.wflag = TRUE

LEMMA WindowSet ==
  ASSUME NEW G, GeoOK(G), NEW v, Good(G, v), Beyond(G, v.winsect), NEW x, IsTable(x),
         NEW w, WindowGets(v, w, x)
  PROVE  Unhurt(G, v, w, WinFields) /\ w.res = v.res /\ w.winsect = v.winsect /\ w.win = x
<1>1. IsVol(v) /\ HasGeo(G, v)
  BY GoodIsVol, Zenon
<1>3. /\ Differ(v, w, WinFields) /\ w.disk = v.disk /\ (Quiet(v) => Quiet(w))
      /\ w.winsect = v.winsect /\ w.res = v.res
  BY Zenon DEF WindowGets, Differ, VolFields, Quiet, WinFields
<1>4. HasGeo(G, w)
  BY <1>1, <1>3, FieldsApart, GeoStays, Zenon
<1>5. v.winsect \notin Fats(G) /\ Fat1(G) \subseteq Fats(G)
  BY FatsIn, Zenon
<1>6. Good(G, w)
  BY <1>3, <1>4, <1>5, Zenon DEF WindowGets, Good, DiskOK, WindowOK, Content
<1>7. FatSame(G, v, w)
  <2>1. \A s \in Fat1(G) : s # v.winsect /\ s # w.winsect
    BY <1>3, <1>5, Zenon
  <2> QED
    BY <1>3, <2>1, Zenon DEF FatSame, Seen
<1>8. Calm(G, v, w)
  BY <1>3, Zenon DEF Calm, Mirror
<1> QED
  BY <1>3, <1>6, <1>7, <1>8, Zenon DEF Unhurt, WindowGets

LEMMA WindowTable ==
  ASSUME NEW G, NEW v, Good(G, v) PROVE IsTable(v.win)
BY Zenon DEF Good, WindowOK, Content

LEMMA EntryInIs ==
  ASSUME NEW x, IsTable(x), NEW i \in Slots PROVE IsEntry(EntryIn(x, i))
<1>1. IsEntry(Foreign)
  BY DEF IsEntry, Foreign
<1> QED
  BY <1>1, Zenon DEF EntryIn, IsTable

LEMMA EntryGood ==
  ASSUME NEW G, NEW v, Good(G, v), DpOK(G, v.dp) PROVE IsEntry(Entry(v)) /\ Slot(v.dp) \in Slots
BY WindowTable, EntryInIs, SlotIn, Zenon DEF Entry, DpOK

LEMMA EntrySet ==
  ASSUME NEW G, GeoOK(G), NEW v, Good(G, v), DpOK(G, v.dp), Beyond(G, v.winsect), NEW e, IsEntry(e)
  PROVE  LET w == SetEntry(v, e) IN
         /\ Walks(G, v, w) /\ w.dp = v.dp /\ w.res = v.res /\ w.winsect = v.winsect
<1>1. PICK x : x = Enter(v.win, Slot(v.dp), e)
  OBVIOUS
<1>2. PICK w : w = [v EXCEPT !.win = x, !.wflag = TRUE]
  OBVIOUS
<1>3. SetEntry(v, e) = w
  BY <1>1, <1>2 DEF SetEntry
<1>4. IsTable(x)
  BY <1>1, WindowTable, EntryGood, EnterTable, Zenon
<1>5. Unhurt(G, v, w, WinFields) /\ w.res = v.res /\ w.winsect = v.winsect
  <2>1. IsVol(v)
    BY GoodIsVol, Zenon
  <2>2. WindowGets(v, w, x)
    BY <1>2, <2>1, Zenon DEF WindowGets, IsVol, Differ, VolFields
  <2> QED
    BY <1>4, <2>2, WindowSet
<1> QED
  BY <1>3, <1>5, WinWalks, Zenon

(* Fields of the directory object are set.                                 *)
Moves(v, w) == Differ(v, w, {"dp"}) /\ IsDp(w.dp) /\ w.dp.noname = v.dp.noname

LEMMA MovesTwice ==
  ASSUME NEW v, NEW u, NEW w, Moves(v, u), Moves(u, w) PROVE Moves(v, w)
BY Zenon DEF Moves, Differ

LEMMA MovesWalks ==
  ASSUME NEW G, GeoOK(G), NEW v, Good(G, v), NEW w, Moves(v, w),
         w.dp.dptr \in Nat, w.dp.sect = 0 \/ Beyond(G, w.dp.sect)
  PROVE  Walks(G, v, w) /\ w.winsect = v.winsect /\ w.win = v.win /\ w.res = v.res
<1> DEFINE F == {"dp"}
<1>1. F \cap GeoFields = {} /\ F \cap {"disk", "fuel", "wflag", "win", "winsect"} = {} /\ F \subseteq DirFields
  BY Zenon DEF GeoFields, DirFields
<1>2. "free_clst" \notin F
  OBVIOUS
<1>3. Differ(v, w, F)
  BY Zenon DEF Moves
<1>4. w.winsect = v.winsect /\ w.win = v.win /\ w.res = v.res
  BY <1>3, Zenon DEF Differ, VolFields
<1> HIDE DEF F
<1>5. Unhurt(G, v, w, F)
  BY <1>1, <1>3, RegisterUnhurt, Zenon
<1>6. Serves(G, v, w, DirFields)
  BY <1>1, <1>2, <1>5, UnhurtServes, ServesMore, Zenon
<1> QED
  BY <1>4, <1>6, Zenon DEF Walks, Moves, DpOK

LEMMA RewindIs ==
  ASSUME NEW G, GeoOK(G), NEW v, Good(G, v), DpOK(G, v.dp)
  PROVE  LET w == Rewind(v) IN
         /\ Walks(G, v, w) /\ w.winsect = v.winsect /\ w.res \in {"OK", "INT_ERR"}
         /\ w.res = "OK" => Beyond(G, w.dp.sect)
<1> DEFINE root == v.dp.sclust = 0 /\ v.fs_type # "FAT32"
<1>1. PICK clst : clst = IF v.dp.sclust = 0 /\ v.fs_type = "FAT32" THEN v.dirbase ELSE v.dp.sclust
  OBVIOUS
<1>2. PICK sect : sect = IF root THEN v.dirbase ELSE clst2sect(v, clst)
  OBVIOUS
<1>3. PICK at : at = [v EXCEPT !.dp.dptr = 0, !.dp.sect = sect]
  OBVIOUS
<1>4. PICK c : c = IF root THEN 0 ELSE clst
  OBVIOUS
<1>5. PICK u : u = [at EXCEPT !.dp.clust = c]
  OBVIOUS
<1>6. PICK r : r = IF ~root /\ sect = 0 THEN "INT_ERR" ELSE "OK"
  OBVIOUS
<1>7. Rewind(v) = Failed(u, r)
  BY <1>1, <1>2, <1>3, <1>4, <1>5, <1>6 DEF Rewind, Failed, Ok
<1>8. HasGeo(G, v) /\ IsVol(v) /\ IsDp(v.dp)
  BY GoodIsVol, Zenon DEF DpOK
<1>9. root => Beyond(G, sect)
  BY <1>2, <1>8, GeoIs DEF GeoOK, Beyond
<1>10. ~root => sect = 0 \/ Beyond(G, sect)
  BY <1>2, <1>8, ClusterSector, Zenon
<1> HIDE DEF root
<1>11. /\ Moves(v, at) /\ at.dp.dptr = 0 /\ at.dp.sect = sect /\ IsVol(at) /\ IsDp(at.dp)
  BY <1>3, <1>8, Zenon DEF Moves, IsVol, Differ, VolFields, IsDp, DpNames
<1>12. Moves(at, u) /\ u.dp.dptr = at.dp.dptr /\ u.dp.sect = at.dp.sect
  BY <1>5, <1>11, Zenon DEF Moves, IsVol, Differ, VolFields, IsDp, DpNames
<1>13. Walks(G, v, u) /\ u.winsect = v.winsect
  BY <1>9, <1>10, <1>11, <1>12, MovesTwice, MovesWalks
<1>14. Walks(G, u, Failed(u, r)) /\ Failed(u, r).res = r /\ Failed(u, r).dp = u.dp
       /\ Failed(u, r).winsect = u.winsect
  BY <1>13, FailWalks, WalksGood
<1>15. r \in {"OK", "INT_ERR"} /\ (r = "OK" => Beyond(G, sect))
  BY <1>6, <1>9, <1>10
<1> QED
  BY <1>7, <1>11, <1>12, <1>13, <1>14, <1>15, WalksTwice, Zenon

LEMMA EndIs ==
  ASSUME NEW G, GeoOK(G), NEW v, Good(G, v), DpOK(G, v.dp)
  PROVE  LET w == EndOfTable(v)
             t == [v EXCEPT !.dp.sect = 0] IN
         /\ Walks(G, v, w) /\ w.res = "NO_FILE"
         /\ Walks(G, v, t) /\ t.res = v.res
<1>1. PICK u : u = [v EXCEPT !.dp.sect = 0]
  OBVIOUS
<1>2. EndOfTable(v) = Failed(u, "NO_FILE")
  BY <1>1, Zenon DEF EndOfTable
<1>3. IsVol(v) /\ IsDp(v.dp) /\ v.dp.dptr \in Nat
  BY GoodIsVol, Zenon DEF DpOK
<1>4. Moves(v, u) /\ u.dp.dptr = v.dp.dptr /\ u.dp.sect = 0
  BY <1>1, <1>3, Zenon DEF Moves, IsVol, Differ, VolFields, IsDp, DpNames
<1>5. Walks(G, v, u) /\ u.res = v.res
  BY <1>3, <1>4, MovesWalks, Zenon
<1>6. Walks(G, u, Failed(u, "NO_FILE")) /\ Failed(u, "NO_FILE").res = "NO_FILE"
  BY <1>5, FailWalks, WalksGood
<1> QED
  BY <1>1, <1>2, <1>5, <1>6, WalksTwice, Zenon

LEMMA EnterIs ==
  ASSUME NEW G, GeoOK(G), NEW v, Good(G, v), DpOK(G, v.dp), NEW clst, NEW ofs \in Nat
  PROVE  LET w == EnterCluster(v, clst, ofs) IN
         /\ Walks(G, v, w) /\ w.res = "OK"
         /\ clst \in Clusters(G) => Beyond(G, w.dp.sect)
<1>1. PICK sect : sect = clst2sect(v, clst)
  OBVIOUS
<1>2. PICK u : u = [v EXCEPT !.dp.clust = clst, !.dp.sect = sect, !.dp.dptr = ofs]
  OBVIOUS
<1>3. EnterCluster(v, clst, ofs) = Ok(u)
  BY <1>1, <1>2, Zenon DEF EnterCluster
<1>4. IsVol(v) /\ IsDp(v.dp) /\ HasGeo(G, v)
  BY GoodIsVol, Zenon DEF DpOK
<1>5. Moves(v, u) /\ u.dp.dptr = ofs /\ u.dp.sect = sect
  BY <1>2, <1>4, Zenon DEF Moves, IsVol, Differ, VolFields, IsDp, DpNames
<1>6. (sect = 0 \/ Beyond(G, sect)) /\ (clst \in Clusters(G) => Beyond(G, sect))
  BY <1>1, <1>4, ClusterSector, Zenon
<1>7. Walks(G, v, u)
  BY <1>5, <1>6, MovesWalks, Zenon
<1>8. Walks(G, u, Ok(u)) /\ Ok(u).res = "OK" /\ Ok(u).dp = u.dp
  BY <1>7, OkWalks, WalksGood
<1> QED
  BY <1>3, <1>5, <1>6, <1>7, <1>8, WalksTwice, Zenon

(* A step over a table, and where it ends.                                 *)
Advances(G, v, w) ==
  Walks(G, v, w) /\ w.res # "FOUND" /\ (w.res = "OK" => Beyond(G, w.dp.sect))

LEMMA AdvancesAfter ==
  ASSUME NEW G, NEW v, NEW u, NEW w, Walks(G, v, u), Advances(G, u, w) PROVE Advances(G, v, w)
BY WalksTwice, Zenon DEF Advances

LEMMA FailAdvances ==
  ASSUME NEW G, GeoOK(G), NEW v, Good(G, v), DpOK(G, v.dp), NEW r, r # "FOUND", r # "OK"
  PROVE  Advances(G, v, Failed(v, r))
<1>1. Walks(G, v, Failed(v, r)) /\ Failed(v, r).res = r
  BY FailWalks
<1> QED
  BY <1>1, Zenon DEF Advances

LEMMA StretchIs ==
  ASSUME NEW G, GeoOK(G), NEW v, Good(G, v), DpOK(G, v.dp), NEW ofs \in Nat
  PROVE  Advances(G, v, Stretch(v, ofs))
<1>1. PICK c : c = create_chain(v, v.dp.clust)
  OBVIOUS
<1>2. PICK z : z = dir_clear(c, c.val)
  OBVIOUS
<1>3. Stretch(v, ofs) =
        CASE c.val = 0    -> Failed(c, "DENIED")
          [] c.val = 1    -> Failed(c, "INT_ERR")
          [] c.val = DISK -> Failed(c, "DISK_ERR")
          [] OTHER -> IF z.res # "OK" THEN Failed(z, "DISK_ERR") ELSE EnterCluster(z, c.val, ofs)
  BY <1>1, <1>2 DEF Stretch, After
<1>4. Walks(G, v, c) /\ c.val \in {0, 1, DISK} \cup Clusters(G)
  <2>1. Serves(G, v, c, ChainFields) /\ c.val \in {0, 1, DISK} \cup Clusters(G)
    BY <1>1, CreateServes
  <2> QED
    BY <2>1, ServesWalks, Zenon
<1>5. Good(G, c) /\ DpOK(G, c.dp)
  BY <1>4, WalksGood, Zenon
<1>6. CASE c.val \in {0, 1, DISK}
  <2>1. \E r \in {"DENIED", "INT_ERR", "DISK_ERR"} : Stretch(v, ofs) = Failed(c, r)
    BY <1>3, <1>6, StatusApart
  <2>2. PICK r \in {"DENIED", "INT_ERR", "DISK_ERR"} : Stretch(v, ofs) = Failed(c, r)
    BY <2>1
  <2>3. r # "FOUND" /\ r # "OK"
    BY <2>2
  <2> QED
    BY <1>4, <1>5, <2>2, <2>3, FailAdvances, AdvancesAfter, Zenon
<1>7. CASE c.val \notin {0, 1, DISK}
  <2>1. Stretch(v, ofs) = IF z.res # "OK" THEN Failed(z, "DISK_ERR") ELSE EnterCluster(z, c.val, ofs)
    BY <1>3, <1>7
  <2>2. PICK k \in Clusters(G) : k = c.val
    BY <1>4, <1>7
  <2>3. Unhurt(G, c, z, WinFields)
    BY <1>2, <1>5, <2>2, ClearUnhurt
  <2>4. Walks(G, c, z) /\ Good(G, z) /\ DpOK(G, z.dp)
    BY <1>5, <2>3, WinWalks, WalksGood, Zenon
  <2>5. Advances(G, z, Failed(z, "DISK_ERR"))
    <3>1. "DISK_ERR" # "FOUND" /\ "DISK_ERR" # "OK"
      OBVIOUS
    <3> QED
      BY <2>4, <3>1, FailAdvances, Zenon
  <2>6. Advances(G, z, EnterCluster(z, k, ofs))
    <3>1. /\ Walks(G, z, EnterCluster(z, k, ofs)) /\ EnterCluster(z, k, ofs).res = "OK"
          /\ Beyond(G, EnterCluster(z, k, ofs).dp.sect)
      BY <2>4, EnterIs, Zenon
    <3> QED
      BY <3>1, Zenon DEF Advances
  <2> QED
    BY <1>4, <2>1, <2>2, <2>4, <2>5, <2>6, AdvancesAfter, Zenon
<1> QED
  BY <1>6, <1>7

LEMMA NextIs ==
  ASSUME NEW G, GeoOK(G), NEW v, Good(G, v), DpOK(G, v.dp), NEW stretch
  PROVE  Advances(G, v, dir_next(v, stretch))
<1>1. PICK ofs : ofs = v.dp.dptr + SZDIRE
  OBVIOUS
<1>2. ofs \in Nat
  BY <1>1, SectorAssumption DEF DpOK
<1>3. PICK at : at = v.dp.sect + 1
  OBVIOUS
<1>4. PICK s : s = [v EXCEPT !.dp.sect = at]
  OBVIOUS
<1>5. PICK n : n = [v EXCEPT !.dp.dptr = ofs]
  OBVIOUS
<1>6. PICK m : m = [s EXCEPT !.dp.dptr = ofs]
  OBVIOUS
<1>7. PICK g : g = get_fat(s, v.dp.clust)
  OBVIOUS
<1>8. dir_next(v, stretch) =
        IF v.dp.sect = 0 \/ ofs >= MAX_DIR THEN EndOfTable(v)
        ELSE IF ofs % SS # 0 THEN Ok(n)
        ELSE IF v.dp.clust = 0
               THEN IF ofs \div SZDIRE >= v.n_rootdir THEN EndOfTable(s) ELSE Ok(m)
        ELSE IF (ofs \div SS) % v.csize # 0 THEN Ok(m)
        ELSE CASE g.val \in {0, 1}   -> Failed(g, "INT_ERR")
               [] g.val = DISK       -> Failed(g, "DISK_ERR")
               [] IsCluster(v, g.val) -> EnterCluster(g, g.val, ofs)
               [] OTHER -> IF stretch THEN Stretch(g, ofs) ELSE EndOfTable(g)
  BY <1>1, <1>3, <1>4, <1>5, <1>6, <1>7 DEF dir_next, After
<1>9. IsVol(v) /\ IsDp(v.dp) /\ HasGeo(G, v) /\ v.dp.dptr \in Nat
  BY GoodIsVol, Zenon DEF DpOK
<1>10. CASE v.dp.sect = 0 \/ ofs >= MAX_DIR
  <2>1. "NO_FILE" # "FOUND" /\ "NO_FILE" # "OK"
    OBVIOUS
  <2>2. dir_next(v, stretch) = EndOfTable(v)
    BY <1>8, <1>10
  <2>3. Walks(G, v, EndOfTable(v)) /\ EndOfTable(v).res = "NO_FILE"
    BY EndIs, Zenon
  <2> QED
    BY <2>1, <2>2, <2>3, Zenon DEF Advances
<1>11. CASE v.dp.sect # 0 /\ ~(ofs >= MAX_DIR)
  <2>1. Beyond(G, v.dp.sect) /\ Beyond(G, at)
    <3>1. Beyond(G, v.dp.sect)
      BY <1>11, Zenon DEF DpOK
    <3> QED
      BY <1>3, <3>1, BeyondMore
  <2>2. Moves(v, s) /\ s.dp.dptr = v.dp.dptr /\ s.dp.sect = at /\ IsVol(s) /\ IsDp(s.dp)
    BY <1>4, <1>9, Zenon DEF Moves, IsVol, Differ, VolFields, IsDp, DpNames
  <2>3. Moves(v, n) /\ n.dp.dptr = ofs /\ n.dp.sect = v.dp.sect
    BY <1>5, <1>9, Zenon DEF Moves, IsVol, Differ, VolFields, IsDp, DpNames
  <2>4. Moves(s, m) /\ m.dp.dptr = ofs /\ m.dp.sect = at
    BY <1>6, <2>2, Zenon DEF Moves, IsVol, Differ, VolFields, IsDp, DpNames
  <2>5. Walks(G, v, s) /\ Good(G, s) /\ DpOK(G, s.dp)
    BY <1>9, <2>1, <2>2, MovesWalks, WalksGood, Zenon
  <2>6. Walks(G, v, n) /\ Good(G, n) /\ DpOK(G, n.dp)
    BY <1>2, <2>1, <2>3, MovesWalks, WalksGood, Zenon
  <2>7. Walks(G, v, m) /\ Good(G, m) /\ DpOK(G, m.dp)
    BY <1>2, <2>1, <2>2, <2>4, MovesTwice, MovesWalks, WalksGood, Zenon
  <2>8. Advances(G, v, Ok(n)) /\ Advances(G, v, Ok(m))
    <3>1. /\ Walks(G, n, Ok(n)) /\ Ok(n).res = "OK" /\ Ok(n).dp = n.dp
          /\ Walks(G, m, Ok(m)) /\ Ok(m).res = "OK" /\ Ok(m).dp = m.dp
      BY <2>6, <2>7, OkWalks
    <3>2. "OK" # "FOUND"
      OBVIOUS
    <3> QED
      BY <2>1, <2>3, <2>4, <2>6, <2>7, <3>1, <3>2, WalksTwice, Zenon DEF Advances
  <2>9. Advances(G, v, EndOfTable(s))
    <3>1. Walks(G, s, EndOfTable(s)) /\ EndOfTable(s).res = "NO_FILE"
      BY <2>5, EndIs, Zenon
    <3>2. "NO_FILE" # "FOUND" /\ "NO_FILE" # "OK"
      OBVIOUS
    <3> QED
      BY <2>5, <3>1, <3>2, WalksTwice, Zenon DEF Advances
  <2>10. /\ Walks(G, v, g) /\ Good(G, g) /\ DpOK(G, g.dp) /\ g.val \in Nat \cup {DISK}
    <3>1. Unhurt(G, s, g, ReadFields) /\ g.val \in Nat \cup {DISK}
      BY <1>7, <2>5, GetIs
    <3> QED
      BY <2>5, <3>1, WinWalks, WalksTwice, WalksGood, Zenon
  <2>11. Advances(G, v, CASE g.val \in {0, 1}   -> Failed(g, "INT_ERR")
                          [] g.val = DISK       -> Failed(g, "DISK_ERR")
                          [] IsCluster(v, g.val) -> EnterCluster(g, g.val, ofs)
                          [] OTHER -> IF stretch THEN Stretch(g, ofs) ELSE EndOfTable(g))
    <3>1. PICK w : w = CASE g.val \in {0, 1}   -> Failed(g, "INT_ERR")
                         [] g.val = DISK       -> Failed(g, "DISK_ERR")
                         [] IsCluster(v, g.val) -> EnterCluster(g, g.val, ofs)
                         [] OTHER -> IF stretch THEN Stretch(g, ofs) ELSE EndOfTable(g)
      OBVIOUS
    <3>2. IsCluster(v, g.val) <=> g.val \in Clusters(G)
      BY <1>9, ClusterSector, Zenon
    <3>3. "INT_ERR" # "FOUND" /\ "INT_ERR" # "OK" /\ "DISK_ERR" # "FOUND" /\ "DISK_ERR" # "OK"
          /\ "NO_FILE" # "FOUND" /\ "NO_FILE" # "OK" /\ "OK" # "FOUND"
      OBVIOUS
    <3>4. CASE g.val \in {0, 1}
      <4>1. w = Failed(g, "INT_ERR")
        BY <3>1, <3>2, <3>4, ClustersAre, StatusApart
      <4> QED
        BY <2>10, <3>1, <3>3, <4>1, FailAdvances, AdvancesAfter, Zenon
    <3>5. CASE g.val = DISK
      <4>1. w = Failed(g, "DISK_ERR")
        BY <3>1, <3>2, <3>5, ClustersAre, StatusApart
      <4> QED
        BY <2>10, <3>1, <3>3, <4>1, FailAdvances, AdvancesAfter, Zenon
    <3>6. CASE g.val \in Clusters(G)
      <4>1. PICK k : k = g.val
        OBVIOUS
      <4>2. w = EnterCluster(g, k, ofs)
        BY <3>1, <3>2, <3>6, <4>1, ClustersAre
      <4>3. /\ Walks(G, g, EnterCluster(g, k, ofs)) /\ EnterCluster(g, k, ofs).res = "OK"
            /\ Beyond(G, EnterCluster(g, k, ofs).dp.sect)
        BY <1>2, <2>10, <3>6, <4>1, EnterIs, Zenon
      <4> QED
        BY <2>10, <3>1, <3>3, <4>2, <4>3, WalksTwice, Zenon DEF Advances
    <3>7. CASE g.val \notin {0, 1, DISK} \cup Clusters(G)
      <4>1. w = IF stretch THEN Stretch(g, ofs) ELSE EndOfTable(g)
        BY <3>1, <3>2, <3>7
      <4>2. Advances(G, g, Stretch(g, ofs))
        BY <1>2, <2>10, StretchIs
      <4>3. Advances(G, g, EndOfTable(g))
        BY <2>10, <3>3, EndIs, Zenon DEF Advances
      <4> QED
        BY <2>10, <3>1, <4>1, <4>2, <4>3, AdvancesAfter, Zenon
    <3> QED
      BY <3>4, <3>5, <3>6, <3>7
  <2> QED
    BY <1>8, <1>11, <2>8, <2>9, <2>11
<1> QED
  BY <1>10, <1>11

(* Where a search is: on its way or at what it looked for.                 *)
Paces(G, v, w) ==
  /\ Walks(G, v, w)
  /\ w.res = "OK" => Beyond(G, w.dp.sect)
  /\ w.res = "FOUND" => Stands(G, w)

(* Where it ends.                                                          *)
Ended(G, v, w) == Walks(G, v, w) /\ w.res # "OK" /\ (w.res = "FOUND" => Stands(G, w))

(* The loop of the searches.                                               *)
Look(w, names, among, stretch) ==
  IfOk(move_window(w, w.dp.sect), LAMBDA m :
    IF (Entry(m).name \in names) = among THEN Failed(m, "FOUND") ELSE dir_next(m, stretch))

WalkStep(c, i, s)  == IF s.res = "OK" THEN Look(s, c.names, c.among, c.stretch) ELSE s
WalkKeeps(c, i, s) == Paces(c.G, c.v, s)
WalkLoop == INSTANCE Loops WITH Step <- WalkStep, Keeps <- WalkKeeps

(* A move to the sector of the directory object.                           *)
LEMMA MoveStands ==
  ASSUME NEW G, GeoOK(G), NEW v, Good(G, v), DpOK(G, v.dp), NEW m, m = move_window(v, v.dp.sect)
  PROVE  /\ Walks(G, v, m) /\ Good(G, m) /\ DpOK(G, m.dp) /\ m.dp = v.dp
         /\ m.res \in {"OK", "DISK_ERR"}
         /\ m.res = "OK" /\ Beyond(G, v.dp.sect) => Stands(G, m)
<1>1. Unhurt(G, v, m, WinFields) /\ m.res \in {"OK", "DISK_ERR"} /\ (m.res = "OK" => m.winsect = v.dp.sect)
  BY MoveUnhurt
<1>2. Walks(G, v, m) /\ m.dp = v.dp
  BY <1>1, WinWalks, Zenon
<1> QED
  BY <1>1, <1>2, WalksGood, Zenon DEF Stands

LEMMA LookPaces ==
  ASSUME NEW G, GeoOK(G), NEW v, Good(G, v), DpOK(G, v.dp), Beyond(G, v.dp.sect),
         NEW names, NEW among, NEW stretch
  PROVE  Paces(G, v, Look(v, names, among, stretch))
<1>1. PICK m : m = move_window(v, v.dp.sect)
  OBVIOUS
<1>2. Look(v, names, among, stretch) =
        IF m.res = "OK"
          THEN IF (Entry(m).name \in names) = among THEN Failed(m, "FOUND") ELSE dir_next(m, stretch)
          ELSE m
  BY <1>1, Zenon DEF Look, IfOk
<1>3. /\ Walks(G, v, m) /\ Good(G, m) /\ DpOK(G, m.dp)
      /\ m.res \in {"OK", "DISK_ERR"} /\ (m.res = "OK" => Stands(G, m))
  BY <1>1, MoveStands
<1>4. CASE m.res # "OK"
  <2>1. m.res # "FOUND"
    BY <1>3
  <2> QED
    BY <1>2, <1>3, <1>4, <2>1, Zenon DEF Paces
<1>5. CASE m.res = "OK"
  <2>1. CASE (Entry(m).name \in names) = among
    <3>1. /\ Walks(G, m, Failed(m, "FOUND")) /\ Failed(m, "FOUND").res = "FOUND"
          /\ Failed(m, "FOUND").dp = m.dp /\ Failed(m, "FOUND").winsect = m.winsect
      BY <1>3, FailWalks
    <3>2. "FOUND" # "OK"
      OBVIOUS
    <3> QED
      BY <1>2, <1>3, <1>5, <2>1, <3>1, <3>2, WalksTwice, Zenon DEF Paces, Stands
  <2>2. CASE (Entry(m).name \in names) # among
    <3>1. Advances(G, m, dir_next(m, stretch))
      BY <1>3, NextIs, Zenon
    <3> QED
      BY <1>2, <1>3, <1>5, <2>2, <3>1, AdvancesAfter, Zenon DEF Paces, Advances
  <2> QED
    BY <2>1, <2>2
<1> QED
  BY <1>4, <1>5

LEMMA MaxEntriesIs ==
  ASSUME NEW G, GeoOK(G), NEW v, HasGeo(G, v) PROVE MaxEntries(v) \in Nat
<1>1. v.n_rootdir \in Nat /\ v.csize \in Nat /\ v.n_fatent - 2 \in Nat
  <2>1. v.n_rootdir = G.n_rootdir /\ v.csize = G.csize /\ v.n_fatent = G.n_fatent
    BY GeoIs
  <2>2. G.n_rootdir \in Nat /\ G.csize \in Nat /\ G.n_fatent \in Nat /\ G.n_fatent >= 3
    BY DEF GeoOK
  <2> QED
    BY <2>1, <2>2
<1>2. PICK x : x = (v.n_fatent - 2) * v.csize
  OBVIOUS
<1>3. x \in Nat
  BY <1>1, <1>2
<1>4. PICK y : y = x * SS
  OBVIOUS
<1>5. y \in Nat
  BY <1>3, <1>4, SectorAssumption
<1>6. y \div SZDIRE \in Nat
  BY <1>5, SectorAssumption, DivMod
<1>7. MaxEntries(v) = v.n_rootdir + 1 + (y \div SZDIRE)
  BY <1>2, <1>4 DEF MaxEntries
<1> QED
  BY <1>1, <1>6, <1>7

LEMMA WalkPaces ==
  ASSUME NEW G, GeoOK(G), NEW v, Good(G, v), DpOK(G, v.dp),
         v.res = "OK" => Beyond(G, v.dp.sect), v.res # "FOUND",
         NEW names, NEW among, NEW stretch
  PROVE  Ended(G, v, Walk(v, names, among, stretch))
<1>1. PICK c : c = [G |-> G, v |-> v, names |-> names, among |-> among, stretch |-> stretch]
  OBVIOUS
<1>2. c.G = G /\ c.v = v /\ c.names = names /\ c.among = among /\ c.stretch = stretch
  BY <1>1
<1>3. PICK n : n = MaxEntries(v)
  OBVIOUS
<1>4. n \in Nat
  <2>1. HasGeo(G, v)
    BY Zenon DEF Good
  <2> QED
    BY <1>3, <2>1, MaxEntriesIs
<1>5. WalkKeeps(c, 0, v)
  BY <1>2, WalksStays, Zenon DEF WalkKeeps, Paces
<1>6. ASSUME NEW i \in 1 .. n, NEW s, WalkKeeps(c, i - 1, s) PROVE WalkKeeps(c, i, WalkStep(c, i, s))
  <2>1. Paces(G, v, s) /\ Good(G, s) /\ DpOK(G, s.dp)
    BY <1>2, <1>6, WalksGood, Zenon DEF WalkKeeps, Paces
  <2>2. CASE s.res = "OK"
    <3>1. PICK w : w = Look(s, names, among, stretch)
      OBVIOUS
    <3>2. Beyond(G, s.dp.sect)
      BY <2>1, <2>2, Zenon DEF Paces
    <3>3. Paces(G, s, w)
      BY <2>1, <3>1, <3>2, LookPaces, Zenon
    <3>4. Paces(G, v, w)
      BY <2>1, <3>3, WalksTwice, Zenon DEF Paces
    <3>5. WalkStep(c, i, s) = w
      BY <1>2, <2>2, <3>1, Zenon DEF WalkStep
    <3> QED
      BY <1>2, <3>4, <3>5, Zenon DEF WalkKeeps
  <2>3. CASE s.res # "OK"
    BY <1>6, <2>3, Zenon DEF WalkStep, WalkKeeps
  <2> QED
    BY <2>2, <2>3
<1>7. WalkKeeps(c, n, WalkLoop!Track(c, v, n)[n])
  BY <1>4, <1>5, <1>6, WalkLoop!LoopKeeps, AllNumbers, Zenon
<1>8. PICK w : w = WalkLoop!Track(c, v, n)[n]
  OBVIOUS
<1>9. Walk(v, names, among, stretch) = IF w.res = "OK" THEN EndOfTable(w) ELSE w
  BY <1>2, <1>3, <1>8 DEF WalkLoop!Track, Walk, After, While, WalkStep, Look
<1>10. Paces(G, v, w) /\ Good(G, w) /\ DpOK(G, w.dp)
  BY <1>2, <1>7, <1>8, WalksGood, Zenon DEF WalkKeeps, Paces
<1>11. Walks(G, w, EndOfTable(w)) /\ EndOfTable(w).res = "NO_FILE"
  BY <1>10, EndIs, Zenon
<1>12. "NO_FILE" # "OK" /\ "NO_FILE" # "FOUND"
  OBVIOUS
<1> QED
  BY <1>9, <1>10, <1>11, <1>12, WalksTwice, Zenon DEF Paces, Ended

(* A search from the beginning of a table.                                 *)
LEMMA SearchPaces ==
  ASSUME NEW G, GeoOK(G), NEW v, Good(G, v), DpOK(G, v.dp), NEW names, NEW among, NEW stretch
  PROVE  Ended(G, v, Walk(Rewind(v), names, among, stretch))
<1>1. PICK r : r = Rewind(v)
  OBVIOUS
<1>2. Walks(G, v, r) /\ r.res \in {"OK", "INT_ERR"} /\ (r.res = "OK" => Beyond(G, r.dp.sect))
  BY <1>1, RewindIs
<1>3. Good(G, r) /\ DpOK(G, r.dp)
  BY <1>2, WalksGood, Zenon
<1>4. r.res # "FOUND"
  BY <1>2
<1>5. Ended(G, r, Walk(r, names, among, stretch))
  BY <1>2, <1>3, <1>4, WalkPaces, Zenon
<1> QED
  BY <1>1, <1>2, <1>5, WalksTwice, Zenon DEF Ended

(* A search has found an entry, or found none.                             *)
Finds(G, v, w) == Walks(G, v, w) /\ (w.res = "OK" => Stands(G, w))

LEMMA FindsAfter ==
  ASSUME NEW G, NEW v, NEW u, NEW w, Walks(G, v, u), Finds(G, u, w) PROVE Finds(G, v, w)
BY WalksTwice, Zenon DEF Finds

LEMMA FailFinds ==
  ASSUME NEW G, GeoOK(G), NEW v, Good(G, v), DpOK(G, v.dp), NEW r, r # "OK"
  PROVE  Finds(G, v, Failed(v, r))
<1>1. Walks(G, v, Failed(v, r)) /\ Failed(v, r).res = r
  BY FailWalks
<1> QED
  BY <1>1, Zenon DEF Finds

LEMMA FoundIs ==
  ASSUME NEW G, GeoOK(G), NEW v, Good(G, v), DpOK(G, v.dp), Stands(G, v)
  PROVE  Finds(G, v, Found(v))
<1>1. PICK a : a = Entry(v).attr
  OBVIOUS
<1>2. PICK u : u = [v EXCEPT !.dp.attr = a]
  OBVIOUS
<1>3. Found(v) = Ok(u)
  BY <1>1, <1>2, Zenon DEF Found
<1>4. IsVol(v) /\ IsDp(v.dp)
  BY GoodIsVol, Zenon DEF DpOK
<1>5. Moves(v, u) /\ u.dp.dptr = v.dp.dptr /\ u.dp.sect = v.dp.sect
  BY <1>2, <1>4, Zenon DEF Moves, IsVol, Differ, VolFields, IsDp, DpNames
<1>6. Walks(G, v, u) /\ u.winsect = v.winsect
  BY <1>5, MovesWalks, Zenon DEF DpOK
<1>7. Walks(G, u, Ok(u)) /\ Ok(u).dp = u.dp /\ Ok(u).winsect = u.winsect
  BY <1>6, WalksGood, OkWalks
<1> QED
  BY <1>3, <1>5, <1>6, <1>7, WalksTwice, Zenon DEF Finds, Stands

LEMMA AllocIs ==
  ASSUME NEW G, GeoOK(G), NEW v, Good(G, v), DpOK(G, v.dp)
  PROVE  Finds(G, v, dir_alloc(v))
<1>1. PICK w : w = Walk(Rewind(v), {"deleted", "end"}, TRUE, TRUE)
  OBVIOUS
<1>2. Ended(G, v, w) /\ Good(G, w) /\ DpOK(G, w.dp)
  <2>1. PICK names : names = {"deleted", "end"}
    OBVIOUS
  <2>2. Ended(G, v, w)
    BY <1>1, <2>1, SearchPaces, Zenon
  <2> QED
    BY <2>2, WalksGood, Zenon DEF Ended
<1>3. dir_alloc(v) = CASE w.res = "FOUND" -> Ok(w) [] w.res = "NO_FILE" -> Failed(w, "DENIED") [] OTHER -> w
  BY <1>1 DEF dir_alloc, After
<1>4. CASE w.res = "FOUND"
  <2>1. dir_alloc(v) = Ok(w)
    BY <1>3, <1>4
  <2>2. Walks(G, w, Ok(w)) /\ Ok(w).dp = w.dp /\ Ok(w).winsect = w.winsect /\ Stands(G, w)
    BY <1>2, <1>4, OkWalks DEF Ended
  <2> QED
    BY <1>2, <2>1, <2>2, WalksTwice, Zenon DEF Finds, Stands, Ended
<1>5. CASE w.res = "NO_FILE"
  <2>1. dir_alloc(v) = Failed(w, "DENIED")
    BY <1>3, <1>5
  <2>2. Walks(G, w, Failed(w, "DENIED")) /\ Failed(w, "DENIED").res = "DENIED"
    BY <1>2, FailWalks
  <2>3. "DENIED" # "OK"
    OBVIOUS
  <2> QED
    BY <1>2, <2>1, <2>2, <2>3, WalksTwice, Zenon DEF Finds, Ended
<1>6. CASE w.res \notin {"FOUND", "NO_FILE"}
  <2>1. dir_alloc(v) = w
    BY <1>3, <1>6
  <2> QED
    BY <1>2, <2>1, Zenon DEF Finds, Ended
<1> QED
  BY <1>4, <1>5, <1>6

LEMMA FindIs ==
  ASSUME NEW G, GeoOK(G), NEW v, Good(G, v), DpOK(G, v.dp)
  PROVE  Finds(G, v, dir_find(v))
<1>1. PICK w : w = Walk(Rewind(v), {"end", v.dp.fn}, TRUE, FALSE)
  OBVIOUS
<1>2. Ended(G, v, w) /\ Good(G, w) /\ DpOK(G, w.dp)
  <2>1. PICK names : names = {"end", v.dp.fn}
    OBVIOUS
  <2>2. Ended(G, v, w)
    BY <1>1, <2>1, SearchPaces, Zenon
  <2> QED
    BY <2>2, WalksGood, Zenon DEF Ended
<1>3. dir_find(v) = IF w.res # "FOUND" THEN w
                    ELSE IF Entry(w).name = "end" THEN Failed(w, "NO_FILE") ELSE Found(w)
  BY <1>1 DEF dir_find, After
<1>4. Finds(G, v, w)
  BY <1>2, Zenon DEF Finds, Ended
<1>5. w.res = "FOUND" => Stands(G, w)
  BY <1>2, Zenon DEF Ended
<1>6. Finds(G, w, Failed(w, "NO_FILE"))
  <2>1. "NO_FILE" # "OK"
    OBVIOUS
  <2> QED
    BY <1>2, <2>1, FailFinds, Zenon
<1> QED
  BY <1>2, <1>3, <1>4, <1>5, <1>6, FoundIs, FindsAfter, Zenon DEF Ended

LEMMA ReadIs ==
  ASSUME NEW G, GeoOK(G), NEW v, Good(G, v), DpOK(G, v.dp)
  PROVE  Finds(G, v, dir_read(v))
<1>1. PICK names : names = {"deleted", ".", ".."}
  OBVIOUS
<1>2. PICK w : w = IF v.dp.sect = 0 THEN Failed(v, "NO_FILE") ELSE Walk(Ok(v), names, FALSE, FALSE)
  OBVIOUS
<1>3. PICK t : t = [w EXCEPT !.dp.sect = 0]
  OBVIOUS
<1>4. dir_read(v) = CASE w.res = "FOUND" /\ Entry(w).name # "end" -> Found(w)
                      [] w.res = "FOUND" /\ Entry(w).name = "end" -> EndOfTable(w)
                      [] OTHER -> t
  BY <1>1, <1>2, <1>3 DEF dir_read, After
<1>5. Ended(G, v, w) /\ Good(G, w) /\ DpOK(G, w.dp)
  <2>1. CASE v.dp.sect = 0
    <3>1. Walks(G, v, Failed(v, "NO_FILE")) /\ Failed(v, "NO_FILE").res = "NO_FILE"
      BY FailWalks
    <3>2. "NO_FILE" # "OK" /\ "NO_FILE" # "FOUND"
      OBVIOUS
    <3> QED
      BY <1>2, <2>1, <3>1, <3>2, WalksGood, Zenon DEF Ended
  <2>2. CASE v.dp.sect # 0
    <3>1. PICK u : u = Ok(v)
      OBVIOUS
    <3>2. Walks(G, v, u) /\ u.res = "OK" /\ u.dp = v.dp /\ Good(G, u) /\ DpOK(G, u.dp)
      BY <3>1, OkWalks, WalksGood
    <3>3. Beyond(G, u.dp.sect) /\ u.res # "FOUND"
      <4>1. Beyond(G, v.dp.sect)
        BY <2>2, Zenon DEF DpOK
      <4> QED
        BY <3>2, <4>1
    <3>4. w = Walk(u, names, FALSE, FALSE)
      BY <1>2, <2>2, <3>1, Zenon
    <3>5. Ended(G, u, w)
      BY <3>2, <3>3, <3>4, WalkPaces, Zenon
    <3> QED
      BY <3>2, <3>5, WalksTwice, WalksGood, Zenon DEF Ended
  <2> QED
    BY <2>1, <2>2
<1>6. Finds(G, w, EndOfTable(w)) /\ (w.res # "OK" => Finds(G, w, t))
  <2>1. "NO_FILE" # "OK"
    OBVIOUS
  <2> QED
    BY <1>3, <1>5, <2>1, EndIs, Zenon DEF Finds
<1>7. CASE w.res = "FOUND"
  <2>1. dir_read(v) = IF Entry(w).name # "end" THEN Found(w) ELSE EndOfTable(w)
    BY <1>4, <1>7
  <2>2. Finds(G, w, Found(w))
    BY <1>5, <1>7, FoundIs, Zenon DEF Ended
  <2> QED
    BY <1>5, <1>6, <2>1, <2>2, FindsAfter, Zenon DEF Ended
<1>8. CASE w.res # "FOUND"
  <2>1. dir_read(v) = t
    BY <1>4, <1>8
  <2> QED
    BY <1>5, <1>6, <2>1, FindsAfter, Zenon DEF Ended
<1> QED
  BY <1>7, <1>8

LEMMA RegisterIs ==
  ASSUME NEW G, GeoOK(G), NEW v, Good(G, v), DpOK(G, v.dp)
  PROVE  Finds(G, v, dir_register(v))
<1>1. PICK a : a = dir_alloc(v)
  OBVIOUS
<1>2. PICK m : m = move_window(a, a.dp.sect)
  OBVIOUS
<1>3. PICK e : e = [EndEntry EXCEPT !.name = v.dp.fn]
  OBVIOUS
<1>4. dir_register(v) = IF a.res = "OK" THEN IF m.res = "OK" THEN SetEntry(m, e) ELSE m ELSE a
  BY <1>1, <1>2, <1>3 DEF dir_register, IfOk
<1>5. Finds(G, v, a) /\ Good(G, a) /\ DpOK(G, a.dp)
  BY <1>1, AllocIs, WalksGood, Zenon DEF Finds
<1>6. CASE a.res # "OK"
  BY <1>4, <1>5, <1>6
<1>7. CASE a.res = "OK"
  <2>1. Beyond(G, a.dp.sect)
    BY <1>5, <1>7, Zenon DEF Finds, Stands
  <2>2. Walks(G, a, m) /\ Good(G, m) /\ DpOK(G, m.dp) /\ (m.res = "OK" => Stands(G, m))
    BY <1>2, <1>5, <2>1, MoveStands
  <2>3. Finds(G, a, m)
    BY <2>2, Zenon DEF Finds
  <2>4. CASE m.res = "OK"
    <3>1. IsEntry(e)
      BY <1>3 DEF IsEntry, EndEntry
    <3>2. PICK w : w = SetEntry(m, e)
      OBVIOUS
    <3>3. Walks(G, m, w) /\ w.dp = m.dp /\ w.winsect = m.winsect
      BY <2>2, <2>4, <3>1, <3>2, EntrySet, Zenon DEF Stands
    <3>4. Finds(G, m, w)
      BY <2>2, <2>4, <3>3, Zenon DEF Finds, Stands
    <3> QED
      BY <1>4, <1>5, <1>7, <2>2, <2>4, <3>2, <3>4, FindsAfter, Zenon DEF Finds
  <2>5. CASE m.res # "OK"
    BY <1>4, <1>5, <1>7, <2>3, <2>5, FindsAfter, Zenon DEF Finds
  <2> QED
    BY <2>4, <2>5
<1> QED
  BY <1>6, <1>7

LEMMA RemoveEntryIs ==
  ASSUME NEW G, GeoOK(G), NEW v, Good(G, v), DpOK(G, v.dp), Beyond(G, v.dp.sect)
  PROVE  Walks(G, v, dir_remove(v))
<1>1. PICK m : m = move_window(v, v.dp.sect)
  OBVIOUS
<1>2. dir_remove(v) = IF m.res = "OK" THEN SetEntry(m, DeletedEntry) ELSE m
  BY <1>1, Zenon DEF dir_remove, IfOk
<1>3. Walks(G, v, m) /\ Good(G, m) /\ DpOK(G, m.dp) /\ (m.res = "OK" => Stands(G, m))
  BY <1>1, MoveStands
<1>4. IsEntry(DeletedEntry)
  BY DEF IsEntry, DeletedEntry
<1>5. m.res = "OK" => Walks(G, m, SetEntry(m, DeletedEntry))
  BY <1>3, <1>4, EntrySet, Zenon DEF Stands
<1> QED
  BY <1>2, <1>3, <1>5, WalksTwice, Zenon

-----------------------------------------------------------------------------
(* Paths. *)

LEMMA DescendIs ==
  ASSUME NEW G, GeoOK(G), NEW v, Good(G, v), DpOK(G, v.dp), NEW path, NEW i
  PROVE  Finds(G, v, Descend(v, path, i))
<1>1. PICK n : n = path[i]
  OBVIOUS
<1>2. PICK u : u = [v EXCEPT !.dp.fn = n]
  OBVIOUS
<1>3. PICK f : f = dir_find(u)
  OBVIOUS
<1>4. PICK k : k = Entry(f).clust
  OBVIOUS
<1>5. PICK d : d = [f EXCEPT !.dp.sclust = k]
  OBVIOUS
<1>6. PICK w : w = Descend(v, path, i)
  OBVIOUS
<1>7. w = CASE f.res = "NO_FILE" /\ i < Len(path) -> Failed(f, "NO_PATH")
            [] f.res = "OK" /\ i < Len(path) -> IF f.dp.attr # "dir" THEN Failed(f, "NO_PATH") ELSE d
            [] OTHER -> f
  BY <1>1, <1>2, <1>3, <1>4, <1>5, <1>6 DEF Descend, After
<1>8. IsVol(v) /\ IsDp(v.dp)
  BY GoodIsVol, Zenon DEF DpOK
<1>9. Moves(v, u) /\ u.dp.dptr = v.dp.dptr /\ u.dp.sect = v.dp.sect
  BY <1>2, <1>8, Zenon DEF Moves, IsVol, Differ, VolFields, IsDp, DpNames
<1>10. Walks(G, v, u) /\ Good(G, u) /\ DpOK(G, u.dp)
  BY <1>9, MovesWalks, WalksGood, Zenon DEF DpOK
<1>11. Finds(G, u, f) /\ Good(G, f) /\ DpOK(G, f.dp)
  BY <1>3, <1>10, FindIs, WalksGood, Zenon DEF Finds
<1>12. Finds(G, v, f)
  BY <1>10, <1>11, FindsAfter, Zenon
<1>13. Finds(G, v, Failed(f, "NO_PATH"))
  <2>1. "NO_PATH" # "OK"
    OBVIOUS
  <2> QED
    BY <1>11, <1>12, <2>1, FailFinds, FindsAfter, Zenon DEF Finds
<1>14. Finds(G, v, d)
  <2>1. IsVol(f) /\ IsDp(f.dp)
    BY <1>11, GoodIsVol, Zenon DEF DpOK
  <2>2. Moves(f, d) /\ d.dp.dptr = f.dp.dptr /\ d.dp.sect = f.dp.sect
    BY <1>5, <2>1, Zenon DEF Moves, IsVol, Differ, VolFields, IsDp, DpNames
  <2>3. Walks(G, f, d) /\ d.winsect = f.winsect /\ d.res = f.res
    BY <1>11, <2>2, MovesWalks, Zenon DEF DpOK
  <2> QED
    BY <1>12, <2>2, <2>3, WalksTwice, Zenon DEF Finds, Stands
<1>15. w = f \/ w = Failed(f, "NO_PATH") \/ w = d
  BY <1>7
<1> QED
  BY <1>6, <1>12, <1>13, <1>14, <1>15, Zenon

(* A path is followed from the root.                                       *)
Goes(G, v, w) == Serves(G, v, w, DirFields) /\ DpOK(G, w.dp)

LEMMA GoesTwice ==
  ASSUME NEW G, NEW v, NEW u, NEW w, Goes(G, v, u), Goes(G, u, w) PROVE Goes(G, v, w)
BY ServesTwice, Zenon DEF Goes

LEMMA WalksGoes ==
  ASSUME NEW G, NEW v, NEW w, Walks(G, v, w) PROVE Goes(G, v, w)
BY Zenon DEF Walks, Goes

LEMMA GoesGood ==
  ASSUME NEW G, NEW v, NEW w, Goes(G, v, w) PROVE Good(G, w) /\ DpOK(G, w.dp) /\ IsVol(w)
BY Zenon DEF Goes, Serves, Differ

PathStep(c, i, s)  == IF s.res = "OK" THEN Descend(s, c.path, i) ELSE s
PathKeeps(c, i, s) == Walks(c.G, c.v, s) /\ (i # 0 /\ s.res = "OK" => Stands(c.G, s))
PathLoop == INSTANCE Loops WITH Step <- PathStep, Keeps <- PathKeeps

\* The loop of follow_path: the first n names of the path, one by one.
PathAll(n, path, v) == For(n, LAMBDA i, s : Descend(s, path, i), v)

LEMMA PathFollowed ==
  ASSUME NEW G, GeoOK(G), NEW v, Good(G, v), DpOK(G, v.dp), NEW path, NEW n \in Nat
  PROVE  LET w == PathAll(n, path, v) IN
         Walks(G, v, w) /\ (n # 0 /\ w.res = "OK" => Stands(G, w))
<1>1. PICK c : c = [G |-> G, v |-> v, path |-> path]
  OBVIOUS
<1>2. c.G = G /\ c.v = v /\ c.path = path
  BY <1>1
<1>3. PathKeeps(c, 0, v)
  BY <1>2, WalksStays, Zenon DEF PathKeeps
<1>4. ASSUME NEW i \in 1 .. n, NEW s, PathKeeps(c, i - 1, s) PROVE PathKeeps(c, i, PathStep(c, i, s))
  <2>1. Walks(G, v, s) /\ Good(G, s) /\ DpOK(G, s.dp)
    BY <1>2, <1>4, WalksGood, Zenon DEF PathKeeps
  <2>2. PICK w : w = Descend(s, path, i)
    OBVIOUS
  <2>3. Finds(G, s, w)
    BY <2>1, <2>2, DescendIs, Zenon
  <2>4. Finds(G, v, w)
    BY <2>1, <2>3, FindsAfter, Zenon
  <2>5. PathStep(c, i, s) = IF s.res = "OK" THEN w ELSE s
    BY <1>2, <2>2, Zenon DEF PathStep
  <2> QED
    BY <1>2, <2>1, <2>4, <2>5, Zenon DEF PathKeeps, Finds
<1>5. PathKeeps(c, n, PathLoop!Track(c, v, n)[n])
  BY <1>3, <1>4, PathLoop!LoopKeeps, AllNumbers, Zenon
<1>6. PathLoop!Track(c, v, n)[n] = PathAll(n, path, v)
  BY <1>2 DEF PathLoop!Track, PathAll, For, PathStep
<1> QED
  BY <1>2, <1>5, <1>6 DEF PathKeeps

LEMMA FollowIs ==
  ASSUME NEW G, GeoOK(G), NEW v, Good(G, v), DpOK(G, v.dp), NEW path \in Seq(STRING)
  PROVE  LET w == follow_path(v, path) IN
         /\ Goes(G, v, w)
         /\ w.res = "OK" /\ ~w.dp.noname => Stands(G, w)
<1>1. PICK b : b = (path = ROOT)
  OBVIOUS
<1>2. PICK o : o = [v EXCEPT !.dp.sclust = 0, !.dp.noname = b]
  OBVIOUS
<1>3. PICK w : w = follow_path(v, path)
  OBVIOUS
<1>4. w = IF path = ROOT THEN Rewind(o) ELSE PathAll(Len(path), path, Ok(o))
  BY <1>1, <1>2, <1>3 DEF follow_path, PathAll, For
<1>5. IsVol(v) /\ IsDp(v.dp)
  BY GoodIsVol, Zenon DEF DpOK
<1>6. Differ(v, o, {"dp"}) /\ IsDp(o.dp) /\ o.dp.noname = b /\ o.dp.dptr = v.dp.dptr /\ o.dp.sect = v.dp.sect
  BY <1>2, <1>5, Zenon DEF Moves, IsVol, Differ, VolFields, IsDp, DpNames
<1>7. Goes(G, v, o) /\ Good(G, o) /\ DpOK(G, o.dp)
  <2> DEFINE F == {"dp"}
  <2>1. F \cap GeoFields = {} /\ F \cap {"disk", "fuel", "wflag", "win", "winsect"} = {} /\ F \subseteq DirFields
    BY Zenon DEF GeoFields, DirFields
  <2>2. "free_clst" \notin F
    OBVIOUS
  <2>3. Differ(v, o, F)
    BY <1>6
  <2> HIDE DEF F
  <2>4. Unhurt(G, v, o, F)
    BY <2>1, <2>3, RegisterUnhurt, Zenon
  <2>5. Serves(G, v, o, DirFields)
    BY <2>1, <2>2, <2>4, UnhurtServes, ServesMore, Zenon
  <2>6. DpOK(G, o.dp)
    BY <1>6, Zenon DEF DpOK
  <2> QED
    BY <2>5, <2>6, Zenon DEF Goes, Serves
<1>8. CASE path = ROOT
  <2>1. w = Rewind(o)
    BY <1>4, <1>8
  <2>2. Walks(G, o, w)
    BY <1>7, <2>1, RewindIs
  <2>3. w.dp.noname
    BY <1>1, <1>6, <1>8, <2>2, Zenon DEF Walks
  <2> QED
    BY <1>3, <1>7, <2>2, <2>3, WalksGoes, GoesTwice, Zenon
<1>9. CASE path # ROOT
  <2>1. Len(path) \in Nat /\ Len(path) # 0
    BY <1>9 DEF ROOT
  <2>2. PICK q : q = Ok(o)
    OBVIOUS
  <2>3. Walks(G, o, q) /\ Good(G, q) /\ DpOK(G, q.dp)
    BY <1>7, <2>2, OkWalks, WalksGood
  <2>4. w = PathAll(Len(path), path, q)
    BY <1>4, <1>9, <2>2
  <2>5. Walks(G, q, w) /\ (w.res = "OK" => Stands(G, w))
    BY <2>1, <2>3, <2>4, PathFollowed
  <2> QED
    BY <1>3, <1>7, <2>3, <2>5, WalksGoes, GoesTwice, Zenon
<1> QED
  BY <1>8, <1>9

-----------------------------------------------------------------------------
(* Mounting. *)

(* The count of free clusters of a mounted volume is exact; a volume that  *)
(* is not mounted is as it was formatted, if it has an FSInfo sector.      *)
Accurate(G, v) ==
  IF v.state = "mounted" THEN Exact(v) ELSE G.fs_type = "FAT32" => v.disk = G.disk

(* Nothing is in the window of a formatted volume, and its FSInfo sector   *)
(* is right.                                                               *)
Fresh(G) ==
  /\ Good(G, G) /\ G.winsect = NoSector
  /\ G.fs_type = "FAT32" => G.disk[1].body[1] = Cardinality(FreeClusters(G))

(* A call that begins with v leaves w.                                     *)
Leaves(G, v, w) ==
  /\ Good(G, w) /\ Calm(G, v, w) /\ DpOK(G, w.dp)
  /\ Quiet(v) /\ Accurate(G, v) => Accurate(G, w)
  /\ v.state = "mounted" => w.state = "mounted"

LEMMA LeavesTwice ==
  ASSUME NEW G, NEW v, NEW u, NEW w, Leaves(G, v, u), Leaves(G, u, w) PROVE Leaves(G, v, w)
BY Zenon DEF Leaves, Calm

LEMMA GoesLeaves ==
  ASSUME NEW G, NEW v, NEW w, Goes(G, v, w), v.state = "mounted"
  PROVE  Leaves(G, v, w) /\ w.state = "mounted"
<1>1. "state" \in VolFields /\ "state" \notin DirFields
  BY Zenon DEF VolFields, DirFields, ChainFields, ReadFields, WinFields
<1>2. w.state = "mounted"
  BY <1>1, Zenon DEF Goes, Serves, Differ
<1> QED
  BY <1>2, Zenon DEF Leaves, Goes, Serves, CountStays, Accurate

LEMMA MoveClean ==
  ASSUME NEW G, GeoOK(G), NEW v, Good(G, v), v.wflag = FALSE, NEW s, s # v.winsect
  PROVE  LET w == move_window(v, s) IN
         /\ w.disk = v.disk /\ w.wflag = FALSE /\ (w.res = "OK" => w.win = v.disk[s])
<1>1. IsVol(v)
  BY GoodIsVol, Zenon
<1>2. PICK u : u = Ok(v)
  OBVIOUS
<1>3. Differ(v, u, {"res"}) /\ u.res = "OK"
  BY <1>1, <1>2, ResIs
<1>4. u.disk = v.disk /\ u.wflag = FALSE /\ IsVol(u)
  BY <1>3, Zenon DEF Differ, VolFields
<1>5. sync_window(v) = u
  BY <1>2, Zenon DEF sync_window
<1>6. PICK r : r = disk_read(u, s)
  OBVIOUS
<1>7. Differ(u, r, {"fuel", "res"})
  BY <1>4, <1>6, DiskReadIs
<1>8. r.disk = v.disk /\ r.wflag = FALSE /\ IsVol(r)
  BY <1>4, <1>7, Zenon DEF Differ, VolFields
<1>9. PICK a : a = [r EXCEPT !.winsect = s, !.win = r.disk[s]]
  OBVIOUS
<1>10. PICK b : b = [r EXCEPT !.winsect = NoSector]
  OBVIOUS
<1>11. move_window(v, s) = IF r.res = "OK" THEN a ELSE b
  BY <1>3, <1>5, <1>6, <1>9, <1>10 DEF move_window, IfOk, After
<1>12. a.disk = v.disk /\ a.wflag = FALSE /\ a.win = v.disk[s] /\ a.res = r.res
  BY <1>8, <1>9, Zenon DEF IsVol, VolFields
<1>13. b.disk = v.disk /\ b.wflag = FALSE /\ b.res = r.res
  BY <1>8, <1>10, Zenon DEF IsVol, VolFields
<1> QED
  BY <1>11, <1>12, <1>13

(* The window is dropped.                                                  *)
Dropped(v, w) ==
  Differ(v, w, {"wflag", "winsect"}) /\ w.wflag = FALSE /\ w.winsect = NoSector

LEMMA DroppedIs ==
  ASSUME NEW G, GeoOK(G), NEW v, Good(G, v), NEW w, Dropped(v, w)
  PROVE  Good(G, w) /\ Calm(G, v, w) /\ w.disk = v.disk /\ w.state = v.state /\ w.dp = v.dp
<1>1. w.disk = v.disk /\ w.fuel = v.fuel /\ w.win = v.win /\ w.state = v.state /\ w.dp = v.dp
  BY Zenon DEF Dropped, Differ, VolFields
<1>2. HasGeo(G, w)
  <2>1. {"wflag", "winsect"} \cap GeoFields = {}
    BY Zenon DEF GeoFields
  <2> QED
    BY <1>1, <2>1, GeoStays, Zenon DEF Good, Dropped
<1>3. NoSector \notin Fats(G) /\ NoSector \notin Fat1(G)
  BY FatsIn, Zenon
<1>4. WindowOK(G, w)
  BY <1>1, <1>3, Zenon DEF WindowOK, Content, Dropped, Good
<1>5. DiskOK(G, w)
  BY <1>1, Zenon DEF DiskOK, Good
<1> QED
  BY <1>1, <1>2, <1>4, <1>5, Zenon DEF Good, Calm, Quiet, Mirror

(* The counts and the state of the FATFS object are set.                   *)
Counted(v, w, n, st) ==
  /\ Differ(v, w, {"free_clst", "last_clst", "fsi_flag", "state"})
  /\ w.free_clst = n /\ w.state = st

LEMMA CountedIs ==
  ASSUME NEW G, GeoOK(G), NEW v, Good(G, v), NEW w, NEW n, NEW st, Counted(v, w, n, st)
  PROVE  /\ Good(G, w) /\ Calm(G, v, w) /\ w.disk = v.disk /\ w.dp = v.dp /\ w.res = v.res
         /\ w.wflag = v.wflag /\ w.winsect = v.winsect /\ w.win = v.win /\ IsVol(w)
<1> DEFINE F == {"free_clst", "last_clst", "fsi_flag", "state"}
<1>1. F \cap GeoFields = {} /\ F \cap {"disk", "fuel", "wflag", "win", "winsect"} = {}
  BY Zenon DEF GeoFields
<1>2. Differ(v, w, F)
  BY DEF Counted
<1>3. /\ w.disk = v.disk /\ w.dp = v.dp /\ w.res = v.res
      /\ w.wflag = v.wflag /\ w.winsect = v.winsect /\ w.win = v.win
  BY <1>2, Zenon DEF Differ, VolFields
<1> HIDE DEF F
<1>4. Unhurt(G, v, w, F)
  BY <1>1, <1>2, RegisterUnhurt, Zenon
<1> QED
  BY <1>3, <1>4, GoodIsVol, Zenon DEF Unhurt

LEMMA UnknownExact ==
  ASSUME NEW G, GeoOK(G), NEW v, v.free_clst = UNKNOWN PROVE Exact(v)
BY DEF Exact, CountKnown, UNKNOWN

LEMMA FreshCount ==
  ASSUME NEW G, GeoOK(G), Fresh(G), G.fs_type = "FAT32", NEW w, Good(G, w),
         w.disk = G.disk, w.winsect \notin Fat1(G), w.free_clst = G.disk[1].body[1]
  PROVE  Exact(w)
<1>1. FatSame(G, G, w)
  <2>1. NoSector \notin Fat1(G)
    BY FatsIn, Zenon
  <2> QED
    BY <2>1, Zenon DEF FatSame, Seen, Fresh
<1>2. FreeClusters(w) = FreeClusters(G)
  BY <1>1, FreeSame, GoodIsVol, Zenon DEF Fresh
<1> QED
  BY <1>2, Zenon DEF Exact, Fresh

LEMMA MountIs ==
  ASSUME NEW G, GeoOK(G), Fresh(G), NEW v, Good(G, v), DpOK(G, v.dp)
  PROVE  LET w == mount_volume(v) IN
         /\ Leaves(G, v, w) /\ w.dp = v.dp
         /\ w.state = "mounted" \/ w.res \in {"NOT_ENABLED", "DISK_ERR"}
<1>1. PICK w : w = mount_volume(v)
  OBVIOUS
<1>2. IsVol(v) /\ v.volbase = 0 /\ v.fs_type = G.fs_type
  <2>1. IsVol(v) /\ v.volbase = G.volbase /\ v.fs_type = G.fs_type
    BY GoodIsVol, GeoIs, Zenon
  <2>2. G.volbase = 0
    BY DEF GeoOK
  <2> QED
    BY <2>1, <2>2
<1>3. CASE v.state = "mounted"
  <2>1. w = Ok(v)
    BY <1>1, <1>3 DEF mount_volume
  <2>2. Walks(G, v, w) /\ w.dp = v.dp
    BY <2>1, OkWalks
  <2> QED
    BY <1>1, <1>3, <2>2, WalksGoes, GoesLeaves, Zenon
<1>4. CASE v.state = "none"
  <2>1. w = Failed(v, "NOT_ENABLED")
    BY <1>1, <1>4 DEF mount_volume
  <2>2. Differ(v, w, {"res"}) /\ w.res = "NOT_ENABLED"
    BY <1>2, <2>1, ResIs
  <2>3. Walks(G, v, w) /\ w.dp = v.dp
    BY <2>1, FailWalks
  <2>4. w.disk = v.disk /\ w.state = v.state
    BY <2>2, Zenon DEF Differ, VolFields
  <2>5. "none" # "mounted" /\ w.res \in {"NOT_ENABLED", "DISK_ERR"}
    BY <2>2
  <2> QED
    BY <1>1, <1>4, <2>3, <2>4, <2>5, Zenon DEF Leaves, Walks, Serves, Accurate
<1>5. CASE v.state # "mounted" /\ v.state # "none"
  <2>1. PICK o : o = [v EXCEPT !.wflag = FALSE, !.winsect = NoSector]
    OBVIOUS
  <2>2. PICK m : m = move_window(o, 0)
    OBVIOUS
  <2>3. Dropped(v, o) /\ IsVol(o)
    BY <1>2, <2>1, Zenon DEF Dropped, IsVol, Differ, VolFields
  <2>4. Good(G, o) /\ Calm(G, v, o) /\ o.disk = v.disk /\ o.state = v.state /\ o.dp = v.dp /\ o.wflag = FALSE
    BY <2>3, DroppedIs, Zenon DEF Dropped
  <2>5. 0 # o.winsect
    BY <2>3 DEF Dropped, NoSector
  <2>6. m.disk = v.disk /\ m.wflag = FALSE
    BY <2>2, <2>4, <2>5, MoveClean
  <2>7. Unhurt(G, o, m, WinFields) /\ (m.res = "OK" => m.winsect = 0) /\ m.res \in {"OK", "DISK_ERR"}
    BY <2>2, <2>4, MoveUnhurt
  <2>8. /\ Good(G, m) /\ Calm(G, v, m) /\ m.dp = v.dp /\ m.state = v.state /\ m.fs_type = G.fs_type
        /\ IsVol(m)
    <3>1. Differ(o, m, WinFields) /\ Good(G, m)
      BY <2>7, Zenon DEF Unhurt
    <3>2. m.dp = o.dp /\ m.state = o.state
      BY <3>1, Zenon DEF Differ, WinFields, VolFields
    <3>3. m.fs_type = G.fs_type
      BY <3>1, GoodIsVol, GeoIs, Zenon
    <3> QED
      BY <2>4, <2>7, <3>1, <3>2, <3>3, GoodIsVol, Zenon DEF Unhurt, Calm
  <2>9. CASE m.res # "OK"
    <3>1. w = m
      BY <1>1, <1>2, <1>5, <2>1, <2>2, <2>9 DEF mount_volume, IfOk
    <3> QED
      BY <1>1, <1>5, <2>6, <2>7, <2>8, <2>9, <3>1, Zenon DEF Leaves, Accurate
  <2>10. CASE m.res = "OK" /\ G.fs_type # "FAT32"
    <3>1. PICK b : b = [m EXCEPT !.free_clst = UNKNOWN, !.last_clst = UNKNOWN, !.fsi_flag = 128]
      OBVIOUS
    <3>2. w = [b EXCEPT !.state = "mounted"]
      BY <1>1, <1>2, <1>5, <2>1, <2>2, <2>8, <2>10, <3>1 DEF mount_volume, IfOk
    <3>3. Counted(m, w, UNKNOWN, "mounted")
      BY <2>8, <3>1, <3>2, Zenon DEF Counted, IsVol, Differ, VolFields
    <3>4. Good(G, w) /\ Calm(G, m, w) /\ w.dp = m.dp /\ w.free_clst = UNKNOWN /\ w.state = "mounted"
      BY <2>8, <3>3, CountedIs, ZenonT(40) DEF Counted
    <3>5. Exact(w)
      BY <3>4, UnknownExact
    <3> QED
      BY <1>1, <2>8, <3>4, <3>5, Zenon DEF Leaves, Accurate, Calm
  <2>11. CASE m.res = "OK" /\ G.fs_type = "FAT32"
    <3>1. PICK b : b = [m EXCEPT !.free_clst = UNKNOWN, !.last_clst = UNKNOWN, !.fsi_flag = 128]
      OBVIOUS
    <3>2. PICK i : i = move_window(b, 1)
      OBVIOUS
    <3>3. Counted(m, b, UNKNOWN, m.state)
      BY <2>8, <3>1, Zenon DEF Counted, IsVol, Differ, VolFields
    <3>4. /\ Good(G, b) /\ Calm(G, m, b) /\ b.disk = m.disk /\ b.dp = m.dp
          /\ b.wflag = m.wflag /\ b.winsect = m.winsect /\ b.free_clst = UNKNOWN
      BY <2>8, <3>3, CountedIs, ZenonT(40) DEF Counted
    <3>5. 1 # b.winsect
      BY <2>7, <2>11, <3>4
    <3>6. i.disk = b.disk /\ i.wflag = FALSE /\ (i.res = "OK" => i.win = b.disk[1])
      <4>1. b.wflag = FALSE /\ Good(G, b)
        BY <2>6, <3>4, Zenon
      <4>2. PICK q : q = 1
        OBVIOUS
      <4>3. i = move_window(b, q) /\ q # b.winsect
        BY <3>2, <3>5, <4>2
      <4>4. i.disk = b.disk /\ i.wflag = FALSE /\ (i.res = "OK" => i.win = b.disk[q])
        BY <4>1, <4>3, MoveClean
      <4> QED
        BY <4>2, <4>4
    <3>7. Unhurt(G, b, i, WinFields) /\ (i.res = "OK" => i.winsect = 1)
      BY <3>2, <3>4, MoveUnhurt
    <3>8. Good(G, i) /\ Calm(G, b, i) /\ i.dp = b.dp /\ i.free_clst = b.free_clst /\ IsVol(i)
      <4>1. Differ(b, i, WinFields) /\ Good(G, i) /\ Calm(G, b, i)
        BY <3>7, Zenon DEF Unhurt
      <4>2. i.dp = b.dp /\ i.free_clst = b.free_clst
        BY <4>1, Zenon DEF Differ, WinFields, VolFields
      <4> QED
        BY <4>1, <4>2, GoodIsVol, Zenon
    <3>9. CASE i.res = "OK"
      <4>1. PICK x : x = i.win.body[1]
        OBVIOUS
      <4>2. PICK y : y = i.win.body[2]
        OBVIOUS
      <4>3. PICK k : k = [i EXCEPT !.free_clst = x, !.last_clst = y, !.fsi_flag = 0]
        OBVIOUS
      <4>4. w = [k EXCEPT !.state = "mounted"]
        BY <1>1, <1>2, <1>5, <2>1, <2>2, <2>8, <2>11, <3>1, <3>2, <3>9, <4>1, <4>2, <4>3 DEF mount_volume, IfOk, After
      <4>5. Counted(i, w, x, "mounted")
        BY <3>8, <4>3, <4>4, Zenon DEF Counted, IsVol, Differ, VolFields
      <4>6. /\ Good(G, w) /\ Calm(G, i, w) /\ w.dp = i.dp /\ w.free_clst = x /\ w.state = "mounted"
            /\ w.disk = v.disk /\ w.winsect = 1
        <5>1. /\ Good(G, w) /\ Calm(G, i, w) /\ w.dp = i.dp /\ w.disk = i.disk
              /\ w.winsect = i.winsect
          BY <3>8, <4>5, CountedIs, ZenonT(40)
        <5>2. w.free_clst = x /\ w.state = "mounted"
          BY <4>5, Zenon DEF Counted
        <5> QED
          BY <2>6, <3>4, <3>6, <3>7, <3>9, <5>1, <5>2, Zenon
      <4>7. v.disk = G.disk => Exact(w)
        <5>1. 1 \notin Fat1(G)
          BY <2>11, FatsIn, Zenon
        <5>2. x = v.disk[1].body[1]
          BY <2>6, <3>4, <3>6, <3>9, <4>1
        <5> QED
          BY <2>11, <4>6, <5>1, <5>2, FreshCount, Zenon
      <4> QED
        BY <1>1, <1>5, <2>8, <2>11, <3>4, <3>8, <4>6, <4>7, Zenon DEF Leaves, Accurate, Calm
    <3>10. CASE i.res # "OK"
      <4>1. PICK k : k = Ok(i)
        OBVIOUS
      <4>2. w = [k EXCEPT !.state = "mounted"]
        BY <1>1, <1>2, <1>5, <2>1, <2>2, <2>8, <2>11, <3>1, <3>2, <3>10, <4>1 DEF mount_volume, IfOk, After
      <4>3. Unhurt(G, i, k, WinFields) /\ Differ(i, k, {"res"})
        BY <3>8, <4>1, ResUnhurt, ResIs
      <4>4. Good(G, k) /\ Calm(G, i, k) /\ k.dp = i.dp /\ k.free_clst = i.free_clst /\ IsVol(k)
        <5>1. k.dp = i.dp /\ k.free_clst = i.free_clst
          BY <4>3, Zenon DEF Differ, VolFields
        <5> QED
          BY <4>3, <5>1, GoodIsVol, Zenon DEF Unhurt
      <4>5. Counted(k, w, k.free_clst, "mounted")
        BY <4>2, <4>4, Zenon DEF Counted, IsVol, Differ, VolFields
      <4>6. Good(G, w) /\ Calm(G, k, w) /\ w.dp = k.dp /\ w.free_clst = UNKNOWN /\ w.state = "mounted"
        <5>1. Good(G, w) /\ Calm(G, k, w) /\ w.dp = k.dp
          BY <4>4, <4>5, CountedIs, ZenonT(40)
        <5>2. w.free_clst = k.free_clst /\ w.state = "mounted"
          BY <4>5, Zenon DEF Counted
        <5> QED
          BY <3>4, <3>8, <4>4, <5>1, <5>2, Zenon
      <4>7. Exact(w)
        BY <4>6, UnknownExact
      <4> QED
        BY <1>1, <2>8, <3>4, <3>8, <4>4, <4>6, <4>7, Zenon DEF Leaves, Accurate, Calm
    <3> QED
      BY <3>9, <3>10
  <2> QED
    BY <2>9, <2>10, <2>11
<1> QED
  BY <1>3, <1>4, <1>5

LEMMA LocatedIs ==
  ASSUME NEW G, GeoOK(G), Fresh(G), NEW v, Good(G, v), DpOK(G, v.dp), NEW path \in Seq(STRING)
  PROVE  LET w == Located(v, path) IN
         /\ Leaves(G, v, w)
         /\ w.state = "mounted" \/ w.res \in {"NOT_ENABLED", "DISK_ERR"}
         /\ w.res = "OK" /\ ~w.dp.noname => Stands(G, w)
<1>1. PICK m : m = mount_volume(v)
  OBVIOUS
<1>2. PICK f : f = follow_path(m, path)
  OBVIOUS
<1>3. Located(v, path) = IF m.res = "OK" THEN f ELSE m
  BY <1>1, <1>2, Zenon DEF Located, IfOk
<1>4. Leaves(G, v, m) /\ (m.state = "mounted" \/ m.res \in {"NOT_ENABLED", "DISK_ERR"})
  BY <1>1, MountIs
<1>5. Good(G, m) /\ DpOK(G, m.dp)
  BY <1>4, Zenon DEF Leaves
<1>6. Goes(G, m, f) /\ (f.res = "OK" /\ ~f.dp.noname => Stands(G, f))
  BY <1>2, <1>5, FollowIs, Zenon
<1>7. CASE m.res = "OK"
  <2>1. m.state = "mounted"
    BY <1>4, <1>7
  <2>2. Leaves(G, m, f) /\ f.state = "mounted"
    BY <1>6, <2>1, GoesLeaves, Zenon
  <2> QED
    BY <1>3, <1>4, <1>6, <1>7, <2>2, LeavesTwice, Zenon
<1>8. CASE m.res # "OK"
  BY <1>3, <1>4, <1>8, Zenon
<1> QED
  BY <1>7, <1>8

LEMMA SyncGoes ==
  ASSUME NEW G, GeoOK(G), NEW v, Good(G, v), DpOK(G, v.dp) PROVE Goes(G, v, sync_fs(v))
BY SyncFsUnhurt, WinWalks, WalksGoes, Zenon

LEMMA FailGoes ==
  ASSUME NEW G, GeoOK(G), NEW v, Good(G, v), DpOK(G, v.dp), NEW r
  PROVE  Goes(G, v, Failed(v, r)) /\ Failed(v, r).dp = v.dp /\ Failed(v, r).res = r
<1>1. Walks(G, v, Failed(v, r)) /\ Failed(v, r).dp = v.dp /\ Failed(v, r).res = r
  BY FailWalks
<1> QED
  BY <1>1, WalksGoes, Zenon

LEMMA OkGoes ==
  ASSUME NEW G, GeoOK(G), NEW v, Good(G, v), DpOK(G, v.dp)
  PROVE  Goes(G, v, Ok(v)) /\ Ok(v).dp = v.dp /\ Ok(v).res = "OK"
BY OkWalks, WalksGoes, Zenon

LEMMA GoesStays ==
  ASSUME NEW G, NEW v, Good(G, v), DpOK(G, v.dp) PROVE Goes(G, v, v)
BY WalksStays, WalksGoes, Zenon

(* The directory object is exchanged.                                      *)
LEMMA WithIs ==
  ASSUME NEW G, GeoOK(G), NEW v, Good(G, v), NEW dp, DpOK(G, dp)
  PROVE  LET w == With(v, dp) IN
         /\ Goes(G, v, w) /\ w.dp = dp /\ w.winsect = v.winsect /\ w.res = v.res
         /\ Differ(v, w, {"dp"})
<1>1. IsVol(v)
  BY GoodIsVol, Zenon
<1>2. PICK w : w = With(v, dp)
  OBVIOUS
<1>3. Differ(v, w, {"dp"}) /\ w.dp = dp
  BY <1>1, <1>2, Zenon DEF With, IsVol, Differ, VolFields
<1>4. w.winsect = v.winsect /\ w.res = v.res
  BY <1>3, Zenon DEF Differ, VolFields
<1> DEFINE F == {"dp"}
<1>5. F \cap GeoFields = {} /\ F \cap {"disk", "fuel", "wflag", "win", "winsect"} = {} /\ F \subseteq DirFields
  BY Zenon DEF GeoFields, DirFields
<1>6. "free_clst" \notin F
  OBVIOUS
<1>7. Differ(v, w, F)
  BY <1>3
<1> HIDE DEF F
<1>8. Unhurt(G, v, w, F)
  BY <1>5, <1>7, RegisterUnhurt, Zenon
<1>9. Serves(G, v, w, DirFields)
  BY <1>5, <1>6, <1>8, UnhurtServes, ServesMore, Zenon
<1> QED
  BY <1>2, <1>3, <1>4, <1>9, Zenon DEF Goes

(* The table that the entry under dp leads to is entered.                  *)
LEMMA IntoIs ==
  ASSUME NEW G, GeoOK(G), NEW v, Good(G, v), DpOK(G, v.dp), NEW clst
  PROVE  LET w == Rewind([v EXCEPT !.dp.sclust = clst]) IN
         Goes(G, v, w) /\ (w.res = "OK" => Beyond(G, w.dp.sect))
<1>1. PICK u : u = [v EXCEPT !.dp.sclust = clst]
  OBVIOUS
<1>2. IsVol(v) /\ IsDp(v.dp)
  BY GoodIsVol, Zenon DEF DpOK
<1>3. Moves(v, u) /\ u.dp.dptr = v.dp.dptr /\ u.dp.sect = v.dp.sect
  BY <1>1, <1>2, Zenon DEF Moves, IsVol, Differ, VolFields, IsDp, DpNames
<1>4. Walks(G, v, u) /\ Good(G, u) /\ DpOK(G, u.dp)
  BY <1>3, MovesWalks, WalksGood, Zenon DEF DpOK
<1>5. PICK w : w = Rewind(u)
  OBVIOUS
<1>6. Walks(G, u, w) /\ (w.res = "OK" => Beyond(G, w.dp.sect))
  BY <1>4, <1>5, RewindIs
<1> QED
  BY <1>1, <1>4, <1>5, <1>6, WalksTwice, WalksGoes, Zenon

-----------------------------------------------------------------------------
(* Removing. *)

LEMMA RemovableIs ==
  ASSUME NEW G, GeoOK(G), NEW v, Good(G, v), DpOK(G, v.dp)
  PROVE  Goes(G, v, Removable(v)) /\ Removable(v).dp = v.dp
<1>1. CASE v.dp.attr # "dir"
  BY <1>1, GoesStays, Zenon DEF Removable
<1>2. CASE v.dp.attr = "dir"
  <2>1. PICK k : k = Entry(v).clust
    OBVIOUS
  <2>2. PICK u : u = Rewind([v EXCEPT !.dp.sclust = k])
    OBVIOUS
  <2>3. PICK d : d = IF u.res = "OK" THEN dir_read(u) ELSE u
    OBVIOUS
  <2>4. PICK w : w = With(d, v.dp)
    OBVIOUS
  <2>5. \/ Removable(v) = Failed(w, "DENIED")
        \/ Removable(v) = Ok(w)
        \/ Removable(v) = w
    BY <1>2, <2>1, <2>2, <2>3, <2>4 DEF Removable, IfOk, After
  <2>6. Goes(G, v, u) /\ Good(G, u) /\ DpOK(G, u.dp)
    BY <2>2, IntoIs, GoesGood, Zenon
  <2>7. Goes(G, u, dir_read(u))
    BY <2>6, ReadIs, WalksGoes, Zenon DEF Finds
  <2>8. Goes(G, v, d) /\ Good(G, d)
    BY <2>3, <2>6, <2>7, GoesTwice, GoesGood, Zenon
  <2>9. Goes(G, v, w) /\ w.dp = v.dp /\ Good(G, w)
    <3>1. Goes(G, d, w) /\ w.dp = v.dp
      BY <2>4, <2>8, WithIs
    <3> QED
      BY <2>8, <3>1, GoesTwice, GoesGood, Zenon
  <2>10. /\ Goes(G, w, Failed(w, "DENIED")) /\ Failed(w, "DENIED").dp = w.dp
         /\ Goes(G, w, Ok(w)) /\ Ok(w).dp = w.dp
    BY <2>9, FailGoes, OkGoes, Zenon
  <2> QED
    BY <2>5, <2>9, <2>10, GoesTwice, Zenon
<1> QED
  BY <1>1, <1>2

LEMMA ChainGoes ==
  ASSUME NEW G, GeoOK(G), NEW v, Good(G, v), DpOK(G, v.dp), NEW clst
  PROVE  Walks(G, v, remove_chain(v, clst, 0)) /\ remove_chain(v, clst, 0).dp = v.dp
<1>1. 0 \notin Clusters(G)
  BY ClustersAre, Zenon
<1>2. Serves(G, v, remove_chain(v, clst, 0), ChainFields)
  BY <1>1, RemoveServes, Zenon
<1> QED
  BY <1>2, ServesWalks, Zenon

LEMMA UnlinkIs ==
  ASSUME NEW G, GeoOK(G), Fresh(G), NEW v, Good(G, v), DpOK(G, v.dp), NEW path \in Seq(STRING)
  PROVE  Leaves(G, v, f_unlink(v, path))
<1>1. PICK p : p = Located(v, path)
  OBVIOUS
<1>2. PICK c : c = Removable(p)
  OBVIOUS
<1>3. PICK e : e = dir_remove(c)
  OBVIOUS
<1>4. PICK k : k = Entry(p).clust
  OBVIOUS
<1>5. PICK r : r = IF k # 0 THEN remove_chain(e, k, 0) ELSE e
  OBVIOUS
<1>6. f_unlink(v, path) = IF p.res # "OK" THEN p
                          ELSE IF p.dp.noname THEN Failed(p, "INVALID_NAME")
                          ELSE IF c.res # "OK" THEN c
                          ELSE IF e.res # "OK" THEN e
                          ELSE IF r.res # "OK" THEN r ELSE sync_fs(r)
  BY <1>1, <1>2, <1>3, <1>4, <1>5 DEF f_unlink, IfOk
<1>7. /\ Leaves(G, v, p) /\ (p.res = "OK" => p.state = "mounted")
      /\ p.res = "OK" /\ ~p.dp.noname => Stands(G, p)
  BY <1>1, LocatedIs
<1>8. Good(G, p) /\ DpOK(G, p.dp)
  BY <1>7, Zenon DEF Leaves
<1>9. CASE p.res # "OK"
  BY <1>6, <1>7, <1>9
<1>10. ASSUME p.res = "OK" PROVE Goes(G, p, f_unlink(v, path))
  <2>1. CASE p.dp.noname
    BY <1>6, <1>8, <1>10, <2>1, FailGoes
  <2>2. CASE ~p.dp.noname
    <3>1. Goes(G, p, c) /\ c.dp = p.dp /\ Good(G, c) /\ DpOK(G, c.dp)
      BY <1>2, <1>8, RemovableIs, GoesGood, Zenon
    <3>2. Beyond(G, c.dp.sect)
      BY <1>7, <1>10, <2>2, <3>1, Zenon DEF Stands
    <3>3. Goes(G, c, e)
      BY <1>3, <3>1, <3>2, RemoveEntryIs, WalksGoes, Zenon
    <3>4. Goes(G, p, e) /\ Good(G, e) /\ DpOK(G, e.dp)
      BY <3>1, <3>3, GoesTwice, GoesGood, Zenon
    <3>5. Goes(G, e, remove_chain(e, k, 0))
      BY <3>4, ChainGoes, WalksGoes, Zenon
    <3>6. Goes(G, p, r) /\ Good(G, r) /\ DpOK(G, r.dp)
      BY <1>5, <3>4, <3>5, GoesTwice, GoesGood, Zenon
    <3>7. Goes(G, p, sync_fs(r))
      BY <3>6, SyncGoes, GoesTwice, Zenon
    <3> QED
      BY <1>6, <1>10, <2>2, <3>1, <3>4, <3>6, <3>7
  <2> QED
    BY <2>1, <2>2
<1> QED
  BY <1>7, <1>9, <1>10, GoesLeaves, LeavesTwice, Zenon

-----------------------------------------------------------------------------
(* New directories. *)

LEMMA WithDotsIs ==
  ASSUME NEW G, GeoOK(G), NEW v, Good(G, v), DpOK(G, v.dp), Beyond(G, v.winsect), NEW dcl, NEW pcl
  PROVE  Walks(G, v, WithDots(v, dcl, pcl)) /\ WithDots(v, dcl, pcl).dp = v.dp
<1>1. PICK w : w = WithDots(v, dcl, pcl)
  OBVIOUS
<1> DEFINE b == [i \in Slots |-> CASE i = 0 -> Dot(".", dcl) [] i = 1 -> Dot("..", pcl) [] OTHER -> EndEntry]
<1>2. \A i \in Slots : IsEntry(b[i])
  BY DEF IsEntry, Dot, EndEntry
<1>3. IsTable(DirSector(b))
  BY <1>2 DEF IsTable, DirSector
<1>4. PICK x : x = DirSector(b)
  OBVIOUS
<1>5. w = [v EXCEPT !.win = x, !.wflag = TRUE]
  BY <1>1, <1>4, Zenon DEF WithDots
<1>6. IsTable(x)
  BY <1>3, <1>4
<1> HIDE DEF b
<1>7. IsVol(v)
  BY GoodIsVol, Zenon
<1>8. WindowGets(v, w, x)
  BY <1>5, <1>7, Zenon DEF WindowGets, IsVol, Differ, VolFields
<1>9. Unhurt(G, v, w, WinFields)
  BY <1>6, <1>8, WindowSet
<1> QED
  BY <1>1, <1>9, WinWalks, Zenon

(* The cluster of a new directory is made a table, and then its entry.     *)
Furnished(p, c) ==
  LET dcl == c.val
  IN  CASE dcl = 0    -> Failed(c, "DENIED")
        [] dcl = 1    -> Failed(c, "INT_ERR")
        [] dcl = DISK -> Failed(c, "DISK_ERR")
        [] OTHER -> IfOk(dir_clear(c, dcl), LAMBDA z :
                      dir_register(WithDots(z, dcl, p.dp.sclust)))

LEMMA FurnishedIs ==
  ASSUME NEW G, GeoOK(G), NEW p, NEW c, Good(G, c), DpOK(G, c.dp),
         c.val \in {0, 1, DISK} \cup Clusters(G)
  PROVE  Finds(G, c, Furnished(p, c))
<1>1. CASE c.val \in {0, 1, DISK}
  <2>1. \/ Furnished(p, c) = Failed(c, "DENIED")
        \/ Furnished(p, c) = Failed(c, "INT_ERR")
        \/ Furnished(p, c) = Failed(c, "DISK_ERR")
    BY <1>1, StatusApart DEF Furnished
  <2>2. "DENIED" # "OK" /\ "INT_ERR" # "OK" /\ "DISK_ERR" # "OK"
    OBVIOUS
  <2> QED
    BY <2>1, <2>2, FailFinds, Zenon
<1>2. CASE c.val \in Clusters(G)
  <2>1. PICK z : z = dir_clear(c, c.val)
    OBVIOUS
  <2>2. PICK d : d = WithDots(z, c.val, p.dp.sclust)
    OBVIOUS
  <2>3. c.val # 0 /\ c.val # 1 /\ c.val # DISK
    BY <1>2, ClustersAre, Zenon
  <2>4. Furnished(p, c) = IF z.res = "OK" THEN dir_register(d) ELSE z
    BY <2>1, <2>2, <2>3 DEF Furnished, IfOk
  <2>5. Unhurt(G, c, z, WinFields) /\ (z.res = "OK" => z.winsect = clst2sect(c, c.val))
    BY <1>2, <2>1, ClearUnhurt, Zenon
  <2>6. Walks(G, c, z) /\ Good(G, z) /\ DpOK(G, z.dp)
    BY <2>5, WinWalks, WalksGood, Zenon
  <2>7. z.res = "OK" => Beyond(G, z.winsect)
    BY <1>2, <2>5, ClusterSector, GoodIsVol, Zenon
  <2>8. CASE z.res = "OK"
    <3>1. Walks(G, z, d) /\ Good(G, d) /\ DpOK(G, d.dp)
      BY <2>2, <2>6, <2>7, <2>8, WithDotsIs, WalksGood, Zenon
    <3>2. Finds(G, d, dir_register(d))
      BY <3>1, RegisterIs, Zenon
    <3> QED
      BY <2>4, <2>6, <2>8, <3>1, <3>2, FindsAfter, Zenon
  <2>9. CASE z.res # "OK"
    BY <2>4, <2>6, <2>9, Zenon DEF Finds
  <2> QED
    BY <2>8, <2>9
<1> QED
  BY <1>1, <1>2

LEMMA MkdirIs ==
  ASSUME NEW G, GeoOK(G), Fresh(G), NEW v, Good(G, v), DpOK(G, v.dp), NEW path \in Seq(STRING)
  PROVE  Leaves(G, v, f_mkdir(v, path))
<1>1. PICK p : p = Located(v, path)
  OBVIOUS
<1>2. PICK c : c = create_chain(p, 0)
  OBVIOUS
<1>3. PICK d : d = Furnished(p, c)
  OBVIOUS
<1>4. PICK e : e = Dot(p.dp.fn, c.val)
  OBVIOUS
<1>5. f_mkdir(v, path) =
        IF p.res = "OK" THEN Failed(p, "EXIST")
        ELSE IF p.res # "NO_FILE" THEN p
        ELSE IF d.res = "OK" THEN sync_fs(SetEntry(d, e))
        ELSE Failed(remove_chain(d, c.val, 0), d.res)
  BY <1>1, <1>2, <1>3, <1>4 DEF f_mkdir, After, Furnished
<1>6. Leaves(G, v, p) /\ (p.state = "mounted" \/ p.res \in {"NOT_ENABLED", "DISK_ERR"})
  BY <1>1, LocatedIs
<1>7. Good(G, p) /\ DpOK(G, p.dp)
  BY <1>6, Zenon DEF Leaves
<1>8. CASE p.res \notin {"OK", "NO_FILE"}
  BY <1>5, <1>6, <1>8
<1>9. ASSUME p.res \in {"OK", "NO_FILE"} PROVE Goes(G, p, f_mkdir(v, path))
  <2>1. CASE p.res = "OK"
    BY <1>5, <1>7, <2>1, FailGoes
  <2>2. CASE p.res = "NO_FILE"
    <3>1. Serves(G, p, c, ChainFields) /\ c.val \in {0, 1, DISK} \cup Clusters(G)
      BY <1>2, <1>7, CreateServes, Zenon
    <3>2. Walks(G, p, c) /\ Good(G, c) /\ DpOK(G, c.dp)
      BY <1>7, <3>1, ServesWalks, WalksGood, Zenon
    <3>3. Finds(G, c, d)
      BY <1>3, <3>1, <3>2, FurnishedIs, Zenon
    <3>4. Walks(G, p, d) /\ Good(G, d) /\ DpOK(G, d.dp) /\ (d.res = "OK" => Beyond(G, d.winsect))
      BY <3>2, <3>3, WalksTwice, WalksGood, Zenon DEF Finds, Stands
    <3>5. CASE d.res = "OK"
      <4>1. IsEntry(e)
        BY <1>4 DEF IsEntry, Dot
      <4>2. PICK s : s = SetEntry(d, e)
        OBVIOUS
      <4>3. Walks(G, d, s) /\ Good(G, s) /\ DpOK(G, s.dp)
        BY <3>4, <3>5, <4>1, <4>2, EntrySet, WalksGood, Zenon
      <4>4. Goes(G, s, sync_fs(s))
        BY <4>3, SyncGoes, Zenon
      <4>5. "NO_FILE" # "OK"
        OBVIOUS
      <4>6. f_mkdir(v, path) = sync_fs(s)
        BY <1>5, <2>2, <3>5, <4>2, <4>5, Zenon
      <4> QED
        BY <3>4, <4>3, <4>4, <4>6, WalksGoes, GoesTwice, Zenon
    <3>6. CASE d.res # "OK"
      <4>1. PICK r : r = remove_chain(d, c.val, 0)
        OBVIOUS
      <4>2. Walks(G, d, r) /\ Good(G, r) /\ DpOK(G, r.dp)
        BY <3>4, <4>1, ChainGoes, WalksGood, Zenon
      <4>3. Goes(G, r, Failed(r, d.res))
        BY <4>2, FailGoes, Zenon
      <4>4. "NO_FILE" # "OK"
        OBVIOUS
      <4>5. f_mkdir(v, path) = Failed(r, d.res)
        BY <1>5, <2>2, <3>6, <4>1, <4>4, Zenon
      <4> QED
        BY <3>4, <4>2, <4>3, <4>5, WalksGoes, GoesTwice, Zenon
    <3> QED
      BY <3>5, <3>6
  <2> QED
    BY <1>9, <2>1, <2>2
<1>10. p.res \in {"OK", "NO_FILE"} => p.state = "mounted"
  BY <1>6
<1> QED
  BY <1>6, <1>8, <1>9, <1>10, GoesLeaves, LeavesTwice, Zenon

-----------------------------------------------------------------------------
(* Renaming. *)

LEMMA EnterAny ==
  ASSUME NEW x, IsTable(x), NEW i, NEW e, i \in Slots => IsEntry(e), x.kind # "dir" => i \in Slots
  PROVE  IsTable(Enter(x, i, e))
<1>1. CASE i \in Slots
  BY <1>1, EnterTable
<1>2. CASE i \notin Slots
  <2>1. x.kind = "dir" /\ x = DirSector(x.body) /\ x.body = [j \in Slots |-> x.body[j]]
    BY <1>2, SMTT(30) DEF IsTable
  <2>2. [x.body EXCEPT ![i] = e] = x.body
    BY <1>2, <2>1
  <2>3. Enter(x, i, e) = x
    BY <2>1, <2>2 DEF Enter, DirSector
  <2> QED
    BY <2>3, SMTT(30)
<1> QED
  BY <1>1, <1>2

(* The ".." entry in the window is made to name cluster clst.              *)
Renamed(m, clst) ==
  LET up == EntryIn(m.win, 1) IN
  IF up.name # ".." THEN m
  ELSE [m EXCEPT !.win = Enter(@, 1, [up EXCEPT !.clust = clst]), !.wflag = TRUE]

LEMMA RenamedIs ==
  ASSUME NEW G, GeoOK(G), NEW m, Good(G, m), DpOK(G, m.dp), Beyond(G, m.winsect), NEW clst
  PROVE  Walks(G, m, Renamed(m, clst)) /\ Renamed(m, clst).dp = m.dp
<1>1. PICK i : i = 1
  OBVIOUS
<1>2. PICK up : up = EntryIn(m.win, i)
  OBVIOUS
<1>3. PICK e : e = [up EXCEPT !.clust = clst]
  OBVIOUS
<1>4. PICK x : x = Enter(m.win, i, e)
  OBVIOUS
<1>5. PICK w : w = [m EXCEPT !.win = x, !.wflag = TRUE]
  OBVIOUS
<1>6. Renamed(m, clst) = IF up.name # ".." THEN m ELSE w
  BY <1>1, <1>2, <1>3, <1>4, <1>5 DEF Renamed
<1>7. IsTable(m.win) /\ IsVol(m)
  BY WindowTable, GoodIsVol, Zenon
<1>8. i \in Slots => IsEntry(e)
  <2>1. i \in Slots => IsEntry(up)
    BY <1>2, <1>7, EntryInIs, Zenon
  <2> QED
    BY <1>3, <2>1 DEF IsEntry
<1>9. m.win.kind # "dir" => up.name = "foreign"
  BY <1>2 DEF EntryIn, Foreign
<1>10. CASE up.name # ".."
  BY <1>6, <1>10, WalksStays, Zenon
<1>11. CASE up.name = ".."
  <2>1. m.win.kind = "dir"
    BY <1>9, <1>11
  <2>2. IsTable(x)
    BY <1>4, <1>7, <1>8, <2>1, EnterAny, Zenon
  <2>3. WindowGets(m, w, x)
    BY <1>5, <1>7, Zenon DEF WindowGets, IsVol, Differ, VolFields
  <2>4. Unhurt(G, m, w, WinFields)
    BY <2>2, <2>3, WindowSet
  <2> QED
    BY <1>6, <1>11, <2>4, WinWalks, Zenon
<1> QED
  BY <1>10, <1>11

LEMMA NewParentIs ==
  ASSUME NEW G, GeoOK(G), NEW v, Good(G, v), DpOK(G, v.dp), NEW old
  PROVE  Walks(G, v, NewParent(v, old))
<1>1. PICK k : k = Entry(v).clust
  OBVIOUS
<1>2. PICK s : s = clst2sect(v, k)
  OBVIOUS
<1>3. PICK m : m = move_window(v, s)
  OBVIOUS
<1>4. PICK w : w = Renamed(m, v.dp.sclust)
  OBVIOUS
<1>5. \/ NewParent(v, old) = v
      \/ NewParent(v, old) = Failed(v, "INT_ERR")
      \/ s # 0 /\ NewParent(v, old) = IF m.res = "OK" THEN w ELSE m
  BY <1>1, <1>2, <1>3, <1>4, Zenon DEF NewParent, IfOk, Renamed
<1>6. Walks(G, v, v) /\ Walks(G, v, Failed(v, "INT_ERR"))
  BY WalksStays, FailWalks, Zenon
<1>7. Unhurt(G, v, m, WinFields) /\ (m.res = "OK" => m.winsect = s)
  BY <1>3, MoveUnhurt
<1>8. Walks(G, v, m) /\ Good(G, m) /\ DpOK(G, m.dp)
  BY <1>7, WinWalks, WalksGood, Zenon
<1>9. ASSUME s # 0, m.res = "OK" PROVE Walks(G, v, w)
  <2>1. Beyond(G, s)
    BY <1>2, <1>9, ClusterSector, GoodIsVol, Zenon
  <2>2. Walks(G, m, w)
    BY <1>4, <1>7, <1>8, <1>9, <2>1, RenamedIs, Zenon
  <2> QED
    BY <1>8, <2>2, WalksTwice, Zenon
<1> QED
  BY <1>5, <1>6, <1>8, <1>9, Zenon

LEMMA RenameIs ==
  ASSUME NEW G, GeoOK(G), Fresh(G), NEW v, Good(G, v), DpOK(G, v.dp),
         NEW path_old \in Seq(STRING), NEW path_new \in Seq(STRING)
  PROVE  Leaves(G, v, f_rename(v, path_old, path_new))
<1>1. PICK p : p = Located(v, path_old)
  OBVIOUS
<1>2. PICK q : q = follow_path(p, path_new)
  OBVIOUS
<1>3. PICK e : e = [Entry(p) EXCEPT !.name = q.dp.fn]
  OBVIOUS
<1>4. PICK r : r = dir_register(q)
  OBVIOUS
<1>5. PICK s : s = SetEntry(r, e)
  OBVIOUS
<1>6. PICK n : n = NewParent(s, p.dp)
  OBVIOUS
<1>7. PICK o : o = With(n, p.dp)
  OBVIOUS
<1>8. PICK d : d = dir_remove(o)
  OBVIOUS
<1>9. PICK same : same = (q.dp.sclust = p.dp.sclust /\ q.dp.dptr = p.dp.dptr)
  OBVIOUS
<1>10. PICK w : w = f_rename(v, path_old, path_new)
  OBVIOUS
<1>11. w = IF p.res # "OK" THEN p
           ELSE IF p.dp.noname THEN Failed(p, "INVALID_NAME")
           ELSE IF q.res = "OK" /\ ~same THEN Failed(q, "EXIST")
           ELSE IF q.res \notin {"OK", "NO_FILE"} THEN q
           ELSE IF r.res # "OK" THEN r
           ELSE IF n.res # "OK" THEN n
           ELSE IF d.res # "OK" THEN d ELSE sync_fs(d)
  BY <1>1, <1>2, <1>3, <1>4, <1>5, <1>6, <1>7, <1>8, <1>9, <1>10 DEF f_rename, IfOk, After
<1>12. /\ Leaves(G, v, p) /\ (p.res = "OK" => p.state = "mounted")
       /\ p.res = "OK" /\ ~p.dp.noname => Stands(G, p)
  BY <1>1, LocatedIs
<1>13. Good(G, p) /\ DpOK(G, p.dp)
  BY <1>12, Zenon DEF Leaves
<1>14. CASE p.res # "OK"
  BY <1>10, <1>11, <1>12, <1>14
<1>15. ASSUME p.res = "OK" PROVE Goes(G, p, w)
  <2>1. CASE p.dp.noname
    BY <1>11, <1>13, <1>15, <2>1, FailGoes
  <2>2. CASE ~p.dp.noname
    <3>1. Beyond(G, p.dp.sect)
      BY <1>12, <1>15, <2>2, Zenon DEF Stands
    <3>2. Goes(G, p, q) /\ Good(G, q) /\ DpOK(G, q.dp)
      BY <1>2, <1>13, FollowIs, GoesGood, Zenon
    <3>3. Goes(G, p, Failed(q, "EXIST"))
      BY <3>2, FailGoes, GoesTwice, Zenon
    <3>4. Finds(G, q, r) /\ Goes(G, p, r) /\ Good(G, r) /\ DpOK(G, r.dp)
      BY <1>4, <3>2, RegisterIs, WalksGoes, GoesTwice, WalksGood, Zenon DEF Finds
    <3>5. ASSUME r.res = "OK"
          PROVE  Goes(G, p, n) /\ Goes(G, p, d) /\ Goes(G, p, sync_fs(d))
      <4>1. IsEntry(e)
        <5>1. IsEntry(Entry(p))
          BY <1>13, EntryGood, Zenon
        <5> QED
          BY <1>3, <5>1 DEF IsEntry
      <4>2. Beyond(G, r.winsect)
        BY <3>4, <3>5, Zenon DEF Finds, Stands
      <4>3. Walks(G, r, s) /\ Good(G, s) /\ DpOK(G, s.dp)
        BY <1>5, <3>4, <4>1, <4>2, EntrySet, WalksGood, Zenon
      <4>4. Walks(G, s, n) /\ Good(G, n)
        BY <1>6, <4>3, NewParentIs, WalksGood, Zenon
      <4>5. Goes(G, p, n)
        BY <3>4, <4>3, <4>4, WalksGoes, GoesTwice, Zenon
      <4>6. Goes(G, n, o) /\ o.dp = p.dp
        BY <1>7, <1>13, <4>4, WithIs
      <4>7. Good(G, o) /\ DpOK(G, o.dp) /\ Beyond(G, o.dp.sect)
        BY <3>1, <4>6, GoesGood, Zenon
      <4>8. Walks(G, o, d)
        BY <1>8, <4>7, RemoveEntryIs, Zenon
      <4>9. Goes(G, p, d) /\ Good(G, d) /\ DpOK(G, d.dp)
        BY <4>5, <4>6, <4>8, WalksGoes, GoesTwice, GoesGood, Zenon
      <4> QED
        BY <4>5, <4>9, SyncGoes, GoesTwice, Zenon
    <3> QED
      BY <1>11, <1>15, <2>2, <3>2, <3>3, <3>4, <3>5
  <2> QED
    BY <2>1, <2>2
<1> QED
  BY <1>10, <1>12, <1>14, <1>15, GoesLeaves, LeavesTwice, Zenon

-----------------------------------------------------------------------------
(* Looking. *)

LEMMA StatIs ==
  ASSUME NEW G, GeoOK(G), Fresh(G), NEW v, Good(G, v), DpOK(G, v.dp), NEW path \in Seq(STRING)
  PROVE  Leaves(G, v, f_stat(v, path))
<1>1. PICK p : p = Located(v, path)
  OBVIOUS
<1>2. f_stat(v, path) = p \/ (p.res = "OK" /\ f_stat(v, path) = Failed(p, "INVALID_NAME"))
  BY <1>1, Zenon DEF f_stat, IfOk
<1>3. Leaves(G, v, p) /\ (p.res = "OK" => p.state = "mounted")
  BY <1>1, LocatedIs
<1>4. Goes(G, p, Failed(p, "INVALID_NAME"))
  BY <1>3, FailGoes, Zenon DEF Leaves
<1> QED
  BY <1>2, <1>3, <1>4, GoesLeaves, LeavesTwice, Zenon

LEMMA OpenDirIs ==
  ASSUME NEW G, GeoOK(G), Fresh(G), NEW v, Good(G, v), DpOK(G, v.dp), NEW path \in Seq(STRING)
  PROVE  LET w == f_opendir(v, path) IN
         Leaves(G, v, w) /\ (w.res = "OK" => w.state = "mounted")
<1>1. PICK p : p = Located(v, path)
  OBVIOUS
<1>2. PICK k : k = Entry(p).clust
  OBVIOUS
<1>3. PICK i : i = Rewind([p EXCEPT !.dp.sclust = k])
  OBVIOUS
<1>4. PICK r : r = IF p.res # "OK" THEN p
                   ELSE IF p.dp.noname THEN Rewind(p)
                   ELSE IF p.dp.attr # "dir" THEN Failed(p, "NO_PATH") ELSE i
  OBVIOUS
<1>5. f_opendir(v, path) = IF r.res = "NO_FILE" THEN Failed(r, "NO_PATH") ELSE r
  BY <1>1, <1>2, <1>3, <1>4 DEF f_opendir, IfOk, After
<1>6. Leaves(G, v, p) /\ (p.state = "mounted" \/ p.res \in {"NOT_ENABLED", "DISK_ERR"})
  BY <1>1, LocatedIs
<1>7. Good(G, p) /\ DpOK(G, p.dp)
  BY <1>6, Zenon DEF Leaves
<1>8. Goes(G, p, Rewind(p)) /\ Goes(G, p, Failed(p, "NO_PATH"))
  BY <1>7, RewindIs, FailGoes, WalksGoes, Zenon
<1>9. Goes(G, p, i)
  BY <1>3, <1>7, IntoIs, Zenon
<1>10. CASE p.state # "mounted"
  <2>1. f_opendir(v, path) = p /\ p.res # "OK"
    BY <1>4, <1>5, <1>6, <1>10
  <2> QED
    BY <1>6, <2>1, Zenon
<1>11. CASE p.state = "mounted"
  <2>1. Goes(G, p, r)
    BY <1>4, <1>7, <1>8, <1>9, GoesStays, Zenon
  <2>2. Goes(G, p, Failed(r, "NO_PATH"))
    BY <2>1, FailGoes, GoesGood, GoesTwice, Zenon
  <2>3. Goes(G, p, f_opendir(v, path))
    BY <1>5, <2>1, <2>2, Zenon
  <2> QED
    BY <1>6, <1>11, <2>3, GoesLeaves, LeavesTwice, Zenon
<1> QED
  BY <1>10, <1>11

LEMMA ReadDirIs ==
  ASSUME NEW G, GeoOK(G), NEW v, Good(G, v), NEW dp, DpOK(G, dp)
  PROVE  Goes(G, v, f_readdir(v, dp).vol)
<1>1. PICK a : a = With(v, dp)
  OBVIOUS
<1>2. PICK r : r = dir_read(a)
  OBVIOUS
<1>3. PICK n : n = dir_next(r, FALSE)
  OBVIOUS
<1>4. f_readdir(v, dp).vol \in {n, r, Ok(n), Ok(r)}
  BY <1>1, <1>2, <1>3 DEF f_readdir, After
<1>5. Goes(G, v, a) /\ a.dp = dp
  BY <1>1, WithIs
<1>6. Good(G, a) /\ DpOK(G, a.dp)
  BY <1>5, GoesGood, Zenon
<1>7. Goes(G, v, r) /\ Good(G, r) /\ DpOK(G, r.dp)
  BY <1>2, <1>5, <1>6, ReadIs, WalksGoes, GoesTwice, GoesGood, Zenon DEF Finds
<1>8. Goes(G, v, n) /\ Good(G, n) /\ DpOK(G, n.dp)
  BY <1>3, <1>7, NextIs, WalksGoes, GoesTwice, GoesGood, Zenon DEF Advances
<1>9. Goes(G, v, Ok(r)) /\ Goes(G, v, Ok(n))
  BY <1>7, <1>8, OkGoes, GoesTwice, Zenon
<1> QED
  BY <1>4, <1>7, <1>8, <1>9

-----------------------------------------------------------------------------
(* Counting the free clusters. *)

(* The free clusters before k.                                             *)
FreeBelow(G, v, k) == {c \in Clusters(G) : c < k /\ FatEntry(v, c) = 0}

LEMMA BelowIs ==
  ASSUME NEW G, GeoOK(G), NEW v, HasGeo(G, v), NEW k \in Nat
  PROVE  /\ IsFiniteSet(FreeBelow(G, v, k)) /\ Cardinality(FreeBelow(G, v, k)) \in Nat
         /\ k <= 2 => FreeBelow(G, v, k) = {}
         /\ k >= G.n_fatent => FreeBelow(G, v, k) = FreeClusters(v)
         /\ Cardinality(FreeBelow(G, v, k + 1)) =
              IF k \in Clusters(G) /\ FatEntry(v, k) = 0 THEN Cardinality(FreeBelow(G, v, k)) + 1
              ELSE Cardinality(FreeBelow(G, v, k))
<1>1. IsFiniteSet(Clusters(G)) /\ FreeClusters(v) = {c \in Clusters(G) : FatEntry(v, c) = 0}
  BY FreeCount, Zenon
<1>2. G.n_fatent \in Nat
  BY DEF GeoOK
<1>3. \A j \in Nat : IsFiniteSet(FreeBelow(G, v, j))
  BY <1>1, FS_Subset DEF FreeBelow
<1>4. \A j \in Nat : Cardinality(FreeBelow(G, v, j)) \in Nat
  BY <1>3, FS_CardinalityType
<1>5. k <= 2 => FreeBelow(G, v, k) = {}
  BY DEF FreeBelow, Clusters
<1>6. k >= G.n_fatent => FreeBelow(G, v, k) = FreeClusters(v)
  BY <1>1, <1>2 DEF FreeBelow, Clusters
<1>7. CASE k \in Clusters(G) /\ FatEntry(v, k) = 0
  <2>1. FreeBelow(G, v, k + 1) = FreeBelow(G, v, k) \cup {k} /\ k \notin FreeBelow(G, v, k)
    BY <1>2, <1>7 DEF FreeBelow, Clusters
  <2>2. Cardinality(FreeBelow(G, v, k) \cup {k}) = Cardinality(FreeBelow(G, v, k)) + 1
    BY <1>3, <2>1, FS_AddElement
  <2> QED
    BY <1>3, <1>4, <1>5, <1>6, <1>7, <2>1, <2>2
<1>8. CASE ~(k \in Clusters(G) /\ FatEntry(v, k) = 0)
  <2>1. FreeBelow(G, v, k + 1) = FreeBelow(G, v, k)
    BY <1>2, <1>8 DEF FreeBelow, Clusters
  <2> QED
    BY <1>3, <1>4, <1>5, <1>6, <1>8, <2>1
<1> QED
  BY <1>7, <1>8

(* A count on its way: n of the clusters before clst are free.             *)
IsTally(s) == s = [vol |-> s.vol, clst |-> s.clst, n |-> s.n]
TallyOK(G, v, s) ==
  /\ IsTally(s) /\ Unhurt(G, v, s.vol, ReadFields) /\ s.clst \in Nat
  /\ s.vol.res = "OK" => s.n = Cardinality(FreeBelow(G, v, s.clst))

Tally(s, g, free) == [vol |-> g, clst |-> s.clst + 1, n |-> IF free THEN s.n + 1 ELSE s.n]

\* What a look at the entry of s.clst, which leaves g, says of it.
Judged(G, v, s, g, b) ==
  g.res = "OK" => (b <=> (s.clst \in Clusters(G) /\ FatEntry(v, s.clst) = 0))

LEMMA TallyOn ==
  ASSUME NEW G, GeoOK(G), NEW v, HasGeo(G, v), NEW s, TallyOK(G, v, s), s.vol.res = "OK",
         NEW g, Unhurt(G, s.vol, g, ReadFields), NEW b, Judged(G, v, s, g, b)
  PROVE  TallyOK(G, v, Tally(s, g, b)) /\ Tally(s, g, b).clst = s.clst + 1
<1>1. PICK t : t = Tally(s, g, b)
  OBVIOUS
<1>2. t.vol = g /\ t.clst = s.clst + 1 /\ t.n = (IF b THEN s.n + 1 ELSE s.n) /\ IsTally(t)
  BY <1>1, Zenon DEF Tally, IsTally
<1>3. s.clst \in Nat /\ s.n = Cardinality(FreeBelow(G, v, s.clst))
  BY Zenon DEF TallyOK
<1>4. Unhurt(G, v, g, ReadFields)
  BY UnhurtTwice, Zenon DEF TallyOK
<1>5. PICK k : k = s.clst
  OBVIOUS
<1>6. PICK x : x = Cardinality(FreeBelow(G, v, k + 1))
  OBVIOUS
<1>7. x = IF k \in Clusters(G) /\ FatEntry(v, k) = 0 THEN Cardinality(FreeBelow(G, v, k)) + 1
          ELSE Cardinality(FreeBelow(G, v, k))
  BY <1>3, <1>5, <1>6, BelowIs, Zenon
<1>8. g.res = "OK" => t.n = x
  BY <1>2, <1>3, <1>5, <1>7, Zenon DEF Judged
<1>9. t.clst \in Nat /\ t.clst = k + 1
  BY <1>2, <1>3, <1>5
<1> QED
  BY <1>1, <1>2, <1>4, <1>6, <1>8, <1>9, Zenon DEF TallyOK

LEMMA CountNextIs ==
  ASSUME NEW G, GeoOK(G), NEW v, HasGeo(G, v), NEW s, TallyOK(G, v, s), s.vol.res = "OK",
         s.clst < G.n_fatent, G.fs_type = "FAT12" => s.clst >= 2
  PROVE  TallyOK(G, v, CountNext(s)) /\ CountNext(s).clst = s.clst + 1
<1>1. PICK k : k = s.clst
  OBVIOUS
<1>2. PICK u : u = s.vol
  OBVIOUS
<1>3. Good(G, u) /\ HasGeo(G, u) /\ k \in Nat /\ FatSame(G, v, u)
  BY <1>1, <1>2, GoodIsVol, Zenon DEF TallyOK, Unhurt
<1>4. G.n_fatent \in Nat /\ k < G.n_fatent /\ (G.fs_type = "FAT12" => k >= 2)
  BY <1>1 DEF GeoOK
<1>5. k >= 2 => k \in Clusters(G)
  BY <1>3, <1>4 DEF Clusters
<1>6. k \in Clusters(G) => FatEntry(u, k) = FatEntry(v, k)
  BY <1>3, EntrySame, Zenon
<1>7. u.fs_type = G.fs_type /\ u.fatbase + k \div PerSector(u) = u.fatbase + k \div PerSector(u)
  BY <1>3, GeoIs, Zenon
<1>8. CASE G.fs_type = "FAT12"
  <2>1. PICK g : g = get_fat(u, k)
    OBVIOUS
  <2>2. k \in Clusters(G) /\ 0 # 1 /\ DISK # 0
    BY <1>4, <1>5, <1>8, StatusApart
  <2>3. /\ Unhurt(G, u, g, ReadFields) /\ g.val \in Nat \cup {DISK}
        /\ g.val = FatEntry(v, k) \/ g.val = DISK
    BY <1>3, <1>6, <2>1, <2>2, GetIs, Zenon
  <2>4. Good(G, g)
    BY <2>3, Zenon DEF Unhurt
  <2>5. CountNext(s) = IF g.val = DISK THEN Tally(s, Failed(g, "DISK_ERR"), FALSE)
                       ELSE IF g.val = 1 THEN Tally(s, Failed(g, "INT_ERR"), FALSE)
                       ELSE Tally(s, Ok(g), g.val = 0)
    BY <1>1, <1>2, <1>7, <1>8, <2>1, StatusApart DEF CountNext, Tally, After
  <2>6. CASE g.val \in {1, DISK}
    <3>1. PICK r : r \in {"DISK_ERR", "INT_ERR"} /\ CountNext(s) = Tally(s, Failed(g, r), FALSE)
      BY <2>5, <2>6
    <3>2. PICK f : f = Failed(g, r)
      OBVIOUS
    <3>3. Unhurt(G, g, f, WinFields) /\ f.res = r
      BY <2>4, <3>2, ResUnhurt
    <3>4. Unhurt(G, u, f, ReadFields)
      BY <2>3, <3>3, UnhurtUp, UnhurtTwice, Zenon
    <3>5. f.res # "OK"
      BY <3>1, <3>3
    <3>6. PICK no : no = FALSE
      OBVIOUS
    <3>7. Judged(G, v, s, f, no)
      BY <3>5, Zenon DEF Judged
    <3>8. Unhurt(G, s.vol, f, ReadFields)
      BY <1>2, <3>4, Zenon
    <3>9. TallyOK(G, v, Tally(s, f, no)) /\ Tally(s, f, no).clst = s.clst + 1
      BY <3>7, <3>8, TallyOn
    <3> QED
      BY <3>1, <3>2, <3>6, <3>9, Zenon
  <2>7. CASE g.val \notin {1, DISK}
    <3>1. PICK b : b = (g.val = 0)
      OBVIOUS
    <3>2. PICK f : f = Ok(g)
      OBVIOUS
    <3>3. CountNext(s) = Tally(s, f, b)
      BY <2>5, <2>7, <3>1, <3>2
    <3>4. Unhurt(G, g, f, WinFields)
      BY <2>4, <3>2, ResUnhurt
    <3>5. Unhurt(G, u, f, ReadFields)
      BY <2>3, <3>4, UnhurtUp, UnhurtTwice, Zenon
    <3>6. b <=> FatEntry(v, k) = 0
      BY <2>3, <2>7, <3>1
    <3>7. Judged(G, v, s, f, b)
      BY <1>1, <2>2, <3>6, Zenon DEF Judged
    <3>8. Unhurt(G, s.vol, f, ReadFields)
      BY <1>2, <3>5, Zenon
    <3>9. TallyOK(G, v, Tally(s, f, b)) /\ Tally(s, f, b).clst = s.clst + 1
      BY <3>7, <3>8, TallyOn
    <3> QED
      BY <3>3, <3>9, Zenon
  <2> QED
    BY <2>6, <2>7
<1>9. CASE G.fs_type # "FAT12"
  <2>1. PICK g : g = move_window(u, u.fatbase + k \div PerSector(u))
    OBVIOUS
  <2>2. PICK b : b = (g.res = "OK" /\ g.win.body[k % PerSector(u)] = 0)
    OBVIOUS
  <2>3. CountNext(s) = Tally(s, g, b)
    BY <1>1, <1>2, <1>7, <1>9, <2>1, <2>2, Zenon DEF CountNext, Tally, After
  <2>4. k \in 0 .. LastCell(G)
    BY <1>3, <1>4, <1>9 DEF LastCell
  <2>5. u.fatbase + k \div PerSector(u) = CellSector(G, k) /\ k % PerSector(u) = k % Width(G)
    BY <1>3, <1>9, CodeCell, Zenon
  <2>6. g = move_window(u, CellSector(G, k)) /\ b = (g.res = "OK" /\ g.win.body[k % Width(G)] = 0)
    BY <2>1, <2>2, <2>5
  <2>7. Unhurt(G, u, g, WinFields) /\ (g.res = "OK" => g.win.body[k % Width(G)] = Cell(G, u, k))
    BY <1>3, <2>4, <2>6, LoadCell
  <2>8. k \in Clusters(G) /\ g.res = "OK" => (b <=> FatEntry(v, k) = 0)
    <3>1. FatEntry(u, k) = Cell(G, u, k)
      BY <1>3, <1>9, EntryIs, Zenon
    <3> QED
      BY <1>6, <2>6, <2>7, <3>1, Zenon
  <2>9. k \notin Clusters(G) /\ g.res = "OK" => ~b
    <3>1. k \notin Clusters(G) => k \in {0, 1}
      BY <1>3, <1>5
    <3>2. k \in {0, 1} => Cell(G, u, k) # 0
      BY <1>3, <1>9, CellReserved, Zenon
    <3> QED
      BY <2>6, <2>7, <3>1, <3>2, Zenon
  <2>10. Judged(G, v, s, g, b)
    BY <1>1, <2>8, <2>9, Zenon DEF Judged
  <2>11. Unhurt(G, s.vol, g, ReadFields)
    BY <1>2, <2>7, UnhurtUp, Zenon
  <2>12. TallyOK(G, v, Tally(s, g, b)) /\ Tally(s, g, b).clst = s.clst + 1
    BY <2>10, <2>11, TallyOn
  <2> QED
    BY <2>3, <2>12, Zenon
<1> QED
  BY <1>8, <1>9

(* The loop of f_getfree.                                                  *)
TallyStep(c, i, s)  == IF s.vol.res = "OK" /\ s.clst < c.v.n_fatent THEN CountNext(s) ELSE s
TallyKeeps(c, i, s) ==
  /\ TallyOK(c.G, c.v, s) /\ s.clst >= c.from
  /\ s.vol.res = "OK" /\ s.clst < c.v.n_fatent => s.clst = c.from + i
TallyLoop == INSTANCE Loops WITH Step <- TallyStep, Keeps <- TallyKeeps

TallyAll(v, start) ==
  While(LAMBDA s : s.vol.res = "OK" /\ s.clst < v.n_fatent, CountNext, start, v.n_fatent)

LEMMA TallyAllIs ==
  ASSUME NEW G, GeoOK(G), NEW v, Good(G, v), NEW from \in {0, 2}, G.fs_type = "FAT12" => from = 2,
         NEW start, start = [vol |-> v, n |-> 0, clst |-> from], v.res = "OK"
  PROVE  LET s == TallyAll(v, start) IN
         /\ Unhurt(G, v, s.vol, ReadFields)
         /\ s.vol.res = "OK" => s.n = Cardinality(FreeClusters(v))
<1>1. HasGeo(G, v) /\ G.n_fatent \in Nat /\ v.n_fatent = G.n_fatent /\ from \in Nat
  <2>1. HasGeo(G, v) /\ v.n_fatent = G.n_fatent
    BY GoodIsVol, GeoIs, Zenon
  <2> QED
    BY <2>1 DEF GeoOK
<1>2. PICK c : c = [G |-> G, v |-> v, from |-> from]
  OBVIOUS
<1>3. c.G = G /\ c.v = v /\ c.from = from
  BY <1>2
<1>4. start.vol = v /\ start.n = 0 /\ start.clst = from /\ IsTally(start)
  BY DEF IsTally
<1>5. TallyKeeps(c, 0, start)
  <2>1. Unhurt(G, v, v, ReadFields)
    BY GoodIsVol, Zenon DEF Unhurt, Differ, FatSame, Calm
  <2>2. FreeBelow(G, v, from) = {}
    BY <1>1, BelowIs
  <2>3. Cardinality(FreeBelow(G, v, from)) = 0
    BY <2>2, FS_EmptySet
  <2>4. TallyOK(G, v, start)
    BY <1>1, <1>4, <2>1, <2>3, Zenon DEF TallyOK
  <2>5. start.clst >= from /\ start.clst = from + 0
    BY <1>1, <1>4
  <2> QED
    BY <1>3, <2>4, <2>5, Zenon DEF TallyKeeps
<1>6. ASSUME NEW i \in 1 .. v.n_fatent, NEW s, TallyKeeps(c, i - 1, s)
      PROVE  TallyKeeps(c, i, TallyStep(c, i, s))
  <2>1. /\ TallyOK(G, v, s) /\ s.clst >= from /\ s.clst \in Nat
        /\ s.vol.res = "OK" /\ s.clst < v.n_fatent => s.clst = from + (i - 1)
    BY <1>3, <1>6, Zenon DEF TallyKeeps, TallyOK
  <2>2. CASE s.vol.res = "OK" /\ s.clst < v.n_fatent
    <3>1. PICK t : t = CountNext(s)
      OBVIOUS
    <3>2. TallyOK(G, v, t) /\ t.clst = s.clst + 1
      <4>1. G.fs_type = "FAT12" => s.clst >= 2
        BY <2>1
      <4> QED
        BY <1>1, <2>1, <2>2, <3>1, <4>1, CountNextIs, Zenon
    <3>3. t.clst >= from /\ t.clst = from + i
      BY <1>1, <1>6, <2>1, <2>2, <3>2
    <3>4. TallyStep(c, i, s) = t
      BY <1>3, <2>2, <3>1, Zenon DEF TallyStep
    <3> QED
      BY <1>3, <3>2, <3>3, <3>4, Zenon DEF TallyKeeps
  <2>3. CASE ~(s.vol.res = "OK" /\ s.clst < v.n_fatent)
    BY <1>3, <2>1, <2>3, Zenon DEF TallyStep, TallyKeeps
  <2> QED
    BY <2>2, <2>3
<1>7. v.n_fatent \in Nat
  BY <1>1
<1>8. TallyKeeps(c, v.n_fatent, TallyLoop!Track(c, start, v.n_fatent)[v.n_fatent])
  BY <1>5, <1>6, <1>7, TallyLoop!LoopKeeps, AllNumbers, Zenon
<1>9. TallyLoop!Track(c, start, v.n_fatent)[v.n_fatent] = TallyAll(v, start)
  BY <1>3 DEF TallyLoop!Track, TallyAll, While, TallyStep
<1>10. PICK s : s = TallyAll(v, start)
  OBVIOUS
<1>11. /\ TallyOK(G, v, s) /\ s.clst \in Nat
       /\ s.vol.res = "OK" /\ s.clst < v.n_fatent => s.clst = from + v.n_fatent
  BY <1>3, <1>8, <1>9, <1>10, Zenon DEF TallyKeeps, TallyOK
<1>12. s.vol.res = "OK" => s.clst >= G.n_fatent
  BY <1>1, <1>11
<1>13. s.vol.res = "OK" => s.n = Cardinality(FreeClusters(v))
  BY <1>1, <1>11, <1>12, BelowIs, Zenon DEF TallyOK
<1> QED
  BY <1>10, <1>11, <1>13, Zenon DEF TallyOK

\* The count found becomes the volume's.
Tallied(s) == IF s.vol.res = "OK" THEN Changed([s.vol EXCEPT !.free_clst = s.n]) ELSE s.vol

LEMMA GetFreeParts ==
  ASSUME NEW v
  PROVE  LET m == mount_volume(v) IN
         f_getfree(v) =
           IF m.res = "OK"
             THEN IF CountKnown(m) THEN m
                  ELSE Tallied(TallyAll(m, [vol |-> m, n |-> 0,
                                            clst |-> IF m.fs_type = "FAT12" THEN 2 ELSE 0]))
             ELSE m
BY DEF f_getfree, IfOk, After, TallyAll, While, Tallied

LEMMA GetFreeIs ==
  ASSUME NEW G, GeoOK(G), Fresh(G), NEW v, Good(G, v), DpOK(G, v.dp)
  PROVE  Leaves(G, v, f_getfree(v))
<1>1. PICK m : m = mount_volume(v)
  OBVIOUS
<1>2. PICK from : from = IF m.fs_type = "FAT12" THEN 2 ELSE 0
  OBVIOUS
<1>3. PICK start : start = [vol |-> m, n |-> 0, clst |-> from]
  OBVIOUS
<1>4. PICK s : s = TallyAll(m, start)
  OBVIOUS
<1>5. PICK u : u = [s.vol EXCEPT !.free_clst = s.n]
  OBVIOUS
<1>6. PICK w : w = Changed(u)
  OBVIOUS
<1>7. f_getfree(v) = IF m.res # "OK" THEN m
                     ELSE IF CountKnown(m) THEN m
                     ELSE IF s.vol.res = "OK" THEN w ELSE s.vol
  <2>1. TallyAll(m, [vol |-> m, n |-> 0, clst |-> IF m.fs_type = "FAT12" THEN 2 ELSE 0]) = s
    BY <1>2, <1>3, <1>4, Zenon
  <2>2. IF s.vol.res = "OK" THEN Changed([s.vol EXCEPT !.free_clst = s.n]) = w ELSE TRUE
    BY <1>5, <1>6, Zenon
  <2> QED
    BY <1>1, <2>1, <2>2, GetFreeParts, Zenon DEF Tallied
<1>8. Leaves(G, v, m) /\ (m.res = "OK" => m.state = "mounted")
  BY <1>1, MountIs
<1>9. Good(G, m) /\ DpOK(G, m.dp) /\ m.fs_type = G.fs_type
  BY <1>8, GoodIsVol, GeoIs, Zenon DEF Leaves
<1>10. ASSUME m.res = "OK"
       PROVE  Goes(G, m, s.vol) /\ (s.vol.res = "OK" => Goes(G, m, w))
  <2>1. from \in {0, 2} /\ (G.fs_type = "FAT12" => from = 2)
    BY <1>2, <1>9
  <2>2. Unhurt(G, m, s.vol, ReadFields) /\ (s.vol.res = "OK" => s.n = Cardinality(FreeClusters(m)))
    BY <1>3, <1>4, <1>9, <1>10, <2>1, TallyAllIs
  <2>3. Walks(G, m, s.vol) /\ Good(G, s.vol) /\ DpOK(G, s.vol.dp)
    BY <1>9, <2>2, WinWalks, WalksGood, Zenon
  <2>4. ASSUME s.vol.res = "OK" PROVE Goes(G, m, w)
    <3>1. CountSet(s.vol, u, s.n)
      BY <1>5, <2>3, CountSetIs, Zenon
    <3>2. Unhurt(G, s.vol, w, ChainFields) /\ w.free_clst = s.n /\ FreeClusters(w) = FreeClusters(s.vol)
      BY <1>6, <2>3, <3>1, AdjustIs
    <3>3. FreeClusters(s.vol) = FreeClusters(m)
      BY <1>9, <2>2, <2>3, FreeSame, GoodIsVol, Zenon DEF Unhurt
    <3>4. Exact(w)
      BY <2>2, <2>4, <3>2, <3>3, Zenon DEF Exact
    <3>5. Serves(G, s.vol, w, ChainFields)
      BY <3>2, <3>4, Zenon DEF Serves, Unhurt, CountStays
    <3> QED
      BY <2>3, <3>5, ServesWalks, WalksTwice, WalksGoes, Zenon
  <2> QED
    BY <2>3, <2>4, WalksGoes, Zenon
<1> QED
  BY <1>7, <1>8, <1>10, GoesLeaves, LeavesTwice, Zenon

-----------------------------------------------------------------------------
(* Files. *)

(* A call on a file, and its file object: places are numbers, the buffer   *)
(* and the entry are of sectors behind the FATs.                           *)
SesNames == {"vol", "fil", "left", "data", "go"}
IsSes(s) == s = [x \in SesNames |-> s[x]]

FilNames ==
  {"open", "path", "err", "flag", "dir_sect", "dir_slot", "sclust", "objsize",
   "fptr", "clust", "sect", "buf"}
IsFil(f) == f = [x \in FilNames |-> f[x]]

FilPart(G, f) ==
  /\ IsFil(f) /\ f.open = TRUE /\ f.objsize \in Nat /\ f.fptr \in Nat
  /\ f.sect = 0 \/ Beyond(G, f.sect)
  /\ Beyond(G, f.dir_sect) /\ f.dir_slot \in Slots

FilOK(G, f) == FilPart(G, f) /\ (f.err = "OK" => f.fptr <= f.objsize)

Sits(G, s) == IsSes(s) /\ Good(G, s.vol) /\ FilPart(G, s.fil)

(* t comes from s in a call on a file.                                     *)
Held(G, s, t) == IsSes(t) /\ Serves(G, s.vol, t.vol, ChainFields) /\ FilPart(G, t.fil)

(* Of the file object only the fields F have changed.                      *)
Same(f, g, F) == IsFil(g) /\ \A x \in FilNames : x \notin F => g[x] = f[x]

LEMMA HeldTwice ==
  ASSUME NEW G, NEW s, NEW u, NEW t, Held(G, s, u), Held(G, u, t) PROVE Held(G, s, t)
BY ServesTwice, Zenon DEF Held

LEMMA HeldSits ==
  ASSUME NEW G, NEW s, NEW t, Held(G, s, t) PROVE Sits(G, t)
BY Zenon DEF Held, Sits, Serves

LEMMA SitsHeld ==
  ASSUME NEW G, NEW s, Sits(G, s) PROVE Held(G, s, s)
BY ServesStays, Zenon DEF Held, Sits

LEMMA SameTwice ==
  ASSUME NEW f, NEW g, NEW h, NEW F, Same(f, g, F), Same(g, h, F) PROVE Same(f, h, F)
BY Zenon DEF Same

LEMMA SameMore ==
  ASSUME NEW f, NEW g, NEW F, NEW H, Same(f, g, F), F \subseteq H PROVE Same(f, g, H)
BY Zenon DEF Same

LEMMA FuelServes ==
  ASSUME NEW G, GeoOK(G), NEW v, Good(G, v), NEW w, Unhurt(G, v, w, WinFields)
  PROVE  Serves(G, v, w, ChainFields)
BY ReadServes, Zenon

LEMMA ReadingServes ==
  ASSUME NEW G, GeoOK(G), NEW v, Good(G, v), NEW w, Unhurt(G, v, w, ReadFields)
  PROVE  Serves(G, v, w, ChainFields)
BY ReadServes, Zenon

LEMMA ResServes ==
  ASSUME NEW G, GeoOK(G), NEW v, Good(G, v), NEW r
  PROVE  /\ Serves(G, v, Failed(v, r), ChainFields) /\ Serves(G, v, Ok(v), ChainFields)
         /\ Failed(v, r).val = v.val /\ Ok(v).val = v.val
<1>1. Unhurt(G, v, Failed(v, r), WinFields) /\ Unhurt(G, v, Ok(v), WinFields)
  BY ResUnhurt, Zenon
<1>2. Differ(v, Failed(v, r), {"res"}) /\ Differ(v, Ok(v), {"res"})
  BY ResIs, GoodIsVol, Zenon
<1>3. Failed(v, r).val = v.val /\ Ok(v).val = v.val
  BY <1>2, Zenon DEF Differ, VolFields
<1> QED
  BY <1>1, <1>3, FuelServes, Zenon

LEMMA DiskServes ==
  ASSUME NEW G, GeoOK(G), NEW v, Good(G, v), NEW s
  PROVE  /\ Serves(G, v, disk_read(v, s), ChainFields) /\ disk_read(v, s).val = v.val
<1>1. PICK w : w = disk_read(v, s)
  OBVIOUS
<1>2. Differ(v, w, {"fuel", "res"}) /\ (Quiet(v) => Quiet(w))
  BY <1>1, DiskReadIs, GoodIsVol, Zenon
<1>3. Unhurt(G, v, w, WinFields)
  BY <1>2, FuelUnhurt, Zenon
<1>4. w.val = v.val
  BY <1>2, Zenon DEF Differ, VolFields
<1> QED
  BY <1>1, <1>3, <1>4, FuelServes, Zenon

LEMMA WriteServes ==
  ASSUME NEW G, GeoOK(G), NEW v, Good(G, v), NEW s, s \notin Fats(G), NEW d
  PROVE  LET w == disk_write(v, s, DataSector(d)) IN
         Serves(G, v, w, ChainFields) /\ w.val = v.val
<1>1. PICK c : c = DataSector(d)
  OBVIOUS
<1>2. IsTable(c)
  BY <1>1 DEF IsTable, DataSector
<1>3. PICK w : w = disk_write(v, s, c)
  OBVIOUS
<1>4. Unhurt(G, v, w, WinFields)
  BY <1>2, <1>3, WriteUnhurt, Zenon
<1>5. w.val = v.val
  BY <1>4, Zenon DEF Unhurt, Differ, VolFields, WinFields
<1> QED
  BY <1>1, <1>3, <1>4, <1>5, FuelServes, Zenon

(* What happens to the record of a call.                                   *)
LEMMA VolSet ==
  ASSUME NEW G, NEW s, Sits(G, s), NEW w, Serves(G, s.vol, w, ChainFields)
  PROVE  LET t == [s EXCEPT !.vol = w] IN
         Held(G, s, t) /\ t.vol = w /\ t.fil = s.fil /\ t.left = s.left /\ t.go = s.go
<1>1. PICK t : t = [s EXCEPT !.vol = w]
  OBVIOUS
<1>2. IsSes(t) /\ t.vol = w /\ t.fil = s.fil /\ t.left = s.left /\ t.go = s.go
  BY <1>1, Zenon DEF Sits, IsSes, SesNames
<1> QED
  BY <1>1, <1>2, Zenon DEF Held, Sits

LEMMA FilSet ==
  ASSUME NEW G, NEW s, Sits(G, s), NEW f, FilPart(G, f)
  PROVE  LET t == [s EXCEPT !.fil = f] IN
         Held(G, s, t) /\ t.vol = s.vol /\ t.fil = f /\ t.left = s.left /\ t.go = s.go
<1>1. PICK t : t = [s EXCEPT !.fil = f]
  OBVIOUS
<1>2. IsSes(t) /\ t.vol = s.vol /\ t.fil = f /\ t.left = s.left /\ t.go = s.go
  BY <1>1, Zenon DEF Sits, IsSes, SesNames
<1> QED
  BY <1>1, <1>2, ServesStays, Zenon DEF Held, Sits

(* Fields of the file object that may be anything.                         *)
LEMMA FilMay ==
  ASSUME NEW G, NEW f, FilPart(G, f), NEW g, Same(f, g, {"err", "flag", "sclust", "clust", "buf"})
  PROVE  FilPart(G, g)
<1>1. /\ IsFil(g) /\ g.open = f.open /\ g.objsize = f.objsize /\ g.fptr = f.fptr /\ g.sect = f.sect
      /\ g.dir_sect = f.dir_sect /\ g.dir_slot = f.dir_slot
  BY Zenon DEF Same, FilNames
<1> QED
  BY <1>1, Zenon DEF FilPart

LEMMA ErrSet ==
  ASSUME NEW f, IsFil(f), NEW r
  PROVE  LET g == [f EXCEPT !.err = r] IN Same(f, g, {"err"}) /\ g.err = r
<1>1. PICK g : g = [f EXCEPT !.err = r]
  OBVIOUS
<1>2. Same(f, g, {"err"}) /\ g.err = r
  BY <1>1, Zenon DEF Same, IsFil, FilNames
<1> QED
  BY <1>1, <1>2, Zenon

LEMMA FlagSet ==
  ASSUME NEW f, IsFil(f), NEW x
  PROVE  Same(f, Raise(f, x), {"flag"}) /\ Same(f, Lower(f, x), {"flag"})
<1>1. PICK a : a = f.flag \cup {x}
  OBVIOUS
<1>2. PICK b : b = f.flag \ {x}
  OBVIOUS
<1>3. PICK g : g = [f EXCEPT !.flag = a]
  OBVIOUS
<1>4. PICK h : h = [f EXCEPT !.flag = b]
  OBVIOUS
<1>5. Raise(f, x) = g /\ Lower(f, x) = h
  BY <1>1, <1>2, <1>3, <1>4, Zenon DEF Raise, Lower
<1>6. Same(f, g, {"flag"}) /\ Same(f, h, {"flag"})
  BY <1>3, <1>4, Zenon DEF Same, IsFil, FilNames
<1> QED
  BY <1>5, <1>6, Zenon

(* t comes from s in an abort with the error r.                            *)
Aborts(G, s, t, r) ==
  /\ Held(G, s, t) /\ Same(s.fil, t.fil, {"err"}) /\ t.fil.err = r
  /\ t.left = s.left /\ t.go = FALSE /\ t.vol.val = s.vol.val

LEMMA AbortIs ==
  ASSUME NEW G, GeoOK(G), NEW s, Sits(G, s), NEW r PROVE Aborts(G, s, Abort(s, r), r)
<1>1. PICK t : t = Abort(s, r)
  OBVIOUS
<1>2. PICK w : w = [s.vol EXCEPT !.res = r]
  OBVIOUS
<1>3. PICK f : f = [s.fil EXCEPT !.err = r]
  OBVIOUS
<1>4. t = [s EXCEPT !.vol = w, !.fil = f, !.go = FALSE]
  BY <1>1, <1>2, <1>3, Zenon DEF Abort, Sits, IsSes, SesNames
<1>5. IsSes(t) /\ t.vol = w /\ t.fil = f /\ t.left = s.left /\ t.go = FALSE
  BY <1>4, Zenon DEF Sits, IsSes, SesNames
<1>6. Serves(G, s.vol, w, ChainFields) /\ w.val = s.vol.val
  <2>1. w = Failed(s.vol, r)
    BY <1>2, Zenon DEF Failed
  <2>2. Good(G, s.vol)
    BY Zenon DEF Sits
  <2> QED
    BY <2>1, <2>2, ResServes
<1>7. Same(s.fil, f, {"err"}) /\ f.err = r
  <2>1. IsFil(s.fil)
    BY Zenon DEF Sits, FilPart
  <2> QED
    BY <1>3, <2>1, ErrSet
<1>8. FilPart(G, f)
  <2>1. {"err"} \subseteq {"err", "flag", "sclust", "clust", "buf"}
    OBVIOUS
  <2>2. Same(s.fil, f, {"err", "flag", "sclust", "clust", "buf"})
    BY <1>7, <2>1, SameMore
  <2>3. FilPart(G, s.fil)
    BY Zenon DEF Sits
  <2> QED
    BY <2>2, <2>3, FilMay, Zenon
<1> QED
  BY <1>1, <1>5, <1>6, <1>7, <1>8, Zenon DEF Held, Aborts

(* The steps that move the buffer.                                         *)
Buffering == {"err", "flag", "buf"}

LEMMA BufferingIs ==
  /\ {"err"} \subseteq Buffering /\ {"flag"} \subseteq Buffering /\ {"buf"} \subseteq Buffering
  /\ Buffering \subseteq {"err", "flag", "sclust", "clust", "buf"}
BY Zenon DEF Buffering

\* A step that leaves the places of the file object alone; one that ends the
\* call leaves an error.
Buffers(G, s, t) ==
  /\ Held(G, s, t) /\ Same(s.fil, t.fil, Buffering)
  /\ t.left = s.left /\ t.vol.val = s.vol.val
  /\ (t.go = s.go /\ t.fil.err = s.fil.err) \/ (t.go = FALSE /\ t.fil.err # "OK")

LEMMA BuffersTwice ==
  ASSUME NEW G, NEW s, NEW u, NEW t, Buffers(G, s, u), Buffers(G, u, t) PROVE Buffers(G, s, t)
BY HeldTwice, SameTwice, Zenon DEF Buffers

LEMMA BuffersStays ==
  ASSUME NEW G, NEW s, Sits(G, s) PROVE Buffers(G, s, s)
BY SitsHeld, Zenon DEF Buffers, Same, Sits, FilPart

LEMMA BuffersSits ==
  ASSUME NEW G, NEW s, NEW t, Buffers(G, s, t) PROVE Sits(G, t)
BY HeldSits, Zenon DEF Buffers

LEMMA BufferFields ==
  ASSUME NEW G, NEW s, NEW t, Buffers(G, s, t)
  PROVE  /\ t.fil.objsize = s.fil.objsize /\ t.fil.fptr = s.fil.fptr /\ t.fil.sect = s.fil.sect
         /\ t.fil.clust = s.fil.clust /\ t.fil.sclust = s.fil.sclust
BY Zenon DEF Buffers, Same, FilNames, Buffering

LEMMA AbortBuffers ==
  ASSUME NEW G, GeoOK(G), NEW s, Sits(G, s), NEW r, r # "OK" PROVE Buffers(G, s, Abort(s, r))
<1>1. PICK t : t = Abort(s, r)
  OBVIOUS
<1>2. /\ Held(G, s, t) /\ Same(s.fil, t.fil, {"err"}) /\ t.fil.err = r
      /\ t.left = s.left /\ t.go = FALSE /\ t.vol.val = s.vol.val
  <2>1. Aborts(G, s, t, r)
    BY <1>1, AbortIs, Zenon
  <2> QED
    BY <2>1, Zenon DEF Aborts
<1>3. Same(s.fil, t.fil, Buffering)
  BY <1>2, BufferingIs, SameMore, Zenon
<1> QED
  BY <1>1, <1>2, <1>3, Zenon DEF Buffers

LEMMA VolBuffers ==
  ASSUME NEW G, NEW s, Sits(G, s), NEW w, Serves(G, s.vol, w, ChainFields), w.val = s.vol.val
  PROVE  LET t == [s EXCEPT !.vol = w] IN Buffers(G, s, t) /\ t.vol = w /\ t.fil = s.fil
<1>1. PICK t : t = [s EXCEPT !.vol = w]
  OBVIOUS
<1>2. Held(G, s, t) /\ t.vol = w /\ t.fil = s.fil /\ t.left = s.left /\ t.go = s.go
  BY <1>1, VolSet
<1>3. Same(s.fil, s.fil, Buffering)
  BY Zenon DEF Same, Sits, FilPart
<1> QED
  BY <1>1, <1>2, <1>3, Zenon DEF Buffers

LEMMA FilBuffers ==
  ASSUME NEW G, NEW s, Sits(G, s), NEW f, Same(s.fil, f, Buffering), f.err = s.fil.err
  PROVE  LET t == [s EXCEPT !.fil = f] IN Buffers(G, s, t) /\ t.vol = s.vol /\ t.fil = f
<1>1. PICK t : t = [s EXCEPT !.fil = f]
  OBVIOUS
<1>2. FilPart(G, f)
  <2>1. Same(s.fil, f, {"err", "flag", "sclust", "clust", "buf"})
    BY BufferingIs, SameMore, Zenon
  <2>2. FilPart(G, s.fil)
    BY Zenon DEF Sits
  <2> QED
    BY <2>1, <2>2, FilMay, Zenon
<1>3. Held(G, s, t) /\ t.vol = s.vol /\ t.fil = f /\ t.left = s.left /\ t.go = s.go
  BY <1>1, <1>2, FilSet
<1> QED
  BY <1>1, <1>3, Zenon DEF Buffers

LEMMA WriteBackIs ==
  ASSUME NEW G, GeoOK(G), NEW s, Sits(G, s) PROVE Buffers(G, s, WriteBack(s))
<1>1. PICK w : w = disk_write(s.vol, s.fil.sect, DataSector(s.fil.buf))
  OBVIOUS
<1>2. PICK a : a = [s EXCEPT !.vol = w]
  OBVIOUS
<1>3. PICK f : f = Lower(s.fil, "DIRTY")
  OBVIOUS
<1>4. PICK b : b = [a EXCEPT !.fil = f]
  OBVIOUS
<1>5. \/ WriteBack(s) = s
      \/ WriteBack(s) = Abort(a, "DISK_ERR")
      \/ WriteBack(s) = b
  BY <1>1, <1>2, <1>3, <1>4 DEF WriteBack, After
<1>6. s.fil.sect \notin Fats(G)
  BY FatsIn, Zenon DEF Sits, FilPart
<1>7. Serves(G, s.vol, w, ChainFields) /\ w.val = s.vol.val
  <2>1. Good(G, s.vol)
    BY Zenon DEF Sits
  <2> QED
    BY <1>1, <1>6, <2>1, WriteServes
<1>8. Buffers(G, s, a) /\ a.vol = w /\ a.fil = s.fil /\ Sits(G, a)
  <2>1. Buffers(G, s, a) /\ a.vol = w /\ a.fil = s.fil
    BY <1>2, <1>7, VolBuffers
  <2> QED
    BY <2>1, BuffersSits, Zenon
<1>9. Buffers(G, a, Abort(a, "DISK_ERR"))
  <2>1. "DISK_ERR" # "OK"
    OBVIOUS
  <2> QED
    BY <1>8, <2>1, AbortBuffers, Zenon
<1>10. Buffers(G, a, b)
  <2>1. IsFil(s.fil)
    BY Zenon DEF Sits, FilPart
  <2>2. Same(s.fil, f, {"flag"})
    BY <1>3, <2>1, FlagSet
  <2>3. "err" \in FilNames /\ "err" \notin {"flag"}
    BY Zenon DEF FilNames
  <2>4. Same(a.fil, f, Buffering) /\ f.err = a.fil.err
    BY <1>8, <2>2, <2>3, BufferingIs, SameMore, Zenon DEF Same
  <2> QED
    BY <1>4, <1>8, <2>4, FilBuffers
<1> QED
  BY <1>5, <1>8, <1>9, <1>10, BuffersStays, BuffersTwice, Zenon

LEMMA FillIs ==
  ASSUME NEW G, GeoOK(G), NEW s, Sits(G, s), NEW sect PROVE Buffers(G, s, Fill(s, sect))
<1>1. PICK w : w = disk_read(s.vol, sect)
  OBVIOUS
<1>2. PICK a : a = [s EXCEPT !.vol = w]
  OBVIOUS
<1>3. PICK x : x = Bytes(w.disk[sect])
  OBVIOUS
<1>4. PICK f : f = [s.fil EXCEPT !.buf = x]
  OBVIOUS
<1>5. PICK b : b = [a EXCEPT !.fil = f]
  OBVIOUS
<1>6. Serves(G, s.vol, w, ChainFields) /\ w.val = s.vol.val
  <2>1. Good(G, s.vol)
    BY Zenon DEF Sits
  <2> QED
    BY <1>1, <2>1, DiskServes
<1>7. Buffers(G, s, a) /\ a.vol = w /\ a.fil = s.fil /\ Sits(G, a)
  <2>1. Buffers(G, s, a) /\ a.vol = w /\ a.fil = s.fil
    BY <1>2, <1>6, VolBuffers
  <2> QED
    BY <2>1, BuffersSits, Zenon
<1>8. b = [s EXCEPT !.vol = w, !.fil.buf = x]
  <2>1. [a EXCEPT !.fil = f] = [s EXCEPT !.vol = w, !.fil = f]
    BY <1>2, Zenon DEF Sits, IsSes, SesNames
  <2> QED
    BY <1>4, <1>5, <2>1, Zenon DEF Sits, IsSes, SesNames
<1>9. Fill(s, sect) = IF w.res # "OK" THEN Abort(a, "DISK_ERR") ELSE b
  BY <1>1, <1>2, <1>3, <1>8 DEF Fill, After
<1>10. Buffers(G, a, Abort(a, "DISK_ERR"))
  <2>1. "DISK_ERR" # "OK"
    OBVIOUS
  <2> QED
    BY <1>7, <2>1, AbortBuffers, Zenon
<1>11. Buffers(G, a, b)
  <2>1. IsFil(s.fil)
    BY Zenon DEF Sits, FilPart
  <2>2. Same(s.fil, f, {"buf"}) /\ f.err = s.fil.err
    BY <1>4, <2>1, Zenon DEF Same, IsFil, FilNames
  <2>3. Same(a.fil, f, Buffering) /\ f.err = a.fil.err
    BY <1>7, <2>2, BufferingIs, SameMore, Zenon
  <2> QED
    BY <1>5, <1>7, <2>3, FilBuffers
<1> QED
  BY <1>7, <1>9, <1>10, <1>11, BuffersTwice, Zenon

-----------------------------------------------------------------------------
(* Where a file pointer is. *)

LEMMA PlaceIs ==
  ASSUME NEW G, GeoOK(G), NEW s, Sits(G, s)
  PROVE  /\ SectorInCluster(s) \in 0 .. G.csize - 1 /\ G.csize \in Nat /\ s.vol.csize = G.csize
         /\ IsCluster(s.vol, s.fil.clust) =>
              Beyond(G, CurrentSector(s)) /\ clst2sect(s.vol, s.fil.clust) # 0
<1>1. HasGeo(G, s.vol) /\ s.vol.csize = G.csize /\ s.fil.fptr \in Nat
  BY GoodIsVol, GeoIs, Zenon DEF Sits, FilPart
<1>2. G.csize \in Nat \ {0}
  BY DEF GeoOK
<1>3. PICK q : q = s.fil.fptr \div SS
  OBVIOUS
<1>4. q \in Nat
  BY <1>1, <1>3, SectorAssumption, DivMod
<1>5. PICK n : n = q % G.csize
  OBVIOUS
<1>6. n \in 0 .. G.csize - 1 /\ n \in Nat
  BY <1>2, <1>4, <1>5, DivMod
<1>7. SectorInCluster(s) = n
  BY <1>1, <1>3, <1>5, Zenon DEF SectorInCluster
<1>8. PICK k : k = clst2sect(s.vol, s.fil.clust)
  OBVIOUS
<1>9. IsCluster(s.vol, s.fil.clust) => Beyond(G, k)
  BY <1>1, <1>8, ClusterSector, Zenon
<1>10. CurrentSector(s) = k + n
  BY <1>7, <1>8, Zenon DEF CurrentSector
<1>11. IsCluster(s.vol, s.fil.clust) => Beyond(G, k + n) /\ k # 0
  BY <1>6, <1>9, BeyondMore, Zenon
<1> QED
  BY <1>1, <1>2, <1>6, <1>7, <1>8, <1>10, <1>11

LEMMA WholeIs ==
  ASSUME NEW G, GeoOK(G), NEW s, Sits(G, s), s.left \in Nat
  PROVE  /\ WholeSectors(s) \in Nat
         /\ SS * WholeSectors(s) \in Nat /\ SS * WholeSectors(s) <= s.left
<1>1. PICK q : q = s.left \div SS
  OBVIOUS
<1>2. q \in Nat /\ SS * q <= s.left /\ SS * q \in Nat
  <2>1. q \in Nat /\ s.left % SS \in 0 .. SS - 1 /\ s.left = SS * q + (s.left % SS)
    BY <1>1, SectorAssumption, DivMod
  <2>2. PICK x : x = SS * q
    OBVIOUS
  <2>3. x \in Nat
    BY <2>1, <2>2, SectorAssumption
  <2>4. PICK y : y = s.left % SS
    OBVIOUS
  <2>5. y \in Nat /\ s.left = x + y
    BY <2>1, <2>2, <2>4, SectorAssumption
  <2> QED
    BY <2>1, <2>2, <2>3, <2>5
<1>3. PICK m : m = s.vol.csize - SectorInCluster(s)
  OBVIOUS
<1>4. m \in Nat
  BY <1>3, PlaceIs
<1>5. PICK c : c = WholeSectors(s)
  OBVIOUS
<1>6. c = IF q < m THEN q ELSE m
  BY <1>1, <1>3, <1>5 DEF WholeSectors, Min2
<1>7. c \in Nat /\ c <= q
  BY <1>2, <1>4, <1>6
<1>8. SS * c <= SS * q /\ SS * c \in Nat
  BY <1>2, <1>7, ProductOrder, SectorAssumption
<1>9. PICK x : x = SS * c
  OBVIOUS
<1>10. PICK y : y = SS * q
  OBVIOUS
<1> QED
  BY <1>2, <1>5, <1>7, <1>8, <1>9, <1>10

-----------------------------------------------------------------------------
(* Reading. *)

(* The fields a call sets beside the size and the pointer.                 *)
Working == {"err", "flag", "sclust", "clust", "buf", "sect"}

\* A step that leaves the pointer, the size and what is left to do alone.
Works(G, s, t) == Held(G, s, t) /\ Same(s.fil, t.fil, Working) /\ t.left = s.left

LEMMA WorkingIs ==
  /\ Buffering \subseteq Working /\ {"sclust", "clust"} \subseteq Working /\ {"sect"} \subseteq Working
  /\ {"err"} \subseteq Working
BY Zenon DEF Buffering, Working

LEMMA WorksTwice ==
  ASSUME NEW G, NEW s, NEW u, NEW t, Works(G, s, u), Works(G, u, t) PROVE Works(G, s, t)
BY HeldTwice, SameTwice, Zenon DEF Works

LEMMA WorksStays ==
  ASSUME NEW G, NEW s, Sits(G, s) PROVE Works(G, s, s)
BY SitsHeld, Zenon DEF Works, Same, Sits, FilPart

LEMMA WorksSits ==
  ASSUME NEW G, NEW s, NEW t, Works(G, s, t) PROVE Sits(G, t)
BY HeldSits, Zenon DEF Works

LEMMA BuffersWorks ==
  ASSUME NEW G, NEW s, NEW t, Buffers(G, s, t) PROVE Works(G, s, t)
BY WorkingIs, SameMore, Zenon DEF Buffers, Works

LEMMA WorksPlace ==
  ASSUME NEW G, NEW s, NEW t, Works(G, s, t)
  PROVE  t.fil.objsize = s.fil.objsize /\ t.fil.fptr = s.fil.fptr /\ t.left = s.left
BY Zenon DEF Works, Same, FilNames, Working

LEMMA AbortWorks ==
  ASSUME NEW G, GeoOK(G), NEW s, Sits(G, s), NEW r PROVE Works(G, s, Abort(s, r))
<1>1. Aborts(G, s, Abort(s, r), r)
  BY AbortIs, Zenon
<1> QED
  BY <1>1, WorkingIs, SameMore, Zenon DEF Aborts, Works

LEMMA VolWorks ==
  ASSUME NEW G, NEW s, Sits(G, s), NEW w, Serves(G, s.vol, w, ChainFields)
  PROVE  LET t == [s EXCEPT !.vol = w] IN
         Works(G, s, t) /\ t.vol = w /\ t.fil = s.fil /\ t.left = s.left /\ t.go = s.go
<1>1. PICK t : t = [s EXCEPT !.vol = w]
  OBVIOUS
<1>2. Held(G, s, t) /\ t.vol = w /\ t.fil = s.fil /\ t.left = s.left /\ t.go = s.go
  BY <1>1, VolSet
<1>3. Same(s.fil, s.fil, Working)
  BY Zenon DEF Same, Sits, FilPart
<1> QED
  BY <1>1, <1>2, <1>3, Zenon DEF Works

LEMMA FilWorks ==
  ASSUME NEW G, NEW s, Sits(G, s), NEW f, FilPart(G, f), Same(s.fil, f, Working)
  PROVE  LET t == [s EXCEPT !.fil = f] IN
         Works(G, s, t) /\ t.vol = s.vol /\ t.fil = f /\ t.left = s.left /\ t.go = s.go
<1>1. PICK t : t = [s EXCEPT !.fil = f]
  OBVIOUS
<1>2. Held(G, s, t) /\ t.vol = s.vol /\ t.fil = f /\ t.left = s.left /\ t.go = s.go
  BY <1>1, FilSet
<1> QED
  BY <1>1, <1>2, Zenon DEF Works

(* The cluster or the sector of the file is set.                           *)
LEMMA ClustWorks ==
  ASSUME NEW G, NEW s, Sits(G, s), NEW c, NEW d
  PROVE  LET f == [s.fil EXCEPT !.clust = c, !.sclust = d]
             t == [s EXCEPT !.fil = f] IN
         Works(G, s, t) /\ t.vol = s.vol /\ t.fil = f /\ t.go = s.go
<1>1. PICK f : f = [s.fil EXCEPT !.clust = c, !.sclust = d]
  OBVIOUS
<1>2. Same(s.fil, f, {"sclust", "clust"})
  BY <1>1, Zenon DEF Sits, FilPart, Same, IsFil, FilNames
<1>3. {"sclust", "clust"} \subseteq {"err", "flag", "sclust", "clust", "buf"}
  BY Zenon
<1>4. Same(s.fil, f, {"err", "flag", "sclust", "clust", "buf"}) /\ Same(s.fil, f, Working)
  BY <1>2, <1>3, WorkingIs, SameMore, Zenon
<1>5. FilPart(G, f)
  BY <1>4, FilMay, Zenon DEF Sits
<1> QED
  BY <1>1, <1>4, <1>5, FilWorks

LEMMA SectWorks ==
  ASSUME NEW G, NEW s, Sits(G, s), NEW c, Beyond(G, c)
  PROVE  LET t == [s EXCEPT !.fil.sect = c] IN
         Works(G, s, t) /\ t.vol = s.vol /\ t.go = s.go /\ t.fil.err = s.fil.err
<1>1. PICK f : f = [s.fil EXCEPT !.sect = c]
  OBVIOUS
<1>2. Same(s.fil, f, {"sect"}) /\ f.sect = c /\ f.err = s.fil.err
  BY <1>1, Zenon DEF Sits, FilPart, Same, IsFil, FilNames
<1>3. FilPart(G, f)
  <2>1. /\ IsFil(f) /\ f.open = s.fil.open /\ f.objsize = s.fil.objsize /\ f.fptr = s.fil.fptr
        /\ f.dir_sect = s.fil.dir_sect /\ f.dir_slot = s.fil.dir_slot
    BY <1>2, Zenon DEF Same, FilNames
  <2> QED
    BY <1>2, <2>1, Zenon DEF Sits, FilPart
<1>4. Same(s.fil, f, Working)
  BY <1>2, WorkingIs, SameMore, Zenon
<1>5. PICK t : t = [s EXCEPT !.fil = f]
  OBVIOUS
<1>6. t = [s EXCEPT !.fil.sect = c]
  BY <1>1, <1>5, Zenon DEF Sits, IsSes, SesNames
<1>7. Works(G, s, t) /\ t.vol = s.vol /\ t.fil = f /\ t.go = s.go
  BY <1>3, <1>4, <1>5, FilWorks
<1> QED
  BY <1>2, <1>6, <1>7, Zenon

LEMMA FollowReadIs ==
  ASSUME NEW G, GeoOK(G), NEW s, Sits(G, s) PROVE Works(G, s, FollowForRead(s))
<1>1. PICK g : g = IF s.fil.fptr = 0 THEN Returns(s.vol, s.fil.sclust) ELSE get_fat(s.vol, s.fil.clust)
  OBVIOUS
<1>2. PICK t : t = [s EXCEPT !.vol = g]
  OBVIOUS
<1>3. PICK d : d = t.fil.sclust
  OBVIOUS
<1>4. PICK f : f = [t.fil EXCEPT !.clust = g.val]
  OBVIOUS
<1>5. PICK u : u = [t EXCEPT !.fil = f]
  OBVIOUS
<1>6. Serves(G, s.vol, g, ChainFields)
  <2>1. Good(G, s.vol)
    BY Zenon DEF Sits
  <2>2. Unhurt(G, s.vol, Returns(s.vol, s.fil.sclust), ReadFields)
    BY <2>1, ValUnhurt, Zenon
  <2>3. Unhurt(G, s.vol, get_fat(s.vol, s.fil.clust), ReadFields)
    BY <2>1, GetIs, Zenon
  <2>4. Unhurt(G, s.vol, g, ReadFields)
    BY <1>1, <2>2, <2>3, Zenon
  <2> QED
    BY <2>1, <2>4, ReadingServes, Zenon
<1>7. Works(G, s, t) /\ Sits(G, t)
  <2>1. Works(G, s, t)
    BY <1>2, <1>6, VolWorks
  <2> QED
    BY <2>1, WorksSits, Zenon
<1>8. Works(G, t, u)
  <2>1. f = [t.fil EXCEPT !.clust = g.val, !.sclust = d]
    BY <1>3, <1>4, <1>7, Zenon DEF Sits, FilPart, IsFil, FilNames
  <2> QED
    BY <1>5, <1>7, <2>1, ClustWorks
<1>9. u = [t EXCEPT !.fil.clust = g.val]
  BY <1>4, <1>5, <1>7, Zenon DEF Sits, IsSes, SesNames
<1>10. FollowForRead(s) \in {Abort(t, "INT_ERR"), Abort(t, "DISK_ERR"), u}
  <2>1. FollowForRead(s) = CASE g.val \in {0, 1} -> Abort(t, "INT_ERR")
                             [] g.val = DISK -> Abort(t, "DISK_ERR")
                             [] OTHER -> [t EXCEPT !.fil.clust = g.val]
    BY <1>1, <1>2 DEF FollowForRead, After
  <2>2. DISK \notin {0, 1}
    BY StatusApart, Zenon
  <2> QED
    BY <1>9, <2>1, <2>2
<1>11. Works(G, t, Abort(t, "INT_ERR")) /\ Works(G, t, Abort(t, "DISK_ERR"))
  BY <1>7, AbortWorks, Zenon
<1> QED
  BY <1>7, <1>8, <1>10, <1>11, WorksTwice, Zenon

(* The loop over sectors.                                                  *)
ReadStep(c, i, s)  == IF s.res = "OK" THEN disk_read(s, c.t + i - 1) ELSE s
ReadKeeps(c, i, s) == Serves(c.G, c.v, s, ChainFields)
ReadLoop == INSTANCE Loops WITH Step <- ReadStep, Keeps <- ReadKeeps

\* The loop of f_read: n sectors from t on.
ReadAll(n, t, v) == For(n, LAMBDA i, r : disk_read(r, t + i - 1), v)

LEMMA ReadAllIs ==
  ASSUME NEW G, GeoOK(G), NEW v, Good(G, v), NEW t, NEW n \in Nat
  PROVE  Serves(G, v, ReadAll(n, t, v), ChainFields)
<1>1. PICK c : c = [G |-> G, v |-> v, t |-> t]
  OBVIOUS
<1>2. c.G = G /\ c.v = v /\ c.t = t
  BY <1>1
<1>3. ReadKeeps(c, 0, v)
  BY <1>2, ServesStays, Zenon DEF ReadKeeps
<1>4. ASSUME NEW i \in 1 .. n, NEW s, ReadKeeps(c, i - 1, s) PROVE ReadKeeps(c, i, ReadStep(c, i, s))
  <2>1. Serves(G, v, s, ChainFields)
    BY <1>2, <1>4, Zenon DEF ReadKeeps
  <2>2. Good(G, s)
    BY <2>1, Zenon DEF Serves
  <2>3. PICK k : k = c.t + i - 1
    OBVIOUS
  <2>4. Serves(G, s, disk_read(s, k), ChainFields)
    BY <2>2, DiskServes
  <2>5. ReadStep(c, i, s) = s \/ ReadStep(c, i, s) = disk_read(s, k)
    BY <2>3, Zenon DEF ReadStep
  <2> QED
    BY <1>2, <2>1, <2>4, <2>5, ServesTwice, Zenon DEF ReadKeeps
<1>5. ReadKeeps(c, n, ReadLoop!Track(c, v, n)[n])
  BY <1>3, <1>4, ReadLoop!LoopKeeps, AllNumbers, Zenon
<1>6. ReadLoop!Track(c, v, n)[n] = ReadAll(n, t, v)
  BY <1>2 DEF ReadLoop!Track, ReadAll, For, ReadStep
<1> QED
  BY <1>2, <1>5, <1>6, Zenon DEF ReadKeeps

\* What is left to read is in the file.
Room(s) == s.left \in Nat /\ s.fil.fptr + s.left <= s.fil.objsize

\* n bytes of the file have passed.
Passes(s, t, n) ==
  /\ IsSes(t) /\ t.vol = s.vol /\ t.left = s.left - n
  /\ Same(s.fil, t.fil, {"fptr"}) /\ t.fil.fptr = s.fil.fptr + n

Reads(G, s, t) == Held(G, s, t) /\ (Room(s) => Room(t))

LEMMA ReadsTwice ==
  ASSUME NEW G, NEW s, NEW u, NEW t, Reads(G, s, u), Reads(G, u, t) PROVE Reads(G, s, t)
BY HeldTwice, Zenon DEF Reads

LEMMA WorksReads ==
  ASSUME NEW G, NEW s, NEW t, Works(G, s, t) PROVE Reads(G, s, t) /\ Sits(G, t)
<1>1. t.fil.objsize = s.fil.objsize /\ t.fil.fptr = s.fil.fptr /\ t.left = s.left
  BY WorksPlace, Zenon
<1>2. Held(G, s, t) /\ Sits(G, t)
  BY WorksSits, Zenon DEF Works
<1> QED
  BY <1>1, <1>2, Zenon DEF Reads, Room

LEMMA PassesReads ==
  ASSUME NEW G, NEW s, Sits(G, s), Room(s), NEW n \in Nat, n <= s.left, NEW t, Passes(s, t, n)
  PROVE  Reads(G, s, t)
<1>1. /\ IsFil(t.fil) /\ t.fil.open = s.fil.open /\ t.fil.objsize = s.fil.objsize
      /\ t.fil.dir_sect = s.fil.dir_sect /\ t.fil.dir_slot = s.fil.dir_slot /\ t.fil.sect = s.fil.sect
  BY Zenon DEF Passes, Same, FilNames
<1>2. t.fil.fptr = s.fil.fptr + n /\ t.left = s.left - n /\ t.vol = s.vol /\ IsSes(t)
  BY Zenon DEF Passes
<1>3. s.fil.fptr \in Nat /\ s.fil.objsize \in Nat /\ s.left \in Nat /\ s.fil.fptr + s.left <= s.fil.objsize
  BY Zenon DEF Sits, FilPart, Room
<1>4. PICK a : a = s.fil.fptr
  OBVIOUS
<1>5. PICK b : b = s.left
  OBVIOUS
<1>6. a + n \in Nat /\ b - n \in Nat /\ (a + n) + (b - n) = a + b
  BY <1>3, <1>4, <1>5
<1>7. PICK x : x = t.fil.fptr
  OBVIOUS
<1>8. PICK y : y = t.left
  OBVIOUS
<1>9. x \in Nat /\ y \in Nat /\ x + y = a + b
  BY <1>2, <1>4, <1>5, <1>6, <1>7, <1>8
<1>10. Room(t)
  BY <1>1, <1>3, <1>4, <1>5, <1>7, <1>8, <1>9, Zenon DEF Room
<1>11. FilPart(G, t.fil)
  BY <1>1, <1>7, <1>9, Zenon DEF FilPart, Sits
<1> QED
  BY <1>2, <1>10, <1>11, ServesStays, Zenon DEF Reads, Held, Sits

LEMMA LoadReadIs ==
  ASSUME NEW G, GeoOK(G), NEW s, Sits(G, s), IsCluster(s.vol, s.fil.clust)
  PROVE  Works(G, s, LoadForRead(s))
<1>1. PICK sect : sect = CurrentSector(s)
  OBVIOUS
<1>2. Beyond(G, sect)
  BY <1>1, PlaceIs
<1>3. PICK b : b = WriteBack(s)
  OBVIOUS
<1>4. PICK r : r = IF b.go THEN Fill(b, sect) ELSE b
  OBVIOUS
<1>5. PICK t : t = [r EXCEPT !.fil.sect = sect]
  OBVIOUS
<1>6. LoadForRead(s) = s \/ LoadForRead(s) = r \/ LoadForRead(s) = t
  BY <1>1, <1>3, <1>4, <1>5 DEF LoadForRead, IfGo
<1>7. Works(G, s, b) /\ Sits(G, b)
  BY <1>3, WriteBackIs, BuffersWorks, WorksSits, Zenon
<1>8. Works(G, b, Fill(b, sect)) /\ Works(G, b, b)
  BY <1>7, FillIs, BuffersWorks, WorksStays, Zenon
<1>9. Works(G, s, r) /\ Sits(G, r)
  BY <1>4, <1>7, <1>8, WorksTwice, WorksSits, Zenon
<1>10. Works(G, r, t)
  BY <1>2, <1>5, <1>9, SectWorks
<1> QED
  BY <1>6, <1>9, <1>10, WorksTwice, WorksStays, Zenon

LEMMA ReadBufferIs ==
  ASSUME NEW G, NEW s, Sits(G, s), Room(s) PROVE Reads(G, s, ReadBuffer(s))
<1>1. PICK at : at = s.fil.fptr % SS
  OBVIOUS
<1>2. PICK n : n = IF SS - at < s.left THEN SS - at ELSE s.left
  OBVIOUS
<1>3. at \in 0 .. SS - 1 /\ SS \in Nat \ {0} /\ s.left \in Nat
  BY <1>1, SectorAssumption, DivMod DEF Sits, FilPart, Room
<1>4. n \in Nat /\ n <= s.left
  BY <1>2, <1>3
<1>5. PICK d : d = s.data \o [i \in 1 .. n |-> s.fil.buf[at + i - 1]]
  OBVIOUS
<1>6. PICK t : t = [s EXCEPT !.left = @ - n, !.fil.fptr = @ + n, !.data = d]
  BY SMTT(30)
<1>7. ReadBuffer(s) = t
  BY <1>1, <1>2, <1>5, <1>6 DEF ReadBuffer, Min2
<1>8. IsSes(s) /\ IsFil(s.fil)
  BY Zenon DEF Sits, FilPart
<1>9. PICK f : f = [s.fil EXCEPT !.fptr = @ + n]
  OBVIOUS
<1>10. t = [s EXCEPT !.left = @ - n, !.fil = f, !.data = d]
  BY <1>6, <1>8, <1>9, Zenon DEF IsSes, SesNames
<1>11. IsSes(t) /\ t.vol = s.vol /\ t.left = s.left - n /\ t.fil = f
  BY <1>8, <1>10, Zenon DEF IsSes, SesNames
<1>12. Same(s.fil, f, {"fptr"}) /\ f.fptr = s.fil.fptr + n
  BY <1>8, <1>9, Zenon DEF Same, IsFil, FilNames
<1>13. Passes(s, t, n)
  BY <1>11, <1>12, Zenon DEF Passes
<1> QED
  BY <1>4, <1>7, <1>13, PassesReads, Zenon

LEMMA ReadSectorsIs ==
  ASSUME NEW G, GeoOK(G), NEW s, Sits(G, s), Room(s), NEW cc \in Nat, SS * cc \in Nat, SS * cc <= s.left
  PROVE  Reads(G, s, ReadSectors(s, cc))
<1>1. PICK n : n = SS * cc
  OBVIOUS
<1> DEFINE sect == CurrentSector(s)
           o    == Ok(s.vol)
           r    == ReadAll(cc, sect, o)
           byte(i) == IF Has(s.fil, "DIRTY") /\ s.fil.sect = sect + i \div SS
                        THEN s.fil.buf[i % SS] ELSE Bytes(s.vol.disk[sect + i \div SS])[i % SS]
           d    == s.data \o [i \in 1 .. SS * cc |-> byte(i - 1)]
           a    == [s EXCEPT !.vol = r]
           e    == [s EXCEPT !.vol = r, !.left = @ - SS * cc, !.fil.fptr = @ + SS * cc, !.data = d]
<1>2. ReadSectors(s, cc) = IF r.res # "OK" THEN Abort(a, "DISK_ERR") ELSE e
  BY DEF ReadSectors, After, ReadAll
<1>3. o = Ok(s.vol) /\ r = ReadAll(cc, sect, o) /\ a = [s EXCEPT !.vol = r]
  OBVIOUS
<1>4. e = [s EXCEPT !.vol = r, !.left = @ - SS * cc, !.fil.fptr = @ + SS * cc, !.data = d]
  OBVIOUS
<1> HIDE DEF sect, o, r, byte, d, a, e
<1>6. a = [s EXCEPT !.vol = r]
  BY <1>3
<1>7. PICK t : t = [s EXCEPT !.vol = r, !.left = @ - n, !.fil.fptr = @ + n, !.data = d]
  OBVIOUS
<1>8. ReadSectors(s, cc) = IF r.res # "OK" THEN Abort(a, "DISK_ERR") ELSE t
  BY <1>1, <1>2, <1>4, <1>7, Zenon
<1>9. Serves(G, s.vol, r, ChainFields)
  <2>1. Serves(G, s.vol, o, ChainFields)
    BY <1>3, ResServes, Zenon DEF Sits
  <2>2. Serves(G, o, r, ChainFields)
    BY <1>3, <2>1, ReadAllIs, Zenon DEF Serves
  <2> QED
    BY <2>1, <2>2, ServesTwice, Zenon
<1>10. Works(G, s, a) /\ a.vol = r /\ a.fil = s.fil /\ a.left = s.left
  BY <1>6, <1>9, VolWorks
<1>11. Sits(G, a) /\ Reads(G, s, a) /\ Room(a)
  BY <1>10, WorksReads, Zenon DEF Reads
<1>12. Reads(G, a, Abort(a, "DISK_ERR"))
  BY <1>11, AbortWorks, WorksReads, Zenon
<1>13. IsSes(a) /\ IsFil(a.fil)
  BY <1>11, Zenon DEF Sits, FilPart
<1>14. PICK f : f = [a.fil EXCEPT !.fptr = @ + n]
  OBVIOUS
<1>15. t = [a EXCEPT !.left = @ - n, !.fil = f, !.data = d]
  BY <1>6, <1>7, <1>13, <1>14, Zenon DEF IsSes, SesNames, Sits
<1>16. IsSes(t) /\ t.vol = a.vol /\ t.left = a.left - n /\ t.fil = f
  BY <1>13, <1>15, Zenon DEF IsSes, SesNames
<1>17. Same(a.fil, f, {"fptr"}) /\ f.fptr = a.fil.fptr + n
  BY <1>13, <1>14, Zenon DEF Same, IsFil, FilNames
<1>18. Passes(a, t, n)
  BY <1>16, <1>17, Zenon DEF Passes
<1>19. n \in Nat /\ n <= a.left
  BY <1>1, <1>10, Zenon
<1>20. Reads(G, a, t)
  BY <1>11, <1>18, <1>19, PassesReads, Zenon
<1> QED
  BY <1>8, <1>11, <1>12, <1>20, ReadsTwice, Zenon

LEMMA ReadPieceIs ==
  ASSUME NEW G, GeoOK(G), NEW s, Sits(G, s), Room(s) PROVE Reads(G, s, ReadPiece(s))
<1>1. PICK f : f = IF SectorInCluster(s) = 0 THEN FollowForRead(s) ELSE s
  OBVIOUS
<1>2. PICK cc : cc = WholeSectors(s)
  OBVIOUS
<1>3. PICK b : b = LoadForRead(f)
  OBVIOUS
<1>4. \/ ReadPiece(s) = ReadBuffer(s)
      \/ ReadPiece(s) = f
      \/ ReadPiece(s) = Abort(f, "INT_ERR")
      \/ IsCluster(f.vol, f.fil.clust) /\ ReadPiece(s) \in {ReadSectors(f, cc), b, ReadBuffer(b)}
  BY <1>1, <1>2, <1>3 DEF ReadPiece, IfGo
<1>5. Works(G, s, f)
  BY <1>1, FollowReadIs, WorksStays, Zenon
<1>6. Reads(G, s, f) /\ Sits(G, f) /\ Room(f) /\ f.left = s.left
  BY <1>5, WorksReads, Zenon DEF Reads, Works
<1>7. Reads(G, f, Abort(f, "INT_ERR"))
  BY <1>6, AbortWorks, WorksReads, Zenon
<1>8. cc \in Nat /\ SS * cc \in Nat /\ SS * cc <= f.left
  BY <1>2, <1>6, WholeIs, Zenon DEF Room
<1>9. Reads(G, f, ReadSectors(f, cc))
  BY <1>6, <1>8, ReadSectorsIs, Zenon
<1>10. IsCluster(f.vol, f.fil.clust) => Reads(G, f, b) /\ Reads(G, b, ReadBuffer(b))
  BY <1>3, <1>6, LoadReadIs, WorksReads, ReadBufferIs, Zenon DEF Reads
<1>11. Reads(G, s, ReadBuffer(s))
  BY ReadBufferIs
<1>12. CASE ReadPiece(s) \in {ReadSectors(f, cc), b, ReadBuffer(b)} /\ IsCluster(f.vol, f.fil.clust)
  BY <1>6, <1>9, <1>10, <1>12, ReadsTwice, Zenon
<1> QED
  BY <1>4, <1>6, <1>7, <1>11, <1>12, ReadsTwice, Zenon

\* A call on a file that begins with v leaves the record r.
Calls(G, v, r) == Serves(G, v, r.vol, ChainFields) /\ (r.fil = Closed \/ FilOK(G, r.fil))

\* A call on a file begins: n bytes are left to transfer.
Begins(G, v, fp, n, s) ==
  /\ Sits(G, s) /\ Serves(G, v, s.vol, ChainFields) /\ s.vol = Ok(v)
  /\ s.fil = fp /\ s.left = n /\ s.go = TRUE

LEMMA TransferIs ==
  ASSUME NEW G, GeoOK(G), NEW v, Good(G, v), NEW fp, FilPart(G, fp), NEW n, NEW d
  PROVE  Begins(G, v, fp, n, Transfer(v, fp, n, d))
<1>1. PICK s : s = Transfer(v, fp, n, d)
  OBVIOUS
<1>2. IsSes(s) /\ s.vol = Ok(v) /\ s.fil = fp /\ s.left = n /\ s.go = TRUE
  BY <1>1, Zenon DEF Transfer, IsSes, SesNames
<1>3. Serves(G, v, s.vol, ChainFields)
  BY <1>2, ResServes, Zenon
<1> QED
  BY <1>1, <1>2, <1>3, Zenon DEF Sits, Serves, Begins

LEMMA RefusedIs ==
  ASSUME NEW G, GeoOK(G), NEW v, Good(G, v), NEW fp, FilOK(G, fp), NEW r
  PROVE  Calls(G, v, Refused(v, fp, r))
<1>1. FilPart(G, fp)
  BY Zenon DEF FilOK
<1>2. PICK s : s = Transfer(v, fp, 0, <<>>)
  OBVIOUS
<1>3. Sits(G, s) /\ Serves(G, v, s.vol, ChainFields) /\ s.fil = fp
  <2>1. Begins(G, v, fp, 0, s)
    BY <1>1, <1>2, TransferIs, Zenon
  <2> QED
    BY <2>1, Zenon DEF Begins
<1>4. PICK w : w = Failed(s.vol, r)
  OBVIOUS
<1>5. PICK t : t = [s EXCEPT !.vol = w]
  OBVIOUS
<1>6. Serves(G, s.vol, w, ChainFields)
  BY <1>3, <1>4, ResServes, Zenon DEF Sits
<1>7. Works(G, s, t) /\ t.vol = w /\ t.fil = s.fil
  BY <1>3, <1>5, <1>6, VolWorks
<1>8. Refused(v, fp, r) = t
  <2>1. Refused(v, fp, r) = [s EXCEPT !.vol.res = r]
    BY <1>2, Zenon DEF Refused
  <2> QED
    BY <1>3, <1>4, <1>5, <2>1, Zenon DEF Failed, Sits, IsSes, SesNames
<1>9. Serves(G, v, w, ChainFields)
  BY <1>3, <1>6, ServesTwice, Zenon
<1> QED
  BY <1>3, <1>7, <1>8, <1>9, Zenon DEF Calls

(* A call whose size and pointer are in order.                             *)
LEMMA HeldCalls ==
  ASSUME NEW G, NEW v, NEW s, Serves(G, v, s.vol, ChainFields), NEW t, Held(G, s, t),
         t.fil.err = "OK" => t.fil.fptr <= t.fil.objsize
  PROVE  Calls(G, v, t)
BY ServesTwice, Zenon DEF Held, Calls, FilOK

PieceStep(c, i, s)  == IF s.go /\ s.left > 0 THEN ReadPiece(s) ELSE s
PieceKeeps(c, i, s) == Sits(c.G, s) /\ Reads(c.G, c.s, s) /\ Room(s)
PieceLoop == INSTANCE Loops WITH Step <- PieceStep, Keeps <- PieceKeeps

LEMMA PiecesRead ==
  ASSUME NEW G, GeoOK(G), NEW s0, Sits(G, s0), Room(s0), NEW n \in Nat
  PROVE  LET t == While(LAMBDA s : s.go /\ s.left > 0, ReadPiece, s0, n) IN
         Reads(G, s0, t) /\ Room(t)
<1>1. PICK c : c = [G |-> G, s |-> s0]
  OBVIOUS
<1>2. c.G = G /\ c.s = s0
  BY <1>1
<1>3. PieceKeeps(c, 0, s0)
  BY <1>2, SitsHeld, Zenon DEF PieceKeeps, Reads
<1>4. ASSUME NEW i \in 1 .. n, NEW s, PieceKeeps(c, i - 1, s) PROVE PieceKeeps(c, i, PieceStep(c, i, s))
  <2>1. Sits(G, s) /\ Reads(G, s0, s) /\ Room(s)
    BY <1>2, <1>4, Zenon DEF PieceKeeps
  <2>2. Reads(G, s, ReadPiece(s))
    BY <2>1, ReadPieceIs, Zenon
  <2>3. PieceStep(c, i, s) = s \/ PieceStep(c, i, s) = ReadPiece(s)
    BY Zenon DEF PieceStep
  <2>4. Sits(G, ReadPiece(s)) /\ Reads(G, s0, ReadPiece(s)) /\ Room(ReadPiece(s))
    BY <2>1, <2>2, ReadsTwice, HeldSits, Zenon DEF Reads
  <2> QED
    BY <1>2, <2>1, <2>3, <2>4, Zenon DEF PieceKeeps
<1>5. PieceKeeps(c, n, PieceLoop!Track(c, s0, n)[n])
  BY <1>3, <1>4, PieceLoop!LoopKeeps, AllNumbers, Zenon
<1>6. PieceLoop!Track(c, s0, n)[n] = While(LAMBDA s : s.go /\ s.left > 0, ReadPiece, s0, n)
  BY DEF PieceLoop!Track, While, PieceStep
<1> QED
  BY <1>2, <1>5, <1>6, Zenon DEF PieceKeeps

LEMMA ReadCalls ==
  ASSUME NEW G, GeoOK(G), NEW v, Good(G, v), NEW fp, FilOK(G, fp), NEW btr \in Nat
  PROVE  Calls(G, v, f_read(v, fp, btr))
<1>1. PICK n : n = IF btr < fp.objsize - fp.fptr THEN btr ELSE fp.objsize - fp.fptr
  OBVIOUS
<1>2. PICK s : s = Transfer(v, fp, n, <<>>)
  OBVIOUS
<1>3. PICK t : t = While(LAMBDA x : x.go /\ x.left > 0, ReadPiece, s, n)
  OBVIOUS
<1>4. \/ \E r : f_read(v, fp, btr) = Refused(v, fp, r)
      \/ fp.err = "OK" /\ f_read(v, fp, btr) = t
  BY <1>1, <1>2, <1>3 DEF f_read, Min2
<1>5. CASE fp.err = "OK" /\ f_read(v, fp, btr) = t
  <2>1. fp.objsize \in Nat /\ fp.fptr \in Nat /\ fp.fptr <= fp.objsize /\ FilPart(G, fp)
    BY <1>5, Zenon DEF FilOK, FilPart
  <2>2. n \in Nat /\ fp.fptr + n <= fp.objsize
    BY <1>1, <2>1
  <2>3. Sits(G, s) /\ Serves(G, v, s.vol, ChainFields) /\ s.fil = fp /\ s.left = n
    <3>1. Begins(G, v, fp, n, s)
      BY <1>2, <2>1, TransferIs, Zenon
    <3> QED
      BY <3>1, Zenon DEF Begins
  <2>4. Room(s)
    BY <2>2, <2>3, Zenon DEF Room
  <2>5. Reads(G, s, t) /\ Room(t)
    BY <1>3, <2>2, <2>3, <2>4, PiecesRead
  <2>6. t.fil.fptr <= t.fil.objsize
    <3>1. t.fil.fptr \in Nat /\ t.fil.objsize \in Nat
      BY <2>5, Zenon DEF Reads, Held, FilPart
    <3>2. t.left \in Nat /\ t.fil.fptr + t.left <= t.fil.objsize
      BY <2>5, Zenon DEF Room
    <3> QED
      BY <3>1, <3>2
  <2> QED
    BY <1>5, <2>3, <2>5, <2>6, HeldCalls, Zenon DEF Reads
<1> QED
  BY <1>4, <1>5, RefusedIs, Zenon

-----------------------------------------------------------------------------
(* Writing. *)

\* The pointer is in the file.
Fits(s) == s.left \in Nat /\ s.fil.fptr <= s.fil.objsize

Writes(G, s, t) == Held(G, s, t) /\ (Fits(s) => Fits(t))

LEMMA WritesTwice ==
  ASSUME NEW G, NEW s, NEW u, NEW t, Writes(G, s, u), Writes(G, u, t) PROVE Writes(G, s, t)
BY HeldTwice, Zenon DEF Writes

LEMMA WorksWrites ==
  ASSUME NEW G, NEW s, NEW t, Works(G, s, t) PROVE Writes(G, s, t) /\ Sits(G, t)
<1>1. t.fil.objsize = s.fil.objsize /\ t.fil.fptr = s.fil.fptr /\ t.left = s.left
  BY WorksPlace, Zenon
<1>2. Held(G, s, t) /\ Sits(G, t)
  BY WorksSits, Zenon DEF Works
<1> QED
  BY <1>1, <1>2, Zenon DEF Writes, Fits

LEMMA AdvancedIs ==
  ASSUME NEW G, NEW s, Sits(G, s), Fits(s), NEW n \in Nat, n <= s.left
  PROVE  Writes(G, s, Advanced(s, n))
<1>1. PICK a : a = s.fil.fptr
  OBVIOUS
<1>2. PICK b : b = s.fil.objsize
  OBVIOUS
<1>3. PICK z : z = IF b > a + n THEN b ELSE a + n
  OBVIOUS
<1>4. PICK l : l = s.left - n
  OBVIOUS
<1>5. PICK k : k = a + n
  OBVIOUS
<1>6. a \in Nat /\ b \in Nat /\ s.left \in Nat
  BY <1>1, <1>2, Zenon DEF Sits, FilPart, Fits
<1>7. z \in Nat /\ l \in Nat /\ k \in Nat /\ k <= z
  BY <1>3, <1>4, <1>5, <1>6
<1>8. PICK f : f = [s.fil EXCEPT !.fptr = k, !.objsize = z]
  OBVIOUS
<1>9. PICK t : t = [s EXCEPT !.left = l, !.fil = f]
  OBVIOUS
<1>10. IsSes(s) /\ IsFil(s.fil)
  BY Zenon DEF Sits, FilPart
<1>11. Advanced(s, n) = t
  <2>1. Advanced(s, n) = [s EXCEPT !.left = l, !.fil.fptr = k, !.fil.objsize = z]
    BY <1>1, <1>2, <1>3, <1>4, <1>5 DEF Advanced, Max2
  <2> QED
    BY <1>8, <1>9, <1>10, <2>1, Zenon DEF IsSes, SesNames, IsFil, FilNames
<1>12. IsSes(t) /\ t.vol = s.vol /\ t.left = l /\ t.fil = f
  BY <1>9, <1>10, Zenon DEF IsSes, SesNames
<1>13. Same(s.fil, f, {"fptr", "objsize"}) /\ f.fptr = k /\ f.objsize = z
  BY <1>8, <1>10, Zenon DEF Same, IsFil, FilNames
<1>14. /\ IsFil(f) /\ f.open = s.fil.open /\ f.sect = s.fil.sect
       /\ f.dir_sect = s.fil.dir_sect /\ f.dir_slot = s.fil.dir_slot
  BY <1>13, Zenon DEF Same, FilNames
<1>15. FilPart(G, f)
  BY <1>7, <1>13, <1>14, Zenon DEF FilPart, Sits
<1>16. Fits(t)
  BY <1>7, <1>12, <1>13, Zenon DEF Fits
<1> QED
  BY <1>11, <1>12, <1>15, <1>16, ServesStays, Zenon DEF Writes, Held, Sits

LEMMA FollowWriteIs ==
  ASSUME NEW G, GeoOK(G), NEW s, Sits(G, s) PROVE Works(G, s, FollowForWrite(s))
<1>1. PICK k : k = IF s.fil.fptr = 0 THEN 0 ELSE s.fil.clust
  OBVIOUS
<1>2. PICK g : g = IF s.fil.fptr = 0 /\ s.fil.sclust # 0 THEN Returns(s.vol, s.fil.sclust)
                   ELSE create_chain(s.vol, k)
  OBVIOUS
<1>3. PICK t : t = [s EXCEPT !.vol = g]
  OBVIOUS
<1>4. PICK no : no = FALSE
  OBVIOUS
<1>5. PICK o : o = Ok(g)
  OBVIOUS
<1>6. PICK e : e = [t EXCEPT !.go = no, !.vol = o]
  OBVIOUS
<1>7. PICK d : d = IF t.fil.sclust = 0 THEN g.val ELSE t.fil.sclust
  OBVIOUS
<1>8. PICK f : f = [t.fil EXCEPT !.clust = g.val, !.sclust = d]
  OBVIOUS
<1>9. PICK u : u = [t EXCEPT !.fil = f]
  OBVIOUS
<1>10. Serves(G, s.vol, g, ChainFields)
  <2>1. Good(G, s.vol)
    BY Zenon DEF Sits
  <2>2. Unhurt(G, s.vol, Returns(s.vol, s.fil.sclust), ReadFields)
    BY <2>1, ValUnhurt, Zenon
  <2>3. Serves(G, s.vol, Returns(s.vol, s.fil.sclust), ChainFields)
    BY <2>1, <2>2, ReadingServes, Zenon
  <2>4. Serves(G, s.vol, create_chain(s.vol, k), ChainFields)
    BY <2>1, CreateServes, Zenon
  <2> QED
    BY <1>2, <2>3, <2>4, Zenon
<1>11. Works(G, s, t) /\ Sits(G, t) /\ t.vol = g
  <2>1. Works(G, s, t) /\ t.vol = g
    BY <1>3, <1>10, VolWorks
  <2> QED
    BY <2>1, WorksSits, Zenon
<1>12. Works(G, t, u)
  BY <1>8, <1>9, <1>11, ClustWorks
<1>13. Works(G, t, e)
  <2>1. IsSes(t) /\ Same(t.fil, t.fil, Working) /\ FilPart(G, t.fil)
    BY <1>11, Zenon DEF Sits, FilPart, Same
  <2>2. IsSes(e) /\ e.vol = o /\ e.fil = t.fil /\ e.left = t.left
    BY <1>6, <2>1, Zenon DEF IsSes, SesNames
  <2>3. Serves(G, t.vol, o, ChainFields)
    BY <1>5, <1>11, ResServes, Zenon DEF Sits
  <2> QED
    BY <2>1, <2>2, <2>3, Zenon DEF Works, Held
<1>14. u = [t EXCEPT !.fil.clust = g.val, !.fil.sclust = IF @ = 0 THEN g.val ELSE @]
  <2>1. u = [t EXCEPT !.fil.clust = g.val, !.fil.sclust = d]
    BY <1>8, <1>9, <1>11, Zenon DEF Sits, FilPart, IsSes, SesNames, IsFil, FilNames
  <2> QED
    BY <1>7, <2>1
<1>15. FollowForWrite(s) \in {e, Abort(t, "INT_ERR"), Abort(t, "DISK_ERR"), u}
  <2>1. FollowForWrite(s) = CASE g.val = 0 -> [t EXCEPT !.go = no, !.vol = o]
                              [] g.val = 1 -> Abort(t, "INT_ERR")
                              [] g.val = DISK -> Abort(t, "DISK_ERR")
                              [] OTHER -> [t EXCEPT !.fil.clust = g.val,
                                                    !.fil.sclust = IF @ = 0 THEN g.val ELSE @]
    BY <1>1, <1>2, <1>3, <1>4, <1>5 DEF FollowForWrite, After
  <2>2. DISK # 0 /\ DISK # 1
    BY StatusApart, Zenon
  <2> QED
    BY <1>6, <1>14, <2>1, <2>2
<1>16. Works(G, t, Abort(t, "INT_ERR")) /\ Works(G, t, Abort(t, "DISK_ERR"))
  BY <1>11, AbortWorks, Zenon
<1> QED
  BY <1>11, <1>12, <1>13, <1>15, <1>16, WorksTwice, Zenon

(* The loop over sectors.                                                  *)
StoreStep(c, i, s)  == IF s.res = "OK" THEN disk_write(s, c.t + i - 1, DataSector(c.d)) ELSE s
StoreKeeps(c, i, s) == Serves(c.G, c.v, s, ChainFields)
StoreLoop == INSTANCE Loops WITH Step <- StoreStep, Keeps <- StoreKeeps

\* The loop of f_write: n sectors from t on get the bytes d.
StoreAll(n, t, d, v) == For(n, LAMBDA i, w : disk_write(w, t + i - 1, DataSector(d)), v)

LEMMA StoreAllIs ==
  ASSUME NEW G, GeoOK(G), NEW v, Good(G, v), NEW t, Beyond(G, t), NEW d, NEW n \in Nat
  PROVE  Serves(G, v, StoreAll(n, t, d, v), ChainFields)
<1>1. PICK c : c = [G |-> G, v |-> v, t |-> t, d |-> d]
  OBVIOUS
<1>2. c.G = G /\ c.v = v /\ c.t = t /\ c.d = d
  BY <1>1
<1>3. StoreKeeps(c, 0, v)
  BY <1>2, ServesStays, Zenon DEF StoreKeeps
<1>4. ASSUME NEW i \in 1 .. n, NEW s, StoreKeeps(c, i - 1, s) PROVE StoreKeeps(c, i, StoreStep(c, i, s))
  <2>1. Serves(G, v, s, ChainFields)
    BY <1>2, <1>4, Zenon DEF StoreKeeps
  <2>2. Good(G, s)
    BY <2>1, Zenon DEF Serves
  <2>3. PICK k : k = c.t + i - 1
    OBVIOUS
  <2>4. k \notin Fats(G)
    <3>1. PICK j : j = i - 1
      OBVIOUS
    <3>2. j \in Nat
      BY <3>1
    <3>3. Beyond(G, t + j) /\ t \in Nat
      BY <3>2, BeyondMore
    <3>4. k = t + j
      BY <1>2, <2>3, <3>1, <3>3
    <3> QED
      BY <3>3, <3>4, FatsIn, Zenon
  <2>5. Serves(G, s, disk_write(s, k, DataSector(d)), ChainFields)
    BY <2>2, <2>4, WriteServes, Zenon
  <2>6. StoreStep(c, i, s) = s \/ StoreStep(c, i, s) = disk_write(s, k, DataSector(d))
    BY <1>2, <2>3, Zenon DEF StoreStep
  <2> QED
    BY <1>2, <2>1, <2>5, <2>6, ServesTwice, Zenon DEF StoreKeeps
<1>5. StoreKeeps(c, n, StoreLoop!Track(c, v, n)[n])
  BY <1>3, <1>4, StoreLoop!LoopKeeps, AllNumbers, Zenon
<1>6. StoreLoop!Track(c, v, n)[n] = StoreAll(n, t, d, v)
  BY <1>2 DEF StoreLoop!Track, StoreAll, For, StoreStep
<1> QED
  BY <1>2, <1>5, <1>6, Zenon DEF StoreKeeps

LEMMA BufferingPart ==
  ASSUME NEW G, NEW f, FilPart(G, f), NEW g, Same(f, g, Buffering)
  PROVE  FilPart(G, g) /\ Same(f, g, Working)
<1>1. Same(f, g, {"err", "flag", "sclust", "clust", "buf"})
  BY BufferingIs, SameMore, Zenon
<1>2. Same(f, g, Working)
  BY WorkingIs, SameMore, Zenon
<1> QED
  BY <1>1, <1>2, FilMay, Zenon

LEMMA BufferPart ==
  ASSUME NEW G, NEW f, FilPart(G, f), NEW b, NEW x
  PROVE  /\ Same(f, Raise([f EXCEPT !.buf = b], x), Working) /\ FilPart(G, Raise([f EXCEPT !.buf = b], x))
         /\ Same(f, Lower([f EXCEPT !.buf = b], x), Working) /\ FilPart(G, Lower([f EXCEPT !.buf = b], x))
<1>1. PICK g : g = [f EXCEPT !.buf = b]
  OBVIOUS
<1>2. Same(f, g, {"buf"}) /\ IsFil(g)
  BY <1>1, Zenon DEF FilPart, Same, IsFil, FilNames
<1>3. Same(g, Raise(g, x), {"flag"}) /\ Same(g, Lower(g, x), {"flag"})
  BY <1>2, FlagSet, Zenon
<1>4. {"buf"} \subseteq Buffering /\ {"flag"} \subseteq Buffering
  BY BufferingIs, Zenon
<1>5. Same(f, Raise(g, x), Buffering) /\ Same(f, Lower(g, x), Buffering)
  <2>1. Same(f, g, Buffering)
    BY <1>2, BufferingIs, SameMore, Zenon
  <2>2. Same(g, Raise(g, x), Buffering)
    BY <1>3, BufferingIs, SameMore, Zenon
  <2>3. Same(g, Lower(g, x), Buffering)
    BY <1>3, BufferingIs, SameMore, Zenon
  <2> QED
    BY <2>1, <2>2, <2>3, SameTwice, Zenon
<1>6. FilPart(G, Raise(g, x)) /\ FilPart(G, Lower(g, x))
  BY <1>5, BufferingPart, Zenon
<1>7. Same(f, Raise(g, x), Working) /\ Same(f, Lower(g, x), Working)
  BY <1>5, BufferingPart, Zenon
<1> QED
  BY <1>1, <1>6, <1>7, Zenon

LEMMA WriteSectorsIs ==
  ASSUME NEW G, GeoOK(G), NEW s, Sits(G, s), Fits(s), NEW cc \in Nat, SS * cc \in Nat, SS * cc <= s.left,
         IsCluster(s.vol, s.fil.clust)
  PROVE  Writes(G, s, WriteSectors(s, cc))
<1> DEFINE sect == CurrentSector(s)
           full == [i \in 0 .. SS - 1 |-> s.data]
           fp == IF InRange(s.fil, sect, cc) THEN Lower([s.fil EXCEPT !.buf = full], "DIRTY") ELSE s.fil
           o == Ok(s.vol)
           r == StoreAll(cc, sect, full, o)
           a == [s EXCEPT !.vol = r]
           b == [s EXCEPT !.vol = r, !.fil = fp]
<1>1. sect = CurrentSector(s)
  OBVIOUS
<1>3. fp = IF InRange(s.fil, sect, cc) THEN Lower([s.fil EXCEPT !.buf = full], "DIRTY") ELSE s.fil
  OBVIOUS
<1>4. o = Ok(s.vol)
  OBVIOUS
<1>5. r = StoreAll(cc, sect, full, o)
  OBVIOUS
<1>6. a = [s EXCEPT !.vol = r]
  OBVIOUS
<1>7. b = [s EXCEPT !.vol = r, !.fil = fp]
  OBVIOUS
<1>8. WriteSectors(s, cc) = IF r.res # "OK" THEN Abort(a, "DISK_ERR") ELSE Advanced(b, SS * cc)
  BY DEF WriteSectors, After, StoreAll
<1> HIDE DEF sect, full, fp, o, r, a, b
<1>9. Beyond(G, sect)
  BY <1>1, PlaceIs
<1>10. Serves(G, s.vol, r, ChainFields)
  <2>1. Serves(G, s.vol, o, ChainFields)
    BY <1>4, ResServes, Zenon DEF Sits
  <2>2. Good(G, o)
    BY <2>1, Zenon DEF Serves
  <2>3. Serves(G, o, r, ChainFields)
    BY <1>5, <1>9, <2>2, StoreAllIs, Zenon
  <2> QED
    BY <2>1, <2>3, ServesTwice, Zenon
<1>11. Works(G, s, a) /\ a.vol = r /\ a.fil = s.fil /\ a.left = s.left
  BY <1>6, <1>10, VolWorks
<1>12. Sits(G, a)
  BY <1>11, WorksSits, Zenon
<1>13. Same(a.fil, fp, Working) /\ FilPart(G, fp)
  <2>1. Same(s.fil, s.fil, Working) /\ FilPart(G, s.fil)
    BY Zenon DEF Same, Sits, FilPart
  <2>2. Same(s.fil, fp, Working) /\ FilPart(G, fp)
    BY <1>3, <2>1, BufferPart, Zenon
  <2> QED
    BY <1>11, <2>2, Zenon
<1>14. b = [a EXCEPT !.fil = fp]
  BY <1>6, <1>7, Zenon DEF Sits, IsSes, SesNames
<1>15. Works(G, a, b)
  BY <1>12, <1>13, <1>14, FilWorks
<1>16. Works(G, s, b)
  BY <1>11, <1>15, WorksTwice, Zenon
<1>17. Writes(G, s, b) /\ Sits(G, b) /\ Fits(b)
  BY <1>16, WorksWrites, Zenon DEF Writes
<1>18. b.left = s.left
  BY <1>16, WorksPlace, Zenon
<1>19. PICK n : n = SS * cc
  OBVIOUS
<1>20. n \in Nat /\ n <= b.left
  BY <1>18, <1>19, Zenon
<1>21. Writes(G, b, Advanced(b, n))
  BY <1>17, <1>20, AdvancedIs, Zenon
<1>22. Writes(G, s, Abort(a, "DISK_ERR"))
  BY <1>11, <1>12, AbortWorks, WorksTwice, WorksWrites, Zenon
<1> QED
  BY <1>8, <1>17, <1>19, <1>21, <1>22, WritesTwice, Zenon

LEMMA WriteBufferIs ==
  ASSUME NEW G, NEW s, Sits(G, s), Fits(s) PROVE Writes(G, s, WriteBuffer(s))
<1>1. PICK at : at = s.fil.fptr % SS
  OBVIOUS
<1>2. PICK n : n = IF SS - at < s.left THEN SS - at ELSE s.left
  OBVIOUS
<1>3. at \in 0 .. SS - 1 /\ SS \in Nat \ {0} /\ s.left \in Nat
  BY <1>1, SectorAssumption, DivMod DEF Sits, FilPart, Fits
<1>4. n \in Nat /\ n <= s.left
  BY <1>2, <1>3
<1>5. PICK b : b = [i \in 0 .. SS - 1 |-> IF i \in at .. at + n - 1 THEN s.data ELSE s.fil.buf[i]]
  OBVIOUS
<1>6. PICK f : f = Raise([s.fil EXCEPT !.buf = b], "DIRTY")
  OBVIOUS
<1>7. PICK t : t = [s EXCEPT !.fil = f]
  OBVIOUS
<1>8. WriteBuffer(s) = Advanced(t, n)
  BY <1>1, <1>2, <1>5, <1>6, <1>7 DEF WriteBuffer, Min2
<1>9. Same(s.fil, f, Working) /\ FilPart(G, f)
  <2>1. FilPart(G, s.fil)
    BY Zenon DEF Sits
  <2> QED
    BY <1>6, <2>1, BufferPart, Zenon
<1>10. Works(G, s, t)
  BY <1>7, <1>9, FilWorks
<1>11. Writes(G, s, t) /\ Sits(G, t) /\ Fits(t) /\ t.left = s.left
  BY <1>10, WorksWrites, WorksPlace, Zenon DEF Writes
<1>12. Writes(G, t, Advanced(t, n))
  BY <1>4, <1>11, AdvancedIs, Zenon
<1> QED
  BY <1>8, <1>11, <1>12, WritesTwice, Zenon

LEMMA LoadWriteIs ==
  ASSUME NEW G, GeoOK(G), NEW s, Sits(G, s), IsCluster(s.vol, s.fil.clust)
  PROVE  Works(G, s, LoadForWrite(s))
<1>1. PICK sect : sect = CurrentSector(s)
  OBVIOUS
<1>2. Beyond(G, sect)
  BY <1>1, PlaceIs
<1>3. PICK r : r = IF s.fil.sect # sect /\ s.fil.fptr < s.fil.objsize THEN Fill(s, sect) ELSE s
  OBVIOUS
<1>4. PICK t : t = [r EXCEPT !.fil.sect = sect]
  OBVIOUS
<1>5. LoadForWrite(s) = r \/ LoadForWrite(s) = t
  BY <1>1, <1>3, <1>4 DEF LoadForWrite, IfGo
<1>6. Works(G, s, Fill(s, sect)) /\ Works(G, s, s)
  BY FillIs, BuffersWorks, WorksStays, Zenon
<1>7. Works(G, s, r) /\ Sits(G, r)
  BY <1>3, <1>6, WorksSits, Zenon
<1>8. Works(G, r, t)
  BY <1>2, <1>4, <1>7, SectWorks
<1> QED
  BY <1>5, <1>7, <1>8, WorksTwice, Zenon

LEMMA WritePieceIs ==
  ASSUME NEW G, GeoOK(G), NEW s, Sits(G, s), Fits(s) PROVE Writes(G, s, WritePiece(s))
<1>1. PICK f : f = IF SectorInCluster(s) = 0 THEN FollowForWrite(s) ELSE s
  OBVIOUS
<1>2. PICK b : b = WriteBack(f)
  OBVIOUS
<1>3. PICK cc : cc = WholeSectors(s)
  OBVIOUS
<1>4. PICK l : l = LoadForWrite(b)
  OBVIOUS
<1>5. \/ WritePiece(s) = WriteBuffer(s)
      \/ WritePiece(s) = f
      \/ WritePiece(s) = b
      \/ WritePiece(s) = Abort(b, "INT_ERR")
      \/ IsCluster(b.vol, b.fil.clust) /\ WritePiece(s) \in {WriteSectors(b, cc), l, WriteBuffer(l)}
  BY <1>1, <1>2, <1>3, <1>4 DEF WritePiece, IfGo
<1>6. Works(G, s, f) /\ Sits(G, f)
  BY <1>1, FollowWriteIs, WorksStays, WorksSits, Zenon
<1>7. Works(G, s, b)
  BY <1>2, <1>6, WriteBackIs, BuffersWorks, WorksTwice, Zenon
<1>8. Writes(G, s, f) /\ Writes(G, s, b) /\ Sits(G, b) /\ Fits(b) /\ b.left = s.left
  BY <1>6, <1>7, WorksWrites, WorksPlace, ZenonT(40) DEF Writes
<1>9. Writes(G, b, Abort(b, "INT_ERR"))
  BY <1>8, AbortWorks, WorksWrites, Zenon
<1>10. cc \in Nat /\ SS * cc \in Nat /\ SS * cc <= b.left
  BY <1>3, <1>8, WholeIs, Zenon DEF Fits
<1>11. IsCluster(b.vol, b.fil.clust) => Writes(G, b, WriteSectors(b, cc))
  BY <1>8, <1>10, WriteSectorsIs, Zenon
<1>12. IsCluster(b.vol, b.fil.clust) => Writes(G, b, l) /\ Writes(G, l, WriteBuffer(l))
  BY <1>4, <1>8, LoadWriteIs, WorksWrites, WriteBufferIs, Zenon DEF Writes
<1>13. Writes(G, s, WriteBuffer(s))
  BY WriteBufferIs
<1>14. CASE IsCluster(b.vol, b.fil.clust) /\ WritePiece(s) \in {WriteSectors(b, cc), l, WriteBuffer(l)}
  BY <1>8, <1>11, <1>12, <1>14, WritesTwice, Zenon
<1> QED
  BY <1>5, <1>8, <1>9, <1>13, <1>14, WritesTwice, Zenon

PutStep(c, i, s)  == IF s.go /\ s.left > 0 THEN WritePiece(s) ELSE s
PutKeeps(c, i, s) == Sits(c.G, s) /\ Writes(c.G, c.s, s) /\ Fits(s)
PutLoop == INSTANCE Loops WITH Step <- PutStep, Keeps <- PutKeeps

LEMMA PiecesWritten ==
  ASSUME NEW G, GeoOK(G), NEW s0, Sits(G, s0), Fits(s0), NEW n \in Nat
  PROVE  LET t == While(LAMBDA s : s.go /\ s.left > 0, WritePiece, s0, n) IN
         Writes(G, s0, t) /\ Fits(t)
<1>1. PICK c : c = [G |-> G, s |-> s0]
  OBVIOUS
<1>2. c.G = G /\ c.s = s0
  BY <1>1
<1>3. PutKeeps(c, 0, s0)
  BY <1>2, SitsHeld, Zenon DEF PutKeeps, Writes
<1>4. ASSUME NEW i \in 1 .. n, NEW s, PutKeeps(c, i - 1, s) PROVE PutKeeps(c, i, PutStep(c, i, s))
  <2>1. Sits(G, s) /\ Writes(G, s0, s) /\ Fits(s)
    BY <1>2, <1>4, Zenon DEF PutKeeps
  <2>2. Writes(G, s, WritePiece(s))
    BY <2>1, WritePieceIs, Zenon
  <2>3. PutStep(c, i, s) = s \/ PutStep(c, i, s) = WritePiece(s)
    BY Zenon DEF PutStep
  <2>4. Sits(G, WritePiece(s)) /\ Writes(G, s0, WritePiece(s)) /\ Fits(WritePiece(s))
    BY <2>1, <2>2, WritesTwice, HeldSits, Zenon DEF Writes
  <2> QED
    BY <1>2, <2>1, <2>3, <2>4, Zenon DEF PutKeeps
<1>5. PutKeeps(c, n, PutLoop!Track(c, s0, n)[n])
  BY <1>3, <1>4, PutLoop!LoopKeeps, AllNumbers, Zenon
<1>6. PutLoop!Track(c, s0, n)[n] = While(LAMBDA s : s.go /\ s.left > 0, WritePiece, s0, n)
  BY DEF PutLoop!Track, While, PutStep
<1> QED
  BY <1>2, <1>5, <1>6, Zenon DEF PutKeeps

LEMMA WriteCalls ==
  ASSUME NEW G, GeoOK(G), NEW v, Good(G, v), NEW fp, FilOK(G, fp), NEW btw \in Nat, NEW byte
  PROVE  Calls(G, v, f_write(v, fp, btw, byte))
<1>1. PICK s : s = Transfer(v, fp, btw, byte)
  OBVIOUS
<1>2. PICK t : t = While(LAMBDA x : x.go /\ x.left > 0, WritePiece, s, btw)
  OBVIOUS
<1>3. PICK f : f = Raise(t.fil, "MODIFIED")
  OBVIOUS
<1>4. PICK u : u = [t EXCEPT !.fil = f]
  OBVIOUS
<1>5. \/ \E r : f_write(v, fp, btw, byte) = Refused(v, fp, r)
      \/ fp.err = "OK" /\ f_write(v, fp, btw, byte) \in {t, u}
  <2>1. u = [t EXCEPT !.fil = Raise(@, "MODIFIED")]
    BY <1>3, <1>4
  <2> QED
    BY <1>1, <1>2, <2>1 DEF f_write, After
<1>6. CASE fp.err = "OK" /\ f_write(v, fp, btw, byte) \in {t, u}
  <2>1. fp.fptr <= fp.objsize /\ FilPart(G, fp)
    BY <1>6, Zenon DEF FilOK
  <2>2. Begins(G, v, fp, btw, s)
    BY <1>1, <2>1, TransferIs, Zenon
  <2>3. Sits(G, s) /\ Serves(G, v, s.vol, ChainFields) /\ Fits(s)
    BY <2>1, <2>2, Zenon DEF Begins, Fits
  <2>4. Writes(G, s, t) /\ Fits(t) /\ Sits(G, t)
    <3>1. Writes(G, s, t) /\ Fits(t)
      BY <1>2, <2>3, PiecesWritten
    <3> QED
      BY <3>1, HeldSits, Zenon DEF Writes
  <2>5. Works(G, t, u)
    <3>1. IsFil(t.fil) /\ FilPart(G, t.fil)
      BY <2>4, Zenon DEF Sits, FilPart
    <3>2. Same(t.fil, f, {"flag"})
      BY <1>3, <3>1, FlagSet
    <3>3. Same(t.fil, f, Buffering)
      BY <3>2, BufferingIs, SameMore, Zenon
    <3>4. FilPart(G, f) /\ Same(t.fil, f, Working)
      BY <3>1, <3>3, BufferingPart, Zenon
    <3> QED
      BY <1>4, <2>4, <3>4, FilWorks
  <2>6. Writes(G, t, u) /\ Fits(u)
    BY <2>4, <2>5, WorksWrites, Zenon DEF Writes
  <2>7. Held(G, s, t) /\ Held(G, s, u)
    BY <2>4, <2>6, HeldTwice, Zenon DEF Writes
  <2> QED
    BY <1>6, <2>3, <2>4, <2>6, <2>7, HeldCalls, Zenon DEF Fits
<1> QED
  BY <1>5, <1>6, RefusedIs, Zenon

-----------------------------------------------------------------------------
(* Synchronising, closing and truncating. *)

(* A call that leaves the size and the pointer of fp as they were.         *)
LEMMA BuffersKept ==
  ASSUME NEW G, NEW fp, FilOK(G, fp), NEW s, s.fil = fp, NEW t, Buffers(G, s, t)
  PROVE  t.fil.err = "OK" => t.fil.fptr <= t.fil.objsize
<1>1. t.fil.objsize = fp.objsize /\ t.fil.fptr = fp.fptr
  BY BufferFields, ZenonT(40)
<1>2. t.fil.err = "OK" => fp.err = "OK"
  BY Zenon DEF Buffers
<1> QED
  BY <1>1, <1>2, Zenon DEF FilOK

LEMMA SyncCalls ==
  ASSUME NEW G, GeoOK(G), NEW v, Good(G, v), NEW fp, FilOK(G, fp)
  PROVE  Calls(G, v, f_sync(v, fp)) /\ IsSes(f_sync(v, fp))
<1>1. PICK s : s = Transfer(v, fp, 0, <<>>)
  OBVIOUS
<1>2. FilPart(G, fp)
  BY Zenon DEF FilOK
<1>3. Sits(G, s) /\ Serves(G, v, s.vol, ChainFields) /\ s.fil = fp
  <2>1. Begins(G, v, fp, 0, s)
    BY <1>1, <1>2, TransferIs, Zenon
  <2> QED
    BY <2>1, Zenon DEF Begins
<1>4. PICK b : b = WriteBack(s)
  OBVIOUS
<1>5. Buffers(G, s, b) /\ Sits(G, b) /\ Held(G, s, b)
  BY <1>3, <1>4, WriteBackIs, BuffersSits, Zenon DEF Buffers
<1>6. PICK f : f = [b.fil EXCEPT !.err = fp.err]
  OBVIOUS
<1>7. PICK x : x = [b EXCEPT !.fil = f]
  OBVIOUS
<1>8. PICK m : m = move_window(b.vol, fp.dir_sect)
  OBVIOUS
<1>9. PICK e : e = [EntryIn(m.win, fp.dir_slot) EXCEPT !.clust = fp.sclust, !.size = fp.objsize]
  OBVIOUS
<1>10. PICK n : n = Enter(m.win, fp.dir_slot, e)
  OBVIOUS
<1>11. PICK u : u = [m EXCEPT !.win = n, !.wflag = TRUE]
  OBVIOUS
<1>12. PICK w : w = sync_fs(u)
  OBVIOUS
<1>13. PICK y : y = [b EXCEPT !.vol = m]
  OBVIOUS
<1>14. PICK g : g = Lower(b.fil, "MODIFIED")
  OBVIOUS
<1>15. PICK z : z = [b EXCEPT !.vol = w, !.fil = g]
  OBVIOUS
<1>16. IsSes(b) /\ IsFil(b.fil) /\ FilPart(G, b.fil) /\ Good(G, b.vol)
  BY <1>5, Zenon DEF Sits, FilPart
<1>17. \/ f_sync(v, fp) = s
       \/ f_sync(v, fp) = x
       \/ f_sync(v, fp) = y
       \/ m.res = "OK" /\ f_sync(v, fp) = z
  <2>1. x = [b EXCEPT !.fil.err = fp.err]
    BY <1>6, <1>7, <1>16, Zenon DEF IsSes, SesNames
  <2>2. u = [m EXCEPT !.win = Enter(@, fp.dir_slot, e), !.wflag = TRUE]
    BY <1>10, <1>11
  <2>3. z = [b EXCEPT !.vol = w, !.fil = Lower(@, "MODIFIED")]
    BY <1>14, <1>15
  <2> QED
    BY <1>1, <1>4, <1>8, <1>9, <1>12, <1>13, <2>1, <2>2, <2>3 DEF f_sync, After
<1>18. Calls(G, v, s) /\ IsSes(s)
  BY <1>3, Zenon DEF Calls, Sits
<1>19. Calls(G, v, x) /\ IsSes(x)
  <2>1. Same(b.fil, f, {"err"}) /\ f.err = fp.err
    BY <1>6, <1>16, ErrSet
  <2>2. FilPart(G, f) /\ Same(b.fil, f, Buffering)
    BY <1>16, <2>1, BufferingIs, SameMore, BufferingPart, Zenon
  <2>3. Held(G, b, x) /\ x.fil = f
    BY <1>5, <1>7, <2>2, FilSet
  <2>4. f.fptr = b.fil.fptr /\ f.objsize = b.fil.objsize
    BY <2>2, Zenon DEF Same, FilNames, Buffering
  <2>5. b.fil.objsize = fp.objsize /\ b.fil.fptr = fp.fptr
    BY <1>3, <1>5, BufferFields, ZenonT(40)
  <2>6. x.fil.err = "OK" => x.fil.fptr <= x.fil.objsize
    BY <2>1, <2>3, <2>4, <2>5, Zenon DEF FilOK
  <2>7. Held(G, s, x)
    BY <1>5, <2>3, HeldTwice, Zenon
  <2> QED
    BY <1>3, <2>6, <2>7, HeldCalls, Zenon DEF Held
<1>20. /\ Unhurt(G, b.vol, m, WinFields) /\ Good(G, m)
       /\ m.res = "OK" => m.winsect = fp.dir_sect
  <2>1. Unhurt(G, b.vol, m, WinFields) /\ (m.res = "OK" => m.winsect = fp.dir_sect)
    BY <1>8, <1>16, MoveUnhurt, Zenon
  <2> QED
    BY <2>1, Zenon DEF Unhurt
<1>21. b.fil.err = "OK" => b.fil.fptr <= b.fil.objsize
  BY <1>3, <1>5, BuffersKept, Zenon
<1>22. Serves(G, b.vol, m, ChainFields)
  BY <1>16, <1>20, FuelServes, Zenon
<1>23. Calls(G, v, y) /\ IsSes(y)
  <2>1. Held(G, b, y) /\ y.fil = b.fil
    BY <1>5, <1>13, <1>22, VolSet
  <2>2. Held(G, s, y)
    BY <1>5, <2>1, HeldTwice, Zenon
  <2> QED
    BY <1>3, <1>21, <2>1, <2>2, HeldCalls, Zenon DEF Held
<1>24. CASE m.res = "OK" /\ f_sync(v, fp) = z
  <2>1. IsTable(m.win)
    BY <1>20, WindowTable, Zenon
  <2>2. fp.dir_slot \in Slots /\ fp.objsize \in Nat /\ Beyond(G, m.winsect)
    BY <1>2, <1>20, <1>24, Zenon DEF FilPart
  <2>3. IsEntry(e)
    <3>1. PICK d : d = EntryIn(m.win, fp.dir_slot)
      OBVIOUS
    <3>2. IsEntry(d)
      BY <2>1, <2>2, <3>1, EntryInIs, Zenon
    <3> QED
      BY <1>9, <2>2, <3>1, <3>2 DEF IsEntry
  <2>4. IsTable(n)
    BY <1>10, <2>1, <2>2, <2>3, EnterTable, Zenon
  <2>5. WindowGets(m, u, n)
    <3>1. IsVol(m)
      BY <1>20, GoodIsVol, Zenon
    <3> QED
      BY <1>11, <3>1, Zenon DEF WindowGets, IsVol, Differ, VolFields
  <2>6. Unhurt(G, m, u, WinFields)
    BY <1>20, <2>2, <2>4, <2>5, WindowSet
  <2>7. Serves(G, m, u, ChainFields) /\ Good(G, u)
    BY <1>20, <2>6, FuelServes, Zenon DEF Serves
  <2>8. Serves(G, u, w, ChainFields)
    BY <1>12, <2>7, SyncFsUnhurt, ReadingServes, Zenon
  <2>9. Serves(G, b.vol, w, ChainFields)
    BY <1>22, <2>7, <2>8, ServesTwice, Zenon
  <2>10. Same(b.fil, g, {"flag"})
    BY <1>14, <1>16, FlagSet
  <2>11. FilPart(G, g) /\ Same(b.fil, g, Buffering)
    BY <1>16, <2>10, BufferingIs, SameMore, BufferingPart, Zenon
  <2>12. g.fptr = b.fil.fptr /\ g.objsize = b.fil.objsize /\ g.err = b.fil.err
    BY <2>10, Zenon DEF Same, FilNames
  <2>13. Held(G, b, z) /\ z.fil = g
    BY <1>15, <1>16, <2>9, <2>11, Zenon DEF Held, IsSes, SesNames
  <2>14. Held(G, s, z)
    BY <1>5, <2>13, HeldTwice, Zenon
  <2>15. z.fil.err = "OK" => z.fil.fptr <= z.fil.objsize
    BY <1>21, <2>12, <2>13, Zenon
  <2> QED
    BY <1>3, <1>24, <2>14, <2>15, HeldCalls, Zenon DEF Held
<1> QED
  BY <1>17, <1>18, <1>19, <1>23, <1>24, Zenon

LEMMA CloseCalls ==
  ASSUME NEW G, GeoOK(G), NEW v, Good(G, v), NEW fp, FilOK(G, fp)
  PROVE  Calls(G, v, f_close(v, fp))
<1>1. PICK s : s = f_sync(v, fp)
  OBVIOUS
<1>2. Calls(G, v, s) /\ IsSes(s)
  BY <1>1, SyncCalls, Zenon
<1>3. PICK k : k = Closed
  OBVIOUS
<1>4. PICK t : t = [s EXCEPT !.fil = k]
  OBVIOUS
<1>5. f_close(v, fp) = s \/ f_close(v, fp) = t
  BY <1>1, <1>3, <1>4, Zenon DEF f_close, After
<1>6. t.vol = s.vol /\ t.fil = k
  BY <1>2, <1>4, Zenon DEF IsSes, SesNames
<1> QED
  BY <1>2, <1>3, <1>5, <1>6, Zenon DEF Calls

LEMMA ChainServes ==
  ASSUME NEW G, GeoOK(G), NEW v, Good(G, v), NEW clst
  PROVE  Serves(G, v, remove_chain(v, clst, 0), ChainFields)
<1>1. PICK n : n = 0
  OBVIOUS
<1>2. n \notin Clusters(G)
  BY <1>1 DEF Clusters
<1> QED
  BY <1>1, <1>2, RemoveServes, Zenon

(* The clusters behind one are freed.                                      *)
LEMMA CutServes ==
  ASSUME NEW G, GeoOK(G), NEW v, Good(G, v), NEW c, NEW g, g = get_fat(v, c)
  PROVE  Serves(G, v, g, ChainFields) /\ (g.val # DISK => Serves(G, v, remove_chain(g, g.val, c), ChainFields))
<1>1. /\ Unhurt(G, v, g, ReadFields)
      /\ c \in Clusters(G) => g.val = FatEntry(v, c) \/ g.val = DISK
  BY GetIs
<1>2. Serves(G, v, g, ChainFields) /\ Good(G, g) /\ HasGeo(G, v) /\ HasGeo(G, g) /\ FatSame(G, v, g)
  BY <1>1, ReadingServes, GoodIsVol, Zenon DEF Unhurt
<1>3. SUFFICES ASSUME g.val # DISK PROVE Serves(G, g, remove_chain(g, g.val, c), ChainFields)
  BY <1>2, ServesTwice, Zenon
<1>4. CASE g.val = 0
  <2>1. ~IsCluster(g, g.val)
    BY <1>4 DEF IsCluster
  <2>2. remove_chain(g, g.val, c) = Failed(g, "INT_ERR")
    BY <2>1, Zenon DEF remove_chain
  <2> QED
    BY <1>2, <2>2, ResServes, Zenon
<1>5. CASE g.val # 0
  <2>1. c \in Clusters(G) => FatEntry(g, c) # 0
    BY <1>1, <1>2, <1>3, <1>5, EntrySame, Zenon
  <2> QED
    BY <1>2, <2>1, RemoveServes, Zenon
<1> QED
  BY <1>4, <1>5, Zenon

LEMMA TruncateCalls ==
  ASSUME NEW G, GeoOK(G), NEW v, Good(G, v), NEW fp, FilOK(G, fp)
  PROVE  Calls(G, v, f_truncate(v, fp))
<1>1. FilPart(G, fp)
  BY Zenon DEF FilOK
<1>2. PICK g : g = get_fat(v, fp.clust)
  OBVIOUS
<1>3. PICK d : d = IF fp.fptr = 0 THEN 0 ELSE fp.sclust
  OBVIOUS
<1>4. PICK h : h = [fp EXCEPT !.sclust = d, !.objsize = fp.fptr]
  OBVIOUS
<1>5. PICK f : f = Raise(h, "MODIFIED")
  OBVIOUS
<1> DEFINE cut == CASE g.val = DISK -> Failed(g, "DISK_ERR")
                    [] g.val = 1    -> Failed(g, "INT_ERR")
                    [] OTHER -> IF g.val < v.n_fatent THEN remove_chain(g, g.val, fp.clust) ELSE Ok(g)
<1>6. PICK c : c = IF fp.fptr = 0 THEN remove_chain(v, fp.sclust, 0) ELSE cut
  OBVIOUS
<1>7. PICK s : s = Transfer(v, f, 0, <<>>)
  OBVIOUS
<1>8. PICK t : t = [s EXCEPT !.vol = c]
  OBVIOUS
<1>9. PICK y : y = Transfer(v, fp, 0, <<>>)
  OBVIOUS
<1>10. \/ \E r : f_truncate(v, fp) = Refused(v, fp, r)
       \/ f_truncate(v, fp) = y
       \/ f_truncate(v, fp) \in {Abort(t, c.res), WriteBack(t)}
  <2>1. f = Raise([fp EXCEPT !.sclust = IF fp.fptr = 0 THEN 0 ELSE @, !.objsize = fp.fptr], "MODIFIED")
    BY <1>3, <1>4, <1>5
  <2> QED
    BY <1>2, <2>1, <1>6, <1>7, <1>8, <1>9 DEF f_truncate, After
<1>11. Serves(G, v, c, ChainFields)
  <2>1. Serves(G, v, g, ChainFields) /\ (g.val # DISK => Serves(G, v, remove_chain(g, g.val, fp.clust), ChainFields))
    BY <1>2, CutServes, Zenon
  <2>2. Good(G, g)
    BY <2>1, Zenon DEF Serves
  <2>3. \A r : Serves(G, v, Failed(g, r), ChainFields) /\ Serves(G, v, Ok(g), ChainFields)
    BY <2>1, <2>2, ResServes, ServesTwice, Zenon
  <2>4. DISK # 1
    BY StatusApart, Zenon
  <2>5. \/ cut = Failed(g, "DISK_ERR") \/ cut = Failed(g, "INT_ERR") \/ cut = Ok(g)
        \/ g.val # DISK /\ cut = remove_chain(g, g.val, fp.clust)
    BY <2>4
  <2> HIDE DEF cut
  <2>6. Serves(G, v, cut, ChainFields)
    BY <2>1, <2>3, <2>5, Zenon
  <2> QED
    BY <1>6, <2>6, ChainServes, Zenon
<1> HIDE DEF cut
<1>12. FilPart(G, f) /\ f.fptr <= f.objsize
  <2>1. Same(fp, h, {"sclust", "objsize"}) /\ h.objsize = fp.fptr
    BY <1>1, <1>4, Zenon DEF FilPart, Same, IsFil, FilNames
  <2>2. Same(h, f, {"flag"})
    BY <1>5, <2>1, FlagSet, Zenon DEF Same
  <2>3. /\ IsFil(f) /\ f.open = fp.open /\ f.sect = fp.sect /\ f.dir_sect = fp.dir_sect
        /\ f.dir_slot = fp.dir_slot /\ f.fptr = fp.fptr /\ f.objsize = fp.fptr
    BY <2>1, <2>2, Zenon DEF Same, FilNames
  <2>4. FilPart(G, f)
    BY <1>1, <2>3, Zenon DEF FilPart
  <2>5. PICK n : n = f.fptr
    OBVIOUS
  <2>6. n \in Nat /\ f.objsize = n
    BY <1>1, <2>3, <2>5, Zenon DEF FilPart
  <2> QED
    BY <2>4, <2>5, <2>6
<1>13. Sits(G, s) /\ s.fil = f
  <2>1. Begins(G, v, f, 0, s)
    BY <1>7, <1>12, TransferIs, Zenon
  <2> QED
    BY <2>1, Zenon DEF Begins
<1>14. IsSes(t) /\ t.vol = c /\ t.fil = f
  BY <1>8, <1>13, Zenon DEF Sits, IsSes, SesNames
<1>15. Sits(G, t) /\ Serves(G, v, t.vol, ChainFields) /\ FilOK(G, f)
  BY <1>11, <1>12, <1>14, Zenon DEF Sits, Serves, FilOK
<1>16. Calls(G, v, WriteBack(t))
  <2>1. Buffers(G, t, WriteBack(t))
    BY <1>15, WriteBackIs, Zenon
  <2> QED
    BY <1>14, <1>15, <2>1, BuffersKept, HeldCalls, Zenon DEF Buffers
<1>17. Calls(G, v, Abort(t, c.res))
  <2>1. Works(G, t, Abort(t, c.res))
    BY <1>15, AbortWorks, Zenon
  <2>2. Abort(t, c.res).fil.fptr <= Abort(t, c.res).fil.objsize
    BY <1>12, <1>14, <2>1, WorksPlace, ZenonT(40)
  <2> QED
    BY <1>15, <2>1, <2>2, HeldCalls, Zenon DEF Works
<1>18. Calls(G, v, y)
  <2>1. Begins(G, v, fp, 0, y)
    BY <1>1, <1>9, TransferIs, Zenon
  <2> QED
    BY <2>1, Zenon DEF Begins, Calls
<1> QED
  BY <1>10, <1>16, <1>17, <1>18, RefusedIs, Zenon

-----------------------------------------------------------------------------
(* Seeking. *)

(* Places at the beginning of a sector.                                    *)
Aligned(x) == x \in Nat /\ \E q \in Nat : x = SS * q

LEMMA MultipleOf ==
  ASSUME NEW m \in Nat \ {0}, NEW q \in Nat, NEW a \in Nat, NEW r \in 0 .. m - 1, m * q = m * a + r
  PROVE  r = 0
<1>1. CASE q <= a
  <2>1. PICK x : x = m * q
    OBVIOUS
  <2>2. PICK y : y = m * a
    OBVIOUS
  <2>3. x <= y /\ x \in Nat /\ y \in Nat
    BY <1>1, <2>1, <2>2, ProductOrder
  <2> QED
    BY <2>1, <2>2, <2>3
<1>2. CASE q >= a + 1
  <2>1. PICK x : x = m * q
    OBVIOUS
  <2>2. PICK y : y = m * a
    OBVIOUS
  <2>3. PICK z : z = m * (a + 1)
    OBVIOUS
  <2>4. z <= x /\ x \in Int
    BY <1>2, <2>1, <2>3, ProductOrder
  <2>5. z = y + m /\ y \in Int
    BY <2>2, <2>3
  <2> QED
    BY <2>1, <2>2, <2>4, <2>5
<1> QED
  BY <1>1, <1>2

LEMMA AlignedIs ==
  ASSUME NEW x, Aligned(x) PROVE x % SS = 0
<1>1. PICK q \in Nat : x = SS * q
  BY Zenon DEF Aligned
<1>2. x \in Nat
  BY Zenon DEF Aligned
<1>3. PICK a : a = x \div SS
  OBVIOUS
<1>4. PICK r : r = x % SS
  OBVIOUS
<1>5. a \in Nat /\ r \in 0 .. SS - 1 /\ SS * q = SS * a + r /\ SS \in Nat \ {0}
  BY <1>1, <1>2, <1>3, <1>4, SectorAssumption, DivMod
<1>6. r = 0
  BY <1>5, MultipleOf, Zenon
<1> QED
  BY <1>4, <1>6

LEMMA AlignedBack ==
  ASSUME NEW x \in Nat, x % SS = 0 PROVE Aligned(x)
<1>1. PICK a : a = x \div SS
  OBVIOUS
<1>2. PICK r : r = x % SS
  OBVIOUS
<1>3. a \in Nat /\ x = SS * a + r
  BY <1>1, <1>2, SectorAssumption, DivMod
<1>4. PICK y : y = SS * a
  OBVIOUS
<1>5. y \in Nat
  BY <1>3, <1>4, SectorAssumption
<1>6. x = y
  BY <1>2, <1>3, <1>4, <1>5
<1> QED
  BY <1>3, <1>4, <1>6, Zenon DEF Aligned

LEMMA AlignedPlus ==
  ASSUME NEW x, Aligned(x), NEW y, Aligned(y) PROVE Aligned(x + y)
<1>1. PICK a \in Nat : x = SS * a
  BY Zenon DEF Aligned
<1>2. PICK b \in Nat : y = SS * b
  BY Zenon DEF Aligned
<1>3. SS * a + SS * b = SS * (a + b) /\ a + b \in Nat
  BY SectorAssumption
<1>4. x + y \in Nat
  <2>1. x \in Nat /\ y \in Nat
    BY Zenon DEF Aligned
  <2> QED
    BY <2>1
<1> QED
  BY <1>1, <1>2, <1>3, <1>4, Zenon DEF Aligned

LEMMA AlignedBytes ==
  ASSUME NEW q \in Nat, NEW k \in Nat PROVE Aligned(q * (k * SS)) /\ Aligned(k * SS)
<1>1. q * (k * SS) = SS * (q * k) /\ k * SS = SS * k /\ q * k \in Nat
  BY SectorAssumption
<1>2. q * (k * SS) \in Nat /\ k * SS \in Nat
  BY SectorAssumption
<1> QED
  BY <1>1, <1>2, Zenon DEF Aligned

LEMMA AlignedZero == Aligned(0)
<1>1. SS * 0 = 0
  BY SectorAssumption
<1> QED
  BY <1>1 DEF Aligned

(* The walk of f_lseek: the pointer is at the beginning of a sector, and a *)
(* walk that has ended early has left an error.                            *)
OnWay(s) == s.left \in Nat /\ Aligned(s.fil.fptr) /\ (~s.go => s.fil.err # "OK")

\* Pointer and volume are set.
Placed(s, t, w, x, l) ==
  /\ IsSes(t) /\ t.vol = w /\ t.left = l /\ t.go = s.go
  /\ Same(s.fil, t.fil, {"fptr"}) /\ t.fil.fptr = x

LEMMA PlacedIs ==
  ASSUME NEW G, NEW s, Sits(G, s), NEW w, Serves(G, s.vol, w, ChainFields), NEW x \in Nat, NEW l,
         NEW t, Placed(s, t, w, x, l)
  PROVE  Held(G, s, t) /\ Sits(G, t) /\ t.fil.err = s.fil.err /\ t.fil.objsize = s.fil.objsize
<1>1. /\ IsFil(t.fil) /\ t.fil.open = s.fil.open /\ t.fil.objsize = s.fil.objsize
      /\ t.fil.dir_sect = s.fil.dir_sect /\ t.fil.dir_slot = s.fil.dir_slot /\ t.fil.sect = s.fil.sect
      /\ t.fil.err = s.fil.err
  BY Zenon DEF Placed, Same, FilNames
<1>2. t.fil.fptr \in Nat
  BY Zenon DEF Placed
<1>3. FilPart(G, t.fil)
  BY <1>1, <1>2, Zenon DEF FilPart, Sits
<1>4. Held(G, s, t)
  BY <1>3, Zenon DEF Placed, Held
<1> QED
  BY <1>1, <1>4, HeldSits, Zenon

LEMMA PlaceSet ==
  ASSUME NEW G, NEW s, Sits(G, s), NEW w, NEW x, NEW l
  PROVE  Placed(s, [s EXCEPT !.vol = w, !.fil.fptr = x, !.left = l], w, x, l)
<1>1. IsSes(s) /\ IsFil(s.fil)
  BY Zenon DEF Sits, FilPart
<1>2. PICK f : f = [s.fil EXCEPT !.fptr = x]
  OBVIOUS
<1>3. PICK t : t = [s EXCEPT !.vol = w, !.fil = f, !.left = l]
  OBVIOUS
<1>4. t = [s EXCEPT !.vol = w, !.fil.fptr = x, !.left = l]
  BY <1>1, <1>2, <1>3, Zenon DEF IsSes, SesNames
<1>5. Same(s.fil, f, {"fptr"}) /\ f.fptr = x
  BY <1>1, <1>2, Zenon DEF Same, IsFil, FilNames
<1>6. IsSes(t) /\ t.vol = w /\ t.left = l /\ t.go = s.go /\ t.fil = f
  BY <1>1, <1>3, Zenon DEF IsSes, SesNames
<1> QED
  BY <1>4, <1>5, <1>6, Zenon DEF Placed

(* What keeps a walk on its way.                                           *)
LEMMA AbortOnWay ==
  ASSUME NEW G, GeoOK(G), NEW s, Sits(G, s), s.left \in Nat, Aligned(s.fil.fptr), NEW r, r # "OK"
  PROVE  OnWay(Abort(s, r)) /\ Held(G, s, Abort(s, r))
<1>1. PICK t : t = Abort(s, r)
  OBVIOUS
<1>2. Works(G, s, t) /\ Aborts(G, s, t, r)
  BY <1>1, AbortWorks, AbortIs, Zenon
<1>3. t.fil.fptr = s.fil.fptr /\ t.left = s.left /\ t.fil.err = r
  BY <1>2, WorksPlace, ZenonT(40) DEF Aborts
<1> QED
  BY <1>1, <1>2, <1>3, Zenon DEF OnWay, Works

(* The cluster of the file is set on the way.                              *)
LEMMA ClustOnWay ==
  ASSUME NEW G, NEW s, Sits(G, s), s.left \in Nat, Aligned(s.fil.fptr), NEW c, NEW d
  PROVE  LET t == [s EXCEPT !.fil.clust = c, !.fil.sclust = d] IN (s.go => OnWay(t)) /\ Held(G, s, t)
<1>1. PICK f : f = [s.fil EXCEPT !.clust = c, !.sclust = d]
  OBVIOUS
<1>2. PICK t : t = [s EXCEPT !.fil = f]
  OBVIOUS
<1>3. t = [s EXCEPT !.fil.clust = c, !.fil.sclust = d]
  BY <1>1, <1>2, Zenon DEF Sits, FilPart, IsSes, SesNames, IsFil, FilNames
<1>4. Works(G, s, t) /\ t.go = s.go
  <2>1. Works(G, s, t)
    BY <1>1, <1>2, ClustWorks
  <2>2. t.go = s.go
    BY <1>2, Zenon DEF Sits, IsSes, SesNames
  <2> QED
    BY <2>1, <2>2, Zenon
<1>5. t.fil.fptr = s.fil.fptr /\ t.left = s.left
  BY <1>4, WorksPlace, Zenon
<1>6. s.go => OnWay(t)
  BY <1>4, <1>5, Zenon DEF OnWay
<1> QED
  BY <1>3, <1>4, <1>6, Zenon DEF Works

LEMMA ClusterBytesIs ==
  ASSUME NEW G, GeoOK(G), NEW v, Good(G, v)
  PROVE  /\ ClusterBytes(v) \in Nat \ {0} /\ Aligned(ClusterBytes(v))
         /\ \A q \in Nat : Aligned(q * ClusterBytes(v))
<1>1. v.csize = G.csize
  BY GoodIsVol, GeoIs, Zenon
<1>2. PICK k : k = G.csize
  OBVIOUS
<1>3. k \in Nat \ {0}
  BY <1>2 DEF GeoOK
<1>4. k * SS \in Nat \ {0}
  BY <1>3, SectorAssumption
<1>5. ClusterBytes(v) = k * SS
  BY <1>1, <1>2, Zenon DEF ClusterBytes
<1>6. Aligned(k * SS) /\ \A q \in Nat : Aligned(q * (k * SS))
  BY <1>3, AlignedBytes
<1> QED
  BY <1>4, <1>5, <1>6, Zenon

LEMMA AheadIs ==
  ASSUME NEW b \in Nat \ {0}, NEW x \in Nat, NEW l \in Nat \ {0}, x > 0,
         (l - 1) \div b >= (x - 1) \div b, NEW base, base = ((x - 1) \div b) * b
  PROVE  (x - 1) \div b \in Nat /\ base \in Nat /\ l - base \in Nat
<1>1. PICK q : q = (x - 1) \div b
  OBVIOUS
<1>2. PICK p : p = (l - 1) \div b
  OBVIOUS
<1>3. PICK j : j = l - 1
  OBVIOUS
<1>4. PICK i : i = x - 1
  OBVIOUS
<1>5. j \in Nat /\ i \in Nat /\ q = i \div b /\ p = j \div b
  BY <1>1, <1>2, <1>3, <1>4
<1>6. q \in Nat /\ p \in Nat /\ q <= p
  BY <1>1, <1>2, <1>5, DivMod
<1>7. PICK r : r = j % b
  OBVIOUS
<1>8. r \in Nat /\ j = b * p + r
  BY <1>5, <1>7, DivMod
<1>9. b * q <= b * p
  BY <1>6, ProductOrder
<1>10. PICK y : y = b * p
  OBVIOUS
<1>11. PICK z : z = b * q
  OBVIOUS
<1>12. y \in Nat /\ z \in Nat /\ base = z
  BY <1>1, <1>6, <1>10, <1>11
<1> QED
  BY <1>1, <1>3, <1>6, <1>8, <1>9, <1>10, <1>11, <1>12

LEMMA SeekFromIs ==
  ASSUME NEW G, GeoOK(G), NEW s, Sits(G, s), s.left \in Nat \ {0}
  PROVE  Held(G, s, SeekFrom(s)) /\ (s.go => OnWay(SeekFrom(s)))
<1> DEFINE bcs == ClusterBytes(s.vol)
           x   == s.fil.fptr
           ahead == x > 0 /\ (s.left - 1) \div bcs >= (x - 1) \div bcs
<1>1. PICK base : base = ((x - 1) \div bcs) * bcs
  OBVIOUS
<1>2. PICK w : w = Returns(s.vol, s.fil.clust)
  OBVIOUS
<1>3. PICK l : l = s.left - base
  OBVIOUS
<1>4. PICK a : a = [s EXCEPT !.vol = w, !.fil.fptr = base, !.left = l]
  OBVIOUS
<1>5. PICK c : c = IF s.fil.sclust # 0 THEN Returns(s.vol, s.fil.sclust) ELSE create_chain(s.vol, 0)
  OBVIOUS
<1>6. PICK t : t = [s EXCEPT !.vol = c, !.fil.fptr = 0]
  OBVIOUS
<1>7. PICK u : u = [t EXCEPT !.fil.clust = c.val, !.fil.sclust = c.val]
  OBVIOUS
<1>8. IsSes(s) /\ IsFil(s.fil) /\ Good(G, s.vol) /\ x \in Nat /\ IsVol(s.vol)
  BY GoodIsVol, Zenon DEF Sits, FilPart
<1>9. \/ ahead /\ SeekFrom(s) = a
      \/ SeekFrom(s) \in {Abort(t, "INT_ERR"), Abort(t, "DISK_ERR"), u}
  <2>1. a = [s EXCEPT !.vol.val = s.fil.clust, !.fil.fptr = base, !.left = @ - base]
    BY <1>2, <1>3, <1>4, <1>8, Zenon DEF Returns, IsSes, SesNames
  <2>2. u = [t EXCEPT !.fil.sclust = c.val, !.fil.clust = c.val]
    <3>1. IsSes(t) /\ IsFil(t.fil)
      BY <1>6, <1>8, Zenon DEF IsSes, SesNames, IsFil, FilNames
    <3> QED
      BY <1>7, <3>1, Zenon DEF IsSes, SesNames, IsFil, FilNames
  <2>3. DISK # 1
    BY StatusApart, Zenon
  <2>4. SeekFrom(s) = IF ahead THEN a
                      ELSE CASE c.val = 1 -> Abort(t, "INT_ERR")
                             [] c.val = DISK -> Abort(t, "DISK_ERR")
                             [] OTHER -> u
    BY <1>1, <1>5, <1>6, <2>1, <2>2 DEF SeekFrom, After
  <2> HIDE DEF ahead
  <2> QED
    BY <2>3, <2>4
<1>10. Serves(G, s.vol, w, ChainFields) /\ Serves(G, s.vol, c, ChainFields)
  <2>1. \A k : Serves(G, s.vol, Returns(s.vol, k), ChainFields)
    BY <1>8, ValUnhurt, ReadingServes, Zenon
  <2>2. \A k : Serves(G, s.vol, create_chain(s.vol, k), ChainFields)
    BY <1>8, CreateServes, Zenon
  <2> QED
    BY <1>2, <1>5, <2>1, <2>2, Zenon
<1>11. CASE ahead /\ SeekFrom(s) = a
  <2>1. PICK b : b = bcs
    OBVIOUS
  <2>2. b \in Nat \ {0} /\ \A q \in Nat : Aligned(q * b)
    BY <1>8, <2>1, ClusterBytesIs, Zenon
  <2>3. (x - 1) \div b \in Nat /\ base \in Nat /\ l \in Nat
    BY <1>1, <1>3, <1>8, <1>11, <2>1, <2>2, AheadIs
  <2>4. Aligned(base)
    BY <1>1, <2>1, <2>2, <2>3, Zenon
  <2>5. Placed(s, a, w, base, l)
    BY <1>4, PlaceSet, Zenon
  <2>6. Held(G, s, a)
    BY <1>10, <2>3, <2>5, PlacedIs, Zenon
  <2>7. s.go => OnWay(a)
    BY <2>3, <2>4, <2>5, Zenon DEF OnWay, Placed
  <2> QED
    BY <1>11, <2>6, <2>7, Zenon
<1>12. CASE SeekFrom(s) \in {Abort(t, "INT_ERR"), Abort(t, "DISK_ERR"), u}
  <2>1. PICK z : z = 0
    OBVIOUS
  <2>2. z \in Nat /\ Aligned(z)
    BY <2>1, AlignedZero
  <2>3. t = [s EXCEPT !.vol = c, !.fil.fptr = z, !.left = s.left]
    BY <1>6, <1>8, <2>1, Zenon DEF IsSes, SesNames
  <2>4. Placed(s, t, c, z, s.left)
    BY <2>3, PlaceSet, Zenon
  <2>5. Held(G, s, t) /\ Sits(G, t)
    BY <1>10, <2>2, <2>4, PlacedIs, Zenon
  <2>6. t.left \in Nat /\ Aligned(t.fil.fptr) /\ t.go = s.go
    BY <2>2, <2>4, Zenon DEF Placed
  <2>7. "INT_ERR" # "OK" /\ "DISK_ERR" # "OK"
    OBVIOUS
  <2>8. /\ OnWay(Abort(t, "INT_ERR")) /\ Held(G, t, Abort(t, "INT_ERR"))
        /\ OnWay(Abort(t, "DISK_ERR")) /\ Held(G, t, Abort(t, "DISK_ERR"))
    BY <2>5, <2>6, <2>7, AbortOnWay, Zenon
  <2>9. (t.go => OnWay(u)) /\ Held(G, t, u)
    BY <1>7, <2>5, <2>6, ClustOnWay
  <2> QED
    BY <1>12, <2>5, <2>6, <2>8, <2>9, HeldTwice, Zenon
<1> QED
  BY <1>9, <1>11, <1>12, Zenon

LEMMA SeekHopIs ==
  ASSUME NEW G, GeoOK(G), NEW s, Sits(G, s), OnWay(s), s.left > ClusterBytes(s.vol)
  PROVE  Held(G, s, SeekHop(s)) /\ (s.go => OnWay(SeekHop(s)))
<1>1. PICK bcs : bcs = ClusterBytes(s.vol)
  OBVIOUS
<1>2. PICK c : c = IF Has(s.fil, "WRITE") THEN create_chain(s.vol, s.vol.val) ELSE get_fat(s.vol, s.vol.val)
  OBVIOUS
<1>3. PICK l : l = s.left - bcs
  OBVIOUS
<1>4. PICK x : x = s.fil.fptr + bcs
  OBVIOUS
<1>5. PICK t : t = [s EXCEPT !.vol = c, !.fil.fptr = x, !.left = l]
  OBVIOUS
<1>6. PICK e : e = [t EXCEPT !.left = 0]
  OBVIOUS
<1>7. PICK u : u = [t EXCEPT !.fil.clust = c.val]
  OBVIOUS
<1>8. IsSes(s) /\ IsFil(s.fil) /\ Good(G, s.vol) /\ s.left \in Nat /\ Aligned(s.fil.fptr)
  BY Zenon DEF Sits, FilPart, OnWay
<1>9. SeekHop(s) \in {e, Abort(t, "DISK_ERR"), Abort(t, "INT_ERR"), u}
  <2>1. t = [s EXCEPT !.vol = c, !.left = @ - bcs, !.fil.fptr = @ + bcs]
    BY <1>3, <1>4, <1>5, <1>8, Zenon DEF IsSes, SesNames
  <2> QED
    BY <1>1, <1>2, <1>6, <1>7, <2>1 DEF SeekHop, After
<1>10. Serves(G, s.vol, c, ChainFields)
  <2>1. \A k : Serves(G, s.vol, get_fat(s.vol, k), ChainFields)
    BY <1>8, GetIs, ReadingServes, Zenon
  <2>2. \A k : Serves(G, s.vol, create_chain(s.vol, k), ChainFields)
    BY <1>8, CreateServes, Zenon
  <2> QED
    BY <1>2, <2>1, <2>2, Zenon
<1>11. bcs \in Nat \ {0} /\ Aligned(bcs)
  BY <1>1, <1>8, ClusterBytesIs, Zenon
<1>12. Aligned(x) /\ x \in Nat
  BY <1>4, <1>8, <1>11, AlignedPlus, Zenon DEF Aligned
<1>13. l \in Nat
  BY <1>1, <1>3, <1>8, <1>11
<1>14. Placed(s, t, c, x, l)
  BY <1>5, PlaceSet, Zenon
<1>15. Held(G, s, t) /\ Sits(G, t)
  BY <1>10, <1>12, <1>14, PlacedIs, Zenon
<1>16. t.left \in Nat /\ Aligned(t.fil.fptr) /\ t.go = s.go
  BY <1>12, <1>13, <1>14, Zenon DEF Placed
<1>17. "INT_ERR" # "OK" /\ "DISK_ERR" # "OK"
  OBVIOUS
<1>18. /\ OnWay(Abort(t, "INT_ERR")) /\ Held(G, t, Abort(t, "INT_ERR"))
       /\ OnWay(Abort(t, "DISK_ERR")) /\ Held(G, t, Abort(t, "DISK_ERR"))
  BY <1>15, <1>16, <1>17, AbortOnWay, Zenon
<1>19. (t.go => OnWay(u)) /\ Held(G, t, u)
  <2>1. PICK d : d = t.fil.sclust
    OBVIOUS
  <2>2. u = [t EXCEPT !.fil.clust = c.val, !.fil.sclust = d]
    BY <1>7, <1>15, <2>1, Zenon DEF Sits, FilPart, IsSes, SesNames, IsFil, FilNames
  <2> QED
    BY <1>15, <1>16, <2>2, ClustOnWay
<1>20. (t.go => OnWay(e)) /\ Held(G, t, e)
  <2>1. PICK z : z = 0
    OBVIOUS
  <2>2. z \in Nat
    BY <2>1
  <2>3. IsSes(t) /\ FilPart(G, t.fil)
    BY <1>15, Zenon DEF Sits
  <2>4. IsSes(e) /\ e.vol = t.vol /\ e.fil = t.fil /\ e.left = z /\ e.go = t.go
    BY <1>6, <2>1, <2>3, Zenon DEF IsSes, SesNames
  <2>5. Held(G, t, e)
    BY <1>15, <2>3, <2>4, ServesStays, Zenon DEF Held, Sits
  <2> QED
    BY <1>16, <2>2, <2>4, <2>5, Zenon DEF OnWay
<1> QED
  BY <1>9, <1>15, <1>16, <1>18, <1>19, <1>20, HeldTwice, Zenon

HopStep(c, i, s)  == IF s.go /\ s.left > ClusterBytes(s.vol) THEN SeekHop(s) ELSE s
HopKeeps(c, i, s) == Sits(c.G, s) /\ Held(c.G, c.s, s) /\ OnWay(s)
HopLoop == INSTANCE Loops WITH Step <- HopStep, Keeps <- HopKeeps

LEMMA HopsIs ==
  ASSUME NEW G, GeoOK(G), NEW s0, Sits(G, s0), OnWay(s0), NEW n \in Nat
  PROVE  LET t == While(LAMBDA s : s.go /\ s.left > ClusterBytes(s.vol), SeekHop, s0, n) IN
         Held(G, s0, t) /\ OnWay(t)
<1>1. PICK c : c = [G |-> G, s |-> s0]
  OBVIOUS
<1>2. c.G = G /\ c.s = s0
  BY <1>1
<1>3. HopKeeps(c, 0, s0)
  BY <1>2, SitsHeld, Zenon DEF HopKeeps
<1>4. ASSUME NEW i \in 1 .. n, NEW s, HopKeeps(c, i - 1, s) PROVE HopKeeps(c, i, HopStep(c, i, s))
  <2>1. Sits(G, s) /\ Held(G, s0, s) /\ OnWay(s)
    BY <1>2, <1>4, Zenon DEF HopKeeps
  <2>2. s.left > ClusterBytes(s.vol) => Held(G, s, SeekHop(s)) /\ (s.go => OnWay(SeekHop(s)))
    BY <2>1, SeekHopIs, Zenon
  <2>3. \/ HopStep(c, i, s) = s
        \/ s.go /\ s.left > ClusterBytes(s.vol) /\ HopStep(c, i, s) = SeekHop(s)
    BY Zenon DEF HopStep
  <2>4. CASE s.go /\ s.left > ClusterBytes(s.vol) /\ HopStep(c, i, s) = SeekHop(s)
    <3>1. Held(G, s, SeekHop(s)) /\ OnWay(SeekHop(s))
      BY <2>2, <2>4, Zenon
    <3>2. Sits(G, SeekHop(s)) /\ Held(G, s0, SeekHop(s))
      BY <2>1, <3>1, HeldTwice, HeldSits, Zenon
    <3> QED
      BY <1>2, <2>4, <3>1, <3>2, Zenon DEF HopKeeps
  <2> QED
    BY <1>4, <2>3, <2>4, <1>2, <2>1, Zenon DEF HopKeeps
<1>5. HopKeeps(c, n, HopLoop!Track(c, s0, n)[n])
  BY <1>3, <1>4, HopLoop!LoopKeeps, AllNumbers, Zenon
<1>6. HopLoop!Track(c, s0, n)[n] = While(LAMBDA s : s.go /\ s.left > ClusterBytes(s.vol), SeekHop, s0, n)
  BY DEF HopLoop!Track, While, HopStep
<1> QED
  BY <1>2, <1>5, <1>6, Zenon DEF HopKeeps

\* A call ends with the pointer in the file, or an error.
EndsIn(G, s, t) == Held(G, s, t) /\ (t.fil.err = "OK" => t.fil.fptr <= t.fil.objsize)

LEMMA EndsTwice ==
  ASSUME NEW G, NEW s, NEW u, NEW t, Held(G, s, u), EndsIn(G, u, t) PROVE EndsIn(G, s, t)
BY HeldTwice, Zenon DEF EndsIn

LEMMA WorksEnds ==
  ASSUME NEW G, NEW s, s.fil.fptr <= s.fil.objsize, NEW t, Works(G, s, t) PROVE EndsIn(G, s, t)
BY WorksPlace, ZenonT(40) DEF EndsIn, Works

\* Not to be taken apart below.
LandAt(v, s2) ==
  LET s3 == [s2 EXCEPT !.fil.fptr = @ + s2.left]
  IN  IF (s2.left % SS) # 0 /\ ~IsCluster(v, s2.vol.val) THEN Abort(s3, "INT_ERR") ELSE SeekEnds(s3)

HopAll(s, n) == While(LAMBDA x : x.go /\ x.left > ClusterBytes(x.vol), SeekHop, s, n)

WalkedAt(v, to, s1) ==
  IF s1.vol.val = 0 THEN [s1 EXCEPT !.fil.fptr = 0]
  ELSE IF HopAll(s1, to).go THEN LandAt(v, HopAll(s1, to)) ELSE HopAll(s1, to)

LEMMA SeekEndsIs ==
  ASSUME NEW G, GeoOK(G), NEW s, Sits(G, s), s.left \in Nat,
         (s.fil.fptr % SS) = 0 \/ IsCluster(s.vol, s.vol.val)
  PROVE  EndsIn(G, s, SeekEnds(s))
<1>1. PICK x : x = s.fil.fptr
  OBVIOUS
<1>2. PICK z : z = s.fil.objsize
  OBVIOUS
<1>3. PICK h : h = [s.fil EXCEPT !.objsize = x]
  OBVIOUS
<1>4. PICK g : g = Raise(h, "MODIFIED")
  OBVIOUS
<1>5. PICK e : e = [s EXCEPT !.fil = g]
  OBVIOUS
<1>6. PICK f : f = IF x > z THEN e ELSE s
  OBVIOUS
<1>7. PICK nsect : nsect = clst2sect(s.vol, s.vol.val) + s.left \div SS
  OBVIOUS
<1>8. PICK b : b = WriteBack(f)
  OBVIOUS
<1>9. PICK r : r = IF b.go THEN Fill(b, nsect) ELSE b
  OBVIOUS
<1>10. PICK t : t = [r EXCEPT !.fil.sect = nsect]
  OBVIOUS
<1>11. \/ SeekEnds(s) = f
       \/ SeekEnds(s) = r
       \/ (s.fil.fptr % SS) # 0 /\ SeekEnds(s) = t
  <2>1. e = [s EXCEPT !.fil = Raise([@ EXCEPT !.objsize = s.fil.fptr], "MODIFIED")]
    BY <1>1, <1>3, <1>4, <1>5
  <2> QED
    BY <1>1, <1>2, <1>6, <2>1, <1>7, <1>8, <1>9, <1>10 DEF SeekEnds, IfGo
<1>12. x \in Nat /\ z \in Nat /\ IsFil(s.fil) /\ FilPart(G, s.fil) /\ IsSes(s) /\ Good(G, s.vol)
  BY <1>1, <1>2, Zenon DEF Sits, FilPart
<1>13. FilPart(G, g) /\ g.fptr = x /\ g.objsize = x
  <2>1. Same(s.fil, h, {"objsize"}) /\ h.objsize = x
    BY <1>3, <1>12, Zenon DEF Same, IsFil, FilNames
  <2>2. Same(h, g, {"flag"})
    BY <1>4, <2>1, FlagSet, Zenon DEF Same
  <2>3. /\ IsFil(g) /\ g.open = s.fil.open /\ g.sect = s.fil.sect /\ g.dir_sect = s.fil.dir_sect
        /\ g.dir_slot = s.fil.dir_slot /\ g.fptr = s.fil.fptr /\ g.objsize = x
    BY <2>1, <2>2, Zenon DEF Same, FilNames
  <2> QED
    BY <1>1, <1>12, <2>3, Zenon DEF FilPart
<1>14. Held(G, s, e) /\ e.fil = g
  BY <1>5, <1>13, FilSet
<1>15. Held(G, s, s)
  BY SitsHeld
<1>16. Held(G, s, f) /\ Sits(G, f) /\ f.fil.fptr <= f.fil.objsize
  <2>1. Held(G, s, f) /\ Sits(G, f)
    BY <1>6, <1>14, <1>15, HeldSits, Zenon
  <2>2. PICK p : p = f.fil.fptr
    OBVIOUS
  <2>3. PICK q : q = f.fil.objsize
    OBVIOUS
  <2>4. p = x /\ (q = x \/ (q = z /\ ~(x > z)))
    BY <1>1, <1>2, <1>6, <1>13, <1>14, <2>2, <2>3, Zenon
  <2>5. p <= q
    BY <1>12, <2>4
  <2> QED
    BY <2>1, <2>2, <2>3, <2>5, Zenon
<1>17. Works(G, f, b) /\ Sits(G, b)
  BY <1>8, <1>16, WriteBackIs, BuffersWorks, WorksSits, Zenon
<1>18. Works(G, f, r) /\ Sits(G, r)
  <2>1. Works(G, b, Fill(b, nsect)) /\ Works(G, b, b)
    BY <1>17, FillIs, BuffersWorks, WorksStays, Zenon
  <2> QED
    BY <1>9, <1>17, <2>1, WorksTwice, WorksSits, Zenon
<1>19. (s.fil.fptr % SS) # 0 => Works(G, f, t)
  <2>1. SUFFICES ASSUME (s.fil.fptr % SS) # 0 PROVE Works(G, f, t)
    OBVIOUS
  <2>2. IsCluster(s.vol, s.vol.val)
    BY <2>1
  <2>3. PICK k : k = clst2sect(s.vol, s.vol.val)
    OBVIOUS
  <2>4. Beyond(G, k)
    BY <1>12, <2>2, <2>3, GoodIsVol, ClusterSector, Zenon
  <2>5. PICK n : n = s.left \div SS
    OBVIOUS
  <2>6. n \in Nat
    BY <2>5, SectorAssumption, DivMod
  <2>7. Beyond(G, k + n)
    BY <2>4, <2>6, BeyondMore
  <2>8. Beyond(G, nsect)
    BY <1>7, <2>3, <2>5, <2>7, Zenon
  <2>9. Works(G, r, t)
    BY <1>10, <1>18, <2>8, SectWorks
  <2> QED
    BY <1>18, <2>9, WorksTwice, Zenon
<1>20. EndsIn(G, f, f) /\ EndsIn(G, f, r)
  BY <1>16, <1>18, WorksStays, WorksEnds, Zenon
<1>21. (s.fil.fptr % SS) # 0 => EndsIn(G, f, t)
  BY <1>16, <1>19, WorksEnds, Zenon
<1> QED
  BY <1>11, <1>16, <1>20, <1>21, EndsTwice, Zenon

LEMMA LandIs ==
  ASSUME NEW G, GeoOK(G), NEW v, HasGeo(G, v), NEW s, Sits(G, s), OnWay(s)
  PROVE  EndsIn(G, s, LandAt(v, s))
<1>1. PICK x : x = s.fil.fptr + s.left
  OBVIOUS
<1>2. PICK w : w = s.vol
  OBVIOUS
<1>3. PICK l : l = s.left
  OBVIOUS
<1>4. PICK t : t = [s EXCEPT !.vol = w, !.fil.fptr = x, !.left = l]
  OBVIOUS
<1>5. IsSes(s) /\ IsFil(s.fil) /\ Good(G, s.vol) /\ s.left \in Nat /\ Aligned(s.fil.fptr) /\ s.fil.fptr \in Nat
  BY Zenon DEF Sits, FilPart, OnWay, Aligned
<1>6. LandAt(v, s) = IF (s.left % SS) # 0 /\ ~IsCluster(v, s.vol.val) THEN Abort(t, "INT_ERR") ELSE SeekEnds(t)
  <2>1. t = [s EXCEPT !.fil.fptr = @ + s.left]
    BY <1>1, <1>2, <1>3, <1>4, <1>5, Zenon DEF IsSes, SesNames
  <2> QED
    BY <2>1, Zenon DEF LandAt
<1>7. x \in Nat
  BY <1>1, <1>5
<1>8. Placed(s, t, w, x, l)
  BY <1>4, PlaceSet, Zenon
<1>9. Held(G, s, t) /\ Sits(G, t) /\ t.left \in Nat /\ t.fil.fptr = x /\ t.vol = s.vol
  <2>1. Serves(G, s.vol, w, ChainFields)
    BY <1>2, <1>5, ServesStays, Zenon
  <2>2. Held(G, s, t) /\ Sits(G, t)
    BY <1>7, <1>8, <2>1, PlacedIs, Zenon
  <2> QED
    BY <1>2, <1>3, <1>5, <1>8, <2>2, Zenon DEF Placed
<1>10. EndsIn(G, t, Abort(t, "INT_ERR"))
  <2>1. Aborts(G, t, Abort(t, "INT_ERR"), "INT_ERR")
    BY <1>9, AbortIs, Zenon
  <2>2. "INT_ERR" # "OK"
    OBVIOUS
  <2> QED
    BY <2>1, <2>2, Zenon DEF Aborts, EndsIn
<1>11. CASE IsCluster(v, s.vol.val)
  <2>1. IsCluster(t.vol, t.vol.val)
    <3>1. v.n_fatent = G.n_fatent /\ t.vol.n_fatent = G.n_fatent
      BY <1>5, <1>9, GoodIsVol, GeoIs, Zenon
    <3> QED
      BY <1>9, <1>11, <3>1, Zenon DEF IsCluster
  <2> QED
    BY <1>6, <1>9, <1>11, <2>1, SeekEndsIs, EndsTwice, Zenon
<1>12. CASE (s.left % SS) = 0
  <2>1. Aligned(s.left)
    BY <1>5, <1>12, AlignedBack, Zenon
  <2>2. Aligned(x)
    BY <1>1, <1>5, <2>1, AlignedPlus, Zenon
  <2>3. (t.fil.fptr % SS) = 0
    BY <1>9, <2>2, AlignedIs
  <2> QED
    BY <1>6, <1>9, <1>12, <2>3, SeekEndsIs, EndsTwice, Zenon
<1> QED
  BY <1>6, <1>9, <1>10, <1>11, <1>12, EndsTwice, Zenon

LEMMA WalkedIs ==
  ASSUME NEW G, GeoOK(G), NEW v, HasGeo(G, v), NEW to \in Nat, NEW s, Sits(G, s), OnWay(s)
  PROVE  EndsIn(G, s, WalkedAt(v, to, s))
<1>1. PICK h : h = HopAll(s, to)
  OBVIOUS
<1>2. Held(G, s, h) /\ OnWay(h) /\ Sits(G, h)
  <2>1. Held(G, s, h) /\ OnWay(h)
    BY <1>1, HopsIs DEF HopAll
  <2> QED
    BY <2>1, HeldSits, Zenon
<1>3. PICK z : z = 0
  OBVIOUS
<1>4. PICK w : w = s.vol
  OBVIOUS
<1>5. PICK l : l = s.left
  OBVIOUS
<1>6. PICK t : t = [s EXCEPT !.vol = w, !.fil.fptr = z, !.left = l]
  OBVIOUS
<1>7. t = [s EXCEPT !.fil.fptr = 0]
  BY <1>3, <1>4, <1>5, <1>6, Zenon DEF Sits, IsSes, SesNames
<1>8. \/ WalkedAt(v, to, s) = t
      \/ h.go /\ WalkedAt(v, to, s) = LandAt(v, h)
      \/ ~h.go /\ WalkedAt(v, to, s) = h
  BY <1>1, <1>7, Zenon DEF WalkedAt
<1>9. EndsIn(G, s, t)
  <2>1. Placed(s, t, w, z, l) /\ z \in Nat
    BY <1>3, <1>6, PlaceSet
  <2>2. Serves(G, s.vol, w, ChainFields)
    BY <1>4, ServesStays, Zenon DEF Sits
  <2>3. Held(G, s, t)
    BY <2>1, <2>2, PlacedIs, Zenon
  <2>4. t.fil.fptr = 0
    BY <1>3, <2>1, Zenon DEF Placed
  <2>5. t.fil.objsize \in Nat
    BY <2>3, Zenon DEF Held, FilPart
  <2>6. t.fil.fptr <= t.fil.objsize
    BY <2>4, <2>5
  <2> QED
    BY <2>3, <2>6, Zenon DEF EndsIn
<1>10. EndsIn(G, s, LandAt(v, h))
  BY <1>2, LandIs, EndsTwice, Zenon
<1>11. ~h.go => EndsIn(G, s, h)
  BY <1>2, Zenon DEF OnWay, EndsIn
<1> QED
  BY <1>8, <1>9, <1>10, <1>11, Zenon

LEMMA LseekCalls ==
  ASSUME NEW G, GeoOK(G), NEW v, Good(G, v), NEW fp, FilOK(G, fp), NEW ofs \in Nat
  PROVE  Calls(G, v, f_lseek(v, fp, ofs))
<1>1. PICK to : to = IF Has(fp, "WRITE") THEN ofs ELSE Min2(ofs, fp.objsize)
  OBVIOUS
<1>2. PICK s : s = Transfer(v, fp, to, <<>>)
  OBVIOUS
<1>3. PICK a : a = SeekFrom(s)
  OBVIOUS
<1>4. PICK e : e = IF to = 0 THEN [s EXCEPT !.fil.fptr = 0] ELSE IF a.go THEN WalkedAt(v, to, a) ELSE a
  OBVIOUS
<1>5. PICK t : t = [e EXCEPT !.vol.res = "OK"]
  OBVIOUS
<1>6. \/ \E r : f_lseek(v, fp, ofs) = Refused(v, fp, r)
      \/ f_lseek(v, fp, ofs) \in {e, t}
  BY <1>1, <1>2, <1>3, <1>4, <1>5, ZenonT(40) DEF f_lseek, After, IfGo, WalkedAt, LandAt, HopAll
<1>7. FilPart(G, fp) /\ fp.objsize \in Nat
  BY Zenon DEF FilOK, FilPart
<1>8. to \in Nat
  BY <1>1, <1>7 DEF Min2
<1>9. Sits(G, s) /\ Serves(G, v, s.vol, ChainFields) /\ s.left = to /\ s.go
  <2>1. Begins(G, v, fp, to, s)
    BY <1>2, <1>7, TransferIs, Zenon
  <2> QED
    BY <2>1, Zenon DEF Begins
<1>10. EndsIn(G, s, e)
  <2>1. CASE to = 0
    <3>1. PICK z : z = 0
      OBVIOUS
    <3>2. PICK w : w = s.vol
      OBVIOUS
    <3>3. PICK l : l = s.left
      OBVIOUS
    <3>4. e = [s EXCEPT !.vol = w, !.fil.fptr = z, !.left = l]
      BY <1>4, <1>9, <2>1, <3>1, <3>2, <3>3, Zenon DEF Sits, IsSes, SesNames
    <3>5. Placed(s, e, w, z, l)
      BY <1>9, <3>4, PlaceSet, Zenon
    <3>6. Serves(G, s.vol, w, ChainFields)
      BY <1>9, <3>2, ServesStays, Zenon DEF Sits
    <3>7. z \in Nat
      BY <3>1
    <3>8. Held(G, s, e)
      BY <1>9, <3>5, <3>6, <3>7, PlacedIs, Zenon
    <3>9. e.fil.fptr = z /\ e.fil.objsize \in Nat
      BY <3>5, <3>8, Zenon DEF Placed, Held, FilPart
    <3>10. e.fil.fptr <= e.fil.objsize
      BY <3>1, <3>9
    <3> QED
      BY <3>8, <3>10, Zenon DEF EndsIn
  <2>2. CASE to # 0
    <3>1. to \in Nat \ {0}
      BY <1>8, <2>2
    <3>2. Held(G, s, a) /\ OnWay(a) /\ Sits(G, a)
      BY <1>3, <1>9, <3>1, SeekFromIs, HeldSits, Zenon
    <3>3. HasGeo(G, v)
      BY GoodIsVol, Zenon
    <3>4. EndsIn(G, a, WalkedAt(v, to, a))
      BY <1>8, <3>2, <3>3, WalkedIs, Zenon
    <3>5. ~a.go => EndsIn(G, s, a)
      BY <3>2, Zenon DEF OnWay, EndsIn
    <3> QED
      BY <1>4, <2>2, <3>2, <3>4, <3>5, EndsTwice, Zenon
  <2> QED
    BY <2>1, <2>2, Zenon
<1>11. IsSes(e) /\ Sits(G, e)
  BY <1>10, HeldSits, Zenon DEF EndsIn, Sits
<1>12. Calls(G, v, e)
  BY <1>9, <1>10, HeldCalls, Zenon DEF EndsIn
<1>13. Calls(G, v, t)
  <2>1. PICK w : w = Ok(e.vol)
    OBVIOUS
  <2>2. t = [e EXCEPT !.vol = w]
    BY <1>5, <1>11, <2>1, Zenon DEF Ok, IsSes, SesNames
  <2>3. t.vol = w /\ t.fil = e.fil
    BY <1>11, <2>2, Zenon DEF IsSes, SesNames
  <2>4. Serves(G, e.vol, w, ChainFields)
    BY <1>11, <2>1, ResServes, Zenon DEF Sits
  <2> QED
    BY <1>12, <2>3, <2>4, ServesTwice, Zenon DEF Calls
<1> QED
  BY <1>6, <1>12, <1>13, RefusedIs, Zenon

-----------------------------------------------------------------------------
(* Opening a file. *)

LEMMA ToOpenIs ==
  ASSUME NEW G, GeoOK(G), NEW p, Good(G, p), DpOK(G, p.dp), NEW mode,
         p.res = "OK" /\ ~p.dp.noname => Stands(G, p)
  PROVE  LET c == EntryToOpen(p, mode) IN Goes(G, p, c) /\ (c.res = "OK" => Stands(G, c))
<1>1. PICK c : c = EntryToOpen(p, mode)
  OBVIOUS
<1>2. PICK x : x = IF Creating(mode) THEN "DENIED" ELSE "NO_FILE"
  OBVIOUS
<1>3. x # "OK"
  BY <1>2
<1>4. \/ c = dir_register(p)
      \/ c = p /\ (p.res = "OK" => ~p.dp.noname)
      \/ \E r : r # "OK" /\ c = Failed(p, r)
  <2>1. "INVALID_NAME" # "OK" /\ "EXIST" # "OK"
    OBVIOUS
  <2> QED
    BY <1>1, <1>2, <1>3, <2>1, Zenon DEF EntryToOpen
<1>5. CASE c = dir_register(p)
  BY <1>1, <1>5, RegisterIs, WalksGoes, Zenon DEF Finds
<1>6. CASE c = p /\ (p.res = "OK" => ~p.dp.noname)
  BY <1>1, <1>6, GoesStays, Zenon
<1>7. CASE \E r : r # "OK" /\ c = Failed(p, r)
  <2>1. PICK r : r # "OK" /\ c = Failed(p, r)
    BY <1>7
  <2>2. Goes(G, p, Failed(p, r)) /\ Failed(p, r).res = r
    BY FailGoes
  <2> QED
    BY <1>1, <2>1, <2>2, Zenon
<1> QED
  BY <1>4, <1>5, <1>6, <1>7, Zenon

(* The last allocated cluster is set.                                      *)
LEMMA LastSet ==
  ASSUME NEW G, GeoOK(G), NEW v, Good(G, v), DpOK(G, v.dp), NEW k
  PROVE  LET w == [v EXCEPT !.last_clst = k] IN
         Goes(G, v, w) /\ w.dp = v.dp /\ w.res = v.res /\ w.winsect = v.winsect
<1>1. PICK w : w = [v EXCEPT !.last_clst = k]
  OBVIOUS
<1> DEFINE F == {"last_clst"}
<1>2. F \cap GeoFields = {} /\ F \cap {"disk", "fuel", "wflag", "win", "winsect"} = {} /\ F \subseteq DirFields
  BY Zenon DEF GeoFields, DirFields, ChainFields
<1>3. "free_clst" \notin F
  OBVIOUS
<1>4. Differ(v, w, F) /\ w.dp = v.dp /\ w.res = v.res /\ w.winsect = v.winsect
  BY <1>1, GoodIsVol, Zenon DEF IsVol, Differ, VolFields
<1> HIDE DEF F
<1>5. Unhurt(G, v, w, F)
  BY <1>2, <1>4, RegisterUnhurt, Zenon
<1>6. Serves(G, v, w, DirFields)
  BY <1>2, <1>3, <1>5, UnhurtServes, ServesMore, Zenon
<1> QED
  BY <1>1, <1>4, <1>6, Zenon DEF Goes

LEMMA EmptiedIs ==
  ASSUME NEW G, GeoOK(G), NEW v, Good(G, v), DpOK(G, v.dp), Stands(G, v), v.res = "OK"
  PROVE  LET w == Emptied(v) IN Goes(G, v, w) /\ (w.res = "OK" => Stands(G, w))
<1>1. PICK cl : cl = Entry(v).clust
  OBVIOUS
<1>2. PICK e : e = [name |-> Entry(v).name, attr |-> "file", clust |-> 0, size |-> 0]
  OBVIOUS
<1>3. PICK z : z = SetEntry(v, e)
  OBVIOUS
<1>4. PICK r : r = remove_chain(z, cl, 0)
  OBVIOUS
<1>5. PICK m : m = move_window(r, z.winsect)
  OBVIOUS
<1>6. PICK k : k = cl - 1
  OBVIOUS
<1>7. PICK w : w = [m EXCEPT !.last_clst = k]
  OBVIOUS
<1>8. Emptied(v) = z \/ (r.res # "OK" /\ Emptied(v) = r) \/ Emptied(v) = w
  BY <1>1, <1>2, <1>3, <1>4, <1>5, <1>6, <1>7 DEF Emptied, IfOk
<1>9. IsEntry(e)
  BY <1>2 DEF IsEntry
<1>10. Walks(G, v, z) /\ z.dp = v.dp /\ z.winsect = v.winsect
  BY <1>3, <1>9, EntrySet, Zenon DEF Stands
<1>11. Goes(G, v, z) /\ Good(G, z) /\ DpOK(G, z.dp) /\ Stands(G, z)
  BY <1>10, WalksGoes, WalksGood, Zenon DEF Stands
<1>12. Walks(G, z, r) /\ r.dp = z.dp
  BY <1>4, <1>11, ChainGoes, Zenon
<1>13. Goes(G, v, r) /\ Good(G, r) /\ DpOK(G, r.dp)
  BY <1>11, <1>12, WalksGoes, WalksGood, GoesTwice, Zenon
<1>14. Unhurt(G, r, m, WinFields) /\ (m.res = "OK" => m.winsect = z.winsect)
  BY <1>5, <1>13, MoveUnhurt, Zenon
<1>15. Walks(G, r, m) /\ m.dp = r.dp
  BY <1>13, <1>14, WinWalks, Zenon
<1>16. Goes(G, v, m) /\ Good(G, m) /\ DpOK(G, m.dp)
  BY <1>13, <1>15, WalksGoes, WalksGood, GoesTwice, Zenon
<1>17. Goes(G, m, w) /\ w.dp = m.dp /\ w.res = m.res /\ w.winsect = m.winsect
  BY <1>7, <1>16, LastSet
<1>18. Goes(G, v, w)
  BY <1>16, <1>17, GoesTwice, Zenon
<1>19. w.res = "OK" => Stands(G, w)
  BY <1>11, <1>12, <1>14, <1>15, <1>17, Zenon DEF Stands
<1> QED
  BY <1>8, <1>11, <1>13, <1>18, <1>19, Zenon

\* The loop of SeekEnd: n clusters on.
HopOn(i, h) ==
  After(get_fat(h, h.val), LAMBDA g :
    CASE g.val \in {0, 1} -> Failed(g, "INT_ERR")
      [] g.val = DISK     -> Failed(g, "DISK_ERR")
      [] OTHER            -> Ok(g))
EndAll(n, v) == For(n, HopOn, v)

HopEndStep(c, i, s)  == IF s.res = "OK" THEN HopOn(i, s) ELSE s
HopEndKeeps(c, i, s) == Serves(c.G, c.v, s, ChainFields)
HopEndLoop == INSTANCE Loops WITH Step <- HopEndStep, Keeps <- HopEndKeeps

LEMMA HopOnServes ==
  ASSUME NEW G, GeoOK(G), NEW v, Good(G, v), NEW i PROVE Serves(G, v, HopOn(i, v), ChainFields)
<1>1. PICK g : g = get_fat(v, v.val)
  OBVIOUS
<1>2. Serves(G, v, g, ChainFields) /\ Good(G, g)
  BY <1>1, GetIs, ReadingServes, Zenon DEF Unhurt
<1>3. HopOn(i, v) \in {Failed(g, "INT_ERR"), Failed(g, "DISK_ERR"), Ok(g)}
  <2>1. DISK \notin {0, 1}
    BY StatusApart, Zenon
  <2> QED
    BY <1>1, <2>1 DEF HopOn, After
<1> QED
  BY <1>2, <1>3, ResServes, ServesTwice, Zenon

LEMMA EndAllIs ==
  ASSUME NEW G, GeoOK(G), NEW v, Good(G, v), NEW n \in Nat
  PROVE  Serves(G, v, EndAll(n, v), ChainFields)
<1>1. PICK c : c = [G |-> G, v |-> v]
  OBVIOUS
<1>2. c.G = G /\ c.v = v
  BY <1>1
<1>3. HopEndKeeps(c, 0, v)
  BY <1>2, ServesStays, Zenon DEF HopEndKeeps
<1>4. ASSUME NEW i \in 1 .. n, NEW s, HopEndKeeps(c, i - 1, s)
      PROVE  HopEndKeeps(c, i, HopEndStep(c, i, s))
  <2>1. Serves(G, v, s, ChainFields)
    BY <1>2, <1>4, Zenon DEF HopEndKeeps
  <2>2. Good(G, s)
    BY <2>1, Zenon DEF Serves
  <2>3. Serves(G, s, HopOn(i, s), ChainFields)
    BY <2>2, HopOnServes, Zenon
  <2>4. HopEndStep(c, i, s) = s \/ HopEndStep(c, i, s) = HopOn(i, s)
    BY Zenon DEF HopEndStep
  <2> QED
    BY <1>2, <2>1, <2>3, <2>4, ServesTwice, Zenon DEF HopEndKeeps
<1>5. HopEndKeeps(c, n, HopEndLoop!Track(c, v, n)[n])
  BY <1>3, <1>4, HopEndLoop!LoopKeeps, AllNumbers, Zenon
<1>6. HopEndLoop!Track(c, v, n)[n] = EndAll(n, v)
  BY DEF HopEndLoop!Track, EndAll, For, HopEndStep
<1> QED
  BY <1>2, <1>5, <1>6, Zenon DEF HopEndKeeps

LEMMA SeekEndIs ==
  ASSUME NEW G, GeoOK(G), NEW v, Good(G, v), NEW fp, FilOK(G, fp)
  PROVE  LET r == SeekEnd(v, fp) IN Serves(G, v, r.vol, ChainFields) /\ FilOK(G, r.fil)
<1>1. PICK b : b = ClusterBytes(v)
  OBVIOUS
<1>2. PICK x : x = fp.objsize
  OBVIOUS
<1>3. PICK n : n = (x - 1) \div b
  OBVIOUS
<1>4. PICK ofs : ofs = x - n * b
  OBVIOUS
<1>5. PICK o : o = Returns(Ok(v), fp.sclust)
  OBVIOUS
<1>6. PICK w : w = EndAll(n, o)
  OBVIOUS
<1>7. PICK sect : sect = clst2sect(v, w.val) + ofs \div SS
  BY Zenon
<1>8. PICK f : f = [fp EXCEPT !.fptr = x, !.clust = w.val]
  BY Zenon
<1>9. PICK d : d = Bytes(v.disk[sect])
  BY Zenon
<1>10. PICK h : h = [f EXCEPT !.sect = sect, !.buf = d]
  OBVIOUS
<1>11. PICK r : r = SeekEnd(v, fp)
  OBVIOUS
<1>12. \/ r = [vol |-> Ok(v), fil |-> fp]
       \/ x # 0 /\ r = [vol |-> w, fil |-> f]
       \/ x # 0 /\ r = [vol |-> Failed(w, "INT_ERR"), fil |-> f]
       \/ x # 0 /\ IsCluster(v, w.val) /\ r = [vol |-> disk_read(w, sect), fil |-> h]
  BY <1>1, <1>2, <1>3, <1>4, <1>5, <1>6, <1>7, <1>8, <1>9, <1>10, <1>11 DEF SeekEnd, After, EndAll, HopOn
<1>13. FilPart(G, fp) /\ IsFil(fp) /\ x \in Nat
  BY <1>2, Zenon DEF FilOK, FilPart
<1>14. Serves(G, v, Ok(v), ChainFields) /\ Serves(G, v, o, ChainFields) /\ Good(G, o)
  <2>1. Serves(G, v, Ok(v), ChainFields) /\ Good(G, Ok(v))
    BY ResServes, Zenon DEF Serves
  <2>2. Serves(G, Ok(v), o, ChainFields)
    BY <1>5, <2>1, ValUnhurt, ReadingServes, Zenon
  <2> QED
    BY <2>1, <2>2, ServesTwice, Zenon DEF Serves
<1>15. ASSUME x # 0 PROVE n \in Nat /\ ofs \in Nat
  <2>1. PICK y : y = x - 1
    OBVIOUS
  <2>2. y \in Nat /\ b \in Nat \ {0} /\ n = y \div b
    BY <1>1, <1>3, <1>13, <1>15, <2>1, ClusterBytesIs
  <2>3. PICK q : q = y % b
    OBVIOUS
  <2>4. n \in Nat /\ q \in Nat /\ y = b * n + q
    BY <2>2, <2>3, DivMod
  <2>5. PICK z : z = b * n
    OBVIOUS
  <2>6. z \in Nat /\ n * b = z
    BY <2>2, <2>4, <2>5
  <2> QED
    BY <1>4, <1>13, <2>1, <2>4, <2>5, <2>6
<1>16. Same(fp, f, {"fptr", "clust"}) /\ f.fptr = x
  BY <1>8, <1>13, Zenon DEF Same, IsFil, FilNames
<1>17. /\ IsFil(f) /\ f.open = fp.open /\ f.objsize = x /\ f.fptr = x /\ f.sect = fp.sect
       /\ f.dir_sect = fp.dir_sect /\ f.dir_slot = fp.dir_slot
  BY <1>2, <1>16, Zenon DEF Same, FilNames
<1>18. FilOK(G, f)
  <2>1. FilPart(G, f)
    BY <1>13, <1>17, Zenon DEF FilPart
  <2>2. x <= x
    BY <1>13
  <2> QED
    BY <1>17, <2>1, <2>2, Zenon DEF FilOK
<1>19. ASSUME x # 0 PROVE Serves(G, v, w, ChainFields) /\ Good(G, w)
  <2>1. Serves(G, o, w, ChainFields)
    BY <1>6, <1>14, <1>15, <1>19, EndAllIs, ZenonT(40)
  <2> QED
    BY <1>14, <2>1, ServesTwice, Zenon DEF Serves
<1>20. ASSUME x # 0, IsCluster(v, w.val) PROVE FilOK(G, h)
  <2>1. PICK k : k = clst2sect(v, w.val)
    OBVIOUS
  <2>2. Beyond(G, k)
    BY <1>20, <2>1, GoodIsVol, ClusterSector, Zenon
  <2>3. PICK j : j = ofs \div SS
    OBVIOUS
  <2>4. j \in Nat
    BY <1>15, <1>20, <2>3, SectorAssumption, DivMod
  <2>5. Beyond(G, k + j)
    BY <2>2, <2>4, BeyondMore
  <2>6. Beyond(G, sect)
    BY <1>7, <2>1, <2>3, <2>5, Zenon
  <2>7. Same(f, h, {"sect", "buf"}) /\ h.sect = sect
    BY <1>10, <1>17, Zenon DEF Same, IsFil, FilNames
  <2>8. /\ IsFil(h) /\ h.open = f.open /\ h.objsize = f.objsize /\ h.fptr = f.fptr
        /\ h.dir_sect = f.dir_sect /\ h.dir_slot = f.dir_slot /\ h.err = f.err
    BY <2>7, Zenon DEF Same, FilNames
  <2> QED
    BY <1>18, <2>6, <2>7, <2>8, Zenon DEF FilOK, FilPart
<1>21. \/ r.vol = Ok(v) /\ r.fil = fp
       \/ x # 0 /\ r.vol = w /\ r.fil = f
       \/ x # 0 /\ r.vol = Failed(w, "INT_ERR") /\ r.fil = f
       \/ x # 0 /\ IsCluster(v, w.val) /\ r.vol = disk_read(w, sect) /\ r.fil = h
  BY <1>12
<1>22. x # 0 => Serves(G, v, Failed(w, "INT_ERR"), ChainFields) /\ Serves(G, v, disk_read(w, sect), ChainFields)
  BY <1>19, ResServes, DiskServes, ServesTwice, Zenon
<1>23. Serves(G, v, r.vol, ChainFields) /\ FilOK(G, r.fil)
  BY <1>14, <1>18, <1>19, <1>20, <1>21, <1>22, Zenon
<1> QED
  BY <1>11, <1>23, Zenon

(* A call that opens a file.                                               *)
OpenEnds(G, v, r) ==
  /\ Leaves(G, v, r.vol)
  /\ r.fil = Closed \/ (FilOK(G, r.fil) /\ r.vol.state = "mounted")

LEMMA OpenIs ==
  ASSUME NEW G, GeoOK(G), Fresh(G), NEW v, Good(G, v), DpOK(G, v.dp), NEW path \in Seq(STRING), NEW mode
  PROVE  OpenEnds(G, v, f_open(v, path, mode))
<1>1. PICK p : p = Located(v, path)
  OBVIOUS
<1>2. PICK c : c = EntryToOpen(p, mode)
  OBVIOUS
<1>3. PICK fresh : fresh = (Creating(mode) /\ (p.res # "OK" \/ "CREATE_ALWAYS" \in mode))
  OBVIOUS
<1>4. PICK e : e = IF c.res = "OK" THEN (IF fresh THEN Emptied(c) ELSE c) ELSE c
  OBVIOUS
<1>5. PICK flags : flags = (mode \cap FileFlags) \cup (IF fresh THEN {"MODIFIED"} ELSE {})
  OBVIOUS
<1>6. PICK f : f = [open |-> TRUE, path |-> path, err |-> "OK", flag |-> flags,
                    dir_sect |-> e.winsect, dir_slot |-> Slot(e.dp),
                    sclust |-> Entry(e).clust, objsize |-> Entry(e).size,
                    fptr |-> 0, clust |-> 0, sect |-> 0, buf |-> ZeroBuf]
  OBVIOUS
<1>7. PICK s : s = SeekEnd(e, f)
  OBVIOUS
<1>8. PICK t : t = [s EXCEPT !.fil = Closed]
  BY ZenonT(40)
<1>9. PICK r : r = f_open(v, path, mode)
  OBVIOUS
<1>10. \/ r = [vol |-> e, fil |-> Closed]
       \/ e.res = "OK" /\ r = [vol |-> e, fil |-> f]
       \/ e.res = "OK" /\ r = s
       \/ e.res = "OK" /\ r = t
  BY <1>1, <1>2, <1>3, <1>4, <1>5, <1>6, <1>7, <1>8, <1>9, ZenonT(40) DEF f_open, After, IfOk
<1>11. /\ Leaves(G, v, p) /\ (p.state = "mounted" \/ p.res \in {"NOT_ENABLED", "DISK_ERR"})
       /\ p.res = "OK" /\ ~p.dp.noname => Stands(G, p)
  BY <1>1, LocatedIs
<1>12. Good(G, p) /\ DpOK(G, p.dp)
  BY <1>11, Zenon DEF Leaves
<1>13. Goes(G, p, c) /\ (c.res = "OK" => Stands(G, c)) /\ Good(G, c) /\ DpOK(G, c.dp)
  <2>1. Goes(G, p, c) /\ (c.res = "OK" => Stands(G, c))
    BY <1>2, <1>11, <1>12, ToOpenIs
  <2> QED
    BY <2>1, GoesGood, Zenon
<1>14. Goes(G, c, e) /\ (e.res = "OK" => Stands(G, e)) /\ Good(G, e) /\ DpOK(G, e.dp)
  <2>1. Goes(G, c, c)
    BY <1>13, GoesStays, Zenon
  <2>2. c.res = "OK" => Goes(G, c, Emptied(c)) /\ (Emptied(c).res = "OK" => Stands(G, Emptied(c)))
    BY <1>13, EmptiedIs, Zenon
  <2>3. Goes(G, c, e) /\ (e.res = "OK" => Stands(G, e))
    BY <1>4, <1>13, <2>1, <2>2, Zenon
  <2> QED
    BY <2>3, GoesGood, Zenon
<1>15. Goes(G, p, e)
  BY <1>13, <1>14, GoesTwice, Zenon
<1>16. CASE p.state # "mounted"
  <2>1. p.res \notin {"OK", "NO_FILE"}
    BY <1>11, <1>16
  <2>2. c = p /\ e = p
    BY <1>2, <1>4, <2>1 DEF EntryToOpen
  <2>3. r = [vol |-> e, fil |-> Closed]
    BY <1>10, <2>1, <2>2
  <2>4. r.vol = p /\ r.fil = Closed
    BY <2>2, <2>3
  <2> QED
    BY <1>9, <1>11, <2>4, Zenon DEF OpenEnds
<1>17. CASE p.state = "mounted"
  <2>1. Leaves(G, v, e) /\ e.state = "mounted"
    BY <1>11, <1>15, <1>17, GoesLeaves, LeavesTwice, Zenon
  <2>2. ASSUME e.res = "OK" PROVE FilOK(G, f)
    <3>1. IsEntry(Entry(e)) /\ Slot(e.dp) \in Slots
      BY <1>14, EntryGood, Zenon
    <3>2. PICK z : z = Entry(e).size
      OBVIOUS
    <3>3. z \in Nat
      BY <3>1, <3>2, Zenon DEF IsEntry
    <3>4. PICK i : i = Slot(e.dp)
      OBVIOUS
    <3>5. PICK k : k = Entry(e).clust
      OBVIOUS
    <3>6. PICK ws : ws = e.winsect
      OBVIOUS
    <3>7. Beyond(G, ws)
      BY <1>14, <2>2, <3>6, Zenon DEF Stands
    <3>8. f = [open |-> TRUE, path |-> path, err |-> "OK", flag |-> flags,
               dir_sect |-> ws, dir_slot |-> i, sclust |-> k, objsize |-> z,
               fptr |-> 0, clust |-> 0, sect |-> 0, buf |-> ZeroBuf]
      BY <1>6, <3>2, <3>4, <3>5, <3>6
    <3>9. /\ f.open = TRUE /\ f.objsize = z /\ f.fptr = 0 /\ f.sect = 0
          /\ f.dir_sect = ws /\ f.dir_slot = i
      BY <3>8
    <3>10. IsFil(f)
      BY <3>8 DEF IsFil, FilNames
    <3>11. 0 \in Nat /\ 0 <= z
      BY <3>3
    <3> QED
      BY <3>1, <3>3, <3>4, <3>7, <3>9, <3>10, <3>11, Zenon DEF FilOK, FilPart
  <2>3. ASSUME e.res = "OK" PROVE Serves(G, e, s.vol, ChainFields) /\ FilOK(G, s.fil)
    BY <1>7, <1>14, <2>2, <2>3, SeekEndIs
  <2>4. ASSUME e.res = "OK" PROVE Leaves(G, v, s.vol) /\ s.vol.state = "mounted"
    <3>1. Goes(G, e, s.vol)
      BY <1>14, <2>3, <2>4, ServesWalks, WalksGoes, Zenon
    <3> QED
      BY <2>1, <3>1, GoesLeaves, LeavesTwice, Zenon
  <2>5. \/ r.vol = e /\ r.fil = Closed
        \/ e.res = "OK" /\ r.vol = e /\ r.fil = f
        \/ e.res = "OK" /\ r.vol = s.vol /\ r.fil = s.fil
        \/ e.res = "OK" /\ r.vol = s.vol /\ r.fil = Closed
    <3>1. t.vol = s.vol /\ t.fil = Closed
      <4>1. \E a, b : s = [vol |-> a, fil |-> b]
        BY <1>7 DEF SeekEnd, After
      <4> QED
        BY <1>8, <4>1
    <3> QED
      BY <1>10, <3>1
  <2> QED
    BY <1>9, <2>1, <2>2, <2>3, <2>4, <2>5, Zenon DEF OpenEnds
<1> QED
  BY <1>16, <1>17, Zenon

-----------------------------------------------------------------------------
(* The formatted volume. *)

LEMMA Small12 ==
  ASSUME NEW n \in Nat, n <= MAX_FAT12 + 2 PROVE n \in Bits12
BY DEF MAX_FAT12, Bits12

LEMMA WrapIs ==
  ASSUME NEW m \in Nat \ {0}, NEW x \in 0 .. m - 1
  PROVE  x % m = x /\ (x + m) % m = x /\ x \div m = 0
OBVIOUS

(* Where the parts of a formatted volume are.                              *)
RsvOf(g)  == IF g.fs_type = "FAT32" THEN 2 ELSE 1
RootOf(g) == (g.n_rootdir * SZDIRE) \div SS
DataOf(g) == RsvOf(g) + g.n_fats * FatLength(g) + RootOf(g)

FormattedSector(g, s) ==
  IF s < RsvOf(g) THEN IF s = 0 THEN DataSector(ZeroBuf) ELSE InfoSector(g.n_fatent - 3, 2)
  ELSE IF s < DataOf(g) - RootOf(g) THEN FirstFat(g, (s - RsvOf(g)) % FatLength(g))
  ELSE IF s < DataOf(g) \/ (g.fs_type = "FAT32" /\ s < DataOf(g) + g.csize) THEN ZeroSector
  ELSE DataSector(ZeroBuf)

LEMMA FormattedIs ==
  ASSUME NEW g
  PROVE  LET G == Formatted(g) IN
         /\ IsVol(G)
         /\ G.fs_type = g.fs_type /\ G.csize = g.csize /\ G.n_fats = g.n_fats
         /\ G.n_rootdir = g.n_rootdir /\ G.n_fatent = g.n_fatent /\ G.fsize = FatLength(g)
         /\ G.volbase = 0 /\ G.fatbase = RsvOf(g) /\ G.database = DataOf(g)
         /\ g.fs_type # "FAT32" => G.dirbase = DataOf(g) - RootOf(g)
         /\ G.state = "none" /\ G.win = DataSector(ZeroBuf) /\ G.winsect = NoSector
         /\ G.wflag = FALSE /\ G.fuel = NoFault /\ G.dp = RootDir
         /\ G.disk = [s \in 0 .. DataOf(g) + g.csize * (g.n_fatent - 2) - 1 |-> FormattedSector(g, s)]
<1> DEFINE nrsv  == IF g.fs_type = "FAT32" THEN 2 ELSE 1
           fsize == FatLength(g)
           root  == (g.n_rootdir * SZDIRE) \div SS
           data  == nrsv + g.n_fats * fsize + root
           dsk   == [s \in 0 .. data + g.csize * (g.n_fatent - 2) - 1 |->
                       IF s < nrsv THEN IF s = 0 THEN DataSector(ZeroBuf) ELSE InfoSector(g.n_fatent - 3, 2)
                       ELSE IF s < data - root THEN FirstFat(g, (s - nrsv) % fsize)
                       ELSE IF s < data \/ (g.fs_type = "FAT32" /\ s < data + g.csize) THEN ZeroSector
                       ELSE DataSector(ZeroBuf)]
           base  == IF g.fs_type = "FAT32" THEN 2 ELSE data - root
<1>1. dsk = [s \in 0 .. DataOf(g) + g.csize * (g.n_fatent - 2) - 1 |-> FormattedSector(g, s)]
  BY Zenon DEF FormattedSector, RsvOf, RootOf, DataOf
<1>2. nrsv = RsvOf(g) /\ data = DataOf(g) /\ (g.fs_type # "FAT32" => base = DataOf(g) - RootOf(g))
  BY Zenon DEF RsvOf, RootOf, DataOf
<1>3. Formatted(g) =
        [fs_type |-> g.fs_type, csize |-> g.csize, n_fats |-> g.n_fats, n_rootdir |-> g.n_rootdir,
         n_fatent |-> g.n_fatent, fsize |-> fsize, volbase |-> 0, fatbase |-> nrsv,
         dirbase |-> base, database |-> data,
         state |-> "none", win |-> DataSector(ZeroBuf), winsect |-> NoSector, wflag |-> FALSE,
         free_clst |-> UNKNOWN, last_clst |-> UNKNOWN, fsi_flag |-> 0, disk |-> dsk,
         res |-> "OK", val |-> 0, fuel |-> NoFault, cut |-> FALSE, dp |-> RootDir]
  BY Zenon DEF Formatted
<1> HIDE DEF nrsv, fsize, root, data, dsk, base
<1>4. PICK G : G = Formatted(g)
  OBVIOUS
<1>5. IsVol(G)
  BY <1>3, <1>4, Zenon DEF IsVol, VolFields
<1>6. /\ G.fs_type = g.fs_type /\ G.csize = g.csize /\ G.n_fats = g.n_fats
      /\ G.n_rootdir = g.n_rootdir /\ G.n_fatent = g.n_fatent /\ G.fsize = fsize
      /\ G.volbase = 0 /\ G.fatbase = nrsv /\ G.database = data /\ G.dirbase = base
  BY <1>3, <1>4
<1>7. /\ G.state = "none" /\ G.win = DataSector(ZeroBuf) /\ G.winsect = NoSector
      /\ G.wflag = FALSE /\ G.fuel = NoFault /\ G.dp = RootDir /\ G.disk = dsk
  BY <1>3, <1>4
<1>8. fsize = FatLength(g)
  BY DEF fsize
<1> QED
  BY <1>1, <1>2, <1>4, <1>5, <1>6, <1>7, <1>8, Zenon

LEMMA FormattedGeo ==
  ASSUME NEW g, Geometry(g)
  PROVE  /\ FatLength(g) \in Nat \ {0} /\ RootOf(g) \in Nat /\ RsvOf(g) \in {1, 2}
         /\ DataOf(g) \in Nat /\ DataOf(g) - RootOf(g) = Ends(Formatted(g))
         /\ GeoOK(Formatted(g))
<1>1. PICK G : G = Formatted(g)
  OBVIOUS
<1>2. /\ G.fs_type = g.fs_type /\ G.csize = g.csize /\ G.n_fats = g.n_fats
      /\ G.n_rootdir = g.n_rootdir /\ G.n_fatent = g.n_fatent /\ G.fsize = FatLength(g)
      /\ G.volbase = 0 /\ G.fatbase = RsvOf(g) /\ G.database = DataOf(g)
      /\ g.fs_type # "FAT32" => G.dirbase = DataOf(g) - RootOf(g)
      /\ DOMAIN G.disk = 0 .. DataOf(g) + g.csize * (g.n_fatent - 2) - 1
  BY <1>1, FormattedIs
<1>3. /\ g.fs_type \in {"FAT12", "FAT16", "FAT32"} /\ g.n_fats \in {1, 2}
      /\ g.csize \in Nat \ {0} /\ g.n_rootdir \in Nat /\ g.n_fatent \in Nat /\ g.n_fatent >= 3
      /\ g.fs_type = "FAT12" => g.n_fatent \in Bits12
  BY Small12 DEF Geometry
<1>4. Width(G) \in Nat \ {0} /\ LastCell(G) \in Nat
  <2>1. SS \in Nat \ {0} /\ SS % 4 = 0
    BY SectorAssumption
  <2>2. SS \div 4 \in Nat \ {0} /\ SS \div 2 \in Nat \ {0}
    BY <2>1
  <2> QED
    BY <1>2, <1>3, <2>1, <2>2 DEF Width, PerSector, LastCell, FirstByte
<1>5. FatLength(g) = LastCell(G) \div Width(G) + 1
  BY <1>2, <1>3 DEF Width, PerSector, LastCell, FatLength
<1>6. FatLength(g) \in Nat \ {0} /\ LastCell(G) \div Width(G) < FatLength(g)
  BY <1>4, <1>5, DivMod
<1>7. RootOf(g) \in Nat /\ RsvOf(g) \in {1, 2} /\ (g.fs_type = "FAT32" => RsvOf(g) = 2)
  <2>1. PICK p : p = g.n_rootdir * SZDIRE
    OBVIOUS
  <2>2. p \in Nat /\ SS \in Nat \ {0}
    BY <1>3, <2>1, SectorAssumption
  <2> QED
    BY <2>1, <2>2, DivMod DEF RootOf, RsvOf
<1>8. g.n_fats * FatLength(g) = IF g.n_fats = 2 THEN 2 * FatLength(g) ELSE FatLength(g)
  BY <1>3, <1>6
<1>9. DataOf(g) = Ends(G) + RootOf(g) /\ Ends(G) \in Nat
  BY <1>2, <1>6, <1>7, <1>8 DEF DataOf, Ends
<1>10. DataOf(g) \in Nat /\ DataOf(g) - RootOf(g) = Ends(G) /\ DataOf(g) >= Ends(G)
  BY <1>7, <1>9
<1>11. GeoOK(G)
  <2>1. G.database \in Nat /\ G.database >= Ends(G)
    BY <1>2, <1>10
  <2>2. G.fs_type # "FAT32" => G.dirbase = Ends(G)
    BY <1>2, <1>10, Zenon
  <2>3. Ends(G) \in Nat /\ Ends(G) >= Ends(G)
    BY <1>9
  <2>4. G.fatbase \in Nat /\ G.fatbase >= 1 /\ (G.fs_type = "FAT32" => G.fatbase >= 2)
    BY <1>2, <1>7
  <2>5. /\ G.fs_type \in {"FAT12", "FAT16", "FAT32"} /\ G.n_fats \in {1, 2}
        /\ G.csize \in Nat \ {0} /\ G.fsize \in Nat \ {0} /\ G.n_rootdir \in Nat
        /\ G.n_fatent \in Nat /\ G.n_fatent >= 3
        /\ G.fs_type = "FAT12" => G.n_fatent \in Bits12
    BY <1>2, <1>3, <1>6, Zenon
  <2>6. /\ DOMAIN G.disk = 0 .. G.database + G.csize * (G.n_fatent - 2) - 1
        /\ LastCell(G) \div Width(G) < G.fsize /\ G.volbase = 0
    BY <1>2, <1>6, Zenon
  <2> QED
    BY <2>1, <2>2, <2>3, <2>4, <2>5, <2>6, Zenon DEF GeoOK
<1> QED
  BY <1>1, <1>6, <1>7, <1>10, <1>11, Zenon

-----------------------------------------------------------------------------
(* The FAT of a formatted volume. *)

(* Cells of a row: the first are those of s, the others zero.              *)
Laid(s, n, m) == [i \in 0 .. m - 1 |-> IF n * m + i < Len(s) THEN s[n * m + i + 1] ELSE 0]

LEMMA LaidIs ==
  ASSUME NEW D, NEW z \in D, z = 0, NEW s \in Seq(D), NEW n \in Nat, NEW m \in Nat \ {0}
  PROVE  /\ Laid(s, n, m) \in [0 .. m - 1 -> D]
         /\ \A i \in 0 .. m - 1 :
              Laid(s, n, m)[i] = IF n * m + i < Len(s) THEN s[n * m + i + 1] ELSE 0
<1>1. PICK p : p = n * m
  OBVIOUS
<1>2. p \in Nat
  BY <1>1
<1>3. Laid(s, n, m) = [i \in 0 .. m - 1 |-> IF p + i < Len(s) THEN s[p + i + 1] ELSE z]
  BY <1>1, Zenon DEF Laid
<1>4. \A i \in 0 .. m - 1 : p + i \in Nat /\ (p + i < Len(s) => p + i + 1 \in 1 .. Len(s))
  BY <1>2
<1>5. \A i \in 0 .. m - 1 : p + i < Len(s) => s[p + i + 1] \in D
  BY <1>4
<1>6. Laid(s, n, m) \in [0 .. m - 1 -> D]
  BY <1>3, <1>5, Zenon
<1>7. \A i \in 0 .. m - 1 : Laid(s, n, m)[i] = IF p + i < Len(s) THEN s[p + i + 1] ELSE z
  BY <1>3, Zenon
<1> QED
  BY <1>1, <1>4, <1>6, <1>7, Zenon

(* The bytes or entries that are taken.                                    *)
LEMMA TakenIs ==
  ASSUME NEW g, Geometry(g)
  PROVE  \E s \in Seq(CellType(g)) :
           /\ g.fs_type # "FAT12" => Len(s) = (IF g.fs_type = "FAT32" THEN 3 ELSE 2)
           /\ g.fs_type # "FAT12" => \A k \in 1 .. Len(s) : s[k] # 0
           /\ \A n : FirstFat(g, n) = FatSector(Laid(s, n, Width(g)))
<1>1. CASE g.fs_type = "FAT12"
  <2>1. PICK s : s = <<248, 255, 255>>
    OBVIOUS
  <2>2. s \in Seq(Byte)
    BY <2>1 DEF Byte
  <2>3. \A n : FirstFat(g, n) = FatSector(Laid(s, n, Width(g)))
    BY <1>1, <2>1 DEF FirstFat, Laid, Width
  <2> QED
    BY <1>1, <2>2, <2>3, Zenon DEF CellType
<1>2. CASE g.fs_type = "FAT16"
  <2>1. \E x, y \in Nat \ {0} : x = 65528 /\ y = 65535
    OBVIOUS
  <2>5. PICK x \in Nat \ {0}, y \in Nat \ {0} : x = 65528 /\ y = 65535
    BY <2>1
  <2>6. PICK s : s = <<x, y>>
    OBVIOUS
  <2>2. s \in Seq(Nat) /\ Len(s) = 2 /\ \A k \in 1 .. 2 : s[k] # 0
    BY <2>6
  <2>3. \A n : FirstFat(g, n) = FatSector(Laid(s, n, Width(g)))
    BY <1>2, <2>5, <2>6 DEF FirstFat, Laid, Width, PerSector
  <2>4. CellType(g) = Nat
    BY <1>2 DEF CellType
  <2> QED
    BY <1>2, <2>2, <2>3, <2>4
<1>3. CASE g.fs_type = "FAT32"
  <2>1. \E x, y \in Nat \ {0} : x = 268435448 /\ y = 268435455
    OBVIOUS
  <2>5. PICK x \in Nat \ {0}, y \in Nat \ {0} : x = 268435448 /\ y = 268435455
    BY <2>1
  <2>6. PICK s : s = <<x, y, y>>
    OBVIOUS
  <2>2. s \in Seq(Nat) /\ Len(s) = 3 /\ \A k \in 1 .. 3 : s[k] # 0
    BY <2>6
  <2>3. \A n : FirstFat(g, n) = FatSector(Laid(s, n, Width(g)))
    BY <1>3, <2>5, <2>6 DEF FirstFat, Laid, Width, PerSector
  <2>4. CellType(g) = Nat
    BY <1>3 DEF CellType
  <2> QED
    BY <1>3, <2>2, <2>3, <2>4
<1> QED
  BY <1>1, <1>2, <1>3, Zenon DEF Geometry

LEMMA OfGeo ==
  ASSUME NEW g
  PROVE  LET G == Formatted(g) IN
         Width(G) = Width(g) /\ CellType(G) = CellType(g) /\ Row(G) = Row(g)
<1>1. Formatted(g).fs_type = g.fs_type
  BY FormattedIs, Zenon
<1> QED
  BY <1>1, Zenon DEF Width, CellType, Row, PerSector

(* A sector of the FAT.                                                    *)
LEMMA FirstFatIs ==
  ASSUME NEW g, Geometry(g), NEW n \in Nat
  PROVE  LET x == FirstFat(g, n) IN
         /\ IsFat(Formatted(g), x) /\ IsTable(x)
         /\ g.fs_type # "FAT12" =>
              \A k \in Nat : k \div Width(g) = n =>
                (x.body[k % Width(g)] = 0 <=> k >= (IF g.fs_type = "FAT32" THEN 3 ELSE 2))
<1>1. PICK s \in Seq(CellType(g)) :
           /\ g.fs_type # "FAT12" => Len(s) = (IF g.fs_type = "FAT32" THEN 3 ELSE 2)
           /\ g.fs_type # "FAT12" => \A k \in 1 .. Len(s) : s[k] # 0
           /\ \A j : FirstFat(g, j) = FatSector(Laid(s, j, Width(g)))
  BY TakenIs
<1>2. Width(g) \in Nat \ {0}
  <2>1. Width(Formatted(g)) \in Nat \ {0}
    BY FormattedGeo, WidthIs
  <2> QED
    BY <2>1, OfGeo, Zenon
<1>3. PICK z : z = 0
  OBVIOUS
<1>4. z \in CellType(g)
  BY <1>3 DEF CellType, Byte
<1>5. PICK m : m = Width(g)
  OBVIOUS
<1>6. /\ Laid(s, n, m) \in [0 .. m - 1 -> CellType(g)]
      /\ \A i \in 0 .. m - 1 :
           Laid(s, n, m)[i] = IF n * m + i < Len(s) THEN s[n * m + i + 1] ELSE 0
  <2>1. m \in Nat \ {0}
    BY <1>2, <1>5
  <2> QED
    BY <1>3, <1>4, <2>1, LaidIs, ZenonT(40)
<1>7. PICK x : x = FirstFat(g, n)
  OBVIOUS
<1>8. x = FatSector(Laid(s, n, m)) /\ x.body = Laid(s, n, m) /\ x.kind = "fat"
  BY <1>1, <1>5, <1>7 DEF FatSector
<1>9. Laid(s, n, m) \in Row(Formatted(g))
  BY <1>5, <1>6, OfGeo, Zenon DEF Row
<1>10. IsFat(Formatted(g), x)
  BY <1>8, <1>9, Zenon DEF IsFat
<1>11. IsTable(x)
  BY <1>8 DEF IsTable
<1>12. ASSUME g.fs_type # "FAT12", NEW k \in Nat, k \div m = n
       PROVE  x.body[k % m] = 0 <=> k >= (IF g.fs_type = "FAT32" THEN 3 ELSE 2)
  <2>1. m \in Nat \ {0}
    BY <1>2, <1>5
  <2>2. PICK i : i = k % m
    OBVIOUS
  <2>3. i \in 0 .. m - 1 /\ k = m * n + i
    BY <1>12, <2>1, <2>2, DivMod
  <2>4. m * n = n * m
    BY <2>1
  <2>5. Laid(s, n, m)[i] = IF k < Len(s) THEN s[k + 1] ELSE 0
    BY <1>6, <2>3, <2>4
  <2>6. Len(s) \in Nat /\ (k < Len(s) => k + 1 \in 1 .. Len(s))
    BY <1>1
  <2>7. k < Len(s) => s[k + 1] # 0
    BY <1>1, <1>12, <2>6
  <2>8. Laid(s, n, m)[i] = 0 <=> ~(k < Len(s))
    BY <2>5, <2>7
  <2>9. x.body[k % m] = 0 <=> ~(k < Len(s))
    BY <1>8, <2>2, <2>8, Zenon
  <2>10. k >= Len(s) <=> ~(k < Len(s))
    BY <2>6
  <2>11. Len(s) = IF g.fs_type = "FAT32" THEN 3 ELSE 2
    BY <1>1, <1>12, Zenon
  <2> QED
    BY <2>9, <2>10, <2>11
<1> QED
  BY <1>5, <1>7, <1>10, <1>11, <1>12

(* The sectors of a formatted volume.                                      *)
LEMMA SectorsAre ==
  ASSUME NEW g, Geometry(g)
  PROVE  LET G == Formatted(g) IN
         /\ \A s \in Fats(G) : G.disk[s] = FirstFat(g, (s - G.fatbase) % G.fsize)
         /\ \A s \in DOMAIN G.disk \ Fats(G) : IsTable(G.disk[s])
         /\ g.fs_type = "FAT32" => G.disk[1] = InfoSector(g.n_fatent - 3, 2)
<1>1. PICK G : G = Formatted(g)
  OBVIOUS
<1>2. /\ G.fsize = FatLength(g) /\ G.fatbase = RsvOf(g) /\ G.fs_type = g.fs_type
      /\ G.disk = [s \in 0 .. DataOf(g) + g.csize * (g.n_fatent - 2) - 1 |-> FormattedSector(g, s)]
  BY <1>1, FormattedIs
<1>3. /\ RsvOf(g) \in {1, 2} /\ DataOf(g) - RootOf(g) = Ends(G) /\ GeoOK(G)
      /\ DataOf(g) \in Nat /\ RootOf(g) \in Nat
  BY <1>1, FormattedGeo, Zenon
<1>4. Fats(G) \subseteq DOMAIN G.disk /\ (G.fs_type = "FAT32" => 1 \in DOMAIN G.disk)
  BY <1>3, FatsIn, Zenon
<1>5. \A s \in DOMAIN G.disk : G.disk[s] = FormattedSector(g, s) /\ s \in Nat
  BY <1>2
<1>6. Ends(G) \in Nat
  <2>1. G.fatbase \in Nat /\ G.fsize \in Nat \ {0}
    BY <1>3 DEF GeoOK
  <2> QED
    BY <2>1 DEF Ends
<1>7. \A s \in Fats(G) : s \in Int /\ ~(s < RsvOf(g)) /\ s < DataOf(g) - RootOf(g)
  BY <1>2, <1>3, <1>6 DEF Fats
<1>8. \A s \in Fats(G) : G.disk[s] = FirstFat(g, (s - G.fatbase) % G.fsize)
  BY <1>2, <1>4, <1>5, <1>7, Zenon DEF FormattedSector
<1>9. ASSUME NEW s \in DOMAIN G.disk \ Fats(G) PROVE IsTable(G.disk[s])
  <2>1. s < RsvOf(g) \/ ~(s < DataOf(g) - RootOf(g))
    BY <1>2, <1>3, <1>5, <1>6, <1>9 DEF Fats
  <2>2. \/ G.disk[s] = DataSector(ZeroBuf) \/ G.disk[s] = InfoSector(g.n_fatent - 3, 2)
        \/ G.disk[s] = ZeroSector
    BY <1>5, <2>1, Zenon DEF FormattedSector
  <2>3. IsTable(DataSector(ZeroBuf)) /\ IsTable(InfoSector(g.n_fatent - 3, 2))
    BY DEF IsTable, DataSector, InfoSector
  <2>4. IsTable(ZeroSector)
    <3>1. IsEntry(EndEntry)
      BY DEF IsEntry, EndEntry
    <3>2. PICK b : b = [i \in Slots |-> EndEntry]
      OBVIOUS
    <3>3. ZeroSector = DirSector(b) /\ ZeroSector.body = b
      BY <3>2 DEF ZeroSector, DirSector
    <3>4. b = [i \in Slots |-> b[i]] /\ \A i \in Slots : IsEntry(b[i])
      BY <3>1, <3>2, Zenon
    <3> QED
      BY <3>3, <3>4, Zenon DEF IsTable
  <2> QED
    BY <2>2, <2>3, <2>4, Zenon
<1>10. g.fs_type = "FAT32" => G.disk[1] = InfoSector(g.n_fatent - 3, 2)
  <2>1. g.fs_type = "FAT32" => 1 \in DOMAIN G.disk /\ RsvOf(g) = 2
    BY <1>2, <1>4 DEF RsvOf
  <2>2. PICK q : q = 1
    OBVIOUS
  <2>3. g.fs_type = "FAT32" => G.disk[q] = FormattedSector(g, q) /\ q < RsvOf(g) /\ q # 0
    BY <1>5, <2>1, <2>2
  <2>4. g.fs_type = "FAT32" => G.disk[q] = InfoSector(g.n_fatent - 3, 2)
    BY <2>3, Zenon DEF FormattedSector
  <2> QED
    BY <2>2, <2>4
<1> QED
  BY <1>1, <1>8, <1>9, <1>10, Zenon

LEMMA FormattedGood ==
  ASSUME NEW g, Geometry(g)
  PROVE  LET G == Formatted(g) IN Good(G, G) /\ Mirror(G, G)
<1>1. PICK G : G = Formatted(g)
  OBVIOUS
<1>2. GeoOK(G) /\ IsVol(G) /\ G.fs_type = g.fs_type
  BY <1>1, FormattedGeo, FormattedIs, Zenon
<1>3. /\ \A s \in Fats(G) : G.disk[s] = FirstFat(g, (s - G.fatbase) % G.fsize)
      /\ \A s \in DOMAIN G.disk \ Fats(G) : IsTable(G.disk[s])
  BY <1>1, SectorsAre, Zenon
<1>4. HasGeo(G, G)
  BY <1>2, Zenon DEF HasGeo
<1>5. /\ G.fatbase \in Nat /\ G.fsize \in Nat \ {0} /\ G.n_fats \in {1, 2}
      /\ LastCell(G) \div Width(G) < G.fsize
  BY <1>2 DEF GeoOK
<1>6. \A s \in Fats(G) : (s - G.fatbase) % G.fsize \in Nat /\ s \in Int
  <2>1. Ends(G) \in Nat
    BY <1>5 DEF Ends
  <2>2. \A s \in Fats(G) : s \in Int /\ s - G.fatbase \in Nat
    BY <1>5, <2>1 DEF Fats
  <2> QED
    BY <1>5, <2>2, DivMod
<1>7. \A s \in Fats(G) : IsFat(G, G.disk[s]) /\ IsTable(G.disk[s])
  BY <1>1, <1>3, <1>6, FirstFatIs
<1>8. \A s \in Fat1(G) : s \in Fats(G) /\ (s - G.fatbase) % G.fsize = s - G.fatbase
  <2>1. \A s \in Fat1(G) : s - G.fatbase \in 0 .. G.fsize - 1
    BY <1>5 DEF Fat1
  <2> QED
    BY <1>2, <1>5, <2>1, WrapIs, FatsIn
<1>9. ASSUME NEW s \in Fat1(G) PROVE Reserved(G, s, G.disk[s])
  <2>1. SUFFICES ASSUME G.fs_type # "FAT12", NEW k \in {0, 1}, s = G.fatbase + k \div Width(G)
                 PROVE  G.disk[s].body[k % Width(G)] # 0
    BY Zenon DEF Reserved
  <2>2. Width(G) \in Nat \ {0} /\ Width(G) = Width(g) /\ k \in Nat
    BY <1>1, <1>2, <2>1, WidthIs, OfGeo
  <2>3. PICK n : n = k \div Width(G)
    OBVIOUS
  <2>4. n \in Nat
    BY <2>2, <2>3, DivMod
  <2>5. s - G.fatbase = n
    BY <1>5, <2>1, <2>3, <2>4
  <2>6. G.disk[s] = FirstFat(g, n)
    BY <1>3, <1>8, <2>5, Zenon
  <2>7. FirstFat(g, n).body[k % Width(g)] = 0 <=> k >= (IF g.fs_type = "FAT32" THEN 3 ELSE 2)
    BY <1>2, <2>1, <2>2, <2>3, <2>4, FirstFatIs
  <2>8. ~(k >= (IF g.fs_type = "FAT32" THEN 3 ELSE 2))
    BY <2>1
  <2> QED
    BY <2>2, <2>6, <2>7, <2>8, Zenon
<1>10. DiskOK(G, G)
  <2>1. \A s \in DOMAIN G.disk : IsTable(G.disk[s])
    BY <1>3, <1>7, Zenon
  <2> QED
    BY <1>7, <1>9, <2>1, Zenon DEF DiskOK, Content
<1>11. WindowOK(G, G)
  <2>1. G.winsect = NoSector /\ G.wflag = FALSE /\ G.win = DataSector(ZeroBuf)
    BY <1>1, FormattedIs, Zenon
  <2>2. NoSector \notin Fats(G) /\ NoSector \notin Fat1(G)
    BY <1>2, FatsIn, Zenon
  <2>3. IsTable(DataSector(ZeroBuf))
    BY DEF IsTable, DataSector
  <2> QED
    BY <2>1, <2>2, <2>3, Zenon DEF WindowOK, Content
<1>12. Mirror(G, G)
  <2>1. SUFFICES ASSUME G.n_fats = 2, NEW s \in Fat1(G) PROVE G.disk[s] = G.disk[s + G.fsize]
    BY Zenon DEF Mirror
  <2>2. s + G.fsize \in Fats(G) /\ s \in Fats(G)
    BY <1>2, <2>1, FatsIn, Zenon
  <2>3. PICK x : x = s - G.fatbase
    OBVIOUS
  <2>4. x \in 0 .. G.fsize - 1 /\ (s + G.fsize) - G.fatbase = x + G.fsize
    BY <1>5, <2>3 DEF Fat1
  <2>5. x % G.fsize = x /\ (x + G.fsize) % G.fsize = x
    BY <1>5, <2>4, WrapIs
  <2> QED
    BY <1>3, <2>2, <2>3, <2>4, <2>5, Zenon
<1> QED
  BY <1>1, <1>4, <1>10, <1>11, <1>12, Zenon DEF Good

LEMMA FormattedFresh ==
  ASSUME NEW g, Geometry(g) PROVE Fresh(Formatted(g))
<1>1. PICK G : G = Formatted(g)
  OBVIOUS
<1>2. /\ GeoOK(G) /\ Good(G, G) /\ G.winsect = NoSector /\ G.fs_type = g.fs_type
      /\ G.n_fatent = g.n_fatent
  BY <1>1, FormattedGeo, FormattedGood, FormattedIs, Zenon
<1>3. ASSUME G.fs_type = "FAT32" PROVE G.disk[1].body[1] = Cardinality(FreeClusters(G))
  <2>1. G.n_fatent \in Nat /\ G.n_fatent >= 3
    BY <1>2 DEF GeoOK
  <2>2. \A c \in Clusters(G) : FatEntry(G, c) = 0 <=> c >= 3
    <3> SUFFICES ASSUME NEW c \in Clusters(G) PROVE FatEntry(G, c) = 0 <=> c >= 3
      OBVIOUS
    <3>1. c \in Nat /\ c <= LastCell(G)
      BY <1>3, <2>1 DEF Clusters, LastCell
    <3>2. Width(G) \in Nat \ {0} /\ Width(G) = Width(g) /\ LastCell(G) \in Nat /\ Width(G) = PerSector(G)
      BY <1>1, <1>2, <1>3, WidthIs, OfGeo DEF Width
    <3>3. PICK n : n = c \div Width(G)
      OBVIOUS
    <3>4. n \in Nat /\ n < G.fsize
      <4>1. n \in Nat /\ n <= LastCell(G) \div Width(G) /\ LastCell(G) \div Width(G) \in Nat
        BY <3>1, <3>2, <3>3, DivMod, DivOrder
      <4> QED
        BY <1>2, <4>1 DEF GeoOK
    <3>5. PICK s : s = G.fatbase + n
      OBVIOUS
    <3>6. G.fatbase \in Nat /\ G.fsize \in Nat \ {0}
      BY <1>2 DEF GeoOK
    <3>7. s \in Fat1(G) /\ s - G.fatbase = n
      BY <3>4, <3>5, <3>6 DEF Fat1
    <3>8. s \in Fats(G) /\ s # G.winsect
      BY <1>2, <3>7, FatsIn, Zenon
    <3>9. n % G.fsize = n
      BY <3>4, <3>6, WrapIs
    <3>10. G.disk[s] = FirstFat(g, n)
      BY <1>1, <3>7, <3>8, <3>9, SectorsAre
    <3>11. Seen(G, s) = FirstFat(g, n)
      BY <3>8, <3>10, Zenon DEF Seen
    <3>12. FatEntry(G, c) = FirstFat(g, n).body[c % Width(g)]
      <4>1. FatEntry(G, c) = Seen(G, G.fatbase + c \div PerSector(G)).body[c % PerSector(G)]
        BY <1>3 DEF FatEntry
      <4> QED
        BY <3>2, <3>3, <3>5, <3>11, <4>1, Zenon
    <3>13. FirstFat(g, n).body[c % Width(g)] = 0 <=> c >= (IF g.fs_type = "FAT32" THEN 3 ELSE 2)
      BY <1>2, <1>3, <3>1, <3>2, <3>3, <3>4, FirstFatIs
    <3> QED
      BY <1>2, <1>3, <3>12, <3>13, Zenon
  <2>3. FreeClusters(G) = 3 .. G.n_fatent - 1
    BY <2>1, <2>2 DEF FreeClusters, Clusters
  <2>4. Cardinality(3 .. G.n_fatent - 1) = G.n_fatent - 3
    BY <2>1, FS_Interval
  <2>5. G.disk[1] = InfoSector(g.n_fatent - 3, 2)
    BY <1>1, <1>2, <1>3, SectorsAre
  <2>6. G.disk[1].body[1] = g.n_fatent - 3
    BY <2>5 DEF InfoSector
  <2> QED
    BY <1>2, <2>3, <2>4, <2>6
<1> QED
  BY <1>1, <1>2, <1>3, Zenon DEF Fresh

-----------------------------------------------------------------------------
(* Between calls. *)

ListingNames == {"open", "path", "dp", "seen", "done", "due"}
IsListing(d) == d = [x \in ListingNames |-> d[x]] /\ d.open = TRUE

(* What is open is sound, and nothing is open unless v is mounted.         *)
Fine(G, v, fs, d) ==
  /\ fs = [h \in Handles |-> fs[h]]
  /\ \A h \in Handles : fs[h] = Closed \/ (FilOK(G, fs[h]) /\ v.state = "mounted")
  /\ d = NoDir \/ (IsListing(d) /\ DpOK(G, d.dp) /\ v.state = "mounted")

(* A program that unmounts a volume whose FSInfo sector need not be up to  *)
(* date.                                                                   *)
Remounts(s) == s.geo.fs_type = "FAT32" /\ "f_unmount" \in s.calls

(* What holds of the volume without faults.                                *)
Spared(G, s, v) ==
  s.faults = 0 => Mirror(G, v) /\ (~Remounts(s) => Accurate(G, v))

Sane ==
  LET G == Formatted(setup.geo) IN
  /\ setup \in Setups /\ faults \in Nat
  /\ Good(G, vol) /\ Quiet(vol) /\ DpOK(G, vol.dp)
  /\ Spared(G, setup, vol)
  /\ Fine(G, vol, files, dir)

LEMMA FineStays ==
  ASSUME NEW G, NEW v, NEW fs, NEW d, Fine(G, v, fs, d), NEW w,
         v.state = "mounted" => w.state = "mounted"
  PROVE  Fine(G, w, fs, d)
BY Zenon DEF Fine

LEMMA SetupIs ==
  ASSUME setup \in Setups
  PROVE  /\ GeoOK(Formatted(setup.geo)) /\ Fresh(Formatted(setup.geo))
         /\ setup.handles \subseteq Handles /\ \A p \in setup.paths : p \in Seq(STRING)
         /\ setup.counts \subseteq Nat /\ setup.seeks \subseteq Nat /\ setup.faults \in Nat
<1>1. Geometry(setup.geo)
  BY SetupAssumption, Zenon
<1>2. GeoOK(Formatted(setup.geo)) /\ Fresh(Formatted(setup.geo))
  BY <1>1, FormattedGeo, FormattedFresh, Zenon
<1> QED
  BY <1>2, SetupAssumption, Zenon

LEMMA RootIs ==
  ASSUME NEW G PROVE DpOK(G, RootDir)
<1>1. IsDp(RootDir)
  BY Zenon DEF IsDp, DpNames, RootDir
<1>2. RootDir.dptr = 0 /\ RootDir.sect = 0
  BY DEF RootDir
<1> QED
  BY <1>1, <1>2 DEF DpOK

LEMMA InitSane == Init => Sane
<1> SUFFICES ASSUME Init PROVE Sane
  OBVIOUS
<1>1. PICK G : G = Formatted(setup.geo)
  OBVIOUS
<1>2. setup \in Setups /\ vol = G /\ files = [h \in Handles |-> Closed] /\ dir = NoDir /\ faults = 0
  BY <1>1, Zenon DEF Init
<1>3. Geometry(setup.geo)
  BY <1>2, SetupAssumption, Zenon
<1>4. Good(G, G) /\ Mirror(G, G) /\ G.fuel = NoFault /\ G.dp = RootDir /\ G.state = "none"
  BY <1>1, <1>3, FormattedGood, FormattedIs, Zenon
<1>5. Accurate(G, G)
  BY <1>4 DEF Accurate
<1>6. Spared(G, setup, vol) /\ Quiet(vol) /\ DpOK(G, vol.dp)
  BY <1>2, <1>4, <1>5, RootIs, Zenon DEF Spared, Quiet
<1>7. Fine(G, vol, files, dir)
  BY <1>2, Zenon DEF Fine
<1>8. faults \in Nat
  BY <1>2
<1> QED
  BY <1>1, <1>2, <1>4, <1>6, <1>7, <1>8, Zenon DEF Sane

(* What the FAT looks like and the count depend on the disk and the window.*)
LEMMA SameHeldIs ==
  ASSUME NEW G, NEW v, Good(G, v), NEW w, NEW F, Differ(v, w, F), F \cap GeoFields = {},
         F \cap {"disk", "wflag", "win", "winsect"} = {}
  PROVE  /\ Good(G, w) /\ (Mirror(G, v) => Mirror(G, w))
         /\ "free_clst" \notin F => (Exact(v) => Exact(w))
         /\ w.disk = v.disk
<1>1. w.disk = v.disk /\ w.wflag = v.wflag /\ w.win = v.win /\ w.winsect = v.winsect
  BY Zenon DEF Differ, VolFields
<1>2. HasGeo(G, w)
  BY <1>1, GeoStays, Zenon DEF Good
<1>3. DiskOK(G, w) /\ WindowOK(G, w)
  BY <1>1, Zenon DEF Good, DiskOK, WindowOK
<1>4. Good(G, w) /\ FatSame(G, v, w) /\ (Mirror(G, v) => Mirror(G, w))
  BY <1>1, <1>2, <1>3, Zenon DEF Good, FatSame, Seen, Mirror
<1>5. ASSUME "free_clst" \notin F PROVE Exact(v) => Exact(w)
  <2>1. w.free_clst = v.free_clst
    BY <1>5, Zenon DEF Differ, VolFields
  <2>2. HasGeo(G, v) /\ HasGeo(G, w)
    BY <1>2, Zenon DEF Good
  <2>3. \A s : Seen(w, s) = Seen(v, s)
    BY <1>1, Zenon DEF Seen
  <2>4. w.fs_type = v.fs_type /\ w.fatbase = v.fatbase /\ w.n_fatent = v.n_fatent
    BY <2>2, GeoIs
  <2>5. FreeClusters(w) = FreeClusters(v)
    BY <2>3, <2>4, Zenon DEF FreeClusters, Clusters, FatEntry, PerSector
  <2> QED
    BY <2>1, <2>4, <2>5, Zenon DEF Exact, CountKnown
<1> QED
  BY <1>1, <1>4, <1>5, Zenon

(* The volume a call begins with.                                          *)
LEMMA ArmedIs ==
  ASSUME Sane, NEW f \in FaultsNow
  PROVE  LET G == Formatted(setup.geo)
             a == Armed(f)
         IN  /\ Good(G, a) /\ DpOK(G, a.dp) /\ a.state = vol.state
             /\ Spared(G, setup, a) /\ (setup.faults = 0 => Quiet(a))
             /\ setup.faults = 0 => f = NoFaultAtAll
<1>1. PICK G : G = Formatted(setup.geo)
  OBVIOUS
<1>2. PICK a : a = Armed(f)
  OBVIOUS
<1>3. Good(G, vol) /\ DpOK(G, vol.dp) /\ Spared(G, setup, vol) /\ IsVol(vol) /\ faults \in Nat
  BY <1>1, GoodIsVol, Zenon DEF Sane
<1> DEFINE F == {"fuel", "cut"}
<1>4. Differ(vol, a, F) /\ a.fuel = f.fuel
  BY <1>2, <1>3, Zenon DEF Armed, IsVol, Differ, VolFields
<1>5. a.dp = vol.dp /\ a.state = vol.state
  BY <1>4, Zenon DEF Differ, VolFields
<1>6. F \cap GeoFields = {} /\ F \cap {"disk", "wflag", "win", "winsect"} = {} /\ "free_clst" \notin F
  BY Zenon DEF GeoFields
<1> HIDE DEF F
<1>7. Good(G, a) /\ (Mirror(G, vol) => Mirror(G, a)) /\ (Exact(vol) => Exact(a)) /\ a.disk = vol.disk
  BY <1>3, <1>4, <1>6, SameHeldIs, Zenon
<1>8. Spared(G, setup, a)
  BY <1>3, <1>5, <1>7, Zenon DEF Spared, Accurate
<1>9. setup.faults = 0 => f = NoFaultAtAll
  <2>1. setup.faults = 0 => ~(faults < setup.faults)
    BY <1>3
  <2> QED
    BY <2>1, Zenon DEF FaultsNow
<1>10. setup.faults = 0 => Quiet(a)
  <2>1. NoFaultAtAll.fuel = NoFault
    BY DEF NoFaultAtAll
  <2> QED
    BY <1>4, <1>9, <2>1, Zenon DEF Quiet
<1> QED
  BY <1>1, <1>2, <1>3, <1>5, <1>7, <1>8, <1>9, <1>10, Zenon

LEMMA SettledIs ==
  ASSUME NEW G, NEW v, Good(G, v)
  PROVE  LET w == Settled(v) IN
         /\ Good(G, w) /\ Quiet(w) /\ DpOK(G, w.dp) /\ w.state = v.state /\ IsVol(w)
         /\ Mirror(G, v) => Mirror(G, w)
         /\ Accurate(G, v) => Accurate(G, w)
<1>1. PICK w : w = Settled(v)
  OBVIOUS
<1> DEFINE F == {"res", "val", "dp", "fuel", "cut"}
<1>2. IsVol(v)
  BY GoodIsVol, Zenon
<1>3. Differ(v, w, F) /\ w.fuel = NoFault /\ w.dp = RootDir
  BY <1>1, <1>2, Zenon DEF Settled, IsVol, Differ, VolFields
<1>4. w.state = v.state /\ IsVol(w)
  BY <1>3, Zenon DEF Differ, VolFields
<1>5. F \cap GeoFields = {} /\ F \cap {"disk", "wflag", "win", "winsect"} = {} /\ "free_clst" \notin F
  BY Zenon DEF GeoFields
<1> HIDE DEF F
<1>6. Good(G, w) /\ (Mirror(G, v) => Mirror(G, w)) /\ (Exact(v) => Exact(w)) /\ w.disk = v.disk
  BY <1>3, <1>5, SameHeldIs, Zenon
<1>7. Accurate(G, v) => Accurate(G, w)
  BY <1>4, <1>6, Zenon DEF Accurate
<1> QED
  BY <1>1, <1>3, <1>4, <1>6, <1>7, RootIs, Zenon DEF Quiet

(* After a loss of power or an unmount nothing is left but the disk.       *)
LEMMA RestartedIs ==
  ASSUME NEW G, GeoOK(G), NEW v, Good(G, v)
  PROVE  LET w == Restarted(v) IN
         /\ Good(G, w) /\ Quiet(w) /\ DpOK(G, w.dp) /\ w.state = "none"
         /\ Mirror(G, v) => Mirror(G, w)
<1>1. PICK u : u = Settled(v)
  OBVIOUS
<1>2. PICK w : w = Restarted(v)
  OBVIOUS
<1>3. Good(G, u) /\ Quiet(u) /\ DpOK(G, u.dp) /\ IsVol(u) /\ (Mirror(G, v) => Mirror(G, u))
  BY <1>1, SettledIs, Zenon
<1> DEFINE F == {"state", "win", "winsect", "wflag", "free_clst", "last_clst", "fsi_flag"}
<1>4. PICK x : x = DataSector(ZeroBuf)
  OBVIOUS
<1>5. w = [u EXCEPT !.state = "none", !.win = x, !.winsect = NoSector, !.wflag = FALSE,
                    !.free_clst = UNKNOWN, !.last_clst = UNKNOWN, !.fsi_flag = 0]
  BY <1>1, <1>2, <1>4, Zenon DEF Restarted
<1>6. /\ Differ(u, w, F) /\ w.state = "none" /\ w.win = x /\ w.winsect = NoSector /\ w.wflag = FALSE
  BY <1>3, <1>5, Zenon DEF IsVol, Differ, VolFields
<1>7. w.disk = u.disk /\ w.fuel = u.fuel /\ w.dp = u.dp
  BY <1>6, Zenon DEF Differ, VolFields
<1>8. F \cap GeoFields = {}
  BY Zenon DEF GeoFields
<1> HIDE DEF F
<1>9. HasGeo(G, w)
  BY <1>3, <1>6, <1>7, <1>8, GeoStays, Zenon DEF Good
<1>10. WindowOK(G, w)
  <2>1. NoSector \notin Fats(G) /\ NoSector \notin Fat1(G)
    BY FatsIn, Zenon
  <2>2. IsTable(x)
    BY <1>4 DEF IsTable, DataSector
  <2> QED
    BY <1>6, <2>1, <2>2, Zenon DEF WindowOK, Content
<1>11. DiskOK(G, w)
  BY <1>3, <1>7, Zenon DEF DiskOK, Good
<1> QED
  BY <1>2, <1>3, <1>6, <1>7, <1>9, <1>10, <1>11, Zenon DEF Good, Quiet, Mirror

(* What is left behind is sane.                                            *)
LEMMA ReturnedKeeps ==
  ASSUME Sane, NEW f \in FaultsNow, NEW v, NEW fs, NEW d,
         Good(Formatted(setup.geo), v), Spared(Formatted(setup.geo), setup, v),
         Fine(Formatted(setup.geo), v, fs, d), Returned(v, f, fs, d)
  PROVE  Sane'
<1>1. PICK G : G = Formatted(setup.geo)
  OBVIOUS
<1>2. setup \in Setups /\ faults \in Nat
  BY Zenon DEF Sane
<1>3. GeoOK(G)
  BY <1>1, <1>2, SetupIs, Zenon
<1>4. setup' = setup /\ faults' = IF f = NoFaultAtAll THEN faults ELSE faults + 1
  BY Zenon DEF Returned
<1>5. setup' \in Setups /\ faults' \in Nat /\ G = Formatted(setup'.geo)
  BY <1>1, <1>2, <1>4
<1>6. CASE f.cut
  <2>1. vol' = Restarted(v) /\ files' = [h \in Handles |-> Closed] /\ dir' = NoDir
    BY <1>6, Zenon DEF Returned
  <2>2. /\ Good(G, vol') /\ Quiet(vol') /\ DpOK(G, vol'.dp) /\ vol'.state = "none"
    BY <1>1, <1>3, <2>1, RestartedIs, Zenon
  <2>3. setup.faults # 0
    <3>1. ~NoFaultAtAll.cut
      BY DEF NoFaultAtAll
    <3> QED
      BY <1>6, <3>1, ArmedIs, Zenon
  <2>4. Spared(G, setup', vol')
    BY <1>4, <2>3, Zenon DEF Spared
  <2>5. Fine(G, vol', files', dir')
    BY <2>1, Zenon DEF Fine
  <2> QED
    BY <1>5, <2>2, <2>4, <2>5, Zenon DEF Sane, Quiet
<1>7. CASE ~f.cut
  <2>1. vol' = Settled(v) /\ files' = fs /\ dir' = d
    BY <1>7, Zenon DEF Returned
  <2>2. /\ Good(G, vol') /\ Quiet(vol') /\ DpOK(G, vol'.dp) /\ vol'.state = v.state
        /\ Mirror(G, v) => Mirror(G, vol')
        /\ Accurate(G, v) => Accurate(G, vol')
    BY <1>1, <2>1, SettledIs, Zenon
  <2>3. Spared(G, setup', vol')
    BY <1>1, <1>4, <2>2, Zenon DEF Spared
  <2>4. Fine(G, vol', files', dir')
    BY <1>1, <2>1, <2>2, Zenon DEF Fine
  <2> QED
    BY <1>5, <2>2, <2>3, <2>4, Zenon DEF Sane, Quiet
<1> QED
  BY <1>6, <1>7

(* A call that leaves v.                                                   *)
LEMMA LeavesSpared ==
  ASSUME Sane, NEW f \in FaultsNow, NEW v, Leaves(Formatted(setup.geo), Armed(f), v)
  PROVE  /\ Good(Formatted(setup.geo), v) /\ Spared(Formatted(setup.geo), setup, v)
         /\ vol.state = "mounted" => v.state = "mounted"
<1>1. PICK G : G = Formatted(setup.geo)
  OBVIOUS
<1>2. PICK a : a = Armed(f)
  OBVIOUS
<1>3. a.state = vol.state /\ Spared(G, setup, a) /\ (setup.faults = 0 => Quiet(a))
  BY <1>1, <1>2, ArmedIs, Zenon
<1>4. Leaves(G, a, v)
  BY <1>1, <1>2, Zenon
<1> QED
  BY <1>1, <1>3, <1>4, Zenon DEF Leaves, Spared, Calm

(* A call that changes nothing that is open.                               *)
LEMMA CallKeeps ==
  ASSUME Sane, NEW f \in FaultsNow, NEW v, Leaves(Formatted(setup.geo), Armed(f), v),
         Returned(v, f, files, dir)
  PROVE  Sane'
<1>1. /\ Good(Formatted(setup.geo), v) /\ Spared(Formatted(setup.geo), setup, v)
      /\ vol.state = "mounted" => v.state = "mounted"
  BY LeavesSpared, Zenon
<1>2. Fine(Formatted(setup.geo), v, files, dir)
  BY <1>1, FineStays, Zenon DEF Sane
<1> QED
  BY <1>1, <1>2, ReturnedKeeps, Zenon

(* f_mount, of a volume that is not.                                       *)
LEMMA MountCallIs ==
  ASSUME NEW G, GeoOK(G), Fresh(G), NEW v, Good(G, v), DpOK(G, v.dp), v.state = "none", NEW now
  PROVE  Leaves(G, v, f_mount(v, now))
<1>1. PICK r : r = [v EXCEPT !.state = "registered"]
  OBVIOUS
<1>2. PICK w : w = f_mount(v, now)
  OBVIOUS
<1> DEFINE F == {"state"}
<1>3. IsVol(v)
  BY GoodIsVol, Zenon
<1>4. Differ(v, r, F) /\ r.state = "registered" /\ r.dp = v.dp /\ r.fuel = v.fuel
  BY <1>1, <1>3, Zenon DEF IsVol, Differ, VolFields
<1>5. F \cap GeoFields = {} /\ F \cap {"disk", "wflag", "win", "winsect"} = {}
  BY Zenon DEF GeoFields
<1> HIDE DEF F
<1>6. Good(G, r) /\ (Mirror(G, v) => Mirror(G, r)) /\ r.disk = v.disk
  BY <1>4, <1>5, SameHeldIs, Zenon
<1>7. "registered" # "mounted" /\ "none" # "mounted"
  OBVIOUS
<1>8. Leaves(G, v, r)
  BY <1>4, <1>6, <1>7, Zenon DEF Leaves, Calm, Quiet, Accurate
<1>9. CASE w = mount_volume(r)
  <2>1. Leaves(G, r, w)
    BY <1>4, <1>6, <1>9, MountIs
  <2> QED
    BY <1>2, <1>8, <2>1, LeavesTwice, Zenon
<1>10. CASE w = Ok(r)
  <2>1. IsVol(r)
    BY <1>6, GoodIsVol, Zenon
  <2> DEFINE R == {"res"}
  <2>2. Differ(r, w, R)
    BY <1>10, <2>1, ResIs
  <2>3. w.state = r.state /\ w.dp = r.dp /\ w.fuel = r.fuel
    BY <2>2, Zenon DEF Differ, VolFields
  <2>4. R \cap GeoFields = {} /\ R \cap {"disk", "wflag", "win", "winsect"} = {}
    BY Zenon DEF GeoFields
  <2> HIDE DEF R
  <2>5. Good(G, w) /\ (Mirror(G, r) => Mirror(G, w)) /\ w.disk = r.disk
    BY <1>6, <2>2, <2>4, SameHeldIs, Zenon
  <2>6. Leaves(G, r, w)
    BY <1>4, <1>7, <2>3, <2>5, Zenon DEF Leaves, Calm, Quiet, Accurate
  <2> QED
    BY <1>2, <1>8, <2>6, LeavesTwice, Zenon
<1> QED
  BY <1>1, <1>2, <1>9, <1>10, Zenon DEF f_mount

(* What a call finds.                                                      *)
LEMMA CallBegins ==
  ASSUME Sane, NEW f \in FaultsNow
  PROVE  LET G == Formatted(setup.geo)
             a == Armed(f)
         IN  GeoOK(G) /\ Fresh(G) /\ Good(G, a) /\ DpOK(G, a.dp) /\ a.state = vol.state
<1>1. setup \in Setups
  BY Zenon DEF Sane
<1> QED
  BY <1>1, SetupIs, ArmedIs, Zenon

LEMMA FilesFine ==
  ASSUME NEW G, NEW v, NEW fs, NEW d, Fine(G, v, fs, d), NEW w,
         v.state = "mounted" => w.state = "mounted",
         NEW h \in Handles, NEW x, x = Closed \/ (FilOK(G, x) /\ w.state = "mounted")
  PROVE  Fine(G, w, [fs EXCEPT ![h] = x], d)
BY Zenon DEF Fine

LEMMA OpenFile ==
  ASSUME Sane, NEW h \in Handles, files[h].open
  PROVE  FilOK(Formatted(setup.geo), files[h]) /\ vol.state = "mounted"
<1>1. ~Closed.open
  BY DEF Closed
<1> QED
  BY <1>1, Zenon DEF Sane, Fine

(* A call on an open file.                                                 *)
LEMMA FileKeeps ==
  ASSUME Sane, NEW f \in FaultsNow, NEW h \in Handles, files[h].open, NEW r,
         Calls(Formatted(setup.geo), Armed(f), r), OnFile(h, f, r)
  PROVE  Sane'
<1>1. PICK G : G = Formatted(setup.geo)
  OBVIOUS
<1>2. PICK a : a = Armed(f)
  OBVIOUS
<1>3. GeoOK(G) /\ Good(G, a) /\ DpOK(G, a.dp) /\ a.state = vol.state
  BY <1>1, <1>2, CallBegins, Zenon
<1>4. vol.state = "mounted"
  BY OpenFile, Zenon
<1>5. Serves(G, a, r.vol, ChainFields) /\ (r.fil = Closed \/ FilOK(G, r.fil))
  BY <1>1, <1>2, Zenon DEF Calls
<1>6. Leaves(G, a, r.vol) /\ r.vol.state = "mounted"
  <2>1. Goes(G, a, r.vol)
    BY <1>3, <1>5, ServesWalks, WalksGoes, Zenon
  <2> QED
    BY <1>3, <1>4, <2>1, GoesLeaves, Zenon
<1>7. Fine(G, vol, files, dir)
  BY <1>1, Zenon DEF Sane
<1>8. Fine(G, r.vol, [files EXCEPT ![h] = r.fil], dir)
  BY <1>5, <1>6, <1>7, FilesFine, Zenon
<1>9. Good(G, r.vol) /\ Spared(G, setup, r.vol)
  BY <1>1, <1>2, <1>6, LeavesSpared, Zenon
<1> QED
  BY <1>1, <1>8, <1>9, ReturnedKeeps, Zenon DEF OnFile

LEMMA MountSane == ASSUME Sane, NEW now \in BOOLEAN, Mount(now) PROVE Sane'
<1>1. PICK f \in FaultsNow : vol.state = "none" /\ Returned(f_mount(Armed(f), now), f, files, dir)
  BY Zenon DEF Mount
<1>2. Leaves(Formatted(setup.geo), Armed(f), f_mount(Armed(f), now))
  BY <1>1, CallBegins, MountCallIs, Zenon
<1> QED
  BY <1>1, <1>2, CallKeeps, Zenon

LEMMA StatSane == ASSUME Sane, NEW p \in Seq(STRING), Stat(p) PROVE Sane'
<1>1. PICK f \in FaultsNow : Returned(f_stat(Armed(f), p), f, files, dir)
  BY Zenon DEF Stat
<1>2. Leaves(Formatted(setup.geo), Armed(f), f_stat(Armed(f), p))
  BY <1>1, CallBegins, StatIs, Zenon
<1> QED
  BY <1>1, <1>2, CallKeeps, Zenon

LEMMA GetFreeSane == ASSUME Sane, GetFree PROVE Sane'
<1>1. PICK f \in FaultsNow : Returned(f_getfree(Armed(f)), f, files, dir)
  BY Zenon DEF GetFree
<1>2. Leaves(Formatted(setup.geo), Armed(f), f_getfree(Armed(f)))
  BY <1>1, CallBegins, GetFreeIs, Zenon
<1> QED
  BY <1>1, <1>2, CallKeeps, Zenon

LEMMA MkdirSane == ASSUME Sane, NEW p \in Seq(STRING), Mkdir(p) PROVE Sane'
<1>1. PICK f \in FaultsNow : Returned(f_mkdir(Armed(f), p), f, files, dir)
  BY Zenon DEF Mkdir
<1>2. Leaves(Formatted(setup.geo), Armed(f), f_mkdir(Armed(f), p))
  BY <1>1, CallBegins, MkdirIs, Zenon
<1> QED
  BY <1>1, <1>2, CallKeeps, Zenon

LEMMA OpenSane ==
  ASSUME Sane, NEW h \in Handles, NEW p \in Seq(STRING), NEW mode, Open(h, p, mode) PROVE Sane'
<1>1. PICK f \in FaultsNow : \E r \in {f_open(Armed(f), p, mode)} :
        Returned(r.vol, f, [files EXCEPT ![h] = r.fil], dir)
  BY Zenon DEF Open
<1>2. PICK r : r = f_open(Armed(f), p, mode) /\ Returned(r.vol, f, [files EXCEPT ![h] = r.fil], dir)
  BY <1>1, Zenon
<1>3. PICK G : G = Formatted(setup.geo)
  OBVIOUS
<1>4. PICK a : a = Armed(f)
  OBVIOUS
<1>5. GeoOK(G) /\ Fresh(G) /\ Good(G, a) /\ DpOK(G, a.dp)
  BY <1>3, <1>4, CallBegins, Zenon
<1>6. OpenEnds(G, a, r)
  BY <1>2, <1>4, <1>5, OpenIs, Zenon
<1>7. /\ Leaves(G, a, r.vol)
      /\ r.fil = Closed \/ (FilOK(G, r.fil) /\ r.vol.state = "mounted")
  BY <1>6, Zenon DEF OpenEnds
<1>8. /\ Good(G, r.vol) /\ Spared(G, setup, r.vol)
      /\ vol.state = "mounted" => r.vol.state = "mounted"
  BY <1>3, <1>4, <1>7, LeavesSpared, Zenon
<1>9. Fine(G, vol, files, dir)
  BY <1>3, Zenon DEF Sane
<1>10. Fine(G, r.vol, [files EXCEPT ![h] = r.fil], dir)
  BY <1>7, <1>8, <1>9, FilesFine, Zenon
<1> QED
  BY <1>2, <1>3, <1>8, <1>10, ReturnedKeeps, Zenon

LEMMA WriteSane ==
  ASSUME Sane, NEW h \in Handles, NEW n \in Nat, NEW byte, Write(h, n, byte) PROVE Sane'
<1>1. PICK f \in FaultsNow : files[h].open /\ OnFile(h, f, f_write(Armed(f), files[h], n, byte))
  BY Zenon DEF Write
<1>2. Calls(Formatted(setup.geo), Armed(f), f_write(Armed(f), files[h], n, byte))
  BY <1>1, CallBegins, OpenFile, WriteCalls, Zenon
<1> QED
  BY <1>1, <1>2, FileKeeps, Zenon

LEMMA SeekSane == ASSUME Sane, NEW h \in Handles, NEW ofs \in Nat, Seek(h, ofs) PROVE Sane'
<1>1. PICK f \in FaultsNow : files[h].open /\ OnFile(h, f, f_lseek(Armed(f), files[h], ofs))
  BY Zenon DEF Seek
<1>2. Calls(Formatted(setup.geo), Armed(f), f_lseek(Armed(f), files[h], ofs))
  BY <1>1, CallBegins, OpenFile, LseekCalls, Zenon
<1> QED
  BY <1>1, <1>2, FileKeeps, Zenon

LEMMA TruncateSane == ASSUME Sane, NEW h \in Handles, Truncate(h) PROVE Sane'
<1>1. PICK f \in FaultsNow : files[h].open /\ OnFile(h, f, f_truncate(Armed(f), files[h]))
  BY Zenon DEF Truncate
<1>2. Calls(Formatted(setup.geo), Armed(f), f_truncate(Armed(f), files[h]))
  BY <1>1, CallBegins, OpenFile, TruncateCalls, Zenon
<1> QED
  BY <1>1, <1>2, FileKeeps, Zenon

LEMMA SyncSane == ASSUME Sane, NEW h \in Handles, Sync(h) PROVE Sane'
<1>1. PICK f \in FaultsNow : files[h].open /\ OnFile(h, f, f_sync(Armed(f), files[h]))
  BY Zenon DEF Sync
<1>2. Calls(Formatted(setup.geo), Armed(f), f_sync(Armed(f), files[h]))
  BY <1>1, CallBegins, OpenFile, SyncCalls, Zenon
<1> QED
  BY <1>1, <1>2, FileKeeps, Zenon

LEMMA CloseSane == ASSUME Sane, NEW h \in Handles, Close(h) PROVE Sane'
<1>1. PICK f \in FaultsNow : files[h].open /\ OnFile(h, f, f_close(Armed(f), files[h]))
  BY Zenon DEF Close
<1>2. Calls(Formatted(setup.geo), Armed(f), f_close(Armed(f), files[h]))
  BY <1>1, CallBegins, OpenFile, CloseCalls, Zenon
<1> QED
  BY <1>1, <1>2, FileKeeps, Zenon

LEMMA ReadSane ==
  ASSUME Sane, NEW h \in Handles, NEW n \in Nat, Read(h, n)
  PROVE  Sane'
<1>1. \E f \in FaultsNow : files[h].open /\ OnFile(h, f, f_read(Armed(f), files[h], n))
  BY Zenon DEF Read
<1>2. ASSUME NEW f \in FaultsNow, files[h].open, OnFile(h, f, f_read(Armed(f), files[h], n))
      PROVE  Sane'
  <2>1. Calls(Formatted(setup.geo), Armed(f), f_read(Armed(f), files[h], n))
    BY <1>2, CallBegins, OpenFile, ReadCalls, Zenon
  <2> QED
    BY <1>2, <2>1, FileKeeps, Zenon
<1> QED
  BY <1>1, <1>2, Zenon

(* A call that may disturb a listing.                                      *)
LEMMA DisturbedFine ==
  ASSUME NEW G, NEW v, Fine(G, v, files, dir), NEW ps
  PROVE  Fine(G, v, files, Disturbed(ps))
<1>1. CASE ~dir.open
  BY <1>1, Zenon DEF Disturbed
<1>2. CASE dir.open
  <2>1. \E x, y : Disturbed(ps) = [dir EXCEPT !.due = x, !.seen = y]
    BY <1>2, Zenon DEF Disturbed
  <2>2. PICK x, y : Disturbed(ps) = [dir EXCEPT !.due = x, !.seen = y]
    BY <2>1
  <2>3. PICK d : d = [dir EXCEPT !.due = x, !.seen = y]
    OBVIOUS
  <2>4. ~NoDir.open
    BY DEF NoDir
  <2>5. IsListing(dir) /\ DpOK(G, dir.dp) /\ v.state = "mounted"
    BY <1>2, <2>4, Zenon DEF Fine
  <2>6. IsListing(d) /\ d.dp = dir.dp
    BY <2>3, <2>5, Zenon DEF IsListing, ListingNames
  <2>7. Fine(G, v, files, d)
    BY <2>5, <2>6, Zenon DEF Fine
  <2> QED
    BY <2>2, <2>3, <2>7
<1> QED
  BY <1>1, <1>2

LEMMA ChangeKeeps ==
  ASSUME Sane, NEW f \in FaultsNow, NEW v, Leaves(Formatted(setup.geo), Armed(f), v), NEW ps,
         Returned(v, f, files, IF Refusal(v, f) THEN dir ELSE Disturbed(ps))
  PROVE  Sane'
<1>1. /\ Good(Formatted(setup.geo), v) /\ Spared(Formatted(setup.geo), setup, v)
      /\ vol.state = "mounted" => v.state = "mounted"
  BY LeavesSpared, Zenon
<1>2. Fine(Formatted(setup.geo), v, files, dir)
  BY <1>1, FineStays, Zenon DEF Sane
<1>3. Fine(Formatted(setup.geo), v, files, Disturbed(ps))
  BY <1>2, DisturbedFine, Zenon
<1>4. PICK d : d = IF Refusal(v, f) THEN dir ELSE Disturbed(ps)
  OBVIOUS
<1>5. Fine(Formatted(setup.geo), v, files, d)
  BY <1>2, <1>3, <1>4, Zenon
<1>6. Returned(v, f, files, d)
  BY <1>4
<1> QED
  BY <1>1, <1>5, <1>6, ReturnedKeeps, Zenon

LEMMA UnlinkSane == ASSUME Sane, NEW p \in Seq(STRING), Unlink(p) PROVE Sane'
<1>1. PICK f \in FaultsNow : \E v \in {f_unlink(Armed(f), p)} :
        Returned(v, f, files, IF Refusal(v, f) THEN dir ELSE Disturbed({p}))
  BY Zenon DEF Unlink
<1>3. PICK v : /\ v = f_unlink(Armed(f), p)
               /\ Returned(v, f, files, IF Refusal(v, f) THEN dir ELSE Disturbed({p}))
  BY <1>1, Zenon
<1>2. Leaves(Formatted(setup.geo), Armed(f), v)
  BY <1>3, CallBegins, UnlinkIs, Zenon
<1> QED
  BY <1>2, <1>3, ChangeKeeps, Zenon

LEMMA RenameSane ==
  ASSUME Sane, NEW p \in Seq(STRING), NEW q \in Seq(STRING), Rename(p, q) PROVE Sane'
<1>1. PICK f \in FaultsNow : \E v \in {f_rename(Armed(f), p, q)} :
        Returned(v, f, files, IF Refusal(v, f) THEN dir ELSE Disturbed({p, q}))
  BY Zenon DEF Rename
<1>3. PICK v : /\ v = f_rename(Armed(f), p, q)
               /\ Returned(v, f, files, IF Refusal(v, f) THEN dir ELSE Disturbed({p, q}))
  BY <1>1, Zenon
<1>2. Leaves(Formatted(setup.geo), Armed(f), v)
  BY <1>3, CallBegins, RenameIs, Zenon
<1> QED
  BY <1>2, <1>3, ChangeKeeps, Zenon

LEMMA OpenDirSane == ASSUME Sane, NEW p \in Seq(STRING), OpenDir(p) PROVE Sane'
<1>1. PICK f \in FaultsNow : \E v \in {f_opendir(Armed(f), p)} : \E x :
        Returned(v, f, files,
          IF v.res # "OK" THEN NoDir
          ELSE [open |-> TRUE, path |-> p, dp |-> v.dp, seen |-> <<>>, done |-> FALSE, due |-> x])
  BY Zenon DEF OpenDir
<1>2. PICK v, x : v = f_opendir(Armed(f), p) /\
        Returned(v, f, files,
          IF v.res # "OK" THEN NoDir
          ELSE [open |-> TRUE, path |-> p, dp |-> v.dp, seen |-> <<>>, done |-> FALSE, due |-> x])
  BY <1>1, Zenon
<1>3. PICK G : G = Formatted(setup.geo)
  OBVIOUS
<1>4. Leaves(G, Armed(f), v) /\ (v.res = "OK" => v.state = "mounted")
  BY <1>2, <1>3, CallBegins, OpenDirIs, Zenon
<1>5. /\ Good(G, v) /\ Spared(G, setup, v)
      /\ vol.state = "mounted" => v.state = "mounted"
  BY <1>3, <1>4, LeavesSpared, Zenon
<1>6. Fine(G, v, files, dir) /\ DpOK(G, v.dp)
  BY <1>3, <1>4, <1>5, FineStays, Zenon DEF Sane, Leaves
<1>7. PICK l : l = [open |-> TRUE, path |-> p, dp |-> v.dp, seen |-> <<>>, done |-> FALSE, due |-> x]
  OBVIOUS
<1>8. IsListing(l) /\ l.dp = v.dp
  BY <1>7, Zenon DEF IsListing, ListingNames
<1>9. PICK d : d = IF v.res # "OK" THEN NoDir ELSE l
  OBVIOUS
<1>10. Fine(G, v, files, d)
  BY <1>4, <1>6, <1>8, <1>9, Zenon DEF Fine
<1>11. Returned(v, f, files, d)
  BY <1>2, <1>7, <1>9
<1> QED
  BY <1>3, <1>5, <1>10, <1>11, ReturnedKeeps, Zenon

LEMMA ReadDirSane == ASSUME Sane, ReadDir PROVE Sane'
<1>1. dir.open
  BY Zenon DEF ReadDir
<1>2. \E f \in FaultsNow : \E r, d :
        /\ r = f_readdir(Armed(f), dir.dp) /\ Returned(r.vol, f, files, d)
        /\ \/ d = [dir EXCEPT !.dp = r.vol.dp]
           \/ d = [[dir EXCEPT !.dp = r.vol.dp] EXCEPT !.done = TRUE]
           \/ \E x : d = [[dir EXCEPT !.dp = r.vol.dp] EXCEPT !.seen = x]
  BY Zenon DEF ReadDir
<1>31. PICK f \in FaultsNow : \E r, d :
        /\ r = f_readdir(Armed(f), dir.dp) /\ Returned(r.vol, f, files, d)
        /\ \/ d = [dir EXCEPT !.dp = r.vol.dp]
           \/ d = [[dir EXCEPT !.dp = r.vol.dp] EXCEPT !.done = TRUE]
           \/ \E x : d = [[dir EXCEPT !.dp = r.vol.dp] EXCEPT !.seen = x]
  BY <1>2, Zenon
<1>3. PICK r, d :
        /\ r = f_readdir(Armed(f), dir.dp) /\ Returned(r.vol, f, files, d)
        /\ \/ d = [dir EXCEPT !.dp = r.vol.dp]
           \/ d = [[dir EXCEPT !.dp = r.vol.dp] EXCEPT !.done = TRUE]
           \/ \E x : d = [[dir EXCEPT !.dp = r.vol.dp] EXCEPT !.seen = x]
  BY <1>31, Zenon
<1>4. PICK G : G = Formatted(setup.geo)
  OBVIOUS
<1>5. PICK a : a = Armed(f)
  OBVIOUS
<1>6. GeoOK(G) /\ Good(G, a) /\ a.state = vol.state
  BY <1>4, <1>5, CallBegins, Zenon
<1>7. ~NoDir.open
  BY DEF NoDir
<1>8. IsListing(dir) /\ DpOK(G, dir.dp) /\ vol.state = "mounted"
  BY <1>1, <1>4, <1>7, Zenon DEF Sane, Fine
<1>9. Goes(G, a, r.vol)
  BY <1>3, <1>5, <1>6, <1>8, ReadDirIs, Zenon
<1>10. Leaves(G, a, r.vol) /\ r.vol.state = "mounted"
  BY <1>6, <1>8, <1>9, GoesLeaves, Zenon
<1>11. Good(G, r.vol) /\ Spared(G, setup, r.vol)
  BY <1>4, <1>5, <1>10, LeavesSpared, Zenon
<1>12. DpOK(G, r.vol.dp)
  BY <1>10, Zenon DEF Leaves
<1>13. IsListing(d) /\ d.dp = r.vol.dp
  <2>1. PICK e : e = [dir EXCEPT !.dp = r.vol.dp]
    OBVIOUS
  <2>2. IsListing(e) /\ e.dp = r.vol.dp
    BY <1>8, <2>1, Zenon DEF IsListing, ListingNames
  <2>3. CASE d = e
    BY <2>2, <2>3
  <2>4. CASE d = [e EXCEPT !.done = TRUE]
    BY <2>2, <2>4, Zenon DEF IsListing, ListingNames
  <2>5. ASSUME NEW x, d = [e EXCEPT !.seen = x] PROVE IsListing(d) /\ d.dp = r.vol.dp
    BY <2>2, <2>5, Zenon DEF IsListing, ListingNames
  <2> QED
    BY <1>3, <2>1, <2>3, <2>4, <2>5, Zenon
<1>14. Fine(G, r.vol, files, d)
  <2>1. Fine(G, r.vol, files, dir)
    BY <1>4, <1>10, FineStays, Zenon DEF Sane
  <2> QED
    BY <1>10, <1>12, <1>13, <2>1, Zenon DEF Fine
<1> QED
  BY <1>3, <1>4, <1>11, <1>14, ReturnedKeeps, Zenon

LEMMA CloseDirSane == ASSUME Sane, CloseDir PROVE Sane'
<1>1. dir' = NoDir /\ setup' = setup /\ vol' = vol /\ files' = files /\ faults' = faults
  BY Zenon DEF CloseDir
<1> QED
  BY <1>1, Zenon DEF Sane, Fine, Quiet

LEMMA UnmountSane == ASSUME Sane, Unmount PROVE Sane'
<1>1. PICK u : u = Unregistered(vol)
  OBVIOUS
<1>2. PICK v : v = Restarted(u)
  OBVIOUS
<1>3. /\ "f_unmount" \in setup.calls /\ ~dir.open /\ \A h \in Handles : ~files[h].open
      /\ Returned(v, NoFaultAtAll, files, dir)
  BY <1>1, <1>2, Zenon DEF Unmount, Called
<1>4. PICK G : G = Formatted(setup.geo)
  OBVIOUS
<1>5. /\ Good(G, vol) /\ GeoOK(G) /\ Spared(G, setup, vol) /\ Fine(G, vol, files, dir)
      /\ G.fs_type = setup.geo.fs_type
  BY <1>4, SetupIs, FormattedIs, Zenon DEF Sane
<1>6. Good(G, u) /\ (Mirror(G, vol) => Mirror(G, u))
  <2>1. PICK s : s = [vol EXCEPT !.state = "none"]
    OBVIOUS
  <2> DEFINE F == {"state"}
             R == {"res"}
  <2>2. Differ(vol, s, F) /\ IsVol(s)
    BY <1>5, <2>1, GoodIsVol, Zenon DEF IsVol, Differ, VolFields
  <2>3. Differ(s, u, R)
    BY <1>1, <2>1, <2>2, ResIs, Zenon DEF Unregistered
  <2>4. /\ F \cap GeoFields = {} /\ F \cap {"disk", "wflag", "win", "winsect"} = {}
        /\ R \cap GeoFields = {} /\ R \cap {"disk", "wflag", "win", "winsect"} = {}
    BY Zenon DEF GeoFields
  <2> HIDE DEF F, R
  <2>5. Good(G, s) /\ (Mirror(G, vol) => Mirror(G, s))
    BY <1>5, <2>2, <2>4, SameHeldIs, Zenon
  <2> QED
    BY <2>3, <2>4, <2>5, SameHeldIs, Zenon
<1>7. Good(G, v) /\ v.state = "none" /\ (Mirror(G, u) => Mirror(G, v))
  BY <1>2, <1>5, <1>6, RestartedIs, Zenon
<1>8. ~Remounts(setup) => Accurate(G, v)
  <2>1. "none" # "mounted"
    OBVIOUS
  <2> QED
    BY <1>3, <1>5, <1>7, <2>1, Zenon DEF Remounts, Accurate
<1>9. Spared(G, setup, v)
  BY <1>5, <1>6, <1>7, <1>8, Zenon DEF Spared
<1>10. Fine(G, v, files, dir)
  <2>1. \A f : FilOK(G, f) => f.open
    BY Zenon DEF FilOK, FilPart
  <2>2. \A d : IsListing(d) => d.open
    BY Zenon DEF IsListing
  <2> QED
    BY <1>3, <1>5, <2>1, <2>2, Zenon DEF Fine
<1>11. NoFaultAtAll \in FaultsNow
  BY Zenon DEF FaultsNow
<1> QED
  BY <1>3, <1>4, <1>7, <1>9, <1>10, <1>11, ReturnedKeeps, Zenon

LEMMA NextSane == Sane /\ [Next]_vars => Sane'
<1> SUFFICES ASSUME Sane, [Next]_vars PROVE Sane'
  OBVIOUS
<1>1. setup \in Setups
  BY Zenon DEF Sane
<1>2. /\ setup.handles \subseteq Handles /\ \A p \in setup.paths : p \in Seq(STRING)
      /\ setup.counts \subseteq Nat /\ setup.seeks \subseteq Nat
  BY <1>1, SetupIs, Zenon
<1>3. \A p \in setup.paths \cup {ROOT} : p \in Seq(STRING)
  <2>1. ROOT \in Seq(STRING)
    BY DEF ROOT
  <2> QED
    BY <1>2, <2>1, Zenon
<1>4. ASSUME NEW now \in BOOLEAN, Mount(now) PROVE Sane'
  BY <1>4, MountSane, Zenon
<1>5. CASE Unmount
  BY <1>5, UnmountSane, Zenon
<1>6. CASE GetFree
  BY <1>6, GetFreeSane, Zenon
<1>7. CASE ReadDir
  BY <1>7, ReadDirSane, Zenon
<1>8. CASE CloseDir
  BY <1>8, CloseDirSane, Zenon
<1>9. ASSUME NEW p \in setup.paths \cup {ROOT}, Unlink(p) \/ Mkdir(p) \/ Stat(p) \/ OpenDir(p) PROVE Sane'
  <2>1. p \in Seq(STRING)
    BY <1>3, <1>9, Zenon
  <2> QED
    BY <1>9, <2>1, UnlinkSane, MkdirSane, StatSane, OpenDirSane, Zenon
<1>10. ASSUME NEW p \in setup.paths \cup {ROOT}, NEW q \in setup.paths, Rename(p, q) PROVE Sane'
  <2>1. p \in Seq(STRING) /\ q \in Seq(STRING)
    BY <1>2, <1>3, <1>10, Zenon
  <2> QED
    BY <1>10, <2>1, RenameSane, Zenon
<1>11. ASSUME NEW h \in setup.handles, NEW p \in setup.paths, NEW mode \in setup.modes, Open(h, p, mode)
       PROVE  Sane'
  BY <1>2, <1>11, OpenSane, Zenon
<1>12. ASSUME NEW h \in setup.handles, NEW n \in setup.counts, Read(h, n) PROVE Sane'
  BY <1>2, <1>12, ReadSane, Zenon
<1>13. ASSUME NEW h \in setup.handles, NEW n \in setup.counts, NEW byte \in setup.bytes, Write(h, n, byte)
       PROVE  Sane'
  BY <1>2, <1>13, WriteSane, Zenon
<1>14. ASSUME NEW h \in setup.handles, NEW ofs \in setup.seeks, Seek(h, ofs) PROVE Sane'
  BY <1>2, <1>14, SeekSane, Zenon
<1>15. ASSUME NEW h \in setup.handles, Truncate(h) \/ Sync(h) \/ Close(h) PROVE Sane'
  BY <1>2, <1>15, TruncateSane, SyncSane, CloseSane, Zenon
<1>16. CASE UNCHANGED vars
  BY <1>16, Zenon DEF vars, Sane, Quiet, Spared, Fine
<1> QED
  BY <1>4, <1>5, <1>6, <1>7, <1>8, <1>9, <1>10, <1>11, <1>12, <1>13, <1>14, <1>15, <1>16, Zenon DEF Next

(* Whatever a program calls, in whatever order, and whatever writes fail   *)
(* or power losses interrupt it: between calls the volume is a volume, and *)
(* every open file and listing holds places that lie inside it.  The       *)
(* handlers of ff.c never write a FAT entry or a sector elsewhere.         *)
THEOREM VolumeStaysSane == Spec => []Sane
<1> QED
  BY InitSane, NextSane, PTL DEF Spec

\* A volume has its FATs where it was formatted with them, every sector of them
\* one of FAT cells: bytes on FAT12, numbers (of any size) on FAT16 and FAT32.
FatsInPlace ==
  \A s \in Fats(Formatted(setup.geo)) : IsFat(Formatted(setup.geo), vol.disk[s])

(* No call writes a directory or data sector over a FAT, and no FAT12      *)
(* entry, put byte by byte with half of its neighbour (put_fat), becomes   *)
(* anything but two bytes: also when a write fails or the power is lost.   *)
THEOREM FatsStayInPlace == Spec => []FatsInPlace
<1>1. Sane => FatsInPlace
  <2> SUFFICES ASSUME Sane PROVE FatsInPlace
    OBVIOUS
  <2>1. PICK G : G = Formatted(setup.geo)
    OBVIOUS
  <2>2. GeoOK(G) /\ DiskOK(G, vol)
    BY <2>1, SetupIs, Zenon DEF Sane, Good
  <2> QED
    BY <2>1, <2>2, FatsIn, Zenon DEF FatsInPlace, DiskOK, Content
<1> QED
  BY <1>1, VolumeStaysSane, PTL

(* Without faults the second FAT is a copy of the first between calls:     *)
(* sync_window never leaves a sector of the first FAT without its copy,    *)
(* and no call changes the window behind its back.                         *)
THEOREM FatsMirrored == Spec => []MirrorEqual
<1>1. Sane => MirrorEqual
  <2> SUFFICES ASSUME Sane, setup.faults = 0, vol.n_fats = 2
               PROVE  \A s \in vol.fatbase .. vol.fatbase + vol.fsize - 1 :
                        vol.disk[s] = vol.disk[s + vol.fsize]
    BY Zenon DEF MirrorEqual
  <2>1. PICK G : G = Formatted(setup.geo)
    OBVIOUS
  <2>2. HasGeo(G, vol) /\ Mirror(G, vol)
    BY <2>1, Zenon DEF Sane, Good, Spared
  <2>3. vol.n_fats = G.n_fats /\ vol.fatbase = G.fatbase /\ vol.fsize = G.fsize
    BY <2>2, GeoIs, Zenon
  <2> QED
    BY <2>2, <2>3, Zenon DEF Mirror, Fat1
<1> QED
  BY <1>1, VolumeStaysSane, PTL

(* Without faults the count of free clusters, where it is known, is the    *)
(* number of the FAT's free entries: create_chain and remove_chain adjust  *)
(* it once for every entry they change, and f_getfree counts each entry    *)
(* once.  A program that unmounts a FAT32 volume is left out: unmounting   *)
(* drops what a failed f_mkdir left in the window, and the next mount      *)
(* reads a count that nobody has written since.                            *)
THEOREM CountStaysExact == Spec => [](~Remounts(setup) => FreeExact)
<1>1. Sane => (~Remounts(setup) => FreeExact)
  BY Zenon DEF Sane, Spared, Accurate, Exact, FreeExact
<1> QED
  BY <1>1, VolumeStaysSane, PTL
================================================================================
