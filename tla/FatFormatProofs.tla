--------------------------- MODULE FatFormatProofs ---------------------------
(***************************************************************************)
(* Proofs about f_mkfs and the mount that follows it, for drives of any    *)
(* size up to 2^28 sectors and any options.                                *)
(*                                                                         *)
(* Every layout the loop tries has the same shape (LayoutIs): the gap in   *)
(* front of the data area makes the FATs, or the boot area, longer than    *)
(* they need to be and never shorter. One that passes the checks of the    *)
(* loop lies inside the volume, though the checks never compare it with    *)
(* the volume after the gap was added (Sound16, Sound32). Such a layout    *)
(* fits the fields of the boot record (RecordKept), which is found where   *)
(* it was written (Found) and gives back what it was made from             *)
(* (VolumeComputed, RecordGood).                                           *)
(***************************************************************************)
EXTENDS FatFormat, FiniteSetTheorems, TLAPS

Opts == Earlier \cup Options

(* The sizes a cluster can have.                                           *)
Paus == {1, 2, 4, 8, 16, 32, 64, 128}

(* The powers of two under a name of their own: the provers know those of  *)
(* a number, and nothing of the operator.                                  *)
Pow(k) == 2 ^ k

(* The powers a cluster size, a block or a drive's bound can be.           *)
LEMMA PowersAre ==
  /\ Pow(0) = 1 /\ Pow(1) = 2 /\ Pow(2) = 4 /\ Pow(3) = 8 /\ Pow(4) = 16
  /\ Pow(5) = 32 /\ Pow(6) = 64 /\ Pow(7) = 128 /\ Pow(8) = 256
  /\ Pow(9) = 512 /\ Pow(10) = 1024 /\ Pow(11) = 2048 /\ Pow(12) = 4096
  /\ Pow(13) = 8192 /\ Pow(14) = 16384 /\ Pow(15) = 32768 /\ Pow(16) = 65536
  /\ Pow(17) = 131072 /\ Pow(18) = 262144 /\ Pow(19) = 524288
  /\ Pow(20) = 1048576 /\ Pow(21) = 2097152 /\ Pow(22) = 4194304
  /\ Pow(23) = 8388608 /\ Pow(24) = 16777216 /\ Pow(25) = 33554432
  /\ Pow(26) = 67108864 /\ Pow(27) = 134217728 /\ Pow(28) = 268435456
  /\ Pow(29) = 536870912 /\ Pow(30) = 1073741824
BY SMT DEF Pow

LEMMA IsPow == \A n : IsPowerOf2(n) <=> \E k \in 0 .. 30 : n = Pow(k)
BY DEF IsPowerOf2, Pow

(* The numbers an exponent can be.                                         *)
Exponents == {0, 1, 2, 3, 4, 5, 6, 7, 8, 9, 10, 11, 12, 13, 14, 15, 16, 17, 18,
              19, 20, 21, 22, 23, 24, 25, 26, 27, 28, 29, 30}

(* As a set the provers can go through.                                    *)
LEMMA ExponentsAre == 0 .. 30 = Exponents
BY SMT DEF Exponents

LEMMA PausArePowers == \A n \in Paus : IsPowerOf2(n)
<1> SUFFICES ASSUME NEW n \in Paus PROVE \E k \in 0 .. 30 : n = Pow(k)
  BY IsPow
<1> QED
  BY PowersAre, SMT DEF Paus

LEMMA PowersPositive == \A n : IsPowerOf2(n) => n \in Nat \ {0}
<1> SUFFICES ASSUME NEW k \in Exponents PROVE Pow(k) \in Nat \ {0}
  BY IsPow, ExponentsAre
<1> QED
  BY PowersAre, SMT DEF Exponents

-----------------------------------------------------------------------------
(* The options.                                                            *)

(* A cluster size that f_mkfs takes from its options is one it can have.   *)
LEMMA AUIs ==
  ASSUME NEW o, o.au_size \in Nat
  PROVE  AU(o) \in Nat /\ (AU(o) <= 128 => AU(o) \in {0} \cup Paus)
<1>1. CASE IsPowerOf2(o.au_size)
  <2>1. PICK k \in Exponents : o.au_size = Pow(k)
    BY <1>1, IsPow, ExponentsAre
  <2> QED
    BY <2>1, PowersAre, SMT DEF AU, SS, Paus, Exponents
<1>2. CASE ~IsPowerOf2(o.au_size)
  BY <1>2, SMT DEF AU
<1> QED
  BY <1>1, <1>2

(* The assumption, for one option.                                         *)
LEMMA OptionTypes ==
  ASSUME NEW o \in Opts
  PROVE  /\ o.n_fat \in Nat /\ o.n_root \in Nat /\ o.align \in Nat
         /\ o.au_size \in Nat /\ o.fmt \subseteq {"FAT", "FAT32", "SFD"}
<1>1. /\ o.fmt \subseteq {"FAT", "FAT32", "SFD"}
      /\ {o.n_fat, o.n_root, o.align, o.au_size} \subseteq Nat
  BY FormatAssumption, Zenon DEF Opts
<1> QED
  BY <1>1

LEMMA DriveIs == Drives \subseteq 1 .. Pow(28)
BY FormatAssumption, Zenon DEF Pow

(* The entries of a root directory fill its sectors.                       *)
FillsSectors(n) == n \in Nat /\ 1 <= n /\ n <= 32768 /\ n % 16 = 0

Filling(n, m) == n \in 1 .. 32768 /\ n % m = 0
RootOf(n, m) == IF Filling(n, m) THEN n ELSE 512

(* n_root falls back on 512 entries, which fill their sectors.             *)
LEMMA RootIs ==
  ASSUME NEW o, o.n_root \in Nat PROVE FillsSectors(n_root(o))
<1>1. ASSUME NEW n \in Nat PROVE FillsSectors(RootOf(n, 16))
  <2>1. ASSUME Filling(n, 16) PROVE FillsSectors(n)
    BY <2>1, SMT DEF Filling, FillsSectors
  <2>2. FillsSectors(512)
    BY SMT DEF FillsSectors
  <2>3. (RootOf(n, 16) = n /\ Filling(n, 16)) \/ RootOf(n, 16) = 512
    BY SMT DEF RootOf
  <2> QED
    BY <2>1, <2>2, <2>3, SMT
<1>2. SS \div SZDIRE = 16
  BY SMT DEF SS, SZDIRE
<1>3. n_root(o) = RootOf(o.n_root, SS \div SZDIRE)
  BY DEF n_root, RootOf, Filling
<1> QED
  BY <1>1, <1>2, <1>3

IsBlock(n) == n \in Nat /\ 1 <= n /\ n <= 32768

(* sz_blk falls back on one sector.                                        *)
LEMMA BlockIs == ASSUME NEW o, o.align \in Nat PROVE IsBlock(sz_blk(o))
<1>1. PICK n \in Nat, b \in BOOLEAN : n = o.align /\ b = IsPowerOf2(o.align)
  BY DEF IsPowerOf2
<1>2. b => n # 0
  BY <1>1, PowersPositive
<1>3. sz_blk(o) = IF b /\ n <= 32768 THEN n ELSE 1
  BY <1>1 DEF sz_blk
<1> QED
  BY <1>2, <1>3, SMT DEF IsBlock

OptionOK(o) ==
  /\ n_fat(o) \in {1, 2} /\ FillsSectors(n_root(o)) /\ IsBlock(sz_blk(o))
  /\ AU(o) \in Nat /\ (AU(o) <= 128 => AU(o) \in {0} \cup Paus)

(* So much is so of any options.                                           *)
LEMMA OptionIs == ASSUME NEW o \in Opts PROVE OptionOK(o)
<1>1. o.n_fat \in Nat /\ o.n_root \in Nat /\ o.align \in Nat /\ o.au_size \in Nat
  BY OptionTypes
<1>2. n_fat(o) \in {1, 2}
  BY DEF n_fat
<1> QED
  BY <1>1, <1>2, RootIs, BlockIs, AUIs DEF OptionOK

-----------------------------------------------------------------------------
(* The parts of a layout.                                                  *)

Gap(d, b) == RoundUp(d, b) - d

(* Rounded up: less than a block further, and at one.                      *)
LEMMA GapIs ==
  ASSUME NEW d \in Nat, NEW b \in Nat \ {0}
  PROVE  /\ Gap(d, b) \in Nat /\ Gap(d, b) < b
         /\ (d + Gap(d, b)) % b = 0
<1> DEFINE q == (d + b - 1) \div b
           r == (d + b - 1) % b
<1>1. q \in Nat /\ r \in 0 .. b - 1 /\ d + b - 1 = b * q + r
  BY SMT
<1>2. RoundUp(d, b) = q * b /\ q * b = b * q
  BY <1>1, SMT DEF RoundUp
<1>3. (q * b) % b = 0
  BY <1>1, SMT
<1>4. Gap(d, b) = q * b - d
  BY <1>2 DEF Gap
<1> HIDE DEF q, r
<1>5. q * b \in Nat
  BY <1>1, SMT
<1>6. Gap(d, b) = b - 1 - r /\ d + Gap(d, b) = q * b
  BY <1>1, <1>2, <1>4, <1>5, SMT
<1> QED
  BY <1>1, <1>3, <1>6, SMT

(* The sectors of a FAT with an entry for each of the clusters.            *)
Table(fsty, clusters) == (FatBytes(fsty, clusters) + SS - 1) \div SS

(* How long a FAT of each type is for n clusters.                          *)
LEMMA TableIs ==
  ASSUME NEW n \in Nat
  PROVE  /\ Table("FAT32", n) \in Nat /\ 512 * Table("FAT32", n) \in 4 * n + 8 .. 4 * n + 519
         /\ Table("FAT16", n) \in Nat /\ 512 * Table("FAT16", n) \in 2 * n + 4 .. 2 * n + 515
         /\ Table("FAT12", n) \in Nat
         /\ 1024 * Table("FAT12", n) \in 3 * n + 6 .. 3 * n + 1029
<1>1. /\ FatBytes("FAT32", n) = 4 * n + 8 /\ FatBytes("FAT16", n) = 2 * n + 4
      /\ FatBytes("FAT12", n) = (n * 3 + 1) \div 2 + 3
  BY SMT DEF FatBytes
<1>2. /\ Table("FAT32", n) = (4 * n + 519) \div 512 /\ Table("FAT16", n) = (2 * n + 515) \div 512
      /\ Table("FAT12", n) = ((n * 3 + 1) \div 2 + 514) \div 512
  BY <1>1, SMT DEF Table, SS
<1> QED
  BY <1>2, SMT

Types == {"FAT12", "FAT16", "FAT32"}

LEMMA TableNat == ASSUME NEW n \in Nat, NEW t \in Types PROVE Table(t, n) \in Nat
<1>1. CASE t = "FAT12"
  BY <1>1, TableIs, SMT
<1>2. CASE t = "FAT16"
  BY <1>2, TableIs, SMT
<1>3. CASE t = "FAT32"
  BY <1>3, TableIs, SMT
<1> QED
  BY <1>1, <1>2, <1>3 DEF Types

-----------------------------------------------------------------------------
(* The layout.                                                             *)

(* The fields of a layout, one by one.                                     *)
Size == sz_vol(mk.opt, drive)

Data0(g, rsv0, dir) ==
  b_vol(mk.opt, drive) + rsv0 + Table(g.fsty, g.guess) * n_fat(mk.opt) + dir

GapOf(g, rsv0, dir) == Gap(Data0(g, rsv0, dir), sz_blk(mk.opt))

(* A layout's fields by their names: those of every type ...               *)
LEMMA LayoutAny ==
  ASSUME NEW g
  PROVE  LET l == Layout(g) IN
         /\ l.fsty = g.fsty /\ l.pau = g.pau /\ l.guess = g.guess
         /\ l.b_vol = b_vol(mk.opt, drive) /\ l.sz_vol = Size /\ l.n_fat = n_fat(mk.opt)
         /\ l.n_clst = AsDword(Size - l.sz_rsv - l.sz_fat * l.n_fat - l.sz_dir) \div g.pau
BY Zenon DEF Layout, Size

(* ... those of FAT32, whose boot area takes the gap ...                   *)
LEMMA LayoutOf32 ==
  ASSUME NEW g, g.fsty = "FAT32"
  PROVE  LET l == Layout(g) IN
         /\ l.sz_rsv = 32 + GapOf(g, 32, 0) /\ l.sz_fat = Table(g.fsty, g.guess) + 0
         /\ l.sz_dir = 0 /\ l.n_root = 0 /\ l.b_data0 = Data0(g, 32, 0)
BY Zenon DEF Layout, Gap, Table, Data0, GapOf

(* ... and those of the others, whose FATs take it.                        *)
LEMMA LayoutOf16 ==
  ASSUME NEW g, g.fsty # "FAT32"
  PROVE  LET l   == Layout(g)
             dir == (n_root(mk.opt) * SZDIRE) \div SS
             gap == GapOf(g, 1, dir)
             odd == gap % n_fat(mk.opt)
         IN  /\ l.sz_rsv = 1 + odd
             /\ l.sz_fat = Table(g.fsty, g.guess) + (gap - odd) \div n_fat(mk.opt)
             /\ l.sz_dir = dir /\ l.n_root = n_root(mk.opt) /\ l.b_data0 = Data0(g, 1, dir)
BY Zenon DEF Layout, Gap, Table, Data0, GapOf

(* Where a volume begins: at the drive's first sector or behind a track.   *)
Starts == {0, 63}

Gaps == {n \in Nat : n <= 32767}

Grown(n, from) == n \in Int /\ from <= n /\ n <= from + 32767

FatOf(fat0, gap, nf) == fat0 + (gap - (gap % nf)) \div nf
Sys16(fat0, gap, nf, dir) == 1 + (gap % nf) + FatOf(fat0, gap, nf) * nf + dir

(* What the two ways to move the data area do to the areas before it.      *)
Moves16(gap, nf, fat0, dir, B) ==
  /\ 1 + (gap % nf) \in {1, 2} /\ FatOf(fat0, gap, nf) \in Nat
  /\ Grown(FatOf(fat0, gap, nf), fat0) /\ Sys16(fat0, gap, nf, dir) \in Nat
  /\ B + Sys16(fat0, gap, nf, dir) = (B + 1 + fat0 * nf + dir) + gap
  /\ Grown(B + Sys16(fat0, gap, nf, dir), B + 1 + fat0 * nf + dir)

(* With two FATs an odd sector goes to the boot area.                      *)
LEMMA Areas16 ==
  ASSUME NEW gap \in Gaps, NEW nf \in {1, 2}, NEW fat0 \in Nat, NEW dir \in Nat, NEW B \in Starts
  PROVE  Moves16(gap, nf, fat0, dir, B)
<1>1. CASE nf = 1
  <2>1. gap % 1 = 0 /\ (gap - (gap % 1)) \div 1 = gap
    BY SMT DEF Gaps
  <2> QED
    BY <1>1, <2>1, SMT DEF Moves16, Starts, Grown, Gaps, FatOf, Sys16
<1>2. CASE nf = 2
  <2> DEFINE h == (gap - (gap % 2)) \div 2
             r == gap % 2
  <2>1. h \in Gaps /\ r \in {0, 1} /\ gap = 2 * h + r
    BY SMT DEF Gaps
  <2>2. FatOf(fat0, gap, nf) = fat0 + h /\ gap % nf = r
    BY <1>2 DEF FatOf
  <2> HIDE DEF h, r
  <2>3. Sys16(fat0, gap, nf, dir) = 1 + r + (fat0 + h) * 2 + dir
    BY <1>2, <2>2 DEF Sys16
  <2> QED
    BY <1>2, <2>1, <2>2, <2>3, SMT DEF Moves16, Starts, Grown, Gaps
<1> QED
  BY <1>1, <1>2

Rsv32(n) == n \in Nat /\ 32 <= n /\ n <= 32799
Sys32(fat, gap, nf) == 32 + gap + (fat + 0) * nf + 0

Moves32(gap, nf, fat, B) ==
  /\ Rsv32(32 + gap) /\ 32 + gap \in Nat /\ fat + 0 \in Nat
  /\ Grown(fat + 0, fat) /\ Sys32(fat, gap, nf) \in Nat
  /\ B + Sys32(fat, gap, nf) = (B + 32 + fat * nf + 0) + gap
  /\ Grown(B + Sys32(fat, gap, nf), B + 32 + fat * nf + 0)

LEMMA Areas32 ==
  ASSUME NEW gap \in Gaps, NEW nf \in {1, 2}, NEW fat \in Nat, NEW B \in Starts
  PROVE  Moves32(gap, nf, fat, B)
<1>1. Sys32(fat, gap, nf) = 32 + gap + fat * nf /\ fat * nf \in Nat
  BY SMT DEF Sys32, Gaps
<1> QED
  BY <1>1, SMT DEF Moves32, Starts, Grown, Gaps, Rsv32

(* The gap is less than 32768 sectors, for any options.                    *)
LEMMA GapSmall ==
  ASSUME NEW d \in Nat, NEW b, IsBlock(b)
  PROVE  Gap(d, b) \in Gaps /\ Gap(d, b) < b /\ (d + Gap(d, b)) % b = 0
<1>1. b \in Nat /\ b <= 32768 /\ b > 0
  BY SMT DEF IsBlock
<1>2. b \in Nat \ {0}
  BY <1>1, SMT
<1>3. Gap(d, b) \in Nat /\ Gap(d, b) < b /\ (d + Gap(d, b)) % b = 0
  BY <1>2, GapIs, Zenon
<1>4. ASSUME NEW x \in Nat, x < b PROVE x \in Gaps
  BY <1>1, <1>4, SMT DEF Gaps
<1> QED
  BY <1>3, <1>4

(* The sectors before the data area, from the volume's first.              *)
Sys(l) == l.sz_rsv + l.sz_fat * l.n_fat + l.sz_dir

(* What is so of every layout the loop tries: its fields are numbers, its  *)
(* data area begins at a block, and moving it there never made a FAT       *)
(* smaller than its table.                                                 *)
Numbers(l) ==
  /\ l.b_vol \in Nat /\ l.sz_vol \in Nat /\ l.guess \in Nat /\ l.n_clst \in Nat
  /\ l.sz_rsv \in Nat /\ l.sz_fat \in Nat /\ l.sz_dir \in Nat /\ l.n_root \in Nat
  /\ l.b_data0 \in Nat /\ l.n_fat \in {1, 2} /\ l.pau \in Paus

(* The data area before it is moved, behind a boot area of rsv sectors.    *)
StartsAt(l, rsv) == l.b_data0 = l.b_vol + rsv + Table(l.fsty, l.guess) * l.n_fat + l.sz_dir

Shape32(l) ==
  /\ Rsv32(l.sz_rsv) /\ l.n_root = 0 /\ l.sz_dir = 0
  /\ l.sz_fat = Table(l.fsty, l.guess) /\ StartsAt(l, 32)

Shape16(l) ==
  /\ l.sz_rsv \in {1, 2} /\ FillsSectors(l.n_root) /\ l.sz_dir = l.n_root \div 16
  /\ StartsAt(l, 1)

Moved(l) ==
  /\ Table(l.fsty, l.guess) \in Nat /\ Grown(l.sz_fat, Table(l.fsty, l.guess))
  /\ Sys(l) \in Nat /\ Grown(l.b_vol + Sys(l), l.b_data0)

Placed(l, o) ==
  /\ Numbers(l) /\ Moved(l)
  /\ (l.fsty = "FAT32" => Shape32(l)) /\ (l.fsty # "FAT32" => Shape16(l))
  /\ (l.b_vol + Sys(l)) % sz_blk(o) = 0
  /\ l.b_vol + Sys(l) < l.b_data0 + sz_blk(o)
  /\ l.n_clst = AsDword(l.sz_vol - Sys(l)) \div l.pau

Counted(S, rsv, fat, nf, dir, p) ==
  /\ AsDword(S - rsv - fat * nf - dir) = AsDword(S - (rsv + fat * nf + dir))
  /\ AsDword(S - (rsv + fat * nf + dir)) \div p \in Nat

LEMMA ClustersAre ==
  ASSUME NEW S \in Nat, NEW rsv \in Nat, NEW fat \in Nat, NEW nf \in {1, 2}, NEW dir \in Nat,
         NEW p \in Paus
  PROVE  Counted(S, rsv, fat, nf, dir, p)
<1>1. PICK fats \in Nat : fats = fat * nf
  BY SMT
<1>2. S - rsv - fats - dir = S - (rsv + fats + dir)
  BY SMT
<1>3. AsDword(S - (rsv + fats + dir)) \in Nat
  BY SMT DEF AsDword
<1>4. ASSUME NEW n \in Nat PROVE n \div p \in Nat
  BY SMT DEF Paus
<1> QED
  BY <1>1, <1>2, <1>3, <1>4, Zenon DEF Counted

GuessOK(g) ==
  /\ g.fsty \in Types /\ g.pau \in Paus /\ g.guess \in Nat
  /\ OptionOK(mk.opt) /\ Size \in Nat /\ b_vol(mk.opt, drive) \in Starts


LEMMA GapRange ==
  ASSUME NEW g, NEW r \in Nat, NEW dir \in Nat, GuessOK(g)
  PROVE  /\ Data0(g, r, dir) \in Nat /\ GapOf(g, r, dir) \in Gaps
         /\ (Data0(g, r, dir) + GapOf(g, r, dir)) % sz_blk(mk.opt) = 0
         /\ GapOf(g, r, dir) < sz_blk(mk.opt)
<1>1. ASSUME NEW f \in Nat, NEW nf \in {1, 2}, NEW B \in Starts PROVE B + r + f * nf + dir \in Nat
  BY SMT DEF Starts
<1>2. Table(g.fsty, g.guess) \in Nat
  BY TableNat DEF GuessOK
<1>3. Data0(g, r, dir) \in Nat
  BY <1>1, <1>2, Zenon DEF GuessOK, OptionOK, Data0
<1>4. IsBlock(sz_blk(mk.opt))
  BY Zenon DEF GuessOK, OptionOK
<1> QED
  BY <1>3, <1>4, GapSmall, Zenon DEF GapOf

(* Every layout tried from a proper guess has the shape.                   *)
LEMMA LayoutIs ==
  ASSUME NEW g, GuessOK(g) PROVE Placed(Layout(g), mk.opt)
<1> DEFINE l == Layout(g)
           o == mk.opt
<1>1. /\ l.fsty = g.fsty /\ l.pau = g.pau /\ l.guess = g.guess
      /\ l.b_vol = b_vol(o, drive) /\ l.sz_vol = Size /\ l.n_fat = n_fat(o)
      /\ l.n_clst = AsDword(Size - l.sz_rsv - l.sz_fat * l.n_fat - l.sz_dir) \div l.pau
  BY LayoutAny
<1>2. /\ n_fat(o) \in {1, 2} /\ b_vol(o, drive) \in Starts /\ Table(g.fsty, g.guess) \in Nat
      /\ Size \in Nat /\ b_vol(o, drive) \in Nat
  <2>1. n_fat(o) \in {1, 2} /\ b_vol(o, drive) \in Starts /\ Size \in Nat
    BY Zenon DEF GuessOK, OptionOK
  <2>2. Table(g.fsty, g.guess) \in Nat
    BY TableNat, Zenon DEF GuessOK
  <2> QED
    BY <2>1, <2>2, SMT DEF Starts
<1>3. ASSUME l.sz_rsv \in Nat, l.sz_fat \in Nat, l.sz_dir \in Nat
      PROVE  l.n_clst \in Nat /\ l.n_clst = AsDword(l.sz_vol - Sys(l)) \div l.pau
  <2>1. l.pau \in Paus
    BY <1>1, Zenon DEF GuessOK
  <2> QED
    <3> DEFINE rsv == l.sz_rsv
               fat == l.sz_fat
               dir == l.sz_dir
               nf  == l.n_fat
               p   == l.pau
    <3> HIDE DEF l
    <3>1. rsv \in Nat /\ fat \in Nat /\ dir \in Nat /\ nf \in {1, 2} /\ p \in Paus /\ Size \in Nat
      BY <1>1, <1>2, <1>3, <2>1, Zenon
    <3>2. Counted(Size, rsv, fat, nf, dir, p)
      <4> HIDE DEF rsv, fat, dir, nf, p
      <4> QED
        BY <3>1, ClustersAre, Zenon
    <3>3. Sys(l) = rsv + fat * nf + dir
      BY DEF Sys
    <3> QED
      BY <1>1, <3>2, <3>3, Zenon DEF Counted
<1>4. CASE g.fsty = "FAT32"
  <2> DEFINE gap == GapOf(g, 32, 0)
             d   == Data0(g, 32, 0)
  <2>1. /\ l.sz_rsv = 32 + gap /\ l.sz_fat = Table(g.fsty, g.guess) + 0
        /\ l.sz_dir = 0 /\ l.n_root = 0 /\ l.b_data0 = d
    BY <1>4, LayoutOf32, Zenon
  <2>2. d \in Nat /\ gap \in Gaps /\ (d + gap) % sz_blk(o) = 0 /\ gap < sz_blk(o)
    BY GapRange, Zenon
  <2>3. d = b_vol(o, drive) + 32 + Table(g.fsty, g.guess) * n_fat(o) + 0
    BY Zenon DEF Data0
  <2>4. Sys(l) = Sys32(Table(g.fsty, g.guess), gap, n_fat(o))
    BY <1>1, <2>1, Zenon DEF Sys, Sys32
  <2> HIDE DEF gap, d, l
  <2>5. /\ Rsv32(l.sz_rsv) /\ l.sz_rsv \in Nat /\ l.sz_fat \in Nat
        /\ Grown(l.sz_fat, Table(g.fsty, g.guess)) /\ Sys(l) \in Nat
        /\ b_vol(o, drive) + Sys(l) = d + gap /\ Grown(b_vol(o, drive) + Sys(l), d)
    <3> DEFINE f  == Table(g.fsty, g.guess)
               nf == n_fat(o)
               B  == b_vol(o, drive)
    <3>1. Moves32(gap, nf, f, B)
      BY <1>2, <2>2, Areas32, Zenon
    <3> QED
      BY <2>1, <2>3, <2>4, <3>1, Zenon DEF Moves32
  <2>6. l.n_clst \in Nat /\ l.n_clst = AsDword(l.sz_vol - Sys(l)) \div l.pau
    BY <1>3, <2>1, <2>5
  <2>7. Numbers(l)
    <3>1. 0 \in Nat
      BY SMT
    <3> QED
      BY <1>1, <1>2, <2>1, <2>2, <2>5, <2>6, <3>1, Zenon DEF Numbers, GuessOK
  <2>8. Moved(l)
    BY <1>1, <1>2, <2>1, <2>5, Zenon DEF Moved
  <2>9. Shape32(l)
    <3>1. ASSUME NEW n \in Nat PROVE n + 0 = n
      BY SMT
    <3> QED
      BY <1>1, <1>2, <2>1, <2>3, <2>5, <3>1, Zenon DEF Shape32, StartsAt
  <2>10. l.b_vol + Sys(l) < l.b_data0 + sz_blk(o)
    <3>1. PICK b \in Nat : b = sz_blk(o)
      BY SMT DEF GuessOK, OptionOK, IsBlock
    <3>2. gap \in Nat
      BY <2>2 DEF Gaps
    <3>3. d + gap < d + b
      BY <2>2, <3>1, <3>2, SMT
    <3> QED
      BY <1>1, <2>1, <2>2, <2>5, <3>1, <3>3, Zenon
  <2>11. Placed(l, o)
    BY <1>1, <1>4, <2>1, <2>2, <2>5, <2>6, <2>7, <2>8, <2>9, <2>10, Zenon DEF Placed
  <2> QED
    BY <2>11 DEF l
<1>5. CASE g.fsty # "FAT32"
  <2> DEFINE dir == (n_root(o) * SZDIRE) \div SS
             gap == GapOf(g, 1, dir)
             odd == gap % n_fat(o)
             d   == Data0(g, 1, dir)
  <2>1. /\ l.sz_rsv = 1 + odd /\ l.sz_fat = Table(g.fsty, g.guess) + (gap - odd) \div n_fat(o)
        /\ l.sz_dir = dir /\ l.n_root = n_root(o) /\ l.b_data0 = d
    BY <1>5, LayoutOf16, Zenon
  <2>2. FillsSectors(n_root(o)) /\ dir = n_root(o) \div 16 /\ dir \in Nat /\ n_root(o) \in Nat
    <3>1. ASSUME NEW n, FillsSectors(n)
          PROVE  (n * SZDIRE) \div SS = n \div 16 /\ n \div 16 \in Nat /\ n \in Nat
      BY <3>1, SMT DEF FillsSectors, SZDIRE, SS
    <3> QED
      BY <3>1, Zenon DEF GuessOK, OptionOK
  <2>3. d \in Nat /\ gap \in Gaps /\ (d + gap) % sz_blk(o) = 0 /\ gap < sz_blk(o)
    BY <2>2, GapRange, Zenon
  <2>4. d = b_vol(o, drive) + 1 + Table(g.fsty, g.guess) * n_fat(o) + dir
    BY Zenon DEF Data0
  <2>5. /\ l.sz_fat = FatOf(Table(g.fsty, g.guess), gap, n_fat(o))
        /\ Sys(l) = Sys16(Table(g.fsty, g.guess), gap, n_fat(o), dir)
    BY <1>1, <2>1, Zenon DEF Sys, Sys16, FatOf
  <2> HIDE DEF gap, d, l, dir
  <2>6. /\ 1 + odd \in {1, 2} /\ l.sz_fat \in Nat
        /\ Grown(l.sz_fat, Table(g.fsty, g.guess)) /\ Sys(l) \in Nat
        /\ b_vol(o, drive) + Sys(l) = d + gap /\ Grown(b_vol(o, drive) + Sys(l), d)
    <3> DEFINE f  == Table(g.fsty, g.guess)
               nf == n_fat(o)
               B  == b_vol(o, drive)
    <3>1. Moves16(gap, nf, f, dir, B)
      BY <1>2, <2>2, <2>3, Areas16, Zenon
    <3> QED
      BY <2>1, <2>4, <2>5, <3>1, Zenon DEF Moves16
  <2>7. l.sz_rsv \in Nat
    BY <2>1, <2>6, SMT
  <2>8. l.n_clst \in Nat /\ l.n_clst = AsDword(l.sz_vol - Sys(l)) \div l.pau
    BY <1>3, <2>1, <2>2, <2>6, <2>7
  <2>9. Numbers(l)
    BY <1>1, <1>2, <2>1, <2>2, <2>3, <2>6, <2>7, <2>8, Zenon DEF Numbers, GuessOK
  <2>10. Moved(l)
    BY <1>1, <1>2, <2>1, <2>6, Zenon DEF Moved
  <2>11. Shape16(l)
    BY <1>1, <2>1, <2>2, <2>4, <2>6, Zenon DEF Shape16, StartsAt
  <2>12. l.b_vol + Sys(l) < l.b_data0 + sz_blk(o)
    <3>1. PICK b \in Nat : b = sz_blk(o)
      BY SMT DEF GuessOK, OptionOK, IsBlock
    <3>2. gap \in Nat
      BY <2>3 DEF Gaps
    <3>3. d + gap < d + b
      BY <2>3, <3>1, <3>2, SMT
    <3> QED
      BY <1>1, <2>1, <2>3, <2>6, <3>1, <3>3, Zenon
  <2>13. Placed(l, o)
    BY <1>1, <1>5, <2>1, <2>3, <2>6, <2>8, <2>9, <2>10, <2>11, <2>12, Zenon DEF Placed
  <2> QED
    BY <2>13 DEF l
<1> QED
  BY <1>4, <1>5

-----------------------------------------------------------------------------
(* The checks of the loop.                                                 *)

LEMMA NotTaken ==
  ASSUME NEW l
  PROVE  /\ Abort.go # "take" /\ TooFewFat32(l).go # "take"
         /\ TooManyFat16(l).go # "take" /\ TooFewFat16(l).go # "take"
BY SMT DEF Abort, Again, TooFewFat32, TooManyFat16, TooFewFat16

(* A layout that is taken has passed every check of the loop.              *)
Passes(l) ==
  /\ ~TooSmall(l)
  /\ l.fsty = "FAT32" => l.guess > MAX_FAT16 /\ l.guess <= MAX_FAT32 /\ l.n_clst > MAX_FAT16
  /\ l.fsty = "FAT16" => l.n_clst <= MAX_FAT16 /\ l.n_clst > MAX_FAT12
  /\ l.fsty = "FAT12" => l.n_clst <= MAX_FAT12

(* Nothing but the last alternative of Verdict takes a layout.             *)
LEMMA TakenPasses ==
  ASSUME NEW l, Numbers(l), Verdict(l).go = "take" PROVE Passes(l)
<1> DEFINE a == l.fsty = "FAT32" /\ (l.guess <= MAX_FAT16 \/ l.guess > MAX_FAT32)
           b == TooSmall(l)
           c == l.fsty = "FAT32" /\ ~TooSmall(l) /\ l.n_clst <= MAX_FAT16
           d == l.fsty = "FAT16" /\ ~TooSmall(l) /\ l.n_clst > MAX_FAT16
           e == l.fsty = "FAT16" /\ ~TooSmall(l) /\ l.n_clst <= MAX_FAT12
           f == l.fsty = "FAT12" /\ ~TooSmall(l) /\ l.n_clst > MAX_FAT12
<1>1. Verdict(l) = CASE a -> Abort [] b -> Abort [] c -> TooFewFat32(l) [] d -> TooManyFat16(l)
                     [] e -> TooFewFat16(l) [] f -> Abort [] OTHER -> Take
  BY Zenon DEF Verdict
<1> HIDE DEF a, b, c, d, e, f
<1>2. ~a /\ ~b /\ ~c /\ ~d /\ ~e /\ ~f
  BY <1>1, NotTaken, Zenon
<1>3. ASSUME NEW n \in Nat, NEW m \in Nat PROVE (~(n <= m) => n > m) /\ (~(n > m) => n <= m)
  BY SMT
<1>4. MAX_FAT12 \in Nat /\ MAX_FAT16 \in Nat /\ MAX_FAT32 \in Nat /\ l.guess \in Nat /\ l.n_clst \in Nat
  BY SMT DEF MAX_FAT12, MAX_FAT16, MAX_FAT32, Numbers
<1> QED
  BY <1>2, <1>3, <1>4, Zenon DEF Passes, a, b, c, d, e, f

(* What a division by a cluster size leaves.                               *)
LEMMA DivFacts ==
  ASSUME NEW n \in Nat, NEW p \in Paus
  PROVE  /\ n \div p \in Nat /\ (n \div p) * p <= n /\ n < (n \div p) * p + p
         /\ n \div p <= n /\ p \in 1 .. 128
BY SMT DEF Paus

(* A volume of S sectors with few clusters of p each, and what is then so.  *)
AtMostFat16(n) == n <= 65525

FewClusters(S, p, c, f, nf, dir, sys) ==
  /\ c = S \div p /\ 512 * f <= 2 * c + 515 /\ dir <= 2048
  /\ sys <= 1 + f * nf + dir + 32767
  /\ AtMostFat16(AsDword(S - sys) \div p)

RoomFor(S, sys, f) == sys <= S /\ f <= 400

(* A volume whose clusters are too few for FAT32 holds its system area,    *)
(* and a FAT of it fits 16 bits: had the area been longer than the volume, *)
(* the DWORD difference would have counted millions of clusters.           *)
LEMMA Room16 ==
  ASSUME NEW S \in Nat, NEW p \in Paus, NEW c \in Nat, NEW f \in Nat, NEW nf \in {1, 2},
         NEW dir \in Nat, NEW sys \in Nat, FewClusters(S, p, c, f, nf, dir, sys)
  PROVE  RoomFor(S, sys, f)
<1> USE DEF FewClusters, AtMostFat16
<1>1. f * nf <= 2 * f /\ f * nf \in Nat
  BY SMT
<1>2. sys <= S
  <2>1. SUFFICES ASSUME S - sys < 0 PROVE FALSE
    BY SMT
  <2>2. AsDword(S - sys) = 2147483647
    BY <2>1, SMT DEF AsDword
  <2>3. ASSUME NEW w \in Nat, w = 2147483647 PROVE ~(w \div p <= 65525)
    BY <2>3, SMT DEF Paus
  <2> QED
    BY <2>2, <2>3, SMT
<1>3. AsDword(S - sys) = S - sys /\ S - sys \in Nat
  BY <1>2, SMT DEF AsDword
<1>4. PICK n \in Nat : n = (S - sys) \div p /\ n <= 65525
  BY <1>3, DivFacts
<1>5. S - sys < 65526 * p
  <2>1. ASSUME NEW m \in Nat, m \div p <= 65525 PROVE m < 65526 * p
    BY <2>1, SMT DEF Paus
  <2> QED
    BY <1>3, <1>4, <2>1
<1>6. S <= 34816 + 2 * f + 65526 * p
  BY <1>1, <1>5, SMT DEF Paus
<1>7. c <= 34816 + 2 * f + 65526
  <2>1. ASSUME NEW k \in Nat, S <= k + 65526 * p PROVE S \div p <= k + 65526
    BY <2>1, SMT DEF Paus
  <2>2. 34816 + 2 * f \in Nat
    BY SMT
  <2> QED
    BY <1>6, <2>1, <2>2, SMT
<1> QED
  BY <1>2, <1>7, SMT DEF RoomFor

(* A layout fit to be written.                                             *)
FitsType(t, n) ==
  /\ n \in Nat
  /\ t = "FAT32" => n > 65525 /\ n <= 268435445
  /\ t = "FAT16" => n > 4085 /\ n <= 65525
  /\ t = "FAT12" => n <= 4085

Short(n) == n \in Nat /\ n > 0 /\ n < 65536

Sound(l) ==
  /\ l.fsty \in Types /\ Sys(l) <= l.sz_vol
  /\ l.n_clst = (l.sz_vol - Sys(l)) \div l.pau /\ l.n_clst <= l.guess
  /\ FitsType(l.fsty, l.n_clst)
  /\ l.fsty # "FAT32" => Short(l.sz_fat)

(* A FAT32 layout that passes lies inside the volume.                      *)
LEMMA Sound32 ==
  ASSUME NEW l, NEW o, l.fsty = "FAT32", Placed(l, o), Passes(l), l.guess = l.sz_vol \div l.pau
  PROVE  Sound(l)
<1>1. PICK S \in Nat, p \in Paus, c \in Nat, n \in Nat, rsv \in Nat, nf \in {1, 2}, f \in Nat :
        /\ S = l.sz_vol /\ p = l.pau /\ c = l.guess /\ n = l.n_clst /\ rsv = l.sz_rsv
        /\ nf = l.n_fat /\ f = l.sz_fat
  BY Zenon DEF Placed, Numbers
<1>2. Sys(l) = rsv + f * nf /\ Sys(l) \in Nat
  <2>1. ASSUME NEW m \in Nat PROVE m + 0 = m
    BY SMT
  <2>2. rsv + f * nf \in Nat
    BY SMT
  <2>3. Sys(l) = rsv + f * nf + 0
    BY <1>1, Zenon DEF Sys, Placed, Shape32
  <2> QED
    BY <2>1, <2>2, <2>3, Zenon
<1>3. f = Table("FAT32", c) /\ Rsv32(rsv)
  BY <1>1, Zenon DEF Placed, Shape32
<1>4. 512 * f <= 4 * c + 519
  BY <1>3, TableIs, SMT
<1>5. c = S \div p /\ c > 65525 /\ c <= 268435445 /\ n > 65525
  BY <1>1 DEF Passes, MAX_FAT16, MAX_FAT32
<1>6. rsv <= 32799
  BY <1>3 DEF Rsv32
<1>7. rsv + f * nf <= S
  <2>1. f * nf <= 2 * f /\ f * nf \in Nat
    BY SMT
  <2>2. c <= S
    BY <1>5, DivFacts, SMT
  <2> QED
    BY <1>4, <1>5, <1>6, <2>1, <2>2, SMT
<1>8. PICK s \in Nat : s = rsv + f * nf /\ s = Sys(l)
  BY <1>2
<1>9. n = AsDword(S - s) \div p
  BY <1>1, <1>8, Zenon DEF Placed
<1>10. s <= S
  BY <1>7, <1>8
<1>11. AsDword(S - s) = S - s
  BY <1>10, SMT DEF AsDword
<1>12. n = (S - s) \div p
  BY <1>9, <1>11
<1>13. n <= c
  BY <1>5, <1>10, <1>12, SMT DEF Paus
<1>14. FitsType("FAT32", n)
  BY <1>5, <1>13, SMT DEF FitsType
<1> QED
  BY <1>1, <1>8, <1>10, <1>12, <1>13, <1>14, Zenon DEF Sound, Types

(* So does one of the other types.                                         *)
LEMMA Sound16 ==
  ASSUME NEW l, NEW o, l.fsty \in Types, l.fsty # "FAT32", Placed(l, o), Passes(l),
         l.guess = l.sz_vol \div l.pau
  PROVE  Sound(l)
<1>1. PICK S \in Nat, p \in Paus, c \in Nat, n \in Nat, nf \in {1, 2}, fat \in Nat, dir \in Nat,
           B \in Nat, d \in Nat :
        /\ S = l.sz_vol /\ p = l.pau /\ c = l.guess /\ n = l.n_clst
        /\ nf = l.n_fat /\ fat = l.sz_fat /\ dir = l.sz_dir /\ B = l.b_vol /\ d = l.b_data0
  BY Zenon DEF Placed, Numbers
<1>2. PICK f \in Nat : f = Table(l.fsty, c) /\ Grown(fat, f) /\ d = B + 1 + f * nf + dir
  BY <1>1, Zenon DEF Placed, Moved, Shape16, StartsAt
<1>3. PICK s \in Nat : s = Sys(l) /\ Grown(B + s, d)
  BY <1>1, Zenon DEF Placed, Moved
<1>4. dir <= 2048
  <2>1. FillsSectors(l.n_root) /\ dir = l.n_root \div 16
    BY <1>1, Zenon DEF Placed, Shape16
  <2>2. ASSUME NEW m, FillsSectors(m) PROVE m \div 16 <= 2048
    BY <2>2, SMT DEF FillsSectors
  <2> QED
    BY <2>1, <2>2, SMT
<1>5. l.fsty = "FAT12" \/ l.fsty = "FAT16"
  BY DEF Types
<1>6. 512 * f <= 2 * c + 515 /\ f > 0 /\ f \in Nat
  <2>1. CASE l.fsty = "FAT12"
    <3>1. f = Table("FAT12", c)
      BY <1>2, <2>1
    <3>2. 1024 * f >= 3 * c + 6 /\ 1024 * f <= 3 * c + 1029
      BY <3>1, TableIs, SMT
    <3> QED
      BY <3>2, SMT
  <2>2. CASE l.fsty = "FAT16"
    <3>1. f = Table("FAT16", c)
      BY <1>2, <2>2
    <3> QED
      BY <3>1, TableIs, SMT
  <2> QED
    BY <1>5, <2>1, <2>2
<1>7. FitsType(l.fsty, n)
  <2>1. CASE l.fsty = "FAT12"
    BY <1>1, <2>1, SMT DEF Passes, MAX_FAT12, FitsType
  <2>2. CASE l.fsty = "FAT16"
    BY <1>1, <2>2, SMT DEF Passes, MAX_FAT12, MAX_FAT16, FitsType
  <2> QED
    BY <1>5, <2>1, <2>2
<1>8. n = AsDword(S - s) \div p
  BY <1>1, <1>3, Zenon DEF Placed
<1>9. s <= 1 + f * nf + dir + 32767
  <2>1. PICK k \in Nat : k = f * nf
    BY SMT
  <2> QED
    BY <1>2, <1>3, <2>1, SMT DEF Grown
<1>10. FewClusters(S, p, c, f, nf, dir, s)
  <2>1. AtMostFat16(n)
    BY <1>5, <1>7, SMT DEF FitsType, AtMostFat16
  <2>2. AtMostFat16(AsDword(S - s) \div p)
    BY <1>8, <2>1, Zenon
  <2>3. c = S \div p
    BY <1>1, Zenon
  <2> QED
    BY <1>4, <1>6, <1>9, <2>2, <2>3, SMT DEF FewClusters
<1>11. RoomFor(S, s, f)
  BY <1>10, Room16, SMT
<1>12. s <= S
  BY <1>11 DEF RoomFor
<1>13. AsDword(S - s) = S - s
  BY <1>12, SMT DEF AsDword
<1>14. n = (S - s) \div p
  BY <1>8, <1>13
<1>15. c = S \div p
  BY <1>1
<1>16. n <= c
  BY <1>12, <1>14, <1>15, SMT DEF Paus
<1>17. Short(fat)
  BY <1>2, <1>6, <1>11, SMT DEF Short, Grown, RoomFor
<1> QED
  BY <1>1, <1>3, <1>12, <1>14, <1>16, <1>17, <1>7, Zenon DEF Sound

-----------------------------------------------------------------------------
(* What is written, and where the areas are.                               *)

(* What f_mkfs has written: a layout of this drive, fit for it.            *)
Written(l, o) ==
  /\ Placed(l, o) /\ Sound(l) /\ ~TooSmall(l) /\ l.sz_vol >= 128
  /\ l.b_vol \in Starts /\ l.b_vol + l.sz_vol = drive

(* The bytes the entries of n clusters and the two reserved ones take.     *)
EntryBytes(n, bits) ==
  ((n + 2) \div 8) * bits + (((n + 2) % 8) * bits + 7) \div 8

(* What the entries of each width come to.                                 *)
LEMMA EntriesTake ==
  ASSUME NEW n \in Nat
  PROVE  /\ EntryBytes(n, 32) = 4 * (n + 2) /\ EntryBytes(n, 16) = 2 * (n + 2)
         /\ EntryBytes(n, 12) \in Nat /\ 2 * EntryBytes(n, 12) <= 3 * (n + 2) + 1
         /\ 2 * EntryBytes(n, 12) >= 3 * (n + 2)
<1> DEFINE q == (n + 2) \div 8
           r == (n + 2) % 8
<1>1. q \in Nat /\ r \in 0 .. 7 /\ n + 2 = 8 * q + r
  BY SMT
<1> HIDE DEF q, r
<1>2. EntryBytes(n, 32) = 4 * (n + 2)
  <2>1. EntryBytes(n, 32) = q * 32 + (r * 32 + 7) \div 8
    BY DEF EntryBytes, q, r
  <2> QED
    BY <1>1, <2>1, SMT
<1>3. EntryBytes(n, 16) = 2 * (n + 2)
  <2>1. EntryBytes(n, 16) = q * 16 + (r * 16 + 7) \div 8
    BY DEF EntryBytes, q, r
  <2> QED
    BY <1>1, <2>1, SMT
<1>4. /\ EntryBytes(n, 12) \in Nat /\ 2 * EntryBytes(n, 12) <= 3 * (n + 2) + 1
      /\ 2 * EntryBytes(n, 12) >= 3 * (n + 2)
  <2>1. EntryBytes(n, 12) = q * 12 + (r * 12 + 7) \div 8
    BY DEF EntryBytes, q, r
  <2> QED
    BY <1>1, <2>1, SMT
<1> QED
  BY <1>2, <1>3, <1>4

Bits(t) == CASE t = "FAT32" -> 32 [] t = "FAT16" -> 16 [] OTHER -> 12

LEMMA BitsAre == Bits("FAT32") = 32 /\ Bits("FAT16") = 16 /\ Bits("FAT12") = 12
BY Zenon DEF Bits

(* The FATs of a sound layout have an entry for every cluster.             *)
LEMMA EntriesFit ==
  ASSUME NEW l, NEW o, Placed(l, o), Sound(l)
  PROVE  EntryBytes(l.n_clst, Bits(l.fsty)) <= l.sz_fat * SS
<1>1. PICK c \in Nat, n \in Nat, fat \in Nat : c = l.guess /\ n = l.n_clst /\ fat = l.sz_fat
  BY Zenon DEF Placed, Numbers
<1>2. PICK f \in Nat : f = Table(l.fsty, c) /\ Grown(fat, f)
  BY <1>1, Zenon DEF Placed, Moved
<1>3. n <= c /\ l.fsty \in Types
  BY <1>1, Zenon DEF Sound
<1>4. f <= fat
  BY <1>2, SMT DEF Grown
<1>5. CASE l.fsty = "FAT32"
  <2>1. f = Table("FAT32", c)
    BY <1>2, <1>5
  <2>2. 512 * f >= 4 * c + 8
    BY <2>1, TableIs, SMT
  <2>3. EntryBytes(n, 32) <= fat * 512
    BY <1>3, <1>4, <2>2, EntriesTake, SMT
  <2> QED
    BY <1>1, <1>5, <2>3, BitsAre DEF SS
<1>6. CASE l.fsty = "FAT16"
  <2>1. f = Table("FAT16", c)
    BY <1>2, <1>6
  <2>2. 512 * f >= 2 * c + 4
    BY <2>1, TableIs, SMT
  <2>3. EntryBytes(n, 16) <= fat * 512
    BY <1>3, <1>4, <2>2, EntriesTake, SMT
  <2> QED
    BY <1>1, <1>6, <2>3, BitsAre DEF SS
<1>7. CASE l.fsty = "FAT12"
  <2>1. f = Table("FAT12", c)
    BY <1>2, <1>7
  <2>2. 1024 * f >= 3 * c + 6
    BY <2>1, TableIs, SMT
  <2>3. EntryBytes(n, 12) <= fat * 512
    <3>1. PICK b \in Nat : b = EntryBytes(n, 12) /\ 2 * b <= 3 * (n + 2) + 1
      BY EntriesTake
    <3> QED
      BY <1>3, <1>4, <2>2, <3>1, SMT
  <2> QED
    BY <1>1, <1>7, <2>3, BitsAre DEF SS
<1> QED
  BY <1>3, <1>5, <1>6, <1>7 DEF Types

(* A written layout keeps its areas apart, at a block, inside the drive.   *)
LEMMA Regions ==
  ASSUME NEW l, NEW o, Written(l, o)
  PROVE  LET data == l.b_vol + l.sz_rsv + l.sz_fat * l.n_fat + l.sz_dir
             bits == Bits(l.fsty)
         IN  /\ data + l.n_clst * l.pau <= drive
             /\ l.fsty = "FAT32" => l.sz_rsv > 7
             /\ ((l.n_clst + 2) \div 8) * bits + (((l.n_clst + 2) % 8) * bits + 7) \div 8
                  <= l.sz_fat * SS
             /\ data % sz_blk(o) = 0
<1> DEFINE data == l.b_vol + l.sz_rsv + l.sz_fat * l.n_fat + l.sz_dir
<1>1. PICK S \in Nat, p \in Paus, n \in Nat, nf \in {1, 2}, fat \in Nat, dir \in Nat,
           B \in Nat, rsv \in Nat :
        /\ S = l.sz_vol /\ p = l.pau /\ n = l.n_clst /\ rsv = l.sz_rsv
        /\ nf = l.n_fat /\ fat = l.sz_fat /\ dir = l.sz_dir /\ B = l.b_vol
  BY Zenon DEF Written, Placed, Numbers
<1>2. PICK s \in Nat : s = Sys(l)
  BY Zenon DEF Written, Placed, Moved
<1>3. s = rsv + fat * nf + dir /\ data = B + rsv + fat * nf + dir
  BY <1>1, <1>2 DEF Sys
<1>4. data = B + s
  <2>1. PICK k \in Nat : k = fat * nf
    BY SMT
  <2> QED
    BY <1>3, <2>1, SMT
<1>5. data + n * p <= drive
  <2>1. s <= S /\ n = (S - s) \div p /\ B + S = drive
    BY <1>1, <1>2 DEF Written, Sound
  <2>2. S - s \in Nat
    BY <2>1, SMT
  <2>3. n * p <= S - s
    BY <2>1, <2>2, DivFacts, Zenon
  <2>4. PICK k \in Nat : k = n * p
    BY SMT DEF Paus
  <2> QED
    BY <1>4, <2>1, <2>3, <2>4, SMT
<1>6. l.fsty = "FAT32" => l.sz_rsv > 7
  <2>1. l.fsty = "FAT32" => Rsv32(rsv)
    BY <1>1, Zenon DEF Written, Placed, Shape32
  <2> QED
    BY <1>1, <2>1, SMT DEF Rsv32
<1>7. EntryBytes(l.n_clst, Bits(l.fsty)) <= l.sz_fat * SS
  BY EntriesFit, Zenon DEF Written
<1>8. data % sz_blk(o) = 0
  BY <1>1, <1>2, <1>4 DEF Written, Placed
<1> QED
  BY <1>1, <1>5, <1>6, <1>7, <1>8, Zenon DEF EntryBytes

-----------------------------------------------------------------------------
(* What mount_volume makes of the boot record.                             *)

LEMMA InRange ==
  ASSUME NEW a \in Int, NEW b \in Int, NEW x \in Int PROVE x \in a .. b <=> a <= x /\ x <= b
BY SMT

TypeFor(n) ==
  CASE n <= MAX_FAT12 -> "FAT12"
    [] n \in MAX_FAT12 + 1 .. MAX_FAT16 -> "FAT16"
    [] n \in MAX_FAT16 + 1 .. MAX_FAT32 -> "FAT32"
    [] OTHER -> "none"

(* The type mount_volume infers from the number of clusters.               *)
LEMMA TypeForIs ==
  ASSUME NEW n, NEW t \in Types, FitsType(t, n) PROVE TypeFor(n) = t
<1> DEFINE a == n <= MAX_FAT12
           b == n \in MAX_FAT12 + 1 .. MAX_FAT16
           c == n \in MAX_FAT16 + 1 .. MAX_FAT32
<1>1. n \in Int
  BY SMT DEF FitsType
<1>2. /\ MAX_FAT12 + 1 \in Int /\ MAX_FAT16 \in Int /\ MAX_FAT16 + 1 \in Int /\ MAX_FAT32 \in Int
  BY SMT DEF MAX_FAT12, MAX_FAT16, MAX_FAT32
<1>3. /\ b <=> MAX_FAT12 + 1 <= n /\ n <= MAX_FAT16
      /\ c <=> MAX_FAT16 + 1 <= n /\ n <= MAX_FAT32
  BY <1>1, <1>2, InRange, Zenon
<1>4. TypeFor(n) = CASE a -> "FAT12" [] b -> "FAT16" [] c -> "FAT32" [] OTHER -> "none"
  BY Zenon DEF TypeFor
<1> HIDE DEF a, b, c
<1>5. CASE t = "FAT12"
  <2>1. a /\ ~b /\ ~c
    BY <1>1, <1>3, <1>5, SMT DEF FitsType, MAX_FAT12, MAX_FAT16, a
  <2> QED
    BY <1>4, <1>5, <2>1, Zenon
<1>6. CASE t = "FAT16"
  <2>1. ~a /\ b /\ ~c
    BY <1>1, <1>3, <1>6, SMT DEF FitsType, MAX_FAT12, MAX_FAT16, a
  <2> QED
    BY <1>4, <1>6, <2>1, Zenon
<1>7. CASE t = "FAT32"
  <2>1. ~a /\ ~b /\ c
    BY <1>1, <1>3, <1>7, SMT DEF FitsType, MAX_FAT12, MAX_FAT16, MAX_FAT32, a
  <2> QED
    BY <1>4, <1>7, <2>1, Zenon
<1> QED
  BY <1>5, <1>6, <1>7 DEF Types

(* The fields of a boot record, as mount_volume reads them.                *)
fsize(s) == IF s.FATSz16 = 0 THEN s.FATSz32 ELSE s.FATSz16
tsect(s) == IF s.TotSec16 = 0 THEN s.TotSec32 ELSE s.TotSec16

SizeGiven(s) == s.TotSec16 >= 128 \/ s.TotSec32 >= 65536

Recorded(s, l) ==
  /\ s.kind = "vbr" /\ s.type32 = (l.fsty = "FAT32") /\ s.SecPerClus = l.pau
  /\ s.RsvdSecCnt = l.sz_rsv /\ s.RsvdSecCnt # 0 /\ s.NumFATs = l.n_fat
  /\ s.RootEntCnt = l.n_root /\ (l.fsty # "FAT32" => l.n_root # 0 /\ s.FATSz16 # 0)
  /\ fsize(s) = l.sz_fat /\ tsect(s) = l.sz_vol
  /\ SizeGiven(s) /\ s.RootClus = 2 /\ s.Free_Count = l.n_clst - 1 /\ s.Nxt_Free = 2

(* No field of the boot record is too narrow for its value.                *)
LEMMA RecordKept ==
  ASSUME NEW l, NEW o, Written(l, o) PROVE Recorded(VBR(l), l)
<1> DEFINE s == VBR(l)
<1>1. PICK S \in Nat, p \in Paus, fat \in Nat, rsv \in Nat, root \in Nat :
        /\ S = l.sz_vol /\ p = l.pau /\ rsv = l.sz_rsv /\ fat = l.sz_fat /\ root = l.n_root
  BY Zenon DEF Written, Placed, Numbers
<1>2. /\ s.kind = "vbr" /\ s.type32 = (l.fsty = "FAT32") /\ s.NumFATs = l.n_fat
      /\ s.RootClus = 2 /\ s.Free_Count = l.n_clst - 1 /\ s.Nxt_Free = 2
  BY DEF VBR
<1>3. /\ s.SecPerClus = p % 256 /\ s.RsvdSecCnt = rsv % 65536 /\ s.RootEntCnt = root % 65536
      /\ s.TotSec16 = (IF S < 65536 THEN S ELSE 0) /\ s.TotSec32 = (IF S < 65536 THEN 0 ELSE S)
  BY <1>1 DEF VBR
<1>4. s.SecPerClus = l.pau
  BY <1>1, <1>3, SMT DEF Paus
<1>5. s.RsvdSecCnt = l.sz_rsv /\ s.RsvdSecCnt # 0 /\ s.RootEntCnt = l.n_root
  <2>1. CASE l.fsty = "FAT32"
    <3>1. Rsv32(rsv) /\ root = 0
      BY <1>1, <2>1, Zenon DEF Written, Placed, Shape32
    <3> QED
      BY <1>1, <1>3, <3>1, SMT DEF Rsv32
  <2>2. CASE l.fsty # "FAT32"
    <3>1. rsv \in {1, 2} /\ FillsSectors(root)
      BY <1>1, <2>2, Zenon DEF Written, Placed, Shape16
    <3> QED
      BY <1>1, <1>3, <3>1, SMT DEF FillsSectors
  <2> QED
    BY <2>1, <2>2
<1>6. fsize(s) = l.sz_fat /\ (l.fsty # "FAT32" => l.n_root # 0 /\ s.FATSz16 # 0)
  <2>1. CASE l.fsty = "FAT32"
    <3>1. s.FATSz16 = 0 /\ s.FATSz32 = l.sz_fat
      BY <2>1 DEF VBR
    <3> QED
      BY <2>1, <3>1 DEF fsize
  <2>2. CASE l.fsty # "FAT32"
    <3>1. Short(fat) /\ FillsSectors(root)
      BY <1>1, <2>2, Zenon DEF Written, Sound, Placed, Shape16
    <3>2. s.FATSz16 = fat % 65536
      BY <1>1, <2>2 DEF VBR
    <3>3. s.FATSz16 = fat /\ fat # 0
      BY <3>1, <3>2, SMT DEF Short
    <3>4. root # 0
      BY <3>1, SMT DEF FillsSectors
    <3> QED
      BY <1>1, <2>2, <3>3, <3>4 DEF fsize
  <2> QED
    BY <2>1, <2>2
<1>7. S >= 128
  BY <1>1 DEF Written
<1>8. tsect(s) = l.sz_vol /\ (s.TotSec16 >= 128 \/ s.TotSec32 >= 65536)
  <2>1. CASE S < 65536
    <3>1. s.TotSec16 = S /\ S # 0
      BY <1>3, <1>7, <2>1, SMT
    <3> QED
      BY <1>1, <1>7, <3>1 DEF tsect
  <2>2. CASE S >= 65536
    <3>1. s.TotSec16 = 0 /\ s.TotSec32 = S
      BY <1>3, <2>2, SMT
    <3> QED
      BY <1>1, <2>2, <3>1 DEF tsect
  <2> QED
    BY <2>1, <2>2, SMT
<1> QED
  BY <1>2, <1>4, <1>5, <1>6, <1>8 DEF Recorded, SizeGiven

(* What mount_volume computes from a boot record.                          *)
sysect(s) == s.RsvdSecCnt + fsize(s) * s.NumFATs + s.RootEntCnt \div (SS \div SZDIRE)
nclst(s)  == (tsect(s) - sysect(s)) \div s.SecPerClus
fmt(s)    == TypeFor(nclst(s))

need(t, ents) ==
  CASE t = "FAT32" -> ents * 4
    [] t = "FAT16" -> ents * 2
    [] OTHER -> (ents * 3) \div 2 + (ents % 2)

Bad(s) ==
  \/ s.NumFATs \notin {1, 2} \/ ~IsPowerOf2(s.SecPerClus)
  \/ s.RootEntCnt % (SS \div SZDIRE) # 0 \/ s.RsvdSecCnt = 0
  \/ tsect(s) < sysect(s) \/ nclst(s) = 0 \/ fmt(s) = "none"
  \/ (fmt(s) = "FAT32") # (s.RootEntCnt = 0)
  \/ fsize(s) < (need(fmt(s), nclst(s) + 2) + SS - 1) \div SS

Mounted(s, bsect) ==
  [res |-> "OK", fs_type |-> fmt(s), csize |-> s.SecPerClus, n_fats |-> s.NumFATs,
   n_rootdir |-> s.RootEntCnt, n_fatent |-> nclst(s) + 2, fsize |-> fsize(s), volbase |-> bsect,
   fatbase |-> bsect + s.RsvdSecCnt, database |-> bsect + sysect(s),
   dirbase |-> IF fmt(s) = "FAT32" THEN s.RootClus ELSE (bsect + s.RsvdSecCnt) + fsize(s) * s.NumFATs,
   free_clst |-> IF fmt(s) = "FAT32" THEN s.Free_Count ELSE -1,
   last_clst |-> IF fmt(s) = "FAT32" THEN s.Nxt_Free ELSE -1]

(* Analysed, by these names.                                               *)
LEMMA AnalysedIs ==
  ASSUME NEW s, NEW bsect
  PROVE  Analysed(s, bsect) = IF Bad(s) THEN [res |-> "NO_FILESYSTEM"] ELSE Mounted(s, bsect)
BY Zenon DEF Analysed, Bad, Mounted, fmt, TypeFor, nclst, sysect, fsize, tsect, need

(* What is computed from the record is what it was made from.              *)
LEMMA VolumeComputed ==
  ASSUME NEW l, NEW o, Written(l, o)
  PROVE  LET s == VBR(l) IN sysect(s) = Sys(l) /\ nclst(s) = l.n_clst /\ fmt(s) = l.fsty
<1> DEFINE s == VBR(l)
<1>1. /\ s.SecPerClus = l.pau /\ s.RsvdSecCnt = l.sz_rsv /\ s.NumFATs = l.n_fat
      /\ s.RootEntCnt = l.n_root /\ fsize(s) = l.sz_fat /\ tsect(s) = l.sz_vol
  BY RecordKept, Zenon DEF Recorded
<1>2. l.n_root \div (SS \div SZDIRE) = l.sz_dir
  <2>1. SS \div SZDIRE = 16
    BY SMT DEF SS, SZDIRE
  <2>2. CASE l.fsty = "FAT32"
    <3>1. l.n_root = 0 /\ l.sz_dir = 0
      BY <2>2, Zenon DEF Written, Placed, Shape32
    <3> QED
      BY <2>1, <3>1, SMT
  <2>3. CASE l.fsty # "FAT32"
    BY <2>1, <2>3, Zenon DEF Written, Placed, Shape16
  <2> QED
    BY <2>2, <2>3
<1>3. sysect(s) = Sys(l)
  BY <1>1, <1>2, Zenon DEF sysect, Sys
<1>4. nclst(s) = l.n_clst
  BY <1>1, <1>3, Zenon DEF nclst, Written, Sound
<1>5. fmt(s) = l.fsty
  BY <1>4, TypeForIs, Zenon DEF fmt, Written, Sound
<1> QED
  BY <1>3, <1>4, <1>5

(* The FATs are not too short for mount_volume.                            *)
LEMMA NeedFits ==
  ASSUME NEW l, NEW o, Written(l, o)
  PROVE  ~(l.sz_fat < (need(l.fsty, l.n_clst + 2) + SS - 1) \div SS)
<1>1. PICK n \in Nat, fat \in Nat : n = l.n_clst /\ fat = l.sz_fat
  BY Zenon DEF Written, Placed, Numbers
<1>2. EntryBytes(n, Bits(l.fsty)) <= fat * SS
  BY <1>1, EntriesFit, Zenon DEF Written
<1>3. ASSUME NEW m \in Nat, m <= fat * 512 PROVE ~(fat < (m + SS - 1) \div SS)
  BY <1>3, SMT DEF SS
<1>4. l.fsty \in Types
  BY Zenon DEF Written, Sound
<1>5. need(l.fsty, n + 2) \in Nat /\ need(l.fsty, n + 2) <= fat * 512
  <2>1. CASE l.fsty = "FAT32"
    <3>1. need(l.fsty, n + 2) = (n + 2) * 4
      BY <2>1, Zenon DEF need
    <3>2. EntryBytes(n, 32) <= fat * 512 /\ EntryBytes(n, 32) = 4 * (n + 2)
      BY <1>2, <2>1, BitsAre, EntriesTake DEF SS
    <3> QED
      BY <3>1, <3>2, SMT
  <2>2. CASE l.fsty = "FAT16"
    <3>1. need(l.fsty, n + 2) = (n + 2) * 2
      BY <2>2, Zenon DEF need
    <3>2. EntryBytes(n, 16) <= fat * 512 /\ EntryBytes(n, 16) = 2 * (n + 2)
      BY <1>2, <2>2, BitsAre, EntriesTake DEF SS
    <3> QED
      BY <3>1, <3>2, SMT
  <2>3. CASE l.fsty = "FAT12"
    <3>1. need(l.fsty, n + 2) = ((n + 2) * 3) \div 2 + ((n + 2) % 2)
      BY <2>3, Zenon DEF need
    <3>2. EntryBytes(n, 12) <= fat * 512
      BY <1>2, <2>3, BitsAre DEF SS
    <3>3. PICK b \in Nat : b = EntryBytes(n, 12) /\ 2 * b >= 3 * (n + 2)
      BY EntriesTake
    <3> QED
      BY <3>1, <3>2, <3>3, SMT
  <2> QED
    BY <1>4, <2>1, <2>2, <2>3 DEF Types
<1> QED
  BY <1>1, <1>3, <1>5

(* The volume mount_volume finds in the boot record of a layout, unless it *)
(* has no cluster.                                                         *)
LEMMA RecordGood ==
  ASSUME NEW l, NEW o, Written(l, o), l.n_clst # 0 PROVE ~Bad(VBR(l))
<1> DEFINE s == VBR(l)
<1>1. Recorded(s, l) /\ sysect(s) = Sys(l) /\ nclst(s) = l.n_clst /\ fmt(s) = l.fsty
  BY RecordKept, VolumeComputed
<1> HIDE DEF s
<1>2. s.NumFATs \in {1, 2} /\ IsPowerOf2(s.SecPerClus) /\ s.RsvdSecCnt # 0
  BY <1>1, PausArePowers, Zenon DEF Recorded, Written, Placed, Numbers
<1>3. s.RootEntCnt % (SS \div SZDIRE) = 0 /\ ((fmt(s) = "FAT32") = (s.RootEntCnt = 0))
  <2>1. SS \div SZDIRE = 16
    BY SMT DEF SS, SZDIRE
  <2>2. CASE l.fsty = "FAT32"
    <3>1. l.n_root = 0
      BY <2>2, Zenon DEF Written, Placed, Shape32
    <3> QED
      BY <1>1, <2>1, <2>2, <3>1, SMT DEF Recorded
  <2>3. CASE l.fsty # "FAT32"
    <3>1. FillsSectors(l.n_root) /\ l.n_root # 0
      BY <1>1, <2>3, Zenon DEF Written, Placed, Shape16, Recorded
    <3>2. l.n_root % 16 = 0
      BY <3>1 DEF FillsSectors
    <3> QED
      BY <1>1, <2>1, <2>3, <3>1, <3>2, Zenon DEF Recorded
  <2> QED
    BY <2>2, <2>3
<1>4. ~(tsect(s) < sysect(s)) /\ nclst(s) # 0 /\ fmt(s) # "none"
  <2>1. PICK a \in Nat, b \in Nat : a = tsect(s) /\ b = sysect(s)
    BY <1>1, Zenon DEF Recorded, Written, Placed, Numbers, Moved
  <2>2. b <= a
    BY <1>1, <2>1, Zenon DEF Recorded, Written, Sound
  <2>3. ~(tsect(s) < sysect(s))
    BY <2>1, <2>2, SMT
  <2>4. fmt(s) # "none"
    BY <1>1 DEF Written, Sound, Types
  <2> QED
    BY <1>1, <2>3, <2>4
<1>5. ~(fsize(s) < (need(fmt(s), nclst(s) + 2) + SS - 1) \div SS)
  BY <1>1, NeedFits, Zenon DEF Recorded
<1> QED
  BY <1>2, <1>3, <1>4, <1>5, Zenon DEF Bad, s

(* check_fs takes the record for one of a FAT volume.                      *)
LEMMA CheckVBR ==
  ASSUME NEW l, NEW o, Written(l, o) PROVE check_fs(VBR(l)) = 0
<1> DEFINE s == VBR(l)
<1>1. Recorded(s, l)
  BY RecordKept
<1> HIDE DEF s
<1>2. s.NumFATs \in {1, 2} /\ IsPowerOf2(s.SecPerClus)
  BY <1>1, PausArePowers, Zenon DEF Recorded, Written, Placed, Numbers
<1>3. CASE l.fsty = "FAT32"
  <2>1. s.kind = "vbr" /\ s.type32
    BY <1>1, <1>3 DEF Recorded
  <2> QED
    BY <2>1, SMT DEF check_fs, s
<1>4. CASE l.fsty # "FAT32"
  <2>1. s.kind = "vbr" /\ s.RootEntCnt # 0 /\ s.FATSz16 # 0 /\ SizeGiven(s) /\ s.RsvdSecCnt # 0
    BY <1>1, <1>4, Zenon DEF Recorded
  <2> QED
    BY <1>2, <2>1, SMT DEF check_fs, SizeGiven, s
<1> QED
  BY <1>3, <1>4

(* Where mount_volume finds the layout f_mkfs wrote last.                  *)
Booted(b, l) ==
  /\ b[l.b_vol] = VBR(l)
  /\ \/ l.b_vol = 0
     \/ l.b_vol = N_SEC_TRACK /\ b[0].kind = "mbr" /\ b[0].StLba = N_SEC_TRACK

(* find_volume finds it, behind a partition table or at the first sector.  *)
LEMMA Found ==
  ASSUME NEW l, NEW o, Written(l, o), Booted(boot, l)
  PROVE  find_volume = [fmt |-> 0, bsect |-> l.b_vol] /\ boot[l.b_vol] = VBR(l)
<1>1. check_fs(VBR(l)) = 0 /\ boot[l.b_vol] = VBR(l)
  BY CheckVBR, Zenon DEF Booted
<1>2. CASE l.b_vol = 0
  <2>1. check_fs(boot[0]) = 0 /\ check_fs(boot[0]) # 2
    BY <1>1, <1>2
  <2> QED
    BY <1>1, <1>2, <2>1, Zenon DEF find_volume
<1>3. CASE l.b_vol = N_SEC_TRACK /\ boot[0].kind = "mbr" /\ boot[0].StLba = N_SEC_TRACK
  <2>1. check_fs(boot[0]) = 2
    BY <1>3, SMT DEF check_fs
  <2>2. check_fs(boot[N_SEC_TRACK]) = 0
    BY <1>1, <1>3
  <2>3. 2 # 0
    OBVIOUS
  <2> QED
    BY <1>1, <1>3, <2>1, <2>2, Zenon DEF find_volume
<1> QED
  BY <1>2, <1>3, Zenon DEF Booted

-----------------------------------------------------------------------------
(* The tables of cluster sizes.                                            *)

LEMMA AddsOne == ASSUME NEW S, IsFiniteSet(S), NEW x, x \notin S
  PROVE IsFiniteSet(S \cup {x}) /\ Cardinality(S \cup {x}) = Cardinality(S) + 1
BY FS_AddElement

Distinct(a, b, c, d, e, f) ==
  /\ b \notin {a} /\ c \notin {a, b} /\ d \notin {a, b, c} /\ e \notin {a, b, c, d}
  /\ f \notin {a, b, c, d, e}

Numbered(a, b, c, d, e, f) ==
  /\ Cardinality({}) = 0 /\ Cardinality({a}) = 1 /\ Cardinality({a, b}) = 2
  /\ Cardinality({a, b, c}) = 3 /\ Cardinality({a, b, c, d}) = 4
  /\ Cardinality({a, b, c, d, e}) = 5 /\ Cardinality({a, b, c, d, e, f}) = 6

(* How many elements the first sizes of a table are.                       *)
LEMMA Counts ==
  ASSUME NEW a, NEW b, NEW c, NEW d, NEW e, NEW f, Distinct(a, b, c, d, e, f)
  PROVE  Numbered(a, b, c, d, e, f)
<1> USE DEF Distinct
<1>1. IsFiniteSet({}) /\ Cardinality({}) = 0
  BY FS_EmptySet
<1>2. IsFiniteSet({a}) /\ Cardinality({a}) = 1
  BY FS_Singleton
<1>3. IsFiniteSet({a, b}) /\ Cardinality({a, b}) = 2
  <2>1. {a, b} = {a} \cup {b}
    OBVIOUS
  <2> QED
    BY <1>2, <2>1, AddsOne
<1>4. IsFiniteSet({a, b, c}) /\ Cardinality({a, b, c}) = 3
  <2>1. {a, b, c} = {a, b} \cup {c}
    OBVIOUS
  <2> QED
    BY <1>3, <2>1, AddsOne
<1>5. IsFiniteSet({a, b, c, d}) /\ Cardinality({a, b, c, d}) = 4
  <2>1. {a, b, c, d} = {a, b, c} \cup {d}
    OBVIOUS
  <2> QED
    BY <1>4, <2>1, AddsOne
<1>6. IsFiniteSet({a, b, c, d, e}) /\ Cardinality({a, b, c, d, e}) = 5
  <2>1. {a, b, c, d, e} = {a, b, c, d} \cup {e}
    OBVIOUS
  <2> QED
    BY <1>5, <2>1, AddsOne
<1>7. IsFiniteSet({a, b, c, d, e, f}) /\ Cardinality({a, b, c, d, e, f}) = 6
  <2>1. {a, b, c, d, e, f} = {a, b, c, d, e} \cup {f}
    OBVIOUS
  <2> QED
    BY <1>6, <2>1, AddsOne
<1> QED
  BY <1>1, <1>2, <1>3, <1>4, <1>5, <1>6, <1>7 DEF Numbered

(* The steps of the table of FAT16 that a volume reaches.                  *)
LEMMA StepsFAT16 ==
  ASSUME NEW q \in Nat
  PROVE  LET size == 2 ^ Cardinality({c \in cst : c <= q}) IN
         /\ q < 1 => size = 1
         /\ 1 <= q /\ q < 4 => size = 2
         /\ 4 <= q /\ q < 16 => size = 4
         /\ 16 <= q /\ q < 64 => size = 8
         /\ 64 <= q /\ q < 256 => size = 16
         /\ 256 <= q /\ q < 512 => size = 32
         /\ 512 <= q => size = 64
<1> DEFINE reached == {c \in cst : c <= q}
<1>1. 2 ^ Cardinality(reached) = Pow(Cardinality(reached))
  BY Zenon DEF Pow
<1>2. Numbered(1, 4, 16, 64, 256, 512)
  <2>1. Distinct(1, 4, 16, 64, 256, 512)
    BY SMT DEF Distinct
  <2> QED
    BY <2>1, Counts
<1>3. q < 1 => reached = {}
  BY SMT DEF cst
<1>4. 1 <= q /\ q < 4 => reached = {1}
  BY SMT DEF cst
<1>5. 4 <= q /\ q < 16 => reached = {1, 4}
  BY SMT DEF cst
<1>6. 16 <= q /\ q < 64 => reached = {1, 4, 16}
  BY SMT DEF cst
<1>7. 64 <= q /\ q < 256 => reached = {1, 4, 16, 64}
  BY SMT DEF cst
<1>8. 256 <= q /\ q < 512 => reached = {1, 4, 16, 64, 256}
  BY SMT DEF cst
<1>9. 512 <= q => reached = {1, 4, 16, 64, 256, 512}
  BY SMT DEF cst
<1> HIDE DEF reached
<1> QED
  BY <1>1, <1>2, <1>3, <1>4, <1>5, <1>6, <1>7, <1>8, <1>9, PowersAre, SMTT(30)
     DEF reached, Numbered

(* The steps of the table of FAT32 that a volume reaches.                  *)
LEMMA StepsFAT32 ==
  ASSUME NEW q \in Nat
  PROVE  LET size == 2 ^ Cardinality({c \in cst32 : c <= q}) IN
         /\ q < 1 => size = 1
         /\ 1 <= q /\ q < 2 => size = 2
         /\ 2 <= q /\ q < 4 => size = 4
         /\ 4 <= q /\ q < 8 => size = 8
         /\ 8 <= q /\ q < 16 => size = 16
         /\ 16 <= q /\ q < 32 => size = 32
         /\ 32 <= q => size = 64
<1> DEFINE reached == {c \in cst32 : c <= q}
<1>1. 2 ^ Cardinality(reached) = Pow(Cardinality(reached))
  BY Zenon DEF Pow
<1>2. Numbered(1, 2, 4, 8, 16, 32)
  <2>1. Distinct(1, 2, 4, 8, 16, 32)
    BY SMT DEF Distinct
  <2> QED
    BY <2>1, Counts
<1>3. q < 1 => reached = {}
  BY SMT DEF cst32
<1>4. 1 <= q /\ q < 2 => reached = {1}
  BY SMT DEF cst32
<1>5. 2 <= q /\ q < 4 => reached = {1, 2}
  BY SMT DEF cst32
<1>6. 4 <= q /\ q < 8 => reached = {1, 2, 4}
  BY SMT DEF cst32
<1>7. 8 <= q /\ q < 16 => reached = {1, 2, 4, 8}
  BY SMT DEF cst32
<1>8. 16 <= q /\ q < 32 => reached = {1, 2, 4, 8, 16}
  BY SMT DEF cst32
<1>9. 32 <= q => reached = {1, 2, 4, 8, 16, 32}
  BY SMT DEF cst32
<1> HIDE DEF reached
<1> QED
  BY <1>1, <1>2, <1>3, <1>4, <1>5, <1>6, <1>7, <1>8, <1>9, PowersAre, SMTT(30)
     DEF reached, Numbered

(* The cluster size by table, for a volume so many steps of the table long.  *)
TableOf(fsty, q32, q16) ==
  IF fsty = "FAT32" THEN 2 ^ Cardinality({c \in cst32 : c <= q32})
  ELSE 2 ^ Cardinality({c \in cst : c <= q16})

(* FromTable has its steps in 4096 or 131072 sectors.                      *)
LEMMA FromTableOf ==
  ASSUME NEW t, NEW size PROVE FromTable(t, size) = TableOf(t, size \div 131072, size \div 4096)
BY SMT DEF FromTable, TableOf

(* A table gives a size a cluster can have.                                *)
LEMMA FromTableIs ==
  ASSUME NEW size \in Nat, NEW t PROVE FromTable(t, size) \in Paus
<1>0. PICK q32 \in Nat, q16 \in Nat : FromTable(t, size) = TableOf(t, q32, q16)
  <2>1. size \div 131072 \in Nat /\ size \div 4096 \in Nat
    BY SMT
  <2> QED
    BY <2>1, FromTableOf
<1>1. CASE t = "FAT32"
  <2>2. FromTable(t, size) = 2 ^ Cardinality({c \in cst32 : c <= q32})
    BY <1>0, <1>1, Zenon DEF TableOf
  <2> DEFINE p == 2 ^ Cardinality({c \in cst32 : c <= q32})
  <2>3. /\ q32 < 1 => p = 1 
        /\ 1 <= q32 /\ q32 < 2 => p = 2
        /\ 2 <= q32 /\ q32 < 4 => p = 4 
        /\ 4 <= q32 /\ q32 < 8 => p = 8
        /\ 8 <= q32 /\ q32 < 16 => p = 16 
        /\ 16 <= q32 /\ q32 < 32 => p = 32
        /\ 32 <= q32 => p = 64
    BY StepsFAT32
  <2> HIDE DEF p
  <2>4. p \in Paus
    BY <2>3, SMT DEF Paus
  <2> QED
    BY <2>2, <2>4 DEF p
<1>2. CASE t # "FAT32"
  <2>2. FromTable(t, size) = 2 ^ Cardinality({c \in cst : c <= q16})
    BY <1>0, <1>2, Zenon DEF TableOf
  <2> DEFINE p == 2 ^ Cardinality({c \in cst : c <= q16})
  <2>3. /\ q16 < 1 => p = 1 
        /\ 1 <= q16 /\ q16 < 4 => p = 2
        /\ 4 <= q16 /\ q16 < 16 => p = 4 
        /\ 16 <= q16 /\ q16 < 64 => p = 8
        /\ 64 <= q16 /\ q16 < 256 => p = 16 
        /\ 256 <= q16 /\ q16 < 512 => p = 32
        /\ 512 <= q16 => p = 64
    BY StepsFAT16
  <2> HIDE DEF p
  <2>4. p \in Paus
    BY <2>3, SMT DEF Paus
  <2> QED
    BY <2>2, <2>4 DEF p
<1> QED
  BY <1>1, <1>2

-----------------------------------------------------------------------------
(* What the loop tries.                                                    *)

(* Where the volume begins and how long it is.                             *)
LEMMA SizeIs ==
  ASSUME NEW o, drive \in Drives
  PROVE  /\ b_vol(o, drive) \in Starts /\ sz_vol(o, drive) \in Nat
         /\ b_vol(o, drive) + sz_vol(o, drive) = drive
         /\ sz_vol(o, drive) >= 128 =>
              b_vol(o, drive) = IF "SFD" \in o.fmt THEN 0 ELSE N_SEC_TRACK
<1>1. PICK n \in Nat : n = drive
  BY DriveIs, PowersAre, SMT
<1>2. CASE Partitioned(o, drive)
  <2>1. n > 63 /\ "SFD" \notin o.fmt
    BY <1>1, <1>2 DEF Partitioned, N_SEC_TRACK
  <2>2. b_vol(o, drive) = 63 /\ sz_vol(o, drive) = n - 63
    BY <1>1, <1>2 DEF b_vol, sz_vol, N_SEC_TRACK
  <2> QED
    BY <1>1, <2>1, <2>2, SMT DEF Starts, N_SEC_TRACK
<1>3. CASE ~Partitioned(o, drive)
  <2>1. ~(n > 63) \/ "SFD" \in o.fmt
    BY <1>1, <1>3 DEF Partitioned, N_SEC_TRACK
  <2>2. b_vol(o, drive) = 0 /\ sz_vol(o, drive) = n - 0
    BY <1>1, <1>3 DEF b_vol, sz_vol
  <2> QED
    BY <1>1, <2>1, <2>2, SMT DEF Starts, N_SEC_TRACK
<1> QED
  BY <1>2, <1>3

(* While the loop runs.                                                    *)
Looking ==
  /\ mk \in [pc : {"rounds"}, res : {"OK"}, opt : Opts, fsty : {"FAT16", "FAT32"},
              sz_au : {0} \cup Paus]
  /\ sz_vol(mk.opt, drive) >= 128 /\ fs = NotMounted

(* While the loop runs, its guess is a proper one.                         *)
LEMMA GuessIs ==
  ASSUME drive \in Drives, Looking
  PROVE  GuessOK(Guess) /\ Guess.guess = Size \div Guess.pau
<1>1. Size \in Nat /\ b_vol(mk.opt, drive) \in Starts /\ OptionOK(mk.opt)
  BY SizeIs, OptionIs DEF Size, Looking
<1> DEFINE pau == IF mk.sz_au = 0 THEN FromTable(mk.fsty, Size) ELSE mk.sz_au
<1>2. pau \in Paus
  <2>1. FromTable(mk.fsty, Size) \in Paus
    BY <1>1, FromTableIs
  <2> QED
    BY <2>1, Zenon DEF Looking
<1>3. /\ Guess.pau = pau /\ Guess.guess = Size \div pau
      /\ Guess.fsty = IF mk.fsty # "FAT32" /\ Size \div pau <= MAX_FAT12 THEN "FAT12" ELSE mk.fsty
  BY Zenon DEF Guess, Size
<1> HIDE DEF pau
<1>4. Guess.guess \in Nat
  BY <1>1, <1>2, <1>3, DivFacts
<1>5. Guess.fsty \in Types
  BY <1>3 DEF Types, Looking
<1> QED
  BY <1>1, <1>2, <1>3, <1>4, <1>5, Zenon DEF GuessOK

-----------------------------------------------------------------------------
(* The invariant.                                                          *)

(* Once a volume is made: what mk kept of it, where it is found and, if it *)
(* has been mounted since, as what.                                        *)
Kept ==
  /\ mk.opt \in Opts /\ Written(mk.layout, mk.opt) /\ mk.cleared = Cleared(mk.layout)
  /\ Booted(boot, mk.layout)
  /\ fs # NotMounted => fs = Analysed(VBR(mk.layout), mk.layout.b_vol)

IInv == TypeOK /\ (mk.pc = "rounds" => Looking) /\ (Made => Kept)

(* What Verdict can come to.                                               *)
LEMMA VerdictIs ==
  ASSUME NEW l
  PROVE  Verdict(l) \in {Abort, TooFewFat32(l), TooManyFat16(l), TooFewFat16(l), Take}
<1> DEFINE a == l.fsty = "FAT32" /\ (l.guess <= MAX_FAT16 \/ l.guess > MAX_FAT32)
           b == TooSmall(l)
           c == l.fsty = "FAT32" /\ ~TooSmall(l) /\ l.n_clst <= MAX_FAT16
           d == l.fsty = "FAT16" /\ ~TooSmall(l) /\ l.n_clst > MAX_FAT16
           e == l.fsty = "FAT16" /\ ~TooSmall(l) /\ l.n_clst <= MAX_FAT12
           f == l.fsty = "FAT12" /\ ~TooSmall(l) /\ l.n_clst > MAX_FAT12
<1>1. Verdict(l) = CASE a -> Abort [] b -> Abort [] c -> TooFewFat32(l) [] d -> TooManyFat16(l)
                     [] e -> TooFewFat16(l) [] f -> Abort [] OTHER -> Take
  BY Zenon DEF Verdict
<1> HIDE DEF a, b, c, d, e, f
<1> QED
  BY <1>1, Zenon

(* The loop goes round with a type and a cluster size that are possible.   *)
LEMMA AgainIs ==
  ASSUME Looking, NEW l, l.pau \in Paus, Verdict(l).go = "again"
  PROVE  Verdict(l).fsty \in {"FAT16", "FAT32"} /\ Verdict(l).sz_au \in {0} \cup Paus
<1>1. PICK p \in Paus, au \in {0} \cup Paus : p = l.pau /\ au = mk.sz_au
  BY DEF Looking
<1>2. Abort.go = "abort" /\ Take.go = "take"
  BY DEF Abort, Take
<1>3. ASSUME NEW v \in {TooFewFat32(l), TooManyFat16(l), TooFewFat16(l)}, v.go = "again"
      PROVE  v.fsty \in {"FAT16", "FAT32"} /\ v.sz_au \in {0} \cup Paus
  <2>1. CASE v = TooFewFat32(l)
    <3>1. v = Again("FAT32", p \div 2) /\ p > 1
      BY <1>1, <1>2, <1>3, <2>1 DEF TooFewFat32
    <3> QED
      BY <3>1, SMT DEF Again, Paus
  <2>2. CASE v = TooManyFat16(l)
    <3>1. \/ v = Again("FAT16", p * 2) /\ p * 2 <= 64
          \/ v = Again("FAT32", au)
          \/ v = Again("FAT16", p * 2) /\ p * 2 <= 128
      BY <1>1, <1>2, <1>3, <2>2 DEF TooManyFat16
    <3>2. p * 2 <= 128 => p * 2 \in Paus
      BY SMT DEF Paus
    <3>3. p * 2 <= 64 => p * 2 <= 128
      BY SMT DEF Paus
    <3> QED
      BY <3>1, <3>2, <3>3 DEF Again
  <2>3. CASE v = TooFewFat16(l)
    <3>1. v = Again("FAT16", p * 2) /\ p * 2 <= 128
      BY <1>1, <1>2, <1>3, <2>3 DEF TooFewFat16
    <3> QED
      BY <3>1, SMT DEF Again, Paus
  <2> QED
    BY <2>1, <2>2, <2>3
<1> QED
  BY <1>2, <1>3, VerdictIs, Zenon

(* What is so of the layout of a round.                                    *)
LEMMA TriedIs ==
  ASSUME drive \in Drives, Looking, NEW l \in Tried
  PROVE  /\ l = Layout(Guess) /\ Placed(l, mk.opt) /\ l.pau \in Paus /\ l.fsty \in Types
         /\ l.guess = l.sz_vol \div l.pau /\ l.sz_vol >= 128
         /\ l.b_vol \in Starts /\ l.b_vol + l.sz_vol = drive
         /\ l.b_vol = IF "SFD" \in mk.opt.fmt THEN 0 ELSE N_SEC_TRACK
<1>1. l = Layout(Guess)
  BY DEF Tried
<1>2. GuessOK(Guess) /\ Guess.guess = Size \div Guess.pau
  BY GuessIs
<1>3. Placed(l, mk.opt)
  BY <1>1, <1>2, LayoutIs
<1>4. /\ l.fsty = Guess.fsty /\ l.pau = Guess.pau /\ l.guess = Guess.guess
      /\ l.b_vol = b_vol(mk.opt, drive) /\ l.sz_vol = sz_vol(mk.opt, drive)
  BY <1>1, LayoutAny, Zenon DEF Size
<1>5. Guess.pau \in Paus /\ Guess.fsty \in Types
  BY <1>2, Zenon DEF GuessOK
<1>6. l.guess = l.sz_vol \div l.pau
  BY <1>2, <1>4, Zenon DEF Size
<1>7. sz_vol(mk.opt, drive) >= 128
  BY Zenon DEF Looking
<1>8. /\ b_vol(mk.opt, drive) \in Starts /\ b_vol(mk.opt, drive) + sz_vol(mk.opt, drive) = drive
      /\ b_vol(mk.opt, drive) = IF "SFD" \in mk.opt.fmt THEN 0 ELSE N_SEC_TRACK
  BY <1>7, SizeIs, Zenon
<1>9. /\ l.b_vol \in Starts /\ l.b_vol + l.sz_vol = drive /\ l.sz_vol >= 128
      /\ l.b_vol = IF "SFD" \in mk.opt.fmt THEN 0 ELSE N_SEC_TRACK
  BY <1>4, <1>7, <1>8, Zenon
<1> QED
  BY <1>1, <1>3, <1>4, <1>5, <1>6, <1>9, Zenon

(* A layout that is taken may be written.                                  *)
LEMMA TakenWritten ==
  ASSUME drive \in Drives, Looking, NEW l \in Tried, Verdict(l).go = "take"
  PROVE  Written(l, mk.opt)
<1>1. Passes(l)
  BY TriedIs, TakenPasses, Zenon DEF Placed
<1>2. Sound(l)
  BY <1>1, TriedIs, Sound16, Sound32, Zenon
<1> QED
  BY <1>1, <1>2, TriedIs, Zenon DEF Written, Passes

(* A blank drive.                                                          *)
LEMMA InitHolds == Init => IInv
<1> SUFFICES ASSUME Init PROVE IInv
  OBVIOUS
<1>1. TypeOK
  <2>1. 0 \in 0 .. 2
    BY SMT
  <2>2. N_SEC_TRACK = 63
    BY DEF N_SEC_TRACK
  <2>3. DOMAIN boot = {0, N_SEC_TRACK} /\ boot[0] = Blank /\ boot[N_SEC_TRACK] = Blank
    BY DEF Init
  <2> QED
    BY <2>1, <2>3, Zenon DEF Init, TypeOK, Blank, NotMounted
<1>2. mk.pc = "idle" /\ mk.res = "none"
  BY DEF Init
<1> QED
  BY <1>1, <1>2, Zenon DEF IInv, Made

(* One lemma for each action.                                              *)
LEMMA BeginKeeps == ASSUME IInv, NEW o \in Opts, Begin(o) PROVE IInv'
<1>1. /\ mk' \in [pc : {"idle"}, res : {"MKFS_ABORTED", "INVALID_PARAMETER"}, opt : {o},
                  fsty : {"FAT16", "FAT32"}, sz_au : {IF AU(o) > 128 THEN 128 ELSE AU(o)}]
      \/ /\ sz_vol(o, drive) >= 128
         /\ mk' = [pc |-> "rounds", res |-> "OK", opt |-> o,
                   fsty |-> IF "FAT32" \in o.fmt /\ "FAT" \notin o.fmt THEN "FAT32" ELSE "FAT16",
                   sz_au |-> IF AU(o) > 128 THEN 128 ELSE AU(o)]
  <2>1. ~(sz_vol(o, drive) < 128) => sz_vol(o, drive) >= 128
    <3>1. PICK n \in Nat : n = sz_vol(o, drive)
      BY SizeIs DEF IInv, TypeOK
    <3> QED
      BY <3>1, SMT
  <2> QED
    BY <2>1, Zenon DEF Begin
<1>2. /\ drive' = drive /\ boot' = boot /\ formats' = formats + 1 /\ formats < 2 /\ fs' = NotMounted
  BY Zenon DEF Begin
<1>3. formats' \in 0 .. 2
  BY <1>2, SMT DEF IInv, TypeOK
<1>4. TypeOK'
  <2>1. mk'.pc \in {"idle", "rounds"} /\ mk'.res \in {"none", "OK", "MKFS_ABORTED", "INVALID_PARAMETER"}
    BY <1>1, SMT
  <2>2. fs'.res = "none"
    BY <1>2 DEF NotMounted
  <2> QED
    BY <1>2, <1>3, <2>1, <2>2, Zenon DEF IInv, TypeOK
<1>5. CASE mk'.pc = "idle"
  <2>1. mk'.res # "OK" /\ mk'.pc # "rounds"
    BY <1>1, <1>5, SMT
  <2> QED
    BY <1>4, <2>1, Zenon DEF IInv, Made
<1>6. CASE mk'.pc # "idle"
  <2>1. /\ sz_vol(o, drive) >= 128
        /\ mk' = [pc |-> "rounds", res |-> "OK", opt |-> o,
                  fsty |-> IF "FAT32" \in o.fmt /\ "FAT" \notin o.fmt THEN "FAT32" ELSE "FAT16",
                  sz_au |-> IF AU(o) > 128 THEN 128 ELSE AU(o)]
    BY <1>1, <1>6, Zenon
  <2>2. (IF AU(o) > 128 THEN 128 ELSE AU(o)) \in {0} \cup Paus
    <3>1. PICK n \in Nat : n = AU(o) /\ (n <= 128 => n \in {0} \cup Paus)
      BY OptionIs DEF OptionOK
    <3> QED
      BY <3>1, SMT DEF Paus
  <2>3. Looking'
    BY <1>2, <2>1, <2>2, Zenon DEF Looking
  <2> QED
    BY <1>4, <1>6, <2>3, Zenon DEF IInv, Made
<1> QED
  BY <1>5, <1>6

LEMMA GoRoundKeeps == ASSUME IInv, GoRound PROVE IInv'
<1>1. PICK l \in Tried : /\ Verdict(l).go = "again"
                         /\ mk' = [mk EXCEPT !.fsty = Verdict(l).fsty, !.sz_au = Verdict(l).sz_au]
  BY Zenon DEF GoRound
<1>2. mk.pc = "rounds" /\ drive' = drive /\ boot' = boot /\ formats' = formats /\ fs' = fs
  BY Zenon DEF GoRound
<1>3. Looking /\ drive \in Drives
  BY <1>2 DEF IInv, TypeOK
<1>4. Verdict(l).fsty \in {"FAT16", "FAT32"} /\ Verdict(l).sz_au \in {0} \cup Paus
  BY <1>1, <1>3, TriedIs, AgainIs
<1>5. PICK v \in {"FAT16", "FAT32"}, w \in {0} \cup Paus : mk' = [mk EXCEPT !.fsty = v, !.sz_au = w]
  BY <1>1, <1>4, Zenon
<1>6. Looking' /\ mk'.pc = "rounds" /\ mk'.res = "OK"
  BY <1>2, <1>3, <1>5, Zenon DEF Looking
<1>7. TypeOK'
  BY <1>2, <1>6, Zenon DEF IInv, TypeOK
<1> QED
  BY <1>6, <1>7, Zenon DEF IInv, Made

LEMMA GiveUpKeeps == ASSUME IInv, GiveUp PROVE IInv'
<1>1. /\ mk.pc = "rounds" /\ mk' = [mk EXCEPT !.pc = "idle", !.res = "MKFS_ABORTED"]
      /\ drive' = drive /\ boot' = boot /\ formats' = formats /\ fs' = fs
  BY Zenon DEF GiveUp
<1>2. Looking
  BY <1>1 DEF IInv
<1>3. mk'.pc = "idle" /\ mk'.res = "MKFS_ABORTED"
  BY <1>1, <1>2, Zenon DEF Looking
<1>4. TypeOK'
  BY <1>1, <1>3, Zenon DEF IInv, TypeOK
<1> QED
  BY <1>3, <1>4, Zenon DEF IInv, Made

LEMMA MountKeeps == ASSUME IInv, Mount PROVE IInv'
<1>1. /\ mk.pc = "idle" /\ drive' = drive /\ boot' = boot /\ formats' = formats /\ mk' = mk
      /\ fs' = IF find_volume.fmt >= 2 THEN [res |-> "NO_FILESYSTEM"]
               ELSE Analysed(boot[find_volume.bsect], find_volume.bsect)
  BY Zenon DEF Mount
<1>2. fs'.res \in {"OK", "NO_FILESYSTEM"}
  <2>1. ASSUME NEW s, NEW b PROVE Analysed(s, b).res \in {"OK", "NO_FILESYSTEM"}
    BY AnalysedIs, Zenon DEF Mounted
  <2> QED
    BY <1>1, <2>1, Zenon
<1>3. TypeOK'
  BY <1>1, <1>2, Zenon DEF IInv, TypeOK
<1>4. ASSUME Made PROVE Kept'
  <2>1. Kept
    BY <1>4 DEF IInv
  <2>2. find_volume = [fmt |-> 0, bsect |-> mk.layout.b_vol] /\ boot[mk.layout.b_vol] = VBR(mk.layout)
    BY <2>1, Found, Zenon DEF Kept
  <2>3. fs' = Analysed(VBR(mk.layout), mk.layout.b_vol)
    <3>1. ~(0 >= 2)
      BY SMT
    <3>2. find_volume.fmt = 0 /\ find_volume.bsect = mk.layout.b_vol
      BY <2>2
    <3> QED
      BY <1>1, <2>2, <3>1, <3>2, Zenon
  <2> QED
    BY <1>1, <2>1, <2>3 DEF Kept, Written, Booted
<1>5. Made' => Made
  BY <1>1 DEF Made
<1> QED
  BY <1>1, <1>3, <1>4, <1>5, Zenon DEF IInv

LEMMA WriteKeeps == ASSUME IInv, Write PROVE IInv'
<1>1. PICK l \in Tried :
        /\ Verdict(l).go = "take"
        /\ mk' = [pc |-> "idle", res |-> "OK", opt |-> mk.opt, fsty |-> l.fsty, sz_au |-> mk.sz_au,
                  layout |-> l, cleared |-> Cleared(l)]
        /\ boot' = [s \in {0, N_SEC_TRACK} |->
                     CASE s = l.b_vol -> VBR(l)
                       [] s # l.b_vol /\ "SFD" \notin mk.opt.fmt -> MBR(l)
                       [] s # l.b_vol /\ "SFD" \in mk.opt.fmt /\ s \in Filled(l) -> Blank
                       [] OTHER -> boot[s]]
  BY Zenon DEF Write
<1>2. mk.pc = "rounds" /\ drive' = drive /\ formats' = formats /\ fs' = fs
  BY Zenon DEF Write
<1>3. Looking /\ drive \in Drives /\ fs = NotMounted
  BY <1>2 DEF IInv, TypeOK, Looking
<1>4. Written(l, mk.opt) /\ l.b_vol = IF "SFD" \in mk.opt.fmt THEN 0 ELSE N_SEC_TRACK
  BY <1>1, <1>3, TakenWritten, TriedIs, Zenon
<1>5. /\ DOMAIN boot = {0, N_SEC_TRACK} /\ 0 # N_SEC_TRACK
      /\ boot[0].kind \in {"none", "vbr", "mbr"} /\ boot[N_SEC_TRACK].kind \in {"none", "vbr"}
  <2>1. 0 # N_SEC_TRACK
    BY SMT DEF N_SEC_TRACK
  <2> QED
    BY <2>1, Zenon DEF IInv, TypeOK
<1>6. VBR(l).kind = "vbr" /\ Blank.kind = "none" /\ MBR(l).kind = "mbr" /\ MBR(l).StLba = N_SEC_TRACK
  BY DEF VBR, Blank, MBR
<1>7. /\ DOMAIN boot' = {0, N_SEC_TRACK} /\ Booted(boot', l)
      /\ boot'[0].kind \in {"vbr", "mbr"} /\ boot'[N_SEC_TRACK].kind \in {"none", "vbr"}
  <2> DEFINE k == N_SEC_TRACK
  <2>1. DOMAIN boot' = {0, k}
    BY <1>1, Zenon
  <2>2. CASE "SFD" \in mk.opt.fmt
    <3>1. l.b_vol = 0
      BY <1>4, <2>2
    <3>2. boot'[0] = VBR(l) /\ boot'[k] \in {Blank, boot[k]}
      BY <1>1, <1>5, <2>2, <3>1, Zenon
    <3> QED
      BY <1>5, <1>6, <2>1, <3>1, <3>2, Zenon DEF Booted
  <2>3. CASE "SFD" \notin mk.opt.fmt
    <3>1. l.b_vol = k
      BY <1>4, <2>3
    <3>2. boot'[k] = VBR(l) /\ boot'[0] = MBR(l)
      BY <1>1, <1>5, <2>3, <3>1, Zenon
    <3> QED
      BY <1>6, <2>1, <3>1, <3>2, Zenon DEF Booted
  <2> QED
    BY <2>2, <2>3
<1>8. /\ mk'.pc = "idle" /\ mk'.res = "OK" /\ mk'.opt = mk.opt /\ mk'.layout = l
      /\ mk'.cleared = Cleared(l)
  BY <1>1, Zenon
<1>9. TypeOK'
  BY <1>2, <1>3, <1>7, <1>8, Zenon DEF IInv, TypeOK
<1>10. Kept'
  BY <1>2, <1>3, <1>4, <1>7, <1>8, Zenon DEF Kept, Written, Looking
<1> QED
  BY <1>8, <1>9, <1>10, Zenon DEF IInv

LEMMA StutterKeeps == ASSUME IInv, UNCHANGED vars PROVE IInv'
<1>1. drive' = drive /\ boot' = boot /\ formats' = formats /\ mk' = mk /\ fs' = fs
  BY DEF vars
<1>2. TypeOK'
  BY <1>1, Zenon DEF IInv, TypeOK
<1>3. Looking => Looking'
  BY <1>1 DEF Looking
<1>4. Kept => Kept'
  BY <1>1 DEF Kept, Written, Booted
<1> QED
  BY <1>1, <1>2, <1>3, <1>4, Zenon DEF IInv, Made

LEMMA StepKeeps == ASSUME IInv, [Next]_vars PROVE IInv'
BY BeginKeeps, GoRoundKeeps, GiveUpKeeps, WriteKeeps, MountKeeps, StutterKeeps DEF Next, Opts

(* The invariant holds of every behaviour.                                 *)
LEMMA AlwaysIInv == Spec => []IInv
<1>1. IInv /\ [Next]_vars => IInv'
  BY StepKeeps
<1> QED
  BY <1>1, InitHolds, PTL DEF Spec

-----------------------------------------------------------------------------
(* What follows from it.                                                   *)

(* However the loop of f_mkfs chose and moved them, the areas of the       *)
(* volume it made are apart, inside the drive and at a block, and its FATs *)
(* have an entry for every cluster: for any drive up to 2^28 sectors and   *)
(* any options.                                                            *)
THEOREM FormatSound == Spec => []FormatInv
<1>1. IInv => FormatInv
  <2> SUFFICES ASSUME IInv, Made PROVE RegionsApart
    BY Zenon DEF IInv, FormatInv, RegionsApart
  <2> DEFINE l == mk.layout
             data == l.b_vol + l.sz_rsv + l.sz_fat * l.n_fat + l.sz_dir
             bits == Bits(l.fsty)
  <2>1. Written(l, mk.opt)
    BY Zenon DEF IInv, Kept
  <2>2. /\ data + l.n_clst * l.pau <= drive
        /\ l.fsty = "FAT32" => l.sz_rsv > 7
        /\ ((l.n_clst + 2) \div 8) * bits + (((l.n_clst + 2) % 8) * bits + 7) \div 8 <= l.sz_fat * SS
        /\ data % sz_blk(mk.opt) = 0
    BY <2>1, Regions
  <2> QED
    BY <2>2, Zenon DEF RegionsApart, Bits
<1> QED
  BY <1>1, AlwaysIInv, PTL

(* mount_volume finds the volume f_mkfs made last, on any drive and        *)
(* whatever was on it before, unless f_mkfs made one without a cluster,    *)
(* which it reports as a success and mount_volume refuses.                 *)
THEOREM MountedAsMade == Spec => []((Made => mk.layout.n_clst # 0) => MountsFormat)
<1>1. IInv => ((Made => mk.layout.n_clst # 0) => MountsFormat)
  <2> SUFFICES ASSUME IInv, Made, fs # NotMounted, mk.layout.n_clst # 0 PROVE MountsFormat
    BY Zenon DEF MountsFormat
  <2> DEFINE l == mk.layout
             s == VBR(l)
  <2>1. Written(l, mk.opt) /\ fs = Analysed(s, l.b_vol)
    BY Zenon DEF IInv, Kept
  <2>2. fs = Mounted(s, l.b_vol)
    BY <2>1, RecordGood, AnalysedIs, Zenon
  <2>3. Recorded(s, l) /\ sysect(s) = Sys(l) /\ nclst(s) = l.n_clst /\ fmt(s) = l.fsty
    BY <2>1, RecordKept, VolumeComputed
  <2>4. l.b_vol + Sys(l) = (l.b_vol + l.sz_rsv) + l.sz_fat * l.n_fat + l.sz_dir
    <3>1. PICK B \in Nat, rsv \in Nat, fat \in Nat, nf \in {1, 2}, dir \in Nat :
            B = l.b_vol /\ rsv = l.sz_rsv /\ fat = l.sz_fat /\ nf = l.n_fat /\ dir = l.sz_dir
      BY <2>1, Zenon DEF Written, Placed, Numbers
    <3>2. PICK k \in Nat : k = fat * nf
      BY SMT
    <3>3. Sys(l) = rsv + k + dir
      BY <3>1, <3>2 DEF Sys
    <3> QED
      BY <3>1, <3>2, <3>3, SMT
  <2> HIDE DEF s, l
  <2>5. /\ fs.res = "OK" /\ fs.fs_type = l.fsty /\ fs.csize = l.pau /\ fs.n_fatent = l.n_clst + 2
        /\ fs.volbase = l.b_vol /\ fs.fatbase = l.b_vol + l.sz_rsv /\ fs.fsize = l.sz_fat
        /\ fs.database = l.b_vol + Sys(l)
        /\ fs.free_clst \in {-1, l.n_clst - 1} /\ fs.last_clst \in {-1, 2}
    BY <2>2, <2>3, Zenon DEF Mounted, Recorded
  <2> QED
    BY <2>4, <2>5, Zenon DEF MountsFormat, l
<1> QED
  BY <1>1, AlwaysIInv, PTL

(* f_mkfs made one with clusters if it is not a FAT12, or if a block of    *)
(* the medium is at most fifteen clusters long: TooSmall left room for     *)
(* sixteen.                                                                *)
THEOREM HasClusters ==
  Spec => [](Made => LET l == mk.layout IN
               l.fsty # "FAT12" \/ sz_blk(mk.opt) <= 15 * l.pau => l.n_clst # 0)
<1>1. ASSUME IInv, Made, mk.layout.fsty # "FAT12" \/ sz_blk(mk.opt) <= 15 * mk.layout.pau
      PROVE  mk.layout.n_clst # 0
  <2> DEFINE l == mk.layout
             o == mk.opt
  <2>1. Written(l, o) /\ OptionOK(o)
    BY <1>1, OptionIs, Zenon DEF IInv, Kept
  <2>2. PICK S \in Nat, p \in Paus, n \in Nat, B \in Nat, d \in Nat, s \in Nat :
          /\ S = l.sz_vol /\ p = l.pau /\ n = l.n_clst /\ B = l.b_vol /\ d = l.b_data0 /\ s = Sys(l)
    BY <2>1, Zenon DEF Written, Placed, Numbers, Moved
  <2>3. s <= S /\ n = (S - s) \div p /\ FitsType(l.fsty, n) /\ l.fsty \in Types
    BY <2>1, <2>2, Zenon DEF Written, Sound
  <2>4. CASE l.fsty # "FAT12"
    BY <2>2, <2>3, <2>4, SMT DEF FitsType, Types
  <2>5. CASE sz_blk(o) <= 15 * p
    <3>1. PICK b : b = sz_blk(o) /\ IsBlock(b) /\ b <= 15 * p
      BY <2>1, <2>5, Zenon DEF OptionOK
    <3>2. ~(S < d + p * 16 - B)
      BY <2>1, <2>2, Zenon DEF Written, TooSmall
    <3>3. B + s < d + b
      BY <2>1, <2>2, <3>1, Zenon DEF Written, Placed
    <3>4. S - s \in Nat /\ S - s >= p
      BY <2>3, <3>1, <3>2, <3>3, SMT DEF Paus, IsBlock
    <3>5. ASSUME NEW m \in Nat, m >= p PROVE m \div p # 0
      BY <3>5, SMT DEF Paus
    <3> QED
      BY <2>2, <2>3, <3>4, <3>5
  <2> QED
    BY <1>1, <2>2, <2>4, <2>5
<1>2. IInv => (Made => LET l == mk.layout IN
                 l.fsty # "FAT12" \/ sz_blk(mk.opt) <= 15 * l.pau => l.n_clst # 0)
  BY <1>1, Zenon
<1> QED
  BY <1>2, AlwaysIInv, PTL

(* The sectors f_mkfs zeroed behind the FATs are always those of the root  *)
(* directory of the volume that mount_volume then finds.                   *)
THEOREM RootAlwaysCleared == Spec => []RootCleared
<1>1. IInv => RootCleared
  <2> SUFFICES ASSUME IInv, Made, fs.res = "OK" PROVE RootCleared
    BY Zenon DEF RootCleared
  <2> DEFINE l == mk.layout
             s == VBR(l)
  <2>1. Written(l, mk.opt) /\ fs = Analysed(s, l.b_vol) /\ mk.cleared = Cleared(l)
    <3>1. fs # NotMounted
      BY SMT DEF NotMounted
    <3> QED
      BY <3>1, Zenon DEF IInv, Kept
  <2>2. fs = Mounted(s, l.b_vol)
    BY <2>1, AnalysedIs, Zenon
  <2>3. Recorded(s, l) /\ sysect(s) = Sys(l) /\ nclst(s) = l.n_clst /\ fmt(s) = l.fsty
    BY <2>1, RecordKept, VolumeComputed
  <2>4. PICK B \in Nat, rsv \in Nat, fat \in Nat, nf \in {1, 2}, dir \in Nat, p \in Paus :
          B = l.b_vol /\ rsv = l.sz_rsv /\ fat = l.sz_fat /\ nf = l.n_fat /\ dir = l.sz_dir /\ p = l.pau
    BY <2>1, Zenon DEF Written, Placed, Numbers
  <2>5. mk.cleared = [from |-> B + rsv + fat * nf, count |-> IF l.fsty = "FAT32" THEN p ELSE dir]
    BY <2>1, <2>4, Zenon DEF Cleared
  <2>6. CASE l.fsty = "FAT32"
    <3>1. /\ fs.fs_type = "FAT32" /\ fs.csize = p /\ fs.dirbase = 2
          /\ fs.database = B + (rsv + fat * nf + dir)
      BY <2>2, <2>3, <2>4, <2>6, Zenon DEF Mounted, Recorded, Sys
    <3>2. dir = 0
      BY <2>1, <2>4, <2>6, Zenon DEF Written, Placed, Shape32
    <3>3. fs.database + (fs.dirbase - 2) * fs.csize = B + rsv + fat * nf
      <4>1. PICK k \in Nat : k = fat * nf
        BY SMT
      <4> QED
        BY <3>1, <3>2, <4>1, SMT DEF Paus
    <3> QED
      BY <2>5, <2>6, <3>1, <3>3, Zenon DEF RootCleared
  <2>7. CASE l.fsty # "FAT32"
    <3>1. /\ fs.fs_type # "FAT32" /\ fs.dirbase = (B + rsv) + fat * nf /\ fs.n_rootdir = l.n_root
      BY <2>2, <2>3, <2>4, <2>7, Zenon DEF Mounted, Recorded
    <3>2. fs.n_rootdir \div (SS \div SZDIRE) = dir
      <4>1. SS \div SZDIRE = 16
        BY SMT DEF SS, SZDIRE
      <4> QED
        BY <2>1, <2>4, <2>7, <3>1, <4>1, Zenon DEF Written, Placed, Shape16
    <3> QED
      BY <2>5, <2>7, <3>1, <3>2, Zenon DEF RootCleared
  <2> QED
    BY <2>6, <2>7
<1> QED
  BY <1>1, AlwaysIInv, PTL

-----------------------------------------------------------------------------
(* The choice of a type and a cluster size.                                *)

(* Options that leave the choice to f_mkfs.                                *)
Default(o) == {"FAT", "FAT32"} \subseteq o.fmt /\ AU(o) = 0 /\ sz_blk(o) = 1 /\ n_root(o) <= 512

(* Numbers the provers are to know by name.                                *)
Huge(S) == 4193664 <= S
Vast(S) == 4194304 <= S
Within(S) == S <= 268435456
Many(n) == n > 65525
NotTooMany(n) == n <= 268435445

(* The boot area and the FATs of a FAT32 are few sectors beside its clusters. *)
Light(c, s) == 256 * s <= 4 * c + 8711

(* What the rounds come to, by type and cluster size, on such options.     *)
Narrow(S, t, au) ==
  \/ t = "FAT16" /\ au = 0
  \/ t = "FAT16" /\ au \in Paus /\ 2043 * au <= S /\ S < 4086 * au
  \/ t = "FAT16" /\ au \in {32, 64} /\ 32763 * au <= S /\ S < 32768 * au
  \/ t = "FAT32" /\ au \in {0, 32} /\ Huge(S)

(* The tables' cluster sizes, and the volumes they are for.                *)
By16(S, p) ==
  /\ p \in {1, 2, 4, 8, 16, 32, 64} /\ (p = 1 \/ 2048 * p <= S) /\ (p <= 8 => S < 32768 * p)
  /\ (p <= 32 => S < 65536 * p) /\ (p = 64 => 2097152 <= S)

(* FromTable for FAT12 and FAT16 ...                                       *)
LEMMA Table16 == ASSUME NEW S \in Nat PROVE By16(S, FromTable("FAT16", S))
<1>1. PICK r \in Nat, q \in Nat : q = S \div 4096 /\ FromTable("FAT16", S) = TableOf("FAT16", r, q)
  <2>1. S \div 131072 \in Nat /\ S \div 4096 \in Nat
    BY SMT
  <2> QED
    BY <2>1, FromTableOf
<1>2. FromTable("FAT16", S) = 2 ^ Cardinality({c \in cst : c <= q})
  <2>1. FromTable("FAT16", S) = TableOf("FAT16", r, q)
    BY <1>1
  <2> QED
    BY <2>1, Zenon DEF TableOf
<1> DEFINE p == 2 ^ Cardinality({c \in cst : c <= q})
<1>3. /\ q < 1 => p = 1
      /\ 1 <= q /\ q < 4 => p = 2
      /\ 4 <= q /\ q < 16 => p = 4
      /\ 16 <= q /\ q < 64 => p = 8
      /\ 64 <= q /\ q < 256 => p = 16
      /\ 256 <= q /\ q < 512 => p = 32
      /\ 512 <= q => p = 64
  BY StepsFAT16
<1> HIDE DEF p
<1>4. q * 4096 <= S /\ S < q * 4096 + 4096
  BY <1>1, SMT
<1>5. By16(S, p)
  BY <1>3, <1>4, SMT DEF By16
<1> QED
  BY <1>2, <1>5 DEF p

(* ... and for FAT32, on a volume too large for FAT16.                     *)
LEMMA Table32 ==
  ASSUME NEW S \in Nat, Huge(S)
  PROVE  \/ FromTable("FAT32", S) = 32
         \/ FromTable("FAT32", S) = 64 /\ Vast(S)
<1>1. PICK q \in Nat, r \in Nat : q = S \div 131072 /\ FromTable("FAT32", S) = TableOf("FAT32", q, r)
  <2>1. S \div 131072 \in Nat /\ S \div 4096 \in Nat
    BY SMT
  <2> QED
    BY <2>1, FromTableOf
<1>2. FromTable("FAT32", S) = 2 ^ Cardinality({c \in cst32 : c <= q})
  <2>1. FromTable("FAT32", S) = TableOf("FAT32", q, r)
    BY <1>1
  <2> QED
    BY <2>1, Zenon DEF TableOf
<1> DEFINE p == 2 ^ Cardinality({c \in cst32 : c <= q})
<1>3. (16 <= q /\ q < 32 => p = 32) /\ (32 <= q => p = 64)
  BY StepsFAT32
<1> HIDE DEF p
<1>4. 16 <= q /\ (32 <= q => Vast(S))
  BY <1>1, SMT DEF Huge, Vast
<1>5. p = 32 \/ (p = 64 /\ Vast(S))
  BY <1>3, <1>4, SMT
<1> QED
  BY <1>2, <1>5 DEF p

(* A layout with nothing to align: s sectors before the data area.         *)
Plain(S, p, c, s, n) == c = S \div p /\ n = AsDword(S - s) \div p

(* It is behind one sector, FATs of FAT16 at most and a short directory.   *)
Lean(S, p, c, s, n) == Plain(S, p, c, s, n) /\ 256 * s <= 2 * c + 8963

(* There is room for sixteen clusters, and the gap in the count is small.  *)
LEMMA LeanFits ==
  ASSUME NEW S \in Nat, NEW p \in Paus, NEW c \in Nat, NEW s \in Nat, NEW n \in Nat,
         Lean(S, p, c, s, n), S >= 128, p = 1 \/ 2043 * p <= S
  PROVE  s + 16 * p <= S /\ n <= c /\ n = (S - s) \div p
<1>1. c * p <= S /\ S < c * p + p /\ c <= S
  BY DivFacts DEF Lean, Plain
<1>2. s + 16 * p <= S
  BY <1>1, SMT DEF Paus, Lean
<1>3. AsDword(S - s) = S - s /\ s <= S
  BY <1>2, SMT DEF AsDword, Paus
<1>4. n = (S - s) \div p
  BY <1>3 DEF Lean, Plain
<1>5. n <= c
  BY <1>3, <1>4, SMT DEF Paus, Lean, Plain
<1> QED
  BY <1>2, <1>4, <1>5

(* Too many clusters for FAT16: the next size up is right, or FAT32 is.    *)
LEMMA ManyNarrows ==
  ASSUME NEW S \in Nat, NEW p \in Paus, NEW s \in Nat, NEW n \in Nat,
         By16(S, p), n = (S - s) \div p, s <= S, Many(n)
  PROVE  /\ p * 2 <= 64 => Narrow(S, "FAT16", p * 2)
         /\ ~(p * 2 <= 64) => Narrow(S, "FAT32", 0)
<1>1. S - s \in Nat
  BY SMT
<1>2. n * p <= S - s
  BY <1>1, DivFacts
<1>3. 65526 * p <= S
  BY <1>2, SMT DEF Paus, Many
<1>4. p \in {16, 32, 64}
  BY <1>3, SMT DEF By16
<1>5. CASE p = 16
  BY <1>3, <1>5, SMT DEF Narrow, By16
<1>6. CASE p = 32
  BY <1>3, <1>6, SMT DEF Narrow, By16
<1>7. CASE p = 64
  BY <1>3, <1>7, SMT DEF Narrow, Huge
<1> QED
  BY <1>4, <1>5, <1>6, <1>7, Zenon

(* Too few for FAT16: at the next size up it will be a FAT12.              *)
LEMMA FewNarrows ==
  ASSUME NEW S \in Nat, NEW p \in Paus, NEW c \in Nat, NEW s \in Nat, NEW n \in Nat,
         Lean(S, p, c, s, n), n = (S - s) \div p, s <= S, n <= 4085, c > 4085, p * 2 <= 128
  PROVE  Narrow(S, "FAT16", p * 2)
<1>1. S - s \in Nat
  BY SMT
<1>2. S - s < n * p + p
  BY <1>1, DivFacts
<1>3. c * p <= S
  BY DivFacts DEF Lean, Plain
<1>4. 4086 * p <= S /\ S < 8172 * p
  BY <1>2, <1>3, SMT DEF Paus, Lean
<1>5. p * 2 \in Paus
  BY SMT DEF Paus
<1> QED
  BY <1>4, <1>5, SMT DEF Narrow, Paus

(* That it is, once the loop has come there ...                            *)
LEMMA BetweenIsFat12 ==
  ASSUME NEW S \in Nat, NEW p \in Paus, S < 4086 * p PROVE S \div p <= 4085
BY SMT DEF Paus

(* ... and a FAT16 has the right number after too many.                    *)
LEMMA BetweenIsFat16 ==
  ASSUME NEW S \in Nat, NEW p \in {32, 64}, NEW c \in Nat, NEW s \in Nat, NEW n \in Nat,
         Lean(S, p, c, s, n), n = (S - s) \div p, s <= S, 32763 * p <= S, S < 32768 * p
  PROVE  c > 4085 /\ n > 4085 /\ n <= 65525
<1>1. CASE p = 32
  BY <1>1, SMT DEF Lean, Plain
<1>2. CASE p = 64
  BY <1>2, SMT DEF Lean, Plain
<1> QED
  BY <1>1, <1>2

(* The sizes of a FAT32 cluster the loop comes to are right for it.        *)
LEMMA Fat32Fits ==
  ASSUME NEW S \in Nat, Within(S), Huge(S), NEW p, p = 32 \/ (p = 64 /\ Vast(S)),
         NEW c \in Nat, NEW s \in Nat, NEW n \in Nat, Plain(S, p, c, s, n), Light(c, s)
  PROVE  /\ Many(c) /\ NotTooMany(c) /\ s + 16 * p <= S
         /\ p = 32 => Many(n)
<1>1. CASE p = 32
  <2>1. c = S \div 32 /\ n = AsDword(S - s) \div 32
    BY <1>1 DEF Plain
  <2>2. c * 32 <= S /\ Many(c) /\ NotTooMany(c)
    BY <2>1, SMT DEF Huge, Within, Many, NotTooMany
  <2>3. s + 512 <= S
    BY <2>2, SMT DEF Huge, Light
  <2>4. AsDword(S - s) = S - s
    BY <2>3, SMT DEF AsDword
  <2> QED
    BY <1>1, <2>1, <2>2, <2>3, <2>4, SMT DEF Huge, Many, Light
<1>2. CASE p = 64 /\ Vast(S)
  <2>1. c = S \div 64
    BY <1>2 DEF Plain
  <2> QED
    BY <1>2, <2>1, SMT DEF Huge, Vast, Within, Many, NotTooMany, Light
<1> QED
  BY <1>1, <1>2

(* Verdict for a layout that is not too small.                             *)
LEMMA VerdictOf ==
  ASSUME NEW l, l.n_clst \in Nat, ~TooSmall(l)
  PROVE  /\ l.fsty = "FAT12" /\ ~(l.n_clst > MAX_FAT12) => Verdict(l) = Take
         /\ l.fsty = "FAT16" /\ l.n_clst > MAX_FAT16 => Verdict(l) = TooManyFat16(l)
         /\ l.fsty = "FAT16" /\ ~(l.n_clst > MAX_FAT16) /\ l.n_clst <= MAX_FAT12 =>
              Verdict(l) = TooFewFat16(l)
         /\ l.fsty = "FAT16" /\ ~(l.n_clst > MAX_FAT16) /\ ~(l.n_clst <= MAX_FAT12) =>
              Verdict(l) = Take
         /\ l.fsty = "FAT32" /\ ~(l.guess <= MAX_FAT16 \/ l.guess > MAX_FAT32) =>
              Verdict(l) = IF l.n_clst <= MAX_FAT16 THEN TooFewFat32(l) ELSE Take
<1> DEFINE a == l.fsty = "FAT32" /\ (l.guess <= MAX_FAT16 \/ l.guess > MAX_FAT32)
           b == TooSmall(l)
           c == l.fsty = "FAT32" /\ ~TooSmall(l) /\ l.n_clst <= MAX_FAT16
           d == l.fsty = "FAT16" /\ ~TooSmall(l) /\ l.n_clst > MAX_FAT16
           e == l.fsty = "FAT16" /\ ~TooSmall(l) /\ l.n_clst <= MAX_FAT12
           f == l.fsty = "FAT12" /\ ~TooSmall(l) /\ l.n_clst > MAX_FAT12
<1>1. Verdict(l) = CASE a -> Abort [] b -> Abort [] c -> TooFewFat32(l) [] d -> TooManyFat16(l)
                     [] e -> TooFewFat16(l) [] f -> Abort [] OTHER -> Take
  BY Zenon DEF Verdict
<1> HIDE DEF a, b, c, d, e, f
<1>2. CASE l.fsty = "FAT12"
  <2>1. ~a /\ ~b /\ ~c /\ ~d /\ ~e /\ (f <=> l.n_clst > MAX_FAT12)
    BY <1>2, Zenon DEF a, b, c, d, e, f
  <2> QED
    BY <1>1, <1>2, <2>1, Zenon
<1>3. CASE l.fsty = "FAT16"
  <2>1. ~a /\ ~b /\ ~c /\ (d <=> l.n_clst > MAX_FAT16) /\ (e <=> l.n_clst <= MAX_FAT12) /\ ~f
    BY <1>3, Zenon DEF a, b, c, d, e, f
  <2>2. l.n_clst > MAX_FAT16 /\ l.n_clst <= MAX_FAT12 => FALSE
    BY SMT DEF MAX_FAT16, MAX_FAT12
  <2> QED
    BY <1>1, <1>3, <2>1, <2>2, Zenon
<1>4. CASE l.fsty = "FAT32"
  <2>1. /\ (a <=> l.guess <= MAX_FAT16 \/ l.guess > MAX_FAT32) /\ ~b /\ (c <=> l.n_clst <= MAX_FAT16)
        /\ ~d /\ ~e /\ ~f
    BY <1>4, Zenon DEF a, b, c, d, e, f
  <2> QED
    BY <1>1, <1>4, <2>1, Zenon
<1> QED
  BY <1>2, <1>3, <1>4, Zenon

(* A layout for options of which f_mkfs is to choose the best.             *)
Chosen(l, S, p, c, s, n) ==
  /\ S = l.sz_vol /\ S = Size /\ p = l.pau /\ c = l.guess /\ n = l.n_clst
  /\ Plain(S, p, c, s, n) /\ S >= 128 /\ Within(S)
  /\ (TooSmall(l) => S < s + 16 * p)
  /\ (l.fsty # "FAT32" => Lean(S, p, c, s, n))
  /\ (l.fsty = "FAT32" => Light(c, s))

(* So is every layout tried for such options.                              *)
LEMMA ChosenIs ==
  ASSUME drive \in Drives, Looking, NEW l \in Tried, Default(mk.opt)
  PROVE  \E S \in Nat, p \in Paus, c \in Nat, s \in Nat, n \in Nat : Chosen(l, S, p, c, s, n)
<1>1. /\ l = Layout(Guess) /\ Placed(l, mk.opt) /\ l.fsty \in Types
      /\ l.guess = l.sz_vol \div l.pau /\ l.sz_vol >= 128 /\ l.b_vol + l.sz_vol = drive
  BY TriedIs
<1>2. l.sz_vol = Size
  BY <1>1, LayoutAny, Zenon
<1>3. PICK S \in Nat, p \in Paus, c \in Nat, s \in Nat, n \in Nat, B \in Nat, d \in Nat,
           nf \in {1, 2}, dir \in Nat, f \in Nat :
        /\ S = l.sz_vol /\ p = l.pau /\ c = l.guess /\ s = Sys(l) /\ n = l.n_clst /\ B = l.b_vol
        /\ d = l.b_data0 /\ nf = l.n_fat /\ dir = l.sz_dir /\ f = Table(l.fsty, c)
  BY <1>1, Zenon DEF Placed, Numbers, Moved
<1>4. Plain(S, p, c, s, n)
  BY <1>1, <1>3, Zenon DEF Placed, Plain
<1>5. B + s = d
  <2>1. Grown(B + s, d) /\ B + s < d + 1
    BY <1>1, <1>3 DEF Placed, Moved, Default
  <2> QED
    BY <2>1, SMT DEF Grown
<1>6. Within(S)
  <2>1. PICK top \in Nat : top = Pow(28) /\ Within(top)
    BY PowersAre, SMT DEF Within
  <2>2. drive \in 1 .. top
    BY <2>1, DriveIs, Zenon
  <2>3. S <= top
    BY <1>1, <1>3, <2>2, SMT
  <2> QED
    BY <2>1, <2>3, SMT DEF Within
<1>7. TooSmall(l) => S < s + 16 * p
  <2>1. TooSmall(l) => S < d + p * 16 - B
    BY <1>3, Zenon DEF TooSmall
  <2> QED
    BY <1>5, <2>1, SMT DEF Paus
<1>8. f * nf <= 2 * f /\ f * nf \in Nat
  BY SMT
<1>9. ASSUME l.fsty # "FAT32" PROVE 256 * s <= 2 * c + 8963
  <2>1. /\ d = B + 1 + f * nf + dir
        /\ FillsSectors(l.n_root) /\ dir = l.n_root \div 16 /\ l.n_root = n_root(mk.opt)
    <3>1. Guess.fsty # "FAT32"
      BY <1>1, <1>9, LayoutAny, Zenon
    <3>2. l.n_root = n_root(mk.opt)
      BY <1>1, <3>1, LayoutOf16, Zenon
    <3> QED
      BY <1>1, <1>3, <1>9, <3>2, Zenon DEF Placed, Shape16, StartsAt
  <2>2. dir <= 32
    <3>1. ASSUME NEW m, FillsSectors(m), m <= 512 PROVE m \div 16 <= 32
      BY <3>1, SMT DEF FillsSectors
    <3> QED
      BY <2>1, <3>1, SMT DEF Default
  <2>3. 512 * f <= 2 * c + 515
    <3>1. CASE l.fsty = "FAT12"
      <4>1. f = Table("FAT12", c)
        BY <1>3, <3>1
      <4>2. 1024 * f <= 3 * c + 1029
        BY <4>1, TableIs, SMT
      <4> QED
        BY <4>2, SMT
    <3>2. CASE l.fsty = "FAT16"
      <4>1. f = Table("FAT16", c)
        BY <1>3, <3>2
      <4> QED
        BY <4>1, TableIs, SMT
    <3> QED
      BY <1>1, <1>9, <3>1, <3>2 DEF Types
  <2>4. s = 1 + f * nf + dir
    <3>1. PICK k \in Nat : k = f * nf
      BY <1>8
    <3> QED
      BY <1>5, <2>1, <3>1, SMT
  <2> QED
    BY <1>8, <2>2, <2>3, <2>4, SMT
<1>10. ASSUME l.fsty = "FAT32" PROVE Light(c, s)
  <2>1. d = B + 32 + f * nf + dir /\ dir = 0
    BY <1>1, <1>3, <1>10, Zenon DEF Placed, Shape32, StartsAt
  <2>2. f = Table("FAT32", c)
    BY <1>3, <1>10
  <2>3. 512 * f <= 4 * c + 519
    BY <2>2, TableIs, SMT
  <2>4. s = 32 + f * nf
    <3>1. PICK k \in Nat : k = f * nf
      BY <1>8
    <3> QED
      BY <1>5, <2>1, <3>1, SMT
  <2> QED
    BY <1>8, <2>3, <2>4, SMT DEF Light
<1>11. Chosen(l, S, p, c, s, n)
  <2>1. l.fsty # "FAT32" => Lean(S, p, c, s, n)
    BY <1>4, <1>9 DEF Lean
  <2> QED
    BY <1>1, <1>2, <1>3, <1>4, <1>6, <1>7, <1>10, <2>1 DEF Chosen
<1> QED
  BY <1>11

(* Where the cluster size and the type of a round come from.               *)
LEMMA TriedFrom ==
  ASSUME NEW l \in Tried
  PROVE  /\ l.pau = IF mk.sz_au = 0 THEN FromTable(mk.fsty, Size) ELSE mk.sz_au
         /\ l.fsty = IF mk.fsty # "FAT32" /\ l.guess <= MAX_FAT12 THEN "FAT12" ELSE mk.fsty
<1> DEFINE pau == IF mk.sz_au = 0 THEN FromTable(mk.fsty, Size) ELSE mk.sz_au
<1>1. /\ Guess.pau = pau /\ Guess.guess = Size \div pau
      /\ Guess.fsty = IF mk.fsty # "FAT32" /\ Size \div pau <= MAX_FAT12 THEN "FAT12" ELSE mk.fsty
  BY Zenon DEF Guess, Size
<1>2. l = Layout(Guess)
  BY DEF Tried
<1>3. l.pau = Guess.pau /\ l.guess = Guess.guess /\ l.fsty = Guess.fsty
  BY <1>2, LayoutAny, Zenon
<1> QED
  BY <1>1, <1>3, Zenon

Narrows(v) == v.go = "again" /\ Narrow(Size, v.fsty, v.sz_au)

(* Going round with a narrower search.                                     *)
LEMMA AgainNarrows ==
  ASSUME NEW t, NEW au, Narrow(Size, t, au) PROVE Narrows(Again(t, au))
BY Zenon DEF Narrows, Again

(* A round that looks for a FAT12 or a FAT16 ends well or narrows the      *)
(* search.                                                                 *)
LEMMA Tries16 ==
  ASSUME Looking, NEW l, Default(mk.opt), mk.fsty = "FAT16",
         Narrow(Size, mk.fsty, mk.sz_au), l.n_clst \in Nat,
         l.pau = IF mk.sz_au = 0 THEN FromTable(mk.fsty, Size) ELSE mk.sz_au,
         l.fsty = IF mk.fsty # "FAT32" /\ l.guess <= MAX_FAT12 THEN "FAT12" ELSE mk.fsty,
         NEW S \in Nat, NEW p \in Paus, NEW c \in Nat, NEW s \in Nat, NEW n \in Nat,
         Chosen(l, S, p, c, s, n)
  PROVE  Verdict(l) = Take \/ Narrows(Verdict(l))
<1>1. S = Size /\ p = l.pau /\ c = l.guess /\ n = l.n_clst /\ S >= 128
  BY DEF Chosen
<1>2. l.fsty = (IF c <= MAX_FAT12 THEN "FAT12" ELSE "FAT16") /\ l.fsty # "FAT32"
  BY <1>1
<1>3. Lean(S, p, c, s, n) /\ (TooSmall(l) => S < s + 16 * p)
  <2>1. (l.fsty # "FAT32" => Lean(S, p, c, s, n)) /\ (TooSmall(l) => S < s + 16 * p)
    BY Zenon DEF Chosen
  <2> QED
    BY <1>2, <2>1, Zenon
<1>4. ASSUME p = 1 \/ 2043 * p <= S
      PROVE  ~TooSmall(l) /\ n <= c /\ n = (S - s) \div p /\ s <= S
  <2>1. s + 16 * p <= S /\ n <= c /\ n = (S - s) \div p
    BY <1>1, <1>3, <1>4, LeanFits
  <2>2. s <= S /\ ~(S < s + 16 * p)
    BY <2>1, SMT DEF Paus
  <2> QED
    BY <1>3, <2>1, <2>2
<1>5. ASSUME ~TooSmall(l), n <= c, c <= MAX_FAT12 PROVE Verdict(l) = Take
  <2>1. ~(n > MAX_FAT12)
    BY <1>5, SMT DEF MAX_FAT12
  <2> QED
    BY <1>1, <1>2, <1>5, <2>1, VerdictOf, Zenon
<1>6. CASE mk.sz_au = 0
  <2>1. By16(S, p)
    BY <1>1, <1>6, Table16
  <2>2. p = 1 \/ 2043 * p <= S
    BY <2>1, SMT DEF By16, Paus
  <2>3. ~TooSmall(l) /\ n <= c /\ n = (S - s) \div p /\ s <= S
    BY <1>4, <2>2
  <2>4. CASE c <= MAX_FAT12
    BY <1>5, <2>3, <2>4
  <2>5. CASE ~(c <= MAX_FAT12) /\ n > MAX_FAT16
    <3>1. Verdict(l) = TooManyFat16(l)
      BY <1>1, <1>2, <2>3, <2>5, VerdictOf, Zenon
    <3>2. Many(n)
      BY <2>5 DEF Many, MAX_FAT16
    <3>3. /\ p * 2 <= 64 => Narrow(S, "FAT16", p * 2)
          /\ ~(p * 2 <= 64) => Narrow(S, "FAT32", 0)
      BY <2>1, <2>3, <3>2, ManyNarrows
    <3>4. TooManyFat16(l) = IF p * 2 <= 64 THEN Again("FAT16", p * 2) ELSE Again("FAT32", 0)
      <4>1. "FAT32" \in mk.opt.fmt
        BY DEF Default
      <4> QED
        BY <1>1, <1>6, <4>1, Zenon DEF TooManyFat16, AuOpen
    <3> QED
      BY <1>1, <3>1, <3>3, <3>4, AgainNarrows, Zenon
  <2>6. CASE ~(c <= MAX_FAT12) /\ ~(n > MAX_FAT16) /\ n <= MAX_FAT12
    <3>1. Verdict(l) = TooFewFat16(l)
      BY <1>1, <1>2, <2>3, <2>6, VerdictOf, Zenon
    <3>2. p * 2 <= 128
      BY <2>1, SMT DEF By16
    <3>3. n <= 4085 /\ c > 4085
      BY <2>6, SMT DEF MAX_FAT12
    <3>4. Narrow(S, "FAT16", p * 2)
      BY <1>3, <2>3, <3>2, <3>3, FewNarrows
    <3>5. TooFewFat16(l) = Again("FAT16", p * 2)
      BY <1>1, <1>6, <3>2, Zenon DEF TooFewFat16, AuOpen
    <3> QED
      BY <1>1, <3>1, <3>4, <3>5, AgainNarrows, Zenon
  <2>7. CASE ~(c <= MAX_FAT12) /\ ~(n > MAX_FAT16) /\ ~(n <= MAX_FAT12)
    BY <1>1, <1>2, <2>3, <2>7, VerdictOf, Zenon
  <2> QED
    BY <2>4, <2>5, <2>6, <2>7
<1>7. CASE mk.sz_au # 0
  <2>1. p = mk.sz_au
    BY <1>1, <1>7
  <2>2. \/ 2043 * p <= S /\ S < 4086 * p
        \/ p \in {32, 64} /\ 32763 * p <= S /\ S < 32768 * p
    BY <1>1, <1>7, <2>1, SMT DEF Narrow
  <2>3. p = 1 \/ 2043 * p <= S
    BY <2>2, SMT DEF Paus
  <2>4. ~TooSmall(l) /\ n <= c /\ n = (S - s) \div p /\ s <= S
    BY <1>4, <2>3
  <2>5. CASE 2043 * p <= S /\ S < 4086 * p
    <3>1. c <= MAX_FAT12
      BY <1>3, <2>5, BetweenIsFat12 DEF Lean, Plain, MAX_FAT12
    <3> QED
      BY <1>5, <2>4, <3>1
  <2>6. CASE p \in {32, 64} /\ 32763 * p <= S /\ S < 32768 * p
    <3>1. c > 4085 /\ n > 4085 /\ n <= 65525
      BY <1>3, <2>4, <2>6, BetweenIsFat16
    <3>2. ~(c <= MAX_FAT12) /\ ~(n > MAX_FAT16) /\ ~(n <= MAX_FAT12)
      BY <3>1, SMT DEF MAX_FAT12, MAX_FAT16
    <3> QED
      BY <1>1, <1>2, <2>4, <3>2, VerdictOf, Zenon
  <2> QED
    BY <2>2, <2>5, <2>6
<1> QED
  BY <1>6, <1>7

(* So does one that looks for a FAT32.                                     *)
LEMMA Tries32 ==
  ASSUME Looking, NEW l, Default(mk.opt), mk.fsty = "FAT32",
         Narrow(Size, mk.fsty, mk.sz_au), l.n_clst \in Nat,
         l.pau = IF mk.sz_au = 0 THEN FromTable(mk.fsty, Size) ELSE mk.sz_au,
         l.fsty = IF mk.fsty # "FAT32" /\ l.guess <= MAX_FAT12 THEN "FAT12" ELSE mk.fsty,
         NEW S \in Nat, NEW p \in Paus, NEW c \in Nat, NEW s \in Nat, NEW n \in Nat,
         Chosen(l, S, p, c, s, n)
  PROVE  Verdict(l) = Take \/ Narrows(Verdict(l))
<1>1. S = Size /\ p = l.pau /\ c = l.guess /\ n = l.n_clst /\ l.fsty = "FAT32"
  BY DEF Chosen
<1>2. Plain(S, p, c, s, n) /\ (TooSmall(l) => S < s + 16 * p) /\ Light(c, s) /\ Within(S)
  BY <1>1, SMT DEF Chosen
<1>3. Huge(S) /\ mk.sz_au \in {0, 32}
  BY <1>1 DEF Narrow
<1>4. p = 32 \/ (p = 64 /\ Vast(S) /\ mk.sz_au = 0)
  <2>1. CASE mk.sz_au = 0
    <3>1. p = FromTable("FAT32", S)
      BY <1>1, <2>1
    <3>2. FromTable("FAT32", S) = 32 \/ (FromTable("FAT32", S) = 64 /\ Vast(S))
      BY <1>3, Table32
    <3> QED
      BY <2>1, <3>1, <3>2, Zenon
  <2>2. CASE mk.sz_au = 32
    <3>1. 32 # 0
      BY SMT
    <3> QED
      BY <1>1, <2>2, <3>1
  <2> QED
    BY <1>3, <2>1, <2>2
<1>5. Many(c) /\ NotTooMany(c) /\ s + 16 * p <= S /\ (p = 32 => Many(n))
  BY <1>2, <1>3, <1>4, Fat32Fits
<1>6. ~TooSmall(l)
  <2>1. ~(S < s + 16 * p)
    BY <1>5, SMT DEF Paus
  <2>2. TooSmall(l) => S < s + 16 * p
    BY <1>2, SMT
  <2> QED
    BY <2>1, <2>2
<1>7. ~(c <= MAX_FAT16 \/ c > MAX_FAT32)
  BY <1>5, SMT DEF Many, NotTooMany, MAX_FAT16, MAX_FAT32
<1>8. Verdict(l) = IF n <= MAX_FAT16 THEN TooFewFat32(l) ELSE Take
  BY <1>1, <1>6, <1>7, VerdictOf, Zenon
<1>9. CASE n <= MAX_FAT16
  <2>1. p = 64 /\ mk.sz_au = 0
    <3>1. ~Many(n)
      BY <1>9, SMT DEF Many, MAX_FAT16
    <3> QED
      BY <1>4, <1>5, <3>1, Zenon
  <2>2. TooFewFat32(l) = Again("FAT32", 32)
    <3>1. 64 > 1 /\ 64 \div 2 = 32
      BY SMT
    <3> QED
      BY <1>1, <2>1, <3>1, Zenon DEF TooFewFat32, AuOpen
  <2>3. Narrow(S, "FAT32", 32)
    BY <1>3, SMT DEF Narrow
  <2> QED
    BY <1>1, <1>8, <1>9, <2>2, <2>3, AgainNarrows, Zenon
<1>10. CASE ~(n <= MAX_FAT16)
  BY <1>8, <1>10, Zenon
<1> QED
  BY <1>9, <1>10

(* The two together.                                                       *)
LEMMA Tries ==
  ASSUME drive \in Drives, Looking, NEW l \in Tried, Default(mk.opt),
         Narrow(Size, mk.fsty, mk.sz_au)
  PROVE  Verdict(l) = Take \/ Narrows(Verdict(l))
<1>1. PICK S \in Nat, p \in Paus, c \in Nat, s \in Nat, n \in Nat : Chosen(l, S, p, c, s, n)
  BY ChosenIs
<1>2. l.n_clst \in Nat
  BY TriedIs, Zenon DEF Placed, Numbers
<1>3. mk.fsty \in {"FAT16", "FAT32"}
  BY Zenon DEF Looking
<1> QED
  BY <1>1, <1>2, <1>3, TriedFrom, Tries16, Tries32, Zenon

(* What the loop has narrowed the search to when it is to choose, and what *)
(* f_mkfs then comes to.                                                   *)
Narrowing ==
  /\ mk.pc = "rounds" /\ Default(mk.opt) => Narrow(Size, mk.fsty, mk.sz_au)
  /\ mk.pc = "idle" /\ mk.res # "none" /\ Default(mk.opt) /\ Size >= 128 => mk.res = "OK"

LEMMA NarrowingInit == Init => Narrowing
BY SMT DEF Init, Narrowing

LEMMA NarrowingStep == ASSUME IInv, Narrowing, [Next]_vars PROVE Narrowing'
<1>1. ASSUME NEW o \in Opts, Begin(o) PROVE Narrowing'
  <2>1. drive' = drive /\ mk'.opt = o
    BY <1>1, SMT DEF Begin
  <2>2. ASSUME mk'.pc = "rounds", Default(o) PROVE mk'.fsty = "FAT16" /\ mk'.sz_au = 0
    <3>1. "FAT" \in o.fmt /\ ~(0 > 128) /\ AU(o) = 0
      BY <2>2, SMT DEF Default
    <3> QED
      BY <1>1, <2>2, <3>1, SMT DEF Begin
  <2>3. ASSUME mk'.pc = "idle", Default(o), sz_vol(o, drive) >= 128 PROVE FALSE
    <3>1. PICK n \in Nat : n = sz_vol(o, drive)
      BY SizeIs DEF IInv, TypeOK
    <3>2. ~(sz_vol(o, drive) < 128)
      BY <2>3, <3>1, SMT
    <3>3. "FAT" \in {"FAT", "FAT32"} \cap o.fmt
      BY <2>3, Zenon DEF Default
    <3> QED
      BY <1>1, <2>3, <3>2, <3>3, SMT DEF Begin
  <2>4. Size' = sz_vol(o, drive)
    BY <2>1 DEF Size, sz_vol, b_vol, Partitioned
  <2>5. mk'.pc = "rounds" /\ Default(o) => Narrow(Size', mk'.fsty, mk'.sz_au)
    BY <2>2, SMT DEF Narrow
  <2> QED
    BY <2>1, <2>3, <2>4, <2>5 DEF Narrowing
<1>2. ASSUME GoRound PROVE Narrowing'
  <2>1. PICK l \in Tried : /\ Verdict(l).go = "again"
                           /\ mk' = [mk EXCEPT !.fsty = Verdict(l).fsty, !.sz_au = Verdict(l).sz_au]
    BY <1>2, Zenon DEF GoRound
  <2>2. mk.pc = "rounds" /\ drive' = drive
    BY <1>2, Zenon DEF GoRound
  <2>3. Looking /\ drive \in Drives
    BY <2>2 DEF IInv, TypeOK
  <2>4. PICK v, w : v = Verdict(l).fsty /\ w = Verdict(l).sz_au
    OBVIOUS
  <2>5. mk'.pc = "rounds" /\ mk'.opt = mk.opt /\ mk'.fsty = v /\ mk'.sz_au = w
    <3>1. mk' = [mk EXCEPT !.fsty = v, !.sz_au = w]
      BY <2>1, <2>4, Zenon
    <3> QED
      BY <2>3, <3>1, Zenon DEF Looking
  <2>6. Size' = Size
    BY <2>2, <2>5 DEF Size, sz_vol, b_vol, Partitioned
  <2>7. ASSUME Default(mk.opt) PROVE Narrow(Size, v, w)
    <3>1. Narrow(Size, mk.fsty, mk.sz_au)
      BY <2>2, <2>7 DEF Narrowing
    <3>2. Narrows(Verdict(l))
      BY <2>1, <2>3, <2>7, <3>1, Tries, Zenon DEF Take, Abort
    <3> QED
      BY <2>4, <3>2 DEF Narrows
  <2> QED
    BY <2>5, <2>6, <2>7, Zenon DEF Narrowing
<1>3. ASSUME GiveUp PROVE Narrowing'
  <2>1. /\ mk.pc = "rounds" /\ mk' = [mk EXCEPT !.pc = "idle", !.res = "MKFS_ABORTED"] /\ drive' = drive
    BY <1>3, Zenon DEF GiveUp
  <2>2. Looking /\ drive \in Drives
    BY <2>1 DEF IInv, TypeOK
  <2>3. mk'.pc = "idle" /\ mk'.opt = mk.opt
    BY <2>1, <2>2, Zenon DEF Looking
  <2>4. ASSUME Default(mk.opt) PROVE FALSE
    <3>1. PICK l \in Tried : Verdict(l).go = "abort"
      BY <1>3, Zenon DEF GiveUp
    <3>2. Narrow(Size, mk.fsty, mk.sz_au)
      BY <2>1, <2>4 DEF Narrowing
    <3>3. Verdict(l) = Take \/ Narrows(Verdict(l))
      BY <2>2, <2>4, <3>2, Tries, Zenon
    <3> QED
      BY <3>1, <3>3, Zenon DEF Take, Abort, Narrows
  <2> QED
    BY <2>3, <2>4, Zenon DEF Narrowing
<1>4. ASSUME Write PROVE Narrowing'
  <2>1. PICK l : mk' = [pc |-> "idle", res |-> "OK", opt |-> mk.opt, fsty |-> l.fsty,
                        sz_au |-> mk.sz_au, layout |-> l, cleared |-> Cleared(l)]
    BY <1>4, Zenon DEF Write
  <2>2. mk'.pc = "idle" /\ mk'.res = "OK"
    BY <2>1, Zenon
  <2> QED
    BY <2>2, Zenon DEF Narrowing
<1>5. ASSUME Mount \/ UNCHANGED vars PROVE Narrowing'
  <2>1. mk' = mk /\ drive' = drive
    BY <1>5, Zenon DEF Mount, vars
  <2> QED
    BY <2>1 DEF Narrowing, Size, sz_vol, b_vol, Partitioned
<1> QED
  BY <1>1, <1>2, <1>3, <1>4, <1>5 DEF Next, Opts

(* Left to choose, on a medium whose blocks are single sectors, f_mkfs     *)
(* finds a type and a cluster size for every volume of 128 sectors or      *)
(* more, if the root directory is not asked to be longer than the 512      *)
(* entries it has by default.                                              *)
THEOREM ChoiceAlwaysFits ==
  Spec => []((mk.res # "none" => n_root(mk.opt) <= 512) => DefaultFits)
<1>1. IInv /\ Narrowing /\ [Next]_vars => Narrowing'
  BY NarrowingStep
<1>2. Narrowing => ((mk.res # "none" => n_root(mk.opt) <= 512) => DefaultFits)
  BY Zenon DEF Narrowing, DefaultFits, Default, Size
<1> QED
  BY <1>1, <1>2, NarrowingInit, AlwaysIInv, PTL DEF Spec
=============================================================================
