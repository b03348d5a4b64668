----------------------------- MODULE DiskProofs -----------------------------
(***************************************************************************)
(* The offsets that the file system computes are those of the layout, for  *)
(* every geometry: reading finds what is there, writing changes what it    *)
(* means to change, and neither leaves the disk.                           *)
(***************************************************************************)
EXTENDS Disk, FiniteSetTheorems, WellFoundedInduction, TLAPS

(* Numbers *)

\* Products grow with a factor.
LEMMA ProductGrows ==
    ASSUME NEW n \in Nat, NEW a \in Int, NEW b \in Int, a <= b
    PROVE  a * n <= b * n
<1>1. PICK d \in Nat : b = a + d
  <2>1. b - a \in Nat /\ b = a + (b - a)
    OBVIOUS
  <2> QED
    BY <2>1
<1>2. b * n = a * n + d * n /\ d * n >= 0
  BY <1>1, SMT
<1> QED
  BY <1>2, SMT

\* A sum, times n.
LEMMA SumTimes ==
    ASSUME NEW a \in Int, NEW b \in Int, NEW n \in Int
    PROVE  (a + b) * n = a * n + b * n /\ a * n \in Int /\ b * n \in Int
  BY SMT

\* From sectors to words.
LEMMA Distribute ==
    ASSUME NEW a \in Int, NEW b \in Int, NEW m \in Int, NEW n \in Int
    PROVE  (a + b * m) * n = a * n + b * (m * n)
<1>1. \A x, y \in Int : (x + y) * n = x * n + y * n
  BY SMT
<1>2. b * m \in Int /\ (b * m) * n = b * (m * n)
  BY SMT
<1> QED
  BY <1>1, <1>2

\* Two numbers of sectors, clusters or words with the same offset are the same.
LEMMA SamePlace ==
    ASSUME NEW n \in Nat \ {0}, NEW a \in Int, NEW b \in Int,
           NEW r \in 0 .. n - 1, NEW s \in 0 .. n - 1, a * n + r = b * n + s
    PROVE  a = b /\ r = s
<1>1. CASE a < b
  <2>1. (a + 1) * n <= b * n
    BY <1>1, ProductGrows
  <2> QED
    BY <2>1, SMT
<1>2. CASE b < a
  <2>1. (b + 1) * n <= a * n
    BY <1>2, ProductGrows
  <2> QED
    BY <2>1, SMT
<1> QED
  BY <1>1, <1>2, SMT

\* Quotient and remainder.
LEMMA Division ==
    ASSUME NEW n \in Nat \ {0}, NEW a \in Int
    PROVE  /\ a \div n \in Int
           /\ a % n \in 0 .. n - 1
           /\ a = (a \div n) * n + (a % n)
           /\ a \in Nat => a \div n \in Nat
  BY SMT

\* They are the only ones.
LEMMA Quotient ==
    ASSUME NEW n \in Nat \ {0}, NEW q \in Int, NEW r \in 0 .. n - 1
    PROVE  (q * n + r) \div n = q /\ (q * n + r) % n = r
<1> DEFINE a == q * n + r
<1>1. a \in Int
  BY SMT
<1>2. /\ a \div n \in Int
      /\ a % n \in 0 .. n - 1
      /\ a = (a \div n) * n + (a % n)
  BY <1>1, Division
<1> DEFINE x == a \div n
           y == a % n
<1>3. x * n + y = q * n + r
  BY <1>2
<1>4. x \in Int /\ y \in 0 .. n - 1
  BY <1>2
<1> HIDE DEF x, y, a
<1>5. x = q /\ y = r
  BY <1>3, <1>4, SamePlace
<1> QED
  BY <1>5 DEF x, y, a

\* A set of numbers that has an element has a least one.
LEMMA MinIsElement ==
    ASSUME NEW S \in SUBSET Nat, S # {}
    PROVE  Min(S) \in S /\ \A y \in S : Min(S) <= y
<1> DEFINE R == OpToRel(<, Nat)
<1>1. IsWellFoundedOn(R, Nat)
  BY NatLessThanWellFounded
<1>2. PICK x \in S : \A y \in S : ~ (<< y, x >> \in R)
  <2> HIDE DEF R
  <2> QED
    BY <1>1, WFMin
<1>3. \A y \in S : << y, x >> \in R <=> y < x
  BY DEF OpToRel
<1>4. \A y \in S : x <= y
  <2> HIDE DEF R
  <2>1. \A y \in S : ~ (y < x)
    BY <1>2, <1>3, Zenon
  <2> QED
    BY <2>1
<1> QED
  BY <1>4 DEF Min

-----------------------------------------------------------------------------
(* The geometry *)

BootSectors == {image.boot : image \in Images}

\* What the assumption says of the boot sector.
LEMMA BootOK ==
    ASSUME boot \in BootSectors
    PROVE  GeometryOK(boot) /\ U32 \in Nat /\ AllocEnd \in Nat
  BY ImageAssumption DEF BootSectors

\* Sizes in bytes are four times those in words.
LEMMA Sizes ==
    ASSUME boot \in BootSectors
    PROVE  /\ SectorWords \in Nat \ {0}
           /\ bytes_per_sector = 4 * SectorWords
           /\ bytes_per_sector \div 4 = SectorWords
           /\ cluster_size \div 4 = ClusterWords
           /\ sectors_per_cluster \in Nat \ {0}
           /\ ClusterWords \in Nat /\ ClusterWords >= 16
           /\ ClusterWords = 8 * Slots /\ Slots \in Nat
<1>1. /\ boot.BytsPerSec \in Nat \ {0} /\ boot.BytsPerSec % 32 = 0
      /\ boot.SecPerClus \in Nat \ {0}
      /\ boot.SecPerClus * boot.BytsPerSec >= 64
  BY BootOK DEF GeometryOK
<1>2. PICK k \in Nat : boot.BytsPerSec = 32 * k
  BY <1>1, SMT
<1>3. SectorWords = 8 * k /\ k # 0
  BY <1>1, <1>2, SMT DEF SectorWords
<1>4. PICK n \in Nat : n = boot.SecPerClus * k
  BY <1>1, SMT
<1>5. boot.SecPerClus * boot.BytsPerSec = 32 * n /\ boot.SecPerClus * SectorWords = 8 * n
  BY <1>1, <1>2, <1>3, <1>4, SMT
<1> QED
  BY <1>1, <1>2, <1>3, <1>5, SMT
  DEF bytes_per_sector, cluster_size, ClusterWords, sectors_per_cluster, Slots

\* The parts of the disk are on it, and the FAT has an entry for every cluster.
LEMMA Layout ==
    ASSUME boot \in BootSectors
    PROVE  /\ NumWords \in Nat /\ 4 * NumWords <= U32 /\ U32 \in Nat
           /\ FatStart \in Nat /\ DataStart \in Nat
           /\ \A c \in Clusters : /\ c \in Nat /\ c >= 2
                                  /\ FatStart + c < DataStart
                                  /\ DataStart + (c - 2) * ClusterWords + ClusterWords <= NumWords
           /\ 2 .. AllocEnd - 1 \subseteq Clusters
<1> DEFINE b == boot
           W == SectorWords
           first == b.RsvdSecCnt + b.NumFATs * b.FATSz32
           sectors == b.TotSec32 - first
           count == sectors \div b.SecPerClus
<1>1. /\ b.BytsPerSec \in Nat \ {0} /\ b.SecPerClus \in Nat \ {0}
      /\ b.RsvdSecCnt \in Nat /\ b.NumFATs \in Nat \ {0}
      /\ b.FATSz32 \in Nat /\ b.TotSec32 \in Nat
      /\ b.TotSec32 * b.BytsPerSec <= U32
      /\ AllocEnd <= count + 2 /\ 4 * (count + 2) <= b.FATSz32 * b.BytsPerSec
      /\ U32 \in Nat /\ AllocEnd \in Nat
  BY BootOK DEF GeometryOK
<1>2. W \in Nat \ {0} /\ b.BytsPerSec = 4 * W
  BY Sizes DEF bytes_per_sector
<1>3. first \in Nat /\ sectors \in Int
  BY <1>1, SMT
<1>4. count \in Int /\ count * b.SecPerClus <= sectors
  <2>1. /\ count \in Int
        /\ sectors % b.SecPerClus \in 0 .. b.SecPerClus - 1
        /\ sectors = count * b.SecPerClus + (sectors % b.SecPerClus)
    BY <1>1, <1>3, Division
  <2> QED
    BY <1>1, <2>1, SMT
<1>5. Clusters = 2 .. count + 1
  BY DEF Clusters
<1>6. DataStart = first * W /\ FatStart = b.RsvdSecCnt * W /\ NumWords = b.TotSec32 * W
      /\ ClusterWords = b.SecPerClus * W
  BY DEF DataStart, FatStart, NumWords, ClusterWords
<1>7. NumWords \in Nat /\ FatStart \in Nat /\ DataStart \in Nat
  BY <1>1, <1>2, <1>3, <1>6, SMT
<1>8. 4 * NumWords <= U32
  <2>1. b.TotSec32 * (4 * W) = 4 * (b.TotSec32 * W)
    BY <1>1, <1>2, SMT
  <2> QED
    BY <1>1, <1>2, <1>6, <2>1
<1>9. count + 2 <= b.FATSz32 * W
  <2>1. b.FATSz32 * (4 * W) = 4 * (b.FATSz32 * W)
    BY <1>1, <1>2, SMT
  <2>2. b.FATSz32 * W \in Nat
    BY <1>1, <1>2, SMT
  <2> QED
    BY <1>1, <1>2, <1>4, <2>1, <2>2, SMT
<1>10. FatStart + b.FATSz32 * W <= DataStart
  <2>1. b.FATSz32 \in Nat /\ 1 \in Int /\ b.NumFATs \in Int /\ 1 <= b.NumFATs
    BY <1>1
  <2>2. 1 * b.FATSz32 <= b.NumFATs * b.FATSz32
    BY <2>1, ProductGrows
  <2>3. b.RsvdSecCnt + b.FATSz32 <= first
    BY <1>1, <1>3, <2>2, SMT
  <2>4. (b.RsvdSecCnt + b.FATSz32) * W <= first * W
    BY <1>1, <1>2, <1>3, <2>3, ProductGrows
  <2>5. (b.RsvdSecCnt + b.FATSz32) * W = b.RsvdSecCnt * W + b.FATSz32 * W
    BY <1>1, <1>2, SMT
  <2> QED
    BY <1>6, <2>4, <2>5
<1> HIDE DEF b, W, first, sectors, count
<1>11. ASSUME NEW c \in Clusters
       PROVE  /\ c \in Nat /\ c >= 2
              /\ FatStart + c < DataStart
              /\ DataStart + (c - 2) * ClusterWords + ClusterWords <= NumWords
  <2>1. c \in Nat /\ c >= 2 /\ c - 1 <= count
    BY <1>4, <1>5
  <2>2. (c - 1) * b.SecPerClus <= count * b.SecPerClus
    BY <1>1, <1>4, <2>1, ProductGrows
  <2>3. first + (c - 1) * b.SecPerClus <= b.TotSec32
    <3>1. sectors = b.TotSec32 - first
      BY DEF sectors
    <3>2. (c - 1) * b.SecPerClus \in Int /\ count * b.SecPerClus \in Int
      BY <1>1, <1>4, <2>1, SMT
    <3> QED
      BY <1>1, <1>3, <1>4, <2>2, <3>1, <3>2
  <2>4. (first + (c - 1) * b.SecPerClus) * W <= b.TotSec32 * W
    <3>1. first + (c - 1) * b.SecPerClus \in Int
      BY <1>1, <1>3, <2>1, SMT
    <3> QED
      BY <1>1, <1>2, <2>3, <3>1, ProductGrows
  <2>5. (first + (c - 1) * b.SecPerClus) * W
          = first * W + (c - 2) * (b.SecPerClus * W) + b.SecPerClus * W
    <3> DEFINE size == b.SecPerClus * W
    <3>1. (first + (c - 1) * b.SecPerClus) * W = first * W + (c - 1) * size
      BY <1>1, <1>2, <1>3, <2>1, Distribute
    <3>2. size \in Nat
      BY <1>1, <1>2, SMT
    <3> HIDE DEF size
    <3>3. first * W + (c - 1) * size = first * W + (c - 2) * size + size
      BY <1>2, <1>3, <2>1, <3>2, SMT
    <3> QED
      BY <3>1, <3>3 DEF size
  <2>6. FatStart + c < DataStart
    <3>1. b.FATSz32 * W \in Nat
      BY <1>1, <1>2, SMT
    <3> QED
      BY <1>4, <1>7, <1>9, <1>10, <2>1, <3>1
  <2> QED
    BY <1>6, <2>1, <2>4, <2>5, <2>6
<1>12. 2 .. AllocEnd - 1 \subseteq Clusters
  BY <1>1, <1>4, <1>5
<1> QED
  BY <1>1, <1>7, <1>8, <1>11, <1>12

\* The first word of cluster c on the disk.
At(c) == DataStart + (c - 2) * ClusterWords

\* The clusters are apart: a word of one is not a word of another.
LEMMA OwnWord ==
    ASSUME boot \in BootSectors, NEW c \in Clusters, NEW d \in Clusters,
           NEW k \in 0 .. ClusterWords - 1, NEW j \in 0 .. ClusterWords - 1,
           At(c) + k = At(d) + j
    PROVE  c = d /\ k = j
<1>1. ClusterWords \in Nat \ {0} /\ DataStart \in Nat /\ c - 2 \in Int /\ d - 2 \in Int
  BY Sizes, Layout
<1>2. (c - 2) * ClusterWords \in Int /\ (d - 2) * ClusterWords \in Int
  BY <1>1, SMT
<1>3. (c - 2) * ClusterWords + k = (d - 2) * ClusterWords + j
  BY <1>1, <1>2 DEF At
<1>4. c - 2 = d - 2 /\ k = j
  <2> DEFINE n == ClusterWords
             x == c - 2
             y == d - 2
  <2>1. n \in Nat \ {0} /\ x \in Int /\ y \in Int /\ k \in 0 .. n - 1 /\ j \in 0 .. n - 1
        /\ x * n + k = y * n + j
    BY <1>1, <1>3
  <2> HIDE DEF n, x, y
  <2>2. x = y /\ k = j
    BY <2>1, SamePlace
  <2> QED
    BY <2>2 DEF x, y
<1> QED
  BY <1>4, Layout

\* A cluster's words are on the disk, behind the FAT.
LEMMA ClusterOnDisk ==
    ASSUME boot \in BootSectors, NEW c \in Clusters
    PROVE  At(c) \in Nat /\ At(c) >= DataStart /\ At(c) + ClusterWords <= NumWords
<1>1. ClusterWords \in Nat /\ DataStart \in Nat /\ c - 2 \in Nat
  BY Sizes, Layout
<1>2. (c - 2) * ClusterWords \in Nat
  BY <1>1, SMT
<1> QED
  BY <1>1, <1>2, Layout DEF At

\* The first word of a sector: its number, times the words of a sector.
LEMMA SectorWord ==
    ASSUME boot \in BootSectors, NEW a \in Int
    PROVE  /\ a * bytes_per_sector = 4 * (a * SectorWords)
           /\ a * SectorWords \in Int
           /\ (a * bytes_per_sector) \div 4 = a * SectorWords
<1>1. bytes_per_sector = 4 * SectorWords /\ SectorWords \in Int
  BY Sizes
<1>2. a * (4 * SectorWords) = 4 * (a * SectorWords) /\ a * SectorWords \in Int
  BY <1>1, SMT
<1>3. \A x \in Int : (4 * x) \div 4 = x
  BY SMT
<1> QED
  BY <1>1, <1>2, <1>3

\* Cluster c starts with the sector start_sector(c).
LEMMA StartOfCluster ==
    ASSUME boot \in BootSectors, NEW c \in Clusters
    PROVE  start_sector(c) \in Int /\ start_sector(c) * SectorWords = At(c)
<1>1. /\ data_sector \in Int /\ DataStart = data_sector * SectorWords
      /\ sectors_per_cluster \in Int /\ ClusterWords = sectors_per_cluster * SectorWords
  <2>1. boot.RsvdSecCnt \in Nat /\ boot.NumFATs \in Nat /\ boot.FATSz32 \in Nat
    BY BootOK DEF GeometryOK
  <2>2. boot.NumFATs * boot.FATSz32 \in Nat
    BY <2>1, SMT
  <2>3. data_sector \in Int
    BY <2>1, <2>2 DEF data_sector
  <2> QED
    BY <2>3, Sizes DEF data_sector, DataStart, sectors_per_cluster, ClusterWords
<1>2. c - 2 \in Int /\ SectorWords \in Int
  BY Layout, Sizes
<1>3. (c - 2) * sectors_per_cluster \in Int
  BY <1>1, <1>2, SMT
<1>4. (data_sector + (c - 2) * sectors_per_cluster) * SectorWords
        = data_sector * SectorWords + (c - 2) * (sectors_per_cluster * SectorWords)
  BY <1>1, <1>2, Distribute
<1> QED
  BY <1>1, <1>3, <1>4 DEF start_sector, At

\* The offset of a slot, or of the size in it, is that of the word it is.
LEMMA OffsetOfEntry ==
    ASSUME boot \in BootSectors, NEW c \in Clusters, NEW n \in Nat
    PROVE  EntryOffset(c, 4 * n) = 4 * (At(c) + n)
<1> DEFINE B == bytes_per_sector
           q == (4 * n) \div B
           r == (4 * n) % B
<1>1. B \in Nat \ {0} /\ SectorWords \in Nat /\ B = 4 * SectorWords
  BY Sizes
<1>2. q \in Int /\ r \in Int /\ 4 * n = q * B + r
  <2>1. 4 * n \in Int
    OBVIOUS
  <2>2. q \in Int /\ r \in 0 .. B - 1 /\ 4 * n = q * B + r
    BY <1>1, <2>1, Division
  <2> QED
    BY <1>1, <2>2
<1>3. start_sector(c) \in Int /\ start_sector(c) * B = 4 * At(c) /\ At(c) \in Nat
  BY StartOfCluster, SectorWord, ClusterOnDisk
<1>4. EntryOffset(c, 4 * n) = (start_sector(c) + q) * B + r
  BY DEF EntryOffset
<1> HIDE DEF B, q, r
<1>5. (start_sector(c) + q) * B = start_sector(c) * B + q * B /\ q * B \in Int
  <2>1. start_sector(c) \in Int /\ q \in Int /\ B \in Int
    BY <1>1, <1>2, <1>3
  <2>2. PICK x \in Int : x = start_sector(c)
    BY <2>1
  <2>3. (x + q) * B = x * B + q * B /\ q * B \in Int
    BY <2>1, SumTimes, SMT
  <2> QED
    BY <2>2, <2>3
<1> DEFINE y == q * B
<1>6. y \in Int /\ 4 * n = y + r /\ EntryOffset(c, 4 * n) = 4 * At(c) + y + r
  BY <1>2, <1>3, <1>4, <1>5
<1> HIDE DEF y
<1> QED
  BY <1>2, <1>3, <1>6

\* The FAT entry of c is in the sector and at the index that the code computes.
LEMMA OffsetOfFatEntry ==
    ASSUME boot \in BootSectors, NEW c \in Clusters
    PROVE  /\ fat_sector_of(c) \in Int
           /\ fat_index(c) \in 0 .. SectorWords - 1
           /\ fat_sector_of(c) * SectorWords + fat_index(c) = FatStart + c
           /\ fat_sector_of(c) * bytes_per_sector + ((c * 4) % bytes_per_sector) = 4 * (FatStart + c)
<1> DEFINE W == SectorWords
           q == c \div W
           r == c % W
<1>1. W \in Nat \ {0} /\ bytes_per_sector = 4 * W /\ c \in Nat /\ fat_sector \in Int
      /\ FatStart = fat_sector * W
  BY Sizes, Layout, BootOK DEF GeometryOK, fat_sector, FatStart
<1>2. q \in Int /\ r \in 0 .. W - 1 /\ c = q * W + r
  BY <1>1, Division
<1> HIDE DEF W, q, r
<1>3. c * 4 = q * (4 * W) + 4 * r
  BY <1>1, <1>2, SMT
<1>4. (c * 4) \div (4 * W) = q /\ (c * 4) % (4 * W) = 4 * r
  <2> DEFINE n == 4 * W
             x == 4 * r
  <2>1. n \in Nat \ {0} /\ x \in 0 .. n - 1 /\ c * 4 = q * n + x
    BY <1>1, <1>2, <1>3
  <2> HIDE DEF n, x
  <2>2. (q * n + x) \div n = q /\ (q * n + x) % n = x
    BY <1>2, <2>1, Quotient
  <2> QED
    BY <2>1, <2>2 DEF n, x
<1>5. fat_index(c) = r
  BY <1>1, <1>2, <1>4, SMT DEF fat_index
<1>6. fat_sector_of(c) = fat_sector + q
  BY <1>1, <1>4 DEF fat_sector_of
<1>7. (fat_sector + q) * W = fat_sector * W + q * W /\ fat_sector * W \in Int /\ q * W \in Int
  BY <1>1, <1>2, SMT
<1>8. fat_sector_of(c) * W + fat_index(c) = FatStart + c
  BY <1>1, <1>2, <1>5, <1>6, <1>7
<1>9. fat_sector_of(c) \in Int
  BY <1>1, <1>2, <1>6
<1>10. fat_sector_of(c) * bytes_per_sector = 4 * (fat_sector_of(c) * W)
  BY <1>9, SectorWord DEF W
<1>11. fat_sector_of(c) * bytes_per_sector + ((c * 4) % bytes_per_sector) = 4 * (FatStart + c)
  BY <1>1, <1>2, <1>4, <1>6, <1>7, <1>10
<1> QED
  BY <1>2, <1>5, <1>8, <1>9, <1>11 DEF W

-----------------------------------------------------------------------------
(* Reading *)

\* The invariant: the disk has its size, and nothing has panicked.
Inv ==
    /\ boot \in BootSectors
    /\ disk \in [0 .. NumWords - 1 -> Word]
    /\ panicked = FALSE

\* A slice of the disk that ends on it, at an offset that is a u32.
LEMMA InDisk ==
    ASSUME Inv, NEW f \in Int, NEW n \in Nat, f < NumWords, f + n <= NumWords
    PROVE  InRange(4 * f, n)
<1>1. NumWords \in Nat /\ 4 * NumWords <= U32 /\ U32 \in Nat
  BY Layout DEF Inv
<1>2. Cardinality(DOMAIN disk) = NumWords
  <2>1. DOMAIN disk = 0 .. NumWords - 1
    BY DEF Inv
  <2>2. Cardinality(0 .. NumWords - 1) = IF 0 > NumWords - 1 THEN 0 ELSE NumWords - 1 - 0 + 1
    BY <1>1, FS_Interval
  <2> QED
    BY <1>1, <2>1, <2>2
<1>3. (4 * f) \div 4 = f
  BY SMT
<1> QED
  BY <1>1, <1>2, <1>3 DEF InRange

\* The same for a sector.
LEMMA SectorInDisk ==
    ASSUME Inv, NEW a \in Int, a * SectorWords + SectorWords <= NumWords
    PROVE  SectorInRange(a)
<1>1. SectorWords \in Nat \ {0} /\ bytes_per_sector \div 4 = SectorWords
      /\ a * bytes_per_sector = 4 * (a * SectorWords) /\ a * SectorWords \in Int
      /\ NumWords \in Nat
  BY Sizes, SectorWord, Layout DEF Inv
<1>2. a * SectorWords < NumWords
  BY <1>1
<1>3. InRange(4 * (a * SectorWords), SectorWords)
  BY <1>1, <1>2, InDisk
<1> QED
  BY <1>1, <1>3 DEF SectorInRange

\* The invariant gives NoPanic: the FAT's sectors end before the data area,
\* and those of a cluster end with the cluster.
LEMMA InvNoPanic ==
    ASSUME Inv
    PROVE  NoPanic
<1> DEFINE W == SectorWords
<1>1. W \in Nat \ {0} /\ NumWords \in Nat /\ DataStart \in Nat /\ FatStart \in Nat
  BY Sizes, Layout DEF Inv
<1>2. ASSUME NEW c \in Clusters
      PROVE  SectorInRange(fat_sector_of(c))
  <2> DEFINE a == fat_sector_of(c)
             d == data_sector
  <2>1. a \in Int /\ fat_index(c) \in 0 .. W - 1 /\ a * W + fat_index(c) = FatStart + c
    BY OffsetOfFatEntry DEF Inv
  <2>2. d \in Int /\ DataStart = d * W
    <3>1. boot.RsvdSecCnt \in Nat /\ boot.NumFATs \in Nat /\ boot.FATSz32 \in Nat
      BY BootOK DEF Inv, GeometryOK
    <3>2. boot.NumFATs * boot.FATSz32 \in Nat
      BY <3>1, SMT
    <3> QED
      BY <3>1, <3>2 DEF data_sector, DataStart
  <2>3. FatStart + c < DataStart /\ c \in Nat
    BY Layout DEF Inv
  <2>4. DataStart <= NumWords
    BY <1>1, Sizes, ClusterOnDisk DEF Inv
  <2> HIDE DEF a, d, W
  <2>5. a * W \in Int /\ a * W < d * W
    <3>1. a * W \in Int /\ d * W \in Int
      BY <1>1, <2>1, <2>2, SMT
    <3> QED
      BY <1>1, <2>1, <2>2, <2>3, <3>1
  <2>6. a + 1 <= d
    <3>1. SUFFICES ASSUME d <= a PROVE FALSE
      BY <2>1, <2>2
    <3>2. d * W <= a * W
      BY <1>1, <2>1, <2>2, <3>1, ProductGrows
    <3>3. d * W \in Int
      BY <1>1, <2>2, SMT
    <3> QED
      BY <2>5, <3>2, <3>3
  <2>7. (a + 1) * W <= d * W
    BY <1>1, <2>1, <2>2, <2>6, ProductGrows
  <2>8. (a + 1) * W = a * W + W
    BY <1>1, <2>1, SMT
  <2>9. a * W + W <= NumWords
    BY <1>1, <2>2, <2>4, <2>5, <2>7, <2>8
  <2> QED
    BY <2>1, <2>9, SectorInDisk DEF a, W
<1>3. ASSUME NEW c \in Clusters, NEW i \in 0 .. sectors_per_cluster - 1
      PROVE  SectorInRange(start_sector(c) + i)
  <2>1. start_sector(c) \in Int /\ start_sector(c) * W = At(c) /\ At(c) \in Nat
        /\ At(c) + ClusterWords <= NumWords
    BY StartOfCluster, ClusterOnDisk DEF Inv
  <2>2. sectors_per_cluster \in Nat \ {0} /\ ClusterWords = sectors_per_cluster * W
    BY Sizes DEF Inv, ClusterWords, sectors_per_cluster
  <2> DEFINE s == start_sector(c)
             m == sectors_per_cluster
  <2>3. s \in Int /\ s * W = At(c) /\ m \in Nat \ {0} /\ ClusterWords = m * W /\ i \in 0 .. m - 1
    BY <2>1, <2>2
  <2> HIDE DEF s, m, W
  <2>4. (i + 1) * W <= m * W
    BY <1>1, <2>3, ProductGrows
  <2>5. (s + i) * W = s * W + i * W /\ (i + 1) * W = i * W + W /\ i * W \in Int /\ m * W \in Int
    BY <1>1, <2>3, SMT
  <2>6. (s + i) * W + W <= NumWords
    BY <1>1, <2>1, <2>3, <2>4, <2>5
  <2> QED
    BY <2>3, <2>6, SectorInDisk DEF s, W
<1> QED
  BY <1>2, <1>3 DEF NoPanic, Inv

\* A sector is its words.
LEMMA SectorRead ==
    ASSUME Inv, NEW a \in Int
    PROVE  read_sector(a) = [k \in 1 .. SectorWords |-> disk[a * SectorWords + k - 1]]
<1>1. (a * bytes_per_sector) \div 4 = a * SectorWords /\ bytes_per_sector \div 4 = SectorWords
  BY Sizes, SectorWord DEF Inv
<1> QED
  BY <1>1 DEF read_sector

\* The invariant gives ReadsAgree.
LEMMA InvReads ==
    ASSUME Inv
    PROVE  ReadsAgree
<1> DEFINE W == SectorWords
<1>1. W \in Nat \ {0} /\ bytes_per_sector \div 4 = W /\ ClusterWords = sectors_per_cluster * W
      /\ ClusterWords \in Nat
  BY Sizes DEF Inv, ClusterWords, sectors_per_cluster
<1>2. ASSUME NEW c \in Clusters
      PROVE  read_fat_entry(c) = Fat[c].value
  <2> DEFINE a == fat_sector_of(c)
             x == fat_index(c)
  <2>1. a \in Int /\ x \in 0 .. W - 1 /\ a * W + x = FatStart + c
    BY OffsetOfFatEntry DEF Inv
  <2>2. read_sector(a) = [k \in 1 .. W |-> disk[a * W + k - 1]]
    BY <2>1, SectorRead
  <2>3. read_fat_entry(c) = read_sector(a)[x + 1].value
    BY DEF read_fat_entry
  <2>4. a * W \in Int
    BY <1>1, <2>1, SMT
  <2> HIDE DEF a, x, W
  <2>5. x + 1 \in 1 .. W /\ a * W + (x + 1) - 1 = a * W + x
    BY <1>1, <2>1, <2>4
  <2>6. read_sector(a)[x + 1] = disk[FatStart + c]
    BY <2>1, <2>2, <2>5
  <2>7. Fat[c] = disk[FatStart + c]
    BY DEF Fat
  <2> QED
    BY <2>3, <2>6, <2>7
<1>3. ASSUME NEW c \in Clusters
      PROVE  read_cluster(c) = Data[c]
  <2> DEFINE s == start_sector(c)
  <2>1. s \in Int /\ s * W = At(c) /\ At(c) \in Nat
    BY StartOfCluster, ClusterOnDisk DEF Inv
  <2>2. Data[c] = [k \in 1 .. ClusterWords |-> disk[At(c) + k - 1]]
    BY DEF Data, At
  <2>3. read_cluster(c) = [k \in 1 .. ClusterWords |->
                              read_sector(s + (k - 1) \div W)[((k - 1) % W) + 1]]
    BY <1>1 DEF read_cluster
  <2>4. ASSUME NEW k \in 1 .. ClusterWords
        PROVE  read_sector(s + (k - 1) \div W)[((k - 1) % W) + 1] = disk[At(c) + k - 1]
    <3> DEFINE q == (k - 1) \div W
               r == (k - 1) % W
    <3>1. k - 1 \in Int /\ k \in Int
      BY <1>1
    <3>2. q \in Int /\ r \in 0 .. W - 1 /\ k - 1 = q * W + r
      BY <1>1, <3>1, Division
    <3> HIDE DEF q, r, s, W
    <3>3. s + q \in Int
      BY <2>1, <3>2
    <3>4. read_sector(s + q) = [j \in 1 .. W |-> disk[(s + q) * W + j - 1]]
      BY <3>3, SectorRead DEF W
    <3>5. (s + q) * W = s * W + q * W /\ s * W \in Int /\ q * W \in Int
      BY <1>1, <2>1, <3>2, SMT
    <3>6. r + 1 \in 1 .. W /\ (s + q) * W + (r + 1) - 1 = At(c) + k - 1
      BY <1>1, <2>1, <3>1, <3>2, <3>5
    <3>7. read_sector(s + q)[r + 1] = disk[At(c) + k - 1]
      BY <3>4, <3>6
    <3> QED
      BY <3>7 DEF q, r
  <2> HIDE DEF s, W
  <2> QED
    BY <2>2, <2>3, <2>4
<1> QED
  BY <1>2, <1>3 DEF ReadsAgree

-----------------------------------------------------------------------------
(* Writing *)

\* The disk with words over those from number f on.
Overlay(f, words) ==
    [o \in 0 .. NumWords - 1 |->
        IF o \in f .. f + Len(words) - 1 THEN words[o - f + 1] ELSE disk[o]]

\* Store leaves this on the disk.
LEMMA Stored ==
    ASSUME Inv, NEW f \in Nat, NEW words \in Seq(Word),
           f < NumWords, f + Len(words) <= NumWords, Store(4 * f, words)
    PROVE  Inv' /\ boot' = boot /\ disk' = Overlay(f, words)
<1>1. InRange(4 * f, Len(words))
  BY InDisk
<1>2. (4 * f) \div 4 = f /\ DOMAIN disk = 0 .. NumWords - 1 /\ NumWords \in Nat
  BY Layout DEF Inv
<1>3. /\ boot' = boot /\ panicked' = FALSE
      /\ disk' = [o \in 0 .. NumWords - 1 |->
                      IF o \in f .. f + Len(words) - 1 THEN words[o - f + 1] ELSE disk[o]]
  BY <1>1, <1>2 DEF Store
<1>4. NumWords' = NumWords
  BY <1>3 DEF NumWords, SectorWords
<1>5. \A o \in 0 .. NumWords - 1 : disk'[o] \in Word
  <2> SUFFICES ASSUME NEW o \in 0 .. NumWords - 1
               PROVE  disk'[o] \in Word
    OBVIOUS
  <2>1. CASE o \in f .. f + Len(words) - 1
    <3>1. o - f + 1 \in 1 .. Len(words)
      BY <1>2, <2>1
    <3>2. words[o - f + 1] \in Word
      BY <3>1
    <3> QED
      BY <1>3, <2>1, <3>2
  <2>2. CASE o \notin f .. f + Len(words) - 1
    BY <1>3, <2>2 DEF Inv
  <2> QED
    BY <2>1, <2>2
<1>6. disk' \in [0 .. NumWords - 1 -> Word]
  BY <1>3, <1>5
<1> QED
  BY <1>3, <1>4, <1>6 DEF Inv, Overlay

\* The layout does not change with the disk.
LEMMA SameLayout ==
    ASSUME boot' = boot
    PROVE  /\ Clusters' = Clusters /\ FatStart' = FatStart /\ DataStart' = DataStart
           /\ ClusterWords' = ClusterWords
  BY DEF Clusters, FatStart, DataStart, ClusterWords, SectorWords

\* Words put over those of a cluster change that cluster and nothing else.
LEMMA Overlaid ==
    ASSUME Inv, boot' = boot, NEW c \in Clusters, NEW n \in Nat,
           NEW words, NEW len \in Nat, len = Len(words), n + len <= ClusterWords,
           disk' = Overlay(At(c) + n, words)
    PROVE  AbstractVolume!SetWords(c, n, words)
<1> DEFINE f == At(c) + n
           CW == ClusterWords
<1>1. /\ boot \in BootSectors /\ CW \in Nat
      /\ At(c) \in Nat /\ At(c) >= DataStart /\ At(c) + CW <= NumWords
      /\ NumWords \in Nat /\ DataStart \in Nat /\ FatStart \in Nat
  BY Sizes, Layout, ClusterOnDisk DEF Inv
<1>2. f \in Nat /\ f >= DataStart /\ f = At(c) + n
  BY <1>1
<1>3. disk' = [o \in 0 .. NumWords - 1 |->
                  IF o \in f .. f + len - 1 THEN words[o - f + 1] ELSE disk[o]]
  BY DEF Overlay
<1>4. Clusters' = Clusters /\ FatStart' = FatStart /\ DataStart' = DataStart /\ ClusterWords' = CW
  BY SameLayout
<1> HIDE DEF f
<1>5. \A o \in 0 .. DataStart - 1 : disk'[o] = disk[o]
  <2>1. \A o \in 0 .. DataStart - 1 : o \in 0 .. NumWords - 1 /\ o \notin f .. f + len - 1
    BY <1>1, <1>2
  <2> QED
    BY <1>3, <2>1
<1>6. Fat' = Fat
  <2>1. \A d \in Clusters : FatStart + d \in 0 .. DataStart - 1
    <3>1. \A d \in Clusters : d \in Nat /\ FatStart + d < DataStart
      BY <1>1, Layout
    <3> QED
      BY <1>1, <3>1
  <2>2. Fat = [d \in Clusters |-> disk[FatStart + d]]
    BY DEF Fat
  <2>3. Fat' = [d \in Clusters |-> disk'[FatStart + d]]
    BY <1>4 DEF Fat
  <2> QED
    BY <1>5, <2>1, <2>2, <2>3
<1>7. Rest' = Rest
  <2> DEFINE E == {FatStart + d : d \in Clusters}
  <2>1. Rest = [o \in 0 .. DataStart - 1 |-> IF o \in E THEN "entry" ELSE disk[o]]
    BY DEF Rest
  <2>2. Rest' = [o \in 0 .. DataStart - 1 |-> IF o \in E THEN "entry" ELSE disk'[o]]
    BY <1>4 DEF Rest
  <2> HIDE DEF E
  <2> QED
    BY <1>5, <2>1, <2>2
<1>8. Data' = [Data EXCEPT ![c] = AbstractVolume!Over(@, n, words)]
  <2>1. Data = [d \in Clusters |-> [k \in 1 .. CW |-> disk[At(d) + k - 1]]]
    BY DEF Data, At
  <2>2. Data' = [d \in Clusters |-> [k \in 1 .. CW |-> disk'[At(d) + k - 1]]]
    BY <1>4 DEF Data, At
  <2>3. AbstractVolume!Over(Data[c], n, words)
          = [k \in 1 .. CW |-> IF k \in n + 1 .. n + len THEN words[k - n] ELSE disk[At(c) + k - 1]]
    BY <2>1 DEF AbstractVolume!Over
  <2>4. ASSUME NEW d \in Clusters, NEW k \in 1 .. CW
        PROVE  /\ d # c => disk'[At(d) + k - 1] = disk[At(d) + k - 1]
               /\ k \in n + 1 .. n + len => disk'[At(c) + k - 1] = words[k - n]
               /\ k \notin n + 1 .. n + len => disk'[At(c) + k - 1] = disk[At(c) + k - 1]
    <3>1. /\ At(c) \in Nat /\ At(d) \in Nat /\ NumWords \in Nat /\ ClusterWords \in Nat
          /\ At(c) + ClusterWords <= NumWords /\ At(d) + ClusterWords <= NumWords
      BY <1>1, ClusterOnDisk
    <3>2. k \in Nat /\ k - 1 \in 0 .. ClusterWords - 1
      BY <3>1
    <3>3. ASSUME d # c
          PROVE  At(d) + k - 1 \notin f .. f + len - 1
      <4>1. SUFFICES ASSUME At(d) + k - 1 \in f .. f + len - 1
                     PROVE  FALSE
        OBVIOUS
      <4> DEFINE j == At(d) + (k - 1) - At(c)
      <4>2. j \in 0 .. ClusterWords - 1 /\ At(d) + (k - 1) = At(c) + j
        <5>1. PICK x \in Nat, y \in Nat, z \in Nat : x = At(c) /\ y = At(d) /\ z = ClusterWords
          BY <3>1
        <5>2. y + k - 1 \in x + n .. x + n + len - 1 /\ n + len <= z
          BY <1>2, <4>1, <5>1
        <5>3. y + (k - 1) - x \in 0 .. z - 1 /\ y + (k - 1) = x + (y + (k - 1) - x)
          BY <3>2, <5>2
        <5> QED
          BY <5>1, <5>3
      <4> HIDE DEF j
      <4> QED
        BY <1>1, <3>2, <3>3, <4>2, OwnWord
    <3>4. k \in n + 1 .. n + len <=> At(c) + k - 1 \in f .. f + len - 1
      <4>1. PICK x \in Nat : x = At(c)
        BY <3>1
      <4>2. k \in n + 1 .. n + len <=> x + k - 1 \in x + n .. x + n + len - 1
        BY <3>2
      <4> QED
        BY <1>2, <4>1, <4>2
    <3>5. (At(c) + k - 1) - f + 1 = k - n
      BY <1>2, <3>1, <3>2
    <3>6. At(d) + k - 1 \in 0 .. NumWords - 1 /\ At(c) + k - 1 \in 0 .. NumWords - 1
      BY SMTT(30), <1>2, <3>1, <3>2
    <3> QED
      BY <1>3, <3>3, <3>4, <3>5, <3>6
  <2>5. ASSUME NEW d \in Clusters, d # c
        PROVE  Data'[d] = Data[d]
    BY <2>1, <2>2, <2>4, <2>5
  <2>6. Data'[c] = AbstractVolume!Over(Data[c], n, words)
    BY <2>2, <2>3, <2>4
  <2>7. DOMAIN Data = Clusters /\ DOMAIN Data' = Clusters /\ Data' = [d \in Clusters |-> Data'[d]]
    BY <2>1, <2>2
  <2> HIDE DEF Data
  <2> QED
    BY <2>5, <2>6, <2>7
<1> QED
  BY <1>6, <1>7, <1>8 DEF AbstractVolume!SetWords

\* So do the words that Store puts there.
LEMMA DataChange ==
    ASSUME Inv, NEW c \in Clusters, NEW n \in Nat, NEW words \in Seq(Word),
           n < ClusterWords, n + Len(words) <= ClusterWords, Store(4 * (At(c) + n), words)
    PROVE  Inv' /\ AbstractVolume!SetWords(c, n, words)
<1> DEFINE f == At(c) + n
<1>1. At(c) \in Nat /\ At(c) + ClusterWords <= NumWords /\ NumWords \in Nat
      /\ ClusterWords \in Nat /\ Len(words) \in Nat
  BY Sizes, Layout, ClusterOnDisk DEF Inv
<1>2. f \in Nat /\ f < NumWords /\ f + Len(words) <= NumWords
  BY <1>1
<1>3. Inv' /\ boot' = boot /\ disk' = Overlay(f, words)
  BY <1>2, Stored
<1>4. AbstractVolume!SetWords(c, n, words)
  BY <1>1, <1>3, Overlaid
<1> QED
  BY <1>3, <1>4

\* write_fat_entry changes the value of one entry of the FAT and nothing else.
LEMMA FatChange ==
    ASSUME Inv, NEW c \in Clusters, NEW v \in Nat, write_fat_entry(c, v)
    PROVE  /\ Inv'
           /\ Fat' = [Fat EXCEPT ![c].value = v]
           /\ Data' = Data /\ Rest' = Rest
<1> DEFINE f == FatStart + c
           word == [disk[f] EXCEPT !.value = v]
<1>1. /\ boot \in BootSectors /\ ClusterWords \in Nat
      /\ At(c) \in Nat /\ At(c) >= DataStart /\ At(c) + ClusterWords <= NumWords
      /\ NumWords \in Nat /\ DataStart \in Nat /\ FatStart \in Nat /\ c \in Nat /\ f < DataStart
  BY Sizes, Layout, ClusterOnDisk DEF Inv
<1>2. f \in 0 .. NumWords - 1 /\ f \in Nat /\ f < NumWords /\ f + 1 <= NumWords
  BY <1>1
<1>3. disk[f] \in Word /\ word \in Word
  BY <1>2 DEF Inv, Word
<1>4. Store(4 * f, << word >>)
  <2>1. fat_sector_of(c) * bytes_per_sector + ((c * 4) % bytes_per_sector) = 4 * f
    BY <1>1, OffsetOfFatEntry
  <2>2. (4 * f) \div 4 = f
    BY <1>2, SMT
  <2> HIDE DEF f
  <2> QED
    BY <2>1, <2>2 DEF write_fat_entry
<1>5. << word >> \in Seq(Word) /\ Len(<< word >>) = 1 /\ << word >>[1] = word
  BY <1>3
<1> HIDE DEF word
<1>6. /\ Inv' /\ boot' = boot
      /\ disk' = [o \in 0 .. NumWords - 1 |-> IF o = f THEN word ELSE disk[o]]
  <2>1. /\ Inv' /\ boot' = boot
        /\ disk' = [o \in 0 .. NumWords - 1 |->
                        IF o \in f .. f + Len(<< word >>) - 1 THEN << word >>[o - f + 1] ELSE disk[o]]
    BY <1>2, <1>4, <1>5, Stored DEF Overlay
  <2>2. \A o \in 0 .. NumWords - 1 : /\ o \in f .. f + 1 - 1 <=> o = f
                                     /\ o = f => o - f + 1 = 1
    BY <1>2
  <2> HIDE DEF f
  <2> QED
    BY <1>5, <2>1, <2>2
<1>7. Clusters' = Clusters /\ FatStart' = FatStart /\ DataStart' = DataStart
      /\ ClusterWords' = ClusterWords
  BY <1>6, SameLayout
<1>8. Fat' = [Fat EXCEPT ![c].value = v]
  <2>1. Fat = [d \in Clusters |-> disk[FatStart + d]]
    BY DEF Fat
  <2>2. Fat' = [d \in Clusters |-> disk'[FatStart + d]]
    BY <1>7 DEF Fat
  <2>3. \A d \in Clusters : FatStart + d \in 0 .. NumWords - 1 /\ (FatStart + d = f <=> d = c)
    <3>1. \A d \in Clusters : d \in Nat /\ FatStart + d < DataStart
      BY <1>1, Layout
    <3> QED
      BY <1>1, <3>1
  <2>4. Fat'[c] = [Fat[c] EXCEPT !.value = v]
    BY <1>6, <2>1, <2>2, <2>3 DEF word
  <2>5. \A d \in Clusters : d # c => Fat'[d] = Fat[d]
    <3> HIDE DEF f
    <3> QED
      BY <1>6, <2>1, <2>2, <2>3
  <2>6. DOMAIN Fat = Clusters /\ Fat' = [d \in Clusters |-> Fat'[d]]
    BY <2>1, <2>2
  <2> QED
    BY <2>4, <2>5, <2>6
<1>9. Rest' = Rest
  <2> DEFINE E == {FatStart + d : d \in Clusters}
  <2>1. Rest = [o \in 0 .. DataStart - 1 |-> IF o \in E THEN "entry" ELSE disk[o]]
    BY DEF Rest
  <2>2. Rest' = [o \in 0 .. DataStart - 1 |-> IF o \in E THEN "entry" ELSE disk'[o]]
    BY <1>7 DEF Rest
  <2>3. f \in E
    OBVIOUS
  <2>4. \A o \in 0 .. DataStart - 1 : o \in 0 .. NumWords - 1
    BY <1>1
  <2> HIDE DEF E, f
  <2> QED
    BY <1>6, <2>1, <2>2, <2>3, <2>4
<1>10. Data' = Data
  <2>1. Data = [d \in Clusters |-> [k \in 1 .. ClusterWords |-> disk[At(d) + k - 1]]]
    BY DEF Data, At
  <2>2. Data' = [d \in Clusters |-> [k \in 1 .. ClusterWords |-> disk'[At(d) + k - 1]]]
    BY <1>7 DEF Data, At
  <2>3. ASSUME NEW d \in Clusters, NEW k \in 1 .. ClusterWords
        PROVE  disk'[At(d) + k - 1] = disk[At(d) + k - 1]
    <3>1. At(d) \in Nat /\ At(d) >= DataStart /\ At(d) + ClusterWords <= NumWords
      BY <1>1, ClusterOnDisk
    <3>2. At(d) + k - 1 \in 0 .. NumWords - 1 /\ At(d) + k - 1 # f
      BY <1>1, <3>1
    <3> HIDE DEF f
    <3> QED
      BY <1>6, <3>2
  <2> QED
    BY <2>1, <2>2, <2>3
<1> QED
  BY <1>6, <1>8, <1>9, <1>10

-----------------------------------------------------------------------------
(* The calls *)

\* A function on 1 .. n is a sequence of length n.
LEMMA FunctionIsSeq ==
    ASSUME NEW S, NEW n \in Nat, NEW f \in [1 .. n -> S]
    PROVE  f \in Seq(S) /\ Len(f) = n
  OBVIOUS

\* One sequence behind another.
LEMMA Concatenated ==
    ASSUME NEW S, NEW s \in Seq(S), NEW t \in Seq(S)
    PROVE  s \o t \in Seq(S) /\ Len(s \o t) = Len(s) + Len(t)
  OBVIOUS

\* The invariant holds at the start.
LEMMA InitInv ==
    ASSUME Init
    PROVE  Inv
<1>1. PICK image \in Images : boot = image.boot /\ disk = image.disk
  BY DEF Init
<1>2. boot \in BootSectors /\ panicked = FALSE
  BY <1>1 DEF Init, BootSectors
<1>3. disk \in [0 .. NumWords - 1 -> Word]
  BY <1>1, ImageAssumption DEF NumWords, SectorWords
<1> QED
  BY <1>2, <1>3 DEF Inv

\* allocate_cluster finds the first free entry below AllocEnd, as Allocate does.
LEMMA AllocateStep ==
    ASSUME Inv, allocate_cluster
    PROVE  Inv' /\ AbstractVolume!Allocate
<1> DEFINE free == {c \in 2 .. AllocEnd - 1 : read_fat_entry(c) = 0}
           found == {c \in Clusters : c < AllocEnd /\ Fat[c].value = 0}
<1>1. /\ 2 .. AllocEnd - 1 \subseteq Clusters
      /\ \A c \in Clusters : c \in Nat /\ c >= 2
      /\ AllocEnd \in Nat
  BY Layout, BootOK DEF Inv
<1>2. \A c \in Clusters : read_fat_entry(c) = Fat[c].value
  BY InvReads DEF ReadsAgree
<1>3. free = found
  <2>1. \A c \in Clusters : c \in 2 .. AllocEnd - 1 <=> c < AllocEnd
    BY <1>1
  <2> QED
    BY <1>1, <1>2, <2>1
<1>4. DOMAIN Fat = Clusters
  BY DEF Fat
<1>5. CASE free = {}
  <2>1. boot' = boot /\ disk' = disk /\ panicked' = panicked
    BY <1>5 DEF allocate_cluster
  <2>2. Inv'
    BY <2>1 DEF Inv, NumWords, SectorWords
  <2>3. Fat' = Fat /\ Data' = Data /\ Rest' = Rest
    BY <2>1 DEF Fat, Data, Rest, Clusters, FatStart, DataStart, ClusterWords, SectorWords
  <2>4. found = {}
    BY <1>3, <1>5
  <2> QED
    BY <1>4, <2>2, <2>3, <2>4 DEF AbstractVolume!Allocate, AbstractVolume!Clusters
<1>6. CASE free # {}
  <2> DEFINE c == Min(free)
  <2>1. c \in free /\ \A b \in free : c <= b
    <3>1. free \in SUBSET Nat
      BY <1>1
    <3> HIDE DEF free
    <3> QED
      BY <1>6, <3>1, MinIsElement
  <2>2. c \in Clusters
    BY <1>1, <2>1
  <2>3. write_fat_entry(c, EOC)
    BY <1>6 DEF allocate_cluster
  <2> HIDE DEF c
  <2>4. EOC \in Nat
    BY DEF EOC
  <2>5. Inv' /\ Fat' = [Fat EXCEPT ![c].value = EOC] /\ Data' = Data /\ Rest' = Rest
    BY <2>2, <2>3, <2>4, FatChange
  <2>6. c \in found /\ \A b \in found : c <= b
    <3> HIDE DEF free, found
    <3> QED
      BY <1>3, <2>1
  <2> QED
    BY <1>4, <2>5, <2>6 DEF AbstractVolume!Allocate, AbstractVolume!Clusters
<1> QED
  BY <1>5, <1>6

\* The entry, and the size in it, are where the abstract slot is.
LEMMA EntryStep ==
    ASSUME Inv, NEW c \in Clusters, NEW i \in 0 .. Slots - 1, NEW e \in Entries
    PROVE  /\ write_directory_entry(c, i, e)
                  => Inv' /\ AbstractVolume!SetWords(c, i * 8, e)
           /\ update_file_size(c, i, e[8])
                  => Inv' /\ AbstractVolume!SetWords(c, i * 8 + 7, << e[8] >>)
<1>1. /\ boot \in BootSectors /\ i \in Nat
      /\ i * 8 + 8 <= ClusterWords /\ ClusterWords \in Nat
  <2>1. ClusterWords = 8 * Slots /\ Slots \in Nat /\ boot \in BootSectors
    BY Sizes DEF Inv
  <2> QED
    BY <2>1
<1>2. e \in Seq(Word) /\ Len(e) = 8 /\ e[8] \in Word
  <2>1. e \in [1 .. 8 -> Word]
    BY WritesAssumption
  <2>2. e \in Seq(Word) /\ Len(e) = 8
    <3>1. PICK n \in Nat : n = 8
      OBVIOUS
    <3>2. e \in [1 .. n -> Word]
      BY <2>1, <3>1
    <3>3. e \in Seq(Word) /\ Len(e) = n
      BY Zenon, <3>1, <3>2, FunctionIsSeq
    <3> QED
      BY Zenon, <3>1, <3>3
  <2>3. e[8] \in Word
    BY <2>1
  <2> QED
    BY <2>2, <2>3
<1>3. << e[8] >> \in Seq(Word) /\ Len(<< e[8] >>) = 1
  BY <1>2
<1>4. i * 32 = 4 * (i * 8) /\ i * 32 + 28 = 4 * (i * 8 + 7) /\ i * 8 \in Nat /\ i * 8 + 7 \in Nat
  BY <1>1
<1>5. ASSUME write_directory_entry(c, i, e)
      PROVE  Inv' /\ AbstractVolume!SetWords(c, i * 8, e)
  <2> DEFINE n == i * 8
  <2>1. n \in Nat /\ n < ClusterWords /\ n + Len(e) <= ClusterWords
    BY <1>1, <1>2, <1>4
  <2>2. Store(EntryOffset(c, 4 * n), e)
    BY <1>4, <1>5 DEF write_directory_entry
  <2> HIDE DEF n
  <2>3. EntryOffset(c, 4 * n) = 4 * (At(c) + n)
    BY <1>1, <2>1, OffsetOfEntry
  <2>4. Inv' /\ AbstractVolume!SetWords(c, n, e)
    BY <1>2, <2>1, <2>2, <2>3, DataChange
  <2> QED
    BY <2>4 DEF n
<1>6. ASSUME update_file_size(c, i, e[8])
      PROVE  Inv' /\ AbstractVolume!SetWords(c, i * 8 + 7, << e[8] >>)
  <2> DEFINE n == i * 8 + 7
             w == << e[8] >>
  <2>1. n \in Nat /\ n < ClusterWords /\ n + Len(w) <= ClusterWords
    BY <1>1, <1>3, <1>4
  <2>2. Store(EntryOffset(c, 4 * n), w)
    BY <1>4, <1>6 DEF update_file_size
  <2> HIDE DEF n, w
  <2>3. EntryOffset(c, 4 * n) = 4 * (At(c) + n)
    BY <1>1, <2>1, OffsetOfEntry
  <2>4. w \in Seq(Word)
    BY <1>3 DEF w
  <2>5. Inv' /\ AbstractVolume!SetWords(c, n, w)
    BY <2>1, <2>2, <2>3, <2>4, DataChange
  <2> QED
    BY <2>5 DEF n, w
<1> QED
  BY <1>5, <1>6

\* What is stored from the start of a cluster's first sector is in the cluster.
LEMMA FromStart ==
    ASSUME Inv, NEW c \in Clusters, NEW words \in Seq(Word), Len(words) <= ClusterWords,
           Store(start_sector(c) * bytes_per_sector, words)
    PROVE  Inv' /\ AbstractVolume!SetWords(c, 0, words)
<1>1. /\ boot \in BootSectors /\ ClusterWords \in Nat /\ ClusterWords >= 16
      /\ At(c) \in Nat /\ Len(words) \in Nat
  BY Sizes, ClusterOnDisk DEF Inv
<1>2. start_sector(c) * bytes_per_sector = 4 * At(c)
  BY <1>1, StartOfCluster, SectorWord
<1>3. At(c) + 0 = At(c) /\ 0 \in Nat /\ 0 < ClusterWords /\ 0 + Len(words) <= ClusterWords
  BY <1>1
<1>4. Store(4 * (At(c) + 0), words)
  BY <1>2, <1>3
<1> QED
  BY <1>3, <1>4, DataChange

\* write_file drops what does not fit, which has no place in the cluster.
LEMMA WriteFileStep ==
    ASSUME Inv, NEW c \in Clusters, NEW words \in Contents, write_file(c, words)
    PROVE  Inv' /\ AbstractVolume!SetWords(c, 0, words)
<1> DEFINE m == Min({Len(words), ClusterWords})
           cut == SubSeq(words, 1, m)
<1>1. /\ words \in Seq(Word) /\ Len(words) \in Nat
      /\ ClusterWords \in Nat /\ cluster_size \div 4 = ClusterWords
  BY WritesAssumption, Sizes DEF Inv
<1>2. m \in Nat /\ m <= Len(words) /\ m <= ClusterWords /\ (m = Len(words) \/ m = ClusterWords)
  <2>1. {Len(words), ClusterWords} \in SUBSET Nat /\ {Len(words), ClusterWords} # {}
    BY <1>1
  <2>2. m \in {Len(words), ClusterWords} /\ \A y \in {Len(words), ClusterWords} : m <= y
    BY <2>1, MinIsElement
  <2> QED
    BY <1>1, <2>2
<1>3. Store(start_sector(c) * bytes_per_sector, cut)
  BY <1>1 DEF write_file
<1> HIDE DEF m
<1>4. cut \in Seq(Word) /\ Len(cut) = m /\ \A k \in 1 .. m : cut[k] = words[k]
  BY <1>1, <1>2
<1> HIDE DEF cut
<1>5. Inv' /\ AbstractVolume!SetWords(c, 0, cut)
  BY <1>2, <1>3, <1>4, FromStart
<1>6. AbstractVolume!Over(Data[c], 0, cut) = AbstractVolume!Over(Data[c], 0, words)
  <2>1. DOMAIN Data[c] = 1 .. ClusterWords
    BY DEF Data
  <2>2. \A k \in 1 .. ClusterWords : /\ k \in 0 + 1 .. 0 + m <=> k \in 0 + 1 .. 0 + Len(words)
                                     /\ k \in 0 + 1 .. 0 + m => k - 0 \in 1 .. m
    BY <1>1, <1>2
  <2> QED
    BY <1>4, <2>1, <2>2 DEF AbstractVolume!Over
<1> QED
  BY <1>5, <1>6 DEF AbstractVolume!SetWords

\* init_directory_cluster fills a cluster.
LEMMA InitDirectoryStep ==
    ASSUME Inv, NEW c \in Clusters, NEW dot \in Entries, NEW dotdot \in Entries,
           init_directory_cluster(c, dot \o dotdot)
    PROVE  /\ Inv'
           /\ AbstractVolume!SetWords(c, 0, (dot \o dotdot) \o [k \in 1 .. ClusterWords - 16 |-> Zero])
<1> DEFINE dots == dot \o dotdot
           zeros == [k \in 1 .. ClusterWords - 16 |-> Zero]
<1>1. ClusterWords \in Nat /\ ClusterWords >= 16 /\ cluster_size \div 4 = ClusterWords
  BY Sizes DEF Inv
<1>2. dot \in Seq(Word) /\ Len(dot) = 8 /\ dotdot \in Seq(Word) /\ Len(dotdot) = 8
  <2>1. dot \in [1 .. 8 -> Word] /\ dotdot \in [1 .. 8 -> Word] /\ 8 \in Nat
    BY WritesAssumption
  <2> QED
    BY <2>1, FunctionIsSeq
<1>3. dots \in Seq(Word) /\ Len(dots) = 16
  <2>1. dots \in Seq(Word) /\ Len(dots) = Len(dot) + Len(dotdot)
    BY <1>2, Concatenated, Zenon
  <2> QED
    BY <1>2, <2>1
<1>4. zeros \in Seq(Word) /\ Len(zeros) = ClusterWords - 16
  <2>1. Zero \in Word
    BY DEF Zero, Word
  <2> QED
    BY <1>1, <2>1
<1>5. Store(start_sector(c) * bytes_per_sector, dots \o zeros)
  BY <1>1, <1>3 DEF init_directory_cluster
<1> HIDE DEF dots, zeros
<1>6. dots \o zeros \in Seq(Word) /\ Len(dots \o zeros) <= ClusterWords
  <2>1. dots \o zeros \in Seq(Word) /\ Len(dots \o zeros) = Len(dots) + Len(zeros)
    BY <1>3, <1>4, Concatenated, Zenon
  <2> QED
    BY <1>1, <1>3, <1>4, <2>1
<1>7. Inv' /\ AbstractVolume!SetWords(c, 0, dots \o zeros)
  BY <1>5, <1>6, FromStart
<1> QED
  BY <1>7 DEF dots, zeros

\* Every step keeps the invariant and is a step of the volume.
LEMMA NextStep ==
    ASSUME Inv, [Next]_vars
    PROVE  Inv' /\ [AbstractVolume!Next]_(AbstractVolume!vars)
<1>1. CASE UNCHANGED vars
  <2>1. Inv'
    BY <1>1 DEF vars, Inv, NumWords, SectorWords
  <2>2. Fat' = Fat /\ Data' = Data /\ Rest' = Rest /\ call' = call
    BY <1>1 DEF vars, Fat, Data, Rest, Clusters, FatStart, DataStart, ClusterWords, SectorWords
  <2> QED
    BY <2>1, <2>2 DEF AbstractVolume!vars
<1>2. CASE allocate_cluster /\ Call("allocate", 0, 0, << >>)
  BY <1>2, AllocateStep DEF Call, AbstractVolume!Next
<1>3. ASSUME NEW c \in Clusters, NEW i \in 0 .. Slots - 1, NEW e \in Entries,
             write_directory_entry(c, i, e), Call("entry", c, i, e)
      PROVE  Inv' /\ AbstractVolume!Next
  BY <1>3, EntryStep DEF Call, AbstractVolume!Next, AbstractVolume!SlotWords
<1>4. ASSUME NEW c \in Clusters, NEW i \in 0 .. Slots - 1, NEW e \in Entries,
             update_file_size(c, i, e[8]), Call("size", c, i, << e[8] >>)
      PROVE  Inv' /\ AbstractVolume!Next
  BY <1>4, EntryStep
  DEF Call, AbstractVolume!Next, AbstractVolume!SlotWords, AbstractVolume!SizeWord
<1>5. ASSUME NEW c \in Clusters, NEW words \in Contents,
             write_file(c, words), Call("data", c, 0, words)
      PROVE  Inv' /\ AbstractVolume!Next
  BY <1>5, WriteFileStep DEF Call, AbstractVolume!Next
<1>6. ASSUME NEW c \in Clusters, NEW dot \in Entries, NEW dotdot \in Entries,
             init_directory_cluster(c, dot \o dotdot),
             Call("data", c, 0, (dot \o dotdot) \o [k \in 1 .. ClusterWords - 16 |-> Zero])
      PROVE  Inv' /\ AbstractVolume!Next
  BY <1>6, InitDirectoryStep DEF Call, AbstractVolume!Next
<1> QED
  BY <1>1, <1>2, <1>3, <1>4, <1>5, <1>6 DEF Next

-----------------------------------------------------------------------------
(* The theorems *)

\* Inv is an invariant.
LEMMA Invariance == Spec => []Inv
<1>1. Init => Inv
  BY InitInv
<1>2. Inv /\ [Next]_vars => Inv'
  BY NextStep
<1> QED
  BY <1>1, <1>2, PTL DEF Spec

\* read_fat_entry and read_cluster find the FAT entry and the cluster, on
\* every volume and after any calls that write.
THEOREM ReadsFindData == Spec => []ReadsAgree
<1>1. Inv => ReadsAgree
  BY InvReads
<1> QED
  BY <1>1, Invariance, PTL

\* No offset overflows and no slice ends behind the disk, on every volume of
\* at most 2^32 bytes.
THEOREM OffsetsStayOnDisk == Spec => []NoPanic
<1>1. Inv => NoPanic
  BY InvNoPanic
<1> QED
  BY <1>1, Invariance, PTL

\* The disk implements the volume: write_fat_entry, write_directory_entry,
\* update_file_size, write_file and init_directory_cluster change what they
\* mean to change and no other word, on every volume.
THEOREM DiskIsVolume == Spec => IsVolume
<1>1. Inv /\ [Next]_vars => [AbstractVolume!Next]_(AbstractVolume!vars)
  BY NextStep
<1> QED
  BY <1>1, Invariance, PTL DEF Spec, IsVolume, AbstractVolume!Spec
=============================================================================
