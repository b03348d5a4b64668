-------------------------------- MODULE Disk --------------------------------
(***************************************************************************)
(* The disk as Fat32FileSystem has it (src/src/file_system.rs): bytes, and *)
(* the offsets that new, read_sector, read_cluster and the writing methods *)
(* compute in u32.  Bytes are taken four at a time: of what is in such a   *)
(* word, only the high bits of a FAT entry matter.                         *)
(***************************************************************************)
EXTENDS Integers, Sequences, FiniteSetsExt

CONSTANTS
    Images,        \* what may be mounted: the words, and what new reads in the boot sector
    U32,           \* 2^32: disk offsets from here on overflow
    AllocEnd,      \* allocate_cluster looks at 2 .. AllocEnd - 1
    Entries,       \* directory entries that are written, of 8 words each
    Contents,      \* file contents that are written, sequences of words
    MaxWrites      \* bound: calls that write

VARIABLES
    boot,       \* the boot sector
    disk,       \* the words of the disk by their number, from 0
    panicked,   \* an overflow, or an index out of the slice
    call,       \* auxiliary: the last call that writes,
    writes      \* and their number

vars == << boot, disk, panicked, call, writes >>

EOC == 268435455   \* 0x0FFFFFFF

\* top is the four high bits.
Word == [top : Nat, value : Nat]

ASSUME WritesAssumption ==
    /\ Entries \subseteq [1 .. 8 -> Word]
    /\ Contents \subseteq Seq(Word)

\* What mkfs.fat makes: whole slots in a sector, room for "." and ".." in a
\* cluster, offsets of at most 32 bits, an entry in the FAT for every cluster,
\* and no fewer clusters than allocate_cluster looks at (it stops before 50000;
\* test.img has 64496).
GeometryOK(b) ==
    /\ b.BytsPerSec \in Nat \ {0} /\ b.SecPerClus \in Nat \ {0}
    /\ b.RsvdSecCnt \in Nat /\ b.NumFATs \in Nat \ {0}
    /\ b.FATSz32 \in Nat /\ b.TotSec32 \in Nat
    /\ b.BytsPerSec % 32 = 0
    /\ b.SecPerClus * b.BytsPerSec >= 64
    /\ b.TotSec32 * b.BytsPerSec <= U32
    /\ LET sectors == b.TotSec32 - (b.RsvdSecCnt + b.NumFATs * b.FATSz32)
           end == sectors \div b.SecPerClus + 2
       IN  AllocEnd <= end /\ 4 * end <= b.FATSz32 * b.BytsPerSec

ASSUME ImageAssumption ==
    /\ U32 \in Nat /\ AllocEnd \in Nat
    /\ \A image \in Images :
           LET b == image.boot
           IN  /\ GeometryOK(b)
               /\ image.disk \in [0 .. b.TotSec32 * (b.BytsPerSec \div 4) - 1 -> Word]

-----------------------------------------------------------------------------
(* new                                                                     *)

bytes_per_sector == boot.BytsPerSec
sectors_per_cluster == boot.SecPerClus
fat_sector == boot.RsvdSecCnt

data_sector == boot.RsvdSecCnt + boot.NumFATs * boot.FATSz32

cluster_size == sectors_per_cluster * bytes_per_sector

-----------------------------------------------------------------------------
(* Reading                                                                 *)

\* Mutant of InRange: the end of the slice is computed in u32, too.
InRange_End(offset, n) == offset + 4 * n < U32 /\ offset \div 4 + n <= Cardinality(DOMAIN disk)

\* self.disk[offset..offset + 4 * n] does not panic, and offset no overflow.
InRange(offset, n) == offset < U32 /\ offset \div 4 + n <= Cardinality(DOMAIN disk)

\* The offset of read_sector does not overflow, and the sector is on the disk.
SectorInRange(address) == InRange(address * bytes_per_sector, bytes_per_sector \div 4)

read_sector(address) ==
    LET first == (address * bytes_per_sector) \div 4
    IN  [k \in 1 .. bytes_per_sector \div 4 |-> disk[first + k - 1]]

start_sector(c) == data_sector + (c - 2) * sectors_per_cluster

\* One sector after the other.
read_cluster(c) ==
    LET size == bytes_per_sector \div 4
    IN  [k \in 1 .. sectors_per_cluster * size |->
            read_sector(start_sector(c) + (k - 1) \div size)[((k - 1) % size) + 1]]

\* Mutant of fat_index: not taken modulo the sector.
fat_index_Zero(c) == 0

\* The word of a sector of the FAT that is the entry of c.
fat_index(c) == ((c * 4) % bytes_per_sector) \div 4

\* The sector that the FAT entry of c is in.
fat_sector_of(c) == fat_sector + (c * 4) \div bytes_per_sector

read_fat_entry(c) == read_sector(fat_sector_of(c))[fat_index(c) + 1].value

-----------------------------------------------------------------------------
(* Writing                                                                 *)

\* self.disk[offset..].copy_from_slice(words)
Store(offset, words) ==
    LET first == offset \div 4
        last == first + Len(words) - 1
    IN  /\ panicked' = ~InRange(offset, Len(words))
        /\ disk' = IF panicked' THEN disk
                   ELSE [o \in DOMAIN disk |-> IF o \in first .. last THEN words[o - first + 1]
                                                                     ELSE disk[o]]
        /\ writes' = writes + 1
        /\ UNCHANGED boot

\* The four high bits stay.
write_fat_entry(c, value) ==
    LET global_offset == fat_sector_of(c) * bytes_per_sector + ((c * 4) % bytes_per_sector)
    IN  Store(global_offset, << [disk[global_offset \div 4] EXCEPT !.value = value] >>)

\* Mutant of EntryOffset: the sector of the cluster is left out.
EntryOffset_OneSector(c, byte) == start_sector(c) * bytes_per_sector + (byte % bytes_per_sector)

\* Where byte number `byte' of cluster c is, as write_directory_entry and
\* update_file_size compute it.
EntryOffset(c, byte) ==
    LET sector_offset == byte \div bytes_per_sector
    IN  (start_sector(c) + sector_offset) * bytes_per_sector + (byte % bytes_per_sector)

write_directory_entry(c, entry_idx, entry) == Store(EntryOffset(c, entry_idx * 32), entry)

\* The last part of update_file_size.
update_file_size(c, entry_idx, size) == Store(EntryOffset(c, entry_idx * 32 + 28), << size >>)

\* The middle part of write_file: n words, cut at the size of a cluster.
write_file(c, words) ==
    Store(start_sector(c) * bytes_per_sector,
          SubSeq(words, 1, Min({Len(words), cluster_size \div 4})))

Zero == [top |-> 0, value |-> 0]

\* The entries "." and "..", and zeros.
init_directory_cluster(c, dots) ==
    Store(start_sector(c) * bytes_per_sector,
          dots \o [k \in 1 .. cluster_size \div 4 - Len(dots) |-> Zero])

\* "Disk full" is a call that changes nothing.
allocate_cluster ==
    LET free == {c \in 2 .. AllocEnd - 1 : read_fat_entry(c) = 0}
    IN  IF free = {} THEN UNCHANGED << boot, disk, panicked, writes >>
        ELSE write_fat_entry(Min(free), EOC)

-----------------------------------------------------------------------------
(* The layout of a FAT32 volume, in words, independent of the code above.  *)

SectorWords == boot.BytsPerSec \div 4
FatStart == boot.RsvdSecCnt * SectorWords
DataStart == (boot.RsvdSecCnt + boot.NumFATs * boot.FATSz32) * SectorWords
ClusterWords == boot.SecPerClus * SectorWords
NumWords == boot.TotSec32 * SectorWords

Clusters ==
    LET sectors == boot.TotSec32 - (boot.RsvdSecCnt + boot.NumFATs * boot.FATSz32)
    IN  2 .. sectors \div boot.SecPerClus + 1

Fat ==
    LET start == FatStart
    IN  [c \in Clusters |-> disk[start + c]]

Data ==
    LET start == DataStart
        size == ClusterWords
    IN  [c \in Clusters |-> [k \in 1 .. size |-> disk[start + (c - 2) * size + k - 1]]]

Rest ==
    LET entries == {FatStart + c : c \in Clusters}
    IN  [o \in 0 .. DataStart - 1 |-> IF o \in entries THEN "entry" ELSE disk[o]]

Init ==
    /\ \E image \in Images : boot = image.boot /\ disk = image.disk
    /\ panicked = FALSE
    /\ call = [op |-> "none", cluster |-> 0, slot |-> 0, words |-> << >>]
    /\ writes = 0

Slots == ClusterWords \div 8

Call(op, c, i, words) ==
    call' = [op |-> op, cluster |-> c, slot |-> i, words |-> words]

\* The calls that the rest of the file system makes.
Next ==
    /\ ~panicked
    /\ writes < MaxWrites
    /\ \/ allocate_cluster /\ Call("allocate", 0, 0, << >>)
       \/ \E c \in Clusters, i \in 0 .. Slots - 1, e \in Entries :
              \/ write_directory_entry(c, i, e) /\ Call("entry", c, i, e)
              \/ update_file_size(c, i, e[8]) /\ Call("size", c, i, << e[8] >>)
       \/ \E c \in Clusters, words \in Contents :
              write_file(c, words) /\ Call("data", c, 0, words)
       \/ \E c \in Clusters, dot, dotdot \in Entries :
              LET dots == dot \o dotdot
              IN  /\ init_directory_cluster(c, dots)
                  /\ Call("data", c, 0, dots \o [k \in 1 .. ClusterWords - 16 |-> Zero])

Spec == Init /\ [][Next]_vars

-----------------------------------------------------------------------------
AbstractVolume == INSTANCE Volume
    WITH EndOfChain <- EOC, SearchEnd <- AllocEnd, fat <- Fat, data <- Data, rest <- Rest

\* Every call that writes changes the FAT entry, the slot, the size or the
\* cluster it means to change, wherever that is in its sector, and no byte
\* elsewhere: no other cluster, not the boot sector, not the other copy of
\* the FAT, not the four high bits of the entry.
IsVolume == AbstractVolume!Spec

\* What was written is what is read: reading goes sector by sector, writing
\* by an offset into the disk, and both find the same words.
ReadsAgree ==
    \A c \in Clusters : read_fat_entry(c) = Fat[c].value /\ read_cluster(c) = Data[c]

\* No offset overflows on a disk of up to 2^32 bytes, and no slice goes over
\* its end, in reading and in writing, also for the last slot of the last
\* cluster: the panics of read_sector and of the slices are never met.
NoPanic ==
    /\ ~panicked
    /\ \A c \in Clusters :
           /\ SectorInRange(fat_sector_of(c))
           /\ \A i \in 0 .. sectors_per_cluster - 1 : SectorInRange(start_sector(c) + i)
=============================================================================
