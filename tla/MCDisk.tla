------------------------------- MODULE MCDisk -------------------------------
(***************************************************************************)
(* Images of seven clusters: two slots in one sector, a slot in each of    *)
(* two sectors with a FAT of two sectors, two slots in each of two.        *)
(***************************************************************************)
EXTENDS Disk

MCBoot(bytes, per_cluster, reserved, fats, fat_size) ==
    [BytsPerSec |-> bytes, SecPerClus |-> per_cluster, RsvdSecCnt |-> reserved,
     NumFATs |-> fats, FATSz32 |-> fat_size,
     TotSec32 |-> reserved + fats * fat_size + 7 * per_cluster]

MCBootSectors ==
    {MCBoot(64, 1, 1, 2, 1), MCBoot(32, 2, 1, 2, 2), MCBoot(64, 2, 2, 1, 1)}

\* The clusters up to any one are in use; words that are not FAT entries are
\* all different.
MCDiskOf(b, last) ==
    LET sector == b.BytsPerSec \div 4
        fat == b.RsvdSecCnt * sector
    IN  [o \in 0 .. b.TotSec32 * sector - 1 |->
            [top |-> o % 3,
             value |-> IF o - fat \in 2 .. b.FATSz32 * sector - 1
                       THEN IF o - fat <= last THEN EOC ELSE 0
                       ELSE o + 1]]

MCImages ==
    {[boot |-> b, disk |-> MCDiskOf(b, last)] : b \in MCBootSectors, last \in 2 .. 8}

\* The largest of them is exactly as long as offsets can be.
MCU32 == 17 * 64

MCEntries == {[k \in 1 .. 8 |-> [top |-> 0, value |-> 1000 + k]]}

\* As long as one slot, two and three: less than a cluster, as much, and more.
MCContents == {[k \in 1 .. 8 * n |-> [top |-> 0, value |-> 1000 + k]] : n \in 1 .. 3}
=============================================================================
