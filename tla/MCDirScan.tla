----------------------------- MODULE MCDirScan -----------------------------
(***************************************************************************)
(* Every directory of five slots over ten kinds of slot: two short names   *)
(* with different checksums, a label, blanks, and long-name entries with   *)
(* repeated, missing and swapped numbers, a fragment that ends early, and  *)
(* one that is not UTF-16.                                                 *)
(***************************************************************************)
EXTENDS DirScan

MCSlotCount == 5

NameA == format_to_8_3(<< 97, 46, 98 >>)
NameB == format_to_8_3(<< 98 >>)
SumA == lfn_checksum(NameA)
SumB == lfn_checksum(NameB)

MCSlotChoices ==
    { ShortEntry(NameA, "file", 3, 1),
      ShortEntry(NameB, "dir", 4, 0),
      ShortEntry(NameA, "volume", 0, 0),
      Blank(EndMark),
      Blank(DeletedMark),
      LfnEntry(2, TRUE, SumA, << 120, 0, 120 >>),
      LfnEntry(1, TRUE, SumB, << 121, 65535 >>),
      LfnEntry(1, FALSE, SumA, << 122 >>),
      LfnEntry(2, FALSE, SumB, << 119 >>),
      LfnEntry(1, FALSE, SumA, << 56320 >>) }
=============================================================================
