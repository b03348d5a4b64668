------------------------------ MODULE MCFat32 ------------------------------
(***************************************************************************)
(* Small images and sets of calls for model checking Fat32.  The image has *)
(* the layout of src/test.img at a scale of 6 slots per cluster: a file    *)
(* and a directory with long names in the root, one file with a long name  *)
(* in the directory, deleted slots, and free clusters with old data in     *)
(* them; a file BIG on a chain of two clusters is added.                   *)
(***************************************************************************)
EXTENDS Fat32

MCRoot == 2
MCSlots == 6
MCLast == 11
MCAllocEnd == 9

TestTxt == 3
TestDir == 4
TestDirFile == 5
Big == 10
BigTail == 11

-----------------------------------------------------------------------------
(* Names *)

F == << 70 >>
D == << 68 >>
BIG == << 66, 73, 71 >>
HAO == << 229, 165, 189 >>                          \* a character that starts with 0xE5
DotX == << 46, 88 >>                                \* ".X", an invalid name
test_txt == << 116, 101, 115, 116, 46, 116, 120, 116 >>
TEST_TXT == << 84, 69, 83, 84, 46, 84, 88, 84 >>
test_dir == << 116, 101, 115, 116, 95, 100, 105, 114 >>
test_dir_file == test_dir \o << 95, 102, 105, 108, 101 >>
TestShort == << 84, 69, 83, 84, 32, 32, 32, 32, 84, 88, 84 >>
TestDirShort == << 84, 69, 83, 84, 95, 68, 73, 82, 32, 32, 32 >>
TestDirFileShort == << 84, 69, 83, 84, 95, 68, 126, 49, 32, 32, 32 >>
BigShort == << 66, 73, 71, 32, 32, 32, 32, 32, 32, 32, 32 >>

\* The single long-name entry of a name of at most 13 characters, with the
\* checksums of the image.
Lfn(name, sum) ==
    LfnEntry(1, TRUE, sum, IF Len(name) < 13 THEN name \o << 0, 65535 >> ELSE name)

-----------------------------------------------------------------------------
(* The image *)

a == Text(97, FALSE)
b == Text(98, FALSE)
g == Text(71, FALSE)
z == Blank(EndMark)
x == Blank(DeletedMark)

MCData ==
    [c \in 2 .. MCLast |->
        CASE c = MCRoot ->
                << Lfn(test_txt, 143), ShortEntry(TestShort, "file", TestTxt, 1),
                   Lfn(test_dir, 85), ShortEntry(TestDirShort, "dir", TestDir, 0),
                   ShortEntry(BigShort, "file", Big, 8), x >>
          [] c = TestTxt -> << a, z, z, z, z, z >>
          [] c = TestDir ->
                << ShortEntry(DotName, "dir", TestDir, 0), ShortEntry(DotDotName, "dir", 0, 0),
                   Lfn(test_dir_file, 132), ShortEntry(TestDirFileShort, "file", TestDirFile, 2),
                   x, z >>
          [] c = TestDirFile -> << a, b, z, z, z, z >>
          [] c = 6 -> << ShortEntry(TestShort, "file", TestTxt, 1), g, x, g, g, g >>
          [] c = Big -> << b, b, b, b, b, b >>
          [] c = BigTail -> << a, a, g, g, g, g >>
          [] OTHER -> << z, z, z, z, z, z >>]

MCFat ==
    [c \in 2 .. MCLast |->
        CASE c = MCRoot -> EndOfChainMin
          [] c \in {TestTxt, TestDir, TestDirFile, BigTail} -> EndOfChain
          [] c = Big -> BigTail
          [] OTHER -> Free]

MCDirs == {MCRoot, TestDir}

MCContent ==
    [c \in 2 .. MCLast |->
        CASE c = TestTxt -> << a >>
          [] c = TestDirFile -> << a, b >>
          [] c = Big -> << b, b, b, b, b, b, a, a >>
          [] OTHER -> << >>]

-----------------------------------------------------------------------------
(* Calls *)

Path(parts) == [abs |-> FALSE, parts |-> parts, slash |-> FALSE]
AbsPath(parts) == [abs |-> TRUE, parts |-> parts, slash |-> FALSE]
SlashPath(parts) == [abs |-> FALSE, parts |-> parts, slash |-> TRUE]

Do(fns, paths) ==
    [fn : fns, path : paths, name : {<< >>}, text : {<< >>}]
Create(fns, paths, names) ==
    [fn : fns, path : paths, name : names, text : {<< >>}]
Write(paths, texts) ==
    [fn : {"write"}, path : paths, name : {<< >>}, text : texts]

\* Seven slots of text: the sixth ends inside a character.
LongText == << a, a, a, a, a, Text(97, TRUE), Text(165, FALSE) >>

BrowseCalls ==
    Do({"ls_entries"}, {Path(<< >>)})
    \cup Do({"ls"}, {AbsPath(<< test_dir >>), Path(<< F >>)})
    \cup Do({"cd"}, {Path(<< test_dir >>), Path(<< D >>), SlashPath(<< DotDot >>),
                     AbsPath(<< test_dir, Dot, DotDot, test_txt >>),
                     Path(<< D, DotDot >>), AbsPath(<< >>)})

\* Making files and directories, also with invalid names, under a name that
\* looks deleted, and with a file as the parent.
TreeCalls ==
    BrowseCalls
    \cup Create({"touch"}, {Path(<< >>), Path(<< D >>)}, {F})
    \cup Create({"touch"}, {Path(<< test_dir >>)}, {DotX})
    \cup Create({"touch"}, {Path(<< test_txt >>), Path(<< test_dir, D >>)}, {HAO})
    \cup Create({"mkdir"}, {AbsPath(<< >>), Path(<< test_dir >>)}, {D, DotX})
    \cup Create({"mkdir"}, {Path(<< test_txt, F >>), Path(<< test_txt >>)}, {D})

\* Writing and reading, in the root and in a new directory.
WriteCalls ==
    Create({"mkdir"}, {Path(<< >>), Path(<< test_txt >>)}, {D})
    \cup Create({"touch"}, {Path(<< D >>), Path(<< test_dir >>)}, {F})
    \cup Do({"cat"}, {AbsPath(<< test_txt >>), Path(<< BIG >>), Path(<< F >>),
                      Path(<< D, F >>), Path(<< test_dir >>)})
    \cup Write({AbsPath(<< D, F >>)}, {<< a >>, LongText})
    \cup Write({Path(<< test_dir, DotDot, D, F >>)}, {<< b >>})
    \cup Write({Path(<< BIG >>), Path(<< test_txt >>)}, {<< a, g >>})
    \cup Write({Path(<< test_dir >>), Path(<< F >>)}, {<< >>})

-----------------------------------------------------------------------------
(* An image with an empty file that has no cluster, as other systems make  *)
(* them.                                                                   *)

EMPTY == << 69 >>
EmptyShort == format_to_8_3(EMPTY)

EmptyData == [MCData EXCEPT ![MCRoot] = [@ EXCEPT ![6] = ShortEntry(EmptyShort, "file", 0, 0)]]

EmptyCalls ==
    Do({"ls", "cat", "cd"}, {Path(<< EMPTY >>), Path(<< test_dir, Dot, test_dir_file >>),
                             Path(<< Dot >>), Path(<< test_dir, DotDot, BIG >>)})
    \cup Do({"ls"}, {Path(<< test_dir >>)})
    \cup Create({"touch", "mkdir"}, {Path(<< EMPTY >>), Path(<< test_dir >>)}, {F})
    \cup Write({Path(<< EMPTY >>), Path(<< BIG >>)}, {<< a >>})

-----------------------------------------------------------------------------
(* Calls that show where the code and its documentation differ. *)

\* Writing through a long name, next to a file with the same short name, and
\* through a path with a ".".
AliasCalls ==
    Create({"touch"}, {Path(<< >>), Path(<< test_dir >>)}, {TEST_TXT})
    \cup Do({"cat"}, {Path(<< test_txt >>)})
    \cup Write({Path(<< TEST_TXT >>), Path(<< test_dir, Dot, TEST_TXT >>),
                Path(<< test_dir, test_dir_file >>)}, {<< a, b, g >>})

FileParentCalls ==
    Create({"touch"}, {Path(<< test_txt >>)}, {F}) \cup Do({"ls"}, {Path(<< test_txt >>)})
=============================================================================
