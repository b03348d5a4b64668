----------------------------- MODULE ShortName -----------------------------
(***************************************************************************)
(* The conversions between the names a user types and the names the disk   *)
(* stores: format_to_8_3, short_name_to_string, lfn_checksum and the       *)
(* UTF-16 decoding of long file names (src/src/file_system.rs).            *)
(*                                                                         *)
(* A Rust string is the sequence of its UTF-8 bytes.  A short name is the  *)
(* array of NameWidth + ExtWidth bytes of a directory entry.               *)
(***************************************************************************)
EXTENDS Integers, Sequences

Byte == 0 .. 255

NameWidth == 8
ExtWidth == 3
ShortNameWidth == NameWidth + ExtWidth

ShortNames == [1 .. ShortNameWidth -> Byte]

Space == 32
DotByte == 46

Names == Seq(Byte)
Dot == << DotByte >>
DotDot == << DotByte, DotByte >>
DotName == [k \in 1 .. ShortNameWidth |-> IF k = 1 THEN DotByte ELSE Space]
DotDotName == [k \in 1 .. ShortNameWidth |-> IF k <= 2 THEN DotByte ELSE Space]

-----------------------------------------------------------------------------
(* Strings of the core library, as far as the file system uses them. *)

\* char::to_uppercase on ASCII letters and on characters that have no case.
\* Names with cased letters outside ASCII are outside this model.
Upper(b) == IF b \in 97 .. 122 THEN b - 32 ELSE b

IsContinuation(b) == b \in 128 .. 191

\* The number of bytes of the character that the byte b starts.
CharLen(b) ==
    CASE b \in 0 .. 127   -> 1
      [] b \in 194 .. 223 -> 2
      [] b \in 224 .. 239 -> 3
      [] b \in 240 .. 244 -> 4
      [] OTHER            -> 0

\* The second byte of a character is narrower after these four first bytes
\* (overlong forms, surrogates and code points above 0x10FFFF).
SecondByte(b) ==
    CASE b = 224 -> 160 .. 191
      [] b = 237 -> 128 .. 159
      [] b = 240 -> 144 .. 191
      [] b = 244 -> 128 .. 143
      [] OTHER   -> 128 .. 191

\* core::str::from_utf8 accepts s.
IsUtf8(s) ==
    \A k \in 1 .. Len(s) :
        IF IsContinuation(s[k])
        THEN \E j \in 1 .. 3 : /\ k - j >= 1
                               /\ CharLen(s[k - j]) > j
        ELSE /\ CharLen(s[k]) > 0
             /\ k + CharLen(s[k]) - 1 <= Len(s)
             /\ \A j \in 1 .. CharLen(s[k]) - 1 : IsContinuation(s[k + j])
             /\ CharLen(s[k]) > 1 => s[k + 1] \in SecondByte(s[k])

IsHighSurrogate(u) == u \in 55296 .. 56319
IsLowSurrogate(u) == u \in 56320 .. 57343

\* String::from_utf16 accepts s: every high surrogate is followed by a low
\* one and every low surrogate follows a high one.
IsUtf16(s) ==
    /\ \A k \in 1 .. Len(s) :
        IsHighSurrogate(s[k]) => k < Len(s) /\ IsLowSurrogate(s[k + 1])
    /\ \A k \in 1 .. Len(s) :
        IsLowSurrogate(s[k]) => k > 1 /\ IsHighSurrogate(s[k - 1])

\* The UTF-8 bytes of the code point c.
Utf8Char(c) ==
    CASE c < 128   -> << c >>
      [] c \in 128 .. 2047 -> << 192 + c \div 64, 128 + (c % 64) >>
      [] c \in 2048 .. 65535 ->
            << 224 + c \div 4096, 128 + ((c \div 64) % 64), 128 + (c % 64) >>
      [] OTHER -> << 240 + c \div 262144, 128 + ((c \div 4096) % 64),
                     128 + ((c \div 64) % 64), 128 + (c % 64) >>

\* The string String::from_utf16 builds from well-formed UTF-16 code units.
FromUtf16(s) ==
    LET CharAt(k) ==
            IF IsHighSurrogate(s[k])
            THEN Utf8Char(65536 + (s[k] - 55296) * 1024 + (s[k + 1] - 56320))
            ELSE IF IsLowSurrogate(s[k]) THEN << >> ELSE Utf8Char(s[k])
        upto[k \in 0 .. Len(s)] == IF k = 0 THEN << >> ELSE upto[k - 1] \o CharAt(k)
    IN  upto[Len(s)]

-----------------------------------------------------------------------------
(* format_to_8_3: split at the dots, upper-case, cut and pad. *)

\* The first dot of a name: none, or one place.
FirstDots(name) ==
    {p \in 1 .. Len(name) : name[p] = DotByte /\ \A j \in 1 .. p - 1 : name[j] # DotByte}

\* The k-th byte of the part of name that starts behind place p and ends
\* before the next dot, upper-cased and padded with spaces.
PaddedByte(name, p, k) ==
    IF p + k <= Len(name) /\ \A j \in p + 1 .. p + k : name[j] # DotByte
    THEN Upper(name[p + k])
    ELSE Space

\* parts[0] and parts[1] of name.split('.').
StemByte(name, k) == PaddedByte(name, 0, k)
ExtensionByte(name, k) ==
    IF FirstDots(name) = {} THEN Space
    ELSE PaddedByte(name, CHOOSE p \in FirstDots(name) : TRUE, k)

\* "Invalid name": the part before the first dot is empty.
IsInvalidName(name) == name = << >> \/ name[1] = DotByte

format_to_8_3(name) ==
    [k \in 1 .. ShortNameWidth |->
        IF k <= NameWidth THEN StemByte(name, k) ELSE ExtensionByte(name, k - NameWidth)]

-----------------------------------------------------------------------------
(* short_name_to_string: trim the padding and join with a dot. *)

\* The length of s without its trailing spaces.
TrimmedLen(s) ==
    CHOOSE n \in 0 .. Len(s) :
        /\ \A k \in n + 1 .. Len(s) : s[k] = Space
        /\ n > 0 => s[n] # Space

\* A part of a short name, "" when its bytes are not UTF-8.
PartToString(s) ==
    LET trimmed == SubSeq(s, 1, TrimmedLen(s))
    IN  IF IsUtf8(trimmed) THEN trimmed ELSE << >>

short_name_to_string(name11) ==
    LET name_str == PartToString(SubSeq(name11, 1, NameWidth))
        ext_str == PartToString(SubSeq(name11, NameWidth + 1, ShortNameWidth))
    IN  IF ext_str = << >> THEN name_str
                           ELSE name_str \o << DotByte >> \o ext_str

-----------------------------------------------------------------------------
(* lfn_checksum: rotate right and add, in 8 bits. *)

RotateRight == [s \in Byte |-> s \div 2 + 128 * (s % 2)]

lfn_checksum(short_name) ==
    LET sum[k \in 0 .. ShortNameWidth] ==
            IF k = 0 THEN 0 ELSE (RotateRight[sum[k - 1]] + short_name[k]) % 256
    IN  sum[ShortNameWidth]
=============================================================================
