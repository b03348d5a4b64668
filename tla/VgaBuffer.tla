----------------------------- MODULE VgaBuffer ------------------------------
(***************************************************************************)
(* Writer, the text screen of src/src/vga_buffer.rs, behind its lock: one  *)
(* call of print! is one step.  Text goes into the last row; when the row  *)
(* is full and more text comes, or at a newline, all rows move up.         *)
(* Colours are left out: the code has one.                                 *)
(***************************************************************************)
EXTENDS Integers, FiniteSetsExt, SequencesExt

CONSTANTS
    BUFFER_HEIGHT, BUFFER_WIDTH,
    Printable,    \* bytes 0x20..=0x7e other than the space
    Other,        \* bytes of no printable character
    MaxText,      \* bound: bytes printed since boot
    MaxCall       \* bound: bytes of one call

VARIABLES
    chars,             \* chars[row][col], both from 1
    column_position,   \* characters in the last row, from 0 to BUFFER_WIDTH
    text               \* auxiliary: the bytes printed since boot

vars == << chars, column_position, text >>

NewLine == "newline"
Blank == "blank"      \* b' '
Square == "square"    \* 0xfe
Boot == "boot"        \* what the bootloader has left on the screen

Bytes == Printable \cup Other \cup {NewLine, Blank}

Rows == 1 .. BUFFER_HEIGHT
Cols == 1 .. BUFFER_WIDTH

\* The writer as a value, for the loop over the bytes of a string.
Writer == [chars |-> chars, column |-> column_position]

\* clear_row for the last row, after the rows have moved up.
clear_row(rows, row) == [rows EXCEPT ![row] = [c \in Cols |-> Blank]]

new_line(w) ==
    [chars |-> clear_row([r \in Rows |-> w.chars[IF r < BUFFER_HEIGHT THEN r + 1 ELSE r]],
                         BUFFER_HEIGHT),
     column |-> 0]

\* Mutant of RowFull: the last column is not used up before the row wraps.
RowFull_Early(w) == w.column >= BUFFER_WIDTH - 1

RowFull(w) == w.column >= BUFFER_WIDTH

write_byte(w, byte) ==
    IF byte = NewLine THEN new_line(w)
    ELSE LET v == IF RowFull(w) THEN new_line(w) ELSE w
         IN  [chars |-> [v.chars EXCEPT ![BUFFER_HEIGHT][v.column + 1] = byte],
              column |-> v.column + 1]

\* What write_string writes for a byte.
Shown(byte) == IF byte \in Other THEN Square ELSE byte

write_string(w, s) == FoldLeft(LAMBDA v, byte : write_byte(v, Shown(byte)), w, s)

Init ==
    /\ chars = [r \in Rows |-> [c \in Cols |-> Boot]]
    /\ column_position = 0
    /\ text = << >>

\* _print: write_fmt passes the pieces of the format to write_string.
PrintText(s) ==
    /\ Len(text) + Len(s) <= MaxText
    /\ LET w == write_string(Writer, s)
       IN  chars' = w.chars /\ column_position' = w.column
    /\ text' = text \o s

Next == \E s \in BoundedSeq(Bytes, MaxCall) : PrintText(s)

Spec == Init /\ [][Next]_vars

-----------------------------------------------------------------------------
(* What the screen should show, from the whole text at once.               *)

\* The lines of a text: what is between its newlines.
Lines(t) ==
    LET ends == SelectSeq([i \in 1 .. Len(t) + 1 |-> i],
                          LAMBDA i : i = Len(t) + 1 \/ t[i] = NewLine)
    IN  [k \in DOMAIN ends |-> SubSeq(t, IF k = 1 THEN 1 ELSE ends[k - 1] + 1, ends[k] - 1)]

\* A line cut into rows; an empty line is one row.
RowsOf(line) ==
    [k \in 1 .. Max({1, (Len(line) + BUFFER_WIDTH - 1) \div BUFFER_WIDTH}) |->
        SubSeq(line, (k - 1) * BUFFER_WIDTH + 1, Min({k * BUFFER_WIDTH, Len(line)}))]

\* The screen shows the end of the text, newest row last, one row for every
\* part of a line that fits: print! loses no byte that has not scrolled off,
\* writes no byte twice and leaves no rest of an older row behind a newer one.
\* Before that, what the bootloader wrote is still there.
ShowsText ==
    LET lines == Lines(text)
        rows == FlattenSeq([k \in DOMAIN lines |-> RowsOf(lines[k])])
        RowAt(r) == Len(rows) - (BUFFER_HEIGHT - r)
    IN  /\ column_position = Len(Last(rows))
        /\ \A r \in Rows, c \in Cols :
               chars[r][c] = IF RowAt(r) >= 1 /\ c <= Len(rows[RowAt(r)])
                             THEN Shown(rows[RowAt(r)][c])
                             ELSE IF RowAt(r) > 1 THEN Blank ELSE Boot
=============================================================================
