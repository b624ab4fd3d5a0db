----------------------------- MODULE LineWriter -----------------------------
(***************************************************************************)
(* ofborg/src/writetoline.rs: write a line of a file by its number.  A      *)
(* writer remembers every line of its file and the line it wrote last; it   *)
(* appends when it moves forward and rewrites the file when it moves back.  *)
(*                                                                          *)
(* A file is the sequence of its rows, each ended by a newline.  Lines are  *)
(* numbered from 0 as in the code, rows from 1.                             *)
(***************************************************************************)
EXTENDS Integers, Sequences

CONSTANTS
    Text,   \* what a line can be
    Blank   \* the empty string

ASSUME BlankAssumption == Blank \in Text

\* LineWriter::new: the buffer is loaded from the file.
NewWriter(file) == [buffer |-> file, last_line |-> Len(file)]

\* The buffer padded with empty strings up to line, which then holds data.
Replaced(buffer, line, data) ==
    [i \in 1..(IF line + 1 > Len(buffer) THEN line + 1 ELSE Len(buffer)) |->
        IF i = line + 1 THEN data ELSE IF i <= Len(buffer) THEN buffer[i] ELSE Blank]

\* "We're inserting in to the middle of a file" (writetoline.rs:49).
Rewrites(w, line) == w.last_line > line

\* The slice buffer[original_len..line + 1] starts after its end.
Panics(w, line) == ~Rewrites(w, line) /\ Len(w.buffer) > line + 1

\* join("\n") of no rows is the empty string: with the newline, a blank row.
Joined(rows) == IF rows = <<>> THEN <<Blank>> ELSE rows

\* Mutant: an exclusive end of the slice taken for an inclusive one.
FileAfter_ShortSlice(file, w, line, data) ==
    LET buffer == Replaced(w.buffer, line, data)
    IN  IF Rewrites(w, line)
        THEN buffer
        ELSE file \o Joined(SubSeq(buffer, Len(w.buffer) + 1, line))

\* Mutant: only the line itself is appended, not the padding before it.
FileAfter_NoPadding(file, w, line, data) ==
    IF Rewrites(w, line)
    THEN Replaced(w.buffer, line, data)
    ELSE Append(file, data)

\* write_to_line: what the file holds afterwards, when it does not panic.
FileAfter(file, w, line, data) ==
    LET buffer == Replaced(w.buffer, line, data)
    IN  IF Rewrites(w, line)
        THEN buffer
        ELSE file \o Joined(SubSeq(buffer, Len(w.buffer) + 1, line + 1))

\* write_to_line: what the writer remembers afterwards.
WriterAfter(w, line, data) ==
    [buffer |-> Replaced(w.buffer, line, data), last_line |-> line]
=============================================================================
