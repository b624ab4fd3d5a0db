--------------------------- MODULE LineWriterUse ---------------------------
(***************************************************************************)
(* One file written through LineWriters, as the tests of writetoline.rs     *)
(* write it: every line once, in any order, through one writer or through a *)
(* fresh one for each line.                                                 *)
(***************************************************************************)
EXTENDS LineWriter

CONSTANTS
    MaxLine,    \* bound: the highest line number, from 0
    Reopen      \* TRUE: a fresh writer for every line

VARIABLES
    file,       \* the rows of the file
    writer,     \* the open LineWriter
    panicked,   \* write_to_line has panicked, and the process with it
    lines,      \* the numbers of the lines written so far
    expected    \* the rows the file should have

vars == <<file, writer, panicked, lines, expected>>

Ideal == INSTANCE LogFile WITH Attempts <- {}, Lines <- {}, logs <- <<>>

Init ==
    /\ file = <<>>
    /\ writer = NewWriter(<<>>)
    /\ panicked = FALSE
    /\ lines = {}
    /\ expected = <<>>

InUse == IF Reopen THEN NewWriter(file) ELSE writer

WriteToLine(line, data) ==
    /\ ~panicked
    /\ line \notin lines
    /\ ~Panics(InUse, line)
    /\ file' = FileAfter(file, InUse, line, data)
    /\ writer' = WriterAfter(InUse, line, data)
    /\ lines' = lines \cup {line}
    /\ expected' = Ideal!Put(expected, line + 1, data)
    /\ UNCHANGED panicked

WriteToLinePanics(line) ==
    /\ ~panicked
    /\ line \notin lines
    /\ Panics(InUse, line)
    /\ panicked' = TRUE
    /\ UNCHANGED <<file, writer, lines, expected>>

Next ==
    \E line \in 0..MaxLine :
        \/ \E data \in Text : WriteToLine(line, data)
        \/ WriteToLinePanics(line)

Spec == Init /\ [][Next]_vars

-----------------------------------------------------------------------------

\* Whatever the order of the lines, the file holds exactly the lines written
\* so far, each in its row, and blank rows for the others: appending and
\* rewriting (writetoline.rs:48-74) agree on what the file is.
LinesInPlace == file = expected

\* Lines can be written in any order: the tests test_writer_line_unordered*
\* (writetoline.rs:141-299) write them backwards, through fresh writers and
\* through one.
AnyOrderAccepted == ~panicked
=============================================================================
