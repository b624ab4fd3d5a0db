--------------------------- MODULE CommentParser ---------------------------
(***************************************************************************)
(* ofborg/src/commentparser.rs: the instructions in a comment.              *)
(*                                                                          *)
(* A line is a sequence of words: the two mentions (tags without case), the *)
(* three commands and any other word.  The parser is a list of alternatives *)
(* that are tried in order and never revisited, as nom tries them; Rest     *)
(* says what it makes of a line from the word at i to the end.  Words that  *)
(* are glued to a command ("evaluate") or not in ASCII are left out.        *)
(***************************************************************************)
EXTENDS Integers, Sequences, SequencesExt, FiniteSets

CONSTANT Names      \* the other words: names of packages, of tests, prose

Mentions == {"@grahamcofborg", "@ofborg"}
Commands == {"build", "test", "eval"}
Words == Mentions \cup Commands \cup Names

\* Names are attribute paths; those of tests are in "tests".
Build(names) == [kind |-> "Nixpkgs", attrs |-> [n \in DOMAIN names |-> <<names[n]>>]]
Test(names) == [kind |-> "NixOS", attrs |-> [n \in DOMAIN names |-> <<"tests", names[n]>>]]
Eval == [kind |-> "Eval", attrs |-> <<>>]

\* What a line, or the rest of one, is read as; None when the grammar does
\* not match it.
Some(instructions) == [some |-> TRUE, instructions |-> instructions]
None == [some |-> FALSE, instructions |-> <<>>]

Prepend(instruction, parsed) ==
    IF parsed.some THEN Some(<<instruction>> \o parsed.instructions) ELSE None

\* A word that can name a package: any but the first mention.  The second
\* mention, and the commands, are names of packages.
NormalToken(word) == word # "@grahamcofborg"

\* The first position from i on whose word is the first mention, Len + 1 if
\* there is none: where a list of names ends, and where many_till stops.
NextMention(line, i) ==
    CHOOSE k \in i..(Len(line) + 1) :
        /\ k = Len(line) + 1 \/ ~NormalToken(line[k])
        /\ \A l \in i..(k - 1) : NormalToken(line[l])

\* many1 of a mention and a command, then eof.  The last alternative reads an
\* unknown command up to the next first mention, and the mention with it, so
\* that what follows has to begin with a mention of its own.
ParseLine(line) ==
    LET n == Len(line)
        Rest[i \in 1..(n + 1)] ==
          IF i = n + 1 THEN IF n = 0 THEN None ELSE Some(<<>>)
          ELSE IF i = n \/ line[i] \notin Mentions THEN None
          ELSE LET end == NextMention(line, i + 2)
                   unknown == NextMention(line, i + 1)
               IN CASE line[i + 1] = "build" /\ end > i + 2 ->
                         Prepend(Build(SubSeq(line, i + 2, end - 1)), Rest[end])
                    [] line[i + 1] = "test" /\ end > i + 2 ->
                         Prepend(Test(SubSeq(line, i + 2, end - 1)), Rest[end])
                    [] line[i + 1] = "eval" -> Prepend(Eval, Rest[i + 2])
                    [] OTHER -> IF unknown <= n THEN Rest[unknown + 1] ELSE None
    IN  Rest[1]

\* The instructions of a comment, those of its lines one after the other.
Parse(lines) == FlattenSeq([l \in DOMAIN lines |-> ParseLine(lines[l]).instructions])
=============================================================================
