------------------------- MODULE CommentParserUse --------------------------
(***************************************************************************)
(* A person writes a line of a comment, word by word; every line on the way *)
(* is one that could be posted.                                             *)
(***************************************************************************)
EXTENDS CommentParser

CONSTANT MaxWords       \* bound: words in a line

VARIABLE line

Init == line = <<>>

Write(word) == Len(line) < MaxWords /\ line' = Append(line, word)

Next == \E word \in Words : Write(word)

Spec == Init /\ [][Next]_line

-----------------------------------------------------------------------------

\* The mentions of a line that begin a command for a reader of the README:
\* the first word, and every "@grahamcofborg".
Begins == {i \in DOMAIN line : \/ i = 1 /\ line[i] \in Mentions
                              \/ line[i] = "@grahamcofborg"}

\* The words from the mention at i to the next, without the mention.
Command(i) == SubSeq(line, i + 1, Min({k - 1 : k \in {k \in Begins : k > i}} \cup {Len(line)}))

Understood(command) ==
    /\ command # <<>>
    /\ \/ Head(command) \in {"build", "test"} /\ Len(command) > 1
       \/ command = <<"eval">>

Meaning(command) ==
    CASE Head(command) = "build" -> Build(Tail(command))
      [] Head(command) = "test" -> Test(Tail(command))
      [] Head(command) = "eval" -> Eval

\* What the commands of the line that are understood mean, in their order.
Meant ==
    LET understood == {i \in Begins : Understood(Command(i))}
        order == SetToSortSeq(understood, <)
    IN  [n \in DOMAIN order |-> Meaning(Command(order[n]))]

AllUnderstood == 1 \in Begins /\ \A i \in Begins : Understood(Command(i))

\* A line that begins with a mention and in which every command is understood
\* is read as these commands, in order and nothing else: the README's forms
\* (README.md:30-97) and the tests of commentparser.rs (72-231), for every
\* line.
CommandsReadInOrder ==
    AllUnderstood => ParseLine(line) = Some(Meant)

\* The alternatives of the grammar (commentparser.rs:24-48) never read half a
\* line: a line either yields nothing or yields, in order, each command that
\* is understood.  Lines with the second mention inside are left out: it may be
\* a mention or the name of a package.
AllOrNothing ==
    (\A i \in DOMAIN line : line[i] = "@ofborg" => i = 1) =>
        ParseLine(line).instructions \in {<<>>, Meant}

\* "Currently keeping previous behaviour of ignoring unknown commands"
\* (commentparser.rs:39): a command that is not understood does not keep the
\* others of its line from being read.
UnknownCommandsIgnored ==
    /\ 1 \in Begins
    /\ \A i \in Begins : Command(i) # <<>>
    /\ \A i \in DOMAIN line : line[i] = "@ofborg" => i = 1
    => ParseLine(line).instructions = Meant
=============================================================================
