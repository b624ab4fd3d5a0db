--------------------------- MODULE PipelineProofs ---------------------------
(***************************************************************************)
(* No check on GitHub says more than is so (ChecksAreTrue of Pipeline), one *)
(* that stays queued has a reason (StuckChecksExplained), and jobs go where *)
(* their authors may build, to all such systems (RightSystems): for all     *)
(* days, any comments, by anyone, any builders online, any number of        *)
(* crashes and of checks that GitHub refuses.                               *)
(*                                                                          *)
(* The argument has three parts.                                            *)
(*   Inv: what is on its way is true.  A queue holds only jobs that were    *)
(*     sent, announcements of such jobs and results there were; what a      *)
(*     worker has yet to do posts only what is true, and announces jobs     *)
(*     that were sent or that it publishes itself before.  A crash drops a  *)
(*     plan and puts a delivery back, and what is true stays true: jobs     *)
(*     that were sent and outcomes only add up.                             *)
(*   Followed: a job that was sent waits, or its builder holds it and has   *)
(*     yet to publish its result, or that result waits, or the poster holds *)
(*     it and has yet to post its check; or there is a reason for the check *)
(*     to stay as it is.  A crash takes it a step back, never off the way.  *)
(*   Complete: only the filter plans jobs, those of one comment for all     *)
(*     right systems at once; until something dies each is sent or still    *)
(*     planned.                                                             *)
(***************************************************************************)
EXTENDS Pipeline, WellFoundedInduction, SequenceTheorems, TLAPS

-----------------------------------------------------------------------------
(* Sequences of sequences, laid end to end.                                  *)

\* A set of numbers that is not empty has a least one.
LEMMA Least ==
  ASSUME NEW T, T \subseteq Nat, T # {}
  PROVE  \E x \in T : \A y \in T : x <= y
<1>1. PICK x \in T : \A y \in T : ~(<<y, x>> \in OpToRel(<, Nat))
  BY NatLessThanWellFounded, WFMin
<1>2. ASSUME NEW y \in T PROVE x <= y
  <2> SUFFICES ASSUME y < x PROVE FALSE
    OBVIOUS
  <2>1. <<y, x>> \in Nat \X Nat /\ <<y, x>>[1] < <<y, x>>[2]
    OBVIOUS
  <2> QED
    BY <1>1, <2>1 DEF OpToRel
<1> QED
  BY <1>2

\* The partial results of FlattenSeq exist: a first number up to which they
\* do not would have a predecessor up to which they do.
LEMMA FlattenExists ==
  ASSUME NEW S, NEW seqs \in Seq(Seq(S)), NEW n \in Nat, n = Len(seqs), n > 0
  PROVE  \E f : f = [i \in 1..n |-> IF i = 1 THEN seqs[i] ELSE f[i - 1] \o seqs[i]]
<1> DEFINE Upto(k) == \E f : f = [i \in 1..k |-> IF i = 1 THEN seqs[i] ELSE f[i - 1] \o seqs[i]]
           T == {k \in 1..n : ~Upto(k)}
<1> SUFFICES ASSUME ~Upto(n) PROVE FALSE
  OBVIOUS
<1>1. n \in T /\ T \subseteq Nat
  <2> HIDE DEF Upto
  <2> QED
    OBVIOUS
<1>2. PICK k \in T : \A j \in T : k <= j
  <2> HIDE DEF T
  <2> QED
    BY <1>1, Least
<1>3. k \in 1..n /\ ~Upto(k)
  OBVIOUS
<1>4. CASE k = 1
  <2> DEFINE f == [i \in 1..1 |-> seqs[i]]
  <2>1. f = [i \in 1..1 |-> IF i = 1 THEN seqs[i] ELSE f[i - 1] \o seqs[i]]
    OBVIOUS
  <2> QED
    BY <1>3, <1>4, <2>1
<1>5. CASE k # 1
  <2>1. k - 1 \in 1..n /\ k - 1 < k /\ k \in Nat
    BY <1>3, <1>5
  <2>2. Upto(k - 1)
    <3>1. ~(k <= k - 1)
      BY <2>1
    <3>2. k - 1 \notin T
      <4> HIDE DEF T
      <4> QED
        BY <1>2, <3>1
    <3> HIDE DEF Upto
    <3> QED
      BY <2>1, <3>2
  <2>3. PICK f : f = [i \in 1..(k - 1) |-> IF i = 1 THEN seqs[i] ELSE f[i - 1] \o seqs[i]]
    BY <2>2
  <2> DEFINE g == [i \in 1..k |-> IF i < k THEN f[i] ELSE f[k - 1] \o seqs[k]]
             h == [i \in 1..k |-> IF i = 1 THEN seqs[i] ELSE g[i - 1] \o seqs[i]]
  <2>4. ASSUME NEW i \in 1..k PROVE g[i] = h[i]
    <3>1. CASE i = k
      <4>0. k \in 1..k /\ ~(k < k)
        BY <2>1
      <4>1. g[k] = f[k - 1] \o seqs[k]
        BY <4>0
      <4>2. h[k] = g[k - 1] \o seqs[k]
        <5> HIDE DEF g
        <5> QED
          BY <1>5, <4>0
      <4>3. g[k - 1] = f[k - 1]
        BY <2>1
      <4> QED
        BY <3>1, <4>1, <4>2, <4>3
    <3>2. CASE i # k
      <4>1. i \in 1..(k - 1) /\ i < k
        BY <2>1, <3>2
      <4>2. g[i] = f[i]
        BY <4>1
      <4>3. f[i] = IF i = 1 THEN seqs[i] ELSE f[i - 1] \o seqs[i]
        BY <2>3, <4>1
      <4>4. h[i] = IF i = 1 THEN seqs[i] ELSE g[i - 1] \o seqs[i]
        OBVIOUS
      <4>5. i # 1 => g[i - 1] = f[i - 1]
        BY <2>1, <4>1
      <4> QED
        BY <4>2, <4>3, <4>4, <4>5
    <3> QED
      BY <3>1, <3>2
  <2>5. g = h
    BY <2>4
  <2> QED
    BY <1>3, <2>5
<1> QED
  BY <1>4, <1>5

\* A set of sequences that is closed under concatenation has the whole, when it
\* has the parts.
LEMMA FlattenIn ==
  ASSUME NEW S, NEW C \in SUBSET Seq(S), NEW seqs \in Seq(C), Len(seqs) > 0,
         \A s, t \in C : s \o t \in C
  PROVE  FlattenSeq(seqs) \in C
<1> DEFINE n == Len(seqs)
           flatten[i \in 1..n] == IF i = 1 THEN seqs[i] ELSE flatten[i - 1] \o seqs[i]
<1>1. n \in Nat /\ n > 0 /\ seqs \in Seq(Seq(S)) /\ \A i \in 1..n : seqs[i] \in C
  OBVIOUS
<1>2. FlattenSeq(seqs) = flatten[n]
  BY <1>1 DEF FlattenSeq
<1>3. flatten = [i \in 1..n |-> IF i = 1 THEN seqs[i] ELSE flatten[i - 1] \o seqs[i]]
  <2> HIDE DEF n
  <2>1. \E f : f = [i \in 1..n |-> IF i = 1 THEN seqs[i] ELSE f[i - 1] \o seqs[i]]
    BY <1>1, FlattenExists DEF n
  <2> QED
    BY <2>1 DEF flatten
<1> HIDE DEF n, flatten
<1> DEFINE T == {k \in 1..n : flatten[k] \notin C}
<1> SUFFICES ASSUME n \in T PROVE FALSE
  BY <1>1, <1>2
<1>4. T \subseteq Nat /\ T # {}
  OBVIOUS
<1>5. PICK k \in T : \A j \in T : k <= j
  <2> HIDE DEF T
  <2> QED
    BY <1>4, Least
<1>6. k \in 1..n /\ flatten[k] \notin C
  OBVIOUS
<1>7. k # 1
  BY <1>1, <1>3, <1>6
<1>8. k - 1 \in 1..n /\ ~(k <= k - 1)
  BY <1>6, <1>7
<1>9. flatten[k - 1] \in C
  BY <1>5, <1>8
<1>10. flatten[k] = flatten[k - 1] \o seqs[k]
  BY <1>3, <1>6, <1>7
<1> QED
  BY <1>1, <1>6, <1>9, <1>10

-----------------------------------------------------------------------------
(* What a comment is read as: a sequence of instructions.                    *)

Attributes == Seq(Seq(Words \cup {"tests"}))
Instructions == [kind : {"Nixpkgs", "NixOS", "Eval"}, attrs : Attributes]
Parsed == [some : BOOLEAN, instructions : Seq(Instructions)]

\* The next mention is at or behind the place where the search begins.
LEMMA NextMentionRange ==
  ASSUME NEW line \in Seq(Words), NEW i \in 1..(Len(line) + 1)
  PROVE  NextMention(line, i) \in i..(Len(line) + 1)
<1> DEFINE e == Len(line) + 1
           Ends(k) == k = e \/ ~NormalToken(line[k])
           T == {k \in i..e : Ends(k)}
<1>1. e \in Nat /\ i \in Nat /\ i <= e
  OBVIOUS
<1> HIDE DEF e
<1>2. T \subseteq Nat /\ e \in T
  BY <1>1
<1>3. PICK x \in T : \A y \in T : x <= y
  <2> HIDE DEF T
  <2> QED
    BY <1>2, Least
<1>4. x \in i..e /\ Ends(x)
  OBVIOUS
<1>5. ASSUME NEW l \in i..(x - 1) PROVE NormalToken(line[l])
  <2> SUFFICES ASSUME ~NormalToken(line[l]) PROVE FALSE
    OBVIOUS
  <2>1. l \in i..e /\ l < x
    BY <1>1, <1>4
  <2>2. x <= l
    BY <1>3, <2>1
  <2> QED
    BY <1>1, <1>4, <2>1, <2>2
<1>6. \E k \in i..e : Ends(k) /\ \A l \in i..(k - 1) : NormalToken(line[l])
  BY <1>4, <1>5
<1>7. NextMention(line, i) = CHOOSE k \in i..e : Ends(k) /\ \A l \in i..(k - 1) : NormalToken(line[l])
  BY DEF NextMention, e
<1> QED
  BY <1>6, <1>7 DEF e

\* One step of the function Rest of ParseLine, the function given.
RestAt(line, i, rest) ==
    LET n == Len(line)
    IN    IF i = n + 1 THEN IF n = 0 THEN None ELSE Some(<<>>)
          ELSE IF i = n \/ line[i] \notin Mentions THEN None
          ELSE LET end == NextMention(line, i + 2)
                   unknown == NextMention(line, i + 1)
               IN CASE line[i + 1] = "build" /\ end > i + 2 ->
                         Prepend(Build(SubSeq(line, i + 2, end - 1)), rest[end])
                    [] line[i + 1] = "test" /\ end > i + 2 ->
                         Prepend(Test(SubSeq(line, i + 2, end - 1)), rest[end])
                    [] line[i + 1] = "eval" -> Prepend(Eval, rest[i + 2])
                    [] OTHER -> IF unknown <= n THEN rest[unknown + 1] ELSE None

\* It looks at later positions only.
LEMMA RestAgrees ==
  ASSUME NEW line \in Seq(Words), NEW i \in 1..(Len(line) + 1), NEW f, NEW g,
         \A j \in (i + 1)..(Len(line) + 1) : f[j] = g[j]
  PROVE  RestAt(line, i, f) = RestAt(line, i, g)
<1> DEFINE n == Len(line)
           end == NextMention(line, i + 2)
           unknown == NextMention(line, i + 1)
<1>1. CASE i = n + 1 \/ i = n
  BY <1>1 DEF RestAt
<1>2. CASE i # n + 1 /\ i # n
  <2>1. n \in Nat /\ i \in Nat /\ i + 2 \in 1..(n + 1) /\ i + 1 \in 1..(n + 1)
    BY <1>2
  <2>2. end \in (i + 2)..(n + 1) /\ unknown \in (i + 1)..(n + 1)
    BY <2>1, NextMentionRange
  <2> HIDE DEF end, unknown
  <2>3. f[end] = g[end]
    BY <2>1, <2>2
  <2>4. f[i + 2] = g[i + 2]
    BY <2>1
  <2>5. unknown <= n => f[unknown + 1] = g[unknown + 1]
    BY <2>1, <2>2
  <2> HIDE DEF n
  <2> DEFINE l1 == line[i + 1]
             B == Build(SubSeq(line, i + 2, end - 1))
             T == Test(SubSeq(line, i + 2, end - 1))
             Go(h) == CASE l1 = "build" /\ end > i + 2 -> Prepend(B, h[end])
                        [] l1 = "test" /\ end > i + 2 -> Prepend(T, h[end])
                        [] l1 = "eval" -> Prepend(Eval, h[i + 2])
                        [] OTHER -> IF unknown <= n THEN h[unknown + 1] ELSE None
  <2>6. RestAt(line, i, f) = IF line[i] \notin Mentions THEN None ELSE Go(f)
    BY <1>2 DEF RestAt, n, end, unknown
  <2>7. RestAt(line, i, g) = IF line[i] \notin Mentions THEN None ELSE Go(g)
    BY <1>2 DEF RestAt, n, end, unknown
  <2>8. Go(f) = Go(g)
    <3> HIDE DEF l1, B, T
    <3> QED
      BY <2>3, <2>4, <2>5
  <2> HIDE DEF Go
  <2> QED
    BY <2>6, <2>7, <2>8
<1> QED
  BY <1>1, <1>2

\* The function Rest of ParseLine exists: a last position behind which it does
\* not would have all its later ones behind which it does.
LEMMA RestExists ==
  ASSUME NEW line \in Seq(Words)
  PROVE  \E f : f = [i \in 1..(Len(line) + 1) |-> RestAt(line, i, f)]
<1> DEFINE e == Len(line) + 1
           From(m) == \E f : f = [i \in m..e |-> RestAt(line, i, f)]
           T == {k \in 0..(e - 1) : ~From(e - k)}
<1>1. e \in Nat /\ e > 0
  OBVIOUS
<1> SUFFICES ASSUME ~From(1) PROVE FALSE
  OBVIOUS
<1>2. T \subseteq Nat /\ T # {}
  <2>1. e - (e - 1) = 1 /\ e - 1 \in 0..(e - 1)
    BY <1>1
  <2> HIDE DEF e, From
  <2>2. e - 1 \in T
    BY <2>1
  <2>3. T \subseteq Nat
    OBVIOUS
  <2> QED
    BY <2>2, <2>3
<1>3. PICK k \in T : \A j \in T : k <= j
  <2> HIDE DEF T
  <2> QED
    BY <1>2, Least
<1> DEFINE m == e - k
<1>4. m \in 1..e /\ ~From(m) /\ k \in 0..(e - 1)
  <2> HIDE DEF e, From
  <2> QED
    BY <1>1, <1>3
<1>5. CASE k = 0
  <2> DEFINE f == [i \in m..e |-> RestAt(line, e, 0)]
             h == [i \in m..e |-> RestAt(line, i, f)]
  <2>1. m = e
    BY <1>1, <1>5
  <2>2. ASSUME NEW i \in m..e PROVE f[i] = h[i]
    <3>1. i = e
      BY <1>1, <2>1, <2>2
    <3>2. RestAt(line, e, 0) = RestAt(line, e, f)
      <4> HIDE DEF f
      <4> QED
        BY DEF RestAt
    <3> QED
      BY <3>1, <3>2
  <2>3. f = h
    BY <2>2
  <2> QED
    BY <1>4, <2>3
<1>6. CASE k # 0
  <2>1. k - 1 \in 0..(e - 1) /\ ~(k <= k - 1) /\ e - (k - 1) = m + 1
    BY <1>1, <1>4, <1>6
  <2>2. From(m + 1)
    <3> HIDE DEF From
    <3> QED
      BY <1>3, <2>1
  <2>3. PICK f : f = [i \in (m + 1)..e |-> RestAt(line, i, f)]
    BY <2>2
  <2> DEFINE g == [i \in m..e |-> IF i = m THEN RestAt(line, m, f) ELSE f[i]]
             h == [i \in m..e |-> RestAt(line, i, g)]
  <2>4. m \in Nat /\ m \in m..e /\ \A i \in m..e : i \in 1..e /\ (i # m => i \in (m + 1)..e)
    <3> HIDE DEF m, e
    <3> QED
      BY <1>1, <1>4
  <2>5. \A j \in (m + 1)..e : f[j] = g[j]
    <3> HIDE DEF m, e
    <3> QED
      BY <2>4
  <2>6. ASSUME NEW i \in m..e PROVE g[i] = h[i]
    <3>1. \A j \in (i + 1)..e : f[j] = g[j]
      <4>1. i \in Nat /\ m <= i
        BY <2>4
      <4> HIDE DEF g, m, e
      <4> QED
        BY <1>1, <2>4, <2>5, <4>1
    <3>2. RestAt(line, i, f) = RestAt(line, i, g)
      <4> HIDE DEF g, m
      <4> QED
        BY <2>4, <3>1, RestAgrees
    <3>3. CASE i = m
      BY <3>2, <3>3
    <3>4. CASE i # m
      <4>1. g[i] = f[i]
        BY <3>4
      <4>2. f[i] = RestAt(line, i, f)
        BY <2>3, <2>4, <3>4
      <4> QED
        BY <3>2, <4>1, <4>2
    <3> QED
      BY <3>3, <3>4
  <2>7. g = h
    BY <2>6
  <2> QED
    BY <1>4, <2>7
<1> QED
  BY <1>5, <1>6

\* What the sub-commands are read as.
LEMMA BuildTypes ==
  ASSUME NEW names \in Seq(Words)
  PROVE  Build(names) \in Instructions /\ Test(names) \in Instructions
<1> DEFINE S == Seq(Words \cup {"tests"})
<1>0. \A n \in 1..Len(names) : <<names[n]>> \in S /\ <<"tests", names[n]>> \in S
  <2> SUFFICES ASSUME NEW n \in 1..Len(names)
               PROVE  <<names[n]>> \in S /\ <<"tests", names[n]>> \in S
    OBVIOUS
  <2>1. names[n] \in Words \cup {"tests"} /\ "tests" \in Words \cup {"tests"}
    OBVIOUS
  <2> QED
    BY <2>1
<1> HIDE DEF S
<1>3. DOMAIN names = 1..Len(names) /\ Len(names) \in Nat
  OBVIOUS
<1>1. [n \in DOMAIN names |-> <<names[n]>>] \in Attributes
  BY <1>0, <1>3 DEF Attributes, S
<1>2. [n \in DOMAIN names |-> <<"tests", names[n]>>] \in Attributes
  BY <1>0, <1>3 DEF Attributes, S
<1> QED
  BY <1>1, <1>2 DEF Build, Test, Instructions

\* An instruction in front of others.
LEMMA PrependType ==
  ASSUME NEW x \in Instructions, NEW p \in Parsed
  PROVE  Prepend(x, p) \in Parsed
BY DEF Prepend, Some, None, Parsed

\* At every position, what follows is read as instructions: a last one where it is
\* not would look at later ones only.
LEMMA RestType ==
  ASSUME NEW line \in Seq(Words), NEW i \in 1..(Len(line) + 1), NEW f,
         \A j \in (i + 1)..(Len(line) + 1) : f[j] \in Parsed
  PROVE  RestAt(line, i, f) \in Parsed
<1> DEFINE n == Len(line)
           end == NextMention(line, i + 2)
           unknown == NextMention(line, i + 1)
<1>0. None \in Parsed /\ Some(<<>>) \in Parsed /\ Eval \in Instructions
  BY DEF None, Some, Parsed, Eval, Instructions, Attributes
<1>1. CASE i = n + 1 \/ i = n
  BY <1>0, <1>1 DEF RestAt
<1>2. CASE i # n + 1 /\ i # n
  <2>1. n \in Nat /\ i \in Nat /\ i + 2 \in 1..(n + 1) /\ i + 1 \in 1..(n + 1)
    BY <1>2
  <2>2. end \in (i + 2)..(n + 1) /\ unknown \in (i + 1)..(n + 1)
    BY <2>1, NextMentionRange
  <2> HIDE DEF end, unknown
  <2>3. f[end] \in Parsed
    BY <2>1, <2>2
  <2>4. f[i + 2] \in Parsed
    BY <2>1
  <2>5. unknown <= n => f[unknown + 1] \in Parsed
    BY <2>1, <2>2
  <2>6. SubSeq(line, i + 2, end - 1) \in Seq(Words)
    BY <2>1, <2>2
  <2> DEFINE l1 == line[i + 1]
             B == Build(SubSeq(line, i + 2, end - 1))
             T == Test(SubSeq(line, i + 2, end - 1))
             Go == CASE l1 = "build" /\ end > i + 2 -> Prepend(B, f[end])
                        [] l1 = "test" /\ end > i + 2 -> Prepend(T, f[end])
                        [] l1 = "eval" -> Prepend(Eval, f[i + 2])
                        [] OTHER -> IF unknown <= n THEN f[unknown + 1] ELSE None
  <2>7. RestAt(line, i, f) = IF line[i] \notin Mentions THEN None ELSE Go
    BY <1>2 DEF RestAt, end, unknown
  <2>8. B \in Instructions /\ T \in Instructions
    BY <2>6, BuildTypes
  <2>9. Prepend(B, f[end]) \in Parsed /\ Prepend(T, f[end]) \in Parsed /\ Prepend(Eval, f[i + 2]) \in Parsed
    <3> HIDE DEF B, T
    <3> QED
      BY <1>0, <2>3, <2>4, <2>8, PrependType
  <2>10. Go \in Parsed
    <3> HIDE DEF l1, B, T, n
    <3> QED
      BY <1>0, <2>5, <2>9
  <2> HIDE DEF Go
  <2> QED
    BY <1>0, <2>7, <2>10
<1> QED
  BY <1>1, <1>2

\* A line is read as instructions, or as none.
LEMMA ParseLineType ==
  ASSUME NEW line \in Seq(Words)
  PROVE  ParseLine(line) \in Parsed
<1> DEFINE n == Len(line)
           Rest[i \in 1..(n + 1)] ==
          IF i = n + 1 THEN IF n = 0 THEN None ELSE Some(<<>>)
          ELSE IF i = n \/ line[i] \notin Mentions THEN None
          ELSE LET end == NextMention(line, i + 2)
                   unknown == NextMention(line, i + 1)
               IN CASE line[i + 1] = "build" /\ end > i + 2 ->
                         Prepend(Build(SubSeq(line, i + 2, end - 1)), Rest[end])
                    [] line[i + 1] = "test" /\ end > i + 2 ->
                         Prepend(Test(SubSeq(line, i + 2, end - 1)), Rest[end])
                    [] line[i + 1] = "eval" -> Prepend(Eval, Rest[i + 2])
                    [] OTHER -> IF unknown <= n THEN Rest[unknown + 1] ELSE None
           e == n + 1
<1>1. ParseLine(line) = Rest[1]
  BY DEF ParseLine
<1>2. Rest = CHOOSE f : f = [i \in 1..e |-> RestAt(line, i, f)]
  BY DEF RestAt
<1> HIDE DEF Rest
<1>3. Rest = [i \in 1..e |-> RestAt(line, i, Rest)]
  BY <1>2, RestExists
<1>4. e \in Nat /\ e > 0 /\ e = Len(line) + 1
  OBVIOUS
<1> HIDE DEF n, e
<1> DEFINE T == {k \in 0..(e - 1) : Rest[e - k] \notin Parsed}
<1> SUFFICES ASSUME Rest[1] \notin Parsed PROVE FALSE
  BY <1>1
<1>5. T \subseteq Nat /\ T # {}
  <2>1. e - (e - 1) = 1 /\ e - 1 \in 0..(e - 1)
    BY <1>4
  <2> QED
    BY <2>1
<1>6. PICK k \in T : \A j \in T : k <= j
  <2> HIDE DEF T
  <2> QED
    BY <1>5, Least
<1> DEFINE m == e - k
<1>7. m \in 1..e /\ k \in 0..(e - 1) /\ Rest[m] \notin Parsed
  BY <1>4, <1>6
<1>8. ASSUME NEW j \in (m + 1)..e PROVE Rest[j] \in Parsed
  <2>1. e - j \in 0..(e - 1) /\ ~(k <= e - j) /\ e - (e - j) = j
    BY <1>4, <1>7
  <2> HIDE DEF m
  <2> QED
    BY <1>6, <2>1
<1> HIDE DEF m
<1>9. RestAt(line, m, Rest) \in Parsed
  BY <1>4, <1>7, <1>8, RestType
<1> QED
  BY <1>3, <1>7, <1>9

\* So is the body of a comment.
LEMMA ParseType ==
  ASSUME NEW lines \in Seq(Seq(Words))
  PROVE  Parse(lines) \in Seq(Instructions)
<1> DEFINE seqs == [l \in DOMAIN lines |-> ParseLine(lines[l]).instructions]
           C == Seq(Instructions)
<1>1. \A l \in DOMAIN lines : ParseLine(lines[l]).instructions \in C
  BY ParseLineType DEF Parsed
<1>2. seqs \in Seq(C)
  <2>1. DOMAIN lines = 1..Len(lines) /\ Len(lines) \in Nat
    OBVIOUS
  <2> HIDE DEF C
  <2> QED
    BY <1>1, <2>1
<1>3. Parse(lines) = FlattenSeq(seqs)
  BY DEF Parse
<1>4. \A s, t \in C : s \o t \in C
  OBVIOUS
<1> HIDE DEF seqs
<1>5. CASE Len(seqs) = 0
  <2>1. FlattenSeq(seqs) = seqs
    BY <1>5 DEF FlattenSeq
  <2>2. seqs = <<>>
    BY <1>2, <1>5
  <2> QED
    BY <1>3, <2>1, <2>2
<1>6. CASE Len(seqs) # 0
  <2>1. Len(seqs) > 0
    BY <1>2, <1>6
  <2>2. C \in SUBSET Seq(Instructions)
    OBVIOUS
  <2> HIDE DEF C
  <2> QED
    BY <1>2, <1>3, <1>4, <2>1, <2>2, FlattenIn DEF C
<1> QED
  BY <1>5, <1>6

-----------------------------------------------------------------------------
(* What the filter answers a comment with.                                   *)

AttributeSets == SUBSET Seq(Words \cup {"tests"})
Requests == (Nat \X Nat) \X Nat
Jobs == [type : {"BuildJob"}, request : Requests,
         subset : {"Nixpkgs", "NixOS", "Eval"}, attrs : Attributes]
EndingStatuses == Unbuilt \cup Statuses
AllEndings == [status : EndingStatuses, attempted : AttributeSets]
Results ==
    [type : {"BuildResult"}, job : Jobs, system : Systems,
     status : {"Failure"} \cup EndingStatuses,
     attempted : AttributeSets, skipped : AttributeSets]
AllMessages ==
    {Garbage} \cup [type : {"IssueComment"}, comment : Nat]
        \cup Jobs
        \cup [type : {"QueuedBuildJobs"}, job : Jobs, architectures : Seq(Systems)]
        \cup {EvaluationJob} \cup Results

CheckNames == [attrs : AttributeSets, system : Systems]
Checks == [job : Jobs, state : {"queued", "completed"},
           conclusion : {"none", "success", "neutral"},
           attempted : AttributeSets, skipped : AttributeSets]

Panic == [do |-> "panic"]
Actions ==
    {Ack, Panic} \cup [do : {"publish"}, queue : Queues, msg : AllMessages]
        \cup [do : {"post"}, name : CheckNames, check : Checks]

\* Publications that a comment may lead to.  A job is announced behind its
\* publications.
PublishedBefore(s, i, arch, job) == \E j \in 1..(i - 1) : s[j] = Publish(arch, job)
FilterAction(s, i) ==
    /\ s[i].do = "publish"
    /\ s[i].queue \in Queues \ {"build-inputs"} /\ s[i].msg \in AllMessages
    /\ s[i].queue \in Systems => s[i].msg \in Jobs
    /\ s[i].queue = "build-results" =>
          \E job \in Jobs, archs \in Seq(Systems) :
             /\ s[i].msg = QueuedBuildJobs(job, archs)
             /\ \A d \in DOMAIN archs : PublishedBefore(s, i, archs[d], job)
Blocks == {s \in Seq(Actions) : \A i \in DOMAIN s : FilterAction(s, i)}

\* An instruction goes to systems there are.
LEMMA DestinationsType ==
  ASSUME NEW instruction, NEW systems
  PROVE  Destinations(instruction, systems) \in Seq(Systems)
<1> DEFINE right == {s \in systems : instruction.kind = "NixOS" => CanRunNixosTests(s)}
           Only(s) == IF s \in right THEN <<s>> ELSE <<>>
<1>1. \A s \in Systems : Only(s) \in Seq(Systems)
  <2> HIDE DEF right
  <2> QED
    OBVIOUS
<1>2. "x86_64-darwin" \in Systems /\ "x86_64-linux" \in Systems /\ "aarch64-linux" \in Systems
  BY DEF Systems, Linux
<1>3. Destinations(instruction, systems) =
        Only("x86_64-darwin") \o Only("x86_64-linux") \o Only("aarch64-linux")
  BY DEF Destinations
<1> HIDE DEF Only
<1> QED
  BY <1>1, <1>2, <1>3

\* What one comes behind in one of two sequences, it does in both together.
LEMMA BlocksJoin ==
  ASSUME NEW s \in Blocks, NEW t \in Blocks
  PROVE  s \o t \in Blocks
<1>1. s \in Seq(Actions) /\ t \in Seq(Actions)
  BY DEF Blocks
<1> DEFINE r == s \o t
<1>2. /\ r \in Seq(Actions) /\ Len(r) = Len(s) + Len(t) /\ Len(s) \in Nat /\ Len(t) \in Nat
      /\ DOMAIN r = 1..Len(r) /\ DOMAIN s = 1..Len(s) /\ DOMAIN t = 1..Len(t)
      /\ \A i \in 1..Len(s) : r[i] = s[i]
      /\ \A i \in 1..Len(t) : r[Len(s) + i] = t[i]
  BY <1>1
<1> HIDE DEF r
<1>3. ASSUME NEW i \in 1..Len(s) PROVE FilterAction(r, i)
  <2>1. FilterAction(s, i) /\ r[i] = s[i]
    BY <1>2 DEF Blocks
  <2>2. ASSUME NEW arch, NEW job, PublishedBefore(s, i, arch, job)
        PROVE  PublishedBefore(r, i, arch, job)
    BY <1>2, <2>2 DEF PublishedBefore
  <2> QED
    BY <2>1, <2>2 DEF FilterAction
<1>4. ASSUME NEW i \in 1..Len(t) PROVE FilterAction(r, Len(s) + i)
  <2>1. FilterAction(t, i) /\ r[Len(s) + i] = t[i]
    BY <1>2 DEF Blocks
  <2>2. ASSUME NEW arch, NEW job, PublishedBefore(t, i, arch, job)
        PROVE  PublishedBefore(r, Len(s) + i, arch, job)
    <3>1. PICK j \in 1..(i - 1) : t[j] = Publish(arch, job)
      BY <2>2 DEF PublishedBefore
    <3>2. j \in 1..Len(t) /\ Len(s) + j \in 1..(Len(s) + i - 1)
      BY <1>2
    <3>3. r[Len(s) + j] = Publish(arch, job)
      BY <1>2, <3>1, <3>2
    <3> QED
      BY <3>2, <3>3 DEF PublishedBefore
  <2> QED
    BY <2>1, <2>2 DEF FilterAction
<1>5. ASSUME NEW i \in DOMAIN r PROVE FilterAction(r, i)
  <2>1. CASE i \in 1..Len(s)
    BY <1>3, <2>1
  <2>2. CASE i \notin 1..Len(s)
    <3> DEFINE j == i - Len(s)
    <3>1. j \in 1..Len(t) /\ i = Len(s) + j
      BY <1>2, <2>2
    <3> HIDE DEF j
    <3> QED
      BY <1>4, <3>1
  <2> QED
    BY <2>1, <2>2
<1> QED
  BY <1>2, <1>5 DEF Blocks, r

\* A publication is an action.
LEMMA PublishType ==
  ASSUME NEW q \in Queues, NEW m \in AllMessages
  PROVE  /\ Publish(q, m) \in Actions /\ Publish(q, m).do = "publish"
         /\ Publish(q, m).queue = q /\ Publish(q, m).msg = m
BY DEF Publish, Actions

\* The queues of the builders and those of the other workers are not the same.
LEMMA QueueNames ==
  /\ Systems \subseteq Queues /\ "build-results" \in Queues
  /\ "mass-rebuild-check-jobs" \in Queues /\ "build-inputs" \in Queues
  /\ "build-results" \notin Systems /\ "mass-rebuild-check-jobs" \notin Systems
  /\ "build-inputs" \notin Systems
  /\ "filter" \notin Systems /\ "poster" \notin Systems
BY DEF Queues, Systems, Linux

\* The publications of a job, and behind them its announcement.
LEMMA JobBlock ==
  ASSUME NEW job \in Jobs, NEW archs \in Seq(Systems), NEW s \in Seq(Actions),
         Len(s) = Len(archs) + 1,
         \A d \in 1..Len(archs) : s[d] = Publish(archs[d], job),
         s[Len(s)] = Publish("build-results", QueuedBuildJobs(job, archs))
  PROVE  s \in Blocks
<1> DEFINE last == QueuedBuildJobs(job, archs)
<1>1. job \in AllMessages /\ last \in AllMessages
  BY DEF AllMessages, QueuedBuildJobs
<1>2. /\ Len(archs) \in Nat /\ DOMAIN archs = 1..Len(archs) /\ DOMAIN s = 1..(Len(archs) + 1)
      /\ \A d \in 1..Len(archs) : archs[d] \in Systems
  OBVIOUS
<1>3. ASSUME NEW d \in 1..Len(archs) PROVE FilterAction(s, d)
  <2>1. /\ s[d].do = "publish" /\ s[d].queue \in Systems /\ s[d].msg = job
    BY <1>1, <1>2, PublishType, QueueNames
  <2> QED
    BY <1>1, <2>1, QueueNames DEF FilterAction
<1> HIDE DEF last
<1>4. FilterAction(s, Len(s))
  <2>1. s[Len(s)].do = "publish" /\ s[Len(s)].queue = "build-results" /\ s[Len(s)].msg = last
    BY <1>1, PublishType, QueueNames DEF last
  <2>2. ASSUME NEW d \in DOMAIN archs PROVE PublishedBefore(s, Len(s), archs[d], job)
    <3>1. d \in 1..(Len(s) - 1) /\ s[d] = Publish(archs[d], job)
      BY <1>2
    <3> QED
      BY <3>1 DEF PublishedBefore
  <2> QED
    BY <1>1, <2>1, <2>2, QueueNames DEF FilterAction, last
<1>5. ASSUME NEW d \in DOMAIN s PROVE FilterAction(s, d)
  <2>1. d \in 1..Len(archs) \/ d = Len(s)
    BY <1>2
  <2> QED
    BY <1>3, <1>4, <2>1
<1> QED
  BY <1>5 DEF Blocks

\* What the filter does for one instruction.
LEMMA ActionsForBlock ==
  ASSUME NEW r \in Requests, NEW instruction \in Instructions, NEW systems
  PROVE  ActionsFor(r, instruction, systems) \in Blocks
<1> DEFINE archs == Destinations(instruction, systems)
           job == BuildJob(r, instruction)
           p == [d \in DOMAIN archs |-> Publish(archs[d], job)]
           last == Publish("build-results", QueuedBuildJobs(job, archs))
           eval == Publish("mass-rebuild-check-jobs", EvaluationJob)
<1>1. CASE instruction = Eval
  <2>1. EvaluationJob \in AllMessages
    BY DEF AllMessages
  <2>2. eval \in Actions /\ eval.do = "publish" /\ eval.queue = "mass-rebuild-check-jobs"
        /\ eval.msg \in AllMessages
    BY <2>1, PublishType, QueueNames
  <2>3. ActionsFor(r, instruction, systems) = <<eval>>
    BY <1>1 DEF ActionsFor
  <2> HIDE DEF eval
  <2>4. <<eval>> \in Seq(Actions) /\ DOMAIN <<eval>> = {1} /\ <<eval>>[1] = eval
    BY <2>2
  <2>5. FilterAction(<<eval>>, 1)
    BY <2>2, <2>4, QueueNames DEF FilterAction
  <2> QED
    BY <2>3, <2>4, <2>5 DEF Blocks
<1>2. CASE instruction # Eval
  <2>1. archs \in Seq(Systems) /\ job \in Jobs
    BY DestinationsType DEF Jobs, BuildJob, Instructions
  <2>2. ActionsFor(r, instruction, systems) = Append(p, last)
    BY <1>2 DEF ActionsFor
  <2>3. job \in AllMessages /\ QueuedBuildJobs(job, archs) \in AllMessages
    <3> HIDE DEF job, archs
    <3> QED
      BY <2>1 DEF AllMessages, QueuedBuildJobs
  <2>4. /\ last \in Actions /\ last.do = "publish" /\ last.queue = "build-results"
        /\ last.msg = QueuedBuildJobs(job, archs)
    BY <2>3, PublishType, QueueNames
  <2> HIDE DEF job, archs, last
  <2>5. Len(archs) \in Nat /\ DOMAIN archs = 1..Len(archs) /\ \A d \in 1..Len(archs) : archs[d] \in Systems
    BY <2>1
  <2>6. \A d \in 1..Len(archs) : p[d] = Publish(archs[d], job) /\ p[d] \in Actions
    BY <2>3, <2>5, PublishType, QueueNames
  <2>7. p \in Seq(Actions) /\ Len(p) = Len(archs)
    BY <2>5, <2>6
  <2> HIDE DEF p
  <2> PICK s : s = Append(p, last)
    OBVIOUS
  <2>8. /\ s \in Seq(Actions) /\ Len(s) = Len(archs) + 1
        /\ \A d \in 1..Len(archs) : s[d] = p[d]
        /\ s[Len(s)] = last
    BY <2>4, <2>5, <2>7
  <2>9. last = Publish("build-results", QueuedBuildJobs(job, archs))
    BY DEF last
  <2>10. \A d \in 1..Len(archs) : s[d] = Publish(archs[d], job)
    BY <2>6, <2>8
  <2>11. s[Len(s)] = Publish("build-results", QueuedBuildJobs(job, archs))
    BY <2>8, <2>9
  <2>12. s \in Blocks
    BY <2>1, <2>8, <2>10, <2>11, JobBlock
  <2> QED
    BY <2>2, <2>12
<1> QED
  BY <1>1, <1>2

\* Nothing to do.
LEMMA EmptyBlock == <<>> \in Blocks
<1>1. <<>> \in Seq(Actions) /\ DOMAIN <<>> = {}
  OBVIOUS
<1> QED
  BY <1>1 DEF Blocks

\* An answer is built from those to the single instructions.
LEMMA ResponseIn ==
  ASSUME NEW comment, comment.body \in Seq(Seq(Words)),
         NEW found \in BOOLEAN, NEW B \in SUBSET Seq(Actions), <<>> \in B,
         \A s, t \in B : s \o t \in B,
         \A n \in Nat, instruction \in Instructions :
            ActionsFor(<<comment.id, n>>, instruction, Architectures(comment.user, comment.repo)) \in B
  PROVE  \E s \in B : Response(comment, found) = Append(s, Ack)
<1> DEFINE instructions == Parse(comment.body)
           systems == Architectures(comment.user, comment.repo)
           seqs == [n \in DOMAIN instructions |-> ActionsFor(<<comment.id, n>>, instructions[n], systems)]
           nothing == comment.action = "deleted" \/ instructions = <<>> \/ systems = {} \/ ~found
<1>1. instructions \in Seq(Instructions)
  BY ParseType
<1>2. Response(comment, found) = IF nothing THEN <<Ack>> ELSE Append(FlattenSeq(seqs), Ack)
  BY DEF Response
<1>5. \A n \in Nat, instruction \in Instructions : ActionsFor(<<comment.id, n>>, instruction, systems) \in B
  OBVIOUS
<1> HIDE DEF systems
<1>3. CASE nothing
  <2>1. <<Ack>> = Append(<<>>, Ack)
    OBVIOUS
  <2> HIDE DEF nothing
  <2> QED
    BY <1>2, <1>3, <2>1
<1>4. CASE ~nothing
  <2>1. instructions # <<>>
    BY <1>4
  <2> HIDE DEF instructions, nothing
  <2> DEFINE n == Len(instructions)
  <2>2. DOMAIN instructions = 1..n /\ n \in Nat /\ n > 0 /\ \A k \in 1..n : instructions[k] \in Instructions
    BY <1>1, <2>1
  <2> HIDE DEF n
  <2>3. \A k \in 1..n : seqs[k] \in B
    <3> SUFFICES ASSUME NEW k \in 1..n PROVE seqs[k] \in B
      OBVIOUS
    <3>1. seqs[k] = ActionsFor(<<comment.id, k>>, instructions[k], systems) /\ k \in Nat
      BY <2>2
    <3> QED
      BY <1>5, <2>2, <3>1
  <2>4. seqs \in Seq(B) /\ Len(seqs) > 0
    BY <2>2, <2>3
  <2> HIDE DEF seqs
  <2>6. FlattenSeq(seqs) \in B
    BY <2>4, FlattenIn
  <2> QED
    BY <1>2, <1>4, <2>6
<1> QED
  BY <1>3, <1>4

\* Publications, each announcement behind those it speaks of, and the Ack.
LEMMA ResponseShape ==
  ASSUME NEW comment, comment.body \in Seq(Seq(Words)), comment.id \in Nat \X Nat,
         NEW found \in BOOLEAN
  PROVE  \E s \in Blocks : Response(comment, found) = Append(s, Ack)
<1>1. Blocks \in SUBSET Seq(Actions)
  BY DEF Blocks
<1>2. \A n \in Nat, instruction \in Instructions : \A systems : ActionsFor(<<comment.id, n>>, instruction, systems) \in Blocks
  <2>1. \A n \in Nat : <<comment.id, n>> \in Requests
    BY DEF Requests
  <2> QED
    BY <2>1, ActionsForBlock
<1>3. \A n \in Nat, instruction \in Instructions :
        ActionsFor(<<comment.id, n>>, instruction, Architectures(comment.user, comment.repo)) \in Blocks
  BY <1>2
<1> QED
  BY <1>1, <1>3, EmptyBlock, BlocksJoin, ResponseIn

-----------------------------------------------------------------------------
(* What is on its way is true.                                               *)

\* A comment that decodes, or an event that does not.
Events ==
    {m \in AllMessages :
       \/ m = Garbage
       \/ /\ m.type = "IssueComment" /\ m.comment \in DOMAIN Comments
          /\ Comments[m.comment].body \in Seq(Seq(Words))}

\* An announcement of jobs that were sent, or a result there was.
TrueResult(m) ==
    \/ /\ m.type = "QueuedBuildJobs" /\ m.job \in Jobs /\ m.architectures \in Seq(Systems)
       /\ \A d \in DOMAIN m.architectures : <<m.job, m.architectures[d]>> \in sent
    \/ /\ m.type = "BuildResult" /\ m.job \in Jobs /\ m.system \in Systems
       /\ \E ending \in Endings(m.job) :
            /\ m = BuildResult(m.job, m.system, ending)
            /\ <<m.job, m.system, ending>> \in outcomes

\* What may be in a queue.
Proper(q) ==
    CASE q = "build-inputs" -> Events
      [] q = "build-results" -> {m \in AllMessages : TrueResult(m)}
      [] q \in Systems -> {m \in Jobs : <<m, q>> \in sent}
      [] OTHER -> AllMessages

\* What may be on GitHub under a name.
TrueChecks(name) ==
    {c \in Checks :
       /\ c.state = "queued" => /\ <<c.job, name.system>> \in sent
                                /\ name = Name(ToSet(c.job.attrs), name.system)
       /\ c.conclusion = "success" =>
            /\ <<c.job, name.system, [status |-> "Success", attempted |-> c.attempted]>>
                  \in outcomes
            /\ c.attempted # {}
            /\ name.attrs = ToSet(c.job.attrs)
            /\ c.skipped = name.attrs \ c.attempted}

\* What a worker may have planned as the i-th of its actions: an announcement
\* may speak of jobs the worker itself publishes before it.
Announces(s, i) ==
    /\ s[i].msg.type = "QueuedBuildJobs" /\ s[i].msg.job \in Jobs
    /\ s[i].msg.architectures \in Seq(Systems)
    /\ \A d \in DOMAIN s[i].msg.architectures :
          \/ <<s[i].msg.job, s[i].msg.architectures[d]>> \in sent
          \/ PublishedBefore(s, i, s[i].msg.architectures[d], s[i].msg.job)
Publication(s, i) ==
    /\ s[i].queue \in Queues \ {"build-inputs"} /\ s[i].msg \in AllMessages
    /\ s[i].queue \in Systems => s[i].msg \in Jobs
    /\ s[i].queue = "build-results" => TrueResult(s[i].msg) \/ Announces(s, i)
Sound(s, i) ==
    /\ s[i].do = "ack" => i = Len(s)
    /\ s[i].do = "publish" => Publication(s, i)
    /\ s[i].do = "post" => s[i].check \in TrueChecks(s[i].name)
TruePlans == {s \in Seq(Actions) : \A i \in DOMAIN s : Sound(s, i)}

Inv ==
    /\ day \in Days
    /\ queue \in [Queues -> Seq(AllMessages)]
    /\ \A q \in Queues : queue[q] \in Seq(Proper(q))
    /\ unacked \in [Workers -> Seq(AllMessages)]
    /\ todo \in [Workers -> Seq(Actions)]
    /\ \A w \in Workers :
         /\ unacked[w] \in Seq(Proper(Inbox(w))) /\ Len(unacked[w]) <= 1
         /\ todo[w] \in TruePlans
         /\ todo[w] # <<>> => unacked[w] # <<>>
    /\ \A name \in DOMAIN checks : checks[name] \in Seq(TrueChecks(name)) /\ checks[name] # <<>>
    /\ sent \subseteq Jobs \X Systems
    /\ outcomes \subseteq {o \in Jobs \X Systems \X AllEndings : <<o[1], o[2]>> \in sent}
    /\ crashes \in 0..day.crashes

\* What may be in the queues, one by one.
LEMMA ProperQueues ==
  /\ Proper("build-inputs") = Events
  /\ Proper("build-results") = {m \in AllMessages : TrueResult(m)}
  /\ \A q \in Systems : Proper(q) = {m \in Jobs : <<m, q>> \in sent}
  /\ \A q \in Queues \ (Systems \cup {"build-inputs", "build-results"}) : Proper(q) = AllMessages
<1>1. "build-inputs" # "build-results"
  OBVIOUS
<1> QED
  BY <1>1, QueueNames DEF Proper

\* It is made of messages.
LEMMA ProperTypes == \A q \in Queues : Proper(q) \subseteq AllMessages
<1> SUFFICES ASSUME NEW q \in Queues PROVE Proper(q) \subseteq AllMessages
  OBVIOUS
<1>1. Jobs \subseteq AllMessages /\ Events \subseteq AllMessages
  BY DEF AllMessages, Events
<1>2. CASE q \in Systems
  BY <1>1, <1>2, ProperQueues
<1>3. CASE q \notin Systems
  BY <1>1, <1>3, ProperQueues
<1> QED
  BY <1>2, <1>3

\* A sequence over a set is one over a larger set.
LEMMA SeqsGrow ==
  ASSUME NEW A, NEW B, A \subseteq B, NEW s \in Seq(A)
  PROVE  s \in Seq(B)
OBVIOUS

\* The queue a worker is fed from.
LEMMA WorkerInbox ==
  /\ \A w \in Workers : Inbox(w) \in Queues
  /\ \A s \in Systems : s \in Workers /\ Inbox(s) = s
  /\ "filter" \in Workers /\ Inbox("filter") = "build-inputs"
  /\ "poster" \in Workers /\ Inbox("poster") = "build-results"
<1>1. \A s \in Systems : s \in Workers /\ Inbox(s) = s
  BY QueueNames DEF Workers, Inbox
<1>2. "filter" \in Workers /\ Inbox("filter") = "build-inputs"
  BY DEF Workers, Inbox
<1>3. "poster" \in Workers /\ Inbox("poster") = "build-results"
  BY DEF Workers, Inbox
<1> QED
  BY <1>1, <1>2, <1>3, QueueNames DEF Workers

\* What is true stays true: jobs that were sent and outcomes only add up.
LEMMA TruthStays ==
  ASSUME day' = day, sent \subseteq sent', outcomes \subseteq outcomes'
  PROVE  /\ \A m : TrueResult(m) => TrueResult(m)'
         /\ \A q \in Queues : Proper(q) \subseteq Proper(q)'
         /\ \A name : TrueChecks(name) \subseteq TrueChecks(name)'
         /\ \A s, i : Sound(s, i) => Sound(s, i)'
         /\ TruePlans \subseteq TruePlans'
<1>1. ASSUME NEW m, TrueResult(m) PROVE TrueResult(m)'
  BY <1>1 DEF TrueResult
<1>2. ASSUME NEW q \in Queues PROVE Proper(q) \subseteq Proper(q)'
  <2>1. Events' = Events
    BY DEF Events, Comments
  <2> QED
    BY <1>1, <2>1 DEF Proper
<1>3. ASSUME NEW name PROVE TrueChecks(name) \subseteq TrueChecks(name)'
  BY DEF TrueChecks
<1>4. ASSUME NEW s, NEW i, Sound(s, i) PROVE Sound(s, i)'
  <2>1. Announces(s, i) => Announces(s, i)'
    BY DEF Announces
  <2>2. Publication(s, i) => Publication(s, i)'
    BY <1>1, <2>1 DEF Publication
  <2> QED
    BY <1>3, <1>4, <2>2 DEF Sound
<1>5. TruePlans \subseteq TruePlans'
  BY <1>4 DEF TruePlans
<1> QED
  BY <1>1, <1>2, <1>3, <1>4, <1>5

\* What a step has to show: that what it changes is true.
LEMMA StepInv ==
  ASSUME Inv, day' = day, sent \subseteq sent', outcomes \subseteq outcomes',
         sent' \subseteq Jobs \X Systems,
         outcomes' \subseteq {o \in Jobs \X Systems \X AllEndings : <<o[1], o[2]>> \in sent'},
         crashes' \in 0..day.crashes,
         queue' \in [Queues -> Seq(AllMessages)],
         \A q \in Queues : queue'[q] = queue[q] \/ queue'[q] \in Seq(Proper(q)'),
         unacked' \in [Workers -> Seq(AllMessages)],
         \A w \in Workers :
            \/ unacked'[w] = unacked[w]
            \/ unacked'[w] \in Seq(Proper(Inbox(w))') /\ Len(unacked'[w]) <= 1,
         todo' \in [Workers -> Seq(Actions)],
         \A w \in Workers : todo'[w] = todo[w] \/ todo'[w] \in TruePlans',
         \A w \in Workers : todo'[w] # <<>> => unacked'[w] # <<>>,
         \A name \in DOMAIN checks' :
            \/ name \in DOMAIN checks /\ checks'[name] = checks[name]
            \/ checks'[name] \in Seq(TrueChecks(name)') /\ checks'[name] # <<>>
  PROVE  Inv'
<1>1. /\ \A q \in Queues : Proper(q) \subseteq Proper(q)'
      /\ \A name : TrueChecks(name) \subseteq TrueChecks(name)'
      /\ TruePlans \subseteq TruePlans'
  BY TruthStays
<1>2. ASSUME NEW q \in Queues PROVE queue'[q] \in Seq(Proper(q)')
  <2>1. queue[q] \in Seq(Proper(q))
    BY DEF Inv
  <2>2. queue[q] \in Seq(Proper(q)')
    BY <1>1, <2>1, SeqsGrow
  <2> QED
    BY <2>2
<1>3. ASSUME NEW w \in Workers
      PROVE  unacked'[w] \in Seq(Proper(Inbox(w))') /\ Len(unacked'[w]) <= 1
  <2>1. unacked[w] \in Seq(Proper(Inbox(w))) /\ Len(unacked[w]) <= 1
    BY DEF Inv
  <2>2. Proper(Inbox(w)) \subseteq Proper(Inbox(w))'
    BY <1>1, WorkerInbox
  <2>3. unacked[w] \in Seq(Proper(Inbox(w))')
    BY <2>1, <2>2, SeqsGrow
  <2> QED
    BY <2>1, <2>3
<1>4. ASSUME NEW w \in Workers PROVE todo'[w] \in TruePlans'
  BY <1>1 DEF Inv
<1>5. ASSUME NEW name \in DOMAIN checks'
      PROVE  checks'[name] \in Seq(TrueChecks(name)') /\ checks'[name] # <<>>
  <2>1. CASE name \in DOMAIN checks /\ checks'[name] = checks[name]
    <3>1. checks[name] \in Seq(TrueChecks(name)) /\ checks[name] # <<>>
      BY <2>1 DEF Inv
    <3>2. checks[name] \in Seq(TrueChecks(name)')
      BY <1>1, <3>1, SeqsGrow
    <3> QED
      BY <2>1, <3>1, <3>2
  <2>2. CASE checks'[name] \in Seq(TrueChecks(name)') /\ checks'[name] # <<>>
    BY <2>2
  <2> QED
    BY <2>1, <2>2
<1>6. day' \in Days /\ crashes' \in 0..day'.crashes
  BY DEF Inv
<1> QED
  BY <1>2, <1>3, <1>4, <1>5, <1>6 DEF Inv

-----------------------------------------------------------------------------
(* Plans.                                                                    *)

\* What remains of a plan when its first action is done.
LEMMA TailPlan ==
  ASSUME day' = day, sent \subseteq sent', outcomes \subseteq outcomes',
         NEW s \in TruePlans, s # <<>>,
         \A arch \in Systems, job \in Jobs : s[1] = Publish(arch, job) => <<job, arch>> \in sent'
  PROVE  Tail(s) \in TruePlans'
<1> DEFINE t == Tail(s)
<1>1. s \in Seq(Actions) /\ \A i \in DOMAIN s : Sound(s, i)'
  BY TruthStays DEF TruePlans
<1>2. /\ t \in Seq(Actions) /\ Len(t) = Len(s) - 1 /\ Len(s) \in Nat /\ DOMAIN t = 1..(Len(s) - 1)
      /\ \A i \in 1..(Len(s) - 1) : t[i] = s[i + 1] /\ i + 1 \in DOMAIN s
  BY <1>1
<1> HIDE DEF t
<1>3. ASSUME NEW i \in DOMAIN t PROVE Sound(t, i)'
  <2>1. t[i] = s[i + 1] /\ Sound(s, i + 1)' /\ i \in Nat
    BY <1>1, <1>2
  <2>2. t[i].do = "ack" => i = Len(t)
    <3>1. t[i].do = "ack" => i + 1 = Len(s)
      BY <2>1 DEF Sound
    <3> QED
      BY <1>2, <2>1, <3>1
  <2>3. t[i].do = "post" => t[i].check \in TrueChecks(t[i].name)'
    BY <2>1 DEF Sound
  <2>4. ASSUME NEW arch \in Systems, NEW job \in Jobs, PublishedBefore(s, i + 1, arch, job)
        PROVE  <<job, arch>> \in sent' \/ PublishedBefore(t, i, arch, job)
    <3>1. PICK j \in 1..(i + 1 - 1) : s[j] = Publish(arch, job)
      BY <2>4 DEF PublishedBefore
    <3>2. CASE j = 1
      BY <3>1, <3>2
    <3>3. CASE j # 1
      <4> DEFINE l == j - 1
      <4>1. l \in 1..(i - 1) /\ l \in 1..(Len(s) - 1) /\ l + 1 = j
        BY <1>2, <2>1, <3>3
      <4>2. t[l] = Publish(arch, job)
        BY <1>2, <3>1, <4>1
      <4> HIDE DEF l
      <4> QED
        BY <4>1, <4>2 DEF PublishedBefore
    <3> QED
      BY <3>2, <3>3
  <2>5. ASSUME Announces(s, i + 1)' PROVE Announces(t, i)'
    <3> DEFINE m == t[i].msg
    <3>1. /\ m.type = "QueuedBuildJobs" /\ m.job \in Jobs /\ m.architectures \in Seq(Systems)
          /\ \A d \in DOMAIN m.architectures :
                \/ <<m.job, m.architectures[d]>> \in sent'
                \/ PublishedBefore(s, i + 1, m.architectures[d], m.job)
      BY <2>1, <2>5 DEF Announces
    <3>2. \A d \in DOMAIN m.architectures : m.architectures[d] \in Systems
      BY <3>1
    <3>3. \A d \in DOMAIN m.architectures :
             \/ <<m.job, m.architectures[d]>> \in sent'
             \/ PublishedBefore(t, i, m.architectures[d], m.job)
      <4> HIDE DEF m
      <4> QED
        BY <2>4, <3>1, <3>2
    <3> QED
      BY <3>1, <3>3 DEF Announces
  <2>6. t[i].do = "publish" => Publication(t, i)'
    BY <2>1, <2>5 DEF Sound, Publication
  <2> QED
    BY <2>2, <2>3, <2>6 DEF Sound
<1> QED
  BY <1>2, <1>3 DEF TruePlans, t

\* Who has nothing to do does nothing wrong.
LEMMA EmptyPlan == <<>> \in TruePlans /\ <<>> \in TruePlans'
<1>1. <<>> \in Seq(Actions) /\ DOMAIN <<>> = {}
  OBVIOUS
<1> QED
  BY <1>1 DEF TruePlans

\* The filter's answer to a comment.
LEMMA BlockPlan ==
  ASSUME NEW s \in Blocks
  PROVE  Append(s, Ack) \in TruePlans
<1> DEFINE t == Append(s, Ack)
<1>1. s \in Seq(Actions) /\ Ack \in Actions /\ \A i \in DOMAIN s : FilterAction(s, i)
  BY DEF Blocks, Actions
<1>2. /\ t \in Seq(Actions) /\ Len(t) = Len(s) + 1 /\ Len(s) \in Nat
      /\ DOMAIN t = 1..(Len(s) + 1) /\ DOMAIN s = 1..Len(s)
      /\ \A i \in 1..Len(s) : t[i] = s[i]
      /\ t[Len(s) + 1] = Ack
  BY <1>1
<1> HIDE DEF t
<1>3. ASSUME NEW i \in 1..Len(s) PROVE Sound(t, i)
  <2>1. FilterAction(s, i) /\ t[i] = s[i]
    BY <1>1, <1>2
  <2>2. ASSUME NEW arch, NEW job, PublishedBefore(s, i, arch, job)
        PROVE  PublishedBefore(t, i, arch, job)
    BY <1>2, <2>2 DEF PublishedBefore
  <2>3. ASSUME t[i].queue = "build-results" PROVE Announces(t, i)
    <3>1. PICK job \in Jobs, archs \in Seq(Systems) :
             /\ t[i].msg = QueuedBuildJobs(job, archs)
             /\ \A d \in DOMAIN archs : PublishedBefore(s, i, archs[d], job)
      BY <2>1, <2>3 DEF FilterAction
    <3>2. t[i].msg.type = "QueuedBuildJobs" /\ t[i].msg.job = job /\ t[i].msg.architectures = archs
      BY <3>1 DEF QueuedBuildJobs
    <3> QED
      BY <2>2, <3>1, <3>2 DEF Announces
  <2>4. t[i].do = "publish" /\ Publication(t, i)
    BY <2>1, <2>3 DEF FilterAction, Publication
  <2> QED
    BY <2>4 DEF Sound
<1>4. Sound(t, Len(s) + 1)
  BY <1>2 DEF Sound, Ack
<1>5. ASSUME NEW i \in DOMAIN t PROVE Sound(t, i)
  <2>1. i \in 1..Len(s) \/ i = Len(s) + 1
    BY <1>2
  <2> QED
    BY <1>3, <1>4, <2>1
<1> QED
  BY <1>2, <1>5 DEF TruePlans, t

\* The attributes of a job.
LEMMA JobAttributes ==
  ASSUME NEW job \in Jobs
  PROVE  ToSet(job.attrs) \in AttributeSets
<1>1. job.attrs \in Seq(Seq(Words \cup {"tests"}))
  BY DEF Jobs, Attributes
<1> QED
  BY <1>1 DEF ToSet, AttributeSets

\* An ending attempts some of them, and a build some indeed.
LEMMA EndingFacts ==
  ASSUME NEW job \in Jobs, NEW ending \in Endings(job)
  PROVE  /\ ending \in AllEndings
         /\ ending.attempted \subseteq ToSet(job.attrs)
         /\ ending = [status |-> ending.status, attempted |-> ending.attempted]
         /\ IF ending.status \in Unbuilt THEN ending.attempted = {}
            ELSE ending.status \in Statuses /\ ending.attempted # {}
<1>1. CASE ending \in [status : Unbuilt, attempted : {{}}]
  <2>1. {} \in AttributeSets
    BY DEF AttributeSets
  <2> QED
    BY <1>1, <2>1 DEF AllEndings, EndingStatuses
<1>2. CASE ending \in [status : Statuses, attempted : (SUBSET ToSet(job.attrs)) \ {{}}]
  <2>1. ending.attempted \in AttributeSets
    BY <1>2, JobAttributes DEF AttributeSets
  <2> QED
    BY <1>2, <2>1, StatusAssumption DEF AllEndings, EndingStatuses
<1> QED
  BY <1>1, <1>2 DEF Endings

\* What a result says of the attributes of its job.
ResultSays(job, system, ending, m) ==
    /\ m \in Results /\ m.type = "BuildResult" /\ m.job = job /\ m.system = system
    /\ ending.status # "merge failed" => m.attempted \cup m.skipped = ToSet(job.attrs)
    /\ m.status = "Success" =>
          /\ ending = [status |-> "Success", attempted |-> m.attempted]
          /\ m.attempted # {} /\ m.skipped = ToSet(job.attrs) \ m.attempted
          /\ m.attempted \cup m.skipped = ToSet(job.attrs)
LEMMA ResultFacts ==
  ASSUME NEW job \in Jobs, NEW system \in Systems, NEW ending \in Endings(job)
  PROVE  ResultSays(job, system, ending, BuildResult(job, system, ending))
<1> PICK m : m = BuildResult(job, system, ending)
  OBVIOUS
<1>1. /\ m.type = "BuildResult" /\ m.job = job /\ m.system = system
      /\ m.status = (IF ending.status = "merge failed" THEN "Failure" ELSE ending.status)
      /\ m.attempted = ending.attempted
      /\ m.skipped = (IF ending.status = "merge failed" THEN {}
                      ELSE ToSet(job.attrs) \ ending.attempted)
  BY DEF BuildResult
<1>2. m \in Results
  <2>1. ending.attempted \in AttributeSets /\ ending.status \in EndingStatuses
    BY EndingFacts DEF AllEndings
  <2>2. (IF ending.status = "merge failed" THEN {} ELSE ToSet(job.attrs) \ ending.attempted)
          \in AttributeSets
    BY JobAttributes DEF AttributeSets
  <2> QED
    BY <2>1, <2>2 DEF BuildResult, Results
<1>3. ending.attempted \subseteq ToSet(job.attrs)
  BY EndingFacts
<1>4. ending.status = "merge failed" => ending.attempted = {}
  BY EndingFacts DEF Unbuilt
<1>5. ending.status = "Success" => ending.attempted # {}
  BY EndingFacts DEF Unbuilt
<1>6. ending = [status |-> ending.status, attempted |-> ending.attempted]
  BY EndingFacts
<1> QED
  BY <1>1, <1>2, <1>3, <1>4, <1>5, <1>6 DEF ResultSays

\* The builder's answer to a job.
LEMMA BuilderPlan ==
  ASSUME NEW job \in Jobs, NEW system \in Systems, NEW ending \in Endings(job),
         <<job, system, ending>> \in outcomes'
  PROVE  BuilderActions(job, system, ending) \in TruePlans'
<1>1. Ack \in Actions /\ Ack.do = "ack"
  BY DEF Ack, Actions
<1>2. CASE ending.status = "missing"
  <2>1. BuilderActions(job, system, ending) = <<Ack>>
    BY <1>2 DEF BuilderActions
  <2>2. <<Ack>> \in Seq(Actions) /\ DOMAIN <<Ack>> = {1} /\ <<Ack>>[1] = Ack /\ Len(<<Ack>>) = 1
    BY <1>1
  <2>3. Sound(<<Ack>>, 1)'
    BY <1>1, <2>2 DEF Sound
  <2> QED
    BY <2>1, <2>2, <2>3 DEF TruePlans
<1>3. CASE ending.status # "missing"
  <2> DEFINE m == BuildResult(job, system, ending)
             p == Publish("build-results", m)
             s == <<p, Ack>>
  <2>1. BuilderActions(job, system, ending) = s
    BY <1>3 DEF BuilderActions
  <2>3. m.type = "BuildResult" /\ m.job = job /\ m.system = system /\ m \in Results
    <3>1. ResultSays(job, system, ending, m)
      BY ResultFacts
    <3> HIDE DEF m
    <3> QED
      BY <3>1 DEF ResultSays
  <2>4. m \in AllMessages
    BY <2>3 DEF AllMessages
  <2>5. TrueResult(m)'
    BY <2>3 DEF TrueResult
  <2> HIDE DEF m
  <2>6. p \in Actions /\ p.do = "publish" /\ p.queue = "build-results" /\ p.msg = m
    BY <2>4, PublishType, QueueNames
  <2> HIDE DEF p
  <2>7. s \in Seq(Actions) /\ DOMAIN s = {1, 2} /\ s[1] = p /\ s[2] = Ack /\ Len(s) = 2
    BY <1>1, <2>6
  <2> HIDE DEF s
  <2>8. Sound(s, 1)'
    BY <2>4, <2>5, <2>6, <2>7, QueueNames DEF Sound, Publication
  <2>9. Sound(s, 2)'
    BY <1>1, <2>7 DEF Sound
  <2> QED
    BY <2>1, <2>7, <2>8, <2>9 DEF TruePlans
<1> QED
  BY <1>2, <1>3

\* The poster's answer to a message.
LEMMA PosterPlan ==
  ASSUME NEW msg \in AllMessages, TrueResult(msg)
  PROVE  PosterActions(msg) \in TruePlans
<1>1. Ack \in Actions /\ Ack.do = "ack"
  BY DEF Ack, Actions
<1>2. ASSUME NEW job \in Jobs PROVE ToSet(job.attrs) \in AttributeSets
  <2>1. job.attrs \in Seq(Seq(Words \cup {"tests"}))
    BY DEF Jobs, Attributes
  <2> QED
    BY <2>1 DEF ToSet, AttributeSets
<1>3. CASE msg.type = "QueuedBuildJobs"
  <2> DEFINE archs == msg.architectures
             job == msg.job
             p == [a \in DOMAIN archs |-> JobCheck(job, archs[a])]
             s == Append(p, Ack)
  <2>1. job \in Jobs /\ archs \in Seq(Systems) /\ \A a \in DOMAIN archs : <<job, archs[a]>> \in sent
    BY <1>3 DEF TrueResult
  <2>2. PosterActions(msg) = s
    BY <1>3 DEF PosterActions
  <2> HIDE DEF archs, job
  <2>3. Len(archs) \in Nat /\ DOMAIN archs = 1..Len(archs) /\ \A a \in 1..Len(archs) : archs[a] \in Systems
    BY <2>1
  <2>4. ASSUME NEW a \in 1..Len(archs)
        PROVE  /\ p[a] \in Actions /\ p[a].do = "post" /\ p[a].check \in TrueChecks(p[a].name)
    <3> DEFINE name == Name(ToSet(job.attrs), archs[a])
               check == [job |-> job, state |-> "queued", conclusion |-> "none",
                         attempted |-> {}, skipped |-> {}]
    <3>1. p[a] = Post(name, check)
      BY <2>3 DEF JobCheck
    <3>2. /\ name \in CheckNames /\ name.system = archs[a]
          /\ name = Name(ToSet(job.attrs), name.system)
      BY <1>2, <2>1, <2>3 DEF Name, CheckNames
    <3>3. check \in Checks
      <4>1. {} \in AttributeSets
        BY DEF AttributeSets
      <4> QED
        BY <2>1, <4>1 DEF Checks
    <3>4. check.job = job /\ check.conclusion = "none"
      OBVIOUS
    <3> HIDE DEF name, check, p
    <3>5. check \in TrueChecks(name)
      BY <2>1, <2>3, <3>2, <3>3, <3>4 DEF TrueChecks
    <3> QED
      BY <3>1, <3>2, <3>3, <3>5 DEF Post, Actions
  <2> HIDE DEF p
  <2>5. p \in Seq(Actions) /\ Len(p) = Len(archs)
    <3>1. p = [a \in 1..Len(archs) |-> JobCheck(job, archs[a])]
      BY <2>3 DEF p
    <3> QED
      BY <2>3, <2>4, <3>1
  <2>6. /\ s \in Seq(Actions) /\ Len(s) = Len(archs) + 1 /\ DOMAIN s = 1..(Len(archs) + 1)
        /\ \A a \in 1..Len(archs) : s[a] = p[a]
        /\ s[Len(archs) + 1] = Ack
    BY <1>1, <2>3, <2>5
  <2> HIDE DEF s
  <2>7. ASSUME NEW a \in 1..Len(archs) PROVE Sound(s, a)
    BY <2>4, <2>6 DEF Sound
  <2>8. Sound(s, Len(archs) + 1)
    BY <1>1, <2>6 DEF Sound
  <2>9. ASSUME NEW i \in DOMAIN s PROVE Sound(s, i)
    <3>1. i \in 1..Len(archs) \/ i = Len(archs) + 1
      BY <2>3, <2>6
    <3> QED
      BY <2>7, <2>8, <3>1
  <2> QED
    BY <2>2, <2>6, <2>9 DEF TruePlans
<1>4. CASE msg.type = "BuildResult"
  <2>1. PICK ending \in Endings(msg.job) :
           /\ msg.job \in Jobs /\ msg.system \in Systems
           /\ msg = BuildResult(msg.job, msg.system, ending)
           /\ <<msg.job, msg.system, ending>> \in outcomes
    BY <1>4 DEF TrueResult
  <2> PICK job, system : job = msg.job /\ system = msg.system
    OBVIOUS
  <2> DEFINE all == msg.attempted \cup msg.skipped
             name == Name(all, system)
             check == [job |-> job, state |-> "completed", conclusion |-> Conclusion(msg.status),
                       attempted |-> msg.attempted, skipped |-> msg.skipped]
             p == ResultCheck(msg)
             s == <<p, Ack>>
  <2>2. PosterActions(msg) = s
    BY <1>4 DEF PosterActions
  <2>3. p = Post(name, check)
    BY DEF ResultCheck
  <2>4. /\ msg \in Results
        /\ msg.status = "Success" =>
              /\ ending = [status |-> "Success", attempted |-> msg.attempted]
              /\ msg.attempted # {} /\ msg.skipped = ToSet(job.attrs) \ msg.attempted
              /\ all = ToSet(job.attrs)
    <3>1. msg = BuildResult(job, system, ending) /\ job \in Jobs /\ system \in Systems
          /\ ending \in Endings(job)
      BY <2>1
    <3>2. ResultSays(job, system, ending, msg)
      BY <3>1, ResultFacts
    <3> QED
      BY <3>2 DEF ResultSays
  <2>5. msg.attempted \in AttributeSets /\ msg.skipped \in AttributeSets /\ all \in AttributeSets
    BY <2>4 DEF Results, AttributeSets
  <2>6. name \in CheckNames /\ name.system = system /\ name.attrs = all
    BY <2>1, <2>5 DEF Name, CheckNames
  <2>7. check \in Checks
    BY <2>1, <2>5 DEF Checks, Conclusion
  <2>8. /\ check.conclusion = "success" => msg.status = "Success"
        /\ check.job = job /\ check.attempted = msg.attempted /\ check.skipped = msg.skipped
    BY DEF Conclusion
  <2>9. check.conclusion = "success" =>
           /\ <<check.job, name.system, [status |-> "Success", attempted |-> check.attempted]>>
                 \in outcomes
           /\ check.attempted # {}
           /\ name.attrs = ToSet(check.job.attrs)
           /\ check.skipped = name.attrs \ check.attempted
    <3> HIDE DEF name, check, all
    <3> QED
      BY <2>1, <2>4, <2>6, <2>8
  <2>10. check \in TrueChecks(name)
    <3>1. check.state = "completed"
      OBVIOUS
    <3> HIDE DEF check, name
    <3> QED
      BY <2>7, <2>9, <3>1 DEF TrueChecks
  <2> HIDE DEF name, check, all
  <2>11. p \in Actions /\ p.do = "post" /\ p.name = name /\ p.check = check
    <3> HIDE DEF p
    <3> QED
      BY <2>3, <2>6, <2>7 DEF Post, Actions
  <2> HIDE DEF p
  <2>12. s \in Seq(Actions) /\ DOMAIN s = {1, 2} /\ s[1] = p /\ s[2] = Ack /\ Len(s) = 2
    BY <1>1, <2>11
  <2> HIDE DEF s
  <2>13. Sound(s, 1)
    BY <2>10, <2>11, <2>12 DEF Sound
  <2>14. Sound(s, 2)
    BY <1>1, <2>12 DEF Sound
  <2> QED
    BY <2>2, <2>12, <2>13, <2>14 DEF TruePlans
<1> QED
  BY <1>3, <1>4 DEF TrueResult

-----------------------------------------------------------------------------
(* The steps.                                                                *)

\* On the queue of the filter are the comments of the day, and nothing else is
\* anywhere.
LEMMA Initially == ASSUME Init PROVE Inv
<1>1. day \in Days /\ unacked = [w \in Workers |-> <<>>] /\ todo = [w \in Workers |-> <<>>]
      /\ checks = <<>> /\ outcomes = {} /\ sent = {} /\ crashes = 0
  BY DEF Init
<1>2. /\ Len(Comments) \in Nat /\ DOMAIN Comments = 1..Len(Comments)
      /\ \A c \in DOMAIN Comments :
            Comments[c].body = <<Garbage>> \/ Comments[c].body \in Seq(Seq(Words))
      /\ day.crashes \in Nat
  BY <1>1, DayAssumption DEF Comments
<1>3. \A S : <<>> \in Seq(S) /\ Len(<<>>) = 0
  OBVIOUS
<1> DEFINE events == [c \in DOMAIN Comments |->
                        IF Comments[c].body = <<Garbage>> THEN Garbage ELSE IssueComment(c)]
<1>4. queue = [q \in Queues |-> IF q = "build-inputs" THEN events ELSE <<>>]
  BY DEF Init
<1>5. events \in Seq(Events)
  <2>1. ASSUME NEW c \in DOMAIN Comments PROVE events[c] \in Events
    <3>1. CASE Comments[c].body = <<Garbage>>
      BY <3>1 DEF Events, AllMessages
    <3>2. CASE Comments[c].body # <<Garbage>>
      <4>1. events[c] = IssueComment(c) /\ c \in Nat /\ Comments[c].body \in Seq(Seq(Words))
        BY <1>2, <3>2
      <4>2. IssueComment(c).type = "IssueComment" /\ IssueComment(c).comment = c
            /\ IssueComment(c) \in AllMessages
        BY <4>1 DEF IssueComment, AllMessages
      <4> HIDE DEF events
      <4> QED
        BY <4>1, <4>2 DEF Events
    <3> QED
      BY <3>1, <3>2
  <2>2. events = [c \in 1..Len(Comments) |-> events[c]]
    BY <1>2
  <2> HIDE DEF events
  <2> QED
    BY <1>2, <2>1, <2>2
<1> HIDE DEF events
<1>6. ASSUME NEW q \in Queues PROVE queue[q] \in Seq(Proper(q)) /\ queue[q] \in Seq(AllMessages)
  <2>1. CASE q = "build-inputs"
    <3>1. queue[q] = events /\ Proper(q) = Events
      BY <1>4, <2>1, ProperQueues
    <3>2. queue[q] \in Seq(Proper(q))
      BY <1>5, <3>1
    <3> QED
      BY <3>2, ProperTypes, SeqsGrow
  <2>2. CASE q # "build-inputs"
    BY <1>3, <1>4, <2>2
  <2> QED
    BY <2>1, <2>2
<1>7. queue \in [Queues -> Seq(AllMessages)]
  BY <1>4, <1>6
<1>8. ASSUME NEW w \in Workers
      PROVE  /\ unacked[w] \in Seq(Proper(Inbox(w))) /\ Len(unacked[w]) <= 1
             /\ todo[w] \in TruePlans /\ todo[w] = <<>>
  BY <1>1, <1>3, EmptyPlan
<1>9. unacked \in [Workers -> Seq(AllMessages)] /\ todo \in [Workers -> Seq(Actions)]
  BY <1>1, <1>3
<1>10. DOMAIN checks = {}
  BY <1>1
<1> QED
  BY <1>1, <1>2, <1>6, <1>7, <1>8, <1>9, <1>10 DEF Inv

\* What waits at the head of a queue is proper, and so is what is behind it.
LEMMA HeadIsProper ==
  ASSUME Inv, NEW q \in Queues, queue[q] # <<>>
  PROVE  /\ Head(queue[q]) \in Proper(q) /\ Tail(queue[q]) \in Seq(Proper(q))
         /\ Head(queue[q]) \in AllMessages /\ Tail(queue[q]) \in Seq(AllMessages)
<1>1. queue[q] \in Seq(Proper(q))
  BY DEF Inv
<1>2. Head(queue[q]) \in Proper(q) /\ Tail(queue[q]) \in Seq(Proper(q))
  BY <1>1
<1> QED
  BY <1>2, ProperTypes, SeqsGrow

\* A delivery keeps the invariant, when the worker's plan is sound and an outcome is
\* that of a job sent.
LEMMA Delivered ==
  ASSUME Inv, NEW w \in Workers, NEW actions, Deliver(w, actions), actions \in TruePlans',
         outcomes \subseteq outcomes',
         outcomes' \subseteq {o \in Jobs \X Systems \X AllEndings : <<o[1], o[2]>> \in sent}
  PROVE  Inv'
<1> DEFINE q == Inbox(w)
           m == Head(queue[q])
           rest == Tail(queue[q])
<1>1. /\ queue[q] # <<>>
      /\ queue' = [queue EXCEPT ![q] = rest]
      /\ unacked' = [unacked EXCEPT ![w] = <<m>>]
      /\ todo' = [todo EXCEPT ![w] = actions]
      /\ day' = day /\ checks' = checks /\ sent' = sent /\ crashes' = crashes
  BY DEF Deliver
<1>2. q \in Queues
  BY WorkerInbox
<1>3. m \in Proper(q) /\ rest \in Seq(Proper(q)) /\ m \in AllMessages /\ rest \in Seq(AllMessages)
  BY <1>1, <1>2, HeadIsProper
<1>4. Proper(q) \subseteq Proper(q)'
  BY <1>1, <1>2, TruthStays
<1>5. q = Inbox(w)
  OBVIOUS
<1> HIDE DEF m, rest, q
<1>6. m \in Proper(q)' /\ rest \in Seq(Proper(q)')
  BY <1>3, <1>4, SeqsGrow
<1>7. <<m>> \in Seq(Proper(q)') /\ <<m>> \in Seq(AllMessages) /\ Len(<<m>>) = 1 /\ <<m>> # <<>>
  BY <1>3, <1>6
<1>8. /\ queue \in [Queues -> Seq(AllMessages)] /\ unacked \in [Workers -> Seq(AllMessages)]
      /\ todo \in [Workers -> Seq(Actions)]
      /\ \A v \in Workers : todo[v] # <<>> => unacked[v] # <<>>
      /\ sent \subseteq Jobs \X Systems /\ crashes \in 0..day.crashes
  BY DEF Inv
<1>9. actions \in Seq(Actions)
  BY DEF TruePlans
<1>10. queue' \in [Queues -> Seq(AllMessages)]
       /\ \A p \in Queues : queue'[p] = queue[p] \/ queue'[p] \in Seq(Proper(p)')
  <2>1. \A p \in Queues : queue'[p] = IF p = q THEN rest ELSE queue[p]
    BY <1>1, <1>8
  <2>2. queue' \in [Queues -> Seq(AllMessages)]
    BY <1>1, <1>3, <1>8
  <2> QED
    BY <1>6, <2>1, <2>2
<1>11. /\ unacked' \in [Workers -> Seq(AllMessages)]
       /\ \A v \in Workers : unacked'[v] = IF v = w THEN <<m>> ELSE unacked[v]
  BY <1>1, <1>7, <1>8
<1>12. /\ todo' \in [Workers -> Seq(Actions)]
       /\ \A v \in Workers : todo'[v] = IF v = w THEN actions ELSE todo[v]
  BY <1>1, <1>8, <1>9
<1>13. \A v \in Workers :
          \/ unacked'[v] = unacked[v]
          \/ unacked'[v] \in Seq(Proper(Inbox(v))') /\ Len(unacked'[v]) <= 1
  BY <1>5, <1>7, <1>11
<1>14. \A v \in Workers : todo'[v] # <<>> => unacked'[v] # <<>>
  BY <1>7, <1>8, <1>11, <1>12
<1>15. \A v \in Workers : todo'[v] = todo[v] \/ todo'[v] \in TruePlans'
  BY <1>12
<1> QED
  BY <1>1, <1>8, <1>10, <1>11, <1>12, <1>13, <1>14, <1>15, StepInv

\* FilterTakesComment: publications, each announcement behind its jobs.
LEMMA FilterTakes ==
  ASSUME Inv, NEW found \in BOOLEAN, FilterTakesComment(found)
  PROVE  Inv'
<1> DEFINE m == Head(queue["build-inputs"])
<1>1. /\ queue["build-inputs"] # <<>> /\ m.type = "IssueComment"
      /\ Deliver("filter", Response(Event(m.comment), found)) /\ outcomes' = outcomes
  BY WorkerInbox DEF FilterTakesComment, Waiting
<1>2. m \in Events
  BY <1>1, QueueNames, HeadIsProper, ProperQueues
<1>3. Garbage.type = "Garbage"
  BY DEF Garbage
<1>4. m.comment \in DOMAIN Comments /\ Comments[m.comment].body \in Seq(Seq(Words))
  BY <1>1, <1>2, <1>3 DEF Events
<1> HIDE DEF m
<1>5. DOMAIN Comments \subseteq Nat
  BY DayAssumption DEF Inv, Comments
<1>6. Event(m.comment).id = <<m.comment, crashes>> /\ Event(m.comment).body = Comments[m.comment].body
  BY DEF Event
<1>7. PICK s \in Blocks : Response(Event(m.comment), found) = Append(s, Ack)
  <2>1. <<m.comment, crashes>> \in Nat \X Nat
    BY <1>4, <1>5 DEF Inv
  <2> QED
    BY <1>4, <1>6, <2>1, ResponseShape
<1>8. day' = day /\ sent' = sent
  BY <1>1 DEF Deliver
<1>9. TruePlans \subseteq TruePlans'
  BY <1>1, <1>8, TruthStays
<1>10. Response(Event(m.comment), found) \in TruePlans'
  BY <1>7, <1>9, BlockPlan
<1>11. outcomes \subseteq {o \in Jobs \X Systems \X AllEndings : <<o[1], o[2]>> \in sent}
  BY DEF Inv
<1> QED
  BY <1>1, <1>10, <1>11, WorkerInbox, Delivered

\* A plan of one action that publishes and posts nothing.
LEMMA PanicPlan == <<Panic>> \in TruePlans'
<1>1. Panic \in Actions /\ Panic.do = "panic"
  BY DEF Panic, Actions
<1>2. <<Panic>> \in Seq(Actions) /\ DOMAIN <<Panic>> = {1} /\ <<Panic>>[1] = Panic
  BY <1>1
<1>3. Sound(<<Panic>>, 1)'
  BY <1>1, <1>2 DEF Sound
<1> QED
  BY <1>2, <1>3 DEF TruePlans

\* FilterTakesGarbage: a panic.
LEMMA GarbageTaken ==
  ASSUME Inv, FilterTakesGarbage
  PROVE  Inv'
<1>1. Deliver("filter", <<Panic>>) /\ outcomes' = outcomes
  BY DEF FilterTakesGarbage, Panic
<1>2. outcomes \subseteq {o \in Jobs \X Systems \X AllEndings : <<o[1], o[2]>> \in sent}
  BY DEF Inv
<1> QED
  BY <1>1, <1>2, WorkerInbox, PanicPlan, Delivered

\* BuilderTakesJob: the job was sent, its result is the outcome.
LEMMA JobTaken ==
  ASSUME Inv, NEW system \in Systems, NEW ending \in Endings(Waiting(system)),
         BuilderTakesJob(system, ending)
  PROVE  Inv'
<1> DEFINE m == Head(queue[system])
<1>1. /\ queue[system] # <<>>
      /\ Deliver(system, BuilderActions(m, system, ending))
      /\ outcomes' = outcomes \cup {<<m, system, ending>>}
  BY WorkerInbox DEF BuilderTakesJob, Waiting
<1>2. m \in Proper(system)
  BY <1>1, QueueNames, HeadIsProper
<1>3. m \in Jobs /\ <<m, system>> \in sent
  BY <1>2, ProperQueues
<1>9. ending \in Endings(m) /\ ending \in AllEndings
  <2>1. Waiting(system) = m
    BY WorkerInbox DEF Waiting
  <2> QED
    BY <1>3, <2>1, EndingFacts
<1> HIDE DEF m
<1> DEFINE o == <<m, system, ending>>
<1>4. o \in Jobs \X Systems \X AllEndings /\ <<o[1], o[2]>> \in sent /\ o \in outcomes'
  BY <1>1, <1>3, <1>9
<1>5. outcomes \subseteq {p \in Jobs \X Systems \X AllEndings : <<p[1], p[2]>> \in sent}
  BY DEF Inv
<1>6. /\ outcomes \subseteq outcomes'
      /\ outcomes' \subseteq {p \in Jobs \X Systems \X AllEndings : <<p[1], p[2]>> \in sent}
  <2>1. outcomes' = outcomes \cup {o}
    BY <1>1
  <2> HIDE DEF o
  <2> QED
    BY <1>4, <1>5, <2>1
<1>7. BuilderActions(m, system, ending) \in TruePlans'
  BY <1>3, <1>4, <1>9, BuilderPlan
<1>8. system \in Workers
  BY WorkerInbox
<1> QED
  BY <1>1, <1>6, <1>7, <1>8, Delivered

\* PosterTakesMessage: what a true message says is posted.
LEMMA PosterTakes ==
  ASSUME Inv, PosterTakesMessage
  PROVE  Inv'
<1> DEFINE m == Head(queue["build-results"])
<1>1. /\ queue["build-results"] # <<>>
      /\ Deliver("poster", PosterActions(m)) /\ outcomes' = outcomes
  BY WorkerInbox DEF PosterTakesMessage, Waiting
<1>2. m \in Proper("build-results")
  BY <1>1, QueueNames, HeadIsProper
<1>3. m \in AllMessages /\ TrueResult(m)
  BY <1>2, ProperQueues
<1> HIDE DEF m
<1>4. day' = day /\ sent' = sent
  BY <1>1 DEF Deliver
<1>5. PosterActions(m) \in TruePlans'
  BY <1>1, <1>3, <1>4, PosterPlan, TruthStays
<1>6. outcomes \subseteq {o \in Jobs \X Systems \X AllEndings : <<o[1], o[2]>> \in sent}
  BY DEF Inv
<1> QED
  BY <1>1, <1>5, <1>6, WorkerInbox, Delivered

\* The first of a worker's actions is sound, and its delivery is still its own.
LEMMA FirstAction ==
  ASSUME Inv, NEW w \in Workers, todo[w] # <<>>
  PROVE  /\ todo[w] \in TruePlans /\ todo[w] \in Seq(Actions)
         /\ Head(todo[w]) = todo[w][1] /\ Sound(todo[w], 1)
         /\ unacked[w] # <<>>
<1>1. todo[w] \in TruePlans /\ unacked[w] # <<>>
  BY DEF Inv
<1>2. todo[w] \in Seq(Actions) /\ \A i \in DOMAIN todo[w] : Sound(todo[w], i)
  BY <1>1 DEF TruePlans
<1>3. 1 \in DOMAIN todo[w] /\ Head(todo[w]) = todo[w][1]
  BY <1>2
<1> QED
  BY <1>1, <1>2, <1>3

\* The rest of the plan, when nothing was published.
LEMMA RestOfPlan ==
  ASSUME Inv, NEW w \in Workers, todo[w] # <<>>, day' = day, sent' = sent,
         outcomes' = outcomes, Head(todo[w]).do # "publish"
  PROVE  Tail(todo[w]) \in TruePlans'
<1>1. \A arch, job : Publish(arch, job).do = "publish"
  BY DEF Publish
<1>2. \A arch \in Systems, job \in Jobs : todo[w][1] # Publish(arch, job)
  BY <1>1, FirstAction
<1> QED
  BY <1>2, FirstAction, TailPlan

\* What the steps leave alone.
LEMMA Frame ==
  ASSUME Inv
  PROVE  /\ queue \in [Queues -> Seq(AllMessages)] /\ unacked \in [Workers -> Seq(AllMessages)]
         /\ todo \in [Workers -> Seq(Actions)]
         /\ \A w \in Workers : todo[w] # <<>> => unacked[w] # <<>>
         /\ sent \subseteq Jobs \X Systems /\ crashes \in 0..day.crashes
         /\ outcomes \subseteq {o \in Jobs \X Systems \X AllEndings : <<o[1], o[2]>> \in sent}
BY DEF Inv

\* What makes a message proper in the state to come.
LEMMA ProperNext ==
  ASSUME NEW q \in Queues \ {"build-inputs"}, NEW m \in AllMessages,
         q \in Systems => m \in Jobs /\ <<m, q>> \in sent',
         q = "build-results" => TrueResult(m)'
  PROVE  m \in Proper(q)'
<1>1. "build-results" # "build-inputs"
  OBVIOUS
<1>2. CASE q = "build-results"
  BY <1>1, <1>2 DEF Proper
<1>3. CASE q \in Systems
  BY <1>3, QueueNames DEF Proper
<1>4. CASE q \notin Systems \cup {"build-results"}
  BY <1>4 DEF Proper
<1> QED
  BY <1>2, <1>3, <1>4

\* A publication: what arrives in the queue is true, and so is the job that
\* was sent.
LEMMA Published ==
  ASSUME Inv, NEW w \in Workers, DoPublish(w)
  PROVE  Inv'
<1> DEFINE action == Head(todo[w])
<1> PICK q, m : q = action.queue /\ m = action.msg
  OBVIOUS
<1>1. /\ todo[w] # <<>> /\ action.do = "publish"
      /\ todo' = [todo EXCEPT ![w] = Tail(todo[w])]
      /\ queue' = [queue EXCEPT ![q] = Append(queue[q], m)]
      /\ sent' = IF q \in Systems THEN sent \cup {<<m, q>>} ELSE sent
      /\ day' = day /\ unacked' = unacked /\ checks' = checks
      /\ outcomes' = outcomes /\ crashes' = crashes
  BY DEF DoPublish, Does
<1>2. action = todo[w][1] /\ todo[w] \in TruePlans /\ todo[w] \in Seq(Actions)
      /\ Sound(todo[w], 1) /\ unacked[w] # <<>>
  BY <1>1, FirstAction
<1>3. /\ q \in Queues \ {"build-inputs"} /\ m \in AllMessages
      /\ q \in Systems => m \in Jobs
      /\ q = "build-results" => TrueResult(m) \/ Announces(todo[w], 1)
  BY <1>1, <1>2 DEF Sound, Publication
<1>4. Announces(todo[w], 1) => TrueResult(m)
  BY <1>2 DEF Announces, PublishedBefore, TrueResult
<1>5. \A arch, job : Publish(arch, job).queue = arch /\ Publish(arch, job).msg = job
  BY DEF Publish
<1>6. \A arch \in Systems, job \in Jobs : todo[w][1] = Publish(arch, job) => <<job, arch>> \in sent'
  BY <1>1, <1>2, <1>5
<1> HIDE DEF action
<1>7. sent \subseteq sent' /\ outcomes \subseteq outcomes' /\ sent' \subseteq Jobs \X Systems
  BY <1>1, <1>3, Frame
<1>8. Tail(todo[w]) \in TruePlans' /\ Tail(todo[w]) \in Seq(Actions)
  BY <1>1, <1>2, <1>6, <1>7, TailPlan
<1>9. m \in Proper(q)'
  <2>1. q = "build-results" => TrueResult(m)'
    BY <1>1, <1>3, <1>4, <1>7, TruthStays
  <2> QED
    BY <1>1, <1>3, <2>1, ProperNext
<1>10. queue[q] \in Seq(Proper(q)') /\ queue[q] \in Seq(AllMessages)
  <2>1. Proper(q) \subseteq Proper(q)'
    BY <1>1, <1>3, <1>7, TruthStays
  <2>2. queue[q] \in Seq(Proper(q)) /\ queue[q] \in Seq(AllMessages)
    BY <1>3 DEF Inv
  <2> QED
    BY <2>1, <2>2, SeqsGrow
<1>11. Append(queue[q], m) \in Seq(Proper(q)') /\ Append(queue[q], m) \in Seq(AllMessages)
  BY <1>3, <1>9, <1>10
<1>12. /\ queue' \in [Queues -> Seq(AllMessages)]
       /\ \A p \in Queues : queue'[p] = queue[p] \/ queue'[p] \in Seq(Proper(p)')
  <2>1. \A p \in Queues : queue'[p] = IF p = q THEN Append(queue[q], m) ELSE queue[p]
    BY <1>1, Frame
  <2>2. queue' \in [Queues -> Seq(AllMessages)]
    BY <1>1, <1>11, Frame
  <2> QED
    BY <1>11, <2>1, <2>2
<1>13. /\ todo' \in [Workers -> Seq(Actions)]
       /\ \A v \in Workers : todo'[v] = IF v = w THEN Tail(todo[w]) ELSE todo[v]
  BY <1>1, <1>8, Frame
<1>14. /\ \A v \in Workers : todo'[v] = todo[v] \/ todo'[v] \in TruePlans'
       /\ \A v \in Workers : todo'[v] # <<>> => unacked'[v] # <<>>
  BY <1>1, <1>2, <1>8, <1>13, Frame
<1>15. outcomes' \subseteq {o \in Jobs \X Systems \X AllEndings : <<o[1], o[2]>> \in sent'}
  BY <1>1, <1>7, Frame
<1> QED
  BY <1>1, <1>7, <1>12, <1>13, <1>14, <1>15, Frame, StepInv

\* Only at the end of its plan does a worker acknowledge its delivery.
LEMMA Acknowledged ==
  ASSUME Inv, NEW w \in Workers, DoAck(w)
  PROVE  Inv'
<1>1. /\ todo[w] # <<>> /\ Head(todo[w]).do = "ack"
      /\ todo' = [todo EXCEPT ![w] = Tail(todo[w])]
      /\ unacked' = [unacked EXCEPT ![w] = <<>>]
      /\ day' = day /\ queue' = queue /\ checks' = checks
      /\ outcomes' = outcomes /\ sent' = sent /\ crashes' = crashes
  BY DEF DoAck, Does
<1>2. todo[w] \in Seq(Actions) /\ Len(todo[w]) = 1
  BY <1>1, FirstAction DEF Sound
<1>3. Tail(todo[w]) = <<>> /\ Tail(todo[w]) \in Seq(Actions)
  <2> PICK t : t = todo[w]
    OBVIOUS
  <2>1. t \in Seq(Actions) /\ Len(t) = 1 /\ t # <<>>
    BY <1>1, <1>2
  <2>2. Tail(t) \in Seq(Actions) /\ Len(Tail(t)) = Len(t) - 1
    BY <2>1, HeadTailProperties
  <2>3. \A u \in Seq(Actions) : u # <<>> => Len(u) # 0
    <3>1. \A u \in Seq(Actions) : u # <<>> => Len(u) \in Nat \ {0}
      BY EmptySeq
    <3> QED
      BY <3>1
  <2>4. Len(Tail(t)) = 0
    BY <2>1, <2>2
  <2>5. Tail(t) = <<>>
    BY <2>2, <2>3, <2>4
  <2> QED
    BY <2>2, <2>5
<1>4. \A S : <<>> \in Seq(S) /\ Len(<<>>) = 0
  OBVIOUS
<1>5. /\ todo' \in [Workers -> Seq(Actions)]
      /\ \A v \in Workers : todo'[v] = IF v = w THEN <<>> ELSE todo[v]
  BY <1>1, <1>3, Frame
<1>6. /\ unacked' \in [Workers -> Seq(AllMessages)]
      /\ \A v \in Workers : unacked'[v] = IF v = w THEN <<>> ELSE unacked[v]
  BY <1>1, <1>4, Frame
<1>7. /\ \A v \in Workers : todo'[v] = todo[v] \/ todo'[v] \in TruePlans'
      /\ \A v \in Workers : todo'[v] # <<>> => unacked'[v] # <<>>
  BY <1>5, <1>6, EmptyPlan, Frame
<1>8. \A v \in Workers :
         \/ unacked'[v] = unacked[v]
         \/ unacked'[v] \in Seq(Proper(Inbox(v))') /\ Len(unacked'[v]) <= 1
  BY <1>4, <1>6
<1> QED
  BY <1>1, <1>5, <1>6, <1>7, <1>8, Frame, StepInv

\* A check that GitHub takes: the plan had it true.
LEMMA Posted ==
  ASSUME Inv, NEW w \in Workers, DoPost(w)
  PROVE  Inv'
<1> DEFINE action == Head(todo[w])
<1> PICK name, check : name = action.name /\ check = action.check
  OBVIOUS
<1>1. /\ todo[w] # <<>> /\ action.do = "post"
      /\ todo' = [todo EXCEPT ![w] = Tail(todo[w])]
      /\ day' = day /\ queue' = queue /\ unacked' = unacked
      /\ outcomes' = outcomes /\ sent' = sent /\ crashes' = crashes
  BY DEF DoPost, Does
<1>2. checks' = [n \in DOMAIN checks \cup {name} |->
                   IF n = name THEN Append(PostsOf(n), check) ELSE checks[n]]
  BY DEF DoPost
<1>3. action = todo[w][1] /\ todo[w] \in Seq(Actions) /\ Sound(todo[w], 1) /\ unacked[w] # <<>>
  BY <1>1, FirstAction
<1>4. check \in TrueChecks(name)
  BY <1>1, <1>3 DEF Sound
<1> HIDE DEF action
<1>5. TrueChecks(name) \subseteq TrueChecks(name)'
  BY <1>1, TruthStays
<1>6. PostsOf(name) \in Seq(TrueChecks(name)')
  <2>1. CASE name \in DOMAIN checks
    <3>1. checks[name] \in Seq(TrueChecks(name))
      BY <2>1 DEF Inv
    <3>2. checks[name] \in Seq(TrueChecks(name)')
      BY <1>5, <3>1, SeqsGrow
    <3> QED
      BY <2>1, <3>2 DEF PostsOf
  <2>2. CASE name \notin DOMAIN checks
    <3>1. <<>> \in Seq(TrueChecks(name)')
      OBVIOUS
    <3> QED
      BY <2>2, <3>1 DEF PostsOf
  <2> QED
    BY <2>1, <2>2
<1>7. Append(PostsOf(name), check) \in Seq(TrueChecks(name)') /\ Append(PostsOf(name), check) # <<>>
  <2> PICK s : s = PostsOf(name)
    OBVIOUS
  <2>1. s \in Seq(TrueChecks(name)') /\ check \in TrueChecks(name)'
    BY <1>4, <1>5, <1>6
  <2>2. Append(s, check) \in Seq(TrueChecks(name)') /\ Len(Append(s, check)) = Len(s) + 1 /\ Len(s) \in Nat
    BY <2>1
  <2>3. Append(s, check) # <<>>
    BY <2>2
  <2> QED
    BY <2>2, <2>3
<1>8. ASSUME NEW n \in DOMAIN checks'
      PROVE  \/ n \in DOMAIN checks /\ checks'[n] = checks[n]
             \/ checks'[n] \in Seq(TrueChecks(n)') /\ checks'[n] # <<>>
  <2>1. n \in DOMAIN checks \cup {name}
        /\ checks'[n] = IF n = name THEN Append(PostsOf(n), check) ELSE checks[n]
    BY <1>2, <1>8
  <2> QED
    BY <1>7, <2>1
<1>9. Tail(todo[w]) \in TruePlans' /\ Tail(todo[w]) \in Seq(Actions)
  <2>1. Head(todo[w]).do # "publish"
    BY <1>1 DEF action
  <2> QED
    BY <1>1, <1>3, <2>1, RestOfPlan
<1>10. /\ todo' \in [Workers -> Seq(Actions)]
       /\ \A v \in Workers : todo'[v] = IF v = w THEN Tail(todo[w]) ELSE todo[v]
  BY <1>1, <1>9, Frame
<1>11. /\ \A v \in Workers : todo'[v] = todo[v] \/ todo'[v] \in TruePlans'
       /\ \A v \in Workers : todo'[v] # <<>> => unacked'[v] # <<>>
  BY <1>1, <1>3, <1>9, <1>10, Frame
<1> QED
  BY <1>1, <1>8, <1>10, <1>11, Frame, StepInv

\* A check that GitHub does not take changes nothing but the plan.
LEMMA Refused ==
  ASSUME Inv, NEW w \in Workers, DoPostRefused(w)
  PROVE  Inv'
<1>1. /\ todo[w] # <<>> /\ Head(todo[w]).do = "post"
      /\ todo' = [todo EXCEPT ![w] = Tail(todo[w])]
      /\ day' = day /\ queue' = queue /\ unacked' = unacked /\ checks' = checks
      /\ outcomes' = outcomes /\ sent' = sent /\ crashes' = crashes
  BY DEF DoPostRefused, Does
<1>2. todo[w] \in Seq(Actions) /\ unacked[w] # <<>>
  BY <1>1, FirstAction
<1>3. Tail(todo[w]) \in TruePlans' /\ Tail(todo[w]) \in Seq(Actions)
  BY <1>1, <1>2, RestOfPlan
<1>4. /\ todo' \in [Workers -> Seq(Actions)]
      /\ \A v \in Workers : todo'[v] = IF v = w THEN Tail(todo[w]) ELSE todo[v]
  BY <1>1, <1>3, Frame
<1>5. /\ \A v \in Workers : todo'[v] = todo[v] \/ todo'[v] \in TruePlans'
      /\ \A v \in Workers : todo'[v] # <<>> => unacked'[v] # <<>>
  BY <1>1, <1>2, <1>3, <1>4, Frame
<1> QED
  BY <1>1, <1>4, <1>5, Frame, StepInv

\* The delivery of a worker that dies goes back to where it came from.
LEMMA Died ==
  ASSUME Inv, NEW w \in Workers, Die(w), crashes' \in 0..day.crashes
  PROVE  Inv'
<1> DEFINE q == Inbox(w)
           back == unacked[w] \o queue[q]
<1>1. /\ queue' = [queue EXCEPT ![q] = back]
      /\ unacked' = [unacked EXCEPT ![w] = <<>>]
      /\ todo' = [todo EXCEPT ![w] = <<>>]
      /\ day' = day /\ checks' = checks /\ outcomes' = outcomes /\ sent' = sent
  BY DEF Die
<1>2. q \in Queues
  BY WorkerInbox
<1>3. /\ unacked[w] \in Seq(Proper(q)) /\ queue[q] \in Seq(Proper(q))
      /\ unacked[w] \in Seq(AllMessages) /\ queue[q] \in Seq(AllMessages)
  BY <1>2 DEF Inv
<1>4. back \in Seq(Proper(q)) /\ back \in Seq(AllMessages)
  BY <1>3
<1>5. Proper(q) \subseteq Proper(q)'
  BY <1>1, <1>2, TruthStays
<1>6. back \in Seq(Proper(q)')
  BY <1>4, <1>5, SeqsGrow
<1> HIDE DEF back, q
<1>7. \A S : <<>> \in Seq(S) /\ Len(<<>>) = 0
  OBVIOUS
<1>8. /\ queue' \in [Queues -> Seq(AllMessages)]
      /\ \A p \in Queues : queue'[p] = queue[p] \/ queue'[p] \in Seq(Proper(p)')
  <2>1. \A p \in Queues : queue'[p] = IF p = q THEN back ELSE queue[p]
    BY <1>1, Frame
  <2>2. queue' \in [Queues -> Seq(AllMessages)]
    BY <1>1, <1>4, Frame
  <2> QED
    BY <1>6, <2>1, <2>2
<1>9. /\ todo' \in [Workers -> Seq(Actions)]
      /\ \A v \in Workers : todo'[v] = IF v = w THEN <<>> ELSE todo[v]
  BY <1>1, <1>7, Frame
<1>10. /\ unacked' \in [Workers -> Seq(AllMessages)]
       /\ \A v \in Workers : unacked'[v] = IF v = w THEN <<>> ELSE unacked[v]
  BY <1>1, <1>7, Frame
<1>11. /\ \A v \in Workers : todo'[v] = todo[v] \/ todo'[v] \in TruePlans'
       /\ \A v \in Workers : todo'[v] # <<>> => unacked'[v] # <<>>
  BY <1>9, <1>10, EmptyPlan, Frame
<1>12. \A v \in Workers :
          \/ unacked'[v] = unacked[v]
          \/ unacked'[v] \in Seq(Proper(Inbox(v))') /\ Len(unacked'[v]) <= 1
  BY <1>7, <1>10
<1> QED
  BY <1>1, <1>8, <1>9, <1>10, <1>11, <1>12, Frame, StepInv

\* A crash.
LEMMA Crashed ==
  ASSUME Inv, NEW w \in Workers, Crash(w)
  PROVE  Inv'
<1>1. Die(w) /\ crashes < day.crashes /\ crashes' = crashes + 1
  BY DEF Crash
<1>2. crashes \in 0..day.crashes /\ day.crashes \in Nat
  BY DayAssumption DEF Inv
<1>3. crashes' \in 0..day.crashes
  BY <1>1, <1>2
<1> QED
  BY <1>1, <1>3, Died

\* A panic.
LEMMA Panicked ==
  ASSUME Inv, NEW w \in Workers, DoPanic(w)
  PROVE  Inv'
<1>1. Die(w) /\ crashes' = crashes
  BY DEF DoPanic
<1> QED
  BY <1>1, Frame, Died

\* Nothing happens.
LEMMA Stutter ==
  ASSUME Inv, UNCHANGED vars
  PROVE  Inv'
<1>1. /\ day' = day /\ queue' = queue /\ unacked' = unacked /\ todo' = todo
      /\ checks' = checks /\ outcomes' = outcomes /\ sent' = sent /\ crashes' = crashes
  BY DEF vars
<1> QED
  BY <1>1, Frame, StepInv

\* The invariant is inductive.
LEMMA NextKeepsInv ==
  ASSUME Inv, [Next]_vars
  PROVE  Inv'
<1>1. CASE Take
  BY <1>1, FilterTakes, GarbageTaken, PosterTakes DEF Take
<1>2. ASSUME NEW system \in Systems, NEW ending \in Endings(Waiting(system)),
         BuilderTakesJob(system, ending)
      PROVE  Inv'
  BY <1>2, JobTaken
<1>3. ASSUME NEW w \in Workers, Act(w) PROVE Inv'
  BY <1>3, Published, Acknowledged, Posted, Refused, Panicked DEF Act
<1>4. ASSUME NEW w \in Workers, Crash(w) PROVE Inv'
  BY <1>4, Crashed
<1>5. CASE UNCHANGED vars
  BY <1>5, Stutter
<1> QED
  BY <1>1, <1>2, <1>3, <1>4, <1>5 DEF Next, BuilderTakes

\* What it says of the checks.
LEMMA InvShowsTruth ==
  ASSUME Inv
  PROVE  ChecksAreTrue
<1>1. TypeInv
  <2>1. ASSUME NEW s \in sent PROVE s[1].type = "BuildJob" /\ s[2] \in Systems
    BY Frame DEF Jobs
  <2>2. {<<o[1], o[2]>> : o \in outcomes} \subseteq sent
    BY Frame
  <2>3. DOMAIN queue = Queues /\ day \in Days
    BY DEF Inv
  <2>4. \A w \in Workers : Len(unacked[w]) <= 1 /\ (todo[w] # <<>> => unacked[w] # <<>>)
    BY DEF Inv
  <2> QED
    BY <2>1, <2>2, <2>3, <2>4, Frame DEF TypeInv
<1>2. ASSUME NEW name \in DOMAIN checks, NEW n \in DOMAIN checks[name]
      PROVE  checks[name][n] \in TrueChecks(name)
  <2>1. checks[name] \in Seq(TrueChecks(name))
    BY DEF Inv
  <2> QED
    BY <2>1
<1>3. AnnouncedJobsExist
  BY <1>2 DEF AnnouncedJobsExist, TrueChecks
<1>4. GreenMeansBuilt
  BY <1>2 DEF GreenMeansBuilt, TrueChecks
<1> QED
  BY <1>1, <1>3, <1>4 DEF ChecksAreTrue

-----------------------------------------------------------------------------

\* Whatever comments come and whoever dies, what is in the queues, in the hands
\* of the workers and in their plans is true.
THEOREM Invariant == Spec => []Inv
<1>1. Init => Inv
  BY Initially
<1>2. Inv /\ [Next]_vars => Inv'
  BY NextKeepsInv
<1> QED
  BY <1>1, <1>2, PTL DEF Spec

\* A check that GitHub shows as queued is that of a job sent to its system, a
\* green one that of a job built there with success; all attributes of the job
\* are in its name, those it calls attempted are the ones of that build, at
\* least one, and it calls all others skipped (githubcommentfilter.rs:128-146,
\* build.rs:328-389, githubcommentposter.rs:78-197).
THEOREM ChecksTrue == Spec => []ChecksAreTrue
<1>1. Inv => ChecksAreTrue
  BY InvShowsTruth
<1> QED
  BY <1>1, Invariant, PTL

-----------------------------------------------------------------------------
(* Where the elements of sequences are.                                      *)

\* What is appended to a sequence stands behind what was in it.
LEMMA AppendHas ==
  ASSUME NEW S, NEW s \in Seq(S), NEW x \in S
  PROVE  /\ \A n \in DOMAIN s : n \in DOMAIN Append(s, x) /\ Append(s, x)[n] = s[n]
         /\ Len(s) + 1 \in DOMAIN Append(s, x) /\ Append(s, x)[Len(s) + 1] = x
<1> DEFINE t == Append(s, x)
<1>1. Len(s) \in Nat /\ DOMAIN s = 1..Len(s)
  OBVIOUS
<1>2. /\ t \in Seq(S) /\ Len(t) = Len(s) + 1 /\ t[Len(s) + 1] = x
      /\ \A n \in 1..Len(s) : t[n] = s[n]
  BY AppendProperties
<1> HIDE DEF t
<1>3. DOMAIN t = 1..(Len(s) + 1)
  BY <1>2
<1> QED
  BY <1>1, <1>2, <1>3 DEF t

\* What is in one of two sequences is in both together.
LEMMA ConcatHas ==
  ASSUME NEW S, NEW s \in Seq(S), NEW t \in Seq(S)
  PROVE  /\ \A n \in DOMAIN s : n \in DOMAIN (s \o t) /\ (s \o t)[n] = s[n]
         /\ \A n \in DOMAIN t : Len(s) + n \in DOMAIN (s \o t) /\ (s \o t)[Len(s) + n] = t[n]
         /\ \A k \in DOMAIN (s \o t) : \/ k \in DOMAIN s /\ (s \o t)[k] = s[k]
                                      \/ \E n \in DOMAIN t : (s \o t)[k] = t[n]
<1> DEFINE r == s \o t
<1>1. /\ Len(s) \in Nat /\ DOMAIN s = 1..Len(s) /\ Len(t) \in Nat /\ DOMAIN t = 1..Len(t)
  OBVIOUS
<1>2. /\ r \in Seq(S) /\ Len(r) = Len(s) + Len(t)
      /\ \A n \in 1..(Len(s) + Len(t)) :
            r[n] = IF n <= Len(s) THEN s[n] ELSE t[n - Len(s)]
  BY ConcatProperties
<1> HIDE DEF r
<1>3. DOMAIN r = 1..(Len(s) + Len(t))
  BY <1>2
<1>4. ASSUME NEW n \in 1..Len(s) PROVE n \in DOMAIN r /\ r[n] = s[n]
  <2>1. n \in 1..(Len(s) + Len(t)) /\ n <= Len(s)
    BY <1>1
  <2> QED
    BY <1>2, <1>3, <2>1
<1>5. ASSUME NEW n \in 1..Len(t) PROVE Len(s) + n \in DOMAIN r /\ r[Len(s) + n] = t[n]
  <2>1. /\ Len(s) + n \in 1..(Len(s) + Len(t)) /\ ~(Len(s) + n <= Len(s))
        /\ (Len(s) + n) - Len(s) = n
    BY <1>1
  <2> QED
    BY <1>2, <1>3, <2>1
<1>6. ASSUME NEW k \in DOMAIN r
      PROVE  (k \in DOMAIN s /\ r[k] = s[k]) \/ \E n \in DOMAIN t : r[k] = t[n]
  <2>1. k \in 1..(Len(s) + Len(t))
    BY <1>3
  <2>2. CASE k <= Len(s)
    <3>1. k \in 1..Len(s)
      BY <1>1, <2>1, <2>2
    <3> QED
      BY <1>1, <1>4, <3>1
  <2>3. CASE ~(k <= Len(s))
    <3>1. k - Len(s) \in 1..Len(t)
      BY <1>1, <2>1, <2>3
    <3>2. r[k] = t[k - Len(s)]
      BY <1>2, <2>1, <2>3
    <3> QED
      BY <1>1, <3>1, <3>2
  <2> QED
    BY <2>2, <2>3
<1> QED
  BY <1>1, <1>4, <1>5, <1>6 DEF r

-----------------------------------------------------------------------------
(* What becomes of a job: it is on its way until there is a reason why its     *)
(* check may stay as it is.                                                  *)

Built(job) == {ending \in Endings(job) : ending.status \notin {"missing", "merge failed"}}
CheckName(job, system) == Name(ToSet(job.attrs), system)
InQueue(q, m) == \E n \in DOMAIN queue[q] : queue[q][n] = m

\* A worker holds a message, and still has to do something about it.
Plans(w, a) == \E i \in DOMAIN todo[w] : todo[w][i] = a
Holds(w, m, a) == unacked[w] = <<m>> /\ Plans(w, a)

ResultOnItsWay(job, system, result) ==
    \/ Holds(system, job, Publish("build-results", result))
    \/ InQueue("build-results", result)
    \/ Holds("poster", result, ResultCheck(result))
OnItsWay(job, system) ==
    \/ InQueue(system, job)
    \/ \E ending \in Built(job) : ResultOnItsWay(job, system, BuildResult(job, system, ending))
Over(job, system) ==
    \/ Unanswered(job, system)
    \/ RefusedResult(CheckName(job, system), job)
    \/ /\ CheckName(job, system) \in DOMAIN checks
       /\ Overtaken(checks[CheckName(job, system)], job)
Followed == \A s \in sent : OnItsWay(s[1], s[2]) \/ Over(s[1], s[2])

\* What is over stays over.
LEMMA OverStays ==
  ASSUME NEW job, NEW system, Over(job, system),
         outcomes \subseteq outcomes', refused \subseteq refused',
         \A name \in DOMAIN checks : /\ name \in DOMAIN checks'
                                     /\ \A n \in DOMAIN checks[name] :
                                          n \in DOMAIN checks'[name] /\ checks'[name][n] = checks[name][n]
  PROVE  Over(job, system)'
<1>1. Unanswered(job, system) => Unanswered(job, system)'
  BY DEF Unanswered
<1>2. RefusedResult(CheckName(job, system), job) => RefusedResult(CheckName(job, system), job)'
  BY DEF RefusedResult
<1>3. ASSUME CheckName(job, system) \in DOMAIN checks, Overtaken(checks[CheckName(job, system)], job)
      PROVE  /\ CheckName(job, system) \in DOMAIN checks'
             /\ Overtaken(checks'[CheckName(job, system)], job)
  BY <1>3 DEF Overtaken
<1> QED
  BY <1>1, <1>2, <1>3 DEF Over

\* The head of a queue that was delivered is in the hands of who it was
\* delivered to, all else that waits goes on waiting.
LEMMA QueueAfterDelivery ==
  ASSUME Inv, NEW w \in Workers, NEW actions, Deliver(w, actions),
         NEW q \in Queues, NEW m, InQueue(q, m)
  PROVE  \/ InQueue(q, m)'
         \/ q = Inbox(w) /\ m = Head(queue[q]) /\ unacked'[w] = <<m>> /\ todo'[w] = actions
<1>1. /\ queue[Inbox(w)] # <<>> /\ queue' = [queue EXCEPT ![Inbox(w)] = Tail(queue[Inbox(w)])]
      /\ unacked'[w] = <<Head(queue[Inbox(w)])>> /\ todo'[w] = actions
  BY Frame DEF Deliver
<1>2. CASE q # Inbox(w)
  <2>1. queue'[q] = queue[q]
    BY <1>1, <1>2, Frame
  <2> QED
    BY <2>1 DEF InQueue
<1>3. CASE q = Inbox(w)
  <2> PICK s : s = queue[q]
    OBVIOUS
  <2>1. queue'[q] = Tail(s) /\ s # <<>> /\ s \in Seq(AllMessages)
    BY <1>1, <1>3, Frame
  <2>2. PICK n \in DOMAIN s : s[n] = m
    BY DEF InQueue
  <2>3. CASE n = 1
    <3>1. m = Head(s)
      BY <2>1, <2>2, <2>3
    <3> QED
      BY <1>1, <1>3, <3>1
  <2>4. CASE n # 1
    <3>1. n - 1 \in DOMAIN Tail(s) /\ Tail(s)[n - 1] = s[n]
      BY <2>1, <2>2, <2>4
    <3> QED
      BY <2>1, <2>2, <3>1 DEF InQueue
  <2> QED
    BY <2>3, <2>4
<1> QED
  BY <1>2, <1>3

\* Who holds a message is not given another.
LEMMA HoldsAfterDelivery ==
  ASSUME Inv, NEW w \in Workers, NEW actions, Deliver(w, actions),
         NEW v \in Workers, NEW m, NEW a, Holds(v, m, a)
  PROVE  Holds(v, m, a)'
<1>1. /\ unacked[w] = <<>> /\ unacked' = [unacked EXCEPT ![w] = <<Head(queue[Inbox(w)])>>]
      /\ todo' = [todo EXCEPT ![w] = actions]
  BY DEF Deliver, Idle
<1>2. v # w
  BY <1>1 DEF Holds
<1>3. unacked'[v] = unacked[v] /\ todo'[v] = todo[v]
  BY <1>1, <1>2, Frame
<1> QED
  BY <1>3 DEF Holds, Plans

\* A delivery leaves a job on its way, or hands over the job or its result.
LEMMA FollowedAfterDelivery ==
  ASSUME Inv, NEW w \in Workers, NEW actions, Deliver(w, actions),
         NEW job \in Jobs, NEW system \in Systems, OnItsWay(job, system)
  PROVE  \/ OnItsWay(job, system)'
         \/ /\ w = system /\ Head(queue[system]) = job
            /\ unacked'[w] = <<job>> /\ todo'[w] = actions
         \/ \E ending \in Built(job) :
              LET result == BuildResult(job, system, ending) IN
              /\ w = "poster" /\ Head(queue["build-results"]) = result
              /\ unacked'[w] = <<result>> /\ todo'[w] = actions
<1>0. /\ system \in Queues /\ "build-results" \in Queues
      /\ system \in Workers /\ "poster" \in Workers
      /\ Inbox(w) = system => w = system
      /\ Inbox(w) = "build-results" => w = "poster"
  <2>1. CASE w \in Systems
    BY <2>1, WorkerInbox, QueueNames
  <2>2. CASE w \in {"filter", "poster"}
    BY <2>2, WorkerInbox, QueueNames
  <2> QED
    BY <2>1, <2>2, WorkerInbox, QueueNames DEF Workers
<1>1. CASE InQueue(system, job)
  <2>1. \/ InQueue(system, job)'
        \/ /\ system = Inbox(w) /\ job = Head(queue[system])
           /\ unacked'[w] = <<job>> /\ todo'[w] = actions
    BY <1>0, <1>1, QueueAfterDelivery
  <2> QED
    BY <1>0, <2>1 DEF OnItsWay
<1>2. CASE \E ending \in Built(job) : ResultOnItsWay(job, system, BuildResult(job, system, ending))
  <2>1. PICK ending \in Built(job) : ResultOnItsWay(job, system, BuildResult(job, system, ending))
    BY <1>2
  <2> PICK result : result = BuildResult(job, system, ending)
    OBVIOUS
  <2>2. CASE Holds(system, job, Publish("build-results", result))
    <3>1. Holds(system, job, Publish("build-results", result))'
      BY <1>0, <2>2, HoldsAfterDelivery
    <3> QED
      BY <3>1 DEF OnItsWay, ResultOnItsWay
  <2>3. CASE Holds("poster", result, ResultCheck(result))
    <3>1. Holds("poster", result, ResultCheck(result))'
      BY <1>0, <2>3, HoldsAfterDelivery
    <3> QED
      BY <3>1 DEF OnItsWay, ResultOnItsWay
  <2>4. CASE InQueue("build-results", result)
    <3>1. \/ InQueue("build-results", result)'
          \/ /\ "build-results" = Inbox(w) /\ result = Head(queue["build-results"])
             /\ unacked'[w] = <<result>> /\ todo'[w] = actions
      BY <1>0, <2>4, QueueAfterDelivery
    <3> QED
      BY <1>0, <3>1 DEF OnItsWay, ResultOnItsWay
  <2> QED
    BY <2>1, <2>2, <2>3, <2>4 DEF ResultOnItsWay
<1> QED
  BY <1>1, <1>2 DEF OnItsWay

\* Deliveries.
LEMMA DeliveryFollowed ==
  ASSUME Inv, Followed, NEW w \in Workers, NEW actions, Deliver(w, actions),
         outcomes \subseteq outcomes',
         \A job \in Jobs : w \in Systems /\ Head(queue[w]) = job /\ unacked'[w] = <<job>> =>
            OnItsWay(job, w)' \/ Over(job, w)',
         \A job \in Jobs, system \in Systems : \A ending \in Built(job) :
            LET result == BuildResult(job, system, ending) IN
            w = "poster" /\ Head(queue["build-results"]) = result /\ unacked'[w] = <<result>> =>
                OnItsWay(job, system)'
  PROVE  Followed'
<1>1. sent' = sent /\ refused' = refused /\ checks' = checks
  BY DEF Deliver
<1>2. ASSUME NEW s \in sent PROVE OnItsWay(s[1], s[2])' \/ Over(s[1], s[2])'
  <2> PICK job, system : job = s[1] /\ system = s[2]
    OBVIOUS
  <2>1. job \in Jobs /\ system \in Systems
    BY Frame
  <2>2. CASE Over(job, system)
    BY <1>1, <2>2, OverStays
  <2>3. CASE OnItsWay(job, system)
    BY <2>1, <2>3, FollowedAfterDelivery
  <2> QED
    BY <2>2, <2>3 DEF Followed
<1> QED
  BY <1>1, <1>2 DEF Followed

\* The filter takes comments, no jobs.
LEMMA FilterFollowed ==
  ASSUME Inv, Followed, NEW actions, Deliver("filter", actions), outcomes' = outcomes
  PROVE  Followed'
BY WorkerInbox, QueueNames, DeliveryFollowed

\* The builder plans a result, or there is a reason why it does not.
LEMMA BuilderFollowed ==
  ASSUME Inv, Followed, NEW system \in Systems, NEW ending \in Endings(Waiting(system)),
         BuilderTakesJob(system, ending)
  PROVE  Followed'
<1> PICK job : job = Head(queue[system])
  OBVIOUS
<1> DEFINE actions == BuilderActions(job, system, ending)
<1>1. /\ Deliver(system, actions) /\ outcomes' = outcomes \cup {<<job, system, ending>>}
      /\ system \in Workers
  BY WorkerInbox DEF BuilderTakesJob, Waiting
<1>0. job \in Jobs /\ ending \in Endings(job)
  <2>1. queue[system] # <<>> /\ Waiting(system) = job
    BY WorkerInbox DEF BuilderTakesJob, Waiting
  <2>2. job \in Proper(system)
    BY <2>1, QueueNames, HeadIsProper
  <2> QED
    BY <2>1, <2>2, ProperQueues
<1>2. todo'[system] = actions
  BY <1>1, Frame DEF Deliver
<1>3. ASSUME unacked'[system] = <<job>>
      PROVE  OnItsWay(job, system)' \/ Over(job, system)'
  <2>1. CASE ending.status \in {"missing", "merge failed"}
    <3>1. ending = [status |-> ending.status, attempted |-> {}]
      BY <1>0, <2>1, EndingFacts DEF Unbuilt
    <3>2. Unanswered(job, system)'
      BY <1>1, <2>1, <3>1 DEF Unanswered
    <3> QED
      BY <3>2 DEF Over
  <2>2. CASE ending \in Built(job)
    <3> PICK result : result = BuildResult(job, system, ending)
      OBVIOUS
    <3>1. actions = <<Publish("build-results", result), Ack>>
      BY <2>2 DEF BuilderActions, Built
    <3>2. 1 \in DOMAIN actions /\ actions[1] = Publish("build-results", result)
      BY <3>1
    <3> HIDE DEF actions
    <3>3. Holds(system, job, Publish("build-results", result))'
      BY <1>2, <1>3, <3>2 DEF Holds, Plans
    <3> QED
      BY <2>2, <3>3 DEF OnItsWay, ResultOnItsWay
  <2> QED
    BY <1>0, <2>1, <2>2 DEF Built
<1>4. system # "poster" /\ outcomes \subseteq outcomes'
  BY <1>1, QueueNames
<1> HIDE DEF actions
<1> QED
  BY <1>1, <1>3, <1>4, DeliveryFollowed

\* The poster plans the check of a result it takes.
LEMMA PosterFollowed ==
  ASSUME Inv, Followed, PosterTakesMessage
  PROVE  Followed'
<1> PICK msg : msg = Head(queue["build-results"])
  OBVIOUS
<1> DEFINE actions == PosterActions(msg)
<1>1. Deliver("poster", actions) /\ outcomes' = outcomes /\ "poster" \in Workers
  BY WorkerInbox DEF PosterTakesMessage, Waiting
<1>2. todo'["poster"] = actions
  BY <1>1, Frame DEF Deliver
<1>3. ASSUME NEW job \in Jobs, NEW system \in Systems, NEW ending \in Built(job),
             msg = BuildResult(job, system, ending), unacked'["poster"] = <<msg>>
      PROVE  OnItsWay(job, system)'
  <2>1. msg.type = "BuildResult"
    <3>1. \A j, s, e : BuildResult(j, s, e).type = "BuildResult"
      BY DEF BuildResult
    <3> QED
      BY <1>3, <3>1
  <2>2. actions = <<ResultCheck(msg), Ack>>
    BY <2>1 DEF PosterActions
  <2>3. 1 \in DOMAIN actions /\ actions[1] = ResultCheck(msg)
    BY <2>2
  <2> HIDE DEF actions
  <2>4. Holds("poster", msg, ResultCheck(msg))'
    BY <1>2, <1>3, <2>3 DEF Holds, Plans
  <2> QED
    BY <1>3, <2>4 DEF OnItsWay, ResultOnItsWay
<1>4. "poster" \notin Systems
  BY QueueNames
<1> HIDE DEF actions
<1> QED
  BY <1>1, <1>3, <1>4, DeliveryFollowed

-----------------------------------------------------------------------------

\* What a worker has yet to do is its next action, or remains to be done.
LEMMA PlansTail ==
  ASSUME Inv, NEW w \in Workers, todo[w] # <<>>, todo' = [todo EXCEPT ![w] = Tail(todo[w])],
         NEW v \in Workers, NEW a, Plans(v, a)
  PROVE  Plans(v, a)' \/ (v = w /\ a = Head(todo[w]))
<1>1. CASE v # w
  <2>1. todo'[v] = todo[v]
    BY <1>1, Frame
  <2> QED
    BY <2>1 DEF Plans
<1>2. CASE v = w
  <2> PICK s : s = todo[w]
    OBVIOUS
  <2>1. todo'[v] = Tail(s) /\ s # <<>> /\ s \in Seq(Actions)
    BY <1>2, Frame
  <2>2. PICK i \in DOMAIN s : s[i] = a
    BY <1>2 DEF Plans
  <2>3. CASE i = 1
    BY <1>2, <2>1, <2>2, <2>3
  <2>4. CASE i # 1
    <3>1. i - 1 \in DOMAIN Tail(s) /\ Tail(s)[i - 1] = s[i]
      BY <2>1, <2>2, <2>4
    <3> QED
      BY <2>1, <2>2, <3>1 DEF Plans
  <2> QED
    BY <2>3, <2>4
<1> QED
  BY <1>1, <1>2

\* An action is done that is no Ack: what was held is held, or it was done.
LEMMA HoldsTail ==
  ASSUME Inv, NEW w \in Workers, todo[w] # <<>>, todo' = [todo EXCEPT ![w] = Tail(todo[w])],
         unacked' = unacked, NEW v \in Workers, NEW m, NEW a, Holds(v, m, a)
  PROVE  Holds(v, m, a)' \/ (v = w /\ a = Head(todo[w]))
BY PlansTail DEF Holds

\* The kinds of the actions that are told apart here.
LEMMA Kinds ==
  /\ Ack.do = "ack"
  /\ \A q, m : /\ Publish(q, m).do = "publish" /\ Publish(q, m).queue = q
               /\ Publish(q, m).msg = m
  /\ \A result : ResultCheck(result).do = "post"
BY DEF Ack, Publish, ResultCheck, Post

\* When what waits stays, when what is held stays or is done, and when what was
\* done leads on, a job is followed.
LEMMA FollowedStep ==
  ASSUME Inv, Followed, outcomes \subseteq outcomes', refused \subseteq refused',
         \A name \in DOMAIN checks : /\ name \in DOMAIN checks'
                                     /\ \A n \in DOMAIN checks[name] :
                                          n \in DOMAIN checks'[name] /\ checks'[name][n] = checks[name][n],
         \A q \in Queues : \A m : InQueue(q, m) => InQueue(q, m)',
         \A job \in Jobs, system \in Systems : \A ending \in Built(job) :
            LET result == BuildResult(job, system, ending) IN
            /\ Holds(system, job, Publish("build-results", result)) =>
                  OnItsWay(job, system)' \/ Over(job, system)'
            /\ Holds("poster", result, ResultCheck(result)) =>
                  OnItsWay(job, system)' \/ Over(job, system)',
         \A s \in sent' \ sent : OnItsWay(s[1], s[2])'
  PROVE  Followed'
<1>1. ASSUME NEW s \in sent PROVE OnItsWay(s[1], s[2])' \/ Over(s[1], s[2])'
  <2> PICK job, system : job = s[1] /\ system = s[2]
    OBVIOUS
  <2>1. job \in Jobs /\ system \in Systems
    BY Frame
  <2>2. CASE Over(job, system)
    BY <2>2, OverStays
  <2>3. CASE InQueue(system, job)
    BY <2>1, <2>3, QueueNames DEF OnItsWay
  <2>4. CASE \E ending \in Built(job) : ResultOnItsWay(job, system, BuildResult(job, system, ending))
    <3>1. PICK ending \in Built(job) : ResultOnItsWay(job, system, BuildResult(job, system, ending))
      BY <2>4
    <3>2. CASE InQueue("build-results", BuildResult(job, system, ending))
      <4>1. InQueue("build-results", BuildResult(job, system, ending))'
        BY <3>2, QueueNames
      <4> QED
        BY <4>1 DEF OnItsWay, ResultOnItsWay
    <3>3. CASE Holds(system, job, Publish("build-results", BuildResult(job, system, ending)))
      BY <2>1, <3>3
    <3>4. CASE Holds("poster", BuildResult(job, system, ending), ResultCheck(BuildResult(job, system, ending)))
      BY <2>1, <3>4
    <3> QED
      BY <3>1, <3>2, <3>3, <3>4 DEF ResultOnItsWay
  <2> QED
    BY <2>2, <2>3, <2>4 DEF Followed, OnItsWay
<1> QED
  BY <1>1 DEF Followed

-----------------------------------------------------------------------------

\* DoPublish: what is published waits, and a job that is sent does.
LEMMA PublishFollowed ==
  ASSUME Inv, Followed, NEW w \in Workers, DoPublish(w)
  PROVE  Followed'
<1> PICK q, m : q = Head(todo[w]).queue /\ m = Head(todo[w]).msg
  OBVIOUS
<1>1. /\ todo[w] # <<>> /\ Head(todo[w]).do = "publish"
      /\ todo' = [todo EXCEPT ![w] = Tail(todo[w])]
      /\ queue' = [queue EXCEPT ![q] = Append(queue[q], m)]
      /\ sent' = IF q \in Systems THEN sent \cup {<<m, q>>} ELSE sent
      /\ unacked' = unacked /\ checks' = checks /\ outcomes' = outcomes /\ refused' = refused
  BY DEF DoPublish, Does
<1>2. q \in Queues /\ m \in AllMessages
  BY <1>1, FirstAction DEF Sound, Publication
<1>3. ASSUME NEW p \in Queues, NEW x, InQueue(p, x) PROVE InQueue(p, x)'
  <2>1. queue'[p] = queue[p] \/ queue'[p] = Append(queue[p], m)
    BY <1>1, Frame
  <2> PICK s : s = queue[p]
    OBVIOUS
  <2>2. s \in Seq(AllMessages) /\ \E n \in DOMAIN s : s[n] = x
    BY <1>3, Frame DEF InQueue
  <2>3. \E n \in DOMAIN Append(s, m) : Append(s, m)[n] = x
    BY <1>2, <2>2, AppendHas
  <2> QED
    BY <2>1, <2>2, <2>3 DEF InQueue
<1>4. InQueue(q, m)'
  <2>0. PICK s : s = queue[q]
    OBVIOUS
  <2>1. queue'[q] = Append(s, m) /\ s \in Seq(AllMessages)
    BY <1>1, <1>2, <2>0, Frame
  <2>2. Len(s) + 1 \in DOMAIN Append(s, m) /\ Append(s, m)[Len(s) + 1] = m
    <3>1. s \in Seq(AllMessages) /\ m \in AllMessages
      BY <1>2, <2>1
    <3> QED
      BY <3>1, AppendHas
  <2> QED
    BY <2>1, <2>2 DEF InQueue
<1>5. ASSUME NEW job \in Jobs, NEW system \in Systems, NEW ending \in Built(job),
             NEW result, result = BuildResult(job, system, ending)
      PROVE  /\ Holds(system, job, Publish("build-results", result)) => OnItsWay(job, system)'
             /\ Holds("poster", result, ResultCheck(result)) => OnItsWay(job, system)'
  <2>1. ASSUME Holds(system, job, Publish("build-results", result)) PROVE OnItsWay(job, system)'
    <3>1. \/ Holds(system, job, Publish("build-results", result))'
          \/ Publish("build-results", result) = Head(todo[w])
      BY <1>1, <2>1, WorkerInbox, HoldsTail
    <3>2. Publish("build-results", result) = Head(todo[w]) => InQueue("build-results", result)'
      BY <1>4, Kinds
    <3> QED
      BY <1>5, <3>1, <3>2 DEF OnItsWay, ResultOnItsWay
  <2>2. ASSUME Holds("poster", result, ResultCheck(result)) PROVE OnItsWay(job, system)'
    <3>1. \/ Holds("poster", result, ResultCheck(result))'
          \/ ResultCheck(result) = Head(todo[w])
      BY <1>1, <2>2, WorkerInbox, HoldsTail
    <3>2. ResultCheck(result) # Head(todo[w])
      BY <1>1, Kinds
    <3> QED
      BY <1>5, <3>1, <3>2 DEF OnItsWay, ResultOnItsWay
  <2> QED
    BY <2>1, <2>2
<1>6. ASSUME NEW s \in sent' \ sent PROVE OnItsWay(s[1], s[2])'
  <2>1. s = <<m, q>>
    BY <1>1, <1>6
  <2>2. s[1] = m /\ s[2] = q
    BY <2>1
  <2> QED
    BY <1>4, <2>2 DEF OnItsWay
<1> QED
  BY <1>1, <1>3, <1>5, <1>6, FollowedStep

\* DoAck: an Ack comes last, nothing else was still to be done.
LEMMA AckFollowed ==
  ASSUME Inv, Followed, NEW w \in Workers, DoAck(w)
  PROVE  Followed'
<1>1. /\ todo[w] # <<>> /\ Head(todo[w]).do = "ack"
      /\ todo' = [todo EXCEPT ![w] = Tail(todo[w])] /\ unacked' = [unacked EXCEPT ![w] = <<>>]
      /\ UNCHANGED <<queue, checks, outcomes, sent, refused>>
  BY DEF DoAck, Does
<1>2. todo[w] \in Seq(Actions) /\ Len(todo[w]) = 1 /\ Head(todo[w]) = todo[w][1]
  BY <1>1, FirstAction DEF Sound
<1>3. ASSUME NEW v \in Workers, NEW m, NEW a, Holds(v, m, a), a.do # "ack"
      PROVE  Holds(v, m, a)'
  <2>1. v # w
    <3> SUFFICES ASSUME v = w PROVE FALSE
      OBVIOUS
    <3>1. PICK i \in DOMAIN todo[w] : todo[w][i] = a
      BY <1>3 DEF Holds, Plans
    <3>2. i = 1
      BY <1>2, <3>1
    <3> QED
      BY <1>1, <1>2, <1>3, <3>1, <3>2
  <2>2. todo'[v] = todo[v] /\ unacked'[v] = unacked[v]
    BY <1>1, <2>1, Frame
  <2> QED
    BY <1>3, <2>2 DEF Holds, Plans
<1>4. ASSUME NEW job \in Jobs, NEW system \in Systems, NEW ending \in Built(job),
             NEW result, result = BuildResult(job, system, ending)
      PROVE  /\ Holds(system, job, Publish("build-results", result)) => OnItsWay(job, system)'
             /\ Holds("poster", result, ResultCheck(result)) => OnItsWay(job, system)'
  BY <1>3, <1>4, WorkerInbox, Kinds DEF OnItsWay, ResultOnItsWay
<1>5. \A q \in Queues : \A m : InQueue(q, m) => InQueue(q, m)'
  BY <1>1 DEF InQueue
<1> QED
  BY <1>1, <1>4, <1>5, FollowedStep

\* What the check of a result says, and under which name.
LEMMA ResultCheckSays ==
  ASSUME NEW job \in Jobs, NEW system \in Systems, NEW ending \in Built(job)
  PROVE  LET result == BuildResult(job, system, ending) IN
         /\ ResultCheck(result).name = CheckName(job, system)
         /\ ResultCheck(result).check.job = job /\ ResultCheck(result).check.state = "completed"
<1> PICK result : result = BuildResult(job, system, ending)
  OBVIOUS
<1>1. /\ result.attempted \cup result.skipped = ToSet(job.attrs)
      /\ result.system = system /\ result.job = job
  <2>1. ending \in Endings(job) /\ ending.status # "merge failed"
    BY DEF Built
  <2>2. ResultSays(job, system, ending, result)
    BY <2>1, ResultFacts
  <2> QED
    BY <2>1, <2>2 DEF ResultSays
<1>2. /\ ResultCheck(result).name = Name(result.attempted \cup result.skipped, result.system)
      /\ ResultCheck(result).check.job = result.job /\ ResultCheck(result).check.state = "completed"
  BY DEF ResultCheck, Post
<1> QED
  BY <1>1, <1>2 DEF CheckName

\* The poster is through with a result when there is a check, or GitHub has
\* refused it.
LEMMA PosterDone ==
  ASSUME Inv, Followed, NEW w \in Workers, todo[w] # <<>>, Head(todo[w]).do = "post",
         todo' = [todo EXCEPT ![w] = Tail(todo[w])],
         UNCHANGED <<queue, unacked, outcomes, sent>>, refused \subseteq refused',
         \A name \in DOMAIN checks : /\ name \in DOMAIN checks'
                                     /\ \A n \in DOMAIN checks[name] :
                                          n \in DOMAIN checks'[name] /\ checks'[name][n] = checks[name][n],
         \A job \in Jobs, system \in Systems :
            /\ Head(todo[w]).name = CheckName(job, system)
            /\ Head(todo[w]).check.job = job /\ Head(todo[w]).check.state = "completed"
            => Over(job, system)'
  PROVE  Followed'
<1>1. ASSUME NEW job \in Jobs, NEW system \in Systems, NEW ending \in Built(job),
             NEW result, result = BuildResult(job, system, ending)
      PROVE  /\ Holds(system, job, Publish("build-results", result)) =>
                   OnItsWay(job, system)' \/ Over(job, system)'
             /\ Holds("poster", result, ResultCheck(result)) =>
                   OnItsWay(job, system)' \/ Over(job, system)'
  <2>1. ASSUME Holds(system, job, Publish("build-results", result)) PROVE OnItsWay(job, system)'
    <3>1. \/ Holds(system, job, Publish("build-results", result))'
          \/ Publish("build-results", result) = Head(todo[w])
      BY <2>1, WorkerInbox, HoldsTail
    <3>2. Publish("build-results", result) # Head(todo[w])
      BY Kinds
    <3> QED
      BY <1>1, <3>1, <3>2 DEF OnItsWay, ResultOnItsWay
  <2>2. ASSUME Holds("poster", result, ResultCheck(result))
        PROVE  OnItsWay(job, system)' \/ Over(job, system)'
    <3>1. \/ Holds("poster", result, ResultCheck(result))'
          \/ ResultCheck(result) = Head(todo[w])
      BY <2>2, WorkerInbox, HoldsTail
    <3>2. ResultCheck(result) = Head(todo[w]) => Over(job, system)'
      BY <1>1, ResultCheckSays
    <3> QED
      BY <1>1, <3>1, <3>2 DEF OnItsWay, ResultOnItsWay
  <2> QED
    BY <2>1, <2>2
<1>2. \A q \in Queues : \A m : InQueue(q, m) => InQueue(q, m)'
  BY DEF InQueue
<1> QED
  BY <1>1, <1>2, FollowedStep

\* DoPost: a completed check is on GitHub.
LEMMA PostFollowed ==
  ASSUME Inv, Followed, NEW w \in Workers, DoPost(w)
  PROVE  Followed'
<1> PICK name, check : name = Head(todo[w]).name /\ check = Head(todo[w]).check
  OBVIOUS
<1>1. /\ todo[w] # <<>> /\ Head(todo[w]).do = "post"
      /\ todo' = [todo EXCEPT ![w] = Tail(todo[w])]
      /\ UNCHANGED <<queue, unacked, outcomes, sent, refused>>
      /\ checks' = [n \in DOMAIN checks \cup {name} |->
                      IF n = name THEN Append(PostsOf(n), check) ELSE checks[n]]
  BY DEF DoPost, Does
<1>2. PICK posts : posts = PostsOf(name)
  OBVIOUS
<1>3. check \in Checks
  <2>1. Sound(todo[w], 1) /\ todo[w][1].do = "post" /\ todo[w][1].check = check
    BY <1>1, FirstAction
  <2>2. check \in TrueChecks(todo[w][1].name)
    BY <2>1 DEF Sound
  <2> QED
    BY <2>2 DEF TrueChecks
<1>4. posts \in Seq(Checks)
  <2>1. CASE name \in DOMAIN checks
    <3>1. checks[name] \in Seq(TrueChecks(name)) /\ TrueChecks(name) \subseteq Checks
      BY <2>1 DEF Inv, TrueChecks
    <3>2. checks[name] \in Seq(Checks)
      BY <3>1, SeqsGrow
    <3>3. posts = checks[name]
      BY <1>2, <2>1 DEF PostsOf
    <3> QED
      BY <3>2, <3>3
  <2>2. CASE name \notin DOMAIN checks
    <3>1. posts = <<>>
      BY <1>2, <2>2 DEF PostsOf
    <3> QED
      BY <3>1, EmptySeq
  <2> QED
    BY <2>1, <2>2
<1>5. /\ name \in DOMAIN checks' /\ checks'[name] = Append(posts, check)
      /\ \A n \in DOMAIN checks \ {name} : n \in DOMAIN checks' /\ checks'[n] = checks[n]
  BY <1>1, <1>2
<1>6. /\ \A n \in DOMAIN posts : n \in DOMAIN Append(posts, check) /\ Append(posts, check)[n] = posts[n]
      /\ Len(posts) + 1 \in DOMAIN Append(posts, check) /\ Append(posts, check)[Len(posts) + 1] = check
  BY <1>3, <1>4, AppendHas
<1>7. ASSUME NEW n \in DOMAIN checks
      PROVE  /\ n \in DOMAIN checks'
             /\ \A i \in DOMAIN checks[n] : i \in DOMAIN checks'[n] /\ checks'[n][i] = checks[n][i]
  <2>1. CASE n = name
    <3>1. posts = checks[n]
      BY <1>2, <2>1 DEF PostsOf
    <3>2. n \in DOMAIN checks' /\ checks'[n] = Append(posts, check)
      BY <1>5, <2>1
    <3>3. \A i \in DOMAIN posts : i \in DOMAIN Append(posts, check) /\ Append(posts, check)[i] = posts[i]
      BY <1>6
    <3> QED
      BY <3>1, <3>2, <3>3
  <2>2. CASE n # name
    BY <1>5, <2>2
  <2> QED
    BY <2>1, <2>2
<1>8. ASSUME NEW job \in Jobs, NEW system \in Systems,
             name = CheckName(job, system), check.job = job, check.state = "completed"
      PROVE  Over(job, system)'
  <2>1. Overtaken(checks'[name], job)
    BY <1>5, <1>6, <1>8 DEF Overtaken
  <2> QED
    BY <1>5, <1>8, <2>1 DEF Over
<1> QED
  BY <1>1, <1>7, <1>8, PosterDone

\* DoPostRefused: a completed check was refused.
LEMMA RefusalFollowed ==
  ASSUME Inv, Followed, NEW w \in Workers, DoPostRefused(w)
  PROVE  Followed'
<1>1. /\ todo[w] # <<>> /\ Head(todo[w]).do = "post"
      /\ todo' = [todo EXCEPT ![w] = Tail(todo[w])]
      /\ UNCHANGED <<queue, unacked, outcomes, sent, checks>>
      /\ refused' = refused \cup {<<Head(todo[w]).name, Head(todo[w]).check>>}
  BY DEF DoPostRefused, Does
<1> PICK name, check : name = Head(todo[w]).name /\ check = Head(todo[w]).check
  OBVIOUS
<1>2. ASSUME NEW job \in Jobs, NEW system \in Systems,
             name = CheckName(job, system), check.job = job, check.state = "completed"
      PROVE  Over(job, system)'
  <2>1. <<name, check>> \in refused' /\ <<name, check>>[1] = name /\ <<name, check>>[2] = check
    BY <1>1
  <2>2. RefusedResult(CheckName(job, system), job)'
    BY <1>2, <2>1 DEF RefusedResult
  <2> QED
    BY <2>2 DEF Over
<1> QED
  BY <1>1, <1>2, PosterDone

\* What a worker held when it died waits again.
LEMMA DeathFollowed ==
  ASSUME Inv, Followed, NEW w \in Workers, Die(w)
  PROVE  Followed'
<1> PICK q : q = Inbox(w)
  OBVIOUS
<1>1. /\ queue' = [queue EXCEPT ![q] = unacked[w] \o queue[q]]
      /\ unacked' = [unacked EXCEPT ![w] = <<>>] /\ todo' = [todo EXCEPT ![w] = <<>>]
      /\ UNCHANGED <<checks, outcomes, sent, refused>>
  BY DEF Die
<1>2. q \in Queues
  BY WorkerInbox
<1>0. PICK held, waits : held = unacked[w] /\ waits = queue[q]
  OBVIOUS
<1>3. held \in Seq(AllMessages) /\ waits \in Seq(AllMessages) /\ queue'[q] = held \o waits
  BY <1>0, <1>1, <1>2, Frame
<1>4. /\ \A n \in DOMAIN held : n \in DOMAIN (held \o waits) /\ (held \o waits)[n] = held[n]
      /\ \A n \in DOMAIN waits : /\ Len(held) + n \in DOMAIN (held \o waits)
                                 /\ (held \o waits)[Len(held) + n] = waits[n]
  <2>1. held \in Seq(AllMessages) /\ waits \in Seq(AllMessages)
    BY <1>3
  <2> QED
    BY <2>1, ConcatHas
<1>5. ASSUME NEW p \in Queues, NEW m, InQueue(p, m) PROVE InQueue(p, m)'
  <2>1. CASE p = q
    <3>1. PICK n \in DOMAIN waits : waits[n] = m
      BY <1>0, <1>5, <2>1 DEF InQueue
    <3>2. Len(held) + n \in DOMAIN queue'[p] /\ queue'[p][Len(held) + n] = m
      BY <1>3, <1>4, <2>1, <3>1
    <3> QED
      BY <3>2 DEF InQueue
  <2>2. CASE p # q
    <3>1. queue'[p] = queue[p]
      BY <1>1, <2>2, Frame
    <3> QED
      BY <1>5, <3>1 DEF InQueue
  <2> QED
    BY <2>1, <2>2
<1>6. ASSUME NEW v \in Workers, NEW m, NEW a, Holds(v, m, a)
      PROVE  Holds(v, m, a)' \/ (v = w /\ InQueue(q, m)')
  <2>1. CASE v = w
    <3>1. held = <<m>>
      BY <1>0, <1>6, <2>1 DEF Holds
    <3>2. 1 \in DOMAIN held /\ held[1] = m
      BY <3>1
    <3>3. 1 \in DOMAIN queue'[q] /\ queue'[q][1] = m
      BY <1>3, <1>4, <3>2
    <3> QED
      BY <2>1, <3>3 DEF InQueue
  <2>2. CASE v # w
    <3>1. unacked'[v] = unacked[v] /\ todo'[v] = todo[v]
      BY <1>1, <2>2, Frame
    <3> QED
      BY <1>6, <3>1 DEF Holds, Plans
  <2> QED
    BY <2>1, <2>2
<1>7. ASSUME NEW job \in Jobs, NEW system \in Systems, NEW ending \in Built(job),
             NEW result, result = BuildResult(job, system, ending)
      PROVE  /\ Holds(system, job, Publish("build-results", result)) => OnItsWay(job, system)'
             /\ Holds("poster", result, ResultCheck(result)) => OnItsWay(job, system)'
  <2>1. ASSUME Holds(system, job, Publish("build-results", result)) PROVE OnItsWay(job, system)'
    <3>1. Holds(system, job, Publish("build-results", result))' \/ InQueue(system, job)'
      BY <1>6, <2>1, WorkerInbox
    <3> QED
      BY <1>7, <3>1 DEF OnItsWay, ResultOnItsWay
  <2>2. ASSUME Holds("poster", result, ResultCheck(result)) PROVE OnItsWay(job, system)'
    <3>1. Holds("poster", result, ResultCheck(result))' \/ InQueue("build-results", result)'
      BY <1>6, <2>2, WorkerInbox
    <3> QED
      BY <1>7, <3>1 DEF OnItsWay, ResultOnItsWay
  <2> QED
    BY <2>1, <2>2
<1> QED
  BY <1>1, <1>5, <1>7, FollowedStep

\* Nothing happens.
LEMMA StutterFollowed ==
  ASSUME Inv, Followed, UNCHANGED vars
  PROVE  Followed'
<1>1. UNCHANGED <<queue, unacked, todo, checks, outcomes, sent, refused>>
  BY DEF vars
<1>2. \A q, m : InQueue(q, m) => InQueue(q, m)'
  BY <1>1 DEF InQueue
<1>3. \A v, m, a : Holds(v, m, a) => Holds(v, m, a)'
  BY <1>1 DEF Holds, Plans
<1>4. \A job \in Jobs, system \in Systems : \A ending \in Built(job) : \A result :
         result = BuildResult(job, system, ending) =>
            /\ Holds(system, job, Publish("build-results", result)) => OnItsWay(job, system)'
            /\ Holds("poster", result, ResultCheck(result)) => OnItsWay(job, system)'
  BY <1>3 DEF OnItsWay, ResultOnItsWay
<1> QED
  BY <1>1, <1>2, <1>4, FollowedStep

\* Every step follows the jobs.
LEMMA NextFollowed ==
  ASSUME Inv, Followed, [Next]_vars
  PROVE  Followed'
<1>1. CASE Take
  <2>1. ASSUME NEW found \in BOOLEAN, FilterTakesComment(found) PROVE Followed'
    BY <2>1, FilterFollowed DEF FilterTakesComment
  <2>2. CASE FilterTakesGarbage
    BY <2>2, FilterFollowed DEF FilterTakesGarbage
  <2>3. CASE PosterTakesMessage
    BY <2>3, PosterFollowed
  <2> QED
    BY <1>1, <2>1, <2>2, <2>3 DEF Take
<1>2. ASSUME NEW system \in Systems, NEW ending \in Endings(Waiting(system)),
         BuilderTakesJob(system, ending)
      PROVE  Followed'
  BY <1>2, BuilderFollowed
<1>3. ASSUME NEW w \in Workers, Act(w) PROVE Followed'
  <2>1. CASE DoPanic(w)
    BY <2>1, DeathFollowed DEF DoPanic
  <2> QED
    BY <1>3, <2>1, PublishFollowed, AckFollowed, PostFollowed, RefusalFollowed DEF Act
<1>4. ASSUME NEW w \in Workers, Crash(w) PROVE Followed'
  BY <1>4, DeathFollowed DEF Crash
<1>5. CASE UNCHANGED vars
  BY <1>5, StutterFollowed
<1> QED
  BY <1>1, <1>2, <1>3, <1>4, <1>5 DEF Next, BuilderTakes

\* When all is done nothing is on its way but jobs for systems without a builder.
LEMMA FollowedExplains ==
  ASSUME Inv, Followed
  PROVE  StuckChecksExplained
<1> SUFFICES ASSUME Quiet, NEW name \in DOMAIN checks, Last(checks[name]).state = "queued"
             PROVE  LET last == Last(checks[name]) IN
                    \/ Overtaken(checks[name], last.job)
                    \/ Unanswered(last.job, name.system)
                    \/ RefusedResult(name, last.job)
                    \/ \E n \in DOMAIN queue[name.system] : queue[name.system][n] = last.job
  BY DEF StuckChecksExplained
<1> PICK posts, last : posts = checks[name] /\ last = Last(posts)
  OBVIOUS
<1>1. last \in TrueChecks(name)
  <2>1. posts \in Seq(TrueChecks(name)) /\ posts # <<>>
    BY DEF Inv
  <2>2. last = posts[Len(posts)]
    BY DEF Last
  <2> QED
    BY <2>1, <2>2
<1> PICK job, system : job = last.job /\ system = name.system
  OBVIOUS
<1>2. <<job, system>> \in sent /\ name = Name(ToSet(job.attrs), system)
  BY <1>1 DEF TrueChecks
<1>3. CheckName(job, system) = name
  BY <1>2 DEF CheckName
<1>4. OnItsWay(job, system) \/ Over(job, system)
  BY <1>2 DEF Followed
<1>5. \A w \in Workers : unacked[w] = <<>>
  BY DEF Quiet, Idle
<1>6. queue["build-results"] = <<>>
  BY WorkerInbox DEF Quiet
<1>7. OnItsWay(job, system) => InQueue(system, job)
  <2>1. job \in Jobs /\ system \in Systems
    BY <1>2, Frame
  <2>2. \A m, a : ~Holds(system, m, a) /\ ~Holds("poster", m, a)
    <3>1. unacked[system] = <<>> /\ unacked["poster"] = <<>>
      BY <1>5, <2>1, WorkerInbox
    <3>2. \A m : <<m>> # <<>>
      OBVIOUS
    <3> QED
      BY <3>1, <3>2 DEF Holds
  <2>3. \A m : ~InQueue("build-results", m)
    BY <1>6 DEF InQueue
  <2> QED
    BY <2>2, <2>3 DEF OnItsWay, ResultOnItsWay
<1> QED
  BY <1>3, <1>4, <1>7 DEF Over, InQueue

\* Nothing was sent at first.
LEMMA InitFollowed == ASSUME Init PROVE Followed
BY DEF Init, Followed

\* Whatever dies, is redelivered or comes late: when all is done a check that
\* stays queued has been overtaken, was not answered, or refused, or its job
\* waits for a builder (githubcommentfilter.rs:131-146, build.rs:100-131,
\* githubcommentposter.rs:78-90).
THEOREM StuckExplained == Spec => []StuckChecksExplained
<1>1. Init => Inv /\ Followed
  BY Initially, InitFollowed
<1>2. Inv /\ Followed /\ [Next]_vars => (Inv /\ Followed)'
  BY NextKeepsInv, NextFollowed
<1>3. Inv /\ Followed => StuckChecksExplained
  BY FollowedExplains
<1> QED
  BY <1>1, <1>2, <1>3, PTL DEF Spec

-----------------------------------------------------------------------------
(* Jobs go where their authors may have them built, and to all such systems.  *)

\* The lists of the configuration, as the code and as the README have them.
LEMMA AllowedSystems ==
  \A user, repo : Architectures(user, repo) = Allowed(user, repo)
<1>1. ASSUME NEW user, NEW users
      PROVE  lower[user] \in Lowered(users) <=> \E u \in users : lower[u] = lower[user]
  BY DEF Lowered
<1>2. ASSUME NEW user, NEW repo PROVE Architectures(user, repo) = Allowed(user, repo)
  <2>1. CASE lower[repo] = "nixos/nixpkgs"
    <3>1. CanBuildUnrestricted(user, repo) <=> \E t \in trusted_users : lower[t] = lower[user]
      BY <1>1, <2>1 DEF CanBuildUnrestricted
    <3>2. CanBuildRestricted(user, repo) <=> \E k \in known_users : lower[k] = lower[user]
      BY <1>1, <2>1 DEF CanBuildRestricted
    <3> QED
      BY <2>1, <3>1, <3>2 DEF Architectures, Allowed
  <2>2. CASE lower[repo] # "nixos/nixpkgs"
    BY <2>2 DEF Architectures, Allowed, CanBuildUnrestricted, CanBuildRestricted
  <2> QED
    BY <2>1, <2>2
<1> QED
  BY <1>2

\* An instruction goes to the systems of its author that can run it.
LEMMA DestinationsRange ==
  ASSUME NEW instruction, NEW systems \in SUBSET Systems
  PROVE  \A system :
           (\E d \in DOMAIN Destinations(instruction, systems) :
                Destinations(instruction, systems)[d] = system)
           <=> system \in systems /\ (instruction.kind = "NixOS" => system \in Linux)
<1> DEFINE right == {s \in systems : instruction.kind = "NixOS" => CanRunNixosTests(s)}
           Only(s) == IF s \in right THEN <<s>> ELSE <<>>
           Has(seq, x) == \E d \in DOMAIN seq : seq[d] = x
<1>1. Destinations(instruction, systems) =
        Only("x86_64-darwin") \o Only("x86_64-linux") \o Only("aarch64-linux")
  BY DEF Destinations
<1>2. \A s : s \in right <=> s \in systems /\ (instruction.kind = "NixOS" => s \in Linux)
  BY DEF CanRunNixosTests
<1>3. \A s \in right : s \in {"x86_64-darwin", "x86_64-linux", "aarch64-linux"}
  BY <1>2 DEF Systems, Linux
<1> HIDE DEF right
<1>4. \A s \in Systems : Only(s) \in Seq(Systems) /\ \A x : Has(Only(s), x) <=> s \in right /\ x = s
  <2> SUFFICES ASSUME NEW s \in Systems
               PROVE  Only(s) \in Seq(Systems) /\ \A x : Has(Only(s), x) <=> s \in right /\ x = s
    OBVIOUS
  <2>1. /\ <<s>> \in Seq(Systems) /\ DOMAIN <<s>> = {1} /\ <<s>>[1] = s
        /\ <<>> \in Seq(Systems) /\ DOMAIN <<>> = {}
    OBVIOUS
  <2>2. CASE s \in right
    BY <2>1, <2>2
  <2>3. CASE s \notin right
    BY <2>1, <2>3
  <2> QED
    BY <2>2, <2>3
<1> HIDE DEF Only
<1>5. ASSUME NEW s \in Seq(Systems), NEW t \in Seq(Systems), NEW x
      PROVE  Has(s \o t, x) <=> Has(s, x) \/ Has(t, x)
  <2>1. ASSUME NEW n \in DOMAIN s, s[n] = x PROVE Has(s \o t, x)
    BY <2>1, ConcatHas
  <2>2. ASSUME NEW n \in DOMAIN t, t[n] = x PROVE Has(s \o t, x)
    <3>1. Len(s) + n \in DOMAIN (s \o t) /\ (s \o t)[Len(s) + n] = x
      BY <2>2, ConcatHas
    <3> QED
      BY <3>1
  <2>3. ASSUME NEW k \in DOMAIN (s \o t), (s \o t)[k] = x PROVE Has(s, x) \/ Has(t, x)
    BY <2>3, ConcatHas
  <2> QED
    BY <2>1, <2>2, <2>3
<1>6. "x86_64-darwin" \in Systems /\ "x86_64-linux" \in Systems /\ "aarch64-linux" \in Systems
  BY DEF Systems, Linux
<1> PICK a, b, c : a = Only("x86_64-darwin") /\ b = Only("x86_64-linux") /\ c = Only("aarch64-linux")
  OBVIOUS
<1>7. a \in Seq(Systems) /\ b \in Seq(Systems) /\ c \in Seq(Systems) /\ a \o b \in Seq(Systems)
  <2>1. a \in Seq(Systems) /\ b \in Seq(Systems) /\ c \in Seq(Systems)
    BY <1>4, <1>6
  <2> QED
    BY <2>1, ConcatProperties
<1>8. ASSUME NEW x
      PROVE  Has(Destinations(instruction, systems), x) <=> x \in right
  <2> HIDE DEF Has
  <2>1. Has((a \o b) \o c, x) <=> Has(a, x) \/ Has(b, x) \/ Has(c, x)
    BY <1>5, <1>7
  <2>2. Has(a, x) \/ Has(b, x) \/ Has(c, x) <=> x \in right
    BY <1>3, <1>4, <1>6
  <2> QED
    BY <1>1, <2>1, <2>2
<1> QED
  BY <1>2, <1>8

\* A job, and what it takes for all systems to have it.
IsJob(a) == a.do = "publish" /\ a.queue \in Systems
Among(s, a) == \E i \in DOMAIN s : s[i] = a

\* Publications for a comment: the jobs of it are for the right systems, and
\* for all of them.
JobOf(c, s, a) ==
    /\ a.msg.request[1][1] = c /\ a.queue \in Right(a.msg)
    /\ \A system \in Right(a.msg) : Among(s, Publish(system, a.msg))
Parts(c) ==
    {s \in Seq(Actions) : \A i \in DOMAIN s :
        s[i].do = "publish" /\ (IsJob(s[i]) => JobOf(c, s, s[i]))}

\* Two such sequences make one.
LEMMA PartsJoin ==
  ASSUME NEW c, NEW s \in Parts(c), NEW t \in Parts(c)
  PROVE  s \o t \in Parts(c)
<1> DEFINE r == s \o t
<1>1. s \in Seq(Actions) /\ t \in Seq(Actions)
  BY DEF Parts
<1>2. r \in Seq(Actions)
  BY <1>1
<1>3. /\ \A a : Among(s, a) \/ Among(t, a) => Among(r, a)
      /\ \A k \in DOMAIN r : \/ k \in DOMAIN s /\ r[k] = s[k]
                             \/ \E n \in DOMAIN t : r[k] = t[n]
  <2>1. /\ \A n \in DOMAIN s : n \in DOMAIN r /\ r[n] = s[n]
        /\ \A n \in DOMAIN t : Len(s) + n \in DOMAIN r /\ r[Len(s) + n] = t[n]
        /\ \A k \in DOMAIN r : \/ k \in DOMAIN s /\ r[k] = s[k]
                               \/ \E n \in DOMAIN t : r[k] = t[n]
    BY <1>1, ConcatHas
  <2> HIDE DEF r
  <2> QED
    BY <2>1 DEF Among
<1> HIDE DEF r
<1>4. ASSUME NEW k \in DOMAIN r
      PROVE  r[k].do = "publish" /\ (IsJob(r[k]) => JobOf(c, r, r[k]))
  <2>1. CASE k \in DOMAIN s /\ r[k] = s[k]
    BY <1>3, <2>1 DEF Parts, JobOf
  <2>2. CASE \E n \in DOMAIN t : r[k] = t[n]
    BY <1>3, <2>2 DEF Parts, JobOf
  <2> QED
    BY <1>3, <2>1, <2>2
<1> QED
  BY <1>2, <1>4 DEF Parts, r

\* So is the empty sequence.
LEMMA NoParts == \A c : <<>> \in Parts(c)
<1>1. <<>> \in Seq(Actions) /\ DOMAIN <<>> = {}
  OBVIOUS
<1> QED
  BY <1>1 DEF Parts

\* The actions for an instruction.
LEMMA ActionsForParts ==
  ASSUME NEW c \in Nat, NEW died \in Nat, NEW n \in Nat, NEW instruction \in Instructions,
         NEW systems, systems = Allowed(Comments[c].user, Comments[c].repo)
  PROVE  ActionsFor(<<<<c, died>>, n>>, instruction, systems) \in Parts(c)
<1>0. <<<<c, died>>, n>> \in Requests /\ <<<<c, died>>, n>>[1][1] = c
  BY DEF Requests
<1>1. PICK r, archs, job : /\ r = <<<<c, died>>, n>> /\ archs = Destinations(instruction, systems)
                          /\ job = BuildJob(r, instruction)
  OBVIOUS
<1>2. ActionsFor(r, instruction, systems) \in Seq(Actions)
  BY <1>0, <1>1, ActionsForBlock DEF Blocks
<1>3. CASE instruction = Eval
  <2>1. PICK a : a = Publish("mass-rebuild-check-jobs", EvaluationJob)
    OBVIOUS
  <2>2. ActionsFor(r, instruction, systems) = <<a>>
    BY <1>3, <2>1 DEF ActionsFor
  <2>3. a.do = "publish" /\ ~IsJob(a)
    BY <2>1, Kinds, QueueNames DEF IsJob
  <2>4. DOMAIN <<a>> = {1} /\ <<a>>[1] = a
    OBVIOUS
  <2>5. <<a>> \in Parts(c)
    BY <1>2, <2>2, <2>3, <2>4 DEF Parts
  <2> QED
    BY <1>1, <2>2, <2>5
<1>4. CASE instruction # Eval
  <2>1. PICK p, last, s : /\ p = [d \in DOMAIN archs |-> Publish(archs[d], job)]
                          /\ last = Publish("build-results", QueuedBuildJobs(job, archs))
                          /\ s = Append(p, last)
    OBVIOUS
  <2>2. ActionsFor(r, instruction, systems) = s
    BY <1>1, <1>4, <2>1 DEF ActionsFor
  <2>3. archs \in Seq(Systems) /\ Len(archs) \in Nat /\ DOMAIN archs = 1..Len(archs)
    <3>1. archs \in Seq(Systems)
      BY <1>1, DestinationsType
    <3> QED
      BY <3>1
  <2>4. last.do = "publish" /\ ~IsJob(last)
    BY <2>1, Kinds, QueueNames DEF IsJob
  <2>5. ASSUME NEW d \in 1..Len(archs)
        PROVE  p[d] = Publish(archs[d], job) /\ p[d].do = "publish" /\ p[d].queue = archs[d] /\ p[d].msg = job
    <3>1. p[d] = Publish(archs[d], job)
      BY <2>1, <2>3
    <3> QED
      BY <3>1, Kinds
  <2> DEFINE S == {p[d] : d \in 1..Len(archs)} \cup {last}
  <2>6. p \in Seq(S) /\ Len(p) = Len(archs) /\ DOMAIN p = 1..Len(archs)
    <3>1. p = [d \in 1..Len(archs) |-> p[d]]
      BY <2>1, <2>3
    <3> QED
      BY <2>3, <3>1
  <2>7. last \in S
    OBVIOUS
  <2> HIDE DEF S
  <2>8. /\ \A d \in 1..Len(archs) : d \in DOMAIN s /\ s[d] = p[d]
        /\ \A k \in DOMAIN s : k \in 1..Len(archs) \/ s[k] = last
    <3>1. /\ s \in Seq(S) /\ Len(s) = Len(archs) + 1 /\ s[Len(archs) + 1] = last
          /\ \A d \in 1..Len(archs) : s[d] = p[d]
      BY <2>1, <2>6, <2>7, AppendProperties
    <3>2. DOMAIN s = 1..(Len(archs) + 1)
      BY <3>1
    <3>3. \A k \in 1..(Len(archs) + 1) : k \in 1..Len(archs) \/ k = Len(archs) + 1
      BY <2>3
    <3>4. 1..Len(archs) \subseteq 1..(Len(archs) + 1)
      BY <2>3
    <3> QED
      BY <3>1, <3>2, <3>3, <3>4
  <2>9. job.request[1][1] = c /\ job.subset = instruction.kind
    BY <1>0, <1>1 DEF BuildJob
  <2>10. \A system : system \in Right(job) <=> \E d \in 1..Len(archs) : archs[d] = system
    <3>1. Right(job) = IF instruction.kind = "NixOS" THEN systems \cap Linux ELSE systems
      BY <2>9 DEF Right
    <3>2. systems \in SUBSET Systems
      BY DEF Allowed, Systems
    <3>3. \A system : (\E d \in DOMAIN archs : archs[d] = system)
                      <=> system \in systems /\ (instruction.kind = "NixOS" => system \in Linux)
      BY <1>1, <3>2, DestinationsRange
    <3> QED
      BY <2>3, <3>1, <3>3
  <2>11. \A system \in Right(job) : Among(s, Publish(system, job))
    <3> SUFFICES ASSUME NEW system \in Right(job) PROVE Among(s, Publish(system, job))
      OBVIOUS
    <3>1. PICK d \in 1..Len(archs) : archs[d] = system
      BY <2>10
    <3>2. d \in DOMAIN s /\ s[d] = Publish(system, job)
      BY <2>5, <2>8, <3>1
    <3> QED
      BY <3>2 DEF Among
  <2>12. ASSUME NEW d \in 1..Len(archs)
         PROVE  s[d].do = "publish" /\ JobOf(c, s, s[d])
    <3>1. s[d].do = "publish" /\ s[d].queue = archs[d] /\ s[d].msg = job
      BY <2>5, <2>8
    <3>2. s[d].queue \in Right(job)
      BY <2>10, <3>1
    <3> QED
      BY <2>9, <2>11, <3>1, <3>2 DEF JobOf
  <2>13. s \in Seq(Actions)
    BY <1>2, <2>2
  <2>14. s \in Parts(c)
    BY <2>4, <2>8, <2>12, <2>13 DEF Parts
  <2> QED
    BY <1>1, <2>2, <2>14
<1> QED
  BY <1>3, <1>4

\* The answer of the filter.
LEMMA ResponseParts ==
  ASSUME NEW c \in DOMAIN Comments, DOMAIN Comments \subseteq Nat,
         Comments[c].body \in Seq(Seq(Words)), NEW found \in BOOLEAN, crashes \in Nat
  PROVE  \E s \in Parts(c) : Response(Event(c), found) = Append(s, Ack)
<1> PICK comment : comment = Event(c)
  OBVIOUS
<1>1. /\ comment.id = <<c, crashes>> /\ comment.body = Comments[c].body
      /\ comment.user = Comments[c].user /\ comment.repo = Comments[c].repo
  BY DEF Event
<1>2. Parts(c) \in SUBSET Seq(Actions)
  BY DEF Parts
<1>3. \A n \in Nat, instruction \in Instructions :
        ActionsFor(<<comment.id, n>>, instruction, Architectures(comment.user, comment.repo)) \in Parts(c)
  BY <1>1, AllowedSystems, ActionsForParts
<1>4. comment.body \in Seq(Seq(Words))
  BY <1>1
<1> PICK B : B = Parts(c)
  OBVIOUS
<1>5. /\ B \in SUBSET Seq(Actions) /\ <<>> \in B
      /\ \A s, t \in B : s \o t \in B
  BY <1>2, NoParts, PartsJoin
<1>6. \A n \in Nat, instruction \in Instructions :
        ActionsFor(<<comment.id, n>>, instruction, Architectures(comment.user, comment.repo)) \in B
  BY <1>3
<1>7. \E s \in B : Response(comment, found) = Append(s, Ack)
  <2> HIDE <1>1
  <2> QED
    BY <1>4, <1>5, <1>6, ResponseIn
<1> QED
  BY <1>7

\* The filter alone publishes jobs, those of a comment for the right systems;
\* until it dies it has sent a job to each of them, or still has it planned.
Told(job) ==
    \A system \in Right(job) : <<job, system>> \in sent \/ Plans("filter", Publish(system, job))
Complete ==
    /\ \A w \in Workers : \A a : Plans(w, a) /\ IsJob(a) =>
          /\ w = "filter" /\ a.queue \in Right(a.msg) /\ Told(a.msg)
          /\ \A b : Plans(w, b) => b.do # "panic"
    /\ \A s \in sent : s[2] \in Right(s[1]) /\ (crashes = 0 => Told(s[1]))

\* Who may build where does not change.
LEMMA RightStays == ASSUME day' = day PROVE \A job : Right(job)' = Right(job)
BY DEF Right, Comments, Allowed

\* To send a job to a system it may go to is to send a job.
LEMMA RightJobs ==
  \A job : \A system \in Right(job) : /\ IsJob(Publish(system, job))
                                      /\ Publish(system, job).queue = system
                                      /\ Publish(system, job).msg = job
<1>1. \A user, repo : Allowed(user, repo) \subseteq Systems
  BY DEF Allowed, Systems
<1>2. \A job : Right(job) \subseteq Systems
  BY <1>1 DEF Right
<1> QED
  BY <1>2, Kinds DEF IsJob

\* When no plan grows, and a job that is no longer planned was sent, or was
\* lost in a crash with all others.
LEMMA StepComplete ==
  ASSUME Inv, Complete, day' = day, sent \subseteq sent', crashes' = 0 => crashes = 0,
         \A w \in Workers : \A a : Plans(w, a)' => Plans(w, a),
         \/ \A a : Plans("filter", a) /\ IsJob(a) =>
               Plans("filter", a)' \/ <<a.msg, a.queue>> \in sent'
         \/ crashes' # 0 /\ \A a : ~Plans("filter", a)',
         \A s \in sent' \ sent : \E w \in Workers : \E a :
            Plans(w, a) /\ IsJob(a) /\ s[1] = a.msg /\ s[2] = a.queue
  PROVE  Complete'
<1>1. ASSUME NEW job, Told(job), crashes' = 0 \/ \E a : Plans("filter", a)'
      PROVE  Told(job)'
  <2>1. ASSUME NEW system \in Right(job)
        PROVE  (<<job, system>> \in sent \/ Plans("filter", Publish(system, job)))'
    BY <1>1, <2>1, RightJobs DEF Told
  <2> QED
    BY <2>1, RightStays DEF Told
<1>2. ASSUME NEW w \in Workers, NEW a, Plans(w, a)', IsJob(a)
      PROVE  /\ w = "filter" /\ a.queue \in Right(a.msg)' /\ Told(a.msg)'
             /\ \A b : Plans(w, b)' => b.do # "panic"
  <2>1. Plans(w, a)
    BY <1>2
  <2>2. /\ w = "filter" /\ a.queue \in Right(a.msg) /\ Told(a.msg)
        /\ \A b : Plans(w, b) => b.do # "panic"
    BY <1>2, <2>1 DEF Complete
  <2> QED
    BY <1>1, <1>2, <2>2, RightStays
<1>3. ASSUME NEW s \in sent', crashes' = 0 PROVE Told(s[1])'
  <2>1. Told(s[1])
    BY <1>3 DEF Complete
  <2> QED
    BY <1>1, <1>3, <2>1
<1>4. ASSUME NEW s \in sent' PROVE s[2] \in Right(s[1])'
  BY RightStays DEF Complete
<1>5. \A a : IsJob(a)' <=> IsJob(a)
  BY DEF IsJob
<1> QED
  BY <1>2, <1>3, <1>4, <1>5 DEF Complete

\* A plan for a delivery has the jobs of a comment for all the right systems,
\* or none.
LEMMA DeliveryComplete ==
  ASSUME Inv, Complete, NEW w \in Workers, NEW actions, Deliver(w, actions),
         \A i \in DOMAIN actions : IsJob(actions[i]) =>
            /\ w = "filter" /\ actions[i].queue \in Right(actions[i].msg)
            /\ \A system \in Right(actions[i].msg) : Among(actions, Publish(system, actions[i].msg))
            /\ \A j \in DOMAIN actions : actions[j].do # "panic"
  PROVE  Complete'
<1>1. /\ day' = day /\ sent' = sent /\ crashes' = crashes /\ todo[w] = <<>>
      /\ todo' = [todo EXCEPT ![w] = actions]
  BY DEF Deliver, Idle
<1>2. todo'[w] = actions /\ \A v \in Workers : v # w => todo'[v] = todo[v]
  BY <1>1, Frame
<1>3. \A a : ~Plans(w, a)
  BY <1>1 DEF Plans
<1>4. \A a : Plans(w, a)' <=> Among(actions, a)
  BY <1>2 DEF Plans, Among
<1>5. \A v \in Workers : \A a : v # w => (Plans(v, a)' <=> Plans(v, a))
  BY <1>2 DEF Plans
<1>6. ASSUME NEW job, Told(job) PROVE Told(job)'
  <2>1. \A a : Plans("filter", a) => Plans("filter", a)'
    BY <1>3, <1>5, WorkerInbox
  <2> QED
    BY <1>1, <1>6, <2>1, RightStays DEF Told
<1>7. ASSUME NEW a, Plans(w, a)', IsJob(a)
      PROVE  /\ w = "filter" /\ a.queue \in Right(a.msg) /\ Told(a.msg)'
             /\ \A b : Plans(w, b)' => b.do # "panic"
  <2>1. PICK i \in DOMAIN actions : actions[i] = a
    BY <1>4, <1>7 DEF Among
  <2>2. /\ w = "filter" /\ a.queue \in Right(a.msg)
        /\ \A system \in Right(a.msg) : Among(actions, Publish(system, a.msg))
        /\ \A j \in DOMAIN actions : actions[j].do # "panic"
    BY <1>7, <2>1
  <2>3. Told(a.msg)'
    BY <1>1, <1>4, <2>2, RightStays DEF Told
  <2> QED
    BY <1>4, <2>2, <2>3 DEF Among
<1>8. ASSUME NEW v \in Workers, v # w, NEW a, Plans(v, a)', IsJob(a)
      PROVE  /\ v = "filter" /\ a.queue \in Right(a.msg) /\ Told(a.msg)'
             /\ \A b : Plans(v, b)' => b.do # "panic"
  <2>1. Plans(v, a)
    BY <1>5, <1>8
  <2>2. /\ v = "filter" /\ a.queue \in Right(a.msg) /\ Told(a.msg)
        /\ \A b : Plans(v, b) => b.do # "panic"
    BY <1>8, <2>1 DEF Complete
  <2> QED
    BY <1>5, <1>6, <1>8, <2>2
<1>9. ASSUME NEW v \in Workers, NEW a, Plans(v, a)', IsJob(a)
      PROVE  /\ v = "filter" /\ a.queue \in Right(a.msg)' /\ Told(a.msg)'
             /\ \A b : Plans(v, b)' => b.do # "panic"
  BY <1>1, <1>7, <1>8, <1>9, RightStays
<1>10. ASSUME NEW s \in sent' PROVE s[2] \in Right(s[1])' /\ (crashes' = 0 => Told(s[1])')
  BY <1>1, <1>6, RightStays DEF Complete
<1>11. \A a : IsJob(a)' <=> IsJob(a)
  BY DEF IsJob
<1> QED
  BY <1>9, <1>10, <1>11 DEF Complete

\* A comment is answered with all jobs of it, and no panic.
LEMMA FilterComplete ==
  ASSUME Inv, Complete, NEW found \in BOOLEAN, FilterTakesComment(found)
  PROVE  Complete'
<1> PICK m : m = Head(queue["build-inputs"])
  OBVIOUS
<1>1. /\ queue["build-inputs"] # <<>> /\ m.type = "IssueComment"
      /\ Deliver("filter", Response(Event(m.comment), found))
  BY WorkerInbox DEF FilterTakesComment, Waiting
<1>2. m \in Events
  BY <1>1, QueueNames, HeadIsProper, ProperQueues
<1>3. Garbage.type = "Garbage"
  BY DEF Garbage
<1>4. m.comment \in DOMAIN Comments /\ Comments[m.comment].body \in Seq(Seq(Words))
  BY <1>1, <1>2, <1>3 DEF Events
<1>5. DOMAIN Comments \subseteq Nat
  BY DayAssumption DEF Inv, Comments
<1>6. PICK s \in Parts(m.comment) : Response(Event(m.comment), found) = Append(s, Ack)
  <2>1. crashes \in Nat
    BY DEF Inv
  <2> QED
    BY <1>4, <1>5, <2>1, ResponseParts
<1> PICK actions : actions = Append(s, Ack)
  OBVIOUS
<1>7. s \in Seq(Actions) /\ Ack \in Actions
  BY DEF Parts, Actions
<1>8. /\ \A n \in DOMAIN s : n \in DOMAIN actions /\ actions[n] = s[n]
      /\ \A k \in DOMAIN actions : k \in DOMAIN s \/ actions[k] = Ack
  <2>1. /\ Len(s) \in Nat /\ DOMAIN s = 1..Len(s) /\ DOMAIN actions = 1..(Len(s) + 1)
        /\ actions[Len(s) + 1] = Ack
    BY <1>7, AppendProperties
  <2>2. \A k \in 1..(Len(s) + 1) : k \in 1..Len(s) \/ k = Len(s) + 1
    BY <2>1
  <2>3. \A n \in DOMAIN s : n \in DOMAIN actions /\ actions[n] = s[n]
    BY <1>7, AppendHas
  <2> QED
    BY <2>1, <2>2, <2>3
<1>9. Ack.do # "panic" /\ ~IsJob(Ack)
  BY Kinds DEF IsJob
<1>10. \A j \in DOMAIN actions : actions[j].do # "panic"
  BY <1>8, <1>9 DEF Parts
<1>11. ASSUME NEW i \in DOMAIN actions, IsJob(actions[i])
       PROVE  /\ actions[i].queue \in Right(actions[i].msg)
              /\ \A system \in Right(actions[i].msg) : Among(actions, Publish(system, actions[i].msg))
  <2>1. i \in DOMAIN s /\ actions[i] = s[i]
    BY <1>8, <1>9, <1>11
  <2>2. JobOf(m.comment, s, s[i])
    BY <1>11, <2>1 DEF Parts
  <2>3. \A a : Among(s, a) => Among(actions, a)
    BY <1>8 DEF Among
  <2> QED
    BY <2>1, <2>2, <2>3 DEF JobOf
<1> QED
  BY <1>1, <1>6, <1>10, <1>11, WorkerInbox, DeliveryComplete

\* All other plans have no jobs.
LEMMA OthersComplete ==
  ASSUME Inv, Complete, NEW w \in Workers, NEW actions, Deliver(w, actions),
         \A i \in DOMAIN actions : ~IsJob(actions[i])
  PROVE  Complete'
BY DeliveryComplete

\* The filter that panics publishes nothing.
LEMMA GarbageComplete ==
  ASSUME Inv, Complete, FilterTakesGarbage
  PROVE  Complete'
<1>1. Deliver("filter", <<Panic>>)
  BY DEF FilterTakesGarbage, Panic
<1>2. DOMAIN <<Panic>> = {1} /\ <<Panic>>[1] = Panic /\ ~IsJob(Panic)
  BY DEF Panic, IsJob
<1> QED
  BY <1>1, <1>2, WorkerInbox, OthersComplete

\* The builder publishes results.
LEMMA BuilderComplete ==
  ASSUME Inv, Complete, NEW system \in Systems, NEW ending \in Endings(Waiting(system)),
         BuilderTakesJob(system, ending)
  PROVE  Complete'
<1> PICK job, actions : job = Waiting(system) /\ actions = BuilderActions(job, system, ending)
  OBVIOUS
<1>1. Deliver(system, actions)
  BY DEF BuilderTakesJob
<1> PICK a : a = Publish("build-results", BuildResult(job, system, ending))
  OBVIOUS
<1>2. ~IsJob(a) /\ ~IsJob(Ack)
  BY Kinds, QueueNames DEF IsJob
<1>3. actions = <<Ack>> \/ actions = <<a, Ack>>
  BY DEF BuilderActions
<1>4. ASSUME NEW i \in DOMAIN actions PROVE ~IsJob(actions[i])
  <2>1. actions[i] = a \/ actions[i] = Ack
    BY <1>3, <1>4
  <2> QED
    BY <1>2, <2>1
<1> QED
  BY <1>1, <1>4, WorkerInbox, OthersComplete

\* The poster publishes nothing.
LEMMA PosterComplete ==
  ASSUME Inv, Complete, PosterTakesMessage
  PROVE  Complete'
<1> PICK m, actions : m = Head(queue["build-results"]) /\ actions = PosterActions(m)
  OBVIOUS
<1>1. /\ queue["build-results"] # <<>> /\ Deliver("poster", actions)
  BY WorkerInbox DEF PosterTakesMessage, Waiting
<1>2. m \in AllMessages /\ TrueResult(m)
  BY <1>1, QueueNames, HeadIsProper, ProperQueues
<1>3. /\ ~IsJob(Ack) /\ ~IsJob(ResultCheck(m))
      /\ \A job, arch : ~IsJob(JobCheck(job, arch))
  <2>1. \A job, arch : JobCheck(job, arch).do = "post"
    BY DEF JobCheck, Post
  <2> QED
    BY <2>1, Kinds DEF IsJob
<1>4. CASE m.type = "QueuedBuildJobs"
  <2>1. m.architectures \in Seq(Systems)
    BY <1>2, <1>4 DEF TrueResult
  <2> PICK archs, job : archs = m.architectures /\ job = m.job
    OBVIOUS
  <2>0. PICK posts : posts = [a \in DOMAIN archs |-> JobCheck(job, archs[a])]
    OBVIOUS
  <2>2. actions = Append(posts, Ack)
    BY <1>1, <1>4, <2>0 DEF PosterActions
  <2> DEFINE S == {posts[a] : a \in 1..Len(archs)} \cup {Ack}
  <2>3. DOMAIN archs = 1..Len(archs) /\ Len(archs) \in Nat
    BY <2>1
  <2>4. posts \in Seq(S) /\ Len(posts) = Len(archs)
    <3>1. posts = [a \in 1..Len(archs) |-> posts[a]]
      BY <2>0, <2>3
    <3> QED
      BY <2>3, <3>1
  <2>5. Ack \in S /\ \A x \in S : ~IsJob(x)
    <3>1. ASSUME NEW a \in 1..Len(archs) PROVE ~IsJob(posts[a])
      BY <1>3, <2>0, <2>3
    <3> QED
      BY <1>3, <3>1
  <2> HIDE DEF S
  <2>6. actions \in Seq(S)
    <3>1. posts \in Seq(S) /\ Ack \in S
      BY <2>4, <2>5
    <3> QED
      BY <2>2, <3>1, AppendProperties
  <2>7. \A i \in DOMAIN actions : actions[i] \in S
    BY <2>6
  <2> QED
    BY <1>1, <2>5, <2>7, WorkerInbox, OthersComplete
<1>5. CASE m.type # "QueuedBuildJobs"
  <2> PICK a : a = ResultCheck(m)
    OBVIOUS
  <2>1. actions = <<Ack>> \/ actions = <<a, Ack>>
    BY <1>5 DEF PosterActions
  <2>2. ASSUME NEW i \in DOMAIN actions PROVE ~IsJob(actions[i])
    <3>1. actions[i] = a \/ actions[i] = Ack
      BY <2>1, <2>2
    <3> QED
      BY <1>3, <3>1
  <2> QED
    BY <1>1, <2>2, WorkerInbox, OthersComplete
<1> QED
  BY <1>4, <1>5

-----------------------------------------------------------------------------

\* A worker that does the first of its actions plans nothing new.
LEMMA PlansLess ==
  ASSUME Inv, NEW w \in Workers, todo[w] # <<>>, todo' = [todo EXCEPT ![w] = Tail(todo[w])]
  PROVE  \A v \in Workers : \A a : Plans(v, a)' => Plans(v, a)
<1> PICK s : s = todo[w]
  OBVIOUS
<1>1. s \in Seq(Actions) /\ s # <<>> /\ todo'[w] = Tail(s)
      /\ \A v \in Workers : v # w => todo'[v] = todo[v]
  BY Frame
<1>2. \A i \in DOMAIN Tail(s) : i + 1 \in DOMAIN s /\ Tail(s)[i] = s[i + 1]
  <2>1. s \in Seq(Actions) /\ s # <<>>
    BY <1>1
  <2> QED
    BY <2>1
<1>3. ASSUME NEW v \in Workers, NEW a, Plans(v, a)' PROVE Plans(v, a)
  <2>1. CASE v = w
    BY <1>1, <1>2, <1>3, <2>1 DEF Plans
  <2>2. CASE v # w
    BY <1>1, <1>3, <2>2 DEF Plans
  <2> QED
    BY <2>1, <2>2
<1> QED
  BY <1>3

\* An action that publishes no job leaves the jobs planned.
LEMMA DoneComplete ==
  ASSUME Inv, Complete, NEW w \in Workers, todo[w] # <<>>,
         todo' = [todo EXCEPT ![w] = Tail(todo[w])],
         day' = day, crashes' = crashes, sent \subseteq sent',
         \A s \in sent' \ sent : IsJob(Head(todo[w])) /\ s[1] = Head(todo[w]).msg /\ s[2] = Head(todo[w]).queue,
         IsJob(Head(todo[w])) => <<Head(todo[w]).msg, Head(todo[w]).queue>> \in sent'
  PROVE  Complete'
<1>1. \A v \in Workers : \A a : Plans(v, a)' => Plans(v, a)
  BY PlansLess
<1>2. \A a : Plans("filter", a) => Plans("filter", a)' \/ a = Head(todo[w])
  BY PlansTail, WorkerInbox
<1>3. Plans(w, Head(todo[w]))
  BY FirstAction, Frame DEF Plans
<1> QED
  BY <1>1, <1>2, <1>3, StepComplete

\* DoPublish: a job that is published is sent.
LEMMA PublishComplete ==
  ASSUME Inv, Complete, NEW w \in Workers, DoPublish(w)
  PROVE  Complete'
<1> PICK a : a = Head(todo[w])
  OBVIOUS
<1>1. /\ todo[w] # <<>> /\ a.do = "publish" /\ day' = day /\ crashes' = crashes
      /\ todo' = [todo EXCEPT ![w] = Tail(todo[w])]
      /\ sent' = IF a.queue \in Systems THEN sent \cup {<<a.msg, a.queue>>} ELSE sent
  BY DEF DoPublish, Does
<1>2. IsJob(a) <=> a.queue \in Systems
  BY <1>1 DEF IsJob
<1>3. \A s \in sent' \ sent : IsJob(a) /\ s[1] = a.msg /\ s[2] = a.queue
  BY <1>1, <1>2
<1> QED
  BY <1>1, <1>2, <1>3, DoneComplete

\* DoAck, DoPost and DoPostRefused send nothing.
LEMMA QuietComplete ==
  ASSUME Inv, Complete, NEW w \in Workers, DoAck(w) \/ DoPost(w) \/ DoPostRefused(w)
  PROVE  Complete'
<1>1. /\ todo[w] # <<>> /\ Head(todo[w]).do \in {"ack", "post"}
      /\ todo' = [todo EXCEPT ![w] = Tail(todo[w])]
      /\ day' = day /\ crashes' = crashes /\ sent' = sent
  BY DEF DoAck, DoPost, DoPostRefused, Does
<1>2. ~IsJob(Head(todo[w]))
  BY <1>1 DEF IsJob
<1> QED
  BY <1>1, <1>2, DoneComplete

\* The plans of a worker that dies are gone, all others stay.
LEMMA PlansDie ==
  ASSUME Inv, NEW w \in Workers, Die(w)
  PROVE  /\ \A a : ~Plans(w, a)'
         /\ \A v \in Workers : \A a : v # w => (Plans(v, a)' <=> Plans(v, a))
         /\ day' = day /\ sent' = sent
<1>1. todo' = [todo EXCEPT ![w] = <<>>] /\ day' = day /\ sent' = sent
  BY DEF Die
<1>2. DOMAIN <<>> = {}
  OBVIOUS
<1>3. todo'[w] = <<>> /\ \A v \in Workers : v # w => todo'[v] = todo[v]
  BY <1>1, Frame
<1> QED
  BY <1>1, <1>2, <1>3 DEF Plans

\* Crash: with the filter die the jobs it had planned, and that counts.
LEMMA CrashComplete ==
  ASSUME Inv, Complete, NEW w \in Workers, Crash(w)
  PROVE  Complete'
<1>1. Die(w) /\ crashes' = crashes + 1 /\ crashes \in Nat
  BY Frame, DayAssumption DEF Crash, Inv
<1>2. crashes' # 0
  BY <1>1
<1>3. /\ \A v \in Workers : \A a : Plans(v, a)' => Plans(v, a)
      /\ \/ \A a : Plans("filter", a) => Plans("filter", a)'
         \/ \A a : ~Plans("filter", a)'
  BY <1>1, PlansDie, WorkerInbox
<1> QED
  BY <1>1, <1>2, <1>3, PlansDie, StepComplete

\* DoPanic: no job is lost.
LEMMA PanicComplete ==
  ASSUME Inv, Complete, NEW w \in Workers, DoPanic(w)
  PROVE  Complete'
<1>1. Die(w) /\ crashes' = crashes /\ todo[w] # <<>> /\ Head(todo[w]).do = "panic"
  BY DEF DoPanic
<1>2. Plans(w, Head(todo[w]))
  BY <1>1, FirstAction, Frame DEF Plans
<1>3. \A a : Plans(w, a) => ~IsJob(a)
  BY <1>1, <1>2 DEF Complete
<1>4. /\ \A v \in Workers : \A a : Plans(v, a)' => Plans(v, a)
      /\ \A a : Plans("filter", a) /\ IsJob(a) => Plans("filter", a)'
  BY <1>1, <1>3, PlansDie, WorkerInbox
<1> QED
  BY <1>1, <1>4, PlansDie, StepComplete

\* Nothing happens.
LEMMA StutterComplete ==
  ASSUME Inv, Complete, UNCHANGED vars
  PROVE  Complete'
<1>1. day' = day /\ todo' = todo /\ sent' = sent /\ crashes' = crashes
  BY DEF vars
<1>2. \A w, a : Plans(w, a)' <=> Plans(w, a)
  BY <1>1 DEF Plans
<1> QED
  BY <1>1, <1>2, StepComplete

\* Every step keeps it.
LEMMA NextComplete ==
  ASSUME Inv, Complete, [Next]_vars
  PROVE  Complete'
<1>1. CASE Take
  BY <1>1, FilterComplete, GarbageComplete, PosterComplete DEF Take
<1>2. ASSUME NEW system \in Systems, NEW ending \in Endings(Waiting(system)),
         BuilderTakesJob(system, ending)
      PROVE  Complete'
  BY <1>2, BuilderComplete
<1>3. ASSUME NEW w \in Workers, Act(w) PROVE Complete'
  BY <1>3, PublishComplete, QuietComplete, PanicComplete DEF Act
<1>4. ASSUME NEW w \in Workers, Crash(w) PROVE Complete'
  BY <1>4, CrashComplete
<1>5. CASE UNCHANGED vars
  BY <1>5, StutterComplete
<1> QED
  BY <1>1, <1>2, <1>3, <1>4, <1>5 DEF Next, BuilderTakes

\* Nothing is planned or sent at first.
LEMMA InitComplete == ASSUME Init PROVE Complete
<1>1. \A w \in Workers : todo[w] = <<>>
  BY DEF Init
<1>2. \A w \in Workers : \A a : ~Plans(w, a)
  BY <1>1 DEF Plans
<1>3. sent = {}
  BY DEF Init
<1> QED
  BY <1>2, <1>3 DEF Complete

\* When all is done nothing is planned.
LEMMA CompleteIsRight ==
  ASSUME Complete
  PROVE  RightSystems
<1>1. Quiet => \A a : ~Plans("filter", a)
  BY WorkerInbox DEF Quiet, Idle, Plans
<1> QED
  BY <1>1 DEF Complete, Told, RightSystems

\* A job goes only to systems its author may use, as the README has it
\* (README.md:101-125, acl.rs), and when all is done to every one of them unless
\* something died, whatever the comment, the lists and the spelling of the
\* login (githubcommentfilter.rs:105-130).
THEOREM SystemsRight == Spec => []RightSystems
<1>1. Init => Inv /\ Complete
  BY Initially, InitComplete
<1>2. Inv /\ Complete /\ [Next]_vars => (Inv /\ Complete)'
  BY NextKeepsInv, NextComplete
<1>3. Complete => RightSystems
  BY CompleteIsRight
<1> QED
  BY <1>1, <1>2, <1>3, PTL DEF Spec
=============================================================================
