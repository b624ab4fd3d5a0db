---------------------------- MODULE PartsProofs -----------------------------
(***************************************************************************)
(* The labels of an evaluation are right for every list of nix-env, and     *)
(* with any number of evaluators and people at work on a pull request; and  *)
(* the parts that share no state with others do what they are for: the      *)
(* tagger for rebuilds, the writers of a log, the filter of events, the     *)
(* clients of the GitHub app and the counters.                              *)
(***************************************************************************)
EXTENDS Labels, Parts, FiniteSetTheorems, SequenceTheorems, WellFoundedInduction, TLAPS

-----------------------------------------------------------------------------
(* The RebuildTagger.                                                        *)

\* The attributes that are counted for a label.
Counted(rebuilt, topic) ==
    {a \in rebuilt : a.architecture = IF topic = "10.rebuild-linux" THEN "x86_64-linux"
                                                                    ELSE "x86_64-darwin"}

\* Every natural number has the ranges whose names tell the truth of it
\* (tagger.rs:212-230).
LEMMA BucketInRange ==
    ASSUME NEW n \in Nat
    PROVE  Bucket(n) = {range \in Ranges : InRange(range, n)}
<1>1. ASSUME NEW range \in Ranges
      PROVE  range \in Bucket(n) <=> InRange(range, n)
  <2>1. CASE range = "0"
    BY <2>1 DEF Bucket, InRange
  <2>2. CASE range = "1-10"
    BY <2>2 DEF Bucket, InRange
  <2>3. CASE range = "11-100"
    BY <2>3 DEF Bucket, InRange
  <2>4. CASE range = "101-500"
    BY <2>4 DEF Bucket, InRange
  <2>5. CASE range = "501+"
    BY <2>5 DEF Bucket, InRange
  <2>6. CASE range = "501-1000"
    BY <2>6 DEF Bucket, InRange
  <2>7. CASE range = "1001-2500"
    BY <2>7 DEF Bucket, InRange
  <2>8. CASE range = "2501-5000"
    BY <2>8 DEF Bucket, InRange
  <2>9. CASE range = "5001+"
    BY <2>9 DEF Bucket, InRange
  <2> QED
    BY <1>1, <2>1, <2>2, <2>3, <2>4, <2>5, <2>6, <2>7, <2>8, <2>9 DEF Ranges
<1>2. Bucket(n) \subseteq Ranges
  BY DEF Bucket, Ranges
<1> QED
  BY <1>1, <1>2

\* One range fits besides "501+" (tagger.rs:212-230).
LEMMA OneBucket ==
    ASSUME NEW n \in Nat
    PROVE  \E range \in Ranges \ {"501+"} : Bucket(n) \ {"501+"} = {range}
<1>1. CASE n > 5000
  BY <1>1 DEF Bucket, Ranges
<1>2. CASE n > 2500 /\ n <= 5000
  BY <1>2 DEF Bucket, Ranges
<1>3. CASE n > 1000 /\ n <= 2500
  BY <1>3 DEF Bucket, Ranges
<1>4. CASE n > 500 /\ n <= 1000
  BY <1>4 DEF Bucket, Ranges
<1>5. CASE n > 100 /\ n <= 500
  BY <1>5 DEF Bucket, Ranges
<1>6. CASE n > 10 /\ n <= 100
  BY <1>6 DEF Bucket, Ranges
<1>7. CASE n > 0 /\ n <= 10
  BY <1>7 DEF Bucket, Ranges
<1>8. CASE n = 0
  BY <1>8 DEF Bucket, Ranges
<1> QED
  BY <1>1, <1>2, <1>3, <1>4, <1>5, <1>6, <1>7, <1>8

\* Of every finite set of attributes the tagger puts on the labels whose ranges
\* contain the counts, and takes away all others (tagger.rs:151-230).
LEMMA RebuildTagsRight ==
    ASSUME NEW rebuilt, IsFiniteSet(rebuilt)
    PROVE  /\ RebuildTags(rebuilt).add =
                  {l \in RebuildPossible : InRange(l[2], Cardinality(Counted(rebuilt, l[1])))}
           /\ RebuildTags(rebuilt).remove = RebuildPossible \ RebuildTags(rebuilt).add
           /\ \A topic \in RebuildTopics :
                  /\ Cardinality(Counted(rebuilt, topic)) \in Nat
                  /\ \A range \in Ranges : <<topic, range>> \in RebuildTags(rebuilt).add
                         <=> range \in Bucket(Cardinality(Counted(rebuilt, topic)))
<1> DEFINE n(topic) == Cardinality(Counted(rebuilt, topic))
           onDarwin == {"10.rebuild-darwin"} \X Bucket(n("10.rebuild-darwin"))
           onLinux == {"10.rebuild-linux"} \X Bucket(n("10.rebuild-linux"))
           right == {l \in RebuildPossible : InRange(l[2], n(l[1]))}
<1>1. \A topic : n(topic) \in Nat
  <2> TAKE topic
  <2>1. IsFiniteSet(Counted(rebuilt, topic))
    BY FS_Subset DEF Counted
  <2> QED
    BY <2>1, FS_CardinalityType
<1>2. RebuildTags(rebuilt) = [add |-> onDarwin \cup onLinux, remove |-> RebuildPossible \ (onDarwin \cup onLinux)]
  BY DEF RebuildTags, Tags, Counted
<1> HIDE DEF n
<1>3. \A m \in Nat : \A range : range \in Bucket(m) <=> range \in Ranges /\ InRange(range, m)
  BY BucketInRange
<1>4. onDarwin \cup onLinux = right
  <2>1. ASSUME NEW l \in onDarwin \cup onLinux
        PROVE  l \in right
    BY <1>1, <1>3 DEF RebuildPossible, RebuildTopics
  <2>2. ASSUME NEW l \in right
        PROVE  l \in onDarwin \cup onLinux
    <3>1. /\ l = <<l[1], l[2]>> /\ l[1] \in RebuildTopics /\ l[2] \in Ranges
          /\ InRange(l[2], n(l[1]))
      BY DEF RebuildPossible
    <3> QED
      BY <3>1, <1>1, <1>3 DEF RebuildTopics
  <2> HIDE DEF onDarwin, onLinux, right
  <2> QED
    BY <2>1, <2>2
<1>5. ASSUME NEW topic \in RebuildTopics, NEW range \in Ranges
      PROVE  <<topic, range>> \in right <=> range \in Bucket(n(topic))
  BY <1>1, <1>3 DEF RebuildPossible
<1> HIDE DEF onDarwin, onLinux, right
<1>6. /\ RebuildTags(rebuilt).add = right
      /\ RebuildTags(rebuilt).remove = RebuildPossible \ right
  BY <1>2, <1>4
<1> QED
  BY <1>1, <1>5, <1>6 DEF n, right

\* The tagger was told of a finite set, and its labels are of that.
TagsOfAttrs == IsFiniteSet(attrs) /\ tags = RebuildTags(attrs)

\* The labels of the tagger are those of the attributes it was given, for as long as it runs.
LEMMA TagsOfAttrsInvariant == TaggerSpec => []TagsOfAttrs
<1>1. TaggerInit => TagsOfAttrs
  BY FS_EmptySet DEF TaggerInit, TagsOfAttrs
<1>2. TagsOfAttrs /\ [TaggerNext]_taggerVars => TagsOfAttrs'
  <2> SUFFICES ASSUME TagsOfAttrs, [TaggerNext]_taggerVars
               PROVE  TagsOfAttrs'
    OBVIOUS
  <2>1. CASE UNCHANGED taggerVars
    BY <2>1 DEF taggerVars, TagsOfAttrs
  <2>2. ASSUME NEW rebuilt \in Merges, ParseAttrs(rebuilt)
        PROVE  TagsOfAttrs'
    BY <2>2, MergesAssumption DEF ParseAttrs, TagsOfAttrs
  <2> QED
    BY <2>1, <2>2 DEF TaggerNext
<1> QED
  BY <1>1, <1>2, PTL DEF TaggerSpec

\* A total is the number of the attributes that are counted for it.
LEMMA TotalCounted ==
    \A topic \in RebuildTopics : Total[topic] = Cardinality(Counted(attrs, topic))
BY DEF Total, Rebuilds, Counted

\* For every finite set of rebuilt attributes the labels tell the truth
\* (tagger.rs:151-230).
THEOREM CountsTheorem == TaggerSpec => []CountsTellTheTruth
<1>1. TagsOfAttrs => CountsTellTheTruth
  <2> SUFFICES ASSUME TagsOfAttrs
               PROVE  CountsTellTheTruth
    OBVIOUS
  <2>1. \A l \in RebuildPossible : l[1] \in RebuildTopics
    BY DEF RebuildPossible
  <2> QED
    BY <2>1, RebuildTagsRight, TotalCounted
    DEF TagsOfAttrs, CountsTellTheTruth
<1> QED
  BY <1>1, TagsOfAttrsInvariant, PTL

\* For every finite set of rebuilt attributes each platform has one range
\* (tagger.rs:212-230).
THEOREM OneRangeTheorem == TaggerSpec => []OneRangeEach
<1>1. TagsOfAttrs => OneRangeEach
  <2> SUFFICES ASSUME TagsOfAttrs, NEW topic \in RebuildTopics
               PROVE  \E range \in Ranges \ {"501+"} :
                          {l \in tags.add : l[1] = topic /\ l[2] # "501+"} = {<<topic, range>>}
    BY DEF OneRangeEach
  <2> DEFINE n == Cardinality(Counted(attrs, topic))
  <2>1. /\ n \in Nat /\ tags.add \subseteq RebuildPossible
        /\ \A range \in Ranges : <<topic, range>> \in tags.add <=> range \in Bucket(n)
    BY RebuildTagsRight DEF TagsOfAttrs
  <2> HIDE DEF n
  <2>2. PICK range \in Ranges \ {"501+"} : Bucket(n) \ {"501+"} = {range}
    BY <2>1, OneBucket
  <2>3. <<topic, range>> \in tags.add
    BY <2>1, <2>2
  <2>4. ASSUME NEW l \in tags.add, l[1] = topic, l[2] # "501+"
        PROVE  l = <<topic, range>>
    <3>1. l = <<topic, l[2]>> /\ l[2] \in Ranges
      BY <2>1, <2>4 DEF RebuildPossible
    <3> QED
      BY <2>1, <2>2, <2>4, <3>1
  <2> QED
    BY <2>2, <2>3, <2>4
<1> QED
  BY <1>1, TagsOfAttrsInvariant, PTL

-----------------------------------------------------------------------------
(* The lists of nix-env.                                                     *)

\* A set of numbers that is not empty has a least one.
LEMMA Least ==
    ASSUME NEW T, T \subseteq Nat, T # {}
    PROVE  \E x \in T : \A y \in T : x <= y
<1>1. PICK x \in T : \A y \in T : ~(<<y, x>> \in OpToRel(<, Nat))
  BY NatLessThanWellFounded, WFMin
<1>2. ASSUME NEW y \in T PROVE x <= y
  <2> SUFFICES ASSUME y < x PROVE FALSE
    OBVIOUS
  <2>1. <<y, x>> \in Nat \X Nat /\ <<y, x>>[1] < <<y, x>>[2]
    OBVIOUS
  <2> QED
    BY <1>1, <2>1 DEF OpToRel
<1> QED
  BY <1>2

\* What one more line makes of the map.
Parsed(lines, map, n) ==
    IF WellFormed(lines[n]) THEN Insert(map, PackageArch(lines[n][1]), lines[n][2]) ELSE map

\* The maps of the first lines exist: a first number up to which they do not
\* would have a predecessor up to which they do.
LEMMA MapsExist ==
    ASSUME NEW lines, NEW n \in Nat
    PROVE  \E f : f = [i \in 0..n |-> IF i = 0 THEN <<>> ELSE Parsed(lines, f[i - 1], i)]
<1> DEFINE Upto(k) == \E f : f = [i \in 0..k |-> IF i = 0 THEN <<>> ELSE Parsed(lines, f[i - 1], i)]
           T == {k \in 0..n : ~Upto(k)}
<1> SUFFICES ASSUME ~Upto(n) PROVE FALSE
  OBVIOUS
<1>1. n \in T /\ T \subseteq Nat
  <2> HIDE DEF Upto
  <2> QED
    OBVIOUS
<1>2. PICK k \in T : \A j \in T : k <= j
  <2> HIDE DEF T
  <2> QED
    BY <1>1, Least
<1>3. k \in 0..n /\ ~Upto(k)
  OBVIOUS
<1>4. CASE k = 0
  <2> DEFINE f == [i \in 0..0 |-> <<>>]
  <2>1. f = [i \in 0..0 |-> IF i = 0 THEN <<>> ELSE Parsed(lines, f[i - 1], i)]
    OBVIOUS
  <2> QED
    BY <1>3, <1>4, <2>1
<1>5. CASE k # 0
  <2>1. k - 1 \in 0..n /\ k - 1 < k /\ k \in Nat
    BY <1>3, <1>5
  <2>2. Upto(k - 1)
    <3>1. ~(k <= k - 1)
      BY <2>1
    <3>2. k - 1 \notin T
      <4> HIDE DEF T
      <4> QED
        BY <1>2, <3>1
    <3> HIDE DEF Upto
    <3> QED
      BY <2>1, <3>2
  <2>3. PICK f : f = [i \in 0..(k - 1) |-> IF i = 0 THEN <<>> ELSE Parsed(lines, f[i - 1], i)]
    BY <2>2
  <2> DEFINE g == [i \in 0..k |-> IF i < k THEN f[i] ELSE Parsed(lines, f[k - 1], k)]
             h == [i \in 0..k |-> IF i = 0 THEN <<>> ELSE Parsed(lines, g[i - 1], i)]
  <2>4. ASSUME NEW i \in 0..k PROVE g[i] = h[i]
    <3>1. CASE i = k
      <4>0. k \in 0..k /\ ~(k < k)
        BY <2>1
      <4>1. g[k] = Parsed(lines, f[k - 1], k)
        BY <4>0
      <4>2. h[k] = Parsed(lines, g[k - 1], k)
        <5> HIDE DEF g
        <5> QED
          BY <1>5, <4>0
      <4>3. g[k - 1] = f[k - 1]
        BY <2>1
      <4> QED
        BY <3>1, <4>1, <4>2, <4>3
    <3>2. CASE i # k
      <4>1. i \in 0..(k - 1) /\ i < k
        BY <2>1, <3>2
      <4>2. g[i] = f[i]
        BY <4>1
      <4>3. f[i] = IF i = 0 THEN <<>> ELSE Parsed(lines, f[i - 1], i)
        BY <2>3, <4>1
      <4>4. h[i] = IF i = 0 THEN <<>> ELSE Parsed(lines, g[i - 1], i)
        OBVIOUS
      <4>5. i # 0 => g[i - 1] = f[i - 1]
        BY <2>1, <4>1
      <4> QED
        BY <4>2, <4>3, <4>4, <4>5
    <3> QED
      BY <3>1, <3>2
  <2>5. g = h
    BY <2>4
  <2> QED
    BY <1>3, <2>5
<1> QED
  BY <1>4, <1>5

\* The map of the first k lines has what these lines say, the later one of two.
Follows(lines, map, k) ==
    /\ \A key \in DOMAIN map : \E i \in 1..k :
           WellFormed(lines[i]) /\ key = PackageArch(lines[i][1]) /\ map[key] = lines[i][2]
    /\ \A i \in 1..k : WellFormed(lines[i]) => PackageArch(lines[i][1]) \in DOMAIN map

\* A line of the output is put down as nix-env printed it.
LEMMA ParsedFollows ==
    ASSUME NEW lines, NEW map, NEW k \in Nat \ {0}, Follows(lines, map, k - 1)
    PROVE  Follows(lines, Parsed(lines, map, k), k)
<1>1. k \in 1..k /\ 1..k = 1..(k - 1) \cup {k}
  OBVIOUS
<1>2. CASE ~WellFormed(lines[k])
  BY <1>1, <1>2 DEF Parsed, Follows
<1>3. CASE WellFormed(lines[k])
  <2> DEFINE key == PackageArch(lines[k][1])
             next == Parsed(lines, map, k)
  <2>1. next = [x \in {key} \cup DOMAIN map |-> IF x = key THEN lines[k][2] ELSE map[x]]
    BY <1>3 DEF Parsed, Insert
  <2> HIDE DEF next
  <2>2. ASSUME NEW x \in DOMAIN next
        PROVE  \E i \in 1..k :
                   WellFormed(lines[i]) /\ x = PackageArch(lines[i][1]) /\ next[x] = lines[i][2]
    <3>1. CASE x = key
      BY <1>1, <1>3, <2>1, <3>1
    <3>2. CASE x # key
      <4> HIDE DEF key
      <4>1. x \in DOMAIN map /\ next[x] = map[x]
        BY <2>1, <2>2, <3>2
      <4>2. PICK i \in 1..(k - 1) :
                WellFormed(lines[i]) /\ x = PackageArch(lines[i][1]) /\ map[x] = lines[i][2]
        BY <4>1 DEF Follows
      <4> QED
        BY <1>1, <4>1, <4>2
    <3> QED
      BY <3>1, <3>2
  <2>3. ASSUME NEW i \in 1..k, WellFormed(lines[i])
        PROVE  PackageArch(lines[i][1]) \in DOMAIN next
    <3>1. CASE i = k
      BY <2>1, <3>1
    <3>2. CASE i # k
      <4>1. PackageArch(lines[i][1]) \in DOMAIN map
        BY <1>1, <2>3, <3>2 DEF Follows
      <4> HIDE DEF key
      <4> QED
        BY <2>1, <4>1
    <3> QED
      BY <3>1, <3>2
  <2> QED
    BY <2>2, <2>3 DEF Follows, next
<1> QED
  BY <1>2, <1>3

\* What is parsed of a list says for each attribute what the lines said last.
LEMMA ParseLinesFollows ==
    ASSUME NEW lines, Len(lines) \in Nat
    PROVE  Follows(lines, ParseLines(lines), Len(lines))
<1> DEFINE n == Len(lines)
           map[i \in 0..n] == IF i = 0 THEN <<>>
                              ELSE IF WellFormed(lines[i])
                                   THEN Insert(map[i - 1], PackageArch(lines[i][1]), lines[i][2])
                                   ELSE map[i - 1]
<1>1. ParseLines(lines) = map[n]
  BY DEF ParseLines
<1>2. map = [i \in 0..n |-> IF i = 0 THEN <<>> ELSE Parsed(lines, map[i - 1], i)]
  <2>1. \E f : f = [i \in 0..n |-> IF i = 0 THEN <<>> ELSE Parsed(lines, f[i - 1], i)]
    <3> HIDE DEF n, map
    <3> QED
      BY MapsExist DEF n
  <2> HIDE DEF n
  <2> QED
    BY <2>1 DEF map, Parsed
<1>3. n \in Nat
  OBVIOUS
<1> HIDE DEF n, map
<1> DEFINE T == {k \in 0..n : ~Follows(lines, map[k], k)}
<1> SUFFICES ASSUME n \in T PROVE FALSE
  BY <1>1, <1>3 DEF n
<1>4. PICK k \in T : \A j \in T : k <= j
  <2>1. T \subseteq Nat /\ T # {}
    OBVIOUS
  <2> HIDE DEF T
  <2> QED
    BY <2>1, Least
<1>5. k \in 0..n /\ ~Follows(lines, map[k], k)
  OBVIOUS
<1>6. k # 0
  <2> SUFFICES ASSUME k = 0 PROVE FALSE
    OBVIOUS
  <2>1. map[0] = <<>>
    BY <1>2, <1>3
  <2> QED
    BY <1>5, <2>1 DEF Follows
<1>7. k - 1 \in 0..n /\ ~(k <= k - 1) /\ k \in Nat \ {0}
  BY <1>3, <1>5, <1>6
<1>8. Follows(lines, map[k - 1], k - 1)
  BY <1>4, <1>7
<1>9. map[k] = Parsed(lines, map[k - 1], k)
  BY <1>2, <1>5, <1>6
<1> QED
  BY <1>5, <1>7, <1>8, <1>9, ParsedFollows

\* What nix-env lists.
IsList(list) ==
    /\ list \in Seq(Seq(Seq(STRING)))
    /\ \A i, j \in DOMAIN list :
           WellFormed(list[i]) /\ WellFormed(list[j]) /\ list[i][1] = list[j][1] => i = j

\* A key stands for one attribute path.
LEMMA OneKey ==
    ASSUME NEW p \in Seq(STRING), NEW q \in Seq(STRING), Len(p) >= 2, Len(q) >= 2,
           PackageArch(p) = PackageArch(q)
    PROVE  p = q
<1> DEFINE front(s) == SubSeq(s, 1, Len(s) - 1)
<1>1. /\ front(p) = front(q)
      /\ p[Len(p)] = q[Len(q)]
  BY DEF PackageArch, Front, Last
<1>2. ASSUME NEW s \in Seq(STRING), Len(s) >= 2
      PROVE  /\ Len(front(s)) = Len(s) - 1 /\ Len(s) \in Nat
             /\ \A i \in 1..(Len(s) - 1) : s[i] = front(s)[i]
  <2>1. Len(s) \in Nat /\ 1 <= Len(s) - 1 /\ Len(s) - 1 - 1 + 1 = Len(s) - 1
    BY <1>2
  <2>2. \A i \in 1..(Len(s) - 1) : s[i] \in STRING
    BY <2>1
  <2>3. /\ Len(front(s)) = IF 1 <= Len(s) - 1 THEN Len(s) - 1 - 1 + 1 ELSE 0
        /\ \A i \in 1..(Len(s) - 1 - 1 + 1) : front(s)[i] = s[1 + i - 1]
    BY <2>1, <2>2, SubSeqProperties
  <2> HIDE DEF front
  <2> QED
    BY <2>1, <2>3
<1> HIDE DEF front
<1>3. Len(p) = Len(q) /\ Len(p) \in Nat
  <2>1. Len(front(p)) = Len(p) - 1 /\ Len(front(q)) = Len(q) - 1 /\ Len(p) \in Nat /\ Len(q) \in Nat
    BY <1>2
  <2> QED
    BY <1>1, <2>1
<1>4. \A i \in 1..Len(p) : p[i] = q[i]
  BY <1>1, <1>2, <1>3
<1> QED
  BY <1>3, <1>4, SeqEqual

\* A well-formed line.
LEMMA LineType ==
    ASSUME NEW list, IsList(list), NEW line \in Lines(list)
    PROVE  /\ line[1] \in Seq(STRING) /\ Len(line[1]) >= 2 /\ Len(line) = 2
           /\ line \in Seq(Seq(STRING))
<1>1. PICK i \in DOMAIN list : Len(list[i]) = 2 /\ Len(list[i][1]) > 1 /\ line = list[i]
  BY DEF Lines
<1>2. line \in Seq(Seq(STRING))
  BY <1>1 DEF IsList
<1>3. line[1] \in Seq(STRING)
  <2>1. Len(line) = 2 /\ 1 \in 1..2
    BY <1>1
  <2> QED
    BY <1>2, <2>1, ElementOfSeq
<1> QED
  BY <1>1, <1>2, <1>3

\* The lines of a list become its map (outpathdiff.rs).
LEMMA MapOfLines ==
    ASSUME NEW list, IsList(list)
    PROVE  /\ DOMAIN ParseLines(list) = {PackageArch(l[1]) : l \in Lines(list)}
           /\ \A l \in Lines(list) : ParseLines(list)[PackageArch(l[1])] = l[2]
<1> DEFINE map == ParseLines(list)
<1>1. Len(list) \in Nat /\ DOMAIN list = 1..Len(list)
  BY DEF IsList
<1>2. Follows(list, map, Len(list))
  BY <1>1, ParseLinesFollows
<1> HIDE DEF map
<1>3. ASSUME NEW i \in DOMAIN list
      PROVE  /\ WellFormed(list[i]) <=> Len(list[i]) = 2 /\ Len(list[i][1]) > 1
             /\ WellFormed(list[i]) => list[i] \in Lines(list)
  <2>1. list[i] \in Seq(Seq(STRING))
    BY DEF IsList
  <2>2. Len(list[i]) = 2 => Len(list[i][1]) \in Nat
    BY <2>1
  <2>3. WellFormed(list[i]) <=> Len(list[i]) = 2 /\ Len(list[i][1]) > 1
    BY <2>2 DEF WellFormed
  <2> QED
    BY <2>3 DEF Lines
<1>4. ASSUME NEW l \in Lines(list)
      PROVE  \E i \in DOMAIN list : WellFormed(list[i]) /\ l = list[i]
  BY <1>3 DEF Lines
<1>5. ASSUME NEW key \in DOMAIN map
      PROVE  \E l \in Lines(list) : key = PackageArch(l[1]) /\ map[key] = l[2]
  <2>1. PICK i \in 1..Len(list) :
            WellFormed(list[i]) /\ key = PackageArch(list[i][1]) /\ map[key] = list[i][2]
    BY <1>2 DEF Follows
  <2> QED
    BY <1>1, <1>3, <2>1
<1>6. ASSUME NEW l \in Lines(list)
      PROVE  PackageArch(l[1]) \in DOMAIN map
  BY <1>1, <1>2, <1>4 DEF Follows
<1>7. ASSUME NEW l \in Lines(list)
      PROVE  map[PackageArch(l[1])] = l[2]
  <2>1. PICK k \in Lines(list) :
            PackageArch(l[1]) = PackageArch(k[1]) /\ map[PackageArch(l[1])] = k[2]
    BY <1>5, <1>6
  <2>2. l[1] = k[1]
    BY <2>1, LineType, OneKey
  <2>3. PICK i \in DOMAIN list : WellFormed(list[i]) /\ l = list[i]
    BY <1>4
  <2>4. PICK j \in DOMAIN list : WellFormed(list[j]) /\ k = list[j]
    BY <1>4
  <2>5. i = j
    BY <2>2, <2>3, <2>4 DEF IsList
  <2> QED
    BY <2>1, <2>3, <2>4, <2>5
<1>8. DOMAIN map = {PackageArch(l[1]) : l \in Lines(list)}
  BY <1>5, <1>6
<1> QED
  BY <1>7, <1>8 DEF map

\* The lists of a head are lists.
LEMMA ContentLists ==
    ASSUME NEW h \in Heads
    PROVE  IsList(Content[h].before) /\ IsList(Content[h].after)
BY ContentAssumption DEF IsList

\* The lines a head has and its target does not.
NewLines(h) == Lines(Content[h].after) \ Lines(Content[h].before)

\* What is rebuilt is what has a new line (outpathdiff.rs).
LEMMA NewLinesAreRebuilt ==
    ASSUME NEW h \in Heads
    PROVE  Attrs[h] = {PackageArch(l[1]) : l \in NewLines(h)}
<1> DEFINE before == Content[h].before
           after == Content[h].after
           orig == ParseLines(before)
           cur == ParseLines(after)
<1>1. Attrs[h] = {key \in DOMAIN cur : key \in DOMAIN orig => cur[key] # orig[key]}
  BY DEF Attrs, Orig, Cur, CalculateRebuild
<1>2. /\ IsList(before) /\ IsList(after)
      /\ NewLines(h) = Lines(after) \ Lines(before)
  BY ContentLists DEF NewLines
<1> HIDE DEF before, after
<1>3. /\ DOMAIN orig = {PackageArch(l[1]) : l \in Lines(before)}
      /\ DOMAIN cur = {PackageArch(l[1]) : l \in Lines(after)}
      /\ \A l \in Lines(before) : orig[PackageArch(l[1])] = l[2]
      /\ \A l \in Lines(after) : cur[PackageArch(l[1])] = l[2]
  BY <1>2, MapOfLines
<1> HIDE DEF orig, cur
<1>4. ASSUME NEW key \in Attrs[h]
      PROVE  \E l \in NewLines(h) : key = PackageArch(l[1])
  <2>1. PICK l \in Lines(after) : key = PackageArch(l[1])
    BY <1>1, <1>3
  <2>2. l \notin Lines(before)
    BY <1>1, <1>3, <2>1
  <2> QED
    BY <1>2, <2>1, <2>2
<1>5. ASSUME NEW l \in NewLines(h)
      PROVE  PackageArch(l[1]) \in Attrs[h]
  <2>1. l \in Lines(after) /\ l \notin Lines(before)
    BY <1>2
  <2>2. PackageArch(l[1]) \in DOMAIN cur /\ cur[PackageArch(l[1])] = l[2]
    BY <1>3, <2>1
  <2>3. ASSUME PackageArch(l[1]) \in DOMAIN orig, orig[PackageArch(l[1])] = l[2]
        PROVE  FALSE
    <3>1. PICK k \in Lines(before) : PackageArch(l[1]) = PackageArch(k[1])
      BY <1>3, <2>3
    <3>2. l[1] = k[1]
      BY <1>2, <2>1, <3>1, LineType, OneKey
    <3>3. l[2] = k[2]
      BY <1>3, <2>3, <3>1
    <3>4. /\ l \in Seq(Seq(STRING)) /\ Len(l) = 2
          /\ k \in Seq(Seq(STRING)) /\ Len(k) = 2
      BY <1>2, <2>1, LineType
    <3>5. \A i \in 1..Len(l) : l[i] = k[i]
      BY <3>2, <3>3, <3>4
    <3>6. l = k
      BY <3>4, <3>5, SeqEqual
    <3> QED
      BY <2>1, <3>6
  <2> QED
    BY <1>1, <2>2, <2>3
<1> QED
  BY <1>4, <1>5

\* Only finitely many lines are new.
LEMMA NewLinesFinite ==
    ASSUME NEW h \in Heads
    PROVE  IsFiniteSet(NewLines(h))
<1> DEFINE list == Content[h].after
           I == {i \in DOMAIN list : list[i] \in NewLines(h)}
           line == [i \in I |-> list[i]]
<1>1. IsFiniteSet(I)
  <2>1. DOMAIN list = 1..Len(list) /\ Len(list) \in Nat
    BY ContentLists DEF IsList
  <2>2. IsFiniteSet(1..Len(list))
    <3>1. \A n \in Nat : n \in Int /\ 1 \in Int
      OBVIOUS
    <3>2. Len(list) \in Int /\ 1 \in Int
      BY <2>1, <3>1
    <3> HIDE DEF list
    <3> QED
      BY <3>2, FS_Interval
  <2> QED
    BY <2>1, <2>2, FS_Subset
<1>2. NewLines(h) \subseteq {list[i] : i \in DOMAIN list}
  BY DEF NewLines, Lines
<1> HIDE DEF list
<1>3. line \in Surjection(I, NewLines(h))
  BY <1>2 DEF Surjection
<1> QED
  BY <1>1, <1>3, FS_Surjection

\* As many attributes are counted as there are new lines of the platform
\* (outpathdiff.rs, tagger.rs:151-170).
LEMMA RebuiltCount ==
    ASSUME NEW h \in Heads, NEW topic
    PROVE  /\ IsFiniteSet(Attrs[h])
           /\ Cardinality(Counted(Attrs[h], topic)) =
                  Cardinality(Rebuilt(h, IF topic = "10.rebuild-linux" THEN "x86_64-linux"
                                                                       ELSE "x86_64-darwin"))
<1> DEFINE arch == IF topic = "10.rebuild-linux" THEN "x86_64-linux" ELSE "x86_64-darwin"
           new == NewLines(h)
           keyOf == [l \in new |-> PackageArch(l[1])]
           paths == Rebuilt(h, arch)
           key == [p \in paths |-> PackageArch(p)]
           counted == Counted(Attrs[h], topic)
<1>1. Attrs[h] = {PackageArch(l[1]) : l \in new}
  BY NewLinesAreRebuilt
<1>2. \A l \in new : l[1] \in Seq(STRING) /\ Len(l[1]) >= 2
  BY ContentLists, LineType DEF NewLines
<1>3. IsFiniteSet(new)
  BY NewLinesFinite
<1>4. paths = {l[1] : l \in {l \in new : Last(l[1]) = arch}}
  BY DEF Rebuilt, NewLines
<1>5. counted = {a \in Attrs[h] : a.architecture = arch}
  BY DEF Counted
<1> HIDE DEF new, arch, paths, counted
<1>6. keyOf \in Surjection(new, Attrs[h])
  BY <1>1 DEF Surjection
<1>7. IsFiniteSet(Attrs[h])
  BY <1>3, <1>6, FS_Surjection
<1>8. \A p : PackageArch(p).architecture = Last(p)
  BY DEF PackageArch
<1>9. key \in Bijection(paths, counted)
  <2>1. ASSUME NEW p \in paths
        PROVE  PackageArch(p) \in counted /\ p \in Seq(STRING) /\ Len(p) >= 2
    <3>1. PICK l \in new : Last(l[1]) = arch /\ p = l[1]
      BY <1>4
    <3>2. PackageArch(p) \in Attrs[h] /\ PackageArch(p).architecture = arch
      BY <1>1, <1>8, <3>1
    <3> QED
      BY <1>2, <1>5, <3>1, <3>2
  <2>2. \A p, q \in paths : PackageArch(p) = PackageArch(q) => p = q
    BY <2>1, OneKey
  <2>3. ASSUME NEW a \in counted
        PROVE  \E p \in paths : a = PackageArch(p)
    <3>1. PICK l \in new : a = PackageArch(l[1])
      BY <1>1, <1>5
    <3>2. Last(l[1]) = arch
      BY <1>5, <1>8, <3>1
    <3> QED
      BY <1>4, <3>1, <3>2
  <2>4. key \in Injection(paths, counted)
    BY <2>1, <2>2 DEF Injection, IsInjective
  <2>5. key \in Surjection(paths, counted)
    BY <2>1, <2>3 DEF Surjection
  <2> QED
    BY <2>4, <2>5 DEF Bijection
<1>10. IsFiniteSet(counted)
  BY <1>5, <1>7, FS_Subset
<1>11. Cardinality(paths) = Cardinality(counted)
  <2>1. key \in Injection(paths, counted) /\ key \in Surjection(paths, counted)
    BY <1>9 DEF Bijection
  <2> HIDE DEF key
  <2> QED
    BY <1>10, <2>1, FS_Injection
<1> QED
  BY <1>7, <1>11 DEF paths, counted, arch

-----------------------------------------------------------------------------
(* The labels.                                                               *)

PathLabels == {Plain(tag) : tag \in DOMAIN TagPaths}
AllLabels == Removable \cup {TopicDarwin, NewPackage, CleanUp, ByMaintainer}

\* The labels of a head, the one for a conflict among them.
Good(h) == Right[h] \cup (IF Content[h].conflict THEN {MergeConflict} ELSE {})

\* A plain label has its name.
LEMMA PlainName == \A name : Plain(name)[1] = name
<1>1. \A x, y : <<x, y>>[1] = x
  OBVIOUS
<1> QED
  BY <1>1, Zenon DEF Plain

\* A label is a pair.
LEMMA LabelPairs == \A label \in AllLabels : Len(label) = 2
<1>1. \A x, y : Len(<<x, y>>) = 2
  OBVIOUS
<1>2. \A name : Len(Plain(name)) = 2
  BY <1>1, Zenon DEF Plain
<1>3. \A label \in RebuildPossible : Len(label) = 2
  BY <1>1 DEF RebuildPossible
<1>4. \A label \in StdenvPossible : Len(label) = 2
  BY <1>2 DEF StdenvPossible, StdenvLabel
<1> QED
  BY <1>2, <1>3, <1>4
  DEF AllLabels, Removable, TopicDarwin, NewPackage, CleanUp, ByMaintainer, MergeConflict

\* The taggers do not know each other's labels.
LEMMA LabelsApart ==
    /\ Removable = PathLabels \cup {MergeConflict} \cup StdenvPossible \cup RebuildPossible
    /\ PathLabels \cap ({MergeConflict} \cup StdenvPossible \cup RebuildPossible) = {}
    /\ MergeConflict \notin StdenvPossible \cup RebuildPossible
    /\ StdenvPossible \cap RebuildPossible = {}
    /\ {TopicDarwin, NewPackage, CleanUp, ByMaintainer} \cap Removable = {}
    /\ ByMaintainer \notin {TopicDarwin, NewPackage, CleanUp}
<1>1. /\ MergeConflict[1] = "2.status: merge conflict" /\ TopicDarwin[1] = "6.topic: darwin"
      /\ NewPackage[1] = "8.has: package (new)" /\ CleanUp[1] = "8.has: clean-up"
      /\ ByMaintainer[1] = "11.by: package-maintainer"
  BY PlainName DEF MergeConflict, TopicDarwin, NewPackage, CleanUp, ByMaintainer
<1>2. \A label \in StdenvPossible :
          label[1] \in {"10.rebuild-linux-stdenv", "10.rebuild-darwin-stdenv"}
  BY PlainName DEF StdenvPossible, StdenvLabel
<1>3. \A label \in RebuildPossible : label[1] \in RebuildTopics
  BY DEF RebuildPossible
<1>4. \A label \in PathLabels : label[1] \in DOMAIN TagPaths
  BY PlainName DEF PathLabels
<1>5. Removable = PathLabels \cup {MergeConflict} \cup StdenvPossible \cup RebuildPossible
  BY DEF Removable, PathLabels
<1>6. \A label \in PathLabels \cup {MergeConflict} \cup StdenvPossible \cup RebuildPossible :
          label[1] \notin {"6.topic: darwin", "8.has: package (new)", "8.has: clean-up",
                           "11.by: package-maintainer"}
  BY <1>1, <1>2, <1>3, <1>4, TagPathsAssumption DEF RebuildTopics
<1>7. PathLabels \cap ({MergeConflict} \cup StdenvPossible \cup RebuildPossible) = {}
  BY <1>1, <1>2, <1>3, <1>4, TagPathsAssumption
<1>8. /\ MergeConflict \notin StdenvPossible \cup RebuildPossible
      /\ StdenvPossible \cap RebuildPossible = {}
  BY <1>1, <1>2, <1>3 DEF RebuildTopics
<1>9. ByMaintainer \notin {TopicDarwin, NewPackage, CleanUp}
  BY <1>1
<1>10. {TopicDarwin, NewPackage, CleanUp, ByMaintainer} \cap Removable = {}
  BY <1>1, <1>5, <1>6
<1> QED
  BY <1>5, <1>7, <1>8, <1>9, <1>10

\* Of the labels it knows, a tagger puts on those of the head and takes away
\* the others.
Tells(told, known, h) ==
    /\ told.add \subseteq AllLabels
    /\ told.add \cap Removable = Good(h) \cap known
    /\ told.remove = known \ Good(h)

\* The three parts of what is right for a head.
LEMMA RightParts ==
    ASSUME NEW h \in Heads
    PROVE  /\ Right[h] \cap RebuildPossible = OfRebuilds[h].add
           /\ Right[h] \cap StdenvPossible = OfStdenvs[h].add
           /\ Right[h] \cap PathLabels = OfPaths[h].add
           /\ Right[h] = OfRebuilds[h].add \cup OfStdenvs[h].add \cup OfPaths[h].add
<1>1. OfRebuilds[h].add = RightCounts(h)
  <2>1. OfRebuilds[h] = RebuildTags(Attrs[h])
    BY DEF OfRebuilds
  <2>2. RebuildTags(Attrs[h]).add =
            {l \in RebuildPossible : InRange(l[2], Cardinality(Counted(Attrs[h], l[1])))}
    BY RebuiltCount, RebuildTagsRight
  <2>3. \A l \in RebuildPossible : Cardinality(Counted(Attrs[h], l[1])) =
            Cardinality(Rebuilt(h, IF l[1] = "10.rebuild-linux" THEN "x86_64-linux" ELSE "x86_64-darwin"))
    BY RebuiltCount
  <2> QED
    BY <2>1, <2>2, <2>3 DEF RightCounts
<1>2. OfStdenvs[h].add = {StdenvLabel[s] : s \in {s \in StdenvSystems :
                              Content[h].stdenvBefore[s] # Content[h].stdenvAfter[s]}}
  BY DEF OfStdenvs, StdenvTags, StdenvsChanged, Tags
<1>3. OfPaths[h].add = {Plain(tag) : tag \in {t \in DOMAIN TagPaths : Content[h].paths \cap TagPaths[t] # {}}}
  BY DEF OfPaths, PathsTags, Tags
<1>4. Right[h] = OfRebuilds[h].add \cup OfStdenvs[h].add \cup OfPaths[h].add
  BY <1>1, <1>2, <1>3 DEF Right
<1>5. /\ OfRebuilds[h].add \subseteq RebuildPossible
      /\ OfStdenvs[h].add \subseteq StdenvPossible
      /\ OfPaths[h].add \subseteq PathLabels
  BY <1>1, <1>2, <1>3 DEF RightCounts, StdenvPossible, PathLabels
<1> QED
  BY <1>4, <1>5, LabelsApart

\* What each tagger asks for is within the labels it can tell of, and right.
LEMMA TaggersTell ==
    ASSUME NEW h \in Heads
    PROVE  /\ Tells(OfPaths[h], PathLabels, h)
           /\ Tells(OfStdenvs[h], StdenvPossible, h)
           /\ Tells(OfRebuilds[h], RebuildPossible, h)
           /\ Tells(OfPackages[h], {}, h)
           /\ Tells(OfMaintainers[h], {}, h)
           /\ Tells(Tags({TopicDarwin}, {}), {}, h)
           /\ Content[h].conflict => Tells(Tags({MergeConflict}, {}), {MergeConflict}, h)
           /\ ~Content[h].conflict => Tells(Tags({}, {MergeConflict}), {MergeConflict}, h)
<1>1. OfPaths[h].remove = PathLabels \ OfPaths[h].add
  <2>1. \A s, t \in DOMAIN TagPaths : Plain(s) = Plain(t) => s = t
    BY PlainName
  <2>2. OfPaths[h] = PathsTags(TagPaths, Content[h].paths)
    BY DEF OfPaths
  <2> QED
    BY <2>1, <2>2 DEF PathsTags, Tags, PathLabels
<1>2. OfStdenvs[h].remove = StdenvPossible \ OfStdenvs[h].add
  BY DEF OfStdenvs, StdenvTags, Tags
<1>3. OfRebuilds[h].remove = RebuildPossible \ OfRebuilds[h].add
  BY RebuiltCount, RebuildTagsRight DEF OfRebuilds
<1>4. \A known \in {PathLabels, StdenvPossible, RebuildPossible} :
          Good(h) \cap known = Right[h] \cap known
  BY LabelsApart DEF Good
<1>5. /\ Good(h) \cap PathLabels = OfPaths[h].add
      /\ Good(h) \cap StdenvPossible = OfStdenvs[h].add
      /\ Good(h) \cap RebuildPossible = OfRebuilds[h].add
  BY <1>4, RightParts
<1>6. MergeConflict \notin Right[h]
  BY RightParts, LabelsApart
<1>7. /\ OfPackages[h].remove = {} /\ OfPackages[h].add \subseteq {CleanUp, NewPackage}
      /\ OfMaintainers[h].remove = {} /\ OfMaintainers[h].add \subseteq {ByMaintainer}
  BY DEF OfPackages, PkgsAddedRemovedTags, OfMaintainers, MaintainerTags, Tags
<1>8. /\ Tells(OfPaths[h], PathLabels, h)
      /\ Tells(OfStdenvs[h], StdenvPossible, h)
      /\ Tells(OfRebuilds[h], RebuildPossible, h)
  BY <1>1, <1>2, <1>3, <1>5, LabelsApart DEF Tells, AllLabels
<1>9. /\ Tells(OfPackages[h], {}, h)
      /\ Tells(OfMaintainers[h], {}, h)
      /\ Tells(Tags({TopicDarwin}, {}), {}, h)
  BY <1>7, LabelsApart DEF Tells, AllLabels, Tags
<1>10. /\ Content[h].conflict => Tells(Tags({MergeConflict}, {}), {MergeConflict}, h)
       /\ ~Content[h].conflict => Tells(Tags({}, {MergeConflict}), {MergeConflict}, h)
  BY <1>6, LabelsApart DEF Tells, AllLabels, Tags, Good
<1> QED
  BY <1>8, <1>9, <1>10

-----------------------------------------------------------------------------
(* The invariant.                                                            *)

Conflicting == {"conflict"}
Merged == {"stdenvs", "packages", "maintainers", "rebuilds", "complete"}
Places == {"idle", "title", "paths", "merge", "failed"} \cup Conflicting \cup Merged

Updates == {None} \cup [is : {"adding", "removing"}, add : SUBSET AllLabels, remove : SUBSET Removable]

Types ==
    /\ site \in Sites
    /\ \A label \in labels : Len(label) = 2
    /\ darwin \in BOOLEAN /\ disturbed \in BOOLEAN
    /\ queue \in Seq(Heads)
    /\ job \in [Evaluators -> Heads \cup {NoJob}]
    /\ at \in [Evaluators -> Places]
    /\ update \in [Evaluators -> Updates]
    /\ raced \in [Evaluators -> BOOLEAN]
    /\ last # None => last.head \in Heads
    /\ \A e \in Evaluators : (job[e] = NoJob) = (at[e] = "idle")

\* An update is one of the head that is evaluated, and does not contradict itself.
OwnUpdate(e) ==
    /\ update[e] # None =>
           /\ job[e] # NoJob
           /\ update[e].add \cap update[e].remove = {}
           /\ update[e].is = "removing" => update[e].remove # {} /\ update[e].add = {}
           /\ update[e].add \cap Removable \subseteq Good(job[e])
           /\ update[e].remove \cap Good(job[e]) = {}
    /\ at[e] \in Conflicting => Content[job[e]].conflict
    /\ at[e] \in Merged => ~Content[job[e]].conflict

\* The labels an evaluator has dealt with when it gets to a place.
Seen(where) ==
    (IF where \in {"merge"} \cup Conflicting \cup Merged THEN PathLabels ELSE {})
    \cup (IF where \in Conflicting \cup Merged THEN {MergeConflict} ELSE {})
    \cup (IF where \in Merged \ {"stdenvs"} THEN StdenvPossible ELSE {})
    \cup (IF where = "complete" THEN RebuildPossible ELSE {})

\* They are those of its head, but for what is left of its update.
Shown(e) ==
    \A label \in Seen(at[e]) :
        IF label \in Good(job[e])
        THEN label \in labels \/ (update[e] # None /\ label \in update[e].add)
        ELSE label \notin labels \/ (update[e] # None /\ label \in update[e].remove)

Idle == \A e \in Evaluators : at[e] = "idle"

LastShown ==
    /\ last.is = "complete" => labels \cap Removable = Right[last.head]
    /\ last.is = "conflict" => MergeConflict \in labels

Undisturbed ==
    /\ \A d, e \in Evaluators : at[d] # "idle" /\ at[e] # "idle" => job[d] = job[e]
    /\ \A e \in Evaluators : at[e] # "idle" => Shown(e)
    /\ Idle /\ queue = <<>> /\ last # None => LastShown

Inv ==
    /\ Types
    /\ \A e \in Evaluators : OwnUpdate(e)
    /\ OnlyRacesFail
    /\ ~disturbed => Undisturbed

\* Under the invariant the labels are those of the last evaluation.
LEMMA InvShows == Inv => LabelsOfLastEvaluation
<1> SUFFICES ASSUME Inv PROVE LabelsOfLastEvaluation
  OBVIOUS
<1>1. TypeInv
  BY DEF Inv, Types, OwnUpdate, TypeInv
<1>2. Settled /\ last # None /\ ~disturbed => LastShown
  BY DEF Inv, Undisturbed, Settled, Idle
<1> QED
  BY <1>1, <1>2 DEF LabelsOfLastEvaluation, LastShown

\* Before the first evaluation nothing has been asked for, whatever the labels are.
LEMMA InitInv == Init => Inv
<1> SUFFICES ASSUME Init PROVE Inv
  OBVIOUS
<1>1. Types
  <2>1. queue \in Seq(Heads)
    BY EmptySeq DEF Init
  <2>2. /\ job \in [Evaluators -> Heads \cup {NoJob}] /\ at \in [Evaluators -> Places]
        /\ update \in [Evaluators -> Updates] /\ raced \in [Evaluators -> BOOLEAN]
    BY DEF Init, Places, Updates
  <2>3. \A label \in labels : Len(label) = 2
    BY LabelsAssumption DEF Init
  <2>4. \A e \in Evaluators : (job[e] = NoJob) = (at[e] = "idle")
    BY DEF Init
  <2>5. site \in Sites /\ darwin \in BOOLEAN /\ disturbed \in BOOLEAN /\ last = None
    BY DEF Init
  <2> QED
    BY <2>1, <2>2, <2>3, <2>4, <2>5 DEF Types
<1>2. \A e \in Evaluators : OwnUpdate(e)
  BY DEF Init, OwnUpdate, Conflicting, Merged
<1>3. OnlyRacesFail
  BY DEF Init, OnlyRacesFail
<1>4. Undisturbed
  BY DEF Init, Undisturbed
<1> QED
  BY <1>1, <1>2, <1>3, <1>4 DEF Inv

-----------------------------------------------------------------------------
(* From one update to the next.                                              *)

\* An evaluator goes on to a place, and if it asks for an update it is one for
\* the labels it has dealt with then.
Advances(e, next, known) ==
    /\ at[e] # "idle" /\ update[e] = None
    /\ next \in Places \ {"idle"} /\ Seen(next) \subseteq Seen(at[e]) \cup known
    /\ next \in Conflicting => Content[job[e]].conflict
    /\ next \in Merged => ~Content[job[e]].conflict
    /\ at' = [at EXCEPT ![e] = next]
    /\ UNCHANGED <<labels, job>> /\ UNCHANGED unpushed
    /\ known \subseteq Removable
    /\ \/ known = {} /\ UNCHANGED <<update, raced>>
       \/ \E told : Tells(told, known, job[e]) /\ Ask(e, told)

\* An evaluator that is at work has a head.
LEMMA JobOfWorker ==
    ASSUME Types, NEW e \in Evaluators, at[e] # "idle"
    PROVE  job[e] \in Heads
BY DEF Types

\* Each step of an evaluation goes on to its next place, and asks for what its head wants at most.
LEMMA StepsAdvance ==
    ASSUME Inv, NEW e \in Evaluators,
           \/ TagFromTitle(e) \/ TagFromPaths(e) \/ Merge(e)
           \/ UpdateStdenvLabels(e) \/ UpdateNewPackageLabels(e)
           \/ RecordImpactedMaintainers(e) \/ NoMaintainers(e) \/ UpdateRebuildLabels(e)
           \/ Fail(e)
    PROVE  \E next, known : Advances(e, next, known)
<1>0. Types /\ OwnUpdate(e)
  BY DEF Inv
<1> DEFINE h == job[e]
<1>a. at[e] # "idle" => h \in Heads
  BY <1>0, JobOfWorker
<1>b. at[e] \in Merged => ~Content[h].conflict
  BY <1>0 DEF OwnUpdate
<1>c. PathLabels \subseteq Removable /\ {MergeConflict} \subseteq Removable
      /\ StdenvPossible \subseteq Removable /\ RebuildPossible \subseteq Removable
  BY LabelsApart
<1>1. CASE TagFromTitle(e)
  <2>1. Advances(e, "paths", {})
    BY <1>1, <1>a, TaggersTell
    DEF TagFromTitle, Stands, Goto, Advances, Places, Seen, Conflicting, Merged
  <2> QED
    BY <2>1
<1>2. CASE TagFromPaths(e)
  <2>1. Advances(e, "merge", PathLabels)
    BY <1>2, <1>a, <1>c, TaggersTell
    DEF TagFromPaths, Stands, Tag, Goto, Advances, Places, Seen, Conflicting, Merged
  <2> QED
    BY <2>1
<1>3. CASE Merge(e)
  <2>1. CASE Content[h].conflict
    <3>1. Advances(e, "conflict", {MergeConflict})
      BY <1>3, <2>1, <1>a, <1>c, TaggersTell
      DEF Merge, Stands, Tag, Goto, Advances, Places, Seen, Conflicting, Merged
    <3> QED
      BY <3>1
  <2>2. CASE ~Content[h].conflict
    <3>1. Advances(e, "stdenvs", {MergeConflict})
      BY <1>3, <2>2, <1>a, <1>c, TaggersTell
      DEF Merge, Stands, Tag, Goto, Advances, Places, Seen, Conflicting, Merged
    <3> QED
      BY <3>1
  <2> QED
    BY <2>1, <2>2
<1>4. CASE UpdateStdenvLabels(e)
  <2>1. Advances(e, "packages", StdenvPossible)
    BY <1>4, <1>a, <1>b, <1>c, TaggersTell
    DEF UpdateStdenvLabels, Stands, Tag, Goto, Advances, Places, Seen, Conflicting, Merged
  <2> QED
    BY <2>1
<1>5. CASE UpdateNewPackageLabels(e)
  <2>1. Advances(e, "maintainers", {})
    BY <1>5, <1>a, <1>b, TaggersTell
    DEF UpdateNewPackageLabels, Stands, Tag, Goto, Advances, Places, Seen, Conflicting, Merged
  <2> QED
    BY <2>1
<1>6. CASE RecordImpactedMaintainers(e)
  <2>1. Advances(e, "rebuilds", {})
    BY <1>6, <1>a, <1>b, TaggersTell
    DEF RecordImpactedMaintainers, Stands, Goto, Advances, Places, Seen, Conflicting, Merged
  <2> QED
    BY <2>1
<1>7. CASE NoMaintainers(e)
  <2>1. Advances(e, "rebuilds", {})
    BY <1>7, <1>a, <1>b
    DEF NoMaintainers, Stands, Goto, Advances, Places, Seen, Conflicting, Merged
  <2> QED
    BY <2>1
<1>8. CASE UpdateRebuildLabels(e)
  <2>1. Advances(e, "complete", RebuildPossible)
    BY <1>8, <1>a, <1>b, <1>c, TaggersTell
    DEF UpdateRebuildLabels, Stands, Tag, Goto, Advances, Places, Seen, Conflicting, Merged
  <2> QED
    BY <2>1
<1>9. CASE Fail(e)
  <2>1. Advances(e, "failed", {})
    BY <1>9
    DEF Fail, Advances, Places, Seen, Conflicting, Merged, issueVars, unpushed
  <2> QED
    BY <2>1
<1> QED
  BY <1>1, <1>2, <1>3, <1>4, <1>5, <1>6, <1>7, <1>8, <1>9

\* What an evaluator asks for is an update.
LEMMA AskType ==
    ASSUME NEW e \in Evaluators, NEW told, NEW known \in SUBSET Removable, NEW h,
           Types, Tells(told, known, h), Ask(e, told)
    PROVE  /\ update' \in [Evaluators -> Updates] /\ raced' \in [Evaluators -> BOOLEAN]
           /\ update'[e].is = "adding" /\ update'[e].add = told.add \ labels
           /\ update'[e].remove = told.remove \cap labels
           /\ update'[e] # None
           /\ \A d \in Evaluators \ {e} : update'[d] = update[d] /\ raced'[d] = raced[d]
<1> DEFINE asked == [is |-> "adding", add |-> told.add \ labels, remove |-> told.remove \cap labels]
<1>1. /\ update' = [update EXCEPT ![e] = asked] /\ raced' = [raced EXCEPT ![e] = FALSE]
      /\ update \in [Evaluators -> Updates] /\ raced \in [Evaluators -> BOOLEAN]
  BY DEF Ask, Types
<1>2. asked \in Updates
  BY DEF Updates, Tells
<1>3. asked # None
  <2>1. asked.is = "adding" /\ None.is = "none"
    BY DEF None
  <2> QED
    BY <2>1
<1>4. /\ asked.is = "adding" /\ asked.add = told.add \ labels
      /\ asked.remove = told.remove \cap labels
  OBVIOUS
<1> HIDE DEF asked
<1> QED
  BY <1>1, <1>2, <1>3, <1>4

\* What e does leaves the others alone.
Apart(e) ==
    \A d \in Evaluators \ {e} : at'[d] = at[d] /\ job'[d] = job[d] /\ update'[d] = update[d]

\* The labels an evaluation has dealt with are some that taggers remove.
LEMMA SeenRemovable == \A where : Seen(where) \subseteq Removable
BY LabelsApart DEF Seen

\* A step of an evaluation from one place to the next keeps the invariant.
LEMMA AdvanceInv ==
    ASSUME Inv, NEW e \in Evaluators, NEW next, NEW known, Advances(e, next, known)
    PROVE  Inv'
<1> DEFINE h == job[e]
<1>1. Types /\ OwnUpdate(e) /\ h \in Heads
  BY JobOfWorker DEF Inv, Advances
<1>2. /\ at[e] # "idle" /\ update[e] = None /\ next \in Places \ {"idle"} /\ known \subseteq Removable
      /\ Seen(next) \subseteq Seen(at[e]) \cup known
      /\ at' = [at EXCEPT ![e] = next]
      /\ labels' = labels /\ job' = job /\ site' = site /\ darwin' = darwin /\ queue' = queue
      /\ last' = last /\ disturbed' = disturbed
  BY DEF Advances, unpushed
<1>3. /\ at' \in [Evaluators -> Places] /\ at'[e] = next
      /\ \A d \in Evaluators \ {e} : at'[d] = at[d]
  BY <1>1, <1>2 DEF Types
<1>4. /\ update' \in [Evaluators -> Updates] /\ raced' \in [Evaluators -> BOOLEAN]
      /\ \A d \in Evaluators \ {e} : update'[d] = update[d] /\ raced'[d] = raced[d]
  <2>1. CASE UNCHANGED <<update, raced>>
    BY <1>1, <2>1 DEF Types
  <2>2. ASSUME NEW told, Tells(told, known, h), Ask(e, told)
        PROVE  <1>4!:
    BY <1>1, <1>2, <2>2, AskType
  <2> QED
    BY <2>1, <2>2 DEF Advances
<1>5. Apart(e)
  BY <1>2, <1>3, <1>4 DEF Apart
<1>6. \/ known = {} /\ update'[e] = None
      \/ \E told :
             /\ Tells(told, known, h) /\ update'[e] # None
             /\ update'[e].is = "adding" /\ update'[e].add = told.add \ labels
             /\ update'[e].remove = told.remove \cap labels
  <2>1. ASSUME NEW told, Tells(told, known, h), Ask(e, told)
        PROVE  /\ Tells(told, known, h) /\ update'[e] # None
               /\ update'[e].is = "adding" /\ update'[e].add = told.add \ labels
               /\ update'[e].remove = told.remove \cap labels
    BY <1>1, <1>2, <2>1, AskType
  <2> QED
    BY <1>2, <2>1 DEF Advances
<1>7. Types'
  BY <1>1, <1>2, <1>3, <1>4 DEF Types
<1>8. ASSUME NEW d \in Evaluators
      PROVE  OwnUpdate(d)'
  <2>1. CASE d = e
    <3>1. /\ next \in Conflicting => Content[h].conflict
          /\ next \in Merged => ~Content[h].conflict
      BY DEF Advances
    <3>2. h # NoJob
      BY <1>1, LabelsAssumption
    <3>3. CASE update'[e] = None
      BY <1>2, <1>3, <2>1, <3>1, <3>3 DEF OwnUpdate
    <3>4. ASSUME NEW told, Tells(told, known, h),
                 update'[e].is = "adding", update'[e].add = told.add \ labels,
                 update'[e].remove = told.remove \cap labels
          PROVE  OwnUpdate(d)'
      <4>1. /\ update'[e].add \cap update'[e].remove = {}
            /\ update'[e].add \cap Removable \subseteq Good(h)
            /\ update'[e].remove \cap Good(h) = {}
        BY <3>4 DEF Tells
      <4> QED
        BY <1>2, <1>3, <2>1, <3>1, <3>2, <3>4, <4>1 DEF OwnUpdate
    <3> QED
      BY <1>6, <3>3, <3>4
  <2>2. CASE d # e
    BY <1>2, <1>5, <2>2 DEF Inv, OwnUpdate, Apart
  <2> QED
    BY <2>1, <2>2
<1>9. OnlyRacesFail'
  <2>1. ASSUME NEW d \in Evaluators, update'[d] # None, ~raced'[d]
        PROVE  update'[d].remove \subseteq labels'
    <3>1. CASE d = e
      BY <1>2, <1>6, <2>1, <3>1
    <3>2. CASE d # e
      BY <1>2, <1>4, <2>1, <3>2 DEF Inv, OnlyRacesFail
    <3> QED
      BY <3>1, <3>2
  <2> QED
    BY <2>1 DEF OnlyRacesFail
<1>10. ASSUME ~disturbed' PROVE Undisturbed'
  <2>1. Undisturbed
    BY <1>2, <1>10 DEF Inv
  <2>2. \A c, d \in Evaluators : at'[c] # "idle" /\ at'[d] # "idle" => job'[c] = job'[d]
    BY <1>2, <1>3, <2>1 DEF Undisturbed
  <2>3. ASSUME NEW d \in Evaluators, at'[d] # "idle"
        PROVE  Shown(d)'
    <3>1. CASE d = e
      <4>1. Shown(e)
        BY <1>2, <2>1 DEF Undisturbed
      <4>2. ASSUME NEW label \in Seen(next), label \in Good(h)
            PROVE  label \in labels \/ (update'[e] # None /\ label \in update'[e].add)
        <5>1. CASE label \in Seen(at[e])
          BY <1>2, <4>1, <4>2, <5>1 DEF Shown
        <5>2. CASE label \in known
          BY <1>2, <1>6, <4>2, <5>2 DEF Tells
        <5> QED
          BY <1>2, <4>2, <5>1, <5>2
      <4>3. ASSUME NEW label \in Seen(next), label \notin Good(h)
            PROVE  label \notin labels \/ (update'[e] # None /\ label \in update'[e].remove)
        <5>1. CASE label \in Seen(at[e])
          BY <1>2, <4>1, <4>3, <5>1 DEF Shown
        <5>2. CASE label \in known
          BY <1>2, <1>6, <4>3, <5>2 DEF Tells
        <5> QED
          BY <1>2, <4>3, <5>1, <5>2
      <4> QED
        BY <1>2, <1>3, <3>1, <4>2, <4>3 DEF Shown
    <3>2. CASE d # e
      BY <1>2, <1>5, <2>1, <2>3, <3>2 DEF Undisturbed, Shown, Apart
    <3> QED
      BY <3>1, <3>2
  <2>4. ~Idle'
    BY <1>2, <1>3 DEF Idle
  <2> QED
    BY <2>2, <2>3, <2>4 DEF Undisturbed
<1> QED
  BY <1>7, <1>8, <1>9, <1>10 DEF Inv

-----------------------------------------------------------------------------
(* The requests of an update.                                                *)

\* What is left of an update when a request was answered.
LEMMA LeftType ==
    ASSUME NEW rest \in Updates, rest # None
    PROVE  /\ Left(rest) \in Updates
           /\ Left(rest) = None <=> rest.remove = {}
           /\ Left(rest) # None => /\ Left(rest).is = "removing" /\ Left(rest).add = {}
                                   /\ Left(rest).remove = rest.remove
<1>1. rest \in [is : {"adding", "removing"}, add : SUBSET AllLabels, remove : SUBSET Removable]
  BY DEF Updates
<1> DEFINE left == [rest EXCEPT !.is = "removing", !.add = {}]
<1>2. /\ left \in [is : {"adding", "removing"}, add : SUBSET AllLabels, remove : SUBSET Removable]
      /\ left.is = "removing" /\ left.add = {} /\ left.remove = rest.remove
  BY <1>1
<1>3. left # None
  <2>1. None.is = "none"
    BY DEF None
  <2> QED
    BY <1>2, <2>1
<1>4. Left(rest) = IF rest.remove = {} THEN None ELSE left
  BY DEF Left
<1> HIDE DEF left
<1> QED
  BY <1>2, <1>3, <1>4 DEF Updates

\* An evaluator in an update has a job.
LEMMA UpdaterWorks ==
    ASSUME Inv, NEW e \in Evaluators, update[e] # None
    PROVE  /\ at[e] # "idle" /\ job[e] \in Heads /\ update[e] \in Updates
           /\ update[e].is \in {"adding", "removing"}
           /\ update[e].add \subseteq AllLabels /\ update[e].remove \subseteq Removable
<1>1. job[e] # NoJob /\ Types
  BY DEF Inv, OwnUpdate
<1>2. update[e] \in [is : {"adding", "removing"}, add : SUBSET AllLabels, remove : SUBSET Removable]
  BY <1>1 DEF Types, Updates
<1> QED
  BY <1>1, <1>2 DEF Types

\* The parts of the invariant that say nothing of the labels stay when one
\* update shrinks.
LEMMA UpdateShrinks ==
    ASSUME Inv, NEW e \in Evaluators, update[e] # None, NEW rest \in Updates, rest # None,
           update' = [update EXCEPT ![e] = Left(rest)],
           rest.remove \subseteq update[e].remove,
           UNCHANGED <<job, at>>, UNCHANGED unpushed,
           \A label \in labels' : Len(label) = 2,
           raced' \in [Evaluators -> BOOLEAN]
    PROVE  /\ Types' /\ \A d \in Evaluators : OwnUpdate(d)'
           /\ \A d \in Evaluators \ {e} : update'[d] = update[d]
           /\ update'[e] = None <=> rest.remove = {}
           /\ update'[e] # None => update'[e].add = {} /\ update'[e].remove = rest.remove
<1>1. Types /\ job' = job /\ at' = at /\ site' = site /\ darwin' = darwin /\ queue' = queue
      /\ last' = last /\ disturbed' = disturbed
  BY DEF Inv, unpushed
<1>2. /\ update'[e] = Left(rest) /\ update' \in [Evaluators -> Updates]
      /\ \A d \in Evaluators \ {e} : update'[d] = update[d]
  BY <1>1, LeftType DEF Types
<1>3. Types'
  BY <1>1, <1>2 DEF Types
<1>4. /\ update'[e] = None <=> rest.remove = {}
      /\ update'[e] # None => /\ update'[e].is = "removing" /\ update'[e].add = {}
                              /\ update'[e].remove = rest.remove
  BY <1>2, LeftType
<1>5. ASSUME NEW d \in Evaluators PROVE OwnUpdate(d)'
  <2>1. OwnUpdate(d)
    BY DEF Inv
  <2>2. CASE d = e
    BY <1>1, <1>4, <2>1, <2>2 DEF OwnUpdate
  <2>3. CASE d # e
    BY <1>1, <1>2, <2>1, <2>3 DEF OwnUpdate
  <2> QED
    BY <2>2, <2>3
<1> QED
  BY <1>2, <1>3, <1>4, <1>5

\* The request that adds labels keeps the invariant.
LEMMA AddLabelsInv ==
    ASSUME Inv, NEW e \in Evaluators, AddLabels(e)
    PROVE  Inv'
<1>1. /\ update[e].is = "adding" /\ labels' = labels \cup update[e].add
      /\ update' = [update EXCEPT ![e] = Left(update[e])]
      /\ job' = job /\ at' = at /\ raced' = raced /\ UNCHANGED unpushed
  BY DEF AddLabels
<1>2. update[e] # None
  BY <1>1 DEF None
<1>3. /\ at[e] # "idle" /\ job[e] \in Heads /\ update[e] \in Updates
      /\ update[e].add \subseteq AllLabels /\ update[e].remove \subseteq Removable
  BY <1>2, UpdaterWorks
<1>4. \A label \in labels' : Len(label) = 2
  BY <1>1, <1>3, LabelPairs DEF Inv, Types
<1>5. /\ Types' /\ \A d \in Evaluators : OwnUpdate(d)'
      /\ \A d \in Evaluators \ {e} : update'[d] = update[d]
      /\ update'[e] = None <=> update[e].remove = {}
      /\ update'[e] # None => update'[e].add = {} /\ update'[e].remove = update[e].remove
  <2>1. raced' \in [Evaluators -> BOOLEAN]
    BY <1>1 DEF Inv, Types
  <2> QED
    BY <1>1, <1>2, <1>3, <1>4, <2>1, UpdateShrinks
<1>6. OnlyRacesFail'
  <2>1. ASSUME NEW d \in Evaluators, update'[d] # None, ~raced'[d]
        PROVE  update'[d].remove \subseteq labels'
    <3>1. update[d] # None /\ ~raced[d] /\ update'[d].remove = update[d].remove
      BY <1>1, <1>2, <1>5, <2>1
    <3> QED
      BY <1>1, <2>1, <3>1 DEF Inv, OnlyRacesFail
  <2> QED
    BY <2>1 DEF OnlyRacesFail
<1>7. ASSUME ~disturbed' PROVE Undisturbed'
  <2>1. Undisturbed /\ queue' = queue /\ last' = last
    BY <1>1, <1>7 DEF Inv, unpushed
  <2>2. update[e].add \cap Removable \subseteq Good(job[e])
    BY <1>2 DEF Inv, OwnUpdate
  <2>3. ASSUME NEW d \in Evaluators, at'[d] # "idle"
        PROVE  Shown(d)'
    <3>1. Shown(d) /\ job[d] = job[e] /\ at[d] # "idle"
      BY <1>1, <1>3, <2>1, <2>3 DEF Undisturbed
    <3>2. \A label \in Seen(at[d]) : label \notin Good(job[d]) /\ label \in labels' => label \in labels
      BY <1>1, <2>2, <3>1, SeenRemovable
    <3>3. CASE d = e
      BY <1>1, <1>2, <1>5, <3>1, <3>2, <3>3 DEF Shown
    <3>4. CASE d # e
      <4>1. update'[d] = update[d]
        BY <1>5, <3>4
      <4> QED
        BY <1>1, <3>1, <3>2, <4>1 DEF Shown
    <3> QED
      BY <3>3, <3>4
  <2>4. ~Idle'
    BY <1>1, <1>3 DEF Idle
  <2> QED
    BY <1>1, <2>1, <2>3, <2>4 DEF Undisturbed
<1> QED
  BY <1>5, <1>6, <1>7 DEF Inv

\* A request that removes a label keeps the invariant.
LEMMA RemoveLabelInv ==
    ASSUME Inv, NEW e \in Evaluators, RemoveLabel(e)
    PROVE  Inv'
<1> DEFINE rest(label) == [update[e] EXCEPT !.remove = @ \ {label}]
<1>1. PICK gone \in update[e].remove \cap labels :
          /\ labels' = labels \ {gone}
          /\ update' = [update EXCEPT ![e] = Left(rest(gone))]
          /\ Races(e, {gone})
  BY DEF RemoveLabel
<1>2. /\ update[e].is = "removing" /\ job' = job /\ at' = at /\ UNCHANGED unpushed
  BY DEF RemoveLabel
<1>3. update[e] # None
  BY <1>2 DEF None
<1>4. /\ at[e] # "idle" /\ job[e] \in Heads /\ update[e] \in Updates
      /\ update[e].remove \subseteq Removable
  BY <1>3, UpdaterWorks
<1>5. /\ rest(gone) \in Updates /\ rest(gone) # None
      /\ rest(gone).remove = update[e].remove \ {gone}
      /\ rest(gone).add = update[e].add
  <2>1. update[e] \in [is : {"adding", "removing"}, add : SUBSET AllLabels, remove : SUBSET Removable]
    BY <1>3, <1>4 DEF Updates
  <2>2. /\ rest(gone) \in [is : {"adding", "removing"}, add : SUBSET AllLabels, remove : SUBSET Removable]
        /\ rest(gone).is = "removing" /\ rest(gone).remove = update[e].remove \ {gone}
        /\ rest(gone).add = update[e].add
    BY <1>2, <2>1
  <2>3. None.is = "none"
    BY DEF None
  <2> HIDE DEF rest
  <2> QED
    BY <2>2, <2>3 DEF Updates
<1> HIDE DEF rest
<1>6. /\ raced' \in [Evaluators -> BOOLEAN]
      /\ raced'[e] = raced[e]
      /\ \A d \in Evaluators \ {e} : update[d] # None => raced'[d]
  BY <1>1 DEF Races, Inv, Types
<1>7. /\ Types' /\ \A d \in Evaluators : OwnUpdate(d)'
      /\ \A d \in Evaluators \ {e} : update'[d] = update[d]
      /\ update'[e] = None <=> rest(gone).remove = {}
      /\ update'[e] # None => update'[e].add = {} /\ update'[e].remove = rest(gone).remove
  <2>1. \A label \in labels' : Len(label) = 2
    BY <1>1 DEF Inv, Types
  <2>2. rest(gone).remove \subseteq update[e].remove
    BY <1>5
  <2> QED
    BY <1>1, <1>2, <1>3, <1>5, <1>6, <2>1, <2>2, UpdateShrinks
<1>8. OnlyRacesFail'
  <2>1. ASSUME NEW d \in Evaluators, update'[d] # None, ~raced'[d]
        PROVE  update'[d].remove \subseteq labels'
    <3>1. d = e
      BY <1>6, <1>7, <2>1
    <3>2. update[e].remove \subseteq labels
      BY <1>3, <1>6, <2>1, <3>1 DEF Inv, OnlyRacesFail
    <3> QED
      BY <1>1, <1>5, <1>7, <2>1, <3>1, <3>2
  <2> QED
    BY <2>1 DEF OnlyRacesFail
<1>9. ASSUME ~disturbed' PROVE Undisturbed'
  <2>1. Undisturbed /\ queue' = queue /\ last' = last
    BY <1>2, <1>9 DEF Inv, unpushed
  <2>2. gone \notin Good(job[e]) /\ (update[e].add = {})
    BY <1>1, <1>2, <1>3 DEF Inv, OwnUpdate
  <2>3. ASSUME NEW d \in Evaluators, at'[d] # "idle"
        PROVE  Shown(d)'
    <3>1. Shown(d) /\ job[d] = job[e] /\ at[d] # "idle"
      BY <1>2, <1>4, <2>1, <2>3 DEF Undisturbed
    <3>2. \A label \in Seen(at[d]) : /\ label \in Good(job[d]) /\ label \in labels => label \in labels'
                                     /\ label \in labels' => label \in labels /\ label # gone
      BY <1>1, <2>2, <3>1
    <3>3. CASE d = e
      BY <1>2, <1>3, <1>5, <1>7, <2>2, <3>1, <3>2, <3>3 DEF Shown
    <3>4. CASE d # e
      <4>1. update'[d] = update[d]
        BY <1>7, <3>4
      <4> QED
        BY <1>2, <3>1, <3>2, <4>1 DEF Shown
    <3> QED
      BY <3>3, <3>4
  <2>4. ~Idle'
    BY <1>2, <1>4 DEF Idle
  <2> QED
    BY <1>2, <2>1, <2>3, <2>4 DEF Undisturbed
<1> QED
  BY <1>7, <1>8, <1>9 DEF Inv

-----------------------------------------------------------------------------
(* The beginning and the end of an evaluation.                               *)

\* An evaluation that is given up and delivered again keeps the invariant.
LEMMA RequeueInv ==
    ASSUME Inv, NEW e \in Evaluators, at[e] # "idle", Requeue(e)
    PROVE  Inv'
<1>1. /\ queue' = <<job[e]>> \o queue /\ job' = [job EXCEPT ![e] = NoJob]
      /\ at' = [at EXCEPT ![e] = "idle"] /\ update' = [update EXCEPT ![e] = None]
      /\ raced' = [raced EXCEPT ![e] = FALSE]
      /\ labels' = labels /\ darwin' = darwin /\ site' = site /\ last' = last /\ disturbed' = disturbed
  BY DEF Requeue, issueVars
<1>2. Types /\ job[e] \in Heads
  BY JobOfWorker DEF Inv
<1>3. queue' \in Seq(Heads) /\ queue' # <<>>
  BY <1>1, <1>2 DEF Types
<1>4. /\ job'[e] = NoJob /\ at'[e] = "idle" /\ update'[e] = None
      /\ \A d \in Evaluators \ {e} :
             job'[d] = job[d] /\ at'[d] = at[d] /\ update'[d] = update[d] /\ raced'[d] = raced[d]
      /\ at' \in [Evaluators -> Places] /\ update' \in [Evaluators -> Updates]
      /\ job' \in [Evaluators -> Heads \cup {NoJob}] /\ raced' \in [Evaluators -> BOOLEAN]
  BY <1>1, <1>2 DEF Types, Places, Updates
<1>5. Types'
  BY <1>1, <1>2, <1>3, <1>4 DEF Types
<1>6. ASSUME NEW d \in Evaluators PROVE OwnUpdate(d)'
  BY <1>4 DEF Inv, OwnUpdate, Conflicting, Merged
<1>7. OnlyRacesFail'
  BY <1>1, <1>4 DEF Inv, OnlyRacesFail
<1>8. ASSUME ~disturbed' PROVE Undisturbed'
  <2>1. Undisturbed
    BY <1>1, <1>8 DEF Inv
  <2>2. ASSUME NEW d \in Evaluators, at'[d] # "idle"
        PROVE  Shown(d)' /\ d # e /\ at[d] # "idle"
    BY <1>1, <1>4, <2>1, <2>2 DEF Undisturbed, Shown
  <2>3. \A c, d \in Evaluators : at'[c] # "idle" /\ at'[d] # "idle" => job'[c] = job'[d]
    BY <1>4, <2>1, <2>2 DEF Undisturbed
  <2> QED
    BY <1>3, <2>2, <2>3 DEF Undisturbed
<1> QED
  BY <1>5, <1>6, <1>7, <1>8 DEF Inv

\* An evaluator that takes a job keeps the invariant.
LEMMA TakeInv ==
    ASSUME Inv, NEW e \in Evaluators, Take(e)
    PROVE  Inv'
<1> DEFINE others == {d \in Evaluators \ {e} : at[d] # "idle"}
           h == Head(queue)
<1>1. /\ at[e] = "idle" /\ queue # <<>> /\ job' = [job EXCEPT ![e] = h] /\ queue' = Tail(queue)
      /\ at' = [at EXCEPT ![e] = "title"]
      /\ disturbed' = (others # {} /\ (disturbed \/ \E d \in others : job[d] # h))
      /\ labels' = labels /\ darwin' = darwin /\ site' = site /\ update' = update
      /\ raced' = raced /\ last' = last
  BY DEF Take, issueVars
<1>2. Types /\ h \in Heads /\ queue' \in Seq(Heads)
  BY <1>1 DEF Inv, Types
<1>3. /\ job'[e] = h /\ at'[e] = "title"
      /\ \A d \in Evaluators \ {e} : job'[d] = job[d] /\ at'[d] = at[d]
      /\ at' \in [Evaluators -> Places] /\ job' \in [Evaluators -> Heads \cup {NoJob}]
  BY <1>1, <1>2 DEF Types, Places
<1>4. disturbed' \in BOOLEAN
  BY <1>1
<1>5. Types'
  BY <1>1, <1>2, <1>3, <1>4, LabelsAssumption DEF Types
<1>6. update[e] = None
  BY <1>1, UpdaterWorks
<1>7. ASSUME NEW d \in Evaluators PROVE OwnUpdate(d)'
  BY <1>1, <1>3, <1>6 DEF Inv, OwnUpdate, Conflicting, Merged
<1>8. OnlyRacesFail'
  BY <1>1 DEF Inv, OnlyRacesFail
<1>9. ASSUME ~disturbed' PROVE Undisturbed'
  <2>1. \A d \in others : ~disturbed /\ job[d] = h
    BY <1>1, <1>9
  <2>2. ASSUME NEW d \in Evaluators, at'[d] # "idle"
        PROVE  Shown(d)' /\ job'[d] = h
    <3>1. CASE d = e
      BY <1>3, <3>1 DEF Shown, Seen, Conflicting, Merged
    <3>2. CASE d # e
      <4>1. d \in others /\ at[d] # "idle"
        BY <1>3, <2>2, <3>2
      <4>2. Shown(d) /\ job[d] = h
        BY <2>1, <4>1 DEF Inv, Undisturbed
      <4> QED
        BY <1>1, <1>3, <3>2, <4>2 DEF Shown
    <3> QED
      BY <3>1, <3>2
  <2>3. ~Idle'
    BY <1>3 DEF Idle
  <2> QED
    BY <2>2, <2>3 DEF Undisturbed
<1> QED
  BY <1>5, <1>7, <1>8, <1>9 DEF Inv

\* The end of an evaluation keeps the invariant.
LEMMA EndInv ==
    ASSUME Inv, NEW e \in Evaluators, End(e)
    PROVE  Inv'
<1>1. /\ at[e] \in {"complete", "conflict", "failed"} /\ update[e] = None
      /\ last' = [is |-> at[e], head |-> job[e]]
      /\ job' = [job EXCEPT ![e] = NoJob] /\ at' = [at EXCEPT ![e] = "idle"]
      /\ labels' = labels /\ darwin' = darwin /\ site' = site /\ queue' = queue
      /\ update' = update /\ raced' = raced /\ disturbed' = disturbed
  BY DEF End, issueVars
<1>2. Types /\ at[e] # "idle" /\ job[e] \in Heads
  BY <1>1, JobOfWorker DEF Inv
<1>3. /\ job'[e] = NoJob /\ at'[e] = "idle"
      /\ \A d \in Evaluators \ {e} : job'[d] = job[d] /\ at'[d] = at[d]
      /\ at' \in [Evaluators -> Places] /\ job' \in [Evaluators -> Heads \cup {NoJob}]
  BY <1>1, <1>2 DEF Types, Places
<1>4. last'.head = job[e] /\ last'.is = at[e]
  BY <1>1
<1>5. Types'
  BY <1>1, <1>2, <1>3, <1>4 DEF Types
<1>6. ASSUME NEW d \in Evaluators PROVE OwnUpdate(d)'
  BY <1>1, <1>3 DEF Inv, OwnUpdate, Conflicting, Merged
<1>7. OnlyRacesFail'
  BY <1>1 DEF Inv, OnlyRacesFail
<1>8. ASSUME ~disturbed' PROVE Undisturbed'
  <2>1. Undisturbed
    BY <1>1, <1>8 DEF Inv
  <2>2. ASSUME NEW d \in Evaluators, at'[d] # "idle"
        PROVE  Shown(d)' /\ d # e /\ at[d] # "idle"
    BY <1>1, <1>3, <2>1, <2>2 DEF Undisturbed, Shown
  <2>3. \A c, d \in Evaluators : at'[c] # "idle" /\ at'[d] # "idle" => job'[c] = job'[d]
    BY <1>3, <2>1, <2>2 DEF Undisturbed
  <2>4. Shown(e) /\ OwnUpdate(e)
    BY <1>2, <2>1 DEF Inv, Undisturbed
  <2>5. CASE at[e] = "complete"
    <3>1. Seen("complete") = Removable
      BY LabelsApart DEF Seen, Conflicting, Merged
    <3>2. Good(job[e]) = Right[job[e]]
      BY <2>4, <2>5 DEF OwnUpdate, Merged, Good
    <3>3. Right[job[e]] \subseteq Removable
      BY <1>2, RightParts, LabelsApart
    <3>4. labels \cap Removable = Right[job[e]]
      BY <1>1, <2>4, <2>5, <3>1, <3>2, <3>3 DEF Shown
    <3> QED
      BY <1>1, <1>4, <2>2, <2>3, <2>5, <3>4 DEF Undisturbed, LastShown
  <2>6. CASE at[e] = "conflict"
    <3>1. MergeConflict \in Seen("conflict")
      BY DEF Seen, Conflicting
    <3>2. MergeConflict \in Good(job[e])
      BY <2>4, <2>6 DEF OwnUpdate, Conflicting, Good
    <3>3. MergeConflict \in labels
      BY <1>1, <2>4, <2>6, <3>1, <3>2 DEF Shown
    <3> QED
      BY <1>1, <1>4, <2>2, <2>3, <2>6, <3>3 DEF Undisturbed, LastShown
  <2>7. CASE at[e] = "failed"
    BY <1>4, <2>2, <2>3, <2>7 DEF Undisturbed, LastShown
  <2> QED
    BY <1>1, <2>5, <2>6, <2>7
<1> QED
  BY <1>5, <1>6, <1>7, <1>8 DEF Inv

-----------------------------------------------------------------------------
(* What people do.                                                           *)

\* A head that is pushed is for an evaluation to come.
LEMMA PushInv ==
    ASSUME Inv, NEW h \in Heads, Push(h)
    PROVE  Inv'
<1>1. /\ queue' = Append(queue, h) /\ labels' = labels /\ darwin' = darwin /\ site' = site
      /\ job' = job /\ at' = at /\ update' = update /\ raced' = raced
      /\ last' = last /\ disturbed' = disturbed
  BY DEF Push, issueVars
<1>2. Types /\ queue' \in Seq(Heads) /\ queue' # <<>>
  BY <1>1 DEF Inv, Types
<1>3. Types'
  BY <1>1, <1>2 DEF Types
<1>4. (\A d \in Evaluators : OwnUpdate(d)') /\ OnlyRacesFail'
  BY <1>1 DEF Inv, OwnUpdate, OnlyRacesFail
<1>5. ~disturbed' => Undisturbed'
  BY <1>1, <1>2 DEF Inv, Undisturbed, Shown
<1> QED
  BY <1>3, <1>4, <1>5 DEF Inv

\* A person who takes a label away makes the updates that have begun race, and
\* one who touches a label that a tagger may remove disturbs the evaluations.
LEMMA EditInv ==
    ASSUME Inv, NEW label \in site.peoples, Edit(label)
    PROVE  Inv'
<1>1. /\ labels' = (IF label \in labels THEN labels \ {label} ELSE labels \cup {label})
      /\ disturbed' = (disturbed \/ label \in Removable)
      /\ darwin' = darwin /\ site' = site /\ queue' = queue /\ last' = last
      /\ job' = job /\ at' = at /\ update' = update
  BY DEF Edit, workVars
<1>2. Types
  BY DEF Inv
<1>3. /\ raced' \in [Evaluators -> BOOLEAN]
      /\ \A d \in Evaluators : raced'[d] = (raced[d] \/ (update[d] # None /\ labels \ labels' # {}))
  BY <1>2, LabelsAssumption DEF Edit, Races, Types
<1>4. Types'
  <2>1. Len(label) = 2
    BY <1>2, LabelsAssumption DEF Types
  <2> QED
    BY <1>1, <1>2, <1>3, <2>1 DEF Types
<1>5. \A d \in Evaluators : OwnUpdate(d)'
  BY <1>1 DEF Inv, OwnUpdate
<1>6. OnlyRacesFail'
  <2>1. ASSUME NEW d \in Evaluators, update'[d] # None, ~raced'[d]
        PROVE  update'[d].remove \subseteq labels'
    <3>1. labels \subseteq labels' /\ ~raced[d] /\ update[d] # None
      BY <1>1, <1>3, <2>1
    <3> QED
      BY <1>1, <3>1 DEF Inv, OnlyRacesFail
  <2> QED
    BY <2>1 DEF OnlyRacesFail
<1>7. ASSUME ~disturbed' PROVE Undisturbed'
  <2>1. Undisturbed /\ labels' \cap Removable = labels \cap Removable
    BY <1>1, <1>7 DEF Inv
  <2>2. MergeConflict \in Removable
    BY LabelsApart
  <2>3. ASSUME NEW d \in Evaluators, at'[d] # "idle"
        PROVE  Shown(d)'
    <3>1. Shown(d) /\ Seen(at[d]) \subseteq Removable
      BY <1>1, <2>1, <2>3, SeenRemovable DEF Undisturbed
    <3>2. \A l \in Seen(at[d]) : l \in labels' <=> l \in labels
      BY <2>1, <3>1
    <3> QED
      BY <1>1, <3>1, <3>2 DEF Shown
  <2>4. LastShown => LastShown'
    BY <1>1, <2>1, <2>2 DEF LastShown
  <2> QED
    BY <1>1, <2>1, <2>3, <2>4 DEF Undisturbed, Idle
<1> QED
  BY <1>4, <1>5, <1>6, <1>7 DEF Inv

\* Nothing of the invariant speaks of the title, of reviewers or of the bounds.
LEMMA SameInv ==
    ASSUME Inv, darwin' \in BOOLEAN, UNCHANGED <<site, labels, workVars, raced, last, disturbed>>
    PROVE  Inv'
<1>1. /\ labels' = labels /\ site' = site /\ queue' = queue /\ job' = job /\ at' = at
      /\ update' = update /\ raced' = raced /\ last' = last /\ disturbed' = disturbed
  BY DEF workVars
<1>2. Types' /\ (\A d \in Evaluators : OwnUpdate(d)') /\ OnlyRacesFail'
  BY <1>1 DEF Inv, Types, OwnUpdate, OnlyRacesFail
<1>3. ~disturbed' => Undisturbed'
  BY <1>1 DEF Inv, Undisturbed, Shown, Idle, LastShown
<1> QED
  BY <1>2, <1>3 DEF Inv

\* Every step keeps the invariant.
LEMMA StepInv == Inv /\ [Next]_vars => Inv'
<1> SUFFICES ASSUME Inv, [Next]_vars PROVE Inv'
  OBVIOUS
<1>1. ASSUME NEW e \in Evaluators, Step(e) \/ Fail(e) \/ Crash(e)
      PROVE  Inv'
  <2>1. CASE Take(e)
    BY <2>1, TakeInv
  <2>2. CASE AddLabels(e)
    BY <2>2, AddLabelsInv
  <2>3. CASE RemoveLabel(e)
    BY <2>3, RemoveLabelInv
  <2>4. CASE RemoveFails(e)
    <3>1. update[e].is = "removing" /\ Requeue(e)
      BY <2>4 DEF RemoveFails
    <3>2. update[e] # None
      BY <3>1 DEF None
    <3> QED
      BY <3>1, <3>2, UpdaterWorks, RequeueInv
  <2>5. CASE \/ TagFromTitle(e) \/ TagFromPaths(e) \/ Merge(e)
             \/ UpdateStdenvLabels(e) \/ UpdateNewPackageLabels(e)
             \/ RecordImpactedMaintainers(e) \/ NoMaintainers(e) \/ UpdateRebuildLabels(e)
             \/ Fail(e)
    BY <2>5, StepsAdvance, AdvanceInv
  <2>6. CASE End(e)
    BY <2>6, EndInv
  <2>7. CASE Crash(e)
    BY <2>7, RequeueInv DEF Crash
  <2> QED
    BY <1>1, <2>1, <2>2, <2>3, <2>4, <2>5, <2>6, <2>7 DEF Step
<1>2. ASSUME NEW h \in site.heads, Push(h)
      PROVE  Inv'
  BY <1>2, PushInv, LabelsAssumption DEF Inv, Types
<1>3. ASSUME NEW label \in site.peoples, Edit(label)
      PROVE  Inv'
  BY <1>3, EditInv
<1>4. CASE Retitle
  BY <1>4, SameInv DEF Retitle
<1>5. CASE UNCHANGED vars
  <2>1. darwin' \in BOOLEAN
    BY <1>5 DEF Inv, Types, vars, issueVars
  <2> QED
    BY <1>5, <2>1, SameInv DEF vars, issueVars
<1> QED
  BY <1>1, <1>2, <1>3, <1>4, <1>5 DEF Next, People

\* The invariant holds whatever evaluators and people do.
THEOREM Invariant == Spec => []Inv
<1> QED
  BY InitInv, StepInv, PTL DEF Spec

\* When the evaluations are over the labels that taggers know are those of the
\* head that was evaluated last (evaluate.rs:433-463, tagger.rs:151-200).
THEOREM LabelsTheorem == Spec => []LabelsOfLastEvaluation
<1> QED
  BY Invariant, InvShows, PTL

\* An update finds the labels it removes unless somebody took one away since
\* the issue was read (evaluate.rs:433-463).
THEOREM OnlyRacesTheorem == Spec => []OnlyRacesFail
<1>1. Inv => OnlyRacesFail
  BY DEF Inv
<1> QED
  BY <1>1, Invariant, PTL

-----------------------------------------------------------------------------
(* What a step may do to labels.                                             *)

\* The tagger for maintainers names the submitter who maintains it all
\* (tagger.rs:294-318).
LEMMA MaintainerNamed ==
    ASSUME NEW h \in Heads, Attrs[h] # {}, ByMaintainer \in OfMaintainers[h].add
    PROVE  MaintainedBySubmitter(h)
<1> DEFINE impact == Content[h].impact
           bypkg == MaintainersByPackage(impact)
<1>1. DOMAIN bypkg # {} /\ \A p \in DOMAIN bypkg : Submitter \in bypkg[p]
  BY DEF OfMaintainers, MaintainerTags, Tags
<1>2. /\ DOMAIN bypkg = UNION {impact[m] : m \in DOMAIN impact}
      /\ \A p \in DOMAIN bypkg : bypkg[p] = {m \in DOMAIN impact : p \in impact[m]}
  BY DEF MaintainersByPackage
<1> HIDE DEF bypkg, impact
<1>3. \A p \in DOMAIN bypkg : Submitter \in DOMAIN impact /\ p \in impact[Submitter]
  BY <1>1, <1>2
<1>4. Submitter \in DOMAIN impact /\ impact[Submitter] # {}
  BY <1>1, <1>3
<1>5. \A m \in DOMAIN impact : impact[m] \subseteq impact[Submitter]
  BY <1>2, <1>3
<1> QED
  BY <1>4, <1>5 DEF MaintainedBySubmitter, impact

\* An update that is asked for has the label for maintainers only when
\* RecordImpactedMaintainers asks for it.
LEMMA AskedWithReason ==
    ASSUME NEW e \in Evaluators, NEW told, NEW d \in Evaluators, Types, Ask(e, told),
           update[d] # update'[d], ByMaintainer \in update'[d].add
    PROVE  d = e /\ ByMaintainer \in told.add
BY DEF Ask, Types

\* What a step may do to the labels and to the updates of them.
WithReason ==
    /\ edits' = edits => (labels \ labels') \subseteq Removable
    /\ \A e \in Evaluators :
         update[e] # update'[e] /\ update'[e] # None /\ ByMaintainer \in update'[e].add =>
           MaintainedBySubmitter(job[e])

\* An evaluation asks only for labels it has a reason for.
LEMMA AskStepWithReason ==
    ASSUME Inv, NEW e \in Evaluators, at[e] # "idle",
           \/ TagFromTitle(e) \/ TagFromPaths(e) \/ Merge(e)
           \/ UpdateStdenvLabels(e) \/ UpdateNewPackageLabels(e)
           \/ RecordImpactedMaintainers(e) \/ NoMaintainers(e) \/ UpdateRebuildLabels(e)
    PROVE  WithReason
<1> DEFINE h == job[e]
<1>0. Types /\ h \in Heads
  BY JobOfWorker DEF Inv
<1>1. labels' = labels
  BY DEF TagFromTitle, TagFromPaths, Merge, UpdateStdenvLabels, UpdateNewPackageLabels,
         RecordImpactedMaintainers, NoMaintainers, UpdateRebuildLabels, Tag, Goto
<1>2. ByMaintainer \notin Removable \cup {TopicDarwin, NewPackage, CleanUp}
  BY LabelsApart
<1>3. /\ ByMaintainer \notin OfPaths[h].add /\ ByMaintainer \notin OfStdenvs[h].add
      /\ ByMaintainer \notin OfRebuilds[h].add
  BY <1>0, <1>2, RightParts, LabelsApart
<1>4. ByMaintainer \notin OfPackages[h].add
  BY <1>0, <1>2 DEF OfPackages, PkgsAddedRemovedTags, Tags
<1>5. ByMaintainer \notin {TopicDarwin} /\ ByMaintainer \notin {MergeConflict} /\ ByMaintainer \notin {}
  BY <1>2, LabelsApart
<1>6. ASSUME NEW d \in Evaluators,
             update[d] # update'[d], update'[d] # None, ByMaintainer \in update'[d].add
      PROVE  MaintainedBySubmitter(job[d])
  <2>1. \A told : Ask(e, told) => d = e /\ ByMaintainer \in told.add
    BY <1>0, <1>6, AskedWithReason
  <2>2. \A add, remove : Ask(e, Tags(add, remove)) => ByMaintainer \in add
    BY <2>1 DEF Tags
  <2>3. CASE RecordImpactedMaintainers(e)
    <3>1. d = e /\ ByMaintainer \in OfMaintainers[h].add /\ Attrs[h] # {}
      BY <2>1, <2>3 DEF RecordImpactedMaintainers
    <3> QED
      BY <1>0, <3>1, MaintainerNamed
  <2>4. CASE TagFromTitle(e)
    BY <1>5, <1>6, <2>2, <2>4 DEF TagFromTitle
  <2>5. CASE TagFromPaths(e)
    BY <1>3, <2>1, <2>5 DEF TagFromPaths, Tag
  <2>6. CASE Merge(e)
    BY <1>5, <2>2, <2>6 DEF Merge, Tag
  <2>7. CASE UpdateStdenvLabels(e)
    BY <1>3, <2>1, <2>7 DEF UpdateStdenvLabels, Tag
  <2>8. CASE UpdateNewPackageLabels(e)
    BY <1>4, <2>1, <2>8 DEF UpdateNewPackageLabels, Tag
  <2>9. CASE UpdateRebuildLabels(e)
    BY <1>3, <2>1, <2>9 DEF UpdateRebuildLabels, Tag
  <2>10. CASE NoMaintainers(e)
    BY <1>6, <2>10 DEF NoMaintainers
  <2> QED
    BY <2>3, <2>4, <2>5, <2>6, <2>7, <2>8, <2>9, <2>10
<1> QED
  BY <1>1, <1>6 DEF WithReason

\* Requests put on what was asked for and take away what a tagger may remove.
LEMMA RequestWithReason ==
    ASSUME Inv, NEW e \in Evaluators, AddLabels(e) \/ RemoveLabel(e)
    PROVE  WithReason
<1>1. update[e] # None /\ Types
  BY DEF AddLabels, RemoveLabel, None, Inv
<1>2. update[e] \in [is : {"adding", "removing"}, add : SUBSET AllLabels, remove : SUBSET Removable]
  BY <1>1 DEF Types, Updates
<1>3. (labels \ labels') \subseteq Removable
  BY <1>2 DEF AddLabels, RemoveLabel
<1>4. \E rest : /\ update' = [update EXCEPT ![e] = Left(rest)]
                /\ rest \in [is : {"adding", "removing"}, add : SUBSET AllLabels, remove : SUBSET Removable]
  <2>1. CASE AddLabels(e)
    BY <1>2, <2>1 DEF AddLabels
  <2>2. CASE RemoveLabel(e)
    <3>1. PICK label : update' = [update EXCEPT ![e] = Left([update[e] EXCEPT !.remove = @ \ {label}])]
      BY <2>2 DEF RemoveLabel
    <3> DEFINE rest == [update[e] EXCEPT !.remove = @ \ {label}]
    <3>2. rest \in [is : {"adding", "removing"}, add : SUBSET AllLabels, remove : SUBSET Removable]
      BY <1>2
    <3>3. update' = [update EXCEPT ![e] = Left(rest)]
      BY <3>1
    <3> HIDE DEF rest
    <3> QED
      BY <3>2, <3>3
  <2> QED
    BY <2>1, <2>2
<1>5. PICK rest : /\ update' = [update EXCEPT ![e] = Left(rest)]
                  /\ Left(rest) # None => Left(rest).add = {}
  <2>1. PICK rest : /\ update' = [update EXCEPT ![e] = Left(rest)]
                    /\ rest \in [is : {"adding", "removing"}, add : SUBSET AllLabels, remove : SUBSET Removable]
    BY <1>4
  <2>2. Left(rest) # None => Left(rest).add = {}
    BY <2>1 DEF Left
  <2> QED
    BY <2>1, <2>2
<1>6. ASSUME NEW d \in Evaluators, update[d] # update'[d], update'[d] # None
      PROVE  ByMaintainer \notin update'[d].add
  <2>1. d = e /\ update'[d] = Left(rest)
    BY <1>1, <1>5, <1>6 DEF Types
  <2> QED
    BY <1>5, <1>6, <2>1
<1> QED
  BY <1>3, <1>6 DEF WithReason

\* No other step asks for an update or touches a label, but a person's.
LEMMA StepWithReason ==
    ASSUME Inv, edits \in Nat, [Next]_vars
    PROVE  WithReason
<1>1. ASSUME UNCHANGED <<labels, update>> PROVE WithReason
  BY <1>1 DEF WithReason
<1>2. ASSUME NEW e \in Evaluators, UNCHANGED labels, update' = [update EXCEPT ![e] = None]
      PROVE  WithReason
  <2>1. \A d \in Evaluators : update[d] # update'[d] => update'[d] = None
    BY <1>2 DEF Inv, Types
  <2> QED
    BY <1>2, <2>1 DEF WithReason
<1>3. ASSUME NEW e \in Evaluators, Step(e)
      PROVE  WithReason
  <2>1. CASE AddLabels(e) \/ RemoveLabel(e)
    BY <2>1, RequestWithReason
  <2>2. CASE Take(e) \/ End(e)
    BY <1>1, <2>2 DEF Take, End, issueVars
  <2>3. CASE RemoveFails(e)
    BY <1>2, <2>3 DEF RemoveFails, Requeue, issueVars
  <2>4. CASE \/ TagFromTitle(e) \/ TagFromPaths(e) \/ Merge(e)
             \/ UpdateStdenvLabels(e) \/ UpdateNewPackageLabels(e)
             \/ RecordImpactedMaintainers(e) \/ NoMaintainers(e) \/ UpdateRebuildLabels(e)
    <3>1. at[e] # "idle"
      BY <2>4 DEF TagFromTitle, TagFromPaths, Merge, UpdateStdenvLabels, UpdateNewPackageLabels,
                  RecordImpactedMaintainers, NoMaintainers, UpdateRebuildLabels, Stands
    <3> QED
      BY <2>4, <3>1, AskStepWithReason
  <2> QED
    BY <1>3, <2>1, <2>2, <2>3, <2>4 DEF Step
<1>4. ASSUME NEW e \in Evaluators, Fail(e)
      PROVE  WithReason
  BY <1>1, <1>4 DEF Fail, issueVars
<1>5. ASSUME NEW e \in Evaluators, Crash(e)
      PROVE  WithReason
  BY <1>2, <1>5 DEF Crash, Requeue, issueVars
<1>6. ASSUME NEW h, Push(h)
      PROVE  WithReason
  BY <1>1, <1>6 DEF Push, issueVars
<1>7. ASSUME NEW label, Edit(label)
      PROVE  WithReason
  <2>1. edits' # edits /\ update' = update
    BY <1>7 DEF Edit, workVars
  <2> QED
    BY <2>1 DEF WithReason
<1>8. CASE Retitle
  BY <1>1, <1>8 DEF Retitle, workVars
<1>9. CASE UNCHANGED vars
  BY <1>1, <1>9 DEF vars, issueVars, workVars
<1> QED
  BY <1>3, <1>4, <1>5, <1>6, <1>7, <1>8, <1>9 DEF Next, People

\* What people do is counted.
LEMMA EditsInv == Spec => [](edits \in Nat)
<1>1. Init => edits \in Nat
  BY DEF Init
<1>2. edits \in Nat /\ [Next]_vars => (edits \in Nat)'
  <2>1. ASSUME NEW e \in Evaluators, Step(e) PROVE edits' = edits
    BY <2>1 DEF Step, Take, AddLabels, RemoveLabel, RemoveFails, Requeue, End, TagFromTitle, TagFromPaths,
                Merge, UpdateStdenvLabels, UpdateNewPackageLabels, RecordImpactedMaintainers,
                NoMaintainers, UpdateRebuildLabels, Tag, Goto, unpushed
  <2>2. ASSUME NEW e \in Evaluators, Fail(e) \/ Crash(e) PROVE edits' = edits
    BY <2>2 DEF Fail, Crash, Requeue
  <2>3. ASSUME People PROVE edits' = edits \/ edits' = edits + 1
    BY <2>3 DEF People, Push, Edit, Retitle
  <2>4. CASE UNCHANGED vars
    BY <2>4 DEF vars
  <2> QED
    BY <2>1, <2>2, <2>3, <2>4 DEF Next
<1> QED
  BY <1>1, <1>2, PTL DEF Spec

\* Labels that no tagger removes stay, and the one for maintainers is put on
\* with reason (evaluate.rs:448-462, tagger.rs:108, 294-318).
THEOREM ReasonTheorem == Spec => LabelsWithReason
<1>1. Inv /\ edits \in Nat /\ [Next]_vars => [WithReason]_vars
  BY StepWithReason
<1>2. Spec => [][WithReason]_vars
  BY <1>1, Invariant, EditsInv, PTL DEF Spec
<1>3. [WithReason]_vars <=>
      [/\ edits' = edits => (labels \ labels') \subseteq Removable
       /\ \A e \in Evaluators :
            update[e] # update'[e] /\ update'[e] # None /\ ByMaintainer \in update'[e].add =>
              MaintainedBySubmitter(job[e])]_vars
  BY DEF WithReason
<1> QED
  BY <1>2, <1>3, PTL DEF LabelsWithReason

-----------------------------------------------------------------------------
(* EvaluationFilter.                                                         *)

PullRequests == [state : {"open", "closed"}, head : Nat, base : Bases]
PullRequestEvents == [action : Filter!Actions, pull_request : PullRequests, base_changed : BOOLEAN]

Jobs == [head : Nat, base : Bases]

FilterTypes ==
    /\ branch \in Nat /\ pr \in PullRequests /\ pr.head <= branch
    /\ happened \in 1..MaxEvents /\ filterCrashes \in 0..MaxFilterCrashes
    /\ events \in Seq(PullRequestEvents)
    /\ \A n \in DOMAIN events : events[n].pull_request.head <= branch
    /\ jobs \in Seq(Jobs)
    /\ \A n \in DOMAIN jobs : jobs[n].head <= branch
    /\ todo \in {<<>>, <<"publish", "ack">>, <<"ack">>}
    /\ todo # <<>> => events # <<>>

\* The events that lead to an evaluation.
Asks(event) ==
    /\ event.action # "unknown" /\ Filter!IsRepoEligible(Repository)
    /\ event.pull_request.state = "open" /\ Filter!Interesting(event)
Asking == {i \in DOMAIN events : Asks(events[i])}

\* The last of them that waits is about the pull request as it is, and if none
\* waits the last job is.
CurrentIsAsked ==
    /\ \A i \in Asking : (\A j \in Asking : j <= i) => Filter!Job(events[i]) = Filter!Current
    /\ Asking = {} /\ Filter!IsRepoEligible(Repository) =>
           jobs # <<>> /\ Filter!Last(jobs) = Filter!Current
    /\ todo = <<"publish", "ack">> => 1 \in Asking
    /\ todo = <<"ack">> /\ 1 \in Asking =>
           jobs # <<>> /\ Filter!Last(jobs) = Filter!Job(events[1])

\* Of two that follow each other the second is about something else, and so is
\* the first of them when the last job is not its own.
AsksAnew ==
    /\ \A i, j \in Asking :
           i < j /\ (\A k \in Asking : ~(i < k /\ k < j)) /\ events[j].action # "reopened" =>
               Filter!Job(events[i]) # Filter!Job(events[j])
    /\ \A j \in Asking :
           /\ \A k \in Asking : j <= k
           /\ events[j].action # "reopened" /\ jobs # <<>> /\ ~(todo = <<"ack">> /\ j = 1)
           => Filter!Job(events[j]) # Filter!Last(jobs)

FilterInv == FilterTypes /\ CurrentIsAsked /\ (filterCrashes = 0 => AsksAnew)

\* A pull request that has just been opened, with its event yet to be handled, is right.
LEMMA FilterInit == Filter!Init => FilterInv
<1> SUFFICES ASSUME Filter!Init PROVE FilterInv
  OBVIOUS
<1>1. PICK base \in Bases : /\ pr = [state |-> "open", head |-> 0, base |-> base]
                            /\ events = <<Filter!Event("opened", pr, FALSE)>>
  BY DEF Filter!Init
<1>2. /\ branch = 0 /\ happened = 1 /\ todo = <<>> /\ jobs = <<>> /\ filterCrashes = 0
  BY DEF Filter!Init
<1>3. /\ pr \in PullRequests /\ pr.head = 0 /\ pr.state = "open"
  BY <1>1 DEF PullRequests
<1>4. /\ events[1] \in PullRequestEvents /\ events[1].pull_request = pr
      /\ events[1].action = "opened"
  BY <1>1, <1>3 DEF Filter!Event, PullRequestEvents, Filter!Actions
<1>5. DOMAIN events = {1} /\ events \in Seq(PullRequestEvents)
  <2>1. \A event \in PullRequestEvents : DOMAIN <<event>> = {1} /\ <<event>> \in Seq(PullRequestEvents)
    OBVIOUS
  <2>2. events = <<events[1]>>
    BY <1>1
  <2> QED
    BY <1>4, <2>1, <2>2
<1>6. FilterTypes
  <2>1. jobs \in Seq(Jobs) /\ DOMAIN jobs = {}
    BY <1>2
  <2> QED
    BY <1>2, <1>3, <1>4, <1>5, <2>1, PartsAssumption DEF FilterTypes
<1>7. Filter!Job(events[1]) = Filter!Current
  BY <1>4 DEF Filter!Job, Filter!Current
<1>8. Filter!IsRepoEligible(Repository) => 1 \in Asking
  BY <1>3, <1>4, <1>5 DEF Asking, Asks, Filter!Interesting
<1>9. Asking \subseteq {1}
  BY <1>5 DEF Asking
<1> QED
  BY <1>2, <1>6, <1>7, <1>8, <1>9 DEF FilterInv, CurrentIsAsked, AsksAnew

\* What an event that is appended does to those that wait.
LEMMA EventAppended ==
    ASSUME FilterInv, NEW action \in Filter!Actions, NEW now \in PullRequests, NEW changed \in BOOLEAN,
           branch' \in Nat, branch <= branch', now.head <= branch',
           Filter!Happens(action, now, changed),
           Asks(Filter!Event(action, now, changed)) /\ action # "reopened" =>
               [head |-> now.head, base |-> now.base] # Filter!Current,
           \/ Asks(Filter!Event(action, now, changed))
           \/ [head |-> now.head, base |-> now.base] = Filter!Current
           \/ ~Filter!IsRepoEligible(Repository)
    PROVE  FilterInv'
<1>0. PICK n : n = Len(events)
  OBVIOUS
<1> DEFINE event == Filter!Event(action, now, changed)
           new == n + 1
<1>1. /\ happened < MaxEvents /\ happened' = happened + 1 /\ pr' = now
      /\ events' = Append(events, event)
      /\ todo' = todo /\ jobs' = jobs /\ filterCrashes' = filterCrashes
  BY DEF Filter!Happens
<1>2. FilterTypes /\ CurrentIsAsked
  BY DEF FilterInv
<1>3. /\ event \in PullRequestEvents /\ event.pull_request = now /\ event.action = action
  BY DEF Filter!Event, PullRequestEvents
<1> HIDE DEF event
<1>4. /\ n \in Nat /\ DOMAIN events = 1..n /\ DOMAIN events' = 1..new
      /\ events'[new] = event /\ \A i \in 1..n : events'[i] = events[i]
      /\ events' \in Seq(PullRequestEvents)
  BY <1>0, <1>1, <1>2, <1>3 DEF FilterTypes
<1>5. FilterTypes'
  <2>1. happened' \in 1..MaxEvents
    BY <1>1, <1>2, PartsAssumption DEF FilterTypes
  <2>2. \A i \in DOMAIN events' : events'[i].pull_request.head <= branch'
    <3>1. \A i \in DOMAIN events : events[i].pull_request.head \in Nat
      <4>1. \A i \in DOMAIN events : events[i] \in PullRequestEvents
        BY <1>2 DEF FilterTypes
      <4> QED
        BY <4>1 DEF PullRequestEvents, PullRequests
    <3>2. now.head \in Nat /\ branch \in Nat
      BY <1>2 DEF PullRequests, FilterTypes
    <3> QED
      BY <1>2, <1>3, <1>4, <3>1, <3>2 DEF FilterTypes
  <2>3. \A i \in DOMAIN jobs' : jobs'[i].head <= branch'
    <3>1. \A i \in DOMAIN jobs : jobs[i].head \in Nat
      <4>1. \A i \in DOMAIN jobs : jobs[i] \in Jobs
        BY <1>2 DEF FilterTypes
      <4> QED
        BY <4>1 DEF Jobs
    <3> QED
      BY <1>1, <1>2, <3>1 DEF FilterTypes
  <2>4. events' # <<>>
    BY <1>4
  <2> QED
    BY <1>1, <1>2, <1>4, <2>1, <2>2, <2>3, <2>4 DEF FilterTypes
<1>6. Asking' = Asking \cup (IF Asks(event) THEN {new} ELSE {})
  <2>1. \A e : Asks(e)' <=> Asks(e)
    BY DEF Asks, Filter!IsRepoEligible, Filter!Interesting
  <2> QED
    BY <1>4, <2>1 DEF Asking
<1>7. Asking \subseteq 1..n
  BY <1>4 DEF Asking
<1>8. /\ \A i \in Asking : Filter!Job(events[i])' = Filter!Job(events[i])
      /\ Filter!Job(event) = [head |-> now.head, base |-> now.base]
      /\ Filter!Job(events[new])' = Filter!Job(event)
      /\ Filter!Current' = Filter!Job(event)
  <2>1. \A e : Filter!Job(e) = [head |-> e.pull_request.head, base |-> e.pull_request.base]
    BY DEF Filter!Job
  <2>2. /\ Filter!Job(event) = [head |-> now.head, base |-> now.base]
        /\ Filter!Current' = Filter!Job(event)
    BY <1>1, <1>3, <2>1 DEF Filter!Current
  <2>3. \A i \in Asking : Filter!Job(events[i])' = Filter!Job(events[i])
    BY <1>4, <1>7 DEF Filter!Job
  <2>4. Filter!Job(events[new])' = Filter!Job(event)
    BY <1>4 DEF Filter!Job
  <2> QED
    BY <2>2, <2>3, <2>4
<1>9. Filter!Last(jobs)' = Filter!Last(jobs)
  BY <1>1 DEF Filter!Last
<1>10. CurrentIsAsked'
  <2>1. todo' = <<"publish", "ack">> => 1 \in Asking'
    BY <1>1, <1>2, <1>6 DEF CurrentIsAsked
  <2>2. todo' = <<"ack">> /\ 1 \in Asking' =>
            jobs' # <<>> /\ Filter!Last(jobs)' = Filter!Job(events[1])'
    <3>1. todo = <<"ack">> => new # 1
      BY <1>2, <1>4 DEF FilterTypes
    <3> QED
      BY <1>1, <1>2, <1>6, <1>8, <1>9, <3>1 DEF CurrentIsAsked
  <2>3. CASE Asks(event)
    <3>1. new \in Asking' /\ \A i \in Asking' : new <= i => i = new
      BY <1>4, <1>6, <1>7, <2>3
    <3>2. \A i \in Asking' : (\A j \in Asking' : j <= i) =>
              Filter!Job(events[i])' = Filter!Current'
      BY <1>8, <3>1 DEF Filter!Job
    <3> QED
      BY <2>1, <2>2, <3>1, <3>2 DEF CurrentIsAsked
  <2>4. CASE ~Asks(event)
    <3>1. Asking' = Asking
      BY <1>6, <2>4
    <3>2. \/ Asking = {} /\ ~Filter!IsRepoEligible(Repository)
          \/ Filter!Current' = Filter!Current
      <4>1. ~Filter!IsRepoEligible(Repository) => Asking = {}
        BY DEF Asking, Asks
      <4> QED
        BY <1>8, <2>4, <4>1 DEF event
    <3>3. Filter!IsRepoEligible(Repository)' <=> Filter!IsRepoEligible(Repository)
      BY DEF Filter!IsRepoEligible
    <3> QED
      BY <1>1, <1>2, <1>8, <1>9, <2>1, <2>2, <3>1, <3>2, <3>3 DEF CurrentIsAsked
  <2> QED
    BY <2>3, <2>4
<1>11. ASSUME filterCrashes' = 0 PROVE AsksAnew'
  <2>1. AsksAnew
    BY <1>1, <1>11 DEF FilterInv
  <2>2. CASE ~Asks(event)
    <3>1. Asking' = Asking
      BY <1>6, <2>2
    <3>2. \A i \in Asking : events'[i] = events[i]
      BY <1>4, <1>7
    <3>3. ASSUME NEW i \in Asking', NEW j \in Asking', i < j,
                 \A k \in Asking' : ~(i < k /\ k < j), events'[j].action # "reopened"
          PROVE  Filter!Job(events[i])' # Filter!Job(events[j])'
      BY <1>8, <2>1, <3>1, <3>2, <3>3 DEF AsksAnew
    <3>4. ASSUME NEW j \in Asking', \A k \in Asking' : j <= k,
                 events'[j].action # "reopened", jobs' # <<>>, ~(todo' = <<"ack">> /\ j = 1)
          PROVE  Filter!Job(events[j])' # Filter!Last(jobs)'
      BY <1>1, <1>8, <1>9, <2>1, <3>1, <3>2, <3>4 DEF AsksAnew
    <3> QED
      BY <3>3, <3>4 DEF AsksAnew
  <2>3. CASE Asks(event)
    <3>1. action # "reopened" => Filter!Job(event) # Filter!Current
      BY <1>8, <2>3 DEF event
    <3>2. ASSUME NEW i \in Asking', NEW j \in Asking', i < j,
                 \A k \in Asking' : ~(i < k /\ k < j), events'[j].action # "reopened"
          PROVE  Filter!Job(events[i])' # Filter!Job(events[j])'
      <4>1. i \in Asking
        BY <1>4, <1>6, <1>7, <3>2
      <4>2. CASE j = new
        <5>1. \A k \in Asking : k <= i
          BY <1>4, <1>6, <1>7, <3>2, <4>1, <4>2
        <5> QED
          BY <1>2, <1>3, <1>4, <1>8, <3>1, <3>2, <4>1, <4>2, <5>1 DEF CurrentIsAsked
      <4>3. CASE j # new
        BY <1>4, <1>6, <1>7, <1>8, <2>1, <3>2, <4>1, <4>3 DEF AsksAnew
      <4> QED
        BY <4>2, <4>3
    <3>3. ASSUME NEW j \in Asking', \A k \in Asking' : j <= k,
                 events'[j].action # "reopened", jobs' # <<>>, ~(todo' = <<"ack">> /\ j = 1)
          PROVE  Filter!Job(events[j])' # Filter!Last(jobs)'
      <4>1. CASE j = new
        <5>1. Asking = {}
          BY <1>4, <1>6, <1>7, <3>3, <4>1
        <5>2. Filter!Last(jobs) = Filter!Current
          BY <1>2, <2>3, <5>1 DEF CurrentIsAsked, Asks
        <5> QED
          BY <1>3, <1>4, <1>8, <1>9, <3>1, <3>3, <4>1, <5>2
      <4>2. CASE j # new
        BY <1>1, <1>4, <1>6, <1>7, <1>8, <1>9, <2>1, <3>3, <4>2 DEF AsksAnew
      <4> QED
        BY <4>1, <4>2
    <3> QED
      BY <3>2, <3>3 DEF AsksAnew
  <2> QED
    BY <2>2, <2>3
<1> QED
  BY <1>5, <1>10, <1>11 DEF FilterInv

\* Where the events stay as they are, so do those that ask.
LEMMA FilterSame ==
    ASSUME FilterInv, UNCHANGED <<pr, events, todo, jobs, filterCrashes>>,
           branch' \in Nat, branch <= branch', happened' \in 1..MaxEvents
    PROVE  FilterInv'
<1>1. /\ pr' = pr /\ events' = events /\ todo' = todo /\ jobs' = jobs /\ filterCrashes' = filterCrashes
      /\ FilterTypes
  BY DEF FilterInv
<1>2. FilterTypes'
  <2>1. \A i \in DOMAIN events : events[i].pull_request.head <= branch'
    <3>1. \A i \in DOMAIN events : events[i] \in PullRequestEvents
      BY <1>1 DEF FilterTypes
    <3>2. \A i \in DOMAIN events : events[i].pull_request.head \in Nat
      BY <3>1 DEF PullRequestEvents, PullRequests
    <3> QED
      BY <1>1, <3>2 DEF FilterTypes
  <2>2. \A i \in DOMAIN jobs : jobs[i].head <= branch'
    <3>1. \A i \in DOMAIN jobs : jobs[i] \in Jobs
      BY <1>1 DEF FilterTypes
    <3> QED
      BY <1>1, <3>1 DEF FilterTypes, Jobs
  <2>3. pr.head <= branch'
    BY <1>1 DEF FilterTypes, PullRequests
  <2> QED
    BY <1>1, <2>1, <2>2, <2>3 DEF FilterTypes
<1>3. Asking' = Asking
  BY <1>1 DEF Asking, Asks, Filter!IsRepoEligible, Filter!Interesting
<1>4. /\ Filter!Current' = Filter!Current /\ Filter!Last(jobs)' = Filter!Last(jobs)
      /\ \A i : Filter!Job(events[i])' = Filter!Job(events[i])
  BY <1>1 DEF Filter!Current, Filter!Last, Filter!Job
<1>5. CurrentIsAsked'
  <2>1. Filter!IsRepoEligible(Repository)' <=> Filter!IsRepoEligible(Repository)
    BY DEF Filter!IsRepoEligible
  <2> QED
    BY <1>1, <1>3, <1>4, <2>1 DEF CurrentIsAsked, FilterInv
<1>6. filterCrashes' = 0 => AsksAnew'
  BY <1>1, <1>3, <1>4 DEF AsksAnew, FilterInv
<1> QED
  BY <1>2, <1>5, <1>6 DEF FilterInv

\* What the author does keeps the invariant.
LEMMA AuthorInv ==
    ASSUME FilterInv,
           \/ Filter!Push \/ Filter!PushWhileClosed \/ Filter!Close \/ Filter!Reopen
           \/ \E base \in Bases : Filter!ChangeBase(base)
           \/ \E action \in {"edited", "labeled", "unknown"} : Filter!ChangeElse(action)
    PROVE  FilterInv'
<1>1. FilterTypes /\ branch \in Nat /\ pr \in PullRequests /\ pr.head \in Nat /\ pr.head <= branch
  BY DEF FilterInv, FilterTypes, PullRequests
<1>2. \A action, now, changed :
          /\ Filter!Event(action, now, changed).action = action
          /\ Filter!Event(action, now, changed).pull_request = now
          /\ Filter!Event(action, now, changed).base_changed = changed
  BY DEF Filter!Event
<1>3. \A head, base : [head |-> head, base |-> base] = Filter!Current <=> head = pr.head /\ base = pr.base
  BY DEF Filter!Current
<1>4. \A action, now, changed :
          Asks(Filter!Event(action, now, changed)) <=>
              /\ action # "unknown" /\ Filter!IsRepoEligible(Repository) /\ now.state = "open"
              /\ action \in {"opened", "synchronize", "reopened"} \/ (action = "edited" /\ changed)
  BY <1>2 DEF Asks, Filter!Interesting
<1>5. {"opened", "synchronize", "reopened", "edited", "closed", "labeled", "unknown"} \subseteq Filter!Actions
  BY DEF Filter!Actions
<1>6. CASE Filter!Push
  <2> DEFINE now == [pr EXCEPT !.head = branch + 1]
  <2>1. /\ branch' = branch + 1 /\ pr.state = "open"
        /\ Filter!Happens("synchronize", now, FALSE)
    BY <1>6 DEF Filter!Push
  <2>2. now \in PullRequests /\ now.head = branch + 1 /\ now.state = "open"
    BY <1>1, <2>1 DEF PullRequests
  <2>3. now.head # pr.head
    BY <1>1, <2>2
  <2> HIDE DEF now
  <2> QED
    <3>1. [head |-> now.head, base |-> now.base] # Filter!Current
      BY <1>3, <2>3
    <3>2. Asks(Filter!Event("synchronize", now, FALSE)) <=> Filter!IsRepoEligible(Repository)
      BY <1>4, <2>2
    <3>3. "synchronize" \in Filter!Actions /\ branch' \in Nat /\ branch <= branch' /\ now.head <= branch'
      BY <1>1, <1>5, <2>1, <2>2
    <3> QED
      BY <2>1, <2>2, <3>1, <3>2, <3>3, EventAppended
<1>7. CASE Filter!PushWhileClosed
  <2>1. /\ branch' = branch + 1 /\ happened < MaxEvents /\ happened' = happened + 1
        /\ UNCHANGED <<pr, events, todo, jobs, filterCrashes>>
    BY <1>7 DEF Filter!PushWhileClosed
  <2>2. happened' \in 1..MaxEvents
    BY <1>1, <2>1, PartsAssumption DEF FilterTypes
  <2> QED
    BY <1>1, <2>1, <2>2, FilterSame
<1>8. CASE Filter!Close
  <2> DEFINE now == [pr EXCEPT !.state = "closed"]
  <2>1. branch' = branch /\ Filter!Happens("closed", now, FALSE)
    BY <1>8 DEF Filter!Close
  <2>2. now \in PullRequests /\ now.head = pr.head /\ now.base = pr.base
    BY <1>1 DEF PullRequests
  <2> HIDE DEF now
  <2> QED
    <3>1. [head |-> now.head, base |-> now.base] = Filter!Current
      BY <1>3, <2>1, <2>2
    <3>2. Asks(Filter!Event("closed", now, FALSE)) <=> FALSE
      BY <1>4, <2>2
    <3>3. "closed" \in Filter!Actions /\ branch' \in Nat /\ branch <= branch' /\ now.head <= branch'
      BY <1>1, <1>5, <2>1, <2>2
    <3> QED
      BY <2>1, <2>2, <3>1, <3>2, <3>3, EventAppended
<1>9. CASE Filter!Reopen
  <2> DEFINE now == [pr EXCEPT !.state = "open", !.head = branch]
  <2>1. branch' = branch /\ Filter!Happens("reopened", now, FALSE)
    BY <1>9 DEF Filter!Reopen
  <2>2. now \in PullRequests /\ now.head = branch /\ now.state = "open"
    BY <1>1 DEF PullRequests
  <2> HIDE DEF now
  <2> QED
    <3>1. Asks(Filter!Event("reopened", now, FALSE)) <=> Filter!IsRepoEligible(Repository)
      BY <1>4, <2>2
    <3>2. "reopened" \in Filter!Actions /\ branch' \in Nat /\ branch <= branch' /\ now.head <= branch'
      BY <1>1, <1>5, <2>1, <2>2
    <3> QED
      BY <2>1, <2>2, <3>1, <3>2, EventAppended
<1>10. ASSUME NEW base \in Bases, Filter!ChangeBase(base)
       PROVE  FilterInv'
  <2> DEFINE now == [pr EXCEPT !.base = base]
  <2>1. branch' = branch /\ pr.state = "open" /\ base # pr.base /\ Filter!Happens("edited", now, TRUE)
    BY <1>10 DEF Filter!ChangeBase
  <2>2. now \in PullRequests /\ now.head = pr.head /\ now.base = base /\ now.state = "open"
    BY <1>1, <2>1 DEF PullRequests
  <2> HIDE DEF now
  <2> QED
    <3>1. [head |-> now.head, base |-> now.base] # Filter!Current
      BY <1>3, <2>1, <2>2
    <3>2. Asks(Filter!Event("edited", now, TRUE)) <=> Filter!IsRepoEligible(Repository)
      BY <1>4, <2>2
    <3>3. "edited" \in Filter!Actions /\ branch' \in Nat /\ branch <= branch' /\ now.head <= branch'
      BY <1>1, <1>5, <2>1, <2>2
    <3> QED
      BY <2>1, <2>2, <3>1, <3>2, <3>3, EventAppended
<1>11. ASSUME NEW action \in {"edited", "labeled", "unknown"}, Filter!ChangeElse(action)
       PROVE  FilterInv'
  <2>1. branch' = branch /\ Filter!Happens(action, pr, FALSE)
    BY <1>11 DEF Filter!ChangeElse
  <2> QED
    <3>1. [head |-> pr.head, base |-> pr.base] = Filter!Current
      BY <1>3
    <3>2. ~Asks(Filter!Event(action, pr, FALSE))
      BY <1>4
    <3>3. action \in Filter!Actions /\ branch' \in Nat /\ branch <= branch' /\ pr.head <= branch'
      BY <1>1, <1>5, <2>1
    <3> QED
      BY <1>1, <2>1, <3>1, <3>2, <3>3, EventAppended
<1> QED
  BY <1>6, <1>7, <1>8, <1>9, <1>10, <1>11

\* The filter asks for an evaluation of the first event, once between crashes.
LEMMA TakeEventInv ==
    ASSUME FilterInv, Filter!Take
    PROVE  FilterInv'
<1>1. /\ todo = <<>> /\ events # <<>> /\ todo' = Filter!Response(Head(events))
      /\ pr' = pr /\ branch' = branch /\ happened' = happened /\ events' = events
      /\ jobs' = jobs /\ filterCrashes' = filterCrashes
  BY DEF Filter!Take
<1>2. FilterTypes
  BY DEF FilterInv
<1>3. Head(events) = events[1] /\ 1 \in DOMAIN events
  BY <1>1, <1>2 DEF FilterTypes
<1>4. todo' = IF 1 \in Asking THEN <<"publish", "ack">> ELSE <<"ack">>
  BY <1>1, <1>3 DEF Filter!Response, Asking, Asks
<1>5. todo' # <<>> /\ (todo' = <<"ack">> => 1 \notin Asking) /\ (todo' = <<"publish", "ack">> => 1 \in Asking)
      /\ todo' \in {<<>>, <<"publish", "ack">>, <<"ack">>}
  <2>1. <<"publish", "ack">> # <<"ack">>
    OBVIOUS
  <2> QED
    BY <1>4, <2>1
<1>6. FilterTypes'
  BY <1>1, <1>2, <1>5 DEF FilterTypes
<1>7. Asking' = Asking
  BY <1>1 DEF Asking, Asks, Filter!IsRepoEligible, Filter!Interesting
<1>8. /\ Filter!Current' = Filter!Current /\ Filter!Last(jobs)' = Filter!Last(jobs)
      /\ \A i : Filter!Job(events[i])' = Filter!Job(events[i])
      /\ Filter!IsRepoEligible(Repository)' <=> Filter!IsRepoEligible(Repository)
  BY <1>1 DEF Filter!Current, Filter!Last, Filter!Job, Filter!IsRepoEligible
<1>9. CurrentIsAsked'
  BY <1>1, <1>5, <1>7, <1>8 DEF CurrentIsAsked, FilterInv
<1>10. ASSUME filterCrashes' = 0 PROVE AsksAnew'
  BY <1>1, <1>5, <1>7, <1>8, <1>10 DEF AsksAnew, FilterInv
<1> QED
  BY <1>6, <1>9, <1>10 DEF FilterInv

\* What the worker does with an event, taken one by one.
LEMMA Answers ==
    /\ Head(<<"publish", "ack">>) = "publish" /\ Tail(<<"publish", "ack">>) = <<"ack">>
    /\ Head(<<"ack">>) = "ack" /\ Tail(<<"ack">>) = <<>>
<1>1. Tail(<<"publish", "ack">>) = <<"ack">>
  OBVIOUS
<1>2. Tail(<<"ack">>) = <<>>
  OBVIOUS
<1> QED
  BY <1>1, <1>2

\* A job that is published keeps the invariant.
LEMMA PublishJobInv ==
    ASSUME FilterInv, Filter!PublishJob
    PROVE  FilterInv'
<1>1. /\ todo # <<>> /\ Head(todo) = "publish" /\ jobs' = Append(jobs, Filter!Job(Head(events)))
      /\ todo' = Tail(todo)
      /\ pr' = pr /\ branch' = branch /\ happened' = happened /\ events' = events
      /\ filterCrashes' = filterCrashes
  BY DEF Filter!PublishJob
<1>2. FilterTypes
  BY DEF FilterInv
<1>3. todo = <<"publish", "ack">> /\ todo' = <<"ack">>
  <2>1. todo = <<"publish", "ack">>
    BY <1>1, <1>2, Answers DEF FilterTypes
  <2> QED
    BY <1>1, <2>1, Answers
<1>4. 1 \in Asking /\ Head(events) = events[1] /\ 1 \in DOMAIN events
  BY <1>2, <1>3 DEF FilterInv, CurrentIsAsked, Asking, FilterTypes
<1>5. Filter!Job(events[1]) \in Jobs /\ Filter!Job(events[1]).head <= branch
  <2>1. events[1] \in PullRequestEvents /\ events[1].pull_request.head <= branch
    BY <1>2, <1>4 DEF FilterTypes
  <2> QED
    BY <2>1 DEF PullRequestEvents, PullRequests, Jobs, Filter!Job
<1> DEFINE asked == Filter!Job(events[1])
<1>6. /\ jobs' = Append(jobs, asked) /\ jobs' \in Seq(Jobs) /\ jobs' # <<>>
      /\ DOMAIN jobs' = 1..Len(jobs) + 1 /\ DOMAIN jobs = 1..Len(jobs) /\ Len(jobs) \in Nat
      /\ Len(jobs') = Len(jobs) + 1 /\ jobs'[Len(jobs) + 1] = asked
      /\ \A i \in DOMAIN jobs : jobs'[i] = jobs[i]
  <2> HIDE DEF asked
  <2>1. jobs' = Append(jobs, asked) /\ asked \in Jobs /\ jobs \in Seq(Jobs)
    BY <1>1, <1>2, <1>4, <1>5 DEF asked, FilterTypes
  <2> QED
    BY <2>1
<1>7. FilterTypes'
  <2>1. \A i \in DOMAIN jobs' : jobs'[i].head <= branch'
    BY <1>1, <1>2, <1>5, <1>6 DEF FilterTypes
  <2>2. todo' \in {<<>>, <<"publish", "ack">>, <<"ack">>} /\ events' # <<>>
    BY <1>1, <1>2, <1>3 DEF FilterTypes
  <2> QED
    BY <1>1, <1>2, <1>6, <2>1, <2>2 DEF FilterTypes
<1>8. Asking' = Asking
  BY <1>1 DEF Asking, Asks, Filter!IsRepoEligible, Filter!Interesting
<1>9. /\ Filter!Current' = Filter!Current
      /\ \A i : Filter!Job(events[i])' = Filter!Job(events[i])
      /\ Filter!Last(jobs)' = asked
  <2>1. \A i : Filter!Job(events[i])' = Filter!Job(events[i])
    BY <1>1 DEF Filter!Job
  <2>2. Filter!Last(jobs)' = asked
    BY <1>6 DEF Filter!Last
  <2> QED
    BY <1>1, <2>1, <2>2 DEF Filter!Current
<1>10. <<"publish", "ack">> # <<"ack">>
  OBVIOUS
<1>11. CurrentIsAsked'
  BY <1>1, <1>3, <1>4, <1>6, <1>8, <1>9, <1>10 DEF CurrentIsAsked, FilterInv
<1>12. ASSUME filterCrashes' = 0 PROVE AsksAnew'
  <2>1. \A j \in Asking : (\A k \in Asking : j <= k) => j = 1
    BY <1>2, <1>4 DEF Asking, FilterTypes
  <2> QED
    BY <1>1, <1>3, <1>8, <1>9, <1>12, <2>1 DEF AsksAnew, FilterInv
<1> QED
  BY <1>7, <1>11, <1>12 DEF FilterInv

\* An event that is acknowledged keeps the invariant.
LEMMA AckEventInv ==
    ASSUME FilterInv, Filter!AckEvent
    PROVE  FilterInv'
<1>1. /\ todo # <<>> /\ Head(todo) = "ack" /\ events' = Tail(events) /\ todo' = Tail(todo)
      /\ pr' = pr /\ branch' = branch /\ happened' = happened /\ jobs' = jobs
      /\ filterCrashes' = filterCrashes
  BY DEF Filter!AckEvent
<1>2. FilterTypes /\ CurrentIsAsked
  BY DEF FilterInv
<1>3. todo = <<"ack">> /\ todo' = <<>> /\ events # <<>>
  <2>1. todo = <<"ack">> /\ events # <<>>
    BY <1>1, <1>2, Answers DEF FilterTypes
  <2> QED
    BY <1>1, <2>1, Answers
<1>4. PICK n \in Nat : n + 1 = Len(events)
  <2>1. events \in Seq(PullRequestEvents) /\ events # <<>>
    BY <1>2, <1>3 DEF FilterTypes
  <2>2. Len(events) \in Nat /\ Len(events) # 0
    BY <2>1
  <2>3. Len(events) - 1 \in Nat /\ Len(events) - 1 + 1 = Len(events)
    BY <2>2
  <2> QED
    BY <2>3
<1>5. /\ DOMAIN events = 1..n + 1 /\ DOMAIN events' = 1..n /\ events' \in Seq(PullRequestEvents)
      /\ \A i \in 1..n : events'[i] = events[i + 1]
  BY <1>1, <1>2, <1>3, <1>4 DEF FilterTypes
<1>6. FilterTypes'
  BY <1>1, <1>2, <1>3, <1>4, <1>5 DEF FilterTypes
<1>7. Asking \subseteq 1..n + 1 /\ Asking' \subseteq 1..n
      /\ \A i \in 1..n : i \in Asking' <=> i + 1 \in Asking
  <2>1. \A e : Asks(e)' <=> Asks(e)
    BY DEF Asks, Filter!IsRepoEligible, Filter!Interesting
  <2> QED
    BY <1>4, <1>5, <2>1 DEF Asking
<1>8. /\ Filter!Current' = Filter!Current /\ Filter!Last(jobs)' = Filter!Last(jobs)
      /\ \A i \in 1..n : Filter!Job(events[i])' = Filter!Job(events[i + 1])
      /\ Filter!IsRepoEligible(Repository)' <=> Filter!IsRepoEligible(Repository)
  <2>1. \A i \in 1..n : Filter!Job(events[i])' = Filter!Job(events[i + 1])
    BY <1>5 DEF Filter!Job
  <2> QED
    BY <1>1, <2>1 DEF Filter!Current, Filter!Last, Filter!IsRepoEligible
<1>9. \A i \in Asking : i = 1 \/ (i - 1 \in Asking' /\ i - 1 \in 1..n)
  BY <1>4, <1>7
<1>10. <<>> # <<"ack">> /\ <<>> # <<"publish", "ack">>
  OBVIOUS
<1>11. CurrentIsAsked'
  <2>1. ASSUME NEW i \in Asking', \A j \in Asking' : j <= i
        PROVE  Filter!Job(events[i])' = Filter!Current'
    <3>1. i + 1 \in Asking /\ i \in 1..n
      BY <1>7, <2>1
    <3>2. \A j \in Asking : j <= i + 1
      BY <1>4, <1>7, <1>9, <2>1, <3>1
    <3> QED
      BY <1>2, <1>8, <3>1, <3>2 DEF CurrentIsAsked
  <2>2. ASSUME Asking' = {}, Filter!IsRepoEligible(Repository)
        PROVE  jobs # <<>> /\ Filter!Last(jobs) = Filter!Current
    <3>1. Asking = {} \/ Asking = {1}
      BY <1>9, <2>2
    <3>2. CASE Asking = {1}
      BY <1>2, <1>3, <3>2 DEF CurrentIsAsked
    <3> QED
      BY <1>2, <2>2, <3>1, <3>2 DEF CurrentIsAsked
  <2> QED
    BY <1>1, <1>3, <1>8, <1>10, <2>1, <2>2 DEF CurrentIsAsked
<1>12. ASSUME filterCrashes' = 0 PROVE AsksAnew'
  <2>1. AsksAnew
    BY <1>1, <1>12 DEF FilterInv
  <2>2. ASSUME NEW i \in Asking', NEW j \in Asking', i < j,
               \A k \in Asking' : ~(i < k /\ k < j), events'[j].action # "reopened"
        PROVE  Filter!Job(events[i])' # Filter!Job(events[j])'
    <3>1. /\ i + 1 \in Asking /\ j + 1 \in Asking /\ i + 1 < j + 1 /\ i \in 1..n /\ j \in 1..n
      BY <1>7, <2>2
    <3>2. \A k \in Asking : ~(i + 1 < k /\ k < j + 1)
      BY <1>4, <1>7, <1>9, <2>2, <3>1
    <3>3. events[j + 1].action # "reopened"
      BY <1>5, <2>2, <3>1
    <3> QED
      BY <1>8, <2>1, <3>1, <3>2, <3>3 DEF AsksAnew
  <2>3. ASSUME NEW j \in Asking', \A k \in Asking' : j <= k,
               events'[j].action # "reopened", jobs' # <<>>
        PROVE  Filter!Job(events[j])' # Filter!Last(jobs)'
    <3>1. j + 1 \in Asking /\ j \in 1..n /\ events[j + 1].action # "reopened"
      BY <1>5, <1>7, <2>3
    <3>2. \A k \in Asking : k = 1 \/ j + 1 <= k
      BY <1>4, <1>7, <1>9, <2>3, <3>1
    <3>3. CASE 1 \in Asking
      <4>1. \A k \in Asking : ~(1 < k /\ k < j + 1)
        BY <1>4, <1>7, <3>1, <3>2
      <4>2. Filter!Job(events[1]) # Filter!Job(events[j + 1])
        BY <2>1, <3>1, <3>3, <4>1 DEF AsksAnew
      <4>3. Filter!Last(jobs) = Filter!Job(events[1])
        BY <1>2, <1>3, <3>3 DEF CurrentIsAsked
      <4> QED
        BY <1>8, <3>1, <4>2, <4>3
    <3>4. CASE 1 \notin Asking
      <4>1. \A k \in Asking : j + 1 <= k
        BY <3>2, <3>4
      <4> QED
        BY <1>1, <1>8, <2>1, <2>3, <3>1, <3>4, <4>1 DEF AsksAnew
    <3> QED
      BY <3>3, <3>4
  <2> QED
    BY <2>2, <2>3 DEF AsksAnew
<1> QED
  BY <1>6, <1>11, <1>12 DEF FilterInv

\* An event that is delivered again keeps the invariant.
LEMMA FilterCrashInv ==
    ASSUME FilterInv, Filter!Crash
    PROVE  FilterInv'
<1>1. /\ todo' = <<>> /\ filterCrashes < MaxFilterCrashes /\ filterCrashes' = filterCrashes + 1
      /\ pr' = pr /\ branch' = branch /\ happened' = happened /\ events' = events /\ jobs' = jobs
  BY DEF Filter!Crash
<1>2. FilterTypes /\ CurrentIsAsked
  BY DEF FilterInv
<1>3. filterCrashes' \in 0..MaxFilterCrashes /\ filterCrashes' # 0
  BY <1>1, <1>2, PartsAssumption DEF FilterTypes
<1>4. FilterTypes'
  BY <1>1, <1>2, <1>3 DEF FilterTypes
<1>5. Asking' = Asking
  BY <1>1 DEF Asking, Asks, Filter!IsRepoEligible, Filter!Interesting
<1>6. /\ Filter!Current' = Filter!Current /\ Filter!Last(jobs)' = Filter!Last(jobs)
      /\ \A i : Filter!Job(events[i])' = Filter!Job(events[i])
      /\ Filter!IsRepoEligible(Repository)' <=> Filter!IsRepoEligible(Repository)
  BY <1>1 DEF Filter!Current, Filter!Last, Filter!Job, Filter!IsRepoEligible
<1>7. <<>> # <<"ack">> /\ <<>> # <<"publish", "ack">>
  OBVIOUS
<1> QED
  BY <1>1, <1>2, <1>3, <1>4, <1>5, <1>6, <1>7 DEF FilterInv, CurrentIsAsked

\* Every step keeps the invariant of the filter.
LEMMA FilterStep == FilterInv /\ [Filter!Next]_Filter!vars => FilterInv'
<1> SUFFICES ASSUME FilterInv, [Filter!Next]_Filter!vars PROVE FilterInv'
  OBVIOUS
<1>1. CASE UNCHANGED Filter!vars
  <2>1. UNCHANGED <<pr, branch, happened, events, todo, jobs, filterCrashes>>
    BY <1>1 DEF Filter!vars
  <2>2. branch \in Nat /\ happened \in 1..MaxEvents
    BY DEF FilterInv, FilterTypes
  <2> QED
    BY <2>1, <2>2, FilterSame
<1> QED
  BY <1>1, AuthorInv, TakeEventInv, PublishJobInv, AckEventInv, FilterCrashInv DEF Filter!Next, Filter!Filter

\* What the invariant says of the events and jobs that are to be seen.
LEMMA FilterShows == FilterInv => Filter!TypeInv /\ Filter!LastEvaluationIsCurrent
<1> SUFFICES ASSUME FilterInv PROVE Filter!TypeInv /\ Filter!LastEvaluationIsCurrent
  OBVIOUS
<1>1. FilterTypes /\ CurrentIsAsked
  BY DEF FilterInv
<1>2. Filter!TypeInv
  <2>1. \A n \in DOMAIN events : events[n].action \in Filter!Actions
    <3>1. \A n \in DOMAIN events : events[n] \in PullRequestEvents
      BY <1>1 DEF FilterTypes
    <3> QED
      BY <3>1 DEF PullRequestEvents
  <2>2. \A n \in DOMAIN jobs : jobs[n].head \in 0..branch
    <3>1. \A n \in DOMAIN jobs : jobs[n] \in Jobs
      BY <1>1 DEF FilterTypes
    <3> QED
      BY <1>1, <3>1 DEF FilterTypes, Jobs
  <2>3. pr.state \in {"open", "closed"} /\ pr.head \in 0..branch /\ pr.base \in Bases
    BY <1>1 DEF FilterTypes, PullRequests
  <2> QED
    BY <1>1, <2>1, <2>2, <2>3 DEF FilterTypes, Filter!TypeInv
<1>3. events = <<>> => Asking = {}
  BY DEF Asking
<1> QED
  BY <1>1, <1>2, <1>3 DEF Filter!LastEvaluationIsCurrent, CurrentIsAsked

\* Once its events are handled an open pull request has been evaluated as it is
\* (evaluationfilter.rs:25-104).
THEOREM FilterTheorem == Filter!Spec => [](Filter!TypeInv /\ Filter!LastEvaluationIsCurrent)
<1>1. Filter!Spec => []FilterInv
  BY FilterInit, FilterStep, PTL DEF Filter!Spec
<1> QED
  BY <1>1, FilterShows, PTL

\* Two jobs that follow each other differ, but for a crash or a pull request that
\* was reopened (evaluationfilter.rs:58-76).
THEOREM NoNeedlessTheorem == Filter!Spec => NoNeedlessEvaluation
<1>1. FilterInv /\ [Filter!Next]_Filter!vars =>
          [jobs' # jobs /\ jobs # <<>> /\ filterCrashes = 0 /\ Head(events).action # "reopened"
            => Filter!Last(jobs') # Filter!Last(jobs)]_Filter!vars
  <2> SUFFICES ASSUME FilterInv, Filter!Next, jobs' # jobs, jobs # <<>>, filterCrashes = 0,
                      Head(events).action # "reopened"
               PROVE  Filter!Last(jobs') # Filter!Last(jobs)
    BY DEF Filter!vars
  <2>1. Filter!PublishJob
    BY DEF Filter!Next, Filter!Filter, Filter!Push, Filter!PushWhileClosed, Filter!Close, Filter!Reopen,
           Filter!ChangeBase, Filter!ChangeElse, Filter!Happens, Filter!Take, Filter!AckEvent,
           Filter!Crash
  <2>2. FilterTypes /\ CurrentIsAsked /\ AsksAnew
    BY DEF FilterInv
  <2>3. /\ todo # <<>> /\ Head(todo) = "publish" /\ jobs' = Append(jobs, Filter!Job(Head(events)))
    BY <2>1 DEF Filter!PublishJob
  <2>4. todo = <<"publish", "ack">> /\ <<"publish", "ack">> # <<"ack">>
    BY <2>2, <2>3 DEF FilterTypes
  <2>5. 1 \in Asking /\ Head(events) = events[1]
    BY <2>2, <2>4 DEF CurrentIsAsked, FilterTypes, Asking
  <2>6. \A k \in Asking : 1 <= k
    BY <2>2 DEF Asking, FilterTypes
  <2>7. Filter!Job(events[1]) # Filter!Last(jobs)
    BY <2>2, <2>4, <2>5, <2>6 DEF AsksAnew
  <2>8. Filter!Last(jobs') = Filter!Job(events[1])
    <3>1. \A job_ : Len(Append(jobs, job_)) = Len(jobs) + 1 /\ Append(jobs, job_)[Len(jobs) + 1] = job_
      BY <2>2 DEF FilterTypes
    <3> QED
      BY <2>3, <2>5, <3>1 DEF Filter!Last
  <2> QED
    BY <2>7, <2>8
<1>2. Filter!Spec => []FilterInv
  BY FilterInit, FilterStep, PTL DEF Filter!Spec
<1> QED
  BY <1>1, <1>2, PTL DEF Filter!Spec, NoNeedlessEvaluation, Filter!NoNeedlessEvaluation

-----------------------------------------------------------------------------
(* VendingMachine.                                                           *)

Caches == UNION {[known -> Nat] : known \in SUBSET Repos}

MachineTypes ==
    /\ install \in [Repos -> Nat] /\ ids \in Nat /\ removals \in Nat
    /\ deliveries \in [Clients -> Seq(Repos)]
    /\ place \in [Clients -> {"idle", "asking", "answered", "requesting"}]
    /\ id_cache \in [Clients -> Caches]
    /\ client_cache \in [Clients -> SUBSET Nat]
    /\ lost \in [Clients -> Nat] /\ excused \in [Clients -> Nat]

\* What a worker has in its caches, and where it is with its first message.
ClientRight(w) ==
    /\ place[w] # "idle" => deliveries[w] # <<>>
    /\ place[w] \in {"answered", "requesting"} => Machine!Repo(w) \in DOMAIN id_cache[w]
    /\ place[w] = "requesting" => Machine!Id(w) \in client_cache[w]
    /\ client_cache[w] \subseteq Machine!Known(w)
    /\ \A r \in DOMAIN id_cache[w] :
           id_cache[w][r] = Machine!NoInstall => place[w] = "answered" /\ r = Machine!Repo(w)
    /\ excused[w] <= lost[w]
    /\ lost[w] > excused[w] => removals > 0

\* As long as nobody removes the app what is remembered of it holds.
MemoryHolds(w) ==
    removals = 0 => \A r \in DOMAIN id_cache[w] :
        id_cache[w][r] = Machine!NoInstall \/ install[r] = id_cache[w][r]

MachineInv ==
    /\ MachineTypes
    /\ \A w \in Clients : ClientRight(w) /\ MemoryHolds(w)
    /\ \A r \in Repos : install[r] <= ids

\* An empty cache is a cache that knows of no repository.
LEMMA NothingCached == Machine!Nothing \in Caches /\ DOMAIN Machine!Nothing = {}
<1>1. <<>> \in [{} -> Nat] /\ DOMAIN <<>> = {}
  OBVIOUS
<1>2. {} \in SUBSET Repos
  OBVIOUS
<1> QED
  BY <1>1, <1>2 DEF Machine!Nothing, Caches

\* Workers that have just started are right.
LEMMA MachineInit == Machine!Init => MachineInv
<1> SUFFICES ASSUME Machine!Init PROVE MachineInv
  OBVIOUS
<1>1. /\ install \in [Repos -> {0, 1}] /\ deliveries = Deliveries
      /\ place = [w \in Clients |-> "idle"] /\ id_cache = [w \in Clients |-> Machine!Nothing]
      /\ client_cache = [w \in Clients |-> {}] /\ lost = [w \in Clients |-> 0]
      /\ excused = [w \in Clients |-> 0] /\ ids = 1 /\ removals = 0
  BY DEF Machine!Init, Machine!NoInstall
<1>2. MachineTypes
  <2>1. id_cache \in [Clients -> Caches] /\ client_cache \in [Clients -> SUBSET Nat]
    BY <1>1, NothingCached
  <2>2. /\ place \in [Clients -> {"idle", "asking", "answered", "requesting"}]
        /\ lost \in [Clients -> Nat] /\ excused \in [Clients -> Nat]
    BY <1>1
  <2>3. install \in [Repos -> Nat] /\ ids \in Nat /\ removals \in Nat
    BY <1>1
  <2>4. deliveries \in [Clients -> Seq(Repos)]
    BY <1>1, PartsAssumption
  <2> QED
    BY <2>1, <2>2, <2>3, <2>4 DEF MachineTypes
<1>3. \A w \in Clients : ClientRight(w) /\ MemoryHolds(w)
  BY <1>1, NothingCached DEF ClientRight, MemoryHolds
<1> QED
  BY <1>1, <1>2, <1>3 DEF MachineInv

\* A step of one worker leaves the others as they are.
OnlyClient(w) ==
    /\ \A v \in Clients \ {w} :
           /\ deliveries'[v] = deliveries[v] /\ place'[v] = place[v]
           /\ id_cache'[v] = id_cache[v] /\ client_cache'[v] = client_cache[v]
           /\ lost'[v] = lost[v] /\ excused'[v] = excused[v]
    /\ UNCHANGED <<install, ids, removals>>

\* A step of one worker keeps what is true of the others.
LEMMA OthersRight ==
    ASSUME MachineInv, NEW w \in Clients, OnlyClient(w), MachineTypes',
           ClientRight(w)', MemoryHolds(w)'
    PROVE  MachineInv'
<1>1. install' = install /\ ids' = ids /\ removals' = removals
  BY DEF OnlyClient
<1>2. ASSUME NEW v \in Clients, v # w
      PROVE  ClientRight(v)' /\ MemoryHolds(v)'
  BY <1>1, <1>2 DEF MachineInv, OnlyClient, ClientRight, MemoryHolds, Machine!Repo, Machine!Id,
                    Machine!Known
<1>3. \A r \in Repos : install'[r] <= ids'
  BY <1>1 DEF MachineInv
<1> QED
  BY <1>2, <1>3 DEF MachineInv

\* What is looked up is remembered beside what was.
LEMMA RememberCache ==
    ASSUME MachineTypes, NEW w \in Clients, deliveries[w] # <<>>, NEW id \in Nat,
           Machine!Remember(w, id)
    PROVE  /\ id_cache' \in [Clients -> Caches]
           /\ \A v \in Clients \ {w} : id_cache'[v] = id_cache[v]
           /\ DOMAIN id_cache'[w] = DOMAIN id_cache[w] \cup {Machine!Repo(w)}
           /\ \A r \in DOMAIN id_cache[w] : id_cache'[w][r] = id_cache[w][r]
           /\ Machine!Repo(w) \notin DOMAIN id_cache[w] => id_cache'[w][Machine!Repo(w)] = id
<1> DEFINE cache == id_cache[w]
           repo == Machine!Repo(w)
           new == [r \in DOMAIN cache \cup {repo} |-> IF r \in DOMAIN cache THEN cache[r] ELSE id]
<1>1. id_cache' = [id_cache EXCEPT ![w] = new]
  BY DEF Machine!Remember
<1>2. PICK known \in SUBSET Repos : cache \in [known -> Nat]
  BY DEF MachineTypes, Caches
<1>3. repo \in Repos
  BY DEF Machine!Repo, MachineTypes
<1>4. new \in [known \cup {repo} -> Nat] /\ known \cup {repo} \in SUBSET Repos
  BY <1>2, <1>3
<1>5. new \in Caches
  BY <1>4 DEF Caches
<1>6. /\ DOMAIN new = DOMAIN cache \cup {repo}
      /\ \A r \in DOMAIN cache : new[r] = cache[r]
      /\ repo \notin DOMAIN cache => new[repo] = id
  OBVIOUS
<1> HIDE DEF new
<1>7. id_cache'[w] = new /\ \A v \in Clients \ {w} : id_cache'[v] = id_cache[v]
  BY <1>1 DEF MachineTypes
<1> QED
  BY <1>1, <1>5, <1>6, <1>7 DEF MachineTypes

\* The answer to a lookup is that of GitHub at the time, or that there is none.
LEMMA LookupInv ==
    ASSUME MachineInv, NEW w \in Clients, Machine!InstallIdForRepo(w) \/ Machine!LookupFails(w)
    PROVE  MachineInv'
<1>1. MachineTypes /\ ClientRight(w) /\ MemoryHolds(w)
  BY DEF MachineInv
<1>2. /\ place[w] = "asking" /\ place' = [place EXCEPT ![w] = "answered"]
      /\ install' = install /\ deliveries' = deliveries /\ client_cache' = client_cache
      /\ lost' = lost /\ excused' = excused /\ ids' = ids /\ removals' = removals
  BY DEF Machine!InstallIdForRepo, Machine!LookupFails
<1>3. deliveries[w] # <<>> /\ Machine!Repo(w) \in Repos
  BY <1>1, <1>2 DEF ClientRight, MachineTypes, Machine!Repo
<1>4. PICK id \in Nat : Machine!Remember(w, id) /\ (id = Machine!NoInstall \/ id = install[Machine!Repo(w)])
  <2>1. install[Machine!Repo(w)] \in Nat /\ Machine!NoInstall \in Nat
    BY <1>1, <1>3 DEF MachineTypes, Machine!NoInstall
  <2> QED
    BY <2>1 DEF Machine!InstallIdForRepo, Machine!LookupFails
<1>5. /\ id_cache' \in [Clients -> Caches]
      /\ \A v \in Clients \ {w} : id_cache'[v] = id_cache[v]
      /\ DOMAIN id_cache'[w] = DOMAIN id_cache[w] \cup {Machine!Repo(w)}
      /\ \A r \in DOMAIN id_cache[w] : id_cache'[w][r] = id_cache[w][r]
      /\ Machine!Repo(w) \notin DOMAIN id_cache[w] => id_cache'[w][Machine!Repo(w)] = id
  BY <1>1, <1>3, <1>4, RememberCache
<1>6. MachineTypes' /\ OnlyClient(w) /\ place'[w] = "answered"
  BY <1>1, <1>2, <1>5 DEF MachineTypes, OnlyClient
<1>7. Machine!Repo(w)' = Machine!Repo(w)
  BY <1>2 DEF Machine!Repo
<1>8. ClientRight(w)'
  <2>1. Machine!Known(w) \subseteq Machine!Known(w)'
    BY <1>5 DEF Machine!Known
  <2>2. \A r \in DOMAIN id_cache'[w] : id_cache'[w][r] = Machine!NoInstall => r = Machine!Repo(w)
    BY <1>1, <1>2, <1>5 DEF ClientRight
  <2> QED
    BY <1>1, <1>2, <1>3, <1>5, <1>6, <1>7, <2>1, <2>2 DEF ClientRight
<1>9. MemoryHolds(w)'
  BY <1>1, <1>2, <1>4, <1>5 DEF MemoryHolds
<1> QED
  BY <1>6, <1>8, <1>9, OthersRight

\* A worker that takes a delivery keeps the invariant.
LEMMA TakeDeliveryInv ==
    ASSUME MachineInv, NEW w \in Clients, Machine!Take(w)
    PROVE  MachineInv'
<1>1. MachineTypes /\ ClientRight(w) /\ MemoryHolds(w)
  BY DEF MachineInv
<1>2. /\ place[w] = "idle" /\ deliveries[w] # <<>> /\ place' = [place EXCEPT ![w] = "asking"]
      /\ install' = install /\ deliveries' = deliveries /\ id_cache' = id_cache
      /\ client_cache' = client_cache
      /\ lost' = lost /\ excused' = excused /\ ids' = ids /\ removals' = removals
  BY DEF Machine!Take
<1>3. MachineTypes' /\ OnlyClient(w) /\ place'[w] = "asking"
  BY <1>1, <1>2 DEF MachineTypes, OnlyClient
<1>4. ClientRight(w)'
  BY <1>1, <1>2, <1>3 DEF ClientRight, Machine!Known
<1>5. MemoryHolds(w)'
  BY <1>1, <1>2 DEF MemoryHolds
<1> QED
  BY <1>3, <1>4, <1>5, OthersRight

\* A process that starts remembers nothing.
LEMMA RestartInv ==
    ASSUME MachineInv, NEW w \in Clients, Machine!Restart(w)
    PROVE  MachineInv'
<1>1. MachineTypes /\ ClientRight(w)
  BY DEF MachineInv
<1>2. /\ place' = [place EXCEPT ![w] = "idle"] /\ id_cache' = [id_cache EXCEPT ![w] = Machine!Nothing]
      /\ client_cache' = [client_cache EXCEPT ![w] = {}]
      /\ install' = install /\ deliveries' = deliveries
      /\ lost' = lost /\ excused' = excused /\ ids' = ids /\ removals' = removals
  BY DEF Machine!Restart
<1>3. /\ MachineTypes' /\ OnlyClient(w) /\ place'[w] = "idle" /\ id_cache'[w] = Machine!Nothing
      /\ client_cache'[w] = {}
  BY <1>1, <1>2, NothingCached DEF MachineTypes, OnlyClient
<1>4. ClientRight(w)' /\ MemoryHolds(w)'
  BY <1>1, <1>2, <1>3, NothingCached DEF ClientRight, MemoryHolds
<1> QED
  BY <1>3, <1>4, OthersRight

\* A client that is handed out is one of an installation that was looked up.
LEMMA ForRepoInv ==
    ASSUME MachineInv, NEW w \in Clients, Machine!ForRepo(w)
    PROVE  MachineInv'
<1>1. MachineTypes /\ ClientRight(w) /\ MemoryHolds(w)
  BY DEF MachineInv
<1>2. /\ place[w] = "answered" /\ Machine!Id(w) # Machine!NoInstall
      /\ client_cache' = [client_cache EXCEPT ![w] = @ \cup {Machine!Id(w)}]
      /\ place' = [place EXCEPT ![w] = "requesting"]
      /\ install' = install /\ deliveries' = deliveries /\ id_cache' = id_cache
      /\ lost' = lost /\ excused' = excused /\ ids' = ids /\ removals' = removals
  BY DEF Machine!ForRepo
<1>3. /\ Machine!Repo(w) \in DOMAIN id_cache[w]
      /\ Machine!Id(w) = id_cache[w][Machine!Repo(w)]
      /\ Machine!Id(w) \in Machine!Known(w)
  BY <1>1, <1>2 DEF ClientRight, Machine!Id, Machine!Known
<1>4. Machine!Id(w) \in Nat
  BY <1>1, <1>3 DEF MachineTypes, Caches
<1>5. /\ MachineTypes' /\ OnlyClient(w) /\ place'[w] = "requesting"
      /\ client_cache'[w] = client_cache[w] \cup {Machine!Id(w)}
  BY <1>1, <1>2, <1>4 DEF MachineTypes, OnlyClient
<1>6. /\ Machine!Repo(w)' = Machine!Repo(w) /\ Machine!Id(w)' = Machine!Id(w)
      /\ Machine!Known(w)' = Machine!Known(w)
  BY <1>2 DEF Machine!Repo, Machine!Id, Machine!Known
<1>7. \A r \in DOMAIN id_cache[w] : id_cache[w][r] # Machine!NoInstall
  BY <1>1, <1>2, <1>3 DEF ClientRight
<1>8. ClientRight(w)'
  BY <1>1, <1>2, <1>3, <1>5, <1>6, <1>7 DEF ClientRight
<1>9. MemoryHolds(w)'
  BY <1>1, <1>2 DEF MemoryHolds
<1> QED
  BY <1>5, <1>8, <1>9, OthersRight

\* A message is acknowledged, in vain only where the app was removed or GitHub
\* refused for another reason.
LEMMA RequestInv ==
    ASSUME MachineInv, NEW w \in Clients,
           Machine!Request(w) \/ Machine!Refused(w) \/ Machine!RequestFails(w)
    PROVE  MachineInv'
<1>1. MachineTypes /\ ClientRight(w) /\ MemoryHolds(w)
  BY DEF MachineInv
<1>2. /\ place[w] = "requesting" /\ place' = [place EXCEPT ![w] = "idle"]
      /\ deliveries' = [deliveries EXCEPT ![w] = Tail(@)]
      /\ install' = install /\ id_cache' = id_cache /\ client_cache' = client_cache
      /\ ids' = ids /\ removals' = removals
  BY DEF Machine!Request, Machine!Refused, Machine!RequestFails, Machine!Ack
<1>3. deliveries[w] # <<>> /\ Tail(deliveries[w]) \in Seq(Repos)
  BY <1>1, <1>2 DEF ClientRight, MachineTypes
<1>4. /\ lost' \in [Clients -> Nat] /\ excused' \in [Clients -> Nat]
      /\ \A v \in Clients \ {w} : lost'[v] = lost[v] /\ excused'[v] = excused[v]
  <2>1. CASE Machine!Request(w)
    BY <1>1, <2>1 DEF Machine!Request, MachineTypes
  <2>2. CASE Machine!Refused(w)
    <3>1. lost' = [lost EXCEPT ![w] = @ + 1] /\ excused' = excused
      BY <2>2 DEF Machine!Refused
    <3> QED
      BY <1>1, <3>1 DEF MachineTypes
  <2>3. CASE Machine!RequestFails(w)
    <3>1. lost' = [lost EXCEPT ![w] = @ + 1] /\ excused' = [excused EXCEPT ![w] = @ + 1]
      BY <2>3 DEF Machine!RequestFails
    <3> QED
      BY <1>1, <3>1 DEF MachineTypes
  <2> QED
    BY <2>1, <2>2, <2>3
<1>5. MachineTypes' /\ OnlyClient(w) /\ place'[w] = "idle"
  BY <1>1, <1>2, <1>3, <1>4 DEF MachineTypes, OnlyClient
<1>6. /\ excused'[w] <= lost'[w]
      /\ lost'[w] > excused'[w] => removals > 0
  <2>1. lost[w] \in Nat /\ excused[w] \in Nat /\ removals \in Nat
    BY <1>1 DEF MachineTypes
  <2>2. CASE Machine!Request(w)
    BY <1>1, <2>2 DEF Machine!Request, ClientRight
  <2>3. CASE Machine!RequestFails(w)
    <3>1. lost'[w] = lost[w] + 1 /\ excused'[w] = excused[w] + 1
      BY <1>1, <2>3 DEF Machine!RequestFails, MachineTypes
    <3> QED
      BY <1>1, <2>1, <3>1 DEF ClientRight
  <2>4. CASE Machine!Refused(w)
    <3>1. /\ lost'[w] = lost[w] + 1 /\ excused'[w] = excused[w]
          /\ Machine!Id(w) # install[Machine!Repo(w)]
      BY <1>1, <2>4 DEF Machine!Refused, MachineTypes
    <3>2. /\ Machine!Repo(w) \in DOMAIN id_cache[w]
          /\ id_cache[w][Machine!Repo(w)] # Machine!NoInstall
      BY <1>1, <1>2 DEF ClientRight
    <3>3. removals # 0
      BY <1>1, <3>1, <3>2 DEF MemoryHolds, Machine!Id
    <3> QED
      BY <1>1, <2>1, <3>1, <3>3 DEF ClientRight
  <2> QED
    BY <2>2, <2>3, <2>4
<1>7. ClientRight(w)'
  BY <1>1, <1>2, <1>5, <1>6 DEF ClientRight, Machine!Known
<1>8. MemoryHolds(w)'
  BY <1>1, <1>2 DEF MemoryHolds
<1> QED
  BY <1>5, <1>7, <1>8, OthersRight

\* Where the app is installed anew, nobody remembers an installation that holds.
LEMMA OwnerInv ==
    ASSUME MachineInv, NEW r \in Repos, Machine!Install(r) \/ Machine!Remove(r)
    PROVE  MachineInv'
<1>1. MachineTypes
  BY DEF MachineInv
<1>2. UNCHANGED <<deliveries, place, id_cache, client_cache, lost, excused>>
  BY DEF Machine!Install, Machine!Remove, Machine!workVars
<1>3. CASE Machine!Install(r)
  <2>1. /\ install[r] = Machine!NoInstall /\ ids' = ids + 1
        /\ install' = [install EXCEPT ![r] = ids + 1] /\ removals' = removals
    BY <1>3 DEF Machine!Install
  <2>2. MachineTypes' /\ \A q \in Repos : install'[q] <= ids'
    BY <1>1, <1>2, <2>1 DEF MachineTypes, MachineInv
  <2>3. \A w \in Clients : ClientRight(w)'
    BY <1>2, <2>1 DEF MachineInv, ClientRight, Machine!Repo, Machine!Id, Machine!Known
  <2>4. ASSUME NEW w \in Clients PROVE MemoryHolds(w)'
    <3>1. DOMAIN id_cache[w] \subseteq Repos
      BY <1>1 DEF MachineTypes, Caches
    <3> QED
      BY <1>1, <1>2, <2>1, <3>1 DEF MachineInv, MemoryHolds, MachineTypes
  <2> QED
    BY <2>2, <2>3, <2>4 DEF MachineInv
<1>4. CASE Machine!Remove(r)
  <2>1. /\ install' = [install EXCEPT ![r] = Machine!NoInstall] /\ removals' = removals + 1 /\ ids' = ids
    BY <1>4 DEF Machine!Remove
  <2>2. MachineTypes' /\ \A q \in Repos : install'[q] <= ids'
    BY <1>1, <1>2, <2>1 DEF MachineTypes, MachineInv, Machine!NoInstall
  <2>3. removals' > 0
    BY <1>1, <2>1 DEF MachineTypes
  <2>4. \A w \in Clients : ClientRight(w)'
    BY <1>2, <2>3 DEF MachineInv, ClientRight, Machine!Repo, Machine!Id, Machine!Known
  <2>5. \A w \in Clients : MemoryHolds(w)'
    BY <2>3 DEF MemoryHolds
  <2> QED
    BY <2>2, <2>4, <2>5 DEF MachineInv
<1> QED
  BY <1>3, <1>4

\* Every step keeps the invariant of the workers and their caches.
LEMMA MachineStep == MachineInv /\ [Machine!Next]_Machine!vars => MachineInv'
<1> SUFFICES ASSUME MachineInv, [Machine!Next]_Machine!vars PROVE MachineInv'
  OBVIOUS
<1>1. CASE UNCHANGED Machine!vars
  BY <1>1 DEF Machine!vars, Machine!workVars, MachineInv, MachineTypes, ClientRight, MemoryHolds,
              Machine!Repo, Machine!Id, Machine!Known
<1>2. ASSUME NEW w \in Clients,
             Machine!Step(w) \/ Machine!LookupFails(w) \/ Machine!RequestFails(w) \/ Machine!Crash(w)
      PROVE  MachineInv'
  <2>1. CASE Machine!NoClient(w) \/ Machine!Crash(w)
    BY <2>1, RestartInv DEF Machine!NoClient, Machine!Crash
  <2> QED
    BY <1>2, <2>1, TakeDeliveryInv, LookupInv, ForRepoInv, RequestInv DEF Machine!Step
<1> QED
  BY <1>1, <1>2, OwnerInv DEF Machine!Next

\* A failed lookup is forgotten with the message it was made for, and a message
\* is lost only where the app was removed (config.rs:182-222).
THEOREM MachineTheorem ==
    Machine!Spec => [](Machine!TypeInv /\ Machine!AbsenceIsForgotten /\ Machine!LossNeedsRemoval)
<1>1. MachineInv => Machine!TypeInv /\ Machine!AbsenceIsForgotten /\ Machine!LossNeedsRemoval
  BY DEF MachineInv, ClientRight, Machine!TypeInv, Machine!AbsenceIsForgotten, Machine!LossNeedsRemoval
<1> QED
  BY <1>1, MachineInit, MachineStep, PTL DEF Machine!Spec

-----------------------------------------------------------------------------
(* Statistics.                                                               *)

MetricNames == Counters!ToSet(Counters!Metrics)
Amounts == [MetricNames -> [Counters!Senders -> Nat]]
StatMessages == [is : {"event", "legacy", "bogus"}, sender : Counters!Senders,
                 metric : MetricNames, value : Nat]

CounterTypes ==
    /\ stats \in Seq(StatMessages)
    /\ message \in StatMessages \cup {Counters!NoMessage}
    /\ stage \in {"idle", "decoding", "recording", "acking"}
    /\ stage = "idle" <=> message = Counters!NoMessage
    /\ stage = "recording" => message.is # "bogus"
    /\ counters \in Amounts /\ published \in Amounts
    /\ lock \in [MetricNames -> Scrapers \cup {Counters!Free}]
    /\ DOMAIN phase = Reporters
    /\ reached \in [Scrapers -> 0..10]
    /\ output \in [Scrapers -> Amounts]
    /\ collectorCrashes \in Nat

\* A thread holds the mutexes of the metrics it has written out, which have not
\* changed since.
PageHolds(s) ==
    /\ \A i \in 1..10 : lock[Counters!Metrics[i]] = s <=> i <= reached[s]
    /\ \A i \in 1..10 :
           i <= reached[s] => output[s][Counters!Metrics[i]] = counters[Counters!Metrics[i]]

\* What a message counts for.
Adds(x, metric, sender) ==
    IF x.is # "bogus" /\ x.metric = metric /\ x.sender = sender THEN x.value ELSE 0

\* What is still to be counted; a crash leaves all of it in the queue.
Pending == IF message = Counters!NoMessage THEN stats ELSE <<message>> \o stats

\* No evaluator has finished more than it began, with or without a step to come.
AddsUp(n, open, read, checked) ==
    /\ n["job_received"] >= n["job_decode_success"] + n["job_decode_failure"] + open
    /\ n["job_decode_success"] >= n["issue_already_closed"] + n["issue_fetch_failed"]
                                  + n["evaluation_duration_count"] + read
    /\ n["evaluation_duration_count"] >= n["task_evaluation_check_complete"] + checked

Of(amounts, sender) == [metric \in MetricNames |-> amounts[metric][sender]]

\* What was published says where an evaluator is with its job.
PhaseTells(e) ==
    AddsUp(Of(published, e), IF phase[e] = "received" THEN 1 ELSE 0,
                             IF phase[e] \in {"reading", "timed"} THEN 1 ELSE 0,
                             IF phase[e] = "checking" THEN 1 ELSE 0)

\* total[i] is what the counters will be when i more messages have been counted:
\* never more than was published, and exactly that without a crash.
Counting(total) ==
    /\ total \in [0..Len(Pending) -> Amounts]
    /\ \A i \in 1..Len(Pending), metric \in MetricNames, sender \in Counters!Senders :
           total[i][metric][sender] = total[i - 1][metric][sender] + Adds(Pending[i], metric, sender)
    /\ \A i \in 0..Len(Pending), metric \in MetricNames, sender \in Counters!Senders :
           total[i][metric][sender] <= published[metric][sender]
    /\ \A i, j \in 0..Len(Pending), metric \in MetricNames, sender \in Counters!Senders :
           i <= j => total[i][metric][sender] <= total[j][metric][sender]
    /\ collectorCrashes = 0 =>
           /\ total[Len(Pending)] = published
           /\ \A i \in 0..Len(Pending), e \in Reporters : AddsUp(Of(total[i], e), 0, 0, 0)

Current(total) == counters = total[IF stage = "acking" THEN 1 ELSE 0]

CountersInv ==
    /\ CounterTypes
    /\ \A s \in Scrapers : PageHolds(s)
    /\ \A e \in Reporters : PhaseTells(e)
    /\ \E total : Counting(total) /\ Current(total)

\* The metrics are ten different ones.
LEMMA MetricFacts ==
    /\ Len(Counters!Metrics) = 10
    /\ \A i \in 1..10 : Counters!Metrics[i] \in MetricNames
    /\ \A metric \in MetricNames : \E i \in 1..10 : Counters!Metrics[i] = metric
    /\ \A i, j \in 1..10 : Counters!Metrics[i] = Counters!Metrics[j] => i = j
<1>1. /\ Len(Counters!Metrics) = 10
      /\ MetricNames = {Counters!Metrics[i] : i \in 1..10}
  <2>1. Len(Counters!Metrics) = 10 /\ DOMAIN Counters!Metrics = 1..10
    BY DEF Counters!Metrics
  <2> QED
    BY <2>1 DEF MetricNames, Counters!ToSet
<1>2. ASSUME NEW i \in 1..10, NEW j \in 1..10, Counters!Metrics[i] = Counters!Metrics[j]
      PROVE  i = j
  BY <1>2 DEF Counters!Metrics
<1> QED
  BY <1>1, <1>2

\* The metrics evaluators and the collector tell of.
LEMMA MetricsTold ==
    {"stat_collector_legacy_event", "stat_collector_bogus_event", "job_received",
     "evaluation_duration", "evaluation_duration_count", "job_decode_success",
     "job_decode_failure", "issue_already_closed", "issue_fetch_failed",
     "task_evaluation_check_complete"} \subseteq MetricNames
<1>1. /\ Counters!Metrics[1] = "stat_collector_legacy_event"
      /\ Counters!Metrics[2] = "stat_collector_bogus_event"
      /\ Counters!Metrics[3] = "job_received"
      /\ Counters!Metrics[4] = "evaluation_duration"
      /\ Counters!Metrics[5] = "evaluation_duration_count"
      /\ Counters!Metrics[6] = "job_decode_success"
      /\ Counters!Metrics[7] = "job_decode_failure"
      /\ Counters!Metrics[8] = "issue_already_closed"
      /\ Counters!Metrics[9] = "issue_fetch_failed"
      /\ Counters!Metrics[10] = "task_evaluation_check_complete"
  BY DEF Counters!Metrics
<1> QED
  BY <1>1, MetricFacts

\* Nothing has been counted, and nothing is held.
LEMMA ZeroAmounts ==
    /\ Counters!Zero \in Amounts
    /\ \A metric \in MetricNames, sender \in Counters!Senders : Counters!Zero[metric][sender] = 0
  BY DEF Counters!Zero, Amounts, MetricNames

\* There is a sender for each evaluator.
LEMMA SendersOf ==
    /\ Reporters \subseteq Counters!Senders
    /\ Counters!Collector \in Counters!Senders /\ Counters!Nobody \in Counters!Senders
  BY DEF Counters!Senders

-----------------------------------------------------------------------------

\* Nothing to handle is not a message.
LEMMA NothingIsNoMessage ==
    Counters!NoMessage \notin StatMessages
<1>1. SUFFICES ASSUME Counters!NoMessage \in StatMessages
               PROVE  FALSE
  OBVIOUS
<1>2. Counters!NoMessage.is = "nothing"
  BY DEF Counters!NoMessage
<1>3. Counters!NoMessage.is \in {"event", "legacy", "bogus"}
  BY <1>1 DEF StatMessages
<1> QED
  BY <1>2, <1>3

\* What is pending are messages.
LEMMA PendingMessages ==
    ASSUME CounterTypes
    PROVE  /\ Pending \in Seq(StatMessages) /\ Len(Pending) \in Nat
           /\ \A i \in 1..Len(Pending) : Pending[i] \in StatMessages
           /\ stage # "idle" => Len(Pending) >= 1 /\ Pending[1] = message
<1>1. CASE message = Counters!NoMessage
  BY <1>1 DEF CounterTypes, Pending
<1>2. CASE message # Counters!NoMessage
  <2>1. message \in StatMessages /\ stats \in Seq(StatMessages)
    BY <1>2 DEF CounterTypes
  <2>2. Pending = <<message>> \o stats
    BY <1>2 DEF Pending
  <2>3. <<message>> \in Seq(StatMessages) /\ Len(<<message>>) = 1 /\ <<message>>[1] = message
    BY <2>1
  <2>4. /\ Pending \in Seq(StatMessages) /\ Len(Pending) = 1 + Len(stats) /\ Pending[1] = message
        /\ Len(stats) \in Nat
    BY <2>1, <2>2, <2>3
  <2> QED
    BY <2>4
<1> QED
  BY <1>1, <1>2

\* A message counts for something or for nothing.
LEMMA AddsNat ==
    ASSUME NEW x \in StatMessages, NEW metric, NEW sender
    PROVE  Adds(x, metric, sender) \in Nat
  BY DEF Adds, StatMessages

\* What a step publishes waits behind what is pending.
Publishes(x) ==
    /\ stats' = Append(stats, x)
    /\ published' = [metric \in MetricNames |-> [sender \in Counters!Senders |->
                        published[metric][sender] + Adds(x, metric, sender)]]

\* The exchange hands a message to the queue.
LEMMA NotifyPublishes ==
    ASSUME CounterTypes, NEW sender \in Counters!Senders, NEW metric \in MetricNames,
           NEW value \in Nat, Counters!Notify(sender, metric, value)
    PROVE  \E x \in StatMessages :
               x.sender = sender /\ x.metric = metric /\ x.value = value /\ x.is = "event"
               /\ Publishes(x)
<1>1. PICK x : x = Counters!Event(sender, metric, value)
  OBVIOUS
<1>2. x \in StatMessages /\ x.sender = sender /\ x.metric = metric /\ x.value = value /\ x.is = "event"
  BY <1>1 DEF Counters!Event, StatMessages
<1>3. stats' = Append(stats, x)
  BY <1>1 DEF Counters!Notify
<1>4. published' = [published EXCEPT ![metric][sender] = @ + value]
  BY DEF Counters!Notify
<1>5. \A m \in MetricNames, s \in Counters!Senders :
          Adds(x, m, s) = IF m = metric /\ s = sender THEN value ELSE 0
  BY <1>2 DEF Adds
<1>6. published' = [m \in MetricNames |-> [s \in Counters!Senders |->
                       published[m][s] + Adds(x, m, s)]]
  <2>1. published \in [MetricNames -> [Counters!Senders -> Nat]]
    BY DEF CounterTypes, Amounts
  <2>2. published' = [m \in MetricNames |-> IF m = metric
                        THEN [published[m] EXCEPT ![sender] = @ + value] ELSE published[m]]
    BY <1>4, <2>1
  <2>3. ASSUME NEW m \in MetricNames
        PROVE  published'[m] = [s \in Counters!Senders |-> published[m][s] + Adds(x, m, s)]
    <3>1. CASE m = metric
      BY <2>1, <2>2, <1>5, <3>1
    <3>2. CASE m # metric
      BY <2>1, <2>2, <1>5, <3>2
    <3> QED
      BY <3>1, <3>2
  <2> QED
    BY <2>2, <2>3
<1> QED
  BY <1>2, <1>3, <1>6 DEF Publishes

\* A message of the old format or of none, of nobody.
LEMMA OddPublishes ==
    ASSUME CounterTypes, NEW kind \in {"legacy", "bogus"}, Counters!OddMessage(kind)
    PROVE  \E x \in StatMessages :
               x.is = kind /\ x.metric = "job_received" /\ x.sender = Counters!Nobody
               /\ x.value = 1 /\ Publishes(x)
<1>1. PICK x : x = [is |-> kind, sender |-> Counters!Nobody, metric |-> "job_received", value |-> 1]
  OBVIOUS
<1>2. /\ x \in StatMessages /\ x.is = kind /\ x.metric = "job_received"
      /\ x.sender = Counters!Nobody /\ x.value = 1
  BY <1>1, MetricsTold, SendersOf DEF StatMessages
<1>3. stats' = Append(stats, x)
  BY <1>1 DEF Counters!OddMessage
<1>4. published' = IF kind = "legacy"
                   THEN [published EXCEPT !["job_received"][Counters!Nobody] = @ + 1] ELSE published
  BY DEF Counters!OddMessage
<1>5. \A m \in MetricNames, s \in Counters!Senders :
          Adds(x, m, s) = IF kind = "legacy" /\ m = "job_received" /\ s = Counters!Nobody
                          THEN 1 ELSE 0
  BY <1>2 DEF Adds
<1>6. published' = [m \in MetricNames |-> [s \in Counters!Senders |->
                       published[m][s] + Adds(x, m, s)]]
  <2>1. published \in [MetricNames -> [Counters!Senders -> Nat]]
    BY DEF CounterTypes, Amounts
  <2>2. published' = [m \in MetricNames |-> IF m = "job_received" /\ kind = "legacy"
                        THEN [published[m] EXCEPT ![Counters!Nobody] = @ + 1] ELSE published[m]]
    BY <1>4, <2>1
  <2>3. ASSUME NEW m \in MetricNames
        PROVE  published'[m] = [s \in Counters!Senders |-> published[m][s] + Adds(x, m, s)]
    <3>1. CASE m = "job_received" /\ kind = "legacy"
      BY <2>1, <2>2, <1>5, <3>1
    <3>2. CASE ~(m = "job_received" /\ kind = "legacy")
      BY <2>1, <2>2, <1>5, <3>2
    <3> QED
      BY <3>1, <3>2
  <2> QED
    BY <2>2, <2>3
<1> QED
  BY <1>2, <1>3, <1>6 DEF Publishes

\* A publication changes what was published by what it counts for.
LEMMA PublishedMore ==
    ASSUME CounterTypes, NEW x \in StatMessages, Publishes(x)
    PROVE  /\ stats' \in Seq(StatMessages) /\ published' \in Amounts
           /\ \A metric \in MetricNames, sender \in Counters!Senders :
                  published'[metric][sender] = published[metric][sender] + Adds(x, metric, sender)
<1>1. published \in [MetricNames -> [Counters!Senders -> Nat]] /\ stats \in Seq(StatMessages)
  BY DEF CounterTypes, Amounts
<1>2. \A metric \in MetricNames, sender \in Counters!Senders :
          published[metric][sender] + Adds(x, metric, sender) \in Nat
  BY <1>1, AddsNat
<1> QED
  BY <1>1, <1>2 DEF Publishes, Amounts

\* What is published while the collector is at a message comes last.
LEMMA PendingMore ==
    ASSUME CounterTypes, NEW x \in StatMessages, Publishes(x), message' = message
    PROVE  /\ Len(Pending') = Len(Pending) + 1
           /\ \A i \in 1..Len(Pending) : Pending'[i] = Pending[i]
           /\ Pending'[Len(Pending) + 1] = x
<1>1. Pending' = IF message = Counters!NoMessage THEN Append(stats, x)
                                                 ELSE <<message>> \o Append(stats, x)
  BY DEF Publishes, Pending, Counters!NoMessage
<1>2. stats \in Seq(StatMessages)
  BY DEF CounterTypes
<1>3. Pending' = Append(Pending, x)
  <2>1. CASE message = Counters!NoMessage
    BY <1>1, <2>1 DEF Pending
  <2>2. CASE message # Counters!NoMessage
    <3>1. message \in StatMessages
      BY <2>2 DEF CounterTypes
    <3> HIDE DEF StatMessages
    <3>2. <<message>> \o Append(stats, x) = Append(<<message>> \o stats, x)
      BY <1>2, <3>1
    <3> QED
      BY <1>1, <2>2, <3>2 DEF Pending
  <2> QED
    BY <2>1, <2>2
<1> HIDE DEF Pending
<1> QED
  BY <1>3, PendingMessages

\* The count goes on after a publication.
LEMMA CountingMore ==
    ASSUME CounterTypes, NEW x \in StatMessages, Publishes(x), message' = message,
           collectorCrashes' = collectorCrashes,
           \A e \in Reporters : AddsUp(Of(published', e), 0, 0, 0),
           NEW total, Counting(total)
    PROVE  \E more : /\ Counting(more)'
                     /\ \A i \in 0..Len(Pending) : more[i] = total[i]
                     /\ \A metric \in MetricNames, sender \in Counters!Senders :
                            more[Len(Pending) + 1][metric][sender]
                                = total[Len(Pending)][metric][sender] + Adds(x, metric, sender)
<1>1. PICK n : n = Len(Pending)
  OBVIOUS
<1>2. /\ n \in Nat /\ Len(Pending') = n + 1
      /\ \A i \in 1..n : Pending'[i] = Pending[i] /\ Pending[i] \in StatMessages
      /\ Pending'[n + 1] = x
  BY <1>1, PendingMessages, PendingMore
<1>3. total \in [0..n -> Amounts]
  BY <1>1 DEF Counting
<1>4. PICK next : next = [metric \in MetricNames |-> [sender \in Counters!Senders |->
                             total[n][metric][sender] + Adds(x, metric, sender)]]
  OBVIOUS
<1>5. total[n] \in [MetricNames -> [Counters!Senders -> Nat]]
  BY <1>2, <1>3 DEF Amounts
<1>6. /\ next \in Amounts
      /\ \A metric \in MetricNames, sender \in Counters!Senders :
             next[metric][sender] = total[n][metric][sender] + Adds(x, metric, sender)
  BY <1>4, <1>5, AddsNat DEF Amounts
<1>7. PICK more : more = [i \in 0..n + 1 |-> IF i = n + 1 THEN next ELSE total[i]]
  OBVIOUS
<1>8. /\ more \in [0..n + 1 -> Amounts] /\ more[n + 1] = next
      /\ \A i \in 0..n : more[i] = total[i]
  BY <1>2, <1>3, <1>6, <1>7
<1>9. /\ published' \in [MetricNames -> [Counters!Senders -> Nat]]
      /\ published \in [MetricNames -> [Counters!Senders -> Nat]]
      /\ \A metric \in MetricNames, sender \in Counters!Senders :
             /\ published'[metric][sender] = published[metric][sender] + Adds(x, metric, sender)
             /\ Adds(x, metric, sender) \in Nat
  BY PublishedMore, AddsNat DEF CounterTypes, Amounts
<1>10. \A i \in 0..n, metric \in MetricNames, sender \in Counters!Senders :
           total[i][metric][sender] \in Nat
  BY <1>3 DEF Amounts
<1>11. ASSUME NEW i \in 1..n + 1, NEW metric \in MetricNames, NEW sender \in Counters!Senders
       PROVE  more[i][metric][sender] = more[i - 1][metric][sender] + Adds(Pending'[i], metric, sender)
  <2>1. CASE i = n + 1
    BY <1>2, <1>6, <1>8, <2>1
  <2>2. CASE i # n + 1
    <3>1. i \in 1..n /\ i - 1 \in 0..n /\ i \in 0..n
      BY <1>2, <2>2
    <3>2. total[i][metric][sender] = total[i - 1][metric][sender] + Adds(Pending[i], metric, sender)
      BY <1>1, <3>1 DEF Counting
    <3> QED
      BY <1>2, <1>8, <3>1, <3>2
  <2> QED
    BY <2>1, <2>2
<1>12. ASSUME NEW i \in 0..n, NEW metric \in MetricNames, NEW sender \in Counters!Senders
       PROVE  /\ total[i][metric][sender] <= published[metric][sender]
              /\ total[i][metric][sender] <= total[n][metric][sender]
              /\ published[metric][sender] \in Nat /\ total[n][metric][sender] \in Nat
              /\ total[i][metric][sender] \in Nat
  <2>1. n \in 0..n /\ i <= n /\ i \in 0..Len(Pending) /\ n \in 0..Len(Pending)
    BY <1>1, <1>2
  <2>2. /\ total[i][metric][sender] <= published[metric][sender]
        /\ total[i][metric][sender] <= total[n][metric][sender]
    BY <2>1 DEF Counting
  <2>3. published[metric][sender] \in Nat
    BY <1>9
  <2> QED
    BY <1>10, <2>1, <2>2, <2>3
<1>13. ASSUME NEW i \in 0..n + 1, NEW metric \in MetricNames, NEW sender \in Counters!Senders
       PROVE  /\ more[i][metric][sender] <= published'[metric][sender]
              /\ more[i][metric][sender] <= more[n + 1][metric][sender]
  <2>1. PICK add, known, said, now :
            /\ add = Adds(x, metric, sender) /\ known = published[metric][sender]
            /\ said = total[n][metric][sender] /\ now = published'[metric][sender]
    OBVIOUS
  <2>2. n \in 0..n
    BY <1>2
  <2>3. said <= known /\ known \in Nat /\ said \in Nat
    BY <1>12, <2>1, <2>2
  <2>4. add \in Nat /\ now = known + add /\ more[n + 1][metric][sender] = said + add
    BY <1>6, <1>8, <1>9, <2>1
  <2>5. CASE i = n + 1
    BY <2>1, <2>3, <2>4, <2>5
  <2>6. CASE i \in 0..n
    <3>1. PICK here : here = total[i][metric][sender]
      OBVIOUS
    <3>2. here \in Nat /\ here <= known /\ here <= said
      BY <1>12, <2>1, <2>6, <3>1
    <3>3. more[i][metric][sender] = here
      BY <1>8, <2>6, <3>1
    <3>4. here <= now /\ here <= said + add
      BY <2>3, <2>4, <3>2
    <3> QED
      BY <2>1, <2>4, <3>3, <3>4
  <2> QED
    BY <1>2, <2>5, <2>6
<1>14. ASSUME NEW i \in 0..n + 1, NEW j \in 0..n + 1, i <= j,
              NEW metric \in MetricNames, NEW sender \in Counters!Senders
       PROVE  more[i][metric][sender] <= more[j][metric][sender]
  <2>1. CASE j = n + 1
    BY <1>13, <2>1
  <2>2. CASE j # n + 1
    <3>1. i \in 0..n /\ j \in 0..n
      BY <1>2, <1>14, <2>2
    <3>2. total[i][metric][sender] <= total[j][metric][sender]
      BY <1>1, <1>14, <3>1 DEF Counting
    <3> QED
      BY <1>8, <3>1, <3>2
  <2> QED
    BY <2>1, <2>2
<1>15. ASSUME collectorCrashes' = 0
       PROVE  /\ more[n + 1] = published'
              /\ \A i \in 0..n + 1, e \in Reporters : AddsUp(Of(more[i], e), 0, 0, 0)
  <2>1. total[n] = published /\ \A i \in 0..n, e \in Reporters : AddsUp(Of(total[i], e), 0, 0, 0)
    BY <1>1, <1>15 DEF Counting
  <2>2. next = published'
    BY <1>4, <2>1 DEF Publishes
  <2> QED
    BY <1>2, <1>8, <2>1, <2>2
<1>16. Counting(more)'
  <2>1. more \in [0..Len(Pending') -> Amounts]
    BY <1>2, <1>8
  <2>2. \A i \in 1..Len(Pending'), metric \in MetricNames, sender \in Counters!Senders :
            more[i][metric][sender] = more[i - 1][metric][sender] + Adds(Pending'[i], metric, sender)
    BY <1>2, <1>11
  <2>3. \A i \in 0..Len(Pending'), metric \in MetricNames, sender \in Counters!Senders :
            more[i][metric][sender] <= published'[metric][sender]
    BY <1>2, <1>13
  <2>4. \A i, j \in 0..Len(Pending'), metric \in MetricNames, sender \in Counters!Senders :
            i <= j => more[i][metric][sender] <= more[j][metric][sender]
    BY <1>2, <1>14
  <2>5. collectorCrashes' = 0 =>
            /\ more[Len(Pending')] = published'
            /\ \A i \in 0..Len(Pending'), e \in Reporters : AddsUp(Of(more[i], e), 0, 0, 0)
    BY <1>2, <1>15
  <2> QED
    BY <2>1, <2>2, <2>3, <2>4, <2>5 DEF Counting
<1> QED
  BY <1>1, <1>6, <1>8, <1>16

\* What an acknowledged message counts for is in the counters.
LEMMA CountingLess ==
    ASSUME CounterTypes, stage = "acking", message' = Counters!NoMessage, stats' = stats,
           published' = published, collectorCrashes' = collectorCrashes,
           NEW total, Counting(total)
    PROVE  \E less : Counting(less)' /\ less[0] = total[1]
<1>1. PICK n : n = Len(stats)
  OBVIOUS
<1>2. /\ n \in Nat /\ Pending' = stats /\ Len(Pending) = n + 1
      /\ \A i \in 1..n : Pending[i + 1] = stats[i]
  <2>1. message \in StatMessages /\ stats \in Seq(StatMessages)
    BY DEF CounterTypes
  <2>2. Pending = <<message>> \o stats /\ Pending' = stats
    BY <2>1, NothingIsNoMessage DEF Pending, Counters!NoMessage
  <2> HIDE DEF StatMessages
  <2> QED
    BY <1>1, <2>1, <2>2
<1>3. PICK less : less = [i \in 0..n |-> total[i + 1]]
  OBVIOUS
<1>4. total \in [0..n + 1 -> Amounts]
  BY <1>2 DEF Counting
<1>5. less \in [0..n -> Amounts] /\ \A i \in 0..n : less[i] = total[i + 1]
  BY <1>2, <1>3, <1>4
<1>6. ASSUME NEW i \in 1..n, NEW metric \in MetricNames, NEW sender \in Counters!Senders
      PROVE  less[i][metric][sender] = less[i - 1][metric][sender] + Adds(stats[i], metric, sender)
  <2>1. i + 1 \in 1..n + 1 /\ (i + 1) - 1 = i /\ i \in 0..n /\ i - 1 \in 0..n /\ (i - 1) + 1 = i
    BY <1>2
  <2>2. total[i + 1][metric][sender] = total[i][metric][sender] + Adds(Pending[i + 1], metric, sender)
    <3>1. total[i + 1][metric][sender]
              = total[(i + 1) - 1][metric][sender] + Adds(Pending[i + 1], metric, sender)
      BY <1>2, <2>1 DEF Counting
    <3> QED
      BY <2>1, <3>1
  <2> QED
    BY <1>2, <1>5, <2>1, <2>2
<1>7. ASSUME NEW i \in 0..n, NEW metric \in MetricNames, NEW sender \in Counters!Senders
      PROVE  less[i][metric][sender] <= published[metric][sender]
  <2>1. i + 1 \in 0..n + 1
    BY <1>2
  <2> QED
    BY <1>2, <1>5, <2>1 DEF Counting
<1>8. ASSUME NEW i \in 0..n, NEW j \in 0..n, i <= j,
             NEW metric \in MetricNames, NEW sender \in Counters!Senders
      PROVE  less[i][metric][sender] <= less[j][metric][sender]
  <2>1. i + 1 \in 0..n + 1 /\ j + 1 \in 0..n + 1 /\ i + 1 <= j + 1
    BY <1>2, <1>8
  <2>2. total[i + 1][metric][sender] <= total[j + 1][metric][sender]
    BY <1>2, <2>1 DEF Counting
  <2> QED
    BY <1>5, <2>2
<1>9. ASSUME collectorCrashes = 0
      PROVE  /\ less[n] = published
             /\ \A i \in 0..n, e \in Reporters : AddsUp(Of(less[i], e), 0, 0, 0)
  <2>1. /\ total[n + 1] = published
        /\ \A i \in 0..n + 1, e \in Reporters : AddsUp(Of(total[i], e), 0, 0, 0)
    BY <1>2, <1>9 DEF Counting
  <2>2. n \in 0..n /\ \A i \in 0..n : i + 1 \in 0..n + 1
    BY <1>2
  <2>3. less[n] = total[n + 1]
    BY <1>5, <2>2
  <2>4. \A i \in 0..n, e \in Reporters : AddsUp(Of(total[i + 1], e), 0, 0, 0)
    BY <2>1, <2>2
  <2> QED
    BY <1>5, <2>1, <2>3, <2>4
<1>10. Counting(less)'
  BY <1>1, <1>2, <1>5, <1>6, <1>7, <1>8, <1>9 DEF Counting
<1>11. less[0] = total[1]
  BY <1>2, <1>5
<1> QED
  BY <1>10, <1>11

\* After a crash the counting starts anew with all that is pending.
LEMMA CountingAnew ==
    ASSUME CounterTypes, Pending' = Pending, published' = published, collectorCrashes' # 0,
           NEW total, Counting(total)
    PROVE  \E anew : /\ Counting(anew)'
                     /\ \A metric \in MetricNames, sender \in Counters!Senders :
                            anew[0][metric][sender] = 0
<1>1. PICK n : n = Len(Pending)
  OBVIOUS
<1>2. n \in Nat /\ total \in [0..n -> Amounts]
  BY <1>1, PendingMessages DEF Counting
<1>3. ASSUME NEW i \in 0..n, NEW metric \in MetricNames, NEW sender \in Counters!Senders
      PROVE  /\ total[i][metric][sender] \in Nat /\ total[0][metric][sender] \in Nat
             /\ total[0][metric][sender] <= total[i][metric][sender]
  <2>1. 0 \in 0..n /\ 0 <= i
    BY <1>2
  <2>2. total[0][metric][sender] <= total[i][metric][sender]
    BY <1>1, <2>1 DEF Counting
  <2> QED
    BY <1>2, <2>1, <2>2 DEF Amounts
<1>4. PICK anew : anew = [i \in 0..n |-> [metric \in MetricNames |-> [sender \in Counters!Senders |->
                             total[i][metric][sender] - total[0][metric][sender]]]]
  OBVIOUS
<1>5. \A i \in 0..n, metric \in MetricNames, sender \in Counters!Senders :
          /\ anew[i][metric][sender] = total[i][metric][sender] - total[0][metric][sender]
          /\ anew[i][metric][sender] \in Nat
  BY <1>3, <1>4
<1>6. anew \in [0..n -> Amounts]
  BY <1>4, <1>5 DEF Amounts
<1>7. ASSUME NEW i \in 1..n, NEW metric \in MetricNames, NEW sender \in Counters!Senders
      PROVE  anew[i][metric][sender] = anew[i - 1][metric][sender] + Adds(Pending[i], metric, sender)
  <2>1. i \in 0..n /\ i - 1 \in 0..n /\ Adds(Pending[i], metric, sender) \in Nat
    BY <1>1, <1>2, PendingMessages, AddsNat
  <2>2. total[i][metric][sender] = total[i - 1][metric][sender] + Adds(Pending[i], metric, sender)
    BY <1>1 DEF Counting
  <2>3. /\ total[i - 1][metric][sender] \in Nat /\ total[0][metric][sender] \in Nat
        /\ anew[i][metric][sender] = total[i][metric][sender] - total[0][metric][sender]
        /\ anew[i - 1][metric][sender] = total[i - 1][metric][sender] - total[0][metric][sender]
    BY <1>3, <1>5, <2>1
  <2> QED
    BY <2>1, <2>2, <2>3
<1>8. ASSUME NEW i \in 0..n, NEW metric \in MetricNames, NEW sender \in Counters!Senders
      PROVE  anew[i][metric][sender] <= published[metric][sender]
  <2>1. total[i][metric][sender] <= published[metric][sender]
    BY <1>1 DEF Counting
  <2>2. published[metric][sender] \in Nat
    BY DEF CounterTypes, Amounts
  <2> QED
    BY <1>3, <1>5, <2>1, <2>2
<1>9. ASSUME NEW i \in 0..n, NEW j \in 0..n, i <= j,
             NEW metric \in MetricNames, NEW sender \in Counters!Senders
      PROVE  anew[i][metric][sender] <= anew[j][metric][sender]
  <2>1. total[i][metric][sender] <= total[j][metric][sender]
    BY <1>1, <1>9 DEF Counting
  <2> QED
    BY <1>3, <1>5, <2>1
<1>10. Counting(anew)'
  BY <1>1, <1>6, <1>7, <1>8, <1>9 DEF Counting
<1>11. \A metric \in MetricNames, sender \in Counters!Senders : anew[0][metric][sender] = 0
  <2>1. 0 \in 0..n
    BY <1>2
  <2> QED
    BY <1>3, <1>5, <2>1
<1> QED
  BY <1>10, <1>11

\* A step that touches neither the queue nor what was published goes on counting.
LEMMA CountingStays ==
    ASSUME NEW total, Counting(total), Pending' = Pending, published' = published,
           collectorCrashes' = collectorCrashes
    PROVE  Counting(total)'
  BY DEF Counting

-----------------------------------------------------------------------------

\* The amounts of a sender.
LEMMA AmountsOf ==
    ASSUME NEW amounts, NEW sender
    PROVE  \A metric \in MetricNames : Of(amounts, sender)[metric] = amounts[metric][sender]
  BY DEF Of

\* What counts for a page counts without a step to come.
LEMMA PublishedAddsUp ==
    ASSUME NEW amounts \in Amounts, NEW sender \in Counters!Senders,
           NEW open \in 0..1, NEW read \in 0..1, NEW checked \in 0..1,
           AddsUp(Of(amounts, sender), open, read, checked)
    PROVE  AddsUp(Of(amounts, sender), 0, 0, 0)
<1>1. \A metric \in MetricNames : Of(amounts, sender)[metric] \in Nat
  BY AmountsOf DEF Amounts
<1>2. PICK n : n = Of(amounts, sender)
  OBVIOUS
<1>3. \A metric \in MetricNames : n[metric] \in Nat
  BY <1>1, <1>2
<1>4. AddsUp(n, open, read, checked)
  BY <1>2
<1>5. AddsUp(n, 0, 0, 0)
  BY <1>3, <1>4, MetricsTold DEF AddsUp
<1> QED
  BY <1>2, <1>5

\* What another sender tells, or of a job received, leaves the phase of an
\* evaluator as it is.
LEMMA OthersTell ==
    ASSUME CounterTypes, NEW e \in Reporters, PhaseTells(e), phase'[e] = phase[e],
           NEW x \in StatMessages, Publishes(x),
           x.sender # e \/ x.metric \in {"job_received", "stat_collector_legacy_event",
                                         "stat_collector_bogus_event"}
    PROVE  PhaseTells(e)'
<1>1. PICK n, m, add : n = Of(published, e) /\ m = Of(published', e)
                       /\ add = Adds(x, "job_received", e)
  OBVIOUS
<1>2. e \in Counters!Senders
  BY SendersOf
<1>3. \A metric \in MetricNames :
          /\ n[metric] \in Nat /\ Adds(x, metric, e) \in Nat
          /\ m[metric] = n[metric] + Adds(x, metric, e)
  <2>1. \A metric \in MetricNames : published[metric][e] \in Nat
    BY <1>2 DEF CounterTypes, Amounts
  <2> QED
    BY <1>1, <1>2, <2>1, PublishedMore, AddsNat, AmountsOf
<1>4. \A metric \in MetricNames :
          metric \in {"job_decode_success", "job_decode_failure", "issue_already_closed",
                      "issue_fetch_failed", "evaluation_duration_count",
                      "task_evaluation_check_complete"} => Adds(x, metric, e) = 0
  BY DEF Adds
<1>5. \A metric \in MetricNames :
          metric \in {"job_decode_success", "job_decode_failure", "issue_already_closed",
                      "issue_fetch_failed", "evaluation_duration_count",
                      "task_evaluation_check_complete"} => m[metric] = n[metric]
  BY <1>3, <1>4
<1>6. m["job_received"] = n["job_received"] + add /\ add \in Nat
  BY <1>1, <1>3, MetricsTold
<1>7. \A metric \in MetricNames : n[metric] \in Nat
  BY <1>3
<1>8. \A open, read, checked \in 0..1 :
          AddsUp(n, open, read, checked) => AddsUp(m, open, read, checked)
  BY <1>5, <1>6, <1>7, MetricsTold DEF AddsUp
<1> QED
  BY <1>1, <1>8 DEF PhaseTells

\* An evaluator tells of one thing and goes on to where that is right.
LEMMA GoesOnTells ==
    ASSUME CounterTypes, NEW e \in Reporters, PhaseTells(e), NEW from, NEW to, NEW metric,
           NEW value \in Nat,
           <<from, metric, value, to>> \in
               {<<"idle", "job_received", 1, "received">>,
                <<"received", "job_decode_failure", 1, "idle">>,
                <<"received", "job_decode_success", 1, "reading">>,
                <<"reading", "issue_already_closed", 1, "idle">>,
                <<"reading", "issue_fetch_failed", 1, "idle">>,
                <<"reading", "evaluation_duration", 0, "timed">>,
                <<"timed", "evaluation_duration_count", 1, "checking">>,
                <<"checking", "task_evaluation_check_complete", 1, "idle">>},
           Counters!Goes(e, from, to), Counters!Notify(e, metric, value)
    PROVE  /\ DOMAIN phase' = Reporters
           /\ \A v \in Reporters \ {e} : phase'[v] = phase[v]
           /\ PhaseTells(e)'
           /\ \E x \in StatMessages : x.sender = e /\ Publishes(x)
<1>1. /\ phase[e] = from /\ phase' = [phase EXCEPT ![e] = to] /\ phase'[e] = to
      /\ DOMAIN phase' = Reporters /\ \A v \in Reporters \ {e} : phase'[v] = phase[v]
  BY DEF Counters!Goes, CounterTypes
<1>2. e \in Counters!Senders /\ metric \in MetricNames
  BY SendersOf, MetricsTold
<1>3. PICK x \in StatMessages : x.sender = e /\ x.metric = metric /\ x.value = value
                                /\ x.is = "event" /\ Publishes(x)
  BY <1>2, NotifyPublishes
<1>4. PICK n, m : n = Of(published, e) /\ m = Of(published', e)
  OBVIOUS
<1>5. \A name \in MetricNames :
          /\ n[name] \in Nat
          /\ m[name] = n[name] + (IF name = metric THEN value ELSE 0)
  <2>1. \A name \in MetricNames : published[name][e] \in Nat
    BY <1>2 DEF CounterTypes, Amounts
  <2>2. \A name \in MetricNames : Adds(x, name, e) = IF name = metric THEN value ELSE 0
    BY <1>3 DEF Adds
  <2> QED
    BY <1>2, <1>3, <1>4, <2>1, <2>2, PublishedMore, AmountsOf
<1>6. AddsUp(n, IF from = "received" THEN 1 ELSE 0, IF from \in {"reading", "timed"} THEN 1 ELSE 0,
                IF from = "checking" THEN 1 ELSE 0)
  BY <1>1, <1>4 DEF PhaseTells
<1>7. AddsUp(m, IF to = "received" THEN 1 ELSE 0, IF to \in {"reading", "timed"} THEN 1 ELSE 0,
                IF to = "checking" THEN 1 ELSE 0)
  BY <1>5, <1>6, MetricsTold DEF AddsUp
<1> QED
  BY <1>1, <1>3, <1>4, <1>7 DEF PhaseTells

\* The stage of the collector changes with a publication only where it tells
\* itself of the message it decodes.
StageFollows ==
    \/ stage' = stage
    \/ stage = "decoding" /\ stage' = "recording" /\ message.is # "bogus"
    \/ stage = "decoding" /\ stage' = "acking" /\ message.is = "bogus"

\* A message that does not decode counts for nothing.
LEMMA BogusCountsForNothing ==
    ASSUME CounterTypes, stage = "decoding", message.is = "bogus", NEW total, Counting(total)
    PROVE  total[1] = total[0]
<1>1. Len(Pending) >= 1 /\ Pending[1] = message /\ Len(Pending) \in Nat
  BY PendingMessages DEF CounterTypes
<1>2. total[0] \in Amounts /\ total[1] \in Amounts
  BY <1>1 DEF Counting
<1>3. ASSUME NEW metric \in MetricNames, NEW sender \in Counters!Senders
      PROVE  total[1][metric][sender] = total[0][metric][sender]
  <2>1. 1 \in 1..Len(Pending) /\ 1 - 1 = 0
    BY <1>1
  <2>2. total[1][metric][sender] = total[1 - 1][metric][sender] + Adds(Pending[1], metric, sender)
    BY <2>1 DEF Counting
  <2>3. Adds(Pending[1], metric, sender) = 0
    BY <1>1 DEF Adds
  <2>4. total[0][metric][sender] \in Nat
    BY <1>2 DEF Amounts
  <2> QED
    BY <2>1, <2>2, <2>3, <2>4
<1> QED
  BY <1>2, <1>3 DEF Amounts

\* A publication keeps the invariant.
LEMMA PublicationInv ==
    ASSUME CountersInv, NEW x \in StatMessages, Publishes(x), StageFollows,
           UNCHANGED <<message, counters, lock, reached, output, collectorCrashes>>,
           DOMAIN phase' = Reporters, \A e \in Reporters : PhaseTells(e)'
    PROVE  CountersInv'
<1>1. CounterTypes /\ \A s \in Scrapers : PageHolds(s)
  BY DEF CountersInv
<1>2. CounterTypes'
  <2>1. stats' \in Seq(StatMessages) /\ published' \in Amounts
    BY <1>1, PublishedMore
  <2>2. /\ stage' \in {"idle", "decoding", "recording", "acking"}
        /\ stage' = "idle" <=> message' = Counters!NoMessage
        /\ stage' = "recording" => message'.is # "bogus"
    BY <1>1 DEF StageFollows, CounterTypes
  <2> QED
    BY <1>1, <2>1, <2>2 DEF CounterTypes, Counters!NoMessage
<1>3. \A s \in Scrapers : PageHolds(s)'
  BY <1>1 DEF PageHolds
<1>4. PICK total : Counting(total) /\ Current(total)
  BY DEF CountersInv
<1>5. \A e \in Reporters : AddsUp(Of(published', e), 0, 0, 0)
  BY <1>2, PublishedAddsUp, SendersOf DEF PhaseTells, CounterTypes
<1>6. PICK more : /\ Counting(more)'
                  /\ \A i \in 0..Len(Pending) : more[i] = total[i]
                  /\ \A metric \in MetricNames, sender \in Counters!Senders :
                         more[Len(Pending) + 1][metric][sender]
                             = total[Len(Pending)][metric][sender] + Adds(x, metric, sender)
  BY <1>1, <1>4, <1>5, CountingMore
<1>7. counters' = more[IF stage' = "acking" THEN 1 ELSE 0]
  <2>1. Len(Pending) \in Nat /\ (stage # "idle" => Len(Pending) >= 1)
    BY <1>1, PendingMessages
  <2>2. counters = total[IF stage = "acking" THEN 1 ELSE 0]
    BY <1>4 DEF Current
  <2>3. more[0] = total[0] /\ (stage # "idle" => more[1] = total[1])
    BY <1>6, <2>1
  <2>4. stage = "decoding" /\ message.is = "bogus" => total[1] = total[0]
    BY <1>1, <1>4, BogusCountsForNothing
  <2> QED
    BY <2>2, <2>3, <2>4 DEF StageFollows
<1> QED
  BY <1>2, <1>3, <1>6, <1>7 DEF CountersInv, Current

\* An evaluator at work keeps the invariant.
LEMMA EvaluateInv ==
    ASSUME CountersInv, NEW e \in Reporters, Counters!Evaluate(e)
    PROVE  CountersInv'
<1>1. CounterTypes /\ PhaseTells(e)
  BY DEF CountersInv
<1>2. CASE Counters!Stop(e)
  <2>1. /\ UNCHANGED <<stats, published, message, stage, counters, lock, reached, output,
                       collectorCrashes>>
        /\ phase' = [phase EXCEPT ![e] = "idle"]
    BY <1>2 DEF Counters!Stop, Counters!collectorVars, Counters!scrapeVars
  <2>2. CounterTypes'
    BY <1>1, <2>1 DEF CounterTypes, Counters!NoMessage
  <2>3. \A s \in Scrapers : PageHolds(s)'
    BY <2>1 DEF PageHolds, CountersInv
  <2>4. PhaseTells(e)'
    <3>1. AddsUp(Of(published, e), 0, 0, 0)
      BY <1>1, PublishedAddsUp, SendersOf DEF PhaseTells, CounterTypes
    <3>2. phase'[e] = "idle" /\ published' = published
      BY <1>1, <2>1 DEF CounterTypes
    <3> QED
      BY <3>1, <3>2 DEF PhaseTells
  <2>5. \A v \in Reporters : PhaseTells(v)'
    BY <1>1, <2>1, <2>4 DEF CountersInv, PhaseTells, CounterTypes
  <2>6. Pending' = Pending
    BY <2>1 DEF Pending, Counters!NoMessage
  <2>7. PICK total : Counting(total) /\ Current(total)
    BY DEF CountersInv
  <2>8. Counting(total)' /\ Current(total)'
    BY <2>1, <2>6, <2>7, CountingStays DEF Current
  <2> QED
    BY <2>2, <2>3, <2>5, <2>8 DEF CountersInv
<1>3. CASE ~Counters!Stop(e)
  <2>1. /\ UNCHANGED <<message, stage, counters, lock, reached, output, collectorCrashes>>
        /\ \/ Counters!Goes(e, "idle", "received") /\ Counters!Notify(e, "job_received", 1)
           \/ /\ Counters!Goes(e, "received", "idle")
              /\ Counters!Notify(e, "job_decode_failure", 1)
           \/ /\ Counters!Goes(e, "received", "reading")
              /\ Counters!Notify(e, "job_decode_success", 1)
           \/ /\ Counters!Goes(e, "reading", "idle")
              /\ Counters!Notify(e, "issue_already_closed", 1)
           \/ /\ Counters!Goes(e, "reading", "idle")
              /\ Counters!Notify(e, "issue_fetch_failed", 1)
           \/ /\ Counters!Goes(e, "reading", "timed")
              /\ Counters!Notify(e, "evaluation_duration", 0)
           \/ /\ Counters!Goes(e, "timed", "checking")
              /\ Counters!Notify(e, "evaluation_duration_count", 1)
           \/ /\ Counters!Goes(e, "checking", "idle")
              /\ Counters!Notify(e, "task_evaluation_check_complete", 1)
    BY <1>3 DEF Counters!Evaluate, Counters!Receive, Counters!DecodeFails, Counters!Decode,
                Counters!IssueClosed, Counters!IssueFetchFails, Counters!EvaluationDuration,
                Counters!EvaluationDurationCount, Counters!Complete, Counters!Tells,
                Counters!collectorVars, Counters!scrapeVars
  <2>2. /\ DOMAIN phase' = Reporters
        /\ \A v \in Reporters \ {e} : phase'[v] = phase[v]
        /\ PhaseTells(e)'
        /\ \E x \in StatMessages : x.sender = e /\ Publishes(x)
    <3>1. PICK from, metric, value, to :
              /\ <<from, metric, value, to>> \in
                     {<<"idle", "job_received", 1, "received">>,
                      <<"received", "job_decode_failure", 1, "idle">>,
                      <<"received", "job_decode_success", 1, "reading">>,
                      <<"reading", "issue_already_closed", 1, "idle">>,
                      <<"reading", "issue_fetch_failed", 1, "idle">>,
                      <<"reading", "evaluation_duration", 0, "timed">>,
                      <<"timed", "evaluation_duration_count", 1, "checking">>,
                      <<"checking", "task_evaluation_check_complete", 1, "idle">>}
              /\ value \in Nat
              /\ Counters!Goes(e, from, to) /\ Counters!Notify(e, metric, value)
      BY <2>1
    <3> QED
      BY <1>1, <3>1, GoesOnTells
  <2>3. PICK x \in StatMessages : x.sender = e /\ Publishes(x)
    BY <2>2
  <2>4. ASSUME NEW v \in Reporters
        PROVE  PhaseTells(v)'
    <3>1. CASE v # e
      BY <1>1, <2>2, <2>3, <3>1, OthersTell DEF CountersInv
    <3> QED
      BY <2>2, <3>1
  <2>5. StageFollows
    BY <2>1 DEF StageFollows
  <2> QED
    BY <2>1, <2>2, <2>3, <2>4, <2>5, PublicationInv
<1> QED
  BY <1>2, <1>3

\* Messages of old programs, and what the collector tells itself of them, come to
\* what was published of no evaluator's phase.
LEMMA LegacyInv ==
    ASSUME CountersInv,
           \/ \E kind \in {"legacy", "bogus"} : Counters!OddMessage(kind)
           \/ Counters!DecodeLegacy \/ Counters!DecodeBogus
    PROVE  CountersInv'
<1>1. CounterTypes
  BY DEF CountersInv
<1>2. \E x \in StatMessages :
          /\ Publishes(x)
          /\ x.metric \in {"job_received", "stat_collector_legacy_event",
                           "stat_collector_bogus_event"}
  <2>1. CASE \E kind \in {"legacy", "bogus"} : Counters!OddMessage(kind)
    BY <1>1, <2>1, OddPublishes
  <2>2. CASE Counters!DecodeLegacy
    BY <1>1, <2>2, NotifyPublishes, SendersOf, MetricsTold DEF Counters!DecodeLegacy
  <2>3. CASE Counters!DecodeBogus
    BY <1>1, <2>3, NotifyPublishes, SendersOf, MetricsTold DEF Counters!DecodeBogus
  <2> QED
    BY <2>1, <2>2, <2>3
<1>3. /\ UNCHANGED <<message, counters, lock, reached, output, collectorCrashes, phase>>
      /\ StageFollows
  <2>1. CASE \E kind \in {"legacy", "bogus"} : Counters!OddMessage(kind)
    BY <2>1 DEF Counters!OddMessage, Counters!collectorVars, Counters!scrapeVars,
                Counters!evaluatorVars, StageFollows
  <2>2. CASE Counters!DecodeLegacy
    BY <2>2 DEF Counters!DecodeLegacy, Counters!scrapeVars, Counters!evaluatorVars, StageFollows
  <2>3. CASE Counters!DecodeBogus
    BY <2>3 DEF Counters!DecodeBogus, Counters!scrapeVars, Counters!evaluatorVars, StageFollows
  <2> QED
    BY <2>1, <2>2, <2>3
<1>4. PICK x \in StatMessages :
          /\ Publishes(x)
          /\ x.metric \in {"job_received", "stat_collector_legacy_event",
                           "stat_collector_bogus_event"}
  BY <1>2
<1>5. DOMAIN phase' = Reporters /\ \A e \in Reporters : PhaseTells(e)'
  BY <1>1, <1>3, <1>4, OthersTell DEF CountersInv, CounterTypes
<1> QED
  BY <1>3, <1>4, <1>5, PublicationInv

\* A step that neither publishes nor counts keeps what is true of the evaluators
\* and of the counters.
LEMMA QuietStep ==
    ASSUME CountersInv, Pending' = Pending, (stage' = "acking") <=> (stage = "acking"),
           UNCHANGED <<published, counters, phase, collectorCrashes>>,
           CounterTypes', \A s \in Scrapers : PageHolds(s)'
    PROVE  CountersInv'
<1>1. \A e \in Reporters : PhaseTells(e)'
  BY DEF CountersInv, PhaseTells
<1>2. PICK total : Counting(total) /\ Current(total)
  BY DEF CountersInv
<1>3. Counting(total)' /\ Current(total)'
  BY <1>2, CountingStays DEF Current
<1> QED
  BY <1>1, <1>3 DEF CountersInv

\* A delivery is taken and decoded.
LEMMA TakeStatInv ==
    ASSUME CountersInv, Counters!Take \/ Counters!DecodeEvent
    PROVE  CountersInv'
<1>1. CounterTypes /\ \A s \in Scrapers : PageHolds(s)
  BY DEF CountersInv
<1>2. UNCHANGED <<published, counters, phase, collectorCrashes, lock, reached, output>>
  BY DEF Counters!Take, Counters!DecodeEvent, Counters!scrapeVars, Counters!evaluatorVars
<1>3. \A s \in Scrapers : PageHolds(s)'
  BY <1>1, <1>2 DEF PageHolds
<1>4. CASE Counters!Take
  <2>1. /\ stage = "idle" /\ stats # <<>> /\ message' = Head(stats) /\ stats' = Tail(stats)
        /\ stage' = "decoding"
    BY <1>4 DEF Counters!Take
  <2>2. message = Counters!NoMessage /\ stats \in Seq(StatMessages)
    BY <1>1, <2>1 DEF CounterTypes
  <2>3. message' \in StatMessages /\ stats' \in Seq(StatMessages)
    BY <2>1, <2>2
  <2>4. Pending' = Pending
    <3>1. Pending = stats /\ Pending' = <<Head(stats)>> \o Tail(stats)
      BY <2>1, <2>2, <2>3, NothingIsNoMessage DEF Pending, Counters!NoMessage
    <3>2. <<Head(stats)>> \o Tail(stats) = stats
      <4> HIDE DEF StatMessages
      <4> QED
        BY <2>1, <2>2
    <3> QED
      BY <3>1, <3>2
  <2>5. message' # Counters!NoMessage
    BY <2>3, NothingIsNoMessage
  <2>6. CounterTypes'
    BY <1>1, <1>2, <2>1, <2>3, <2>5 DEF CounterTypes, Counters!NoMessage
  <2> QED
    BY <1>2, <1>3, <2>1, <2>4, <2>6, QuietStep
<1>5. CASE Counters!DecodeEvent
  <2>1. /\ stage = "decoding" /\ message.is = "event" /\ stage' = "recording"
        /\ message' = message /\ stats' = stats
    BY <1>5 DEF Counters!DecodeEvent
  <2>2. Pending' = Pending
    BY <2>1 DEF Pending, Counters!NoMessage
  <2>3. CounterTypes'
    BY <1>1, <1>2, <2>1 DEF CounterTypes, Counters!NoMessage
  <2> QED
    BY <1>2, <1>3, <2>1, <2>2, <2>3, QuietStep
<1> QED
  BY <1>4, <1>5

\* A delivery is counted, in a metric no page is being made of.
LEMMA RecordInv ==
    ASSUME CountersInv, Counters!Record
    PROVE  CountersInv'
<1>1. CounterTypes /\ \A s \in Scrapers : PageHolds(s)
  BY DEF CountersInv
<1>2. /\ stage = "recording" /\ lock[message.metric] = Counters!Free
      /\ counters' = [counters EXCEPT ![message.metric][message.sender] = @ + message.value]
      /\ stage' = "acking"
      /\ UNCHANGED <<stats, message, lock, reached, output, phase, published, collectorCrashes>>
  BY DEF Counters!Record, Counters!scrapeVars, Counters!evaluatorVars
<1>3. message \in StatMessages /\ message.is # "bogus" /\ message # Counters!NoMessage
  BY <1>1, <1>2 DEF CounterTypes
<1>4. /\ message.metric \in MetricNames /\ message.sender \in Counters!Senders
      /\ message.value \in Nat
  BY <1>3 DEF StatMessages
<1>5. counters \in [MetricNames -> [Counters!Senders -> Nat]]
  BY <1>1 DEF CounterTypes, Amounts
<1>6. counters' = [metric \in MetricNames |-> [sender \in Counters!Senders |->
                      counters[metric][sender] + Adds(message, metric, sender)]]
  <2>1. counters' = [metric \in MetricNames |-> IF metric = message.metric
            THEN [counters[metric] EXCEPT ![message.sender] = @ + message.value]
            ELSE counters[metric]]
    BY <1>2, <1>4, <1>5
  <2>2. ASSUME NEW metric \in MetricNames
        PROVE  counters'[metric] = [sender \in Counters!Senders |->
                                       counters[metric][sender] + Adds(message, metric, sender)]
    <3>1. \A sender \in Counters!Senders :
              Adds(message, metric, sender) = IF metric = message.metric /\ sender = message.sender
                                              THEN message.value ELSE 0
      BY <1>3 DEF Adds
    <3>2. CASE metric = message.metric
      BY <1>4, <1>5, <2>1, <3>1, <3>2
    <3>3. CASE metric # message.metric
      BY <1>4, <1>5, <2>1, <3>1, <3>3
    <3> QED
      BY <3>2, <3>3
  <2> QED
    BY <2>1, <2>2
<1>7. counters' \in Amounts
  BY <1>3, <1>5, <1>6, AddsNat DEF Amounts
<1>8. CounterTypes'
  BY <1>1, <1>2, <1>3, <1>7 DEF CounterTypes, Counters!NoMessage
<1>9. ASSUME NEW s \in Scrapers
      PROVE  PageHolds(s)'
  <2>1. ASSUME NEW i \in 1..10, i <= reached[s]
        PROVE  counters'[Counters!Metrics[i]] = counters[Counters!Metrics[i]]
    <3>1. lock[Counters!Metrics[i]] = s /\ s # Counters!Free
      BY <1>1, <2>1, PartsAssumption DEF PageHolds
    <3>2. Counters!Metrics[i] # message.metric /\ Counters!Metrics[i] \in MetricNames
      BY <1>2, <3>1, MetricFacts
    <3> QED
      BY <1>2, <1>4, <1>5, <3>2
  <2>2. PageHolds(s)
    BY <1>1
  <2>3. \A i \in 1..10 : lock'[Counters!Metrics[i]] = s <=> i <= reached'[s]
    BY <1>2, <2>2 DEF PageHolds
  <2>4. \A i \in 1..10 : i <= reached'[s]
            => output'[s][Counters!Metrics[i]] = counters'[Counters!Metrics[i]]
    BY <1>2, <2>1, <2>2 DEF PageHolds
  <2> QED
    BY <2>3, <2>4 DEF PageHolds, Counters!Metrics
<1>10. PICK total : Counting(total) /\ Current(total)
  BY DEF CountersInv
<1>11. Pending' = Pending
  BY <1>2 DEF Pending, Counters!NoMessage
<1>12. Counting(total)'
  BY <1>2, <1>10, <1>11, CountingStays
<1>13. counters' = total[1]
  <2>1. Len(Pending) >= 1 /\ Pending[1] = message /\ Len(Pending) \in Nat
    BY <1>1, <1>2, PendingMessages
  <2>2. counters = total[0]
    BY <1>2, <1>10 DEF Current
  <2>3. total[1] \in [MetricNames -> [Counters!Senders -> Nat]]
    BY <1>10, <2>1 DEF Counting, Amounts
  <2>4. ASSUME NEW metric \in MetricNames, NEW sender \in Counters!Senders
        PROVE  total[1][metric][sender]
                   = counters[metric][sender] + Adds(message, metric, sender)
    <3>1. 1 \in 1..Len(Pending) /\ 1 - 1 = 0
      BY <2>1
    <3>2. total[1][metric][sender] = total[1 - 1][metric][sender] + Adds(Pending[1], metric, sender)
      BY <1>10, <3>1 DEF Counting
    <3> QED
      BY <2>1, <2>2, <3>1, <3>2
  <2>5. \A metric \in MetricNames : total[1][metric] = counters'[metric]
    <3>1. ASSUME NEW metric \in MetricNames
          PROVE  total[1][metric] = counters'[metric]
      <4>1. counters'[metric] = [sender \in Counters!Senders |->
                                    counters[metric][sender] + Adds(message, metric, sender)]
        BY <1>6
      <4> QED
        BY <2>3, <2>4, <4>1
    <3> QED
      BY <3>1
  <2>6. counters' \in [MetricNames -> [Counters!Senders -> Nat]]
    BY <1>7 DEF Amounts
  <2> QED
    BY <2>3, <2>5, <2>6
<1>14. Current(total)'
  BY <1>2, <1>13 DEF Current
<1>15. \A e \in Reporters : PhaseTells(e)'
  BY <1>2 DEF CountersInv, PhaseTells
<1> QED
  BY <1>8, <1>9, <1>12, <1>14, <1>15 DEF CountersInv

\* A delivery that was counted is acknowledged.
LEMMA AckStatInv ==
    ASSUME CountersInv, Counters!Ack
    PROVE  CountersInv'
<1>1. CounterTypes /\ \A s \in Scrapers : PageHolds(s)
  BY DEF CountersInv
<1>2. /\ stage = "acking" /\ message' = Counters!NoMessage /\ stage' = "idle"
      /\ UNCHANGED <<stats, counters, lock, reached, output, phase, published, collectorCrashes>>
  BY DEF Counters!Ack, Counters!scrapeVars, Counters!evaluatorVars
<1>3. CounterTypes'
  BY <1>1, <1>2 DEF CounterTypes, Counters!NoMessage
<1>4. \A s \in Scrapers : PageHolds(s)'
  BY <1>1, <1>2 DEF PageHolds
<1>5. \A e \in Reporters : PhaseTells(e)'
  BY <1>2 DEF CountersInv, PhaseTells
<1>6. PICK total : Counting(total) /\ Current(total)
  BY DEF CountersInv
<1>7. PICK less : Counting(less)' /\ less[0] = total[1]
  BY <1>1, <1>2, <1>6, CountingLess
<1>8. Current(less)'
  BY <1>2, <1>6, <1>7 DEF Current
<1> QED
  BY <1>3, <1>4, <1>5, <1>7, <1>8 DEF CountersInv

\* A crash of the collector loses the counters and nothing else.
LEMMA CrashStatInv ==
    ASSUME CountersInv, Counters!Crash
    PROVE  CountersInv'
<1>1. CounterTypes
  BY DEF CountersInv
<1>2. /\ collectorCrashes' = collectorCrashes + 1
      /\ stats' = IF message = Counters!NoMessage THEN stats ELSE <<message>> \o stats
      /\ message' = Counters!NoMessage /\ stage' = "idle" /\ counters' = Counters!Zero
      /\ lock' = [metric \in MetricNames |-> Counters!Free]
      /\ reached' = [s \in Scrapers |-> 0]
      /\ output' = [s \in Scrapers |-> Counters!Zero]
      /\ phase' = phase /\ published' = published
  BY DEF Counters!Crash, Counters!evaluatorVars, MetricNames
<1>3. Pending' = Pending /\ stats' = Pending
  BY <1>2 DEF Pending, Counters!NoMessage
<1>4. CounterTypes'
  <2>1. stats' \in Seq(StatMessages) /\ counters' \in Amounts
    BY <1>1, <1>2, <1>3, PendingMessages, ZeroAmounts
  <2>2. /\ lock' \in [MetricNames -> Scrapers \cup {Counters!Free}]
        /\ reached' \in [Scrapers -> 0..10] /\ output' \in [Scrapers -> Amounts]
    BY <1>2, ZeroAmounts
  <2> QED
    BY <1>1, <1>2, <2>1, <2>2 DEF CounterTypes, Counters!NoMessage
<1>5. \A s \in Scrapers : PageHolds(s)'
  <2>1. ASSUME NEW s \in Scrapers
        PROVE  /\ \A i \in 1..10 : lock'[Counters!Metrics[i]] # s
               /\ reached'[s] = 0
    BY <1>2, MetricFacts, PartsAssumption
  <2> QED
    BY <2>1 DEF PageHolds, Counters!Metrics
<1>6. \A e \in Reporters : PhaseTells(e)'
  BY <1>2 DEF CountersInv, PhaseTells
<1>7. collectorCrashes' # 0
  BY <1>1, <1>2 DEF CounterTypes
<1>8. PICK total : Counting(total)
  BY DEF CountersInv
<1>9. PICK anew : /\ Counting(anew)'
                  /\ \A metric \in MetricNames, sender \in Counters!Senders :
                         anew[0][metric][sender] = 0
  BY <1>1, <1>2, <1>3, <1>7, <1>8, CountingAnew
<1>10. Current(anew)'
  <2>1. anew[0] \in Amounts
    <3>1. Len(Pending') \in Nat
      BY <1>1, <1>3, PendingMessages
    <3> QED
      BY <1>9, <3>1 DEF Counting
  <2>2. counters' = anew[0]
    BY <1>2, <1>9, <2>1, ZeroAmounts DEF Amounts
  <2> QED
    BY <1>2, <2>2 DEF Current
<1> QED
  BY <1>4, <1>5, <1>6, <1>9, <1>10 DEF CountersInv

\* A thread writes out the next metric and keeps its mutex.
LEMMA WriteOutInv ==
    ASSUME CountersInv, NEW s \in Scrapers, Counters!WriteOut(s)
    PROVE  CountersInv'
<1>1. CounterTypes /\ \A v \in Scrapers : PageHolds(v)
  BY DEF CountersInv
<1>2. PICK k, name : k = reached[s] + 1 /\ name = Counters!Metrics[k]
  OBVIOUS
<1>3. /\ reached[s] < Len(Counters!Metrics) /\ lock[name] = Counters!Free
      /\ lock' = [lock EXCEPT ![name] = s]
      /\ output' = [output EXCEPT ![s][name] = counters[name]]
      /\ reached' = [reached EXCEPT ![s] = @ + 1]
      /\ UNCHANGED <<stats, message, stage, counters, phase, published, collectorCrashes>>
  BY <1>2 DEF Counters!WriteOut, Counters!collectorVars, Counters!evaluatorVars
<1>4. k \in 1..10 /\ name \in MetricNames /\ reached[s] \in 0..9
  BY <1>1, <1>2, <1>3, MetricFacts DEF CounterTypes
<1>5. reached' \in [Scrapers -> 0..10] /\ reached'[s] = k
  BY <1>1, <1>2, <1>3, <1>4 DEF CounterTypes
<1>6. lock' \in [MetricNames -> Scrapers \cup {Counters!Free}] /\ lock'[name] = s
  BY <1>1, <1>3, <1>4 DEF CounterTypes
<1>7. /\ output' \in [Scrapers -> Amounts] /\ output'[s][name] = counters[name]
      /\ \A m \in MetricNames \ {name} : output'[s][m] = output[s][m]
  <2>1. output[s] \in [MetricNames -> [Counters!Senders -> Nat]]
        /\ counters[name] \in [Counters!Senders -> Nat]
    BY <1>1, <1>4 DEF CounterTypes, Amounts
  <2>2. output' = [output EXCEPT ![s] = [output[s] EXCEPT ![name] = counters[name]]]
    BY <1>3
  <2>3. [output[s] EXCEPT ![name] = counters[name]] \in Amounts
    BY <2>1 DEF Amounts
  <2> QED
    BY <1>1, <1>4, <2>1, <2>2, <2>3 DEF CounterTypes
<1>8. CounterTypes'
  BY <1>1, <1>3, <1>5, <1>6, <1>7 DEF CounterTypes, Counters!NoMessage
<1>9. PageHolds(s)'
  <2>1. ASSUME NEW i \in 1..10
        PROVE  /\ lock'[Counters!Metrics[i]] = s <=> i <= k
               /\ i <= k => output'[s][Counters!Metrics[i]] = counters[Counters!Metrics[i]]
    <3>1. CASE i = k
      BY <1>2, <1>4, <1>6, <1>7, <3>1
    <3>2. CASE i # k
      <4>1. Counters!Metrics[i] \in MetricNames \ {name}
        BY <1>2, <1>4, <3>2, MetricFacts
      <4>2. lock'[Counters!Metrics[i]] = lock[Counters!Metrics[i]]
        BY <1>1, <1>3, <4>1 DEF CounterTypes
      <4>3. i <= k <=> i <= reached[s]
        BY <1>2, <1>4, <3>2
      <4> QED
        BY <1>1, <1>7, <4>1, <4>2, <4>3 DEF PageHolds
    <3> QED
      BY <3>1, <3>2
  <2> QED
    BY <1>3, <1>5, <2>1 DEF PageHolds, Counters!Metrics
<1>10. ASSUME NEW v \in Scrapers, v # s
       PROVE  PageHolds(v)'
  <2>1. reached'[v] = reached[v] /\ output'[v] = output[v]
    BY <1>1, <1>3, <1>10 DEF CounterTypes
  <2>2. ASSUME NEW i \in 1..10
        PROVE  lock'[Counters!Metrics[i]] = v <=> lock[Counters!Metrics[i]] = v
    <3>1. Counters!Metrics[i] \in MetricNames
      BY MetricFacts
    <3>2. v # Counters!Free
      BY PartsAssumption
    <3> QED
      BY <1>1, <1>3, <1>6, <1>10, <3>1, <3>2 DEF CounterTypes
  <2> QED
    BY <1>1, <1>3, <2>1, <2>2 DEF PageHolds, Counters!Metrics
<1>11. Pending' = Pending
  BY <1>3 DEF Pending, Counters!NoMessage
<1> QED
  BY <1>3, <1>8, <1>9, <1>10, <1>11, QuietStep

\* A page is served, and its mutexes are left.
LEMMA RespondInv ==
    ASSUME CountersInv, NEW s \in Scrapers, Counters!Respond(s)
    PROVE  CountersInv'
<1>1. CounterTypes /\ \A v \in Scrapers : PageHolds(v)
  BY DEF CountersInv
<1>2. /\ lock' = [m \in MetricNames |-> IF lock[m] = s THEN Counters!Free ELSE lock[m]]
      /\ reached' = [reached EXCEPT ![s] = 0]
      /\ output' = [output EXCEPT ![s] = Counters!Zero]
      /\ UNCHANGED <<stats, message, stage, counters, phase, published, collectorCrashes>>
  BY DEF Counters!Respond, Counters!collectorVars, Counters!evaluatorVars, MetricNames
<1>3. CounterTypes'
  BY <1>1, <1>2, ZeroAmounts DEF CounterTypes, Counters!NoMessage
<1>4. \A v \in Scrapers, i \in 1..10 :
          lock'[Counters!Metrics[i]] = v <=> v # s /\ lock[Counters!Metrics[i]] = v
  BY <1>2, MetricFacts, PartsAssumption
<1>5. \A v \in Scrapers : v # s => reached'[v] = reached[v] /\ output'[v] = output[v]
  BY <1>1, <1>2 DEF CounterTypes
<1>6. reached'[s] = 0
  BY <1>1, <1>2 DEF CounterTypes
<1>7. ASSUME NEW v \in Scrapers
      PROVE  PageHolds(v)'
  <2>1. CASE v = s
    BY <1>4, <1>6, <2>1 DEF PageHolds, Counters!Metrics
  <2>2. CASE v # s
    BY <1>1, <1>2, <1>4, <1>5, <2>2 DEF PageHolds, Counters!Metrics
  <2> QED
    BY <2>1, <2>2
<1>8. Pending' = Pending
  BY <1>2 DEF Pending, Counters!NoMessage
<1> QED
  BY <1>2, <1>3, <1>7, <1>8, QuietStep

\* Nothing has been published.
LEMMA CountersInit ==
    ASSUME Counters!Init
    PROVE  CountersInv
<1>1. /\ stats = <<>> /\ message = Counters!NoMessage /\ stage = "idle"
      /\ counters = Counters!Zero /\ published = Counters!Zero
      /\ lock = [metric \in MetricNames |-> Counters!Free]
      /\ phase = [e \in Reporters |-> "idle"] /\ reached = [s \in Scrapers |-> 0]
      /\ output = [s \in Scrapers |-> Counters!Zero] /\ collectorCrashes = 0
  BY DEF Counters!Init, MetricNames
<1>2. CounterTypes
  BY <1>1, ZeroAmounts DEF CounterTypes
<1>3. \A s \in Scrapers : PageHolds(s)
  BY <1>1, MetricFacts, PartsAssumption DEF PageHolds
<1>4. ASSUME NEW e \in Reporters
      PROVE  AddsUp(Of(Counters!Zero, e), 0, 0, 0)
  <2>1. \A metric \in MetricNames : Of(Counters!Zero, e)[metric] = 0
    BY ZeroAmounts, AmountsOf, SendersOf
  <2> QED
    BY <2>1, MetricsTold DEF AddsUp
<1>5. \A e \in Reporters : PhaseTells(e)
  BY <1>1, <1>4 DEF PhaseTells
<1>6. PICK total : total = [i \in 0..0 |-> Counters!Zero]
  OBVIOUS
<1>7. Len(Pending) = 0
  BY <1>1 DEF Pending
<1>8. Counting(total)
  BY <1>1, <1>4, <1>6, <1>7, ZeroAmounts DEF Counting
<1>9. Current(total)
  BY <1>1, <1>6 DEF Current
<1> QED
  BY <1>2, <1>3, <1>5, <1>8, <1>9 DEF CountersInv

\* Every step keeps the invariant.
LEMMA CountersStep ==
    ASSUME CountersInv, [Counters!Next]_Counters!vars
    PROVE  CountersInv'
<1>1. CASE UNCHANGED Counters!vars
  <2>1. UNCHANGED <<stats, message, stage, counters, lock, reached, output, phase, published,
                    collectorCrashes>>
    BY <1>1 DEF Counters!vars, Counters!collectorVars, Counters!scrapeVars, Counters!evaluatorVars
  <2>2. CounterTypes'
    BY <2>1 DEF CountersInv, CounterTypes, Counters!NoMessage
  <2>3. \A s \in Scrapers : PageHolds(s)'
    BY <2>1 DEF CountersInv, PageHolds
  <2>4. Pending' = Pending
    BY <2>1 DEF Pending, Counters!NoMessage
  <2> QED
    BY <2>1, <2>2, <2>3, <2>4, QuietStep
<1>2. CASE Counters!Next
  BY <1>2, EvaluateInv, LegacyInv, TakeStatInv, RecordInv, AckStatInv, CrashStatInv,
     WriteOutInv, RespondInv
     DEF Counters!Next, Counters!Collect, Counters!Scrape
<1> QED
  BY <1>1, <1>2

\* Under the invariant a page is right.
LEMMA PagesRight ==
    ASSUME CountersInv
    PROVE  Counters!PagesAreSnapshots /\ Counters!PagesAddUp /\ Counters!CountedOnce
<1>1. CounterTypes
  BY DEF CountersInv
<1>2. Counters!PagesAreSnapshots
  <2>1. ASSUME NEW s \in Scrapers, reached[s] = Len(Counters!Metrics)
        PROVE  output[s] = counters
    <3>1. \A i \in 1..10 : output[s][Counters!Metrics[i]] = counters[Counters!Metrics[i]]
      BY <2>1, MetricFacts DEF CountersInv, PageHolds
    <3>2. \A metric \in MetricNames : output[s][metric] = counters[metric]
      BY <3>1, MetricFacts
    <3>3. output[s] \in Amounts /\ counters \in Amounts
      BY <1>1 DEF CounterTypes
    <3> QED
      BY <3>2, <3>3 DEF Amounts
  <2> QED
    BY <2>1 DEF Counters!PagesAreSnapshots
<1>3. PICK total : Counting(total) /\ Current(total)
  BY DEF CountersInv
<1>4. PICK k \in 0..Len(Pending) : counters = total[k]
  <2>1. Len(Pending) \in Nat /\ (stage # "idle" => Len(Pending) >= 1)
    BY <1>1, PendingMessages
  <2>2. (IF stage = "acking" THEN 1 ELSE 0) \in 0..Len(Pending)
    BY <2>1
  <2> QED
    BY <1>3, <2>2 DEF Current
<1>5. Counters!PagesAddUp
  <2>1. ASSUME NEW s \in Scrapers, NEW e \in Reporters,
               reached[s] = Len(Counters!Metrics), collectorCrashes = 0
        PROVE  /\ output[s]["job_received"][e] >= output[s]["job_decode_success"][e]
                                                  + output[s]["job_decode_failure"][e]
               /\ output[s]["job_decode_success"][e] >= output[s]["issue_already_closed"][e]
                      + output[s]["issue_fetch_failed"][e]
                      + output[s]["evaluation_duration_count"][e]
               /\ output[s]["evaluation_duration_count"][e]
                      >= output[s]["task_evaluation_check_complete"][e]
    <3>1. output[s] = counters
      BY <1>2, <2>1 DEF Counters!PagesAreSnapshots
    <3>2. AddsUp(Of(counters, e), 0, 0, 0)
      BY <1>3, <1>4, <2>1 DEF Counting
    <3>3. \A metric \in MetricNames : Of(counters, e)[metric] = counters[metric][e]
                                      /\ counters[metric][e] \in Nat
      BY <1>1, AmountsOf, SendersOf DEF CounterTypes, Amounts
    <3> QED
      BY <3>1, <3>2, <3>3, MetricsTold DEF AddsUp
  <2> QED
    BY <2>1 DEF Counters!PagesAddUp
<1>6. Counters!CountedOnce
  <2>1. ASSUME stats = <<>>, stage = "idle", collectorCrashes = 0
        PROVE  counters = published
    <3>1. Len(Pending) = 0
      BY <1>1, <2>1 DEF CounterTypes, Pending
    <3>2. total[0] = published
      BY <1>3, <2>1, <3>1 DEF Counting
    <3> QED
      BY <1>3, <2>1, <3>2 DEF Current
  <2>2. \A metric \in MetricNames, sender \in Counters!Senders :
            counters[metric][sender] <= published[metric][sender]
    BY <1>3, <1>4 DEF Counting
  <2> QED
    BY <2>1, <2>2 DEF Counters!CountedOnce, MetricNames
<1> QED
  BY <1>2, <1>5, <1>6

\* The page of the metrics is what the counters were at one time, it adds up, and
\* no event is counted twice (statscollector.rs:31-67, build.rs:480-566), whatever
\* evaluators there are, however many threads serve pages, and when the collector
\* dies.
THEOREM CountersTheorem ==
    Counters!Spec => [](Counters!PagesAreSnapshots /\ Counters!PagesAddUp /\ Counters!CountedOnce)
<1>1. Counters!Init => CountersInv
  BY CountersInit
<1>2. CountersInv /\ [Counters!Next]_Counters!vars => CountersInv'
  BY CountersStep
<1>3. CountersInv => Counters!PagesAreSnapshots /\ Counters!PagesAddUp /\ Counters!CountedOnce
  BY PagesRight
<1> QED
  BY <1>1, <1>2, <1>3, PTL DEF Counters!Spec

-----------------------------------------------------------------------------
(* Writing a log by line numbers.                                           *)

\* The buffer is padded up to the line, and the line is put in its place.
LEMMA ReplacedRows ==
    ASSUME NEW f \in Seq(Texts), NEW l \in Nat, NEW data \in Texts
    PROVE  /\ Fresh!Replaced(f, l, data) \in Seq(Texts)
           /\ Len(Fresh!Replaced(f, l, data)) = (IF l + 1 > Len(f) THEN l + 1 ELSE Len(f))
           /\ \A i \in 1..Len(Fresh!Replaced(f, l, data)) :
                  Fresh!Replaced(f, l, data)[i] =
                      IF i = l + 1 THEN data ELSE IF i <= Len(f) THEN f[i] ELSE Blank
<1> DEFINE n == IF l + 1 > Len(f) THEN l + 1 ELSE Len(f)
           R == [i \in 1..n |-> IF i = l + 1 THEN data ELSE IF i <= Len(f) THEN f[i] ELSE Blank]
<1>1. n \in Nat
  OBVIOUS
<1>2. \A i \in 1..n : i <= Len(f) => f[i] \in Texts
  BY <1>1
<1>3. \A i \in 1..n : R[i] \in Texts
  BY <1>2, PartsAssumption
<1>4. R \in Seq(Texts) /\ Len(R) = n /\ DOMAIN R = 1..n
  <2>1. R \in [1..n -> Texts]
    BY <1>3
  <2>2. R \in Seq(Texts)
    BY <1>1, <2>1, SeqDef
  <2>3. DOMAIN R = 1..n
    OBVIOUS
  <2> HIDE DEF R, n
  <2> QED
    BY <1>1, <2>2, <2>3, LenProperties
<1>5. Fresh!Replaced(f, l, data) = R
  BY DEF Fresh!Replaced
<1> QED
  BY <1>4, <1>5

\* Behind the end of the file, what is appended is the padding and the line.
LEMMA AppendedRows ==
    ASSUME NEW f \in Seq(Texts), NEW l \in Nat, NEW data \in Texts, Len(f) <= l
    PROVE  f \o Fresh!Joined(SubSeq(Fresh!Replaced(f, l, data), Len(f) + 1, l + 1))
               = Fresh!Replaced(f, l, data)
<1> DEFINE R == Fresh!Replaced(f, l, data)
           added == SubSeq(R, Len(f) + 1, l + 1)
<1>1. /\ R \in Seq(Texts) /\ Len(R) = l + 1
      /\ \A i \in 1..Len(f) : R[i] = f[i]
  <2>1. l + 1 > Len(f) /\ Len(f) \in Nat
    OBVIOUS
  <2>2. Len(R) = l + 1
    BY <2>1, ReplacedRows
  <2>3. \A i \in 1..Len(f) : i \in 1..Len(R) /\ i # l + 1 /\ i <= Len(f)
    BY <2>1, <2>2
  <2> QED
    BY <2>2, <2>3, ReplacedRows
<1> HIDE DEF R
<1>2. /\ added \in Seq(Texts) /\ Len(added) = l + 1 - Len(f)
      /\ \A i \in 1..(l + 1 - Len(f)) : added[i] = R[Len(f) + i]
  BY <1>1
<1> HIDE DEF added
<1>3. Fresh!Joined(added) = added
  <2>1. Len(added) # 0
    BY <1>2
  <2>2. added # <<>>
    BY <2>1
  <2> QED
    BY <2>2 DEF Fresh!Joined
<1>4. f \o added \in Seq(Texts) /\ Len(f \o added) = l + 1
  BY <1>2
<1> DEFINE longer == f \o added
<1>5. ASSUME NEW i \in 1..(l + 1)
      PROVE  longer[i] = R[i]
  <2>1. i \in Nat /\ i >= 1 /\ Len(f) \in Nat
    OBVIOUS
  <2>2. longer[i] = IF i <= Len(f) THEN f[i] ELSE added[i - Len(f)]
    BY <1>2, <2>1, ConcatProperties
  <2> HIDE DEF longer
  <2>3. CASE i <= Len(f)
    BY <1>1, <2>1, <2>2, <2>3
  <2>4. CASE i > Len(f)
    <3>1. i - Len(f) \in 1..(l + 1 - Len(f)) /\ Len(f) + (i - Len(f)) = i
      BY <2>1, <2>4
    <3> QED
      BY <1>2, <2>1, <2>2, <2>4, <3>1
  <2> QED
    BY <2>1, <2>3, <2>4
<1>6. f \o added = R
  BY <1>1, <1>4, <1>5, SeqEqual
<1> QED
  BY <1>3, <1>6 DEF R, added

\* The ideal file changes by a line as the buffer of a writer does.
LEMMA PutRows ==
    ASSUME NEW f \in Seq(Texts), NEW l \in Nat, NEW data \in Texts
    PROVE  /\ Fresh!Ideal!Put(f, l + 1, data) = Fresh!Replaced(f, l, data)
           /\ Single!Ideal!Put(f, l + 1, data) = Fresh!Replaced(f, l, data)
  BY DEF Fresh!Ideal!Put, Single!Ideal!Put, Fresh!Replaced

\* A fresh writer knows the file, so it never has more rows than its last line
\* says: it rewrites the file, or appends behind its end.
FreshInv == rows = expected /\ rows \in Seq(Texts) /\ panicked = FALSE

\* Fresh writers put the lines in their rows and never panic, whatever the lines
\* and their order (writetoline.rs:14-78).
THEOREM FreshTheorem == Fresh!Spec => [](LinesInPlace /\ Fresh!AnyOrderAccepted)
<1>1. Fresh!Init => FreshInv
  BY DEF Fresh!Init, FreshInv
<1>2. ASSUME FreshInv, [Fresh!Next]_Fresh!vars
      PROVE  FreshInv'
  <2>1. CASE UNCHANGED Fresh!vars
    BY <1>2, <2>1 DEF FreshInv, Fresh!vars
  <2> DEFINE w == Fresh!NewWriter(rows)
  <2>2. Fresh!InUse = w /\ w.buffer = rows /\ w.last_line = Len(rows) /\ Len(rows) \in Nat
    BY <1>2 DEF FreshInv, Fresh!InUse, Fresh!NewWriter
  <2>3. ASSUME NEW l \in 0..MaxLine, NEW data \in Texts, Fresh!WriteToLine(l, data)
        PROVE  FreshInv'
    <3>1. l \in Nat /\ rows \in Seq(Texts) /\ rows = expected /\ panicked = FALSE
      BY <1>2, PartsAssumption DEF FreshInv
    <3>2. /\ rows' = Fresh!FileAfter(rows, w, l, data)
          /\ expected' = Fresh!Ideal!Put(expected, l + 1, data)
          /\ panicked' = FALSE
      BY <2>2, <2>3, <3>1 DEF Fresh!WriteToLine
    <3>3. Fresh!FileAfter(rows, w, l, data) = Fresh!Replaced(rows, l, data)
      <4>1. CASE Len(rows) > l
        BY <2>2, <4>1 DEF Fresh!FileAfter, Fresh!Rewrites
      <4>2. CASE Len(rows) <= l
        <5>1. ~Fresh!Rewrites(w, l)
          BY <2>2, <3>1, <4>2 DEF Fresh!Rewrites
        <5> QED
          BY <2>2, <3>1, <4>2, <5>1, AppendedRows DEF Fresh!FileAfter
      <4> QED
        BY <2>2, <3>1, <4>1, <4>2
    <3> QED
      BY <3>1, <3>2, <3>3, PutRows, ReplacedRows DEF FreshInv
  <2>4. ASSUME NEW l \in 0..MaxLine, Fresh!WriteToLinePanics(l)
        PROVE  FALSE
    BY <2>2, <2>4, PartsAssumption DEF Fresh!WriteToLinePanics, Fresh!Panics, Fresh!Rewrites
  <2> QED
    BY <1>2, <2>1, <2>3, <2>4 DEF Fresh!Next
<1>3. FreshInv => LinesInPlace /\ Fresh!AnyOrderAccepted
  BY DEF FreshInv, LinesInPlace, Fresh!LinesInPlace, Single!LinesInPlace,
         Fresh!AnyOrderAccepted
<1> QED
  BY <1>1, <1>2, <1>3, PTL DEF Fresh!Spec

\* One writer remembers the file.  The last row was written, so that a new line
\* that neither rewrites nor panics lies behind the end of the file.
SingleInv ==
    /\ rows = expected /\ rows \in Seq(Texts) /\ writer.buffer = rows
    /\ rows = <<>> \/ Len(rows) - 1 \in written

\* One writer that does not panic puts the lines in their rows too, whatever the
\* lines and their order (writetoline.rs:38-78).
THEOREM SingleTheorem == Single!Spec => []LinesInPlace
<1>1. Single!Init => SingleInv
  BY DEF Single!Init, Single!NewWriter, SingleInv
<1>2. ASSUME SingleInv, [Single!Next]_Single!vars
      PROVE  SingleInv'
  <2>1. CASE UNCHANGED Single!vars
    BY <1>2, <2>1 DEF SingleInv, Single!vars
  <2>2. Single!InUse = writer
    BY DEF Single!InUse
  <2>3. ASSUME NEW l \in 0..MaxLine, NEW data \in Texts, Single!WriteToLine(l, data)
        PROVE  SingleInv'
    <3>1. /\ l \in Nat /\ rows \in Seq(Texts) /\ rows = expected /\ writer.buffer = rows
          /\ rows = <<>> \/ Len(rows) - 1 \in written
      BY <1>2, PartsAssumption DEF SingleInv
    <3>2. /\ l \notin written /\ ~Single!Panics(writer, l)
          /\ rows' = Single!FileAfter(rows, writer, l, data)
          /\ writer' = Single!WriterAfter(writer, l, data)
          /\ written' = written \cup {l}
          /\ expected' = Single!Ideal!Put(expected, l + 1, data)
      BY <2>2, <2>3 DEF Single!WriteToLine
    <3> DEFINE R == Fresh!Replaced(rows, l, data)
    <3>3. Single!Replaced(rows, l, data) = R
      BY DEF Single!Replaced, Fresh!Replaced
    <3>4. R \in Seq(Texts) /\ Len(R) = (IF l + 1 > Len(rows) THEN l + 1 ELSE Len(rows))
      BY <3>1, ReplacedRows
    <3> HIDE DEF R
    <3>5. writer'.buffer = R /\ expected' = R
      BY <3>1, <3>2, <3>3, PutRows DEF Single!WriterAfter, R
    <3>6. rows' = R
      <4>1. CASE Single!Rewrites(writer, l)
        BY <3>1, <3>2, <3>3, <4>1 DEF Single!FileAfter
      <4>2. CASE ~Single!Rewrites(writer, l)
        <5>1. Len(rows) <= l + 1
          BY <3>1, <3>2, <4>2 DEF Single!Panics
        <5>2. Len(rows) # l + 1
          BY <3>1, <3>2
        <5>3. Len(rows) <= l
          BY <3>1, <5>1, <5>2
        <5>4. rows' = rows \o Single!Joined(SubSeq(R, Len(rows) + 1, l + 1))
          BY <3>1, <3>2, <3>3, <4>2 DEF Single!FileAfter
        <5>5. rows' = rows \o Fresh!Joined(SubSeq(R, Len(rows) + 1, l + 1))
          BY <5>4 DEF Single!Joined, Fresh!Joined
        <5> QED
          BY <3>1, <5>3, <5>5, AppendedRows DEF R
      <4> QED
        BY <4>1, <4>2
    <3>7. Len(R) - 1 \in written'
      <4>1. CASE l + 1 > Len(rows)
        BY <3>1, <3>2, <3>4, <4>1
      <4>2. CASE l + 1 <= Len(rows)
        BY <3>1, <3>2, <3>4, <4>2
      <4> QED
        BY <3>1, <4>1, <4>2
    <3> QED
      BY <3>4, <3>5, <3>6, <3>7 DEF SingleInv
  <2>4. ASSUME NEW l \in 0..MaxLine, Single!WriteToLinePanics(l)
        PROVE  SingleInv'
    BY <1>2, <2>4 DEF SingleInv, Single!WriteToLinePanics
  <2> QED
    BY <1>2, <2>1, <2>3, <2>4 DEF Single!Next
<1>3. SingleInv => LinesInPlace
  BY DEF SingleInv, LinesInPlace, Fresh!LinesInPlace, Single!LinesInPlace
<1> QED
  BY <1>1, <1>2, <1>3, PTL DEF Single!Spec

-----------------------------------------------------------------------------

\* The services do what they are for: the lines of a log are in their rows,
\* whichever way it is written (writetoline.rs:38-78), once its events are handled
\* an open pull request has been evaluated as it is (evaluationfilter.rs:25-104),
\* no worker answers from a failed lookup or loses a message to a repository that
\* never had the app (config.rs:182-222), and a page of metrics is right
\* (statscollector.rs:31-67, build.rs:480-566).
THEOREM ServicesTheorem ==
    (Fresh!Spec \/ Single!Spec) /\ Filter!Spec /\ Machine!Spec /\ Counters!Spec
        => []ServicesRight
<1>1. /\ LinesInPlace
      /\ Filter!TypeInv /\ Filter!LastEvaluationIsCurrent
      /\ Machine!TypeInv /\ Machine!AbsenceIsForgotten /\ Machine!LossNeedsRemoval
      /\ Counters!PagesAreSnapshots /\ Counters!PagesAddUp /\ Counters!CountedOnce
      => ServicesRight
  BY DEF ServicesRight
<1> QED
  BY <1>1, FreshTheorem, SingleTheorem, FilterTheorem, MachineTheorem, CountersTheorem, PTL
=============================================================================
