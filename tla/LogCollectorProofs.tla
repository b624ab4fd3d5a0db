------------------------- MODULE LogCollectorProofs -------------------------
(***************************************************************************)
(* Proofs about LogCollector, for every set of attempts, every length of a  *)
(* log and every capacity of the cache of handles; and before them, what    *)
(* one call of write_to_line does to a file, for every file and line.       *)
(***************************************************************************)
EXTENDS LogCollector, SequenceTheorems, TLAPS

\* The buffer after the write: as long as it has to be, changed in one row.
LEMMA ReplacedType ==
  ASSUME NEW buffer \in Seq(Text), NEW line \in Nat, NEW data \in Text
  PROVE  /\ Replaced(buffer, line, data) \in Seq(Text)
         /\ line + 1 > Len(buffer) => Len(Replaced(buffer, line, data)) = line + 1
         /\ line + 1 <= Len(buffer) => Len(Replaced(buffer, line, data)) = Len(buffer)
         /\ Replaced(buffer, line, data)[line + 1] = data
         /\ \A i \in 1..Len(buffer) :
                i # line + 1 => Replaced(buffer, line, data)[i] = buffer[i]
         /\ \A i \in (Len(buffer) + 1)..line : Replaced(buffer, line, data)[i] = Blank
<1> DEFINE R == Replaced(buffer, line, data)
           n == IF line + 1 > Len(buffer) THEN line + 1 ELSE Len(buffer)
           e(i) == IF i = line + 1 THEN data
                   ELSE IF i <= Len(buffer) THEN buffer[i] ELSE Blank
<1>1. Len(buffer) \in Nat /\ n \in Nat /\ n >= line + 1 /\ n >= Len(buffer)
  OBVIOUS
<1>2. \A i \in 1..n : e(i) \in Text
  BY BlankAssumption
<1>3. R = [i \in 1..n |-> e(i)]
  BY DEF Replaced
<1>4. R \in Seq(Text) /\ Len(R) = n
  <2>1. [i \in 1..n |-> e(i)] \in Seq(Text) /\ Len([i \in 1..n |-> e(i)]) = n
    <3> HIDE DEF e, n
    <3> QED
      BY <1>1, <1>2
  <2> HIDE DEF e, n, R
  <2> QED
    BY <1>3, <2>1
<1>5. \A i \in 1..n : R[i] = e(i)
  <2> HIDE DEF e, n, R
  <2> QED
    BY <1>3
<1>6. R[line + 1] = data
  BY <1>1, <1>5
<1>7. \A i \in 1..Len(buffer) : i # line + 1 => R[i] = buffer[i]
  <2> HIDE DEF R
  <2> QED
    BY <1>1, <1>5
<1>8. \A i \in (Len(buffer) + 1)..line : R[i] = Blank
  <2> HIDE DEF R
  <2> QED
    BY <1>1, <1>5
<1>9. /\ line + 1 > Len(buffer) => n = line + 1
      /\ line + 1 <= Len(buffer) => n = Len(buffer)
  BY <1>1
<1> QED
  BY <1>4, <1>6, <1>7, <1>8, <1>9

\* A writer whose buffer is its file writes the line into its row, without a
\* panic, when it moves back or goes behind the end.
LEMMA WriteInPlace ==
  ASSUME NEW file \in Seq(Text), NEW line \in Nat, NEW data \in Text,
         NEW w \in [buffer : Seq(Text), last_line : Nat], w.buffer = file,
         Rewrites(w, line) \/ Len(file) <= line
  PROVE  /\ ~Panics(w, line)
         /\ FileAfter(file, w, line, data) = Replaced(file, line, data)
<1>1. ~Panics(w, line)
  BY DEF Panics
<1>2. CASE Rewrites(w, line)
  BY <1>1, <1>2 DEF FileAfter
<1>3. CASE ~Rewrites(w, line)
  <2> DEFINE buffer == Replaced(file, line, data)
             rows == SubSeq(buffer, Len(file) + 1, line + 1)
  <2>1. /\ buffer \in Seq(Text) /\ Len(buffer) = line + 1 /\ Len(file) <= line
        /\ \A i \in 1..Len(file) : buffer[i] = file[i]
    <3>1. Len(file) <= line /\ Len(file) \in Nat /\ line + 1 > Len(file)
      BY <1>3
    <3>2. /\ Replaced(file, line, data) \in Seq(Text)
          /\ line + 1 > Len(file) => Len(Replaced(file, line, data)) = line + 1
          /\ line + 1 <= Len(file) => Len(Replaced(file, line, data)) = Len(file)
          /\ Replaced(file, line, data)[line + 1] = data
          /\ \A i \in 1..Len(file) :
                i # line + 1 => Replaced(file, line, data)[i] = file[i]
          /\ \A i \in (Len(file) + 1)..line : Replaced(file, line, data)[i] = Blank
      BY ZenonT(30), ReplacedType
    <3>3. \A i \in 1..Len(file) : i # line + 1
      BY <3>1
    <3> QED
      BY <3>1, <3>2, <3>3
  <2> HIDE DEF buffer
  <2>2. /\ rows \in Seq(Text) /\ Len(rows) = line + 1 - Len(file) /\ rows # <<>>
        /\ \A i \in 1..Len(rows) : rows[i] = buffer[Len(file) + i]
    <3> DEFINE m == Len(file) + 1
               n == line + 1
    <3>1. m \in Int /\ n \in Int /\ m <= n /\ n - m + 1 = line + 1 - Len(file)
      BY <2>1
    <3>2. \A i \in m..n : buffer[i] \in Text
      BY <2>1
    <3> HIDE DEF m, n
    <3>3. /\ SubSeq(buffer, m, n) \in Seq(Text)
          /\ Len(SubSeq(buffer, m, n)) = n - m + 1
          /\ \A i \in 1..(n - m + 1) : SubSeq(buffer, m, n)[i] = buffer[m + i - 1]
      BY <3>1, <3>2, SubSeqProperties
    <3>4. rows = SubSeq(buffer, m, n)
      BY DEF m, n
    <3>5. \A i \in 1..(n - m + 1) : m + i - 1 = Len(file) + i
      BY <3>1 DEF m
    <3> HIDE DEF rows
    <3>6. rows \in Seq(Text) /\ Len(rows) = line + 1 - Len(file)
      BY <3>1, <3>3, <3>4
    <3>7. \A i \in 1..Len(rows) : rows[i] = buffer[Len(file) + i]
      BY <3>1, <3>3, <3>4, <3>5, <3>6
    <3>8. Len(rows) # 0
      BY <2>1, <3>6
    <3> QED
      BY <3>6, <3>7, <3>8
  <2> HIDE DEF rows
  <2>3. file \o rows = buffer
    <3>1. file \o rows \in Seq(Text) /\ Len(file \o rows) = Len(buffer)
      <4>1. file \o rows \in Seq(Text) /\ Len(file \o rows) = Len(file) + Len(rows)
        BY <2>2, ConcatProperties
      <4>2. Len(file) + Len(rows) = line + 1
        BY <2>1, <2>2
      <4> QED
        BY <2>1, <4>1, <4>2
    <3>2. ASSUME NEW i \in 1..Len(file \o rows) PROVE (file \o rows)[i] = buffer[i]
      <4>0. /\ i \in 1..(Len(file) + Len(rows)) /\ Len(file) \in Nat /\ Len(rows) \in Nat
            /\ (file \o rows)[i] = IF i <= Len(file) THEN file[i] ELSE rows[i - Len(file)]
        BY <2>2, ConcatProperties
      <4>1. CASE i <= Len(file)
        <5>1. i \in 1..Len(file)
          BY <4>0, <4>1
        <5> QED
          BY <2>1, <4>0, <4>1, <5>1
      <4>2. CASE i > Len(file)
        <5>1. (file \o rows)[i] = rows[i - Len(file)] /\ i - Len(file) \in 1..Len(rows)
          BY <4>0, <4>2
        <5>2. rows[i - Len(file)] = buffer[Len(file) + (i - Len(file))]
          BY <2>2, <5>1
        <5> QED
          BY <5>1, <5>2
      <4> QED
        BY <4>0, <4>1, <4>2
    <3> QED
      BY <2>1, <3>1, <3>2, SeqEqual
  <2>4. FileAfter(file, w, line, data) = file \o rows
    BY <1>3, <2>2 DEF FileAfter, Joined, buffer, rows
  <2> QED
    BY <1>1, <2>3, <2>4 DEF buffer
<1> QED
  BY <1>2, <1>3

\* A line behind the end of the file: the file keeps its rows and ends there.
LEMMA WriteBehindEnd ==
  ASSUME NEW file \in Seq(Text), NEW line \in Nat, NEW data \in Text,
         NEW w \in [buffer : Seq(Text), last_line : Nat], w.buffer = file,
         Len(file) <= line
  PROVE  LET R == FileAfter(file, w, line, data)
         IN  /\ R \in Seq(Text)
             /\ Len(R) = line + 1
             /\ \A i \in 1..Len(file) : R[i] = file[i]
             /\ R = Replaced(file, line, data)
<1>1. FileAfter(file, w, line, data) = Replaced(file, line, data)
  BY WriteInPlace
<1>2. /\ Replaced(file, line, data) \in Seq(Text)
      /\ line + 1 > Len(file) => Len(Replaced(file, line, data)) = line + 1
      /\ line + 1 <= Len(file) => Len(Replaced(file, line, data)) = Len(file)
      /\ Replaced(file, line, data)[line + 1] = data
      /\ \A i \in 1..Len(file) :
            i # line + 1 => Replaced(file, line, data)[i] = file[i]
      /\ \A i \in (Len(file) + 1)..line : Replaced(file, line, data)[i] = Blank
  BY ZenonT(30), ReplacedType
<1>3. line + 1 > Len(file) /\ \A i \in 1..Len(file) : i # line + 1
  OBVIOUS
<1> QED
  BY <1>1, <1>2, <1>3

-----------------------------------------------------------------------------

Inv ==
    /\ TypeInv
    /\ up \/ queue = <<>>
    /\ \A a \in Attempts : printed[a] <= MaxLines /\ Len(log[a]) <= printed[a]
    /\ HandlesMatchFiles
    /\ LinesMoveForward

LEMMA InitInv == Init => Inv
<1> SUFFICES ASSUME Init PROVE Inv
  OBVIOUS
<1>1. \A a \in Attempts : age[a] = MaxOpen
  BY DEF Init
<1>2. HandlesMatchFiles
  BY <1>1, MaxOpenAssumption DEF HandlesMatchFiles, Cached
<1>3. LinesMoveForward
  BY DEF Init, LinesMoveForward
<1>4. TypeInv
  BY MaxOpenAssumption DEF Init, TypeInv, Closed, NewWriter
<1>5. \A a \in Attempts : printed[a] <= MaxLines /\ Len(log[a]) <= printed[a]
  BY MaxLinesAssumption DEF Init
<1> QED
  BY <1>2, <1>3, <1>4, <1>5 DEF Init, Inv

-----------------------------------------------------------------------------
(* One line is written.                                                      *)

\* The file of the message's attempt grows to the row of its line, and the
\* attempt's handle knows it.
LEMMA LineWritten ==
  ASSUME Inv, WriteLine
  PROVE  \E a \in Attempts : \E n \in 1..MaxLines : \E R \in Seq(Text) :
            /\ queue # <<>> /\ Head(queue) = Message(a, "Msg", n)
            /\ Len(log[a]) < n
            /\ R = Replaced(log[a], n - 1, n)
            /\ Len(R) = n
            /\ \A i \in 1..Len(log[a]) : R[i] = log[a][i]
            /\ log' = [log EXCEPT ![a] = R]
            /\ writers' = Handles(a, [buffer |-> R, last_line |-> n - 1])
            /\ age' = Touched(a)
            /\ queue' = Tail(queue)
            /\ UNCHANGED <<builderVars, up, metadata, result, interrupted>>
<1>1. PICK m \in Messages : m = Head(queue) /\ queue # <<>> /\ m.type = "Msg" /\ m = queue[1]
  BY DEF WriteLine, Received, Inv, TypeInv
<1>2. 1 \in DOMAIN queue
  BY <1>1 DEF Inv, TypeInv
<1> DEFINE a == m.from
           n == m.line_number
           line == n - 1
           w == HandleFor(a)
           data == m.line_number
           R == Replaced(log[a], line, data)
<1>3. a \in Attempts /\ n \in Nat /\ m = Message(a, "Msg", n)
  BY <1>1 DEF Messages, Message
<1>4. Len(log[a]) < n /\ n <= MaxLines /\ Len(log[a]) \in Nat /\ n \in 1..MaxLines
  <2>1. Len(log[a]) < n /\ n <= printed[a]
    BY <1>1, <1>2 DEF LinesMoveForward, Inv
  <2>2. printed[a] \in Nat /\ printed[a] <= MaxLines /\ Len(log[a]) \in Nat
    BY <1>3 DEF Inv, TypeInv
  <2> HIDE DEF a, n
  <2> QED
    BY <1>3, <2>1, <2>2, MaxLinesAssumption
<1>5. line \in Nat /\ line + 1 = n /\ Len(log[a]) <= line
  BY <1>3, <1>4
<1>6. data \in Text
  BY <1>4, TextAssumption
<1>7. log[a] \in Seq(Text)
  BY <1>3 DEF Inv, TypeInv
<1>8. w \in [buffer : Seq(Text), last_line : Nat] /\ w.buffer = log[a]
  BY <1>3, <1>7 DEF HandleFor, HandlesMatchFiles, NewWriter, Inv, TypeInv
<1>9. /\ log' = [log EXCEPT ![a] = FileAfter(@, w, line, line + 1)]
      /\ writers' = Handles(a, WriterAfter(w, line, line + 1))
      /\ age' = Touched(a)
      /\ queue' = Tail(queue)
      /\ UNCHANGED <<builderVars, up, metadata, result, interrupted>>
  BY <1>1 DEF WriteLine
<1> HIDE DEF a, n, line, w, data
<1>10. /\ FileAfter(log[a], w, line, data) \in Seq(Text)
       /\ Len(FileAfter(log[a], w, line, data)) = line + 1
       /\ \A i \in 1..Len(log[a]) : FileAfter(log[a], w, line, data)[i] = log[a][i]
       /\ FileAfter(log[a], w, line, data) = R
  BY <1>5, <1>6, <1>7, <1>8, WriteBehindEnd
<1>11. R \in Seq(Text) /\ Len(R) = n /\ \A i \in 1..Len(log[a]) : R[i] = log[a][i]
  <2> HIDE DEF R
  <2> QED
    BY <1>5, <1>10
<1> HIDE DEF R
<1>13. R = Replaced(log[a], n - 1, n)
  BY DEF R, line, n, data
<1>14. WriterAfter(w, line, line + 1) = [buffer |-> R, last_line |-> n - 1]
  BY <1>5, <1>8 DEF WriterAfter, R, line, n, data
<1>15. log' = [log EXCEPT ![a] = R]
  BY <1>5, <1>9, <1>10 DEF n, data, Inv, TypeInv
<1>16. Head(queue) = Message(a, "Msg", n) /\ queue # <<>> /\ a \in Attempts
  BY <1>1, <1>3 DEF a, n
<1> QED
  BY <1>4, <1>9, <1>11, <1>13, <1>14, <1>15, <1>16
\* The queue loses its first message.
LEMMA TailQueue ==
  ASSUME Inv, queue # <<>>
  PROVE  /\ Tail(queue) \in Seq(Messages)
         /\ 1 \in DOMAIN queue /\ Head(queue) = queue[1] /\ Head(queue).from \in Attempts
         /\ \A i \in DOMAIN Tail(queue) :
                /\ Tail(queue)[i] = queue[i + 1] /\ i + 1 \in DOMAIN queue
                /\ 1 < i + 1
<1>1. queue \in Seq(Messages)
  BY DEF Inv, TypeInv
<1>2. queue[1] \in Messages /\ Head(queue) = queue[1]
  BY <1>1
<1>3. Head(queue).from \in Attempts
  BY <1>2 DEF Messages
<1> QED
  BY <1>1, <1>2, <1>3

\* Messages that are taken away leave the others in order.
LEMMA TailForward ==
  ASSUME Inv, queue # <<>>, queue' = Tail(queue), UNCHANGED <<log, printed>>
  PROVE  LinesMoveForward'
<1>1. ASSUME NEW i \in DOMAIN queue', queue'[i].type = "Msg"
      PROVE  /\ Len(log'[queue'[i].from]) < queue'[i].line_number
             /\ queue'[i].line_number <= printed'[queue'[i].from]
  BY <1>1, TailQueue DEF Inv, LinesMoveForward
<1>2. ASSUME NEW i \in DOMAIN queue', NEW j \in DOMAIN queue',
             i < j /\ queue'[i].from = queue'[j].from,
             queue'[i].type = "Msg" /\ queue'[j].type = "Msg"
      PROVE  queue'[i].line_number < queue'[j].line_number
  <2>1. /\ i + 1 < j + 1 /\ i + 1 \in DOMAIN queue /\ j + 1 \in DOMAIN queue
        /\ queue'[i] = queue[i + 1] /\ queue'[j] = queue[j + 1]
    <3>1. queue \in Seq(Messages) /\ queue' \in Seq(Messages)
      BY TailQueue DEF Inv, TypeInv
    <3>2. i \in Int /\ j \in Int
      BY <3>1
    <3> QED
      BY <1>2, <3>2, TailQueue
  <2> QED
    BY <1>2, <2>1 DEF Inv, LinesMoveForward
<1> QED
  BY <1>1, <1>2 DEF LinesMoveForward

-----------------------------------------------------------------------------
(* The builder's side.                                                       *)

\* A published message goes to the end of the queue, if there is one.
LEMMA Published ==
  ASSUME Inv, NEW m \in Messages, Publish(m)
  PROVE  /\ queue' \in Seq(Messages)
         /\ interrupted' \in [Attempts -> BOOLEAN]
         /\ up' \/ queue' = <<>>
         /\ \A i \in DOMAIN queue' :
                \/ i \in DOMAIN queue /\ queue'[i] = queue[i]
                \/ i = Len(queue) + 1 /\ queue'[i] = m
<1>1. queue \in Seq(Messages) /\ m.from \in Attempts
  BY DEF Inv, TypeInv, Messages
<1>2. queue' \in Seq(Messages) /\ (up' \/ queue' = <<>>)
  BY <1>1 DEF Publish, Inv
<1>3. interrupted' \in [Attempts -> BOOLEAN]
  <2>1. interrupted' = [interrupted EXCEPT ![m.from] = interrupted[m.from] \/ ~up]
    BY DEF Publish
  <2>2. (interrupted[m.from] \/ ~up) \in BOOLEAN
    OBVIOUS
  <2>3. interrupted \in [Attempts -> BOOLEAN]
    BY DEF Inv, TypeInv
  <2> DEFINE b == interrupted[m.from] \/ ~up
  <2> HIDE DEF b
  <2>4. interrupted' = [interrupted EXCEPT ![m.from] = b] /\ b \in BOOLEAN
    BY <2>1, <2>2 DEF b
  <2> QED
    BY <1>1, <2>3, <2>4
<1>4. CASE up
  BY <1>1, <1>2, <1>3, <1>4 DEF Publish
<1>5. CASE ~up
  BY <1>1, <1>2, <1>3, <1>5 DEF Publish
<1> QED
  BY <1>4, <1>5

\* A start or a result says nothing about lines.
LEMMA OtherMessage ==
  ASSUME Inv, NEW a \in Attempts, NEW t \in {"Start", "Finish"},
         Publish(Message(a, t, 0)), UNCHANGED printed
  PROVE  LinesMoveForward'
<1> DEFINE m == Message(a, t, 0)
<1>1. m \in Messages /\ m.type # "Msg"
  BY DEF Message, Messages
<1>2. log' = log
  BY DEF Publish, fileVars
<1> HIDE DEF m
<1>3. \A i \in DOMAIN queue' :
         queue'[i].type = "Msg" => i \in DOMAIN queue /\ queue'[i] = queue[i]
  BY <1>1, Published DEF m
<1>4. ASSUME NEW i \in DOMAIN queue', queue'[i].type = "Msg"
      PROVE  /\ Len(log'[queue'[i].from]) < queue'[i].line_number
             /\ queue'[i].line_number <= printed'[queue'[i].from]
  BY <1>2, <1>3, <1>4 DEF Inv, LinesMoveForward
<1>5. ASSUME NEW i \in DOMAIN queue', NEW j \in DOMAIN queue',
             i < j /\ queue'[i].from = queue'[j].from,
             queue'[i].type = "Msg" /\ queue'[j].type = "Msg"
      PROVE  queue'[i].line_number < queue'[j].line_number
  BY <1>3, <1>5 DEF Inv, LinesMoveForward
<1> QED
  BY <1>4, <1>5 DEF LinesMoveForward

\* The next line of an attempt comes behind its other lines.
LEMMA NextLine ==
  ASSUME Inv, NEW a \in Attempts, LogLine(a)
  PROVE  LinesMoveForward'
<1> DEFINE m == Message(a, "Msg", printed[a] + 1)
<1>1. /\ printed \in [Attempts -> Nat] /\ log \in [Attempts -> Seq(Text)]
      /\ queue \in Seq(Messages) /\ Len(log[a]) \in Nat
  BY DEF Inv, TypeInv
<1>2. m \in Messages /\ m.from = a /\ m.line_number = printed[a] + 1
  BY <1>1 DEF Message, Messages
<1>3. /\ log' = log /\ printed'[a] = printed[a] + 1 /\ Publish(m)
      /\ \A b \in Attempts : printed[b] <= printed'[b]
  BY <1>1 DEF LogLine, Publish, fileVars
<1> HIDE DEF m
<1>4. \A i \in DOMAIN queue' :
         \/ i \in DOMAIN queue /\ queue'[i] = queue[i]
         \/ i = Len(queue) + 1 /\ queue'[i] = m
  BY <1>2, <1>3, Published
<1>5. \A i \in DOMAIN queue : queue[i].from \in Attempts /\ queue[i].line_number \in Nat
  <2>1. \A i \in DOMAIN queue : queue[i] \in Messages
    BY <1>1
  <2> QED
    BY <2>1 DEF Messages
<1>6. ASSUME NEW i \in DOMAIN queue', queue'[i].type = "Msg"
      PROVE  /\ Len(log'[queue'[i].from]) < queue'[i].line_number
             /\ queue'[i].line_number <= printed'[queue'[i].from]
  <2>1. CASE i \in DOMAIN queue /\ queue'[i] = queue[i]
    <3>1. /\ Len(log[queue[i].from]) < queue[i].line_number
          /\ queue[i].line_number <= printed[queue[i].from]
      BY <1>6, <2>1 DEF Inv, LinesMoveForward
    <3>2. queue[i].from \in Attempts /\ queue[i].line_number \in Nat
      BY <1>5, <2>1
    <3>3. printed[queue[i].from] \in Nat /\ printed'[queue[i].from] \in Nat
          /\ printed[queue[i].from] <= printed'[queue[i].from]
      BY <1>1, <1>3, <3>2 DEF LogLine
    <3> QED
      BY <1>3, <2>1, <3>1, <3>2, <3>3
  <2>2. CASE queue'[i] = m
    BY <1>1, <1>2, <1>3, <2>2 DEF Inv
  <2> QED
    BY <1>4, <2>1, <2>2
<1>7. ASSUME NEW i \in DOMAIN queue', NEW j \in DOMAIN queue',
             i < j /\ queue'[i].from = queue'[j].from,
             queue'[i].type = "Msg" /\ queue'[j].type = "Msg"
      PROVE  queue'[i].line_number < queue'[j].line_number
  <2>0. i \in Nat /\ j \in Nat /\ DOMAIN queue = 1..Len(queue) /\ Len(queue) \in Nat
    BY <1>1, <1>4
  <2>1. i \in DOMAIN queue /\ queue'[i] = queue[i]
    BY <1>4, <1>7, <2>0
  <2>2. CASE j \in DOMAIN queue /\ queue'[j] = queue[j]
    BY <1>7, <2>1, <2>2 DEF Inv, LinesMoveForward
  <2>3. CASE queue'[j] = m
    <3>1. queue[i].from = a /\ queue[i].line_number \in Nat
      BY <1>2, <1>5, <1>7, <2>1, <2>3
    <3>2. queue[i].line_number <= printed[a]
      BY <1>7, <2>1, <3>1 DEF Inv, LinesMoveForward
    <3> QED
      BY <1>1, <1>2, <2>1, <2>3, <3>1, <3>2
  <2> QED
    BY <1>4, <2>2, <2>3
<1> QED
  BY <1>6, <1>7 DEF LinesMoveForward
-----------------------------------------------------------------------------
(* The cache of handles.                                                     *)

\* Using a handle keeps the ages within the capacity and apart.
LEMMA TouchedAges ==
  ASSUME age \in [Attempts -> 0..MaxOpen], NEW a \in Attempts,
         \A b, c \in Attempts : Cached(b) /\ age[b] = age[c] => b = c
  PROVE  /\ Touched(a) \in [Attempts -> 0..MaxOpen]
         /\ Touched(a)[a] = 0
         /\ \A b \in Attempts : b # a => Touched(a)[b] >= age[b]
         /\ \A b, c \in Attempts :
                Touched(a)[b] < MaxOpen /\ Touched(a)[b] = Touched(a)[c] => b = c
<1>1. \A b \in Attempts : age[b] \in Nat /\ age[b] <= MaxOpen
  BY MaxOpenAssumption
<1>2. \A b \in Attempts :
         Touched(a)[b] = IF b = a THEN 0 ELSE IF age[b] < age[a] THEN age[b] + 1 ELSE age[b]
  BY DEF Touched
<1>3. /\ Touched(a)[a] = 0
      /\ \A b \in Attempts : b # a => Touched(a)[b] >= age[b]
  BY <1>1, <1>2
<1>4. Touched(a) \in [Attempts -> 0..MaxOpen]
  <2>1. \A b \in Attempts :
          (IF b = a THEN 0 ELSE IF age[b] < age[a] THEN age[b] + 1 ELSE age[b]) \in 0..MaxOpen
    BY <1>1, MaxOpenAssumption
  <2> QED
    BY <2>1 DEF Touched
<1>5. ASSUME NEW b \in Attempts, NEW c \in Attempts,
             Touched(a)[b] < MaxOpen, Touched(a)[b] = Touched(a)[c]
      PROVE  b = c
  BY <1>1, <1>2, <1>5, MaxOpenAssumption DEF Cached
<1> QED
  BY <1>3, <1>4, <1>5

\* A written line leaves every open handle in agreement with its file.
LEMMA LineKeepsHandles ==
  ASSUME Inv, WriteLine
  PROVE  /\ age' \in [Attempts -> 0..MaxOpen]
         /\ writers' \in [Attempts -> [buffer : Seq(Text), last_line : Nat]]
         /\ log' \in [Attempts -> Seq(Text)]
         /\ HandlesMatchFiles'
<1>1. PICK a \in Attempts, n \in 1..MaxLines, R \in Seq(Text) :
         /\ Len(R) = n
         /\ log' = [log EXCEPT ![a] = R]
         /\ writers' = Handles(a, [buffer |-> R, last_line |-> n - 1])
         /\ age' = Touched(a)
  BY LineWritten
<1>2. /\ age \in [Attempts -> 0..MaxOpen]
      /\ writers \in [Attempts -> [buffer : Seq(Text), last_line : Nat]]
      /\ log \in [Attempts -> Seq(Text)]
      /\ MaxOpen \in Nat /\ n \in Nat /\ n - 1 \in Nat
  BY MaxLinesAssumption, MaxOpenAssumption DEF Inv, TypeInv
<1>3. /\ Touched(a) \in [Attempts -> 0..MaxOpen]
      /\ Touched(a)[a] = 0
      /\ \A b \in Attempts : b # a => Touched(a)[b] >= age[b]
      /\ \A b, c \in Attempts :
             Touched(a)[b] < MaxOpen /\ Touched(a)[b] = Touched(a)[c] => b = c
  BY <1>2, TouchedAges DEF Inv, HandlesMatchFiles
<1> DEFINE w == [buffer |-> R, last_line |-> n - 1]
<1>4. w \in [buffer : Seq(Text), last_line : Nat]
  BY <1>2
<1>5. Closed \in [buffer : Seq(Text), last_line : Nat]
  BY DEF Closed, NewWriter
<1>6. writers' \in [Attempts -> [buffer : Seq(Text), last_line : Nat]]
  <2> HIDE DEF w
  <2> QED
    BY <1>1, <1>2, <1>4, <1>5 DEF Handles, w
<1>7. log' \in [Attempts -> Seq(Text)]
  BY <1>1, <1>2
<1>8. ASSUME NEW b \in Attempts, age'[b] < MaxOpen
      PROVE  writers'[b].buffer = log'[b] /\ Len(log'[b]) <= writers'[b].last_line + 1
  <2>1. CASE b = a
    <3>1. writers'[b] = w /\ log'[b] = R
      BY <1>1, <1>2, <2>1 DEF Handles
    <3> QED
      BY <1>1, <1>2, <3>1
  <2>2. CASE b # a
    <3>1. writers'[b] = writers[b] /\ log'[b] = log[b]
      BY <1>1, <1>2, <1>8, <2>2 DEF Handles
    <3>2. age[b] < MaxOpen
      BY <1>1, <1>2, <1>3, <1>8, <2>2
    <3> QED
      BY <3>1, <3>2 DEF Inv, HandlesMatchFiles, Cached
  <2> QED
    BY <2>1, <2>2
<1>9. \A b, c \in Attempts : age'[b] < MaxOpen /\ age'[b] = age'[c] => b = c
  BY <1>1, <1>3
<1> QED
  BY <1>1, <1>3, <1>6, <1>7, <1>8, <1>9 DEF HandlesMatchFiles, Cached
-----------------------------------------------------------------------------
(* Every step keeps the invariant.                                           *)

LEMMA LogStartedInv ==
  ASSUME Inv, NEW a \in Attempts, LogStarted(a)
  PROVE  Inv'
<1>1. Message(a, "Start", 0) \in Messages
  BY DEF Message, Messages
<1>2. Publish(Message(a, "Start", 0)) /\ UNCHANGED printed
  BY DEF LogStarted
<1>3. LinesMoveForward'
  BY <1>2, OtherMessage
<1>4. queue' \in Seq(Messages) /\ interrupted' \in [Attempts -> BOOLEAN] /\ (up' \/ queue' = <<>>)
  BY <1>1, <1>2, Published
<1>5. UNCHANGED <<printed, up, age, writers, log, metadata, result>>
  BY <1>2 DEF Publish, handleVars, fileVars
<1>6. phase' \in [Attempts -> {"new", "running", "finished"}]
  BY DEF LogStarted, Inv, TypeInv
<1> QED
  BY <1>3, <1>4, <1>5, <1>6 DEF Inv, TypeInv, HandlesMatchFiles, Cached

LEMMA BuildFinishedInv ==
  ASSUME Inv, NEW a \in Attempts, BuildFinished(a)
  PROVE  Inv'
<1>1. Message(a, "Finish", 0) \in Messages
  BY DEF Message, Messages
<1>2. Publish(Message(a, "Finish", 0)) /\ UNCHANGED printed
  BY DEF BuildFinished
<1>3. LinesMoveForward'
  BY <1>2, OtherMessage
<1>4. queue' \in Seq(Messages) /\ interrupted' \in [Attempts -> BOOLEAN] /\ (up' \/ queue' = <<>>)
  BY <1>1, <1>2, Published
<1>5. UNCHANGED <<printed, up, age, writers, log, metadata, result>>
  BY <1>2 DEF Publish, handleVars, fileVars
<1>6. phase' \in [Attempts -> {"new", "running", "finished"}]
  BY DEF BuildFinished, Inv, TypeInv
<1> QED
  BY <1>3, <1>4, <1>5, <1>6 DEF Inv, TypeInv, HandlesMatchFiles, Cached

LEMMA LogLineInv ==
  ASSUME Inv, NEW a \in Attempts, LogLine(a)
  PROVE  Inv'
<1> DEFINE m == Message(a, "Msg", printed[a] + 1)
<1>1. m \in Messages
  <2>1. printed[a] + 1 \in Nat
    BY DEF Inv, TypeInv
  <2> QED
    BY <2>1 DEF Message, Messages
<1>2. Publish(m)
  BY DEF LogLine
<1>3. LinesMoveForward'
  BY NextLine
<1>4. queue' \in Seq(Messages) /\ interrupted' \in [Attempts -> BOOLEAN] /\ (up' \/ queue' = <<>>)
  BY <1>1, <1>2, Published
<1>5. UNCHANGED <<phase, up, age, writers, log, metadata, result>>
  BY <1>2 DEF LogLine, Publish, handleVars, fileVars
<1>6. printed' \in [Attempts -> Nat]
  BY DEF LogLine, Inv, TypeInv
<1>7. \A b \in Attempts : printed'[b] <= MaxLines /\ Len(log'[b]) <= printed'[b]
  <2>1. /\ printed \in [Attempts -> Nat] /\ log \in [Attempts -> Seq(Text)]
        /\ printed' = [printed EXCEPT ![a] = printed[a] + 1] /\ printed[a] < MaxLines
        /\ \A b \in Attempts : printed[b] <= MaxLines /\ Len(log[b]) <= printed[b]
    BY DEF LogLine, Inv, TypeInv
  <2> QED
    BY <1>5, <2>1, MaxLinesAssumption
<1> QED
  BY <1>3, <1>4, <1>5, <1>6, <1>7 DEF Inv, TypeInv, HandlesMatchFiles, Cached

LEMMA WriteMetadataInv ==
  ASSUME Inv, WriteMetadata
  PROVE  Inv'
<1>1. queue # <<>> /\ queue' = Tail(queue)
      /\ UNCHANGED <<phase, printed, up, age, writers, log, result, interrupted>>
  BY DEF WriteMetadata, Received, builderVars, handleVars
<1>2. LinesMoveForward'
  BY <1>1, TailForward
<1>3. queue' \in Seq(Messages) /\ up
  BY <1>1, TailQueue DEF WriteMetadata, Received
<1>4. metadata' \in [Attempts -> Nat]
  <2>1. /\ metadata' = [metadata EXCEPT ![Head(queue).from] = metadata[Head(queue).from] + 1]
        /\ metadata \in [Attempts -> Nat] /\ Head(queue).from \in Attempts
    BY <1>1, TailQueue DEF WriteMetadata, Inv, TypeInv
  <2> QED
    BY <2>1
<1> QED
  BY <1>1, <1>2, <1>3, <1>4 DEF Inv, TypeInv, HandlesMatchFiles, Cached

LEMMA WriteResultInv ==
  ASSUME Inv, WriteResult
  PROVE  Inv'
<1>1. queue # <<>> /\ queue' = Tail(queue)
      /\ UNCHANGED <<phase, printed, up, age, writers, log, metadata, interrupted>>
  BY DEF WriteResult, Received, builderVars, handleVars
<1>2. LinesMoveForward'
  BY <1>1, TailForward
<1>3. queue' \in Seq(Messages) /\ up
  BY <1>1, TailQueue DEF WriteResult, Received
<1>4. result' \in [Attempts -> Nat]
  <2>1. /\ result' = [result EXCEPT ![Head(queue).from] = result[Head(queue).from] + 1]
        /\ result \in [Attempts -> Nat] /\ Head(queue).from \in Attempts
    BY <1>1, TailQueue DEF WriteResult, Inv, TypeInv
  <2> QED
    BY <2>1
<1> QED
  BY <1>1, <1>2, <1>3, <1>4 DEF Inv, TypeInv, HandlesMatchFiles, Cached

LEMMA WriteLineInv ==
  ASSUME Inv, WriteLine
  PROVE  Inv'
<1>1. PICK a \in Attempts, n \in 1..MaxLines, R \in Seq(Text) :
         /\ queue # <<>> /\ Head(queue) = Message(a, "Msg", n)
         /\ Len(R) = n
         /\ log' = [log EXCEPT ![a] = R]
         /\ queue' = Tail(queue)
         /\ UNCHANGED <<builderVars, up, metadata, result, interrupted>>
  BY LineWritten
<1>2. UNCHANGED <<phase, printed, up, metadata, result, interrupted>> /\ up
  BY <1>1 DEF builderVars, WriteLine, Received
<1>3. /\ age' \in [Attempts -> 0..MaxOpen]
      /\ writers' \in [Attempts -> [buffer : Seq(Text), last_line : Nat]]
      /\ log' \in [Attempts -> Seq(Text)]
      /\ HandlesMatchFiles'
  BY LineKeepsHandles
<1>4. /\ 1 \in DOMAIN queue /\ queue[1].from = a /\ queue[1].type = "Msg"
      /\ queue[1].line_number = n /\ n \in Nat
      /\ log \in [Attempts -> Seq(Text)] /\ queue \in Seq(Messages)
      /\ log'[a] = R /\ \A b \in Attempts : b # a => log'[b] = log[b]
  <2>1. 1 \in DOMAIN queue /\ queue[1] = Message(a, "Msg", n)
    BY <1>1, TailQueue
  <2>2. log \in [Attempts -> Seq(Text)] /\ queue \in Seq(Messages) /\ n \in Nat
    BY MaxLinesAssumption DEF Inv, TypeInv
  <2>3. log'[a] = R /\ \A b \in Attempts : b # a => log'[b] = log[b]
    BY <1>1, <2>2
  <2> QED
    BY <2>1, <2>2, <2>3 DEF Message
<1>5. \A b \in Attempts : printed'[b] <= MaxLines /\ Len(log'[b]) <= printed'[b]
  <2>1. n <= printed[a]
    BY <1>4 DEF Inv, LinesMoveForward
  <2> QED
    BY <1>1, <1>2, <1>4, <2>1 DEF Inv
<1>6. queue' \in Seq(Messages)
      /\ \A i \in DOMAIN queue' :
            queue'[i] = queue[i + 1] /\ i + 1 \in DOMAIN queue /\ 1 < i + 1
  BY <1>1, TailQueue
<1>7. ASSUME NEW i \in DOMAIN queue', queue'[i].type = "Msg"
      PROVE  /\ Len(log'[queue'[i].from]) < queue'[i].line_number
             /\ queue'[i].line_number <= printed'[queue'[i].from]
  <2> DEFINE j == i + 1
  <2>1. queue'[i] = queue[j] /\ j \in DOMAIN queue /\ 1 < j /\ queue[j].type = "Msg"
    BY <1>6, <1>7
  <2>2. queue[j].from \in Attempts
    <3>1. queue[j] \in Messages
      BY <1>4, <2>1
    <3> QED
      BY <3>1 DEF Messages
  <2> HIDE DEF j
  <2>3. queue[j].line_number <= printed[queue[j].from]
    BY <2>1 DEF Inv, LinesMoveForward
  <2>4. CASE queue[j].from = a
    <3>1. n < queue[j].line_number
      BY <1>4, <2>1, <2>4 DEF Inv, LinesMoveForward
    <3> QED
      BY <1>1, <1>2, <1>4, <2>1, <2>3, <2>4, <3>1
  <2>5. CASE queue[j].from # a
    <3>1. Len(log[queue[j].from]) < queue[j].line_number
      BY <2>1 DEF Inv, LinesMoveForward
    <3> QED
      BY <1>2, <1>4, <2>1, <2>2, <2>3, <2>5, <3>1
  <2> QED
    BY <2>4, <2>5
<1>8. ASSUME NEW i \in DOMAIN queue', NEW j \in DOMAIN queue',
             i < j /\ queue'[i].from = queue'[j].from,
             queue'[i].type = "Msg" /\ queue'[j].type = "Msg"
      PROVE  queue'[i].line_number < queue'[j].line_number
  <2>1. i \in Int /\ j \in Int
    BY <1>6
  <2>2. i + 1 < j + 1
    BY <1>8, <2>1
  <2> QED
    BY <1>6, <1>8, <2>2 DEF Inv, LinesMoveForward
<1>9. LinesMoveForward'
  BY <1>7, <1>8 DEF LinesMoveForward
<1> QED
  BY <1>2, <1>3, <1>5, <1>6, <1>9 DEF Inv, TypeInv

LEMMA CrashInv ==
  ASSUME Inv, Crash
  PROVE  Inv'
<1>1. queue' = <<>> /\ up' = FALSE /\ UNCHANGED <<phase, printed, log, metadata, result>>
  BY DEF Crash, builderVars, fileVars
<1>2. LinesMoveForward'
  BY <1>1 DEF LinesMoveForward
<1>3. \A a \in Attempts : age'[a] = MaxOpen
  BY DEF Crash
<1>4. HandlesMatchFiles'
  BY <1>3, MaxOpenAssumption DEF HandlesMatchFiles, Cached
<1>5. /\ age' \in [Attempts -> 0..MaxOpen]
      /\ writers' \in [Attempts -> [buffer : Seq(Text), last_line : Nat]]
  BY MaxOpenAssumption DEF Crash, Closed, NewWriter
<1>6. interrupted' \in [Attempts -> BOOLEAN]
  <2>1. interrupted' = [a \in Attempts |->
            interrupted[a] \/ phase[a] = "running" \/ \E i \in DOMAIN queue : queue[i].from = a]
    BY DEF Crash
  <2> QED
    BY <2>1
<1>7. TypeInv'
  <2>1. queue' \in Seq(Messages)
    BY <1>1
  <2>2. up' \in BOOLEAN
    BY <1>1
  <2>3. /\ phase' \in [Attempts -> {"new", "running", "finished"}]
        /\ printed' \in [Attempts -> Nat]
        /\ log' \in [Attempts -> Seq(Text)]
        /\ metadata' \in [Attempts -> Nat]
        /\ result' \in [Attempts -> Nat]
    BY <1>1 DEF Inv, TypeInv
  <2> QED
    BY <1>5, <1>6, <2>1, <2>2, <2>3 DEF TypeInv
<1>8. \A a \in Attempts : printed'[a] <= MaxLines /\ Len(log'[a]) <= printed'[a]
  BY <1>1 DEF Inv
<1> QED
  BY <1>1, <1>2, <1>4, <1>7, <1>8 DEF Inv

LEMMA StepInv == Inv /\ [Next]_vars => Inv'
<1> SUFFICES ASSUME Inv, [Next]_vars PROVE Inv'
  OBVIOUS
<1>1. CASE UNCHANGED vars
  BY <1>1 DEF Inv, TypeInv, HandlesMatchFiles, Cached, LinesMoveForward,
              vars, builderVars, handleVars, fileVars
<1>2. ASSUME NEW a \in Attempts, LogStarted(a) PROVE Inv'
  BY <1>2, LogStartedInv
<1>3. ASSUME NEW a \in Attempts, LogLine(a) PROVE Inv'
  BY <1>3, LogLineInv
<1>4. ASSUME NEW a \in Attempts, BuildFinished(a) PROVE Inv'
  BY <1>4, BuildFinishedInv
<1>5. CASE WriteMetadata
  BY <1>5, WriteMetadataInv
<1>6. CASE WriteLine
  BY <1>6, WriteLineInv
<1>7. CASE WriteResult
  BY <1>7, WriteResultInv
<1>8. CASE Crash
  BY <1>8, CrashInv
<1>9. CASE Restart
  BY <1>9 DEF Restart, Inv, TypeInv, HandlesMatchFiles, Cached, LinesMoveForward,
              builderVars, handleVars, fileVars
<1> QED
  BY <1>1, <1>2, <1>3, <1>4, <1>5, <1>6, <1>7, <1>8, <1>9 DEF Next

-----------------------------------------------------------------------------

\* The inductive invariant holds in every state.
THEOREM Invariance == Spec => []Inv
<1> QED
  BY InitInv, StepInv, PTL DEF Spec

\* The state keeps its types; at most the capacity's handles are open.
THEOREM TypeCorrect == Spec => []TypeInv
<1>1. Inv => TypeInv
  BY DEF Inv
<1> QED
  BY <1>1, Invariance, PTL

\* An open handle agrees with its file, whatever was evicted, reopened or
\* written in between.
THEOREM HandlesAgree == Spec => []HandlesMatchFiles
<1>1. Inv => HandlesMatchFiles
  BY DEF Inv
<1> QED
  BY <1>1, Invariance, PTL

\* The collector is never asked to write in front of the end of a file.
THEOREM NeverBackwards == Spec => []LinesMoveForward
<1>1. Inv => LinesMoveForward
  BY DEF Inv
<1> QED
  BY <1>1, Invariance, PTL

LEMMA StepGrows ==
  Inv /\ [Next]_vars =>
    [\A a \in Attempts :
        /\ Len(log[a]) <= Len(log'[a])
        /\ \A i \in DOMAIN log[a] : log'[a][i] = log[a][i]]_log
<1> SUFFICES ASSUME Inv, [Next]_vars, log' # log
             PROVE  \A b \in Attempts :
                      /\ Len(log[b]) <= Len(log'[b])
                      /\ \A i \in DOMAIN log[b] : log'[b][i] = log[b][i]
  OBVIOUS
<1>1. WriteLine
  BY DEF Next, LogStarted, LogLine, BuildFinished, Publish, WriteMetadata, WriteResult,
         Crash, Restart, vars, fileVars
<1>2. PICK a \in Attempts, n \in 1..MaxLines, R \in Seq(Text) :
         /\ Len(log[a]) < n /\ Len(R) = n
         /\ \A i \in 1..Len(log[a]) : R[i] = log[a][i]
         /\ log' = [log EXCEPT ![a] = R]
  BY <1>1, LineWritten
<1>3. log \in [Attempts -> Seq(Text)] /\ n \in Nat
  BY MaxLinesAssumption DEF Inv, TypeInv
<1> TAKE b \in Attempts
<1>4. CASE b = a
  BY <1>2, <1>3, <1>4
<1>5. CASE b # a
  BY <1>2, <1>3, <1>5
<1> QED
  BY <1>4, <1>5

\* No step changes or removes a row of a log file.
THEOREM RowsAreFinal == Spec => LogsOnlyGrow
<1> QED
  BY Invariance, StepGrows, PTL DEF Spec, LogsOnlyGrow

LEMMA StepRefines == Inv /\ [Next]_vars => [Promise!Next]_log
<1> SUFFICES ASSUME Inv, [Next]_vars, log' # log PROVE Promise!Next
  OBVIOUS
<1>1. WriteLine
  BY DEF Next, LogStarted, LogLine, BuildFinished, Publish, WriteMetadata, WriteResult,
         Crash, Restart, vars, fileVars
<1>2. PICK a \in Attempts, n \in 1..MaxLines, R \in Seq(Text) :
         R = Replaced(log[a], n - 1, n) /\ log' = [log EXCEPT ![a] = R]
  BY <1>1, LineWritten
<1>3. n \in Nat /\ n - 1 + 1 = n
  BY MaxLinesAssumption
<1>4. R = Promise!Put(log[a], n, n)
  BY <1>2, <1>3 DEF Replaced, Promise!Put
<1>5. Promise!Write(a, n, n)
  BY <1>2, <1>4 DEF Promise!Write
<1>6. Promise!Write(a, <<n, n>>[1], <<n, n>>[2]) /\ <<n, n>> \in {<<i, i>> : i \in 1..MaxLines}
  BY <1>5
<1> QED
  BY <1>6 DEF Promise!Next

\* The collector implements the plain log file of LogFile.
THEOREM Refinement == Spec => RefinesLogFile
<1>1. Init => Promise!Init
  BY DEF Init, Promise!Init
<1> QED
  BY <1>1, Invariance, StepRefines, PTL DEF Spec, RefinesLogFile, Promise!Spec
-----------------------------------------------------------------------------
(* An attempt that the collector saw from its start to its end.  Its         *)
(* messages are in the queue in their order or in the files, each once.      *)

OnItsWay(a) == {i \in DOMAIN queue : queue[i].from = a}

\* Every line that was printed is in its row or in the queue.
LinesKept(a) ==
    /\ \A i \in DOMAIN log[a] : log[a][i] = i
    /\ \A n \in 1..printed[a] :
         n <= Len(log[a]) \/ \E i \in DOMAIN queue : queue[i] = Message(a, "Msg", n)

\* The start is in the queue, in front of the rest, or in the file.
StartFirst(a) ==
    /\ phase[a] = "new" => OnItsWay(a) = {} /\ metadata[a] = 0
    /\ phase[a] # "new" =>
         \/ metadata[a] = 1
         \/ metadata[a] = 0 /\ \E i \in OnItsWay(a) : queue[i].type = "Start"
    /\ \A i, j \in OnItsWay(a) : queue[i].type = "Start" => metadata[a] = 0 /\ i <= j

\* The result is not there yet, in the queue, behind the rest, or in the file,
\* and then nothing more comes.
FinishLast(a) ==
    /\ \/ result[a] = 0
       \/ result[a] = 1 /\ phase[a] = "finished" /\ OnItsWay(a) = {}
    /\ \A i, j \in OnItsWay(a) : queue[i].type = "Finish" =>
         phase[a] = "finished" /\ result[a] = 0 /\ j <= i

Whole(a) == ~interrupted[a] => LinesKept(a) /\ StartFirst(a) /\ FinishLast(a)

\* What the state's type says of the queue.
LEMMA QueueType ==
  ASSUME Inv
  PROVE  /\ queue \in Seq(Messages) /\ Len(queue) \in Nat /\ DOMAIN queue = 1..Len(queue)
         /\ \A i \in DOMAIN queue : i \in Nat /\ queue[i].from \in Attempts /\ queue[i].line_number \in Nat
<1>1. queue \in Seq(Messages)
  BY DEF Inv, TypeInv
<1>2. Len(queue) \in Nat /\ DOMAIN queue = 1..Len(queue)
  BY <1>1
<1>3. ASSUME NEW i \in DOMAIN queue
      PROVE  i \in Nat /\ queue[i].from \in Attempts /\ queue[i].line_number \in Nat
  <2>1. queue[i] \in Messages
    BY <1>1
  <2>2. i \in Nat
    BY <1>2
  <2> QED
    BY <2>1, <2>2 DEF Messages
<1> QED
  BY <1>1, <1>2, <1>3

\* An attempt whose files stay and whose messages keep their order, k places
\* nearer to the collector, stays whole.
LEMMA Others ==
  ASSUME NEW k \in {0, 1}, NEW a \in Attempts, Inv, Whole(a),
         phase'[a] = phase[a], printed'[a] = printed[a], log'[a] = log[a],
         metadata'[a] = metadata[a], result'[a] = result[a],
         interrupted[a] => interrupted'[a],
         \A i \in DOMAIN queue' : queue'[i].from = a =>
             i \in Nat /\ i + k \in DOMAIN queue /\ queue'[i] = queue[i + k],
         ~interrupted'[a] => \A i \in DOMAIN queue : queue[i].from = a =>
             i - k \in DOMAIN queue' /\ queue'[i - k] = queue[i]
  PROVE  Whole(a)'
<1> SUFFICES ASSUME ~interrupted'[a] PROVE LinesKept(a)' /\ StartFirst(a)' /\ FinishLast(a)'
  BY DEF Whole
<1>1. LinesKept(a) /\ StartFirst(a) /\ FinishLast(a)
  BY DEF Whole
<1>2. \A i \in OnItsWay(a)' : i \in Nat /\ i + k \in OnItsWay(a) /\ queue'[i] = queue[i + k]
  BY DEF OnItsWay
<1>3. \A i \in OnItsWay(a) : i \in Nat /\ i - k \in OnItsWay(a)' /\ queue'[i - k] = queue[i]
  BY QueueType DEF OnItsWay
<1>4. LinesKept(a)'
  <2>1. ASSUME NEW n \in 1..printed[a], ~(n <= Len(log[a]))
        PROVE  \E i \in DOMAIN queue' : queue'[i] = Message(a, "Msg", n)
    <3>1. PICK i \in DOMAIN queue : queue[i] = Message(a, "Msg", n)
      BY <1>1, <2>1 DEF LinesKept
    <3>2. queue[i].from = a
      BY <3>1 DEF Message
    <3> QED
      BY <3>1, <3>2
  <2> QED
    BY <1>1, <2>1 DEF LinesKept
<1>5. StartFirst(a)'
  <2>1. phase'[a] = "new" => OnItsWay(a)' = {} /\ metadata'[a] = 0
    BY <1>1, <1>2 DEF StartFirst
  <2>2. ASSUME phase'[a] # "new"
        PROVE  \/ metadata'[a] = 1
               \/ metadata'[a] = 0 /\ \E i \in OnItsWay(a)' : queue'[i].type = "Start"
    BY <1>1, <1>3, <2>2 DEF StartFirst
  <2>3. ASSUME NEW i \in OnItsWay(a)', NEW j \in OnItsWay(a)', queue'[i].type = "Start"
        PROVE  metadata'[a] = 0 /\ i <= j
    <3>1. metadata[a] = 0 /\ i + k <= j + k
      BY <1>1, <1>2, <2>3 DEF StartFirst
    <3>2. i \in Nat /\ j \in Nat
      BY <1>2
    <3> QED
      BY <3>1, <3>2
  <2> QED
    BY <2>1, <2>2, <2>3 DEF StartFirst
<1>6. FinishLast(a)'
  <2>1. \/ result'[a] = 0
        \/ result'[a] = 1 /\ phase'[a] = "finished" /\ OnItsWay(a)' = {}
    <3>1. CASE result[a] = 0
      BY <3>1
    <3>2. CASE result[a] = 1 /\ phase[a] = "finished" /\ OnItsWay(a) = {}
      BY <1>2, <3>2
    <3> QED
      BY <1>1, <3>1, <3>2 DEF FinishLast
  <2>2. ASSUME NEW i \in OnItsWay(a)', NEW j \in OnItsWay(a)', queue'[i].type = "Finish"
        PROVE  phase'[a] = "finished" /\ result'[a] = 0 /\ j <= i
    <3>1. phase[a] = "finished" /\ result[a] = 0 /\ j + k <= i + k
      BY <1>1, <1>2, <2>2 DEF FinishLast
    <3>2. i \in Nat /\ j \in Nat
      BY <1>2
    <3> QED
      BY <3>1, <3>2
  <2> QED
    BY <2>1, <2>2 DEF FinishLast
<1> QED
  BY <1>4, <1>5, <1>6

\* What was published of an attempt that stays uninterrupted is the last
\* message of the queue; the others do not notice.
LEMMA Arrives ==
  ASSUME Inv, NEW a \in Attempts, NEW m \in Messages, m.from = a, Publish(m), ~interrupted'[a]
  PROVE  /\ ~interrupted[a]
         /\ DOMAIN queue' = DOMAIN queue \cup {Len(queue) + 1}
         /\ \A i \in DOMAIN queue : queue'[i] = queue[i] /\ i < Len(queue) + 1
         /\ queue'[Len(queue) + 1] = m
         /\ OnItsWay(a)' = OnItsWay(a) \cup {Len(queue) + 1}
<1>1. interrupted \in [Attempts -> BOOLEAN] /\ interrupted' = [interrupted EXCEPT ![a] = @ \/ ~up]
  BY DEF Inv, TypeInv, Publish
<1>2. ~interrupted[a] /\ up
  BY <1>1
<1>3. queue' = Append(queue, m) /\ queue \in Seq(Messages)
  BY <1>2, QueueType DEF Publish
<1>4. /\ DOMAIN queue' = DOMAIN queue \cup {Len(queue) + 1}
      /\ \A i \in DOMAIN queue : queue'[i] = queue[i] /\ i < Len(queue) + 1
      /\ queue'[Len(queue) + 1] = m
  BY <1>3
<1>5. OnItsWay(a)' = OnItsWay(a) \cup {Len(queue) + 1}
  BY <1>4 DEF OnItsWay
<1> QED
  BY <1>2, <1>4, <1>5

LEMMA PublishOthers ==
  ASSUME Inv, NEW a \in Attempts, NEW m \in Messages, m.from = a, Publish(m),
         NEW b \in Attempts, b # a, Whole(b),
         phase'[b] = phase[b], printed'[b] = printed[b]
  PROVE  Whole(b)'
<1>1. \A i \in DOMAIN queue' :
         \/ i \in DOMAIN queue /\ queue'[i] = queue[i]
         \/ i = Len(queue) + 1 /\ queue'[i] = m
  BY Published
<1>2. \A i \in DOMAIN queue : i \in DOMAIN queue' /\ queue'[i] = queue[i] /\ i \in Nat
  BY QueueType DEF Publish
<1>3. UNCHANGED <<log, metadata, result>>
  BY DEF Publish, fileVars
<1>4. interrupted[b] => interrupted'[b]
  BY DEF Publish, Inv, TypeInv
<1>5. \A i \in DOMAIN queue' : queue'[i].from = b =>
         i \in Nat /\ i + 0 \in DOMAIN queue /\ queue'[i] = queue[i + 0]
  BY <1>1, <1>2
<1>6. \A i \in DOMAIN queue : queue[i].from = b => i - 0 \in DOMAIN queue' /\ queue'[i - 0] = queue[i]
  BY <1>2
<1>7. 0 \in {0, 1}
  OBVIOUS
<1> QED
  BY <1>3, <1>4, <1>5, <1>6, <1>7, Others

LEMMA LogStartedWhole ==
  ASSUME Inv, NEW a \in Attempts, LogStarted(a), Whole(a)
  PROVE  Whole(a)'
<1> SUFFICES ASSUME ~interrupted'[a] PROVE LinesKept(a)' /\ StartFirst(a)' /\ FinishLast(a)'
  BY DEF Whole
<1> DEFINE m == Message(a, "Start", 0)
<1>1. m \in Messages /\ m.from = a /\ m.type = "Start"
  BY DEF Message, Messages
<1>2. Publish(m) /\ printed' = printed /\ phase[a] = "new" /\ phase'[a] = "running"
  BY DEF LogStarted, Inv, TypeInv
<1> HIDE DEF m
<1> DEFINE e == Len(queue) + 1
<1>3. /\ ~interrupted[a] /\ DOMAIN queue' = DOMAIN queue \cup {e}
      /\ \A i \in DOMAIN queue : queue'[i] = queue[i] /\ i < e
      /\ queue'[e] = m /\ OnItsWay(a)' = OnItsWay(a) \cup {e}
  BY <1>1, <1>2, Arrives
<1>4. UNCHANGED <<log, metadata, result>>
  BY <1>2 DEF Publish, fileVars
<1>5. LinesKept(a) /\ StartFirst(a) /\ FinishLast(a)
  BY <1>3 DEF Whole
<1>6. OnItsWay(a)' = {e} /\ e \in Nat /\ metadata[a] = 0 /\ result[a] = 0
  BY <1>2, <1>3, <1>5, QueueType DEF StartFirst, FinishLast
<1> HIDE DEF e
<1>7. LinesKept(a)'
  BY <1>2, <1>3, <1>4, <1>5 DEF LinesKept
<1>8. StartFirst(a)'
  BY <1>1, <1>2, <1>3, <1>4, <1>6 DEF StartFirst
<1>9. FinishLast(a)'
  BY <1>1, <1>3, <1>4, <1>6 DEF FinishLast
<1> QED
  BY <1>7, <1>8, <1>9

LEMMA LogLineWhole ==
  ASSUME Inv, NEW a \in Attempts, LogLine(a), Whole(a)
  PROVE  Whole(a)'
<1> SUFFICES ASSUME ~interrupted'[a] PROVE LinesKept(a)' /\ StartFirst(a)' /\ FinishLast(a)'
  BY DEF Whole
<1> DEFINE p == printed[a] + 1
           m == Message(a, "Msg", p)
           e == Len(queue) + 1
<1>1. printed[a] \in Nat /\ p \in Nat
  BY DEF Inv, TypeInv
<1>2. m \in Messages /\ m.from = a /\ m.type = "Msg"
  BY <1>1 DEF Message, Messages
<1>3. Publish(m) /\ phase' = phase /\ phase[a] = "running" /\ printed'[a] = p
  BY DEF LogLine, Inv, TypeInv
<1> HIDE DEF m
<1>4. /\ ~interrupted[a] /\ DOMAIN queue' = DOMAIN queue \cup {e}
      /\ \A i \in DOMAIN queue : queue'[i] = queue[i] /\ i < e
      /\ queue'[e] = m /\ OnItsWay(a)' = OnItsWay(a) \cup {e}
  BY <1>2, <1>3, Arrives
<1>5. UNCHANGED <<log, metadata, result>>
  BY <1>3 DEF Publish, fileVars
<1>6. LinesKept(a) /\ StartFirst(a) /\ FinishLast(a)
  BY <1>4 DEF Whole
<1>7. \A i \in OnItsWay(a) : i \in DOMAIN queue /\ queue'[i] = queue[i] /\ i < e /\ i <= e
  BY <1>4, QueueType DEF OnItsWay
<1> HIDE DEF e
<1>8. LinesKept(a)'
  <2>1. ASSUME NEW n \in 1..p, ~(n <= Len(log[a]))
        PROVE  \E i \in DOMAIN queue' : queue'[i] = Message(a, "Msg", n)
    <3>1. CASE n = p
      BY <1>4, <3>1 DEF m
    <3>2. CASE n # p
      <4>1. n \in 1..printed[a]
        BY <1>1, <3>2
      <4>2. PICK i \in DOMAIN queue : queue[i] = Message(a, "Msg", n)
        BY <1>6, <2>1, <4>1 DEF LinesKept
      <4> QED
        BY <1>4, <4>2
    <3> QED
      BY <3>1, <3>2
  <2> HIDE DEF p
  <2>2. \A n \in 1..printed'[a] :
          n <= Len(log'[a]) \/ \E i \in DOMAIN queue' : queue'[i] = Message(a, "Msg", n)
    BY <1>3, <1>5, <2>1
  <2>3. \A i \in DOMAIN log'[a] : log'[a][i] = i
    BY <1>5, <1>6 DEF LinesKept
  <2> QED
    BY <2>2, <2>3 DEF LinesKept
<1>9. StartFirst(a)'
  <2>1. phase'[a] # "new" /\ phase[a] # "new"
    BY <1>3
  <2>2. \/ metadata'[a] = 1
        \/ metadata'[a] = 0 /\ \E i \in OnItsWay(a)' : queue'[i].type = "Start"
    BY <1>4, <1>5, <1>6, <1>7, <2>1 DEF StartFirst
  <2>3. ASSUME NEW i \in OnItsWay(a)', NEW j \in OnItsWay(a)', queue'[i].type = "Start"
        PROVE  metadata'[a] = 0 /\ i <= j
    <3>1. i \in OnItsWay(a) /\ queue[i].type = "Start"
      BY <1>2, <1>4, <1>7, <2>3
    <3>2. metadata[a] = 0 /\ \A l \in OnItsWay(a) : i <= l
      BY <1>6, <3>1 DEF StartFirst
    <3> QED
      BY <1>4, <1>5, <1>7, <3>1, <3>2
  <2> QED
    BY <2>1, <2>2, <2>3 DEF StartFirst
<1>10. FinishLast(a)'
  <2>1. result'[a] = 0
    BY <1>3, <1>5, <1>6 DEF FinishLast
  <2>2. \A i \in OnItsWay(a) : queue[i].type # "Finish"
    BY <1>3, <1>6 DEF FinishLast
  <2>3. \A i \in OnItsWay(a)' : queue'[i].type # "Finish"
    BY <1>2, <1>4, <1>7, <2>2
  <2> QED
    BY <2>1, <2>3 DEF FinishLast
<1> QED
  BY <1>8, <1>9, <1>10

LEMMA BuildFinishedWhole ==
  ASSUME Inv, NEW a \in Attempts, BuildFinished(a), Whole(a)
  PROVE  Whole(a)'
<1> SUFFICES ASSUME ~interrupted'[a] PROVE LinesKept(a)' /\ StartFirst(a)' /\ FinishLast(a)'
  BY DEF Whole
<1> DEFINE m == Message(a, "Finish", 0)
           e == Len(queue) + 1
<1>1. m \in Messages /\ m.from = a /\ m.type = "Finish"
  BY DEF Message, Messages
<1>2. Publish(m) /\ printed' = printed /\ phase[a] = "running" /\ phase'[a] = "finished"
  BY DEF BuildFinished, Inv, TypeInv
<1> HIDE DEF m
<1>3. /\ ~interrupted[a] /\ DOMAIN queue' = DOMAIN queue \cup {e}
      /\ \A i \in DOMAIN queue : queue'[i] = queue[i] /\ i < e
      /\ queue'[e] = m /\ OnItsWay(a)' = OnItsWay(a) \cup {e}
  BY <1>1, <1>2, Arrives
<1>4. UNCHANGED <<log, metadata, result>>
  BY <1>2 DEF Publish, fileVars
<1>5. LinesKept(a) /\ StartFirst(a) /\ FinishLast(a)
  BY <1>3 DEF Whole
<1>6. e \in Nat /\ \A i \in OnItsWay(a) : i \in DOMAIN queue /\ queue'[i] = queue[i] /\ i <= e
  BY <1>3, QueueType DEF OnItsWay
<1> HIDE DEF e
<1>7. LinesKept(a)'
  BY <1>2, <1>3, <1>4, <1>5 DEF LinesKept
<1>8. StartFirst(a)'
  <2>1. phase'[a] # "new" /\ phase[a] # "new"
    BY <1>2
  <2>2. \/ metadata'[a] = 1
        \/ metadata'[a] = 0 /\ \E i \in OnItsWay(a)' : queue'[i].type = "Start"
    BY <1>3, <1>4, <1>5, <1>6, <2>1 DEF StartFirst
  <2>3. ASSUME NEW i \in OnItsWay(a)', NEW j \in OnItsWay(a)', queue'[i].type = "Start"
        PROVE  metadata'[a] = 0 /\ i <= j
    <3>1. i \in OnItsWay(a) /\ queue[i].type = "Start"
      BY <1>1, <1>3, <1>6, <2>3
    <3>2. metadata[a] = 0 /\ \A l \in OnItsWay(a) : i <= l
      BY <1>5, <3>1 DEF StartFirst
    <3> QED
      BY <1>3, <1>4, <1>6, <3>1, <3>2
  <2> QED
    BY <2>1, <2>2, <2>3 DEF StartFirst
<1>9. FinishLast(a)'
  <2>1. result'[a] = 0
    BY <1>2, <1>4, <1>5 DEF FinishLast
  <2>2. \A i \in OnItsWay(a) : queue[i].type # "Finish"
    BY <1>2, <1>5 DEF FinishLast
  <2>3. \A i \in OnItsWay(a)' : queue'[i].type = "Finish" => i = e
    BY <1>3, <1>6, <2>2
  <2>4. \A j \in OnItsWay(a)' : j <= e
    BY <1>3, <1>6
  <2> QED
    BY <1>2, <2>1, <2>3, <2>4 DEF FinishLast
<1> QED
  BY <1>7, <1>8, <1>9

-----------------------------------------------------------------------------
(* The collector takes the first message.                                    *)

\* The messages of the others move one place forward.
LEMMA TakenOthers ==
  ASSUME Inv, queue # <<>>, queue' = Tail(queue), interrupted' = interrupted,
         phase' = phase, printed' = printed,
         NEW b \in Attempts, b # Head(queue).from, Whole(b),
         log'[b] = log[b], metadata'[b] = metadata[b], result'[b] = result[b]
  PROVE  Whole(b)'
<1>1. \A i \in DOMAIN queue' : i \in Nat /\ i + 1 \in DOMAIN queue /\ queue'[i] = queue[i + 1]
  BY TailQueue, QueueType
<1>2. ASSUME NEW i \in DOMAIN queue, queue[i].from = b
      PROVE  i - 1 \in DOMAIN queue' /\ queue'[i - 1] = queue[i]
  <2>1. i # 1
    BY <1>2, TailQueue
  <2>2. queue \in Seq(Messages) /\ i \in 1..Len(queue) /\ i - 1 \in 1..(Len(queue) - 1)
    BY <2>1, QueueType
  <2> QED
    BY <2>2
<1>3. 1 \in {0, 1}
  OBVIOUS
<1> QED
  BY <1>1, <1>2, <1>3, Others

\* What is left of the messages of the attempt whose message was taken.
LEMMA Taken ==
  ASSUME Inv, queue # <<>>, queue' = Tail(queue), NEW a \in Attempts, Head(queue).from = a
  PROVE  /\ 1 \in OnItsWay(a) /\ queue[1] = Head(queue) /\ 1 \in DOMAIN queue
         /\ \A i \in OnItsWay(a)' : i \in Nat /\ i + 1 \in OnItsWay(a) /\ queue'[i] = queue[i + 1] /\ 1 < i + 1
         /\ \A i \in DOMAIN queue : i # 1 => i - 1 \in DOMAIN queue' /\ queue'[i - 1] = queue[i]
         /\ \A i \in OnItsWay(a) : i # 1 => i - 1 \in OnItsWay(a)' /\ queue'[i - 1] = queue[i]
<1>1. 1 \in OnItsWay(a) /\ queue[1] = Head(queue) /\ 1 \in DOMAIN queue
  BY TailQueue DEF OnItsWay
<1>2. \A i \in DOMAIN queue' :
         i \in Nat /\ queue'[i] = queue[i + 1] /\ i + 1 \in DOMAIN queue /\ 1 < i + 1
  BY TailQueue, QueueType
<1>3. ASSUME NEW i \in DOMAIN queue, i # 1
      PROVE  i - 1 \in DOMAIN queue' /\ queue'[i - 1] = queue[i]
  <2>1. queue \in Seq(Messages) /\ i \in 1..Len(queue) /\ i - 1 \in 1..(Len(queue) - 1)
    BY <1>3, QueueType
  <2> QED
    BY <2>1
<1> QED
  BY <1>1, <1>2, <1>3 DEF OnItsWay

LEMMA WriteMetadataWhole ==
  ASSUME Inv, WriteMetadata, NEW a \in Attempts, Head(queue).from = a, Whole(a)
  PROVE  Whole(a)'
<1> SUFFICES ASSUME ~interrupted'[a] PROVE LinesKept(a)' /\ StartFirst(a)' /\ FinishLast(a)'
  BY DEF Whole
<1>1. /\ queue # <<>> /\ Head(queue).type = "Start" /\ queue' = Tail(queue)
      /\ UNCHANGED <<phase, printed, log, result, interrupted>>
      /\ metadata'[a] = metadata[a] + 1
  BY DEF WriteMetadata, Received, builderVars, Inv, TypeInv
<1>2. LinesKept(a) /\ StartFirst(a) /\ FinishLast(a)
  BY <1>1 DEF Whole
<1>3. /\ 1 \in OnItsWay(a) /\ queue[1] = Head(queue) /\ 1 \in DOMAIN queue
      /\ \A i \in OnItsWay(a)' : i \in Nat /\ i + 1 \in OnItsWay(a) /\ queue'[i] = queue[i + 1] /\ 1 < i + 1
      /\ \A i \in DOMAIN queue : i # 1 => i - 1 \in DOMAIN queue' /\ queue'[i - 1] = queue[i]
  BY <1>1, Taken
<1>4. metadata[a] = 0 /\ phase[a] # "new"
  BY <1>1, <1>2, <1>3 DEF StartFirst
<1>5. \A i \in OnItsWay(a)' : queue'[i].type # "Start"
  <2> SUFFICES ASSUME NEW i \in OnItsWay(a)', queue'[i].type = "Start" PROVE FALSE
    OBVIOUS
  <2>1. i + 1 <= 1
    BY <1>2, <1>3 DEF StartFirst
  <2>2. i \in Nat /\ 1 < i + 1
    BY <1>3
  <2> QED
    BY <2>1, <2>2
<1>6. LinesKept(a)'
  <2>1. ASSUME NEW n \in 1..printed[a], ~(n <= Len(log[a]))
        PROVE  \E i \in DOMAIN queue' : queue'[i] = Message(a, "Msg", n)
    <3>1. PICK i \in DOMAIN queue : queue[i] = Message(a, "Msg", n)
      BY <1>2, <2>1 DEF LinesKept
    <3>2. i # 1
      BY <1>1, <1>3, <3>1 DEF Message
    <3> QED
      BY <1>3, <3>1, <3>2
  <2> QED
    BY <1>1, <1>2, <2>1 DEF LinesKept
<1>7. StartFirst(a)'
  <2>1. phase'[a] # "new" /\ metadata'[a] = 1
    BY <1>1, <1>4
  <2> QED
    BY <1>5, <2>1 DEF StartFirst
<1>8. FinishLast(a)'
  <2>1. result'[a] = 0
    BY <1>1, <1>2, <1>3 DEF FinishLast
  <2>2. ASSUME NEW i \in OnItsWay(a)', NEW j \in OnItsWay(a)', queue'[i].type = "Finish"
        PROVE  phase'[a] = "finished" /\ j <= i
    <3>1. phase[a] = "finished" /\ j + 1 <= i + 1
      BY <1>2, <1>3, <2>2 DEF FinishLast
    <3>2. i \in Nat /\ j \in Nat
      BY <1>3
    <3> QED
      BY <1>1, <3>1, <3>2
  <2> QED
    BY <2>1, <2>2 DEF FinishLast
<1> QED
  BY <1>6, <1>7, <1>8

LEMMA WriteResultWhole ==
  ASSUME Inv, WriteResult, NEW a \in Attempts, Head(queue).from = a, Whole(a)
  PROVE  Whole(a)'
<1> SUFFICES ASSUME ~interrupted'[a] PROVE LinesKept(a)' /\ StartFirst(a)' /\ FinishLast(a)'
  BY DEF Whole
<1>1. /\ queue # <<>> /\ Head(queue).type = "Finish" /\ queue' = Tail(queue)
      /\ UNCHANGED <<phase, printed, log, metadata, interrupted>>
      /\ result'[a] = result[a] + 1
  BY DEF WriteResult, Received, builderVars, Inv, TypeInv
<1>2. LinesKept(a) /\ StartFirst(a) /\ FinishLast(a)
  BY <1>1 DEF Whole
<1>3. /\ 1 \in OnItsWay(a) /\ queue[1] = Head(queue) /\ 1 \in DOMAIN queue
      /\ \A i \in OnItsWay(a)' : i \in Nat /\ i + 1 \in OnItsWay(a) /\ queue'[i] = queue[i + 1] /\ 1 < i + 1
      /\ \A i \in DOMAIN queue : i # 1 => i - 1 \in DOMAIN queue' /\ queue'[i - 1] = queue[i]
      /\ \A i \in OnItsWay(a) : i # 1 => i - 1 \in OnItsWay(a)' /\ queue'[i - 1] = queue[i]
  BY <1>1, Taken
<1>4. result[a] = 0 /\ phase[a] = "finished" /\ \A j \in OnItsWay(a) : j <= 1
  BY <1>1, <1>2, <1>3 DEF FinishLast
<1>5. OnItsWay(a)' = {}
  <2> SUFFICES ASSUME NEW i \in OnItsWay(a)' PROVE FALSE
    OBVIOUS
  <2>1. i \in Nat /\ i + 1 <= 1 /\ 1 < i + 1
    BY <1>3, <1>4
  <2> QED
    BY <2>1
<1>6. LinesKept(a)'
  <2>1. ASSUME NEW n \in 1..printed[a], ~(n <= Len(log[a]))
        PROVE  \E i \in DOMAIN queue' : queue'[i] = Message(a, "Msg", n)
    <3>1. PICK i \in DOMAIN queue : queue[i] = Message(a, "Msg", n)
      BY <1>2, <2>1 DEF LinesKept
    <3>2. i # 1
      BY <1>1, <1>3, <3>1 DEF Message
    <3> QED
      BY <1>3, <3>1, <3>2
  <2> QED
    BY <1>1, <1>2, <2>1 DEF LinesKept
<1>7. StartFirst(a)'
  <2>1. metadata[a] = 1
    <3> SUFFICES ASSUME metadata[a] # 1 PROVE FALSE
      OBVIOUS
    <3>1. PICK i \in OnItsWay(a) : queue[i].type = "Start"
      BY <1>2, <1>4 DEF StartFirst
    <3>2. i # 1 /\ i - 1 \in OnItsWay(a)'
      BY <1>1, <1>3, <3>1
    <3> QED
      BY <1>5, <3>2
  <2> QED
    BY <1>1, <1>4, <1>5, <2>1 DEF StartFirst
<1>8. FinishLast(a)'
  BY <1>1, <1>4, <1>5 DEF FinishLast
<1> QED
  BY <1>6, <1>7, <1>8

\* The line that is written is the next one of its attempt.
LEMMA WriteLineWhole ==
  ASSUME Inv, WriteLine, NEW a \in Attempts, Head(queue).from = a, Whole(a)
  PROVE  Whole(a)'
<1> SUFFICES ASSUME ~interrupted'[a] PROVE LinesKept(a)' /\ StartFirst(a)' /\ FinishLast(a)'
  BY DEF Whole
<1>0. PICK c \in Attempts, n \in 1..MaxLines, R \in Seq(Text) :
         /\ queue # <<>> /\ Head(queue) = Message(c, "Msg", n)
         /\ Len(log[c]) < n
         /\ R = Replaced(log[c], n - 1, n)
         /\ Len(R) = n
         /\ \A i \in 1..Len(log[c]) : R[i] = log[c][i]
         /\ log' = [log EXCEPT ![c] = R]
         /\ queue' = Tail(queue)
         /\ UNCHANGED <<builderVars, up, metadata, result, interrupted>>
  BY LineWritten
<1>1. c = a
  BY <1>0 DEF Message
<1>2. /\ queue # <<>> /\ Head(queue) = Message(a, "Msg", n) /\ queue' = Tail(queue)
      /\ log \in [Attempts -> Seq(Text)] /\ log'[a] = R /\ n \in Nat /\ n > 0
      /\ UNCHANGED <<phase, printed, metadata, result, interrupted>>
  BY <1>0, <1>1, MaxLinesAssumption DEF builderVars, Inv, TypeInv
<1>3. LinesKept(a) /\ StartFirst(a) /\ FinishLast(a)
  BY <1>2 DEF Whole
<1>4. /\ 1 \in OnItsWay(a) /\ queue[1] = Head(queue) /\ 1 \in DOMAIN queue
      /\ \A i \in OnItsWay(a)' : i \in Nat /\ i + 1 \in OnItsWay(a) /\ queue'[i] = queue[i + 1] /\ 1 < i + 1
      /\ \A i \in DOMAIN queue : i # 1 => i - 1 \in DOMAIN queue' /\ queue'[i - 1] = queue[i]
      /\ \A i \in OnItsWay(a) : i # 1 => i - 1 \in OnItsWay(a)' /\ queue'[i - 1] = queue[i]
  BY <1>1, <1>2, Taken
<1>5. queue[1].from = a /\ queue[1].type = "Msg" /\ queue[1].line_number = n
  BY <1>2, <1>4 DEF Message
<1>6. n <= printed[a] /\ printed[a] \in Nat /\ Len(log[a]) \in Nat /\ Len(log[a]) < n
  BY <1>0, <1>1, <1>2, <1>4, <1>5 DEF Inv, LinesMoveForward, TypeInv
<1>7. n = Len(log[a]) + 1
  <2> SUFFICES ASSUME Len(log[a]) + 1 < n PROVE FALSE
    BY <1>2, <1>6
  <2> DEFINE l == Len(log[a]) + 1
  <2>1. l \in 1..printed[a] /\ ~(l <= Len(log[a])) /\ l < n
    BY <1>2, <1>6
  <2> HIDE DEF l
  <2>2. PICK i \in DOMAIN queue : queue[i] = Message(a, "Msg", l)
    BY <1>3, <2>1 DEF LinesKept
  <2>3. queue[i].from = a /\ queue[i].type = "Msg" /\ queue[i].line_number = l
    BY <2>2 DEF Message
  <2>4. i # 1
    BY <1>2, <1>5, <2>1, <2>3
  <2>5. 1 < i
    BY <2>4, QueueType
  <2>6. n < l
    BY <1>4, <1>5, <2>3, <2>5 DEF Inv, LinesMoveForward
  <2>7. l \in Nat
    BY <1>6 DEF l
  <2> QED
    BY <1>2, <2>1, <2>6, <2>7
<1>8. R[n] = n
  <2>1. n - 1 + 1 = n /\ n \in 1..n
    BY <1>2
  <2> QED
    BY <1>0, <1>1, <1>2, <1>7, <2>1 DEF Replaced
<1>9. LinesKept(a)'
  <2>1. ASSUME NEW i \in DOMAIN R PROVE R[i] = i
    <3>1. i \in 1..n
      BY <1>0
    <3>2. CASE i = n
      BY <1>8, <3>2
    <3>3. CASE i # n
      <4>1. i \in 1..Len(log[a]) /\ i \in DOMAIN log[a]
        BY <1>2, <1>6, <1>7, <3>1, <3>3
      <4> QED
        BY <1>0, <1>1, <1>3, <4>1 DEF LinesKept
    <3> QED
      BY <3>2, <3>3
  <2>2. ASSUME NEW l \in 1..printed[a], ~(l <= n)
        PROVE  \E i \in DOMAIN queue' : queue'[i] = Message(a, "Msg", l)
    <3>1. ~(l <= Len(log[a]))
      BY <1>2, <1>6, <2>2
    <3>2. PICK i \in DOMAIN queue : queue[i] = Message(a, "Msg", l)
      BY <1>3, <2>2, <3>1 DEF LinesKept
    <3>3. queue[i].line_number = l /\ l # n
      BY <1>2, <2>2, <3>2 DEF Message
    <3>4. i # 1
      BY <1>5, <3>3
    <3> QED
      BY <1>4, <3>2, <3>4
  <2> QED
    BY <1>0, <1>2, <2>1, <2>2 DEF LinesKept
<1>10. StartFirst(a)'
  <2>1. phase[a] # "new"
    BY <1>3, <1>4 DEF StartFirst
  <2>2. ASSUME metadata[a] # 1
        PROVE  metadata[a] = 0 /\ \E i \in OnItsWay(a)' : queue'[i].type = "Start"
    <3>1. PICK i \in OnItsWay(a) : metadata[a] = 0 /\ queue[i].type = "Start"
      BY <1>3, <2>1, <2>2 DEF StartFirst
    <3>2. i # 1
      BY <1>5, <3>1
    <3> QED
      BY <1>4, <3>1, <3>2
  <2>3. ASSUME NEW i \in OnItsWay(a)', NEW j \in OnItsWay(a)', queue'[i].type = "Start"
        PROVE  metadata[a] = 0 /\ i <= j
    <3>1. metadata[a] = 0 /\ i + 1 <= j + 1
      BY <1>3, <1>4, <2>3 DEF StartFirst
    <3>2. i \in Nat /\ j \in Nat
      BY <1>4
    <3> QED
      BY <3>1, <3>2
  <2> QED
    BY <1>2, <2>1, <2>2, <2>3 DEF StartFirst
<1>11. FinishLast(a)'
  <2>1. result'[a] = 0
    BY <1>2, <1>3, <1>4 DEF FinishLast
  <2>2. ASSUME NEW i \in OnItsWay(a)', NEW j \in OnItsWay(a)', queue'[i].type = "Finish"
        PROVE  phase'[a] = "finished" /\ j <= i
    <3>1. phase[a] = "finished" /\ j + 1 <= i + 1
      BY <1>3, <1>4, <2>2 DEF FinishLast
    <3>2. i \in Nat /\ j \in Nat
      BY <1>4
    <3> QED
      BY <1>2, <3>1, <3>2
  <2> QED
    BY <2>1, <2>2 DEF FinishLast
<1> QED
  BY <1>9, <1>10, <1>11

-----------------------------------------------------------------------------

LEMMA StepWhole ==
  ASSUME Inv, [Next]_vars, \A a \in Attempts : Whole(a)
  PROVE  \A a \in Attempts : Whole(a)'
<1> TAKE a \in Attempts
<1>0. Whole(a)
  OBVIOUS
<1>1. ASSUME UNCHANGED <<phase, printed, queue, log, metadata, result, interrupted>> PROVE Whole(a)'
  BY <1>0, <1>1 DEF Whole, LinesKept, StartFirst, FinishLast, OnItsWay
<1>2. ASSUME NEW b \in Attempts, LogStarted(b) PROVE Whole(a)'
  <2>1. CASE a = b
    BY <1>0, <1>2, <2>1, LogStartedWhole
  <2>2. CASE a # b
    <3>1. Message(b, "Start", 0) \in Messages /\ Message(b, "Start", 0).from = b
      BY DEF Message, Messages
    <3>2. Publish(Message(b, "Start", 0)) /\ phase'[a] = phase[a] /\ printed'[a] = printed[a]
      BY <1>2, <2>2 DEF LogStarted, Inv, TypeInv
    <3> QED
      BY <1>0, <2>2, <3>1, <3>2, PublishOthers
  <2> QED
    BY <2>1, <2>2
<1>3. ASSUME NEW b \in Attempts, LogLine(b) PROVE Whole(a)'
  <2>1. CASE a = b
    BY <1>0, <1>3, <2>1, LogLineWhole
  <2>2. CASE a # b
    <3> DEFINE m == Message(b, "Msg", printed[b] + 1)
    <3>0. printed[b] + 1 \in Nat
      BY DEF Inv, TypeInv
    <3>1. m \in Messages /\ m.from = b
      BY <3>0 DEF Message, Messages
    <3>2. Publish(m) /\ phase'[a] = phase[a] /\ printed'[a] = printed[a]
      BY <1>3, <2>2 DEF LogLine, Inv, TypeInv
    <3> HIDE DEF m
    <3> QED
      BY <1>0, <2>2, <3>1, <3>2, PublishOthers
  <2> QED
    BY <2>1, <2>2
<1>4. ASSUME NEW b \in Attempts, BuildFinished(b) PROVE Whole(a)'
  <2>1. CASE a = b
    BY <1>0, <1>4, <2>1, BuildFinishedWhole
  <2>2. CASE a # b
    <3>1. Message(b, "Finish", 0) \in Messages /\ Message(b, "Finish", 0).from = b
      BY DEF Message, Messages
    <3>2. Publish(Message(b, "Finish", 0)) /\ phase'[a] = phase[a] /\ printed'[a] = printed[a]
      BY <1>4, <2>2 DEF BuildFinished, Inv, TypeInv
    <3> QED
      BY <1>0, <2>2, <3>1, <3>2, PublishOthers
  <2> QED
    BY <2>1, <2>2
<1>5. CASE WriteMetadata
  <2>1. /\ queue # <<>> /\ queue' = Tail(queue)
        /\ UNCHANGED <<phase, printed, log, result, interrupted>>
        /\ metadata' = [metadata EXCEPT ![Head(queue).from] = @ + 1] /\ metadata \in [Attempts -> Nat]
    BY <1>5 DEF WriteMetadata, Received, builderVars, Inv, TypeInv
  <2>2. CASE a = Head(queue).from
    BY <1>0, <1>5, <2>2, WriteMetadataWhole
  <2>3. CASE a # Head(queue).from
    <3>1. metadata'[a] = metadata[a]
      BY <2>1, <2>3
    <3> QED
      BY <1>0, <2>1, <2>3, <3>1, TakenOthers
  <2> QED
    BY <2>2, <2>3
<1>6. CASE WriteLine
  <2>1. /\ queue # <<>> /\ queue' = Tail(queue)
        /\ UNCHANGED <<phase, printed, metadata, result, interrupted>>
    BY <1>6 DEF WriteLine, Received, builderVars
  <2>2. CASE a = Head(queue).from
    BY <1>0, <1>6, <2>2, WriteLineWhole
  <2>3. CASE a # Head(queue).from
    <3>1. PICK c \in Attempts, n \in 1..MaxLines, R \in Seq(Text) :
             Head(queue) = Message(c, "Msg", n) /\ log' = [log EXCEPT ![c] = R]
      BY <1>6, LineWritten
    <3>2. c # a
      BY <2>3, <3>1 DEF Message
    <3>4. log \in [Attempts -> Seq(Text)]
      BY DEF Inv, TypeInv
    <3>3. log'[a] = log[a]
      BY <3>1, <3>2, <3>4
    <3> QED
      BY <1>0, <2>1, <2>3, <3>3, TakenOthers
  <2> QED
    BY <2>2, <2>3
<1>7. CASE WriteResult
  <2>1. /\ queue # <<>> /\ queue' = Tail(queue)
        /\ UNCHANGED <<phase, printed, log, metadata, interrupted>>
        /\ result' = [result EXCEPT ![Head(queue).from] = @ + 1] /\ result \in [Attempts -> Nat]
    BY <1>7 DEF WriteResult, Received, builderVars, Inv, TypeInv
  <2>2. CASE a = Head(queue).from
    BY <1>0, <1>7, <2>2, WriteResultWhole
  <2>3. CASE a # Head(queue).from
    <3>1. result'[a] = result[a]
      BY <2>1, <2>3
    <3> QED
      BY <1>0, <2>1, <2>3, <3>1, TakenOthers
  <2> QED
    BY <2>2, <2>3
<1>8. CASE Crash
  <2>1. queue' = <<>> /\ UNCHANGED <<phase, printed, log, metadata, result>>
    BY <1>8 DEF Crash, builderVars, fileVars
  <2>2. interrupted'[a] = (interrupted[a] \/ phase[a] = "running" \/ \E i \in DOMAIN queue : queue[i].from = a)
    BY <1>8 DEF Crash
  <2>3. \A i \in DOMAIN queue' : queue'[i].from = a =>
           i \in Nat /\ i + 0 \in DOMAIN queue /\ queue'[i] = queue[i + 0]
    BY <2>1
  <2>4. ~interrupted'[a] => \A i \in DOMAIN queue : queue[i].from = a =>
           i - 0 \in DOMAIN queue' /\ queue'[i - 0] = queue[i]
    BY <2>2
  <2>5. interrupted[a] => interrupted'[a]
    BY <2>2
  <2>6. 0 \in {0, 1}
    OBVIOUS
  <2> QED
    BY <1>0, <2>1, <2>3, <2>4, <2>5, <2>6, Others
<1>9. CASE Restart
  BY <1>1, <1>9 DEF Restart, builderVars, fileVars
<1>10. CASE UNCHANGED vars
  BY <1>1, <1>10 DEF vars, builderVars, fileVars
<1> QED
  BY <1>2, <1>3, <1>4, <1>5, <1>6, <1>7, <1>8, <1>9, <1>10 DEF Next

LEMMA InitWhole == Init => \A a \in Attempts : Whole(a)
<1> SUFFICES ASSUME Init, NEW a \in Attempts PROVE Whole(a)
  OBVIOUS
<1>1. queue = <<>> /\ printed[a] = 0 /\ log[a] = <<>> /\ phase[a] = "new"
      /\ metadata[a] = 0 /\ result[a] = 0
  BY DEF Init
<1>2. DOMAIN queue = {} /\ DOMAIN log[a] = {} /\ 1..printed[a] = {} /\ OnItsWay(a) = {}
  BY <1>1 DEF OnItsWay
<1> QED
  BY <1>1, <1>2 DEF Whole, LinesKept, StartFirst, FinishLast

\* A log with a result, of an attempt the collector saw as a whole, has every
\* line in its row, one start and one result, for any number of attempts whose
\* messages mix, and any capacity of the cache.
THEOREM LogsComplete == Spec => []CompleteUnlessInterrupted
<1> DEFINE Both == Inv /\ \A a \in Attempts : Whole(a)
<1>1. Init => Both
  BY InitInv, InitWhole
<1>2. Both /\ [Next]_vars => Both'
  BY StepInv, StepWhole
<1>3. Both => CompleteUnlessInterrupted
  <2> SUFFICES ASSUME Both, NEW a \in Attempts, result[a] > 0, ~interrupted[a]
               PROVE  log[a] = [i \in 1..printed[a] |-> i] /\ metadata[a] = 1 /\ result[a] = 1
    BY DEF CompleteUnlessInterrupted
  <2>1. LinesKept(a) /\ StartFirst(a) /\ FinishLast(a)
    BY DEF Whole
  <2>2. result[a] = 1 /\ phase[a] = "finished" /\ OnItsWay(a) = {}
    BY <2>1 DEF FinishLast
  <2>3. metadata[a] = 1
    BY <2>1, <2>2 DEF StartFirst
  <2>4. printed[a] \in Nat /\ log[a] \in Seq(Text) /\ Len(log[a]) \in Nat /\ Len(log[a]) <= printed[a]
    BY DEF Inv, TypeInv
  <2>5. Len(log[a]) = printed[a]
    <3> SUFFICES ASSUME Len(log[a]) < printed[a] PROVE FALSE
      BY <2>4
    <3>1. printed[a] \in 1..printed[a] /\ ~(printed[a] <= Len(log[a]))
      BY <2>4
    <3>2. PICK i \in DOMAIN queue : queue[i] = Message(a, "Msg", printed[a])
      BY <2>1, <3>1 DEF LinesKept
    <3>3. i \in OnItsWay(a)
      BY <3>2 DEF OnItsWay, Message
    <3> QED
      BY <2>2, <3>3
  <2>6. DOMAIN log[a] = 1..printed[a] /\ \A i \in 1..printed[a] : log[a][i] = i
    BY <2>1, <2>4, <2>5 DEF LinesKept
  <2>7. log[a] = [i \in 1..printed[a] |-> i]
    BY <2>4, <2>6
  <2> QED
    BY <2>2, <2>3, <2>7
<1> QED
  BY <1>1, <1>2, <1>3, PTL DEF Spec
=============================================================================
