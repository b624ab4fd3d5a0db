--------------------------- MODULE AsyncCmdProofs ---------------------------
(***************************************************************************)
(* Proofs about AsyncCmd, for every capacity of the two channels and of the *)
(* pipes and for every length of the output.  The inductive invariant is    *)
(* Inv; each of its parts is about the data one group of threads shares.    *)
(***************************************************************************)
EXTENDS AsyncCmd, SequenceTheorems, TLAPS

\* A reader finishes only at the end of its stream.
ReaderInv ==
    \A s \in Streams :
        /\ read[s] <= Len(written[s])
        /\ reader[s] = "sending" => read[s] > 0
        /\ reader[s] = "finished" => ~open[s] /\ read[s] = Len(written[s])

\* A notice is sent after what it reports, and the child's notice carries the
\* status all the way to the head waiter's return_status.
WaiterInv ==
    /\ \A s \in Streams : joiner[s] # "waiting" => reader[s] = "finished"
    /\ joiner["Child"] # "waiting" => exit # NoStatus
    /\ \A i \in DOMAIN monitor :
        /\ joiner[monitor[i].id] # "waiting"
        /\ monitor[i].id = "Child" => monitor[i].result = exit
    /\ head = "joining" => /\ notice.id \notin waiters
                           /\ notice.id = "Child" => notice.result = exit
    /\ "Child" \notin waiters =>
        \/ head = "joining" /\ notice.id = "Child"
        \/ status = exit
    /\ head = "finished" => waiters = {}

\* The caller moves on when the channel is empty and both senders are gone.
CallerInv ==
    /\ caller # "draining" => chan = <<>> /\ \A s \in Streams : reader[s] = "finished"
    /\ caller # "done" => result = NoStatus
    /\ caller = "done" => result = exit /\ exit # NoStatus

Inv ==
    /\ TypeInv
    /\ ReaderInv
    /\ EveryLineOnceInOrder
    /\ NoticesAccounted
    /\ WaiterInv
    /\ CallerInv
-----------------------------------------------------------------------------
(* Type correctness.                                                         *)

LEMMA InitInv == Init => Inv
  BY StatusAssumption, CapacityAssumption
  DEF Init, Inv, TypeInv, TypeOK, ReaderInv, EveryLineOnceInOrder, NoticesAccounted,
      WaiterInv, CallerInv, Streams, WaitTarget, Kinds, Lines, Notices, Sent, Stream

\* A line on its way has the type of a line.
LEMMA LineType ==
  ASSUME TypeOK, ReaderInv, NEW s \in Streams, reader[s] = "sending"
  PROVE  LineOf(s, read[s]) \in Lines
  BY DEF TypeOK, ReaderInv, LineOf, Lines, Decoded

LEMMA TypePreserved == TypeInv /\ ReaderInv /\ [Next]_vars => TypeInv'
<1> SUFFICES ASSUME TypeInv, ReaderInv, [Next]_vars PROVE TypeInv'
  OBVIOUS
<1> USE CapacityAssumption DEF TypeInv, TypeOK
<1>1. ASSUME NEW s \in Streams, NEW k \in Kinds, ChildWrites(s, k) PROVE TypeInv'
  BY <1>1 DEF ChildWrites, readerVars, headVars, callerVars
<1>2. ASSUME NEW s \in Streams, StreamCloses(s) PROVE TypeInv'
  BY <1>2 DEF StreamCloses, readerVars, headVars, callerVars
<1>3. ASSUME NEW st \in Statuses, ChildExits(st) PROVE TypeInv'
  BY <1>3 DEF ChildExits, readerVars, headVars, callerVars
<1>4. ASSUME NEW s \in Streams, ReaderTakesLine(s) PROVE TypeInv'
  BY <1>4 DEF ReaderTakesLine, childVars, headVars, callerVars
<1>5. ASSUME NEW s \in Streams, ReaderSendsLine(s) PROVE TypeInv'
  <2>1. LineOf(s, read[s]) \in Lines
    BY <1>5, LineType DEF ReaderSendsLine
  <2>2. /\ chan' \in Seq(Lines)
        /\ Len(chan') = Len(chan) + 1
        /\ Len(chan') <= OUT_CHANNEL_BUFFER_SIZE
    BY <1>5, <2>1 DEF ReaderSendsLine
  <2> QED
    BY <1>5, <2>2 DEF ReaderSendsLine, childVars, headVars, callerVars
<1>6. ASSUME NEW s \in Streams, ReaderEndsAtEof(s) PROVE TypeInv'
  BY <1>6 DEF ReaderEndsAtEof, childVars, headVars, callerVars
<1>7. ASSUME NEW t \in WaitTarget, NEW r \in Statuses \cup {NoStatus}, Notify(t, r)
      PROVE  TypeInv'
  <2>1. [id |-> t, result |-> r] \in Notices
    BY DEF Notices
  <2>2. /\ monitor' \in Seq(Notices)
        /\ Len(monitor') <= WAITER_CHANNEL_BUFFER_SIZE
    BY <1>7, <2>1 DEF Notify
  <2> QED
    BY <1>7, <2>2 DEF Notify, childVars, readerVars, headVars, callerVars
<1>8. ASSUME NEW s \in Streams, SpawnJoin(s) PROVE TypeInv'
  BY <1>7, <1>8 DEF SpawnJoin, WaitTarget
<1>9. ASSUME ChildWait PROVE TypeInv'
  BY <1>7, <1>9 DEF ChildWait, WaitTarget
<1>10. ASSUME NEW t \in WaitTarget, JoinerExits(t) PROVE TypeInv'
  BY <1>10 DEF JoinerExits, childVars, readerVars, headVars, callerVars
<1>11. ASSUME HeadReceives PROVE TypeInv'
  <2>1. Head(monitor) \in Notices /\ Tail(monitor) \in Seq(Notices)
    BY <1>11 DEF HeadReceives
  <2>2. Len(Tail(monitor)) <= WAITER_CHANNEL_BUFFER_SIZE
    BY <1>11 DEF HeadReceives
  <2> QED
    BY <1>11, <2>1, <2>2 DEF HeadReceives, childVars, readerVars, callerVars
<1>12. ASSUME HeadJoins PROVE TypeInv'
  BY <1>12 DEF HeadJoins, childVars, readerVars, callerVars, Notices
<1>13. ASSUME CallerGetsLine PROVE TypeInv'
  <2>1. Head(chan) \in Lines /\ Tail(chan) \in Seq(Lines)
    BY <1>13 DEF CallerGetsLine
  <2>2. /\ Len(Tail(chan)) <= OUT_CHANNEL_BUFFER_SIZE
        /\ Append(received, Head(chan)) \in Seq(Lines)
    BY <1>13, <2>1 DEF CallerGetsLine
  <2> QED
    BY <1>13, <2>1, <2>2 DEF CallerGetsLine, childVars, readerVars, headVars
<1>14. ASSUME LinesEnd PROVE TypeInv'
  BY <1>14 DEF LinesEnd, childVars, readerVars, headVars
<1>15. ASSUME WaitReturns PROVE TypeInv'
  BY <1>15 DEF WaitReturns, childVars, readerVars, headVars
<1>16. CASE UNCHANGED vars
  BY <1>16 DEF vars, childVars, readerVars, headVars, callerVars
<1> QED
  BY <1>1, <1>2, <1>3, <1>4, <1>5, <1>6, <1>8, <1>9, <1>10, <1>11, <1>12, <1>13,
     <1>14, <1>15, <1>16
  DEF Next, ChildStep, ReaderStep, WaiterStep, CallerStep

-----------------------------------------------------------------------------
(* The readers.                                                              *)

LEMMA ReaderPreserved == TypeInv /\ ReaderInv /\ [Next]_vars => ReaderInv'
<1> SUFFICES ASSUME TypeInv, ReaderInv, [Next]_vars PROVE ReaderInv'
  OBVIOUS
<1> USE DEF TypeInv, TypeOK, ReaderInv
<1>1. ASSUME NEW s \in Streams, NEW k \in Kinds, ChildWrites(s, k) PROVE ReaderInv'
  <2>1. \A u \in Streams : Len(written'[u]) >= Len(written[u])
    BY <1>1 DEF ChildWrites
  <2>2. \A u \in Streams : reader[u] = "finished" => written'[u] = written[u]
    BY <1>1 DEF ChildWrites
  <2> QED
    BY <1>1, <2>1, <2>2 DEF ChildWrites, readerVars
<1>2. ASSUME NEW s \in Streams, StreamCloses(s) PROVE ReaderInv'
  BY <1>2 DEF StreamCloses, readerVars
<1>3. ASSUME NEW s \in Streams, ReaderTakesLine(s) PROVE ReaderInv'
  BY <1>3 DEF ReaderTakesLine, childVars
<1>4. ASSUME NEW s \in Streams, ReaderSendsLine(s) PROVE ReaderInv'
  BY <1>4 DEF ReaderSendsLine, childVars
<1>5. ASSUME NEW s \in Streams, ReaderEndsAtEof(s) PROVE ReaderInv'
  BY <1>5 DEF ReaderEndsAtEof, childVars
<1>6. CASE UNCHANGED <<written, open, read, reader>>
  BY <1>6
<1> QED
  BY <1>1, <1>2, <1>3, <1>4, <1>5, <1>6
  DEF Next, ChildStep, ReaderStep, WaiterStep, CallerStep, vars, childVars, readerVars,
      ChildExits, Notify, SpawnJoin, ChildWait, JoinerExits, HeadReceives, HeadJoins,
      CallerGetsLine, LinesEnd, WaitReturns
-----------------------------------------------------------------------------
(* The log.                                                                  *)

\* The log grows by what is put in the channel...
LEMMA StreamAppend ==
  ASSUME NEW S, NEW r \in Seq(S), NEW c \in Seq(S), NEW x \in S
  PROVE  r \o Append(c, x) = Append(r \o c, x)
<1>1. r \o Append(c, x) \in Seq(S) /\ Append(r \o c, x) \in Seq(S)
  OBVIOUS
<1>2. Len(r \o Append(c, x)) = Len(Append(r \o c, x))
  OBVIOUS
<1>3. ASSUME NEW i \in 1..Len(r \o Append(c, x))
      PROVE  (r \o Append(c, x))[i] = Append(r \o c, x)[i]
  OBVIOUS
<1> QED
  BY <1>1, <1>2, <1>3, SeqEqual

\* ... and not by what the caller takes out of it.
LEMMA StreamShift ==
  ASSUME NEW S, NEW r \in Seq(S), NEW c \in Seq(S), c # <<>>
  PROVE  Append(r, Head(c)) \o Tail(c) = r \o c
<1>1. /\ Head(c) \in S /\ Tail(c) \in Seq(S)
      /\ Len(Tail(c)) = Len(c) - 1
      /\ \A i \in 1..Len(Tail(c)) : Tail(c)[i] = c[i + 1]
  BY HeadTailProperties
<1>2. Append(r, Head(c)) \o Tail(c) \in Seq(S) /\ r \o c \in Seq(S)
  BY <1>1
<1>3. Len(Append(r, Head(c)) \o Tail(c)) = Len(r \o c)
  BY <1>1
<1>4. ASSUME NEW i \in 1..Len(r \o c)
      PROVE  (Append(r, Head(c)) \o Tail(c))[i] = (r \o c)[i]
  <2>1. CASE i <= Len(r)
    BY <1>1, <2>1
  <2>2. CASE i = Len(r) + 1
    BY <1>1, <2>2
  <2>3. CASE i > Len(r) + 1
    BY <1>1, <2>3
  <2> QED
    BY <2>1, <2>2, <2>3
<1> QED
  BY <1>2, <1>3, <1>4, SeqEqual

\* The three parts of EveryLineOnceInOrder, for a log T.
LEMMA OrderParts ==
  EveryLineOnceInOrder <=>
    /\ \A i \in DOMAIN Stream :
         \E s \in Streams : \E n \in 1..Sent(s) : Stream[i] = LineOf(s, n)
    /\ \A i, j \in DOMAIN Stream :
         i < j /\ Stream[i].stream = Stream[j].stream => Stream[i].n < Stream[j].n
    /\ \A s \in Streams : \A n \in 1..Sent(s) :
         \E i \in DOMAIN Stream : Stream[i].stream = s /\ Stream[i].n = n
  BY DEF EveryLineOnceInOrder

\* A step that leaves the log and the senders alone may append to what the
\* child has written, and nothing in the log changes its meaning.
LEMMA OrderStable ==
  ASSUME TypeInv, ReaderInv, EveryLineOnceInOrder, TypeInv',
         Stream' = Stream,
         \A s \in Streams : Sent(s)' = Sent(s),
         \A s \in Streams : \A n \in 1..Len(written[s]) : written'[s][n] = written[s][n]
  PROVE  EveryLineOnceInOrder'
<1>1. \A s \in Streams : Sent(s) \in Nat /\ Sent(s) <= Len(written[s])
  BY DEF TypeInv, TypeOK, ReaderInv, Sent
<1>2. \A s \in Streams : \A n \in 1..Sent(s) : LineOf(s, n)' = LineOf(s, n)
  BY <1>1 DEF LineOf, TypeInv, TypeOK
<1>3. \A i \in DOMAIN Stream' :
         \E s \in Streams : \E n \in 1..Sent(s)' : Stream'[i] = LineOf(s, n)'
  BY <1>2, OrderParts
<1>4. \A i, j \in DOMAIN Stream' :
         i < j /\ Stream'[i].stream = Stream'[j].stream => Stream'[i].n < Stream'[j].n
  BY OrderParts
<1>5. \A s \in Streams : \A n \in 1..Sent(s)' :
         \E i \in DOMAIN Stream' : Stream'[i].stream = s /\ Stream'[i].n = n
  BY OrderParts
<1> QED
  BY <1>3, <1>4, <1>5 DEF EveryLineOnceInOrder
\* A sent line is the next one of its stream and goes to the end of the log.
LEMMA OrderSend ==
  ASSUME TypeInv, ReaderInv, EveryLineOnceInOrder,
         NEW s \in Streams, ReaderSendsLine(s)
  PROVE  EveryLineOnceInOrder'
<1> DEFINE x == LineOf(s, read[s])
<1>1. x \in Lines /\ x.stream = s /\ x.n = read[s]
  BY LineType DEF ReaderSendsLine, LineOf, TypeInv
<1>2. Stream \in Seq(Lines)
  BY DEF Stream, TypeInv, TypeOK
<1>3. Stream' = Append(Stream, x)
  BY <1>1, StreamAppend DEF ReaderSendsLine, callerVars, Stream, TypeInv, TypeOK
<1> HIDE DEF x
<1>4. /\ DOMAIN Stream = 1..Len(Stream) /\ Len(Stream) \in Nat
      /\ DOMAIN Stream' = 1..(Len(Stream) + 1)
      /\ \A i \in DOMAIN Stream : Stream'[i] = Stream[i]
      /\ Stream'[Len(Stream) + 1] = x
  BY <1>1, <1>2, <1>3
<1>5. /\ Sent(s)' = read[s] /\ Sent(s) = read[s] - 1 /\ read[s] \in Nat \ {0}
      /\ \A u \in Streams : Sent(u) \in Nat /\ (u # s => Sent(u)' = Sent(u))
  BY DEF ReaderSendsLine, Sent, ReaderInv, TypeInv, TypeOK
<1>6. \A u \in Streams, n \in Nat : LineOf(u, n)' = LineOf(u, n)
  BY DEF ReaderSendsLine, LineOf, childVars
<1>7. \A i \in DOMAIN Stream' :
         \E u \in Streams : \E n \in 1..Sent(u)' : Stream'[i] = LineOf(u, n)'
  <2>1. ASSUME NEW i \in DOMAIN Stream
        PROVE  \E u \in Streams : \E n \in 1..Sent(u)' : Stream'[i] = LineOf(u, n)'
    <3>1. PICK u \in Streams : \E n \in 1..Sent(u) : Stream[i] = LineOf(u, n)
      BY OrderParts
    <3>2. PICK n \in 1..Sent(u) : Stream[i] = LineOf(u, n)
      BY <3>1
    <3>3. n \in 1..Sent(u)' /\ Stream'[i] = LineOf(u, n)'
      BY <1>4, <1>5, <1>6, <3>2
    <3> QED
      BY <3>3
  <2>3. \A i \in DOMAIN Stream' : i \in DOMAIN Stream \/ i = Len(Stream) + 1
    BY <1>4
  <2>2. \E n \in 1..Sent(s)' : Stream'[Len(Stream) + 1] = LineOf(s, n)'
    BY <1>4, <1>5, <1>6 DEF x
  <2> QED
    BY <2>1, <2>2, <2>3
<1>8. \A i, j \in DOMAIN Stream' :
         i < j /\ Stream'[i].stream = Stream'[j].stream => Stream'[i].n < Stream'[j].n
  <2>1. ASSUME NEW i \in DOMAIN Stream, Stream[i].stream = s PROVE Stream[i].n < read[s]
    <3>1. PICK u \in Streams : \E n \in 1..Sent(u) : Stream[i] = LineOf(u, n)
      BY OrderParts
    <3> QED
      BY <1>5, <2>1, <3>1 DEF LineOf
  <2>2. ASSUME NEW i \in DOMAIN Stream', NEW j \in DOMAIN Stream', i < j,
               Stream'[i].stream = Stream'[j].stream
        PROVE  Stream'[i].n < Stream'[j].n
    <3>1. i \in DOMAIN Stream /\ (j \in DOMAIN Stream \/ j = Len(Stream) + 1)
      BY <1>4, <2>2
    <3>2. CASE j \in DOMAIN Stream
      BY <1>4, <2>2, <3>1, <3>2, OrderParts
    <3>3. CASE j = Len(Stream) + 1
      <4>1. Stream[i].stream = s /\ Stream'[j].n = read[s]
        BY <1>1, <1>4, <2>2, <3>1, <3>3
      <4> QED
        BY <1>4, <2>1, <3>1, <4>1
    <3> QED
      BY <3>1, <3>2, <3>3
  <2> QED
    BY <2>2
<1>9. \A u \in Streams : \A n \in 1..Sent(u)' :
         \E i \in DOMAIN Stream' : Stream'[i].stream = u /\ Stream'[i].n = n
  <2>1. ASSUME NEW u \in Streams, NEW n \in 1..Sent(u)
        PROVE  \E i \in DOMAIN Stream' : Stream'[i].stream = u /\ Stream'[i].n = n
    BY <1>4, <2>1, OrderParts
  <2>2. \E i \in DOMAIN Stream' : Stream'[i].stream = s /\ Stream'[i].n = read[s]
    BY <1>1, <1>4
  <2>3. \A u \in Streams : \A n \in 1..Sent(u)' : n \in 1..Sent(u) \/ (u = s /\ n = read[s])
    BY <1>5
  <2> QED
    BY <2>1, <2>2, <2>3
<1> QED
  BY <1>7, <1>8, <1>9 DEF EveryLineOnceInOrder

LEMMA OrderPreserved ==
  TypeInv /\ ReaderInv /\ EveryLineOnceInOrder /\ [Next]_vars => EveryLineOnceInOrder'
<1> SUFFICES ASSUME TypeInv, ReaderInv, EveryLineOnceInOrder, [Next]_vars
             PROVE  EveryLineOnceInOrder'
  OBVIOUS
<1> TypeInv'
  BY TypePreserved
<1>1. ASSUME NEW s \in Streams, NEW k \in Kinds, ChildWrites(s, k)
      PROVE  EveryLineOnceInOrder'
  <2>1. \A u \in Streams : \A n \in 1..Len(written[u]) : written'[u][n] = written[u][n]
    BY <1>1 DEF ChildWrites, TypeInv, TypeOK
  <2>2. Stream' = Stream /\ \A u \in Streams : Sent(u)' = Sent(u)
    BY <1>1 DEF ChildWrites, readerVars, callerVars, Stream, Sent
  <2> QED
    BY <2>1, <2>2, OrderStable
<1>2. ASSUME NEW s \in Streams, ReaderTakesLine(s) PROVE EveryLineOnceInOrder'
  <2>1. Stream' = Stream /\ \A u \in Streams : Sent(u)' = Sent(u)
    BY <1>2 DEF ReaderTakesLine, callerVars, Stream, Sent, TypeInv, TypeOK
  <2> QED
    BY <1>2, <2>1, OrderStable DEF ReaderTakesLine, childVars
<1>3. ASSUME NEW s \in Streams, ReaderSendsLine(s) PROVE EveryLineOnceInOrder'
  BY <1>3, OrderSend
<1>4. ASSUME NEW s \in Streams, ReaderEndsAtEof(s) PROVE EveryLineOnceInOrder'
  <2>1. Stream' = Stream /\ \A u \in Streams : Sent(u)' = Sent(u)
    BY <1>4 DEF ReaderEndsAtEof, callerVars, Stream, Sent, TypeInv, TypeOK
  <2> QED
    BY <1>4, <2>1, OrderStable DEF ReaderEndsAtEof, childVars
<1>5. ASSUME CallerGetsLine PROVE EveryLineOnceInOrder'
  <2>1. Stream' = Stream
    BY <1>5, StreamShift DEF CallerGetsLine, Stream, TypeInv, TypeOK
  <2>2. \A u \in Streams : Sent(u)' = Sent(u)
    BY <1>5 DEF CallerGetsLine, readerVars, Sent
  <2> QED
    BY <1>5, <2>1, <2>2, OrderStable DEF CallerGetsLine, childVars
<1>6. ASSUME UNCHANGED <<written, readerVars, chan, received>> PROVE EveryLineOnceInOrder'
  <2>1. Stream' = Stream /\ \A u \in Streams : Sent(u)' = Sent(u)
    BY <1>6 DEF readerVars, Stream, Sent
  <2> QED
    BY <1>6, <2>1, OrderStable
<1> QED
  BY <1>1, <1>2, <1>3, <1>4, <1>5, <1>6
  DEF Next, ChildStep, ReaderStep, WaiterStep, CallerStep, vars, childVars, callerVars,
      StreamCloses, ChildExits, Notify, SpawnJoin, ChildWait, JoinerExits, HeadReceives,
      HeadJoins, LinesEnd, WaitReturns
-----------------------------------------------------------------------------
(* The notices.                                                              *)

LEMMA NoticesPreserved ==
  TypeInv /\ NoticesAccounted /\ WaiterInv /\ [Next]_vars => NoticesAccounted'
<1> SUFFICES ASSUME TypeInv, NoticesAccounted, WaiterInv, [Next]_vars
             PROVE  NoticesAccounted'
  OBVIOUS
<1>t. /\ monitor \in Seq(Notices)
      /\ joiner \in [WaitTarget -> {"waiting", "notified", "exited"}]
      /\ waiters \in SUBSET WaitTarget
  BY DEF TypeInv, TypeOK
<1>m. /\ Len(monitor) \in Nat /\ DOMAIN monitor = 1..Len(monitor)
      /\ \A i \in DOMAIN monitor : monitor[i].id \in WaitTarget
  <2>1. \A i \in DOMAIN monitor : monitor[i] \in Notices
    BY <1>t
  <2> QED
    BY <1>t, <2>1 DEF Notices
<1>1. ASSUME NEW t \in WaitTarget, NEW r \in Statuses \cup {NoStatus}, Notify(t, r)
      PROVE  NoticesAccounted'
  <2>1. [id |-> t, result |-> r] \in Notices
    BY DEF Notices
  <2>2. /\ DOMAIN monitor' = 1..(Len(monitor) + 1)
        /\ \A i \in DOMAIN monitor : monitor'[i] = monitor[i]
        /\ monitor'[Len(monitor) + 1].id = t
    BY <1>1, <1>t, <2>1 DEF Notify
  <2>3. /\ joiner[t] = "waiting" /\ t \in waiters /\ waiters' = waiters
        /\ joiner' = [joiner EXCEPT ![t] = "notified"]
    BY <1>1 DEF Notify, NoticesAccounted, headVars
  <2>4. \A i \in DOMAIN monitor : monitor[i].id # t
    BY <2>3 DEF WaiterInv
  <2>5. \A i \in DOMAIN monitor' : i \in DOMAIN monitor \/ i = Len(monitor) + 1
    BY <1>m, <2>2
  <2>6. \A i, j \in DOMAIN monitor' : monitor'[i].id = monitor'[j].id => i = j
    BY <2>2, <2>4, <2>5 DEF NoticesAccounted
  <2>7. \A i \in DOMAIN monitor' : monitor'[i].id \in waiters'
    BY <2>2, <2>3, <2>5 DEF NoticesAccounted
  <2>8. ASSUME NEW u \in WaitTarget
        PROVE  u \in waiters' <=> \/ joiner'[u] = "waiting"
                                  \/ \E i \in DOMAIN monitor' : monitor'[i].id = u
    <3>1. CASE u = t
      <4>1. Len(monitor) + 1 \in DOMAIN monitor'
        BY <1>m, <2>2
      <4> QED
        BY <2>2, <2>3, <3>1, <4>1
    <3>2. CASE u # t
      <4>1. (\E i \in DOMAIN monitor' : monitor'[i].id = u)
               <=> (\E i \in DOMAIN monitor : monitor[i].id = u)
        BY <1>m, <2>2, <2>5, <3>2
      <4>2. joiner'[u] = joiner[u]
        BY <1>t, <2>3, <3>2
      <4> QED
        BY <2>3, <4>1, <4>2 DEF NoticesAccounted
    <3> QED
      BY <3>1, <3>2
  <2> QED
    BY <2>6, <2>7, <2>8 DEF NoticesAccounted
<1>2. ASSUME NEW s \in Streams, SpawnJoin(s) PROVE NoticesAccounted'
  BY <1>1, <1>2 DEF SpawnJoin, WaitTarget
<1>3. ASSUME ChildWait PROVE NoticesAccounted'
  BY <1>1, <1>3 DEF ChildWait, WaitTarget, TypeInv, TypeOK
<1>4. ASSUME NEW t \in WaitTarget, JoinerExits(t) PROVE NoticesAccounted'
  <2>1. \A u \in WaitTarget : joiner'[u] = "waiting" <=> joiner[u] = "waiting"
    BY <1>4, <1>t DEF JoinerExits
  <2>2. monitor' = monitor /\ waiters' = waiters
    BY <1>4 DEF JoinerExits, headVars
  <2> QED
    BY <2>1, <2>2 DEF NoticesAccounted
<1>5. ASSUME HeadReceives PROVE NoticesAccounted'
  <2> DEFINE t == monitor[1].id
  <2>1. /\ waiters' = waiters \ {t} /\ joiner' = joiner
        /\ DOMAIN monitor' = 1..(Len(monitor) - 1) /\ Len(monitor) > 0
        /\ \A i \in DOMAIN monitor' : monitor'[i] = monitor[i + 1]
    BY <1>5, <1>t, <1>m DEF HeadReceives
  <2>2. /\ 1 \in DOMAIN monitor
        /\ \A i \in DOMAIN monitor' : i + 1 \in DOMAIN monitor /\ i + 1 # 1
        /\ \A i \in DOMAIN monitor : i # 1 => i - 1 \in DOMAIN monitor' /\ (i - 1) + 1 = i
    BY <1>m, <2>1
  <2>3. joiner[t] # "waiting" /\ \A i \in DOMAIN monitor' : monitor'[i].id # t
    BY <2>1, <2>2 DEF NoticesAccounted, WaiterInv
  <2>4. \A i, j \in DOMAIN monitor' : monitor'[i].id = monitor'[j].id => i = j
    <3>1. ASSUME NEW i \in DOMAIN monitor', NEW j \in DOMAIN monitor',
                 monitor'[i].id = monitor'[j].id
          PROVE  i = j
      <4>1. i + 1 = j + 1
        BY SMTT(30), <2>1, <2>2, <3>1 DEF NoticesAccounted
      <4> QED
        BY <1>m, <2>1, <4>1
    <3> QED
      BY <3>1
  <2>5. \A i \in DOMAIN monitor' : monitor'[i].id \in waiters'
    BY <2>1, <2>2, <2>3 DEF NoticesAccounted
  <2>6. ASSUME NEW u \in WaitTarget
        PROVE  u \in waiters' <=> \/ joiner'[u] = "waiting"
                                  \/ \E i \in DOMAIN monitor' : monitor'[i].id = u
    <3>1. CASE u = t
      BY <2>1, <2>3, <3>1
    <3>2. CASE u # t
      <4>1. (\E i \in DOMAIN monitor' : monitor'[i].id = u)
               <=> (\E i \in DOMAIN monitor : monitor[i].id = u)
        <5>1. ASSUME NEW i \in DOMAIN monitor', monitor'[i].id = u
              PROVE  \E j \in DOMAIN monitor : monitor[j].id = u
          BY <2>1, <2>2, <5>1
        <5>2. ASSUME NEW i \in DOMAIN monitor, monitor[i].id = u
              PROVE  \E j \in DOMAIN monitor' : monitor'[j].id = u
          <6>1. i - 1 \in DOMAIN monitor' /\ (i - 1) + 1 = i
            BY <2>2, <3>2, <5>2
          <6>2. monitor'[i - 1] = monitor[(i - 1) + 1]
            BY <2>1, <6>1
          <6> QED
            BY <5>2, <6>1, <6>2
        <5> QED
          BY <5>1, <5>2
      <4> QED
        BY <2>1, <3>2, <4>1 DEF NoticesAccounted
    <3> QED
      BY <3>1, <3>2
  <2> QED
    BY <2>4, <2>5, <2>6 DEF NoticesAccounted
<1>6. ASSUME UNCHANGED <<joiner, monitor, waiters>> PROVE NoticesAccounted'
  BY <1>6 DEF NoticesAccounted
<1> QED
  BY <1>2, <1>3, <1>4, <1>5, <1>6
  DEF Next, ChildStep, ReaderStep, WaiterStep, CallerStep, vars, headVars, ChildWrites,
      StreamCloses, ChildExits, ReaderTakesLine, ReaderSendsLine, ReaderEndsAtEof,
      HeadJoins, CallerGetsLine, LinesEnd, WaitReturns
LEMMA WaiterPreserved ==
  TypeInv /\ NoticesAccounted /\ WaiterInv /\ [Next]_vars => WaiterInv'
<1> SUFFICES ASSUME TypeInv, NoticesAccounted, WaiterInv, [Next]_vars PROVE WaiterInv'
  OBVIOUS
<1>t. /\ monitor \in Seq(Notices)
      /\ joiner \in [WaitTarget -> {"waiting", "notified", "exited"}]
      /\ reader \in [Streams -> {"reading", "sending", "finished"}]
      /\ waiters \in SUBSET WaitTarget
      /\ exit \in Statuses \cup {NoStatus}
      /\ Streams \subseteq WaitTarget /\ "Child" \in WaitTarget
  BY DEF TypeInv, TypeOK, WaitTarget
<1>m. /\ Len(monitor) \in Nat /\ DOMAIN monitor = 1..Len(monitor)
      /\ \A i \in DOMAIN monitor : monitor[i].id \in WaitTarget
  <2>1. \A i \in DOMAIN monitor : monitor[i] \in Notices
    BY <1>t
  <2> QED
    BY <1>t, <2>1 DEF Notices
<1>1. ASSUME NEW st \in Statuses, ChildExits(st) PROVE WaiterInv'
  <2>1. \A i \in DOMAIN monitor : monitor[i].id # "Child"
    BY <1>1 DEF ChildExits, WaiterInv
  <2>2. "Child" \in waiters
    BY <1>1, <1>t DEF ChildExits, WaiterInv, NoticesAccounted
  <2> QED
    BY <1>1, <2>1, <2>2, StatusAssumption DEF ChildExits, WaiterInv, readerVars, headVars
<1>2. ASSUME NEW s \in Streams, ReaderStep(s) PROVE WaiterInv'
  <2>1. /\ \A u \in Streams : reader[u] = "finished" => reader'[u] = "finished"
        /\ UNCHANGED <<exit, joiner, monitor, headVars>>
    BY <1>2, <1>t DEF ReaderStep, ReaderTakesLine, ReaderSendsLine, ReaderEndsAtEof, childVars
  <2> QED
    BY <2>1 DEF WaiterInv, headVars
<1>3. ASSUME NEW t \in WaitTarget, NEW r \in Statuses \cup {NoStatus}, Notify(t, r),
             t = "Child" => exit # NoStatus /\ r = exit,
             t # "Child" => reader[t] = "finished"
      PROVE  WaiterInv'
  <2>1. [id |-> t, result |-> r] \in Notices
    BY DEF Notices
  <2>2. /\ DOMAIN monitor' = 1..(Len(monitor) + 1)
        /\ \A i \in DOMAIN monitor : monitor'[i] = monitor[i]
        /\ monitor'[Len(monitor) + 1] = [id |-> t, result |-> r]
    BY <1>3, <1>t, <2>1 DEF Notify
  <2>3. /\ joiner' = [joiner EXCEPT ![t] = "notified"]
        /\ UNCHANGED <<exit, reader, head, waiters, notice, status>>
    BY <1>3 DEF Notify, childVars, readerVars, headVars
  <2>4. /\ joiner'[t] = "notified"
        /\ \A u \in WaitTarget : u # t => joiner'[u] = joiner[u]
    BY <2>3, <1>t
  <2>5. \A i \in DOMAIN monitor' : i \in DOMAIN monitor \/ i = Len(monitor) + 1
    BY <1>m, <2>2
  <2>6. \A i \in DOMAIN monitor' :
          /\ joiner'[monitor'[i].id] # "waiting"
          /\ monitor'[i].id = "Child" => monitor'[i].result = exit'
    <3>1. \A i \in DOMAIN monitor :
            /\ joiner'[monitor[i].id] # "waiting"
            /\ monitor[i].id = "Child" => monitor[i].result = exit
      BY <1>m, <2>4 DEF WaiterInv
    <3> QED
      BY <1>3, <2>2, <2>3, <2>4, <2>5, <3>1
  <2>7. /\ \A s \in Streams : joiner'[s] # "waiting" => reader'[s] = "finished"
        /\ joiner'["Child"] # "waiting" => exit' # NoStatus
    BY <1>3, <1>t, <2>3, <2>4 DEF WaiterInv, WaitTarget, Streams
  <2> QED
    BY <2>3, <2>6, <2>7 DEF WaiterInv
<1>4. ASSUME NEW s \in Streams, SpawnJoin(s) PROVE WaiterInv'
  BY <1>3, <1>4 DEF SpawnJoin, WaitTarget, Streams
<1>5. ASSUME ChildWait PROVE WaiterInv'
  BY <1>3, <1>5, <1>t DEF ChildWait
<1>6. ASSUME NEW t \in WaitTarget, JoinerExits(t) PROVE WaiterInv'
  <2>1. \A u \in WaitTarget : joiner'[u] = "waiting" <=> joiner[u] = "waiting"
    BY <1>6, <1>t DEF JoinerExits
  <2>2. UNCHANGED <<exit, reader, monitor, head, waiters, notice, status>>
    BY <1>6 DEF JoinerExits, childVars, readerVars, headVars
  <2>3. \A i \in DOMAIN monitor : joiner'[monitor[i].id] # "waiting"
    BY <1>m, <2>1 DEF WaiterInv
  <2> QED
    BY <1>t, <2>1, <2>2, <2>3 DEF WaiterInv
<1>7. ASSUME HeadReceives PROVE WaiterInv'
  <2>1. /\ UNCHANGED <<exit, reader, joiner, status>>
        /\ head' = "joining" /\ notice' = monitor[1]
        /\ waiters' = waiters \ {monitor[1].id}
        /\ DOMAIN monitor' = 1..(Len(monitor) - 1) /\ Len(monitor) > 0
        /\ \A i \in DOMAIN monitor' : monitor'[i] = monitor[i + 1]
    BY <1>7, <1>t, <1>m DEF HeadReceives, childVars, readerVars
  <2>2. /\ 1 \in DOMAIN monitor
        /\ \A i \in DOMAIN monitor' : i + 1 \in DOMAIN monitor
    BY <1>m, <2>1
  <2>3. \A i \in DOMAIN monitor' :
          /\ joiner[monitor'[i].id] # "waiting"
          /\ monitor'[i].id = "Child" => monitor'[i].result = exit
    BY <2>1, <2>2 DEF WaiterInv
  <2>4. "Child" \notin waiters' =>
          \/ head' = "joining" /\ notice'.id = "Child"
          \/ status' = exit'
    BY <1>7, <2>1 DEF WaiterInv, HeadReceives
  <2>5. monitor[1].id = "Child" => monitor[1].result = exit
    BY <2>2 DEF WaiterInv
  <2> QED
    BY <2>1, <2>3, <2>4, <2>5 DEF WaiterInv
<1>8. ASSUME HeadJoins PROVE WaiterInv'
  BY <1>8 DEF HeadJoins, WaiterInv, childVars, readerVars
<1>9. ASSUME UNCHANGED <<exit, readerVars, joiner, monitor, headVars>> PROVE WaiterInv'
  BY <1>9 DEF WaiterInv, readerVars, headVars
<1> QED
  BY <1>1, <1>2, <1>4, <1>5, <1>6, <1>7, <1>8, <1>9
  DEF Next, ChildStep, WaiterStep, CallerStep, vars, childVars, ChildWrites, StreamCloses,
      CallerGetsLine, LinesEnd, WaitReturns

-----------------------------------------------------------------------------
(* The caller.                                                               *)

LEMMA CallerPreserved ==
  TypeInv /\ ReaderInv /\ NoticesAccounted /\ WaiterInv /\ CallerInv /\ [Next]_vars
    => CallerInv'
<1> SUFFICES ASSUME TypeInv, ReaderInv, NoticesAccounted, WaiterInv, CallerInv, [Next]_vars
             PROVE  CallerInv'
  OBVIOUS
<1> USE DEF CallerInv
<1>1. ASSUME NEW st \in Statuses, ChildExits(st) PROVE CallerInv'
  BY <1>1 DEF ChildExits, readerVars, callerVars
<1>2. ASSUME NEW s \in Streams, ReaderStep(s) PROVE CallerInv'
  BY <1>2 DEF ReaderStep, ReaderTakesLine, ReaderSendsLine, ReaderEndsAtEof, childVars,
              callerVars, TypeInv, TypeOK
<1>3. ASSUME CallerGetsLine PROVE CallerInv'
  BY <1>3 DEF CallerGetsLine, childVars, readerVars
<1>4. ASSUME LinesEnd PROVE CallerInv'
  BY <1>4 DEF LinesEnd, childVars, readerVars
<1>5. ASSUME WaitReturns PROVE CallerInv'
  <2>1. status = exit /\ exit # NoStatus
    BY <1>5 DEF WaitReturns, WaiterInv, NoticesAccounted, WaitTarget
  <2> QED
    BY <1>5, <2>1 DEF WaitReturns, childVars, readerVars
<1>6. ASSUME UNCHANGED <<exit, reader, chan, caller, result>> PROVE CallerInv'
  BY <1>6
<1> QED
  BY <1>1, <1>2, <1>3, <1>4, <1>5, <1>6
  DEF Next, ChildStep, WaiterStep, CallerStep, vars, childVars, readerVars, callerVars,
      ChildWrites, StreamCloses, Notify, SpawnJoin, ChildWait, JoinerExits, HeadReceives,
      HeadJoins

-----------------------------------------------------------------------------
(* The theorems.                                                             *)

\* All parts of Inv hold for ever.
THEOREM Invariance == Spec => []Inv
<1>1. Inv /\ [Next]_vars => Inv'
  BY TypePreserved, ReaderPreserved, OrderPreserved, NoticesPreserved, WaiterPreserved,
     CallerPreserved DEF Inv
<1> QED
  BY InitInv, <1>1, PTL DEF Spec

\* Both channels keep within their capacity (asynccmd.rs:19, 24).
THEOREM TypeCorrect == Spec => []TypeInv
<1>1. Inv => TypeInv
  BY DEF Inv
<1> QED
  BY Invariance, <1>1, PTL

\* The two reader threads and the channel lose, repeat and reorder no line of
\* a stream (reader_tx, asynccmd.rs:48), whatever the capacities.
THEOREM LinesDelivered == Spec => []EveryLineOnceInOrder
<1>1. Inv => EveryLineOnceInOrder
  BY DEF Inv
<1> QED
  BY Invariance, <1>1, PTL

\* The head waiter is never told of a target it does not wait for, and no
\* target is forgotten (asynccmd.rs:133-174).
THEOREM NoticesSound == Spec => []NoticesAccounted
<1>1. Inv => NoticesAccounted
  BY DEF Inv
<1> QED
  BY Invariance, <1>1, PTL

\* wait() returns the child's own status, after all of its output
\* (asynccmd.rs:188).
THEOREM StatusSound == Spec => []StatusAfterAllOutput
<1>1. Inv => StatusAfterAllOutput
  <2> SUFFICES ASSUME Inv, caller = "done" PROVE StatusAfterAllOutput
    BY DEF StatusAfterAllOutput
  <2>1. result = exit /\ exit # NoStatus /\ chan = <<>>
        /\ \A s \in Streams : reader[s] = "finished"
    BY DEF Inv, CallerInv
  <2>2. received \in Seq(Lines)
    BY DEF Inv, TypeInv, TypeOK
  <2>3. Stream = received
    BY <2>1, <2>2 DEF Stream
  <2>4. \A s \in Streams : ~open[s] /\ Sent(s) = Len(written[s])
    BY <2>1 DEF Inv, ReaderInv, Sent, TypeInv, TypeOK
  <2>5. ASSUME NEW s \in Streams, NEW n \in 1..Len(written[s])
        PROVE  \E i \in DOMAIN received : received[i] = LineOf(s, n)
    <3>1. PICK i \in DOMAIN received : received[i].stream = s /\ received[i].n = n
      BY <2>3, <2>4 DEF Inv, EveryLineOnceInOrder
    <3>2. PICK u \in Streams : \E m \in 1..Sent(u) : received[i] = LineOf(u, m)
      BY <2>3 DEF Inv, EveryLineOnceInOrder
    <3>3. received[i] = LineOf(s, n)
      BY <3>1, <3>2 DEF LineOf
    <3> QED
      BY <3>3
  <2> QED
    BY <2>1, <2>4, <2>5 DEF StatusAfterAllOutput
<1> QED
  BY Invariance, <1>1, PTL
-----------------------------------------------------------------------------
(* AsyncCmd implements CommandRun.                                           *)

\* The line at the front of the channel is the oldest undelivered line of its
\* stream.
LEMMA FrontIsNext ==
  ASSUME Inv, chan # <<>>
  PROVE  \E s \in Streams : \E n \in Promise!Undelivered(s) :
            /\ \A m \in Promise!Undelivered(s) : n <= m
            /\ Head(chan) = LineOf(s, n)
<1>t. received \in Seq(Lines) /\ chan \in Seq(Lines)
  BY DEF Inv, TypeInv, TypeOK
<1> DEFINE k == Len(received) + 1
<1>1. /\ DOMAIN received = 1..Len(received) /\ Len(received) \in Nat
      /\ k \in DOMAIN Stream /\ Stream[k] = Head(chan)
      /\ \A i \in DOMAIN received : i \in DOMAIN Stream /\ Stream[i] = received[i] /\ i < k
      /\ \A i \in DOMAIN Stream : i \in DOMAIN received \/ i = k \/ k < i
  BY <1>t DEF Stream
<1>2. PICK s \in Streams : \E n \in 1..Sent(s) : Stream[k] = LineOf(s, n)
  BY <1>1 DEF Inv, EveryLineOnceInOrder
<1>3. PICK n \in 1..Sent(s) : Stream[k] = LineOf(s, n)
  BY <1>2
<1> HIDE DEF k
<1>4. /\ Stream[k].stream = s /\ Stream[k].n = n
      /\ Sent(s) \in Nat /\ Sent(s) <= Len(written[s]) /\ Len(written[s]) \in Nat
  BY <1>3 DEF LineOf, Sent, Inv, ReaderInv, TypeInv, TypeOK
<1>5. n \in Promise!Undelivered(s)
  <2>1. ASSUME NEW i \in DOMAIN received, received[i].stream = s, received[i].n = n
        PROVE  FALSE
    BY <1>1, <1>3, <1>4, <2>1 DEF Inv, EveryLineOnceInOrder
  <2>2. n \in 1..Len(written[s])
    BY <1>3, <1>4
  <2> QED
    BY <2>1, <2>2 DEF Promise!Undelivered
<1>6. ASSUME NEW m \in Promise!Undelivered(s) PROVE n <= m
  <2>1. /\ m \in 1..Len(written[s])
        /\ \A i \in DOMAIN received : ~(received[i].stream = s /\ received[i].n = m)
    BY DEF Promise!Undelivered
  <2>2. SUFFICES ASSUME m < n PROVE FALSE
    BY <1>3, <1>4, <2>1
  <2>3. m \in 1..Sent(s)
    BY <1>3, <1>4, <2>1, <2>2
  <2>4. PICK i \in DOMAIN Stream : Stream[i].stream = s /\ Stream[i].n = m
    BY <2>3 DEF Inv, EveryLineOnceInOrder
  <2>5. i \notin DOMAIN received
    BY <1>1, <2>1, <2>4
  <2>6. CASE i = k
    BY <1>3, <1>4, <2>1, <2>2, <2>4, <2>6
  <2>7. CASE k < i
    <3>1. n < m
      BY <1>1, <1>4, <2>4, <2>7 DEF Inv, EveryLineOnceInOrder
    <3> QED
      BY <1>3, <2>1, <2>2, <3>1
  <2> QED
    BY <1>1, <2>5, <2>6, <2>7
<1> QED
  BY <1>1, <1>3, <1>5, <1>6

\* When the caller is in wait(), there is nothing left to deliver.
LEMMA AllDelivered ==
  ASSUME Inv, caller # "draining"
  PROVE  \A s \in Streams : ~open[s] /\ Promise!Undelivered(s) = {}
<1>1. chan = <<>> /\ \A s \in Streams : reader[s] = "finished"
  BY DEF Inv, CallerInv
<1>2. Stream = received
  BY <1>1 DEF Stream, Inv, TypeInv, TypeOK
<1>3. \A s \in Streams : ~open[s] /\ Sent(s) = Len(written[s])
  BY <1>1 DEF Inv, ReaderInv, Sent, TypeInv, TypeOK
<1> QED
  BY <1>2, <1>3 DEF Promise!Undelivered, Inv, EveryLineOnceInOrder

LEMMA StepSimulation == Inv /\ [Next]_vars => [Promise!Next]_(Promise!vars)
<1> SUFFICES ASSUME Inv, [Next]_vars PROVE [Promise!Next]_(Promise!vars)
  OBVIOUS
<1>1. ASSUME NEW s \in Streams, NEW k \in Kinds, ChildWrites(s, k) PROVE Promise!Next
  BY <1>1 DEF ChildWrites, callerVars, Promise!Next, Promise!Write
<1>2. ASSUME NEW s \in Streams, StreamCloses(s) PROVE Promise!Next
  BY <1>2 DEF StreamCloses, callerVars, Promise!Next, Promise!Close
<1>3. ASSUME NEW st \in Statuses, ChildExits(st) PROVE Promise!Next
  BY <1>3 DEF ChildExits, callerVars, Promise!Next, Promise!Exit
<1>4. ASSUME CallerGetsLine PROVE Promise!Next
  <2>1. PICK s \in Streams : \E n \in Promise!Undelivered(s) :
            /\ \A m \in Promise!Undelivered(s) : n <= m
            /\ Head(chan) = LineOf(s, n)
    BY <1>4, FrontIsNext DEF CallerGetsLine
  <2>2. \A n \in Nat : LineOf(s, n) = Promise!LogLine(s, n)
    BY DEF LineOf, Promise!LogLine
  <2>3. Promise!Undelivered(s) \subseteq Nat
    BY DEF Promise!Undelivered, Inv, TypeInv, TypeOK
  <2>4. Promise!Deliver(s)
    BY <1>4, <2>1, <2>2, <2>3 DEF CallerGetsLine, childVars, Promise!Deliver
  <2> QED
    BY <2>4 DEF Promise!Next
<1>5. ASSUME WaitReturns PROVE Promise!Next
  <2>1. status = exit /\ exit # NoStatus /\ result = NoStatus
    BY <1>5 DEF WaitReturns, Inv, WaiterInv, NoticesAccounted, CallerInv, WaitTarget
  <2>2. Promise!Report
    BY <1>5, <2>1, AllDelivered DEF WaitReturns, childVars, Promise!Report
  <2> QED
    BY <2>2 DEF Promise!Next
<1>6. ASSUME UNCHANGED <<childVars, received, result>> PROVE UNCHANGED Promise!vars
  BY <1>6 DEF childVars, Promise!vars
<1> QED
  BY <1>1, <1>2, <1>3, <1>4, <1>5, <1>6
  DEF Next, ChildStep, ReaderStep, WaiterStep, CallerStep, vars, callerVars,
      ReaderTakesLine, ReaderSendsLine, ReaderEndsAtEof, Notify, SpawnJoin, ChildWait,
      JoinerExits, HeadReceives, HeadJoins, LinesEnd

\* The threads and channels of asynccmd.rs implement CommandRun: the caller
\* sees a merge of the two streams and then the status.
THEOREM Refinement == Spec => RefinesCommandRun
<1>1. Init => Promise!Init
  BY DEF Init, Promise!Init
<1> QED
  BY <1>1, Invariance, StepSimulation, PTL DEF Spec, RefinesCommandRun, Promise!Spec
=============================================================================
