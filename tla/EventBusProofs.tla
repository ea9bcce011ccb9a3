--------------------------- MODULE EventBusProofs ---------------------------
(***************************************************************************)
(* The event stream, for every number of subscriptions, every queue and    *)
(* ring size: a subscriber gets every event or an exact count of what it   *)
(* missed, and the ring is the end of the log.                             *)
(*                                                                         *)
(* What a stream covers and which events are log events are recursive      *)
(* functions over a sequence.  The lemmas about them say what appending    *)
(* one element does, by induction over its length; the invariant then      *)
(* moves one event at a time.                                              *)
(***************************************************************************)
EXTENDS EventBus, Integers, FiniteSetTheorems,
        SequenceTheorems, TLAPS

-----------------------------------------------------------------------------
(* Induction and remainders *)

\* A set that holds 0 and with each number the next one holds them all: a
\* smallest number outside would have its predecessor outside.
LEMMA NatSetInduction ==
  ASSUME NEW S, 0 \in S, \A n \in Nat : n \in S => n + 1 \in S
  PROVE  Nat \subseteq S
<1> SUFFICES ASSUME NEW m \in Nat, m \notin S PROVE FALSE
  OBVIOUS
<1> DEFINE T == {1..n : n \in Nat \ S}
<1>1. IsWellFoundedOn(StrictSubsetOrdering(Nat), FiniteSubsetsOf(Nat))
  BY FS_StrictSubsetOrderingWellFounded
<1>2. T \subseteq FiniteSubsetsOf(Nat)
  <2>1. \A n \in Nat : IsFiniteSet(1..n) /\ 1..n \subseteq Nat
    BY FS_Interval
  <2> QED
    BY <2>1 DEF FiniteSubsetsOf
<1>3. T # {}
  OBVIOUS
<1>4. PICK x \in T : \A y \in T : ~(<<y, x>> \in StrictSubsetOrdering(Nat))
  <2> HIDE DEF T
  <2> QED
    BY <1>1, <1>2, <1>3, WFMin
<1>5. PICK n \in Nat \ S : x = 1..n
  OBVIOUS
<1>6. n - 1 \in Nat \ S /\ n # 0
  <2>1. n # 0
    OBVIOUS
  <2>2. n - 1 \in Nat /\ n - 1 + 1 = n
    BY <2>1
  <2> QED
    BY <2>1, <2>2
<1>7. 1..(n - 1) \subseteq 1..n /\ 1..(n - 1) # 1..n /\ 1..n \subseteq Nat
  <2>1. n \in 1..n /\ n \notin 1..(n - 1)
    BY <1>6
  <2> QED
    BY <2>1
<1>8. <<1..(n - 1), x>> \in StrictSubsetOrdering(Nat)
  BY <1>5, <1>7 DEF StrictSubsetOrdering
<1> QED
  BY <1>4, <1>6, <1>8

\* Positions of the ring are taken modulo its size, and never reach it twice.
LEMMA ModuloTwice ==
  \A x \in 0..(2 * HistorySize - 1) :
    x % HistorySize = IF x < HistorySize THEN x ELSE x - HistorySize
<1>1. HistorySize \in Nat \ {0}
  BY EventBusAssumption
<1> QED
  BY <1>1

-----------------------------------------------------------------------------
(* What the items of a stream stand for *)

\* f is the function whose last value is Covered(q).
IsCount(f, q) ==
  f = [k \in 0..Len(q) |-> IF k = 0 THEN 0 ELSE f[k - 1] + Weight(q[k])]

LEMMA WeightType ==
  ASSUME NEW e \in Items
  PROVE  Weight(e) \in Nat /\ e.n \in Nat
<1>1. e.n \in Numbers
  BY DEF Items
<1>2. Numbers \subseteq Nat
  BY EventBusAssumption DEF Numbers
<1> QED
  BY <1>1, <1>2 DEF Weight

\* Along a common beginning two streams count the same.
LEMMA CountAgrees ==
  ASSUME NEW q \in Seq(Items), NEW r \in Seq(Items), Len(q) <= Len(r),
         \A k \in 1..Len(q) : r[k] = q[k],
         NEW f, NEW g, IsCount(f, q), IsCount(g, r)
  PROVE  \A k \in 0..Len(q) : f[k] = g[k] /\ f[k] \in Nat
<1> DEFINE S == {k \in Nat : k \in 0..Len(q) => f[k] = g[k] /\ f[k] \in Nat}
<1>1. 0 \in S
  BY DEF IsCount
<1>2. ASSUME NEW n \in Nat, n \in S PROVE n + 1 \in S
  <2> SUFFICES ASSUME n + 1 \in 0..Len(q)
               PROVE  f[n + 1] = g[n + 1] /\ f[n + 1] \in Nat
    OBVIOUS
  <2>1. n \in 0..Len(q) /\ n + 1 \in 1..Len(q) /\ n + 1 \in 0..Len(r)
    OBVIOUS
  <2>2. f[n] = g[n] /\ f[n] \in Nat
    BY <1>2, <2>1
  <2>3. f[n + 1] = f[n] + Weight(q[n + 1])
    BY <2>1 DEF IsCount
  <2>4. g[n + 1] = g[n] + Weight(r[n + 1])
    BY <2>1 DEF IsCount
  <2>5. Weight(q[n + 1]) \in Nat
    <3>1. q[n + 1] \in Items
      BY <2>1
    <3> QED
      BY <3>1, WeightType
  <2> QED
    BY <2>1, <2>2, <2>3, <2>4, <2>5
<1>3. Nat \subseteq S
  <2> HIDE DEF S
  <2> QED
    BY <1>1, <1>2, NatSetInduction
<1> QED
  BY <1>3

\* The recursion defines a function.
LEMMA CountExists ==
  ASSUME NEW q \in Seq(Items)
  PROVE  \E f : IsCount(f, q)
<1> DEFINE Up(f, n) ==
      f = [k \in 0..n |-> IF k = 0 THEN 0 ELSE f[k - 1] + Weight(q[k])]
<1> DEFINE S == {n \in Nat : \E f : Up(f, n)}
<1>1. 0 \in S
  <2>1. Up([k \in 0..0 |-> 0], 0)
    OBVIOUS
  <2> QED
    BY <2>1
<1>2. ASSUME NEW n \in Nat, n \in S PROVE n + 1 \in S
  <2>1. PICK f : Up(f, n)
    BY <1>2
  <2> DEFINE g == [k \in 0..(n + 1) |->
        IF k = n + 1 THEN f[n] + Weight(q[n + 1]) ELSE f[k]]
  <2>2. \A k \in 0..(n + 1) :
          g[k] = IF k = 0 THEN 0 ELSE g[k - 1] + Weight(q[k])
    BY <2>1
  <2>3. Up(g, n + 1)
    BY <2>2
  <2>4. \E h : Up(h, n + 1)
    <3> HIDE DEF g
    <3> QED
      BY <2>3
  <2> HIDE DEF Up
  <2> QED
    BY <2>4
<1>3. Nat \subseteq S
  <2> HIDE DEF S
  <2> QED
    BY <1>1, <1>2, NatSetInduction
<1>4. Len(q) \in S
  BY <1>3
<1> QED
  BY <1>4 DEF IsCount

LEMMA CountChosen ==
  ASSUME NEW q \in Seq(Items)
  PROVE  \E f : IsCount(f, q) /\ Covered(q) = f[Len(q)]
<1> DEFINE f == CHOOSE f : IsCount(f, q)
<1>1. IsCount(f, q)
  BY CountExists
<1>2. Covered(q) = f[Len(q)]
  BY DEF Covered, IsCount
<1> QED
  BY <1>1, <1>2

\* One more item adds what it stands for.
LEMMA CoveredAppend ==
  ASSUME NEW q \in Seq(Items), NEW e \in Items
  PROVE  /\ Covered(q) \in Nat
         /\ Covered(Append(q, e)) = Covered(q) + Weight(e)
<1>1. PICK f : IsCount(f, q) /\ Covered(q) = f[Len(q)]
  BY CountChosen
<1>2. Append(q, e) \in Seq(Items)
  OBVIOUS
<1>3. PICK g : IsCount(g, Append(q, e))
               /\ Covered(Append(q, e)) = g[Len(Append(q, e))]
  BY <1>2, CountChosen
<1>4. /\ Len(q) \in Nat /\ Len(Append(q, e)) = Len(q) + 1
      /\ Append(q, e)[Len(q) + 1] = e
      /\ \A k \in 1..Len(q) : Append(q, e)[k] = q[k]
  OBVIOUS
<1>5. \A k \in 0..Len(q) : f[k] = g[k] /\ f[k] \in Nat
  <2>1. Len(q) <= Len(Append(q, e))
    BY <1>4
  <2> HIDE DEF IsCount
  <2> QED
    BY <1>1, <1>2, <1>3, <1>4, <2>1, CountAgrees
<1>6. g[Len(q) + 1] = g[Len(q)] + Weight(e)
  BY <1>3, <1>4 DEF IsCount
<1> QED
  BY <1>1, <1>3, <1>4, <1>5, <1>6

LEMMA CoveredEmpty == Covered(<<>>) = 0
<1>1. <<>> \in Seq(Items) /\ Len(<<>>) = 0
  OBVIOUS
<1>2. PICK f : IsCount(f, <<>>) /\ Covered(<<>>) = f[Len(<<>>)]
  BY <1>1, CountChosen
<1> QED
  BY <1>1, <1>2 DEF IsCount

-----------------------------------------------------------------------------
(* The log events among the published ones *)

\* f is the function whose last value is LogsOf(types).
IsLogs(f, types) ==
  f = [k \in 0..Len(types) |->
         IF k = 0 THEN <<>> ELSE WithLog(f[k - 1], types[k], k)]

\* Along a common beginning two sequences have the same log events.
LEMMA LogsAgree ==
  ASSUME NEW q \in Seq(Types), NEW r \in Seq(Types), Len(q) <= Len(r),
         \A k \in 1..Len(q) : r[k] = q[k],
         NEW f, NEW g, IsLogs(f, q), IsLogs(g, r)
  PROVE  \A k \in 0..Len(q) : f[k] = g[k] /\ f[k] \in Seq(1..Len(q))
<1> DEFINE S == {k \in Nat : k \in 0..Len(q) =>
                               f[k] = g[k] /\ f[k] \in Seq(1..Len(q))}
<1>1. 0 \in S
  <2>1. 0 \in 0..Len(q) /\ 0 \in 0..Len(r)
    OBVIOUS
  <2>2. f[0] = <<>> /\ g[0] = <<>>
    BY <2>1 DEF IsLogs
  <2>3. <<>> \in Seq(1..Len(q))
    OBVIOUS
  <2> QED
    BY <2>2, <2>3
<1>2. ASSUME NEW n \in Nat, n \in S PROVE n + 1 \in S
  <2> SUFFICES ASSUME n + 1 \in 0..Len(q)
               PROVE  f[n + 1] = g[n + 1] /\ f[n + 1] \in Seq(1..Len(q))
    OBVIOUS
  <2>1. n \in 0..Len(q) /\ n + 1 \in 1..Len(q) /\ n + 1 \in 0..Len(r)
    OBVIOUS
  <2>2. f[n] = g[n] /\ f[n] \in Seq(1..Len(q))
    BY <1>2, <2>1
  <2>3. f[n + 1] = WithLog(f[n], q[n + 1], n + 1)
    BY <2>1 DEF IsLogs
  <2>4. g[n + 1] = WithLog(g[n], r[n + 1], n + 1)
    BY <2>1 DEF IsLogs
  <2>5. q[n + 1] = r[n + 1]
    BY <2>1
  <2>6. WithLog(f[n], q[n + 1], n + 1) \in Seq(1..Len(q))
    <3>1. Append(f[n], n + 1) \in Seq(1..Len(q))
      BY <2>1, <2>2, AppendProperties
    <3> QED
      BY <2>2, <3>1 DEF WithLog
  <2> QED
    BY <2>2, <2>3, <2>4, <2>5, <2>6
<1>3. Nat \subseteq S
  <2> HIDE DEF S
  <2> QED
    BY <1>1, <1>2, NatSetInduction
<1> QED
  BY <1>3

\* The recursion defines a function.
LEMMA LogsExist ==
  ASSUME NEW types \in Seq(Types)
  PROVE  \E f : IsLogs(f, types)
<1> DEFINE Up(f, n) ==
      f = [k \in 0..n |->
             IF k = 0 THEN <<>> ELSE WithLog(f[k - 1], types[k], k)]
<1> DEFINE S == {n \in Nat : \E f : Up(f, n)}
<1>1. 0 \in S
  <2>1. Up([k \in 0..0 |-> <<>>], 0)
    OBVIOUS
  <2> QED
    BY <2>1
<1>2. ASSUME NEW n \in Nat, n \in S PROVE n + 1 \in S
  <2>1. PICK f : Up(f, n)
    BY <1>2
  <2> DEFINE last == WithLog(f[n], types[n + 1], n + 1)
  <2> DEFINE g == [k \in 0..(n + 1) |-> IF k = n + 1 THEN last ELSE f[k]]
  <2>2. \A k \in 0..(n + 1) :
          g[k] = IF k = 0 THEN <<>> ELSE WithLog(g[k - 1], types[k], k)
    BY <2>1
  <2>3. Up(g, n + 1)
    BY <2>2
  <2>4. \E h : Up(h, n + 1)
    <3> HIDE DEF g
    <3> QED
      BY <2>3
  <2> HIDE DEF Up
  <2> QED
    BY <2>4
<1>3. Nat \subseteq S
  <2> HIDE DEF S
  <2> QED
    BY <1>1, <1>2, NatSetInduction
<1>4. Len(types) \in S
  BY <1>3
<1> QED
  BY <1>4 DEF IsLogs

LEMMA LogsChosen ==
  ASSUME NEW types \in Seq(Types)
  PROVE  \E f : IsLogs(f, types) /\ LogsOf(types) = f[Len(types)]
<1> DEFINE f == CHOOSE f : IsLogs(f, types)
<1>1. IsLogs(f, types)
  BY LogsExist
<1>2. LogsOf(types) = f[Len(types)]
  BY DEF LogsOf, IsLogs
<1> QED
  BY <1>1, <1>2

\* One more event is one more log event or none.
LEMMA LogsAppend ==
  ASSUME NEW types \in Seq(Types), NEW type \in Types
  PROVE  /\ LogsOf(types) \in Seq(1..Len(types))
         /\ LogsOf(Append(types, type)) =
              IF type = "log" THEN Append(LogsOf(types), Len(types) + 1)
              ELSE LogsOf(types)
<1> DEFINE more == Append(types, type)
<1>1. PICK f : IsLogs(f, types) /\ LogsOf(types) = f[Len(types)]
  BY LogsChosen
<1>2. more \in Seq(Types)
  OBVIOUS
<1>3. PICK g : IsLogs(g, more) /\ LogsOf(more) = g[Len(more)]
  <2> HIDE DEF more
  <2> QED
    BY <1>2, LogsChosen
<1>4. /\ Len(types) \in Nat /\ Len(more) = Len(types) + 1
      /\ more[Len(types) + 1] = type
      /\ \A k \in 1..Len(types) : more[k] = types[k]
  OBVIOUS
<1>5. \A k \in 0..Len(types) : f[k] = g[k] /\ f[k] \in Seq(1..Len(types))
  <2>1. Len(types) <= Len(more)
    BY <1>4
  <2> HIDE DEF IsLogs, more
  <2> QED
    BY <1>1, <1>2, <1>3, <1>4, <2>1, LogsAgree
<1>6. g[Len(types) + 1] = WithLog(g[Len(types)], type, Len(types) + 1)
  <2> HIDE DEF more
  <2> QED
    BY <1>3, <1>4 DEF IsLogs
<1>7. /\ LogsOf(types) \in Seq(1..Len(types))
      /\ LogsOf(more) = WithLog(LogsOf(types), type, Len(types) + 1)
  <2> HIDE DEF more
  <2> QED
    BY <1>1, <1>3, <1>4, <1>5, <1>6
<1> QED
  BY <1>7 DEF WithLog

LEMMA LogsEmpty == LogsOf(<<>>) = <<>>
<1>1. <<>> \in Seq(Types) /\ Len(<<>>) = 0
  OBVIOUS
<1>2. PICK f : IsLogs(f, <<>>) /\ LogsOf(<<>>) = f[Len(<<>>)]
  BY <1>1, LogsChosen
<1> QED
  BY <1>1, <1>2 DEF IsLogs

-----------------------------------------------------------------------------
(* Streams *)

\* Live, for what was got, what is queued, and a snapshot of m items.
LiveOf(g, c, m) == SubSeq(g \o c, m + 1, Len(g \o c))

\* What is queued is added to the stream.
LEMMA LiveAppend ==
  ASSUME NEW g \in Seq(Items), NEW c \in Seq(Items), NEW e \in Items,
         NEW m \in Nat, m <= Len(g) + Len(c)
  PROVE  /\ LiveOf(g, c, m) \in Seq(Items)
         /\ LiveOf(g, Append(c, e), m) = Append(LiveOf(g, c, m), e)
<1> DEFINE all == g \o c
<1>1. all \in Seq(Items) /\ Len(all) = Len(g) + Len(c)
  OBVIOUS
<1>2. g \o Append(c, e) = Append(all, e)
  OBVIOUS
<1>3. /\ SubSeq(all, m + 1, Len(all)) \in Seq(Items)
      /\ SubSeq(Append(all, e), m + 1, Len(Append(all, e)))
           = Append(SubSeq(all, m + 1, Len(all)), e)
  <2> HIDE DEF all
  <2> DEFINE part == SubSeq(all, m + 1, Len(all))
             longer == Append(all, e)
             rest == SubSeq(longer, m + 1, Len(all) + 1)
  <2>1. Len(all) \in Nat /\ m <= Len(all)
    BY <1>1
  <2>2. \A i \in (m + 1)..Len(all) : all[i] \in Items
    BY <1>1, <2>1
  <2>3. part \in Seq(Items)
    BY <1>1, <2>1, <2>2, SubSeqProperties
  <2>4. /\ longer \in Seq(Items) /\ Len(longer) = Len(all) + 1
        /\ \A i \in 1..Len(all) : longer[i] = all[i]
        /\ longer[Len(all) + 1] = e
    BY <1>1, AppendProperties
  <2>5. /\ Len(part) = Len(all) - m
        /\ \A i \in 1..(Len(all) - m) : part[i] = all[m + i]
    BY <2>1, <2>2, SubSeqProperties, SMTT(30)
  <2>6. /\ rest \in Seq(Items) /\ Len(rest) = Len(all) - m + 1
        /\ \A i \in 1..(Len(all) - m + 1) : rest[i] = longer[m + i]
    <3>1. \A i \in (m + 1)..(Len(all) + 1) : longer[i] \in Items
      BY <2>1, <2>4
    <3> HIDE DEF longer
    <3> QED
      BY <2>1, <3>1, SubSeqProperties
  <2>7. /\ Append(part, e) \in Seq(Items)
        /\ Len(Append(part, e)) = Len(all) - m + 1
        /\ \A i \in 1..(Len(all) - m) : Append(part, e)[i] = part[i]
        /\ Append(part, e)[Len(all) - m + 1] = e
    <3> HIDE DEF part
    <3> QED
      BY <2>3, <2>5, AppendProperties
  <2>8. \A i \in 1..(Len(all) - m + 1) : rest[i] = Append(part, e)[i]
    <3> SUFFICES ASSUME NEW i \in 1..(Len(all) - m + 1)
                 PROVE  rest[i] = Append(part, e)[i]
      OBVIOUS
    <3>1. CASE i \in 1..(Len(all) - m)
      <4>1. m + i \in 1..Len(all)
        BY <2>1, <3>1
      <4> HIDE DEF part, longer, rest
      <4> QED
        BY <2>4, <2>5, <2>6, <2>7, <3>1, <4>1
    <3>2. CASE i = Len(all) - m + 1
      <4>1. m + i = Len(all) + 1
        BY <2>1, <3>2
      <4> HIDE DEF part, longer, rest
      <4> QED
        BY <2>4, <2>6, <2>7, <3>2, <4>1
    <3> QED
      BY <2>1, <3>1, <3>2
  <2>9. rest = Append(part, e)
    <3> HIDE DEF part, rest
    <3> QED
      BY <2>6, <2>7, <2>8, SeqEqual
  <2> QED
    BY <2>3, <2>4, <2>9
<1> QED
  BY <1>2, <1>3 DEF LiveOf

\* What is received stays in the stream.
LEMMA LiveMoves ==
  ASSUME NEW g \in Seq(Items), NEW c \in Seq(Items), NEW m \in Nat, c # <<>>
  PROVE  LiveOf(Append(g, Head(c)), Tail(c), m) = LiveOf(g, c, m)
<1>1. Append(g, Head(c)) \o Tail(c) = g \o c
  OBVIOUS
<1> QED
  BY <1>1 DEF LiveOf

\* A new subscription has its snapshot only.
LEMMA LiveFresh ==
  ASSUME NEW c \in Seq(Items)
  PROVE  LiveOf(<<>>, c, Len(c)) = <<>>
  BY DEF LiveOf

\* Each event of q comes right after those that q covers before it.
NoGaps(types, q, base) ==
  \A i \in 1..Len(q) :
    q[i].type # "dropped" =>
      /\ q[i].n = base + Covered(SubSeq(q, 1, i))
      /\ q[i].n \in 1..Len(types)
      /\ q[i].type = types[q[i].n]

\* A stream stays without gaps if a drop marker comes next, or the event right
\* after what it covers.
LEMMA NoGapsAppend ==
  ASSUME NEW types, NEW q \in Seq(Items), NEW e \in Items, NEW base \in Nat,
         NoGaps(types, q, base),
         \/ e.type = "dropped"
         \/ /\ e.n = base + Covered(q) + 1
            /\ e.n \in 1..Len(types) /\ e.type = types[e.n]
  PROVE  NoGaps(types, Append(q, e), base)
<1> DEFINE r == Append(q, e)
<1>1. Len(r) = Len(q) + 1 /\ r[Len(r)] = e /\ Len(q) \in Nat
  OBVIOUS
<1>2. \A i \in 1..Len(q) : r[i] = q[i] /\ SubSeq(r, 1, i) = SubSeq(q, 1, i)
  OBVIOUS
<1>3. SubSeq(r, 1, Len(r)) = r
  OBVIOUS
<1>4. e.type # "dropped" => Covered(r) = Covered(q) + 1
  BY CoveredAppend DEF Weight
<1>5. Covered(q) \in Nat
  BY CoveredAppend
<1> SUFFICES ASSUME NEW i \in 1..Len(r), r[i].type # "dropped"
             PROVE  /\ r[i].n = base + Covered(SubSeq(r, 1, i))
                    /\ r[i].n \in 1..Len(types)
                    /\ r[i].type = types[r[i].n]
  BY DEF NoGaps
<1>6. CASE i \in 1..Len(q)
  <2> HIDE DEF r
  <2> QED
    BY <1>2, <1>6 DEF NoGaps
<1>7. CASE i = Len(r)
  <2>1. r[i] = e /\ SubSeq(r, 1, i) = r
    BY <1>1, <1>3, <1>7
  <2>2. e.n = base + (Covered(q) + 1)
    BY <1>1, <1>5, <1>7
  <2> HIDE DEF r
  <2> QED
    BY <1>4, <2>1, <2>2
<1> QED
  BY <1>1, <1>6, <1>7

\* Events that are published later change nothing for those in the stream.
LEMMA NoGapsLonger ==
  ASSUME NEW types \in Seq(Types), NEW type \in Types, NEW q, NEW base,
         NoGaps(types, q, base)
  PROVE  NoGaps(Append(types, type), q, base)
<1>1. \A i \in 1..Len(types) : Append(types, type)[i] = types[i]
  OBVIOUS
<1>2. 1..Len(types) \subseteq 1..Len(Append(types, type))
  OBVIOUS
<1> QED
  BY <1>1, <1>2 DEF NoGaps
-----------------------------------------------------------------------------
(* The inductive invariant *)

Marks == 0..MaxEvents

BusTypes ==
  /\ published \in Seq(Types) /\ Len(published) <= MaxEvents
  /\ busState \in Marks /\ busPorts \in Marks
  /\ history \in [0..(HistorySize - 1) -> Marks]
  /\ next \in 0..(HistorySize - 1) /\ full \in BOOLEAN /\ closed \in BOOLEAN
  /\ subs \subseteq Subs

\* The ring holds the newest log events: those before next are the last ones
\* written, those from next on the ones before, once it is full.
Ring(h, at, wrapped, logs) ==
  /\ IF wrapped THEN HistorySize <= Len(logs) ELSE at = Len(logs)
  /\ \A i \in 0..(HistorySize - 1) :
       /\ i < at => h[i] = logs[Len(logs) - at + i + 1]
       /\ i >= at /\ wrapped =>
            h[i] = logs[Len(logs) - at - HistorySize + i + 1]

RingInv ==
  /\ LogsOf(published) \in Seq(Numbers)
  /\ Ring(history, next, full, LogsOf(published))

SubTypes ==
  /\ ch \in [Subs -> Seq(Items)] /\ got \in [Subs -> Seq(Items)]
  /\ cap \in [Subs -> Nat] /\ snapshot \in [Subs -> Nat]
  /\ chClosed \in [Subs -> BOOLEAN]
  /\ dropped \in [Subs -> Marks]
  /\ handler \in [Subs -> {"none", "streaming", "ended", "left"}]
  /\ follow \in [Subs -> BOOLEAN] /\ since \in [Subs -> Marks]

\* A subscription's channel keeps its bound, and what it has lost is no more
\* than what was published.  Nothing is known of one that is not made yet.
ChannelInv ==
  \A s \in Subs :
    /\ Len(ch[s]) <= cap[s]
    /\ dropped[s] <= Len(published)
    /\ snapshot[s] <= Len(got[s]) + Len(ch[s])
    /\ s \in subs => handler[s] = "streaming" /\ ~chClosed[s]
    /\ handler[s] = "none" =>
         ch[s] = <<>> /\ got[s] = <<>> /\ snapshot[s] = 0 /\ dropped[s] = 0

\* NoSilentGap, and that events in a stream have been published.
StreamInv ==
  \A s \in Subs :
    /\ NoGaps(published, Live(s), since[s])
    /\ s \in subs =>
         since[s] + Covered(Live(s)) + dropped[s] = Len(published)

BusInv == BusTypes /\ RingInv /\ SubTypes /\ ChannelInv /\ StreamInv

-----------------------------------------------------------------------------
\* Writing one log event: before, at and after the place it goes to.
LEMMA RingWrites ==
  ASSUME NEW logs \in Seq(Numbers), NEW n \in Numbers,
         BusTypes, Ring(history, next, full, logs), RemembersLog(n)
  PROVE  /\ Ring(history', next', full', Append(logs, n))
         /\ history' \in [0..(HistorySize - 1) -> Marks]
         /\ next' \in 0..(HistorySize - 1) /\ full' \in BOOLEAN
<1> DEFINE more == Append(logs, n)
<1>1. /\ HistorySize \in Nat \ {0} /\ Len(logs) \in Nat
      /\ next \in Nat /\ next < HistorySize
  BY EventBusAssumption DEF BusTypes
<1>2. next' = IF next + 1 < HistorySize THEN next + 1 ELSE 0
  <2>1. next + 1 \in 0..(2 * HistorySize - 1)
    BY <1>1
  <2>2. next' = (next + 1) % HistorySize
    BY DEF RemembersLog
  <2>3. (next + 1) % HistorySize = IF next + 1 < HistorySize THEN next + 1
                                   ELSE next + 1 - HistorySize
    <3> HIDE DEF more
    <3>1. \A x \in 0..(2 * HistorySize - 1) : x = next + 1 =>
            x % HistorySize = IF x < HistorySize THEN x ELSE x - HistorySize
      BY ModuloTwice
    <3> QED
      BY <1>1, <2>1, <3>1
  <2> QED
    BY <1>1, <2>2, <2>3
<1>3. full' = (full \/ next' = 0)
  BY DEF RemembersLog
<1>4. /\ Len(more) = Len(logs) + 1 /\ more[Len(logs) + 1] = n
      /\ \A i \in 1..Len(logs) : more[i] = logs[i]
  BY AppendProperties
<1>5. history' = [history EXCEPT ![next] = n]
  BY DEF RemembersLog
<1>6. n \in Marks
  BY EventBusAssumption DEF Numbers, Marks
<1>7. history' \in [0..(HistorySize - 1) -> Marks]
  BY <1>5, <1>6 DEF BusTypes
<1>8. next' \in 0..(HistorySize - 1)
  BY <1>1, <1>2
<1>9. full' \in BOOLEAN
  BY <1>3 DEF BusTypes
<1>10. Ring(history', next', full', more)
  <2> HIDE DEF more
  <2>1. next <= Len(logs) /\ (full => HistorySize <= Len(logs))
    BY <1>1 DEF Ring
  <2>2. IF full' THEN HistorySize <= Len(more) ELSE next' = Len(more)
    <3>1. CASE next + 1 < HistorySize
      <4>0. next' # 0
        BY <1>1, <1>2, <3>1
      <4>1. full' => full
        BY <1>3, <4>0
      <4>2. ~full' => ~full
        BY <1>3
      <4>3. next' = Len(more) <=> next = Len(logs)
        BY <1>1, <1>2, <1>4, <3>1
      <4> QED
        BY <1>1, <1>4, <2>1, <4>1, <4>2, <4>3 DEF Ring
    <3>2. CASE ~(next + 1 < HistorySize)
      <4>1. HistorySize <= Len(logs) + 1
        BY <1>1, <2>1, <3>2
      <4> QED
        BY <1>1, <1>2, <1>3, <1>4, <3>2, <4>1
    <3> QED
      BY <3>1, <3>2
  <2>3. ASSUME NEW i \in 0..(HistorySize - 1)
        PROVE  /\ i < next' => history'[i] = more[Len(more) - next' + i + 1]
               /\ i >= next' /\ full' =>
                    history'[i] = more[Len(more) - next' - HistorySize + i + 1]
    <3>1. history'[i] = IF i = next THEN n ELSE history[i]
      BY <1>5 DEF BusTypes
    <3>2. /\ i < next => history[i] = logs[Len(logs) - next + i + 1]
          /\ i >= next /\ full =>
               history[i] = logs[Len(logs) - next - HistorySize + i + 1]
      BY DEF Ring
    <3>3. CASE i = next
      <4>1. history'[i] = more[Len(more)]
        BY <1>4, <3>1, <3>3
      <4>2. i < next' => Len(more) - next' + i + 1 = Len(more)
        BY <1>1, <1>2, <1>4, <3>3
      <4>3. i >= next' => Len(more) - next' - HistorySize + i + 1 = Len(more)
        BY <1>1, <1>2, <1>4, <3>3
      <4> QED
        BY <4>1, <4>2, <4>3
    <3>4. CASE i < next
      <4> DEFINE k == Len(logs) - next + i + 1
      <4>1. k \in 1..Len(logs)
        BY <1>1, <2>1, <3>4
      <4>2. history'[i] = more[k]
        BY <1>4, <3>1, <3>2, <3>4, <4>1
      <4>3. i < next' => Len(more) - next' + i + 1 = k
        BY <1>1, <1>2, <1>4, <3>4
      <4>4. i >= next' => Len(more) - next' - HistorySize + i + 1 = k
        BY <1>1, <1>2, <1>4, <3>4
      <4> HIDE DEF k
      <4> QED
        BY <4>2, <4>3, <4>4
    <3>5. CASE i > next
      <4>1. next' = next + 1 /\ i >= next'
        BY <1>1, <1>2, <3>5
      <4>6. next' # 0
        BY <1>1, <4>1
      <4>5. full' => full
        BY <1>3, <4>6
      <4>2. SUFFICES ASSUME full
                     PROVE  history'[i] =
                              more[Len(more) - next' - HistorySize + i + 1]
        BY <1>1, <4>1, <4>5
      <4> DEFINE k == Len(logs) - next - HistorySize + i + 1
      <4>3. k \in 1..Len(logs) /\ Len(more) - next' - HistorySize + i + 1 = k
        BY <1>1, <1>4, <2>1, <3>5, <4>1, <4>2
      <4>4. history'[i] = more[k]
        <5>1. i # next /\ i >= next
          BY <1>1, <3>5
        <5>2. history'[i] = logs[k]
          BY <3>1, <3>2, <4>2, <5>1
        <5> QED
          BY <1>4, <4>3, <5>2
      <4> HIDE DEF k
      <4> QED
        BY <4>3, <4>4
    <3> QED
      BY <1>1, <3>3, <3>4, <3>5
  <2> QED
    BY <2>2, <2>3 DEF Ring
<1> QED
  BY <1>7, <1>8, <1>9, <1>10

\* Reading the ring from the start that recentLocked computes gives the last m
\* log events, on either side of the wrap.
LEMMA RecentIsLast ==
  ASSUME BusTypes, NEW logs \in Seq(Numbers), Ring(history, next, full, logs),
         NEW n \in Nat, n <= HistorySize, NEW m \in Nat,
         m <= n, m <= Len(logs), m = n \/ m = Len(logs)
  PROVE  /\ Recent(n) \in Seq(Numbers)
         /\ Recent(n) = SubSeq(logs, Len(logs) - m + 1, Len(logs))
<1>1. /\ HistorySize \in Nat /\ HistorySize > 0
      /\ next \in Nat /\ next < HistorySize
  BY EventBusAssumption DEF BusTypes
<1>2. Len(logs) \in Nat
  OBVIOUS
<1>3. full => HistorySize <= Len(logs)
  BY DEF Ring
<1>4. ~full => next = Len(logs)
  BY DEF Ring
<1> DEFINE count == IF full THEN HistorySize ELSE next
           start == (next + HistorySize - m) % HistorySize
<1>5. m = IF n > count THEN count ELSE n
  BY <1>1, <1>2, <1>3, <1>4
<1>6. m \in Nat /\ m <= HistorySize /\ m <= Len(logs)
  BY <1>1, <1>2
<1>13. m > next => full
  BY <1>1, <1>2, <1>4
<1>7. Recent(n) = [i \in 1..m |-> history[(start + i - 1) % HistorySize]]
  BY <1>5 DEF Recent
<1>8. start = IF m > next THEN next + HistorySize - m ELSE next - m
  <2>1. next + HistorySize - m \in 0..(2 * HistorySize - 1)
    BY <1>1, <1>6
  <2> QED
    BY <1>1, <1>6, <2>1, ModuloTwice
<1> HIDE DEF start
<1>14. start \in Nat
  BY <1>1, <1>6, <1>8
<1>9. ASSUME NEW i \in 1..m
      PROVE  history[(start + i - 1) % HistorySize] = logs[Len(logs) - m + i]
  <2>0. i \in Nat /\ 1 <= i /\ i <= m
    BY <1>6
  <2>1. start + i - 1 \in 0..(2 * HistorySize - 1)
    BY <1>1, <1>6, <1>8
  <2>2. (start + i - 1) % HistorySize =
          IF start + i - 1 < HistorySize THEN start + i - 1
          ELSE start + i - 1 - HistorySize
    BY <1>1, <1>14, <2>0, <2>1, ModuloTwice
  <2>3. CASE m <= next \/ i > m - next
    <3>1. (start + i - 1) % HistorySize = next - m + i - 1
      BY <1>1, <1>6, <1>8, <2>2, <2>3
    <3>2. next - m + i - 1 \in 0..(HistorySize - 1) /\ next - m + i - 1 < next
      BY <1>1, <1>6, <2>3
    <3>3. history[next - m + i - 1] =
            logs[Len(logs) - next + (next - m + i - 1) + 1]
      BY <3>2 DEF Ring
    <3>4. Len(logs) - next + (next - m + i - 1) + 1 = Len(logs) - m + i
      BY <1>1, <1>2, <1>6
    <3> QED
      BY <3>1, <3>3, <3>4
  <2>4. CASE m > next /\ i <= m - next
    <3> DEFINE k == next + HistorySize - m + i - 1
    <3>1. (start + i - 1) % HistorySize = k
      BY <1>1, <1>6, <1>8, <2>2, <2>4
    <3>2. k \in 0..(HistorySize - 1) /\ k >= next
      BY <1>1, <1>6, <2>4
    <3>3. Len(logs) - next - HistorySize + k + 1 = Len(logs) - m + i
      BY <1>1, <1>2, <1>6
    <3> HIDE DEF k
    <3>4. history[k] = logs[Len(logs) - next - HistorySize + k + 1]
      BY <1>13, <2>4, <3>2 DEF Ring
    <3> QED
      BY <3>1, <3>3, <3>4
  <2> QED
    BY <1>1, <1>6, <2>3, <2>4
<1> DEFINE last == SubSeq(logs, Len(logs) - m + 1, Len(logs))
<1>10. /\ last \in Seq(Numbers) /\ Len(last) = m
       /\ \A i \in 1..m : last[i] = logs[Len(logs) - m + i]
  <2>1. /\ Len(logs) - m + 1 \in Int /\ Len(logs) \in Int
        /\ \A i \in (Len(logs) - m + 1)..Len(logs) : logs[i] \in Numbers
    BY <1>2, <1>6
  <2>2. /\ last \in Seq(Numbers)
        /\ Len(last) = IF Len(logs) - m + 1 <= Len(logs)
                       THEN Len(logs) - (Len(logs) - m + 1) + 1 ELSE 0
        /\ \A i \in 1..(Len(logs) - (Len(logs) - m + 1) + 1) :
             last[i] = logs[Len(logs) - m + 1 + i - 1]
    BY <2>1, SubSeqProperties
  <2>3. Len(logs) - (Len(logs) - m + 1) + 1 = m
    BY <1>2, <1>6
  <2>4. \A i \in 1..m : Len(logs) - m + 1 + i - 1 = Len(logs) - m + i
    BY <1>2, <1>6
  <2>5. \A i \in 1..m : last[i] = logs[Len(logs) - m + 1 + i - 1]
    BY <2>2, <2>3
  <2>6. Len(logs) - m + 1 <= Len(logs) \/ m = 0
    BY <1>2, <1>6
  <2>7. Len(last) = m
    <3> HIDE DEF last
    <3> QED
      BY <1>2, <1>6, <2>2, <2>3, <2>6
  <2> HIDE DEF last
  <2> QED
    BY <2>2, <2>4, <2>5, <2>7
<1>11. Recent(n) = [i \in 1..m |-> last[i]]
  <2> HIDE DEF last
  <2> QED
    BY <1>7, <1>9, <1>10
<1>12. last = [i \in 1..m |-> last[i]]
  <2> HIDE DEF last
  <2> QED
    BY <1>10
<1> QED
  BY <1>10, <1>11, <1>12

-----------------------------------------------------------------------------
(* Publishing *)

\* What offer makes of a channel and its count: nothing fits, only the marker
\* fits, the event fits with nothing to mark, both fit.
Outcome(s, e, q, lost) ==
  \/ q = ch[s] /\ lost = dropped[s] + 1
  \/ /\ dropped[s] > 0 /\ Len(ch[s]) < cap[s]
     /\ q = Append(ch[s], Dropped(dropped[s])) /\ lost = 1
  \/ /\ dropped[s] = 0 /\ Len(ch[s]) < cap[s]
     /\ q = Append(ch[s], e) /\ lost = 0
  \/ /\ dropped[s] > 0 /\ Len(ch[s]) + 1 < cap[s]
     /\ q = Append(Append(ch[s], Dropped(dropped[s])), e) /\ lost = 0

\* The four outcomes are offer's.
LEMMA OfferOutcome ==
  ASSUME SubTypes, NEW s \in Subs, NEW e
  PROVE  Outcome(s, e, Offer(s, e).ch, Offer(s, e).dropped)
<1>1. ch[s] \in Seq(Items) /\ cap[s] \in Nat /\ dropped[s] \in Nat
  BY EventBusAssumption DEF SubTypes, Marks
<1>2. Len(ch[s]) \in Nat
  BY <1>1
<1>3. \A x : Len(Append(ch[s], x)) = Len(ch[s]) + 1
  BY <1>1
<1>4. CASE Len(ch[s]) >= cap[s]
  BY <1>4 DEF Outcome, Offer
<1>5. CASE Len(ch[s]) < cap[s] /\ dropped[s] = 0
  BY <1>1, <1>2, <1>5 DEF Outcome, Offer
<1>6. CASE Len(ch[s]) < cap[s] /\ dropped[s] > 0
  BY <1>1, <1>2, <1>3, <1>6 DEF Outcome, Offer
<1> QED
  BY <1>1, <1>2, <1>4, <1>5, <1>6

\* Sums the solvers need to be told of.
LEMMA Longer ==
  ASSUME NEW a \in Nat, NEW b \in Nat, NEW c \in Nat, NEW d \in Nat,
         a <= b + c, c <= d
  PROVE  a <= b + d
  OBVIOUS

LEMMA Passes ==
  ASSUME NEW a \in Nat, NEW b \in Nat
  PROVE  (a + 1) + (b - 1) = a + b
  OBVIOUS

\* a is where a stream starts, b what it covers, c what it lost, d all there is.
LEMMA Counts ==
  ASSUME NEW a \in Nat, NEW b \in Nat, NEW c \in Nat, NEW d \in Nat,
         NEW covered \in Nat, NEW lost \in Nat, a + b + c = d,
         \/ covered = b /\ lost = c + 1
         \/ covered = b + c /\ lost = 1
         \/ covered = b + 1 /\ c = 0 /\ lost = 0
  PROVE  a + covered + lost = d + 1
  OBVIOUS

LEMMA CountsMarker ==
  ASSUME NEW a \in Nat, NEW b \in Nat, NEW c \in Nat, NEW d \in Nat,
         NEW told \in Nat, NEW covered \in Nat,
         a + b + c = d, told = b + c, covered = told + 1
  PROVE  a + covered = d + 1
  OBVIOUS

\* What one subscription is offered.
LEMMA OfferKeeps ==
  ASSUME BusTypes, SubTypes, ChannelInv, StreamInv, NEW s \in Subs, s \in subs,
         NEW type \in Types, Len(published) + 1 \in Numbers,
         NEW q, NEW lost,
         Outcome(s, Ev(Len(published) + 1, type), q, lost)
  PROVE  /\ q \in Seq(Items) /\ lost \in Marks
         /\ Len(q) <= cap[s] /\ lost <= Len(published) + 1
         /\ snapshot[s] <= Len(got[s]) + Len(q)
         /\ NoGaps(Append(published, type), LiveOf(got[s], q, snapshot[s]),
                   since[s])
         /\ since[s] + Covered(LiveOf(got[s], q, snapshot[s])) + lost
              = Len(published) + 1
<1> DEFINE n == Len(published) + 1
           e == Ev(n, type)
           marker == Dropped(dropped[s])
           types == Append(published, type)
           live == LiveOf(got[s], ch[s], snapshot[s])
<1>1. /\ n \in Nat /\ n = Len(published) + 1 /\ Len(published) \in Nat
      /\ n <= MaxEvents /\ MaxEvents \in Nat
  BY EventBusAssumption DEF BusTypes, Numbers
<1>2. /\ e \in Items /\ e.n = n /\ e.type = type /\ type # "dropped"
  BY DEF Ev, Items, Types
<1>3. types \in Seq(Types) /\ Len(types) = n /\ types[n] = type
  BY DEF BusTypes
<1>16. ch[s] \in Seq(Items) /\ got[s] \in Seq(Items)
  BY DEF SubTypes
<1>4. /\ cap[s] \in Nat /\ snapshot[s] \in Nat /\ dropped[s] \in Nat
      /\ since[s] \in Nat /\ Len(ch[s]) \in Nat /\ Len(got[s]) \in Nat
  BY <1>16, EventBusAssumption DEF SubTypes, Marks
<1>5. /\ Len(ch[s]) <= cap[s] /\ dropped[s] <= Len(published)
      /\ snapshot[s] <= Len(got[s]) + Len(ch[s])
  BY DEF ChannelInv
<1>6. /\ live \in Seq(Items)
      /\ \A x \in Items : LiveOf(got[s], Append(ch[s], x), snapshot[s])
                            = Append(live, x)
  <2>1. ch[s] \in Seq(Items) /\ got[s] \in Seq(Items) /\ snapshot[s] \in Nat
        /\ snapshot[s] <= Len(got[s]) + Len(ch[s])
    BY <1>4, <1>5, <1>16
  <2>2. ASSUME NEW x \in Items
        PROVE  /\ LiveOf(got[s], ch[s], snapshot[s]) \in Seq(Items)
               /\ LiveOf(got[s], Append(ch[s], x), snapshot[s])
                    = Append(LiveOf(got[s], ch[s], snapshot[s]), x)
    BY ONLY <2>1, <2>2, LiveAppend, ZenonT(30)
  <2> QED
    BY <1>2, <2>2
<1>7. NoGaps(types, live, since[s])
  <2>1. NoGaps(published, live, since[s])
    BY DEF StreamInv, Live, LiveOf
  <2> HIDE DEF live
  <2> QED
    BY <2>1, NoGapsLonger DEF BusTypes
<1>8. /\ Covered(live) \in Nat
      /\ since[s] + Covered(live) + dropped[s] = Len(published)
  <2>1. since[s] + Covered(live) + dropped[s] = Len(published)
    BY DEF StreamInv, Live, LiveOf
  <2> HIDE DEF live
  <2> QED
    BY <1>2, <1>6, <2>1, CoveredAppend
<1>9. dropped[s] > 0 =>
        /\ marker \in Items /\ marker.type = "dropped"
        /\ Weight(marker) = dropped[s]
  <2>1. dropped[s] > 0 => dropped[s] \in Numbers
    BY <1>1, <1>4, <1>5 DEF Numbers
  <2> QED
    BY <2>1 DEF Dropped, Items, Weight
<1>10. Weight(e) = 1
  BY <1>2 DEF Weight
<1>11. Outcome(s, e, q, lost)
  OBVIOUS
<1> HIDE DEF n, e, marker, types, live
<1>12. CASE q = ch[s] /\ lost = dropped[s] + 1
  <2>1. q = ch[s]
    BY <1>12
  <2>2. lost = dropped[s] + 1
    BY <1>12
  <2>3. lost \in Marks /\ lost <= Len(published) + 1
    BY <1>1, <1>4, <1>5, <2>2 DEF Marks
  <2>4. since[s] + Covered(live) + lost = Len(published) + 1
    <3>1. lost \in Nat
      BY <1>4, <2>2
    <3> QED
      BY <1>1, <1>4, <1>8, <2>2, <3>1, Counts, SMTT(30)
  <2> QED
    BY <1>5, <1>7, <1>16, <2>1, <2>3, <2>4 DEF live, types
<1>13. CASE /\ dropped[s] > 0 /\ Len(ch[s]) < cap[s]
            /\ q = Append(ch[s], marker) /\ lost = 1
  <2>1. q \in Seq(Items) /\ Len(q) = Len(ch[s]) + 1
    BY <1>9, <1>13, <1>16
  <2>2. LiveOf(got[s], q, snapshot[s]) = Append(live, marker)
    BY <1>6, <1>9, <1>13
  <2>3. Covered(Append(live, marker)) = Covered(live) + dropped[s]
    BY <1>6, <1>9, <1>13, CoveredAppend
  <2>4. NoGaps(types, Append(live, marker), since[s])
    BY <1>4, <1>6, <1>7, <1>9, <1>13, NoGapsAppend
  <2>8. lost = 1 /\ Len(ch[s]) < cap[s]
    BY <1>13
  <2>5. since[s] + Covered(Append(live, marker)) + lost = Len(published) + 1
    <3>1. lost \in Nat
      BY <2>8
    <3>2. Covered(Append(live, marker)) \in Nat
      BY <1>4, <1>8, <2>3
    <3> QED
      BY <1>1, <1>4, <1>8, <2>3, <2>8, <3>1, <3>2, Counts, SMTT(30)
  <2>9. Len(q) = Len(ch[s]) + 1
    BY <2>1
  <2>6. Len(q) <= cap[s] /\ snapshot[s] <= Len(got[s]) + Len(q)
    <3>1. Len(q) \in Nat /\ Len(ch[s]) <= Len(q) /\ Len(q) <= cap[s]
      BY <1>4, <2>8, <2>9
    <3> QED
      BY <1>4, <1>5, <3>1, Longer
  <2>7. lost \in Marks /\ lost <= Len(published) + 1
    BY <1>1, <1>13 DEF Marks
  <2> QED
    BY <2>1, <2>2, <2>4, <2>5, <2>6, <2>7 DEF types
<1>14. CASE /\ dropped[s] = 0 /\ Len(ch[s]) < cap[s]
            /\ q = Append(ch[s], e) /\ lost = 0
  <2>1. q \in Seq(Items) /\ Len(q) = Len(ch[s]) + 1
    BY <1>2, <1>14, <1>16
  <2>2. LiveOf(got[s], q, snapshot[s]) = Append(live, e)
    BY <1>2, <1>6, <1>14
  <2>3. Covered(Append(live, e)) = Covered(live) + 1
    BY <1>2, <1>6, <1>10, CoveredAppend
  <2>4. NoGaps(types, Append(live, e), since[s])
    <3>1. e.n = since[s] + Covered(live) + 1
      BY <1>1, <1>2, <1>4, <1>8, <1>14
    <3>2. e.n \in 1..Len(types) /\ e.type = types[e.n]
      BY <1>1, <1>2, <1>3
    <3> QED
      BY <1>2, <1>4, <1>6, <1>7, <3>1, <3>2, NoGapsAppend
  <2>8. lost = 0 /\ Len(ch[s]) < cap[s] /\ dropped[s] = 0
    BY <1>14
  <2>5. since[s] + Covered(Append(live, e)) + lost = Len(published) + 1
    <3>1. lost \in Nat
      BY <2>8
    <3>2. Covered(Append(live, e)) \in Nat
      BY <1>4, <1>8, <2>3
    <3> QED
      BY <1>1, <1>4, <1>8, <2>3, <2>8, <3>1, <3>2, Counts
  <2>9. Len(q) = Len(ch[s]) + 1
    BY <2>1
  <2>6. Len(q) <= cap[s] /\ snapshot[s] <= Len(got[s]) + Len(q)
    <3>1. Len(q) \in Nat /\ Len(ch[s]) <= Len(q) /\ Len(q) <= cap[s]
      BY <1>4, <2>8, <2>9
    <3> QED
      BY <1>4, <1>5, <3>1, Longer
  <2>7. lost \in Marks /\ lost <= Len(published) + 1
    BY <1>1, <1>14 DEF Marks
  <2> QED
    BY <2>1, <2>2, <2>4, <2>5, <2>6, <2>7 DEF types
<1>15. CASE /\ dropped[s] > 0 /\ Len(ch[s]) + 1 < cap[s]
            /\ q = Append(Append(ch[s], marker), e) /\ lost = 0
  <2> DEFINE marked == Append(ch[s], marker)
             told == Append(live, marker)
  <2>1. /\ marked \in Seq(Items) /\ Len(marked) = Len(ch[s]) + 1
        /\ told \in Seq(Items)
    BY <1>6, <1>9, <1>15, <1>16
  <2>2. q \in Seq(Items) /\ Len(q) = Len(ch[s]) + 2
    BY <1>2, <1>15, <2>1
  <2>3. LiveOf(got[s], marked, snapshot[s]) = told
    BY <1>6, <1>9, <1>15
  <2>4. LiveOf(got[s], q, snapshot[s]) = Append(told, e)
    <3>4. Len(marked) = Len(ch[s]) + 1
      BY <2>1
    <3>5. marked \in Seq(Items)
      BY <2>1
    <3> HIDE DEF marked, told
    <3>1. snapshot[s] <= Len(got[s]) + Len(marked)
      <4>1. Len(marked) \in Nat /\ Len(ch[s]) <= Len(marked)
        BY <1>4, <3>4
      <4> QED
        BY <1>4, <1>5, <4>1, Longer
    <3>2. LiveOf(got[s], Append(marked, e), snapshot[s])
            = Append(LiveOf(got[s], marked, snapshot[s]), e)
      BY <1>2, <1>4, <1>16, <3>5, <3>1, LiveAppend, SMTT(30)
    <3>3. q = Append(marked, e)
      BY <1>15 DEF marked
    <3> QED
      BY <2>3, <3>2, <3>3
  <2>5. Covered(told) = Covered(live) + dropped[s]
    BY <1>6, <1>9, <1>15, CoveredAppend
  <2>6. Covered(Append(told, e)) = Covered(told) + 1
    <3> HIDE DEF told
    <3> QED
      BY <1>2, <1>10, <2>1, CoveredAppend
  <2>7. NoGaps(types, told, since[s])
    BY <1>4, <1>6, <1>7, <1>9, <1>15, NoGapsAppend
  <2> HIDE DEF marked, told
  <2>8. NoGaps(types, Append(told, e), since[s])
    <3>1. e.n = since[s] + Covered(told) + 1
      BY <1>1, <1>2, <1>4, <1>8, <2>5
    <3>2. e.n \in 1..Len(types) /\ e.type = types[e.n]
      BY <1>1, <1>2, <1>3
    <3> QED
      BY <1>2, <1>4, <2>1, <2>7, <3>1, <3>2, NoGapsAppend
  <2>12. lost = 0 /\ Len(ch[s]) + 1 < cap[s]
    BY <1>15
  <2>9. since[s] + Covered(Append(told, e)) + lost = Len(published) + 1
    <3>1. lost \in Nat /\ lost = 0
      BY <2>12
    <3>2. Covered(told) \in Nat /\ Covered(Append(told, e)) \in Nat
      BY <1>4, <1>8, <2>5, <2>6
    <3>3. since[s] + Covered(Append(told, e)) = Len(published) + 1
      <4>1. since[s] \in Nat /\ dropped[s] \in Nat /\ Len(published) \in Nat
        BY <1>1, <1>4
      <4>2. Covered(live) \in Nat
        BY <1>8
      <4>3. since[s] + Covered(live) + dropped[s] = Len(published)
        BY <1>8
      <4>4. Covered(told) \in Nat /\ Covered(told) = Covered(live) + dropped[s]
        BY <2>5, <3>2
      <4> QED
        BY <2>6, <3>2, <4>1, <4>2, <4>3, <4>4, CountsMarker, SMTT(30)
    <3> QED
      BY <1>1, <1>4, <3>1, <3>2, <3>3
  <2>13. Len(q) = Len(ch[s]) + 2
    BY <2>2
  <2>10. Len(q) <= cap[s] /\ snapshot[s] <= Len(got[s]) + Len(q)
    <3>1. Len(q) \in Nat /\ Len(ch[s]) <= Len(q) /\ Len(q) <= cap[s]
      BY <1>4, <2>12, <2>13
    <3> QED
      BY <1>4, <1>5, <3>1, Longer
  <2>11. lost \in Marks /\ lost <= Len(published) + 1
    BY <1>1, <1>15 DEF Marks
  <2> QED
    BY <2>2, <2>4, <2>8, <2>9, <2>10, <2>11 DEF types
<1> QED
  BY <1>11, <1>12, <1>13, <1>14, <1>15 DEF Outcome, marker

\* A subscription on the bus changes by an offer, the others not at all.
LEMMA PublishKeeps ==
  ASSUME BusInv, NEW type \in Types, Publish(type)
  PROVE  BusInv'
<1> DEFINE n == Len(published) + 1
           types == Append(published, type)
           logs == LogsOf(published)
<1>1. /\ BusTypes /\ RingInv /\ SubTypes /\ ChannelInv /\ StreamInv
  BY DEF BusInv
<1>2. /\ n \in Numbers /\ published' = types
      /\ busState' = (IF type = "state" THEN n ELSE busState)
      /\ busPorts' = (IF type = "ports" THEN n ELSE busPorts)
      /\ IF type = "log" THEN RemembersLog(n)
         ELSE UNCHANGED <<history, next, full>>
      /\ ch' = [s \in Subs |->
                  IF s \in subs THEN Offer(s, Ev(n, type)).ch ELSE ch[s]]
      /\ dropped' = [s \in Subs |-> IF s \in subs
                                    THEN Offer(s, Ev(n, type)).dropped
                                    ELSE dropped[s]]
      /\ UNCHANGED <<closed, subs, cap, chClosed, snapshot, handler, follow,
                     since, got>>
  BY DEF Publish, handlerVars
<1>3. types \in Seq(Types) /\ Len(types) = n /\ Len(published) \in Nat
  BY <1>1 DEF BusTypes
<1>4. n \in Marks /\ n \in Numbers /\ n <= MaxEvents
  BY <1>2, <1>3, EventBusAssumption DEF Numbers, Marks
<1>5. /\ logs \in Seq(Numbers) /\ Ring(history, next, full, logs)
  BY <1>1 DEF RingInv
<1>6. LogsOf(types) = IF type = "log" THEN Append(logs, n) ELSE logs
  BY <1>1, LogsAppend DEF BusTypes
<1> HIDE DEF n, types, logs
<1>7. BusTypes' /\ RingInv'
  <2>1. CASE type = "log"
    <3>1. /\ Ring(history', next', full', Append(logs, n))
          /\ history' \in [0..(HistorySize - 1) -> Marks]
          /\ next' \in 0..(HistorySize - 1) /\ full' \in BOOLEAN
      BY <1>1, <1>2, <1>4, <1>5, <2>1, RingWrites
    <3>2. Append(logs, n) \in Seq(Numbers)
      BY <1>4, <1>5
    <3> QED
      BY <1>1, <1>2, <1>3, <1>4, <1>6, <2>1, <3>1, <3>2 DEF BusTypes, RingInv
  <2>2. CASE type # "log"
    <3>1. UNCHANGED <<history, next, full>>
      BY <1>2, <2>2
    <3>2. Ring(history', next', full', logs)
      BY <1>5, <3>1
    <3> QED
      BY <1>1, <1>2, <1>3, <1>4, <1>5, <1>6, <2>2, <3>1, <3>2
      DEF BusTypes, RingInv
  <2> QED
    BY <2>1, <2>2
<1>8. ASSUME NEW s \in Subs, s \in subs
      PROVE  /\ ch'[s] \in Seq(Items) /\ dropped'[s] \in Marks
             /\ Len(ch'[s]) <= cap[s] /\ dropped'[s] <= Len(published')
             /\ snapshot[s] <= Len(got[s]) + Len(ch'[s])
             /\ NoGaps(published', LiveOf(got[s], ch'[s], snapshot[s]),
                       since[s])
             /\ since[s] + Covered(LiveOf(got[s], ch'[s], snapshot[s]))
                  + dropped'[s] = Len(published')
  <2>1. Outcome(s, Ev(n, type), ch'[s], dropped'[s])
    <3>1. /\ ch'[s] = Offer(s, Ev(n, type)).ch
          /\ dropped'[s] = Offer(s, Ev(n, type)).dropped
      BY <1>2, <1>8
    <3> QED
      BY <1>1, <3>1, OfferOutcome
  <2>2. Outcome(s, Ev(Len(published) + 1, type), ch'[s], dropped'[s])
    BY <2>1 DEF n
  <2>3. Len(published) + 1 \in Numbers
    BY <1>4 DEF n
  <2> DEFINE q == ch'[s]
             lost == dropped'[s]
  <2> HIDE DEF q, lost
  <2>4. Outcome(s, Ev(Len(published) + 1, type), q, lost)
    BY <2>2 DEF q, lost
  <2>5. /\ q \in Seq(Items) /\ lost \in Marks
        /\ Len(q) <= cap[s] /\ lost <= Len(published) + 1
        /\ snapshot[s] <= Len(got[s]) + Len(q)
        /\ NoGaps(Append(published, type), LiveOf(got[s], q, snapshot[s]),
                  since[s])
        /\ since[s] + Covered(LiveOf(got[s], q, snapshot[s])) + lost
             = Len(published) + 1
    BY <1>1, <1>8, <2>3, <2>4, OfferKeeps
  <2>6. /\ published' = Append(published, type)
        /\ Len(published') = Len(published) + 1
    BY <1>2, <1>3 DEF types, n
  <2> QED
    BY <2>5, <2>6 DEF q, lost
<1>9. ASSUME NEW s \in Subs, s \notin subs
      PROVE  /\ ch'[s] = ch[s] /\ dropped'[s] = dropped[s]
             /\ dropped[s] <= Len(published')
             /\ NoGaps(published', Live(s), since[s])
  <2>1. ch'[s] = ch[s] /\ dropped'[s] = dropped[s]
    BY <1>2, <1>9
  <2>2. dropped[s] <= Len(published')
    <3>1. dropped[s] \in Nat /\ dropped[s] <= Len(published)
      BY <1>1, EventBusAssumption DEF SubTypes, ChannelInv, Marks
    <3>2. Len(published') = Len(published) + 1
      BY <1>2, <1>3 DEF n
    <3> QED
      BY <1>3, <3>1, <3>2
  <2>3. NoGaps(published, Live(s), since[s])
    BY <1>1 DEF StreamInv
  <2>4. NoGaps(types, Live(s), since[s])
    BY <1>1, <2>3, NoGapsLonger DEF BusTypes, types
  <2> QED
    BY <1>2, <2>1, <2>2, <2>4
<1>10. UNCHANGED <<closed, subs, cap, chClosed, snapshot, handler, follow,
                   since, got>>
  BY <1>2
<1>11. SubTypes'
  <2>1. ch' \in [Subs -> Seq(Items)]
    <3>1. \A s \in Subs : ch'[s] \in Seq(Items)
      BY <1>1, <1>8, <1>9 DEF SubTypes
    <3> QED
      BY <1>2, <3>1
  <2>2. dropped' \in [Subs -> Marks]
    <3>1. \A s \in Subs : dropped'[s] \in Marks
      BY <1>1, <1>8, <1>9 DEF SubTypes
    <3> QED
      BY <1>2, <3>1
  <2> QED
    BY <1>1, <1>10, <2>1, <2>2 DEF SubTypes
<1>12. ChannelInv'
  <2> SUFFICES ASSUME NEW s \in Subs
               PROVE  /\ Len(ch'[s]) <= cap[s]
                      /\ dropped'[s] <= Len(published')
                      /\ snapshot[s] <= Len(got[s]) + Len(ch'[s])
                      /\ s \in subs => handler[s] = "streaming" /\ ~chClosed[s]
                      /\ handler[s] = "none" =>
                           /\ ch'[s] = <<>> /\ got[s] = <<>> /\ snapshot[s] = 0
                           /\ dropped'[s] = 0
    BY <1>10 DEF ChannelInv
  <2>1. CASE s \in subs
    <3>1. handler[s] = "streaming" /\ ~chClosed[s]
      BY <1>1, <2>1 DEF ChannelInv
    <3>2. handler[s] # "none"
      BY <3>1
    <3> QED
      BY <1>8, <2>1, <3>1, <3>2
  <2>2. CASE s \notin subs
    BY <1>1, <1>9, <2>2 DEF ChannelInv
  <2> QED
    BY <2>1, <2>2
<1>13. StreamInv'
  <2> SUFFICES ASSUME NEW s \in Subs
               PROVE  /\ NoGaps(published', Live(s)', since[s])
                      /\ s \in subs =>
                           since[s] + Covered(Live(s)') + dropped'[s]
                             = Len(published')
    BY <1>10 DEF StreamInv
  <2>1. Live(s)' = LiveOf(got[s], ch'[s], snapshot[s])
    BY <1>10 DEF Live, LiveOf
  <2>2. CASE s \in subs
    BY <1>8, <2>1, <2>2
  <2>3. CASE s \notin subs
    <3>1. Live(s)' = Live(s)
      BY <1>9, <2>1, <2>3 DEF Live, LiveOf
    <3> QED
      BY <1>9, <2>3, <3>1
  <2> QED
    BY <2>2, <2>3
<1> QED
  BY <1>7, <1>11, <1>12, <1>13 DEF BusInv

-----------------------------------------------------------------------------
(* Subscribing *)

\* A snapshot is a sequence of events.
LEMMA SnapshotType ==
  ASSUME BusTypes, RingInv, NEW n \in 0..HistorySize
  PROVE  Snapshot(n) \in Seq(Items)
<1>1. n \in Nat /\ n <= HistorySize
  BY EventBusAssumption
<1> DEFINE logs == LogsOf(published)
<1>2. logs \in Seq(Numbers) /\ Len(logs) \in Nat
  BY DEF RingInv
<1>3. PICK m \in Nat : m <= n /\ m <= Len(logs) /\ (m = n \/ m = Len(logs))
  <2>1. CASE n <= Len(logs)
    BY <1>1, <2>1
  <2>2. CASE Len(logs) <= n
    BY <1>2, <2>2
  <2> HIDE DEF logs
  <2> QED
    BY <1>1, <1>2, <2>1, <2>2
<1>4. Ring(history, next, full, logs)
  BY DEF RingInv
<1> HIDE DEF logs
<1>5. Recent(n) \in Seq(Numbers)
  BY <1>1, <1>2, <1>3, <1>4, RecentIsLast
<1>6. \A k \in Numbers, type \in Types : Ev(k, type) \in Items
  BY DEF Ev, Items
<1>7. \A k \in Marks : k # 0 => k \in Numbers
  BY EventBusAssumption DEF Marks, Numbers
<1>8. (IF busState = 0 THEN <<>> ELSE <<Ev(busState, "state")>>) \in Seq(Items)
  <2>1. busState # 0 => Ev(busState, "state") \in Items
    BY <1>6, <1>7 DEF BusTypes, Types
  <2> QED
    BY <2>1
<1>9. (IF busPorts = 0 THEN <<>> ELSE <<Ev(busPorts, "ports")>>) \in Seq(Items)
  <2>1. busPorts # 0 => Ev(busPorts, "ports") \in Items
    BY <1>6, <1>7 DEF BusTypes, Types
  <2> QED
    BY <2>1
<1>10. [i \in 1..Len(Recent(n)) |-> Ev(Recent(n)[i], "log")] \in Seq(Items)
  <2> DEFINE recent == Recent(n)
  <2>1. recent \in Seq(Numbers)
    BY <1>5
  <2> HIDE DEF recent
  <2>2. \A i \in 1..Len(recent) : Ev(recent[i], "log") \in Items
    BY <1>6, <2>1 DEF Types
  <2>3. [i \in 1..Len(recent) |-> Ev(recent[i], "log")] \in Seq(Items)
    BY <2>1, <2>2, IsASeq
  <2> QED
    BY <2>3 DEF recent
<1> QED
  BY <1>8, <1>9, <1>10 DEF Snapshot

\* A new subscription starts behind all events so far.
LEMMA SubscribeKeeps ==
  ASSUME BusInv, NEW s \in Subs, NEW n \in 0..HistorySize, NEW f \in BOOLEAN,
         Subscribe(s, n, f)
  PROVE  BusInv'
<1> DEFINE shot == Snapshot(n)
<1>1. /\ BusTypes /\ RingInv /\ SubTypes /\ ChannelInv /\ StreamInv
  BY DEF BusInv
<1>2. /\ shot \in Seq(Items) /\ Len(shot) \in Nat
      /\ Len(shot) <= QueueSize + Len(shot)
  <2>1. shot \in Seq(Items)
    BY <1>1, SnapshotType
  <2> HIDE DEF shot
  <2>2. Len(shot) \in Nat
    BY <2>1
  <2> QED
    BY <2>1, <2>2, EventBusAssumption
<1>3. /\ handler[s] = "none"
      /\ ch' = [ch EXCEPT ![s] = shot]
      /\ cap' = [cap EXCEPT ![s] = QueueSize + Len(shot)]
      /\ snapshot' = [snapshot EXCEPT ![s] = Len(shot)]
      /\ chClosed' = [chClosed EXCEPT ![s] = closed]
      /\ subs' = (IF closed THEN subs ELSE subs \cup {s})
      /\ handler' = [handler EXCEPT ![s] = "streaming"]
      /\ follow' = [follow EXCEPT ![s] = f]
      /\ since' = [since EXCEPT ![s] = Len(published)]
      /\ UNCHANGED <<published, busState, busPorts, history, next, full,
                     closed, dropped, got>>
  BY DEF Subscribe
<1> HIDE DEF shot
<1>4. BusTypes' /\ RingInv'
  BY <1>1, <1>3 DEF BusTypes, RingInv
<1>5. Len(published) \in Marks /\ Len(published) \in Nat
  BY <1>1, EventBusAssumption DEF BusTypes, Marks
<1>6. QueueSize + Len(shot) \in Nat
  BY <1>2, EventBusAssumption
<1>7. SubTypes'
  <2>1. /\ ch' \in [Subs -> Seq(Items)] /\ got' \in [Subs -> Seq(Items)]
    BY <1>1, <1>2, <1>3 DEF SubTypes
  <2>2. cap' \in [Subs -> Nat] /\ snapshot' \in [Subs -> Nat]
    BY <1>1, <1>2, <1>3, <1>6 DEF SubTypes
  <2>3. chClosed' \in [Subs -> BOOLEAN]
    BY <1>1, <1>3 DEF SubTypes, BusTypes
  <2>4. follow' \in [Subs -> BOOLEAN]
    BY <1>1, <1>3 DEF SubTypes
  <2>5. /\ dropped' \in [Subs -> Marks] /\ since' \in [Subs -> Marks]
        /\ handler' \in [Subs -> {"none", "streaming", "ended", "left"}]
    BY <1>1, <1>3, <1>5 DEF SubTypes
  <2> QED
    BY <2>1, <2>2, <2>3, <2>4, <2>5 DEF SubTypes
<1>8. ASSUME NEW r \in Subs, r # s
      PROVE  /\ ch'[r] = ch[r] /\ cap'[r] = cap[r] /\ snapshot'[r] = snapshot[r]
             /\ chClosed'[r] = chClosed[r] /\ handler'[r] = handler[r]
             /\ since'[r] = since[r] /\ (r \in subs' => r \in subs)
  BY <1>1, <1>3, <1>8 DEF SubTypes
<1>9. /\ ch'[s] = shot /\ cap'[s] = QueueSize + Len(shot)
      /\ snapshot'[s] = Len(shot) /\ handler'[s] = "streaming"
      /\ since'[s] = Len(published) /\ got[s] = <<>> /\ dropped[s] = 0
      /\ s \notin subs
  BY <1>1, <1>3 DEF SubTypes, ChannelInv
<1>10. chClosed'[s] = closed /\ (s \in subs' => ~closed)
  BY <1>1, <1>3, <1>9 DEF SubTypes
<1>11. got' = got /\ dropped' = dropped /\ published' = published
  BY <1>3
<1>12. ChannelInv'
  <2> SUFFICES ASSUME NEW r \in Subs
               PROVE  /\ Len(ch'[r]) <= cap'[r]
                      /\ dropped[r] <= Len(published)
                      /\ snapshot'[r] <= Len(got[r]) + Len(ch'[r])
                      /\ r \in subs' =>
                           handler'[r] = "streaming" /\ ~chClosed'[r]
                      /\ handler'[r] = "none" =>
                           /\ ch'[r] = <<>> /\ got[r] = <<>> /\ snapshot'[r] = 0
                           /\ dropped[r] = 0
    BY <1>11 DEF ChannelInv
  <2>1. CASE r # s
    BY <1>1, <1>8, <2>1 DEF ChannelInv
  <2>2. CASE r = s
    <3>1. Len(ch'[s]) <= cap'[s]
      BY <1>2, <1>9
    <3>2. dropped[s] <= Len(published)
      BY <1>1 DEF ChannelInv
    <3>3. snapshot'[s] <= Len(got[s]) + Len(ch'[s])
      <4>1. Len(<<>>) = 0
        OBVIOUS
      <4> QED
        BY <1>2, <1>9, <4>1
    <3>4. s \in subs' => handler'[s] = "streaming" /\ ~chClosed'[s]
      BY <1>9, <1>10
    <3>5. handler'[s] # "none"
      BY <1>9
    <3> QED
      BY <2>2, <3>1, <3>2, <3>3, <3>4, <3>5
  <2> QED
    BY <2>1, <2>2
<1>13. StreamInv'
  <2> SUFFICES ASSUME NEW r \in Subs
               PROVE  /\ NoGaps(published, Live(r)', since'[r])
                      /\ r \in subs' =>
                           since'[r] + Covered(Live(r)') + dropped[r]
                             = Len(published)
    BY <1>11 DEF StreamInv
  <2>1. Live(r)' = LiveOf(got[r], ch'[r], snapshot'[r])
    BY <1>11 DEF Live, LiveOf
  <2>2. CASE r # s
    <3>1. Live(r)' = Live(r)
      BY <1>8, <2>1, <2>2 DEF Live, LiveOf
    <3> QED
      BY <1>1, <1>8, <2>2, <3>1 DEF StreamInv
  <2>3. CASE r = s
    <3>1. Live(s)' = <<>>
      BY <1>2, <1>9, <2>1, <2>3, LiveFresh
    <3>2. NoGaps(published, <<>>, since'[s])
      BY DEF NoGaps
    <3>3. since'[s] + Covered(<<>>) + dropped[s] = Len(published)
      BY <1>5, <1>9, CoveredEmpty
    <3> QED
      BY <2>3, <3>1, <3>2, <3>3
  <2> QED
    BY <2>2, <2>3
<1> QED
  BY <1>4, <1>7, <1>12, <1>13 DEF BusInv

-----------------------------------------------------------------------------
(* Ending, closing, receiving *)

\* A step that only takes subscriptions off the bus and ends handlers.
LEMMA EndKeeps ==
  ASSUME BusInv,
         UNCHANGED <<published, busState, busPorts, history, next, full, ch,
                     cap, dropped, snapshot, follow, since, got>>,
         closed' \in BOOLEAN, subs' \subseteq subs,
         chClosed' \in [Subs -> BOOLEAN],
         handler' \in [Subs -> {"none", "streaming", "ended", "left"}],
         \A s \in Subs :
           /\ s \in subs' =>
                handler'[s] = handler[s] /\ chClosed'[s] = chClosed[s]
           /\ handler'[s] = "none" => handler[s] = "none"
  PROVE  BusInv'
<1>1. /\ BusTypes /\ RingInv /\ SubTypes /\ ChannelInv /\ StreamInv
  BY DEF BusInv
<1>2. BusTypes' /\ RingInv'
  BY <1>1 DEF BusTypes, RingInv
<1>3. SubTypes'
  BY <1>1 DEF SubTypes
<1>4. ChannelInv'
  BY <1>1 DEF ChannelInv
<1>5. \A s \in Subs : Live(s)' = Live(s)
  BY DEF Live
<1>6. StreamInv'
  BY <1>1, <1>5 DEF StreamInv
<1> QED
  BY <1>2, <1>3, <1>4, <1>6 DEF BusInv

\* Receiving moves an item within the stream.
LEMMA ReceiveKeeps ==
  ASSUME BusInv, NEW s \in Subs, Receive(s)
  PROVE  BusInv'
<1>1. /\ BusTypes /\ RingInv /\ SubTypes /\ ChannelInv /\ StreamInv
  BY DEF BusInv
<1>2. /\ handler[s] = "streaming" /\ ch[s] # <<>>
      /\ got' = [got EXCEPT ![s] = Append(got[s], Head(ch[s]))]
      /\ ch' = [ch EXCEPT ![s] = Tail(ch[s])]
      /\ UNCHANGED <<published, busState, busPorts, history, next, full, closed,
                     subs, cap, chClosed, dropped, snapshot, handler, follow,
                     since>>
  BY DEF Receive, busVars
<1>3. ch[s] \in Seq(Items) /\ got[s] \in Seq(Items) /\ snapshot[s] \in Nat
  BY <1>1 DEF SubTypes
<1>4. /\ Head(ch[s]) \in Items /\ Tail(ch[s]) \in Seq(Items)
      /\ Len(Tail(ch[s])) = Len(ch[s]) - 1 /\ Len(ch[s]) \in Nat \ {0}
  BY <1>2, <1>3
<1>5. /\ Append(got[s], Head(ch[s])) \in Seq(Items)
      /\ Len(Append(got[s], Head(ch[s]))) = Len(got[s]) + 1
      /\ Len(got[s]) \in Nat
  BY <1>3, <1>4
<1>6. BusTypes' /\ RingInv'
  BY <1>1, <1>2 DEF BusTypes, RingInv
<1>7. SubTypes'
  <2>1. ch' \in [Subs -> Seq(Items)] /\ got' \in [Subs -> Seq(Items)]
    BY <1>1, <1>2, <1>4, <1>5 DEF SubTypes
  <2> QED
    BY <1>1, <1>2, <2>1 DEF SubTypes
<1>8. /\ ch'[s] = Tail(ch[s]) /\ got'[s] = Append(got[s], Head(ch[s]))
      /\ \A r \in Subs : r # s => ch'[r] = ch[r] /\ got'[r] = got[r]
  BY <1>1, <1>2 DEF SubTypes
<1>9. UNCHANGED <<published, subs, cap, chClosed, dropped, snapshot, handler,
                  since>>
  BY <1>2
<1>10. ChannelInv'
  <2> SUFFICES ASSUME NEW r \in Subs
               PROVE  /\ Len(ch'[r]) <= cap[r]
                      /\ dropped[r] <= Len(published)
                      /\ snapshot[r] <= Len(got'[r]) + Len(ch'[r])
                      /\ r \in subs => handler[r] = "streaming" /\ ~chClosed[r]
                      /\ handler[r] = "none" =>
                           /\ ch'[r] = <<>> /\ got'[r] = <<>> /\ snapshot[r] = 0
                           /\ dropped[r] = 0
    BY <1>9 DEF ChannelInv
  <2>1. CASE r # s
    BY <1>1, <1>8, <2>1 DEF ChannelInv
  <2>2. CASE r = s
    <3>1. Len(ch[s]) <= cap[s] /\ cap[s] \in Nat
      BY <1>1 DEF ChannelInv, SubTypes
    <3>2. Len(ch'[s]) <= cap[s]
      BY <1>4, <1>8, <3>1
    <3>3. snapshot[s] <= Len(got[s]) + Len(ch[s])
      BY <1>1 DEF ChannelInv
    <3>4. Len(got'[s]) + Len(ch'[s]) = Len(got[s]) + Len(ch[s])
      <4>1. Len(got'[s]) = Len(got[s]) + 1 /\ Len(ch'[s]) = Len(ch[s]) - 1
        BY <1>4, <1>5, <1>8
      <4>2. Len(got[s]) \in Nat /\ Len(ch[s]) \in Nat
        BY <1>4, <1>5
      <4> QED
        BY <4>1, <4>2, Passes
    <3>5. handler[s] # "none"
      BY <1>2
    <3>6. /\ dropped[s] <= Len(published)
          /\ s \in subs => handler[s] = "streaming" /\ ~chClosed[s]
      BY <1>1 DEF ChannelInv
    <3> QED
      BY <2>2, <3>2, <3>3, <3>4, <3>5, <3>6
  <2> QED
    BY <2>1, <2>2
<1>11. ASSUME NEW r \in Subs PROVE Live(r)' = Live(r)
  <2>1. CASE r # s
    BY <1>8, <1>9, <2>1 DEF Live
  <2>2. CASE r = s
    <3>1. Live(s)' =
            LiveOf(Append(got[s], Head(ch[s])), Tail(ch[s]), snapshot[s])
      BY <1>8, <1>9 DEF Live, LiveOf
    <3>2. Live(s) = LiveOf(got[s], ch[s], snapshot[s])
      BY DEF Live, LiveOf
    <3> QED
      BY <1>2, <1>3, <2>2, <3>1, <3>2, LiveMoves
  <2> QED
    BY <2>1, <2>2
<1>12. StreamInv'
  BY <1>1, <1>9, <1>11 DEF StreamInv
<1> QED
  BY <1>6, <1>7, <1>10, <1>12 DEF BusInv

-----------------------------------------------------------------------------
LEMMA BusInit == Init => BusInv
<1> SUFFICES ASSUME Init PROVE BusInv
  OBVIOUS
<1>1. HistorySize \in Nat \ {0} /\ MaxEvents \in Nat
  BY EventBusAssumption
<1>2. /\ published = <<>> /\ busState = 0 /\ busPorts = 0 /\ next = 0
      /\ history = [i \in 0..(HistorySize - 1) |-> 0] /\ full = FALSE
      /\ closed = FALSE /\ subs = {}
  BY DEF Init
<1>3. Len(<<>>) = 0 /\ <<>> \in Seq(Types) /\ <<>> \in Seq(Items)
      /\ <<>> \in Seq(Numbers)
  OBVIOUS
<1>4. 0 \in Marks /\ 0 \in 0..(HistorySize - 1)
  BY <1>1 DEF Marks
<1>5. BusTypes
  BY <1>1, <1>2, <1>3, <1>4 DEF BusTypes
<1>6. RingInv
  <2>1. LogsOf(published) = <<>>
    BY <1>2, LogsEmpty
  <2>2. Ring(history, next, full, <<>>)
    BY <1>1, <1>2, <1>3 DEF Ring
  <2> QED
    BY <1>3, <2>1, <2>2 DEF RingInv
<1>7. SubTypes
  BY <1>3, <1>4 DEF Init, SubTypes
<1>8. \A s \in Subs : /\ ch[s] = <<>> /\ got[s] = <<>> /\ snapshot[s] = 0
                      /\ cap[s] = 0 /\ dropped[s] = 0 /\ handler[s] = "none"
  BY DEF Init
<1>9. ChannelInv
  <2> SUFFICES ASSUME NEW s \in Subs
               PROVE  /\ Len(<<>>) <= 0 /\ 0 <= Len(<<>>)
                      /\ 0 <= Len(<<>>) + Len(<<>>) /\ s \notin subs
    BY <1>2, <1>8 DEF ChannelInv
  <2> QED
    BY <1>2, <1>3
<1>10. ASSUME NEW s \in Subs PROVE Live(s) = <<>>
  BY <1>3, <1>8, LiveFresh DEF Live, LiveOf
<1>11. StreamInv
  <2>1. \A s \in Subs : NoGaps(published, <<>>, since[s]) /\ s \notin subs
    BY <1>2, <1>3 DEF NoGaps
  <2> QED
    BY <1>10, <2>1 DEF StreamInv
<1> QED
  BY <1>5, <1>6, <1>7, <1>9, <1>11 DEF BusInv

LEMMA BusNext == BusInv /\ [Next]_vars => BusInv'
<1> SUFFICES ASSUME BusInv, [Next]_vars PROVE BusInv'
  OBVIOUS
<1>1. BusTypes /\ SubTypes
  BY DEF BusInv
<1>2. ASSUME NEW type \in Types, Publish(type) PROVE BusInv'
  BY <1>2, PublishKeeps
<1>3. CASE CloseBus
  <2>1. closed' \in BOOLEAN /\ chClosed' \in [Subs -> BOOLEAN] /\ subs' = {}
    BY <1>1, <1>3 DEF CloseBus, SubTypes
  <2>2. UNCHANGED <<published, busState, busPorts, history, next, full, ch,
                    cap, dropped, snapshot, follow, since, got, handler>>
    BY <1>3 DEF CloseBus, handlerVars
  <2> QED
    BY <1>1, <2>1, <2>2, EndKeeps DEF SubTypes
<1>4. ASSUME NEW s \in Subs, NEW n \in 0..HistorySize, NEW f \in BOOLEAN,
             Subscribe(s, n, f)
      PROVE  BusInv'
  BY <1>4, SubscribeKeeps
<1>5. ASSUME NEW s \in Subs, Receive(s) PROVE BusInv'
  BY <1>5, ReceiveKeeps
<1>6. ASSUME NEW s \in Subs, EndStream(s) \/ ClientLeaves(s) \/ WriteFails(s)
      PROVE  BusInv'
  <2>1. /\ subs' = subs \ {s} /\ chClosed' = [chClosed EXCEPT ![s] = TRUE]
        /\ UNCHANGED <<published, busState, busPorts, history, next, full, ch,
                       cap, dropped, snapshot, follow, since, got, closed>>
    BY <1>6 DEF EndStream, ClientLeaves, WriteFails, Unsubscribes, handlerVars
  <2>2. \/ handler' = handler
        \/ \E to \in {"ended", "left"} : handler' = [handler EXCEPT ![s] = to]
    BY <1>6 DEF EndStream, ClientLeaves, WriteFails, handlerVars
  <2>3. chClosed' \in [Subs -> BOOLEAN]
    BY <1>1, <2>1 DEF SubTypes
  <2>4. handler' \in [Subs -> {"none", "streaming", "ended", "left"}]
    BY <1>1, <2>2 DEF SubTypes
  <2>5. \A r \in Subs :
          /\ r \in subs' =>
               handler'[r] = handler[r] /\ chClosed'[r] = chClosed[r]
          /\ handler'[r] = "none" => handler[r] = "none"
    BY <1>1, <2>1, <2>2 DEF SubTypes
  <2>6. closed' \in BOOLEAN
    BY <1>1, <2>1 DEF BusTypes
  <2> QED
    BY <2>1, <2>3, <2>4, <2>5, <2>6, EndKeeps
<1>7. CASE UNCHANGED vars
  <2>1. UNCHANGED <<published, busState, busPorts, history, next, full, ch,
                    cap, dropped, snapshot, follow, since, got, closed, subs,
                    chClosed, handler>>
    BY <1>7 DEF vars, busVars, subVars, handlerVars
  <2>2. closed' \in BOOLEAN /\ chClosed' \in [Subs -> BOOLEAN]
    BY <1>1, <2>1 DEF BusTypes, SubTypes
  <2> QED
    BY <1>1, <2>1, <2>2, EndKeeps DEF SubTypes
<1> QED
  BY <1>2, <1>3, <1>4, <1>5, <1>6, <1>7 DEF Next, Client

\* The invariant holds of every reachable state of the bus and its streams.
LEMMA BusInvariant == Spec => []BusInv
  BY BusInit, BusNext, PTL DEF Spec

-----------------------------------------------------------------------------
(* Conclusions *)

\* The types of the bus, of every channel and of every handler; no channel holds
\* more than it has room for (offer never blocks and never overfills).
THEOREM TypeCorrect == Spec => []TypeOK
<1>1. BusInv => TypeOK
  <2> SUFFICES ASSUME BusInv PROVE TypeOK
    OBVIOUS
  <2>1. BusTypes /\ SubTypes /\ ChannelInv
    BY DEF BusInv
  <2>2. \A s \in Subs : ch[s] \in Seq(Items) /\ Len(ch[s]) <= cap[s]
    BY <2>1 DEF SubTypes, ChannelInv
  <2> QED
    BY <2>1, <2>2 DEF TypeOK, BusTypes, SubTypes, Marks
<1> QED
  BY <1>1, BusInvariant, PTL

\* offer and handleEvents: a client's stream has no silent gap, no duplicate and
\* no event out of order, and what it misses at the end is in dropped.
THEOREM StreamsHaveNoGap == Spec => []NoSilentGap
<1>1. BusInv => NoSilentGap
  <2> SUFFICES ASSUME BusInv, NEW s \in Subs
               PROVE  /\ \A i \in 1..Len(Live(s)) :
                           Live(s)[i].type # "dropped" =>
                             /\ Live(s)[i].n =
                                  since[s] + Covered(SubSeq(Live(s), 1, i))
                             /\ Live(s)[i].type = published[Live(s)[i].n]
                      /\ s \in subs =>
                           /\ ~chClosed[s]
                           /\ since[s] + Covered(Live(s)) + dropped[s]
                                = Len(published)
    BY DEF NoSilentGap
  <2>1. NoGaps(published, Live(s), since[s])
    BY DEF BusInv, StreamInv
  <2>2. s \in subs => since[s] + Covered(Live(s)) + dropped[s] = Len(published)
    BY DEF BusInv, StreamInv
  <2>3. s \in subs => ~chClosed[s]
    BY DEF BusInv, ChannelInv
  <2> QED
    BY <2>1, <2>2, <2>3 DEF NoGaps
<1> QED
  BY <1>1, BusInvariant, PTL

\* recentLocked: the last n log events in order, for any ring size, before it is
\* full, when it fills up and after it wrapped.
THEOREM HistoryRecent == Spec => []HistoryIsRecent
<1>1. BusInv => HistoryIsRecent
  <2> SUFFICES ASSUME BusInv, NEW n \in 0..HistorySize, NEW logs,
                      logs = LogsOf(published), NEW m,
                      m = IF n > Len(logs) THEN Len(logs) ELSE n
               PROVE  Recent(n) = SubSeq(logs, Len(logs) - m + 1, Len(logs))
    BY DEF HistoryIsRecent
  <2>1. BusTypes /\ RingInv
    BY DEF BusInv
  <2>2. logs \in Seq(Numbers) /\ Ring(history, next, full, logs)
    BY <2>1 DEF RingInv
  <2>3. n \in Nat /\ n <= HistorySize /\ Len(logs) \in Nat
    BY <2>2, EventBusAssumption
  <2>4. /\ m \in Nat /\ m <= n /\ m <= Len(logs) /\ (m = n \/ m = Len(logs))
    <3>1. CASE n > Len(logs)
      BY <2>3, <3>1
    <3>2. CASE ~(n > Len(logs))
      BY <2>3, <3>2
    <3> QED
      BY <3>1, <3>2
  <2> QED
    BY <2>1, <2>2, <2>3, <2>4, RecentIsLast
<1> QED
  BY <1>1, BusInvariant, PTL
=============================================================================
