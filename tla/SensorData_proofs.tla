------------------------- MODULE SensorData_proofs -------------------------
(***************************************************************************)
(* What is proved about the history, for every capacity, largest interval  *)
(* and way the clock is set, and about the readings and their clocks, for  *)
(* every window and length of an iteration of the main loop.               *)
(***************************************************************************)
EXTENDS SensorData, Induction

-----------------------------------------------------------------------------
(* The history stays in chronological order. *)

Entries == [time : Nat, of : SUBSET Nat]
Histories ==
    [samples : Seq(Entries), interval : Nat, acc : [of : SUBSET Nat, count : Nat]]

(* The order of any two entries: what averaging every other pair keeps. *)
Chronological(samples) ==
    \A i, j \in 1..Len(samples) : i < j => samples[i].time < samples[j].time

Before(samples, time) == \A i \in 1..Len(samples) : samples[i].time < time

OrderInv ==
    /\ history \in Histories /\ Chronological(history.samples)
    /\ epoch \in Nat /\ commits \in Nat

LEMMA CapacityNat == HistoryCapacity \in Nat
  BY CapacityAssumption

LEMMA HalfOf ==
    ASSUME NEW n \in Nat
    PROVE  n \div 2 \in Nat /\ \A i \in 1..n \div 2 : 2 * i \in 1..n
  OBVIOUS

LEMMA FunctionIsSeq ==
    ASSUME NEW S, NEW n \in Nat, NEW f \in [1..n -> S]
    PROVE  f \in Seq(S) /\ Len(f) = n
  OBVIOUS

LEMMA OneMore ==
    ASSUME NEW S, NEW s \in Seq(S), NEW x \in S
    PROVE  /\ Len(s \o <<x>>) = Len(s) + 1 /\ (s \o <<x>>)[Len(s) + 1] = x
           /\ \A i \in 1..Len(s) : (s \o <<x>>)[i] = s[i]
  OBVIOUS

LEMMA AddedType ==
    ASSUME NEW acc \in [of : SUBSET Nat, count : Nat], NEW s \in Entries
    PROVE  Added(acc, s) \in [of : SUBSET Nat, count : Nat]
  BY DEF Added, Entries

LEMMA AverageType ==
    ASSUME NEW acc \in [of : SUBSET Nat, count : Nat], NEW time \in Nat
    PROVE  Average(acc, time) \in Entries /\ Average(acc, time).time = time
  BY DEF Average, Sample, Entries

LEMMA NoneAddedType == NoneAdded \in [of : SUBSET Nat, count : Nat]
  BY DEF NoneAdded

LEMMA PairType ==
    ASSUME NEW samples \in Seq(Entries), NEW i \in 1..Len(samples) \div 2
    PROVE  Pair(samples, i) \in Entries /\ Pair(samples, i).time = samples[2 * i].time
<1>1. 2 * i - 1 \in 1..Len(samples) /\ 2 * i \in 1..Len(samples)
  OBVIOUS
<1>2. samples[2 * i - 1] \in Entries /\ samples[2 * i] \in Entries
  BY <1>1
<1>3. samples[2 * i].time \in Nat
  BY <1>2 DEF Entries
<1> QED
  BY <1>2, <1>3, NoneAddedType, AddedType, AverageType DEF Pair

LEMMA RoomType ==
    ASSUME NEW h \in Histories
    PROVE  WithRoom(h) \in Histories
<1> DEFINE s == h.samples
<1>1. s \in Seq(Entries) /\ Len(s) \in Nat
  BY DEF Histories
<1>2. CASE IsFull(h) /\ h.interval < MaxInterval
  <2> DEFINE half == Len(s) \div 2
             pairs == [i \in 1..half |-> Pair(s, i)]
  <2>1. half \in Nat /\ pairs \in [1..half -> Entries]
    BY <1>1, HalfOf, PairType
  <2>2. WithRoom(h) = [h EXCEPT !.samples = pairs, !.interval = 2 * @]
    BY <1>2 DEF WithRoom, Compact
  <2> HIDE DEF half, pairs
  <2>3. pairs \in Seq(Entries)
    BY <2>1, FunctionIsSeq
  <2>4. 2 * h.interval \in Nat
    BY DEF Histories
  <2> QED
    BY <2>2, <2>3, <2>4 DEF Histories
<1>3. CASE IsFull(h) /\ ~(h.interval < MaxInterval)
  <2>1. s # <<>>
    BY <1>1, <1>3, CapacityAssumption DEF IsFull
  <2>2. Tail(s) \in Seq(Entries)
    BY <1>1, <2>1
  <2>3. WithRoom(h) = [h EXCEPT !.samples = Tail(s)]
    BY <1>3 DEF WithRoom
  <2> QED
    BY <2>2, <2>3 DEF Histories
<1>4. CASE ~IsFull(h)
  BY <1>4 DEF WithRoom
<1> QED
  BY <1>2, <1>3, <1>4

(* Making room keeps the order, and adds no stamp. *)
LEMMA RoomKeepsOrder ==
    ASSUME NEW h \in Histories, Chronological(h.samples),
           NEW time \in Nat, Before(h.samples, time)
    PROVE  /\ WithRoom(h) \in Histories
           /\ Chronological(WithRoom(h).samples) /\ Before(WithRoom(h).samples, time)
<1> DEFINE s == h.samples
<1>1. s \in Seq(Entries) /\ Len(s) \in Nat
  BY DEF Histories
<1>2. CASE ~IsFull(h)
  BY <1>2 DEF WithRoom
<1>3. CASE IsFull(h) /\ h.interval < MaxInterval
  <2> DEFINE pairs == [i \in 1..Len(s) \div 2 |-> Pair(s, i)]
  <2>1. Len(s) \div 2 \in Nat /\ \A i \in 1..Len(s) \div 2 : 2 * i \in 1..Len(s)
    BY <1>1, HalfOf
  <2>2. \A i \in 1..Len(s) \div 2 :
            Pair(s, i) \in Entries /\ Pair(s, i).time = s[2 * i].time
    BY <1>1, PairType
  <2>3. pairs \in Seq(Entries) /\ Len(pairs) = Len(s) \div 2
    <3> DEFINE half == Len(s) \div 2
    <3>1. half \in Nat /\ pairs \in [1..half -> Entries]
      BY <2>1, <2>2
    <3> HIDE DEF half, pairs
    <3>2. pairs \in Seq(Entries) /\ Len(pairs) = half
      BY <3>1, FunctionIsSeq
    <3> QED
      BY <3>2 DEF half
  <2>4. \A i \in 1..Len(pairs) : 2 * i \in 1..Len(s) /\ pairs[i].time = s[2 * i].time
    BY <2>1, <2>2, <2>3
  <2>5. Chronological(pairs)
    <3> SUFFICES ASSUME NEW i \in 1..Len(pairs), NEW j \in 1..Len(pairs), i < j
                 PROVE  pairs[i].time < pairs[j].time
      BY DEF Chronological
    <3>1. 2 * i < 2 * j
      BY <2>1, <2>3
    <3> QED
      BY <2>4, <3>1 DEF Chronological
  <2>6. Before(pairs, time)
    BY <2>4 DEF Before
  <2>7. WithRoom(h) = [h EXCEPT !.samples = pairs, !.interval = 2 * @]
    BY <1>3 DEF WithRoom, Compact
  <2>8. WithRoom(h).samples = pairs /\ WithRoom(h) \in Histories
    <3> HIDE DEF pairs
    <3>1. 2 * h.interval \in Nat
      BY DEF Histories
    <3> QED
      BY <2>3, <2>7, <3>1 DEF Histories
  <2> QED
    BY <2>5, <2>6, <2>8
<1>4. CASE IsFull(h) /\ ~(h.interval < MaxInterval)
  <2>1. s # <<>>
    BY <1>1, <1>4, CapacityAssumption DEF IsFull
  <2>2. /\ Tail(s) \in Seq(Entries) /\ Len(Tail(s)) = Len(s) - 1
        /\ \A i \in 1..Len(s) - 1 : Tail(s)[i] = s[i + 1]
    BY <1>1, <2>1
  <2>3. Chronological(Tail(s)) /\ Before(Tail(s), time)
    BY <1>1, <2>2 DEF Chronological, Before
  <2>4. WithRoom(h) = [h EXCEPT !.samples = Tail(s)]
    BY <1>4 DEF WithRoom
  <2>5. WithRoom(h).samples = Tail(s) /\ WithRoom(h) \in Histories
    BY <2>2, <2>4 DEF Histories
  <2> QED
    BY <2>3, <2>5
<1> QED
  BY <1>2, <1>3, <1>4

(* A sample stamped after the last stored one is committed in order. *)
LEMMA CommitKeepsOrder ==
    ASSUME NEW h \in Histories, Chronological(h.samples),
           NEW raw \in Entries, AfterLast(h, raw.time)
    PROVE  Commit(h, raw) \in Histories /\ Chronological(Commit(h, raw).samples)
<1> DEFINE acc == Added(h.acc, raw)
           room == WithRoom([h EXCEPT !.acc = NoneAdded])
           entry == Average(acc, raw.time)
<1>1. acc \in [of : SUBSET Nat, count : Nat]
  BY AddedType DEF Histories
<1>2. raw.time \in Nat /\ h.samples \in Seq(Entries)
  BY DEF Entries, Histories
<1>3. Before(h.samples, raw.time)
  <2> SUFFICES ASSUME NEW i \in 1..Len(h.samples) PROVE h.samples[i].time < raw.time
    BY DEF Before
  <2>1. h.samples # <<>> /\ Len(h.samples) \in 1..Len(h.samples)
    BY <1>2
  <2>2. h.samples[Len(h.samples)].time < raw.time
    BY <2>1 DEF AfterLast
  <2>3. /\ h.samples[i].time \in Nat /\ h.samples[Len(h.samples)].time \in Nat
    <3>1. h.samples[i] \in Entries /\ h.samples[Len(h.samples)] \in Entries
      BY <1>2, <2>1
    <3> QED
      BY <3>1 DEF Entries
  <2>4. i = Len(h.samples) \/ h.samples[i].time < h.samples[Len(h.samples)].time
    BY <1>2, <2>1 DEF Chronological
  <2> QED
    BY <1>2, <2>2, <2>3, <2>4
<1>4. CASE acc.count < h.interval
  <2>1. Commit(h, raw) = [h EXCEPT !.acc = acc]
    BY <1>4 DEF Commit
  <2> QED
    BY <1>1, <2>1 DEF Histories
<1>5. CASE ~(acc.count < h.interval)
  <2>1. [h EXCEPT !.acc = NoneAdded] \in Histories
        /\ [h EXCEPT !.acc = NoneAdded].samples = h.samples
    BY NoneAddedType DEF Histories
  <2>2. room \in Histories /\ Chronological(room.samples) /\ Before(room.samples, raw.time)
    BY <1>2, <1>3, <2>1, RoomKeepsOrder
  <2>3. entry \in Entries /\ entry.time = raw.time
    BY <1>1, <1>2, AverageType
  <2>4. Commit(h, raw) = [room EXCEPT !.samples = Append(@, entry)]
    BY <1>5 DEF Commit
  <2>5. room.samples \in Seq(Entries)
    BY <2>2 DEF Histories
  <2> HIDE DEF room, entry
  <2>6. Commit(h, raw) \in Histories
        /\ Commit(h, raw).samples = Append(room.samples, entry)
    <3>1. Append(room.samples, entry) \in Seq(Entries)
      BY <2>3, <2>5
    <3> QED
      BY <2>2, <2>4, <3>1 DEF Histories
  <2>7. Chronological(Append(room.samples, entry))
    BY <2>2, <2>3, <2>5 DEF Chronological, Before
  <2> QED
    BY <2>6, <2>7
<1> QED
  BY <1>4, <1>5

LEMMA InitOrder == Init => OrderInv
  BY NoneAddedType DEF Init, NewHistory, OrderInv, Histories, Chronological

LEMMA NextOrder == OrderInv /\ [Next]_vars => OrderInv'
<1> SUFFICES ASSUME OrderInv, [Next]_vars PROVE OrderInv'
  OBVIOUS
<1>1. CASE MainTick
  <2>1. CASE Committable(history)
    <3> DEFINE raw == Sample(epoch, {commits + 1})
    <3>1. raw \in Entries /\ raw.time = epoch
      BY DEF Sample, Entries, OrderInv
    <3>2. AfterLast(history, raw.time)
      BY <2>1, <3>1 DEF Committable
    <3>3. history' = Commit(history, raw) /\ commits' = commits + 1 /\ epoch' = epoch
      BY <1>1, <2>1 DEF MainTick
    <3> HIDE DEF raw
    <3> QED
      BY <3>1, <3>2, <3>3, CommitKeepsOrder DEF OrderInv
  <2>2. CASE ~Committable(history)
    BY <1>1, <2>2 DEF MainTick, OrderInv
  <2> QED
    BY <2>1, <2>2
<1>2. CASE Second
  BY <1>2 DEF Second, OrderInv
<1>3. CASE SetClock
  BY <1>3, StaleAssumption DEF SetClock, OrderInv
<1>4. ASSUME NEW p \in Producers, Update(p) PROVE OrderInv'
  BY <1>4 DEF Update, OrderInv, vars
<1>5. CASE UNCHANGED vars
  BY <1>5 DEF vars, OrderInv
<1> QED
  BY <1>1, <1>2, <1>3, <1>4, <1>5 DEF Next

(* However often and wherever the clock is set, and through every compaction  *)
(* and slide, the stored stamps strictly increase.                            *)
THEOREM AlwaysOrdered == Spec => []HistoryOrdered
<1>1. OrderInv => HistoryOrdered
  BY DEF OrderInv, Histories, Chronological, HistoryOrdered, Stored
<1> QED
  BY <1>1, InitOrder, NextOrder, PTL DEF Spec
-----------------------------------------------------------------------------
(* The history covers what was committed. *)

(* Every entry stands for a stretch of what was committed.  A cut tells where *)
(* the stretches end: cut[0] is the last raw sample no longer kept, and entry *)
(* i covers those after cut[i - 1] up to cut[i].                              *)
Stretches(samples, cut) ==
    /\ cut \in [0..Len(samples) -> Nat]
    /\ \A i, j \in 0..Len(samples) : i < j => cut[i] < cut[j]
    /\ \A i \in 1..Len(samples) : samples[i].of = cut[i - 1] + 1 .. cut[i]

(* An entry is full or, if a compaction pushed it, at least half of it.       *)
Filled(n, interval, cut) ==
    \A i \in 1..n : /\ cut[i] - cut[i - 1] <= interval
                    /\ 2 * (cut[i] - cut[i - 1]) >= interval

(* The entries that are not full lack less than one full entry together: what *)
(* they lack doubles with the interval and grows by half of the new one.      *)
NearlyFull(n, interval, cut) == n * interval - (cut[n] - cut[0]) < interval

(* Nothing has been dropped yet, or what is kept is long enough.              *)
LongEnough(cut, upto) ==
    cut[0] = 0 \/ upto - cut[0] >= (HistoryCapacity - 1) * MaxInterval

Covers(h, cut, upto) ==
    LET n == Len(h.samples) IN
    /\ Stretches(h.samples, cut) /\ Filled(n, h.interval, cut)
    /\ NearlyFull(n, h.interval, cut) /\ LongEnough(cut, upto)
    /\ cut[n] <= upto
    /\ h.acc.of = cut[n] + 1 .. upto /\ h.acc.count = upto - cut[n]
    /\ h.acc.count < h.interval

CoverInv == OrderInv /\ \E cut : Covers(history, cut, commits)

LEMMA TimesSucc ==
    ASSUME NEW n \in Int, NEW k \in Int
    PROVE  (n + 1) * k = n * k + k /\ (n - 1) * k = n * k - k
  OBVIOUS

LEMMA HalfTimesTwice ==
    ASSUME NEW n \in Nat, n % 2 = 0, NEW k \in Int
    PROVE  2 * (n \div 2) = n /\ (n \div 2) * (2 * k) = n * k
<1>1. n \div 2 \in Nat /\ 2 * (n \div 2) = n
  OBVIOUS
<1> DEFINE half == n \div 2
<1>2. half * (2 * k) = (2 * half) * k
  <2>1. half \in Nat
    BY <1>1
  <2> HIDE DEF half
  <2> QED
    BY <2>1
<1> QED
  BY <1>1, <1>2

LEMMA OneMoreHalf ==
    ASSUME NEW half \in Nat, NEW n \in Nat, NEW k \in Nat, NEW a \in Nat, NEW b \in Nat,
           half * (2 * k) = n * k, n * k - (b - a) < k
    PROVE  (half + 1) * (2 * k) - (b + k - a) < 2 * k
<1>1. (half + 1) * (2 * k) = half * (2 * k) + 2 * k
  OBVIOUS
<1>2. n * k \in Nat
  OBVIOUS
<1> QED
  BY <1>1, <1>2

LEMMA TwoSpans ==
    ASSUME NEW a \in Nat, NEW b \in Nat, NEW c \in Nat, NEW k \in Nat,
           b - a <= k, 2 * (b - a) >= k, c - b <= k, 2 * (c - b) >= k
    PROVE  c - a <= 2 * k /\ 2 * (c - a) >= 2 * k
  OBVIOUS

LEMMA TimesMonotone ==
    ASSUME NEW n \in Nat, NEW j \in Nat, NEW k \in Nat, j <= k
    PROVE  n * j <= n * k
  OBVIOUS

LEMMA IntervalsJoin ==
    ASSUME NEW a \in Nat, NEW b \in Nat, NEW c \in Nat, a <= b, b <= c
    PROVE  (a + 1 .. b) \cup (b + 1 .. c) = a + 1 .. c
  OBVIOUS

(* A pair of neighbours covers what the two did. *)
LEMMA PairCovers ==
    ASSUME NEW samples \in Seq(Entries), NEW cut, Stretches(samples, cut),
           NEW i \in 1..Len(samples) \div 2
    PROVE  Pair(samples, i).of = cut[2 * i - 2] + 1 .. cut[2 * i]
<1>1. 2 * i - 1 \in 1..Len(samples) /\ 2 * i \in 1..Len(samples) /\ 2 * i - 2 \in 0..Len(samples)
  OBVIOUS
<1>2. samples[2 * i - 1].of = cut[2 * i - 2] + 1 .. cut[2 * i - 1]
  <2>1. (2 * i - 1) - 1 = 2 * i - 2
    BY <1>1
  <2> QED
    BY <1>1, <2>1 DEF Stretches
<1>3. samples[2 * i].of = cut[2 * i - 1] + 1 .. cut[2 * i]
  BY <1>1 DEF Stretches
<1>4. /\ cut[2 * i - 2] \in Nat /\ cut[2 * i - 1] \in Nat /\ cut[2 * i] \in Nat
      /\ cut[2 * i - 2] <= cut[2 * i - 1] /\ cut[2 * i - 1] <= cut[2 * i]
  <2>1. /\ 2 * i - 2 < 2 * i - 1 /\ 2 * i - 1 < 2 * i
        /\ 2 * i - 1 \in 0..Len(samples) /\ 2 * i \in 0..Len(samples)
    BY <1>1
  <2>2. cut[2 * i - 2] < cut[2 * i - 1] /\ cut[2 * i - 1] < cut[2 * i]
    BY <1>1, <2>1 DEF Stretches
  <2>3. cut[2 * i - 2] \in Nat /\ cut[2 * i - 1] \in Nat /\ cut[2 * i] \in Nat
    BY <1>1, <2>1 DEF Stretches
  <2> QED
    BY <2>2, <2>3
<1>5. Pair(samples, i).of = samples[2 * i - 1].of \cup samples[2 * i].of
  BY DEF Pair, Average, Added, NoneAdded, Sample
<1>6. (cut[2 * i - 2] + 1 .. cut[2 * i - 1]) \cup (cut[2 * i - 1] + 1 .. cut[2 * i])
      = cut[2 * i - 2] + 1 .. cut[2 * i]
  <2>1. PICK a \in Nat, b \in Nat, c \in Nat :
            /\ a = cut[2 * i - 2] /\ b = cut[2 * i - 1] /\ c = cut[2 * i]
            /\ a <= b /\ b <= c
    BY <1>4, Zenon
  <2>2. a <= b /\ b <= c
    BY <2>1, Zenon
  <2>3. (a + 1 .. b) \cup (b + 1 .. c) = a + 1 .. c
    BY <2>2, IntervalsJoin
  <2> QED
    BY <2>1, <2>3, Zenon
<1> QED
  BY <1>2, <1>3, <1>5, <1>6, Zenon

(* Making room keeps the stretches: a compaction joins them two by two, a     *)
(* slide drops the first of a buffer that is full of the largest entries.  In *)
(* either there is then room for the entry of an interval about to be pushed. *)
LEMMA RoomCovers ==
    ASSUME NEW h \in Histories, h.interval >= 1, NEW cut, Stretches(h.samples, cut),
           Filled(Len(h.samples), h.interval, cut),
           NearlyFull(Len(h.samples), h.interval, cut),
           LongEnough(cut, cut[Len(h.samples)] + h.interval)
    PROVE  LET room == WithRoom(h)
               m == Len(room.samples)
           IN  \E new :
                /\ Stretches(room.samples, new) /\ Filled(m, room.interval, new)
                /\ new[m] = cut[Len(h.samples)]
                /\ room.interval \in {h.interval, 2 * h.interval}
                /\ (m + 1) * room.interval - (new[m] + h.interval - new[0]) < room.interval
                /\ LongEnough(new, new[m] + h.interval)
<1> DEFINE s == h.samples
           n == Len(s)
           k == h.interval
<1>1. s \in Seq(Entries) /\ n \in Nat /\ k \in Nat
  BY DEF Histories
<1>2. /\ \A i \in 0..n : cut[i] \in Nat
      /\ \A i, j \in 0..n : i < j => cut[i] < cut[j]
      /\ cut[0] \in Nat /\ cut[n] \in Nat /\ cut[0] <= cut[n]
  <2>1. n = 0 \/ 0 < n
    BY <1>1
  <2>2. 0 \in 0..n /\ n \in 0..n
    BY <1>1
  <2>3. \A i \in 0..n : cut[i] \in Nat
    BY DEF Stretches
  <2>4. \A i, j \in 0..n : i < j => cut[i] < cut[j]
    BY DEF Stretches
  <2> QED
    BY <2>1, <2>2, <2>3, <2>4
<1>3. (HistoryCapacity - 1) * MaxInterval \in Nat
  <2>1. HistoryCapacity - 1 \in Nat /\ MaxInterval \in Nat
    BY CapacityAssumption, IntervalAssumption
  <2> QED
    BY <2>1
<1>4. n * k - (cut[n] - cut[0]) < k /\ n * k \in Nat
  BY <1>1 DEF NearlyFull
<1>8. IsFull(h) => n = HistoryCapacity
  BY DEF IsFull
<1>9. /\ Filled(n, k, cut) /\ LongEnough(cut, cut[n] + k)
      /\ \A i \in 1..n : s[i].of = cut[i - 1] + 1 .. cut[i]
  BY DEF Stretches
<1>5. CASE ~IsFull(h)
  <2>1. WithRoom(h) = h
    BY <1>5 DEF WithRoom
  <2>2. (n + 1) * k = n * k + k
    BY <1>1, TimesSucc
  <2>3. (n + 1) * k - (cut[n] + k - cut[0]) < k
    <3>1. PICK full \in Nat : full = n * k
      BY <1>4
    <3>2. full - (cut[n] - cut[0]) < k /\ (n + 1) * k = full + k
      BY <1>4, <2>2, <3>1
    <3> HIDE DEF n, k
    <3> QED
      BY <1>1, <1>2, <3>1, <3>2
  <2>4. LongEnough(cut, cut[n] + k)
    BY <1>9
  <2> QED
    BY <2>1, <2>3, <2>4
<1>6. CASE IsFull(h) /\ h.interval < MaxInterval
  <2> DEFINE half == n \div 2
             pairs == [i \in 1..half |-> Pair(s, i)]
             new == [i \in 0..half |-> cut[2 * i]]
  <2>1. half \in Nat /\ 2 * half = n /\ half * (2 * k) = n * k
    <3>1. n = HistoryCapacity
      BY <1>6, <1>8
    <3>2. HistoryCapacity \in Nat /\ HistoryCapacity % 2 = 0
      BY CapacityAssumption
    <3>3. k \in Int
      BY <1>1
    <3> HIDE DEF n, k
    <3> QED
      BY <3>1, <3>2, <3>3, HalfTimesTwice
  <2>2. WithRoom(h).samples = pairs /\ WithRoom(h).interval = 2 * k
    <3>1. WithRoom(h) = [h EXCEPT !.samples = pairs, !.interval = 2 * @]
      BY <1>6 DEF WithRoom, Compact
    <3> HIDE DEF pairs
    <3> QED
      BY <3>1 DEF Histories
  <2>3. pairs \in [1..half -> Entries]
    BY <1>1, PairType
  <2>12. \A i \in 1..half : pairs[i].of = cut[2 * i - 2] + 1 .. cut[2 * i]
    BY <1>1, PairCovers
  <2> HIDE DEF half
  <2>4. Len(pairs) = half
    <3> HIDE DEF pairs
    <3> QED
      BY <2>1, <2>3, FunctionIsSeq
  <2> HIDE DEF pairs
  <2>5. \A i \in 0..half : 2 * i \in 0..n /\ new[i] = cut[2 * i]
    BY <2>1
  <2>6. \A i \in 1..half : i - 1 \in 0..half /\ 2 * (i - 1) = 2 * i - 2
    BY <2>1
  <2>7. Stretches(pairs, new)
    <3>1. new \in [0..half -> Nat]
      BY <1>2, <2>5
    <3>2. ASSUME NEW i \in 0..half, NEW j \in 0..half, i < j PROVE new[i] < new[j]
      <4>1. 2 * i < 2 * j
        BY <2>1, <3>2
      <4> QED
        BY <1>2, <2>5, <4>1
    <3>3. ASSUME NEW i \in 1..half PROVE pairs[i].of = new[i - 1] + 1 .. new[i]
      <4>1. new[i - 1] = cut[2 * i - 2] /\ new[i] = cut[2 * i]
        BY <2>1, <2>5, <2>6
      <4> QED
        BY <2>12, <4>1
    <3> HIDE DEF new
    <3> QED
      BY <2>4, <3>1, <3>2, <3>3 DEF Stretches
  <2>9. new[half] = cut[n] /\ new[0] = cut[0]
    BY <2>1, <2>5
  <2>13. \A i \in 1..half : new[i - 1] = cut[2 * i - 2] /\ new[i] = cut[2 * i]
    BY <2>1, <2>5, <2>6
  <2> HIDE DEF new, n, k
  <2>8. Filled(half, 2 * k, new)
    <3> SUFFICES ASSUME NEW i \in 1..half
                 PROVE  /\ new[i] - new[i - 1] <= 2 * k
                        /\ 2 * (new[i] - new[i - 1]) >= 2 * k
      BY DEF Filled
    <3>1. 2 * i \in 1..n /\ 2 * i - 1 \in 1..n /\ 2 * i - 2 \in 0..n
      BY <2>1
    <3>2. /\ cut[2 * i - 1] - cut[2 * i - 2] <= k /\ 2 * (cut[2 * i - 1] - cut[2 * i - 2]) >= k
          /\ cut[2 * i] - cut[2 * i - 1] <= k /\ 2 * (cut[2 * i] - cut[2 * i - 1]) >= k
      <4>1. (2 * i - 1) - 1 = 2 * i - 2
        BY <3>1
      <4> QED
        BY <1>9, <3>1, <4>1 DEF Filled
    <3>3. new[i - 1] = cut[2 * i - 2] /\ new[i] = cut[2 * i]
      BY <2>13
    <3>4. cut[2 * i] \in Nat /\ cut[2 * i - 1] \in Nat /\ cut[2 * i - 2] \in Nat
      BY <1>2, <3>1
    <3> QED
      BY <1>1, <3>2, <3>3, <3>4, TwoSpans
  <2>10. (half + 1) * (2 * k) - (new[half] + k - new[0]) < 2 * k
    BY <1>1, <1>2, <1>4, <2>1, <2>9, OneMoreHalf
  <2>11. LongEnough(new, new[half] + k)
    BY <1>1, <1>2, <1>3, <1>9, <2>9 DEF LongEnough
  <2> USE DEF n, k
  <2> QED
    BY <2>2, <2>4, <2>7, <2>8, <2>9, <2>10, <2>11
<1>7. CASE IsFull(h) /\ ~(h.interval < MaxInterval)
  <2> DEFINE m == n - 1
             new == [i \in 0..m |-> cut[i + 1]]
  <2>1. n = HistoryCapacity /\ m \in Nat /\ m + 1 = n /\ s # <<>>
    BY <1>1, <1>7, CapacityAssumption DEF IsFull
  <2>2. WithRoom(h).samples = Tail(s) /\ WithRoom(h).interval = k
    <3>1. WithRoom(h) = [h EXCEPT !.samples = Tail(s)]
      BY <1>7 DEF WithRoom
    <3> QED
      BY <3>1 DEF Histories
  <2>3. Len(Tail(s)) = m /\ \A i \in 1..m : Tail(s)[i] = s[i + 1]
    BY <1>1, <2>1
  <2>4. \A i \in 0..m : i + 1 \in 0..n /\ new[i] = cut[i + 1]
    BY <2>1
  <2>5. \A i \in 1..m : i - 1 \in 0..m /\ new[i - 1] = cut[i] /\ i + 1 \in 1..n /\ (i + 1) - 1 = i
    BY <2>1, <2>4
  <2>6. Stretches(Tail(s), new)
    <3>1. new \in [0..m -> Nat]
      BY <1>2, <2>4
    <3>2. ASSUME NEW i \in 0..m, NEW j \in 0..m, i < j PROVE new[i] < new[j]
      <4>1. i + 1 < j + 1
        BY <3>2
      <4> QED
        BY <1>2, <2>4, <4>1
    <3>3. ASSUME NEW i \in 1..m PROVE Tail(s)[i].of = new[i - 1] + 1 .. new[i]
      <4>1. s[i + 1].of = cut[i] + 1 .. cut[i + 1]
        BY <2>5 DEF Stretches
      <4>2. new[i] = cut[i + 1]
        BY <2>1, <2>4
      <4> QED
        BY <2>3, <2>5, <4>1, <4>2
    <3> HIDE DEF new, m
    <3> QED
      BY <2>3, <3>1, <3>2, <3>3 DEF Stretches
  <2>7. Filled(m, k, new)
    <3> SUFFICES ASSUME NEW i \in 1..m
                 PROVE  new[i] - new[i - 1] <= k /\ 2 * (new[i] - new[i - 1]) >= k
      BY DEF Filled
    <3>1. cut[i + 1] - cut[i] <= k /\ 2 * (cut[i + 1] - cut[i]) >= k
      BY <2>5 DEF Filled
    <3>2. new[i] = cut[i + 1]
      BY <2>1, <2>4
    <3> QED
      BY <2>5, <3>1, <3>2
  <2>8. new[m] = cut[n] /\ new[0] = cut[1] /\ cut[1] \in Nat /\ cut[1] - cut[0] <= k
    <3>1. new[m] = cut[n] /\ new[0] = cut[0 + 1] /\ 1 \in 1..n /\ 1 \in 0..n
      BY <2>1, <2>4
    <3>2. cut[1] - cut[1 - 1] <= k
      BY <3>1 DEF Filled
    <3> QED
      BY <1>2, <3>1, <3>2
  <2> HIDE DEF new, n, k
  <2>9. n * k - (new[m] + k - new[0]) < k
    BY <1>1, <1>2, <1>4, <2>8
  <2>10. LongEnough(new, new[m] + k)
    <3>1. (HistoryCapacity - 1) * k = n * k - k
      BY <1>1, <2>1, TimesSucc
    <3>2. (HistoryCapacity - 1) * MaxInterval <= (HistoryCapacity - 1) * k
      <4>1. MaxInterval \in Nat /\ MaxInterval <= k /\ HistoryCapacity - 1 \in Nat
        BY <1>1, <1>7, CapacityAssumption, IntervalAssumption DEF k
      <4> QED
        BY <1>1, <4>1, TimesMonotone
    <3>3. new[m] + k - new[0] >= n * k - k
      BY <1>1, <1>2, <1>4, <2>8, <2>9
    <3> QED
      BY <1>1, <1>2, <1>3, <1>4, <2>8, <3>1, <3>2, <3>3 DEF LongEnough
  <2> USE DEF n, k
  <2> QED
    BY <2>1, <2>2, <2>3, <2>6, <2>7, <2>8, <2>9, <2>10
<1> QED
  BY <1>5, <1>6, <1>7

(* A commit adds the one raw sample it takes, and an interval that is full    *)
(* becomes the last stretch.                                                  *)
LEMMA CommitCovers ==
    ASSUME NEW h \in Histories, NEW cut, NEW upto \in Nat, Covers(h, cut, upto),
           NEW raw \in Entries, raw.of = {upto + 1}
    PROVE  \E new : Covers(Commit(h, raw), new, upto + 1)
<1> DEFINE n == Len(h.samples)
           k == h.interval
           acc == Added(h.acc, raw)
<1>1. /\ h.samples \in Seq(Entries) /\ n \in Nat /\ k \in Nat
      /\ h.acc \in [of : SUBSET Nat, count : Nat]
  BY DEF Histories
<1>2. /\ Stretches(h.samples, cut) /\ Filled(n, k, cut) /\ NearlyFull(n, k, cut)
      /\ LongEnough(cut, upto) /\ cut[n] <= upto
      /\ h.acc.of = cut[n] + 1 .. upto /\ h.acc.count = upto - cut[n] /\ h.acc.count < k
  BY DEF Covers
<1>3. cut[0] \in Nat /\ cut[n] \in Nat
  <2>1. 0 \in 0..n /\ n \in 0..n
    BY <1>1
  <2> QED
    BY <1>2, <2>1 DEF Stretches
<1>4. (HistoryCapacity - 1) * MaxInterval \in Nat
  <2>1. HistoryCapacity - 1 \in Nat /\ MaxInterval \in Nat
    BY CapacityAssumption, IntervalAssumption
  <2> QED
    BY <2>1
<1>5. acc.of = cut[n] + 1 .. upto + 1 /\ acc.count = upto + 1 - cut[n]
  <2>1. acc.of = h.acc.of \cup {upto + 1} /\ acc.count = h.acc.count + 1
    BY DEF Added
  <2> HIDE DEF n, acc
  <2> QED
    BY <1>2, <1>3, <2>1
<1>8. acc.count < k \/ acc.count = k
  <2> HIDE DEF n, k, acc
  <2>1. acc.count = h.acc.count + 1 /\ h.acc.count \in Nat /\ h.acc.count < k
    BY <1>1, <1>2, <1>3, <1>5
  <2> QED
    BY <1>1, <2>1
<1> HIDE DEF n, k, acc
<1>6. CASE acc.count < k
  <2>1. Commit(h, raw) = [h EXCEPT !.acc = acc]
    BY <1>6 DEF Commit, acc, k
  <2>2. /\ Commit(h, raw).samples = h.samples /\ Commit(h, raw).interval = k
        /\ Commit(h, raw).acc = acc
    BY <2>1 DEF Histories, k
  <2>3. LongEnough(cut, upto + 1)
    BY <1>2, <1>3, <1>4 DEF LongEnough
  <2>4. cut[n] <= upto + 1 /\ acc.of = cut[n] + 1 .. upto + 1
        /\ acc.count = (upto + 1) - cut[n]
    BY <1>2, <1>3, <1>5
  <2> DEFINE result == Commit(h, raw)
  <2>5. Len(result.samples) = n
    BY <2>2 DEF n
  <2>6. Covers(result, cut, upto + 1)
    <3>1. /\ result.samples = h.samples /\ result.interval = k
          /\ result.acc = acc
      BY <2>2
    <3> HIDE DEF result
    <3>2. /\ Stretches(result.samples, cut)
          /\ Filled(Len(result.samples), result.interval, cut)
          /\ NearlyFull(Len(result.samples), result.interval, cut)
      BY <1>2, <2>5, <3>1
    <3>3. /\ cut[Len(result.samples)] <= upto + 1
          /\ result.acc.of = cut[Len(result.samples)] + 1 .. upto + 1
          /\ result.acc.count = (upto + 1) - cut[Len(result.samples)]
          /\ result.acc.count < result.interval
      BY <1>6, <2>4, <2>5, <3>1
    <3> QED
      BY <2>3, <3>2, <3>3, Zenon DEF Covers
  <2> QED
    BY <2>6
<1>7. CASE acc.count = k
  <2> DEFINE emptied == [h EXCEPT !.acc = NoneAdded]
             room == WithRoom(emptied)
             m == Len(room.samples)
             entry == Average(acc, raw.time)
             result == Commit(h, raw)
  <2>1. upto + 1 = cut[n] + k /\ k >= 1
    <3>1. upto + 1 - cut[n] = k
      BY <1>5, <1>7
    <3> QED
      BY <1>1, <1>2, <1>3, <3>1
  <2>2. emptied \in Histories /\ emptied.samples = h.samples /\ emptied.interval = k
    BY NoneAddedType DEF Histories, k
  <2>3. LongEnough(cut, cut[n] + k)
    <3>1. LongEnough(cut, upto + 1)
      BY <1>2, <1>3, <1>4 DEF LongEnough
    <3> QED
      BY <2>1, <3>1
  <2>4. PICK old :
            /\ Stretches(room.samples, old) /\ Filled(m, room.interval, old)
            /\ old[m] = cut[n]
            /\ room.interval \in {k, 2 * k}
            /\ (m + 1) * room.interval - (old[m] + k - old[0]) < room.interval
            /\ LongEnough(old, old[m] + k)
    <3> HIDE DEF emptied
    <3>1. LET r == WithRoom(emptied)
              l == Len(r.samples)
          IN  \E new :
            /\ Stretches(r.samples, new) /\ Filled(l, r.interval, new)
            /\ new[l] = cut[Len(emptied.samples)]
            /\ r.interval \in {emptied.interval, 2 * emptied.interval}
            /\ (l + 1) * r.interval - (new[l] + emptied.interval - new[0]) < r.interval
            /\ LongEnough(new, new[l] + emptied.interval)
      BY <1>2, <2>1, <2>2, <2>3, RoomCovers DEF n
    <3> QED
      BY <2>2, <3>1 DEF n
  <2>5. room \in Histories
    <3> HIDE DEF emptied
    <3> QED
      BY <2>2, RoomType
  <2>6. result = [room EXCEPT !.samples = Append(@, entry)]
    <3>1. ~(acc.count < k)
      BY <1>1, <1>7
    <3> QED
      BY <3>1 DEF Commit, acc, k
  <2>7. entry.of = cut[n] + 1 .. upto + 1
    BY <1>5 DEF Average, Sample
  <2>8. room.acc = NoneAdded
    BY DEF WithRoom, Compact, Histories
  <2> HIDE DEF emptied, room, entry, result
  <2>9. /\ room.samples \in Seq(Entries) /\ m \in Nat /\ room.interval \in Nat
    BY <2>5 DEF Histories
  <2>10. /\ result.samples = Append(room.samples, entry) /\ result.interval = room.interval
         /\ result.acc = NoneAdded
    BY <2>5, <2>6, <2>8 DEF Histories
  <2>11. /\ Len(result.samples) = m + 1
         /\ \A i \in 1..m : result.samples[i] = room.samples[i]
         /\ result.samples[m + 1] = entry
    BY <2>9, <2>10
  <2> DEFINE new == [i \in 0..m + 1 |-> IF i = m + 1 THEN upto + 1 ELSE old[i]]
  <2>12. /\ \A i \in 0..m : new[i] = old[i] /\ old[i] \in Nat
         /\ new[m + 1] = upto + 1 /\ 0 \in 0..m /\ m \in 0..m
    <3>1. \A i \in 0..m : i # m + 1 /\ i \in 0..m + 1
      BY <2>9
    <3>2. 0 \in 0..m /\ m \in 0..m /\ m + 1 \in 0..m + 1
      BY <2>9
    <3>3. \A i \in 0..m : old[i] \in Nat
      BY <2>4 DEF Stretches
    <3> HIDE DEF m
    <3> QED
      BY <3>1, <3>2, <3>3
  <2> HIDE DEF m
  <2>14. new \in [0..m + 1 -> Nat]
    <3>1. \A i \in 0..m + 1 : i = m + 1 \/ (i \in 0..m /\ i # m + 1)
      BY <2>9
    <3>2. ASSUME NEW i \in 0..m + 1
          PROVE  (IF i = m + 1 THEN upto + 1 ELSE old[i]) \in Nat
      <4>1. i \in 0..m => old[i] \in Nat
        BY <2>12
      <4> QED
        BY <3>1, <4>1
    <3> QED
      BY <3>2, Zenon
  <2> HIDE DEF new
  <2>13. old[m] \in Nat /\ old[m] + k = upto + 1 /\ old[m] < upto + 1
    BY <1>1, <2>1, <2>4, <2>12
  <2>15. ASSUME NEW i \in 0..m + 1, NEW j \in 0..m + 1, i < j PROVE new[i] < new[j]
    <3>1. i \in 0..m
      BY <2>9, <2>15
    <3>2. CASE j \in 0..m
      BY <2>4, <2>12, <2>15, <3>1, <3>2 DEF Stretches, m
    <3>3. CASE j = m + 1
      <4>1. i = m \/ i < m
        BY <2>9, <3>1
      <4>2. i < m => old[i] < old[m]
        BY <2>4, <2>12, <3>1 DEF Stretches, m
      <4> QED
        BY <2>12, <2>13, <3>1, <3>3, <4>1, <4>2
    <3> QED
      BY <2>9, <2>15, <3>2, <3>3
  <2>16. ASSUME NEW i \in 1..m + 1
         PROVE  /\ result.samples[i].of = new[i - 1] + 1 .. new[i]
                /\ new[i] - new[i - 1] <= room.interval
                /\ 2 * (new[i] - new[i - 1]) >= room.interval
    <3>1. CASE i \in 1..m
      <4>1. i \in 0..m /\ i - 1 \in 0..m
        BY <2>9, <3>1
      <4>2. room.samples[i].of = old[i - 1] + 1 .. old[i]
        BY <2>4, <3>1 DEF Stretches, m
      <4>3. old[i] - old[i - 1] <= room.interval /\ 2 * (old[i] - old[i - 1]) >= room.interval
        BY <2>4, <3>1 DEF Filled
      <4> QED
        BY <2>11, <2>12, <3>1, <4>1, <4>2, <4>3
    <3>2. CASE i = m + 1
      <4>1. i - 1 = m
        BY <2>9, <3>2
      <4>2. new[i - 1] = cut[n] /\ new[i] = cut[n] + k
        BY <2>1, <2>4, <2>12, <3>2, <4>1
      <4>3. result.samples[i].of = cut[n] + 1 .. cut[n] + k
        BY <2>1, <2>7, <2>11, <3>2
      <4>4. new[i] - new[i - 1] = k
        BY <1>1, <1>3, <4>2
      <4> QED
        BY <1>1, <2>4, <4>2, <4>3, <4>4
    <3> QED
      BY <2>9, <3>1, <3>2
  <2>17. Stretches(result.samples, new)
    BY <2>11, <2>14, <2>15, <2>16 DEF Stretches
  <2>18. Filled(m + 1, result.interval, new)
    BY <2>10, <2>16 DEF Filled
  <2>19. NearlyFull(m + 1, result.interval, new)
    <3>1. new[m + 1] - new[0] = old[m] + k - old[0]
      <4>1. new[m + 1] = old[m] + k /\ new[0] = old[0]
        BY <2>12, <2>13
      <4>2. old[m] \in Nat /\ old[0] \in Nat /\ k \in Nat
        BY <1>1, <2>12, <2>13
      <4> QED
        BY <4>1, <4>2
    <3> QED
      BY <2>4, <2>10, <3>1 DEF NearlyFull
  <2>20. LongEnough(new, upto + 1)
    BY <2>4, <2>12, <2>13 DEF LongEnough
  <2>21. result.acc.of = new[m + 1] + 1 .. upto + 1 /\ result.acc.count = (upto + 1) - new[m + 1]
    BY <2>10, <2>12 DEF NoneAdded
  <2>22. 0 < result.interval
    BY <1>1, <2>1, <2>4, <2>10
  <2>23. Covers(result, new, upto + 1)
    <3>1. Len(result.samples) = m + 1
      BY <2>11
    <3>2. new[Len(result.samples)] <= upto + 1
      BY <2>12, <3>1
    <3>3. result.acc.count < result.interval
      BY <2>10, <2>22 DEF NoneAdded
    <3>4. /\ Filled(Len(result.samples), result.interval, new)
          /\ NearlyFull(Len(result.samples), result.interval, new)
          /\ result.acc.of = new[Len(result.samples)] + 1 .. upto + 1
          /\ result.acc.count = (upto + 1) - new[Len(result.samples)]
      BY <2>18, <2>19, <2>21, <3>1, Zenon
    <3> QED
      BY <2>17, <2>20, <3>2, <3>3, <3>4, Zenon DEF Covers
  <2> QED
    BY <2>23 DEF result
<1> QED
  BY <1>6, <1>7, <1>8

LEMMA InitCovers == Init => CoverInv
<1> SUFFICES ASSUME Init PROVE \E cut : Covers(history, cut, commits)
  BY InitOrder DEF CoverInv
<1> DEFINE cut == [i \in 0..0 |-> 0]
<1>1. /\ history.samples = <<>> /\ history.interval = 1 /\ history.acc = NoneAdded
      /\ commits = 0 /\ Len(history.samples) = 0
  BY DEF Init, NewHistory
<1>2. cut \in [0..0 -> Nat] /\ cut[0] = 0 /\ \A i \in 0..0 : i = 0
  OBVIOUS
<1> HIDE DEF cut
<1>3. Covers(history, cut, commits)
  BY <1>1, <1>2 DEF Covers, Stretches, Filled, NearlyFull, LongEnough, NoneAdded
<1> QED
  BY <1>3

LEMMA NextCovers == CoverInv /\ [Next]_vars => CoverInv'
<1> SUFFICES ASSUME CoverInv, [Next]_vars
             PROVE  \E cut : Covers(history', cut, commits')
  BY NextOrder DEF CoverInv
<1>1. PICK cut : Covers(history, cut, commits)
  BY DEF CoverInv
<1>2. CASE UNCHANGED <<history, commits>>
  BY <1>1, <1>2
<1>3. CASE MainTick /\ Committable(history)
  <2> DEFINE raw == Sample(epoch, {commits + 1})
  <2>1. /\ raw \in Entries /\ raw.of = {commits + 1}
        /\ history \in Histories /\ commits \in Nat
    BY DEF Sample, Entries, CoverInv, OrderInv
  <2>2. history' = Commit(history, raw) /\ commits' = commits + 1
    BY <1>3 DEF MainTick
  <2> HIDE DEF raw
  <2> QED
    BY <1>1, <2>1, <2>2, CommitCovers
<1>4. UNCHANGED <<history, commits>> \/ (MainTick /\ Committable(history))
  BY DEF Next, MainTick, Second, SetClock, Update, vars
<1> QED
  BY <1>2, <1>3, <1>4

(* Wherever a number lies between two ends of a rising cut, it lies in one of *)
(* the stretches between them.                                                *)
LEMMA InOneStretch ==
    ASSUME NEW n \in Nat, NEW cut \in [0..n -> Nat], NEW i \in 0..n,
           NEW m \in Nat, cut[i] < m, m <= cut[n]
    PROVE  \E j \in i + 1..n : cut[j - 1] < m /\ m <= cut[j]
<1> SUFFICES ASSUME \A j \in i + 1..n : ~(cut[j - 1] < m /\ m <= cut[j])
             PROVE  FALSE
  OBVIOUS
<1> DEFINE S == {k \in Nat : i + k <= n => cut[i + k] < m}
<1>1. 0 \in S
  OBVIOUS
<1>2. ASSUME NEW k \in Nat, k \in S PROVE k + 1 \in S
  <2> SUFFICES ASSUME i + (k + 1) <= n PROVE cut[i + (k + 1)] < m
    OBVIOUS
  <2> DEFINE j == i + (k + 1)
  <2>1. j \in i + 1..n /\ j - 1 = i + k /\ j \in 0..n
    OBVIOUS
  <2>2. cut[j - 1] < m
    BY <1>2, <2>1
  <2> HIDE DEF j
  <2>3. cut[j] \in Nat /\ ~(m <= cut[j])
    BY <2>1, <2>2
  <2>4. cut[j] < m
    BY <2>3
  <2> QED
    BY <2>4 DEF j
<1>3. n - i \in S
  <2>1. n - i \in Nat
    OBVIOUS
  <2> HIDE DEF S
  <2> QED
    BY <1>1, <1>2, <2>1, SetInduction
<1> QED
  BY <1>3

(* What the entries from i on and the accumulation cover. *)
LEMMA StretchesFrom ==
    ASSUME NEW h \in Histories, NEW cut, NEW upto \in Nat, Covers(h, cut, upto),
           NEW i \in 1..Len(h.samples) + 1
    PROVE  (UNION {h.samples[j].of : j \in i..Len(h.samples)}) \cup h.acc.of
           = cut[i - 1] + 1 .. upto
<1> DEFINE n == Len(h.samples)
           from == (UNION {h.samples[j].of : j \in i..n}) \cup h.acc.of
<1>1. n \in Nat /\ i - 1 \in 0..n /\ n \in 0..n
  BY DEF Histories
<1>2. /\ cut \in [0..n -> Nat]
      /\ \A j, k \in 0..n : j < k => cut[j] < cut[k]
      /\ \A j \in 1..n : h.samples[j].of = cut[j - 1] + 1 .. cut[j]
      /\ cut[n] <= upto /\ h.acc.of = cut[n] + 1 .. upto
  BY DEF Covers, Stretches
<1>3. \A j, k \in 0..n : j <= k => cut[j] <= cut[k]
  <2> SUFFICES ASSUME NEW j \in 0..n, NEW k \in 0..n, j <= k PROVE cut[j] <= cut[k]
    OBVIOUS
  <2>1. j = k \/ j < k
    OBVIOUS
  <2>2. cut[j] \in Nat /\ cut[k] \in Nat
    BY <1>2
  <2> QED
    BY <1>2, <2>1, <2>2
<1> HIDE DEF n
<1>4. ASSUME NEW m \in from PROVE m \in cut[i - 1] + 1 .. upto
  <2>1. CASE m \in h.acc.of
    <3>1. cut[i - 1] <= cut[n] /\ cut[i - 1] \in Nat /\ cut[n] \in Nat
      BY <1>1, <1>2, <1>3
    <3> QED
      BY <1>2, <2>1, <3>1
  <2>2. ASSUME NEW j \in i..n, m \in h.samples[j].of PROVE m \in cut[i - 1] + 1 .. upto
    <3>1. j \in 1..n /\ j - 1 \in 0..n /\ j \in 0..n /\ i - 1 <= j - 1 /\ j <= n
      BY <1>1
    <3>2. m \in cut[j - 1] + 1 .. cut[j]
      BY <1>2, <2>2, <3>1
    <3>3. /\ cut[i - 1] \in Nat /\ cut[j - 1] \in Nat /\ cut[j] \in Nat /\ cut[n] \in Nat
          /\ cut[i - 1] <= cut[j - 1] /\ cut[j] <= cut[n]
      BY <1>1, <1>2, <1>3, <3>1
    <3> QED
      BY <1>2, <3>2, <3>3
  <2> QED
    BY <2>1, <2>2
<1>5. ASSUME NEW m \in cut[i - 1] + 1 .. upto PROVE m \in from
  <2>1. cut[i - 1] \in Nat /\ cut[n] \in Nat /\ m \in Nat /\ cut[i - 1] < m /\ m <= upto
    BY <1>1, <1>2
  <2>2. CASE m <= cut[n]
    <3>1. PICK j \in (i - 1) + 1..n : cut[j - 1] < m /\ m <= cut[j]
      BY <1>1, <1>2, <2>1, <2>2, InOneStretch
    <3>2. j \in i..n /\ j \in 1..n /\ j - 1 \in 0..n /\ j \in 0..n
      BY <1>1
    <3>3. cut[j - 1] \in Nat /\ cut[j] \in Nat
      BY <1>2, <3>2
    <3>4. m \in h.samples[j].of
      <4>1. h.samples[j].of = cut[j - 1] + 1 .. cut[j]
        BY <1>2, <3>2
      <4> QED
        BY <2>1, <3>1, <3>3, <4>1
    <3> QED
      BY <3>2, <3>4
  <2>3. CASE m > cut[n]
    BY <1>2, <2>1, <2>3
  <2> QED
    BY <2>1, <2>2, <2>3
<1> QED
  BY <1>4, <1>5 DEF n

LEMMA CoverIsContiguous == CoverInv => Contiguous
<1> SUFFICES ASSUME CoverInv PROVE Contiguous
  OBVIOUS
<1>1. PICK cut : Covers(history, cut, commits)
  BY DEF CoverInv
<1> DEFINE n == Len(history.samples)
           spans == [i \in Stored |-> history.samples[i].of] \o <<history.acc.of>>
           before(i) == UNION {spans[j] : j \in i..Len(spans)}
<1>2. history \in Histories /\ commits \in Nat /\ n \in Nat
  BY DEF CoverInv, OrderInv, Histories
<1>3. /\ cut \in [0..n -> Nat]
      /\ \A j, k \in 0..n : j < k => cut[j] < cut[k]
      /\ \A j \in 1..n : history.samples[j].of = cut[j - 1] + 1 .. cut[j]
      /\ cut[n] <= commits /\ history.acc.of = cut[n] + 1 .. commits
  BY <1>1 DEF Covers, Stretches
<1>4. /\ Len(spans) = n + 1 /\ spans[n + 1] = history.acc.of
      /\ \A j \in 1..n : spans[j] = history.samples[j].of
  <2> DEFINE stored == [i \in 1..n |-> history.samples[i].of]
  <2> HIDE DEF n
  <2>1. stored \in [1..n -> SUBSET Int]
    BY <1>2, <1>3
  <2>2. stored \in Seq(SUBSET Int) /\ Len(stored) = n
    <3> HIDE DEF stored
    <3> QED
      BY <1>2, <2>1, FunctionIsSeq
  <2>3. spans = stored \o <<history.acc.of>>
    BY DEF Stored, n
  <2>4. \A j \in 1..n : stored[j] = history.samples[j].of
    OBVIOUS
  <2>5. history.acc.of \in SUBSET Int
    BY <1>2, <1>3
  <2> HIDE DEF stored, spans
  <2> QED
    BY <1>2, <2>2, <2>3, <2>4, <2>5, OneMore
<1> HIDE DEF spans
<1>5. ASSUME NEW i \in 1..n + 1
      PROVE  before(i) = cut[i - 1] + 1 .. commits
  <2>1. before(i) = (UNION {history.samples[j].of : j \in i..n}) \cup history.acc.of
    <3>1. i..Len(spans) = (i..n) \cup {n + 1} /\ \A j \in i..n : j \in 1..n
      BY <1>2, <1>4
    <3>2. \A j \in i..n : spans[j] = history.samples[j].of
      BY <1>4, <3>1
    <3>3. spans[n + 1] = history.acc.of
      BY <1>4
    <3> HIDE DEF n
    <3>4. ASSUME NEW x \in before(i)
          PROVE  x \in (UNION {history.samples[j].of : j \in i..n}) \cup history.acc.of
      <4>1. PICK j \in i..Len(spans) : x \in spans[j]
        OBVIOUS
      <4>2. j \in i..n \/ j = n + 1
        BY <3>1
      <4> QED
        BY <3>2, <3>3, <4>1, <4>2, Zenon
    <3>5. ASSUME NEW x \in (UNION {history.samples[j].of : j \in i..n}) \cup history.acc.of
          PROVE  x \in before(i)
      <4>1. CASE x \in history.acc.of
        BY <3>1, <3>3, <4>1, Zenon
      <4>2. ASSUME NEW j \in i..n, x \in history.samples[j].of PROVE x \in before(i)
        BY <3>1, <3>2, <4>2, Zenon
      <4> QED
        BY <4>1, <4>2
    <3> QED
      BY <3>4, <3>5
  <2>2. (UNION {history.samples[j].of : j \in i..n}) \cup history.acc.of
        = cut[i - 1] + 1 .. commits
    BY <1>1, <1>2, StretchesFrom
  <2> HIDE DEF before
  <2> QED
    BY <2>1, <2>2
<1>6. \A i \in 1..n + 1 : i - 1 \in 0..n /\ cut[i - 1] \in Nat /\ cut[i - 1] <= commits
  <2> SUFFICES ASSUME NEW i \in 1..n + 1
               PROVE  i - 1 \in 0..n /\ cut[i - 1] \in Nat /\ cut[i - 1] <= commits
    OBVIOUS
  <2>1. i - 1 \in 0..n /\ n \in 0..n /\ (i - 1 = n \/ i - 1 < n)
    BY <1>2
  <2>2. cut[i - 1] \in Nat /\ cut[n] \in Nat /\ (i - 1 = n \/ cut[i - 1] < cut[n])
    BY <1>3, <2>1
  <2> QED
    BY <1>2, <1>3, <2>1, <2>2
<1> HIDE DEF n, before
<1>7. ASSUME NEW i \in 1..n + 1
      PROVE  before(i) = commits - Cardinality(before(i)) + 1 .. commits
  <2> DEFINE a == cut[i - 1]
  <2>1. a \in Nat /\ a <= commits /\ before(i) = a + 1 .. commits
    BY <1>5, <1>6
  <2> HIDE DEF a
  <2>2. Cardinality(a + 1 .. commits) = IF a + 1 > commits THEN 0 ELSE commits - (a + 1) + 1
    BY <1>2, <2>1, FS_Interval
  <2>3. Cardinality(a + 1 .. commits) = commits - a
    BY <1>2, <2>1, <2>2
  <2>4. commits - (commits - a) + 1 = a + 1
    BY <1>2, <2>1
  <2> QED
    BY <2>1, <2>3, <2>4
<1>8. ASSUME NEW i \in 1..n + 1, NEW j \in 1..i - 1
      PROVE  spans[j] \cap spans[i] = {}
  <2>1. /\ j \in 1..n /\ j \in 0..n /\ j - 1 \in 0..n /\ i - 1 \in 0..n
        /\ (j = i - 1 \/ j < i - 1)
    BY <1>2
  <2>2. cut[j] \in Nat /\ cut[i - 1] \in Nat /\ cut[j] <= cut[i - 1]
    BY <1>3, <2>1
  <2>3. spans[j] = cut[j - 1] + 1 .. cut[j]
    BY <1>3, <1>4, <2>1
  <2>4. \A m \in spans[i] : cut[i - 1] < m
    <3>1. CASE i \in 1..n
      <4>1. spans[i] = cut[i - 1] + 1 .. cut[i]
        BY <1>3, <1>4, <3>1
      <4> QED
        BY <2>2, <4>1
    <3>2. CASE i = n + 1
      <4>1. spans[i] = cut[n] + 1 .. commits /\ i - 1 = n
        BY <1>2, <1>3, <1>4, <3>2
      <4> QED
        BY <2>2, <4>1
    <3> QED
      BY <1>2, <3>1, <3>2
  <2>5. cut[j - 1] \in Nat
    BY <1>3, <2>1
  <2> QED
    BY <2>2, <2>3, <2>4, <2>5
<1>9. Len(spans) = n + 1
  BY <1>4
<1> QED
  BY <1>7, <1>8, <1>9 DEF Contiguous, before, spans

LEMMA CoverIsLong == CoverInv => SpanIsKept
<1> SUFFICES ASSUME CoverInv PROVE SpanIsKept
  OBVIOUS
<1>1. PICK cut : Covers(history, cut, commits)
  BY DEF CoverInv
<1> DEFINE n == Len(history.samples)
           k == history.interval
<1>2. history \in Histories /\ commits \in Nat /\ n \in Nat /\ k \in Nat /\ Stored = 1..n
  BY DEF CoverInv, OrderInv, Histories, Stored
<1>3. /\ cut \in [0..n -> Nat]
      /\ \A i, j \in 0..n : i < j => cut[i] < cut[j]
      /\ \A i \in 1..n : history.samples[i].of = cut[i - 1] + 1 .. cut[i]
      /\ cut[n] <= commits /\ Filled(n, k, cut) /\ LongEnough(cut, commits)
  BY <1>1 DEF Covers, Stretches
<1>4. EveryOf = cut[0] + 1 .. commits
  <2>1. (UNION {history.samples[j].of : j \in 1..n}) \cup history.acc.of
        = cut[1 - 1] + 1 .. commits
    BY <1>1, <1>2, StretchesFrom
  <2> QED
    BY <1>2, <2>1 DEF EveryOf
<1> HIDE DEF n, k
<1>5. cut[0] \in Nat /\ cut[0] <= commits
  <2>1. 0 \in 0..n /\ n \in 0..n /\ (n = 0 \/ 0 < n)
    BY <1>2
  <2>2. cut[0] \in Nat /\ cut[n] \in Nat /\ (n = 0 \/ cut[0] < cut[n])
    BY <1>3, <2>1
  <2> QED
    BY <1>2, <1>3, <2>2
<1>6. Cardinality(EveryOf) >= Least(commits, (HistoryCapacity - 1) * MaxInterval)
  <2> DEFINE enough == (HistoryCapacity - 1) * MaxInterval
  <2>1. enough \in Nat
    <3>1. HistoryCapacity - 1 \in Nat /\ MaxInterval \in Nat
      BY CapacityAssumption, IntervalAssumption
    <3> QED
      BY <3>1
  <2>2. cut[0] = 0 \/ commits - cut[0] >= enough
    BY <1>3 DEF LongEnough
  <2> HIDE DEF enough
  <2>3. Cardinality(cut[0] + 1 .. commits) = commits - cut[0]
    <3>1. cut[0] + 1 \in Int /\ commits \in Int
      BY <1>2, <1>5
    <3>2. Cardinality(cut[0] + 1 .. commits)
          = IF cut[0] + 1 > commits THEN 0 ELSE commits - (cut[0] + 1) + 1
      BY <3>1, FS_Interval
    <3> QED
      BY <1>2, <1>5, <3>2
  <2>4. commits - cut[0] >= Least(commits, enough)
    BY <1>2, <1>5, <2>1, <2>2 DEF Least
  <2> QED
    BY <1>4, <2>3, <2>4 DEF enough
<1>7. ASSUME NEW i \in 1..n
      PROVE  /\ Cardinality(history.samples[i].of) <= k
             /\ 2 * Cardinality(history.samples[i].of) >= k
  <2>1. i - 1 \in 0..n /\ i \in 0..n /\ i - 1 < i
    BY <1>2
  <2>2. cut[i - 1] \in Nat /\ cut[i] \in Nat /\ cut[i - 1] < cut[i]
    BY <1>3, <2>1
  <2>3. Cardinality(cut[i - 1] + 1 .. cut[i])
        = IF cut[i - 1] + 1 > cut[i] THEN 0 ELSE cut[i] - (cut[i - 1] + 1) + 1
    <3>1. cut[i - 1] + 1 \in Int /\ cut[i] \in Int
      BY <2>2
    <3> QED
      BY <3>1, FS_Interval
  <2>4. Cardinality(history.samples[i].of) = cut[i] - cut[i - 1]
    BY <1>3, <2>2, <2>3
  <2> QED
    BY <1>3, <2>4 DEF Filled
<1> QED
  BY <1>2, <1>6, <1>7 DEF SpanIsKept, k

(* No raw sample is lost or counted twice: through every accumulation,        *)
(* compaction and slide the entries and what is being accumulated cover       *)
(* consecutive stretches of what was committed, up to the last one.           *)
THEOREM NothingLostOrTwice == Spec => []Contiguous
  BY InitCovers, NextCovers, CoverIsContiguous, PTL DEF Spec

(* Nothing is dropped but by a window that keeps a whole charge cycle, and    *)
(* every entry stands for at least half an interval, however many compactions *)
(* pushed a half one.                                                         *)
THEOREM HistoryIsLong == Spec => []SpanIsKept
  BY InitCovers, NextCovers, CoverIsLong, PTL DEF Spec

-----------------------------------------------------------------------------
(* The readings and their clocks. *)

(* The types the argument needs; the history is not among them. *)
ClocksOK ==
    /\ stale \in [Producers -> 0..DurationMax]
    /\ age \in [Producers -> Nat]
    /\ latest \in [Producers -> {None, "Live", "On", "Off"}]
    /\ since \in Nat /\ shown \in Nat

(* A clock inside the window trails the age of its reading by no more than    *)
(* the iteration the main loop has not charged yet.                           *)
ClocksTrail ==
    \A p \in Producers : stale[p] <= StaleWindow => age[p] <= stale[p] + since

IInv == ClocksOK /\ ClocksTrail /\ shown <= StaleWindow

LEMMA LeastOfTwo ==
    ASSUME NEW a \in Nat, NEW b \in Nat
    PROVE  Least(a, b) \in Nat /\ Least(a, b) <= a /\ Least(a, b) <= b
           /\ (Least(a, b) = a \/ Least(a, b) = b)
  BY DEF Least

LEMMA InitIInv == Init => IInv
<1>1. Ancient \in Nat
  BY StaleAssumption DEF Ancient
<1> QED
  BY <1>1, StaleAssumption DEF Init, IInv, ClocksOK, ClocksTrail, None

(* An accepted reading starts again with its clock at zero. *)
LEMMA UpdateIInv == ASSUME IInv, NEW p \in Producers, Update(p) PROVE IInv'
<1> USE StaleAssumption DEF IInv, ClocksOK
<1>1. PICK reading \in Readings[p] \cup {NotFinite} :
        IF reading = NotFinite THEN UNCHANGED vars
        ELSE /\ latest' = [latest EXCEPT ![p] = reading]
             /\ stale' = [stale EXCEPT ![p] = 0]
             /\ age' = [age EXCEPT ![p] = 0]
             /\ UNCHANGED <<history, since, epoch, steps, commits, shown>>
  BY DEF Update
<1>2. CASE reading = NotFinite
  BY <1>1, <1>2 DEF vars, ClocksTrail
<1>3. CASE reading # NotFinite
  <2>1. reading \in {"Live", "On", "Off"}
    BY <1>3, p \in {"battery", "ps"} DEF Readings
  <2>2. ClocksOK'
    BY <1>1, <1>3, <2>1
  <2>3. ClocksTrail'
    BY <1>1, <1>3 DEF ClocksTrail
  <2> QED
    BY <1>1, <1>3, <2>2, <2>3
<1> QED
  BY <1>2, <1>3

(* The lap is charged to the clocks before anything is sampled. *)
LEMMA MainTickIInv == ASSUME IInv, MainTick PROVE IInv'
<1> USE StaleAssumption DEF IInv, ClocksOK
<1>1. /\ since' = 0 /\ age' = age /\ latest' = latest
      /\ stale' = Aged(stale, since)
      /\ shown' = shown \/ shown' = IF PowerOnline(stale') THEN age["ps"] ELSE 0
  BY DEF MainTick
<1>2. ASSUME NEW p \in Producers
      PROVE  /\ stale'[p] \in 0..DurationMax
             /\ stale'[p] <= StaleWindow => age[p] <= stale'[p]
  <2>1. stale'[p] = IF stale[p] + since < DurationMax THEN stale[p] + since ELSE DurationMax
    BY <1>1 DEF Aged, Least
  <2>2. stale[p] \in 0..DurationMax /\ age[p] \in Nat
    OBVIOUS
  <2>3. stale[p] <= StaleWindow => age[p] <= stale[p] + since
    BY DEF ClocksTrail
  <2> QED
    BY <2>1, <2>2, <2>3
<1>3. ClocksTrail'
  BY <1>1, <1>2 DEF ClocksTrail
<1>4. shown' \in Nat /\ shown' <= StaleWindow
  <2>1. CASE shown' = shown
    BY <2>1
  <2>2. CASE shown' = IF PowerOnline(stale') THEN age["ps"] ELSE 0
    <3>1. PowerOnline(stale') => stale'["ps"] <= StaleWindow
      BY <1>2 DEF PowerOnline, Reading, None
    <3> QED
      BY <2>2, <3>1, <1>2
  <2> QED
    BY <1>1, <2>1, <2>2
<1>5. stale' \in [Producers -> 0..DurationMax]
  BY <1>1, <1>2 DEF Aged
<1> QED
  BY <1>1, <1>3, <1>4, <1>5

(* The hidden age and the uncharged iteration grow together. *)
LEMMA SecondIInv == ASSUME IInv, Second PROVE IInv'
<1> USE StaleAssumption DEF IInv, ClocksOK
<1>1. since' = since + 1 /\ UNCHANGED <<latest, stale, shown>>
      /\ age' = [p \in Producers |-> Least(age[p] + 1, Ancient)]
  BY DEF Second
<1>2. ASSUME NEW p \in Producers
      PROVE  age'[p] \in Nat /\ age'[p] <= age[p] + 1
  <2>1. age[p] + 1 \in Nat /\ Ancient \in Nat
    BY DEF Ancient
  <2> QED
    BY <1>1, <2>1, LeastOfTwo
<1>3. age' \in [Producers -> Nat]
  BY <1>1, <1>2
<1>4. ClocksTrail'
  BY <1>1, <1>2 DEF ClocksTrail
<1> QED
  BY <1>1, <1>3, <1>4

LEMMA NextIInv == IInv /\ [Next]_vars => IInv'
<1> SUFFICES ASSUME IInv, [Next]_vars PROVE IInv'
  OBVIOUS
<1>1. CASE MainTick
  BY <1>1, MainTickIInv
<1>2. CASE Second
  BY <1>2, SecondIInv
<1>3. CASE SetClock
  BY <1>3 DEF SetClock, IInv, ClocksOK, ClocksTrail
<1>4. ASSUME NEW p \in Producers, Update(p) PROVE IInv'
  BY <1>4, UpdateIInv
<1>5. CASE UNCHANGED vars
  BY <1>5 DEF vars, IInv, ClocksOK, ClocksTrail
<1> QED
  BY <1>1, <1>2, <1>3, <1>4, <1>5 DEF Next

(* From below: until a reading is ancient, its clock and the iteration still  *)
(* to be charged are ahead of its age by no more than one iteration, the one  *)
(* it arrived in.                                                             *)
ClocksLead ==
    /\ since <= LongestLap
    /\ \A p \in Producers :
          latest[p] # None /\ age[p] < Ancient => stale[p] + since <= age[p] + LongestLap

LEMMA NextLeads == IInv /\ ClocksLead /\ [Next]_vars => ClocksLead'
<1> SUFFICES ASSUME IInv, ClocksLead, [Next]_vars PROVE ClocksLead'
  OBVIOUS
<1> USE StaleAssumption DEF IInv, ClocksOK
<1>1. CASE MainTick
  <2>1. since' = 0 /\ age' = age /\ latest' = latest /\ stale' = Aged(stale, since)
    BY <1>1 DEF MainTick
  <2>2. ASSUME NEW p \in Producers
        PROVE  stale'[p] \in Nat /\ stale'[p] <= stale[p] + since
    BY <2>1 DEF Aged, Least
  <2>3. ASSUME NEW p \in Producers, latest[p] # None, age[p] < Ancient
        PROVE  stale'[p] <= age[p] + LongestLap
    <3>1. stale[p] + since <= age[p] + LongestLap
      BY <2>3 DEF ClocksLead
    <3> QED
      BY <2>2, <3>1
  <2>4. Ancient' = Ancient
    BY DEF Ancient
  <2> QED
    BY <2>1, <2>2, <2>3, <2>4 DEF ClocksLead
<1>2. CASE Second
  <2>1. /\ since' = since + 1 /\ since < LongestLap /\ UNCHANGED <<latest, stale>>
        /\ age' = [p \in Producers |-> Least(age[p] + 1, Ancient)]
    BY <1>2 DEF Second
  <2>2. Ancient \in Nat /\ Ancient' = Ancient
    BY DEF Ancient
  <2>3. ASSUME NEW p \in Producers, age'[p] < Ancient
        PROVE  age'[p] = age[p] + 1 /\ age[p] < Ancient
    BY <2>1, <2>2, <2>3 DEF Least
  <2>4. ASSUME NEW p \in Producers, latest[p] # None, age'[p] < Ancient
        PROVE  stale[p] + since' <= age'[p] + LongestLap
    <3>1. stale[p] + since <= age[p] + LongestLap
      BY <2>3, <2>4 DEF ClocksLead
    <3> QED
      BY <2>1, <2>3, <2>4, <3>1
  <2> QED
    BY <2>1, <2>2, <2>4 DEF ClocksLead
<1>3. CASE SetClock
  BY <1>3 DEF SetClock, ClocksLead, Ancient
<1>4. ASSUME NEW p \in Producers, Update(p) PROVE ClocksLead'
  BY <1>4 DEF Update, ClocksLead, Ancient, vars
<1>5. CASE UNCHANGED vars
  BY <1>5 DEF vars, ClocksLead, Ancient
<1> QED
  BY <1>1, <1>2, <1>3, <1>4, <1>5 DEF Next

(* The readings' clocks, charged by the main loop alone, never let a reader   *)
(* see a reading older than the window and the iteration under way, nor the   *)
(* history call the supply online on one older than the window.               *)
THEOREM DeadIsNeverShown == Spec => []DeadIsNotShown
<1>1. IInv => DeadIsNotShown
  <2> SUFFICES ASSUME IInv, NEW p \in Producers, Exposed(p)
               PROVE  age[p] <= StaleWindow + since
    BY DEF DeadIsNotShown, IInv
  <2>1. stale[p] <= StaleWindow
    BY StaleAssumption DEF Exposed, Reading, IInv, ClocksOK
  <2> QED
    BY <2>1, StaleAssumption DEF IInv, ClocksOK, ClocksTrail
<1> QED
  BY <1>1, InitIInv, NextIInv, PTL DEF Spec

(* A reading that keeps coming is never taken for a dead one: whatever part   *)
(* of an iteration it arrives in, being charged the whole of it hides it no   *)
(* sooner than one longest iteration before the window is over.               *)
THEOREM LiveIsAlwaysShown == Spec => []LiveIsShown
<1>1. Init => ClocksLead
  BY StaleAssumption DEF Init, ClocksLead, None
<1>2. IInv /\ ClocksLead => LiveIsShown
  <2> SUFFICES ASSUME IInv, ClocksLead, NEW p \in Producers,
                      latest[p] # None, age[p] + LongestLap <= StaleWindow
               PROVE  Exposed(p)
    BY DEF LiveIsShown
  <2>1. stale[p] \in Nat /\ age[p] \in Nat /\ since \in Nat
    BY StaleAssumption DEF IInv, ClocksOK
  <2>2. age[p] < Ancient
    BY <2>1, StaleAssumption DEF Ancient
  <2>3. stale[p] <= StaleWindow
    BY <2>1, <2>2, StaleAssumption DEF ClocksLead
  <2> QED
    BY <2>1, <2>3, StaleAssumption DEF Exposed, Reading
<1> QED
  BY <1>1, <1>2, InitIInv, NextIInv, NextLeads, PTL DEF Spec
=============================================================================
