------------------------- MODULE Diagnostics_proofs -------------------------
(***************************************************************************)
(* What is proved about the log: for every length of the ring and of the   *)
(* line buffer and every sequence of lines, however long, a reader gets    *)
(* the last bytes accepted, in one cut; and for every size of the event    *)
(* ring and of its counters, every event is counted under its own kind.    *)
(***************************************************************************)
EXTENDS Diagnostics, SequenceTheorems, FiniteSetTheorems, TLAPS

(* The n bytes accepted after the first m. *)
Run(m, n) == [i \in 1..n |-> m + i]

Fewer(m, n) == IF m < n THEN m ELSE n

Rings == [data : [Indices -> Int], head : Indices, wrapped : BOOLEAN]

(* What a ring holds that has accepted a bytes: from the head on the older    *)
(* ones, before it the newer ones, and before it has wrapped nothing older.   *)
Newest(r, a) ==
    /\ a >= Capacity
    /\ \A i \in Indices :
          r.data[i] = IF i < r.head THEN a - r.head + i + 1
                      ELSE a - r.head - Capacity + i + 1

Whole(r, a) == r.head = a /\ \A i \in Indices : i < r.head => r.data[i] = i + 1

Tells(r, a) ==
    /\ r \in Rings /\ a \in Nat
    /\ r.wrapped => Newest(r, a)
    /\ ~r.wrapped => Whole(r, a)

(* What has been sent is the part of the ring the reader still holds locked. *)
StreamFits ==
    \/ reader = Idle
    \/ reader.at = "newer" /\ reader.sent = Older(ring)
    \/ reader.at = "done" /\ reader.sent = Contents(ring)

LogInv == Tells(ring, accepted) /\ StreamFits

-----------------------------------------------------------------------------

LEMMA RunIsSeq ==
    ASSUME NEW m \in Int, NEW n \in Nat
    PROVE  /\ Run(m, n) \in Seq(Int) /\ Len(Run(m, n)) = n
           /\ \A i \in 1..n : Run(m, n)[i] = m + i
BY DEF Run

LEMMA SeqIsRun ==
    ASSUME NEW s \in Seq(Int), NEW m \in Int, NEW n \in Nat,
           Len(s) = n, \A i \in 1..n : s[i] = m + i
    PROVE  s = Run(m, n)
<1>1. Run(m, n) \in Seq(Int) /\ Len(Run(m, n)) = n /\ \A i \in 1..n : Run(m, n)[i] = m + i
    BY RunIsSeq
<1> QED
    BY <1>1

LEMMA RunsJoin ==
    ASSUME NEW m \in Int, NEW k \in Nat, NEW n \in Nat
    PROVE  Run(m, k) \o Run(m + k, n) = Run(m, k + n)
<1>1. PICK s \in Seq(Int) : s = Run(m, k) /\ Len(s) = k /\ \A i \in 1..k : s[i] = m + i
    BY RunIsSeq
<1>2. PICK t \in Seq(Int) :
          t = Run(m + k, n) /\ Len(t) = n /\ \A i \in 1..n : t[i] = m + k + i
    <2>1. m + k \in Int
        OBVIOUS
    <2> QED
        BY <2>1, RunIsSeq
<1>3. PICK both : both = s \o t
    OBVIOUS
<1>4. both \in Seq(Int) /\ Len(both) = Len(s) + Len(t)
    BY <1>3, ConcatProperties
<1>5. \A i \in 1..Len(s) + Len(t) : both[i] = IF i <= Len(s) THEN s[i] ELSE t[i - Len(s)]
    BY <1>3, ConcatProperties
<1>6. Len(s) = k /\ Len(t) = n
    BY <1>1, <1>2
<1>7. ASSUME NEW i \in 1..k + n PROVE both[i] = m + i
    <2>0. both[i] = IF i <= k THEN s[i] ELSE t[i - k]
        BY <1>5, <1>6
    <2>1. CASE i \in 1..k
        BY <1>1, <2>0, <2>1
    <2>2. CASE i \notin 1..k
        <3>1. PICK j \in 1..n : j = i - k /\ ~(i <= k)
            BY <2>2
        <3>2. t[j] = m + k + j
            BY <1>2
        <3> QED
            BY <2>0, <3>1, <3>2
    <2> QED
        BY <2>1, <2>2
<1>8. both = Run(m, k + n)
    <2>1. k + n \in Nat /\ Len(both) = k + n
        BY <1>4, <1>6
    <2> QED
        BY <1>4, <1>7, <2>1, SeqIsRun
<1> QED
    BY <1>1, <1>2, <1>3, <1>8

LEMMA LastOfRun ==
    ASSUME NEW m \in Int, NEW n \in Nat, NEW c \in Nat
    PROVE  LastOf(Run(m, n), c) = Run(m + n - Fewer(n, c), Fewer(n, c))
<1>1. PICK s \in Seq(Int) : s = Run(m, n) /\ Len(s) = n /\ \A i \in 1..n : s[i] = m + i
    BY RunIsSeq
<1>2. CASE n <= c
    <2>1. Fewer(n, c) = n
        BY <1>2 DEF Fewer
    <2>2. m + n - n = m
        OBVIOUS
    <2>3. LastOf(s, c) = s
        BY <1>1, <1>2 DEF LastOf
    <2> QED
        BY <1>1, <2>1, <2>2, <2>3
<1>3. CASE n > c
    <2>1. PICK from \in Nat : from = n - c + 1
        BY <1>3
    <2>2. PICK back : back = SubSeq(s, from, n)
        OBVIOUS
    <2>3. /\ back \in Seq(Int) /\ Len(back) = c
          /\ \A i \in 1..c : back[i] = s[from + i - 1]
        BY <1>1, <1>3, <2>1, <2>2, SubSeqProperties
    <2>4. \A i \in 1..c : back[i] = m + n - c + i
        BY <1>1, <1>3, <2>1, <2>3
    <2>5. back = Run(m + n - c, c)
        BY <2>3, <2>4, SeqIsRun
    <2>6. Fewer(n, c) = c
        BY <1>3 DEF Fewer
    <2>7. LastOf(s, c) = back
        BY <1>1, <1>3, <2>1, <2>2 DEF LastOf
    <2> QED
        BY <1>1, <2>5, <2>6, <2>7
<1> QED
    BY <1>2, <1>3

-----------------------------------------------------------------------------

LEMMA Remainder ==
    ASSUME NEW c \in Nat \ {0}, NEW e \in Nat, e < 2 * c
    PROVE  e % c = IF e < c THEN e ELSE e - c
<1>1. CASE e < c
    BY <1>1
<1>2. CASE e >= c
    BY <1>2
<1> QED
    BY <1>1, <1>2

(* One write, position by position: of a line of n bytes after the first a    *)
(* the last k are kept, from start on and, past the end, at the beginning.    *)
Written(r, a, n, w, k, start) ==
    /\ IF n > Capacity THEN k = Capacity /\ start = 0 ELSE k = n /\ start = r.head
    /\ w \in Rings
    /\ w.head = IF start + k < Capacity THEN start + k ELSE start + k - Capacity
    /\ w.wrapped <=> r.wrapped \/ start + k >= Capacity
    /\ \A i \in Indices : w.data[i] =
           IF start <= i /\ i < start + k THEN a + n - k + (i - start + 1)
           ELSE IF i + Capacity < start + k THEN a + n - k + (i + Capacity - start + 1)
           ELSE r.data[i]

LEMMA WriteShape ==
    ASSUME NEW r \in Rings, NEW a \in Nat, NEW n \in Nat, n > 0
    PROVE  \E k \in 1..Capacity, start \in Indices :
               Written(r, a, n, Write(r, Run(a, n)), k, start)
<1> USE RingAssumption
<1>1. PICK k \in 1..Capacity : k = Fewer(n, Capacity) /\ (IF n > Capacity THEN k = Capacity ELSE k = n)
    BY DEF Fewer
<1>2. PICK line : line = Run(a, n)
    OBVIOUS
<1>3. line \in Seq(Int) /\ Len(line) = n
    BY <1>2, RunIsSeq
<1>4. PICK m \in Int : m = a + n - k
    OBVIOUS
<1>5. PICK kept \in Seq(Int) : kept = Run(m, k) /\ Len(kept) = k /\ \A i \in 1..k : kept[i] = m + i
    BY <1>1, RunIsSeq
<1>6. LastOf(line, Capacity) = kept
    BY <1>1, <1>2, <1>4, <1>5, LastOfRun
<1>7. PICK start \in Indices :
          start = Start(r, line) /\ (IF n > Capacity THEN start = 0 ELSE start = r.head)
    BY <1>3 DEF Start, Rings, Indices
<1>8. PICK end \in Nat : end = start + k /\ end < 2 * Capacity
    BY DEF Indices
<1>9. PICK w : w = Write(r, line)
    OBVIOUS
<1>10. w = [data |-> [i \in Indices |->
                        IF start <= i /\ i < end THEN kept[i - start + 1]
                        ELSE IF i + Capacity < end THEN kept[i + Capacity - start + 1]
                        ELSE r.data[i]],
            head |-> end % Capacity,
            wrapped |-> (r.wrapped \/ end >= Capacity)]
    BY <1>5, <1>6, <1>7, <1>8, <1>9 DEF Write, Wraps
<1>11. w.head = IF end < Capacity THEN end ELSE end - Capacity
    <2>1. w.head = end % Capacity
        BY <1>10
    <2> QED
        BY <1>8, <2>1, Remainder
<1>12. ASSUME NEW i \in Indices
       PROVE  /\ w.data[i] = IF start <= i /\ i < end THEN m + (i - start + 1)
                             ELSE IF i + Capacity < end THEN m + (i + Capacity - start + 1)
                             ELSE r.data[i]
              /\ w.data[i] \in Int
    <2>0. w.data[i] = IF start <= i /\ i < end THEN kept[i - start + 1]
                      ELSE IF i + Capacity < end THEN kept[i + Capacity - start + 1]
                      ELSE r.data[i]
        BY <1>10
    <2>1. i \in Int /\ 0 <= i /\ i < Capacity /\ start \in Int
        BY DEF Indices
    <2>2. CASE start <= i /\ i < end
        <3>1. PICK j \in 1..k : j = i - start + 1
            BY <1>8, <2>1, <2>2 DEF Indices
        <3> QED
            BY <1>5, <2>0, <2>1, <2>2, <3>1
    <2>3. CASE ~(start <= i /\ i < end) /\ i + Capacity < end
        <3>1. PICK j \in 1..k : j = i + Capacity - start + 1
            BY <1>8, <2>1, <2>3 DEF Indices
        <3> QED
            BY <1>5, <2>0, <2>1, <2>3, <3>1
    <2>4. CASE ~(start <= i /\ i < end) /\ ~(i + Capacity < end)
        BY <2>0, <2>4 DEF Rings
    <2> QED
        BY <2>2, <2>3, <2>4
<1>13. w \in Rings
    <2>1. w.head \in Indices
        BY <1>8, <1>11 DEF Indices
    <2>2. w.wrapped \in BOOLEAN
        BY <1>10
    <2>3. w.data \in [Indices -> Int]
        <3>1. w.data = [i \in Indices |-> w.data[i]]
            BY <1>10
        <3> QED
            BY <1>12, <3>1
    <2>4. w = [data |-> w.data, head |-> w.head, wrapped |-> w.wrapped]
        BY <1>10
    <2> QED
        BY <2>1, <2>2, <2>3, <2>4 DEF Rings
<1>14. w.wrapped <=> r.wrapped \/ start + k >= Capacity
    BY <1>8, <1>10
<1>15. \A i \in Indices : w.data[i] =
           IF start <= i /\ i < start + k THEN a + n - k + (i - start + 1)
           ELSE IF i + Capacity < start + k THEN a + n - k + (i + Capacity - start + 1)
           ELSE r.data[i]
    <2>1. \A i \in Indices : w.data[i] = IF start <= i /\ i < end THEN m + (i - start + 1)
                                    ELSE IF i + Capacity < end THEN m + (i + Capacity - start + 1)
                                    ELSE r.data[i]
        BY <1>12
    <2> QED
        BY <1>4, <1>8, <2>1
<1>16. w.head = IF start + k < Capacity THEN start + k ELSE start + k - Capacity
    BY <1>8, <1>11 DEF Indices
<1>17. w = Write(r, Run(a, n))
    BY <1>2, <1>9
<1>18. Written(r, a, n, w, k, start)
    BY <1>1, <1>7, <1>13, <1>14, <1>15, <1>16 DEF Written
<1> QED
    BY <1>17, <1>18

(* Whatever the length of a line, a ring that tells the bytes accepted still  *)
(* tells them once the line is in.                                            *)
LEMMA WriteTells ==
    ASSUME NEW r, NEW a, Tells(r, a), NEW n \in Nat, n > 0
    PROVE  Tells(Write(r, Run(a, n)), a + n)
<1> USE RingAssumption
<1>1. r \in Rings /\ a \in Nat /\ r.head \in Indices /\ r.wrapped \in BOOLEAN
    BY DEF Tells, Newest, Whole, Rings
<1>2. PICK w : w = Write(r, Run(a, n))
    OBVIOUS
<1>3. PICK k \in 1..Capacity, start \in Indices :
          /\ IF n > Capacity THEN k = Capacity /\ start = 0 ELSE k = n /\ start = r.head
          /\ w \in Rings
          /\ w.head = IF start + k < Capacity THEN start + k ELSE start + k - Capacity
          /\ w.wrapped <=> r.wrapped \/ start + k >= Capacity
          /\ \A i \in Indices : w.data[i] =
                 IF start <= i /\ i < start + k THEN a + n - k + (i - start + 1)
                 ELSE IF i + Capacity < start + k THEN a + n - k + (i + Capacity - start + 1)
                 ELSE r.data[i]
    <2>1. PICK k \in 1..Capacity, start \in Indices : Written(r, a, n, w, k, start)
        BY <1>1, <1>2, WriteShape
    <2> QED
        BY <2>1 DEF Written
<1>4. start \in Int /\ 0 <= start /\ start < Capacity
    BY DEF Indices
<1>5. ASSUME w.wrapped, NEW i \in Indices
      PROVE  /\ a + n >= Capacity
             /\ w.data[i] = IF i < w.head THEN a + n - w.head + i + 1
                            ELSE a + n - w.head - Capacity + i + 1
    <2>1. i \in Int /\ 0 <= i /\ i < Capacity
        BY DEF Indices
    <2>2. CASE n > Capacity
        BY <1>1, <1>3, <2>1, <2>2
    <2>3. CASE n <= Capacity /\ r.wrapped
        <3>1. /\ a >= Capacity
              /\ r.data[i] = IF i < r.head THEN a - r.head + i + 1
                             ELSE a - r.head - Capacity + i + 1
            BY <2>3 DEF Tells, Newest, Whole
        <3> QED
            BY <1>1, <1>3, <1>4, <2>1, <2>3, <3>1
    <2>4. CASE n <= Capacity /\ ~r.wrapped
        <3>1. start + k >= Capacity
            BY <1>3, <1>5, <2>4
        <3>2. r.head = a /\ (i < a => r.data[i] = i + 1)
            BY <2>4 DEF Tells, Newest, Whole
        <3> QED
            BY <1>1, <1>3, <1>4, <2>1, <2>4, <3>1, <3>2
    <2> QED
        BY <1>1, <2>2, <2>3, <2>4
<1>6. ASSUME ~w.wrapped
      PROVE  w.head = a + n /\ \A i \in Indices : i < w.head => w.data[i] = i + 1
    <2>1. ~r.wrapped /\ start + k < Capacity
        BY <1>3, <1>4, <1>6
    <2>2. r.head = a /\ w.head = start + k
        BY <1>3, <2>1 DEF Tells, Newest, Whole
    <2>3. n <= Capacity /\ start = a /\ k = n
        BY <1>3, <1>4, <2>1, <2>2
    <2>4. ASSUME NEW i \in Indices, i < w.head PROVE w.data[i] = i + 1
        <3>1. i \in Int /\ 0 <= i
            BY DEF Indices
        <3>2. i < a => r.data[i] = i + 1
            BY <2>1, <2>2 DEF Tells, Newest, Whole
        <3> QED
            BY <1>1, <1>3, <2>1, <2>2, <2>3, <2>4, <3>1, <3>2
    <2> QED
        BY <2>2, <2>3, <2>4
<1>7. a + n >= Capacity \/ ~w.wrapped
    <2>1. 0 \in Indices
        BY DEF Indices
    <2> QED
        BY <1>5, <2>1
<1>8. Tells(w, a + n)
    <2>1. w \in Rings /\ a + n \in Nat
        BY <1>1, <1>3
    <2>2. w.wrapped => Newest(w, a + n)
        <3> SUFFICES ASSUME w.wrapped PROVE Newest(w, a + n)
            OBVIOUS
        <3>1. a + n >= Capacity
            BY <1>7
        <3>2. \A i \in Indices :
                  w.data[i] = IF i < w.head THEN a + n - w.head + i + 1
                              ELSE a + n - w.head - Capacity + i + 1
            BY <1>5
        <3> QED
            BY <1>1, <1>3, <3>1, <3>2 DEF Newest, Rings, Indices
    <2>3. ~w.wrapped => Whole(w, a + n)
        BY <1>6 DEF Whole
    <2> QED
        BY <2>1, <2>2, <2>3 DEF Tells
<1> QED
    BY <1>2, <1>8

(* Read in two slices, a ring yields the last bytes accepted.                 *)
LEMMA ContentsTell ==
    ASSUME NEW r, NEW a, Tells(r, a)
    PROVE  /\ Contents(r) = Run(a - Fewer(a, Capacity), Fewer(a, Capacity))
           /\ \E m \in Int, n \in Nat : Older(r) = Run(m, n)
<1> USE RingAssumption
<1>0. /\ a \in Nat /\ r.head \in Indices /\ r.wrapped \in BOOLEAN
      /\ r.data \in [Indices -> Int]
    BY DEF Tells, Newest, Whole, Rings
<1>1. ASSUME NEW from \in 0..Capacity, NEW upto \in from..Capacity, NEW m \in Int,
             \A i \in from..upto - 1 : r.data[i] = m + i - from + 1
      PROVE  Bytes(r, from, upto) = Run(m, upto - from)
    <2>1. \A i \in 1..upto - from : r.data[from + i - 1] = m + i
        BY <1>1
    <2> QED
        BY <2>1 DEF Bytes, Run
<1>2. CASE r.wrapped
    <2>1. /\ a >= Capacity
          /\ \A i \in Indices :
                r.data[i] = IF i < r.head THEN a - r.head + i + 1
                            ELSE a - r.head - Capacity + i + 1
        BY <1>2 DEF Tells, Newest, Whole
    <2>2. Bytes(r, r.head, Capacity) = Run(a - Capacity, Capacity - r.head)
        <3>1. ASSUME NEW i \in r.head..Capacity - 1
              PROVE  r.data[i] = a - Capacity + i - r.head + 1
            <4>1. i \in Indices /\ i \in Int /\ ~(i < r.head) /\ r.head \in Int
                BY <1>0 DEF Indices
            <4>2. r.data[i] = a - r.head - Capacity + i + 1
                BY <2>1, <4>1
            <4> QED
                BY <1>0, <4>1, <4>2
        <3>2. r.head \in 0..Capacity /\ Capacity \in r.head..Capacity /\ a - Capacity \in Int
            BY <1>0 DEF Indices
        <3> QED
            BY <1>0, <1>1, <3>1, <3>2
    <2>3. Bytes(r, 0, r.head) = Run(a - r.head, r.head)
        <3>1. ASSUME NEW i \in 0..r.head - 1
              PROVE  r.data[i] = a - r.head + i - 0 + 1
            <4>1. i \in Indices /\ i \in Int /\ i < r.head /\ r.head \in Int
                BY <1>0 DEF Indices
            <4>2. r.data[i] = a - r.head + i + 1
                BY <2>1, <4>1
            <4> QED
                BY <1>0, <4>1, <4>2
        <3>2. r.head \in 0..Capacity /\ 0 \in 0..Capacity /\ a - r.head \in Int
            BY <1>0 DEF Indices
        <3>3. Bytes(r, 0, r.head) = Run(a - r.head, r.head - 0)
            BY <1>1, <3>1, <3>2
        <3> QED
            BY <3>2, <3>3
    <2>4. /\ a - Capacity \in Int /\ Capacity - r.head \in Nat /\ r.head \in Nat
          /\ a - Capacity + (Capacity - r.head) = a - r.head
          /\ Capacity - r.head + r.head = Capacity
        BY <1>0 DEF Indices
    <2>5. Run(a - Capacity, Capacity - r.head) \o Run(a - r.head, r.head)
              = Run(a - Capacity, Capacity)
        <3>1. PICK m \in Int : m = a - Capacity
            BY <2>4
        <3>2. PICK l \in Nat : l = Capacity - r.head
            BY <2>4
        <3>3. m + l = a - r.head /\ l + r.head = Capacity
            BY <2>4, <3>1, <3>2
        <3>4. Run(m, l) \o Run(m + l, r.head) = Run(m, l + r.head)
            BY <2>4, RunsJoin
        <3> QED
            BY <3>1, <3>2, <3>3, <3>4
    <2>6. Fewer(a, Capacity) = Capacity
        BY <1>0, <2>1 DEF Fewer
    <2> QED
        BY <1>2, <2>2, <2>3, <2>4, <2>5, <2>6 DEF Contents, Older, Newer
<1>3. CASE ~r.wrapped
    <2>1. r.head = a /\ \A i \in Indices : i < r.head => r.data[i] = i + 1
        BY <1>3 DEF Tells, Newest, Whole
    <2>2. a < Capacity /\ Fewer(a, Capacity) = a
        BY <1>0, <2>1 DEF Indices, Fewer
    <2>3. Older(r) = Run(0, a)
        <3>1. \A i \in 0..a - 1 : r.data[i] = 0 + i - 0 + 1
            BY <1>0, <2>1, <2>2 DEF Indices
        <3>2. Bytes(r, 0, a) = Run(0, a - 0)
            BY <1>0, <1>1, <2>2, <3>1
        <3> QED
            BY <1>0, <1>3, <2>1, <3>2 DEF Older
    <2>4. Newer(r) = <<>>
        BY <1>3 DEF Newer
    <2>5. Run(0, a) \in Seq(Int)
        BY <1>0, RunIsSeq
    <2>6. Contents(r) = Run(0, a)
        BY <2>3, <2>4, <2>5, ConcatEmptySeq DEF Contents
    <2> QED
        BY <1>0, <2>2, <2>3, <2>6
<1> QED
    BY <1>0, <1>2, <1>3

-----------------------------------------------------------------------------

LEMMA StartsEmpty ==
    ASSUME Init
    PROVE  LogInv /\ Contents(ring) = <<>>
<1> USE RingAssumption
<1>1. Tells(ring, accepted)
    BY DEF Init, NewRing, Tells, Rings, Indices
<1>2. accepted = 0 /\ Fewer(0, Capacity) = 0
    BY DEF Init, Fewer
<1>3. Contents(ring) = Run(0 - 0, 0)
    BY <1>1, <1>2, ContentsTell
<1>4. Run(0 - 0, 0) = <<>>
    BY DEF Run
<1> QED
    BY <1>1, <1>3, <1>4 DEF Init, LogInv, StreamFits

LEMMA WriteAccepts ==
    ASSUME NEW r, NEW a, Tells(r, a), NEW n \in Nat, n > 0
    PROVE  Contents(Write(r, Run(a, n))) = LastOf(Contents(r) \o Run(a, n), Capacity)
<1> USE RingAssumption
<1>1. a \in Nat
    BY DEF Tells
<1>2. PICK b \in Nat : b = a + n
    BY <1>1
<1>3. PICK w : w = Write(r, Run(a, n)) /\ Tells(w, b)
    BY <1>2, WriteTells
<1>4. PICK f \in Nat : f = Fewer(a, Capacity)
    BY <1>1 DEF Fewer
<1>5. PICK g \in Nat : g = Fewer(b, Capacity)
    BY DEF Fewer
<1>6. Contents(r) = Run(a - f, f) /\ Contents(w) = Run(b - g, g)
    BY <1>3, <1>4, <1>5, ContentsTell
<1>7. PICK m \in Int : m = a - f /\ m + f = a
    BY <1>1
<1>8. Contents(r) \o Run(a, n) = Run(m, f + n)
    <2>1. Contents(r) = Run(m, f) /\ Run(a, n) = Run(m + f, n)
        BY <1>6, <1>7
    <2>2. Run(m, f) \o Run(m + f, n) = Run(m, f + n)
        BY RunsJoin
    <2> QED
        BY <2>1, <2>2
<1>9. PICK both \in Nat : both = f + n
    OBVIOUS
<1>10. LastOf(Run(m, both), Capacity) = Run(m + both - Fewer(both, Capacity), Fewer(both, Capacity))
    BY LastOfRun
<1>11. Fewer(both, Capacity) = g
    BY <1>1, <1>2, <1>4, <1>5, <1>9 DEF Fewer
<1>12. m + both - g = b - g
    BY <1>1, <1>2, <1>7, <1>9
<1> QED
    BY <1>3, <1>6, <1>8, <1>9, <1>10, <1>11, <1>12

(* A line of the hook is an Accept of the promise. *)
LEMMA LineIsAccepted ==
    ASSUME LogInv, NEW n \in 1..LongestFormat, LogLine(n)
    PROVE  LogInv' /\ Promise!Next
<1> USE RingAssumption, LineAssumption
<1>1. PICK k \in 1..LineBuf - 1 : k = Printed(n)
    BY DEF Printed
<1>2. /\ reader.at = "idle" /\ reader' = reader /\ accepted' = accepted + k
      /\ ring' = Write(ring, Run(accepted, k))
    BY <1>1 DEF LogLine, MayAppend, Run
<1>3. Tells(ring, accepted) /\ k \in Nat /\ k > 0
    BY DEF LogInv
<1>4. Tells(ring', accepted')
    BY <1>2, <1>3, WriteTells
<1>5. reader = Idle
    BY <1>2 DEF LogInv, StreamFits
<1>6. LogInv'
    <2>1. Tells(ring, accepted)'
        BY <1>4 DEF Tells, Newest, Whole
    <2> QED
        BY <1>2, <1>5, <2>1 DEF LogInv, StreamFits, Idle
<1>7. Contents(ring') = LastOf(Contents(ring) \o Run(accepted, k), Capacity)
    BY <1>2, <1>3, WriteAccepts
<1>8. Promise!Line(accepted, k) = Run(accepted, k)
    BY DEF Promise!Line, Run
<1>9. Contents(ring)' = Contents(ring')
    BY DEF Contents, Older, Newer, Bytes
<1>10. Promise!Accept(k)
    BY <1>2, <1>7, <1>8, <1>9 DEF Promise!Accept, LastOf
<1> QED
    BY <1>1, <1>6, <1>10 DEF Promise!Next

LEMMA OthersLeaveRing ==
    ASSUME LogInv, [Next]_vars, \A n \in 1..LongestFormat : ~LogLine(n)
    PROVE  LogInv' /\ UNCHANGED <<Contents(ring), accepted>>
<1>1. UNCHANGED <<ring, accepted>>
    BY DEF Next, vars, RecordEvent, PollBuck, StreamOlder, StreamNewer, StreamEnds
<1>2. Contents(ring)' = Contents(ring) /\ Older(ring)' = Older(ring)
    BY <1>1 DEF Contents, Older, Newer, Bytes
<1>3. Tells(ring, accepted)'
    BY <1>1 DEF LogInv, Tells
<1>4. StreamFits'
    <2>1. CASE UNCHANGED reader
        BY <1>2, <2>1 DEF LogInv, StreamFits, Idle
    <2>2. CASE StreamOlder
        BY <1>2, <2>2 DEF StreamOlder, StreamFits
    <2>3. CASE StreamNewer
        <3>1. reader.sent = Older(ring)
            BY <2>3 DEF StreamNewer, LogInv, StreamFits, Idle
        <3>2. reader'.at = "done" /\ reader'.sent = Contents(ring)
            BY <2>3, <3>1 DEF StreamNewer, Contents
        <3> QED
            BY <1>2, <3>2 DEF StreamFits
    <2>4. CASE StreamEnds
        BY <2>4 DEF StreamEnds, StreamFits, Idle
    <2> QED
        BY <2>1, <2>2, <2>3, <2>4 DEF Next, vars, RecordEvent, PollBuck
<1> QED
    BY <1>1, <1>2, <1>3, <1>4 DEF LogInv

LEMMA NextLogs ==
    LogInv /\ [Next]_vars
        => LogInv' /\ [Promise!Next]_<<Contents(ring), accepted>>
<1> SUFFICES ASSUME LogInv, [Next]_vars
             PROVE  LogInv' /\ [Promise!Next]_<<Contents(ring), accepted>>
    OBVIOUS
<1>1. CASE \E n \in 1..LongestFormat : LogLine(n)
    BY <1>1, LineIsAccepted
<1>2. CASE \A n \in 1..LongestFormat : ~LogLine(n)
    BY <1>2, OthersLeaveRing
<1> QED
    BY <1>1, <1>2

-----------------------------------------------------------------------------
(***************************************************************************)
(* The event log.  `last` is a summary of the history: the cause the last  *)
(* status read showed.  With it every step that adds to the history adds   *)
(* the event the history calls for, and one at most, so that the ring and  *)
(* the counters follow the set of the noted entries one at a time.         *)
(***************************************************************************)
Entries == Polls \cup {[says |-> "event", event |-> event] : event \in OtherEvents}

(* The cause a status shows. *)
Shown(poll) == IF poll = Sourcing THEN "Normal" ELSE poll.cause

LastIsShown ==
    \/ last = "Normal" /\ \A j \in DOMAIN past : ~IsRead(j)
    \/ \E j \in DOMAIN past :
          /\ IsRead(j) /\ last = Shown(past[j])
          /\ \A k \in DOMAIN past : k > j => ~IsRead(k)

Logs == [recent : Seq(Events), counts : [0..TotalKinds - 1 -> Nat]]

EventInv == log \in Logs /\ past \in Seq(Entries) /\ LastIsShown /\ EveryEventCounted

(* Every kind of event has a slot of its own. *)
LEMMA SlotsAreApart ==
    /\ \A event \in Events : Slot(event) \in 0..TotalKinds - 1
    /\ \A e1 \in Events, e2 \in Events : Slot(e1) = Slot(e2) => e1 = e2
<1>1. /\ InaKinds \in Nat \ {0} /\ XyKinds \in Nat \ {0} /\ ChargeKinds \in Nat \ {0}
    BY EventAssumption
<1>2. ASSUME NEW event \in Events
      PROVE  \/ \E k \in 0..InaKinds - 1 : event = <<"ina", k>> /\ Slot(event) = k
             \/ \E k \in 0..XyKinds - 1 : event = <<"xy", k>> /\ Slot(event) = InaKinds + k
             \/ \E k \in 0..ChargeKinds - 1 :
                   event = <<"charge", k>> /\ Slot(event) = InaKinds + XyKinds + k
    BY DEF Events, KindsOf, Slot, Offset
<1>3. \A event \in Events : Slot(event) \in 0..TotalKinds - 1
    BY <1>1, <1>2 DEF TotalKinds
<1>4. ASSUME NEW e1 \in Events, NEW e2 \in Events, Slot(e1) = Slot(e2)
      PROVE  e1 = e2
    BY <1>1, <1>2, <1>4
<1> QED
    BY <1>3, <1>4

(* Every protection has a kind, and so has every event of another thread. *)
LEMMA EventsAreKnown ==
    /\ ReadStatus \in Events
    /\ \A cause \in Causes : FromProtection[cause] \in Events
    /\ OtherEvents \subseteq Events
<1>1. KindsOf["xy"] = 4 /\ "xy" \in DOMAIN KindsOf
    BY CauseAssumption DEF KindsOf
<1>2. \A k \in 0..3 : <<"xy", k>> \in Events
    BY <1>1 DEF Events
<1>3. Causes \subseteq {"Lvp", "Otp", "Ocp"}
    BY CauseAssumption DEF FromProtection
<1> QED
    BY <1>2, <1>3 DEF ReadStatus, FromProtection, OtherEvents

(* A ring that takes one more entry keeps the others, one place further back. *)
LEMMA PushedShifts ==
    ASSUME NEW recent \in Seq(Events), NEW event \in Events, Len(recent) <= EventCapacity
    PROVE  LET next == Pushed(recent, event)
               kept == IF Len(recent) = EventCapacity THEN Len(recent) - 1 ELSE Len(recent)
           IN  /\ next \in Seq(Events)
               /\ Len(next) = kept + 1
               /\ next[kept + 1] = event
               /\ \A i \in 1..kept : next[i] = recent[i + (Len(recent) - kept)]
<1>1. Len(recent) \in Nat /\ EventCapacity \in Nat \ {0}
    BY EventAssumption, LenProperties
<1>2. CASE Len(recent) = EventCapacity
    <2> DEFINE t == Tail(recent)
    <2>1. recent # << >>
        BY <1>1, <1>2, EmptySeq
    <2>2. /\ t \in Seq(Events) /\ Len(t) = Len(recent) - 1
          /\ \A i \in 1..Len(t) : t[i] = recent[i + 1]
        BY <2>1, HeadTailProperties
    <2>3. Pushed(recent, event) = Append(t, event)
        BY <1>2 DEF Pushed
    <2> HIDE DEF t
    <2>4. /\ Append(t, event) \in Seq(Events) /\ Len(Append(t, event)) = Len(t) + 1
          /\ Append(t, event)[Len(t) + 1] = event
          /\ \A i \in 1..Len(t) : Append(t, event)[i] = t[i]
        BY <2>2, AppendProperties
    <2>5. \A i \in 1..Len(t) : Append(t, event)[i] = recent[i + 1]
        BY <2>2, <2>4
    <2>6. Len(recent) - (Len(recent) - 1) = 1
        BY <1>1
    <2> QED
        BY <1>2, <2>2, <2>3, <2>4, <2>5, <2>6
<1>3. CASE Len(recent) # EventCapacity
    <2>1. Pushed(recent, event) = Append(recent, event)
        BY <1>3 DEF Pushed
    <2>2. /\ Append(recent, event) \in Seq(Events)
          /\ Len(Append(recent, event)) = Len(recent) + 1
          /\ Append(recent, event)[Len(recent) + 1] = event
          /\ \A i \in 1..Len(recent) : Append(recent, event)[i] = recent[i]
        BY AppendProperties
    <2>3. \A i \in 1..Len(recent) : i + (Len(recent) - Len(recent)) = i
        BY <1>1
    <2> QED
        BY <1>3, <2>1, <2>2, <2>3
<1> QED
    BY <1>2, <1>3

(* A set of places, and one more after all of them. *)
LEMMA CountsOneMore ==
    ASSUME NEW n \in Nat, NEW N \in SUBSET (1..n)
    PROVE  /\ IsFiniteSet(N) /\ Cardinality(N) \in Nat
           /\ IsFiniteSet(N \cup {n + 1})
           /\ Cardinality(N \cup {n + 1}) = Cardinality(N) + 1
<1>1. IsFiniteSet(1..n)
    BY FS_Interval
<1>2. IsFiniteSet(N)
    BY <1>1, FS_Subset
<1>3. n + 1 \notin N
    OBVIOUS
<1> QED
    BY <1>2, <1>3, FS_CardinalityType, FS_AddElement

LEMMA RecencyShifts ==
    ASSUME NEW n \in Nat, NEW N \in SUBSET (1..n)
    PROVE  /\ \A i : i = n + 1 => Cardinality({j \in N \cup {n + 1} : j >= i}) = 1
           /\ \A i \in N :
                 /\ Cardinality({j \in N : j >= i}) \in 1..Cardinality(N)
                 /\ Cardinality({j \in N \cup {n + 1} : j >= i})
                       = Cardinality({j \in N : j >= i}) + 1
<1>1. {j \in N \cup {n + 1} : j >= n + 1} = {n + 1}
    <2>1. \A j \in N : j \in Int /\ ~(j >= n + 1)
        OBVIOUS
    <2>2. n + 1 \in Int /\ n + 1 >= n + 1
        OBVIOUS
    <2> QED
        BY <2>1, <2>2
<1>2. Cardinality({n + 1}) = 1
    BY FS_Singleton
<1>3. ASSUME NEW i \in N
      PROVE  /\ Cardinality({j \in N : j >= i}) \in 1..Cardinality(N)
             /\ Cardinality({j \in N \cup {n + 1} : j >= i})
                   = Cardinality({j \in N : j >= i}) + 1
    <2> DEFINE A == {j \in N : j >= i}
    <2>0. i \in 1..n /\ i >= i /\ n + 1 >= i
        OBVIOUS
    <2>1. A \in SUBSET (1..n) /\ A \in SUBSET N /\ i \in A
        BY <2>0
    <2>2. {j \in N \cup {n + 1} : j >= i} = A \cup {n + 1}
        BY <2>0
    <2> HIDE DEF A
    <2>3. /\ IsFiniteSet(A) /\ Cardinality(A) \in Nat
          /\ Cardinality(A \cup {n + 1}) = Cardinality(A) + 1
        BY <2>1, CountsOneMore
    <2>4. IsFiniteSet(N) /\ Cardinality(N) \in Nat
        BY CountsOneMore
    <2>5. Cardinality(A) <= Cardinality(N)
        BY <2>1, <2>4, FS_Subset
    <2>6. Cardinality(A) # 0
        BY <2>1, <2>3, FS_EmptySet
    <2>7. Cardinality(A) \in 1..Cardinality(N)
        BY <2>3, <2>4, <2>5, <2>6
    <2> QED
        BY <2>2, <2>3, <2>7 DEF A
<1> QED
    BY <1>1, <1>2, <1>3

-----------------------------------------------------------------------------

(* An entry added to the history leaves what the others stand for alone. *)
LEMMA HistoryGrows ==
    ASSUME past \in Seq(Entries), NEW e \in Entries, past' = Append(past, e),
           NEW n, n = Len(past)
    PROVE  /\ n \in Nat /\ past' \in Seq(Entries) /\ DOMAIN past = 1..n
           /\ DOMAIN past' = 1..n + 1
           /\ past'[n + 1] = e
           /\ \A i \in 1..n : past'[i] = past[i] /\ EventAt(i)' = EventAt(i)
           /\ \A i \in 1..n : IsRead(i)' <=> IsRead(i)
           /\ \A i \in 1..n : ShownBefore(i)' <=> ShownBefore(i)
           /\ ShownBefore(n + 1)' <=>
                 \E j \in 1..n : past[j] = e /\ \A k \in 1..n : k > j => ~IsRead(k)
           /\ Noted \in SUBSET (1..n)
           /\ n + 1 \in Noted' => Noted' = Noted \cup {n + 1}
           /\ n + 1 \notin Noted' => Noted' = Noted
<1>1. /\ n \in Nat /\ past' \in Seq(Entries) /\ Len(past') = n + 1
      /\ past'[n + 1] = e /\ \A i \in 1..n : past'[i] = past[i]
    BY AppendProperties, LenProperties
<1>2. DOMAIN past = 1..n /\ DOMAIN past' = 1..n + 1
    BY <1>1, LenProperties
<1>3. \A i \in 1..n : EventAt(i)' = EventAt(i)
    BY <1>1 DEF EventAt
<1>4. \A i \in 1..n : IsRead(i)' <=> IsRead(i)
    BY <1>1 DEF IsRead
<1>5. ASSUME NEW i \in 1..n PROVE ShownBefore(i)' <=> ShownBefore(i)
    <2>1. \A j \in 1..i - 1 : j \in 1..n /\ \A k \in j + 1..i - 1 : k \in 1..n
        BY <1>1
    <2>2. \A j \in 1..i - 1 : past'[j] = past[j] /\ past'[i] = past[i]
        BY <1>1, <2>1
    <2>3. \A j \in 1..i - 1 : \A k \in j + 1..i - 1 : IsRead(k)' <=> IsRead(k)
        BY <1>4, <2>1
    <2> QED
        BY <2>2, <2>3 DEF ShownBefore
<1>6. ShownBefore(n + 1)' <=>
          \E j \in 1..n : past[j] = e /\ \A k \in 1..n : k > j => ~IsRead(k)
    <2>1. (n + 1) - 1 = n
        BY <1>1
    <2>2. ShownBefore(n + 1)' <=>
             \E j \in 1..n : past'[j] = e /\ \A k \in j + 1..n : ~IsRead(k)'
        BY <1>1, <2>1 DEF ShownBefore
    <2>3. ASSUME NEW j \in 1..n
          PROVE  (\A k \in j + 1..n : ~IsRead(k)') <=> (\A k \in 1..n : k > j => ~IsRead(k))
        <3>1. \A k : k \in j + 1..n <=> k \in 1..n /\ k > j
            BY <1>1
        <3> QED
            BY <1>4, <3>1
    <2> QED
        BY <1>1, <2>2, <2>3
<1>7. Noted \in SUBSET (1..n)
    BY <1>2 DEF Noted
<1>8. \A i \in 1..n : i \in Noted' <=> i \in Noted
    BY <1>1, <1>2, <1>5 DEF Noted
<1>9. \A i \in Noted' : i \in 1..n \/ i = n + 1
    BY <1>1, <1>2 DEF Noted
<1>10. /\ n + 1 \in Noted' => Noted' = Noted \cup {n + 1}
       /\ n + 1 \notin Noted' => Noted' = Noted
    BY <1>7, <1>8, <1>9
<1> QED
    BY <1>1, <1>2, <1>3, <1>4, <1>5, <1>6, <1>7, <1>10

(* `last` stays the cause of the last status read. *)
LEMMA LastFollows ==
    ASSUME past \in Seq(Entries), LastIsShown, NEW e \in Entries, past' = Append(past, e),
           last' = IF e \in Polls THEN LastAfter(e) ELSE last
    PROVE  LastIsShown'
<1> SUFFICES ASSUME NEW n, n = Len(past) PROVE LastIsShown'
    OBVIOUS
<1>1. /\ n \in Nat /\ DOMAIN past = 1..n /\ DOMAIN past' = 1..n + 1
      /\ past'[n + 1] = e /\ \A i \in 1..n : past'[i] = past[i]
      /\ \A i \in 1..n : IsRead(i)' <=> IsRead(i)
    BY HistoryGrows
<1>2. IsRead(n + 1)' <=> e \in Polls \ {Unread}
    BY <1>1 DEF IsRead
<1>3. CASE e \in Polls \ {Unread}
    <2>1. LastAfter(e) = Shown(e)
        BY <1>3 DEF LastAfter, Shown, Sourcing, Unread
    <2>2. \A k \in 1..n + 1 : ~(k > n + 1)
        BY <1>1
    <2>3. n + 1 \in 1..n + 1
        BY <1>1
    <2> QED
        BY <1>1, <1>2, <1>3, <2>1, <2>2, <2>3 DEF LastIsShown
<1>4. CASE e \notin Polls \ {Unread}
    <2>1. last' = last
        <3>1. CASE e \notin Polls
            BY <3>1
        <3>2. CASE e = Unread
            BY <3>2 DEF LastAfter, Unread, Sourcing, Polls
        <3> QED
            BY <1>4, <3>1, <3>2
    <2>2. \A k \in 1..n + 1 : k \in 1..n \/ k = n + 1
        BY <1>1
    <2>3. \A k \in 1..n : k \in 1..n + 1
        BY <1>1
    <2>4. CASE last = "Normal" /\ \A j \in DOMAIN past : ~IsRead(j)
        BY <1>1, <1>2, <1>4, <2>1, <2>2, <2>4 DEF LastIsShown
    <2>5. CASE \E j \in DOMAIN past :
                  /\ IsRead(j) /\ last = Shown(past[j])
                  /\ \A k \in DOMAIN past : k > j => ~IsRead(k)
        <3>1. PICK j \in 1..n : /\ IsRead(j) /\ last = Shown(past[j])
                                /\ \A k \in 1..n : k > j => ~IsRead(k)
            BY <1>1, <2>5
        <3>2. IsRead(j)' /\ past'[j] = past[j]
            BY <1>1, <3>1
        <3>3. \A k \in 1..n + 1 : k > j => ~IsRead(k)'
            BY <1>1, <1>2, <1>4, <2>2, <3>1
        <3>4. last' = Shown(past'[j]) /\ j \in DOMAIN past'
            BY <1>1, <2>1, <2>3, <3>1, <3>2
        <3> QED
            BY <1>1, <3>2, <3>3, <3>4 DEF LastIsShown
    <2> QED
        BY <2>4, <2>5 DEF LastIsShown
<1> QED
    BY <1>3, <1>4

(* The thread tells a new episode from `last` as the history does from itself. *)
LEMMA EpisodesAgree ==
    ASSUME past \in Seq(Entries), LastIsShown, NEW poll \in Polls,
           past' = Append(past, poll), NEW n, n = Len(past)
    PROVE  n + 1 \in Noted' <=> poll = Unread \/ NewEpisode(poll)
<1>1. /\ n \in Nat /\ DOMAIN past = 1..n /\ DOMAIN past' = 1..n + 1
      /\ past'[n + 1] = poll
      /\ ShownBefore(n + 1)' <=>
            \E j \in 1..n : past[j] = poll /\ \A k \in 1..n : k > j => ~IsRead(k)
    <2>1. poll \in Entries
        BY DEF Entries
    <2> QED
        BY <2>1, HistoryGrows
<1>2. n + 1 \in Noted' <=>
         \/ poll = Unread
         \/ poll \in {OffBy(cause) : cause \in Causes \ {"Lvp"}} /\ ~ShownBefore(n + 1)'
    <2>1. n + 1 \in DOMAIN past'
        BY <1>1
    <2>2. poll.says # "event"
        BY DEF Polls, Unread, Sourcing, OffBy
    <2> QED
        BY <1>1, <2>1, <2>2 DEF Noted
<1>3. Causes \subseteq {"Lvp", "Otp", "Ocp"}
    BY CauseAssumption DEF FromProtection
<1>4. CASE poll = Unread
    BY <1>2, <1>4
<1>5. CASE poll \in {Sourcing, OffBy("Normal"), OffBy("Lvp")}
    <2>1. ~NewEpisode(poll) /\ poll # Unread
        BY <1>5 DEF NewEpisode, IsInputLoss, Sourcing, OffBy, Unread
    <2>2. poll \notin {OffBy(cause) : cause \in Causes \ {"Lvp"}}
        BY <1>3, <1>5 DEF Sourcing, OffBy
    <2> QED
        BY <1>2, <2>1, <2>2
<1>6. ASSUME NEW c \in Causes \ {"Lvp"}, poll = OffBy(c)
      PROVE  n + 1 \in Noted' <=> poll = Unread \/ NewEpisode(poll)
    <2>1. c \notin {"Normal", "Lvp"} /\ poll # Unread /\ poll # Sourcing /\ poll.says = "off"
          /\ poll.cause = c /\ poll \in Polls \ {Unread}
        BY <1>3, <1>6 DEF OffBy, Unread, Sourcing
    <2>2. NewEpisode(poll) <=> last # c
        BY <2>1 DEF NewEpisode, IsInputLoss
    <2>3. ASSUME ShownBefore(n + 1)' PROVE last = c
        <3>1. PICK j \in 1..n : past[j] = poll /\ \A k \in 1..n : k > j => ~IsRead(k)
            BY <1>1, <2>3
        <3>2. IsRead(j)
            BY <2>1, <3>1 DEF IsRead
        <3>3. PICK i \in 1..n : /\ IsRead(i) /\ last = Shown(past[i])
                                /\ \A k \in 1..n : k > i => ~IsRead(k)
            BY <1>1, <3>2 DEF LastIsShown
        <3>4. i = j
            BY <1>1, <3>1, <3>2, <3>3
        <3> QED
            BY <2>1, <3>1, <3>3, <3>4 DEF Shown
    <2>4. ASSUME last = c PROVE ShownBefore(n + 1)'
        <3>1. PICK j \in 1..n : /\ IsRead(j) /\ last = Shown(past[j])
                                /\ \A k \in 1..n : k > j => ~IsRead(k)
            BY <1>1, <2>1, <2>4 DEF LastIsShown
        <3>2. past[j] # Sourcing /\ past[j] \in Polls \ {Unread}
            BY <2>1, <2>4, <3>1 DEF Shown, IsRead
        <3>3. past[j] = poll
            BY <1>6, <2>4, <3>1, <3>2 DEF Polls, Shown, OffBy
        <3> QED
            BY <1>1, <3>1, <3>3
    <2>5. poll \in {OffBy(cause) : cause \in Causes \ {"Lvp"}}
        BY <1>6
    <2> QED
        BY <1>2, <2>1, <2>2, <2>3, <2>4, <2>5
<1>7. \/ poll = Unread
      \/ poll \in {Sourcing, OffBy("Normal"), OffBy("Lvp")}
      \/ \E c \in Causes \ {"Lvp"} : poll = OffBy(c)
    BY DEF Polls
<1> QED
    BY <1>4, <1>5, <1>6, <1>7

-----------------------------------------------------------------------------

(* One entry of the history, recorded if it is noted, keeps the log complete. *)
LEMMA RecordKeeps ==
    ASSUME log \in Logs, past \in Seq(Entries), EveryEventCounted,
           NEW e \in Entries, past' = Append(past, e),
           NEW n, n = Len(past),
           n + 1 \in Noted' => log' = Record(log, EventAt(n + 1)'),
           n + 1 \notin Noted' => log' = log
    PROVE  log' \in Logs /\ EveryEventCounted'
<1> DEFINE N == Noted
           event == EventAt(n + 1)'
           L == Len(log.recent)
<1>1. /\ n \in Nat /\ past'[n + 1] = e
      /\ \A i \in 1..n : EventAt(i)' = EventAt(i)
      /\ N \in SUBSET (1..n)
      /\ n + 1 \in Noted' => Noted' = N \cup {n + 1}
      /\ n + 1 \notin Noted' => Noted' = N
    BY HistoryGrows
<1>2. /\ log.recent \in Seq(Events) /\ log.counts \in [0..TotalKinds - 1 -> Nat]
      /\ L \in Nat
    BY LenProperties DEF Logs
<1>3. EventCapacity \in Nat \ {0} /\ CountMax \in Nat \ {0}
    BY EventAssumption
<1>4. /\ L = IF Cardinality(N) < EventCapacity THEN Cardinality(N) ELSE EventCapacity
      /\ \A i \in N : Cardinality({j \in N : j >= i}) <= EventCapacity
            => log.recent[L + 1 - Cardinality({j \in N : j >= i})] = EventAt(i)
      /\ \A ev \in Events :
            log.counts[Slot(ev)] = Saturated(Cardinality({i \in N : EventAt(i) = ev}))
    BY DEF EveryEventCounted, Recency, Count
<1>5. CASE n + 1 \notin Noted'
    <2>1. log' = log /\ Noted' = N
        BY <1>1, <1>5
    <2>2. \A i \in N : EventAt(i)' = EventAt(i)
        BY <1>1
    <2>3. \A ev \in Events : {i \in N : EventAt(i)' = ev} = {i \in N : EventAt(i) = ev}
        BY <2>2
    <2> QED
        BY <1>4, <2>1, <2>2, <2>3 DEF EveryEventCounted, Recency, Count
<1>6. CASE n + 1 \in Noted'
    <2>1. Noted' = N \cup {n + 1} /\ log' = Record(log, event)
        BY <1>1, <1>6
    <2>2. event \in Events
        <3>1. CASE e \in Polls
            <4>1. e = Unread \/ \E c \in Causes : e = OffBy(c)
                BY <1>1, <1>6, <3>1 DEF Noted, Polls, Sourcing, Unread, OffBy
            <4> QED
                BY <1>1, <4>1, EventsAreKnown DEF EventAt, Unread, OffBy
        <3>2. CASE e \notin Polls
            BY <1>1, <3>2, EventsAreKnown DEF EventAt, Entries
        <3> QED
            BY <3>1, <3>2
    <2> HIDE DEF event
    <2>3. /\ log'.recent = Pushed(log.recent, event)
          /\ log'.counts = [log.counts EXCEPT ![Slot(event)] = Saturated(@ + 1)]
        BY <2>1 DEF Record
    <2>4. Slot(event) \in 0..TotalKinds - 1
        BY <2>2, SlotsAreApart
    <2> DEFINE recent == Pushed(log.recent, event)
               kept == IF L = EventCapacity THEN L - 1 ELSE L
    <2>5. Cardinality(N) \in Nat /\ Cardinality(N \cup {n + 1}) = Cardinality(N) + 1
        BY <1>1, CountsOneMore
    <2>6. L <= EventCapacity
        BY <1>3, <1>4, <2>5
    <2>7. /\ recent \in Seq(Events) /\ Len(recent) = kept + 1 /\ recent[kept + 1] = event
          /\ \A i \in 1..kept : recent[i] = log.recent[i + (L - kept)]
        BY <1>2, <2>2, <2>6, PushedShifts
    <2>8. log' \in Logs
        <3>1. log.counts[Slot(event)] \in Nat
            BY <1>2, <2>4
        <3>2. Saturated(log.counts[Slot(event)] + 1) \in Nat
            BY <1>3, <3>1 DEF Saturated
        <3>3. log'.counts \in [0..TotalKinds - 1 -> Nat]
            BY <1>2, <2>3, <3>2
        <3> QED
            BY <2>1, <2>3, <2>7, <3>3 DEF Logs, Record
    <2> HIDE DEF recent, N, L
    <2>9. Len(recent) = IF Cardinality(N \cup {n + 1}) < EventCapacity
                        THEN Cardinality(N \cup {n + 1}) ELSE EventCapacity
        BY <1>2, <1>3, <1>4, <2>5, <2>7
    <2>10. ASSUME NEW i \in N \cup {n + 1},
                  Cardinality({j \in N \cup {n + 1} : j >= i}) <= EventCapacity
           PROVE  recent[Len(recent) + 1 - Cardinality({j \in N \cup {n + 1} : j >= i})]
                     = EventAt(i)'
        <3>1. CASE i = n + 1
            <4>1. Cardinality({j \in N \cup {n + 1} : j >= i}) = 1
                BY <1>1, <3>1, RecencyShifts
            <4>2. Len(recent) + 1 - 1 = kept + 1
                BY <1>2, <1>3, <2>7
            <4> QED
                BY <2>7, <3>1, <4>1, <4>2 DEF event
        <3>2. CASE i \in N
            <4> DEFINE r == Cardinality({j \in N : j >= i})
            <4>1. /\ r \in 1..Cardinality(N)
                  /\ Cardinality({j \in N \cup {n + 1} : j >= i}) = r + 1
                BY <1>1, <3>2, RecencyShifts
            <4>2. r <= EventCapacity => log.recent[L + 1 - r] = EventAt(i)
                BY <1>4, <3>2
            <4> HIDE DEF r
            <4>3. r + 1 <= EventCapacity
                BY <2>10, <4>1
            <4>4. /\ kept + 1 - r \in 1..kept
                  /\ (kept + 1 - r) + (L - kept) = L + 1 - r
                  /\ (kept + 1) + 1 - (r + 1) = kept + 1 - r
                BY <1>2, <1>3, <1>4, <2>5, <4>1, <4>3
            <4>5. recent[kept + 1 - r] = log.recent[L + 1 - r]
                BY <2>7, <4>4
            <4>6. log.recent[L + 1 - r] = EventAt(i)
                BY <1>3, <2>5, <4>1, <4>2, <4>3
            <4>7. EventAt(i)' = EventAt(i)
                BY <1>1, <3>2
            <4> QED
                BY <2>7, <4>1, <4>4, <4>5, <4>6, <4>7
        <3> QED
            BY <3>1, <3>2
    <2>11. ASSUME NEW ev \in Events
           PROVE  log'.counts[Slot(ev)]
                     = Saturated(Cardinality({i \in N \cup {n + 1} : EventAt(i)' = ev}))
        <3> DEFINE A == {i \in N : EventAt(i) = ev}
                   c == Cardinality(A)
        <3>1. A \in SUBSET (1..n) /\ \A i \in N : EventAt(i)' = EventAt(i)
            BY <1>1
        <3>2. log.counts[Slot(ev)] = Saturated(c)
            BY <1>4
        <3>3. c \in Nat /\ Cardinality(A \cup {n + 1}) = c + 1
            BY <1>1, <3>1, CountsOneMore
        <3>4. CASE ev = event
            <4>1. {i \in N \cup {n + 1} : EventAt(i)' = ev} = A \cup {n + 1}
                BY <3>1, <3>4 DEF event
            <4>2. log'.counts[Slot(ev)] = Saturated(log.counts[Slot(ev)] + 1)
                BY <1>2, <2>3, <2>4, <3>4
            <4>3. Saturated(Saturated(c) + 1) = Saturated(c + 1)
                BY <1>3, <3>3 DEF Saturated
            <4> QED
                BY <3>2, <3>3, <4>1, <4>2, <4>3
        <3>5. CASE ev # event
            <4>1. {i \in N \cup {n + 1} : EventAt(i)' = ev} = A
                BY <3>1, <3>5 DEF event
            <4>2. Slot(ev) # Slot(event)
                BY <2>2, <3>5, SlotsAreApart
            <4>3. log'.counts[Slot(ev)] = log.counts[Slot(ev)]
                BY <1>2, <2>3, <4>2
            <4> QED
                BY <3>2, <4>1, <4>3
        <3> QED
            BY <3>4, <3>5
    <2>12. EveryEventCounted'
        BY <2>1, <2>3, <2>9, <2>10, <2>11 DEF EveryEventCounted, Recency, Count, recent
    <2> QED
        BY <2>8, <2>12
<1> QED
    BY <1>5, <1>6

LEMMA EventStep ==
    EventInv /\ [Next]_vars => EventInv'
<1> SUFFICES ASSUME EventInv, [Next]_vars, NEW n, n = Len(past) PROVE EventInv'
    OBVIOUS
<1>1. ASSUME NEW event \in OtherEvents, RecordEvent(event) PROVE EventInv'
    <2> DEFINE e == [says |-> "event", event |-> event]
    <2>1. e \in Entries /\ e \notin Polls /\ past' = Append(past, e)
        BY <1>1 DEF Entries, Polls, Unread, Sourcing, OffBy, RecordEvent
    <2>2. log' = Record(log, event) /\ last' = last /\ e.says = "event" /\ e.event = event
        BY <1>1 DEF RecordEvent
    <2> HIDE DEF e
    <2>3. /\ n + 1 \in DOMAIN past' /\ past'[n + 1] = e
          /\ past' \in Seq(Entries)
        <3>1. /\ n \in Nat /\ DOMAIN past' = 1..n + 1
              /\ past'[n + 1] = e /\ past' \in Seq(Entries)
            BY <2>1, HistoryGrows DEF EventInv
        <3> QED
            BY <3>1
    <2>4. n + 1 \in Noted' /\ EventAt(n + 1)' = event
        <3>1. e # Unread
            BY <2>2 DEF Unread
        <3> QED
            BY <2>2, <2>3, <3>1 DEF Noted, EventAt
    <2>5. log' \in Logs /\ EveryEventCounted'
        BY <2>1, <2>2, <2>4, RecordKeeps DEF EventInv
    <2>6. LastIsShown'
        BY <2>1, <2>2, LastFollows DEF EventInv
    <2> QED
        BY <2>3, <2>5, <2>6 DEF EventInv
<1>2. ASSUME NEW poll \in Polls, PollBuck(poll) PROVE EventInv'
    <2>1. poll \in Entries /\ past' = Append(past, poll) /\ last' = LastAfter(poll)
        BY <1>2 DEF Entries, PollBuck
    <2>2. past'[n + 1] = poll /\ past' \in Seq(Entries)
        BY <2>1, HistoryGrows DEF EventInv
    <2>3. n + 1 \in Noted' <=> poll = Unread \/ NewEpisode(poll)
        BY <2>1, EpisodesAgree DEF EventInv
    <2>4. log' = IF poll = Unread THEN Record(log, ReadStatus)
                 ELSE IF NewEpisode(poll) THEN Record(log, FromProtection[poll.cause])
                 ELSE log
        BY <1>2 DEF PollBuck
    <2>5. EventAt(n + 1)'
             = IF poll = Unread THEN ReadStatus ELSE FromProtection[poll.cause]
        BY <2>2 DEF EventAt, Polls, Unread, Sourcing, OffBy
    <2>6. log' \in Logs /\ EveryEventCounted'
        BY <2>1, <2>3, <2>4, <2>5, RecordKeeps DEF EventInv
    <2>7. LastIsShown'
        BY <2>1, LastFollows DEF EventInv
    <2> QED
        BY <2>2, <2>6, <2>7 DEF EventInv
<1>3. ASSUME UNCHANGED <<log, past, last>> PROVE EventInv'
    <2>1. \A i : (IsRead(i)' <=> IsRead(i)) /\ EventAt(i)' = EventAt(i)
        BY <1>3 DEF IsRead, EventAt
    <2>2. \A i : ShownBefore(i)' <=> ShownBefore(i)
        BY <1>3, <2>1 DEF ShownBefore
    <2>3. Noted' = Noted
        BY <1>3, <2>2 DEF Noted
    <2>4. /\ \A i : Recency(i)' = Recency(i)
          /\ \A event : {i \in Noted' : EventAt(i)' = event} = {i \in Noted : EventAt(i) = event}
        BY <2>1, <2>3 DEF Recency
    <2>5. EveryEventCounted'
        BY <1>3, <2>1, <2>3, <2>4 DEF EventInv, EveryEventCounted, Count
    <2>6. LastIsShown'
        BY <1>3, <2>1 DEF EventInv, LastIsShown
    <2> QED
        BY <1>3, <2>5, <2>6 DEF EventInv
<1>4. \/ \E event \in OtherEvents : RecordEvent(event)
      \/ \E poll \in Polls : PollBuck(poll)
      \/ UNCHANGED <<log, past, last>>
    BY DEF Next, vars, LogLine, StreamOlder, StreamNewer, StreamEnds
<1> QED
    BY <1>1, <1>2, <1>3, <1>4

-----------------------------------------------------------------------------

(* The ring implements the promise of its reader, for every capacity, line    *)
(* buffer and sequence of lines, one that fills it exactly and one longer     *)
(* than it included (log_ring/mod.rs, write and slices).                      *)
THEOREM RingKeepsLastBytes == Spec => KeepsLastBytes
<1>1. Init => LogInv /\ Promise!Init
    BY StartsEmpty DEF Init, Promise!Init
<1> QED
    BY <1>1, NextLogs, PTL DEF Spec, KeepsLastBytes, Promise!Spec

(* However slow the client and however many lines arrive meanwhile, the two   *)
(* slices it is sent are one cut of the log (src/log_ring.rs, the guard held  *)
(* over both writes).                                                         *)
THEOREM StreamsOneCut == Spec => []StreamIsOneCut
<1>1. LogInv => StreamIsOneCut
    <2> SUFFICES ASSUME LogInv PROVE StreamIsOneCut
        OBVIOUS
    <2> DEFINE f == Fewer(accepted, Capacity)
    <2>1. /\ Contents(ring) = Run(accepted - f, f)
          /\ \E m \in Int, n \in Nat : Older(ring) = Run(m, n)
          /\ accepted \in Nat
        BY ContentsTell DEF LogInv, Tells
    <2>2. accepted - f \in Int /\ f \in Nat /\ (accepted > 0 => f > 0)
        BY <2>1, RingAssumption DEF Fewer
    <2>3. PICK m \in Int, n \in Nat :
              /\ reader.sent = Run(m, n)
              /\ reader.at = "done" => m = accepted - f /\ n = f
        <3>1. CASE reader = Idle
            <4>1. reader.sent = Run(0, 0) /\ reader.at # "done"
                BY <3>1 DEF Idle, Run
            <4> QED
                BY <4>1
        <3>2. CASE reader.at = "newer" /\ reader.sent = Older(ring)
            BY <2>1, <3>2
        <3>3. CASE reader.at = "done" /\ reader.sent = Contents(ring)
            BY <2>1, <2>2, <3>3
        <3> QED
            BY <3>1, <3>2, <3>3 DEF LogInv, StreamFits
    <2>4. Len(reader.sent) = n /\ \A i \in 1..n : reader.sent[i] = m + i
        BY <2>3, RunIsSeq
    <2>5. ASSUME NEW i \in 1..Len(reader.sent) - 1
          PROVE  reader.sent[i + 1] = reader.sent[i] + 1
        <3>1. PICK next \in 1..n : next = i + 1 /\ i \in 1..n
            BY <2>4
        <3>2. reader.sent[i] = m + i /\ reader.sent[next] = m + next
            BY <2>4, <3>1
        <3> QED
            BY <3>1, <3>2
    <2>6. ASSUME reader.at = "done", accepted > 0
          PROVE  reader.sent # <<>> /\ reader.sent[Len(reader.sent)] = accepted
        <3>1. n > 0 /\ m + n = accepted
            BY <2>1, <2>2, <2>3, <2>6
        <3>2. reader.sent[n] = m + n
            BY <2>4, <3>1
        <3>3. reader.sent # <<>>
            BY <2>4, <3>1
        <3> QED
            BY <2>4, <3>1, <3>2, <3>3
    <2> QED
        BY <2>5, <2>6 DEF StreamIsOneCut
<1>2. Init => LogInv
    BY StartsEmpty
<1> QED
    BY <1>1, <1>2, NextLogs, PTL DEF Spec

(* The event log is complete: for every sequence of polls and events, however *)
(* long, the ring shows the latest ones in order, each is counted under its   *)
(* kind, evicted or not, and a latched protection makes one entry per episode *)
(* (error_log/mod.rs, record; xy.rs, ProtectionLog::classify).                *)
THEOREM CountsEveryEvent == Spec => []EveryEventCounted
<1>1. Init => EventInv
    <2> SUFFICES ASSUME Init PROVE EventInv
        OBVIOUS
    <2>1. past = << >> /\ DOMAIN past = {} /\ past \in Seq(Entries)
        BY EmptySeq DEF Init
    <2>2. /\ log.recent = << >> /\ log \in Logs
          /\ \A event \in Events : Count(log, event) = 0
        <3>1. NewLog \in Logs
            BY EmptySeq DEF NewLog, Logs
        <3>2. \A event \in Events : NewLog.counts[Slot(event)] = 0
            BY SlotsAreApart DEF NewLog
        <3> QED
            BY <3>1, <3>2 DEF Init, NewLog, Count
    <2>3. Noted = {} /\ \A event : {i \in Noted : EventAt(i) = event} = {}
        BY <2>1 DEF Noted
    <2>4. Cardinality({}) = 0 /\ Saturated(0) = 0 /\ 0 < EventCapacity /\ Len(<< >>) = 0
        BY FS_EmptySet, EventAssumption DEF Saturated
    <2>5. EveryEventCounted
        BY <2>2, <2>3, <2>4 DEF EveryEventCounted
    <2>6. LastIsShown
        BY <2>1 DEF Init, LastIsShown
    <2> QED
        BY <2>1, <2>2, <2>5, <2>6 DEF EventInv
<1>2. EventInv => EveryEventCounted
    BY DEF EventInv
<1> QED
    BY <1>1, <1>2, EventStep, PTL DEF Spec
=============================================================================
