------------------------------ MODULE History ------------------------------
(***************************************************************************)
(* The adaptive-resolution history (logic/src/data/history/mod.rs).  An    *)
(* average is known by the raw samples it was taken of and by its stamp;   *)
(* the arithmetic is left out.                                             *)
(***************************************************************************)
EXTENDS Integers, Sequences, FiniteSets

CONSTANTS
    HistoryCapacity,    (* HISTORY_CAPACITY: entries the ring holds          *)
    MaxInterval         (* MAX_INTERVAL: raw samples per entry, at most      *)

(* The two const assertions of the module. *)
ASSUME CapacityAssumption ==
    HistoryCapacity \in Nat \ {0} /\ HistoryCapacity % 2 = 0
ASSUME IntervalAssumption ==
    MaxInterval \in Nat \ {0} /\ \E k \in 0..30 : MaxInterval = 2^k

(* A sample: its stamp, and the raw samples it averages. *)
Sample(time, of) == [time |-> time, of |-> of]

NoneAdded == [of |-> {}, count |-> 0]
Added(acc, s) == [of |-> acc.of \cup s.of, count |-> acc.count + 1]
Average(acc, time) == Sample(time, acc.of)

NewHistory == [samples |-> <<>>, interval |-> 1, acc |-> NoneAdded]

IsFull(h) == Len(h.samples) = HistoryCapacity

(* Mutant: neighbours are averaged instead of pairs. *)
Pair_Overlaps(samples, i) ==
    Average(Added(Added(NoneAdded, samples[i]), samples[i + 1]), samples[i + 1].time)

(* Adjacent entries averaged, stamped by the end of the span they cover. *)
Pair(samples, i) ==
    Average(Added(Added(NoneAdded, samples[2 * i - 1]), samples[2 * i]), samples[2 * i].time)

(* Mutant: the interval stays what it was. *)
Compact_Forgets(h) ==
    [h EXCEPT !.samples = [i \in 1..Len(@) \div 2 |-> Pair(@, i)]]

(* `compact`: half the entries, each standing for twice as much. *)
Compact(h) ==
    [h EXCEPT !.samples = [i \in 1..Len(@) \div 2 |-> Pair(@, i)], !.interval = 2 * @]

(* A full buffer coarsens, and once it is at the largest interval it slides. *)
WithRoom(h) ==
    IF ~IsFull(h) THEN h
    ELSE IF h.interval < MaxInterval THEN Compact(h)
    ELSE [h EXCEPT !.samples = Tail(@)]

(* `commit`: accumulate, and push the average of a full interval. *)
Commit(h, raw) ==
    LET acc == Added(h.acc, raw) IN
    IF acc.count < h.interval
    THEN [h EXCEPT !.acc = acc]
    ELSE [WithRoom([h EXCEPT !.acc = NoneAdded])
            EXCEPT !.samples = Append(@, Average(acc, raw.time))]

(* `last_time`: only what is stored counts, not what is being accumulated. *)
AfterLast(h, time) ==
    h.samples # <<>> => time > h.samples[Len(h.samples)].time
=============================================================================
