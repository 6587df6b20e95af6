------------------------------ MODULE LogRing ------------------------------
(***************************************************************************)
(* The byte ring behind /api/log (logic/src/log_ring/mod.rs).              *)
(***************************************************************************)
EXTENDS Integers, Sequences

CONSTANT Capacity       (* length of the buffer handed to from_buf *)

ASSUME RingAssumption == Capacity \in Nat \ {0}

Indices == 0..Capacity - 1
LastOf(s, n) == IF Len(s) <= n THEN s ELSE SubSeq(s, Len(s) - n + 1, Len(s))

NewRing == [data |-> [i \in Indices |-> 0], head |-> 0, wrapped |-> FALSE]

(* A line longer than the ring starts over at the beginning. *)
Start(ring, line) == IF Len(line) > Capacity THEN 0 ELSE ring.head

(* Mutant: a line that ends exactly at the end of the buffer has not wrapped. *)
Wraps_Beyond(ring, line, end) == ring.wrapped \/ end > Capacity

Wraps(ring, line, end) == ring.wrapped \/ end >= Capacity

(* `write`: what fits goes behind the head, the rest to the beginning. *)
Write(ring, line) ==
    LET kept  == LastOf(line, Capacity)
        start == Start(ring, line)
        end   == start + Len(kept)
    IN  [data |-> [i \in Indices |->
                    IF start <= i /\ i < end THEN kept[i - start + 1]
                    ELSE IF i + Capacity < end THEN kept[i + Capacity - start + 1]
                    ELSE ring.data[i]],
         head |-> end % Capacity,
         wrapped |-> Wraps(ring, line, end)]

(* The bytes at positions from up to, without, upto. *)
Bytes(ring, from, upto) == [i \in 1..upto - from |-> ring.data[from + i - 1]]

(* `slices`: the older half behind the head, the newer one before it. *)
Older(ring) ==
    IF ring.wrapped THEN Bytes(ring, ring.head, Capacity) ELSE Bytes(ring, 0, ring.head)
Newer(ring) == IF ring.wrapped THEN Bytes(ring, 0, ring.head) ELSE <<>>
Contents(ring) == Older(ring) \o Newer(ring)
=============================================================================
