------------------------------ MODULE EventLog ------------------------------
(***************************************************************************)
(* The event log (logic/src/error_log/mod.rs): a ring of recent events and *)
(* one lifetime counter per kind in a flat array.                          *)
(***************************************************************************)
EXTENDS Integers, Sequences

CONSTANTS
    EventCapacity,      (* CAPACITY: entries of the ring                     *)
    CountMax,           (* u32::MAX                                          *)
    InaKinds, XyKinds, ChargeKinds      (* COUNT of each source's kinds      *)

ASSUME EventAssumption ==
    /\ {EventCapacity, CountMax, InaKinds, XyKinds, ChargeKinds} \subseteq Nat \ {0}

KindsOf == [ina |-> InaKinds, xy |-> XyKinds, charge |-> ChargeKinds]
Events == UNION {{source} \X (0..KindsOf[source] - 1) : source \in DOMAIN KindsOf}

(* Each source's block starts where the one before it ends. *)
Offset == [ina |-> 0, xy |-> InaKinds, charge |-> InaKinds + XyKinds]
Slot(event) == Offset[event[1]] + event[2]
TotalKinds == InaKinds + XyKinds + ChargeKinds

NewLog == [recent |-> <<>>, counts |-> [slot \in 0..TotalKinds - 1 |-> 0]]

Pushed(recent, event) ==
    Append(IF Len(recent) = EventCapacity THEN Tail(recent) ELSE recent, event)

Saturated(n) == IF n > CountMax THEN CountMax ELSE n

(* `record`: evict, append, count; the stamp is left out. *)
Record(log, event) ==
    [recent |-> Pushed(log.recent, event),
     counts |-> [log.counts EXCEPT ![Slot(event)] = Saturated(@ + 1)]]

Count(log, event) == log.counts[Slot(event)]
=============================================================================
