----------------------------- MODULE LastBytes -----------------------------
(***************************************************************************)
(* What the log promises its reader: the last bytes that were accepted, in *)
(* order.  A byte is known by how many were accepted before it.            *)
(***************************************************************************)
EXTENDS Integers, Sequences

CONSTANTS Capacity, LongestLine

VARIABLES
    text,       (* what a reader gets                  *)
    accepted    (* how many bytes have been accepted   *)

Init == text = <<>> /\ accepted = 0

Line(first, n) == [i \in 1..n |-> first + i]

Accept(n) ==
    LET all == text \o Line(accepted, n) IN
    /\ text' = IF Len(all) <= Capacity THEN all
               ELSE SubSeq(all, Len(all) - Capacity + 1, Len(all))
    /\ accepted' = accepted + n

Next == \E n \in 1..LongestLine : Accept(n)

Spec == Init /\ [][Next]_<<text, accepted>>
=============================================================================
