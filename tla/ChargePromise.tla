---------------------------- MODULE ChargePromise ----------------------------
(***************************************************************************)
(* What the charge supervisor promises its caller, without saying how: a   *)
(* unit is charging, parked on a fault or dark on one; it only ever moves  *)
(* down that list, with a reason, and what it may ask of the buck depends  *)
(* on where it is.  Getting back up takes a reboot.                        *)
(***************************************************************************)
CONSTANTS
    ParkReasons,    (* the faults that are answered by holding float *)
    Reasons         (* every fault                                   *)

VARIABLES
    stage,      (* "charging", "parked" or "dark"            *)
    reason,     (* why it is not charging, "None" while it is *)
    ask         (* what was last asked of the buck            *)

(* "Raise" and "Lower" move V_SET to the absorb and to the float target. *)
Asks(s) ==
    CASE s = "charging" -> {"None", "Enable", "Raise", "Lower"}
      [] s = "parked"   -> {"None", "Enable", "Lower"}
      [] s = "dark"     -> {"None", "Disable"}

Init == stage = "charging" /\ reason = "None" /\ ask = "None"

(* Nothing new: ask for what the stage allows. *)
Serve == ask' \in Asks(stage) /\ UNCHANGED <<stage, reason>>

Park ==
    /\ stage = "charging" /\ stage' = "parked"
    /\ reason' \in ParkReasons
    /\ ask' \in {"None", "Lower"}

Latch ==
    /\ stage # "dark" /\ stage' = "dark"
    /\ reason' \in Reasons
    /\ ask' = "Disable"

Next == Serve \/ Park \/ Latch

Spec == Init /\ [][Next]_<<stage, reason, ask>>
=============================================================================
