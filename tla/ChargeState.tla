---------------------------- MODULE ChargeState ----------------------------
(***************************************************************************)
(* The charge supervisor's flat state machine (logic/src/charging/         *)
(* charge_state.rs): its states, its events, the transition table that     *)
(* says where each pair lands, and the questions the rest of the           *)
(* supervisor asks of a state.  Constant level: no variables.              *)
(***************************************************************************)

(* Bring-up: output off, deciding whether to turn it on. *)
Holding    == {"HoldFloat", "HoldAbsorb", "HoldParked"}
BringingUp == {"Boot"} \cup Holding

(* Parked on a fault, or on the way there: load fed, charging over. *)
Parked     == {"ToParked", "Parked"}

Sourcing   == {"Float", "Absorb", "ToAbsorb", "ToFloat"} \cup Parked
Terminal   == {"Tripping", "Latched"}
States     == BringingUp \cup Sourcing \cup Terminal

Events == {"Fault", "Park", "SelfDisabled", "SelfEnabled", "Enabled",
           "EnabledBelowFull", "TaperRose", "TaperFell", "VoltageWritten",
           "Disabled"}

(* A cell of the table that is empty: `step` panics on it. *)
Undefined == "Undefined"

Phases  == {"Float", "Absorb"}
NoPhase == "NoPhase"

-----------------------------------------------------------------------------
(***************************************************************************)
(* The transition table, one column (event) at a time.                     *)
(***************************************************************************)

(* Mutant: a parked unit that loses its rail forgets that it was parked.   *)
HoldOf_ForgetsPark(s) ==
    CASE s \in {"Float", "ToAbsorb", "Parked"} -> "HoldFloat"
      [] s \in {"Absorb", "ToFloat"}           -> "HoldAbsorb"
      [] OTHER                                 -> Undefined

(* The hold of the target the device still has when the buck drops out.    *)
HoldOf(s) ==
    CASE s \in {"Float", "ToAbsorb"}   -> "HoldFloat"
      [] s \in {"Absorb", "ToFloat"}   -> "HoldAbsorb"
      [] s = "Parked"                  -> "HoldParked"
      [] OTHER                         -> Undefined

(* Mutant: a parked unit comes out of a hold charging. *)
ResumeOf_ForgetsPark(s) ==
    CASE s \in {"HoldFloat", "HoldParked"} -> "Float"
      [] s = "HoldAbsorb"                  -> "Absorb"
      [] OTHER                             -> Undefined

(* What a hold resumes to when the output is back. *)
ResumeOf(s) ==
    CASE s = "HoldFloat"  -> "Float"
      [] s = "HoldAbsorb" -> "Absorb"
      [] s = "HoldParked" -> "Parked"
      [] OTHER            -> Undefined

(* Mutant: parking from the absorb target without the step-down it owes.   *)
ParkOf_Straight(s) ==
    IF s \in {"Float", "ToAbsorb", "Absorb", "ToFloat"} THEN "Parked" ELSE Undefined

(* Parking: straight in from the float target, through a step-down from    *)
(* the absorb target, and from nowhere else.                               *)
ParkOf(s) ==
    CASE s \in {"Float", "ToAbsorb"} -> "Parked"
      [] s \in {"Absorb", "ToFloat"} -> "ToParked"
      [] OTHER                       -> Undefined

(* The state an outstanding V_SET write lands in once it is confirmed. *)
WrittenOf(s) ==
    CASE s = "ToAbsorb" -> "Absorb"
      [] s = "ToFloat"  -> "Float"
      [] s = "ToParked" -> "Parked"
      [] OTHER          -> Undefined

EnabledOf(s) == IF s = "Boot" THEN "Float" ELSE ResumeOf(s)

EnabledBelowFullOf(s) ==
    IF s \in {"Boot", "HoldFloat"} THEN "ToAbsorb" ELSE ResumeOf(s)

(* `ChargeState::next`: where event e takes state s. *)
After(s, e) ==
    CASE e = "Fault"            -> IF s \in Terminal THEN Undefined ELSE "Tripping"
      [] e = "Park"             -> ParkOf(s)
      [] e = "SelfDisabled"     -> HoldOf(s)
      [] e = "SelfEnabled"      -> IF s = "Latched" THEN "Tripping" ELSE ResumeOf(s)
      [] e = "Enabled"          -> EnabledOf(s)
      [] e = "EnabledBelowFull" -> EnabledBelowFullOf(s)
      [] e = "TaperRose"        -> IF s = "Float" THEN "ToAbsorb" ELSE Undefined
      [] e = "TaperFell"        -> IF s = "Absorb" THEN "ToFloat" ELSE Undefined
      [] e = "VoltageWritten"   -> WrittenOf(s)
      [] e = "Disabled"         -> IF s = "Tripping" THEN "Latched" ELSE Undefined

-----------------------------------------------------------------------------
(* Mutant: the target is the new one before the write of it is confirmed. *)
SetpointPhase_Ahead(s) ==
    IF s \in {"HoldAbsorb", "Absorb", "ToAbsorb"} THEN "Absorb"
    ELSE IF s \in Terminal THEN NoPhase
    ELSE "Float"

(* Which target the device's V_SET is holding, for the drift check. *)
SetpointPhase(s) ==
    IF s \in {"HoldAbsorb", "Absorb", "ToFloat", "ToParked"} THEN "Absorb"
    ELSE IF s \in Terminal THEN NoPhase
    ELSE "Float"

(* The phase an outstanding V_SET write is moving to, if there is one. *)
RetargetTo(s) ==
    CASE s = "ToAbsorb"                -> "Absorb"
      [] s \in {"ToFloat", "ToParked"} -> "Float"
      [] OTHER                         -> NoPhase

(* The event-log entries a move from s to t makes: none or one. *)
LoggedAs(s, t) ==
    IF s = "Boot" /\ t \in Sourcing            THEN <<"Energised">>
    ELSE IF s \in Holding /\ t \in Sourcing    THEN <<"ProtectCleared">>
    ELSE IF s \in Sourcing /\ t \in Holding    THEN <<"ProtectHold">>
    ELSE IF t = "Tripping"                     THEN <<"Latched">>
    ELSE IF s \notin Parked /\ t \in Parked    THEN <<"Parked">>
    ELSE << >>
=============================================================================
