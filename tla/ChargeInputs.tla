---------------------------- MODULE ChargeInputs ----------------------------
(***************************************************************************)
(* What a poll returns in the small instances of the charge supervisor: a  *)
(* sample in each region the supervisor tells apart, a status read for     *)
(* each target and each kind of output.  The voltages and currents go with *)
(* the profile of the .cfg files.                                          *)
(***************************************************************************)
EXTENDS ChargeState, Integers

Sample(v, a) == [fresh |-> TRUE, volts |-> v, amps |-> a]

Missing    == [fresh |-> FALSE, volts |-> 0, amps |-> 0]
RestingLow == Sample(1, 0)
RestingFull == Sample(2, 0)
Bulk       == Sample(2, -4)     \* above enter_absorb_a, below the plateau
Between    == Sample(4, -1)     \* at the plateau, between exit and enter
Tapered    == Sample(4, 0)      \* at the plateau, below exit_absorb_a
TooHigh    == Sample(6, -4)     \* over the overvoltage line
TooMuch    == Sample(2, -6)     \* over 1.25 times the pack's rate

MCSamples == {Missing, RestingLow, RestingFull, Bulk, Between, Tapered, TooHigh, TooMuch}

(* The samples of a run about the windows of the gauntlet only. *)
WindowSamples == {Missing, Bulk, TooHigh, TooMuch}

Unread == [read |-> FALSE, target |-> "Other", on |-> FALSE, cause |-> "Normal"]
Status(target, on, cause) ==
    [read |-> TRUE, target |-> target, on |-> on, cause |-> cause]

MCBuckReads ==
    {Unread}
    \cup {Status(t, TRUE, "Normal") : t \in {"Float", "Absorb", "Other"}}
    \cup {Status(t, FALSE, c) : t \in {"Float", "Absorb", "Other"}, c \in {"Normal", "Lvp"}}

(* The charger run reads its own buck; nothing is left out. *)
AllBuckReads == [read : BOOLEAN, target : Phases \cup {"Other"}, on : BOOLEAN,
                 cause : {"Normal", "Lvp", "Ovp"}]

(* Reads in which the target is never one nobody wrote. *)
TrueBuckReads ==
    {Unread} \cup {Status(t, TRUE, "Normal") : t \in Phases}
             \cup {Status("Float", FALSE, c) : c \in {"Normal", "Lvp"}}
             \cup {Status("Absorb", FALSE, "Lvp")}

CycleSamples == {Missing, Bulk, Between, Tapered, TooHigh}

NoTemps == {"None"}
SomeTemps == {"None", "Ok", "Hot"}
=============================================================================
