-------------------------- MODULE ChargeSupervisor --------------------------
(***************************************************************************)
(* The charge supervisor (logic/src/charging/charge_supervisor.rs): the    *)
(* single-threaded decision maker of the charger.  One Tick is one call of *)
(* `tick`: reconcile with the buck's output, run the ordered safety        *)
(* gauntlet, then regulate.  It leaves in `action` the ticket it handed    *)
(* out; a Commit action redeems the ticket after the Modbus write worked,  *)
(* and the next Tick drops a ticket that was not redeemed.                 *)
(*                                                                         *)
(* The poll results are the environment: any reading at any tick.  Times   *)
(* are abstract units, voltages and currents integers (mV, mA) that only   *)
(* matter relative to the profile's thresholds.                            *)
(***************************************************************************)
EXTENDS ChargeState, Integers, Sequences

CONSTANTS
    (* Pack profile: CV targets, currents, resting voltage of a full pack. *)
    FloatV, AbsorbV, FullRestV, OvMargin, CvBand,
    RegulationA, EnterAbsorbA, ExitAbsorbA,
    (* Windows and budgets of logic/src/charging/mod.rs. *)
    OvDuration, OvercurrentDuration, MaxAbsorb, MaxCharge, ExitDebounce,
    BatteryMissingTimeout, ModbusUnhealthyTimeout, PackTempStaleTimeout,
    FlapWindow, MaxHolds, TransitionBuffer,
    DurationMax,    (* `Duration::MAX`, where `saturating_add` stops      *)
    PackTemp,       (* "Absent" or "Fitted": what the board declares      *)
    (* What a poll can return. *)
    Samples,        (* battery samples: [fresh, volts, amps]              *)
    BuckReads,      (* status reads: [read, target, on, cause]            *)
    Temps,          (* "None", "Cold", "Ok", "Hot"                        *)
    Elapsed         (* wall time between two ticks                        *)

Windows == {OvDuration, OvercurrentDuration, MaxAbsorb, MaxCharge, ExitDebounce,
            BatteryMissingTimeout, ModbusUnhealthyTimeout, PackTempStaleTimeout,
            FlapWindow}

Causes == {"Normal", "Ovp", "Ocp", "Opp", "Lvp", "Oah", "Ohp", "Otp", "Oep",
           "Owh", "Icp"}

(* `target` is the phase whose pair (V_SET and I_SET) the readback is within *)
(* SETPOINT_DRIFT_TOL of, "Other" when it is within it of neither.           *)
BatterySample == [fresh : BOOLEAN, volts : Int, amps : Int]
BuckRead == [read : BOOLEAN, target : Phases \cup {"Other"}, on : BOOLEAN,
             cause : Causes]

ASSUME WindowAssumption ==
    /\ DurationMax \in Nat
    /\ \A w \in Windows : w \in Nat \ {0} /\ w < DurationMax
    /\ MaxCharge > MaxAbsorb
    /\ Elapsed \subseteq Nat \ {0}

ASSUME BudgetAssumption ==
    /\ MaxHolds \in 0..254
    /\ TransitionBuffer \in Nat /\ TransitionBuffer >= 3

ASSUME ProfileAssumption ==
    /\ {FloatV, AbsorbV, FullRestV, OvMargin, CvBand} \subseteq Nat
    /\ {RegulationA, EnterAbsorbA, ExitAbsorbA} \subseteq Nat
    /\ FloatV < AbsorbV
    /\ ExitAbsorbA < EnterAbsorbA /\ EnterAbsorbA < RegulationA

ASSUME InputAssumption ==
    /\ PackTemp \in {"Absent", "Fitted"}
    /\ Samples \subseteq BatterySample
    /\ BuckReads \subseteq BuckRead
    /\ Temps \subseteq {"None", "Cold", "Ok", "Hot"}

VARIABLES
    machine,    (* state, debounce clocks, hold budget, undrained log    *)
    fault,      (* `fault`: the fault reported, "None" before the first  *)
    inhibit,    (* `inhibit`: why the buck is being held off, or "None"  *)
    action      (* the ticket the last tick handed out, NoAction if none *)

vars == <<machine, fault, inhibit, action>>

-----------------------------------------------------------------------------
(* Debounce windows (debounce.rs). *)

(* Mutant: a window that adds up without saturating. *)
Capped_Unbounded(d) == d

Capped(d) == IF d > DurationMax THEN DurationMax ELSE d

Stepped(clock, cond, dt) == IF cond THEN Capped(clock + dt) ELSE 0

Leaked(clock, cond, dt) ==
    IF cond THEN Capped(clock + dt)
    ELSE IF clock > dt THEN clock - dt ELSE 0

Clocks == {"ov", "overcurrent", "pack_temp_missing", "absorb", "charge_total",
           "exit", "battery_missing", "modbus_err"}

ChargeTransitions == {"Energised", "ProtectCleared", "ProtectHold", "Latched", "Parked"}

-----------------------------------------------------------------------------
(* Faults and inhibits (fault_reason.rs, inhibit_reason.rs, protection_policy.rs). *)

ParkFaults == {"AbsorbTimeout", "ChargeTimeout", "ChargeOvercurrent"}

WaitingFaults == {"SettingsDrift", "ModbusUnhealthy", "BatterySensorStale",
                  "Overvoltage", "PackTooCold", "PackTooHot", "PackTempStale"}

FaultReasons == ParkFaults \cup WaitingFaults
                \cup {"ProtectionFlapping", "OutputUnexpectedlyOff", "OutputOnInPending"}

InhibitReasons == WaitingFaults \cup {"NoBatterySample", "BuckProtection"}

(* The waiting form of a fault: `inhibited`, which has none for the faults *)
(* that need a sourcing buck.                                              *)
Inhibited(reason) == IF reason \in WaitingFaults THEN reason ELSE Undefined

SelfClearing(cause) == cause \in {"Lvp", "Otp"}

-----------------------------------------------------------------------------
(* Tickets (action.rs). *)

VoltageOf(phase) == IF phase = "Absorb" THEN AbsorbV ELSE FloatV

NoAction == [do |-> "None"]
EnableOutput(resume) == [do |-> "EnableOutput", resume_absorb |-> resume]
DisableOutput(reason) == [do |-> "DisableOutput", reason |-> reason]

(* Mutant: a step-down that is written live. *)
UpdateVoltage_Live(s, next) ==
    [do |-> "UpdateVoltage", phase |-> next, cycle_output |-> FALSE]

(* `update_voltage_for`: the output is cycled when the target goes down. *)
UpdateVoltage(s, next) ==
    [do |-> "UpdateVoltage", phase |-> next,
     cycle_output |-> VoltageOf(next) < VoltageOf(SetpointPhase(s))]

Actions == {NoAction}
           \cup {EnableOutput(resume) : resume \in BOOLEAN}
           \cup {DisableOutput(reason) : reason \in FaultReasons}
           \cup [do : {"UpdateVoltage"}, phase : Phases, cycle_output : BOOLEAN]

-----------------------------------------------------------------------------
(* `step`: the only writer of the state. *)

(* Mutant: a log that keeps the oldest entry and drops the new one. *)
Push_KeepsOldest(log, entries) == IF log = << >> THEN entries ELSE log

Push(log, entries) ==
    IF entries # << >> /\ Len(log) = TransitionBuffer
    THEN Tail(log) \o entries
    ELSE log \o entries

(* Mutant: a taper window that outlives the move it caused. *)
ClockAfterMove_KeepsExit(clock, to) ==
    [k \in Clocks |->
        IF \/ k \in {"absorb", "charge_total"} /\ to \notin Terminal
           \/ k = "ov" /\ to \in Holding
        THEN 0 ELSE clock[k]]

(* Mutant: every window starts over at every move. *)
ClockAfterMove_Forgets(clock, to) == [k \in Clocks |-> 0]

(* A move invalidates the windows that measure a dwell in one phase, unless *)
(* it ends in a terminal state; entering a hold forgets the overvoltage too. *)
ClockAfterMove(clock, to) ==
    [k \in Clocks |->
        IF \/ k \in {"absorb", "charge_total", "exit"} /\ to \notin Terminal
           \/ k = "ov" /\ to \in Holding
        THEN 0 ELSE clock[k]]

(* Mutant: a hold that recovered is forgotten. *)
HoldsAfterMove_Forgets(holds, to) == IF to \in Holding THEN 1 ELSE 0

HoldsAfterMove(holds, to) ==
    IF to \in Holding /\ holds < 255 THEN holds + 1 ELSE holds

StepTo(m, to) ==
    [state       |-> to,
     clock       |-> ClockAfterMove(m.clock, to),
     holds       |-> HoldsAfterMove(m.holds, to),
     since_last  |-> IF to \in Holding THEN 0 ELSE m.since_last,
     transitions |-> Push(m.transitions, LoggedAs(m.state, to))]

Step(m, event) == StepTo(m, After(m.state, event))

(* An assertion of the code failed: the thread panics and the unit reboots. *)
Panic(m) == [m EXCEPT !.state = Undefined]

-----------------------------------------------------------------------------
(***************************************************************************)
(* The gauntlet: checks 1 to 8 in their order of authority.  In every      *)
(* operator m is the machine `reconcile` left, with the hold budget        *)
(* already advanced, and p the poll result.  A check advances its window   *)
(* only when the checks before it let the tick through to it.              *)
(***************************************************************************)

(* 1. `HoldBudget::step`: forget the holds after a quiet stretch. *)
QuietTimer(m, dt) ==
    LET since == Capped(m.since_last + dt)
    IN  [m EXCEPT !.since_last = since,
                  !.holds = IF since > FlapWindow THEN 0 ELSE @]

Flapping(m) == m.holds > MaxHolds

(* Mutant: the readback is only checked before the output is turned on. *)
Drifted_BringUpOnly(m, p) ==
    m.state \in BringingUp /\ p.buck.read /\ p.buck.target # SetpointPhase(m.state)

(* 2. Setpoint readback against the target the state says the device holds. *)
Drifted(m, p) == p.buck.read /\ p.buck.target # SetpointPhase(m.state)

(* 3. and 4. A silent Modbus link, a missing battery sample. *)
Silent(m, p, dt) ==
    Stepped(m.clock["modbus_err"], ~p.buck.read, dt) >= ModbusUnhealthyTimeout

Stale(m, p, dt) ==
    Stepped(m.clock["battery_missing"], ~p.battery.fresh, dt) >= BatteryMissingTimeout

(* 5. Overvoltage: debounced while sourcing, a single sample otherwise. *)
Over(p) == p.battery.volts > AbsorbV + OvMargin

(* Mutant: the window has to be exceeded. *)
OverLong_Late(m, p, dt) == Stepped(m.clock["ov"], Over(p), dt) > OvDuration

OverLong(m, p, dt) == Stepped(m.clock["ov"], Over(p), dt) >= OvDuration

Overvoltage(m, p, dt) ==
    IF m.state \in Sourcing THEN OverLong(m, p, dt) ELSE Over(p)

(* 6. The pack takes more than 1.25 times its rate.  Current is negative    *)
(* while charging.                                                          *)
ChargingA(b) == -b.amps

Greedy(p) == 4 * ChargingA(p.battery) > 5 * RegulationA

Overcurrent(m, p, dt) ==
    /\ Stepped(m.clock["overcurrent"], Greedy(p), dt) >= OvercurrentDuration
    /\ m.state \in Sourcing

(* Mutant: the window has to be exceeded. *)
TempStale_Late(m, p, dt) ==
    /\ PackTemp = "Fitted"
    /\ Stepped(m.clock["pack_temp_missing"], p.temp = "None", dt) > PackTempStaleTimeout

(* 7. Pack temperature, on a board that has the sensor. *)
TempStale(m, p, dt) ==
    /\ PackTemp = "Fitted"
    /\ Stepped(m.clock["pack_temp_missing"], p.temp = "None", dt) >= PackTempStaleTimeout

TempOutOfRange(p) == PackTemp = "Fitted" /\ p.temp \in {"Cold", "Hot"}

(* 8. Bring-up only: a live link and no protection still holding the buck. *)
Unconfirmed(m, p) == m.state \in BringingUp /\ ~p.buck.read

HeldOff(m, p) ==
    /\ m.state \in BringingUp
    /\ p.buck.read /\ ~p.buck.on /\ SelfClearing(p.buck.cause)

Latch(reason) == [kind |-> "Latch", reason |-> reason]
Inhibit(reason) == [kind |-> "Inhibit", reason |-> reason]
Clear == [kind |-> "Clear"]

(* `fault_or_inhibit`: latch a sourcing buck, only hold off an idle one. *)
FaultOrInhibit(m, reason) ==
    IF m.state \in Sourcing THEN Latch(reason) ELSE Inhibit(Inhibited(reason))

Verdict(m, p, dt) ==
    IF Flapping(m)                THEN Latch("ProtectionFlapping")
    ELSE IF Drifted(m, p)         THEN FaultOrInhibit(m, "SettingsDrift")
    ELSE IF Silent(m, p, dt)      THEN FaultOrInhibit(m, "ModbusUnhealthy")
    ELSE IF Stale(m, p, dt)       THEN FaultOrInhibit(m, "BatterySensorStale")
    ELSE IF ~p.battery.fresh      THEN Inhibit("NoBatterySample")
    ELSE IF Overvoltage(m, p, dt) THEN FaultOrInhibit(m, "Overvoltage")
    ELSE IF Overcurrent(m, p, dt) THEN Latch("ChargeOvercurrent")
    ELSE IF TempStale(m, p, dt)   THEN FaultOrInhibit(m, "PackTempStale")
    ELSE IF TempOutOfRange(p)
         THEN FaultOrInhibit(m, IF p.temp = "Cold" THEN "PackTooCold" ELSE "PackTooHot")
    ELSE IF Unconfirmed(m, p)     THEN Inhibit("ModbusUnhealthy")
    ELSE IF HeldOff(m, p)         THEN Inhibit("BuckProtection")
    ELSE Clear

ReachesModbus(m, p) == ~Flapping(m) /\ ~Drifted(m, p)
ReachesBattery(m, p, dt) == ReachesModbus(m, p) /\ ~Silent(m, p, dt)
ReachesPack(m, p, dt) == ReachesBattery(m, p, dt) /\ p.battery.fresh
ReachesCurrent(m, p, dt) == ReachesPack(m, p, dt) /\ ~Overvoltage(m, p, dt)
ReachesTemp(m, p, dt) ==
    ReachesCurrent(m, p, dt) /\ ~Overcurrent(m, p, dt) /\ PackTemp = "Fitted"

(* The debounce windows as the gauntlet leaves them. *)
GauntletClock(m, p, dt) ==
    [m.clock EXCEPT
        !["modbus_err"] = IF ReachesModbus(m, p)
            THEN Stepped(@, ~p.buck.read, dt) ELSE @,
        !["battery_missing"] = IF ReachesBattery(m, p, dt)
            THEN Stepped(@, ~p.battery.fresh, dt) ELSE @,
        !["ov"] = IF ReachesPack(m, p, dt) THEN Stepped(@, Over(p), dt) ELSE @,
        !["overcurrent"] = IF ReachesCurrent(m, p, dt)
            THEN Stepped(@, Greedy(p), dt) ELSE @,
        !["pack_temp_missing"] = IF ReachesTemp(m, p, dt)
            THEN Stepped(@, p.temp = "None", dt) ELSE @]

-----------------------------------------------------------------------------
(* `on_fault`: park once if the fault is park-class, otherwise disable. *)
Parks(m, reason) == reason \in ParkFaults /\ m.state \notin Parked

(* Mutant: the first fault stays on display. *)
OnFault_KeepsFirst(m, reason) ==
    /\ fault' = IF fault = "None" THEN reason ELSE fault
    /\ inhibit' = "None"
    /\ IF Parks(m, reason)
       THEN LET n == Step(m, "Park")
            IN  /\ machine' = n
                /\ action' = IF RetargetTo(n.state) # NoPhase
                             THEN UpdateVoltage(n.state, RetargetTo(n.state))
                             ELSE NoAction
       ELSE /\ machine' = Step(m, "Fault")
            /\ action' = DisableOutput(reason)

OnFault(m, reason) ==
    /\ fault' = reason
    /\ inhibit' = "None"
    /\ IF Parks(m, reason)
       THEN LET n == Step(m, "Park")
            IN  /\ machine' = n
                /\ action' = IF RetargetTo(n.state) # NoPhase
                             THEN UpdateVoltage(n.state, RetargetTo(n.state))
                             ELSE NoAction
       ELSE /\ machine' = Step(m, "Fault")
            /\ action' = DisableOutput(reason)

-----------------------------------------------------------------------------
(***************************************************************************)
(* `regulate`: the phase machine of a sourcing buck whose checks are clear.*)
(***************************************************************************)
AtCvPlateau(b) == b.volts >= AbsorbV - CvBand

RestedFull(b) ==
    /\ IF b.amps < 0 THEN -b.amps < ExitAbsorbA ELSE b.amps < ExitAbsorbA
    /\ b.volts >= FullRestV

BelowExit(m, b) == m.state = "Absorb" /\ ChargingA(b) < ExitAbsorbA

(* The three windows of a charge cycle; the caps run in Absorb only, and    *)
(* the absolute cap only when the plateau cap did not fire.                 *)
ExitClock(m, b, dt) == Leaked(m.clock["exit"], BelowExit(m, b), dt)
AbsorbClock(m, b, dt) == Leaked(m.clock["absorb"], AtCvPlateau(b), dt)
ChargeClock(m, dt) == Stepped(m.clock["charge_total"], TRUE, dt)

(* The windows run in this order: exit, then in Absorb the plateau cap, then *)
(* the absolute cap, each only if the one before did not fire.               *)
AfterExit(m, b, dt) == [m EXCEPT !.clock["exit"] = ExitClock(m, b, dt)]
AfterAbsorb(m, b, dt) ==
    [AfterExit(m, b, dt) EXCEPT !.clock["absorb"] = AbsorbClock(m, b, dt)]
(* Mutant: the absolute cap's window is not kept from tick to tick. *)
AfterCharge_Lost(m, b, dt) == AfterAbsorb(m, b, dt)

AfterCharge(m, b, dt) ==
    [AfterAbsorb(m, b, dt) EXCEPT !.clock["charge_total"] = ChargeClock(m, dt)]

ExitDone(m, b, dt) == ExitClock(m, b, dt) >= ExitDebounce
AbsorbDone(m, b, dt) == AbsorbClock(m, b, dt) >= MaxAbsorb
(* Mutant: the cap has to be exceeded. *)
ChargeDone_Late(m, dt) == ChargeClock(m, dt) > MaxCharge

ChargeDone(m, dt) == ChargeClock(m, dt) >= MaxCharge

(* Every check passed: nothing holds the buck off, no fault is raised. *)
AllClear == inhibit' = "None" /\ UNCHANGED fault

(* Mutant: a parked machine is taken for one that waits for nothing. *)
Reemit_NotParked(m) ==
    /\ RetargetTo(m.state) # NoPhase
    /\ machine' = m
    /\ action' = IF m.state \in Parked THEN NoAction
                 ELSE UpdateVoltage(m.state, RetargetTo(m.state))
    /\ AllClear

(* An unredeemed V_SET write is handed out again; nothing else runs. *)
Reemit(m) ==
    /\ RetargetTo(m.state) # NoPhase
    /\ machine' = m
    /\ action' = UpdateVoltage(m.state, RetargetTo(m.state))
    /\ AllClear

Retarget(m, event) ==
    LET n == Step(m, event)
    IN  /\ machine' = n
        /\ action' = UpdateVoltage(n.state, RetargetTo(n.state))
        /\ AllClear

Stay(m) == machine' = m /\ action' = NoAction /\ AllClear

RegulateFloat(m, b, dt) ==
    /\ m.state = "Float"
    /\ IF ChargingA(b) > EnterAbsorbA
       THEN Retarget(AfterExit(m, b, dt), "TaperRose")
       ELSE Stay(AfterExit(m, b, dt))

RegulateAbsorb(m, b, dt) ==
    /\ m.state = "Absorb"
    /\ IF ExitDone(m, b, dt)
         THEN Retarget(AfterExit(m, b, dt), "TaperFell")
       ELSE IF AbsorbDone(m, b, dt)
         THEN OnFault(AfterAbsorb(m, b, dt), "AbsorbTimeout")
       ELSE IF ChargeDone(m, dt)
         THEN OnFault(AfterCharge(m, b, dt), "ChargeTimeout")
       ELSE Stay(AfterCharge(m, b, dt))

RegulateParked(m, b, dt) == m.state = "Parked" /\ Stay(AfterExit(m, b, dt))

Regulate(m, b, dt) ==
    \/ Reemit(m)
    \/ RegulateFloat(m, b, dt)
    \/ RegulateAbsorb(m, b, dt)
    \/ RegulateParked(m, b, dt)

-----------------------------------------------------------------------------
(***************************************************************************)
(* `tick`.  The log is drained after every tick, so a tick starts with an  *)
(* empty one.                                                              *)
(***************************************************************************)
Drained == [machine EXCEPT !.transitions = << >>]

(* `reconcile`, terminal states: disable until it is confirmed, and again    *)
(* when a latched buck comes back on.                                        *)
RetryDisable ==
    /\ machine.state = "Tripping"
    /\ machine' = Drained
    /\ action' = DisableOutput(fault)
    /\ UNCHANGED <<fault, inhibit>>

(* Mutant: a latched unit does not look at its output again. *)
WatchLatched_Trusts(p) ==
    /\ machine.state = "Latched"
    /\ machine' = Drained
    /\ action' = NoAction
    /\ UNCHANGED <<fault, inhibit>>

WatchLatched(p) ==
    /\ machine.state = "Latched"
    /\ IF p.buck.read /\ p.buck.on
       THEN /\ machine' = Step(Drained, "SelfEnabled")
            /\ action' = DisableOutput(fault)
       ELSE /\ machine' = Drained
            /\ action' = NoAction
    /\ UNCHANGED <<fault, inhibit>>

(* `reconcile`: the output went off while sourcing, or came on in bring-up. *)
WentOff(s, p) == s \in Sourcing /\ p.buck.read /\ ~p.buck.on
CameOn(s, p) == s \in BringingUp /\ p.buck.read /\ p.buck.on

(* Whether the state can wait the protection out. *)
CanHold(s, p) == SelfClearing(p.buck.cause) /\ After(s, "SelfDisabled") # Undefined

LostOutput(p) ==
    /\ WentOff(machine.state, p) /\ ~CanHold(machine.state, p)
    /\ OnFault(Drained, "OutputUnexpectedlyOff")

OnInPending(p) ==
    /\ CameOn(machine.state, p) /\ machine.state \notin Holding
    /\ OnFault(Drained, "OutputOnInPending")

(* The machine once it agrees with the output: into a hold, or out of one. *)
Reconciled(m, p) ==
    IF WentOff(m.state, p) THEN Step(m, "SelfDisabled")
    ELSE IF CameOn(m.state, p) THEN Step(m, "SelfEnabled")
    ELSE m

Agrees(p) ==
    /\ machine.state \notin Terminal
    /\ WentOff(machine.state, p) => CanHold(machine.state, p)
    /\ CameOn(machine.state, p) => machine.state \in Holding

Supervise(p, dt) ==
    /\ Agrees(p)
    /\ LET m == QuietTimer(Reconciled(Drained, p), dt)
           g == [m EXCEPT !.clock = GauntletClock(m, p, dt)]
           v == Verdict(m, p, dt)
       IN  \/ v.kind = "Latch" /\ OnFault(g, v.reason)
           \/ /\ v.kind = "Inhibit"
              /\ machine' = g
              /\ inhibit' = v.reason
              /\ action' = NoAction
              /\ UNCHANGED fault
           \/ /\ v.kind = "Clear" /\ m.state \in BringingUp
              /\ machine' = g
              /\ action' = EnableOutput(~RestedFull(p.battery))
              /\ AllClear
           \/ /\ v.kind = "Clear" /\ m.state \notin BringingUp
              /\ Regulate(g, p.battery, dt)

PollResults == [buck : BuckReads, battery : Samples, temp : Temps]

Tick(p, dt) ==
    /\ machine.state \in States
    /\ RetryDisable \/ WatchLatched(p) \/ LostOutput(p) \/ OnInPending(p)
       \/ Supervise(p, dt)

-----------------------------------------------------------------------------
(* Redeeming a ticket, after the Modbus write it stands for went through. *)

CommitEnable ==
    /\ action.do = "EnableOutput"
    /\ machine' = Step(machine, IF action.resume_absorb THEN "EnabledBelowFull" ELSE "Enabled")
    /\ action' = NoAction
    /\ UNCHANGED <<fault, inhibit>>

CommitVoltage ==
    /\ action.do = "UpdateVoltage"
    /\ machine' = IF RetargetTo(machine.state) = action.phase
                  THEN Step(machine, "VoltageWritten") ELSE Panic(machine)
    /\ action' = NoAction
    /\ UNCHANGED <<fault, inhibit>>

CommitDisable ==
    /\ action.do = "DisableOutput"
    /\ machine' = IF fault = action.reason
                  THEN Step(machine, "Disabled") ELSE Panic(machine)
    /\ action' = NoAction
    /\ UNCHANGED <<fault, inhibit>>

Commit == CommitEnable \/ CommitVoltage \/ CommitDisable

-----------------------------------------------------------------------------
(* `ChargeSupervisor::new`. *)
NewMachine ==
    [state       |-> "Boot",
     clock       |-> [k \in Clocks |-> 0],
     holds       |-> 0,
     since_last  |-> 0,
     transitions |-> << >>]

Init ==
    /\ machine = NewMachine
    /\ fault = "None"
    /\ inhibit = "None"
    /\ action = NoAction

Next ==
    \/ \E p \in PollResults, dt \in Elapsed : Tick(p, dt)
    \/ Commit

Spec == Init /\ [][Next]_vars

-----------------------------------------------------------------------------
(***************************************************************************)
(* Properties.                                                             *)
(***************************************************************************)

Machines ==
    [state       : States \cup {Undefined},
     clock       : [Clocks -> 0..DurationMax],
     holds       : 0..255,
     since_last  : 0..DurationMax,
     transitions : Seq(ChargeTransitions)]

(* Every variable holds a value of its type; in particular no reason, ticket *)
(* or window is ever outside what the code's types can carry.                *)
TypeOK ==
    /\ machine \in Machines
    /\ fault \in FaultReasons \cup {"None"}
    /\ inhibit \in InhibitReasons \cup {"None", Undefined}
    /\ action \in Actions

(* The ticket in the caller's hands is one its commit will accept: it still  *)
(* names the write the state is waiting for, and the fault that is on display. *)
TicketsAgree ==
    /\ action.do = "EnableOutput" => machine.state \in BringingUp
    /\ action.do = "UpdateVoltage" => RetargetTo(machine.state) = action.phase
    /\ action.do = "DisableOutput" => machine.state = "Tripping" /\ fault = action.reason

(* No panic: no tick or commit asks the table for an empty cell, redeems a   *)
(* ticket that no longer matches, looks for the waiting form of a fault that *)
(* has none, or runs a leaky window past its end (`step`, `commit_voltage`,  *)
(* `commit_disable`, `fault_or_inhibit`, `Debounce::step_leaky`).            *)
NoPanic ==
    /\ machine.state \in States
    /\ inhibit # Undefined
    /\ machine.clock["exit"] < ExitDebounce
    /\ machine.clock["absorb"] < MaxAbsorb

(* States in which the pack may still be charged on purpose. *)
Charging == States \ (Parked \cup {"HoldParked"} \cup Terminal)

(* A fault is on display exactly while charging is over, and what stops the  *)
(* charge without a fault (an inhibit) is never shown over a dark, latched   *)
(* output: the status the dashboard reads tells one story.                   *)
FaultTellsState ==
    /\ machine.state \in States => (fault # "None" <=> machine.state \notin Charging)
    /\ machine.state \in Terminal => inhibit = "None"

(* The promise made to the caller, and how this machine keeps it: a reason   *)
(* once given is never taken back by a tick or a commit, a park or a latch   *)
(* neither, and V_SET is never raised again once charging is over.           *)
StageOf(s) ==
    IF s \in Terminal THEN "dark" ELSE IF s \in Charging THEN "charging" ELSE "parked"

AskOf(a) ==
    CASE a.do = "None"          -> "None"
      [] a.do = "EnableOutput"  -> "Enable"
      [] a.do = "DisableOutput" -> "Disable"
      [] a.do = "UpdateVoltage" -> IF a.phase = "Absorb" THEN "Raise" ELSE "Lower"

Promise == INSTANCE ChargePromise WITH
    ParkReasons <- ParkFaults, Reasons <- FaultReasons,
    stage <- StageOf(machine.state), reason <- fault, ask <- AskOf(action)

(* Reboot-only recovery: the supervisor implements the promise.              *)
KeepsPromise == Promise!Spec

(* A stop puts its entry into the ring, which is not full. *)
Logs(log, entry) == \E i \in DOMAIN log : log[i] = entry

StopIsLogged ==
    /\ machine'.state = "Tripping" /\ machine.state # "Tripping"
           => Logs(machine'.transitions, "Latched")
    /\ machine'.state \in Parked /\ machine.state \in Charging
           => Logs(machine'.transitions, "Parked")
    /\ Len(machine'.transitions) < TransitionBuffer

(* The event log is complete: a unit that turns dark or parks in an iteration *)
(* has the entry for it among the transitions of that iteration, and the ring *)
(* between two drains never had to drop one (charge_supervisor.rs:245).       *)
StopsAreLogged == [][StopIsLogged]_vars

(* A charge cycle ends: under ticks that keep coming, Absorb is always left, *)
(* whatever the samples do, even when they keep going missing.               *)
AbsorbEnds == (machine.state = "Absorb") ~> (machine.state # "Absorb")

(* A rail that keeps dropping the buck into holds, with no quiet stretch     *)
(* between two of them, ends in a latch (`HoldBudget`, check 1).             *)
FlappingLatches ==
    (/\ []<>(machine.state \in Holding)
     /\ []<>(machine.state \in Sourcing)
     /\ [](machine.since_last <= FlapWindow))
    => <>(machine.state \in Terminal)

SomeTick == \E p \in PollResults, dt \in Elapsed : Tick(p, dt)

(* The supervisor thread polls forever. *)
FairSpec == Spec /\ WF_vars(SomeTick)
=============================================================================
