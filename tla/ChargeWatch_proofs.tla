------------------------- MODULE ChargeWatch_proofs -------------------------
(***************************************************************************)
(* What is proved about the observer: for every profile, window, budget,   *)
(* poll result and elapsed time, the buck never sources blind, nor through *)
(* an overvoltage or an overcurrent that lasts.                            *)
(*                                                                         *)
(* The invariant is Followed: each count of the observer is no more than   *)
(* the supervisor's own window and short of the budget.  The step that     *)
(* keeps it is SourcingTick: a tick that leaves the buck sourcing has run  *)
(* the window of every check that could have stopped it, and none was up.  *)
(***************************************************************************)
EXTENDS ChargeWatch, ChargeSupervisor_proofs

Followed ==
    /\ \A k \in {"blind", "silent", "over", "greedy"} : watch[k] \in Nat
    /\ watch.blind <= machine.clock["battery_missing"]
    /\ watch.silent <= machine.clock["modbus_err"]
    /\ watch.over <= machine.clock["ov"]
    /\ watch.greedy <= machine.clock["overcurrent"]
    /\ NeverBlind /\ DangerEnds

(* The windows of the gauntlet that watch a sourcing buck. *)
Watched == {"modbus_err", "battery_missing", "ov", "overcurrent", "pack_temp_missing"}

SameWindows(m, n) == \A k \in Watched : n.clock[k] = m.clock[k]

-----------------------------------------------------------------------------

LEMMA WatchBounds ==
    /\ BatteryMissingTimeout \in Nat \ {0} /\ BatteryMissingTimeout < DurationMax
    /\ ModbusUnhealthyTimeout \in Nat \ {0} /\ ModbusUnhealthyTimeout < DurationMax
    /\ OvDuration \in Nat \ {0} /\ OvDuration < DurationMax
    /\ OvercurrentDuration \in Nat \ {0} /\ OvercurrentDuration < DurationMax
    /\ PackTempStaleTimeout \in Nat \ {0} /\ PackTempStaleTimeout < DurationMax
    /\ DurationMax \in Nat
    /\ \A dt \in Elapsed : dt \in Nat \ {0}
BY WindowAssumption DEF Windows

(* A window that is not up has counted at least what the observer counts. *)
LEMMA WindowFollows ==
    ASSUME NEW length \in Nat, NEW clock \in 0..DurationMax, length <= clock,
           NEW cond, NEW dt \in Elapsed, NEW bound \in Nat, bound < DurationMax,
           Stepped(clock, cond, dt) < bound
    PROVE  LET next == IF cond THEN length + dt ELSE 0
           IN  next \in Nat /\ next <= Stepped(clock, cond, dt) /\ next < bound
<1>1. dt \in Nat /\ DurationMax \in Nat
    BY WatchBounds
<1>2. CASE cond
    <2>1. clock + dt <= DurationMax
        BY <1>1, <1>2 DEF Stepped, Capped
    <2>2. Stepped(clock, cond, dt) = clock + dt
        BY <1>1, <1>2, <2>1 DEF Stepped, Capped
    <2>3. clock + dt < bound
        BY <2>2
    <2>4. length + dt \in Nat /\ length + dt <= clock + dt /\ length + dt < bound
        BY <1>1, <2>3
    <2> QED
        BY <1>2, <2>2, <2>4
<1>3. CASE ~cond
    BY <1>1, <1>3 DEF Stepped
<1> QED
    BY <1>2, <1>3

(* No move but one into a hold touches these windows. *)
LEMMA MoveKeepsWindows ==
    ASSUME NEW m \in Machines, NEW to, to \notin Holding
    PROVE  SameWindows(m, StepTo(m, to))
BY DEF SameWindows, Watched, StepTo, ClockAfterMove, Clocks

LEMMA DrainedIs ==
    ASSUME IInv
    PROVE  Drained \in Machines /\ Drained.state = machine.state /\ Drained.clock = machine.clock
BY EmptySeq DEF Drained, IInv, TypeOK, Machines

(* A fault that leaves the buck sourcing has parked it. *)
LEMMA FaultThatSources ==
    ASSUME NEW m \in Machines, NEW reason \in FaultReasons, m.state \in States \ Terminal,
           OnFault(m, reason), machine'.state \in Sourcing
    PROVE  Parks(m, reason) /\ machine'.state \in Parked /\ SameWindows(m, machine')
<1>1. CASE ~Parks(m, reason)
    <2>1. machine' = StepTo(m, "Tripping")
        BY <1>1, FaultTrips DEF OnFault, Step
    <2>2. machine'.state = "Tripping"
        BY <2>1 DEF StepTo
    <2> QED
        BY <2>2 DEF Sourcing, Parked
<1>2. CASE Parks(m, reason)
    <2> DEFINE to == After(m.state, "Park")
    <2>1. machine' = StepTo(m, to)
        BY <1>2 DEF OnFault, Step
    <2>2. machine'.state = to
        BY <2>1 DEF StepTo
    <2>3. to \in Parked
        BY <2>2 DEF After, ParkOf, Sourcing, Parked, Undefined
    <2>4. to \notin Holding
        BY <2>3 DEF Parked, Holding
    <2> QED
        BY <1>2, <2>1, <2>2, <2>3, <2>4, MoveKeepsWindows
<1> QED
    BY <1>1, <1>2

(* Regulation leaves them alone. *)
LEMMA RegulateKeepsWindows ==
    ASSUME NEW m \in Machines, m.state \in States \ Terminal, NEW b, NEW dt \in Elapsed,
           Regulate(m, b, dt), machine'.state \in Sourcing
    PROVE  SameWindows(m, machine')
<1>1. /\ AfterExit(m, b, dt) \in Machines /\ AfterAbsorb(m, b, dt) \in Machines
      /\ AfterCharge(m, b, dt) \in Machines
      /\ AfterExit(m, b, dt).state = m.state /\ AfterAbsorb(m, b, dt).state = m.state
      /\ AfterCharge(m, b, dt).state = m.state
    BY CycleClocks
<1>2. /\ SameWindows(m, AfterExit(m, b, dt))
      /\ SameWindows(m, AfterAbsorb(m, b, dt))
      /\ SameWindows(m, AfterCharge(m, b, dt))
    <2>1. m.clock \in [Clocks -> 0..DurationMax]
        BY DEF Machines
    <2>2. AfterExit(m, b, dt).clock = [m.clock EXCEPT !["exit"] = ExitClock(m, b, dt)]
        BY DEF AfterExit, Machines
    <2>3. AfterAbsorb(m, b, dt).clock
              = [AfterExit(m, b, dt).clock EXCEPT !["absorb"] = AbsorbClock(m, b, dt)]
        BY <1>1 DEF AfterAbsorb, Machines
    <2>4. AfterCharge(m, b, dt).clock
              = [AfterAbsorb(m, b, dt).clock EXCEPT !["charge_total"] = ChargeClock(m, dt)]
        BY <1>1 DEF AfterCharge, Machines
    <2> HIDE DEF Machines
    <2>5. SameWindows(m, AfterExit(m, b, dt))
        BY <2>1, <2>2 DEF SameWindows, Watched, Clocks
    <2>6. SameWindows(m, AfterAbsorb(m, b, dt))
        BY <2>1, <2>2, <2>3 DEF SameWindows, Watched, Clocks
    <2>7. SameWindows(m, AfterCharge(m, b, dt))
        BY <2>1, <2>2, <2>3, <2>4 DEF SameWindows, Watched, Clocks
    <2> QED
        BY <2>5, <2>6, <2>7
<1>3. CASE Reemit(m)
    BY <1>3 DEF Reemit, SameWindows
<1>4. ASSUME NEW n \in Machines, SameWindows(m, n), Stay(n)
      PROVE  SameWindows(m, machine')
    BY <1>4 DEF Stay
<1>5. ASSUME NEW event, NEW to \in {"ToAbsorb", "ToFloat"}, After(m.state, event) = to,
             Retarget(AfterExit(m, b, dt), event)
      PROVE  SameWindows(m, machine')
    <2>1. machine' = StepTo(AfterExit(m, b, dt), to)
        BY <1>1, <1>5 DEF Retarget, Step
    <2>2. to \notin Holding
        BY <1>5 DEF Holding
    <2> QED
        BY <1>1, <1>2, <2>1, <2>2, MoveKeepsWindows DEF SameWindows
<1>6. ASSUME NEW n \in Machines, n.state = m.state, SameWindows(m, n),
             NEW reason \in ParkFaults, OnFault(n, reason)
      PROVE  SameWindows(m, machine')
    <2>1. reason \in FaultReasons
        BY <1>6 DEF FaultReasons
    <2> QED
        BY <1>6, <2>1, FaultThatSources DEF SameWindows
<1>7. CASE RegulateFloat(m, b, dt)
    <2>1. After("Float", "TaperRose") = "ToAbsorb"
        BY DEF After
    <2> QED
        BY <1>1, <1>2, <1>4, <1>5, <1>7, <2>1 DEF RegulateFloat
<1>8. CASE RegulateAbsorb(m, b, dt)
    <2>1. After("Absorb", "TaperFell") = "ToFloat"
        BY DEF After
    <2>2. "AbsorbTimeout" \in ParkFaults /\ "ChargeTimeout" \in ParkFaults
        BY DEF ParkFaults
    <2> QED
        BY <1>1, <1>2, <1>4, <1>5, <1>6, <1>8, <2>1, <2>2 DEF RegulateAbsorb
<1>9. CASE RegulateParked(m, b, dt)
    BY <1>1, <1>2, <1>4, <1>9 DEF RegulateParked
<1> QED
    BY <1>3, <1>7, <1>8, <1>9 DEF Regulate

(* The windows as the gauntlet leaves them. *)
LEMMA GauntletWindows ==
    ASSUME NEW m \in Machines, NEW p, NEW dt
    PROVE  LET c == GauntletClock(m, p, dt)
           IN  /\ ReachesModbus(m, p) => c["modbus_err"]
                      = Stepped(m.clock["modbus_err"], ~p.buck.read, dt)
               /\ ReachesBattery(m, p, dt) => c["battery_missing"]
                      = Stepped(m.clock["battery_missing"], ~p.battery.fresh, dt)
               /\ c["ov"] = IF ReachesPack(m, p, dt)
                            THEN Stepped(m.clock["ov"], Over(p), dt) ELSE m.clock["ov"]
               /\ c["overcurrent"] = IF ReachesCurrent(m, p, dt)
                            THEN Stepped(m.clock["overcurrent"], Greedy(p), dt)
                            ELSE m.clock["overcurrent"]
               /\ c["pack_temp_missing"] = IF ReachesTemp(m, p, dt)
                            THEN Stepped(m.clock["pack_temp_missing"], p.temp = "None", dt)
                            ELSE m.clock["pack_temp_missing"]
<1>1. m.clock \in [Clocks -> 0..DurationMax]
    BY DEF Machines
<1> QED
    BY <1>1 DEF GauntletClock, Clocks

(* What a gauntlet that lets a buck source, or parks it, has checked. *)
Checked(m, p, dt) ==
    /\ ReachesBattery(m, p, dt) /\ ~Stale(m, p, dt)
    /\ p.battery.fresh => ~OverLong(m, p, dt)
    /\ p.battery.fresh /\ ~Overcurrent(m, p, dt) => ~TempStale(m, p, dt)

LEMMA VerdictChecks ==
    ASSUME NEW m \in Machines, m.state \in Sourcing, NEW p, NEW dt,
           LET v == Verdict(m, p, dt)
           IN  v.kind # "Latch" \/ v.reason \in ParkFaults
    PROVE  /\ Checked(m, p, dt)
           /\ p.battery.fresh /\ Overcurrent(m, p, dt) =>
                  Verdict(m, p, dt) = Latch("ChargeOvercurrent")
<1>1. \A reason \in WaitingFaults : /\ FaultOrInhibit(m, reason).kind = "Latch"
                                     /\ FaultOrInhibit(m, reason).reason \notin ParkFaults
    BY DEF FaultOrInhibit, Latch, WaitingFaults, ParkFaults
<1>2. {"SettingsDrift", "ModbusUnhealthy", "BatterySensorStale", "Overvoltage",
       "PackTempStale"} \subseteq WaitingFaults
    BY DEF WaitingFaults
<1>3. ~Flapping(m)
    BY DEF Verdict, Latch, ParkFaults
<1>4. ~Drifted(m, p)
    BY <1>1, <1>2, <1>3 DEF Verdict
<1>5. ~Silent(m, p, dt)
    BY <1>1, <1>2, <1>3, <1>4 DEF Verdict
<1>6. ~Stale(m, p, dt)
    BY <1>1, <1>2, <1>3, <1>4, <1>5 DEF Verdict
<1>7. p.battery.fresh => ~Overvoltage(m, p, dt)
    BY <1>1, <1>2, <1>3, <1>4, <1>5, <1>6 DEF Verdict
<1>8. p.battery.fresh /\ Overcurrent(m, p, dt) =>
          Verdict(m, p, dt) = Latch("ChargeOvercurrent")
    BY <1>3, <1>4, <1>5, <1>6, <1>7 DEF Verdict
<1>9. p.battery.fresh /\ ~Overcurrent(m, p, dt) => ~TempStale(m, p, dt)
    BY <1>1, <1>2, <1>3, <1>4, <1>5, <1>6, <1>7 DEF Verdict
<1> QED
    BY <1>3, <1>4, <1>5, <1>6, <1>7, <1>8, <1>9
    DEF Checked, ReachesBattery, ReachesModbus, Overvoltage

(* A machine that sources once it agrees with the output kept its windows. *)
LEMMA AgreedKeepsWindows ==
    ASSUME IInv, NEW p, Agrees(p), NEW dt \in Elapsed,
           QuietTimer(Reconciled(Drained, p), dt).state \in Sourcing
    PROVE  SameWindows(machine, QuietTimer(Reconciled(Drained, p), dt))
<1> DEFINE r == Reconciled(Drained, p)
<1>1. QuietTimer(r, dt).state = r.state /\ QuietTimer(r, dt).clock = r.clock
    BY DEF QuietTimer
<1> HIDE DEF r
<1>2. r.state \in Sourcing
    BY <1>1 DEF r
<1>3. CASE WentOff(machine.state, p)
    <2>1. r = StepTo(Drained, After(machine.state, "SelfDisabled"))
        BY <1>3, DrainedIs DEF r, Reconciled, Step
    <2>2. After(machine.state, "SelfDisabled") \in Holding
        BY <1>3, HoldRemembers DEF WentOff, Agrees, CanHold
    <2>3. r.state \in Holding
        BY <2>1, <2>2 DEF StepTo
    <2> QED
        BY <1>2, <2>3 DEF Holding, Sourcing, Parked
<1>4. CASE ~WentOff(machine.state, p) /\ CameOn(machine.state, p)
    <2>1. r = StepTo(Drained, After(machine.state, "SelfEnabled"))
        BY <1>4, DrainedIs DEF r, Reconciled, Step
    <2>2. After(machine.state, "SelfEnabled") \notin Holding
        BY <1>2, <2>1 DEF StepTo, Holding, Sourcing, Parked
    <2>3. SameWindows(Drained, r)
        BY <2>1, <2>2, DrainedIs, MoveKeepsWindows
    <2> QED
        BY <1>1, <2>3, DrainedIs DEF SameWindows, r
<1>5. CASE ~WentOff(machine.state, p) /\ ~CameOn(machine.state, p)
    <2>1. r = Drained
        BY <1>5, DrainedIs DEF r, Reconciled
    <2> QED
        BY <1>1, <2>1, DrainedIs DEF SameWindows, r
<1> QED
    BY <1>3, <1>4, <1>5

(* It is parked exactly if it was, on either side of a hold. *)
LEMMA NewlyParked ==
    ASSUME IInv, NEW p, Agrees(p), NEW dt \in Elapsed,
           QuietTimer(Reconciled(Drained, p), dt).state \in Sourcing \ Parked
    PROVE  machine.state \notin Parked \cup {"HoldParked"}
<1> DEFINE m == QuietTimer(Reconciled(Drained, p), dt)
<1>1. m.state \in Charging <=> machine.state \in Charging
    BY ReconciledKeeps
<1>2. m.state \in Charging
    BY DEF Charging, States, Sourcing, Parked, Terminal
<1> QED
    BY <1>1, <1>2 DEF Charging

(* A tick that finds charging over and leaves the buck sourcing leaves it parked. *)
LEMMA ParkOutlasts ==
    ASSUME IInv, IInv', machine.state \in Parked \cup {"HoldParked"},
           NEW p \in PollResults, NEW dt \in Elapsed, Tick(p, dt), machine'.state \in Sourcing
    PROVE  machine'.state \in Parked
<1>1. Promise!Next
    BY ReconcileKeeps, SuperviseKeeps DEF Tick
<1>2. StageOf(machine.state) = "parked"
    BY DEF StageOf, Charging, Parked, Terminal
<1>3. StageOf(machine'.state) # "charging"
    BY <1>1, <1>2 DEF Promise!Next, Promise!Serve, Promise!Park, Promise!Latch
<1>4. machine'.state \notin Charging
    BY <1>3 DEF StageOf, Charging
<1> QED
    BY <1>4 DEF Charging, States, Sourcing, Parked, Terminal

(* Only a tick that supervises leaves the buck sourcing. *)
LEMMA SourcingIsSupervised ==
    ASSUME IInv, NEW p \in PollResults, NEW dt \in Elapsed, Tick(p, dt),
           machine'.state \in Sourcing
    PROVE  Supervise(p, dt)
<1>1. ~RetryDisable
    BY DrainedIs DEF RetryDisable, Sourcing, Parked
<1>2. ~WatchLatched(p)
    <2> SUFFICES ASSUME WatchLatched(p) PROVE FALSE
        OBVIOUS
    <2>1. machine.state = "Latched" /\ (machine' = Drained \/ machine' = Step(Drained, "SelfEnabled"))
        BY DEF WatchLatched
    <2>2. Step(Drained, "SelfEnabled").state = "Tripping"
        BY <2>1, DrainedIs DEF Step, StepTo, After
    <2> QED
        BY <2>1, <2>2, DrainedIs DEF Sourcing, Parked
<1>3. ASSUME NEW reason \in FaultReasons \ ParkFaults, OnFault(Drained, reason),
             machine.state \in States \ Terminal
      PROVE  FALSE
    BY <1>3, DrainedIs, FaultThatSources DEF Parks
<1>4. {"OutputUnexpectedlyOff", "OutputOnInPending"} \subseteq FaultReasons \ ParkFaults
    BY DEF FaultReasons, ParkFaults, WaitingFaults
<1>5. ~LostOutput(p)
    BY <1>3, <1>4 DEF LostOutput, WentOff, Sourcing, Parked, States, Terminal
<1>6. ~OnInPending(p)
    BY <1>3, <1>4 DEF OnInPending, CameOn, BringingUp, Holding, States, Terminal
<1> QED
    BY <1>1, <1>2, <1>5, <1>6 DEF Tick

(* A tick that leaves the buck sourcing ran every window that could have *)
(* stopped it, and none was up.                                          *)
LEMMA SourcingTick ==
    ASSUME IInv, NEW p \in PollResults, NEW dt \in Elapsed, Tick(p, dt),
           machine'.state \in Sourcing
    PROVE  LET c == machine.clock
               n == machine'.clock
           IN  /\ n["modbus_err"] = Stepped(c["modbus_err"], ~p.buck.read, dt)
               /\ n["modbus_err"] < ModbusUnhealthyTimeout
               /\ n["battery_missing"] = Stepped(c["battery_missing"], ~p.battery.fresh, dt)
               /\ n["battery_missing"] < BatteryMissingTimeout
               /\ n["ov"] = IF p.battery.fresh THEN Stepped(c["ov"], Over(p), dt) ELSE c["ov"]
               /\ p.battery.fresh => n["ov"] < OvDuration
               /\ machine'.state \notin Parked =>
                      /\ n["overcurrent"] = IF p.battery.fresh
                            THEN Stepped(c["overcurrent"], Greedy(p), dt)
                            ELSE c["overcurrent"]
                      /\ p.battery.fresh => n["overcurrent"] < OvercurrentDuration
               /\ ~p.battery.fresh => n["pack_temp_missing"] = c["pack_temp_missing"]
               /\ p.battery.fresh /\ PackTemp = "Fitted" =>
                      \/ /\ machine'.state \in Parked
                         /\ machine.state \notin Parked \cup {"HoldParked"}
                         /\ n["pack_temp_missing"] = c["pack_temp_missing"]
                      \/ /\ n["pack_temp_missing"]
                               = Stepped(c["pack_temp_missing"], p.temp = "None", dt)
                         /\ n["pack_temp_missing"] < PackTempStaleTimeout
<1>1. Supervise(p, dt)
    BY SourcingIsSupervised
<1> DEFINE m == QuietTimer(Reconciled(Drained, p), dt)
           w == GauntletClock(m, p, dt)
           g == [m EXCEPT !.clock = w]
           v == Verdict(m, p, dt)
<1>2. m \in Machines /\ m.state \in States \ Terminal
    BY <1>1, ReconciledKeeps DEF Supervise
<1>3. /\ m.state \in Sourcing => SameWindows(machine, m)
    BY <1>1, AgreedKeepsWindows DEF Supervise
<1>4. \/ v.kind = "Latch" /\ OnFault(g, v.reason)
      \/ v.kind = "Inhibit" /\ machine' = g
      \/ v.kind = "Clear" /\ m.state \in BringingUp /\ machine' = g
      \/ /\ v.kind = "Clear" /\ m.state \notin BringingUp
         /\ Regulate(g, p.battery, dt)
    BY <1>1 DEF Supervise
<1> HIDE DEF m
<1>5. g \in Machines /\ g.state = m.state /\ g.clock = w
    BY <1>2, GauntletClockType, ClockUpdate
<1>6. v.kind = "Latch" => /\ v.reason \in FaultReasons
                          /\ v.reason \in ParkFaults => m.state \in Sourcing
    BY <1>2, VerdictType DEF Clear
<1> HIDE DEF g, v, w
<1>7. /\ SameWindows(g, machine') /\ m.state \in Sourcing
      /\ \/ v.kind # "Latch"
         \/ v.reason \in ParkFaults /\ machine'.state \in Parked /\ m.state \notin Parked
    <2>1. CASE v.kind = "Latch" /\ OnFault(g, v.reason)
        <3>1. Parks(g, v.reason) /\ machine'.state \in Parked /\ SameWindows(g, machine')
            BY <1>2, <1>5, <1>6, <2>1, FaultThatSources
        <3> QED
            BY <1>5, <1>6, <2>1, <3>1 DEF Parks
    <2>2. CASE machine' = g /\ v.kind # "Latch"
        BY <1>5, <2>2 DEF SameWindows
    <2>3. CASE v.kind = "Clear" /\ m.state \notin BringingUp /\ Regulate(g, p.battery, dt)
        <3>1. m.state \in Sourcing
            BY <1>2, <2>3 DEF States
        <3> QED
            BY <1>2, <1>5, <2>3, <3>1, RegulateKeepsWindows
    <2> QED
        BY <1>4, <2>1, <2>2, <2>3
<1>8. /\ Checked(m, p, dt)
      /\ p.battery.fresh /\ Overcurrent(m, p, dt) => v = Latch("ChargeOvercurrent")
    BY <1>2, <1>7, VerdictChecks DEF v
<1>9. ReachesModbus(m, p) /\ ReachesBattery(m, p, dt) /\ ~Silent(m, p, dt) /\ ~Stale(m, p, dt)
    BY <1>8 DEF Checked, ReachesBattery
<1>10. ReachesPack(m, p, dt) <=> p.battery.fresh
    BY <1>9 DEF ReachesPack
<1>11. p.battery.fresh => ~OverLong(m, p, dt) /\ ReachesCurrent(m, p, dt)
    BY <1>7, <1>8, <1>10 DEF Checked, ReachesCurrent, Overvoltage
<1>12. ReachesCurrent(m, p, dt) => p.battery.fresh
    BY <1>10 DEF ReachesCurrent
<1>13. /\ w["modbus_err"] = Stepped(m.clock["modbus_err"], ~p.buck.read, dt)
       /\ w["battery_missing"] = Stepped(m.clock["battery_missing"], ~p.battery.fresh, dt)
       /\ w["ov"] = IF p.battery.fresh THEN Stepped(m.clock["ov"], Over(p), dt) ELSE m.clock["ov"]
       /\ w["overcurrent"] = IF p.battery.fresh
                             THEN Stepped(m.clock["overcurrent"], Greedy(p), dt)
                             ELSE m.clock["overcurrent"]
    BY <1>2, <1>9, <1>10, <1>11, <1>12, GauntletWindows DEF w
<1>14. /\ machine'.clock["modbus_err"] = w["modbus_err"]
       /\ machine'.clock["battery_missing"] = w["battery_missing"]
       /\ machine'.clock["ov"] = w["ov"]
       /\ machine'.clock["overcurrent"] = w["overcurrent"]
       /\ machine'.clock["pack_temp_missing"] = w["pack_temp_missing"]
    BY <1>5, <1>7 DEF SameWindows, Watched
<1>15. /\ m.clock["modbus_err"] = machine.clock["modbus_err"]
       /\ m.clock["battery_missing"] = machine.clock["battery_missing"]
       /\ m.clock["ov"] = machine.clock["ov"]
       /\ m.clock["overcurrent"] = machine.clock["overcurrent"]
       /\ m.clock["pack_temp_missing"] = machine.clock["pack_temp_missing"]
    BY <1>3, <1>7 DEF SameWindows, Watched
<1>16. /\ m.clock \in [Clocks -> 0..DurationMax]
    BY <1>2 DEF Machines
<1>17. /\ Stepped(m.clock["modbus_err"], ~p.buck.read, dt) \in 0..DurationMax
       /\ Stepped(m.clock["battery_missing"], ~p.battery.fresh, dt) \in 0..DurationMax
       /\ Stepped(m.clock["ov"], Over(p), dt) \in 0..DurationMax
       /\ Stepped(m.clock["overcurrent"], Greedy(p), dt) \in 0..DurationMax
    BY <1>16, WindowType DEF Clocks
<1>18. /\ Stepped(m.clock["modbus_err"], ~p.buck.read, dt) < ModbusUnhealthyTimeout
       /\ Stepped(m.clock["battery_missing"], ~p.battery.fresh, dt) < BatteryMissingTimeout
    BY <1>9, <1>17, WatchBounds DEF Silent, Stale
<1>19. p.battery.fresh => Stepped(m.clock["ov"], Over(p), dt) < OvDuration
    BY <1>11, <1>17, WatchBounds DEF OverLong
<1>20. p.battery.fresh /\ machine'.state \notin Parked =>
           Stepped(m.clock["overcurrent"], Greedy(p), dt) < OvercurrentDuration
    BY <1>7, <1>8, <1>17, WatchBounds DEF Overcurrent, Latch
<1>21. ~p.battery.fresh => w["pack_temp_missing"] = m.clock["pack_temp_missing"]
    BY <1>2, <1>12, GauntletWindows DEF w, ReachesTemp
<1>22. p.battery.fresh /\ PackTemp = "Fitted" =>
           \/ /\ machine'.state \in Parked
              /\ machine.state \notin Parked \cup {"HoldParked"}
              /\ w["pack_temp_missing"] = m.clock["pack_temp_missing"]
           \/ /\ w["pack_temp_missing"]
                    = Stepped(m.clock["pack_temp_missing"], p.temp = "None", dt)
              /\ w["pack_temp_missing"] < PackTempStaleTimeout
    <2> SUFFICES ASSUME p.battery.fresh, PackTemp = "Fitted"
                 PROVE  \/ /\ machine'.state \in Parked
                           /\ machine.state \notin Parked \cup {"HoldParked"}
                           /\ w["pack_temp_missing"] = m.clock["pack_temp_missing"]
                        \/ /\ w["pack_temp_missing"]
                                 = Stepped(m.clock["pack_temp_missing"], p.temp = "None", dt)
                           /\ w["pack_temp_missing"] < PackTempStaleTimeout
        OBVIOUS
    <2>1. CASE Overcurrent(m, p, dt)
        <3>1. machine'.state \in Parked /\ m.state \notin Parked
            BY <1>7, <1>8, <2>1 DEF Latch
        <3>2. machine.state \notin Parked \cup {"HoldParked"}
            BY <1>7, <3>1, NewlyParked, <1>1 DEF Supervise, m
        <3>3. w["pack_temp_missing"] = m.clock["pack_temp_missing"]
            BY <1>2, <2>1, GauntletWindows DEF w, ReachesTemp
        <3> QED
            BY <3>1, <3>2, <3>3
    <2>2. CASE ~Overcurrent(m, p, dt)
        <3>1. ReachesTemp(m, p, dt) /\ ~TempStale(m, p, dt)
            BY <1>8, <1>11, <2>2 DEF ReachesTemp, Checked
        <3>2. w["pack_temp_missing"]
                  = Stepped(m.clock["pack_temp_missing"], p.temp = "None", dt)
            BY <1>2, <3>1, GauntletWindows DEF w
        <3>3. Stepped(m.clock["pack_temp_missing"], p.temp = "None", dt) \in 0..DurationMax
            BY <1>16, WindowType DEF Clocks
        <3> QED
            BY <3>1, <3>2, <3>3, WatchBounds DEF TempStale
    <2> QED
        BY <2>1, <2>2
<1> QED
    BY <1>13, <1>14, <1>15, <1>18, <1>19, <1>20, <1>21, <1>22

-----------------------------------------------------------------------------
(* The observer's counts. *)

(* What the window on the battery sample holds of the budget it latches at. *)
Missed == IF machine.clock["battery_missing"] < BatteryMissingTimeout
          THEN machine.clock["battery_missing"] ELSE BatteryMissingTimeout - 1

LEMMA CycleBounds ==
    /\ MaxCharge \in Nat \ {0} /\ MaxCharge < DurationMax
    /\ ShortestTick \in Nat \ {0} /\ \A dt \in Elapsed : ShortestTick <= dt
BY WindowAssumption, TickAssumption DEF Windows

LEMMA Multiples ==
    ASSUME NEW a \in Nat, NEW b \in Nat, NEW r \in Nat, a <= b
    PROVE  a * r \in Nat /\ b * r \in Nat /\ a * r <= b * r
<1>1. PICK m \in Nat : b = a + m
    <2>1. b - a \in Nat /\ b = a + (b - a)
        OBVIOUS
    <2> QED
        BY <2>1
<1>2. b * r = a * r + m * r
    BY <1>1
<1>3. m * r \in Nat /\ a * r \in Nat
    OBVIOUS
<1> QED
    BY <1>2, <1>3

LEMMA OneMore ==
    ASSUME NEW n \in Nat, NEW r \in Nat
    PROVE  (n + 1) * r = n * r + r /\ n * r \in Nat
OBVIOUS

LEMMA Quotient ==
    ASSUME NEW n \in Nat, NEW x \in Nat, NEW r \in Nat \ {0}, n * r <= x
    PROVE  n <= x \div r /\ x \div r \in Nat
<1>1. PICK q \in Nat : q = x \div r
    OBVIOUS
<1>2. x < (q + 1) * r
    BY <1>1
<1>3. ~(q + 1 <= n)
    BY <1>2, Multiples
<1> QED
    BY <1>1, <1>3

(* A window that counts less than its budget, and stands still for one run   *)
(* of missing samples before, between and after the ticks it counts.         *)
LEMMA CountsCap ==
    ASSUME NEW budget \in Nat \ {0}, NEW n \in Nat, NEW counted \in Nat,
           NEW missed \in Nat, NEW extra \in Nat, NEW length \in Nat,
           n * ShortestTick <= counted, counted < budget,
           missed < BatteryMissingTimeout,
           length <= counted + n * (BatteryMissingTimeout - 1) + missed + extra
    PROVE  /\ length < budget + (((budget - 1) \div ShortestTick) + 1)
                                    * (BatteryMissingTimeout - 1) + extra
           /\ (budget - 1) \div ShortestTick \in Nat
<1>1. PICK b \in Nat : b = BatteryMissingTimeout - 1
    BY WatchBounds
<1>2. missed <= b
    BY <1>1, WatchBounds
<1>3. PICK x \in Nat : x = budget - 1
    OBVIOUS
<1>4. n * ShortestTick \in Nat
    BY CycleBounds, OneMore
<1>5. n * ShortestTick <= x
    BY <1>3, <1>4
<1>6. n <= x \div ShortestTick /\ x \div ShortestTick \in Nat
    BY <1>5, CycleBounds, Quotient
<1>7. PICK q \in Nat : q = x \div ShortestTick /\ n <= q
    BY <1>6
<1>8. n * b <= q * b /\ n * b \in Nat /\ q * b \in Nat
    BY <1>7, Multiples
<1>9. (q + 1) * b = q * b + b
    BY OneMore
<1>10. length <= counted + n * b + missed + extra
    BY <1>1
<1>11. length < budget + (q * b + b) + extra
    BY <1>2, <1>8, <1>10
<1>12. length < budget + (q + 1) * b + extra
    BY <1>9, <1>11
<1> QED
    BY <1>1, <1>3, <1>6, <1>7, <1>12

(* The time without a temperature: what the window counted of it, for each   *)
(* tick it counted one run of missing samples, and, until the park ends, what *)
(* the tick that parked on an overcurrent adds.                               *)
Unread(counted, n, extra) ==
    /\ counted <= machine.clock["pack_temp_missing"] /\ counted < PackTempStaleTimeout
    /\ n * ShortestTick <= counted
    /\ watch.unfelt <= counted + n * (BatteryMissingTimeout - 1) + Missed + extra

Felt ==
    /\ watch.unfelt \in Nat
    /\ machine.state \notin Sourcing => watch.unfelt = 0
    /\ \E counted, n, extra \in Nat :
          /\ Unread(counted, n, extra)
          /\ \/ extra = 0
             \/ /\ machine.state \in Parked \cup {"HoldParked"}
                /\ \E dt \in Elapsed : extra = ParkSlack(dt)

(* Nothing is unread: no count, and any windows; before a step and after it. *)
LEMMA NothingUnread ==
    ASSUME watch.unfelt = 0, IInv PROVE Felt
<1>1. machine.clock["pack_temp_missing"] \in Nat /\ machine.clock["battery_missing"] \in Nat
    BY WatchBounds DEF IInv, TypeOK, Machines, Clocks
<1>2. Missed \in Nat /\ BatteryMissingTimeout - 1 \in Nat
    BY <1>1, WatchBounds DEF Missed
<1>3. 0 * ShortestTick = 0 /\ 0 * (BatteryMissingTimeout - 1) = 0
    BY <1>2, CycleBounds
<1>4. Unread(0, 0, 0)
    BY <1>1, <1>2, <1>3, WatchBounds DEF Unread
<1> QED
    BY <1>4 DEF Felt

LEMMA NothingUnreadNext ==
    ASSUME watch'.unfelt = 0, IInv' PROVE Felt'
<1>1. /\ machine'.clock["pack_temp_missing"] \in 0..DurationMax
      /\ machine'.clock["battery_missing"] \in 0..DurationMax
    BY DEF IInv, TypeOK, Machines, Clocks
<1>2. Missed' \in Nat /\ BatteryMissingTimeout - 1 \in Nat
    BY <1>1, WatchBounds DEF Missed
<1>3. 0 * ShortestTick = 0 /\ 0 * (BatteryMissingTimeout - 1) = 0
    BY <1>2, CycleBounds
<1>4. Unread(0, 0, 0)'
    <2>1. 0 <= machine'.clock["pack_temp_missing"]
        BY <1>1, WatchBounds
    <2>2. 0 < PackTempStaleTimeout
        BY WatchBounds
    <2>3. watch'.unfelt <= 0 + 0 * (BatteryMissingTimeout - 1) + Missed' + 0
        BY <1>2, <1>3
    <2> QED
        BY <1>3, <2>1, <2>2, <2>3 DEF Unread
<1> QED
    BY <1>4 DEF Felt

LEMMA WatchInitFollows == WatchInit => Followed /\ watch.unfelt = 0
<1> SUFFICES ASSUME WatchInit PROVE Followed /\ watch.unfelt = 0
    OBVIOUS
<1>1. \A k \in Watched : machine.clock[k] = 0
    BY DEF WatchInit, Init, NewMachine, Watched, Clocks
<1>2. /\ watch["blind"] = 0 /\ watch["silent"] = 0 /\ watch["over"] = 0 /\ watch["greedy"] = 0
    BY DEF WatchInit
<1>3. watch["unfelt"] = 0
    BY DEF WatchInit
<1> QED
    BY <1>1, <1>2, <1>3, WatchBounds DEF Followed, NeverBlind, DangerEnds, Watched

LEMMA TickFollows ==
    ASSUME Followed, IInv, IInv', NEW p \in PollResults, NEW dt \in Elapsed,
           Tick(p, dt), Observe(p, dt)
    PROVE  Followed'
<1>1. /\ watch'.blind = Lasts(watch.blind, TRUE, ~p.battery.fresh, dt)
      /\ watch'.silent = Lasts(watch.silent, TRUE, ~p.buck.read, dt)
      /\ watch'.over = Lasts(watch.over, p.battery.fresh, OverTheLine(p), dt)
      /\ watch'.greedy = IF machine'.state \in Parked THEN 0
                         ELSE Lasts(watch.greedy, p.battery.fresh, TakesTooMuch(p), dt)
    BY DEF Observe
<1>2. \A k \in Watched : machine.clock[k] \in 0..DurationMax /\ machine'.clock[k] \in 0..DurationMax
    <2>1. \A k \in Clocks : machine.clock[k] \in 0..DurationMax
        BY DEF IInv, TypeOK, Machines
    <2>2. \A k \in Clocks : machine'.clock[k] \in 0..DurationMax
        BY DEF IInv, TypeOK, Machines
    <2> QED
        BY <2>1, <2>2 DEF Watched, Clocks
<1>3. dt \in Nat \ {0} /\ DurationMax \in Nat
    BY WatchBounds
<1>4. CASE machine'.state \notin Sourcing
    <2>1. watch'.blind = 0 /\ watch'.silent = 0 /\ watch'.over = 0 /\ watch'.greedy = 0
        BY <1>1, <1>4 DEF Lasts
    <2> QED
        BY <1>2, <2>1, WatchBounds DEF Followed, NeverBlind, DangerEnds, Watched
<1>5. CASE machine'.state \in Sourcing
    <2>0. /\ p.battery \in BatterySample
          /\ p.battery.amps \in Int /\ p.battery.fresh \in BOOLEAN
          /\ p.buck.read \in BOOLEAN /\ RegulationA \in Nat
        BY InputAssumption, ProfileAssumption DEF PollResults, BatterySample, BuckRead
    <2>1. watch.blind \in Nat /\ watch.silent \in Nat /\ watch.over \in Nat /\ watch.greedy \in Nat
        BY DEF Followed
    <2>2. /\ watch'.blind \in Nat /\ watch'.blind <= machine'.clock["battery_missing"]
          /\ watch'.blind < BatteryMissingTimeout
        <3>1. PICK missed \in BOOLEAN : missed = ~p.battery.fresh
            OBVIOUS
        <3>2. watch'.blind = IF missed THEN watch.blind + dt ELSE 0
            BY <1>1, <1>5, <3>1 DEF Lasts
        <3>3. machine.clock["battery_missing"] \in 0..DurationMax
            BY <1>2 DEF Watched
        <3>4. /\ machine'.clock["battery_missing"] = Stepped(machine.clock["battery_missing"], missed, dt)
              /\ machine'.clock["battery_missing"] < BatteryMissingTimeout
            BY <1>5, <3>1, SourcingTick
        <3>5. watch.blind <= machine.clock["battery_missing"]
            BY DEF Followed
        <3> QED
            BY <2>1, <3>2, <3>3, <3>4, <3>5, WindowFollows, WatchBounds
    <2>3. /\ watch'.silent \in Nat /\ watch'.silent <= machine'.clock["modbus_err"]
          /\ watch'.silent < ModbusUnhealthyTimeout
        <3>1. PICK missed \in BOOLEAN : missed = ~p.buck.read
            OBVIOUS
        <3>2. watch'.silent = IF missed THEN watch.silent + dt ELSE 0
            BY <1>1, <1>5, <3>1 DEF Lasts
        <3>3. machine.clock["modbus_err"] \in 0..DurationMax
            BY <1>2 DEF Watched
        <3>4. /\ machine'.clock["modbus_err"] = Stepped(machine.clock["modbus_err"], missed, dt)
              /\ machine'.clock["modbus_err"] < ModbusUnhealthyTimeout
            BY <1>5, <3>1, SourcingTick
        <3>5. watch.silent <= machine.clock["modbus_err"]
            BY DEF Followed
        <3> QED
            BY <2>1, <3>2, <3>3, <3>4, <3>5, WindowFollows, WatchBounds
    <2>4. /\ watch'.over \in Nat /\ watch'.over <= machine'.clock["ov"]
          /\ watch'.over < OvDuration
        <3>1. machine.clock["ov"] \in 0..DurationMax
            BY <1>2 DEF Watched
        <3>2. CASE p.battery.fresh
            <4>1. watch'.over = IF Over(p) THEN watch.over + dt ELSE 0
                BY <1>1, <1>5, <3>2 DEF Lasts, OverTheLine, Over
            <4> QED
                BY <1>5, <2>1, <3>1, <3>2, <4>1, SourcingTick, WindowFollows, WatchBounds
                DEF Followed
        <3>3. CASE ~p.battery.fresh
            <4>1. watch'.over = watch.over
                BY <1>1, <1>5, <3>3 DEF Lasts
            <4> QED
                BY <1>5, <2>1, <3>3, <4>1, SourcingTick DEF Followed, DangerEnds
        <3> QED
            BY <3>2, <3>3
    <2>5. /\ watch'.greedy \in Nat /\ watch'.greedy <= machine'.clock["overcurrent"]
          /\ watch'.greedy < OvercurrentDuration
        <3>1. machine.clock["overcurrent"] \in 0..DurationMax
            BY <1>2 DEF Watched
        <3>2. CASE machine'.state \in Parked
            <4>1. watch'.greedy = 0
                BY <1>1, <3>2
            <4> QED
                BY <1>2, <4>1, WatchBounds DEF Watched
        <3>3. CASE machine'.state \notin Parked /\ p.battery.fresh
            <4>1. TakesTooMuch(p) <=> Greedy(p)
                BY <2>0 DEF TakesTooMuch, Greedy, ChargingA
            <4>2. watch'.greedy = IF Greedy(p) THEN watch.greedy + dt ELSE 0
                BY <1>1, <1>5, <3>3, <4>1 DEF Lasts
            <4> QED
                BY <1>5, <2>1, <3>1, <3>3, <4>2, SourcingTick, WindowFollows, WatchBounds
                DEF Followed
        <3>4. CASE machine'.state \notin Parked /\ ~p.battery.fresh
            <4>1. watch'.greedy = watch.greedy
                BY <1>1, <1>5, <3>4 DEF Lasts
            <4> QED
                BY <1>5, <2>1, <3>4, <4>1, SourcingTick DEF Followed, DangerEnds
        <3> QED
            BY <3>2, <3>3, <3>4
    <2> QED
        BY <2>2, <2>3, <2>4, <2>5 DEF Followed, NeverBlind, DangerEnds
<1> QED
    BY <1>4, <1>5

(* The count of an unread temperature after a tick without a sample, after a *)
(* tick the window counts, and after the one that parks without looking.     *)
LEMMA UnreadGrows ==
    ASSUME NEW counted \in Nat, NEW n \in Nat, NEW extra \in Nat, NEW dt \in Elapsed,
           Unread(counted, n, extra), IInv, IInv', watch.unfelt \in Nat,
           watch'.unfelt = watch.unfelt + dt
    PROVE  LET before == machine.clock["pack_temp_missing"]
               after == machine'.clock["pack_temp_missing"]
           IN  /\ after = before /\ Missed' = Missed + dt => Unread(counted, n, extra)'
               /\ after = before + dt /\ after < PackTempStaleTimeout /\ Missed' = 0 =>
                      Unread(counted + dt, n + 1, extra)'
               /\ after = before /\ Missed' = 0 /\ extra = 0 =>
                      Unread(counted, n, ParkSlack(dt))'
<1>1. PICK b \in Nat : b = BatteryMissingTimeout - 1
    BY WatchBounds
<1>2. /\ machine.clock["pack_temp_missing"] \in Nat /\ machine.clock["battery_missing"] \in Nat
      /\ machine'.clock["pack_temp_missing"] \in Nat
    <2>1. /\ machine.clock["pack_temp_missing"] \in 0..DurationMax
          /\ machine.clock["battery_missing"] \in 0..DurationMax
          /\ machine'.clock["pack_temp_missing"] \in 0..DurationMax
        BY DEF IInv, TypeOK, Machines, Clocks
    <2> QED
        BY <2>1, WatchBounds
<1>3. Missed \in Nat /\ Missed <= b
    BY <1>1, <1>2, WatchBounds DEF Missed
<1>4. dt \in Nat /\ ShortestTick \in Nat /\ ShortestTick <= dt
    BY WatchBounds, CycleBounds
<1>5. n * ShortestTick \in Nat /\ n * b \in Nat
    BY <1>4, OneMore
<1>6. (n + 1) * ShortestTick = n * ShortestTick + ShortestTick /\ (n + 1) * b = n * b + b
    BY <1>4, OneMore
<1>7. /\ counted <= machine.clock["pack_temp_missing"] /\ counted < PackTempStaleTimeout
      /\ n * ShortestTick <= counted
      /\ watch.unfelt <= counted + n * b + Missed + extra
    BY <1>1 DEF Unread
<1>8. ASSUME machine'.clock["pack_temp_missing"] = machine.clock["pack_temp_missing"],
             Missed' = Missed + dt
      PROVE  Unread(counted, n, extra)'
    <2>1. watch'.unfelt <= counted + n * b + Missed' + extra
        BY <1>3, <1>4, <1>5, <1>7, <1>8
    <2> QED
        BY <1>1, <1>7, <1>8, <2>1 DEF Unread
<1>9. ASSUME machine'.clock["pack_temp_missing"] = machine.clock["pack_temp_missing"] + dt,
             machine'.clock["pack_temp_missing"] < PackTempStaleTimeout, Missed' = 0
      PROVE  Unread(counted + dt, n + 1, extra)'
    <2>1. watch'.unfelt <= (counted + dt) + (n + 1) * b + Missed' + extra
        BY <1>3, <1>4, <1>5, <1>6, <1>7, <1>9
    <2>2. (n + 1) * ShortestTick <= counted + dt
        BY <1>4, <1>5, <1>6, <1>7
    <2>3. /\ counted + dt <= machine'.clock["pack_temp_missing"]
          /\ counted + dt < PackTempStaleTimeout
        BY <1>2, <1>4, <1>7, <1>9, WatchBounds
    <2> QED
        BY <1>1, <2>1, <2>2, <2>3 DEF Unread
<1>10. ASSUME machine'.clock["pack_temp_missing"] = machine.clock["pack_temp_missing"],
              Missed' = 0, extra = 0
       PROVE  Unread(counted, n, ParkSlack(dt))'
    <2>1. watch'.unfelt <= counted + n * b + Missed' + (dt + b)
        BY <1>3, <1>4, <1>5, <1>7, <1>10
    <2>2. ParkSlack(dt) = dt + b
        BY <1>1 DEF ParkSlack
    <2>3. watch'.unfelt <= counted + n * b + Missed' + ParkSlack(dt)
        BY <2>1, <2>2
    <2> QED
        BY <1>1, <1>7, <1>10, <2>3 DEF Unread
<1> QED
    BY <1>8, <1>9, <1>10

LEMMA TickFeels ==
    ASSUME Felt, IInv, IInv', NEW p \in PollResults, NEW dt \in Elapsed,
           Tick(p, dt), Observe(p, dt)
    PROVE  Felt'
<1>1. watch'.unfelt = IF PackTemp = "Absent" THEN 0
                      ELSE Lasts(watch.unfelt, TRUE, p.temp = "None", dt)
    BY DEF Observe
<1>2. ASSUME watch'.unfelt = 0 PROVE Felt'
    BY <1>2, NothingUnreadNext
<1>3. CASE PackTemp = "Absent" \/ machine'.state \notin Sourcing \/ p.temp # "None"
    BY <1>1, <1>2, <1>3 DEF Lasts
<1>4. CASE PackTemp = "Fitted" /\ machine'.state \in Sourcing /\ p.temp = "None"
    <2>1. watch'.unfelt = watch.unfelt + dt /\ watch.unfelt \in Nat
        BY <1>1, <1>4 DEF Lasts, Felt
    <2>2. /\ dt \in Nat \ {0} /\ DurationMax \in Nat
          /\ BatteryMissingTimeout \in Nat /\ BatteryMissingTimeout < DurationMax
          /\ PackTempStaleTimeout \in Nat /\ PackTempStaleTimeout < DurationMax
        BY WatchBounds
    <2>3. /\ machine.clock["battery_missing"] \in 0..DurationMax
          /\ machine'.clock["battery_missing"] \in 0..DurationMax
          /\ machine.clock["pack_temp_missing"] \in 0..DurationMax
          /\ machine'.clock["pack_temp_missing"] \in 0..DurationMax
        BY DEF IInv, TypeOK, Machines, Clocks
    <2>4. PICK counted, n, extra \in Nat :
              /\ Unread(counted, n, extra)
              /\ \/ extra = 0
                 \/ /\ machine.state \in Parked \cup {"HoldParked"}
                    /\ \E e \in Elapsed : extra = ParkSlack(e)
        BY DEF Felt
    <2>5. machine.state \in Parked \cup {"HoldParked"} => machine'.state \in Parked
        BY <1>4, ParkOutlasts
    <2>6. PICK missed \in BOOLEAN : missed = ~p.battery.fresh
        OBVIOUS
    <2>7. /\ machine'.clock["battery_missing"]
                 = Stepped(machine.clock["battery_missing"], missed, dt)
          /\ machine'.clock["battery_missing"] < BatteryMissingTimeout
        BY <1>4, <2>6, SourcingTick
    <2>8. watch'.unfelt \in Nat
        BY <2>1, <2>2
    <2>9. dt + (BatteryMissingTimeout - 1) \in Nat
        BY <2>2, WatchBounds
    <2>10. CASE ~p.battery.fresh
        <3>1. machine'.clock["pack_temp_missing"] = machine.clock["pack_temp_missing"]
            BY <1>4, <2>10, SourcingTick
        <3>2. Missed' = Missed + dt
            <4>1. machine'.clock["battery_missing"]
                      = Capped(machine.clock["battery_missing"] + dt)
                BY <2>6, <2>7, <2>10 DEF Stepped
            <4>2. machine'.clock["battery_missing"] = machine.clock["battery_missing"] + dt
                BY <2>2, <2>3, <2>7, <4>1 DEF Capped
            <4> QED
                BY <2>2, <2>3, <2>7, <4>2 DEF Missed
        <3>3. Unread(counted, n, extra)'
            BY <2>1, <2>4, <3>1, <3>2, UnreadGrows
        <3> QED
            BY <1>4, <2>4, <2>5, <2>8, <3>3 DEF Felt
    <2>11. CASE p.battery.fresh
        <3>1. Missed' = 0
            BY <2>2, <2>6, <2>7, <2>11 DEF Missed, Stepped
        <3>2. CASE /\ machine'.state \in Parked
                   /\ machine.state \notin Parked \cup {"HoldParked"}
                   /\ machine'.clock["pack_temp_missing"] = machine.clock["pack_temp_missing"]
            <4>1. Unread(counted, n, ParkSlack(dt))'
                BY <2>1, <2>4, <3>1, <3>2, UnreadGrows
            <4>2. ParkSlack(dt)' = ParkSlack(dt) /\ ParkSlack(dt) \in Nat
                BY <2>9 DEF ParkSlack
            <4> QED
                BY <1>4, <2>8, <3>2, <4>1, <4>2 DEF Felt
        <3>3. CASE /\ machine'.clock["pack_temp_missing"]
                          = Stepped(machine.clock["pack_temp_missing"], p.temp = "None", dt)
                   /\ machine'.clock["pack_temp_missing"] < PackTempStaleTimeout
            <4>1. machine'.clock["pack_temp_missing"]
                      = machine.clock["pack_temp_missing"] + dt
                BY <1>4, <2>2, <2>3, <3>3 DEF Stepped, Capped
            <4>2. Unread(counted + dt, n + 1, extra)'
                BY <2>1, <2>4, <3>1, <3>3, <4>1, UnreadGrows
            <4>3. counted + dt \in Nat /\ n + 1 \in Nat
                BY <2>2
            <4> QED
                BY <1>4, <2>4, <2>5, <2>8, <4>2, <4>3 DEF Felt
        <3> QED
            BY <1>4, <2>11, <3>2, <3>3, SourcingTick
    <2> QED
        BY <2>10, <2>11
<1> QED
    BY <1>3, <1>4, InputAssumption

(* Redeeming a ticket touches none of the windows, leaves a park parked and a *)
(* buck that sources sourcing.                                                *)
LEMMA CommitMoves ==
    ASSUME IInv, Commit
    PROVE  /\ SameWindows(machine, machine')
           /\ machine.state \in Parked \cup {"HoldParked"} => machine'.state \in Parked
           /\ machine.state \in Sourcing => machine'.state \in Sourcing
<1>1. machine \in Machines /\ machine.state \in States
    BY DEF IInv, TypeOK, NoPanic
<1>2. PICK event \in {"Enabled", "EnabledBelowFull", "VoltageWritten", "Disabled"} :
          /\ machine' = StepTo(machine, After(machine.state, event))
          /\ event = "VoltageWritten" => RetargetTo(machine.state) \in Phases
          /\ event = "Disabled" => machine.state = "Tripping"
          /\ event \in {"Enabled", "EnabledBelowFull"} => machine.state \in BringingUp
    <2>1. CASE CommitEnable
        BY <2>1 DEF CommitEnable, Step, IInv, TicketsAgree
    <2>2. CASE CommitVoltage
        BY <2>2 DEF CommitVoltage, Step, IInv, TicketsAgree, TypeOK, Actions, NoAction,
                    EnableOutput, DisableOutput
    <2>3. CASE CommitDisable
        BY <2>3 DEF CommitDisable, Step, IInv, TicketsAgree
    <2> QED
        BY <2>1, <2>2, <2>3 DEF Commit
<1>3. After(machine.state, event) \notin Holding
    BY <1>1 DEF After, EnabledOf, EnabledBelowFullOf, ResumeOf, WrittenOf, Holding, Undefined
<1>4. SameWindows(machine, machine')
    BY <1>1, <1>2, <1>3, MoveKeepsWindows
<1>5. machine'.state = After(machine.state, event)
    BY <1>2 DEF StepTo
<1>6. machine.state \in Parked \cup {"HoldParked"} => machine'.state \in Parked
    BY <1>2, <1>5 DEF After, EnabledOf, EnabledBelowFullOf, ResumeOf, WrittenOf, RetargetTo,
       Parked, BringingUp, Holding, Phases, NoPhase
<1>7. machine.state \in Sourcing => machine'.state \in Sourcing
    BY <1>2, <1>5 DEF After, WrittenOf, RetargetTo, Sourcing, Parked, BringingUp, Holding,
       Phases, NoPhase
<1> QED
    BY <1>4, <1>6, <1>7

LEMMA CommitFollows ==
    ASSUME Followed, Felt, IInv, IInv', Commit, UNCHANGED watch
    PROVE  Followed' /\ Felt'
<1>1. Followed'
    BY CommitMoves DEF Followed, NeverBlind, DangerEnds, SameWindows, Watched
<1>2. ASSUME machine.state \notin Sourcing PROVE Felt'
    <2>1. watch'.unfelt = 0
        BY <1>2 DEF Felt
    <2> QED
        BY <2>1, NothingUnreadNext
<1>3. ASSUME machine.state \in Sourcing PROVE Felt'
    <2>1. /\ machine'.clock["pack_temp_missing"] = machine.clock["pack_temp_missing"]
          /\ machine'.clock["battery_missing"] = machine.clock["battery_missing"]
        BY CommitMoves DEF SameWindows, Watched
    <2>2. Missed' = Missed
        BY <2>1 DEF Missed
    <2>3. \A counted, n, extra \in Nat :
              Unread(counted, n, extra) => Unread(counted, n, extra)'
        BY <2>1, <2>2 DEF Unread
    <2>4. machine'.state \in Sourcing
        BY <1>3, CommitMoves
    <2>5. machine.state \in Parked \cup {"HoldParked"} => machine'.state \in Parked
        BY CommitMoves
    <2>6. PICK counted, n, extra \in Nat :
              /\ Unread(counted, n, extra)
              /\ \/ extra = 0
                 \/ /\ machine.state \in Parked \cup {"HoldParked"}
                    /\ \E dt \in Elapsed : extra = ParkSlack(dt)
        BY DEF Felt
    <2>7. Unread(counted, n, extra)'
        BY <2>3, <2>6
    <2>8. watch'.unfelt \in Nat
        BY DEF Felt
    <2>9. \A dt : ParkSlack(dt)' = ParkSlack(dt)
        BY DEF ParkSlack
    <2> QED
        BY <2>4, <2>5, <2>6, <2>7, <2>8, <2>9 DEF Felt
<1> QED
    BY <1>1, <1>2, <1>3

(* The observer is one of the supervisor: what is proved of it holds here. *)
LEMMA WatchIsSupervisor == WatchSpec => Spec
<1>1. WatchInit => Init
    BY DEF WatchInit
<1>2. [WatchNext]_wvars => [Next]_vars
    BY DEF WatchNext, Next, wvars, vars
<1> QED
    BY <1>1, <1>2, PTL DEF WatchSpec, Spec

-----------------------------------------------------------------------------

(* The inductive invariant of the observer: each of its counts is no more    *)
(* than the window of the gauntlet it watches, and short of the budget.      *)
THEOREM CountsFollow == WatchSpec => [](Followed /\ Felt)
<1>1. WatchInit /\ IInv => Followed /\ Felt
    BY WatchInitFollows, NothingUnread
<1>2. Followed /\ Felt /\ IInv /\ IInv' /\ [WatchNext]_wvars => Followed' /\ Felt'
    <2> SUFFICES ASSUME Followed, Felt, IInv, IInv', [WatchNext]_wvars
                 PROVE  Followed' /\ Felt'
        OBVIOUS
    <2>1. ASSUME NEW p \in PollResults, NEW dt \in Elapsed, Tick(p, dt), Observe(p, dt)
          PROVE  Followed' /\ Felt'
        BY <2>1, TickFollows, TickFeels
    <2>2. CASE Commit /\ UNCHANGED watch
        BY <2>2, CommitFollows
    <2>3. CASE UNCHANGED wvars
        BY <2>3 DEF wvars, Followed, NeverBlind, DangerEnds, Felt, Unread, Missed
    <2> QED
        BY <2>1, <2>2, <2>3 DEF WatchNext
<1> QED
    BY <1>1, <1>2, WatchIsSupervisor, Inductive, PTL DEF WatchSpec

(* The buck never sources for the whole of a staleness budget on no battery *)
(* sample or on a silent link, whatever parks, holds and retargets come in  *)
(* between (safety_gauntlet, checks 3 and 4).                               *)
THEOREM NeverSourcesBlind == WatchSpec => []NeverBlind
<1>1. Followed => NeverBlind
    BY DEF Followed
<1> QED
    BY <1>1, CountsFollow, PTL

(* An overvoltage or an overcurrent never lasts its window on a buck that    *)
(* charges (safety_gauntlet, checks 5 and 6).                                *)
THEOREM DangerIsEnded == WatchSpec => []DangerEnds
<1>1. Followed => DangerEnds
    BY DEF Followed
<1> QED
    BY <1>1, CountsFollow, PTL

(* On a board with the sensor the buck does not source for ever on an unread *)
(* pack temperature: what the window counts stays short of the budget, and   *)
(* each tick it counts is paid for with no more than one run of missing      *)
(* samples that latches nothing (safety_gauntlet, checks 4, 6 and 7).        *)
THEOREM UnreadTemperatureIsEnded == WatchSpec => []UnreadTemperatureEnds
<1>1. Felt /\ IInv => UnreadTemperatureEnds
    <2> SUFFICES ASSUME Felt, IInv PROVE UnreadTemperatureEnds
        OBVIOUS
    <2>1. PICK counted, n, extra \in Nat :
              /\ Unread(counted, n, extra)
              /\ \/ extra = 0
                 \/ /\ machine.state \in Parked \cup {"HoldParked"}
                    /\ \E dt \in Elapsed : extra = ParkSlack(dt)
        BY DEF Felt
    <2>2. Missed \in Nat /\ Missed < BatteryMissingTimeout
        <3>1. machine.clock["battery_missing"] \in Nat
            BY WatchBounds DEF IInv, TypeOK, Machines, Clocks
        <3> QED
            BY <3>1, WatchBounds DEF Missed
    <2>3. watch.unfelt \in Nat /\ (machine.state \notin Sourcing => watch.unfelt = 0)
        BY DEF Felt
    <2>4. /\ counted < PackTempStaleTimeout /\ n * ShortestTick <= counted
          /\ watch.unfelt <= counted + n * (BatteryMissingTimeout - 1) + Missed + extra
        BY <2>1 DEF Unread
    <2>5. watch.unfelt < UnfeltBound + extra /\ UnfeltTicks \in Nat
        BY <2>2, <2>3, <2>4, WatchBounds, CountsCap DEF UnfeltBound, UnfeltTicks
    <2>6. UnfeltBound \in Nat \ {0}
        <3>1. PICK b \in Nat : b = BatteryMissingTimeout - 1
            BY WatchBounds
        <3>2. (UnfeltTicks + 1) * b \in Nat
            BY <2>5, <3>1, OneMore
        <3> QED
            BY <3>1, <3>2, WatchBounds DEF UnfeltBound
    <2>7. CASE extra = 0
        BY <2>5, <2>6, <2>7 DEF UnreadTemperatureEnds
    <2>8. CASE machine.state \notin Sourcing
        BY <2>3, <2>6, <2>8 DEF UnreadTemperatureEnds
    <2>9. CASE machine.state \in Parked /\ \E dt \in Elapsed : extra = ParkSlack(dt)
        BY <2>5, <2>9 DEF UnreadTemperatureEnds
    <2>10. "HoldParked" \notin Sourcing
        BY DEF Sourcing, Parked
    <2> QED
        BY <2>1, <2>7, <2>8, <2>9, <2>10
<1> QED
    BY <1>1, CountsFollow, WatchIsSupervisor, Inductive, PTL

-----------------------------------------------------------------------------
(***************************************************************************)
(* The charge cycle.  The absolute cap counts only the ticks that have a   *)
(* battery sample.  Cycled bounds the wall time by what the cap counted    *)
(* and, for each tick it counted, one run of missing samples.              *)
(***************************************************************************)

Counts(n) ==
    /\ n * ShortestTick <= machine.clock["charge_total"]
    /\ watch.cycle <= machine.clock["charge_total"] + n * (BatteryMissingTimeout - 1) + Missed

Cycled ==
    /\ watch.cycle \in Nat /\ CycleIsCapped
    /\ machine.state # "Absorb" => watch.cycle = 0
    /\ machine.state = "Absorb" =>
           machine.clock["charge_total"] < MaxCharge /\ \E n \in Nat : Counts(n)

(* What the gauntlet answers a sourcing buck: nothing holds it off but a *)
(* missing sample.                                                       *)
LEMMA SourcingVerdict ==
    ASSUME NEW m, m.state \in Sourcing, NEW p, NEW dt
    PROVE  IF p.battery.fresh THEN Verdict(m, p, dt).kind # "Inhibit"
                              ELSE Verdict(m, p, dt).kind # "Clear"
<1>1. ~Unconfirmed(m, p) /\ ~HeldOff(m, p)
    BY DEF Unconfirmed, HeldOff, Sourcing, BringingUp, Holding, Parked
<1>2. \A reason : FaultOrInhibit(m, reason) = Latch(reason)
    BY DEF FaultOrInhibit
<1> QED
    BY <1>1, <1>2 DEF Verdict, Latch, Inhibit, Clear

(* A tick that leaves a charge cycle running: the absolute cap counts it if  *)
(* it has a sample, and does not see it otherwise; a cycle that a hold cut   *)
(* short counts from nothing.                                                *)
LEMMA AbsorbTick ==
    ASSUME IInv, NEW p \in PollResults, NEW dt \in Elapsed, Tick(p, dt),
           machine'.state = "Absorb"
    PROVE  LET c == IF machine.state = "Absorb" THEN machine.clock["charge_total"] ELSE 0
               n == machine'.clock["charge_total"]
           IN  IF p.battery.fresh THEN n = Capped(c + dt) /\ n < MaxCharge ELSE n = c
<1> DEFINE r == Reconciled(Drained, p)
           m == QuietTimer(r, dt)
           w == GauntletClock(m, p, dt)
           g == [m EXCEPT !.clock = w]
           v == Verdict(m, p, dt)
           c == IF machine.state = "Absorb" THEN machine.clock["charge_total"] ELSE 0
<1>0. "Absorb" \in Sourcing \ Parked
    BY DEF Sourcing, Parked
<1>1. Supervise(p, dt) /\ Agrees(p)
    BY <1>0, SourcingIsSupervised DEF Supervise
<1>2. m \in Machines /\ m.state \in States \ Terminal
    BY <1>1, ReconciledKeeps
<1>3. \/ v.kind = "Latch" /\ OnFault(g, v.reason)
      \/ v.kind = "Inhibit" /\ machine' = g
      \/ v.kind = "Clear" /\ m.state \in BringingUp /\ machine' = g
      \/ /\ v.kind = "Clear" /\ m.state \notin BringingUp
         /\ Regulate(g, p.battery, dt)
    BY <1>1 DEF Supervise
<1>4. m.state = r.state /\ m.clock = r.clock
    BY DEF QuietTimer
<1>5. g \in Machines /\ g.state = m.state /\ g.clock = w
    BY <1>2, GauntletClockType, ClockUpdate
<1>6. v.kind = "Latch" => v.reason \in FaultReasons
    BY <1>2, VerdictType DEF Clear
<1>7. w["charge_total"] = m.clock["charge_total"]
    BY <1>2 DEF GauntletClock, Clocks, Machines
<1>8. m.state \in Sourcing =>
          IF p.battery.fresh THEN v.kind # "Inhibit" ELSE v.kind # "Clear"
    BY SourcingVerdict
<1> HIDE DEF m, g, v, w, r, c
<1>9. ~OnFault(g, v.reason) \/ v.kind # "Latch"
    BY <1>0, <1>2, <1>5, <1>6, FaultThatSources
<1>10. /\ m.state = "Absorb"
       /\ \/ machine' = g /\ v.kind = "Inhibit"
          \/ v.kind = "Clear" /\ RegulateAbsorb(g, p.battery, dt)
    <2>1. CASE machine' = g
        <3>1. m.state = "Absorb" /\ m.state \notin BringingUp
            BY <1>5, <2>1 DEF BringingUp, Holding
        <3>2. v.kind = "Inhibit" \/ (Regulate(g, p.battery, dt) /\ v.kind = "Clear")
            <4>1. CASE v.kind = "Latch" /\ OnFault(g, v.reason)
                BY <1>9, <4>1
            <4>2. CASE v.kind = "Clear" /\ m.state \in BringingUp
                BY <3>1, <4>2
            <4> QED
                BY <1>3, <4>1, <4>2
        <3> QED
            BY <1>5, <2>1, <3>1, <3>2
            DEF Regulate, Reemit, RegulateFloat, RegulateParked, RetargetTo, NoPhase
    <2>2. CASE v.kind = "Clear" /\ Regulate(g, p.battery, dt)
        <3>1. ~Reemit(g) \/ machine' = g
            BY DEF Reemit
        <3>2. ~RegulateFloat(g, p.battery, dt)
            <4> SUFFICES ASSUME RegulateFloat(g, p.battery, dt) PROVE FALSE
                OBVIOUS
            <4>1. g.state = "Float" /\ AfterExit(g, p.battery, dt).state = "Float"
                BY <1>5, CycleClocks DEF RegulateFloat
            <4>2. machine' = AfterExit(g, p.battery, dt)
                  \/ machine' = StepTo(AfterExit(g, p.battery, dt), "ToAbsorb")
                BY <4>1 DEF RegulateFloat, Stay, Retarget, Step, After
            <4> QED
                BY <4>1, <4>2 DEF StepTo
        <3>3. ~RegulateParked(g, p.battery, dt)
            BY <1>5, CycleClocks DEF RegulateParked, Stay
        <3>4. RegulateAbsorb(g, p.battery, dt) => m.state = "Absorb"
            BY <1>5 DEF RegulateAbsorb
        <3> QED
            BY <2>1, <2>2, <3>1, <3>2, <3>3, <3>4 DEF Regulate
    <2> QED
        BY <1>3, <1>9, <2>1, <2>2
<1>11. m.clock["charge_total"] = c
    <2>1. CASE WentOff(machine.state, p)
        <3>1. r = StepTo(Drained, After(machine.state, "SelfDisabled"))
            BY <2>1, DrainedIs DEF r, Reconciled, Step
        <3>2. After(machine.state, "SelfDisabled") \in Holding
            BY <1>1, <2>1, HoldRemembers DEF WentOff, Agrees, CanHold
        <3> QED
            BY <1>4, <1>10, <3>1, <3>2 DEF StepTo, Holding
    <2>2. CASE ~WentOff(machine.state, p) /\ CameOn(machine.state, p)
        <3>1. machine.state # "Absorb"
            BY <2>2 DEF CameOn, BringingUp, Holding
        <3>2. r = StepTo(Drained, After(machine.state, "SelfEnabled"))
            BY <2>2, DrainedIs DEF r, Reconciled, Step
        <3>3. r = StepTo(Drained, "Absorb")
            BY <1>4, <1>10, <3>2 DEF StepTo
        <3>4. r.clock["charge_total"] = 0
            BY <3>3 DEF StepTo, ClockAfterMove, Clocks, Terminal
        <3> QED
            BY <1>4, <3>1, <3>4 DEF c
    <2>3. CASE ~WentOff(machine.state, p) /\ ~CameOn(machine.state, p)
        <3>1. r = Drained
            BY <2>3, DrainedIs DEF r, Reconciled
        <3> QED
            BY <1>4, <1>10, <3>1, DrainedIs DEF c
    <2> QED
        BY <2>1, <2>2, <2>3
<1>12. CASE ~p.battery.fresh
    <2>1. machine' = g
        BY <1>0, <1>8, <1>10, <1>12
    <2> QED
        BY <1>5, <1>7, <1>11, <1>12, <2>1 DEF c
<1>13. CASE p.battery.fresh
    <2>1. RegulateAbsorb(g, p.battery, dt)
        BY <1>0, <1>8, <1>10, <1>13
    <2>2. machine' = AfterCharge(g, p.battery, dt) /\ ~ChargeDone(g, dt)
        <3>1. ~ExitDone(g, p.battery, dt)
            <4> SUFFICES ASSUME ExitDone(g, p.battery, dt) PROVE FALSE
                OBVIOUS
            <4>1. machine' = Step(AfterExit(g, p.battery, dt), "TaperFell")
                BY <2>1 DEF RegulateAbsorb, Retarget
            <4>2. machine'.state = "ToFloat"
                BY <1>5, <1>10, <4>1, CycleClocks DEF Step, StepTo, After
            <4> QED
                BY <4>2
        <3>2. \A n \in Machines, reason \in ParkFaults :
                  n.state = g.state => ~OnFault(n, reason)
            BY <1>0, <1>2, <1>5, FaultThatSources DEF FaultReasons
        <3>3. "AbsorbTimeout" \in ParkFaults /\ "ChargeTimeout" \in ParkFaults
            BY DEF ParkFaults
        <3> QED
            BY <1>5, <2>1, <3>1, <3>2, <3>3, CycleClocks DEF RegulateAbsorb, Stay
    <2>3. machine'.clock["charge_total"] = ChargeClock(g, dt)
        <3>1. AfterAbsorb(g, p.battery, dt) \in Machines
            BY <1>5, CycleClocks
        <3>2. AfterCharge(g, p.battery, dt).clock
                 = [AfterAbsorb(g, p.battery, dt).clock EXCEPT !["charge_total"] = ChargeClock(g, dt)]
            BY <3>1 DEF AfterCharge, Machines
        <3>3. AfterAbsorb(g, p.battery, dt).clock \in [Clocks -> 0..DurationMax]
            BY <3>1 DEF Machines
        <3> QED
            BY <2>2, <3>2, <3>3 DEF Clocks
    <2>4. ChargeClock(g, dt) = Capped(c + dt)
        BY <1>5, <1>7, <1>11 DEF ChargeClock, Stepped
    <2>5. c \in 0..DurationMax
        BY <1>2, <1>11 DEF Machines, Clocks
    <2>6. Capped(c + dt) \in 0..DurationMax
        BY <2>5, WindowType
    <2>7. ~(Capped(c + dt) >= MaxCharge)
        BY <2>2, <2>4 DEF ChargeDone
    <2>8. Capped(c + dt) < MaxCharge
        BY <2>6, <2>7, CycleBounds, WatchBounds
    <2> QED
        BY <1>13, <2>3, <2>4, <2>8 DEF c
<1> QED
    BY <1>12, <1>13

LEMMA CycleTick ==
    ASSUME Cycled, IInv, IInv', NEW p \in PollResults, NEW dt \in Elapsed,
           Tick(p, dt), Observe(p, dt)
    PROVE  Cycled'
<1> DEFINE c == IF machine.state = "Absorb" THEN machine.clock["charge_total"] ELSE 0
           b == BatteryMissingTimeout - 1
<1>1. watch'.cycle = IF machine'.state = "Absorb"
                     THEN AtMost(watch.cycle + dt, CycleBound) ELSE 0
    BY DEF Observe
<1>2. dt \in Nat \ {0} /\ DurationMax \in Nat /\ b \in Nat /\ ShortestTick <= dt
      /\ MaxCharge \in Nat \ {0} /\ MaxCharge < DurationMax /\ ShortestTick \in Nat \ {0}
      /\ BatteryMissingTimeout \in Nat \ {0}
    BY WatchBounds, CycleBounds
<1>3. CycleBound \in Nat \ {0}
    <2>1. PICK q \in Nat : q = CountedTicks
        BY CycleBounds DEF CountedTicks
    <2>2. (q + 1) * b \in Nat
        BY <1>2, OneMore
    <2> QED
        BY <1>2, <2>1, <2>2 DEF CycleBound
<1>4. /\ machine.clock["battery_missing"] \in 0..DurationMax
      /\ machine'.clock["battery_missing"] \in 0..DurationMax
      /\ machine.clock["charge_total"] \in 0..DurationMax
      /\ machine'.clock["charge_total"] \in 0..DurationMax
    BY DEF IInv, TypeOK, Machines, Clocks
<1>5. CASE machine'.state # "Absorb"
    BY <1>1, <1>3, <1>5 DEF Cycled, CycleIsCapped
<1>6. CASE machine'.state = "Absorb"
    <2>1. watch.cycle \in Nat /\ c \in Nat /\ c < MaxCharge
        BY <1>2, <1>4 DEF Cycled
    <2>2. PICK n \in Nat : n * ShortestTick <= c /\ watch.cycle <= c + n * b + Missed
        <3>1. CASE machine.state = "Absorb"
            BY <3>1 DEF Cycled, Counts
        <3>2. CASE machine.state # "Absorb"
            <4>1. watch.cycle = 0 /\ c = 0 /\ Missed \in Nat
                BY <1>2, <1>4, <3>2 DEF Cycled, Missed
            <4>2. 0 * ShortestTick = 0 /\ 0 * b = 0
                BY <1>2
            <4> QED
                BY <4>1, <4>2
        <3> QED
            BY <3>1, <3>2
    <2>3. n * ShortestTick \in Nat /\ n * b \in Nat
        BY <1>2, OneMore
    <2>4. watch'.cycle \in Nat /\ watch'.cycle <= watch.cycle + dt
        BY <1>1, <1>2, <1>3, <1>6, <2>1 DEF AtMost
    <2>5. machine'.clock["battery_missing"] < BatteryMissingTimeout
        BY <1>6, SourcingTick DEF Sourcing
    <2>6. Missed' = machine'.clock["battery_missing"]
        BY <2>5 DEF Missed
    <2>7. IF p.battery.fresh
          THEN machine'.clock["charge_total"] = Capped(c + dt)
               /\ machine'.clock["charge_total"] < MaxCharge
          ELSE machine'.clock["charge_total"] = c
        BY <1>6, AbsorbTick
    <2>8. PICK missed \in BOOLEAN : missed = ~p.battery.fresh
        OBVIOUS
    <2>9. machine'.clock["battery_missing"]
              = Stepped(machine.clock["battery_missing"], missed, dt)
        BY <1>6, <2>8, SourcingTick DEF Sourcing
    <2> HIDE DEF b, c
    <2>10. /\ machine'.clock["charge_total"] < MaxCharge
           /\ \E k \in Nat : Counts(k)'
        <3>1. CASE ~missed
            <4>1. /\ machine'.clock["charge_total"] = c + dt
                  /\ machine'.clock["charge_total"] < MaxCharge
                <5>1. p.battery.fresh
                    BY <2>8, <3>1
                <5>2. PICK t \in Nat : t = c + dt
                    BY <1>2, <2>1
                <5>3. Capped(t) < MaxCharge /\ machine'.clock["charge_total"] = Capped(t)
                    BY <2>7, <5>1, <5>2
                <5>4. t <= DurationMax
                    BY <1>2, <5>3 DEF Capped
                <5>5. Capped(t) = t
                    BY <1>2, <5>4 DEF Capped
                <5> QED
                    BY <5>2, <5>3, <5>5
            <4>2. Missed' = 0
                BY <2>6, <2>9, <3>1 DEF Stepped
            <4>3. Missed <= b /\ Missed \in Nat
                BY <1>2, <1>4 DEF Missed, b
            <4>4. /\ (n + 1) * ShortestTick = n * ShortestTick + ShortestTick
                  /\ (n + 1) * b = n * b + b
                BY <1>2, OneMore
            <4>5. (n + 1) * ShortestTick <= machine'.clock["charge_total"]
                BY <1>2, <2>1, <2>2, <2>3, <4>1, <4>4
            <4>6. watch'.cycle <= machine'.clock["charge_total"] + (n + 1) * b + Missed'
                BY <1>2, <2>1, <2>2, <2>3, <2>4, <4>1, <4>2, <4>3, <4>4
            <4>7. Counts(n + 1)'
                BY <4>5, <4>6 DEF Counts, b
            <4> QED
                BY <4>1, <4>7
        <3>2. CASE missed
            <4>1. machine'.clock["charge_total"] = c
                BY <2>7, <2>8, <3>2
            <4>2. /\ machine'.clock["battery_missing"] = machine.clock["battery_missing"] + dt
                  /\ Missed = machine.clock["battery_missing"]
                BY <1>2, <1>4, <2>5, <2>9, <3>2, WatchBounds DEF Stepped, Capped, Missed
            <4>3. watch'.cycle <= machine'.clock["charge_total"] + n * b + Missed'
                BY <1>2, <1>4, <2>1, <2>2, <2>3, <2>4, <2>6, <4>1, <4>2
            <4>4. Counts(n)'
                BY <2>2, <4>1, <4>3 DEF Counts, b
            <4> QED
                BY <2>1, <4>1, <4>4
        <3> QED
            BY <3>1, <3>2
    <2>11. CycleIsCapped'
        <3>1. PICK k \in Nat : Counts(k)'
            BY <2>10
        <3>2. /\ k * ShortestTick <= machine'.clock["charge_total"]
              /\ watch'.cycle <= machine'.clock["charge_total"]
                     + k * (BatteryMissingTimeout - 1) + machine'.clock["battery_missing"]
            BY <2>6, <3>1 DEF Counts
        <3>3. machine'.clock["charge_total"] \in Nat /\ machine'.clock["battery_missing"] \in Nat
            BY <1>2, <1>4
        <3>4. k * (BatteryMissingTimeout - 1) \in Nat
            BY <1>2, OneMore DEF b
        <3>5. watch'.cycle <= machine'.clock["charge_total"]
                  + k * (BatteryMissingTimeout - 1) + machine'.clock["battery_missing"] + 0
            BY <2>4, <3>2, <3>3, <3>4
        <3>6. watch'.cycle < CycleBound + 0
            BY <1>2, <2>4, <2>5, <2>10, <3>2, <3>3, <3>5, CountsCap
            DEF CycleBound, CountedTicks
        <3> QED
            BY <1>3, <2>4, <3>6 DEF CycleIsCapped
    <2> QED
        BY <1>6, <2>4, <2>10, <2>11 DEF Cycled
<1> QED
    BY <1>5, <1>6

LEMMA CommitCycles ==
    ASSUME Cycled, IInv, IInv', Commit, UNCHANGED watch
    PROVE  Cycled'
<1>1. PICK event \in {"Enabled", "EnabledBelowFull", "VoltageWritten", "Disabled"} :
          machine' = StepTo(machine, After(machine.state, event))
    <2>1. CASE CommitEnable
        BY <2>1 DEF CommitEnable, Step
    <2>2. CASE CommitVoltage
        BY <2>2 DEF CommitVoltage, Step, IInv, TicketsAgree
    <2>3. CASE CommitDisable
        BY <2>3 DEF CommitDisable, Step, IInv, TicketsAgree
    <2> QED
        BY <2>1, <2>2, <2>3 DEF Commit
<1>2. machine'.state = After(machine.state, event)
    BY <1>1 DEF StepTo
<1>3. machine.state # "Absorb"
    <2>1. CASE CommitEnable
        BY <2>1 DEF CommitEnable, IInv, TicketsAgree, BringingUp, Holding
    <2>2. CASE CommitVoltage
        BY <2>2 DEF CommitVoltage, IInv, TicketsAgree, TypeOK, Actions, NoAction,
                    EnableOutput, DisableOutput, RetargetTo, Phases, NoPhase
    <2>3. CASE CommitDisable
        BY <2>3 DEF CommitDisable, IInv, TicketsAgree
    <2> QED
        BY <2>1, <2>2, <2>3 DEF Commit
<1>4. watch'.cycle = 0
    BY <1>3 DEF Cycled
<1>5. CASE machine'.state # "Absorb"
    BY <1>4, <1>5 DEF Cycled, CycleIsCapped
<1>6. CASE machine'.state = "Absorb"
    <2>1. machine'.clock["charge_total"] = 0
        BY <1>1, <1>2, <1>6 DEF StepTo, ClockAfterMove, Clocks, Terminal
    <2>2. Missed' \in Nat
        <3>1. machine'.clock["battery_missing"] \in 0..DurationMax
            BY DEF IInv, TypeOK, Machines, Clocks
        <3> QED
            BY <3>1, WatchBounds DEF Missed
    <2>3. 0 * ShortestTick = 0 /\ 0 * (BatteryMissingTimeout - 1) = 0
        BY CycleBounds, WatchBounds
    <2>4. Counts(0)'
        BY <1>4, <2>1, <2>2, <2>3 DEF Counts
    <2> QED
        BY <1>4, <2>1, <2>4, CycleBounds DEF Cycled, CycleIsCapped
<1> QED
    BY <1>5, <1>6

(* A charge cycle is capped in wall time: what the absolute cap counts, and  *)
(* between two of its ticks no more than a run of missing samples that       *)
(* latches nothing (regulate, the charge_total window).                      *)
THEOREM CycleHasCap == WatchSpec => []CycleIsCapped
<1>1. WatchInit => Cycled
    <2>1. PICK b \in Nat : b = BatteryMissingTimeout - 1
        BY WatchBounds
    <2>2. PICK q \in Nat : q = CountedTicks
        BY CycleBounds DEF CountedTicks
    <2>3. (q + 1) * b \in Nat
        BY OneMore
    <2>4. 0 < CycleBound
        BY <2>1, <2>2, <2>3, CycleBounds DEF CycleBound
    <2> QED
        BY <2>4 DEF WatchInit, Init, NewMachine, Cycled, CycleIsCapped
<1>2. Cycled /\ IInv /\ IInv' /\ [WatchNext]_wvars => Cycled'
    <2> SUFFICES ASSUME Cycled, IInv, IInv', [WatchNext]_wvars PROVE Cycled'
        OBVIOUS
    <2>1. ASSUME NEW p \in PollResults, NEW dt \in Elapsed, Tick(p, dt), Observe(p, dt)
          PROVE  Cycled'
        BY <2>1, CycleTick
    <2>2. CASE Commit /\ UNCHANGED watch
        BY <2>2, CommitCycles
    <2>3. CASE UNCHANGED wvars
        BY <2>3 DEF wvars, Cycled, CycleIsCapped, Counts, Missed
    <2> QED
        BY <2>1, <2>2, <2>3 DEF WatchNext
<1>3. Cycled => CycleIsCapped
    BY DEF Cycled
<1> QED
    BY <1>1, <1>2, <1>3, WatchIsSupervisor, Inductive, PTL DEF WatchSpec
=============================================================================
