--------------------------- MODULE Charger_proofs ---------------------------
(***************************************************************************)
(* What is proved about the charger, thread and buck together, for every   *)
(* profile, window, sample and length of a tick, with writes that get      *)
(* lost, protections, power cycles and reboots between any two Modbus      *)
(* calls.                                                                  *)
(*                                                                         *)
(* Nothing holds against a hand on the front panel.  That the output is    *)
(* dark when it has to be needs no more; that the target is the one the    *)
(* state names needs writes that are either answered or lost; and that the *)
(* firmware never blames itself also needs a buck whose power-on default   *)
(* is off, as every boot leaves it.                                        *)
(***************************************************************************)
EXTENDS Charger, ChargeSupervisor_proofs

Untouched == ~PanelUsed
Answered == Untouched /\ "Mute" \notin Outcomes
KnownBuck == Answered /\ TRUE \notin PowerOnDefaults

(* A ticket to write V_SET is the one its state asks for. *)
TicketAsks ==
    action.do = "UpdateVoltage" => action = UpdateVoltage(machine.state, RetargetTo(machine.state))

(* Where the thread is fits what the supervisor knows: it is new until the   *)
(* boot is over, and holds the ticket of the step-down under way.            *)
ThreadFits ==
    /\ at \in BootPoints => machine.state = "Boot" /\ fault = "None"
    /\ at \in StepDownPoints => action.do = "UpdateVoltage" /\ action.cycle_output

ThreadInv == IInv /\ ChargerTypeOK /\ TicketAsks /\ ThreadFits

(* The output is off where it has to be, and does not come back on by itself: *)
(* the boot has written S_INI.                                                *)
DarkFits ==
    /\ at \notin {"off", "clear", "s_ini", "giveup"} => ~device.s_ini
    /\ at = "lower" => ~device.switch
    /\ LatchedIsDark

(* The target is the one the state names, but for the calls of a step-down    *)
(* between the write of V_SET and its commit.                                 *)
TargetFits ==
    /\ at \in {"poll", "apply", "lower", "restore"} /\ machine.state \notin Terminal
          => device.target = SetpointPhase(machine.state)
    /\ at \in {"enable", "enable again"} => device.target = action.phase

(* A new supervisor's buck is off from the first write of its boot on. *)
BootIsDark ==
    /\ ~device.s_ini
    /\ machine.state = "Boot" /\ at \notin {"off", "giveup"} => ~device.switch

-----------------------------------------------------------------------------
(* What a tick does to the target and to the ticket. *)

(* The state a tick leaves, from the one `reconcile` came to. *)
Moved(s) ==
    \/ machine'.state = "Tripping"
    \/ /\ machine'.state \notin Terminal
       /\ SetpointPhase(machine'.state) = SetpointPhase(s)
       /\ machine'.state = "Boot" => s = "Boot"

(* Parking keeps the target the device holds. *)
LEMMA ParkKeepsTarget ==
    ASSUME NEW s \in Sourcing \ Parked
    PROVE  SetpointPhase(After(s, "Park")) = SetpointPhase(s)
BY DEF After, ParkOf, Sourcing, Parked, SetpointPhase, Terminal

LEMMA FaultMoves ==
    ASSUME NEW m \in Machines, m.state \in States \ Terminal, NEW reason,
           Parks(m, reason) => m.state \in Sourcing, OnFault(m, reason)
    PROVE  Moved(m.state) /\ TicketAsks' /\ fault' = reason
<1>1. fault' = reason
    BY DEF OnFault
<1>2. CASE Parks(m, reason)
    <2> DEFINE to == After(m.state, "Park")
    <2>1. m.state \in Sourcing \ Parked
        BY <1>2 DEF Parks
    <2>2. to \in Parked /\ SetpointPhase(to) = SetpointPhase(m.state)
        BY <2>1, ParkLandsParked, ParkKeepsTarget
    <2>3. /\ machine'.state = to
          /\ action' = IF RetargetTo(to) # NoPhase
                       THEN UpdateVoltage(to, RetargetTo(to)) ELSE NoAction
        BY <1>2 DEF OnFault, Step, StepTo
    <2>4. to \notin Terminal /\ to # "Boot"
        BY <2>2 DEF Parked, Terminal
    <2>5. TicketAsks'
        BY <2>3 DEF TicketAsks, NoAction
    <2> QED
        BY <1>1, <2>2, <2>3, <2>4, <2>5 DEF Moved
<1>3. CASE ~Parks(m, reason)
    <2>1. machine'.state = "Tripping" /\ action' = DisableOutput(reason)
        BY <1>3, FaultTrips DEF OnFault, Step, StepTo
    <2>2. TicketAsks'
        BY <2>1 DEF TicketAsks, DisableOutput
    <2> QED
        BY <1>1, <2>1, <2>2 DEF Moved
<1> QED
    BY <1>2, <1>3

LEMMA RegulateMoves ==
    ASSUME NEW m \in Machines, m.state \in States \ Terminal, NEW b, NEW dt \in Elapsed,
           Regulate(m, b, dt)
    PROVE  /\ Moved(m.state) /\ TicketAsks'
           /\ fault' = fault \/ fault' \in {"AbsorbTimeout", "ChargeTimeout"}
<1>1. /\ AfterExit(m, b, dt).state = m.state
      /\ AfterAbsorb(m, b, dt) \in Machines /\ AfterAbsorb(m, b, dt).state = m.state
      /\ AfterCharge(m, b, dt) \in Machines /\ AfterCharge(m, b, dt).state = m.state
    BY CycleClocks
<1>2. CASE Reemit(m)
    BY <1>2 DEF Reemit, AllClear, Moved, TicketAsks
<1>3. ASSUME NEW n, n.state = m.state, Stay(n)
      PROVE  Moved(m.state) /\ TicketAsks' /\ fault' = fault
    BY <1>3 DEF Stay, AllClear, Moved, TicketAsks, NoAction
<1>4. CASE RegulateFloat(m, b, dt)
    <2>1. CASE ChargingA(b) > EnterAbsorbA
        <3>1. /\ machine'.state = After(m.state, "TaperRose")
              /\ action' = UpdateVoltage(machine'.state, RetargetTo(machine'.state))
              /\ fault' = fault
            BY <1>1, <1>4, <2>1 DEF RegulateFloat, Retarget, AllClear, Step, StepTo
        <3>2. m.state = "Float" /\ machine'.state = "ToAbsorb"
            BY <1>4, <3>1 DEF RegulateFloat, After
        <3> QED
            BY <3>1, <3>2 DEF Moved, TicketAsks, SetpointPhase, Terminal
    <2>2. CASE ~(ChargingA(b) > EnterAbsorbA)
        BY <1>1, <1>3, <1>4, <2>2 DEF RegulateFloat
    <2> QED
        BY <2>1, <2>2
<1>5. CASE RegulateAbsorb(m, b, dt)
    <2>1. m.state = "Absorb" /\ m.state \in Sourcing
        BY <1>5 DEF RegulateAbsorb, Sourcing
    <2>2. CASE ExitDone(m, b, dt)
        <3>1. /\ machine'.state = After(m.state, "TaperFell")
              /\ action' = UpdateVoltage(machine'.state, RetargetTo(machine'.state))
              /\ fault' = fault
            BY <1>1, <1>5, <2>2 DEF RegulateAbsorb, Retarget, AllClear, Step, StepTo
        <3>2. machine'.state = "ToFloat"
            BY <2>1, <3>1 DEF After
        <3> QED
            BY <2>1, <3>1, <3>2 DEF Moved, TicketAsks, SetpointPhase, Terminal
    <2>3. CASE ~ExitDone(m, b, dt) /\ AbsorbDone(m, b, dt)
        <3>1. OnFault(AfterAbsorb(m, b, dt), "AbsorbTimeout")
            BY <1>5, <2>3 DEF RegulateAbsorb
        <3> QED
            BY <1>1, <2>1, <3>1, FaultMoves
    <2>4. CASE ~ExitDone(m, b, dt) /\ ~AbsorbDone(m, b, dt) /\ ChargeDone(m, dt)
        <3>1. OnFault(AfterCharge(m, b, dt), "ChargeTimeout")
            BY <1>5, <2>4 DEF RegulateAbsorb
        <3> QED
            BY <1>1, <2>1, <3>1, FaultMoves
    <2>5. CASE ~ExitDone(m, b, dt) /\ ~AbsorbDone(m, b, dt) /\ ~ChargeDone(m, dt)
        BY <1>1, <1>3, <1>5, <2>5 DEF RegulateAbsorb
    <2> QED
        BY <2>2, <2>3, <2>4, <2>5
<1>6. CASE RegulateParked(m, b, dt)
    BY <1>1, <1>3, <1>6 DEF RegulateParked
<1> QED
    BY <1>2, <1>4, <1>5, <1>6 DEF Regulate

(* The gauntlet blames the target only on a readback that differs, and an *)
(* output that came on never.                                             *)
LEMMA VerdictBlames ==
    ASSUME NEW m, NEW p, NEW dt
    PROVE  LET v == Verdict(m, p, dt)
           IN  v.kind = "Latch" =>
                   /\ v.reason = "SettingsDrift" => Drifted(m, p)
                   /\ v.reason # "OutputOnInPending"
BY DEF Verdict, FaultOrInhibit, Latch, Inhibit, Clear

(* `reconcile` keeps the target too. *)
LEMMA ReconciledMoves ==
    ASSUME IInv, NEW p, Agrees(p), NEW dt
    PROVE  LET s == QuietTimer(Reconciled(Drained, p), dt).state
           IN  /\ SetpointPhase(s) = SetpointPhase(machine.state)
               /\ s = "Boot" => machine.state = "Boot"
<1> DEFINE r == Reconciled(Drained, p)
<1>1. QuietTimer(r, dt).state = r.state
    BY DEF QuietTimer
<1>2. Drained.state = machine.state
    BY DEF Drained, IInv, TypeOK, Machines
<1>3. CASE WentOff(machine.state, p)
    <2>1. r.state = After(machine.state, "SelfDisabled")
        BY <1>2, <1>3 DEF Reconciled, Step, StepTo
    <2>2. machine.state \in Sourcing /\ After(machine.state, "SelfDisabled") # Undefined
        BY <1>3 DEF WentOff, Agrees, CanHold
    <2> QED
        BY <1>1, <2>1, <2>2, HoldRemembers DEF Holding
<1>4. CASE ~WentOff(machine.state, p) /\ CameOn(machine.state, p)
    <2>1. r.state = After(machine.state, "SelfEnabled")
        BY <1>2, <1>4 DEF Reconciled, Step, StepTo
    <2>2. machine.state \in Holding
        BY <1>4 DEF Agrees
    <2> QED
        BY <1>1, <2>1, <2>2, ResumeRemembers DEF Sourcing, Parked
<1>5. CASE ~WentOff(machine.state, p) /\ ~CameOn(machine.state, p)
    BY <1>1, <1>2, <1>5 DEF Reconciled
<1> QED
    BY <1>3, <1>4, <1>5

(* A readback that fits the state is not blamed. *)
FitsReadback(p) == p.buck.read => p.buck.target = SetpointPhase(machine.state)

LEMMA SuperviseMoves ==
    ASSUME IInv, NEW p, NEW dt \in Elapsed, Supervise(p, dt)
    PROVE  /\ machine.state \notin Terminal /\ Moved(machine.state) /\ TicketAsks'
           /\ fault' = "SettingsDrift" => fault = "SettingsDrift" \/ ~FitsReadback(p)
           /\ fault' = "OutputOnInPending" => fault = "OutputOnInPending"
<1> DEFINE m == QuietTimer(Reconciled(Drained, p), dt)
           g == [m EXCEPT !.clock = GauntletClock(m, p, dt)]
           v == Verdict(m, p, dt)
<1>1. Agrees(p) /\ machine.state \notin Terminal
    BY DEF Supervise, Agrees
<1>2. m \in Machines /\ m.state \in States \ Terminal
    BY <1>1, ReconciledKeeps
<1>3. SetpointPhase(m.state) = SetpointPhase(machine.state)
      /\ (m.state = "Boot" => machine.state = "Boot")
    BY <1>1, ReconciledMoves
<1>4. \/ v.kind = "Latch" /\ OnFault(g, v.reason)
      \/ /\ v.kind = "Inhibit" /\ machine' = g /\ action' = NoAction /\ UNCHANGED fault
      \/ /\ machine' = g /\ action' = EnableOutput(~RestedFull(p.battery)) /\ AllClear
      \/ Regulate(g, p.battery, dt)
    BY DEF Supervise
<1>5. v.kind = "Latch" =>
          /\ v.reason = "SettingsDrift" => Drifted(m, p)
          /\ v.reason # "OutputOnInPending"
    BY VerdictBlames
<1>6. Drifted(m, p) => ~FitsReadback(p)
    BY <1>3 DEF Drifted, FitsReadback
<1>7. v.kind = "Latch" => (v.reason \in ParkFaults => m.state \in Sourcing)
    BY <1>2, VerdictType DEF Clear, Inhibit
<1> HIDE DEF m
<1>8. g \in Machines /\ g.state = m.state
    BY <1>2, GauntletClockType, ClockUpdate
<1> HIDE DEF g, v
<1>9. Moved(m.state) => Moved(machine.state)
    BY <1>3 DEF Moved
<1>10. CASE v.kind = "Latch" /\ OnFault(g, v.reason)
    <2>1. Parks(g, v.reason) => g.state \in Sourcing
        BY <1>7, <1>8, <1>10 DEF Parks
    <2>2. Moved(m.state) /\ TicketAsks' /\ fault' = v.reason
        BY <1>2, <1>8, <1>10, <2>1, FaultMoves
    <2> QED
        BY <1>1, <1>5, <1>6, <1>9, <1>10, <2>2
<1>11. CASE machine' = g /\ action' = NoAction /\ UNCHANGED fault
    <2>1. Moved(m.state) /\ TicketAsks'
        BY <1>2, <1>8, <1>11 DEF Moved, TicketAsks, NoAction
    <2> QED
        BY <1>1, <1>9, <1>11, <2>1
<1>12. CASE machine' = g /\ action' = EnableOutput(~RestedFull(p.battery)) /\ AllClear
    <2>1. action'.do = "EnableOutput" /\ fault' = fault
        BY <1>12 DEF EnableOutput, AllClear
    <2>2. Moved(m.state) /\ TicketAsks'
        BY <1>2, <1>8, <1>12, <2>1 DEF Moved, TicketAsks
    <2> QED
        BY <1>1, <1>9, <2>1, <2>2
<1>13. CASE Regulate(g, p.battery, dt)
    <2>1. /\ Moved(m.state) /\ TicketAsks'
          /\ fault' = fault \/ fault' \in {"AbsorbTimeout", "ChargeTimeout"}
        BY <1>2, <1>8, <1>13, RegulateMoves
    <2> QED
        BY <1>1, <1>9, <2>1
<1> QED
    BY <1>4, <1>10, <1>11, <1>12, <1>13

LEMMA TickMoves ==
    ASSUME IInv, NEW p, NEW dt \in Elapsed, Tick(p, dt)
    PROVE  /\ machine.state \in Terminal => machine'.state \in {machine.state, "Tripping"}
           /\ machine.state \notin Terminal => Moved(machine.state)
           /\ TicketAsks'
           /\ fault' = "SettingsDrift" => fault = "SettingsDrift" \/ ~FitsReadback(p)
           /\ fault' = "OutputOnInPending" =>
                  \/ fault = "OutputOnInPending"
                  \/ machine.state = "Boot" /\ p.buck.read /\ p.buck.on
<1>1. Drained \in Machines /\ Drained.state = machine.state /\ machine.state \in States
    BY EmptySeq DEF Drained, IInv, TypeOK, Machines, NoPanic
<1>2. CASE RetryDisable
    BY <1>1, <1>2 DEF RetryDisable, DisableOutput, TicketAsks, Terminal
<1>3. CASE WatchLatched(p)
    <2>1. machine.state = "Latched" /\ "Latched" \in Terminal /\ fault' = fault
        BY <1>3 DEF WatchLatched, Terminal
    <2>2. CASE p.buck.read /\ p.buck.on
        <3>1. machine'.state = After("Latched", "SelfEnabled") /\ action'.do = "DisableOutput"
            BY <1>1, <1>3, <2>1, <2>2 DEF WatchLatched, Step, StepTo, DisableOutput
        <3>2. machine'.state = "Tripping"
            BY <3>1 DEF After
        <3> QED
            BY <2>1, <3>1, <3>2 DEF TicketAsks
    <2>3. CASE ~(p.buck.read /\ p.buck.on)
        <3>1. machine' = Drained /\ action'.do = "None"
            BY <1>3, <2>3 DEF WatchLatched, NoAction
        <3> QED
            BY <1>1, <2>1, <3>1 DEF TicketAsks
    <2> QED
        BY <2>2, <2>3
<1>4. CASE LostOutput(p)
    <2>1. machine.state \in Sourcing /\ machine.state \notin Terminal
        BY <1>4 DEF LostOutput, WentOff, Sourcing, Parked, Terminal
    <2>2. OnFault(Drained, "OutputUnexpectedlyOff")
        BY <1>4 DEF LostOutput
    <2> QED
        BY <1>1, <2>1, <2>2, FaultMoves
<1>5. CASE OnInPending(p)
    <2>1. /\ machine.state = "Boot" /\ machine.state \notin Terminal
          /\ p.buck.read /\ p.buck.on
        BY <1>5 DEF OnInPending, CameOn, BringingUp, Terminal
    <2>2. OnFault(Drained, "OutputOnInPending") /\ ~Parks(Drained, "OutputOnInPending")
        BY <1>5 DEF OnInPending, Parks, ParkFaults
    <2> QED
        BY <1>1, <2>1, <2>2, FaultMoves
<1>6. CASE Supervise(p, dt)
    BY <1>6, SuperviseMoves
<1> QED
    BY <1>2, <1>3, <1>4, <1>5, <1>6 DEF Tick

-----------------------------------------------------------------------------
(* What a tick asks for while a stop is not through yet. *)

(* The write that takes the charge down is asked for; a park without a        *)
(* battery sample waits.                                                      *)
Asks ==
    /\ machine.state = "ToParked" =>
           action.do = "UpdateVoltage" \/ inhibit = "NoBatterySample"
    /\ machine.state = "Tripping" => action.do = "DisableOutput"

AsksFits == at = "apply" => Asks

LEMMA FaultAsks ==
    ASSUME NEW m \in Machines, m.state \in States \ Terminal, NEW reason,
           Parks(m, reason) => m.state \in Sourcing, OnFault(m, reason)
    PROVE  Asks'
<1>1. CASE Parks(m, reason)
    <2> DEFINE to == After(m.state, "Park")
    <2>1. to \in Parked
        BY <1>1, ParkLandsParked DEF Parks
    <2>2. /\ machine'.state = to
          /\ action' = IF RetargetTo(to) # NoPhase
                       THEN UpdateVoltage(to, RetargetTo(to)) ELSE NoAction
        BY <1>1 DEF OnFault, Step, StepTo
    <2>3. CASE to = "ToParked"
        BY <2>2, <2>3 DEF Asks, RetargetTo, NoPhase, UpdateVoltage
    <2>4. CASE to # "ToParked"
        BY <2>1, <2>2, <2>4 DEF Asks, Parked
    <2> QED
        BY <2>3, <2>4
<1>2. CASE ~Parks(m, reason)
    BY <1>2, FaultTrips DEF OnFault, Step, StepTo, DisableOutput, Asks
<1> QED
    BY <1>1, <1>2

LEMMA RegulateAsks ==
    ASSUME NEW m \in Machines, m.state \in States \ Terminal, NEW b, NEW dt \in Elapsed,
           Regulate(m, b, dt)
    PROVE  Asks'
<1>1. /\ AfterExit(m, b, dt).state = m.state
      /\ AfterAbsorb(m, b, dt) \in Machines /\ AfterAbsorb(m, b, dt).state = m.state
      /\ AfterCharge(m, b, dt) \in Machines /\ AfterCharge(m, b, dt).state = m.state
    BY CycleClocks
<1>2. CASE Reemit(m)
    BY <1>2 DEF Reemit, UpdateVoltage, Asks, Terminal
<1>3. ASSUME NEW n, n.state = m.state, m.state # "ToParked", Stay(n)
      PROVE  Asks'
    BY <1>3 DEF Stay, Asks, Terminal
<1>4. ASSUME NEW n, NEW event \in {"TaperRose", "TaperFell"}, Retarget(n, event)
      PROVE  Asks'
    BY <1>4 DEF Retarget, UpdateVoltage, Step, StepTo, After, Asks, Undefined
<1>5. CASE RegulateFloat(m, b, dt)
    BY <1>1, <1>3, <1>4, <1>5 DEF RegulateFloat
<1>6. CASE RegulateAbsorb(m, b, dt)
    <2>1. m.state = "Absorb" /\ m.state \in Sourcing
        BY <1>6 DEF RegulateAbsorb, Sourcing
    <2>2. \/ Retarget(AfterExit(m, b, dt), "TaperFell")
          \/ OnFault(AfterAbsorb(m, b, dt), "AbsorbTimeout")
          \/ OnFault(AfterCharge(m, b, dt), "ChargeTimeout")
          \/ Stay(AfterCharge(m, b, dt))
        BY <1>6 DEF RegulateAbsorb
    <2> QED
        BY <1>1, <1>3, <1>4, <2>1, <2>2, FaultAsks
<1>7. CASE RegulateParked(m, b, dt)
    BY <1>1, <1>3, <1>7 DEF RegulateParked
<1> QED
    BY <1>2, <1>5, <1>6, <1>7 DEF Regulate

(* A sourcing buck is only ever waited for because of a missing sample. *)
LEMMA VerdictWaits ==
    ASSUME NEW m, NEW p, NEW dt, m.state \in Sourcing, Verdict(m, p, dt).kind = "Inhibit"
    PROVE  Verdict(m, p, dt).reason = "NoBatterySample"
BY DEF Verdict, FaultOrInhibit, Latch, Inhibit, Clear, Unconfirmed, HeldOff, BringingUp, Holding,
       Sourcing, Parked

LEMMA SuperviseAsks ==
    ASSUME IInv, NEW p, NEW dt \in Elapsed, Supervise(p, dt)
    PROVE  Asks'
<1> DEFINE m == QuietTimer(Reconciled(Drained, p), dt)
           g == [m EXCEPT !.clock = GauntletClock(m, p, dt)]
           v == Verdict(m, p, dt)
<1>1. m \in Machines /\ m.state \in States \ Terminal
    BY ReconciledKeeps DEF Supervise
<1>2. \/ v.kind = "Latch" /\ OnFault(g, v.reason)
      \/ /\ v.kind = "Inhibit" /\ machine' = g /\ inhibit' = v.reason
      \/ /\ m.state \in BringingUp /\ machine' = g
      \/ Regulate(g, p.battery, dt)
    BY DEF Supervise
<1>3. v.kind = "Latch" => (v.reason \in ParkFaults => m.state \in Sourcing)
    BY <1>1, VerdictType DEF Clear, Inhibit
<1>4. v.kind = "Inhibit" /\ m.state \in Sourcing => v.reason = "NoBatterySample"
    BY VerdictWaits
<1> HIDE DEF m
<1>5. g \in Machines /\ g.state = m.state
    BY <1>1, GauntletClockType, ClockUpdate
<1> HIDE DEF g, v
<1>6. CASE v.kind = "Latch" /\ OnFault(g, v.reason)
    <2>1. Parks(g, v.reason) => g.state \in Sourcing
        BY <1>3, <1>5, <1>6 DEF Parks
    <2> QED
        BY <1>1, <1>5, <1>6, <2>1, FaultAsks
<1>7. CASE v.kind = "Inhibit" /\ machine' = g /\ inhibit' = v.reason
    BY <1>1, <1>4, <1>5, <1>7 DEF Asks, Sourcing, Parked, Terminal
<1>8. CASE m.state \in BringingUp /\ machine' = g
    BY <1>5, <1>8 DEF Asks, BringingUp, Holding
<1>9. CASE Regulate(g, p.battery, dt)
    BY <1>1, <1>5, <1>9, RegulateAsks
<1> QED
    BY <1>2, <1>6, <1>7, <1>8, <1>9

LEMMA TickAsks ==
    ASSUME IInv, NEW p, NEW dt \in Elapsed, Tick(p, dt)
    PROVE  Asks'
<1>1. Drained \in Machines /\ Drained.state = machine.state /\ machine.state \in States
    BY EmptySeq DEF Drained, IInv, TypeOK, Machines, NoPanic
<1>2. CASE RetryDisable
    BY <1>1, <1>2 DEF RetryDisable, DisableOutput, Asks
<1>3. CASE WatchLatched(p)
    <2>1. CASE p.buck.read /\ p.buck.on
        BY <1>1, <1>3, <2>1 DEF WatchLatched, Step, StepTo, After, DisableOutput, Asks
    <2>2. CASE ~(p.buck.read /\ p.buck.on)
        BY <1>1, <1>3, <2>2 DEF WatchLatched, Asks
    <2> QED
        BY <2>1, <2>2
<1>4. CASE LostOutput(p)
    <2>1. machine.state \in Sourcing /\ machine.state \notin Terminal
        BY <1>4 DEF LostOutput, WentOff, Sourcing, Parked, Terminal
    <2> QED
        BY <1>1, <1>4, <2>1, FaultAsks DEF LostOutput
<1>5. CASE OnInPending(p)
    <2>1. machine.state \notin Terminal
        BY <1>5 DEF OnInPending, CameOn, BringingUp, Holding, Terminal
    <2>2. OnFault(Drained, "OutputOnInPending") /\ ~Parks(Drained, "OutputOnInPending")
        BY <1>5 DEF OnInPending, Parks, ParkFaults
    <2> QED
        BY <1>1, <2>1, <2>2, FaultAsks
<1>6. CASE Supervise(p, dt)
    BY <1>6, SuperviseAsks
<1> QED
    BY <1>2, <1>3, <1>4, <1>5, <1>6 DEF Tick

-----------------------------------------------------------------------------
(* What a commit does to the target the state names. *)

LEMMA EnableMoves ==
    ASSUME IInv, CommitEnable
    PROVE  /\ machine.state \in BringingUp /\ machine'.state \in Sourcing
           /\ SetpointPhase(machine'.state) = SetpointPhase(machine.state)
<1>1. machine.state \in BringingUp
    BY DEF IInv, TicketsAgree, CommitEnable
<1>2. PICK event \in {"Enabled", "EnabledBelowFull"} :
          machine'.state = After(machine.state, event)
    BY DEF CommitEnable, Step, StepTo
<1> QED
    BY <1>1, <1>2 DEF After, EnabledOf, EnabledBelowFullOf, ResumeOf, BringingUp, Holding,
                Sourcing, Parked, SetpointPhase, Terminal

LEMMA VoltageMoves ==
    ASSUME IInv, CommitVoltage
    PROVE  /\ machine.state \in {"ToAbsorb", "ToFloat", "ToParked"}
           /\ machine'.state \in {"Absorb", "Float", "Parked"}
           /\ SetpointPhase(machine'.state) = action.phase
<1>1. RetargetTo(machine.state) = action.phase /\ action.phase \in Phases
    BY DEF IInv, TicketsAgree, TypeOK, CommitVoltage, Actions, NoAction,
           EnableOutput, DisableOutput
<1>2. machine.state \in {"ToAbsorb", "ToFloat", "ToParked"}
    BY <1>1 DEF RetargetTo, Phases, NoPhase
<1>3. machine'.state = After(machine.state, "VoltageWritten")
    BY <1>1 DEF CommitVoltage, Step, StepTo
<1> QED
    BY <1>1, <1>2, <1>3 DEF After, WrittenOf, RetargetTo, SetpointPhase, Terminal

LEMMA DisableMoves ==
    ASSUME IInv, CommitDisable
    PROVE  machine.state = "Tripping" /\ machine'.state = "Latched"
<1>1. machine.state = "Tripping" /\ fault = action.reason
    BY DEF IInv, TicketsAgree, CommitDisable
<1>2. machine'.state = After(machine.state, "Disabled")
    BY <1>1 DEF CommitDisable, Step, StepTo
<1> QED
    BY <1>1, <1>2 DEF After

LEMMA CommitTicket ==
    ASSUME Commit
    PROVE  action' = NoAction /\ fault' = fault
BY DEF Commit, CommitEnable, CommitVoltage, CommitDisable

(* A ticket to write V_SET is held while the state waits for the write.      *)
LEMMA WritingStates ==
    ASSUME IInv, TicketAsks, action.do = "UpdateVoltage"
    PROVE  /\ machine.state \in {"ToAbsorb", "ToFloat", "ToParked"}
           /\ action.phase \in Phases /\ action.phase = RetargetTo(machine.state)
           /\ action.cycle_output <=> machine.state # "ToAbsorb"
<1>1. RetargetTo(machine.state) = action.phase /\ action.phase \in Phases
    BY DEF IInv, TicketsAgree, TypeOK, Actions, NoAction, EnableOutput, DisableOutput
<1>2. machine.state \in {"ToAbsorb", "ToFloat", "ToParked"}
    BY <1>1 DEF RetargetTo, Phases, NoPhase
<1>3. action = UpdateVoltage(machine.state, RetargetTo(machine.state))
    BY DEF TicketAsks
<1>4. FloatV \in Nat /\ AbsorbV \in Nat /\ FloatV < AbsorbV
    BY ProfileAssumption
<1> DEFINE down == VoltageOf(RetargetTo(machine.state)) < VoltageOf(SetpointPhase(machine.state))
<1>5. action.cycle_output = down
    BY <1>3, Zenon DEF UpdateVoltage
<1>6. down <=> machine.state # "ToAbsorb"
    BY <1>2, <1>4 DEF RetargetTo, SetpointPhase, VoltageOf, Terminal
<1> HIDE DEF down
<1>7. action.cycle_output <=> machine.state # "ToAbsorb"
    BY <1>5, <1>6
<1> QED
    BY <1>1, <1>2, <1>7

-----------------------------------------------------------------------------
(* The buck. *)

(* The writes the thread makes of the output and of S_INI. *)
Off(d) == SetOutput(d, FALSE)
OnAgain(d) == SetOutput(d, TRUE)
StaysOff(d) == SetPowerOnDefault(d, FALSE)

LEMMA BuckWrites ==
    ASSUME NEW d \in Devices
    PROVE  /\ /\ Off(d) \in Devices /\ ~Off(d).switch
              /\ Off(d).target = d.target /\ Off(d).s_ini = d.s_ini
           /\ /\ OnAgain(d) \in Devices
              /\ OnAgain(d).target = d.target /\ OnAgain(d).s_ini = d.s_ini
           /\ /\ ClearProtection(d) \in Devices /\ ClearProtection(d).switch = d.switch
              /\ ClearProtection(d).target = d.target
              /\ ClearProtection(d).s_ini = d.s_ini
           /\ /\ StaysOff(d) \in Devices /\ ~StaysOff(d).s_ini
              /\ StaysOff(d).switch = d.switch /\ StaysOff(d).target = d.target
           /\ \A t \in Phases \cup {"Other"} :
                  /\ SetTarget(d, t) \in Devices /\ SetTarget(d, t).target = t
                  /\ SetTarget(d, t).switch = d.switch
                  /\ SetTarget(d, t).s_ini = d.s_ini
<1>1. ClearedCause(d) \in Causes
    BY DEF ClearedCause, Devices, Causes
<1> QED
    BY <1>1 DEF Devices, Off, OnAgain, StaysOff, SetOutput, ClearProtection, SetPowerOnDefault,
                SetTarget

(* Whatever the outcome, a write leaves the buck as it was or as written. *)
LEMMA WriteLands ==
    ASSUME NEW o \in Outcomes, NEW d, Write(o, d)
    PROVE  /\ device' \in {device, d}
           /\ o = "Ok" => device' = d
           /\ "Mute" \notin Outcomes => (o # "Ok" => device' = device)
BY ChargerAssumption DEF Write

(* A boot ends in a readback of an output that is off, or goes on. *)
LEMMA BootGoes ==
    ASSUME Boot, ChargerTypeOK
    PROVE  /\ UNCHANGED svars /\ at \in BootPoints
           /\ attempts' \in 0..BootRetryCount - 1
           /\ \/ at' \in BootPoints
              \/ /\ at = "verify" /\ at' = "poll" /\ UNCHANGED device
                 /\ device.target = "Float" /\ ~On(device)
<1>1. BootRetryCount \in Nat \ {0} /\ attempts \in 0..BootRetryCount - 1
    BY ChargerAssumption DEF ChargerTypeOK
<1>2. BootFails => at' \in BootPoints /\ attempts' \in 0..BootRetryCount - 1
    BY <1>1 DEF BootFails, BootPoints
<1>3. ASSUME NEW here \in BootPoints, NEW next \in BootPoints, NEW d, BootWrite(here, d, next)
      PROVE  /\ UNCHANGED svars /\ at \in BootPoints
             /\ at' \in BootPoints /\ attempts' \in 0..BootRetryCount - 1
    BY <1>1, <1>2, <1>3 DEF BootWrite, GoTo
<1>4. CASE BootOff
    BY <1>3, <1>4 DEF BootOff, BootPoints
<1>5. CASE BootClear
    BY <1>3, <1>5 DEF BootClear, BootPoints
<1>6. CASE BootIni
    BY <1>3, <1>6 DEF BootIni, BootPoints
<1>7. CASE BootProgram
    BY <1>1, <1>2, <1>7 DEF BootProgram, GoTo, BootPoints
<1>8. CASE BootVerify
    BY <1>1, <1>2, <1>8 DEF BootVerify, GoTo, BootPoints
<1>9. CASE BootGiveUp
    BY <1>1, <1>9 DEF BootGiveUp, GoTo, BootPoints
<1> QED
    BY <1>4, <1>5, <1>6, <1>7, <1>8, <1>9 DEF Boot

(* What the boot writes on its way. *)
LEMMA BootWrites ==
    ASSUME Boot, ChargerTypeOK
    PROVE  /\ device' \in Devices
           /\ device'.s_ini => device.s_ini
           /\ at' = "clear" => ~device'.switch
           /\ at' = "program" => ~device'.s_ini
           /\ at' \in {"verify", "poll"} => at \in {"program", "verify"}
           /\ at' \in {"s_ini", "program", "verify", "poll"} =>
                  at \notin {"off", "giveup"} /\ (device'.switch => device.switch)
<1>1. device \in Devices
    BY DEF ChargerTypeOK
<1>2. BootFails => at' \in {"off", "giveup"}
    BY DEF BootFails
<1>3. ASSUME NEW here, NEW next, NEW d, BootWrite(here, d, next)
      PROVE  /\ device' \in {device, d} /\ at = here
             /\ at' \in {"off", "giveup"} \/ (at' = next /\ device' = d)
    <2>1. PICK o \in Outcomes : Write(o, d) /\ IF o = "Ok" THEN GoTo(next) ELSE BootFails
        BY <1>3 DEF BootWrite
    <2> QED
        BY <1>2, <1>3, <2>1, WriteLands DEF BootWrite, GoTo
<1>4. CASE BootOff
    <2>1. BootWrite("off", Off(device), "clear")
        BY <1>4 DEF BootOff, Off
    <2> QED
        BY <1>1, <1>3, <2>1, BuckWrites
<1>5. CASE BootClear
    <2>1. BootWrite("clear", ClearProtection(device), "s_ini")
        BY <1>5 DEF BootClear
    <2> QED
        BY <1>1, <1>3, <2>1, BuckWrites
<1>6. CASE BootIni
    <2>1. BootWrite("s_ini", StaysOff(device), "program")
        BY <1>6 DEF BootIni, StaysOff
    <2> QED
        BY <1>1, <1>3, <2>1, BuckWrites
<1>7. CASE BootProgram
    <2>1. PICK t \in Phases \cup {"Other"} : device' = SetTarget(device, t)
        BY <1>1, <1>7 DEF BootProgram, Devices, Phases
    <2>2. at = "program" /\ at' \in {"off", "giveup", "verify"}
        BY <1>2, <1>7 DEF BootProgram, GoTo
    <2> QED
        BY <1>1, <2>1, <2>2, BuckWrites
<1>8. CASE BootVerify
    <2>1. device' = device /\ at = "verify" /\ at' \in {"off", "giveup", "poll"}
        BY <1>2, <1>8 DEF BootVerify, GoTo
    <2> QED
        BY <1>1, <2>1
<1>9. CASE BootGiveUp
    <2>1. PICK o \in Outcomes : Write(o, Off(device))
        BY <1>9 DEF BootGiveUp, Off
    <2>2. device' \in {device, Off(device)} /\ at' = "off"
        BY <1>9, <2>1, WriteLands DEF BootGiveUp, GoTo
    <2> QED
        BY <1>1, <2>2, BuckWrites
<1> QED
    BY <1>4, <1>5, <1>6, <1>7, <1>8, <1>9 DEF Boot

(* What the buck does by itself: its target and its power-on default stay,   *)
(* and only the latter turns its output on.                                  *)
Weather == Trip \/ Recover \/ PowerCycle \/ Panel

LEMMA WeatherMoves ==
    ASSUME Weather, ChargerTypeOK
    PROVE  /\ UNCHANGED <<svars, at, attempts>> /\ device' \in Devices
           /\ Untouched => /\ device'.target = device.target
                           /\ device'.s_ini = device.s_ini
                           /\ device'.switch => device.switch \/ device.s_ini
<1>1. device \in Devices
    BY DEF ChargerTypeOK
<1>2. CASE Trip
    <2>1. PICK c \in Trips :
              device' = [device EXCEPT !.cause = c, !.switch = @ /\ SelfClearing(c)]
        BY <1>2 DEF Trip
    <2>2. c \in Causes
        BY ChargerAssumption
    <2>3. PICK b \in BOOLEAN : b = (device.switch /\ SelfClearing(c))
        OBVIOUS
    <2>4. device' = [device EXCEPT !.cause = c, !.switch = b]
        BY <2>1, <2>3
    <2> QED
        BY <1>1, <1>2, <2>2, <2>3, <2>4 DEF Trip, Devices
<1>3. CASE Recover
    BY <1>1, <1>3 DEF Recover, Devices, Causes
<1>4. CASE PowerCycle
    BY <1>1, <1>4 DEF PowerCycle, Devices, Causes
<1>5. CASE Panel
    <2>1. \/ device' = OnAgain(device)
          \/ device' = Off(device)
          \/ device' = SetTarget(device, "Other")
        <3>1. CASE device.switch
            <4>1. (~device.switch) = FALSE
                BY <3>1
            <4> QED
                BY <1>5, <4>1 DEF Panel, Off
        <3>2. CASE ~device.switch
            <4>1. (~device.switch) = TRUE
                BY <3>2
            <4> QED
                BY <1>5, <4>1 DEF Panel, OnAgain
        <3> QED
            BY <3>1, <3>2
    <2> QED
        BY <1>1, <1>5, <2>1, BuckWrites DEF Panel, Untouched
<1> QED
    BY <1>2, <1>3, <1>4, <1>5 DEF Weather

-----------------------------------------------------------------------------
(* The invariant of the thread. *)

LEMMA RebootFits ==
    ASSUME Reboot
    PROVE  IInv' /\ TicketAsks' /\ ThreadFits'
<1>1. /\ machine' = NewMachine /\ fault' = "None" /\ inhibit' = "None"
      /\ action' = NoAction /\ at' = "off"
    BY DEF Reboot
<1>2. TypeOK' /\ TicketsAgree'
    BY <1>1, NewMachineIsSound, ActionTypes DEF TypeOK, TicketsAgree, NoAction
<1>3. NoPanic' /\ FaultTellsState'
    BY <1>1, NewMachineIsSound DEF NoPanic, FaultTellsState, InTime, Undefined
<1>4. TicketAsks'
    BY <1>1 DEF TicketAsks, NoAction
<1>5. ThreadFits'
    BY <1>1, NewMachineIsSound DEF ThreadFits, StepDownPoints
<1> QED
    BY <1>2, <1>3, <1>4, <1>5 DEF IInv

LEMMA UnmovedFits ==
    ASSUME ThreadInv, UNCHANGED svars
    PROVE  IInv' /\ TicketAsks'
BY DEF ThreadInv, svars, IInv, TypeOK, NoPanic, FaultTellsState, TicketsAgree, TicketAsks

LEMMA CommitFits ==
    ASSUME ThreadInv, Commit
    PROVE  IInv' /\ TicketAsks'
BY CommitKeeps, CommitTicket DEF ThreadInv, TicketAsks, NoAction

(* One call of the thread that carries out a ticket. *)
LEMMA ApplyGoes ==
    ASSUME Apply, ThreadInv
    PROVE  /\ UNCHANGED svars \/ Commit
           /\ UNCHANGED attempts /\ at \in {"apply"} \cup StepDownPoints
           /\ device' \in Devices /\ device'.s_ini = device.s_ini
           /\ \/ at' = "poll"
              \/ /\ at' \in StepDownPoints /\ UNCHANGED svars
                 /\ action.do = "UpdateVoltage" /\ action.cycle_output
           /\ at' = "lower" => ~device'.switch
<1>1. device \in Devices /\ IInv /\ TicketAsks
    BY DEF ThreadInv, ChargerTypeOK
<1>2. at \in StepDownPoints => action.do = "UpdateVoltage" /\ action.cycle_output
    BY DEF ThreadInv, ThreadFits
<1>3. action.do = "UpdateVoltage" => action.phase \in Phases
    BY <1>1, WritingStates
<1>4. /\ DropTicket => at' = "poll" /\ UNCHANGED svars /\ UNCHANGED attempts
      /\ \A commit \in BOOLEAN : Redeem(commit) => at' = "poll" /\ commit /\ UNCHANGED attempts
    BY DEF DropTicket, Redeem, GoTo
<1>5. ASSUME NEW o \in Outcomes,
             \/ Write(o, OnAgain(device))
             \/ Write(o, Off(device))
             \/ action.do = "UpdateVoltage" /\ Write(o, SetTarget(device, action.phase))
      PROVE  device' \in Devices /\ device'.s_ini = device.s_ini
    <2>1. CASE Write(o, OnAgain(device))
        BY <1>1, <2>1, WriteLands, BuckWrites
    <2>2. CASE Write(o, Off(device))
        BY <1>1, <2>2, WriteLands, BuckWrites
    <2>3. CASE action.do = "UpdateVoltage" /\ Write(o, SetTarget(device, action.phase))
        BY <1>1, <1>3, <2>3, WriteLands, BuckWrites
    <2> QED
        BY <1>5, <2>1, <2>2, <2>3
<1>6. CASE ApplyNone
    BY <1>1, <1>6 DEF ApplyNone, DropTicket, GoTo
<1>7. CASE ApplyEnable
    <2>1. PICK o \in Outcomes : /\ Write(o, OnAgain(device))
                                /\ IF o = "Ok" THEN Redeem(CommitEnable) ELSE DropTicket
        BY <1>7 DEF ApplyEnable, OnAgain
    <2> QED
        BY <1>5, <1>7, <2>1 DEF ApplyEnable, DropTicket, Redeem, GoTo, Commit
<1>8. CASE ApplyDisable
    <2>1. PICK o \in Outcomes : /\ Write(o, Off(device))
                                /\ IF o = "Ok" THEN Redeem(CommitDisable) ELSE DropTicket
        BY <1>8 DEF ApplyDisable, Off
    <2> QED
        BY <1>5, <1>8, <2>1 DEF ApplyDisable, DropTicket, Redeem, GoTo, Commit
<1>9. CASE ApplyStepUp
    BY <1>5, <1>9 DEF ApplyStepUp, DropTicket, Redeem, GoTo, Commit
<1>10. CASE StepDownOff
    <2>1. PICK o \in Outcomes :
              /\ Write(o, Off(device))
              /\ IF o = "Ok" THEN GoTo("lower") /\ UNCHANGED svars ELSE DropTicket
        BY <1>10 DEF StepDownOff, Off
    <2>2. o = "Ok" => ~device'.switch
        BY <1>1, <2>1, WriteLands, BuckWrites
    <2> QED
        BY <1>5, <1>10, <2>1, <2>2 DEF StepDownOff, DropTicket, GoTo, StepDownPoints
<1>11. CASE StepDownLower
    BY <1>2, <1>5, <1>11 DEF StepDownLower, GoTo, StepDownPoints
<1>12. CASE StepDownRestore
    <2>1. \E o \in Outcomes : Write(o, OnAgain(device))
        BY <1>12 DEF StepDownRestore, OnAgain
    <2> QED
        BY <1>5, <1>12, <2>1 DEF StepDownRestore, DropTicket, GoTo, StepDownPoints
<1>13. CASE StepDownEnable
    <2>1. PICK o \in Outcomes : /\ Write(o, OnAgain(device))
                                /\ IF o = "Ok" THEN Redeem(CommitVoltage)
                                   ELSE GoTo("enable again") /\ UNCHANGED svars
        BY <1>13 DEF StepDownEnable, OnAgain
    <2> QED
        BY <1>2, <1>5, <1>13, <2>1 DEF StepDownEnable, Redeem, GoTo, Commit, StepDownPoints
<1>14. CASE StepDownEnableAgain
    <2>1. \E o \in Outcomes : Write(o, OnAgain(device))
        BY <1>14 DEF StepDownEnableAgain, OnAgain
    <2> QED
        BY <1>5, <1>14, <2>1 DEF StepDownEnableAgain, Redeem, GoTo, Commit, StepDownPoints
<1> QED
    BY <1>6, <1>7, <1>8, <1>9, <1>10, <1>11, <1>12, <1>13, <1>14 DEF Apply

LEMMA PollGoes ==
    ASSUME PollRead \/ PollUnread
    PROVE  /\ at = "poll" /\ at' = "apply" /\ UNCHANGED <<device, attempts>>
           /\ \E p, dt : /\ dt \in Elapsed /\ Tick(p, dt)
                         /\ p.buck \in {StatusOf(device), ReadFailed}
<1>1. PICK buck \in {StatusOf(device), ReadFailed} : PollAndTick(buck)
    BY DEF PollRead, PollUnread
<1>2. PICK battery \in Samples, temp \in Temps, dt \in Elapsed :
          Tick(PollOf(buck, battery, temp), dt)
    BY <1>1 DEF PollAndTick
<1>3. PollOf(buck, battery, temp).buck = buck
    BY DEF PollOf
<1> QED
    BY <1>1, <1>2, <1>3 DEF PollAndTick, GoTo

LEMMA ThreadStep ==
    ASSUME ThreadInv, [ChargerNext]_cvars
    PROVE  ThreadInv'
<1>1. CASE Boot
    <2>1. /\ UNCHANGED svars /\ at \in BootPoints
          /\ attempts' \in 0..BootRetryCount - 1 /\ at' \in BootPoints \cup {"poll"}
        BY <1>1, BootGoes DEF ThreadInv
    <2>2. device' \in Devices
        BY <1>1, BootWrites DEF ThreadInv
    <2>3. IInv' /\ TicketAsks'
        BY <2>1, UnmovedFits
    <2>4. ThreadFits'
        BY <2>1 DEF ThreadInv, ThreadFits, svars, BootPoints, StepDownPoints
    <2> QED
        BY <2>1, <2>2, <2>3, <2>4 DEF ThreadInv, ChargerTypeOK, Points, IInv
<1>2. CASE PollRead \/ PollUnread
    <2>1. PICK p, dt : dt \in Elapsed /\ Tick(p, dt)
        BY <1>2, PollGoes
    <2>2. at' = "apply" /\ UNCHANGED <<device, attempts>>
        BY <1>2, PollGoes
    <2>3. IInv'
        BY <2>1, ReconcileKeeps, SuperviseKeeps DEF Tick, ThreadInv
    <2>4. TicketAsks'
        BY <2>1, TickMoves DEF ThreadInv
    <2>5. ThreadFits'
        BY <2>2 DEF ThreadFits, BootPoints, StepDownPoints
    <2> QED
        BY <2>2, <2>3, <2>4, <2>5 DEF ThreadInv, ChargerTypeOK, Points, IInv
<1>3. CASE Apply
    <2>1. IInv' /\ TicketAsks'
        BY <1>3, ApplyGoes, UnmovedFits, CommitFits
    <2>2. /\ UNCHANGED attempts /\ device' \in Devices
          /\ \/ at' = "poll"
             \/ /\ at' \in StepDownPoints /\ UNCHANGED svars
                /\ action.do = "UpdateVoltage" /\ action.cycle_output
        BY <1>3, ApplyGoes
    <2>3. ThreadFits'
        BY <2>2 DEF ThreadFits, BootPoints, StepDownPoints, svars
    <2> QED
        BY <2>1, <2>2, <2>3 DEF ThreadInv, ChargerTypeOK, Points, IInv
<1>4. CASE Reboot
    <2>1. at' = "off" /\ attempts' = 0 /\ device' = device
        BY <1>4 DEF Reboot
    <2>2. 0 \in 0..BootRetryCount - 1
        BY ChargerAssumption
    <2> QED
        BY <1>4, <2>1, <2>2, RebootFits DEF ThreadInv, ChargerTypeOK, Points, BootPoints, IInv
<1>5. CASE Weather
    <2>1. UNCHANGED <<svars, at, attempts>> /\ device' \in Devices
        BY <1>5, WeatherMoves DEF ThreadInv
    <2> QED
        BY <2>1, UnmovedFits DEF ThreadInv, ChargerTypeOK, ThreadFits, svars, IInv
<1>6. CASE UNCHANGED cvars
    <2>1. UNCHANGED svars /\ UNCHANGED <<device, at, attempts>>
        BY <1>6 DEF cvars, svars
    <2> QED
        BY <2>1, UnmovedFits DEF ThreadInv, ChargerTypeOK, ThreadFits, svars, IInv
<1> QED
    BY <1>1, <1>2, <1>3, <1>4, <1>5, <1>6 DEF ChargerNext, Weather

-----------------------------------------------------------------------------
(* The output. *)

LEMMA DarkStep ==
    ASSUME Untouched, ThreadInv, DarkFits, [ChargerNext]_cvars
    PROVE  DarkFits'
<1>1. device \in Devices /\ IInv /\ TicketAsks /\ ChargerTypeOK
    BY DEF ThreadInv, ChargerTypeOK
<1>2. CASE Boot
    <2>1. machine' = machine /\ machine.state = "Boot" /\ at' \in BootPoints \cup {"poll"}
        BY <1>1, <1>2, BootGoes DEF ThreadInv, ThreadFits, svars
    <2>2. at' \in {"program", "verify", "poll"} => ~device'.s_ini
        BY <1>1, <1>2, BootWrites DEF DarkFits
    <2> QED
        BY <2>1, <2>2 DEF DarkFits, LatchedIsDark, BootPoints
<1>3. CASE PollRead \/ PollUnread
    <2>1. PICK p, dt : dt \in Elapsed /\ Tick(p, dt)
        BY <1>3, PollGoes
    <2>2. at = "poll" /\ at' = "apply" /\ device' = device
        BY <1>3, PollGoes
    <2>3. machine'.state = "Latched" => machine.state = "Latched"
        BY <1>1, <2>1, TickMoves DEF Moved, Terminal
    <2> QED
        BY <2>2, <2>3 DEF DarkFits, LatchedIsDark
<1>4. CASE Apply
    <2>1. /\ at \in {"apply"} \cup StepDownPoints /\ device'.s_ini = device.s_ini
          /\ at' = "lower" => ~device'.switch
          /\ UNCHANGED svars \/ Commit
        BY <1>4, ApplyGoes
    <2>2. ~device'.s_ini
        BY <2>1 DEF DarkFits, StepDownPoints
    <2>3. LatchedIsDark'
        <3>1. CASE UNCHANGED svars
            <4>1. SUFFICES ASSUME machine.state = "Latched" PROVE ~device'.switch
                BY <3>1 DEF LatchedIsDark, svars
            <4>2. /\ action.do \notin {"EnableOutput", "UpdateVoltage", "DisableOutput"}
                BY <1>1, <4>1, WritingStates DEF IInv, TicketsAgree, BringingUp, Holding
            <4>3. at \notin StepDownPoints
                BY <4>2 DEF ThreadInv, ThreadFits
            <4>4. ApplyNone
                BY <1>4, <4>2, <4>3 DEF Apply, ApplyEnable, ApplyDisable, ApplyStepUp, StepDownOff,
                    StepDownLower, StepDownRestore, StepDownEnable, StepDownEnableAgain,
                    StepDownPoints
            <4> QED
                BY <4>1, <4>4 DEF ApplyNone, DarkFits, LatchedIsDark
        <3>2. CASE CommitDisable
            <4>1. action.do = "DisableOutput" /\ action'.do # "DisableOutput"
                BY <3>2 DEF CommitDisable, NoAction
            <4>2. at \notin StepDownPoints
                BY <4>1 DEF ThreadInv, ThreadFits
            <4>3. ApplyDisable /\ ~UNCHANGED svars
                BY <1>4, <4>1, <4>2 DEF Apply, ApplyNone, ApplyEnable, ApplyStepUp, StepDownOff,
                    StepDownLower, StepDownRestore, StepDownEnable, StepDownEnableAgain,
                    StepDownPoints, svars
            <4>4. Write("Ok", Off(device))
                BY <4>3 DEF ApplyDisable, DropTicket, Off
            <4>5. device' = Off(device)
                BY <4>4 DEF Write
            <4> QED
                BY <1>1, <4>5, BuckWrites DEF LatchedIsDark
        <3>3. CASE CommitEnable
            BY <1>1, <3>3, EnableMoves DEF LatchedIsDark, Sourcing, Parked
        <3>4. CASE CommitVoltage
            BY <1>1, <3>4, VoltageMoves DEF LatchedIsDark
        <3> QED
            BY <2>1, <3>1, <3>2, <3>3, <3>4 DEF Commit
    <2> QED
        BY <2>1, <2>2, <2>3 DEF DarkFits
<1>5. CASE Reboot
    BY <1>5, NewMachineIsSound DEF Reboot, DarkFits, LatchedIsDark
<1>6. CASE Weather
    <2>1. /\ UNCHANGED <<svars, at>> /\ device'.s_ini = device.s_ini
          /\ device'.switch => device.switch \/ device.s_ini
        BY <1>1, <1>6, WeatherMoves
    <2>2. machine' = machine
        BY <2>1 DEF svars
    <2>3. machine.state = "Latched" => at \notin BootPoints
        BY DEF ThreadInv, ThreadFits
    <2> QED
        BY <2>1, <2>2, <2>3 DEF DarkFits, LatchedIsDark, BootPoints
<1>7. CASE UNCHANGED cvars
    BY <1>7 DEF cvars, DarkFits, LatchedIsDark
<1> QED
    BY <1>2, <1>3, <1>4, <1>5, <1>6, <1>7 DEF ChargerNext, Weather

-----------------------------------------------------------------------------
(* The target. *)

LEMMA TargetStep ==
    ASSUME Answered, ThreadInv, TargetFits, [ChargerNext]_cvars
    PROVE  TargetFits'
<1>1. device \in Devices /\ IInv /\ TicketAsks /\ ChargerTypeOK /\ Untouched
    BY DEF ThreadInv, ChargerTypeOK, Answered
<1>2. CASE Boot
    <2>1. \/ at' \in BootPoints
          \/ at' = "poll" /\ device' = device /\ device.target = "Float"
        BY <1>1, <1>2, BootGoes
    <2>2. machine' = machine /\ machine.state = "Boot"
        BY <1>1, <1>2, BootGoes DEF ThreadInv, ThreadFits, svars
    <2> QED
        BY <2>1, <2>2 DEF TargetFits, BootPoints, SetpointPhase, Terminal
<1>3. CASE PollRead \/ PollUnread
    <2>1. PICK p, dt : dt \in Elapsed /\ Tick(p, dt)
        BY <1>3, PollGoes
    <2>2. at = "poll" /\ at' = "apply" /\ device' = device
        BY <1>3, PollGoes
    <2>3. machine'.state \notin Terminal =>
              /\ machine.state \notin Terminal
              /\ SetpointPhase(machine'.state) = SetpointPhase(machine.state)
        BY <1>1, <2>1, TickMoves DEF Moved, Terminal
    <2> QED
        BY <2>2, <2>3 DEF TargetFits
<1>4. CASE Apply
    <2>1. \A o \in Outcomes : \A d : Write(o, d) => device' = IF o = "Ok" THEN d ELSE device
        BY WriteLands DEF Answered
    <2>2. action.do = "UpdateVoltage" =>
              /\ machine.state \notin Terminal /\ action.phase \in Phases
        BY <1>1, WritingStates DEF Terminal
    <2>3. at \in StepDownPoints => action.do = "UpdateVoltage"
        BY DEF ThreadInv, ThreadFits
    <2>4. ASSUME CommitVoltage, device'.target = action.phase, at' = "poll"
          PROVE  TargetFits'
        BY <1>1, <2>4, VoltageMoves DEF TargetFits
    <2>5. ASSUME DropTicket, device'.target = device.target,
                 at \in {"apply", "restore"}
          PROVE  TargetFits'
        BY <2>5 DEF TargetFits, DropTicket, GoTo, svars
    <2>6. CASE ApplyNone
        BY <2>5, <2>6 DEF ApplyNone
    <2>7. CASE ApplyEnable
        <3>1. PICK o \in Outcomes : /\ Write(o, OnAgain(device))
                                    /\ IF o = "Ok" THEN Redeem(CommitEnable) ELSE DropTicket
            BY <2>7 DEF ApplyEnable, OnAgain
        <3>2. device'.target = device.target
            BY <1>1, <2>1, <3>1, BuckWrites
        <3>3. CASE o = "Ok"
            <4>1. CommitEnable /\ at' = "poll" /\ at = "apply"
                BY <2>7, <3>1, <3>3 DEF ApplyEnable, Redeem, GoTo
            <4>2. /\ machine.state \notin Terminal
                  /\ SetpointPhase(machine'.state) = SetpointPhase(machine.state)
                BY <1>1, <4>1, EnableMoves DEF BringingUp, Holding, Terminal
            <4> QED
                BY <3>2, <4>1, <4>2 DEF TargetFits
        <3> QED
            BY <2>5, <2>7, <3>1, <3>2, <3>3 DEF ApplyEnable
    <2>8. CASE ApplyDisable
        <3>1. PICK o \in Outcomes : /\ Write(o, Off(device))
                                    /\ IF o = "Ok" THEN Redeem(CommitDisable) ELSE DropTicket
            BY <2>8 DEF ApplyDisable, Off
        <3>2. device'.target = device.target
            BY <1>1, <2>1, <3>1, BuckWrites
        <3>3. CASE o = "Ok"
            BY <1>1, <3>1, <3>3, DisableMoves DEF Redeem, GoTo, TargetFits, Terminal
        <3> QED
            BY <2>5, <2>8, <3>1, <3>2, <3>3 DEF ApplyDisable
    <2>9. CASE ApplyStepUp
        <3>1. PICK o \in Outcomes : /\ Write(o, SetTarget(device, action.phase))
                                    /\ IF o = "Ok" THEN Redeem(CommitVoltage) ELSE DropTicket
            BY <2>9 DEF ApplyStepUp
        <3>2. action.phase \in Phases /\ at = "apply"
            BY <2>2, <2>9 DEF ApplyStepUp
        <3>3. device'.target = IF o = "Ok" THEN action.phase ELSE device.target
            BY <1>1, <2>1, <3>1, <3>2, BuckWrites
        <3> QED
            BY <2>4, <2>5, <3>1, <3>2, <3>3 DEF Redeem, GoTo
    <2>10. CASE StepDownOff
        <3>1. PICK o \in Outcomes :
                  /\ Write(o, Off(device))
                  /\ IF o = "Ok" THEN GoTo("lower") /\ UNCHANGED svars ELSE DropTicket
            BY <2>10 DEF StepDownOff, Off
        <3>2. device'.target = device.target /\ at = "apply"
            BY <1>1, <2>1, <2>10, <3>1, BuckWrites DEF StepDownOff
        <3>3. CASE o = "Ok"
            BY <3>1, <3>2, <3>3 DEF TargetFits, GoTo, svars
        <3> QED
            BY <2>5, <3>1, <3>2, <3>3
    <2>11. CASE StepDownLower
        <3>1. PICK o \in Outcomes :
                  /\ Write(o, SetTarget(device, action.phase))
                  /\ GoTo(IF o = "Ok" THEN "enable" ELSE "restore")
            BY <2>11 DEF StepDownLower
        <3>2. action.phase \in Phases /\ at = "lower" /\ UNCHANGED svars
            BY <2>2, <2>3, <2>11 DEF StepDownLower, StepDownPoints
        <3>3. device'.target = IF o = "Ok" THEN action.phase ELSE device.target
            BY <1>1, <2>1, <3>1, <3>2, BuckWrites
        <3> QED
            BY <3>1, <3>2, <3>3 DEF TargetFits, GoTo, svars
    <2>12. CASE StepDownRestore
        <3>1. PICK o \in Outcomes : Write(o, OnAgain(device))
            BY <2>12 DEF StepDownRestore, OnAgain
        <3>2. device'.target = device.target
            BY <1>1, <2>1, <3>1, BuckWrites
        <3> QED
            BY <2>5, <2>12, <3>2 DEF StepDownRestore
    <2>13. CASE StepDownEnable \/ StepDownEnableAgain
        <3>1. PICK o \in Outcomes : Write(o, OnAgain(device))
            BY <2>13 DEF StepDownEnable, StepDownEnableAgain, OnAgain
        <3>2. device'.target = device.target /\ device.target = action.phase
            <4>1. at \in {"enable", "enable again"}
                BY <2>13 DEF StepDownEnable, StepDownEnableAgain
            <4>2. device.target = action.phase
                BY <4>1 DEF TargetFits
            <4>3. device'.target = device.target
                BY <1>1, <2>1, <3>1, BuckWrites
            <4> QED
                BY <4>2, <4>3
        <3>3. \/ CommitVoltage /\ at' = "poll"
              \/ at' = "enable again" /\ UNCHANGED svars
            BY <2>13 DEF StepDownEnable, StepDownEnableAgain, Redeem, GoTo
        <3> QED
            BY <2>4, <3>2, <3>3 DEF TargetFits, svars
    <2> QED
        BY <1>4, <2>6, <2>7, <2>8, <2>9, <2>10, <2>11, <2>12, <2>13 DEF Apply
<1>5. CASE Reboot
    BY <1>5 DEF Reboot, TargetFits
<1>6. CASE Weather
    <2>1. UNCHANGED <<svars, at>> /\ device'.target = device.target
        BY <1>1, <1>6, WeatherMoves
    <2> QED
        BY <2>1 DEF svars, TargetFits
<1>7. CASE UNCHANGED cvars
    BY <1>7 DEF cvars, TargetFits
<1> QED
    BY <1>2, <1>3, <1>4, <1>5, <1>6, <1>7 DEF ChargerNext, Weather

-----------------------------------------------------------------------------
(* A boot that starts from a known buck. *)

LEMMA BootDarkStep ==
    ASSUME KnownBuck, ThreadInv, TargetFits, BootIsDark, NoSelfInflictedLatch,
           [ChargerNext]_cvars
    PROVE  BootIsDark' /\ NoSelfInflictedLatch'
<1>1. device \in Devices /\ IInv /\ TicketAsks /\ ChargerTypeOK /\ Untouched /\ Answered
    BY DEF ThreadInv, ChargerTypeOK, Answered, KnownBuck
<1>2. CASE Boot
    <2>1. machine' = machine /\ machine.state = "Boot" /\ fault' = fault
        BY <1>1, <1>2, BootGoes DEF ThreadInv, ThreadFits, svars
    <2>2. at' \in BootPoints \cup {"poll"}
        BY <1>1, <1>2, BootGoes
    <2>3. BootIsDark'
        BY <1>1, <1>2, <2>1, <2>2, BootWrites DEF BootIsDark, BootPoints
    <2> QED
        BY <2>1, <2>3 DEF NoSelfInflictedLatch
<1>3. CASE PollRead \/ PollUnread
    <2>1. at = "poll" /\ at' = "apply" /\ device' = device
        BY <1>3, PollGoes
    <2>2. PICK p, dt : /\ dt \in Elapsed /\ Tick(p, dt)
                       /\ p.buck \in {StatusOf(device), ReadFailed}
        BY <1>3, PollGoes
    <2>3. machine'.state = "Boot" => machine.state = "Boot"
        BY <1>1, <2>2, TickMoves DEF Moved, Terminal
    <2>4. machine.state \notin Terminal => FitsReadback(p)
        <3>1. p.buck.read => p.buck.target = device.target
            BY <2>2 DEF StatusOf, ReadFailed
        <3> QED
            BY <2>1, <3>1 DEF FitsReadback, TargetFits
    <2>5. machine.state \in Terminal => fault' = fault
        <3>1. machine.state \in Terminal =>
                  ~LostOutput(p) /\ ~OnInPending(p) /\ ~Supervise(p, dt)
            BY DEF LostOutput, OnInPending, Supervise, WentOff, CameOn, Agrees,
                   Sourcing, Parked, BringingUp, Holding, Terminal
        <3> QED
            BY <2>2, <3>1 DEF Tick, RetryDisable, WatchLatched
    <2>6. machine.state = "Boot" => ~p.buck.read \/ ~p.buck.on
        <3>1. machine.state = "Boot" => ~device.switch
            BY <2>1 DEF BootIsDark
        <3>2. machine.state = "Boot" => ~On(device)
            BY <3>1 DEF On
        <3>3. p.buck = StatusOf(device) => (p.buck.on <=> On(device))
            BY DEF StatusOf
        <3>4. p.buck = ReadFailed => ~p.buck.read
            BY DEF ReadFailed
        <3> QED
            BY <2>2, <3>2, <3>3, <3>4
    <2>7. fault' \notin {"SettingsDrift", "OutputOnInPending"}
        BY <1>1, <2>2, <2>4, <2>5, <2>6, TickMoves DEF NoSelfInflictedLatch
    <2> QED
        BY <2>1, <2>3, <2>7 DEF BootIsDark, NoSelfInflictedLatch
<1>4. CASE Apply
    <2>1. /\ at \in {"apply"} \cup StepDownPoints
          /\ at' = "poll" \/ at' \in StepDownPoints
          /\ device'.s_ini = device.s_ini
          /\ UNCHANGED svars \/ Commit
        BY <1>4, ApplyGoes
    <2>2. fault' = fault
        BY <2>1, CommitTicket DEF svars
    <2>3. machine'.state = "Boot" => UNCHANGED svars
        <3>1. Commit => machine'.state # "Boot"
            BY <1>1, EnableMoves, VoltageMoves, DisableMoves DEF Commit, Sourcing, Parked
        <3> QED
            BY <2>1, <3>1
    <2>4. ASSUME machine'.state = "Boot"
          PROVE  ~device'.switch
        <3>1. UNCHANGED svars /\ machine.state = "Boot" /\ ~device.switch
            BY <2>1, <2>3, <2>4 DEF svars, BootIsDark, StepDownPoints
        <3>2. action.do # "UpdateVoltage"
            BY <1>1, <3>1, WritingStates
        <3>3. at \notin StepDownPoints
            BY <3>2 DEF ThreadInv, ThreadFits
        <3>4. ApplyNone \/ ApplyEnable \/ ApplyDisable
            BY <1>4, <3>2, <3>3 DEF Apply, ApplyStepUp, StepDownOff, StepDownLower,
                StepDownRestore, StepDownEnable, StepDownEnableAgain, StepDownPoints
        <3>5. CASE ApplyNone
            BY <3>1, <3>5 DEF ApplyNone
        <3>6. CASE ApplyEnable
            <4>1. PICK o \in Outcomes : /\ Write(o, OnAgain(device))
                                        /\ IF o = "Ok" THEN Redeem(CommitEnable) ELSE DropTicket
                BY <3>6 DEF ApplyEnable, OnAgain
            <4>2. ~CommitEnable
                BY <3>1 DEF CommitEnable, NoAction, svars
            <4>3. o # "Ok"
                BY <4>1, <4>2 DEF Redeem
            <4> QED
                BY <1>1, <3>1, <4>1, <4>3, WriteLands DEF Answered
        <3>7. CASE ApplyDisable
            <4>1. PICK o \in Outcomes : Write(o, Off(device))
                BY <3>7 DEF ApplyDisable, Off
            <4>2. device' \in {device, Off(device)}
                BY <4>1, WriteLands
            <4> QED
                BY <1>1, <3>1, <4>2, BuckWrites
        <3> QED
            BY <3>4, <3>5, <3>6, <3>7
    <2> QED
        BY <2>1, <2>2, <2>4 DEF BootIsDark, NoSelfInflictedLatch
<1>5. CASE Reboot
    BY <1>5 DEF Reboot, BootIsDark, NoSelfInflictedLatch
<1>6. CASE Weather
    <2>1. /\ UNCHANGED <<svars, at>> /\ device'.s_ini = device.s_ini
          /\ device'.switch => device.switch \/ device.s_ini
        BY <1>1, <1>6, WeatherMoves
    <2> QED
        BY <2>1 DEF svars, BootIsDark, NoSelfInflictedLatch
<1>7. CASE UNCHANGED cvars
    BY <1>7 DEF cvars, BootIsDark, NoSelfInflictedLatch
<1> QED
    BY <1>2, <1>3, <1>4, <1>5, <1>6, <1>7 DEF ChargerNext, Weather

-----------------------------------------------------------------------------
(***************************************************************************)
(* The theorems.                                                           *)
(***************************************************************************)

LEMMA ChargerStarts ==
    ASSUME ChargerInit
    PROVE  /\ ThreadInv /\ DarkFits /\ TargetFits /\ NoSelfInflictedLatch
           /\ KnownBuck => BootIsDark
<1>1. /\ machine = NewMachine /\ fault = "None" /\ inhibit = "None" /\ action = NoAction
      /\ at = "off" /\ attempts = 0 /\ device \in Devices
      /\ device.s_ini \in PowerOnDefaults
    BY ChargerAssumption DEF ChargerInit, Init, Devices, Causes
<1>2. TypeOK /\ TicketsAgree
    BY <1>1, NewMachineIsSound, ActionTypes DEF TypeOK, TicketsAgree, NoAction
<1>3. NoPanic /\ FaultTellsState
    BY <1>1, NewMachineIsSound DEF NoPanic, FaultTellsState, InTime, Undefined
<1>4. TicketAsks /\ ThreadFits
    BY <1>1, NewMachineIsSound DEF TicketAsks, NoAction, ThreadFits, StepDownPoints
<1>5. ChargerTypeOK
    BY <1>1, <1>2, ChargerAssumption DEF ChargerTypeOK, Points, BootPoints
<1>6. DarkFits /\ TargetFits
    BY <1>1, NewMachineIsSound DEF DarkFits, TargetFits, LatchedIsDark
<1>7. NoSelfInflictedLatch
    BY <1>1 DEF NoSelfInflictedLatch
<1>8. KnownBuck => BootIsDark
    <2>1. device.s_ini \in BOOLEAN
        BY <1>1 DEF Devices
    <2> QED
        BY <1>1, <2>1 DEF KnownBuck, BootIsDark
<1> QED
    BY <1>2, <1>3, <1>4, <1>5, <1>6, <1>7, <1>8 DEF ThreadInv, IInv

(* The supervisor's invariant survives its composition with the thread, the  *)
(* buck and the reboots, and the thread is where its ticket says (xy.rs,     *)
(* run, apply_action).                                                       *)
THEOREM ThreadInductive == ChargerSpec => []ThreadInv
BY ChargerStarts, ThreadStep, PTL DEF ChargerSpec

(* Every variable keeps its type, and a boot its count of attempts.          *)
THEOREM ChargerTypes == ChargerSpec => []ChargerTypeOK
<1>1. ThreadInv => ChargerTypeOK
    BY DEF ThreadInv
<1> QED
    BY <1>1, ThreadInductive, PTL

(* In the whole charger too, whatever the link loses and the buck does, the   *)
(* supervisor only goes down the list of its promise until a reboot starts it *)
(* over: no failed write, dropped ticket or boot of the buck takes back a     *)
(* park or a latch (xy.rs, run, apply_action).                                *)
KeepsPromiseUntilReboot ==
    /\ Promise!Init
    /\ [][Promise!Next \/ Reboot]_<<StageOf(machine.state), fault, AskOf(action)>>

(* The charger as a whole implements the promise of its supervisor, up to     *)
(* reboots: the thread only ticks it and redeems its tickets, and everything  *)
(* else leaves it alone (xy.rs, run, apply_action).                           *)
THEOREM ChargerImplements == ChargerSpec => KeepsPromiseUntilReboot
<1>1. ChargerInit => Promise!Init
    BY PromiseStarts DEF ChargerInit
<1>2. ThreadInv /\ [ChargerNext]_cvars =>
      [Promise!Next \/ Reboot]_<<StageOf(machine.state), fault, AskOf(action)>>
    <2> SUFFICES ASSUME ThreadInv, [ChargerNext]_cvars
                 PROVE  \/ Promise!Next \/ Reboot
                        \/ UNCHANGED <<StageOf(machine.state), fault, AskOf(action)>>
        OBVIOUS
    <2>1. UNCHANGED svars => UNCHANGED <<StageOf(machine.state), fault, AskOf(action)>>
        BY DEF svars
    <2>2. CASE Boot
        BY <2>1, <2>2, BootGoes DEF ThreadInv
    <2>3. CASE PollRead \/ PollUnread
        <3>1. \E p, dt : dt \in Elapsed /\ Tick(p, dt)
            BY <2>3, PollGoes
        <3> QED
            BY <3>1, PromiseStep DEF ThreadInv
    <2>4. CASE Apply
        <3>1. UNCHANGED svars \/ Commit
            BY <2>4, ApplyGoes
        <3> QED
            BY <2>1, <3>1, PromiseStep DEF ThreadInv
    <2>5. CASE Weather
        BY <2>1, <2>5, WeatherMoves DEF ThreadInv
    <2>6. CASE UNCHANGED cvars
        BY <2>1, <2>6 DEF cvars, svars
    <2> QED
        BY <2>2, <2>3, <2>4, <2>5, <2>6 DEF ChargerNext, Weather
<1> QED
    BY <1>1, <1>2, ThreadInductive, PTL DEF ChargerSpec, KeepsPromiseUntilReboot

(* A latched unit is dark and stays dark, whatever is lost on the way and     *)
(* whatever the buck does by itself (reconcile, apply_action).               *)
THEOREM LatchStaysDark == Untouched => (ChargerSpec => []LatchedIsDark)
<1> SUFFICES ASSUME Untouched PROVE ChargerSpec => []LatchedIsDark
    OBVIOUS
<1>1. ThreadInv /\ DarkFits /\ [ChargerNext]_cvars => DarkFits'
    BY DarkStep
<1>2. ChargerInit => DarkFits
    BY ChargerStarts
<1>3. DarkFits => LatchedIsDark
    BY DEF DarkFits
<1> QED
    BY <1>1, <1>2, <1>3, ThreadInductive, PTL DEF ChargerSpec

(* V_SET is lowered on a dark output only, in the step-down and in the live  *)
(* write that must never be one (voltage_writer.rs, update_voltage_for).     *)
THEOREM StepDownStaysDark == Untouched => (ChargerSpec => StepDownIsDark)
<1> SUFFICES ASSUME Untouched PROVE ChargerSpec => StepDownIsDark
    OBVIOUS
<1>1. ThreadInv /\ DarkFits /\ [ChargerNext]_cvars => DarkFits'
    BY DarkStep
<1>2. ChargerInit => DarkFits
    BY ChargerStarts
<1>3. ThreadInv /\ DarkFits /\ [ChargerNext]_cvars =>
          [(at \notin BootPoints /\ device'.target = "Float" /\ device.target # "Float")
              => ~On(device)]_cvars
    <2> SUFFICES ASSUME ThreadInv, DarkFits, ChargerNext,
                        at \notin BootPoints, device'.target = "Float", device.target # "Float"
                 PROVE  ~On(device)
        BY DEF cvars
    <2>1. device \in Devices /\ IInv /\ TicketAsks /\ ChargerTypeOK
        BY DEF ThreadInv, ChargerTypeOK
    <2>2. ~Boot /\ ~(PollRead \/ PollUnread) /\ ~Reboot /\ ~Weather
        BY <2>1, BootGoes, PollGoes, WeatherMoves DEF Reboot
    <2>3. Apply
        BY <2>2 DEF ChargerNext, Weather
    <2>4. ASSUME NEW o \in Outcomes,
                 Write(o, OnAgain(device)) \/ Write(o, Off(device))
          PROVE  FALSE
        BY <2>1, <2>4, WriteLands, BuckWrites
    <2>5. ~ApplyNone
        BY DEF ApplyNone
    <2>6. ~ApplyEnable /\ ~StepDownRestore /\ ~StepDownEnable /\ ~StepDownEnableAgain
        BY <2>4 DEF ApplyEnable, StepDownRestore, StepDownEnable, StepDownEnableAgain, OnAgain
    <2>7. ~ApplyDisable /\ ~StepDownOff
        BY <2>4 DEF ApplyDisable, StepDownOff, Off
    <2>8. CASE ApplyStepUp
        <3>1. machine.state = "ToAbsorb" /\ action.phase = "Absorb"
            BY <2>1, <2>8, WritingStates DEF ApplyStepUp, RetargetTo
        <3>2. device' \in {device, SetTarget(device, "Absorb")}
            BY <2>8, <3>1, WriteLands DEF ApplyStepUp
        <3> QED
            BY <2>1, <3>2, BuckWrites DEF Phases
    <2>9. CASE StepDownLower
        BY <2>9 DEF StepDownLower, DarkFits, On
    <2> QED
        BY <2>3, <2>5, <2>6, <2>7, <2>8, <2>9 DEF Apply
<1> QED
    BY <1>1, <1>2, <1>3, ThreadInductive, PTL DEF ChargerSpec, StepDownIsDark

(* Between two iterations the buck holds the target the state names, however *)
(* many writes of a step-down are lost (apply_update_voltage, setpoint_phase). *)
THEOREM TargetIsHeld == Answered => (ChargerSpec => []DeviceHoldsTarget)
<1> SUFFICES ASSUME Answered PROVE ChargerSpec => []DeviceHoldsTarget
    OBVIOUS
<1>1. ThreadInv /\ TargetFits /\ [ChargerNext]_cvars => TargetFits'
    BY TargetStep
<1>2. ChargerInit => TargetFits
    BY ChargerStarts
<1>3. TargetFits => DeviceHoldsTarget
    BY DEF TargetFits, DeviceHoldsTarget, Supervising
<1> QED
    BY <1>1, <1>2, <1>3, ThreadInductive, PTL DEF ChargerSpec

(* Only a tick brings the thread to its write, with the ticket it handed out. *)
LEMMA AsksStep ==
    ASSUME ThreadInv, AsksFits, [ChargerNext]_cvars
    PROVE  AsksFits'
<1>1. CASE Boot
    <2>1. at' \in BootPoints \cup {"poll"}
        BY <1>1, BootGoes DEF ThreadInv
    <2> QED
        BY <2>1 DEF AsksFits, BootPoints
<1>2. CASE PollRead \/ PollUnread
    <2>1. PICK p, dt : dt \in Elapsed /\ Tick(p, dt)
        BY <1>2, PollGoes
    <2>2. Asks'
        BY <2>1, TickAsks DEF ThreadInv
    <2> QED
        BY <2>2 DEF AsksFits
<1>3. CASE Apply
    <2>1. at' \in {"poll"} \cup StepDownPoints
        BY <1>3, ApplyGoes
    <2> QED
        BY <2>1 DEF AsksFits, StepDownPoints
<1>4. CASE Reboot
    BY <1>4 DEF Reboot, AsksFits
<1>5. CASE Weather
    <2>1. UNCHANGED <<svars, at>>
        BY <1>5, WeatherMoves DEF ThreadInv
    <2> QED
        BY <2>1 DEF AsksFits, Asks, svars
<1>6. CASE UNCHANGED cvars
    BY <1>6 DEF cvars, AsksFits, Asks
<1> QED
    BY <1>1, <1>2, <1>3, <1>4, <1>5, <1>6 DEF ChargerNext, Weather

(* Once a fault has ended the charge, the pack is at the absorb target only   *)
(* while the write that takes it down is outstanding; every iteration asks    *)
(* for that write, but for a park that waits for a battery sample (on_fault,  *)
(* park, the re-emission in regulate, reconcile of a terminal state).         *)
THEOREM FaultsEndTheCharge == Answered => (ChargerSpec => []FaultEndsCharge)
<1> SUFFICES ASSUME Answered PROVE ChargerSpec => []FaultEndsCharge
    OBVIOUS
<1>1. ThreadInv /\ AsksFits /\ [ChargerNext]_cvars => AsksFits'
    BY AsksStep
<1>2. ChargerInit => AsksFits
    BY DEF ChargerInit, AsksFits
<1>3. ThreadInv /\ AsksFits /\ LatchedIsDark /\ DeviceHoldsTarget => FaultEndsCharge
    <2> SUFFICES ASSUME ThreadInv, AsksFits, LatchedIsDark, DeviceHoldsTarget,
                        fault # "None", Supervising, On(device), device.target = "Absorb"
                 PROVE  \/ /\ machine.state = "ToParked"
                           /\ at = "apply" =>
                                  action.do = "UpdateVoltage" \/ inhibit = "NoBatterySample"
                        \/ /\ machine.state = "Tripping"
                           /\ at = "apply" => action.do = "DisableOutput"
        BY DEF FaultEndsCharge
    <2>1. machine.state \in States /\ machine.state \notin Charging
        BY DEF ThreadInv, IInv, NoPanic, FaultTellsState
    <2>2. machine.state \in {"ToParked", "Parked", "HoldParked", "Tripping", "Latched"}
        BY <2>1 DEF Charging, Parked, Terminal
    <2>3. machine.state # "Latched"
        BY DEF LatchedIsDark, On
    <2>4. machine.state \notin {"Parked", "HoldParked"}
        BY <2>1 DEF DeviceHoldsTarget, SetpointPhase, Terminal
    <2>5. machine.state \in {"ToParked", "Tripping"}
        BY <2>2, <2>3, <2>4
    <2> QED
        BY <2>5 DEF AsksFits, Asks
<1>4. Untouched
    BY DEF Answered
<1> QED
    BY <1>1, <1>2, <1>3, <1>4, ThreadInductive, LatchStaysDark, TargetIsHeld, PTL
       DEF ChargerSpec

(* The firmware never latches on its own doing: neither a lost write nor a   *)
(* protection nor a reboot makes it blame the setpoint or the output         *)
(* (gauntlet check 2, reconcile).                                            *)
THEOREM NothingSelfInflicted == KnownBuck => (ChargerSpec => []NoSelfInflictedLatch)
<1> SUFFICES ASSUME KnownBuck PROVE ChargerSpec => []NoSelfInflictedLatch
    OBVIOUS
<1>1. ThreadInv /\ TargetFits /\ [ChargerNext]_cvars => TargetFits'
    BY TargetStep DEF KnownBuck
<1>2. ThreadInv /\ TargetFits /\ BootIsDark /\ NoSelfInflictedLatch /\ [ChargerNext]_cvars
          => BootIsDark' /\ NoSelfInflictedLatch'
    BY BootDarkStep
<1>3. ChargerInit => TargetFits /\ BootIsDark /\ NoSelfInflictedLatch
    BY ChargerStarts
<1> QED
    BY <1>1, <1>2, <1>3, ThreadInductive, PTL DEF ChargerSpec
=============================================================================
