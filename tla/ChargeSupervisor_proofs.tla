----------------------- MODULE ChargeSupervisor_proofs -----------------------
(***************************************************************************)
(* Theorems about the charge supervisor, for every profile, window, poll   *)
(* result and elapsed time the assumptions of ChargeSupervisor allow.      *)
(*                                                                         *)
(* The inductive invariant is IInv: the type invariant, the absence of     *)
(* panics, the agreement of the ticket with the state, and the story the   *)
(* fault tells about the state.  None of the last three is inductive by    *)
(* itself: a commit panics unless the ticket agrees, the ticket agrees     *)
(* only because a fault is never forgotten, and a tick keeps the fault     *)
(* only in states that are no longer charging.                             *)
(***************************************************************************)
EXTENDS ChargeSupervisor, SequenceTheorems, TLAPS

IInv == TypeOK /\ NoPanic /\ FaultTellsState /\ TicketsAgree

-----------------------------------------------------------------------------
(***************************************************************************)
(* The table.                                                              *)
(***************************************************************************)

(* A sourcing state that is not parked can park, and lands parked. *)
LEMMA ParkLandsParked ==
    ASSUME NEW s \in Sourcing \ Parked
    PROVE  After(s, "Park") \in Parked
BY DEF After, ParkOf, Sourcing, Parked

(* Every state but the two terminal ones can trip. *)
LEMMA FaultTrips ==
    ASSUME NEW s \in States \ Terminal
    PROVE  After(s, "Fault") = "Tripping"
BY DEF After

(* A hold remembers what it was taken from: its target, and whether charging *)
(* was over.                                                                 *)
LEMMA HoldRemembers ==
    ASSUME NEW s \in Sourcing, After(s, "SelfDisabled") # Undefined
    PROVE  /\ After(s, "SelfDisabled") \in Holding
           /\ After(s, "SelfDisabled") \in Charging <=> s \in Charging
           /\ SetpointPhase(After(s, "SelfDisabled")) = SetpointPhase(s)
BY DEF After, HoldOf, Holding, Charging, States, Sourcing, Parked, BringingUp,
       Terminal, SetpointPhase, Undefined

(* And it gives it back. *)
LEMMA ResumeRemembers ==
    ASSUME NEW s \in Holding
    PROVE  /\ After(s, "SelfEnabled") \in Sourcing
           /\ After(s, "SelfEnabled") \in Charging <=> s \in Charging
           /\ SetpointPhase(After(s, "SelfEnabled")) = SetpointPhase(s)
BY DEF After, ResumeOf, Holding, Charging, States, Sourcing, Parked, BringingUp,
       Terminal, SetpointPhase, Undefined

(* The entries a move logs are entries of the log. *)
LEMMA LoggedType ==
    ASSUME NEW s, NEW t
    PROVE  LoggedAs(s, t) \in Seq(ChargeTransitions)
<1>1. \A e \in ChargeTransitions : <<e>> \in Seq(ChargeTransitions)
    OBVIOUS
<1>2. << >> \in Seq(ChargeTransitions)
    BY EmptySeq
<1>3. LoggedAs(s, t) = << >> \/ \E e \in ChargeTransitions : LoggedAs(s, t) = <<e>>
    BY DEF LoggedAs, ChargeTransitions
<1> QED
    BY <1>1, <1>2, <1>3

-----------------------------------------------------------------------------
(***************************************************************************)
(* Windows and moves.                                                      *)
(***************************************************************************)

(* A window never leaves the range of a Duration. *)
LEMMA WindowType ==
    ASSUME NEW c \in 0..DurationMax, NEW cond, NEW dt \in Elapsed
    PROVE  /\ Stepped(c, cond, dt) \in 0..DurationMax
           /\ Leaked(c, cond, dt) \in 0..DurationMax
           /\ Capped(c + dt) \in 0..DurationMax
BY WindowAssumption DEF Stepped, Leaked, Capped

LEMMA PushType ==
    ASSUME NEW log \in Seq(ChargeTransitions), NEW entries \in Seq(ChargeTransitions)
    PROVE  Push(log, entries) \in Seq(ChargeTransitions)
<1>1. CASE entries # << >> /\ Len(log) = TransitionBuffer
    <2>1. log # << >>
        BY <1>1, BudgetAssumption, EmptySeq
    <2>2. Tail(log) \in Seq(ChargeTransitions)
        BY <2>1, HeadTailProperties
    <2> QED
        BY <1>1, <2>2, ConcatProperties DEF Push
<1>2. CASE ~(entries # << >> /\ Len(log) = TransitionBuffer)
    BY <1>2, ConcatProperties DEF Push
<1> QED
    BY <1>1, <1>2

(* A move to a state of the table, or into a panic, keeps the machine typed. *)
LEMMA StepToType ==
    ASSUME NEW m \in Machines, NEW to \in States \cup {Undefined}
    PROVE  /\ StepTo(m, to) \in Machines
           /\ StepTo(m, to).state = to
<1>1. ClockAfterMove(m.clock, to) \in [Clocks -> 0..DurationMax]
    BY WindowAssumption DEF ClockAfterMove, Machines
<1>2. HoldsAfterMove(m.holds, to) \in 0..255
    <2>1. m.holds \in 0..255
        BY DEF Machines
    <2> QED
        BY <2>1 DEF HoldsAfterMove
<1>3. (IF to \in Holding THEN 0 ELSE m.since_last) \in 0..DurationMax
    BY WindowAssumption DEF Machines
<1>4. Push(m.transitions, LoggedAs(m.state, to)) \in Seq(ChargeTransitions)
    BY LoggedType, PushType DEF Machines
<1> QED
    BY <1>1, <1>2, <1>3, <1>4 DEF StepTo, Machines

(* The two leaky windows have not run out: no charge cycle is overdue. *)
InTime(m) == m.clock["exit"] < ExitDebounce /\ m.clock["absorb"] < MaxAbsorb

(* A move starts them over, or leaves them alone on the way to a latch. *)
LEMMA StepToInTime ==
    ASSUME NEW m \in Machines, NEW to, InTime(m) \/ to \notin Terminal
    PROVE  InTime(StepTo(m, to))
<1>1. /\ "exit" \in Clocks /\ "absorb" \in Clocks
      /\ ExitDebounce \in Nat \ {0} /\ MaxAbsorb \in Nat \ {0}
    BY WindowAssumption DEF Clocks, Windows
<1>2. StepTo(m, to).clock = ClockAfterMove(m.clock, to)
    BY DEF StepTo
<1> QED
    BY <1>1, <1>2 DEF InTime, ClockAfterMove

(* A clock that stays in range leaves the machine typed. *)
LEMMA ClockUpdate ==
    ASSUME NEW m \in Machines, NEW clock \in [Clocks -> 0..DurationMax]
    PROVE  /\ [m EXCEPT !.clock = clock] \in Machines
           /\ [m EXCEPT !.clock = clock].state = m.state
           /\ [m EXCEPT !.clock = clock].clock = clock
BY DEF Machines

LEMMA GauntletClockType ==
    ASSUME NEW m \in Machines, NEW p, NEW dt \in Elapsed
    PROVE  /\ GauntletClock(m, p, dt) \in [Clocks -> 0..DurationMax]
           /\ GauntletClock(m, p, dt)["exit"] = m.clock["exit"]
           /\ GauntletClock(m, p, dt)["absorb"] = m.clock["absorb"]
<1>1. m.clock \in [Clocks -> 0..DurationMax]
    BY DEF Machines
<1>2. \A k \in Clocks : \A cond : Stepped(m.clock[k], cond, dt) \in 0..DurationMax
    BY <1>1, WindowType
<1> QED
    BY <1>1, <1>2 DEF GauntletClock, Clocks

-----------------------------------------------------------------------------
(***************************************************************************)
(* The steps of a tick.                                                    *)
(***************************************************************************)

LEMMA ActionTypes ==
    /\ NoAction \in Actions
    /\ \A resume \in BOOLEAN : EnableOutput(resume) \in Actions
    /\ \A reason \in FaultReasons : DisableOutput(reason) \in Actions
    /\ \A s : \A next \in Phases : UpdateVoltage(s, next) \in Actions
<1>1. NoAction \in Actions
    BY DEF Actions
<1>2. \A resume \in BOOLEAN : EnableOutput(resume) \in Actions
    BY DEF Actions
<1>3. \A reason \in FaultReasons : DisableOutput(reason) \in Actions
    BY DEF Actions
<1>4. ASSUME NEW s, NEW next \in Phases
      PROVE  UpdateVoltage(s, next) \in Actions
    <2>1. UpdateVoltage(s, next)
          \in [do : {"UpdateVoltage"}, phase : Phases, cycle_output : BOOLEAN]
        BY DEF UpdateVoltage
    <2> QED
        BY <2>1 DEF Actions
<1> QED
    BY <1>1, <1>2, <1>3, <1>4

(* Raising a fault, from any state that is not terminal, in which a fault    *)
(* that parks was raised by a sourcing buck, and no leaky window is overdue  *)
(* unless the park is what ends it.                                          *)
LEMMA OnFaultKeeps ==
    ASSUME NEW m \in Machines, NEW reason \in FaultReasons,
           m.state \in States \ Terminal,
           Parks(m, reason) => m.state \in Sourcing,
           InTime(m) \/ Parks(m, reason),
           machine.state \in States \ Terminal,
           m.state \in Charging <=> machine.state \in Charging,
           OnFault(m, reason)
    PROVE  IInv' /\ Promise!Next
<1>1. /\ fault' = reason /\ reason # "None" /\ inhibit' = "None"
    BY DEF OnFault, FaultReasons, ParkFaults, WaitingFaults
<1>2. CASE Parks(m, reason)
    <2> DEFINE to == After(m.state, "Park")
    <2>1. to \in Parked
        BY <1>2, ParkLandsParked DEF Parks
    <2>2. /\ machine' = StepTo(m, to)
          /\ action' = IF RetargetTo(to) # NoPhase
                       THEN UpdateVoltage(to, RetargetTo(to)) ELSE NoAction
        BY <1>2 DEF OnFault, Step, StepTo
    <2>3. to \in States \ Terminal /\ to \notin Charging
        BY <2>1 DEF Parked, States, Sourcing, Terminal, Charging
    <2>4. machine' \in Machines /\ machine'.state = to /\ InTime(machine')
        BY <2>2, <2>3, StepToType, StepToInTime
    <2>5. RetargetTo(to) # NoPhase => RetargetTo(to) \in Phases
        BY DEF RetargetTo, Phases, NoPhase
    <2>6. action' \in Actions
        BY <2>2, <2>5, ActionTypes
    <2>7. TicketsAgree'
        BY <2>2, <2>4 DEF TicketsAgree, UpdateVoltage, NoAction
    <2>8. IInv'
        BY <1>1, <2>3, <2>4, <2>6, <2>7
        DEF IInv, TypeOK, NoPanic, FaultTellsState, InTime, Undefined
    <2>9. StageOf(machine.state) = "charging" /\ reason \in ParkFaults
        BY <1>2 DEF Parks, StageOf, Charging, States, Sourcing, Terminal, BringingUp, Holding
    <2>10. StageOf(machine'.state) = "parked"
        BY <2>3, <2>4 DEF StageOf
    <2>11. AskOf(action') \in {"None", "Lower"}
        BY <2>1, <2>2 DEF Parked, RetargetTo, UpdateVoltage, NoAction, AskOf, NoPhase
    <2> QED
        BY <1>1, <2>8, <2>9, <2>10, <2>11 DEF Promise!Next, Promise!Park
<1>3. CASE ~Parks(m, reason)
    <2>1. machine' = StepTo(m, "Tripping") /\ action' = DisableOutput(reason)
        BY <1>3, FaultTrips DEF OnFault, Step
    <2>2. "Tripping" \in States /\ "Tripping" \in Terminal /\ "Tripping" \notin Charging
        BY DEF States, Terminal, Charging
    <2>3. machine' \in Machines /\ machine'.state = "Tripping" /\ InTime(machine')
        BY <1>3, <2>1, <2>2, StepToType, StepToInTime
    <2>4. action' \in Actions /\ TicketsAgree'
        BY <1>1, <2>1, <2>3, ActionTypes DEF TicketsAgree, DisableOutput
    <2>5. IInv'
        BY <1>1, <2>2, <2>3, <2>4
        DEF IInv, TypeOK, NoPanic, FaultTellsState, InTime, Undefined
    <2>6. StageOf(machine.state) # "dark" /\ StageOf(machine'.state) = "dark"
        BY <2>2, <2>3 DEF StageOf
    <2>7. AskOf(action') = "Disable"
        BY <2>1 DEF AskOf, DisableOutput
    <2> QED
        BY <1>1, <2>5, <2>6, <2>7 DEF Promise!Next, Promise!Latch
<1> QED
    BY <1>2, <1>3

LEMMA QuietTimerType ==
    ASSUME NEW m \in Machines, NEW dt \in Elapsed
    PROVE  /\ QuietTimer(m, dt) \in Machines
           /\ QuietTimer(m, dt).state = m.state
           /\ QuietTimer(m, dt).clock = m.clock
<1>1. m.since_last \in 0..DurationMax /\ m.holds \in 0..255
    BY DEF Machines
<1>2. Capped(m.since_last + dt) \in 0..DurationMax
    BY <1>1, WindowType
<1>3. (IF Capped(m.since_last + dt) > FlapWindow THEN 0 ELSE m.holds) \in 0..255
    BY <1>1
<1> QED
    BY <1>2, <1>3 DEF QuietTimer, Machines

(* Coming to terms with the output: the machine the gauntlet starts from.    *)
LEMMA ReconciledKeeps ==
    ASSUME IInv, NEW p, Agrees(p), NEW dt \in Elapsed
    PROVE  LET m == QuietTimer(Reconciled(Drained, p), dt)
           IN  /\ m \in Machines
               /\ m.state \in States \ Terminal
               /\ m.state \in Charging <=> machine.state \in Charging
               /\ InTime(m)
<1> DEFINE r == Reconciled(Drained, p)
<1>1. /\ Drained \in Machines
      /\ Drained.state = machine.state
      /\ Drained.clock = machine.clock
    BY EmptySeq DEF Drained, IInv, TypeOK, Machines
<1>2. machine.state \in States \ Terminal /\ InTime(Drained)
    BY <1>1 DEF Agrees, IInv, NoPanic, InTime
<1>3. /\ r \in Machines
      /\ r.state \in States \ Terminal
      /\ r.state \in Charging <=> machine.state \in Charging
      /\ InTime(r)
    <2>1. CASE WentOff(machine.state, p)
        <3> DEFINE to == After(machine.state, "SelfDisabled")
        <3>1. machine.state \in Sourcing /\ to # Undefined
            BY <2>1 DEF WentOff, Agrees, CanHold
        <3>2. to \in Holding /\ (to \in Charging <=> machine.state \in Charging)
            BY <3>1, HoldRemembers
        <3>3. to \in States \ Terminal
            BY <3>2 DEF Holding, States, BringingUp, Terminal
        <3>4. r = StepTo(Drained, to)
            BY <1>1, <2>1 DEF Reconciled, Step
        <3> QED
            BY <1>1, <3>2, <3>3, <3>4, StepToType, StepToInTime
    <2>2. CASE ~WentOff(machine.state, p) /\ CameOn(machine.state, p)
        <3> DEFINE to == After(machine.state, "SelfEnabled")
        <3>1. machine.state \in Holding
            BY <2>2 DEF Agrees
        <3>2. to \in Sourcing /\ (to \in Charging <=> machine.state \in Charging)
            BY <3>1, ResumeRemembers
        <3>3. to \in States \ Terminal
            BY <3>2 DEF Sourcing, Parked, States, Terminal
        <3>4. r = StepTo(Drained, to)
            BY <1>1, <2>2 DEF Reconciled, Step
        <3> QED
            BY <1>1, <3>2, <3>3, <3>4, StepToType, StepToInTime
    <2>3. CASE ~WentOff(machine.state, p) /\ ~CameOn(machine.state, p)
        BY <1>1, <1>2, <2>3 DEF Reconciled
    <2> QED
        BY <2>1, <2>2, <2>3
<1>4. /\ QuietTimer(r, dt) \in Machines
      /\ QuietTimer(r, dt).state = r.state
      /\ QuietTimer(r, dt).clock = r.clock
    BY <1>3, QuietTimerType
<1> QED
    BY <1>3, <1>4 DEF InTime

(* What the gauntlet can answer. *)
LEMMA VerdictType ==
    ASSUME NEW m \in Machines, NEW p, NEW dt, m.state \in States \ Terminal
    PROVE  LET v == Verdict(m, p, dt)
           IN  \/ v = Clear
               \/ /\ v.kind = "Inhibit"
                  /\ v.reason \in InhibitReasons
               \/ /\ v.kind = "Latch"
                  /\ v.reason \in FaultReasons
                  /\ v.reason \in ParkFaults => m.state \in Sourcing
<1>1. \A reason \in WaitingFaults :
         LET v == FaultOrInhibit(m, reason)
         IN  \/ v.kind = "Inhibit" /\ v.reason \in InhibitReasons
             \/ /\ v.kind = "Latch" /\ v.reason \in FaultReasons
                /\ v.reason \notin ParkFaults
    BY DEF FaultOrInhibit, Latch, Inhibit, Inhibited, WaitingFaults, InhibitReasons,
           FaultReasons, ParkFaults
<1>2. {"SettingsDrift", "ModbusUnhealthy", "BatterySensorStale", "Overvoltage",
       "PackTempStale", "PackTooCold", "PackTooHot"} \subseteq WaitingFaults
    BY DEF WaitingFaults
<1>3. /\ "ProtectionFlapping" \in FaultReasons \ ParkFaults
      /\ "ChargeOvercurrent" \in FaultReasons
      /\ {"NoBatterySample", "ModbusUnhealthy", "BuckProtection"} \subseteq InhibitReasons
    BY DEF FaultReasons, ParkFaults, WaitingFaults, InhibitReasons
<1>4. Overcurrent(m, p, dt) => m.state \in Sourcing
    BY DEF Overcurrent
<1> QED
    BY <1>1, <1>2, <1>3, <1>4 DEF Verdict, Latch, Inhibit

(* A tick that raises nothing: the machine may have moved within the charge, *)
(* and what it asks for is nothing or the V_SET write it is waiting for.     *)
LEMMA ServingKeeps ==
    ASSUME IInv, NEW n \in Machines, n.state \in States \ Terminal,
           machine.state \in States \ Terminal,
           n.state \in Charging <=> machine.state \in Charging, InTime(n),
           machine' = n, fault' = fault, inhibit' \in InhibitReasons \cup {"None"},
           \/ action' = NoAction
           \/ n.state \in BringingUp /\ \E r \in BOOLEAN : action' = EnableOutput(r)
           \/ /\ RetargetTo(n.state) # NoPhase
              /\ action' = UpdateVoltage(n.state, RetargetTo(n.state))
    PROVE  IInv' /\ Promise!Next
<1>1. RetargetTo(n.state) # NoPhase => RetargetTo(n.state) \in Phases
    BY DEF RetargetTo, Phases, NoPhase
<1>2. action' \in Actions
    BY <1>1, ActionTypes
<1>3. TicketsAgree'
    BY DEF TicketsAgree, NoAction, EnableOutput, UpdateVoltage
<1>4. inhibit' # Undefined
    BY DEF InhibitReasons, WaitingFaults, Undefined
<1>5. FaultTellsState'
    BY DEF IInv, NoPanic, FaultTellsState
<1>6. TypeOK' /\ NoPanic'
    BY <1>2, <1>4 DEF IInv, TypeOK, NoPanic, InTime
<1>7. StageOf(machine'.state) = StageOf(machine.state) /\ StageOf(machine.state) # "dark"
    BY DEF StageOf
<1>8. ASSUME RetargetTo(n.state) # NoPhase, n.state \notin Charging
      PROVE  RetargetTo(n.state) = "Float"
    BY <1>8 DEF RetargetTo, NoPhase, Charging, States, Sourcing, Parked, Terminal
<1>9. AskOf(action') \in Promise!Asks(StageOf(machine.state))
    <2>1. CASE action' = NoAction
        BY <2>1 DEF AskOf, NoAction, Promise!Asks, StageOf
    <2>2. CASE \E r \in BOOLEAN : action' = EnableOutput(r)
        BY <1>7, <2>2 DEF AskOf, EnableOutput, Promise!Asks, StageOf
    <2>3. CASE /\ RetargetTo(n.state) # NoPhase
               /\ action' = UpdateVoltage(n.state, RetargetTo(n.state))
        <3>1. AskOf(action') = IF RetargetTo(n.state) = "Absorb" THEN "Raise" ELSE "Lower"
            BY <2>3 DEF AskOf, UpdateVoltage
        <3> QED
            BY <1>8, <2>3, <3>1 DEF Promise!Asks, StageOf
    <2> QED
        BY <2>1, <2>2, <2>3
<1> QED
    BY <1>3, <1>5, <1>6, <1>7, <1>9 DEF IInv, Promise!Next, Promise!Serve

(* The windows of the charge cycle stay typed and move nothing.              *)
LEMMA CycleClocks ==
    ASSUME NEW m \in Machines, NEW b, NEW dt \in Elapsed
    PROVE  /\ AfterExit(m, b, dt) \in Machines
           /\ AfterAbsorb(m, b, dt) \in Machines
           /\ AfterCharge(m, b, dt) \in Machines
           /\ AfterExit(m, b, dt).state = m.state
           /\ AfterAbsorb(m, b, dt).state = m.state
           /\ AfterCharge(m, b, dt).state = m.state
           /\ AfterExit(m, b, dt).clock["exit"] = ExitClock(m, b, dt)
           /\ AfterExit(m, b, dt).clock["absorb"] = m.clock["absorb"]
           /\ AfterCharge(m, b, dt).clock["exit"] = ExitClock(m, b, dt)
           /\ AfterCharge(m, b, dt).clock["absorb"] = AbsorbClock(m, b, dt)
<1>1. m.clock \in [Clocks -> 0..DurationMax] /\ {"exit", "absorb", "charge_total"} \subseteq Clocks
    BY DEF Machines, Clocks
<1>2. /\ ExitClock(m, b, dt) \in 0..DurationMax
      /\ AbsorbClock(m, b, dt) \in 0..DurationMax
      /\ ChargeClock(m, dt) \in 0..DurationMax
    BY <1>1, WindowType DEF ExitClock, AbsorbClock, ChargeClock
<1>3. /\ AfterExit(m, b, dt) \in Machines
      /\ AfterExit(m, b, dt).state = m.state
      /\ AfterExit(m, b, dt).clock = [m.clock EXCEPT !["exit"] = ExitClock(m, b, dt)]
    BY <1>1, <1>2 DEF AfterExit, Machines
<1>4. /\ AfterAbsorb(m, b, dt) \in Machines
      /\ AfterAbsorb(m, b, dt).state = m.state
      /\ AfterAbsorb(m, b, dt).clock
            = [AfterExit(m, b, dt).clock EXCEPT !["absorb"] = AbsorbClock(m, b, dt)]
    BY <1>1, <1>2, <1>3 DEF AfterAbsorb, Machines
<1>5. /\ AfterCharge(m, b, dt) \in Machines
      /\ AfterCharge(m, b, dt).state = m.state
      /\ AfterCharge(m, b, dt).clock
            = [AfterAbsorb(m, b, dt).clock EXCEPT !["charge_total"] = ChargeClock(m, dt)]
    BY <1>1, <1>2, <1>4 DEF AfterCharge, Machines
<1> QED
    BY <1>1, <1>3, <1>4, <1>5

LEMMA RegulateKeeps ==
    ASSUME IInv, NEW m \in Machines, NEW b, NEW dt \in Elapsed,
           m.state \in States \ Terminal, InTime(m),
           machine.state \in States \ Terminal,
           m.state \in Charging <=> machine.state \in Charging,
           Regulate(m, b, dt)
    PROVE  IInv' /\ Promise!Next
<1>1. CASE Reemit(m)
    BY <1>1, ServingKeeps DEF Reemit, AllClear
<1>2. ASSUME m.state # "Absorb"
      PROVE  InTime(AfterExit(m, b, dt))
    <2>1. m.clock["exit"] \in 0..DurationMax /\ ExitDebounce \in Nat \ {0}
        BY WindowAssumption DEF Machines, Clocks, Windows
    <2>2. ExitClock(m, b, dt) < ExitDebounce
        BY <1>2, <2>1, WindowAssumption DEF ExitClock, BelowExit, Leaked, InTime
    <2> QED
        BY <2>2, CycleClocks DEF InTime
<1>3. ASSUME NEW event, NEW to \in {"ToAbsorb", "ToFloat"},
             After(m.state, event) = to, m.state \in Charging,
             Retarget(AfterExit(m, b, dt), event)
      PROVE  IInv' /\ Promise!Next
    <2> DEFINE n == StepTo(AfterExit(m, b, dt), to)
    <2>1. Step(AfterExit(m, b, dt), event) = n
        BY <1>3, CycleClocks DEF Step
    <2>2. to \in States \ Terminal /\ to \in Charging /\ RetargetTo(to) # NoPhase
        BY DEF States, Terminal, Sourcing, Parked, Charging, RetargetTo, NoPhase
    <2>3. n \in Machines /\ n.state = to /\ InTime(n)
        BY <2>2, CycleClocks, StepToType, StepToInTime
    <2> QED
        BY <1>3, <2>1, <2>2, <2>3, ServingKeeps DEF Retarget, AllClear
<1>4. CASE RegulateFloat(m, b, dt)
    <2>1. After("Float", "TaperRose") = "ToAbsorb" /\ "Float" \in Charging
        BY DEF After, Charging, States, Sourcing, Parked, Terminal
    <2>2. CASE ChargingA(b) > EnterAbsorbA
        BY <1>3, <1>4, <2>1, <2>2 DEF RegulateFloat
    <2>3. CASE ~(ChargingA(b) > EnterAbsorbA)
        BY <1>2, <1>4, <2>3, CycleClocks, ServingKeeps
        DEF RegulateFloat, Stay, AllClear
    <2> QED
        BY <2>2, <2>3
<1>5. CASE RegulateAbsorb(m, b, dt)
    <2>1. /\ After("Absorb", "TaperFell") = "ToFloat" /\ "Absorb" \in Charging
          /\ "Absorb" \in Sourcing \ Parked /\ m.state = "Absorb"
        BY <1>5 DEF After, Charging, States, Sourcing, Parked, Terminal, RegulateAbsorb
    <2>2. ParkFaults \subseteq FaultReasons
        BY DEF FaultReasons
    <2>3. CASE ExitDone(m, b, dt)
        BY <1>3, <1>5, <2>1, <2>3 DEF RegulateAbsorb
    <2>4. CASE ~ExitDone(m, b, dt) /\ AbsorbDone(m, b, dt)
        <3>1. OnFault(AfterAbsorb(m, b, dt), "AbsorbTimeout")
            BY <1>5, <2>4 DEF RegulateAbsorb
        <3> QED
            BY <2>1, <2>2, <3>1, CycleClocks, OnFaultKeeps DEF Parks, ParkFaults
    <2>5. CASE ~ExitDone(m, b, dt) /\ ~AbsorbDone(m, b, dt) /\ ChargeDone(m, dt)
        <3>1. OnFault(AfterCharge(m, b, dt), "ChargeTimeout")
            BY <1>5, <2>5 DEF RegulateAbsorb
        <3> QED
            BY <2>1, <2>2, <3>1, CycleClocks, OnFaultKeeps DEF Parks, ParkFaults
    <2>6. CASE ~ExitDone(m, b, dt) /\ ~AbsorbDone(m, b, dt) /\ ~ChargeDone(m, dt)
        <3>1. ExitClock(m, b, dt) \in 0..DurationMax /\ AbsorbClock(m, b, dt) \in 0..DurationMax
            BY WindowType DEF ExitClock, AbsorbClock, Machines, Clocks
        <3>2. ExitDebounce \in Nat /\ MaxAbsorb \in Nat
            BY WindowAssumption DEF Windows
        <3>3. InTime(AfterCharge(m, b, dt))
            BY <2>6, <3>1, <3>2, WindowAssumption, CycleClocks
            DEF InTime, ExitDone, AbsorbDone
        <3> QED
            BY <1>5, <2>6, <3>3, CycleClocks, ServingKeeps
            DEF RegulateAbsorb, Stay, AllClear
    <2> QED
        BY <2>3, <2>4, <2>5, <2>6
<1>6. CASE RegulateParked(m, b, dt)
    BY <1>2, <1>6, CycleClocks, ServingKeeps DEF RegulateParked, Stay, AllClear
<1> QED
    BY <1>1, <1>4, <1>5, <1>6 DEF Regulate

LEMMA SuperviseKeeps ==
    ASSUME IInv, NEW p, NEW dt \in Elapsed, Supervise(p, dt)
    PROVE  IInv' /\ Promise!Next
<1> DEFINE m == QuietTimer(Reconciled(Drained, p), dt)
           g == [m EXCEPT !.clock = GauntletClock(m, p, dt)]
           v == Verdict(m, p, dt)
<1>1. /\ m \in Machines /\ m.state \in States \ Terminal
      /\ m.state \in Charging <=> machine.state \in Charging
      /\ InTime(m)
      /\ machine.state \in States \ Terminal
    BY ReconciledKeeps DEF Supervise, Agrees, IInv, NoPanic
<1> HIDE DEF m
<1>2. g \in Machines /\ g.state = m.state /\ InTime(g)
    BY <1>1, GauntletClockType, ClockUpdate DEF InTime
<1>3. \/ v = Clear
      \/ v.kind = "Inhibit" /\ v.reason \in InhibitReasons
      \/ /\ v.kind = "Latch" /\ v.reason \in FaultReasons
         /\ v.reason \in ParkFaults => m.state \in Sourcing
    BY <1>1, VerdictType
<1> HIDE DEF g, v
<1>4. CASE v.kind = "Latch" /\ OnFault(g, v.reason)
    BY <1>1, <1>2, <1>3, <1>4, OnFaultKeeps DEF Parks, Clear
<1>5. CASE v.kind = "Inhibit" /\ machine' = g /\ inhibit' = v.reason
           /\ action' = NoAction /\ UNCHANGED fault
    BY <1>1, <1>2, <1>3, <1>5, ServingKeeps DEF Clear
<1>6. CASE m.state \in BringingUp /\ machine' = g
           /\ action' = EnableOutput(~RestedFull(p.battery)) /\ AllClear
    <2>1. (~RestedFull(p.battery)) \in BOOLEAN
        OBVIOUS
    <2> QED
        BY <1>1, <1>2, <1>6, <2>1, ServingKeeps DEF AllClear
<1>7. CASE Regulate(g, p.battery, dt)
    BY <1>1, <1>2, <1>7, RegulateKeeps
<1> QED
    BY <1>4, <1>5, <1>6, <1>7 DEF Supervise, m, g, v

(* The ticks `reconcile` decides by itself. *)
LEMMA ReconcileKeeps ==
    ASSUME IInv, NEW p,
           RetryDisable \/ WatchLatched(p) \/ LostOutput(p) \/ OnInPending(p)
    PROVE  IInv' /\ Promise!Next
<1>1. /\ Drained \in Machines
      /\ Drained.state = machine.state
      /\ Drained.clock = machine.clock
      /\ machine.state \in States
      /\ InTime(Drained)
    BY EmptySeq DEF Drained, IInv, TypeOK, Machines, NoPanic, InTime
<1>2. ASSUME machine.state \in Terminal, fault' = fault, inhibit' = inhibit,
             machine' \in Machines, machine'.state \in Terminal, InTime(machine'),
             \/ action' = NoAction
             \/ machine'.state = "Tripping" /\ action' = DisableOutput(fault)
      PROVE  IInv' /\ Promise!Next
    <2>1. /\ fault \in FaultReasons
          /\ machine'.state \notin Charging /\ machine'.state \in States
        BY <1>1, <1>2 DEF IInv, TypeOK, FaultTellsState, Charging, States
    <2>2. action' \in Actions
        BY <1>2, <2>1, ActionTypes
    <2>3. TicketsAgree'
        BY <1>2 DEF TicketsAgree, NoAction, DisableOutput
    <2>4. FaultTellsState'
        BY <1>1, <1>2, <2>1 DEF IInv, FaultTellsState, FaultReasons, ParkFaults, WaitingFaults
    <2>5. /\ StageOf(machine.state) = "dark" /\ StageOf(machine'.state) = "dark"
          /\ AskOf(action') \in Promise!Asks("dark")
        BY <1>2 DEF StageOf, AskOf, NoAction, DisableOutput, Promise!Asks
    <2>6. IInv'
        BY <1>2, <2>1, <2>2, <2>3, <2>4 DEF IInv, TypeOK, NoPanic, InTime
    <2> QED
        BY <1>2, <2>5, <2>6 DEF Promise!Next, Promise!Serve
<1>3. CASE RetryDisable
    <2>1. machine.state = "Tripping" /\ machine.state \in Terminal
        BY <1>3 DEF RetryDisable, Terminal
    <2> QED
        BY <1>1, <1>2, <1>3, <2>1 DEF RetryDisable
<1>4. CASE WatchLatched(p)
    <2>1. machine.state = "Latched" /\ machine.state \in Terminal
        BY <1>4 DEF WatchLatched, Terminal
    <2>2. After("Latched", "SelfEnabled") = "Tripping"
        BY DEF After, Terminal
    <2>3. "Tripping" \in States /\ "Tripping" \in Terminal
        BY DEF States, Terminal
    <2>4. /\ StepTo(Drained, "Tripping") \in Machines
          /\ StepTo(Drained, "Tripping").state = "Tripping"
          /\ InTime(StepTo(Drained, "Tripping"))
        BY <1>1, <2>3, StepToType, StepToInTime
    <2>5. CASE p.buck.read /\ p.buck.on
        <3>1. machine' = StepTo(Drained, "Tripping") /\ action' = DisableOutput(fault)
            BY <1>1, <1>4, <2>1, <2>2, <2>5 DEF WatchLatched, Step
        <3> QED
            BY <1>2, <1>4, <2>1, <2>3, <2>4, <3>1 DEF WatchLatched
    <2>6. CASE ~(p.buck.read /\ p.buck.on)
        <3>1. /\ machine' = Drained /\ action' = NoAction
              /\ fault' = fault /\ inhibit' = inhibit
            BY <1>4, <2>6 DEF WatchLatched
        <3>2. Drained.state \in Terminal
            BY <1>1, <2>1
        <3> QED
            BY <1>1, <1>2, <2>1, <3>1, <3>2
    <2> QED
        BY <2>5, <2>6
<1>5. {"OutputUnexpectedlyOff", "OutputOnInPending"} \subseteq FaultReasons \ ParkFaults
    BY DEF FaultReasons, ParkFaults, WaitingFaults
<1>6. CASE LostOutput(p)
    <2>1. machine.state \notin Terminal
        BY <1>6 DEF LostOutput, WentOff, Sourcing, Parked, Terminal
    <2> QED
        BY <1>1, <1>5, <1>6, <2>1, OnFaultKeeps DEF LostOutput, Parks
<1>7. CASE OnInPending(p)
    <2>1. machine.state \notin Terminal
        BY <1>7 DEF OnInPending, CameOn, BringingUp, Holding, Terminal
    <2> QED
        BY <1>1, <1>5, <1>7, <2>1, OnFaultKeeps DEF OnInPending, Parks
<1> QED
    BY <1>3, <1>4, <1>6, <1>7

(* Redeeming a ticket: the invariant is what makes it the right one.         *)
LEMMA CommitKeeps ==
    ASSUME IInv, Commit
    PROVE  IInv' /\ Promise!Next
<1>1. /\ machine \in Machines /\ machine.state \in States /\ InTime(machine)
      /\ action' = NoAction /\ fault' = fault /\ inhibit' = inhibit
    BY DEF IInv, TypeOK, NoPanic, InTime, Commit, CommitEnable, CommitVoltage, CommitDisable
<1>2. ASSUME NEW event, NEW to \in States, After(machine.state, event) = to,
             machine' = Step(machine, event),
             to \in Charging <=> machine.state \in Charging,
             to \in Terminal <=> machine.state \in Terminal
      PROVE  IInv' /\ Promise!Next
    <2>1. machine' = StepTo(machine, to)
        BY <1>2 DEF Step
    <2>2. machine' \in Machines /\ machine'.state = to /\ InTime(machine')
        BY <1>1, <2>1, StepToType, StepToInTime
    <2>3. action' \in Actions /\ TicketsAgree'
        BY <1>1, ActionTypes DEF TicketsAgree, NoAction
    <2>4. FaultTellsState'
        BY <1>1, <1>2, <2>2 DEF IInv, FaultTellsState
    <2>5. IInv'
        BY <1>1, <1>2, <2>2, <2>3, <2>4 DEF IInv, TypeOK, NoPanic, InTime
    <2>6. /\ StageOf(machine'.state) = StageOf(machine.state)
          /\ AskOf(action') \in Promise!Asks(StageOf(machine.state))
        BY <1>1, <1>2, <2>2 DEF StageOf, AskOf, NoAction, Promise!Asks
    <2> QED
        BY <1>1, <2>5, <2>6 DEF Promise!Next, Promise!Serve
<1>3. CASE CommitEnable
    <2>1. machine.state \in BringingUp /\ machine.state \notin Terminal
        BY <1>3 DEF IInv, TicketsAgree, CommitEnable, BringingUp, Holding, Terminal
    <2>2. PICK event \in {"Enabled", "EnabledBelowFull"} : machine' = Step(machine, event)
        BY <1>3 DEF CommitEnable
    <2> DEFINE to == After(machine.state, event)
    <2>3. /\ to \in States /\ to \notin Terminal
          /\ to \in Charging <=> machine.state \in Charging
        BY <2>1, <2>2 DEF After, EnabledOf, EnabledBelowFullOf, ResumeOf, BringingUp, Holding,
                    States, Terminal, Sourcing, Parked, Charging
    <2> HIDE DEF to
    <2>4. After(machine.state, event) = to
        BY DEF to
    <2> QED
        BY <1>2, <2>1, <2>2, <2>3, <2>4
<1>4. CASE CommitVoltage
    <2>1. RetargetTo(machine.state) = action.phase /\ action.phase \in Phases
        BY <1>4 DEF IInv, TicketsAgree, TypeOK, CommitVoltage, Actions, NoAction,
                    EnableOutput, DisableOutput
    <2>2. machine.state \in {"ToAbsorb", "ToFloat", "ToParked"} \ Terminal
        BY <2>1 DEF RetargetTo, Phases, NoPhase, Terminal
    <2> DEFINE to == After(machine.state, "VoltageWritten")
    <2>3. /\ to \in States /\ to \notin Terminal /\ machine.state \notin Terminal
          /\ to \in Charging <=> machine.state \in Charging
        BY <2>2 DEF After, WrittenOf, States, Terminal, Sourcing, Parked, BringingUp,
                    Holding, Charging
    <2>4. machine' = Step(machine, "VoltageWritten")
        BY <1>4, <2>1 DEF CommitVoltage
    <2> HIDE DEF to
    <2>5. After(machine.state, "VoltageWritten") = to
        BY DEF to
    <2> QED
        BY <1>2, <2>3, <2>4, <2>5
<1>5. CASE CommitDisable
    <2>1. machine.state = "Tripping" /\ fault = action.reason
        BY <1>5 DEF IInv, TicketsAgree, CommitDisable
    <2>2. /\ After("Tripping", "Disabled") = "Latched"
          /\ "Latched" \in States /\ {"Latched", "Tripping"} \subseteq Terminal
          /\ "Latched" \notin Charging /\ "Tripping" \notin Charging
        BY DEF After, States, Terminal, Charging
    <2>3. machine' = Step(machine, "Disabled")
        BY <1>5, <2>1 DEF CommitDisable
    <2> QED
        BY <1>2, <2>1, <2>2, <2>3
<1> QED
    BY <1>3, <1>4, <1>5 DEF Commit

(* A supervisor just made is in Boot, with every window at its start. *)
LEMMA NewMachineIsSound ==
    /\ NewMachine \in Machines /\ InTime(NewMachine)
    /\ NewMachine.state = "Boot"
    /\ NewMachine.state \in Charging /\ NewMachine.state \in States \ Terminal
<1>1. /\ "exit" \in Clocks /\ "absorb" \in Clocks
      /\ ExitDebounce \in Nat \ {0} /\ MaxAbsorb \in Nat \ {0} /\ DurationMax \in Nat
    BY WindowAssumption DEF Clocks, Windows
<1>2. NewMachine \in Machines
    BY <1>1, EmptySeq DEF NewMachine, Machines, States, BringingUp
<1>3. "Boot" \in Charging /\ "Boot" \in States \ Terminal
    BY DEF Charging, States, BringingUp, Parked, Terminal
<1> QED
    BY <1>1, <1>2, <1>3 DEF NewMachine, InTime

-----------------------------------------------------------------------------
(***************************************************************************)
(* The event log.  A tick starts from a drained log and moves at most      *)
(* twice, into or out of a hold and then on a verdict; the one commit that *)
(* logs comes after a tick that moved at most once.                        *)
(***************************************************************************)
LogInv ==
    /\ Len(machine.transitions) <= 2
    /\ action.do = "EnableOutput" => Len(machine.transitions) <= 1

(* A move makes one entry at most. *)
LEMMA LoggedOnce ==
    ASSUME NEW s, NEW t
    PROVE  Len(LoggedAs(s, t)) \in 0..1
BY DEF LoggedAs

(* A log with room takes the entry of a move at its end. *)
LEMMA PushLength ==
    ASSUME NEW m \in Machines, NEW to, Len(m.transitions) <= 1
    PROVE  /\ Len(StepTo(m, to).transitions) <= 2
           /\ Len(m.transitions) = 0 => Len(StepTo(m, to).transitions) <= 1
<1> DEFINE log == m.transitions
           entries == LoggedAs(m.state, to)
<1>1. log \in Seq(ChargeTransitions) /\ entries \in Seq(ChargeTransitions)
    BY LoggedType DEF Machines
<1>2. Len(log) # TransitionBuffer
    BY BudgetAssumption
<1>3. StepTo(m, to).transitions = log \o entries
    BY <1>2 DEF StepTo, Push
<1>4. Len(entries) \in 0..1
    BY LoggedOnce
<1> HIDE DEF entries
<1>5. Len(log \o entries) = Len(log) + Len(entries)
    BY <1>1, ConcatProperties
<1>6. Len(log) \in Nat
    BY <1>1, LenProperties
<1> QED
    BY <1>3, <1>4, <1>5, <1>6

LEMMA PushLogs ==
    ASSUME NEW m \in Machines, NEW to, Len(m.transitions) <= 1,
           NEW e, LoggedAs(m.state, to) = <<e>>
    PROVE  Logs(StepTo(m, to).transitions, e)
<1> DEFINE log == m.transitions
           entries == LoggedAs(m.state, to)
<1>1. log \in Seq(ChargeTransitions) /\ entries \in Seq(ChargeTransitions)
    BY LoggedType DEF Machines
<1>2. Len(log) # TransitionBuffer
    BY BudgetAssumption
<1>3. StepTo(m, to).transitions = log \o entries
    BY <1>2 DEF StepTo, Push
<1>4. Len(entries) = 1 /\ entries[1] = e
    OBVIOUS
<1>5. Len(log) \in Nat
    BY <1>1, LenProperties
<1> HIDE DEF log, entries
<1>6. Len(log \o entries) = Len(log) + Len(entries)
    BY <1>1, ConcatProperties
<1>7. Len(log) + 1 \in 1..(Len(log) + Len(entries))
    BY <1>4, <1>5
<1>8. (log \o entries)[Len(log) + 1] = entries[1]
    BY <1>1, <1>4, <1>5, <1>7, ConcatProperties
<1>9. Len(log) + 1 \in DOMAIN (log \o entries)
    BY <1>1, <1>6, <1>7, ConcatProperties, LenProperties
<1>10. Logs(log \o entries, e)
    BY <1>4, <1>8, <1>9 DEF Logs
<1> QED
    BY <1>3, <1>10

(* A move without an entry leaves the log alone. *)
LEMMA QuietMove ==
    ASSUME NEW m \in Machines, NEW to, LoggedAs(m.state, to) = << >>
    PROVE  StepTo(m, to).transitions = m.transitions
<1>1. m.transitions \in Seq(ChargeTransitions)
    BY DEF Machines
<1> QED
    BY <1>1, ConcatEmptySeq DEF StepTo, Push

(* What every tick does to the log. *)
TickLogs ==
    /\ Len(machine'.transitions) <= 2
    /\ action'.do = "EnableOutput" => Len(machine'.transitions) <= 1
    /\ machine'.state = "Tripping" /\ machine.state # "Tripping"
           => Logs(machine'.transitions, "Latched")
    /\ machine'.state \in Parked /\ machine.state \in Charging
           => Logs(machine'.transitions, "Parked")

(* A fault raised on a machine that moved at most once before it. *)
LEMMA OnFaultLogs ==
    ASSUME NEW m \in Machines, NEW reason, m.state \in States \ Terminal,
           Len(m.transitions) <= 1,
           Parks(m, reason) => m.state \in Sourcing,
           OnFault(m, reason)
    PROVE  TickLogs
<1>1. action'.do # "EnableOutput"
    BY DEF OnFault, UpdateVoltage, NoAction, DisableOutput
<1>2. Len(m.transitions) \in Nat
    BY LenProperties DEF Machines
<1>3. CASE Parks(m, reason)
    <2> DEFINE to == After(m.state, "Park")
    <2>1. m.state \in Sourcing \ Parked /\ to \in Parked
        BY <1>3, ParkLandsParked DEF Parks
    <2>2. machine' = StepTo(m, to)
        BY <1>3 DEF OnFault, Step
    <2>3. machine'.state = to /\ to # "Tripping"
        BY <2>1, <2>2 DEF StepTo, Parked
    <2>4. LoggedAs(m.state, to) = <<"Parked">>
        BY <2>1 DEF LoggedAs, Sourcing, Parked, Holding
    <2> HIDE DEF to
    <2>5. Logs(machine'.transitions, "Parked") /\ Len(machine'.transitions) <= 2
        BY <1>2, <2>2, <2>4, PushLength, PushLogs
    <2> QED
        BY <1>1, <2>3, <2>5 DEF TickLogs
<1>4. CASE ~Parks(m, reason)
    <2>1. machine' = StepTo(m, "Tripping")
        BY <1>4, FaultTrips DEF OnFault, Step
    <2>2. machine'.state = "Tripping" /\ "Tripping" \notin Parked
        BY <2>1 DEF StepTo, Parked
    <2>3. LoggedAs(m.state, "Tripping") = <<"Latched">>
        BY DEF LoggedAs, Sourcing, Parked, Holding
    <2>4. Logs(machine'.transitions, "Latched") /\ Len(machine'.transitions) <= 2
        BY <1>2, <2>1, <2>3, PushLength, PushLogs
    <2> QED
        BY <1>1, <2>2, <2>4 DEF TickLogs
<1> QED
    BY <1>3, <1>4

(* The machine the gauntlet starts from moved once at most, and a machine in *)
(* Regulate takes at most one move more.                                     *)
LEMMA ReconciledLogs ==
    ASSUME IInv, NEW p, NEW dt
    PROVE  Len(QuietTimer(Reconciled(Drained, p), dt).transitions) <= 1
<1>1. /\ Drained \in Machines /\ Drained.transitions = << >>
    BY EmptySeq DEF Drained, IInv, TypeOK, Machines
<1>2. Len(Drained.transitions) = 0
    BY <1>1
<1>3. \A event : Len(Step(Drained, event).transitions) <= 1
    BY <1>1, <1>2, PushLength, PushLogs DEF Step
<1>4. Len(Reconciled(Drained, p).transitions) <= 1
    BY <1>2, <1>3 DEF Reconciled
<1> QED
    BY <1>4 DEF QuietTimer

LEMMA RegulateLogs ==
    ASSUME NEW m \in Machines, NEW b, NEW dt \in Elapsed,
           m.state \in States \ Terminal, machine.state \in States \ Terminal,
           m.state \in Charging <=> machine.state \in Charging,
           Len(m.transitions) <= 1,
           Regulate(m, b, dt)
    PROVE  TickLogs
<1>1. Len(m.transitions) \in Nat
    BY LenProperties DEF Machines
<1>2. ASSUME NEW n \in {AfterExit(m, b, dt), AfterAbsorb(m, b, dt), AfterCharge(m, b, dt)}
      PROVE  n \in Machines /\ n.state = m.state /\ n.transitions = m.transitions
    <2>1. n \in Machines /\ n.state = m.state
        BY <1>2, CycleClocks
    <2>2. n.transitions = m.transitions
        BY DEF AfterExit, AfterAbsorb, AfterCharge, Machines
    <2> QED
        BY <2>1, <2>2
<1>3. ASSUME NEW n, n.state = m.state, n.transitions = m.transitions,
             machine' = n, action'.do # "EnableOutput"
      PROVE  TickLogs
    <2>1. n.state \in Parked => machine.state \notin Charging
        BY <1>3 DEF Parked, Charging
    <2> QED
        BY <1>1, <1>3, <2>1 DEF TickLogs, Terminal
<1>4. ASSUME NEW n \in Machines, n.state = m.state, n.transitions = m.transitions,
             NEW event, NEW to \in {"ToAbsorb", "ToFloat"}, After(m.state, event) = to,
             Retarget(n, event)
      PROVE  TickLogs
    <2>1. machine' = StepTo(n, to) /\ action'.do # "EnableOutput"
        BY <1>4 DEF Retarget, Step, UpdateVoltage
    <2>2. machine'.state = to /\ to # "Tripping" /\ to \notin Parked
        BY <2>1 DEF StepTo, Parked
    <2>3. Len(machine'.transitions) <= 2
        BY <1>1, <1>4, <2>1, PushLength, PushLogs
    <2> QED
        BY <2>1, <2>2, <2>3 DEF TickLogs
<1>5. CASE Reemit(m)
    BY <1>3, <1>5 DEF Reemit, UpdateVoltage
<1>6. CASE RegulateFloat(m, b, dt)
    <2>1. After("Float", "TaperRose") = "ToAbsorb" /\ NoAction.do # "EnableOutput"
        BY DEF After, NoAction
    <2> QED
        BY <1>2, <1>3, <1>4, <1>6, <2>1 DEF RegulateFloat, Stay
<1>7. CASE RegulateAbsorb(m, b, dt)
    <2>1. After("Absorb", "TaperFell") = "ToFloat" /\ NoAction.do # "EnableOutput"
        BY DEF After, NoAction
    <2>2. m.state = "Absorb" /\ "Absorb" \in Sourcing
        BY <1>7 DEF RegulateAbsorb, Sourcing
    <2>3. ASSUME NEW n \in {AfterAbsorb(m, b, dt), AfterCharge(m, b, dt)},
                 NEW reason, OnFault(n, reason)
          PROVE  TickLogs
        BY <1>2, <2>2, <2>3, OnFaultLogs
    <2>4. \/ Retarget(AfterExit(m, b, dt), "TaperFell")
          \/ OnFault(AfterAbsorb(m, b, dt), "AbsorbTimeout")
          \/ OnFault(AfterCharge(m, b, dt), "ChargeTimeout")
          \/ Stay(AfterCharge(m, b, dt))
        BY <1>7 DEF RegulateAbsorb
    <2>5. CASE Retarget(AfterExit(m, b, dt), "TaperFell")
        BY <1>2, <1>4, <2>1, <2>2, <2>5
    <2>6. CASE Stay(AfterCharge(m, b, dt))
        BY <1>2, <1>3, <2>1, <2>6 DEF Stay
    <2> QED
        BY <2>3, <2>4, <2>5, <2>6
<1>8. CASE RegulateParked(m, b, dt)
    BY <1>2, <1>3, <1>8 DEF RegulateParked, Stay, NoAction
<1> QED
    BY <1>5, <1>6, <1>7, <1>8 DEF Regulate

LEMMA SuperviseLogs ==
    ASSUME IInv, NEW p, NEW dt \in Elapsed, Supervise(p, dt)
    PROVE  TickLogs
<1> DEFINE m == QuietTimer(Reconciled(Drained, p), dt)
           g == [m EXCEPT !.clock = GauntletClock(m, p, dt)]
           v == Verdict(m, p, dt)
<1>1. /\ m \in Machines /\ m.state \in States \ Terminal
      /\ m.state \in Charging <=> machine.state \in Charging
      /\ machine.state \in States \ Terminal
    BY ReconciledKeeps DEF Supervise, Agrees, IInv, NoPanic
<1>2. Len(m.transitions) <= 1 /\ m.transitions \in Seq(ChargeTransitions)
    BY <1>1, ReconciledLogs DEF Machines
<1> HIDE DEF m
<1>3. g \in Machines /\ g.state = m.state
    BY <1>1, GauntletClockType, ClockUpdate
<1>4. g.transitions = m.transitions
    BY <1>1 DEF Machines
<1>5. v.kind = "Latch" /\ v.reason \in ParkFaults => m.state \in Sourcing
    BY <1>1, VerdictType DEF Clear
<1> HIDE DEF g, v
<1>6. CASE v.kind = "Latch" /\ OnFault(g, v.reason)
    BY <1>1, <1>2, <1>3, <1>4, <1>5, <1>6, OnFaultLogs DEF Parks
<1>7. CASE machine' = g
    <2>1. machine'.state \in Parked => machine.state \notin Charging
        BY <1>1, <1>3, <1>7 DEF Parked, Charging
    <2>2. Len(machine'.transitions) <= 1 /\ Len(machine'.transitions) <= 2
        BY <1>2, <1>4, <1>7, LenProperties
    <2> QED
        BY <1>1, <1>3, <1>7, <2>1, <2>2 DEF TickLogs, Terminal
<1>8. CASE Regulate(g, p.battery, dt)
    BY <1>1, <1>2, <1>3, <1>4, <1>8, RegulateLogs
<1> QED
    BY <1>6, <1>7, <1>8 DEF Supervise, m, g, v

LEMMA ReconcileLogs ==
    ASSUME IInv, NEW p,
           RetryDisable \/ WatchLatched(p) \/ LostOutput(p) \/ OnInPending(p)
    PROVE  TickLogs
<1>1. /\ Drained \in Machines /\ Drained.transitions = << >>
      /\ Drained.state = machine.state /\ machine.state \in States
    BY EmptySeq DEF Drained, IInv, TypeOK, Machines, NoPanic
<1>2. Len(Drained.transitions) = 0
    BY <1>1
<1>3. DisableOutput(fault).do # "EnableOutput" /\ NoAction.do # "EnableOutput"
    BY DEF DisableOutput, NoAction
<1>4. "Tripping" \notin Parked /\ "Latched" \notin Parked /\ "Latched" # "Tripping"
    BY DEF Parked
<1>5. CASE RetryDisable
    BY <1>1, <1>2, <1>3, <1>4, <1>5 DEF RetryDisable, TickLogs
<1>6. CASE WatchLatched(p)
    <2>1. machine.state = "Latched" /\ After("Latched", "SelfEnabled") = "Tripping"
        BY <1>6 DEF WatchLatched, After
    <2>2. LoggedAs("Latched", "Tripping") = <<"Latched">>
        BY DEF LoggedAs, Holding, Sourcing, Parked
    <2>3. CASE machine' = Step(Drained, "SelfEnabled") /\ action' = DisableOutput(fault)
        <3>1. machine' = StepTo(Drained, "Tripping")
            BY <1>1, <2>1, <2>3 DEF Step
        <3>2. machine'.state = "Tripping"
            BY <3>1 DEF StepTo
        <3>3. Logs(machine'.transitions, "Latched") /\ Len(machine'.transitions) <= 2
            BY <1>1, <1>2, <2>1, <2>2, <3>1, PushLength, PushLogs
        <3> QED
            BY <1>3, <1>4, <2>3, <3>2, <3>3 DEF TickLogs
    <2>4. CASE machine' = Drained /\ action' = NoAction
        BY <1>1, <1>2, <1>3, <1>4, <2>1, <2>4 DEF TickLogs
    <2> QED
        BY <1>6, <2>3, <2>4 DEF WatchLatched
<1>7. {"OutputUnexpectedlyOff", "OutputOnInPending"} \cap ParkFaults = {}
    BY DEF ParkFaults
<1>8. CASE LostOutput(p)
    <2>1. machine.state \notin Terminal
        BY <1>8 DEF LostOutput, WentOff, Sourcing, Parked, Terminal
    <2> QED
        BY <1>1, <1>2, <1>7, <1>8, <2>1, OnFaultLogs DEF LostOutput, Parks
<1>9. CASE OnInPending(p)
    <2>1. machine.state \notin Terminal
        BY <1>9 DEF OnInPending, CameOn, BringingUp, Holding, Terminal
    <2> QED
        BY <1>1, <1>2, <1>7, <1>9, <2>1, OnFaultLogs DEF OnInPending, Parks
<1> QED
    BY <1>5, <1>6, <1>8, <1>9

(* A commit: only the one that turns the output on makes an entry. *)
LEMMA CommitLogs ==
    ASSUME IInv, LogInv, Commit
    PROVE  LogInv' /\ StopIsLogged
<1>1. /\ machine \in Machines /\ machine.state \in States
      /\ Len(machine.transitions) \in Nat
    BY LenProperties DEF IInv, TypeOK, NoPanic, Machines
<1>2. ~(action'.do = "EnableOutput")
    BY DEF Commit, CommitEnable, CommitVoltage, CommitDisable, NoAction
<1>3. fault' = fault
    BY DEF Commit, CommitEnable, CommitVoltage, CommitDisable
<1>4. IInv'
    BY CommitKeeps
<1>5. /\ machine'.state = "Tripping" => machine.state = "Tripping"
      /\ machine.state \in Charging => machine'.state \notin Parked
    <2>1. machine'.state \in Charging <=> machine.state \in Charging
        BY <1>3, <1>4 DEF IInv, FaultTellsState, NoPanic
    <2>2. CASE CommitEnable
        <3>1. machine.state \in Charging \/ machine.state = "HoldParked"
            BY <2>2 DEF IInv, TicketsAgree, CommitEnable, BringingUp, Holding,
                        Charging, States, Parked, Terminal
        <3>2. machine.state = "HoldParked" => machine'.state = "Parked"
            BY <2>2 DEF CommitEnable, Step, StepTo, After, EnabledOf,
                        EnabledBelowFullOf, ResumeOf
        <3> QED
            BY <2>1, <3>1, <3>2 DEF Charging, Terminal
    <2>3. CASE CommitVoltage
        <3>1. machine.state \in {"ToAbsorb", "ToFloat", "ToParked"}
            BY <2>3 DEF IInv, TicketsAgree, TypeOK, CommitVoltage, Actions, NoAction,
                        EnableOutput, DisableOutput, RetargetTo, Phases, NoPhase
        <3>2. machine'.state = WrittenOf(machine.state)
            BY <2>3 DEF IInv, TicketsAgree, CommitVoltage, Step, StepTo, After
        <3> QED
            BY <2>1, <3>1, <3>2 DEF WrittenOf, Charging
    <2>4. CASE CommitDisable
        <3>1. machine.state = "Tripping"
            BY <2>4 DEF IInv, TicketsAgree, CommitDisable
        <3> QED
            BY <3>1 DEF Charging, Terminal
    <2> QED
        BY <2>2, <2>3, <2>4 DEF Commit
<1>6. Len(machine'.transitions) <= 2
    <2>1. CASE CommitEnable
        <3>1. PICK event : machine' = Step(machine, event)
            BY <2>1 DEF CommitEnable
        <3>2. Len(machine.transitions) <= 1
            BY <2>1 DEF CommitEnable, LogInv
        <3> QED
            BY <1>1, <3>1, <3>2, PushLength, PushLogs DEF Step
    <2>2. CASE CommitVoltage
        <3>1. machine.state \in {"ToAbsorb", "ToFloat", "ToParked"}
            BY <2>2 DEF IInv, TicketsAgree, TypeOK, CommitVoltage, Actions, NoAction,
                        EnableOutput, DisableOutput, RetargetTo, Phases, NoPhase
        <3>2. machine' = StepTo(machine, WrittenOf(machine.state))
            BY <2>2 DEF IInv, TicketsAgree, CommitVoltage, Step, After
        <3>3. LoggedAs(machine.state, WrittenOf(machine.state)) = << >>
            BY <3>1 DEF LoggedAs, WrittenOf, Sourcing, Parked, Holding
        <3> QED
            BY <1>1, <3>2, <3>3, QuietMove DEF LogInv
    <2>3. CASE CommitDisable
        <3>1. machine.state = "Tripping" /\ machine' = StepTo(machine, "Latched")
            BY <2>3 DEF IInv, TicketsAgree, CommitDisable, Step, After
        <3>2. LoggedAs("Tripping", "Latched") = << >>
            BY DEF LoggedAs, Sourcing, Parked, Holding
        <3> QED
            BY <1>1, <3>1, <3>2, QuietMove DEF LogInv
    <2> QED
        BY <2>1, <2>2, <2>3 DEF Commit
<1>7. Len(machine'.transitions) <= 2 /\ Len(machine'.transitions) < TransitionBuffer
    <2>1. Len(machine'.transitions) \in Nat
        BY <1>4, LenProperties DEF IInv, TypeOK, Machines
    <2> QED
        BY <1>6, <2>1, BudgetAssumption
<1> QED
    BY <1>2, <1>5, <1>7 DEF LogInv, StopIsLogged, Charging

-----------------------------------------------------------------------------
(***************************************************************************)
(* The theorems.                                                           *)
(***************************************************************************)

(* The strengthened invariant holds in every reachable state. *)
THEOREM Inductive == Spec => []IInv
<1>1. Init => IInv
    <2> SUFFICES ASSUME Init PROVE IInv
        OBVIOUS
    <2>1. TypeOK /\ TicketsAgree
        BY NewMachineIsSound, ActionTypes DEF Init, TypeOK, TicketsAgree, NoAction
    <2>2. NoPanic /\ FaultTellsState
        BY NewMachineIsSound DEF Init, NoPanic, FaultTellsState, InTime, Undefined
    <2> QED
        BY <2>1, <2>2 DEF IInv
<1>2. IInv /\ [Next]_vars => IInv'
    <2> SUFFICES ASSUME IInv, [Next]_vars PROVE IInv'
        OBVIOUS
    <2>1. ASSUME NEW p \in PollResults, NEW dt \in Elapsed, Tick(p, dt)
          PROVE  IInv'
        BY <2>1, ReconcileKeeps, SuperviseKeeps DEF Tick
    <2>2. CASE Commit
        BY <2>2, CommitKeeps
    <2>3. CASE UNCHANGED vars
        BY <2>3 DEF vars, IInv, TypeOK, NoPanic, FaultTellsState, TicketsAgree
    <2> QED
        BY <2>1, <2>2, <2>3 DEF Next
<1> QED
    BY <1>1, <1>2, PTL DEF Spec

(* Every step of the supervisor is one of its promise. *)
LEMMA PromiseStep ==
    ASSUME IInv, (\E p, dt : dt \in Elapsed /\ Tick(p, dt)) \/ Commit
    PROVE  Promise!Next
<1>1. CASE \E p, dt : dt \in Elapsed /\ Tick(p, dt)
    <2>1. PICK p, dt : dt \in Elapsed /\ Tick(p, dt)
        BY <1>1
    <2> QED
        BY <2>1, ReconcileKeeps, SuperviseKeeps DEF Tick
<1>2. CASE Commit
    BY <1>2, CommitKeeps
<1> QED
    BY <1>1, <1>2

LEMMA PromiseStarts == Init => Promise!Init
BY DEF Init, NewMachine, StageOf, AskOf, NoAction, Charging, Terminal, Parked,
       States, BringingUp, Promise!Init

(* The supervisor keeps the promise of ChargePromise: charging, parked, dark, *)
(* in that order only, with a reason on display, and nothing asked of the     *)
(* buck that the stage does not allow (on_fault, reconcile, regulate).        *)
THEOREM Implements == Spec => KeepsPromise
<1>1. IInv /\ [Next]_vars =>
      [Promise!Next]_<<StageOf(machine.state), fault, AskOf(action)>>
    <2> SUFFICES ASSUME IInv, [Next]_vars
                 PROVE  [Promise!Next]_<<StageOf(machine.state), fault, AskOf(action)>>
        OBVIOUS
    <2>1. CASE Next
        BY <2>1, PromiseStep DEF Next
    <2>2. CASE UNCHANGED vars
        BY <2>2 DEF vars
    <2> QED
        BY <2>1, <2>2
<1> QED
    BY <1>1, PromiseStarts, Inductive, PTL DEF Spec, KeepsPromise, Promise!Spec

(* Every variable keeps to its type: no window leaves the range of a         *)
(* Duration, no hold count that of a byte (debounce.rs, hold_budget.rs).     *)
THEOREM TypeCorrect == Spec => []TypeOK
BY Inductive, PTL DEF IInv

(* The supervisor never panics: the table is never asked for an empty cell,  *)
(* no ticket is refused, no leaky window runs past its end (the assertions   *)
(* of charge_supervisor.rs and debounce.rs).                                 *)
THEOREM NeverPanics == Spec => []NoPanic
BY Inductive, PTL DEF IInv

(* A ticket that was handed out is the one its commit accepts (commit_enable, *)
(* commit_voltage, commit_disable).                                           *)
THEOREM TicketsRedeemable == Spec => []TicketsAgree
BY Inductive, PTL DEF IInv

(* A fault is on display exactly when charging is over (charge_supervisor.rs, *)
(* fault, inhibit).                                                           *)
THEOREM FaultsTellTheState == Spec => []FaultTellsState
BY Inductive, PTL DEF IInv

(* The event log misses no stop: a unit that turns dark or parks leaves the   *)
(* entry for it in the iteration it does so, in a ring that between two       *)
(* drains never drops one (step, take_transitions, TransitionLog).            *)
THEOREM LogsEveryStop == Spec => StopsAreLogged
<1>1. Init => LogInv
    BY DEF Init, NewMachine, LogInv, NoAction
<1>2. IInv /\ IInv' /\ LogInv /\ [Next]_vars => LogInv' /\ [StopIsLogged]_vars
    <2> SUFFICES ASSUME IInv, IInv', LogInv, [Next]_vars
                 PROVE  LogInv' /\ [StopIsLogged]_vars
        OBVIOUS
    <2>1. ASSUME NEW p \in PollResults, NEW dt \in Elapsed, Tick(p, dt)
          PROVE  LogInv' /\ StopIsLogged
        <3>1. TickLogs
            BY <2>1, ReconcileLogs, SuperviseLogs DEF Tick
        <3>2. Len(machine'.transitions) \in Nat
            BY LenProperties DEF IInv, TypeOK, Machines
        <3>3. Len(machine'.transitions) < TransitionBuffer
            BY <3>1, <3>2, BudgetAssumption DEF TickLogs
        <3> QED
            BY <3>1, <3>3 DEF TickLogs, LogInv, StopIsLogged
    <2>2. CASE Commit
        BY <2>2, CommitLogs
    <2>3. CASE UNCHANGED vars
        BY <2>3 DEF vars, LogInv
    <2> QED
        BY <2>1, <2>2, <2>3 DEF Next
<1> QED
    BY <1>1, <1>2, Inductive, PTL DEF Spec, StopsAreLogged
=============================================================================
