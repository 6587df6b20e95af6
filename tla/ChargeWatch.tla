---------------------------- MODULE ChargeWatch ----------------------------
(***************************************************************************)
(* An observer beside the charge supervisor.  It sees every poll result    *)
(* and measures, on its own, how long the buck has been sourcing in a      *)
(* condition the supervisor promises to end, so that the promises are      *)
(* stated about the readings and not about the supervisor's own windows.   *)
(***************************************************************************)
EXTENDS ChargeSupervisor

VARIABLE watch  (* how long each condition has lasted while sourcing *)

(* The shortest time between two ticks. *)
CONSTANT ShortestTick

ASSUME TickAssumption ==
    ShortestTick \in Nat \ {0} /\ \A dt \in Elapsed : ShortestTick <= dt

(* The longest a charge cycle can be in wall time: the ticks the absolute cap *)
(* counts add up to less than MaxCharge, and before, between and after them   *)
(* the battery sample can be missing for as long as that latches nothing.     *)
CountedTicks == (MaxCharge - 1) \div ShortestTick
CycleBound == MaxCharge + (CountedTicks + 1) * (BatteryMissingTimeout - 1)

(* The same for the pack temperature, whose window also stands still while the *)
(* battery sample is missing: what a park on an overcurrent may add to it is   *)
(* its own tick and, as that tick is not counted, one more run of samples.     *)
UnfeltTicks == (PackTempStaleTimeout - 1) \div ShortestTick
UnfeltBound == PackTempStaleTimeout + (UnfeltTicks + 1) * (BatteryMissingTimeout - 1)
ParkSlack(dt) == dt + (BatteryMissingTimeout - 1)

AtMost(n, bound) == IF n > bound THEN bound ELSE n

wvars == <<machine, fault, inhibit, action, watch>>

(* A length that goes on while the condition is read, starts again when a  *)
(* reading denies it or the output is off, and skips ticks that cannot say. *)
Lasts(length, known, cond, dt) ==
    IF machine'.state \notin Sourcing \/ (known /\ ~cond) THEN 0
    ELSE IF known THEN length + dt
    ELSE length

(* The pack is over the overvoltage line. *)
OverTheLine(p) == p.battery.volts > AbsorbV + OvMargin

(* The pack takes more than 1.25 times its rate; it reads negative while charging. *)
TakesTooMuch(p) == 4 * p.battery.amps < -(5 * RegulationA)

Observe(p, dt) ==
    watch' =
        [blind  |-> Lasts(watch.blind, TRUE, ~p.battery.fresh, dt),
         silent |-> Lasts(watch.silent, TRUE, ~p.buck.read, dt),
         over   |-> Lasts(watch.over, p.battery.fresh, OverTheLine(p), dt),
         greedy |-> IF machine'.state \in Parked THEN 0
                    ELSE Lasts(watch.greedy, p.battery.fresh, TakesTooMuch(p), dt),
         unfelt |-> IF PackTemp = "Absent" THEN 0
                    ELSE Lasts(watch.unfelt, TRUE, p.temp = "None", dt),
         cycle  |-> IF machine'.state = "Absorb"
                    THEN AtMost(watch.cycle + dt, CycleBound) ELSE 0]

WatchInit ==
    /\ Init
    /\ watch = [blind |-> 0, silent |-> 0, over |-> 0, greedy |-> 0, unfelt |-> 0,
                cycle |-> 0]

WatchNext ==
    \/ \E p \in PollResults, dt \in Elapsed : Tick(p, dt) /\ Observe(p, dt)
    \/ Commit /\ UNCHANGED watch

WatchSpec == WatchInit /\ [][WatchNext]_wvars

-----------------------------------------------------------------------------
(* The buck never sources for BATTERY_MISSING_TIMEOUT on no battery sample,  *)
(* nor for MODBUS_UNHEALTHY_TIMEOUT on a silent link: the window counts in   *)
(* every sourcing state and across retargets, parks and holds.               *)
NeverBlind ==
    /\ watch.blind < BatteryMissingTimeout
    /\ watch.silent < ModbusUnhealthyTimeout

(* A dangerous condition ends the charge in its time: the pack is never held *)
(* over the overvoltage line for OV_DURATION nor charged over its rate for    *)
(* OVERCURRENT_DURATION.  A phase change or a missing sample in between does  *)
(* not restart either count.                                                  *)
DangerEnds ==
    /\ watch.over < OvDuration
    /\ watch.greedy < OvercurrentDuration

(* A charge cycle has an absolute cap in wall time too, although not MAX_CHARGE *)
(* itself: a tick without a battery sample does not count towards the cap.      *)
CycleIsCapped == watch.cycle < CycleBound

(* On a board with the sensor, sourcing on an unread pack temperature ends,   *)
(* although not within PACK_TEMP_STALE_TIMEOUT: the gauntlet returns before it *)
(* looks at the temperature on a tick without a battery sample, and on the     *)
(* tick that parks on an overcurrent.                                          *)
UnreadTemperatureEnds ==
    \/ watch.unfelt < UnfeltBound
    \/ /\ machine.state \in Parked
       /\ \E dt \in Elapsed : watch.unfelt < UnfeltBound + ParkSlack(dt)
=============================================================================
