------------------------------ MODULE Charger ------------------------------
(***************************************************************************)
(* The charger: the xy thread of src/src/xy.rs (boot sequence, poll loop,  *)
(* apply_action and the safe step-down of voltage_writer.rs) driving the   *)
(* charge supervisor on one side and the XY7025 buck over Modbus on the    *)
(* other.  Every Modbus call is a step of its own, and between two of them *)
(* the buck can change by itself and the MCU can reboot.                   *)
(*                                                                         *)
(* The buck is external: it is modelled from the registers the source      *)
(* reads and writes and the behaviour its comments rely on.  OUTPUT_EN     *)
(* reads on when the switch is on and no protection is up; a self-clearing *)
(* protection leaves the switch alone, any other turns it off.             *)
(***************************************************************************)
EXTENDS ChargeSupervisor

CONSTANTS
    Outcomes,       (* of a Modbus write: "Ok"; "Lost", an error and the     *)
                    (* write never arrived; "Mute", an error but it did      *)
    Trips,          (* protections the buck can raise while its output is on *)
    PanelUsed,      (* whether someone may touch the buck's front panel      *)
    RebootAllowed,  (* whether the MCU may reboot at any moment              *)
    BootRetryCount,
    PowerOnDefaults (* S_INI when the MCU starts: FALSE as every earlier     *)
                    (* boot left it, TRUE on a buck it never talked to       *)

ASSUME ChargerAssumption ==
    /\ Outcomes \subseteq {"Ok", "Lost", "Mute"} /\ "Ok" \in Outcomes
    /\ Trips \subseteq Causes \ {"Normal"}
    /\ {PanelUsed, RebootAllowed} \subseteq BOOLEAN
    /\ PowerOnDefaults \subseteq BOOLEAN
    /\ BootRetryCount \in Nat \ {0}

VARIABLES
    device,     (* the buck: switch, cause, target (V_SET/I_SET), s_ini      *)
    at,         (* where the xy thread is: its next Modbus call              *)
    attempts    (* failed boot sequences since the MCU started               *)

svars == <<machine, fault, inhibit, action>>
cvars == <<machine, fault, inhibit, action, device, at, attempts>>

Devices == [switch : BOOLEAN, cause : Causes, target : Phases \cup {"Other"},
            s_ini : BOOLEAN]

BootPoints == {"off", "clear", "s_ini", "program", "verify", "giveup"}
StepDownPoints == {"lower", "restore", "enable", "enable again"}
Points == BootPoints \cup {"poll", "apply"} \cup StepDownPoints

(* OUTPUT_EN as the status register reports it. *)
On(d) == d.switch /\ d.cause = "Normal"

StatusOf(d) == [read |-> TRUE, target |-> d.target, on |-> On(d), cause |-> d.cause]
ReadFailed == [read |-> FALSE, target |-> "Other", on |-> FALSE, cause |-> "Normal"]

-----------------------------------------------------------------------------
(* Modbus writes. *)

ClearedCause(d) == IF SelfClearing(d.cause) THEN d.cause ELSE "Normal"

SetOutput(d, on) ==
    [d EXCEPT !.switch = on, !.cause = IF on THEN ClearedCause(d) ELSE @]
SetTarget(d, phase) == [d EXCEPT !.target = phase]
ClearProtection(d) == [d EXCEPT !.cause = ClearedCause(d)]
SetPowerOnDefault(d, on) == [d EXCEPT !.s_ini = on]

(* A write that would leave the buck as d ends with outcome o. *)
Write(o, d) == device' = IF o = "Lost" THEN device ELSE d

GoTo(point) == at' = point /\ UNCHANGED attempts

-----------------------------------------------------------------------------
(* `boot_sequence` under `boot_with_retries`. *)

BootFails ==
    IF attempts + 1 < BootRetryCount
    THEN at' = "off" /\ attempts' = attempts + 1
    ELSE at' = "giveup" /\ attempts' = 0

BootWrite(here, d, next) ==
    /\ at = here
    /\ \E o \in Outcomes : Write(o, d) /\ IF o = "Ok" THEN GoTo(next) ELSE BootFails
    /\ UNCHANGED svars

(* A boot that fails in the model check before any write is a lost BootOff. *)
BootOff   == BootWrite("off", SetOutput(device, FALSE), "clear")
BootClear == BootWrite("clear", ClearProtection(device), "s_ini")
BootIni   == BootWrite("s_ini", SetPowerOnDefault(device, FALSE), "program")

(* Limits, V_SET and I_SET: three writes, of which some may have landed when *)
(* one fails.                                                                *)
BootProgram ==
    /\ at = "program"
    /\ \/ device' = SetTarget(device, "Float") /\ GoTo("verify")
       \/ /\ Outcomes # {"Ok"}
          /\ \E target \in {device.target, "Other", "Float"} :
                device' = SetTarget(device, target)
          /\ BootFails
    /\ UNCHANGED svars

(* The readback: hand over to the supervisor only if the buck reports what   *)
(* was written and an output that is off.                                    *)
BootVerify ==
    /\ at = "verify"
    /\ \E read \in BOOLEAN :
          IF read /\ device.target = "Float" /\ ~On(device)
          THEN GoTo("poll") ELSE BootFails
    /\ UNCHANGED <<svars, device>>

(* All attempts failed: one best-effort disable, then the MCU reboots. *)
BootGiveUp ==
    /\ at = "giveup"
    /\ \E o \in Outcomes : Write(o, SetOutput(device, FALSE))
    /\ GoTo("off")
    /\ UNCHANGED svars

Boot == BootOff \/ BootClear \/ BootIni \/ BootProgram \/ BootVerify \/ BootGiveUp

-----------------------------------------------------------------------------
(* `run`: one iteration is a poll with its tick, then the action it asked for. *)

PollOf(buck, battery, temp) == [buck |-> buck, battery |-> battery, temp |-> temp]

PollAndTick(buck) ==
    /\ at = "poll"
    /\ \E battery \in Samples, temp \in Temps, dt \in Elapsed :
          Tick(PollOf(buck, battery, temp), dt)
    /\ GoTo("apply")
    /\ UNCHANGED device

PollRead == PollAndTick(StatusOf(device))
PollUnread == PollAndTick(ReadFailed)

(* The iteration ends; a ticket that was not redeemed is dropped, and the   *)
(* next tick writes over it.                                                *)
DropTicket == GoTo("poll") /\ UNCHANGED svars
Redeem(commit) == GoTo("poll") /\ commit

ApplyNone ==
    /\ at = "apply" /\ action.do = "None"
    /\ DropTicket /\ UNCHANGED device

ApplyEnable ==
    /\ at = "apply" /\ action.do = "EnableOutput"
    /\ \E o \in Outcomes :
          /\ Write(o, SetOutput(device, TRUE))
          /\ IF o = "Ok" THEN Redeem(CommitEnable) ELSE DropTicket

(* Mutant: the disable is taken for done whatever the write returned. *)
ApplyDisable_Optimistic ==
    /\ at = "apply" /\ action.do = "DisableOutput"
    /\ \E o \in Outcomes : Write(o, SetOutput(device, FALSE))
    /\ Redeem(CommitDisable)

ApplyDisable ==
    /\ at = "apply" /\ action.do = "DisableOutput"
    /\ \E o \in Outcomes :
          /\ Write(o, SetOutput(device, FALSE))
          /\ IF o = "Ok" THEN Redeem(CommitDisable) ELSE DropTicket

(* Mutant: the step-up is taken for done whatever the write returned. *)
ApplyStepUp_Optimistic ==
    /\ at = "apply" /\ action.do = "UpdateVoltage" /\ ~action.cycle_output
    /\ \E o \in Outcomes : Write(o, SetTarget(device, action.phase))
    /\ Redeem(CommitVoltage)

(* `apply_update_voltage`: a step-up is one live write. *)
ApplyStepUp ==
    /\ at = "apply" /\ action.do = "UpdateVoltage" /\ ~action.cycle_output
    /\ \E o \in Outcomes :
          /\ Write(o, SetTarget(device, action.phase))
          /\ IF o = "Ok" THEN Redeem(CommitVoltage) ELSE DropTicket

(* A step-down goes off, lower, on; it is a retry until V_SET has landed and *)
(* committed from there on, even if the output could not be turned on again. *)
StepDownOff ==
    /\ at = "apply" /\ action.do = "UpdateVoltage" /\ action.cycle_output
    /\ \E o \in Outcomes :
          /\ Write(o, SetOutput(device, FALSE))
          /\ IF o = "Ok" THEN GoTo("lower") /\ UNCHANGED svars ELSE DropTicket

StepDownLower ==
    /\ at = "lower"
    /\ \E o \in Outcomes :
          /\ Write(o, SetTarget(device, action.phase))
          /\ GoTo(IF o = "Ok" THEN "enable" ELSE "restore")
    /\ UNCHANGED svars

StepDownRestore ==
    /\ at = "restore"
    /\ \E o \in Outcomes : Write(o, SetOutput(device, TRUE))
    /\ DropTicket

StepDownEnable ==
    /\ at = "enable"
    /\ \E o \in Outcomes :
          /\ Write(o, SetOutput(device, TRUE))
          /\ IF o = "Ok" THEN Redeem(CommitVoltage)
             ELSE GoTo("enable again") /\ UNCHANGED svars

StepDownEnableAgain ==
    /\ at = "enable again"
    /\ \E o \in Outcomes : Write(o, SetOutput(device, TRUE))
    /\ Redeem(CommitVoltage)

Apply == \/ ApplyNone \/ ApplyEnable \/ ApplyDisable \/ ApplyStepUp
         \/ StepDownOff \/ StepDownLower \/ StepDownRestore
         \/ StepDownEnable \/ StepDownEnableAgain

-----------------------------------------------------------------------------
(* What happens to the firmware and to the buck. *)

(* A panic, the watchdog, an upload: the supervisor starts over, the buck    *)
(* keeps its registers.                                                      *)
Reboot ==
    /\ RebootAllowed
    /\ at' = "off" /\ attempts' = 0
    /\ machine' = NewMachine /\ fault' = "None" /\ inhibit' = "None"
    /\ action' = NoAction
    /\ UNCHANGED device

Trip ==
    /\ On(device)
    /\ \E c \in Trips :
          device' = [device EXCEPT !.cause = c, !.switch = @ /\ SelfClearing(c)]
    /\ UNCHANGED <<svars, at, attempts>>

(* The condition lifts: the buck comes back on if its switch still is. *)
Recover ==
    /\ SelfClearing(device.cause)
    /\ device' = [device EXCEPT !.cause = "Normal"]
    /\ UNCHANGED <<svars, at, attempts>>

(* The buck itself loses power and comes back as S_INI says. *)
PowerCycle ==
    /\ device' = [device EXCEPT !.switch = device.s_ini, !.cause = "Normal"]
    /\ UNCHANGED <<svars, at, attempts>>

Panel ==
    /\ PanelUsed
    /\ \/ device' = SetOutput(device, ~device.switch)
       \/ device' = SetTarget(device, "Other")
    /\ UNCHANGED <<svars, at, attempts>>

-----------------------------------------------------------------------------
ChargerInit ==
    /\ Init
    /\ device \in [switch : BOOLEAN, cause : {"Normal"}, target : Phases \cup {"Other"},
                   s_ini : PowerOnDefaults]
    /\ at = "off"
    /\ attempts = 0

ChargerNext == Boot \/ PollRead \/ PollUnread \/ Apply \/ Reboot \/ Trip \/ Recover \/ PowerCycle \/ Panel

ChargerSpec == ChargerInit /\ [][ChargerNext]_cvars

(* The xy thread keeps running, and the Modbus link is not dead: of what it   *)
(* tries over and over some gets through, a status read, the disable of a     *)
(* boot or of a fault, a step-up, the steps of a step-down.                   *)
Firmware == Boot \/ PollRead \/ PollUnread \/ Apply

FairChargerSpec ==
    /\ ChargerSpec
    /\ WF_cvars(Firmware)
    /\ SF_cvars(PollRead)
    /\ SF_cvars(BootOff /\ at' = "clear")
    /\ SF_cvars(ApplyDisable /\ CommitDisable)
    /\ SF_cvars(ApplyStepUp /\ CommitVoltage)
    /\ SF_cvars(StepDownOff /\ at' = "lower")
    /\ SF_cvars(StepDownLower /\ at' = "enable")

-----------------------------------------------------------------------------
(***************************************************************************)
(* Properties.                                                             *)
(***************************************************************************)

(* Every variable keeps its type; a boot never runs more than its attempts. *)
ChargerTypeOK ==
    /\ TypeOK
    /\ device \in Devices
    /\ at \in Points
    /\ attempts \in 0..BootRetryCount - 1

Supervising == at \in {"poll", "apply"}

(* Between two writes the buck holds the target the supervisor's state names: *)
(* the drift check compares against what was really written (the reason the   *)
(* To* states and the tickets exist).                                         *)
DeviceHoldsTarget ==
    Supervising /\ machine.state \in States \ Terminal
        => device.target = SetpointPhase(machine.state)

(* A supervised step-down lowers V_SET only on a dark output, so the pack     *)
(* never drives current back through the buck (`cycle_output`).               *)
StepDownIsDark ==
    [][(at \notin BootPoints /\ device'.target = "Float" /\ device.target # "Float")
          => ~On(device)]_cvars

(* A buck reported disabled for a fault is off and stays off, whatever else   *)
(* the buck does by itself.                                                   *)
LatchedIsDark == machine.state = "Latched" => ~device.switch

(* Once a fault has ended the charge, the pack is held at the absorb target   *)
(* only while the write that takes it down has not got through, and every     *)
(* iteration asks for that write; without a battery sample a park waits.      *)
FaultEndsCharge ==
    fault # "None" /\ Supervising /\ On(device) /\ device.target = "Absorb" =>
        \/ /\ machine.state = "ToParked"
           /\ at = "apply" => action.do = "UpdateVoltage" \/ inhibit = "NoBatterySample"
        \/ /\ machine.state = "Tripping"
           /\ at = "apply" => action.do = "DisableOutput"

(* The firmware never latches on its own doing: with no hand on the panel, a  *)
(* fault that blames a changed setpoint or an output that came on by itself   *)
(* does not happen, however many writes were lost on the way.                 *)
NoSelfInflictedLatch == fault \notin {"SettingsDrift", "OutputOnInPending"}

(* A transient Modbus glitch on a V_SET write is retried and does not latch   *)
(* SettingsDrift (action.rs, UpdateVoltage).                                  *)
GlitchIsRetried == fault # "SettingsDrift"

(* Once a tick has gone through its checks, not sourcing really does mean     *)
(* that nothing is sourcing (charge_supervisor.rs, gauntlet): the unit does   *)
(* not sit in bring-up while its buck is on.                                  *)
IdleIsDark ==
    [][at = "poll" /\ at' = "apply" /\ machine'.state \in BringingUp
          => ~On(device)]_cvars

(* A latch wins over a hand on the panel: whatever turns the output of a      *)
(* latched unit on again, it goes dark again.                                 *)
LatchWins == (machine.state \in Terminal /\ On(device)) ~> ~On(device)

(* An output that regulates to a target nobody commanded is turned off, or    *)
(* put back on a target of the profile.                                       *)
StrayTargetEnds ==
    (On(device) /\ device.target = "Other") ~> (~On(device) \/ device.target # "Other")

(* A park under way lands: the step-down gets through, or what keeps it from  *)
(* getting through latches the unit.                                          *)
ParkLands == (machine.state = "ToParked") ~> (machine.state # "ToParked")
=============================================================================
