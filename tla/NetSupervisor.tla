---------------------------- MODULE NetSupervisor ----------------------------
(***************************************************************************)
(* The network supervisor (logic/src/net/net_supervisor.rs): one pure      *)
(* transition per tick, from a phase and a poll to a phase and an action.  *)
(*                                                                         *)
(* Credentials are [ssid, pass] records over a set of networks; a pair     *)
(* belongs to a real network when its two halves agree.  A phase carries   *)
(* `age`, the time since the instant the code stores in it (`since`,       *)
(* `session_start`), and StaServing is two values of `at`, "StaServing"    *)
(* with the link up and "StaDown" with it down since `age` ago.            *)
(***************************************************************************)
EXTENDS Naturals

CONSTANTS
    Networks,               (* names and passphrases: one of each per network *)
    CaptiveAfterDisconnect, (* grace before the portal replaces the dashboard *)
    CaptiveTryingTimeout    (* association budget of submitted credentials    *)

ASSUME NetTimeoutAssumption ==
    {CaptiveAfterDisconnect, CaptiveTryingTimeout} \subseteq Nat \ {0}

ASSUME NetworksAssumption == "None" \notin Networks

Credentials == [ssid : Networks, pass : Networks]
None == [ssid |-> "None"]
Pair(n) == [ssid |-> n, pass |-> n]
Works(creds) == creds # None /\ creds.ssid = creds.pass

CaptivePhases == {"CaptiveIdle", "CaptiveTrying", "CaptiveFallbackRetrying"}
StaPhases == {"StaConnecting", "StaServing", "StaDown"}
Timed == {"CaptiveTrying", "StaConnecting", "StaDown"}

At(name, creds) == [at |-> name, creds |-> creds, age |-> 0]
CaptiveIdle == At("CaptiveIdle", None)

(* Mutant: a missed tick while down restarts the grace. *)
Aged_Refreshed(phase, dt) ==
    IF phase.at \in Timed THEN [phase EXCEPT !.age = dt] ELSE phase

(* Time passes for the phases that hold an instant. *)
Aged(phase, dt) ==
    IF phase.at \in Timed THEN [phase EXCEPT !.age = @ + dt] ELSE phase

(* `NetSupervisor::new` *)
Boot(creds) == IF creds = None THEN CaptiveIdle ELSE At("StaConnecting", creds)

(* `polls_association` *)
PollsAssociation(phase) == phase.at # "CaptiveIdle"

-----------------------------------------------------------------------------
(* `step`: what the phase and the poll lead to, a phase and an action. *)

Do(name) == [do |-> name, creds |-> None]
DoWith(name, creds) == [do |-> name, creds |-> creds]
To(phase, act) == [phase |-> phase, action |-> act]

Promote(creds) == To(At("StaServing", creds), DoWith("PromoteToSta", creds))
TryCreds(creds) == To(At("CaptiveTrying", creds), DoWith("ApplyCreds", creds))
FallBack(creds) ==
    To(At("CaptiveFallbackRetrying", creds), DoWith("FallbackToCaptive", creds))

(* Mutant: a reset is forgotten while the link is down. *)
Resets_ServingOnly(phase, poll) == poll.reset /\ phase.at = "StaServing"

Resets(phase, poll) == poll.reset /\ phase.at \in StaPhases

StepIdle(phase, poll) ==
    IF poll.submitted # None THEN TryCreds(poll.submitted) ELSE To(phase, Do("RefreshScan"))

(* Mutant: a pair that does not associate is tried again instead of given up. *)
StepTrying_Again(phase, poll) ==
    IF poll.associated THEN Promote(phase.creds)
    ELSE IF poll.submitted # None THEN TryCreds(poll.submitted)
    ELSE IF phase.age >= CaptiveTryingTimeout THEN TryCreds(phase.creds)
    ELSE To(phase, Do("Nothing"))

(* An association beats a submission of the same tick, which beats the timeout. *)
StepTrying(phase, poll) ==
    IF poll.associated THEN Promote(phase.creds)
    ELSE IF poll.submitted # None THEN TryCreds(poll.submitted)
    ELSE IF phase.age >= CaptiveTryingTimeout THEN To(CaptiveIdle, Do("MarkSubmissionFailed"))
    ELSE To(phase, Do("Nothing"))

(* Mutant: the submission of the same tick is the one that is promoted. *)
StepRetrying_Latest(phase, poll) ==
    IF poll.submitted # None /\ poll.associated THEN Promote(poll.submitted)
    ELSE IF poll.associated THEN Promote(phase.creds)
    ELSE IF poll.submitted # None THEN TryCreds(poll.submitted)
    ELSE To(phase, Do("RefreshScan"))

StepRetrying(phase, poll) ==
    IF poll.associated THEN Promote(phase.creds)
    ELSE IF poll.submitted # None THEN TryCreds(poll.submitted)
    ELSE To(phase, Do("RefreshScan"))

StepConnecting(phase, poll) ==
    IF poll.associated THEN To(At("StaServing", phase.creds), Do("StartMdns"))
    ELSE IF phase.age >= CaptiveAfterDisconnect THEN FallBack(phase.creds)
    ELSE To(phase, Do("Nothing"))

(* The grace counts from the first miss; that tick itself is too early to give up. *)
StepServing(phase, poll) ==
    CASE poll.associated -> To(At("StaServing", phase.creds), Do("Nothing"))
      [] ~poll.associated /\ phase.at = "StaServing" -> To(At("StaDown", phase.creds), Do("Nothing"))
      [] OTHER -> IF phase.age >= CaptiveAfterDisconnect THEN FallBack(phase.creds)
                  ELSE To(phase, Do("Nothing"))

Step(phase, poll) ==
    CASE Resets(phase, poll) -> To(CaptiveIdle, Do("ForceCaptive"))
      [] ~Resets(phase, poll) /\ phase.at = "CaptiveIdle" -> StepIdle(phase, poll)
      [] ~Resets(phase, poll) /\ phase.at = "CaptiveTrying" -> StepTrying(phase, poll)
      [] ~Resets(phase, poll) /\ phase.at = "CaptiveFallbackRetrying" -> StepRetrying(phase, poll)
      [] ~Resets(phase, poll) /\ phase.at = "StaConnecting" -> StepConnecting(phase, poll)
      [] ~Resets(phase, poll) /\ phase.at \in {"StaServing", "StaDown"} -> StepServing(phase, poll)

NetActions == {"Nothing", "RefreshScan", "ApplyCreds", "PromoteToSta", "StartMdns",
               "MarkSubmissionFailed", "FallbackToCaptive", "ForceCaptive"}
==============================================================================
