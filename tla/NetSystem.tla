------------------------------ MODULE NetSystem ------------------------------
(***************************************************************************)
(* The main loop (src/main.rs) around the network supervisor, with the     *)
(* state it shares with the HTTP handlers: the /save mailbox, the status   *)
(* of the submission, the /wifi-reset flag, and NVS.  One action per step  *)
(* that another thread can observe.  The MCU can reboot between any two.   *)
(*                                                                         *)
(* External: the link of the STA half.  It only changes while the loop     *)
(* sleeps or is inside try_connect, and comes up only on a pair that       *)
(* belongs to a network.  A handler takes milliseconds: it never spans a   *)
(* whole sleep of the loop.  Stopping a server waits for its handler.      *)
(***************************************************************************)
EXTENDS NetSupervisor

CONSTANTS
    Elapsed,        (* wall time of one iteration of the loop            *)
    MaxSaves,       (* bound: submissions of the user                    *)
    MaxReboots      (* bound: reboots of the MCU                         *)

ASSUME BoundsAssumption ==
    Elapsed \subseteq Nat \ {0} /\ {MaxSaves, MaxReboots} \subseteq Nat

VARIABLES
    phase,      (* the supervisor's phase                                    *)
    main,       (* where the main loop is, with the poll or action it holds  *)
    radio,      (* [kind, creds, link, mdns]: the shape of NetResources, the *)
                (* pair on the STA half, whether it is associated, and       *)
                (* whether the one mDNS responder is taken                   *)
    shared,     (* [mailbox, status, reset]: what the handlers share         *)
    nvs,        (* the two stored strings, "None" when unset                 *)
    handler,    (* the request in flight: [at, creds], Quiet if none         *)
    left,       (* [saves, reboots] still allowed by the bounds              *)
    seen        (* history: the pairs that have associated; whether a reset  *)
                (* was answered, with no submission and no boot on a pair    *)
                (* since; the keys the last reset could not remove; whether  *)
                (* a reboot cut a save in two                                *)

vars == <<phase, main, radio, shared, nvs, handler, left, seen>>

Empty == [ssid |-> "None", pass |-> "None"]

(* `nvs_creds::load`: a pair with either half missing is no pair. *)
Load(store) == IF "None" \in {store.ssid, store.pass} THEN None ELSE store

MixedWith(creds) == [kind |-> "Mixed", creds |-> creds, link |-> FALSE, mdns |-> FALSE]
StaWith(creds, mdns) == [kind |-> "Sta", creds |-> creds, link |-> FALSE, mdns |-> mdns]
BootRadio(creds) == IF creds = None THEN MixedWith(None) ELSE StaWith(creds, FALSE)

Sleeping == [at |-> "sleep"]
Quiet == [at |-> "idle"]

-----------------------------------------------------------------------------
(* The main loop: sleep, poll, tick, apply. *)

Sleep ==
    /\ main = Sleeping /\ handler = Quiet
    /\ \E dt \in Elapsed : phase' = Aged(phase, dt)
    /\ main' = [at |-> "lapped"]
    /\ UNCHANGED <<radio, shared, nvs, handler, left, seen>>

(* `take_creds` finds a mailbox only beside a Mixed radio. *)
Submitted == IF radio.kind = "Mixed" THEN shared.mailbox ELSE None

(* `try_connect`, then `take_creds`. *)
Poll ==
    /\ main.at = "lapped"
    /\ \E up \in BOOLEAN :
        /\ up => PollsAssociation(phase) /\ Works(radio.creds)
        /\ radio' = [radio EXCEPT !.link = up]
        /\ seen' = [seen EXCEPT !.proven = IF up THEN @ \cup {radio.creds} ELSE @]
        /\ main' = [at |-> "polled", associated |-> up, submitted |-> Submitted]
    /\ shared' = [shared EXCEPT !.mailbox = IF radio.kind = "Mixed" THEN None ELSE @]
    /\ UNCHANGED <<phase, nvs, handler, left>>

(* `reset.take`, then the supervisor's tick. *)
Decide ==
    /\ main.at = "polled"
    /\ LET poll == [associated |-> main.associated, submitted |-> main.submitted,
                    reset |-> shared.reset]
           step == Step(phase, poll)
       IN  /\ phase' = step.phase
           /\ main' = [at |-> "apply", action |-> step.action]
    /\ shared' = [shared EXCEPT !.reset = FALSE]
    /\ UNCHANGED <<radio, nvs, handler, left, seen>>

Applying(name) == main.at = "apply" /\ main.action.do = name

ApplyQuiet ==
    /\ \E name \in {"Nothing", "RefreshScan"} : Applying(name)
    /\ main' = Sleeping
    /\ UNCHANGED <<phase, radio, shared, nvs, handler, left, seen>>

(* mDNS needs a live interface: it is taken on the first association. *)
StartMdns ==
    /\ Applying("StartMdns") /\ radio.kind = "Sta"
    /\ radio' = [radio EXCEPT !.mdns = TRUE]
    /\ main' = Sleeping
    /\ UNCHANGED <<phase, shared, nvs, handler, left, seen>>

(* Any change of the STA half's configuration drops the association. *)
ApplyCreds ==
    /\ Applying("ApplyCreds") /\ radio.kind = "Mixed"
    /\ radio' = MixedWith(main.action.creds)
    /\ shared' = [shared EXCEPT !.status = "Trying"]
    /\ main' = Sleeping
    /\ UNCHANGED <<phase, nvs, handler, left, seen>>

(* Mutant: the radio keeps the pair that failed. *)
MarkFailed_KeepsCreds ==
    /\ Applying("MarkSubmissionFailed") /\ radio.kind = "Mixed"
    /\ shared' = [shared EXCEPT !.status = "Failed"]
    /\ main' = Sleeping
    /\ UNCHANGED <<phase, radio, nvs, handler, left, seen>>

(* Mutant: the page is not told that the submission failed. *)
MarkFailed_Silent ==
    /\ Applying("MarkSubmissionFailed") /\ radio.kind = "Mixed"
    /\ radio' = MixedWith(None)
    /\ main' = Sleeping
    /\ UNCHANGED <<phase, shared, nvs, handler, left, seen>>

MarkFailed ==
    /\ Applying("MarkSubmissionFailed") /\ radio.kind = "Mixed"
    /\ radio' = MixedWith(None)
    /\ shared' = [shared EXCEPT !.status = "Failed"]
    /\ main' = Sleeping
    /\ UNCHANGED <<phase, nvs, handler, left, seen>>

(* `promote_to_sta`: save the two strings, show `Connected`, linger, then  *)
(* drop the bundle, its mailbox and its status, and switch the radio.      *)
SaveSsid ==
    /\ Applying("PromoteToSta") /\ radio.kind = "Mixed"
    /\ nvs' = [nvs EXCEPT !.ssid = main.action.creds.ssid]
    /\ main' = [main EXCEPT !.at = "saving"]
    /\ UNCHANGED <<phase, radio, shared, handler, left, seen>>

SavePass ==
    /\ main.at = "saving"
    /\ nvs' = [nvs EXCEPT !.pass = main.action.creds.pass]
    /\ shared' = [shared EXCEPT !.status = "Connected"]
    /\ main' = [main EXCEPT !.at = "linger"]
    /\ seen' = [seen EXCEPT !.torn = FALSE]
    /\ UNCHANGED <<phase, radio, handler, left>>

SwitchToSta ==
    /\ main.at = "linger" /\ handler = Quiet
    /\ radio' = StaWith(main.action.creds, TRUE)
    /\ shared' = [shared EXCEPT !.mailbox = None, !.status = "Idle"]
    /\ main' = Sleeping
    /\ UNCHANGED <<phase, nvs, handler, left, seen>>

(* `sta_to_captive`: drop the dashboard, then a fresh bundle. *)
SwitchToCaptive ==
    /\ \E name \in {"FallbackToCaptive", "ForceCaptive"} : Applying(name)
    /\ radio.kind = "Sta" /\ handler = Quiet
    /\ radio' = MixedWith(main.action.creds)
    /\ shared' = [shared EXCEPT !.mailbox = None, !.status = "Idle"]
    /\ main' = Sleeping
    /\ UNCHANGED <<phase, nvs, handler, left, seen>>

(* `warn_out_of_step`, or `EspMdns::take` while it is taken, which panics:   *)
(* the action does not fit the resources.  InStep shows that it never        *)
(* happens, so no action of the loop stands for the loss.                    *)
Mismatched ==
    /\ main.at = "apply"
    /\ \/ /\ main.action.do \in {"ApplyCreds", "MarkSubmissionFailed", "PromoteToSta"}
          /\ radio.kind = "Sta"
       \/ /\ main.action.do \in {"StartMdns", "FallbackToCaptive", "ForceCaptive"}
          /\ radio.kind = "Mixed"
       \/ main.action.do = "StartMdns" /\ radio.mdns

MainLoop ==
    \/ Sleep \/ Poll \/ Decide
    \/ ApplyQuiet \/ StartMdns \/ ApplyCreds \/ MarkFailed
    \/ SaveSsid \/ SavePass \/ SwitchToSta \/ SwitchToCaptive

-----------------------------------------------------------------------------
(* The HTTP handlers, one request at a time on each server. *)

(* POST /save: a new pair overwrites the one still in the mailbox. *)
Save ==
    /\ handler = Quiet /\ radio.kind = "Mixed" /\ left.saves > 0
    /\ \E creds \in Credentials : shared' = [shared EXCEPT !.mailbox = creds]
    /\ handler' = [at |-> "save"]
    /\ left' = [left EXCEPT !.saves = @ - 1]
    /\ seen' = [seen EXCEPT !.forgotten = FALSE, !.kept = {}]
    /\ UNCHANGED <<phase, main, radio, nvs>>

SavePending ==
    /\ handler.at = "save"
    /\ shared' = [shared EXCEPT !.status = "Pending"]
    /\ handler' = Quiet
    /\ UNCHANGED <<phase, main, radio, nvs, left, seen>>

(* `nvs.remove` of one key, which can fail; `clear` throws the result away. *)
Remove(key) ==
    \E removed \in BOOLEAN :
        /\ nvs' = IF removed THEN [nvs EXCEPT ![key] = "None"] ELSE nvs
        /\ seen' = [seen EXCEPT !.kept = IF removed \/ nvs[key] = "None" THEN @ \ {key}
                                        ELSE @ \cup {key}]

(* POST /wifi-reset reaches the dashboard over the link: clear, then raise, *)
(* whatever became of the two removals.                                     *)
ResetSsid ==
    /\ handler = Quiet /\ radio.kind = "Sta" /\ radio.link
    /\ Remove("ssid")
    /\ handler' = [at |-> "reset"]
    /\ UNCHANGED <<phase, main, radio, shared, left>>

ResetPass ==
    /\ handler.at = "reset"
    /\ Remove("pass")
    /\ handler' = [at |-> "raise"]
    /\ UNCHANGED <<phase, main, radio, shared, left>>

(* Mutant: the handler clears what is stored and tells nobody. *)
ResetRaise_Quietly ==
    /\ handler.at = "raise"
    /\ handler' = Quiet
    /\ seen' = [seen EXCEPT !.forgotten = TRUE]
    /\ UNCHANGED <<phase, main, radio, shared, nvs, left>>

ResetRaise ==
    /\ handler.at = "raise"
    /\ shared' = [shared EXCEPT !.reset = TRUE]
    /\ handler' = Quiet
    /\ seen' = [seen EXCEPT !.forgotten = TRUE]
    /\ UNCHANGED <<phase, main, radio, nvs, left>>

Handlers == Save \/ SavePending \/ ResetSsid \/ ResetPass \/ ResetRaise

-----------------------------------------------------------------------------
(* The MCU reboots: all but NVS is lost, and `main` starts again. *)
Reboot ==
    /\ left.reboots > 0
    /\ left' = [left EXCEPT !.reboots = @ - 1]
    /\ phase' = Boot(Load(nvs))
    /\ radio' = BootRadio(Load(nvs))
    /\ shared' = [mailbox |-> None, status |-> "Idle", reset |-> FALSE]
    /\ main' = Sleeping /\ handler' = Quiet
    /\ seen' = [seen EXCEPT !.torn = @ \/ main.at = "saving",
                            !.forgotten = @ /\ Load(nvs) = None]
    /\ UNCHANGED nvs

Init ==
    /\ nvs \in {Empty} \cup {Pair(n) : n \in Networks}
    /\ phase = Boot(Load(nvs))
    /\ radio = BootRadio(Load(nvs))
    /\ shared = [mailbox |-> None, status |-> "Idle", reset |-> FALSE]
    /\ main = Sleeping /\ handler = Quiet
    /\ left = [saves |-> MaxSaves, reboots |-> MaxReboots]
    /\ seen = [proven |-> {Load(nvs)}, forgotten |-> FALSE, kept |-> {}, torn |-> FALSE]

Next == MainLoop \/ Handlers \/ Reboot

(* The loop and the handlers keep running; the user and the radio owe        *)
(* nothing.  The loop's sleep ends however many requests come, so its waits  *)
(* for an idle handler are strongly fair.                                    *)
Fairness == SF_vars(MainLoop) /\ WF_vars(SavePending) /\ WF_vars(ResetPass) /\ WF_vars(ResetRaise)

Spec == Init /\ [][Next]_vars
FairSpec == Spec /\ Fairness

-----------------------------------------------------------------------------
(* Properties. *)

Pairs == Credentials \cup {None}

(* The phase alone says which resources are live and which pair the radio   *)
(* carries (net/mod.rs:3): between two ticks they agree, a dashboard that   *)
(* has been reached is advertised, and no action ever meets resources it    *)
(* cannot be carried out against.                                           *)
InStep ==
    /\ ~Mismatched
    /\ main.at \in {"sleep", "lapped", "polled"} =>
           /\ radio.kind = "Mixed" <=> phase.at \in CaptivePhases
           /\ radio.creds = phase.creds
           /\ radio.mdns <=> phase.at \in {"StaServing", "StaDown"}

(* The page's spinner tells the truth (captive_api.rs, /status): with no     *)
(* submission waiting and no request half done, it turns exactly while the   *)
(* supervisor is trying a pair, whatever the order of the two stores of      *)
(* /save and those of the main loop.                                         *)
SpinnerTellsTruth ==
    (main = Sleeping /\ handler = Quiet /\ radio.kind = "Mixed" /\ shared.mailbox = None) =>
        (shared.status \in {"Pending", "Trying"} <=> phase.at = "CaptiveTrying")

(* What a reboot finds in NVS is a pair that once associated: the pair that *)
(* is saved is the pair that worked, not one submitted beside it.           *)
SavedIsProven ==
    (main.at # "saving" /\ ~seen.torn) => Load(nvs) \in seen.proven \cup {None}

(* "bad creds can't overwrite a known-good pair" (logic/src/net/net_fsm.md:73): *)
(* outside a save, what is stored is a pair that once associated.               *)
KnownGoodSurvives == main.at # "saving" => Load(nvs) \in seen.proven \cup {None}

(* /wifi-reset forgets, in whatever step of the loop it came: once it is      *)
(* answered what it removed is not stored again until the user submits a pair, *)
(* and when the loop rests with the flag taken neither the supervisor nor the  *)
(* radio holds a pair, even if one could not be removed.                       *)
ResetForgets ==
    seen.forgotten =>
        /\ \A key \in {"ssid", "pass"} \ seen.kept : nvs[key] = "None"
        /\ main = Sleeping /\ ~shared.reset =>
               phase.creds = None /\ radio.creds = None /\ shared.mailbox = None

(* ... and the radio is brought back to the bare portal. *)
ResetReachesPortal ==
    seen.forgotten ~> (~seen.forgotten \/ (radio.kind = "Mixed" /\ radio.creds = None))

(* A submission is answered: the page that saw `Pending` comes to see how it *)
(* ended, or its bundle goes because an earlier pair associated.             *)
SaveIsAnswered ==
    shared.status = "Pending" ~> shared.status \in {"Failed", "Connected", "Idle"}

(* There is always a way in: the link is up again and again, or the portal is. *)
AlwaysAWayIn == []<>(radio.link \/ radio.kind = "Mixed")
==============================================================================
