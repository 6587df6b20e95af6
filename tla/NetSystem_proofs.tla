-------------------------- MODULE NetSystem_proofs --------------------------
(***************************************************************************)
(* What is proved about the network: for any set of networks, any grace    *)
(* and budget, any number of submissions and of reboots, the phase and the *)
(* resources stay in step, NVS holds a pair that worked, and a reset       *)
(* forgets what it could remove.                                           *)
(***************************************************************************)
EXTENDS NetSystem, TLAPS

Deciding == [do : NetActions, creds : Pairs]

(* What the main loop holds at each of its steps. *)
MainOK ==
    \/ main \in [at : {"sleep", "lapped"}]
    \/ main \in [at : {"polled"}, associated : BOOLEAN, submitted : Pairs]
    \/ main \in [at : {"apply", "saving", "linger"}, action : Deciding]

Phases == [at : CaptivePhases \cup StaPhases, creds : Pairs, age : Nat]
Radios == [kind : {"Mixed", "Sta"}, creds : Pairs, link : BOOLEAN, mdns : BOOLEAN]
Stores == [ssid : Networks \cup {"None"}, pass : Networks \cup {"None"}]
Statuses == {"Idle", "Pending", "Trying", "Failed", "Connected"}

Keys == {"ssid", "pass"}
Histories == [proven : SUBSET Pairs, forgotten : BOOLEAN, kept : SUBSET Keys, torn : BOOLEAN]

SystemOK ==
    /\ phase \in Phases /\ MainOK
    /\ radio \in Radios
    /\ shared \in [mailbox : Pairs, reset : BOOLEAN, status : Statuses]
    /\ nvs \in Stores
    /\ handler \in [at : {"idle", "save", "reset", "raise"}]
    /\ left \in [saves : Nat, reboots : Nat]
    /\ seen \in Histories

(* A phase that is no captive one has a pair, an idle one has none. *)
PhaseHasPair ==
    phase.creds = None <=> phase.at = "CaptiveIdle"

(* The radio fits the phase. *)
Fits ==
    /\ radio.kind = "Mixed" <=> phase.at \in CaptivePhases
    /\ radio.creds = phase.creds
    /\ radio.mdns <=> phase.at \in {"StaServing", "StaDown"}

(* The radio fits what the action held is going to do with it. *)
Carries(action) ==
    /\ action.do \in {"Nothing", "RefreshScan"} => Fits
    /\ action.do = "RefreshScan" => radio.kind = "Mixed"
    /\ action.do = "StartMdns" =>
           /\ radio.kind = "Sta" /\ ~radio.mdns /\ radio.creds = phase.creds
           /\ phase.at = "StaServing"
    /\ action.do = "ApplyCreds" =>
           /\ radio.kind = "Mixed" /\ ~radio.mdns /\ phase.at = "CaptiveTrying"
           /\ action.creds = phase.creds
    /\ action.do = "MarkSubmissionFailed" =>
           radio.kind = "Mixed" /\ ~radio.mdns /\ phase.at = "CaptiveIdle"
    /\ action.do = "PromoteToSta" =>
           /\ radio.kind = "Mixed" /\ phase.at = "StaServing"
           /\ action.creds = phase.creds /\ action.creds \in seen.proven
    /\ action.do = "FallbackToCaptive" =>
           /\ radio.kind = "Sta" /\ phase.at = "CaptiveFallbackRetrying"
           /\ action.creds = phase.creds
    /\ action.do = "ForceCaptive" =>
           radio.kind = "Sta" /\ phase.at = "CaptiveIdle" /\ action.creds = None

LoopFits ==
    /\ main.at \in {"sleep", "lapped", "polled"} => Fits
    /\ main.at \in {"apply", "saving", "linger"} => Carries(main.action)
    /\ main.at \in {"saving", "linger"} => main.action.do = "PromoteToSta"
    /\ main.at = "polled" =>
           /\ main.associated = radio.link
           /\ main.associated => radio.creds \in seen.proven /\ phase.at # "CaptiveIdle"
           /\ main.submitted # None => radio.kind = "Mixed"

(* A link that is up was seen by the last poll, so the phase serves. *)
LinkFits ==
    radio.kind = "Sta" /\ radio.link =>
        /\ main.at \in {"sleep", "lapped"} => phase.at = "StaServing"
        /\ main.at = "apply" => main.action.do = "ForceCaptive" \/ phase.at = "StaServing"

(* A key the last reset removed is not stored. *)
Gone(key) == key \in seen.kept \/ nvs[key] = "None"

(* A handler is on the server that is up; a reset begins over a link, and is  *)
(* answered before the loop can give that link up.                            *)
HandlerFits ==
    /\ handler.at = "save" => radio.kind = "Mixed"
    /\ handler.at \in {"reset", "raise"} =>
           /\ radio.kind = "Sta"
           /\ main.at = "lapped" => radio.link
           /\ main.at = "polled" => phase.at = "StaServing" \/ main.associated
           /\ main.at = "apply" => main.action.do # "FallbackToCaptive"
           /\ Gone("ssid")
    /\ handler.at = "raise" => Gone("pass")
    /\ radio.kind = "Sta" => shared.mailbox = None

(* What is stored, outside the two writes of a save. *)
StoreFits ==
    /\ main.at = "saving" => nvs.ssid = main.action.creds.ssid
    /\ (main.at # "saving" /\ ~seen.torn) => Load(nvs) \in seen.proven \cup {None}

(* After a reset and before the next submission, its flag is up or the portal *)
(* is bare or about to be.                                                    *)
ForgetFits ==
    seen.forgotten =>
        /\ Gone("ssid") /\ Gone("pass") /\ shared.mailbox = None
        /\ \/ /\ shared.reset /\ radio.kind = "Sta" /\ phase.at \in StaPhases
              /\ main.at \in {"sleep", "lapped", "polled", "apply"}
              /\ main.at = "apply" => main.action.do \in {"Nothing", "StartMdns"}
           \/ /\ phase.at = "CaptiveIdle"
              /\ main.at \in {"sleep", "lapped", "polled", "apply"}
              /\ main.at = "polled" => main.submitted = None
              /\ main.at = "apply" => main.action.do \in {"ForceCaptive", "RefreshScan"}

NetInv ==
    /\ SystemOK /\ PhaseHasPair
    /\ LoopFits /\ LinkFits /\ HandlerFits /\ StoreFits /\ ForgetFits

-----------------------------------------------------------------------------

LEMMA NoneIsNoPair == None \notin Credentials /\ None \in Pairs
<1>1. \A c \in Credentials : c.ssid \in Networks
  BY DEF Credentials
<1>2. None.ssid = "None"
  BY DEF None
<1> QED
  BY <1>1, <1>2, NetworksAssumption DEF Pairs

LEMMA LoadIsPair == ASSUME NEW store \in Stores PROVE Load(store) \in Pairs
<1>1. CASE "None" \in {store.ssid, store.pass}
  BY <1>1 DEF Load, Pairs
<1>2. CASE "None" \notin {store.ssid, store.pass}
  BY <1>2 DEF Load, Pairs, Stores, Credentials
<1> QED
  BY <1>1, <1>2

(* A boot puts the phase and the radio in step. *)
LEMMA BootFits ==
    ASSUME NEW creds \in Pairs, phase' = Boot(creds), radio' = BootRadio(creds)
    PROVE  /\ phase' \in Phases /\ radio' \in Radios /\ PhaseHasPair' /\ Fits'
           /\ ~radio'.link
           /\ creds = None => phase'.at = "CaptiveIdle"
<1>0. None \in Pairs
  BY NoneIsNoPair
<1>1. CASE creds = None
  <2>1. phase' = [at |-> "CaptiveIdle", creds |-> None, age |-> 0]
    BY <1>1 DEF Boot, CaptiveIdle, At
  <2>2. radio' = [kind |-> "Mixed", creds |-> None, link |-> FALSE, mdns |-> FALSE]
    BY <1>1 DEF BootRadio, MixedWith
  <2>3. phase' \in Phases
    BY <1>0, <2>1 DEF Phases, CaptivePhases
  <2>4. radio' \in Radios
    BY <1>0, <2>2 DEF Radios
  <2> QED
    BY <2>1, <2>2, <2>3, <2>4 DEF PhaseHasPair, Fits, CaptivePhases
<1>2. CASE creds # None
  <2>1. phase' = [at |-> "StaConnecting", creds |-> creds, age |-> 0]
    BY <1>2 DEF Boot, At
  <2>2. radio' = [kind |-> "Sta", creds |-> creds, link |-> FALSE, mdns |-> FALSE]
    BY <1>2 DEF BootRadio, StaWith
  <2>3. phase' \in Phases
    BY <2>1 DEF Phases, StaPhases
  <2>4. radio' \in Radios
    BY <2>2 DEF Radios
  <2> QED
    BY <1>2, <2>1, <2>2, <2>3, <2>4 DEF PhaseHasPair, Fits, CaptivePhases
<1> QED
  BY <1>1, <1>2

LEMMA SleepingOK ==
    ASSUME main' = Sleeping PROVE MainOK' /\ main'.at = "sleep"
  BY DEF Sleeping, MainOK

(* The initial states are in step. *)
LEMMA InitNetInv == Init => NetInv
<1> SUFFICES ASSUME Init PROVE NetInv
  OBVIOUS
<1>0. None \in Pairs
  BY NoneIsNoPair
<1>1. nvs \in Stores
  BY DEF Init, Empty, Pair, Stores
<1>2. Load(nvs) \in Pairs
  BY <1>1, LoadIsPair
<1>3. phase = Boot(Load(nvs)) /\ radio = BootRadio(Load(nvs))
  BY DEF Init
<1>4. main = [at |-> "sleep"] /\ handler = [at |-> "idle"]
  BY DEF Init, Sleeping, Quiet
<1>5. /\ phase \in Phases /\ radio \in Radios /\ PhaseHasPair /\ Fits /\ ~radio.link
  <2>1. CASE Load(nvs) = None
    <3>1. phase = [at |-> "CaptiveIdle", creds |-> None, age |-> 0]
      BY <1>3, <2>1 DEF Boot, CaptiveIdle, At
    <3>2. radio = [kind |-> "Mixed", creds |-> None, link |-> FALSE, mdns |-> FALSE]
      BY <1>3, <2>1 DEF BootRadio, MixedWith
    <3> QED
      BY <1>0, <3>1, <3>2 DEF Phases, Radios, PhaseHasPair, Fits, CaptivePhases
  <2>2. CASE Load(nvs) # None
    <3>1. phase = [at |-> "StaConnecting", creds |-> Load(nvs), age |-> 0]
      BY <1>3, <2>2 DEF Boot, At
    <3>2. radio = [kind |-> "Sta", creds |-> Load(nvs), link |-> FALSE, mdns |-> FALSE]
      BY <1>3, <2>2 DEF BootRadio, StaWith
    <3>3. phase \in Phases /\ radio \in Radios
      BY <1>2, <3>1, <3>2 DEF Phases, Radios, StaPhases
    <3> QED
      BY <2>2, <3>1, <3>2, <3>3 DEF PhaseHasPair, Fits, CaptivePhases
  <2> QED
    BY <2>1, <2>2
<1>6. shared = [mailbox |-> None, status |-> "Idle", reset |-> FALSE]
  BY DEF Init
<1>7. seen = [proven |-> {Load(nvs)}, forgotten |-> FALSE, kept |-> {}, torn |-> FALSE]
  BY DEF Init
<1>8. left \in [saves : Nat, reboots : Nat]
  BY BoundsAssumption DEF Init
<1>9. MainOK
  BY <1>4 DEF MainOK
<1>10. SystemOK
  <2>1. shared \in [mailbox : Pairs, reset : BOOLEAN, status : Statuses]
    BY <1>0, <1>6 DEF Statuses
  <2>2. handler \in [at : {"idle", "save", "reset", "raise"}]
    BY <1>4
  <2>3. seen \in Histories
    BY <1>2, <1>7 DEF Histories
  <2> QED
    BY <1>1, <1>5, <1>8, <1>9, <2>1, <2>2, <2>3 DEF SystemOK
<1>11. LoopFits /\ LinkFits
  BY <1>4, <1>5 DEF LoopFits, LinkFits
<1>12. HandlerFits
  BY <1>4, <1>6 DEF HandlerFits
<1>13. StoreFits /\ ForgetFits
  BY <1>4, <1>7 DEF StoreFits, ForgetFits
<1> QED
  BY <1>5, <1>10, <1>11, <1>12, <1>13 DEF NetInv

-----------------------------------------------------------------------------
(* The loop: sleep and poll. *)

LEMMA SleepKeeps == NetInv /\ Sleep => NetInv'
<1> SUFFICES ASSUME NetInv, Sleep PROVE NetInv'
  OBVIOUS
<1> USE DEF NetInv
<1>1. main' = [at |-> "lapped"] /\ main.at = "sleep" /\ handler = Quiet
  BY DEF Sleep, Sleeping
<1>2. UNCHANGED <<radio, shared, nvs, handler, left, seen>>
  BY DEF Sleep
<1>3. phase' \in Phases /\ phase'.at = phase.at /\ phase'.creds = phase.creds
  <2>1. PICK dt \in Elapsed : phase' = Aged(phase, dt)
    BY DEF Sleep
  <2>2. phase \in Phases /\ dt \in Nat
    BY BoundsAssumption DEF SystemOK
  <2>3. CASE phase.at \in Timed
    <3>1. PICK sum \in Nat : sum = phase.age + dt
      BY <2>2 DEF Phases
    <3>2. phase' = [phase EXCEPT !.age = sum]
      BY <2>1, <2>3, <3>1 DEF Aged
    <3> QED
      BY <2>2, <3>2 DEF Phases
  <2>4. CASE phase.at \notin Timed
    BY <2>1, <2>2, <2>4 DEF Aged
  <2> QED
    BY <2>3, <2>4
<1>4. MainOK'
  BY <1>1 DEF MainOK
<1>5. SystemOK'
  BY <1>2, <1>3, <1>4 DEF SystemOK
<1>6. PhaseHasPair'
  BY <1>3 DEF PhaseHasPair
<1>7. LoopFits' /\ LinkFits'
  BY <1>1, <1>2, <1>3 DEF LoopFits, LinkFits, Fits
<1>8. HandlerFits' /\ StoreFits'
  BY <1>1, <1>2 DEF HandlerFits, StoreFits, Quiet
<1>9. ForgetFits'
  BY <1>1, <1>2, <1>3 DEF ForgetFits, Gone
<1> QED
  BY <1>5, <1>6, <1>7, <1>8, <1>9

LEMMA PollKeeps == NetInv /\ Poll => NetInv'
<1> SUFFICES ASSUME NetInv, Poll PROVE NetInv'
  OBVIOUS
<1> USE DEF NetInv
<1>0. None \in Pairs
  BY NoneIsNoPair
<1>1. PICK up \in BOOLEAN :
        /\ up => PollsAssociation(phase) /\ Works(radio.creds)
        /\ radio' = [radio EXCEPT !.link = up]
        /\ seen' = [seen EXCEPT !.proven = IF up THEN @ \cup {radio.creds} ELSE @]
        /\ main' = [at |-> "polled", associated |-> up, submitted |-> Submitted]
  BY DEF Poll
<1>2. /\ main.at = "lapped" /\ UNCHANGED <<phase, nvs, handler, left>>
      /\ shared' = [shared EXCEPT !.mailbox = IF radio.kind = "Mixed" THEN None ELSE @]
  BY DEF Poll
<1>3. /\ phase \in Phases /\ radio \in Radios /\ nvs \in Stores
      /\ shared \in [mailbox : Pairs, reset : BOOLEAN, status : Statuses]
      /\ seen \in Histories
  BY DEF SystemOK
<1>4. Submitted \in Pairs
  BY <1>0, <1>3 DEF Submitted
<1>5. /\ radio' \in Radios /\ radio'.link = up
      /\ radio'.kind = radio.kind /\ radio'.creds = radio.creds /\ radio'.mdns = radio.mdns
  BY <1>1, <1>3 DEF Radios
<1>6. /\ shared' \in [mailbox : Pairs, reset : BOOLEAN, status : Statuses]
      /\ shared'.reset = shared.reset
      /\ shared'.mailbox = IF radio.kind = "Mixed" THEN None ELSE shared.mailbox
  BY <1>0, <1>2, <1>3
<1>7. /\ seen' \in Histories
      /\ seen.proven \subseteq seen'.proven
      /\ up => radio.creds \in seen'.proven
      /\ seen'.torn = seen.torn /\ seen'.forgotten = seen.forgotten /\ seen'.kept = seen.kept
  <2>1. radio.creds \in Pairs
    BY <1>3 DEF Radios
  <2>2. CASE up
    <3>1. seen' = [seen EXCEPT !.proven = seen.proven \cup {radio.creds}]
      BY <1>1, <2>2
    <3> QED
      BY <1>3, <2>1, <3>1 DEF Histories
  <2>3. CASE ~up
    <3>1. seen' = [seen EXCEPT !.proven = seen.proven]
      BY <1>1, <2>3
    <3> QED
      BY <1>3, <2>3, <3>1 DEF Histories
  <2> QED
    BY <2>2, <2>3
<1>8. MainOK' /\ main'.at = "polled" /\ main'.associated = up /\ main'.submitted = Submitted
  BY <1>1, <1>4 DEF MainOK
<1>9. SystemOK'
  BY <1>2, <1>5, <1>6, <1>7, <1>8 DEF SystemOK
<1>10. PhaseHasPair'
  BY <1>2 DEF PhaseHasPair
<1>11. Fits /\ Fits'
  BY <1>2, <1>5 DEF Fits, LoopFits
<1>12. LoopFits'
  <2>1. up => phase.at # "CaptiveIdle"
    BY <1>1 DEF PollsAssociation
  <2>2. Submitted # None => radio.kind = "Mixed"
    BY DEF Submitted
  <2> QED
    BY <1>2, <1>5, <1>7, <1>8, <1>11, <2>1, <2>2 DEF LoopFits
<1>13. LinkFits'
  BY <1>8 DEF LinkFits
<1>14. HandlerFits'
  <2>1. handler.at \in {"reset", "raise"} => phase.at = "StaServing"
    BY <1>2 DEF HandlerFits, LinkFits
  <2> QED
    BY <1>2, <1>5, <1>6, <1>7, <1>8, <2>1 DEF HandlerFits, Gone
<1>15. StoreFits'
  BY <1>2, <1>7, <1>8 DEF StoreFits
<1>16. ForgetFits'
  <2>1. seen.forgotten => Submitted = None
    BY DEF ForgetFits, Submitted
  <2>2. seen.forgotten => shared'.mailbox = None
    BY <1>6 DEF ForgetFits
  <2> QED
    BY <1>2, <1>5, <1>6, <1>7, <1>8, <2>1, <2>2 DEF ForgetFits, Gone
<1> QED
  BY <1>9, <1>10, <1>12, <1>13, <1>14, <1>15, <1>16

-----------------------------------------------------------------------------
(* The tick of the supervisor. *)

Polls == [associated : BOOLEAN, submitted : Pairs, reset : BOOLEAN]

(* What a tick may lead to, from each phase. *)
Leads(p, poll, q, action) ==
    \/ /\ p.at \in StaPhases /\ poll.reset
       /\ q = CaptiveIdle /\ action = Do("ForceCaptive")
    \/ /\ p.at \in CaptivePhases /\ poll.submitted # None
       /\ q = At("CaptiveTrying", poll.submitted)
       /\ action = DoWith("ApplyCreds", poll.submitted)
    \/ /\ p.at \in CaptivePhases /\ poll.submitted = None
       /\ q = p /\ action = Do("RefreshScan")
    \/ /\ p.at \in {"CaptiveTrying", "CaptiveFallbackRetrying"} /\ poll.associated
       /\ q = At("StaServing", p.creds) /\ action = DoWith("PromoteToSta", p.creds)
    \/ /\ p.at = "CaptiveTrying" /\ poll.submitted = None
       /\ q = CaptiveIdle /\ action = Do("MarkSubmissionFailed")
    \/ /\ p.at = "CaptiveTrying" /\ poll.submitted = None
       /\ q = p /\ action = Do("Nothing")
    \/ /\ p.at \in {"StaConnecting", "StaDown"} /\ ~poll.associated /\ ~poll.reset
       /\ q = p /\ action = Do("Nothing")
    \/ /\ p.at = "StaConnecting" /\ poll.associated /\ ~poll.reset
       /\ q = At("StaServing", p.creds) /\ action = Do("StartMdns")
    \/ /\ p.at \in {"StaConnecting", "StaDown"} /\ ~poll.associated /\ ~poll.reset
       /\ q = At("CaptiveFallbackRetrying", p.creds)
       /\ action = DoWith("FallbackToCaptive", p.creds)
    \/ /\ p.at \in {"StaServing", "StaDown"} /\ poll.associated /\ ~poll.reset
       /\ q = At("StaServing", p.creds) /\ action = Do("Nothing")
    \/ /\ p.at = "StaServing" /\ ~poll.associated /\ ~poll.reset
       /\ q = At("StaDown", p.creds) /\ action = Do("Nothing")

LEMMA StepLeads ==
    ASSUME NEW p \in Phases, NEW poll \in Polls
    PROVE  Leads(p, poll, Step(p, poll).phase, Step(p, poll).action)
<1>1. p.at \in {"CaptiveIdle", "CaptiveTrying", "CaptiveFallbackRetrying",
                "StaConnecting", "StaServing", "StaDown"}
  BY DEF Phases, CaptivePhases, StaPhases
<1>2. CASE Resets(p, poll)
  <2>1. Step(p, poll) = To(CaptiveIdle, Do("ForceCaptive"))
    BY <1>2 DEF Step
  <2> QED
    BY <1>2, <2>1 DEF Leads, Resets, To
<1>3. CASE ~Resets(p, poll) /\ p.at = "CaptiveIdle"
  <2>1. Step(p, poll) = StepIdle(p, poll)
    BY <1>3 DEF Step
  <2> QED
    BY <1>3, <2>1 DEF Leads, StepIdle, TryCreds, To, CaptivePhases
<1>4. CASE ~Resets(p, poll) /\ p.at = "CaptiveTrying"
  <2>1. Step(p, poll) = StepTrying(p, poll)
    BY <1>4 DEF Step
  <2> QED
    BY <1>4, <2>1 DEF Leads, StepTrying, TryCreds, Promote, To, CaptivePhases
<1>5. CASE ~Resets(p, poll) /\ p.at = "CaptiveFallbackRetrying"
  <2>1. Step(p, poll) = StepRetrying(p, poll)
    BY <1>5 DEF Step
  <2> QED
    BY <1>5, <2>1 DEF Leads, StepRetrying, TryCreds, Promote, To, CaptivePhases
<1>6. CASE ~Resets(p, poll) /\ p.at = "StaConnecting"
  <2>1. Step(p, poll) = StepConnecting(p, poll) /\ ~poll.reset
    BY <1>6 DEF Step, Resets, StaPhases
  <2> QED
    BY <1>6, <2>1 DEF Leads, StepConnecting, FallBack, To
<1>7. CASE ~Resets(p, poll) /\ p.at \in {"StaServing", "StaDown"}
  <2>1. Step(p, poll) = StepServing(p, poll) /\ ~poll.reset
    BY <1>7 DEF Step, Resets, StaPhases
  <2> QED
    BY <1>7, <2>1 DEF Leads, StepServing, FallBack, To
<1> QED
  BY <1>1, <1>2, <1>3, <1>4, <1>5, <1>6, <1>7

LEMMA LeadsTyped ==
    ASSUME NEW p \in Phases, NEW poll \in Polls, NEW q, NEW action,
           Leads(p, poll, q, action), p.creds = None <=> p.at = "CaptiveIdle"
    PROVE  q \in Phases /\ action \in Deciding /\ (q.creds = None <=> q.at = "CaptiveIdle")
<1>0. None \in Pairs
  BY NoneIsNoPair
<1>1. p.creds \in Pairs /\ poll.submitted \in Pairs
  BY DEF Phases, Polls
<1>2. \A c \in Pairs, n \in CaptivePhases \cup StaPhases :
          At(n, c) \in Phases /\ At(n, c).at = n /\ At(n, c).creds = c
  BY DEF At, Phases
<1>3. \A c \in Pairs, n \in NetActions : DoWith(n, c) \in Deciding
  BY DEF DoWith, Deciding
<1>4. \A n \in NetActions : Do(n) \in Deciding
  BY <1>0 DEF Do, Deciding
<1>5. q \in Phases /\ (q.creds = None <=> q.at = "CaptiveIdle")
  BY <1>0, <1>1, <1>2 DEF Leads, CaptiveIdle, CaptivePhases, StaPhases
<1>6. action \in Deciding
  BY <1>1, <1>3, <1>4 DEF Leads, NetActions
<1> QED
  BY <1>5, <1>6

LEMMA DecideKeeps == NetInv /\ Decide => NetInv'
<1> SUFFICES ASSUME NetInv, Decide PROVE NetInv'
  OBVIOUS
<1> DEFINE poll == [associated |-> main.associated, submitted |-> main.submitted,
                    reset |-> shared.reset]
           q == Step(phase, poll).phase
           a == Step(phase, poll).action
<1> USE DEF NetInv
<1>1. /\ main.at = "polled" /\ UNCHANGED <<radio, nvs, handler, left, seen>>
      /\ phase' = q /\ main' = [at |-> "apply", action |-> a]
      /\ shared' = [shared EXCEPT !.reset = FALSE]
  BY DEF Decide
<1>2. /\ main.associated \in BOOLEAN /\ main.submitted \in Pairs
      /\ phase \in Phases /\ radio \in Radios
      /\ shared \in [mailbox : Pairs, reset : BOOLEAN, status : Statuses]
  BY <1>1 DEF SystemOK, MainOK
<1>3. /\ poll \in Polls /\ poll.associated = main.associated
      /\ poll.submitted = main.submitted /\ poll.reset = shared.reset
  BY <1>2 DEF Polls
<1> HIDE DEF poll
<1>4. Leads(phase, poll, q, a)
  BY <1>2, <1>3, StepLeads
<1> HIDE DEF q, a
<1>5. q \in Phases /\ a \in Deciding /\ (q.creds = None <=> q.at = "CaptiveIdle")
  BY <1>2, <1>3, <1>4, LeadsTyped DEF PhaseHasPair
<1>6. /\ shared' \in [mailbox : Pairs, reset : BOOLEAN, status : Statuses]
      /\ shared'.mailbox = shared.mailbox
  BY <1>1, <1>2
<1>7. main'.at = "apply" /\ main'.action = a /\ MainOK'
  BY <1>1, <1>5 DEF MainOK
<1>8. SystemOK'
  BY <1>1, <1>5, <1>6, <1>7 DEF SystemOK
<1>9. PhaseHasPair'
  BY <1>1, <1>5 DEF PhaseHasPair
<1>10. Fits /\ (main.submitted # None => radio.kind = "Mixed")
       /\ main.associated = radio.link
       /\ (main.associated => radio.creds \in seen.proven)
  BY <1>1 DEF LoopFits
<1>11. LoopFits'
  <2>1. phase' = q /\ main'.action = a /\ radio' = radio /\ seen' = seen
    BY <1>1, <1>7
  <2>2. a.do \in {"Nothing", "RefreshScan"} => Fits'
    <3>1. a.do \in {"Nothing", "RefreshScan"} =>
             /\ q.creds = phase.creds
             /\ q.at \in CaptivePhases <=> phase.at \in CaptivePhases
             /\ q.at \in {"StaServing", "StaDown"} <=> phase.at \in {"StaServing", "StaDown"}
      BY <1>4 DEF Leads, CaptivePhases, StaPhases, At, Do, DoWith
    <3> QED
      BY <1>10, <2>1, <3>1 DEF Fits
  <2>3. a.do = "RefreshScan" => radio.kind = "Mixed"
    BY <1>4, <1>10 DEF Leads, Do, DoWith, Fits
  <2>4. a.do = "StartMdns" =>
            /\ radio.kind = "Sta" /\ ~radio.mdns /\ radio.creds = q.creds
            /\ q.at = "StaServing"
    BY <1>2, <1>4, <1>10 DEF Leads, Do, DoWith, Fits, At, CaptivePhases, Radios
  <2>5. a.do = "ApplyCreds" =>
            /\ radio.kind = "Mixed" /\ ~radio.mdns /\ q.at = "CaptiveTrying"
            /\ a.creds = q.creds
    BY <1>4, <1>10 DEF Leads, Do, DoWith, Fits, At, CaptivePhases
  <2>6. a.do = "MarkSubmissionFailed" =>
            radio.kind = "Mixed" /\ ~radio.mdns /\ q.at = "CaptiveIdle"
    BY <1>4, <1>10 DEF Leads, Do, DoWith, Fits, At, CaptivePhases, CaptiveIdle
  <2>7. a.do = "PromoteToSta" =>
            /\ radio.kind = "Mixed" /\ q.at = "StaServing"
            /\ a.creds = q.creds /\ a.creds \in seen.proven
    BY <1>3, <1>4, <1>10 DEF Leads, Do, DoWith, Fits, At, CaptivePhases
  <2>8. a.do = "FallbackToCaptive" =>
            /\ radio.kind = "Sta" /\ q.at = "CaptiveFallbackRetrying"
            /\ a.creds = q.creds
    BY <1>2, <1>4, <1>10 DEF Leads, Do, DoWith, Fits, At, CaptivePhases, Radios
  <2>9. a.do = "ForceCaptive" =>
            radio.kind = "Sta" /\ q.at = "CaptiveIdle" /\ a.creds = None
    BY <1>2, <1>4, <1>10
       DEF Leads, Do, DoWith, Fits, At, CaptivePhases, StaPhases, CaptiveIdle, Radios
  <2>10. Carries(main.action)'
    BY <2>1, <2>2, <2>3, <2>4, <2>5, <2>6, <2>7, <2>8, <2>9 DEF Carries
  <2> QED
    BY <1>7, <2>10 DEF LoopFits
<1>12. LinkFits'
  <2>1. radio.kind = "Sta" /\ radio.link => a.do = "ForceCaptive" \/ q.at = "StaServing"
    BY <1>3, <1>4, <1>10 DEF Leads, Do, At, Fits, CaptivePhases
  <2> QED
    BY <1>1, <1>7, <2>1 DEF LinkFits
<1>13. HandlerFits'
  <2>1. handler.at \in {"reset", "raise"} => a.do # "FallbackToCaptive"
    BY <1>1, <1>3, <1>4 DEF HandlerFits, Leads, Do, DoWith
  <2> QED
    BY <1>1, <1>6, <1>7, <2>1 DEF HandlerFits, Gone
<1>14. StoreFits'
  BY <1>1, <1>7 DEF StoreFits
<1>15. ForgetFits'
  <2> SUFFICES ASSUME seen.forgotten PROVE ForgetFits'
    BY <1>1 DEF ForgetFits
  <2>1. Gone("ssid") /\ Gone("pass") /\ shared.mailbox = None
    BY DEF ForgetFits
  <2>2. \/ shared.reset /\ phase.at \in StaPhases
        \/ phase.at = "CaptiveIdle" /\ main.submitted = None
    BY <1>1 DEF ForgetFits
  <2>3. q.at = "CaptiveIdle" /\ a.do \in {"ForceCaptive", "RefreshScan"}
    BY <1>3, <1>4, <2>2
       DEF Leads, Do, DoWith, CaptivePhases, StaPhases, CaptiveIdle, At
  <2> QED
    BY <1>1, <1>6, <1>7, <2>1, <2>3 DEF ForgetFits, Gone
<1> QED
  BY <1>8, <1>9, <1>11, <1>12, <1>13, <1>14, <1>15

-----------------------------------------------------------------------------
(* What the loop does with the action it holds. *)

LEMMA ApplyQuietKeeps == NetInv /\ ApplyQuiet => NetInv'
<1> SUFFICES ASSUME NetInv, ApplyQuiet PROVE NetInv'
  OBVIOUS
<1> USE DEF NetInv
<1>1. /\ main.at = "apply" /\ main.action.do \in {"Nothing", "RefreshScan"}
      /\ main' = [at |-> "sleep"]
      /\ UNCHANGED <<phase, radio, shared, nvs, handler, left, seen>>
  BY DEF ApplyQuiet, Applying, Sleeping
<1>2. Fits
  BY <1>1 DEF LoopFits, Carries
<1>3. SystemOK'
  BY <1>1 DEF SystemOK, MainOK
<1>4. PhaseHasPair' /\ LoopFits'
  BY <1>1, <1>2 DEF PhaseHasPair, LoopFits, Fits
<1>5. LinkFits' /\ HandlerFits' /\ StoreFits' /\ ForgetFits'
  <2>1. HandlerFits'
    BY <1>1 DEF HandlerFits, Gone
  <2>2. StoreFits' /\ ForgetFits'
    BY <1>1 DEF StoreFits, ForgetFits, Gone
  <2>3. LinkFits'
    BY <1>1 DEF LinkFits
  <2> QED
    BY <2>1, <2>2, <2>3
<1> QED
  BY <1>3, <1>4, <1>5

LEMMA StartMdnsKeeps == NetInv /\ StartMdns => NetInv'
<1> SUFFICES ASSUME NetInv, StartMdns PROVE NetInv'
  OBVIOUS
<1> USE DEF NetInv
<1>1. /\ main.at = "apply" /\ main.action.do = "StartMdns" /\ radio.kind = "Sta"
      /\ radio' = [radio EXCEPT !.mdns = TRUE] /\ main' = [at |-> "sleep"]
      /\ UNCHANGED <<phase, shared, nvs, handler, left, seen>>
  BY DEF StartMdns, Applying, Sleeping
<1>2. radio.creds = phase.creds /\ phase.at = "StaServing"
  BY <1>1 DEF LoopFits, Carries
<1>3. /\ radio' \in Radios /\ radio'.mdns /\ radio'.kind = "Sta"
      /\ radio'.creds = radio.creds /\ radio'.link = radio.link
  BY <1>1 DEF SystemOK, Radios
<1>4. SystemOK'
  BY <1>1, <1>3 DEF SystemOK, MainOK
<1>5. PhaseHasPair' /\ LoopFits'
  BY <1>1, <1>2, <1>3 DEF PhaseHasPair, LoopFits, Fits, CaptivePhases
<1>6. LinkFits' /\ HandlerFits'
  BY <1>1, <1>2, <1>3 DEF LinkFits, HandlerFits, Gone
<1>7. StoreFits' /\ ForgetFits'
  BY <1>1, <1>2, <1>3 DEF StoreFits, ForgetFits, Gone
<1> QED
  BY <1>4, <1>5, <1>6, <1>7

LEMMA ApplyCredsKeeps == NetInv /\ ApplyCreds => NetInv'
<1> SUFFICES ASSUME NetInv, ApplyCreds PROVE NetInv'
  OBVIOUS
<1> USE DEF NetInv
<1>1. /\ main.at = "apply" /\ main.action.do = "ApplyCreds" /\ radio.kind = "Mixed"
      /\ radio' = [kind |-> "Mixed", creds |-> main.action.creds, link |-> FALSE, mdns |-> FALSE]
      /\ shared' = [shared EXCEPT !.status = "Trying"] /\ main' = [at |-> "sleep"]
      /\ UNCHANGED <<phase, nvs, handler, left, seen>>
  BY DEF ApplyCreds, Applying, Sleeping, MixedWith
<1>2. phase.at = "CaptiveTrying" /\ main.action.creds = phase.creds
  BY <1>1 DEF LoopFits, Carries
<1>3. radio' \in Radios
  BY <1>1, <1>2 DEF SystemOK, Phases, Radios
<1>4. /\ shared' \in [mailbox : Pairs, reset : BOOLEAN, status : Statuses]
      /\ shared'.mailbox = shared.mailbox /\ shared'.reset = shared.reset
  BY <1>1 DEF SystemOK, Statuses
<1>5. SystemOK'
  BY <1>1, <1>3, <1>4 DEF SystemOK, MainOK
<1>6. PhaseHasPair' /\ LoopFits'
  BY <1>1, <1>2 DEF PhaseHasPair, LoopFits, Fits, CaptivePhases
<1>7. LinkFits' /\ HandlerFits'
  BY <1>1, <1>4 DEF LinkFits, HandlerFits, Gone
<1>8. StoreFits' /\ ForgetFits'
  BY <1>1, <1>2, <1>4 DEF StoreFits, ForgetFits, Gone, StaPhases
<1> QED
  BY <1>5, <1>6, <1>7, <1>8

LEMMA MarkFailedKeeps == NetInv /\ MarkFailed => NetInv'
<1> SUFFICES ASSUME NetInv, MarkFailed PROVE NetInv'
  OBVIOUS
<1> USE DEF NetInv
<1>0. None \in Pairs
  BY NoneIsNoPair
<1>1. /\ main.at = "apply" /\ main.action.do = "MarkSubmissionFailed" /\ radio.kind = "Mixed"
      /\ radio' = [kind |-> "Mixed", creds |-> None, link |-> FALSE, mdns |-> FALSE]
      /\ shared' = [shared EXCEPT !.status = "Failed"] /\ main' = [at |-> "sleep"]
      /\ UNCHANGED <<phase, nvs, handler, left, seen>>
  BY DEF MarkFailed, Applying, Sleeping, MixedWith
<1>2. phase.at = "CaptiveIdle" /\ phase.creds = None
  BY <1>1 DEF LoopFits, Carries, PhaseHasPair
<1>3. radio' \in Radios
  BY <1>0, <1>1 DEF Radios
<1>4. /\ shared' \in [mailbox : Pairs, reset : BOOLEAN, status : Statuses]
      /\ shared'.mailbox = shared.mailbox /\ shared'.reset = shared.reset
  BY <1>1 DEF SystemOK, Statuses
<1>5. SystemOK'
  BY <1>1, <1>3, <1>4 DEF SystemOK, MainOK
<1>6. PhaseHasPair' /\ LoopFits'
  BY <1>1, <1>2 DEF PhaseHasPair, LoopFits, Fits, CaptivePhases
<1>7. LinkFits' /\ HandlerFits'
  BY <1>1, <1>4 DEF LinkFits, HandlerFits, Gone
<1>8. StoreFits' /\ ForgetFits'
  BY <1>1, <1>2, <1>4 DEF StoreFits, ForgetFits, Gone, StaPhases
<1> QED
  BY <1>5, <1>6, <1>7, <1>8

(* A pair that is promoted was forgotten by no reset since. *)
LEMMA PromotedIsWanted ==
    ASSUME NetInv, main.at \in {"apply", "saving", "linger"}, main.action.do = "PromoteToSta"
    PROVE  /\ ~seen.forgotten
           /\ radio.kind = "Mixed" /\ phase.at = "StaServing"
           /\ main.action.creds = phase.creds /\ main.action.creds \in seen.proven
           /\ main.action \in Deciding /\ main.action.creds \in Credentials
<1> USE DEF NetInv
<1>1. ~seen.forgotten
  BY DEF ForgetFits
<1>2. /\ radio.kind = "Mixed" /\ phase.at = "StaServing"
      /\ main.action.creds = phase.creds /\ main.action.creds \in seen.proven
  BY DEF LoopFits, Carries
<1>3. main.action \in Deciding
  BY DEF SystemOK, MainOK
<1>4. phase.creds # None /\ phase.creds \in Pairs
  BY <1>2 DEF PhaseHasPair, SystemOK, Phases
<1> QED
  BY <1>1, <1>2, <1>3, <1>4 DEF Pairs

LEMMA SaveSsidKeeps == NetInv /\ SaveSsid => NetInv'
<1> SUFFICES ASSUME NetInv, SaveSsid PROVE NetInv'
  OBVIOUS
<1>1. /\ main.at = "apply" /\ main.action.do = "PromoteToSta" /\ radio.kind = "Mixed"
      /\ nvs' = [nvs EXCEPT !.ssid = main.action.creds.ssid]
      /\ main' = [main EXCEPT !.at = "saving"]
      /\ UNCHANGED <<phase, radio, shared, handler, left, seen>>
  BY DEF SaveSsid, Applying
<1>2. /\ ~seen.forgotten /\ phase.at = "StaServing"
      /\ main.action.creds = phase.creds /\ main.action.creds \in seen.proven
      /\ main.action \in Deciding /\ main.action.creds \in Credentials
  BY <1>1, PromotedIsWanted
<1> USE DEF NetInv
<1>3. nvs' \in Stores /\ nvs'.ssid = main.action.creds.ssid
  BY <1>1, <1>2 DEF SystemOK, Stores, Credentials
<1>4. main' \in [at : {"apply", "saving", "linger"}, action : Deciding]
      /\ main'.at = "saving" /\ main'.action = main.action
  BY <1>1 DEF SystemOK, MainOK
<1>5. SystemOK'
  BY <1>1, <1>3, <1>4 DEF SystemOK, MainOK
<1>6. PhaseHasPair'
  BY <1>1 DEF PhaseHasPair
<1>7. LoopFits'
  BY <1>1, <1>2, <1>4 DEF LoopFits, Carries
<1>8. LinkFits' /\ HandlerFits'
  BY <1>1, <1>4 DEF LinkFits, HandlerFits
<1>9. StoreFits' /\ ForgetFits'
  BY <1>1, <1>2, <1>3, <1>4 DEF StoreFits, ForgetFits
<1> QED
  BY <1>5, <1>6, <1>7, <1>8, <1>9

LEMMA SavePassKeeps == NetInv /\ SavePass => NetInv'
<1> SUFFICES ASSUME NetInv, SavePass PROVE NetInv'
  OBVIOUS
<1>1. /\ main.at = "saving"
      /\ nvs' = [nvs EXCEPT !.pass = main.action.creds.pass]
      /\ shared' = [shared EXCEPT !.status = "Connected"]
      /\ main' = [main EXCEPT !.at = "linger"]
      /\ seen' = [seen EXCEPT !.torn = FALSE]
      /\ UNCHANGED <<phase, radio, handler, left>>
  BY DEF SavePass
<1>2. main.action.do = "PromoteToSta"
  BY <1>1 DEF NetInv, LoopFits
<1>3. /\ ~seen.forgotten /\ radio.kind = "Mixed" /\ phase.at = "StaServing"
      /\ main.action.creds = phase.creds /\ main.action.creds \in seen.proven
      /\ main.action \in Deciding /\ main.action.creds \in Credentials
  BY <1>1, <1>2, PromotedIsWanted
<1> USE DEF NetInv
<1>4. nvs' \in Stores /\ nvs'.ssid = main.action.creds.ssid /\ nvs'.pass = main.action.creds.pass
  BY <1>1, <1>3 DEF SystemOK, Stores, Credentials, StoreFits
<1>5. Load(nvs') = main.action.creds
  <2>1. nvs'.ssid # "None" /\ nvs'.pass # "None"
    BY <1>3, <1>4, NetworksAssumption DEF Credentials
  <2>2. nvs' = main.action.creds
    BY <1>3, <1>4 DEF Stores, Credentials
  <2> QED
    BY <2>1, <2>2 DEF Load
<1>6. main' \in [at : {"apply", "saving", "linger"}, action : Deciding]
      /\ main'.at = "linger" /\ main'.action = main.action
  BY <1>1 DEF SystemOK, MainOK
<1>7. /\ shared' \in [mailbox : Pairs, reset : BOOLEAN, status : Statuses]
      /\ shared'.mailbox = shared.mailbox
  BY <1>1 DEF SystemOK, Statuses
<1>8. /\ seen' \in Histories
      /\ seen'.proven = seen.proven /\ seen'.forgotten = seen.forgotten
  BY <1>1 DEF SystemOK, Histories
<1>9. SystemOK'
  BY <1>1, <1>4, <1>6, <1>7, <1>8 DEF SystemOK, MainOK
<1>10. PhaseHasPair'
  BY <1>1 DEF PhaseHasPair
<1>11. LoopFits'
  BY <1>1, <1>2, <1>3, <1>6, <1>8 DEF LoopFits, Carries
<1>12. LinkFits' /\ HandlerFits'
  BY <1>1, <1>3, <1>6, <1>7 DEF LinkFits, HandlerFits
<1>13. StoreFits'
  BY <1>3, <1>5, <1>6, <1>8 DEF StoreFits
<1>14. ForgetFits'
  BY <1>3, <1>8 DEF ForgetFits
<1> QED
  BY <1>9, <1>10, <1>11, <1>12, <1>13, <1>14

LEMMA SwitchToStaKeeps == NetInv /\ SwitchToSta => NetInv'
<1> SUFFICES ASSUME NetInv, SwitchToSta PROVE NetInv'
  OBVIOUS
<1>0. None \in Pairs
  BY NoneIsNoPair
<1>1. /\ main.at = "linger" /\ handler = Quiet
      /\ radio' = [kind |-> "Sta", creds |-> main.action.creds, link |-> FALSE, mdns |-> TRUE]
      /\ shared' = [shared EXCEPT !.mailbox = None, !.status = "Idle"]
      /\ main' = [at |-> "sleep"]
      /\ UNCHANGED <<phase, nvs, handler, left, seen>>
  BY DEF SwitchToSta, StaWith, Sleeping
<1>2. main.action.do = "PromoteToSta"
  BY <1>1 DEF NetInv, LoopFits
<1>3. /\ ~seen.forgotten /\ phase.at = "StaServing"
      /\ main.action.creds = phase.creds /\ main.action.creds \in Pairs
  BY <1>1, <1>2, PromotedIsWanted DEF Pairs
<1> USE DEF NetInv
<1>4. radio' \in Radios
  BY <1>1, <1>3 DEF Radios
<1>5. /\ shared' \in [mailbox : Pairs, reset : BOOLEAN, status : Statuses]
      /\ shared'.mailbox = None
  BY <1>0, <1>1 DEF SystemOK, Statuses
<1>6. SystemOK'
  BY <1>1, <1>4, <1>5 DEF SystemOK, MainOK
<1>7. PhaseHasPair' /\ LoopFits'
  BY <1>1, <1>3 DEF PhaseHasPair, LoopFits, Fits, CaptivePhases
<1>8. LinkFits' /\ HandlerFits'
  BY <1>1, <1>5 DEF LinkFits, HandlerFits, Gone, Quiet
<1>9. StoreFits' /\ ForgetFits'
  BY <1>1, <1>3 DEF StoreFits, ForgetFits
<1> QED
  BY <1>6, <1>7, <1>8, <1>9

LEMMA SwitchToCaptiveKeeps == NetInv /\ SwitchToCaptive => NetInv'
<1> SUFFICES ASSUME NetInv, SwitchToCaptive PROVE NetInv'
  OBVIOUS
<1> USE DEF NetInv
<1>0. None \in Pairs
  BY NoneIsNoPair
<1>1. /\ main.at = "apply" /\ main.action.do \in {"FallbackToCaptive", "ForceCaptive"}
      /\ radio.kind = "Sta" /\ handler = Quiet
      /\ radio' = [kind |-> "Mixed", creds |-> main.action.creds, link |-> FALSE, mdns |-> FALSE]
      /\ shared' = [shared EXCEPT !.mailbox = None, !.status = "Idle"]
      /\ main' = [at |-> "sleep"]
      /\ UNCHANGED <<phase, nvs, handler, left, seen>>
  BY DEF SwitchToCaptive, Applying, MixedWith, Sleeping
<1>2. /\ phase.at \in {"CaptiveIdle", "CaptiveFallbackRetrying"}
      /\ main.action.creds = phase.creds /\ phase.creds \in Pairs
  BY <1>0, <1>1 DEF LoopFits, Carries, PhaseHasPair, SystemOK, Phases
<1>3. radio' \in Radios
  BY <1>1, <1>2 DEF Radios
<1>4. /\ shared' \in [mailbox : Pairs, reset : BOOLEAN, status : Statuses]
      /\ shared'.mailbox = None
  BY <1>0, <1>1 DEF SystemOK, Statuses
<1>5. SystemOK'
  BY <1>1, <1>3, <1>4 DEF SystemOK, MainOK
<1>6. PhaseHasPair' /\ LoopFits'
  BY <1>1, <1>2 DEF PhaseHasPair, LoopFits, Fits, CaptivePhases
<1>7. LinkFits' /\ HandlerFits'
  BY <1>1, <1>4 DEF LinkFits, HandlerFits, Gone, Quiet
<1>8. StoreFits'
  BY <1>1 DEF StoreFits
<1>9. ForgetFits'
  BY <1>1, <1>2, <1>4 DEF ForgetFits, Gone, StaPhases
<1> QED
  BY <1>5, <1>6, <1>7, <1>8, <1>9

-----------------------------------------------------------------------------
(* The handlers and the reboot. *)

LEMMA SaveKeeps == NetInv /\ Save => NetInv'
<1> SUFFICES ASSUME NetInv, Save PROVE NetInv'
  OBVIOUS
<1> USE DEF NetInv
<1>1. /\ handler' = [at |-> "save"] /\ radio.kind = "Mixed"
      /\ left.saves > 0 /\ left' = [left EXCEPT !.saves = left.saves - 1]
      /\ seen' = [seen EXCEPT !.forgotten = FALSE, !.kept = {}]
      /\ UNCHANGED <<phase, main, radio, nvs>>
  BY DEF Save
<1>2. PICK creds \in Credentials : shared' = [shared EXCEPT !.mailbox = creds]
  BY DEF Save
<1>3. shared' \in [mailbox : Pairs, reset : BOOLEAN, status : Statuses]
  BY <1>2 DEF SystemOK, Pairs
<1>4. /\ seen' \in Histories
      /\ seen'.proven = seen.proven /\ ~seen'.forgotten /\ seen'.torn = seen.torn
  BY <1>1 DEF SystemOK, Histories
<1>5. left' \in [saves : Nat, reboots : Nat]
  <2>1. left \in [saves : Nat, reboots : Nat]
    BY DEF SystemOK
  <2>2. PICK fewer \in Nat : fewer = left.saves - 1
    BY <1>1, <2>1
  <2>3. left' = [left EXCEPT !.saves = fewer]
    BY <1>1, <2>2
  <2> QED
    BY <2>1, <2>3
<1>6. SystemOK'
  BY <1>1, <1>3, <1>4, <1>5 DEF SystemOK, MainOK
<1>7. PhaseHasPair' /\ LinkFits' /\ StoreFits' /\ ForgetFits'
  BY <1>1, <1>4 DEF PhaseHasPair, LinkFits, StoreFits, ForgetFits
<1>8. LoopFits'
  <2>1. Fits' <=> Fits
    BY <1>1 DEF Fits
  <2>2. main.at \in {"apply", "saving", "linger"} => Carries(main.action)'
    BY <1>1, <1>4, <2>1 DEF LoopFits, Carries
  <2> QED
    BY <1>1, <1>4, <2>1, <2>2 DEF LoopFits
<1>9. HandlerFits'
  BY <1>1 DEF HandlerFits
<1> QED
  BY <1>6, <1>7, <1>8, <1>9

LEMMA SavePendingKeeps == NetInv /\ SavePending => NetInv'
<1> SUFFICES ASSUME NetInv, SavePending PROVE NetInv'
  OBVIOUS
<1> USE DEF NetInv
<1>1. /\ handler' = [at |-> "idle"] /\ shared' = [shared EXCEPT !.status = "Pending"]
      /\ UNCHANGED <<phase, main, radio, nvs, left, seen>>
  BY DEF SavePending, Quiet
<1>2. /\ shared' \in [mailbox : Pairs, reset : BOOLEAN, status : Statuses]
      /\ shared'.mailbox = shared.mailbox /\ shared'.reset = shared.reset
  BY <1>1 DEF SystemOK, Statuses
<1>3. SystemOK'
  BY <1>1, <1>2 DEF SystemOK, MainOK
<1>4. PhaseHasPair' /\ LoopFits' /\ LinkFits' /\ StoreFits'
  BY <1>1 DEF PhaseHasPair, LoopFits, Carries, Fits, LinkFits, StoreFits
<1>5. HandlerFits' /\ ForgetFits'
  BY <1>1, <1>2 DEF HandlerFits, ForgetFits, Gone
<1> QED
  BY <1>3, <1>4, <1>5

(* One removal: its key is gone or known to be kept, the other key is as it   *)
(* was, and what would be loaded is what it was or nothing.                   *)
LEMMA RemoveLeaves ==
    ASSUME SystemOK, NEW key \in Keys, Remove(key)
    PROVE  /\ nvs' \in Stores /\ seen' \in Histories
           /\ seen'.proven = seen.proven /\ seen'.torn = seen.torn
           /\ seen'.forgotten = seen.forgotten
           /\ Gone(key)' /\ \A other \in Keys : Gone(other) => Gone(other)'
           /\ Load(nvs') \in {Load(nvs), None}
<1>1. PICK removed \in BOOLEAN :
        /\ nvs' = IF removed THEN [nvs EXCEPT ![key] = "None"] ELSE nvs
        /\ seen' = [seen EXCEPT !.kept = IF removed \/ nvs[key] = "None" THEN @ \ {key}
                                        ELSE @ \cup {key}]
  BY DEF Remove
<1>2. nvs \in Stores /\ seen \in Histories
  BY DEF SystemOK
<1>3. PICK kept \in SUBSET Keys :
        /\ kept = IF removed \/ nvs[key] = "None" THEN seen.kept \ {key}
                  ELSE seen.kept \cup {key}
        /\ seen' = [seen EXCEPT !.kept = kept]
  BY <1>1, <1>2 DEF Histories
<1>4. /\ seen' \in Histories /\ seen'.kept = kept /\ seen'.proven = seen.proven
      /\ seen'.torn = seen.torn /\ seen'.forgotten = seen.forgotten
  BY <1>2, <1>3 DEF Histories
<1>5. CASE removed
  <2>1. nvs' \in Stores /\ nvs'[key] = "None" /\ \A other \in Keys \ {key} : nvs'[other] = nvs[other]
    BY <1>1, <1>2, <1>5 DEF Stores, Keys
  <2>2. Load(nvs') = None
    BY <2>1 DEF Load, Keys
  <2> QED
    BY <1>3, <1>4, <1>5, <2>1, <2>2 DEF Gone
<1>6. CASE ~removed
  <2>1. nvs' = nvs
    BY <1>1, <1>6
  <2> QED
    BY <1>2, <1>3, <1>4, <1>6, <2>1 DEF Gone
<1> QED
  BY <1>5, <1>6

(* A pair that is stored or half removed is still one that worked. *)
LEMMA RemovalStores ==
    ASSUME NetInv, NEW key \in Keys, Remove(key), UNCHANGED main, main.at # "saving"
    PROVE  StoreFits'
BY RemoveLeaves DEF NetInv, StoreFits

LEMMA ResetSsidKeeps == NetInv /\ ResetSsid => NetInv'
<1> SUFFICES ASSUME NetInv, ResetSsid PROVE NetInv'
  OBVIOUS
<1> USE DEF NetInv
<1>1. /\ radio.kind = "Sta" /\ radio.link /\ Remove("ssid") /\ handler' = [at |-> "reset"]
      /\ UNCHANGED <<phase, main, radio, shared, left>>
  BY DEF ResetSsid
<1>2. /\ nvs' \in Stores /\ seen' \in Histories
      /\ seen'.proven = seen.proven /\ seen'.forgotten = seen.forgotten
      /\ Gone("ssid")' /\ (Gone("pass") => Gone("pass")')
  BY <1>1, RemoveLeaves DEF Keys
<1>3. SystemOK'
  BY <1>1, <1>2 DEF SystemOK, MainOK
<1>4. PhaseHasPair' /\ LoopFits' /\ LinkFits'
  BY <1>1, <1>2 DEF PhaseHasPair, LoopFits, Carries, Fits, LinkFits
<1>5. main.at # "saving"
  BY <1>1 DEF LoopFits, Carries
<1>6. HandlerFits'
  <2>1. main.at = "polled" => main.associated
    BY <1>1 DEF LoopFits
  <2>2. main.at = "apply" => main.action.do # "FallbackToCaptive"
    BY <1>1 DEF LinkFits, LoopFits, Carries
  <2> QED
    BY <1>1, <1>2, <2>1, <2>2 DEF HandlerFits
<1>7. StoreFits'
  BY <1>1, <1>5, RemovalStores DEF Keys
<1>8. ForgetFits'
  BY <1>1, <1>2 DEF ForgetFits
<1> QED
  BY <1>3, <1>4, <1>6, <1>7, <1>8

LEMMA ResetPassKeeps == NetInv /\ ResetPass => NetInv'
<1> SUFFICES ASSUME NetInv, ResetPass PROVE NetInv'
  OBVIOUS
<1> USE DEF NetInv
<1>1. /\ handler.at = "reset" /\ Remove("pass") /\ handler' = [at |-> "raise"]
      /\ UNCHANGED <<phase, main, radio, shared, left>>
  BY DEF ResetPass
<1>2. radio.kind = "Sta" /\ Gone("ssid")
  BY <1>1 DEF HandlerFits
<1>3. /\ nvs' \in Stores /\ seen' \in Histories
      /\ seen'.proven = seen.proven /\ seen'.forgotten = seen.forgotten
      /\ Gone("ssid")' /\ Gone("pass")'
  BY <1>1, <1>2, RemoveLeaves DEF Keys
<1>4. SystemOK'
  BY <1>1, <1>3 DEF SystemOK, MainOK
<1>5. PhaseHasPair' /\ LoopFits' /\ LinkFits'
  BY <1>1, <1>3 DEF PhaseHasPair, LoopFits, Carries, Fits, LinkFits
<1>6. main.at # "saving"
  BY <1>2 DEF LoopFits, Carries
<1>7. HandlerFits'
  BY <1>1, <1>2, <1>3 DEF HandlerFits
<1>8. StoreFits'
  BY <1>1, <1>6, RemovalStores DEF Keys
<1>9. ForgetFits'
  BY <1>1, <1>3 DEF ForgetFits
<1> QED
  BY <1>4, <1>5, <1>7, <1>8, <1>9

LEMMA ResetRaiseKeeps == NetInv /\ ResetRaise => NetInv'
<1> SUFFICES ASSUME NetInv, ResetRaise PROVE NetInv'
  OBVIOUS
<1> USE DEF NetInv
<1>1. /\ handler.at = "raise" /\ handler' = [at |-> "idle"]
      /\ shared' = [shared EXCEPT !.reset = TRUE]
      /\ seen' = [seen EXCEPT !.forgotten = TRUE]
      /\ UNCHANGED <<phase, main, radio, nvs, left>>
  BY DEF ResetRaise, Quiet
<1>2. Gone("ssid") /\ Gone("pass") /\ radio.kind = "Sta" /\ shared.mailbox = None
  BY <1>1 DEF HandlerFits
<1>3. /\ shared' \in [mailbox : Pairs, reset : BOOLEAN, status : Statuses]
      /\ shared'.mailbox = shared.mailbox /\ shared'.reset
  BY <1>1 DEF SystemOK
<1>4. /\ seen' \in Histories
      /\ seen'.proven = seen.proven /\ seen'.torn = seen.torn /\ seen'.kept = seen.kept
  BY <1>1 DEF SystemOK, Histories
<1>5. SystemOK'
  BY <1>1, <1>3, <1>4 DEF SystemOK, MainOK
<1>6. PhaseHasPair' /\ LinkFits' /\ StoreFits'
  BY <1>1, <1>4 DEF PhaseHasPair, LinkFits, StoreFits
<1>7. LoopFits'
  <2>1. Fits' <=> Fits
    BY <1>1 DEF Fits
  <2>2. main.at \in {"apply", "saving", "linger"} => Carries(main.action)'
    BY <1>1, <1>4, <2>1 DEF LoopFits, Carries
  <2> QED
    BY <1>1, <1>4, <2>1, <2>2 DEF LoopFits
<1>8. HandlerFits'
  BY <1>1, <1>2, <1>3 DEF HandlerFits
<1>10. Gone("ssid")' /\ Gone("pass")'
  BY <1>1, <1>2, <1>4 DEF Gone
<1>9. ForgetFits'
  <2>1. phase.at \in CaptivePhases \cup StaPhases
    BY DEF SystemOK, Phases
  <2>2. main.at \in {"sleep", "lapped", "polled"} =>
            phase.at \in StaPhases
    BY <1>2, <2>1 DEF LoopFits, Fits
  <2>3. main.at \notin {"saving", "linger"}
    BY <1>2 DEF LoopFits, Carries
  <2>4. main.at \in {"sleep", "lapped", "polled", "apply"}
    BY <2>3 DEF SystemOK, MainOK
  <2>5. main.at = "apply" => main.action \in Deciding
    BY DEF SystemOK, MainOK
  <2>6. main.at = "apply" =>
            \/ main.action.do \in {"Nothing", "StartMdns"} /\ phase.at \in StaPhases
            \/ main.action.do = "ForceCaptive" /\ phase.at = "CaptiveIdle"
    <3> SUFFICES ASSUME main.at = "apply"
                 PROVE  \/ main.action.do \in {"Nothing", "StartMdns"} /\ phase.at \in StaPhases
                        \/ main.action.do = "ForceCaptive" /\ phase.at = "CaptiveIdle"
      OBVIOUS
    <3>1. Carries(main.action)
      BY DEF LoopFits
    <3>2. main.action.do \in {"Nothing", "StartMdns", "ForceCaptive"}
      <4>1. main.action.do \notin {"RefreshScan", "ApplyCreds", "MarkSubmissionFailed",
                                   "PromoteToSta"}
        BY <1>2, <3>1 DEF Carries
      <4>2. main.action.do # "FallbackToCaptive"
        BY <1>1 DEF HandlerFits
      <4> QED
        BY <2>5, <4>1, <4>2 DEF Deciding, NetActions
    <3> QED
      BY <1>2, <2>1, <3>1, <3>2 DEF Carries, Fits, StaPhases
  <2> QED
    BY <1>1, <1>2, <1>3, <1>10, <2>2, <2>4, <2>6 DEF ForgetFits
<1> QED
  BY <1>5, <1>6, <1>7, <1>8, <1>9

LEMMA RebootKeeps == NetInv /\ Reboot => NetInv'
<1> SUFFICES ASSUME NetInv, Reboot PROVE NetInv'
  OBVIOUS
<1> USE DEF NetInv
<1>0. None \in Pairs
  BY NoneIsNoPair
<1>1. /\ left.reboots > 0 /\ left' = [left EXCEPT !.reboots = left.reboots - 1]
      /\ phase' = Boot(Load(nvs)) /\ radio' = BootRadio(Load(nvs))
      /\ shared' = [mailbox |-> None, status |-> "Idle", reset |-> FALSE]
      /\ main' = [at |-> "sleep"] /\ handler' = [at |-> "idle"]
      /\ seen' = [seen EXCEPT !.torn = seen.torn \/ main.at = "saving",
                              !.forgotten = seen.forgotten /\ Load(nvs) = None]
      /\ nvs' = nvs
  BY DEF Reboot, Sleeping, Quiet
<1>2. Load(nvs) \in Pairs
  BY LoadIsPair DEF SystemOK
<1>3. /\ phase' \in Phases /\ radio' \in Radios /\ PhaseHasPair' /\ Fits'
      /\ ~radio'.link
      /\ Load(nvs) = None => phase'.at = "CaptiveIdle"
  BY <1>1, <1>2, BootFits
<1>4. /\ seen' \in Histories
      /\ seen'.proven = seen.proven /\ seen'.kept = seen.kept
      /\ ~seen'.torn => ~seen.torn /\ main.at # "saving"
      /\ seen'.forgotten => seen.forgotten /\ Load(nvs) = None
  <2>1. seen \in Histories
    BY DEF SystemOK
  <2>2. PICK cut \in BOOLEAN : cut <=> seen.torn \/ main.at = "saving"
    OBVIOUS
  <2>3. PICK still \in BOOLEAN : still <=> seen.forgotten /\ Load(nvs) = None
    OBVIOUS
  <2>4. /\ cut = (seen.torn \/ main.at = "saving")
        /\ still = (seen.forgotten /\ Load(nvs) = None)
    BY <2>1, <2>2, <2>3 DEF Histories
  <2>5. seen' = [seen EXCEPT !.torn = cut, !.forgotten = still]
    BY <1>1, <2>4
  <2> QED
    BY <2>1, <2>2, <2>3, <2>5 DEF Histories
<1>5. left' \in [saves : Nat, reboots : Nat]
  <2>1. left \in [saves : Nat, reboots : Nat]
    BY DEF SystemOK
  <2>2. PICK fewer \in Nat : fewer = left.reboots - 1
    BY <1>1, <2>1
  <2>3. left' = [left EXCEPT !.reboots = fewer]
    BY <1>1, <2>2
  <2> QED
    BY <2>1, <2>3
<1>6. SystemOK'
  <2>1. shared' \in [mailbox : Pairs, reset : BOOLEAN, status : Statuses]
    BY <1>0, <1>1 DEF Statuses
  <2>2. MainOK'
    BY <1>1 DEF MainOK
  <2>3. handler' \in [at : {"idle", "save", "reset", "raise"}] /\ nvs' \in Stores
    BY <1>1 DEF SystemOK
  <2> QED
    BY <1>3, <1>4, <1>5, <2>1, <2>2, <2>3 DEF SystemOK
<1>7. LoopFits' /\ LinkFits'
  BY <1>1, <1>3 DEF LoopFits, LinkFits
<1>8. HandlerFits'
  BY <1>1 DEF HandlerFits
<1>9. StoreFits'
  BY <1>1, <1>4 DEF StoreFits
<1>10. ForgetFits'
  <2> SUFFICES ASSUME seen'.forgotten PROVE ForgetFits'
    BY DEF ForgetFits
  <2>1. seen.forgotten /\ phase'.at = "CaptiveIdle"
    BY <1>3, <1>4
  <2>2. Gone("ssid")' /\ Gone("pass")'
    BY <1>1, <1>4, <2>1 DEF ForgetFits, Gone
  <2> QED
    BY <1>1, <2>1, <2>2 DEF ForgetFits
<1> QED
  BY <1>3, <1>6, <1>7, <1>8, <1>9, <1>10

LEMMA StutterKeeps == NetInv /\ UNCHANGED vars => NetInv'
<1> SUFFICES ASSUME NetInv, UNCHANGED vars PROVE NetInv'
  OBVIOUS
<1> USE DEF NetInv, vars
<1>1. SystemOK' /\ PhaseHasPair'
  BY DEF SystemOK, MainOK, PhaseHasPair
<1>2. LoopFits' /\ LinkFits'
  BY DEF LoopFits, LinkFits, Carries, Fits
<1>3. HandlerFits' /\ StoreFits' /\ ForgetFits'
  BY DEF HandlerFits, StoreFits, ForgetFits, Gone
<1> QED
  BY <1>1, <1>2, <1>3

LEMMA NextKeeps == NetInv /\ [Next]_vars => NetInv'
<1> SUFFICES ASSUME NetInv, [Next]_vars PROVE NetInv'
  OBVIOUS
<1>1. CASE Sleep \/ Poll \/ Decide
  BY <1>1, SleepKeeps, PollKeeps, DecideKeeps
<1>2. CASE ApplyQuiet \/ StartMdns \/ ApplyCreds \/ MarkFailed
  BY <1>2, ApplyQuietKeeps, StartMdnsKeeps, ApplyCredsKeeps, MarkFailedKeeps
<1>3. CASE SaveSsid \/ SavePass \/ SwitchToSta \/ SwitchToCaptive
  BY <1>3, SaveSsidKeeps, SavePassKeeps, SwitchToStaKeeps, SwitchToCaptiveKeeps
<1>4. CASE Save \/ SavePending \/ ResetSsid \/ ResetPass \/ ResetRaise
  BY <1>4, SaveKeeps, SavePendingKeeps, ResetSsidKeeps, ResetPassKeeps, ResetRaiseKeeps
<1>5. CASE Reboot
  BY <1>5, RebootKeeps
<1>6. CASE UNCHANGED vars
  BY <1>6, StutterKeeps
<1> QED
  BY <1>1, <1>2, <1>3, <1>4, <1>5, <1>6 DEF Next, MainLoop, Handlers

-----------------------------------------------------------------------------

(* The inductive invariant of the network: every variable has its type, and   *)
(* the phase, the radio, the action held, NVS and the flags fit each other.   *)
THEOREM NetInductive == Spec => []NetInv
<1>1. Init => NetInv
  BY InitNetInv
<1>2. NetInv /\ [Next]_vars => NetInv'
  BY NextKeeps
<1> QED
  BY <1>1, <1>2, PTL DEF Spec

(* No action of the supervisor ever meets resources it cannot be carried out  *)
(* against (warn_out_of_step is dead code), and between two ticks the phase   *)
(* says which resources are live.                                             *)
THEOREM StaysInStep == Spec => []InStep
<1>1. NetInv => InStep
  <2> SUFFICES ASSUME NetInv PROVE InStep
    OBVIOUS
  <2>1. main.at = "apply" => Carries(main.action) /\ radio \in Radios
    BY DEF NetInv, LoopFits, SystemOK
  <2>2. ~Mismatched
    BY <2>1 DEF Mismatched, Carries
  <2>3. main.at \in {"sleep", "lapped", "polled"} => Fits
    BY DEF NetInv, LoopFits
  <2> QED
    BY <2>2, <2>3 DEF InStep, Fits
<1> QED
  BY <1>1, NetInductive, PTL

(* Whatever is submitted beside it, the pair in NVS is one that associated,   *)
(* as long as no reboot cuts a save in two.                                   *)
THEOREM SavedWasProven == Spec => []SavedIsProven
<1>1. NetInv => SavedIsProven
  BY DEF NetInv, StoreFits, SavedIsProven
<1> QED
  BY <1>1, NetInductive, PTL

(* After /wifi-reset is answered, and until the user submits or the MCU boots *)
(* on a pair that could not be removed: a key that was removed is not stored  *)
(* again, and a loop at rest with the flag taken holds no pair anywhere.      *)
THEOREM ResetIsForgetting == Spec => []ResetForgets
<1>1. NetInv => ResetForgets
  <2> SUFFICES ASSUME NetInv, seen.forgotten
               PROVE  /\ \A key \in {"ssid", "pass"} \ seen.kept : nvs[key] = "None"
                      /\ main = Sleeping /\ ~shared.reset =>
                             /\ phase.creds = None /\ radio.creds = None
                             /\ shared.mailbox = None
    BY DEF ResetForgets
  <2>1. Gone("ssid") /\ Gone("pass") /\ shared.mailbox = None
    BY DEF NetInv, ForgetFits
  <2>2. main = Sleeping /\ ~shared.reset => phase.at = "CaptiveIdle"
    BY DEF NetInv, ForgetFits
  <2>3. main = Sleeping => radio.creds = phase.creds
    BY DEF NetInv, LoopFits, Fits, Sleeping
  <2>4. phase.at = "CaptiveIdle" => phase.creds = None
    BY DEF NetInv, PhaseHasPair
  <2> QED
    BY <2>1, <2>2, <2>3, <2>4 DEF Gone
<1> QED
  BY <1>1, NetInductive, PTL

-----------------------------------------------------------------------------
(* The spinner: /save and the main loop store the status in either order.     *)

Trying == phase.at = "CaptiveTrying"
Spins == shared.status \in {"Pending", "Trying"} <=> Trying
Taken == main.at = "polled" /\ main.submitted # None

(* With nothing in the mailbox: at rest the status is right, or about to be   *)
(* made right by a /save whose pair was taken; from a sleep on no /save is    *)
(* half done, since one begun later has filled the mailbox; and between the   *)
(* poll that takes a pair and the radio that gets it nothing is asked.        *)
SpinFits ==
    radio.kind = "Mixed" /\ shared.mailbox = None =>
        /\ main.at = "sleep" => IF handler.at = "save" THEN Trying ELSE Spins
        /\ \/ main.at = "lapped"
           \/ main.at = "polled" /\ ~Taken
           \/ main.at = "apply" /\ main.action.do \in {"Nothing", "RefreshScan"}
           => handler.at # "save" /\ Spins
        /\ main.at = "apply" /\ main.action.do = "MarkSubmissionFailed" => handler.at # "save"

LEMMA LoopSpins ==
    ASSUME NetInv, SpinFits, Sleep \/ Poll \/ Decide PROVE SpinFits'
<1> USE DEF SpinFits, Spins, Trying, Taken
<1>1. CASE Sleep
  <2>1. phase'.at = phase.at
    BY <1>1 DEF NetInv, SystemOK, Phases, Sleep, Aged
  <2> QED
    BY <1>1, <2>1 DEF Sleep, Sleeping, Quiet
<1>2. CASE Poll
  <2>1. /\ main.at = "lapped" /\ main'.at = "polled" /\ main'.submitted = Submitted
        /\ shared'.status = shared.status /\ UNCHANGED <<phase, handler>>
        /\ radio'.kind = radio.kind
    BY <1>2 DEF Poll, NetInv, SystemOK, Radios
  <2> QED
    BY <2>1 DEF Submitted
<1>3. CASE Decide
  <2>1. /\ main.at = "polled" /\ radio' = radio /\ handler' = handler
        /\ shared'.mailbox = shared.mailbox /\ shared'.status = shared.status
        /\ main'.at = "apply"
    BY <1>3 DEF Decide, NetInv, SystemOK
  <2>2. PICK poll : /\ poll.submitted = main.submitted
                    /\ phase' = Step(phase, poll).phase
                    /\ main'.action = Step(phase, poll).action
    BY <1>3 DEF Decide
  <2>3. CASE radio.kind = "Mixed"
    <3>1. phase.at \in CaptivePhases
      BY <2>1, <2>3 DEF NetInv, LoopFits, Fits
    <3>2. ~Resets(phase, poll)
      BY <3>1 DEF Resets, CaptivePhases, StaPhases
    <3>3. main'.action.do \in {"Nothing", "RefreshScan", "MarkSubmissionFailed"}
              => poll.submitted = None
      BY <2>2, <3>1, <3>2 DEF Step, StepIdle, StepTrying, StepRetrying, CaptivePhases,
         Promote, TryCreds, To, Do, DoWith
    <3>4. main'.action.do \in {"Nothing", "RefreshScan"} => phase' = phase
      BY <2>2, <3>1, <3>2 DEF Step, StepIdle, StepTrying, StepRetrying, CaptivePhases,
         Promote, TryCreds, To, Do, DoWith
    <3> QED
      BY <2>1, <2>2, <3>3, <3>4
  <2> QED
    BY <2>1, <2>3
<1> QED
  BY <1>1, <1>2, <1>3

LEMMA ApplySpins ==
    ASSUME NetInv, SpinFits, ApplyQuiet \/ StartMdns \/ ApplyCreds \/ MarkFailed
    PROVE  SpinFits'
<1> USE DEF SpinFits, Spins, Trying, Taken
<1>1. CASE ApplyQuiet
  BY <1>1 DEF ApplyQuiet, Applying, Sleeping
<1>2. CASE StartMdns
  BY <1>2 DEF StartMdns, NetInv, SystemOK, Radios
<1>3. CASE ApplyCreds
  <2>1. phase.at = "CaptiveTrying"
    BY <1>3 DEF ApplyCreds, Applying, NetInv, LoopFits, Carries
  <2>2. shared'.status = "Trying" /\ phase' = phase /\ main'.at = "sleep"
    BY <1>3 DEF ApplyCreds, Sleeping, NetInv, SystemOK
  <2> QED
    BY <2>1, <2>2
<1>4. CASE MarkFailed
  <2>1. phase.at = "CaptiveIdle"
    BY <1>4 DEF MarkFailed, Applying, NetInv, LoopFits, Carries
  <2>2. /\ shared'.status = "Failed" /\ shared'.mailbox = shared.mailbox
        /\ UNCHANGED <<phase, handler>> /\ main'.at = "sleep"
    BY <1>4 DEF MarkFailed, Sleeping, NetInv, SystemOK
  <2>3. radio.kind = "Mixed" /\ main.at = "apply" /\ main.action.do = "MarkSubmissionFailed"
    BY <1>4 DEF MarkFailed, Applying
  <2> QED
    BY <2>1, <2>2, <2>3
<1> QED
  BY <1>1, <1>2, <1>3, <1>4

LEMMA SwitchSpins ==
    ASSUME NetInv, SpinFits, SaveSsid \/ SavePass \/ SwitchToSta \/ SwitchToCaptive
    PROVE  SpinFits'
<1> USE DEF SpinFits, Spins, Trying, Taken
<1>1. CASE SaveSsid
  <2>1. main'.at = "saving"
    BY <1>1 DEF SaveSsid, Applying, NetInv, SystemOK, MainOK
  <2> QED
    BY <2>1
<1>2. CASE SavePass
  <2>1. main'.at = "linger"
    BY <1>2 DEF SavePass, NetInv, SystemOK, MainOK
  <2> QED
    BY <2>1
<1>3. CASE SwitchToSta
  BY <1>3 DEF SwitchToSta, StaWith
<1>4. CASE SwitchToCaptive
  <2>1. phase.at # "CaptiveTrying"
    BY <1>4 DEF SwitchToCaptive, Applying, NetInv, LoopFits, Carries
  <2>2. /\ shared'.status = "Idle" /\ UNCHANGED <<phase, handler>>
        /\ main'.at = "sleep" /\ handler.at = "idle"
    BY <1>4 DEF SwitchToCaptive, Sleeping, Quiet, NetInv, SystemOK
  <2> QED
    BY <2>1, <2>2
<1> QED
  BY <1>1, <1>2, <1>3, <1>4

LEMMA HandlerSpins == ASSUME NetInv, SpinFits, Handlers PROVE SpinFits'
<1> USE DEF SpinFits, Spins, Trying, Taken
<1>1. CASE Save
  <2>1. PICK creds \in Credentials : shared' = [shared EXCEPT !.mailbox = creds]
    BY <1>1 DEF Save
  <2>2. shared'.mailbox # None
    BY <2>1, NoneIsNoPair DEF NetInv, SystemOK
  <2> QED
    BY <2>2
<1>2. CASE SavePending
  <2>1. /\ shared'.status = "Pending" /\ shared'.mailbox = shared.mailbox
        /\ UNCHANGED <<phase, main, radio>> /\ handler.at = "save" /\ handler'.at = "idle"
    BY <1>2 DEF SavePending, Quiet, NetInv, SystemOK
  <2> QED
    BY <2>1
<1>3. CASE ResetSsid
  BY <1>3 DEF ResetSsid
<1>4. CASE ResetPass
  BY <1>4 DEF ResetPass
<1>5. CASE ResetRaise
  <2>1. /\ shared'.status = shared.status /\ shared'.mailbox = shared.mailbox
        /\ UNCHANGED <<phase, main, radio>> /\ handler.at = "raise" /\ handler'.at = "idle"
    BY <1>5 DEF ResetRaise, Quiet, NetInv, SystemOK
  <2> QED
    BY <2>1
<1> QED
  BY <1>1, <1>2, <1>3, <1>4, <1>5 DEF Handlers

LEMMA BootSpins ==
    ASSUME NEW store, phase' = Boot(Load(store)), main' = Sleeping, handler' = Quiet,
           shared'.status = "Idle"
    PROVE  SpinFits'
BY DEF SpinFits, Spins, Trying, Taken, Boot, At, CaptiveIdle, Sleeping, Quiet

LEMMA NextSpins == NetInv /\ SpinFits /\ [Next]_vars => SpinFits'
<1> SUFFICES ASSUME NetInv, SpinFits, [Next]_vars PROVE SpinFits'
  OBVIOUS
<1>1. CASE MainLoop
  BY <1>1, LoopSpins, ApplySpins, SwitchSpins DEF MainLoop
<1>2. CASE Handlers
  BY <1>2, HandlerSpins
<1>3. CASE Reboot
  BY <1>3, BootSpins DEF Reboot
<1>4. CASE UNCHANGED vars
  BY <1>4 DEF vars, SpinFits, Spins, Trying, Taken
<1> QED
  BY <1>1, <1>2, <1>3, <1>4 DEF Next

(* Whatever the order of the stores of /save and of the main loop, the page   *)
(* spins exactly while a pair is being tried, for any number of submissions.  *)
THEOREM SpinnerIsTrue == Spec => []SpinnerTellsTruth
<1>1. Init => SpinFits
  BY DEF Init, SpinFits, Spins, Trying, Taken, Boot, At, CaptiveIdle, Sleeping, Quiet
<1>2. NetInv /\ SpinFits => SpinnerTellsTruth
  BY DEF SpinFits, Spins, Trying, SpinnerTellsTruth, Sleeping, Quiet
<1> QED
  BY <1>1, <1>2, NetInductive, NextSpins, PTL DEF Spec
=============================================================================
