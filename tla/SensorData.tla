----------------------------- MODULE SensorData -----------------------------
(***************************************************************************)
(* The readings the INA and the xy thread publish, the staleness clocks    *)
(* the main loop charges, and the history it commits to                    *)
(* (logic/src/data/mod.rs).  Every call runs under one mutex.              *)
(*                                                                         *)
(* External: wall time, and the system clock, which is unset until SNTP    *)
(* answers and can be set anew at any time.                                *)
(***************************************************************************)
EXTENDS History

CONSTANTS
    Producers,      (* the sensors with a clock: "battery", "ps"             *)
    StaleWindow,    (* STALE_WINDOW                                          *)
    DurationMax,    (* Duration::MAX                                         *)
    LongestLap,     (* bound: wall time of one iteration of the main loop    *)
    MaxEpoch,       (* bound: seconds of the system clock                    *)
    ClockSettings,  (* bound: what the system clock is set to, 0 when absurd *)
    MaxSteps,       (* bound: how often the system clock is set              *)
    MaxCommits      (* bound: raw samples committed                          *)

ASSUME StaleAssumption ==
    /\ Producers \subseteq {"battery", "ps"} /\ "ps" \in Producers
    /\ StaleWindow \in Nat \ {0} /\ LongestLap \in Nat \ {0}
    /\ DurationMax \in Nat /\ DurationMax > StaleWindow
    /\ ClockSettings \subseteq Nat

(* A supply above or below the online threshold; a battery that answers. *)
Readings == [battery |-> {"Live"}, ps |-> {"On", "Off"}]

VARIABLES
    latest,     (* the last accepted reading of each producer, None at first *)
    stale,      (* battery_stale, ps_stale                                   *)
    history,
    since,      (* wall time since the main loop's last lap                  *)
    epoch,      (* what epoch_s returns, 0 for the None of an unset clock    *)
    steps,      (* how often the clock has been set                          *)
    age,        (* history: wall time since the last accepted reading        *)
    commits,    (* history: raw samples committed                            *)
    shown       (* history: how old the supply reading was that the last of  *)
                (* them called online, 0 if it called it offline             *)

vars == <<latest, stale, history, since, epoch, steps, age, commits, shown>>

None == "None"
NotFinite == "NotFinite"
Least(a, b) == IF a < b THEN a ELSE b

(* As old as anything the properties tell apart. *)
Ancient == StaleWindow + LongestLap + 1

Init ==
    /\ latest = [p \in Producers |-> None]
    /\ stale = [p \in Producers |-> DurationMax]
    /\ history = NewHistory
    /\ since = 0 /\ epoch = 0 /\ steps = 0
    /\ age = [p \in Producers |-> Ancient]
    /\ commits = 0 /\ shown = 0

(* Mutant: what is not a number restarts the clock of the reading before it. *)
Update_Trusting(p) ==
    \E reading \in Readings[p] \cup {NotFinite} :
        /\ latest' = IF reading = NotFinite THEN latest ELSE [latest EXCEPT ![p] = reading]
        /\ stale' = [stale EXCEPT ![p] = 0]
        /\ age' = IF reading = NotFinite THEN age ELSE [age EXCEPT ![p] = 0]
        /\ UNCHANGED <<history, since, epoch, steps, commits, shown>>

(* `update_battery`, `update_ps`: a reading that is not finite is dropped. *)
Update(p) ==
    \E reading \in Readings[p] \cup {NotFinite} :
        IF reading = NotFinite THEN UNCHANGED vars
        ELSE /\ latest' = [latest EXCEPT ![p] = reading]
             /\ stale' = [stale EXCEPT ![p] = 0]
             /\ age' = [age EXCEPT ![p] = 0]
             /\ UNCHANGED <<history, since, epoch, steps, commits, shown>>

(* Mutant: a reading expires on the last second of its window. *)
Reading_Hasty(p, clocks) == IF clocks[p] >= StaleWindow THEN None ELSE latest[p]

(* `battery_reading`, `ps_reading`, given the clocks. *)
Reading(p, clocks) == IF clocks[p] > StaleWindow THEN None ELSE latest[p]

Aged(clocks, dt) == [p \in Producers |-> Least(clocks[p] + dt, DurationMax)]

(* `power_online`: a fresh reading of the supply shows a voltage. *)
PowerOnline(clocks) == Reading("ps", clocks) = "On"

(* Mutant: any plausible time is committed. *)
Committable_Unordered(h) == epoch # 0

(* No commit without a clock, nor at or before the last stored sample. *)
Committable(h) == epoch # 0 /\ AfterLast(h, epoch)

(* The main loop: `tick` with the time since the last lap. *)
MainTick ==
    /\ since > 0
    /\ since' = 0
    /\ stale' = Aged(stale, since)
    /\ IF Committable(history)
       THEN /\ commits < MaxCommits
            /\ commits' = commits + 1
            /\ history' = Commit(history, Sample(epoch, {commits + 1}))
            /\ shown' = IF PowerOnline(stale') THEN age["ps"] ELSE 0
       ELSE UNCHANGED <<history, commits, shown>>
    /\ UNCHANGED <<latest, epoch, steps, age>>

(* A second of wall time. *)
Second ==
    /\ since < LongestLap
    /\ since' = since + 1
    /\ epoch' = IF epoch = 0 THEN 0 ELSE epoch + 1
    /\ epoch' <= MaxEpoch
    /\ age' = [p \in Producers |-> Least(age[p] + 1, Ancient)]
    /\ UNCHANGED <<latest, stale, history, steps, commits, shown>>

(* SNTP sets the clock, forwards or back, or to a time epoch_s refuses. *)
SetClock ==
    /\ steps < MaxSteps
    /\ steps' = steps + 1
    /\ epoch' \in ClockSettings
    /\ UNCHANGED <<latest, stale, history, since, age, commits, shown>>

Next == MainTick \/ Second \/ SetClock \/ \E p \in Producers : Update(p)

Spec == Init /\ [][Next]_vars

-----------------------------------------------------------------------------
Exposed(p) == Reading(p, stale) # None

Stored == 1..Len(history.samples)
EveryOf == (UNION {history.samples[i].of : i \in Stored}) \cup history.acc.of

(* Every reader may assume chronological order: however the clock is set and  *)
(* whatever is being accumulated meanwhile, compactions and slides included,  *)
(* the stored stamps strictly increase (data/mod.rs, tick).                   *)
HistoryOrdered ==
    \A i \in Stored : i > 1 => history.samples[i - 1].time < history.samples[i].time

(* No raw sample is lost or counted twice: the entries and the accumulation   *)
(* cover consecutive stretches of what was committed, up to the last one.     *)
Contiguous ==
    LET spans == [i \in Stored |-> history.samples[i].of] \o <<history.acc.of>>
        Before(i) == UNION {spans[j] : j \in i..Len(spans)}
    IN  \A i \in 1..Len(spans) :
            Before(i) = commits - Cardinality(Before(i)) + 1 .. commits
            /\ \A j \in 1..i - 1 : spans[j] \cap spans[i] = {}

(* The chart spans a whole charge cycle (history/mod.rs, MAX_INTERVAL): raw   *)
(* samples are dropped only by a window that keeps all but one entry's worth  *)
(* of its full span.  An entry stands for at most `interval` of them and at   *)
(* least half, which is all the one pushed by a commit that compacts covers.  *)
SpanIsKept ==
    /\ Cardinality(EveryOf) >= Least(commits, (HistoryCapacity - 1) * MaxInterval)
    /\ \A i \in Stored :
        LET covered == Cardinality(history.samples[i].of)
        IN  covered <= history.interval /\ 2 * covered >= history.interval

(* A producer that died, or that only gives what is not a number, is shown    *)
(* for no longer than the window and the iteration under way: readers see     *)
(* nothing older, though only the main loop charges the clocks, and a sample  *)
(* calls the supply online on nothing older than the window itself.           *)
DeadIsNotShown ==
    /\ \A p \in Producers : Exposed(p) => age[p] <= StaleWindow + since
    /\ shown <= StaleWindow

(* A live producer is not taken for a dead one: an iteration charged in full  *)
(* to a reading that came in its middle costs no more than its own length.    *)
LiveIsShown ==
    \A p \in Producers :
        latest[p] # None /\ age[p] + LongestLap <= StaleWindow => Exposed(p)

(* The window is charged in wall time, so a main loop that stalls does not    *)
(* extend it (data/mod.rs, STALE_WINDOW; charging/mod.rs,                     *)
(* BATTERY_MISSING_TIMEOUT): one nominal tick after the window nothing shows. *)
StallDoesNotExtend == \A p \in Producers : Exposed(p) => age[p] <= StaleWindow + 1
=============================================================================
