# Models of the ESP32 battery charger

The firmware charges a 4S LiFePO4 pack of a small UPS: an ESP32 drives
an XY7025 buck converter over Modbus, reads an INA228 monitor, keeps a history for a
web dashboard, and brings its own WiFi up.  This directory holds the TLA+ models of
it, the TLC configurations that check them, and the theorems proved about them.
Source paths below are relative to the repository; `logic/` is the pure crate, the
top-level `src/` the firmware around it.

## 1. The system

| component | source | state it keeps | operations | hard behaviour |
|---|---|---|---|---|
| charge state table | `logic/src/charging/charge_state.rs` | none (a table) | `next`, `setpoint_phase`, `retarget_to`, `logged_as` | empty cells panic |
| charge supervisor | `logic/src/charging/charge_supervisor.rs`, `debounce.rs`, `hold_budget.rs`, ... | state, eight windows, hold budget, fault, inhibit, log of transitions | `tick`, `commit_enable/voltage/disable` | ordered checks, windows that cross moves, tickets redeemed later |
| xy thread | `src/xy.rs`, `logic/src/charging/voltage_writer.rs` | position in its loop, boot attempts | boot, poll, apply, safe step-down | every Modbus call can fail; MCU reboots while the buck runs on |
| XY7025 buck | external | OUTPUT_EN, PROTECT, V_SET/I_SET, S_INI | register writes, status reads | changes by itself, keeps state over MCU reboots |
| charge profiles | `logic/src/charging/profile.rs`, `logic/src/battery` | none | setpoints, OCV table | float tables |
| network supervisor | `logic/src/net/*` | phase with its credentials and instant | `tick` | precedence of reset, association, submission, timeout |
| main loop, network resources | `src/main.rs`, `src/net.rs` | live radio shape, mDNS, servers, mailbox, status, reset flag | poll, tick, apply | runs beside the HTTP handlers; drops a server while it is busy |
| captive portal, /wifi-reset | `src/captive_api.rs`, `src/wifi_reset.rs`, `src/nvs_creds.rs` | NVS strings | `/save`, `/status`, `/wifi-reset` | two-step writes, reboots in between, texts at the limits of the buffers |
| sensor data, history | `logic/src/data/*` | latest readings, staleness, sample buffer | `update_*`, `tick`, `commit`, `compact` | staleness, clock steps, full buffer |
| event log | `logic/src/error_log` | ring of events, counters | `record` | eviction, saturation |
| log ring | `logic/src/log_ring`, `src/log_ring.rs` | byte ring | `write`, `slices`, the vprintf hook, `/api/log` | wrap, oversize lines, lines logged while it is streamed |
| DNS, forms | `logic/src/dns_packet`, `logic/src/form`, `src/dns.rs` | the portal's DNS thread and its stop flag | parsing, bind, receive, join | malformed packets, a port still bound by the thread before |
| OTA | `src/ota.rs`, `src/reboot.rs` | two slots, the slot of the next boot | upload | peers that stall or trickle, an upload cut at any step, a second one before the restart |
| HTTP servers | `src/http`, `src/api.rs` | which server is up, one task each | start, drop, `read_to_buf` | a handler that holds the only task while the main loop waits for it |
| INA thread, LCD, clock | `src/ina.rs`, `src/lcd.rs`, `src/clock.rs` | display and acquisition | | drivers and I/O |

How they interact: the xy thread polls the buck, reads the latest battery sample from
the mutex-guarded sensor data, calls `ChargeSupervisor::tick`, carries out the action
it returns in one to four Modbus writes, and redeems the action's ticket with a
`commit_*`.  The main loop polls the radio, drains the mailbox that `/save` fills and
the flag `/wifi-reset` raises, calls `NetSupervisor::tick`, and makes radio and
servers match.  The two loops share only the sensor data and the clock.  Each lock is taken
alone, so there is no lock order to get wrong.

What makes each component correct:

* supervisor: every dangerous condition ends within its window as seen from outside;
  it never panics; a ticket is redeemable; once a fault ended the charge only a reboot
  brings charging back; the cycle ends.
* xy thread with the buck: the buck holds the setpoint the state implies; a step-down
  is written on a dark output; a latched unit is dark and stays so; a failed write
  neither loses nor invents a fault.
* network: radio, servers and page follow the phase; a reset forgets, as far as the
  keys could be removed; only a pair that worked is stored; there is always a way into the device.
* servers and uploads: what boots was verified; no peer holds a server for longer than
  its deadlines; a switch of servers ends; what is queued is what the user typed.
* data: readings expire, the history is ordered and bounded, counters only grow.

## 2. Modules

| module | models | how |
|---|---|---|
| `ChargeState` | `TRANSITIONS` and the predicates on states | one operator per column of the table; `Undefined` is an empty cell |
| `ChargeSupervisor` | `ChargeSupervisor` with windows, budget, tickets | `Tick` is one call of `tick`: `RetryDisable`/`WatchLatched`/`LostOutput`/`OnInPending` (`reconcile`), `FaultOrInhibit` with the eight checks of the gauntlet, `Regulate`; `CommitEnable`, `CommitVoltage`, `CommitDisable` redeem the ticket in `action` |
| `ChargePromise` | what a caller may rely on | charging, then parked, then dark; never back without a reboot; asks allowed at each stage |
| `ChargeWatch` | an observer | measures from the poll results, not from the supervisor's own windows, how long a bad condition lasts while sourcing: missing readings (battery, Modbus, pack temperature) and a charge cycle in time, dangerous currents and voltages over the ticks whose sample tells |
| `Charger` | xy thread, voltage writer and buck around the supervisor | one action per Modbus call (`BootOff` ... `BootVerify`, `PollRead`, `ApplyEnable`, `StepDownOff`, `StepDownLower`, ...), and the environment: `Trip`, `Recover`, `PowerCycle`, `Panel`, `Reboot` |
| `ChargeInputs` | sample and status sets for the instances | one member per region the comparisons tell apart |
| `NetSupervisor` | `NetSupervisor::step` | `Step(phase, poll)` with one operator per phase |
| `History` | the history buffer | `Commit` accumulates, compacts or slides; an average is the set of raw samples it is taken of |
| `SensorData` | readings, staleness clocks, commits | `Update(p)`, `MainTick`; wall time and the system clock (`Second`, `SetClock`) are the environment |
| `NetSystem` | main loop, handlers, NVS, reboot | `Sleep`, `Poll`, `Decide`, one action per applied `NetAction` (a promotion takes three), `/save` and `/wifi-reset` split where another thread can look, each removal of a reset with its outcome; `seen.kept` remembers the keys that could not be removed |
| `Ota` | `read_hmac_tag`, `handle_upload` | one action per read of the tag or the body, `UpdateBegin`, `Verify`; flash is the two slots and the slot selected |
| `SaveForm` | `/save` from its body to the pair it queues | bodies are bytes, because the property is about what the buffers cut: `SaveRead` by pieces, then `Outcome` (`parse_form`, `url_decode`, `WifiCredentials::new`) |
| `DnsPacket` | `parse_question_end`, `build_response` | functions of one packet, compared with a reference definition on every small packet when `http` starts, and proved for every packet (section 5) |
| `HttpServers` | the two servers, the DNS thread and the switch between them | composes `Ota` and `SaveForm`; `StopServer`, `ServerStopped`, `DnsJoined`, `DnsBinds`/`DnsChecks`/`DnsReceived`, `Reboot` as the restart after an upload or a power cut |
| `LogRing` | the byte ring | `Write`, `Older`, `Newer`; a byte is the number of bytes accepted before it |
| `LastBytes` | what a reader of the log may rely on | the last bytes accepted, in order |
| `EventLog` | event ring and counters | `Record`, `Count` over the flat array of slots |
| `Diagnostics` | hook, recorder and `/api/log` around the two, and `ProtectionLog::classify` in front of the recorder | `LogLine`, `RecordEvent`, `PollBuck` (with `NewEpisode`, `LastAfter`), `StreamOlder`, `StreamNewer`, `StreamEnds` |
| `MCChargeSupervisor`, `MCChargeWatch`, `MCCharger`, `MCNetSystem`, `MCSensorData`, `MCDiagnostics`, `MCHttpServers` | instances for TLC | |
| `ChargeSupervisor_proofs`, `ChargeWatch_proofs`, `Charger_proofs`, `NetSystem_proofs`, `HttpServers_proofs`, `SensorData_proofs`, `Diagnostics_proofs` | theorems | see section 5 |
| `Induction` | induction over the naturals | with a set in the place of a predicate, so that a proof can use it (section 5) |

Operators whose names carry an underscore, such as `ParkOf_Straight`, are plausible
mistakes kept beside the definition they distort.  Each is preceded by a `Mutant:`
comment, no specification uses it, and swapping it in breaks the property
`PROJECT.json` pairs it with.

### Abstractions

* Time is counted in abstract units; a tick advances every clock by one of `Elapsed`.
  `Duration` saturates at `DurationMax`.
* Voltages and currents are small integers around the profile's thresholds.  A status
  read is reduced to its comparison with the two setpoints of the profile: within
  tolerance of `Float`, of `Absorb`, or `Other`.
* `V_SET` and `I_SET` are one register, `target`: they are written and compared
  together.  A boot that fails midway through its writes leaves any target.
* The status published to the API, the LCD and the event recorder's clock are left
  out: nothing reads them back.
* In `SensorData` a supply reading is known by its side of the online threshold and a
  battery reading by being one.  Averages are sets of raw samples: the arithmetic is
  left out, and with it the weights (see the divergences in section 3).
* In `NetSystem` credentials are pairs over a set of networks and work when both
  halves belong to the same one; a phase keeps the age of the instant the code keeps.
  The link is the association: `wifi.rs` reports connected although the wait for an
  address failed, so "a way in" (`AlwaysAWayIn`) is an association or the portal.
* In `Diagnostics` the recorder is fed by the supervisor, the protection classifier and
  the other sources; the events the xy thread records of its own failed writes are left
  out.
* In `HttpServers` the main loop may switch the servers at any time (when it does is
  `NetSystem`'s affair), time passes only in reads, a tag is known by the image it was
  computed over, and an image is a number of pieces.  The bootloader passes over a
  selected slot that holds no whole image.

## 3. Runs

Passing runs:

| run | module | question | bounds |
|---|---|---|---|
| `supervisor_windows` | `MCChargeWatch` | on a board with the temperature sensor, does every dangerous condition end within its window, measured by readings? | windows of 2 ticks, one hold allowed, every status read with a target the firmware wrote |
| `supervisor_cycle` | `MCChargeSupervisor` | no panic, redeemable tickets, refinement of `ChargePromise`, complete log; does a cycle end, and a flapping rail? | leaky windows of 2 ticks, cap of 4, five kinds of sample, fairness on ticks |
| `charger_safety` | `MCCharger` | thread and buck with lost writes, failed reads, two kinds of protection, power cycles and reboots | two boot attempts, windows of 2 |
| `charger_liveness` | `MCCharger` | a hand on the panel: does a latch win, a stray target end, a park land? | windows of 1 |
| `net_system` | `MCNetSystem` | the network properties of section 1 | two networks, grace of 3, budget of 2, ticks of 1 or 2, three submissions, two reboots |
| `telemetry` | `MCSensorData` | is the history ordered, whole and long enough; do the clocks tell live from dead? | capacity 4, largest interval 4, 17 commits (two compactions and a slide), the clock set twice, iterations of 1 or 2 s, one producer |
| `diagnostics` | `MCDiagnostics` | does the log ring hold the last bytes accepted, does a reader get one cut of it, is every event counted under its own kind? | ring of 4 bytes, lines of 1 to 5, 12 bytes; event ring of 2, counters that stop at 3, 4 polls of the buck (three protections) or events of the other sources |
| `http` | `MCHttpServers` | does what boots stay verified, is an upload bounded, is the DNS port free, is what is queued what was typed, does a switch end? | two images of 7 pieces, a tag of 2 bytes, reads that time out after 2 ticks and an upload after 3, two DNS threads, texts at and past limits of 2 to 4 bytes read 1 or 5 at a time |

Bounds.  A window of one tick can never be interrupted and one of two can be
interrupted, restarted and finished, so windows checked for their length have at least
two units; that one window cannot mask another for longer than its own length is
proved for every length (section 5).  `MaxHolds`
of 1 or 2 makes both the held and the flapping outcome reachable.  The two boot attempts
give the retry and the give-up.  Two networks are enough for a pair made of halves of
both.  Windows of one tick in `charger_liveness` make the supervisor latch at the first
sign of trouble; they only shorten the way to the states the properties are about.  Seven pieces at one
tick or less each let the deadline of three ticks fall before, at and after the last
piece.  Typed texts include the empty one, one at and one past each limit, bytes that
are escaped, and characters of two and three bytes, some of which a limit cuts.

Runs that find a disagreement between a comment or document and the code (the finding
in `PROJECT.json` quotes the text):

| run | the text | what the run shows |
|---|---|---|
| `charger_mute` | a Modbus glitch on a V_SET write retries instead of latching `SettingsDrift` | a write whose reply alone is lost is seen as drift on the next poll and latches |
| `charger_blind` | by the time the gauntlet runs, "not sourcing" means nothing is sourcing | a held buck comes back on while its status cannot be read |
| `net_torn_save` | bad credentials cannot overwrite a known-good pair | a reboot between the two NVS writes stores half of each pair |
| `telemetry_stall` | the windows a dead INA228 has to cross are charged in wall time, so the figure holds even when a loop runs slow | only the main loop charges the staleness clocks: while it sits in `try_connect` an old reading is fresh to the xy thread, the API and the LCD |

`charger_safety` and `charger_liveness` leave out the mute write (`Outcomes` has `Ok`
and `Lost` only) because `charger_mute` shows what it does.  `CycleIsCapped` in
`supervisor_windows` is the bound that does hold for the charge cap: the uncounted
ticks between two counted ones are themselves bounded by the missing-battery window.

`UnreadTemperatureEnds` is the bound that does hold for an unread pack temperature.  The
observer counts every tick without a temperature, whatever the battery sample; the
gauntlet counts only those it reaches, and returns before check 7 on a tick without a
battery sample and on the tick that parks on an overcurrent.  `UnfeltBound` adds up: less
than `PACK_TEMP_STALE_TIMEOUT` of counted ticks, and around each of them a gap shorter
than `BATTERY_MISSING_TIMEOUT`, which would latch.  In the firmware, with 10 s for each
and ticks of a second or more, that is 110 s rather than the 10 s the constant promises.  A park, which feeds the load at float, may add the tick
that began it and one more gap (`ParkSlack`).

`ResetForgets` says what an answered reset does forget even if a removal fails: what was
removed stays removed, and the loop, the radio and the mailbox hold no pair once the loop
rests with the flag taken.  The promise ends at a submission, and at a reboot that finds
a pair the reset could not remove.  `SaveIsAnswered` counts as an answer the `Idle` that
is stored while the bundle of servers is dropped, which no page is left to read.

`telemetry` has a single producer because the two have the same handlers and only
`tick` touches both; `telemetry_stall` has both.  `DeadIsNotShown` is the bound that
does hold: the window and the iteration under way.

`BootsLastVerified` says nothing of an upload that is begun in the two seconds between
an accepted one and its restart: it erases the slot just selected, nothing in the code
keeps it out, and what boots is then the old image or whatever was written
(`PROJECT.json` lists the hazard).  `SavedIsWhatWasTyped` speaks of bodies that arrived
whole: `read_to_buf` takes a peer's early close for the end of the body, so a prefix may
be queued; it is then tried and, unless it associates, never stored.

In `diagnostics` a line may be longer than the ring, which the firmware's hook cannot
produce (a line buffer of 512 bytes, a ring of 16 KB) and `Ring::write` allows.

Smaller divergences met on the way, without a run: `charging/mod.rs:103` calls
`MAX_CHARGE` an absolute cap counted from entering `Absorb`, while a tick without a
battery sample does not count towards it (`CycleIsCapped` is the bound that holds);
`charging/mod.rs:195` calls `PACK_TEMP_STALE_TIMEOUT` how long a fitted sensor may go
unread before the supervisor fails closed, while that window stands still on a tick
without a battery sample (`UnreadTemperatureEnds` is the bound that holds);
`wifi_reset.rs:1` says the request clears the stored credentials and `nvs_creds.rs:60`
logs them as cleared, while the results of both removals are thrown away and the pair
may still be stored (`ResetForgets` says what is forgotten all the same);
`charge_supervisor.rs:393` calls a
second park-class fault from inside a park proof that holding float did not fix it,
while it can be raised before the step-down to float has reached the buck;
`history/mod.rs:67` says how many raw samples an entry stands for and `data/mod.rs:60`
that `power_online` is the fraction of its span, while the entry pushed by the commit
that compacts covers half an interval and is averaged with a full one later on;
`charge_state.rs:66` says at most
one event is produced per tick, while `reconcile` and the rest of the tick can move
the machine twice; `charge_supervisor.rs:67` says the fault is set once, when the
machine enters `Tripping`, while a park sets it too; several comments rely on a panic
hook that reboots, while the release profile aborts on panic; `net_fsm.md` names
`debug_assert_matches_phase`, which is `warn_out_of_step`;
`clock.rs:78` says both callers of `lap` feed a task watchdog, to which the main loop is
not subscribed; `clock.rs:119` says smooth sync keeps the event log's stamps monotonic,
while the clock is read before the log is locked and the first sync may jump;
`net.rs:49` says the handler of `/save` only reads the status, while it stores
`Pending` (`SpinnerTellsTruth` is what holds in spite of the two writers);
`error_log/mod.rs:16` has a kind `Init` no code records, and its line 85 names
`SensorData::charge_fault`, which lives in the charge status; `wifi.rs:37` advertises
port 80 while the dashboard answers on 443; `ota.rs:13` calls its timeout one of the
entire upload, while the reads of the tag come before it starts (`UploadIsBounded` is
the bound that holds); `README.md:118` says `/wifi-reset` reboots, while it only
raises a flag and the main loop switches to the portal.

## 4. Fairness and environment assumptions

* Supervisor: weak fairness of ticks (`FairSpec`).  `run` is an endless loop watched
  by the task watchdog.
* Charger: weak fairness of the thread, strong fairness of the successful outcome of
  each call that is tried over and over (`FairChargerSpec`): a link that fails for
  ever cannot be commanded at all.  Nothing is assumed of the panel, the buck or the
  battery.  `charger_liveness` has no reboots; the buck keeps its registers over one,
  and `charger_safety` shows the boot turns the output off first.
* Network: strong fairness of the main loop, weak fairness of a request under way.
  The loop sleeps for a fixed time however many requests arrive; strong fairness
  makes up for `Sleep` waiting for an idle handler, which stands for the assumption
  that a request takes milliseconds and a sleep a second.  The link only changes
  while the loop sleeps or is in `try_connect`: from the poll to the switch of the
  servers there is no time to associate, get an address and serve a request.  Under
  that assumption a `/wifi-reset` is never raised in a captive phase, where `step`
  would ignore it, and the second half of `ResetForgets` holds.
* Servers: weak fairness of each handler's own steps, of the time-out of a read, of the
  DNS thread and of the join; strong fairness of `ServerStopped`, because the task of a
  server looks at the order to stop between two requests, however many come.  Peers
  owe nothing: that is what `SwitchEnds` is about.

## 5. Theorems

Eight modules hold proofs.  Seven of them EXTEND the module they are about, so the
theorems speak of the very definitions TLC runs, for every value of the constants that
the named assumptions allow.  The assumptions say what the code's own assertions and
types say: windows are positive and shorter than `Duration::MAX`,
`MAX_CHARGE > MAX_ABSORB`, the hold budget fits its byte, the ring of transitions has
room for three entries, the thresholds are ordered, buffers are not empty, the largest
interval of the history is a power of two, what a user types is UTF-8 (the page encodes
characters, not bytes).  TLC evaluates them in every run.

The eighth, `Induction`, has the one lemma the others share.  The library's theorems of
induction take the predicate as a parameter, which the provers cannot instantiate.
`SetInduction` says the same of a set: one that holds 0, and the successor of each of
its numbers, holds every number.  It follows from the library's fact that the subsets of
a finite set are well founded.  What recursive functions compute (the decoder of a form,
the walk along the labels of a DNS name, the doubling of the history's interval) is
proved for every input with it.

### The supervisor (`ChargeSupervisor_proofs`)

| theorem | says |
|---|---|
| `Inductive` | `IInv` holds always |
| `TypeCorrect` | `TypeOK`: every window stays in its range |
| `NeverPanics` | `NoPanic`: no empty cell, no refused ticket, no leaky window past its end |
| `TicketsRedeemable` | `TicketsAgree`: the ticket handed out is the one its commit accepts |
| `FaultsTellTheState` | `FaultTellsState`: a fault is on display exactly when charging is over |
| `Implements` | `KeepsPromise`: the supervisor refines `ChargePromise` |
| `LogsEveryStop` | `StopsAreLogged`: the step that ends a charge logs it |

`IInv == TypeOK /\ NoPanic /\ FaultTellsState /\ TicketsAgree`.
None of the last three is inductive alone.  A commit panics unless the ticket agrees
with the state; the ticket keeps agreeing only because a tick that hands one out
leaves the state it names; a disable ticket names the fault on display, which holds
only in states that are no longer charging; and whether a state is charging survives
a hold because the hold remembers what it was taken from.  The proof follows the code:
lemmas on the table (`ParkLandsParked`, `HoldRemembers`, ...), on moves (`StepTo`),
on each part of `reconcile`, on the gauntlet's verdict, on `regulate`, and on the
commits; each part is shown to keep `IInv` and to be a step of the promise in one
go, so the refinement costs no second case analysis.

`LogsEveryStop` needs to know that no entry is pushed out by a later one of the same
tick.  `LogInv` says how full the log can be: a tick starts by draining it and moves the
machine at most twice, into or out of a hold and then on a verdict, so it holds two
entries at most; the one commit that logs, of an `EnableOutput`, follows a tick that
moved at most once, and finds room as well.

### The observer (`ChargeWatch_proofs`)

| theorem | says |
|---|---|
| `CountsFollow` | the observer's counts stay under the supervisor's windows |
| `NeverSourcesBlind` | `NeverBlind` |
| `DangerIsEnded` | `DangerEnds`: overvoltage and overcurrent |
| `UnreadTemperatureIsEnded` | `UnreadTemperatureEnds`, in wall time |
| `CycleHasCap` | `CycleIsCapped`, in wall time |

The observer counts what it sees from outside, the supervisor what it is told, and the
two are tied by `Followed`: while the buck sources,
each count is no more than the clock of the window that watches for it, and short of
the bound.  `SourcingTick` is the step that keeps it: a tick that leaves the buck
sourcing has run every window that could have stopped it, and none was up; a hold, a
park or a change of phase in between resets only windows whose count is reset with
them.  For the cap, `Cycled` also bounds the uncounted time between two ticks that
carry a sample by the missing-battery window, and the sum by `CycleBound`.  `Felt` does
the same for the temperature: of the time it went unread the window counted a part, in a
number of ticks, each with one gap, plus the gap under way (`Missed`) and what a park on
an overcurrent added; `CountsCap` turns both into the bounds.

### Thread and buck (`Charger_proofs`)

| theorem | says | needs |
|---|---|---|
| `ThreadInductive` | the supervisor's `IInv` survives the composition, and the thread is where its ticket says | |
| `ChargerTypes` | every variable keeps its type | |
| `ChargerImplements` | `KeepsPromiseUntilReboot`: thread, buck and supervisor together refine `ChargePromise` | |
| `LatchStaysDark` | `LatchedIsDark` | `Untouched` |
| `StepDownStaysDark` | `StepDownIsDark` | `Untouched` |
| `TargetIsHeld` | `DeviceHoldsTarget` | `Answered` |
| `FaultsEndTheCharge` | `FaultEndsCharge` | `Answered` |
| `NothingSelfInflicted` | `NoSelfInflictedLatch` | `KnownBuck` |

`ChargerImplements` holds whatever the buck, the link and the panel do.  The thread
calls the supervisor in two places only, to tick it (`PollGoes`) and to redeem the
ticket it was handed (`ApplyGoes`), and everything else leaves it alone; so each step of
the whole is a step of the promise, a stutter, or a reboot, which starts a new one.
`KeepsPromiseUntilReboot` is stated beside its proof; no run checks it.

The assumptions of the others are part of each statement, and each is needed.
`Untouched`: nobody uses the front panel, which can switch the output on or change the
target between any two calls.  `Answered` adds that no write lands and loses its reply;
`charger_mute` shows what happens otherwise.  `KnownBuck` adds that the buck's power-on
default is an output that is off, as every completed boot leaves it: with another
default, a power cycle before that write brings the output up in `Boot`, which the
supervisor latches.

`ThreadInv` says what the ticket asks, and which ticket the positions of a step-down
hold.  `DarkFits` adds that the power-on default stays off once the boot has written
it and that the output is off where `V_SET` is about to be lowered; `TargetFits` says
what the target register holds at each position (the one the state names, but in the
calls of a step-down after the write, where it is the one the ticket carries);
`BootIsDark` that a new supervisor's buck is off from the boot's first write on.  The
four are proved in layers, so that the ones that need fewer assumptions do not carry
the others'.

`FaultsEndTheCharge` does not say that a fault leaves the buck dark or at float at once: a
lost write leaves it at the absorb target in `ToParked` or `Tripping`.  It says that
these are the only states in which it can be, and `AsksFits` that every iteration there
asks for the write again, but for a park on a tick without a battery sample, which waits
(`TickAsks`, one case per branch of `tick`).

### The network (`NetSystem_proofs`)

| theorem | says |
|---|---|
| `NetInductive` | `NetInv` holds always |
| `StaysInStep` | `InStep`: no action meets resources it cannot be carried out against |
| `SavedWasProven` | `SavedIsProven` |
| `ResetIsForgetting` | `ResetForgets` |
| `SpinnerIsTrue` | `SpinnerTellsTruth` |

The properties speak of the loop at rest; `NetInv` says what has to hold at each of its
steps for them to come out right.  `LoopFits`: the radio fits the phase until a
decision is made, and then what the decision carries.  `LinkFits` and `HandlerFits`:
a link that is up was seen by the last poll, so a `/wifi-reset` half done is answered
before the loop can give the dashboard up.  `StoreFits`: the two strings, outside the
two writes of a save.  `ForgetFits`: after a reset its flag is up, or the portal is bare
or about to be.  `Gone` says of each key that a reset removed that it is not stored.  `SpinFits` adds the status: once the loop has slept no `/save` is half
done unless it has filled the mailbox, so its late store of `Pending` cannot outlive
the pair it announces.

### Servers and uploads (`HttpServers_proofs`)

| theorem | says |
|---|---|
| `UploadInductive` | `UploadInv` holds always |
| `BootsWhatWasVerified` | `BootsLastVerified` |
| `UploadsAreBounded` | `UploadIsBounded` |
| `PortIsFree` | `BindFindsPortFree` |
| `SavesWhatWasTyped` | `SavedIsWhatWasTyped`: the pair queued is the pair typed, or none is |
| `QuestionFound` | the DNS parser finds the end of a question exactly when the packet has one |
| `ResponseFits` | a response echoes that question, answers an A query only, and fits its buffer |

`UploadInv` ties the spare slot to how far the upload has got (`SpareFollows`), the slot
selected to the image last verified (`SelectedIsVerified`) and the age of an upload to
its stage (`AgeFollows`: so many reads of the tag, then the deadline and one read).
`PortIsFree` rests on the order of the switch: a thread that is not gone belongs to the
portal that is up, and there is at most one.

`SavesWhatWasTyped` goes from the text to the pair, for texts of any length.  The body
is described byte by byte (`BodyShape`), which shows its one bare `&` and hence the two
fields `parse_form` splits it into.  `DecodesEncoded` shows that the decoder gives back
the text the page encoded; the decoder reads forward, so the induction runs from the
last character back.  A text longer than its buffer is cut before it is validated:
`CutIsRefused` shows that what is left is refused all the same, because the buffers hold
one byte more than the limits they are validated against.  `SaveOK` carries the
submission from its first byte to the answer.

For the DNS responder `Labels` describes a name without a loop, as the chain of places
that each label leads to.  `LabelBefore` and `LabelAfter` take the chain apart where the
parser's loop takes a step, and an induction along it gives both directions of
`QuestionFound`.

### Data and log (`SensorData_proofs`, `Diagnostics_proofs`)

| theorem | says |
|---|---|
| `DeadIsNeverShown` | `DeadIsNotShown`: what a reader sees is no older than the window and the iteration under way |
| `LiveIsAlwaysShown` | `LiveIsShown`: a reading younger than the window less one longest iteration is shown |
| `AlwaysOrdered` | `HistoryOrdered`: the stored stamps strictly increase |
| `NothingLostOrTwice` | `Contiguous`: the entries and the accumulator cover a stretch of the samples up to the last, each sample once |
| `HistoryIsLong` | `SpanIsKept`: all samples are kept, or at least all but one entry's worth of the full span, and each entry covers half its interval or more |
| `RingKeepsLastBytes` | `KeepsLastBytes`: the ring implements `LastBytes` |
| `StreamsOneCut` | `StreamIsOneCut` |
| `CountsEveryEvent` | `EveryEventCounted`: counters and ring agree with all events so far |

`DeadIsNeverShown` rests on `ClocksTrail` (a clock still inside the window trails the true
age of its reading by no more than the lap not yet charged), `LiveIsAlwaysShown` on
`ClocksLead` (it leads by no more than the iteration the reading came in).
`HistoryOrdered` compares neighbours and is not inductive, because compaction keeps
every other stamp; `Chronological` compares any two, and `RoomKeepsOrder` shows that
neither compacting nor sliding adds a stamp, so what is newer than the last entry
before is newer than the last entry after.

What the history covers is told by a cut: `cut[0]` is the last sample no longer kept and
entry `i` stands for the samples after `cut[i - 1]` up to `cut[i]` (`Stretches`).
`CoverInv` says there always is one.  Compaction takes every other place of it and a
slide drops the first, so `Contiguous` follows by construction of the cut.  `SpanIsKept`
needs to know how much an entry stands for: each is full or, pushed by the commit that
compacts, at least half full (`Filled`), and together they lack less than one interval
(`NearlyFull`: what they lack doubles when the interval does, and grows by half of the
new one).

For the log, `Tells` says which byte each
position holds: `Newest` once the ring has wrapped, `Whole` before.  `WriteTells`
shows that a line of any length, one that fills the ring exactly or is longer than it
included, keeps it, and `WriteAccepts` that the write is one step of the abstract log.
`EventInv` says of every counter that it is the number of events of its kind so far, cut
off at its maximum, and of the ring that it holds the latest ones (`Recency`); its part
`LastIsShown` ties the status the classifier compares with to the last one read, without
which a new protection could not be told from one that lasts.

### Only model-checked

Every invariant and every action property of the passing runs is stated by a theorem.
What stays with TLC is liveness (`AbsorbEnds`, `FlappingLatches`, `LatchWins`,
`StrayTargetEnds`, `ParkLands`, `ResetReachesPortal`, `SaveIsAnswered`, `AlwaysAWayIn`,
`SwitchEnds`): proofs under fairness, and ENABLED, are out of the proof system's reach.

## 6. Not modelled, and why

* The INA228 thread: one loop around a driver.  What it can do to the rest (samples that
  are present, absent or stale) is an input of the charge models and of `SensorData`.
* Charge profiles and the OCV table: constants in floating point.  Their order, which is
  all the control depends on, is an assumption of `ChargeSupervisor`; the compiler
  evaluates the profile's own assertions on every build.
* The LCD, the pages and the JSON of the API: they read what others own and no part
  reads them back.
* The drivers (Modbus framing, WiFi, SNTP, the task watchdog): external; an outcome of a
  call is a choice.  A reboot by the watchdog is a `Reboot` at any step.
* The derivation of the upload key, and the scan cache of the portal: no property here
  tells their values apart.
* Build and deployment scripts: outside the running program.
