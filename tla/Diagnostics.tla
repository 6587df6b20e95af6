---------------------------- MODULE Diagnostics ----------------------------
(***************************************************************************)
(* What the device remembers of its own past: the log ring with the        *)
(* vprintf hook that feeds it and the handler that streams it              *)
(* (src/log_ring.rs), and the event log with the threads that record in it *)
(* (src/clock.rs) and the xy thread's filter of protections (src/xy.rs).   *)
(* The mutex of the ring is held by whoever streams it; a line that finds  *)
(* it taken is dropped, which leaves everything as it was.                 *)
(***************************************************************************)
EXTENDS LogRing, EventLog, FiniteSets

CONSTANTS
    LineBuf,        (* LINE_BUF_SIZE                                         *)
    LongestFormat,  (* bound: what vsnprintf says it would have written      *)
    MaxBytes,       (* bound: bytes accepted by the ring                     *)
    MaxEvents,      (* bound: polls of the buck and other events             *)
    Causes          (* protections the buck shows in this instance           *)

(* `XyError`: the kind of an unread status and that of each protection.      *)
ReadStatus == <<"xy", 0>>
FromProtection == [Lvp |-> <<"xy", 1>>, Otp |-> <<"xy", 2>>, Ocp |-> <<"xy", 3>>]

(* A protection that lifts when the supply is back. *)
IsInputLoss(cause) == cause = "Lvp"

ASSUME LineAssumption == LineBuf \in Nat /\ LineBuf > 1 /\ LongestFormat \in Nat
ASSUME CauseAssumption == Causes \subseteq DOMAIN FromProtection /\ XyKinds = 4

(* What the xy thread can read: nothing, a sourcing buck, or why it is off.  *)
Unread == [says |-> "nothing"]
Sourcing == [says |-> "on"]
OffBy(cause) == [says |-> "off", cause |-> cause]
Polls == {Unread, Sourcing} \cup {OffBy(cause) : cause \in Causes \cup {"Normal"}}

(* What the other threads record. *)
OtherEvents == {event \in Events : event[1] # "xy"}

VARIABLES
    ring,
    log,        (* the event log                                             *)
    last,       (* `ProtectionLog::last`: the cause the last read showed     *)
    reader,     (* the handler of /api/log: [at, sent], the slices sent      *)
    accepted,   (* history: bytes the ring has accepted                      *)
    past        (* history: every poll of the buck and every other event     *)

vars == <<ring, log, last, reader, accepted, past>>

Idle == [at |-> "idle", sent |-> <<>>]

Init ==
    /\ ring = NewRing /\ log = NewLog /\ last = "Normal" /\ reader = Idle
    /\ accepted = 0 /\ past = <<>>

(* Mutant: the mutex of the ring is not asked. *)
MayAppend_Unlocked == TRUE

(* The hook's `try_lock`: nobody is streaming the ring. *)
MayAppend == reader.at = "idle"

(* What vsnprintf leaves in the line buffer, without its terminator. *)
Printed(n) == IF n < LineBuf - 1 THEN n ELSE LineBuf - 1

(* `vprintf_hook`: a line is cut to the buffer and appended. *)
LogLine(n) ==
    /\ MayAppend
    /\ accepted + Printed(n) <= MaxBytes
    /\ accepted' = accepted + Printed(n)
    /\ ring' = Write(ring, [i \in 1..Printed(n) |-> accepted + i])
    /\ UNCHANGED <<log, last, reader, past>>

(* `EventRecorder::record`, from the INA thread or for a charge transition. *)
RecordEvent(event) ==
    /\ Len(past) < MaxEvents
    /\ past' = Append(past, [says |-> "event", event |-> event])
    /\ log' = Record(log, event)
    /\ UNCHANGED <<ring, last, reader, accepted>>

(* Mutant: the episode is not over when the buck sources again. *)
LastAfter_Keeps(poll) == IF poll.says = "off" THEN poll.cause ELSE last

(* An unread status says nothing; sourcing ends whatever episode was running. *)
LastAfter(poll) ==
    CASE poll = Unread -> last
      [] poll = Sourcing -> "Normal"
      [] OTHER -> poll.cause

(* `classify`: a latched cause is recorded on the first read that shows it. *)
NewEpisode(poll) ==
    /\ poll.says = "off"
    /\ poll.cause # "Normal" /\ ~IsInputLoss(poll.cause)
    /\ last # poll.cause

(* `poll`: read the status, record that it failed or what it shows. *)
PollBuck(poll) ==
    /\ Len(past) < MaxEvents
    /\ past' = Append(past, poll)
    /\ log' = IF poll = Unread THEN Record(log, ReadStatus)
              ELSE IF NewEpisode(poll) THEN Record(log, FromProtection[poll.cause])
              ELSE log
    /\ last' = LastAfter(poll)
    /\ UNCHANGED <<ring, reader, accepted>>

(* GET /api/log: the two slices go out one after the other, under the lock.  *)
StreamOlder ==
    /\ reader = Idle
    /\ reader' = [at |-> "newer", sent |-> Older(ring)]
    /\ UNCHANGED <<ring, log, last, accepted, past>>

StreamNewer ==
    /\ reader.at = "newer"
    /\ reader' = [at |-> "done", sent |-> reader.sent \o Newer(ring)]
    /\ UNCHANGED <<ring, log, last, accepted, past>>

(* The guard is dropped: after the second slice, or because a write failed. *)
StreamEnds ==
    /\ reader # Idle
    /\ reader' = Idle
    /\ UNCHANGED <<ring, log, last, accepted, past>>

Next ==
    \/ \E n \in 1..LongestFormat : LogLine(n)
    \/ \E event \in OtherEvents : RecordEvent(event)
    \/ \E poll \in Polls : PollBuck(poll)
    \/ StreamOlder \/ StreamNewer \/ StreamEnds

Spec == Init /\ [][Next]_vars

-----------------------------------------------------------------------------
(* The ring implements "the last bytes accepted, in order", whatever the      *)
(* lengths of the lines and wherever they end.                                *)
Promise == INSTANCE LastBytes WITH text <- Contents(ring), LongestLine <- LineBuf - 1
KeepsLastBytes == Promise!Spec

(* A reader gets one cut of the log: the bytes it was sent follow each other  *)
(* without a gap, and once it is done they reach up to the last one accepted, *)
(* however many tasks logged while the slow client was being served.          *)
StreamIsOneCut ==
    /\ \A i \in 1..Len(reader.sent) - 1 : reader.sent[i + 1] = reader.sent[i] + 1
    /\ reader.at = "done" /\ accepted > 0
        => reader.sent # <<>> /\ reader.sent[Len(reader.sent)] = accepted

(* Entry i of the history is a status that was read. *)
IsRead(i) == past[i] \in Polls \ {Unread}

(* The last status read before entry i is the same as the one read there. *)
ShownBefore(i) ==
    \E j \in 1..i - 1 : past[j] = past[i] /\ \A k \in j + 1..i - 1 : ~IsRead(k)

(* The entries of the history that stand for an event: whatever another       *)
(* thread records, a failed read, and the first read of a protection; the     *)
(* loss of the supply is none.                                                *)
Noted == {i \in DOMAIN past :
             \/ past[i].says = "event"
             \/ past[i] = Unread
             \/ past[i] \in {OffBy(cause) : cause \in Causes \ {"Lvp"}} /\ ~ShownBefore(i)}

EventAt(i) ==
    CASE past[i].says = "event" -> past[i].event
      [] past[i] = Unread -> ReadStatus
      [] OTHER -> FromProtection[past[i].cause]

(* How far from the end of the events entry i is: 1 for the latest one. *)
Recency(i) == Cardinality({j \in Noted : j >= i})

(* The ring shows the latest events in order and each is counted under its    *)
(* own kind for ever, evicted or not, up to the counter's limit; a latched    *)
(* protection makes one entry per episode, however often it is polled and     *)
(* however many of the polls fail.                                            *)
EveryEventCounted ==
    /\ Len(log.recent) = IF Cardinality(Noted) < EventCapacity
                         THEN Cardinality(Noted) ELSE EventCapacity
    /\ \A i \in Noted : Recency(i) <= EventCapacity
          => log.recent[Len(log.recent) + 1 - Recency(i)] = EventAt(i)
    /\ \A event \in Events :
          Count(log, event) = Saturated(Cardinality({i \in Noted : EventAt(i) = event}))
=============================================================================
