---------------------------- MODULE HttpServers ----------------------------
(***************************************************************************)
(* The two HTTP servers, one alive at a time, with the long handlers that  *)
(* run on them and the portal's DNS thread, while the main loop drops the  *)
(* one and starts the other (src/main.rs, src/http, src/dns.rs).           *)
(*                                                                         *)
(* The dashboard has the upload (Ota), the portal the submission           *)
(* (SaveForm); a server has one task, so one handler is in flight.  When   *)
(* the main loop switches is NetSystem's affair: here it may at any time.  *)
(***************************************************************************)
EXTENDS Ota, SaveForm

CONSTANT Threads    (* names for the DNS threads that may exist at once *)

VARIABLES
    server,     (* the server that is up: "Dashboard", "Portal"              *)
    main,       (* the main loop: "runs", "stopping" the server, "joining"   *)
                (* the DNS thread                                            *)
    dns,        (* each DNS thread: "gone", "starting", "checks", "receives" *)
    told,       (* the threads whose stop flag is up                         *)
    seen        (* history: the image last verified, and whether the slot    *)
                (* selected for the next boot was written to since           *)

hvars == <<flash, upload, save, server, main, dns, told, seen>>

Quiet == upload = NoUpload /\ save = NoSave
Serving(name) == server = name /\ main # "joining"

-----------------------------------------------------------------------------
(* The handlers: a request is taken when the one before is answered. *)

TakeUpload == Serving("Dashboard") /\ Quiet /\ UploadStart /\ UNCHANGED seen

(* What the upload does, and what is noted of it. *)
UploadGoesOn ==
    \/ TagRead /\ UNCHANGED seen
    \/ TagEnds /\ UNCHANGED seen
    \/ ReadTimesOut /\ UNCHANGED seen
    \/ BodyRead /\ UNCHANGED seen
    \/ BodyEnd /\ UNCHANGED seen
    \/ DeadlinePassed /\ UNCHANGED seen
    \/ UploadAnswer /\ UNCHANGED seen
    \/ UpdateBegin /\ seen' = [seen EXCEPT !.reopened = @ \/ flash.boot = "spare"]
    \/ /\ Verify
       /\ seen' = IF upload'.code = 200 THEN [verified |-> upload.claim, reopened |-> FALSE]
                  ELSE seen

Uploading == (TakeUpload \/ UploadGoesOn) /\ UNCHANGED <<save, server, main, dns, told>>

TakeSave == Serving("Portal") /\ Quiet /\ SaveStart

SaveGoesOn == SaveRead \/ SaveEnd \/ SaveOverflows \/ SaveFails \/ SaveAnswer

Submitting ==
    (TakeSave \/ SaveGoesOn) /\ UNCHANGED <<flash, upload, server, main, dns, told, seen>>

-----------------------------------------------------------------------------
(* The main loop. *)

(* `drop(bundle)`, `drop(server)` ask the task of the server to stop. *)
StopServer ==
    /\ main = "runs"
    /\ main' = "stopping"
    /\ UNCHANGED <<flash, upload, save, server, dns, told, seen>>

Alive(t) == dns[t] # "gone"

(* The task stops between two requests; after the dashboard the portal comes  *)
(* up with a DNS thread, after the portal the DNS thread is told to stop.     *)
ServerStopped ==
    /\ main = "stopping" /\ Quiet
    /\ \/ /\ server = "Dashboard"
          /\ \E t \in Threads : ~Alive(t) /\ dns' = [dns EXCEPT ![t] = "starting"]
          /\ told' = {t \in told : Alive(t)}
          /\ server' = "Portal" /\ main' = "runs"
       \/ /\ server = "Portal"
          /\ told' = told \cup {t \in Threads : Alive(t)}
          /\ main' = "joining"
          /\ UNCHANGED <<server, dns>>
    /\ UNCHANGED <<flash, upload, save, seen>>

(* Mutant: the DNS thread is told to stop and not waited for. *)
DnsJoined_Detached ==
    /\ main = "joining"
    /\ server' = "Dashboard" /\ main' = "runs"
    /\ UNCHANGED <<flash, upload, save, dns, told, seen>>

(* `Drop for DnsHandle` joins the thread; then the dashboard comes up. *)
DnsJoined ==
    /\ main = "joining" /\ \A t \in Threads : ~Alive(t)
    /\ server' = "Dashboard" /\ main' = "runs"
    /\ UNCHANGED <<flash, upload, save, dns, told, seen>>

-----------------------------------------------------------------------------
(* The DNS thread binds port 53, then looks at its flag and receives in turn; *)
(* a receive ends with a packet or after a second with an error.              *)

DnsStep(from, to) == \E t \in Threads : dns[t] = from /\ dns' = [dns EXCEPT ![t] = to]

DnsBinds == DnsStep("starting", "checks")
DnsChecks ==
    \E t \in Threads :
        /\ dns[t] = "checks"
        /\ dns' = [dns EXCEPT ![t] = IF t \in told THEN "gone" ELSE "receives"]
DnsReceived == DnsStep("receives", "checks")

DnsRuns ==
    (DnsBinds \/ DnsChecks \/ DnsReceived)
        /\ UNCHANGED <<flash, upload, save, server, main, told, seen>>

-----------------------------------------------------------------------------

NoThreads == [t \in Threads |-> "gone"]

UpWith(name) ==
    /\ server' = name
    /\ \E t \in Threads :
        dns' = IF name = "Portal" THEN [NoThreads EXCEPT ![t] = "starting"] ELSE NoThreads

(* The reboot two seconds after an accepted upload, or a power cut at any time. *)
Reboot ==
    /\ flash' = Rebooted
    /\ seen' = [verified |-> WouldBoot, reopened |-> FALSE]
    /\ upload' = NoUpload /\ save' = NoSave
    /\ \E name \in {"Dashboard", "Portal"} : UpWith(name)
    /\ main' = "runs" /\ told' = {}

HttpInit ==
    /\ OtaInit /\ save = NoSave
    /\ server = "Dashboard" /\ main = "runs"
    /\ dns = NoThreads /\ told = {}
    /\ seen = [verified |-> flash.running, reopened |-> FALSE]

HttpNext ==
    \/ Uploading \/ Submitting
    \/ StopServer \/ ServerStopped \/ DnsJoined
    \/ DnsRuns \/ Reboot

(* Handlers and threads run, a read times out, and the task of a server sees  *)
(* the order to stop however many requests come before it.  Peers owe nothing. *)
Fairness ==
    /\ WF_upload(UploadProceeds)
    /\ WF_upload(ReadTimesOut)
    /\ WF_save(SaveFails \/ SaveAnswer)
    /\ WF_dns(DnsRuns)
    /\ WF_main(DnsJoined)
    /\ SF_main(ServerStopped)

HttpSpec == HttpInit /\ [][HttpNext]_hvars
FairHttpSpec == HttpSpec /\ Fairness

-----------------------------------------------------------------------------
(* Properties. *)

(* However an upload ends, in an error at any of its steps, a reboot or a     *)
(* power cut between two of them, what boots next is the image whose tag was  *)
(* verified last (handle_upload, ota.rs:107).  Only an upload into the slot   *)
(* that is already selected for the next boot is outside the promise.         *)
BootsLastVerified == seen.reopened \/ WouldBoot = seen.verified

(* A peer that trickles or stalls holds the only task of the dashboard for    *)
(* the tag's reads, the deadline and one read more, never for longer          *)
(* (UPLOAD_TIMEOUT, ota.rs:86).                                               *)
UploadIsBounded ==
    upload # NoUpload => upload.age < TagLen * RecvTimeout + UploadTimeout + RecvTimeout

(* A new portal's DNS thread finds port 53 free, whatever the order of drops, *)
(* joins and starts: a bind that fails is a panic (dns.rs:39).                *)
BindFindsPortFree ==
    \A t, u \in Threads :
        (t # u /\ dns[t] = "starting") => dns[u] \notin {"checks", "receives"}

(* A submission that arrives whole is accepted when the radio takes what was  *)
(* typed, and then queued as typed: no buffer on the way cuts it to another   *)
(* pair (captive_api.rs:65).                                                  *)
SavedIsWhatWasTyped ==
    (save # NoSave /\ save.at = "answer" /\ save.filled = Len(save.body)) =>
        /\ save.code = 200 <=> Acceptable(save.typed.ssid, save.typed.pass)
        /\ save.code = 200 => save.creds = save.typed

(* A switch of servers ends: no peer and no query keeps the main loop in the  *)
(* stop of a server or in the join of the DNS thread (main.rs:287, 306).      *)
SwitchEnds == main # "runs" ~> main = "runs"
=============================================================================
