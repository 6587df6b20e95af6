-------------------------------- MODULE Ota --------------------------------
(***************************************************************************)
(* A firmware upload (src/ota.rs): the tag, then the image piece by piece  *)
(* into the spare slot, then the check of the tag and the switch of the    *)
(* boot slot.  Between any two steps the peer can stall, close or fail.    *)
(*                                                                         *)
(* An image is a model value of Pieces pieces; a tag is known by the image *)
(* it was computed over, so it matches that image whole and nothing else.  *)
(* Time passes only in reads, in ticks.  External: EspOta, the flash with  *)
(* its two slots, and the bootloader.                                      *)
(***************************************************************************)
EXTENDS Naturals

CONSTANTS
    Firmwares,      (* the images a client may send                          *)
    Pieces,         (* pieces an image is written in                         *)
    TagLen,         (* bytes of the tag                                      *)
    RecvTimeout,    (* a read that brings nothing for so long fails          *)
    UploadTimeout   (* from the start of the update to its deadline          *)

ASSUME OtaAssumption ==
    /\ {Pieces, TagLen, RecvTimeout, UploadTimeout} \subseteq Nat \ {0}
    /\ "torn" \notin Firmwares

VARIABLES
    flash,      (* [running, spare, boot]: the image that runs, what the     *)
                (* other slot holds, and the slot selected for the next boot *)
    upload      (* the upload in flight: [at, claim, image, filled, total,   *)
                (* age, spent, code]                                         *)

NoUpload == [at |-> "idle"]

(* A read that brings something takes less than the timeout. *)
Waits == 0 .. (RecvTimeout - 1)

Answered(code, wait) == [upload EXCEPT !.at = "answer", !.code = code, !.age = @ + wait]

-----------------------------------------------------------------------------
(* `EspOta`: the slot that is written is the one that does not run. *)

Erased == [flash EXCEPT !.spare = "torn"]

(* The piece that completes the image makes the slot one that can be booted. *)
Written(image, total) == [flash EXCEPT !.spare = IF total = Pieces THEN image ELSE "torn"]

Selected == [flash EXCEPT !.boot = "spare"]

(* The bootloader passes over a selected slot that holds no whole image. *)
WouldBoot ==
    IF flash.boot = "spare" /\ flash.spare \in Firmwares THEN flash.spare ELSE flash.running

Rebooted ==
    IF flash.boot = "spare" /\ flash.spare \in Firmwares
    THEN [running |-> flash.spare, spare |-> flash.running, boot |-> "running"]
    ELSE flash

-----------------------------------------------------------------------------
(* `read_hmac_tag` *)

UploadStart ==
    /\ upload = NoUpload
    /\ \E image, claim \in Firmwares :
        upload' = [at |-> "tag", claim |-> claim, image |-> image, filled |-> 0,
                   total |-> 0, age |-> 0, spent |-> 0, code |-> 0]
    /\ UNCHANGED flash

TagRead ==
    /\ upload.at = "tag" /\ upload.filled < TagLen
    /\ \E n \in 1 .. (TagLen - upload.filled), wait \in Waits :
        upload' = [upload EXCEPT !.filled = @ + n, !.age = @ + wait]
    /\ UNCHANGED flash

(* `EspOta::new`, `initiate_update`; the deadline counts from here. *)
UpdateBegin ==
    /\ upload.at = "tag" /\ upload.filled = TagLen
    /\ \/ upload' = [upload EXCEPT !.at = "body"] /\ flash' = Erased
       \/ upload' = Answered(403, 0) /\ flash' \in {flash, Erased}

-----------------------------------------------------------------------------
(* `handle_upload`: the loop over the body. *)

(* Mutant: the loop does not look at its deadline. *)
InTime_Ignored == TRUE

InTime == upload.spent < UploadTimeout

(* A piece is read, hashed and written; a failing write aborts the update. *)
BodyRead ==
    /\ upload.at = "body" /\ InTime /\ upload.total < Pieces
    /\ \E wait \in Waits :
        \/ /\ upload' = [upload EXCEPT !.total = @ + 1, !.age = @ + wait, !.spent = @ + wait]
           /\ flash' = Written(upload.image, upload.total + 1)
        \/ upload' = Answered(403, wait) /\ UNCHANGED flash

(* The end of the body, or a peer that closed: a read of nothing either way. *)
BodyEnd ==
    /\ upload.at = "body" /\ InTime
    /\ \E wait \in Waits :
        upload' = [upload EXCEPT !.at = "verify", !.age = @ + wait, !.spent = @ + wait]
    /\ UNCHANGED flash

DeadlinePassed ==
    /\ upload.at = "body" /\ ~InTime
    /\ upload' = Answered(403, 0)
    /\ UNCHANGED flash

(* Reading the tag: nothing came, or the read failed. *)
TagEnds ==
    /\ upload.at = "tag" /\ upload.filled < TagLen
    /\ \E wait \in Waits : upload' = Answered(403, wait)
    /\ UNCHANGED flash

(* Mutant: a socket that waits for as long as its peer likes. *)
ReadTimesOut_Never == FALSE /\ UNCHANGED <<upload, flash>>

(* `recv_wait_timeout`: a read that brings nothing is an error to its caller. *)
ReadTimesOut ==
    /\ \/ upload.at = "tag" /\ upload.filled < TagLen
       \/ upload.at = "body" /\ InTime
    /\ upload' = Answered(403, RecvTimeout)
    /\ UNCHANGED flash

-----------------------------------------------------------------------------

TagMatches == upload.claim = upload.image /\ upload.total = Pieces

(* Mutant: the image is accepted on the flash's word that it is whole. *)
Verify_Trusting ==
    /\ upload.at = "verify"
    /\ IF upload.total = Pieces
       THEN upload' = Answered(200, 0) /\ flash' = Selected
       ELSE upload' = Answered(403, 0) /\ UNCHANGED flash

(* `verify_slice`, then `complete`, which may still refuse the image. *)
Verify ==
    /\ upload.at = "verify"
    /\ \/ TagMatches /\ upload' = Answered(200, 0) /\ flash' = Selected
       \/ upload' = Answered(403, 0) /\ UNCHANGED flash

(* `json_ok` and `reboot_after`, or `json_err`. *)
UploadAnswer ==
    /\ upload.at = "answer"
    /\ upload' = NoUpload
    /\ UNCHANGED flash

(* What the upload does by itself. *)
UploadProceeds == UpdateBegin \/ DeadlinePassed \/ Verify \/ UploadAnswer

OtaInit ==
    /\ \E image \in Firmwares, other \in Firmwares \cup {"torn"} :
        flash = [running |-> image, spare |-> other, boot |-> "running"]
    /\ upload = NoUpload
=============================================================================
