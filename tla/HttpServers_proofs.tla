------------------------- MODULE HttpServers_proofs -------------------------
(***************************************************************************)
(* What is proved about the servers, for every set of images, size of the  *)
(* image and of the tag, every timeout and any set of DNS threads: what    *)
(* boots was verified, an upload is bounded, and the port is free.  Then   *)
(* about the form, for texts of any length: what is queued was typed.  And *)
(* about the DNS responder, for every packet: it finds the question.       *)
(***************************************************************************)
EXTENDS HttpServers, DnsPacket, SequenceTheorems, Induction

Uploads ==
    [at : {"tag", "body", "verify", "answer"}, claim : Firmwares, image : Firmwares,
     filled : 0..TagLen, total : 0..Pieces, age : Nat, spent : Nat, code : {0, 200, 403}]

Flashes ==
    [running : Firmwares, spare : Firmwares \cup {"torn"}, boot : {"running", "spare"}]

UploadOK ==
    /\ upload \in Uploads \cup {NoUpload}
    /\ flash \in Flashes
    /\ seen \in [verified : Firmwares, reopened : BOOLEAN]

(* What the spare slot holds while an upload writes to it. *)
SpareFollows ==
    upload.at \in {"body", "verify"} =>
        flash.spare = IF upload.total = Pieces THEN upload.image ELSE "torn"

(* The slot selected for the next boot is the one that was verified, or holds *)
(* nothing and what runs was; and nobody is writing to it.                    *)
SelectedIsVerified ==
    ~seen.reopened =>
        IF flash.boot = "spare"
        THEN /\ upload.at \notin {"body", "verify"}
             /\ flash.spare = seen.verified
                \/ (flash.spare = "torn" /\ flash.running = seen.verified)
        ELSE flash.running = seen.verified

(* The time an upload has taken, by the stage it is in. *)
AgeFollows ==
    /\ upload.at = "tag" =>
           /\ upload.age <= upload.filled * RecvTimeout
           /\ upload.total = 0 /\ upload.spent = 0
    /\ upload.at \in {"body", "verify"} =>
           /\ upload.age <= TagLen * RecvTimeout + upload.spent
           /\ upload.spent < UploadTimeout + RecvTimeout
    /\ upload.at = "answer" =>
           upload.age < TagLen * RecvTimeout + UploadTimeout + RecvTimeout

UploadInv == UploadOK /\ SpareFollows /\ SelectedIsVerified /\ AgeFollows

-----------------------------------------------------------------------------
LEMMA ConstantsOK ==
    /\ Pieces \in Nat /\ Pieces > 0
    /\ TagLen \in Nat /\ TagLen > 0
    /\ RecvTimeout \in Nat /\ RecvTimeout > 0
    /\ UploadTimeout \in Nat /\ UploadTimeout > 0
    /\ "torn" \notin Firmwares
  BY OtaAssumption

(* What a read of the tag may add to the age. *)
LEMMA OneMoreRead ==
    ASSUME NEW a \in Nat, NEW n \in Nat \ {0}, NEW r \in Nat
    PROVE  a * r + r <= (a + n) * r
<1>1. PICK m \in Nat : n = m + 1
  <2>1. n - 1 \in Nat /\ n = (n - 1) + 1
    OBVIOUS
  <2> QED
    BY <2>1
<1>2. (a + n) * r = a * r + m * r + r
  BY <1>1
<1>3. m * r \in Nat /\ a * r \in Nat
  OBVIOUS
<1> QED
  BY <1>2, <1>3

LEMMA FewerReads ==
    ASSUME NEW a \in Nat, NEW b \in Nat, NEW r \in Nat, a <= b
    PROVE  a * r \in Nat /\ b * r \in Nat /\ a * r <= b * r
<1>1. PICK m \in Nat : b = a + m
  <2>1. b - a \in Nat /\ b = a + (b - a)
    OBVIOUS
  <2> QED
    BY <2>1
<1>2. b * r = a * r + m * r
  BY <1>1
<1>3. m * r \in Nat /\ a * r \in Nat
  OBVIOUS
<1> QED
  BY <1>2, <1>3

LEMMA InitUpload == HttpInit => UploadInv
  BY ConstantsOK
  DEF HttpInit, OtaInit, UploadInv, UploadOK, SpareFollows, SelectedIsVerified, AgeFollows,
      Flashes, NoUpload

(* The upload is not there: nothing is said of its stage. *)
LEMMA NoUploadIsQuiet ==
    NoUpload.at = "idle" /\ \A r \in Uploads : r.at # "idle"
  BY DEF NoUpload, Uploads

-----------------------------------------------------------------------------
(* The updates of the record of an upload keep its type. *)

LEMMA TagGrows ==
    ASSUME NEW r \in Uploads, NEW filled \in 0..TagLen, NEW age \in Nat
    PROVE  [r EXCEPT !.filled = filled, !.age = age] \in Uploads
  BY ZenonT(30) DEF Uploads

LEMMA BodyGrows ==
    ASSUME NEW r \in Uploads, NEW total \in 0..Pieces, NEW age \in Nat, NEW spent \in Nat
    PROVE  [r EXCEPT !.total = total, !.age = age, !.spent = spent] \in Uploads
  BY ZenonT(30) DEF Uploads

LEMMA BodyCloses ==
    ASSUME NEW r \in Uploads, NEW age \in Nat, NEW spent \in Nat
    PROVE  [r EXCEPT !.at = "verify", !.age = age, !.spent = spent] \in Uploads
  BY ZenonT(30) DEF Uploads

LEMMA AnsweredOK ==
    ASSUME upload \in Uploads, NEW wait \in Nat, NEW code \in {200, 403}
    PROVE  /\ Answered(code, wait) \in Uploads
           /\ Answered(code, wait).at = "answer"
           /\ Answered(code, wait).code = code
           /\ Answered(code, wait).age = upload.age + wait
<1>1. PICK age \in Nat : age = upload.age + wait
  BY DEF Uploads
<1>2. Answered(code, wait) = [upload EXCEPT !.at = "answer", !.code = code, !.age = age]
  BY <1>1 DEF Answered
<1>3. [upload EXCEPT !.at = "answer", !.code = code, !.age = age] \in Uploads
  BY ZenonT(30) DEF Uploads
<1>4. /\ Answered(code, wait).at = "answer"
      /\ Answered(code, wait).code = code
      /\ Answered(code, wait).age = age
  BY <1>2 DEF Uploads
<1> QED
  BY <1>1, <1>2, <1>3, <1>4

-----------------------------------------------------------------------------
(* One lemma per step of the upload. *)

LEMMA TakeUploadInv == ASSUME UploadInv, TakeUpload PROVE UploadInv'
<1> USE ConstantsOK DEF UploadInv, UploadOK
<1>1. PICK image \in Firmwares, claim \in Firmwares :
        upload' = [at |-> "tag", claim |-> claim, image |-> image, filled |-> 0,
                   total |-> 0, age |-> 0, spent |-> 0, code |-> 0]
  BY DEF TakeUpload, UploadStart
<1>2. upload' \in Uploads
  BY <1>1 DEF Uploads
<1>3. UNCHANGED <<flash, seen>>
  BY DEF TakeUpload, UploadStart
<1>4. upload'.at = "tag" /\ upload'.total = 0 /\ upload'.spent = 0
      /\ upload'.age = 0 /\ upload'.filled * RecvTimeout = 0
  BY <1>1
<1>5. AgeFollows'
  BY <1>4 DEF AgeFollows
<1>6. SpareFollows' /\ SelectedIsVerified'
  BY <1>3, <1>4 DEF SpareFollows, SelectedIsVerified
<1> QED
  BY <1>2, <1>3, <1>5, <1>6

LEMMA TagReadInv == ASSUME UploadInv, TagRead, UNCHANGED seen PROVE UploadInv'
<1> USE ConstantsOK DEF UploadInv, UploadOK
<1>1. PICK n \in 1 .. (TagLen - upload.filled), wait \in Waits :
        upload' = [upload EXCEPT !.filled = @ + n, !.age = @ + wait]
  BY DEF TagRead
<1>2. upload.at = "tag" /\ upload \in Uploads /\ UNCHANGED <<flash, seen>>
  BY NoUploadIsQuiet DEF TagRead
<1>3. upload' \in Uploads /\ upload'.at = "tag"
  <2>1. PICK filled \in 0..TagLen : filled = upload.filled + n
    BY <1>1, <1>2 DEF Uploads
  <2>2. PICK age \in Nat : age = upload.age + wait
    BY <1>1, <1>2 DEF Uploads, Waits
  <2>3. upload' = [upload EXCEPT !.filled = filled, !.age = age]
    BY <1>1, <2>1, <2>2
  <2>4. [upload EXCEPT !.filled = filled, !.age = age] \in Uploads
    BY <1>2, TagGrows
  <2>5. upload'.at = upload.at
    BY <1>2, <2>3 DEF Uploads
  <2> QED
    BY <1>2, <2>3, <2>4, <2>5
<1>4. upload'.age <= upload'.filled * RecvTimeout
  <2>1. upload.filled \in Nat /\ n \in Nat \ {0} /\ wait \in Nat /\ wait <= RecvTimeout
        /\ upload.age \in Nat
    BY <1>1, <1>2 DEF Uploads, Waits
  <2>2. upload'.age = upload.age + wait /\ upload'.filled = upload.filled + n
    BY <1>1, <1>2 DEF Uploads
  <2>3. upload.filled * RecvTimeout + RecvTimeout <= (upload.filled + n) * RecvTimeout
    BY <2>1, OneMoreRead
  <2>4. upload.filled * RecvTimeout \in Nat /\ (upload.filled + n) * RecvTimeout \in Nat
    BY <2>1, FewerReads
  <2>5. upload.age <= upload.filled * RecvTimeout
    BY <1>2 DEF AgeFollows
  <2> QED
    BY <2>1, <2>2, <2>3, <2>4, <2>5
<1>5. AgeFollows'
  <2>1. upload'.total = 0 /\ upload'.spent = 0
    BY <1>1, <1>2 DEF AgeFollows, Uploads
  <2> QED
    BY <1>3, <1>4, <2>1 DEF AgeFollows
<1>6. SpareFollows' /\ SelectedIsVerified'
  BY <1>2, <1>3 DEF SpareFollows, SelectedIsVerified
<1> QED
  BY <1>2, <1>3, <1>5, <1>6

(* Every way to an error leaves what boots alone; its age is bounded. *)
LEMMA RefusedInv ==
    ASSUME UploadInv, NEW wait \in Nat, wait <= RecvTimeout,
           upload.at = "tag" \/ (upload.at = "body" /\ (InTime \/ wait = 0))
               \/ (upload.at = "verify" /\ wait = 0),
           upload' = Answered(403, wait), UNCHANGED <<flash, seen>>
    PROVE  UploadInv'
<1> USE ConstantsOK DEF UploadInv, UploadOK
<1>1. upload \in Uploads
  BY NoUploadIsQuiet
<1>2. upload' \in Uploads /\ upload'.at = "answer" /\ upload'.age = upload.age + wait
  BY <1>1, AnsweredOK
<1>3. upload.filled * RecvTimeout <= TagLen * RecvTimeout /\ TagLen * RecvTimeout \in Nat
      /\ upload.filled * RecvTimeout \in Nat
  <2>1. upload.filled \in Nat /\ upload.filled <= TagLen
    BY <1>1 DEF Uploads
  <2> QED
    BY <2>1, FewerReads
<1>4. upload.age \in Nat /\ upload.spent \in Nat
  BY <1>1 DEF Uploads
<1>5. upload'.age < TagLen * RecvTimeout + UploadTimeout + RecvTimeout
  <2>1. CASE upload.at = "tag"
    BY <2>1, <1>2, <1>3, <1>4 DEF AgeFollows
  <2>2. CASE upload.at = "body" /\ InTime
    BY <2>2, <1>2, <1>3, <1>4 DEF AgeFollows, InTime
  <2>3. CASE upload.at \in {"body", "verify"} /\ wait = 0
    BY <2>3, <1>2, <1>3, <1>4 DEF AgeFollows
  <2> QED
    BY <2>1, <2>2, <2>3
<1> QED
  BY <1>2, <1>5 DEF SpareFollows, SelectedIsVerified, AgeFollows

LEMMA UpdateBeginInv ==
    ASSUME UploadInv, UpdateBegin,
           seen' = [seen EXCEPT !.reopened = @ \/ flash.boot = "spare"]
    PROVE  UploadInv'
<1> USE ConstantsOK DEF UploadInv, UploadOK
<1>1. upload \in Uploads /\ upload.at = "tag" /\ upload.filled = TagLen
  BY NoUploadIsQuiet DEF UpdateBegin
<1>2. flash' \in {flash, Erased}
  BY DEF UpdateBegin
<1>3. /\ flash' \in Flashes
      /\ flash'.boot = flash.boot /\ flash'.running = flash.running
  BY <1>2 DEF Flashes, Erased
<1>4. /\ seen' \in [verified : Firmwares, reopened : BOOLEAN]
      /\ seen'.verified = seen.verified
      /\ ~seen'.reopened => ~seen.reopened /\ flash.boot = "running"
  <2>1. flash.boot \in {"running", "spare"}
    BY DEF Flashes
  <2> QED
    BY <2>1
<1>5. SelectedIsVerified'
  BY <1>3, <1>4 DEF SelectedIsVerified
<1>6. TagLen * RecvTimeout \in Nat /\ upload.age \in Nat /\ upload.spent \in Nat
      /\ upload.age <= TagLen * RecvTimeout /\ upload.total = 0 /\ upload.spent = 0
  BY <1>1, FewerReads DEF AgeFollows, Uploads
<1>7. CASE upload' = [upload EXCEPT !.at = "body"] /\ flash' = Erased
  <2>1. upload' \in Uploads /\ upload'.at = "body" /\ upload'.total = 0 /\ upload'.spent = 0
        /\ upload'.age = upload.age
    BY <1>1, <1>6, <1>7 DEF Uploads
  <2>2. flash'.spare = "torn"
    BY <1>7 DEF Erased, Flashes
  <2>3. SpareFollows'
    BY <2>1, <2>2 DEF SpareFollows
  <2>4. AgeFollows'
    BY <1>6, <2>1 DEF AgeFollows
  <2> QED
    BY <1>3, <1>4, <1>5, <2>1, <2>3, <2>4
<1>8. CASE upload' = Answered(403, 0)
  <2>1. upload' \in Uploads /\ upload'.at = "answer" /\ upload'.age = upload.age
    <3>1. upload.age + 0 = upload.age
      BY <1>6
    <3> QED
      BY <1>1, <1>8, <3>1, AnsweredOK
  <2>2. SpareFollows' /\ AgeFollows'
    BY <1>6, <2>1 DEF SpareFollows, AgeFollows
  <2> QED
    BY <1>3, <1>4, <1>5, <2>1, <2>2
<1> QED
  BY <1>7, <1>8 DEF UpdateBegin

LEMMA TagEndsInv == ASSUME UploadInv, TagEnds, UNCHANGED seen PROVE UploadInv'
<1>1. PICK wait \in Waits : upload' = Answered(403, wait)
  BY DEF TagEnds
<1>2. wait \in Nat /\ wait <= RecvTimeout
  BY ConstantsOK DEF Waits
<1> QED
  BY <1>1, <1>2, RefusedInv DEF TagEnds

LEMMA ReadTimesOutInv == ASSUME UploadInv, ReadTimesOut, UNCHANGED seen PROVE UploadInv'
<1>1. RecvTimeout \in Nat /\ RecvTimeout <= RecvTimeout
  BY ConstantsOK
<1> QED
  BY <1>1, RefusedInv DEF ReadTimesOut

LEMMA DeadlinePassedInv == ASSUME UploadInv, DeadlinePassed, UNCHANGED seen PROVE UploadInv'
<1>1. 0 \in Nat /\ 0 <= RecvTimeout
  BY ConstantsOK
<1> QED
  BY <1>1, RefusedInv DEF DeadlinePassed

LEMMA BodyReadInv == ASSUME UploadInv, BodyRead, UNCHANGED seen PROVE UploadInv'
<1> USE ConstantsOK DEF UploadInv, UploadOK
<1>1. PICK wait \in Waits :
        \/ /\ upload' = [upload EXCEPT !.total = @ + 1, !.age = @ + wait, !.spent = @ + wait]
           /\ flash' = Written(upload.image, upload.total + 1)
        \/ upload' = Answered(403, wait) /\ UNCHANGED flash
  BY DEF BodyRead
<1>2. wait \in Nat /\ wait <= RecvTimeout - 1 /\ wait <= RecvTimeout
  BY DEF Waits
<1>3. upload.at = "body" /\ InTime /\ upload.total < Pieces /\ upload \in Uploads
  BY NoUploadIsQuiet DEF BodyRead
<1>4. CASE upload' = Answered(403, wait) /\ UNCHANGED flash
  BY <1>2, <1>3, <1>4, RefusedInv
<1>5. CASE /\ upload' = [upload EXCEPT !.total = @ + 1, !.age = @ + wait, !.spent = @ + wait]
           /\ flash' = Written(upload.image, upload.total + 1)
  <2>1. PICK total \in 0..Pieces, age \in Nat, spent \in Nat :
          total = upload.total + 1 /\ age = upload.age + wait /\ spent = upload.spent + wait
    BY <1>2, <1>3 DEF Uploads
  <2>2. upload' = [upload EXCEPT !.total = total, !.age = age, !.spent = spent]
    BY <1>5, <2>1
  <2>3. [upload EXCEPT !.total = total, !.age = age, !.spent = spent] \in Uploads
    BY <1>3, <2>1, BodyGrows
  <2>4. /\ upload'.at = "body" /\ upload'.image = upload.image
        /\ upload'.total = total /\ upload'.age = age /\ upload'.spent = spent
    BY <1>3, <2>2 DEF Uploads
  <2>5. /\ flash'.spare = IF total = Pieces THEN upload.image ELSE "torn"
        /\ flash'.boot = flash.boot /\ flash'.running = flash.running
        /\ flash' \in Flashes
    <3>1. upload.image \in Firmwares
      BY <1>3 DEF Uploads
    <3> QED
      BY <1>5, <2>1, <3>1 DEF Written, Flashes
  <2>6. SpareFollows'
    BY <2>4, <2>5 DEF SpareFollows
  <2>7. SelectedIsVerified'
    BY <1>3, <2>4, <2>5 DEF SelectedIsVerified
  <2>8. AgeFollows'
    <3>1. TagLen * RecvTimeout \in Nat
      BY FewerReads
    <3>2. upload.age \in Nat /\ upload.spent \in Nat /\ upload.spent < UploadTimeout
      BY <1>3 DEF InTime, Uploads
    <3>3. upload.age <= TagLen * RecvTimeout + upload.spent
      BY <1>3 DEF AgeFollows
    <3>4. /\ upload'.age <= TagLen * RecvTimeout + upload'.spent
          /\ upload'.spent < UploadTimeout + RecvTimeout
      BY <1>2, <2>1, <2>4, <3>1, <3>2, <3>3
    <3> QED
      BY <2>4, <3>4 DEF AgeFollows
  <2> QED
    BY <2>2, <2>3, <2>5, <2>6, <2>7, <2>8
<1> QED
  BY <1>1, <1>4, <1>5

LEMMA BodyEndInv == ASSUME UploadInv, BodyEnd, UNCHANGED seen PROVE UploadInv'
<1> USE ConstantsOK DEF UploadInv, UploadOK
<1>1. PICK wait \in Waits :
        upload' = [upload EXCEPT !.at = "verify", !.age = @ + wait, !.spent = @ + wait]
  BY DEF BodyEnd
<1>2. wait \in Nat /\ wait <= RecvTimeout - 1
  BY DEF Waits
<1>3. upload.at = "body" /\ InTime /\ upload \in Uploads /\ UNCHANGED <<flash, seen>>
  BY NoUploadIsQuiet DEF BodyEnd
<1>4. PICK age \in Nat, spent \in Nat :
        age = upload.age + wait /\ spent = upload.spent + wait
  BY <1>2, <1>3 DEF Uploads
<1>5. upload' = [upload EXCEPT !.at = "verify", !.age = age, !.spent = spent]
  BY <1>1, <1>4
<1>6. [upload EXCEPT !.at = "verify", !.age = age, !.spent = spent] \in Uploads
  BY <1>3, <1>4, BodyCloses
<1>7. /\ upload'.at = "verify" /\ upload'.image = upload.image
      /\ upload'.total = upload.total /\ upload'.age = age /\ upload'.spent = spent
  BY <1>3, <1>5 DEF Uploads
<1>8. SpareFollows' /\ SelectedIsVerified'
  BY <1>3, <1>7 DEF SpareFollows, SelectedIsVerified
<1>9. AgeFollows'
  <2>1. TagLen * RecvTimeout \in Nat
    BY FewerReads
  <2>2. upload.age \in Nat /\ upload.spent \in Nat /\ upload.spent < UploadTimeout
    BY <1>3 DEF InTime, Uploads
  <2>3. upload.age <= TagLen * RecvTimeout + upload.spent
    BY <1>3 DEF AgeFollows
  <2>4. /\ upload'.age <= TagLen * RecvTimeout + upload'.spent
        /\ upload'.spent < UploadTimeout + RecvTimeout
    BY <1>2, <1>4, <1>7, <2>1, <2>2, <2>3
  <2> QED
    BY <1>7, <2>4 DEF AgeFollows
<1> QED
  BY <1>3, <1>5, <1>6, <1>8, <1>9

LEMMA VerifyInv ==
    ASSUME UploadInv, Verify,
           seen' = IF upload'.code = 200 THEN [verified |-> upload.claim, reopened |-> FALSE]
                   ELSE seen
    PROVE  UploadInv'
<1> USE ConstantsOK DEF UploadInv, UploadOK
<1>1. upload.at = "verify" /\ upload \in Uploads
  BY NoUploadIsQuiet DEF Verify
<1>2. CASE upload' = Answered(403, 0) /\ UNCHANGED flash
  <2>1. upload'.code = 403
    BY <1>1, <1>2, AnsweredOK
  <2>2. UNCHANGED seen
    BY <2>1
  <2> QED
    BY <1>1, <1>2, <2>2, RefusedInv
<1>3. CASE TagMatches /\ upload' = Answered(200, 0) /\ flash' = Selected
  <2>1. upload' \in Uploads /\ upload'.at = "answer" /\ upload'.code = 200
        /\ upload'.age = upload.age + 0
    BY <1>1, <1>3, AnsweredOK
  <2>2. seen' = [verified |-> upload.claim, reopened |-> FALSE] /\ upload.claim \in Firmwares
    BY <1>1, <2>1 DEF Uploads
  <2>3. flash.spare = upload.claim
    BY <1>1, <1>3 DEF SpareFollows, TagMatches
  <2>4. flash' \in Flashes /\ flash'.boot = "spare" /\ flash'.spare = upload.claim
    BY <1>3, <2>3 DEF Selected, Flashes
  <2>5. SpareFollows' /\ SelectedIsVerified'
    BY <2>1, <2>2, <2>4 DEF SpareFollows, SelectedIsVerified
  <2>6. AgeFollows'
    <3>1. TagLen * RecvTimeout \in Nat
      BY FewerReads
    <3>2. upload.age \in Nat /\ upload.spent \in Nat
      BY <1>1 DEF Uploads
    <3>3. upload'.age < TagLen * RecvTimeout + UploadTimeout + RecvTimeout
      BY <1>1, <2>1, <3>1, <3>2 DEF AgeFollows
    <3> QED
      BY <2>1, <3>3 DEF AgeFollows
  <2> QED
    BY <2>1, <2>2, <2>4, <2>5, <2>6
<1> QED
  BY <1>2, <1>3 DEF Verify

(* Nobody uploads: only what is selected matters. *)
LEMMA QuietInv ==
    ASSUME UploadOK', upload' = NoUpload, SelectedIsVerified'
    PROVE  UploadInv'
<1>1. upload'.at = "idle"
  BY DEF NoUpload
<1> QED
  BY <1>1 DEF UploadInv, SpareFollows, AgeFollows

LEMMA UploadAnswerInv == ASSUME UploadInv, UploadAnswer, UNCHANGED seen PROVE UploadInv'
<1>1. upload' = NoUpload /\ upload'.at = "idle" /\ UNCHANGED <<flash, seen>>
  BY DEF UploadAnswer, NoUpload
<1>2. UploadOK' /\ SelectedIsVerified'
  BY <1>1 DEF UploadInv, UploadOK, SelectedIsVerified
<1> QED
  BY <1>1, <1>2, QuietInv

LEMMA RebootInv == ASSUME UploadInv, Reboot PROVE UploadInv'
<1> USE ConstantsOK DEF UploadInv, UploadOK
<1>1. /\ upload' = NoUpload /\ upload'.at = "idle"
      /\ flash' = Rebooted
      /\ seen' = [verified |-> WouldBoot, reopened |-> FALSE]
  BY DEF Reboot, NoUpload
<1>2. CASE flash.boot = "spare" /\ flash.spare \in Firmwares
  <2>1. /\ flash' = [running |-> flash.spare, spare |-> flash.running, boot |-> "running"]
        /\ seen' = [verified |-> flash.spare, reopened |-> FALSE]
    BY <1>1, <1>2 DEF Rebooted, WouldBoot
  <2>2. flash' \in Flashes
    BY <1>2, <2>1 DEF Flashes
  <2>3. SelectedIsVerified'
    BY <2>1 DEF SelectedIsVerified
  <2> QED
    BY <1>1, <1>2, <2>1, <2>2, <2>3, QuietInv
<1>3. CASE ~(flash.boot = "spare" /\ flash.spare \in Firmwares)
  <2>1. flash' = flash /\ seen' = [verified |-> flash.running, reopened |-> FALSE]
    BY <1>1, <1>3 DEF Rebooted, WouldBoot
  <2>2. flash.running \in Firmwares /\ (flash.boot = "spare" => flash.spare = "torn")
    BY <1>3 DEF Flashes
  <2>3. SelectedIsVerified'
    BY <1>1, <2>1, <2>2 DEF SelectedIsVerified
  <2> QED
    BY <1>1, <2>1, <2>2, <2>3, QuietInv
<1> QED
  BY <1>2, <1>3

LEMMA StillInv == ASSUME UploadInv, UNCHANGED <<flash, upload, seen>> PROVE UploadInv'
  BY DEF UploadInv, UploadOK, SpareFollows, SelectedIsVerified, AgeFollows

LEMMA NextUpload == ASSUME UploadInv, [HttpNext]_hvars PROVE UploadInv'
<1>1. CASE Uploading
  <2>1. CASE TakeUpload
    BY <2>1, TakeUploadInv
  <2>2. CASE UploadGoesOn
    BY <2>2, TagReadInv, TagEndsInv, ReadTimesOutInv, BodyReadInv, BodyEndInv,
       DeadlinePassedInv, UploadAnswerInv, UpdateBeginInv, VerifyInv DEF UploadGoesOn
  <2> QED
    BY <1>1, <2>1, <2>2 DEF Uploading
<1>2. CASE Submitting
  BY <1>2, StillInv DEF Submitting
<1>3. CASE StopServer \/ ServerStopped \/ DnsJoined
  BY <1>3, StillInv DEF StopServer, ServerStopped, DnsJoined
<1>4. CASE DnsRuns
  BY <1>4, StillInv DEF DnsRuns
<1>5. CASE Reboot
  BY <1>5, RebootInv
<1>6. CASE UNCHANGED hvars
  BY <1>6, StillInv DEF hvars
<1> QED
  BY <1>1, <1>2, <1>3, <1>4, <1>5, <1>6 DEF HttpNext

-----------------------------------------------------------------------------
(* UploadInv holds of every reachable state: whatever peers, power and the    *)
(* main loop do, the spare slot, the selection and the clock of the upload    *)
(* agree with the stage it is in.                                             *)
THEOREM UploadInductive == HttpSpec => []UploadInv
<1>1. HttpInit => UploadInv
  BY InitUpload
<1>2. UploadInv /\ [HttpNext]_hvars => UploadInv'
  BY NextUpload
<1> QED
  BY <1>1, <1>2, PTL DEF HttpSpec

(* What boots is what was verified last, for every image and every way an     *)
(* upload can end (handle_upload).                                            *)
THEOREM BootsWhatWasVerified == HttpSpec => []BootsLastVerified
<1>1. UploadInv => BootsLastVerified
  BY ConstantsOK
  DEF UploadInv, UploadOK, SelectedIsVerified, BootsLastVerified, WouldBoot, Flashes
<1> QED
  BY <1>1, UploadInductive, PTL

(* For every length of the tag and all timeouts, an upload holds the server's *)
(* task for less than the tag's reads, the deadline and one read more.        *)
THEOREM UploadsAreBounded == HttpSpec => []UploadIsBounded
<1>1. UploadInv => UploadIsBounded
  <2> SUFFICES ASSUME UploadInv, upload # NoUpload
               PROVE  upload.age < TagLen * RecvTimeout + UploadTimeout + RecvTimeout
    BY DEF UploadIsBounded
  <2> USE ConstantsOK DEF UploadInv, UploadOK
  <2>1. upload \in Uploads
    OBVIOUS
  <2>2. /\ upload.age \in Nat /\ upload.spent \in Nat
        /\ upload.filled \in Nat /\ upload.filled <= TagLen
    BY <2>1 DEF Uploads
  <2>3. /\ TagLen * RecvTimeout \in Nat /\ upload.filled * RecvTimeout \in Nat
        /\ upload.filled * RecvTimeout <= TagLen * RecvTimeout
    BY <2>2, FewerReads
  <2>4. CASE upload.at = "tag"
    BY <2>2, <2>3, <2>4 DEF AgeFollows
  <2>5. CASE upload.at \in {"body", "verify"}
    BY <2>2, <2>3, <2>5 DEF AgeFollows
  <2>6. CASE upload.at = "answer"
    BY <2>6 DEF AgeFollows
  <2> QED
    BY <2>1, <2>4, <2>5, <2>6 DEF Uploads
<1> QED
  BY <1>1, UploadInductive, PTL

-----------------------------------------------------------------------------
(* One DNS thread at most is alive, and none beside the dashboard. *)
DnsInv ==
    /\ dns \in [Threads -> {"gone", "starting", "checks", "receives"}]
    /\ \A t, u \in Threads : Alive(t) /\ Alive(u) => t = u
    /\ server = "Dashboard" => \A t \in Threads : ~Alive(t)

LEMMA DnsRunsInv == ASSUME DnsInv, DnsRuns PROVE DnsInv'
<1>1. PICK t \in Threads, to \in {"gone", "checks", "receives"} :
        Alive(t) /\ dns' = [dns EXCEPT ![t] = to] /\ UNCHANGED server
  <2>1. CASE DnsBinds \/ DnsReceived
    BY <2>1 DEF DnsRuns, DnsBinds, DnsReceived, DnsStep, Alive
  <2>2. CASE DnsChecks
    BY <2>2 DEF DnsRuns, DnsChecks, Alive
  <2> QED
    BY <2>1, <2>2 DEF DnsRuns
<1>2. \A u \in Threads : Alive(u)' => Alive(u)
  BY <1>1 DEF DnsInv, Alive
<1> QED
  BY <1>1, <1>2 DEF DnsInv

LEMMA ServerStoppedInv == ASSUME DnsInv, ServerStopped PROVE DnsInv'
<1>1. CASE server = "Dashboard"
  <2>1. PICK t \in Threads : dns' = [dns EXCEPT ![t] = "starting"] /\ server' = "Portal"
    BY <1>1 DEF ServerStopped
  <2>2. \A u \in Threads : Alive(u)' => u = t
    BY <1>1, <2>1 DEF DnsInv, Alive
  <2> QED
    BY <2>1, <2>2 DEF DnsInv
<1>2. CASE server # "Dashboard"
  BY <1>2 DEF ServerStopped, DnsInv, Alive
<1> QED
  BY <1>1, <1>2

LEMMA DnsRebootInv == ASSUME DnsInv, Reboot PROVE DnsInv'
<1>1. PICK name \in {"Dashboard", "Portal"}, t \in Threads :
        /\ server' = name
        /\ dns' = IF name = "Portal" THEN [NoThreads EXCEPT ![t] = "starting"] ELSE NoThreads
  BY DEF Reboot, UpWith
<1>2. \A u \in Threads : Alive(u)' => u = t /\ name = "Portal"
  BY <1>1 DEF NoThreads, Alive
<1>3. dns' \in [Threads -> {"gone", "starting", "checks", "receives"}]
  BY <1>1 DEF NoThreads
<1> QED
  BY <1>1, <1>2, <1>3 DEF DnsInv

LEMMA NextDns == ASSUME DnsInv, [HttpNext]_hvars PROVE DnsInv'
<1>1. CASE Uploading \/ Submitting \/ StopServer \/ UNCHANGED hvars
  BY <1>1 DEF DnsInv, Alive, Uploading, Submitting, StopServer, hvars
<1>2. CASE DnsJoined
  BY <1>2 DEF DnsJoined, DnsInv, Alive
<1> QED
  BY <1>1, <1>2, DnsRunsInv, ServerStoppedInv, DnsRebootInv DEF HttpNext

(* A DNS thread that binds finds the port free, whatever the main loop does:  *)
(* the join in `Drop for DnsHandle` leaves no thread beside a dashboard.      *)
THEOREM PortIsFree == HttpSpec => []BindFindsPortFree
<1>1. HttpInit => DnsInv
  BY DEF HttpInit, DnsInv, NoThreads, Alive
<1>2. DnsInv /\ [HttpNext]_hvars => DnsInv'
  BY NextDns
<1>3. DnsInv => BindFindsPortFree
  BY DEF DnsInv, Alive, BindFindsPortFree
<1> QED
  BY <1>1, <1>2, <1>3, PTL DEF HttpSpec
-----------------------------------------------------------------------------
(***************************************************************************)
(* The form.  A text comes through the page's encoding, the split of the   *)
(* body and the decoder as it was typed, cut only where a buffer ends.     *)
(***************************************************************************)
Bytes == 0 .. 255

(* The bytes an encoded text is made of: none separates fields. *)
Safe == 48 .. 57 \cup 65 .. 70 \cup 97 .. 122 \cup {37}

(* The encodings of the first bytes of a text, joined. *)
IsJoin(J, text, m) ==
    /\ J \in [0 .. m -> Seq(Safe)]
    /\ J[0] = << >>
    /\ \A k \in 1 .. m : J[k] = J[k - 1] \o Escaped(text[k])

LEMMA DivBy16 ==
    ASSUME NEW b \in Bytes
    PROVE  /\ b \div 16 \in 0 .. 15 /\ b % 16 \in 0 .. 15
           /\ (b \div 16) * 16 + (b % 16) = b
<1>1. b \in Nat /\ b \div 16 \in 0 .. 15 /\ b % 16 \in 0 .. 15
    BY DEF Bytes
<1>2. b = 16 * (b \div 16) + (b % 16)
    BY <1>1
<1> QED
    BY <1>1, <1>2

LEMMA HexDigits ==
    ASSUME NEW n \in 0 .. 15
    PROVE  HexDigit(n) \in 48 .. 57 \cup 65 .. 70 /\ DigitOf(HexDigit(n)) = n
<1>1. CASE n < 10
    BY <1>1 DEF HexDigit, DigitOf
<1>2. CASE n >= 10
    BY <1>2 DEF HexDigit, DigitOf
<1> QED
    BY <1>1, <1>2

(* A byte is itself or a percent sign and the two digits that give it back. *)
LEMMA EscapedShape ==
    ASSUME NEW b \in Bytes
    PROVE  /\ Escaped(b) \in Seq(Safe)
           /\ \/ b \in 97 .. 122 /\ Escaped(b) = <<b>>
              \/ \E h \in Safe, l \in Safe :
                    /\ Escaped(b) = <<37, h, l>>
                    /\ DigitOf(h) < 16 /\ DigitOf(l) < 16
                    /\ DigitOf(h) * 16 + DigitOf(l) = b
<1>1. CASE b \in Unreserved
    <2>1. b \in Safe /\ b \in 97 .. 122
        BY <1>1 DEF Unreserved, Safe
    <2>2. Escaped(b) = <<b>>
        BY <1>1 DEF Escaped
    <2> QED
        BY <2>1, <2>2
<1>2. CASE b \notin Unreserved
    <2> DEFINE x == b \div 16
               y == b % 16
               h == HexDigit(x)
               l == HexDigit(y)
    <2>1. x \in 0 .. 15 /\ y \in 0 .. 15 /\ x * 16 + y = b
        BY DivBy16
    <2>2. Escaped(b) = <<37, h, l>>
        BY <1>2 DEF Escaped, Percent
    <2> HIDE DEF x, y
    <2>3. h \in Safe /\ l \in Safe /\ DigitOf(h) = x /\ DigitOf(l) = y
        BY <2>1, HexDigits DEF Safe
    <2> HIDE DEF h, l
    <2>4. 37 \in Safe
        BY DEF Safe
    <2>5. <<37, h, l>> \in Seq(Safe)
        BY <2>3, <2>4
    <2>6. DigitOf(h) < 16 /\ DigitOf(l) < 16 /\ DigitOf(h) * 16 + DigitOf(l) = b
        BY <2>1, <2>3
    <2> QED
        BY <2>2, <2>3, <2>5, <2>6
<1> QED
    BY <1>1, <1>2

LEMMA JoinExists ==
    ASSUME NEW text \in Seq(Bytes), NEW n, n = Len(text)
    PROVE  \E J : IsJoin(J, text, n)
<1> DEFINE S == {m \in Nat : m <= n => \E J : IsJoin(J, text, m)}
<1>1. 0 \in S
    <2> DEFINE J == [k \in 0 .. 0 |-> << >>]
    <2>1. IsJoin(J, text, 0)
        BY EmptySeq DEF IsJoin
    <2> QED
        BY <2>1
<1>2. ASSUME NEW m \in Nat, m \in S PROVE m + 1 \in S
    <2> SUFFICES ASSUME m + 1 <= n PROVE \E J : IsJoin(J, text, m + 1)
        OBVIOUS
    <2>1. n \in Nat /\ m <= n
        BY LenProperties
    <2>2. PICK J : IsJoin(J, text, m)
        BY <1>2, <2>1
    <2>3. text[m + 1] \in Bytes
        BY <2>1
    <2>4. Escaped(text[m + 1]) \in Seq(Safe)
        BY <2>3, EscapedShape
    <2> DEFINE K == [k \in 0 .. m + 1 |-> IF k = m + 1 THEN J[m] \o Escaped(text[m + 1])
                                          ELSE J[k]]
    <2>5. J[m] \in Seq(Safe)
        BY <2>2 DEF IsJoin
    <2>6. J[m] \o Escaped(text[m + 1]) \in Seq(Safe)
        BY <2>4, <2>5, ConcatProperties
    <2>7. K \in [0 .. m + 1 -> Seq(Safe)]
        BY <2>2, <2>6 DEF IsJoin
    <2>8. K[0] = << >>
        BY <2>2 DEF IsJoin
    <2>9. ASSUME NEW k \in 1 .. m + 1 PROVE K[k] = K[k - 1] \o Escaped(text[k])
        <3>1. k - 1 \in 0 .. m /\ K[k - 1] = J[k - 1]
            OBVIOUS
        <3>2. CASE k = m + 1
            BY <3>1, <3>2
        <3>3. CASE k \in 1 .. m
            <4>1. J[k] = J[k - 1] \o Escaped(text[k])
                BY <2>2, <3>3 DEF IsJoin
            <4>2. k \in 0 .. m + 1 /\ k # m + 1
                BY <3>3
            <4>3. K[k] = J[k]
                BY <4>2
            <4> HIDE DEF K
            <4> QED
                BY <3>1, <4>1, <4>3
        <3>4. k = m + 1 \/ k \in 1 .. m
            OBVIOUS
        <3> HIDE DEF K
        <3> QED
            BY <3>2, <3>3, <3>4
    <2> HIDE DEF K
    <2>10. IsJoin(K, text, m + 1)
        BY <2>7, <2>8, <2>9 DEF IsJoin
    <2> QED
        BY <2>10
<1> HIDE DEF S
<1>3. Nat \subseteq S
    BY <1>1, <1>2, SetInduction
<1>4. n \in Nat /\ n <= n
    BY LenProperties
<1> QED
    BY <1>3, <1>4 DEF S

(* The library flattens from the left; so do we. *)
LEMMA EncodedIsJoin ==
    ASSUME NEW text \in Seq(Bytes), NEW n, n = Len(text), NEW J, IsJoin(J, text, n)
    PROVE  Encoded(text) = J[n]
<1> DEFINE parts == [i \in DOMAIN text |-> Escaped(text[i])]
           P(f) == f = [i \in 1 .. Len(parts) |->
                           IF i = 1 THEN parts[i] ELSE f[i - 1] \o parts[i]]
<1>0. n \in Nat /\ DOMAIN text = 1 .. n /\ \A i \in 1 .. n : text[i] \in Bytes
    BY LenProperties
<1>1. parts \in Seq(Seq(Safe)) /\ Len(parts) = n
    <2>1. \A i \in 1 .. n : Escaped(text[i]) \in Seq(Safe)
        BY <1>0, EscapedShape
    <2> QED
        BY <1>0, <2>1
<1>2. \A i \in 1 .. n : parts[i] = Escaped(text[i])
    BY <1>0
<1> HIDE DEF parts
<1>3. CASE n = 0
    <2>1. parts = << >>
        BY <1>1, <1>3, EmptySeq
    <2>2. FlattenSeq(parts) = << >>
        BY <1>1, <1>3, <2>1 DEF FlattenSeq
    <2> QED
        BY <1>3, <2>2 DEF Encoded, IsJoin, parts
<1>4. CASE n # 0
    <2> DEFINE K == [i \in 1 .. n |-> J[i]]
    <2>6. \A i \in 1 .. n : J[i] = J[i - 1] \o parts[i] /\ parts[i] \in Seq(Safe)
        <3>1. \A i \in 1 .. n : parts[i] \in Seq(Safe)
            BY <1>0, <1>2, EscapedShape
        <3>2. \A i \in 1 .. n : J[i] = J[i - 1] \o parts[i]
            BY <1>2 DEF IsJoin
        <3> QED
            BY <3>1, <3>2
    <2>1. P(K)
        <3>1. ASSUME NEW i \in 1 .. n
              PROVE  J[i] = IF i = 1 THEN parts[i] ELSE K[i - 1] \o parts[i]
            <4>1. J[i] = J[i - 1] \o parts[i] /\ parts[i] \in Seq(Safe) /\ J[0] = << >>
                BY <2>6 DEF IsJoin
            <4>2. CASE i = 1
                <5>1. << >> \o parts[i] = parts[i]
                    BY <4>1, ConcatEmptySeq
                <5>2. i - 1 = 0
                    BY <4>2
                <5> QED
                    BY <4>1, <4>2, <5>1, <5>2
            <4>3. CASE i # 1
                <5>1. i - 1 \in 1 .. n
                    BY <1>0, <4>3
                <5>2. K[i - 1] = J[i - 1]
                    BY <5>1
                <5> HIDE DEF K
                <5> QED
                    BY <4>1, <4>3, <5>2
            <4> QED
                BY <4>2, <4>3
        <3> QED
            BY <1>1, <3>1
    <2>2. FlattenSeq(parts) = (CHOOSE f : P(f))[n]
        BY <1>1, <1>4 DEF FlattenSeq
    <2>3. Encoded(text) = (CHOOSE f : P(f))[n]
        BY <2>2 DEF Encoded, parts
    <2> DEFINE F == CHOOSE f : P(f)
    <2> HIDE DEF P, K
    <2>4. P(F)
        BY <2>1
    <2> HIDE DEF F
    <2>5. \A i \in 1 .. n : F[i] = IF i = 1 THEN parts[i] ELSE F[i - 1] \o parts[i]
        BY <1>1, <2>4 DEF P
    <2> DEFINE S == {m \in Nat : m + 1 <= n => F[m + 1] = J[m + 1]}
    <2>7. 0 \in S
        <3>1. 1 \in 1 .. n
            BY <1>0, <1>4
        <3>4. F[1] = parts[1]
            BY <2>5, <3>1
        <3>5. J[1] = J[1 - 1] \o parts[1]
            BY <2>6, <3>1
        <3>6. 1 - 1 = 0 /\ J[0] = << >>
            BY DEF IsJoin
        <3>2. F[1] = parts[1] /\ J[1] = J[0] \o parts[1] /\ J[0] = << >>
            BY <3>4, <3>5, <3>6
        <3>3. << >> \o parts[1] = parts[1]
            BY <2>6, <3>1, ConcatEmptySeq
        <3>7. F[0 + 1] = J[0 + 1]
            BY <3>2, <3>3
        <3> QED
            BY <3>7
    <2>8. ASSUME NEW m \in Nat, m \in S PROVE m + 1 \in S
        <3> SUFFICES ASSUME (m + 1) + 1 <= n PROVE F[(m + 1) + 1] = J[(m + 1) + 1]
            OBVIOUS
        <3> DEFINE i == (m + 1) + 1
        <3>1. i \in 1 .. n /\ i # 1 /\ i - 1 = m + 1 /\ m + 1 <= n
            BY <1>0
        <3>2. F[m + 1] = J[m + 1]
            BY <2>8, <3>1
        <3> HIDE DEF i
        <3>3. F[i] = F[i - 1] \o parts[i] /\ J[i] = J[i - 1] \o parts[i]
            BY <2>5, <2>6, <3>1
        <3>4. F[i] = J[i]
            BY <3>1, <3>2, <3>3
        <3> QED
            BY <3>4 DEF i
    <2> HIDE DEF S
    <2>9. Nat \subseteq S
        BY <2>7, <2>8, SetInduction
    <2>10. n - 1 \in S /\ (n - 1) + 1 = n
        BY <1>0, <1>4, <2>9
    <2>11. F[n] = J[n]
        BY <2>10 DEF S
    <2> QED
        BY <2>3, <2>11 DEF F
<1> QED
    BY <1>3, <1>4

-----------------------------------------------------------------------------

(* One place of the decoder, given what it makes of the places after it. *)
DecodedAt(text, f, i) ==
    IF i > Len(text) THEN <<>>
    ELSE IF text[i] = Plus THEN <<Space>> \o f[i + 1]
    ELSE IF IsEscape(text, i)
         THEN <<DigitOf(text[i + 1]) * 16 + DigitOf(text[i + 2])>> \o f[i + 3]
    ELSE <<text[i]>> \o f[i + 1]

(* The decoder looks ahead only, so it is defined at every place. *)
LEMMA DecoderExists ==
    ASSUME NEW text, NEW n \in Nat, n = Len(text)
    PROVE  \E f : f = [i \in 1 .. n + 1 |-> DecodedAt(text, f, i)]
<1> DEFINE P(f, m) == f = [i \in n + 1 - m .. n + 1 |-> DecodedAt(text, f, i)]
           S == {m \in Nat : m <= n => \E f : P(f, m)}
<1>1. 0 \in S
    <2> DEFINE f == [i \in n + 1 - 0 .. n + 1 |-> << >>]
    <2>1. \A i \in n + 1 - 0 .. n + 1 : i > Len(text)
        OBVIOUS
    <2>2. \A i \in n + 1 - 0 .. n + 1 : DecodedAt(text, f, i) = << >>
        BY <2>1 DEF DecodedAt
    <2>3. P(f, 0)
        BY <2>2
    <2> QED
        BY <2>3
<1>2. ASSUME NEW m \in Nat, m \in S PROVE m + 1 \in S
    <2> SUFFICES ASSUME m + 1 <= n PROVE \E f : P(f, m + 1)
        OBVIOUS
    <2>1. PICK f : P(f, m)
        BY <1>2
    <2> DEFINE a == n + 1 - m
               g == [i \in n + 1 - (m + 1) .. n + 1 |->
                        IF i = a - 1 THEN DecodedAt(text, f, a - 1) ELSE f[i]]
    <2>2. /\ a \in 2 .. n + 1 /\ n + 1 - (m + 1) = a - 1
          /\ n + 1 - (m + 1) .. n + 1 = {a - 1} \cup (a .. n + 1)
        OBVIOUS
    <2>3. \A i \in a .. n + 1 : g[i] = f[i] /\ f[i] = DecodedAt(text, f, i)
        BY <2>1, <2>2
    <2>4. g[a - 1] = DecodedAt(text, f, a - 1)
        BY <2>2
    <2> HIDE DEF g
    <2>5. ASSUME NEW i \in {a - 1} \cup (a .. n + 1)
          PROVE  DecodedAt(text, g, i) = DecodedAt(text, f, i)
        <3>1. i \in Int /\ (i <= n => i + 1 \in a .. n + 1)
            BY <2>2
        <3>2. IsEscape(text, i) => i + 3 \in a .. n + 1
            BY <2>2 DEF IsEscape
        <3>3. ~(i > Len(text)) => g[i + 1] = f[i + 1]
            BY <2>3, <3>1
        <3>4. IsEscape(text, i) => g[i + 3] = f[i + 3]
            BY <2>3, <3>2
        <3> QED
            BY <3>3, <3>4, Zenon DEF DecodedAt
    <2>6. \A i \in {a - 1} \cup (a .. n + 1) : g[i] = DecodedAt(text, g, i)
        BY <2>2, <2>3, <2>4, <2>5
    <2>7. P(g, m + 1)
        BY <2>2, <2>6 DEF g
    <2> QED
        BY <2>7
<1> HIDE DEF S
<1>3. n \in S
    BY <1>1, <1>2, SetInduction
<1>4. n + 1 - n = 1 /\ n <= n
    OBVIOUS
<1> QED
    BY <1>3, <1>4 DEF S

LEMMA DecoderUnfolds ==
    ASSUME NEW text, NEW n \in Nat, n = Len(text)
    PROVE  \E R : /\ \A i \in 1 .. n + 1 : R[i] = DecodedAt(text, R, i)
                  /\ \A room : UrlDecode(text, room)
                        = SubSeq(R[1], 1, IF Len(R[1]) < room THEN Len(R[1]) ELSE room)
<1> DEFINE P(f) == f = [i \in 1 .. Len(text) + 1 |-> DecodedAt(text, f, i)]
           R == CHOOSE f : P(f)
<1>1. \E f : P(f)
    BY DecoderExists
<1>2. \A room : UrlDecode(text, room)
                   = SubSeq(R[1], 1, IF Len(R[1]) < room THEN Len(R[1]) ELSE room)
    BY DEF UrlDecode, DecodedAt
<1> HIDE DEF P
<1>3. P(R)
    BY <1>1
<1> HIDE DEF R
<1>4. \A i \in 1 .. n + 1 : R[i] = DecodedAt(text, R, i)
    BY <1>3 DEF P
<1> QED
    BY <1>2, <1>4

(* An encoded character at a place of the body, and what comes after it. *)
LEMMA DecodesCharacter ==
    ASSUME NEW raw \in Seq(Safe), NEW R, NEW b \in Bytes, NEW a \in Nat,
           \A i \in 1 .. Len(raw) + 1 : R[i] = DecodedAt(raw, R, i),
           a + Len(Escaped(b)) <= Len(raw),
           \A j \in 1 .. Len(Escaped(b)) : raw[a + j] = Escaped(b)[j]
    PROVE  R[a + 1] = <<b>> \o R[a + Len(Escaped(b)) + 1]
<1> DEFINE e == Escaped(b)
<1>1. Len(raw) \in Nat
    BY LenProperties
<1>2. CASE b \in 97 .. 122 /\ e = <<b>>
    <2>1. Len(e) = 1 /\ e[1] = b /\ 1 \in 1 .. Len(e)
        BY <1>2
    <2> HIDE DEF e
    <2>2. raw[a + 1] = b /\ a + 1 <= Len(raw)
        BY <2>1 DEF e
    <2>3. a + 1 \in 1 .. Len(raw) + 1 /\ ~(a + 1 > Len(raw)) /\ (a + 1) + 1 = a + 1 + 1
        BY <1>1, <2>2
    <2>4. raw[a + 1] # Plus /\ ~IsEscape(raw, a + 1)
        BY <1>2, <2>2 DEF Plus, Percent, IsEscape
    <2>5. R[a + 1] = DecodedAt(raw, R, a + 1)
        BY <2>3
    <2>6. R[a + 1] = <<b>> \o R[a + 1 + 1]
        BY <2>2, <2>3, <2>4, <2>5 DEF DecodedAt
    <2> QED
        BY <2>1, <2>6 DEF e
<1>3. ASSUME NEW h \in Safe, NEW l \in Safe, e = <<37, h, l>>,
             DigitOf(h) < 16, DigitOf(l) < 16, DigitOf(h) * 16 + DigitOf(l) = b
      PROVE  R[a + 1] = <<b>> \o R[a + Len(e) + 1]
    <2>1. /\ Len(e) = 3 /\ e[1] = 37 /\ e[2] = h /\ e[3] = l
          /\ 1 \in 1 .. Len(e) /\ 2 \in 1 .. Len(e) /\ 3 \in 1 .. Len(e)
        BY <1>3
    <2> HIDE DEF e
    <2>2. raw[a + 1] = 37 /\ raw[a + 2] = h /\ raw[a + 3] = l /\ a + 3 <= Len(raw)
        BY <2>1 DEF e
    <2>3. /\ a + 1 \in 1 .. Len(raw) + 1 /\ ~(a + 1 > Len(raw))
          /\ (a + 1) + 1 = a + 2 /\ (a + 1) + 2 = a + 3 /\ (a + 1) + 3 = a + 3 + 1
        BY <1>1, <2>2
    <2>4. raw[a + 1] # Plus /\ IsEscape(raw, a + 1)
        BY <1>3, <2>2, <2>3 DEF Plus, Percent, IsEscape
    <2>5. R[a + 1] = DecodedAt(raw, R, a + 1)
        BY <2>3
    <2>6. R[a + 1] = <<DigitOf(raw[(a + 1) + 1]) * 16 + DigitOf(raw[(a + 1) + 2])>>
                        \o R[(a + 1) + 3]
        BY <2>3, <2>4, <2>5 DEF DecodedAt
    <2>7. DigitOf(raw[(a + 1) + 1]) * 16 + DigitOf(raw[(a + 1) + 2]) = b
        BY <1>3, <2>2, <2>3
    <2> QED
        BY <2>1, <2>3, <2>6, <2>7
<1> QED
    BY <1>2, <1>3, EscapedShape

(* What the decoder makes of an encoded text is the text, as far as it fits.  *)
LEMMA DecodesEncoded ==
    ASSUME NEW text \in Seq(Bytes), NEW room \in Nat
    PROVE  /\ Encoded(text) \in Seq(Safe)
           /\ UrlDecode(Encoded(text), room)
                 = SubSeq(text, 1, IF Len(text) < room THEN Len(text) ELSE room)
<1> DEFINE n == Len(text)
<1>1. n \in Nat /\ \A k \in 1 .. n : text[k] \in Bytes
    BY LenProperties
<1>2. PICK J : IsJoin(J, text, n)
    BY JoinExists
<1> DEFINE raw == J[n]
<1>3. Encoded(text) = raw
    BY <1>2, EncodedIsJoin
<1>4. \A k \in 0 .. n : J[k] \in Seq(Safe)
    BY <1>2 DEF IsJoin
<1>5. raw \in Seq(Safe) /\ Len(raw) \in Nat
    BY <1>1, <1>4, LenProperties
<1>6. PICK R : /\ \A i \in 1 .. Len(raw) + 1 : R[i] = DecodedAt(raw, R, i)
               /\ \A r : UrlDecode(raw, r)
                     = SubSeq(R[1], 1, IF Len(R[1]) < r THEN Len(R[1]) ELSE r)
    BY <1>5, DecoderUnfolds
<1> DEFINE Prefix(k) == /\ Len(J[k]) <= Len(raw)
                        /\ \A i \in 1 .. Len(J[k]) : raw[i] = J[k][i]
           Q(k) == Prefix(k) /\ R[Len(J[k]) + 1] = SubSeq(text, k + 1, n)
           S == {m \in Nat : m <= n => Q(n - m)}
<1>7. 0 \in S
    <2>1. n - 0 = n
        BY <1>1
    <2>2. Prefix(n)
        BY <1>5
    <2>3. Len(raw) + 1 \in 1 .. Len(raw) + 1 /\ Len(raw) + 1 > Len(raw)
        BY <1>5
    <2>4. R[Len(raw) + 1] = << >>
        BY <1>6, <2>3 DEF DecodedAt
    <2>5. SubSeq(text, n + 1, n) = << >>
        BY <1>1, SubSeqEmpty
    <2>6. Q(n)
        BY <2>2, <2>4, <2>5
    <2> HIDE DEF Q
    <2> QED
        BY <2>1, <2>6
<1>8. ASSUME NEW m \in Nat, m \in S PROVE m + 1 \in S
    <2> SUFFICES ASSUME m + 1 <= n PROVE Q(n - (m + 1))
        OBVIOUS
    <2>1. PICK k \in 1 .. n : k = n - m /\ k - 1 = n - (m + 1) /\ k - 1 \in 0 .. n /\ k \in 0 .. n
        <3>1. /\ n - m \in 1 .. n /\ (n - m) - 1 = n - (m + 1)
              /\ (n - m) - 1 \in 0 .. n /\ n - m \in 0 .. n
            BY <1>1
        <3> HIDE DEF n
        <3> QED
            BY <3>1
    <2>2. Q(k)
        BY <1>1, <1>8, <2>1
    <2> DEFINE e == Escaped(text[k])
               p == J[k - 1]
               q == J[k]
               a == Len(p)
    <2>3. /\ p \in Seq(Safe) /\ q \in Seq(Safe) /\ q = p \o e /\ text[k] \in Bytes
          /\ e \in Seq(Safe)
        BY <1>1, <1>2, <1>4, <2>1, EscapedShape DEF IsJoin
    <2>4. Len(q) <= Len(raw) /\ (\A i \in 1 .. Len(q) : raw[i] = q[i])
          /\ R[Len(q) + 1] = SubSeq(text, k + 1, n)
        BY <2>2
    <2> HIDE DEF e, p, q, raw
    <2>5. /\ a \in Nat /\ Len(e) \in Nat /\ Len(q) = a + Len(e)
          /\ \A i \in 1 .. a : q[i] = p[i]
          /\ \A j \in 1 .. Len(e) : q[a + j] = e[j] /\ a + j \in 1 .. Len(q)
        <3>1. a \in Nat /\ Len(e) \in Nat
            BY <2>3, LenProperties
        <3>2. /\ Len(p \o e) = Len(p) + Len(e)
              /\ \A i \in 1 .. Len(p) + Len(e) :
                    (p \o e)[i] = IF i <= Len(p) THEN p[i] ELSE e[i - Len(p)]
            BY <2>3, ConcatProperties
        <3>3. ASSUME NEW i \in 1 .. a PROVE q[i] = p[i]
            BY <2>3, <3>1, <3>2
        <3>4. ASSUME NEW j \in 1 .. Len(e) PROVE q[a + j] = e[j] /\ a + j \in 1 .. a + Len(e)
            <4>1. a + j \in 1 .. a + Len(e) /\ ~(a + j <= a) /\ (a + j) - a = j
                BY <3>1
            <4> QED
                BY <2>3, <3>2, <4>1
        <3> QED
            BY <2>3, <3>1, <3>2, <3>3, <3>4
    <2>6. Len(p) <= Len(raw) /\ \A i \in 1 .. Len(p) : raw[i] = p[i]
        <3>1. \A i \in 1 .. a : i \in 1 .. Len(q)
            BY <2>5
        <3>2. a <= Len(raw)
            BY <1>5, <2>4, <2>5
        <3>3. \A i \in 1 .. a : raw[i] = p[i]
            BY <2>4, <2>5, <3>1
        <3> QED
            BY <3>2, <3>3
    <2>7. \A j \in 1 .. Len(e) : raw[a + j] = e[j]
        BY <2>4, <2>5
    <2>8. R[a + 1] = <<text[k]>> \o R[a + Len(e) + 1]
        <3>1. a + Len(e) <= Len(raw)
            BY <2>4, <2>5
        <3>2. PICK b \in Bytes : b = text[k]
            BY <2>3
        <3>3. e = Escaped(b)
            BY <3>2 DEF e
        <3>4. a \in Nat
            BY <2>5
        <3> HIDE DEF a
        <3>5. R[a + 1] = <<b>> \o R[a + Len(Escaped(b)) + 1]
            <4>1. /\ a + Len(Escaped(b)) <= Len(raw)
                  /\ \A j \in 1 .. Len(Escaped(b)) : raw[a + j] = Escaped(b)[j]
                BY <2>7, <3>1, <3>3, Zenon
            <4> QED
                BY <1>5, <1>6, <3>4, <4>1, DecodesCharacter, ZenonT(30)
        <3> QED
            BY <3>2, <3>3, <3>5
    <2>9. R[a + Len(e) + 1] = SubSeq(text, k + 1, n)
        BY <2>4, <2>5
    <2>10. SubSeq(text, k, n) = <<text[k]>> \o SubSeq(text, k + 1, n)
        BY <1>1, <2>1, SubSeqRecursiveFirst
    <2>11. R[Len(p) + 1] = SubSeq(text, (k - 1) + 1, n)
        <3>1. (k - 1) + 1 = k
            BY <2>1
        <3> QED
            BY <2>8, <2>9, <2>10, <3>1
    <2>12. Q(k - 1)
        BY <2>6, <2>11 DEF p
    <2> HIDE DEF Q
    <2> QED
        BY <2>1, <2>12
<1> HIDE DEF S, Q
<1>9. n \in S
    BY <1>1, <1>7, <1>8, SetInduction
<1>10. Q(0)
    <2>1. n - n = 0 /\ n <= n
        BY <1>1
    <2>2. Q(n - n)
        BY <1>9, <2>1 DEF S
    <2> QED
        BY <2>1, <2>2
<1>11. R[1] = text
    <2>1. J[0] = << >> /\ Len(J[0]) + 1 = 1
        BY <1>2 DEF IsJoin
    <2>2. R[1] = SubSeq(text, 0 + 1, n)
        BY <1>10, <2>1 DEF Q
    <2>3. SubSeq(text, 1, n) = text
        BY SubSeqFull
    <2> QED
        BY <2>2, <2>3
<1> QED
    BY <1>3, <1>5, <1>6, <1>11

-----------------------------------------------------------------------------

(* Two sequences joined, place by place. *)
LEMMA JoinProperties ==
    ASSUME NEW S, NEW s \in Seq(S), NEW t \in Seq(S), NEW m \in Nat, m = Len(s),
           NEW n \in Nat, n = Len(t)
    PROVE  /\ s \o t \in Seq(S) /\ Len(s \o t) = n + m
           /\ \A i \in 1 .. m : (s \o t)[i] = s[i]
           /\ \A i \in 1 .. n : (s \o t)[i + m] = t[i]
<1> DEFINE u == s \o t
<1>1. /\ u \in Seq(S) /\ Len(u) = Len(s) + Len(t)
      /\ \A i \in 1 .. Len(s) + Len(t) : u[i] = IF i <= Len(s) THEN s[i] ELSE t[i - Len(s)]
    BY ConcatProperties
<1> HIDE DEF u
<1>2. \A i \in 1 .. m : u[i] = s[i]
    BY <1>1
<1>3. ASSUME NEW i \in 1 .. n PROVE u[i + m] = t[i]
    <2>1. i + m \in 1 .. m + n /\ ~(i + m <= m) /\ (i + m) - m = i
        OBVIOUS
    <2> QED
        BY <1>1, <2>1
<1>4. Len(u) = n + m
    BY <1>1
<1> QED
    BY <1>1, <1>2, <1>3, <1>4 DEF u

LEMMA JoinOne ==
    ASSUME NEW S, NEW s \in Seq(S), NEW c \in S, NEW m \in Nat, m = Len(s)
    PROVE  /\ s \o <<c>> \in Seq(S) /\ Len(s \o <<c>>) = m + 1
           /\ \A i \in 1 .. m : (s \o <<c>>)[i] = s[i]
           /\ (s \o <<c>>)[m + 1] = c
<1>1. <<c>> \in Seq(S) /\ Len(<<c>>) = 1 /\ <<c>>[1] = c
    OBVIOUS
<1> DEFINE t == <<c>>
<1> HIDE DEF t
<1>2. /\ s \o t \in Seq(S) /\ Len(s \o t) = 1 + m
      /\ \A i \in 1 .. m : (s \o t)[i] = s[i]
      /\ \A i \in 1 .. 1 : (s \o t)[i + m] = t[i]
    BY <1>1, JoinProperties DEF t
<1>3. (s \o t)[m + 1] = t[1]
    <2>1. 1 + m = m + 1 /\ 1 \in 1 .. 1
        OBVIOUS
    <2> QED
        BY <1>2, <2>1
<1>4. Len(s \o t) = m + 1
    BY <1>2
<1> QED
    BY <1>1, <1>2, <1>3, <1>4 DEF t

(* A safe text is ASCII and holds no '&'. *)
LEMMA SafeBytes ==
    ASSUME NEW z \in Seq(Safe)
    PROVE  z \in Seq(0 .. 127) /\ \A i \in 1 .. Len(z) : z[i] # 38
<1>1. Len(z) \in Nat /\ \A i \in 1 .. Len(z) : z[i] \in Safe
    BY LenProperties
<1>2. \A c \in Safe : c \in 0 .. 127 /\ c # 38
    BY DEF Safe
<1>3. z = [i \in 1 .. Len(z) |-> z[i]]
    BY LenProperties
<1>4. z \in [1 .. Len(z) -> 0 .. 127]
    BY <1>1, <1>2, <1>3
<1> QED
    BY <1>1, <1>2, <1>4, SeqDef

(* The body of a submission, byte by byte: two keys of one byte, each with    *)
(* its '=', and one '&' between the encoded texts.                            *)
IsBody(body, x, y, m, n) ==
    /\ m = Len(x) /\ n = Len(y)
    /\ body \in Seq(0 .. 127) /\ Len(body) = m + n + 5
    /\ body[1] = 115 /\ body[2] = 61
    /\ \A i \in 1 .. m : body[i + 2] = x[i]
    /\ body[m + 3] = 38 /\ body[m + 4] = 112 /\ body[m + 5] = 61
    /\ \A i \in 1 .. n : body[i + (m + 5)] = y[i]

LEMMA BodyShape ==
    ASSUME NEW x \in Seq(Safe), NEW y \in Seq(Safe), NEW body,
           body = SsidKey \o <<Equal>> \o x \o <<Ampersand>> \o PassKey \o <<Equal>> \o y,
           NEW m \in Nat, NEW n \in Nat, m = Len(x), n = Len(y)
    PROVE  IsBody(body, x, y, m, n)
<1> DEFINE b1 == <<115>> \o <<61>>
           b2 == b1 \o x
           b3 == b2 \o <<38>>
           b4 == b3 \o <<112>>
           b5 == b4 \o <<61>>
<1>1. body = b5 \o y
    BY DEF SsidKey, PassKey, Equal, Ampersand
<1>2. /\ x \in Seq(0 .. 127) /\ y \in Seq(0 .. 127)
      /\ <<115>> \in Seq(0 .. 127) /\ <<61>> \in Seq(0 .. 127)
      /\ <<38>> \in Seq(0 .. 127) /\ <<112>> \in Seq(0 .. 127)
    BY SafeBytes
<1>3. b1 \in Seq(0 .. 127) /\ Len(b1) = 2 /\ b1[1] = 115 /\ b1[2] = 61
    BY <1>2, ConcatProperties
<1> HIDE DEF b1
<1>4. /\ b2 \in Seq(0 .. 127) /\ Len(b2) = m + 2
      /\ \A i \in 1 .. 2 : b2[i] = b1[i]
      /\ \A i \in 1 .. m : b2[i + 2] = x[i]
    <2>1. /\ b1 \o x \in Seq(0 .. 127) /\ Len(b1 \o x) = m + 2
          /\ \A i \in 1 .. 2 : (b1 \o x)[i] = b1[i]
          /\ \A i \in 1 .. m : (b1 \o x)[i + 2] = x[i]
        <3>2. /\ x \in Seq(0 .. 127) /\ b1 \in Seq(0 .. 127)
            BY <1>2, <1>3
        <3>3. PICK k \in Nat : k = Len(b1)
            BY <1>3
        <3>4. /\ b1 \o x \in Seq(0 .. 127) /\ Len(b1 \o x) = m + k
              /\ \A i \in 1 .. k : (b1 \o x)[i] = b1[i]
              /\ \A i \in 1 .. m : (b1 \o x)[i + k] = x[i]
            BY <3>2, <3>3, JoinProperties
        <3> QED
            BY <1>3, <3>3, <3>4
    <2> QED
        BY <2>1
<1> HIDE DEF b2
<1>5. /\ b3 \in Seq(0 .. 127) /\ Len(b3) = m + 3
      /\ \A i \in 1 .. m + 2 : b3[i] = b2[i]
      /\ b3[m + 3] = 38
    <2>1. m + 2 \in Nat /\ 38 \in 0 .. 127 /\ (m + 2) + 1 = m + 3
        OBVIOUS
    <2>2. /\ b2 \o <<38>> \in Seq(0 .. 127) /\ Len(b2 \o <<38>>) = (m + 2) + 1
          /\ \A i \in 1 .. m + 2 : (b2 \o <<38>>)[i] = b2[i]
          /\ (b2 \o <<38>>)[(m + 2) + 1] = 38
        BY <1>4, <2>1, JoinOne
    <2> QED
        BY <2>1, <2>2
<1> HIDE DEF b3
<1>6. /\ b4 \in Seq(0 .. 127) /\ Len(b4) = m + 4
      /\ \A i \in 1 .. m + 3 : b4[i] = b3[i]
      /\ b4[m + 4] = 112
    <2>1. m + 3 \in Nat /\ 112 \in 0 .. 127 /\ (m + 3) + 1 = m + 4
        OBVIOUS
    <2>2. /\ b3 \o <<112>> \in Seq(0 .. 127) /\ Len(b3 \o <<112>>) = (m + 3) + 1
          /\ \A i \in 1 .. m + 3 : (b3 \o <<112>>)[i] = b3[i]
          /\ (b3 \o <<112>>)[(m + 3) + 1] = 112
        BY <1>5, <2>1, JoinOne
    <2> QED
        BY <2>1, <2>2
<1> HIDE DEF b4
<1>7. /\ b5 \in Seq(0 .. 127) /\ Len(b5) = m + 5
      /\ \A i \in 1 .. m + 4 : b5[i] = b4[i]
      /\ b5[m + 5] = 61
    <2>1. m + 4 \in Nat /\ 61 \in 0 .. 127 /\ (m + 4) + 1 = m + 5
        OBVIOUS
    <2>2. /\ b4 \o <<61>> \in Seq(0 .. 127) /\ Len(b4 \o <<61>>) = (m + 4) + 1
          /\ \A i \in 1 .. m + 4 : (b4 \o <<61>>)[i] = b4[i]
          /\ (b4 \o <<61>>)[(m + 4) + 1] = 61
        BY <1>6, <2>1, JoinOne
    <2> QED
        BY <2>1, <2>2
<1> HIDE DEF b5
<1>8. /\ body \in Seq(0 .. 127) /\ Len(body) = n + (m + 5)
      /\ \A i \in 1 .. m + 5 : body[i] = b5[i]
      /\ \A i \in 1 .. n : body[i + (m + 5)] = y[i]
    <2>1. PICK k \in Nat : k = m + 5
        OBVIOUS
    <2>2. /\ y \in Seq(0 .. 127) /\ b5 \in Seq(0 .. 127) /\ k = Len(b5)
        BY <1>2, <1>7, <2>1
    <2>3. /\ b5 \o y \in Seq(0 .. 127) /\ Len(b5 \o y) = n + k
          /\ \A i \in 1 .. k : (b5 \o y)[i] = b5[i]
          /\ \A i \in 1 .. n : (b5 \o y)[i + k] = y[i]
        BY <2>2, JoinProperties
    <2> QED
        BY <1>1, <2>1, <2>3
<1>9. \A i \in 1 .. m + 2 : body[i] = b2[i]
    <2> SUFFICES ASSUME NEW i \in 1 .. m + 2 PROVE body[i] = b2[i]
        OBVIOUS
    <2>1. i \in 1 .. m + 3 /\ i \in 1 .. m + 4 /\ i \in 1 .. m + 5
        OBVIOUS
    <2>2. body[i] = b5[i] /\ b5[i] = b4[i] /\ b4[i] = b3[i] /\ b3[i] = b2[i]
        BY <1>5, <1>6, <1>7, <1>8, <2>1
    <2> QED
        BY <2>2
<1>10. body[1] = 115 /\ body[2] = 61
    <2>1. 1 \in 1 .. m + 2 /\ 2 \in 1 .. m + 2 /\ 1 \in 1 .. 2 /\ 2 \in 1 .. 2
        OBVIOUS
    <2> QED
        <3>1. body[1] = b2[1] /\ body[2] = b2[2]
            BY <1>9, <2>1
        <3>2. b2[1] = b1[1] /\ b2[2] = b1[2]
            BY <1>4, <2>1
        <3> QED
            BY <1>3, <3>1, <3>2
<1>11. \A i \in 1 .. m : body[i + 2] = x[i]
    <2> SUFFICES ASSUME NEW i \in 1 .. m PROVE body[i + 2] = x[i]
        OBVIOUS
    <2>1. i + 2 \in 1 .. m + 2
        OBVIOUS
    <2>2. body[i + 2] = b2[i + 2] /\ b2[i + 2] = x[i]
        BY <1>4, <1>9, <2>1
    <2> QED
        BY <2>2
<1>12. body[m + 3] = 38 /\ body[m + 4] = 112 /\ body[m + 5] = 61
    <2>1. /\ m + 3 \in 1 .. m + 3 /\ m + 3 \in 1 .. m + 4 /\ m + 3 \in 1 .. m + 5
          /\ m + 4 \in 1 .. m + 4 /\ m + 4 \in 1 .. m + 5 /\ m + 5 \in 1 .. m + 5
        OBVIOUS
    <2>2. body[m + 3] = b5[m + 3] /\ b5[m + 3] = b4[m + 3] /\ b4[m + 3] = b3[m + 3]
        BY <1>6, <1>7, <1>8, <2>1
    <2>3. body[m + 4] = b5[m + 4] /\ b5[m + 4] = b4[m + 4]
        BY <1>7, <1>8, <2>1
    <2>4. body[m + 5] = b5[m + 5]
        BY <1>8, <2>1
    <2> QED
        <3>1. b3[m + 3] = 38
            BY <1>5
        <3>2. b4[m + 4] = 112
            BY <1>6
        <3>3. b5[m + 5] = 61
            BY <1>7
        <3> QED
            BY <2>2, <2>3, <2>4, <3>1, <3>2, <3>3, Zenon
<1>13. Len(body) = m + n + 5
    BY <1>8
<1> QED
    BY <1>8, <1>10, <1>11, <1>12, <1>13 DEF IsBody

LEMMA ElementsOf ==
    ASSUME NEW S, NEW s \in Seq(S)
    PROVE  Len(s) \in Nat /\ \A i \in 1 .. Len(s) : s[i] \in S
<1>1. Len(s) \in Nat /\ s \in [1 .. Len(s) -> S]
    BY LenProperties
<1> QED
    BY <1>1

(* A field that starts with a byte and an '=' is of the key that byte is. *)
LEMMA KeyOfField ==
    ASSUME NEW f \in Seq(0 .. 127), Len(f) >= 2, f[2] = 61, NEW c \in 0 .. 127
    PROVE  IsPrefix(<<c>> \o <<61>>, f) <=> f[1] = c
<1> DEFINE key == <<c>> \o <<61>>
           head == SubSeq(f, 1, 2)
<1>1. key \in Seq(0 .. 127) /\ Len(key) = 2 /\ key[1] = c /\ key[2] = 61
    OBVIOUS
<1>2. /\ head \in Seq(0 .. 127) /\ Len(head) = 2
      /\ head[1] = f[1] /\ head[2] = f[2]
    <2>1. Len(f) \in Nat /\ \A i \in 1 .. Len(f) : f[i] \in 0 .. 127
        BY ElementsOf
    <2>2. \A i \in 1 .. 2 : f[i] \in 0 .. 127
        BY <2>1
    <2> QED
        BY <2>2, SubSeqProperties
<1> HIDE DEF key, head
<1>3. SubSeq(key, 1, Len(key)) = key
    BY <1>1, SubSeqFull
<1>4. IsPrefix(key, f) <=> key = head
    BY <1>1, <1>3 DEF IsPrefix, head
<1>5. f[1] = c => key = head
    <2> SUFFICES ASSUME f[1] = c PROVE key = head
        OBVIOUS
    <2>1. \A i \in 1 .. Len(key) : key[i] = head[i]
        BY <1>1, <1>2
    <2> QED
        BY <1>1, <1>2, <2>1, SeqEqual
<1>6. key = head => f[1] = c
    BY <1>1, <1>2
<1> QED
    BY <1>4, <1>5, <1>6 DEF key

(* What follows the key and its '=' in a field is the value. *)
LEMMA ValueOfField ==
    ASSUME NEW f \in Seq(0 .. 127), NEW z \in Seq(0 .. 127),
           Len(f) = Len(z) + 2, \A i \in 1 .. Len(z) : f[i + 2] = z[i]
    PROVE  SubSeq(f, 3, Len(f)) = z
<1>0. PICK n \in Nat : n = Len(z)
    BY LenProperties
<1> DEFINE v == SubSeq(f, 3, n + 2)
<1>1. v \in Seq(0 .. 127) /\ Len(v) = n /\ \A i \in 1 .. n : v[i] = f[3 + i - 1]
    <2>1. Len(f) \in Nat /\ \A i \in 1 .. Len(f) : f[i] \in 0 .. 127
        BY ElementsOf
    <2>2. 3 \in Int /\ n + 2 \in Int /\ \A i \in 3 .. n + 2 : f[i] \in 0 .. 127
        BY <1>0, <2>1
    <2>3. /\ v \in Seq(0 .. 127)
          /\ Len(v) = IF 3 <= n + 2 THEN n + 2 - 3 + 1 ELSE 0
          /\ \A i \in 1 .. n + 2 - 3 + 1 : v[i] = f[3 + i - 1]
        BY <2>2, SubSeqProperties
    <2> HIDE DEF v
    <2>4. n + 2 - 3 + 1 = n /\ (3 <= n + 2 <=> n >= 1)
        OBVIOUS
    <2> QED
        BY <2>3, <2>4
<1> HIDE DEF v
<1>2. \A i \in 1 .. n : 3 + i - 1 = i + 2
    OBVIOUS
<1>3. \A i \in 1 .. Len(v) : v[i] = z[i]
    BY <1>0, <1>1, <1>2
<1>4. v = z
    BY <1>0, <1>1, <1>3, SeqEqual
<1> QED
    BY <1>0, <1>4 DEF v

(* A part of a text, by its places. *)
LEMMA PartOf ==
    ASSUME NEW f \in Seq(0 .. 127), NEW a \in Nat, NEW k \in Nat \ {0}, a + k <= Len(f)
    PROVE  /\ SubSeq(f, a + 1, a + k) \in Seq(0 .. 127)
           /\ Len(SubSeq(f, a + 1, a + k)) = k
           /\ \A i \in 1 .. k : SubSeq(f, a + 1, a + k)[i] = f[a + i]
<1> DEFINE v == SubSeq(f, a + 1, a + k)
<1>1. Len(f) \in Nat /\ \A i \in 1 .. Len(f) : f[i] \in 0 .. 127
    BY LenProperties
<1>2. a + 1 \in Int /\ a + k \in Int /\ \A i \in a + 1 .. a + k : f[i] \in 0 .. 127
    <2>1. \A i \in a + 1 .. a + k : i \in 1 .. Len(f)
        BY <1>1
    <2> QED
        BY <1>1, <2>1
<1>3. /\ v \in Seq(0 .. 127)
      /\ Len(v) = IF a + 1 <= a + k THEN (a + k) - (a + 1) + 1 ELSE 0
      /\ \A i \in 1 .. (a + k) - (a + 1) + 1 : v[i] = f[(a + 1) + i - 1]
    BY <1>2, SubSeqProperties
<1> HIDE DEF v
<1>4. (a + k) - (a + 1) + 1 = k /\ a + 1 <= a + k
    OBVIOUS
<1>5. \A i \in 1 .. k : (a + 1) + i - 1 = a + i
    OBVIOUS
<1>6. Len(v) = k /\ \A i \in 1 .. k : v[i] = f[a + i]
    BY <1>3, <1>4, <1>5
<1> QED
    BY <1>3, <1>6 DEF v

(* The split of a body gives each key the text that was encoded for it: the   *)
(* '&' between the two fields is the only one.                                *)
LEMMA OneAmpersand ==
    ASSUME NEW x \in Seq(Safe), NEW y \in Seq(Safe), NEW body,
           NEW m \in Nat, NEW n \in Nat, IsBody(body, x, y, m, n)
    PROVE  \A j \in 1 .. m + n + 5 : body[j] = Ampersand <=> j = m + 3
<1>1. /\ body[1] = 115 /\ body[2] = 61
      /\ body[m + 3] = 38 /\ body[m + 4] = 112 /\ body[m + 5] = 61
    BY DEF IsBody
<1>2. \A i \in 1 .. m : body[i + 2] = x[i]
    BY DEF IsBody
<1>3. \A i \in 1 .. n : body[i + (m + 5)] = y[i]
    BY DEF IsBody
<1>4. \A i \in 1 .. m : x[i] # 38
    BY SafeBytes DEF IsBody
<1>5. \A i \in 1 .. n : y[i] # 38
    BY SafeBytes DEF IsBody
<1> SUFFICES ASSUME NEW j \in 1 .. m + n + 5 PROVE body[j] = 38 <=> j = m + 3
    BY DEF Ampersand
<1>6. CASE j \in 3 .. m + 2
    <2>1. PICK i \in 1 .. m : j = i + 2
        <3>1. j - 2 \in 1 .. m /\ j = (j - 2) + 2
            BY <1>6
        <3> QED
            BY <3>1
    <2>2. body[j] # 38
        <3>1. body[i + 2] = x[i] /\ x[i] # 38
            BY <1>2, <1>4
        <3> QED
            BY <2>1, <3>1, Zenon
    <2>3. j # m + 3
        BY <2>1
    <2> QED
        BY <2>2, <2>3
<1>7. CASE j \in m + 6 .. m + n + 5
    <2>1. PICK i \in 1 .. n : j = i + (m + 5)
        <3>1. j - (m + 5) \in 1 .. n /\ j = (j - (m + 5)) + (m + 5)
            BY <1>7
        <3> QED
            BY <3>1
    <2>2. body[j] # 38
        <3>1. body[i + (m + 5)] = y[i] /\ y[i] # 38
            BY <1>3, <1>5
        <3> QED
            BY <2>1, <3>1, Zenon
    <2>3. j # m + 3
        BY <2>1
    <2> QED
        BY <2>2, <2>3
<1>8. CASE j = 1 \/ j = 2
    <2>1. j # m + 3
        BY <1>8
    <2> QED
        BY <1>1, <1>8, <2>1
<1>9. CASE j = m + 3
    BY <1>1, <1>9
<1>10. CASE j = m + 4 \/ j = m + 5
    <2>1. j # m + 3
        BY <1>10
    <2> QED
        BY <1>1, <1>10, <2>1
<1>11. \/ j \in 3 .. m + 2 \/ j \in m + 6 .. m + n + 5
       \/ j = 1 \/ j = 2 \/ j = m + 3 \/ j = m + 4 \/ j = m + 5
    OBVIOUS
<1> QED
    BY <1>6, <1>7, <1>8, <1>9, <1>10, <1>11

LEMMA FieldsStart ==
    ASSUME NEW x \in Seq(Safe), NEW y \in Seq(Safe), NEW body,
           NEW m \in Nat, NEW n \in Nat, IsBody(body, x, y, m, n)
    PROVE  FieldStarts(body) = {1, m + 4}
<1>1. body \in Seq(0 .. 127) /\ Len(body) = m + n + 5
    BY DEF IsBody
<1>2. DOMAIN body = 1 .. m + n + 5
    BY <1>1, LenProperties
<1>3. \A j \in 1 .. m + n + 5 : body[j] = Ampersand <=> j = m + 3
    BY OneAmpersand
<1>4. m + 3 \in 1 .. m + n + 5 /\ (m + n + 5) + 1 = m + n + 6
    OBVIOUS
<1>5. FieldStarts(body) = {1, m + 4}
    <2>1. {j \in DOMAIN body : body[j] = Ampersand} = {m + 3}
        BY <1>2, <1>3, <1>4
    <2>2. m + 3 + 1 = m + 4
        OBVIOUS
    <2> QED
        BY <2>1, <2>2 DEF FieldStarts
<1> QED
    BY <1>5

(* A field: its key, an '=' and the text that was encoded for it. *)
IsField(f, c, z) ==
    /\ f \in Seq(0 .. 127) /\ Len(f) = Len(z) + 2
    /\ f[1] = c /\ f[2] = 61
    /\ \A i \in 1 .. Len(z) : f[i + 2] = z[i]

LEMMA FirstField ==
    ASSUME NEW x \in Seq(Safe), NEW y \in Seq(Safe), NEW body,
           NEW m \in Nat, NEW n \in Nat, IsBody(body, x, y, m, n)
    PROVE  IsField(FieldAt(body, 1), 115, x)
<1> DEFINE f == FieldAt(body, 1)
<1>0. f = SubSeq(body, 1, m + 2)
    <2>1. Len(body) = m + n + 5
        BY DEF IsBody
    <2>2. \A j \in 1 .. m + n + 5 : body[j] = Ampersand <=> j = m + 3
        BY OneAmpersand
    <2>3. m + 3 \in 1 .. m + n + 5 /\ (m + n + 5) + 1 = m + n + 6
        OBVIOUS
    <2> DEFINE stops == {i \in 1 .. Len(body) : body[i] = Ampersand} \cup {Len(body) + 1}
    <2>4. stops = {m + 3, m + n + 6}
        <3>1. {i \in 1 .. m + n + 5 : body[i] = Ampersand} = {m + 3}
            BY <2>2, <2>3
        <3> QED
            BY <2>1, <2>3, <3>1
    <2> DEFINE first == CHOOSE i \in stops : \A j \in stops : i <= j
    <2>5. FieldAt(body, 1) = SubSeq(body, 1, first - 1)
        BY Zenon DEF FieldAt
    <2> HIDE DEF stops
    <2>6. first = m + 3
        <3>1. m + 3 \in stops /\ \A j \in stops : m + 3 <= j
            BY <2>4
        <3>2. \A i \in stops : (\A j \in stops : i <= j) => i = m + 3
            BY <2>4
        <3> QED
            BY <3>1, <3>2
    <2> HIDE DEF first
    <2>7. first - 1 = m + 2
        BY <2>6
    <2> QED
        BY <2>5, <2>7
<1> HIDE DEF f
<1>1. body \in Seq(0 .. 127) /\ Len(body) = m + n + 5 /\ body[1] = 115 /\ body[2] = 61
    BY DEF IsBody
<1>2. \A i \in 1 .. m : body[i + 2] = x[i]
    BY DEF IsBody
<1>3. PICK k \in Nat \ {0} : k = m + 2
    OBVIOUS
<1>4. PICK a \in Nat : a = 0
    OBVIOUS
<1>5. a + k <= Len(body) /\ a + 1 = 1 /\ a + k = m + 2
    BY <1>1, <1>3, <1>4
<1>6. f = SubSeq(body, a + 1, a + k)
    BY <1>0, <1>5
<1>7. f \in Seq(0 .. 127) /\ Len(f) = k /\ \A i \in 1 .. k : f[i] = body[a + i]
    <2>1. body \in Seq(0 .. 127)
        BY <1>1
    <2>2. a + k <= Len(body)
        BY <1>5
    <2>3. /\ SubSeq(body, a + 1, a + k) \in Seq(0 .. 127)
          /\ Len(SubSeq(body, a + 1, a + k)) = k
          /\ \A i \in 1 .. k : SubSeq(body, a + 1, a + k)[i] = body[a + i]
        BY ONLY <2>1, <2>2, PartOf, k \in Nat \ {0}, a \in Nat
    <2> QED
        BY <1>6, <2>3
<1>8. ASSUME NEW i \in 1 .. k PROVE f[i] = body[i]
    <2>1. a + i = i
        BY <1>4
    <2> QED
        BY <1>7, <2>1
<1>9. f[1] = 115 /\ f[2] = 61
    <2>1. 1 \in 1 .. k /\ 2 \in 1 .. k
        BY <1>3
    <2> QED
        BY <1>1, <1>8, <2>1
<1>10. ASSUME NEW i \in 1 .. m PROVE f[i + 2] = x[i]
    <2>1. i + 2 \in 1 .. k
        BY <1>3
    <2>2. f[i + 2] = body[i + 2] /\ body[i + 2] = x[i]
        BY <1>2, <1>8, <2>1
    <2> QED
        BY <2>2
<1>11. f \in Seq(0 .. 127) /\ Len(f) = m + 2
    BY <1>3, <1>7
<1>12. m = Len(x)
    BY DEF IsBody
<1> QED
    BY <1>9, <1>10, <1>11, <1>12 DEF IsField, f

LEMMA SecondField ==
    ASSUME NEW x \in Seq(Safe), NEW y \in Seq(Safe), NEW body,
           NEW m \in Nat, NEW n \in Nat, IsBody(body, x, y, m, n)
    PROVE  IsField(FieldAt(body, m + 4), 112, y)
<1> DEFINE g == FieldAt(body, m + 4)
<1>0. g = SubSeq(body, m + 4, m + n + 5)
    <2>1. Len(body) = m + n + 5
        BY DEF IsBody
    <2>2. \A j \in 1 .. m + n + 5 : body[j] = Ampersand <=> j = m + 3
        BY OneAmpersand
    <2>3. m + 3 \in 1 .. m + n + 5 /\ (m + n + 5) + 1 = m + n + 6
        OBVIOUS
    <2> DEFINE start == m + 4
               stops == {i \in start .. Len(body) : body[i] = Ampersand} \cup {Len(body) + 1}
    <2>4. stops = {m + n + 6}
        <3>1. \A i \in start .. m + n + 5 : i \in 1 .. m + n + 5 /\ i # m + 3
            OBVIOUS
        <3>2. \A i \in start .. m + n + 5 : body[i] # Ampersand
            BY <2>2, <3>1
        <3> HIDE DEF start
        <3>3. {i \in start .. m + n + 5 : body[i] = Ampersand} = {}
            BY <3>2
        <3> QED
            BY <2>1, <2>3, <3>3
    <2> DEFINE first == CHOOSE i \in stops : \A j \in stops : i <= j
    <2> HIDE DEF start
    <2>5. FieldAt(body, start) = SubSeq(body, start, first - 1)
        BY Zenon DEF FieldAt
    <2> HIDE DEF stops
    <2>6. first = m + n + 6
        BY <2>4
    <2> HIDE DEF first
    <2>7. first - 1 = m + n + 5
        BY <2>6
    <2> QED
        BY <2>5, <2>7 DEF start
<1> HIDE DEF g
<1>1. /\ body \in Seq(0 .. 127) /\ Len(body) = m + n + 5
      /\ body[m + 4] = 112 /\ body[m + 5] = 61
    BY DEF IsBody
<1>2. \A i \in 1 .. n : body[i + (m + 5)] = y[i]
    BY DEF IsBody
<1>3. PICK k \in Nat \ {0} : k = n + 2
    OBVIOUS
<1>4. PICK a \in Nat : a = m + 3
    OBVIOUS
<1>5. a + k <= Len(body) /\ a + 1 = m + 4 /\ a + k = m + n + 5
    BY <1>1, <1>3, <1>4
<1>6. g = SubSeq(body, a + 1, a + k)
    BY <1>0, <1>5
<1>7. g \in Seq(0 .. 127) /\ Len(g) = k /\ \A i \in 1 .. k : g[i] = body[a + i]
    <2>1. body \in Seq(0 .. 127)
        BY <1>1
    <2>2. a + k <= Len(body)
        BY <1>5
    <2>3. /\ SubSeq(body, a + 1, a + k) \in Seq(0 .. 127)
          /\ Len(SubSeq(body, a + 1, a + k)) = k
          /\ \A i \in 1 .. k : SubSeq(body, a + 1, a + k)[i] = body[a + i]
        BY ONLY <2>1, <2>2, PartOf, k \in Nat \ {0}, a \in Nat
    <2> QED
        BY <1>6, <2>3
<1>8. g[1] = 112 /\ g[2] = 61
    <2>1. 1 \in 1 .. k /\ 2 \in 1 .. k /\ a + 1 = m + 4 /\ a + 2 = m + 5
        BY <1>3, <1>4
    <2>2. g[1] = body[a + 1] /\ g[2] = body[a + 2]
        BY <1>7, <2>1
    <2> QED
        BY <1>1, <2>1, <2>2
<1>9. ASSUME NEW i \in 1 .. n PROVE g[i + 2] = y[i]
    <2>1. i + 2 \in 1 .. k /\ a + (i + 2) = i + (m + 5)
        BY <1>3, <1>4
    <2>2. g[i + 2] = body[a + (i + 2)]
        BY <1>7, <2>1
    <2>3. body[i + (m + 5)] = y[i]
        BY <1>2
    <2> QED
        BY <2>1, <2>2, <2>3
<1>10. g \in Seq(0 .. 127) /\ Len(g) = n + 2
    BY <1>3, <1>7
<1>11. n = Len(y)
    BY DEF IsBody
<1> QED
    BY <1>8, <1>9, <1>10, <1>11 DEF IsField, g

LEMMA FieldValues ==
    ASSUME NEW x \in Seq(Safe), NEW y \in Seq(Safe), NEW body,
           NEW m \in Nat, NEW n \in Nat, IsBody(body, x, y, m, n)
    PROVE  Values(body, SsidKey) = {x} /\ Values(body, PassKey) = {y}
<1> DEFINE f == FieldAt(body, 1)
           g == FieldAt(body, m + 4)
<1>4. FieldStarts(body) = {1, m + 4}
    BY FieldsStart
<1>5. IsField(f, 115, x)
    BY FirstField
<1>6. IsField(g, 112, y)
    BY SecondField
<1> HIDE DEF f, g
<1>7. x \in Seq(0 .. 127) /\ y \in Seq(0 .. 127)
    BY SafeBytes
<1>8. SubSeq(f, 3, Len(f)) = x
    BY <1>5, <1>7, ValueOfField DEF IsField
<1>9. SubSeq(g, 3, Len(g)) = y
    BY <1>6, <1>7, ValueOfField DEF IsField
<1>10. ASSUME NEW c \in 0 .. 127
       PROVE  /\ IsPrefix(<<c>> \o <<61>>, f) <=> c = 115
              /\ IsPrefix(<<c>> \o <<61>>, g) <=> c = 112
    <2>1. Len(f) >= 2 /\ Len(g) >= 2
        <3>1. Len(x) \in Nat /\ Len(y) \in Nat
            BY LenProperties
        <3> QED
            BY <1>5, <1>6, <3>1 DEF IsField
    <2>2. IsPrefix(<<c>> \o <<61>>, f) <=> f[1] = c
        <3>1. f \in Seq(0 .. 127) /\ Len(f) >= 2 /\ f[2] = 61
            BY <1>5, <2>1 DEF IsField
        <3> QED
            BY <3>1, KeyOfField
    <2>3. IsPrefix(<<c>> \o <<61>>, g) <=> g[1] = c
        <3>1. g \in Seq(0 .. 127) /\ Len(g) >= 2 /\ g[2] = 61
            BY <1>6, <2>1 DEF IsField
        <3> QED
            BY <3>1, KeyOfField
    <2>4. f[1] = 115 /\ g[1] = 112
        BY <1>5, <1>6 DEF IsField
    <2> QED
        BY <2>2, <2>3, <2>4
<1>11. m + 4 # 1 /\ 112 \in 0 .. 127 /\ 115 \in 0 .. 127
    OBVIOUS
<1>12. Values(body, SsidKey) = {x}
    <2> DEFINE fields == {i \in FieldStarts(body) :
                             IsPrefix(SsidKey \o <<Equal>>, FieldAt(body, i))}
    <2>1. fields = {1}
        <3>1. /\ IsPrefix(SsidKey \o <<Equal>>, FieldAt(body, 1))
              /\ ~IsPrefix(SsidKey \o <<Equal>>, FieldAt(body, m + 4))
            BY <1>10, <1>11 DEF SsidKey, Equal, f, g
        <3> QED
            BY <1>4, <3>1
    <2>2. (CHOOSE i \in fields : \A j \in fields : j <= i) = 1
        BY <2>1
    <2>3. Len(SsidKey) + 2 = 3
        BY DEF SsidKey
    <2> HIDE DEF fields
    <2>4. Values(body, SsidKey) = {SubSeq(f, Len(SsidKey) + 2, Len(f))}
        BY <2>1, <2>2 DEF Values, f, fields
    <2> QED
        BY <1>8, <2>3, <2>4
<1>13. Values(body, PassKey) = {y}
    <2> DEFINE fields == {i \in FieldStarts(body) :
                             IsPrefix(PassKey \o <<Equal>>, FieldAt(body, i))}
    <2>1. fields = {m + 4}
        <3>1. /\ ~IsPrefix(PassKey \o <<Equal>>, FieldAt(body, 1))
              /\ IsPrefix(PassKey \o <<Equal>>, FieldAt(body, m + 4))
            BY <1>10, <1>11 DEF PassKey, Equal, f, g
        <3> QED
            BY <1>4, <3>1
    <2>2. (CHOOSE i \in fields : \A j \in fields : j <= i) = m + 4
        BY <2>1
    <2>3. Len(PassKey) + 2 = 3
        BY DEF PassKey
    <2> HIDE DEF fields
    <2>4. Values(body, PassKey) = {SubSeq(g, Len(PassKey) + 2, Len(g))}
        BY <2>1, <2>2 DEF Values, g, fields
    <2> QED
        BY <1>9, <2>3, <2>4
<1> QED
    BY <1>12, <1>13

Joined(x, y) == SsidKey \o <<Equal>> \o x \o <<Ampersand>> \o PassKey \o <<Equal>> \o y

LEMMA BodySplits ==
    ASSUME NEW x \in Seq(Safe), NEW y \in Seq(Safe)
    PROVE  /\ Joined(x, y) \in Seq(0 .. 127)
           /\ Values(Joined(x, y), SsidKey) = {x} /\ Values(Joined(x, y), PassKey) = {y}
<1> DEFINE body == Joined(x, y)
<1>1. PICK m \in Nat : m = Len(x)
    BY LenProperties
<1>2. PICK n \in Nat : n = Len(y)
    BY LenProperties
<1>3. IsBody(body, x, y, m, n)
    BY <1>1, <1>2, BodyShape DEF Joined
<1> HIDE DEF body
<1>4. Values(body, SsidKey) = {x} /\ Values(body, PassKey) = {y}
    BY ONLY <1>1, <1>2, <1>3, FieldValues, x \in Seq(Safe), y \in Seq(Safe)
<1>5. body \in Seq(0 .. 127)
    BY <1>3 DEF IsBody
<1> QED
    BY <1>4, <1>5 DEF body

-----------------------------------------------------------------------------
(* What the handler makes of a body that came whole. *)

LEMMA AsciiIsUtf8 ==
    ASSUME NEW body \in Seq(0 .. 127)
    PROVE  Utf8(body)
<1>1. Len(body) \in Nat /\ \A i \in 1 .. Len(body) : body[i] \in 0 .. 127
    BY ElementsOf
<1>2. DOMAIN body = 1 .. Len(body)
    BY LenProperties
<1> SUFFICES ASSUME NEW i \in 1 .. Len(body)
             PROVE  /\ body[i] \notin Continuation
                    /\ Width(body[i]) \in 1 .. Len(body) + 1 - i
                    /\ \A j \in 1 .. Width(body[i]) - 1 : body[i + j] \in Continuation
                    /\ ~(Width(body[i]) > 1)
    BY <1>2 DEF Utf8
<1>3. PICK b \in 0 .. 127 : b = body[i]
    BY <1>1
<1>4. body[i] \notin Continuation /\ Width(body[i]) = 1
    <2>1. b \notin Continuation
        BY DEF Continuation
    <2>2. b \notin 194 .. 223 /\ b \notin 224 .. 239 /\ b \notin 240 .. 244
        OBVIOUS
    <2>3. Width(b) = 1
        BY <2>2 DEF Width
    <2> QED
        BY <1>3, <2>1, <2>3
<1>5. 1 \in 1 .. Len(body) + 1 - i
    BY <1>1
<1>6. \A j \in 1 .. 1 - 1 : FALSE
    OBVIOUS
<1> QED
    BY <1>4, <1>5, <1>6

(* A text cut where a buffer ends. *)
Cut(text, room) == SubSeq(text, 1, IF Len(text) < room THEN Len(text) ELSE room)

LEMMA CutLength ==
    ASSUME NEW text \in Seq(Bytes), NEW room \in Nat
    PROVE  /\ Len(text) \in Nat
           /\ Len(Cut(text, room)) = IF Len(text) < room THEN Len(text) ELSE room
           /\ Len(text) <= room => Cut(text, room) = text
           /\ Cut(text, room) = << >> <=> Len(Cut(text, room)) = 0
<1>1. Len(text) \in Nat /\ \A i \in 1 .. Len(text) : text[i] \in Bytes
    BY ElementsOf
<1>2. PICK k \in Nat : k = IF Len(text) < room THEN Len(text) ELSE room
    BY <1>1
<1>3. Cut(text, room) = SubSeq(text, 1, k)
    BY <1>2 DEF Cut
<1>4. \A i \in 1 .. k : text[i] \in Bytes
    BY <1>1, <1>2
<1>5. /\ SubSeq(text, 1, k) \in Seq(Bytes)
      /\ Len(SubSeq(text, 1, k)) = IF 1 <= k THEN k - 1 + 1 ELSE 0
    BY <1>4, SubSeqProperties
<1>6. Len(Cut(text, room)) = k
    BY <1>3, <1>5
<1>7. Len(text) <= room => Cut(text, room) = text
    <2>1. Len(text) <= room => k = Len(text)
        BY <1>1, <1>2
    <2> QED
        BY <1>3, <2>1, SubSeqFull
<1>8. Cut(text, room) = << >> <=> Len(Cut(text, room)) = 0
    BY <1>3, <1>5, EmptySeq
<1> QED
    BY <1>1, <1>2, <1>6, <1>7, <1>8

LEMMA TypedBytes ==
    ASSUME NEW ssid \in TypedSsids, NEW pass \in TypedPasswords
    PROVE  /\ ssid \in Seq(Bytes) /\ Utf8(ssid)
           /\ pass \in Seq(Bytes) /\ Utf8(pass)
  BY TypedAssumption DEF Bytes

LEMMA BodyOfTyped ==
    ASSUME NEW ssid \in TypedSsids, NEW pass \in TypedPasswords,
           NEW body, body = Body([ssid |-> ssid, pass |-> pass])
    PROVE  /\ body \in Seq(0 .. 127)
           /\ Values(body, SsidKey) = {Encoded(ssid)}
           /\ Values(body, PassKey) = {Encoded(pass)}
<1>1. Encoded(ssid) \in Seq(Safe) /\ Encoded(pass) \in Seq(Safe)
    <2>1. 0 \in Nat
        OBVIOUS
    <2> QED
        BY <2>1, TypedBytes, DecodesEncoded
<1>2. body = SsidKey \o <<Equal>> \o Encoded(ssid)
                 \o <<Ampersand>> \o PassKey \o <<Equal>> \o Encoded(pass)
    BY Zenon DEF Body
<1>3. body = Joined(Encoded(ssid), Encoded(pass))
    BY <1>2 DEF Joined
<1>4. PICK x \in Seq(Safe), y \in Seq(Safe) : x = Encoded(ssid) /\ y = Encoded(pass)
    BY <1>1
<1>5. /\ Joined(x, y) \in Seq(0 .. 127)
      /\ Values(Joined(x, y), SsidKey) = {x} /\ Values(Joined(x, y), PassKey) = {y}
    BY ONLY BodySplits, x \in Seq(Safe), y \in Seq(Safe)
<1> QED
    BY <1>3, <1>4, <1>5

(* The lengths that are accepted are shorter than the buffers, so a text that *)
(* was cut is refused as the whole of it would be.                            *)
LEMMA CutIsRefused ==
    ASSUME NEW ssid \in Seq(Bytes), NEW pass \in Seq(Bytes)
    PROVE  /\ Acceptable(Cut(ssid, SsidRoom), Cut(pass, PassRoom)) <=> Acceptable(ssid, pass)
           /\ Acceptable(ssid, pass) => Cut(ssid, SsidRoom) = ssid /\ Cut(pass, PassRoom) = pass
<1>1. /\ SsidMax \in Nat /\ PskMin \in Nat \ {0} /\ PskMax \in Nat /\ PasswordMax \in Nat
      /\ PskMax < PasswordMax
    BY FormAssumption
<1>2. SsidRoom \in Nat /\ SsidRoom = SsidMax + 1 /\ PassRoom \in Nat /\ PassRoom = PasswordMax + 1
    BY <1>1 DEF SsidRoom, PassRoom
<1> DEFINE s == Cut(ssid, SsidRoom)
           p == Cut(pass, PassRoom)
<1>3. /\ Len(ssid) \in Nat /\ Len(s) = IF Len(ssid) < SsidRoom THEN Len(ssid) ELSE SsidRoom
      /\ Len(ssid) <= SsidRoom => s = ssid
    BY <1>2, CutLength
<1>4. /\ Len(pass) \in Nat /\ Len(p) = IF Len(pass) < PassRoom THEN Len(pass) ELSE PassRoom
      /\ Len(pass) <= PassRoom => p = pass
      /\ p = << >> <=> Len(p) = 0
    BY <1>2, CutLength
<1>5. pass = << >> <=> Len(pass) = 0
    BY EmptySeq
<1> HIDE DEF s, p
<1>6. Len(s) \in 1 .. SsidMax <=> Len(ssid) \in 1 .. SsidMax
    BY <1>1, <1>2, <1>3
<1>7. Len(p) \in PskMin .. PskMax <=> Len(pass) \in PskMin .. PskMax
    BY <1>1, <1>2, <1>4
<1>8. p = << >> <=> pass = << >>
    BY <1>1, <1>2, <1>4, <1>5
<1>9. Acceptable(s, p) <=> Acceptable(ssid, pass)
    BY <1>6, <1>7, <1>8 DEF Acceptable
<1>10. ASSUME Acceptable(ssid, pass) PROVE s = ssid /\ p = pass
    <2>1. Len(ssid) \in 1 .. SsidMax /\ (Len(pass) = 0 \/ Len(pass) \in PskMin .. PskMax)
        BY <1>5, <1>10 DEF Acceptable
    <2>2. Len(ssid) <= SsidRoom /\ Len(pass) <= PassRoom
        BY <1>1, <1>2, <2>1
    <2> QED
        BY <1>3, <1>4, <2>2
<1> QED
    BY <1>9, <1>10 DEF s, p

LEMMA OutcomeOfTyped ==
    ASSUME NEW ssid \in TypedSsids, NEW pass \in TypedPasswords,
           NEW typed, typed = [ssid |-> ssid, pass |-> pass]
    PROVE  /\ Outcome(Body(typed)).code = 200 <=> Acceptable(ssid, pass)
           /\ Outcome(Body(typed)).code = 200 => Outcome(Body(typed)).creds = typed
<1> DEFINE body == Body(typed)
           s == Cut(ssid, SsidRoom)
           p == Cut(pass, PassRoom)
           cut == [ssid |-> s, pass |-> p]
<1>1. SsidRoom \in Nat /\ PassRoom \in Nat
    BY FormAssumption DEF SsidRoom, PassRoom
<1>2. ssid \in Seq(Bytes) /\ Utf8(ssid) /\ pass \in Seq(Bytes) /\ Utf8(pass)
    BY TypedBytes
<1>3. /\ body \in Seq(0 .. 127)
      /\ Values(body, SsidKey) = {Encoded(ssid)}
      /\ Values(body, PassKey) = {Encoded(pass)}
    BY BodyOfTyped
<1> HIDE DEF body
<1>4. UrlDecode(Encoded(ssid), SsidRoom) = s /\ UrlDecode(Encoded(pass), PassRoom) = p
    BY <1>1, <1>2, DecodesEncoded DEF Cut
<1> HIDE DEF s, p
<1>5. Decoded(body, SsidKey, SsidRoom) = {s} /\ Decoded(body, PassKey, PassRoom) = {p}
    BY <1>3, <1>4 DEF Decoded
<1>6. Utf8(body)
    BY <1>3, AsciiIsUtf8
<1>7. /\ Acceptable(s, p) <=> Acceptable(ssid, pass)
      /\ Acceptable(ssid, pass) => s = ssid /\ p = pass
    BY <1>2, CutIsRefused DEF s, p
<1> DEFINE passes == Decoded(body, PassKey, PassRoom)
           queued == {[ssid |-> a, pass |-> b] :
                         a \in Decoded(body, SsidKey, SsidRoom),
                         b \in IF passes = {} THEN {<<>>} ELSE passes}
           good == {c \in queued : Utf8(c.ssid) /\ Utf8(c.pass) /\ Acceptable(c.ssid, c.pass)}
<1>8. queued = {cut}
    BY <1>5
<1>9. Outcome(body) = IF good # {} THEN [code |-> 200, creds |-> CHOOSE c \in good : TRUE]
                      ELSE Refused(400)
    BY <1>6 DEF Outcome
<1>10. CASE Acceptable(ssid, pass)
    <2>1. cut = typed /\ cut.ssid = ssid /\ cut.pass = pass
        BY <1>7, <1>10
    <2>2. good = {typed}
        BY <1>2, <1>8, <1>10, <2>1
    <2> HIDE DEF good
    <2>3. Outcome(body) = [code |-> 200, creds |-> typed]
        BY <1>9, <2>2
    <2> QED
        BY <1>10, <2>3 DEF body
<1>11. CASE ~Acceptable(ssid, pass)
    <2>1. cut.ssid = s /\ cut.pass = p
        OBVIOUS
    <2>2. good = {}
        BY <1>7, <1>8, <1>11, <2>1
    <2> HIDE DEF good
    <2>3. Outcome(body).code = 400
        BY <1>9, <2>2 DEF Refused
    <2> QED
        BY <1>11, <2>3 DEF body
<1> QED
    BY <1>10, <1>11

-----------------------------------------------------------------------------
(* The submission in flight: what was typed, the body made of it, how much of *)
(* it has been read, and the answer once all of it has.                       *)
SaveOK ==
    save # NoSave =>
        /\ save = [at |-> save.at, typed |-> save.typed, body |-> save.body,
                   filled |-> save.filled, code |-> save.code, creds |-> save.creds]
        /\ save.at \in {"read", "answer"}
        /\ \E ssid \in TypedSsids, pass \in TypedPasswords :
               save.typed = [ssid |-> ssid, pass |-> pass]
        /\ save.body = Body(save.typed)
        /\ save.filled \in 0 .. Len(save.body)
        /\ (save.at = "answer" /\ save.filled = Len(save.body)) =>
               /\ save.code = Outcome(save.body).code
               /\ save.creds = Outcome(save.body).creds

LEMMA TakeSaveInv == ASSUME SaveOK, SaveStart PROVE SaveOK'
<1>1. PICK ssid \in TypedSsids, pass \in TypedPasswords :
          save' = [at |-> "read", typed |-> [ssid |-> ssid, pass |-> pass],
                   body |-> Body([ssid |-> ssid, pass |-> pass]), filled |-> 0,
                   code |-> 0, creds |-> Refused(0).creds]
    BY Zenon DEF SaveStart
<1>2. PICK body \in Seq(0 .. 127) : body = Body([ssid |-> ssid, pass |-> pass])
    BY BodyOfTyped
<1>3. 0 \in 0 .. Len(body)
    BY ElementsOf
<1> QED
    BY <1>1, <1>2, <1>3 DEF SaveOK

LEMMA SaveReadInv == ASSUME SaveOK, SaveRead PROVE SaveOK'
<1>1. PICK n \in ReadSizes :
          /\ save.filled + n <= Len(save.body)
          /\ save' = [save EXCEPT !.filled = @ + n]
    BY DEF SaveRead
<1>2. save.at = "read" /\ save # NoSave
    BY DEF SaveRead, NoSave
<1>3. save.filled \in 0 .. Len(save.body)
    BY <1>2 DEF SaveOK
<1>4. PICK filled \in 0 .. Len(save.body) : filled = save.filled + n
    <2>1. n \in Nat
        BY <1>1, FormAssumption
    <2>2. PICK len : len = Len(save.body)
        OBVIOUS
    <2>3. save.filled \in 0 .. len /\ save.filled + n <= len
        BY <1>1, <1>3, <2>2
    <2>4. save.filled + n \in 0 .. len
        BY <2>1, <2>3
    <2> QED
        BY <2>2, <2>4
<1>5. save' = [save EXCEPT !.filled = filled]
    BY <1>1, <1>4
<1> QED
    BY <1>2, <1>4, <1>5 DEF SaveOK

LEMMA SaveEndInv == ASSUME SaveOK, SaveEnd PROVE SaveOK'
<1>1. save.at = "read" /\ save # NoSave
    BY DEF SaveEnd, NoSave
<1>2. PICK outcome : /\ outcome = Outcome(SubSeq(save.body, 1, save.filled))
                     /\ save' = [save EXCEPT !.at = "answer", !.code = outcome.code,
                                             !.creds = outcome.creds]
    BY Zenon DEF SaveEnd, Answers
<1>3. save.body \in Seq(0 .. 127)
    BY <1>1, BodyOfTyped DEF SaveOK
<1>4. save.filled = Len(save.body) => outcome = Outcome(save.body)
    BY <1>2, <1>3, SubSeqFull
<1> QED
    BY <1>1, <1>2, <1>4 DEF SaveOK

LEMMA SaveOverflowsInv == ASSUME SaveOK, SaveOverflows PROVE SaveOK'
<1>1. save.at = "read" /\ save # NoSave /\ save.filled # Len(save.body)
    <2>1. save.at = "read" /\ save # NoSave
        BY DEF SaveOverflows, NoSave
    <2>2. save.body \in Seq(0 .. 127)
        BY <2>1, BodyOfTyped DEF SaveOK
    <2>3. Len(save.body) \in Nat
        BY <2>2, LenProperties
    <2>4. save.filled = BodyMax /\ Len(save.body) > BodyMax /\ BodyMax \in Nat
        BY FormAssumption DEF SaveOverflows
    <2> QED
        BY <2>1, <2>3, <2>4
<1>2. PICK outcome :
          save' = [save EXCEPT !.at = "answer", !.code = outcome.code, !.creds = outcome.creds]
    BY Zenon DEF SaveOverflows, Answers
<1> QED
    BY <1>1, <1>2 DEF SaveOK

LEMMA NextSave == ASSUME SaveOK, [HttpNext]_hvars PROVE SaveOK'
<1>1. ASSUME save' = NoSave PROVE SaveOK'
    BY <1>1 DEF SaveOK, NoSave
<1>2. ASSUME UNCHANGED save PROVE SaveOK'
    BY <1>2 DEF SaveOK
<1>3. CASE Submitting
    <2>1. CASE SaveStart
        BY <2>1, TakeSaveInv
    <2>2. CASE SaveRead
        BY <2>2, SaveReadInv
    <2>3. CASE SaveEnd
        BY <2>3, SaveEndInv
    <2>4. CASE SaveOverflows
        BY <2>4, SaveOverflowsInv
    <2>5. CASE SaveFails \/ SaveAnswer
        BY <1>1, <2>5 DEF SaveFails, SaveAnswer
    <2> QED
        BY <1>3, <2>1, <2>2, <2>3, <2>4, <2>5 DEF Submitting, TakeSave, SaveGoesOn
<1>4. CASE Reboot
    BY <1>1, <1>4 DEF Reboot
<1>5. CASE Uploading \/ StopServer \/ ServerStopped \/ DnsJoined \/ DnsRuns \/ UNCHANGED hvars
    BY <1>2, <1>5 DEF Uploading, StopServer, ServerStopped, DnsJoined, DnsRuns, hvars
<1> QED
    BY <1>3, <1>4, <1>5 DEF HttpNext

(* However a body comes in, in whatever pieces, one that is read whole is     *)
(* accepted when the radio takes what was typed, and what is queued is that   *)
(* to the last byte (captive_api.rs:65).                                      *)
THEOREM SavesWhatWasTyped == HttpSpec => []SavedIsWhatWasTyped
<1>1. HttpInit => SaveOK
    BY DEF HttpInit, SaveOK
<1>2. SaveOK /\ [HttpNext]_hvars => SaveOK'
    BY NextSave
<1>3. SaveOK => SavedIsWhatWasTyped
    <2> SUFFICES ASSUME SaveOK, save # NoSave, save.at = "answer",
                        save.filled = Len(save.body)
                 PROVE  /\ save.code = 200 <=> Acceptable(save.typed.ssid, save.typed.pass)
                        /\ save.code = 200 => save.creds = save.typed
        BY DEF SavedIsWhatWasTyped
    <2>1. PICK ssid \in TypedSsids, pass \in TypedPasswords :
              save.typed = [ssid |-> ssid, pass |-> pass]
        BY DEF SaveOK
    <2>2. /\ save.code = Outcome(Body(save.typed)).code
          /\ save.creds = Outcome(Body(save.typed)).creds
        BY DEF SaveOK
    <2>3. /\ Outcome(Body(save.typed)).code = 200 <=> Acceptable(ssid, pass)
          /\ Outcome(Body(save.typed)).code = 200 =>
                 Outcome(Body(save.typed)).creds = save.typed
        BY <2>1, OutcomeOfTyped
    <2>4. save.typed.ssid = ssid /\ save.typed.pass = pass
        BY <2>1
    <2> QED
        BY <2>2, <2>3, <2>4
<1> QED
    BY <1>1, <1>2, <1>3, PTL DEF HttpSpec
-----------------------------------------------------------------------------
(***************************************************************************)
(* The DNS responder, for every packet of bytes.                           *)
(***************************************************************************)

(* The labels of a name: each place is the one before it, past the length and *)
(* as many bytes as it says, and the last holds the zero that ends the name.  *)
Labels(req, at, h, k) ==
    /\ h \in [0 .. k -> Nat] /\ h[0] = at
    /\ \A i \in 0 .. k : h[i] < Len(req)
    /\ \A i \in 1 .. k : /\ ByteAt(req, h[i - 1]) # 0
                         /\ h[i] = h[i - 1] + ByteAt(req, h[i - 1]) + 1
    /\ ByteAt(req, h[k]) = 0

(* A question from there ends here: a name, a type and a class, all of it in  *)
(* the packet.                                                                *)
Asked(req, at, end) ==
    /\ \E k \in Nat : \E h : Labels(req, at, h, k) /\ end = h[k] + 1 + TailLen
    /\ end <= Len(req)

(* One place of the walk, given what comes of the places after it. *)
WalkAt(req, f, at) ==
    IF at = Len(req) THEN {}
    ELSE IF ByteAt(req, at) = 0 THEN {e \in {at + 1 + TailLen} : e <= Len(req)}
    ELSE IF at + ByteAt(req, at) + 1 >= Len(req) THEN {}
    ELSE f[at + ByteAt(req, at) + 1]

LEMMA ByteInPacket ==
    ASSUME NEW req \in Seq(Bytes), NEW at \in Nat, at < Len(req)
    PROVE  ByteAt(req, at) \in Nat
<1>1. Len(req) \in Nat /\ \A i \in 1 .. Len(req) : req[i] \in Bytes
    BY ElementsOf
<1>2. at + 1 \in 1 .. Len(req)
    BY <1>1
<1>3. req[at + 1] \in Bytes
    BY <1>1, <1>2
<1>4. \A b \in Bytes : b \in Nat
    BY DEF Bytes
<1> QED
    BY <1>3, <1>4 DEF ByteAt

(* The walk only goes on, so it is defined from every place. *)
LEMMA WalkExists ==
    ASSUME NEW req \in Seq(Bytes), NEW n \in Nat, n = Len(req)
    PROVE  \E f : f = [at \in 0 .. n |-> WalkAt(req, f, at)]
<1> DEFINE P(f, m) == f = [at \in n - m .. n |-> WalkAt(req, f, at)]
           S == {m \in Nat : m <= n => \E f : P(f, m)}
<1>1. 0 \in S
    <2> DEFINE f == [at \in n - 0 .. n |-> {}]
    <2>1. \A at \in n - 0 .. n : at = Len(req)
        OBVIOUS
    <2>2. \A at \in n - 0 .. n : WalkAt(req, f, at) = {}
        BY <2>1 DEF WalkAt
    <2>3. P(f, 0)
        BY <2>2
    <2> QED
        BY <2>3
<1>2. ASSUME NEW m \in Nat, m \in S PROVE m + 1 \in S
    <2> SUFFICES ASSUME m + 1 <= n PROVE \E f : P(f, m + 1)
        OBVIOUS
    <2>1. PICK f : P(f, m)
        BY <1>2
    <2> DEFINE a == n - m
               g == [at \in n - (m + 1) .. n |->
                        IF at = a - 1 THEN WalkAt(req, f, a - 1) ELSE f[at]]
    <2>2. /\ a \in 1 .. n /\ n - (m + 1) = a - 1 /\ a - 1 \in Nat
          /\ n - (m + 1) .. n = {a - 1} \cup (a .. n)
        OBVIOUS
    <2>3. \A at \in a .. n : g[at] = f[at] /\ f[at] = WalkAt(req, f, at)
        BY <2>1, <2>2
    <2>4. g[a - 1] = WalkAt(req, f, a - 1)
        BY <2>2
    <2> HIDE DEF g
    <2>5. ASSUME NEW at \in {a - 1} \cup (a .. n)
          PROVE  WalkAt(req, g, at) = WalkAt(req, f, at)
        <3>1. CASE at = Len(req)
            BY <3>1 DEF WalkAt
        <3>2. CASE at # Len(req)
            <4>1. at \in Nat /\ at < Len(req) /\ at >= a - 1
                BY <2>2, <3>2
            <4>2. PICK b \in Nat : b = ByteAt(req, at)
                BY <4>1, ByteInPacket
            <4>3. ~(at + b + 1 >= Len(req)) => g[at + b + 1] = f[at + b + 1]
                <5>1. ~(at + b + 1 >= Len(req)) => at + b + 1 \in a .. n
                    BY <2>2, <4>1
                <5> QED
                    BY <2>3, <5>1
            <4> QED
                BY <4>2, <4>3, Zenon DEF WalkAt
        <3> QED
            BY <3>1, <3>2
    <2>6. \A at \in {a - 1} \cup (a .. n) : g[at] = WalkAt(req, g, at)
        BY <2>2, <2>3, <2>4, <2>5
    <2>7. P(g, m + 1)
        BY <2>2, <2>6 DEF g
    <2> QED
        BY <2>7
<1> HIDE DEF S
<1>3. n \in S
    BY <1>1, <1>2, SetInduction
<1>4. n - n = 0 /\ n <= n
    OBVIOUS
<1> QED
    BY <1>3, <1>4 DEF S

LEMMA WalkUnfolds ==
    ASSUME NEW req \in Seq(Bytes), NEW n \in Nat, n = Len(req)
    PROVE  \E W : /\ \A at \in 0 .. n : W[at] = WalkAt(req, W, at)
                  /\ QuestionEnd(req) = IF Len(req) < HeaderLen THEN {} ELSE W[HeaderLen]
<1> DEFINE P(f) == f = [at \in 0 .. Len(req) |-> WalkAt(req, f, at)]
           W == CHOOSE f : P(f)
<1>1. \E f : P(f)
    BY WalkExists
<1>2. QuestionEnd(req) = IF Len(req) < HeaderLen THEN {} ELSE W[HeaderLen]
    BY DEF QuestionEnd, WalkAt
<1> HIDE DEF P
<1>3. P(W)
    BY <1>1
<1> HIDE DEF W
<1>4. \A at \in 0 .. n : W[at] = WalkAt(req, W, at)
    BY <1>3 DEF P
<1> QED
    BY <1>2, <1>4

(* A label more in front. *)
LEMMA LabelBefore ==
    ASSUME NEW req \in Seq(Bytes), NEW at \in Nat, at < Len(req), ByteAt(req, at) # 0,
           NEW next \in Nat, next = at + ByteAt(req, at) + 1, next < Len(req),
           NEW end, Asked(req, next, end)
    PROVE  Asked(req, at, end)
<1>1. PICK k \in Nat : \E h : Labels(req, next, h, k) /\ end = h[k] + 1 + TailLen
    BY DEF Asked
<1>2. PICK h : Labels(req, next, h, k) /\ end = h[k] + 1 + TailLen
    BY <1>1
<1> DEFINE g == [i \in 0 .. k + 1 |-> IF i = 0 THEN at ELSE h[i - 1]]
<1>3. /\ h \in [0 .. k -> Nat] /\ h[0] = next /\ ByteAt(req, h[k]) = 0
      /\ \A i \in 0 .. k : h[i] < Len(req)
      /\ \A i \in 1 .. k : /\ ByteAt(req, h[i - 1]) # 0
                           /\ h[i] = h[i - 1] + ByteAt(req, h[i - 1]) + 1
    BY <1>2 DEF Labels
<1>4. /\ g \in [0 .. k + 1 -> Nat] /\ g[0] = at
      /\ \A i \in 1 .. k + 1 : g[i] = h[i - 1]
    <2>1. \A i \in 0 .. k + 1 : i # 0 => i - 1 \in 0 .. k
        OBVIOUS
    <2> QED
        BY <1>3, <2>1
<1> HIDE DEF g
<1>5. g[k + 1] = h[k]
    <2>1. k + 1 \in 1 .. k + 1 /\ (k + 1) - 1 = k
        OBVIOUS
    <2> QED
        BY <1>4, <2>1
<1>6. ASSUME NEW i \in 1 .. k + 1
      PROVE  /\ ByteAt(req, g[i - 1]) # 0
             /\ g[i] = g[i - 1] + ByteAt(req, g[i - 1]) + 1
    <2>1. CASE i = 1
        <3>1. i - 1 = 0 /\ g[i] = h[0]
            BY <1>4, <2>1
        <3> QED
            BY <1>3, <1>4, <3>1
    <2>2. CASE i # 1
        <3>1. PICK j \in 1 .. k : j = i - 1
            BY <2>2
        <3>2. g[i] = h[j]
            BY <1>4, <3>1
        <3>3. g[i - 1] = h[j - 1]
            <4>1. j \in 1 .. k + 1
                OBVIOUS
            <4> QED
                BY <1>4, <3>1, <4>1
        <3> QED
            BY <1>3, <3>2, <3>3
    <2> QED
        BY <2>1, <2>2
<1>7. ASSUME NEW i \in 0 .. k + 1 PROVE g[i] < Len(req)
    <2>1. i = 0 \/ (i \in 1 .. k + 1 /\ i - 1 \in 0 .. k)
        OBVIOUS
    <2> QED
        BY <1>3, <1>4, <2>1
<1>8. Labels(req, at, g, k + 1)
    BY <1>3, <1>4, <1>5, <1>6, <1>7 DEF Labels
<1>9. end = g[k + 1] + 1 + TailLen /\ k + 1 \in Nat /\ end <= Len(req)
    BY <1>2, <1>5 DEF Asked
<1> QED
    BY <1>8, <1>9 DEF Asked

(* A label less: the same question from the place the first label leads to. *)
LEMMA LabelAfter ==
    ASSUME NEW req \in Seq(Bytes), NEW at \in Nat, NEW end, Asked(req, at, end)
    PROVE  /\ at < Len(req)
           /\ \/ ByteAt(req, at) = 0 /\ end = at + 1 + TailLen
              \/ /\ ByteAt(req, at) # 0
                 /\ at + ByteAt(req, at) + 1 < Len(req)
                 /\ Asked(req, at + ByteAt(req, at) + 1, end)
<1>1. PICK k \in Nat : \E h : Labels(req, at, h, k) /\ end = h[k] + 1 + TailLen
    BY DEF Asked
<1>2. PICK h : Labels(req, at, h, k) /\ end = h[k] + 1 + TailLen
    BY <1>1
<1>3. /\ h \in [0 .. k -> Nat] /\ h[0] = at /\ ByteAt(req, h[k]) = 0
      /\ \A i \in 0 .. k : h[i] < Len(req)
      /\ \A i \in 1 .. k : /\ ByteAt(req, h[i - 1]) # 0
                           /\ h[i] = h[i - 1] + ByteAt(req, h[i - 1]) + 1
    BY <1>2 DEF Labels
<1>4. CASE k = 0
    BY <1>2, <1>3, <1>4
<1>5. CASE k # 0
    <2>1. 1 \in 1 .. k /\ 1 - 1 = 0 /\ k - 1 \in Nat /\ Len(req) \in Nat
        BY <1>5, LenProperties
    <2>2. PICK next \in Nat : next = h[1]
        <3>1. 1 \in 0 .. k
            BY <2>1
        <3> QED
            BY <1>3, <3>1
    <2>3. ByteAt(req, at) # 0 /\ next = at + ByteAt(req, at) + 1 /\ next < Len(req)
        <3>1. 1 \in 0 .. k
            BY <2>1
        <3>2. ByteAt(req, h[0]) # 0 /\ h[1] = h[0] + ByteAt(req, h[0]) + 1
            BY <1>3, <2>1
        <3> QED
            BY <1>3, <2>2, <3>1, <3>2
    <2>4. at < Len(req)
        <3>1. 0 \in 0 .. k
            OBVIOUS
        <3> QED
            BY <1>3, <3>1
    <2> DEFINE g == [i \in 0 .. k - 1 |-> h[i + 1]]
    <2>5. /\ g \in [0 .. k - 1 -> Nat] /\ g[0] = next /\ g[k - 1] = h[k]
          /\ \A i \in 0 .. k - 1 : g[i] = h[i + 1]
        <3>1. \A i \in 0 .. k - 1 : i + 1 \in 0 .. k
            BY <2>1
        <3>2. 0 \in 0 .. k - 1 /\ k - 1 \in 0 .. k - 1 /\ (k - 1) + 1 = k /\ 0 + 1 = 1
            BY <2>1
        <3> QED
            BY <1>3, <2>2, <3>1, <3>2
    <2> HIDE DEF g
    <2>6. ASSUME NEW i \in 1 .. k - 1
          PROVE  /\ ByteAt(req, g[i - 1]) # 0
                 /\ g[i] = g[i - 1] + ByteAt(req, g[i - 1]) + 1
        <3>1. i \in 0 .. k - 1 /\ i - 1 \in 0 .. k - 1 /\ (i - 1) + 1 = i
            BY <2>1
        <3>2. g[i] = h[i + 1] /\ g[i - 1] = h[i]
            BY <2>5, <3>1
        <3>3. PICK j \in 1 .. k : j = i + 1 /\ j - 1 = i
            BY <2>1
        <3> QED
            BY <1>3, <3>2, <3>3
    <2>7. ASSUME NEW i \in 0 .. k - 1 PROVE g[i] < Len(req)
        <3>1. i + 1 \in 0 .. k
            BY <2>1
        <3> QED
            BY <1>3, <2>5, <3>1
    <2>8. Labels(req, next, g, k - 1)
        BY <1>3, <2>5, <2>6, <2>7 DEF Labels
    <2>9. end = g[k - 1] + 1 + TailLen /\ end <= Len(req)
        BY <1>2, <2>5 DEF Asked
    <2>10. Asked(req, next, end)
        BY <2>1, <2>8, <2>9 DEF Asked
    <2> QED
        BY <2>3, <2>4, <2>10
<1> QED
    BY <1>4, <1>5

(* `parse_question_end` returns an end exactly when a whole question is there. *)
THEOREM QuestionFound ==
    ASSUME NEW req \in Seq(Bytes)
    PROVE  \A end : end \in QuestionEnd(req) <=> Asked(req, HeaderLen, end)
<1>1. PICK n \in Nat : n = Len(req)
    BY LenProperties
<1>2. PICK W : /\ \A at \in 0 .. n : W[at] = WalkAt(req, W, at)
               /\ QuestionEnd(req) = IF Len(req) < HeaderLen THEN {} ELSE W[HeaderLen]
    BY <1>1, WalkUnfolds
<1> DEFINE Q(at) == \A end : end \in W[at] <=> Asked(req, at, end)
           S == {m \in Nat : \A at \in n - m .. n : at \in Nat => Q(at)}
<1>3. ASSUME NEW at \in 0 .. n, \A next \in at + 1 .. n : Q(next) PROVE Q(at)
    <2>1. W[at] = WalkAt(req, W, at) /\ at \in Nat
        BY <1>2
    <2>2. CASE at = n
        <3>1. W[at] = {}
            BY <1>1, <2>1, <2>2 DEF WalkAt
        <3>2. \A end : ~Asked(req, at, end)
            BY <1>1, <2>1, <2>2, LabelAfter
        <3> QED
            BY <3>1, <3>2
    <2>3. CASE at # n
        <3>1. at < Len(req) /\ at # Len(req)
            BY <1>1, <2>3
        <3>2. PICK b \in Nat : b = ByteAt(req, at)
            BY <2>1, <3>1, ByteInPacket
        <3>3. PICK next \in Nat : next = at + b + 1
            BY <2>1
        <3>4. CASE b = 0
            <4>1. W[at] = {e \in {at + 1 + TailLen} : e <= Len(req)}
                BY <2>1, <3>1, <3>2, <3>4 DEF WalkAt
            <4>2. ASSUME NEW end, Asked(req, at, end) PROVE end \in W[at]
                <5>1. end = at + 1 + TailLen
                    BY <2>1, <3>2, <3>4, <4>2, LabelAfter
                <5>2. end <= Len(req)
                    BY <4>2 DEF Asked
                <5> QED
                    BY <4>1, <5>1, <5>2
            <4>3. ASSUME NEW end, end \in W[at] PROVE Asked(req, at, end)
                <5>1. end = at + 1 + TailLen /\ end <= Len(req)
                    BY <4>1, <4>3
                <5> DEFINE h == [i \in 0 .. 0 |-> at]
                <5>2. h \in [0 .. 0 -> Nat] /\ h[0] = at /\ \A i \in 1 .. 0 : FALSE
                    BY <2>1
                <5> HIDE DEF h
                <5>3. Labels(req, at, h, 0)
                    <6>1. \A i \in 0 .. 0 : h[i] < Len(req)
                        BY <3>1, <5>2
                    <6>2. ByteAt(req, h[0]) = 0
                        BY <3>2, <3>4, <5>2
                    <6> QED
                        BY <5>2, <6>1, <6>2 DEF Labels
                <5>4. 0 \in Nat /\ end = h[0] + 1 + TailLen
                    BY <5>1, <5>2
                <5> QED
                    BY <5>1, <5>3, <5>4 DEF Asked
            <4> QED
                BY <4>2, <4>3
        <3>5. CASE b # 0 /\ next >= Len(req)
            <4>1. W[at] = {}
                BY <2>1, <3>1, <3>2, <3>3, <3>5 DEF WalkAt
            <4>2. ASSUME NEW end, Asked(req, at, end) PROVE FALSE
                <5>1. next < Len(req)
                    BY <2>1, <3>2, <3>3, <3>5, <4>2, LabelAfter
                <5> QED
                    BY <1>1, <3>5, <5>1
            <4> QED
                BY <4>1, <4>2
        <3>6. CASE b # 0 /\ ~(next >= Len(req))
            <4>1. W[at] = W[next]
                BY <2>1, <3>1, <3>2, <3>3, <3>6 DEF WalkAt
            <4>2. next \in at + 1 .. n /\ next < Len(req)
                BY <1>1, <2>1, <3>2, <3>3, <3>6
            <4>3. Q(next)
                BY <1>3, <4>2
            <4>4. ASSUME NEW end PROVE Asked(req, at, end) <=> Asked(req, next, end)
                <5>1. Asked(req, next, end) => Asked(req, at, end)
                    BY <2>1, <3>1, <3>2, <3>3, <3>6, <4>2, LabelBefore
                <5>2. Asked(req, at, end) => Asked(req, next, end)
                    BY <2>1, <3>2, <3>3, <3>6, LabelAfter
                <5> QED
                    BY <5>1, <5>2
            <4> QED
                BY <4>1, <4>3, <4>4
        <3> QED
            BY <3>4, <3>5, <3>6
    <2> QED
        BY <2>2, <2>3
<1> HIDE DEF Q
<1>4. 0 \in S
    <2> SUFFICES ASSUME NEW at \in n - 0 .. n PROVE Q(at)
        OBVIOUS
    <2>1. at \in 0 .. n /\ \A next \in at + 1 .. n : FALSE
        OBVIOUS
    <2> QED
        BY <1>3, <2>1
<1>5. ASSUME NEW m \in Nat, m \in S PROVE m + 1 \in S
    <2> SUFFICES ASSUME NEW at \in n - (m + 1) .. n, at \in Nat PROVE Q(at)
        OBVIOUS
    <2>1. \A next \in at + 1 .. n : next \in n - m .. n /\ next \in Nat
        OBVIOUS
    <2>2. \A next \in at + 1 .. n : Q(next)
        BY <1>5, <2>1
    <2>3. at \in 0 .. n
        OBVIOUS
    <2> QED
        BY <1>3, <2>2, <2>3
<1> HIDE DEF S
<1>6. n \in S
    BY <1>4, <1>5, SetInduction
<1>7. \A at \in 0 .. n : Q(at)
    <2>1. \A at \in 0 .. n : at \in n - n .. n /\ at \in Nat
        OBVIOUS
    <2> QED
        BY <1>6, <2>1 DEF S
<1>8. CASE Len(req) < HeaderLen
    <2>1. \A end : ~Asked(req, HeaderLen, end)
        <3>1. HeaderLen \in Nat /\ ~(HeaderLen < Len(req))
            BY <1>1, <1>8, HeaderAssumption
        <3> QED
            BY <3>1, LabelAfter
    <2> QED
        BY <1>2, <1>8, <2>1
<1>9. CASE ~(Len(req) < HeaderLen)
    <2>1. HeaderLen \in 0 .. n
        BY <1>1, <1>9, HeaderAssumption
    <2> QED
        BY <1>2, <1>7, <1>9, <2>1 DEF Q
<1> QED
    BY <1>8, <1>9

(* The labels only lead on. *)
LEMMA LabelsGoOn ==
    ASSUME NEW req \in Seq(Bytes), NEW at \in Nat, NEW k \in Nat, NEW h,
           Labels(req, at, h, k)
    PROVE  h[k] \in Nat /\ h[k] >= at
<1> DEFINE S == {m \in Nat : m <= k => h[m] >= at}
<1>1. /\ h \in [0 .. k -> Nat] /\ h[0] = at
      /\ \A i \in 0 .. k : h[i] < Len(req)
      /\ \A i \in 1 .. k : h[i] = h[i - 1] + ByteAt(req, h[i - 1]) + 1
    BY DEF Labels
<1>2. 0 \in S
    BY <1>1
<1>3. ASSUME NEW m \in Nat, m \in S PROVE m + 1 \in S
    <2> SUFFICES ASSUME m + 1 <= k PROVE h[m + 1] >= at
        OBVIOUS
    <2>1. m \in 0 .. k /\ m + 1 \in 1 .. k /\ (m + 1) - 1 = m /\ m <= k
        OBVIOUS
    <2>2. PICK a \in Nat : a = h[m] /\ a < Len(req) /\ a >= at
        BY <1>1, <1>3, <2>1
    <2>3. PICK b \in Nat : b = ByteAt(req, a)
        BY <2>2, ByteInPacket
    <2>4. h[m + 1] = a + b + 1
        BY <1>1, <2>1, <2>2, <2>3
    <2> QED
        BY <2>2, <2>4
<1> HIDE DEF S
<1>4. k \in S
    BY <1>2, <1>3, SetInduction
<1> QED
    BY <1>1, <1>4 DEF S

(* Whatever the packet, the question that is echoed lies in it past the       *)
(* header, the type that is looked at lies in the question, and the response, *)
(* with the answer an A query gets, fits the room there is (build_response,   *)
(* dns_packet/mod.rs:13).                                                     *)
THEOREM ResponseFits ==
    ASSUME NEW req \in Seq(Bytes), NEW room \in Nat,
           NEW response \in BuildResponse(req, room)
    PROVE  \E end \in HeaderLen + TailLen + 1 .. Len(req) :
               /\ Asked(req, HeaderLen, end)
               /\ response.question = SubSeq(req, HeaderLen + 1, end)
               /\ response.answers = 1 <=> AsksForA(req, end)
               /\ HeaderLen + Len(response.question) + AnswerLen * response.answers <= room
<1>1. PICK end \in QuestionEnd(req) :
          /\ end + (IF AsksForA(req, end) THEN AnswerLen ELSE 0) <= room
          /\ response = [id |-> SubSeq(req, 1, 2), recursion |-> ByteAt(req, 2) % 2,
                         question |-> SubSeq(req, HeaderLen + 1, end),
                         answers |-> IF AsksForA(req, end) THEN 1 ELSE 0]
    BY DEF BuildResponse
<1>2. Asked(req, HeaderLen, end)
    BY <1>1, QuestionFound
<1>3. HeaderLen \in Nat /\ Len(req) \in Nat /\ TailLen = 4 /\ AnswerLen = 16
    BY HeaderAssumption, LenProperties DEF TailLen, AnswerLen
<1>4. end \in HeaderLen + TailLen + 1 .. Len(req)
    <2>1. end <= Len(req)
        BY <1>2 DEF Asked
    <2>2. PICK k \in Nat : \E h : Labels(req, HeaderLen, h, k) /\ end = h[k] + 1 + TailLen
        BY <1>2 DEF Asked
    <2>3. PICK h : Labels(req, HeaderLen, h, k) /\ end = h[k] + 1 + TailLen
        BY <2>2
    <2>4. h[k] \in Nat /\ h[k] >= HeaderLen
        BY <1>3, <2>3, LabelsGoOn
    <2> QED
        BY <1>3, <2>1, <2>3, <2>4
<1>5. Len(response.question) = end - HeaderLen
    <2>1. \A i \in HeaderLen + 1 .. end : i \in 1 .. Len(req)
        BY <1>3, <1>4
    <2>2. \A i \in 1 .. Len(req) : req[i] \in Bytes
        BY ElementsOf
    <2>3. HeaderLen + 1 \in Int /\ end \in Int
        BY <1>3, <1>4
    <2>4. Len(SubSeq(req, HeaderLen + 1, end))
             = IF HeaderLen + 1 <= end THEN end - (HeaderLen + 1) + 1 ELSE 0
        BY <2>1, <2>2, <2>3, SubSeqProperties
    <2>5. HeaderLen + 1 <= end /\ end - (HeaderLen + 1) + 1 = end - HeaderLen
        BY <1>3, <1>4
    <2> QED
        BY <1>1, <2>4, <2>5
<1>6. response.answers = 1 <=> AsksForA(req, end)
    BY <1>1
<1>7. HeaderLen + Len(response.question) + AnswerLen * response.answers <= room
    <2>1. AnswerLen * response.answers = IF AsksForA(req, end) THEN AnswerLen ELSE 0
        BY <1>1, <1>3
    <2>2. HeaderLen + (end - HeaderLen) = end
        BY <1>3, <1>4
    <2> QED
        BY <1>1, <1>3, <1>4, <1>5, <2>1, <2>2
<1> QED
    BY <1>1, <1>2, <1>4, <1>6, <1>7
=============================================================================
