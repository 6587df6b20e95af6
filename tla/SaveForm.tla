------------------------------ MODULE SaveForm ------------------------------
(***************************************************************************)
(* POST /save, from what the user typed to the pair put into the mailbox   *)
(* (src/captive_api.rs, logic/src/form, logic/src/net/wifi_credentials).   *)
(* A text is a sequence of bytes; the two keys of the form are one byte    *)
(* each.  NetSystem has what becomes of the mailbox and of the status.     *)
(***************************************************************************)
EXTENDS Naturals, SequencesExt

CONSTANTS
    TypedSsids, TypedPasswords,     (* what the user types                 *)
    SsidMax, PskMin, PskMax, PasswordMax,
    BodyMax,                        (* `body_buf`                          *)
    ReadSizes                       (* bound: the bytes one read may bring *)

(* Room for every pair that is acceptable, however it is encoded. *)
ASSUME FormAssumption ==
    /\ {SsidMax, PskMin, PskMax, PasswordMax, BodyMax} \subseteq Nat \ {0}
    /\ ReadSizes \subseteq Nat \ {0}
    /\ PskMin <= PskMax /\ PskMax < PasswordMax
    /\ 5 + 3 * SsidMax + 3 * PskMax <= BodyMax

VARIABLE save   (* the submission in flight: [at, typed, body, filled, code, creds], *)
                (* what the user typed, the body the page made of it, how many bytes *)
                (* have been read, and at last the answer and the pair queued        *)

NoSave == [at |-> "idle"]

Space == 32
Percent == 37
Ampersand == 38
Plus == 43
Equal == 61
Unreserved == 97 .. 122

SsidKey == <<115>>
PassKey == <<112>>

(* External: `encodeURIComponent` in the page. *)
HexDigit(n) == IF n < 10 THEN 48 + n ELSE 55 + n
Escaped(byte) ==
    IF byte \in Unreserved THEN <<byte>>
    ELSE <<Percent, HexDigit(byte \div 16), HexDigit(byte % 16)>>
Encoded(text) == FlattenSeq([i \in DOMAIN text |-> Escaped(text[i])])

Body(typed) ==
    SsidKey \o <<Equal>> \o Encoded(typed.ssid)
        \o <<Ampersand>> \o PassKey \o <<Equal>> \o Encoded(typed.pass)

-----------------------------------------------------------------------------
(* `parse_form`: of the fields of that name the last one counts. *)

FieldStarts(body) == {1} \cup {i + 1 : i \in {j \in DOMAIN body : body[j] = Ampersand}}

FieldAt(body, start) ==
    LET stops == {i \in start .. Len(body) : body[i] = Ampersand} \cup {Len(body) + 1}
    IN  SubSeq(body, start, (CHOOSE i \in stops : \A j \in stops : i <= j) - 1)

Values(body, key) ==
    LET fields == {i \in FieldStarts(body) : IsPrefix(key \o <<Equal>>, FieldAt(body, i))}
    IN  IF fields = {} THEN {}
        ELSE LET field == FieldAt(body, CHOOSE i \in fields : \A j \in fields : j <= i)
             IN  {SubSeq(field, Len(key) + 2, Len(field))}

(* `url_decode` fills a buffer and stops at its end. *)
DigitOf(byte) ==
    CASE byte \in 48 .. 57 -> byte - 48
      [] byte \in 65 .. 70 -> byte - 55
      [] byte \in 97 .. 102 -> byte - 87
      [] OTHER -> 16

IsEscape(text, i) ==
    /\ text[i] = Percent /\ i + 2 <= Len(text)
    /\ DigitOf(text[i + 1]) < 16 /\ DigitOf(text[i + 2]) < 16

UrlDecode(text, room) ==
    LET rest[i \in 1 .. (Len(text) + 1)] ==
            IF i > Len(text) THEN <<>>
            ELSE IF text[i] = Plus THEN <<Space>> \o rest[i + 1]
            ELSE IF IsEscape(text, i)
                 THEN <<DigitOf(text[i + 1]) * 16 + DigitOf(text[i + 2])>> \o rest[i + 3]
            ELSE <<text[i]>> \o rest[i + 1]
        out == rest[1]
    IN  SubSeq(out, 1, IF Len(out) < room THEN Len(out) ELSE room)

(* `from_utf8`: how many bytes the character takes that starts with this one, *)
(* and the range that the second byte of some of them is kept to.             *)
Continuation == 128 .. 191

Width(lead) ==
    CASE lead \in 0 .. 127 -> 1
      [] lead \in 194 .. 223 -> 2
      [] lead \in 224 .. 239 -> 3
      [] lead \in 240 .. 244 -> 4
      [] OTHER -> 0

SecondOf(lead) ==
    CASE lead = 224 -> 160 .. 191
      [] lead = 237 -> 128 .. 159
      [] lead = 240 -> 144 .. 191
      [] lead = 244 -> 128 .. 143
      [] OTHER -> Continuation

(* Every byte starts a character that is all there, or belongs to one. *)
Utf8(text) ==
    \A i \in DOMAIN text :
        IF text[i] \in Continuation
        THEN \E j \in 1 .. 3 : j < i /\ Width(text[i - j]) > j
        ELSE /\ Width(text[i]) \in 1 .. Len(text) + 1 - i
             /\ \A j \in 1 .. Width(text[i]) - 1 : text[i + j] \in Continuation
             /\ Width(text[i]) > 1 => text[i + 1] \in SecondOf(text[i])

(* What is typed are characters, for which the page encodes their bytes. *)
ASSUME TypedAssumption ==
    TypedSsids \cup TypedPasswords \subseteq {text \in Seq(0 .. 255) : Utf8(text)}

(* `WifiCredentials::new` *)
Acceptable(ssid, pass) ==
    /\ Len(ssid) \in 1 .. SsidMax
    /\ pass = <<>> \/ Len(pass) \in PskMin .. PskMax

-----------------------------------------------------------------------------
(* The handler. *)

(* Mutant: the buffer holds what the radio takes and no byte more. *)
SsidRoom_Exact == SsidMax

SsidRoom == SsidMax + 1
PassRoom == PasswordMax + 1

Refused(code) == [code |-> code, creds |-> [ssid |-> <<>>, pass |-> <<>>]]

(* The value of a field as decoded into its buffer, if there is one. *)
Decoded(body, key, room) == {UrlDecode(raw, room) : raw \in Values(body, key)}

(* What the handler makes of the bytes it has read; no password is an empty one. *)
Outcome(body) ==
    LET passes == Decoded(body, PassKey, PassRoom)
        queued == {[ssid |-> ssid, pass |-> pass] :
                      ssid \in Decoded(body, SsidKey, SsidRoom),
                      pass \in IF passes = {} THEN {<<>>} ELSE passes}
        good == {c \in queued : Utf8(c.ssid) /\ Utf8(c.pass) /\ Acceptable(c.ssid, c.pass)}
    IN  IF Utf8(body) /\ good # {} THEN [code |-> 200, creds |-> CHOOSE c \in good : TRUE]
        ELSE Refused(400)

Answers(outcome) ==
    [save EXCEPT !.at = "answer", !.code = outcome.code, !.creds = outcome.creds]

SaveStart ==
    /\ save = NoSave
    /\ \E ssid \in TypedSsids, pass \in TypedPasswords :
        LET typed == [ssid |-> ssid, pass |-> pass]
        IN  save' = [at |-> "read", typed |-> typed, body |-> Body(typed), filled |-> 0,
                     code |-> 0, creds |-> Refused(0).creds]

(* `read_to_buf`: some of the body comes and fits. *)
SaveRead ==
    /\ save.at = "read" /\ save.filled < BodyMax
    /\ \E n \in ReadSizes :
        /\ save.filled + n <= Len(save.body) /\ save.filled + n <= BodyMax
        /\ save' = [save EXCEPT !.filled = @ + n]

(* A read of nothing is the end of the body, or a peer that closed. *)
SaveEnd ==
    /\ save.at = "read"
    /\ \E body \in {SubSeq(save.body, 1, save.filled)} : save' = Answers(Outcome(body))

(* The buffer is full and one more byte comes. *)
SaveOverflows ==
    /\ save.at = "read" /\ save.filled = BodyMax /\ Len(save.body) > BodyMax
    /\ save' = Answers(Refused(413))

(* A read that fails or times out ends the handler with no answer. *)
SaveFails == save.at = "read" /\ save' = NoSave

SaveAnswer == save.at = "answer" /\ save' = NoSave
=============================================================================
