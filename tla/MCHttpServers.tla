--------------------------- MODULE MCHttpServers ---------------------------
(***************************************************************************)
(* Two images, two DNS threads, and a user whose texts are empty, at and   *)
(* past the limits, with bytes that must be escaped ('&', '+', '%', space) *)
(* and characters of two and three bytes that a limit may cut.             *)
(***************************************************************************)
EXTENDS HttpServers, DnsPacket

MCTypedSsids ==
    {<<>>, <<97, 98>>, <<97, 98, 97>>, <<38, 61>>, <<43, 37>>, <<195, 169>>,
     <<97, 98, 195, 169>>}

MCTypedPasswords ==
    {<<>>, <<97>>, <<32, 38, 43>>, <<97, 195, 169>>, <<226, 130, 172>>, <<97, 98, 97, 98, 97>>}

-----------------------------------------------------------------------------
(* The DNS parser on every packet of a few bytes. *)

SmallPackets == UNION {[1 .. n -> 0 .. 2] : n \in 0 .. (HeaderLen + 6)}

(* A question is its labels, each after its length, a zero, a type and a class. *)
Labels == {<<n>> \o text : <<n, text>> \in
              {<<Len(t), t>> : t \in UNION {[1 .. n -> 0 .. 2] : n \in 1 .. 2}}}
Names == {<<>>} \cup Labels
Questions == {name \o <<0>> \o tail : name \in Names, tail \in [1 .. TailLen -> 0 .. 2]}

(* `parse_question_end` finds the question of a packet that has one, and       *)
(* nothing in any other.                                                       *)
ASSUME QuestionIsFound ==
    \A req \in SmallPackets :
        QuestionEnd(req) =
            {e \in HeaderLen .. Len(req) : SubSeq(req, HeaderLen + 1, e) \in Questions}

(* A response fits its room, echoes the question and answers an A query only. *)
ASSUME ResponseIsRight ==
    \A req \in SmallPackets, room \in {4, HeaderLen + 5, 64} :
        \A response \in BuildResponse(req, room) :
            /\ response.question \in Questions
            /\ response.answers = 1 <=>
                   SubSeq(response.question, Len(response.question) - 3,
                          Len(response.question) - 2) = <<0, 1>>
            /\ HeaderLen + Len(response.question) + AnswerLen * response.answers <= room
=============================================================================
