----------------------------- MODULE DnsPacket -----------------------------
(***************************************************************************)
(* The portal's DNS responder as a function of one packet                  *)
(* (logic/src/dns_packet).  A packet is a sequence of bytes; offsets count *)
(* from 0 as in the code.  A response is the parts it is written in.       *)
(***************************************************************************)
EXTENDS Naturals, SequencesExt

CONSTANT HeaderLen      (* 12 in the protocol *)

ASSUME HeaderAssumption == HeaderLen \in Nat /\ HeaderLen >= 3

ByteAt(req, offset) == req[offset + 1]

(* The type and the class that end a question, the answer of an A query. *)
TailLen == 4
AnswerLen == 16

(* `parse_question_end`: the offset past the question, as a set of at most one. *)
QuestionEnd(req) ==
    LET walk[at \in 0 .. Len(req)] ==
            IF at = Len(req) THEN {}
            ELSE IF ByteAt(req, at) = 0
                 THEN {e \in {at + 1 + TailLen} : e <= Len(req)}
            ELSE IF at + ByteAt(req, at) + 1 >= Len(req) THEN {}
            ELSE walk[at + ByteAt(req, at) + 1]
    IN  IF Len(req) < HeaderLen THEN {} ELSE walk[HeaderLen]

AsksForA(req, end) == ByteAt(req, end - 4) = 0 /\ ByteAt(req, end - 3) = 1

(* `build_response`: what is sent for the packet, at most one response. *)
BuildResponse(req, room) ==
    {[id |-> SubSeq(req, 1, 2), recursion |-> ByteAt(req, 2) % 2,
      question |-> SubSeq(req, HeaderLen + 1, end),
      answers |-> IF AsksForA(req, end) THEN 1 ELSE 0] :
        end \in {e \in QuestionEnd(req) :
                    e + (IF AsksForA(req, e) THEN AnswerLen ELSE 0) <= room}}
=============================================================================
