------------------------------- MODULE LlmStream -------------------------------
(***************************************************************************)
(* The LLM proxy of icrv-voice (handleLlmProxy), which a call in progress  *)
(* speaks through: ElevenLabs asks in the words of OpenAI, Anthropic       *)
(* answers in its own, and the worker translates, event by event as they   *)
(* stream in.                                                              *)
(*                                                                         *)
(* A stream is a sequence of data lines, each a piece of text or another   *)
(* event; the network (external) cuts it into chunks wherever it likes,    *)
(* also inside a line.  Every chunk is decoded for itself: the two parts   *)
(* of a line that was cut are skipped.                                     *)
(***************************************************************************)
EXTENDS Integers, Sequences

CONSTANTS MaxPieces  \* bound: pieces of text in an answer

VARIABLES
  stage,   \* where the request is
  stream,  \* the stream flag of the request, which defaults to true
  pieces,  \* pieces of text that Anthropic answers with
  at,      \* the next line: 1..pieces are text, then message_delta and message_stop
  cut,     \* a part of that line has come in a chunk that has ended
  torn,    \* the lines that were cut
  out      \* what ElevenLabs has been sent

vars == <<stage, stream, pieces, at, cut, torn, out>>

(* The number says which piece of text; it is 0 in the others. *)
Outputs == {"role", "text", "finish", "done", "error"} \X (0..MaxPieces)

TypeOK ==
  /\ stage \in {"request", "ask", "answer", "stream", "closed"}
  /\ stream \in BOOLEAN /\ cut \in BOOLEAN
  /\ pieces \in 0..MaxPieces
  /\ at \in 1..(MaxPieces + 3) /\ torn \subseteq 1..(MaxPieces + 2)
  /\ out \in Seq(Outputs)

Init ==
  /\ stage = "request" /\ stream \in BOOLEAN /\ pieces \in 0..MaxPieces
  /\ at = 1 /\ cut = FALSE /\ torn = {} /\ out = <<>>

answer == <<stream, pieces, at, cut, torn>>

(* The shared secret, if there is one, and the body. *)
Accept ==
  /\ stage = "request"
  /\ stage' = "ask"
  /\ UNCHANGED <<answer, out>>

Refuse ==
  /\ stage = "request"
  /\ stage' = "closed" /\ out' = <<<<"error", 0>>>>
  /\ UNCHANGED answer

(* The system prompts and the call's script become one system prompt. *)
AskAnthropic ==
  /\ stage = "ask"
  /\ stage' = IF stream THEN "stream" ELSE "answer"
  /\ out' = IF stream THEN <<<<"role", 0>>>> ELSE out
  /\ UNCHANGED answer

AnthropicFails ==
  /\ stage = "ask"
  /\ stage' = "closed" /\ out' = <<<<"error", 0>>>>
  /\ UNCHANGED answer

(* Without streaming the text comes in one piece. *)
AnswerWhole ==
  /\ stage = "answer"
  /\ stage' = "closed" /\ out' = [i \in 1..pieces |-> <<"text", i>>] \o <<<<"finish", 0>>>>
  /\ UNCHANGED answer

-----------------------------------------------------------------------------
OnlyStops(i) ==  \* mutant: message_delta is not an end
  IF i <= pieces THEN <<<<"text", i>>>>
  ELSE IF i = pieces + 2 THEN <<<<"finish", 0>>, <<"done", 0>>>> ELSE <<>>

(* Both message_delta and message_stop end the answer. *)
Relayed(i) ==
  IF i <= pieces THEN <<<<"text", i>>>> ELSE <<<<"finish", 0>>, <<"done", 0>>>>

(* The rest of a line that was cut does not begin with "data:". *)
Transform(i) == IF i \in torn THEN <<>> ELSE Relayed(i)

NextLine ==
  /\ stage = "stream" /\ at <= pieces + 2
  /\ out' = out \o Transform(at)
  /\ at' = at + 1 /\ cut' = FALSE
  /\ UNCHANGED <<stage, stream, pieces, torn>>

(* A chunk ends inside a line: what has come of it is no JSON. *)
CutLine ==
  /\ stage = "stream" /\ at <= pieces + 2 /\ ~cut
  /\ cut' = TRUE /\ torn' = torn \cup {at}
  /\ UNCHANGED <<stage, stream, pieces, at, out>>

(* Anthropic's stream ends, or breaks off: the error of pipeTo is swallowed. *)
Close ==
  /\ stage = "stream"
  /\ stage' = "closed"
  /\ UNCHANGED <<answer, out>>

Next ==
  \/ Accept \/ Refuse \/ AskAnthropic \/ AnthropicFails \/ AnswerWhole
  \/ NextLine \/ CutLine \/ Close

Spec == Init /\ [][Next]_vars

-----------------------------------------------------------------------------
(* What is spoken is what was answered, in its order and each piece once, but for pieces   *)
(* that a chunk cut; and it ends by a finish unless its last two lines were both cut or    *)
(* the stream broke off (icrv-voice/src/index.ts:602-646).                                 *)
SpokenIsAnswered ==
  stream /\ out # <<<<"error", 0>>>> =>
    LET texts  == {i \in DOMAIN out : out[i][1] = "text"}
        passed == (1..(at - 1)) \ torn
    IN /\ \A i, j \in texts : i < j => out[i][2] < out[j][2]
       /\ \A k \in passed : k <= pieces => \E i \in texts : out[i][2] = k
       /\ (\E k \in passed : k > pieces) <=> (\E i \in DOMAIN out : out[i][1] = "finish")
=============================================================================
