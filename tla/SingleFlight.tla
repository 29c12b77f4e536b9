---------------------------- MODULE SingleFlight ----------------------------
(***************************************************************************)
(* What a single-flight service promises its callers: a call is answered   *)
(* at once, or takes off a flight of its name, or shares the one that is   *)
(* in the air; and all that share a flight get its one answer together.    *)
(* OAuthRotator implements it (oauth-rotator.ts:3, "concurrent callers get *)
(* the same in-memory promise").                                           *)
(***************************************************************************)
CONSTANTS Callers, Names, Answers, NoAnswer

VARIABLES
  flight,  \* the callers that share the flight of each name
  answer   \* the answer to each caller's last call

vars == <<flight, answer>>

Init ==
  /\ flight = [n \in Names |-> {}]
  /\ answer = [c \in Callers |-> NoAnswer]

Waiting(c) == \E n \in Names : c \in flight[n]

Call(c) ==
  /\ ~Waiting(c)
  /\ answer' = [answer EXCEPT ![c] = NoAnswer]
  /\ UNCHANGED flight

AnswerAtOnce(c) ==
  /\ ~Waiting(c)
  /\ \E r \in Answers : answer' = [answer EXCEPT ![c] = r]
  /\ UNCHANGED flight

TakeOffOrBoard(c, n) ==
  /\ ~Waiting(c)
  /\ flight' = [flight EXCEPT ![n] = @ \cup {c}]
  /\ UNCHANGED answer

Land(n) ==
  /\ \E r \in Answers :
       answer' = [c \in Callers |-> IF c \in flight[n] THEN r ELSE answer[c]]
  /\ flight' = [flight EXCEPT ![n] = {}]

Next ==
  \/ \E c \in Callers : \/ Call(c)
                        \/ AnswerAtOnce(c)
                        \/ \E n \in Names : TakeOffOrBoard(c, n)
  \/ \E n \in Names : Land(n)

Spec == Init /\ [][Next]_vars
=============================================================================
