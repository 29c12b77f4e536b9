--------------------------- MODULE WebhookDelivery ---------------------------
(***************************************************************************)
(* Customer webhooks: webhooks.ts enqueueWebhook() inserts a delivery and  *)
(* sends its message; webhook-delivery.ts processWebhookEvent() posts it   *)
(* and, unless it is answered, sends it again through the retry queue.     *)
(*                                                                         *)
(* These messages are not deduplicated.  A message whose handler dies is   *)
(* redelivered, then dead-lettered; the dead-letter queue has the same     *)
(* consumer, which finds the type webhook_event and posts it once more.    *)
(* What each handling leaves behind it, the retries it has sent, stays.    *)
(***************************************************************************)
EXTENDS Integers, Sequences, FiniteSets

CONSTANTS Deliveries,   \* webhook_deliveries rows explored
          MaxAttempts,  \* MAX_ATTEMPTS (3)
          Redeliveries, \* max_retries of icrv-webhooks and of icrv-dlq, and the move (3)
          MaxFailures   \* bound: exceptions and lost invocations explored

VARIABLES
  row,      \* webhook_deliveries.status, "none" before the row exists
  at,       \* where each message is
  tries,    \* redeliveries of each message
  posts,    \* POSTs made for each delivery
  answered, \* deliveries that the endpoint has answered with a 2xx
  failures

vars == <<row, at, tries, posts, answered, failures>>

(* A message of d is named by its way from the first, the empty name: the attempt  *)
(* k + 1 that follows from a message has the name of that message and a number     *)
(* that tells it from others that follow from it.  attempt_no is the length.       *)
Names     == UNION {[1..k -> 0..MaxFailures] : k \in 0..(MaxAttempts - 1)}
Messages  == Deliveries \X Names
First(d)  == <<d, <<>>>>
Of(m)     == m[1]
Number(m) == Len(m[2]) + 1

Child(m, i)  == <<Of(m), Append(m[2], i)>>
NewChild(m)  == Child(m, CHOOSE i \in 0..MaxFailures :
                           at[Child(m, i)] = "none" /\ \A j \in 0..(i - 1) : at[Child(m, j)] # "none")
Parent(m)    == <<Of(m), SubSeq(m[2], 1, Len(m[2]) - 1)>>

Handling == {"post", "ok", "refused", "again", "resend"}
Live     == Handling \cup {"queue", "retry"}
Places   == Live \cup {"none", "acked", "dropped"}

TypeOK ==
  /\ row \in [Deliveries -> {"none", "pending", "delivered", "failed", "dlq"}]
  /\ at \in [Messages -> Places]
  /\ tries \in [Messages -> 0..Redeliveries]
  /\ posts \in [Deliveries -> Nat]
  /\ answered \subseteq Deliveries
  /\ failures \in 0..MaxFailures

Init ==
  /\ row = [d \in Deliveries |-> "none"]
  /\ at = [m \in Messages |-> "none"]
  /\ tries = [m \in Messages |-> 0]
  /\ posts = [d \in Deliveries |-> 0]
  /\ answered = {}
  /\ failures = 0

-----------------------------------------------------------------------------
(* The producer, for each active subscription to an event. *)

InsertDelivery(d) ==
  /\ row[d] = "none"
  /\ row' = [row EXCEPT ![d] = "pending"]
  /\ UNCHANGED <<at, tries, posts, answered, failures>>

(* Q_WEBHOOK.send. *)
SendDelivery(d) ==
  /\ row[d] # "none" /\ at[First(d)] = "none"
  /\ at' = [at EXCEPT ![First(d)] = "queue"]
  /\ UNCHANGED <<row, tries, posts, answered, failures>>

(* The send throws, or the route's invocation dies before it. *)
SendDeliveryFails(d) ==
  /\ row[d] # "none" /\ at[First(d)] = "none"
  /\ failures < MaxFailures
  /\ failures' = failures + 1
  /\ at' = [at EXCEPT ![First(d)] = "dropped"]
  /\ UNCHANGED <<row, tries, posts, answered>>

-----------------------------------------------------------------------------
(* The consumer. *)

Goto(m, p) == at' = [at EXCEPT ![m] = p]

(* A handler starts; its first await, which counts the attempt in the row, changes *)
(* nothing modelled here.                                                          *)
Deliver(m) ==
  /\ at[m] = "queue"
  /\ Goto(m, "post")
  /\ UNCHANGED <<row, tries, posts, answered, failures>>

Post(m) ==
  /\ at[m] = "post"
  /\ posts' = [posts EXCEPT ![Of(m)] = @ + 1]
  /\ \/ Goto(m, "ok") /\ answered' = answered \cup {Of(m)}
     \/ Goto(m, "refused") /\ UNCHANGED answered  \* 4xx but 408 and 429
     \/ Goto(m, "again") /\ UNCHANGED answered    \* any other status, error or timeout
  /\ UNCHANGED <<row, tries, failures>>

Record(m, s) == row' = [row EXCEPT ![Of(m)] = s]

GoesOn(m) ==  \* mutant: no return after markDelivered
  /\ at[m] = "ok"
  /\ Record(m, "delivered")
  /\ Goto(m, "again")
  /\ UNCHANGED <<tries, posts, answered, failures>>

MarkDelivered(m) ==
  /\ at[m] = "ok"
  /\ Record(m, "delivered")
  /\ Goto(m, "acked")
  /\ UNCHANGED <<tries, posts, answered, failures>>

MarkFailed(m) ==
  /\ at[m] = "refused"
  /\ Record(m, "failed")
  /\ Goto(m, "acked")
  /\ UNCHANGED <<tries, posts, answered, failures>>

MarkDeliveredAtLast(m) ==  \* mutant: the wrong status when attempts are used up
  /\ at[m] = "again" /\ Number(m) >= MaxAttempts
  /\ Record(m, "delivered")
  /\ Goto(m, "acked")
  /\ UNCHANGED <<tries, posts, answered, failures>>

AcksAtLast(m) ==  \* mutant: the last attempt leaves the row alone
  /\ at[m] = "again" /\ Number(m) >= MaxAttempts
  /\ Goto(m, "acked")
  /\ UNCHANGED <<row, tries, posts, answered, failures>>

MarkDlq(m) ==
  /\ at[m] = "again" /\ Number(m) >= MaxAttempts
  /\ Record(m, "dlq")
  /\ Goto(m, "acked")
  /\ UNCHANGED <<tries, posts, answered, failures>>

MarkPending(m) ==
  /\ at[m] = "again" /\ Number(m) < MaxAttempts
  /\ Record(m, "pending")
  /\ Goto(m, "resend")
  /\ UNCHANGED <<tries, posts, answered, failures>>

ResendUnacked(m) ==  \* mutant: the message is not acknowledged after its retry is sent
  /\ at[m] = "resend"
  /\ at' = [at EXCEPT ![NewChild(m)] = "retry", ![m] = "queue"]
  /\ UNCHANGED <<row, tries, posts, answered, failures>>

(* Q_RETRY.send of the payload with the next attempt_no; then ack. *)
Resend(m) ==
  /\ at[m] = "resend"
  /\ at' = [at EXCEPT ![NewChild(m)] = "retry", ![m] = "acked"]
  /\ UNCHANGED <<row, tries, posts, answered, failures>>

(* processRetry, once the delay has passed: it sends the payload back. *)
ProcessRetry(m) ==
  /\ at[m] = "retry"
  /\ Goto(m, "queue")
  /\ UNCHANGED <<row, tries, posts, answered, failures>>

(* It dies after that: the retry message is delivered again, and sends another.    *)
ProcessRetryFails(m) ==
  /\ at[m] = "retry"
  /\ failures < MaxFailures
  /\ failures' = failures + 1
  /\ at' = [at EXCEPT ![m] = "queue", ![NewChild(Parent(m))] = "retry"]
  /\ UNCHANGED <<row, tries, posts, answered>>

DiesUncounted(m) ==  \* mutant: redelivery does not stop at the limit
  /\ failures < MaxFailures
  /\ failures' = failures + 1
  /\ tries' = [tries EXCEPT ![m] = @ + 1]

(* An await of the handler throws, which is msg.retry(), or its invocation dies.  *)
Dies(m) ==
  /\ failures < MaxFailures
  /\ failures' = failures + 1
  /\ IF tries[m] < Redeliveries
       THEN tries' = [tries EXCEPT ![m] = @ + 1]
       ELSE UNCHANGED tries

Again(m) == IF tries[m] < Redeliveries THEN "queue" ELSE "dropped"

Fails(m) ==
  /\ at[m] \in Handling
  /\ Dies(m)
  /\ Goto(m, Again(m))
  /\ UNCHANGED <<row, posts, answered>>

(* It dies after Q_RETRY.send and before the acknowledgement. *)
ResendFails(m) ==
  /\ at[m] = "resend"
  /\ Dies(m)
  /\ at' = [at EXCEPT ![NewChild(m)] = "retry", ![m] = Again(m)]
  /\ UNCHANGED <<row, posts, answered>>

-----------------------------------------------------------------------------
Handle(m) ==
  \/ Post(m) \/ MarkDelivered(m) \/ MarkFailed(m) \/ MarkDlq(m)
  \/ MarkPending(m) \/ Resend(m)

Consume(m) ==
  \/ Deliver(m) \/ Handle(m) \/ ProcessRetry(m)
  \/ Fails(m) \/ ResendFails(m) \/ ProcessRetryFails(m)

Produce(d) == InsertDelivery(d) \/ SendDelivery(d) \/ SendDeliveryFails(d)

Next == (\E d \in Deliveries : Produce(d)) \/ (\E m \in Messages : Consume(m))

Spec == Init /\ [][Next]_vars

-----------------------------------------------------------------------------
(* Properties. *)

(* webhook_deliveries.status = 'delivered' is true: the endpoint answered a 2xx.  *)
DeliveredWasAnswered == \A d \in Deliveries : row[d] = "delivered" => d \in answered

AtRest(d) == \A m \in Messages : Of(m) = d => at[m] \notin Live

(* The row of a delivery that was answered says so in the end, unless a handler    *)
(* failed: a redelivered or forked attempt may overwrite it.  One failure spoils   *)
(* at most one delivery.                                                           *)
LostAnswersBounded ==
  Cardinality({d \in answered : AtRest(d) /\ row[d] # "delivered"}) <= failures

(* A delivery is left 'pending' without a message only by a failure, and each      *)
(* failure does it to at most one.                                                 *)
StuckPendingBounded ==
  Cardinality({d \in Deliveries : row[d] = "pending" /\ AtRest(d)
                                   /\ at[First(d)] # "none"}) <= failures

(* A failure makes at most one more round of attempts, although redelivered        *)
(* messages are not recognised and retries already sent are not withdrawn.         *)
PostsBounded == \A d \in Deliveries : posts[d] <= MaxAttempts * (1 + failures)
=============================================================================
