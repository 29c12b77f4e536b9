------------------------------- MODULE Quotes -------------------------------
(***************************************************************************)
(* The quotes of a tenant: quotes.ts create, PUT, DELETE, /status and      *)
(* /send.  Each handler reads the quote, decides, and then updates it      *)
(* without a condition on what it read; any number of requests run at      *)
(* once.  A quote that is sent goes to the WhatsApp queue first and is     *)
(* marked afterwards.  Sent and accepted quotes are events: for each       *)
(* subscription the request makes a delivery, as WebhookDelivery says.     *)
(***************************************************************************)
EXTENDS Integers, Sequences, FiniteSets

CONSTANTS QuoteIds,     \* quotes
          Requests,     \* requests that may be in progress at once
          Deliveries, MaxAttempts, Redeliveries, MaxFailures  \* see WebhookDelivery

ASSUME QuotesAssumption ==
  /\ IsFiniteSet(QuoteIds) /\ IsFiniteSet(Requests) /\ IsFiniteSet(Deliveries)
  /\ MaxAttempts \in Nat \ {0}
  /\ Redeliveries \in Nat
  /\ MaxFailures \in 0..3   \* no message of icrv-retry uses up its max_retries (3)

VARIABLES
  status,    \* quotes.status; "none" before the row exists, "deleted" after
  content,   \* its items and notes: each edit turns the value over
  messages,  \* messages sent to the WhatsApp queue for it
  pc,        \* where each request is
  subject,   \* its quote
  sending,   \* the delivery it has inserted and not sent
  row, at, tries, posts, answered, failures

quoteVars   == <<status, content, messages>>
requestVars == <<pc, subject, sending>>
webhookVars == <<row, at, tries, posts, answered, failures>>
vars        == <<quoteVars, requestVars, webhookVars>>

Webhooks == INSTANCE WebhookDelivery

Flips == {"accepted", "declined", "expired"}

TypeOK ==
  /\ status \in [QuoteIds -> {"none", "draft", "sent", "deleted"} \cup Flips]
  /\ content \in [QuoteIds -> BOOLEAN]
  /\ messages \in [QuoteIds -> Nat]
  /\ pc \in [Requests -> {"idle", "edit", "delete", "flip", "enqueue", "mark",
                          "fetch", "events"}]
  /\ subject \in [Requests -> QuoteIds]
  /\ sending \in [Requests -> SUBSET Deliveries]
  /\ Webhooks!TypeOK

Init ==
  /\ status = [q \in QuoteIds |-> "none"]
  /\ content = [q \in QuoteIds |-> TRUE]
  /\ messages = [q \in QuoteIds |-> 0]
  /\ pc = [r \in Requests |-> "idle"]
  /\ subject \in {[r \in Requests |-> q] : q \in QuoteIds}
  /\ sending = [r \in Requests |-> {}]
  /\ Webhooks!Init

-----------------------------------------------------------------------------
Exists(q) == status[q] \notin {"none", "deleted"}

Goto(r, p) == pc' = [pc EXCEPT ![r] = p]

(* A handler begins: it has fetched q. *)
Begin(r, q, p) ==
  /\ pc[r] = "idle"
  /\ Goto(r, p)
  /\ subject' = [subject EXCEPT ![r] = q]
  /\ UNCHANGED <<quoteVars, sending, webhookVars>>

(* UPDATE quotes SET status: no row is updated if the quote is gone. *)
SetStatus(q, s) == status' = IF Exists(q) THEN [status EXCEPT ![q] = s] ELSE status

(* POST / : the insertion succeeds, its number was free.  If it was taken, the     *)
(* unique index refuses the row and nothing is changed.                            *)
Create(q) ==
  /\ status[q] = "none"
  /\ status' = [status EXCEPT ![q] = "draft"]
  /\ UNCHANGED <<content, messages, requestVars, webhookVars>>

UnlessDeclined(q) == Exists(q) /\ status[q] # "declined"  \* mutant: wrong status test
IsDraft(q) == status[q] = "draft"

(* PUT /:id *)
EditRead(r, q) == IsDraft(q) /\ Begin(r, q, "edit")

EditWrite(r) ==
  /\ pc[r] = "edit"
  /\ content' = IF Exists(subject[r]) THEN [content EXCEPT ![subject[r]] = ~@] ELSE content
  /\ Goto(r, "idle")
  /\ UNCHANGED <<status, messages, subject, sending, webhookVars>>

(* DELETE /:id *)
DeleteRead(r, q) == IsDraft(q) /\ Begin(r, q, "delete")

DeleteWrite(r) ==
  /\ pc[r] = "delete"
  /\ SetStatus(subject[r], "deleted")
  /\ Goto(r, "idle")
  /\ UNCHANGED <<content, messages, subject, sending, webhookVars>>

(* POST /:id/status: from any status, a draft's included. *)
FlipRead(r, q) == Exists(q) /\ Begin(r, q, "flip")

FlipWrite(r) ==
  /\ pc[r] = "flip"
  /\ \E s \in Flips :
       /\ SetStatus(subject[r], s)
       /\ Goto(r, IF s = "accepted" THEN "fetch" ELSE "idle")
  /\ UNCHANGED <<content, messages, subject, sending, webhookVars>>

(* POST /:id/send *)
SendRead(r, q) == IsDraft(q) /\ Begin(r, q, "enqueue")

(* The contact has no WhatsApp number, or there is no active credential. *)
SendRefused(r) ==
  /\ pc[r] = "enqueue"
  /\ Goto(r, "idle")
  /\ UNCHANGED <<quoteVars, subject, sending, webhookVars>>

(* The messages row and Q_WA_OUT.send. *)
SendEnqueue(r) ==
  /\ pc[r] = "enqueue"
  /\ messages' = [messages EXCEPT ![subject[r]] = @ + 1]
  /\ Goto(r, "mark")
  /\ UNCHANGED <<status, content, subject, sending, webhookVars>>

SendUnmarked(r) ==  \* mutant: the quote is not marked when it is sent
  /\ pc[r] = "mark"
  /\ Goto(r, "fetch")
  /\ UNCHANGED <<quoteVars, subject, sending, webhookVars>>

SendMark(r) ==
  /\ pc[r] = "mark"
  /\ SetStatus(subject[r], "sent")
  /\ Goto(r, "fetch")
  /\ UNCHANGED <<content, messages, subject, sending, webhookVars>>

(* The event's body is made of the row, read once more; a quote that is gone by    *)
(* then ends the request with an exception.                                        *)
Fetch(r) ==
  /\ pc[r] = "fetch"
  /\ Goto(r, IF Exists(subject[r]) THEN "events" ELSE "idle")
  /\ UNCHANGED <<quoteVars, subject, sending, webhookVars>>

(* For each active subscription. *)
Emit(r, d) ==
  /\ pc[r] = "events" /\ sending[r] = {}
  /\ Webhooks!InsertDelivery(d)
  /\ sending' = [sending EXCEPT ![r] = {d}]
  /\ UNCHANGED <<quoteVars, pc, subject>>

EmitSend(r) ==
  /\ pc[r] = "events"
  /\ \E d \in sending[r] : Webhooks!SendDelivery(d)
  /\ sending' = [sending EXCEPT ![r] = {}]
  /\ UNCHANGED <<quoteVars, pc, subject>>

EmitFails(r) ==
  /\ pc[r] = "events"
  /\ \E d \in sending[r] : Webhooks!SendDeliveryFails(d)
  /\ sending' = [sending EXCEPT ![r] = {}]
  /\ Goto(r, "idle")
  /\ UNCHANGED <<quoteVars, subject>>

(* No subscription is left. *)
EventsDone(r) ==
  /\ pc[r] = "events" /\ sending[r] = {}
  /\ Goto(r, "idle")
  /\ UNCHANGED <<quoteVars, subject, sending, webhookVars>>

(* A request fails at any other await after its first. *)
RequestFails(r) ==
  /\ pc[r] # "idle" /\ sending[r] = {}
  /\ failures < MaxFailures
  /\ failures' = failures + 1
  /\ Goto(r, "idle")
  /\ UNCHANGED <<quoteVars, subject, sending, row, at, tries, posts, answered>>

-----------------------------------------------------------------------------
Start(r, q) == EditRead(r, q) \/ DeleteRead(r, q) \/ FlipRead(r, q) \/ SendRead(r, q)

Continue(r) ==
  \/ EditWrite(r) \/ DeleteWrite(r) \/ FlipWrite(r)
  \/ SendRefused(r) \/ SendEnqueue(r) \/ SendMark(r)
  \/ Fetch(r) \/ (\E d \in Deliveries : Emit(r, d)) \/ EmitSend(r) \/ EventsDone(r)

Deliver ==
  /\ \E m \in Webhooks!Messages : Webhooks!Consume(m)
  /\ UNCHANGED <<quoteVars, requestVars>>

Next ==
  \/ \E q \in QuoteIds : Create(q)
  \/ \E r \in Requests, q \in QuoteIds : Start(r, q)
  \/ \E r \in Requests : Continue(r) \/ EmitFails(r) \/ RequestFails(r)
  \/ Deliver

Spec == Init /\ [][Next]_vars

-----------------------------------------------------------------------------
(* Properties. *)

(* Requests that have read q as a draft and may still write it or message it. *)
Pending(q) == {r \in Requests : subject[r] = q /\ pc[r] \in {"edit", "delete", "enqueue", "mark"}}

Settled(q) == status[q] \notin {"none", "draft"} /\ Pending(q) = {}

KeepsSettled(q) ==
  /\ Settled(q)'
  /\ content'[q] = content[q] /\ messages'[q] = messages[q]
  /\ status'[q] = status[q] \/ (Exists(q) /\ status'[q] \in Flips)

(* Once a quote is sent, accepted, declined, expired or deleted and the requests   *)
(* that read it as a draft are over, it stays so: it is never edited, deleted or   *)
(* messaged again, and its status only changes by /status.                         *)
SettledStays == [][\A q \in QuoteIds : Settled(q) => KeepsSettled(q)]_vars

(* A quote is messaged at most once by each of the requests in progress together,  *)
(* and once more for each request that died before it marked the quote.            *)
MessagesBounded ==
  \A q \in QuoteIds : messages[q] <= Cardinality(Requests) + failures

DeliveredWasAnswered == Webhooks!DeliveredWasAnswered

(* The records of the deliveries that quotes make, with every failure spoiling at  *)
(* most one of them: 'delivered' is true, an answer is not overwritten in the end  *)
(* and no delivery stays pending without a message but by a failure, and an        *)
(* endpoint is called at most MaxAttempts times, and again per failure             *)
(* (icrv-consumer index.ts:50-75, webhook-delivery.ts:50-130).                     *)
DeliveriesAccountedFor ==
  /\ DeliveredWasAnswered
  /\ Webhooks!LostAnswersBounded /\ Webhooks!StuckPendingBounded /\ Webhooks!PostsBounded
=============================================================================
