------------------------------ MODULE EmailOut ------------------------------
(***************************************************************************)
(* The outbound e-mail path, from the agent's dispatcher to the provider:  *)
(*                                                                         *)
(*   dispatcher.ts dispatchAction/dispatchEmail   writes agent_actions and *)
(*     messages, sends the payload to icrv-email-out, then marks the       *)
(*     action executed;                                                    *)
(*   icrv-email queue() and sendEmail()           deduplicate, rate-limit, *)
(*     gate, send through Gmail, and record the outcome;                   *)
(*   queue-helpers.ts and icrv-consumer           schedule retries, turn   *)
(*     them back into payloads, dead-letter them;                          *)
(*   control-panel.ts                             lets an operator revoke. *)
(*                                                                         *)
(* An envelope <<j, c>> is one queue message that carries the payload of   *)
(* job j.  Copy 1 is the one the producer sent; copy 2 exists only because *)
(* the queue may deliver a message twice.  An envelope that                *)
(* is being processed is one invocation of the consumer: its place is the  *)
(* await the handler has reached, so every interleaving of handlers at     *)
(* their awaits is explored.                                               *)
(***************************************************************************)
EXTENDS Integers, FiniteSets

CONSTANTS Jobs,           \* e-mails to send: one action, message and payload each
          Duplicated,     \* those whose queue message may be delivered twice over
          MaxRetries,     \* max_retries of icrv-email-out (3)
          MaxAttempts,    \* MAX_ATTEMPTS of queue-helpers (5)
          MaxConcurrency, \* consumer invocations the platform runs at once
          DailyLimit      \* sending.daily_limit of the tenant (500)

ASSUME EmailAssumption ==
  /\ IsFiniteSet(Jobs)
  /\ Duplicated \subseteq Jobs
  /\ MaxRetries \in Nat
  /\ MaxAttempts \in Nat \ {0}
  /\ MaxConcurrency \in Nat \ {0}
  /\ DailyLimit \in Nat

VARIABLES
  transactional, \* jobs of sendConsentRequests: no agent action, is_transactional set
  disp,      \* where the producer of job j stands
  action,    \* agent_actions.status
  ref,       \* jobs whose agent_actions.result_ref holds the message id
  msg,       \* messages.status
  dated,     \* jobs whose messages.sent_at is set (today)
  seen,      \* payload ids with a marker in KV_IDEMP
  at,        \* where each envelope is
  tries,     \* redeliveries of the envelope by the platform
  attempt,   \* payload.attempt
  accepted,  \* how often the provider accepted the e-mail
  revoking,  \* jobs whose revoke request has read the action and not yet written
  revoked,   \* jobs an operator was told are revoked
  stopped    \* jobs revoked in time: see RevokeWrite

vars == <<transactional, disp, action, ref, msg, dated, seen, at, tries, attempt, accepted,
          revoking, revoked, stopped>>
producerVars == <<transactional, disp, action, ref>>
operatorVars == <<revoking, revoked, stopped>>
queueVars    == <<seen, at, tries, attempt>>

Envelopes == (Jobs \X {1}) \cup (Duplicated \X {2})
JobOf(e)  == e[1]
EnvelopesOf(j) == {e \in Envelopes : JobOf(e) = j}

(* The awaits of queue() and sendEmail(), in order. *)
BeforeMarker == {"lookup", "put"}
PreSend      == {"rate", "sending", "preflight", "gates", "token", "provider"}
PostSend     == {"record", "markAction"}
Processing   == BeforeMarker \cup PreSend \cup PostSend \cup {"failed"}
Places       == Processing \cup {"none", "queue", "retry", "acked", "dlq"}

(* Invocations that have read the action and found it not revoked. *)
PastPreflight == {"gates", "token", "provider"} \cup PostSend

(* Invocations that have passed the gates and may still add a sent_at. *)
PastGates == {"token", "provider", "record"}

ActionStatus  == {"none", "pending", "executed", "skipped_no_channel", "sent", "revoked"}
MessageStatus == {"none", "queued", "sending", "sent", "failed"}

TypeOK ==
  /\ transactional \subseteq Jobs
  /\ disp \in [Jobs -> {"insert", "message", "enqueue", "executed", "done"}]
  /\ action \in [Jobs -> ActionStatus]
  /\ ref \subseteq Jobs
  /\ msg \in [Jobs -> MessageStatus]
  /\ dated \subseteq Jobs
  /\ seen \subseteq Jobs
  /\ at \in [Envelopes -> Places]
  /\ tries \in [Envelopes -> 0..MaxRetries]
  /\ attempt \in [Envelopes -> 1..MaxAttempts]
  /\ accepted \in [Jobs -> Nat]
  /\ revoking \subseteq Jobs
  /\ revoked \subseteq Jobs
  /\ stopped \subseteq Jobs

Init ==
  /\ transactional \in SUBSET Jobs
  /\ disp = [j \in Jobs |-> IF j \in transactional THEN "message" ELSE "insert"]
  /\ action = [j \in Jobs |-> "none"]
  /\ ref = {}
  /\ msg = [j \in Jobs |-> "none"]
  /\ dated = {}
  /\ seen = {}
  /\ at = [e \in Envelopes |-> "none"]
  /\ tries = [e \in Envelopes |-> 0]
  /\ attempt = [e \in Envelopes |-> 1]
  /\ accepted = [j \in Jobs |-> 0]
  /\ revoking = {}
  /\ revoked = {}
  /\ stopped = {}

-----------------------------------------------------------------------------
(* The producer. *)

(* dispatchAction: the agent_actions row, status 'pending'. *)
InsertAction(j) ==
  /\ disp[j] = "insert"
  /\ action' = [action EXCEPT ![j] = "pending"]
  /\ disp' = [disp EXCEPT ![j] = "message"]
  /\ UNCHANGED <<transactional, ref, msg, dated, queueVars, accepted, operatorVars>>

(* dispatchEmail gives up: no sender context, or no subject or body. *)
SkipEmail(j) ==
  /\ disp[j] = "message" /\ j \notin transactional
  /\ action' = [action EXCEPT ![j] = "skipped_no_channel"]
  /\ disp' = [disp EXCEPT ![j] = "done"]
  /\ UNCHANGED <<transactional, ref, msg, dated, queueVars, accepted, operatorVars>>

(* The messages row, status 'queued'. *)
InsertMessage(j) ==
  /\ disp[j] = "message"
  /\ msg' = [msg EXCEPT ![j] = "queued"]
  /\ disp' = [disp EXCEPT ![j] = "enqueue"]
  /\ UNCHANGED <<transactional, action, ref, dated, queueVars, accepted, operatorVars>>

(* Q_EMAIL_OUT.send.  The consumer may run before the producer continues. *)
Enqueue(j) ==
  /\ disp[j] = "enqueue"
  /\ at' = [at EXCEPT ![<<j, 1>>] = "queue"]
  /\ disp' = [disp EXCEPT ![j] = IF j \in transactional THEN "done" ELSE "executed"]
  /\ UNCHANGED <<transactional, action, ref, msg, dated, seen, tries, attempt, accepted, operatorVars>>

(* setActionStatus(executed, messageId): unconditional. *)
MarkExecuted(j) ==
  /\ disp[j] = "executed"
  /\ action' = [action EXCEPT ![j] = "executed"]
  /\ ref' = ref \cup {j}
  /\ disp' = [disp EXCEPT ![j] = "done"]
  /\ UNCHANGED <<transactional, msg, dated, queueVars, accepted, operatorVars>>

-----------------------------------------------------------------------------
(* The operator: control-panel.ts reads the action, then updates it.        *)

RevokeRead(j) ==
  /\ action[j] \notin {"none", "sent", "revoked"}
  /\ j \notin revoking
  /\ revoking' = revoking \cup {j}
  /\ UNCHANGED <<producerVars, msg, dated, queueVars, accepted, revoked, stopped>>

(* No envelope of j has yet read the action, and the producer is done with it. *)
InTime(j) ==
  /\ disp[j] = "done"
  /\ accepted[j] = 0
  /\ \A e \in EnvelopesOf(j) : at[e] \notin PastPreflight

(* The UPDATE has no condition on the status it overwrites. *)
RevokeWrite(j) ==
  /\ j \in revoking
  /\ action' = [action EXCEPT ![j] = "revoked"]
  /\ revoking' = revoking \ {j}
  /\ revoked' = revoked \cup {j}
  /\ stopped' = IF InTime(j) /\ j \in ref THEN stopped \cup {j} ELSE stopped
  /\ UNCHANGED <<transactional, disp, ref, msg, dated, queueVars, accepted>>

-----------------------------------------------------------------------------
(* The consumer. *)

Goto(e, p) == at' = [at EXCEPT ![e] = p]

(* A fresh invocation takes the envelope. *)
Deliver(e) ==
  /\ at[e] = "queue"
  /\ Cardinality({f \in Envelopes : at[f] \in Processing}) < MaxConcurrency
  /\ Goto(e, "lookup")
  /\ UNCHANGED <<producerVars, msg, dated, seen, tries, attempt, accepted, operatorVars>>

NackedForever(e) == "queue"  \* mutant: no dead_letter_queue

(* Where a message that was not acknowledged goes: back to the queue, or, once *)
(* max_retries redeliveries are used up, to the queue's dead_letter_queue.     *)
Nacked(e) == IF tries[e] < MaxRetries THEN "queue" ELSE "dlq"
TriesUncapped(e) == tries[e] + 1  \* mutant: one redelivery too many is counted
TriesAfterNack(e) == IF tries[e] < MaxRetries THEN tries[e] + 1 ELSE tries[e]

Nack(e) ==
  /\ Goto(e, Nacked(e))
  /\ tries' = [tries EXCEPT ![e] = TriesAfterNack(e)]

KnownOnceSent(j) == msg[j] = "sent"  \* mutant: deduplicates on the message's status

(* isDuplicate, first await: KV_IDEMP.get.  A known id is acknowledged. *)
Known(j) == j \in seen

Lookup(e) ==
  /\ at[e] = "lookup"
  /\ Goto(e, IF Known(JobOf(e)) THEN "acked" ELSE "put")
  /\ UNCHANGED <<producerVars, msg, dated, seen, tries, attempt, accepted, operatorVars>>

(* isDuplicate, second await: KV_IDEMP.put, before anything is sent. *)
PutMarker(e) ==
  /\ at[e] = "put"
  /\ seen' = seen \cup {JobOf(e)}
  /\ Goto(e, "rate")
  /\ UNCHANGED <<producerVars, msg, dated, tries, attempt, accepted, operatorVars>>

(* rateAllow: the hourly counter is not modelled here, so either answer is     *)
(* possible; a denial is msg.retry({ delaySeconds: 60 }).                      *)
RateAllowed(e) ==
  /\ at[e] = "rate"
  /\ Goto(e, "sending")
  /\ UNCHANGED <<producerVars, msg, dated, seen, tries, attempt, accepted, operatorVars>>

RateDenied(e) ==
  /\ at[e] = "rate"
  /\ Nack(e)
  /\ UNCHANGED <<producerVars, msg, dated, seen, attempt, accepted, operatorVars>>

(* sendEmail: messages.status = 'sending'. *)
MarkSending(e) ==
  /\ at[e] = "sending"
  /\ msg' = [msg EXCEPT ![JobOf(e)] = "sending"]
  /\ Goto(e, "preflight")
  /\ UNCHANGED <<producerVars, dated, seen, tries, attempt, accepted, operatorVars>>

RevokedUnlessRetried(j) ==  \* mutant: a retry skips the pre-flight check
  /\ j \in ref /\ action[j] = "revoked"
  /\ \A e \in EnvelopesOf(j) : attempt[e] = 1

(* The action is looked up by result_ref: before the producer has written it,  *)
(* there is no row to find.                                                    *)
FoundRevoked(j) == j \in ref /\ action[j] = "revoked"

Preflight(e) ==
  /\ at[e] = "preflight"
  /\ IF FoundRevoked(JobOf(e))
       THEN /\ msg' = [msg EXCEPT ![JobOf(e)] = "failed"]
            /\ Goto(e, "failed")
       ELSE /\ UNCHANGED msg
            /\ Goto(e, "gates")
  /\ UNCHANGED <<producerVars, dated, seen, tries, attempt, accepted, operatorVars>>

(* The CAN-SPAM address gate: the tenant's settings may be incomplete. *)
AddressIncomplete(e) ==
  /\ at[e] = "gates" /\ JobOf(e) \notin transactional
  /\ msg' = [msg EXCEPT ![JobOf(e)] = "failed"]
  /\ Goto(e, "failed")
  /\ UNCHANGED <<producerVars, dated, seen, tries, attempt, accepted, operatorVars>>

AtDailyLimit == Cardinality(dated) <= DailyLimit  \* mutant: one too many

(* The number of outbound e-mails of the tenant sent today. *)
BelowDailyLimit == Cardinality(dated) < DailyLimit

PassGates(e) ==
  /\ at[e] = "gates"
  /\ JobOf(e) \in transactional \/ BelowDailyLimit
  /\ Goto(e, "token")
  /\ UNCHANGED <<producerVars, msg, dated, seen, tries, attempt, accepted, operatorVars>>

(* daily_limit_reached is thrown with the message left in 'sending'. *)
DailyLimitReached(e) ==
  /\ at[e] = "gates" /\ JobOf(e) \notin transactional /\ ~BelowDailyLimit
  /\ Goto(e, "failed")
  /\ UNCHANGED <<producerVars, msg, dated, seen, tries, attempt, accepted, operatorVars>>

(* OAuthRotatorDO gives a token; token_unavailable is one of the Throws below. *)
GetToken(e) ==
  /\ at[e] = "token"
  /\ Goto(e, "provider")
  /\ UNCHANGED <<producerVars, msg, dated, seen, tries, attempt, accepted, operatorVars>>

(* Gmail accepts the message.  Throws from "record" stands for a lost answer too. *)
ProviderAccepts(e) ==
  /\ at[e] = "provider"
  /\ accepted' = [accepted EXCEPT ![JobOf(e)] = @ + 1]
  /\ Goto(e, "record")
  /\ UNCHANGED <<producerVars, msg, dated, seen, tries, attempt, operatorVars>>

(* Gmail answers with an error status. *)
ProviderRejects(e) ==
  /\ at[e] = "provider"
  /\ msg' = [msg EXCEPT ![JobOf(e)] = "failed"]
  /\ Goto(e, "failed")
  /\ UNCHANGED <<producerVars, dated, seen, tries, attempt, accepted, operatorVars>>

RecordSentEarly(e) ==  \* mutant: records the e-mail as sent before the provider has it
  /\ at[e] \in {"provider", "record"}
  /\ msg' = [msg EXCEPT ![JobOf(e)] = "sent"]
  /\ dated' = dated \cup {JobOf(e)}
  /\ Goto(e, IF at[e] = "provider" THEN "provider" ELSE "markAction")
  /\ UNCHANGED <<producerVars, seen, tries, attempt, accepted, operatorVars>>

(* messages: status 'sent', sent_at, provider_msg_id. *)
RecordSent(e) ==
  /\ at[e] = "record"
  /\ msg' = [msg EXCEPT ![JobOf(e)] = "sent"]
  /\ dated' = dated \cup {JobOf(e)}
  /\ Goto(e, "markAction")
  /\ UNCHANGED <<producerVars, seen, tries, attempt, accepted, operatorVars>>

(* agent_actions: status 'sent' where result_ref is the message; then ack. *)
MarkActionSent(e) ==
  /\ at[e] = "markAction"
  /\ action' = IF JobOf(e) \in ref THEN [action EXCEPT ![JobOf(e)] = "sent"] ELSE action
  /\ Goto(e, "acked")
  /\ UNCHANGED <<transactional, disp, ref, msg, dated, seen, tries, attempt, accepted, operatorVars>>

ScheduleRetryMarksFailed(e) ==  \* mutant: any error marks the message failed
  /\ at[e] = "failed"
  /\ msg' = [msg EXCEPT ![JobOf(e)] = "failed"]
  /\ Goto(e, "dlq")
  /\ UNCHANGED <<producerVars, dated, seen, tries, attempt, accepted, operatorVars>>

(* The catch block: scheduleRetry, or deadLetter at the last attempt; then ack. *)
(* The retried payload keeps its id; only its attempt number grows.             *)
ScheduleRetry(e) ==
  /\ at[e] = "failed"
  /\ IF attempt[e] >= MaxAttempts
       THEN Goto(e, "dlq") /\ UNCHANGED attempt
       ELSE Goto(e, "retry") /\ attempt' = [attempt EXCEPT ![e] = @ + 1]
  /\ UNCHANGED <<producerVars, msg, dated, seen, tries, accepted, operatorVars>>

ProcessRetryUnmarked(e) ==  \* mutant: deletes the marker, so that the retry is not dropped
  /\ at[e] = "retry"
  /\ Goto(e, "queue")
  /\ seen' = seen \ {JobOf(e)}
  /\ tries' = [tries EXCEPT ![e] = 0]
  /\ UNCHANGED <<producerVars, msg, dated, attempt, accepted, operatorVars>>

(* icrv-consumer processRetry, once next_attempt_at has passed (an early        *)
(* delivery re-queues the same retry and changes nothing): a new queue message. *)
ProcessRetry(e) ==
  /\ at[e] = "retry"
  /\ Goto(e, "queue")
  /\ tries' = [tries EXCEPT ![e] = 0]
  /\ UNCHANGED <<producerVars, msg, dated, seen, attempt, accepted, operatorVars>>

(* Any await of the try block throws: KV, D1, the OAuth DO, or fetch.             *)
Throws(e) ==
  /\ at[e] \in Processing \ {"failed"}
  /\ Goto(e, "failed")
  /\ UNCHANGED <<producerVars, msg, dated, seen, tries, attempt, accepted, operatorVars>>

(* The invocation dies before or while it handles the message, or an await of the *)
(* catch block throws: the message is not acknowledged.                           *)
Crash(e) ==
  /\ at[e] \in Processing \cup {"queue"}
  /\ Nack(e)
  /\ UNCHANGED <<producerVars, msg, dated, seen, attempt, accepted, operatorVars>>

(* At-least-once delivery: the queue hands out a second copy of a message that  *)
(* is waiting or being processed.                                               *)
Duplicate(e) ==
  /\ at[e] \in Processing \cup {"queue"}
  /\ \E f \in EnvelopesOf(JobOf(e)) :
       /\ at[f] = "none"
       /\ at' = [at EXCEPT ![f] = "queue"]
       /\ attempt' = [attempt EXCEPT ![f] = attempt[e]]
       /\ tries' = [tries EXCEPT ![f] = tries[e]]
  /\ UNCHANGED <<producerVars, msg, dated, seen, accepted, operatorVars>>

-----------------------------------------------------------------------------
Produce(j) ==
  \/ InsertAction(j) \/ SkipEmail(j) \/ InsertMessage(j) \/ Enqueue(j) \/ MarkExecuted(j)

Revoke(j) == RevokeRead(j) \/ RevokeWrite(j)

Consume(e) ==
  \/ Lookup(e) \/ PutMarker(e) \/ RateAllowed(e) \/ RateDenied(e) \/ MarkSending(e)
  \/ Preflight(e) \/ AddressIncomplete(e) \/ PassGates(e) \/ DailyLimitReached(e)
  \/ GetToken(e) \/ ProviderAccepts(e) \/ ProviderRejects(e)
  \/ RecordSent(e) \/ MarkActionSent(e) \/ ScheduleRetry(e)

Next ==
  \/ \E j \in Jobs : Produce(j) \/ Revoke(j)
  \/ \E e \in Envelopes :
       \/ Deliver(e) \/ Consume(e) \/ ProcessRetry(e)
       \/ Throws(e) \/ Crash(e) \/ Duplicate(e)

Spec == Init /\ [][Next]_vars

(* The platform delivers what is queued and a running handler continues; the   *)
(* producer, the operator and failures of the environment owe nothing.         *)
Fairness ==
  \A e \in Envelopes :
    WF_vars(Deliver(e)) /\ WF_vars(Consume(e)) /\ WF_vars(ProcessRetry(e))

FairSpec == Spec /\ Fairness

-----------------------------------------------------------------------------
(* Properties. *)

(* The provider accepts an e-mail at most once per copy of its message that the *)
(* queue hands out, whatever crashes, redeliveries and retries happen:           *)
(* isDuplicate marks the id before sendEmail runs.                               *)
AcceptsBoundedByCopies ==
  \A j \in Jobs : accepted[j] <= Cardinality(EnvelopesOf(j))

(* messages.status = 'sent' is true of the provider, also when an earlier or a   *)
(* concurrent delivery of the same e-mail failed or was blocked.                 *)
SentWasAccepted == \A j \in Jobs : msg[j] = "sent" => accepted[j] > 0

(* messages.status = 'failed' is true of the delivery that wrote it: at least one *)
(* copy was not accepted (the only copy, unless the queue duplicated the message), *)
(* and no later delivery of the same copy sends what is reported as failed.        *)
FailedCopyNotAccepted ==
  \A j \in Jobs : msg[j] = "failed" => accepted[j] < Cardinality(EnvelopesOf(j))

(* The records of an e-mail, which the control panel shows, are true of the       *)
(* provider, in every interleaving of its deliveries, retries and crashes.        *)
RecordsAreTrue == SentWasAccepted /\ FailedCopyNotAccepted

(* An e-mail whose revocation was written after the dispatch completed and     *)
(* before the consumer's pre-flight read is never handed to the provider, on   *)
(* no attempt and no redelivery.                                               *)
RevokedInTimeNotSent == \A j \in stopped : accepted[j] = 0

(* An envelope may still reach the provider: it holds the marker, or nobody does. *)
MaySend(e) == at[e] \in PreSend \cup {"put"} \/ JobOf(e) \notin seen
Senders(j) == {e \in EnvelopesOf(j) : MaySend(e)}
Left == [j \in Jobs |-> Cardinality(Senders(j))]

(* To those who ask for an e-mail and look at its record, the path from the       *)
(* dispatcher to the provider is a mailer: an e-mail's chances are the envelopes   *)
(* that may still send it.                                                         *)
Mail == INSTANCE Mailer WITH
  Emails <- Jobs, Chances <- [j \in Jobs |-> Cardinality(EnvelopesOf(j))],
  left <- Left, sent <- accepted, record <- msg

(* No exception, crash, redelivery, retry, duplicate or revocation gives an e-mail  *)
(* a chance back, sends what was stopped or records what is not so, at any step of  *)
(* any interleaving (isDuplicate runs before sendEmail and is never undone:         *)
(* icrv-email/src/index.ts, queue-helpers.ts).                                      *)
SendsAsPromised == Mail!Spec

(* The daily limit is read before the send and counted after it, so concurrent *)
(* invocations can overshoot it, but by less than their number.                *)
DailyOvershootBounded ==
  Cardinality(dated \ transactional) <= DailyLimit + MaxConcurrency - 1

(* Everything that was queued leaves the queues: acknowledged or dead-lettered. *)
QueuesDrain ==
  \A e \in Envelopes :
    at[e] \in Processing \cup {"queue", "retry"} ~> at[e] \in {"acked", "dlq"}

(* queue-helpers.ts:39: a failed send is retried, and after the last attempt       *)
(* dead-lettered: what failed and nobody revoked is in the end accepted by the     *)
(* provider or in the DLQ.                                                         *)
FailedIsSentOrDeadLettered ==
  \A e \in Envelopes :
    at[e] = "failed" ~>
      (accepted[JobOf(e)] > 0 \/ JobOf(e) \in revoked \/ at[e] = "dlq")

(* dispatcher.ts:9: the consumer checks the action before it sends, so an operator *)
(* can revoke it until then: no e-mail whose revocation was confirmed passes the   *)
(* pre-flight check.                                                               *)
RevokeBeforeDeliveryHolds ==
  [][ \A e \in Envelopes :
        (at[e] = "preflight" /\ at'[e] = "gates") => JobOf(e) \notin revoked ]_vars
=============================================================================
