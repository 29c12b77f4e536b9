--------------------------- MODULE EmailOutProofs ---------------------------
(* Proofs about EmailOut, for any number of jobs, copies, retries, attempts   *)
(* and invocations and any daily limit.                                       *)
EXTENDS EmailOut, FiniteSetTheorems, TLAPS

-----------------------------------------------------------------------------
(* Type correctness. *)

LEMMA InitTypeOK == Init => TypeOK
  <1> SUFFICES ASSUME Init PROVE TypeOK
    OBVIOUS
  <1>1. at \in [Envelopes -> Places]
    BY DEF Init, Places
  <1>2. tries \in [Envelopes -> 0..MaxRetries] /\ attempt \in [Envelopes -> 1..MaxAttempts]
    BY EmailAssumption DEF Init
  <1> QED
    BY <1>1, <1>2 DEF Init, TypeOK, ActionStatus, MessageStatus

LEMMA NextTypeOK == TypeOK /\ [Next]_vars => TypeOK'
  <1> SUFFICES ASSUME TypeOK, [Next]_vars PROVE TypeOK'
    OBVIOUS
  <1> USE EmailAssumption DEF TypeOK, ActionStatus, MessageStatus
  <1>1. ASSUME NEW j \in Jobs, Produce(j) PROVE TypeOK'
    <2> USE DEF Places, Processing, queueVars, operatorVars
    <2>1. CASE InsertAction(j) BY <2>1 DEF InsertAction
    <2>2. CASE SkipEmail(j) BY <2>2 DEF SkipEmail
    <2>3. CASE InsertMessage(j) BY <2>3 DEF InsertMessage
    <2>4. CASE Enqueue(j) BY <2>4 DEF Enqueue
    <2>5. CASE MarkExecuted(j) BY <2>5 DEF MarkExecuted
    <2> QED BY <1>1, <2>1, <2>2, <2>3, <2>4, <2>5 DEF Produce
  <1>2. ASSUME NEW j \in Jobs, Revoke(j) PROVE TypeOK'
    BY <1>2 DEF Revoke, RevokeRead, RevokeWrite, producerVars, queueVars
  <1>3. ASSUME NEW e \in Envelopes,
               Deliver(e) \/ Consume(e) \/ ProcessRetry(e) \/ Throws(e) \/ Crash(e) \/ Duplicate(e)
        PROVE TypeOK'
    <2> JobOf(e) \in Jobs BY DEF Envelopes, JobOf
    <2> USE DEF Places, Processing, BeforeMarker, PreSend, PostSend, Goto, producerVars, operatorVars
    <2>1. CASE Deliver(e) BY <2>1 DEF Deliver
    <2>2. CASE Lookup(e) BY <2>2 DEF Lookup
    <2>3. CASE PutMarker(e) BY <2>3 DEF PutMarker
    <2>4. CASE RateAllowed(e) BY <2>4 DEF RateAllowed
    <2>5. CASE RateDenied(e) BY <2>5 DEF RateDenied, Nack, Nacked, TriesAfterNack
    <2>6. CASE MarkSending(e) BY <2>6 DEF MarkSending
    <2>7. CASE Preflight(e) BY <2>7 DEF Preflight
    <2>8. CASE AddressIncomplete(e) BY <2>8 DEF AddressIncomplete
    <2>9. CASE PassGates(e) BY <2>9 DEF PassGates
    <2>10. CASE DailyLimitReached(e) BY <2>10 DEF DailyLimitReached
    <2>11. CASE GetToken(e) BY <2>11 DEF GetToken
    <2>12. CASE ProviderAccepts(e) BY <2>12 DEF ProviderAccepts
    <2>13. CASE ProviderRejects(e) BY <2>13 DEF ProviderRejects
    <2>14. CASE RecordSent(e) BY <2>14 DEF RecordSent
    <2>15. CASE MarkActionSent(e) BY <2>15 DEF MarkActionSent
    <2>16. CASE ScheduleRetry(e) BY <2>16 DEF ScheduleRetry
    <2>17. CASE ProcessRetry(e) BY <2>17 DEF ProcessRetry
    <2>18. CASE Throws(e) BY <2>18 DEF Throws
    <2>19. CASE Crash(e) BY <2>19 DEF Crash, Nack, Nacked, TriesAfterNack
    <2>20. CASE Duplicate(e) BY <2>20 DEF Duplicate, EnvelopesOf
    <2> QED BY <1>3, <2>1, <2>2, <2>3, <2>4, <2>5, <2>6, <2>7, <2>8, <2>9, <2>10, <2>11,
               <2>12, <2>13, <2>14, <2>15, <2>16, <2>17, <2>18, <2>19, <2>20 DEF Consume
  <1>4. CASE UNCHANGED vars BY <1>4 DEF vars
  <1> QED BY <1>1, <1>2, <1>3, <1>4 DEF Next

(* Every variable keeps its type: the stages, statuses, places, redelivery and   *)
(* attempt counts of the code stay within their ranges.                          *)
THEOREM TypeCorrect == Spec => []TypeOK
  BY InitTypeOK, NextTypeOK, PTL DEF Spec

-----------------------------------------------------------------------------
(* Past the marker, the marker is set. *)
MarkerFirst == \A e \in Envelopes : at[e] \in PreSend => JobOf(e) \in seen

(* Each envelope of j that was accepted has stopped being a sender of j, and so   *)
(* has the one that wrote 'failed'.                                               *)
SendBudget ==
  \A j \in Jobs : accepted[j] + Cardinality(Senders(j)) <= Cardinality(EnvelopesOf(j))
FailedBudget ==
  \A j \in Jobs :
    msg[j] = "failed" =>
      accepted[j] + Cardinality(Senders(j)) < Cardinality(EnvelopesOf(j))

SendInv == TypeOK /\ MarkerFirst /\ SendBudget /\ FailedBudget

LEMMA EnvelopesOfFinite == ASSUME NEW j PROVE IsFiniteSet(EnvelopesOf(j))
  <1>1. EnvelopesOf(j) \subseteq {<<j, 1>>, <<j, 2>>}
    BY DEF EnvelopesOf, Envelopes, JobOf
  <1>2. IsFiniteSet({<<j, 1>>}) /\ {<<j, 1>>, <<j, 2>>} = {<<j, 1>>} \cup {<<j, 2>>}
    BY FS_Singleton
  <1>3. IsFiniteSet({<<j, 1>>, <<j, 2>>})
    BY <1>2, FS_AddElement
  <1> QED BY <1>1, <1>3, FS_Subset

LEMMA SendersFinite ==
  ASSUME NEW j
  PROVE  /\ IsFiniteSet(Senders(j)) /\ Cardinality(Senders(j)) \in Nat
         /\ Cardinality(EnvelopesOf(j)) \in Nat
         /\ Cardinality(Senders(j)) <= Cardinality(EnvelopesOf(j))
  BY EnvelopesOfFinite, FS_Subset, FS_CardinalityType DEF Senders

(* The same facts about the next state's senders. *)
LEMMA NextSendersFinite ==
  ASSUME NEW j
  PROVE  IsFiniteSet(Senders(j)') /\ Cardinality(Senders(j)') \in Nat
  <1>1. Senders(j)' \subseteq EnvelopesOf(j)
    BY DEF Senders, EnvelopesOf, Envelopes, JobOf
  <1> QED BY <1>1, EnvelopesOfFinite, FS_Subset, FS_CardinalityType

-----------------------------------------------------------------------------
(* What one step may do to the senders of j. *)
Untouched(j) ==
  /\ accepted'[j] = accepted[j]
  /\ Senders(j)' \subseteq Senders(j)
  /\ msg'[j] = "failed" => msg[j] = "failed"
OneGivesUp(j) ==
  /\ accepted'[j] = accepted[j]
  /\ \E e \in Senders(j) : Senders(j)' \subseteq Senders(j) \ {e}
OneSends(j) ==
  /\ accepted'[j] = accepted[j] + 1
  /\ msg'[j] = msg[j]
  /\ \E e \in Senders(j) : Senders(j)' \subseteq Senders(j) \ {e}
SenderStep(j) == Untouched(j) \/ OneGivesUp(j) \/ OneSends(j)

(* An envelope past the marker that goes elsewhere is no longer a sender. *)
LEMMA Leaving ==
  ASSUME TypeOK, MarkerFirst, NEW e \in Envelopes, at[e] \in PreSend,
         NEW p \in {"failed", "record"}, at' = [at EXCEPT ![e] = p], seen' = seen
  PROVE  /\ e \in Senders(JobOf(e))
         /\ Senders(JobOf(e))' \subseteq Senders(JobOf(e)) \ {e}
         /\ \A j : Senders(j)' \subseteq Senders(j)
         /\ MarkerFirst'
  BY DEF TypeOK, MarkerFirst, Senders, MaySend, EnvelopesOf, PreSend

LEMMA ConsumerSenderStep ==
  ASSUME TypeOK, MarkerFirst, NEW j \in Jobs, NEW e \in Envelopes,
         Deliver(e) \/ Consume(e) \/ ProcessRetry(e) \/ Throws(e) \/ Crash(e) \/ Duplicate(e)
  PROVE  SenderStep(j) /\ MarkerFirst'
  <1> JobOf(e) \in Jobs BY EmailAssumption DEF Envelopes, JobOf
  <1> USE DEF TypeOK, MarkerFirst, SenderStep, Untouched, Senders, MaySend, EnvelopesOf,
              PreSend, PostSend, Processing, BeforeMarker, Goto, producerVars, operatorVars
  <1>1. CASE Lookup(e) BY <1>1 DEF Lookup, Known
  <1>2. CASE PutMarker(e) BY <1>2 DEF PutMarker
  <1>3. CASE RateAllowed(e) BY <1>3 DEF RateAllowed
  <1>4. CASE RateDenied(e) BY <1>4 DEF RateDenied, Nack, Nacked
  <1>5. CASE MarkSending(e) BY <1>5 DEF MarkSending
  <1>6. CASE Preflight(e)
    <2>1. CASE FoundRevoked(JobOf(e))
      BY <1>6, <2>1, Leaving DEF Preflight, OneGivesUp
    <2>2. CASE ~FoundRevoked(JobOf(e))
      BY <1>6, <2>2 DEF Preflight
    <2> QED BY <2>1, <2>2
  <1>7. CASE AddressIncomplete(e)
    BY <1>7, Leaving DEF AddressIncomplete, OneGivesUp
  <1>8. CASE PassGates(e) BY <1>8 DEF PassGates
  <1>9. CASE DailyLimitReached(e) BY <1>9 DEF DailyLimitReached
  <1>10. CASE GetToken(e) BY <1>10 DEF GetToken
  <1>11. CASE ProviderAccepts(e)
    BY <1>11, Leaving DEF ProviderAccepts, OneSends
  <1>12. CASE ProviderRejects(e)
    BY <1>12, Leaving DEF ProviderRejects, OneGivesUp
  <1>13. CASE RecordSent(e) BY <1>13 DEF RecordSent
  <1>14. CASE MarkActionSent(e) BY <1>14 DEF MarkActionSent
  <1>15. CASE ScheduleRetry(e) BY <1>15 DEF ScheduleRetry
  <1>16. CASE Deliver(e) BY <1>16 DEF Deliver
  <1>17. CASE ProcessRetry(e) BY <1>17 DEF ProcessRetry
  <1>18. CASE Throws(e) BY <1>18 DEF Throws
  <1>19. CASE Crash(e) BY <1>19 DEF Crash, Nack, Nacked
  <1>20. CASE Duplicate(e) BY <1>20 DEF Duplicate
  <1> QED BY <1>1, <1>2, <1>3, <1>4, <1>5, <1>6, <1>7, <1>8, <1>9, <1>10, <1>11, <1>12, <1>13, <1>14, <1>15, <1>16, <1>17, <1>18, <1>19, <1>20 DEF Consume

(* The producer and the operator touch neither markers nor envelopes past "none", *)
(* except that Enqueue puts copy 1 in the queue.                                   *)
LEMMA OtherSenderStep ==
  ASSUME TypeOK, MarkerFirst, NEW j \in Jobs, NEW i \in Jobs, Produce(i) \/ Revoke(i)
  PROVE  Untouched(j) /\ MarkerFirst'
  <1> USE DEF TypeOK, MarkerFirst, Untouched, Senders, MaySend, EnvelopesOf, PreSend,
              queueVars, producerVars, operatorVars
  <1>1. CASE InsertAction(i) BY <1>1 DEF InsertAction
  <1>2. CASE SkipEmail(i) BY <1>2 DEF SkipEmail
  <1>3. CASE InsertMessage(i) BY <1>3 DEF InsertMessage
  <1>4. CASE Enqueue(i) BY <1>4 DEF Enqueue
  <1>5. CASE MarkExecuted(i) BY <1>5 DEF MarkExecuted
  <1>6. CASE Revoke(i) BY <1>6 DEF Revoke, RevokeRead, RevokeWrite
  <1> QED BY <1>1, <1>2, <1>3, <1>4, <1>5, <1>6 DEF Produce

LEMMA NextSenderStep ==
  ASSUME TypeOK, MarkerFirst, NEW j \in Jobs, [Next]_vars
  PROVE  SenderStep(j) /\ MarkerFirst'
  <1>1. CASE UNCHANGED vars
    BY <1>1 DEF vars, TypeOK, MarkerFirst, SenderStep, Untouched, Senders, MaySend, EnvelopesOf
  <1>2. ASSUME NEW i \in Jobs, Produce(i) \/ Revoke(i) PROVE SenderStep(j) /\ MarkerFirst'
    BY <1>2, OtherSenderStep DEF SenderStep
  <1>3. ASSUME NEW e \in Envelopes,
               Deliver(e) \/ Consume(e) \/ ProcessRetry(e) \/ Throws(e) \/ Crash(e) \/ Duplicate(e)
        PROVE  SenderStep(j) /\ MarkerFirst'
    BY <1>3, ConsumerSenderStep
  <1> QED BY <1>1, <1>2, <1>3 DEF Next

(* A set that loses an element has fewer. *)
LEMMA Fewer ==
  ASSUME NEW S, IsFiniteSet(S), NEW T, NEW e \in S, T \subseteq S \ {e}
  PROVE  Cardinality(T) <= Cardinality(S) - 1
  <1>1. IsFiniteSet(S \ {e}) /\ Cardinality(S \ {e}) = Cardinality(S) - 1
    BY FS_RemoveElement
  <1>2. Cardinality(T) <= Cardinality(S \ {e})
    BY <1>1, FS_Subset
  <1> QED BY <1>1, <1>2

LEMMA BudgetStep ==
  ASSUME TypeOK, NEW j \in Jobs, SenderStep(j),
         accepted[j] + Cardinality(Senders(j)) <= Cardinality(EnvelopesOf(j)),
         msg[j] = "failed" =>
           accepted[j] + Cardinality(Senders(j)) < Cardinality(EnvelopesOf(j))
  PROVE  /\ accepted'[j] + Cardinality(Senders(j)') <= Cardinality(EnvelopesOf(j))
         /\ msg'[j] = "failed" =>
              accepted'[j] + Cardinality(Senders(j)') < Cardinality(EnvelopesOf(j))
  <1> accepted[j] \in Nat BY DEF TypeOK
  <1> USE SendersFinite, NextSendersFinite
  <1>1. CASE Untouched(j)
    <2>1. Cardinality(Senders(j)') <= Cardinality(Senders(j))
      BY <1>1, FS_Subset DEF Untouched
    <2> QED BY <1>1, <2>1 DEF Untouched
  <1>2. CASE OneGivesUp(j) \/ OneSends(j)
    <2>1. Cardinality(Senders(j)') <= Cardinality(Senders(j)) - 1
      BY <1>2, Fewer DEF OneGivesUp, OneSends
    <2> QED BY <1>2, <2>1 DEF OneGivesUp, OneSends
  <1> QED BY <1>1, <1>2 DEF SenderStep

LEMMA InitSendInv == Init => SendInv
  <1> SUFFICES ASSUME Init PROVE SendInv
    OBVIOUS
  <1>1. MarkerFirst BY DEF Init, MarkerFirst, PreSend
  <1>2. SendBudget /\ FailedBudget
    BY SendersFinite DEF Init, SendBudget, FailedBudget
  <1> QED BY <1>1, <1>2, InitTypeOK DEF SendInv

LEMMA NextSendInv == SendInv /\ [Next]_vars => SendInv'
  <1> SUFFICES ASSUME SendInv, [Next]_vars PROVE SendInv'
    OBVIOUS
  <1> USE DEF SendInv
  <1>1. TypeOK' BY NextTypeOK
  <1>2. \A j \in Jobs : SenderStep(j)
    BY NextSenderStep
  <1>3. MarkerFirst'
    <2>1. CASE Jobs = {} BY <2>1, EmailAssumption DEF MarkerFirst, Envelopes
    <2>2. CASE Jobs # {} BY <2>2, NextSenderStep
    <2> QED BY <2>1, <2>2
  <1>4. \A j : EnvelopesOf(j)' = EnvelopesOf(j)
    BY DEF EnvelopesOf, Envelopes, JobOf
  <1>5. SendBudget' /\ FailedBudget'
    BY <1>2, <1>4, BudgetStep DEF SendBudget, FailedBudget
  <1> QED BY <1>1, <1>3, <1>5

(* However often its message is redelivered, retried or duplicated, an e-mail is *)
(* accepted by the provider at most once per copy of the message.                *)
THEOREM AcceptsBounded == Spec => []AcceptsBoundedByCopies
  <1>1. SendInv => AcceptsBoundedByCopies
    BY SendersFinite DEF SendInv, TypeOK, SendBudget, AcceptsBoundedByCopies
  <1> QED BY <1>1, InitSendInv, NextSendInv, PTL DEF Spec

(* A message recorded as failed has a copy the provider did not accept. *)
THEOREM FailedRecordsAreTrue == Spec => []FailedCopyNotAccepted
  <1>1. SendInv => FailedCopyNotAccepted
    BY SendersFinite DEF SendInv, TypeOK, FailedBudget, FailedCopyNotAccepted
  <1> QED BY <1>1, InitSendInv, NextSendInv, PTL DEF Spec

(* A message the queue does not duplicate is accepted at most once, and never    *)
(* when its record says failed.                                                  *)
COROLLARY AtMostOnceWithoutDuplication ==
  Spec => [](\A j \in Jobs \ Duplicated :
               accepted[j] <= 1 /\ (msg[j] = "failed" => accepted[j] = 0))
  <1>1. ASSUME NEW j \in Jobs \ Duplicated PROVE Cardinality(EnvelopesOf(j)) = 1
    <2>1. EnvelopesOf(j) = {<<j, 1>>} BY DEF EnvelopesOf, Envelopes, JobOf
    <2> QED BY <2>1, FS_Singleton
  <1>2. SendInv => \A j \in Jobs \ Duplicated :
                     accepted[j] <= 1 /\ (msg[j] = "failed" => accepted[j] = 0)
    BY <1>1, SendersFinite DEF SendInv, TypeOK, SendBudget, FailedBudget
  <1> QED BY <1>2, InitSendInv, NextSendInv, PTL DEF Spec

-----------------------------------------------------------------------------
(* What the records say of the provider, and what a revocation in time achieves. *)
AcceptedBeforeRecord ==
  \A e \in Envelopes : at[e] \in PostSend => accepted[JobOf(e)] > 0
SentInv == TypeOK /\ AcceptedBeforeRecord /\ SentWasAccepted

(* A job revoked in time keeps its revoked action, can be found by the pre-flight *)
(* check, and has no envelope past that check.                                    *)
StaysStopped(j) ==
  /\ accepted[j] = 0 /\ disp[j] = "done" /\ j \in ref /\ action[j] = "revoked"
  /\ \A e \in Envelopes : JobOf(e) = j => at[e] \notin PastPreflight
StoppedInv == TypeOK /\ \A j \in stopped : StaysStopped(j)

LEMMA NextSentInv == SentInv /\ [Next]_vars => SentInv'
  <1> SUFFICES ASSUME SentInv, [Next]_vars PROVE SentInv'
    OBVIOUS
  <1>1. TypeOK' BY NextTypeOK DEF SentInv
  <1> USE DEF SentInv, TypeOK, AcceptedBeforeRecord, SentWasAccepted
  <1>2. ASSUME NEW j \in Jobs, Produce(j) \/ Revoke(j)
        PROVE  AcceptedBeforeRecord' /\ SentWasAccepted'
    BY <1>2 DEF Produce, InsertAction, SkipEmail, InsertMessage, Enqueue, MarkExecuted,
       Revoke, RevokeRead, RevokeWrite, queueVars, producerVars, PostSend
  <1>3. ASSUME NEW e \in Envelopes,
               Deliver(e) \/ Consume(e) \/ ProcessRetry(e) \/ Throws(e) \/ Crash(e) \/ Duplicate(e)
        PROVE  AcceptedBeforeRecord' /\ SentWasAccepted'
    <2> JobOf(e) \in Jobs BY EmailAssumption DEF Envelopes, JobOf
    <2> USE DEF PostSend, Goto, producerVars, operatorVars
    <2>1. CASE Deliver(e) BY <2>1 DEF Deliver
    <2>2. CASE Lookup(e) BY <2>2 DEF Lookup
    <2>3. CASE PutMarker(e) BY <2>3 DEF PutMarker
    <2>4. CASE RateAllowed(e) BY <2>4 DEF RateAllowed
    <2>5. CASE RateDenied(e) BY <2>5 DEF RateDenied, Nack, Nacked
    <2>6. CASE MarkSending(e) BY <2>6 DEF MarkSending
    <2>7. CASE Preflight(e) BY <2>7 DEF Preflight, FoundRevoked
    <2>8. CASE AddressIncomplete(e) BY <2>8 DEF AddressIncomplete
    <2>9. CASE PassGates(e) BY <2>9 DEF PassGates
    <2>10. CASE DailyLimitReached(e) BY <2>10 DEF DailyLimitReached
    <2>11. CASE GetToken(e) BY <2>11 DEF GetToken
    <2>12. CASE ProviderAccepts(e) BY <2>12 DEF ProviderAccepts
    <2>13. CASE ProviderRejects(e) BY <2>13 DEF ProviderRejects
    <2>14. CASE RecordSent(e) BY <2>14 DEF RecordSent
    <2>15. CASE MarkActionSent(e) BY <2>15 DEF MarkActionSent
    <2>16. CASE ScheduleRetry(e) BY <2>16 DEF ScheduleRetry
    <2>17. CASE ProcessRetry(e) BY <2>17 DEF ProcessRetry
    <2>18. CASE Throws(e) BY <2>18 DEF Throws
    <2>19. CASE Crash(e) BY <2>19 DEF Crash, Nack, Nacked
    <2>20. CASE Duplicate(e) BY <2>20 DEF Duplicate, EnvelopesOf
    <2> QED BY <1>3, <2>1, <2>2, <2>3, <2>4, <2>5, <2>6, <2>7, <2>8, <2>9, <2>10, <2>11, <2>12, <2>13, <2>14, <2>15, <2>16, <2>17, <2>18, <2>19, <2>20 DEF Consume
  <1>4. CASE UNCHANGED vars BY <1>4 DEF vars
  <1> QED BY <1>1, <1>2, <1>3, <1>4 DEF Next

(* A message recorded as sent was accepted by the provider. *)
THEOREM SentRecordsAreTrue == Spec => []SentWasAccepted
  <1>1. Init => SentInv
    BY InitTypeOK DEF Init, SentInv, AcceptedBeforeRecord, SentWasAccepted, PostSend
  <1>2. SentInv => SentWasAccepted
    BY DEF SentInv
  <1> QED BY <1>1, <1>2, NextSentInv, PTL DEF Spec

(* What the records of an e-mail say is true of the provider. *)
THEOREM AllRecordsAreTrue == Spec => []RecordsAreTrue
  BY SentRecordsAreTrue, FailedRecordsAreTrue, PTL DEF RecordsAreTrue

LEMMA NextStoppedInv == StoppedInv /\ [Next]_vars => StoppedInv'
  <1> SUFFICES ASSUME StoppedInv, [Next]_vars PROVE StoppedInv'
    OBVIOUS
  <1>1. TypeOK' BY NextTypeOK DEF StoppedInv
  <1> USE DEF StoppedInv, TypeOK, StaysStopped
  <1> SUFFICES ASSUME NEW i \in stopped' PROVE StaysStopped(i)'
    BY <1>1
  <1>2. ASSUME NEW j \in Jobs, Produce(j) PROVE StaysStopped(i)'
    BY <1>2 DEF Produce, InsertAction, SkipEmail, InsertMessage, Enqueue, MarkExecuted,
       queueVars, operatorVars, PastPreflight, PostSend
  <1>3. ASSUME NEW j \in Jobs, Revoke(j) PROVE StaysStopped(i)'
    BY <1>3 DEF Revoke, RevokeRead, RevokeWrite, InTime, EnvelopesOf, queueVars, producerVars
  <1>4. ASSUME NEW e \in Envelopes,
               Deliver(e) \/ Consume(e) \/ ProcessRetry(e) \/ Throws(e) \/ Crash(e) \/ Duplicate(e)
        PROVE  StaysStopped(i)'
    <2> JobOf(e) \in Jobs BY EmailAssumption DEF Envelopes, JobOf
    <2> USE DEF PastPreflight, PostSend, Goto, producerVars, operatorVars
    <2>1. CASE Deliver(e) BY <2>1 DEF Deliver
    <2>2. CASE Lookup(e) BY <2>2 DEF Lookup
    <2>3. CASE PutMarker(e) BY <2>3 DEF PutMarker
    <2>4. CASE RateAllowed(e) BY <2>4 DEF RateAllowed
    <2>5. CASE RateDenied(e) BY <2>5 DEF RateDenied, Nack, Nacked
    <2>6. CASE MarkSending(e) BY <2>6 DEF MarkSending
    <2>7. CASE Preflight(e) BY <2>7 DEF Preflight, FoundRevoked
    <2>8. CASE AddressIncomplete(e) BY <2>8 DEF AddressIncomplete
    <2>9. CASE PassGates(e) BY <2>9 DEF PassGates
    <2>10. CASE DailyLimitReached(e) BY <2>10 DEF DailyLimitReached
    <2>11. CASE GetToken(e) BY <2>11 DEF GetToken
    <2>12. CASE ProviderAccepts(e) BY <2>12 DEF ProviderAccepts
    <2>13. CASE ProviderRejects(e) BY <2>13 DEF ProviderRejects
    <2>14. CASE RecordSent(e) BY <2>14 DEF RecordSent
    <2>15. CASE MarkActionSent(e) BY <2>15 DEF MarkActionSent
    <2>16. CASE ScheduleRetry(e) BY <2>16 DEF ScheduleRetry
    <2>17. CASE ProcessRetry(e) BY <2>17 DEF ProcessRetry
    <2>18. CASE Throws(e) BY <2>18 DEF Throws
    <2>19. CASE Crash(e) BY <2>19 DEF Crash, Nack, Nacked
    <2>20. CASE Duplicate(e) BY <2>20 DEF Duplicate, EnvelopesOf
    <2> QED BY <1>4, <2>1, <2>2, <2>3, <2>4, <2>5, <2>6, <2>7, <2>8, <2>9, <2>10, <2>11, <2>12, <2>13, <2>14, <2>15, <2>16, <2>17, <2>18, <2>19, <2>20 DEF Consume
  <1>5. CASE UNCHANGED vars BY <1>5 DEF vars
  <1> QED BY <1>2, <1>3, <1>4, <1>5 DEF Next

(* A revocation written after the dispatch and before the pre-flight read is      *)
(* final: no attempt, redelivery or duplicate hands the e-mail to the provider.   *)
THEOREM RevocationInTimeHolds == Spec => []RevokedInTimeNotSent
  <1>1. Init => StoppedInv
    BY InitTypeOK DEF Init, StoppedInv
  <1>2. StoppedInv => RevokedInTimeNotSent
    BY DEF StoppedInv, StaysStopped, RevokedInTimeNotSent
  <1> QED BY <1>1, <1>2, NextStoppedInv, PTL DEF Spec

-----------------------------------------------------------------------------
(* The daily limit.  An invocation past the gates may still add one e-mail to the *)
(* day's count; when it passed, the count was below the limit.                    *)
Busy    == {e \in Envelopes : at[e] \in Processing}
Pending == {e \in Envelopes : at[e] \in PastGates /\ JobOf(e) \notin transactional}
Counted == dated \ transactional

LimitInv ==
  /\ TypeOK
  /\ Cardinality(Busy) <= MaxConcurrency
  /\ Cardinality(Counted) + Cardinality(Pending) <= DailyLimit + MaxConcurrency - 1

LEMMA AtMostOneMore ==
  ASSUME NEW S, IsFiniteSet(S), NEW x
  PROVE  Cardinality(S \cup {x}) <= Cardinality(S) + 1
  <1>1. Cardinality(S) \in Nat BY FS_CardinalityType
  <1>2. CASE x \in S
    <2>1. S \cup {x} = S BY <1>2
    <2> QED BY <1>1, <2>1
  <1>3. CASE x \notin S
    <2>1. Cardinality(S \cup {x}) = Cardinality(S) + 1 BY <1>3, FS_AddElement
    <2> QED BY <1>1, <2>1
  <1> QED BY <1>2, <1>3

LEMMA EnvelopesFinite == IsFiniteSet(Envelopes) /\ IsFiniteSet(Duplicated)
  <1>1. IsFiniteSet(Duplicated) BY EmailAssumption, FS_Subset
  <1>2. IsFiniteSet(Jobs \X {1}) /\ IsFiniteSet(Duplicated \X {2})
    BY <1>1, EmailAssumption, FS_Singleton, FS_Product
  <1> QED BY <1>1, <1>2, FS_Union DEF Envelopes

LEMMA LimitFinite ==
  ASSUME TypeOK
  PROVE  /\ IsFiniteSet(Busy) /\ Cardinality(Busy) \in Nat
         /\ IsFiniteSet(Pending) /\ Cardinality(Pending) \in Nat
         /\ IsFiniteSet(Counted) /\ Cardinality(Counted) \in Nat
         /\ IsFiniteSet(dated) /\ Cardinality(dated) \in Nat
         /\ Cardinality(Counted) <= Cardinality(dated)
         /\ Cardinality(Pending) <= Cardinality(Busy)
  <1>1. Busy \subseteq Envelopes /\ Pending \subseteq Busy
    BY DEF Busy, Pending, PastGates, Processing, PreSend, PostSend
  <1>2. Counted \subseteq dated /\ dated \subseteq Jobs
    BY DEF Counted, TypeOK
  <1>3. IsFiniteSet(dated) /\ IsFiniteSet(Busy)
    BY <1>1, <1>2, EnvelopesFinite, EmailAssumption, FS_Subset
  <1> QED BY <1>1, <1>2, <1>3, FS_Subset, FS_CardinalityType

(* Every step but Deliver leaves at most the same envelopes in processing, and    *)
(* every step but PassGates and RecordSent at most the same ones pending.         *)
LEMMA QuietStep ==
  ASSUME TypeOK, [Next]_vars
  PROVE  \/ Busy' \subseteq Busy /\ Pending' \subseteq Pending /\ Counted' = Counted
         \/ \E e \in Envelopes : Deliver(e) \/ PassGates(e) \/ RecordSent(e)
  <1> USE DEF TypeOK, Busy, Pending, Counted, PastGates, Processing, BeforeMarker, PreSend, PostSend
  <1> DEFINE Quiet == Busy' \subseteq Busy /\ Pending' \subseteq Pending /\ Counted' = Counted
  <1>1. ASSUME NEW j \in Jobs, Produce(j) \/ Revoke(j) PROVE Quiet
    BY <1>1 DEF Produce, InsertAction, SkipEmail, InsertMessage, Enqueue, MarkExecuted,
       Revoke, RevokeRead, RevokeWrite, queueVars, producerVars
  <1>2. ASSUME NEW e \in Envelopes,
               \/ Consume(e) /\ ~PassGates(e) /\ ~RecordSent(e)
               \/ ProcessRetry(e) \/ Throws(e) \/ Crash(e) \/ Duplicate(e)
        PROVE  Quiet
    <2> USE DEF Goto, producerVars
    <2>1. CASE Lookup(e) BY <2>1 DEF Lookup
    <2>2. CASE PutMarker(e) BY <2>2 DEF PutMarker
    <2>3. CASE RateAllowed(e) BY <2>3 DEF RateAllowed
    <2>4. CASE RateDenied(e) BY <2>4 DEF RateDenied, Nack, Nacked
    <2>5. CASE MarkSending(e) BY <2>5 DEF MarkSending
    <2>6. CASE Preflight(e) BY <2>6 DEF Preflight
    <2>7. CASE AddressIncomplete(e) BY <2>7 DEF AddressIncomplete
    <2>8. CASE DailyLimitReached(e) BY <2>8 DEF DailyLimitReached
    <2>9. CASE GetToken(e) BY <2>9 DEF GetToken
    <2>10. CASE ProviderAccepts(e) BY <2>10 DEF ProviderAccepts
    <2>11. CASE ProviderRejects(e) BY <2>11 DEF ProviderRejects
    <2>12. CASE MarkActionSent(e) BY <2>12 DEF MarkActionSent
    <2>13. CASE ScheduleRetry(e) BY <2>13 DEF ScheduleRetry
    <2>14. CASE ProcessRetry(e) BY <2>14 DEF ProcessRetry
    <2>15. CASE Throws(e) BY <2>15 DEF Throws
    <2>16. CASE Crash(e) BY <2>16 DEF Crash, Nack, Nacked
    <2>17. CASE Duplicate(e) BY <2>17 DEF Duplicate, EnvelopesOf
    <2> QED BY <1>2, <2>1, <2>2, <2>3, <2>4, <2>5, <2>6, <2>7, <2>8, <2>9, <2>10, <2>11, <2>12, <2>13, <2>14, <2>15, <2>16, <2>17 DEF Consume
  <1>3. CASE UNCHANGED vars BY <1>3 DEF vars
  <1> QED BY <1>1, <1>2, <1>3 DEF Next

LEMMA NextLimitInv == LimitInv /\ [Next]_vars => LimitInv'
  <1> SUFFICES ASSUME LimitInv, [Next]_vars PROVE LimitInv'
    OBVIOUS
  <1>1. TypeOK /\ TypeOK' BY NextTypeOK DEF LimitInv
  <1>2. /\ Cardinality(Busy) \in Nat /\ IsFiniteSet(Busy)
        /\ Cardinality(Pending) \in Nat /\ IsFiniteSet(Pending)
        /\ Cardinality(Counted) \in Nat /\ IsFiniteSet(Counted)
        /\ Cardinality(Counted) <= Cardinality(dated) /\ Cardinality(dated) \in Nat
    BY <1>1, LimitFinite
  <1>3. /\ Cardinality(Busy') \in Nat /\ Cardinality(Pending') \in Nat
        /\ Cardinality(Counted') \in Nat
        /\ Cardinality(Pending') <= Cardinality(Busy')
    <2>1. /\ Busy' \subseteq Envelopes /\ Pending' \subseteq Busy'
          /\ Counted' \subseteq Jobs
      BY <1>1 DEF Busy, Pending, Counted, TypeOK, Envelopes, PastGates, Processing, PreSend, PostSend
    <2>2. IsFiniteSet(Busy') /\ IsFiniteSet(Counted')
      BY <2>1, EnvelopesFinite, EmailAssumption, FS_Subset
    <2> QED BY <2>1, <2>2, FS_Subset, FS_CardinalityType
  <1>4. CASE Busy' \subseteq Busy /\ Pending' \subseteq Pending /\ Counted' = Counted
    <2>1. Cardinality(Busy') <= Cardinality(Busy) /\ Cardinality(Pending') <= Cardinality(Pending)
      BY <1>2, <1>4, FS_Subset
    <2> QED BY <1>1, <1>2, <1>3, <1>4, <2>1, EmailAssumption DEF LimitInv
  <1>5. ASSUME NEW e \in Envelopes, Deliver(e) PROVE LimitInv'
    <2>1. Busy' = Busy \cup {e} /\ Pending' = Pending /\ Counted' = Counted
      BY <1>1, <1>5 DEF Deliver, Goto, TypeOK, Busy, Pending, Counted, PastGates, Processing,
                       BeforeMarker, PreSend, PostSend, producerVars
    <2>2. Cardinality(Busy) < MaxConcurrency
      BY <1>5 DEF Deliver, Busy
    <2>3. Cardinality(Busy') <= Cardinality(Busy) + 1
      <3>1. Cardinality(Busy \cup {e}) <= Cardinality(Busy) + 1
        BY <1>2, AtMostOneMore
      <3> QED BY <2>1, <3>1
    <2> QED BY <1>1, <1>2, <1>3, <2>1, <2>2, <2>3, EmailAssumption DEF LimitInv
  <1>6. ASSUME NEW e \in Envelopes, PassGates(e) PROVE LimitInv'
    <2>1. Busy' = Busy /\ Counted' = Counted
      BY <1>1, <1>6 DEF PassGates, Goto, TypeOK, Busy, Counted, Processing, PreSend, producerVars
    <2>2. CASE JobOf(e) \in transactional
      <3>1. Pending' = Pending
        BY <1>1, <1>6, <2>2 DEF PassGates, Goto, TypeOK, Pending, PastGates, producerVars
      <3> QED BY <1>1, <2>1, <3>1 DEF LimitInv
    <2>3. CASE JobOf(e) \notin transactional
      <3>1. Cardinality(dated) < DailyLimit
        BY <1>6, <2>3 DEF PassGates, BelowDailyLimit
      <3> QED BY <1>1, <1>2, <1>3, <2>1, <3>1, EmailAssumption DEF LimitInv
    <2> QED BY <2>2, <2>3
  <1>7. ASSUME NEW e \in Envelopes, RecordSent(e) PROVE LimitInv'
    <2>1. Busy' = Busy
      BY <1>1, <1>7 DEF RecordSent, Goto, TypeOK, Busy, Processing, PreSend, PostSend
    <2>2. CASE JobOf(e) \in transactional
      <3>1. Pending' = Pending /\ Counted' = Counted
        BY <1>1, <1>7, <2>2 DEF RecordSent, Goto, TypeOK, Pending, Counted, PastGates, producerVars
      <3> QED BY <1>1, <2>1, <3>1 DEF LimitInv
    <2>3. CASE JobOf(e) \notin transactional
      <3>1. Pending' = Pending \ {e} /\ e \in Pending /\ Counted' = Counted \cup {JobOf(e)}
        BY <1>1, <1>7, <2>3 DEF RecordSent, Goto, TypeOK, Pending, Counted, PastGates, producerVars
      <3>2. /\ Cardinality(Pending') = Cardinality(Pending) - 1
            /\ Cardinality(Counted') <= Cardinality(Counted) + 1
        <4>1. Cardinality(Pending \ {e}) = Cardinality(Pending) - 1
          BY <1>2, <3>1, FS_RemoveElement
        <4>2. Cardinality(Counted \cup {JobOf(e)}) <= Cardinality(Counted) + 1
          BY <1>2, AtMostOneMore
        <4> QED BY <3>1, <4>1, <4>2
      <3> QED BY <1>1, <1>2, <1>3, <2>1, <3>2, EmailAssumption DEF LimitInv
    <2> QED BY <2>2, <2>3
  <1> QED BY <1>1, <1>4, <1>5, <1>6, <1>7, QuietStep

(* However many invocations race between the count and the send, the day's        *)
(* marketing e-mails exceed the limit by less than the number of invocations.     *)
THEOREM OvershootBounded == Spec => []DailyOvershootBounded
  <1>1. Init => LimitInv
    <2> SUFFICES ASSUME Init PROVE LimitInv
      OBVIOUS
    <2>1. Busy = {} /\ Pending = {} /\ Counted = {}
      BY DEF Init, Busy, Pending, Counted, PastGates, Processing, BeforeMarker, PreSend, PostSend
    <2>2. Cardinality({}) = 0 BY FS_EmptySet
    <2> QED BY <2>1, <2>2, InitTypeOK, EmailAssumption DEF LimitInv
  <1>2. LimitInv => DailyOvershootBounded
    BY LimitFinite, EmailAssumption DEF LimitInv, DailyOvershootBounded, Counted
  <1> QED BY <1>1, <1>2, NextLimitInv, PTL DEF Spec

-----------------------------------------------------------------------------
(* EmailOut implements Mailer.  A message row is written before its e-mail is     *)
(* queued, so whatever handles the e-mail finds a record to update.               *)
Composed(j) ==
  /\ disp[j] \in {"insert", "message"} => msg[j] = "none" /\ j \notin ref
  /\ disp[j] \in {"enqueue", "executed"} \/ j \in ref => msg[j] # "none"
ComposedFirst ==
  /\ \A j \in Jobs : Composed(j)
  /\ \A e \in Envelopes :
       at[e] # "none" => msg[JobOf(e)] # "none" /\ disp[JobOf(e)] \in {"executed", "done"}
ComposedInv == TypeOK /\ ComposedFirst

LEMMA NextComposedInv == ComposedInv /\ [Next]_vars => ComposedInv'
  <1> SUFFICES ASSUME ComposedInv, [Next]_vars PROVE ComposedFirst'
    BY NextTypeOK DEF ComposedInv
  <1> USE DEF ComposedInv, TypeOK, ComposedFirst, Composed
  <1>1. ASSUME NEW j \in Jobs, Produce(j) PROVE ComposedFirst'
    <2> USE DEF queueVars, operatorVars
    <2>1. CASE InsertAction(j) BY <2>1 DEF InsertAction
    <2>2. CASE SkipEmail(j) BY <2>2 DEF SkipEmail
    <2>3. CASE InsertMessage(j) BY <2>3 DEF InsertMessage
    <2>4. CASE Enqueue(j) BY <2>4 DEF Enqueue, JobOf
    <2>5. CASE MarkExecuted(j) BY <2>5 DEF MarkExecuted
    <2> QED BY <1>1, <2>1, <2>2, <2>3, <2>4, <2>5 DEF Produce
  <1>2. ASSUME NEW j \in Jobs, Revoke(j) PROVE ComposedFirst'
    BY <1>2 DEF Revoke, RevokeRead, RevokeWrite, queueVars, producerVars
  <1>3. ASSUME NEW e \in Envelopes,
               Deliver(e) \/ Consume(e) \/ ProcessRetry(e) \/ Throws(e) \/ Crash(e) \/ Duplicate(e)
        PROVE  ComposedFirst'
    <2> JobOf(e) \in Jobs BY EmailAssumption DEF Envelopes, JobOf
    <2> USE DEF PreSend, PostSend, Processing, BeforeMarker, Goto, producerVars, operatorVars
    <2>1. CASE Deliver(e) BY <2>1 DEF Deliver
    <2>2. CASE Lookup(e) BY <2>2 DEF Lookup
    <2>3. CASE PutMarker(e) BY <2>3 DEF PutMarker
    <2>4. CASE RateAllowed(e) BY <2>4 DEF RateAllowed
    <2>5. CASE RateDenied(e) BY <2>5 DEF RateDenied, Nack, Nacked
    <2>6. CASE MarkSending(e) BY <2>6 DEF MarkSending
    <2>7. CASE Preflight(e)
      <3>1. CASE FoundRevoked(JobOf(e))
        <4>1. /\ at[e] = "preflight" /\ at' = [at EXCEPT ![e] = "failed"]
              /\ msg' = [msg EXCEPT ![JobOf(e)] = "failed"] /\ UNCHANGED <<disp, ref>>
          BY <2>7, <3>1 DEF Preflight
        <4> QED BY <4>1
      <3>2. CASE ~FoundRevoked(JobOf(e)) BY <2>7, <3>2 DEF Preflight
      <3> QED BY <3>1, <3>2
    <2>8. CASE AddressIncomplete(e) BY <2>8 DEF AddressIncomplete
    <2>9. CASE PassGates(e) BY <2>9 DEF PassGates
    <2>10. CASE DailyLimitReached(e) BY <2>10 DEF DailyLimitReached
    <2>11. CASE GetToken(e) BY <2>11 DEF GetToken
    <2>12. CASE ProviderAccepts(e) BY <2>12 DEF ProviderAccepts
    <2>13. CASE ProviderRejects(e) BY <2>13 DEF ProviderRejects
    <2>14. CASE RecordSent(e) BY <2>14 DEF RecordSent
    <2>15. CASE MarkActionSent(e) BY <2>15 DEF MarkActionSent
    <2>16. CASE ScheduleRetry(e) BY <2>16 DEF ScheduleRetry
    <2>17. CASE ProcessRetry(e) BY <2>17 DEF ProcessRetry
    <2>18. CASE Throws(e) BY <2>18 DEF Throws
    <2>19. CASE Crash(e) BY <2>19 DEF Crash, Nack, Nacked
    <2>20. CASE Duplicate(e) BY <2>20 DEF Duplicate, EnvelopesOf
    <2> QED BY <1>3, <2>1, <2>2, <2>3, <2>4, <2>5, <2>6, <2>7, <2>8, <2>9, <2>10, <2>11, <2>12, <2>13, <2>14, <2>15, <2>16, <2>17, <2>18, <2>19, <2>20 DEF Consume
  <1>4. CASE UNCHANGED vars BY <1>4 DEF vars
  <1> QED BY <1>1, <1>2, <1>3, <1>4 DEF Next

(* The mailer's view of a step: whose chances it may touch, and how. *)
OnlyOf(i) ==
  /\ \A j \in Jobs \ {i} : Senders(j)' = Senders(j)
  /\ Senders(i)' \subseteq Senders(i)
SameSenders == \A j \in Jobs : Senders(j)' = Senders(j)
MailStep == [Mail!Next]_Mail!vars

LEMMA LeftNow == \A j \in Jobs : Left[j] \in Nat /\ Left[j] = Cardinality(Senders(j))
  BY SendersFinite DEF Left

LEMMA LeftNext ==
  Left' = [j \in Jobs |-> Cardinality(Senders(j)')]
  BY DEF Left

LEMMA LeftSame == ASSUME SameSenders PROVE Left' = Left
  BY LeftNext DEF Left, SameSenders

LEMMA LeftLess ==
  ASSUME NEW i \in Jobs, OnlyOf(i)
  PROVE  /\ Left' = [Left EXCEPT ![i] = Cardinality(Senders(i)')]
         /\ Cardinality(Senders(i)') \in 0..Left[i]
  <1>1. Left' = [Left EXCEPT ![i] = Cardinality(Senders(i)')]
    BY LeftNext DEF Left, OnlyOf
  <1>2. Cardinality(Senders(i)') <= Cardinality(Senders(i))
    BY SendersFinite, FS_Subset DEF OnlyOf
  <1> QED BY <1>1, <1>2, NextSendersFinite, LeftNow

LEMMA Chances ==
  ASSUME NEW i \in Jobs, NEW e \in Senders(i)
  PROVE  Left[i] > 0
  <1>1. Cardinality(Senders(i)) # 0
    BY SendersFinite, FS_EmptySet
  <1> QED BY <1>1, LeftNow, SendersFinite

(* Where only chances change, some were given up or the step is not seen. *)
LEMMA QuietlyGivesUp ==
  ASSUME NEW i \in Jobs, OnlyOf(i), UNCHANGED <<accepted, msg, stopped>>
  PROVE  MailStep
  <1>1. CASE Cardinality(Senders(i)') = Left[i]
    <2>1. Left' = Left BY <1>1, LeftLess DEF Left
    <2> QED BY <2>1 DEF MailStep, Mail!vars
  <1>2. CASE Cardinality(Senders(i)') # Left[i]
    <2>1. Cardinality(Senders(i)') \in 0..(Left[i] - 1)
      BY <1>2, LeftLess, LeftNow
    <2>2. Mail!GiveUp(i) BY <2>1, LeftLess DEF Mail!GiveUp
    <2> QED BY <2>2 DEF MailStep, Mail!Next
  <1> QED BY <1>1, <1>2

LEMMA GivesUpAsFailed ==
  ASSUME NEW i \in Jobs, OnlyOf(i), NEW e \in Senders(i), Senders(i)' \subseteq Senders(i) \ {e},
         msg' = [msg EXCEPT ![i] = "failed"], UNCHANGED <<accepted, stopped>>
  PROVE  MailStep
  <1>1. Cardinality(Senders(i)') <= Cardinality(Senders(i)) - 1
    BY SendersFinite, Fewer
  <1>2. Cardinality(Senders(i)') \in 0..(Left[i] - 1)
    BY <1>1, LeftLess, LeftNow
  <1>3. Mail!GiveUp(i) BY <1>2, LeftLess DEF Mail!GiveUp, Mail!Note
  <1> QED BY <1>3 DEF MailStep, Mail!Next

LEMMA SameForOthers == \* a step of one envelope of a job
  ASSUME TypeOK, NEW e \in Envelopes, NEW p, at' = [at EXCEPT ![e] = p],
         seen' = seen \/ seen' = seen \cup {JobOf(e)}
  PROVE  \A j \in Jobs \ {JobOf(e)} : Senders(j)' = Senders(j)
  BY DEF TypeOK, Senders, MaySend, EnvelopesOf

LEMMA MailInit == Init => Mail!Init
  <1> SUFFICES ASSUME Init PROVE Mail!Init
    OBVIOUS
  <1>1. \A j \in Jobs : Senders(j) = EnvelopesOf(j)
    BY DEF Init, Senders, MaySend
  <1> QED BY <1>1 DEF Init, Mail!Init, Left

(* The invariants the mapping rests on. *)
MailInv == SendInv /\ SentInv /\ StoppedInv /\ ComposedInv

LEMMA ProducerMailStep ==
  ASSUME MailInv, NEW i \in Jobs, Produce(i) \/ Revoke(i)
  PROVE  MailStep
  <1> USE DEF MailInv, SendInv, ComposedInv, TypeOK
  <1>1. SameSenders \/ InsertMessage(i)
    BY DEF Produce, InsertAction, SkipEmail, Enqueue, MarkExecuted, Revoke, RevokeRead, RevokeWrite,
       queueVars, producerVars, SameSenders, Senders, MaySend, EnvelopesOf, PreSend, JobOf,
       ComposedFirst
  <1>2. CASE InsertMessage(i)
    <2>1. SameSenders
      BY <1>2 DEF InsertMessage, queueVars, SameSenders, Senders, MaySend
    <2>2. Mail!Compose(i)
      BY <1>2, <2>1, LeftSame DEF InsertMessage, Mail!Compose, Mail!Note, ComposedFirst, Composed,
         operatorVars
    <2> QED BY <2>2 DEF MailStep, Mail!Next
  <1>3. CASE RevokeWrite(i)
    <2>1. Left' = Left BY <1>1, <1>3, LeftSame DEF RevokeWrite, InsertMessage
    <2>2. CASE stopped' = stopped
      BY <1>3, <2>1, <2>2 DEF RevokeWrite, MailStep, Mail!vars
    <2>3. CASE stopped' # stopped
      <3>1. Mail!Stop(i)
        BY <1>3, <2>1, <2>3 DEF RevokeWrite, InTime, ComposedFirst, Composed, Mail!Stop
      <3> QED BY <3>1 DEF MailStep, Mail!Next
    <2> QED BY <2>2, <2>3
  <1>4. CASE ~InsertMessage(i) /\ ~RevokeWrite(i)
    <2>1. UNCHANGED <<accepted, msg, stopped>>
      BY <1>4 DEF Produce, InsertAction, SkipEmail, Enqueue, MarkExecuted, Revoke, RevokeRead, operatorVars
    <2>2. Left' = Left BY <1>1, <1>4, LeftSame
    <2> QED BY <2>1, <2>2 DEF MailStep, Mail!vars
  <1> QED BY <1>2, <1>3, <1>4

(* A handler past the marker holds a chance; when it goes elsewhere, it is gone. *)
LEMMA ConsumerMailStep ==
  ASSUME MailInv, NEW e \in Envelopes,
         Deliver(e) \/ Consume(e) \/ ProcessRetry(e) \/ Throws(e) \/ Crash(e) \/ Duplicate(e)
  PROVE  MailStep
  <1> DEFINE i == JobOf(e)
  <1>a. i \in Jobs BY EmailAssumption DEF Envelopes, JobOf
  <1>b. TypeOK /\ MarkerFirst BY DEF MailInv, SendInv
  <1>c. at[e] \in PreSend => e \in Senders(i) /\ msg[i] # "none" /\ Left[i] > 0
    <2>1. at[e] \in PreSend => e \in Senders(i) /\ msg[i] # "none"
      BY DEF Senders, MaySend, EnvelopesOf, MailInv, ComposedInv, ComposedFirst, PreSend
    <2> QED BY <1>a, <2>1, Chances
  <1>d. OnlyOf(i)
    <2>1. \A j \in Jobs : Senders(j)' \subseteq Senders(j)
      <3> TAKE j \in Jobs
      <3>1. SenderStep(j) BY <1>b, ConsumerSenderStep
      <3> QED BY <3>1 DEF SenderStep, Untouched, OneGivesUp, OneSends
    <2>2. \A j \in Jobs \ {i} : Senders(j)' = Senders(j)
      <3>1. CASE Duplicate(e)
        BY <1>b, <3>1 DEF Duplicate, TypeOK, Senders, MaySend, EnvelopesOf
      <3>2. CASE ~Duplicate(e)
        <4>1. /\ \E p : at' = [at EXCEPT ![e] = p]
              /\ seen' = seen \/ seen' = seen \cup {i}
          <5>1. CASE Preflight(e) BY <5>1 DEF Preflight, Goto
          <5>2. CASE ScheduleRetry(e) BY <5>2 DEF ScheduleRetry, Goto
          <5> QED BY <3>2, <5>1, <5>2 DEF Deliver, Consume, Lookup, PutMarker, RateAllowed, RateDenied, MarkSending,
            AddressIncomplete, PassGates, DailyLimitReached, GetToken, ProviderAccepts, ProviderRejects,
            RecordSent, MarkActionSent, ProcessRetry, Throws, Crash, Nack, Goto
        <4> QED BY <1>b, <4>1, SameForOthers
      <3> QED BY <3>1, <3>2
    <2> QED BY <1>a, <2>1, <2>2 DEF OnlyOf
  <1> HIDE DEF i
  <1>1. CASE MarkSending(e)
    <2>1. SameSenders
      BY <1>b, <1>1 DEF MarkSending, Goto, TypeOK, SameSenders, Senders, MaySend, PreSend, EnvelopesOf
    <2>2. Mail!TakeUp(i)
      BY <1>a, <1>c, <1>1, <2>1, LeftSame DEF MarkSending, Mail!TakeUp, Mail!Note, PreSend, operatorVars, i
    <2> QED BY <1>a, <2>2 DEF MailStep, Mail!Next
  <1>2. CASE AddressIncomplete(e) \/ ProviderRejects(e) \/ (Preflight(e) /\ FoundRevoked(i))
    <2>1. /\ at[e] \in PreSend /\ at' = [at EXCEPT ![e] = "failed"] /\ seen' = seen
          /\ msg' = [msg EXCEPT ![i] = "failed"] /\ UNCHANGED <<accepted, stopped>>
      BY <1>2 DEF AddressIncomplete, ProviderRejects, Preflight, Goto, PreSend, operatorVars, i
    <2>2. e \in Senders(i) /\ Senders(i)' \subseteq Senders(i) \ {e}
      BY <1>b, <2>1, Leaving DEF i
    <2> QED BY <1>a, <1>d, <2>1, <2>2, GivesUpAsFailed
  <1>3. CASE ProviderAccepts(e)
    <2>1. at[e] \in PreSend /\ at' = [at EXCEPT ![e] = "record"] /\ UNCHANGED <<seen, msg, stopped>>
      BY <1>3 DEF ProviderAccepts, Goto, PreSend, operatorVars
    <2>2. Senders(i)' = Senders(i) \ {e}
      BY <1>b, <2>1 DEF TypeOK, MarkerFirst, Senders, MaySend, EnvelopesOf, PreSend, i
    <2>3. Cardinality(Senders(i)') = Left[i] - 1
      <3>1. Cardinality(Senders(i) \ {e}) = Cardinality(Senders(i)) - 1
        BY <1>c, <2>1, SendersFinite, FS_RemoveElement
      <3> QED BY <1>a, <2>2, <3>1, LeftNow
    <2>4. i \notin stopped
      BY <1>a, <1>3 DEF ProviderAccepts, MailInv, StoppedInv, StaysStopped, PastPreflight, i
    <2>5. Mail!Accept(i)
      BY <1>a, <1>c, <1>d, <1>3, <2>1, <2>3, <2>4, LeftLess DEF ProviderAccepts, Mail!Accept, i
    <2> QED BY <1>a, <2>5 DEF MailStep, Mail!Next
  <1>4. CASE RecordSent(e)
    <2>1. SameSenders
      BY <1>b, <1>4 DEF RecordSent, Goto, TypeOK, SameSenders, Senders, MaySend, PreSend, EnvelopesOf
    <2>2. Mail!Confirm(i)
      BY <1>a, <1>4, <2>1, LeftSame DEF RecordSent, Mail!Confirm, Mail!Note, operatorVars, i,
         MailInv, SentInv, AcceptedBeforeRecord, PostSend
    <2> QED BY <1>a, <2>2 DEF MailStep, Mail!Next
  <1>5. CASE /\ ~MarkSending(e) /\ ~AddressIncomplete(e) /\ ~ProviderRejects(e) /\ ~ProviderAccepts(e)
             /\ ~RecordSent(e) /\ ~(Preflight(e) /\ FoundRevoked(i))
    <2>1. UNCHANGED <<accepted, msg, stopped>>
      BY <1>5 DEF Deliver, Consume, Lookup, PutMarker, RateAllowed, RateDenied, Preflight, PassGates,
         DailyLimitReached, GetToken, MarkActionSent, ScheduleRetry, ProcessRetry, Throws, Crash,
         Duplicate, operatorVars, i
    <2> QED BY <1>a, <1>d, <2>1, QuietlyGivesUp
  <1> QED BY <1>1, <1>2, <1>3, <1>4, <1>5

LEMMA InitMailInv == Init => MailInv
  BY InitTypeOK, InitSendInv
     DEF Init, MailInv, SentInv, AcceptedBeforeRecord, SentWasAccepted, PostSend, StoppedInv,
         ComposedInv, ComposedFirst, Composed

LEMMA NextMailInv == MailInv /\ [Next]_vars => MailInv'
  BY NextSendInv, NextSentInv, NextStoppedInv, NextComposedInv DEF MailInv

(* The outbound path is the mailer it is meant to be: whatever is redelivered,    *)
(* retried, duplicated, revoked or dies, each step uses one chance of one e-mail, *)
(* gives chances up, or records what is so (isDuplicate, sendEmail, deadLetter).  *)
THEOREM MailIsSentAsPromised == Spec => SendsAsPromised
  <1>1. MailInv /\ [Next]_vars => MailStep
    <2> SUFFICES ASSUME MailInv, [Next]_vars PROVE MailStep
      OBVIOUS
    <2>1. CASE UNCHANGED vars
      <3>1. SameSenders BY <2>1 DEF vars, SameSenders, Senders, MaySend
      <3> QED BY <2>1, <3>1, LeftSame DEF vars, MailStep, Mail!vars
    <2> QED BY <2>1, ProducerMailStep, ConsumerMailStep DEF Next
  <1> QED BY <1>1, MailInit, InitMailInv, NextMailInv, PTL
          DEF Spec, SendsAsPromised, Mail!Spec, MailStep
=============================================================================
