---------------------------- MODULE QuotesProofs ----------------------------
(* Proofs about Quotes, for any number of quotes, requests, deliveries and     *)
(* attempts.                                                                   *)
EXTENDS Quotes, FiniteSetTheorems, SequenceTheorems, TLAPS

-----------------------------------------------------------------------------
(* Type correctness. *)

LEMMA InitTypeOK == Init => TypeOK
  BY QuotesAssumption
     DEF Init, TypeOK, Webhooks!Init, Webhooks!TypeOK, Webhooks!Places

LEMMA WebhooksTypeOK ==
  ASSUME Webhooks!TypeOK,
         Deliver \/ (\E d \in Deliveries : Webhooks!Produce(d))
  PROVE  Webhooks!TypeOK' /\ failures <= failures'
  <1> USE QuotesAssumption DEF Webhooks!TypeOK, Webhooks!Places, Webhooks!Live,
          Webhooks!Handling, Webhooks!Goto, Webhooks!Record
  <1>1. ASSUME NEW d \in Deliveries, Webhooks!Produce(d)
        PROVE  Webhooks!TypeOK' /\ failures <= failures'
    <2>1. CASE Webhooks!InsertDelivery(d) BY <2>1 DEF Webhooks!InsertDelivery
    <2>2. CASE Webhooks!SendDelivery(d)
      <3>1. at' = [at EXCEPT ![Webhooks!First(d)] = "queue"]
        BY <2>2 DEF Webhooks!SendDelivery
      <3>2. at' \in [Webhooks!Messages -> Webhooks!Places] BY <3>1
      <3> QED BY <2>2, <3>2 DEF Webhooks!SendDelivery
    <2>3. CASE Webhooks!SendDeliveryFails(d)
      <3>1. at' = [at EXCEPT ![Webhooks!First(d)] = "dropped"]
        BY <2>3 DEF Webhooks!SendDeliveryFails
      <3>2. at' \in [Webhooks!Messages -> Webhooks!Places] BY <3>1
      <3> QED BY <2>3, <3>2 DEF Webhooks!SendDeliveryFails
    <2> QED BY <1>1, <2>1, <2>2, <2>3 DEF Webhooks!Produce
  <1>2. ASSUME NEW m \in Webhooks!Messages, Webhooks!Consume(m)
        PROVE  Webhooks!TypeOK' /\ failures <= failures'
    <2> Webhooks!Of(m) \in Deliveries BY DEF Webhooks!Of, Webhooks!Messages
    <2>1. CASE Webhooks!Deliver(m) BY <2>1 DEF Webhooks!Deliver
    <2>2. CASE Webhooks!Post(m) BY <2>2 DEF Webhooks!Post
    <2>3. CASE Webhooks!MarkDelivered(m) BY <2>3 DEF Webhooks!MarkDelivered
    <2>4. CASE Webhooks!MarkFailed(m) BY <2>4 DEF Webhooks!MarkFailed
    <2>5. CASE Webhooks!MarkDlq(m) BY <2>5 DEF Webhooks!MarkDlq
    <2>6. CASE Webhooks!MarkPending(m) BY <2>6 DEF Webhooks!MarkPending
    <2>7. CASE Webhooks!Resend(m) BY <2>7 DEF Webhooks!Resend
    <2>8. CASE Webhooks!ProcessRetry(m) BY <2>8 DEF Webhooks!ProcessRetry
    <2>9. CASE Webhooks!Fails(m)
      BY <2>9 DEF Webhooks!Fails, Webhooks!Dies, Webhooks!Again
    <2>10. CASE Webhooks!ResendFails(m)
      BY <2>10 DEF Webhooks!ResendFails, Webhooks!Dies, Webhooks!Again
    <2>11. CASE Webhooks!ProcessRetryFails(m)
      <3> DEFINE sibling == Webhooks!NewChild(Webhooks!Parent(m))
      <3>1. at' = [at EXCEPT ![m] = "queue", ![sibling] = "retry"]
        BY <2>11 DEF Webhooks!ProcessRetryFails
      <3> HIDE DEF sibling
      <3>2. at' \in [Webhooks!Messages -> Webhooks!Places] BY <3>1
      <3>3. failures' \in 0..MaxFailures /\ failures <= failures'
        BY <2>11 DEF Webhooks!ProcessRetryFails
      <3> QED BY <2>11, <3>2, <3>3 DEF Webhooks!ProcessRetryFails
    <2> QED
      BY <1>2, <2>1, <2>2, <2>3, <2>4, <2>5, <2>6, <2>7, <2>8, <2>9, <2>10, <2>11
         DEF Webhooks!Consume, Webhooks!Handle
  <1> QED BY <1>1, <1>2 DEF Deliver
LEMMA NextTypeOK == TypeOK /\ [Next]_vars => TypeOK' /\ failures <= failures'
  <1> SUFFICES ASSUME TypeOK, [Next]_vars PROVE TypeOK' /\ failures <= failures'
    OBVIOUS
  <1>0. failures \in Nat BY QuotesAssumption DEF TypeOK, Webhooks!TypeOK
  <1>a. ASSUME UNCHANGED webhookVars PROVE Webhooks!TypeOK' /\ failures <= failures'
    BY <1>0, <1>a DEF TypeOK, webhookVars, Webhooks!TypeOK
  <1> USE DEF Goto, Begin, SetStatus, Flips, quoteVars, requestVars
  <1>1. ASSUME NEW q \in QuoteIds, Create(q) PROVE TypeOK' /\ failures <= failures'
    BY <1>a, <1>1 DEF Create, TypeOK
  <1>2. ASSUME NEW r \in Requests, NEW q \in QuoteIds, Start(r, q)
        PROVE  TypeOK' /\ failures <= failures'
    BY <1>a, <1>2 DEF Start, EditRead, DeleteRead, FlipRead, SendRead, TypeOK
  <1>3. ASSUME NEW r \in Requests, Continue(r) \/ EmitFails(r) \/ RequestFails(r)
        PROVE  TypeOK' /\ failures <= failures'
    <2> subject[r] \in QuoteIds BY DEF TypeOK
    <2>1. CASE EditWrite(r) BY <1>a, <2>1 DEF EditWrite, TypeOK
    <2>2. CASE DeleteWrite(r) BY <1>a, <2>2 DEF DeleteWrite, TypeOK
    <2>3. CASE FlipWrite(r) BY <1>a, <2>3 DEF FlipWrite, TypeOK
    <2>4. CASE SendRefused(r) BY <1>a, <2>4 DEF SendRefused, TypeOK
    <2>5. CASE SendEnqueue(r) BY <1>a, <2>5 DEF SendEnqueue, TypeOK
    <2>6. CASE SendMark(r) BY <1>a, <2>6 DEF SendMark, TypeOK
    <2>7. CASE Fetch(r) BY <1>a, <2>7 DEF Fetch, TypeOK
    <2>8. CASE EventsDone(r) BY <1>a, <2>8 DEF EventsDone, TypeOK
    <2>9. ASSUME NEW d \in Deliveries, Emit(r, d) PROVE TypeOK' /\ failures <= failures'
      <3>1. Webhooks!Produce(d) BY <2>9 DEF Emit, Webhooks!Produce
      <3>2. Webhooks!TypeOK' /\ failures <= failures'
        BY <3>1, WebhooksTypeOK DEF TypeOK
      <3> QED BY <2>9, <3>2 DEF Emit, TypeOK
    <2>10. CASE EmitSend(r) \/ EmitFails(r)
      <3>1. \E d \in Deliveries : Webhooks!Produce(d)
        BY <2>10 DEF EmitSend, EmitFails, TypeOK, Webhooks!Produce
      <3>2. Webhooks!TypeOK' /\ failures <= failures'
        BY <3>1, WebhooksTypeOK DEF TypeOK
      <3> QED BY <2>10, <3>2 DEF EmitSend, EmitFails, TypeOK
    <2>11. CASE RequestFails(r)
      BY <1>0, <2>11, QuotesAssumption DEF RequestFails, TypeOK, Webhooks!TypeOK
    <2> QED BY <1>3, <2>1, <2>2, <2>3, <2>4, <2>5, <2>6, <2>7, <2>8, <2>9, <2>10, <2>11
            DEF Continue
  <1>4. CASE Deliver
    <2>1. Webhooks!TypeOK' /\ failures <= failures' BY <1>4, WebhooksTypeOK DEF TypeOK
    <2> QED BY <1>4, <2>1 DEF Deliver, TypeOK
  <1>5. CASE UNCHANGED vars BY <1>a, <1>5 DEF vars, TypeOK
  <1> QED BY <1>1, <1>2, <1>3, <1>4, <1>5 DEF Next

(* Every variable keeps its type; no message is redelivered beyond the limit. *)
THEOREM TypeCorrect == Spec => []TypeOK
  BY InitTypeOK, NextTypeOK, PTL DEF Spec
-----------------------------------------------------------------------------
(* Settled quotes: a request that starts finds the quote no draft, and those under *)
(* way are no longer at a write of a draft.                                        *)

LEMMA SettledStep ==
  ASSUME TypeOK, [Next]_vars, NEW q \in QuoteIds, Settled(q)
  PROVE  KeepsSettled(q)
  <1> USE DEF TypeOK, Settled, Pending, KeepsSettled, Exists, Goto, Begin, SetStatus, Flips,
              quoteVars, requestVars
  <1>1. ASSUME NEW p \in QuoteIds, Create(p) PROVE KeepsSettled(q)
    BY <1>1 DEF Create
  <1>2. ASSUME NEW r \in Requests, NEW p \in QuoteIds, Start(r, p) PROVE KeepsSettled(q)
    BY <1>2 DEF Start, EditRead, DeleteRead, FlipRead, SendRead, IsDraft
  <1>3. ASSUME NEW r \in Requests, Continue(r) \/ EmitFails(r) \/ RequestFails(r)
        PROVE  KeepsSettled(q)
    <2>1. CASE EditWrite(r) BY <2>1 DEF EditWrite
    <2>2. CASE DeleteWrite(r) BY <2>2 DEF DeleteWrite
    <2>3. CASE FlipWrite(r) BY <2>3 DEF FlipWrite
    <2>4. CASE SendRefused(r) BY <2>4 DEF SendRefused
    <2>5. CASE SendEnqueue(r) BY <2>5 DEF SendEnqueue
    <2>6. CASE SendMark(r) BY <2>6 DEF SendMark
    <2>7. CASE Fetch(r) BY <2>7 DEF Fetch
    <2>8. CASE EventsDone(r) BY <2>8 DEF EventsDone
    <2>9. CASE \E d \in Deliveries : Emit(r, d) BY <2>9 DEF Emit
    <2>10. CASE EmitSend(r) BY <2>10 DEF EmitSend
    <2>11. CASE EmitFails(r) BY <2>11 DEF EmitFails
    <2>12. CASE RequestFails(r) BY <2>12 DEF RequestFails
    <2> QED BY <1>3, <2>1, <2>2, <2>3, <2>4, <2>5, <2>6, <2>7, <2>8, <2>9, <2>10, <2>11,
               <2>12 DEF Continue
  <1>4. CASE Deliver BY <1>4 DEF Deliver
  <1>5. CASE UNCHANGED vars BY <1>5 DEF vars
  <1> QED BY <1>1, <1>2, <1>3, <1>4, <1>5 DEF Next

(* Once a quote is no draft and the requests that read it as one are over, it is   *)
(* never edited, deleted or messaged again.                                        *)
THEOREM SettledQuotesStay == Spec => SettledStays
  <1>1. TypeOK /\ [Next]_vars => [\A q \in QuoteIds : Settled(q) => KeepsSettled(q)]_vars
    BY SettledStep
  <1> QED BY <1>1, TypeCorrect, PTL DEF Spec, SettledStays

-----------------------------------------------------------------------------
(* Messages: a draft was messaged only by requests that have still to mark it, and *)
(* by requests that died there.                                                    *)
At(q, p) == {r \in Requests : subject[r] = q /\ pc[r] = p}
Untouched(q) == messages[q] = 0 /\ \A r \in Requests : pc[r] # "idle" => subject[r] # q

MessagesInvOf(q) ==
  /\ status[q] = "none" => Untouched(q)
  /\ status[q] = "draft" => messages[q] <= failures + Cardinality(At(q, "mark"))
  /\ messages[q] + Cardinality(At(q, "enqueue")) <= Cardinality(Requests) + failures

MessagesInv == TypeOK /\ \A q \in QuoteIds : MessagesInvOf(q)

LEMMA AtFinite ==
  ASSUME NEW q, NEW p
  PROVE  /\ IsFiniteSet(At(q, p)) /\ Cardinality(At(q, p)) \in Nat
         /\ Cardinality(At(q, p)) <= Cardinality(Requests)
         /\ Cardinality(Requests) \in Nat
  <1>1. At(q, p) \subseteq Requests BY DEF At
  <1> QED BY <1>1, QuotesAssumption, FS_Subset, FS_CardinalityType

LEMMA NextAtFinite ==
  ASSUME NEW q, NEW p
  PROVE  IsFiniteSet(At(q, p)') /\ Cardinality(At(q, p)') \in Nat
  <1>1. At(q, p)' \subseteq Requests BY DEF At
  <1> QED BY <1>1, QuotesAssumption, FS_Subset, FS_CardinalityType

(* A step that neither starts a send of q nor goes on with one it may regret. *)
Quiet(q) ==
  /\ messages'[q] = messages[q]
  /\ At(q, "enqueue")' \subseteq At(q, "enqueue")
  /\ status'[q] = "draft" => /\ status[q] = "draft"
                             /\ At(q, "mark") \subseteq At(q, "mark")'
  /\ status'[q] = "none" => status[q] = "none" /\ (Untouched(q) => Untouched(q)')

(* The others. *)
MessagesStep(q) ==
  \/ Quiet(q)
  \/ Create(q)
  \/ \E r \in Requests : SendRead(r, q) \/ (SendEnqueue(r) /\ subject[r] = q)
  \/ \E r \in At(q, "mark") : RequestFails(r)

LEMMA NextMessagesStep ==
  ASSUME TypeOK, [Next]_vars, NEW q \in QuoteIds
  PROVE  MessagesStep(q)
  <1> USE DEF TypeOK, Quiet, Untouched, At, Exists, Goto, Begin, SetStatus, Flips,
              quoteVars, requestVars
  <1>1. ASSUME NEW p \in QuoteIds, Create(p) PROVE MessagesStep(q)
    <2>1. CASE p = q BY <1>1, <2>1 DEF MessagesStep
    <2>2. CASE p # q
      <3>1. Quiet(q) BY <1>1, <2>2 DEF Create
      <3> QED BY <3>1 DEF MessagesStep
    <2> QED BY <2>1, <2>2
  <1>2. ASSUME NEW r \in Requests, NEW p \in QuoteIds, Start(r, p) PROVE MessagesStep(q)
    <2>1. CASE EditRead(r, p) \/ DeleteRead(r, p) \/ FlipRead(r, p)
      <3>1. Quiet(q) BY <2>1 DEF EditRead, DeleteRead, FlipRead, IsDraft
      <3> QED BY <3>1 DEF MessagesStep
    <2>2. CASE SendRead(r, p) /\ p # q
      <3>1. Quiet(q) BY <2>2 DEF SendRead, IsDraft
      <3> QED BY <3>1 DEF MessagesStep
    <2> QED BY <1>2, <2>1, <2>2 DEF Start, MessagesStep
  <1>3. ASSUME NEW r \in Requests, Continue(r) \/ EmitFails(r) \/ RequestFails(r)
        PROVE  MessagesStep(q)
    <2>1. CASE SendEnqueue(r) /\ subject[r] = q BY <2>1 DEF MessagesStep
    <2>2. CASE RequestFails(r) /\ r \in At(q, "mark") BY <2>2 DEF MessagesStep
    <2>3. ASSUME ~(SendEnqueue(r) /\ subject[r] = q), ~(RequestFails(r) /\ r \in At(q, "mark"))
          PROVE  Quiet(q)
      <3>1. CASE EditWrite(r) BY <3>1 DEF EditWrite
      <3>2. CASE DeleteWrite(r) BY <3>2 DEF DeleteWrite
      <3>3. CASE FlipWrite(r) BY <3>3 DEF FlipWrite
      <3>4. CASE SendRefused(r) BY <3>4 DEF SendRefused
      <3>5. CASE SendEnqueue(r) BY <2>3, <3>5 DEF SendEnqueue
      <3>6. CASE SendMark(r) BY <3>6 DEF SendMark
      <3>7. CASE Fetch(r) BY <3>7 DEF Fetch
      <3>8. CASE EventsDone(r) BY <3>8 DEF EventsDone
      <3>9. CASE \E d \in Deliveries : Emit(r, d) BY <3>9 DEF Emit
      <3>10. CASE EmitSend(r) BY <3>10 DEF EmitSend
      <3>11. CASE EmitFails(r) BY <3>11 DEF EmitFails
      <3>12. CASE RequestFails(r) BY <2>3, <3>12 DEF RequestFails
      <3> QED BY <1>3, <3>1, <3>2, <3>3, <3>4, <3>5, <3>6, <3>7, <3>8, <3>9, <3>10, <3>11,
                 <3>12 DEF Continue
    <2> QED BY <2>1, <2>2, <2>3 DEF MessagesStep
  <1>4. CASE Deliver BY <1>4 DEF Deliver, MessagesStep
  <1>5. CASE UNCHANGED vars BY <1>5 DEF vars, MessagesStep
  <1> QED BY <1>1, <1>2, <1>3, <1>4, <1>5 DEF Next
LEMMA NextMessagesInv == MessagesInv /\ [Next]_vars => MessagesInv'
  <1> SUFFICES ASSUME MessagesInv, [Next]_vars, NEW q \in QuoteIds PROVE MessagesInvOf(q)'
    BY NextTypeOK DEF MessagesInv
  <1>1. TypeOK /\ TypeOK' /\ failures <= failures' /\ MessagesInvOf(q)
    BY NextTypeOK DEF MessagesInv
  <1>2. /\ failures \in Nat /\ failures' \in Nat
        /\ messages[q] \in Nat /\ messages'[q] \in Nat
    BY <1>1, QuotesAssumption DEF TypeOK, Webhooks!TypeOK
  <1> DEFINE E == At(q, "enqueue")
             M == At(q, "mark")
             N == Cardinality(Requests)
  <1>3. /\ IsFiniteSet(E) /\ IsFiniteSet(M) /\ N \in Nat
        /\ Cardinality(E) \in Nat /\ Cardinality(M) \in Nat
        /\ IsFiniteSet(E') /\ IsFiniteSet(M')
        /\ Cardinality(E') \in Nat /\ Cardinality(M') \in Nat
    BY AtFinite, NextAtFinite
  <1>4. CASE Quiet(q)
    <2>1. Cardinality(E') <= Cardinality(E) BY <1>3, <1>4, FS_Subset DEF Quiet
    <2>2. status'[q] = "draft" => status[q] = "draft" /\ Cardinality(M) <= Cardinality(M')
      BY <1>3, <1>4, FS_Subset DEF Quiet
    <2>3. messages'[q] = messages[q] BY <1>4 DEF Quiet
    <2> HIDE DEF E, M, N
    <2>4. status'[q] = "draft" => messages'[q] <= failures' + Cardinality(M')
      BY <1>1, <1>2, <1>3, <2>2, <2>3 DEF MessagesInvOf, M
    <2>5. messages'[q] + Cardinality(E') <= N + failures'
      BY <1>1, <1>2, <1>3, <2>1, <2>3 DEF MessagesInvOf, E, N
    <2>6. status'[q] = "none" => Untouched(q)'
      BY <1>1, <1>4 DEF Quiet, MessagesInvOf
    <2> QED BY <2>4, <2>5, <2>6 DEF MessagesInvOf, E, M, N
  <1>5. CASE Create(q)
    <2>1. /\ E' = E /\ messages'[q] = messages[q] /\ status'[q] = "draft"
          /\ Untouched(q)
      BY <1>1, <1>5 DEF Create, At, requestVars, MessagesInvOf, TypeOK
    <2>2. messages'[q] <= failures' + Cardinality(M')
      BY <1>2, <1>3, <2>1 DEF Untouched
    <2>3. messages'[q] + Cardinality(E') <= N + failures'
      BY <1>1, <1>2, <1>3, <2>1 DEF MessagesInvOf
    <2> QED BY <2>1, <2>2, <2>3 DEF MessagesInvOf
  <1>6. ASSUME NEW r \in Requests, SendRead(r, q) PROVE MessagesInvOf(q)'
    <2>1. /\ M' = M /\ messages'[q] = messages[q]
          /\ status'[q] = "draft" /\ status[q] = "draft"
      BY <1>1, <1>6 DEF SendRead, IsDraft, Begin, Goto, At, quoteVars, TypeOK
    <2>2. messages'[q] <= failures' + Cardinality(M')
      BY <1>1, <1>2, <1>3, <2>1 DEF MessagesInvOf
    <2>3. E' \cap M' = {} /\ E' \cup M' \subseteq Requests BY DEF At
    <2>4. Cardinality(E') + Cardinality(M') <= N
      <3>1. Cardinality(E' \cup M') <= N BY <2>3, QuotesAssumption, FS_Subset
      <3>2. Cardinality(E' \cap M') = 0 BY <2>3, FS_EmptySet
      <3>3. Cardinality(E' \cup M') = Cardinality(E') + Cardinality(M') - Cardinality(E' \cap M')
        BY <1>3, FS_Union
      <3> QED BY <1>3, <3>1, <3>2, <3>3
    <2>5. messages'[q] + Cardinality(E') <= N + failures'
      BY <1>2, <1>3, <2>2, <2>4
    <2> QED BY <2>1, <2>2, <2>5 DEF MessagesInvOf
  <1>7. ASSUME NEW r \in Requests, SendEnqueue(r), subject[r] = q PROVE MessagesInvOf(q)'
    <2>1. /\ r \in E /\ E' = E \ {r} /\ r \notin M /\ M' = M \cup {r}
          /\ messages'[q] = messages[q] + 1 /\ status'[q] = status[q]
      BY <1>1, <1>7 DEF SendEnqueue, Goto, At, TypeOK
    <2>2. Cardinality(E') = Cardinality(E) - 1 /\ Cardinality(M') = Cardinality(M) + 1
      BY <1>3, <2>1, FS_RemoveElement, FS_AddElement
    <2>3. status[q] # "none"
      BY <1>1, <1>7 DEF SendEnqueue, MessagesInvOf, Untouched
    <2>4. status'[q] = "draft" => messages'[q] <= failures' + Cardinality(M')
      BY <1>1, <1>2, <1>3, <2>1, <2>2 DEF MessagesInvOf
    <2>5. messages'[q] + Cardinality(E') <= N + failures'
      BY <1>1, <1>2, <1>3, <2>1, <2>2 DEF MessagesInvOf
    <2> QED BY <2>1, <2>3, <2>4, <2>5 DEF MessagesInvOf
  <1>8. ASSUME NEW r \in M, RequestFails(r) PROVE MessagesInvOf(q)'
    <2>1. /\ E' = E /\ M' = M \ {r} /\ messages'[q] = messages[q]
          /\ status'[q] = status[q] /\ failures' = failures + 1
      BY <1>1, <1>8 DEF RequestFails, Goto, At, TypeOK, quoteVars
    <2>2. Cardinality(M') = Cardinality(M) - 1 BY <1>3, <1>8, <2>1, FS_RemoveElement
    <2>3. status[q] # "none" BY <1>1, <1>8 DEF At, MessagesInvOf, Untouched
    <2>4. status'[q] = "draft" => messages'[q] <= failures' + Cardinality(M')
      BY <1>1, <1>2, <1>3, <2>1, <2>2 DEF MessagesInvOf
    <2>5. messages'[q] + Cardinality(E') <= N + failures'
      BY <1>1, <1>2, <1>3, <2>1 DEF MessagesInvOf
    <2> QED BY <2>1, <2>3, <2>4, <2>5 DEF MessagesInvOf
  <1> QED BY <1>1, <1>4, <1>5, <1>6, <1>7, <1>8, NextMessagesStep DEF MessagesStep

LEMMA InitMessagesInv == Init => MessagesInv
  <1> SUFFICES ASSUME Init, NEW q \in QuoteIds PROVE MessagesInvOf(q)
    BY InitTypeOK DEF MessagesInv
  <1>1. At(q, "enqueue") = {} BY DEF Init, At
  <1>2. Cardinality(At(q, "enqueue")) = 0 BY <1>1, FS_EmptySet
  <1>3. status[q] = "none" /\ Untouched(q) /\ messages[q] = 0 /\ failures = 0
    BY DEF Init, Untouched, Webhooks!Init
  <1>4. Cardinality(Requests) \in Nat BY AtFinite
  <1> QED BY <1>2, <1>3, <1>4 DEF MessagesInvOf

(* A quote is messaged at most once by each of the requests in progress together,  *)
(* and once more for each request that died before it marked the quote.            *)
THEOREM FewMessages == Spec => []MessagesBounded
  <1>1. MessagesInv => MessagesBounded
    <2> SUFFICES ASSUME MessagesInv, NEW q \in QuoteIds
                 PROVE  messages[q] <= Cardinality(Requests) + failures
      BY DEF MessagesBounded
    <2>1. /\ Cardinality(At(q, "enqueue")) \in Nat /\ Cardinality(Requests) \in Nat
          /\ messages[q] \in Nat /\ failures \in Nat
      BY AtFinite, QuotesAssumption DEF MessagesInv, TypeOK, Webhooks!TypeOK
    <2> QED BY <2>1 DEF MessagesInv, MessagesInvOf
  <1> QED BY <1>1, InitMessagesInv, NextMessagesInv, PTL DEF Spec
-----------------------------------------------------------------------------
(* Deliveries: a message is only at markDelivered after an answer, and answers are *)
(* not forgotten.                                                                  *)
AnswerFirst == \A m \in Webhooks!Messages : at[m] = "ok" => Webhooks!Of(m) \in answered

AnswerInv == TypeOK /\ AnswerFirst /\ DeliveredWasAnswered

LEMMA ProduceAnswer ==
  ASSUME AnswerInv, NEW d \in Deliveries, Webhooks!Produce(d)
  PROVE  AnswerFirst' /\ DeliveredWasAnswered'
  <1> USE DEF AnswerInv, AnswerFirst, DeliveredWasAnswered, Webhooks!DeliveredWasAnswered,
              TypeOK, Webhooks!TypeOK
  <1>1. CASE Webhooks!InsertDelivery(d) BY <1>1 DEF Webhooks!InsertDelivery
  <1>2. CASE Webhooks!SendDelivery(d) BY <1>2 DEF Webhooks!SendDelivery
  <1>3. CASE Webhooks!SendDeliveryFails(d) BY <1>3 DEF Webhooks!SendDeliveryFails
  <1> QED BY <1>1, <1>2, <1>3 DEF Webhooks!Produce

LEMMA ConsumeAnswer ==
  ASSUME AnswerInv, NEW m \in Webhooks!Messages, Webhooks!Consume(m)
  PROVE  AnswerFirst' /\ DeliveredWasAnswered'
  <1> USE DEF AnswerInv, AnswerFirst, DeliveredWasAnswered, Webhooks!DeliveredWasAnswered,
              TypeOK, Webhooks!TypeOK, Webhooks!Goto, Webhooks!Record
  <1> Webhooks!Of(m) \in Deliveries BY DEF Webhooks!Of, Webhooks!Messages
  <1>1. CASE Webhooks!Deliver(m) BY <1>1 DEF Webhooks!Deliver
  <1>2. CASE Webhooks!Post(m) BY <1>2 DEF Webhooks!Post
  <1>3. CASE Webhooks!MarkDelivered(m) BY <1>3 DEF Webhooks!MarkDelivered
  <1>4. CASE Webhooks!MarkFailed(m) BY <1>4 DEF Webhooks!MarkFailed
  <1>5. CASE Webhooks!MarkDlq(m) BY <1>5 DEF Webhooks!MarkDlq
  <1>6. CASE Webhooks!MarkPending(m) BY <1>6 DEF Webhooks!MarkPending
  <1>7. CASE Webhooks!Resend(m) BY <1>7 DEF Webhooks!Resend
  <1>8. CASE Webhooks!ProcessRetry(m) BY <1>8 DEF Webhooks!ProcessRetry
  <1>9. CASE Webhooks!Fails(m) BY <1>9 DEF Webhooks!Fails, Webhooks!Again
  <1>10. CASE Webhooks!ResendFails(m) BY <1>10 DEF Webhooks!ResendFails, Webhooks!Again
  <1>11. CASE Webhooks!ProcessRetryFails(m)
    <2> DEFINE sibling == Webhooks!NewChild(Webhooks!Parent(m))
    <2>1. /\ at' = [at EXCEPT ![m] = "queue", ![sibling] = "retry"]
          /\ row' = row /\ answered' = answered
      BY <1>11 DEF Webhooks!ProcessRetryFails
    <2> HIDE DEF sibling
    <2> QED BY <2>1
  <1> QED BY <1>1, <1>2, <1>3, <1>4, <1>5, <1>6, <1>7, <1>8, <1>9, <1>10, <1>11
          DEF Webhooks!Consume, Webhooks!Handle

LEMMA NextAnswerInv == AnswerInv /\ [Next]_vars => AnswerInv'
  <1> SUFFICES ASSUME AnswerInv, [Next]_vars PROVE AnswerFirst' /\ DeliveredWasAnswered'
    BY NextTypeOK DEF AnswerInv
  <1>1. ASSUME NEW r \in Requests, NEW d \in Deliveries, Emit(r, d)
        PROVE  AnswerFirst' /\ DeliveredWasAnswered'
    BY <1>1, ProduceAnswer DEF Emit, Webhooks!Produce
  <1>2. ASSUME NEW r \in Requests, EmitSend(r) \/ EmitFails(r)
        PROVE  AnswerFirst' /\ DeliveredWasAnswered'
    <2>1. \E d \in Deliveries : Webhooks!Produce(d)
      BY <1>2 DEF EmitSend, EmitFails, AnswerInv, TypeOK, Webhooks!Produce
    <2> QED BY <2>1, ProduceAnswer
  <1>3. CASE Deliver BY <1>3, ConsumeAnswer DEF Deliver
  <1>4. ASSUME UNCHANGED <<row, at, answered>> PROVE AnswerFirst' /\ DeliveredWasAnswered'
    BY <1>4 DEF AnswerInv, AnswerFirst, DeliveredWasAnswered, Webhooks!DeliveredWasAnswered
  <1>5. \/ UNCHANGED <<row, at, answered>> \/ Deliver
        \/ \E r \in Requests : \/ \E d \in Deliveries : Emit(r, d)
                               \/ EmitSend(r) \/ EmitFails(r)
    <2> USE DEF webhookVars, Begin
    <2>1. ASSUME NEW q \in QuoteIds, Create(q) PROVE UNCHANGED <<row, at, answered>>
      BY <2>1 DEF Create
    <2>2. ASSUME NEW r \in Requests, NEW q \in QuoteIds, Start(r, q)
          PROVE  UNCHANGED <<row, at, answered>>
      BY <2>2 DEF Start, EditRead, DeleteRead, FlipRead, SendRead
    <2>3. ASSUME NEW r \in Requests,
                 \/ EditWrite(r) \/ DeleteWrite(r) \/ FlipWrite(r) \/ SendRefused(r)
                 \/ SendEnqueue(r) \/ SendMark(r) \/ Fetch(r) \/ EventsDone(r)
                 \/ RequestFails(r)
          PROVE  UNCHANGED <<row, at, answered>>
      BY <2>3 DEF EditWrite, DeleteWrite, FlipWrite, SendRefused, SendEnqueue, SendMark,
                  Fetch, EventsDone, RequestFails
    <2>4. CASE UNCHANGED vars BY <2>4 DEF vars
    <2> QED BY <2>1, <2>2, <2>3, <2>4 DEF Next, Continue
  <1> QED BY <1>1, <1>2, <1>3, <1>4, <1>5

(* A delivery recorded as 'delivered' was answered with a 2xx. *)
THEOREM DeliveredIsTrue == Spec => []DeliveredWasAnswered
  <1>1. Init => AnswerInv
    BY InitTypeOK DEF Init, AnswerInv, AnswerFirst, DeliveredWasAnswered,
       Webhooks!DeliveredWasAnswered, Webhooks!Init
  <1>2. AnswerInv => DeliveredWasAnswered BY DEF AnswerInv
  <1> QED BY <1>1, <1>2, NextAnswerInv, PTL DEF Spec
-----------------------------------------------------------------------------
(* Deliveries: where failures show.  A message without a failure is handled once,  *)
(* and its one successor has the number 0.                                         *)
Depth(m) == Len(m[2])
Plain(m) == \A i \in 1..Depth(m) : m[2][i] = 0

Spoils(m) == tries[m] > 0 \/ at[m] = "dropped" \/ (at[m] # "none" /\ ~Plain(m))

MessagesOf(d) == {m \in Webhooks!Messages : Webhooks!Of(m) = d}

Spoilt(d) == \E m \in MessagesOf(d) : Spoils(m)

Spoiled == {d \in Deliveries : Spoilt(d)}

(* Resending needs an attempt to be left, and only follow-ups wait in icrv-retry.  *)
Room ==
  \A m \in Webhooks!Messages : /\ at[m] = "resend" => Depth(m) + 1 < MaxAttempts
                               /\ at[m] = "retry" => Depth(m) > 0

(* The messages of a delivery without a failure follow one another.                *)
Chained(d) ==
  \A m, n \in MessagesOf(d) :
    at[m] # "none" /\ at[n] # "none" /\ Depth(m) < Depth(n) => at[m] = "acked"

Begun(d) ==
  /\ \A m \in MessagesOf(d) : at[m] # "none" => at[Webhooks!First(d)] # "none" /\ row[d] # "none"
  /\ d \in answered => at[Webhooks!First(d)] # "none"

(* What its row says when they are over, and before. *)
Told(d) ==
  /\ d \in answered => \/ row[d] = "delivered" /\ Webhooks!AtRest(d)
                       \/ \E m \in MessagesOf(d) : at[m] = "ok"
  /\ row[d] = "pending" /\ at[Webhooks!First(d)] # "none" => ~Webhooks!AtRest(d)

(* What holds of a delivery without a failure. *)
Clean(d) == ~Spoilt(d) /\ Chained(d) /\ Begun(d) /\ Told(d)

CleanInv == \A d \in Deliveries : Spoilt(d) \/ Clean(d)

SpoiledInv ==
  /\ TypeOK /\ Room /\ CleanInv
  /\ Spoiled # {} => failures > 0
  /\ Cardinality(Spoiled) <= failures

-----------------------------------------------------------------------------
(* The POSTs that are to come without further failures, one by one.                *)
Due(m) ==
  CASE at[m] \in {"queue", "retry", "post"} -> MaxAttempts - Depth(m)
    [] at[m] \in {"again", "resend"}        -> MaxAttempts - Depth(m) - 1
    [] at[m] = "none" /\ Depth(m) = 0       -> MaxAttempts
    [] OTHER                                -> 0

Ahead(d) == {p \in MessagesOf(d) \X (1..MaxAttempts) : p[2] <= Due(p[1])}

PostsInvOf(d) ==
  /\ IsFiniteSet(Ahead(d))
  /\ posts[d] + Cardinality(Ahead(d)) <= MaxAttempts * (1 + failures)
-----------------------------------------------------------------------------
(* The names of messages. *)
LEMMA NameIsSequence ==
  ASSUME NEW m \in Webhooks!Messages
  PROVE  /\ m = <<Webhooks!Of(m), m[2]>> /\ Webhooks!Of(m) \in Deliveries
         /\ m[2] \in Seq(0..MaxFailures) /\ DOMAIN m[2] = 1..Depth(m)
         /\ Depth(m) \in Nat /\ Depth(m) < MaxAttempts
         /\ m \in MessagesOf(Webhooks!Of(m))
  <1>1. m = <<m[1], m[2]>> /\ m[1] \in Deliveries /\ m[2] \in Webhooks!Names
    BY DEF Webhooks!Messages
  <1>2. PICK k \in 0..(MaxAttempts - 1) : m[2] \in [1..k -> 0..MaxFailures]
    BY <1>1 DEF Webhooks!Names
  <1>3. m[2] \in Seq(0..MaxFailures) BY <1>2, QuotesAssumption, SeqDef
  <1>4. Len(m[2]) = k /\ DOMAIN m[2] = 1..k
    <2>1. DOMAIN m[2] = 1..k BY <1>2
    <2> QED BY <1>2, <1>3, <2>1, LenProperties
  <1> QED BY <1>1, <1>2, <1>3, <1>4, QuotesAssumption DEF Depth, Webhooks!Of, MessagesOf

LEMMA SequenceIsName ==
  ASSUME NEW d \in Deliveries, NEW s \in Seq(0..MaxFailures), Len(s) < MaxAttempts
  PROVE  <<d, s>> \in MessagesOf(d) /\ <<d, s>> \in Webhooks!Messages /\ Depth(<<d, s>>) = Len(s)
  <1>1. Len(s) \in Nat /\ s \in [1..Len(s) -> 0..MaxFailures] BY LenProperties
  <1>2. Len(s) \in 0..(MaxAttempts - 1) BY <1>1, QuotesAssumption
  <1>3. s \in Webhooks!Names BY <1>1, <1>2 DEF Webhooks!Names
  <1> QED BY <1>3 DEF MessagesOf, Webhooks!Messages, Webhooks!Of, Depth

LEMMA FirstIsMessage ==
  ASSUME NEW d \in Deliveries
  PROVE  /\ Webhooks!First(d) \in MessagesOf(d) /\ Webhooks!First(d) \in Webhooks!Messages
         /\ Webhooks!Of(Webhooks!First(d)) = d
         /\ Depth(Webhooks!First(d)) = 0 /\ Plain(Webhooks!First(d))
         /\ \A m \in MessagesOf(d) : Depth(m) = 0 => m = Webhooks!First(d)
  <1>1. <<>> \in Seq(0..MaxFailures) /\ Len(<<>>) = 0 /\ 0 < MaxAttempts
    BY QuotesAssumption
  <1>2. /\ Webhooks!First(d) \in MessagesOf(d) /\ Webhooks!First(d) \in Webhooks!Messages
        /\ Webhooks!Of(Webhooks!First(d)) = d /\ Depth(Webhooks!First(d)) = 0
    BY <1>1, SequenceIsName DEF Webhooks!First, Webhooks!Of
  <1>3. ASSUME NEW m \in MessagesOf(d), Depth(m) = 0 PROVE m = Webhooks!First(d)
    <2>1. m = <<Webhooks!Of(m), m[2]>> /\ m[2] \in Seq(0..MaxFailures) /\ Webhooks!Of(m) = d
      BY NameIsSequence DEF MessagesOf
    <2>2. m[2] = <<>> BY <2>1, <1>3 DEF Depth
    <2> QED BY <2>1, <2>2 DEF Webhooks!First
  <1> QED BY <1>2, <1>3 DEF Plain

LEMMA ChildIsMessage ==
  ASSUME NEW m \in Webhooks!Messages, Depth(m) + 1 < MaxAttempts, NEW i \in 0..MaxFailures
  PROVE  /\ Webhooks!Child(m, i) \in MessagesOf(Webhooks!Of(m))
         /\ Webhooks!Child(m, i) \in Webhooks!Messages
         /\ Webhooks!Of(Webhooks!Child(m, i)) = Webhooks!Of(m)
         /\ Depth(Webhooks!Child(m, i)) = Depth(m) + 1
         /\ Plain(Webhooks!Child(m, i)) <=> Plain(m) /\ i = 0
  <1> DEFINE s == Append(m[2], i)
             d == Webhooks!Of(m)
  <1>1. /\ s \in Seq(0..MaxFailures) /\ Len(s) = Depth(m) + 1 /\ Depth(m) \in Nat
        /\ \A j \in 1..Depth(m) : s[j] = m[2][j]
        /\ s[Depth(m) + 1] = i
    BY NameIsSequence DEF Depth
  <1>2. Webhooks!Child(m, i) = <<d, s>> /\ d \in Deliveries
    BY NameIsSequence DEF Webhooks!Child
  <1> HIDE DEF s, d
  <1>3. /\ <<d, s>> \in MessagesOf(d) /\ <<d, s>> \in Webhooks!Messages
        /\ Depth(<<d, s>>) = Depth(m) + 1
    BY <1>1, <1>2, SequenceIsName
  <1>4. Plain(<<d, s>>) <=> Plain(m) /\ i = 0
    BY <1>1, <1>3 DEF Plain
  <1> QED BY <1>2, <1>3, <1>4 DEF MessagesOf, d

LEMMA NewChildOf == \A m : Webhooks!Of(Webhooks!NewChild(m)) = Webhooks!Of(m)
  BY DEF Webhooks!NewChild, Webhooks!Child, Webhooks!Of

LEMMA ParentOf == \A m : Webhooks!Of(Webhooks!Parent(m)) = Webhooks!Of(m)
  BY DEF Webhooks!Parent, Webhooks!Of

LEMMA PlainIsUnique ==
  ASSUME NEW d, NEW m \in MessagesOf(d), NEW n \in MessagesOf(d),
         Depth(m) = Depth(n), Plain(m), Plain(n)
  PROVE  m = n
  <1>1. /\ m = <<d, m[2]>> /\ m[2] \in Seq(0..MaxFailures) /\ DOMAIN m[2] = 1..Depth(m)
        /\ n = <<d, n[2]>> /\ n[2] \in Seq(0..MaxFailures) /\ DOMAIN n[2] = 1..Depth(m)
    BY NameIsSequence DEF MessagesOf
  <1>2. \A i \in 1..Depth(m) : m[2][i] = n[2][i] BY DEF Plain
  <1>3. m[2] = n[2] BY <1>1, <1>2, SeqEqual DEF Depth
  <1> QED BY <1>1, <1>3

LEMMA ChildOfParent ==
  ASSUME NEW m \in Webhooks!Messages, Depth(m) > 0
  PROVE  /\ Webhooks!Parent(m) \in MessagesOf(Webhooks!Of(m))
         /\ Webhooks!Parent(m) \in Webhooks!Messages
         /\ Depth(Webhooks!Parent(m)) + 1 = Depth(m)
         /\ \E i \in 0..MaxFailures : m = Webhooks!Child(Webhooks!Parent(m), i)
  <1> DEFINE s == SubSeq(m[2], 1, Len(m[2]) - 1)
             d == Webhooks!Of(m)
             i == m[2][Len(m[2])]
  <1>1. /\ m = <<d, m[2]>> /\ d \in Deliveries /\ m[2] \in Seq(0..MaxFailures)
        /\ Depth(m) \in Nat /\ Depth(m) < MaxAttempts
    BY NameIsSequence
  <1>2. /\ s \in Seq(0..MaxFailures) /\ Len(s) = Depth(m) - 1 /\ i \in 0..MaxFailures
        /\ m[2] = Append(s, i)
    <2>1. Depth(m) \in 1..Depth(m) /\ Depth(m) = Len(m[2]) /\ Len(m[2]) \in Nat
      BY <1>1 DEF Depth
    <2>2. i \in 0..MaxFailures BY <1>1, <2>1, ElementOfSeq
    <2>3. \A j \in 1..(Len(m[2]) - 1) : m[2][j] \in 0..MaxFailures
      <3>1. \A j \in 1..(Len(m[2]) - 1) : j \in 1..Len(m[2]) BY <2>1
      <3> QED BY <1>1, <3>1, ElementOfSeq
    <2>4. /\ s \in Seq(0..MaxFailures) /\ Len(s) = Len(m[2]) - 1
          /\ \A j \in 1..(Len(m[2]) - 1) : s[j] = m[2][j]
      BY <2>1, <2>3, SubSeqProperties
    <2> HIDE DEF s, i
    <2>5. /\ Append(s, i) \in Seq(0..MaxFailures) /\ Len(Append(s, i)) = Len(m[2])
          /\ \A j \in 1..Len(s) : Append(s, i)[j] = s[j]
          /\ Append(s, i)[Len(m[2])] = i
      BY <2>1, <2>2, <2>4, AppendProperties
    <2>6. \A j \in 1..Len(m[2]) : Append(s, i)[j] = m[2][j]
      BY <2>1, <2>4, <2>5 DEF i
    <2>7. m[2] = Append(s, i) BY <1>1, <2>5, <2>6, SeqEqual
    <2> QED BY <2>1, <2>2, <2>4, <2>7
  <1>3. Webhooks!Parent(m) = <<d, s>> BY DEF Webhooks!Parent
  <1>4. Webhooks!Child(<<d, s>>, i) = <<d, Append(s, i)>>
    BY DEF Webhooks!Child, Webhooks!Of
  <1> HIDE DEF s, d, i
  <1>5. /\ <<d, s>> \in MessagesOf(d) /\ <<d, s>> \in Webhooks!Messages
        /\ Depth(<<d, s>>) = Depth(m) - 1
    BY <1>1, <1>2, SequenceIsName, QuotesAssumption
  <1>6. m = Webhooks!Child(<<d, s>>, i)
    <2>1. m = <<d, m[2]>> BY <1>1 DEF d
    <2> QED BY <1>2, <1>4, <2>1
  <1>7. Webhooks!Parent(m) \in MessagesOf(d) /\ Webhooks!Parent(m) \in Webhooks!Messages
    BY <1>3, <1>5
  <1>8. Depth(Webhooks!Parent(m)) = Depth(m) - 1 BY <1>3, <1>5
  <1>9. Depth(Webhooks!Parent(m)) + 1 = Depth(m) BY <1>1, <1>8
  <1>10. i \in 0..MaxFailures /\ m = Webhooks!Child(Webhooks!Parent(m), i)
    BY <1>2, <1>3, <1>6
  <1> QED BY <1>7, <1>9, <1>10 DEF d

-----------------------------------------------------------------------------
(* What a step does to the deliveries. *)
LEMMA WebhookStep ==
  ASSUME TypeOK, [Next]_vars
  PROVE  \/ UNCHANGED <<row, at, tries, posts, answered>> /\ failures' \in {failures, failures + 1}
         \/ \E m \in Webhooks!Messages : Webhooks!Consume(m)
         \/ \E d \in Deliveries : Webhooks!Produce(d)
  <1> DEFINE Still == UNCHANGED <<row, at, tries, posts, answered>>
                      /\ failures' \in {failures, failures + 1}
             Produced == \E d \in Deliveries : Webhooks!Produce(d)
  <1> USE DEF webhookVars, Begin
  <1>1. ASSUME NEW q \in QuoteIds, Create(q) PROVE Still
    BY <1>1 DEF Create
  <1>2. ASSUME NEW r \in Requests, NEW q \in QuoteIds, Start(r, q) PROVE Still
    BY <1>2 DEF Start, EditRead, DeleteRead, FlipRead, SendRead
  <1>3. ASSUME NEW r \in Requests,
               \/ EditWrite(r) \/ DeleteWrite(r) \/ FlipWrite(r) \/ SendRefused(r)
               \/ SendEnqueue(r) \/ SendMark(r) \/ Fetch(r) \/ EventsDone(r)
               \/ RequestFails(r)
        PROVE  Still
    BY <1>3 DEF EditWrite, DeleteWrite, FlipWrite, SendRefused, SendEnqueue, SendMark,
                Fetch, EventsDone, RequestFails
  <1>4. ASSUME NEW r \in Requests, NEW d \in Deliveries, Emit(r, d) PROVE Produced
    BY <1>4 DEF Emit, Webhooks!Produce
  <1>5. ASSUME NEW r \in Requests, EmitSend(r) \/ EmitFails(r) PROVE Produced
    BY <1>5 DEF EmitSend, EmitFails, TypeOK, Webhooks!Produce
  <1>6. CASE UNCHANGED vars BY <1>6 DEF vars
  <1> QED BY <1>1, <1>2, <1>3, <1>4, <1>5, <1>6 DEF Next, Continue, Deliver

(* A message only concerns its delivery. *)
LEMMA OthersKept ==
  ASSUME TypeOK, NEW m \in Webhooks!Messages, Webhooks!Consume(m)
  PROVE  /\ \A n \in Webhooks!Messages :
              Webhooks!Of(n) # Webhooks!Of(m) => at'[n] = at[n] /\ tries'[n] = tries[n]
         /\ \A d \in Deliveries :
              d # Webhooks!Of(m) => /\ row'[d] = row[d] /\ posts'[d] = posts[d]
                                    /\ d \in answered' <=> d \in answered
         /\ failures' \in {failures, failures + 1}
  <1> DEFINE Goal ==
         /\ \A n \in Webhooks!Messages :
              Webhooks!Of(n) # Webhooks!Of(m) => at'[n] = at[n] /\ tries'[n] = tries[n]
         /\ \A d \in Deliveries :
              d # Webhooks!Of(m) => /\ row'[d] = row[d] /\ posts'[d] = posts[d]
                                    /\ d \in answered' <=> d \in answered
         /\ failures' \in {failures, failures + 1}
  <1>0. PICK child, sibling :
          /\ child = Webhooks!NewChild(m) /\ sibling = Webhooks!NewChild(Webhooks!Parent(m))
          /\ Webhooks!Of(child) = Webhooks!Of(m) /\ Webhooks!Of(sibling) = Webhooks!Of(m)
    <2>1. /\ Webhooks!Of(Webhooks!NewChild(m)) = Webhooks!Of(m)
          /\ Webhooks!Of(Webhooks!NewChild(Webhooks!Parent(m))) = Webhooks!Of(m)
      BY NewChildOf, ParentOf
    <2> QED BY <2>1
  <1> USE NameIsSequence DEF TypeOK, Webhooks!TypeOK, Webhooks!Goto, Webhooks!Record
  <1>1. CASE Webhooks!Deliver(m) BY <1>1 DEF Webhooks!Deliver
  <1>2. CASE Webhooks!Post(m) BY <1>2 DEF Webhooks!Post
  <1>3. CASE Webhooks!MarkDelivered(m) BY <1>3 DEF Webhooks!MarkDelivered
  <1>4. CASE Webhooks!MarkFailed(m) BY <1>4 DEF Webhooks!MarkFailed
  <1>5. CASE Webhooks!MarkDlq(m) BY <1>5 DEF Webhooks!MarkDlq
  <1>6. CASE Webhooks!MarkPending(m) BY <1>6 DEF Webhooks!MarkPending
  <1>7. CASE Webhooks!Resend(m)
    <2>1. /\ at' = [at EXCEPT ![child] = "retry", ![m] = "acked"]
          /\ UNCHANGED <<row, tries, posts, answered, failures>>
      BY <1>0, <1>7 DEF Webhooks!Resend
    <2> QED BY <1>0, <2>1
  <1>8. CASE Webhooks!ProcessRetry(m) BY <1>8 DEF Webhooks!ProcessRetry
  <1>9. CASE Webhooks!Fails(m) BY <1>9 DEF Webhooks!Fails, Webhooks!Dies
  <1>10. CASE Webhooks!ResendFails(m)
    <2>1. /\ at' = [at EXCEPT ![child] = "retry", ![m] = Webhooks!Again(m)]
          /\ UNCHANGED <<row, posts, answered>> /\ Webhooks!Dies(m)
      BY <1>0, <1>10 DEF Webhooks!ResendFails
    <2> QED BY <1>0, <2>1 DEF Webhooks!Dies
  <1>11. CASE Webhooks!ProcessRetryFails(m)
    <2>1. /\ at' = [at EXCEPT ![m] = "queue", ![sibling] = "retry"]
          /\ UNCHANGED <<row, tries, posts, answered>> /\ failures' = failures + 1
      BY <1>0, <1>11 DEF Webhooks!ProcessRetryFails
    <2> QED BY <1>0, <2>1
  <1> QED BY <1>1, <1>2, <1>3, <1>4, <1>5, <1>6, <1>7, <1>8, <1>9, <1>10, <1>11
          DEF Webhooks!Consume, Webhooks!Handle

-----------------------------------------------------------------------------
(* Posts.  A POST uses one up of those to come, a retry passes the rest on to its  *)
(* successor, and a failure adds at most a round.                                  *)
Column(x, n) == {x} \X (1..n)

Keeps(d)  == posts'[d] = posts[d]
Lessens(d) ==
  Ahead(d)' \subseteq Ahead(d) /\ Keeps(d) /\ failures' \in {failures, failures + 1}
UsesOne(d) ==
  \E x \in Ahead(d) :
    Ahead(d)' \subseteq Ahead(d) \ {x} /\ posts'[d] = posts[d] + 1 /\ failures' = failures
PassesOn(d) ==
  \E x, y : \E n \in Nat :
    /\ Column(x, n) \subseteq Ahead(d)
    /\ Ahead(d)' \subseteq (Ahead(d) \ Column(x, n)) \cup Column(y, n)
    /\ Keeps(d) /\ failures' = failures
StartsOver(d) ==
  \E x, y :
    /\ Ahead(d)' \subseteq Ahead(d) \cup ({x} \cup Column(y, MaxAttempts - 1))
    /\ Keeps(d) /\ failures' = failures + 1

AheadEffect(d) == Lessens(d) \/ UsesOne(d) \/ PassesOn(d) \/ StartsOver(d)

LEMMA ColumnSize ==
  ASSUME NEW x, NEW n \in Nat
  PROVE  IsFiniteSet(Column(x, n)) /\ Cardinality(Column(x, n)) = n
  <1>1. IsFiniteSet({x}) /\ Cardinality({x}) = 1 BY FS_Singleton
  <1>2. 1 \in Int /\ n \in Int OBVIOUS
  <1>3. IsFiniteSet(1..n) /\ Cardinality(1..n) = IF 1 > n THEN 0 ELSE n - 1 + 1
    BY <1>2, FS_Interval
  <1>4. IsFiniteSet(1..n) /\ Cardinality(1..n) = n BY <1>3
  <1>5. /\ IsFiniteSet({x} \X (1..n))
        /\ Cardinality({x} \X (1..n)) = Cardinality({x}) * Cardinality(1..n)
    BY <1>1, <1>4, FS_Product
  <1>6. Cardinality({x} \X (1..n)) = 1 * n BY <1>1, <1>4, <1>5
  <1> QED BY <1>5, <1>6 DEF Column

LEMMA JoinedSize ==
  ASSUME NEW A, NEW C, NEW B, IsFiniteSet(A), IsFiniteSet(C), B \subseteq A \cup C
  PROVE  /\ IsFiniteSet(B) /\ Cardinality(B) \in Nat
         /\ Cardinality(B) <= Cardinality(A) + Cardinality(C)
  <1> DEFINE a == Cardinality(A)
             c == Cardinality(C)
             u == Cardinality(A \cup C)
             i == Cardinality(A \cap C)
             b == Cardinality(B)
  <1>1. IsFiniteSet(A \cup C) /\ u = a + c - i BY FS_Union
  <1>2. IsFiniteSet(A \cap C) BY FS_Intersection
  <1>3. a \in Nat /\ c \in Nat /\ u \in Nat /\ i \in Nat
    BY <1>1, <1>2, FS_CardinalityType
  <1>4. IsFiniteSet(B) /\ b <= u BY <1>1, FS_Subset
  <1>5. b \in Nat BY <1>4, FS_CardinalityType
  <1> HIDE DEF a, c, u, i, b
  <1>6. b <= a + c BY <1>1, <1>3, <1>4, <1>5
  <1> QED BY <1>4, <1>5, <1>6 DEF a, b, c

LEMMA DueKept ==
  ASSUME NEW m \in Webhooks!Messages, at'[m] = at[m] PROVE Due(m)' = Due(m)
  BY DEF Due, Depth

LEMMA AheadKept ==
  ASSUME NEW d, \A m \in MessagesOf(d) : at'[m] = at[m]
  PROVE  Ahead(d)' = Ahead(d)
  <1>1. \A m \in MessagesOf(d) : Due(m)' = Due(m) BY DueKept DEF MessagesOf
  <1> QED BY <1>1 DEF Ahead, MessagesOf

(* The effect of each action of a handler, on the message it handles. *)
LEMMA OneMoved ==
  ASSUME NEW m \in Webhooks!Messages,
         \A n \in Webhooks!Messages : n # m => at'[n] = at[n], Due(m)' <= Due(m),
         Due(m) \in Int, Due(m)' \in Int
  PROVE  Ahead(Webhooks!Of(m))' \subseteq Ahead(Webhooks!Of(m))
  <1>1. \A n \in MessagesOf(Webhooks!Of(m)) : n = m \/ Due(n)' = Due(n)
    BY DueKept DEF MessagesOf
  <1> DEFINE d == Webhooks!Of(m)
  <1>2. ASSUME NEW p \in MessagesOf(d) \X (1..MaxAttempts), p[2] <= Due(p[1])'
        PROVE  p[2] <= Due(p[1])
    <2>1. p[1] \in MessagesOf(d) /\ p[2] \in Int BY <1>2
    <2> QED BY <1>1, <1>2, <2>1
  <1> QED BY <1>2 DEF Ahead, MessagesOf

LEMMA ChildDepth ==
  ASSUME NEW m \in Webhooks!Messages
  PROVE  Depth(Webhooks!NewChild(m)) = Depth(m) + 1
  <1>1. \A i : Len(Append(m[2], i)) = Len(m[2]) + 1
    <2> TAKE i
    <2>1. m[2] \in Seq(0..MaxFailures) BY NameIsSequence
    <2>2. m[2] \in Seq(0..MaxFailures \cup {i}) BY <2>1, SeqMonotonic
    <2> QED BY <2>2, AppendProperties
  <1> QED BY <1>1 DEF Webhooks!NewChild, Webhooks!Child, Depth

LEMMA DueRange ==
  ASSUME NEW m \in Webhooks!Messages
  PROVE  Due(m) \in 0..MaxAttempts /\ Due(m)' \in 0..MaxAttempts
  BY NameIsSequence, QuotesAssumption DEF Due, Depth

(* Besides <<x, k>> and the column of y nothing comes to be ahead. *)
Adds(d, x, y, k) ==
  /\ Keeps(d) /\ failures' = failures + 1
  /\ \A p \in Ahead(d)' : \/ p[1] \notin {x, y} /\ at'[p[1]] = at[p[1]]
                          \/ p[2] <= Due(p[1])
                          \/ p = <<x, k>>
                          \/ p[1] = y /\ p[2] < MaxAttempts

LEMMA ConsumeAhead ==
  ASSUME TypeOK, Room, NEW m \in Webhooks!Messages, Webhooks!Consume(m)
  PROVE  AheadEffect(Webhooks!Of(m))
  <1> DEFINE d == Webhooks!Of(m)
  <1>0. PICK child, sibling :
          /\ child = Webhooks!NewChild(m) /\ sibling = Webhooks!NewChild(Webhooks!Parent(m))
          /\ Depth(child) = Depth(m) + 1
    BY ChildDepth
  <1>a. /\ d \in Deliveries /\ Depth(m) \in Nat /\ Depth(m) < MaxAttempts
        /\ m \in MessagesOf(d) /\ MaxAttempts \in Nat \ {0}
        /\ Due(m) \in 0..MaxAttempts /\ Due(m)' \in 0..MaxAttempts
        /\ Depth(m)' = Depth(m) /\ Depth(child)' = Depth(child)
        /\ \A p \in MessagesOf(d) \X (1..MaxAttempts) :
             /\ p = <<p[1], p[2]>> /\ p[1] \in MessagesOf(d) /\ p[2] \in 1..MaxAttempts
             /\ p[1] \in Webhooks!Messages /\ Due(p[1]) \in Int /\ Due(p[1])' \in Int
    BY NameIsSequence, DueRange, QuotesAssumption DEF MessagesOf, Depth
  <1>b. /\ \A p \in Ahead(d)' : p \in MessagesOf(d) \X (1..MaxAttempts) /\ p[2] <= Due(p[1])'
        /\ \A p \in MessagesOf(d) \X (1..MaxAttempts) : p[2] <= Due(p[1]) => p \in Ahead(d)
    BY DEF Ahead, MessagesOf
  <1>c. /\ at \in [Webhooks!Messages -> Webhooks!Places]
        /\ posts \in [Deliveries -> Nat] /\ failures \in Nat
    BY QuotesAssumption DEF TypeOK, Webhooks!TypeOK
  <1> SUFFICES AheadEffect(d) OBVIOUS
  <1> HIDE DEF d
  <1>d. ASSUME \A n \in Webhooks!Messages : n # m => at'[n] = at[n], Due(m)' <= Due(m),
               Keeps(d), failures' = failures
        PROVE  AheadEffect(d)
    BY <1>a, <1>c, <1>d, OneMoved DEF AheadEffect, Lessens, d
  <1>1. CASE Webhooks!Deliver(m)
    <2>1. at[m] = "queue" /\ at' = [at EXCEPT ![m] = "post"] /\ UNCHANGED <<posts, failures>>
      BY <1>1 DEF Webhooks!Deliver, Webhooks!Goto
    <2>2. Due(m)' = Due(m) BY <1>a, <1>c, <2>1 DEF Due
    <2> QED BY <1>a, <1>c, <1>d, <2>1, <2>2 DEF Keeps
  <1>2. CASE Webhooks!Post(m)
    <2>1. /\ at[m] = "post" /\ failures' = failures
          /\ posts' = [posts EXCEPT ![d] = @ + 1]
          /\ \E p \in {"ok", "refused", "again"} : at' = [at EXCEPT ![m] = p]
      BY <1>2 DEF Webhooks!Post, Webhooks!Goto, d
    <2>2. Due(m) = MaxAttempts - Depth(m) BY <2>1 DEF Due
    <2>3. Due(m)' <= Due(m) - 1 BY <1>a, <1>c, <2>1, <2>2 DEF Due
    <2>4. <<m, Due(m)>> \in Ahead(d)
      <3>1. <<m, Due(m)>> \in MessagesOf(d) \X (1..MaxAttempts) BY <1>a, <2>2
      <3> QED BY <1>a, <1>b, <3>1
    <2>5. \A n \in Webhooks!Messages : n # m => at'[n] = at[n] BY <1>c, <2>1
    <2>6. Ahead(d)' \subseteq Ahead(d) BY <1>a, <2>3, <2>5, OneMoved DEF d
    <2>7. <<m, Due(m)>> \notin Ahead(d)'
      <3> SUFFICES ASSUME <<m, Due(m)>> \in Ahead(d)' PROVE FALSE OBVIOUS
      <3>1. Due(m) <= Due(m)' BY <1>b
      <3> QED BY <1>a, <2>3, <3>1
    <2>8. posts'[d] = posts[d] + 1 BY <1>a, <1>c, <2>1
    <2> QED BY <2>1, <2>4, <2>6, <2>7, <2>8 DEF AheadEffect, UsesOne
  <1>3. CASE Webhooks!MarkDelivered(m) \/ Webhooks!MarkFailed(m) \/ Webhooks!MarkDlq(m)
    <2>1. at' = [at EXCEPT ![m] = "acked"] /\ UNCHANGED <<posts, failures>>
      BY <1>3 DEF Webhooks!MarkDelivered, Webhooks!MarkFailed, Webhooks!MarkDlq, Webhooks!Goto
    <2>2. Due(m)' = 0 BY <1>a, <1>c, <2>1 DEF Due
    <2> QED BY <1>a, <1>c, <1>d, <2>1, <2>2 DEF Keeps
  <1>4. CASE Webhooks!MarkPending(m)
    <2>1. /\ at[m] = "again" /\ at' = [at EXCEPT ![m] = "resend"]
          /\ UNCHANGED <<posts, failures>>
      BY <1>4 DEF Webhooks!MarkPending, Webhooks!Goto
    <2>2. Due(m)' = Due(m) BY <1>a, <1>c, <2>1 DEF Due
    <2> QED BY <1>a, <1>c, <1>d, <2>1, <2>2 DEF Keeps
  <1>5. CASE Webhooks!ProcessRetry(m)
    <2>1. at[m] = "retry" /\ at' = [at EXCEPT ![m] = "queue"] /\ UNCHANGED <<posts, failures>>
      BY <1>5 DEF Webhooks!ProcessRetry, Webhooks!Goto
    <2>2. Due(m)' = Due(m) BY <1>a, <1>c, <2>1 DEF Due
    <2> QED BY <1>a, <1>c, <1>d, <2>1, <2>2 DEF Keeps
  <1>6. CASE Webhooks!Resend(m)
    <2> DEFINE n == Due(m)
    <2>1. /\ at[m] = "resend" /\ at' = [at EXCEPT ![child] = "retry", ![m] = "acked"]
          /\ UNCHANGED <<posts, failures>>
      BY <1>0, <1>6 DEF Webhooks!Resend
    <2>2. n = MaxAttempts - Depth(m) - 1 /\ n \in Nat BY <1>a, <2>1 DEF Due
    <2>3. Due(m)' = 0 BY <1>a, <1>c, <2>1 DEF Due
    <2>4. child \in Webhooks!Messages /\ child # m => Due(child)' = n
      BY <1>0, <1>a, <1>c, <2>1, <2>2 DEF Due
    <2>5. \A k \in Webhooks!Messages : k = m \/ k = child \/ Due(k)' = Due(k)
      BY <1>c, <2>1, DueKept
    <2> HIDE DEF n
    <2>6. Column(m, n) \subseteq Ahead(d)
      <3> SUFFICES ASSUME NEW j \in 1..n PROVE <<m, j>> \in Ahead(d)
        BY DEF Column
      <3>1. <<m, j>> \in MessagesOf(d) \X (1..MaxAttempts) BY <1>a, <2>2
      <3> QED BY <1>a, <1>b, <2>2, <3>1 DEF n
    <2>7. Ahead(d)' \subseteq (Ahead(d) \ Column(m, n)) \cup Column(child, n)
      <3> SUFFICES ASSUME NEW p \in Ahead(d)'
                   PROVE  p \in (Ahead(d) \ Column(m, n)) \cup Column(child, n)
        OBVIOUS
      <3>1. /\ p = <<p[1], p[2]>> /\ p[1] \in Webhooks!Messages /\ p[2] \in 1..MaxAttempts
            /\ p[2] <= Due(p[1])' /\ p \in MessagesOf(d) \X (1..MaxAttempts)
        BY <1>a, <1>b
      <3>2. p[1] # m BY <2>3, <3>1
      <3>3. CASE p[1] = child
        <4>1. Due(p[1])' = n BY <2>4, <3>1, <3>2, <3>3
        <4>2. p[2] \in 1..n BY <2>2, <3>1, <4>1
        <4> QED BY <3>1, <3>3, <4>2 DEF Column
      <3>4. CASE p[1] # child
        <4>1. Due(p[1])' = Due(p[1]) BY <2>5, <3>1, <3>2, <3>4
        <4>2. p \in Ahead(d) BY <1>b, <3>1, <4>1
        <4>3. p \notin Column(m, n) BY <3>1, <3>2 DEF Column
        <4> QED BY <4>2, <4>3
      <3> QED BY <3>3, <3>4
    <2> QED BY <2>1, <2>2, <2>6, <2>7 DEF AheadEffect, PassesOn, Keeps
  <1>7. ASSUME NEW x, NEW y, NEW k, Adds(d, x, y, k) PROVE AheadEffect(d)
    <2>1. ASSUME NEW p \in Ahead(d)'
          PROVE  p \in Ahead(d) \cup ({<<x, k>>} \cup Column(y, MaxAttempts - 1))
      <3>1. /\ p = <<p[1], p[2]>> /\ p[1] \in Webhooks!Messages /\ p[2] \in 1..MaxAttempts
            /\ p[2] <= Due(p[1])' /\ p \in MessagesOf(d) \X (1..MaxAttempts)
        BY <1>a, <1>b
      <3>2. CASE at'[p[1]] = at[p[1]]
        BY <1>b, <3>1, <3>2, DueKept
      <3>3. CASE p[2] <= Due(p[1]) BY <1>b, <3>1, <3>3
      <3>4. CASE p[1] = y /\ p[2] < MaxAttempts
        <4>1. p[2] \in 1..(MaxAttempts - 1) BY <1>a, <3>1, <3>4
        <4> QED BY <3>1, <3>4, <4>1 DEF Column
      <3> QED BY <1>7, <3>2, <3>3, <3>4 DEF Adds
    <2> QED BY <1>7, <2>1 DEF AheadEffect, StartsOver, Adds
  <1>8. CASE Webhooks!Fails(m)
    <2>1. /\ at' = [at EXCEPT ![m] = Webhooks!Again(m)]
          /\ posts' = posts /\ failures' = failures + 1
      BY <1>8 DEF Webhooks!Fails, Webhooks!Dies, Webhooks!Goto
    <2>2. \A p \in Ahead(d)' : \/ p[1] # m /\ at'[p[1]] = at[p[1]]
                               \/ p = <<m, MaxAttempts>>
                               \/ p[1] = m /\ p[2] < MaxAttempts
      BY <1>a, <1>b, <1>c, <2>1
    <2>3. Adds(d, m, m, MaxAttempts) BY <2>1, <2>2 DEF Adds, Keeps
    <2> QED BY <1>7, <2>3
  <1>9. CASE Webhooks!ResendFails(m)
    <2>1. /\ at[m] = "resend"
          /\ at' = [at EXCEPT ![child] = "retry", ![m] = Webhooks!Again(m)]
          /\ posts' = posts /\ failures' = failures + 1
      BY <1>0, <1>9 DEF Webhooks!ResendFails, Webhooks!Dies
    <2>2. /\ Due(m) = MaxAttempts - Depth(m) - 1 /\ Due(m)' <= MaxAttempts - Depth(m)
          /\ Due(m) + 1 \in 1..MaxAttempts
      BY <1>a, <1>c, <2>1 DEF Due, Webhooks!Again
    <2>3. child \in Webhooks!Messages /\ child # m => Due(child)' < MaxAttempts
      BY <1>0, <1>a, <1>c, <2>1 DEF Due
    <2>4. ASSUME NEW p \in Ahead(d)'
          PROVE  \/ p[1] \notin {m, child} /\ at'[p[1]] = at[p[1]]
                 \/ p[2] <= Due(p[1])
                 \/ p = <<m, Due(m) + 1>>
                 \/ p[1] = child /\ p[2] < MaxAttempts
      <3>1. /\ p = <<p[1], p[2]>> /\ p[1] \in Webhooks!Messages /\ p[2] \in 1..MaxAttempts
            /\ p[2] <= Due(p[1])' /\ Due(p[1])' \in Int
        BY <1>a, <1>b
      <3>2. CASE p[1] = m BY <1>a, <2>2, <3>1, <3>2
      <3>3. CASE p[1] = child /\ child # m
        <4>1. Due(p[1])' < MaxAttempts BY <2>3, <3>1, <3>3
        <4> QED BY <1>a, <3>1, <3>3, <4>1
      <3>4. CASE p[1] \notin {m, child} BY <1>c, <2>1, <3>1, <3>4
      <3> QED BY <3>2, <3>3, <3>4
    <2>5. Adds(d, m, child, Due(m) + 1) BY <2>1, <2>4 DEF Adds, Keeps
    <2> QED BY <1>7, <2>5
  <1>10. CASE Webhooks!ProcessRetryFails(m)
    <2>1. /\ at[m] = "retry" /\ at' = [at EXCEPT ![m] = "queue", ![sibling] = "retry"]
          /\ posts' = posts /\ failures' = failures + 1
      BY <1>0, <1>10 DEF Webhooks!ProcessRetryFails
    <2>2. Due(m)' = Due(m) BY <1>a, <1>c, <2>1 DEF Due
    <2>3. ASSUME NEW p \in Ahead(d)'
          PROVE  \/ p[1] \notin {sibling} /\ at'[p[1]] = at[p[1]]
                 \/ p[2] <= Due(p[1])
                 \/ p = <<sibling, MaxAttempts>>
                 \/ p[1] = sibling /\ p[2] < MaxAttempts
      <3>1. /\ p = <<p[1], p[2]>> /\ p[1] \in Webhooks!Messages /\ p[2] \in 1..MaxAttempts
            /\ p[2] <= Due(p[1])'
        BY <1>a, <1>b
      <3>2. CASE p[1] = m BY <2>2, <3>1, <3>2
      <3>3. CASE p[1] = sibling BY <1>a, <3>1, <3>3
      <3>4. CASE p[1] # m /\ p[1] # sibling BY <1>c, <2>1, <3>1, <3>4
      <3> QED BY <3>2, <3>3, <3>4
    <2>4. Adds(d, sibling, sibling, MaxAttempts) BY <2>1, <2>3 DEF Adds, Keeps
    <2> QED BY <1>7, <2>4
  <1> QED BY <1>1, <1>2, <1>3, <1>4, <1>5, <1>6, <1>8, <1>9, <1>10
          DEF Webhooks!Consume, Webhooks!Handle

LEMMA ConsumeRoom ==
  ASSUME TypeOK, Room, NEW m \in Webhooks!Messages, Webhooks!Consume(m)
  PROVE  Room'
  <1>0. PICK child, sibling :
          /\ child = Webhooks!NewChild(m) /\ sibling = Webhooks!NewChild(Webhooks!Parent(m))
          /\ Depth(child) = Depth(m) + 1
          /\ at[m] = "retry" => Depth(sibling) = Depth(m)
    <2>1. at[m] = "retry" => /\ Webhooks!Parent(m) \in Webhooks!Messages
                             /\ Depth(Webhooks!Parent(m)) + 1 = Depth(m)
      BY ChildOfParent DEF Room
    <2> QED BY <2>1, ChildDepth
  <1>a. /\ at \in [Webhooks!Messages -> Webhooks!Places]
        /\ \A n \in Webhooks!Messages : Depth(n) \in Nat
    BY NameIsSequence DEF TypeOK, Webhooks!TypeOK
  <1>b. ASSUME NEW at2, at2 = at',
               \A n \in Webhooks!Messages : /\ at2[n] = "resend" => Depth(n) + 1 < MaxAttempts
                                            /\ at2[n] = "retry" => Depth(n) > 0
        PROVE  Room'
    BY <1>b DEF Room, Depth
  <1> USE <1>a DEF Room, Webhooks!Goto
  <1>1. CASE Webhooks!Deliver(m) BY <1>b, <1>1 DEF Webhooks!Deliver
  <1>2. CASE Webhooks!Post(m) BY <1>b, <1>2 DEF Webhooks!Post
  <1>3. CASE Webhooks!MarkDelivered(m) BY <1>b, <1>3 DEF Webhooks!MarkDelivered
  <1>4. CASE Webhooks!MarkFailed(m) BY <1>b, <1>4 DEF Webhooks!MarkFailed
  <1>5. CASE Webhooks!MarkDlq(m) BY <1>b, <1>5 DEF Webhooks!MarkDlq
  <1>6. CASE Webhooks!MarkPending(m)
    BY <1>b, <1>6 DEF Webhooks!MarkPending, Webhooks!Number, Depth
  <1>7. CASE Webhooks!Resend(m)
    <2>1. at' = [at EXCEPT ![child] = "retry", ![m] = "acked"]
      BY <1>0, <1>7 DEF Webhooks!Resend
    <2> QED BY <1>b, <1>0, <2>1
  <1>8. CASE Webhooks!ProcessRetry(m) BY <1>b, <1>8 DEF Webhooks!ProcessRetry
  <1>9. CASE Webhooks!Fails(m) BY <1>b, <1>9 DEF Webhooks!Fails, Webhooks!Again
  <1>10. CASE Webhooks!ResendFails(m)
    <2>1. at' = [at EXCEPT ![child] = "retry", ![m] = Webhooks!Again(m)]
      BY <1>0, <1>10 DEF Webhooks!ResendFails
    <2> QED BY <1>b, <1>0, <2>1 DEF Webhooks!Again
  <1>11. CASE Webhooks!ProcessRetryFails(m)
    <2>1. at[m] = "retry" /\ at' = [at EXCEPT ![m] = "queue", ![sibling] = "retry"]
      BY <1>0, <1>11 DEF Webhooks!ProcessRetryFails
    <2> QED BY <1>b, <1>0, <2>1
  <1> QED BY <1>1, <1>2, <1>3, <1>4, <1>5, <1>6, <1>7, <1>8, <1>9, <1>10, <1>11
          DEF Webhooks!Consume, Webhooks!Handle

LEMMA ProduceSteps ==
  ASSUME TypeOK, NEW d \in Deliveries, Webhooks!Produce(d)
  PROVE  /\ UNCHANGED <<tries, posts, answered>>
         /\ \A e \in Deliveries : e # d => row'[e] = row[e]
         /\ \A m \in Webhooks!Messages : m # Webhooks!First(d) => at'[m] = at[m]
         /\ \/ /\ row[d] = "none" /\ row'[d] = "pending"
               /\ at' = at /\ failures' = failures
            \/ /\ at[Webhooks!First(d)] = "none" /\ at'[Webhooks!First(d)] = "queue"
               /\ row[d] # "none" /\ row' = row /\ failures' = failures
            \/ /\ at[Webhooks!First(d)] = "none" /\ at'[Webhooks!First(d)] = "dropped"
               /\ row[d] # "none" /\ row' = row /\ failures' = failures + 1
  <1>1. Webhooks!First(d) \in Webhooks!Messages BY FirstIsMessage
  <1>2. PICK first : first = Webhooks!First(d) OBVIOUS
  <1> USE <1>1, <1>2 DEF TypeOK, Webhooks!TypeOK
  <1>3. CASE Webhooks!InsertDelivery(d) BY <1>3 DEF Webhooks!InsertDelivery
  <1>4. CASE Webhooks!SendDelivery(d)
    <2>1. at' = [at EXCEPT ![first] = "queue"] BY <1>4 DEF Webhooks!SendDelivery
    <2> QED BY <1>4, <2>1 DEF Webhooks!SendDelivery
  <1>5. CASE Webhooks!SendDeliveryFails(d)
    <2>1. at' = [at EXCEPT ![first] = "dropped"] BY <1>5 DEF Webhooks!SendDeliveryFails
    <2> QED BY <1>5, <2>1 DEF Webhooks!SendDeliveryFails
  <1> QED BY <1>3, <1>4, <1>5 DEF Webhooks!Produce

LEMMA ProduceRoom ==
  ASSUME TypeOK, Room, NEW d \in Deliveries, Webhooks!Produce(d) PROVE Room'
  BY ProduceSteps, FirstIsMessage DEF Room, Depth

LEMMA EffectPosts ==
  ASSUME TypeOK, TypeOK', NEW d \in Deliveries, PostsInvOf(d), AheadEffect(d)
  PROVE  PostsInvOf(d)'
  <1> DEFINE n == Cardinality(Ahead(d))
             n2 == Cardinality(Ahead(d)')
             now == MaxAttempts * (1 + failures)
             next == MaxAttempts * (1 + failures')
  <1>1. /\ failures \in Nat /\ failures' \in Nat /\ MaxAttempts \in Nat \ {0}
        /\ posts[d] \in Nat /\ posts'[d] \in Nat
    BY QuotesAssumption DEF TypeOK, Webhooks!TypeOK
  <1>2. now \in Nat /\ (failures' = failures => next = now)
    <2>1. \A a, f \in Nat : a * (1 + f) \in Nat OBVIOUS
    <2>2. now \in Nat BY <1>1, <2>1
    <2>3. failures' = failures => next = now OBVIOUS
    <2> QED BY <2>2, <2>3
  <1>3. failures' = failures + 1 => next = now + MaxAttempts
    <2>1. \A a, f \in Nat : a * (1 + (f + 1)) = a * (1 + f) + a OBVIOUS
    <2> QED BY <1>1, <2>1
  <1>4. IsFiniteSet(Ahead(d)) /\ n \in Nat /\ posts[d] + n <= now
    BY FS_CardinalityType DEF PostsInvOf
  <1>5. SUFFICES IsFiniteSet(Ahead(d)') /\ n2 \in Nat /\ posts'[d] + n2 <= next
    BY DEF PostsInvOf
  <1> HIDE DEF n, n2, now, next
  <1>6. CASE Lessens(d)
    <2>1. IsFiniteSet(Ahead(d)') /\ n2 <= n
      BY <1>4, <1>6, FS_Subset DEF Lessens, n, n2
    <2>2. n2 \in Nat BY <2>1, FS_CardinalityType DEF n2
    <2> QED BY <1>1, <1>2, <1>3, <1>4, <1>6, <2>1, <2>2 DEF Lessens, Keeps
  <1>7. CASE UsesOne(d)
    <2>1. PICK x \in Ahead(d) : /\ Ahead(d)' \subseteq Ahead(d) \ {x}
                                /\ posts'[d] = posts[d] + 1 /\ failures' = failures
      BY <1>7 DEF UsesOne
    <2>2. IsFiniteSet(Ahead(d) \ {x}) /\ Cardinality(Ahead(d) \ {x}) = n - 1
      BY <1>4, FS_RemoveElement DEF n
    <2>3. IsFiniteSet(Ahead(d)') /\ n2 <= n - 1
      BY <2>1, <2>2, FS_Subset DEF n2
    <2>4. n2 \in Nat BY <2>3, FS_CardinalityType DEF n2
    <2> QED BY <1>1, <1>2, <1>4, <2>1, <2>3, <2>4
  <1>8. CASE PassesOn(d)
    <2>1. PICK x, y : \E k \in Nat :
            /\ Column(x, k) \subseteq Ahead(d)
            /\ Ahead(d)' \subseteq (Ahead(d) \ Column(x, k)) \cup Column(y, k)
            /\ Keeps(d) /\ failures' = failures
      BY <1>8 DEF PassesOn
    <2>2. PICK k \in Nat :
            /\ Column(x, k) \subseteq Ahead(d)
            /\ Ahead(d)' \subseteq (Ahead(d) \ Column(x, k)) \cup Column(y, k)
            /\ Keeps(d) /\ failures' = failures
      BY <2>1
    <2>3. Ahead(d) \cap Column(x, k) = Column(x, k) BY <2>2
    <2>4. /\ IsFiniteSet(Ahead(d) \ Column(x, k))
          /\ Cardinality(Ahead(d) \ Column(x, k)) = n - k
      <3>1. Cardinality(Ahead(d) \cap Column(x, k)) = k BY <2>3, ColumnSize
      <3>2. /\ IsFiniteSet(Ahead(d) \ Column(x, k))
            /\ Cardinality(Ahead(d) \ Column(x, k))
                 = Cardinality(Ahead(d)) - Cardinality(Ahead(d) \cap Column(x, k))
        BY <1>4, FS_Difference
      <3> QED BY <3>1, <3>2 DEF n
    <2>5. /\ IsFiniteSet(Ahead(d)') /\ n2 \in Nat
          /\ n2 <= Cardinality(Ahead(d) \ Column(x, k)) + Cardinality(Column(y, k))
      BY <2>2, <2>4, ColumnSize, JoinedSize DEF n2
    <2>6. n2 <= (n - k) + k BY <2>4, <2>5, ColumnSize
    <2> QED BY <1>1, <1>2, <1>4, <2>2, <2>5, <2>6 DEF Keeps
  <1>9. CASE StartsOver(d)
    <2>1. PICK x, y :
            /\ Ahead(d)' \subseteq Ahead(d) \cup ({x} \cup Column(y, MaxAttempts - 1))
            /\ Keeps(d) /\ failures' = failures + 1
      BY <1>9 DEF StartsOver
    <2> DEFINE more == {x} \cup Column(y, MaxAttempts - 1)
    <2>2. IsFiniteSet({x}) /\ Cardinality({x}) = 1 BY FS_Singleton
    <2>3. MaxAttempts - 1 \in Nat BY <1>1
    <2>4. /\ IsFiniteSet(Column(y, MaxAttempts - 1))
          /\ Cardinality(Column(y, MaxAttempts - 1)) = MaxAttempts - 1
      BY <2>3, ColumnSize
    <2>5. IsFiniteSet(more) /\ Cardinality(more) \in Nat
          /\ Cardinality(more) <= Cardinality({x}) + Cardinality(Column(y, MaxAttempts - 1))
      BY <2>2, <2>4, JoinedSize
    <2>6. Cardinality(more) <= MaxAttempts BY <1>1, <2>2, <2>4, <2>5
    <2> HIDE DEF more
    <2>7. IsFiniteSet(Ahead(d)') /\ n2 \in Nat /\ n2 <= n + Cardinality(more)
      BY <1>4, <2>1, <2>5, JoinedSize DEF n, n2, more
    <2> QED BY <1>1, <1>3, <1>4, <2>1, <2>5, <2>6, <2>7, <1>2 DEF Keeps
  <1> QED BY <1>6, <1>7, <1>8, <1>9 DEF AheadEffect

PostsInv == TypeOK /\ Room /\ \A d \in Deliveries : PostsInvOf(d)

LEMMA NextPostsInv == PostsInv /\ [Next]_vars => PostsInv'
  <1> SUFFICES ASSUME PostsInv, [Next]_vars PROVE PostsInv'
    OBVIOUS
  <1>1. TypeOK /\ TypeOK' /\ Room BY NextTypeOK DEF PostsInv
  <1>2. (\A d \in Deliveries : AheadEffect(d)) => \A d \in Deliveries : PostsInvOf(d)'
    BY <1>1, EffectPosts DEF PostsInv
  <1>3. CASE UNCHANGED <<row, at, tries, posts, answered>>
             /\ failures' \in {failures, failures + 1}
    <2>1. Room' BY <1>1, <1>3 DEF Room, Depth
    <2>2. \A d \in Deliveries : Ahead(d)' = Ahead(d) BY <1>3, AheadKept
    <2>3. \A d \in Deliveries : AheadEffect(d)
      BY <1>3, <2>2 DEF AheadEffect, Lessens, Keeps
    <2> QED BY <1>1, <1>2, <2>1, <2>3 DEF PostsInv
  <1>4. ASSUME NEW m \in Webhooks!Messages, Webhooks!Consume(m) PROVE PostsInv'
    <2>1. Room' BY <1>1, <1>4, ConsumeRoom
    <2>2. ASSUME NEW d \in Deliveries PROVE AheadEffect(d)
      <3>1. CASE d = Webhooks!Of(m) BY <1>1, <1>4, <3>1, ConsumeAhead
      <3>2. CASE d # Webhooks!Of(m)
        <4>1. /\ \A n \in MessagesOf(d) : at'[n] = at[n]
              /\ posts'[d] = posts[d] /\ failures' \in {failures, failures + 1}
          BY <1>1, <1>4, <3>2, OthersKept DEF MessagesOf
        <4>2. Ahead(d)' = Ahead(d) BY <4>1, AheadKept
        <4> QED BY <4>1, <4>2 DEF AheadEffect, Lessens, Keeps
      <3> QED BY <3>1, <3>2
    <2> QED BY <1>1, <1>2, <2>1, <2>2 DEF PostsInv
  <1>5. ASSUME NEW c \in Deliveries, Webhooks!Produce(c) PROVE PostsInv'
    <2>1. Room' BY <1>1, <1>5, ProduceRoom
    <2>2. ASSUME NEW d \in Deliveries PROVE AheadEffect(d)
      <3>1. posts' = posts /\ failures' \in {failures, failures + 1}
        BY <1>1, <1>5, ProduceSteps
      <3>2. CASE d = c
        <4>1. /\ Webhooks!First(c) \in Webhooks!Messages /\ Depth(Webhooks!First(c)) = 0
              /\ Webhooks!Of(Webhooks!First(c)) = c
          BY FirstIsMessage
        <4>2. PICK f \in Webhooks!Messages : f = Webhooks!First(c) BY <4>1
        <4>3. /\ \A n \in Webhooks!Messages : n # f => at'[n] = at[n]
              /\ \/ at' = at
                 \/ at[f] = "none" /\ at'[f] \in {"queue", "dropped"}
          BY <1>1, <1>5, <4>2, ProduceSteps
        <4>4. Due(f)' <= Due(f) /\ Due(f) \in Int /\ Due(f)' \in Int
          <5>1. Due(f) \in 0..MaxAttempts /\ Due(f)' \in 0..MaxAttempts BY DueRange
          <5>2. CASE at' = at BY <5>1, <5>2, DueKept
          <5>3. CASE at[f] = "none" /\ at'[f] \in {"queue", "dropped"}
            <6>1. Due(f) = MaxAttempts BY <4>1, <4>2, <5>3 DEF Due
            <6> QED BY <5>1, <6>1
          <5> QED BY <4>3, <5>2, <5>3
        <4>5. Ahead(d)' \subseteq Ahead(d) BY <3>2, <4>1, <4>2, <4>3, <4>4, OneMoved
        <4> QED BY <3>1, <4>5 DEF AheadEffect, Lessens, Keeps
      <3>3. CASE d # c
        <4>1. \A n \in MessagesOf(d) : at'[n] = at[n]
          BY <1>1, <1>5, <3>3, ProduceSteps, FirstIsMessage DEF MessagesOf
        <4>2. Ahead(d)' = Ahead(d) BY <4>1, AheadKept
        <4> QED BY <3>1, <4>2 DEF AheadEffect, Lessens, Keeps
      <3> QED BY <3>2, <3>3
    <2> QED BY <1>1, <1>2, <2>1, <2>2 DEF PostsInv
  <1> QED BY <1>1, <1>3, <1>4, <1>5, WebhookStep

LEMMA InitPostsInv == Init => PostsInv
  <1> SUFFICES ASSUME Init PROVE PostsInv OBVIOUS
  <1>1. TypeOK BY InitTypeOK
  <1>2. /\ \A m \in Webhooks!Messages : at[m] = "none"
        /\ \A d \in Deliveries : posts[d] = 0
        /\ failures = 0 /\ MaxAttempts \in Nat
    BY QuotesAssumption DEF Init, Webhooks!Init
  <1>3. Room BY <1>2 DEF Room
  <1>4. ASSUME NEW d \in Deliveries PROVE PostsInvOf(d)
    <2>1. Ahead(d) \subseteq Column(Webhooks!First(d), MaxAttempts)
      <3> SUFFICES ASSUME NEW p \in Ahead(d)
                   PROVE  p \in Column(Webhooks!First(d), MaxAttempts)
        OBVIOUS
      <3>1. /\ p = <<p[1], p[2]>> /\ p[1] \in MessagesOf(d) /\ p[2] \in 1..MaxAttempts
            /\ p[2] <= Due(p[1]) /\ at[p[1]] = "none"
        BY <1>2 DEF Ahead, MessagesOf
      <3>2. Depth(p[1]) = 0 BY <3>1 DEF Due
      <3>3. p[1] = Webhooks!First(d) BY <3>1, <3>2, FirstIsMessage
      <3> QED BY <3>1, <3>3 DEF Column
    <2>2. /\ IsFiniteSet(Column(Webhooks!First(d), MaxAttempts))
          /\ Cardinality(Column(Webhooks!First(d), MaxAttempts)) = MaxAttempts
      BY <1>2, ColumnSize
    <2>3. /\ IsFiniteSet(Ahead(d))
          /\ Cardinality(Ahead(d)) <= Cardinality(Column(Webhooks!First(d), MaxAttempts))
      BY <2>1, <2>2, FS_Subset
    <2>4. Cardinality(Ahead(d)) <= MaxAttempts /\ Cardinality(Ahead(d)) \in Nat
      BY <2>2, <2>3, FS_CardinalityType
    <2> QED BY <1>2, <2>3, <2>4 DEF PostsInvOf
  <1> QED BY <1>1, <1>3, <1>4 DEF PostsInv

LEMMA PostsInvBounds == PostsInv => Webhooks!PostsBounded
  <1> SUFFICES ASSUME PostsInv, NEW d \in Deliveries
               PROVE  posts[d] <= MaxAttempts * (1 + failures)
    BY DEF Webhooks!PostsBounded
  <1> DEFINE budget == MaxAttempts * (1 + failures)
             n == Cardinality(Ahead(d))
  <1>1. /\ posts[d] \in Nat /\ failures \in Nat /\ MaxAttempts \in Nat
    BY QuotesAssumption DEF PostsInv, TypeOK, Webhooks!TypeOK
  <1>2. budget \in Nat
    <2>1. \A a, f \in Nat : a * (1 + f) \in Nat OBVIOUS
    <2> QED BY <1>1, <2>1
  <1>3. posts[d] + n <= budget /\ n \in Nat
    BY FS_CardinalityType DEF PostsInv, PostsInvOf
  <1> HIDE DEF budget, n
  <1>4. posts[d] <= budget BY <1>1, <1>2, <1>3
  <1> QED BY <1>4 DEF budget

-----------------------------------------------------------------------------
(* What failures spoil.  A delivery without one goes along its one chain. *)
(* Only one message of a delivery without a failure is on its way. *)
LEMMA OneLive ==
  ASSUME NEW d \in Deliveries, ~Spoilt(d), Chained(d),
         NEW m \in MessagesOf(d), NEW n \in MessagesOf(d),
         at[m] \notin {"none", "acked"}, at[n] \notin {"none", "acked"}
  PROVE  m = n
  <1>1. Depth(m) \in Nat /\ Depth(n) \in Nat BY NameIsSequence DEF MessagesOf
  <1>2. Plain(m) /\ Plain(n) BY DEF Spoilt, Spoils
  <1>3. Depth(m) = Depth(n) BY <1>1 DEF Chained
  <1> QED BY <1>2, <1>3, PlainIsUnique

(* It is followed by its child of number 0, and this one is free. *)
LEMMA NextInChain ==
  ASSUME NEW m \in Webhooks!Messages, ~Spoilt(Webhooks!Of(m)), Chained(Webhooks!Of(m)),
         Depth(m) + 1 < MaxAttempts, at[m] \notin {"none", "acked"}
  PROVE  /\ Webhooks!NewChild(m) \in MessagesOf(Webhooks!Of(m))
         /\ Webhooks!NewChild(m) \in Webhooks!Messages
         /\ at[Webhooks!NewChild(m)] = "none" /\ Plain(Webhooks!NewChild(m))
  <1> DEFINE d == Webhooks!Of(m)
             Free(i) == /\ at[Webhooks!Child(m, i)] = "none"
                        /\ \A j \in 0..(i - 1) : at[Webhooks!Child(m, j)] # "none"
  <1>1. 0 \in 0..MaxFailures BY QuotesAssumption
  <1>2. /\ m \in MessagesOf(d) /\ d \in Deliveries /\ Depth(m) \in Nat
        /\ Webhooks!Child(m, 0) \in MessagesOf(d)
        /\ Webhooks!Child(m, 0) \in Webhooks!Messages
        /\ Depth(Webhooks!Child(m, 0)) = Depth(m) + 1
    BY <1>1, ChildIsMessage, NameIsSequence
  <1>3. at[Webhooks!Child(m, 0)] = "none" BY <1>2 DEF Chained
  <1>4. Plain(m) BY <1>2 DEF Spoilt, Spoils
  <1>5. Free(0) BY <1>3
  <1>6. \A i \in 0..MaxFailures : Free(i) => i = 0 BY <1>3
  <1> HIDE DEF Free
  <1>7. (CHOOSE i \in 0..MaxFailures : Free(i)) = 0 BY <1>1, <1>5, <1>6
  <1>8. Webhooks!NewChild(m) = Webhooks!Child(m, 0)
    BY <1>7 DEF Webhooks!NewChild, Free
  <1>9. Plain(Webhooks!Child(m, 0)) BY <1>1, <1>4, ChildIsMessage
  <1> QED BY <1>2, <1>3, <1>8, <1>9

(* A second successor, of a retry that was handed on twice, has another number. *)
LEMMA SecondIsForked ==
  ASSUME TypeOK, NEW m \in Webhooks!Messages, ~Spoilt(Webhooks!Of(m)),
         at[m] = "retry", Depth(m) > 0, MaxFailures > 0
  PROVE  /\ Webhooks!NewChild(Webhooks!Parent(m)) \in MessagesOf(Webhooks!Of(m))
         /\ ~Plain(Webhooks!NewChild(Webhooks!Parent(m)))
  <1> DEFINE d == Webhooks!Of(m)
             p == Webhooks!Parent(m)
             Free(i) == /\ at[Webhooks!Child(p, i)] = "none"
                        /\ \A j \in 0..(i - 1) : at[Webhooks!Child(p, j)] # "none"
  <1>1. /\ p \in Webhooks!Messages /\ Webhooks!Of(p) = d /\ m \in MessagesOf(d)
        /\ Depth(p) + 1 < MaxAttempts
        /\ \E i \in 0..MaxFailures : m = Webhooks!Child(p, i)
    BY ChildOfParent, NameIsSequence, ParentOf
  <1> HIDE DEF p
  <1>2. \A n \in MessagesOf(d) : at[n] # "none" => Plain(n) BY DEF Spoilt, Spoils
  <1>3. \A i \in 0..MaxFailures :
          /\ Webhooks!Child(p, i) \in MessagesOf(d)
          /\ Plain(Webhooks!Child(p, i)) => i = 0
    BY <1>1, ChildIsMessage
  <1>4. m = Webhooks!Child(p, 0) BY <1>1, <1>2, <1>3
  <1>5. 1 \in 0..MaxFailures /\ ~Plain(Webhooks!Child(p, 1)) BY <1>3, QuotesAssumption
  <1>6. Free(1)
    <2>1. at[Webhooks!Child(p, 1)] = "none" BY <1>2, <1>3, <1>5
    <2>2. \A j \in 0..(1 - 1) : j = 0 OBVIOUS
    <2> QED BY <1>4, <2>1, <2>2
  <1> DEFINE k == CHOOSE i \in 0..MaxFailures : Free(i)
  <1>7. k \in 0..MaxFailures /\ at[Webhooks!Child(p, k)] = "none" BY <1>5, <1>6
  <1>8. Webhooks!NewChild(p) = Webhooks!Child(p, k) BY DEF Webhooks!NewChild
  <1> HIDE DEF k
  <1>9. k # 0 BY <1>4, <1>7
  <1>10. ~Plain(Webhooks!Child(p, k))
    <2>1. p \in Webhooks!Messages /\ Depth(p) + 1 < MaxAttempts BY <1>1
    <2> QED BY <1>7, <1>9, <2>1, ChildIsMessage
  <1> QED BY <1>3, <1>7, <1>8, <1>10 DEF p

LEMMA TakenIsForked ==
  ASSUME NEW m \in Webhooks!Messages, Depth(m) + 1 < MaxAttempts, MaxFailures > 0,
         at[Webhooks!NewChild(m)] # "none"
  PROVE  /\ Webhooks!Child(m, 1) \in MessagesOf(Webhooks!Of(m))
         /\ at[Webhooks!Child(m, 1)] # "none" /\ ~Plain(Webhooks!Child(m, 1))
  <1> DEFINE Free(i) == /\ at[Webhooks!Child(m, i)] = "none"
                        /\ \A j \in 0..(i - 1) : at[Webhooks!Child(m, j)] # "none"
             k == CHOOSE i \in 0..MaxFailures : Free(i)
  <1>1. 0 \in 0..MaxFailures /\ 1 \in 0..MaxFailures BY QuotesAssumption
  <1>2. Webhooks!NewChild(m) = Webhooks!Child(m, k) BY DEF Webhooks!NewChild
  <1>3. (\E i \in 0..MaxFailures : Free(i)) => at[Webhooks!Child(m, k)] = "none"
    OBVIOUS
  <1> HIDE DEF k
  <1>4. ~Free(0) /\ ~Free(1) BY <1>1, <1>2, <1>3
  <1>5. at[Webhooks!Child(m, 0)] # "none"
    <2>1. \A j \in 0..(0 - 1) : FALSE OBVIOUS
    <2> QED BY <1>4, <2>1
  <1>6. at[Webhooks!Child(m, 1)] # "none"
    <2>1. \A j \in 0..(1 - 1) : j = 0 OBVIOUS
    <2> QED BY <1>4, <1>5, <2>1
  <1> QED BY <1>1, <1>6, ChildIsMessage

(* A delivery that a failure has marked stays marked. *)
LEMMA SpoiltStays ==
  ASSUME TypeOK, TypeOK', Room, NEW m \in Webhooks!Messages, Webhooks!Consume(m),
         Spoilt(Webhooks!Of(m)), MaxFailures > 0
  PROVE  Spoilt(Webhooks!Of(m))'
  <1> DEFINE d == Webhooks!Of(m)
  <1>0. PICK child, sibling :
          /\ child = Webhooks!NewChild(m) /\ sibling = Webhooks!NewChild(Webhooks!Parent(m))
    OBVIOUS
  <1>a. /\ at \in [Webhooks!Messages -> Webhooks!Places]
        /\ \A n \in Webhooks!Messages : tries[n] \in Nat /\ tries'[n] \in Nat
        /\ tries \in [Webhooks!Messages -> 0..Redeliveries]
    BY QuotesAssumption DEF TypeOK, Webhooks!TypeOK
  <1>b. MessagesOf(d) \subseteq Webhooks!Messages BY DEF MessagesOf
  <1>c. ASSUME NEW n \in MessagesOf(d), tries'[n] > 0 \/ at'[n] = "dropped"
                                         \/ (at'[n] # "none" /\ ~Plain(n))
        PROVE  Spoilt(d)'
    BY <1>c DEF Spoilt, Spoils, MessagesOf, Plain, Depth
  <1>d. PICK n \in MessagesOf(d) : Spoils(n) BY DEF Spoilt
  <1>e. n \in Webhooks!Messages BY <1>b
  <1>t. tries'[n] >= tries[n] /\ (at[n] # "none" => at'[n] # "none")
    <2> USE <1>0, <1>a, <1>e DEF Webhooks!Goto
    <2>1. CASE Webhooks!Deliver(m) BY <2>1 DEF Webhooks!Deliver
    <2>2. CASE Webhooks!Post(m) BY <2>2 DEF Webhooks!Post
    <2>3. CASE Webhooks!MarkDelivered(m) BY <2>3 DEF Webhooks!MarkDelivered
    <2>4. CASE Webhooks!MarkFailed(m) BY <2>4 DEF Webhooks!MarkFailed
    <2>5. CASE Webhooks!MarkDlq(m) BY <2>5 DEF Webhooks!MarkDlq
    <2>6. CASE Webhooks!MarkPending(m) BY <2>6 DEF Webhooks!MarkPending
    <2>7. CASE Webhooks!Resend(m)
      <3>1. at' = [at EXCEPT ![child] = "retry", ![m] = "acked"] /\ tries' = tries
        BY <2>7 DEF Webhooks!Resend
      <3> QED BY <3>1
    <2>8. CASE Webhooks!ProcessRetry(m) BY <2>8 DEF Webhooks!ProcessRetry
    <2>9. CASE Webhooks!Fails(m)
      BY <2>9 DEF Webhooks!Fails, Webhooks!Dies, Webhooks!Again
    <2>10. CASE Webhooks!ResendFails(m)
      <3>1. at' = [at EXCEPT ![child] = "retry", ![m] = Webhooks!Again(m)] /\ Webhooks!Dies(m)
        BY <2>10 DEF Webhooks!ResendFails
      <3> QED BY <3>1 DEF Webhooks!Dies, Webhooks!Again
    <2>11. CASE Webhooks!ProcessRetryFails(m)
      <3>1. at' = [at EXCEPT ![m] = "queue", ![sibling] = "retry"] /\ tries' = tries
        BY <2>11 DEF Webhooks!ProcessRetryFails
      <3> QED BY <3>1
    <2> QED BY <2>1, <2>2, <2>3, <2>4, <2>5, <2>6, <2>7, <2>8, <2>9, <2>10, <2>11
            DEF Webhooks!Consume, Webhooks!Handle
  <1>u. ASSUME at[n] = "dropped", at'[n] # "dropped"
        PROVE  \E p \in Webhooks!Messages :
                 /\ Webhooks!Of(p) = d /\ Depth(p) + 1 < MaxAttempts
                 /\ at[Webhooks!NewChild(p)] # "none"
                 /\ at[Webhooks!Child(p, 1)] # "none" => at'[Webhooks!Child(p, 1)] # "none"
    <2> USE <1>0, <1>a, <1>e, <1>u DEF Webhooks!Goto
    <2>a. Webhooks!Handling \subseteq Webhooks!Live /\ "dropped" \notin Webhooks!Live
      BY DEF Webhooks!Handling, Webhooks!Live
    <2>b. m \in MessagesOf(d) /\ Depth(m) \in Nat /\ Depth(m) < MaxAttempts
      BY NameIsSequence
    <2>1. CASE Webhooks!Deliver(m) BY <2>1 DEF Webhooks!Deliver
    <2>2. CASE Webhooks!Post(m) BY <2>2 DEF Webhooks!Post
    <2>3. CASE Webhooks!MarkDelivered(m) BY <2>3 DEF Webhooks!MarkDelivered
    <2>4. CASE Webhooks!MarkFailed(m) BY <2>4 DEF Webhooks!MarkFailed
    <2>5. CASE Webhooks!MarkDlq(m) BY <2>5 DEF Webhooks!MarkDlq
    <2>6. CASE Webhooks!MarkPending(m) BY <2>6 DEF Webhooks!MarkPending
    <2>7. CASE Webhooks!Resend(m) \/ Webhooks!ResendFails(m)
      <3>1. /\ at[m] = "resend"
            /\ at' = [at EXCEPT ![child] = "retry", ![m] = "acked"]
               \/ at' = [at EXCEPT ![child] = "retry", ![m] = Webhooks!Again(m)]
        BY <2>7 DEF Webhooks!Resend, Webhooks!ResendFails
      <3>2. n = child BY <3>1
      <3>3. Depth(m) + 1 < MaxAttempts BY <3>1 DEF Room
      <3>4. \A x : at[x] # "none" => at'[x] # "none" \/ x \notin Webhooks!Messages
        BY <3>1 DEF Webhooks!Again
      <3>5. MaxFailures > 0 => Webhooks!Child(m, 1) \in Webhooks!Messages
        BY <3>2, <3>3, TakenIsForked, <1>b
      <3> QED BY <3>2, <3>3, <3>4, <3>5
    <2>8. CASE Webhooks!ProcessRetry(m) BY <2>8 DEF Webhooks!ProcessRetry
    <2>9. CASE Webhooks!Fails(m) BY <2>a, <2>9 DEF Webhooks!Fails
    <2>10. CASE Webhooks!ProcessRetryFails(m)
      <3> DEFINE p == Webhooks!Parent(m)
      <3>1. at[m] = "retry" /\ at' = [at EXCEPT ![m] = "queue", ![sibling] = "retry"]
        BY <2>10 DEF Webhooks!ProcessRetryFails
      <3>2. n = sibling BY <3>1
      <3>3. p \in Webhooks!Messages /\ Depth(p) + 1 < MaxAttempts /\ Webhooks!Of(p) = d
        BY <2>b, <3>1, ChildOfParent, ParentOf DEF Room
      <3> HIDE DEF p
      <3>4. \A x : at[x] # "none" => at'[x] # "none" \/ x \notin Webhooks!Messages
        BY <3>1
      <3>5. at[Webhooks!NewChild(p)] # "none" BY <3>2 DEF p
      <3>6. Webhooks!Child(p, 1) \in Webhooks!Messages
        BY <3>3, <3>5, TakenIsForked, <1>b
      <3> QED BY <3>3, <3>4, <3>5, <3>6
    <2> QED BY <2>1, <2>2, <2>3, <2>4, <2>5, <2>6, <2>7, <2>8, <2>9, <2>10
            DEF Webhooks!Consume, Webhooks!Handle
  <1>1. CASE tries[n] > 0 BY <1>a, <1>c, <1>e, <1>t, <1>1
  <1>2. CASE at[n] # "none" /\ ~Plain(n) BY <1>c, <1>t, <1>2
  <1>3. CASE at[n] = "dropped" /\ at'[n] = "dropped" BY <1>c, <1>3
  <1>4. CASE at[n] = "dropped" /\ at'[n] # "dropped"
    <2>1. PICK p \in Webhooks!Messages :
            /\ Webhooks!Of(p) = d /\ Depth(p) + 1 < MaxAttempts
            /\ at[Webhooks!NewChild(p)] # "none"
            /\ at[Webhooks!Child(p, 1)] # "none" => at'[Webhooks!Child(p, 1)] # "none"
      BY <1>u, <1>4
    <2>2. /\ Webhooks!Child(p, 1) \in MessagesOf(d)
          /\ at[Webhooks!Child(p, 1)] # "none" /\ ~Plain(Webhooks!Child(p, 1))
      BY <2>1, TakenIsForked
    <2> QED BY <1>c, <2>1, <2>2
  <1> QED BY <1>d, <1>1, <1>2, <1>3, <1>4 DEF Spoils

(* Its message goes on to another place: nothing of the chain is disturbed. *)
LEMMA MoveIsClean ==
  ASSUME NEW d \in Deliveries, Clean(d), NEW m \in MessagesOf(d), NEW p \in Webhooks!Places,
         at[m] \notin {"none", "acked"}, p \notin {"none", "dropped"},
         at \in [Webhooks!Messages -> Webhooks!Places], at' = [at EXCEPT ![m] = p],
         tries' = tries, row'[d] # "none",
         d \in answered' => d \in answered \/ at[m] # "none"
  PROVE  ~Spoilt(d)' /\ Chained(d)' /\ Begun(d)'
  <1>1. /\ m \in Webhooks!Messages /\ MessagesOf(d) \subseteq Webhooks!Messages
        /\ Webhooks!First(d) \in MessagesOf(d)
    BY FirstIsMessage DEF MessagesOf
  <1>2. \A n \in MessagesOf(d) : at'[n] = IF n = m THEN p ELSE at[n] BY <1>1
  <1>3. Depth(m)' = Depth(m) /\ Plain(m)' = Plain(m) /\ MessagesOf(d)' = MessagesOf(d)
    BY DEF Depth, Plain, MessagesOf
  <1>4. ~Spoilt(d)'
    <2>1. \A n \in MessagesOf(d) : ~Spoils(n)' BY <1>2 DEF Clean, Spoilt, Spoils, Plain, Depth
    <2> QED BY <1>3, <2>1 DEF Spoilt
  <1>5. Chained(d)'
    <2>1. ASSUME NEW n \in MessagesOf(d), NEW k \in MessagesOf(d),
                 at'[n] # "none", at'[k] # "none", Depth(n) < Depth(k)
          PROVE  at'[n] = "acked"
      BY <1>2, <2>1 DEF Clean, Chained
    <2> QED BY <1>3, <2>1 DEF Chained, Depth
  <1>6. Begun(d)'
    <2>1. at[Webhooks!First(d)] # "none" BY DEF Clean, Begun
    <2>2. PICK f \in MessagesOf(d) : f = Webhooks!First(d) BY <1>1
    <2>3. at'[f] # "none" BY <1>2, <2>1, <2>2
    <2>4. Webhooks!First(d)' = f BY <2>2 DEF Webhooks!First
    <2> QED BY <1>3, <2>3, <2>4 DEF Begun
  <1> QED BY <1>4, <1>5, <1>6

LEMMA ConsumeClean ==
  ASSUME TypeOK, TypeOK', Room, NEW m \in Webhooks!Messages, Webhooks!Consume(m),
         Clean(Webhooks!Of(m))
  PROVE  \/ failures' = failures /\ Clean(Webhooks!Of(m))'
         \/ failures' = failures + 1 /\ Spoilt(Webhooks!Of(m))'
  <1> DEFINE d == Webhooks!Of(m)
             Goal == \/ failures' = failures /\ Clean(d)'
                     \/ failures' = failures + 1 /\ Spoilt(d)'
  <1>0. PICK child, sibling :
          /\ child = Webhooks!NewChild(m) /\ sibling = Webhooks!NewChild(Webhooks!Parent(m))
          /\ Depth(child) = Depth(m) + 1
    BY ChildDepth
  <1>a. /\ at \in [Webhooks!Messages -> Webhooks!Places]
        /\ tries \in [Webhooks!Messages -> 0..Redeliveries] /\ Redeliveries \in Nat
        /\ row \in [Deliveries -> {"none", "pending", "delivered", "failed", "dlq"}]
        /\ failures \in Nat
    BY QuotesAssumption DEF TypeOK, Webhooks!TypeOK
  <1>b. /\ d \in Deliveries /\ m \in MessagesOf(d) /\ Depth(m) \in Nat
        /\ MessagesOf(d) \subseteq Webhooks!Messages
        /\ Webhooks!First(d) \in MessagesOf(d)
    BY NameIsSequence, FirstIsMessage DEF MessagesOf
  <1>c. Webhooks!Places = {"post", "ok", "refused", "again", "resend", "queue", "retry",
                           "none", "acked", "dropped"}
    BY DEF Webhooks!Places, Webhooks!Live, Webhooks!Handling
  <1>d. at[m] \in Webhooks!Live
    BY DEF Webhooks!Consume, Webhooks!Handle, Webhooks!Deliver, Webhooks!Post,
           Webhooks!MarkDelivered, Webhooks!MarkFailed, Webhooks!MarkDlq, Webhooks!MarkPending,
           Webhooks!Resend, Webhooks!ProcessRetry, Webhooks!Fails, Webhooks!ResendFails,
           Webhooks!ProcessRetryFails, Webhooks!Live, Webhooks!Handling
  <1>e. at[m] \notin {"none", "acked", "dropped"} BY <1>d DEF Webhooks!Live, Webhooks!Handling
  <1>f. /\ \A n \in MessagesOf(d) : n # m => at[n] \in {"none", "acked"}
        /\ row[d] # "none" /\ (d \in answered => at[m] = "ok")
        /\ at[Webhooks!First(d)] # "none"
    <2>1. \A n \in MessagesOf(d) : n # m => at[n] \in {"none", "acked"}
      BY <1>b, <1>e, OneLive DEF Clean
    <2>2. ~Webhooks!AtRest(d) BY <1>d DEF Webhooks!AtRest
    <2> QED BY <1>b, <1>e, <2>1, <2>2 DEF Clean, Begun, Told
  <1> SUFFICES Goal OBVIOUS
  <1> HIDE DEF d
  <1>h. ASSUME NEW p \in Webhooks!Live, at' = [at EXCEPT ![m] = p], tries' = tries,
               row'[d] # "none", d \in answered' => p = "ok", failures' = failures
        PROVE  Goal
    <2>1. ~Spoilt(d)' /\ Chained(d)' /\ Begun(d)'
      <3>1. p \in Webhooks!Places /\ p \notin {"none", "dropped"}
        BY DEF Webhooks!Places, Webhooks!Live, Webhooks!Handling
      <3> QED BY <1>a, <1>b, <1>e, <1>h, <3>1, MoveIsClean DEF d
    <2>2. at'[m] = p BY <1>a, <1>h
    <2>3. ~Webhooks!AtRest(d)' BY <1>b, <2>2 DEF Webhooks!AtRest, MessagesOf
    <2>4. d \in answered' => \E n \in MessagesOf(d) : at'[n] = "ok" BY <1>b, <1>h, <2>2
    <2>5. Told(d)' BY <2>3, <2>4 DEF Told, MessagesOf
    <2> QED BY <1>h, <2>1, <2>5 DEF Clean
  <1>i. ASSUME at' = [at EXCEPT ![m] = "acked"], tries' = tries, failures' = failures,
               row'[d] \notin {"none", "pending"}, d \in answered' => row'[d] = "delivered"
        PROVE  Goal
    <2>0. d \in answered' => d \in answered \/ at[m] # "none" BY <1>e
    <2>1. ~Spoilt(d)' /\ Chained(d)' /\ Begun(d)'
      BY <1>a, <1>b, <1>c, <1>e, <1>i, <2>0, MoveIsClean DEF d
    <2>2. \A n \in MessagesOf(d) : at'[n] \in {"none", "acked"}
      BY <1>a, <1>b, <1>f, <1>i
    <2>3. Webhooks!AtRest(d)'
      BY <2>2 DEF Webhooks!AtRest, MessagesOf, Webhooks!Live, Webhooks!Handling
    <2>5. Told(d)' BY <1>i, <2>3 DEF Told
    <2> QED BY <1>i, <2>1, <2>5 DEF Clean
  <1>j. ASSUME NEW n \in MessagesOf(d), failures' = failures + 1,
               tries'[n] > 0 \/ at'[n] = "dropped" \/ (at'[n] # "none" /\ ~Plain(n))
        PROVE  Goal
    BY <1>j DEF Spoilt, Spoils, MessagesOf, Plain, Depth
  <1>1. CASE Webhooks!Deliver(m)
    BY <1>f, <1>h, <1>1 DEF Webhooks!Deliver, Webhooks!Goto, Webhooks!Live, Webhooks!Handling
  <1>2. CASE Webhooks!Post(m)
    <2>1. /\ \E p \in {"ok", "refused", "again"} :
               at' = [at EXCEPT ![m] = p] /\ (p # "ok" => answered' = answered)
          /\ at[m] = "post" /\ UNCHANGED <<row, tries, failures>>
      BY <1>2 DEF Webhooks!Post, Webhooks!Goto
    <2> QED BY <1>f, <1>h, <2>1 DEF Webhooks!Live, Webhooks!Handling
  <1>3. CASE Webhooks!MarkDelivered(m)
    BY <1>a, <1>b, <1>i, <1>3 DEF Webhooks!MarkDelivered, Webhooks!Record, Webhooks!Goto, d
  <1>4. CASE Webhooks!MarkFailed(m)
    BY <1>a, <1>b, <1>f, <1>i, <1>4 DEF Webhooks!MarkFailed, Webhooks!Record, Webhooks!Goto, d
  <1>5. CASE Webhooks!MarkDlq(m)
    BY <1>a, <1>b, <1>f, <1>i, <1>5 DEF Webhooks!MarkDlq, Webhooks!Record, Webhooks!Goto, d
  <1>6. CASE Webhooks!MarkPending(m)
    BY <1>a, <1>b, <1>f, <1>h, <1>6
       DEF Webhooks!MarkPending, Webhooks!Record, Webhooks!Goto, Webhooks!Live,
           Webhooks!Handling, d
  <1>7. CASE Webhooks!ProcessRetry(m)
    BY <1>f, <1>h, <1>7
       DEF Webhooks!ProcessRetry, Webhooks!Goto, Webhooks!Live, Webhooks!Handling
  <1>8. CASE Webhooks!Resend(m)
    <2>1. /\ at[m] = "resend" /\ at' = [at EXCEPT ![child] = "retry", ![m] = "acked"]
          /\ UNCHANGED <<row, tries, posts, answered, failures>>
      BY <1>0, <1>8 DEF Webhooks!Resend
    <2>2. /\ child \in MessagesOf(d) /\ child \in Webhooks!Messages
          /\ at[child] = "none" /\ Plain(child)
      <3>1. Depth(m) + 1 < MaxAttempts BY <2>1 DEF Room
      <3> QED BY <1>0, <1>e, <3>1, NextInChain DEF Clean, d
    <2>3. /\ child # m
          /\ \A n \in MessagesOf(d) :
               at'[n] = IF n = m THEN "acked" ELSE IF n = child THEN "retry" ELSE at[n]
      BY <1>a, <1>b, <1>e, <2>1, <2>2
    <2>4. ~Spoilt(d)'
      <3>1. \A n \in MessagesOf(d) : ~Spoils(n)'
        <4>1. \A n \in MessagesOf(d) :
                ~(tries[n] > 0) /\ at[n] # "dropped" /\ (at[n] # "none" => Plain(n))
          BY DEF Clean, Spoilt, Spoils, d
        <4>2. \A n : Plain(n)' <=> Plain(n) BY DEF Plain, Depth
        <4>3. \A n \in MessagesOf(d) : at'[n] # "dropped" /\ (at'[n] # "none" => Plain(n))
          BY <1>b, <1>e, <2>2, <2>3, <4>1
        <4> QED BY <2>1, <4>1, <4>2, <4>3 DEF Spoils
      <3> QED BY <3>1 DEF Spoilt, MessagesOf
    <2>5. Chained(d)'
      <3>1. ASSUME NEW n \in MessagesOf(d), NEW k \in MessagesOf(d),
                   at'[n] # "none", at'[k] # "none", Depth(n) < Depth(k)
            PROVE  at'[n] = "acked"
        <4>1. CASE n = m \/ n # child BY <1>f, <2>3, <3>1, <4>1
        <4>2. CASE n = child
          <5>1. k # m /\ k # child /\ Depth(m) < Depth(k)
            <6>1. Depth(k) \in Nat BY <1>b, NameIsSequence
            <6> QED BY <1>0, <1>b, <3>1, <4>2, <6>1
          <5>2. at[k] # "none" BY <2>3, <3>1, <5>1
          <5> QED BY <1>b, <1>e, <5>1, <5>2 DEF Clean, Chained, d
        <4> QED BY <4>1, <4>2
      <3> QED BY <3>1 DEF Chained, Depth, MessagesOf
    <2>6. Begun(d)'
      <3>1. PICK f \in MessagesOf(d) : f = Webhooks!First(d) BY <1>b
      <3>2. at'[f] # "none" BY <1>f, <2>3, <3>1
      <3>3. Webhooks!First(d)' = f BY <3>1 DEF Webhooks!First
      <3> QED BY <1>f, <2>1, <3>2, <3>3 DEF Begun
    <2>7. Told(d)'
      <3>1. at'[child] = "retry" BY <2>2, <2>3
      <3>2. ~Webhooks!AtRest(d)'
        BY <2>2, <3>1 DEF Webhooks!AtRest, MessagesOf, Webhooks!Live, Webhooks!Handling
      <3> QED BY <1>f, <2>1, <3>2 DEF Told
    <2> QED BY <2>1, <2>4, <2>5, <2>6, <2>7 DEF Clean
  <1>9. CASE Webhooks!Fails(m)
    BY <1>a, <1>b, <1>j, <1>9
       DEF Webhooks!Fails, Webhooks!Dies, Webhooks!Again, Webhooks!Goto
  <1>10. CASE Webhooks!ResendFails(m)
    <2>1. /\ at' = [at EXCEPT ![child] = "retry", ![m] = Webhooks!Again(m)]
          /\ Webhooks!Dies(m)
      BY <1>0, <1>10 DEF Webhooks!ResendFails
    <2> QED BY <1>a, <1>b, <1>j, <2>1 DEF Webhooks!Dies, Webhooks!Again
  <1>11. CASE Webhooks!ProcessRetryFails(m)
    <2>1. /\ at[m] = "retry" /\ at' = [at EXCEPT ![m] = "queue", ![sibling] = "retry"]
          /\ failures' = failures + 1 /\ failures < MaxFailures
      BY <1>0, <1>11 DEF Webhooks!ProcessRetryFails
    <2>2. sibling \in MessagesOf(d) /\ ~Plain(sibling)
      <3>1. Depth(m) > 0 /\ MaxFailures > 0 BY <1>a, <2>1, QuotesAssumption DEF Room
      <3> QED BY <1>0, <2>1, <3>1, SecondIsForked DEF Clean, d
    <2>3. at'[sibling] = "retry" BY <1>a, <1>b, <2>1, <2>2
    <2> QED BY <1>j, <2>1, <2>2, <2>3
  <1> QED BY <1>1, <1>2, <1>3, <1>4, <1>5, <1>6, <1>7, <1>8, <1>9, <1>10, <1>11
          DEF Webhooks!Consume, Webhooks!Handle

Apart(d) ==
  /\ \A m \in MessagesOf(d) : at'[m] = at[m] /\ tries'[m] = tries[m]
  /\ row'[d] = row[d] /\ (d \in answered' <=> d \in answered)

LEMMA SameIsClean ==
  ASSUME NEW d \in Deliveries, Apart(d)
  PROVE  (Spoilt(d)' <=> Spoilt(d)) /\ (Clean(d) => Clean(d)')
  <1> USE DEF Apart
  <1>1. /\ Webhooks!First(d) \in MessagesOf(d) /\ Webhooks!First(d)' = Webhooks!First(d)
        /\ MessagesOf(d)' = MessagesOf(d)
        /\ \A m : Depth(m)' = Depth(m) /\ Plain(m)' = Plain(m)
    BY FirstIsMessage DEF Webhooks!First, MessagesOf, Depth, Plain
  <1>2. at'[Webhooks!First(d)'] = at[Webhooks!First(d)] BY <1>1
  <1>3. \A m \in MessagesOf(d) : Spoils(m)' <=> Spoils(m) BY <1>1 DEF Spoils
  <1>4. Spoilt(d)' <=> Spoilt(d) BY <1>1, <1>3 DEF Spoilt
  <1>5. Chained(d) => Chained(d)' BY <1>1 DEF Chained
  <1>6. Begun(d) => Begun(d)' BY <1>1, <1>2 DEF Begun
  <1>7. Webhooks!AtRest(d)' <=> Webhooks!AtRest(d) BY DEF Webhooks!AtRest, MessagesOf
  <1>8. Told(d) => Told(d)' BY <1>1, <1>2, <1>7 DEF Told
  <1> QED BY <1>4, <1>5, <1>6, <1>8 DEF Clean

LEMMA ProduceClean ==
  ASSUME TypeOK, NEW d \in Deliveries, Webhooks!Produce(d)
  PROVE  /\ Spoilt(d) => Spoilt(d)'
         /\ Clean(d) => \/ failures' = failures /\ Clean(d)'
                        \/ failures' = failures + 1 /\ Spoilt(d)'
  <1>1. PICK f \in MessagesOf(d) : f = Webhooks!First(d) /\ Depth(f) = 0 /\ Plain(f)
    BY FirstIsMessage
  <1>2. /\ \A m \in MessagesOf(d) : m \in Webhooks!Messages /\ Depth(m) \in Nat
        /\ Webhooks!First(d)' = f /\ MessagesOf(d)' = MessagesOf(d)
        /\ \A m : Depth(m)' = Depth(m) /\ Plain(m)' = Plain(m)
    BY <1>1, NameIsSequence DEF Webhooks!First, MessagesOf, Depth, Plain
  <1>3. /\ UNCHANGED <<tries, answered>>
        /\ \A m \in MessagesOf(d) : m # f => at'[m] = at[m]
        /\ \/ /\ row[d] = "none" /\ row'[d] = "pending"
              /\ at' = at /\ failures' = failures
           \/ /\ at[f] = "none" /\ at'[f] = "queue"
              /\ row[d] # "none" /\ row' = row /\ failures' = failures
           \/ /\ at[f] = "none" /\ at'[f] = "dropped"
              /\ row[d] # "none" /\ row' = row /\ failures' = failures + 1
    BY <1>1, <1>2, ProduceSteps
  <1>4. Spoilt(d) => Spoilt(d)'
    <2> SUFFICES ASSUME NEW m \in MessagesOf(d), Spoils(m) PROVE Spoils(m)'
      BY <1>2 DEF Spoilt
    <2> QED BY <1>1, <1>2, <1>3 DEF Spoils
  <1>5. ASSUME Clean(d) PROVE \/ failures' = failures /\ Clean(d)'
                              \/ failures' = failures + 1 /\ Spoilt(d)'
    <2>1. CASE row[d] = "none" /\ row'[d] = "pending" /\ at' = at /\ failures' = failures
      <3>1. /\ \A m \in MessagesOf(d) : at[m] = "none"
            /\ d \notin answered
        BY <1>1, <1>5, <2>1 DEF Clean, Begun
      <3>2. ~Spoilt(d)' BY <1>2, <1>3, <1>5, <2>1 DEF Clean, Spoilt, Spoils
      <3>3. Chained(d)' /\ Begun(d)' /\ Told(d)'
        BY <1>1, <1>2, <1>3, <2>1, <3>1 DEF Chained, Begun, Told
      <3> QED BY <2>1, <3>2, <3>3 DEF Clean
    <2>2. CASE at[f] = "none" /\ at'[f] = "queue" /\ row[d] # "none" /\ row' = row
               /\ failures' = failures
      <3>1. /\ \A m \in MessagesOf(d) : at[m] = "none"
            /\ d \notin answered
        BY <1>1, <1>5, <2>2 DEF Clean, Begun
      <3>2. \A m \in MessagesOf(d) : at'[m] = IF m = f THEN "queue" ELSE "none"
        BY <1>3, <2>2, <3>1
      <3>3. ~Spoilt(d)'
        <4>1. \A m \in MessagesOf(d) : ~(tries[m] > 0) BY <1>5 DEF Clean, Spoilt, Spoils
        <4> QED BY <1>1, <1>2, <1>3, <3>2, <4>1 DEF Spoilt, Spoils
      <3>4. Chained(d)' BY <1>2, <3>2 DEF Chained
      <3>5. Begun(d)' BY <1>2, <1>3, <2>2, <3>1, <3>2 DEF Begun
      <3>6. ~Webhooks!AtRest(d)'
        BY <1>2, <3>2 DEF Webhooks!AtRest, MessagesOf, Webhooks!Live
      <3>7. Told(d)' BY <1>3, <3>1, <3>6 DEF Told
      <3> QED BY <2>2, <3>3, <3>4, <3>5, <3>7 DEF Clean
    <2>3. CASE at'[f] = "dropped" /\ failures' = failures + 1
      BY <1>2, <2>3 DEF Spoilt, Spoils
    <2> QED BY <1>3, <2>1, <2>2, <2>3
  <1> QED BY <1>4, <1>5

(* What a step does to the deliveries that failures have marked. *)
SpoilsOne ==
  /\ \A d \in Deliveries : Spoilt(d)' \/ Clean(d)'
  /\ \/ /\ \A d \in Deliveries : Spoilt(d)' => Spoilt(d)
        /\ failures' \in {failures, failures + 1}
     \/ \E c \in Deliveries : /\ \A d \in Deliveries \ {c} : Spoilt(d)' => Spoilt(d)
                              /\ failures' = failures + 1

LEMMA SpoiledFinite == IsFiniteSet(Spoiled) /\ Cardinality(Spoiled) \in Nat
  <1>1. Spoiled \subseteq Deliveries BY DEF Spoiled
  <1> QED BY <1>1, QuotesAssumption, FS_Subset, FS_CardinalityType

LEMMA NextSpoiledFinite == IsFiniteSet(Spoiled') /\ Cardinality(Spoiled') \in Nat
  <1>1. Spoiled' \subseteq Deliveries BY DEF Spoiled
  <1> QED BY <1>1, QuotesAssumption, FS_Subset, FS_CardinalityType

LEMMA SpoilsStep == ASSUME SpoiledInv, [Next]_vars PROVE SpoilsOne /\ Room'
  <1>1. TypeOK /\ TypeOK' /\ Room /\ (\A d \in Deliveries : Spoilt(d) \/ Clean(d))
    BY NextTypeOK DEF SpoiledInv, CleanInv
  <1>2. ASSUME NEW d \in Deliveries, Spoilt(d) PROVE MaxFailures > 0
    <2>1. failures > 0 BY <1>2 DEF SpoiledInv, Spoiled
    <2> QED BY <1>1, <2>1, QuotesAssumption DEF TypeOK, Webhooks!TypeOK
  <1>3. CASE UNCHANGED <<row, at, tries, posts, answered>>
             /\ failures' \in {failures, failures + 1}
    <2>1. Room' BY <1>1, <1>3 DEF Room, Depth
    <2>2. \A d \in Deliveries : (Spoilt(d)' <=> Spoilt(d)) /\ (Clean(d) => Clean(d)')
      BY <1>3, SameIsClean DEF Apart
    <2> QED BY <1>1, <1>3, <2>1, <2>2 DEF SpoilsOne
  <1>4. ASSUME NEW m \in Webhooks!Messages, Webhooks!Consume(m) PROVE SpoilsOne /\ Room'
    <2>1. Room' BY <1>1, <1>4, ConsumeRoom
    <2>2. PICK c \in Deliveries : c = Webhooks!Of(m) BY NameIsSequence
    <2>3. \A d \in Deliveries \ {c} : (Spoilt(d)' <=> Spoilt(d)) /\ (Clean(d) => Clean(d)')
      <3> TAKE d \in Deliveries \ {c}
      <3>1. Apart(d) BY <1>1, <1>4, <2>2, OthersKept DEF Apart, MessagesOf
      <3> QED BY <3>1, SameIsClean
    <2>4. failures' \in {failures, failures + 1} BY <1>1, <1>4, OthersKept
    <2>5. CASE Spoilt(c)
      <3>1. Spoilt(c)' BY <1>1, <1>2, <1>4, <2>2, <2>5, SpoiltStays
      <3> QED BY <1>1, <2>1, <2>3, <2>4, <2>5, <3>1 DEF SpoilsOne
    <2>6. CASE Clean(c)
      <3>1. \/ failures' = failures /\ Clean(c)'
            \/ failures' = failures + 1 /\ Spoilt(c)'
        BY <1>1, <1>4, <2>2, <2>6, ConsumeClean
      <3>2. Clean(c)' => ~Spoilt(c)' BY DEF Clean
      <3> QED BY <1>1, <2>1, <2>3, <2>4, <3>1, <3>2 DEF SpoilsOne
    <2> QED BY <1>1, <2>5, <2>6
  <1>5. ASSUME NEW c \in Deliveries, Webhooks!Produce(c) PROVE SpoilsOne /\ Room'
    <2>1. Room' BY <1>1, <1>5, ProduceRoom
    <2>2. \A d \in Deliveries \ {c} : (Spoilt(d)' <=> Spoilt(d)) /\ (Clean(d) => Clean(d)')
      <3> TAKE d \in Deliveries \ {c}
      <3>1. Apart(d)
        BY <1>1, <1>5, ProduceSteps, FirstIsMessage DEF Apart, MessagesOf
      <3> QED BY <3>1, SameIsClean
    <2>3. failures' \in {failures, failures + 1} BY <1>1, <1>5, ProduceSteps
    <2>4. /\ Spoilt(c) => Spoilt(c)'
          /\ Clean(c) => \/ failures' = failures /\ Clean(c)'
                         \/ failures' = failures + 1 /\ Spoilt(c)'
      BY <1>1, <1>5, ProduceClean
    <2>5. Clean(c)' => ~Spoilt(c)' BY DEF Clean
    <2> QED BY <1>1, <2>1, <2>2, <2>3, <2>4, <2>5 DEF SpoilsOne
  <1> QED BY <1>1, <1>3, <1>4, <1>5, WebhookStep

LEMMA NextSpoiledInv == SpoiledInv /\ [Next]_vars => SpoiledInv'
  <1> SUFFICES ASSUME SpoiledInv, [Next]_vars PROVE SpoiledInv'
    OBVIOUS
  <1>1. TypeOK /\ TypeOK' /\ Room' /\ SpoilsOne
    BY NextTypeOK, SpoilsStep DEF SpoiledInv
  <1>2. CleanInv' BY <1>1 DEF SpoilsOne, CleanInv
  <1> DEFINE n == Cardinality(Spoiled)
             n2 == Cardinality(Spoiled')
  <1>3. /\ failures \in Nat /\ failures' \in Nat /\ n \in Nat /\ n2 \in Nat /\ n <= failures
        /\ Spoiled # {} => failures > 0
    BY <1>1, SpoiledFinite, NextSpoiledFinite, QuotesAssumption
       DEF SpoiledInv, TypeOK, Webhooks!TypeOK
  <1> SUFFICES (Spoiled' # {} => failures' > 0) /\ n2 <= failures'
    BY <1>1, <1>2 DEF SpoiledInv
  <1> HIDE DEF n, n2
  <1>4. CASE (\A d \in Deliveries : Spoilt(d)' => Spoilt(d))
             /\ failures' \in {failures, failures + 1}
    <2>1. Spoiled' \subseteq Spoiled BY <1>4 DEF Spoiled
    <2>2. n2 <= n BY <2>1, SpoiledFinite, FS_Subset DEF n, n2
    <2> QED BY <1>3, <1>4, <2>1, <2>2
  <1>5. ASSUME NEW c \in Deliveries, \A d \in Deliveries \ {c} : Spoilt(d)' => Spoilt(d),
               failures' = failures + 1
        PROVE  (Spoiled' # {} => failures' > 0) /\ n2 <= failures'
    <2>1. Spoiled' \subseteq Spoiled \cup {c} BY <1>5 DEF Spoiled
    <2>2. IsFiniteSet({c}) /\ Cardinality({c}) = 1 BY FS_Singleton
    <2>3. n2 <= n + Cardinality({c}) BY <2>1, <2>2, SpoiledFinite, JoinedSize DEF n, n2
    <2> QED BY <1>3, <1>5, <2>2, <2>3
  <1> QED BY <1>1, <1>4, <1>5 DEF SpoilsOne

LEMMA InitSpoiledInv == Init => SpoiledInv
  <1> SUFFICES ASSUME Init PROVE SpoiledInv OBVIOUS
  <1>1. /\ \A m \in Webhooks!Messages : at[m] = "none" /\ tries[m] = 0
        /\ answered = {} /\ failures = 0
    BY DEF Init, Webhooks!Init
  <1>2. Room BY <1>1 DEF Room
  <1>3. \A d \in Deliveries : Clean(d)
    <2> TAKE d \in Deliveries
    <2>1. /\ MessagesOf(d) \subseteq Webhooks!Messages
          /\ Webhooks!First(d) \in Webhooks!Messages
      BY FirstIsMessage DEF MessagesOf
    <2> QED BY <1>1, <2>1 DEF Clean, Spoilt, Spoils, Chained, Begun, Told
  <1>4. Spoiled = {} BY <1>3 DEF Clean, Spoiled
  <1> QED BY <1>1, <1>2, <1>3, <1>4, InitTypeOK, FS_EmptySet DEF SpoiledInv, CleanInv

(* Only deliveries that a failure has marked are lost or stuck. *)
LEMMA SpoiledInvBounds ==
  SpoiledInv => Webhooks!LostAnswersBounded /\ Webhooks!StuckPendingBounded
  <1> SUFFICES ASSUME SpoiledInv
               PROVE  Webhooks!LostAnswersBounded /\ Webhooks!StuckPendingBounded
    OBVIOUS
  <1> DEFINE Lost  == {d \in answered : Webhooks!AtRest(d) /\ row[d] # "delivered"}
             Stuck == {d \in Deliveries : row[d] = "pending" /\ Webhooks!AtRest(d)
                                           /\ at[Webhooks!First(d)] # "none"}
  <1>1. answered \subseteq Deliveries /\ failures \in Nat /\ Cardinality(Spoiled) <= failures
    BY QuotesAssumption DEF SpoiledInv, TypeOK, Webhooks!TypeOK
  <1>2. ASSUME NEW d \in Deliveries, NEW m \in MessagesOf(d), at[m] = "ok"
        PROVE  ~Webhooks!AtRest(d)
    BY <1>2 DEF Webhooks!AtRest, MessagesOf, Webhooks!Live, Webhooks!Handling
  <1>3. Lost \subseteq Spoiled
    BY <1>1, <1>2 DEF SpoiledInv, CleanInv, Clean, Told, Spoiled
  <1>4. Stuck \subseteq Spoiled
    BY <1>1 DEF SpoiledInv, CleanInv, Clean, Told, Spoiled
  <1>5. /\ Cardinality(Lost) <= Cardinality(Spoiled) /\ Cardinality(Lost) \in Nat
        /\ Cardinality(Stuck) <= Cardinality(Spoiled) /\ Cardinality(Stuck) \in Nat
    BY <1>3, <1>4, SpoiledFinite, FS_Subset, FS_CardinalityType
  <1> HIDE DEF Lost, Stuck
  <1>6. Cardinality(Lost) <= failures /\ Cardinality(Stuck) <= failures
    BY <1>1, <1>5, SpoiledFinite
  <1>7. \A S : Webhooks!Cardinality(S) = Cardinality(S)
    BY DEF Webhooks!Cardinality, Cardinality
  <1> QED BY <1>6, <1>7 DEF Webhooks!LostAnswersBounded, Webhooks!StuckPendingBounded, Lost, Stuck

(* However the failures fall, one delivery at most for each is left with an answer  *)
(* overwritten or pending without a message, no row says 'delivered' of one that    *)
(* was not answered, and each endpoint is called at most a round more per failure.  *)
THEOREM DeliveriesAccounted == Spec => []DeliveriesAccountedFor
  <1>1. DeliveredWasAnswered /\ SpoiledInv /\ PostsInv => DeliveriesAccountedFor
    BY SpoiledInvBounds, PostsInvBounds DEF DeliveriesAccountedFor
  <1>2. Spec => []SpoiledInv BY InitSpoiledInv, NextSpoiledInv, PTL DEF Spec
  <1>3. Spec => []PostsInv BY InitPostsInv, NextPostsInv, PTL DEF Spec
  <1> QED BY <1>1, <1>2, <1>3, DeliveredIsTrue, PTL
=============================================================================
