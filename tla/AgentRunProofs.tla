--------------------------- MODULE AgentRunProofs ---------------------------
(* Proofs about AgentRun, for any runs, requests, scopes, loop threshold and  *)
(* number of concurrent invocations.                                          *)
EXTENDS AgentRun, FiniteSetTheorems, TLAPS

LEMMA RequestsAreNotRuns == \A q \in Requests : q \in Envelopes /\ q \notin Runs
  BY AgentAssumption DEF Envelopes

LEMMA RunOfType == TypeOK => \A e \in Envelopes : RunOf(e) \in Runs
  BY DEF TypeOK, Envelopes, RunOf

-----------------------------------------------------------------------------
(* Type correctness. *)

LEMMA InitTypeOK == Init => TypeOK
  BY AgentAssumption DEF Init, TypeOK, RunStatus, Places

LEMMA NextTypeOK == TypeOK /\ [Next]_vars => TypeOK'
  <1> SUFFICES ASSUME TypeOK, [Next]_vars PROVE TypeOK'
    OBVIOUS
  <1> USE AgentAssumption DEF TypeOK, RunStatus, Places, Processing, Cleared, Envelopes,
          Goto, SetRun, Settle, counts, operatorVars
  <1>1. ASSUME NEW s \in Scopes,
               KillSwitchOn(s) \/ KillSwitchOff(s) \/ PutControls(s) \/ DeleteControls(s)
        PROVE  TypeOK'
    <2>1. PICK v \in {"unset", "off", "on"} : SetControl(s, v)
      BY <1>1 DEF KillSwitchOn, KillSwitchOff, PutControls, DeleteControls
    <2>2. slack' \in Int
      <3>1. {e \in Envelopes : at[e] \in Cleared} \subseteq Envelopes /\ IsFiniteSet(Envelopes)
        BY FS_Union
      <3>2. Cardinality({e \in Envelopes : at[e] \in Cleared}) \in Nat
        BY <3>1, FS_Subset, FS_CardinalityType
      <3> QED BY <2>1, <3>2 DEF SetControl
    <2> QED BY <2>1, <2>2 DEF SetControl
  <1>2. ASSUME NEW r \in Runs,
               InsertQueued(r) \/ SendJob(r) \/ SendJobFails(r) \/ Age(r)
        PROVE  TypeOK'
    BY <1>2 DEF InsertQueued, SendJob, SendJobFails, Age
  <1>3. ASSUME NEW e \in Envelopes,
               Deliver(e) \/ Consume(e) \/ Throws(e) \/ ProcessRetry(e) \/ Crash(e)
        PROVE  TypeOK'
    <2> RunOf(e) \in Runs BY RunOfType
    <2>1. CASE Deliver(e) BY <2>1 DEF Deliver
    <2>2. CASE Lookup(e) BY <2>2 DEF Lookup
    <2>3. CASE PutMarker(e) BY <2>3 DEF PutMarker
    <2>4. CASE InsertRun(e) BY <2>4 DEF InsertRun
    <2>5. CASE MarkRunning(e) BY <2>5 DEF MarkRunning
    <2>6. CASE MissingContact(e) BY <2>6 DEF MissingContact
    <2>7. CASE LoadContext(e) BY <2>7 DEF LoadContext, Context
    <2>8. CASE BlockedByKillSwitch(e) BY <2>8 DEF BlockedByKillSwitch
    <2>9. CASE OtherVerdict(e) BY <2>9 DEF OtherVerdict
    <2>10. CASE EscalatedByLoop(e) BY <2>10 DEF EscalatedByLoop
    <2>11. CASE PassPolicy(e) BY <2>11 DEF PassPolicy
    <2>12. CASE PendHuman(e) BY <2>12 DEF PendHuman
    <2>13. CASE NoApprovalNeeded(e) BY <2>13 DEF NoApprovalNeeded
    <2>14. CASE InsertAction(e) BY <2>14 DEF InsertAction
    <2>15. CASE Effect(e) BY <2>15 DEF Effect
    <2>16. CASE Complete(e) BY <2>16 DEF Complete
    <2>17. CASE FailRun(e) BY <2>17 DEF FailRun
    <2>18. CASE Throws(e) BY <2>18 DEF Throws
    <2>19. CASE ProcessRetry(e) BY <2>19 DEF ProcessRetry
    <2>20. CASE Crash(e) BY <2>20 DEF Crash
    <2> QED
      BY <1>3, <2>1, <2>2, <2>3, <2>4, <2>5, <2>6, <2>7, <2>8, <2>9, <2>10, <2>11, <2>12,
         <2>13, <2>14, <2>15, <2>16, <2>17, <2>18, <2>19, <2>20 DEF Consume
  <1>4. ASSUME NEW q \in Requests, Operate(q) PROVE TypeOK'
    <2>1. CASE ApproveRead(q) BY <2>1 DEF ApproveRead
    <2>2. CASE ApproveWrite(q) BY <2>2 DEF ApproveWrite
    <2>3. CASE ApproveEnqueue(q) BY <2>3 DEF ApproveEnqueue
    <2>4. CASE ApproveFails(q) BY <2>4 DEF ApproveFails
    <2>5. CASE Reject(q) BY <2>5 DEF Reject
    <2> QED BY <1>4, <2>1, <2>2, <2>3, <2>4, <2>5 DEF Operate
  <1>5. CASE UNCHANGED vars BY <1>5 DEF vars
  <1> QED BY <1>1, <1>2, <1>3, <1>4, <1>5 DEF Next

(* Every variable keeps its type: the statuses and places are those of the code. *)
THEOREM TypeCorrect == Spec => []TypeOK
  BY InitTypeOK, NextTypeOK, PTL DEF Spec

-----------------------------------------------------------------------------
(* One run.  Past the marker the marker is set, and an envelope that holds it     *)
(* never comes back to put it; so the pipeline of a run is walked once, and       *)
(* whether it has acted can be told from where its envelope is.                   *)
Marked == Processing \ {"lookup", "put"}

MarkerFirst ==
  \A e \in Envelopes : /\ at[e] \in Marked => e \in seen
                       /\ at[e] \in {"none", "put"} => e \notin seen

(* The message of an approval stops at its missing contact, and is sent once. *)
RequestsStop ==
  \A q \in Requests :
    /\ at[q] \in {"none", "queue", "retry", "acked", "lookup", "put", "start", "load"}
    /\ op[q] \in {"idle", "approve", "enqueue"} => at[q] = "none"

ActedOnce ==
  \A r \in Runs :
    /\ acted[r] \in {0, 1}
    /\ acted[r] = 1 => r \in seen
    /\ at[r] \in {"insert", "start", "load", "halted", "loop"} \cup Cleared => acted[r] = 0
    /\ at[r] \in {"effect", "complete"} => acted[r] = 1
    /\ run[r] = "completed" => acted[r] = 1

(* A run that waits for an operator has left the pipeline without acting. *)
WaitsUnacted ==
  /\ \A r \in Runs :
       run[r] \in {"pending_human", "approved"} => at[r] = "acked" /\ acted[r] = 0
  /\ \A q \in Requests :
       op[q] = "approve" => at[subject[q]] = "acked" /\ acted[subject[q]] = 0

RowFirst == \A r \in Runs \ Fresh : run[r] = "none" => at[r] = "none"

RunInv == TypeOK /\ MarkerFirst /\ RequestsStop /\ ActedOnce /\ WaitsUnacted /\ RowFirst

LEMMA NextRunInv == RunInv /\ [Next]_vars => RunInv'
  <1> SUFFICES ASSUME RunInv, [Next]_vars PROVE RunInv'
    OBVIOUS
  <1> DEFINE Goal == MarkerFirst' /\ RequestsStop' /\ ActedOnce' /\ WaitsUnacted' /\ RowFirst'
  <1>0. TypeOK' BY NextTypeOK DEF RunInv
  <1> SUFFICES Goal BY <1>0 DEF RunInv
  <1> USE AgentAssumption, RequestsAreNotRuns
          DEF RunInv, TypeOK, MarkerFirst, RequestsStop, ActedOnce, WaitsUnacted, RowFirst,
          Marked, Processing, Cleared, Envelopes, RunOf, Goto, SetRun, Settle, counts,
          operatorVars
  <1>1. ASSUME NEW s \in Scopes,
               KillSwitchOn(s) \/ KillSwitchOff(s) \/ PutControls(s) \/ DeleteControls(s)
        PROVE  Goal
    BY <1>1 DEF KillSwitchOn, KillSwitchOff, PutControls, DeleteControls, SetControl
  <1>2. ASSUME NEW r \in Runs,
               InsertQueued(r) \/ SendJob(r) \/ SendJobFails(r) \/ Age(r)
        PROVE  Goal
    <2>1. CASE InsertQueued(r) BY <2>1 DEF InsertQueued
    <2>2. CASE SendJob(r) BY <2>2 DEF SendJob
    <2>3. CASE SendJobFails(r) BY <2>3 DEF SendJobFails
    <2>4. CASE Age(r) BY <2>4 DEF Age
    <2> QED BY <1>2, <2>1, <2>2, <2>3, <2>4
  <1>3. ASSUME NEW e \in Envelopes,
               Deliver(e) \/ Consume(e) \/ Throws(e) \/ ProcessRetry(e) \/ Crash(e)
        PROVE  Goal
    <2>1. CASE Deliver(e) BY <2>1 DEF Deliver
    <2>2. CASE Lookup(e) BY <2>2 DEF Lookup
    <2>3. CASE PutMarker(e) BY <2>3 DEF PutMarker
    <2>4. CASE InsertRun(e) BY <2>4 DEF InsertRun
    <2>5. CASE MarkRunning(e) BY <2>5 DEF MarkRunning
    <2>6. CASE MissingContact(e) BY <2>6 DEF MissingContact
    <2>7. CASE LoadContext(e) BY <2>7 DEF LoadContext, Context
    <2>8. CASE BlockedByKillSwitch(e) BY <2>8 DEF BlockedByKillSwitch
    <2>9. CASE OtherVerdict(e) BY <2>9 DEF OtherVerdict
    <2>10. CASE EscalatedByLoop(e) BY <2>10 DEF EscalatedByLoop
    <2>11. CASE PassPolicy(e) BY <2>11 DEF PassPolicy
    <2>12. CASE PendHuman(e) BY <2>12 DEF PendHuman
    <2>13. CASE NoApprovalNeeded(e) BY <2>13 DEF NoApprovalNeeded
    <2>14. CASE InsertAction(e) BY <2>14 DEF InsertAction
    <2>15. CASE Effect(e) BY <2>15 DEF Effect
    <2>16. CASE Complete(e) BY <2>16 DEF Complete
    <2>17. CASE FailRun(e) BY <2>17 DEF FailRun
    <2>18. CASE Throws(e) BY <2>18 DEF Throws
    <2>19. CASE ProcessRetry(e) BY <2>19 DEF ProcessRetry
    <2>20. CASE Crash(e) BY <2>20 DEF Crash
    <2> QED
      BY <1>3, <2>1, <2>2, <2>3, <2>4, <2>5, <2>6, <2>7, <2>8, <2>9, <2>10, <2>11, <2>12,
         <2>13, <2>14, <2>15, <2>16, <2>17, <2>18, <2>19, <2>20 DEF Consume
  <1>4. ASSUME NEW q \in Requests, Operate(q) PROVE Goal
    <2>1. CASE ApproveRead(q) BY <2>1 DEF ApproveRead
    <2>2. CASE ApproveWrite(q) BY <2>2 DEF ApproveWrite
    <2>3. CASE ApproveEnqueue(q) BY <2>3 DEF ApproveEnqueue
    <2>4. CASE ApproveFails(q) BY <2>4 DEF ApproveFails
    <2>5. CASE Reject(q) BY <2>5 DEF Reject
    <2> QED BY <1>4, <2>1, <2>2, <2>3, <2>4, <2>5 DEF Operate
  <1>5. CASE UNCHANGED vars BY <1>5 DEF vars
  <1> QED BY <1>1, <1>2, <1>3, <1>4, <1>5 DEF Next

LEMMA InitRunInv == Init => RunInv
  <1> SUFFICES ASSUME Init PROVE RunInv OBVIOUS
  <1>1. TypeOK BY InitTypeOK
  <1> QED
    BY <1>1, RequestsAreNotRuns DEF Init, RunInv, MarkerFirst, RequestsStop, ActedOnce,
       WaitsUnacted, RowFirst, Marked, Processing, Cleared, Envelopes

LEMMA RunInvariant == Spec => []RunInv
  BY InitRunInv, NextRunInv, PTL DEF Spec

(* No run acts twice, whatever crashes, retries and operators do, and none that    *)
(* waits for an operator, or that one has approved, has acted.                     *)
THEOREM NoSecondAction == Spec => []ActsAtMostOnce
  <1>1. RunInv => ActsAtMostOnce
    BY DEF RunInv, TypeOK, ActedOnce, WaitsUnacted, ActsAtMostOnce
  <1> QED BY <1>1, RunInvariant, PTL

(* A run is never 'completed' without an action.                                   *)
THEOREM CompletedRunsActed == Spec => []CompletedHasActed
  <1>1. RunInv => CompletedHasActed
    BY DEF RunInv, ActedOnce, CompletedHasActed
  <1> QED BY <1>1, RunInvariant, PTL

-----------------------------------------------------------------------------
(* The kill switch.  While it is on, each invocation past the context load has    *)
(* its share of the slack; it uses it up by acting, and no other gets past.       *)
Past == {e \in Envelopes : at[e] \in Cleared}

LeakInv ==
  /\ TypeOK
  /\ Halted => Cardinality(Past) <= slack
  /\ ~Halted => slack = 0

LEMMA PastFinite == IsFiniteSet(Past) /\ Cardinality(Past) \in Nat
  <1>1. Past \subseteq Envelopes /\ IsFiniteSet(Envelopes)
    BY AgentAssumption, FS_Union DEF Past, Envelopes
  <1> QED BY <1>1, FS_Subset, FS_CardinalityType

LEMMA NextPastFinite == IsFiniteSet(Past') /\ Cardinality(Past') \in Nat
  <1>1. Past' \subseteq Envelopes /\ IsFiniteSet(Envelopes)
    BY AgentAssumption, FS_Union DEF Past, Envelopes
  <1> QED BY <1>1, FS_Subset, FS_CardinalityType

(* Every step but an operator's, a load with the kill switch off, and an action    *)
(* lets at most the same invocations be past the load.                             *)
LEMMA PastQuietStep ==
  ASSUME TypeOK, [Next]_vars
  PROVE  \/ Past' \subseteq Past /\ slack' = slack /\ control' = control
         \/ \E s \in Scopes, v \in {"unset", "off", "on"} : SetControl(s, v)
         \/ \E e \in Envelopes :
              \/ LoadContext(e) /\ ~Halted
              \/ InsertAction(e)
  <1> DEFINE Goal ==
        \/ Past' \subseteq Past /\ slack' = slack /\ control' = control
        \/ \E s \in Scopes, v \in {"unset", "off", "on"} : SetControl(s, v)
        \/ \E e \in Envelopes :
             \/ LoadContext(e) /\ ~Halted
             \/ InsertAction(e)
  <1> SUFFICES Goal OBVIOUS
  <1> USE DEF TypeOK, Past, Cleared, Envelopes, Goto, SetRun, Settle, counts, operatorVars
  <1>1. ASSUME NEW s \in Scopes,
               KillSwitchOn(s) \/ KillSwitchOff(s) \/ PutControls(s) \/ DeleteControls(s)
        PROVE  Goal
    BY <1>1 DEF KillSwitchOn, KillSwitchOff, PutControls, DeleteControls
  <1>2. ASSUME NEW r \in Runs,
               InsertQueued(r) \/ SendJob(r) \/ SendJobFails(r) \/ Age(r)
        PROVE  Goal
    BY <1>2 DEF InsertQueued, SendJob, SendJobFails, Age
  <1>3. ASSUME NEW e \in Envelopes,
               Deliver(e) \/ Consume(e) \/ Throws(e) \/ ProcessRetry(e) \/ Crash(e)
        PROVE  Goal
    <2>1. CASE Deliver(e) BY <2>1 DEF Deliver
    <2>2. CASE Lookup(e) BY <2>2 DEF Lookup
    <2>3. CASE PutMarker(e) BY <2>3 DEF PutMarker
    <2>4. CASE InsertRun(e) BY <2>4 DEF InsertRun
    <2>5. CASE MarkRunning(e) BY <2>5 DEF MarkRunning
    <2>6. CASE MissingContact(e) BY <2>6 DEF MissingContact
    <2>7. CASE LoadContext(e) BY <2>7 DEF LoadContext, Context
    <2>8. CASE BlockedByKillSwitch(e) BY <2>8 DEF BlockedByKillSwitch
    <2>9. CASE OtherVerdict(e) BY <2>9 DEF OtherVerdict
    <2>10. CASE EscalatedByLoop(e) BY <2>10 DEF EscalatedByLoop
    <2>11. CASE PassPolicy(e) BY <2>11 DEF PassPolicy
    <2>12. CASE PendHuman(e) BY <2>12 DEF PendHuman
    <2>13. CASE NoApprovalNeeded(e) BY <2>13 DEF NoApprovalNeeded
    <2>14. CASE InsertAction(e) BY <2>14
    <2>15. CASE Effect(e) BY <2>15 DEF Effect
    <2>16. CASE Complete(e) BY <2>16 DEF Complete
    <2>17. CASE FailRun(e) BY <2>17 DEF FailRun
    <2>18. CASE Throws(e) BY <2>18 DEF Throws
    <2>19. CASE ProcessRetry(e) BY <2>19 DEF ProcessRetry
    <2>20. CASE Crash(e) BY <2>20 DEF Crash
    <2> QED
      BY <1>3, <2>1, <2>2, <2>3, <2>4, <2>5, <2>6, <2>7, <2>8, <2>9, <2>10, <2>11, <2>12,
         <2>13, <2>14, <2>15, <2>16, <2>17, <2>18, <2>19, <2>20 DEF Consume
  <1>4. ASSUME NEW q \in Requests, Operate(q) PROVE Goal
    <2>1. CASE ApproveRead(q) BY <2>1 DEF ApproveRead
    <2>2. CASE ApproveWrite(q) BY <2>2 DEF ApproveWrite
    <2>3. CASE ApproveEnqueue(q) BY <2>3 DEF ApproveEnqueue
    <2>4. CASE ApproveFails(q) BY <2>4 DEF ApproveFails
    <2>5. CASE Reject(q) BY <2>5 DEF Reject
    <2> QED BY <1>4, <2>1, <2>2, <2>3, <2>4, <2>5 DEF Operate
  <1>5. CASE UNCHANGED vars BY <1>5 DEF vars
  <1> QED BY <1>1, <1>2, <1>3, <1>4, <1>5 DEF Next

LEMMA HaltedKept == control' = control => Halted' = Halted
  BY DEF Halted, MergedKill

LEMMA NextLeakInv == LeakInv /\ [Next]_vars => LeakInv'
  <1> SUFFICES ASSUME LeakInv, [Next]_vars PROVE LeakInv'
    OBVIOUS
  <1>1. TypeOK /\ TypeOK' BY NextTypeOK DEF LeakInv
  <1>2. /\ IsFiniteSet(Past) /\ Cardinality(Past) \in Nat
        /\ Cardinality(Past') \in Nat /\ slack \in Int /\ slack' \in Int
    BY <1>1, PastFinite, NextPastFinite DEF TypeOK
  <1>3. CASE Past' \subseteq Past /\ slack' = slack /\ control' = control
    <2>1. Cardinality(Past') <= Cardinality(Past) BY <1>2, <1>3, FS_Subset
    <2> QED BY <1>1, <1>2, <1>3, <2>1, HaltedKept DEF LeakInv
  <1>4. ASSUME NEW s \in Scopes, NEW v \in {"unset", "off", "on"}, SetControl(s, v)
        PROVE  LeakInv'
    <2>1. Past' = Past BY <1>4 DEF SetControl, Past
    <2>2. Halted' = MergedKill(control') BY DEF Halted, MergedKill
    <2>3. slack' = IF ~Halted' THEN 0 ELSE IF Halted THEN slack ELSE Cardinality(Past)
      BY <1>4, <2>2 DEF SetControl, Past
    <2> QED BY <1>1, <1>2, <2>1, <2>3 DEF LeakInv
  <1>5. ASSUME NEW e \in Envelopes, LoadContext(e), ~Halted PROVE LeakInv'
    <2>1. ~Halted' /\ slack' = slack
      BY <1>5, HaltedKept DEF LoadContext, counts, operatorVars
    <2> QED BY <1>1, <1>5, <2>1 DEF LeakInv
  <1>6. ASSUME NEW e \in Envelopes, InsertAction(e) PROVE LeakInv'
    <2>1. e \in Past /\ Past' = Past \ {e}
      BY <1>1, <1>6 DEF InsertAction, Goto, Past, Cleared, TypeOK
    <2>2. Cardinality(Past \ {e}) = Cardinality(Past) - 1
      BY <1>2, <2>1, FS_RemoveElement
    <2>3. slack' = (IF Halted THEN slack - 1 ELSE slack) /\ control' = control
      BY <1>6 DEF InsertAction, operatorVars
    <2> QED BY <1>1, <1>2, <2>1, <2>2, <2>3, HaltedKept DEF LeakInv
  <1> QED BY <1>1, <1>3, <1>4, <1>5, <1>6, PastQuietStep

(* Once the kill switch is on, at most the invocations already past the context    *)
(* load act.                                                                       *)
THEOREM LeakBounded == Spec => []KillSwitchLeakBounded
  <1>1. Init => LeakInv
    <2> SUFFICES ASSUME Init PROVE LeakInv OBVIOUS
    <2>1. Past = {} BY DEF Init, Past, Cleared
    <2>2. ~Halted BY DEF Init, Halted, MergedKill
    <2> QED BY <2>1, <2>2, InitTypeOK, FS_EmptySet DEF Init, LeakInv
  <1>2. LeakInv => KillSwitchLeakBounded
    BY PastFinite DEF LeakInv, TypeOK, KillSwitchLeakBounded
  <1> QED BY <1>1, <1>2, NextLeakInv, PTL DEF Spec

-----------------------------------------------------------------------------
(* The loop brake.  A recent run is committed once it is past the load.  Rows are  *)
(* inserted uncommitted, and a load commits one only while there are few recent.   *)
Committed == {r \in recent : acted[r] > 0 \/ at[r] \in Cleared}

LoopInv == RunInv /\ IsFiniteSet(recent) /\ Cardinality(Committed) < LoopRuns

LEMMA CommittedQuietStep ==
  ASSUME RunInv, [Next]_vars
  PROVE  \/ Committed' \subseteq Committed
         \/ Committed' \subseteq recent /\ ~LoopSeen
  <1> DEFINE Goal == \/ Committed' \subseteq Committed
                     \/ Committed' \subseteq recent /\ ~LoopSeen
  <1> SUFFICES Goal OBVIOUS
  <1> USE AgentAssumption, RequestsAreNotRuns
          DEF RunInv, TypeOK, Committed, MarkerFirst, RequestsStop, ActedOnce, RowFirst,
          Marked, Processing, Cleared, Envelopes, RunOf, Goto, SetRun, Settle, counts,
          operatorVars
  <1>1. ASSUME NEW s \in Scopes,
               KillSwitchOn(s) \/ KillSwitchOff(s) \/ PutControls(s) \/ DeleteControls(s)
        PROVE  Goal
    BY <1>1 DEF KillSwitchOn, KillSwitchOff, PutControls, DeleteControls, SetControl
  <1>2. ASSUME NEW r \in Runs,
               InsertQueued(r) \/ SendJob(r) \/ SendJobFails(r) \/ Age(r)
        PROVE  Goal
    <2>1. CASE InsertQueued(r) BY <2>1 DEF InsertQueued
    <2>2. CASE SendJob(r) BY <2>2 DEF SendJob
    <2>3. CASE SendJobFails(r) BY <2>3 DEF SendJobFails
    <2>4. CASE Age(r) BY <2>4 DEF Age
    <2> QED BY <1>2, <2>1, <2>2, <2>3, <2>4
  <1>3. ASSUME NEW e \in Envelopes,
               Deliver(e) \/ Consume(e) \/ Throws(e) \/ ProcessRetry(e) \/ Crash(e)
        PROVE  Goal
    <2>1. CASE Deliver(e) BY <2>1 DEF Deliver
    <2>2. CASE Lookup(e) BY <2>2 DEF Lookup
    <2>3. CASE PutMarker(e) BY <2>3 DEF PutMarker
    <2>4. CASE InsertRun(e) BY <2>4 DEF InsertRun
    <2>5. CASE MarkRunning(e) BY <2>5 DEF MarkRunning
    <2>6. CASE MissingContact(e) BY <2>6 DEF MissingContact
    <2>7. CASE LoadContext(e) BY <2>7 DEF LoadContext, Context
    <2>8. CASE BlockedByKillSwitch(e) BY <2>8 DEF BlockedByKillSwitch
    <2>9. CASE OtherVerdict(e) BY <2>9 DEF OtherVerdict
    <2>10. CASE EscalatedByLoop(e) BY <2>10 DEF EscalatedByLoop
    <2>11. CASE PassPolicy(e) BY <2>11 DEF PassPolicy
    <2>12. CASE PendHuman(e) BY <2>12 DEF PendHuman
    <2>13. CASE NoApprovalNeeded(e) BY <2>13 DEF NoApprovalNeeded
    <2>14. CASE InsertAction(e) BY <2>14 DEF InsertAction
    <2>15. CASE Effect(e) BY <2>15 DEF Effect
    <2>16. CASE Complete(e) BY <2>16 DEF Complete
    <2>17. CASE FailRun(e) BY <2>17 DEF FailRun
    <2>18. CASE Throws(e) BY <2>18 DEF Throws
    <2>19. CASE ProcessRetry(e) BY <2>19 DEF ProcessRetry
    <2>20. CASE Crash(e) BY <2>20 DEF Crash
    <2> QED
      BY <1>3, <2>1, <2>2, <2>3, <2>4, <2>5, <2>6, <2>7, <2>8, <2>9, <2>10, <2>11, <2>12,
         <2>13, <2>14, <2>15, <2>16, <2>17, <2>18, <2>19, <2>20 DEF Consume
  <1>4. ASSUME NEW q \in Requests, Operate(q) PROVE Goal
    <2>1. CASE ApproveRead(q) BY <2>1 DEF ApproveRead
    <2>2. CASE ApproveWrite(q) BY <2>2 DEF ApproveWrite
    <2>3. CASE ApproveEnqueue(q) BY <2>3 DEF ApproveEnqueue
    <2>4. CASE ApproveFails(q) BY <2>4 DEF ApproveFails
    <2>5. CASE Reject(q) BY <2>5 DEF Reject
    <2> QED BY <1>4, <2>1, <2>2, <2>3, <2>4, <2>5 DEF Operate
  <1>5. CASE UNCHANGED vars BY <1>5 DEF vars
  <1> QED BY <1>1, <1>2, <1>3, <1>4, <1>5 DEF Next

LEMMA RecentFinite == TypeOK => IsFiniteSet(recent) /\ Cardinality(recent) \in Nat
  BY AgentAssumption, FS_Subset, FS_CardinalityType DEF TypeOK

LEMMA NextLoopInv == LoopInv /\ [Next]_vars => LoopInv'
  <1> SUFFICES ASSUME LoopInv, [Next]_vars PROVE LoopInv'
    OBVIOUS
  <1>1. RunInv /\ RunInv' BY NextRunInv DEF LoopInv
  <1>2. IsFiniteSet(recent) /\ Cardinality(recent) \in Nat
    BY <1>1, RecentFinite DEF RunInv
  <1>3. IsFiniteSet(recent')
    BY <1>1, AgentAssumption, FS_Subset DEF RunInv, TypeOK
  <1>4. IsFiniteSet(Committed) /\ Cardinality(Committed) \in Nat
    BY <1>2, FS_Subset, FS_CardinalityType DEF Committed
  <1>5. IsFiniteSet(Committed') /\ Cardinality(Committed') \in Nat
    <2>1. Committed' \subseteq recent' BY DEF Committed
    <2> QED BY <1>3, <2>1, FS_Subset, FS_CardinalityType
  <1>6. CASE Committed' \subseteq Committed
    <2>1. Cardinality(Committed') <= Cardinality(Committed) BY <1>4, <1>6, FS_Subset
    <2> QED BY <1>1, <1>3, <1>4, <1>5, <2>1, AgentAssumption DEF LoopInv
  <1>7. CASE Committed' \subseteq recent /\ ~LoopSeen
    <2>1. Cardinality(Committed') <= Cardinality(recent) BY <1>2, <1>7, FS_Subset
    <2>2. Cardinality(recent) < LoopRuns BY <1>2, <1>7, AgentAssumption DEF LoopSeen
    <2> QED BY <1>1, <1>2, <1>3, <1>5, <2>1, <2>2, AgentAssumption DEF LoopInv
  <1> QED BY <1>1, <1>6, <1>7, CommittedQuietStep

(* Of the runs created within ten minutes fewer than LoopRuns act.                 *)
THEOREM LoopBrakeHolds == Spec => []LoopBrake
  <1>2. Init => LoopInv
    <2> SUFFICES ASSUME Init PROVE LoopInv OBVIOUS
    <2>1. Committed = {} /\ recent = {} BY DEF Init, Committed
    <2> QED BY InitRunInv, <2>1, FS_EmptySet, AgentAssumption DEF LoopInv
  <1>3. LoopInv => LoopBrake
    <2> SUFFICES ASSUME LoopInv PROVE LoopBrake OBVIOUS
    <2> DEFINE Acting == {r \in recent : acted[r] > 0}
    <2>1. IsFiniteSet(Committed) /\ Cardinality(Committed) \in Nat
      BY FS_Subset, FS_CardinalityType DEF LoopInv, Committed
    <2>2. Acting \subseteq Committed BY DEF Committed
    <2>3. Cardinality(Acting) <= Cardinality(Committed) /\ Cardinality(Acting) \in Nat
      BY <2>1, <2>2, FS_Subset, FS_CardinalityType
    <2> QED BY <2>1, <2>3, AgentAssumption DEF LoopInv, LoopBrake
  <1> QED BY <1>2, <1>3, NextLoopInv, PTL DEF Spec
-----------------------------------------------------------------------------
(* Stranded runs.  A failure takes at most one run from the messages and requests  *)
(* that would settle it; every other step leaves what it does not settle in their  *)
(* hands.                                                                          *)
Left == {r \in Runs : Stranded(r)}

StrandedInv == RunInv /\ Cardinality(Left) <= failures

LEMMA LeftFinite == IsFiniteSet(Left) /\ Cardinality(Left) \in Nat
  <1>1. Left \subseteq Runs BY DEF Left
  <1> QED BY <1>1, AgentAssumption, FS_Subset, FS_CardinalityType

LEMMA NextLeftFinite == IsFiniteSet(Left') /\ Cardinality(Left') \in Nat
  <1>1. Left' \subseteq Runs BY DEF Left
  <1> QED BY <1>1, AgentAssumption, FS_Subset, FS_CardinalityType

(* What a step does to the stranded runs and to the count of failures. *)
Strands ==
  \/ /\ \A r \in Runs : Stranded(r)' => Stranded(r)
     /\ failures' = failures
  \/ \E s \in Runs :
       /\ \A r \in Runs \ {s} : Stranded(r)' => Stranded(r)
       /\ failures' = failures + 1

LEMMA LeftStep == ASSUME RunInv, [Next]_vars PROVE Strands
  <1> USE AgentAssumption, RequestsAreNotRuns
          DEF RunInv, TypeOK, MarkerFirst, RequestsStop, WaitsUnacted, RowFirst, Stranded,
          Marked, Processing, Cleared, Envelopes, RunOf, Goto, SetRun, Settle, counts,
          operatorVars, Strands
  <1>1. ASSUME NEW s \in Scopes,
               KillSwitchOn(s) \/ KillSwitchOff(s) \/ PutControls(s) \/ DeleteControls(s)
        PROVE  Strands
    BY <1>1 DEF KillSwitchOn, KillSwitchOff, PutControls, DeleteControls, SetControl
  <1>2. ASSUME NEW r \in Runs,
               InsertQueued(r) \/ SendJob(r) \/ SendJobFails(r) \/ Age(r)
        PROVE  Strands
    <2>1. CASE InsertQueued(r) BY <2>1 DEF InsertQueued
    <2>2. CASE SendJob(r) BY <2>2 DEF SendJob
    <2>3. CASE SendJobFails(r) BY <2>3 DEF SendJobFails
    <2>4. CASE Age(r) BY <2>4 DEF Age
    <2> QED BY <1>2, <2>1, <2>2, <2>3, <2>4
  <1>3. ASSUME NEW e \in Envelopes,
               Deliver(e) \/ Consume(e) \/ Throws(e) \/ ProcessRetry(e) \/ Crash(e)
        PROVE  Strands
    <2>1. CASE Deliver(e) BY <2>1 DEF Deliver
    <2>2. CASE Lookup(e) BY <2>2 DEF Lookup
    <2>3. CASE PutMarker(e) BY <2>3 DEF PutMarker
    <2>4. CASE InsertRun(e) BY <2>4 DEF InsertRun
    <2>5. CASE MarkRunning(e) BY <2>5 DEF MarkRunning
    <2>6. CASE MissingContact(e) BY <2>6 DEF MissingContact
    <2>7. CASE LoadContext(e) BY <2>7 DEF LoadContext, Context
    <2>8. CASE BlockedByKillSwitch(e) BY <2>8 DEF BlockedByKillSwitch
    <2>9. CASE OtherVerdict(e) BY <2>9 DEF OtherVerdict
    <2>10. CASE EscalatedByLoop(e) BY <2>10 DEF EscalatedByLoop
    <2>11. CASE PassPolicy(e) BY <2>11 DEF PassPolicy
    <2>12. CASE PendHuman(e) BY <2>12 DEF PendHuman
    <2>13. CASE NoApprovalNeeded(e) BY <2>13 DEF NoApprovalNeeded
    <2>14. CASE InsertAction(e) BY <2>14 DEF InsertAction
    <2>15. CASE Effect(e) BY <2>15 DEF Effect
    <2>16. CASE Complete(e) BY <2>16 DEF Complete
    <2>17. CASE FailRun(e) BY <2>17 DEF FailRun
    <2>18. CASE Throws(e) BY <2>18 DEF Throws
    <2>19. CASE ProcessRetry(e) BY <2>19 DEF ProcessRetry
    <2>20. CASE Crash(e) BY <2>20 DEF Crash
    <2> QED
      BY <1>3, <2>1, <2>2, <2>3, <2>4, <2>5, <2>6, <2>7, <2>8, <2>9, <2>10, <2>11, <2>12,
         <2>13, <2>14, <2>15, <2>16, <2>17, <2>18, <2>19, <2>20 DEF Consume
  <1>4. ASSUME NEW q \in Requests, Operate(q) PROVE Strands
    <2>1. CASE ApproveRead(q) BY <2>1 DEF ApproveRead
    <2>2. CASE ApproveWrite(q) BY <2>2 DEF ApproveWrite
    <2>3. CASE ApproveEnqueue(q) BY <2>3 DEF ApproveEnqueue
    <2>4. CASE ApproveFails(q) BY <2>4 DEF ApproveFails
    <2>5. CASE Reject(q) BY <2>5 DEF Reject
    <2> QED BY <1>4, <2>1, <2>2, <2>3, <2>4, <2>5 DEF Operate
  <1>5. CASE UNCHANGED vars BY <1>5 DEF vars
  <1> QED BY <1>1, <1>2, <1>3, <1>4, <1>5 DEF Next

LEMMA NextStrandedInv == StrandedInv /\ [Next]_vars => StrandedInv'
  <1> SUFFICES ASSUME StrandedInv, [Next]_vars PROVE StrandedInv'
    OBVIOUS
  <1>1. RunInv /\ RunInv' BY NextRunInv DEF StrandedInv
  <1>2. failures \in Nat BY <1>1, AgentAssumption DEF RunInv, TypeOK
  <1>3. Strands BY <1>1, LeftStep
  <1>4. CASE (\A r \in Runs : Stranded(r)' => Stranded(r)) /\ failures' = failures
    <2>1. Left' \subseteq Left BY <1>4 DEF Left
    <2>2. Cardinality(Left') <= Cardinality(Left) BY <2>1, LeftFinite, FS_Subset
    <2> QED BY <1>1, <1>2, <1>4, <2>2, LeftFinite, NextLeftFinite DEF StrandedInv
  <1>5. ASSUME NEW s \in Runs, \A r \in Runs \ {s} : Stranded(r)' => Stranded(r),
               failures' = failures + 1
        PROVE  StrandedInv'
    <2>1. Left' \subseteq Left \cup {s} BY <1>5 DEF Left
    <2>2. /\ IsFiniteSet(Left \cup {s}) /\ Cardinality(Left \cup {s}) \in Nat
          /\ Cardinality(Left \cup {s}) <= Cardinality(Left) + 1
      <3>1. /\ IsFiniteSet(Left \cup {s})
            /\ Cardinality(Left \cup {s})
                 = IF s \in Left THEN Cardinality(Left) ELSE Cardinality(Left) + 1
        BY LeftFinite, FS_AddElement
      <3> DEFINE n == Cardinality(Left)
                 more == Cardinality(Left \cup {s})
      <3>2. IsFiniteSet(Left \cup {s}) /\ n \in Nat /\ (more = n \/ more = n + 1)
        BY <3>1, LeftFinite
      <3> HIDE DEF n, more
      <3>3. more \in Nat /\ more <= n + 1 BY <3>2
      <3> QED BY <3>2, <3>3 DEF n, more
    <2>3. Cardinality(Left') <= Cardinality(Left \cup {s}) BY <2>1, <2>2, FS_Subset
    <2> QED BY <1>1, <1>2, <1>5, <2>2, <2>3, LeftFinite, NextLeftFinite DEF StrandedInv
  <1> QED BY <1>3, <1>4, <1>5 DEF Strands

(* No more runs are left open for good than there were failures.                   *)
THEOREM FewStranded == Spec => []StrandedBounded
  <1>1. Init => StrandedInv
    <2> SUFFICES ASSUME Init PROVE StrandedInv OBVIOUS
    <2>1. Left = {} BY DEF Init, Left, Stranded
    <2> QED BY <2>1, InitRunInv, FS_EmptySet DEF Init, StrandedInv
  <1>2. StrandedInv => StrandedBounded
    BY DEF StrandedInv, Left, StrandedBounded
  <1> QED BY <1>1, <1>2, NextStrandedInv, PTL DEF Spec

=============================================================================
