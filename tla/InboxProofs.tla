---------------------------- MODULE InboxProofs -----------------------------
(****************************************************************************)
(* What comes in and goes out as messages: the jobs that follow a Gmail      *)
(* mailbox, the deliveries, reports and webhooks of WhatsApp, the e-mails    *)
(* sent within a day's limit, and the order in which a contact's events are  *)
(* kept and an answer is spoken. Every theorem is about any number of jobs,  *)
(* mails, deliveries, events and pieces.                                     *)
(****************************************************************************)
EXTENDS CopiesProofs

-----------------------------------------------------------------------------
(* The state of the Gmail jobs: its types, and a job that is at a mail has *)
(* one.                                                                    *)
InboundTypes ==
  /\ Inbound!TypeOK
  /\ \A j \in InboundJobs : inboundJob[j] \in {"fetch", "insert", "run"} => inboundMail[j] \in Inbound!Mails

LEMMA InboundRanges ==
  ASSUME Inbound!TypeOK, NEW j \in InboundJobs
  PROVE  /\ Inbound!Listed(j) \subseteq Inbound!Mails /\ Inbound!Beyond(j) \subseteq Inbound!Mails
         /\ (inboundSince[j] + 1)..inboundArrived \subseteq Inbound!Mails
         /\ inboundTodo[j] \subseteq Inbound!Mails
  <1>1. /\ inboundArrived \in Nat /\ inboundArrived <= InboundLastMail
        /\ inboundSince[j] \in Nat /\ inboundTodo[j] \subseteq Inbound!Mails
    BY ServicesBounds DEF Inbound!TypeOK
  <1>2. InboundLastMail \in Nat
    BY ServicesBounds
  <1> QED BY <1>1, <1>2 DEF Inbound!Listed, Inbound!Beyond, Inbound!Mails

LEMMA InitInboundTypes == Inbound!Init => InboundTypes
  <1> InboundLastMail \in Nat /\ InboundMaxFailures \in Nat
    BY ServicesAssumption, ServicesBounds
  <1> QED BY DEF Inbound!Init, Inbound!TypeOK, Inbound!Mails, Inbound!Working, Inbound!GoOn,
             Inbound!Fails, Inbound!effects, InboundTypes

LEMMA NextInboundTypes ==
  ASSUME InboundTypes, Inbound!Next \/ UNCHANGED inboundVars
  PROVE  InboundTypes'
  <1> InboundLastMail \in Nat /\ InboundMaxFailures \in Nat
    BY ServicesAssumption, ServicesBounds
  <1> USE DEF Inbound!TypeOK, Inbound!Working, Inbound!GoOn, Inbound!Fails, Inbound!effects, InboundTypes
  <1> InboundReplies \subseteq Inbound!Mails /\ InboundBounces \subseteq Inbound!Mails
    BY ServicesAssumption DEF Inbound!Mails
  <1> \A m \in Inbound!Mails : m \in 0..InboundLastMail
    BY DEF Inbound!Mails
  <1> DEFINE Place == {"none", "queued", "read", "list", "put", "done", "dropped"} \cup Inbound!Working
  <1>1. CASE UNCHANGED inboundVars
    BY <1>1 DEF inboundVars
  <1>2. CASE Inbound!Arrive
    BY <1>2 DEF Inbound!Arrive
  <1>3. ASSUME NEW j \in InboundJobs, Inbound!Push(j) PROVE InboundTypes'
    BY <1>3 DEF Inbound!Push
  <1>4. ASSUME NEW j \in InboundJobs, Inbound!Begin(j) PROVE InboundTypes'
    BY <1>4 DEF Inbound!Begin
  <1>5. ASSUME NEW j \in InboundJobs, Inbound!ReadWatermark(j) PROVE InboundTypes'
    BY <1>5 DEF Inbound!ReadWatermark
  <1>6. ASSUME NEW j \in InboundJobs, Inbound!ListMails(j) PROVE InboundTypes'
    BY <1>6, InboundRanges DEF Inbound!ListMails
  <1>7. ASSUME NEW j \in InboundJobs, Inbound!ListFails(j) PROVE InboundTypes'
    BY <1>7, InboundRanges DEF Inbound!ListFails
  <1>8. ASSUME NEW j \in InboundJobs, Inbound!CheckStored(j) PROVE InboundTypes'
    <2>1. PICK m \in inboundTodo[j] :
            /\ inboundTodo' = [inboundTodo EXCEPT ![j] = @ \ {m}]
            /\ \/ UNCHANGED <<inboundJob, inboundMail, inboundOverlaps>>
               \/ /\ inboundOverlaps' = [inboundOverlaps EXCEPT ![m] =
                       IF \E k \in InboundJobs : inboundMail[k] = m THEN @ + 1 ELSE @]
                  /\ inboundMail' = [inboundMail EXCEPT ![j] = m]
                  /\ inboundJob' = [inboundJob EXCEPT ![j] = "fetch"]
            /\ UNCHANGED <<inboundArrived, inboundWatermark, inboundPushed, inboundSince,
                           inboundStored, inboundReplyRuns, inboundCounted, inboundPassed,
                           inboundFailures>>
      BY <1>8 DEF Inbound!CheckStored
    <2>2. m \in Inbound!Mails
      BY InboundRanges
    <2>3. inboundOverlaps' \in [Inbound!Mails -> Nat]
      <3>1. CASE inboundOverlaps' = inboundOverlaps
        BY <3>1
      <3>2. CASE inboundOverlaps' = [inboundOverlaps EXCEPT ![m] =
                   IF \E k \in InboundJobs : inboundMail[k] = m THEN @ + 1 ELSE @]
        <4>1. CASE \E k \in InboundJobs : inboundMail[k] = m
          BY <3>2, <4>1, <2>2
        <4>2. CASE ~ \E k \in InboundJobs : inboundMail[k] = m
          BY <3>2, <4>2, <2>2
        <4> QED BY <4>1, <4>2
      <3> QED BY <2>1, <3>1, <3>2
    <2> QED BY <2>1, <2>2, <2>3
  <1>9. ASSUME NEW j \in InboundJobs, Inbound!FetchDetail(j) PROVE InboundTypes'
    BY <1>9 DEF Inbound!FetchDetail
  <1>10. ASSUME NEW j \in InboundJobs, Inbound!FetchFails(j) PROVE InboundTypes'
    BY <1>10 DEF Inbound!FetchFails
  <1>11. ASSUME NEW j \in InboundJobs, Inbound!StoreReply(j) PROVE InboundTypes'
    <2>1. inboundStored' \in [Inbound!Mails -> Nat]
      BY <1>11 DEF Inbound!StoreReply
    <2>2. inboundMail' \in [InboundJobs -> 0..InboundLastMail]
      BY <1>11 DEF Inbound!StoreReply
    <2> QED BY <1>11, <2>1, <2>2 DEF Inbound!StoreReply
  <1>12. ASSUME NEW j \in InboundJobs, Inbound!CountBounce(j) PROVE InboundTypes'
    <2>1. inboundCounted' \in [Inbound!Mails -> Nat]
      BY <1>12 DEF Inbound!CountBounce
    <2>2. inboundMail' \in [InboundJobs -> 0..InboundLastMail]
      BY <1>12 DEF Inbound!CountBounce
    <2> QED BY <1>12, <2>1, <2>2 DEF Inbound!CountBounce
  <1>13. ASSUME NEW j \in InboundJobs, Inbound!StartRun(j) PROVE InboundTypes'
    <2>1. inboundReplyRuns' \in [Inbound!Mails -> Nat]
      BY <1>13 DEF Inbound!StartRun
    <2>2. inboundMail' \in [InboundJobs -> 0..InboundLastMail]
      BY <1>13 DEF Inbound!StartRun
    <2> QED BY <1>13, <2>1, <2>2 DEF Inbound!StartRun
  <1>14. ASSUME NEW j \in InboundJobs, Inbound!EndLoop(j) PROVE InboundTypes'
    BY <1>14 DEF Inbound!EndLoop
  <1>15. ASSUME NEW j \in InboundJobs, Inbound!PutWatermark(j) PROVE InboundTypes'
    BY <1>15 DEF Inbound!PutWatermark
  <1>16. ASSUME NEW j \in InboundJobs, Inbound!Die(j) PROVE InboundTypes'
    BY <1>16 DEF Inbound!Die
  <1> QED BY <1>1, <1>2, <1>3, <1>4, <1>5, <1>6, <1>7, <1>8, <1>9, <1>10, <1>11, <1>12, <1>13,
             <1>14, <1>15, <1>16 DEF Inbound!Next, Inbound!JobStep

-----------------------------------------------------------------------------
(* The watermark. It is put last, by a job that has been through           *)
(* everything it was pushed for, and a job that starts after it may begin  *)
(* there: so the invariant is about all that a job promises. What the      *)
(* watermark, or the start of any job, is past has been stored, counted or *)
(* given up; and what a job was pushed for and is not yet covered it still *)
(* has before it, in its list or in its hands.                             *)
(* The mails that the watermark promises: stored, counted, or gone past. *)
Covered(m) == inboundStored[m] + inboundCounted[m] > 0 \/ m \in inboundPassed

(* A job still has the mail before it. *)
Pending(j, m) ==
  \/ m \in inboundTodo[j]
  \/ inboundJob[j] \in {"fetch", "insert"} /\ inboundMail[j] = m

Wanted == InboundReplies \cup InboundBounces

InboundInv ==
  /\ InboundTypes
  /\ inboundWatermark <= inboundArrived
  /\ \A j \in InboundJobs : inboundPushed[j] <= inboundArrived /\ inboundSince[j] <= inboundArrived
  /\ \A m \in Wanted : m <= inboundWatermark => Covered(m)
  /\ \A j \in InboundJobs, m \in Wanted : m <= inboundSince[j] => Covered(m)
  /\ \A j \in InboundJobs, m \in Wanted :
       m <= inboundPushed[j] /\ inboundJob[j] \in Inbound!Working => Covered(m) \/ Pending(j, m)
  /\ \A j \in InboundJobs, m \in Wanted :
       m <= inboundPushed[j] /\ inboundJob[j] = "put" => Covered(m)

LEMMA WantedAreMails == \A m \in Wanted : m \in Inbound!Mails /\ m \in Nat /\ m > 0
  BY ServicesAssumption, ServicesBounds DEF Wanted, Inbound!Mails

LEMMA CoveredStays ==
  ASSUME InboundTypes, Inbound!Next \/ UNCHANGED inboundVars, NEW m \in Wanted, Covered(m)
  PROVE  Covered(m)'
  <1> m \in Inbound!Mails
    BY WantedAreMails
  <1> inboundStored[m] \in Nat /\ inboundCounted[m] \in Nat
    BY DEF InboundTypes, Inbound!TypeOK
  <1> /\ inboundStored \in [Inbound!Mails -> Nat] /\ inboundCounted \in [Inbound!Mails -> Nat]
    BY DEF InboundTypes, Inbound!TypeOK
  <1>1. CASE UNCHANGED inboundVars
    BY <1>1 DEF inboundVars, Covered
  <1>2. CASE Inbound!Arrive
    BY <1>2 DEF Inbound!Arrive, Inbound!effects, Covered
  <1>3. ASSUME NEW j \in InboundJobs, Inbound!JobStep(j)
        PROVE  Covered(m)'
    <2>1. CASE Inbound!StoreReply(j)
      <3>1. inboundStored'[m] \in {inboundStored[m], inboundStored[m] + 1}
        BY <2>1 DEF Inbound!StoreReply
      <3> QED BY <2>1, <3>1 DEF Inbound!StoreReply, Covered
    <2>2. CASE Inbound!CountBounce(j)
      <3>1. inboundCounted'[m] \in {inboundCounted[m], inboundCounted[m] + 1}
        BY <2>2 DEF Inbound!CountBounce
      <3> QED BY <2>2, <3>1 DEF Inbound!CountBounce, Covered
    <2>3. CASE ~Inbound!StoreReply(j) /\ ~Inbound!CountBounce(j)
      <3>1. /\ inboundStored' = inboundStored /\ inboundCounted' = inboundCounted
            /\ inboundPassed \subseteq inboundPassed'
        BY <1>3, <2>3 DEF Inbound!JobStep, Inbound!Push, Inbound!Begin, Inbound!ReadWatermark,
             Inbound!ListMails, Inbound!ListFails, Inbound!CheckStored, Inbound!FetchDetail,
             Inbound!FetchFails, Inbound!StartRun, Inbound!EndLoop, Inbound!PutWatermark,
             Inbound!Die, Inbound!effects
      <3> QED BY <3>1 DEF Covered
    <2> QED BY <2>1, <2>2, <2>3
  <1> QED BY <1>1, <1>2, <1>3 DEF Inbound!Next

LEMMA InitInboundInv == Inbound!Init => InboundInv
  BY InitInboundTypes, WantedAreMails, ServicesBounds DEF Inbound!Init, InboundInv, Inbound!Working

LEMMA NextInboundInv ==
  ASSUME InboundInv, Inbound!Next \/ UNCHANGED inboundVars
  PROVE  InboundInv'
  <1> DEFINE Bounds ==
               /\ inboundWatermark <= inboundArrived
               /\ \A j \in InboundJobs : inboundPushed[j] <= inboundArrived /\ inboundSince[j] <= inboundArrived
             Kept == \A m \in Wanted : m <= inboundWatermark => Covered(m)
             Read == \A j \in InboundJobs, m \in Wanted : m <= inboundSince[j] => Covered(m)
             Loop == \A j \in InboundJobs, m \in Wanted :
               m <= inboundPushed[j] /\ inboundJob[j] \in Inbound!Working => Covered(m) \/ Pending(j, m)
             End == \A j \in InboundJobs, m \in Wanted :
               m <= inboundPushed[j] /\ inboundJob[j] = "put" => Covered(m)
  <1> InboundTypes /\ InboundTypes'
    BY NextInboundTypes DEF InboundInv
  <1> Bounds /\ Kept /\ Read /\ Loop /\ End
    BY DEF InboundInv
  <1> SUFFICES Bounds' /\ Kept' /\ Read' /\ Loop' /\ End'
    BY DEF InboundInv
  <1>s. \A m \in Wanted : Covered(m) => Covered(m)'
    BY CoveredStays
  <1>t. /\ inboundArrived \in Nat /\ inboundArrived' \in Nat /\ inboundWatermark \in Nat
        /\ \A j \in InboundJobs : inboundPushed[j] \in Nat /\ inboundSince[j] \in Nat
        /\ DOMAIN inboundPushed = InboundJobs /\ DOMAIN inboundSince = InboundJobs
        /\ DOMAIN inboundJob = InboundJobs /\ DOMAIN inboundTodo = InboundJobs
        /\ DOMAIN inboundMail = InboundJobs
        /\ inboundPassed \subseteq Inbound!Mails
    BY ServicesBounds DEF InboundTypes, Inbound!TypeOK
  <1>w. Wanted \subseteq Nat /\ Wanted \subseteq Inbound!Mails /\ \A m \in Wanted : m > 0
    BY WantedAreMails
  <1> HIDE DEF Wanted, Covered, Pending, InboundTypes, InboundInv
  <1> USE DEF Inbound!GoOn, Inbound!Fails, Inbound!effects, Inbound!Working
  <1>1. CASE UNCHANGED inboundVars
    BY <1>1, <1>s DEF inboundVars, Pending
  <1>2. CASE Inbound!Arrive
    BY <1>2, <1>s, <1>t, <1>w DEF Inbound!Arrive, Pending
  <1>3. ASSUME NEW j \in InboundJobs, Inbound!Push(j)
        PROVE  Bounds' /\ Kept' /\ Read' /\ Loop' /\ End'
    BY <1>3, <1>s, <1>t, <1>w DEF Inbound!Push, Pending
  <1>4. ASSUME NEW j \in InboundJobs, Inbound!Begin(j)
        PROVE  Bounds' /\ Kept' /\ Read' /\ Loop' /\ End'
    BY <1>4, <1>s, <1>t, <1>w DEF Inbound!Begin, Pending
  <1>5. ASSUME NEW j \in InboundJobs, Inbound!ReadWatermark(j)
        PROVE  Bounds' /\ Kept' /\ Read' /\ Loop' /\ End'
    BY <1>5, <1>s, <1>t, <1>w DEF Inbound!ReadWatermark, Pending
  <1>6. ASSUME NEW j \in InboundJobs, Inbound!ListMails(j)
        PROVE  Bounds' /\ Kept' /\ Read' /\ Loop' /\ End'
    <2>1. /\ inboundJob' = [inboundJob EXCEPT ![j] = "check"]
          /\ inboundTodo' = [inboundTodo EXCEPT ![j] = Inbound!Listed(j)]
          /\ inboundPassed' = inboundPassed \cup Inbound!Beyond(j)
          /\ UNCHANGED <<inboundArrived, inboundWatermark, inboundPushed, inboundSince, inboundMail,
                         inboundStored, inboundCounted>>
      BY <1>6 DEF Inbound!ListMails
    <2>2. ASSUME NEW m \in Wanted, m <= inboundPushed[j]
          PROVE  Covered(m)' \/ Pending(j, m)'
      <3>1. CASE m <= inboundSince[j]
        BY <1>s, <3>1
      <3>2. CASE m > inboundSince[j] /\ inboundSince[j] # 0
        BY <2>1, <3>2, <1>t, <1>w, <2>2 DEF Inbound!Listed, Pending
      <3>3. CASE inboundSince[j] = 0
        BY <2>1, <3>3, <1>t, <1>w, <2>2 DEF Inbound!Beyond, Pending, Covered
      <3> QED BY <3>1, <3>2, <3>3, <1>t, <1>w
    <2>3. Bounds' /\ Kept' /\ Read'
      BY <2>1, <1>s
    <2>4. Loop'
      BY <2>1, <2>2, <1>s, <1>t DEF Pending
    <2>5. End'
      BY <2>1, <1>s, <1>t
    <2> QED BY <2>3, <2>4, <2>5
  <1>7. ASSUME NEW j \in InboundJobs, Inbound!ListFails(j)
        PROVE  Bounds' /\ Kept' /\ Read' /\ Loop' /\ End'
    <2>1. ASSUME NEW m \in Wanted, m <= inboundPushed[j]
          PROVE  Covered(m)'
      <3>1. CASE m <= inboundSince[j]
        BY <1>s, <3>1
      <3>2. CASE m > inboundSince[j]
        BY <1>7, <3>2, <1>t, <1>w, <2>1 DEF Inbound!ListFails, Covered
      <3> QED BY <3>1, <3>2, <1>t, <1>w
    <2> QED BY <1>7, <2>1, <1>s, <1>t DEF Inbound!ListFails, Pending
  <1>8. ASSUME NEW j \in InboundJobs, Inbound!CheckStored(j)
        PROVE  Bounds' /\ Kept' /\ Read' /\ Loop' /\ End'
    <2>1. PICK n \in inboundTodo[j] :
            /\ inboundTodo' = [inboundTodo EXCEPT ![j] = @ \ {n}]
            /\ \/ inboundStored[n] > 0 /\ UNCHANGED <<inboundJob, inboundMail>>
               \/ /\ inboundMail' = [inboundMail EXCEPT ![j] = n]
                  /\ inboundJob' = [inboundJob EXCEPT ![j] = "fetch"]
      BY <1>8 DEF Inbound!CheckStored
    <2>2. /\ inboundJob[j] = "check"
          /\ UNCHANGED <<inboundArrived, inboundWatermark, inboundPushed, inboundSince,
                         inboundStored, inboundCounted, inboundPassed>>
      BY <1>8 DEF Inbound!CheckStored
    <2>3. Bounds' /\ Kept' /\ Read'
      BY <2>2, <1>s
    <2>4. End'
      BY <2>1, <2>2, <1>s, <1>t
    <2>5. ASSUME NEW m \in Wanted, m <= inboundPushed[j]
          PROVE  Covered(m)' \/ Pending(j, m)'
      <3>1. CASE m = n /\ inboundStored[n] > 0
        <4>1. inboundStored[m] \in Nat /\ inboundCounted[m] \in Nat
          BY <1>w DEF InboundTypes, Inbound!TypeOK
        <4>2. Covered(m)
          BY <3>1, <4>1 DEF Covered
        <4> QED BY <4>2, <1>s
      <3>2. CASE m = n /\ ~(inboundStored[n] > 0)
        BY <2>1, <3>2, <1>t DEF Pending
      <3>3. CASE m # n
        <4>1. Covered(m) \/ m \in inboundTodo[j]
          BY <2>2, <2>5 DEF Pending
        <4> QED BY <2>1, <3>3, <4>1, <1>s, <1>t DEF Pending
      <3> QED BY <3>1, <3>2, <3>3
    <2>6. Loop'
      BY <2>1, <2>2, <2>5, <1>s, <1>t DEF Pending
    <2> QED BY <2>3, <2>4, <2>6
  <1>9. ASSUME NEW j \in InboundJobs, Inbound!FetchDetail(j)
        PROVE  Bounds' /\ Kept' /\ Read' /\ Loop' /\ End'
    BY <1>9, <1>s, <1>t DEF Inbound!FetchDetail, Pending, Wanted
  <1>10. ASSUME NEW j \in InboundJobs, Inbound!FetchFails(j)
        PROVE  Bounds' /\ Kept' /\ Read' /\ Loop' /\ End'
    <2>1. \A m \in Wanted : m = inboundMail[j] => Covered(m)'
      BY <1>10 DEF Inbound!FetchFails, Covered
    <2> QED BY <1>10, <2>1, <1>s, <1>t DEF Inbound!FetchFails, Pending
  <1>11. ASSUME NEW j \in InboundJobs, Inbound!StoreReply(j)
        PROVE  Bounds' /\ Kept' /\ Read' /\ Loop' /\ End'
    <2>1. ASSUME NEW m \in Wanted, m = inboundMail[j] PROVE Covered(m)'
      <3>1. inboundStored \in [Inbound!Mails -> Nat] /\ inboundCounted[m] \in Nat
        BY <1>w DEF InboundTypes, Inbound!TypeOK
      <3> QED BY <1>11, <2>1, <3>1, <1>w DEF Inbound!StoreReply, Covered
    <2> QED BY <1>11, <2>1, <1>s, <1>t DEF Inbound!StoreReply, Pending
  <1>12. ASSUME NEW j \in InboundJobs, Inbound!CountBounce(j)
        PROVE  Bounds' /\ Kept' /\ Read' /\ Loop' /\ End'
    <2>1. ASSUME NEW m \in Wanted, m = inboundMail[j] PROVE Covered(m)'
      <3>1. inboundCounted \in [Inbound!Mails -> Nat] /\ inboundStored[m] \in Nat
        BY <1>w DEF InboundTypes, Inbound!TypeOK
      <3> QED BY <1>12, <2>1, <3>1, <1>w DEF Inbound!CountBounce, Covered
    <2> QED BY <1>12, <2>1, <1>s, <1>t DEF Inbound!CountBounce, Pending
  <1>13. ASSUME NEW j \in InboundJobs, Inbound!StartRun(j)
        PROVE  Bounds' /\ Kept' /\ Read' /\ Loop' /\ End'
    BY <1>13, <1>s, <1>t DEF Inbound!StartRun, Pending
  <1>14. ASSUME NEW j \in InboundJobs, Inbound!EndLoop(j)
        PROVE  Bounds' /\ Kept' /\ Read' /\ Loop' /\ End'
    BY <1>14, <1>s, <1>t DEF Inbound!EndLoop, Pending
  <1>15. ASSUME NEW j \in InboundJobs, Inbound!PutWatermark(j)
        PROVE  Bounds' /\ Kept' /\ Read' /\ Loop' /\ End'
    BY <1>15, <1>s, <1>t DEF Inbound!PutWatermark, Pending
  <1>16. ASSUME NEW j \in InboundJobs, Inbound!Die(j)
        PROVE  Bounds' /\ Kept' /\ Read' /\ Loop' /\ End'
    BY <1>16, <1>s, <1>t DEF Inbound!Die, Pending
  <1> QED BY <1>1, <1>2, <1>3, <1>4, <1>5, <1>6, <1>7, <1>8, <1>9, <1>10, <1>11, <1>12, <1>13,
             <1>14, <1>15, <1>16 DEF Inbound!Next, Inbound!JobStep

LEMMA CoversHeld == InboundInv => Inbound!WatermarkCovers
  <1>1. ASSUME InboundInv, NEW m \in Wanted, m <= inboundWatermark PROVE Covered(m)
    BY <1>1 DEF InboundInv
  <1> QED BY <1>1 DEF Inbound!WatermarkCovers, Covered, Wanted

(* The watermark passes no reply that was not stored and no bounce that *)
(* was not counted, but for those that a failed listing or a first page *)
(* went past, for any number of jobs and mails and any order of pushes  *)
(* (icrv-consumer index.ts:83-262).                                     *)
THEOREM WatermarkIsHonest == Spec => []WatermarkCovers
  <1>1. Init => InboundInv
    BY InitInboundInv DEF Init
  <1>2. InboundInv /\ [Next]_vars => InboundInv'
    BY NextInboundInv, StepOfPart
  <1>3. InboundInv => WatermarkCovers
    BY CoversHeld DEF WatermarkCovers
  <1> QED BY <1>1, <1>2, <1>3, PTL DEF Spec

-----------------------------------------------------------------------------
(* A reply. Each job that is between its look-up and its insert has a      *)
(* right to one row, and each that found another there is an overlap; each *)
(* row has its run before it, behind it, or lost in a failure.             *)
(* The jobs that are about to store a reply, and those that have just stored it. *)
Looking(m) == {j \in InboundJobs : inboundJob[j] \in {"fetch", "insert"} /\ inboundMail[j] = m}
Running(m) == {j \in InboundJobs : inboundJob[j] = "run" /\ inboundMail[j] = m}

ReplyInv ==
  /\ InboundTypes
  /\ \A m \in InboundReplies :
       /\ inboundStored[m] + Cardinality(Looking(m)) <= 1 + inboundOverlaps[m]
       /\ inboundReplyRuns[m] + Cardinality(Running(m)) <= inboundStored[m]
       /\ inboundStored[m] <= inboundReplyRuns[m] + Cardinality(Running(m)) + inboundFailures

LEMMA JobsCount ==
  /\ \A m : IsFiniteSet(Looking(m)) /\ Cardinality(Looking(m)) \in Nat
  /\ \A m : IsFiniteSet(Running(m)) /\ Cardinality(Running(m)) \in Nat
  /\ \A m : IsFiniteSet(Looking(m)') /\ Cardinality(Looking(m)') \in Nat
  /\ \A m : IsFiniteSet(Running(m)') /\ Cardinality(Running(m)') \in Nat
  <1>1. IsFiniteSet(InboundJobs)
    BY ServicesBounds
  <1>2. ASSUME NEW S \in SUBSET InboundJobs PROVE IsFiniteSet(S) /\ Cardinality(S) \in Nat
    BY <1>1, FS_Subset, FS_CardinalityType
  <1> QED BY <1>2 DEF Looking, Running

LEMMA InitReplyInv == Inbound!Init => ReplyInv
  <1> SUFFICES ASSUME Inbound!Init PROVE ReplyInv
    OBVIOUS
  <1>1. \A m : Looking(m) = {} /\ Running(m) = {}
    BY DEF Inbound!Init, Looking, Running
  <1>2. Cardinality({}) = 0
    BY FS_EmptySet
  <1>3. \A m \in InboundReplies : m \in Inbound!Mails
    BY ServicesAssumption DEF Inbound!Mails
  <1> QED BY <1>1, <1>2, <1>3, InitInboundTypes DEF Inbound!Init, ReplyInv

LEMMA NextReplyInv ==
  ASSUME ReplyInv, Inbound!Next \/ UNCHANGED inboundVars
  PROVE  ReplyInv'
  <1> InboundTypes /\ InboundTypes'
    BY NextInboundTypes DEF ReplyInv
  <1> SUFFICES ASSUME NEW m \in InboundReplies
               PROVE  (/\ inboundStored[m] + Cardinality(Looking(m)) <= 1 + inboundOverlaps[m]
                       /\ inboundReplyRuns[m] + Cardinality(Running(m)) <= inboundStored[m]
                       /\ inboundStored[m] <= inboundReplyRuns[m] + Cardinality(Running(m)) + inboundFailures)'
    BY DEF ReplyInv
  <1> DEFINE L == Cardinality(Looking(m))
             R == Cardinality(Running(m))
             Held == /\ inboundStored[m] + L <= 1 + inboundOverlaps[m]
                     /\ inboundReplyRuns[m] + R <= inboundStored[m]
                     /\ inboundStored[m] <= inboundReplyRuns[m] + R + inboundFailures
  <1> Held
    BY DEF ReplyInv
  <1>m. m \in Inbound!Mails
    BY ServicesAssumption DEF Inbound!Mails
  <1>n. /\ inboundStored[m] \in Nat /\ inboundReplyRuns[m] \in Nat /\ inboundOverlaps[m] \in Nat
        /\ inboundFailures \in Nat /\ L \in Nat /\ R \in Nat
        /\ IsFiniteSet(Looking(m)) /\ IsFiniteSet(Running(m))
    BY <1>m, JobsCount, ServicesAssumption, ServicesBounds DEF InboundTypes, Inbound!TypeOK
  <1>n2. /\ inboundStored'[m] \in Nat /\ inboundReplyRuns'[m] \in Nat /\ inboundOverlaps'[m] \in Nat
         /\ inboundFailures' \in Nat
    BY <1>m, ServicesAssumption, ServicesBounds DEF InboundTypes, Inbound!TypeOK
  <1>n3. L' \in Nat /\ R' \in Nat
    BY JobsCount
  <1>d. /\ DOMAIN inboundJob = InboundJobs /\ DOMAIN inboundMail = InboundJobs
        /\ DOMAIN inboundStored = Inbound!Mails /\ DOMAIN inboundReplyRuns = Inbound!Mails
        /\ DOMAIN inboundOverlaps = Inbound!Mails
    BY DEF InboundTypes, Inbound!TypeOK, Inbound!Working
  <1>q. ASSUME UNCHANGED <<inboundStored, inboundReplyRuns, inboundOverlaps, Looking(m), Running(m)>>,
               inboundFailures' = inboundFailures \/ inboundFailures' = inboundFailures + 1
        PROVE  Held'
    BY <1>q, <1>n
  <1>f. ASSUME NEW p \in {inboundFailures, inboundFailures + 1} PROVE p >= inboundFailures /\ p \in Nat
    BY <1>n, <1>f
  <1> HIDE DEF InboundTypes, ReplyInv
  <1> USE DEF Inbound!GoOn, Inbound!Fails, Inbound!effects
  <1>1. CASE UNCHANGED inboundVars
    BY <1>1, <1>q DEF inboundVars, Looking, Running
  <1>2. CASE Inbound!Arrive
    BY <1>2, <1>q DEF Inbound!Arrive, Looking, Running
  <1>3. ASSUME NEW j \in InboundJobs, Inbound!JobStep(j)
        PROVE  Held'
    <2>0. \A k \in InboundJobs \ {j} : inboundJob'[k] = inboundJob[k] /\ inboundMail'[k] = inboundMail[k]
      BY <1>3, <1>d DEF Inbound!JobStep, Inbound!Push, Inbound!Begin, Inbound!ReadWatermark,
             Inbound!ListMails, Inbound!ListFails, Inbound!CheckStored, Inbound!FetchDetail,
             Inbound!FetchFails, Inbound!StoreReply, Inbound!CountBounce, Inbound!StartRun,
             Inbound!EndLoop, Inbound!PutWatermark, Inbound!Die
    <2>1. ASSUME j \in Looking(m), j \notin Looking(m)' PROVE L' = L - 1
      <3>1. Looking(m)' = Looking(m) \ {j}
        BY <2>0, <2>1 DEF Looking
      <3> QED BY <3>1, <2>1, <1>n, Leaves
    <2>2. ASSUME j \notin Looking(m), j \in Looking(m)' PROVE L' = L + 1
      <3>1. Looking(m)' = Looking(m) \cup {j}
        BY <2>0, <2>2 DEF Looking
      <3> QED BY <3>1, <2>2, <1>n, Joins
    <2>3. ASSUME j \in Looking(m) <=> j \in Looking(m)' PROVE Looking(m)' = Looking(m)
      BY <2>0, <2>3 DEF Looking
    <2>4. ASSUME j \in Running(m), j \notin Running(m)' PROVE R' = R - 1
      <3>1. Running(m)' = Running(m) \ {j}
        BY <2>0, <2>4 DEF Running
      <3> QED BY <3>1, <2>4, <1>n, Leaves
    <2>5. ASSUME j \notin Running(m), j \in Running(m)' PROVE R' = R + 1
      <3>1. Running(m)' = Running(m) \cup {j}
        BY <2>0, <2>5 DEF Running
      <3> QED BY <3>1, <2>5, <1>n, Joins
    <2>6. ASSUME j \in Running(m) <=> j \in Running(m)' PROVE Running(m)' = Running(m)
      BY <2>0, <2>6 DEF Running
    <2>l. /\ j \in Looking(m) <=> inboundJob[j] \in {"fetch", "insert"} /\ inboundMail[j] = m
          /\ j \in Looking(m)' <=> inboundJob'[j] \in {"fetch", "insert"} /\ inboundMail'[j] = m
          /\ j \in Running(m) <=> inboundJob[j] = "run" /\ inboundMail[j] = m
          /\ j \in Running(m)' <=> inboundJob'[j] = "run" /\ inboundMail'[j] = m
      BY DEF Looking, Running
    <2> HIDE DEF L, R
    <2>7. CASE \/ Inbound!Push(j) \/ Inbound!Begin(j) \/ Inbound!ReadWatermark(j) \/ Inbound!ListMails(j)
               \/ Inbound!ListFails(j) \/ Inbound!EndLoop(j) \/ Inbound!PutWatermark(j)
      <3>1. /\ UNCHANGED <<inboundStored, inboundReplyRuns, inboundOverlaps, inboundMail>>
            /\ inboundJob[j] \notin {"fetch", "insert", "run"}
            /\ inboundJob'[j] \notin {"fetch", "insert", "run"}
            /\ inboundFailures' = inboundFailures \/ inboundFailures' = inboundFailures + 1
        BY <2>7, <1>d DEF Inbound!Push, Inbound!Begin, Inbound!ReadWatermark,
             Inbound!ListMails, Inbound!ListFails, Inbound!EndLoop, Inbound!PutWatermark
      <3> QED BY <3>1, <2>3, <2>6, <2>l, <1>q
    <2>8. CASE Inbound!CheckStored(j)
      <3>1. PICK n \in inboundTodo[j] :
              \/ inboundStored[n] > 0 /\ UNCHANGED <<inboundJob, inboundMail, inboundOverlaps>>
              \/ /\ inboundStored[n] = 0
                 /\ inboundOverlaps' = [inboundOverlaps EXCEPT ![n] =
                      IF \E k \in InboundJobs : inboundMail[k] = n THEN @ + 1 ELSE @]
                 /\ inboundMail' = [inboundMail EXCEPT ![j] = n]
                 /\ inboundJob' = [inboundJob EXCEPT ![j] = "fetch"]
        BY <2>8 DEF Inbound!CheckStored
      <3>2. /\ UNCHANGED <<inboundStored, inboundReplyRuns, inboundFailures>>
            /\ inboundJob[j] = "check"
        BY <2>8 DEF Inbound!CheckStored
      <3>3. CASE UNCHANGED <<inboundJob, inboundMail, inboundOverlaps>>
        BY <3>2, <3>3, <2>l, <2>3, <2>6, <1>q
      <3>4. ASSUME inboundStored[n] = 0,
                   inboundOverlaps' = [inboundOverlaps EXCEPT ![n] =
                      IF \E k \in InboundJobs : inboundMail[k] = n THEN @ + 1 ELSE @],
                   inboundMail' = [inboundMail EXCEPT ![j] = n],
                   inboundJob' = [inboundJob EXCEPT ![j] = "fetch"]
            PROVE  Held'
        <4>1. j \notin Looking(m) /\ (j \in Looking(m)' <=> n = m)
              /\ j \notin Running(m) /\ j \notin Running(m)'
          BY <3>2, <3>4, <2>l, <1>d
        <4>2. R' = R
          BY <4>1, <2>6 DEF R
        <4>3. CASE n # m
          <5>1. L' = L /\ inboundOverlaps'[m] = inboundOverlaps[m]
            BY <4>1, <4>3, <2>3, <3>4, <1>d DEF L
          <5> QED BY <5>1, <4>2, <3>2
        <4>4. CASE n = m /\ \E k \in InboundJobs : inboundMail[k] = n
          <5>1. L' = L + 1 /\ inboundOverlaps'[m] = inboundOverlaps[m] + 1
            BY <4>1, <4>4, <2>2, <3>4, <1>d, <1>m
          <5> QED BY <5>1, <4>2, <3>2, <1>n
        <4>5. CASE n = m /\ ~ \E k \in InboundJobs : inboundMail[k] = n
          <5>1. Looking(m) = {}
            BY <4>5 DEF Looking
          <5>2. L = 0
            BY <5>1, FS_EmptySet DEF L
          <5>3. L' = 1 /\ inboundOverlaps'[m] = inboundOverlaps[m]
            BY <5>2, <4>1, <4>5, <2>2, <3>4, <1>d, <1>m
          <5> QED BY <5>3, <4>2, <4>5, <3>2, <3>4, <1>n
        <4> QED BY <4>3, <4>4, <4>5
      <3> QED BY <3>1, <3>3, <3>4
    <2>9. CASE Inbound!FetchDetail(j) \/ Inbound!FetchFails(j) \/ Inbound!CountBounce(j)
      <3>1. /\ UNCHANGED <<inboundStored, inboundReplyRuns, inboundOverlaps>>
            /\ inboundFailures' \in {inboundFailures, inboundFailures + 1}
            /\ inboundJob[j] \in {"fetch", "insert"}
            /\ \/ inboundJob'[j] = "insert" /\ inboundMail'[j] = inboundMail[j]
               \/ inboundJob'[j] = "check"
        BY <2>9, <1>d DEF Inbound!FetchDetail, Inbound!FetchFails, Inbound!CountBounce
      <3>2. R' = R
        BY <3>1, <2>l, <2>6 DEF R
      <3>3. L' = L \/ L' = L - 1
        BY <3>1, <2>l, <2>1, <2>3 DEF L
      <3> QED BY <3>1, <3>2, <3>3, <1>n, <1>n2, <1>n3
    <2>10. CASE Inbound!StoreReply(j)
      <3>1. /\ UNCHANGED <<inboundReplyRuns, inboundOverlaps, inboundMail, inboundFailures>>
            /\ inboundJob[j] = "insert" /\ inboundJob'[j] = "run"
            /\ inboundStored'[m] = IF m = inboundMail[j] THEN inboundStored[m] + 1 ELSE inboundStored[m]
        BY <2>10, <1>d, <1>m DEF Inbound!StoreReply
      <3>2. CASE m = inboundMail[j]
        <4>1. L' = L - 1 /\ R' = R + 1
          BY <3>1, <3>2, <2>l, <2>1, <2>5
        <4> QED BY <3>1, <3>2, <4>1, <1>n
      <3>3. CASE m # inboundMail[j]
        <4>1. L' = L /\ R' = R
          BY <3>1, <3>3, <2>l, <2>3, <2>6 DEF L, R
        <4> QED BY <3>1, <3>3, <4>1, <1>n
      <3> QED BY <3>2, <3>3
    <2>11. CASE Inbound!StartRun(j)
      <3>1. /\ UNCHANGED <<inboundStored, inboundOverlaps, inboundFailures>>
            /\ inboundJob[j] = "run" /\ inboundJob'[j] = "check"
            /\ inboundReplyRuns'[m] = IF m = inboundMail[j] THEN inboundReplyRuns[m] + 1 ELSE inboundReplyRuns[m]
        BY <2>11, <1>d, <1>m DEF Inbound!StartRun
      <3>2. L' = L
        BY <3>1, <2>l, <2>3 DEF L
      <3>3. CASE m = inboundMail[j]
        <4>1. R' = R - 1
          BY <3>1, <3>3, <2>l, <2>4
        <4> QED BY <3>1, <3>2, <3>3, <4>1, <1>n
      <3>4. CASE m # inboundMail[j]
        <4>1. R' = R
          BY <3>1, <3>4, <2>l, <2>6 DEF R
        <4> QED BY <3>1, <3>2, <3>4, <4>1, <1>n
      <3> QED BY <3>3, <3>4
    <2>12. CASE Inbound!Die(j)
      <3>1. /\ UNCHANGED <<inboundStored, inboundReplyRuns, inboundOverlaps>>
            /\ inboundFailures' = inboundFailures + 1
            /\ inboundJob'[j] = "dropped"
        BY <2>12, <1>d DEF Inbound!Die
      <3>2. R' = R \/ R' = R - 1
        BY <3>1, <2>l, <2>4, <2>6 DEF R
      <3>3. L' = L \/ L' = L - 1
        BY <3>1, <2>l, <2>1, <2>3 DEF L
      <3> QED BY <3>1, <3>2, <3>3, <1>n, <1>n2, <1>n3
    <2> QED BY <1>3, <2>7, <2>8, <2>9, <2>10, <2>11, <2>12 DEF Inbound!JobStep
  <1> QED BY <1>1, <1>2, <1>3 DEF Inbound!Next

LEMMA RepliesHeld == ReplyInv => Inbound!RepliesHandledOnce
  <1> SUFFICES ASSUME ReplyInv, NEW m \in InboundReplies
               PROVE  /\ inboundStored[m] <= 1 + inboundOverlaps[m]
                      /\ inboundReplyRuns[m] <= inboundStored[m]
                      /\ inboundStored[m] - inboundReplyRuns[m] <=
                           inboundFailures + Inbound!Cardinality({j \in InboundJobs : inboundJob[j] = "run"})
    BY DEF Inbound!RepliesHandledOnce
  <1> DEFINE Runs == {j \in InboundJobs : inboundJob[j] = "run"}
  <1>1. IsFiniteSet(Runs)
    BY ServicesBounds, FS_Subset
  <1>2. Cardinality(Running(m)) <= Cardinality(Runs) /\ Cardinality(Runs) \in Nat
    BY <1>1, FS_Subset, FS_CardinalityType DEF Running
  <1>3. m \in Inbound!Mails
    BY ServicesAssumption DEF Inbound!Mails
  <1>4. /\ inboundStored[m] \in Nat /\ inboundReplyRuns[m] \in Nat /\ inboundOverlaps[m] \in Nat
        /\ inboundFailures \in Nat
        /\ Cardinality(Looking(m)) \in Nat /\ Cardinality(Running(m)) \in Nat
    BY <1>3, JobsCount, ServicesAssumption, ServicesBounds DEF ReplyInv, InboundTypes,
       Inbound!TypeOK
  <1>5. Inbound!Cardinality(Runs) = Cardinality(Runs)
    BY DEF Inbound!Cardinality, Cardinality
  <1> HIDE DEF Runs
  <1>6. inboundStored[m] - inboundReplyRuns[m] <= inboundFailures + Cardinality(Runs)
    BY <1>2, <1>4 DEF ReplyInv
  <1>7. inboundStored[m] <= 1 + inboundOverlaps[m] /\ inboundReplyRuns[m] <= inboundStored[m]
    BY <1>4 DEF ReplyInv
  <1> QED BY <1>5, <1>6, <1>7 DEF Runs

-----------------------------------------------------------------------------
(* The state of the WhatsApp messages. *)
ChatTypes == Chat!TypeOK /\ chatHandled + chatTries <= ChatMaxInbound

LEMMA InitChatTypes == Chat!Init => ChatTypes
  <1> SUFFICES ASSUME Chat!Init PROVE ChatTypes
    OBVIOUS
  <1> ChatMaxInbound \in Nat /\ ChatMaxReports \in Nat /\ ChatMaxFailures \in Nat /\ ChatMaxAttempts \in Nat \ {0}
    BY ServicesAssumption, ServicesBounds
  <1> USE DEF Chat!Init
  <1>1. chatReports \subseteq Chat!Reports
    OBVIOUS
  <1>2. chatAttempt \in 1..ChatMaxAttempts
    OBVIOUS
  <1>3. chatFailures \in 0..ChatMaxFailures
    OBVIOUS
  <1>4. chatReported \in 0..ChatMaxReports
    OBVIOUS
  <1>5. chatHandled \in 0..ChatMaxInbound /\ chatHandled + chatTries <= ChatMaxInbound
    OBVIOUS
  <1> QED BY <1>1, <1>2, <1>3, <1>4, <1>5 DEF Chat!TypeOK, ChatTypes

LEMMA NextChatTypes ==
  ASSUME ChatTypes, Chat!Next \/ UNCHANGED chatVars
  PROVE  ChatTypes'
  <1> ChatMaxInbound \in Nat /\ ChatMaxReports \in Nat /\ ChatMaxFailures \in Nat /\ ChatMaxAttempts \in Nat \ {0}
    BY ServicesAssumption, ServicesBounds
  <1> USE DEF Chat!TypeOK, Chat!outVars, Chat!inVars, Chat!Reports, Chat!GoOn, Chat!Fails, ChatTypes
  <1>1. CASE UNCHANGED chatVars
    BY <1>1 DEF chatVars
  <1>2. CASE Chat!Revoke
    BY <1>2 DEF Chat!Revoke
  <1>3. CASE Chat!Report
    BY <1>3 DEF Chat!Report
  <1>4. CASE Chat!HandleReport
    BY <1>4 DEF Chat!HandleReport
  <1>5. CASE Chat!Receive
    BY <1>5 DEF Chat!Receive
  <1>6. CASE Chat!HandleInbound
    <2>1. chatHandled' \in 0..ChatMaxInbound
      BY <1>6 DEF Chat!HandleInbound
    <2> QED BY <1>6, <2>1 DEF Chat!HandleInbound
  <1>7. CASE Chat!StoreInbound
    BY <1>7 DEF Chat!StoreInbound
  <1>8. CASE Chat!StartRun
    BY <1>8 DEF Chat!StartRun
  <1>9. CASE Chat!InboundFails
    BY <1>9 DEF Chat!InboundFails
  <1>10. ASSUME NEW d \in ChatDeliveries, Chat!ReadMarker(d) PROVE ChatTypes'
    <2> DEFINE marking == {e \in ChatDeliveries : chatOut[e] = "mark"}
    <2>1. Cardinality(marking) \in Nat
      BY ServicesBounds, FS_Subset, FS_CardinalityType
    <2>2. Chat!Cardinality(marking) = Cardinality(marking)
      BY DEF Chat!Cardinality, Cardinality
    <2>3. chatOverlaps' = IF chatMarker THEN chatOverlaps ELSE chatOverlaps + Chat!Cardinality(marking)
      BY <1>10 DEF Chat!ReadMarker
    <2>4. chatOverlaps' \in Nat
      BY <2>1, <2>2, <2>3
    <2> QED BY <1>10, <2>4 DEF Chat!ReadMarker
  <1>11. ASSUME NEW d \in ChatDeliveries, Chat!SetMarker(d) PROVE ChatTypes'
    BY <1>11 DEF Chat!SetMarker
  <1>12. ASSUME NEW d \in ChatDeliveries, Chat!PassRate(d) PROVE ChatTypes'
    BY <1>12 DEF Chat!PassRate
  <1>13. ASSUME NEW d \in ChatDeliveries, Chat!CheckRevoked(d) PROVE ChatTypes'
    BY <1>13 DEF Chat!CheckRevoked
  <1>14. ASSUME NEW d \in ChatDeliveries, Chat!PostMessage(d) PROVE ChatTypes'
    BY <1>14 DEF Chat!PostMessage
  <1>15. ASSUME NEW d \in ChatDeliveries, Chat!RecordSent(d) PROVE ChatTypes'
    BY <1>15 DEF Chat!RecordSent
  <1>16. ASSUME NEW d \in ChatDeliveries, Chat!SettleAction(d) PROVE ChatTypes'
    BY <1>16 DEF Chat!SettleAction
  <1>17. ASSUME NEW d \in ChatDeliveries, Chat!OutDies(d) PROVE ChatTypes'
    BY <1>17 DEF Chat!OutDies
  <1> QED BY <1>1, <1>2, <1>3, <1>4, <1>5, <1>6, <1>7, <1>8, <1>9, <1>10, <1>11, <1>12, <1>13,
             <1>14, <1>15, <1>16, <1>17 DEF Chat!Next, Chat!OutStep

-----------------------------------------------------------------------------
(* A message that goes out, and one that comes in. Every delivery that     *)
(* found no marker may yet post it: those, and the posts that were         *)
(* accepted, are one and the overlaps; and of the inbound message the rows *)
(* are behind its webhooks and its runs behind its rows.                   *)
(* Deliveries that have found no marker and may yet post the message. *)
Posting == {d \in ChatDeliveries : chatOut[d] \in {"mark", "rate", "check", "post"}}
Marking == {d \in ChatDeliveries : chatOut[d] = "mark"}

OutInv ==
  /\ chatAccepts + Cardinality(Posting) <= 1 + chatOverlaps
  /\ ~chatMarker => chatAccepts = 0 /\ \A d \in ChatDeliveries : chatOut[d] \in {"queued", "mark"}
  /\ \A d \in ChatDeliveries : chatOut[d] \in {"record", "settle"} => chatAccepts > 0
  /\ chatKnown => chatAccepts > 0
  /\ chatStatus \in {"sent", "delivered"} => chatAccepts > 0

InInv ==
  /\ chatStored + (IF chatInbound = "store" THEN 1 ELSE 0) <= chatHandled
  /\ chatRuns + (IF chatInbound = "run" THEN 1 ELSE 0) <= chatStored
  /\ chatStored <= chatRuns + chatFailures + (IF chatInbound = "run" THEN 1 ELSE 0)

ChatInv == ChatTypes /\ OutInv /\ InInv

LEMMA DeliveriesCount ==
  /\ IsFiniteSet(Posting) /\ Cardinality(Posting) \in Nat
  /\ IsFiniteSet(Marking) /\ Cardinality(Marking) \in Nat
  /\ IsFiniteSet(Posting') /\ Cardinality(Posting') \in Nat
  /\ Marking # {} => Cardinality(Marking) > 0
  <1>1. IsFiniteSet(ChatDeliveries)
    BY ServicesBounds
  <1>2. ASSUME NEW S \in SUBSET ChatDeliveries
        PROVE  IsFiniteSet(S) /\ Cardinality(S) \in Nat /\ (S # {} => Cardinality(S) > 0)
    BY <1>1, FS_Subset, FS_CardinalityType, FS_EmptySet
  <1> QED BY <1>2 DEF Posting, Marking

LEMMA InitChatInv == Chat!Init => ChatInv
  <1> SUFFICES ASSUME Chat!Init PROVE ChatInv
    OBVIOUS
  <1>1. Posting = {}
    BY DEF Chat!Init, Posting
  <1>2. Cardinality(Posting) = 0
    BY <1>1, FS_EmptySet
  <1>3. OutInv
    BY <1>2 DEF Chat!Init, OutInv
  <1>4. InInv
    BY DEF Chat!Init, InInv
  <1> QED BY <1>3, <1>4, InitChatTypes DEF ChatInv

LEMMA NextOutInv ==
  ASSUME ChatInv, Chat!Next \/ UNCHANGED chatVars
  PROVE  OutInv'
  <1> ChatTypes /\ ChatTypes' /\ OutInv
    BY NextChatTypes DEF ChatInv
  <1> DEFINE P == Cardinality(Posting)
  <1>n. /\ chatAccepts \in Nat /\ chatOverlaps \in Nat /\ P \in Nat /\ P' \in Nat
        /\ chatAccepts' \in Nat /\ chatOverlaps' \in Nat /\ IsFiniteSet(Posting)
        /\ DOMAIN chatOut = ChatDeliveries
    BY DeliveriesCount DEF ChatTypes, Chat!TypeOK
  <1>p. chatAccepts + P <= 1 + chatOverlaps
    BY DEF OutInv
  <1>r. ASSUME chatOverlaps' = chatOverlaps, chatAccepts' = chatAccepts, P' = P \/ P' = P - 1
        PROVE  chatAccepts' + P' <= 1 + chatOverlaps'
    BY <1>r, <1>p, <1>n
  <1>s. ASSUME chatOverlaps' = chatOverlaps, chatAccepts' = chatAccepts \/ chatAccepts' = chatAccepts + 1,
               P' = P - 1
        PROVE  chatAccepts' + P' <= 1 + chatOverlaps'
    BY <1>s, <1>p, <1>n
  <1>t. 1 <= 1 + chatOverlaps'
    <2>1. \A n \in Nat : 1 <= 1 + n
      OBVIOUS
    <2> QED BY <2>1, <1>n
  <1> HIDE DEF ChatTypes, P
  <1> USE DEF Chat!GoOn, Chat!Fails, Chat!outVars, Chat!inVars
  <1>q. ASSUME chatOut' = chatOut PROVE Posting' = Posting /\ P' = P
    BY <1>q DEF Posting, P
  <1>1. CASE UNCHANGED chatVars
    BY <1>1, <1>q DEF chatVars, OutInv, P
  <1>2. CASE Chat!Revoke \/ Chat!Receive \/ Chat!HandleInbound \/ Chat!StoreInbound \/ Chat!StartRun
             \/ Chat!InboundFails \/ Chat!Report
    BY <1>2, <1>q DEF OutInv, P, Chat!Revoke, Chat!Receive, Chat!HandleInbound, Chat!StoreInbound,
         Chat!StartRun, Chat!InboundFails, Chat!Report
  <1>3. CASE Chat!HandleReport
    BY <1>3, <1>q DEF OutInv, P, Chat!HandleReport
  <1>4. ASSUME NEW d \in ChatDeliveries, Chat!OutStep(d) PROVE OutInv'
    <2>0. \A e \in ChatDeliveries \ {d} : chatOut'[e] = chatOut[e]
      BY <1>4, <1>n DEF Chat!OutStep, Chat!ReadMarker, Chat!SetMarker, Chat!PassRate,
         Chat!CheckRevoked,
           Chat!PostMessage, Chat!RecordSent, Chat!SettleAction, Chat!OutDies
    <2>1. ASSUME d \in Posting, d \notin Posting' PROVE P' = P - 1
      <3>1. Posting' = Posting \ {d}
        BY <2>0, <2>1 DEF Posting
      <3> QED BY <3>1, <2>1, <1>n, Leaves DEF P
    <2>2. ASSUME d \notin Posting, d \in Posting' PROVE P' = P + 1
      <3>1. Posting' = Posting \cup {d}
        BY <2>0, <2>2 DEF Posting
      <3> QED BY <3>1, <2>2, <1>n, Joins DEF P
    <2>3. ASSUME d \in Posting <=> d \in Posting' PROVE P' = P
      <3>1. Posting' = Posting
        BY <2>0, <2>3 DEF Posting
      <3> QED BY <3>1 DEF P
    <2>l. /\ d \in Posting <=> chatOut[d] \in {"mark", "rate", "check", "post"}
          /\ d \in Posting' <=> chatOut'[d] \in {"mark", "rate", "check", "post"}
      BY DEF Posting
    <2>p. chatAccepts + P <= 1 + chatOverlaps
      BY DEF OutInv, P
    <2>5. CASE Chat!ReadMarker(d)
      <3>1. /\ chatOut[d] = "queued"
            /\ UNCHANGED <<chatMarker, chatAccepts, chatKnown, chatStatus>>
        BY <2>5 DEF Chat!ReadMarker
      <3>2. CASE chatMarker
        <4>1. chatOut'[d] = "done" /\ chatOverlaps' = chatOverlaps
          BY <2>5, <3>2, <1>n DEF Chat!ReadMarker
        <4>2. P' = P
          BY <4>1, <3>1, <2>l, <2>3
        <4> QED BY <4>1, <4>2, <3>1, <3>2, <2>0 DEF OutInv, P
      <3>3. CASE ~chatMarker
        <4>1. chatOut'[d] = "mark" /\ chatOverlaps' = chatOverlaps + Chat!Cardinality(Marking)
          BY <2>5, <3>3, <1>n DEF Chat!ReadMarker, Marking
        <4>2. Chat!Cardinality(Marking) = Cardinality(Marking)
          BY DEF Chat!Cardinality, Cardinality
        <4>3. P' = P + 1
          BY <4>1, <3>1, <2>l, <2>2
        <4>4. chatAccepts' = 0
          BY <3>1, <3>3 DEF OutInv
        <4>5. P' <= 1 + chatOverlaps'
          <5>1. CASE Marking # {}
            <6>1. Cardinality(Marking) \in Nat /\ Cardinality(Marking) > 0
              BY <5>1, DeliveriesCount
            <6> QED BY <6>1, <4>1, <4>2, <4>3, <2>p, <1>n
          <5>2. CASE Marking = {}
            <6>1. Posting = {}
              BY <3>3, <5>2 DEF OutInv, Posting, Marking
            <6>2. P = 0
              BY <6>1, FS_EmptySet DEF P
            <6>3. P' = 1
                BY <6>2, <4>3
              <6> QED BY <6>3, <1>t
          <5> QED BY <5>1, <5>2
        <4> QED BY <4>1, <4>4, <4>5, <3>1, <3>3, <2>0, <1>n DEF OutInv, P
      <3> QED BY <3>2, <3>3
    <2>6. CASE Chat!SetMarker(d)
      <3>1. P' = P
        BY <2>6, <2>l, <2>3, <1>n DEF Chat!SetMarker
      <3> QED BY <2>6, <3>1, <2>0, <2>p, <1>n DEF Chat!SetMarker, OutInv, P
    <2>7. CASE Chat!PassRate(d)
      <3>1. P' = P \/ P' = P - 1
        BY <2>7, <2>l, <2>1, <2>3, <1>n DEF Chat!PassRate
      <3>2. chatAccepts' + P' <= 1 + chatOverlaps'
        BY <2>7, <3>1, <1>r DEF Chat!PassRate
      <3> QED BY <2>7, <3>2, <2>0, <1>n DEF Chat!PassRate, OutInv, P
    <2>8. CASE Chat!CheckRevoked(d)
      <3>1. P' = P \/ P' = P - 1
        BY <2>8, <2>l, <2>1, <2>3, <1>n DEF Chat!CheckRevoked
      <3>2. chatAccepts' + P' <= 1 + chatOverlaps'
        BY <2>8, <3>1, <1>r DEF Chat!CheckRevoked
      <3> QED BY <2>8, <3>2, <2>0, <1>n DEF Chat!CheckRevoked, OutInv, P
    <2>9. CASE Chat!PostMessage(d)
      <3>1. P' = P - 1
        BY <2>9, <2>l, <2>1, <1>n DEF Chat!PostMessage
      <3>2. chatAccepts' + P' <= 1 + chatOverlaps'
        BY <2>9, <3>1, <1>s DEF Chat!PostMessage
      <3>3. chatMarker /\ UNCHANGED <<chatMarker, chatKnown>>
        BY <2>9 DEF Chat!PostMessage, OutInv
      <3>4. CASE chatAccepts' = chatAccepts + 1
        BY <3>2, <3>3, <3>4, <1>n DEF OutInv, P
      <3>5. CASE /\ chatAccepts' = chatAccepts /\ chatStatus' = "failed"
                 /\ chatOut' = [chatOut EXCEPT ![d] = "queued"]
        BY <3>2, <3>3, <3>5, <1>n DEF OutInv, P
      <3> QED BY <2>9, <3>4, <3>5 DEF Chat!PostMessage
    <2>10. CASE Chat!RecordSent(d)
      <3>1. P' = P
        BY <2>10, <2>l, <2>3, <1>n DEF Chat!RecordSent
      <3> QED BY <2>10, <3>1, <2>0, <2>p, <1>n DEF Chat!RecordSent, OutInv, P
    <2>11. CASE Chat!SettleAction(d)
      <3>1. P' = P
        BY <2>11, <2>l, <2>3, <1>n DEF Chat!SettleAction
      <3> QED BY <2>11, <3>1, <2>0, <2>p, <1>n DEF Chat!SettleAction, OutInv, P
    <2>12. CASE Chat!OutDies(d)
      <3>1. P' = P \/ P' = P - 1
        BY <2>12, <2>l, <2>1, <2>3, <1>n DEF Chat!OutDies
      <3>2. chatAccepts' + P' <= 1 + chatOverlaps'
        BY <2>12, <3>1, <1>r DEF Chat!OutDies
      <3> QED BY <2>12, <3>2, <2>0, <1>n DEF Chat!OutDies, OutInv, P
    <2> QED BY <1>4, <2>5, <2>6, <2>7, <2>8, <2>9, <2>10, <2>11, <2>12 DEF Chat!OutStep
  <1> QED BY <1>1, <1>2, <1>3, <1>4 DEF Chat!Next

LEMMA NextInInv ==
  ASSUME ChatInv, Chat!Next \/ UNCHANGED chatVars
  PROVE  InInv'
  <1>n. /\ chatStored \in Nat /\ chatRuns \in Nat /\ chatHandled \in Nat /\ chatFailures \in Nat
        /\ InInv
    BY ServicesAssumption, ServicesBounds DEF ChatInv, ChatTypes, Chat!TypeOK
  <1> HIDE DEF ChatInv, ChatTypes
  <1> USE DEF Chat!Fails, Chat!outVars, Chat!inVars
  <1>1. CASE UNCHANGED chatVars
    BY <1>1, <1>n DEF chatVars, InInv
  <1>2. CASE \/ Chat!Revoke \/ Chat!Report \/ Chat!HandleReport \/ Chat!Receive
             \/ \E d \in ChatDeliveries : Chat!OutStep(d)
    <2>1. /\ UNCHANGED <<chatStored, chatRuns, chatHandled, chatInbound>>
          /\ chatFailures' = chatFailures \/ chatFailures' = chatFailures + 1
      BY <1>2 DEF Chat!Revoke, Chat!Report, Chat!HandleReport, Chat!Receive, Chat!OutStep,
           Chat!ReadMarker, Chat!SetMarker, Chat!PassRate, Chat!CheckRevoked,
           Chat!PostMessage, Chat!RecordSent, Chat!SettleAction, Chat!OutDies
    <2> QED BY <2>1, <1>n DEF InInv
  <1>3. CASE Chat!HandleInbound
    BY <1>3, <1>n DEF Chat!HandleInbound, InInv
  <1>4. CASE Chat!StoreInbound
    BY <1>4, <1>n DEF Chat!StoreInbound, InInv
  <1>5. CASE Chat!StartRun
    BY <1>5, <1>n DEF Chat!StartRun, InInv
  <1>6. CASE Chat!InboundFails
    BY <1>6, <1>n DEF Chat!InboundFails, InInv
  <1> QED BY <1>1, <1>2, <1>3, <1>4, <1>5, <1>6 DEF Chat!Next

LEMMA ChatHolds == ChatInv => Chat!SentOncePerMarker /\ Chat!StoredIsAnswered
  <1> SUFFICES ASSUME ChatInv PROVE Chat!SentOncePerMarker /\ Chat!StoredIsAnswered
    OBVIOUS
  <1>1. /\ chatStored \in Nat /\ chatRuns \in Nat /\ chatHandled \in Nat /\ chatFailures \in Nat
        /\ chatAccepts \in Nat /\ chatOverlaps \in Nat /\ Cardinality(Posting) \in Nat
    BY DeliveriesCount, ServicesAssumption, ServicesBounds DEF ChatInv, ChatTypes, Chat!TypeOK
  <1>2. Chat!SentOncePerMarker
    BY <1>1 DEF ChatInv, OutInv, Chat!SentOncePerMarker
  <1>3. Chat!StoredIsAnswered
    BY <1>1 DEF ChatInv, InInv, Chat!StoredIsAnswered
  <1> QED BY <1>2, <1>3

LEMMA NextChatInv ==
  ASSUME ChatInv, Chat!Next \/ UNCHANGED chatVars
  PROVE  ChatInv'
  BY NextChatTypes, NextOutInv, NextInInv DEF ChatInv

(* A reply is stored and answered once and a WhatsApp message is sent   *)
(* once, but for the jobs that read a marker or a row while another was *)
(* about to write it, and an inbound message once for each time its     *)
(* webhook is handled, for any number of jobs and deliveries (icrv-     *)
(* consumer index.ts:116-258, icrv-whatsapp index.ts:38-116).           *)
THEOREM MessagesAreHandledOnce == Spec => []HandledOncePerMarker
  <1>1. Init => ReplyInv /\ ChatInv
    BY InitReplyInv, InitChatInv DEF Init
  <1>2. ReplyInv /\ ChatInv /\ [Next]_vars => ReplyInv' /\ ChatInv'
    BY NextReplyInv, NextChatInv, StepOfPart
  <1>3. ReplyInv /\ ChatInv => HandledOncePerMarker
    BY RepliesHeld, ChatHolds DEF HandledOncePerMarker
  <1> QED BY <1>1, <1>2, <1>3, PTL DEF Spec

-----------------------------------------------------------------------------
(* The daily limit of the mail sender: types, and then who may still be counted. *)
(* The bounds of the mail sender, apart. *)
LEMMA MailBounds ==
  /\ IsFiniteSet(MailJobs) /\ MailDuplicated \subseteq MailJobs
  /\ MailMaxRetries \in Nat /\ MailMaxAttempts \in Nat \ {0}
  /\ MailMaxConcurrency \in Nat \ {0} /\ MailDailyLimit \in Nat
  BY ServicesBounds

LEMMA InitMailTypes == Mail!Init => Mail!TypeOK
  <1> SUFFICES ASSUME Mail!Init PROVE Mail!TypeOK
    OBVIOUS
  <1>1. mailAt \in [Mail!Envelopes -> Mail!Places]
    BY DEF Mail!Init, Mail!Places
  <1>2. mailTries \in [Mail!Envelopes -> 0..MailMaxRetries] /\ mailAttempt \in [Mail!Envelopes -> 1..MailMaxAttempts]
    BY MailBounds DEF Mail!Init
  <1> QED
    BY <1>1, <1>2 DEF Mail!Init, Mail!TypeOK, Mail!ActionStatus, Mail!MessageStatus

LEMMA NextMailTypes ==
  ASSUME Mail!TypeOK, Mail!Next \/ UNCHANGED mailVars
  PROVE  Mail!TypeOK'
  <1> USE MailBounds DEF Mail!TypeOK, Mail!ActionStatus, Mail!MessageStatus
  <1>1. ASSUME NEW j \in MailJobs, Mail!Produce(j) PROVE Mail!TypeOK'
    <2> USE DEF Mail!Places, Mail!Processing, Mail!queueVars, Mail!operatorVars
    <2>1. CASE Mail!InsertAction(j) BY <2>1 DEF Mail!InsertAction
    <2>2. CASE Mail!SkipEmail(j) BY <2>2 DEF Mail!SkipEmail
    <2>3. CASE Mail!InsertMessage(j) BY <2>3 DEF Mail!InsertMessage
    <2>4. CASE Mail!Enqueue(j) BY <2>4 DEF Mail!Enqueue
    <2>5. CASE Mail!MarkExecuted(j) BY <2>5 DEF Mail!MarkExecuted
    <2> QED BY <1>1, <2>1, <2>2, <2>3, <2>4, <2>5 DEF Mail!Produce
  <1>2. ASSUME NEW j \in MailJobs, Mail!Revoke(j) PROVE Mail!TypeOK'
    BY <1>2 DEF Mail!Revoke, Mail!RevokeRead, Mail!RevokeWrite, Mail!producerVars, Mail!queueVars
  <1>3. ASSUME NEW e \in Mail!Envelopes,
               Mail!Deliver(e) \/ Mail!Consume(e) \/ Mail!ProcessRetry(e) \/ Mail!Throws(e) \/ Mail!Crash(e) \/ Mail!Duplicate(e)
        PROVE Mail!TypeOK'
    <2> Mail!JobOf(e) \in MailJobs BY DEF Mail!Envelopes, Mail!JobOf
    <2> USE DEF Mail!Places, Mail!Processing, Mail!BeforeMarker, Mail!PreSend, Mail!PostSend, Mail!Goto, Mail!producerVars, Mail!operatorVars
    <2>1. CASE Mail!Deliver(e) BY <2>1 DEF Mail!Deliver
    <2>2. CASE Mail!Lookup(e) BY <2>2 DEF Mail!Lookup
    <2>3. CASE Mail!PutMarker(e) BY <2>3 DEF Mail!PutMarker
    <2>4. CASE Mail!RateAllowed(e) BY <2>4 DEF Mail!RateAllowed
    <2>5. CASE Mail!RateDenied(e) BY <2>5 DEF Mail!RateDenied, Mail!Nack, Mail!Nacked, Mail!TriesAfterNack
    <2>6. CASE Mail!MarkSending(e) BY <2>6 DEF Mail!MarkSending
    <2>7. CASE Mail!Preflight(e) BY <2>7 DEF Mail!Preflight
    <2>8. CASE Mail!AddressIncomplete(e) BY <2>8 DEF Mail!AddressIncomplete
    <2>9. CASE Mail!PassGates(e) BY <2>9 DEF Mail!PassGates
    <2>10. CASE Mail!DailyLimitReached(e) BY <2>10 DEF Mail!DailyLimitReached
    <2>11. CASE Mail!GetToken(e) BY <2>11 DEF Mail!GetToken
    <2>12. CASE Mail!ProviderAccepts(e) BY <2>12 DEF Mail!ProviderAccepts
    <2>13. CASE Mail!ProviderRejects(e) BY <2>13 DEF Mail!ProviderRejects
    <2>14. CASE Mail!RecordSent(e) BY <2>14 DEF Mail!RecordSent
    <2>15. CASE Mail!MarkActionSent(e) BY <2>15 DEF Mail!MarkActionSent
    <2>16. CASE Mail!ScheduleRetry(e) BY <2>16 DEF Mail!ScheduleRetry
    <2>17. CASE Mail!ProcessRetry(e) BY <2>17 DEF Mail!ProcessRetry
    <2>18. CASE Mail!Throws(e) BY <2>18 DEF Mail!Throws
    <2>19. CASE Mail!Crash(e) BY <2>19 DEF Mail!Crash, Mail!Nack, Mail!Nacked, Mail!TriesAfterNack
    <2>20. CASE Mail!Duplicate(e) BY <2>20 DEF Mail!Duplicate, Mail!EnvelopesOf
    <2> QED BY <1>3, <2>1, <2>2, <2>3, <2>4, <2>5, <2>6, <2>7, <2>8, <2>9, <2>10, <2>11,
               <2>12, <2>13, <2>14, <2>15, <2>16, <2>17, <2>18, <2>19, <2>20 DEF Mail!Consume
  <1>4. CASE UNCHANGED mailVars BY <1>4 DEF mailVars
  <1> QED BY <1>1, <1>2, <1>3, <1>4 DEF Mail!Next

-----------------------------------------------------------------------------
(* The daily limit.  An invocation past the gates may still add one e-mail to the *)
(* day's count; when it passed, the count was below the limit.                    *)
MailBusy    == {e \in Mail!Envelopes : mailAt[e] \in Mail!Processing}
MailPending == {e \in Mail!Envelopes : mailAt[e] \in Mail!PastGates /\ Mail!JobOf(e) \notin mailTransactional}
MailCounted == mailDated \ mailTransactional

MailInv ==
  /\ Mail!TypeOK
  /\ Cardinality(MailBusy) <= MailMaxConcurrency
  /\ Cardinality(MailCounted) + Cardinality(MailPending) <= MailDailyLimit + MailMaxConcurrency - 1

LEMMA AtMostOneMore ==
  ASSUME NEW S, IsFiniteSet(S), NEW x
  PROVE  Cardinality(S \cup {x}) <= Cardinality(S) + 1
  <1>1. Cardinality(S) \in Nat BY FS_CardinalityType
  <1>2. CASE x \in S
    <2>1. S \cup {x} = S BY <1>2
    <2> QED BY <1>1, <2>1
  <1>3. CASE x \notin S
    <2>1. Cardinality(S \cup {x}) = Cardinality(S) + 1 BY <1>3, FS_AddElement
    <2> QED BY <1>1, <2>1
  <1> QED BY <1>2, <1>3

LEMMA MailFinite == IsFiniteSet(Mail!Envelopes) /\ IsFiniteSet(MailDuplicated)
  <1>1. IsFiniteSet(MailDuplicated) BY MailBounds, FS_Subset
  <1>2. IsFiniteSet(MailJobs \X {1}) /\ IsFiniteSet(MailDuplicated \X {2})
    BY <1>1, MailBounds, FS_Singleton, FS_Product
  <1> QED BY <1>1, <1>2, FS_Union DEF Mail!Envelopes

LEMMA MailLimitFinite ==
  ASSUME Mail!TypeOK
  PROVE  /\ IsFiniteSet(MailBusy) /\ Cardinality(MailBusy) \in Nat
         /\ IsFiniteSet(MailPending) /\ Cardinality(MailPending) \in Nat
         /\ IsFiniteSet(MailCounted) /\ Cardinality(MailCounted) \in Nat
         /\ IsFiniteSet(mailDated) /\ Cardinality(mailDated) \in Nat
         /\ Cardinality(MailCounted) <= Cardinality(mailDated)
         /\ Cardinality(MailPending) <= Cardinality(MailBusy)
  <1>1. MailBusy \subseteq Mail!Envelopes /\ MailPending \subseteq MailBusy
    BY DEF MailBusy, MailPending, Mail!PastGates, Mail!Processing, Mail!PreSend, Mail!PostSend
  <1>2. MailCounted \subseteq mailDated /\ mailDated \subseteq MailJobs
    BY DEF MailCounted, Mail!TypeOK
  <1>3. IsFiniteSet(mailDated) /\ IsFiniteSet(MailBusy)
    BY <1>1, <1>2, MailFinite, MailBounds, FS_Subset
  <1> QED BY <1>1, <1>2, <1>3, FS_Subset, FS_CardinalityType

(* Every step but Deliver leaves at most the same envelopes in processing, and    *)
(* every step but PassGates and RecordSent at most the same ones pending.         *)
LEMMA MailQuiet ==
  ASSUME Mail!TypeOK, Mail!Next \/ UNCHANGED mailVars
  PROVE  \/ MailBusy' \subseteq MailBusy /\ MailPending' \subseteq MailPending /\ MailCounted' = MailCounted
         \/ \E e \in Mail!Envelopes : Mail!Deliver(e) \/ Mail!PassGates(e) \/ Mail!RecordSent(e)
  <1> USE DEF Mail!TypeOK, MailBusy, MailPending, MailCounted, Mail!PastGates, Mail!Processing, Mail!BeforeMarker, Mail!PreSend, Mail!PostSend
  <1> DEFINE Quiet == MailBusy' \subseteq MailBusy /\ MailPending' \subseteq MailPending /\ MailCounted' = MailCounted
  <1>1. ASSUME NEW j \in MailJobs, Mail!Produce(j) \/ Mail!Revoke(j) PROVE Quiet
    BY <1>1 DEF Mail!Produce, Mail!InsertAction, Mail!SkipEmail, Mail!InsertMessage, Mail!Enqueue, Mail!MarkExecuted,
       Mail!Revoke, Mail!RevokeRead, Mail!RevokeWrite, Mail!queueVars, Mail!producerVars
  <1>2. ASSUME NEW e \in Mail!Envelopes,
               \/ Mail!Consume(e) /\ ~Mail!PassGates(e) /\ ~Mail!RecordSent(e)
               \/ Mail!ProcessRetry(e) \/ Mail!Throws(e) \/ Mail!Crash(e) \/ Mail!Duplicate(e)
        PROVE  Quiet
    <2> USE DEF Mail!Goto, Mail!producerVars
    <2>1. CASE Mail!Lookup(e) BY <2>1 DEF Mail!Lookup
    <2>2. CASE Mail!PutMarker(e) BY <2>2 DEF Mail!PutMarker
    <2>3. CASE Mail!RateAllowed(e) BY <2>3 DEF Mail!RateAllowed
    <2>4. CASE Mail!RateDenied(e) BY <2>4 DEF Mail!RateDenied, Mail!Nack, Mail!Nacked
    <2>5. CASE Mail!MarkSending(e) BY <2>5 DEF Mail!MarkSending
    <2>6. CASE Mail!Preflight(e) BY <2>6 DEF Mail!Preflight
    <2>7. CASE Mail!AddressIncomplete(e) BY <2>7 DEF Mail!AddressIncomplete
    <2>8. CASE Mail!DailyLimitReached(e) BY <2>8 DEF Mail!DailyLimitReached
    <2>9. CASE Mail!GetToken(e) BY <2>9 DEF Mail!GetToken
    <2>10. CASE Mail!ProviderAccepts(e) BY <2>10 DEF Mail!ProviderAccepts
    <2>11. CASE Mail!ProviderRejects(e) BY <2>11 DEF Mail!ProviderRejects
    <2>12. CASE Mail!MarkActionSent(e) BY <2>12 DEF Mail!MarkActionSent
    <2>13. CASE Mail!ScheduleRetry(e) BY <2>13 DEF Mail!ScheduleRetry
    <2>14. CASE Mail!ProcessRetry(e) BY <2>14 DEF Mail!ProcessRetry
    <2>15. CASE Mail!Throws(e) BY <2>15 DEF Mail!Throws
    <2>16. CASE Mail!Crash(e) BY <2>16 DEF Mail!Crash, Mail!Nack, Mail!Nacked
    <2>17. CASE Mail!Duplicate(e) BY <2>17 DEF Mail!Duplicate, Mail!EnvelopesOf
    <2> QED BY <1>2, <2>1, <2>2, <2>3, <2>4, <2>5, <2>6, <2>7, <2>8, <2>9, <2>10, <2>11, <2>12, <2>13, <2>14, <2>15, <2>16, <2>17 DEF Mail!Consume
  <1>3. CASE UNCHANGED mailVars BY <1>3 DEF mailVars
  <1> QED BY <1>1, <1>2, <1>3 DEF Mail!Next

LEMMA NextMailInv ==
  ASSUME MailInv, Mail!Next \/ UNCHANGED mailVars
  PROVE  MailInv'
  <1>1. Mail!TypeOK /\ Mail!TypeOK' BY NextMailTypes DEF MailInv
  <1>2. /\ Cardinality(MailBusy) \in Nat /\ IsFiniteSet(MailBusy)
        /\ Cardinality(MailPending) \in Nat /\ IsFiniteSet(MailPending)
        /\ Cardinality(MailCounted) \in Nat /\ IsFiniteSet(MailCounted)
        /\ Cardinality(MailCounted) <= Cardinality(mailDated) /\ Cardinality(mailDated) \in Nat
    BY <1>1, MailLimitFinite
  <1>3. /\ Cardinality(MailBusy') \in Nat /\ Cardinality(MailPending') \in Nat
        /\ Cardinality(MailCounted') \in Nat
        /\ Cardinality(MailPending') <= Cardinality(MailBusy')
    <2>1. /\ MailBusy' \subseteq Mail!Envelopes /\ MailPending' \subseteq MailBusy'
          /\ MailCounted' \subseteq MailJobs
      BY <1>1 DEF MailBusy, MailPending, MailCounted, Mail!TypeOK, Mail!Envelopes, Mail!PastGates, Mail!Processing, Mail!PreSend, Mail!PostSend
    <2>2. IsFiniteSet(MailBusy') /\ IsFiniteSet(MailCounted')
      BY <2>1, MailFinite, MailBounds, FS_Subset
    <2> QED BY <2>1, <2>2, FS_Subset, FS_CardinalityType
  <1>4. CASE MailBusy' \subseteq MailBusy /\ MailPending' \subseteq MailPending /\ MailCounted' = MailCounted
    <2>1. Cardinality(MailBusy') <= Cardinality(MailBusy) /\ Cardinality(MailPending') <= Cardinality(MailPending)
      BY <1>2, <1>4, FS_Subset
    <2> QED BY <1>1, <1>2, <1>3, <1>4, <2>1, MailBounds DEF MailInv
  <1>5. ASSUME NEW e \in Mail!Envelopes, Mail!Deliver(e) PROVE MailInv'
    <2>1. MailBusy' = MailBusy \cup {e} /\ MailPending' = MailPending /\ MailCounted' = MailCounted
      BY <1>1, <1>5 DEF Mail!Deliver, Mail!Goto, Mail!TypeOK, MailBusy, MailPending, MailCounted, Mail!PastGates, Mail!Processing,
                       Mail!BeforeMarker, Mail!PreSend, Mail!PostSend, Mail!producerVars
    <2>2. Cardinality(MailBusy) < MailMaxConcurrency
      <3>1. Mail!Cardinality(MailBusy) = Cardinality(MailBusy)
        BY DEF Mail!Cardinality, Cardinality
      <3> QED BY <1>5, <3>1 DEF Mail!Deliver, MailBusy
    <2>3. Cardinality(MailBusy') <= Cardinality(MailBusy) + 1
      <3>1. Cardinality(MailBusy \cup {e}) <= Cardinality(MailBusy) + 1
        BY <1>2, AtMostOneMore
      <3> QED BY <2>1, <3>1
    <2> QED BY <1>1, <1>2, <1>3, <2>1, <2>2, <2>3, MailBounds DEF MailInv
  <1>6. ASSUME NEW e \in Mail!Envelopes, Mail!PassGates(e) PROVE MailInv'
    <2>1. MailBusy' = MailBusy /\ MailCounted' = MailCounted
      BY <1>1, <1>6 DEF Mail!PassGates, Mail!Goto, Mail!TypeOK, MailBusy, MailCounted, Mail!Processing, Mail!PreSend, Mail!producerVars
    <2>2. CASE Mail!JobOf(e) \in mailTransactional
      <3>1. MailPending' = MailPending
        BY <1>1, <1>6, <2>2 DEF Mail!PassGates, Mail!Goto, Mail!TypeOK, MailPending, Mail!PastGates, Mail!producerVars
      <3> QED BY <1>1, <2>1, <3>1 DEF MailInv
    <2>3. CASE Mail!JobOf(e) \notin mailTransactional
      <3>0. Mail!Cardinality(mailDated) = Cardinality(mailDated)
        BY DEF Mail!Cardinality, Cardinality
      <3>1. Cardinality(mailDated) < MailDailyLimit
        BY <3>0, <1>6, <2>3 DEF Mail!PassGates, Mail!BelowDailyLimit
      <3> QED BY <1>1, <1>2, <1>3, <2>1, <3>1, MailBounds DEF MailInv
    <2> QED BY <2>2, <2>3
  <1>7. ASSUME NEW e \in Mail!Envelopes, Mail!RecordSent(e) PROVE MailInv'
    <2>1. MailBusy' = MailBusy
      BY <1>1, <1>7 DEF Mail!RecordSent, Mail!Goto, Mail!TypeOK, MailBusy, Mail!Processing, Mail!PreSend, Mail!PostSend
    <2>2. CASE Mail!JobOf(e) \in mailTransactional
      <3>1. MailPending' = MailPending /\ MailCounted' = MailCounted
        BY <1>1, <1>7, <2>2 DEF Mail!RecordSent, Mail!Goto, Mail!TypeOK, MailPending, MailCounted, Mail!PastGates, Mail!producerVars
      <3> QED BY <1>1, <2>1, <3>1 DEF MailInv
    <2>3. CASE Mail!JobOf(e) \notin mailTransactional
      <3>1. MailPending' = MailPending \ {e} /\ e \in MailPending /\ MailCounted' = MailCounted \cup {Mail!JobOf(e)}
        BY <1>1, <1>7, <2>3 DEF Mail!RecordSent, Mail!Goto, Mail!TypeOK, MailPending, MailCounted, Mail!PastGates, Mail!producerVars
      <3>2. /\ Cardinality(MailPending') = Cardinality(MailPending) - 1
            /\ Cardinality(MailCounted') <= Cardinality(MailCounted) + 1
        <4>1. Cardinality(MailPending \ {e}) = Cardinality(MailPending) - 1
          BY <1>2, <3>1, FS_RemoveElement
        <4>2. Cardinality(MailCounted \cup {Mail!JobOf(e)}) <= Cardinality(MailCounted) + 1
          BY <1>2, AtMostOneMore
        <4> QED BY <3>1, <4>1, <4>2
      <3> QED BY <1>1, <1>2, <1>3, <2>1, <3>2, MailBounds DEF MailInv
    <2> QED BY <2>2, <2>3
  <1> QED BY <1>1, <1>4, <1>5, <1>6, <1>7, MailQuiet

LEMMA InitMailInv == Mail!Init => MailInv
  <1> SUFFICES ASSUME Mail!Init PROVE MailInv
    OBVIOUS
  <1>1. MailBusy = {} /\ MailPending = {} /\ MailCounted = {}
    BY DEF Mail!Init, MailBusy, MailPending, MailCounted, Mail!PastGates, Mail!Processing,
           Mail!BeforeMarker, Mail!PreSend, Mail!PostSend
  <1>2. Cardinality({}) = 0 BY FS_EmptySet
  <1> QED BY <1>1, <1>2, InitMailTypes, MailBounds DEF MailInv

(* However many invocations race between the count and the send, a day's         *)
(* marketing e-mails exceed the limit by less than the number of invocations.    *)
LEMMA MailWithinLimit == MailInv => Mail!DailyOvershootBounded
  <1> SUFFICES ASSUME MailInv PROVE Mail!DailyOvershootBounded
    OBVIOUS
  <1>1. Cardinality(MailCounted) \in Nat /\ Cardinality(MailPending) \in Nat
    BY MailLimitFinite DEF MailInv
  <1>2. Cardinality(MailCounted) <= MailDailyLimit + MailMaxConcurrency - 1
    BY <1>1, MailBounds DEF MailInv
  <1>3. Mail!Cardinality(MailCounted) = Cardinality(MailCounted)
    BY DEF Mail!Cardinality, Cardinality
  <1> QED BY <1>2, <1>3 DEF Mail!DailyOvershootBounded, MailCounted

-----------------------------------------------------------------------------
(* The windows of a contact's events. *)
(* The ranks of events by the time they occurred, and by arrival for one time. *)
Occurred(p)   == \A i \in 1..Len(p) : p[i].time \in Int
Earlier(p, i) == {j \in 1..Len(p) : p[j].time < p[i].time \/ (p[j].time = p[i].time /\ j < i)}
Rank(p, i)    == Cardinality(Earlier(p, i)) + 1
UpTo(p, e)    == {j \in 1..Len(p) : p[j].time <= e.time}

LEMMA EarlierFinite ==
  ASSUME NEW p, Len(p) \in Nat, NEW i \in 1..Len(p), Occurred(p)
  PROVE  /\ IsFiniteSet(Earlier(p, i)) /\ Cardinality(Earlier(p, i)) \in Nat
         /\ Rank(p, i) \in 1..Len(p)
  <1> DEFINE n == Len(p)
  <1>1. IsFiniteSet(1..n) /\ Cardinality(1..n) = n
    <2> 1 \in Int /\ n \in Int
      OBVIOUS
    <2>1. IsFiniteSet(1..n) /\ Cardinality(1..n) = IF 1 > n THEN 0 ELSE n - 1 + 1
      BY FS_Interval
    <2> QED BY <2>1
  <1>2. Earlier(p, i) \subseteq (1..n) \ {i}
    BY DEF Earlier, Occurred
  <1>3. IsFiniteSet((1..n) \ {i}) /\ Cardinality((1..n) \ {i}) = n - 1
    BY <1>1, FS_RemoveElement
  <1>4. IsFiniteSet(Earlier(p, i)) /\ Cardinality(Earlier(p, i)) <= n - 1
    BY <1>2, <1>3, FS_Subset
  <1>5. Cardinality(Earlier(p, i)) \in Nat
    BY <1>4, FS_CardinalityType
  <1> QED BY <1>4, <1>5 DEF Rank

LEMMA UpToFinite ==
  ASSUME NEW p, Len(p) \in Nat, NEW e
  PROVE  /\ IsFiniteSet(UpTo(p, e)) /\ Cardinality(UpTo(p, e)) \in 0..Len(p)
  <1> DEFINE n == Len(p)
  <1>1. IsFiniteSet(1..n) /\ Cardinality(1..n) = n
    <2> 1 \in Int /\ n \in Int
      OBVIOUS
    <2>1. IsFiniteSet(1..n) /\ Cardinality(1..n) = IF 1 > n THEN 0 ELSE n - 1 + 1
      BY FS_Interval
    <2> QED BY <2>1
  <1>2. UpTo(p, e) \subseteq 1..n
    BY DEF UpTo
  <1>3. IsFiniteSet(UpTo(p, e)) /\ Cardinality(UpTo(p, e)) <= n
    BY <1>1, <1>2, FS_Subset
  <1>4. Cardinality(UpTo(p, e)) \in Nat
    BY <1>3, FS_CardinalityType
  <1> QED BY <1>3, <1>4

(* The events up to a time are the first in rank. *)
LEMMA UpToIsFirst ==
  ASSUME NEW p, Len(p) \in Nat, Occurred(p), NEW e, e.time \in Int, NEW i \in 1..Len(p)
  PROVE  i \in UpTo(p, e) <=> Rank(p, i) <= Cardinality(UpTo(p, e))
  <1> DEFINE m == Cardinality(UpTo(p, e))
             r == Cardinality(Earlier(p, i))
  <1>1. /\ IsFiniteSet(UpTo(p, e)) /\ m \in Nat
        /\ IsFiniteSet(Earlier(p, i)) /\ r \in Nat
    BY EarlierFinite, UpToFinite
  <1>2. CASE i \in UpTo(p, e)
    <2>1. Earlier(p, i) \subseteq UpTo(p, e) \ {i}
      BY <1>2 DEF Earlier, UpTo, Occurred
    <2>2. IsFiniteSet(UpTo(p, e) \ {i}) /\ Cardinality(UpTo(p, e) \ {i}) = m - 1
      BY <1>1, <1>2, FS_RemoveElement
    <2>3. r <= m - 1
      BY <2>1, <2>2, FS_Subset
    <2> QED BY <1>1, <1>2, <2>3 DEF Rank
  <1>3. CASE i \notin UpTo(p, e)
    <2>1. UpTo(p, e) \subseteq Earlier(p, i)
      BY <1>3 DEF Earlier, UpTo, Occurred
    <2>2. m <= r
      BY <1>1, <2>1, FS_Subset
    <2> QED BY <1>1, <1>3, <2>2 DEF Rank
  <1> QED BY <1>2, <1>3

(* What one event more does to the ranks. *)
LongerBy(p, e, q) ==
  /\ Len(q) = Len(p) + 1 /\ q[Len(p) + 1] = e
  /\ \A i \in 1..Len(p) : q[i] = p[i]

LEMMA RanksMove ==
  ASSUME NEW p, Len(p) \in Nat, Occurred(p), NEW e, e.time \in Int, NEW q, LongerBy(p, e, q)
  PROVE  /\ Occurred(q)
         /\ Rank(q, Len(p) + 1) = Cardinality(UpTo(p, e)) + 1
         /\ \A i \in 1..Len(p) :
              Rank(q, i) = IF i \in UpTo(p, e) THEN Rank(p, i) ELSE Rank(p, i) + 1
  <1> DEFINE n == Len(p)
  <1>0. n \in Nat /\ Len(q) = n + 1 /\ q[n + 1] = e /\ \A i \in 1..n : q[i] = p[i]
    BY DEF LongerBy
  <1>1. \A i \in 1..Len(q) : i \in 1..n \/ i = n + 1
    BY <1>0
  <1>2. 1..n \subseteq 1..Len(q) /\ n + 1 \in 1..Len(q)
    BY <1>0
  <1> HIDE DEF n
  <1>3. Occurred(q)
    BY <1>0, <1>1 DEF Occurred, n
  <1>4. Earlier(q, n + 1) = UpTo(p, e)
    <2>1. ASSUME NEW j \in 1..Len(q) PROVE j \in Earlier(q, n + 1) <=> j \in UpTo(p, e)
      <3>1. CASE j = n + 1
        BY <1>0, <3>1 DEF Earlier, UpTo, n
      <3>2. CASE j \in 1..n
        <4>1. j < n + 1 /\ q[j] = p[j] /\ p[j].time \in Int
          BY <1>0, <3>2 DEF Occurred, n
        <4> QED BY <1>0, <1>2, <3>2, <4>1 DEF Earlier, UpTo, n
      <3> QED BY <1>1, <3>1, <3>2
    <2> QED BY <1>2, <2>1 DEF Earlier, UpTo, n
  <1>5. ASSUME NEW i \in 1..n
        PROVE  Rank(q, i) = IF i \in UpTo(p, e) THEN Rank(p, i) ELSE Rank(p, i) + 1
    <2>0. p[i].time \in Int /\ q[i] = p[i] /\ i \in 1..Len(p) /\ i < n + 1
      BY <1>0 DEF Occurred, n
    <2>1. \A j \in 1..n : j \in Earlier(q, i) <=> j \in Earlier(p, i)
      BY <1>0, <1>2, <2>0 DEF Earlier, n
    <2>2. n + 1 \in Earlier(q, i) <=> i \notin UpTo(p, e)
      BY <1>0, <1>2, <2>0 DEF Earlier, UpTo
    <2>3. Earlier(q, i) \subseteq 1..Len(q) /\ Earlier(p, i) \subseteq 1..n /\ n + 1 \notin 1..n
      BY <1>0 DEF Earlier, n
    <2>4. IsFiniteSet(Earlier(p, i)) /\ Cardinality(Earlier(p, i)) \in Nat
      BY <2>0, EarlierFinite
    <2>5. CASE i \in UpTo(p, e)
      <3>1. Earlier(q, i) = Earlier(p, i)
        BY <1>1, <2>1, <2>2, <2>3, <2>5
      <3> QED BY <2>5, <3>1 DEF Rank
    <2>6. CASE i \notin UpTo(p, e)
      <3>1. Earlier(q, i) = Earlier(p, i) \cup {n + 1}
        BY <1>1, <2>1, <2>2, <2>3, <2>6
      <3>2. Cardinality(Earlier(q, i)) = Cardinality(Earlier(p, i)) + 1
        BY <2>3, <2>4, <3>1, FS_AddElement
      <3> QED BY <2>4, <2>6, <3>2 DEF Rank
    <2> QED BY <2>5, <2>6
  <1> QED BY <1>3, <1>4, <1>5 DEF Rank, n

(* Every rank is taken. *)
Ranked(p) == \A r \in 1..Len(p) : \E i \in 1..Len(p) : Rank(p, i) = r

LEMMA RankedStays ==
  ASSUME NEW p, Len(p) \in Nat, Occurred(p), Ranked(p), NEW e, e.time \in Int, NEW q, LongerBy(p, e, q)
  PROVE  Ranked(q)
  <1> DEFINE n == Len(p)
             m == Cardinality(UpTo(p, e))
  <1>0. n \in Nat /\ Len(q) = n + 1 /\ m \in 0..n
    BY UpToFinite DEF LongerBy
  <1>1. \A i \in 1..n : i \in UpTo(p, e) <=> Rank(p, i) <= m
    BY UpToIsFirst
  <1>2. /\ Rank(q, n + 1) = m + 1
        /\ \A i \in 1..n : Rank(q, i) = IF i \in UpTo(p, e) THEN Rank(p, i) ELSE Rank(p, i) + 1
    BY RanksMove
  <1>3. \A r \in 1..n : \E i \in 1..n : Rank(p, i) = r
    BY DEF Ranked
  <1> HIDE DEF n, m
  <1>4. ASSUME NEW r \in 1..(n + 1) PROVE \E i \in 1..(n + 1) : Rank(q, i) = r
    <2>1. CASE r <= m
      <3>1. r \in 1..n
        BY <1>0, <2>1
      <3>2. PICK i \in 1..n : Rank(p, i) = r
        BY <1>3, <3>1
      <3>3. Rank(q, i) = r /\ i \in 1..(n + 1)
        BY <1>0, <1>1, <1>2, <2>1, <3>2
      <3> QED BY <3>3
    <2>2. CASE r = m + 1
      BY <1>0, <1>2, <2>2
    <2>3. CASE r > m + 1
      <3>1. r - 1 \in 1..n /\ ~(r - 1 <= m)
        BY <1>0, <2>3
      <3>2. PICK i \in 1..n : Rank(p, i) = r - 1
        BY <1>3, <3>1
      <3>3. Rank(q, i) = r /\ i \in 1..(n + 1)
        BY <1>0, <1>1, <1>2, <3>1, <3>2
      <3> QED BY <3>3
    <2> QED BY <1>0, <2>1, <2>2, <2>3
  <1> QED BY <1>0, <1>4 DEF Ranked

-----------------------------------------------------------------------------
(* The inbox: each event whose rank is not too low is at its place. *)
Shown(p, b) ==
  \A i \in 1..Len(p) :
    Rank(p, i) > Len(p) - Len(b) => b[Rank(p, i) - (Len(p) - Len(b))] = p[i]

LEMMA PlaceIsRank ==
  ASSUME NEW p, Len(p) \in Nat, Occurred(p), Ranked(p), NEW b, Len(b) \in Nat, Len(b) <= Len(p),
         Shown(p, b), NEW e, e.time \in Int
  PROVE  LET d == Cardinality(UpTo(p, e)) - (Len(p) - Len(b))
         IN  Memory!Place(b, e) = IF d > 0 THEN d + 1 ELSE 1
  <1> DEFINE n == Len(p)
             l == Len(b)
             m == Cardinality(UpTo(p, e))
             d == m - (n - l)
             later == {x \in 1..l : b[x].time > e.time}
  <1>0. n \in Nat /\ l \in Nat /\ l <= n /\ m \in 0..n /\ d \in Int /\ d <= l /\ d = m - (n - l)
    BY UpToFinite
  <1>1. ASSUME NEW x \in 1..l PROVE b[x].time > e.time <=> x > d
    <2>1. x + (n - l) \in 1..n
      BY <1>0
    <2>2. PICK i \in 1..n : Rank(p, i) = x + (n - l)
      BY <2>1 DEF Ranked
    <2>3. b[x] = p[i]
      <3>1. x + (n - l) > n - l /\ x + (n - l) - (n - l) = x
        BY <1>0
      <3> QED BY <2>2, <3>1 DEF Shown
    <2>4. i \in UpTo(p, e) <=> x + (n - l) <= m
      BY <2>2, UpToIsFirst
    <2>5. i \in UpTo(p, e) <=> p[i].time <= e.time
      BY DEF UpTo
    <2>6. p[i].time \in Int
      BY DEF Occurred
    <2> HIDE DEF n, l, m, d
    <2> QED BY <1>0, <2>3, <2>4, <2>5, <2>6
  <1>2. later = {x \in 1..l : x > d}
    BY <1>1
  <1>3. Memory!Place(b, e) = IF later = {} THEN l + 1 ELSE CHOOSE x \in later : \A y \in later : x <= y
    BY DEF Memory!Place
  <1> HIDE DEF n, l, m, d, later
  <1>4. CASE later = {}
    <2>1. d = l \/ (l = 0 /\ d <= 0)
      <3> SUFFICES ASSUME d < l, l > 0 PROVE FALSE
        BY <1>0
      <3>1. l \in 1..l
        BY <1>0
      <3> QED BY <1>2, <1>4, <3>1
    <2>2. Memory!Place(b, e) = l + 1
      BY <1>3, <1>4
    <2> QED BY <1>0, <2>1, <2>2 DEF n, l, m, d
  <1>5. CASE later # {}
    <2> DEFINE k == IF d > 0 THEN d + 1 ELSE 1
    <2>1. k \in later /\ \A y \in later : k <= y
      <3>1. PICK y \in 1..l : y > d
        BY <1>2, <1>5
      <3> QED BY <1>0, <1>2, <3>1
    <2>2. k \in Int /\ later \subseteq Int
      BY <1>0, <1>2
    <2> HIDE DEF k
    <2>3. \A x \in later : (\A y \in later : x <= y) => x = k
      BY <2>1, <2>2
    <2>4. (CHOOSE x \in later : \A y \in later : x <= y) = k
      BY <2>1, <2>3
    <2> QED BY <1>3, <1>5, <2>4 DEF k, n, l, m, d
  <1> QED BY <1>4, <1>5

(* What a window is with one event more at some place, and without its first. *)
Widened(b, k, e) == Memory!InsertAt(b, k, e)

LEMMA InsertedAt ==
  ASSUME NEW S, NEW b \in Seq(S), NEW e \in S, NEW k \in 1..(Len(b) + 1)
  PROVE  /\ Widened(b, k, e) \in Seq(S) /\ Len(b) \in Nat
         /\ Len(Widened(b, k, e)) = Len(b) + 1
         /\ \A x \in 1..(Len(b) + 1) :
              Widened(b, k, e)[x] = IF x < k THEN b[x] ELSE IF x = k THEN e ELSE b[x - 1]
  <1> DEFINE l == Len(b)
             f == SubSeq(b, 1, k - 1)
             g == SubSeq(b, k, l)
             h == f \o <<e>>
             c == h \o g
  <1>0. l \in Nat /\ k \in Nat /\ k >= 1 /\ k <= l + 1 /\ \A x \in 1..l : b[x] \in S
    BY LenProperties, ElementOfSeq
  <1>1. f \in Seq(S) /\ Len(f) = k - 1 /\ \A x \in 1..(k - 1) : f[x] = b[x]
    <2>1. \A x \in 1..(k - 1) : b[x] \in S
      BY <1>0
    <2>2. /\ f \in Seq(S) /\ Len(f) = IF 1 <= k - 1 THEN k - 1 - 1 + 1 ELSE 0
          /\ \A x \in 1..(k - 1 - 1 + 1) : f[x] = b[1 + x - 1]
      BY <1>0, <2>1, SubSeqProperties
    <2> HIDE DEF f
    <2> QED BY <1>0, <2>2
  <1>2. g \in Seq(S) /\ Len(g) = l - k + 1 /\ \A x \in 1..(l - k + 1) : g[x] = b[k + x - 1]
    <2>1. \A x \in k..l : b[x] \in S
      BY <1>0
    <2>2. /\ g \in Seq(S) /\ Len(g) = IF k <= l THEN l - k + 1 ELSE 0
          /\ \A x \in 1..(l - k + 1) : g[x] = b[k + x - 1]
      BY <1>0, <2>1, SubSeqProperties
    <2> HIDE DEF g, l
    <2> QED BY <1>0, <2>2
  <1>3. Widened(b, k, e) = c
    BY DEF Widened, Memory!InsertAt
  <1> HIDE DEF f, g, l
  <1>4. /\ h \in Seq(S) /\ Len(h) = k
        /\ \A x \in 1..k : h[x] = IF x < k THEN b[x] ELSE e
    <2>1. <<e>> \in Seq(S) /\ Len(<<e>>) = 1 /\ <<e>>[1] = e
      OBVIOUS
    <2>2. /\ h \in Seq(S) /\ Len(h) = Len(f) + Len(<<e>>)
          /\ \A x \in 1..(Len(f) + Len(<<e>>)) :
               h[x] = IF x <= Len(f) THEN f[x] ELSE <<e>>[x - Len(f)]
      BY <1>1, <2>1, ConcatProperties
    <2> HIDE DEF h
    <2>3. Len(h) = k
      BY <1>0, <1>1, <2>1, <2>2
    <2>4. ASSUME NEW x \in 1..k PROVE h[x] = IF x < k THEN b[x] ELSE e
      <3>1. x \in 1..(Len(f) + Len(<<e>>))
        BY <1>0, <1>1, <2>1
      <3>2. CASE x < k
        BY <1>0, <1>1, <2>2, <3>1, <3>2
      <3>3. CASE x = k
        <4>1. h[x] = <<e>>[x - Len(f)] /\ x - Len(f) = 1
          BY <1>0, <1>1, <2>2, <3>1, <3>3
        <4> QED BY <2>1, <3>3, <4>1
      <3> QED BY <1>0, <3>2, <3>3
    <2> QED BY <2>2, <2>3, <2>4
  <1> HIDE DEF h
  <1>5. /\ c \in Seq(S) /\ Len(c) = Len(h) + Len(g)
        /\ \A x \in 1..(Len(h) + Len(g)) : c[x] = IF x <= Len(h) THEN h[x] ELSE g[x - Len(h)]
    BY <1>2, <1>4, ConcatProperties
  <1> HIDE DEF c
  <1>6. Len(c) = l + 1
    BY <1>0, <1>2, <1>4, <1>5
  <1>7. ASSUME NEW x \in 1..(l + 1)
        PROVE  c[x] = IF x < k THEN b[x] ELSE IF x = k THEN e ELSE b[x - 1]
    <2>1. x \in 1..(Len(h) + Len(g))
      BY <1>0, <1>2, <1>4
    <2>2. CASE x <= k
      <3>1. c[x] = h[x] /\ x \in 1..k
        BY <1>0, <1>4, <1>5, <2>1, <2>2
      <3> QED BY <1>0, <1>4, <2>2, <3>1
    <2>3. CASE x > k
      <3>1. c[x] = g[x - k]
        BY <1>0, <1>4, <1>5, <2>1, <2>3
      <3>2. x - k \in 1..(l - k + 1) /\ k + (x - k) - 1 = x - 1
        BY <1>0, <2>3
      <3>3. g[x - k] = b[x - 1]
        BY <1>2, <3>2
      <3> QED BY <1>0, <2>3, <3>1, <3>3
    <2> QED BY <1>0, <2>2, <2>3
  <1> QED BY <1>0, <1>3, <1>5, <1>6, <1>7 DEF l

LEMMA TrimmedTo ==
  ASSUME NEW S, NEW c \in Seq(S), MemoryWindow \in Nat, Len(c) <= MemoryWindow + 1
  PROVE  /\ Memory!Trim(c) \in Seq(S) /\ Len(c) \in Nat
         /\ Len(c) <= MemoryWindow => Memory!Trim(c) = c
         /\ Len(c) > MemoryWindow =>
              /\ Len(Memory!Trim(c)) = Len(c) - 1
              /\ \A x \in 1..(Len(c) - 1) : Memory!Trim(c)[x] = c[x + 1]
  <1>1. Len(c) \in Nat
    BY LenProperties
  <1>2. CASE Len(c) <= MemoryWindow
    BY <1>1, <1>2 DEF Memory!Trim
  <1>3. CASE Len(c) > MemoryWindow
    <2>1. c # <<>> /\ Memory!Trim(c) = Tail(c)
      BY <1>1, <1>3, EmptySeq DEF Memory!Trim
    <2>2. /\ Tail(c) \in Seq(S) /\ Len(Tail(c)) = Len(c) - 1
          /\ \A x \in 1..Len(Tail(c)) : Tail(c)[x] = c[x + 1]
      BY <2>1, HeadTailProperties
    <2> DEFINE t == Tail(c)
    <2>3. /\ Memory!Trim(c) = t /\ t \in Seq(S) /\ Len(t) = Len(c) - 1
          /\ \A x \in 1..(Len(c) - 1) : t[x] = c[x + 1]
      BY <2>1, <2>2
    <2> HIDE DEF t
    <2> QED BY <1>1, <1>3, <2>3
  <1> QED BY <1>1, <1>2, <1>3

(* The inbox stays the latest events: what is shown of the longer history is *)
(* the window with the event at its place, trimmed.                          *)
Filled(p, b) == Len(b) = Memory!LeastOf(MemoryWindow, Len(p))
Pushed(b, e) == Memory!Trim(Widened(b, Memory!Place(b, e), e))

(* The inbox b of the history p is pushed the event e. *)
Grows(S, p, b, e, q, z) ==
  /\ MemoryWindow \in Nat /\ Len(p) \in Nat /\ Occurred(p) /\ Ranked(p)
  /\ b \in Seq(S) /\ Filled(p, b) /\ Shown(p, b)
  /\ e \in S /\ e.time \in Int
  /\ LongerBy(p, e, q) /\ z = Pushed(b, e)

LEMMA ShownStays ==
  ASSUME NEW S, NEW p, NEW b, NEW e, NEW q, NEW z, Grows(S, p, b, e, q, z)
  PROVE  z \in Seq(S) /\ Filled(q, z) /\ Shown(q, z)
  <1> DEFINE n == Len(p)
             l == Len(b)
             w == MemoryWindow
             m == Cardinality(UpTo(p, e))
             d == m - (n - l)
             k == IF d > 0 THEN d + 1 ELSE 1
             c == Widened(b, k, e)
  <1>0. /\ n \in Nat /\ w \in Nat /\ l \in Nat /\ l <= n /\ l <= w /\ m \in 0..n
        /\ Len(q) = n + 1 /\ q[n + 1] = e /\ \A i \in 1..n : q[i] = p[i]
        /\ l = IF w <= n THEN w ELSE n
    BY LenProperties, UpToFinite DEF Grows, LongerBy, Filled, Memory!LeastOf
  <1>1. Memory!Place(b, e) = k
    <2> /\ Len(p) \in Nat /\ Occurred(p) /\ Ranked(p) /\ Len(b) \in Nat /\ Len(b) <= Len(p)
        /\ Shown(p, b) /\ e.time \in Int
      BY <1>0 DEF Grows
    <2> QED BY PlaceIsRank
  <1>2. /\ Rank(q, n + 1) = m + 1
        /\ \A i \in 1..n : Rank(q, i) = IF i \in UpTo(p, e) THEN Rank(p, i) ELSE Rank(p, i) + 1
    BY RanksMove DEF Grows
  <1>3. \A i \in 1..n : /\ Rank(p, i) \in 1..n
                        /\ i \in UpTo(p, e) <=> Rank(p, i) <= m
    BY EarlierFinite, UpToIsFirst DEF Grows
  <1>4. \A i \in 1..n : Rank(p, i) > n - l => b[Rank(p, i) - (n - l)] = p[i]
    BY DEF Grows, Shown
  <1>5. z = Memory!Trim(c)
    BY <1>1 DEF Grows, Pushed
  <1>6. d \in Int /\ d = m - (n - l) /\ d <= l /\ k \in 1..(l + 1) /\ k = IF d > 0 THEN d + 1 ELSE 1
    BY <1>0
  <1>61. k \in 1..(Len(b) + 1)
    BY <1>6
  <1> HIDE DEF k
  <1>7. /\ c \in Seq(S) /\ Len(c) = l + 1
        /\ \A x \in 1..(l + 1) : c[x] = IF x < k THEN b[x] ELSE IF x = k THEN e ELSE b[x - 1]
    <2> b \in Seq(S) /\ e \in S
      BY DEF Grows
    <2> QED BY <1>61, InsertedAt
  <1> HIDE DEF n, l, m, d, c, w
  (* Where an event stands in the window before it is trimmed. *)
  <1>8. ASSUME NEW i \in 1..(n + 1), Rank(q, i) > n - l, n = l \/ Rank(q, i) > n - l + 1
        PROVE  Rank(q, i) - (n - l) \in 1..(l + 1) /\ c[Rank(q, i) - (n - l)] = q[i]
    <2> DEFINE x == Rank(q, i) - (n - l)
    <2>1. CASE i = n + 1
      <3>1. Rank(q, i) = m + 1
        BY <1>2, <2>1
      <3>2. x = d + 1 /\ k = d + 1 /\ x \in 1..(l + 1)
        BY <1>0, <1>6, <1>8, <3>1
      <3>3. c[k] = e
        BY <1>6, <1>7
      <3> QED BY <1>0, <2>1, <3>2, <3>3
    <2>2. CASE i \in 1..n /\ i \in UpTo(p, e)
      <3> DEFINE r == Rank(p, i)
      <3>1. Rank(q, i) = r /\ r <= m /\ r \in 1..n
        BY <1>2, <1>3, <2>2
      <3>2. b[r - (n - l)] = p[i]
        BY <1>4, <1>8, <2>2, <3>1
      <3> HIDE DEF r
      <3>3. x = r - (n - l) /\ x \in 1..(l + 1) /\ x < k
        BY <1>0, <1>6, <1>8, <3>1
      <3>4. c[x] = b[x]
        BY <1>7, <3>3
      <3> QED BY <1>0, <2>2, <3>2, <3>3, <3>4
    <2>3. CASE i \in 1..n /\ i \notin UpTo(p, e)
      <3> DEFINE r == Rank(p, i)
      <3>1. Rank(q, i) = r + 1 /\ r > m /\ r \in 1..n
        <4>1. Rank(q, i) = r + 1 /\ ~(r <= m) /\ r \in 1..n
          BY <1>2, <1>3, <2>3
        <4> HIDE DEF r
        <4> QED BY <1>0, <4>1
      <3>2. r > n - l
        <4> HIDE DEF r
        <4> QED BY <1>0, <1>8, <3>1
      <3>3. b[r - (n - l)] = p[i]
        BY <1>4, <2>3, <3>2
      <3> HIDE DEF r
      <3>4. x = r + 1 - (n - l) /\ x \in 1..(l + 1) /\ x > k /\ x - 1 = r - (n - l)
        BY <1>0, <1>6, <3>1, <3>2
      <3>5. c[x] = b[x - 1]
        <4> HIDE DEF x
        <4> QED BY <1>6, <1>7, <3>4
      <3> QED BY <1>0, <2>3, <3>3, <3>4, <3>5
    <2> QED BY <1>0, <2>1, <2>2, <2>3
  <1>9. \A i \in 1..(n + 1) : Rank(q, i) \in Nat
    <2>1. Occurred(q) /\ Len(q) \in Nat
      BY <1>0, RanksMove DEF Grows
    <2> QED BY <1>0, <2>1, EarlierFinite
  <1>10. CASE l < w
    <2>1. z = c
      BY <1>0, <1>5, <1>7, <1>10, TrimmedTo DEF w
    <2>2. n = l /\ Len(z) = n + 1 /\ n + 1 <= w
      BY <1>0, <1>7, <1>10, <2>1
    <2>3. Shown(q, z)
      <3> SUFFICES ASSUME NEW i \in 1..Len(q), Rank(q, i) > Len(q) - Len(z)
                   PROVE  z[Rank(q, i) - (Len(q) - Len(z))] = q[i]
        BY DEF Shown
      <3>1. i \in 1..(n + 1) /\ Len(q) - Len(z) = 0 /\ n - l = 0
        BY <1>0, <2>2
      <3>2. Rank(q, i) \in Nat
        BY <1>9, <3>1
      <3> DEFINE r == Rank(q, i)
      <3>3. r > 0
        BY <3>1
      <3>4. c[r - (n - l)] = q[i]
        BY <1>8, <2>2, <3>1, <3>3
      <3> HIDE DEF r
      <3>5. r - (n - l) = r /\ r - (Len(q) - Len(z)) = r
        BY <3>1, <3>2 DEF r
      <3> QED BY <2>1, <3>4, <3>5 DEF r
    <2> QED BY <1>0, <1>7, <2>1, <2>2, <2>3 DEF w, Filled, Memory!LeastOf
  <1>11. CASE l = w
    <2>1. /\ z \in Seq(S) /\ Len(z) = l
          /\ \A x \in 1..l : z[x] = c[x + 1]
      <3>1. /\ MemoryWindow \in Nat /\ c \in Seq(S)
            /\ Len(c) <= MemoryWindow + 1 /\ Len(c) > MemoryWindow
        BY <1>0, <1>7, <1>11 DEF w
      <3>2. /\ Memory!Trim(c) \in Seq(S) /\ Len(Memory!Trim(c)) = Len(c) - 1
            /\ \A x \in 1..(Len(c) - 1) : Memory!Trim(c)[x] = c[x + 1]
        BY <3>1, TrimmedTo
      <3> QED BY <1>0, <1>5, <1>7, <3>2
    <2>2. Shown(q, z)
      <3> SUFFICES ASSUME NEW i \in 1..Len(q), Rank(q, i) > Len(q) - Len(z)
                   PROVE  z[Rank(q, i) - (Len(q) - Len(z))] = q[i]
        BY DEF Shown
      <3> DEFINE r == Rank(q, i)
      <3>1. i \in 1..(n + 1) /\ Len(q) - Len(z) = n - l + 1
        BY <1>0, <2>1
      <3>2. r \in Nat /\ r > n - l + 1 /\ r > n - l
        BY <1>0, <1>9, <3>1
      <3>3. r - (n - l) \in 1..(l + 1) /\ c[r - (n - l)] = q[i]
        BY <1>8, <3>1, <3>2
      <3> DEFINE x == r - (Len(q) - Len(z))
                 y == r - (n - l)
      <3> HIDE DEF r
      <3>4. x = y - 1 /\ y \in 1..(l + 1) /\ y > 1
        BY <1>0, <3>1, <3>2, <3>3
      <3> HIDE DEF x, y
      <3>5. x \in 1..l /\ x + 1 = y
        BY <1>0, <3>4
      <3>6. z[x] = q[i]
        BY <2>1, <3>3, <3>5 DEF y
      <3> QED BY <3>6 DEF x, r
    <2> QED BY <1>0, <1>11, <2>1, <2>2 DEF w, Filled, Memory!LeastOf
  <1> QED BY <1>0, <1>10, <1>11

-----------------------------------------------------------------------------
(* The session: the last events of those since the reset. *)
Got     == SubSeq(memoryPushed, memorySince + 1, Len(memoryPushed))
Last(g) == SubSeq(g, Len(g) - Memory!LeastOf(MemoryWindow, Len(g)) + 1, Len(g))
Unanswered(g) ==
  {i \in 1..Len(g) : /\ g[i].direction = "outbound"
                     /\ \A j \in i..Len(g) : g[j].direction # "inbound"}

LEMMA LastIs ==
  ASSUME NEW S, NEW g \in Seq(S), MemoryWindow \in Nat
  PROVE  LET k == Memory!LeastOf(MemoryWindow, Len(g))
         IN  /\ Last(g) \in Seq(S) /\ Len(Last(g)) = k /\ k \in Nat /\ k <= Len(g) /\ Len(g) \in Nat
             /\ \A x \in 1..k : Last(g)[x] = g[Len(g) - k + x]
  <1> DEFINE n == Len(g)
             k == Memory!LeastOf(MemoryWindow, n)
             s == SubSeq(g, n - k + 1, n)
  <1>1. n \in Nat /\ k \in Nat /\ k <= n
    BY LenProperties DEF Memory!LeastOf
  <1>2. Last(g) = s
    BY DEF Last
  <1>3. \A x \in 1..n : g[x] \in S
    BY ElementOfSeq
  <1> HIDE DEF n, k
  <1>4. \A x \in (n - k + 1)..n : g[x] \in S
    BY <1>1, <1>3
  <1>5. /\ s \in Seq(S) /\ Len(s) = IF n - k + 1 <= n THEN n - (n - k + 1) + 1 ELSE 0
        /\ \A x \in 1..(n - (n - k + 1) + 1) : s[x] = g[n - k + 1 + x - 1]
    BY <1>1, <1>4, SubSeqProperties
  <1> HIDE DEF s
  <1>6. Len(s) = k /\ \A x \in 1..k : s[x] = g[n - k + x]
    <2>1. Len(s) = k
      BY <1>1, <1>5
    <2>2. ASSUME NEW x \in 1..k PROVE s[x] = g[n - k + x]
      <3>1. x \in 1..(n - (n - k + 1) + 1) /\ n - k + 1 + x - 1 = n - k + x
        BY <1>1
      <3> QED BY <1>5, <3>1
    <2> QED BY <2>1, <2>2
  <1> QED BY <1>1, <1>2, <1>5, <1>6 DEF n, k

LEMMA LastMoves ==
  ASSUME NEW S, NEW g \in Seq(S), NEW e \in S, MemoryWindow \in Nat
  PROVE  Memory!Trim(Append(Last(g), e)) = Last(Append(g, e))
  <1> DEFINE n == Len(g)
             w == MemoryWindow
             h == Append(g, e)
             a == Append(Last(g), e)
             k == Memory!LeastOf(w, n)
             j == Memory!LeastOf(w, n + 1)
             z == Memory!Trim(a)
  <1>1. /\ h \in Seq(S) /\ Len(h) = n + 1 /\ n \in Nat
        /\ \A x \in 1..n : h[x] = g[x]
        /\ h[n + 1] = e
    BY AppendProperties, LenProperties
  <1>2. /\ Last(g) \in Seq(S) /\ Len(Last(g)) = k /\ k \in Nat /\ k <= n
        /\ \A x \in 1..k : Last(g)[x] = g[n - k + x]
    BY LastIs
  <1>3. /\ a \in Seq(S) /\ Len(a) = k + 1
        /\ \A x \in 1..k : a[x] = Last(g)[x]
        /\ a[k + 1] = e
    BY <1>2, AppendProperties, LenProperties
  <1> HIDE DEF h, a
  <1>4. /\ Last(h) \in Seq(S) /\ Len(Last(h)) = j /\ j \in Nat /\ j <= n + 1
        /\ \A x \in 1..j : Last(h)[x] = h[n + 1 - j + x]
    BY <1>1, LastIs
  <1>5. /\ w \in Nat /\ k = (IF w <= n THEN w ELSE n) /\ j = (IF w <= n + 1 THEN w ELSE n + 1)
    BY <1>1 DEF Memory!LeastOf
  <1>6. /\ z \in Seq(S)
        /\ Len(a) <= w => z = a
        /\ Len(a) > w => Len(z) = Len(a) - 1 /\ \A x \in 1..(Len(a) - 1) : z[x] = a[x + 1]
    <2>1. Len(a) <= w + 1
      BY <1>1, <1>3, <1>5
    <2> QED BY <1>3, <1>5, <2>1, TrimmedTo
  <1> HIDE DEF n, w, k, j, z
  <1>7. ASSUME NEW x \in 1..(k + 1) PROVE a[x] = h[n - k + x]
    <2>1. CASE x = k + 1
      BY <1>1, <1>2, <1>3, <2>1
    <2>2. CASE x \in 1..k
      <3>1. n - k + x \in 1..n
        BY <1>1, <1>2, <2>2
      <3> QED BY <1>1, <1>2, <1>3, <2>2, <3>1
    <2> QED BY <1>2, <2>1, <2>2
  <1>8. Len(z) = j
    BY <1>1, <1>2, <1>3, <1>5, <1>6
  <1>9. ASSUME NEW x \in 1..j PROVE z[x] = h[n + 1 - j + x]
    <2>1. CASE k < w
      <3>1. z = a /\ j = k + 1
        BY <1>1, <1>2, <1>3, <1>5, <1>6, <2>1
      <3>2. x \in 1..(k + 1) /\ n + 1 - j + x = n - k + x
        BY <1>1, <1>2, <3>1
      <3> QED BY <1>7, <3>1, <3>2
    <2>2. CASE k = w
      <3>1. j = k /\ Len(a) > w
        BY <1>1, <1>2, <1>3, <1>5, <2>2
      <3>2. x + 1 \in 1..(k + 1) /\ n - k + (x + 1) = n + 1 - j + x /\ x \in 1..(Len(a) - 1)
        BY <1>1, <1>2, <1>3, <3>1
      <3>3. z[x] = a[x + 1]
        BY <1>6, <3>1, <3>2
      <3> QED BY <1>7, <3>2, <3>3
    <2> QED BY <1>1, <1>2, <1>5, <2>1, <2>2
  <1>10. z = Last(h)
    BY <1>4, <1>6, <1>8, <1>9, SeqEqual
  <1> QED BY <1>10 DEF z, h, a

LEMMA UnansweredMoves ==
  ASSUME NEW g, Len(g) \in Nat, NEW h, NEW e, LongerBy(g, e, h)
  PROVE  /\ IsFiniteSet(Unanswered(g)) /\ Cardinality(Unanswered(g)) \in Nat
         /\ Cardinality(Unanswered(h)) =
              CASE e.direction = "outbound" -> Cardinality(Unanswered(g)) + 1
                [] e.direction = "inbound" -> 0
                [] OTHER -> Cardinality(Unanswered(g))
  <1> DEFINE n == Len(g)
  <1>0. n \in Nat /\ Len(h) = n + 1 /\ h[n + 1] = e /\ \A i \in 1..n : h[i] = g[i]
    BY DEF LongerBy
  <1>1. IsFiniteSet(Unanswered(g)) /\ Cardinality(Unanswered(g)) \in Nat
    <2>1. 1 \in Int /\ n \in Int
      BY <1>0
    <2>2. IsFiniteSet(1..n)
      BY <2>1, FS_Interval
    <2>3. Unanswered(g) \subseteq 1..n
      BY DEF Unanswered
    <2> QED BY <2>2, <2>3, FS_Subset, FS_CardinalityType
  <1> HIDE DEF n
  <1>2. \A i \in 1..(n + 1) : n + 1 \in i..(n + 1) /\ (i \in 1..n \/ i = n + 1)
    BY <1>0
  <1>3. CASE e.direction = "inbound"
    <2>1. Unanswered(h) = {}
      BY <1>0, <1>2, <1>3 DEF Unanswered
    <2> QED BY <1>1, <1>3, <2>1, FS_EmptySet
  <1>4. CASE e.direction # "inbound"
    <2>1. ASSUME NEW i \in 1..n PROVE i \in Unanswered(h) <=> i \in Unanswered(g)
      <3>1. i \in 1..(n + 1) /\ h[i] = g[i]
        BY <1>0
      <3>2. (\A j \in i..(n + 1) : h[j].direction # "inbound") <=> (\A j \in i..n : g[j].direction # "inbound")
        <4>1. \A j \in i..n : j \in i..(n + 1) /\ h[j] = g[j]
          BY <1>0
        <4>2. \A j \in i..(n + 1) : j \in i..n \/ j = n + 1
          BY <1>0
        <4> QED BY <1>0, <1>4, <4>1, <4>2
      <3> QED BY <1>0, <3>1, <3>2 DEF Unanswered, n
    <2>2. n + 1 \in Unanswered(h) <=> e.direction = "outbound"
      <3>1. n + 1 \in 1..(n + 1) /\ \A j \in (n + 1)..(n + 1) : j = n + 1
        BY <1>0
      <3> QED BY <1>0, <1>4, <3>1 DEF Unanswered
    <2>3. Unanswered(h) \subseteq 1..(n + 1) /\ Unanswered(g) \subseteq 1..n /\ n + 1 \notin 1..n
      BY <1>0 DEF Unanswered, n
    <2>4. CASE e.direction = "outbound"
      <3>1. Unanswered(h) = Unanswered(g) \cup {n + 1} /\ n + 1 \notin Unanswered(g)
        <4>1. n + 1 \in Unanswered(h) /\ n + 1 \notin Unanswered(g)
          BY <2>2, <2>3, <2>4
        <4> QED BY <1>2, <2>1, <2>3, <4>1
      <3>2. Cardinality(Unanswered(h)) = Cardinality(Unanswered(g)) + 1
        BY <1>1, <3>1, FS_AddElement
      <3> QED BY <1>1, <2>4, <3>2
    <2>5. CASE e.direction # "outbound"
      <3>1. Unanswered(h) = Unanswered(g)
        <4>1. n + 1 \notin Unanswered(h) /\ n + 1 \notin Unanswered(g)
          BY <2>2, <2>3, <2>5
        <4> QED BY <1>2, <2>1, <2>3, <4>1
      <3> QED BY <1>1, <1>4, <2>5, <3>1
    <2> QED BY <2>4, <2>5
  <1> QED BY <1>3, <1>4

MemoryInv ==
  /\ memoryPushed \in Seq(Memory!Events) /\ memoryInbox \in Seq(Memory!Events)
  /\ memorySince \in 0..Len(memoryPushed)
  /\ Ranked(memoryPushed) /\ Filled(memoryPushed, memoryInbox) /\ Shown(memoryPushed, memoryInbox)
  /\ memorySession.events = Last(Got)
  /\ memorySession.unanswered = Cardinality(Unanswered(Got))

LEMMA EventsOccur ==
  ASSUME NEW p \in Seq(Memory!Events)
  PROVE  Len(p) \in Nat /\ Occurred(p)
  <1>1. MemoryTimes \subseteq Int
    BY ServicesBounds
  <1>2. \A i \in 1..Len(p) : p[i] \in Memory!Events
    BY ElementOfSeq
  <1> QED BY <1>1, <1>2, LenProperties DEF Occurred, Memory!Events

LEMMA AppendIsLonger ==
  ASSUME NEW S, NEW p \in Seq(S), NEW e \in S
  PROVE  LongerBy(p, e, Append(p, e)) /\ Append(p, e) \in Seq(S)
  BY AppendProperties, LenProperties DEF LongerBy

(* What there is since the last reset. *)
LEMMA GotIs ==
  ASSUME NEW S, NEW p \in Seq(S), NEW k \in 0..Len(p)
  PROVE  LET g == SubSeq(p, k + 1, Len(p))
         IN  /\ g \in Seq(S) /\ Len(g) = Len(p) - k
             /\ \A x \in 1..(Len(p) - k) : g[x] = p[k + x]
  <1> DEFINE n == Len(p)
             g == SubSeq(p, k + 1, n)
  <1>1. n \in Nat /\ k \in Nat /\ k <= n /\ \A x \in 1..n : p[x] \in S
    BY LenProperties, ElementOfSeq
  <1> HIDE DEF n
  <1>2. \A x \in (k + 1)..n : p[x] \in S
    BY <1>1
  <1>3. /\ g \in Seq(S) /\ Len(g) = IF k + 1 <= n THEN n - (k + 1) + 1 ELSE 0
        /\ \A x \in 1..(n - (k + 1) + 1) : g[x] = p[k + 1 + x - 1]
    BY <1>1, <1>2, SubSeqProperties
  <1> HIDE DEF g
  <1>4. Len(g) = n - k
    BY <1>1, <1>3
  <1>5. ASSUME NEW x \in 1..(n - k) PROVE g[x] = p[k + x]
    <2>1. x \in 1..(n - (k + 1) + 1) /\ k + 1 + x - 1 = k + x
      BY <1>1
    <2> QED BY <1>3, <2>1
  <1> QED BY <1>3, <1>4, <1>5 DEF g, n

LEMMA GotAppends ==
  ASSUME NEW S, NEW p \in Seq(S), NEW e \in S, NEW k \in 0..Len(p)
  PROVE  SubSeq(Append(p, e), k + 1, Len(Append(p, e))) = Append(SubSeq(p, k + 1, Len(p)), e)
  <1> DEFINE n == Len(p)
             q == Append(p, e)
             g == SubSeq(p, k + 1, Len(p))
             h == SubSeq(q, k + 1, Len(q))
             a == Append(g, e)
  <1>1. /\ q \in Seq(S) /\ Len(q) = n + 1 /\ n \in Nat /\ k \in Nat /\ k <= n
        /\ q[n + 1] = e /\ \A x \in 1..n : q[x] = p[x]
    BY AppendProperties, LenProperties
  <1>2. g \in Seq(S) /\ Len(g) = n - k /\ \A x \in 1..(n - k) : g[x] = p[k + x]
    BY GotIs
  <1>3. /\ a \in Seq(S) /\ Len(a) = n - k + 1 /\ a[n - k + 1] = e
        /\ \A x \in 1..(n - k) : a[x] = g[x]
    <2> HIDE DEF g
    <2> QED BY <1>1, <1>2, AppendProperties
  <1> HIDE DEF q
  <1>4. k \in 0..Len(q)
    BY <1>1
  <1>5. h \in Seq(S) /\ Len(h) = Len(q) - k /\ \A x \in 1..(Len(q) - k) : h[x] = q[k + x]
    BY <1>1, <1>4, GotIs
  <1> HIDE DEF n, g, h, a
  <1>6. Len(h) = Len(a)
    BY <1>1, <1>3, <1>5
  <1>7. ASSUME NEW x \in 1..Len(h) PROVE h[x] = a[x]
    <2>1. x \in 1..(n - k) \/ x = n - k + 1
      BY <1>1, <1>5
    <2>2. CASE x \in 1..(n - k)
      <3>1. k + x \in 1..n /\ x \in 1..(Len(q) - k)
        BY <1>1, <2>2
      <3> QED BY <1>1, <1>2, <1>3, <1>5, <2>2, <3>1
    <2>3. CASE x = n - k + 1
      <3>1. k + x = n + 1 /\ x \in 1..(Len(q) - k)
        BY <1>1, <2>3
      <3> QED BY <1>1, <1>3, <1>5, <2>3, <3>1
    <2> QED BY <2>1, <2>2, <2>3
  <1>8. h = a
    BY <1>3, <1>5, <1>6, <1>7, SeqEqual
  <1> QED BY <1>8 DEF h, a, g, q

LEMMA NothingGot ==
  ASSUME MemoryWindow \in Nat
  PROVE  /\ <<>> = Last(<<>>) /\ Cardinality(Unanswered(<<>>)) = 0
         /\ \A S : \A p \in Seq(S) : SubSeq(p, Len(p) + 1, Len(p)) = <<>>
  <1>1. <<>> \in Seq({}) /\ Len(<<>>) = 0 /\ 1..0 = {}
    BY EmptySeq
  <1>2. Memory!LeastOf(MemoryWindow, 0) = 0
    BY DEF Memory!LeastOf
  <1>3. Last(<<>>) \in Seq({}) /\ Len(Last(<<>>)) = 0
    BY <1>1, <1>2, LastIs
  <1>4. Last(<<>>) = <<>>
    BY <1>3, EmptySeq
  <1>5. Unanswered(<<>>) = {}
    BY <1>1 DEF Unanswered
  <1>6. ASSUME NEW S, NEW p \in Seq(S) PROVE SubSeq(p, Len(p) + 1, Len(p)) = <<>>
    <2>1. Len(p) \in 0..Len(p) /\ Len(p) \in Nat
      BY LenProperties
    <2>2. SubSeq(p, Len(p) + 1, Len(p)) \in Seq(S) /\ Len(SubSeq(p, Len(p) + 1, Len(p))) = Len(p) - Len(p)
      BY <2>1, GotIs
    <2> QED BY <2>1, <2>2, EmptySeq
  <1> QED BY <1>4, <1>5, <1>6, FS_EmptySet

LEMMA InitMemoryInv == Memory!Init => MemoryInv
  <1> SUFFICES ASSUME Memory!Init PROVE MemoryInv
    OBVIOUS
  <1>0. MemoryWindow \in Nat
    BY ServicesBounds
  <1>1. /\ <<>> \in Seq(Memory!Events) /\ Len(<<>>) = 0 /\ 1..0 = {}
    BY EmptySeq
  <1>2. Ranked(<<>>) /\ Filled(<<>>, <<>>) /\ Shown(<<>>, <<>>)
    BY <1>0, <1>1 DEF Ranked, Filled, Shown, Memory!LeastOf
  <1>3. Got = <<>>
    <2>1. memorySince + 1 = Len(memoryPushed) + 1 /\ memoryPushed \in Seq(Memory!Events)
      BY <1>1 DEF Memory!Init
    <2> QED BY <1>0, <2>1, NothingGot DEF Got
  <1>4. memorySession.events = <<>> /\ memorySession.unanswered = 0
    BY DEF Memory!Init, Memory!Fresh
  <1> QED BY <1>0, <1>1, <1>2, <1>3, <1>4, NothingGot DEF MemoryInv, Memory!Init

LEMMA NextMemoryInv ==
  ASSUME MemoryInv, Memory!Next \/ UNCHANGED memoryVars
  PROVE  MemoryInv'
  <1> DEFINE p == memoryPushed
             b == memoryInbox
  <1>0. /\ MemoryWindow \in Nat /\ p \in Seq(Memory!Events) /\ b \in Seq(Memory!Events)
        /\ memorySince \in 0..Len(p) /\ Len(p) \in Nat /\ Occurred(p)
    BY ServicesBounds, EventsOccur DEF MemoryInv
  <1>1. ASSUME NEW e \in Memory!Events, Memory!Push(e)
        PROVE  MemoryInv'
    <2>1. /\ p' = Append(p, e) /\ b' = Pushed(b, e) /\ memorySince' = memorySince
      BY <1>1 DEF Memory!Push, Memory!PushInbox, Pushed, Widened
    <2>2. LongerBy(p, e, p') /\ p' \in Seq(Memory!Events)
      BY <1>0, <2>1, AppendIsLonger
    <2>3. e.time \in Int
      BY ServicesBounds DEF Memory!Events
    <2>4. Ranked(p')
      BY <1>0, <2>2, <2>3, RankedStays DEF MemoryInv
    <2>5. Grows(Memory!Events, p, b, e, p', b')
      BY <1>0, <2>1, <2>2, <2>3 DEF Grows, MemoryInv
    <2>6. b' \in Seq(Memory!Events) /\ Filled(p', b') /\ Shown(p', b')
      BY <2>5, ShownStays
    <2>7. Got \in Seq(Memory!Events) /\ Got' = Append(Got, e)
      <3>1. Got \in Seq(Memory!Events)
        BY <1>0, GotIs DEF Got
      <3>2. SubSeq(Append(p, e), memorySince + 1, Len(Append(p, e))) = Append(Got, e)
        BY <1>0, GotAppends DEF Got
      <3> QED BY <2>1, <3>1, <3>2 DEF Got
    <2>8. /\ memorySession'.events = Memory!Trim(Append(memorySession.events, e))
          /\ memorySession'.unanswered = CASE e.direction = "outbound" -> memorySession.unanswered + 1
                                           [] e.direction = "inbound" -> 0
                                           [] OTHER -> memorySession.unanswered
      BY <1>1 DEF Memory!Push, Memory!PushSession
    <2>9. memorySession'.events = Last(Got')
      BY <1>0, <2>7, <2>8, LastMoves DEF MemoryInv
    <2>10. memorySession'.unanswered = Cardinality(Unanswered(Got'))
      <3>1. LongerBy(Got, e, Got') /\ Len(Got) \in Nat
        BY <2>7, AppendIsLonger, LenProperties
      <3> QED BY <2>8, <3>1, UnansweredMoves DEF MemoryInv
    <2>11. memorySince' \in 0..Len(p')
      BY <1>0, <2>1, <2>2 DEF LongerBy
    <2> QED BY <2>2, <2>4, <2>6, <2>9, <2>10, <2>11 DEF MemoryInv
  <1>2. CASE Memory!ResetSession
    <2>1. /\ p' = p /\ b' = b /\ memorySince' = Len(p)
          /\ memorySession'.events = <<>> /\ memorySession'.unanswered = 0
      BY <1>2 DEF Memory!ResetSession, Memory!Fresh
    <2>2. Got' = <<>>
      <3>1. SubSeq(p, Len(p) + 1, Len(p)) = <<>>
        BY <1>0, NothingGot
      <3> QED BY <2>1, <3>1 DEF Got
    <2>3. memorySince' \in 0..Len(p)
      BY <1>0, <2>1
    <2> QED BY <1>0, <2>1, <2>2, <2>3, NothingGot DEF MemoryInv
  <1>3. CASE (\E o \in Memory!Objects : Memory!Load(o) \/ Memory!Evict(o)) \/ UNCHANGED memoryVars
    <2>1. UNCHANGED <<memorySession, memoryInbox, memoryPushed, memorySince>>
      BY <1>3 DEF Memory!Load, Memory!Evict, memoryVars
    <2> QED BY <2>1 DEF MemoryInv, Got
  <1> QED BY <1>1, <1>2, <1>3 DEF Memory!Next

LEMMA MemoryInvHolds == MemoryInv => Memory!InboxIsLatest /\ Memory!SessionIsRecent
  <1> SUFFICES ASSUME MemoryInv PROVE Memory!InboxIsLatest /\ Memory!SessionIsRecent
    OBVIOUS
  <1> DEFINE p == memoryPushed
             b == memoryInbox
  <1>0. /\ MemoryWindow \in Nat /\ p \in Seq(Memory!Events) /\ b \in Seq(Memory!Events)
        /\ memorySince \in 0..Len(p) /\ Len(p) \in Nat /\ Len(b) \in Nat /\ DOMAIN p = 1..Len(p)
    BY ServicesBounds, LenProperties DEF MemoryInv
  <1>1. Memory!InboxIsLatest
    <2>1. ASSUME NEW i \in DOMAIN p
          PROVE  /\ Memory!Cardinality({j \in DOMAIN p : Memory!Before(j, i)}) + 1 = Rank(p, i)
                 /\ Rank(p, i) \in Nat
      <3>1. {j \in DOMAIN p : Memory!Before(j, i)} = Earlier(p, i)
        BY <1>0 DEF Memory!Before, Earlier
      <3>2. Memory!Cardinality(Earlier(p, i)) = Cardinality(Earlier(p, i))
        BY DEF Memory!Cardinality, Cardinality
      <3>3. Rank(p, i) \in 1..Len(p)
        BY <1>0, EventsOccur, EarlierFinite
      <3>4. Memory!Cardinality({j \in DOMAIN p : Memory!Before(j, i)}) + 1 = Rank(p, i)
        BY <3>1, <3>2 DEF Rank
      <3>5. Rank(p, i) \in Nat
        BY <1>0, <3>3
      <3> QED BY <3>4, <3>5
    <2>2. ASSUME NEW i \in DOMAIN p, Rank(p, i) - (Len(p) - Len(b)) > 0
          PROVE  b[Rank(p, i) - (Len(p) - Len(b))] = p[i]
      <3> DEFINE r == Rank(p, i)
                 n == Len(p)
                 l == Len(b)
      <3>1. r \in Nat /\ n \in Nat /\ l \in Nat /\ r - (n - l) > 0
        BY <1>0, <2>1, <2>2
      <3> HIDE DEF r, n, l
      <3>2. r > n - l
        BY <3>1
      <3> QED BY <1>0, <3>2 DEF MemoryInv, Shown, r, n, l
    <2> QED BY <2>1, <2>2 DEF Memory!InboxIsLatest, MemoryInv, Filled
  <1>2. Memory!SessionIsRecent
    <2>1. Got \in Seq(Memory!Events) /\ DOMAIN Got = 1..Len(Got)
      BY <1>0, GotIs, LenProperties DEF Got
    <2>2. memorySession.events
            = SubSeq(Got, Len(Got) - Memory!LeastOf(MemoryWindow, Len(Got)) + 1, Len(Got))
      BY DEF MemoryInv, Last
    <2>3. memorySession.unanswered
            = Memory!Cardinality({i \in DOMAIN Got : /\ Got[i].direction = "outbound"
                                                     /\ \A j \in i..Len(Got) : Got[j].direction # "inbound"})
      <3>1. Memory!Cardinality(Unanswered(Got)) = Cardinality(Unanswered(Got))
        BY DEF Memory!Cardinality, Cardinality
      <3> QED BY <2>1, <3>1 DEF MemoryInv, Unanswered
    <2> QED BY <2>2, <2>3 DEF Memory!SessionIsRecent, Got
  <1> QED BY <1>1, <1>2

-----------------------------------------------------------------------------
(* The stream of an answer.  What has been sent is a list of entries, each a *)
(* kind and a number.                                                        *)
Texts(o)  == {i \in 1..Len(o) : o[i][1] = "text"}
Ended(o)  == \E i \in 1..Len(o) : o[i][1] = "finish"
Says(o, x) == \E i \in Texts(o) : o[i][2] = x
Heard    == (1..(speechAt - 1)) \ speechTorn

(* The texts are numbered upwards, below the next line. *)
Upwards(o, k) ==
  /\ \A i, j \in Texts(o) : i < j => o[i][2] < o[j][2]
  /\ \A i \in Texts(o) : o[i][2] \in 1..(k - 1)

SpeechTypes ==
  /\ speechStage \in {"request", "ask", "answer", "stream", "closed"}
  /\ speechStream \in BOOLEAN /\ speechPieces \in 0..SpeechMaxPieces
  /\ speechAt \in 1..(speechPieces + 3) /\ speechTorn \subseteq 1..speechAt
  /\ speechOut \in Seq(Speech!Outputs)

SpeechTold ==
  speechStream =>
    \/ speechStage = "closed" /\ speechOut = <<<<"error", 0>>>>
    \/ /\ speechStage \in {"request", "ask"} => speechAt = 1 /\ speechOut = <<>>
       /\ Upwards(speechOut, speechAt)
       /\ \A k \in Heard : k <= speechPieces => Says(speechOut, k)
       /\ (\E k \in Heard : k > speechPieces) <=> Ended(speechOut)

SpeechInv == SpeechTypes /\ SpeechTold /\ (speechStage = "answer" => ~speechStream)

(* What a list is with the translation of a line added: nothing, a text or an end. *)
LEMMA ListsJoin ==
  ASSUME NEW S, NEW o \in Seq(S), NEW t \in Seq(S)
  PROVE  /\ o \o t \in Seq(S) /\ Len(o) \in Nat /\ Len(t) \in Nat /\ Len(o \o t) = Len(o) + Len(t)
         /\ \A i \in 1..Len(o) : (o \o t)[i] = o[i]
         /\ \A i \in 1..Len(t) : (o \o t)[Len(o) + i] = t[i]
         /\ \A i \in 1..Len(o \o t) : i \in 1..Len(o) \/ \E j \in 1..Len(t) : i = Len(o) + j
  <1> DEFINE n == Len(o)
             m == Len(t)
             u == o \o t
  <1>1. /\ u \in Seq(S) /\ Len(u) = n + m /\ n \in Nat /\ m \in Nat
        /\ \A i \in 1..(n + m) : u[i] = IF i <= n THEN o[i] ELSE t[i - n]
    BY ConcatProperties, LenProperties
  <1> HIDE DEF n, m, u
  <1>2. \A i \in 1..n : u[i] = o[i]
    BY <1>1
  <1>3. ASSUME NEW i \in 1..m PROVE u[n + i] = t[i]
    <2>1. n + i \in 1..(n + m) /\ ~(n + i <= n) /\ n + i - n = i
      BY <1>1
    <2> QED BY <1>1, <2>1
  <1>4. ASSUME NEW i \in 1..Len(u) PROVE i \in 1..n \/ \E j \in 1..m : i = n + j
    <2>1. CASE i <= n
      BY <1>1, <2>1
    <2>2. CASE i > n
      <3>1. i - n \in 1..m /\ i = n + (i - n)
        BY <1>1, <2>2
      <3> QED BY <3>1
    <2> QED BY <1>1, <2>1, <2>2
  <1> QED BY <1>1, <1>2, <1>3, <1>4 DEF n, m, u

(* What a list becomes by a text, and by an end. *)
WithText(o, k, u) == u = o \o <<<<"text", k>>>>
WithEnd(o, u)     == u = o \o <<<<"finish", 0>>, <<"done", 0>>>>

LEMMA TextAdded ==
  ASSUME SpeechMaxPieces \in Nat, NEW o \in Seq(Speech!Outputs), NEW k \in 1..SpeechMaxPieces,
         Upwards(o, k), NEW u, WithText(o, k, u)
  PROVE  /\ u \in Seq(Speech!Outputs) /\ Upwards(u, k + 1)
         /\ Ended(u) <=> Ended(o)
         /\ \A x : Says(u, x) <=> x = k \/ Says(o, x)
  <1> DEFINE n == Len(o)
             t == <<<<"text", k>>>>
  <1>1. t \in Seq(Speech!Outputs) /\ Len(t) = 1 /\ t[1] = <<"text", k>>
    BY DEF Speech!Outputs
  <1>2. /\ u \in Seq(Speech!Outputs) /\ n \in Nat /\ Len(u) = n + 1
        /\ \A i \in 1..n : u[i] = o[i]
        /\ u[n + 1] = <<"text", k>>
    BY <1>1, ListsJoin DEF WithText
  <1> HIDE DEF n, t
  <1>3. Texts(u) = Texts(o) \cup {n + 1} /\ \A i \in Texts(o) : i \in 1..n /\ u[i] = o[i]
    BY <1>2 DEF Texts, n
  <1>4. u[n + 1][2] = k /\ u[n + 1][1] = "text"
    BY <1>2
  <1>5. Upwards(u, k + 1)
    <2>1. ASSUME NEW i \in Texts(u), NEW j \in Texts(u), i < j PROVE u[i][2] < u[j][2]
      <3>1. i \in Texts(o)
        BY <1>2, <1>3, <2>1
      <3>2. CASE j \in Texts(o)
        BY <1>3, <2>1, <3>1, <3>2 DEF Upwards
      <3>3. CASE j = n + 1
        BY <1>3, <1>4, <3>1, <3>3 DEF Upwards
      <3> QED BY <1>3, <3>2, <3>3
    <2>2. ASSUME NEW i \in Texts(u) PROVE u[i][2] \in 1..k
      BY <1>3, <1>4 DEF Upwards
    <2>3. k + 1 - 1 = k
      OBVIOUS
    <2> QED BY <2>1, <2>2, <2>3 DEF Upwards
  <1>6. Ended(u) <=> Ended(o)
    <2>1. u[n + 1][1] # "finish" /\ 1..Len(u) = (1..n) \cup {n + 1}
      BY <1>2, <1>4
    <2> QED BY <1>2, <2>1 DEF Ended, n
  <1>7. \A x : Says(u, x) <=> x = k \/ Says(o, x)
    BY <1>3, <1>4 DEF Says
  <1> QED BY <1>2, <1>5, <1>6, <1>7

LEMMA EndAdded ==
  ASSUME SpeechMaxPieces \in Nat, NEW o \in Seq(Speech!Outputs), NEW k \in Nat,
         Upwards(o, k), NEW u, WithEnd(o, u)
  PROVE  /\ u \in Seq(Speech!Outputs) /\ Upwards(u, k + 1) /\ Ended(u)
         /\ \A x : Says(u, x) <=> Says(o, x)
  <1> DEFINE n == Len(o)
             t == <<<<"finish", 0>>, <<"done", 0>>>>
  <1>1. t \in Seq(Speech!Outputs) /\ Len(t) = 2 /\ t[1] = <<"finish", 0>> /\ t[2] = <<"done", 0>>
    BY DEF Speech!Outputs
  <1>2. /\ u \in Seq(Speech!Outputs) /\ n \in Nat /\ Len(u) = n + 2
        /\ \A i \in 1..n : u[i] = o[i]
        /\ u[n + 1] = <<"finish", 0>> /\ u[n + 2] = <<"done", 0>>
    BY <1>1, ListsJoin DEF WithEnd
  <1> HIDE DEF n, t
  <1>3. 1..Len(u) = (1..n) \cup {n + 1, n + 2}
    BY <1>2
  <1>4. Texts(u) = Texts(o) /\ \A i \in Texts(o) : u[i] = o[i]
    BY <1>2, <1>3 DEF Texts, n
  <1>5. Upwards(u, k + 1)
    BY <1>4 DEF Upwards
  <1>6. Ended(u)
    BY <1>2, <1>3 DEF Ended
  <1>7. \A x : Says(u, x) <=> Says(o, x)
    BY <1>4 DEF Says
  <1> QED BY <1>2, <1>5, <1>6, <1>7

LEMMA NothingSent == /\ <<>> \in Seq(Speech!Outputs) /\ Texts(<<>>) = {} /\ ~Ended(<<>>)
                     /\ \A k : Upwards(<<>>, k)
  BY DEF Texts, Ended, Upwards

LEMMA InitSpeechInv == Speech!Init => SpeechInv
  <1> SUFFICES ASSUME Speech!Init PROVE SpeechInv
    OBVIOUS
  <1>1. SpeechTypes /\ speechStage = "request" /\ speechAt = 1 /\ speechOut = <<>>
    BY ServicesBounds, NothingSent DEF Speech!Init, SpeechTypes
  <1>2. Heard = {}
    BY <1>1 DEF Heard
  <1> QED BY <1>1, <1>2, NothingSent DEF SpeechInv, SpeechTold

LEMMA NextSpeechInv == SpeechInv /\ (Speech!Next \/ UNCHANGED speechVars) => SpeechInv'
  <1> SUFFICES ASSUME SpeechInv, Speech!Next \/ UNCHANGED speechVars PROVE SpeechInv'
    OBVIOUS
  <1>0. /\ SpeechMaxPieces \in Nat /\ SpeechTypes /\ SpeechTold
        /\ <<"error", 0>> \in Speech!Outputs /\ <<"role", 0>> \in Speech!Outputs
        /\ <<<<"error", 0>>>> \in Seq(Speech!Outputs) /\ <<<<"role", 0>>>> \in Seq(Speech!Outputs)
    BY ServicesBounds DEF SpeechInv, Speech!Outputs
  <1>1. CASE Speech!Refuse \/ Speech!AnthropicFails
    BY <1>0, <1>1 DEF SpeechInv, SpeechTypes, SpeechTold, Speech!Refuse, Speech!AnthropicFails,
       Speech!answer
  <1>2. CASE Speech!Accept
    <2>1. Heard' = Heard
      BY <1>2 DEF Heard, Speech!Accept, Speech!answer
    <2> QED BY <1>0, <1>2, <2>1 DEF SpeechInv, SpeechTypes, SpeechTold, Speech!Accept, Speech!answer
  <1>3. CASE Speech!AskAnthropic
    <2>1. Heard' = Heard /\ UNCHANGED <<speechStream, speechPieces, speechAt, speechTorn>>
      BY <1>3 DEF Heard, Speech!AskAnthropic, Speech!answer
    <2>2. SpeechTypes'
      BY <1>0, <1>3, <2>1 DEF SpeechTypes, Speech!AskAnthropic
    <2>3. ASSUME speechStream PROVE SpeechTold'
      <3>1. speechAt = 1 /\ speechStage' = "stream" /\ speechOut' = <<<<"role", 0>>>>
        BY <1>0, <1>3, <2>3 DEF SpeechTold, Speech!AskAnthropic
      <3>2. Heard = {}
        BY <3>1 DEF Heard
      <3>3. Texts(speechOut') = {} /\ ~Ended(speechOut')
        BY <3>1 DEF Texts, Ended
      <3>4. Upwards(speechOut', speechAt')
        BY <3>3 DEF Upwards
      <3> QED BY <2>1, <3>1, <3>2, <3>3, <3>4 DEF SpeechTold
    <2>4. ASSUME ~speechStream PROVE SpeechTold'
      BY <2>1, <2>4 DEF SpeechTold
    <2>5. speechStage' = "answer" => ~speechStream'
      BY <1>3, <2>1 DEF Speech!AskAnthropic
    <2> QED BY <2>2, <2>3, <2>4, <2>5 DEF SpeechInv
  <1>4. CASE Speech!AnswerWhole
    <2>1. ~speechStream /\ speechStage' = "closed"
          /\ UNCHANGED <<speechStream, speechPieces, speechAt, speechTorn>>
      BY <1>4 DEF SpeechInv, Speech!AnswerWhole, Speech!answer
    <2>2. speechOut' \in Seq(Speech!Outputs)
      <3> DEFINE t == [i \in 1..speechPieces |-> <<"text", i>>]
                 z == <<<<"finish", 0>>>>
      <3>1. speechPieces \in Nat /\ \A i \in 1..speechPieces : <<"text", i>> \in Speech!Outputs
        BY <1>0 DEF SpeechTypes, Speech!Outputs
      <3>2. t \in Seq(Speech!Outputs)
        BY <3>1, IsASeq
      <3>3. z \in Seq(Speech!Outputs)
        BY <1>0 DEF Speech!Outputs
      <3> HIDE DEF t, z
      <3>4. t \o z \in Seq(Speech!Outputs)
        BY <3>2, <3>3, ConcatProperties
      <3> QED BY <1>4, <3>4 DEF Speech!AnswerWhole, t, z
    <2> QED BY <1>0, <2>1, <2>2 DEF SpeechInv, SpeechTypes, SpeechTold
  <1>5. CASE Speech!NextLine
    <2> DEFINE a == speechAt
    <2>1. /\ speechStage = "stream" /\ a \in Nat \ {0} /\ a <= speechPieces + 2 /\ speechAt' = a + 1
          /\ speechPieces \in 0..SpeechMaxPieces /\ speechTorn \subseteq 1..a
          /\ UNCHANGED <<speechStage, speechStream, speechPieces, speechTorn>>
          /\ speechOut \in Seq(Speech!Outputs)
      BY <1>0, <1>5 DEF SpeechTypes, Speech!NextLine
    <2>2. Heard' = IF a \in speechTorn THEN Heard ELSE Heard \cup {a}
      BY <2>1 DEF Heard
    <2>3. ASSUME speechStream
          PROVE  /\ Upwards(speechOut, a)
                 /\ \A k \in Heard : k <= speechPieces => Says(speechOut, k)
                 /\ (\E k \in Heard : k > speechPieces) <=> Ended(speechOut)
      BY <1>0, <2>1, <2>3 DEF SpeechTold
    <2>4. CASE a \in speechTorn
      <3>1. speechOut' = speechOut
        <4>1. speechOut \o <<>> = speechOut
          BY <2>1, ConcatEmptySeq
        <4> QED BY <1>5, <2>4, <4>1 DEF Speech!NextLine, Speech!Transform
      <3>2. Upwards(speechOut, a) => Upwards(speechOut, a + 1)
        BY <2>1 DEF Upwards
      <3>3. SpeechTypes'
        BY <1>0, <2>1, <3>1 DEF SpeechTypes
      <3>4. SpeechTold'
        BY <2>1, <2>2, <2>3, <2>4, <3>1, <3>2 DEF SpeechTold
      <3> QED BY <2>1, <3>3, <3>4 DEF SpeechInv
    <2>5. CASE a \notin speechTorn /\ a <= speechPieces
      <3>1. WithText(speechOut, a, speechOut')
        BY <1>5, <2>5 DEF WithText, Speech!NextLine, Speech!Transform, Speech!Relayed
      <3>2. speechOut' \in Seq(Speech!Outputs)
        <4>1. <<<<"text", a>>>> \in Seq(Speech!Outputs)
          <5>1. <<"text", a>> \in Speech!Outputs
            BY <1>0, <2>1, <2>5 DEF Speech!Outputs
          <5> QED BY <5>1
        <4> QED BY <2>1, <3>1, <4>1, ListsJoin DEF WithText
      <3>3. SpeechTypes'
        BY <1>0, <2>1, <3>2 DEF SpeechTypes
      <3>4. ASSUME speechStream PROVE SpeechTold'
        <4>1. /\ Upwards(speechOut', a + 1)
              /\ Ended(speechOut') <=> Ended(speechOut)
              /\ \A x : Says(speechOut', x) <=> x = a \/ Says(speechOut, x)
          <5>1. a \in 1..SpeechMaxPieces
            BY <1>0, <2>1, <2>5
          <5>2. Upwards(speechOut, a) /\ speechOut \in Seq(Speech!Outputs) /\ SpeechMaxPieces \in Nat
            BY <1>0, <2>1, <2>3, <3>4
          <5> HIDE DEF a
          <5> QED BY <3>1, <5>1, <5>2, TextAdded
        <4>2. \A k \in Heard' : k <= speechPieces' => Says(speechOut', k)
          BY <2>1, <2>2, <2>3, <3>4, <4>1
        <4>3. (\E k \in Heard' : k > speechPieces') <=> Ended(speechOut')
          BY <2>1, <2>2, <2>3, <2>5, <3>4, <4>1
        <4>4. speechStage' = "stream"
          BY <2>1
        <4> QED BY <2>1, <4>1, <4>2, <4>3, <4>4 DEF SpeechTold
      <3> QED BY <2>1, <3>3, <3>4 DEF SpeechInv, SpeechTold
    <2>6. CASE a \notin speechTorn /\ a > speechPieces
      <3>1. WithEnd(speechOut, speechOut')
        <4>1. ~(a <= speechPieces)
          BY <2>1, <2>6
        <4> QED BY <1>5, <2>6, <4>1 DEF WithEnd, Speech!NextLine, Speech!Transform, Speech!Relayed
      <3>2. speechOut' \in Seq(Speech!Outputs)
        <4>1. <<<<"finish", 0>>, <<"done", 0>>>> \in Seq(Speech!Outputs)
          <5>1. <<"finish", 0>> \in Speech!Outputs /\ <<"done", 0>> \in Speech!Outputs
            BY <1>0 DEF Speech!Outputs
          <5> QED BY <5>1
        <4> QED BY <2>1, <3>1, <4>1, ListsJoin DEF WithEnd
      <3>3. SpeechTypes'
        BY <1>0, <2>1, <3>2 DEF SpeechTypes
      <3>4. ASSUME speechStream PROVE SpeechTold'
        <4>1. /\ Upwards(speechOut', a + 1) /\ Ended(speechOut')
              /\ \A x : Says(speechOut', x) <=> Says(speechOut, x)
          <5>1. a \in Nat
            BY <2>1
          <5>2. Upwards(speechOut, a) /\ speechOut \in Seq(Speech!Outputs) /\ SpeechMaxPieces \in Nat
            BY <1>0, <2>1, <2>3, <3>4
          <5> HIDE DEF a
          <5> QED BY <3>1, <5>1, <5>2, EndAdded
        <4>2. \A k \in Heard' : k <= speechPieces' => Says(speechOut', k)
          BY <2>1, <2>2, <2>3, <2>6, <3>4, <4>1
        <4>3. \E k \in Heard' : k > speechPieces'
          BY <2>1, <2>2, <2>6
        <4>4. speechStage' = "stream"
          BY <2>1
        <4> QED BY <2>1, <4>1, <4>2, <4>3, <4>4 DEF SpeechTold
      <3> QED BY <2>1, <3>3, <3>4 DEF SpeechInv, SpeechTold
    <2> QED BY <2>1, <2>4, <2>5, <2>6
  <1>6. CASE Speech!CutLine
    <2>1. /\ speechStage = "stream" /\ speechTorn' = speechTorn \cup {speechAt}
          /\ UNCHANGED <<speechStage, speechStream, speechPieces, speechAt, speechOut>>
      BY <1>6 DEF Speech!CutLine
    <2>2. Heard' = Heard
      BY <1>0, <2>1 DEF Heard, SpeechTypes
    <2>3. SpeechTypes'
      BY <1>0, <2>1 DEF SpeechTypes
    <2> QED BY <1>0, <2>1, <2>2, <2>3 DEF SpeechInv, SpeechTold
  <1>7. CASE Speech!Close
    <2>1. /\ speechStage = "stream" /\ speechStage' = "closed"
          /\ UNCHANGED <<speechStream, speechPieces, speechAt, speechTorn, speechOut>>
      BY <1>7 DEF Speech!Close, Speech!answer
    <2>2. Heard' = Heard
      BY <2>1 DEF Heard
    <2> QED BY <1>0, <2>1, <2>2 DEF SpeechInv, SpeechTypes, SpeechTold
  <1>8. CASE UNCHANGED speechVars
    <2>1. /\ Heard' = Heard
          /\ UNCHANGED <<speechStage, speechStream, speechPieces, speechAt, speechTorn, speechOut>>
      BY <1>8 DEF Heard, speechVars
    <2> QED BY <1>0, <2>1 DEF SpeechInv, SpeechTypes, SpeechTold
  <1> QED BY <1>1, <1>2, <1>3, <1>4, <1>5, <1>6, <1>7, <1>8 DEF Speech!Next

LEMMA SpeechInvHolds == SpeechInv => Speech!SpokenIsAnswered
  <1> SUFFICES ASSUME SpeechInv, speechStream, speechOut # <<<<"error", 0>>>>
               PROVE  /\ Upwards(speechOut, speechAt)
                      /\ \A k \in Heard : k <= speechPieces => Says(speechOut, k)
                      /\ (\E k \in Heard : k > speechPieces) <=> Ended(speechOut)
    <2>1. DOMAIN speechOut = 1..Len(speechOut)
      BY LenProperties DEF SpeechInv, SpeechTypes
    <2> QED BY <2>1 DEF Speech!SpokenIsAnswered, Upwards, Heard, Texts, Says, Ended, SpeechInv
  <1> QED BY DEF SpeechInv, SpeechTold

(* The windows of a contact's events keep the latest in the order they occurred, though   *)
(* they may arrive in another, and an answer is spoken as it was given, for windows and    *)
(* answers of any length (contact-inbox.ts:30-70, agent-session-do.ts:60-120, icrv-voice   *)
(* index.ts:602-646).                                                                      *)
THEOREM EventsStayInOrder == Spec => []InOrder
  <1>1. Init => MemoryInv /\ SpeechInv
    BY InitMemoryInv, InitSpeechInv DEF Init
  <1>2. MemoryInv /\ SpeechInv /\ [Next]_vars => (MemoryInv /\ SpeechInv)'
    BY StepOfPart, NextMemoryInv, NextSpeechInv
  <1>3. MemoryInv /\ SpeechInv => InOrder
    BY MemoryInvHolds, SpeechInvHolds DEF InOrder
  <1> QED BY <1>1, <1>2, <1>3, PTL DEF Spec
=============================================================================
