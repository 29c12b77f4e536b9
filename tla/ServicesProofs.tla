--------------------------- MODULE ServicesProofs ---------------------------
(* Proofs about Services, for any number of actors of each kind and any       *)
(* bounds: each of them from an inductive invariant of its own part, whose    *)
(* state only that part changes.                                              *)
EXTENDS InboxProofs

-----------------------------------------------------------------------------
(* Counters that are read and written later.  A request that is counting has  *)
(* seen less than the limit, and what it will put is behind the requests that *)
(* were or will be let through by no more than those that overlapped.         *)

Counted(w) == Cardinality(Limiter!Counting(w))

LimiterTypes ==
  /\ limiterWindow \in 1..LimiterWindows
  /\ limiterBucket \in [1..LimiterWindows -> Nat] /\ limiterAllowed \in [1..LimiterWindows -> Nat]
  /\ limiterOverlaps \in [1..LimiterWindows -> Nat]
  /\ limiterRequest \in [LimiterRequests -> {"new", "read", "allowed", "denied"}]
  /\ limiterIts \in [LimiterRequests -> 1..LimiterWindows]
  /\ limiterSeen \in [LimiterRequests -> Nat]

CountsBehind(w) ==
  /\ limiterAllowed[w] + Counted(w) <= LimiterLimit + limiterOverlaps[w]
  /\ limiterAllowed[w] + Counted(w) <=
       limiterBucket[w] + limiterOverlaps[w] + (IF Counted(w) = 0 THEN 0 ELSE 1)
  /\ \A r \in Limiter!Counting(w) :
       limiterAllowed[w] + Counted(w) <= limiterSeen[r] + 1 + limiterOverlaps[w]

LimiterInv == LimiterTypes /\ \A w \in 1..LimiterWindows : CountsBehind(w)

LEMMA CountingFinite ==
  ASSUME NEW w PROVE IsFiniteSet(Limiter!Counting(w)) /\ Counted(w) \in Nat
  <1>1. IsFiniteSet(Limiter!Counting(w))
    BY ServicesAssumption, FS_Subset DEF Limiter!Counting
  <1> QED BY <1>1, FS_CardinalityType DEF Counted

(* What a read leaves, with the counter of overlaps apart from the rest. *)
LEMMA ReadLeaves ==
  ASSUME NEW q \in LimiterRequests, Limiter!ReadBucket(q)
  PROVE  /\ limiterRequest[q] = "new"
         /\ UNCHANGED <<limiterWindow, limiterBucket, limiterAllowed>>
         /\ limiterIts' = [limiterIts EXCEPT ![q] = limiterWindow]
         /\ limiterSeen' = [limiterSeen EXCEPT ![q] = limiterBucket[limiterWindow]]
         /\ limiterRequest' = [limiterRequest EXCEPT
              ![q] = IF limiterBucket[limiterWindow] >= LimiterLimit THEN "denied" ELSE "read"]
  BY DEF Limiter!ReadBucket

(* The same, request by request. *)
LEMMA ReadChanges ==
  ASSUME LimiterTypes, NEW q \in LimiterRequests, Limiter!ReadBucket(q)
  PROVE  /\ limiterRequest'[q] = IF limiterBucket[limiterWindow] >= LimiterLimit THEN "denied" ELSE "read"
         /\ limiterIts'[q] = limiterWindow /\ limiterSeen'[q] = limiterBucket[limiterWindow]
         /\ \A r \in LimiterRequests \ {q} : /\ limiterRequest'[r] = limiterRequest[r]
                                             /\ limiterIts'[r] = limiterIts[r]
                                             /\ limiterSeen'[r] = limiterSeen[r]
  <1>1. limiterRequest'[q] = IF limiterBucket[limiterWindow] >= LimiterLimit THEN "denied" ELSE "read"
    BY ReadLeaves DEF LimiterTypes
  <1>2. limiterIts'[q] = limiterWindow
    BY ReadLeaves DEF LimiterTypes
  <1>3. limiterSeen'[q] = limiterBucket[limiterWindow]
    BY ReadLeaves DEF LimiterTypes
  <1>4. \A r \in LimiterRequests \ {q} : /\ limiterRequest'[r] = limiterRequest[r]
                                         /\ limiterIts'[r] = limiterIts[r]
    BY ReadLeaves DEF LimiterTypes
  <1>5. \A r \in LimiterRequests \ {q} : limiterSeen'[r] = limiterSeen[r]
    BY ReadLeaves DEF LimiterTypes
  <1> QED BY <1>1, <1>2, <1>3, <1>4, <1>5

LEMMA ReadOverlaps ==
  ASSUME LimiterTypes, NEW q \in LimiterRequests, Limiter!ReadBucket(q)
  PROVE  /\ limiterOverlaps' \in [1..LimiterWindows -> Nat]
         /\ \A w \in 1..LimiterWindows :
              limiterOverlaps'[w] = limiterOverlaps[w] +
                (IF w = limiterWindow /\ Limiter!Counting(w) # {} THEN 1 ELSE 0)
  <1>1. limiterWindow \in 1..LimiterWindows /\ limiterOverlaps \in [1..LimiterWindows -> Nat]
    BY DEF LimiterTypes
  <1>2. limiterOverlaps' = [limiterOverlaps EXCEPT ![limiterWindow] =
          IF Limiter!Counting(limiterWindow) # {} THEN @ + 1 ELSE @]
    BY DEF Limiter!ReadBucket
  <1>3. LimiterWindows \in Nat BY ServicesAssumption
  <1>4. CASE Limiter!Counting(limiterWindow) # {}
    <2>1. limiterOverlaps' = [limiterOverlaps EXCEPT ![limiterWindow] = @ + 1]
      BY <1>2, <1>4
    <2>2. limiterOverlaps' \in [1..LimiterWindows -> Nat]
      BY <2>1, <1>1, <1>3
    <2>3. \A w \in 1..LimiterWindows :
            limiterOverlaps'[w] = limiterOverlaps[w] + (IF w = limiterWindow THEN 1 ELSE 0)
      BY <2>1, <1>1, <1>3
    <2> QED BY <2>2, <2>3, <1>4 
  <1>5. CASE Limiter!Counting(limiterWindow) = {}
    <2>1. limiterOverlaps' = limiterOverlaps
      BY <1>1, <1>2, <1>5
    <2>2. \A w \in 1..LimiterWindows : limiterOverlaps[w] = limiterOverlaps[w] + 0
      BY <1>1
    <2> QED BY <1>1, <2>1, <2>2, <1>5
  <1> QED BY <1>4, <1>5

LEMMA LimiterRead ==
  ASSUME LimiterInv, NEW q \in LimiterRequests, Limiter!ReadBucket(q),
         NEW w \in 1..LimiterWindows
  PROVE  CountsBehind(w)'
  <1> LimiterWindows \in Nat /\ LimiterLimit \in Nat BY ServicesAssumption
  <1> LimiterTypes BY DEF LimiterInv
  <1> CountsBehind(w) BY DEF LimiterInv
  <1> DEFINE joins == w = limiterWindow /\ limiterBucket[w] < LimiterLimit
  <1>1. CASE joins
    <2>1. q \notin Limiter!Counting(w) /\ Limiter!Counting(w)' = Limiter!Counting(w) \cup {q}
      <3>1. limiterRequest[q] = "new"
        BY ReadLeaves
      <3>2. ~(limiterBucket[limiterWindow] >= LimiterLimit)
        BY <1>1 DEF LimiterTypes
      <3>3. limiterRequest'[q] = "read" /\ limiterIts'[q] = w
        BY <1>1, <3>2, ReadChanges
      <3> HIDE DEF LimiterTypes, joins
      <3> QED BY <3>1, <3>3, ReadChanges DEF Limiter!Counting
    <2>2. Counted(w)' = Counted(w) + 1
      BY <2>1, CountingFinite, FS_AddElement DEF Counted
    <2>3. Limiter!Counting(w) = {} <=> Counted(w) = 0
      BY CountingFinite, FS_EmptySet DEF Counted
    <2>4. limiterOverlaps'[w] = limiterOverlaps[w] + (IF Counted(w) = 0 THEN 0 ELSE 1)
      BY <1>1, <2>3, ReadOverlaps
    <2>5. limiterSeen'[q] = limiterBucket[w]
          /\ \A r \in Limiter!Counting(w) : limiterSeen'[r] = limiterSeen[r]
      <3>1. \A r \in Limiter!Counting(w) : r \in LimiterRequests \ {q}
        BY <2>1 DEF Limiter!Counting
      <3> QED BY <1>1, <3>1, ReadLeaves DEF LimiterTypes
    <2>6. limiterAllowed[w] \in Nat /\ limiterBucket[w] \in Nat /\ limiterOverlaps[w] \in Nat
          /\ \A r \in Limiter!Counting(w) : limiterSeen[r] \in Nat
      BY DEF LimiterTypes, Limiter!Counting
    <2>7. limiterAllowed'[w] = limiterAllowed[w] /\ limiterBucket'[w] = limiterBucket[w]
      BY ReadLeaves
    <2>8. Counted(w) \in Nat
      BY CountingFinite
    <2> HIDE DEF joins
    <2>9. limiterBucket[w] < LimiterLimit
      BY <1>1 DEF joins
    <2>10. \A r \in Limiter!Counting(w)' :
             limiterAllowed'[w] + Counted(w)' <= limiterSeen'[r] + 1 + limiterOverlaps'[w]
      <3> TAKE r \in Limiter!Counting(w)'
      <3>1. CASE r = q
        BY <3>1, <2>2, <2>4, <2>5, <2>6, <2>7, <2>8 DEF CountsBehind
      <3>2. CASE r # q
        <4>1. r \in Limiter!Counting(w) BY <2>1, <3>2
        <4>2. Counted(w) # 0 BY <4>1, <2>3
        <4> QED BY <4>1, <4>2, <2>2, <2>4, <2>5, <2>6, <2>7, <2>8 DEF CountsBehind
      <3> QED BY <3>1, <3>2
    <2> QED BY <2>2, <2>4, <2>6, <2>7, <2>8, <2>9, <2>10 DEF CountsBehind
  <1>2. CASE ~joins
    <2>1. Limiter!Counting(w)' = Limiter!Counting(w)
      <3>1. limiterRequest'[q] # "read" \/ limiterIts'[q] # w
        <4>1. w # limiterWindow \/ limiterBucket[limiterWindow] >= LimiterLimit
          BY <1>2 DEF LimiterTypes
        <4> QED BY <4>1, ReadChanges
      <3>2. limiterRequest[q] = "new"
        BY ReadLeaves
      <3> QED BY <3>1, <3>2, ReadChanges DEF Limiter!Counting
    <2>2. Counted(w)' = Counted(w)
      BY <2>1 DEF Counted
    <2>3. limiterOverlaps'[w] \in Nat /\ limiterOverlaps'[w] >= limiterOverlaps[w]
      <3>1. limiterOverlaps[w] \in Nat BY DEF LimiterTypes
      <3>2. limiterOverlaps'[w] = limiterOverlaps[w] \/ limiterOverlaps'[w] = limiterOverlaps[w] + 1
        BY ReadOverlaps, <3>1
      <3> QED BY <3>1, <3>2
    <2>4. \A r \in Limiter!Counting(w) : limiterSeen'[r] = limiterSeen[r]
      BY ReadLeaves DEF LimiterTypes, Limiter!Counting
    <2>5. limiterAllowed[w] \in Nat /\ limiterBucket[w] \in Nat /\ limiterOverlaps[w] \in Nat
          /\ \A r \in Limiter!Counting(w) : limiterSeen[r] \in Nat
      BY DEF LimiterTypes, Limiter!Counting
    <2>6. limiterAllowed'[w] = limiterAllowed[w] /\ limiterBucket'[w] = limiterBucket[w]
      BY ReadLeaves
    <2> QED BY <2>1, <2>2, <2>3, <2>4, <2>5, <2>6, CountingFinite DEF CountsBehind
  <1> QED BY <1>1, <1>2

LEMMA LimiterPut ==
  ASSUME LimiterInv, NEW q \in LimiterRequests, Limiter!PutBucket(q),
         NEW w \in 1..LimiterWindows
  PROVE  CountsBehind(w)'
  <1> LimiterTypes /\ CountsBehind(w) BY DEF LimiterInv
  <1> LimiterWindows \in Nat /\ LimiterLimit \in Nat BY ServicesAssumption
  <1>0. /\ limiterAllowed[w] \in Nat /\ limiterBucket[w] \in Nat
        /\ limiterOverlaps[w] \in Nat /\ Counted(w) \in Nat
        /\ \A r \in Limiter!Counting(w) : limiterSeen[r] \in Nat
    BY CountingFinite DEF LimiterTypes, Limiter!Counting
  <1>1. CASE w = limiterIts[q]
    <2>1. q \in Limiter!Counting(w) /\ Limiter!Counting(w)' = Limiter!Counting(w) \ {q}
      BY <1>1 DEF Limiter!Counting, Limiter!PutBucket, LimiterTypes
    <2>2. Counted(w)' = Counted(w) - 1
      BY <2>1, CountingFinite, FS_RemoveElement DEF Counted
    <2>3. limiterBucket'[w] = limiterSeen[q] + 1 /\ limiterAllowed'[w] = limiterAllowed[w] + 1
          /\ limiterOverlaps' = limiterOverlaps /\ limiterSeen' = limiterSeen
      BY <1>1 DEF Limiter!PutBucket, LimiterTypes
    <2>4. limiterAllowed'[w] + Counted(w)' = limiterAllowed[w] + Counted(w)
      BY <2>2, <2>3, <1>0
    <2>5. limiterAllowed[w] + Counted(w) <= limiterSeen[q] + 1 + limiterOverlaps[w]
      BY <2>1 DEF CountsBehind
    <2>6. limiterAllowed'[w] + Counted(w)' <=
            limiterBucket'[w] + limiterOverlaps'[w] + (IF Counted(w)' = 0 THEN 0 ELSE 1)
      BY <2>1, <2>3, <2>4, <2>5, <1>0
    <2>7. \A r \in Limiter!Counting(w)' :
            limiterAllowed'[w] + Counted(w)' <= limiterSeen'[r] + 1 + limiterOverlaps'[w]
      BY <2>1, <2>3, <2>4 DEF CountsBehind
    <2>8. limiterAllowed'[w] + Counted(w)' <= LimiterLimit + limiterOverlaps'[w]
      BY <2>3, <2>4 DEF CountsBehind
    <2> QED BY <2>6, <2>7, <2>8 DEF CountsBehind
  <1>2. CASE w # limiterIts[q]
    <2>1. Limiter!Counting(w)' = Limiter!Counting(w)
      BY <1>2 DEF Limiter!Counting, Limiter!PutBucket, LimiterTypes
    <2>2. Counted(w)' = Counted(w)
      BY <2>1 DEF Counted
    <2>3. limiterBucket'[w] = limiterBucket[w] /\ limiterAllowed'[w] = limiterAllowed[w]
          /\ limiterOverlaps' = limiterOverlaps /\ limiterSeen' = limiterSeen
      BY <1>2 DEF Limiter!PutBucket, LimiterTypes
    <2> QED BY <2>1, <2>2, <2>3 DEF CountsBehind
  <1> QED BY <1>1, <1>2

LEMMA NextLimiterInv == LimiterInv /\ [Next]_vars => LimiterInv'
  <1> SUFFICES ASSUME LimiterInv, [Next]_vars PROVE LimiterInv'
    OBVIOUS
  <1> LimiterTypes BY DEF LimiterInv
  <1> LimiterWindows \in Nat /\ LimiterLimit \in Nat BY ServicesAssumption
  <1>1. ASSUME NEW q \in LimiterRequests, Limiter!ReadBucket(q) PROVE LimiterInv'
    <2>1. LimiterTypes'
      <3>1. limiterBucket[limiterWindow] \in Nat
        BY DEF LimiterTypes
      <3>2. limiterOverlaps' \in [1..LimiterWindows -> Nat]
        BY <1>1, ReadOverlaps
      <3>3. limiterRequest' \in [LimiterRequests -> {"new", "read", "allowed", "denied"}]
        BY <1>1, ReadLeaves DEF LimiterTypes
      <3>4. limiterIts' \in [LimiterRequests -> 1..LimiterWindows]
        BY <1>1, ReadLeaves DEF LimiterTypes
      <3>5. limiterSeen' \in [LimiterRequests -> Nat]
        BY <1>1, <3>1, ReadLeaves DEF LimiterTypes
      <3>6. UNCHANGED <<limiterWindow, limiterBucket, limiterAllowed>>
        BY <1>1, ReadLeaves
      <3> QED BY <3>2, <3>3, <3>4, <3>5, <3>6 DEF LimiterTypes
    <2>2. \A w \in 1..LimiterWindows : CountsBehind(w)' BY <1>1, LimiterRead
    <2> QED BY <2>1, <2>2 DEF LimiterInv
  <1>2. ASSUME NEW q \in LimiterRequests, Limiter!PutBucket(q) PROVE LimiterInv'
    <2>1. LimiterTypes'
      <3>1. /\ limiterIts[q] \in 1..LimiterWindows /\ limiterSeen[q] + 1 \in Nat
            /\ limiterAllowed[limiterIts[q]] + 1 \in Nat
        BY DEF LimiterTypes
      <3>2. limiterBucket' \in [1..LimiterWindows -> Nat]
        BY <1>2, <3>1 DEF LimiterTypes, Limiter!PutBucket
      <3>3. limiterAllowed' \in [1..LimiterWindows -> Nat]
        BY <1>2, <3>1 DEF LimiterTypes, Limiter!PutBucket
      <3>4. limiterRequest' \in [LimiterRequests -> {"new", "read", "allowed", "denied"}]
        BY <1>2 DEF LimiterTypes, Limiter!PutBucket
      <3>5. UNCHANGED <<limiterWindow, limiterIts, limiterSeen, limiterOverlaps>>
        BY <1>2 DEF Limiter!PutBucket
      <3> QED BY <3>2, <3>3, <3>4, <3>5 DEF LimiterTypes
    <2>2. \A w \in 1..LimiterWindows : CountsBehind(w)' BY <1>2, LimiterPut
    <2> QED BY <2>1, <2>2 DEF LimiterInv
  <1>3. CASE Limiter!WindowEnds \/ UNCHANGED limiterVars
    <2>2. UNCHANGED <<limiterBucket, limiterRequest, limiterIts, limiterSeen,
                      limiterAllowed, limiterOverlaps>>
      BY <1>3 DEF Limiter!WindowEnds, limiterVars
    <2>1. LimiterTypes'
      <3>1. limiterWindow' \in 1..LimiterWindows
        <4>1. limiterWindow \in 1..LimiterWindows
          BY DEF LimiterTypes
        <4>2. CASE Limiter!WindowEnds
          BY <4>1, <4>2 DEF Limiter!WindowEnds
        <4>3. CASE UNCHANGED limiterVars
          BY <4>1, <4>3 DEF limiterVars
        <4> QED BY <1>3, <4>2, <4>3
      <3> QED BY <2>2, <3>1 DEF LimiterTypes
    <2>3. \A w : Limiter!Counting(w)' = Limiter!Counting(w)
      BY <2>2 DEF Limiter!Counting
    <2>4. \A w : Counted(w)' = Counted(w)
      BY <2>3 DEF Counted
    <2>5. \A w \in 1..LimiterWindows : CountsBehind(w)'
      BY <2>2, <2>3, <2>4 DEF CountsBehind, LimiterInv
    <2> QED BY <2>1, <2>5 DEF LimiterInv
  <1> QED BY <1>1, <1>2, <1>3, StepOfPart DEF Limiter!Next

LEMMA InitLimiterInv == Init => LimiterInv
  <1> SUFFICES ASSUME Limiter!Init PROVE LimiterInv
    BY DEF Init
  <1> LimiterWindows \in Nat \ {0} /\ LimiterLimit \in Nat BY ServicesAssumption
  <1>1. LimiterTypes BY DEF LimiterTypes, Limiter!Init
  <1>2. \A w : Limiter!Counting(w) = {} BY DEF Limiter!Counting, Limiter!Init
  <1>3. \A w : Counted(w) = 0 BY <1>2, FS_EmptySet DEF Counted
  <1>4. \A w \in 1..LimiterWindows : CountsBehind(w)
    BY <1>2, <1>3 DEF CountsBehind, Limiter!Init
  <1> QED BY <1>1, <1>4 DEF LimiterInv

-----------------------------------------------------------------------------
(* Runs between the policy gate and their send: they and what was sent today  *)
(* are no more than the cap leaves to the one that passed last and the others. *)

GateInv ==
  /\ gateSent \in Nat /\ gateAllowed \subseteq GateRuns
  /\ gateSent + Cardinality(gateAllowed) <= GateCap - 1 + Cardinality(GateRuns)

LEMMA RunsFinite ==
  /\ Cardinality(GateRuns) \in Nat
  /\ \A S \in SUBSET GateRuns : /\ IsFiniteSet(S)
                                /\ Cardinality(S) \in Nat
                                /\ Cardinality(S) <= Cardinality(GateRuns)
  BY ServicesAssumption, FS_Subset, FS_CardinalityType

LEMMA InitGateInv == Init => GateInv
  <1> SUFFICES ASSUME Gate!Init PROVE GateInv
    BY DEF Init
  <1>1. gateSent = 0 /\ gateAllowed = {}
    BY DEF Gate!Init
  <1>2. Cardinality({}) = 0
    BY FS_EmptySet
  <1> QED BY <1>1, <1>2, RunsFinite, ServicesAssumption DEF GateInv

LEMMA NextGateInv == GateInv /\ [Next]_vars => GateInv'
  <1> SUFFICES ASSUME GateInv, [Next]_vars PROVE GateInv'
    OBVIOUS
  <1>0. GateCap \in Nat \ {0}
    BY ServicesAssumption
  <1>1. gateSent \in Nat /\ gateAllowed \in SUBSET GateRuns
        /\ gateSent + Cardinality(gateAllowed) <= GateCap - 1 + Cardinality(GateRuns)
    BY DEF GateInv
  <1>2. ASSUME NEW r \in GateRuns, Gate!Allow(r) PROVE GateInv'
    <2>1. gateSent' = gateSent /\ gateSent < GateCap /\ gateAllowed' \in SUBSET GateRuns
      BY <1>1, <1>2 DEF Gate!Allow
    <2> QED BY <1>0, <1>1, <2>1, RunsFinite DEF GateInv
  <1>3. ASSUME NEW r \in GateRuns, Gate!Send(r) PROVE GateInv'
    <2>1. gateSent' = gateSent + 1 /\ r \in gateAllowed /\ gateAllowed' = gateAllowed \ {r}
      BY <1>3 DEF Gate!Send
    <2>2. Cardinality(gateAllowed \ {r}) = Cardinality(gateAllowed) - 1
      BY <1>1, <2>1, RunsFinite, FS_RemoveElement
    <2>3. Cardinality(gateAllowed) \in Nat
      BY <1>1, RunsFinite
    <2> QED BY <1>0, <1>1, <2>1, <2>2, <2>3, RunsFinite DEF GateInv
  <1>4. ASSUME NEW r \in GateRuns, Gate!Restart(r) PROVE GateInv'
    <2>1. gateSent' = gateSent /\ gateAllowed' = gateAllowed \ {r}
      BY <1>4 DEF Gate!Restart
    <2>2. Cardinality(gateAllowed \ {r}) <= Cardinality(gateAllowed)
      BY <1>1, RunsFinite, FS_Subset
    <2>3. Cardinality(gateAllowed) \in Nat /\ Cardinality(gateAllowed \ {r}) \in Nat
      BY <1>1, RunsFinite
    <2> QED BY <1>0, <1>1, <2>1, <2>2, <2>3, RunsFinite DEF GateInv
  <1>5. CASE Gate!Tick
    <2>1. gateAllowed' = gateAllowed /\ gateSent' \in {0, gateSent}
      BY <1>5 DEF Gate!Tick
    <2>2. Cardinality(gateAllowed) \in Nat
          /\ Cardinality(gateAllowed) <= Cardinality(GateRuns)
      BY <1>1, RunsFinite
    <2> QED BY <1>0, <1>1, <2>1, <2>2, RunsFinite DEF GateInv
  <1>6. ASSUME gateSent' = gateSent, gateAllowed' = gateAllowed PROVE GateInv'
    BY <1>6 DEF GateInv
  <1> QED BY <1>2, <1>3, <1>4, <1>5, <1>6, StepOfPart
          DEF Gate!Next, Gate!DeferQuiet, Gate!DeferCapped, Gate!SetWindow, gateVars

(* Counters that are read, and written later, let through at most one request *)
(* too many for each that overlapped, one message too many for each other run *)
(* at work, and one e-mail too many for each other worker at its send: for    *)
(* any limits, requests, windows, runs and jobs (rate-limit.ts:39-63,         *)
(* context-loader.ts:265-270, policy-gate.ts:189, icrv-email index.ts:97).    *)
THEOREM OvershootIsBounded == Spec => []OvershootBounded
  <1>1. LimiterInv /\ GateInv /\ MailInv => OvershootBounded
    <2> SUFFICES ASSUME LimiterInv, GateInv, MailInv PROVE OvershootBounded
      OBVIOUS
    <2>1. Limiter!LimitOvershootBounded
      <3> SUFFICES ASSUME NEW w \in 1..LimiterWindows
                   PROVE  limiterAllowed[w] <= LimiterLimit + limiterOverlaps[w]
        BY DEF Limiter!LimitOvershootBounded
      <3>1. limiterAllowed[w] \in Nat /\ limiterOverlaps[w] \in Nat
            /\ limiterAllowed[w] + Counted(w) <= LimiterLimit + limiterOverlaps[w]
        BY DEF LimiterInv, LimiterTypes, CountsBehind
      <3> QED BY <3>1, CountingFinite, ServicesAssumption
    <2>2. Gate!CapOvershootBounded
      <3>1. Cardinality(gateAllowed) \in Nat /\ gateSent \in Nat
            /\ gateSent + Cardinality(gateAllowed) <= GateCap - 1 + Cardinality(GateRuns)
        BY RunsFinite DEF GateInv
      <3>2. GateCap \in Nat /\ Cardinality(GateRuns) \in Nat
        BY RunsFinite, ServicesAssumption
      <3>3. gateSent <= GateCap - 1 + Cardinality(GateRuns)
        BY <3>1, <3>2
      <3>4. Gate!Cardinality(GateRuns) = Cardinality(GateRuns)
        BY DEF Gate!Cardinality, Cardinality
      <3> QED BY <3>3, <3>4 DEF Gate!CapOvershootBounded
    <2> QED BY <2>1, <2>2, MailWithinLimit DEF OvershootBounded
  <1>2. Init => MailInv
    BY InitMailInv DEF Init
  <1>3. MailInv /\ [Next]_vars => MailInv'
    BY StepOfPart, NextMailInv
  <1> QED BY <1>1, <1>2, <1>3, InitLimiterInv, NextLimiterInv, InitGateInv, NextGateInv, PTL
          DEF Spec

-----------------------------------------------------------------------------
(* Bulk actions: what is ticked is what the operator's clicks meant, and what *)
(* a request is left to hit was ticked when it was sent, or all was selected. *)

BulkLoads    == [query : Bulk!Queries, page : Int]
BulkRequests ==
  [at : {"idle", "sent", "applying"}, deletes : BOOLEAN, ids : SUBSET BulkPeople,
   query : Bulk!Queries, meant : SUBSET BulkPeople, meantAll : BOOLEAN,
   left : SUBSET BulkPeople]

BulkTypes ==
  /\ bulkExists \subseteq BulkPeople
  /\ bulkShown \subseteq BulkPeople /\ bulkTicked \subseteq BulkPeople
  /\ bulkQuery \in Bulk!Queries /\ bulkAll \in BOOLEAN
  /\ bulkLoads \subseteq BulkLoads /\ bulkPage \in Int
  /\ bulkRequest \in BulkRequests

BulkInv ==
  /\ BulkTypes
  /\ bulkMeant = bulkTicked /\ bulkMeantAll = bulkAll
  /\ bulkRequest.at = "sent" =>
       bulkRequest.meantAll \/ (bulkRequest.ids = bulkRequest.meant /\ bulkRequest.ids # {})
  /\ bulkRequest.at = "applying" =>
       bulkRequest.meantAll \/ bulkRequest.left \subseteq bulkRequest.meant
  /\ bulkStrays = {}

LEMMA InitBulkInv == Init => BulkInv
  <1> SUFFICES ASSUME Bulk!Init PROVE BulkInv
    BY DEF Init
  <1>1. [query |-> "any", page |-> 1] \in BulkLoads
    BY DEF BulkLoads, Bulk!Queries
  <1>2. Bulk!Idle \in BulkRequests /\ Bulk!Idle.at = "idle"
    BY DEF BulkRequests, Bulk!Idle, Bulk!Queries
  <1>3. bulkLoads \subseteq BulkLoads
    BY <1>1 DEF Bulk!Init
  <1>4. bulkRequest \in BulkRequests /\ bulkRequest.at = "idle"
    BY <1>2 DEF Bulk!Init
  <1>5. bulkExists \subseteq BulkPeople /\ bulkPage \in Int /\ bulkQuery \in Bulk!Queries
    BY DEF Bulk!Init, Bulk!Queries
  <1>6. bulkMeantAll = bulkAll /\ bulkAll \in BOOLEAN
    BY DEF Bulk!Init
  <1> QED BY <1>3, <1>4, <1>5, <1>6 DEF Bulk!Init, BulkInv, BulkTypes

LEMMA NextBulkInv == BulkInv /\ [Next]_vars => BulkInv'
  <1> SUFFICES ASSUME BulkInv, [Next]_vars PROVE BulkInv'
    OBVIOUS
  <1> USE DEF BulkInv, BulkTypes
  <1>1. \A q \in Bulk!Queries : Bulk!Matching(q) \subseteq BulkPeople
    BY DEF Bulk!Queries, Bulk!Matching
  <1>2. ASSUME NEW l \in bulkLoads, Bulk!Loaded(l) PROVE BulkInv'
    <2>1. bulkShown' \subseteq BulkPeople
      <3>1. l.query \in Bulk!Queries
        BY DEF BulkLoads
      <3>2. Bulk!Rows(l.query, l.page) \subseteq Bulk!Matching(l.query)
        BY DEF Bulk!Rows
      <3> QED BY <1>1, <1>2, <3>1, <3>2 DEF Bulk!Loaded
    <2> QED BY <1>2, <2>1 DEF Bulk!Loaded
  <1>3. ASSUME NEW l \in bulkLoads, Bulk!LoadFails(l) PROVE BulkInv'
    BY <1>3 DEF Bulk!LoadFails
  <1>4. ASSUME NEW q \in Bulk!Queries, Bulk!SetQuery(q) PROVE BulkInv'
    <2>1. [query |-> q, page |-> 1] \in BulkLoads
      BY DEF BulkLoads
    <2>2. bulkLoads' \subseteq BulkLoads
      BY <1>4, <2>1 DEF Bulk!SetQuery
    <2>3. bulkMeantAll' = bulkAll' /\ bulkAll' \in BOOLEAN
      BY <1>4 DEF Bulk!SetQuery
    <2> QED BY <1>4, <2>2, <2>3 DEF Bulk!SetQuery
  <1>5. ASSUME NEW p \in Int, Bulk!TurnPage(p) PROVE BulkInv'
    <2>1. [query |-> bulkQuery, page |-> p] \in BulkLoads
      BY DEF BulkLoads
    <2> QED BY <1>5, <2>1 DEF Bulk!TurnPage
  <1>6. CASE Bulk!TogglePage
    BY <1>6 DEF Bulk!TogglePage
  <1>7. CASE Bulk!SelectAllMatching
    BY <1>7 DEF Bulk!SelectAllMatching
  <1>8. ASSUME NEW deletes \in BOOLEAN, Bulk!RunBulk(deletes) PROVE BulkInv'
    <2>1. bulkAll \/ bulkTicked # {}
      <3>1. bulkAll \/ Bulk!Cardinality(bulkTicked) > 0
        BY <1>8 DEF Bulk!RunBulk, Bulk!Count
      <3>2. Bulk!Cardinality({}) = 0
        BY FS_EmptySet DEF Bulk!Cardinality, Cardinality
      <3> QED BY <3>1, <3>2
    <2> QED BY <1>8, <2>1 DEF Bulk!RunBulk, Bulk!Asks, Bulk!page_vars, Bulk!Queries, BulkRequests
  <1>9. CASE Bulk!Resolve
    BY <1>1, <1>9 DEF Bulk!Resolve, Bulk!page_vars, BulkRequests
  <1>10. CASE Bulk!Answered
    <2>1. [query |-> bulkQuery, page |-> bulkPage] \in BulkLoads
      BY DEF BulkLoads
    <2>2. Bulk!Idle \in BulkRequests /\ Bulk!Idle.at = "idle"
      BY DEF BulkRequests, Bulk!Idle, Bulk!Queries
    <2> QED BY <1>10, <2>1, <2>2 DEF Bulk!Answered
  <1>11. CASE Bulk!RequestFails
    BY <1>11 DEF Bulk!RequestFails, Bulk!Idle, Bulk!Queries, Bulk!page_vars, BulkRequests
  <1>12. ASSUME NEW c \in BulkPeople, Bulk!ToggleRow(c) PROVE BulkInv'
    BY <1>12 DEF Bulk!ToggleRow, Bulk!Flip
  <1>13. ASSUME NEW c \in BulkPeople, Bulk!Apply(c) PROVE BulkInv'
    <2>1. Bulk!Picked(c)
      BY <1>13 DEF Bulk!Apply, Bulk!Picked
    <2> QED BY <1>13, <2>1 DEF Bulk!Apply, Bulk!page_vars, BulkRequests
  <1>14. ASSUME NEW c \in BulkPeople, Bulk!Join(c) \/ Bulk!Respond(c) PROVE BulkInv'
    BY <1>14 DEF Bulk!Join, Bulk!Respond, Bulk!page_vars
  <1>15. CASE UNCHANGED bulkVars
    BY <1>15 DEF bulkVars
  <1>16. bulkPage + 1 \in Int /\ bulkPage - 1 \in Int
    OBVIOUS
  <1> HIDE DEF BulkInv, BulkTypes
  <1> QED BY <1>2, <1>3, <1>4, <1>5, <1>6, <1>7, <1>8, <1>9, <1>10, <1>11, <1>12, <1>13,
             <1>14, <1>15, <1>16, StepOfPart DEF Bulk!Next

(* A bulk action hits only contacts the operator picked, whatever answers     *)
(* come late and contacts come and go meanwhile, though the server takes an   *)
(* empty list of ids for every contact (Contacts.tsx:568-640).                *)
THEOREM OnlyThePickedAreHit == Spec => []OnlyPickedAreHit
  <1>1. BulkInv => OnlyPickedAreHit
    BY DEF BulkInv, OnlyPickedAreHit, Bulk!OnlyPickedAreHit
  <1> QED BY <1>1, InitBulkInv, NextBulkInv, PTL DEF Spec

-----------------------------------------------------------------------------
(* The desks.  What a desk was told is no newer than the row, and as new only *)
(* if it is the row; a desk that has written last and was not misled has the  *)
(* switch of the row in its draft, or in the request it waits for.            *)

DeskRows == [there : BOOLEAN, kill : BOOLEAN, version : Int]

DeskTypes ==
  /\ deskRow \in DeskRows
  /\ deskRow.kill => deskRow.there
  /\ deskView \in [DeskDesks -> DeskRows]
  /\ deskPolls \in [DeskDesks -> SUBSET DeskRows]
  /\ deskDraft \in [DeskDesks -> BOOLEAN]
  /\ deskRequest \in [DeskDesks -> [at : {"idle", "sent", "handled"}, op : Desk!Ops,
                                    kill : BOOLEAN]]
  /\ deskWrote \in [DeskDesks -> Int]

ToldBefore(r) == r.version < deskRow.version \/ r = deskRow

DeskHolds(d) ==
  /\ ToldBefore(deskView[d]) /\ \A r \in deskPolls[d] : ToldBefore(r)
  /\ deskOwner = d => deskWrote[d] = deskRow.version
  /\ deskRequest[d].at # "idle" /\ deskRequest[d].op = "save" /\ d \notin deskMisled =>
       deskRequest[d].kill = deskDraft[d]
  /\ deskOwner = d /\ deskRow.kill /\ d \notin deskMisled =>
       \/ deskDraft[d]
       \/ deskRequest[d].at = "handled" /\ deskRequest[d].op = "activate"
  /\ deskOwner = d /\ deskRow.kill /\ deskRequest[d].at = "handled" =>
       deskRequest[d].op # "deactivate"

DeskInv == DeskTypes /\ \A d \in DeskDesks : DeskHolds(d)

LEMMA InitDeskInv == Init => DeskInv
  <1> SUFFICES ASSUME Desk!Init PROVE DeskInv
    BY DEF Init
  <1>1. deskRow \in DeskRows /\ deskRow.version = 0 /\ ~deskRow.kill
    <2>1. deskRow = [there |-> FALSE, kill |-> FALSE, version |-> 0]
          \/ deskRow = [there |-> TRUE, kill |-> FALSE, version |-> 0]
      BY DEF Desk!Init, Desk!Missing
    <2>2. CASE deskRow = [there |-> FALSE, kill |-> FALSE, version |-> 0]
      <3>1. deskRow \in DeskRows /\ deskRow.version = 0 BY <2>2 DEF DeskRows
      <3>2. deskRow.kill = FALSE BY <2>2
      <3> QED BY <3>1, <3>2
    <2>3. CASE deskRow = [there |-> TRUE, kill |-> FALSE, version |-> 0]
      <3>1. deskRow \in DeskRows /\ deskRow.version = 0 BY <2>3 DEF DeskRows
      <3>2. deskRow.kill = FALSE BY <2>3
      <3> QED BY <3>1, <3>2
    <2> QED BY <2>1, <2>2, <2>3
  <1>2. Desk!Unknown \in DeskRows /\ Desk!Unknown.version = -1
    BY DEF Desk!Unknown, DeskRows
  <1>3. Desk!Idle.at = "idle" /\ Desk!Idle \in [at : {"idle", "sent", "handled"},
                                                op : Desk!Ops, kill : BOOLEAN]
    BY DEF Desk!Idle, Desk!Ops
  <1>4. DeskTypes
    BY <1>1, <1>2, <1>3 DEF Desk!Init, DeskTypes
  <1>5. \A d \in DeskDesks : DeskHolds(d)
    <2> SUFFICES ASSUME NEW d \in DeskDesks PROVE DeskHolds(d)
      OBVIOUS
    <2>1. deskView[d] = Desk!Unknown /\ deskPolls[d] = {deskRow} /\ deskRequest[d] = Desk!Idle
          /\ deskWrote[d] = 0
      BY DEF Desk!Init
    <2> QED BY <1>1, <1>2, <1>3, <2>1 DEF DeskHolds, ToldBefore
  <1> QED BY <1>4, <1>5 DEF DeskInv

DeskKeeps(e) ==
  /\ deskView'[e] = deskView[e] /\ deskPolls'[e] = deskPolls[e]
  /\ deskDraft'[e] = deskDraft[e] /\ deskRequest'[e] = deskRequest[e]
  /\ deskWrote'[e] = deskWrote[e] /\ (e \in deskMisled' <=> e \in deskMisled)

LEMMA DeskUndisturbed ==
  ASSUME DeskInv, NEW e \in DeskDesks, DeskKeeps(e), UNCHANGED <<deskRow, deskOwner>>
  PROVE  DeskHolds(e)'
  BY DEF DeskInv, DeskHolds, DeskKeeps, ToldBefore

LEMMA DeskOutdated ==
  ASSUME DeskInv, NEW e \in DeskDesks, DeskKeeps(e), deskOwner' # e,
         deskRow'.version = deskRow.version + 1
  PROVE  DeskHolds(e)'
  <1>1. \A r \in DeskRows : ToldBefore(r) => r.version < deskRow'.version
    <2> TAKE r \in DeskRows
    <2>1. r.version \in Int /\ deskRow.version \in Int
      BY DEF DeskInv, DeskTypes, DeskRows
    <2> QED BY <2>1 DEF ToldBefore
  <1>2. deskView[e] \in DeskRows /\ deskPolls[e] \subseteq DeskRows
    BY DEF DeskInv, DeskTypes
  <1>3. ToldBefore(deskView[e])' /\ \A r \in deskPolls'[e] : ToldBefore(r)'
    BY <1>1, <1>2 DEF DeskInv, DeskHolds, DeskKeeps, ToldBefore
  <1> QED BY <1>3 DEF DeskInv, DeskHolds, DeskKeeps

(* Answers under way after a step of desk d that may ask for one. *)
PollsFrom(d) ==
  /\ deskPolls' \in [DeskDesks -> SUBSET DeskRows]
  /\ \A e \in DeskDesks \ {d} : deskPolls'[e] = deskPolls[e]
  /\ \A r \in deskPolls'[d] : r \in deskPolls[d] \cup {deskRow}

LEMMA AskedPolls ==
  ASSUME DeskInv, NEW d \in DeskDesks, deskPolls' = Desk!Asked(d)
  PROVE  PollsFrom(d)
  <1>1. deskPolls \in [DeskDesks -> SUBSET DeskRows] /\ deskRow \in DeskRows
    BY DEF DeskInv, DeskTypes
  <1> DEFINE full == ~(Desk!Cardinality(deskPolls[d]) < DeskMaxInFlight)
  <1>2. CASE full
    <2>1. deskPolls' = [deskPolls EXCEPT ![d] = @] BY <1>2 DEF Desk!Asked
    <2> QED BY <1>1, <2>1 DEF PollsFrom
  <1>3. CASE ~full
    <2>1. deskPolls' = [deskPolls EXCEPT ![d] = @ \cup {deskRow}] BY <1>3 DEF Desk!Asked
    <2> QED BY <1>1, <2>1 DEF PollsFrom
  <1> QED BY <1>2, <1>3

LEMMA AnsweredPolls ==
  ASSUME DeskInv, NEW d \in DeskDesks, NEW r,
         deskPolls' = [deskPolls EXCEPT ![d] = @ \ {r}]
  PROVE  PollsFrom(d)
  BY DEF DeskInv, DeskTypes, PollsFrom

(* A step of desk d that leaves the row and its writer alone. *)
LEMMA DeskStepHolds ==
  ASSUME DeskInv, NEW d \in DeskDesks, DeskTypes', UNCHANGED <<deskRow, deskOwner, deskWrote>>,
         PollsFrom(d), ToldBefore(deskView'[d]),
         \A e \in DeskDesks \ {d} :
           /\ deskView'[e] = deskView[e] /\ deskDraft'[e] = deskDraft[e]
           /\ deskRequest'[e] = deskRequest[e] /\ (e \in deskMisled' <=> e \in deskMisled),
         /\ deskRequest'[d].at # "idle" /\ deskRequest'[d].op = "save" /\ d \notin deskMisled' =>
              deskRequest'[d].kill = deskDraft'[d]
         /\ deskOwner = d /\ deskRow.kill /\ d \notin deskMisled' =>
              \/ deskDraft'[d]
              \/ deskRequest'[d].at = "handled" /\ deskRequest'[d].op = "activate"
         /\ deskOwner = d /\ deskRow.kill /\ deskRequest'[d].at = "handled" =>
              deskRequest'[d].op # "deactivate"
  PROVE  DeskInv'
  <1>1. \A e \in DeskDesks \ {d} : DeskHolds(e)'
    BY DeskUndisturbed DEF DeskKeeps, PollsFrom
  <1>2. ToldBefore(deskView[d])'
    BY DEF ToldBefore
  <1>3. \A r \in deskPolls'[d] : ToldBefore(r)'
    BY DEF PollsFrom, DeskInv, DeskHolds, ToldBefore
  <1>4. DeskHolds(d)'
    BY <1>2, <1>3 DEF DeskInv, DeskHolds
  <1> QED BY <1>1, <1>4 DEF DeskInv

LEMMA DeskReads ==
  ASSUME DeskInv, NEW d \in DeskDesks,
         \/ Desk!Poll(d) \/ (\E r \in deskPolls[d] : Desk!Told(d, r) \/ Desk!PollFails(d, r))
         \/ Desk!Reset(d)
  PROVE  DeskInv'
  <1> DeskTypes /\ DeskHolds(d)
    BY DEF DeskInv
  <1>1. CASE Desk!Poll(d)
    <2>1. PollsFrom(d)
      BY <1>1, AskedPolls DEF Desk!Poll
    <2>2. DeskTypes'
      BY <1>1, <2>1 DEF Desk!Poll, DeskTypes, PollsFrom
    <2> QED BY <1>1, <2>1, <2>2, DeskStepHolds DEF Desk!Poll, DeskHolds
  <1>2. ASSUME NEW r \in deskPolls[d], Desk!PollFails(d, r) PROVE DeskInv'
    <2>1. PollsFrom(d)
      BY <1>2, AnsweredPolls DEF Desk!PollFails
    <2>2. DeskTypes'
      BY <1>2, <2>1 DEF Desk!PollFails, DeskTypes, PollsFrom
    <2> QED BY <1>2, <2>1, <2>2, DeskStepHolds DEF Desk!PollFails, DeskHolds
  <1>3. ASSUME NEW r \in DeskRows, ToldBefore(r), Desk!Takes(d, r), PollsFrom(d),
               deskView' \in [DeskDesks -> DeskRows], ToldBefore(deskView'[d]),
               \A e \in DeskDesks \ {d} : deskView'[e] = deskView[e],
               UNCHANGED <<deskRow, deskOwner, deskWrote, deskRequest>>
        PROVE  DeskInv'
    <2>1. deskDraft' = [deskDraft EXCEPT ![d] = r.kill] /\ r.kill \in BOOLEAN
      BY <1>3 DEF Desk!Takes, DeskRows
    <2>2. deskDraft' \in [DeskDesks -> BOOLEAN]
      BY <2>1 DEF DeskTypes
    <2>3. \A e \in DeskDesks \ {d} :
            deskDraft'[e] = deskDraft[e] /\ (e \in deskMisled' <=> e \in deskMisled)
      BY <1>3, <2>1 DEF DeskTypes, Desk!Takes
    <2>4. DeskTypes'
      BY <1>3, <2>2 DEF DeskTypes, PollsFrom
    <2>5. d \notin deskMisled' => deskRequest[d].at = "idle" /\ ~(r.version < deskWrote[d])
      BY <1>3 DEF Desk!Takes
    <2>6. deskOwner = d /\ deskRow.kill /\ d \notin deskMisled' => deskDraft'[d]
      <3> SUFFICES ASSUME deskOwner = d, deskRow.kill, d \notin deskMisled' PROVE deskDraft'[d]
        OBVIOUS
      <3>1. r = deskRow
        BY <1>3, <2>5 DEF ToldBefore, DeskHolds
      <3>2. deskDraft'[d] = r.kill
        BY <2>1 DEF DeskTypes
      <3> QED BY <3>1, <3>2
    <2> QED BY <1>3, <2>3, <2>4, <2>5, <2>6, DeskStepHolds DEF DeskHolds
  <1>4. ASSUME NEW r \in deskPolls[d], Desk!Told(d, r) PROVE DeskInv'
    <2>1. PollsFrom(d) /\ r \in DeskRows /\ ToldBefore(r)
      BY <1>4, AnsweredPolls DEF Desk!Told, DeskTypes, DeskHolds
    <2>2. /\ deskView' \in [DeskDesks -> DeskRows] /\ deskView'[d] = r
          /\ \A e \in DeskDesks \ {d} : deskView'[e] = deskView[e]
      BY <1>4, <2>1 DEF Desk!Told, DeskTypes
    <2>3. CASE Desk!Takes(d, r)
      BY <1>3, <1>4, <2>1, <2>2, <2>3 DEF Desk!Told
    <2>4. CASE UNCHANGED <<deskDraft, deskMisled>>
      <3>1. DeskTypes'
        BY <1>4, <2>1, <2>2, <2>4 DEF Desk!Told, DeskTypes, PollsFrom
      <3> QED BY <1>4, <2>1, <2>2, <2>4, <3>1, DeskStepHolds DEF Desk!Told, DeskHolds
    <2> QED BY <1>4, <2>3, <2>4 DEF Desk!Told
  <1>5. CASE Desk!Reset(d)
    <2>1. PollsFrom(d) /\ deskView[d] \in DeskRows /\ ToldBefore(deskView[d])
      BY <1>5 DEF Desk!Reset, DeskTypes, DeskHolds, PollsFrom
    <2> QED BY <1>3, <1>5, <2>1 DEF Desk!Reset, DeskTypes
  <1> QED BY <1>1, <1>2, <1>4, <1>5

LEMMA DeskAsks ==
  ASSUME DeskInv, NEW d \in DeskDesks,
         Desk!OpenDialog(d) \/ Desk!CloseDialog(d) \/ Desk!Confirm(d) \/ Desk!Save(d)
  PROVE  DeskInv'
  <1> DeskTypes /\ DeskHolds(d)
    BY DEF DeskInv
  <1>1. CASE Desk!OpenDialog(d) \/ Desk!CloseDialog(d)
    BY <1>1 DEF Desk!OpenDialog, Desk!CloseDialog, DeskInv, DeskTypes, DeskHolds, ToldBefore
  <1>2. ASSUME NEW op \in Desk!Ops, Desk!Sends(d, op),
               UNCHANGED <<deskRow, deskView, deskPolls, deskDraft, deskMisled, deskWrote,
                           deskOwner>>
        PROVE  DeskInv'
    <2>1. /\ deskRequest[d].at = "idle"
          /\ deskRequest' = [deskRequest EXCEPT
               ![d] = [at |-> "sent", op |-> op, kill |-> deskDraft[d]]]
      BY <1>2 DEF Desk!Sends
    <2>2. DeskTypes'
      BY <1>2, <2>1 DEF DeskTypes
    <2>3. deskRequest'[d] = [at |-> "sent", op |-> op, kill |-> deskDraft[d]]
          /\ \A e \in DeskDesks \ {d} : deskRequest'[e] = deskRequest[e]
      BY <2>1 DEF DeskTypes
    <2>4. PollsFrom(d) /\ ToldBefore(deskView'[d])
      BY <1>2 DEF DeskTypes, PollsFrom, DeskHolds
    <2> QED BY <1>2, <2>1, <2>2, <2>3, <2>4, DeskStepHolds DEF DeskHolds
  <1> QED BY <1>1, <1>2 DEF Desk!Confirm, Desk!Save, Desk!Ops

LEMMA DeskWrites ==
  ASSUME DeskInv, NEW d \in DeskDesks,
         Desk!HandleActivate(d) \/ Desk!HandleDeactivate(d) \/ Desk!HandleSave(d)
  PROVE  DeskInv'
  <1> DeskTypes /\ DeskHolds(d)
    BY DEF DeskInv
  <1>1. ASSUME NEW kill \in BOOLEAN, Desk!Written(d, kill), Desk!Handled(d),
               UNCHANGED <<deskView, deskPolls, deskDraft, deskMisled>>,
               deskRequest[d].op = "activate" => kill,
               deskRequest[d].op = "deactivate" => ~kill,
               deskRequest[d].op = "save" => kill = deskRequest[d].kill,
               deskRequest[d].at = "sent"
        PROVE  DeskInv'
    <2>1. /\ deskRow' = [there |-> TRUE, kill |-> kill, version |-> deskRow.version + 1]
          /\ deskWrote' = [deskWrote EXCEPT ![d] = deskRow.version + 1]
          /\ deskOwner' = d
      BY <1>1 DEF Desk!Written
    <2>2. deskRow.version \in Int
      BY DEF DeskTypes, DeskRows
    <2>3. deskRow' \in DeskRows /\ (deskRow'.kill => deskRow'.there)
          /\ deskRow'.version = deskRow.version + 1 /\ deskRow'.kill = kill
      BY <2>1, <2>2 DEF DeskRows
    <2>4. deskWrote' \in [DeskDesks -> Int] /\ deskWrote'[d] = deskRow'.version
          /\ \A e \in DeskDesks \ {d} : deskWrote'[e] = deskWrote[e]
      BY <2>1, <2>2, <2>3 DEF DeskTypes
    <2>5. /\ deskRequest' \in [DeskDesks -> [at : {"idle", "sent", "handled"}, op : Desk!Ops,
                                             kill : BOOLEAN]]
          /\ \A e \in DeskDesks \ {d} : deskRequest'[e] = deskRequest[e]
          /\ deskRequest'[d].at = "handled" /\ deskRequest'[d].op = deskRequest[d].op
          /\ deskRequest'[d].kill = deskRequest[d].kill
      BY <1>1 DEF Desk!Handled, DeskTypes
    <2>6. DeskTypes'
      BY <1>1, <2>3, <2>4, <2>5 DEF DeskTypes
    <2>7. \A e \in DeskDesks \ {d} : DeskHolds(e)'
      BY <1>1, <2>1, <2>3, <2>4, <2>5, DeskOutdated DEF DeskKeeps
    <2>8. \A r \in DeskRows : ToldBefore(r) => r.version < deskRow'.version
      <3> TAKE r \in DeskRows
      <3>1. r.version \in Int BY DEF DeskRows
      <3> QED BY <3>1, <2>2, <2>3 DEF ToldBefore
    <2>9. ToldBefore(deskView[d])' /\ \A r \in deskPolls'[d] : ToldBefore(r)'
      BY <1>1, <2>8 DEF DeskTypes, DeskHolds, ToldBefore
    <2>10. deskRequest[d].op \in Desk!Ops
      BY DEF DeskTypes
    <2>11. DeskHolds(d)'
      <3>1. deskRow'.kill /\ d \notin deskMisled' =>
              deskDraft'[d] \/ deskRequest'[d].op = "activate"
        <4> SUFFICES ASSUME deskRow'.kill, d \notin deskMisled', deskRequest[d].op # "activate"
                     PROVE  deskDraft'[d]
          BY <2>5
        <4>1. kill /\ deskRequest[d].op = "save"
          BY <1>1, <2>3, <2>10 DEF Desk!Ops
        <4>2. deskRequest[d].kill = deskDraft[d] /\ deskRequest[d].kill = kill
          BY <1>1, <4>1 DEF DeskHolds
        <4> QED BY <1>1, <4>1, <4>2
      <3>2. deskRequest'[d].op = "save" /\ d \notin deskMisled' =>
              deskRequest'[d].kill = deskDraft'[d]
        BY <1>1, <2>5 DEF DeskHolds
      <3>3. deskRow'.kill => deskRequest'[d].op # "deactivate"
        BY <1>1, <2>3, <2>5
      <3> QED BY <2>4, <2>5, <2>9, <3>1, <3>2, <3>3 DEF DeskHolds
    <2> QED BY <2>6, <2>7, <2>11 DEF DeskInv
  <1>2. CASE Desk!HandleActivate(d)
    BY <1>1, <1>2 DEF Desk!HandleActivate
  <1>3. CASE Desk!HandleSave(d)
    <2>1. deskRequest[d].kill \in BOOLEAN
      BY DEF DeskTypes
    <2> QED BY <1>1, <1>3, <2>1 DEF Desk!HandleSave
  <1>4. CASE Desk!HandleDeactivate(d)
    <2>1. CASE deskRow.there
      BY <1>1, <1>4, <2>1 DEF Desk!HandleDeactivate
    <2>2. CASE ~deskRow.there
      <3>1. ~deskRow.kill
        BY <2>2 DEF DeskTypes
      <3>2. UNCHANGED <<deskRow, deskOwner, deskWrote, deskView, deskPolls, deskDraft, deskMisled>>
            /\ deskRequest[d].op = "deactivate"
        BY <1>4, <2>2 DEF Desk!HandleDeactivate
      <3>3. /\ deskRequest' \in [DeskDesks -> [at : {"idle", "sent", "handled"}, op : Desk!Ops,
                                               kill : BOOLEAN]]
            /\ \A e \in DeskDesks \ {d} : deskRequest'[e] = deskRequest[e]
            /\ deskRequest'[d].op = deskRequest[d].op
        BY <1>4 DEF Desk!HandleDeactivate, Desk!Handled, DeskTypes
      <3>4. DeskTypes'
        BY <3>2, <3>3 DEF DeskTypes
      <3>5. PollsFrom(d) /\ ToldBefore(deskView'[d])
        BY <3>2 DEF DeskTypes, PollsFrom, DeskHolds
      <3> QED BY <3>1, <3>2, <3>3, <3>4, <3>5, DeskStepHolds
    <2> QED BY <2>1, <2>2
  <1> QED BY <1>2, <1>3, <1>4

LEMMA DeskHears ==
  ASSUME DeskInv, NEW d \in DeskDesks, Desk!Answered(d) \/ Desk!RequestFails(d)
  PROVE  DeskInv'
  <1> DeskTypes /\ DeskHolds(d)
    BY DEF DeskInv
  <1>1. deskRequest' = [deskRequest EXCEPT ![d] = Desk!Idle]
    BY DEF Desk!Answered, Desk!RequestFails
  <1>2. /\ deskRequest' \in [DeskDesks -> [at : {"idle", "sent", "handled"}, op : Desk!Ops,
                                           kill : BOOLEAN]]
        /\ deskRequest'[d].at = "idle"
        /\ \A e \in DeskDesks \ {d} : deskRequest'[e] = deskRequest[e]
    BY <1>1 DEF DeskTypes, Desk!Idle, Desk!Ops
  <1>3. CASE Desk!RequestFails(d)
    <2>1. DeskTypes' /\ PollsFrom(d) /\ ToldBefore(deskView'[d])
      BY <1>2, <1>3 DEF Desk!RequestFails, DeskTypes, PollsFrom, DeskHolds
    <2>2. d \notin deskMisled' => d \notin deskMisled /\ deskRequest[d].at # "handled"
      BY <1>3 DEF Desk!RequestFails
    <2>3. \A e \in DeskDesks \ {d} : e \in deskMisled' <=> e \in deskMisled
      BY <1>3 DEF Desk!RequestFails
    <2> QED BY <1>2, <1>3, <2>1, <2>2, <2>3, DeskStepHolds DEF Desk!RequestFails, DeskHolds
  <1>4. CASE Desk!Answered(d)
    <2>1. PollsFrom(d)
      BY <1>4, AskedPolls DEF Desk!Answered
    <2>2. CASE deskRequest[d].op = "save"
      <3>1. deskDraft' = deskDraft
        BY <1>4, <2>2 DEF Desk!Answered, DeskTypes
      <3>2. DeskTypes'
        BY <1>2, <1>4, <2>1, <3>1 DEF Desk!Answered, DeskTypes, PollsFrom
      <3> QED BY <1>2, <1>4, <2>1, <2>2, <3>1, <3>2, DeskStepHolds DEF Desk!Answered, DeskHolds
    <2>3. CASE deskRequest[d].op # "save"
      <3>1. deskDraft' = [deskDraft EXCEPT ![d] = (deskRequest[d].op = "activate")]
        BY <1>4, <2>3 DEF Desk!Answered
      <3>2. deskDraft' \in [DeskDesks -> BOOLEAN]
            /\ deskDraft'[d] = (deskRequest[d].op = "activate")
            /\ \A e \in DeskDesks \ {d} : deskDraft'[e] = deskDraft[e]
        BY <3>1 DEF DeskTypes
      <3>3. DeskTypes'
        BY <1>2, <1>4, <2>1, <3>2 DEF Desk!Answered, DeskTypes, PollsFrom
      <3>4. deskRequest[d].op = "activate" \/ deskRequest[d].op = "deactivate"
        BY <2>3 DEF DeskTypes, Desk!Ops
      <3>5. deskOwner = d /\ deskRow.kill /\ d \notin deskMisled => deskDraft'[d]
        BY <1>4, <3>2, <3>4 DEF DeskHolds, Desk!Answered
      <3> QED BY <1>2, <1>4, <2>1, <3>2, <3>3, <3>5, DeskStepHolds DEF Desk!Answered, DeskHolds
    <2> QED BY <2>2, <2>3
  <1> QED BY <1>3, <1>4

LEMMA NextDeskInv == DeskInv /\ [Next]_vars => DeskInv'
  <1> SUFFICES ASSUME DeskInv, [Next]_vars PROVE DeskInv'
    OBVIOUS
  <1>1. CASE UNCHANGED deskVars
    BY <1>1 DEF deskVars, DeskInv, DeskTypes, DeskHolds, ToldBefore
  <1>2. ASSUME NEW d \in DeskDesks, Desk!Desk(d) PROVE DeskInv'
    BY <1>2, DeskReads, DeskAsks, DeskWrites, DeskHears DEF Desk!Desk
  <1> QED BY <1>1, <1>2, StepOfPart DEF Desk!Next

(* A desk that has switched the kill switch on itself keeps it on when it     *)
(* saves its draft, for any number of desks, polls, writes and failures, as   *)
(* long as nobody else wrote and it took no settings from an answer older     *)
(* than its write or during it (AIControlPanel.tsx:380-440).                  *)
THEOREM OwnSwitchIsKept == Spec => []OwnSwitchSurvivesSave
  <1>1. DeskInv => OwnSwitchSurvivesSave
    BY DEF DeskInv, DeskHolds, OwnSwitchSurvivesSave, Desk!OwnSwitchSurvivesSave
  <1> QED BY <1>1, InitDeskInv, NextDeskInv, PTL DEF Spec

-----------------------------------------------------------------------------
(* Opens.  While nothing was disturbed, at most one open is being counted and *)
(* has read the counter as it is, none while the counter is to be deleted,    *)
(* and the run that is to delete it has taken all of it.                      *)

TrackTypes ==
  /\ trackHit \in [TrackHits -> {"new", "read", "done"}]
  /\ trackKind \in [TrackHits -> Track!Kinds] /\ trackRead \in [TrackHits -> Int]
  /\ trackKv \in [Track!Kinds -> Int] /\ trackHits \in [Track!Kinds -> Int]
  /\ trackRoll \subseteq {"insert", "delete"}
  /\ trackTaken \in Int /\ trackFlushed \in Int /\ trackDisturbed \in BOOLEAN

TrackCalm ==
  /\ trackFlushed + trackKv["open"] + (IF "insert" \in trackRoll THEN trackTaken ELSE 0)
       - (IF "delete" \in trackRoll THEN trackTaken ELSE 0) = trackHits["open"]
  /\ \A h \in Track!Pending("open") : trackRead[h] = trackKv["open"]
  /\ \A g, h \in Track!Pending("open") : g = h
  /\ "delete" \in trackRoll => trackKv["open"] = trackTaken /\ Track!Pending("open") = {}

TrackInv == TrackTypes /\ (~trackDisturbed => TrackCalm)

LEMMA InitTrackInv == Init => TrackInv
  <1> SUFFICES ASSUME Track!Init PROVE TrackInv
    BY DEF Init
  <1>1. TrackTypes
    <2>1. /\ trackHit \in [TrackHits -> {"new", "read", "done"}]
          /\ trackKind \in [TrackHits -> Track!Kinds] /\ trackRead \in [TrackHits -> Int]
      BY DEF Track!Init, Track!Kinds
    <2>2. trackKv \in [Track!Kinds -> Int] /\ trackHits \in [Track!Kinds -> Int]
      BY DEF Track!Init
    <2>3. trackDisturbed \in BOOLEAN
      BY DEF Track!Init
    <2> QED BY <2>1, <2>2, <2>3 DEF Track!Init, TrackTypes
  <1>2. Track!Pending("open") = {}
    BY DEF Track!Init, Track!Pending
  <1>3. TrackCalm
    BY <1>2 DEF Track!Init, TrackCalm, Track!Kinds
  <1> QED BY <1>1, <1>3 DEF TrackInv

LEMMA NextTrackInv == TrackInv /\ [Next]_vars => TrackInv'
  <1> SUFFICES ASSUME TrackInv, [Next]_vars PROVE TrackInv'
    OBVIOUS
  <1> TrackTypes
    BY DEF TrackInv
  <1>0. /\ trackKv["open"] \in Int /\ trackHits["open"] \in Int
        /\ trackTaken \in Int /\ trackFlushed \in Int
    BY DEF TrackTypes, Track!Kinds
  <1>1. ASSUME NEW h \in TrackHits, Track!ReadCount(h) PROVE TrackInv'
    <2>1. PICK k \in Track!Kinds :
            /\ trackKind' = [trackKind EXCEPT ![h] = k]
            /\ trackRead' = [trackRead EXCEPT ![h] = trackKv[k]]
            /\ trackDisturbed' = (trackDisturbed \/ (k = "open" /\
                 (Track!Pending(k) # {} \/ "delete" \in trackRoll)))
      BY <1>1 DEF Track!ReadCount
    <2>2. TrackTypes'
      BY <1>1, <2>1 DEF Track!ReadCount, TrackTypes
    <2>3. trackHit[h] = "new" /\ trackHit' = [trackHit EXCEPT ![h] = "read"]
          /\ UNCHANGED <<trackKv, trackHits, trackRoll, trackTaken, trackFlushed>>
      BY <1>1 DEF Track!ReadCount
    <2>4. CASE k = "open"
      <3>1. Track!Pending("open")' = Track!Pending("open") \cup {h}
        BY <2>1, <2>3, <2>4 DEF Track!Pending, TrackTypes
      <3>2. trackRead'[h] = trackKv["open"]
        BY <2>1, <2>4 DEF TrackTypes
      <3>3. ~trackDisturbed' => TrackCalm /\ Track!Pending("open") = {} /\ "delete" \notin trackRoll
        BY <2>1, <2>4 DEF TrackInv
      <3>4. ~trackDisturbed' => TrackCalm'
        BY <2>3, <3>1, <3>2, <3>3 DEF TrackCalm
      <3> QED BY <2>2, <3>4 DEF TrackInv
    <2>5. CASE k # "open"
      <3>1. Track!Pending("open")' = Track!Pending("open")
            /\ \A g \in Track!Pending("open") : trackRead'[g] = trackRead[g]
        BY <2>1, <2>3, <2>5 DEF Track!Pending, TrackTypes
      <3>2. ~trackDisturbed' => TrackCalm
        BY <2>1, <2>5 DEF TrackInv
      <3>3. ~trackDisturbed' => TrackCalm'
        BY <2>3, <3>1, <3>2 DEF TrackCalm
      <3> QED BY <2>2, <3>3 DEF TrackInv
    <2> QED BY <2>4, <2>5
  <1>2. ASSUME NEW h \in TrackHits, Track!PutCount(h) PROVE TrackInv'
    <2>1. /\ trackHit[h] = "read" /\ trackHit' = [trackHit EXCEPT ![h] = "done"]
          /\ trackKv' = [trackKv EXCEPT ![trackKind[h]] = trackRead[h] + 1]
          /\ trackHits' = [trackHits EXCEPT ![trackKind[h]] = @ + 1]
          /\ UNCHANGED <<trackKind, trackRead, trackRoll, trackTaken, trackFlushed,
                         trackDisturbed>>
      BY <1>2 DEF Track!PutCount
    <2>2. trackKind[h] \in Track!Kinds /\ trackRead[h] \in Int
      BY DEF TrackTypes
    <2>3. TrackTypes'
      BY <2>1, <2>2 DEF TrackTypes
    <2>4. CASE trackKind[h] = "open"
      <3>1. h \in Track!Pending("open") /\ Track!Pending("open")' = Track!Pending("open") \ {h}
        BY <2>1, <2>4 DEF Track!Pending, TrackTypes
      <3>2. trackKv'["open"] = trackRead[h] + 1 /\ trackHits'["open"] = trackHits["open"] + 1
        BY <2>1, <2>2, <2>4 DEF TrackTypes
      <3>3. ~trackDisturbed' => TrackCalm'
        <4> SUFFICES ASSUME TrackCalm PROVE TrackCalm'
          BY <2>1 DEF TrackInv
        <4>1. trackRead[h] = trackKv["open"] /\ Track!Pending("open")' = {}
              /\ "delete" \notin trackRoll
          BY <3>1 DEF TrackCalm
        <4> QED BY <1>0, <2>1, <3>2, <4>1 DEF TrackCalm
      <3> QED BY <2>3, <3>3 DEF TrackInv
    <2>5. CASE trackKind[h] # "open"
      <3>1. Track!Pending("open")' = Track!Pending("open")
        BY <2>1, <2>5 DEF Track!Pending, TrackTypes
      <3>2. trackKv'["open"] = trackKv["open"] /\ trackHits'["open"] = trackHits["open"]
        BY <2>1, <2>2, <2>5 DEF TrackTypes, Track!Kinds
      <3> QED BY <2>1, <2>3, <3>1, <3>2 DEF TrackInv, TrackCalm
    <2> QED BY <2>4, <2>5
  <1>3. ASSUME UNCHANGED <<trackHit, trackKind>>
        PROVE  Track!Pending("open")' = Track!Pending("open")
    BY <1>3 DEF Track!Pending
  <1>4. CASE Track!TakeCount
    <2>1. TrackTypes'
      BY <1>0, <1>4 DEF Track!TakeCount, TrackTypes
    <2>2. /\ trackTaken' = trackKv["open"] /\ trackRoll' = {"insert", "delete"} /\ trackRoll = {}
          /\ UNCHANGED <<trackHit, trackKind, trackRead, trackKv, trackHits, trackFlushed>>
          /\ ~trackDisturbed' => ~trackDisturbed /\ Track!Pending("open") = {}
      BY <1>4 DEF Track!TakeCount, Track!Rolling
    <2>3. ~trackDisturbed' => TrackCalm'
      BY <1>0, <1>3, <2>2 DEF TrackInv, TrackCalm
    <2> QED BY <2>1, <2>3 DEF TrackInv
  <1>5. CASE Track!InsertEvents
    <2>1. /\ "insert" \in trackRoll /\ trackRoll' = trackRoll \ {"insert"}
          /\ UNCHANGED <<trackHit, trackKind, trackRead, trackKv, trackHits, trackTaken>>
          /\ \/ trackFlushed' = trackFlushed + trackTaken /\ trackDisturbed' = trackDisturbed
             \/ trackDisturbed' = TRUE /\ trackFlushed' = trackFlushed
      BY <1>5 DEF Track!InsertEvents
    <2>2. TrackTypes'
      <3>1. trackFlushed' \in Int
        BY <1>0, <2>1
      <3>2. trackDisturbed' \in BOOLEAN
        BY <2>1, Zenon DEF TrackTypes
      <3> QED BY <2>1, <3>1, <3>2 DEF TrackTypes
    <2>3. ~trackDisturbed' => TrackCalm'
      BY <1>0, <1>3, <2>1 DEF TrackInv, TrackCalm
    <2> QED BY <2>2, <2>3 DEF TrackInv
  <1>6. CASE Track!DeleteCount
    <2>1. /\ "delete" \in trackRoll /\ trackRoll' = trackRoll \ {"delete"}
          /\ UNCHANGED <<trackHit, trackKind, trackRead, trackHits, trackTaken, trackFlushed>>
          /\ \/ trackKv' = [trackKv EXCEPT !["open"] = 0] /\ trackDisturbed' = trackDisturbed
             \/ trackDisturbed' = TRUE /\ trackKv' = trackKv
      BY <1>6 DEF Track!DeleteCount
    <2>2. TrackTypes'
      <3>1. trackKv' \in [Track!Kinds -> Int]
        BY <2>1 DEF TrackTypes
      <3>2. trackDisturbed' \in BOOLEAN
        BY <2>1, Zenon DEF TrackTypes
      <3> QED BY <2>1, <3>1, <3>2 DEF TrackTypes
    <2>3. ~trackDisturbed' => ~trackDisturbed /\ trackKv'["open"] = 0
      BY <2>1 DEF TrackTypes, Track!Kinds
    <2>4. ~trackDisturbed' => TrackCalm'
      BY <1>0, <1>3, <2>1, <2>3 DEF TrackInv, TrackCalm
    <2> QED BY <2>2, <2>4 DEF TrackInv
  <1>7. ASSUME NEW k \in Track!Kinds, Track!CountExpires(k) PROVE TrackInv'
    <2>1. /\ trackKv' = [trackKv EXCEPT ![k] = 0]
          /\ trackDisturbed' = (trackDisturbed \/ k = "open")
          /\ UNCHANGED <<trackHit, trackKind, trackRead, trackHits, trackRoll, trackTaken,
                         trackFlushed>>
      BY <1>7 DEF Track!CountExpires
    <2>2. TrackTypes'
      BY <2>1 DEF TrackTypes
    <2>3. ~trackDisturbed' => ~trackDisturbed /\ trackKv'["open"] = trackKv["open"]
      BY <2>1 DEF TrackTypes, Track!Kinds
    <2>4. ~trackDisturbed' => TrackCalm'
      BY <1>3, <2>1, <2>3 DEF TrackInv, TrackCalm
    <2> QED BY <2>2, <2>4 DEF TrackInv
  <1>8. CASE UNCHANGED trackVars
    BY <1>3, <1>8 DEF trackVars, TrackInv, TrackTypes, TrackCalm
  <1> QED BY <1>1, <1>2, <1>4, <1>5, <1>6, <1>7, <1>8, StepOfPart DEF Track!Next

(* Opens that move from KV to D1 are neither lost nor doubled while no hit or *)
(* run overlaps another and nothing fails, for any number of hits and runs    *)
(* (icrv-cron index.ts:222-258, icrv-hooks index.ts:283-289).                 *)
THEOREM OpensAreConserved == Spec => []OpensConserved
  <1>1. TrackInv => OpensConserved
    BY DEF TrackInv, TrackCalm, OpensConserved, Track!OpensConserved
  <1> QED BY <1>1, InitTrackInv, NextTrackInv, PTL DEF Spec

-----------------------------------------------------------------------------
(* Consent.  A mail that was cleared for a contact that has opted out is       *)
(* stale.  A row without a token, once one was requested, is that of a contact *)
(* that is gone, so an answer that was dead when it came and passed the check  *)
(* finds no contact.                                                           *)

ConsentTypes ==
  /\ consentsExists \in BOOLEAN /\ consentsSuppressed \in BOOLEAN
  /\ consentsLiveToken \in Int /\ consentsRequests \in Nat
  /\ consentsEdit \in [ConsentsEdits -> {"start", "upsert", "cascade", "clean", "done"}]
  /\ consentsClick \in [ConsentsClicks -> {"none", "checked", "done"}]
  /\ consentsMail \in [ConsentsMails -> {"idle", "cleared", "blocked", "sent"}]
  /\ consentsAnswered \subseteq ConsentsClicks

MailOutdated ==
  /\ Consents!OptedOut => Consents!Cleared \subseteq consentsStale
  /\ consentsLate \subseteq consentsStale

TokensReplaced ==
  /\ consentsLiveToken \in {0, consentsRequests}
  /\ consentsRequests > 0 /\ consentsLiveToken = 0 => ~consentsExists
  /\ \A e \in ConsentsEdits : consentsEdit[e] = "cascade" => ~consentsExists

DeadUnanswered ==
  /\ \A k \in ConsentsClicks : consentsClick[k] = "checked" /\ k \in consentsDead => ~consentsExists
  /\ \A k \in ConsentsClicks : consentsClick[k] = "none" => k \notin consentsDead
  /\ \A k \in consentsAnswered : consentsClick[k] = "done" /\ k \notin consentsDead

ConsentInv == ConsentTypes /\ MailOutdated /\ TokensReplaced /\ DeadUnanswered

LEMMA InitConsentInv == Init => ConsentInv
  <1> SUFFICES ASSUME Consents!Init PROVE ConsentInv
    BY DEF Init
  <1>1. ConsentTypes
    <2>1. consentsExists \in BOOLEAN /\ consentsSuppressed \in BOOLEAN
      BY DEF Consents!Init
    <2> QED BY <2>1 DEF Consents!Init, ConsentTypes
  <1>2. MailOutdated
    BY DEF Consents!Init, MailOutdated, Consents!OptedOut
  <1>3. TokensReplaced
    BY DEF Consents!Init, TokensReplaced
  <1>4. DeadUnanswered
    BY DEF Consents!Init, DeadUnanswered
  <1> QED BY <1>1, <1>2, <1>3, <1>4 DEF ConsentInv

(* Steps that may record an answer or an opt-out but touch neither the tokens nor the contact. *)
LEMMA RecordOutdates ==
  ASSUME MailOutdated, NEW state, Consents!Record(state),
         UNCHANGED <<consentsSuppressed, consentsMail, consentsLate>>
  PROVE  MailOutdated'
  BY DEF MailOutdated, Consents!Record, Consents!OutdatesRuns, Consents!OptedOut, Consents!Cleared

LEMMA OperatorKeepsConsent ==
  ASSUME ConsentInv, NEW e \in ConsentsEdits, Consents!OperatorStep(e)
  PROVE  ConsentInv'
  <1> ConsentTypes /\ MailOutdated /\ TokensReplaced /\ DeadUnanswered
    BY DEF ConsentInv
  <1>0. ASSUME NEW p \in {"upsert", "cascade", "clean", "done"}, Consents!GoOn(e, p),
               UNCHANGED <<consentsRequests, consentsClick, consentsMail, consentsSuppressed,
                           consentsDead, consentsAnswered>>,
               consentsExists' \in BOOLEAN, consentsExists' => consentsExists,
               p = "cascade" => ~consentsExists',
               \/ consentsLiveToken' = consentsLiveToken
               \/ consentsLiveToken' = 0 /\ ~consentsExists'
        PROVE  ConsentTypes' /\ TokensReplaced' /\ DeadUnanswered'
    <2>1. ConsentTypes'
      BY <1>0 DEF ConsentTypes, Consents!GoOn
    <2>2. \A f \in ConsentsEdits : consentsEdit'[f] = "cascade" => ~consentsExists'
      BY <1>0 DEF ConsentTypes, Consents!GoOn, TokensReplaced
    <2>3. TokensReplaced'
      BY <1>0, <2>2 DEF TokensReplaced
    <2> QED BY <1>0, <2>1, <2>3 DEF DeadUnanswered
  <1>1. CASE Consents!EditContact(e)
    <2>1. MailOutdated'
      BY <1>1 DEF Consents!EditContact, Consents!contact, MailOutdated, Consents!OptedOut,
                  Consents!Cleared
    <2> QED BY <1>0, <1>1, <2>1 DEF Consents!EditContact, Consents!contact, ConsentInv, ConsentTypes
  <1>2. CASE Consents!UpsertConsent(e)
    <2>1. MailOutdated'
      BY <1>2, RecordOutdates DEF Consents!UpsertConsent
    <2> QED BY <1>0, <1>2, <2>1 DEF Consents!UpsertConsent, ConsentInv, ConsentTypes
  <1>3. CASE Consents!DeleteContact(e)
    <2>1. MailOutdated'
      BY <1>3 DEF Consents!DeleteContact, MailOutdated, Consents!OptedOut, Consents!Cleared
    <2> QED BY <1>0, <1>3, <2>1 DEF Consents!DeleteContact, ConsentInv, ConsentTypes
  <1>4. CASE Consents!CascadeDelete(e)
    <2>1. MailOutdated'
      BY <1>4 DEF Consents!CascadeDelete, MailOutdated, Consents!OptedOut, Consents!Cleared
    <2>2. ~consentsExists
      BY <1>4 DEF Consents!CascadeDelete, TokensReplaced
    <2> QED BY <1>0, <1>4, <2>1, <2>2 DEF Consents!CascadeDelete, ConsentInv, ConsentTypes
  <1>5. CASE Consents!ListBouncers(e)
    <2>1. MailOutdated'
      BY <1>5 DEF Consents!ListBouncers, Consents!contact, MailOutdated, Consents!OptedOut,
                  Consents!Cleared
    <2> QED BY <1>0, <1>5, <2>1 DEF Consents!ListBouncers, Consents!contact, ConsentInv, ConsentTypes
  <1>6. CASE Consents!CleanBouncer(e)
    <2>1. MailOutdated'
      BY <1>6, RecordOutdates DEF Consents!CleanBouncer
    <2> QED BY <1>0, <1>6, <2>1 DEF Consents!CleanBouncer, ConsentInv, ConsentTypes
  <1> QED BY <1>1, <1>2, <1>3, <1>4, <1>5, <1>6 DEF Consents!OperatorStep

LEMMA ContactKeepsConsent ==
  ASSUME ConsentInv,
         \/ Consents!RequestConsent
         \/ \E k \in ConsentsClicks : Consents!AnswerRequest(k) \/ Consents!RecordAnswer(k)
         \/ Consents!HandleUnsubscribe \/ Consents!ProcessUnsubscribe \/ Consents!Suppress
  PROVE  ConsentInv'
  <1> ConsentTypes /\ MailOutdated /\ TokensReplaced /\ DeadUnanswered
    BY DEF ConsentInv
  <1>1. CASE Consents!RequestConsent
    <2>1. /\ consentsExists /\ consentsRequests' = consentsRequests + 1
          /\ consentsLiveToken' = consentsRequests'
          /\ UNCHANGED <<consentsExists, consentsSuppressed, consentsStale, consentsEdit,
                         consentsClick, consentsMail, consentsLate, consentsDead,
                         consentsAnswered>>
          /\ consentsConsent' = "revoked" => consentsConsent = "revoked"
      BY <1>1 DEF Consents!RequestConsent, Consents!actors
    <2>2. consentsRequests' \in Nat /\ consentsRequests' > 0
      BY <2>1 DEF ConsentTypes
    <2>3. ConsentTypes' /\ TokensReplaced' /\ DeadUnanswered'
      BY <2>1, <2>2 DEF ConsentTypes, TokensReplaced, DeadUnanswered
    <2>4. MailOutdated'
      BY <2>1 DEF MailOutdated, Consents!OptedOut, Consents!Cleared
    <2> QED BY <2>3, <2>4 DEF ConsentInv
  <1>2. ASSUME NEW k \in ConsentsClicks, Consents!AnswerRequest(k) PROVE ConsentInv'
    <2>1. PICK t \in 1..consentsRequests :
            /\ consentsDead' = IF t < consentsRequests THEN consentsDead \cup {k} ELSE consentsDead
            /\ consentsClick' = [consentsClick EXCEPT
                 ![k] = IF Consents!Superseded(t) THEN "done" ELSE "checked"]
      BY <1>2 DEF Consents!AnswerRequest
    <2>2. consentsClick[k] = "none"
          /\ UNCHANGED <<consentsExists, consentsConsent, consentsLiveToken, consentsRequests,
                         consentsSuppressed, consentsEdit, consentsMail, consentsStale,
                         consentsLate, consentsAnswered>>
      BY <1>2 DEF Consents!AnswerRequest, Consents!contact
    <2>3. ConsentTypes' /\ TokensReplaced'
      BY <2>1, <2>2 DEF ConsentTypes, TokensReplaced
    <2>4. MailOutdated'
      BY <2>2 DEF MailOutdated, Consents!OptedOut, Consents!Cleared
    <2>5. t < consentsRequests /\ ~Consents!Superseded(t) => ~consentsExists
      BY DEF Consents!Superseded, TokensReplaced, ConsentTypes
    <2>6. \A j \in ConsentsClicks \ {k} : consentsClick'[j] = consentsClick[j]
                                          /\ (j \in consentsDead' <=> j \in consentsDead)
      BY <2>1 DEF ConsentTypes
    <2>7. consentsClick'[k] = "checked" /\ k \in consentsDead' =>
            ~Consents!Superseded(t) /\ (t < consentsRequests \/ k \in consentsDead)
      BY <2>1 DEF ConsentTypes
    <2>8. k \notin consentsDead /\ k \notin consentsAnswered
      BY <2>2 DEF DeadUnanswered
    <2>9. consentsClick'[k] # "none"
      BY <2>1 DEF ConsentTypes
    <2>10. DeadUnanswered'
      <3>1. consentsClick'[k] = "checked" /\ k \in consentsDead' => ~consentsExists
        BY <2>5, <2>7, <2>8
      <3>2. \A j \in consentsAnswered : j \in ConsentsClicks \ {k}
        BY <2>8 DEF ConsentTypes
      <3>3. \A j \in consentsAnswered : consentsClick'[j] = "done" /\ j \notin consentsDead'
        BY <2>6, <3>2 DEF DeadUnanswered
      <3>4. \A j \in ConsentsClicks \ {k} :
              /\ consentsClick'[j] = "checked" /\ j \in consentsDead' => ~consentsExists
              /\ consentsClick'[j] = "none" => j \notin consentsDead'
        BY <2>6 DEF DeadUnanswered
      <3> QED BY <2>2, <2>9, <3>1, <3>3, <3>4 DEF DeadUnanswered
    <2> QED BY <2>3, <2>4, <2>10 DEF ConsentInv
  <1>3. ASSUME NEW k \in ConsentsClicks, Consents!RecordAnswer(k) PROVE ConsentInv'
    <2>1. /\ consentsClick[k] = "checked" /\ consentsClick' = [consentsClick EXCEPT ![k] = "done"]
          /\ consentsAnswered' = IF consentsExists THEN consentsAnswered \cup {k}
                                 ELSE consentsAnswered
          /\ \E state : Consents!Record(state)
          /\ UNCHANGED <<consentsExists, consentsLiveToken, consentsRequests,
                         consentsSuppressed, consentsEdit, consentsMail, consentsLate,
                         consentsDead>>
      BY <1>3 DEF Consents!RecordAnswer
    <2>2. MailOutdated'
      BY <2>1, RecordOutdates
    <2>3. ConsentTypes' /\ TokensReplaced'
      BY <2>1 DEF ConsentTypes, TokensReplaced
    <2>4. consentsExists => k \notin consentsDead
      BY <2>1 DEF DeadUnanswered
    <2>5. consentsClick'[k] = "done"
          /\ \A j \in ConsentsClicks \ {k} : consentsClick'[j] = consentsClick[j]
      BY <2>1 DEF ConsentTypes
    <2>6. \A j \in consentsAnswered : consentsClick'[j] = "done" /\ j \notin consentsDead
      BY <2>1 DEF DeadUnanswered, ConsentTypes
    <2>7. DeadUnanswered'
      BY <2>1, <2>4, <2>5, <2>6 DEF DeadUnanswered
    <2> QED BY <2>2, <2>3, <2>7 DEF ConsentInv
  <1>4. ASSUME NEW begun, Consents!Unsubscribes(begun) PROVE ConsentInv'
    <2>1. /\ Consents!Record("revoked")
          /\ UNCHANGED <<consentsExists, consentsLiveToken, consentsRequests,
                         consentsSuppressed, consentsEdit, consentsClick, consentsMail,
                         consentsLate, consentsDead, consentsAnswered>>
      BY <1>4 DEF Consents!Unsubscribes
    <2>2. MailOutdated'
      BY <2>1, RecordOutdates
    <2> QED BY <2>1, <2>2 DEF ConsentInv, ConsentTypes, TokensReplaced, DeadUnanswered
  <1>5. CASE Consents!Suppress
    <2>1. /\ \/ consentsSuppressed' = TRUE /\ Consents!OutdatesRuns
             \/ UNCHANGED <<consentsSuppressed, consentsStale>>
          /\ UNCHANGED <<consentsExists, consentsConsent, consentsLiveToken, consentsRequests,
                         consentsEdit, consentsClick, consentsMail, consentsLate,
                         consentsDead, consentsAnswered>>
      BY <1>5 DEF Consents!Suppress
    <2>2. consentsSuppressed' \in BOOLEAN
      BY <2>1, Zenon DEF ConsentTypes
    <2>3. MailOutdated'
      BY <2>1 DEF MailOutdated, Consents!OutdatesRuns, Consents!OptedOut, Consents!Cleared
    <2> QED BY <2>1, <2>2, <2>3 DEF ConsentInv, ConsentTypes, TokensReplaced, DeadUnanswered
  <1> QED BY <1>1, <1>2, <1>3, <1>4, <1>5 DEF Consents!HandleUnsubscribe, Consents!ProcessUnsubscribe

LEMMA MailKeepsConsent ==
  ASSUME ConsentInv, NEW m \in ConsentsMails, Consents!LoadContext(m) \/ Consents!SendMail(m)
  PROVE  ConsentInv'
  <1> ConsentTypes /\ MailOutdated /\ TokensReplaced /\ DeadUnanswered
    BY DEF ConsentInv
  <1>0. UNCHANGED <<consentsExists, consentsConsent, consentsLiveToken, consentsRequests,
                    consentsSuppressed, consentsEdit, consentsClick, consentsStale,
                    consentsDead, consentsAnswered>>
    BY DEF Consents!LoadContext, Consents!SendMail, Consents!contact
  <1>1. consentsMail' \in [ConsentsMails -> {"idle", "cleared", "blocked", "sent"}]
    BY DEF Consents!LoadContext, Consents!SendMail, ConsentTypes
  <1>2. ConsentTypes' /\ TokensReplaced' /\ DeadUnanswered'
    BY <1>0, <1>1 DEF ConsentTypes, TokensReplaced, DeadUnanswered
  <1>3. CASE Consents!LoadContext(m)
    <2>1. Consents!OptedOut => Consents!Cleared' \subseteq Consents!Cleared
      BY <1>3 DEF Consents!LoadContext, ConsentTypes, Consents!Cleared
    <2>2. Consents!OptedOut' = Consents!OptedOut /\ consentsLate' = consentsLate
      BY <1>0, <1>3 DEF Consents!LoadContext, Consents!OptedOut
    <2> QED BY <1>0, <1>2, <2>1, <2>2 DEF ConsentInv, MailOutdated
  <1>4. CASE Consents!SendMail(m)
    <2>1. m \in Consents!Cleared /\ Consents!Cleared' \subseteq Consents!Cleared
      BY <1>4 DEF Consents!SendMail, ConsentTypes, Consents!Cleared
    <2>2. consentsLate' = IF Consents!OptedOut THEN consentsLate \cup {m} ELSE consentsLate
      BY <1>4 DEF Consents!SendMail
    <2>3. Consents!OptedOut' = Consents!OptedOut
      BY <1>0 DEF Consents!OptedOut
    <2> QED BY <1>0, <1>2, <2>1, <2>2, <2>3 DEF ConsentInv, MailOutdated
  <1> QED BY <1>3, <1>4

LEMMA NextConsentInv == ConsentInv /\ [Next]_vars => ConsentInv'
  <1> SUFFICES ASSUME ConsentInv, [Next]_vars PROVE ConsentInv'
    OBVIOUS
  <1>1. CASE UNCHANGED consentsVars
    BY <1>1 DEF consentsVars, ConsentInv, ConsentTypes, MailOutdated, TokensReplaced,
                DeadUnanswered, Consents!OptedOut, Consents!Cleared
  <1> QED BY <1>1, OperatorKeepsConsent, ContactKeepsConsent, MailKeepsConsent, StepOfPart
          DEF Consents!Next

(* Nobody who has opted out gets a marketing mail whose run had not read the  *)
(* consent before, and an answer through a replaced link is never recorded    *)
(* for a contact that is there: for any number of operators, answers, mails,  *)
(* requests and links (policy-gate.ts:161-169, context-loader.ts:150-188,     *)
(* public.ts:215-230).                                                        *)
THEOREM ConsentIsHeld == Spec => []ConsentHolds
  <1>1. ConsentInv => ConsentHolds
    BY DEF ConsentInv, MailOutdated, DeadUnanswered, ConsentHolds, Consents!LateMailWasCleared,
           Consents!SupersededLinksDead
  <1> QED BY <1>1, InitConsentInv, NextConsentInv, PTL DEF Spec

-----------------------------------------------------------------------------
(* The rotators.  Who shares a refresh has asked for the token of its account *)
(* and waits for no other, and only a refresh under way is shared.            *)

RotatorInv ==
  /\ oauthActive \subseteq OAuth!Accounts
  /\ oauthSender \in [OAuthCallers -> OAuth!Accounts \cup {"none"}]
  /\ oauthStage \in [OAuth!Accounts -> {"idle", "select", "google", "mirror"}]
  /\ oauthSharers \in [OAuth!Accounts -> SUBSET OAuthCallers]
  /\ \A a \in OAuth!Accounts : \A c \in oauthSharers[a] : oauthSender[c] = a
  /\ \A a \in OAuth!Accounts : oauthSharers[a] # {} => oauthStage[a] # "idle"

Flight == OAuth!Flights!Next \/ UNCHANGED OAuth!Flights!vars

LEMMA AccountIsSome == \A a \in OAuth!Accounts : a # "none"
  BY ServicesAssumption DEF OAuth!Accounts

LEMMA InitRotatorInv == Init => RotatorInv /\ OAuth!Flights!Init
  <1> SUFFICES ASSUME OAuth!Init PROVE RotatorInv /\ OAuth!Flights!Init
    BY DEF Init
  <1>1. RotatorInv
    BY DEF OAuth!Init, RotatorInv, OAuth!Accounts
  <1>2. OAuth!Flights!Init
    BY DEF OAuth!Init, OAuth!Flights!Init
  <1> QED BY <1>1, <1>2

LEMMA CallbackFlies ==
  ASSUME RotatorInv, NEW l \in OAuthCallbacks, OAuth!CallbackStep(l)
  PROVE  RotatorInv' /\ Flight
  <1>1. UNCHANGED <<oauthSender, oauthAnswer, oauthStage, oauthSharers>>
    BY DEF OAuth!CallbackStep, OAuth!CheckState, OAuth!ConsumeState, OAuth!ExchangeCode,
           OAuth!RetireAccounts, OAuth!InsertAccount, OAuth!CallbackDies, OAuth!rotatorVars
  <1>2. oauthActive' \in {oauthActive, {}, oauthActive \cup {l}}
    BY DEF OAuth!CallbackStep, OAuth!CheckState, OAuth!ConsumeState, OAuth!ExchangeCode,
           OAuth!RetireAccounts, OAuth!InsertAccount, OAuth!CallbackDies
  <1>3. oauthActive' \subseteq OAuth!Accounts
    BY <1>2 DEF RotatorInv, OAuth!Accounts
  <1> QED BY <1>1, <1>3 DEF RotatorInv, Flight, OAuth!Flights!vars

LEMMA CallerFlies ==
  ASSUME RotatorInv, NEW c \in OAuthCallers, OAuth!CallerStep(c)
  PROVE  RotatorInv' /\ Flight
  <1> USE DEF RotatorInv
  <1>1. CASE OAuth!PickSender(c)
    <2>1. PICK a \in oauthActive : oauthSender' = [oauthSender EXCEPT ![c] = a]
      BY <1>1 DEF OAuth!PickSender
    <2>2. oauthSender[c] = "none" /\ oauthAnswer' = [oauthAnswer EXCEPT ![c] = "none"]
          /\ UNCHANGED <<oauthActive, oauthStage, oauthSharers>>
      BY <1>1 DEF OAuth!PickSender, OAuth!accountVars
    <2>3. \A n \in OAuth!Accounts : c \notin oauthSharers[n]
      BY <2>2, AccountIsSome
    <2>4. OAuth!Flights!Call(c)
      BY <2>2, <2>3 DEF OAuth!Flights!Call, OAuth!Flights!Waiting
    <2>5. \A n \in OAuth!Accounts : \A d \in oauthSharers[n] : oauthSender'[d] = oauthSender[d]
      BY <2>1, <2>3
    <2> QED BY <2>1, <2>2, <2>4, <2>5 DEF Flight, OAuth!Flights!Next
  <1>2. ASSUME NEW a \in OAuth!Accounts, OAuth!Asks(c, a)
        PROVE  \A n \in OAuth!Accounts : c \notin oauthSharers[n]
    BY <1>2 DEF OAuth!Asks
  <1>3. ASSUME NEW a \in OAuth!Accounts, OAuth!AnswerFromCache(c, a) PROVE RotatorInv' /\ Flight
    <2>1. \A n \in OAuth!Accounts : c \notin oauthSharers[n]
      BY <1>2, <1>3 DEF OAuth!AnswerFromCache
    <2>2. /\ oauthSender' = [oauthSender EXCEPT ![c] = "none"]
          /\ oauthAnswer' = [oauthAnswer EXCEPT ![c] = "token"]
          /\ UNCHANGED <<oauthActive, oauthStage, oauthSharers>>
      BY <1>3 DEF OAuth!AnswerFromCache, OAuth!accountVars
    <2>3. OAuth!Flights!AnswerAtOnce(c)
      BY <2>1, <2>2 DEF OAuth!Flights!AnswerAtOnce, OAuth!Flights!Waiting
    <2>4. \A n \in OAuth!Accounts : \A d \in oauthSharers[n] : oauthSender'[d] = oauthSender[d]
      BY <2>1, <2>2
    <2> QED BY <2>2, <2>3, <2>4 DEF Flight, OAuth!Flights!Next
  <1>4. ASSUME NEW a \in OAuth!Accounts, OAuth!JoinRefresh(c, a) \/ OAuth!StartRefresh(c, a)
        PROVE  RotatorInv' /\ Flight
    <2>1. \A n \in OAuth!Accounts : c \notin oauthSharers[n]
      BY <1>2, <1>4 DEF OAuth!JoinRefresh, OAuth!StartRefresh
    <2>2. /\ oauthSharers' = [oauthSharers EXCEPT ![a] = @ \cup {c}]
          /\ UNCHANGED <<oauthActive, oauthSender, oauthAnswer>>
      BY <1>4 DEF OAuth!JoinRefresh, OAuth!StartRefresh, OAuth!InFlight, OAuth!accountVars
    <2>3. /\ oauthStage' \in [OAuth!Accounts -> {"idle", "select", "google", "mirror"}]
          /\ oauthStage'[a] # "idle"
          /\ \A n \in OAuth!Accounts \ {a} : oauthStage'[n] = oauthStage[n]
      BY <1>4 DEF OAuth!JoinRefresh, OAuth!StartRefresh, OAuth!InFlight
    <2>4. OAuth!Flights!TakeOffOrBoard(c, a)
      BY <2>1, <2>2 DEF OAuth!Flights!TakeOffOrBoard, OAuth!Flights!Waiting
    <2>5. oauthSender[c] = a
      BY <1>4 DEF OAuth!JoinRefresh, OAuth!StartRefresh, OAuth!Asks
    <2>6. RotatorInv'
      BY <2>2, <2>3, <2>5
    <2> QED BY <2>4, <2>6 DEF Flight, OAuth!Flights!Next
  <1> QED BY <1>1, <1>3, <1>4 DEF OAuth!CallerStep

LEMMA RotatorFlies ==
  ASSUME RotatorInv, NEW a \in OAuth!Accounts, OAuth!RotatorStep(a)
  PROVE  RotatorInv' /\ Flight
  <1> USE DEF RotatorInv
  <1>1. oauthActive' = oauthActive
    BY DEF OAuth!RotatorStep, OAuth!SelectToken, OAuth!RefreshFails, OAuth!StoreToken,
           OAuth!MirrorToken, OAuth!Evict, OAuth!TokenExpires, OAuth!accountVars
  <1>2. ASSUME NEW outcome \in {"token", "error"}, OAuth!Land(a, outcome)
        PROVE  RotatorInv' /\ Flight
    <2>1. /\ oauthAnswer' = [c \in OAuthCallers |->
               IF c \in oauthSharers[a] THEN outcome ELSE oauthAnswer[c]]
          /\ oauthSender' = [c \in OAuthCallers |->
               IF c \in oauthSharers[a] THEN "none" ELSE oauthSender[c]]
          /\ oauthStage' = [oauthStage EXCEPT ![a] = "idle"]
          /\ oauthSharers' = [oauthSharers EXCEPT ![a] = {}]
      BY <1>2 DEF OAuth!Land
    <2>2. OAuth!Flights!Land(a)
      BY <2>1 DEF OAuth!Flights!Land
    <2>3. \A n \in OAuth!Accounts \ {a} : \A c \in oauthSharers[n] :
            c \in OAuthCallers /\ c \notin oauthSharers[a]
      OBVIOUS
    <2>4. oauthSender' \in [OAuthCallers -> OAuth!Accounts \cup {"none"}]
      BY <2>1
    <2>5. RotatorInv'
      BY <1>1, <2>1, <2>3, <2>4
    <2> QED BY <2>2, <2>5 DEF Flight, OAuth!Flights!Next
  <1>3. CASE OAuth!SelectToken(a) \/ OAuth!StoreToken(a) \/ OAuth!TokenExpires(a)
    <2>1. UNCHANGED <<oauthSender, oauthAnswer, oauthSharers>>
      BY <1>3 DEF OAuth!SelectToken, OAuth!StoreToken, OAuth!TokenExpires
    <2>2. /\ oauthStage' \in [OAuth!Accounts -> {"idle", "select", "google", "mirror"}]
          /\ \A n \in OAuth!Accounts : oauthStage[n] # "idle" => oauthStage'[n] # "idle"
      BY <1>3 DEF OAuth!SelectToken, OAuth!StoreToken, OAuth!TokenExpires
    <2> QED BY <1>1, <2>1, <2>2 DEF Flight, OAuth!Flights!vars
  <1> QED BY <1>2, <1>3 DEF OAuth!RotatorStep, OAuth!RefreshFails, OAuth!MirrorToken, OAuth!Evict

LEMMA NextRotatorInv == RotatorInv /\ [Next]_vars => RotatorInv' /\ Flight
  <1> SUFFICES ASSUME RotatorInv, [Next]_vars PROVE RotatorInv' /\ Flight
    OBVIOUS
  <1>1. CASE UNCHANGED oauthVars
    BY <1>1 DEF oauthVars, RotatorInv, Flight, OAuth!Flights!vars
  <1> QED BY <1>1, CallbackFlies, CallerFlies, RotatorFlies, StepOfPart DEF OAuth!Next

(* The token rotators implement the single-flight service, for any number of  *)
(* callers, accounts, logins, failures and expiries: every step of theirs is  *)
(* one of the service or leaves the flights and the answers alone             *)
(* (oauth-rotator.ts:56-62).                                                  *)
THEOREM RotatorsShareFlights == Spec => SharesFlights
  <1>1. Flight => [OAuth!Flights!Next]_OAuth!Flights!vars
    BY DEF Flight
  <1> QED BY <1>1, InitRotatorInv, NextRotatorInv, PTL
          DEF Spec, SharesFlights, OAuth!SharesFlights, OAuth!Flights!Spec

-----------------------------------------------------------------------------
(* The planner.  A run that may act has passed the gate with the limits it    *)
(* loaded; one that dispatches has passed the approval gate as well; and what *)
(* it has sent is what its plan says.                                         *)

PlanTypes ==
  /\ planControls.threshold \in Int
  /\ DOMAIN planAt = PlanRuns /\ planAt = [r \in PlanRuns |-> planAt[r]]
  /\ planLimits = [r \in PlanRuns |-> planLimits[r]]
  /\ planPlan \in [PlanRuns -> [tool : Plan!Senders \cup Plan!Quiet \cup {"none"}, risk : Int,
                                whole : BOOLEAN]]
  /\ planSent = [r \in PlanRuns |-> planSent[r]]

Channel(r) ==
  CASE planPlan[r].tool = "send_email" -> "email"
    [] planPlan[r].tool = "send_whatsapp" -> "whatsapp"
    [] planPlan[r].tool = "place_call" -> "voice"
    [] OTHER -> "none"

GatePassed(r) ==
  /\ Plan!IntendedChannel(r) \notin planLimits[r].revoked
  /\ planLimits[r].allowed = {} \/ Plan!IntendedChannel(r) \in planLimits[r].allowed

Approved(r) ==
  /\ planPlan[r].risk < planLimits[r].threshold
  /\ ~(planPlan[r].tool = "place_call" /\ planLimits[r].callsNeedApproval)

PlanHolds(r) ==
  /\ planLimits[r].threshold \in Int
  /\ planAt[r] \in {"queued", "ask", "save", "approve", "dispatch", "blocked", "pending_human"} =>
       planSent[r] = {}
  /\ planAt[r] \in {"ask", "save", "approve", "dispatch"} => GatePassed(r)
  /\ planAt[r] = "dispatch" => Approved(r)
  /\ planSent[r] # {} => planSent[r] = {Channel(r)} /\ Channel(r) # "none"
                         /\ GatePassed(r) /\ Approved(r)
  /\ planAt[r] \in {"complete", "completed"} /\ Channel(r) # "none" /\ planSent[r] = {} =>
       Channel(r) \notin planLimits[r].reach \/ (Channel(r) # "voice" /\ ~planPlan[r].whole)

PlanInv == PlanTypes /\ \A r \in PlanRuns : PlanHolds(r)

LEMMA InitPlanInv == Init => PlanInv
  <1> SUFFICES ASSUME Plan!Init PROVE PlanInv
    BY DEF Init
  <1>1. planControls.threshold = 8 /\ Plan!Loaded.threshold = 8
    BY DEF Plan!Init, Plan!Defaults, Plan!Loaded
  <1>2. PlanTypes
    BY <1>1 DEF Plan!Init, PlanTypes
  <1>3. \A r \in PlanRuns : PlanHolds(r)
    BY <1>1 DEF Plan!Init, PlanHolds
  <1> QED BY <1>2, <1>3 DEF PlanInv

(* A step of run r leaves the other runs alone. *)
LEMMA PlanStepHolds ==
  ASSUME PlanInv, NEW r \in PlanRuns, PlanTypes', PlanHolds(r)',
         \A q \in PlanRuns \ {r} : /\ planAt'[q] = planAt[q] /\ planLimits'[q] = planLimits[q]
                                   /\ planPlan'[q] = planPlan[q] /\ planSent'[q] = planSent[q]
  PROVE  PlanInv'
  <1>1. \A q \in PlanRuns \ {r} : PlanHolds(q)'
    BY DEF PlanInv, PlanHolds, GatePassed, Approved, Channel, Plan!IntendedChannel
  <1> QED BY <1>1 DEF PlanInv

LEMMA PlanLoads ==
  ASSUME PlanInv, NEW r \in PlanRuns, Plan!LoadContext(r) \/ Plan!OtherVerdict(r)
  PROVE  PlanInv'
  <1> PlanTypes /\ PlanHolds(r)
    BY DEF PlanInv
  <1>1. planAt[r] = "queued"
        /\ UNCHANGED <<planControls, planPlan, planSent>>
    BY DEF Plan!LoadContext, Plan!OtherVerdict, Plan!world
  <1>2. CASE Plan!LoadContext(r)
    <2>1. /\ planLimits' = [planLimits EXCEPT ![r] = Plan!Loaded]
          /\ planAt' = [planAt EXCEPT ![r] =
               IF Plan!PassesGate(Plan!IntendedChannel(r)) THEN "ask" ELSE "blocked"]
      BY <1>2 DEF Plan!LoadContext, Plan!GoTo
    <2>2. PlanTypes'
      BY <1>1, <2>1 DEF PlanTypes
    <2>3. planLimits'[r] = Plan!Loaded
          /\ planAt'[r] = IF Plan!PassesGate(Plan!IntendedChannel(r)) THEN "ask" ELSE "blocked"
      BY <2>1 DEF PlanTypes
    <2>4. /\ Plan!Loaded.threshold = planControls.threshold
          /\ Plan!Loaded.allowed = planControls.allowed
          /\ Plan!Loaded.revoked = planRevoked
      BY DEF Plan!Loaded
    <2>5. planAt'[r] = "ask" => GatePassed(r)'
      BY <2>3, <2>4 DEF GatePassed, Plan!PassesGate, Plan!IntendedChannel
    <2>6. PlanHolds(r)'
      BY <1>1, <2>3, <2>4, <2>5 DEF PlanHolds, PlanTypes
    <2> QED BY <1>1, <2>1, <2>2, <2>6, PlanStepHolds DEF PlanTypes
  <1>3. CASE Plan!OtherVerdict(r)
    <2>1. planLimits' = planLimits /\ planAt' = [planAt EXCEPT ![r] = "blocked"]
      BY <1>3 DEF Plan!OtherVerdict, Plan!GoTo
    <2>2. PlanTypes'
      BY <1>1, <2>1 DEF PlanTypes
    <2>3. planAt'[r] = "blocked"
      BY <2>1 DEF PlanTypes
    <2>4. PlanHolds(r)'
      BY <1>1, <2>1, <2>3 DEF PlanHolds
    <2> QED BY <1>1, <2>1, <2>2, <2>4, PlanStepHolds DEF PlanTypes
  <1> QED BY <1>2, <1>3

(* A step that only moves a run on, to a place where it may be. *)
LEMMA PlanMoves ==
  ASSUME PlanInv, NEW r \in PlanRuns, NEW p, Plan!GoTo(r, p),
         UNCHANGED <<planControls, planLimits, planPlan, planSent>>,
         p \in {"ask", "save", "approve", "dispatch"} =>
           planAt[r] \in {"ask", "save", "approve"},
         p \in {"blocked", "pending_human"} =>
           planAt[r] \in {"ask", "save", "approve"},
         p # "queued",
         p = "dispatch" => Approved(r),
         p \in {"complete", "completed"} => planAt[r] = "complete"
  PROVE  PlanInv'
  <1> PlanTypes /\ PlanHolds(r)
    BY DEF PlanInv
  <1>1. planAt' = [planAt EXCEPT ![r] = p]
    BY DEF Plan!GoTo
  <1>2. PlanTypes'
    BY <1>1 DEF PlanTypes
  <1>3. planAt'[r] = p
    BY <1>1 DEF PlanTypes
  <1>4. /\ Channel(r)' = Channel(r) /\ GatePassed(r)' = GatePassed(r)
        /\ Approved(r)' = Approved(r)
    BY DEF Channel, GatePassed, Approved, Plan!IntendedChannel
  <1>5. PlanHolds(r)'
    BY <1>3, <1>4 DEF PlanHolds
  <1> QED BY <1>1, <1>2, <1>5, PlanStepHolds DEF PlanTypes

LEMMA PlanAsks ==
  ASSUME PlanInv, NEW r \in PlanRuns,
         Plan!AskModel(r) \/ Plan!InvalidAnswer(r) \/ Plan!ApiError(r) \/ Plan!SaveDecision(r)
  PROVE  PlanInv'
  <1> PlanTypes /\ PlanHolds(r)
    BY DEF PlanInv
  <1>1. CASE Plan!AskModel(r)
    <2>1. PICK a \in Plan!Answered : planPlan' = [planPlan EXCEPT ![r] = a]
      BY <1>1 DEF Plan!AskModel
    <2>2. planAt[r] = "ask" /\ planAt' = [planAt EXCEPT ![r] = "save"]
          /\ UNCHANGED <<planControls, planLimits, planSent>>
      BY <1>1 DEF Plan!AskModel, Plan!GoTo, Plan!world
    <2>3. Plan!RiskLevels \subseteq Int
      BY ServicesAssumption DEF Plan!RiskLevels, Plan!Clamp
    <2>4. a \in [tool : Plan!Senders \cup Plan!Quiet \cup {"none"}, risk : Int, whole : BOOLEAN]
      BY <2>3 DEF Plan!Answered
    <2>5. PlanTypes'
      BY <2>1, <2>2, <2>4 DEF PlanTypes
    <2>6. planAt'[r] = "save" /\ GatePassed(r)' = GatePassed(r)
      BY <2>2 DEF PlanTypes, GatePassed, Plan!IntendedChannel
    <2>7. PlanHolds(r)'
      BY <2>2, <2>6 DEF PlanHolds
    <2> QED BY <2>1, <2>2, <2>5, <2>7, PlanStepHolds DEF PlanTypes
  <1>2. CASE Plan!InvalidAnswer(r)
    BY <1>2, PlanMoves DEF Plan!InvalidAnswer, Plan!world
  <1>3. CASE Plan!ApiError(r)
    BY <1>3, PlanMoves DEF Plan!ApiError, Plan!world
  <1>4. CASE Plan!SaveDecision(r)
    BY <1>4, PlanMoves DEF Plan!SaveDecision, Plan!world
  <1> QED BY <1>1, <1>2, <1>3, <1>4

LEMMA PlanApproves ==
  ASSUME PlanInv, NEW r \in PlanRuns, Plan!ApprovalGate(r)
  PROVE  PlanInv'
  <1> PlanTypes /\ PlanHolds(r)
    BY DEF PlanInv
  <1>1. planPlan[r].risk \in Int /\ planLimits[r].threshold \in Int
    BY DEF PlanTypes, PlanHolds
  <1>2. ~Plan!NeedsApproval(r) => Approved(r)
    BY <1>1 DEF Plan!NeedsApproval, Approved
  <1> QED BY <1>2, PlanMoves DEF Plan!ApprovalGate, Plan!world

LEMMA PlanDispatches ==
  ASSUME PlanInv, NEW r \in PlanRuns, NEW tool, NEW channel, NEW sendable \in BOOLEAN,
         Plan!Dispatches(r, tool, channel, sendable),
         \/ tool = "send_email" /\ channel = "email" /\ sendable = planPlan[r].whole
         \/ tool = "send_whatsapp" /\ channel = "whatsapp" /\ sendable = planPlan[r].whole
         \/ tool = "place_call" /\ channel = "voice" /\ sendable
  PROVE  PlanInv'
  <1> PlanTypes /\ PlanHolds(r)
    BY DEF PlanInv
  <1>1. /\ planAt[r] = "dispatch" /\ planPlan[r].tool = tool
        /\ planAt' = [planAt EXCEPT ![r] = "complete"]
        /\ UNCHANGED <<planControls, planLimits, planPlan>>
        /\ planSent' = IF channel \in planLimits[r].reach /\ sendable
                       THEN [planSent EXCEPT ![r] = @ \cup {channel}] ELSE planSent
    BY DEF Plan!Dispatches, Plan!GoTo, Plan!world
  <1>2. Channel(r) = channel /\ channel # "none"
    BY <1>1 DEF Channel
  <1>3. planSent[r] = {} /\ GatePassed(r) /\ Approved(r)
    BY <1>1 DEF PlanHolds
  <1>4. /\ Channel(r)' = Channel(r) /\ GatePassed(r)' = GatePassed(r)
        /\ Approved(r)' = Approved(r) /\ planAt'[r] = "complete"
    BY <1>1 DEF Channel, GatePassed, Approved, Plan!IntendedChannel, PlanTypes
  <1>5. CASE channel \in planLimits[r].reach /\ sendable
    <2>1. planSent' = [planSent EXCEPT ![r] = @ \cup {channel}]
      BY <1>1, <1>5
    <2>2. planSent'[r] = {channel}
      BY <1>3, <2>1 DEF PlanTypes
    <2>3. PlanTypes'
      <3>1. DOMAIN planAt' = PlanRuns /\ planAt' = [p \in PlanRuns |-> planAt'[p]]
        BY <1>1 DEF PlanTypes
      <3>2. planSent' = [p \in PlanRuns |-> planSent'[p]]
        BY <2>1 DEF PlanTypes
      <3> QED BY <1>1, <3>1, <3>2 DEF PlanTypes
    <2>4. PlanHolds(r)'
      BY <1>1, <1>2, <1>3, <1>4, <2>2 DEF PlanHolds
    <2> QED BY <1>1, <2>1, <2>3, <2>4, PlanStepHolds DEF PlanTypes
  <1>6. CASE ~(channel \in planLimits[r].reach /\ sendable)
    <2>1. planSent' = planSent
      BY <1>1, <1>6
    <2>2. PlanTypes'
      BY <1>1, <2>1 DEF PlanTypes
    <2>3. channel \notin planLimits[r].reach \/ (channel # "voice" /\ ~planPlan[r].whole)
      BY <1>6
    <2>4. PlanHolds(r)'
      BY <1>1, <1>2, <1>3, <1>4, <2>1, <2>3 DEF PlanHolds
    <2> QED BY <1>1, <2>1, <2>2, <2>4, PlanStepHolds DEF PlanTypes
  <1> QED BY <1>5, <1>6

LEMMA PlanEnds ==
  ASSUME PlanInv, NEW r \in PlanRuns,
         \/ Plan!DispatchEmail(r) \/ Plan!DispatchWhatsApp(r) \/ Plan!DispatchVoiceCall(r)
         \/ Plan!DispatchQuiet(r) \/ Plan!DispatchFails(r) \/ Plan!Complete(r)
  PROVE  PlanInv'
  <1> PlanTypes /\ PlanHolds(r)
    BY DEF PlanInv
  <1>1. planPlan[r].whole \in BOOLEAN
    BY DEF PlanTypes
  <1>2. CASE Plan!DispatchEmail(r)
    BY <1>1, <1>2, PlanDispatches DEF Plan!DispatchEmail
  <1>3. CASE Plan!DispatchWhatsApp(r)
    BY <1>1, <1>3, PlanDispatches DEF Plan!DispatchWhatsApp
  <1>4. CASE Plan!DispatchVoiceCall(r)
    BY <1>4, PlanDispatches DEF Plan!DispatchVoiceCall
  <1>5. CASE Plan!DispatchQuiet(r)
    <2>1. planAt[r] = "dispatch" /\ planAt' = [planAt EXCEPT ![r] = "complete"]
          /\ UNCHANGED <<planControls, planLimits, planPlan, planSent>>
      BY <1>5 DEF Plan!DispatchQuiet, Plan!GoTo, Plan!world
    <2>2. Channel(r) = "none"
      BY <1>5 DEF Plan!DispatchQuiet, Plan!Quiet, Channel
    <2>3. /\ Channel(r)' = Channel(r) /\ GatePassed(r)' = GatePassed(r)
          /\ Approved(r)' = Approved(r) /\ planAt'[r] = "complete"
      BY <2>1 DEF Channel, GatePassed, Approved, Plan!IntendedChannel, PlanTypes
    <2>4. PlanTypes'
      BY <2>1 DEF PlanTypes
    <2>5. PlanHolds(r)'
      BY <2>1, <2>2, <2>3 DEF PlanHolds
    <2> QED BY <2>1, <2>4, <2>5, PlanStepHolds DEF PlanTypes
  <1>6. CASE Plan!DispatchFails(r)
    BY <1>6, PlanMoves DEF Plan!DispatchFails, Plan!world
  <1>7. CASE Plan!Complete(r)
    BY <1>7, PlanMoves DEF Plan!Complete, Plan!world
  <1> QED BY <1>2, <1>3, <1>4, <1>5, <1>6, <1>7

LEMMA NextPlanInv == PlanInv /\ [Next]_vars => PlanInv'
  <1> SUFFICES ASSUME PlanInv, [Next]_vars PROVE PlanInv'
    OBVIOUS
  <1>1. ASSUME UNCHANGED <<planAt, planLimits, planPlan, planSent>>,
               planControls'.threshold \in Int
        PROVE  PlanInv'
    BY <1>1 DEF PlanInv, PlanTypes, PlanHolds, GatePassed, Approved, Channel,
                Plan!IntendedChannel
  <1>2. CASE UNCHANGED planVars
    BY <1>1, <1>2 DEF planVars, PlanInv, PlanTypes
  <1>3. CASE Plan!EditControls
    <2>1. planControls'.threshold \in Int
      BY <1>3 DEF Plan!EditControls
    <2> QED BY <1>1, <1>3, <2>1 DEF Plan!EditControls
  <1>4. CASE Plan!EditConsent \/ Plan!EditReach
    BY <1>1, <1>4 DEF Plan!EditConsent, Plan!EditReach, PlanInv, PlanTypes
  <1>5. ASSUME NEW r \in PlanRuns, Plan!RunStep(r) PROVE PlanInv'
    BY <1>5, PlanLoads, PlanAsks, PlanApproves, PlanEnds DEF Plan!RunStep
  <1> QED BY <1>2, <1>3, <1>4, <1>5, StepOfPart DEF Plan!Next

(* A message of the agent is on the channel of its saved plan and within the  *)
(* limits that its run loaded, whatever the model answers, and operators and  *)
(* contacts change meanwhile, for any number of runs and changes              *)
(* (icrv-agent index.ts:116-182, llm-planner.ts:400-570, dispatcher.ts:151).  *)
THEOREM AgentActsWithinLimits == Spec => []ActsWithinLimits
  <1>1. PlanInv => ActsWithinLimits
    <2> SUFFICES ASSUME PlanInv, NEW r \in PlanRuns
                 PROVE  /\ planSent[r] # {} =>
                             /\ planSent[r] = {Channel(r)}
                             /\ planPlan[r].risk < planLimits[r].threshold
                             /\ ~(Channel(r) = "voice" /\ planLimits[r].callsNeedApproval)
                             /\ Channel(r) = Plan!IntendedChannel(r) => GatePassed(r)
                        /\ planAt[r] = "completed" /\ Channel(r) # "none" /\ planSent[r] = {} =>
                             \/ Channel(r) \notin planLimits[r].reach
                             \/ Channel(r) # "voice" /\ ~planPlan[r].whole
      BY DEF ActsWithinLimits, Plan!ActsWithinLimits, Channel, GatePassed
    <2>1. Channel(r) = "voice" => planPlan[r].tool = "place_call"
      BY DEF Channel
    <2> QED BY <2>1 DEF PlanInv, PlanHolds, Approved
  <1> QED BY <1>1, InitPlanInv, NextPlanInv, PTL DEF Spec

-----------------------------------------------------------------------------
(* Rows that are retired and then replaced.  Of accounts and of secrets, those *)
(* that are live and those about to be inserted are as many as one and the     *)
(* requests that overlapped; an undisturbed key is live alone, and shown once  *)
(* its request is through.                                                     *)

LEMMA SameCardinalities ==
  ASSUME NEW S
  PROVE  /\ OAuth!Cardinality(S) = Cardinality(S)
         /\ Secrets!Cardinality(S) = Cardinality(S)
  BY DEF OAuth!Cardinality, Secrets!Cardinality, Cardinality

LoginInv ==
  /\ oauthLogin \in [OAuthCallbacks -> OAuth!Before \cup {"insert", "done", "failed", "lost"}]
  /\ IsFiniteSet(oauthActive) /\ oauthOverlaps \in Nat
  /\ Cardinality(oauthActive) + Cardinality(OAuth!Inserting) <= 1 + oauthOverlaps
  /\ oauthActive = {} => \E l \in OAuthCallbacks : oauthLogin[l] \in {"insert", "lost"}

LEMMA InsertingFinite == IsFiniteSet(OAuth!Inserting) /\ Cardinality(OAuth!Inserting) \in Nat
  <1>1. IsFiniteSet(OAuth!Inserting)
    BY ServicesAssumption, FS_Subset DEF OAuth!Inserting
  <1> QED BY <1>1, FS_CardinalityType

LEMMA InitLoginInv == Init => LoginInv
  <1> SUFFICES ASSUME OAuth!Init PROVE LoginInv
    BY DEF Init
  <1>1. oauthActive = {OAuthFirst} /\ OAuth!Inserting = {} /\ oauthOverlaps = 0
    BY DEF OAuth!Init, OAuth!Inserting
  <1>2. IsFiniteSet(oauthActive) /\ Cardinality(oauthActive) = 1
        /\ Cardinality(OAuth!Inserting) = 0
    BY <1>1, FS_Singleton, FS_EmptySet
  <1>3. oauthLogin \in [OAuthCallbacks -> OAuth!Before \cup {"insert", "done", "failed", "lost"}]
    BY DEF OAuth!Init, OAuth!Before
  <1> QED BY <1>1, <1>2, <1>3 DEF LoginInv

LEMMA NextLoginInv == LoginInv /\ [Next]_vars => LoginInv'
  <1> SUFFICES ASSUME LoginInv, [Next]_vars PROVE LoginInv'
    OBVIOUS
  <1>0. /\ oauthLogin \in [OAuthCallbacks -> OAuth!Before \cup {"insert", "done", "failed", "lost"}]
        /\ IsFiniteSet(oauthActive) /\ oauthOverlaps \in Nat /\ Cardinality(oauthActive) \in Nat
        /\ Cardinality(oauthActive) + Cardinality(OAuth!Inserting) <= 1 + oauthOverlaps
        /\ oauthActive = {} => \E l \in OAuthCallbacks : oauthLogin[l] \in {"insert", "lost"}
    BY FS_CardinalityType DEF LoginInv
  <1>1. ASSUME UNCHANGED <<oauthActive, oauthOverlaps, oauthLogin>>
        PROVE  LoginInv'
    BY <1>1 DEF LoginInv, OAuth!Inserting
  <1>2. ASSUME NEW l \in OAuthCallbacks, NEW p \in OAuth!Before \cup {"done", "failed", "lost"},
               OAuth!GoOn(l, p), oauthLogin[l] # "lost",
               oauthLogin[l] = "insert" => p = "lost",
               UNCHANGED <<oauthActive, oauthOverlaps>>
        PROVE  LoginInv'
    <2>1. oauthLogin' = [oauthLogin EXCEPT ![l] = p]
      BY <1>2 DEF OAuth!GoOn
    <2>2. oauthLogin' \in [OAuthCallbacks -> OAuth!Before \cup {"insert", "done", "failed", "lost"}]
          /\ oauthLogin'[l] = p
          /\ \A k \in OAuthCallbacks \ {l} : oauthLogin'[k] = oauthLogin[k]
      BY <1>0, <2>1
    <2>3. OAuth!Inserting' \subseteq OAuth!Inserting
      BY <1>2, <2>2 DEF OAuth!Inserting, OAuth!Before
    <2>4. Cardinality(OAuth!Inserting') <= Cardinality(OAuth!Inserting)
          /\ Cardinality(OAuth!Inserting') \in Nat
      BY <2>3, InsertingFinite, FS_Subset, FS_CardinalityType
    <2>5. oauthActive = {} => \E k \in OAuthCallbacks : oauthLogin'[k] \in {"insert", "lost"}
      BY <1>0, <1>2, <2>2
    <2>6. Cardinality(oauthActive) + Cardinality(OAuth!Inserting') <= 1 + oauthOverlaps
      BY <1>0, <2>4, InsertingFinite
    <2> QED BY <1>0, <1>2, <2>2, <2>5, <2>6 DEF LoginInv
  <1>3. ASSUME NEW l \in OAuthCallbacks, OAuth!RetireAccounts(l) PROVE LoginInv'
    <2>1. /\ oauthLogin[l] = "exchanged" /\ oauthActive' = {}
          /\ oauthOverlaps' = oauthOverlaps + Cardinality(OAuth!Inserting)
          /\ oauthLogin' = [oauthLogin EXCEPT ![l] = "insert"]
      BY <1>3, SameCardinalities DEF OAuth!RetireAccounts, OAuth!GoOn
    <2>2. oauthLogin' \in [OAuthCallbacks -> OAuth!Before \cup {"insert", "done", "failed", "lost"}]
          /\ oauthLogin'[l] = "insert"
          /\ \A k \in OAuthCallbacks \ {l} : oauthLogin'[k] = oauthLogin[k]
      BY <1>0, <2>1
    <2>3. l \notin OAuth!Inserting /\ OAuth!Inserting' = OAuth!Inserting \cup {l}
      BY <2>1, <2>2 DEF OAuth!Inserting
    <2>4. Cardinality(OAuth!Inserting') = Cardinality(OAuth!Inserting) + 1
      BY <2>3, InsertingFinite, FS_AddElement
    <2>5. IsFiniteSet(oauthActive') /\ Cardinality(oauthActive') = 0
      BY <2>1, FS_EmptySet
    <2> QED BY <1>0, <2>1, <2>2, <2>4, <2>5, InsertingFinite DEF LoginInv
  <1>4. ASSUME NEW l \in OAuthCallbacks, OAuth!InsertAccount(l) PROVE LoginInv'
    <2>1. /\ oauthLogin[l] = "insert" /\ oauthActive' = oauthActive \cup {l}
          /\ oauthOverlaps' = oauthOverlaps
          /\ oauthLogin' = [oauthLogin EXCEPT ![l] = "done"]
      BY <1>4 DEF OAuth!InsertAccount, OAuth!GoOn
    <2>2. oauthLogin' \in [OAuthCallbacks -> OAuth!Before \cup {"insert", "done", "failed", "lost"}]
          /\ oauthLogin'[l] = "done"
          /\ \A k \in OAuthCallbacks \ {l} : oauthLogin'[k] = oauthLogin[k]
      BY <1>0, <2>1
    <2>3. l \in OAuth!Inserting /\ OAuth!Inserting' = OAuth!Inserting \ {l}
      BY <2>1, <2>2 DEF OAuth!Inserting
    <2>4. Cardinality(OAuth!Inserting') = Cardinality(OAuth!Inserting) - 1
      BY <2>3, InsertingFinite, FS_RemoveElement
    <2>5. IsFiniteSet(oauthActive') /\ Cardinality(oauthActive') \in Nat
          /\ Cardinality(oauthActive') <= Cardinality(oauthActive) + 1
      BY <1>0, <2>1, FS_AddElement
    <2> QED BY <1>0, <2>1, <2>2, <2>4, <2>5, InsertingFinite DEF LoginInv
  <1>5. ASSUME NEW l \in OAuthCallbacks, OAuth!CallbackStep(l) PROVE LoginInv'
    BY <1>2, <1>3, <1>4, <1>5
       DEF OAuth!CallbackStep, OAuth!CheckState, OAuth!ConsumeState, OAuth!ExchangeCode,
           OAuth!CallbackDies, OAuth!Before
  <1>6. ASSUME NEW c \in OAuthCallers, OAuth!CallerStep(c) PROVE LoginInv'
    BY <1>1, <1>6 DEF OAuth!CallerStep, OAuth!PickSender, OAuth!AnswerFromCache,
                      OAuth!JoinRefresh, OAuth!StartRefresh, OAuth!accountVars
  <1>7. ASSUME NEW a \in OAuth!Accounts, OAuth!RotatorStep(a) PROVE LoginInv'
    BY <1>1, <1>7 DEF OAuth!RotatorStep, OAuth!SelectToken, OAuth!RefreshFails,
                      OAuth!StoreToken, OAuth!MirrorToken, OAuth!Evict, OAuth!TokenExpires,
                      OAuth!accountVars
  <1> QED BY <1>1, <1>5, <1>6, <1>7, StepOfPart DEF OAuth!Next, oauthVars

SecretsTypes ==
  /\ secretsSave \in [SecretsSaves -> {"start", "insert", "mirror", "done", "lost"}]
  /\ IsFiniteSet(secretsLive) /\ secretsOverlaps \in Nat /\ secretsFailures \in Nat
  /\ secretsCrossed \in BOOLEAN

SecretsCounted ==
  /\ Cardinality(secretsLive) + Cardinality(Secrets!At("insert")) <= 1 + secretsOverlaps
  /\ secretsLive = {} => Secrets!At("insert") \cup Secrets!At("lost") # {}

Replacing == Secrets!At("insert") \cup Secrets!At("mirror")

Undisturbed == secretsKind = "api_key" /\ ~secretsCrossed /\ secretsFailures = 0

KeyAlone ==
  /\ \A s, t \in Replacing : s = t
  /\ \A s \in Secrets!At("insert") : secretsLive = {}
  /\ \A s \in Secrets!At("mirror") : secretsLive = {s}
  /\ Replacing = {} => secretsLive = {secretsShown}

SecretsInv == SecretsTypes /\ SecretsCounted /\ (Undisturbed => KeyAlone)

LEMMA SavesFinite ==
  ASSUME NEW p
  PROVE  IsFiniteSet(Secrets!At(p)) /\ Cardinality(Secrets!At(p)) \in Nat
  <1>1. IsFiniteSet(Secrets!At(p))
    BY ServicesAssumption, FS_Subset DEF Secrets!At
  <1> QED BY <1>1, FS_CardinalityType

LEMMA InitSecretsInv == Init => SecretsInv
  <1> SUFFICES ASSUME Secrets!Init PROVE SecretsInv
    BY DEF Init
  <1>1. secretsLive = {SecretsFirst} /\ secretsShown = SecretsFirst /\ secretsOverlaps = 0
        /\ secretsFailures = 0
    BY DEF Secrets!Init
  <1>2. Secrets!At("insert") = {} /\ Secrets!At("mirror") = {}
    BY DEF Secrets!Init, Secrets!At
  <1>3. IsFiniteSet(secretsLive) /\ Cardinality(secretsLive) = 1
        /\ Cardinality(Secrets!At("insert")) = 0
    BY <1>1, <1>2, FS_Singleton, FS_EmptySet
  <1>4. secretsCrossed \in BOOLEAN
    BY DEF Secrets!Init
  <1>5. secretsSave \in [SecretsSaves -> {"start", "insert", "mirror", "done", "lost"}]
    BY DEF Secrets!Init
  <1>6. SecretsTypes /\ SecretsCounted
    BY <1>1, <1>3, <1>4, <1>5 DEF SecretsTypes, SecretsCounted
  <1>7. KeyAlone
    BY <1>1, <1>2 DEF KeyAlone, Replacing
  <1> QED BY <1>6, <1>7 DEF SecretsInv

(* Where the requests are after s went on to p. *)
LEMMA SaveGoesOn ==
  ASSUME SecretsTypes, NEW s \in SecretsSaves,
         NEW p \in {"start", "insert", "mirror", "done", "lost"}, Secrets!GoOn(s, p)
  PROVE  /\ secretsSave' \in [SecretsSaves -> {"start", "insert", "mirror", "done", "lost"}]
         /\ \A q : Secrets!At(q)' = IF q = p THEN Secrets!At(q) \cup {s} ELSE Secrets!At(q) \ {s}
         /\ \A q : s \in Secrets!At(q) <=> q = secretsSave[s]
  BY DEF SecretsTypes, Secrets!GoOn, Secrets!At

LEMMA SecretRetired ==
  ASSUME SecretsInv, NEW s \in SecretsSaves, Secrets!Retire(s)
  PROVE  SecretsInv'
  <1> SecretsTypes /\ SecretsCounted
    BY DEF SecretsInv
  <1>1. /\ secretsSave[s] = "start" /\ Secrets!GoOn(s, "insert") /\ secretsLive' = {}
        /\ secretsOverlaps' = secretsOverlaps + Cardinality(Secrets!At("insert"))
        /\ UNCHANGED <<secretsKind, secretsShown, secretsFailures>>
    BY SameCardinalities DEF Secrets!Retire
  <1>2. secretsCrossed' = (secretsCrossed \/ Replacing # {})
    BY DEF Secrets!Retire, Replacing
  <1>3. /\ Secrets!At("insert")' = Secrets!At("insert") \cup {s}
        /\ Secrets!At("mirror")' = Secrets!At("mirror") \ {s}
        /\ s \notin Secrets!At("insert") /\ s \notin Secrets!At("mirror")
    BY <1>1, SaveGoesOn
  <1>4. Cardinality(Secrets!At("insert")') = Cardinality(Secrets!At("insert")) + 1
    BY <1>3, SavesFinite, FS_AddElement
  <1>5. IsFiniteSet({}) /\ Cardinality({}) = 0
    BY FS_EmptySet
  <1>6. secretsCrossed' \in BOOLEAN
    BY <1>2, Zenon
  <1>7. SecretsTypes'
    BY <1>1, <1>5, <1>6, SaveGoesOn, SavesFinite DEF SecretsTypes
  <1>8. SecretsCounted'
    BY <1>1, <1>3, <1>4, <1>5, SavesFinite DEF SecretsCounted, SecretsTypes
  <1>9. Undisturbed' => KeyAlone'
    <2> SUFFICES ASSUME Undisturbed' PROVE KeyAlone'
      OBVIOUS
    <2>1. Replacing = {}
      BY <1>2 DEF Undisturbed
    <2>2. Secrets!At("insert")' = {s} /\ Secrets!At("mirror")' = {}
      BY <1>3, <2>1 DEF Replacing
    <2> QED BY <1>1, <2>2 DEF KeyAlone, Replacing
  <1> QED BY <1>7, <1>8, <1>9 DEF SecretsInv

LEMMA SecretInserted ==
  ASSUME SecretsInv, NEW s \in SecretsSaves, Secrets!Insert(s)
  PROVE  SecretsInv'
  <1> SecretsTypes /\ SecretsCounted
    BY DEF SecretsInv
  <1> DEFINE p == IF secretsKind = "api_key" THEN "mirror" ELSE "done"
  <1>1. /\ secretsSave[s] = "insert" /\ Secrets!GoOn(s, p)
        /\ secretsLive' = secretsLive \cup {s}
        /\ UNCHANGED <<secretsKind, secretsOverlaps, secretsCrossed, secretsShown, secretsFailures>>
    BY DEF Secrets!Insert
  <1>2. p \in {"mirror", "done"}
    OBVIOUS
  <1>3. s \in Secrets!At("insert") /\ Secrets!At("insert")' = Secrets!At("insert") \ {s}
    BY <1>1, <1>2, SaveGoesOn
  <1>4. Cardinality(Secrets!At("insert")') = Cardinality(Secrets!At("insert")) - 1
    BY <1>3, SavesFinite, FS_RemoveElement
  <1>5. /\ IsFiniteSet(secretsLive') /\ Cardinality(secretsLive') \in Nat
        /\ Cardinality(secretsLive) \in Nat
        /\ Cardinality(secretsLive') <= Cardinality(secretsLive) + 1
    BY <1>1, FS_AddElement, FS_CardinalityType DEF SecretsTypes
  <1>6. SecretsTypes'
    BY <1>1, <1>2, <1>5, SaveGoesOn DEF SecretsTypes
  <1>7. SecretsCounted'
    BY <1>1, <1>4, <1>5, SavesFinite DEF SecretsCounted, SecretsTypes
  <1>8. Undisturbed' => KeyAlone'
    <2> SUFFICES ASSUME Undisturbed' PROVE KeyAlone'
      OBVIOUS
    <2>1. Undisturbed /\ p = "mirror"
      BY <1>1 DEF Undisturbed
    <2>2. KeyAlone
      BY <2>1 DEF SecretsInv
    <2>3. Secrets!At("mirror")' = Secrets!At("mirror") \cup {s}
      BY <1>1, <1>2, <2>1, SaveGoesOn
    <2>4. Secrets!At("insert")' = {} /\ Secrets!At("mirror")' = {s} /\ secretsLive' = {s}
      BY <1>1, <1>3, <2>2, <2>3 DEF KeyAlone, Replacing
    <2> QED BY <2>4 DEF KeyAlone, Replacing
  <1> QED BY <1>6, <1>7, <1>8 DEF SecretsInv

LEMMA SecretMirrored ==
  ASSUME SecretsInv, NEW s \in SecretsSaves, Secrets!Mirror(s)
  PROVE  SecretsInv'
  <1> SecretsTypes /\ SecretsCounted
    BY DEF SecretsInv
  <1>1. /\ secretsSave[s] = "mirror" /\ Secrets!GoOn(s, "done") /\ secretsShown' = s
        /\ UNCHANGED <<secretsKind, secretsLive, secretsOverlaps, secretsCrossed, secretsFailures>>
    BY DEF Secrets!Mirror
  <1>2. /\ Secrets!At("insert")' = Secrets!At("insert")
        /\ Secrets!At("lost")' = Secrets!At("lost")
        /\ s \in Secrets!At("mirror") /\ Secrets!At("mirror")' = Secrets!At("mirror") \ {s}
    BY <1>1, SaveGoesOn
  <1>3. SecretsTypes' /\ SecretsCounted'
    BY <1>1, <1>2, SaveGoesOn DEF SecretsTypes, SecretsCounted
  <1>4. Undisturbed' => KeyAlone'
    <2> SUFFICES ASSUME Undisturbed' PROVE KeyAlone'
      OBVIOUS
    <2>1. KeyAlone
      BY <1>1 DEF Undisturbed, SecretsInv
    <2>2. Secrets!At("insert")' = {} /\ Secrets!At("mirror")' = {} /\ secretsLive = {s}
      BY <1>2, <2>1 DEF KeyAlone, Replacing
    <2> QED BY <1>1, <2>2 DEF KeyAlone, Replacing
  <1> QED BY <1>3, <1>4 DEF SecretsInv

LEMMA SecretLost ==
  ASSUME SecretsInv, NEW s \in SecretsSaves, Secrets!Die(s)
  PROVE  SecretsInv'
  <1> SecretsTypes /\ SecretsCounted
    BY DEF SecretsInv
  <1>1. /\ Secrets!GoOn(s, "lost") /\ secretsFailures' = secretsFailures + 1
        /\ UNCHANGED <<secretsKind, secretsLive, secretsOverlaps, secretsCrossed>>
    BY DEF Secrets!Die
  <1>2. /\ Secrets!At("insert")' \subseteq Secrets!At("insert")
        /\ Secrets!At("lost")' = Secrets!At("lost") \cup {s}
    BY <1>1, SaveGoesOn
  <1>3. Cardinality(Secrets!At("insert")') <= Cardinality(Secrets!At("insert"))
        /\ Cardinality(Secrets!At("insert")') \in Nat /\ Cardinality(secretsLive) \in Nat
    BY <1>2, SavesFinite, FS_Subset, FS_CardinalityType DEF SecretsTypes
  <1>4. SecretsTypes'
    BY <1>1, SaveGoesOn DEF SecretsTypes
  <1>5. SecretsCounted'
    BY <1>1, <1>2, <1>3, SavesFinite DEF SecretsCounted, SecretsTypes
  <1>6. ~Undisturbed'
    BY <1>1 DEF Undisturbed, SecretsTypes
  <1> QED BY <1>4, <1>5, <1>6 DEF SecretsInv

LEMMA NextSecretsInv == SecretsInv /\ [Next]_vars => SecretsInv'
  <1> SUFFICES ASSUME SecretsInv, [Next]_vars PROVE SecretsInv'
    OBVIOUS
  <1>1. ASSUME UNCHANGED <<secretsKind, secretsLive, secretsSave, secretsOverlaps,
                           secretsCrossed, secretsShown, secretsFailures>>
        PROVE  SecretsInv'
    BY <1>1 DEF SecretsInv, SecretsTypes, SecretsCounted, Undisturbed, KeyAlone, Replacing,
                Secrets!At
  <1>2. ASSUME NEW j \in SecretsJobs, Secrets!Compose(j) \/ Secrets!Load(j) PROVE SecretsInv'
    BY <1>1, <1>2 DEF Secrets!Compose, Secrets!Load
  <1>3. CASE UNCHANGED secretsVars
    BY <1>1, <1>3 DEF secretsVars
  <1> QED BY <1>2, <1>3, SecretRetired, SecretInserted, SecretMirrored, SecretLost, StepOfPart
          DEF Secrets!Next

(* After logins and saves exactly one account, secret or key is live, but for *)
(* those that overlapped or died between retiring the old one and inserting   *)
(* the new one; and the digits shown of an undisturbed key are its own: for   *)
(* any number of logins and saves (icrv-api index.ts:189-217, misc.ts:615-700, *)
(* api-keys.ts:20-57).                                                        *)
THEOREM CredentialsAreFollowed == Spec => []CredentialsFollowLogins
  <1>1. LoginInv => OAuth!AccountsFollowLogins
    BY SameCardinalities DEF LoginInv, OAuth!AccountsFollowLogins
  <1>2. SecretsInv => Secrets!SecretsFollowSaves
    BY SameCardinalities DEF SecretsInv, SecretsCounted, Undisturbed, KeyAlone, Replacing,
                             Secrets!SecretsFollowSaves
  <1>3. LoginInv /\ SecretsInv => CredentialsFollowLogins
    BY <1>1, <1>2 DEF CredentialsFollowLogins
  <1> QED BY <1>3, InitLoginInv, NextLoginInv, InitSecretsInv, NextSecretsInv, PTL DEF Spec

-----------------------------------------------------------------------------
(* Types. Each invariant above holds the types that its own argument needs;   *)
(* with the ranges below they make the types of the whole state.              *)

(* Hits and their opens: the counts and the marks in KV are natural numbers. *)
TrackCounts ==
  /\ trackRead \in [TrackHits -> Nat] /\ trackKv \in [Track!Kinds -> Nat]
  /\ trackHits \in [Track!Kinds -> Nat] /\ trackTaken \in Nat /\ trackFlushed \in Nat
  /\ trackRolls \in 0..TrackMaxRolls /\ trackFailures \in 0..TrackMaxFailures

LEMMA TrackTypesAre == TrackTypes /\ TrackCounts => Track!TypeOK
  BY DEF TrackTypes, TrackCounts, Track!TypeOK

LEMMA InitTrackCounts == Track!Init => TrackCounts
  <1> TrackMaxRolls \in Nat /\ TrackMaxFailures \in Nat
    BY ServicesBounds
  <1> QED BY DEF Track!Init, TrackCounts, Track!Kinds

LEMMA NextTrackCounts ==
  ASSUME TrackTypes, TrackCounts, Track!Next \/ UNCHANGED trackVars
  PROVE  TrackCounts'
  <1> TrackMaxRolls \in Nat /\ TrackMaxFailures \in Nat
    BY ServicesBounds
  <1> USE DEF TrackCounts
  <1>1. ASSUME NEW h \in TrackHits, Track!ReadCount(h) PROVE TrackCounts'
    BY <1>1 DEF Track!ReadCount
  <1>2. ASSUME NEW h \in TrackHits, Track!PutCount(h) PROVE TrackCounts'
    BY <1>2 DEF Track!PutCount, TrackTypes
  <1>3. CASE Track!TakeCount
    BY <1>3 DEF Track!TakeCount, Track!Kinds
  <1>4. CASE Track!InsertEvents
    BY <1>4 DEF Track!InsertEvents, Track!Fails
  <1>5. CASE Track!DeleteCount
    BY <1>5 DEF Track!DeleteCount, Track!Fails
  <1>6. ASSUME NEW k \in Track!Kinds, Track!CountExpires(k) PROVE TrackCounts'
    BY <1>6 DEF Track!CountExpires, Track!Fails
  <1>7. CASE UNCHANGED trackVars
    BY <1>7 DEF trackVars
  <1> HIDE DEF TrackCounts
  <1> QED BY <1>1, <1>2, <1>3, <1>4, <1>5, <1>6, <1>7 DEF Track!Next

-----------------------------------------------------------------------------
(* The voice bootstrap: its runs are at one of their places. *)
SetupPlaces ==
  /\ setupAt \in [SetupRuns -> 0..10]
  /\ setupKnown \subseteq Setup!Resources /\ setupFailures \in 0..SetupMaxFailures

LEMMA StagesAre ==
  /\ Len(Setup!VoiceStages) = 4 /\ Len(Setup!VoiceStages \o Setup!ApiStages) = 6
  /\ Len(Setup!Stages) = 9 /\ Setup!Done = 10
  <1>1. Len(Setup!VoiceStages) = 4
    BY DEF Setup!VoiceStages
  <1>2. Len(Setup!VoiceStages \o Setup!ApiStages) = 6
    BY DEF Setup!VoiceStages, Setup!ApiStages
  <1>3. Len(Setup!Stages) = 9
    BY DEF Setup!Stages, Setup!VoiceStages, Setup!ApiStages, Setup!TemplateStages
  <1> QED BY <1>1, <1>2, <1>3 DEF Setup!Done

LEMMA SetupTypesAre == SetupInv /\ SetupPlaces => Setup!TypeOK
  BY StagesAre DEF SetupInv, SetupPlaces, Setup!TypeOK, Steps

LEMMA InitSetupPlaces == Setup!Init => SetupPlaces
  <1> SetupMaxFailures \in Nat
    BY ServicesBounds
  <1> QED BY DEF Setup!Init, SetupPlaces

LEMMA NextSetupPlaces ==
  ASSUME SetupInv, SetupPlaces, Setup!Next \/ UNCHANGED setupVars
  PROVE  SetupPlaces'
  <1> SetupMaxFailures \in Nat
    BY ServicesBounds
  <1>a. ASSUME NEW i \in 1..9 PROVE Setup!After(i) \in 0..10
    BY StagesAre DEF Setup!After
  <1>r. ASSUME NEW b \in SetupRuns, Setup!Active(b)
        PROVE  setupAt[b] \in 1..9 /\ Setup!Stages[setupAt[b]] \in Setup!Resources
    BY <1>r, StagesAre DEF Setup!Active, Setup!Resources
  <1> USE DEF SetupPlaces, Setup!Fails, Setup!Enter
  <1>1. ASSUME NEW b \in SetupRuns, Setup!Start(b) PROVE SetupPlaces'
    BY <1>1, StagesAre DEF Setup!Start
  <1>2. ASSUME NEW b \in SetupRuns, Setup!LookUp(b) PROVE SetupPlaces'
    <2>1. setupAt' = setupAt \/ setupAt' = [setupAt EXCEPT ![b] = Setup!After(setupAt[b])]
      BY <1>2 DEF Setup!LookUp
    <2>2. setupAt[b] \in 1..9
      BY <1>2, <1>r DEF Setup!LookUp
    <2> QED BY <1>2, <1>a, <2>1, <2>2 DEF Setup!LookUp
  <1>3. ASSUME NEW b \in SetupRuns, Setup!InsertRow(b) \/ Setup!CreateAtVendor(b) PROVE SetupPlaces'
    BY <1>3, <1>a, <1>r DEF Setup!InsertRow, Setup!CreateAtVendor
  <1>4. ASSUME NEW b \in SetupRuns, Setup!VendorRefuses(b) PROVE SetupPlaces'
    BY <1>4, <1>a, <1>r DEF Setup!VendorRefuses
  <1>5. ASSUME NEW b \in SetupRuns, Setup!RememberId(b) PROVE SetupPlaces'
    BY <1>5, <1>a, <1>r DEF Setup!RememberId, SetupInv
  <1>6. ASSUME NEW b \in SetupRuns, Setup!VoiceDies(b) \/ Setup!RunDies(b) PROVE SetupPlaces'
    BY <1>6, StagesAre DEF Setup!VoiceDies, Setup!RunDies
  <1>7. CASE UNCHANGED setupVars
    BY <1>7 DEF setupVars
  <1> HIDE DEF SetupPlaces
  <1> QED BY <1>1, <1>2, <1>3, <1>4, <1>5, <1>6, <1>7 DEF Setup!Next

-----------------------------------------------------------------------------
(* Maintenance: the backups, their reports and the hours that are left. *)
CronBackupsAre == cronBackup \in [CronBackups -> [at : {"idle", "poll", "download", "store", "report", "over"},
                                                   polls : 0..CronMaxPolls]]
CronReports ==
  /\ cronArchive \subseteq CronBackups
  /\ cronStatus \in [ok : BOOLEAN, by : CronBackups \cup {"never_run"}]

CronLeftHours == cronLeft \in 0..CronLifetime /\ cronNoted <= CronLifetime

LEMMA CronTypesAre == CronInv /\ CronLeftHours /\ CronBackupsAre /\ CronReports => Cron!TypeOK
  <1> SUFFICES ASSUME CronInv, CronLeftHours, CronBackupsAre, CronReports PROVE Cron!TypeOK
    OBVIOUS
  <1> CronLifetime \in Nat
    BY ServicesBounds
  <1>1. cronLeft \in 0..CronLifetime /\ cronNoted \in (-1)..CronLifetime /\ cronOutage \in Nat
    BY DEF CronInv, CronLeftHours
  <1>2. cronChecked \in BOOLEAN
    BY DEF CronInv
  <1>3. cronStatus.ok \in BOOLEAN /\ cronStatus.by \in CronBackups \cup {"never_run"}
    BY DEF CronReports
  <1> QED BY <1>1, <1>2, <1>3 DEF CronBackupsAre, CronReports, Cron!TypeOK

LEMMA InitCronTypes == Cron!Init => CronLeftHours /\ CronBackupsAre /\ CronReports
  <1> CronLifetime \in Nat /\ CronMaxPolls \in Nat
    BY ServicesBounds
  <1>1. Cron!Init => CronLeftHours /\ CronBackupsAre
    BY DEF Cron!Init, CronLeftHours, CronBackupsAre
  <1>2. Cron!Init => CronReports
    BY DEF Cron!Init, Cron!NeverRun, CronReports
  <1> QED BY <1>1, <1>2

LEMMA NextCronTypes ==
  ASSUME CronInv, CronLeftHours, CronBackupsAre, CronReports, Cron!Next \/ UNCHANGED cronVars
  PROVE  CronLeftHours' /\ CronBackupsAre' /\ CronReports'
  <1> CronLifetime \in Nat /\ CronMaxPolls \in Nat
    BY ServicesBounds
  <1> DEFINE Goal == CronLeftHours' /\ CronBackupsAre' /\ CronReports'
  <1> USE DEF Cron!backupVars, Cron!renewalVars
  <1>1. CASE Cron!NotSoon \/ Cron!Renew \/ Cron!RenewFails \/ Cron!HourPasses
    <2>1. CronLeftHours'
      BY <1>1 DEF CronInv, CronLeftHours, Cron!NotSoon, Cron!Renew, Cron!RenewFails, Cron!HourPasses
    <2>2. UNCHANGED <<cronBackup, cronArchive, cronStatus>>
      BY <1>1 DEF Cron!NotSoon, Cron!Renew, Cron!RenewFails, Cron!HourPasses
    <2> QED BY <2>1, <2>2 DEF CronBackupsAre, CronReports
  <1>2. ASSUME NEW b \in CronBackups,
               Cron!StartBackup(b) \/ Cron!PollAgain(b) \/ Cron!SignedUrl(b) \/ Cron!Download(b)
        PROVE  Goal
    <2>1. CronBackupsAre'
      BY <1>2 DEF CronBackupsAre, Cron!StartBackup, Cron!PollAgain, Cron!SignedUrl, Cron!Download, Cron!At
    <2>2. UNCHANGED <<cronLeft, cronNoted, cronArchive, cronStatus>>
      BY <1>2 DEF Cron!StartBackup, Cron!PollAgain, Cron!SignedUrl, Cron!Download
    <2> QED BY <2>1, <2>2 DEF CronLeftHours, CronReports
  <1>3. ASSUME NEW b \in CronBackups, Cron!StoreDump(b) \/ Cron!ReportOk(b) \/ Cron!ReportFailure(b)
        PROVE  Goal
    <2>1. CronBackupsAre'
      BY <1>3 DEF CronBackupsAre, Cron!StoreDump, Cron!ReportOk, Cron!ReportFailure, Cron!At
    <2>2. UNCHANGED <<cronLeft, cronNoted>>
      BY <1>3 DEF Cron!StoreDump, Cron!ReportOk, Cron!ReportFailure
    <2>3. CronReports'
      <3>1. CASE Cron!StoreDump(b)
        BY <3>1 DEF CronReports, Cron!StoreDump
      <3>2. CASE Cron!ReportOk(b)
        <4>1. cronStatus' = [ok |-> TRUE, by |-> b] /\ cronArchive' = cronArchive
          BY <3>2 DEF Cron!ReportOk
        <4> QED BY <4>1 DEF CronReports
      <3>3. CASE Cron!ReportFailure(b)
        <4>1. cronStatus' = [ok |-> FALSE, by |-> b] /\ cronArchive' = cronArchive
          BY <3>3 DEF Cron!ReportFailure
        <4> QED BY <4>1 DEF CronReports
      <3> QED BY <1>3, <3>1, <3>2, <3>3
    <2> QED BY <2>1, <2>2, <2>3 DEF CronLeftHours
  <1>4. CASE UNCHANGED cronVars
    BY <1>4 DEF cronVars, CronLeftHours, CronBackupsAre, CronReports
  <1> QED BY <1>1, <1>2, <1>3, <1>4 DEF Cron!Next

-----------------------------------------------------------------------------
(* Settings: requests and failures are within their bounds. *)
ConfigCounts == configAsked \in 0..ConfigMaxRequests /\ configFailures \in 0..ConfigMaxFailures

LEMMA ConfigTypesAre == ConfigTyped /\ ConfigCounts => Config!TypeOK
  BY DEF ConfigTyped, ConfigCounts, Config!TypeOK, Config!Fields, Config!Shown, Domains, Keys,
         Panels, Sections, Forms, Saves, Gens

LEMMA InitConfigCounts == Config!Init => ConfigCounts
  <1> ConfigMaxRequests \in Nat /\ ConfigMaxFailures \in Nat
    BY ServicesBounds
  <1> QED BY DEF Config!Init, ConfigCounts

LEMMA NextConfigCounts ==
  ASSUME ConfigCounts, Config!Next \/ UNCHANGED configVars
  PROVE  ConfigCounts'
  <1> ConfigMaxRequests \in Nat /\ ConfigMaxFailures \in Nat
    BY ServicesBounds
  <1> USE DEF ConfigCounts
  <1>1. ASSUME NEW t \in ConfigTabs, Config!Panel(t) PROVE ConfigCounts'
    BY <1>1 DEF Config!Panel, Config!Load, Config!LoadFails, Config!Edit, Config!Save, Config!SaveAnswered,
       Config!Generate, Config!Generated, Config!Ask, Config!Fail
  <1>2. ASSUME NEW t \in ConfigTabs, Config!Handlers(t) PROVE ConfigCounts'
    BY <1>2 DEF Config!Handlers, Config!PutRead, Config!PutMerged, Config!SaveFails, Config!CheckKey, Config!PutKey,
       Config!ReadSection, Config!MirrorKey, Config!GenerateFails, Config!Fail
  <1>3. CASE UNCHANGED configVars
    BY <1>3 DEF configVars
  <1> QED BY <1>1, <1>2, <1>3 DEF Config!Next

-----------------------------------------------------------------------------
(* Scores: what a scorer has read are facts such as the tables may hold. *)
RowIsScore ==
  scoringRow # Scoring!NoRow =>
    scoringRow.score \in 0..84 /\ scoringRow.category = Scoring!Category(scoringRow.score)
ScoringFactsAre ==
  /\ scoringFacts \in Scoring!Facts
  /\ \A s \in ScoringScorers : scoringScorer[s].seen \in Scoring!Facts
  /\ RowIsScore

LEMMA ScoringTypesAre == ScoringInv /\ ScoringFactsAre => Scoring!TypeOK
  <1> SUFFICES ASSUME ScoringInv, ScoringFactsAre PROVE Scoring!TypeOK
    OBVIOUS
  <1> DEFINE S == [at : {"idle", "events", "replies", "recent", "write"},
                   seen : Scoring!Facts, since : Nat, over : BOOLEAN]
  <1>1. ASSUME NEW s \in ScoringScorers PROVE scoringScorer[s] \in S
    <2>1. scoringScorer[s] \in [at : ScorerStages, seen : FactFields, since : Nat, over : BOOLEAN]
      BY DEF ScoringInv
    <2>2. scoringScorer[s].seen \in Scoring!Facts
      BY DEF ScoringFactsAre
    <2> QED BY <2>1, <2>2 DEF ScorerStages
  <1>2. scoringScorer \in [ScoringScorers -> S]
    BY <1>1 DEF ScoringInv
  <1> HIDE DEF S
  <1>3. scoringLatest \in Nat
    BY DEF ScoringInv
  <1> QED BY <1>2, <1>3, Zenon DEF ScoringInv, ScoringFactsAre, RowIsScore, Scoring!TypeOK, S

LEMMA FactsHaveFields ==
  ASSUME NEW f \in Scoring!Facts
  PROVE  /\ f.opens \in Nat /\ f.clicks \in Nat /\ f.replies \in Nat
         /\ f.tags \in ScoringTagSums \cup {0} /\ f.tags \in Nat
         /\ f.demography \in {0, 6, 8, 10, 14, 15, 18, 21, 25}
  <1>1. f.tags \in ScoringTagSums \cup {0}
    BY DEF Scoring!Facts
  <1>2. ScoringTagSums \cup {0} \subseteq Nat
    BY ServicesBounds
  <1>3. f.opens \in Nat /\ f.clicks \in Nat /\ f.replies \in Nat
        /\ f.demography \in {0, 6, 8, 10, 14, 15, 18, 21, 25}
    BY DEF Scoring!Facts
  <1> QED BY <1>1, <1>2, <1>3

LEMMA LeastIsBounded ==
  ASSUME NEW a \in Nat, NEW b \in Nat
  PROVE  Scoring!LeastOf(a, b) \in Nat /\ Scoring!LeastOf(a, b) <= b
  BY DEF Scoring!LeastOf

LEMMA SumIsBounded ==
  ASSUME NEW E \in Nat, NEW d \in Nat, NEW B \in Nat, NEW T \in Nat,
         E <= 50, d <= 25, B <= 5, T <= 40
  PROVE  (2 * (203 * E + 290 * d + 200 * B + 145 * T) + 290) \div 580 \in 0..84
  <1> DEFINE n == 2 * (203 * E + 290 * d + 200 * B + 145 * T) + 290
  <1>1. n <= 48700
    OBVIOUS
  <1>2. n \in Nat
    OBVIOUS
  <1>3. ASSUME NEW k \in Nat, k <= 48700 PROVE k \div 580 <= 84 /\ k \div 580 \in Nat
    BY <1>3
  <1> QED BY <1>1, <1>2, <1>3

LEMMA ScoresAreBounded ==
  ASSUME NEW f \in Scoring!Facts
  PROVE  Scoring!TotalScore(f) \in 0..84
  <1> DEFINE E == Scoring!Engagement(f)
             B == Scoring!Behavior(f)
             T == Scoring!LeastOf(f.tags, 40)
             d == f.demography
  <1>1. E \in Nat /\ E <= 50
    <2>1. f.opens * 5 \in Nat /\ f.clicks * 8 \in Nat /\ f.replies * 10 \in Nat
      BY FactsHaveFields
    <2> DEFINE x == Scoring!LeastOf(f.opens * 5, 15)
               y == Scoring!LeastOf(f.clicks * 8, 20)
               z == Scoring!LeastOf(f.replies * 10, 15)
    <2>2. x \in Nat /\ y \in Nat /\ z \in Nat /\ x <= 15 /\ y <= 20 /\ z <= 15
      BY <2>1, LeastIsBounded
    <2>3. E = x + y + z
      BY DEF Scoring!Engagement
    <2> HIDE DEF x, y, z
    <2> QED BY <2>2, <2>3
  <1>2. B \in Nat /\ B <= 5
    BY DEF Scoring!Behavior
  <1>3. T \in Nat /\ T <= 40
    BY FactsHaveFields, LeastIsBounded
  <1>4. d \in Nat /\ d <= 25
    BY FactsHaveFields
  <1>5. Scoring!TotalScore(f) = (2 * (203 * E + 290 * d + 200 * B + 145 * T) + 290) \div 580
    BY DEF Scoring!TotalScore
  <1> HIDE DEF E, B, T, d
  <1>6. (2 * (203 * E + 290 * d + 200 * B + 145 * T) + 290) \div 580 \in 0..84
    BY <1>1, <1>2, <1>3, <1>4, SumIsBounded
  <1> QED BY <1>5, <1>6, Zenon

LEMMA FactsAreKept ==
  ASSUME NEW f \in Scoring!Facts, NEW g \in Scoring!Facts
  PROVE  /\ [Scoring!NoFacts EXCEPT !.tags = g.tags, !.demography = g.demography] \in Scoring!Facts
         /\ [f EXCEPT !.opens = g.opens, !.clicks = g.clicks] \in Scoring!Facts
         /\ [f EXCEPT !.replies = g.replies] \in Scoring!Facts
         /\ [f EXCEPT !.recent = g.recent] \in Scoring!Facts
  <1>1. [Scoring!NoFacts EXCEPT !.tags = g.tags, !.demography = g.demography] \in Scoring!Facts
    BY DEF Scoring!NoFacts, Scoring!Facts
  <1>2. [f EXCEPT !.opens = g.opens, !.clicks = g.clicks] \in Scoring!Facts
    BY DEF Scoring!Facts
  <1>3. [f EXCEPT !.replies = g.replies] \in Scoring!Facts
    BY DEF Scoring!Facts
  <1>4. [f EXCEPT !.recent = g.recent] \in Scoring!Facts
    BY DEF Scoring!Facts
  <1> QED BY <1>1, <1>2, <1>3, <1>4

LEMMA InitScoringFacts == Scoring!Init => ScoringFactsAre
  <1>1. Scoring!NoFacts \in Scoring!Facts /\ Scoring!OpenedOnce \in Scoring!Facts
    BY DEF Scoring!NoFacts, Scoring!OpenedOnce, Scoring!Facts
  <1> QED BY <1>1 DEF Scoring!Init, Scoring!Idle, ScoringFactsAre, RowIsScore

LEMMA NextScoringFacts ==
  ASSUME ScoringInv, ScoringFactsAre, Scoring!Next \/ UNCHANGED scoringVars
  PROVE  ScoringFactsAre'
  <1> USE DEF ScoringFactsAre
  <1>1. CASE UNCHANGED scoringVars
    BY <1>1 DEF scoringVars, RowIsScore
  <1>2. ASSUME NEW f \in Scoring!Facts, Scoring!Changed(f) PROVE ScoringFactsAre'
    BY <1>2 DEF Scoring!Changed, RowIsScore
  <1>3. CASE Scoring!OpenEvent \/ Scoring!ClickEvent \/ Scoring!ReplyEvent \/ Scoring!WeekGoesBy
    <2> DEFINE f == scoringFacts
    <2>a. f \in Scoring!Facts /\ f.opens + 1 \in Nat /\ f.clicks + 1 \in Nat /\ f.replies + 1 \in Nat
      BY FactsHaveFields
    <2> HIDE DEF f
    <2>1. ASSUME NEW x \in Nat PROVE [f EXCEPT !.opens = x, !.recent = TRUE] \in Scoring!Facts
      BY <2>a DEF Scoring!Facts
    <2>2. ASSUME NEW x \in Nat PROVE [f EXCEPT !.clicks = x, !.recent = TRUE] \in Scoring!Facts
      BY <2>a DEF Scoring!Facts
    <2>3. [f EXCEPT !.replies = @ + 1] \in Scoring!Facts
      BY <2>a, FactsHaveFields DEF Scoring!Facts
    <2>4. [f EXCEPT !.recent = FALSE] \in Scoring!Facts
      BY <2>a, FactsHaveFields DEF Scoring!Facts
    <2> QED BY <1>2, <1>3, <2>a, <2>1, <2>2, <2>3, <2>4 DEF f, Scoring!OpenEvent, Scoring!ClickEvent, Scoring!ReplyEvent, Scoring!WeekGoesBy
  <1>4. CASE Scoring!EditContact
    <2>1. PICK t \in ScoringTagSums, d \in {14, 25} :
            Scoring!Changed([scoringFacts EXCEPT !.tags = t, !.demography = d])
      BY <1>4 DEF Scoring!EditContact
    <2>2. [scoringFacts EXCEPT !.tags = t, !.demography = d] \in Scoring!Facts
      BY DEF Scoring!Facts
    <2> QED BY <1>2, <2>1, <2>2
  <1>6. ASSUME NEW s \in ScoringScorers,
               Scoring!ReadContact(s) \/ Scoring!ReadEvents(s) \/ Scoring!ReadReplies(s) \/ Scoring!ReadRecent(s)
        PROVE  ScoringFactsAre'
    <2>1. scoringScorer[s] \in [at : ScorerStages, seen : FactFields, since : Nat, over : BOOLEAN]
          /\ DOMAIN scoringScorer = ScoringScorers /\ scoringScorer[s].seen \in Scoring!Facts
      BY DEF ScoringInv
    <2>2. \E f \in Scoring!Facts : \E r :
            scoringScorer' = [scoringScorer EXCEPT ![s] = r] /\ r.seen = f
      <3>1. CASE Scoring!ReadContact(s)
        BY <3>1, FactsAreKept DEF Scoring!ReadContact
      <3>2. ASSUME NEW f \in Scoring!Facts, NEW a, NEW b, Scoring!Reads(s, a, b, f)
            PROVE  \E r : scoringScorer' = [scoringScorer EXCEPT ![s] = r] /\ r.seen = f
        <4>1. [scoringScorer[s] EXCEPT !.at = b, !.seen = f].seen = f
          BY <2>1
        <4>2. scoringScorer' = [scoringScorer EXCEPT ![s] = [scoringScorer[s] EXCEPT !.at = b, !.seen = f]]
          BY <3>2, <2>1 DEF Scoring!Reads
        <4> QED BY <4>1, <4>2
      <3>3. CASE Scoring!ReadEvents(s)
        <4> DEFINE f == [scoringScorer[s].seen EXCEPT !.opens = scoringFacts.opens,
                                                      !.clicks = scoringFacts.clicks]
        <4>1. f \in Scoring!Facts
          BY <2>1, FactsAreKept
        <4>2. Scoring!Reads(s, "events", "replies", f)
          BY <3>3 DEF Scoring!ReadEvents
        <4> HIDE DEF f
        <4> QED BY <3>2, <4>1, <4>2
      <3>4. CASE Scoring!ReadReplies(s)
        BY <2>1, <3>2, <3>4, FactsAreKept DEF Scoring!ReadReplies
      <3>5. CASE Scoring!ReadRecent(s)
        BY <2>1, <3>2, <3>5, FactsAreKept DEF Scoring!ReadRecent
      <3> QED BY <1>6, <3>1, <3>3, <3>4, <3>5
    <2>3. UNCHANGED <<scoringFacts, scoringRow>>
      BY <1>6 DEF Scoring!ReadContact, Scoring!ReadEvents, Scoring!ReadReplies, Scoring!ReadRecent, Scoring!Reads
    <2> QED BY <2>1, <2>2, <2>3 DEF RowIsScore
  <1>7. ASSUME NEW s \in ScoringScorers, Scoring!UpsertScore(s) PROVE ScoringFactsAre'
    <2>1. /\ scoringFacts' = scoringFacts
          /\ scoringRow' = [score |-> Scoring!TotalScore(scoringScorer[s].seen),
                            category |-> Scoring!Category(Scoring!TotalScore(scoringScorer[s].seen))]
      BY <1>7 DEF Scoring!UpsertScore
    <2>2. RowIsScore'
      BY <2>1, ScoresAreBounded DEF RowIsScore
    <2>3. \A o \in ScoringScorers : scoringScorer'[o].seen \in Scoring!Facts
      <3> TAKE o \in ScoringScorers
      <3>1. Scoring!Idle.seen \in Scoring!Facts
        BY DEF Scoring!Idle, Scoring!NoFacts, Scoring!Facts
      <3>2. scoringScorer[o] \in [at : ScorerStages, seen : FactFields, since : Nat, over : BOOLEAN]
        BY DEF ScoringInv
      <3> QED BY <1>7, <3>1, <3>2 DEF Scoring!UpsertScore
    <2> QED BY <2>1, <2>2, <2>3
  <1> HIDE DEF ScoringFactsAre
  <1> QED BY <1>1, <1>3, <1>4, <1>6, <1>7 DEF Scoring!Next

-----------------------------------------------------------------------------
(* Quotes that are created, and where each is. *)
NumbersStates == numbersCreate \in [NumbersCreates -> {"read", "insert", "made", "refused", "deleted"}]

LEMMA NumbersTypesAre == NumbersInv /\ NumbersStates => Numbers!TypeOK
  BY DEF NumbersInv, NumbersStates, Numbers!TypeOK

LEMMA NextNumbersStates ==
  ASSUME NumbersStates, Numbers!Next \/ UNCHANGED numbersVars
  PROVE  NumbersStates'
  <1> USE DEF NumbersStates
  <1>1. ASSUME NEW q \in NumbersCreates, Numbers!Read(q) PROVE NumbersStates'
    BY <1>1 DEF Numbers!Read
  <1>2. ASSUME NEW q \in NumbersCreates, Numbers!Insert(q) PROVE NumbersStates'
    <2>1. CASE numbersNumber[q] \in numbersTaken
      BY <1>2, <2>1 DEF Numbers!Insert
    <2>2. CASE numbersNumber[q] \notin numbersTaken
      BY <1>2, <2>2 DEF Numbers!Insert
    <2> QED BY <2>1, <2>2
  <1>3. ASSUME NEW q \in NumbersCreates, Numbers!DeleteDraft(q) PROVE NumbersStates'
    BY <1>3 DEF Numbers!DeleteDraft
  <1>4. CASE UNCHANGED numbersVars
    BY <1>4 DEF numbersVars
  <1> HIDE DEF NumbersStates
  <1> QED BY <1>1, <1>2, <1>3, <1>4 DEF Numbers!Next

-----------------------------------------------------------------------------
(* The rate limiter. *)
LEMMA LimiterTypesAre == LimiterInv => Limiter!TypeOK
  BY DEF LimiterInv, LimiterTypes, Limiter!TypeOK

-----------------------------------------------------------------------------
(* Sessions: where the clients of a token are. *)
SessionPlaces ==
  /\ loginOut <= LoginHorizon + 1
  /\ loginRequest \in [LoginClients -> Login!Places]
  /\ loginKind \in [LoginClients -> {"call", "logout"}]
  /\ loginKnown = [r \in LoginClients |-> loginKnown[r]]
  /\ loginLate = [r \in LoginClients |-> loginLate[r]]

LEMMA SessionTypesAre == SessionInv /\ SessionPlaces => Login!TypeOK
  <1> SUFFICES ASSUME SessionInv, SessionPlaces PROVE Login!TypeOK
    OBVIOUS
  <1> LoginHorizon \in Nat
    BY ServicesBounds
  <1>1. /\ loginClock \in 0..LoginHorizon
        /\ loginWithdrawn \in 0..Login!Never /\ loginOut \in 0..Login!Never
    BY DEF SessionInv, SessionTypes, SessionPlaces, Login!Never
  <1>2. \A r \in LoginClients : loginKnown[r] \in BOOLEAN /\ loginLate[r] \in BOOLEAN
    BY DEF SessionInv, SessionTypes
  <1>3. loginKnown \in [LoginClients -> BOOLEAN] /\ loginLate \in [LoginClients -> BOOLEAN]
    BY <1>2, Zenon DEF SessionPlaces
  <1> QED BY <1>1, <1>3, Zenon DEF SessionInv, SessionTypes, SessionPlaces, Login!TypeOK

LEMMA InitSessionPlaces == Login!Init => SessionPlaces
  <1> LoginHorizon \in Nat
    BY ServicesBounds
  <1> QED BY DEF Login!Init, Login!Never, Login!Places, SessionPlaces

LEMMA NextSessionPlaces ==
  ASSUME SessionInv, SessionPlaces, Login!Next \/ UNCHANGED loginVars
  PROVE  SessionPlaces'
  <1> LoginHorizon \in Nat
    BY ServicesBounds
  <1> USE DEF SessionPlaces, Login!Places, Login!Goes, Login!Over, Login!Keeps
  <1>1. CASE Login!Tick \/ Login!Withdraw \/ UNCHANGED loginVars
    BY <1>1 DEF Login!Tick, Login!Withdraw, loginVars
  <1>2. ASSUME NEW r \in LoginClients, Login!ReadCache(r) PROVE SessionPlaces'
    <2>1. CASE loginClock < loginCache.until
      BY <1>2, <2>1 DEF Login!ReadCache
    <2>2. CASE ~(loginClock < loginCache.until)
      BY <1>2, <2>2 DEF Login!ReadCache
    <2> QED BY <2>1, <2>2
  <1>3. ASSUME NEW r \in LoginClients, Login!FetchFails(r) \/ Login!PutCache(r) PROVE SessionPlaces'
    BY <1>3 DEF Login!FetchFails, Login!PutCache
  <1>4. ASSUME NEW r \in LoginClients, Login!Verify(r) \/ Login!VerifyFails(r) \/ Login!FoundRevoked(r)
        PROVE  SessionPlaces'
    BY <1>4 DEF Login!Verify, Login!VerifyFails, Login!FoundRevoked
  <1>5. ASSUME NEW r \in LoginClients, Login!LetIn(r) PROVE SessionPlaces'
    <2>1. CASE loginKind[r] = "logout"
      BY <1>5, <2>1 DEF Login!LetIn
    <2>2. CASE loginKind[r] # "logout"
      BY <1>5, <2>2 DEF Login!LetIn
    <2> QED BY <2>1, <2>2
  <1>6. ASSUME NEW r \in LoginClients, Login!Revoke(r) PROVE SessionPlaces'
    <2>1. loginOut' = loginOut \/ loginOut' = loginClock
      BY <1>6 DEF Login!Revoke
    <2>2. loginClock \in Nat /\ loginClock <= LoginHorizon
      BY DEF SessionInv, SessionTypes
    <2>3. loginOut' <= LoginHorizon + 1
      BY <2>1, <2>2
    <2> QED BY <1>6, <2>3 DEF Login!Revoke
  <1> HIDE DEF SessionPlaces
  <1> QED BY <1>1, <1>2, <1>3, <1>4, <1>5, <1>6 DEF Login!Next

-----------------------------------------------------------------------------
(* The send gate: a run is deferred to a time after the present. *)
GateTimes ==
  /\ gateClock <= GateHorizon /\ gateDone \subseteq GateRuns
  /\ \A r \in GateRuns : gateDue[r] = Gate!NotDue \/ gateDue[r].since < gateDue[r].at

LEMMA GateTypesAre == GateInv /\ DueInv /\ GateTimes => Gate!TypeOK
  <1> SUFFICES ASSUME GateInv, DueInv, GateTimes PROVE Gate!TypeOK
    OBVIOUS
  <1> GateHorizon \in Nat
    BY ServicesBounds
  <1>1. gateClock \in 0..GateHorizon
    BY DEF DueInv, GateTimes
  <1> QED BY <1>1 DEF GateInv, DueInv, GateTimes, Gate!TypeOK

LEMMA InitGateTimes == Gate!Init => GateTimes
  <1> GateHorizon \in Nat
    BY ServicesBounds
  <1> QED BY DEF Gate!Init, GateTimes

LEMMA OpensLater ==
  ASSUME NEW w, NEW t \in Nat
  PROVE  Gate!NextWindowOpen(w, t) > t
  <1> DEFINE open == {i \in 1..25 : ~Gate!IsInQuietHours(w, t + i * 2)}
             first == CHOOSE i \in open : \A j \in open : i <= j
  <1>1. CASE open = {}
    BY <1>1 DEF Gate!NextWindowOpen, Gate!Hour, Gate!Day
  <1>2. CASE open # {}
    <2>1. open \in SUBSET Nat /\ \A i \in open : i \in 1..25
      OBVIOUS
    <2>2. Gate!NextWindowOpen(w, t) = t + 2 * first
      BY <1>2 DEF Gate!NextWindowOpen, Gate!Hour
    <2> HIDE DEF open
    <2>3. first \in open
      BY <1>2, <2>1, LeastOf
    <2> HIDE DEF first
    <2> QED BY <2>1, <2>2, <2>3
  <1> QED BY <1>1, <1>2

LEMMA NextGateTimes ==
  ASSUME DueInv, GateTimes, Gate!Next \/ UNCHANGED gateVars
  PROVE  GateTimes'
  <1> GateHorizon \in Nat
    BY ServicesBounds
  <1> DEFINE Timed(d) == d = Gate!NotDue \/ d.since < d.at
  <1>1. /\ gateClock \in Nat /\ gateClock <= GateHorizon /\ gateDone \subseteq GateRuns
        /\ DOMAIN gateDue = GateRuns /\ \A r \in GateRuns : Timed(gateDue[r])
    BY DEF DueInv, GateTimes
  <1>2. ASSUME gateClock' <= GateHorizon, gateDone' \subseteq GateRuns,
               \A r \in GateRuns : Timed(gateDue'[r])
        PROVE  GateTimes'
    BY <1>2 DEF GateTimes
  <1>3. Timed(Gate!NotDue)
    OBVIOUS
  <1> HIDE DEF Timed
  <1>4. ASSUME NEW r \in GateRuns, NEW d, Timed(d), gateDue' = [gateDue EXCEPT ![r] = d],
               UNCHANGED gateClock, gateDone' \subseteq GateRuns
        PROVE  GateTimes'
    BY <1>1, <1>2, <1>4
  <1>5. CASE UNCHANGED gateVars
    BY <1>1, <1>2, <1>5 DEF gateVars
  <1>6. ASSUME NEW r \in GateRuns, Gate!DeferQuiet(r) PROVE GateTimes'
    <2> DEFINE d == [at |-> Gate!NextWindowOpen(gateWindow, gateClock), since |-> gateClock,
                     window |-> gateWindow]
    <2>1. Timed(d)
      BY <1>1, OpensLater DEF Timed
    <2>2. gateDue' = [gateDue EXCEPT ![r] = d] /\ UNCHANGED gateClock /\ gateDone' = gateDone \cup {r}
      BY <1>6 DEF Gate!DeferQuiet
    <2> HIDE DEF d
    <2> QED BY <1>1, <1>4, <2>1, <2>2
  <1>7. ASSUME NEW r \in GateRuns, Gate!DeferCapped(r) PROVE GateTimes'
    <2> DEFINE d == [at |-> (gateClock \div Gate!Day + 1) * Gate!Day + 9 * Gate!Hour,
                     since |-> gateClock, window |-> Gate!NoWindow]
    <2>1. gateClock < (gateClock \div 48 + 1) * 48 + 18
      BY <1>1
    <2>2. Timed(d)
      BY <2>1 DEF Timed, Gate!Day, Gate!Hour
    <2>3. gateDue' = [gateDue EXCEPT ![r] = d] /\ UNCHANGED gateClock /\ gateDone' = gateDone \cup {r}
      BY <1>7 DEF Gate!DeferCapped
    <2> HIDE DEF d
    <2> QED BY <1>1, <1>4, <2>2, <2>3
  <1>8. ASSUME NEW r \in GateRuns, Gate!Allow(r) \/ Gate!Send(r) PROVE GateTimes'
    BY <1>1, <1>2, <1>8 DEF Gate!Allow, Gate!Send
  <1>9. ASSUME NEW r \in GateRuns, Gate!Restart(r) PROVE GateTimes'
    BY <1>1, <1>3, <1>4, <1>9 DEF Gate!Restart
  <1>10. CASE Gate!SetWindow
    BY <1>1, <1>2, <1>10 DEF Gate!SetWindow
  <1>11. CASE Gate!Tick
    BY <1>1, <1>2, <1>3, <1>11 DEF Gate!Tick
  <1> QED BY <1>5, <1>6, <1>7, <1>8, <1>9, <1>10, <1>11 DEF Gate!Next

-----------------------------------------------------------------------------
(* The contacts page: people on it and pages of it. *)
BulkPages ==
  /\ bulkPending \subseteq BulkPeople /\ bulkPage \in Nat \ {0}
  /\ bulkTotal \in 0..Cardinality(BulkPeople)
  /\ bulkLoads \subseteq [query : Bulk!Queries, page : Nat \ {0}]
  /\ bulkClicks \in 0..BulkMaxClicks

LEMMA BulkTypesAre == BulkInv /\ BulkPages => Bulk!TypeOK
  <1> SUFFICES ASSUME BulkInv, BulkPages PROVE Bulk!TypeOK
    OBVIOUS
  <1>1. bulkMeant = bulkTicked /\ bulkMeantAll = bulkAll /\ bulkStrays = {}
    BY DEF BulkInv
  <1>2. bulkRequest \in BulkRequests /\ bulkTicked \subseteq BulkPeople /\ bulkAll \in BOOLEAN
    BY DEF BulkInv, BulkTypes
  <1>3. bulkMeant \subseteq BulkPeople /\ bulkMeantAll \in BOOLEAN /\ bulkStrays \subseteq BulkPeople
    BY <1>1, <1>2, Zenon
  <1>4. bulkExists \subseteq BulkPeople /\ bulkShown \subseteq BulkPeople /\ bulkQuery \in Bulk!Queries
    BY DEF BulkInv, BulkTypes
  <1>5. bulkRequest \in [at : {"idle", "sent", "applying"}, deletes : BOOLEAN,
                        ids : SUBSET BulkPeople, query : Bulk!Queries, meant : SUBSET BulkPeople,
                        meantAll : BOOLEAN, left : SUBSET BulkPeople]
    BY <1>2 DEF BulkRequests
  <1>6. Bulk!Cardinality(BulkPeople) = Cardinality(BulkPeople)
    BY DEF Bulk!Cardinality, Cardinality
  <1> QED BY <1>2, <1>3, <1>4, <1>5, <1>6, Zenon DEF BulkPages, Bulk!TypeOK

LEMMA PeopleAreCounted ==
  /\ Cardinality(BulkPeople) \in Nat
  /\ \A S \in SUBSET BulkPeople : Cardinality(S) \in 0..Cardinality(BulkPeople)
  <1> IsFiniteSet(BulkPeople)
    BY ServicesBounds
  <1>1. Cardinality(BulkPeople) \in Nat
    BY FS_CardinalityType
  <1>2. ASSUME NEW S \in SUBSET BulkPeople PROVE Cardinality(S) \in 0..Cardinality(BulkPeople)
    <2>1. IsFiniteSet(S) /\ Cardinality(S) <= Cardinality(BulkPeople)
      BY FS_Subset
    <2>2. Cardinality(S) \in Nat
      BY <2>1, FS_CardinalityType
    <2> QED BY <1>1, <2>1, <2>2
  <1> QED BY <1>1, <1>2

LEMMA InitBulkPages == Bulk!Init => BulkPages
  <1> SUFFICES ASSUME Bulk!Init PROVE BulkPages
    OBVIOUS
  <1> BulkMaxClicks \in Nat /\ BulkFound \subseteq BulkPeople
    BY ServicesBounds
  <1>1. 0 \in 0..Cardinality(BulkPeople)
    BY PeopleAreCounted
  <1>2. bulkLoads \subseteq [query : Bulk!Queries, page : Nat \ {0}]
    BY DEF Bulk!Init, Bulk!Queries
  <1> QED BY <1>1, <1>2 DEF Bulk!Init, BulkPages

LEMMA NextBulkPages ==
  ASSUME BulkInv, BulkPages, Bulk!Next \/ UNCHANGED bulkVars
  PROVE  BulkPages'
  <1> BulkMaxClicks \in Nat
    BY ServicesBounds
  <1> USE DEF BulkPages, Bulk!Clicks, Bulk!page_vars
  <1>1. CASE UNCHANGED bulkVars
    BY <1>1 DEF bulkVars
  <1>2. ASSUME NEW l \in bulkLoads, Bulk!Loaded(l) \/ Bulk!LoadFails(l) PROVE BulkPages'
    <2>1. \A q \in Bulk!Queries : Bulk!Matching(q) \subseteq BulkPeople
      BY DEF Bulk!Queries, Bulk!Matching, BulkInv, BulkTypes
    <2>2. l.query \in Bulk!Queries
      OBVIOUS
    <2>3. Cardinality(Bulk!Matching(l.query)) \in 0..Cardinality(BulkPeople)
      BY <2>1, <2>2, PeopleAreCounted
    <2>4. bulkTotal' \in 0..Cardinality(BulkPeople)
      <3>1. bulkTotal' = Bulk!Cardinality(Bulk!Matching(l.query)) \/ bulkTotal' = bulkTotal
        BY <1>2 DEF Bulk!Loaded, Bulk!LoadFails
      <3>2. Bulk!Cardinality(Bulk!Matching(l.query)) = Cardinality(Bulk!Matching(l.query))
        BY DEF Bulk!Cardinality, Cardinality
      <3> QED BY <2>3, <3>1, <3>2
    <2>5. bulkLoads' \subseteq bulkLoads /\ UNCHANGED <<bulkPending, bulkPage, bulkClicks>>
      BY <1>2 DEF Bulk!Loaded, Bulk!LoadFails
    <2> QED BY <2>4, <2>5
  <1>3. ASSUME NEW q \in Bulk!Queries, Bulk!SetQuery(q) PROVE BulkPages'
    <2>1. [query |-> q, page |-> 1] \in [query : Bulk!Queries, page : Nat \ {0}]
      OBVIOUS
    <2> QED BY <1>3, <2>1 DEF Bulk!SetQuery
  <1>4. ASSUME NEW p \in Int, Bulk!TurnPage(p) PROVE BulkPages'
    <2>1. p \in Nat \ {0}
      BY <1>4 DEF Bulk!TurnPage
    <2>2. [query |-> bulkQuery, page |-> p] \in [query : Bulk!Queries, page : Nat \ {0}]
      BY <2>1 DEF BulkInv, BulkTypes
    <2> QED BY <1>4, <2>1, <2>2 DEF Bulk!TurnPage
  <1>5. CASE Bulk!TogglePage \/ Bulk!SelectAllMatching
    BY <1>5 DEF Bulk!TogglePage, Bulk!SelectAllMatching
  <1>6. ASSUME NEW deletes \in BOOLEAN, Bulk!RunBulk(deletes) PROVE BulkPages'
    BY <1>6 DEF Bulk!RunBulk
  <1>7. CASE Bulk!Resolve \/ Bulk!RequestFails
    BY <1>7 DEF Bulk!Resolve, Bulk!RequestFails
  <1>8. CASE Bulk!Answered
    <2>1. [query |-> bulkQuery, page |-> bulkPage] \in [query : Bulk!Queries, page : Nat \ {0}]
      BY DEF BulkInv, BulkTypes
    <2> QED BY <1>8, <2>1 DEF Bulk!Answered
  <1>9. ASSUME NEW c \in BulkPeople, Bulk!ToggleRow(c) \/ Bulk!Apply(c) \/ Bulk!Join(c) \/ Bulk!Respond(c)
        PROVE  BulkPages'
    <2>1. bulkPending' \subseteq BulkPeople
      BY <1>9 DEF Bulk!ToggleRow, Bulk!Apply, Bulk!Join, Bulk!Respond
    <2> QED BY <1>9, <2>1 DEF Bulk!ToggleRow, Bulk!Apply, Bulk!Join, Bulk!Respond
  <1>p. bulkPage + 1 \in Int /\ bulkPage - 1 \in Int
    OBVIOUS
  <1> HIDE DEF BulkPages
  <1> QED BY <1>p, <1>1, <1>2, <1>3, <1>4, <1>5, <1>6, <1>7, <1>8, <1>9 DEF Bulk!Next

-----------------------------------------------------------------------------
(* Desks.  The row counts the writes that were handled: with those that were sent and wait, *)
(* no more than were asked for.                                                             *)
SentBy == {d \in DeskDesks : deskRequest[d].at = "sent"}

DeskShows(r) == r.version \in 0..deskWrites
DeskWritten ==
  /\ IsFiniteSet(SentBy)
  /\ deskRow.version + Cardinality(SentBy) <= deskWrites
  /\ deskRow.version >= 0
  /\ \A d \in DeskDesks : /\ deskView[d] = Desk!Unknown \/ DeskShows(deskView[d])
                          /\ \A r \in deskPolls[d] : DeskShows(r)
                          /\ deskWrote[d] \in 0..deskWrites
DeskPlaces ==
  /\ deskDialog \in [DeskDesks -> {"none", "activate", "deactivate"}]
  /\ deskOwner \in DeskDesks \cup {"nobody"} /\ deskMisled \subseteq DeskDesks
  /\ deskWrites \in 0..DeskMaxWrites /\ deskFailures \in 0..DeskMaxFailures

LEMMA DeskTypesAre == DeskInv /\ DeskWritten /\ DeskPlaces => Desk!TypeOK
  <1> SUFFICES ASSUME DeskInv, DeskWritten, DeskPlaces PROVE Desk!TypeOK
    OBVIOUS
  <1> DeskMaxWrites \in Nat
    BY ServicesBounds
  <1>w. deskWrites \in Nat /\ deskWrites <= DeskMaxWrites
    BY DEF DeskPlaces
  <1>1. ASSUME NEW r \in DeskRows, DeskShows(r) PROVE r \in Desk!Rows
    <2>1. r.version \in 0..DeskMaxWrites
      BY <1>1, <1>w DEF DeskShows
    <2> QED BY <2>1 DEF DeskRows, Desk!Rows
  <1>2. deskRow \in Desk!Rows
    <2>1. Cardinality(SentBy) \in Nat /\ deskRow.version \in Int
      BY FS_CardinalityType DEF DeskWritten, DeskInv, DeskTypes, DeskRows
    <2>2. DeskShows(deskRow)
      BY <1>w, <2>1 DEF DeskShows, DeskWritten
    <2> QED BY <1>1, <2>2 DEF DeskInv, DeskTypes
  <1>3. deskView \in [DeskDesks -> Desk!Rows \cup {Desk!Unknown}]
    <2>1. \A d \in DeskDesks : deskView[d] \in Desk!Rows \cup {Desk!Unknown}
      BY <1>1 DEF DeskInv, DeskTypes, DeskWritten
    <2> QED BY <2>1 DEF DeskInv, DeskTypes
  <1>4. deskPolls \in [DeskDesks -> SUBSET Desk!Rows]
    <2>1. \A d \in DeskDesks : deskPolls[d] \in SUBSET Desk!Rows
      BY <1>1 DEF DeskInv, DeskTypes, DeskWritten
    <2> QED BY <2>1 DEF DeskInv, DeskTypes
  <1>5. deskWrote \in [DeskDesks -> 0..DeskMaxWrites]
    <2>1. \A d \in DeskDesks : deskWrote[d] \in 0..DeskMaxWrites
      BY <1>w DEF DeskWritten
    <2> QED BY <2>1 DEF DeskInv, DeskTypes
  <1> QED BY <1>2, <1>3, <1>4, <1>5, Zenon DEF DeskInv, DeskTypes, DeskPlaces, Desk!TypeOK

LEMMA InitDeskWritten == Desk!Init => DeskWritten /\ DeskPlaces
  <1> SUFFICES ASSUME Desk!Init PROVE DeskWritten /\ DeskPlaces
    OBVIOUS
  <1> DeskMaxWrites \in Nat /\ DeskMaxFailures \in Nat
    BY ServicesBounds
  <1>1. deskRow.version = 0
    <2>1. deskRow = [there |-> FALSE, kill |-> FALSE, version |-> 0]
          \/ deskRow = [there |-> TRUE, kill |-> FALSE, version |-> 0]
      BY DEF Desk!Init, Desk!Missing
    <2> QED BY <2>1
  <1>2. SentBy = {}
    BY DEF SentBy, Desk!Init, Desk!Idle
  <1>3. IsFiniteSet(SentBy) /\ Cardinality(SentBy) = 0
    BY <1>2, FS_EmptySet
  <1>4. deskWrites = 0 /\ DeskShows(deskRow)
    BY <1>1 DEF Desk!Init, DeskShows
  <1>5. DeskWritten
    BY <1>1, <1>3, <1>4 DEF Desk!Init, DeskWritten
  <1> QED BY <1>5 DEF Desk!Init, DeskPlaces

(* What a desk may learn in a step, and how the writes are counted. *)
DeskLearns(d) ==
  /\ deskView'[d] = deskView[d] \/ deskView'[d] \in deskPolls[d]
  /\ deskPolls'[d] \subseteq deskPolls[d] \cup {deskRow}
  /\ deskWrote'[d] = deskWrote[d] \/ deskWrote'[d] \in 0..deskWrites
DeskCounts ==
  /\ IsFiniteSet(SentBy') /\ deskWrites' >= deskWrites
  /\ deskRow'.version >= 0
  /\ deskRow'.version + Cardinality(SentBy') <= deskWrites'

LEMMA DeskNumbers ==
  ASSUME DeskInv, DeskWritten, DeskPlaces
  PROVE  /\ deskWrites \in Nat /\ deskRow.version \in Nat /\ Cardinality(SentBy) \in Nat
         /\ deskRow.version <= deskWrites /\ DeskShows(deskRow)
         /\ \A d \in SentBy : deskRow.version + 1 \in 0..deskWrites
  <1> DeskMaxWrites \in Nat
    BY ServicesBounds
  <1>1. deskWrites \in Nat /\ deskRow.version \in Nat /\ Cardinality(SentBy) \in Nat
    BY FS_CardinalityType DEF DeskInv, DeskTypes, DeskRows, DeskWritten, DeskPlaces
  <1>2. \A d \in SentBy : Cardinality(SentBy) >= 1
    BY <1>1, FS_EmptySet DEF DeskWritten
  <1> QED BY <1>1, <1>2 DEF DeskWritten, DeskShows

LEMMA DeskWrittenAgain ==
  ASSUME DeskInv, DeskWritten, DeskPlaces, DeskCounts, deskWrites' \in Nat,
         \A d \in DeskDesks : DeskLearns(d)
  PROVE  DeskWritten'
  <1>1. ASSUME NEW d \in DeskDesks
        PROVE  /\ deskView'[d] = Desk!Unknown \/ deskView'[d].version \in 0..deskWrites'
               /\ \A r \in deskPolls'[d] : r.version \in 0..deskWrites'
               /\ deskWrote'[d] \in 0..deskWrites'
    <2>1. deskWrites \in Nat /\ deskWrites' >= deskWrites
      BY DeskNumbers DEF DeskCounts
    <2>2. \A n \in 0..deskWrites : n \in 0..deskWrites'
      BY <2>1
    <2>3. \A r : DeskShows(r) => r.version \in 0..deskWrites'
      BY <2>2 DEF DeskShows
    <2>4. /\ deskView[d] = Desk!Unknown \/ DeskShows(deskView[d])
          /\ \A r \in deskPolls[d] \cup {deskRow} : DeskShows(r)
          /\ deskWrote[d] \in 0..deskWrites
      BY DeskNumbers DEF DeskWritten
    <2>5. DeskLearns(d)
      OBVIOUS
    <2>6. deskWrote'[d] \in 0..deskWrites'
      BY <2>2, <2>4, <2>5 DEF DeskLearns
    <2>7. \A r \in deskPolls'[d] : r.version \in 0..deskWrites'
      BY <2>3, <2>4, <2>5 DEF DeskLearns
    <2>8. deskView'[d] = Desk!Unknown \/ deskView'[d].version \in 0..deskWrites'
      BY <2>3, <2>4, <2>5 DEF DeskLearns
    <2> QED BY <2>6, <2>7, <2>8
  <1> QED BY <1>1 DEF DeskWritten, DeskCounts, DeskShows

LEMMA DeskSame ==
  ASSUME DeskInv, DeskWritten, DeskPlaces, SentBy' \subseteq SentBy, UNCHANGED <<deskRow, deskWrites>>
  PROVE  DeskCounts /\ deskWrites' \in Nat
  <1>1. IsFiniteSet(SentBy') /\ Cardinality(SentBy') <= Cardinality(SentBy)
    BY FS_Subset DEF DeskWritten
  <1>2. Cardinality(SentBy') \in Nat
    BY <1>1, FS_CardinalityType
  <1> QED BY <1>1, <1>2, DeskNumbers DEF DeskWritten, DeskCounts

LEMMA DeskSends ==
  ASSUME DeskInv, DeskWritten, DeskPlaces, NEW d \in DeskDesks, d \notin SentBy,
         SentBy' = SentBy \cup {d}, deskWrites' = deskWrites + 1, UNCHANGED deskRow
  PROVE  DeskCounts /\ deskWrites' \in Nat
  <1>a. IsFiniteSet(SentBy)
    BY DEF DeskWritten
  <1>1. IsFiniteSet(SentBy \cup {d}) /\ Cardinality(SentBy \cup {d}) = Cardinality(SentBy) + 1
    BY <1>a, FS_AddElement
  <1>2. IsFiniteSet(SentBy') /\ Cardinality(SentBy') = Cardinality(SentBy) + 1
    BY <1>1, Zenon
  <1>3. deskRow.version + Cardinality(SentBy) <= deskWrites
    BY DEF DeskWritten
  <1>4. deskRow'.version = deskRow.version
    OBVIOUS
  <1>5. deskRow'.version + Cardinality(SentBy') <= deskWrites'
    BY <1>2, <1>3, <1>4, DeskNumbers
  <1>6. deskWrites' \in Nat /\ deskWrites' >= deskWrites /\ deskRow'.version >= 0
    BY <1>4, DeskNumbers
  <1>7. DeskCounts
    BY <1>2, <1>5, <1>6 DEF DeskCounts
  <1>8. QED
    BY <1>6, <1>7

LEMMA DeskHandles ==
  ASSUME DeskInv, DeskWritten, DeskPlaces, NEW d \in DeskDesks, d \in SentBy,
         SentBy' = SentBy \ {d}, UNCHANGED deskWrites, deskRow'.version = deskRow.version + 1
  PROVE  DeskCounts /\ deskWrites' \in Nat
  <1>1. IsFiniteSet(SentBy') /\ Cardinality(SentBy') = Cardinality(SentBy) - 1
    BY FS_RemoveElement DEF DeskWritten
  <1> QED BY <1>1, DeskNumbers DEF DeskWritten, DeskCounts

(* Whether a desk waits with a request sent, after its own step. *)
LEMMA SentAfter ==
  ASSUME DeskInv, NEW d \in DeskDesks, NEW q, deskRequest' = [deskRequest EXCEPT ![d] = q]
  PROVE  SentBy' = IF q.at = "sent" THEN SentBy \cup {d} ELSE SentBy \ {d}
  <1>1. DOMAIN deskRequest = DeskDesks
    BY DEF DeskInv, DeskTypes
  <1> QED BY <1>1 DEF SentBy

LEMMA AskedLearns ==
  ASSUME DeskInv, NEW d \in DeskDesks, deskPolls' = Desk!Asked(d), NEW e \in DeskDesks,
         UNCHANGED <<deskView, deskWrote>>
  PROVE  DeskLearns(e)
  <1>1. DOMAIN deskPolls = DeskDesks
    BY DEF DeskInv, DeskTypes
  <1>2. deskPolls'[e] = deskPolls[e] \/ deskPolls'[e] = deskPolls[e] \cup {deskRow}
    BY <1>1 DEF Desk!Asked
  <1> QED BY <1>2 DEF DeskLearns

LEMMA NextDeskWritten ==
  ASSUME DeskInv, DeskWritten, DeskPlaces, Desk!Next \/ UNCHANGED deskVars
  PROVE  DeskWritten'
  <1> DEFINE Learning == \A e \in DeskDesks : DeskLearns(e)
  <1>k. ASSUME UNCHANGED <<deskView, deskPolls, deskWrote>> PROVE Learning
    BY <1>k DEF DeskLearns
  <1>s. ASSUME UNCHANGED <<deskRequest, deskRow, deskWrites>>, Learning PROVE DeskWritten'
    <2>1. SentBy' = SentBy
      BY <1>s DEF SentBy
    <2> QED BY <1>s, <2>1, DeskSame, DeskWrittenAgain
  <1>t. DOMAIN deskView = DeskDesks /\ DOMAIN deskPolls = DeskDesks /\ DOMAIN deskRequest = DeskDesks
        /\ DOMAIN deskWrote = DeskDesks
    BY DEF DeskInv, DeskTypes
  <1>1. CASE UNCHANGED deskVars
    BY <1>k, <1>s, <1>1 DEF deskVars
  <1>2. ASSUME NEW d \in DeskDesks, Desk!Poll(d) PROVE DeskWritten'
    BY <1>2, <1>s, AskedLearns DEF Desk!Poll
  <1>3. ASSUME NEW d \in DeskDesks, NEW r \in deskPolls[d], Desk!Told(d, r) \/ Desk!PollFails(d, r)
        PROVE  DeskWritten'
    <2>1. /\ deskView' = deskView \/ deskView' = [deskView EXCEPT ![d] = r]
          /\ deskPolls' = [deskPolls EXCEPT ![d] = @ \ {r}]
          /\ UNCHANGED <<deskRequest, deskRow, deskWrites, deskWrote>>
      BY <1>3 DEF Desk!Told, Desk!PollFails
    <2>2. Learning
      BY <1>t, <2>1 DEF DeskLearns
    <2> QED BY <1>s, <2>1, <2>2
  <1>4. ASSUME NEW d \in DeskDesks, Desk!Reset(d) \/ Desk!OpenDialog(d) \/ Desk!CloseDialog(d)
        PROVE  DeskWritten'
    BY <1>4, <1>k, <1>s DEF Desk!Reset, Desk!OpenDialog, Desk!CloseDialog
  <1>5. ASSUME NEW d \in DeskDesks, Desk!Confirm(d) \/ Desk!Save(d) PROVE DeskWritten'
    <2>1. PICK op \in Desk!Ops : Desk!Sends(d, op)
      BY <1>5 DEF Desk!Confirm, Desk!Save, Desk!Ops
    <2>2. UNCHANGED <<deskView, deskPolls, deskWrote, deskRow>>
      BY <1>5 DEF Desk!Confirm, Desk!Save
    <2>3. d \notin SentBy
      BY <2>1 DEF SentBy, Desk!Sends
    <2>4. SentBy' = SentBy \cup {d}
      <3> DEFINE q == [at |-> "sent", op |-> op, kill |-> deskDraft[d]]
      <3>1. deskRequest' = [deskRequest EXCEPT ![d] = q] /\ q.at = "sent"
        BY <2>1 DEF Desk!Sends
      <3> HIDE DEF q
      <3> QED BY <3>1, SentAfter
    <2>5. deskWrites' = deskWrites + 1
      BY <2>1 DEF Desk!Sends
    <2>6. Learning
      BY <1>k, <2>2
    <2>7. DeskCounts /\ deskWrites' \in Nat
      <3>1. UNCHANGED deskRow
        BY <2>2
      <3> QED BY <2>3, <2>4, <2>5, <3>1, DeskSends
    <2> QED BY <2>6, <2>7, DeskWrittenAgain
  <1>h. ASSUME NEW d \in DeskDesks, NEW op \in Desk!Ops,
               deskRequest[d].at = "sent", Desk!Handled(d)
        PROVE  d \in SentBy /\ SentBy' = SentBy \ {d}
    <2> DEFINE q == [deskRequest[d] EXCEPT !.at = "handled"]
    <2>1. deskRequest' = [deskRequest EXCEPT ![d] = q]
      BY <1>h, <1>t DEF Desk!Handled
    <2>2. q.at = "handled"
      BY DEF DeskInv, DeskTypes
    <2> HIDE DEF q
    <2>3. SentBy' = SentBy \ {d}
      BY <2>1, <2>2, SentAfter
    <2> QED BY <1>h, <2>3 DEF SentBy
  <1>w. ASSUME NEW d \in DeskDesks, NEW kill \in BOOLEAN, deskRequest[d].at = "sent",
               Desk!Handled(d), Desk!Written(d, kill), UNCHANGED <<deskView, deskPolls, deskWrites>>
        PROVE  DeskWritten'
    <2>1. d \in SentBy /\ SentBy' = SentBy \ {d}
      BY <1>h, <1>w DEF Desk!Ops
    <2>2. deskRow'.version = deskRow.version + 1 /\ deskWrote' = [deskWrote EXCEPT ![d] = deskRow.version + 1]
      BY <1>w DEF Desk!Written
    <2>3. Learning
      BY <1>t, <1>w, <2>1, <2>2, DeskNumbers DEF DeskLearns
    <2> QED BY <1>w, <2>1, <2>2, <2>3, DeskHandles, DeskWrittenAgain
  <1>6. ASSUME NEW d \in DeskDesks, Desk!HandleActivate(d) PROVE DeskWritten'
    BY <1>6, <1>w DEF Desk!HandleActivate
  <1>7. ASSUME NEW d \in DeskDesks, Desk!HandleDeactivate(d) PROVE DeskWritten'
    <2>1. CASE deskRow.there
      BY <1>7, <1>w, <2>1 DEF Desk!HandleDeactivate
    <2>2. CASE ~deskRow.there
      <3>1. UNCHANGED <<deskRow, deskWrote, deskView, deskPolls, deskWrites>>
            /\ deskRequest[d].at = "sent" /\ Desk!Handled(d)
        BY <1>7, <2>2 DEF Desk!HandleDeactivate
      <3>2. SentBy' = SentBy \ {d}
        BY <1>h, <3>1 DEF Desk!Ops
      <3> QED BY <1>k, <3>1, <3>2, DeskSame, DeskWrittenAgain
    <2> QED BY <2>1, <2>2
  <1>8. ASSUME NEW d \in DeskDesks, Desk!HandleSave(d) PROVE DeskWritten'
    <2>1. deskRequest[d].kill \in BOOLEAN
      BY Zenon DEF DeskInv, DeskTypes
    <2> QED BY <1>8, <1>w, <2>1 DEF Desk!HandleSave
  <1>9. ASSUME NEW d \in DeskDesks, Desk!Answered(d) \/ Desk!RequestFails(d) PROVE DeskWritten'
    <2>1. deskRequest' = [deskRequest EXCEPT ![d] = Desk!Idle] /\ UNCHANGED <<deskView, deskWrote, deskRow, deskWrites>>
      BY <1>9 DEF Desk!Answered, Desk!RequestFails
    <2>i. Desk!Idle.at = "idle"
      BY DEF Desk!Idle
    <2>2. SentBy' = SentBy \ {d}
      BY <2>1, <2>i, SentAfter
    <2>3. deskPolls' = deskPolls \/ deskPolls' = Desk!Asked(d)
      BY <1>9 DEF Desk!Answered, Desk!RequestFails
    <2>4. Learning
      BY <1>k, <2>1, <2>3, AskedLearns
    <2> QED BY <2>1, <2>2, <2>4, DeskSame, DeskWrittenAgain
  <1> HIDE DEF Learning
  <1> QED BY <1>1, <1>2, <1>3, <1>4, <1>5, <1>6, <1>7, <1>8, <1>9 DEF Desk!Next, Desk!Desk

LEMMA NextDeskPlaces ==
  ASSUME DeskPlaces, Desk!Next \/ UNCHANGED deskVars
  PROVE  DeskPlaces'
  <1> DeskMaxWrites \in Nat /\ DeskMaxFailures \in Nat
    BY ServicesBounds
  <1> USE DEF DeskPlaces, Desk!Sends
  <1>1. CASE UNCHANGED deskVars
    BY <1>1 DEF deskVars
  <1>2. ASSUME NEW d \in DeskDesks, Desk!Poll(d) \/ Desk!CloseDialog(d) PROVE DeskPlaces'
    BY <1>2 DEF Desk!Poll, Desk!CloseDialog
  <1>3. ASSUME NEW d \in DeskDesks, Desk!OpenDialog(d) PROVE DeskPlaces'
    <2>1. CASE Desk!Active(d)
      BY <1>3, <2>1 DEF Desk!OpenDialog
    <2>2. CASE ~Desk!Active(d)
      BY <1>3, <2>2 DEF Desk!OpenDialog
    <2> QED BY <2>1, <2>2
  <1>m. ASSUME NEW d \in DeskDesks, NEW r, Desk!Takes(d, r) PROVE deskMisled' \subseteq DeskDesks
    BY <1>m DEF Desk!Takes
  <1>4. ASSUME NEW d \in DeskDesks, NEW r \in deskPolls[d], Desk!Told(d, r) \/ Desk!PollFails(d, r)
        PROVE  DeskPlaces'
    <2>1. deskMisled' \subseteq DeskDesks
      BY <1>m, <1>4 DEF Desk!Told, Desk!PollFails
    <2> QED BY <1>4, <2>1 DEF Desk!Told, Desk!PollFails
  <1>5. ASSUME NEW d \in DeskDesks, Desk!Reset(d) PROVE DeskPlaces'
    BY <1>m, <1>5 DEF Desk!Reset
  <1>6. ASSUME NEW d \in DeskDesks, Desk!Confirm(d) \/ Desk!Save(d) PROVE DeskPlaces'
    BY <1>6 DEF Desk!Confirm, Desk!Save
  <1>7. ASSUME NEW d \in DeskDesks, Desk!HandleActivate(d) \/ Desk!HandleDeactivate(d) \/ Desk!HandleSave(d)
        PROVE  DeskPlaces'
    BY <1>7 DEF Desk!HandleActivate, Desk!HandleDeactivate, Desk!HandleSave, Desk!Written
  <1>8. ASSUME NEW d \in DeskDesks, Desk!Answered(d) \/ Desk!RequestFails(d) PROVE DeskPlaces'
    BY <1>8 DEF Desk!Answered, Desk!RequestFails
  <1> HIDE DEF DeskPlaces
  <1> QED BY <1>1, <1>2, <1>3, <1>4, <1>5, <1>6, <1>7, <1>8 DEF Desk!Next, Desk!Desk

-----------------------------------------------------------------------------
(* Saved secrets and the jobs that read them. *)
SecretsRows ==
  /\ secretsKind \in {"whatsapp", "api_key"}
  /\ secretsLive \subseteq Secrets!Rows /\ secretsShown \in Secrets!Rows
  /\ secretsHeld \in [SecretsJobs -> Secrets!Rows \cup {"none"}]
  /\ secretsJob \in [SecretsJobs -> {"new", "queued", "posted", "refused"}]
  /\ secretsFailures <= SecretsMaxFailures

LEMMA SecretsTypesAre == SecretsInv /\ SecretsRows => Secrets!TypeOK
  <1> SUFFICES ASSUME SecretsInv, SecretsRows PROVE Secrets!TypeOK
    OBVIOUS
  <1> SecretsMaxFailures \in Nat
    BY ServicesBounds
  <1>1. secretsFailures \in 0..SecretsMaxFailures
    BY DEF SecretsInv, SecretsTypes, SecretsRows
  <1> QED BY <1>1, Zenon DEF SecretsInv, SecretsTypes, SecretsRows, Secrets!TypeOK

LEMMA InitSecretsRows == Secrets!Init => SecretsRows
  <1> SecretsMaxFailures \in Nat
    BY ServicesBounds
  <1> QED BY DEF Secrets!Init, Secrets!Rows, SecretsRows

LEMMA NextSecretsRows ==
  ASSUME SecretsInv, SecretsRows, Secrets!Next \/ UNCHANGED secretsVars
  PROVE  SecretsRows'
  <1> SecretsMaxFailures \in Nat /\ secretsFailures \in Nat
    BY ServicesBounds DEF SecretsInv, SecretsTypes
  <1> USE DEF SecretsRows
  <1>1. ASSUME NEW s \in SecretsSaves, Secrets!Retire(s) \/ Secrets!Die(s) PROVE SecretsRows'
    BY <1>1 DEF Secrets!Retire, Secrets!Die
  <1>2. ASSUME NEW s \in SecretsSaves, Secrets!Insert(s) \/ Secrets!Mirror(s) PROVE SecretsRows'
    BY <1>2 DEF Secrets!Insert, Secrets!Mirror, Secrets!Rows
  <1>3. ASSUME NEW j \in SecretsJobs, Secrets!Compose(j) PROVE SecretsRows'
    BY <1>3 DEF Secrets!Compose
  <1>4. ASSUME NEW j \in SecretsJobs, Secrets!Load(j) PROVE SecretsRows'
    <2>1. CASE secretsHeld[j] \in secretsLive
      BY <1>4, <2>1 DEF Secrets!Load
    <2>2. CASE secretsHeld[j] \notin secretsLive
      BY <1>4, <2>2 DEF Secrets!Load
    <2> QED BY <2>1, <2>2
  <1>5. CASE UNCHANGED secretsVars
    BY <1>5 DEF secretsVars
  <1> HIDE DEF SecretsRows
  <1> QED BY <1>1, <1>2, <1>3, <1>4, <1>5 DEF Secrets!Next

-----------------------------------------------------------------------------
(* Consent requests and the links they send. *)
ConsentRanges ==
  /\ consentsConsent \in Consents!States /\ consentsRequests <= ConsentsMaxRequests
  /\ consentsUnsubs \in 0..ConsentsMaxUnsubs
  /\ consentsHalfway \in Nat /\ consentsHalfway <= consentsUnsubs
  /\ consentsToken \in [ConsentsClicks -> 0..ConsentsMaxRequests]
  /\ consentsStale \subseteq ConsentsMails /\ consentsDead \subseteq ConsentsClicks

LEMMA ConsentTypesAre == ConsentInv /\ ConsentRanges => Consents!TypeOK
  <1> SUFFICES ASSUME ConsentInv, ConsentRanges PROVE Consents!TypeOK
    OBVIOUS
  <1> ConsentsMaxRequests \in Nat /\ ConsentsMaxUnsubs \in Nat
    BY ServicesBounds
  <1>1. /\ consentsRequests \in 0..ConsentsMaxRequests
        /\ consentsLiveToken \in 0..ConsentsMaxRequests
        /\ consentsHalfway \in 0..ConsentsMaxUnsubs
    BY DEF ConsentInv, ConsentTypes, TokensReplaced, ConsentRanges
  <1>2. consentsLate \subseteq ConsentsMails
    BY DEF ConsentInv, MailOutdated, ConsentRanges
  <1> QED BY <1>1, <1>2, Zenon DEF ConsentInv, ConsentTypes, ConsentRanges, Consents!TypeOK

LEMMA InitConsentRanges == Consents!Init => ConsentRanges
  <1> ConsentsMaxRequests \in Nat /\ ConsentsMaxUnsubs \in Nat
    BY ServicesBounds
  <1> QED BY DEF Consents!Init, Consents!States, ConsentRanges

LEMMA NextConsentRanges ==
  ASSUME ConsentInv, ConsentRanges, Consents!Next \/ UNCHANGED consentsVars
  PROVE  ConsentRanges'
  <1> ConsentsMaxRequests \in Nat /\ ConsentsMaxUnsubs \in Nat /\ consentsRequests \in Nat
    BY ServicesBounds DEF ConsentInv, ConsentTypes
  <1> USE DEF ConsentRanges, Consents!GoOn
  <1>r. ASSUME NEW state \in {"granted", "revoked"}, Consents!Record(state)
        PROVE  consentsConsent' \in Consents!States /\ consentsStale' \subseteq ConsentsMails
    BY <1>r DEF Consents!Record, Consents!OutdatesRuns, Consents!Cleared, Consents!States
  <1>1. CASE UNCHANGED consentsVars
    BY <1>1 DEF consentsVars
  <1>2. ASSUME NEW e \in ConsentsEdits,
               Consents!EditContact(e) \/ Consents!DeleteContact(e) \/ Consents!ListBouncers(e)
        PROVE  ConsentRanges'
    BY <1>2 DEF Consents!EditContact, Consents!DeleteContact, Consents!ListBouncers, Consents!contact
  <1>3. ASSUME NEW e \in ConsentsEdits, Consents!UpsertConsent(e) \/ Consents!CleanBouncer(e)
        PROVE  ConsentRanges'
    <2>1. \E state \in {"granted", "revoked"} : Consents!Record(state)
      BY <1>3 DEF Consents!UpsertConsent, Consents!CleanBouncer
    <2>2. UNCHANGED <<consentsRequests, consentsUnsubs, consentsHalfway, consentsToken, consentsDead>>
      BY <1>3 DEF Consents!UpsertConsent, Consents!CleanBouncer
    <2> QED BY <1>r, <2>1, <2>2
  <1>4. ASSUME NEW e \in ConsentsEdits, Consents!CascadeDelete(e) PROVE ConsentRanges'
    BY <1>4 DEF Consents!CascadeDelete, Consents!States
  <1>5. CASE Consents!RequestConsent
    BY <1>5 DEF Consents!RequestConsent, Consents!States, Consents!actors
  <1>6. ASSUME NEW k \in ConsentsClicks, Consents!AnswerRequest(k) PROVE ConsentRanges'
    <2>1. PICK t \in 1..consentsRequests :
            /\ consentsToken' = [consentsToken EXCEPT ![k] = t]
            /\ consentsDead' = IF t < consentsRequests THEN consentsDead \cup {k} ELSE consentsDead
      BY <1>6 DEF Consents!AnswerRequest
    <2>2. t \in 0..ConsentsMaxRequests
      OBVIOUS
    <2>3. consentsDead' \subseteq ConsentsClicks
      BY <2>1
    <2>4. UNCHANGED <<consentsConsent, consentsRequests, consentsUnsubs, consentsHalfway, consentsStale>>
      BY <1>6 DEF Consents!AnswerRequest, Consents!contact
    <2> QED BY <2>1, <2>2, <2>3, <2>4
  <1>7. ASSUME NEW k \in ConsentsClicks, Consents!RecordAnswer(k) PROVE ConsentRanges'
    <2>1. \E state \in {"granted", "revoked"} : Consents!Record(state)
      BY <1>7 DEF Consents!RecordAnswer
    <2>2. UNCHANGED <<consentsRequests, consentsUnsubs, consentsHalfway, consentsToken, consentsDead>>
      BY <1>7 DEF Consents!RecordAnswer
    <2> QED BY <1>r, <2>1, <2>2
  <1>8. ASSUME NEW begun \in {0, 1}, Consents!Unsubscribes(begun) PROVE ConsentRanges'
    <2>1. consentsConsent' \in Consents!States /\ consentsStale' \subseteq ConsentsMails
      BY <1>r, <1>8 DEF Consents!Unsubscribes
    <2>2. /\ consentsUnsubs' \in 0..ConsentsMaxUnsubs
          /\ consentsHalfway' \in Nat /\ consentsHalfway' <= consentsUnsubs'
          /\ UNCHANGED <<consentsRequests, consentsToken, consentsDead>>
      BY <1>8 DEF Consents!Unsubscribes
    <2> QED BY <2>1, <2>2
  <1>9. CASE Consents!Suppress
    BY <1>9 DEF Consents!Suppress, Consents!OutdatesRuns, Consents!Cleared
  <1>10. ASSUME NEW m \in ConsentsMails, Consents!LoadContext(m) \/ Consents!SendMail(m)
         PROVE  ConsentRanges'
    BY <1>10 DEF Consents!LoadContext, Consents!SendMail, Consents!contact
  <1> HIDE DEF ConsentRanges
  <1> QED
    BY <1>1, <1>2, <1>3, <1>4, <1>5, <1>6, <1>7, <1>8, <1>9, <1>10
       DEF Consents!Next, Consents!OperatorStep, Consents!HandleUnsubscribe, Consents!ProcessUnsubscribe

-----------------------------------------------------------------------------
(* Answers that are spoken: lines may be torn as long as there are any. *)
SpeechCuts == speechTorn \subseteq 1..(SpeechMaxPieces + 2) /\ speechCut \in BOOLEAN

LEMMA SpeechTypesAre == SpeechInv /\ SpeechCuts => Speech!TypeOK
  <1> SUFFICES ASSUME SpeechInv, SpeechCuts PROVE Speech!TypeOK
    OBVIOUS
  <1> SpeechMaxPieces \in Nat
    BY ServicesBounds
  <1>1. speechAt \in 1..(SpeechMaxPieces + 3)
    BY DEF SpeechInv, SpeechTypes
  <1> QED BY <1>1, Zenon DEF SpeechInv, SpeechTypes, SpeechCuts, Speech!TypeOK

LEMMA NextSpeechCuts ==
  ASSUME SpeechInv, SpeechCuts, Speech!Next \/ UNCHANGED speechVars
  PROVE  SpeechCuts'
  <1> SpeechMaxPieces \in Nat
    BY ServicesBounds
  <1> USE DEF SpeechCuts
  <1>1. CASE Speech!CutLine
    <2>1. speechAt \in 1..(SpeechMaxPieces + 2)
      BY <1>1 DEF Speech!CutLine, SpeechInv, SpeechTypes
    <2> QED BY <1>1, <2>1 DEF Speech!CutLine
  <1>2. CASE Speech!NextLine
    BY <1>2 DEF Speech!NextLine
  <1>3. CASE UNCHANGED <<speechTorn, speechCut>>
    BY <1>3
  <1>4. UNCHANGED speechVars => UNCHANGED <<speechTorn, speechCut>>
    BY DEF speechVars
  <1> HIDE DEF SpeechCuts
  <1> QED
    BY <1>1, <1>2, <1>3, <1>4
       DEF Speech!Next, Speech!Accept, Speech!Refuse, Speech!AskAnthropic, Speech!AnthropicFails,
           Speech!AnswerWhole, Speech!Close, Speech!answer

-----------------------------------------------------------------------------
(* A contact's window of events: no longer than the window, with its counts. *)
MemoryCounts ==
  /\ memorySession.events \in Seq(Memory!Events) /\ Len(memorySession.events) <= MemoryWindow
  /\ memorySession.unanswered \in Nat /\ memorySession.total \in Nat
  /\ memoryTotal \in Nat /\ memoryLoaded \subseteq Memory!Objects
  /\ Len(memoryPushed) <= MemoryMaxEvents

LEMMA MemoryTypesAre == MemoryInv /\ MemoryCounts => Memory!TypeOK
  <1> SUFFICES ASSUME MemoryInv, MemoryCounts PROVE Memory!TypeOK
    OBVIOUS
  <1> MemoryWindow \in Nat
    BY ServicesBounds
  <1>1. Len(memoryPushed) \in Nat
    BY LenProperties DEF MemoryInv
  <1>2. Len(memoryInbox) <= MemoryWindow
    BY <1>1 DEF MemoryInv, Filled, Memory!LeastOf
  <1> QED BY <1>2 DEF MemoryInv, MemoryCounts, Memory!TypeOK

LEMMA InitMemoryCounts == Memory!Init => MemoryCounts
  <1> SUFFICES ASSUME Memory!Init PROVE MemoryCounts
    OBVIOUS
  <1> MemoryWindow \in Nat /\ MemoryMaxEvents \in Nat
    BY ServicesBounds
  <1>1. <<>> \in Seq(Memory!Events) /\ Len(<<>>) = 0
    BY EmptySeq
  <1>2. /\ Memory!Fresh.events = <<>> /\ Memory!Fresh.unanswered = 0 /\ Memory!Fresh.total = 0
    BY DEF Memory!Fresh
  <1> QED BY <1>1, <1>2 DEF Memory!Init, MemoryCounts

LEMMA NextMemoryCounts ==
  ASSUME MemoryInv, MemoryCounts, Memory!Next \/ UNCHANGED memoryVars
  PROVE  MemoryCounts'
  <1> MemoryWindow \in Nat /\ MemoryMaxEvents \in Nat
    BY ServicesBounds
  <1>1. CASE UNCHANGED memoryVars
    BY <1>1 DEF MemoryCounts, memoryVars
  <1>2. ASSUME NEW e \in Memory!Events, Memory!Push(e) PROVE MemoryCounts'
    <2> DEFINE c == Append(memorySession.events, e)
               d == e.direction
    <2>1. /\ memorySession'.events = Memory!Trim(c)
          /\ memorySession'.unanswered = CASE d = "outbound" -> memorySession.unanswered + 1
                                           [] d = "inbound" -> 0
                                           [] OTHER -> memorySession.unanswered
          /\ memorySession'.total = memorySession.total + 1
      BY <1>2 DEF Memory!Push, Memory!PushSession
    <2>2. c \in Seq(Memory!Events) /\ Len(c) = Len(memorySession.events) + 1
          /\ Len(memorySession.events) \in Nat
      BY AppendProperties, LenProperties DEF MemoryCounts
    <2>3. Len(memorySession.events) <= MemoryWindow
      BY DEF MemoryCounts
    <2> HIDE DEF c, d
    <2>4. Memory!Trim(c) \in Seq(Memory!Events) /\ Len(Memory!Trim(c)) <= MemoryWindow
      BY <2>2, <2>3, TrimmedTo
    <2>5. memorySession'.unanswered \in Nat /\ memorySession'.total \in Nat
      BY <2>1 DEF MemoryCounts
    <2>6. memoryTotal' \in Nat /\ memoryLoaded' \subseteq Memory!Objects
      BY <1>2 DEF Memory!Push, Memory!PushInbox, MemoryCounts
    <2>7. Len(memoryPushed') <= MemoryMaxEvents
      <3>1. memoryPushed \in Seq(Memory!Events) /\ Len(memoryPushed) < MemoryMaxEvents
            /\ memoryPushed' = Append(memoryPushed, e)
        BY <1>2 DEF Memory!Push, MemoryInv
      <3>2. Len(memoryPushed') = Len(memoryPushed) + 1 /\ Len(memoryPushed) \in Nat
        BY <3>1, AppendProperties, LenProperties
      <3> QED BY <3>1, <3>2
    <2> QED BY <2>1, <2>4, <2>5, <2>6, <2>7 DEF MemoryCounts
  <1>3. CASE Memory!ResetSession
    <2>1. <<>> \in Seq(Memory!Events) /\ Len(<<>>) = 0
      BY EmptySeq
    <2>2. Memory!Fresh.events = <<>> /\ Memory!Fresh.unanswered = 0 /\ Memory!Fresh.total = 0
      BY DEF Memory!Fresh
    <2>3. memorySession' = Memory!Fresh /\ memoryTotal' = memoryTotal /\ memoryPushed' = memoryPushed
          /\ memoryLoaded' \subseteq Memory!Objects
      BY <1>3 DEF Memory!ResetSession, Memory!Objects, MemoryCounts
    <2>4. memorySession'.events = <<>> /\ memorySession'.unanswered = 0 /\ memorySession'.total = 0
      BY <2>2, <2>3, Zenon
    <2> QED BY <2>1, <2>3, <2>4 DEF MemoryCounts
  <1>4. ASSUME NEW o \in Memory!Objects, Memory!Load(o) \/ Memory!Evict(o) PROVE MemoryCounts'
    BY <1>4 DEF Memory!Load, Memory!Evict, MemoryCounts
  <1> QED BY <1>1, <1>2, <1>3, <1>4 DEF Memory!Next

-----------------------------------------------------------------------------
(* Plans: what a run knows, plans and sends, and how often it asks the model. *)
PlanStations == {"queued", "ask", "save", "approve", "dispatch", "complete",
                 "blocked", "pending_human", "failed", "completed"}

PlanWorld ==
  /\ planControls \in Plan!Controls /\ planRevoked \subseteq Plan!Channels
  /\ planReach \subseteq Plan!Channels
  /\ planEdits \in Nat /\ planEdits <= PlanMaxEdits

PlanRows ==
  /\ planAt \in [PlanRuns -> PlanStations]
  /\ planLimits \in [PlanRuns -> Plan!Limits]
  /\ planCalls \in [PlanRuns -> {0, 1, 2}]
  /\ planPlan \in [PlanRuns -> Plan!Plans]
  /\ planSent \in [PlanRuns -> SUBSET Plan!Channels]
  /\ \A r \in PlanRuns : (planAt[r] = "queued" => planCalls[r] = 0)
                         /\ (planAt[r] = "ask" => planCalls[r] \in {0, 1})

PlanPlaces == PlanWorld /\ PlanRows

LEMMA PlanTypesAre == PlanPlaces => Plan!TypeOK
  <1> SUFFICES ASSUME PlanPlaces PROVE Plan!TypeOK
    OBVIOUS
  <1> PlanMaxEdits \in Nat
    BY ServicesBounds
  <1>1. planEdits \in 0..PlanMaxEdits
    BY DEF PlanPlaces, PlanWorld
  <1>2. {0, 1, 2} = 0..2
    OBVIOUS
  <1>3. planCalls \in [PlanRuns -> 0..2]
    BY <1>2, Zenon DEF PlanPlaces, PlanRows
  <1> QED BY <1>1, <1>3, Zenon DEF PlanPlaces, PlanWorld, PlanRows, PlanStations, Plan!TypeOK

LEMMA ControlsAre ==
  ASSUME NEW a, a \subseteq Plan!Channels, NEW t \in 0..10, NEW c \in BOOLEAN
  PROVE  [allowed |-> a, threshold |-> t, callsNeedApproval |-> c] \in Plan!Controls
  BY Zenon DEF Plan!Controls

LEMMA LoadedAreLimits ==
  ASSUME PlanWorld
  PROVE  Plan!Loaded \in Plan!Limits
  <1>1. /\ planControls.allowed \in SUBSET Plan!Channels
        /\ planControls.threshold \in 0..10
        /\ planControls.callsNeedApproval \in BOOLEAN
    BY Zenon DEF PlanWorld, Plan!Controls
  <1>2. planRevoked \in SUBSET Plan!Channels /\ planReach \in SUBSET Plan!Channels
    BY DEF PlanWorld
  <1> QED BY <1>1, <1>2, Zenon DEF Plan!Loaded, Plan!Limits

LEMMA InitPlanPlaces == Plan!Init => PlanPlaces
  <1> SUFFICES ASSUME Plan!Init PROVE PlanPlaces
    OBVIOUS
  <1> PlanMaxEdits \in Nat
    BY ServicesBounds
  <1>1. Plan!Defaults \in Plan!Controls
    <2>1. 8 \in 0..10 /\ {} \subseteq Plan!Channels /\ FALSE \in BOOLEAN
      OBVIOUS
    <2> QED BY <2>1, ControlsAre, Zenon DEF Plan!Defaults
  <1>2. PlanWorld
    BY <1>1 DEF Plan!Init, PlanWorld
  <1>3. Plan!Loaded \in Plan!Limits
    BY <1>2, LoadedAreLimits
  <1>4. [tool |-> "none", risk |-> 0, whole |-> FALSE] \in Plan!Plans
    <2>1. 0 \in 0..10
      OBVIOUS
    <2> QED BY <2>1, Zenon DEF Plan!Plans
  <1>5. /\ planAt = [r \in PlanRuns |-> "queued"] /\ planLimits = [r \in PlanRuns |-> Plan!Loaded]
        /\ planCalls = [r \in PlanRuns |-> 0] /\ planSent = [r \in PlanRuns |-> {}]
        /\ planPlan = [r \in PlanRuns |-> [tool |-> "none", risk |-> 0, whole |-> FALSE]]
    BY DEF Plan!Init
  <1>6. planPlan \in [PlanRuns -> Plan!Plans] /\ planLimits \in [PlanRuns -> Plan!Limits]
    BY <1>3, <1>4, <1>5, Zenon
  <1>7. /\ planAt \in [PlanRuns -> PlanStations] /\ planCalls \in [PlanRuns -> {0, 1, 2}]
        /\ planSent \in [PlanRuns -> SUBSET Plan!Channels]
        /\ \A r \in PlanRuns : planAt[r] = "queued" /\ planCalls[r] = 0
    BY <1>5 DEF PlanStations
  <1> QED BY <1>2, <1>6, <1>7 DEF PlanRows, PlanPlaces

(* Operators change the controls, the consents and the reachability, and      *)
(* nothing else.                                                              *)
LEMMA PlanEdited ==
  ASSUME PlanPlaces, Plan!EditControls \/ Plan!EditConsent \/ Plan!EditReach
  PROVE  PlanPlaces'
  <1> PlanMaxEdits \in Nat
    BY ServicesBounds
  <1>1. planEdits' = planEdits + 1 /\ planEdits < PlanMaxEdits
        /\ UNCHANGED <<planAt, planLimits, planCalls, planPlan, planSent>>
    BY DEF Plan!EditControls, Plan!EditConsent, Plan!EditReach
  <1>2. planControls' \in Plan!Controls
    <2>1. CASE Plan!EditControls
      <3>1. PICK a \in PlanAllowed, t \in {0, 8, 10}, c \in BOOLEAN :
              planControls' = [allowed |-> a, threshold |-> t, callsNeedApproval |-> c]
        BY <2>1, Zenon DEF Plan!EditControls
      <3>2. a \subseteq Plan!Channels
        BY ServicesBounds DEF Plan!Channels
      <3>3. t \in 0..10
        OBVIOUS
      <3> QED BY <3>1, <3>2, <3>3, ControlsAre, Zenon
    <2>2. CASE planControls' = planControls
      BY <2>2, Zenon DEF PlanPlaces, PlanWorld
    <2> QED BY <2>1, <2>2 DEF Plan!EditConsent, Plan!EditReach
  <1>3. planRevoked' \subseteq Plan!Channels /\ planReach' \subseteq Plan!Channels
    BY DEF Plan!EditControls, Plan!EditConsent, Plan!EditReach, PlanPlaces, PlanWorld
  <1>4. planEdits' \in Nat /\ planEdits' <= PlanMaxEdits
    BY <1>1 DEF PlanPlaces, PlanWorld
  <1>5. PlanRows'
    BY <1>1 DEF PlanPlaces, PlanRows
  <1> QED BY <1>2, <1>3, <1>4, <1>5 DEF PlanPlaces, PlanWorld

(* A step of a run moves that run on, and asks the model at most once more.   *)
LEMMA PlanRowsMove ==
  ASSUME PlanRows, NEW r \in PlanRuns, NEW p \in PlanStations, p # "queued",
         planAt' = [planAt EXCEPT ![r] = p],
         planLimits' \in [PlanRuns -> Plan!Limits], planPlan' \in [PlanRuns -> Plan!Plans],
         planSent' \in [PlanRuns -> SUBSET Plan!Channels],
         \/ planCalls' = planCalls /\ (p = "ask" => planAt[r] = "queued")
         \/ /\ planAt[r] = "ask" /\ planCalls' = [planCalls EXCEPT ![r] = @ + 1]
            /\ p = "ask" => planCalls[r] = 0
  PROVE  PlanRows'
  <1>1. planAt' \in [PlanRuns -> PlanStations] /\ planAt'[r] = p
        /\ \A q \in PlanRuns \ {r} : planAt'[q] = planAt[q]
    BY DEF PlanRows
  <1>2. planCalls' \in [PlanRuns -> {0, 1, 2}]
        /\ (p = "ask" => planCalls'[r] \in {0, 1})
        /\ \A q \in PlanRuns \ {r} : planCalls'[q] = planCalls[q]
    <2>1. CASE planCalls' = planCalls /\ (p = "ask" => planAt[r] = "queued")
      BY <2>1 DEF PlanRows
    <2>2. CASE /\ planAt[r] = "ask" /\ planCalls' = [planCalls EXCEPT ![r] = @ + 1]
               /\ p = "ask" => planCalls[r] = 0
      <3>1. planCalls \in [PlanRuns -> {0, 1, 2}] /\ planCalls[r] \in {0, 1}
        BY <2>2 DEF PlanRows
      <3>2. planCalls[r] + 1 \in {1, 2} /\ (planCalls[r] = 0 => planCalls[r] + 1 = 1)
        BY <3>1
      <3> QED BY <2>2, <3>1, <3>2
    <2> QED BY <2>1, <2>2
  <1>3. \A q \in PlanRuns : (planAt'[q] = "queued" => planCalls'[q] = 0)
                            /\ (planAt'[q] = "ask" => planCalls'[q] \in {0, 1})
    BY <1>1, <1>2 DEF PlanRows
  <1> QED BY <1>1, <1>2, <1>3, Zenon DEF PlanRows

LEMMA PlanRowsGo ==
  ASSUME PlanRows, NEW r \in PlanRuns, NEW p \in PlanStations, p # "queued",
         Plan!GoTo(r, p), UNCHANGED <<planLimits, planPlan, planSent>>,
         \/ planCalls' = planCalls /\ (p = "ask" => planAt[r] = "queued")
         \/ /\ planAt[r] = "ask" /\ planCalls' = [planCalls EXCEPT ![r] = @ + 1]
            /\ p = "ask" => planCalls[r] = 0
  PROVE  PlanRows'
  <1>1. /\ planLimits' \in [PlanRuns -> Plan!Limits] /\ planPlan' \in [PlanRuns -> Plan!Plans]
        /\ planSent' \in [PlanRuns -> SUBSET Plan!Channels]
    BY Zenon DEF PlanRows
  <1> QED BY <1>1, PlanRowsMove DEF Plan!GoTo

LEMMA PlanStepped ==
  ASSUME PlanPlaces, NEW r \in PlanRuns, Plan!RunStep(r)
  PROVE  PlanPlaces'
  <1> PlanWorld /\ PlanRows
    BY DEF PlanPlaces
  <1>1. UNCHANGED <<planControls, planRevoked, planReach, planEdits>>
    BY DEF Plan!RunStep, Plan!LoadContext, Plan!OtherVerdict, Plan!AskModel, Plan!InvalidAnswer,
           Plan!ApiError, Plan!SaveDecision, Plan!ApprovalGate, Plan!DispatchEmail,
           Plan!DispatchWhatsApp, Plan!DispatchVoiceCall, Plan!Dispatches, Plan!DispatchQuiet,
           Plan!DispatchFails, Plan!Complete, Plan!world
  <1>2. PlanWorld'
    BY <1>1 DEF PlanWorld
  <1>3. CASE Plan!LoadContext(r)
    <2> DEFINE p == IF Plan!PassesGate(Plan!IntendedChannel(r)) THEN "ask" ELSE "blocked"
    <2>1. planAt[r] = "queued" /\ planAt' = [planAt EXCEPT ![r] = p]
          /\ planLimits' = [planLimits EXCEPT ![r] = Plan!Loaded]
          /\ UNCHANGED <<planCalls, planPlan, planSent>>
      BY <1>3 DEF Plan!LoadContext, Plan!GoTo
    <2>2. p \in PlanStations /\ p # "queued"
      BY DEF PlanStations
    <2>3. planLimits' \in [PlanRuns -> Plan!Limits]
      BY <2>1, LoadedAreLimits, Zenon DEF PlanRows
    <2>4. planPlan' \in [PlanRuns -> Plan!Plans]
          /\ planSent' \in [PlanRuns -> SUBSET Plan!Channels]
      BY <2>1, Zenon DEF PlanRows
    <2> HIDE DEF p
    <2>5. PlanRows'
      BY <2>1, <2>2, <2>3, <2>4, PlanRowsMove
    <2> QED BY <1>2, <2>5 DEF PlanPlaces
  <1>4. CASE Plan!AskModel(r)
    <2>1. PICK a \in Plan!Answered : planPlan' = [planPlan EXCEPT ![r] = a]
      BY <1>4 DEF Plan!AskModel
    <2>2. planAt[r] = "ask" /\ planAt' = [planAt EXCEPT ![r] = "save"]
          /\ planCalls' = [planCalls EXCEPT ![r] = @ + 1] /\ UNCHANGED <<planLimits, planSent>>
      BY <1>4 DEF Plan!AskModel, Plan!GoTo
    <2>3. Plan!RiskLevels \subseteq 0..10
      <3>1. \A x \in PlanRisks : Plan!Clamp(x) \in 0..10
        <4> SUFFICES ASSUME NEW x \in PlanRisks PROVE Plan!Clamp(x) \in 0..10
          OBVIOUS
        <4>1. x \in Int
          BY ServicesAssumption
        <4> QED BY <4>1 DEF Plan!Clamp
      <3>2. 5 \in 0..10
        OBVIOUS
      <3> QED BY <3>1, <3>2, Zenon DEF Plan!RiskLevels
    <2>4. a \in Plan!Plans
      <3>1. CASE a \in [tool : Plan!Senders, risk : Plan!RiskLevels, whole : BOOLEAN]
        BY <2>3, <3>1, Zenon DEF Plan!Plans
      <3>2. CASE a \in [tool : Plan!Quiet, risk : Plan!RiskLevels, whole : {TRUE}]
        BY <2>3, <3>2, Zenon DEF Plan!Plans
      <3> QED BY <3>1, <3>2, Zenon DEF Plan!Answered
    <2>5. planPlan' \in [PlanRuns -> Plan!Plans]
      BY <2>1, <2>4, Zenon DEF PlanRows
    <2>6. planLimits' \in [PlanRuns -> Plan!Limits]
          /\ planSent' \in [PlanRuns -> SUBSET Plan!Channels]
      BY <2>2, Zenon DEF PlanRows
    <2>7. "save" \in PlanStations
      BY DEF PlanStations
    <2>8. PlanRows'
      BY <2>2, <2>5, <2>6, <2>7, PlanRowsMove
    <2> QED BY <1>2, <2>8 DEF PlanPlaces
  <1>5. ASSUME NEW tool, NEW channel \in Plan!Channels, NEW s, Plan!Dispatches(r, tool, channel, s)
        PROVE  PlanPlaces'
    <2>1. planAt[r] = "dispatch" /\ planAt' = [planAt EXCEPT ![r] = "complete"]
          /\ UNCHANGED <<planLimits, planCalls, planPlan>>
          /\ \/ planSent' = [planSent EXCEPT ![r] = @ \cup {channel}]
             \/ planSent' = planSent
      BY <1>5 DEF Plan!Dispatches, Plan!GoTo
    <2>2. planSent' \in [PlanRuns -> SUBSET Plan!Channels]
      BY <2>1 DEF PlanRows
    <2>3. planLimits' \in [PlanRuns -> Plan!Limits] /\ planPlan' \in [PlanRuns -> Plan!Plans]
      BY <2>1, Zenon DEF PlanRows
    <2>4. "complete" \in PlanStations
      BY DEF PlanStations
    <2>5. PlanRows'
      BY <2>1, <2>2, <2>3, <2>4, PlanRowsMove
    <2> QED BY <1>2, <2>5 DEF PlanPlaces
  <1>6. CASE Plan!DispatchEmail(r) \/ Plan!DispatchWhatsApp(r) \/ Plan!DispatchVoiceCall(r)
    <2>1. {"email", "whatsapp", "voice"} = Plan!Channels
      BY DEF Plan!Channels
    <2> QED BY <1>5, <1>6, <2>1
           DEF Plan!DispatchEmail, Plan!DispatchWhatsApp, Plan!DispatchVoiceCall
  <1>7. ASSUME NEW p \in {"blocked", "ask", "failed", "approve", "pending_human", "dispatch",
                          "complete", "completed"},
               Plan!GoTo(r, p), UNCHANGED <<planLimits, planPlan, planSent>>,
               \/ planCalls' = planCalls /\ p # "ask"
               \/ /\ planAt[r] = "ask" /\ planCalls' = [planCalls EXCEPT ![r] = @ + 1]
                  /\ p = "ask" => planCalls[r] = 0
        PROVE  PlanPlaces'
    <2>1. p \in PlanStations /\ p # "queued"
      BY DEF PlanStations
    <2>2. PlanRows'
      BY <1>7, <2>1, PlanRowsGo
    <2> QED BY <1>2, <2>2 DEF PlanPlaces
  <1>8. CASE Plan!InvalidAnswer(r)
    <2>1. CASE planCalls[r] = 0
      BY <1>7, <1>8, <2>1 DEF Plan!InvalidAnswer
    <2>2. CASE planCalls[r] # 0
      BY <1>7, <1>8, <2>2 DEF Plan!InvalidAnswer
    <2> QED BY <2>1, <2>2
  <1>9. CASE Plan!ApprovalGate(r)
    <2>1. CASE Plan!NeedsApproval(r)
      BY <1>7, <1>9, <2>1 DEF Plan!ApprovalGate
    <2>2. CASE ~Plan!NeedsApproval(r)
      BY <1>7, <1>9, <2>2 DEF Plan!ApprovalGate
    <2> QED BY <2>1, <2>2
  <1>10. CASE Plan!OtherVerdict(r)
    BY <1>7, <1>10 DEF Plan!OtherVerdict
  <1>11. CASE Plan!ApiError(r)
    BY <1>7, <1>11 DEF Plan!ApiError
  <1>12. CASE Plan!SaveDecision(r) \/ Plan!DispatchQuiet(r) \/ Plan!DispatchFails(r)
              \/ Plan!Complete(r)
    BY <1>7, <1>12
       DEF Plan!SaveDecision, Plan!DispatchQuiet, Plan!DispatchFails, Plan!Complete
  <1> QED
    BY <1>3, <1>4, <1>6, <1>8, <1>9, <1>10, <1>11, <1>12 DEF Plan!RunStep

LEMMA NextPlanPlaces ==
  ASSUME PlanPlaces, Plan!Next \/ UNCHANGED planVars
  PROVE  PlanPlaces'
  <1>1. CASE UNCHANGED planVars
    BY <1>1 DEF PlanPlaces, PlanWorld, PlanRows, planVars
  <1> QED BY <1>1, PlanEdited, PlanStepped DEF Plan!Next

-----------------------------------------------------------------------------
(* What each part needs for its types, and is kept by its steps. *)
FlowInv ==
  /\ OAuth!TypeOK /\ InboundTypes /\ ChatTypes /\ Mail!TypeOK
  /\ ImportTypes /\ FormInv /\ VoiceTypes /\ PlanPlaces

CountInv ==
  /\ LimiterInv /\ TrackInv /\ TrackCounts /\ SetupInv /\ SetupPlaces
  /\ ConfigTyped /\ ConfigCounts
  /\ CronInv /\ CronLeftHours /\ CronBackupsAre /\ CronReports
  /\ ScoringInv /\ ScoringFactsAre /\ NumbersInv /\ NumbersStates

PeopleInv ==
  /\ ConsentInv /\ ConsentRanges /\ SecretsInv /\ SecretsRows
  /\ SessionInv /\ SessionPlaces /\ GateInv /\ DueInv /\ GateTimes
  /\ BulkInv /\ BulkPages /\ DeskInv /\ DeskWritten /\ DeskPlaces
  /\ SpeechInv /\ SpeechCuts /\ MemoryInv /\ MemoryCounts

TypesInv == part \in Parts /\ FlowInv /\ CountInv /\ PeopleInv

LEMMA InitFlowInv == Init => FlowInv
  BY InitOAuthTypes, InitInboundTypes, InitChatTypes, InitMailTypes, InitImportTypes,
     InitFormInv, InitVoiceTypes, InitPlanPlaces DEF Init, FlowInv

LEMMA NextFlowInv == FlowInv /\ [Next]_vars => FlowInv'
  <1> SUFFICES ASSUME FlowInv, [Next]_vars PROVE FlowInv'
    OBVIOUS
  <1>1. (OAuth!TypeOK /\ InboundTypes /\ ChatTypes /\ Mail!TypeOK)'
    BY StepOfPart, NextOAuthTypes, NextInboundTypes, NextChatTypes, NextMailTypes DEF FlowInv
  <1>2. (ImportTypes /\ FormInv)'
    BY StepOfPart, NextImportTypes, NextFormTypes, NextFormLists, NextFormClicks
       DEF FlowInv, FormInv
  <1>3. (VoiceTypes /\ PlanPlaces)'
    BY StepOfPart, NextVoiceTypes, NextPlanPlaces DEF FlowInv
  <1> QED BY <1>1, <1>2, <1>3 DEF FlowInv

LEMMA FlowTypesAre ==
  ASSUME FlowInv
  PROVE  /\ OAuth!TypeOK /\ Inbound!TypeOK /\ Chat!TypeOK /\ Mail!TypeOK
         /\ Import!TypeOK /\ Form!TypeOK /\ Voice!TypeOK /\ Plan!TypeOK
  BY FormTypesAre, PlanTypesAre
     DEF FlowInv, InboundTypes, ChatTypes, ImportTypes, FormInv, VoiceTypes

LEMMA InitCountInv == Init => CountInv
  <1> SUFFICES ASSUME Init PROVE CountInv
    OBVIOUS
  <1>1. NumbersStates
    BY DEF Init, Numbers!Init, NumbersStates
  <1> QED
    BY <1>1, InitLimiterInv, InitTrackInv, InitTrackCounts, InitSetupInv, InitSetupPlaces,
       InitConfigTyped, InitConfigCounts, InitCronInv, InitCronTypes, InitScoringInv,
       InitScoringFacts, InitNumbersInv
       DEF Init, CountInv

LEMMA NextCountInv == CountInv /\ [Next]_vars => CountInv'
  <1> SUFFICES ASSUME CountInv, [Next]_vars PROVE CountInv'
    OBVIOUS
  <1>1. (LimiterInv /\ TrackInv /\ TrackCounts)'
    BY StepOfPart, NextLimiterInv, NextTrackInv, NextTrackCounts DEF CountInv, TrackInv
  <1>2. (SetupInv /\ SetupPlaces /\ ConfigTyped /\ ConfigCounts)'
    BY StepOfPart, NextSetupInv, NextSetupPlaces, NextConfigTyped, NextConfigCounts DEF CountInv
  <1>3. (CronInv /\ CronLeftHours /\ CronBackupsAre /\ CronReports)'
    BY StepOfPart, NextCronInv, NextCronTypes DEF CountInv
  <1>4. (ScoringInv /\ ScoringFactsAre /\ NumbersInv /\ NumbersStates)'
    BY StepOfPart, NextScoringInv, NextScoringFacts, NextNumbersInv, NextNumbersStates
       DEF CountInv
  <1> QED BY <1>1, <1>2, <1>3, <1>4 DEF CountInv

LEMMA CountTypesAre ==
  ASSUME CountInv
  PROVE  /\ Limiter!TypeOK /\ Track!TypeOK /\ Setup!TypeOK /\ Config!TypeOK
         /\ Cron!TypeOK /\ Scoring!TypeOK /\ Numbers!TypeOK
  BY LimiterTypesAre, TrackTypesAre, SetupTypesAre, ConfigTypesAre, CronTypesAre,
     ScoringTypesAre, NumbersTypesAre
     DEF CountInv, TrackInv

LEMMA InitPeopleInv == Init => PeopleInv
  <1> SUFFICES ASSUME Init PROVE PeopleInv
    OBVIOUS
  <1>1. SpeechCuts
    BY DEF Init, Speech!Init, SpeechCuts
  <1> QED
    BY <1>1, InitConsentInv, InitConsentRanges, InitSecretsInv, InitSecretsRows,
       InitSessionInv, InitSessionPlaces, InitGateInv, InitDueInv, InitGateTimes, InitBulkInv,
       InitBulkPages, InitDeskInv, InitDeskWritten, InitSpeechInv, InitMemoryInv,
       InitMemoryCounts
       DEF Init, PeopleInv

LEMMA NextPeopleInv == PeopleInv /\ [Next]_vars => PeopleInv'
  <1> SUFFICES ASSUME PeopleInv, [Next]_vars PROVE PeopleInv'
    OBVIOUS
  <1>1. (ConsentInv /\ ConsentRanges /\ SecretsInv /\ SecretsRows)'
    BY StepOfPart, NextConsentInv, NextConsentRanges, NextSecretsInv, NextSecretsRows
       DEF PeopleInv
  <1>2. (SessionInv /\ SessionPlaces /\ GateInv /\ DueInv /\ GateTimes)'
    BY StepOfPart, NextSessionInv, NextSessionPlaces, NextGateInv, NextDueInv, NextGateTimes
       DEF PeopleInv
  <1>3. (BulkInv /\ BulkPages /\ DeskInv /\ DeskWritten /\ DeskPlaces)'
    BY StepOfPart, NextBulkInv, NextBulkPages, NextDeskInv, NextDeskWritten, NextDeskPlaces
       DEF PeopleInv
  <1>4. (SpeechInv /\ SpeechCuts /\ MemoryInv /\ MemoryCounts)'
    BY StepOfPart, NextSpeechInv, NextSpeechCuts, NextMemoryInv, NextMemoryCounts DEF PeopleInv
  <1> QED BY <1>1, <1>2, <1>3, <1>4 DEF PeopleInv

LEMMA PeopleTypesAre ==
  ASSUME PeopleInv
  PROVE  /\ Consents!TypeOK /\ Secrets!TypeOK /\ Login!TypeOK /\ Gate!TypeOK /\ Bulk!TypeOK
         /\ Desk!TypeOK /\ Speech!TypeOK /\ Memory!TypeOK
  BY ConsentTypesAre, SecretsTypesAre, SessionTypesAre, GateTypesAre, BulkTypesAre,
     DeskTypesAre, SpeechTypesAre, MemoryTypesAre
     DEF PeopleInv

LEMMA NextPart == part \in Parts /\ [Next]_vars => part' \in Parts
  <1>1. [Next]_vars => part' = part
    BY DEF Next, vars, Works, OAuthStep, InboundStep, ConsentsStep, ImportStep, ChatStep,
           LimiterStep, TrackStep, VoiceStep, SetupStep, ConfigStep, GateStep, ScoringStep,
           CronStep, BulkStep, DeskStep, LoginStep, SecretsStep, MemoryStep, NumbersStep,
           SpeechStep, FormStep, PlanStep, MailStep
  <1> QED BY <1>1

(* The state of every service keeps its types and ranges, for any number of   *)
(* actors of each kind: counters stay within what the code lets them reach,   *)
(* windows within their lengths, rows and records within their columns.       *)
THEOREM TypeCorrect == Spec => []TypeOK
  <1>1. Init => TypesInv
    BY InitFlowInv, InitCountInv, InitPeopleInv DEF Init, TypesInv
  <1>2. TypesInv /\ [Next]_vars => TypesInv'
    BY NextPart, NextFlowInv, NextCountInv, NextPeopleInv DEF TypesInv
  <1>3. TypesInv => TypeOK
    BY FlowTypesAre, CountTypesAre, PeopleTypesAre DEF TypesInv, TypeOK
  <1> QED BY <1>1, <1>2, <1>3, PTL DEF Spec
=============================================================================
