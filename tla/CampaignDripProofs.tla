-------------------------- MODULE CampaignDripProofs --------------------------
(* Proofs about CampaignDrip, for any contacts, actors, steps, cap and number   *)
(* of failures.                                                                 *)
EXTENDS CampaignDrip, FiniteSetTheorems, TLAPS

LEMMA ActorsOf == Ticks \subseteq Actors /\ Launches \subseteq Actors
  BY DEF Actors

LEMMA DropType ==
  ASSUME TypeOK, NEW a \in Actors, NEW c \in Contacts, Drop(a, c)
  PROVE  todo' \in [Actors -> Rows]
  <1>1. [todo[a] EXCEPT ![c] = None] \in Rows
    BY DripAssumption DEF TypeOK, Rows, None
  <1>2. todo' = [todo EXCEPT ![a] = [todo[a] EXCEPT ![c] = None]]
    BY DEF Drop
  <1> QED BY <1>1, <1>2 DEF TypeOK

LEMMA InitTypeOK == Init => TypeOK
  <1> SUFFICES ASSUME Init PROVE TypeOK OBVIOUS
  <1>1. NoRows \in Rows BY DripAssumption DEF NoRows, Rows, None
  <1>2. todo \in [Actors -> Rows] BY <1>1 DEF Init
  <1>3. granted \in 0..Cap /\ failures \in 0..MaxFailures BY DripAssumption DEF Init
  <1>4. jobs \in [Contacts \X (0..(Steps - 1)) -> Nat] BY DEF Init
  <1> QED BY <1>2, <1>3, <1>4 DEF Init, TypeOK

LEMMA NextTypeOK == TypeOK /\ [Next]_vars => TypeOK'
  <1> SUFFICES ASSUME TypeOK, [Next]_vars PROVE TypeOK'
    OBVIOUS
  <1> USE DripAssumption, ActorsOf DEF TypeOK, Rows, NoRows, None, enrollment, outcome,
          Goto, Drop, LetGo
  <1>1. ASSUME NEW t \in Ticks, TickStart(t) PROVE TypeOK'
    BY <1>1 DEF TickStart, DueRows
  <1>2. ASSUME NEW l \in Launches, LaunchStart(l) PROVE TypeOK'
    BY <1>2 DEF LaunchStart
  <1>3. ASSUME NEW l \in Launches, Enroll(l) PROVE TypeOK'
    BY <1>3 DEF Enroll
  <1>4. ASSUME NEW l \in Launches, Activate(l) PROVE TypeOK'
    BY <1>4 DEF Activate
  <1>5. ASSUME NEW l \in Launches, DispatchFails(l) PROVE TypeOK'
    BY <1>5 DEF DispatchFails
  <1>6. ASSUME NEW a \in Actors, CanSend(a) PROVE TypeOK'
    <2>1. PICK c \in Contacts :
            /\ todo[a][c] # None
            /\ IF CapReached
                 THEN Drop(a, c) /\ UNCHANGED <<granted, pc, hand>>
                 ELSE /\ granted' = granted + 1
                      /\ hand' = [hand EXCEPT ![a] = {c}]
                      /\ Goto(a, "advance")
                      /\ UNCHANGED todo
      BY <1>6 DEF CanSend
    <2>2. CASE CapReached
      <3>1. todo' \in [Actors -> Rows] BY <2>1, <2>2, DropType
      <3> QED BY <1>6, <2>1, <2>2, <3>1 DEF CanSend
    <2>3. CASE ~CapReached
      <3>1. granted' \in 0..Cap BY <2>1, <2>3 DEF CapReached
      <3>2. hand' \in [Actors -> SUBSET Contacts] BY <2>1, <2>3
      <3>3. pc' \in [Actors -> {"idle", "enroll", "loop", "advance", "send"}] BY <2>1, <2>3
      <3>4. todo' = todo BY <2>1, <2>3
      <3> QED BY <1>6, <3>1, <3>2, <3>3, <3>4 DEF CanSend
    <2> QED BY <2>2, <2>3
  <1>7. ASSUME NEW a \in Actors, Advance(a) PROVE TypeOK'
    <2>1. PICK c \in Contacts : AdvanceFrom(a, c, todo[a][c])
      BY <1>7 DEF Advance
    <2>2. NextIndex(a, c) \in Nat BY DEF NextIndex
    <2>3. /\ step' \in [Contacts -> Nat] /\ due' \subseteq Contacts
          /\ enr' \in [Contacts -> {"none", "active", "completed", "stopped"}]
      BY <2>1, <2>2 DEF AdvanceFrom
    <2> QED BY <1>7, <2>3 DEF Advance
  <1>8. ASSUME NEW a \in Actors, Send(a) PROVE TypeOK'
    <2>1. PICK c \in Contacts :
            jobs' = [jobs EXCEPT ![<<c, todo[a][c]>>] = @ + 1] /\ Drop(a, c)
      BY <1>8 DEF Send
    <2>2. todo' \in [Actors -> Rows] BY <2>1, DropType
    <2>3. jobs' \in [Contacts \X (0..(Steps - 1)) -> Nat]
      <3>1. CASE <<c, todo[a][c]>> \in Contacts \X (0..(Steps - 1))
        <4>1. jobs[<<c, todo[a][c]>>] + 1 \in Nat BY <3>1
        <4> QED BY <2>1, <4>1
      <3>2. CASE <<c, todo[a][c]>> \notin Contacts \X (0..(Steps - 1))
        BY <2>1, <3>2
      <3> QED BY <3>1, <3>2
    <2> QED BY <1>8, <2>2, <2>3 DEF Send
  <1>9. ASSUME NEW a \in Actors, Finish(a) PROVE TypeOK'
    BY <1>9 DEF Finish
  <1>10. ASSUME NEW a \in Actors, Abandon(a) PROVE TypeOK'
    BY <1>10 DEF Abandon
  <1>11. ASSUME Pause PROVE TypeOK'
    BY <1>11 DEF Pause
  <1>12. ASSUME Resume PROVE TypeOK'
    BY <1>12 DEF Resume
  <1>13. ASSUME Cancel PROVE TypeOK'
    BY <1>13 DEF Cancel
  <1>14. ASSUME CancelEnrollments PROVE TypeOK'
    BY <1>14 DEF CancelEnrollments, Stopped
  <1>15. ASSUME NEW c \in Contacts, StopSequence(c) PROVE TypeOK'
    BY <1>15 DEF StopSequence, Stopped
  <1>16. ASSUME NEW c \in Contacts, Elapse(c) PROVE TypeOK'
    BY <1>16 DEF Elapse
  <1>17. ASSUME NewDay PROVE TypeOK'
    BY <1>17 DEF NewDay
  <1>18. CASE UNCHANGED vars BY <1>18 DEF vars, enrollment, outcome
  <1> QED
    BY <1>1, <1>2, <1>3, <1>4, <1>5, <1>6, <1>7, <1>8, <1>9, <1>10, <1>11, <1>12, <1>13, <1>14, <1>15, <1>16, <1>17, <1>18 DEF Next, Work

(* Every variable keeps its type; in particular no day's grants exceed the cap.  *)
THEOREM TypeCorrect == Spec => []TypeOK
  BY InitTypeOK, NextTypeOK, PTL DEF Spec

-----------------------------------------------------------------------------
(* The daily cap.  A job counted today was granted today, or was in the hands of  *)
(* an actor at midnight.                                                          *)
Holders == {a \in Actors : pc[a] \in {"advance", "send"}}

CapInv == TypeOK /\ sentToday + Cardinality(Holders) <= granted + Cardinality(Actors)

LEMMA HoldersFinite ==
  /\ IsFiniteSet(Holders) /\ Cardinality(Holders) \in Nat
  /\ Cardinality(Actors) \in Nat /\ Cardinality(Holders) <= Cardinality(Actors)
  <1>1. Holders \subseteq Actors BY DEF Holders
  <1> QED BY <1>1, DripAssumption, FS_Subset, FS_CardinalityType

LEMMA NextHoldersFinite == IsFiniteSet(Holders') /\ Cardinality(Holders') \in Nat
  <1>1. Holders' \subseteq Actors BY DEF Holders, Actors
  <1> QED BY <1>1, DripAssumption, FS_Subset, FS_CardinalityType

(* Every step but a grant, a send and midnight leaves the counts alone and at     *)
(* most the same holders.                                                         *)
LEMMA CapQuietStep ==
  ASSUME TypeOK, [Next]_vars
  PROVE  \/ Holders' \subseteq Holders /\ sentToday' = sentToday /\ granted' = granted
         \/ NewDay
         \/ \E a \in Actors : Send(a) \/ (CanSend(a) /\ ~CapReached)
  <1> DEFINE Quiet == Holders' \subseteq Holders /\ sentToday' = sentToday /\ granted' = granted
             Goal == \/ Quiet \/ NewDay
                     \/ \E a \in Actors : Send(a) \/ (CanSend(a) /\ ~CapReached)
  <1> SUFFICES Goal OBVIOUS
  <1> USE ActorsOf DEF TypeOK, Holders, Goto, Drop, LetGo, enrollment, outcome
  <1>1. ASSUME NEW t \in Ticks, TickStart(t) PROVE Goal
    BY <1>1 DEF TickStart
  <1>2. ASSUME NEW l \in Launches, LaunchStart(l) PROVE Goal
    BY <1>2 DEF LaunchStart
  <1>3. ASSUME NEW l \in Launches, Enroll(l) PROVE Goal
    BY <1>3 DEF Enroll
  <1>4. ASSUME NEW l \in Launches, Activate(l) PROVE Goal
    BY <1>4 DEF Activate
  <1>5. ASSUME NEW l \in Launches, DispatchFails(l) PROVE Goal
    BY <1>5 DEF DispatchFails
  <1>6. ASSUME NEW a \in Actors, CanSend(a) PROVE Goal
    BY <1>6 DEF CanSend
  <1>7. ASSUME NEW a \in Actors, Advance(a) PROVE Goal
    BY <1>7 DEF Advance
  <1>8. ASSUME NEW a \in Actors, Send(a) PROVE Goal
    BY <1>8 DEF Send
  <1>9. ASSUME NEW a \in Actors, Finish(a) PROVE Goal
    BY <1>9 DEF Finish
  <1>10. ASSUME NEW a \in Actors, Abandon(a) PROVE Goal
    BY <1>10 DEF Abandon
  <1>11. ASSUME Pause PROVE Goal
    BY <1>11 DEF Pause
  <1>12. ASSUME Resume PROVE Goal
    BY <1>12 DEF Resume
  <1>13. ASSUME Cancel PROVE Goal
    BY <1>13 DEF Cancel
  <1>14. ASSUME CancelEnrollments PROVE Goal
    BY <1>14 DEF CancelEnrollments
  <1>15. ASSUME NEW c \in Contacts, StopSequence(c) PROVE Goal
    BY <1>15 DEF StopSequence
  <1>16. ASSUME NEW c \in Contacts, Elapse(c) PROVE Goal
    BY <1>16 DEF Elapse
  <1>17. ASSUME NewDay PROVE Goal
    BY <1>17 DEF NewDay
  <1>18. CASE UNCHANGED vars BY <1>18 DEF vars, enrollment, outcome
  <1> QED
    BY <1>1, <1>2, <1>3, <1>4, <1>5, <1>6, <1>7, <1>8, <1>9, <1>10, <1>11, <1>12, <1>13, <1>14, <1>15, <1>16, <1>17, <1>18 DEF Next, Work

LEMMA NextCapInv == CapInv /\ [Next]_vars => CapInv'
  <1> SUFFICES ASSUME CapInv, [Next]_vars PROVE CapInv'
    OBVIOUS
  <1>1. TypeOK /\ TypeOK' BY NextTypeOK DEF CapInv
  <1>2. /\ IsFiniteSet(Holders) /\ Cardinality(Holders) \in Nat
        /\ IsFiniteSet(Holders') /\ Cardinality(Holders') \in Nat
        /\ Cardinality(Actors) \in Nat /\ Actors' = Actors
        /\ Cardinality(Holders) <= Cardinality(Actors)
    BY HoldersFinite, NextHoldersFinite DEF Actors
  <1>3. CASE Holders' \subseteq Holders /\ sentToday' = sentToday /\ granted' = granted
    <2>1. Cardinality(Holders') <= Cardinality(Holders) BY <1>2, <1>3, FS_Subset
    <2> QED BY <1>1, <1>2, <1>3, <2>1, DripAssumption DEF CapInv, TypeOK
  <1>4. CASE NewDay
    <2>1. Holders' = Holders BY <1>4 DEF NewDay, Holders
    <2> QED BY <1>1, <1>2, <1>4, <2>1 DEF CapInv, NewDay
  <1>5. ASSUME NEW a \in Actors, Send(a) PROVE CapInv'
    <2>1. a \in Holders /\ Holders' = Holders \ {a}
      BY <1>1, <1>5 DEF Send, Goto, Holders, TypeOK
    <2>2. Cardinality(Holders \ {a}) = Cardinality(Holders) - 1
      BY <1>2, <2>1, FS_RemoveElement
    <2> QED BY <1>1, <1>2, <1>5, <2>1, <2>2, DripAssumption DEF CapInv, TypeOK, Send
  <1>6. ASSUME NEW a \in Actors, CanSend(a), ~CapReached PROVE CapInv'
    <2>1. /\ a \notin Holders /\ Holders' = Holders \cup {a}
          /\ granted' = granted + 1 /\ sentToday' = sentToday
      BY <1>1, <1>6 DEF CanSend, Goto, Holders, TypeOK, outcome
    <2>2. Cardinality(Holders \cup {a}) = Cardinality(Holders) + 1
      BY <1>2, <2>1, FS_AddElement
    <2> QED BY <1>1, <1>2, <2>1, <2>2, DripAssumption DEF CapInv, TypeOK
  <1> QED BY <1>1, <1>3, <1>4, <1>5, <1>6, CapQuietStep

(* The jobs of a day exceed the cap by at most one per tick or launch in progress *)
(* at midnight, however they interleave or die.                                   *)
THEOREM CapOvershootBounded == Spec => []DailyCapOvershootBounded
  <1>1. Init => CapInv
    <2> SUFFICES ASSUME Init PROVE CapInv OBVIOUS
    <2>1. Holders = {} BY DEF Init, Holders
    <2> QED BY <2>1, InitTypeOK, HoldersFinite, FS_EmptySet DEF Init, CapInv
  <1>2. CapInv => DailyCapOvershootBounded
    BY HoldersFinite, DripAssumption DEF CapInv, TypeOK, DailyCapOvershootBounded
  <1> QED BY <1>1, <1>2, NextCapInv, PTL DEF Spec

-----------------------------------------------------------------------------
(* Schedules without overlap (Serial).  At most one actor is at work, so what it    *)
(* has read of an enrollment is still so when it moves it: a row it has yet to move *)
(* is at the step it read, nothing was sent for that step, and what was sent is     *)
(* behind the enrollment's index.                                                   *)
(* The steps that are behind a contact. *)
Behind(c, k) == k < step[c] \/ enr[c] = "completed"

(* The rows that an actor has read and whose enrollment it has not moved yet. *)
Ahead(a, c) == todo[a][c] # None /\ ~(pc[a] = "send" /\ c \in hand[a])

Alone == \A a, b \in Actors : pc[a] # "idle" /\ pc[b] # "idle" => a = b

Holds(a) ==
  /\ pc[a] = "idle" => \A c \in Contacts : todo[a][c] = None
  /\ pc[a] \in {"advance", "send"} <=> hand[a] # {}
  /\ \A c, d \in hand[a] : c = d
  /\ \A c \in hand[a] : todo[a][c] # None

Reads(a, c) ==
  /\ a \in Launches => todo[a][c] \in {None, 0}
  /\ Ahead(a, c) => todo[a][c] = step[c] /\ enr[c] \notin {"none", "completed"}
  /\ pc[a] = "send" /\ c \in hand[a] => Behind(c, todo[a][c]) /\ jobs[<<c, todo[a][c]>>] = 0

Sent(c, k) == jobs[<<c, k>>] <= 1 /\ (jobs[<<c, k>>] > 0 => Behind(c, k))

SerialInv ==
  /\ TypeOK /\ Alone
  /\ \A a \in Actors : Holds(a)
  /\ \A a \in Actors, c \in Contacts : Reads(a, c)
  /\ \A c \in Contacts : step[c] < Steps /\ (enr[c] = "none" => step[c] = 0)
  /\ \A c \in Contacts, k \in 0..(Steps - 1) : Sent(c, k)

LEMMA InitSerialInv == Init => SerialInv
  <1> SUFFICES ASSUME Init PROVE SerialInv
    OBVIOUS
  <1>1. TypeOK
    BY InitTypeOK
  <1>2. \A a \in Actors, c \in Contacts : todo[a][c] = None
    BY DEF Init, NoRows
  <1>3. \A a \in Actors : pc[a] = "idle" /\ hand[a] = {}
    BY DEF Init
  <1>4. \A c \in Contacts : step[c] = 0 /\ enr[c] = "none"
    BY DEF Init
  <1>5. \A c \in Contacts, k \in 0..(Steps - 1) : jobs[<<c, k>>] = 0
    BY DEF Init
  <1>6. 0 < Steps
    BY DripAssumption
  <1> QED BY <1>1, <1>2, <1>3, <1>4, <1>5, <1>6
          DEF SerialInv, Alone, Holds, Reads, Ahead, Sent

(* A step that moves no enrollment and sends no job, whose actors have no rows *)
(* that they did not have.                                                     *)
LEMMA RowsAreKept ==
  ASSUME SerialInv, TypeOK', step' = step, jobs' = jobs,
         \A c \in Contacts : enr'[c] = enr[c] \/ (enr[c] = "active" /\ enr'[c] = "stopped"),
         Alone', \A a \in Actors : Holds(a)',
         \A a \in Actors, c \in Contacts : todo'[a][c] \in {None, todo[a][c]},
         \A a \in Actors, c \in Contacts : Ahead(a, c)' => Ahead(a, c),
         \A a \in Actors, c \in Contacts :
           pc'[a] = "send" /\ c \in hand'[a] => pc[a] = "send" /\ c \in hand[a]
  PROVE  SerialInv'
  <1>1. ASSUME NEW a \in Actors, NEW c \in Contacts PROVE Reads(a, c)'
    <2>1. Reads(a, c)
      BY DEF SerialInv
    <2>2. a \in Launches => todo'[a][c] \in {None, 0}
      BY <2>1 DEF Reads
    <2>3. ASSUME Ahead(a, c)' PROVE todo'[a][c] = step'[c] /\ enr'[c] \notin {"none", "completed"}
      <3>1. Ahead(a, c) /\ todo'[a][c] = todo[a][c]
        BY <2>3 DEF Ahead
      <3> QED BY <2>1, <3>1 DEF Reads
    <2>4. ASSUME pc'[a] = "send", c \in hand'[a]
          PROVE  Behind(c, todo[a][c])' /\ jobs'[<<c, todo'[a][c]>>] = 0
      <3>1. pc[a] = "send" /\ c \in hand[a]
        BY <2>4
      <3>2. todo'[a][c] = todo[a][c]
        BY <2>4 DEF Holds
      <3> QED BY <2>1, <3>1, <3>2 DEF Reads, Behind
    <2> QED BY <2>2, <2>3, <2>4 DEF Reads
  <1>2. ASSUME NEW c \in Contacts PROVE step'[c] < Steps /\ (enr'[c] = "none" => step'[c] = 0)
    BY DEF SerialInv
  <1>3. ASSUME NEW c \in Contacts, NEW k \in 0..(Steps - 1) PROVE Sent(c, k)'
    <2>1. Sent(c, k)
      BY DEF SerialInv
    <2> QED BY <2>1 DEF Sent, Behind
  <1> QED BY <1>1, <1>2, <1>3 DEF SerialInv

LEMMA OthersIdle ==
  ASSUME SerialInv, NEW a \in Actors, pc[a] # "idle"
  PROVE  \A b \in Actors \ {a} : pc[b] = "idle" /\ hand[b] = {} /\ \A c \in Contacts : todo[b][c] = None
  BY DEF SerialInv, Alone, Holds

(* What a step of actor a leaves to the others. *)
LEMMA OnlyOne ==
  ASSUME SerialInv, NEW a \in Actors,
         \A b \in Actors \ {a} : pc[b] = "idle" /\ hand[b] = {} /\ \A c \in Contacts : todo[b][c] = None,
         \A b \in Actors \ {a} : pc'[b] = pc[b] /\ hand'[b] = hand[b] /\ todo'[b] = todo[b],
         Holds(a)', \A c \in Contacts : Reads(a, c)'
  PROVE  Alone' /\ (\A b \in Actors : Holds(b)') /\ \A b \in Actors, c \in Contacts : Reads(b, c)'
  <1>1. Alone'
    BY DEF Alone
  <1>2. ASSUME NEW b \in Actors, b # a PROVE Holds(b)' /\ \A c \in Contacts : Reads(b, c)'
    BY <1>2 DEF Holds, Reads, Ahead
  <1> QED BY <1>1, <1>2

LEMMA TickReads ==
  ASSUME Serial, SerialInv, TypeOK', NEW t \in Ticks, TickStart(t)
  PROVE  SerialInv'
  <1>t. t \in Actors /\ t \notin Launches
    BY DripAssumption, ActorsOf
  <1>1. \A b \in Actors : pc[b] = "idle" /\ hand[b] = {} /\ \A c \in Contacts : todo[b][c] = None
    BY DEF TickStart, MayStart, SerialInv, Holds
  <1>2. /\ pc' = [pc EXCEPT ![t] = "loop"] /\ UNCHANGED <<enr, step, hand, jobs>>
        /\ todo' = [todo EXCEPT ![t] = [c \in Contacts |-> IF c \in DueRows THEN step[c] ELSE None]]
    BY DEF TickStart, Goto, enrollment, outcome
  <1>3. /\ pc'[t] = "loop" /\ hand'[t] = {}
        /\ \A c \in Contacts : todo'[t][c] = IF c \in DueRows THEN step[c] ELSE None
        /\ \A b \in Actors \ {t} : pc'[b] = pc[b] /\ hand'[b] = hand[b] /\ todo'[b] = todo[b]
    BY <1>t, <1>1, <1>2 DEF SerialInv, TypeOK
  <1>4. Holds(t)'
    BY <1>3 DEF Holds
  <1>5. ASSUME NEW c \in Contacts PROVE Reads(t, c)'
    BY <1>t, <1>2, <1>3 DEF Reads, Ahead, DueRows
  <1>6. Alone' /\ (\A b \in Actors : Holds(b)') /\ \A b \in Actors, c \in Contacts : Reads(b, c)'
    BY <1>t, <1>1, <1>3, <1>4, <1>5, OnlyOne
  <1>7. \A c \in Contacts, k \in 0..(Steps - 1) : Sent(c, k)'
    BY <1>2 DEF SerialInv, Sent, Behind
  <1> QED BY <1>2, <1>6, <1>7 DEF SerialInv

LEMMA LaunchEnrolls ==
  ASSUME SerialInv, TypeOK', NEW l \in Launches, Enroll(l)
  PROVE  SerialInv'
  <1>t. l \in Actors
    BY ActorsOf
  <1>1. PICK d \in Contacts :
          /\ enr[d] = "none" /\ enr' = [enr EXCEPT ![d] = "active"]
          /\ todo' = [todo EXCEPT ![l][d] = 0]
    BY DEF Enroll
  <1>2. pc[l] = "enroll" /\ UNCHANGED <<step, pc, hand, jobs>>
    BY DEF Enroll, outcome
  <1>3. /\ todo'[l][d] = 0 /\ \A c \in Contacts \ {d} : todo'[l][c] = todo[l][c]
        /\ \A b \in Actors \ {l} : todo'[b] = todo[b]
        /\ enr'[d] = "active" /\ \A c \in Contacts \ {d} : enr'[c] = enr[c]
        /\ step[d] = 0 /\ hand[l] = {}
    BY <1>t, <1>1, <1>2 DEF SerialInv, TypeOK, Rows, Holds
  <1>4. Holds(l)'
    BY <1>2, <1>3 DEF Holds
  <1>5. ASSUME NEW c \in Contacts PROVE Reads(l, c)'
    <2>1. Reads(l, c)
      BY <1>t DEF SerialInv
    <2> QED BY <1>2, <1>3, <2>1 DEF Reads, Ahead
  <1>6. \A b \in Actors \ {l} : pc[b] = "idle" /\ hand[b] = {} /\ \A c \in Contacts : todo[b][c] = None
    BY <1>t, <1>2, OthersIdle
  <1>7. Alone' /\ (\A b \in Actors : Holds(b)') /\ \A b \in Actors, c \in Contacts : Reads(b, c)'
    BY <1>t, <1>2, <1>3, <1>4, <1>5, <1>6, OnlyOne
  <1>8. \A c \in Contacts, k \in 0..(Steps - 1) : Sent(c, k)'
    <2> SUFFICES ASSUME NEW c \in Contacts, NEW k \in 0..(Steps - 1) PROVE Sent(c, k)'
      OBVIOUS
    <2>1. Sent(c, k)
      BY DEF SerialInv
    <2>2. enr[c] = "completed" => enr'[c] = "completed"
      BY <1>1, <1>3
    <2> QED BY <1>2, <2>1, <2>2 DEF Sent, Behind
  <1>9. \A c \in Contacts : step'[c] < Steps /\ (enr'[c] = "none" => step'[c] = 0)
    BY <1>2, <1>3 DEF SerialInv
  <1> QED BY <1>7, <1>8, <1>9 DEF SerialInv

(* What the enrollment's advance is, while no other actor can move it. *)
LEMMA AdvanceIs ==
  ASSUME SerialInv, NEW a \in Actors, Advance(a)
  PROVE  \E d \in Contacts :
           /\ hand[a] = {d} /\ pc[a] = "advance" /\ pc' = [pc EXCEPT ![a] = "send"]
           /\ todo[a][d] = step[d] /\ step[d] \in 0..(Steps - 1)
           /\ enr[d] \notin {"none", "completed"}
           /\ \/ step' = [step EXCEPT ![d] = step[d] + 1] /\ step[d] + 1 < Steps /\ enr' = enr
              \/ enr' = [enr EXCEPT ![d] = "completed"] /\ step[d] + 1 = Steps /\ step' = step
           /\ UNCHANGED <<todo, hand, jobs, failures>>
  <1>1. PICK d \in hand[a] : AdvanceFrom(a, d, todo[a][d])
    BY DEF Advance
  <1>2. /\ pc[a] = "advance" /\ pc' = [pc EXCEPT ![a] = "send"] /\ UNCHANGED <<todo, hand, jobs, failures>>
    BY DEF Advance, Goto, outcome
  <1>3. d \in Contacts /\ hand[a] = {d} /\ todo[a][d] # None
    BY DEF SerialInv, TypeOK, Holds
  <1>4. /\ todo[a][d] = step[d] /\ enr[d] \notin {"none", "completed"}
        /\ a \in Launches => todo[a][d] = 0
    BY <1>2, <1>3 DEF SerialInv, Reads, Ahead
  <1>5. step[d] \in 0..(Steps - 1) /\ Steps \in Nat
    BY <1>3, DripAssumption DEF SerialInv, TypeOK
  <1>6. NextIndex(a, d) = step[d] + 1
    BY <1>4 DEF NextIndex, Actors
  <1> QED BY <1>1, <1>2, <1>3, <1>4, <1>5, <1>6 DEF AdvanceFrom

LEMMA EnrollmentAdvances ==
  ASSUME SerialInv, TypeOK', NEW a \in Actors, Advance(a)
  PROVE  SerialInv'
  <1>1. PICK d \in Contacts :
           /\ hand[a] = {d} /\ pc[a] = "advance" /\ pc' = [pc EXCEPT ![a] = "send"]
           /\ todo[a][d] = step[d] /\ step[d] \in 0..(Steps - 1)
           /\ enr[d] \notin {"none", "completed"}
           /\ \/ step' = [step EXCEPT ![d] = step[d] + 1] /\ step[d] + 1 < Steps /\ enr' = enr
              \/ enr' = [enr EXCEPT ![d] = "completed"] /\ step[d] + 1 = Steps /\ step' = step
           /\ UNCHANGED <<todo, hand, jobs, failures>>
    BY AdvanceIs
  <1>k. PICK j \in 0..(Steps - 1) : step[d] = j
    BY <1>1
  <1>2. /\ \A c \in Contacts \ {d} : step'[c] = step[c] /\ enr'[c] = enr[c]
        /\ step'[d] \in {step[d], step[d] + 1} /\ step'[d] < Steps
        /\ enr'[d] # "none" /\ Behind(d, j)'
    BY <1>1, <1>k, DripAssumption DEF SerialInv, TypeOK, Behind
  <1>3. pc'[a] = "send" /\ \A b \in Actors \ {a} : pc'[b] = pc[b]
    BY <1>1 DEF SerialInv, TypeOK
  <1>4. jobs[<<d, step[d]>>] = 0
    <2>1. Sent(d, step[d]) /\ jobs[<<d, step[d]>>] \in Nat
      BY <1>1 DEF SerialInv, TypeOK
    <2> QED BY <1>1, <2>1 DEF Sent, Behind
  <1>5. Holds(a)'
    BY <1>1, <1>3 DEF SerialInv, Holds
  <1>6. ASSUME NEW c \in Contacts PROVE Reads(a, c)'
    <2>1. Reads(a, c)
      BY DEF SerialInv
    <2>2. CASE c = d
      BY <1>1, <1>k, <1>2, <1>3, <1>4, <2>1, <2>2 DEF Reads, Ahead, Behind
    <2>3. CASE c # d
      BY <1>1, <1>2, <1>3, <2>1, <2>3 DEF Reads, Ahead
    <2> QED BY <2>2, <2>3
  <1>7. \A b \in Actors \ {a} : pc[b] = "idle" /\ hand[b] = {} /\ \A c \in Contacts : todo[b][c] = None
    BY <1>1, OthersIdle
  <1>8. Alone' /\ (\A b \in Actors : Holds(b)') /\ \A b \in Actors, c \in Contacts : Reads(b, c)'
    BY <1>1, <1>3, <1>5, <1>6, <1>7, OnlyOne
  <1>9. \A c \in Contacts, k \in 0..(Steps - 1) : Sent(c, k)'
    <2> SUFFICES ASSUME NEW c \in Contacts, NEW k \in 0..(Steps - 1) PROVE Sent(c, k)'
      OBVIOUS
    <2>1. Sent(c, k)
      BY DEF SerialInv
    <2>2. Behind(c, k) => Behind(c, k)'
      BY <1>1, <1>2 DEF Behind
    <2> QED BY <1>1, <2>1, <2>2 DEF Sent
  <1>10. \A c \in Contacts : step'[c] < Steps /\ (enr'[c] = "none" => step'[c] = 0)
    BY <1>2 DEF SerialInv
  <1> QED BY <1>8, <1>9, <1>10 DEF SerialInv

LEMMA SendIs ==
  ASSUME SerialInv, NEW a \in Actors, Send(a)
  PROVE  \E d \in Contacts, k \in 0..(Steps - 1) :
           /\ pc[a] = "send" /\ hand[a] = {d} /\ todo[a][d] = k
           /\ Behind(d, k) /\ jobs[<<d, k>>] = 0
           /\ jobs' = [jobs EXCEPT ![<<d, k>>] = @ + 1] /\ Drop(a, d)
           /\ LetGo(a) /\ Goto(a, "loop") /\ UNCHANGED <<enr, step, failures>>
  <1>1. PICK d \in hand[a] : jobs' = [jobs EXCEPT ![<<d, todo[a][d]>>] = @ + 1] /\ Drop(a, d)
    BY DEF Send
  <1>2. pc[a] = "send" /\ LetGo(a) /\ Goto(a, "loop") /\ UNCHANGED <<enr, step, failures>>
    BY DEF Send, enrollment
  <1>3. d \in Contacts /\ hand[a] = {d} /\ todo[a][d] # None
    BY DEF SerialInv, TypeOK, Holds
  <1>4. Behind(d, todo[a][d]) /\ jobs[<<d, todo[a][d]>>] = 0
    BY <1>2, <1>3 DEF SerialInv, Reads
  <1>5. todo[a][d] \in 0..(Steps - 1)
    BY <1>3, DripAssumption DEF SerialInv, TypeOK, Rows, None
  <1> QED BY <1>1, <1>2, <1>3, <1>4, <1>5

LEMMA JobIsSent ==
  ASSUME SerialInv, TypeOK', NEW a \in Actors, Send(a)
  PROVE  SerialInv'
  <1>1. PICK d \in Contacts, j \in 0..(Steps - 1) :
           /\ pc[a] = "send" /\ hand[a] = {d} /\ todo[a][d] = j
           /\ Behind(d, j) /\ jobs[<<d, j>>] = 0
           /\ jobs' = [jobs EXCEPT ![<<d, j>>] = @ + 1] /\ Drop(a, d)
           /\ LetGo(a) /\ Goto(a, "loop") /\ UNCHANGED <<enr, step, failures>>
    BY SendIs
  <1>2. /\ pc'[a] = "loop" /\ hand'[a] = {} /\ todo'[a][d] = None
        /\ \A c \in Contacts \ {d} : todo'[a][c] = todo[a][c]
        /\ \A b \in Actors \ {a} : pc'[b] = pc[b] /\ hand'[b] = hand[b] /\ todo'[b] = todo[b]
    BY <1>1 DEF SerialInv, TypeOK, Rows, Drop, LetGo, Goto
  <1>3. /\ jobs'[<<d, j>>] = 1
        /\ \A c \in Contacts, k \in 0..(Steps - 1) : <<c, k>> # <<d, j>> => jobs'[<<c, k>>] = jobs[<<c, k>>]
    BY <1>1 DEF SerialInv, TypeOK
  <1>5. Holds(a)'
    BY <1>2 DEF Holds
  <1>6. ASSUME NEW c \in Contacts PROVE Reads(a, c)'
    <2>1. Reads(a, c)
      BY DEF SerialInv
    <2> QED BY <1>1, <1>2, <2>1 DEF Reads, Ahead
  <1>7. \A b \in Actors \ {a} : pc[b] = "idle" /\ hand[b] = {} /\ \A c \in Contacts : todo[b][c] = None
    BY <1>1, OthersIdle
  <1>8. Alone' /\ (\A b \in Actors : Holds(b)') /\ \A b \in Actors, c \in Contacts : Reads(b, c)'
    BY <1>2, <1>5, <1>6, <1>7, OnlyOne
  <1>9. \A c \in Contacts, k \in 0..(Steps - 1) : Sent(c, k)'
    <2> SUFFICES ASSUME NEW c \in Contacts, NEW k \in 0..(Steps - 1) PROVE Sent(c, k)'
      OBVIOUS
    <2>1. Sent(c, k) /\ (Behind(c, k) => Behind(c, k)')
      BY <1>1 DEF SerialInv, Behind
    <2>2. CASE c = d /\ k = j
      BY <1>1, <1>3, <2>1, <2>2 DEF Sent
    <2>3. CASE c # d \/ k # j
      BY <1>3, <2>1, <2>3 DEF Sent
    <2> QED BY <2>2, <2>3
  <1>10. \A c \in Contacts : step'[c] < Steps /\ (enr'[c] = "none" => step'[c] = 0)
    BY <1>1 DEF SerialInv
  <1> QED BY <1>8, <1>9, <1>10 DEF SerialInv

LEMMA NextSerialInv ==
  ASSUME Serial, SerialInv, [Next]_vars
  PROVE  SerialInv'
  <1>t. TypeOK /\ TypeOK' /\ Alone
    BY NextTypeOK DEF SerialInv
  <1>a. \A a \in Actors : Holds(a)
    BY DEF SerialInv
  \* An actor that gives rows up, or goes on without having moved any.
  <1>1. ASSUME NEW a \in Actors, UNCHANGED <<enr, step, jobs>>,
               \A b \in Actors \ {a} : pc'[b] = pc[b] /\ hand'[b] = hand[b] /\ todo'[b] = todo[b],
               pc[a] # "idle" \/ \A b \in Actors : pc[b] = "idle",
               \A c \in Contacts : todo'[a][c] \in {None, todo[a][c]},
               Holds(a)', pc'[a] # "send",
               \A c \in Contacts : todo'[a][c] # None => Ahead(a, c)
        PROVE  SerialInv'
    <2>1. \A b \in Actors \ {a} : pc[b] = "idle" /\ hand[b] = {} /\ \A c \in Contacts : todo[b][c] = None
      BY <1>1, <1>a, OthersIdle DEF Holds
    <2>2. Alone'
      BY <1>1, <2>1 DEF Alone
    <2>3. ASSUME NEW b \in Actors PROVE Holds(b)'
      BY <1>1, <1>a DEF Holds
    <2>4. ASSUME NEW b \in Actors, NEW c \in Contacts
          PROVE  /\ todo'[b][c] \in {None, todo[b][c]} /\ (Ahead(b, c)' => Ahead(b, c))
                 /\ pc'[b] = "send" /\ c \in hand'[b] => pc[b] = "send" /\ c \in hand[b]
      BY <1>1 DEF Ahead
    <2> QED BY <1>1, <1>t, <2>2, <2>3, <2>4, RowsAreKept
  \* A step of no actor, after which the same enrollments are completed.
  <1>2. ASSUME UNCHANGED <<step, jobs, pc, hand, todo>>,
               \A c \in Contacts : enr'[c] = enr[c] \/ (enr[c] = "active" /\ enr'[c] = "stopped")
        PROVE  SerialInv'
    <2>1. Alone' /\ \A b \in Actors : Holds(b)'
      BY <1>2, <1>t, <1>a DEF Alone, Holds
    <2> QED BY <1>2, <1>t, <2>1, RowsAreKept DEF Ahead
  <1>3. ASSUME NEW l \in Launches, LaunchStart(l) PROVE SerialInv'
    <2>1. l \in Actors
      BY ActorsOf
    <2>2. /\ pc' = [pc EXCEPT ![l] = "enroll"] /\ pc[l] = "idle" /\ UNCHANGED <<enr, step, jobs, hand, todo>>
          /\ \A b \in Actors : pc[b] = "idle"
      BY <1>3 DEF LaunchStart, MayStart, Goto, enrollment, outcome
    <2>3. pc'[l] = "enroll" /\ \A b \in Actors \ {l} : pc'[b] = pc[b]
      BY <1>t, <2>1, <2>2 DEF TypeOK
    <2>4. Holds(l)' /\ \A c \in Contacts : todo'[l][c] = None
      BY <1>a, <2>1, <2>2, <2>3 DEF Holds
    <2> QED BY <1>1, <2>1, <2>2, <2>3, <2>4
  <1>4. ASSUME NEW l \in Launches, Activate(l) PROVE SerialInv'
    <2>1. l \in Actors
      BY ActorsOf
    <2>2. /\ pc' = [pc EXCEPT ![l] = "loop"] /\ pc[l] = "enroll" /\ UNCHANGED <<enr, step, jobs, hand, todo>>
      BY <1>4 DEF Activate, Goto, outcome
    <2>3. pc'[l] = "loop" /\ \A b \in Actors \ {l} : pc'[b] = pc[b]
      BY <1>t, <2>1, <2>2 DEF TypeOK
    <2>4. Holds(l)'
      BY <1>a, <2>1, <2>2, <2>3 DEF Holds
    <2> QED BY <1>1, <2>1, <2>2, <2>3, <2>4 DEF Ahead
  <1>5. ASSUME NEW l \in Launches, DispatchFails(l) PROVE SerialInv'
    <2>1. l \in Actors
      BY ActorsOf
    <2>2. PICK d \in (IF pc[l] = "loop" THEN {x \in Contacts : todo[l][x] # None} ELSE hand[l]) : Drop(l, d)
      BY <1>5 DEF DispatchFails
    <2>3. /\ pc[l] \in {"loop", "advance", "send"} /\ pc' = [pc EXCEPT ![l] = "loop"]
          /\ hand' = [hand EXCEPT ![l] = {}] /\ UNCHANGED <<enr, step, jobs>>
      BY <1>5 DEF DispatchFails, Goto, LetGo, enrollment, outcome
    <2>4. d \in Contacts /\ (pc[l] # "loop" => hand[l] = {d})
      BY <1>t, <1>a, <2>1, <2>2, <2>3 DEF TypeOK, Holds
    <2>5. /\ todo'[l][d] = None /\ \A c \in Contacts \ {d} : todo'[l][c] = todo[l][c]
          /\ pc'[l] = "loop" /\ hand'[l] = {}
          /\ \A b \in Actors \ {l} : pc'[b] = pc[b] /\ hand'[b] = hand[b] /\ todo'[b] = todo[b]
      BY <1>t, <2>1, <2>2, <2>3, <2>4 DEF Drop, TypeOK, Rows
    <2>6. Holds(l)'
      BY <2>5 DEF Holds
    <2>7. \A c \in Contacts : todo'[l][c] # None => Ahead(l, c)
      BY <2>3, <2>4, <2>5 DEF Ahead
    <2> QED BY <1>1, <2>1, <2>3, <2>5, <2>6, <2>7
  <1>6. ASSUME NEW a \in Actors, CanSend(a) PROVE SerialInv'
    <2>1. PICK d \in Contacts :
            /\ todo[a][d] # None
            /\ IF CapReached
                 THEN Drop(a, d) /\ UNCHANGED <<granted, pc, hand>>
                 ELSE /\ granted' = granted + 1
                      /\ hand' = [hand EXCEPT ![a] = {d}]
                      /\ Goto(a, "advance")
                      /\ UNCHANGED todo
      BY <1>6 DEF CanSend
    <2>2. pc[a] = "loop" /\ UNCHANGED <<enr, step, jobs>> /\ hand[a] = {}
      BY <1>6, <1>a DEF CanSend, enrollment, outcome, Holds
    <2>3. CASE CapReached
      <3>1. /\ todo'[a][d] = None /\ \A c \in Contacts \ {d} : todo'[a][c] = todo[a][c]
            /\ \A b \in Actors \ {a} : todo'[b] = todo[b]
            /\ pc' = pc /\ hand' = hand
        BY <1>t, <2>1, <2>3 DEF Drop, TypeOK, Rows
      <3>2. Holds(a)'
        BY <2>2, <3>1 DEF Holds
      <3> QED BY <1>1, <2>2, <3>1, <3>2 DEF Ahead
    <2>4. CASE ~CapReached
      <3>1. /\ pc'[a] = "advance" /\ hand'[a] = {d} /\ todo' = todo
            /\ \A b \in Actors \ {a} : pc'[b] = pc[b] /\ hand'[b] = hand[b]
        BY <1>t, <2>1, <2>4 DEF Goto, TypeOK
      <3>2. Holds(a)'
        BY <2>1, <3>1 DEF Holds
      <3> QED BY <1>1, <2>2, <3>1, <3>2 DEF Ahead
    <2> QED BY <2>3, <2>4
  <1>7. ASSUME NEW a \in Actors, Finish(a) PROVE SerialInv'
    <2>1. /\ pc[a] = "loop" /\ todo[a] = NoRows /\ pc' = [pc EXCEPT ![a] = "idle"]
          /\ UNCHANGED <<enr, step, jobs, hand, todo>>
      BY <1>7 DEF Finish, Goto, enrollment, outcome
    <2>2. /\ pc'[a] = "idle" /\ \A b \in Actors \ {a} : pc'[b] = pc[b]
          /\ \A c \in Contacts : todo'[a][c] = None
      BY <1>t, <2>1 DEF TypeOK, NoRows
    <2>3. Holds(a)'
      BY <1>a, <2>1, <2>2 DEF Holds
    <2> QED BY <1>1, <2>1, <2>2, <2>3
  <1>8. ASSUME NEW a \in Actors, Abandon(a) PROVE SerialInv'
    <2>1. /\ pc[a] # "idle" /\ pc' = [pc EXCEPT ![a] = "idle"] /\ hand' = [hand EXCEPT ![a] = {}]
          /\ todo' = [todo EXCEPT ![a] = NoRows] /\ UNCHANGED <<enr, step, jobs>>
      BY <1>8 DEF Abandon, Goto, LetGo, enrollment, outcome
    <2>2. /\ pc'[a] = "idle" /\ hand'[a] = {} /\ \A c \in Contacts : todo'[a][c] = None
          /\ \A b \in Actors \ {a} : pc'[b] = pc[b] /\ hand'[b] = hand[b] /\ todo'[b] = todo[b]
      BY <1>t, <2>1 DEF TypeOK, NoRows
    <2>3. Holds(a)'
      BY <2>2 DEF Holds
    <2> QED BY <1>1, <2>1, <2>2, <2>3
  <1>9. CASE Pause \/ Resume \/ Cancel \/ NewDay \/ UNCHANGED vars \/ \E c \in Contacts : Elapse(c)
    BY <1>2, <1>9 DEF Pause, Resume, Cancel, NewDay, vars, Elapse, enrollment, outcome
  <1>10. CASE CancelEnrollments \/ \E c \in Contacts : StopSequence(c)
    <2>1. \A c \in Contacts : enr'[c] = enr[c] \/ (enr[c] = "active" /\ enr'[c] = "stopped")
      BY <1>10 DEF CancelEnrollments, StopSequence, Stopped
    <2> QED BY <1>2, <1>10, <2>1 DEF CancelEnrollments, StopSequence, outcome
  <1> QED BY <1>t, <1>3, <1>4, <1>5, <1>6, <1>7, <1>8, <1>9, <1>10,
             TickReads, LaunchEnrolls, EnrollmentAdvances, JobIsSent DEF Next, Work

-----------------------------------------------------------------------------
(* The steps that are lost.  Only an actor that gives up between moving an          *)
(* enrollment and sending its job loses one, and it is counted as a failure.        *)
(* The steps that are behind a contact and that no job was or will be sent for. *)
Lost == {x \in Contacts \X (0..(Steps - 1)) :
           Behind(x[1], x[2]) /\ jobs[x] = 0 /\ ~InHand(x[1], x[2])}

LostInv == SerialInv /\ Cardinality(Lost) <= failures

LEMMA LostIsFinite ==
  /\ IsFiniteSet(Lost) /\ Cardinality(Lost) \in Nat
  /\ IsFiniteSet(Lost') /\ Cardinality(Lost') \in Nat
  <1>1. IsFiniteSet(Contacts \X (0..(Steps - 1)))
    <2>1. 0 \in Int /\ Steps - 1 \in Int /\ IsFiniteSet(Contacts)
      BY DripAssumption
    <2>2. IsFiniteSet(0..(Steps - 1))
      BY <2>1, FS_Interval
    <2> QED BY <2>1, <2>2, FS_Product
  <1>2. Lost \subseteq Contacts \X (0..(Steps - 1)) /\ Lost' \subseteq Contacts \X (0..(Steps - 1))
    BY DEF Lost
  <1> QED BY <1>1, <1>2, FS_Subset, FS_CardinalityType

LEMMA LostIsCounted == SerialInv => (LostStepsBounded <=> Cardinality(Lost) <= failures)
  <1> SUFFICES ASSUME SerialInv PROVE LostStepsBounded <=> Cardinality(Lost) <= failures
    OBVIOUS
  <1> DEFINE L == {x \in DOMAIN jobs : x[2] \in Passed(x[1]) /\ jobs[x] = 0 /\ ~InHand(x[1], x[2])}
  <1>1. DOMAIN jobs = Contacts \X (0..(Steps - 1))
    BY DEF SerialInv, TypeOK
  <1>2. L = Lost
    BY <1>1 DEF Lost, Passed, Behind
  <1>3. LostStepsBounded <=> Cardinality(L) <= failures
    BY DEF LostStepsBounded
  <1> HIDE DEF L
  <1> QED BY <1>2, <1>3

(* A step loses none, or one that it counts. *)
LEMMA NoneOrOneIsLost ==
  ASSUME LostInv, SerialInv', NEW x,
         \/ Lost' \subseteq Lost /\ failures' \in {failures, failures + 1}
         \/ Lost' \subseteq Lost \cup {x} /\ failures' = failures + 1
  PROVE  LostInv'
  <1>1. Cardinality(Lost) <= failures /\ failures \in Nat
    BY DripAssumption DEF LostInv, SerialInv, TypeOK
  <1>2. CASE Lost' \subseteq Lost /\ failures' \in {failures, failures + 1}
    <2>1. Cardinality(Lost') <= Cardinality(Lost)
      BY <1>2, LostIsFinite, FS_Subset
    <2> QED BY <1>1, <1>2, <2>1, LostIsFinite DEF LostInv
  <1>3. CASE Lost' \subseteq Lost \cup {x} /\ failures' = failures + 1
    <2>1. IsFiniteSet(Lost \cup {x}) /\ Cardinality(Lost \cup {x}) \in {Cardinality(Lost), Cardinality(Lost) + 1}
      BY LostIsFinite, FS_AddElement
    <2>2. Cardinality(Lost') <= Cardinality(Lost \cup {x})
      BY <1>3, <2>1, FS_Subset
    <2> QED BY <1>1, <1>3, <2>1, <2>2, LostIsFinite DEF LostInv
  <1> QED BY <1>2, <1>3

LEMMA NextLostInv ==
  ASSUME Serial, LostInv, [Next]_vars
  PROVE  LostInv'
  <1>t. SerialInv /\ SerialInv' /\ TypeOK /\ failures \in Nat
    BY NextSerialInv, DripAssumption DEF LostInv, SerialInv, TypeOK
  <1>a. \A a \in Actors : Holds(a)
    BY <1>t DEF SerialInv
  \* Whoever is about to send a job still is.
  <1>1. ASSUME UNCHANGED <<step, jobs>>, failures' \in {failures, failures + 1},
               \A c \in Contacts : enr'[c] = "completed" => enr[c] = "completed",
               \A b \in Actors : pc[b] = "send" =>
                 pc'[b] = "send" /\ hand'[b] = hand[b] /\ todo'[b] = todo[b]
        PROVE  LostInv'
    <2>1. Lost' \subseteq Lost
      BY <1>1 DEF Lost, Behind, InHand
    <2> QED BY <1>1, <1>t, <2>1, NoneOrOneIsLost
  \* An actor gives up what it was about to send.
  <1>2. ASSUME NEW a \in Actors, UNCHANGED <<enr, step, jobs>>, failures' = failures + 1,
               \A b \in Actors \ {a} : pc'[b] = pc[b] /\ hand'[b] = hand[b] /\ todo'[b] = todo[b]
        PROVE  LostInv'
    <2>1. CASE pc[a] # "send"
      BY <1>1, <1>2, <2>1
    <2>2. CASE pc[a] = "send"
      <3>1. PICK d \in Contacts : hand[a] = {d}
        BY <1>a, <1>t, <2>2 DEF Holds, TypeOK
      <3>2. Lost' \subseteq Lost \cup {<<d, todo[a][d]>>}
        <4> SUFFICES ASSUME NEW x \in Lost', x \notin Lost PROVE x = <<d, todo[a][d]>>
          OBVIOUS
        <4>1. x \in Contacts \X (0..(Steps - 1)) /\ InHand(x[1], x[2]) /\ ~InHand(x[1], x[2])'
          BY <1>2 DEF Lost, Behind
        <4>2. x[1] = d /\ x[2] = todo[a][d]
          BY <1>2, <3>1, <4>1 DEF InHand
        <4> QED BY <4>1, <4>2
      <3> QED BY <1>2, <1>t, <3>2, NoneOrOneIsLost
    <2> QED BY <2>1, <2>2
  <1>3. ASSUME NEW a \in Actors, a \in Ticks /\ TickStart(a) PROVE LostInv'
    <2>1. /\ pc[a] # "send" /\ UNCHANGED <<enr, step, jobs, failures>>
          /\ \A b \in Actors \ {a} : pc'[b] = pc[b] /\ hand'[b] = hand[b] /\ todo'[b] = todo[b]
      BY <1>3, <1>t DEF TickStart, MayStart, Goto, enrollment, outcome, TypeOK
    <2> QED BY <1>1, <2>1
  <1>4. ASSUME NEW a \in Actors, NEW l \in Launches, a = l, LaunchStart(l) \/ Enroll(l) \/ Activate(l)
        PROVE  LostInv'
    <2>1. /\ pc[a] # "send" /\ UNCHANGED <<step, jobs, failures>>
          /\ \A b \in Actors \ {a} : pc'[b] = pc[b] /\ hand'[b] = hand[b] /\ todo'[b] = todo[b]
      BY <1>4, <1>t DEF LaunchStart, Enroll, Activate, MayStart, Goto, enrollment, outcome, TypeOK
    <2>2. \A c \in Contacts : enr'[c] = "completed" => enr[c] = "completed"
      BY <1>4, <1>t DEF LaunchStart, Enroll, Activate, enrollment, TypeOK
    <2> QED BY <1>1, <2>1, <2>2
  <1>5. ASSUME NEW a \in Actors, CanSend(a) \/ Finish(a) PROVE LostInv'
    <2>1. /\ pc[a] # "send" /\ UNCHANGED <<enr, step, jobs, failures>>
          /\ \A b \in Actors \ {a} : pc'[b] = pc[b] /\ hand'[b] = hand[b] /\ todo'[b] = todo[b]
      BY <1>5, <1>t DEF CanSend, Finish, Goto, Drop, enrollment, outcome, TypeOK
    <2> QED BY <1>1, <2>1
  <1>6. ASSUME NEW a \in Actors, Abandon(a) PROVE LostInv'
    BY <1>2, <1>6, <1>t DEF Abandon, Goto, LetGo, enrollment, outcome, TypeOK
  <1>7. ASSUME NEW l \in Launches, DispatchFails(l) PROVE LostInv'
    <2>1. l \in Actors
      BY ActorsOf
    <2> QED BY <1>2, <1>7, <1>t, <2>1 DEF DispatchFails, Goto, LetGo, Drop, enrollment, outcome, TypeOK
  <1>8. ASSUME NEW a \in Actors, Advance(a) PROVE LostInv'
    <2>1. PICK d \in Contacts :
           /\ hand[a] = {d} /\ pc[a] = "advance" /\ pc' = [pc EXCEPT ![a] = "send"]
           /\ todo[a][d] = step[d] /\ step[d] \in 0..(Steps - 1)
           /\ enr[d] \notin {"none", "completed"}
           /\ \/ step' = [step EXCEPT ![d] = step[d] + 1] /\ step[d] + 1 < Steps /\ enr' = enr
              \/ enr' = [enr EXCEPT ![d] = "completed"] /\ step[d] + 1 = Steps /\ step' = step
           /\ UNCHANGED <<todo, hand, jobs, failures>>
      BY <1>8, <1>t, AdvanceIs
    <2>2. ASSUME NEW c \in Contacts, NEW k \in 0..(Steps - 1), Behind(c, k)', ~Behind(c, k)
          PROVE  c = d /\ k = todo[a][d]
      BY <1>t, <2>1, <2>2, DripAssumption DEF Behind, TypeOK
    <2>3. InHand(d, todo[a][d])'
      BY <1>t, <2>1 DEF InHand, TypeOK
    <2>4. \A c \in Contacts, k \in 0..(Steps - 1) : InHand(c, k) => InHand(c, k)'
      BY <1>t, <2>1 DEF InHand, TypeOK
    <2>5. Lost' \subseteq Lost
      <3> SUFFICES ASSUME NEW c \in Contacts, NEW k \in 0..(Steps - 1), <<c, k>> \in Lost'
                   PROVE  <<c, k>> \in Lost
        BY DEF Lost
      <3>1. Behind(c, k)' /\ jobs[<<c, k>>] = 0 /\ ~InHand(c, k)'
        BY <2>1 DEF Lost
      <3>2. Behind(c, k)
        BY <2>1, <2>2, <2>3, <3>1
      <3> QED BY <2>4, <3>1, <3>2 DEF Lost
    <2> QED BY <1>t, <2>1, <2>5, NoneOrOneIsLost
  <1>9. ASSUME NEW a \in Actors, Send(a) PROVE LostInv'
    <2>1. PICK d \in Contacts, j \in 0..(Steps - 1) :
           /\ pc[a] = "send" /\ hand[a] = {d} /\ todo[a][d] = j
           /\ Behind(d, j) /\ jobs[<<d, j>>] = 0
           /\ jobs' = [jobs EXCEPT ![<<d, j>>] = @ + 1] /\ Drop(a, d)
           /\ LetGo(a) /\ Goto(a, "loop") /\ UNCHANGED <<enr, step, failures>>
      BY <1>9, <1>t, SendIs
    <2>2. /\ \A b \in Actors \ {a} : pc'[b] = pc[b] /\ hand'[b] = hand[b] /\ todo'[b] = todo[b]
          /\ jobs'[<<d, j>>] = 1
          /\ \A c \in Contacts, k \in 0..(Steps - 1) : <<c, k>> # <<d, j>> => jobs'[<<c, k>>] = jobs[<<c, k>>]
      BY <1>t, <2>1 DEF TypeOK, Goto, LetGo, Drop
    <2>3. \A c \in Contacts, k \in 0..(Steps - 1) : <<c, k>> # <<d, j>> => (InHand(c, k) => InHand(c, k)')
      BY <2>1, <2>2 DEF InHand
    <2>4. Lost' \subseteq Lost
      <3> SUFFICES ASSUME NEW c \in Contacts, NEW k \in 0..(Steps - 1), <<c, k>> \in Lost'
                   PROVE  <<c, k>> \in Lost
        BY DEF Lost
      <3>1. Behind(c, k)' /\ jobs'[<<c, k>>] = 0 /\ ~InHand(c, k)'
        BY DEF Lost
      <3>2. Behind(c, k) /\ <<c, k>> # <<d, j>>
        BY <2>1, <2>2, <3>1 DEF Behind
      <3> QED BY <2>2, <2>3, <3>1, <3>2 DEF Lost
    <2> QED BY <1>t, <2>1, <2>4, NoneOrOneIsLost
  <1>10. CASE Pause \/ Resume \/ Cancel \/ NewDay \/ UNCHANGED vars \/ \E c \in Contacts : Elapse(c)
    BY <1>1, <1>10 DEF Pause, Resume, Cancel, NewDay, vars, Elapse, enrollment, outcome
  <1>11. CASE CancelEnrollments \/ \E c \in Contacts : StopSequence(c)
    <2>1. \A c \in Contacts : enr'[c] = "completed" => enr[c] = "completed"
      BY <1>11 DEF CancelEnrollments, StopSequence, Stopped
    <2> QED BY <1>1, <1>11, <2>1 DEF CancelEnrollments, StopSequence, outcome
  <1> QED BY <1>t, <1>3, <1>4, <1>5, <1>6, <1>7, <1>8, <1>9, <1>10, <1>11, ActorsOf DEF Next, Work

LEMMA SerialInvariant == ASSUME Serial PROVE Spec => []LostInv
  <1>1. Init => LostInv
    <2> SUFFICES ASSUME Init PROVE LostInv
      OBVIOUS
    <2>1. Lost = {}
      BY DEF Init, Lost, Behind
    <2>2. Cardinality(Lost) = 0
      BY <2>1, FS_EmptySet
    <2> QED BY <2>2, InitSerialInv DEF LostInv, Init
  <1>2. LostInv /\ [Next]_vars => LostInv'
    BY NextLostInv
  <1> QED BY <1>1, <1>2, PTL DEF Spec

(* While no two actors overlap, no step is dispatched twice to a contact, also when *)
(* ticks die half way and later ticks take over their rows (icrv-cron               *)
(* runCampaignTick, campaigns.ts /launch).                                          *)
THEOREM NoStepTwice == ASSUME Serial PROVE Spec => []EachStepOnce
  <1>1. LostInv => EachStepOnce
    <2> SUFFICES ASSUME LostInv, NEW x \in DOMAIN jobs PROVE jobs[x] <= 1
      BY DEF EachStepOnce
    <2>1. x \in Contacts \X (0..(Steps - 1))
      BY DEF LostInv, SerialInv, TypeOK
    <2>2. PICK c \in Contacts, k \in 0..(Steps - 1) : x = <<c, k>>
      BY <2>1
    <2> QED BY <2>2 DEF LostInv, SerialInv, Sent
  <1> QED BY <1>1, SerialInvariant, PTL

(* While no two actors overlap, a step that was passed was dispatched or is about to *)
(* be, except for at most one per failure: an invocation that dies between the       *)
(* enrollment's advance and Q_AGENT.send loses that one step.                        *)
THEOREM LossIsBounded == ASSUME Serial PROVE Spec => []LostStepsBounded
  <1>1. LostInv => LostStepsBounded
    BY LostIsCounted DEF LostInv
  <1> QED BY <1>1, SerialInvariant, PTL

(* While no two actors overlap, an active enrollment always has a step to go: its    *)
(* current_step_index never moves past the last step, where no query finds it again. *)
THEOREM ActiveGoesOn == ASSUME Serial PROVE Spec => []ActiveHasStep
  <1>1. LostInv => ActiveHasStep
    BY DEF LostInv, SerialInv, ActiveHasStep
  <1> QED BY <1>1, SerialInvariant, PTL

-----------------------------------------------------------------------------
(* Rows of an ended enrollment.  Only a tick's query and a launch's enrollment *)
(* put rows into a snapshot, and both want another status.                     *)
Unread(c) == \A a \in Actors : todo[a][c] = None

LEMMA DropLeavesUnread ==
  ASSUME TypeOK, NEW c \in Contacts, Unread(c), NEW a \in Actors, NEW x \in Contacts, Drop(a, x)
  PROVE  Unread(c)'
  BY DEF Unread, Drop, TypeOK, Rows

LEMMA EndedStep ==
  ASSUME TypeOK, [Next]_vars, NEW c \in Contacts, enr[c] \in {"stopped", "completed"}, Unread(c)
  PROVE  Unread(c)'
  <1> USE ActorsOf
  <1>1. ASSUME UNCHANGED todo PROVE Unread(c)'
    BY <1>1 DEF Unread
  <1>2. ASSUME NEW a \in Actors, Work(a) PROVE Unread(c)'
    <2>1. CASE CanSend(a)
      <3>1. UNCHANGED todo \/ \E x \in Contacts : Drop(a, x)
        BY <2>1 DEF CanSend
      <3> QED BY <1>1, <3>1, DropLeavesUnread
    <2>2. CASE Advance(a)
      BY <1>1, <2>2 DEF Advance
    <2>3. CASE Send(a)
      <3>1. \E x \in Contacts : Drop(a, x)
        BY <2>3 DEF Send, TypeOK
      <3> QED BY <3>1, DropLeavesUnread
    <2>4. CASE Finish(a)
      BY <1>1, <2>4 DEF Finish
    <2> QED BY <1>2, <2>1, <2>2, <2>3, <2>4 DEF Work
  <1>3. ASSUME NEW a \in Actors, Abandon(a) PROVE Unread(c)'
    BY <1>3 DEF Abandon, Unread, NoRows, TypeOK, Rows
  <1>4. ASSUME NEW t \in Ticks, TickStart(t) PROVE Unread(c)'
    <2>1. c \notin DueRows
      BY DEF DueRows
    <2> QED BY <1>4, <2>1 DEF TickStart, Unread, TypeOK, Rows
  <1>5. ASSUME NEW l \in Launches, Enroll(l) PROVE Unread(c)'
    <2>1. PICK x \in Contacts : enr[x] = "none" /\ todo' = [todo EXCEPT ![l][x] = 0]
      BY <1>5 DEF Enroll
    <2>2. x # c
      BY <2>1
    <2> QED BY <2>1, <2>2 DEF Unread, TypeOK, Rows
  <1>6. ASSUME NEW l \in Launches, DispatchFails(l) PROVE Unread(c)'
    <2>1. \E x \in Contacts : Drop(l, x)
      BY <1>6 DEF DispatchFails, TypeOK
    <2> QED BY <2>1, DropLeavesUnread
  <1>7. ASSUME NEW l \in Launches, LaunchStart(l) \/ Activate(l) PROVE Unread(c)'
    BY <1>1, <1>7 DEF LaunchStart, Activate
  <1>8. CASE \/ Pause \/ Resume \/ Cancel \/ CancelEnrollments \/ NewDay
             \/ \E x \in Contacts : StopSequence(x) \/ Elapse(x)
    BY <1>1, <1>8 DEF Pause, Resume, Cancel, CancelEnrollments, NewDay, StopSequence, Elapse
  <1>9. CASE UNCHANGED vars
    BY <1>1, <1>9 DEF vars
  <1> QED BY <1>2, <1>3, <1>4, <1>5, <1>6, <1>7, <1>8, <1>9 DEF Next

(* A stopped or completed enrollment that nobody has read as active gets no job     *)
(* from any later tick or launch, whatever operators do to the campaign             *)
(* (icrv-cron runCampaignTick's query, campaigns.ts /launch).                       *)
THEOREM EndedAreLeftAlone == Spec => EndedStaysQuiet
  <1>1. TypeOK /\ [Next]_vars
          => [ \A c \in Contacts :
                 (enr[c] \in {"stopped", "completed"} /\ \A a \in Actors : todo[a][c] = None)
                   => \A a \in Actors : todo'[a][c] = None ]_vars
    BY EndedStep DEF Unread
  <1> QED BY <1>1, TypeCorrect, PTL DEF Spec, EndedStaysQuiet
=============================================================================
