---------------------------- MODULE CampaignDrip ----------------------------
(***************************************************************************)
(* One drip campaign: the enrollments in D1, the CampaignCoordinatorDO     *)
(* that grants sends under a daily cap, and the actors that dispatch the   *)
(* steps:                                                                  *)
(*   icrv-cron runCampaignTick    reads the due rows once, then works      *)
(*     through that snapshot without looking at them again;                *)
(*   campaigns.ts /launch         enrolls the audience, activates the      *)
(*     campaign and dispatches step 0 of the new enrollments itself;       *)
(*   /pause, /resume, /cancel, and dispatcher.ts dispatchStopSequence.     *)
(* Cloudflare starts a tick every minute whether or not the last one has   *)
(* ended, so ticks and launches overlap.  The steps use one channel: the   *)
(* coordinator keeps one independent count per channel.                    *)
(***************************************************************************)
EXTENDS Integers, FiniteSets

CONSTANTS Contacts,    \* the tenant's contacts
          Ticks,       \* invocations of runCampaignTick that may be in progress at once
          Launches,    \* requests to /launch that may be in progress at once
          Steps,       \* campaign_steps 0..Steps-1
          Cap,         \* per_channel_daily_cap (5000)
          Serial,      \* TRUE: schedules in which no two actors overlap; FALSE: all
          MaxFailures  \* bound: exceptions and lost invocations explored

Actors == Ticks \cup Launches

ASSUME DripAssumption ==
  /\ IsFiniteSet(Contacts) /\ IsFiniteSet(Actors)
  /\ Ticks \cap Launches = {}
  /\ Steps \in Nat \ {0}
  /\ Cap \in Nat \ {0}
  /\ Serial \in BOOLEAN
  /\ MaxFailures \in Nat

VARIABLES
  campaign,   \* campaigns.status
  cancelling, \* a /cancel request is between its two updates
  enr,        \* campaign_enrollments.status, "none" before the row exists
  step,       \* current_step_index
  due,        \* contacts whose next_step_at has passed
  granted,    \* sent_today_by_channel of the coordinator
  pc,         \* where each actor is
  todo,       \* each actor's snapshot: the step read for each contact, or None
  hand,       \* the contact whose row the actor has a grant for, if any
  jobs,       \* agent jobs sent, per contact and step
  sentToday,  \* agent jobs sent since midnight
  failures

enrollment == <<campaign, cancelling, enr, step, due>>
outcome    == <<jobs, sentToday>>
vars == <<enrollment, granted, pc, todo, hand, outcome, failures>>

None   == -1
Rows   == [Contacts -> None..(Steps - 1)]
NoRows == [c \in Contacts |-> None]

TypeOK ==
  /\ campaign \in {"draft", "active", "paused", "cancelled"}
  /\ cancelling \in BOOLEAN
  /\ enr \in [Contacts -> {"none", "active", "completed", "stopped"}]
  /\ step \in [Contacts -> Nat]
  /\ due \subseteq Contacts
  /\ granted \in 0..Cap
  /\ pc \in [Actors -> {"idle", "enroll", "loop", "advance", "send"}]
  /\ todo \in [Actors -> Rows]
  /\ hand \in [Actors -> SUBSET Contacts]
  /\ jobs \in [Contacts \X (0..(Steps - 1)) -> Nat]
  /\ sentToday \in Nat
  /\ failures \in 0..MaxFailures

Init ==
  /\ campaign = "draft"
  /\ cancelling = FALSE
  /\ enr = [c \in Contacts |-> "none"]
  /\ step = [c \in Contacts |-> 0]
  /\ due = {}
  /\ granted = 0
  /\ pc = [a \in Actors |-> "idle"]
  /\ todo = [a \in Actors |-> NoRows]
  /\ hand = [a \in Actors |-> {}]
  /\ jobs = [x \in Contacts \X (0..(Steps - 1)) |-> 0]
  /\ sentToday = 0
  /\ failures = 0

-----------------------------------------------------------------------------
(* What ticks and launches have in common. *)

MayStart(a) == pc[a] = "idle" /\ (Serial => \A b \in Actors : pc[b] = "idle")

Goto(a, p) == pc' = [pc EXCEPT ![a] = p]
Drop(a, c) == todo' = [todo EXCEPT ![a][c] = None]
LetGo(a) == hand' = [hand EXCEPT ![a] = {}]

OverCapByOne == granted > Cap  \* mutant: one grant too many

(* CampaignCoordinatorDO /can-send: reads, compares and increments in one turn. *)
CapReached == granted >= Cap

CanSend(a) ==
  /\ pc[a] = "loop"
  /\ \E c \in Contacts :
       /\ todo[a][c] # None
       /\ IF CapReached
            THEN Drop(a, c) /\ UNCHANGED <<granted, pc, hand>>
            ELSE /\ granted' = granted + 1
                 /\ hand' = [hand EXCEPT ![a] = {c}]
                 /\ Goto(a, "advance")
                 /\ UNCHANGED todo
  /\ UNCHANGED <<enrollment, outcome, failures>>

(* The agent_runs row (see AgentRun) and the enrollment's advance: a tick adds    *)
(* one to current_step_index, a launch sets it to 1; without a next step the      *)
(* enrollment is completed.  Neither update looks at the status it finds.         *)
SameIndex(a, c) == IF a \in Ticks THEN step[c] ELSE 0  \* mutant: the index is not advanced
SkipIndex(a, c) == step[c] + 2                          \* mutant: it is advanced twice
NextIndex(a, c) == IF a \in Ticks THEN step[c] + 1 ELSE 1

AdvanceFrom(a, c, k) ==
  IF k + 1 < Steps
    THEN /\ step' = [step EXCEPT ![c] = NextIndex(a, c)]
         /\ due' = due \ {c}
         /\ UNCHANGED enr
    ELSE /\ enr' = [enr EXCEPT ![c] = "completed"]
         /\ UNCHANGED <<step, due>>

Advance(a) ==
  /\ pc[a] = "advance"
  /\ \E c \in hand[a] : AdvanceFrom(a, c, todo[a][c])
  /\ Goto(a, "send")
  /\ UNCHANGED <<campaign, cancelling, granted, todo, hand, outcome, failures>>

(* Q_AGENT.send. *)
Send(a) ==
  /\ pc[a] = "send"
  /\ \E c \in hand[a] :
       /\ jobs' = [jobs EXCEPT ![<<c, todo[a][c]>>] = @ + 1]
       /\ Drop(a, c)
  /\ sentToday' = sentToday + 1
  /\ LetGo(a)
  /\ Goto(a, "loop")
  /\ UNCHANGED <<enrollment, granted, failures>>

Finish(a) ==
  /\ pc[a] = "loop"
  /\ todo[a] = NoRows
  /\ Goto(a, "idle")
  /\ UNCHANGED <<enrollment, granted, todo, hand, outcome, failures>>

(* An exception that reaches scheduled(), a 500 of /launch, or the death of the   *)
(* invocation: the rows left are abandoned.                                       *)
Abandon(a) ==
  /\ pc[a] # "idle"
  /\ failures < MaxFailures
  /\ failures' = failures + 1
  /\ todo' = [todo EXCEPT ![a] = NoRows]
  /\ LetGo(a)
  /\ Goto(a, "idle")
  /\ UNCHANGED <<enrollment, granted, outcome>>

-----------------------------------------------------------------------------
(* The cron tick. *)

DueWhateverStatus ==  \* mutant: the query forgets ce.status = 'active'
  {c \in due : enr[c] # "none" /\ campaign = "active" /\ step[c] < Steps}

FirstStepRows ==  \* mutant: the query joins on the first step instead of the current one
  {c \in due : enr[c] = "active" /\ campaign = "active" /\ step[c] = 0}

(* The rows the query returns: active, due, and with a step at their index. *)
DueRows == {c \in due : enr[c] = "active" /\ campaign = "active" /\ step[c] < Steps}

TickStart(t) ==
  /\ MayStart(t)
  /\ DueRows # {}
  /\ todo' = [todo EXCEPT ![t] = [c \in Contacts |-> IF c \in DueRows THEN step[c] ELSE None]]
  /\ Goto(t, "loop")
  /\ UNCHANGED <<enrollment, granted, hand, outcome, failures>>

-----------------------------------------------------------------------------
(* POST /:id/launch. *)

LaunchStart(l) ==
  /\ MayStart(l)
  /\ campaign # "active"
  /\ Goto(l, "enroll")
  /\ UNCHANGED <<enrollment, granted, todo, hand, outcome, failures>>

(* The next contact of the audience without an enrollment gets one, due at once.  *)
(* (When two launches race on a contact, ux_enrollments fails one: Abandon.)      *)
Enroll(l) ==
  /\ pc[l] = "enroll"
  /\ \E c \in Contacts :
       /\ enr[c] = "none"
       /\ enr' = [enr EXCEPT ![c] = "active"]
       /\ due' = due \cup {c}
       /\ todo' = [todo EXCEPT ![l][c] = 0]
  /\ UNCHANGED <<campaign, cancelling, step, granted, pc, hand, outcome, failures>>

(* Once the audience is enrolled (any subset: the filter is a tag). *)
Activate(l) ==
  /\ pc[l] = "enroll"
  /\ campaign' = "active"
  /\ Goto(l, "loop")
  /\ UNCHANGED <<cancelling, enr, step, due, granted, todo, hand, outcome, failures>>

(* An await of the dispatch loop throws; the catch block logs it and goes on.     *)
DispatchFails(l) ==
  /\ pc[l] \in {"loop", "advance", "send"}
  /\ failures < MaxFailures
  /\ failures' = failures + 1
  /\ \E c \in IF pc[l] = "loop" THEN {x \in Contacts : todo[l][x] # None} ELSE hand[l] :
       Drop(l, c)
  /\ LetGo(l)
  /\ Goto(l, "loop")
  /\ UNCHANGED <<enrollment, granted, outcome>>

-----------------------------------------------------------------------------
(* Operators, the agent and the clock. *)

Pause ==
  /\ campaign' = "paused"
  /\ UNCHANGED <<cancelling, enr, step, due, granted, pc, todo, hand, outcome, failures>>

Resume ==
  /\ campaign' = "active"
  /\ UNCHANGED <<cancelling, enr, step, due, granted, pc, todo, hand, outcome, failures>>

Cancel ==
  /\ campaign' = "cancelled"
  /\ cancelling' = TRUE
  /\ UNCHANGED <<enr, step, due, granted, pc, todo, hand, outcome, failures>>

Stopped(S) == [c \in Contacts |-> IF c \in S /\ enr[c] = "active" THEN "stopped" ELSE enr[c]]

CancelEnrollments ==
  /\ cancelling
  /\ cancelling' = FALSE
  /\ enr' = Stopped(Contacts)
  /\ UNCHANGED <<campaign, step, due, granted, pc, todo, hand, outcome, failures>>

StopSequence(c) ==
  /\ enr' = Stopped({c})
  /\ UNCHANGED <<campaign, cancelling, step, due, granted, pc, todo, hand, outcome, failures>>

(* delay_hours have passed. *)
Elapse(c) ==
  /\ c \notin due
  /\ enr[c] = "active"
  /\ due' = due \cup {c}
  /\ UNCHANGED <<campaign, cancelling, enr, step, granted, pc, todo, hand, outcome, failures>>

(* Midnight: the count the coordinator stored is of another day. *)
NewDay ==
  /\ granted' = 0
  /\ sentToday' = 0
  /\ UNCHANGED <<enrollment, pc, todo, hand, jobs, failures>>

-----------------------------------------------------------------------------
Work(a) == CanSend(a) \/ Advance(a) \/ Send(a) \/ Finish(a)

Next ==
  \/ \E t \in Ticks : TickStart(t)
  \/ \E l \in Launches : LaunchStart(l) \/ Enroll(l) \/ Activate(l) \/ DispatchFails(l)
  \/ \E a \in Actors : Work(a) \/ Abandon(a)
  \/ Pause \/ Resume \/ Cancel \/ CancelEnrollments
  \/ \E c \in Contacts : StopSequence(c) \/ Elapse(c)
  \/ NewDay

Spec == Init /\ [][Next]_vars

(* The cron fires every minute, handlers continue, days pass.  Operators owe      *)
(* nothing; a launch that is in progress goes on to activate the campaign.        *)
Fairness ==
  /\ \A t \in Ticks : SF_vars(TickStart(t))
  /\ \A a \in Actors : WF_vars(Work(a))
  /\ \A l \in Launches : WF_vars(Activate(l))
  /\ \A c \in Contacts : WF_vars(Elapse(c))
  /\ WF_vars(NewDay)

FairSpec == Spec /\ Fairness

-----------------------------------------------------------------------------
(* Properties. *)

(* A grant is taken before the job is sent, possibly on the other side of         *)
(* midnight: the jobs of one day exceed the cap by at most one per actor, however *)
(* ticks and launches overlap or die.                                             *)
DailyCapOvershootBounded == sentToday <= Cap + Cardinality(Actors)

(* While no two actors overlap, no step is dispatched twice to a contact, also     *)
(* when ticks die half way and later ticks take over their rows.                   *)
EachStepOnce == \A x \in DOMAIN jobs : jobs[x] <= 1

(* The steps a contact's enrollment has left behind. *)
Passed(c) == {k \in 0..(Steps - 1) : k < step[c] \/ enr[c] = "completed"}
InHand(c, k) == \E a \in Actors : pc[a] = "send" /\ c \in hand[a] /\ todo[a][c] = k

(* While no two actors overlap, a step that was passed was dispatched or is about  *)
(* to be, except for at most one per failure.                                      *)
LostStepsBounded ==
  Cardinality({x \in DOMAIN jobs :
                   x[2] \in Passed(x[1]) /\ jobs[x] = 0 /\ ~InHand(x[1], x[2])}) <= failures

(* While no two actors overlap, an active enrollment always has a step to go: it   *)
(* never moves past the last one, where no query would find it again.              *)
ActiveHasStep == \A c \in Contacts : enr[c] = "active" => step[c] < Steps

(* A stopped or completed enrollment gets no job from any actor that had not read  *)
(* it before: nothing restarts a sequence, whatever is paused, resumed, cancelled  *)
(* or launched again.                                                              *)
EndedStaysQuiet ==
  [][ \A c \in Contacts :
        (enr[c] \in {"stopped", "completed"} /\ \A a \in Actors : todo[a][c] = None)
          => \A a \in Actors : todo'[a][c] = None ]_vars

(* While no two actors overlap and the campaign stays active, every enrollment     *)
(* ends: neither the cap nor failed ticks starve it.                               *)
SequencesEnd ==
  <>[](campaign = "active") =>
    \A c \in Contacts : enr[c] = "active" ~> enr[c] # "active"

(* campaigns.ts:263: when an enrollment can't be dispatched at launch "the cron    *)
(* will retry it next tick": a launch that gives up a row leaves it at step 0.     *)
CronRetriesMissed ==
  [][ \A l \in Launches, c \in Contacts :
        (c \in hand[l] /\ hand'[l] = {} /\ pc'[l] = "loop" /\ jobs' = jobs)
          => enr[c] # "completed" /\ step[c] = 0 ]_vars
=============================================================================
