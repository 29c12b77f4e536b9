------------------------------ MODULE AgentRun ------------------------------
(***************************************************************************)
(* The agent jobs of one contact, from the trigger to the dispatched       *)
(* action:                                                                 *)
(*   the producers      (campaign tick and launch, inbound e-mail and      *)
(*     WhatsApp, post-call) send an agent_job;                             *)
(*   icrv-agent queue() and runAgentJob()  load the context, evaluate the  *)
(*     policy gate, ask the planner, gate on approval, dispatch, and       *)
(*     record the outcome in agent_runs.status;                            *)
(*   control-panel.ts   sets and clears kill switches at four scopes, and  *)
(*     approves or rejects runs.                                           *)
(*                                                                         *)
(* An envelope is one queue message: that of run r carries its job, that   *)
(* of request q is the agent_dispatch message an approval sends.  As in    *)
(* EmailOut its place is the await its invocation has reached.  That the   *)
(* queue may also hand out a message twice over, and what isDuplicate then *)
(* lets through, is shown there: both consumers share the helper.          *)
(***************************************************************************)
EXTENDS Integers, FiniteSets

CONSTANTS Runs,           \* agent runs of the contact
          Fresh,          \* those whose job has run_id '': icrv-agent inserts the row
          Requests,       \* requests to /runs/:runId/approve and /reject
          Scopes,         \* scopes that have an agent_controls row or may get one
          MaxConcurrency, \* consumer invocations the platform runs at once
          LoopRuns,       \* runs in ten minutes that make detectLoop answer true (3)
          MaxFailures     \* bound: exceptions and lost invocations explored

(* With at most 3 failures no message uses up max_retries (3) or MAX_ATTEMPTS (5); *)
(* what happens then is EmailOut's subject.                                         *)
ASSUME AgentAssumption ==
  /\ IsFiniteSet(Runs) /\ IsFiniteSet(Requests)
  /\ Fresh \subseteq Runs
  /\ Runs \cap Requests = {}
  /\ Scopes \subseteq {"global", "tenant", "campaign", "contact"}
  /\ MaxConcurrency \in Nat \ {0}
  /\ LoopRuns \in Nat \ {0}
  /\ MaxFailures \in 0..3

VARIABLES
  run,      \* agent_runs.status, "none" before the row exists
  at,       \* where each envelope is
  seen,     \* envelopes whose payload id has a marker in KV_IDEMP
  acted,    \* agent_actions rows of each run
  recent,   \* runs of the contact created in the last ten minutes
  control,  \* kill_switch of each scope's row: "unset" without the field or the row
  slack,    \* invocations past the load when the kill switch came on, less the
            \* actions since
  op,       \* where each approval or rejection request is
  subject,  \* the run it is about
  failures

vars == <<run, at, seen, acted, recent, control, slack, op, subject, failures>>
counts == <<acted, slack>>
operatorVars == <<control, op, subject>>

Envelopes == Runs \cup Requests
RunOf(e)  == IF e \in Runs THEN e ELSE subject[e]

(* "gated" stands for blocked_by_policy, deferred and escalated: nothing reads them. *)
RunStatus == {"none", "queued", "running", "completed", "failed", "gated",
              "pending_human", "approved", "rejected"}

(* The awaits of queue() and runAgentJob(), in order; "halted", "loop" and "clear" *)
(* are the contexts that loadRunContext may have read.                             *)
Cleared    == {"clear", "plan", "action"}
Processing == {"lookup", "put", "insert", "start", "load", "halted", "loop", "effect",
               "complete"} \cup Cleared
Places     == Processing \cup {"none", "queue", "retry", "acked"}

TypeOK ==
  /\ run \in [Runs -> RunStatus]
  /\ at \in [Envelopes -> Places]
  /\ seen \subseteq Envelopes
  /\ acted \in [Runs -> Nat]
  /\ recent \subseteq Runs
  /\ control \in [Scopes -> {"unset", "off", "on"}]
  /\ slack \in Int
  /\ op \in [Requests -> {"idle", "approve", "enqueue", "done"}]
  /\ subject \in [Requests -> Runs]
  /\ failures \in 0..MaxFailures

Init ==
  /\ run = [r \in Runs |-> "none"]
  /\ at = [e \in Envelopes |-> "none"]
  /\ seen = {}
  /\ acted = [r \in Runs |-> 0]
  /\ recent = {}
  /\ control = [s \in Scopes |-> "unset"]
  /\ slack = 0
  /\ op = [q \in Requests |-> "idle"]
  /\ subject \in [Requests -> Runs]
  /\ failures = 0

-----------------------------------------------------------------------------
(* The kill switch. *)

Rank == [global |-> 0, tenant |-> 1, campaign |-> 2, contact |-> 3]

(* mergeAgentControls: the most specific scope that sets the field wins. *)
MergedKill(c) ==
  \E s \in Scopes : c[s] = "on" /\ \A t \in Scopes : Rank[t] > Rank[s] => c[t] # "off"

Halted == MergedKill(control)

SetControl(s, v) ==
  /\ control' = [control EXCEPT ![s] = v]
  /\ slack' = IF ~MergedKill(control') THEN 0 ELSE
                IF Halted THEN slack ELSE Cardinality({e \in Envelopes : at[e] \in Cleared})
  /\ UNCHANGED <<run, at, seen, acted, recent, op, subject, failures>>

(* POST /kill-switch inserts the row or patches it. *)
KillSwitchOn(s) == SetControl(s, "on")

KillSwitchToNull(s) == SetControl(s, "null")  \* mutant: the patch is no boolean

(* DELETE /kill-switch patches the row, if there is one, to false. *)
KillSwitchOff(s) == SetControl(s, "off")

(* PUT /:scope replaces the row by the body, whose kill_switch is optional. *)
PutControls(s) == \E v \in {"unset", "off", "on"} : SetControl(s, v)

(* DELETE /:scope. *)
DeleteControls(s) == SetControl(s, "unset")

-----------------------------------------------------------------------------
(* The producers. *)

SetRun(r, status) == run' = [run EXCEPT ![r] = status]
Goto(e, p) == at' = [at EXCEPT ![e] = p]

(* The tick or the launch inserts the row; CampaignDrip shows what it does besides. *)
InsertQueued(r) ==
  /\ r \notin Fresh
  /\ run[r] = "none"
  /\ SetRun(r, "queued")
  /\ recent' = recent \cup {r}
  /\ UNCHANGED <<at, seen, counts, operatorVars, failures>>

(* Q_AGENT.send. *)
SendJob(r) ==
  /\ at[r] = "none"
  /\ r \in Fresh \/ run[r] # "none"
  /\ Goto(r, "queue")
  /\ UNCHANGED <<run, seen, counts, recent, operatorVars, failures>>

(* The send throws, or the tick dies between the two: the row stays without a job. *)
SendJobFails(r) ==
  /\ at[r] = "none" /\ run[r] # "none"
  /\ failures < MaxFailures
  /\ failures' = failures + 1
  /\ Goto(r, "acked")
  /\ UNCHANGED <<run, seen, counts, recent, operatorVars>>

-----------------------------------------------------------------------------
(* The consumer. *)

Deliver(e) ==
  /\ at[e] = "queue"
  /\ Cardinality({f \in Envelopes : at[f] \in Processing}) < MaxConcurrency
  /\ Goto(e, "lookup")
  /\ UNCHANGED <<run, seen, counts, recent, operatorVars, failures>>

(* isDuplicate: KV_IDEMP.get, then KV_IDEMP.put. *)
Lookup(e) ==
  /\ at[e] = "lookup"
  /\ Goto(e, IF e \in seen THEN "acked" ELSE "put")
  /\ UNCHANGED <<run, seen, counts, recent, operatorVars, failures>>

PutMarkerForgotten(e) ==  \* mutant: the marker is not written
  /\ at[e] = "put"
  /\ Goto(e, IF e \in Fresh THEN "insert" ELSE "start")
  /\ UNCHANGED <<run, seen, counts, recent, operatorVars, failures>>

PutMarker(e) ==
  /\ at[e] = "put"
  /\ seen' = seen \cup {e}
  /\ Goto(e, IF e \in Fresh THEN "insert" ELSE "start")
  /\ UNCHANGED <<run, counts, recent, operatorVars, failures>>

(* A job without a run_id: the row is inserted here. *)
InsertRun(e) ==
  /\ at[e] = "insert"
  /\ SetRun(RunOf(e), "queued")
  /\ recent' = recent \cup {RunOf(e)}
  /\ Goto(e, "start")
  /\ UNCHANGED <<seen, counts, operatorVars, failures>>

MarkRunning(e) ==
  /\ at[e] = "start"
  /\ SetRun(RunOf(e), "running")
  /\ Goto(e, "load")
  /\ UNCHANGED <<seen, counts, recent, operatorVars, failures>>

Settle(e, status) == SetRun(RunOf(e), status) /\ Goto(e, "acked")

ReturnsSilently(e) ==  \* mutant: the early return forgets failRun
  /\ at[e] = "load" /\ e \in Requests
  /\ Goto(e, "acked")
  /\ UNCHANGED <<run, seen, counts, recent, operatorVars, failures>>

(* The message that /approve sends has no contact_id. *)
MissingContact(e) ==
  /\ at[e] = "load" /\ e \in Requests
  /\ Settle(e, "failed")
  /\ UNCHANGED <<seen, counts, recent, operatorVars, failures>>

LoopSeenLate == Cardinality(recent) > LoopRuns  \* mutant: one run more is let through

(* detectLoop, with the run itself among the recent ones. *)
LoopSeen == Cardinality(recent) >= LoopRuns

(* mutant: the merged controls lose the kill switch *)
ContextWithoutKill == IF LoopSeen THEN "loop" ELSE "clear"

(* What loadRunContext's first reads, all at once, let evaluatePolicy conclude. *)
Context == IF Halted THEN "halted" ELSE IF LoopSeen THEN "loop" ELSE "clear"

LoadContext(e) ==
  /\ at[e] = "load" /\ e \in Runs
  /\ Goto(e, Context)
  /\ UNCHANGED <<run, seen, counts, recent, operatorVars, failures>>

(* evaluatePolicy: the kill switch comes first and the loop last.  What stands in  *)
(* between is not modelled and may block, defer or escalate any run: consent,      *)
(* suppression, allowed channels, quiet hours, the daily cap, unanswered messages. *)
BlockedByKillSwitch(e) ==
  /\ at[e] = "halted"
  /\ Settle(e, "gated")
  /\ UNCHANGED <<seen, counts, recent, operatorVars, failures>>

OtherVerdict(e) ==
  /\ at[e] \in {"loop", "clear"}
  /\ Settle(e, "gated")
  /\ UNCHANGED <<seen, counts, recent, operatorVars, failures>>

EscalatedByLoop(e) ==
  /\ at[e] = "loop"
  /\ Settle(e, "gated")
  /\ UNCHANGED <<seen, counts, recent, operatorVars, failures>>

PassPolicy(e) ==
  /\ at[e] = "clear"
  /\ Goto(e, "plan")
  /\ UNCHANGED <<run, seen, counts, recent, operatorVars, failures>>

(* runLlmPlanner and the approval gate: a risky plan, or a call that needs one. *)
PendHuman(e) ==
  /\ at[e] = "plan"
  /\ Settle(e, "pending_human")
  /\ UNCHANGED <<seen, counts, recent, operatorVars, failures>>

SkipsDispatch(e) ==  \* mutant: some action types are completed without a dispatch
  /\ at[e] = "plan"
  /\ Goto(e, "complete")
  /\ UNCHANGED <<run, seen, counts, recent, operatorVars, failures>>

NoApprovalNeeded(e) ==
  /\ at[e] = "plan"
  /\ Goto(e, "action")
  /\ UNCHANGED <<run, seen, counts, recent, operatorVars, failures>>

(* dispatchAction: the agent_actions row. *)
InsertAction(e) ==
  /\ at[e] = "action"
  /\ acted' = [acted EXCEPT ![RunOf(e)] = @ + 1]
  /\ slack' = IF Halted THEN slack - 1 ELSE slack
  /\ Goto(e, "effect")
  /\ UNCHANGED <<run, seen, recent, operatorVars, failures>>

(* The action itself: EmailOut, and StopSequence of CampaignDrip, show two of them. *)
Effect(e) ==
  /\ at[e] = "effect"
  /\ Goto(e, "complete")
  /\ UNCHANGED <<run, seen, counts, recent, operatorVars, failures>>

Complete(e) ==
  /\ at[e] = "complete"
  /\ Settle(e, "completed")
  /\ UNCHANGED <<seen, counts, recent, operatorVars, failures>>

FailsSilently(e) ==  \* mutant: the catch blocks forget failRun
  /\ e \in Runs
  /\ at[e] \in {"load", "halted", "loop", "clear", "plan", "action", "effect"}
  /\ Goto(e, "acked")
  /\ UNCHANGED <<run, seen, counts, recent, operatorVars, failures>>

(* A caught exception: context_load_failed, llm_failed or dispatch_failed.  The     *)
(* action may have been sent by then.                                               *)
FailRun(e) ==
  /\ e \in Runs
  /\ at[e] \in {"load", "halted", "loop", "clear", "plan", "action", "effect"}
  /\ Settle(e, "failed")
  /\ UNCHANGED <<seen, counts, recent, operatorVars, failures>>

(* An await outside the inner try blocks throws: scheduleRetry, and ack. *)
Throws(e) ==
  /\ at[e] \in Processing
  /\ failures < MaxFailures
  /\ failures' = failures + 1
  /\ Goto(e, "retry")
  /\ UNCHANGED <<run, seen, counts, recent, operatorVars>>

(* icrv-consumer processRetry: the same payload, with the same id. *)
ProcessRetry(e) ==
  /\ at[e] = "retry"
  /\ Goto(e, "queue")
  /\ UNCHANGED <<run, seen, counts, recent, operatorVars, failures>>

(* The invocation dies; the message is redelivered. *)
Crash(e) ==
  /\ at[e] \in Processing
  /\ failures < MaxFailures
  /\ failures' = failures + 1
  /\ Goto(e, "queue")
  /\ UNCHANGED <<run, seen, counts, recent, operatorVars>>

-----------------------------------------------------------------------------
(* The operator. *)

(* /approve reads the status, then writes it without a condition. *)
ApproveRead(q) ==
  /\ op[q] = "idle"
  /\ run[subject[q]] = "pending_human"
  /\ op' = [op EXCEPT ![q] = "approve"]
  /\ UNCHANGED <<run, at, seen, counts, recent, control, subject, failures>>

ApproveWrite(q) ==
  /\ op[q] = "approve"
  /\ SetRun(subject[q], "approved")
  /\ op' = [op EXCEPT ![q] = "enqueue"]
  /\ UNCHANGED <<at, seen, counts, recent, control, subject, failures>>

ApproveEnqueue(q) ==
  /\ op[q] = "enqueue"
  /\ Goto(q, "queue")
  /\ op' = [op EXCEPT ![q] = "done"]
  /\ UNCHANGED <<run, seen, counts, recent, control, subject, failures>>

(* Q_AGENT.send throws, or the request dies before it. *)
ApproveFails(q) ==
  /\ op[q] = "enqueue"
  /\ failures < MaxFailures
  /\ failures' = failures + 1
  /\ op' = [op EXCEPT ![q] = "done"]
  /\ UNCHANGED <<run, at, seen, counts, recent, control, subject>>

(* /reject only checks that the run exists, whatever its status. *)
Reject(q) ==
  /\ op[q] = "idle"
  /\ run[subject[q]] # "none"
  /\ SetRun(subject[q], "rejected")
  /\ op' = [op EXCEPT ![q] = "done"]
  /\ UNCHANGED <<at, seen, counts, recent, control, subject, failures>>

-----------------------------------------------------------------------------
(* The clock. *)

(* A run's created_at is more than ten minutes ago. *)
Age(r) ==
  /\ r \in recent
  /\ recent' = recent \ {r}
  /\ UNCHANGED <<run, at, seen, counts, operatorVars, failures>>

-----------------------------------------------------------------------------
Consume(e) ==
  \/ Lookup(e) \/ PutMarker(e) \/ InsertRun(e) \/ MarkRunning(e) \/ MissingContact(e)
  \/ LoadContext(e) \/ BlockedByKillSwitch(e) \/ OtherVerdict(e)
  \/ EscalatedByLoop(e) \/ PassPolicy(e) \/ PendHuman(e) \/ NoApprovalNeeded(e)
  \/ InsertAction(e) \/ Effect(e) \/ Complete(e) \/ FailRun(e)

Operate(q) ==
  \/ ApproveRead(q) \/ ApproveWrite(q) \/ ApproveEnqueue(q) \/ ApproveFails(q)
  \/ Reject(q)

Next ==
  \/ \E s \in Scopes :
       KillSwitchOn(s) \/ KillSwitchOff(s) \/ PutControls(s) \/ DeleteControls(s)
  \/ \E r \in Runs : InsertQueued(r) \/ SendJob(r) \/ SendJobFails(r) \/ Age(r)
  \/ \E e \in Envelopes :
       Deliver(e) \/ Consume(e) \/ Throws(e) \/ ProcessRetry(e) \/ Crash(e)
  \/ \E q \in Requests : Operate(q)

Spec == Init /\ [][Next]_vars

(* The platform delivers, and what is running goes on; triggers, operators and     *)
(* failures owe nothing, except that a request that wrote 'approved' goes on too.  *)
Fairness ==
  /\ \A e \in Envelopes : WF_vars(Deliver(e)) /\ WF_vars(Consume(e)) /\ WF_vars(ProcessRetry(e))
  /\ \A r \in Runs : WF_vars(r \notin Fresh /\ SendJob(r))
  /\ \A q \in Requests : WF_vars(ApproveWrite(q) \/ ApproveEnqueue(q))

FairSpec == Spec /\ Fairness

-----------------------------------------------------------------------------
(* Properties. *)

(* Once the merged kill switch is on, no more actions get out than invocations     *)
(* were past the context load: the gate is evaluated once, before the planner, and *)
(* no crash or retry gives an invocation a second way past it.                     *)
KillSwitchLeakBounded == slack >= 0

(* The loop brake: of the runs created within ten minutes, however they interleave *)
(* and however late their jobs run, fewer than LoopRuns act.                       *)
LoopBrake == Cardinality({r \in recent : acted[r] > 0}) < LoopRuns

(* No run acts twice, and one an operator is asked to decide on has not acted: the *)
(* approval gate stands before the dispatch, and no crash, redelivery, retry or    *)
(* approval starts the pipeline over.                                              *)
ActsAtMostOnce ==
  \A r \in Runs : acted[r] <= IF run[r] \in {"pending_human", "approved"} THEN 0 ELSE 1

(* agent_runs.status = 'completed' is true of the run: its action was dispatched,  *)
(* whatever operators wrote in between.                                            *)
CompletedHasActed == \A r \in Runs : run[r] = "completed" => acted[r] > 0

(* A run still open with no message left that would settle it. *)
Stranded(r) ==
  /\ run[r] \in {"queued", "running", "approved"}
  /\ \A e \in Envelopes : RunOf(e) = r =>
       \/ at[e] = "acked"
       \/ at[e] = "none" /\ e \in Requests
       \/ at[e] \in {"queue", "retry", "lookup"} /\ e \in seen
  /\ \A q \in Requests : subject[q] = r => op[q] \notin {"approve", "enqueue"}

(* A failure between the row and its job, or after the marker is written, strands  *)
(* its run: the retry is dropped as a duplicate.  No failure strands more than one *)
(* run, and nothing else strands any.                                              *)
StrandedBounded == Cardinality({r \in Runs : Stranded(r)}) <= failures

(* Without failures every run that was queued is settled. *)
SettlesWithoutFailure ==
  \A r \in Runs :
    run[r] \in {"queued", "running", "approved"} ~>
      run[r] \notin {"queued", "running", "approved"} \/ failures > 0

(* policy-gate.ts:34 and AppContext.tsx:26: a kill switch halts the agent at any   *)
(* level: a run that loads its context while one is on gets no further.            *)
AnyKillSwitchHalts ==
  [][ \A e \in Envelopes :
        (at[e] = "load" /\ \E s \in Scopes : control[s] = "on")
          => at'[e] \notin {"loop", "clear"} ]_vars

(* AIControlPanel.tsx:419, 651: an approved run is queued for dispatch: in the end  *)
(* its action is dispatched.                                                        *)
ApprovedIsDispatched ==
  \A r \in Runs :
    run[r] = "approved" ~> acted[r] > 0 \/ run[r] = "rejected" \/ failures > 0
=============================================================================
