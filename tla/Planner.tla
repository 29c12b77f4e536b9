------------------------------- MODULE Planner -------------------------------
(***************************************************************************)
(* What a run of icrv-agent may do: the policy gate that comes before the  *)
(* model is asked, the two answers the model may give, the approval gate   *)
(* that comes after, and the dispatch on the channel the answer names.     *)
(* AgentRun shows the same pipeline as its queue, its kill switches and    *)
(* its operators drive it; here the plan and the limits on it have their   *)
(* content.                                                                *)
(*                                                                         *)
(* Risk levels and thresholds are tenths.  The model is external: it may   *)
(* answer anything.                                                        *)
(***************************************************************************)
EXTENDS Integers

CONSTANTS Runs,      \* runs of the agent for one contact
          Triggers,  \* trigger_type of each run
          Allowed,   \* allow-lists that operators write
          Risks,     \* risk levels the model gives, in range or out of it
          MaxEdits   \* bound: changes of controls, consents and reachability

Channels == {"email", "whatsapp", "voice"}
Senders  == {"send_email", "send_whatsapp", "place_call"}
Quiet    == {"wait", "add_tag", "escalate_to_human", "stop_sequence"}

VARIABLES
  controls,  \* the merged agent controls
  revoked,   \* channels whose consent is revoked
  reach,     \* channels the contact has an address for and the tenant an account
  edits,
  at,        \* where each run is
  limits,    \* the controls and consents that the run loaded
  calls,     \* times it asked the model
  plan,      \* its plan: the tool, its risk, and whether its content is non-empty
  sent       \* channels it has sent a message on

world == <<controls, revoked, reach, edits>>
vars  == <<world, at, limits, calls, plan, sent>>

Controls == [allowed: SUBSET Channels, threshold: 0..10, callsNeedApproval: BOOLEAN]
Limits   == [allowed: SUBSET Channels, threshold: 0..10, callsNeedApproval: BOOLEAN,
             revoked: SUBSET Channels, reach: SUBSET Channels]
Plans    == [tool: Senders \cup Quiet \cup {"none"}, risk: 0..10, whole: BOOLEAN]

TypeOK ==
  /\ controls \in Controls /\ revoked \subseteq Channels /\ reach \subseteq Channels
  /\ edits \in 0..MaxEdits
  /\ at \in [Runs -> {"queued", "ask", "save", "approve", "dispatch", "complete",
                      "blocked", "pending_human", "failed", "completed"}]
  /\ limits \in [Runs -> Limits]
  /\ calls \in [Runs -> 0..2]
  /\ plan \in [Runs -> Plans]
  /\ sent \in [Runs -> SUBSET Channels]

Defaults == [allowed |-> {}, threshold |-> 8, callsNeedApproval |-> FALSE]

(* What a run that loads its context now would know. *)
Loaded ==
  [allowed |-> controls.allowed, threshold |-> controls.threshold,
   callsNeedApproval |-> controls.callsNeedApproval, revoked |-> revoked, reach |-> reach]

Init ==
  /\ controls = Defaults /\ revoked = {} /\ reach = Channels /\ edits = 0
  /\ at = [r \in Runs |-> "queued"]
  /\ limits = [r \in Runs |-> Loaded]
  /\ calls = [r \in Runs |-> 0]
  /\ plan = [r \in Runs |-> [tool |-> "none", risk |-> 0, whole |-> FALSE]]
  /\ sent = [r \in Runs |-> {}]

GoTo(r, p) == at' = [at EXCEPT ![r] = p]

-----------------------------------------------------------------------------
(* Operators, the contact, and the accounts of the tenant. *)

EditControls ==
  /\ edits < MaxEdits /\ edits' = edits + 1
  /\ \E a \in Allowed, t \in {0, 8, 10}, c \in BOOLEAN :
       controls' = [allowed |-> a, threshold |-> t, callsNeedApproval |-> c]
  /\ UNCHANGED <<revoked, reach, at, limits, calls, plan, sent>>

EditConsent ==
  /\ edits < MaxEdits /\ edits' = edits + 1
  /\ \E c \in Channels : revoked' \in {revoked \cup {c}, revoked \ {c}}
  /\ UNCHANGED <<controls, reach, at, limits, calls, plan, sent>>

EditReach ==
  /\ edits < MaxEdits /\ edits' = edits + 1
  /\ \E c \in Channels : reach' \in {reach \cup {c}, reach \ {c}}
  /\ UNCHANGED <<controls, revoked, at, limits, calls, plan, sent>>

-----------------------------------------------------------------------------
(* The gate before the model is asked. *)

(* inferIntendedChannel: runAgentJob loads no campaign step, so the trigger decides. *)
IntendedChannel(r) ==
  CASE Triggers[r] = "inbound_whatsapp" -> "whatsapp"
    [] Triggers[r] = "post_call" -> "voice"
    [] OTHER -> "email"

ConsentOnly(c) == c \notin revoked  \* mutant: the allow-list is not looked at

(* evaluatePolicy: a channel without a consent row passes. *)
PassesGate(c) == c \notin revoked /\ (controls.allowed = {} \/ c \in controls.allowed)

(* Quiet hours, the cap, the kill switch and the loop brake are not about channels, and   *)
(* block or defer a run as well.                                                          *)
LoadContext(r) ==
  /\ at[r] = "queued"
  /\ limits' = [limits EXCEPT ![r] = Loaded]
  /\ GoTo(r, IF PassesGate(IntendedChannel(r)) THEN "ask" ELSE "blocked")
  /\ UNCHANGED <<world, calls, plan, sent>>

OtherVerdict(r) ==
  /\ at[r] = "queued"
  /\ GoTo(r, "blocked")
  /\ UNCHANGED <<world, limits, calls, plan, sent>>

-----------------------------------------------------------------------------
(* runLlmPlanner. *)

Clamp(x) == IF x < 0 THEN 0 ELSE IF x > 10 THEN 10 ELSE x

(* A risk level that is no number counts as 0.5. *)
RiskLevels == {Clamp(x) : x \in Risks} \cup {5}

(* parsePlanFromToolUse.  Fields are looked at for their type only, but for the tag; and   *)
(* the three other tools can do without theirs.                                            *)
Answered == [tool: Senders, risk: RiskLevels, whole: BOOLEAN]
              \cup [tool: Quiet, risk: RiskLevels, whole: {TRUE}]

AskModel(r) ==
  /\ at[r] = "ask"
  /\ calls' = [calls EXCEPT ![r] = @ + 1]
  /\ \E p \in Answered : plan' = [plan EXCEPT ![r] = p]
  /\ GoTo(r, "save")
  /\ UNCHANGED <<world, limits, sent>>

(* No tool call, an unknown tool, or a field that is missing: asked once more. *)
InvalidAnswer(r) ==
  /\ at[r] = "ask"
  /\ calls' = [calls EXCEPT ![r] = @ + 1]
  /\ GoTo(r, IF calls[r] = 0 THEN "ask" ELSE "failed")
  /\ UNCHANGED <<world, limits, plan, sent>>

(* An error of the API is not asked again. *)
ApiError(r) ==
  /\ at[r] = "ask"
  /\ calls' = [calls EXCEPT ![r] = @ + 1]
  /\ GoTo(r, "failed")
  /\ UNCHANGED <<world, limits, plan, sent>>

(* The input, the output and the decision are stored for audit. *)
SaveDecision(r) ==
  /\ at[r] = "save"
  /\ GoTo(r, "approve")
  /\ UNCHANGED <<world, limits, calls, plan, sent>>

-----------------------------------------------------------------------------
(* The gate after it, and the dispatch. *)

OnlyAbove(r) ==  \* mutant: a risk at the threshold passes
  \/ plan[r].risk > limits[r].threshold
  \/ plan[r].tool = "place_call" /\ limits[r].callsNeedApproval

NeedsApproval(r) ==
  \/ plan[r].risk >= limits[r].threshold
  \/ plan[r].tool = "place_call" /\ limits[r].callsNeedApproval

ApprovalGate(r) ==
  /\ at[r] = "approve"
  /\ GoTo(r, IF NeedsApproval(r) THEN "pending_human" ELSE "dispatch")
  /\ UNCHANGED <<world, limits, calls, plan, sent>>

Dispatches(r, tool, channel, sendable) ==
  /\ at[r] = "dispatch" /\ plan[r].tool = tool
  /\ sent' = IF channel \in limits[r].reach /\ sendable
             THEN [sent EXCEPT ![r] = @ \cup {channel}] ELSE sent
  /\ GoTo(r, "complete")
  /\ UNCHANGED <<world, limits, calls, plan>>

DispatchEmail(r)     == Dispatches(r, "send_email", "email", plan[r].whole)
DispatchWhatsApp(r)  == Dispatches(r, "send_whatsapp", "whatsapp", plan[r].whole)
DispatchVoiceCall(r) == Dispatches(r, "place_call", "voice", TRUE)

(* A tag, an enrollment that stops, or nothing at all. *)
DispatchQuiet(r) ==
  /\ at[r] = "dispatch" /\ plan[r].tool \in Quiet
  /\ GoTo(r, "complete")
  /\ UNCHANGED <<world, limits, calls, plan, sent>>

(* dispatchAction throws, before the message is queued or after. *)
DispatchFails(r) ==
  /\ at[r] \in {"dispatch", "complete"}
  /\ GoTo(r, "failed")
  /\ UNCHANGED <<world, limits, calls, plan, sent>>

Complete(r) ==
  /\ at[r] = "complete"
  /\ GoTo(r, "completed")
  /\ UNCHANGED <<world, limits, calls, plan, sent>>

-----------------------------------------------------------------------------
RunStep(r) ==
  \/ LoadContext(r) \/ OtherVerdict(r)
  \/ AskModel(r) \/ InvalidAnswer(r) \/ ApiError(r) \/ SaveDecision(r)
  \/ ApprovalGate(r)
  \/ DispatchEmail(r) \/ DispatchWhatsApp(r) \/ DispatchVoiceCall(r) \/ DispatchQuiet(r)
  \/ DispatchFails(r) \/ Complete(r)

Next ==
  \/ EditControls \/ EditConsent \/ EditReach
  \/ \E r \in Runs : RunStep(r)

Spec == Init /\ [][Next]_vars

-----------------------------------------------------------------------------
(* Whatever the model answers, at the first or the second time, and whatever operators     *)
(* change meanwhile: a message that goes out is on the one channel that the saved plan     *)
(* names, its risk is below the threshold that the run loaded, a call that needs a person  *)
(* had none to fear, the channel was open if it is the one that the gate had looked at,    *)
(* and a run that completes without its message could not reach the contact or had nothing *)
(* to say (index.ts:116-182, llm-planner.ts:400-570, dispatcher.ts:151-330).               *)
ActsWithinLimits ==
  \A r \in Runs :
    LET l == limits[r]
        ch == CASE plan[r].tool = "send_email" -> "email"
                [] plan[r].tool = "send_whatsapp" -> "whatsapp"
                [] plan[r].tool = "place_call" -> "voice"
                [] OTHER -> "none"
    IN /\ sent[r] # {} =>
            /\ sent[r] = {ch} /\ plan[r].risk < l.threshold
            /\ ~(ch = "voice" /\ l.callsNeedApproval)
            /\ ch = IntendedChannel(r) =>
                 ch \notin l.revoked /\ (l.allowed = {} \/ ch \in l.allowed)
       /\ at[r] = "completed" /\ ch # "none" /\ sent[r] = {} =>
            ch \notin l.reach \/ (ch # "voice" /\ ~plan[r].whole)

(* policy-gate.ts:37: allowed_channels says "which outbound channels the agent may use.    *)
(* Empty = all allowed"; and policy-gate.ts:65 has the gate look at "the channel the LLM   *)
(* intends to use".                                                                        *)
OnlyAllowedChannels ==
  \A r \in Runs : limits[r].allowed # {} => sent[r] \subseteq limits[r].allowed
=============================================================================
