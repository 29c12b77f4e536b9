---------------------------- MODULE CampaignForm -----------------------------
(***************************************************************************)
(* The form that creates a campaign (CampaignForm in Campaigns.tsx) and    *)
(* the handlers of icrv-api it calls: POST /v1/templates for an inline     *)
(* template, and POST /v1/campaigns, which inserts the campaign and then   *)
(* its steps one by one under a unique index of their numbers.             *)
(*                                                                         *)
(* A credential is known by the channel it is for; which templates are     *)
(* picked is left out.                                                     *)
(***************************************************************************)
EXTENDS Integers, Sequences, FiniteSets

CONSTANTS Submits,    \* clicks on Create Campaign
          Channels,   \* "email" and others
          Connected,  \* channels with a connected credential
          MaxSteps,   \* bound: steps in the form
          MaxEdits,   \* bound: changes of channel and steps taken out
          MaxFailures \* bound: requests that fail or die

VARIABLES
  channel,    \* form.channel
  steps,      \* form.steps
  bound,      \* stepForm.credential_id, by its channel
  loaded,     \* whether the integrations are known
  loads,      \* channels whose templates are being loaded, with the integrations
  open,       \* the form is open
  saving,     \* its button is disabled
  submit,     \* where each click is
  payload,    \* the steps it carries
  stored,     \* campaign_steps of the campaign it has created
  edits, removed, doubled, failures  \* removed: a step was taken out; doubled: clicks while
                                     \* another was creating its inline template

vars == <<channel, steps, bound, loaded, loads, open, saving, submit,
          payload, stored, edits, removed, doubled, failures>>
server == <<submit, payload, stored, saving, open>>
counts == <<edits, removed, doubled, failures>>

None     == "none"
Places   == {"idle", "template", "insert", "steps", "created", "failed"}
Step     == [index : 0..(MaxSteps - 1), channel : Channels, credential : Channels]

TypeOK ==
  /\ channel \in Channels /\ bound \in Channels \cup {None}
  /\ steps \in Seq(Step) /\ Len(steps) <= MaxSteps
  /\ loaded \in BOOLEAN /\ loads \subseteq Channels
  /\ open \in BOOLEAN /\ saving \in BOOLEAN
  /\ submit \in [Submits -> Places]
  /\ payload \in [Submits -> Seq(Step)] /\ stored \in [Submits -> Seq(Step)]
  /\ edits \in 0..MaxEdits /\ removed \in BOOLEAN
  /\ doubled \in Nat /\ failures \in 0..MaxFailures

Init ==
  /\ channel = "email" /\ steps = <<>> /\ bound = None
  /\ loaded = FALSE /\ loads = {"email"}
  /\ open = TRUE /\ saving = FALSE
  /\ submit = [s \in Submits |-> "idle"]
  /\ payload = [s \in Submits |-> <<>>] /\ stored = [s \in Submits |-> <<>>]
  /\ edits = 0 /\ removed = FALSE /\ doubled = 0 /\ failures = 0

-----------------------------------------------------------------------------
(* The form. *)

(* credentialForChannel, once the integrations are known. *)
CredentialFor(ch, known) == IF known /\ ch \in Connected THEN ch ELSE None

KeepsCredential(ch) ==  \* mutant: the effect does not depend on the channel
  /\ open /\ ch # channel
  /\ edits < MaxEdits /\ edits' = edits + 1
  /\ channel' = ch /\ loads' = loads \cup {ch}
  /\ UNCHANGED <<steps, bound, loaded, server, removed, doubled, failures>>

(* The effect that binds the credential runs when the channel or the integrations change. *)
SetChannel(ch) ==
  /\ open /\ ch # channel
  /\ edits < MaxEdits /\ edits' = edits + 1
  /\ channel' = ch /\ loads' = loads \cup {ch}
  /\ bound' = CredentialFor(ch, loaded)
  /\ UNCHANGED <<steps, loaded, server, removed, doubled, failures>>

(* The templates of a channel, with the integrations: the last answer stays. *)
Loaded(ch) ==
  /\ open /\ ch \in loads
  /\ loads' = loads \ {ch} /\ loaded' = TRUE
  /\ bound' = CredentialFor(channel, TRUE)
  /\ UNCHANGED <<channel, steps, server, counts>>

LoadFails(ch) ==
  /\ open /\ ch \in loads
  /\ failures < MaxFailures /\ failures' = failures + 1
  /\ loads' = loads \ {ch}
  /\ UNCHANGED <<channel, steps, bound, loaded, server, edits, removed, doubled>>

CountsFromOne ==  \* mutant: the first step is number 1
  /\ open /\ bound # None /\ Len(steps) < MaxSteps - 1
  /\ steps' = Append(steps, [index |-> Len(steps) + 1, channel |-> channel, credential |-> bound])
  /\ bound' = None
  /\ UNCHANGED <<channel, loaded, loads, server, counts>>

(* The step form is cleared with its credential, which nothing binds again but a change of *)
(* the channel or of the integrations.                                                     *)
AddStep ==
  /\ open /\ bound # None /\ Len(steps) < MaxSteps
  /\ steps' = Append(steps, [index |-> Len(steps), channel |-> channel, credential |-> bound])
  /\ bound' = None
  /\ UNCHANGED <<channel, loaded, loads, server, counts>>

(* The steps behind it keep their numbers. *)
RemoveStep(i) ==
  /\ open /\ edits < MaxEdits /\ edits' = edits + 1
  /\ steps' = SubSeq(steps, 1, i - 1) \o SubSeq(steps, i + 1, Len(steps))
  /\ removed' = TRUE
  /\ UNCHANGED <<channel, bound, loaded, loads, server, doubled, failures>>

-----------------------------------------------------------------------------
form == <<channel, steps, bound, loaded, loads>>

Creating == {s \in Submits : submit[s] = "template"}

SubmitsAgain(s) ==  \* mutant: the button stays enabled
  /\ open /\ submit[s] = "idle" /\ steps # <<>>
  /\ submit' = [submit EXCEPT ![s] = "insert"]
  /\ payload' = [payload EXCEPT ![s] = steps]
  /\ saving' = TRUE /\ doubled' = doubled + Cardinality(Creating)
  /\ UNCHANGED <<form, stored, open, edits, removed, failures>>

(* handleSubmit: with steps the button is disabled at once, with an inline template only *)
(* when that has been created.                                                           *)
SubmitSteps(s) ==
  /\ open /\ ~saving /\ submit[s] = "idle" /\ steps # <<>>
  /\ submit' = [submit EXCEPT ![s] = "insert"]
  /\ payload' = [payload EXCEPT ![s] = steps]
  /\ saving' = TRUE /\ doubled' = doubled + Cardinality(Creating)
  /\ UNCHANGED <<form, stored, open, edits, removed, failures>>

SubmitInline(s) ==
  /\ open /\ ~saving /\ submit[s] = "idle" /\ steps = <<>> /\ channel = "email"
  /\ CredentialFor("email", loaded) = "email"
  /\ submit' = [submit EXCEPT ![s] = "template"]
  /\ payload' = [payload EXCEPT ![s] = <<[index |-> 0, channel |-> "email", credential |-> "email"]>>]
  /\ doubled' = doubled + Cardinality(Creating)
  /\ UNCHANGED <<form, stored, open, saving, edits, removed, failures>>

TemplateCreated(s) ==
  /\ submit[s] = "template"
  /\ submit' = [submit EXCEPT ![s] = "insert"] /\ saving' = TRUE
  /\ UNCHANGED <<form, payload, stored, open, counts>>

(* POST /v1/campaigns, which is over when every step is stored. *)
InsertCampaign(s) ==
  /\ submit[s] = "insert"
  /\ submit' = [submit EXCEPT ![s] = "steps"]
  /\ UNCHANGED <<form, payload, stored, open, saving, counts>>

Taken(s) == {stored[s][i].index : i \in 1..Len(stored[s])}
Rest(s)  == SubSeq(payload[s], Len(stored[s]) + 1, Len(payload[s]))

InsertStep(s) ==
  /\ submit[s] = "steps" /\ Rest(s) # <<>>
  /\ Head(Rest(s)).index \notin Taken(s)
  /\ stored' = [stored EXCEPT ![s] = Append(@, Head(Rest(s)))]
  /\ UNCHANGED <<form, payload, submit, open, saving, counts>>

(* The answer closes the form. *)
Created(s) ==
  /\ submit[s] = "steps" /\ Rest(s) = <<>>
  /\ submit' = [submit EXCEPT ![s] = "created"]
  /\ open' = FALSE /\ saving' = FALSE
  /\ UNCHANGED <<form, payload, stored, counts>>

Refused(s) ==
  /\ submit' = [submit EXCEPT ![s] = "failed"]
  /\ saving' = FALSE
  /\ UNCHANGED <<form, payload, stored, open, edits, removed, doubled>>

(* The number of the step is taken: the request fails, the campaign and its steps stay. *)
NumberTaken(s) ==
  /\ submit[s] = "steps" /\ Rest(s) # <<>>
  /\ Head(Rest(s)).index \in Taken(s)
  /\ Refused(s) /\ UNCHANGED failures

RequestFails(s) ==
  /\ submit[s] \in {"template", "insert", "steps"}
  /\ failures < MaxFailures /\ failures' = failures + 1
  /\ Refused(s)

Close ==
  /\ open /\ open' = FALSE
  /\ UNCHANGED <<form, submit, payload, stored, saving, counts>>

SubmitStep(s) ==
  \/ SubmitSteps(s) \/ SubmitInline(s) \/ TemplateCreated(s) \/ InsertCampaign(s)
  \/ InsertStep(s) \/ Created(s) \/ NumberTaken(s) \/ RequestFails(s)

Next ==
  \/ \E ch \in Channels : SetChannel(ch) \/ Loaded(ch) \/ LoadFails(ch)
  \/ AddStep \/ Close
  \/ \E i \in 1..Len(steps) : RemoveStep(i)
  \/ \E s \in Submits : SubmitStep(s)

Spec == Init /\ [][Next]_vars

-----------------------------------------------------------------------------
(* A campaign whose creation was answered has the steps of the form, numbered from 0 on as  *)
(* the launch and the ticks count them, unless a step was taken out of the form             *)
(* (Campaigns.tsx:107-125, 259, campaigns.ts:90-96).                                        *)
StepsAreNumbered ==
  \A s \in Submits : submit[s] = "created" =>
    /\ stored[s] = payload[s]
    /\ removed \/ \A i \in 1..Len(stored[s]) : stored[s][i].index = i - 1

(* A step is sent from a credential of its own channel, however the channel was changed and *)
(* in whatever order the lists have come (Campaigns.tsx:80-105).                            *)
CredentialsFit ==
  \A s \in Submits : \A i \in 1..Len(stored[s]) :
    stored[s][i].credential = stored[s][i].channel

(* A form creates one campaign, and another only for each request that failed, which may    *)
(* have left its campaign behind, and for each click while an inline template was being     *)
(* created (Campaigns.tsx:127-187).                                                         *)
OneCampaignPerForm ==
  Cardinality({s \in Submits : submit[s] # "idle"})
    <= 1 + Cardinality({s \in Submits : submit[s] = "failed"}) + doubled
=============================================================================
