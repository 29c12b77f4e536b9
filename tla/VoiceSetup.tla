----------------------------- MODULE VoiceSetup -----------------------------
(***************************************************************************)
(* What an admin may run again and again to provision a tenant, each       *)
(* resource unless a look-up finds it.                                     *)
(*                                                                         *)
(* POST /v1/admin/bootstrap-credentials first has icrv-voice create the    *)
(* ElevenLabs credential, the ElevenLabs agent, the RingCentral credential *)
(* and the RingCentral webhook (handleBootstrap), and then looks for the   *)
(* RingCentral credential and a webhook subscription itself, under a KV    *)
(* key of its own (misc.ts).  POST /v1/admin/bootstrap-templates seeds one *)
(* template per channel.  The agent and the subscriptions live at the      *)
(* vendor (external); KV_CONFIG only remembers their ids, a separate write *)
(* after they are created.                                                 *)
(***************************************************************************)
EXTENDS Integers, Sequences, FiniteSets

CONSTANTS Runs,        \* requests to either endpoint
          MaxFailures  \* bound: vendor refusals, and requests or icrv-voice that die

VARIABLES
  at,       \* the stage each run is at, 0 before its start
  step,     \* what it does there: "look", "create", or "remember" the id in KV
  known,    \* resources that a look-up finds
  made,     \* how often each resource was created
  races,    \* runs that looked a resource up while another was about to create it
  failures

vars == <<at, step, known, made, races, failures>>

VoiceStages     == <<"el_credential", "el_agent", "rc_credential", "rc_webhook">>
ApiStages       == <<"rc_credential", "rc_subscription">>
TemplateStages  == <<"email_template", "whatsapp_template", "voice_template">>
Stages          == VoiceStages \o ApiStages \o TemplateStages
Ends            == {Len(VoiceStages \o ApiStages), Len(Stages)}
Done            == Len(Stages) + 1

Resources == {Stages[i] : i \in 1..Len(Stages)}
Vendor    == {"el_agent", "rc_webhook", "rc_subscription"}
Active(b) == at[b] \in 1..Len(Stages)

TypeOK ==
  /\ at \in [Runs -> 0..Done]
  /\ step \in [Runs -> {"look", "create", "remember"}]
  /\ known \subseteq Resources
  /\ made \in [Resources -> Nat] /\ races \in [Resources -> Nat]
  /\ failures \in 0..MaxFailures

Init ==
  /\ at = [b \in Runs |-> 0] /\ step = [b \in Runs |-> "look"]
  /\ known = {} /\ made = [r \in Resources |-> 0]
  /\ races = [r \in Resources |-> 0] /\ failures = 0

After(i)    == IF i \in Ends THEN Done ELSE i + 1
Enter(b, i) == at' = [at EXCEPT ![b] = i] /\ step' = [step EXCEPT ![b] = "look"]
Fails       == failures < MaxFailures /\ failures' = failures + 1

Creating(r) == {b \in Runs : Active(b) /\ Stages[at[b]] = r /\ step[b] # "look"}

Start(b) ==
  /\ at[b] = 0
  /\ \/ Enter(b, 1)
     \/ Enter(b, Len(VoiceStages \o ApiStages) + 1)
  /\ UNCHANGED <<known, made, races, failures>>

CreatesAnyway(b) ==  \* mutant: what is there is not looked up
  /\ Active(b) /\ step[b] = "look"
  /\ step' = [step EXCEPT ![b] = "create"]
  /\ races' = [races EXCEPT ![Stages[at[b]]] = @ + Cardinality(Creating(Stages[at[b]]))]
  /\ UNCHANGED <<at, known, made, failures>>

LookUp(b) ==
  /\ Active(b) /\ step[b] = "look"
  /\ LET r == Stages[at[b]] IN
     IF r \in known
     THEN Enter(b, After(at[b])) /\ UNCHANGED races
     ELSE /\ step' = [step EXCEPT ![b] = "create"]
          /\ races' = [races EXCEPT ![r] = @ + Cardinality(Creating(r))]
          /\ UNCHANGED at
  /\ UNCHANGED <<known, made, failures>>

Make(r) == made' = [made EXCEPT ![r] = @ + 1]

(* A row that the next look-up finds: INSERT INTO api_credentials, INSERT INTO templates. *)
InsertRow(b) ==
  /\ Active(b) /\ Stages[at[b]] \notin Vendor /\ step[b] = "create"
  /\ Make(Stages[at[b]])
  /\ known' = known \cup {Stages[at[b]]}
  /\ Enter(b, After(at[b]))
  /\ UNCHANGED <<races, failures>>

CreateAtVendor(b) ==
  /\ Active(b) /\ Stages[at[b]] \in Vendor /\ step[b] = "create"
  /\ Make(Stages[at[b]])
  /\ step' = [step EXCEPT ![b] = "remember"]
  /\ UNCHANGED <<at, known, races, failures>>

(* The vendor refuses, or the RingCentral JWT has no client id and secret: the run notes it *)
(* among its results and goes on.                                                           *)
VendorRefuses(b) ==
  /\ Active(b) /\ Stages[at[b]] \in Vendor /\ step[b] = "create"
  /\ Fails
  /\ Enter(b, After(at[b]))
  /\ UNCHANGED <<known, made, races>>

RememberId(b) ==
  /\ step[b] = "remember"
  /\ known' = known \cup {Stages[at[b]]}
  /\ Enter(b, After(at[b]))
  /\ UNCHANGED <<made, races, failures>>

(* icrv-voice dies: its error is noted among the results, and icrv-api goes on. *)
VoiceDies(b) ==
  /\ at[b] \in 1..Len(VoiceStages)
  /\ Fails
  /\ Enter(b, Len(VoiceStages) + 1)
  /\ UNCHANGED <<known, made, races>>

RunDies(b) ==
  /\ Active(b)
  /\ Fails
  /\ Enter(b, Done)
  /\ UNCHANGED <<known, made, races>>

Next ==
  \E b \in Runs :
    \/ Start(b) \/ LookUp(b) \/ InsertRow(b) \/ CreateAtVendor(b)
    \/ VendorRefuses(b) \/ RememberId(b) \/ VoiceDies(b) \/ RunDies(b)

Spec == Init /\ [][Next]_vars

-----------------------------------------------------------------------------
(* "Idempotent" (icrv-voice index.ts:278, misc.ts:313, 688): however often they run, a      *)
(* resource is created once, and again only for each run that looked while another was      *)
(* creating it, or after a run died between creating it and remembering its id.             *)
ProvisionedOnce ==
  \A r \in Resources : made[r] <= 1 + races[r] + failures
=============================================================================
