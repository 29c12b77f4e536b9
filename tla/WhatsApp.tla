------------------------------- MODULE WhatsApp -------------------------------
(***************************************************************************)
(* WhatsApp messages (icrv-whatsapp).  An outbound job is deduplicated by  *)
(* a marker in KV, which is read and then written, and precedes the work;  *)
(* an inbound webhook is not deduplicated: it is handled again whenever it *)
(* is delivered or retried.  The provider reports what became of a message *)
(* through webhooks of their own, late, out of order or twice.             *)
(***************************************************************************)
EXTENDS Integers, FiniteSets

CONSTANTS Deliveries,   \* deliveries of the one outbound job
          MaxInbound,   \* bound: times the inbound webhook is handled
          MaxAttempts,  \* MAX_ATTEMPTS of a retried payload (5)
          MaxReports,   \* bound: reports of the provider
          MaxFailures   \* bound: failures of a step, and revocations

VARIABLES
  marker,     \* the outbound job's marker in KV_IDEMP
  out,        \* where each outbound delivery is
  overlaps,   \* deliveries that found no marker while another was about to set it
  accepts,    \* times the provider took the message
  known,      \* provider_msg_id is in the row
  status,     \* status of the outbound messages row
  action,     \* status of its agent_actions row
  reports,    \* reports of the provider not yet handled
  reported,   \* reports made
  inbound,    \* where the consumer of the inbound webhook is
  tries,      \* times the inbound webhook is yet to be handled
  attempt,    \* attempt of its payload
  handled,    \* times it was begun
  stored,     \* inbound messages rows
  runs,       \* agent jobs they started
  failures

outVars == <<marker, out, overlaps, accepts, known, status, action>>
inVars  == <<inbound, tries, attempt, handled, stored, runs>>
vars    == <<outVars, reports, reported, inVars, failures>>

Reports == {"sent", "delivered", "read", "failed"}

TypeOK ==
  /\ marker \in BOOLEAN /\ known \in BOOLEAN
  /\ out \in [Deliveries -> {"queued", "mark", "rate", "check", "post", "record", "settle",
                             "done", "failing"}]
  /\ overlaps \in Nat /\ accepts \in Nat
  /\ status \in {"queued", "sending", "sent", "delivered", "failed"}
  /\ action \in {"executed", "revoked", "sent"}
  /\ reports \subseteq Reports /\ reported \in 0..MaxReports
  /\ inbound \in {"idle", "store", "run"}
  /\ tries \in Nat /\ attempt \in 1..MaxAttempts /\ handled \in 0..MaxInbound
  /\ stored \in Nat /\ runs \in Nat
  /\ failures \in 0..MaxFailures

Init ==
  /\ marker = FALSE /\ known = FALSE
  /\ out = [d \in Deliveries |-> "queued"]
  /\ overlaps = 0 /\ accepts = 0
  /\ status = "queued" /\ action = "executed"
  /\ reports = {} /\ reported = 0
  /\ inbound = "idle" /\ tries = 0 /\ attempt = 1 /\ handled = 0 /\ stored = 0 /\ runs = 0
  /\ failures = 0

GoOn(d, p) == out' = [out EXCEPT ![d] = p]
Fails      == failures < MaxFailures /\ failures' = failures + 1

-----------------------------------------------------------------------------
(* Outbound. *)

(* A delivery that finds the marker is acknowledged; the failure of one that set it is     *)
(* retried with the same payload, and so dropped here.                                     *)
ReadMarker(d) ==
  /\ out[d] = "queued"
  /\ GoOn(d, IF marker THEN "done" ELSE "mark")
  /\ overlaps' = IF marker THEN overlaps
                 ELSE overlaps + Cardinality({e \in Deliveries : out[e] = "mark"})
  /\ UNCHANGED <<marker, accepts, known, status, action, reports, reported, inVars, failures>>

MarksNothing(d) ==  \* mutant: the marker is not written
  /\ out[d] = "mark"
  /\ GoOn(d, "rate")
  /\ UNCHANGED <<marker, overlaps, accepts, known, status, action, reports, reported, inVars,
                 failures>>

SetMarker(d) ==
  /\ out[d] = "mark"
  /\ marker' = TRUE
  /\ GoOn(d, "rate")
  /\ UNCHANGED <<overlaps, accepts, known, status, action, reports, reported, inVars, failures>>

(* The rate limit lets it pass, or sends it back to the queue, where the marker drops it. *)
PassRate(d) ==
  /\ out[d] = "rate"
  /\ \/ GoOn(d, "check") /\ status' = "sending" /\ UNCHANGED failures
     \/ GoOn(d, "queued") /\ Fails /\ UNCHANGED status
  /\ UNCHANGED <<marker, overlaps, accepts, known, action, reports, reported, inVars>>

(* A revoked action fails the message; the retry of the failure finds the marker. *)
CheckRevoked(d) ==
  /\ out[d] = "check"
  /\ IF action = "revoked" THEN status' = "failed" /\ GoOn(d, "queued")
     ELSE UNCHANGED status /\ GoOn(d, "post")
  /\ UNCHANGED <<marker, overlaps, accepts, known, action, reports, reported, inVars, failures>>

(* The provider takes the message; or refuses it, and the row fails with its error. *)
PostMessage(d) ==
  /\ out[d] = "post"
  /\ \/ /\ accepts' = accepts + 1
        /\ GoOn(d, "record")
        /\ UNCHANGED <<status, failures>>
     \/ Fails /\ status' = "failed" /\ GoOn(d, "queued") /\ UNCHANGED accepts
  /\ UNCHANGED <<marker, overlaps, known, action, reports, reported, inVars>>

RecordSent(d) ==
  /\ out[d] = "record"
  /\ status' = "sent" /\ known' = TRUE
  /\ GoOn(d, "settle")
  /\ UNCHANGED <<marker, overlaps, accepts, action, reports, reported, inVars, failures>>

SettleAction(d) ==
  /\ out[d] = "settle"
  /\ action' = "sent"
  /\ GoOn(d, "done")
  /\ UNCHANGED <<marker, overlaps, accepts, known, status, reports, reported, inVars, failures>>

(* An exception or a crash: the job is delivered again, in vain. *)
OutDies(d) ==
  /\ out[d] \in {"mark", "rate", "check", "post", "record", "settle"}
  /\ Fails
  /\ GoOn(d, "queued")
  /\ UNCHANGED <<marker, overlaps, accepts, known, status, action, reports, reported, inVars>>

(* An operator revokes the action (control-panel.ts). *)
Revoke ==
  /\ action = "executed" /\ failures < MaxFailures
  /\ action' = "revoked" /\ failures' = failures + 1
  /\ UNCHANGED <<marker, out, overlaps, accepts, known, status, reports, reported, inVars>>

-----------------------------------------------------------------------------
(* Reports and inbound messages. *)

Report ==
  /\ accepts > 0 /\ reported < MaxReports
  /\ \E r \in Reports : reports' = reports \cup {r}
  /\ reported' = reported + 1
  /\ UNCHANGED <<outVars, inVars, failures>>

(* A report whose message is not known by its id yet is dropped; the others overwrite the  *)
(* status in the order they are handled.                                                   *)
HandleReport ==
  /\ \E r \in reports :
       /\ \/ reports' = reports \ {r}
          \/ UNCHANGED reports /\ status # r
       /\ status' = IF ~known THEN status ELSE IF r = "read" THEN "delivered" ELSE r
  /\ UNCHANGED <<marker, out, overlaps, accepts, known, action, reported, inVars, failures>>

(* POST /hooks/whatsapp: the provider posts the webhook again when it sees fit. *)
Receive ==
  /\ handled + tries < MaxInbound
  /\ tries' = tries + 1
  /\ UNCHANGED <<outVars, reports, reported, inbound, attempt, handled, stored, runs, failures>>

HandleInbound ==
  /\ inbound = "idle" /\ tries > 0
  /\ tries' = tries - 1 /\ handled' = handled + 1
  /\ inbound' = "store"
  /\ UNCHANGED <<outVars, reports, reported, attempt, stored, runs, failures>>

StoreInbound ==
  /\ inbound = "store"
  /\ stored' = stored + 1
  /\ inbound' = "run"
  /\ UNCHANGED <<outVars, reports, reported, tries, attempt, handled, runs, failures>>

StartRun ==
  /\ inbound = "run"
  /\ runs' = runs + 1
  /\ inbound' = "idle"
  /\ UNCHANGED <<outVars, reports, reported, tries, attempt, handled, stored, failures>>

(* A failure is retried from the start, up to the last attempt. *)
InboundFails ==
  /\ inbound # "idle"
  /\ Fails
  /\ inbound' = "idle"
  /\ IF attempt < MaxAttempts /\ handled + tries < MaxInbound
     THEN attempt' = attempt + 1 /\ tries' = tries + 1
     ELSE UNCHANGED <<attempt, tries>>
  /\ UNCHANGED <<outVars, reports, reported, handled, stored, runs>>

-----------------------------------------------------------------------------
OutStep(d) ==
  \/ ReadMarker(d) \/ SetMarker(d) \/ PassRate(d) \/ CheckRevoked(d) \/ PostMessage(d)
  \/ RecordSent(d) \/ SettleAction(d) \/ OutDies(d)

Next ==
  \/ \E d \in Deliveries : OutStep(d)
  \/ Revoke \/ Report \/ HandleReport
  \/ Receive \/ HandleInbound \/ StoreInbound \/ StartRun \/ InboundFails

Spec == Init /\ [][Next]_vars

-----------------------------------------------------------------------------
(* The provider gets a message once, through redeliveries, failures and retries, but for   *)
(* deliveries whose look at the marker overlapped; and whatever it reports, in whatever    *)
(* order, the row shows no delivery of a message that it never took (index.ts:38-45,       *)
(* 67-116, 187-200).                                                                       *)
SentOncePerMarker ==
  /\ accepts <= 1 + overlaps
  /\ status \in {"sent", "delivered"} => accepts > 0

(* An inbound message may be stored and answered once for each time its webhook is         *)
(* handled; a stored one is without its run only after a failure (index.ts:48-52, 160-185). *)
StoredIsAnswered ==
  /\ stored <= handled /\ runs <= stored
  /\ stored - runs <= failures + (IF inbound = "run" THEN 1 ELSE 0)
=============================================================================
