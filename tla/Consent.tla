------------------------------- MODULE Consent -------------------------------
(***************************************************************************)
(* The e-mail consent of one contact: who writes it, and the marketing     *)
(* mail that reads it.  Operators write it one by one, in bulk, by import, *)
(* by cleaning bounces and by consent requests (icrv-api); the contact     *)
(* writes it through consent links (icrv-api) and through unsubscribe      *)
(* links, which come in two kinds: those of icrv-api revoke the consent,   *)
(* those of icrv-hooks suppress the address besides.                       *)
(*                                                                         *)
(* A run of the agent reads consent and suppression when it loads its      *)
(* context; nothing reads them again before the mail is sent.              *)
(***************************************************************************)
EXTENDS Integers, FiniteSets

CONSTANTS Edits,        \* requests of operators
          Clicks,       \* answers to consent requests
          Mails,        \* marketing mails, each the outcome of one run of the agent
          MaxRequests,  \* bound: consent requests
          MaxUnsubs     \* bound: unsubscribe links followed

VARIABLES
  exists,      \* the contacts row is there
  consent,     \* consent_state, or "absent" without a consents row
  liveToken,   \* request_token of the row: the number of a request, or 0
  requests,    \* consent requests made: their tokens are 1..requests
  suppressed,  \* a suppressions row is there
  unsubs,      \* unsubscribe links followed
  halfway,     \* of those on icrv-hooks, the ones that have not suppressed the address yet
  edit,        \* where each request of an operator is
  click,       \* where each answer is
  token,       \* the token each answer carries
  mail,        \* where each marketing mail is
  stale,       \* mails whose run had read the consent before the contact opted out
  late,        \* mails sent to a contact that had opted out
  dead,        \* answers that came when a newer request had replaced their token
  answered     \* answers that were written to the row

contact == <<exists, consent, liveToken, requests, suppressed>>
vars == <<contact, unsubs, halfway, edit, click, token, mail, stale, late, dead, answered>>

States == {"absent", "none", "granted", "revoked"}

TypeOK ==
  /\ exists \in BOOLEAN /\ suppressed \in BOOLEAN
  /\ consent \in States
  /\ liveToken \in 0..MaxRequests /\ requests \in 0..MaxRequests
  /\ unsubs \in 0..MaxUnsubs /\ halfway \in 0..MaxUnsubs
  /\ edit \in [Edits -> {"start", "upsert", "cascade", "clean", "done"}]
  /\ click \in [Clicks -> {"none", "checked", "done"}]
  /\ token \in [Clicks -> 0..MaxRequests]
  /\ mail \in [Mails -> {"idle", "cleared", "blocked", "sent"}]
  /\ stale \subseteq Mails /\ late \subseteq Mails
  /\ dead \subseteq Clicks /\ answered \subseteq Clicks

Init ==
  /\ exists = TRUE /\ consent = "absent" /\ liveToken = 0 /\ requests = 0
  /\ suppressed = FALSE /\ unsubs = 0 /\ halfway = 0
  /\ edit = [e \in Edits |-> "start"]
  /\ click = [k \in Clicks |-> "none"] /\ token = [k \in Clicks |-> 0]
  /\ mail = [m \in Mails |-> "idle"]
  /\ stale = {} /\ late = {} /\ dead = {} /\ answered = {}

OptedOut == consent = "revoked" \/ suppressed

(* The upsert that all writers share: ON CONFLICT(tenant_id, contact_id, channel).  Mails  *)
(* cleared before an opt-out are sent in spite of it.                                      *)
Cleared   == {m \in Mails : mail[m] = "cleared"}
OutdatesRuns == stale' = stale \cup Cleared

Record(state) ==
  /\ consent' = state
  /\ IF state = "revoked" THEN OutdatesRuns ELSE UNCHANGED stale

actors == <<unsubs, halfway, edit, click, token, mail, late, dead, answered>>

-----------------------------------------------------------------------------
(* Operators. *)

GoOn(e, p) == edit' = [edit EXCEPT ![e] = p]

(* PUT /v1/contacts/:id and an import's row write the contact first.  The bulk action is   *)
(* given ids it does not look up.  POST is a PUT to a contact that is new.                 *)
EditContact(e) ==
  /\ edit[e] = "start"
  /\ \/ GoOn(e, "upsert")
     \/ ~exists /\ GoOn(e, "done")
  /\ UNCHANGED <<contact, unsubs, halfway, click, token, mail, stale, late, dead, answered>>

(* A form, a bulk action or a file may carry either state, however old it is. *)
UpsertConsent(e) ==
  /\ edit[e] = "upsert"
  /\ \E state \in {"granted", "revoked"} : Record(state)
  /\ GoOn(e, "done")
  /\ UNCHANGED <<exists, liveToken, requests, suppressed>>
  /\ UNCHANGED <<unsubs, halfway, click, token, mail, late, dead, answered>>

(* DELETE /v1/contacts/:id leaves the consent; the bulk action deletes it next. *)
DeleteContact(e) ==
  /\ edit[e] = "start" /\ exists
  /\ exists' = FALSE
  /\ \/ GoOn(e, "done")
     \/ GoOn(e, "cascade")
  /\ UNCHANGED <<consent, liveToken, requests, suppressed>>
  /\ UNCHANGED <<unsubs, halfway, click, token, mail, stale, late, dead, answered>>

CascadeDelete(e) ==
  /\ edit[e] = "cascade"
  /\ consent' = "absent" /\ liveToken' = 0
  /\ GoOn(e, "done")
  /\ UNCHANGED <<exists, requests, suppressed>>
  /\ UNCHANGED <<unsubs, halfway, click, token, mail, stale, late, dead, answered>>

(* POST /v1/bounces/clean: the contacts whose bounces reached the threshold, and then one  *)
(* upsert for each.                                                                        *)
ListBouncers(e) ==
  /\ edit[e] = "start" /\ exists
  /\ GoOn(e, "clean")
  /\ UNCHANGED <<contact, unsubs, halfway, click, token, mail, stale, late, dead, answered>>

CleanBouncer(e) ==
  /\ edit[e] = "clean"
  /\ Record("revoked")
  /\ GoOn(e, "done")
  /\ UNCHANGED <<exists, liveToken, requests, suppressed>>
  /\ UNCHANGED <<unsubs, halfway, click, token, mail, late, dead, answered>>

(* POST /v1/contacts/consent-request: a token of its own replaces the one before.  The ids *)
(* of the filter are not looked at, so every contact with an address is asked; its mail is *)
(* transactional and asks no gate.                                                         *)
RequestConsent ==
  /\ exists /\ requests < MaxRequests
  /\ requests' = requests + 1 /\ liveToken' = requests'
  /\ consent' = IF consent \in {"granted", "revoked"} THEN consent ELSE "none"
  /\ UNCHANGED <<exists, suppressed, stale, actors>>

-----------------------------------------------------------------------------
(* The contact. *)

(* GET /consent/:token: the token must be the live one, or the row have none. *)
Superseded(t) == consent = "absent" \/ (liveToken # 0 /\ liveToken # t)

AnswersAny(k) ==  \* mutant: the token is verified but not compared with the row's
  /\ click[k] = "none"
  /\ \E t \in 1..requests :
       /\ token' = [token EXCEPT ![k] = t]
       /\ dead' = IF t < requests THEN dead \cup {k} ELSE dead
       /\ click' = [click EXCEPT ![k] = "checked"]
  /\ UNCHANGED <<contact, unsubs, halfway, edit, mail, stale, late, answered>>

AnswerRequest(k) ==
  /\ click[k] = "none"
  /\ \E t \in 1..requests :
       /\ token' = [token EXCEPT ![k] = t]
       /\ dead' = IF t < requests THEN dead \cup {k} ELSE dead
       /\ click' = [click EXCEPT ![k] = IF Superseded(t) THEN "done" ELSE "checked"]
  /\ UNCHANGED <<contact, unsubs, halfway, edit, mail, stale, late, answered>>

(* Neither the token nor the state is compared again; the webhooks are best effort. *)
RecordAnswer(k) ==
  /\ click[k] = "checked"
  /\ \E state \in {"granted", "revoked"} : Record(state)
  /\ click' = [click EXCEPT ![k] = "done"]
  /\ answered' = IF exists THEN answered \cup {k} ELSE answered
  /\ UNCHANGED <<exists, liveToken, requests, suppressed>>
  /\ UNCHANGED <<unsubs, halfway, edit, token, mail, late, dead>>

Unsubscribes(begun) ==
  /\ unsubs < MaxUnsubs
  /\ unsubs' = unsubs + 1
  /\ Record("revoked")
  /\ halfway' = halfway + begun
  /\ UNCHANGED <<exists, liveToken, requests, suppressed>>
  /\ UNCHANGED <<edit, click, token, mail, late, dead, answered>>

(* GET /unsubscribe of icrv-api revokes the consent of a contact, also of one that is      *)
(* gone, and writes an audit event; it suppresses nothing.                                 *)
HandleUnsubscribe == Unsubscribes(0)

(* That of icrv-hooks goes on to suppress the address. *)
ProcessUnsubscribe == Unsubscribes(1)

(* One row for each time the link is followed; an invocation may die before. *)
Suppress ==
  /\ halfway > 0
  /\ halfway' = halfway - 1
  /\ \/ suppressed' = TRUE /\ OutdatesRuns
     \/ UNCHANGED <<suppressed, stale>>
  /\ UNCHANGED <<exists, consent, liveToken, requests>>
  /\ UNCHANGED <<unsubs, edit, click, token, mail, late, dead, answered>>

-----------------------------------------------------------------------------
(* Marketing mail. *)

IgnoresSuppression(m) ==  \* mutant: no look at the suppressions
  /\ mail[m] = "idle"
  /\ mail' = [mail EXCEPT ![m] = IF ~exists \/ consent = "revoked" THEN "blocked" ELSE "cleared"]
  /\ UNCHANGED <<contact, unsubs, halfway, edit, click, token, stale, late, dead, answered>>

(* loadRunContext fails without the contact; the gate blocks a revoked consent, not one    *)
(* that was never given, and a suppressed address.                                         *)
LoadContext(m) ==
  /\ mail[m] = "idle"
  /\ mail' = [mail EXCEPT ![m] = IF ~exists \/ OptedOut THEN "blocked" ELSE "cleared"]
  /\ UNCHANGED <<contact, unsubs, halfway, edit, click, token, stale, late, dead, answered>>

SendMail(m) ==
  /\ mail[m] = "cleared"
  /\ mail' = [mail EXCEPT ![m] = "sent"]
  /\ late' = IF OptedOut THEN late \cup {m} ELSE late
  /\ UNCHANGED <<contact, unsubs, halfway, edit, click, token, stale, dead, answered>>

-----------------------------------------------------------------------------
OperatorStep(e) ==
  \/ EditContact(e) \/ UpsertConsent(e) \/ DeleteContact(e) \/ CascadeDelete(e)
  \/ ListBouncers(e) \/ CleanBouncer(e)

Next ==
  \/ \E e \in Edits : OperatorStep(e)
  \/ RequestConsent
  \/ \E k \in Clicks : AnswerRequest(k) \/ RecordAnswer(k)
  \/ HandleUnsubscribe \/ ProcessUnsubscribe \/ Suppress
  \/ \E m \in Mails : LoadContext(m) \/ SendMail(m)

Spec == Init /\ [][Next]_vars

-----------------------------------------------------------------------------
(* A contact that has opted out, by whichever of the ways, gets no marketing mail but      *)
(* those whose run had read the consent before: however forms, files, links and requests   *)
(* overlap (policy-gate.ts:161-169, context-loader.ts:150-154, 182-188).                   *)
LateMailWasCleared == late \subseteq stale

(* The answer through a link that a newer request has replaced is never written to the     *)
(* consent of a contact that is there: "this protects against replay after a re-request"   *)
(* (public.ts:222-230).                                                                    *)
SupersededLinksDead == dead \cap answered = {}
=============================================================================
