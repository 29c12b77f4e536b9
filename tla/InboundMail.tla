----------------------------- MODULE InboundMail -----------------------------
(***************************************************************************)
(* Mail that comes into a Gmail account.  Google pushes a notification     *)
(* with the history id the mailbox had reached (icrv-hooks, late, out of   *)
(* order or twice); the consumer lists what came since the history id it   *)
(* keeps in KV, stores each reply and starts a run of the agent, or counts *)
(* a bounce (icrv-consumer processGmailPush).                              *)
(*                                                                         *)
(* Mail m arrives with history id m.  A job is one email_in payload; it is *)
(* handled once, since its marker is set first: a job that dies is dropped *)
(* when the queue redelivers it.                                           *)
(***************************************************************************)
EXTENDS Integers, FiniteSets

CONSTANTS Jobs,        \* email_in payloads, one for each push that is received
          Replies,     \* mails of known contacts, as history ids
          Bounces,     \* delivery status notifications
          LastMail,    \* bound: mails 1..LastMail come in
          PageSize,    \* messages the first listing returns (5)
          MaxFailures  \* bound: listings and fetches that fail, jobs that die

VARIABLES
  arrived,    \* history id of the mailbox
  watermark,  \* gmail_last_history:* in KV_CONFIG; 0 if there is none
  job,        \* where each job is
  pushed,     \* history_id of each job
  since,      \* the watermark each job has read
  todo,       \* mails each job has listed and not looked at
  mail,       \* the mail each job is working on, or 0
  stored,     \* inbound rows in messages for each mail
  replyRuns,  \* agent jobs sent for each mail
  counted,    \* times each bounce was counted in contacts.bounce_count
  overlaps,   \* times a job looked for a mail that another was about to store
  passed,     \* mails a job went past: listing or fetch failed, or beyond the first page
  failures

vars == <<arrived, watermark, job, pushed, since, todo, mail, stored, replyRuns, counted,
          overlaps, passed, failures>>

Mails == 1..LastMail
Working == {"check", "fetch", "insert", "run"}

TypeOK ==
  /\ arrived \in 0..LastMail /\ watermark \in 0..LastMail
  /\ job \in [Jobs -> {"none", "queued", "read", "list", "put", "done", "dropped"} \cup Working]
  /\ pushed \in [Jobs -> 0..LastMail] /\ since \in [Jobs -> 0..LastMail]
  /\ todo \in [Jobs -> SUBSET Mails] /\ mail \in [Jobs -> 0..LastMail]
  /\ stored \in [Mails -> Nat] /\ replyRuns \in [Mails -> Nat] /\ counted \in [Mails -> Nat]
  /\ overlaps \in [Mails -> Nat]
  /\ passed \subseteq Mails /\ failures \in 0..MaxFailures

Init ==
  /\ arrived = 0 /\ watermark = 0
  /\ job = [j \in Jobs |-> "none"]
  /\ pushed = [j \in Jobs |-> 0] /\ since = [j \in Jobs |-> 0]
  /\ todo = [j \in Jobs |-> {}] /\ mail = [j \in Jobs |-> 0]
  /\ stored = [m \in Mails |-> 0] /\ replyRuns = [m \in Mails |-> 0]
  /\ counted = [m \in Mails |-> 0]
  /\ overlaps = [m \in Mails |-> 0]
  /\ passed = {} /\ failures = 0

GoOn(j, p) == job' = [job EXCEPT ![j] = p]
Fails      == failures < MaxFailures /\ failures' = failures + 1

effects == <<stored, replyRuns, counted>>

-----------------------------------------------------------------------------
(* Gmail: a mail comes in. *)
Arrive ==
  /\ arrived < LastMail
  /\ arrived' = arrived + 1
  /\ UNCHANGED <<watermark, job, pushed, since, todo, mail, effects, overlaps, passed, failures>>

(* POST /hooks/gmail/push, at any time after its history id was reached. *)
Push(j) ==
  /\ job[j] = "none"
  /\ \E h \in 1..arrived : pushed' = [pushed EXCEPT ![j] = h]
  /\ GoOn(j, "queued")
  /\ UNCHANGED <<arrived, watermark, since, todo, mail, effects, overlaps, passed, failures>>

(* The marker is set and the token fetched; an account that is not active, or whose      *)
(* rotator has no token, ends the job with nothing done.                                 *)
Begin(j) ==
  /\ job[j] = "queued"
  /\ \/ GoOn(j, "read") /\ UNCHANGED failures
     \/ GoOn(j, "dropped") /\ Fails
  /\ UNCHANGED <<arrived, watermark, pushed, since, todo, mail, effects, overlaps, passed>>

ReadWatermark(j) ==
  /\ job[j] = "read"
  /\ since' = [since EXCEPT ![j] = watermark]
  /\ GoOn(j, "list")
  /\ UNCHANGED <<arrived, watermark, pushed, todo, mail, effects, overlaps, passed, failures>>

(* users.history since the watermark; with none, or one equal to the push's, the inbox's *)
(* first page.                                                                           *)
Listed(j) ==
  IF since[j] # 0 /\ since[j] # pushed[j] THEN (since[j] + 1)..arrived
  ELSE {m \in Mails : m <= arrived /\ m > arrived - PageSize}

(* A first page with no watermark passes over the older mail of the inbox. *)
Beyond(j) == IF since[j] = 0 THEN 1..arrived \ Listed(j) ELSE {}

ListThenPut(j) ==  \* mutant: the watermark is put before the mails are handled
  /\ job[j] = "list"
  /\ todo' = [todo EXCEPT ![j] = Listed(j)]
  /\ passed' = passed \cup Beyond(j)
  /\ watermark' = pushed[j]
  /\ GoOn(j, "check")
  /\ UNCHANGED <<arrived, pushed, since, mail, effects, overlaps, failures>>

ListMails(j) ==
  /\ job[j] = "list"
  /\ todo' = [todo EXCEPT ![j] = Listed(j)]
  /\ passed' = passed \cup Beyond(j)
  /\ GoOn(j, "check")
  /\ UNCHANGED <<arrived, watermark, pushed, since, mail, effects, overlaps, failures>>

(* The listing is not ok: nothing to do, and the watermark is put all the same. *)
ListFails(j) ==
  /\ job[j] = "list"
  /\ Fails
  /\ passed' = passed \cup ((since[j] + 1)..arrived)
  /\ GoOn(j, "put")
  /\ UNCHANGED <<arrived, watermark, pushed, since, todo, mail, effects, overlaps>>

-----------------------------------------------------------------------------
(* The loop over the listed mails. *)

ChecksNothing(j) ==  \* mutant: no look at messages
  /\ job[j] = "check"
  /\ \E m \in todo[j] :
       /\ todo' = [todo EXCEPT ![j] = @ \ {m}]
       /\ mail' = [mail EXCEPT ![j] = m]
       /\ GoOn(j, "fetch")
  /\ UNCHANGED <<arrived, watermark, pushed, since, effects, overlaps, passed, failures>>

(* Is the mail in messages already?  No unique index backs this check. *)
CheckStored(j) ==
  /\ job[j] = "check"
  /\ \E m \in todo[j] :
       /\ todo' = [todo EXCEPT ![j] = @ \ {m}]
       /\ \/ stored[m] > 0 /\ UNCHANGED <<job, mail, overlaps>>
          \/ /\ stored[m] = 0
             /\ overlaps' = [overlaps EXCEPT ![m] =
                  IF \E k \in Jobs : mail[k] = m THEN @ + 1 ELSE @]
             /\ mail' = [mail EXCEPT ![j] = m]
             /\ GoOn(j, "fetch")
  /\ UNCHANGED <<arrived, watermark, pushed, since, effects, passed, failures>>

(* The details; mail of no contact needs nothing more. *)
FetchDetail(j) ==
  /\ job[j] = "fetch"
  /\ \/ mail[j] \in Replies \cup Bounces /\ GoOn(j, "insert") /\ UNCHANGED mail
     \/ mail[j] \notin Replies \cup Bounces /\ GoOn(j, "check") /\ mail' = [mail EXCEPT ![j] = 0]
  /\ UNCHANGED <<arrived, watermark, pushed, since, todo, effects, overlaps, passed, failures>>

FetchFails(j) ==
  /\ job[j] = "fetch"
  /\ Fails
  /\ passed' = passed \cup {mail[j]}
  /\ mail' = [mail EXCEPT ![j] = 0]
  /\ GoOn(j, "check")
  /\ UNCHANGED <<arrived, watermark, pushed, since, todo, effects, overlaps>>

StoreReply(j) ==
  /\ job[j] = "insert" /\ mail[j] \in Replies
  /\ stored' = [stored EXCEPT ![mail[j]] = @ + 1]
  /\ GoOn(j, "run")
  /\ UNCHANGED <<arrived, watermark, pushed, since, todo, mail, replyRuns, counted, overlaps,
                 passed, failures>>

(* The row that is to mark a bounce as handled has no contact, which messages does not   *)
(* allow: INSERT OR IGNORE leaves it out, and the next listing counts the bounce again.  *)
CountBounce(j) ==
  /\ job[j] = "insert" /\ mail[j] \in Bounces
  /\ counted' = [counted EXCEPT ![mail[j]] = @ + 1]
  /\ mail' = [mail EXCEPT ![j] = 0]
  /\ GoOn(j, "check")
  /\ UNCHANGED <<arrived, watermark, pushed, since, todo, stored, replyRuns, overlaps,
                 passed, failures>>

StartRun(j) ==
  /\ job[j] = "run"
  /\ replyRuns' = [replyRuns EXCEPT ![mail[j]] = @ + 1]
  /\ mail' = [mail EXCEPT ![j] = 0]
  /\ GoOn(j, "check")
  /\ UNCHANGED <<arrived, watermark, pushed, since, todo, stored, counted, overlaps,
                 passed, failures>>

EndLoop(j) ==
  /\ job[j] = "check" /\ todo[j] = {}
  /\ GoOn(j, "put")
  /\ UNCHANGED <<arrived, watermark, pushed, since, todo, mail, effects, overlaps, passed, failures>>

(* The history id of the push, which may be older than the one that is there. *)
PutWatermark(j) ==
  /\ job[j] = "put"
  /\ watermark' = pushed[j]
  /\ GoOn(j, "done")
  /\ UNCHANGED <<arrived, pushed, since, todo, mail, effects, overlaps, passed, failures>>

(* An exception or a crash in the loop: the watermark stays, and the marker drops the    *)
(* redelivery.                                                                           *)
Die(j) ==
  /\ job[j] \in Working \cup {"list", "put"}
  /\ Fails
  /\ mail' = [mail EXCEPT ![j] = 0]
  /\ todo' = [todo EXCEPT ![j] = {}]
  /\ GoOn(j, "dropped")
  /\ UNCHANGED <<arrived, watermark, pushed, since, effects, overlaps, passed>>

-----------------------------------------------------------------------------
JobStep(j) ==
  \/ Push(j) \/ Begin(j) \/ ReadWatermark(j) \/ ListMails(j) \/ ListFails(j)
  \/ CheckStored(j) \/ FetchDetail(j) \/ FetchFails(j) \/ StoreReply(j) \/ CountBounce(j)
  \/ StartRun(j) \/ EndLoop(j) \/ PutWatermark(j) \/ Die(j)

Next == Arrive \/ \E j \in Jobs : JobStep(j)

Spec == Init /\ [][Next]_vars

-----------------------------------------------------------------------------
(* The watermark never passes a reply that was not stored, or a bounce that was not      *)
(* counted, except those that a failed listing or fetch, or the first page, went past:   *)
(* whatever the order of the pushes, and though it may go back (index.ts:83-262).        *)
WatermarkCovers ==
  \A m \in Replies \cup Bounces :
    m <= watermark => stored[m] + counted[m] > 0 \/ m \in passed

(* A reply is stored and answered once, whatever pushes come twice or jobs overlap, but  *)
(* for jobs that looked for it while another was about to store it; and a stored reply   *)
(* is without its run only if a job died there (index.ts:116-119, 233-258).              *)
RepliesHandledOnce ==
  \A m \in Replies :
    /\ stored[m] <= 1 + overlaps[m]
    /\ replyRuns[m] <= stored[m]
    /\ stored[m] - replyRuns[m] <= failures + Cardinality({j \in Jobs : job[j] = "run"})
=============================================================================
