---------------------------- MODULE Maintenance -----------------------------
(***************************************************************************)
(* Two jobs of icrv-cron.  The renewal check looks every five minutes for  *)
(* the RingCentral subscription that has no more than a day left, renews   *)
(* it at RingCentral and stores the new expiry in KV_CONFIG.  The backup,  *)
(* nightly or started by an admin, polls Cloudflare's export, copies the   *)
(* dump to R2 and leaves its outcome in KV_TRACK.                          *)
(*                                                                         *)
(* Time is counted in hours; the twelve checks of an hour are one, which   *)
(* fails when all of them do.                                              *)
(***************************************************************************)
EXTENDS Integers

CONSTANTS Backups,    \* backup runs
          MaxPolls,   \* the 60 attempts of the polling loop
          Lifetime,   \* hours a renewed subscription lives: 7 * 24
          Ahead       \* hours before the expiry at which it is renewed: 24

VARIABLES
  left,      \* hours the subscription has left at RingCentral
  noted,     \* hours left by the expiry stored in KV_CONFIG
  checked,   \* this hour's check is over
  outage,    \* hours in a row in which no renewal went through
  backup,    \* where each backup is, and its polls
  archive,   \* backups whose dump is in R2_EXPORTS
  status     \* last_d1_backup_status

renewalVars == <<left, noted, checked, outage>>
backupVars  == <<backup, archive, status>>
vars        == <<renewalVars, backupVars>>

NeverRun == [ok |-> FALSE, by |-> "never_run"]

TypeOK ==
  /\ left \in 0..Lifetime /\ noted \in (-1)..Lifetime
  /\ checked \in BOOLEAN /\ outage \in Nat
  /\ backup \in [Backups -> [at : {"idle", "poll", "download", "store", "report", "over"},
                             polls : 0..MaxPolls]]
  /\ archive \subseteq Backups
  /\ status.ok \in BOOLEAN /\ status.by \in Backups \cup {"never_run"}

Init ==
  /\ left = Lifetime /\ noted = Lifetime /\ checked = FALSE /\ outage = 0
  /\ backup = [b \in Backups |-> [at |-> "idle", polls |-> 0]]
  /\ archive = {} /\ status = NeverRun

-----------------------------------------------------------------------------
(* runRenewalCheck, RingCentral. *)

NotSoon ==
  /\ ~checked /\ noted > Ahead
  /\ checked' = TRUE /\ outage' = 0
  /\ UNCHANGED <<left, noted, backupVars>>

RenewsLate ==  \* mutant: renews what has expired, not what is about to
  /\ ~checked /\ noted <= 0
  /\ checked' = TRUE /\ outage' = 0
  /\ left' = IF left = 0 THEN 0 ELSE Lifetime
  /\ noted' = Lifetime
  /\ UNCHANGED backupVars

(* RingCentral does not renew what has lapsed, and the put is not reached. *)
Renew ==
  /\ ~checked /\ noted <= Ahead /\ left > 0
  /\ checked' = TRUE /\ outage' = 0
  /\ left' = Lifetime
  /\ noted' \in {Lifetime, noted}  \* the put may fail
  /\ UNCHANGED backupVars

RenewFails ==
  /\ ~checked /\ noted <= Ahead
  /\ checked' = TRUE /\ outage' = IF outage < Ahead + 1 THEN outage + 1 ELSE outage
  /\ UNCHANGED <<left, noted, backupVars>>

HourPasses ==
  /\ checked
  /\ checked' = FALSE
  /\ left' = IF left = 0 THEN 0 ELSE left - 1
  /\ noted' = IF noted = -1 THEN -1 ELSE noted - 1
  /\ UNCHANGED <<outage, backupVars>>

-----------------------------------------------------------------------------
(* runD1Backup. *)

At(b, p) == backup' = [backup EXCEPT ![b].at = p]

StartBackup(b) ==
  /\ backup[b].at = "idle"
  /\ At(b, "poll")
  /\ UNCHANGED <<renewalVars, archive, status>>

(* No signed URL yet. *)
PollAgain(b) ==
  /\ backup[b].at = "poll" /\ backup[b].polls < MaxPolls
  /\ backup' = [backup EXCEPT ![b].polls = @ + 1]
  /\ UNCHANGED <<renewalVars, archive, status>>

SignedUrl(b) ==
  /\ backup[b].at = "poll" /\ backup[b].polls < MaxPolls
  /\ backup' = [backup EXCEPT ![b] = [at |-> "download", polls |-> @.polls + 1]]
  /\ UNCHANGED <<renewalVars, archive, status>>

Download(b) ==
  /\ backup[b].at = "download"
  /\ At(b, "store")
  /\ UNCHANGED <<renewalVars, archive, status>>

StoreDump(b) ==
  /\ backup[b].at = "store"
  /\ archive' = archive \cup {b}
  /\ At(b, "report")
  /\ UNCHANGED <<renewalVars, status>>

ReportOk(b) ==
  /\ backup[b].at = "report"
  /\ status' = [ok |-> TRUE, by |-> b]
  /\ At(b, "over")
  /\ UNCHANGED <<renewalVars, archive>>

(* Missing configuration, a refused call, the five minutes, the last poll, an empty dump;   *)
(* or the put of the good status, which the catch turns into a bad one.                     *)
ReportFailure(b) ==
  /\ backup[b].at \in {"poll", "download", "store", "report"}
  /\ status' = [ok |-> FALSE, by |-> b]
  /\ At(b, "over")
  /\ UNCHANGED <<renewalVars, archive>>

Next ==
  \/ NotSoon \/ Renew \/ RenewFails \/ HourPasses
  \/ \E b \in Backups :
       \/ StartBackup(b) \/ PollAgain(b) \/ SignedUrl(b) \/ Download(b)
       \/ StoreDump(b) \/ ReportOk(b) \/ ReportFailure(b)

Spec == Init /\ [][Next]_vars

-----------------------------------------------------------------------------
(* RingCentral's events do not stop: the subscription lapses only after a day of failed     *)
(* renewals, though the expiry it goes by may be older than the true one                    *)
(* (icrv-cron/src/index.ts:193-219).                                                        *)
RenewedInTime == left > 0 \/ outage >= Ahead
=============================================================================
