------------------------------ MODULE ImportJob ------------------------------
(***************************************************************************)
(* The import of contacts from a file: POST /v1/contacts/bulk-upload       *)
(* stages the file in R2, inserts the job and queues it; icrv-consumer     *)
(* works through its rows (import-processor.ts).  The marker of the queue  *)
(* payload comes first, so a job that dies is not taken up again: its      *)
(* redelivery is dropped.                                                  *)
(***************************************************************************)
EXTENDS Integers, FiniteSets

CONSTANTS Jobs,        \* uploads of the file
          File,        \* its rows: "address" (one address for all), "bare" or "invalid"
          Rows,        \* how many there are
          Chunk,       \* rows between two updates of the progress (500)
          MaxFailures  \* bound: failures of a statement or a send, and jobs that die

VARIABLES
  status,     \* status of each import_jobs row, "none" without one
  at,         \* where each upload or its consumer is
  row,        \* the row the consumer is at
  accepted, rejected,  \* its counts
  shown,      \* processed_rows, accepted and rejected of the import_jobs row
  known,      \* contacts with the address
  bare,       \* contacts without an address
  overlaps,   \* lookups that found no contact while another job was about to insert it
  failures

vars == <<status, at, row, accepted, rejected, shown, known, bare, overlaps, failures>>

Zero == [processed |-> 0, accepted |-> 0, rejected |-> 0]

TypeOK ==
  /\ status \in [Jobs -> {"none", "queued", "processing", "completed", "failed"}]
  /\ at \in [Jobs -> {"upload", "insert", "send", "queued", "open", "row", "update", "create",
                      "consent", "progress", "complete", "done", "dead"}]
  /\ row \in [Jobs -> 1..(Rows + 1)]
  /\ accepted \in [Jobs -> 0..Rows] /\ rejected \in [Jobs -> 0..Rows]
  /\ shown \in [Jobs -> [processed : 0..Rows, accepted : 0..Rows, rejected : 0..Rows]]
  /\ known \in Nat /\ bare \in Nat /\ overlaps \in Nat
  /\ failures \in 0..MaxFailures

Init ==
  /\ status = [j \in Jobs |-> "none"] /\ at = [j \in Jobs |-> "upload"]
  /\ row = [j \in Jobs |-> 1]
  /\ accepted = [j \in Jobs |-> 0] /\ rejected = [j \in Jobs |-> 0]
  /\ shown = [j \in Jobs |-> Zero]
  /\ known = 0 /\ bare = 0 /\ overlaps = 0 /\ failures = 0

GoOn(j, p) == at' = [at EXCEPT ![j] = p]
Fails      == failures < MaxFailures /\ failures' = failures + 1

counts   == <<accepted, rejected>>
contacts == <<known, bare, overlaps>>

-----------------------------------------------------------------------------
(* POST /v1/contacts/bulk-upload. *)

StageFile(j) ==
  /\ at[j] = "upload"
  /\ GoOn(j, "insert")
  /\ UNCHANGED <<status, row, counts, shown, contacts, failures>>

InsertJob(j) ==
  /\ at[j] = "insert"
  /\ status' = [status EXCEPT ![j] = "queued"]
  /\ GoOn(j, "send")
  /\ UNCHANGED <<row, counts, shown, contacts, failures>>

(* Without the queue's binding the job fails; a send that fails leaves it queued. *)
SendJob(j) ==
  /\ at[j] = "send"
  /\ \/ GoOn(j, "queued") /\ UNCHANGED <<status, failures>>
     \/ GoOn(j, "done") /\ status' = [status EXCEPT ![j] = "failed"] /\ Fails
     \/ GoOn(j, "dead") /\ UNCHANGED status /\ Fails
  /\ UNCHANGED <<row, counts, shown, contacts>>

-----------------------------------------------------------------------------
(* processImportJob. *)

Begin(j) ==
  /\ at[j] = "queued"
  /\ status' = [status EXCEPT ![j] = "processing"]
  /\ GoOn(j, "open")
  /\ UNCHANGED <<row, counts, shown, contacts, failures>>

(* The file, or its column of names, may be missing. *)
OpenFile(j) ==
  /\ at[j] = "open"
  /\ \/ GoOn(j, IF Rows = 0 THEN "complete" ELSE "row") /\ UNCHANGED <<status, failures>>
     \/ GoOn(j, "done") /\ status' = [status EXCEPT ![j] = "failed"] /\ Fails
  /\ UNCHANGED <<row, counts, shown, contacts>>

(* The row ends: the progress is saved at the end of a chunk. *)
NextRow(j) ==
  /\ row' = [row EXCEPT ![j] = @ + 1]
  /\ GoOn(j, IF row[j] % Chunk = 0 \/ row[j] = Rows THEN "progress" ELSE "row")

Reject(j) ==
  /\ rejected' = [rejected EXCEPT ![j] = @ + 1]
  /\ NextRow(j)
  /\ UNCHANGED accepted

RejectInvalid(j) ==
  /\ at[j] = "row" /\ File[row[j]] = "invalid"
  /\ Reject(j)
  /\ UNCHANGED <<status, shown, contacts, failures>>

(* No unique index backs this lookup. *)
LookUp(j) ==
  /\ at[j] = "row" /\ File[row[j]] = "address"
  /\ GoOn(j, IF known > 0 THEN "update" ELSE "create")
  /\ overlaps' = IF known = 0
                 THEN overlaps + Cardinality({k \in Jobs : at[k] = "create" /\ File[row[k]] = "address"})
                 ELSE overlaps
  /\ UNCHANGED <<status, row, counts, shown, known, bare, failures>>

SkipLookUp(j) ==
  /\ at[j] = "row" /\ File[row[j]] = "bare"
  /\ GoOn(j, "create")
  /\ UNCHANGED <<status, row, counts, shown, contacts, failures>>

UpdateThenCreate(j) ==  \* mutant: the update is not the end of the row
  /\ at[j] = "update"
  /\ GoOn(j, "create")
  /\ UNCHANGED <<status, row, counts, shown, contacts, failures>>

UpdateContact(j) ==
  /\ at[j] = "update"
  /\ GoOn(j, "consent")
  /\ UNCHANGED <<status, row, counts, shown, contacts, failures>>

CreateContact(j) ==
  /\ at[j] = "create"
  /\ IF File[row[j]] = "address" THEN known' = known + 1 /\ UNCHANGED bare
     ELSE bare' = bare + 1 /\ UNCHANGED known
  /\ GoOn(j, "consent")
  /\ UNCHANGED <<status, row, counts, shown, overlaps, failures>>

UpsertConsents(j) ==
  /\ at[j] = "consent"
  /\ accepted' = [accepted EXCEPT ![j] = @ + 1]
  /\ NextRow(j)
  /\ UNCHANGED <<status, rejected, shown, contacts, failures>>

(* A statement of the row fails: it is rejected, though its contact may be there. *)
StatementFails(j) ==
  /\ at[j] \in {"update", "create", "consent"}
  /\ Fails
  /\ Reject(j)
  /\ UNCHANGED <<status, shown, contacts>>

SaveProgress(j) ==
  /\ at[j] = "progress"
  /\ shown' = [shown EXCEPT ![j] =
       [processed |-> row[j] - 1, accepted |-> accepted[j], rejected |-> rejected[j]]]
  /\ GoOn(j, IF row[j] > Rows THEN "complete" ELSE "row")
  /\ UNCHANGED <<status, row, counts, contacts, failures>>

Complete(j) ==
  /\ at[j] = "complete"
  /\ status' = [status EXCEPT ![j] = "completed"]
  /\ shown' = [shown EXCEPT ![j] =
       [processed |-> Rows, accepted |-> accepted[j], rejected |-> rejected[j]]]
  /\ GoOn(j, "done")
  /\ UNCHANGED <<row, counts, contacts, failures>>

(* A crash, or an exception outside a row: the job stays as it is. *)
Die(j) ==
  /\ at[j] \notin {"queued", "done", "dead"}
  /\ Fails
  /\ GoOn(j, "dead")
  /\ UNCHANGED <<status, row, counts, shown, contacts>>

-----------------------------------------------------------------------------
JobStep(j) ==
  \/ StageFile(j) \/ InsertJob(j) \/ SendJob(j) \/ Begin(j) \/ OpenFile(j)
  \/ RejectInvalid(j) \/ LookUp(j) \/ SkipLookUp(j) \/ UpdateContact(j) \/ CreateContact(j)
  \/ UpsertConsents(j) \/ StatementFails(j) \/ SaveProgress(j) \/ Complete(j) \/ Die(j)

Next == \E j \in Jobs : JobStep(j)

Spec == Init /\ [][Next]_vars

-----------------------------------------------------------------------------
(* What a job shows adds up at every poll, and once it has settled nothing of the file is  *)
(* unaccounted for; only a job that died stays open (import-processor.ts:53-109).          *)
ImportAccounted ==
  \A j \in Jobs :
    /\ shown[j].processed = shown[j].accepted + shown[j].rejected
    /\ status[j] = "completed" => shown[j].processed = Rows
    /\ status[j] \in {"queued", "processing"} => at[j] \notin {"done", "upload"}

(* An address gets one contact, however often and wherever its rows come, but for lookups  *)
(* of two jobs that overlapped; and a contact without an address is one row's, accepted or *)
(* failed after the insert (import-processor.ts:72-95).                                    *)
OneContactPerAddress ==
  /\ known <= 1 + overlaps
  /\ bare <= Cardinality({p \in Jobs \X (1..Rows) : File[p[2]] = "bare" /\ p[2] <= row[p[1]]})
=============================================================================
