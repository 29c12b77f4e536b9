---------------------------- MODULE Credentials ----------------------------
(***************************************************************************)
(* The secrets a tenant replaces by hand: its WhatsApp credential (POST    *)
(* /admin/integrations/whatsapp) and its API key (POST /generate-key).     *)
(* Both routes retire what is there and then insert the new row, in two    *)
(* statements; the second then copies the key's last digits to the         *)
(* settings, where the page reads them.  A message queued for WhatsApp     *)
(* holds the id of the credential that was active when it was composed.    *)
(*                                                                         *)
(* A row is named by the request that inserted it.                         *)
(***************************************************************************)
EXTENDS Integers, FiniteSets

CONSTANTS Saves,       \* requests that replace the secret
          Jobs,        \* WhatsApp messages
          First,       \* the secret at the start
          MaxFailures  \* bound: requests that die

VARIABLES
  kind,      \* which secret this is about
  live,      \* rows with is_active = 1, or without revoked_at
  save,      \* where each request is
  overlaps,  \* requests that retired the rows while another was about to insert its own
  crossed,   \* a request began while another was between its first and last statement
  shown,     \* the row whose last digits the settings show
  held,      \* the credential each queued message holds, or "none"
  job,       \* what became of each message
  failures

vars == <<kind, live, save, overlaps, crossed, shown, held, job, failures>>

Rows == Saves \cup {First}

TypeOK ==
  /\ kind \in {"whatsapp", "api_key"}
  /\ live \subseteq Rows /\ shown \in Rows
  /\ save \in [Saves -> {"start", "insert", "mirror", "done", "lost"}]
  /\ overlaps \in Nat /\ crossed \in BOOLEAN
  /\ held \in [Jobs -> Rows \cup {"none"}]
  /\ job \in [Jobs -> {"new", "queued", "posted", "refused"}]
  /\ failures \in 0..MaxFailures

Init ==
  /\ kind \in {"whatsapp", "api_key"}
  /\ live = {First} /\ shown = First
  /\ save = [s \in Saves |-> "start"] /\ overlaps = 0 /\ crossed = FALSE
  /\ held = [j \in Jobs |-> "none"] /\ job = [j \in Jobs |-> "new"]
  /\ failures = 0

At(p) == {s \in Saves : save[s] = p}
GoOn(s, p) == save' = [save EXCEPT ![s] = p]

-----------------------------------------------------------------------------
(* The requests. *)

RetiresNothing(s) ==  \* mutant: the rows before stay active
  /\ save[s] = "start"
  /\ GoOn(s, "insert")
  /\ UNCHANGED <<kind, live, overlaps, crossed, shown, held, job, failures>>

Retire(s) ==
  /\ save[s] = "start"
  /\ live' = {}
  /\ overlaps' = overlaps + Cardinality(At("insert"))
  /\ crossed' = (crossed \/ At("insert") \cup At("mirror") # {})
  /\ GoOn(s, "insert")
  /\ UNCHANGED <<kind, shown, held, job, failures>>

Insert(s) ==
  /\ save[s] = "insert"
  /\ live' = live \cup {s}
  /\ GoOn(s, IF kind = "api_key" THEN "mirror" ELSE "done")
  /\ UNCHANGED <<kind, overlaps, crossed, shown, held, job, failures>>

(* json_patch in the statement, or, where it is not available, a read and a write of the   *)
(* settings: of the other keys of the section nothing is said here.                        *)
Mirror(s) ==
  /\ save[s] = "mirror"
  /\ shown' = s
  /\ GoOn(s, "done")
  /\ UNCHANGED <<kind, live, overlaps, crossed, held, job, failures>>

Die(s) ==
  /\ save[s] \in {"insert", "mirror"}
  /\ failures < MaxFailures /\ failures' = failures + 1
  /\ GoOn(s, "lost")
  /\ UNCHANGED <<kind, live, overlaps, crossed, shown, held, job>>

-----------------------------------------------------------------------------
(* The messages. *)

Compose(j) ==
  /\ kind = "whatsapp" /\ job[j] = "new"
  /\ \E c \in live : held' = [held EXCEPT ![j] = c]
  /\ job' = [job EXCEPT ![j] = "queued"]
  /\ UNCHANGED <<kind, live, save, overlaps, crossed, shown, failures>>

(* api_credential_not_found: the retry carries the same id, and the marker drops it. *)
Load(j) ==
  /\ job[j] = "queued"
  /\ job' = [job EXCEPT ![j] = IF held[j] \in live THEN "posted" ELSE "refused"]
  /\ UNCHANGED <<kind, live, save, overlaps, crossed, shown, held, failures>>

-----------------------------------------------------------------------------
Next ==
  \/ \E s \in Saves : Retire(s) \/ Insert(s) \/ Mirror(s) \/ Die(s)
  \/ \E j \in Jobs : Compose(j) \/ Load(j)

Spec == Init /\ [][Next]_vars

-----------------------------------------------------------------------------
(* Of concurrent requests at most one more row than overlapped is live, and none only      *)
(* while one is between its two statements or after it died there; once all that began     *)
(* are through, none crossed another and none died, the digits shown are those of the live key  *)
(* (misc.ts:621-635, api-keys.ts:20-57).                                                   *)
SecretsFollowSaves ==
  /\ Cardinality(live) + Cardinality(At("insert")) <= 1 + overlaps
  /\ live = {} => At("insert") \cup At("lost") # {}
  /\ kind = "api_key" /\ At("insert") \cup At("mirror") = {} /\ ~crossed /\ failures = 0
       => live = {shown}
=============================================================================
