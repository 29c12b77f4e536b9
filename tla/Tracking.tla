------------------------------- MODULE Tracking -------------------------------
(***************************************************************************)
(* The opens and clicks of a message: icrv-hooks counts them in KV, which  *)
(* only has get and put, and the hourly cron moves them to D1.             *)
(***************************************************************************)
EXTENDS Integers, FiniteSets

CONSTANTS Hits,        \* pixels fetched and links followed
          MaxRolls,    \* bound: hourly runs of the cron
          MaxFailures  \* bound: failed writes, counters that run out

VARIABLES
  hit,       \* where each hit is
  kind,      \* "open" or "click"
  read,      \* the count it has read
  kv,        \* open:* and click:* of the message in KV_TRACK
  hits,      \* hits that were counted, of each kind
  roll,      \* what the hourly run has yet to do
  taken,     \* the count it has read
  rolls,
  flushed,   \* sum of the counts in message_events
  disturbed, \* a hit or a run overlapped another, or a failure: counts may be off
  failures

vars == <<hit, kind, read, kv, hits, roll, taken, rolls, flushed, disturbed, failures>>

Kinds == {"open", "click"}

TypeOK ==
  /\ hit \in [Hits -> {"new", "read", "done"}] /\ kind \in [Hits -> Kinds]
  /\ read \in [Hits -> Nat] /\ kv \in [Kinds -> Nat] /\ hits \in [Kinds -> Nat]
  /\ roll \subseteq {"insert", "delete"} /\ taken \in Nat /\ rolls \in 0..MaxRolls
  /\ flushed \in Nat /\ disturbed \in BOOLEAN
  /\ failures \in 0..MaxFailures

Init ==
  /\ hit = [h \in Hits |-> "new"] /\ kind = [h \in Hits |-> "open"]
  /\ read = [h \in Hits |-> 0] /\ kv = [k \in Kinds |-> 0] /\ hits = [k \in Kinds |-> 0]
  /\ roll = {} /\ taken = 0 /\ rolls = 0 /\ flushed = 0 /\ disturbed = FALSE
  /\ failures = 0

Fails == failures < MaxFailures /\ failures' = failures + 1

-----------------------------------------------------------------------------
(* Opens and clicks: GET /t/o/:msgGif and /t/c/:msgId, and the hourly cron. *)

Pending(k) == {h \in Hits : hit[h] = "read" /\ kind[h] = k}
Rolling    == roll # {}

ReadCount(h) ==
  /\ hit[h] = "new"
  /\ \E k \in Kinds :
       /\ kind' = [kind EXCEPT ![h] = k]
       /\ read' = [read EXCEPT ![h] = kv[k]]
       /\ disturbed' = (disturbed \/ (k = "open" /\ (Pending(k) # {} \/ "delete" \in roll)))
  /\ hit' = [hit EXCEPT ![h] = "read"]
  /\ UNCHANGED <<kv, hits, roll, taken, rolls, flushed, failures>>

PutCount(h) ==
  /\ hit[h] = "read"
  /\ kv' = [kv EXCEPT ![kind[h]] = read[h] + 1]
  /\ hits' = [hits EXCEPT ![kind[h]] = @ + 1]
  /\ hit' = [hit EXCEPT ![h] = "done"]
  /\ UNCHANGED <<kind, read, roll, taken, rolls, flushed, disturbed, failures>>

(* runRateWindowRoll lists open:* only: clicks are never moved, and expire.  The insert    *)
(* and the delete of a key are then under way together.                                    *)
TakeCount ==
  /\ ~Rolling /\ rolls < MaxRolls /\ kv["open"] > 0
  /\ rolls' = rolls + 1
  /\ taken' = kv["open"]
  /\ roll' = {"insert", "delete"}
  /\ disturbed' = (disturbed \/ Pending("open") # {})
  /\ UNCHANGED <<hit, kind, read, kv, hits, flushed, failures>>

InsertEvents ==
  /\ "insert" \in roll
  /\ \/ flushed' = flushed + taken /\ UNCHANGED <<disturbed, failures>>
     \/ Fails /\ disturbed' = TRUE /\ UNCHANGED flushed
  /\ roll' = roll \ {"insert"}
  /\ UNCHANGED <<hit, kind, read, kv, hits, taken, rolls>>

KeepsCount ==  \* mutant: the counter is not deleted
  /\ "delete" \in roll
  /\ roll' = roll \ {"delete"}
  /\ UNCHANGED <<hit, kind, read, kv, hits, taken, rolls, flushed, disturbed, failures>>

DeleteCount ==
  /\ "delete" \in roll
  /\ \/ kv' = [kv EXCEPT !["open"] = 0] /\ UNCHANGED <<disturbed, failures>>
     \/ Fails /\ disturbed' = TRUE /\ UNCHANGED kv
  /\ roll' = roll \ {"delete"}
  /\ UNCHANGED <<hit, kind, read, hits, taken, rolls, flushed>>

(* Two hours without a hit, and no run of the cron that moved the counter. *)
CountExpires(k) ==
  /\ kv[k] > 0
  /\ Fails
  /\ kv' = [kv EXCEPT ![k] = 0]
  /\ disturbed' = (disturbed \/ k = "open")
  /\ UNCHANGED <<hit, kind, read, hits, roll, taken, rolls, flushed>>

-----------------------------------------------------------------------------
Next ==
  \/ \E h \in Hits : ReadCount(h) \/ PutCount(h)
  \/ TakeCount \/ InsertEvents \/ DeleteCount
  \/ \E k \in Kinds : CountExpires(k)

Spec == Init /\ [][Next]_vars

-----------------------------------------------------------------------------
(* Moving opens from KV to D1, by an insert and a delete under way together, neither loses *)
(* nor doubles any while hits and runs do not overlap and nothing fails (icrv-cron         *)
(* index.ts:222-258, icrv-hooks index.ts:283-289).                                         *)
OpensConserved ==
  ~disturbed =>
    flushed + kv["open"] + (IF "insert" \in roll THEN taken ELSE 0)
      - (IF "delete" \in roll THEN taken ELSE 0) = hits["open"]
=============================================================================
