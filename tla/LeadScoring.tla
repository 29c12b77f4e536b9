---------------------------- MODULE LeadScoring -----------------------------
(***************************************************************************)
(* The lead score of a contact: calculateLeadScore (scoring.ts), and the   *)
(* scorers that keep lead_scores: the nightly sweep of icrv-cron and the   *)
(* recalculations of icrv-api (leads.ts), which read the contact, its      *)
(* events and its replies one query after the other and then upsert.       *)
(*                                                                         *)
(* Scores are exact fractions rounded half up; what the floating-point     *)
(* sums of the code do to an exact half is left out.                       *)
(***************************************************************************)
EXTENDS Integers

CONSTANTS Scorers,   \* sweeps and recalculations that score the contact
          TagSums,   \* sums of bonuses the contact's tags may have
          MaxEvents  \* bound: events of each kind, and edits

VARIABLES
  facts,    \* what the tables say of the contact
  version,  \* changes of facts
  scorer,   \* where each scorer is, what it has read, and as of which version
  row,      \* the lead_scores row
  latest,   \* the greatest version a finished scorer began at
  crossed   \* a scorer wrote between another one's first read and its write

vars == <<facts, version, scorer, row, latest, crossed>>

LeastOf(a, b) == IF a <= b THEN a ELSE b

Engagement(f) ==
  LeastOf(f.opens * 5, 15) + LeastOf(f.clicks * 8, 20) + LeastOf(f.replies * 10, 15)

(* Website visits and form submissions are always 0: not yet tracked. *)
Behavior(f) == IF f.recent THEN 5 ELSE 0

(* 35/50 of engagement, demography as it is, 20/29 of behaviour, 20/40 of the tags. *)
TotalScore(f) ==
  (2 * (203 * Engagement(f) + 290 * f.demography + 200 * Behavior(f) + 145 * LeastOf(f.tags, 40))
     + 290) \div 580

Category(score) == IF score >= 80 THEN "hot" ELSE IF score >= 50 THEN "warm" ELSE "cold"

NoFacts == [opens |-> 0, clicks |-> 0, replies |-> 0, recent |-> FALSE, demography |-> 0,
            tags |-> 0]
OpenedOnce == [NoFacts EXCEPT !.opens = 1, !.recent = TRUE]
Idle    == [at |-> "idle", seen |-> NoFacts, since |-> 0, over |-> FALSE]
NoRow   == [score |-> 0, category |-> "none"]

Facts == [opens : Nat, clicks : Nat, replies : Nat, recent : BOOLEAN,
          demography : {0, 6, 8, 10, 14, 15, 18, 21, 25}, tags : TagSums \cup {0}]

TypeOK ==
  /\ facts \in Facts /\ version \in Nat
  /\ scorer \in [Scorers -> [at : {"idle", "events", "replies", "recent", "write"},
                             seen : Facts, since : Nat, over : BOOLEAN]]
  /\ row # NoRow => row.score \in 0..84 /\ row.category = Category(row.score)
  /\ latest \in Nat /\ crossed \in BOOLEAN

Init ==
  /\ facts \in {NoFacts, OpenedOnce} /\ version = 0
  /\ scorer = [s \in Scorers |-> Idle]
  /\ row = NoRow /\ latest = 0 /\ crossed = FALSE

-----------------------------------------------------------------------------
(* What happens to the contact. *)

Changed(f) ==
  /\ version < MaxEvents
  /\ version' = version + 1
  /\ facts' = f
  /\ UNCHANGED <<scorer, row, latest, crossed>>

OpenEvent   == Changed([facts EXCEPT !.opens = @ + 1, !.recent = TRUE])
ClickEvent  == Changed([facts EXCEPT !.clicks = @ + 1, !.recent = TRUE])
ReplyEvent  == Changed([facts EXCEPT !.replies = @ + 1])
WeekGoesBy  == facts.recent /\ Changed([facts EXCEPT !.recent = FALSE])
EditContact ==
  \E t \in TagSums, d \in {14, 25} : Changed([facts EXCEPT !.tags = t, !.demography = d])

-----------------------------------------------------------------------------
(* scoreOne and fetchActivity; the loop body of runLeadScoringSweep. *)

Reads(s, from, to, f) ==
  /\ scorer[s].at = from
  /\ scorer' = [scorer EXCEPT ![s].at = to, ![s].seen = f]
  /\ UNCHANGED <<facts, version, row, latest, crossed>>

ReadContact(s) ==
  /\ scorer[s].at = "idle"
  /\ scorer' = [scorer EXCEPT ![s] =
       [at |-> "events", since |-> version, over |-> FALSE,
        seen |-> [NoFacts EXCEPT !.tags = facts.tags, !.demography = facts.demography]]]
  /\ UNCHANGED <<facts, version, row, latest, crossed>>

ReadEvents(s) ==
  Reads(s, "events", "replies",
        [scorer[s].seen EXCEPT !.opens = facts.opens, !.clicks = facts.clicks])

SkipsReplies(s) ==  \* mutant: replies are not counted
  Reads(s, "replies", "recent", scorer[s].seen)

ReadReplies(s) ==
  Reads(s, "replies", "recent", [scorer[s].seen EXCEPT !.replies = facts.replies])

ReadRecent(s) ==
  Reads(s, "recent", "write", [scorer[s].seen EXCEPT !.recent = facts.recent])

(* INSERT ... ON CONFLICT(contact_id) DO UPDATE. *)
UpsertScore(s) ==
  /\ scorer[s].at = "write"
  /\ LET total == TotalScore(scorer[s].seen) IN
       row' = [score |-> total, category |-> Category(total)]
  /\ latest' = IF latest < scorer[s].since THEN scorer[s].since ELSE latest
  /\ crossed' = (crossed \/ scorer[s].over)
  /\ scorer' = [o \in Scorers |->
       IF o = s THEN Idle
       ELSE [scorer[o] EXCEPT !.over = scorer[o].at # "idle"]]
  /\ UNCHANGED <<facts, version>>

Next ==
  \/ OpenEvent \/ ClickEvent \/ ReplyEvent \/ WeekGoesBy \/ EditContact
  \/ \E s \in Scorers :
       \/ ReadContact(s) \/ ReadEvents(s) \/ ReadReplies(s) \/ ReadRecent(s)
       \/ UpsertScore(s)

Spec == Init /\ [][Next]_vars

-----------------------------------------------------------------------------
(* Once a scorer that began after the last change has finished, the row holds the score of  *)
(* the contact as it is, unless another scorer's row overwrote it that had begun before     *)
(* (leads.ts:172-233, icrv-cron/src/index.ts:480-528).                                      *)
ScoreSettles ==
  latest = version /\ row # NoRow /\ ~crossed =>
    row = [score |-> TotalScore(facts), category |-> Category(TotalScore(facts))]
=============================================================================
