------------------------------ MODULE SendGate ------------------------------
(***************************************************************************)
(* The two clauses of the agent's policy gate that depend on the time:     *)
(* quiet hours and the daily cap of a contact (policy-gate.ts).  A run     *)
(* counts the contact's outbound messages of the day when it loads its     *)
(* context, and inserts its own message after the LLM has answered.        *)
(*                                                                         *)
(* The clock counts half hours from a midnight UTC.  The tenant's time     *)
(* zone is a fixed offset from it (no change of summer time).              *)
(***************************************************************************)
EXTENDS Integers, FiniteSets

CONSTANTS Runs,     \* agent runs of one contact
          Windows,  \* quiet windows the tenant may set: [start, end], half hours of the day
          Offset,   \* local time minus UTC
          Cap,      \* max_per_day
          Horizon   \* bound: how far the clock runs

VARIABLES
  clock,
  window,   \* quiet_hours of the merged controls, or NoWindow
  allowed,  \* runs the gate let through that have not sent yet
  done,     \* runs that are over
  due,      \* next_run_at of the runs it has deferred in this half hour: no code reads it later
  sent      \* outbound messages created today (UTC)

vars == <<clock, window, allowed, done, due, sent>>

Day  == 48
Hour == 2
NoWindow == [start |-> -1, end |-> -1]
NotDue   == [at |-> 0, since |-> 0, window |-> NoWindow]

TypeOK ==
  /\ clock \in 0..Horizon
  /\ window \in Windows \cup {NoWindow}
  /\ allowed \subseteq Runs /\ done \subseteq Runs
  /\ \A r \in Runs : due[r] = NotDue \/ due[r].since < due[r].at
  /\ sent \in Nat

Init ==
  /\ clock = 0 /\ window = NoWindow
  /\ allowed = {} /\ done = {} /\ due = [r \in Runs |-> NotDue]
  /\ sent = 0

IsInQuietHours(w, t) ==
  LET now == (t + Offset) % Day IN
    /\ w # NoWindow
    /\ IF w.start < w.end THEN w.start <= now /\ now < w.end
                          ELSE w.start <= now \/ now < w.end

OpensAtUtc(w, t) ==  \* mutant: the candidates are not taken to the tenant's time zone
  LET open == {i \in 1..25 : ~IsInQuietHours(w, t + i * Hour - Offset)} IN
    IF open = {} THEN t + Day
    ELSE t + Hour * (CHOOSE i \in open : \A j \in open : i <= j)

(* The first of the next 25 full hours outside the window, else a day later. *)
NextWindowOpen(w, t) ==
  LET open == {i \in 1..25 : ~IsInQuietHours(w, t + i * Hour)} IN
    IF open = {} THEN t + Day
    ELSE t + Hour * (CHOOSE i \in open : \A j \in open : i <= j)

Waiting(r) == r \notin allowed \cup done

(* quiet_hours: the run stays deferred; no code resumes it. *)
DeferQuiet(r) ==
  /\ Waiting(r) /\ IsInQuietHours(window, clock)
  /\ due' = [due EXCEPT ![r] = [at |-> NextWindowOpen(window, clock), since |-> clock,
                                window |-> window]]
  /\ done' = done \cup {r}
  /\ UNCHANGED <<clock, window, allowed, sent>>

(* max_per_day_reached: 09:00 UTC of the next day. *)
DeferCapped(r) ==
  /\ Waiting(r) /\ ~IsInQuietHours(window, clock) /\ sent >= Cap
  /\ due' = [due EXCEPT ![r] = [at |-> (clock \div Day + 1) * Day + 9 * Hour, since |-> clock,
                                window |-> NoWindow]]
  /\ done' = done \cup {r}
  /\ UNCHANGED <<clock, window, allowed, sent>>

AllowsAtCap(r) ==  \* mutant: sent_today > max_per_day
  /\ Waiting(r) /\ ~IsInQuietHours(window, clock) /\ sent <= Cap
  /\ allowed' = allowed \cup {r}
  /\ UNCHANGED <<clock, window, done, due, sent>>

Allow(r) ==
  /\ Waiting(r) /\ ~IsInQuietHours(window, clock) /\ sent < Cap
  /\ allowed' = allowed \cup {r}
  /\ UNCHANGED <<clock, window, done, due, sent>>

(* dispatchAction inserts the message. *)
Send(r) ==
  /\ r \in allowed
  /\ sent' = sent + 1
  /\ allowed' = allowed \ {r} /\ done' = done \cup {r}
  /\ UNCHANGED <<clock, window, due>>

(* The run ends without a message, or is over: another run of the contact may take its place. *)
Restart(r) ==
  /\ r \in allowed \cup done
  /\ allowed' = allowed \ {r} /\ done' = done \ {r}
  /\ due' = [due EXCEPT ![r] = NotDue]
  /\ UNCHANGED <<clock, window, sent>>

SetWindow ==
  /\ \E w \in Windows \cup {NoWindow} : w # window /\ window' = w
  /\ UNCHANGED <<clock, allowed, done, due, sent>>

Tick ==
  /\ clock < Horizon
  /\ clock' = clock + 1
  /\ sent' = IF (clock + 1) % Day = 0 THEN 0 ELSE sent
  /\ due' = [r \in Runs |-> NotDue]
  /\ UNCHANGED <<window, allowed, done>>

Next ==
  \/ \E r \in Runs : DeferQuiet(r) \/ DeferCapped(r) \/ Allow(r) \/ Send(r) \/ Restart(r)
  \/ SetWindow \/ Tick

Spec == Init /\ [][Next]_vars

-----------------------------------------------------------------------------
(* Runs that counted the day's messages together pass the cap together, and no further:    *)
(* a contact gets at most one message more than the cap for each other run at work         *)
(* (context-loader.ts:265-270, policy-gate.ts:189).                                        *)
CapOvershootBounded == sent <= Cap - 1 + Cardinality(Runs)

Quiet(w, t)    == (t + Offset - w.start) % Day <= (w.end - w.start - 1) % Day
OpenHour(w, t) == \E s \in t..(t + Day - Hour) : \A u \in s..(s + Hour - 1) : ~Quiet(w, u)

(* A run deferred for quiet hours is told a time outside them, at most an hour after they  *)
(* end, across midnight and time zones, if the day has an open hour at all                 *)
(* (policy-gate.ts:87-132).                                                                *)
DeferredToOpenHours ==
  \A r \in Runs : LET d == due[r] IN
    d.window # NoWindow /\ OpenHour(d.window, d.since) =>
      /\ ~Quiet(d.window, d.at)
      /\ \A u \in d.since..(d.at - Hour) : Quiet(d.window, u)
=============================================================================
