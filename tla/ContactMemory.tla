---------------------------- MODULE ContactMemory ----------------------------
(***************************************************************************)
(* The two bounded memories of a contact, each a Durable Object that keeps *)
(* its window in memory and writes it through to its storage:              *)
(* AgentSessionDO (icrv-agent), in the order of arrival, with a count of   *)
(* the messages not answered, and ContactInboxDO (icrv-api), in the order  *)
(* of occurrence.  icrv-agent pushes its decisions to the first one, and   *)
(* nothing yet pushes to the second; who else may is external: events      *)
(* arrive late, in any order, or twice.                                    *)
(*                                                                         *)
(* A handler is one step: no event reaches an object that awaits its       *)
(* storage.                                                                *)
(***************************************************************************)
EXTENDS Integers, FiniteSets, SequencesExt

CONSTANTS Times,      \* occurred_at of the events
          MaxEvents,  \* bound: events pushed
          Window      \* WINDOW_SIZE (20), WINDOW (50)

VARIABLES
  session,    \* PersistedState of the AgentSessionDO, as stored
  inbox,      \* events of the ContactInboxDO, as stored
  total,      \* total_events of the inbox
  loaded,     \* the objects that hold a copy of their storage
  pushed,     \* every event pushed, in the order of arrival
  since       \* how many of them came before the last reset of the session

vars == <<session, inbox, total, loaded, pushed, since>>

Directions == {"inbound", "outbound", "none"}
Events     == [time : Times, direction : Directions]
Objects    == {"session", "inbox"}
Fresh      == [events |-> <<>>, unanswered |-> 0, total |-> 0]

TypeOK ==
  /\ session.events \in Seq(Events) /\ Len(session.events) <= Window
  /\ session.unanswered \in Nat /\ session.total \in Nat
  /\ inbox \in Seq(Events) /\ Len(inbox) <= Window /\ total \in Nat
  /\ loaded \subseteq Objects
  /\ pushed \in Seq(Events) /\ Len(pushed) <= MaxEvents
  /\ since \in 0..Len(pushed)

Init ==
  /\ session = Fresh /\ inbox = <<>> /\ total = 0
  /\ loaded = {} /\ pushed = <<>> /\ since = 0

-----------------------------------------------------------------------------
TrimsLate(s) ==  \* mutant: the window may be longer by one
  IF Len(s) > Window + 1 THEN Tail(s) ELSE s

(* shift() drops the first event of a window that has grown too long. *)
Trim(s) == IF Len(s) > Window THEN Tail(s) ELSE s

(* pushEvent. *)
PushSession(e) ==
  session' = [events |-> Trim(Append(session.events, e)),
              unanswered |-> CASE e.direction = "outbound" -> session.unanswered + 1
                               [] e.direction = "inbound" -> 0
                               [] OTHER -> session.unanswered,
              total |-> session.total + 1]

(* Before the first event that occurred later, or at the end. *)
Place(s, e) ==
  LET later == {i \in 1..Len(s) : s[i].time > e.time} IN
    IF later = {} THEN Len(s) + 1 ELSE CHOOSE i \in later : \A j \in later : i <= j

AppendsInbox(e) ==  \* mutant: the event goes to the end
  /\ inbox' = Trim(Append(inbox, e))
  /\ total' = total + 1

PushInbox(e) ==
  /\ inbox' = Trim(InsertAt(inbox, Place(inbox, e), e))
  /\ total' = total + 1

Push(e) ==
  /\ Len(pushed) < MaxEvents
  /\ pushed' = Append(pushed, e)
  /\ PushSession(e) /\ PushInbox(e)
  /\ loaded' = Objects
  /\ UNCHANGED since

(* POST /reset of the session: the contact is enrolled again. *)
ResetSession ==
  /\ since < Len(pushed)
  /\ session' = Fresh /\ since' = Len(pushed)
  /\ loaded' = loaded \cup {"session"}
  /\ UNCHANGED <<inbox, total, pushed>>

(* GET /snapshot and GET /state load what is stored; an evicted object forgets its copy.   *)
Load(o) ==
  /\ o \notin loaded
  /\ loaded' = loaded \cup {o}
  /\ UNCHANGED <<session, inbox, total, pushed, since>>

Evict(o) ==
  /\ o \in loaded
  /\ loaded' = loaded \ {o}
  /\ UNCHANGED <<session, inbox, total, pushed, since>>

Next ==
  \/ \E e \in Events : Push(e)
  \/ ResetSession
  \/ \E o \in Objects : Load(o) \/ Evict(o)

Spec == Init /\ [][Next]_vars

-----------------------------------------------------------------------------
LeastOf(a, b) == IF a <= b THEN a ELSE b

Before(i, j) ==  \* in the order of occurrence, and of arrival for one time
  pushed[i].time < pushed[j].time \/ (pushed[i].time = pushed[j].time /\ i < j)

(* The inbox holds the latest events by the time they occurred, in that order, however     *)
(* late they arrive (contact-inbox.ts:48-52).                                              *)
InboxIsLatest ==
  /\ Len(inbox) = LeastOf(Window, Len(pushed))
  /\ \A i \in DOMAIN pushed :
       LET rank == Cardinality({j \in DOMAIN pushed : Before(j, i)}) + 1
           place == rank - (Len(pushed) - Len(inbox))
       IN place > 0 => inbox[place] = pushed[i]

(* The session holds the last events that arrived since its reset, and counts every        *)
(* message sent since the last answer, those that have left the window included            *)
(* (agent-session-do.ts:181-200).                                                          *)
SessionIsRecent ==
  LET got  == SubSeq(pushed, since + 1, Len(pushed))
      kept == LeastOf(Window, Len(got))
      sentAt(i) == got[i].direction = "outbound"
                     /\ \A j \in i..Len(got) : got[j].direction # "inbound"
  IN /\ session.events = SubSeq(got, Len(got) - kept + 1, Len(got))
     /\ session.unanswered = Cardinality({i \in DOMAIN got : sentAt(i)})
=============================================================================
