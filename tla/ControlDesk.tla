---------------------------- MODULE ControlDesk ----------------------------
(***************************************************************************)
(* The kill switch as operators handle it: several desks (browser tabs     *)
(* with AIControlPanel and the context that polls the controls), and the   *)
(* tenant's row in agent_controls.  A desk shows the last answer to its    *)
(* polls, has a draft of the row's settings that Save writes back as a     *)
(* whole, and a dialog in which the operator confirms the change of the    *)
(* switch.  Of the settings only kill_switch is kept.                      *)
(***************************************************************************)
EXTENDS Integers, FiniteSets

CONSTANTS Desks,
          MaxWrites,   \* bound: mutations asked for
          MaxInFlight, \* bound: polls of a desk not yet answered
          MaxFailures  \* bound: requests that fail

Missing == [there |-> FALSE, kill |-> FALSE, version |-> 0]

VARIABLES
  row,      \* the tenant's row: whether it is there, its kill_switch, writes so far
  view,     \* the row as each desk was last told, Unknown before
  polls,    \* answers under way to each desk: the row as it was read
  draft,    \* kill_switch of each desk's draft
  dialog,   \* what the open dialog says, or "none"
  request,  \* the mutation each desk waits for
  owner,    \* the desk that wrote last
  misled,   \* desks that took settings older than their last write, or during one
  wrote,    \* version of each desk's last write
  writes, failures

desk_vars == <<view, polls, draft, dialog, request, misled, wrote>>
vars == <<row, desk_vars, owner, writes, failures>>

Unknown == [there |-> FALSE, kill |-> FALSE, version |-> -1]
Rows == [there : BOOLEAN, kill : BOOLEAN, version : 0..MaxWrites]
Idle == [at |-> "idle", op |-> "save", kill |-> FALSE]

Ops == {"activate", "deactivate", "save"}

TypeOK ==
  /\ row \in Rows
  /\ view \in [Desks -> Rows \cup {Unknown}]
  /\ polls \in [Desks -> SUBSET Rows]
  /\ draft \in [Desks -> BOOLEAN]
  /\ dialog \in [Desks -> {"none", "activate", "deactivate"}]
  /\ request \in [Desks -> [at : {"idle", "sent", "handled"}, op : Ops, kill : BOOLEAN]]
  /\ owner \in Desks \cup {"nobody"} /\ misled \subseteq Desks
  /\ wrote \in [Desks -> 0..MaxWrites]
  /\ writes \in 0..MaxWrites /\ failures \in 0..MaxFailures

Init ==
  /\ row \in {Missing, [Missing EXCEPT !.there = TRUE]}
  /\ view = [d \in Desks |-> Unknown]
  /\ polls = [d \in Desks |-> {row}]
  /\ draft = [d \in Desks |-> FALSE]
  /\ dialog = [d \in Desks |-> "none"]
  /\ request = [d \in Desks |-> Idle]
  /\ owner = "nobody" /\ misled = {} /\ wrote = [d \in Desks |-> 0]
  /\ writes = 0 /\ failures = 0

Active(d) == view[d] # Unknown /\ ~view[d].kill

----------------------------------------------------------------------------
(* Polls, every thirty seconds and after a mutation. *)

Asked(d) == [polls EXCEPT ![d] = IF Cardinality(@) < MaxInFlight THEN @ \cup {row} ELSE @]

Poll(d) ==
  /\ Cardinality(polls[d]) < MaxInFlight
  /\ polls' = Asked(d)
  /\ UNCHANGED <<row, view, draft, dialog, request, misled, wrote, owner, writes, failures>>

Takes(d, r) ==  \* the draft takes the settings of r
  /\ draft' = [draft EXCEPT ![d] = r.kill]
  /\ misled' = IF r.version < wrote[d] \/ request[d].at # "idle" THEN misled \cup {d}
               ELSE misled

Told(d, r) ==  \* the draft follows the id of the row, not its settings
  /\ view' = [view EXCEPT ![d] = r]
  /\ polls' = [polls EXCEPT ![d] = @ \ {r}]
  /\ IF r.there /\ ~view[d].there THEN Takes(d, r) ELSE UNCHANGED <<draft, misled>>
  /\ UNCHANGED <<row, dialog, request, wrote, owner, writes, failures>>

PollFails(d, r) ==
  /\ failures < MaxFailures /\ failures' = failures + 1
  /\ polls' = [polls EXCEPT ![d] = @ \ {r}]
  /\ UNCHANGED <<row, view, draft, dialog, request, misled, wrote, owner, writes>>

Reset(d) ==
  /\ view[d].there /\ draft[d] # view[d].kill
  /\ Takes(d, view[d])
  /\ UNCHANGED <<row, view, polls, dialog, request, wrote, owner, writes, failures>>

----------------------------------------------------------------------------
(* Mutations. *)

OpenDialog(d) ==
  /\ dialog[d] = "none"
  /\ dialog' = [dialog EXCEPT ![d] = IF Active(d) THEN "activate" ELSE "deactivate"]
  /\ UNCHANGED <<row, view, polls, draft, request, misled, wrote, owner, writes, failures>>

CloseDialog(d) ==
  /\ dialog[d] # "none"
  /\ dialog' = [dialog EXCEPT ![d] = "none"]
  /\ UNCHANGED <<row, view, polls, draft, request, misled, wrote, owner, writes, failures>>

Sends(d, op) ==
  /\ request[d].at = "idle" /\ writes < MaxWrites
  /\ writes' = writes + 1
  /\ request' = [request EXCEPT ![d] = [at |-> "sent", op |-> op, kill |-> draft[d]]]

Confirm(d) ==  \* handleKillSwitch goes by the view of this moment, not by the dialog
  /\ dialog[d] # "none"
  /\ dialog' = [dialog EXCEPT ![d] = "none"]
  /\ Sends(d, IF Active(d) THEN "activate" ELSE "deactivate")
  /\ UNCHANGED <<row, view, polls, draft, misled, wrote, owner, failures>>

Save(d) ==
  /\ dialog[d] = "none"
  /\ Sends(d, "save")
  /\ UNCHANGED <<row, view, polls, draft, dialog, misled, wrote, owner, failures>>

Written(d, kill) ==
  /\ row' = [there |-> TRUE, kill |-> kill, version |-> row.version + 1]
  /\ wrote' = [wrote EXCEPT ![d] = row.version + 1]
  /\ owner' = d

Handled(d) == request' = [request EXCEPT ![d].at = "handled"]

HandleActivate(d) ==
  /\ request[d].at = "sent" /\ request[d].op = "activate"
  /\ Written(d, TRUE) /\ Handled(d)
  /\ UNCHANGED <<view, polls, draft, dialog, misled, writes, failures>>

HandleDeactivate(d) ==  \* updates no row if there is none
  /\ request[d].at = "sent" /\ request[d].op = "deactivate"
  /\ IF row.there THEN Written(d, FALSE) ELSE UNCHANGED <<row, wrote, owner>>
  /\ Handled(d)
  /\ UNCHANGED <<view, polls, draft, dialog, misled, writes, failures>>

HandleSave(d) ==
  /\ request[d].at = "sent" /\ request[d].op = "save"
  /\ Written(d, request[d].kill) /\ Handled(d)
  /\ UNCHANGED <<view, polls, draft, dialog, misled, writes, failures>>

AnswerForgotten(d) ==  \* mutant: the draft is left to the next poll
  /\ request[d].at = "handled"
  /\ request' = [request EXCEPT ![d] = Idle]
  /\ polls' = Asked(d)
  /\ UNCHANGED <<row, view, draft, dialog, misled, wrote, owner, writes, failures>>

Answered(d) ==
  /\ request[d].at = "handled"
  /\ request' = [request EXCEPT ![d] = Idle]
  /\ draft' = [draft EXCEPT ![d] = IF request[d].op = "save" THEN @
                                   ELSE request[d].op = "activate"]
  /\ polls' = Asked(d)
  /\ UNCHANGED <<row, view, dialog, misled, wrote, owner, writes, failures>>

RequestFails(d) ==  \* before the handler has run, or after: the desk cannot tell
  /\ request[d].at # "idle" /\ failures < MaxFailures
  /\ failures' = failures + 1
  /\ request' = [request EXCEPT ![d] = Idle]
  /\ misled' = IF request[d].at = "handled" THEN misled \cup {d} ELSE misled
  /\ UNCHANGED <<row, view, polls, draft, dialog, wrote, owner, writes>>

Desk(d) ==
  \/ Poll(d) \/ \E r \in polls[d] : Told(d, r) \/ PollFails(d, r)
  \/ Reset(d) \/ OpenDialog(d) \/ CloseDialog(d) \/ Confirm(d) \/ Save(d)
  \/ HandleActivate(d) \/ HandleDeactivate(d) \/ HandleSave(d)
  \/ Answered(d) \/ RequestFails(d)

Next == \E d \in Desks : Desk(d)

Spec == Init /\ [][Next]_vars

----------------------------------------------------------------------------

(* A kill switch that a desk has switched on itself survives the Save of    *)
(* that desk, whose draft is written back as a whole: as long as nobody     *)
(* else has written, no request of its own was lost, and it took no settings *)
(* from an answer older than its write or during it, the draft has it on.   *)
OwnSwitchSurvivesSave ==
  \A d \in Desks :
    owner = d /\ row.kill /\ request[d].at = "idle" /\ d \notin misled => draft[d]
=============================================================================
