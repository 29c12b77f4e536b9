----------------------------- MODULE VoiceCall -----------------------------
(***************************************************************************)
(* One outbound call.  icrv-voice places it; the RingCentral webhook       *)
(* (icrv-hooks) and POST /calls/:id/end (icrv-api) write its status twice, *)
(* in the call_logs row and in the VoiceSessionDO that the live view       *)
(* reads; the end of the call starts a post_call agent run.                *)
(*                                                                         *)
(* RingCentral is external: what it says of a session may reach the        *)
(* webhook late, twice, out of order or never.  A session is named by the  *)
(* delivery of the voice_out message that opened it.                       *)
(***************************************************************************)
EXTENDS Integers

CONSTANTS Deliveries,  \* deliveries of the call's voice_out message
          Hooks,       \* invocations of the RingCentral webhook
          Ends,        \* POST /calls/:id/end requests
          MaxFailures  \* bound: invocations that fail or die

VARIABLES
  job,      \* where each delivery is in queue() and placeCall
  marked,   \* the message's key is in KV_IDEMP
  row,      \* the call_logs row
  session,  \* the VoiceSessionDO: by names the /init that made its state
  line,     \* each RingCentral session
  said,     \* what RingCentral has said of each session
  hook, ender,
  crossed,  \* two status updates ran into each other
  postcalls, runs, failures

callVars == <<row, session, crossed>>
workVars == <<job, marked, line, said, hook, ender>>
vars     == <<callVars, workVars, postcalls, runs, failures>>

Terminal == {"ended", "voicemail", "no_answer"}
Statuses == {"queued", "ringing", "connected", "failed"} \cup Terminal
NoCall   == "none"
Codes    == {"setup", "answered", "disconnected", "voicemail", "noanswer"}

TypeOK ==
  /\ job \in [Deliveries -> {"queued", "new", "init", "ring", "dial", "note", "bridge",
                             "link", "bind", "done"}]
  /\ marked \in BOOLEAN /\ crossed \in BOOLEAN
  /\ row \in [status: Statuses, rc: Deliveries \cup {NoCall}]
  /\ session \in [by: Deliveries \cup {NoCall}, status: Statuses, rc: Deliveries \cup {NoCall}]
  /\ line \in [Deliveries -> {"none", "setup", "answered", "over"}]
  /\ said \subseteq Deliveries \X Codes
  /\ hook \in [Hooks -> [at: {"idle", "row", "tell", "queue", "done"},
                         rc: Deliveries \cup {NoCall}, status: Statuses]]
  /\ ender \in [Ends -> [at: {"idle", "session", "hang", "row", "done"},
                         by: Deliveries \cup {NoCall}, rc: Deliveries \cup {NoCall}]]
  /\ postcalls \in Nat /\ runs \in Nat /\ failures \in 0..MaxFailures

Init ==
  /\ job = [d \in Deliveries |-> "queued"] /\ marked = FALSE
  /\ row = [status |-> "queued", rc |-> NoCall]
  /\ session = [by |-> NoCall, status |-> "queued", rc |-> NoCall]
  /\ line = [d \in Deliveries |-> "none"] /\ said = {}
  /\ hook = [h \in Hooks |-> [at |-> "idle", rc |-> NoCall, status |-> "queued"]]
  /\ ender = [e \in Ends |-> [at |-> "idle", by |-> NoCall, rc |-> NoCall]]
  /\ crossed = FALSE
  /\ postcalls = 0 /\ runs = 0 /\ failures = 0

(* The status updates that have written one of the two places and not the other. *)
Open ==
  {d \in Deliveries : job[d] = "ring"}
    \cup {h \in Hooks : hook[h].at = "tell"}
    \cup {e \in Ends : ender[e].at \in {"hang", "row"}}

Crosses(self) == crossed' = (crossed \/ Open \ {self} # {})

-----------------------------------------------------------------------------
(* icrv-voice: the queue handler and placeCall. *)

GoTo(d, p) == job' = [job EXCEPT ![d] = p]

CheckMarker(d) ==
  /\ job[d] = "queued"
  /\ GoTo(d, IF marked THEN "done" ELSE "new")
  /\ UNCHANGED <<callVars, marked, line, said, hook, ender, postcalls, runs, failures>>

SetMarker(d) ==
  /\ job[d] = "new"
  /\ marked' = TRUE
  /\ GoTo(d, "init")
  /\ UNCHANGED <<callVars, line, said, hook, ender, postcalls, runs, failures>>

InitSession(d) ==
  /\ job[d] = "init"
  /\ session' = [by |-> d, status |-> "queued", rc |-> NoCall]
  /\ GoTo(d, "ring")
  /\ Crosses(d)
  /\ UNCHANGED <<row, marked, line, said, hook, ender, postcalls, runs, failures>>

RowRinging(d) ==
  /\ job[d] = "ring"
  /\ row' = [row EXCEPT !.status = "ringing"]
  /\ GoTo(d, "dial")
  /\ Crosses(d)
  /\ UNCHANGED <<session, marked, line, said, hook, ender, postcalls, runs, failures>>

Dial(d) ==
  /\ job[d] = "dial"
  /\ GoTo(d, "note")
  /\ UNCHANGED <<callVars, marked, line, said, hook, ender, postcalls, runs, failures>>

(* No phone number id, or ElevenLabs answers no: the row fails, and the retry that           *)
(* scheduleRetry queues comes back to the marker.                                            *)
DialRefused(d) ==
  /\ job[d] = "dial"
  /\ failures < MaxFailures /\ failures' = failures + 1
  /\ row' = [row EXCEPT !.status = "failed"]
  /\ GoTo(d, "queued")
  /\ UNCHANGED <<session, crossed, marked, line, said, hook, ender, postcalls, runs>>

NoteConversation(d) ==
  /\ job[d] = "note"
  /\ GoTo(d, "bridge")
  /\ UNCHANGED <<callVars, marked, line, said, hook, ender, postcalls, runs, failures>>

RingOut(d) ==
  /\ job[d] = "bridge"
  /\ line' = [line EXCEPT ![d] = "setup"]
  /\ said' = said \cup {<<d, "setup">>}
  /\ GoTo(d, "link")
  /\ UNCHANGED <<callVars, marked, hook, ender, postcalls, runs, failures>>

LinkRow(d) ==
  /\ job[d] = "link"
  /\ row' = [row EXCEPT !.rc = d]
  /\ GoTo(d, "bind")
  /\ UNCHANGED <<session, crossed, marked, line, said, hook, ender, postcalls, runs, failures>>

BindSession(d) ==
  /\ job[d] = "bind"
  /\ session' = [session EXCEPT !.rc = d]
  /\ GoTo(d, "done")
  /\ UNCHANGED <<row, crossed, marked, line, said, hook, ender, postcalls, runs, failures>>

(* The catch around placeCall, or the death of its invocation: the message comes again. *)
PlaceFails(d) ==
  /\ job[d] \notin {"queued", "done"}
  /\ failures < MaxFailures /\ failures' = failures + 1
  /\ GoTo(d, "queued")
  /\ UNCHANGED <<callVars, marked, line, said, hook, ender, postcalls, runs>>

Place(d) ==
  \/ CheckMarker(d) \/ SetMarker(d) \/ InitSession(d) \/ RowRinging(d)
  \/ Dial(d) \/ DialRefused(d) \/ NoteConversation(d) \/ RingOut(d)
  \/ LinkRow(d) \/ BindSession(d) \/ PlaceFails(d)

-----------------------------------------------------------------------------
(* RingCentral. *)

Progress(d, code) ==
  /\ \/ line[d] = "setup" /\ code \in {"answered", "voicemail", "noanswer"}
     \/ line[d] = "answered" /\ code = "disconnected"
  /\ line' = [line EXCEPT ![d] = IF code = "answered" THEN "answered" ELSE "over"]
  /\ said' = said \cup {<<d, code>>}
  /\ UNCHANGED <<callVars, job, marked, hook, ender, postcalls, runs, failures>>

-----------------------------------------------------------------------------
(* POST /hooks/ringcentral. *)

StatusOf(code) ==
  CASE code = "setup" -> "ringing"      [] code = "answered" -> "connected"
    [] code = "disconnected" -> "ended" [] code = "voicemail" -> "voicemail"
    [] code = "noanswer" -> "no_answer"

HookFind(h) ==
  /\ hook[h].at = "idle"
  /\ \E m \in said :
       hook' = [hook EXCEPT ![h] = [at |-> IF row.rc = m[1] THEN "row" ELSE "done",
                                    rc |-> m[1], status |-> StatusOf(m[2])]]
  /\ UNCHANGED <<callVars, job, marked, line, said, ender, postcalls, runs, failures>>

HookRow(h) ==
  /\ hook[h].at = "row"
  /\ row' = [row EXCEPT !.status = hook[h].status]
  /\ hook' = [hook EXCEPT ![h].at = "tell"]
  /\ Crosses(h)
  /\ UNCHANGED <<session, job, marked, line, said, ender, postcalls, runs, failures>>

HookTell(h) ==
  /\ hook[h].at = "tell"
  /\ session' = IF session.by = NoCall THEN session
                ELSE [session EXCEPT !.rc = hook[h].rc, !.status = hook[h].status]
  /\ hook' = [hook EXCEPT ![h].at = IF hook[h].status \in Terminal THEN "queue" ELSE "done"]
  /\ Crosses(h)
  /\ UNCHANGED <<row, job, marked, line, said, ender, postcalls, runs, failures>>

HookQueue(h) ==
  /\ hook[h].at = "queue"
  /\ postcalls' = postcalls + 1
  /\ hook' = [hook EXCEPT ![h].at = "done"]
  /\ UNCHANGED <<callVars, job, marked, line, said, ender, runs, failures>>

HookDies(h) ==
  /\ hook[h].at \in {"row", "tell", "queue"}
  /\ failures < MaxFailures /\ failures' = failures + 1
  /\ hook' = [hook EXCEPT ![h].at = "done"]
  /\ UNCHANGED <<callVars, job, marked, line, said, ender, postcalls, runs>>

HookStep(h) == HookFind(h) \/ HookRow(h) \/ HookTell(h) \/ HookQueue(h) \/ HookDies(h)

-----------------------------------------------------------------------------
(* POST /calls/:id/end, and /end of the VoiceSessionDO. *)

EndRead(e) ==
  /\ ender[e].at = "idle"
  /\ ender' = [ender EXCEPT ![e].at =
                 IF row.status \in Terminal \cup {"failed"} THEN "done" ELSE "session"]
  /\ UNCHANGED <<callVars, job, marked, line, said, hook, postcalls, runs, failures>>

LeavesSession(e) ==  \* mutant: nothing is set when the session has no RingCentral id
  /\ ender[e].at = "session" /\ session.rc = NoCall
  /\ ender' = [ender EXCEPT ![e].at = "row"]
  /\ Crosses(e)
  /\ UNCHANGED <<row, session, job, marked, line, said, hook, postcalls, runs, failures>>

EndUnbound(e) ==
  /\ ender[e].at = "session" /\ session.rc = NoCall
  /\ session' = IF session.by = NoCall THEN session ELSE [session EXCEPT !.status = "ended"]
  /\ ender' = [ender EXCEPT ![e].at = "row"]
  /\ Crosses(e)
  /\ UNCHANGED <<row, job, marked, line, said, hook, postcalls, runs, failures>>

(* The object awaits RingCentral here, and other events may come to it. *)
EndBound(e) ==
  /\ ender[e].at = "session" /\ session.rc # NoCall
  /\ ender' = [ender EXCEPT ![e] = [at |-> "hang", by |-> session.by, rc |-> session.rc]]
  /\ Crosses(e)
  /\ UNCHANGED <<row, session, job, marked, line, said, hook, postcalls, runs, failures>>

HangUp(e) ==
  /\ ender[e].at = "hang"
  /\ LET d == ender[e].rc IN
       \/ /\ line[d] \in {"setup", "answered"}
          /\ line' = [line EXCEPT ![d] = "over"]
          /\ said' = said \cup {<<d, "disconnected">>}
       \/ UNCHANGED <<line, said>>  \* refused, or already over: best effort
  /\ session' = IF session.by = ender[e].by THEN [session EXCEPT !.status = "ended"] ELSE session
  /\ ender' = [ender EXCEPT ![e].at = "row"]
  /\ Crosses(e)
  /\ UNCHANGED <<row, job, marked, hook, postcalls, runs, failures>>

EndRow(e) ==
  /\ ender[e].at = "row"
  /\ row' = [row EXCEPT !.status = "ended"]
  /\ ender' = [ender EXCEPT ![e].at = "done"]
  /\ Crosses(e)
  /\ UNCHANGED <<session, job, marked, line, said, hook, postcalls, runs, failures>>

EndStep(e) == EndRead(e) \/ EndUnbound(e) \/ EndBound(e) \/ HangUp(e) \/ EndRow(e)

-----------------------------------------------------------------------------
(* processPostCall: the recording is best effort; a delivery that fails after Q_AGENT.send   *)
(* starts the run again.                                                                     *)
PostCall ==
  /\ postcalls > 0
  /\ runs' = runs + 1
  /\ \/ postcalls' = postcalls - 1 /\ UNCHANGED failures
     \/ failures < MaxFailures /\ failures' = failures + 1 /\ UNCHANGED postcalls
  /\ UNCHANGED <<callVars, workVars>>

Next ==
  \/ \E d \in Deliveries : Place(d) \/ \E code \in Codes : Progress(d, code)
  \/ \E h \in Hooks : HookStep(h)
  \/ \E e \in Ends : EndStep(e)
  \/ PostCall

Spec == Init /\ [][Next]_vars

-----------------------------------------------------------------------------
(* The call list, which reads the row, and the live view, which reads the VoiceSessionDO,   *)
(* give one status once the updates under way have ended, unless two of them crossed, an    *)
(* invocation failed between its two writes, or the call could not be placed               *)
(* (voice-session.ts:119-158, calls.ts:171-179, icrv-hooks/src/index.ts:169-189).           *)
ViewsAgree ==
  Open = {} /\ ~crossed /\ failures = 0 /\ session.by # NoCall =>
    \/ session.status = row.status
    \/ session.status = "queued" /\ row.status = "ringing"
=============================================================================
