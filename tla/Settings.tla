------------------------------ MODULE Settings ------------------------------
(***************************************************************************)
(* A section of the tenant's settings, the authentication section: the     *)
(* panels that show and save it (frontend/src/pages/Settings.tsx), the     *)
(* handlers that merge a save into the stored object (settings.ts), and    *)
(* the DKIM key, which is kept in KV_CONFIG and mirrored into the section  *)
(* for the panel to show (email-auth.ts).                                  *)
(*                                                                         *)
(* A panel can save and generate at once: each has its own busy flag.      *)
(* 0 stands for the default of a field.                                    *)
(***************************************************************************)
EXTENDS Integers

CONSTANTS Tabs,        \* browser tabs with the panel open
          MaxEdits,    \* bound: edits of the domain
          MaxKeys,     \* bound: keys generated
          MaxRequests, \* bound: saves and generations asked for
          MaxFailures  \* bound: requests that fail or die

VARIABLES
  kv,        \* the key under dkim:<tenant>:<selector> in KV_CONFIG
  stored,    \* authentication_json: the domain, the mirrored key, dkim_generated_at
  version,   \* writes of stored so far
  form,      \* what each panel shows, and the version it comes from
  save,      \* PUT /settings/authentication of each panel
  gen,       \* POST /auth/generate-dkim of each panel
  edits, keys, asked, overtaken, failures

serverVars == <<kv, stored, version>>
vars == <<serverVars, form, save, gen, edits, keys, asked, overtaken, failures>>

Unread == -1
Fields == [domain : 0..MaxEdits, key : 0..MaxKeys, stamp : 0..MaxKeys]
Shown  == [domain : 0..MaxEdits, key : 0..MaxKeys, from : Int]
Nothing == [domain |-> 0, key |-> 0, stamp |-> 0]
Initial == [domain |-> 0, key |-> 0, from |-> Unread]

NoSave == [at |-> "idle", body |-> Initial, current |-> Nothing]
NoGen  == [at |-> "idle", rotate |-> FALSE, data |-> Initial, new |-> 0, current |-> Nothing]

TypeOK ==
  /\ kv \in 0..MaxKeys /\ stored \in Fields /\ version \in Nat
  /\ form \in [Tabs -> [at : {"loading", "loaded"}, data : Shown]]
  /\ save \in [Tabs -> [at : {"idle", "sent", "read", "written"}, body : Shown, current : Fields]]
  /\ gen \in [Tabs -> [at : {"idle", "check", "put", "read", "write", "answer"},
                       rotate : BOOLEAN, data : Shown, new : 0..MaxKeys, current : Fields]]
  /\ edits \in 0..MaxEdits /\ keys \in 0..MaxKeys
  /\ asked \in 0..MaxRequests /\ overtaken \in BOOLEAN /\ failures \in 0..MaxFailures

Init ==
  /\ kv = 0 /\ stored = Nothing /\ version = 0
  /\ form = [t \in Tabs |-> [at |-> "loading", data |-> Initial]]
  /\ save = [t \in Tabs |-> NoSave] /\ gen = [t \in Tabs |-> NoGen]
  /\ edits = 0 /\ keys = 0 /\ asked = 0 /\ overtaken = FALSE /\ failures = 0

Loaded(t) == form[t].at = "loaded"
Fail      == failures < MaxFailures /\ failures' = failures + 1
Ask       == asked < MaxRequests /\ asked' = asked + 1

(* A write by one who read version v: overtaken if the object was written in between. *)
Write(fields, v) ==
  /\ stored' = fields
  /\ version' = version + 1
  /\ overtaken' = (overtaken \/ v # version)

-----------------------------------------------------------------------------
(* useSection: the panel. *)

Load(t) ==
  /\ form[t].at = "loading"
  /\ form' = [form EXCEPT ![t] = [at |-> "loaded",
                data |-> [domain |-> stored.domain, key |-> stored.key, from |-> version]]]
  /\ UNCHANGED <<serverVars, save, gen, edits, keys, overtaken, failures, asked>>

(* The panel opens all the same, with the initial values. *)
LoadFails(t) ==
  /\ form[t].at = "loading"
  /\ form' = [form EXCEPT ![t].at = "loaded"]
  /\ Fail
  /\ UNCHANGED <<serverVars, save, gen, edits, keys, overtaken, asked>>

Edit(t) ==
  /\ Loaded(t) /\ edits < MaxEdits
  /\ edits' = edits + 1
  /\ form' = [form EXCEPT ![t].data.domain = edits + 1]
  /\ UNCHANGED <<serverVars, save, gen, keys, overtaken, failures, asked>>

Save(t) ==
  /\ Loaded(t) /\ save[t].at = "idle" /\ Ask
  /\ save' = [save EXCEPT ![t].at = "sent", ![t].body = form[t].data]
  /\ UNCHANGED <<serverVars, form, gen, edits, keys, overtaken, failures>>

(* setData(next): what the handler has merged. *)
SaveAnswered(t) ==
  /\ save[t].at = "written"
  /\ form' = [form EXCEPT ![t].data = save[t].body]
  /\ save' = [save EXCEPT ![t] = NoSave]
  /\ UNCHANGED <<serverVars, gen, edits, keys, overtaken, failures, asked>>

Generate(t) ==
  /\ Loaded(t) /\ gen[t].at = "idle" /\ Ask
  /\ gen' = [gen EXCEPT ![t].at = "check", ![t].rotate = form[t].data.key # 0,
                      ![t].data = form[t].data]
  /\ UNCHANGED <<serverVars, form, save, edits, keys, overtaken, failures>>

(* setData({ ...data, ... }): data is what the panel showed at the click. *)
Generated(t) ==
  /\ gen[t].at = "answer"
  /\ form' = [form EXCEPT ![t].data = [gen[t].data EXCEPT !.key = gen[t].new]]
  /\ gen' = [gen EXCEPT ![t] = NoGen]
  /\ UNCHANGED <<serverVars, save, edits, keys, overtaken, failures, asked>>

-----------------------------------------------------------------------------
(* PUT /settings/:section. *)

PutRead(t) ==
  /\ save[t].at = "sent"
  /\ save' = [save EXCEPT ![t].at = "read", ![t].current = stored]
  /\ UNCHANGED <<serverVars, form, gen, edits, keys, overtaken, failures, asked>>

PutsBody(t) ==  \* mutant: the fields that the body does not name are not kept
  /\ save[t].at = "read"
  /\ Write([domain |-> save[t].body.domain, key |-> save[t].body.key, stamp |-> 0], save[t].body.from)
  /\ save' = [save EXCEPT ![t].at = "written", ![t].body.from = version + 1]
  /\ UNCHANGED <<kv, form, gen, edits, keys, failures, asked>>

PutMerged(t) ==
  /\ save[t].at = "read"
  /\ Write([save[t].current EXCEPT !.domain = save[t].body.domain, !.key = save[t].body.key],
           save[t].body.from)
  /\ save' = [save EXCEPT ![t].at = "written", ![t].body.from = version + 1]
  /\ UNCHANGED <<kv, form, gen, edits, keys, failures, asked>>

SaveFails(t) ==
  /\ save[t].at \in {"sent", "read", "written"}
  /\ save' = [save EXCEPT ![t] = NoSave]
  /\ Fail
  /\ UNCHANGED <<serverVars, form, gen, edits, keys, overtaken, asked>>

-----------------------------------------------------------------------------
(* POST /auth/generate-dkim. *)

CheckKey(t) ==
  /\ gen[t].at = "check"
  /\ gen' = IF ~gen[t].rotate /\ kv # 0
            THEN [gen EXCEPT ![t].at = "answer", ![t].new = kv]
            ELSE [gen EXCEPT ![t].at = "put"]
  /\ UNCHANGED <<serverVars, form, save, edits, keys, overtaken, failures, asked>>

PutKey(t) ==
  /\ gen[t].at = "put" /\ keys < MaxKeys
  /\ keys' = keys + 1
  /\ kv' = keys + 1
  /\ gen' = [gen EXCEPT ![t].at = "read", ![t].new = keys + 1]
  /\ UNCHANGED <<stored, version, form, save, edits, overtaken, failures, asked>>

ReadSection(t) ==
  /\ gen[t].at = "read"
  /\ gen' = [gen EXCEPT ![t].at = "write", ![t].current = stored]
  /\ UNCHANGED <<serverVars, form, save, edits, keys, overtaken, failures, asked>>

MirrorKey(t) ==
  /\ gen[t].at = "write"
  /\ Write([domain |-> gen[t].current.domain, key |-> gen[t].new, stamp |-> gen[t].new],
           gen[t].data.from)
  /\ gen' = [gen EXCEPT ![t].at = "answer", ![t].data.from = version + 1]
  /\ UNCHANGED <<kv, form, save, edits, keys, failures, asked>>

GenerateFails(t) ==
  /\ gen[t].at # "idle"
  /\ gen' = [gen EXCEPT ![t] = NoGen]
  /\ Fail
  /\ UNCHANGED <<serverVars, form, save, edits, keys, overtaken, asked>>

-----------------------------------------------------------------------------
Panel(t) ==
  \/ Load(t) \/ LoadFails(t) \/ Edit(t)
  \/ Save(t) \/ SaveAnswered(t) \/ Generate(t) \/ Generated(t)

Handlers(t) ==
  \/ PutRead(t) \/ PutMerged(t) \/ SaveFails(t)
  \/ CheckKey(t) \/ PutKey(t) \/ ReadSection(t) \/ MirrorKey(t) \/ GenerateFails(t)

Next == \E t \in Tabs : Panel(t) \/ Handlers(t)

Spec == Init /\ [][Next]_vars

-----------------------------------------------------------------------------
Quiet == \A t \in Tabs : save[t].at = "idle" /\ gen[t].at \in {"idle", "answer"}

(* The key the section shows, which the customer copies into the DNS, is the key the tenant *)
(* signs with, unless a panel wrote what another write had overtaken, or a request failed   *)
(* halfway (email-auth.ts:112-128, settings.ts:115-117, Settings.tsx useSection).           *)
KeyIsMirrored ==
  Quiet /\ ~overtaken /\ failures = 0 => stored.key = kv /\ stored.stamp = kv
=============================================================================
