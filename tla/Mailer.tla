------------------------------- MODULE Mailer -------------------------------
(***************************************************************************)
(* What the outbound path promises of an e-mail.  It has a number of       *)
(* chances to be sent, one per copy of its queue message.  A chance that   *)
(* is used or lost does not come back, whatever is redelivered or retried; *)
(* what is stopped is not sent; "sent" is recorded only of what the        *)
(* provider has, and "failed" only at the price of a chance.               *)
(* EmailOut implements it (queue(), sendEmail() and isDuplicate()).        *)
(***************************************************************************)
EXTENDS Integers

CONSTANTS Emails,  \* the e-mails to send
          Chances  \* how many chances each of them has

VARIABLES
  left,     \* the chances each e-mail still has
  sent,     \* how often the provider has accepted it
  record,   \* its status, as the operator sees it
  stopped   \* the e-mails revoked in time

vars == <<left, sent, record, stopped>>

Init ==
  /\ left = Chances
  /\ sent = [m \in Emails |-> 0]
  /\ record = [m \in Emails |-> "none"]
  /\ stopped = {}

Note(m, status) == record' = [record EXCEPT ![m] = status]

Compose(m) ==
  /\ record[m] = "none"
  /\ Note(m, "queued")
  /\ UNCHANGED <<left, sent, stopped>>

(* A handler that may still send takes the e-mail up. *)
TakeUp(m) ==
  /\ record[m] # "none" /\ left[m] > 0
  /\ Note(m, "sending")
  /\ UNCHANGED <<left, sent, stopped>>

Accept(m) ==
  /\ record[m] # "none" /\ left[m] > 0 /\ m \notin stopped
  /\ left' = [left EXCEPT ![m] = @ - 1]
  /\ sent' = [sent EXCEPT ![m] = @ + 1]
  /\ UNCHANGED <<record, stopped>>

(* Chances go unused; what is recorded as failed has lost one. *)
GiveUp(m) ==
  /\ \E n \in 0..(left[m] - 1) : left' = [left EXCEPT ![m] = n]
  /\ Note(m, "failed") \/ UNCHANGED record
  /\ UNCHANGED <<sent, stopped>>

Confirm(m) ==
  /\ sent[m] > 0
  /\ Note(m, "sent")
  /\ UNCHANGED <<left, sent, stopped>>

Stop(m) ==
  /\ record[m] # "none" /\ sent[m] = 0
  /\ stopped' = stopped \cup {m}
  /\ UNCHANGED <<left, sent, record>>

Next ==
  \E m \in Emails :
    Compose(m) \/ TakeUp(m) \/ Accept(m) \/ GiveUp(m) \/ Confirm(m) \/ Stop(m)

Spec == Init /\ [][Next]_vars
=============================================================================
