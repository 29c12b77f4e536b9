----------------------------- MODULE MCServices -----------------------------
(* A small instance of Services for TLC: two or three actors of each kind,     *)
(* and the inputs of the services that a configuration cannot write down.      *)
EXTENDS Services, Sequences

(* A file with an address twice, a row without one and an invalid row. *)
MCFile == <<"address", "bare", "address", "invalid">>

(* Quiet from 22:00 to 08:00, from 01:00 to 06:30, all day but half an hour, and all day. *)
MCWindows ==
  {[start |-> 44, end |-> 16], [start |-> 2, end |-> 13],
   [start |-> 18, end |-> 17], [start |-> 18, end |-> 18]}

MCOffset == -9  \* local time is four and a half hours behind UTC

(* A campaign's run: the gate looks at e-mail, and any tool may come of it. *)
MCTriggers == [r \in PlanRuns |-> "campaign_step"]

MCAllowed == {{}, {"email"}, {"whatsapp", "voice"}}

(* A form with a choice of two channels, both connected. *)
MCChannels == {"email", "whatsapp"}

(* Tenths; what is below 0 and above 10 is clamped. *)
MCRisks == {-1, 8, 10, 12}
=============================================================================
