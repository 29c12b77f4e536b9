----------------------------- MODULE MCPlanner -----------------------------
(* One run of the agent for TLC: a step of a campaign, for which the gate     *)
(* looks at the e-mail channel.                                               *)
EXTENDS Planner

MCTriggers == [r \in Runs |-> "campaign_step"]

MCAllowed == {{}, {"email"}, {"whatsapp", "voice"}}

(* Tenths; what is below 0 and above 10 is clamped. *)
MCRisks == {-1, 8, 10, 12}
=============================================================================
