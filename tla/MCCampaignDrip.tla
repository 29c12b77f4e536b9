--------------------------- MODULE MCCampaignDrip ---------------------------
(* Small instances of CampaignDrip for TLC. *)
EXTENDS CampaignDrip, TLC

CONSTANTS c1, c2, t1, t2, l1

MCSymmetry == Permutations({c1, c2}) \cup Permutations({t1, t2})
=============================================================================
