----------------------------- MODULE MCEmailOut -----------------------------
(* Small instances of EmailOut for TLC: the jobs are interchangeable model      *)
(* values, so a safety run may use their permutations as a symmetry.            *)
EXTENDS EmailOut, TLC

CONSTANTS j1, j2, j3

MCSymmetry == Permutations({j1, j2, j3})
=============================================================================
