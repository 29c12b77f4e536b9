------------------------------ MODULE MCQuotes ------------------------------
(* Constants for model checking Quotes. *)
EXTENDS Quotes, TLC

MCSymmetry == Permutations(Requests)
=============================================================================
