----------------------------- MODULE MCJobView -----------------------------
(***************************************************************************)
(* JobView with the identities that TLC may permute.                       *)
(***************************************************************************)
EXTENDS JobView, TLC

Symmetry == Permutations(Printers) \cup Permutations(Requests)
=============================================================================
