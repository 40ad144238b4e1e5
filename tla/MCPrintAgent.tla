---------------------------- MODULE MCPrintAgent ---------------------------
(***************************************************************************)
(* PrintAgent with the identities that TLC may permute in the runs without *)
(* liveness properties.  Printers are symmetric where AutoReconnect is all *)
(* of them or none.                                                        *)
(***************************************************************************)
EXTENDS PrintAgent, TLC

Symmetry == Permutations(Jobs) \cup Permutations(Printers)
=============================================================================
