---------------------------- MODULE MCApiServer ----------------------------
(***************************************************************************)
(* The API for TLC: two sites, either of which may be spelled in capitals, *)
(* and two requests at a time.  The sites may be exchanged with their      *)
(* spellings, as may the requests and the contents.                        *)
(***************************************************************************)
EXTENDS ApiServer, TLC

CONSTANTS site1, SITE1, site2, SITE2, r1, r2, c1, c2

MCNormal == site1 :> site1 @@ SITE1 :> site1 @@ site2 :> site2 @@ SITE2 :> site2

MCSiteSwap == site1 :> site2 @@ site2 :> site1 @@ SITE1 :> SITE2 @@ SITE2 :> SITE1
MCSymmetry == Permutations({r1, r2}) \cup Permutations({c1, c2}) \cup {MCSiteSwap}
=============================================================================
