------------------------- MODULE MCProfileBroker -------------------------
(* Instances of the profile broker for TLC. *)
EXTENDS ProfileBroker, TLC

CONSTANTS p1, p2, a1

\* Two printers configured with one address: they may be exchanged.
MCSharedAddress == [p \in {p1, p2} |-> a1]
MCSymmetry == Permutations({p1, p2})
=============================================================================
