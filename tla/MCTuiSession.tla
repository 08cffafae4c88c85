---------------------------- MODULE MCTuiSession ----------------------------
(* TuiSession with small sets for TLC; session ids are interchangeable. *)
EXTENDS TuiSession, TLC

CONSTANTS s1, s2

MCSid == {s1, s2}
SidSymmetry == Permutations(MCSid)
=============================================================================
