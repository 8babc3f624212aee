-------------------------- MODULE MCMatchingEngine --------------------------
(* Small instances of LinkedBook and, with it, MatchingEngine, for TLC. *)
EXTENDS LinkedBook, TLC

CONSTANTS i1, i2, i3, i4, s1, s2, s3, s4

MCIds == {i1, i2, i3, i4}
MCSlots == {s1, s2, s3, s4}
Symmetry == Permutations(MCIds) \cup Permutations(MCSlots)
=============================================================================
