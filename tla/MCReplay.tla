------------------------------ MODULE MCReplay ------------------------------
(* Small instances of Replay for TLC. *)
EXTENDS Replay, TLC

CONSTANTS i1, i2, i3, s1, s2, s3

MCIds == {i1, i2, i3}
MCSlots == {s1, s2, s3}
Symmetry == Permutations(MCIds) \cup Permutations(MCSlots)
=============================================================================
