---------------------------- MODULE MCMotionGate ----------------------------
(* Small instances of MotionGate for TLC. *)
EXTENDS MotionGate, TLC

Symmetry == Permutations(Sources)
=============================================================================
