----------------------------- MODULE MCNativeCalls -----------------------------
(* Instances of NativeCalls for TLC. *)
EXTENDS NativeCalls, TLC

StringSymmetry == Permutations(Strings)
=============================================================================
