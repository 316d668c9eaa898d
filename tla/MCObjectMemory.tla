-------------------------- MODULE MCObjectMemory --------------------------
(* Instances of ObjectMemory for TLC. *)
EXTENDS ObjectMemory, TLC

(* Objects with and without a destructor are interchangeable within their  *)
(* class only.                                                             *)
ObjectSymmetry ==
  {p \in Permutations(Objects) : {p[o] : o \in Destructible} = Destructible}
=============================================================================
