----------------------------- MODULE MCTypedHeap -----------------------------
(* Packages and types for TypedHeap. *)
EXTENDS TypedHeap, TLC

Method(n, s) == [name |-> n, signature |-> s]
Class(ms, fs) == [category |-> "class", anon |-> FALSE, methods |-> ms, fields |-> fs]

(* Foo has the method of the interface Cmp; Bar has a method of that name  *)
(* with other arguments; Sub is the class of an anonymous subroutine.      *)
MCPackages ==
  [Foo |-> Class({Method("compare", "cmp"), Method("size", "len")}, <<T("Cmp", 0), T("string", 0)>>),
   Bar |-> Class({Method("compare", "len")}, <<>>),
   Sub |-> [Class({Method("anon", "cmp")}, <<>>) EXCEPT !.anon = TRUE],
   Cmp |-> [Class({Method("compare", "cmp")}, <<>>) EXCEPT !.category = "interface"],
   Int |-> Class({}, <<>>),
   Long |-> Class({}, <<>>),
   Point |-> [Class({}, <<>>) EXCEPT !.category = "value"]]

MCVarTypes ==
  {AnyObject, Oarray, String, ByteArray, T("byte", 2), T("string", 1), T("object", 1),
   T("Foo", 0), T("Foo", 1), T("Bar", 0), T("Cmp", 0), T("Cmp", 1), T("Int", 0), T("int", 0)}

MCNewTypes == {T("byte", 1), T("string", 1), T("byte", 2), T("object", 1), T("Foo", 0),
               T("Foo", 1), T("Bar", 0), T("Sub", 0), T("Cmp", 1), T("Point", 1)}

MCCastTypes == {AnyObject, Oarray, String, ByteArray, T("string", 1),
                T("Foo", 0), T("Cmp", 0), T("Cmp", 1), T("Int", 0), T("int", 0)}

MCPackageVars == [shared |-> T("string", 1)]

VarSymmetry == Permutations(Vars)

MCObjectTypes == {AnyObject, T("Foo", 0)}
=============================================================================
