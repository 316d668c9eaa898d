------------------------------- MODULE MCCalls -------------------------------
(* Subroutines and programs for Calls. *)
EXTENDS Calls

Integer == [form |-> "numeric", base |-> "int", fields |-> 0]
Object == [form |-> "object", base |-> "int", fields |-> 0]
Pair   == [form |-> "value", base |-> "long", fields |-> 2]
Shorts == [form |-> "value", base |-> "short", fields |-> 2]

(* main   the statement that passes a value type comes first               *)
(* last   ... comes last                                                   *)
(* mix    an object, a value type, a short value type, an integer          *)
(* pick   a method of an interface                                         *)
(* fini   a DESTROY, and what it calls                                     *)
MCSubs == {"main", "last", "mix", "pick", "fini", "half"}

MCArgs == [main |-> <<>>, last |-> <<>>, mix |-> <<Object, Pair, Shorts, Integer>>,
           pick |-> <<Object, Integer>>, fini |-> <<Object>>, half |-> <<Integer>>]
MCLocals == [main |-> <<Pair, Object, Integer, Shorts>>, last |-> <<Object, Integer, Pair, Shorts>>,
             mix |-> <<Pair>>, pick |-> <<Integer>>, fini |-> <<Integer>>,
             half |-> <<>>]
MCReturned == [main |-> Void, last |-> Void, mix |-> Pair, pick |-> Integer, fini |-> Void,
               half |-> Integer]

Call(s, as, out)    == [op |-> "call", callee |-> s, args |-> as, out |-> out,
                        method |-> FALSE, catch |-> FALSE]
Method(s, as, out)  == [Call(s, as, out) EXCEPT !.method = TRUE]
Eval(st)            == [st EXCEPT !.catch = TRUE]
Ret(my)             == [Call("main", <<>>, my) EXCEPT !.op = "return"]

MCBody ==
  [main |-> <<Eval(Call("mix", <<2, 1, 4, 3>>, 1)), Method("pick", <<2, 3>>, 3), Ret(0)>>,
   last |-> <<Eval(Call("pick", <<0, 2>>, 2)), Call("mix", <<0, 3, 4, 2>>, 3), Ret(0)>>,
   mix  |-> <<Method("pick", <<1, 4>>, 4), Ret(2), Ret(5)>>,
   pick |-> <<Call("pick", <<1, 3>>, 0), Ret(3)>>,
   fini |-> <<Call("half", <<2>>, 2), Ret(0)>>,
   half |-> <<Ret(1)>>]

AllBuilds  == [MCSubs -> {"vm", "precompiled"}]

(* The precompiled code that passes a value type makes no call after it.   *)
SafeBuilds ==
  {b \in AllBuilds : b["main"] = "vm" /\ b["half"] = b["fini"] /\ b["fini"] = b["pick"]}

(* The theorems about Calls apply to these programs.                       *)
ASSUME ProgramsAreSupported == Supported
=============================================================================
