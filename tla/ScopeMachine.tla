---------------------------- MODULE ScopeMachine ----------------------------
(***************************************************************************)
(* The opcode builder composed with the part of call_sub_vm                *)
(* (spvm_runtime_api.c) that runs what it built: jumps, exceptions, and    *)
(* the stack of registered variables that LEAVE_SCOPE releases.  That      *)
(* stack has the size the builder computed, and its height at run time is  *)
(* not the one the builder counted when a jump skipped registrations.      *)
(***************************************************************************)
EXTENDS ScopeBuilder

VARIABLES
  pc,     \* opcode_rel_index, from 1; 0 before the call
  mstack, \* mortal_stack, zeroed when the frame is allocated
  mtop,   \* mortal_stack_top
  held,   \* the object variables that are not null
  live    \* ghost: the variables assigned and still in scope

mvars == <<pc, mstack, mtop, held, live>>
vars  == <<bvars, mvars>>

(* sub->mortal_stack_length: the declarations, and one more.               *)
Capacity == Len(home) + 1

(* Index 0 of the object variables is variable 1 of the builder.           *)
FirstVar == 1

Init ==
  /\ BInit
  /\ pc = 0 /\ mstack = <<>> /\ mtop = 0 /\ held = {} /\ live = {}

BuildStep == ~built /\ Build /\ UNCHANGED mvars

Enter ==
  /\ built /\ pc = 0
  /\ pc' = 1
  /\ mstack' = [i \in 1 .. Capacity |-> FirstVar]
  /\ UNCHANGED <<bvars, mtop, held, live>>

Running(op) == pc # 0 /\ code[pc].op = op

InScope(S, t) == {v \in S : home[v] \in code[t].scope}

(* Continue at t: the variables of the blocks left are out of scope.       *)
Goto(t) == pc' = t /\ live' = InScope(live, t)

(* A registration beyond the end of the stack overwrites other variables,  *)
(* after which anything may happen: the behaviour ends there.              *)
PushMortal ==
  /\ Running("PUSH_MORTAL") /\ mtop < Capacity
  /\ mstack' = [mstack EXCEPT ![mtop + 1] = code[pc].var]
  /\ mtop' = mtop + 1
  /\ Goto(pc + 1)
  /\ UNCHANGED <<bvars, held>>

(* A call returns, and its object goes to the variable, ...                *)
CallReturns ==
  /\ Running("CALL")
  /\ LET vs == {code[pc].var} \ {0} IN
       /\ held' = held \cup vs
       /\ pc' = pc + 1 /\ live' = InScope(live \cup vs, pc + 1)
  /\ UNCHANGED <<bvars, mstack, mtop>>

(* ... or raises an exception (IF_EXCEPTION_CATCH, IF_EXCEPTION_RETURN).   *)
CallRaises ==
  /\ Running("CALL")
  /\ Goto(code[pc].to)
  /\ UNCHANGED <<bvars, mstack, mtop, held>>

(* Deviation: the height of the stack is not reset. *)
LeaveScopeKeepsTop ==
  /\ Running("LEAVE_SCOPE")
  /\ held' = held \ {mstack[i] : i \in code[pc].var + 1 .. mtop}
  /\ Goto(pc + 1)
  /\ UNCHANGED <<bvars, mstack, mtop>>

LeaveScope ==
  LET t == code[pc].var IN
  /\ Running("LEAVE_SCOPE")
  /\ held' = held \ {mstack[i] : i \in t + 1 .. mtop}
  /\ mtop' = t
  /\ Goto(pc + 1)
  /\ UNCHANGED <<bvars, mstack>>

Jump ==
  /\ Running("GOTO") \/ Running("RETURN")
  /\ Goto(code[pc].to)
  /\ UNCHANGED <<bvars, mstack, mtop, held>>

Branch ==
  /\ Running("IF")
  /\ \E t \in {code[pc].to, pc + 1} : Goto(t)
  /\ UNCHANGED <<bvars, mstack, mtop, held>>

Switch ==
  /\ Running("SWITCH")
  /\ \E t \in code[pc].cases \cup {code[pc].to} : Goto(t)
  /\ UNCHANGED <<bvars, mstack, mtop, held>>

ExceptionVarUndef ==
  /\ Running("UNDEF")
  /\ Goto(pc + 1)
  /\ UNCHANGED <<bvars, mstack, mtop, held>>

Next ==
  \/ BuildStep
  \/ Enter \/ PushMortal \/ CallReturns \/ CallRaises \/ LeaveScope
  \/ Jump \/ Branch \/ Switch \/ ExceptionVarUndef

Spec == Init /\ [][Next]_vars

-----------------------------------------------------------------------------
(* The registers stay in the subroutine and name its variables.            *)
TypeOK ==
  /\ BTypeOK
  /\ pc \in 0 .. Len(code)
  /\ mtop \in 0 .. Capacity
  /\ DOMAIN mstack = IF pc = 0 THEN {} ELSE 1 .. Capacity
  /\ \A i \in DOMAIN mstack : mstack[i] \in 1 .. Capacity
  /\ held \subseteq DOMAIN home /\ live \subseteq DOMAIN home

(* An object variable keeps its object until its block is left: no         *)
(* LEAVE_SCOPE of an inner block, on any path, releases it early.          *)
LiveHeld == live \subseteq held

(* A block that was left, by its end, a jump, a return or an exception,    *)
(* has released its variables before code outside it runs.                 *)
DeadReleased ==
  pc # 0 /\ code[pc].op \notin {"LEAVE_SCOPE", "GOTO"} => held \subseteq live

(* The stack of registered variables is never pushed beyond the length the *)
(* builder computed for it, loops and jumps included, and names variables  *)
(* of the subroutine.                                                      *)
MortalFits ==
  /\ TypeOK
  /\ pc # 0 /\ code[pc].op = "PUSH_MORTAL" => mtop < Capacity - 1

(* A call ends, by return or exception, with every variable released and   *)
(* nothing registered.                                                     *)
ReleasedAtEnd ==
  pc # 0 /\ code[pc].op = "END_SUB" => held = {} /\ mtop = 0

=============================================================================
