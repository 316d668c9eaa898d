----------------------------- MODULE NativeCalls -----------------------------
(***************************************************************************)
(* The C side of the SPVM runtime (spvm_runtime_api.c): native subroutines *)
(* with their mortal stack of temporaries (enter_scope, push_mortal,       *)
(* leave_scope), the exception variable of the environment, and how both   *)
(* meet the subroutines of the virtual machine and the destructors that    *)
(* run while temporaries and variables are released.                       *)
(*                                                                         *)
(* Objects have no fields here (ObjectMemory has them): what refers to an  *)
(* object is the object variable of an activation, an entry of the mortal  *)
(* stack, the exception variable, a result on its way to the caller.       *)
(* C functions that can be suspended by a DESTROY are frames of "stack".   *)
(***************************************************************************)
EXTENDS Integers, Sequences, FiniteSets

CONSTANTS
  Instances,     \* objects of classes the allocator can hand out
  Strings,       \* strings (byte arrays) it can hand out
  Destructible,  \* the instances whose class has a DESTROY
  MaxDepth,      \* bound on nested subroutines
  MaxTemps,      \* bound on the entries of the mortal stack
  InitCapacity,  \* capacity of the mortal stack of a new environment
  Noisy,         \* TRUE: a DESTROY may use eval, croak and $@
  NULL           \* the null object pointer

Objects == Instances \cup Strings

ASSUME NativeAssumption ==
  /\ IsFiniteSet(Instances) /\ IsFiniteSet(Strings)
  /\ Instances \cap Strings = {}
  /\ Destructible \subseteq Instances
  /\ MaxDepth \in Nat /\ MaxTemps \in Nat
  /\ InitCapacity \in Nat \ {0}
  /\ Noisy \in BOOLEAN
  /\ NULL \notin Objects

VARIABLES
  alive,   \* the objects that are allocated
  rc,      \* ref_count of every object
  exc,     \* env->exception_object
  raiser,  \* ghost: the level of the code that made each string an exception
  mortal,  \* env->native_mortal_stack, as long as its capacity
  mtop,    \* env->native_mortal_stack_top
  blocks,  \* runtime->memory_blocks_count
  stack    \* the C call stack, innermost frame last

vars == <<alive, rc, exc, raiser, mortal, mtop, blocks, stack>>

ObjectOrNull == Objects \cup {NULL}

(***************************************************************************)
(* kind    host    call_entry_point_sub or call_begin_blocks               *)
(*         native  call_sub running a native subroutine                    *)
(*         vm      call_sub_vm                                             *)
(*         write   OBJECT_ASSIGN waiting to write val into the variable of *)
(*                 the activation below                                    *)
(*         free    dec_ref_count of the last reference to val              *)
(* phase   run; leave, inner: the scope of the subroutine, of a nested     *)
(*         enter_scope, is being released                                  *)
(* var     the object variable (vm), the argument (native)                 *)
(* val     the result, the value to write, the object being released       *)
(* base    mortal_stack_top on entry; inner: that of a nested enter_scope  *)
(* next    the entry leave_scope releases next; clear: it was released and *)
(*         is not null yet                                                 *)
(* flag    exception_flag; eval: an eval block is open                     *)
(***************************************************************************)
Frame(kind) ==
  [kind |-> kind, phase |-> "run", var |-> NULL, val |-> NULL, base |-> 0,
   inner |-> -1, next |-> 0, clear |-> FALSE, flag |-> FALSE,
   eval |-> FALSE]

Top        == stack[Len(stack)]
Below      == SubSeq(stack, 1, Len(stack) - 1)
Running(k) == stack # <<>> /\ Top.kind = k /\ Top.phase = "run"
Leaving(k) == stack # <<>> /\ Top.kind = k /\ Top.phase = "leave"
WithTop(f) == Append(Below, f)
Depth      == Cardinality({i \in DOMAIN stack : stack[i].kind \in {"vm", "native"}})
Level      == Cardinality({i \in DOMAIN stack : stack[i].kind = "free"})

(* Every object with a destructor has a level left for it.                 *)
Doomed  == (alive \cap Destructible) \ {stack[i].val : i \in {j \in DOMAIN stack : stack[j].kind = "free"}}
MayCall == Depth + Cardinality(Doomed) < MaxDepth
MayNew(o) == o \notin alive /\ (o \in Destructible => MayCall)

(* A DESTROY of the passing instances leaves the exception variable alone. *)
MayRaise == Noisy \/ Level = 0

Init ==
  /\ alive = {}
  /\ rc = [o \in Objects |-> 0]
  /\ exc = NULL
  /\ raiser = [s \in Strings |-> 0]
  /\ mortal = [i \in 1 .. InitCapacity |-> NULL]
  /\ mtop = 0
  /\ blocks = 1
  /\ stack = <<>>

-----------------------------------------------------------------------------
(* Allocation, counting and release.                                       *)

IncRef(counts, o) == IF o = NULL THEN counts ELSE [counts EXCEPT ![o] = @ + 1]
DecRef(counts, o) == IF o = NULL THEN counts ELSE [counts EXCEPT ![o] = @ - 1]

(***************************************************************************)
(* The strings somebody other than the exception variable refers to: one   *)
(* string is left for a message and one for its next stack trace.          *)
(***************************************************************************)
KeptStrings ==
  Strings \cap ({stack[i].var : i \in DOMAIN stack} \cup {stack[i].val : i \in DOMAIN stack}
                \cup {mortal[i] : i \in DOMAIN mortal})
MayKeep(o) == o \in Strings => Cardinality(KeptStrings \cup {o}) + 2 <= Cardinality(Strings)

(***************************************************************************)
(* One reference to o is dropped: alive, rc, blocks and stack change.  The *)
(* last reference to an instance with a destructor leaves a free frame on  *)
(* top of the given frames.                                                *)
(***************************************************************************)
Drop(o, counts, live, blks, frames) ==
  IF o = NULL \/ counts[o] > 1
    THEN /\ rc' = DecRef(counts, o) /\ alive' = live
         /\ blocks' = blks /\ stack' = frames
    ELSE IF o \in Destructible
    THEN /\ rc' = counts /\ alive' = live /\ blocks' = blks
         /\ stack' = Append(frames, [Frame("free") EXCEPT !.val = o])
    ELSE /\ rc' = [counts EXCEPT ![o] = 0] /\ alive' = live \ {o}
         /\ blocks' = blks - 1 /\ stack' = frames

(* Deviation: the old object is released only once. *)
SetExceptionOnce(new, counts, live, blks, frames) ==
  /\ exc' = new
  /\ Drop(exc, IncRef(IncRef(counts, new), new), live, blks, frames)

(***************************************************************************)
(* set_exception: dec_ref_count of the old object, OBJECT_ASSIGN, and one  *)
(* more ref_count++: the variable counts twice.  Exceptions are strings,   *)
(* whose release runs no destructor.                                       *)
(***************************************************************************)
SetException(new, counts, live, blks, frames) ==
  LET once == DecRef(counts, exc)
      both == DecRef(IncRef(once, new), exc)
      dies == exc # NULL /\ both[exc] = 0
  IN
  /\ exc' = new
  /\ rc' = IncRef(both, new)
  /\ alive' = IF dies THEN live \ {exc} ELSE live
  /\ blocks' = IF dies THEN blks - 1 ELSE blks
  /\ stack' = frames

(* OBJECT_ASSIGN to the variable of the running activation. *)
AssignVar(new, counts, live, blks, frames) ==
  LET old   == frames[Len(frames)].var
      count == IncRef(counts, new)
      done  == [frames EXCEPT ![Len(frames)].var = new]
  IN
  IF old \in Destructible /\ count[old] = 1
    THEN /\ rc' = count /\ alive' = live /\ blocks' = blks
         /\ stack' = frames \o <<[Frame("write") EXCEPT !.val = new],
                                 [Frame("free") EXCEPT !.val = old]>>
    ELSE Drop(old, count, live, blks, done)

(* The write of OBJECT_ASSIGN, after the release has returned. *)
AssignWrite ==
  /\ Running("write")
  /\ stack' = [Below EXCEPT ![Len(Below)].var = Top.val]
  /\ UNCHANGED <<alive, rc, exc, raiser, mortal, mtop, blocks>>

(* Deviation: the entries are copied, the old array is not freed. *)
(***************************************************************************)
(* push_mortal: a full array is copied to one of twice the capacity and    *)
(* freed; the entry counts.                                                *)
(***************************************************************************)
PushMortal(o, counts, blks) ==
  LET full  == mtop >= Len(mortal)
      space == IF full THEN mortal \o [i \in 1 .. Len(mortal) |-> NULL] ELSE mortal
  IN
  /\ mortal' = [space EXCEPT ![mtop + 1] = o]
  /\ mtop' = mtop + 1
  /\ rc' = IncRef(counts, o)
  /\ blocks' = IF full THEN blks + 1 - 1 ELSE blks

-----------------------------------------------------------------------------
(* Entry from the host program.                                            *)

VmFrame(arg)     == [Frame("vm") EXCEPT !.var = arg]
ScopeFrame(kind) == [Frame(kind) EXCEPT !.base = mtop]

(***************************************************************************)
(* call_entry_point_sub: the argument object is a temporary of the scope   *)
(* it enters; main is called with it.                                      *)
(***************************************************************************)
EntryPoint(o) ==
  /\ stack = <<>>
  /\ o \in Instances \ (alive \cup Destructible)
  /\ alive' = alive \cup {o}
  /\ PushMortal(o, IncRef([rc EXCEPT ![o] = 0], o), blocks + 2)
  /\ stack' = <<ScopeFrame("host"), VmFrame(o)>>
  /\ UNCHANGED <<exc, raiser>>

(* call_begin_blocks: no scope, no argument, the exception is ignored. *)
CallBeginBlocks ==
  /\ stack = <<>>
  /\ blocks' = blocks + 1
  /\ stack' = <<ScopeFrame("host"), VmFrame(NULL)>>
  /\ UNCHANGED <<alive, rc, exc, raiser, mortal, mtop>>

-----------------------------------------------------------------------------
(* The virtual machine.                                                    *)

VmRuns == Running("vm") /\ ~Top.flag

(* NEW_OBJECT and NEW_STRING into the variable. *)
NewObject(o) ==
  /\ VmRuns
  /\ MayNew(o)
  /\ MayKeep(o)
  /\ AssignVar(o, [rc EXCEPT ![o] = 0], alive \cup {o}, blocks + 1, stack)
  /\ UNCHANGED <<exc, raiser, mortal, mtop>>

MoveUndef ==
  /\ VmRuns
  /\ AssignVar(NULL, rc, alive, blocks, stack)
  /\ UNCHANGED <<exc, raiser, mortal, mtop>>

(* GET_EXCEPTION_VAR. *)
GetExceptionVar ==
  /\ VmRuns
  /\ MayRaise
  /\ MayKeep(exc)
  /\ AssignVar(exc, rc, alive, blocks, stack)
  /\ UNCHANGED <<exc, raiser, mortal, mtop>>

(* SET_EXCEPTION_VAR and SET_EXCEPTION_VAR_UNDEF. *)
SetExceptionVar(new) ==
  /\ VmRuns
  /\ MayRaise
  /\ new = NULL \/ (new = Top.var /\ new \in Strings)
  /\ SetException(new, rc, alive, blocks, stack)
  /\ UNCHANGED <<raiser, mortal, mtop>>

(* croak: the string becomes the exception and the flag is set. *)
Croak ==
  /\ VmRuns
  /\ MayRaise
  /\ Top.var \in Strings
  /\ raiser' = [raiser EXCEPT ![Top.var] = Level]
  /\ SetException(Top.var, rc, alive, blocks, WithTop([Top EXCEPT !.flag = TRUE]))
  /\ UNCHANGED <<mortal, mtop>>

(* The beginning of an eval block clears the exception variable. *)
EvalStart ==
  /\ VmRuns
  /\ MayRaise
  /\ ~Top.eval
  /\ SetException(NULL, rc, alive, blocks, WithTop([Top EXCEPT !.eval = TRUE]))
  /\ UNCHANGED <<raiser, mortal, mtop>>

EvalEnd ==
  /\ VmRuns
  /\ Top.eval
  /\ stack' = WithTop([Top EXCEPT !.eval = FALSE])
  /\ UNCHANGED <<alive, rc, exc, raiser, mortal, mtop, blocks>>

(***************************************************************************)
(* IF_EXCEPTION_CATCH and IF_EXCEPTION_RETURN: the exception is replaced   *)
(* by a new string with one more line of stack trace, then control goes    *)
(* behind the eval block or to the end of the subroutine.  Without an      *)
(* exception object new_stack_trace_raw reads a null pointer: no step.     *)
(***************************************************************************)
IfException(trace) ==
  LET after == IF Top.eval THEN [Top EXCEPT !.flag = FALSE, !.eval = FALSE]
               ELSE [Top EXCEPT !.phase = "leave"]
  IN
  /\ Running("vm") /\ Top.flag
  /\ exc # NULL
  /\ trace \in Strings \ alive
  /\ raiser' = [raiser EXCEPT ![trace] = Level]
  /\ SetException(trace, [rc EXCEPT ![trace] = 0], alive \cup {trace}, blocks + 1,
                  WithTop(after))
  /\ UNCHANGED <<mortal, mtop>>

-----------------------------------------------------------------------------
(* Calls and returns.                                                      *)

(***************************************************************************)
(* call_sub: call_sub_vm allocates its variables and counts the argument,  *)
(* a native subroutine reads the argument in the caller's stack.           *)
(***************************************************************************)
Enter(kind, arg) ==
  IF kind = "vm"
    THEN /\ rc' = IncRef(rc, arg)
         /\ blocks' = blocks + 1
         /\ stack' = Append(stack, VmFrame(arg))
    ELSE /\ stack' = Append(stack, [ScopeFrame("native") EXCEPT !.var = arg])
         /\ UNCHANGED <<rc, blocks>>

(* CALL_SUB_OBJECT with the variable as argument and destination. *)
CallSub(kind) ==
  /\ VmRuns
  /\ MayCall
  /\ Enter(kind, Top.var)
  /\ UNCHANGED <<alive, exc, raiser, mortal, mtop>>

(* The type of the subroutine: an object for a caller with a variable.     *)
Result(o) == o = NULL \/ Below[Len(Below)].kind = "vm"

(* RETURN_OBJECT counts the result, so that leaving the scope keeps it. *)
Return(o) ==
  /\ VmRuns
  /\ o \in {NULL, Top.var} /\ Result(o)
  /\ rc' = IncRef(rc, o)
  /\ stack' = WithTop([Top EXCEPT !.phase = "leave", !.val = o])
  /\ UNCHANGED <<alive, exc, raiser, mortal, mtop, blocks>>

(* LEAVE_SCOPE of the variable. *)
VmLeaveScope ==
  /\ Leaving("vm")
  /\ Top.var # NULL
  /\ AssignVar(NULL, rc, alive, blocks, stack)
  /\ UNCHANGED <<exc, raiser, mortal, mtop>>

(***************************************************************************)
(* What the caller does with the flag and the result of a call: an opcode  *)
(* keeps the flag, or assigns the result; native code looks at neither     *)
(* until its next step; the host leaves its scope; dec_ref_count goes on.  *)
(***************************************************************************)
ReturnTo(flag, result, counts, live, blks) ==
  LET n      == Len(Below)
      caller == Below[n]
  IN
  IF caller.kind = "vm" /\ ~flag
    THEN AssignVar(result, counts, live, blks, Below)
    ELSE /\ rc' = counts /\ alive' = live /\ blocks' = blks
         /\ stack' = [Below EXCEPT ![n] =
              CASE caller.kind = "vm"     -> [caller EXCEPT !.flag = TRUE]
                [] caller.kind = "native" -> caller
                [] caller.kind = "host"   -> [caller EXCEPT !.phase = "leave",
                                                            !.next = caller.base + 1]
                [] caller.kind = "free"   -> [caller EXCEPT !.phase = "leave"]]

(* Deviation: the extra count is only dropped after an exception. *)
EndSubKeepsCount ==
  /\ Leaving("vm")
  /\ Top.var = NULL
  /\ ReturnTo(Top.flag, Top.val, IF Top.flag THEN DecRef(rc, Top.val) ELSE rc, alive, blocks - 1)
  /\ UNCHANGED <<exc, raiser, mortal, mtop>>

(* END_SUB: the extra count of the result is dropped, the frame is freed. *)
EndSub ==
  /\ Leaving("vm")
  /\ Top.var = NULL
  /\ ReturnTo(Top.flag, Top.val, IF Top.flag THEN rc ELSE DecRef(rc, Top.val), alive, blocks - 1)
  /\ UNCHANGED <<exc, raiser, mortal, mtop>>

-----------------------------------------------------------------------------
(* Native subroutines.                                                     *)

NativeRuns == Running("native")

(* What native code may use: its argument and its temporaries. *)
Held == ({Top.var} \cup {mortal[i] : i \in Top.base + 1 .. mtop}) \ {NULL}

(* new_obj, new_str, ...: a new object as a temporary. *)
NativeNew(o) ==
  /\ NativeRuns
  /\ MayNew(o)
  /\ MayKeep(o)
  /\ mtop < MaxTemps
  /\ alive' = alive \cup {o}
  /\ PushMortal(o, [rc EXCEPT ![o] = 0], blocks + 1)
  /\ UNCHANGED <<exc, raiser, stack>>

NativeEnterScope ==
  /\ NativeRuns
  /\ Top.inner = -1
  /\ stack' = WithTop([Top EXCEPT !.inner = mtop])
  /\ UNCHANGED <<alive, rc, exc, raiser, mortal, mtop, blocks>>

NativeLeaveScope ==
  /\ NativeRuns
  /\ Top.inner # -1
  /\ stack' = WithTop([Top EXCEPT !.phase = "inner", !.next = Top.inner + 1])
  /\ UNCHANGED <<alive, rc, exc, raiser, mortal, mtop, blocks>>

NativeSetException(new) ==
  /\ NativeRuns
  /\ MayRaise
  /\ new \in {NULL} \cup (Held \cap Strings)
  /\ raiser' = IF new = NULL THEN raiser ELSE [raiser EXCEPT ![new] = Level]
  /\ SetException(new, rc, alive, blocks, stack)
  /\ UNCHANGED <<mortal, mtop>>

NativeCallSub(kind, arg) ==
  /\ NativeRuns
  /\ MayCall
  /\ arg \in Held \cup {NULL}
  /\ Enter(kind, arg)
  /\ UNCHANGED <<alive, exc, raiser, mortal, mtop>>

(* Deviation: the result is not counted while the scope is left. *)
NativeReturnUncounted(flag, o) ==
  /\ NativeRuns
  /\ flag => MayRaise /\ o = NULL
  /\ o \in Held \cup {NULL} /\ Result(o)
  /\ stack' = WithTop([Top EXCEPT !.phase = "leave", !.next = Top.base + 1,
                                  !.val = o, !.flag = flag])
  /\ UNCHANGED <<alive, rc, exc, raiser, mortal, mtop, blocks>>

(* Deviation: leave_scope starts at the bottom of the mortal stack. *)
NativeReturnFromBottom(flag, o) ==
  /\ NativeRuns
  /\ flag => MayRaise /\ o = NULL
  /\ o \in Held \cup {NULL} /\ Result(o)
  /\ rc' = IncRef(rc, o)
  /\ stack' = WithTop([Top EXCEPT !.phase = "leave", !.next = 1,
                                  !.val = o, !.flag = flag])
  /\ UNCHANGED <<alive, exc, raiser, mortal, mtop, blocks>>

(***************************************************************************)
(* The C function returns: an exception flag, or a result, which is        *)
(* counted while the scope is left.                                        *)
(***************************************************************************)
NativeReturn(flag, o) ==
  /\ NativeRuns
  /\ flag => MayRaise /\ o = NULL
  /\ o \in Held \cup {NULL} /\ Result(o)
  /\ rc' = IncRef(rc, o)
  /\ stack' = WithTop([Top EXCEPT !.phase = "leave", !.next = Top.base + 1,
                                  !.val = o, !.flag = flag])
  /\ UNCHANGED <<alive, exc, raiser, mortal, mtop, blocks>>

LeavesScope ==
  /\ stack # <<>>
  /\ Top.kind \in {"native", "host"}
  /\ Top.phase \in {"leave", "inner"}

(* Deviation: the new top is taken when the loop starts to clear. *)
(***************************************************************************)
(* One iteration of leave_scope: the entry is released, which may run a    *)
(* DESTROY that pushes more temporaries above the top, then set to null in *)
(* the array as it is by then.                                             *)
(***************************************************************************)
LeaveEntry ==
  LET o == mortal[Top.next] IN
  /\ LeavesScope /\ ~Top.clear /\ Top.next <= mtop
  /\ Drop(o, rc, alive, blocks, WithTop([Top EXCEPT !.clear = TRUE]))
  /\ UNCHANGED <<exc, raiser, mortal, mtop>>

ClearEntry ==
  /\ LeavesScope /\ Top.clear
  /\ mortal' = [mortal EXCEPT ![Top.next] = NULL]
  /\ stack' = WithTop([Top EXCEPT !.next = @ + 1, !.clear = FALSE])
  /\ UNCHANGED <<alive, rc, exc, raiser, mtop, blocks>>

LeaveInner ==
  /\ LeavesScope /\ Top.phase = "inner" /\ Top.next > mtop
  /\ mtop' = Top.inner
  /\ stack' = WithTop([Top EXCEPT !.phase = "run", !.inner = -1])
  /\ UNCHANGED <<alive, rc, exc, raiser, mortal, blocks>>

(* Deviation: no default message. *)
NativeEndSilent(message) ==
  /\ LeavesScope /\ Top.kind = "native" /\ Top.phase = "leave" /\ Top.next > mtop
  /\ mtop' = Top.base
  /\ message = NULL
  /\ ReturnTo(Top.flag, Top.val, DecRef(rc, Top.val), alive, blocks)
  /\ UNCHANGED <<exc, raiser, mortal>>

(***************************************************************************)
(* The end of call_sub for a native subroutine: the top is reset, the      *)
(* result loses its extra count, and an exception without an object gets a *)
(* default message.                                                        *)
(***************************************************************************)
NativeEnd(message) ==
  /\ LeavesScope /\ Top.kind = "native" /\ Top.phase = "leave" /\ Top.next > mtop
  /\ mtop' = Top.base
  /\ IF Top.flag /\ exc = NULL
       THEN /\ message \in Strings \ alive
            /\ exc' = message
            /\ raiser' = [raiser EXCEPT ![message] = Level]
            /\ ReturnTo(TRUE, NULL, [rc EXCEPT ![message] = 2], alive \cup {message}, blocks + 1)
       ELSE /\ message = NULL
            /\ ReturnTo(Top.flag, Top.val, DecRef(rc, Top.val), alive, blocks)
            /\ UNCHANGED <<exc, raiser>>
  /\ UNCHANGED mortal

HostEnd ==
  /\ LeavesScope /\ Top.kind = "host" /\ Top.next > mtop
  /\ mtop' = Top.base
  /\ stack' = Below
  /\ UNCHANGED <<alive, rc, exc, raiser, mortal, blocks>>

-----------------------------------------------------------------------------
(* dec_ref_count of the last reference to an instance with a DESTROY.      *)

FreeDestroy(kind) ==
  /\ Running("free")
  /\ Enter(kind, Top.val)
  /\ UNCHANGED <<alive, exc, raiser, mortal, mtop>>

FreeBlock ==
  /\ Leaving("free")
  /\ rc' = DecRef(rc, Top.val)
  /\ alive' = alive \ {Top.val}
  /\ blocks' = blocks - 1
  /\ stack' = Below
  /\ UNCHANGED <<exc, raiser, mortal, mtop>>

(* free_env, and create_env for the next program. *)
FreeEnv ==
  /\ stack = <<>>
  /\ mortal' = [i \in 1 .. InitCapacity |-> NULL]
  /\ mtop' = 0
  /\ SetException(NULL, rc, alive, blocks - 1 + 1, stack)
  /\ UNCHANGED raiser

Kinds == {"vm", "native"}

(* C code that runs to its end once called, but for the calls it makes.    *)
Runtime ==
  \/ AssignWrite \/ VmLeaveScope \/ EndSub
  \/ \E s \in Strings : IfException(s)
  \/ LeaveEntry \/ ClearEntry \/ LeaveInner \/ HostEnd
  \/ \E s \in Strings \cup {NULL} : NativeEnd(s)
  \/ \E k \in Kinds : FreeDestroy(k)
  \/ FreeBlock

Program ==
  \/ \E o \in Objects : NewObject(o) \/ NativeNew(o)
  \/ MoveUndef \/ GetExceptionVar \/ Croak \/ EvalStart \/ EvalEnd
  \/ \E s \in Strings \cup {NULL} : SetExceptionVar(s) \/ NativeSetException(s)
  \/ \E k \in Kinds : CallSub(k)
  \/ \E o \in ObjectOrNull : Return(o)
  \/ NativeEnterScope \/ NativeLeaveScope
  \/ \E k \in Kinds, o \in ObjectOrNull : NativeCallSub(k, o)
  \/ \E f \in BOOLEAN, o \in ObjectOrNull : NativeReturn(f, o)

Next ==
  \/ \E o \in Instances : EntryPoint(o)
  \/ CallBeginBlocks
  \/ Program
  \/ Runtime
  \/ FreeEnv

Spec == Init /\ [][Next]_vars

-----------------------------------------------------------------------------
(* The fields of frames, the mortal stack within its capacity and empty    *)
(* above its top, scopes within one another.                               *)
TypeOK ==
  /\ alive \subseteq Objects
  /\ rc \in [Objects -> Nat]
  /\ exc \in Strings \cup {NULL}
  /\ mtop \in 0 .. Len(mortal)
  /\ \A i \in DOMAIN mortal : IF i > mtop THEN mortal[i] = NULL
                              ELSE mortal[i] \in ObjectOrNull
  /\ \A j \in DOMAIN stack :
       /\ stack[j].kind \in {"host", "native", "vm", "write", "free"}
       /\ stack[j].phase \in {"run", "leave", "inner"}
       /\ stack[j].var \in ObjectOrNull /\ stack[j].val \in ObjectOrNull
       /\ stack[j].base \in 0 .. mtop /\ stack[j].inner \in -1 .. mtop
       /\ stack[j].kind = "native" =>
            \A k \in 1 .. j - 1 : /\ stack[k].base <= stack[j].base
                                 /\ stack[k].inner <= stack[j].base

(* A slot whose old object was released, and that is written next. *)
Stale(j) ==
  \/ j = Len(stack) /\ stack[j].clear
  \/ j = Len(stack) - 1 /\ stack[j + 1].kind = "write"

Variables == {j \in DOMAIN stack : stack[j].kind = "vm" /\ ~Stale(j)}
Temps     == (1 .. mtop) \ {stack[j].next : j \in {k \in DOMAIN stack :
                              stack[k].kind # "vm" /\ Stale(k)}}
Carried   == {j \in DOMAIN stack : stack[j].kind \in {"vm", "native", "write"}}

References(o) ==
  Cardinality({j \in Variables : stack[j].var = o})
  + Cardinality({j \in Carried : stack[j].val = o})
  + Cardinality({i \in Temps : mortal[i] = o})
  + (IF exc = o THEN 2 ELSE 0)

(***************************************************************************)
(* Between any two steps, in the middle of leave_scope, of an assignment,  *)
(* of a return, the count of every object is the number of its references: *)
(* temporaries of native code, variables, results on their way, and twice  *)
(* the exception variable.  Nothing that is allocated lacks a reference.   *)
(* And the counter of memory blocks is the number of objects, activations  *)
(* of the virtual machine and of the one array of the mortal stack.        *)
(***************************************************************************)
CountsExact ==
  /\ \A o \in alive : rc[o] = References(o) /\ rc[o] > 0
  /\ blocks = Cardinality(alive) + 1
              + Cardinality({j \in DOMAIN stack : stack[j].kind = "vm"})

(***************************************************************************)
(* What C code holds without counting it stays allocated: the argument of  *)
(* a native subroutine, the object a DESTROY was called for; and so does   *)
(* everything counted.  The mortal stack is empty above its top and the    *)
(* scopes lie within one another.                                          *)
(***************************************************************************)
HeldAlive ==
  /\ TypeOK
  /\ \A j \in DOMAIN stack :
       /\ stack[j].kind \in {"native", "host"} \/ ~Stale(j) => stack[j].var \in alive \cup {NULL}
       /\ stack[j].val \in alive \cup {NULL}
  /\ \A i \in Temps : mortal[i] \in alive \cup {NULL}
  /\ exc \in alive \cup {NULL}

(***************************************************************************)
(* An activation that handles an exception finds an exception object, and  *)
(* while it is left keeps the one it put there: no DESTROY that runs while *)
(* its variable is released clears it or replaces it by its own.           *)
(***************************************************************************)
ExceptionKept ==
  stack # <<>> /\ Top.kind = "vm" /\ Top.flag =>
    exc # NULL /\ (Top.phase = "leave" => raiser[exc] = Level)

(***************************************************************************)
(* A step takes nothing from the scopes of the subroutines below: whatever *)
(* a callee or a DESTROY pushes, releases or reallocates, the temporaries  *)
(* under its own base stay where they are.                                 *)
(***************************************************************************)
CallerTempsKept ==
  [][stack # <<>> => LET below == IF Top.kind \in {"native", "host"} THEN Top.base ELSE mtop
                     IN  SubSeq(mortal', 1, below) = SubSeq(mortal, 1, below)]_vars

(* When the host is back, only an exception nobody cleared is left. *)
ReleasedAtHost ==
  stack = <<>> => mtop = 0 /\ alive = {exc} \ {NULL}

=============================================================================
