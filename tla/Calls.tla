------------------------------- MODULE Calls -------------------------------
(***************************************************************************)
(* How values travel between subroutines.  A subroutine keeps its          *)
(* variables in one array of registers per type; arguments and results go  *)
(* through the array "stack" of SPVM_VALUE that the caller hands on to the *)
(* callee, whoever it is: the virtual machine (spvm_runtime_api.c) or C    *)
(* code the precompiler wrote (spvm_csource_builder_precompile.c).  Both   *)
(* must agree with the opcode builder and the checker on every index.      *)
(*                                                                         *)
(* A value type takes as many registers and slots as it has fields.  What  *)
(* a register or a slot holds is a word: the number of the activation, the *)
(* variable and the field it was first put in.                             *)
(***************************************************************************)
EXTENDS Integers, Sequences, FiniteSets

CONSTANTS
  Subs,      \* the subroutines
  Args,      \* the types of the arguments of each one
  Locals,    \* the types of the other variables of each one
  Returned,  \* the type each one returns
  Body,      \* its statements, in the order of the text
  Builds,    \* the choices of who runs each one: "vm" or "precompiled"
  Entries,   \* the subroutines the host calls
  Destroys,  \* the DESTROY subroutines
  StackSize, \* slots of the stack of the host
  MaxDepth,  \* bound on nested calls
  MaxCalls   \* bound on the calls of a behaviour

VARIABLES
  build,   \* who runs each subroutine
  frames,  \* the activations, innermost last
  arrays,  \* the C arrays used as argument stack, of the host or a DESTROY
  overrun, \* a slot beyond the end of an array was written
  calls    \* calls made so far, up to MaxCalls

vars == <<build, frames, arrays, overrun, calls>>

-----------------------------------------------------------------------------
(* Types, and where the checker puts variables.                            *)

CTypes == {"double", "long", "float", "int", "short", "byte"}
Forms  == {"void", "numeric", "object", "ref", "value"}
Type   == [form : Forms, base : CTypes, fields : Nat]

Void == [form |-> "void", base |-> "int", fields |-> 0]

Width(t) == IF t.form = "value" THEN t.fields ELSE 1

(* The register array of a type.                                           *)
Bank(t) == IF t.form \in {"object", "ref"} THEN t.form ELSE t.base

Statements == UNION {DOMAIN Body[s] : s \in Subs}

Mys(s) == Args[s] \o Locals[s]

(* What the checker guarantees of a program: an argument, a result or the  *)
(* variable that takes it has the type declared, or is undef.              *)
Agrees(s, my, t) ==
  IF my = 0 THEN t.form = "object"
  ELSE my \in DOMAIN Mys(s) /\ Bank(Mys(s)[my]) = Bank(t) /\ Width(Mys(s)[my]) = Width(t)

CallAgrees(s, st) ==
  /\ st.callee \in Subs /\ Len(st.args) = Len(Args[st.callee])
  /\ \A i \in DOMAIN st.args : Agrees(s, st.args[i], Args[st.callee][i])
  /\ st.out # 0 => Returned[st.callee].form # "void" /\ Agrees(s, st.out, Returned[st.callee])

ReturnAgrees(s, st) == Returned[s].form # "void" => Agrees(s, st.out, Returned[s])

ASSUME ProgramAssumption ==
  /\ StackSize \in Nat /\ MaxDepth \in Nat \ {0} /\ MaxCalls \in Nat
  /\ Entries \subseteq Subs /\ Destroys \subseteq Subs
  /\ Builds \subseteq [Subs -> {"vm", "precompiled"}]
  /\ \A s \in Entries : Args[s] = <<>>
  /\ \A s \in Destroys : Len(Args[s]) = 1 /\ Args[s][1].form = "object"
  /\ \A s \in Subs :
       /\ Args[s] \in Seq(Type) /\ Locals[s] \in Seq(Type) /\ Returned[s] \in Type
       /\ Body[s] \in Seq([op : {"call", "return"}, callee : Subs, args : Seq(Nat), out : Nat,
                           method : BOOLEAN, catch : BOOLEAN])
       /\ Body[s] # <<>>
       /\ \A k \in DOMAIN Body[s] :
            IF Body[s][k].op = "call" THEN CallAgrees(s, Body[s][k]) ELSE ReturnAgrees(s, Body[s][k])

(* Sums(w)[n] is the sum of the first n elements of w.                     *)
Sums(w) ==
  LET sum[n \in 0 .. Len(w)] == IF n = 0 THEN 0 ELSE sum[n - 1] + w[n] IN sum
Total(w) == Sums(w)[Len(w)]

(* A variable follows the variables of the same array declared before it.  *)
BankWidths(s, b) ==
  [i \in DOMAIN Mys(s) |-> IF Bank(Mys(s)[i]) = b THEN Width(Mys(s)[i]) ELSE 0]
VarId(s, i)      == Sums(BankWidths(s, Bank(Mys(s)[i])))[i - 1]
BankLength(s, b) == Total(BankWidths(s, b))

(* SPVM_RUNTIME_SUB keeps the number of argument slots in a uint8_t.       *)
ByteValues == 256
Widths(ts)      == [i \in DOMAIN ts |-> Width(ts[i])]
AllocLength(ts) == Total(Widths(ts))
ArgsAllocLengthOfNumber(s) == Len(Args[s])
ArgsAllocLength(s) == AllocLength(Args[s]) % ByteValues

(***************************************************************************)
(* The virtual machine lays its arrays out in one block of memory, in this *)
(* order; "mortal" is the stack of registered variables.  The precompiled  *)
(* code declares an array of its own for each.                             *)
(***************************************************************************)
Areas == <<"double", "long", "float", "int", "short", "mortal", "byte",
           "object", "ref">>
Size == [double |-> 8, long |-> 8, float |-> 4, int |-> 4, short |-> 2,
         mortal |-> 2, byte |-> 1, object |-> 8, ref |-> 8]

AreaLength(s, b) ==
  IF b = "mortal"
    THEN 1 + Cardinality({i \in DOMAIN Mys(s) : Mys(s)[i].form = "object"})
    ELSE BankLength(s, b)

Place == [double |-> 1, long |-> 2, float |-> 3, int |-> 4, short |-> 5, mortal |-> 6,
          byte |-> 7, object |-> 8, ref |-> 9]

AreaBytes(s) == [k \in DOMAIN Areas |-> Size[Areas[k]] * AreaLength(s, Areas[k])]
RoundUp(n)   == n + ((8 - (n % 8)) % 8)

(* Pointers start at a multiple of eight bytes.                            *)
Offset(before, b) ==
  LET numeric == before[Place["byte"]]
      bytes   == before[Place[b] - 1]
  IN  IF b \in {"object", "ref"} THEN RoundUp(numeric) + (bytes - numeric) ELSE bytes

(* The deviation leaves the area of int out.                               *)
VmOffsetOverlapping(s, b) == Offset(Sums([AreaBytes(s) EXCEPT ![Place["int"]] = 0]), b)
VmOffset(s, b)            == Offset(Sums(AreaBytes(s)), b)

(* Both are computed once for a program.                                   *)
Banks   == CTypes \cup {"object", "ref"}
VarIds  == [s \in Subs |-> [i \in DOMAIN Mys(s) |-> VarId(s, i)]]
Offsets == [s \in Subs |-> [b \in Banks |-> VmOffset(s, b)]]

VmRegister(s, b, id)          == <<"block", Offsets[s][b] + Size[b] * id>>
PrecompiledRegister(s, b, id) == <<b, id>>

Register(s, i, j) ==
  LET b == Bank(Mys(s)[i])
      id == VarIds[s][i] + j
  IN  IF build[s] = "vm" THEN VmRegister(s, b, id) ELSE PrecompiledRegister(s, b, id)

Words(s, i) == 0 .. Width(Mys(s)[i]) - 1

-----------------------------------------------------------------------------
(* Words, slots and activations.                                           *)

Word(n, i, j) == <<n, i, j>>
Undef == Word(0, 0, 0)
Junk  == Word(0, 0, 1)

(* A slot read as another type than it was written is no value at all.     *)
Slot(b, w)     == [bank |-> b, word |-> w]
Read(slots, n, b) ==
  IF n \in DOMAIN slots /\ slots[n].bank = b THEN slots[n].word ELSE Junk
Write(slots, ws) == [n \in DOMAIN slots |-> IF n \in DOMAIN ws THEN ws[n] ELSE slots[n]]
Beyond(slots, ws) == ~(DOMAIN ws \subseteq DOMAIN slots)

NewArray(n) == [i \in 0 .. n - 1 |-> Slot("object", Undef)]

Depth    == Len(frames)
Top      == frames[Depth]
Caller   == frames[Depth - 1]
Slots(f) == arrays[f.array]
Value(f, i)     == [j \in Words(f.sub, i) |-> f.regs[Register(f.sub, i, j)]]
Statement(f)    == Body[f.sub][f.at]
InPhase(p)      == frames # <<>> /\ Top.phase = p
WithTop(f)      == [frames EXCEPT ![Depth] = f]

(***************************************************************************)
(* sub, build   the subroutine and who runs it                             *)
(* at           the statement that runs                                    *)
(* arg          the argument it pushes next                                *)
(* top          call_sub_arg_stack_top (virtual machine)                   *)
(* regs         the registers                                              *)
(* phase        enter (the arguments are on the stack), run, push, wait    *)
(*              (for the callee), leave (LEAVE_SCOPE and the end)          *)
(* array        the argument stack it was given                            *)
(* exc          exception_flag                                             *)
(* host         called by C code that looks at no result                   *)
(* given        ghost: what the caller passes, argument by argument        *)
(* result       ghost: what RETURN read                                    *)
(***************************************************************************)
RegistersOf(s) ==
  UNION {{Register(s, i, j) : j \in Words(s, i)} : i \in DOMAIN Mys(s)}

EnterFrame(s, a, host, given) ==
  [sub |-> s, at |-> 1, arg |-> 1, top |-> 0, phase |-> "enter", array |-> a,
   regs |-> [r \in RegistersOf(s) |-> Junk], exc |-> FALSE, host |-> host,
   given |-> given, result |-> <<>>]

Init ==
  /\ build \in Builds
  /\ frames = <<>> /\ arrays = <<>> /\ overrun = FALSE /\ calls = 0

-----------------------------------------------------------------------------
(* Entering a subroutine: arguments move from the stack to registers.      *)

SlotOfArgByNumber(s, i) == i - 1
SlotOfArg(s, i) == Sums(Widths(Args[s]))[i - 1]

CopiedArg(s, slots, i, j) ==
  Read(slots, SlotOfArg(s, i) + j, Bank(Args[s][i]))

(* Other variables get a word of their own: what the program puts there.   *)
StartValue(s, slots, i, j) ==
  IF i <= Len(Args[s]) THEN CopiedArg(s, slots, i, j) ELSE Word(Depth, i, j)

(* The last variable that has a register put its word there.               *)
Cells(s) == UNION {{<<i, j>> : j \in Words(s, i)} : i \in DOMAIN Mys(s)}
CellOf(s, r) ==
  CHOOSE c \in Cells(s) : Register(s, c[1], c[2]) = r /\
    \A d \in Cells(s) : Register(s, d[1], d[2]) = r => d[1] <= c[1]
Filled(s, slots) ==
  [r \in RegistersOf(s) |-> LET c == CellOf(s, r) IN StartValue(s, slots, c[1], c[2])]

VmCopyArgs(f)          == Filled(f.sub, Slots(f))
PrecompiledCopyArgs(f) == Filled(f.sub, Slots(f))

CopyArgs ==
  /\ InPhase("enter")
  /\ frames' = WithTop([Top EXCEPT !.phase = "run",
                          !.regs = IF build[Top.sub] = "vm" THEN VmCopyArgs(Top)
                                   ELSE PrecompiledCopyArgs(Top)])
  /\ UNCHANGED <<build, arrays, overrun, calls>>

-----------------------------------------------------------------------------
(* The statements.  Branches and loops take a body anywhere.               *)

Begin(k) ==
  /\ InPhase("run")
  /\ k \in DOMAIN Body[Top.sub]
  /\ LET st == Body[Top.sub][k] IN
       /\ st.op = "call"
       /\ calls < MaxCalls /\ Depth < MaxDepth
       \* an interface method of undef ends the process
       /\ st.method => Value(Top, st.args[1])[0] \notin {Undef, Junk}
       /\ frames' = WithTop([Top EXCEPT !.phase = "push", !.at = k, !.arg = 1])
  /\ UNCHANGED <<build, arrays, overrun, calls>>

(***************************************************************************)
(* PUSH_ARG_*.  The precompiler counts the top of the stack while it       *)
(* writes the text: its slots are those of the statement, wherever control *)
(* came from.  After a call it takes the number of the arguments away,     *)
(* not the number of their slots.                                          *)
(***************************************************************************)
PrecompiledTop(s, k) ==
  LET left(st) == IF st.op = "call" THEN AllocLength(Args[st.callee]) - Len(Args[st.callee]) ELSE 0
  IN  Sums([j \in DOMAIN Body[s] |-> left(Body[s][j])])[k - 1]

ArgWords(f, i) ==
  LET t == Args[Statement(f).callee][i]
      my == Statement(f).args[i]
  IN  [j \in 0 .. Width(t) - 1 |->
         Slot(Bank(t), IF my = 0 THEN Undef ELSE Value(f, my)[j])]

At(base, ws) == [n \in {base + j : j \in DOMAIN ws} |-> ws[n - base]]

VmPush(f)          == At(f.top, ArgWords(f, f.arg))
PrecompiledPush(f) ==
  At(PrecompiledTop(f.sub, f.at) + SlotOfArg(Statement(f).callee, f.arg), ArgWords(f, f.arg))

VmTopAfter(f) == f.top + Width(Args[Statement(f).callee][f.arg])

PushArg ==
  /\ InPhase("push")
  /\ Top.arg <= Len(Args[Statement(Top).callee])
  /\ LET ws == IF build[Top.sub] = "vm" THEN VmPush(Top) ELSE PrecompiledPush(Top) IN
       /\ arrays' = [arrays EXCEPT ![Top.array] = Write(@, ws)]
       /\ overrun' = (overrun \/ Beyond(Slots(Top), ws))
  /\ frames' = WithTop([Top EXCEPT !.arg = @ + 1, !.top = VmTopAfter(Top)])
  /\ UNCHANGED <<build, calls>>

(***************************************************************************)
(* The call opcode.  The virtual machine has no case for an interface      *)
(* method that returns a value type of longs: the opcode does nothing.     *)
(***************************************************************************)
CallOpcode(st) ==
  LET t == Returned[st.callee] IN
  [family |-> IF st.method THEN "CALL_METHOD" ELSE "CALL_SUB", form |-> t.form, base |-> t.base]

VmHasCase(op) == op # [family |-> "CALL_METHOD", form |-> "value", base |-> "long"]

Given(f) == LET st == Statement(f) IN
  [i \in DOMAIN st.args |-> IF st.args[i] = 0 THEN [j \in {0} |-> Undef] ELSE Value(f, st.args[i])]

(* call_sub: the callee gets the stack of its caller, from slot 0.         *)
CallSub(f, top) ==
  /\ frames' = Append(WithTop([f EXCEPT !.phase = "wait", !.top = top]),
                      EnterFrame(Statement(f).callee, f.array, FALSE, Given(f)))
  /\ calls' = calls + 1

Pushed == InPhase("push") /\ Top.arg > Len(Args[Statement(Top).callee])

VmCall ==
  /\ Pushed /\ build[Top.sub] = "vm"
  /\ IF VmHasCase(CallOpcode(Statement(Top)))
       THEN CallSub(Top, Top.top - ArgsAllocLength(Statement(Top).callee))
       ELSE /\ frames' = WithTop([Top EXCEPT !.phase = "run"])
            /\ UNCHANGED calls
  /\ UNCHANGED <<build, arrays, overrun>>

PrecompiledCall ==
  /\ Pushed /\ build[Top.sub] = "precompiled"
  /\ CallSub(Top, 0)
  /\ UNCHANGED <<build, arrays, overrun>>

(* RETURN_*: the result goes to the first slots of the stack.              *)
ResultWords(f, my) ==
  LET b == Bank(Returned[f.sub]) IN
  [j \in 0 .. Width(Returned[f.sub]) - 1 |->
     Slot(b, IF my = 0 THEN Undef ELSE Value(f, my)[j])]

VmReturn(f, my)          == At(0, ResultWords(f, my))
PrecompiledReturn(f, my) == At(0, ResultWords(f, my))

Return(k) ==
  /\ InPhase("run")
  /\ k \in DOMAIN Body[Top.sub]
  /\ LET st == Body[Top.sub][k]
         ws == IF Returned[Top.sub].form = "void" THEN <<>>
               ELSE IF build[Top.sub] = "vm" THEN VmReturn(Top, st.out)
               ELSE PrecompiledReturn(Top, st.out)
     IN
       /\ st.op = "return"
       /\ arrays' = [arrays EXCEPT ![Top.array] = Write(@, ws)]
       /\ overrun' = (overrun \/ Beyond(Slots(Top), ws))
       /\ frames' = WithTop([Top EXCEPT !.phase = "leave", !.at = k,
                               !.result = [j \in DOMAIN ws |-> ws[j].word]])
  /\ UNCHANGED <<build, calls>>

(* croak, outside of an eval block.                                        *)
Croak ==
  /\ InPhase("run")
  /\ frames' = WithTop([Top EXCEPT !.phase = "leave", !.exc = TRUE])
  /\ UNCHANGED <<build, arrays, overrun, calls>>

(***************************************************************************)
(* The end of the callee.  Without an exception the caller copies the      *)
(* result to the variable; with one it goes on at the end of the eval      *)
(* block of the statement, or to the end of the subroutine.                *)
(***************************************************************************)
VmTakeResult(f, slots, my) ==
  LET s == f.sub
      t == Mys(s)[my]
      r(j) == Register(s, my, j)
  IN  [x \in DOMAIN f.regs |->
         IF \E j \in Words(s, my) : r(j) = x
           THEN Read(slots, CHOOSE j \in Words(s, my) : r(j) = x, Bank(t))
           ELSE f.regs[x]]
PrecompiledTakeResult(f, slots, my) == VmTakeResult(f, slots, my)

VmIfException(f) ==
  IF Statement(f).catch THEN [f EXCEPT !.phase = "run"]
  ELSE [f EXCEPT !.phase = "leave", !.exc = TRUE]
PrecompiledIfException(f) == VmIfException(f)

Resume(f, failed, slots) ==
  LET my == Statement(f).out IN
  IF failed
    THEN IF build[f.sub] = "vm" THEN VmIfException(f) ELSE PrecompiledIfException(f)
    ELSE IF my = 0 THEN [f EXCEPT !.phase = "run"]
    ELSE [f EXCEPT !.phase = "run",
                   !.regs = IF build[f.sub] = "vm" THEN VmTakeResult(f, slots, my)
                            ELSE PrecompiledTakeResult(f, slots, my)]

EndSub ==
  /\ InPhase("leave")
  /\ ~Top.host
  /\ frames' = [SubSeq(frames, 1, Depth - 1) EXCEPT
                  ![Depth - 1] = Resume(@, Top.exc, Slots(Top))]
  /\ UNCHANGED <<build, arrays, overrun, calls>>

-----------------------------------------------------------------------------
(* Calls by C code: the host, and the release of an object.                *)

Host(s) ==
  /\ frames = <<>> /\ calls < MaxCalls
  /\ s \in Entries
  /\ arrays' = <<NewArray(StackSize)>>
  /\ frames' = <<EnterFrame(s, 1, TRUE, <<>>)>>
  /\ calls' = calls + 1
  /\ UNCHANGED <<build, overrun>>

(* While a subroutine runs, or leaves with its result on the stack, an     *)
(* object may die: its DESTROY gets an array of one value.                 *)
DestroyOnTheStack(s) ==
  /\ frames # <<>> /\ Top.phase \in {"run", "leave"}
  /\ s \in Destroys
  /\ Depth < MaxDepth /\ calls < MaxCalls
  /\ LET self == Word(Depth, 0, 0) IN
       /\ arrays' = [arrays EXCEPT ![Top.array] = Write(@, [n \in {0} |-> Slot("object", self)])]
       /\ frames' = Append(frames, EnterFrame(s, Top.array, TRUE, <<[j \in {0} |-> self]>>))
  /\ calls' = calls + 1
  /\ UNCHANGED <<build, overrun>>
Destroy(s) ==
  /\ frames # <<>> /\ Top.phase \in {"run", "leave"}
  /\ s \in Destroys
  /\ Depth < MaxDepth /\ calls < MaxCalls
  /\ LET self == Word(Depth, 0, 0) IN
       /\ arrays' = Append(arrays, [n \in {0} |-> Slot("object", self)])
       /\ frames' = Append(frames, EnterFrame(s, Len(arrays) + 1, TRUE, <<[j \in {0} |-> self]>>))
  /\ calls' = calls + 1
  /\ UNCHANGED <<build, overrun>>

EndHost ==
  /\ InPhase("leave") /\ Top.host
  /\ frames' = SubSeq(frames, 1, Depth - 1)
  /\ arrays' = SubSeq(arrays, 1, IF Depth = 1 THEN 0 ELSE Caller.array)
  /\ UNCHANGED <<build, overrun, calls>>

(* The host has what it wanted.                                            *)
Done == frames = <<>> /\ calls = MaxCalls /\ UNCHANGED vars

Next ==
  \/ CopyArgs \/ PushArg \/ VmCall \/ PrecompiledCall \/ Croak \/ EndSub \/ EndHost \/ Done
  \/ \E k \in Statements : Begin(k) \/ Return(k)
  \/ \E s \in Subs : Host(s) \/ Destroy(s)

Spec == Init /\ [][Next]_vars
-----------------------------------------------------------------------------
(* Properties.                                                             *)

Words3 == (0 .. MaxDepth) \X Nat \X Nat

(* The state keeps its shape: an activation has the registers of its       *)
(* subroutine, and a statement of it is current.                           *)
TypeOK ==
  /\ build \in Builds
  /\ overrun \in BOOLEAN /\ calls \in 0 .. MaxCalls
  /\ Depth <= MaxDepth
  /\ \A n \in DOMAIN frames :
       LET f == frames[n] IN
       /\ f.phase \in (IF n = Depth THEN {"enter", "run", "push", "leave"}
                       ELSE {"wait", "run", "leave"})
       /\ f.at \in DOMAIN Body[f.sub] /\ f.array \in DOMAIN arrays
       /\ f.regs \in [RegistersOf(f.sub) -> Words3]
  /\ \A a \in DOMAIN arrays : \A n \in DOMAIN arrays[a] :
       arrays[a][n] \in [bank : Banks, word : Words3]

(***************************************************************************)
(* When a subroutine starts, its arguments are what its caller passed,     *)
(* field by field, whoever runs the two of them (PUSH_ARG_*, the offsets   *)
(* of the checker, the copy at the start of call_sub_vm).                  *)
(***************************************************************************)
ArgsArrive ==
  [][\A n \in DOMAIN frames \cap DOMAIN frames' :
       (frames[n].phase = "enter" /\ frames'[n].phase = "run")
         => \A i \in DOMAIN Args[frames[n].sub] : Value(frames'[n], i) = frames[n].given[i]]_vars

(***************************************************************************)
(* The variable of the caller gets the value RETURN read, although the     *)
(* scopes of the callee were left in between and destructors ran.          *)
(***************************************************************************)
ResultArrives ==
  [][(Len(frames') = Depth - 1 /\ ~Top.host /\ ~Top.exc)
       => LET c == frames'[Depth - 1] IN
          Statement(c).out = 0 \/ Value(c, Statement(c).out) = Top.result]_vars

(***************************************************************************)
(* A call changes one variable of one activation, the one its result goes  *)
(* to, and an exception changes none: callers, destructors and other       *)
(* activations of the same subroutine share no register.                   *)
(***************************************************************************)
VariablesKept ==
  [][\A n \in DOMAIN frames \cap DOMAIN frames' : frames[n].phase # "enter" =>
       \A i \in DOMAIN Mys(frames[n].sub) :
         \/ Value(frames'[n], i) = Value(frames[n], i)
         \/ /\ n = Len(frames') /\ n = Depth - 1 /\ ~Top.host /\ ~Top.exc
            /\ i = Statement(frames[n]).out]_vars

(* The state keeps its shape, no argument and no result is written beyond  *)
(* the array the C caller allocated for it, and between calls the argument *)
(* stack of an activation of the virtual machine is empty again: the next  *)
(* call starts at slot 0, where the callee reads (call_sub_arg_stack_top,  *)
(* args_alloc_length).                                                     *)
StackFits ==
  /\ TypeOK
  /\ ~overrun
  /\ \A n \in DOMAIN frames :
       (build[frames[n].sub] = "vm" /\ frames[n].phase # "push") => frames[n].top = 0

-----------------------------------------------------------------------------
(***************************************************************************)
(* The programs for which the properties hold.  What runs in a DESTROY,    *)
(* the subroutines in small, gets along with its array of one slot.        *)
(* Nothing is lost in the byte of ArgsAllocLength.  Precompiled code makes *)
(* no call after one that passes a value type, and the virtual machine     *)
(* runs no opcode it has no case for.                                      *)
(***************************************************************************)
FitsIn(s, size) ==
  /\ AllocLength(Args[s]) <= size
  /\ Returned[s].form # "void" => Width(Returned[s]) <= size

Supports(small) ==
  /\ Destroys \subseteq small
  /\ \A s \in small :
       /\ FitsIn(s, 1)
       /\ \A k \in DOMAIN Body[s] : Body[s][k].op = "call" => Body[s][k].callee \in small
  /\ \A s \in Subs : FitsIn(s, StackSize) /\ AllocLength(Args[s]) < ByteValues
  /\ \A b \in Builds : \A s \in Subs : \A k \in DOMAIN Body[s] :
       Body[s][k].op = "call" =>
         IF b[s] = "vm" THEN VmHasCase(CallOpcode(Body[s][k])) ELSE PrecompiledTop(s, k) = 0

Supported == \E small \in SUBSET Subs : Supports(small)
=============================================================================
