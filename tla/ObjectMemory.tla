---------------------------- MODULE ObjectMemory ----------------------------
(***************************************************************************)
(* The object memory of the SPVM runtime (spvm_runtime_api.c): reference   *)
(* counts, the recursive release of dec_ref_count with its destructor      *)
(* calls, weak references with their back-reference lists, and the way the *)
(* object opcodes of call_sub_vm use them.                                 *)
(*                                                                         *)
(* The interpreter is single threaded, but a release is not atomic: it may *)
(* call DESTROY, which runs arbitrary SPVM code while the release, and the *)
(* assignment that caused it, are suspended.  The C call stack is          *)
(* therefore a variable, "stack", and every C function that can be         *)
(* suspended is a frame of it:                                             *)
(*   sub     call_sub_vm running the opcodes of a subroutine               *)
(*   leave   the LEAVE_SCOPE loop that ends an activation                  *)
(*   assign  OBJECT_ASSIGN (or weaken) waiting for the release of the old  *)
(*           referent before it writes the new one                         *)
(*   free    dec_ref_count releasing the last reference to an object       *)
(***************************************************************************)
EXTENDS Integers, Sequences, FiniteSets

CONSTANTS
  Objects,       \* addresses the allocator can hand out
  NFields,       \* object fields (or array elements) of every object
  NVars,         \* object variables of every activation
  NGlobals,      \* package variables that hold objects
  MaxDepth,      \* bound on nested activations
  Destructible,  \* the objects whose package has a DESTROY
  WeakFields,    \* the field numbers the program applies weaken/unweaken to
  MaxBackrefs,   \* bound on the weak references made to one object
  MaxCount,      \* bound on the counts with which a program still weakens
  SelfContained, \* TRUE: a DESTROY reaches only its own object and variables
  NULL,          \* the null object pointer
  NoSlot         \* no destination (a void call), or a wild address

Fields == 1 .. NFields
Vars   == 1 .. NVars
Globals == 1 .. NGlobals
Depths == 0 .. MaxDepth

(***************************************************************************)
(* A slot is a memory word that can hold an object pointer: the object     *)
(* variables of activation d, the package variables (activation 0), and    *)
(* the fields of every object.                                             *)
(***************************************************************************)
VarSlots     == (1 .. MaxDepth) \X Vars
PackageSlots == {0} \X Globals
FieldSlots   == Objects \X Fields
Slots        == VarSlots \cup PackageSlots \cup FieldSlots

ASSUME MemoryAssumption ==
  /\ NFields \in Nat \ {0}
  /\ NVars \in Nat \ {0}
  /\ NGlobals \in Nat
  /\ MaxDepth \in Nat
  /\ MaxBackrefs \in Nat
  /\ MaxCount \in Nat
  /\ IsFiniteSet(Objects)
  /\ Objects \cap Depths = {}
  /\ Destructible \subseteq Objects
  /\ WeakFields \subseteq Fields
  /\ SelfContained \in BOOLEAN
  /\ NULL \notin Objects
  /\ NoSlot \notin Slots

VARIABLES
  alive,    \* the objects that are allocated
  rc,       \* ref_count of every object
  slot,     \* the pointer in every slot, without its tag bit
  weak,     \* the slots whose pointer carries the weak tag bit
  backref,  \* weaken_backref_head of every object: the listed addresses
  blocks,   \* runtime->memory_blocks_count
  depth,    \* the number of activations
  stack     \* the C call stack, innermost frame last

vars == <<alive, rc, slot, weak, backref, blocks, depth, stack>>

ObjectOrNull == Objects \cup {NULL}
Addresses    == Slots \cup {NoSlot}

(***************************************************************************)
(* obj: the object a free frame releases, or the one whose DESTROY a sub   *)
(* frame belongs to; dst, val: the pending write of an assign frame, or    *)
(* the result slot and the returned object of an activation; n: the next   *)
(* variable of a leave frame, the next field of a free frame (0 before the *)
(* destructor).                                                            *)
(***************************************************************************)
Frames == [kind : {"sub", "leave", "assign", "free"},
           obj : ObjectOrNull, dst : Addresses, val : ObjectOrNull, n : Nat]

SubFrame(self, dst)     == [kind |-> "sub", obj |-> self, dst |-> dst, val |-> NULL, n |-> 0]
AssignFrame(dst, val)   == [kind |-> "assign", obj |-> NULL, dst |-> dst, val |-> val, n |-> 0]
FreeFrame(o)            == [kind |-> "free", obj |-> o, dst |-> NoSlot, val |-> NULL, n |-> 0]

Top     == stack[Len(stack)]
Below   == SubSeq(stack, 1, Len(stack) - 1)
Running(k) == stack # <<>> /\ Top.kind = k
WithTop(f) == Append(Below, f)

(* The running activation on its way out, with its result. *)
LeaveFrame(dst, val) ==
  [kind |-> "leave", obj |-> Top.obj, dst |-> dst, val |-> val, n |-> 1]

Init ==
  /\ alive = {}
  /\ rc = [o \in Objects |-> 0]
  /\ slot = [s \in Slots |-> NULL]
  /\ weak = {}
  /\ backref = [o \in Objects |-> <<>>]
  /\ blocks = 0
  /\ depth = 0
  /\ stack = <<>>

-----------------------------------------------------------------------------
(* Reference counts and the assignment macro.                              *)

IncRef(counts, o) == IF o = NULL THEN counts ELSE [counts EXCEPT ![o] = @ + 1]
DecRef(counts, o) == [counts EXCEPT ![o] = @ - 1]

(***************************************************************************)
(* What the loop of unweaken leaves of a back-reference list when address  *)
(* "a" is removed.  The cursor is &object->weaken_backref_head itself, so  *)
(* walking the list moves the head, and only ->next is ever compared.  The *)
(* node is read after it was freed: its next is intact or garbage.         *)
(***************************************************************************)
AfterUnweaken(list, a) ==
  LET found == {k \in 2 .. Len(list) : list[k] = a}
  IN  IF list = <<>> THEN {<<>>}
      ELSE IF found = {} THEN {<<list[Len(list)]>>}
      ELSE LET k == CHOOSE i \in found : \A j \in found : i <= j
           IN  {SubSeq(list, k + 1, Len(list)), <<NoSlot>>}

NodesFreedByUnweaken(list, a) ==
  IF \E k \in 2 .. Len(list) : list[k] = a THEN 1 ELSE 0

(* Deviation: unweaken without its ref_count++. *)
UntaggedUncounted(s, counts, blks) ==
  {[rc |-> counts, weak |-> weak \ {s}, backref |-> backref, blocks |-> blks]}

(***************************************************************************)
(* The memory once the pointer in slot s, if it is weak, has been through  *)
(* unweaken: an ordinary counted reference.                                *)
(***************************************************************************)
Untagged(s, counts, blks) ==
  IF s \notin weak
    THEN {[rc |-> counts, weak |-> weak, backref |-> backref, blocks |-> blks]}
    ELSE {[rc      |-> [counts EXCEPT ![slot[s]] = @ + 1],
           weak    |-> weak \ {s},
           backref |-> [backref EXCEPT ![slot[s]] = list],
           blocks  |-> blks - NodesFreedByUnweaken(backref[slot[s]], s)] :
            list \in AfterUnweaken(backref[slot[s]], s)}

(* Deviation: the old referent is released before the new one is counted. *)
AssignReleaseFirst(dst, new, counts, blks, frames) ==
  LET old  == slot[dst]
      dies == old # NULL /\ counts[old] <= 1
  IN
  /\ rc' = IncRef(IF old = NULL \/ dies THEN counts ELSE DecRef(counts, old), new)
  /\ slot' = IF dies THEN slot ELSE [slot EXCEPT ![dst] = new]
  /\ stack' = IF dies THEN frames \o <<AssignFrame(dst, new), FreeFrame(old)>> ELSE frames
  /\ blocks' = blks
  /\ UNCHANGED <<weak, backref>>

(***************************************************************************)
(* OBJECT_ASSIGN(dst, new): count the new referent, release the old one,   *)
(* then write.  When the old referent loses its last reference the write   *)
(* waits, in an assign frame, for dec_ref_count to return.                 *)
(***************************************************************************)
ObjectAssign(dst, new, counts, blks, frames) ==
  \E m \in Untagged(dst, IncRef(counts, new), blks) :
    LET old == slot[dst] IN
    /\ weak' = m.weak
    /\ backref' = m.backref
    /\ blocks' = m.blocks
    /\ \/ /\ old = NULL
          /\ rc' = m.rc
          /\ slot' = [slot EXCEPT ![dst] = new]
          /\ stack' = frames
       \/ /\ old # NULL
          /\ m.rc[old] > 1
          /\ rc' = DecRef(m.rc, old)
          /\ slot' = [slot EXCEPT ![dst] = new]
          /\ stack' = frames
       \/ /\ old # NULL
          /\ m.rc[old] <= 1
          /\ rc' = m.rc
          /\ slot' = slot
          /\ stack' = frames \o <<AssignFrame(dst, new), FreeFrame(old)>>

-----------------------------------------------------------------------------
(* The program: opcodes of the innermost activation.                       *)

(* Deviation: every activation shares the variables of the first one. *)
SharedVar(v) == <<1, v>>

Var(v) == <<depth, v>>

(***************************************************************************)
(* A self-contained DESTROY uses no package variables, reads and writes    *)
(* the fields of its own object only, and does not store its object in a   *)
(* field.  Another object's field may be the destination of the very write *)
(* that waits for DESTROY, and still hold the object under release.        *)
(***************************************************************************)
Confined == SelfContained /\ Top.obj # NULL
MayReadField(o) == Confined => o = Top.obj
MayWriteField(o, new) == MayReadField(o) /\ (Confined => new # Top.obj)

Store(dst, new) ==
  /\ ObjectAssign(dst, new, rc, blocks, stack)
  /\ UNCHANGED <<alive, depth>>

(* MOVE_OBJECT and MOVE_UNDEF. *)
MoveObject(v, w) == Running("sub") /\ Store(Var(v), slot[Var(w)])
MoveUndef(v)     == Running("sub") /\ Store(Var(v), NULL)

(* NEW_OBJECT: a zeroed block with reference count 0, assigned at once. *)
NewObject(v, o) ==
  /\ Running("sub")
  /\ o \notin alive
  /\ alive' = alive \cup {o}
  /\ ObjectAssign(Var(v), o, [rc EXCEPT ![o] = 0], blocks + 1, stack)
  /\ UNCHANGED depth

GetField(v, w, f) ==
  /\ Running("sub")
  /\ slot[Var(w)] # NULL
  /\ MayReadField(slot[Var(w)])
  /\ Store(Var(v), slot[<<slot[Var(w)], f>>])

SetField(w, f, new) ==
  /\ Running("sub")
  /\ slot[Var(w)] # NULL
  /\ new = NULL \/ \E v \in Vars : new = slot[Var(v)]
  /\ MayWriteField(slot[Var(w)], new)
  /\ Store(<<slot[Var(w)], f>>, new)

GetPackageVar(v, g) ==
  /\ Running("sub")
  /\ ~Confined
  /\ Store(Var(v), slot[<<0, g>>])

SetPackageVar(g, new) ==
  /\ Running("sub")
  /\ ~Confined
  /\ new = NULL \/ \E v \in Vars : new = slot[Var(v)]
  /\ Store(<<0, g>>, new)

(***************************************************************************)
(* WEAKEN_FIELD: an empty or already weak field is left alone.  A field    *)
(* that holds the last reference releases the object and becomes null;     *)
(* otherwise the reference is no longer counted, the address joins the end *)
(* of the referent's list and the pointer is tagged.                       *)
(***************************************************************************)
WeakenField(w, f) ==
  LET s == <<slot[Var(w)], f>>
      o == slot[s]
  IN
  /\ Running("sub")
  /\ slot[Var(w)] # NULL
  /\ f \in WeakFields
  /\ MayWriteField(slot[Var(w)], NULL)
  /\ \A p \in Objects : rc[p] <= MaxCount
  /\ o # NULL
  /\ s \notin weak
  /\ \/ /\ rc[o] = 1
        /\ stack' = stack \o <<AssignFrame(s, NULL), FreeFrame(o)>>
        /\ UNCHANGED <<rc, backref, weak, blocks>>
     \/ /\ rc[o] # 1
        /\ Len(backref[o]) < MaxBackrefs
        /\ rc' = DecRef(rc, o)
        /\ backref' = [backref EXCEPT ![o] = Append(@, s)]
        /\ weak' = weak \cup {s}
        /\ blocks' = blocks + 1
        /\ UNCHANGED stack
  /\ UNCHANGED <<alive, slot, depth>>

(* UNWEAKEN_FIELD. *)
UnweakenField(w, f) ==
  LET s == <<slot[Var(w)], f>> IN
  /\ Running("sub")
  /\ slot[Var(w)] # NULL
  /\ MayWriteField(slot[Var(w)], NULL)
  /\ s \in weak
  /\ \E m \in Untagged(s, rc, blocks) :
       /\ rc' = m.rc
       /\ weak' = m.weak
       /\ backref' = m.backref
       /\ blocks' = m.blocks
  /\ UNCHANGED <<alive, slot, depth, stack>>

-----------------------------------------------------------------------------
(* Calls.                                                                  *)

(* Deviation: the argument is copied without being counted. *)
EnterSubUncounted(arg, frames) ==
  /\ depth < MaxDepth
  /\ depth' = depth + 1
  /\ slot' = [slot EXCEPT ![<<depth + 1, 1>>] = arg]
  /\ blocks' = blocks + 1
  /\ stack' = frames
  /\ UNCHANGED <<alive, rc, weak, backref>>

(***************************************************************************)
(* call_sub_vm on entry: a zeroed frame is allocated and the argument is   *)
(* copied into the first variable as a counted reference.                  *)
(***************************************************************************)
EnterSub(arg, frames) ==
  /\ depth < MaxDepth
  /\ depth' = depth + 1
  /\ slot' = [slot EXCEPT ![<<depth + 1, 1>>] = arg]
  /\ rc' = IncRef(rc, arg)
  /\ blocks' = blocks + 1
  /\ stack' = frames
  /\ UNCHANGED <<alive, weak, backref>>

(* The host program calls a subroutine of the idle runtime. *)
CallFromHost ==
  /\ stack = <<>>
  /\ EnterSub(NULL, <<SubFrame(NULL, NoSlot)>>)

(***************************************************************************)
(* CALL_SUB_OBJECT with the variable w as its argument; the result goes to *)
(* the variable v.  Ordinary calls leave room for the destructors.         *)
(***************************************************************************)
CallSub(v, w) ==
  /\ Running("sub")
  /\ depth + Cardinality(Destructible) < MaxDepth
  /\ EnterSub(slot[Var(w)], Append(stack, SubFrame(Top.obj, Var(v))))

(***************************************************************************)
(* RETURN_OBJECT and RETURN_UNDEF count the result so that leaving the     *)
(* scope cannot release it; an exception that is not caught leaves the     *)
(* scope too, without a result.                                            *)
(***************************************************************************)
Return(new) ==
  /\ Running("sub")
  /\ new = NULL \/ (Top.dst # NoSlot /\ \E v \in Vars : new = slot[Var(v)])
  /\ rc' = IncRef(rc, new)
  /\ stack' = WithTop(LeaveFrame(Top.dst, new))
  /\ UNCHANGED <<alive, slot, weak, backref, blocks, depth>>

Croak ==
  /\ Running("sub")
  /\ Top.dst # NoSlot
  /\ stack' = WithTop(LeaveFrame(NoSlot, NULL))
  /\ UNCHANGED <<alive, rc, slot, weak, backref, blocks, depth>>

(* Deviation: leaving a scope only decrements, as it does for counts over 1. *)
LeaveScopeDecOnly ==
  LET old == slot[Var(Top.n)] IN
  /\ Running("leave")
  /\ Top.n <= NVars
  /\ rc' = IF old = NULL THEN rc ELSE DecRef(rc, old)
  /\ slot' = [slot EXCEPT ![Var(Top.n)] = NULL]
  /\ stack' = WithTop([Top EXCEPT !.n = @ + 1])
  /\ UNCHANGED <<alive, weak, backref, blocks, depth>>

(* LEAVE_SCOPE: one variable of the mortal stack at a time. *)
LeaveScope ==
  LET s    == Var(Top.n)
      old  == slot[s]
      next == WithTop([Top EXCEPT !.n = @ + 1])
  IN
  /\ Running("leave")
  /\ Top.n <= NVars
  /\ \/ /\ old = NULL
        /\ stack' = next
        /\ UNCHANGED <<rc, slot>>
     \/ /\ old # NULL
        /\ rc[old] > 1
        /\ rc' = DecRef(rc, old)
        /\ slot' = [slot EXCEPT ![s] = NULL]
        /\ stack' = next
     \/ /\ old # NULL
        /\ rc[old] <= 1
        /\ stack' = next \o <<AssignFrame(s, NULL), FreeFrame(old)>>
        /\ UNCHANGED <<rc, slot>>
  /\ UNCHANGED <<alive, weak, backref, blocks, depth>>

(* Deviation: the frame of an activation without a result is not freed. *)
EndSubLeak ==
  /\ Running("leave")
  /\ Top.n > NVars
  /\ depth' = depth - 1
  /\ stack' = Below
  /\ UNCHANGED <<alive, rc, slot, weak, backref, blocks>>

(***************************************************************************)
(* END_SUB drops the extra count of the result and frees the frame; the    *)
(* caller's CALL_SUB_OBJECT then assigns the result to its variable.       *)
(***************************************************************************)
EndSub ==
  /\ Running("leave")
  /\ Top.n > NVars
  /\ depth' = depth - 1
  /\ \/ /\ Top.dst = NoSlot
        /\ blocks' = blocks - 1
        /\ stack' = Below
        /\ UNCHANGED <<rc, slot, weak, backref>>
     \/ /\ Top.dst # NoSlot
        /\ ObjectAssign(Top.dst, Top.val,
                        IF Top.val = NULL THEN rc ELSE DecRef(rc, Top.val),
                        blocks - 1, Below)
  /\ UNCHANGED alive

-----------------------------------------------------------------------------
(* dec_ref_count and the end of OBJECT_ASSIGN.                             *)

(* Deviation: the operands of the write are swapped. *)
AssignWriteSwapped ==
  /\ Running("assign")
  /\ slot' = [slot EXCEPT ![Top.dst] = Top.dst]
  /\ stack' = Below
  /\ UNCHANGED <<alive, rc, weak, backref, blocks, depth>>

(* The release has returned: the destination is written. *)
AssignWrite ==
  /\ Running("assign")
  /\ slot' = [slot EXCEPT ![Top.dst] = Top.val]
  /\ stack' = Below
  /\ UNCHANGED <<alive, rc, weak, backref, blocks, depth>>

(* The destructor is called with the object, whose count is still 1. *)
FreeDestroy ==
  /\ Running("free")
  /\ Top.n = 0
  /\ LET fields == WithTop([Top EXCEPT !.n = 1]) IN
     IF Top.obj \in Destructible
       THEN EnterSub(Top.obj, Append(fields, SubFrame(Top.obj, NoSlot)))
       ELSE /\ stack' = fields
            /\ UNCHANGED <<alive, rc, slot, weak, backref, blocks, depth>>

(* Deviation: the index of the field loop is not advanced past empty fields. *)
FreeFieldStuck ==
  /\ Running("free")
  /\ Top.n \in Fields
  /\ slot[<<Top.obj, Top.n>>] = NULL
  /\ UNCHANGED vars

(***************************************************************************)
(* The next field is released, a weak one after unweaken.  The field keeps *)
(* its pointer.  A destructor that left no reference aborts the program:   *)
(* the step is then disabled.                                              *)
(***************************************************************************)
FreeField ==
  LET s    == <<Top.obj, Top.n>>
      old  == slot[s]
      next == WithTop([Top EXCEPT !.n = @ + 1])
  IN
  /\ Running("free")
  /\ Top.n \in Fields
  /\ Top.n = 1 /\ Top.obj \in Destructible => rc[Top.obj] >= 1
  /\ \/ /\ old = NULL
        /\ stack' = next
        /\ UNCHANGED <<rc, weak, backref, blocks>>
     \/ /\ old # NULL
        /\ \E m \in Untagged(s, rc, blocks) :
             /\ weak' = m.weak
             /\ backref' = m.backref
             /\ blocks' = m.blocks
             /\ \/ /\ m.rc[old] = 1
                   /\ rc' = m.rc
                   /\ stack' = Append(next, FreeFrame(old))
                \/ /\ m.rc[old] # 1
                   /\ rc' = DecRef(m.rc, old)
                   /\ stack' = next
  /\ UNCHANGED <<alive, slot, depth>>

(* Deviation: the back references are neither cleared nor freed. *)
FreeBlockKeepsBackrefs ==
  LET o == Top.obj IN
  /\ Running("free")
  /\ Top.n > NFields
  /\ slot' = [s \in Slots |-> IF s \in {o} \X Fields THEN NULL ELSE slot[s]]
  /\ weak' = weak \ ({o} \X Fields)
  /\ backref' = [backref EXCEPT ![o] = <<>>]
  /\ rc' = DecRef(rc, o)
  /\ alive' = alive \ {o}
  /\ blocks' = blocks - 1
  /\ stack' = Below
  /\ UNCHANGED depth

(***************************************************************************)
(* free_weaken_back_refs writes null through every listed address, then    *)
(* the block is freed.  What a freed block holds is not modelled: its      *)
(* words read as null, as they do in the zeroed block the allocator hands  *)
(* out next.                                                               *)
(***************************************************************************)
FreeBlock ==
  LET o      == Top.obj
      listed == {backref[o][i] : i \in DOMAIN backref[o]}
      gone   == {s \in Slots : s \in listed \/ s \in {o} \X Fields}
  IN
  /\ Running("free")
  /\ Top.n > NFields
  /\ slot' = [s \in Slots |-> IF s \in gone THEN NULL ELSE slot[s]]
  /\ weak' = weak \ gone
  /\ backref' = [backref EXCEPT ![o] = <<>>]
  /\ rc' = DecRef(rc, o)
  /\ alive' = alive \ {o}
  /\ blocks' = blocks - 1 - Len(backref[o])
  /\ stack' = Below
  /\ UNCHANGED depth

-----------------------------------------------------------------------------
Program ==
  \/ \E v, w \in Vars : MoveObject(v, w) \/ CallSub(v, w)
  \/ \E v \in Vars : MoveUndef(v)
  \/ \E v \in Vars, o \in Objects : NewObject(v, o)
  \/ \E v, w \in Vars, f \in Fields : GetField(v, w, f)
  \/ \E w \in Vars, f \in Fields, new \in ObjectOrNull : SetField(w, f, new)
  \/ \E v \in Vars, g \in Globals : GetPackageVar(v, g)
  \/ \E g \in Globals, new \in ObjectOrNull : SetPackageVar(g, new)
  \/ \E w \in Vars, f \in Fields : WeakenField(w, f) \/ UnweakenField(w, f)
  \/ \E new \in ObjectOrNull : Return(new)
  \/ Croak
  \/ CallFromHost

Runtime ==
  \/ LeaveScope
  \/ EndSub
  \/ AssignWrite
  \/ FreeDestroy
  \/ FreeField
  \/ FreeBlock

Next == Program \/ Runtime

Spec == Init /\ [][Next]_vars

(***************************************************************************)
(* The host is free to stop calling and a program may loop, but the        *)
(* runtime's own code always runs on.                                      *)
(***************************************************************************)
FairSpec == Spec /\ WF_vars(Runtime)

-----------------------------------------------------------------------------
(* Every variable keeps its type: counts are integers, lists hold          *)
(* addresses, and the C stack is a sequence of well-formed frames.         *)
TypeOK ==
  /\ alive \subseteq Objects
  /\ rc \in [Objects -> Int]
  /\ slot \in [Slots -> ObjectOrNull]
  /\ weak \subseteq Slots
  /\ backref \in [Objects -> Seq(Addresses)]
  /\ blocks \in Int
  /\ depth \in Depths
  /\ stack \in Seq(Frames)

(***************************************************************************)
(* A slot no longer holds its reference when its release is under way: the *)
(* destination of a pending write, or a field a free frame has passed.     *)
(***************************************************************************)
Released(s) ==
  \E i \in DOMAIN stack :
    \/ stack[i].kind = "assign" /\ stack[i].dst = s
    \/ \E n \in Fields :
         stack[i].kind = "free" /\ n < stack[i].n /\ s = <<stack[i].obj, n>>

Holders(o)  == {s \in Slots : slot[s] = o /\ s \notin weak /\ ~Released(s)}
InFlight(o) == {i \in DOMAIN stack : stack[i].val = o}
Freeing(o)  == {i \in DOMAIN stack : stack[i].kind = "free" /\ stack[i].obj = o}

RefsTo(o) == Cardinality(Holders(o)) + Cardinality(InFlight(o)) + Cardinality(Freeing(o))

(* At every step the reference count of an object is the number of          *)
(* references there are to it: strong slots, results and pending writes in  *)
(* flight, and the release under way.  A freed object has none, so nothing  *)
(* dangles, and an object that has some is allocated.                       *)
RefCountExact ==
  \A o \in Objects :
    RefsTo(o) = IF o \in alive THEN rc[o] ELSE 0

(* An allocated object always has a reference that will be released: none   *)
(* is lost while its count is zero.                                         *)
NoLostObject == \A o \in alive : rc[o] > 0

(* dec_ref_count is never at work twice on the same object, so a destructor *)
(* runs once in the life of its object.                                     *)
NoReentrantFree == \A o \in Objects : Cardinality(Freeing(o)) <= 1

(* memory_blocks_count, which every test compares before and after, counts  *)
(* the objects, the back-reference nodes and the activations: back to zero  *)
(* exactly when nothing is left.                                            *)
BlocksExact ==
  blocks = Cardinality(alive) + depth
           + Cardinality({p \in Objects \X (1 .. MaxBackrefs) : p[2] <= Len(backref[p[1]])})

(* The object variables of a suspended activation change only when control  *)
(* is back in it: neither a callee nor a destructor reaches them.           *)
CallerVarsStable ==
  [][\A d \in 1 .. MaxDepth, v \in Vars :
       (d < depth /\ d < depth') => slot'[<<d, v>>] = slot[<<d, v>>]]_vars

(* The count of a live object never falls below the number of its           *)
(* references: nothing is freed under a strong reference.                   *)
RefCountSafe ==
  \A o \in Objects : RefsTo(o) > 0 => o \in alive /\ rc[o] >= RefsTo(o)

(* A weak field refers to a live object that lists the field's address, so  *)
(* the object's death will clear it.                                        *)
WeakTracked ==
  \A s \in weak :
    /\ slot[s] \in alive
    /\ \E i \in DOMAIN backref[slot[s]] : backref[slot[s]][i] = s

(* Once the last reference to an object is gone its release runs to the     *)
(* end: however long the chain it frees, control returns to the program.    *)
ReleaseEnds == (Running("free") \/ Running("assign")) ~> (stack = <<>> \/ Running("sub"))

(* The assertion of dec_ref_count, "object->ref_count > 0" (and the object  *)
(* is a live one), and its check after DESTROY, "Invalid reference count    *)
(* in DESTROY()": the count of an object under release is positive.         *)
DestructorCheck ==
  Running("free") => Top.obj \in alive /\ rc[Top.obj] > 0

(* The comment of unweaken, "Remove weaken back ref": a listed address is   *)
(* one that still holds a weak reference to the object.                     *)
BackrefsAreWeak ==
  \A o \in Objects : \A i \in DOMAIN backref[o] :
    backref[o][i] \in weak /\ slot[backref[o][i]] = o

(* The assertion unweaken starts with, that the back-reference list of the  *)
(* referent has a head: whenever a weak field can be made strong again, its *)
(* referent lists some address.                                             *)
UnweakenAssertion == \A s \in weak : backref[slot[s]] # <<>>
=============================================================================
