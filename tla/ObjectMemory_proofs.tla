------------------------ MODULE ObjectMemory_proofs ------------------------
(***************************************************************************)
(* Theorems about the object memory, for every number of objects, fields,  *)
(* variables and activations, with destructors and weak references.        *)
(*                                                                         *)
(* The inductive invariant ties the C stack to the activations: the level  *)
(* of a frame is the number of activations up to it, "depth" is the level  *)
(* of the innermost frame, and a pending write or a result destination     *)
(* names a variable of its own activation or of its caller.                *)
(***************************************************************************)
EXTENDS ObjectMemory, FiniteSetTheorems, WellFoundedInduction, TLAPS

Activation(f) == f.kind \in {"sub", "leave"}
Activations(st, i) == {j \in 1 .. i : Activation(st[j])}
Level(st, i) == Cardinality(Activations(st, i))

(* What a frame of level d may name. *)
FrameOK(f, d) ==
  /\ f \in Frames
  /\ f.kind = "free" => f.obj \in Objects
  /\ f.kind = "leave" => f.n >= 1
  /\ f.kind = "assign" => f.dst \in Slots /\ (f.dst \in VarSlots => f.dst[1] = d)
  /\ Activation(f) => f.dst = NoSlot \/ (f.dst \in VarSlots /\ f.dst[1] = d - 1)

StackOK(st, d) ==
  /\ st \in Seq(Frames)
  /\ \A i \in 1 .. Len(st) : FrameOK(st[i], Level(st, i))
  /\ d = Level(st, Len(st))

(* The heap part of the type invariant, with the shape of listed addresses. *)
HeapOK ==
  /\ alive \subseteq Objects
  /\ rc \in [Objects -> Int]
  /\ slot \in [Slots -> ObjectOrNull]
  /\ weak \subseteq Slots
  /\ backref \in [Objects -> Seq(FieldSlots \cup {NoSlot})]
  /\ blocks \in Int

IInv ==
  /\ HeapOK
  /\ depth \in Depths
  /\ StackOK(stack, depth)

(* The variables of the activations that are suspended before and after. *)
CallersKept ==
  \A d \in 1 .. MaxDepth, v \in Vars :
    (d < depth /\ d < depth') => slot'[<<d, v>>] = slot[<<d, v>>]

-----------------------------------------------------------------------------
(* Levels.                                                                 *)

LEMMA LevelType ==
  ASSUME NEW st, NEW i \in Nat
  PROVE  IsFiniteSet(Activations(st, i)) /\ Level(st, i) \in Nat
<1>1. IsFiniteSet(1 .. i)
  BY FS_Interval
<1>2. IsFiniteSet(Activations(st, i))
  BY <1>1, FS_Subset DEF Activations
<1> QED
  BY <1>2, FS_CardinalityType DEF Level

LEMMA LevelEmpty == ASSUME NEW st PROVE Level(st, 0) = 0
<1>1. Activations(st, 0) = {}
  BY DEF Activations
<1> QED
  BY <1>1, FS_EmptySet DEF Level

LEMMA LevelNext ==
  ASSUME NEW st, NEW i \in Nat
  PROVE  Level(st, i + 1) = IF Activation(st[i + 1]) THEN Level(st, i) + 1 ELSE Level(st, i)
<1>1. CASE Activation(st[i + 1])
  <2>1. Activations(st, i + 1) = Activations(st, i) \cup {i + 1}
    BY <1>1 DEF Activations
  <2>2. i + 1 \notin Activations(st, i)
    BY DEF Activations
  <2> QED
    BY <1>1, <2>1, <2>2, LevelType, FS_AddElement DEF Level
<1>2. CASE ~Activation(st[i + 1])
  <2>1. Activations(st, i + 1) = Activations(st, i)
    BY <1>2 DEF Activations
  <2> QED
    BY <1>2, <2>1 DEF Level
<1> QED
  BY <1>1, <1>2

LEMMA LevelAgree ==
  ASSUME NEW st, NEW st2, NEW i \in Nat, \A j \in 1 .. i : st[j] = st2[j]
  PROVE  Level(st, i) = Level(st2, i)
<1>1. Activations(st, i) = Activations(st2, i)
  BY DEF Activations
<1> QED
  BY <1>1 DEF Level

-----------------------------------------------------------------------------
(* Pushing and popping frames.                                             *)

LEMMA PushOK ==
  ASSUME NEW st, NEW d, StackOK(st, d), NEW f, NEW e,
         FrameOK(f, e), e = IF Activation(f) THEN d + 1 ELSE d
  PROVE  StackOK(Append(st, f), e)
<1> DEFINE up == Append(st, f)
<1>1. /\ st \in Seq(Frames) /\ f \in Frames
      /\ up \in Seq(Frames)
      /\ Len(st) \in Nat /\ Len(up) = Len(st) + 1
      /\ up[Len(st) + 1] = f
      /\ \A j \in 1 .. Len(st) : up[j] = st[j]
  BY DEF StackOK, FrameOK
<1>2. \A i \in 0 .. Len(st) : Level(up, i) = Level(st, i)
  <2> SUFFICES ASSUME NEW i \in 0 .. Len(st) PROVE Level(up, i) = Level(st, i)
    OBVIOUS
  <2>1. \A j \in 1 .. i : up[j] = st[j]
    BY <1>1
  <2>2. i \in Nat
    BY <1>1
  <2> QED
    BY <2>1, <2>2, LevelAgree
<1>3. Level(up, Len(st) + 1) = e
  <2>1. Level(up, Len(st)) = d
    BY <1>1, <1>2 DEF StackOK
  <2>2. Level(up, Len(st) + 1)
          = IF Activation(up[Len(st) + 1]) THEN Level(up, Len(st)) + 1 ELSE Level(up, Len(st))
    BY <1>1, LevelNext
  <2> QED
    BY <2>1, <2>2, <1>1
<1>4. ASSUME NEW i \in 1 .. Len(up) PROVE FrameOK(up[i], Level(up, i))
  <2>1. CASE i = Len(st) + 1
    BY <2>1, <1>1, <1>3
  <2>2. CASE i # Len(st) + 1
    <3>1. i \in 1 .. Len(st)
      BY <2>2, <1>1
    <3> QED
      BY <3>1, <1>1, <1>2 DEF StackOK
  <2> QED
    BY <2>1, <2>2
<1> QED
  BY <1>1, <1>3, <1>4 DEF StackOK

LEMMA PopOK ==
  ASSUME NEW st, NEW d, StackOK(st, d), st # <<>>
  PROVE  /\ FrameOK(st[Len(st)], d)
         /\ d \in Nat
         /\ Activation(st[Len(st)]) =>
              d >= 1 /\ StackOK(SubSeq(st, 1, Len(st) - 1), d - 1)
         /\ ~Activation(st[Len(st)]) => StackOK(SubSeq(st, 1, Len(st) - 1), d)
<1> DEFINE dn == SubSeq(st, 1, Len(st) - 1)
           n  == Len(st) - 1
<1>1. /\ st \in Seq(Frames)
      /\ Len(st) \in Nat \ {0} /\ n \in Nat
      /\ dn \in Seq(Frames) /\ Len(dn) = n
      /\ \A j \in 1 .. n : dn[j] = st[j]
  <2>1. st \in Seq(Frames)
    BY DEF StackOK
  <2>2. Len(st) \in Nat \ {0} /\ n \in Nat /\ n <= Len(st)
    BY <2>1
  <2> HIDE DEF n
  <2>3. SubSeq(st, 1, n) \in Seq(Frames) /\ Len(SubSeq(st, 1, n)) = n
    BY <2>1, <2>2
  <2>4. \A j \in 1 .. n : SubSeq(st, 1, n)[j] = st[j]
    BY <2>1, <2>2
  <2> QED
    BY <2>1, <2>2, <2>3, <2>4 DEF n
<1>2. \A i \in 0 .. n : Level(dn, i) = Level(st, i)
  <2> SUFFICES ASSUME NEW i \in 0 .. n PROVE Level(dn, i) = Level(st, i)
    OBVIOUS
  <2>1. \A j \in 1 .. i : dn[j] = st[j]
    BY <1>1
  <2>2. i \in Nat
    BY <1>1
  <2> QED
    BY <2>1, <2>2, LevelAgree
<1>3. FrameOK(st[Len(st)], d)
  BY <1>1 DEF StackOK
<1>4. d = IF Activation(st[Len(st)]) THEN Level(st, n) + 1 ELSE Level(st, n)
  BY <1>1, LevelNext DEF StackOK
<1>5. Level(st, n) \in Nat /\ Level(dn, n) = Level(st, n)
  BY <1>1, <1>2, LevelType
<1>6. \A i \in 1 .. n : FrameOK(dn[i], Level(dn, i))
  BY <1>1, <1>2 DEF StackOK
<1>7. StackOK(dn, Level(st, n))
  BY <1>1, <1>5, <1>6 DEF StackOK
<1>8. /\ d \in Nat
      /\ Activation(st[Len(st)]) => d >= 1 /\ Level(st, n) = d - 1
      /\ ~Activation(st[Len(st)]) => Level(st, n) = d
  BY <1>4, <1>5
<1> QED
  BY <1>3, <1>7, <1>8

LEMMA WithTopOK ==
  ASSUME StackOK(stack, depth), stack # <<>>,
         NEW f, FrameOK(f, depth), Activation(f) <=> Activation(Top)
  PROVE  StackOK(WithTop(f), depth)
<1>1. CASE Activation(Top)
  <2>1. depth \in Nat /\ StackOK(Below, depth - 1)
    BY <1>1, PopOK DEF Top, Below
  <2>2. depth = IF Activation(f) THEN (depth - 1) + 1 ELSE depth - 1
    BY <2>1, <1>1
  <2> QED
    BY <2>1, <2>2, PushOK DEF WithTop
<1>2. CASE ~Activation(Top)
  <2>1. StackOK(Below, depth)
    BY <1>2, PopOK DEF Top, Below
  <2>2. depth = IF Activation(f) THEN depth + 1 ELSE depth
    BY <1>2
  <2> QED
    BY <2>1, <2>2, PushOK DEF WithTop
<1> QED
  BY <1>1, <1>2

LEMMA PushFreeOK ==
  ASSUME NEW st, NEW d, StackOK(st, d), NEW o \in Objects
  PROVE  StackOK(Append(st, FreeFrame(o)), d)
<1>1. FreeFrame(o) \in Frames /\ ~Activation(FreeFrame(o)) /\ FrameOK(FreeFrame(o), d)
  BY DEF FreeFrame, FrameOK, Activation, Frames, ObjectOrNull, Addresses
<1> QED
  BY <1>1, PushOK

(* A write that waits for a release: two frames are pushed at once. *)
LEMMA PushPendingOK ==
  ASSUME NEW st, NEW d, StackOK(st, d), NEW dst \in Slots,
         dst \in VarSlots => dst[1] = d,
         NEW new \in ObjectOrNull, NEW old \in Objects
  PROVE  StackOK(st \o <<AssignFrame(dst, new), FreeFrame(old)>>, d)
<1> DEFINE a == AssignFrame(dst, new)
           b == FreeFrame(old)
<1>1. a \in Frames /\ ~Activation(a) /\ FrameOK(a, d)
  BY DEF AssignFrame, FrameOK, Activation, Frames, ObjectOrNull, Addresses
<1>2. StackOK(Append(st, a), d)
  BY <1>1, PushOK
<1>3. StackOK(Append(Append(st, a), b), d)
  BY <1>2, PushFreeOK
<1>4. st \in Seq(Frames) /\ a \in Frames /\ b \in Frames
  BY <1>1 DEF StackOK, FreeFrame, Frames, ObjectOrNull, Addresses
<1>5. st \o <<a, b>> = Append(Append(st, a), b)
  <2> HIDE DEF a, b
  <2> QED
    BY <1>4
<1> QED
  BY <1>3, <1>5

-----------------------------------------------------------------------------
(* Slots, counts and back-reference lists.                                 *)

LEMMA SlotsApart ==
  /\ \A s \in FieldSlots \cup PackageSlots : s \in Slots /\ s \notin VarSlots
  /\ NoSlot \notin Slots
BY MemoryAssumption DEF FieldSlots, PackageSlots, VarSlots, Slots, Depths

(* Updating outside the domain, the count of NULL, changes nothing. *)
LEMMA CountsType ==
  ASSUME NEW counts \in [Objects -> Int], NEW o
  PROVE  /\ [counts EXCEPT ![o] = @ + 1] \in [Objects -> Int]
         /\ IncRef(counts, o) \in [Objects -> Int]
         /\ DecRef(counts, o) \in [Objects -> Int]
<1>1. CASE o \in Objects
  BY <1>1 DEF IncRef, DecRef
<1>2. CASE o \notin Objects
  <2>1. [counts EXCEPT ![o] = @ + 1] = counts /\ [counts EXCEPT ![o] = @ - 1] = counts
    BY <1>2, Zenon
  <2> QED
    BY <2>1 DEF IncRef, DecRef
<1> QED
  BY <1>1, <1>2

(* A non-empty set of indices has a least element. *)
LEMMA LeastIndex ==
  ASSUME NEW S, S \subseteq Nat, S # {}
  PROVE  \E i \in S : \A j \in S : i <= j
<1>1. PICK i \in S : \A j \in S : ~(<<j, i>> \in OpToRel(<, Nat))
  BY NatLessThanWellFounded, WFMin
<1>2. \A j \in S : ~(j < i)
  BY <1>1 DEF OpToRel
<1> QED
  BY <1>2

LEMMA AfterUnweakenType ==
  ASSUME NEW S, NEW list \in Seq(S \cup {NoSlot}), NEW a,
         NEW left \in AfterUnweaken(list, a)
  PROVE  left \in Seq(S \cup {NoSlot})
<1> DEFINE found == {k \in 2 .. Len(list) : list[k] = a}
           least == CHOOSE i \in found : \A j \in found : i <= j
<1>1. CASE list = <<>>
  BY <1>1 DEF AfterUnweaken
<1>2. CASE list # <<>> /\ found = {}
  <2>1. left = <<list[Len(list)]>>
    BY <1>2 DEF AfterUnweaken
  <2>2. list[Len(list)] \in S \cup {NoSlot}
    BY <1>2
  <2> QED
    BY <2>1, <2>2
<1>3. CASE list # <<>> /\ found # {}
  <2>1. left \in {SubSeq(list, least + 1, Len(list)), <<NoSlot>>}
    BY <1>3 DEF AfterUnweaken
  <2>2. \E i \in found : \A j \in found : i <= j
    <3>1. found \subseteq Nat
      OBVIOUS
    <3> HIDE DEF found
    <3> QED
      BY <3>1, <1>3, LeastIndex
  <2>3. least \in found
    BY <2>2
  <2>4. least + 1 \in Nat \ {0} /\ Len(list) \in Nat
    BY <2>3
  <2>5. SubSeq(list, least + 1, Len(list)) \in Seq(S \cup {NoSlot})
    <3> HIDE DEF least
    <3> QED
      BY <2>4
  <2>6. <<NoSlot>> \in Seq(S \cup {NoSlot})
    OBVIOUS
  <2> HIDE DEF least
  <2> QED
    BY <2>1, <2>5, <2>6
<1> QED
  BY <1>1, <1>2, <1>3

LEMMA UntaggedType ==
  ASSUME HeapOK, NEW s \in Slots, NEW counts \in [Objects -> Int], NEW blks \in Int,
         NEW m \in Untagged(s, counts, blks)
  PROVE  /\ m.rc \in [Objects -> Int]
         /\ m.weak \subseteq Slots
         /\ m.backref \in [Objects -> Seq(FieldSlots \cup {NoSlot})]
         /\ m.blocks \in Int
<1>1. CASE s \notin weak
  BY <1>1 DEF Untagged, HeapOK
<1>2. CASE s \in weak
  <2>1. PICK list \in AfterUnweaken(backref[slot[s]], s) :
          m = [rc      |-> [counts EXCEPT ![slot[s]] = @ + 1],
               weak    |-> weak \ {s},
               backref |-> [backref EXCEPT ![slot[s]] = list],
               blocks  |-> blks - NodesFreedByUnweaken(backref[slot[s]], s)]
    BY <1>2 DEF Untagged
  <2>2. NodesFreedByUnweaken(backref[slot[s]], s) \in Int
    BY DEF NodesFreedByUnweaken
  <2>3. slot[s] \in Objects => list \in Seq(FieldSlots \cup {NoSlot})
    BY AfterUnweakenType DEF HeapOK
  <2>4. [backref EXCEPT ![slot[s]] = list] \in [Objects -> Seq(FieldSlots \cup {NoSlot})]
    BY <2>3 DEF HeapOK
  <2>5. [counts EXCEPT ![slot[s]] = @ + 1] \in [Objects -> Int]
    BY CountsType
  <2> QED
    BY <2>1, <2>2, <2>4, <2>5 DEF HeapOK
<1> QED
  BY <1>1, <1>2
-----------------------------------------------------------------------------
(* OBJECT_ASSIGN.                                                          *)

LEMMA ObjectAssignOK ==
  ASSUME HeapOK, alive' \subseteq Objects,
         NEW d, NEW frames, StackOK(frames, d),
         NEW dst \in Slots, dst \in VarSlots => dst[1] = d,
         NEW new \in ObjectOrNull,
         NEW counts \in [Objects -> Int], NEW blks \in Int,
         ObjectAssign(dst, new, counts, blks, frames)
  PROVE  /\ HeapOK'
         /\ StackOK(stack', d)
         /\ \A s \in Slots : s # dst => slot'[s] = slot[s]
<1> DEFINE old == slot[dst]
<1>1. old \in ObjectOrNull
  BY DEF HeapOK
<1>2. IncRef(counts, new) \in [Objects -> Int]
  BY CountsType
<1>3. PICK m \in Untagged(dst, IncRef(counts, new), blks) :
        /\ weak' = m.weak /\ backref' = m.backref /\ blocks' = m.blocks
        /\ \/ old = NULL /\ rc' = m.rc /\ slot' = [slot EXCEPT ![dst] = new] /\ stack' = frames
           \/ /\ old # NULL /\ rc' = DecRef(m.rc, old)
              /\ slot' = [slot EXCEPT ![dst] = new] /\ stack' = frames
           \/ /\ old # NULL /\ rc' = m.rc /\ slot' = slot
              /\ stack' = frames \o <<AssignFrame(dst, new), FreeFrame(old)>>
  BY DEF ObjectAssign
<1>4. /\ m.rc \in [Objects -> Int]
      /\ m.weak \subseteq Slots
      /\ m.backref \in [Objects -> Seq(FieldSlots \cup {NoSlot})]
      /\ m.blocks \in Int
  BY <1>2, UntaggedType
<1>5. rc' \in [Objects -> Int]
  <2>1. DecRef(m.rc, old) \in [Objects -> Int]
    BY <1>4, CountsType
  <2>2. rc' = m.rc \/ rc' = DecRef(m.rc, old)
    BY <1>3
  <2> QED
    BY <1>4, <2>1, <2>2
<1>6. /\ slot' \in [Slots -> ObjectOrNull]
      /\ \A s \in Slots : s # dst => slot'[s] = slot[s]
  BY <1>3 DEF HeapOK
<1>7. StackOK(stack', d)
  <2>1. CASE stack' = frames
    BY <2>1
  <2>2. CASE old # NULL /\ stack' = frames \o <<AssignFrame(dst, new), FreeFrame(old)>>
    <3>1. old \in Objects
      BY <2>2, <1>1 DEF ObjectOrNull
    <3> HIDE DEF old
    <3> QED
      BY <2>2, <3>1, PushPendingOK
  <2> QED
    BY <1>3, <2>1, <2>2
<1>8. alive' \subseteq Objects
  BY DEF HeapOK
<1> QED
  BY <1>3, <1>4, <1>5, <1>6, <1>7, <1>8 DEF HeapOK

LEMMA ActivationTop ==
  ASSUME IInv, stack # <<>>
  PROVE  /\ FrameOK(Top, depth)
         /\ Top \in Frames
         /\ Activation(Top) => /\ depth \in 1 .. MaxDepth
                               /\ \A v \in Vars : Var(v) \in Slots /\ Var(v)[1] = depth
                               /\ StackOK(Below, depth - 1)
         /\ ~Activation(Top) => StackOK(Below, depth)
<1>1. StackOK(stack, depth) /\ depth \in Depths
  BY DEF IInv
<1>2. /\ FrameOK(Top, depth)
      /\ Activation(Top) => depth >= 1 /\ StackOK(Below, depth - 1)
      /\ ~Activation(Top) => StackOK(Below, depth)
  BY <1>1, PopOK DEF Top, Below
<1>3. Activation(Top) => depth \in 1 .. MaxDepth
  BY <1>1, <1>2, MemoryAssumption DEF Depths
<1>4. ASSUME Activation(Top), NEW v \in Vars PROVE Var(v) \in Slots /\ Var(v)[1] = depth
  BY <1>3, <1>4 DEF Var, Slots, VarSlots
<1> QED
  BY <1>2, <1>3, <1>4 DEF FrameOK

(* A write of the running activation keeps the invariant and the variables *)
(* of its callers.                                                         *)
LEMMA StoreOK ==
  ASSUME IInv, Running("sub"), NEW dst \in Slots, dst \in VarSlots => dst[1] = depth,
         NEW new \in ObjectOrNull,
         NEW counts \in [Objects -> Int], NEW blks \in Int,
         ObjectAssign(dst, new, counts, blks, stack),
         alive' \subseteq Objects, UNCHANGED depth
  PROVE  IInv' /\ CallersKept
<1>1. HeapOK /\ StackOK(stack, depth) /\ depth \in Depths
  BY DEF IInv
<1>2. /\ HeapOK' /\ StackOK(stack', depth)
      /\ \A s \in Slots : s # dst => slot'[s] = slot[s]
  BY <1>1, ObjectAssignOK
<1>3. IInv'
  BY <1>1, <1>2 DEF IInv
<1>4. ASSUME NEW d \in 1 .. MaxDepth, NEW v \in Vars, d < depth
      PROVE  slot'[<<d, v>>] = slot[<<d, v>>]
  <2>1. <<d, v>> \in VarSlots /\ <<d, v>> \in Slots
    BY DEF VarSlots, Slots
  <2>2. <<d, v>> # dst
    BY <2>1, <1>4, <1>1 DEF Depths
  <2> QED
    BY <1>2, <2>1, <2>2
<1> QED
  BY <1>3, <1>4 DEF CallersKept
-----------------------------------------------------------------------------
(* The object opcodes.                                                     *)

LEMMA VarType ==
  ASSUME IInv, Running("sub"), NEW v \in Vars
  PROVE  Var(v) \in Slots /\ Var(v)[1] = depth /\ slot[Var(v)] \in ObjectOrNull
<1>1. stack # <<>> /\ Activation(Top)
  BY DEF Running, Activation
<1>2. Var(v) \in Slots /\ Var(v)[1] = depth
  BY <1>1, ActivationTop
<1> QED
  BY <1>2 DEF IInv, HeapOK

LEMMA FieldType ==
  ASSUME IInv, Running("sub"), NEW w \in Vars, NEW f \in Fields, slot[Var(w)] # NULL
  PROVE  /\ slot[Var(w)] \in Objects
         /\ <<slot[Var(w)], f>> \in FieldSlots
         /\ <<slot[Var(w)], f>> \in Slots
         /\ <<slot[Var(w)], f>> \notin VarSlots
         /\ slot[<<slot[Var(w)], f>>] \in ObjectOrNull
<1>1. slot[Var(w)] \in Objects
  BY VarType DEF ObjectOrNull
<1>2. <<slot[Var(w)], f>> \in FieldSlots
  BY <1>1 DEF FieldSlots
<1>3. <<slot[Var(w)], f>> \in Slots /\ <<slot[Var(w)], f>> \notin VarSlots
  BY <1>2, SlotsApart
<1> QED
  BY <1>1, <1>2, <1>3 DEF IInv, HeapOK

LEMMA PackageVarType ==
  ASSUME IInv, NEW g \in Globals
  PROVE  <<0, g>> \in Slots /\ <<0, g>> \notin VarSlots /\ slot[<<0, g>>] \in ObjectOrNull
<1>1. <<0, g>> \in Slots /\ <<0, g>> \notin VarSlots
  BY SlotsApart DEF PackageSlots
<1> QED
  BY <1>1 DEF IInv, HeapOK

LEMMA StoreStep ==
  ASSUME IInv, Running("sub"), NEW dst \in Slots, dst \in VarSlots => dst[1] = depth,
         NEW new \in ObjectOrNull, Store(dst, new)
  PROVE  IInv' /\ CallersKept
<1>1. rc \in [Objects -> Int] /\ blocks \in Int /\ alive \subseteq Objects
  BY DEF IInv, HeapOK
<1>2. ObjectAssign(dst, new, rc, blocks, stack) /\ alive' = alive /\ UNCHANGED depth
  BY DEF Store
<1> QED
  BY <1>1, <1>2, StoreOK

LEMMA NewObjectOK ==
  ASSUME IInv, NEW v \in Vars, NEW o \in Objects, NewObject(v, o)
  PROVE  IInv' /\ CallersKept
<1>1. Running("sub") /\ alive' = alive \cup {o} /\ UNCHANGED depth
      /\ ObjectAssign(Var(v), o, [rc EXCEPT ![o] = 0], blocks + 1, stack)
  BY DEF NewObject
<1>2. [rc EXCEPT ![o] = 0] \in [Objects -> Int] /\ blocks + 1 \in Int /\ alive' \subseteq Objects
  BY <1>1 DEF IInv, HeapOK
<1>3. Var(v) \in Slots /\ Var(v)[1] = depth
  BY <1>1, VarType
<1>4. o \in ObjectOrNull
  BY DEF ObjectOrNull
<1> QED
  BY <1>1, <1>2, <1>3, <1>4, StoreOK

LEMMA WeakenFieldOK ==
  ASSUME IInv, NEW w \in Vars, NEW f \in Fields, WeakenField(w, f)
  PROVE  IInv' /\ CallersKept
<1> DEFINE s == <<slot[Var(w)], f>>
           o == slot[s]
<1>1. Running("sub") /\ slot[Var(w)] # NULL /\ o # NULL /\ UNCHANGED <<alive, slot, depth>>
  BY DEF WeakenField
<1>2. s \in FieldSlots /\ s \in Slots /\ s \notin VarSlots /\ o \in Objects
  BY <1>1, FieldType DEF ObjectOrNull
<1>3. HeapOK /\ StackOK(stack, depth) /\ depth \in Depths
  BY DEF IInv
<1>4. CASE stack' = stack \o <<AssignFrame(s, NULL), FreeFrame(o)>>
           /\ UNCHANGED <<rc, backref, weak, blocks>>
  <2>1. StackOK(stack', depth)
    <3>1. NULL \in ObjectOrNull
      BY DEF ObjectOrNull
    <3> HIDE DEF s, o
    <3> QED
      BY <1>2, <1>3, <1>4, <3>1, PushPendingOK
  <2> QED
    BY <1>1, <1>3, <1>4, <2>1 DEF IInv, HeapOK, CallersKept
<1>5. CASE /\ rc' = DecRef(rc, o)
           /\ backref' = [backref EXCEPT ![o] = Append(@, s)]
           /\ weak' = weak \cup {s}
           /\ blocks' = blocks + 1
           /\ UNCHANGED stack
  <2>1. rc' \in [Objects -> Int]
    BY <1>3, <1>5, CountsType DEF HeapOK
  <2>2. backref' \in [Objects -> Seq(FieldSlots \cup {NoSlot})]
    <3>1. Append(backref[o], s) \in Seq(FieldSlots \cup {NoSlot})
      BY <1>2, <1>3 DEF HeapOK
    <3> HIDE DEF s, o
    <3> QED
      BY <1>3, <1>5, <3>1 DEF HeapOK
  <2>3. weak' \subseteq Slots /\ blocks' \in Int
    <3> HIDE DEF s, o
    <3> QED
      BY <1>2, <1>3, <1>5 DEF HeapOK
  <2> QED
    BY <1>1, <1>3, <1>5, <2>1, <2>2, <2>3 DEF IInv, HeapOK, CallersKept
<1> QED
  BY <1>4, <1>5 DEF WeakenField

LEMMA UnweakenFieldOK ==
  ASSUME IInv, NEW w \in Vars, NEW f \in Fields, UnweakenField(w, f)
  PROVE  IInv' /\ CallersKept
<1> DEFINE s == <<slot[Var(w)], f>>
<1>1. Running("sub") /\ slot[Var(w)] # NULL /\ UNCHANGED <<alive, slot, depth, stack>>
  BY DEF UnweakenField
<1>2. s \in Slots
  BY <1>1, FieldType
<1>3. HeapOK /\ rc \in [Objects -> Int] /\ blocks \in Int
  BY DEF IInv, HeapOK
<1>4. PICK m \in Untagged(s, rc, blocks) :
        rc' = m.rc /\ weak' = m.weak /\ backref' = m.backref /\ blocks' = m.blocks
  BY DEF UnweakenField
<1>5. /\ m.rc \in [Objects -> Int]
      /\ m.weak \subseteq Slots
      /\ m.backref \in [Objects -> Seq(FieldSlots \cup {NoSlot})]
      /\ m.blocks \in Int
  BY <1>2, <1>3, UntaggedType
<1> QED
  BY <1>1, <1>4, <1>5 DEF IInv, HeapOK, CallersKept
-----------------------------------------------------------------------------
(* Calls and returns.                                                      *)

LEMMA EnterSubOK ==
  ASSUME IInv, NEW arg \in ObjectOrNull, NEW frames,
         StackOK(frames, depth + 1), EnterSub(arg, frames)
  PROVE  IInv' /\ CallersKept
<1>1. HeapOK /\ depth \in Depths /\ depth < MaxDepth /\ MaxDepth \in Nat
  BY MemoryAssumption DEF IInv, EnterSub
<1>2. depth' = depth + 1 /\ depth' \in Depths /\ StackOK(stack', depth')
  BY <1>1 DEF EnterSub, Depths
<1>3. rc' \in [Objects -> Int]
  BY <1>1, CountsType DEF EnterSub, HeapOK
<1>4. HeapOK'
  <2>1. slot' \in [Slots -> ObjectOrNull]
    <3> DEFINE s == <<depth + 1, 1>>
    <3>1. slot' = [slot EXCEPT ![s] = arg]
      BY DEF EnterSub
    <3> HIDE DEF s
    <3> QED
      BY <1>1, <3>1 DEF HeapOK
  <2>2. blocks' \in Int /\ UNCHANGED <<alive, weak, backref>>
    BY <1>1 DEF EnterSub, HeapOK
  <2> QED
    BY <1>1, <1>3, <2>1, <2>2 DEF HeapOK
<1>5. ASSUME NEW d \in 1 .. MaxDepth, NEW v \in Vars, d < depth
      PROVE  slot'[<<d, v>>] = slot[<<d, v>>]
  <2>1. <<d, v>> \in Slots
    BY DEF Slots, VarSlots
  <2>2. <<d, v>> # <<depth + 1, 1>>
    BY <1>5, <1>1 DEF Depths
  <2> QED
    BY <2>1, <2>2, <1>1 DEF EnterSub, HeapOK
<1> QED
  BY <1>2, <1>4, <1>5 DEF IInv, CallersKept

LEMMA PushSubOK ==
  ASSUME NEW st, NEW d \in Nat, StackOK(st, d), NEW self \in ObjectOrNull, NEW dst,
         dst = NoSlot \/ (dst \in VarSlots /\ dst[1] = d)
  PROVE  StackOK(Append(st, SubFrame(self, dst)), d + 1)
<1>1. Activation(SubFrame(self, dst)) /\ FrameOK(SubFrame(self, dst), d + 1)
  BY DEF SubFrame, FrameOK, Activation, Frames, ObjectOrNull, Addresses, Slots
<1> QED
  BY <1>1, PushOK

LEMMA CallFromHostOK == ASSUME IInv, CallFromHost PROVE IInv' /\ CallersKept
<1>1. stack = <<>> /\ EnterSub(NULL, <<SubFrame(NULL, NoSlot)>>) /\ NULL \in ObjectOrNull
  BY DEF CallFromHost, ObjectOrNull
<1>2. StackOK(stack, depth) /\ depth \in Nat
  BY MemoryAssumption DEF IInv, Depths
<1>3. StackOK(Append(stack, SubFrame(NULL, NoSlot)), depth + 1)
  BY <1>1, <1>2, PushSubOK
<1>4. <<SubFrame(NULL, NoSlot)>> = Append(stack, SubFrame(NULL, NoSlot))
  BY <1>1
<1> QED
  BY <1>1, <1>3, <1>4, EnterSubOK

LEMMA CallSubOK ==
  ASSUME IInv, NEW v \in Vars, NEW w \in Vars, CallSub(v, w)
  PROVE  IInv' /\ CallersKept
<1>1. /\ Running("sub")
      /\ EnterSub(slot[Var(w)], Append(stack, SubFrame(Top.obj, Var(v))))
  BY DEF CallSub
<1>2. stack # <<>> /\ Activation(Top)
  BY <1>1 DEF Running, Activation
<1>3. Top.obj \in ObjectOrNull /\ StackOK(stack, depth) /\ depth \in 1 .. MaxDepth
  BY <1>2, ActivationTop DEF IInv, Frames
<1>4. Var(v) \in VarSlots /\ Var(v)[1] = depth
  BY <1>3 DEF Var, VarSlots
<1>5. StackOK(Append(stack, SubFrame(Top.obj, Var(v))), depth + 1)
  BY <1>3, <1>4, PushSubOK
<1> QED
  BY <1>1, <1>5, VarType, EnterSubOK

(* An activation turns from running into leaving its scope. *)
LEMMA LeavingOK ==
  ASSUME IInv, stack # <<>>, Activation(Top), NEW dst, dst = Top.dst \/ dst = NoSlot,
         NEW val \in ObjectOrNull, NEW n \in Nat \ {0},
         NEW f, f = [kind |-> "leave", obj |-> Top.obj, dst |-> dst, val |-> val, n |-> n]
  PROVE  StackOK(WithTop(f), depth)
<1>1. Top \in Frames /\ FrameOK(Top, depth) /\ StackOK(stack, depth)
  BY ActivationTop DEF IInv
<1>2. f \in Frames
  BY <1>1 DEF Frames, Addresses
<1>3. Activation(f) /\ FrameOK(f, depth)
  BY <1>1, <1>2 DEF Activation, FrameOK
<1> QED
  BY <1>1, <1>3, WithTopOK

LEMMA ReturnOK ==
  ASSUME IInv, NEW new \in ObjectOrNull, Return(new)
  PROVE  IInv' /\ CallersKept
<1>1. /\ stack # <<>> /\ Activation(Top) /\ rc' = IncRef(rc, new)
      /\ stack' = WithTop(LeaveFrame(Top.dst, new))
      /\ UNCHANGED <<alive, slot, weak, backref, blocks, depth>>
  BY DEF Return, Running, Activation
<1>2. StackOK(stack', depth)
  BY <1>1, LeavingOK DEF LeaveFrame
<1>3. rc' \in [Objects -> Int]
  BY <1>1, CountsType DEF IInv, HeapOK
<1> QED
  BY <1>1, <1>2, <1>3 DEF IInv, HeapOK, CallersKept

LEMMA CroakOK == ASSUME IInv, Croak PROVE IInv' /\ CallersKept
<1>1. /\ stack # <<>> /\ Activation(Top) /\ NULL \in ObjectOrNull
      /\ stack' = WithTop(LeaveFrame(NoSlot, NULL))
      /\ UNCHANGED <<alive, rc, slot, weak, backref, blocks, depth>>
  BY DEF Croak, Running, Activation, ObjectOrNull
<1>2. StackOK(stack', depth)
  BY <1>1, LeavingOK DEF LeaveFrame
<1> QED
  BY <1>1, <1>2 DEF IInv, HeapOK, CallersKept

LEMMA LeaveScopeOK == ASSUME IInv, LeaveScope PROVE IInv' /\ CallersKept
<1> DEFINE s   == Var(Top.n)
           old == slot[s]
           f   == [Top EXCEPT !.n = @ + 1]
<1>1. /\ stack # <<>> /\ Activation(Top) /\ Top.kind = "leave" /\ Top.n <= NVars
      /\ UNCHANGED <<alive, weak, backref, blocks, depth>>
  BY DEF LeaveScope, Running, Activation
<1>2. Top \in Frames /\ FrameOK(Top, depth) /\ Top.n \in Vars /\ Top.n + 1 \in Nat \ {0}
  BY <1>1, ActivationTop, MemoryAssumption DEF Frames, FrameOK, Vars
<1>3. s \in Slots /\ s[1] = depth /\ old \in ObjectOrNull
  BY <1>1, <1>2, ActivationTop DEF IInv, HeapOK
<1>4. StackOK(WithTop(f), depth)
  <2>1. f = [kind |-> "leave", obj |-> Top.obj, dst |-> Top.dst, val |-> Top.val, n |-> Top.n + 1]
    BY <1>1, <1>2 DEF Frames
  <2>2. Top.val \in ObjectOrNull
    BY <1>2 DEF Frames
  <2> HIDE DEF f
  <2> QED
    BY <1>1, <1>2, <2>1, <2>2, LeavingOK
<1>5. CASE /\ stack' = WithTop(f)
           /\ \/ UNCHANGED <<rc, slot>>
              \/ rc' = DecRef(rc, old) /\ slot' = [slot EXCEPT ![s] = NULL]
  <2>1. rc' \in [Objects -> Int]
    BY <1>5, CountsType DEF IInv, HeapOK
  <2>2. slot' \in [Slots -> ObjectOrNull]
    BY <1>5 DEF IInv, HeapOK, ObjectOrNull
  <2>3. ASSUME NEW d \in 1 .. MaxDepth, NEW v \in Vars, d < depth
        PROVE  slot'[<<d, v>>] = slot[<<d, v>>]
    <3>1. <<d, v>> \in Slots /\ <<d, v>> # s
      BY <2>3, <1>3 DEF Slots, VarSlots
    <3> HIDE DEF s
    <3> QED
      BY <1>5, <3>1 DEF IInv, HeapOK
  <2> QED
    BY <1>1, <1>4, <1>5, <2>1, <2>2, <2>3 DEF IInv, HeapOK, CallersKept
<1>6. CASE /\ old # NULL
           /\ stack' = WithTop(f) \o <<AssignFrame(s, NULL), FreeFrame(old)>>
           /\ UNCHANGED <<rc, slot>>
  <2>1. StackOK(stack', depth)
    <3>1. NULL \in ObjectOrNull /\ old \in Objects
      BY <1>3, <1>6 DEF ObjectOrNull
    <3> HIDE DEF s, old, f
    <3> QED
      BY <1>3, <1>4, <1>6, <3>1, PushPendingOK
  <2> QED
    BY <1>1, <1>6, <2>1 DEF IInv, HeapOK, CallersKept
<1> QED
  BY <1>5, <1>6 DEF LeaveScope
LEMMA EndSubOK == ASSUME IInv, EndSub PROVE IInv' /\ CallersKept
<1> DEFINE counts == IF Top.val = NULL THEN rc ELSE DecRef(rc, Top.val)
<1>1. /\ stack # <<>> /\ Activation(Top) /\ depth' = depth - 1 /\ alive' = alive
  BY DEF EndSub, Running, Activation
<1>2. /\ Top \in Frames /\ FrameOK(Top, depth) /\ Top.val \in ObjectOrNull
      /\ depth \in 1 .. MaxDepth /\ depth' \in Depths
      /\ StackOK(Below, depth')
  BY <1>1, ActivationTop, MemoryAssumption DEF Frames, Depths
<1>3. HeapOK /\ blocks - 1 \in Int /\ alive' \subseteq Objects
  BY <1>1 DEF IInv, HeapOK
<1>4. CASE blocks' = blocks - 1 /\ stack' = Below /\ UNCHANGED <<rc, slot, weak, backref>>
  BY <1>1, <1>2, <1>3, <1>4 DEF IInv, HeapOK, CallersKept
<1>5. CASE Top.dst # NoSlot /\ ObjectAssign(Top.dst, Top.val, counts, blocks - 1, Below)
  <2>1. Top.dst \in VarSlots /\ Top.dst \in Slots /\ Top.dst[1] = depth'
    BY <1>1, <1>2, <1>5 DEF FrameOK, Slots
  <2>2. counts \in [Objects -> Int]
    BY <1>3, CountsType DEF HeapOK
  <2>3. /\ HeapOK' /\ StackOK(stack', depth')
        /\ \A s \in Slots : s # Top.dst => slot'[s] = slot[s]
    <3> HIDE DEF counts
    <3> QED
      BY <1>2, <1>3, <1>5, <2>1, <2>2, ObjectAssignOK
  <2>4. ASSUME NEW d \in 1 .. MaxDepth, NEW v \in Vars, d < depth'
        PROVE  slot'[<<d, v>>] = slot[<<d, v>>]
    <3>1. <<d, v>> \in Slots
      BY DEF Slots, VarSlots
    <3>2. <<d, v>> # Top.dst
      BY <2>1, <2>4, <1>2 DEF Depths
    <3> QED
      BY <2>3, <3>1, <3>2
  <2> QED
    BY <1>2, <2>3, <2>4 DEF IInv, CallersKept
<1> QED
  BY <1>4, <1>5 DEF EndSub

-----------------------------------------------------------------------------
(* The release of an object.                                               *)

LEMMA AssignWriteOK == ASSUME IInv, AssignWrite PROVE IInv' /\ CallersKept
<1>1. /\ stack # <<>> /\ Top.kind = "assign" /\ ~Activation(Top)
      /\ slot' = [slot EXCEPT ![Top.dst] = Top.val] /\ stack' = Below
      /\ UNCHANGED <<alive, rc, weak, backref, blocks, depth>>
  BY DEF AssignWrite, Running, Activation
<1>2. /\ Top.val \in ObjectOrNull /\ StackOK(Below, depth)
      /\ Top.dst \in Slots /\ (Top.dst \in VarSlots => Top.dst[1] = depth)
  BY <1>1, ActivationTop DEF Frames, FrameOK
<1>3. slot' \in [Slots -> ObjectOrNull]
  BY <1>1, <1>2 DEF IInv, HeapOK
<1>4. ASSUME NEW d \in 1 .. MaxDepth, NEW v \in Vars, d < depth
      PROVE  slot'[<<d, v>>] = slot[<<d, v>>]
  <2>1. <<d, v>> \in VarSlots /\ <<d, v>> \in Slots
    BY DEF Slots, VarSlots
  <2>2. <<d, v>> # Top.dst
    BY <1>2, <1>4, <2>1 DEF IInv, Depths
  <2> QED
    BY <1>1, <2>1, <2>2 DEF IInv, HeapOK
<1> QED
  BY <1>1, <1>2, <1>3, <1>4 DEF IInv, HeapOK, CallersKept

LEMMA FreeingTop ==
  ASSUME IInv, Running("free"), NEW n \in Nat
  PROVE  /\ stack # <<>> /\ Top \in Frames /\ Top.obj \in Objects
         /\ StackOK(Below, depth)
         /\ StackOK(WithTop([Top EXCEPT !.n = n]), depth)
<1> DEFINE f == [Top EXCEPT !.n = n]
<1>1. stack # <<>> /\ Top.kind = "free" /\ ~Activation(Top)
  BY DEF Running, Activation
<1>2. /\ Top \in Frames /\ FrameOK(Top, depth) /\ Top.obj \in Objects /\ StackOK(Below, depth)
  BY <1>1, ActivationTop DEF FrameOK
<1>3. f \in Frames /\ f.kind = "free" /\ f.obj = Top.obj
  BY <1>1, <1>2 DEF Frames
<1>4. ~Activation(f) /\ FrameOK(f, depth)
  BY <1>2, <1>3 DEF Activation, FrameOK
<1>5. StackOK(WithTop(f), depth)
  <2> HIDE DEF f
  <2> QED
    BY <1>1, <1>4, WithTopOK DEF IInv
<1> QED
  BY <1>1, <1>2, <1>5

LEMMA FreeDestroyOK == ASSUME IInv, FreeDestroy PROVE IInv' /\ CallersKept
<1> DEFINE fields == WithTop([Top EXCEPT !.n = 1])
<1>1. Top.obj \in Objects /\ Top.obj \in ObjectOrNull /\ StackOK(fields, depth)
  BY FreeingTop DEF FreeDestroy, ObjectOrNull
<1>2. depth \in Nat
  BY MemoryAssumption DEF IInv, Depths
<1>3. CASE EnterSub(Top.obj, Append(fields, SubFrame(Top.obj, NoSlot)))
  <2>1. StackOK(Append(fields, SubFrame(Top.obj, NoSlot)), depth + 1)
    <3> HIDE DEF fields
    <3> QED
      BY <1>1, <1>2, PushSubOK
  <2> HIDE DEF fields
  <2> QED
    BY <1>1, <1>3, <2>1, EnterSubOK
<1>4. CASE stack' = fields /\ UNCHANGED <<alive, rc, slot, weak, backref, blocks, depth>>
  <2> HIDE DEF fields
  <2> QED
    BY <1>1, <1>4 DEF IInv, HeapOK, CallersKept
<1> QED
  BY <1>3, <1>4 DEF FreeDestroy

LEMMA FreeFieldOK == ASSUME IInv, FreeField PROVE IInv' /\ CallersKept
<1> DEFINE s    == <<Top.obj, Top.n>>
           old  == slot[s]
           next == WithTop([Top EXCEPT !.n = @ + 1])
<1>1. Running("free") /\ Top.n \in Fields /\ UNCHANGED <<alive, slot, depth>>
  BY DEF FreeField
<1>2. Top.n \in Nat /\ Top.n + 1 \in Nat
  BY <1>1 DEF Fields
<1>3. Top.obj \in Objects /\ StackOK(next, depth)
  BY <1>1, <1>2, FreeingTop
<1>4. s \in Slots /\ old \in ObjectOrNull
  BY <1>1, <1>3 DEF Slots, FieldSlots, IInv, HeapOK
<1>5. CASE stack' = next /\ UNCHANGED <<rc, weak, backref, blocks>>
  BY <1>1, <1>3, <1>5 DEF IInv, HeapOK, CallersKept
<1>6. ASSUME old # NULL,
             NEW m \in Untagged(s, rc, blocks),
             weak' = m.weak, backref' = m.backref, blocks' = m.blocks,
             \/ rc' = m.rc /\ stack' = Append(next, FreeFrame(old))
             \/ rc' = DecRef(m.rc, old) /\ stack' = next
      PROVE  IInv' /\ CallersKept
  <2>1. /\ m.rc \in [Objects -> Int]
        /\ m.weak \subseteq Slots
        /\ m.backref \in [Objects -> Seq(FieldSlots \cup {NoSlot})]
        /\ m.blocks \in Int
    BY <1>4, UntaggedType DEF IInv, HeapOK
  <2>2. DecRef(m.rc, old) \in [Objects -> Int]
    BY <2>1, CountsType
  <2>3. old \in Objects
    BY <1>4, <1>6 DEF ObjectOrNull
  <2>4. StackOK(Append(next, FreeFrame(old)), depth)
    <3> HIDE DEF next, old
    <3> QED
      BY <1>3, <2>3, PushFreeOK
  <2>5. StackOK(stack', depth) /\ rc' \in [Objects -> Int]
    <3> HIDE DEF next, old
    <3> QED
      BY <1>3, <1>6, <2>1, <2>2, <2>4
  <2> QED
    BY <1>1, <1>6, <2>1, <2>5 DEF IInv, HeapOK, CallersKept
<1> QED
  BY <1>5, <1>6 DEF FreeField

LEMMA FreeBlockOK == ASSUME IInv, FreeBlock PROVE IInv' /\ CallersKept
<1> DEFINE o      == Top.obj
           listed == {backref[o][i] : i \in DOMAIN backref[o]}
           gone   == {s \in Slots : s \in listed \/ s \in {o} \X Fields}
<1>1. /\ Running("free")
      /\ slot' = [s \in Slots |-> IF s \in gone THEN NULL ELSE slot[s]]
      /\ weak' = weak \ gone
      /\ backref' = [backref EXCEPT ![o] = <<>>]
      /\ rc' = DecRef(rc, o)
      /\ alive' = alive \ {o}
      /\ blocks' = blocks - 1 - Len(backref[o])
      /\ stack' = Below
      /\ UNCHANGED depth
  BY DEF FreeBlock
<1>2. o \in Objects /\ StackOK(Below, depth)
  BY <1>1, FreeingTop
<1>3. backref[o] \in Seq(FieldSlots \cup {NoSlot}) /\ Len(backref[o]) \in Int
  BY <1>2 DEF IInv, HeapOK
<1>4. rc' \in [Objects -> Int]
  BY <1>1, CountsType DEF IInv, HeapOK
<1>5. slot' \in [Slots -> ObjectOrNull]
  <2> HIDE DEF gone
  <2> QED
    BY <1>1 DEF IInv, HeapOK, ObjectOrNull
<1>6. backref' \in [Objects -> Seq(FieldSlots \cup {NoSlot})]
  BY <1>1, <1>2 DEF IInv, HeapOK
<1>7. weak' \subseteq Slots /\ alive' \subseteq Objects /\ blocks' \in Int
  BY <1>1, <1>3 DEF IInv, HeapOK
<1>8. ASSUME NEW d \in 1 .. MaxDepth, NEW v \in Vars
      PROVE  slot'[<<d, v>>] = slot[<<d, v>>]
  <2>1. <<d, v>> \in VarSlots /\ <<d, v>> \in Slots
    BY DEF VarSlots, Slots
  <2>2. <<d, v>> \notin FieldSlots /\ <<d, v>> # NoSlot
    BY <2>1, SlotsApart
  <2>3. listed \subseteq FieldSlots \cup {NoSlot}
    BY <1>3
  <2>4. {o} \X Fields \subseteq FieldSlots
    BY <1>2 DEF FieldSlots
  <2>5. <<d, v>> \notin gone
    <3> HIDE DEF listed
    <3> QED
      BY <2>2, <2>3, <2>4
  <2> HIDE DEF gone
  <2> QED
    BY <1>1, <2>1, <2>5
<1> QED
  BY <1>1, <1>2, <1>4, <1>5, <1>6, <1>7, <1>8 DEF IInv, HeapOK, CallersKept
-----------------------------------------------------------------------------
(* The invariant and its consequences.                                     *)

LEMMA InitOK == Init => IInv
<1> SUFFICES ASSUME Init PROVE IInv
  OBVIOUS
<1>1. HeapOK
  <2>1. <<>> \in Seq(FieldSlots \cup {NoSlot})
    OBVIOUS
  <2> QED
    BY <2>1 DEF Init, HeapOK, ObjectOrNull
<1>2. depth = 0 /\ depth \in Depths /\ stack = <<>>
  BY MemoryAssumption DEF Init, Depths
<1>3. StackOK(stack, depth)
  BY <1>2, LevelEmpty DEF StackOK
<1> QED
  BY <1>1, <1>2, <1>3 DEF IInv

LEMMA ProgramOK == ASSUME IInv, Program PROVE IInv' /\ CallersKept
<1>0. NULL \in ObjectOrNull /\ Objects \subseteq ObjectOrNull
  BY DEF ObjectOrNull
<1>1. ASSUME NEW v \in Vars, NEW w \in Vars, MoveObject(v, w) PROVE IInv' /\ CallersKept
  <2>1. Running("sub") /\ Store(Var(v), slot[Var(w)])
    BY <1>1 DEF MoveObject
  <2> QED
    BY <2>1, VarType, StoreStep
<1>2. ASSUME NEW v \in Vars, MoveUndef(v) PROVE IInv' /\ CallersKept
  <2>1. Running("sub") /\ Store(Var(v), NULL)
    BY <1>2 DEF MoveUndef
  <2> QED
    BY <2>1, <1>0, VarType, StoreStep
<1>3. ASSUME NEW v \in Vars, NEW w \in Vars, NEW f \in Fields, GetField(v, w, f)
      PROVE  IInv' /\ CallersKept
  <2>1. Running("sub") /\ slot[Var(w)] # NULL /\ Store(Var(v), slot[<<slot[Var(w)], f>>])
    BY <1>3 DEF GetField
  <2>2. slot[<<slot[Var(w)], f>>] \in ObjectOrNull
    BY <2>1, FieldType
  <2> QED
    BY <2>1, <2>2, VarType, StoreStep
<1>4. ASSUME NEW w \in Vars, NEW f \in Fields, NEW new \in ObjectOrNull, SetField(w, f, new)
      PROVE  IInv' /\ CallersKept
  <2>1. Running("sub") /\ slot[Var(w)] # NULL /\ Store(<<slot[Var(w)], f>>, new)
    BY <1>4 DEF SetField
  <2>2. <<slot[Var(w)], f>> \in Slots /\ <<slot[Var(w)], f>> \notin VarSlots
    BY <2>1, FieldType
  <2> QED
    BY <2>1, <2>2, StoreStep
<1>5. ASSUME NEW v \in Vars, NEW g \in Globals, GetPackageVar(v, g)
      PROVE  IInv' /\ CallersKept
  <2>1. Running("sub") /\ Store(Var(v), slot[<<0, g>>])
    BY <1>5 DEF GetPackageVar
  <2>2. slot[<<0, g>>] \in ObjectOrNull
    BY PackageVarType
  <2> QED
    BY <2>1, <2>2, VarType, StoreStep
<1>6. ASSUME NEW g \in Globals, NEW new \in ObjectOrNull, SetPackageVar(g, new)
      PROVE  IInv' /\ CallersKept
  <2>1. Running("sub") /\ Store(<<0, g>>, new)
    BY <1>6 DEF SetPackageVar
  <2> QED
    BY <2>1, PackageVarType, StoreStep
<1> QED
  BY <1>1, <1>2, <1>3, <1>4, <1>5, <1>6, NewObjectOK, WeakenFieldOK, UnweakenFieldOK,
     CallSubOK, CallFromHostOK, ReturnOK, CroakOK DEF Program

LEMMA RuntimeOK == ASSUME IInv, Runtime PROVE IInv' /\ CallersKept
BY LeaveScopeOK, EndSubOK, AssignWriteOK, FreeDestroyOK, FreeFieldOK, FreeBlockOK DEF Runtime

LEMMA NextOK == IInv /\ [Next]_vars => IInv' /\ [CallersKept]_vars
<1> SUFFICES ASSUME IInv, [Next]_vars PROVE IInv' /\ [CallersKept]_vars
  OBVIOUS
<1>1. CASE Next
  BY <1>1, ProgramOK, RuntimeOK DEF Next
<1>2. CASE UNCHANGED vars
  <2>1. IInv'
    BY <1>2 DEF IInv, HeapOK, vars
  <2> QED
    BY <1>2, <2>1
<1> QED
  BY <1>1, <1>2

LEMMA TypeFromIInv == IInv => TypeOK
<1> SUFFICES ASSUME IInv PROVE TypeOK
  OBVIOUS
<1>1. Seq(FieldSlots \cup {NoSlot}) \subseteq Seq(Addresses)
  BY DEF Addresses, Slots
<1> QED
  BY <1>1 DEF IInv, HeapOK, StackOK, TypeOK

(* The state keeps its types: whatever the program does, no opcode, call   *)
(* or release stores anything but an object or null in a slot, listed      *)
(* addresses stay addresses, and the C stack stays well formed.            *)
THEOREM TypeCorrect == Spec => []TypeOK
<1>1. Spec => []IInv
  BY InitOK, NextOK, PTL DEF Spec
<1> QED
  BY <1>1, TypeFromIInv, PTL

(* No callee, no destructor and no pending write ever touches an object    *)
(* variable of a suspended activation, however calls and releases nest.    *)
THEOREM CallerVarsKept == Spec => CallerVarsStable
<1>1. Spec => []IInv
  BY InitOK, NextOK, PTL DEF Spec
<1>2. Spec => [][CallersKept]_vars
  BY <1>1, NextOK, PTL DEF Spec
<1> QED
  BY <1>2 DEF CallerVarsStable, CallersKept
=============================================================================
