------------------------- MODULE NativeCalls_proofs -------------------------
(***************************************************************************)
(* Theorems about native calls, scopes and exceptions, for every number of *)
(* objects, of nested calls and of temporaries.                            *)
(*                                                                         *)
(* The inductive invariant says of every frame what its callees may rely   *)
(* on, counts the references between any two steps, and says of an object  *)
(* whose destructor runs that nobody refers to it but the slot that lets   *)
(* it go and what the destructor itself called: so that freeing it leaves  *)
(* no reference behind.                                                    *)
(***************************************************************************)
EXTENDS NativeCalls, FiniteSetTheorems, SequenceTheorems, TLAPS

Frames ==
  [kind : {"host", "native", "vm", "write", "free"}, phase : {"run", "leave", "inner"},
   var : ObjectOrNull, val : ObjectOrNull, base : Nat, inner : Nat \cup {-1}, next : Nat,
   clear : BOOLEAN, flag : BOOLEAN, eval : BOOLEAN]

(* A frame by itself: which fields its kind and phase use, and how.        *)
FrameOK(f) ==
  /\ f \in Frames
  /\ f.clear => f.kind \in {"native", "host"} /\ f.phase # "run"
  /\ f.phase = "inner" => f.kind = "native" /\ f.inner # -1 /\ f.next > f.inner
  /\ f.inner # -1 => f.inner >= f.base
  /\ f.phase = "leave" /\ f.kind \in {"native", "host"} => f.next > f.base
  /\ f.kind = "write" => f.phase = "run"
  /\ f.kind \in {"host", "write", "free"} => f.var = NULL
  /\ f.kind = "host" => f.val = NULL
  /\ f.kind = "free" => f.val \in Destructible
  /\ f.kind \in {"vm", "native"} /\ (f.phase # "leave" \/ f.flag) => f.val = NULL

(* The frame g called by the frame f.                                      *)
Link(f, g) ==
  /\ g.kind = "free" <=> (f.kind = "write" \/ f.clear)
  /\ g.kind = "write" => f.kind = "vm"
  /\ g.kind \in {"vm", "native"} =>
       /\ f.phase = "run"
       /\ f.kind = "vm" => ~f.flag
       /\ g.val # NULL => f.kind = "vm"
  /\ g.kind # "host"

(* The scope of a frame: what it released so far is null in the array.     *)
ScopeOK(f, mo, mt) ==
  /\ f.base <= mt /\ f.inner <= mt
  /\ f.clear => f.next <= mt
  /\ f.kind \in {"native", "host"} /\ f.phase # "run" =>
       \A i \in 1 .. mt :
         (IF f.phase = "inner" THEN f.inner ELSE f.base) < i /\ i < f.next => mo[i] = NULL

(* The scope of a frame lies below b.                                      *)
Within(f, b) == f.base <= b /\ f.inner <= b /\ (f.clear => f.next <= b)

(* What frame j holds uncounted is counted for somebody below it.          *)
HeldBelow(fr, mo, j, o) ==
  \/ \E i \in 1 .. j - 1 : \/ fr[i].kind = "vm" /\ fr[i].var = o
                           \/ fr[i].kind = "free" /\ fr[i].val = o
  \/ \E i \in 1 .. fr[j].base : mo[i] = o

StackOK(fr, mo, mt) ==
  /\ fr \in Seq(Frames)
  /\ fr # <<>> => fr[1].kind = "host" /\ fr[1].base = 0
  /\ \A j \in 1 .. Len(fr) : FrameOK(fr[j]) /\ ScopeOK(fr[j], mo, mt)
  /\ \A j \in 1 .. Len(fr) - 1 : Link(fr[j], fr[j + 1])
  /\ \A j \in 1 .. Len(fr) : fr[j].kind = "native" =>
       /\ \A k \in 1 .. j - 1 : Within(fr[k], fr[j].base)
       /\ fr[j].var = NULL \/ HeldBelow(fr, mo, j, fr[j].var)

MortalOK(mo, mt) ==
  /\ mo \in Seq(ObjectOrNull) /\ mo # <<>>
  /\ mt \in 0 .. Len(mo)
  /\ \A i \in mt + 1 .. Len(mo) : mo[i] = NULL

(* The references to an object, by where they are: see References.         *)
VarsOf(fr, o) ==
  {j \in 1 .. Len(fr) : /\ fr[j].kind = "vm" /\ fr[j].var = o
                        /\ ~(j = Len(fr) - 1 /\ fr[j + 1].kind = "write")}
ValsOf(fr, o) ==
  {j \in 1 .. Len(fr) : fr[j].kind \in {"vm", "native", "write"} /\ fr[j].val = o}
TempsOf(fr, mo, mt, o) ==
  {i \in 1 .. mt : mo[i] = o /\ ~(fr # <<>> /\ fr[Len(fr)].clear /\ fr[Len(fr)].next = i)}

Count(fr, mo, mt, ex, o) ==
  Cardinality(VarsOf(fr, o)) + Cardinality(ValsOf(fr, o)) + Cardinality(TempsOf(fr, mo, mt, o))
  + (IF ex = o THEN 2 ELSE 0)

(* Counts are exact; only the object lax may have the count 0: a step that *)
(* is to refer to it is not finished.                                      *)
Exact(live, counts, ex, mo, mt, fr, lax) ==
  \A o \in Objects :
    /\ Count(fr, mo, mt, ex, o) = IF o \in live THEN counts[o] ELSE 0
    /\ o \in live /\ counts[o] = 0 => o = lax

(***************************************************************************)
(* The object that frame j releases is referred to by the slot that is     *)
(* being released, a variable two frames below or a temporary of the frame *)
(* below, and by what its destructor, above j, refers to: nothing else.    *)
(***************************************************************************)
Dying(fr, mo, mt, j) ==
  LET o == fr[j].val  write == fr[j - 1].kind = "write" IN
  /\ IF write THEN j - 2 \in VarsOf(fr, o) ELSE fr[j - 1].next \in TempsOf(fr, mo, mt, o)
  /\ \A k \in VarsOf(fr, o) : k > j \/ (write /\ k = j - 2)
  /\ \A k \in ValsOf(fr, o) : k > j
  /\ \A i \in TempsOf(fr, mo, mt, o) : ~write /\ i = fr[j - 1].next

DyingOK(fr, mo, mt) == \A j \in 1 .. Len(fr) : fr[j].kind = "free" => Dying(fr, mo, mt, j)

Vms(fr) == {j \in 1 .. Len(fr) : fr[j].kind = "vm"}

HeapOK(live, counts, ex) ==
  /\ live \subseteq Objects
  /\ counts \in [Objects -> Nat]
  /\ ex \in Strings \cup {NULL}

Good(live, counts, ex, mo, mt, blks, fr, lax) ==
  /\ HeapOK(live, counts, ex)
  /\ MortalOK(mo, mt)
  /\ StackOK(fr, mo, mt)
  /\ Exact(live, counts, ex, mo, mt, fr, lax)
  /\ DyingOK(fr, mo, mt)
  /\ blks = Cardinality(live) + 1 + Cardinality(Vms(fr))

IInv ==
  /\ Good(alive, rc, exc, mortal, mtop, blocks, stack, NULL)
  /\ stack = <<>> => mtop = 0


-----------------------------------------------------------------------------
(* References are finitely many.                                           *)

LEMMA NullFacts == NULL \notin Objects /\ NULL \notin Strings /\ NULL \notin Destructible
BY NativeAssumption DEF Objects

LEMMA CardStep ==
  ASSUME NEW S, NEW x, IsFiniteSet(S)
  PROVE  /\ Cardinality(S) \in Nat
         /\ x \notin S => Cardinality(S \cup {x}) = Cardinality(S) + 1
         /\ x \in S => Cardinality(S \ {x}) = Cardinality(S) - 1
BY FS_AddElement, FS_RemoveElement, FS_CardinalityType

LEMMA RefsFinite ==
  ASSUME NEW fr, NEW mo, NEW mt \in Nat, NEW o, Len(fr) \in Nat
  PROVE  /\ IsFiniteSet(VarsOf(fr, o)) /\ Cardinality(VarsOf(fr, o)) \in Nat
         /\ IsFiniteSet(ValsOf(fr, o)) /\ Cardinality(ValsOf(fr, o)) \in Nat
         /\ IsFiniteSet(TempsOf(fr, mo, mt, o)) /\ Cardinality(TempsOf(fr, mo, mt, o)) \in Nat
         /\ IsFiniteSet(Vms(fr)) /\ Cardinality(Vms(fr)) \in Nat
<1>1. IsFiniteSet(1 .. Len(fr)) /\ IsFiniteSet(1 .. mt)
  BY FS_Interval
<1>2. VarsOf(fr, o) \subseteq 1 .. Len(fr) /\ ValsOf(fr, o) \subseteq 1 .. Len(fr)
      /\ Vms(fr) \subseteq 1 .. Len(fr)
  BY DEF VarsOf, ValsOf, Vms
<1>3. TempsOf(fr, mo, mt, o) \subseteq 1 .. mt
  BY DEF TempsOf
<1> QED
  BY <1>1, <1>2, <1>3, FS_Subset, FS_CardinalityType

(* An object that nobody refers to, and one that is referred to once.      *)
LEMMA CountNone ==
  ASSUME NEW fr, NEW mo, NEW mt \in Nat, NEW ex, NEW o, Len(fr) \in Nat
  PROVE  /\ Count(fr, mo, mt, ex, o) \in Nat
         /\ Count(fr, mo, mt, ex, o) = 0 => /\ VarsOf(fr, o) = {} /\ ValsOf(fr, o) = {}
                                            /\ TempsOf(fr, mo, mt, o) = {} /\ ex # o
BY RefsFinite, FS_EmptySet DEF Count

LEMMA CountOne ==
  ASSUME NEW fr, NEW mo, NEW mt \in Nat, NEW ex, NEW o, Len(fr) \in Nat,
         Count(fr, mo, mt, ex, o) = 1
  PROVE  /\ ex # o
         /\ \A k \in VarsOf(fr, o) : /\ VarsOf(fr, o) = {k} /\ ValsOf(fr, o) = {}
                                     /\ TempsOf(fr, mo, mt, o) = {}
<1> DEFINE V == VarsOf(fr, o)  L == ValsOf(fr, o)  T == TempsOf(fr, mo, mt, o)
<1>1. /\ IsFiniteSet(V) /\ Cardinality(V) \in Nat
      /\ IsFiniteSet(L) /\ Cardinality(L) \in Nat
      /\ IsFiniteSet(T) /\ Cardinality(T) \in Nat
  BY RefsFinite
<1>2. Cardinality(V) + Cardinality(L) + Cardinality(T) + (IF ex = o THEN 2 ELSE 0) = 1
  BY DEF Count
<1>3. ASSUME NEW S, IsFiniteSet(S), NEW x \in S
      PROVE  Cardinality(S) # 0 /\ (Cardinality(S) = 1 => S = {x})
  BY <1>3, FS_EmptySet, FS_Singleton
<1>4. ASSUME NEW k \in V PROVE V = {k} /\ L = {} /\ T = {}
  <2>1. Cardinality(V) # 0 /\ (Cardinality(V) = 1 => V = {k})
    BY <1>1, <1>3
  <2> QED
    BY <2>1, <1>1, <1>2, FS_EmptySet
<1> QED
  BY <1>1, <1>2, <1>4

(* The two lists in one step: what moves changes one of the three sets.    *)
LEMMA CountSame ==
  ASSUME NEW fr, NEW mo, NEW mt, NEW ex, NEW o, NEW fr2, NEW mo2, NEW mt2,
         VarsOf(fr2, o) = VarsOf(fr, o), ValsOf(fr2, o) = ValsOf(fr, o),
         TempsOf(fr2, mo2, mt2, o) = TempsOf(fr, mo, mt, o)
  PROVE  Count(fr2, mo2, mt2, ex, o) = Count(fr, mo, mt, ex, o)
BY DEF Count

-----------------------------------------------------------------------------
(* Sequences of frames.                                                    *)

LEMMA PushFacts ==
  ASSUME NEW s \in Seq(Frames), NEW g \in Frames
  PROVE  LET t == Append(s, g) IN
         /\ t \in Seq(Frames)
         /\ Len(s) \in Nat /\ Len(t) = Len(s) + 1
         /\ \A j \in 1 .. Len(s) : t[j] = s[j]
         /\ t[Len(s) + 1] = g
OBVIOUS

LEMMA PopFacts ==
  ASSUME NEW s \in Seq(Frames), s # <<>>
  PROVE  LET t == SubSeq(s, 1, Len(s) - 1) IN
         /\ t \in Seq(Frames)
         /\ Len(s) \in Nat \ {0} /\ Len(t) = Len(s) - 1
         /\ \A j \in 1 .. Len(s) - 1 : t[j] = s[j]
<1> DEFINE n == Len(s) - 1
<1>1. Len(s) \in Nat \ {0} /\ n \in Nat /\ n <= Len(s)
  OBVIOUS
<1> HIDE DEF n
<1>2. SubSeq(s, 1, n) \in Seq(Frames) /\ Len(SubSeq(s, 1, n)) = n
  BY <1>1
<1>3. \A j \in 1 .. n : SubSeq(s, 1, n)[j] = s[j]
  BY <1>1
<1> QED
  BY <1>1, <1>2, <1>3 DEF n

LEMMA TopFacts ==
  ASSUME NEW s \in Seq(Frames), s # <<>>, NEW g \in Frames
  PROVE  LET t == Append(SubSeq(s, 1, Len(s) - 1), g) IN
         /\ t \in Seq(Frames)
         /\ Len(s) \in Nat \ {0} /\ Len(t) = Len(s)
         /\ \A j \in 1 .. Len(s) - 1 : t[j] = s[j]
         /\ t[Len(s)] = g
<1> DEFINE b == SubSeq(s, 1, Len(s) - 1)
<1>1. /\ b \in Seq(Frames)
      /\ Len(s) \in Nat \ {0} /\ Len(b) = Len(s) - 1
      /\ \A j \in 1 .. Len(s) - 1 : b[j] = s[j]
  BY PopFacts
<1> HIDE DEF b
<1>2. /\ Append(b, g) \in Seq(Frames)
      /\ Len(Append(b, g)) = Len(b) + 1
      /\ \A j \in 1 .. Len(b) : Append(b, g)[j] = b[j]
      /\ Append(b, g)[Len(b) + 1] = g
  BY <1>1, PushFacts
<1> QED
  BY <1>1, <1>2 DEF b

LEMMA ExceptFacts ==
  ASSUME NEW s \in Seq(Frames), s # <<>>, NEW g \in Frames
  PROVE  LET t == [s EXCEPT ![Len(s)] = g] IN
         /\ t \in Seq(Frames)
         /\ Len(s) \in Nat \ {0} /\ Len(t) = Len(s)
         /\ \A j \in 1 .. Len(s) - 1 : t[j] = s[j]
         /\ t[Len(s)] = g
OBVIOUS

LEMMA PushTwoFacts ==
  ASSUME NEW s \in Seq(Frames), NEW g \in Frames, NEW h \in Frames
  PROVE  LET t == s \o <<g, h>> IN
         /\ t \in Seq(Frames)
         /\ Len(s) \in Nat /\ Len(t) = Len(s) + 2
         /\ \A j \in 1 .. Len(s) : t[j] = s[j]
         /\ t[Len(s) + 1] = g /\ t[Len(s) + 2] = h
OBVIOUS

LEMMA FrameFields ==
  ASSUME NEW kind \in {"host", "native", "vm", "write", "free"}
  PROVE  /\ Frame(kind) \in Frames
         /\ Frame(kind).kind = kind /\ Frame(kind).phase = "run"
         /\ Frame(kind).var = NULL /\ Frame(kind).val = NULL
         /\ Frame(kind).base = 0 /\ Frame(kind).inner = -1 /\ Frame(kind).next = 0
         /\ Frame(kind).clear = FALSE /\ Frame(kind).flag = FALSE /\ Frame(kind).eval = FALSE
BY DEF Frame, Frames, ObjectOrNull

-----------------------------------------------------------------------------
(* The shape of the stack, when the top frame changes.                     *)

LEMMA StackReplace ==
  ASSUME NEW fr, NEW mo, NEW mt, NEW t \in Seq(Frames), NEW n \in Nat \ {0},
         StackOK(fr, mo, mt), n = Len(fr), n = Len(t),
         \A j \in 1 .. n - 1 : t[j] = fr[j],
         t[n].kind = fr[n].kind, t[n].base = fr[n].base,
         t[n].kind = "native" => t[n].var = fr[n].var,
         FrameOK(t[n]), ScopeOK(t[n], mo, mt),
         n > 1 => Link(fr[n - 1], t[n])
  PROVE  StackOK(t, mo, mt)
<1>1. t # <<>> => t[1].kind = "host" /\ t[1].base = 0
  <2>1. fr[1].kind = "host" /\ fr[1].base = 0
    BY DEF StackOK
  <2> QED
    BY <2>1
<1>2. \A j \in 1 .. n : FrameOK(t[j]) /\ ScopeOK(t[j], mo, mt)
  BY DEF StackOK
<1>3. ASSUME NEW j \in 1 .. n - 1 PROVE Link(t[j], t[j + 1])
  BY <1>3 DEF StackOK
<1>4. ASSUME NEW j \in 1 .. n, t[j].kind = "native"
      PROVE  /\ \A k \in 1 .. j - 1 : Within(t[k], t[j].base)
             /\ t[j].var = NULL \/ HeldBelow(t, mo, j, t[j].var)
  <2>1. /\ fr[j].kind = "native" /\ t[j].base = fr[j].base /\ t[j].var = fr[j].var
        /\ \A k \in 1 .. j - 1 : t[k] = fr[k]
    BY <1>4
  <2>2. /\ \A k \in 1 .. j - 1 : Within(fr[k], fr[j].base)
        /\ fr[j].var = NULL \/ HeldBelow(fr, mo, j, fr[j].var)
    BY <2>1 DEF StackOK
  <2> QED
    BY <2>1, <2>2 DEF HeldBelow
<1> QED
  BY <1>1, <1>2, <1>3, <1>4 DEF StackOK

LEMMA StackPush ==
  ASSUME NEW fr, NEW mo, NEW mt, NEW t \in Seq(Frames), NEW n \in Nat \ {0},
         StackOK(fr, mo, mt), n = Len(fr), n + 1 = Len(t),
         \A j \in 1 .. n : t[j] = fr[j],
         FrameOK(t[n + 1]), ScopeOK(t[n + 1], mo, mt), Link(fr[n], t[n + 1]),
         t[n + 1].kind = "native" =>
           /\ \A k \in 1 .. n : Within(fr[k], t[n + 1].base)
           /\ t[n + 1].var = NULL \/ HeldBelow(t, mo, n + 1, t[n + 1].var)
  PROVE  StackOK(t, mo, mt)
<1>1. t # <<>> => t[1].kind = "host" /\ t[1].base = 0
  BY DEF StackOK
<1>2. \A j \in 1 .. n + 1 : FrameOK(t[j]) /\ ScopeOK(t[j], mo, mt)
  BY DEF StackOK
<1>3. ASSUME NEW j \in 1 .. n PROVE Link(t[j], t[j + 1])
  BY <1>3 DEF StackOK
<1>4. ASSUME NEW j \in 1 .. n + 1, t[j].kind = "native"
      PROVE  /\ \A k \in 1 .. j - 1 : Within(t[k], t[j].base)
             /\ t[j].var = NULL \/ HeldBelow(t, mo, j, t[j].var)
  <2>1. \A k \in 1 .. j - 1 : t[k] = fr[k]
    OBVIOUS
  <2>2. CASE j = n + 1
    BY <1>4, <2>1, <2>2
  <2>3. CASE j # n + 1
    <3>1. t[j] = fr[j]
      BY <2>3
    <3>2. /\ \A k \in 1 .. j - 1 : Within(fr[k], fr[j].base)
          /\ fr[j].var = NULL \/ HeldBelow(fr, mo, j, fr[j].var)
      BY <1>4, <2>3, <3>1 DEF StackOK
    <3> QED
      BY <2>1, <3>1, <3>2 DEF HeldBelow
  <2> QED
    BY <2>2, <2>3
<1> QED
  BY <1>1, <1>2, <1>3, <1>4 DEF StackOK

(* The top is popped, and the top of the mortal stack set back to mt2.     *)
LEMMA StackPop ==
  ASSUME NEW fr, NEW mo, NEW mt \in Nat, NEW mt2 \in Nat, NEW t \in Seq(Frames), NEW n \in Nat \ {0},
         StackOK(fr, mo, mt), n = Len(fr), n - 1 = Len(t),
         \A j \in 1 .. n - 1 : t[j] = fr[j],
         mt2 <= mt, \A j \in 1 .. n - 1 : Within(fr[j], mt2)
  PROVE  StackOK(t, mo, mt2)
<1>1. t # <<>> => t[1].kind = "host" /\ t[1].base = 0
  <2>1. ASSUME t # <<>> PROVE Len(t) # 0
    BY <2>1
  <2> QED
    BY <2>1 DEF StackOK
<1>2. ASSUME NEW j \in 1 .. n - 1 PROVE FrameOK(t[j]) /\ ScopeOK(t[j], mo, mt2)
  <2>1. t[j] = fr[j] /\ FrameOK(fr[j]) /\ ScopeOK(fr[j], mo, mt) /\ Within(fr[j], mt2)
    BY <1>2 DEF StackOK
  <2> QED
    BY <2>1 DEF ScopeOK, Within
<1>3. ASSUME NEW j \in 1 .. n - 2 PROVE Link(t[j], t[j + 1])
  BY <1>3 DEF StackOK
<1>4. ASSUME NEW j \in 1 .. n - 1, t[j].kind = "native"
      PROVE  /\ \A k \in 1 .. j - 1 : Within(t[k], t[j].base)
             /\ t[j].var = NULL \/ HeldBelow(t, mo, j, t[j].var)
  <2>1. t[j] = fr[j] /\ \A k \in 1 .. j - 1 : t[k] = fr[k]
    OBVIOUS
  <2>2. /\ \A k \in 1 .. j - 1 : Within(fr[k], fr[j].base)
        /\ fr[j].var = NULL \/ HeldBelow(fr, mo, j, fr[j].var)
    BY <1>4, <2>1 DEF StackOK
  <2> QED
    BY <2>1, <2>2 DEF HeldBelow
<1> QED
  BY <1>1, <1>2, <1>3, <1>4 DEF StackOK

(* The mortal stack changes, above what suspended scopes hold.             *)
LEMMA StackMortal ==
  ASSUME NEW fr, NEW mo, NEW mt, NEW mo2, NEW mt2,
         StackOK(fr, mo, mt),
         \A j \in 1 .. Len(fr) : ScopeOK(fr[j], mo2, mt2),
         \A j \in 1 .. Len(fr) : fr[j].kind = "native" =>
           \A i \in 1 .. fr[j].base : mo2[i] = mo[i]
  PROVE  StackOK(fr, mo2, mt2)
BY DEF StackOK, HeldBelow

-----------------------------------------------------------------------------
(* What the parts of the invariant say.                                    *)

LEMMA StackFacts ==
  ASSUME NEW fr, NEW mo, NEW mt, StackOK(fr, mo, mt)
  PROVE  /\ fr \in Seq(Frames) /\ Len(fr) \in Nat
         /\ fr # <<>> => Len(fr) \in Nat \ {0}
         /\ \A j \in 1 .. Len(fr) : fr[j] \in Frames /\ FrameOK(fr[j]) /\ ScopeOK(fr[j], mo, mt)
         /\ \A j \in 2 .. Len(fr) : Link(fr[j - 1], fr[j])
         /\ \A j \in 1 .. Len(fr) : fr[j].kind = "free" =>
              j > 1 /\ (fr[j - 1].kind = "write" \/ fr[j - 1].clear)
         /\ \A j \in 1 .. Len(fr) : fr[j].kind = "write" =>
              j > 1 /\ fr[j - 1].kind = "vm"
<1>1. fr \in Seq(Frames) /\ Len(fr) \in Nat
  BY DEF StackOK
<1>2. \A j \in 1 .. Len(fr) : fr[j] \in Frames /\ FrameOK(fr[j]) /\ ScopeOK(fr[j], mo, mt)
  BY DEF StackOK, FrameOK
<1>3. ASSUME NEW j \in 2 .. Len(fr) PROVE Link(fr[j - 1], fr[j])
  <2>1. j - 1 \in 1 .. Len(fr) - 1 /\ j = (j - 1) + 1
    BY <1>1, <1>3
  <2> QED
    BY <2>1 DEF StackOK
<1>4. 1 \in 1 .. Len(fr) => fr[1].kind = "host"
  BY <1>1 DEF StackOK
<1>5. ASSUME NEW j \in 1 .. Len(fr), fr[j].kind \in {"free", "write"}
      PROVE  /\ j > 1
             /\ fr[j].kind = "free" => fr[j - 1].kind = "write" \/ fr[j - 1].clear
             /\ fr[j].kind = "write" => fr[j - 1].kind = "vm"
  <2>1. j # 1
    BY <1>4, <1>5
  <2>2. j > 1 /\ j \in 2 .. Len(fr)
    BY <1>1, <2>1
  <2> QED
    BY <1>3, <1>5, <2>2 DEF Link
<1> QED
  BY <1>1, <1>2, <1>3, <1>5

LEMMA GoodFacts ==
  ASSUME NEW live, NEW counts, NEW ex, NEW mo, NEW mt, NEW blks, NEW fr, NEW lax,
         Good(live, counts, ex, mo, mt, blks, fr, lax)
  PROVE  /\ StackOK(fr, mo, mt) /\ fr \in Seq(Frames) /\ Len(fr) \in Nat
         /\ mt \in Nat /\ mo \in Seq(ObjectOrNull) /\ mt \in 0 .. Len(mo)
         /\ live \subseteq Objects /\ counts \in [Objects -> Nat]
         /\ ex \in Strings \cup {NULL}
         /\ IsFiniteSet(live) /\ Cardinality(live) \in Nat
<1>1. IsFiniteSet(Objects)
  BY NativeAssumption, FS_Union DEF Objects
<1>2. live \subseteq Objects
  BY DEF Good, HeapOK
<1> QED
  BY <1>1, <1>2, StackFacts, FS_Subset, FS_CardinalityType DEF Good, HeapOK, MortalOK

(* Whatever is referred to is allocated; a count of 1 is one reference.    *)
LEMMA LiveFacts ==
  ASSUME NEW live, NEW counts, NEW ex, NEW mo, NEW mt, NEW blks, NEW fr, NEW lax,
         Good(live, counts, ex, mo, mt, blks, fr, lax),
         NEW o \in Objects
  PROVE  /\ (VarsOf(fr, o) # {} \/ ValsOf(fr, o) # {} \/ TempsOf(fr, mo, mt, o) # {} \/ ex = o)
              => o \in live /\ counts[o] > 0
         /\ o \in live => Count(fr, mo, mt, ex, o) = counts[o] /\ counts[o] \in Nat
         /\ o \notin live => /\ Count(fr, mo, mt, ex, o) = 0
                             /\ VarsOf(fr, o) = {} /\ ValsOf(fr, o) = {}
                             /\ TempsOf(fr, mo, mt, o) = {} /\ ex # o
<1>1. mt \in Nat /\ Len(fr) \in Nat /\ counts \in [Objects -> Nat]
  BY GoodFacts
<1>2. Count(fr, mo, mt, ex, o) = IF o \in live THEN counts[o] ELSE 0
  BY DEF Good, Exact
<1>3. /\ Count(fr, mo, mt, ex, o) \in Nat
      /\ Count(fr, mo, mt, ex, o) = 0 => /\ VarsOf(fr, o) = {} /\ ValsOf(fr, o) = {}
                                         /\ TempsOf(fr, mo, mt, o) = {} /\ ex # o
  BY <1>1, CountNone
<1>4. CASE o \in live
  <2>1. Count(fr, mo, mt, ex, o) = counts[o] /\ counts[o] \in Nat
    BY <1>1, <1>2, <1>4
  <2>2. VarsOf(fr, o) # {} \/ ValsOf(fr, o) # {} \/ TempsOf(fr, mo, mt, o) # {} \/ ex = o
          => Count(fr, mo, mt, ex, o) # 0
    BY <1>3
  <2> QED
    BY <1>4, <2>1, <2>2
<1>5. CASE o \notin live
  BY <1>2, <1>3, <1>5
<1> QED
  BY <1>4, <1>5

-----------------------------------------------------------------------------
(* The top frame moves on: its kind, variable and base stay, nothing or    *)
(* one more result is referred to.                                         *)

LEMMA IncRefFacts ==
  ASSUME NEW counts \in [Objects -> Nat], NEW o \in Objects \cup {NULL}
  PROVE  /\ IncRef(counts, o) \in [Objects -> Nat]
         /\ \A p \in Objects : IncRef(counts, o)[p] = IF p = o THEN counts[p] + 1 ELSE counts[p]
         /\ \A p \in Objects : IncRef(counts, o)[p] >= counts[p]
BY NullFacts DEF IncRef

LEMMA DecRefFacts ==
  ASSUME NEW counts \in [Objects -> Nat], NEW o \in Objects \cup {NULL},
         o # NULL => counts[o] > 0
  PROVE  /\ DecRef(counts, o) \in [Objects -> Nat]
         /\ \A p \in Objects : DecRef(counts, o)[p] = IF p = o THEN counts[p] - 1 ELSE counts[p]
BY NullFacts DEF DecRef

LEMMA MoveOn ==
  ASSUME NEW live, NEW counts, NEW ex, NEW mo, NEW mt, NEW blks, NEW fr, NEW lax,
         Good(live, counts, ex, mo, mt, blks, fr, lax),
         NEW t \in Seq(Frames), NEW n \in Nat \ {0}, n = Len(fr), n = Len(t),
         \A j \in 1 .. n - 1 : t[j] = fr[j],
         t[n].kind = fr[n].kind, t[n].var = fr[n].var, t[n].base = fr[n].base,
         ~t[n].clear, ~fr[n].clear, FrameOK(t[n]), ScopeOK(t[n], mo, mt),
         NEW o \in live \cup {NULL}, NEW counts2,
         \/ t[n].val = fr[n].val /\ counts2 = counts
         \/ /\ t[n].kind \in {"vm", "native"} /\ fr[n].val = NULL
            /\ t[n].val = o /\ counts2 = IncRef(counts, o)
            /\ o # NULL => n > 1 /\ fr[n - 1].kind = "vm"
  PROVE  Good(live, counts2, ex, mo, mt, blks, t, lax)
<1>1. /\ StackOK(fr, mo, mt) /\ mt \in Nat /\ Len(fr) \in Nat /\ fr \in Seq(Frames)
      /\ live \subseteq Objects /\ counts \in [Objects -> Nat]
      /\ NULL \notin Objects
  BY GoodFacts, NullFacts
<1>2. StackOK(t, mo, mt)
  <2>1. ASSUME n > 1 PROVE Link(fr[n - 1], t[n])
    <3>0. n \in 2 .. Len(fr)
      BY <2>1
    <3>1. Link(fr[n - 1], fr[n])
      BY <1>1, <3>0, StackFacts
    <3>2. t[n].kind \in {"vm", "native"} /\ t[n].val # NULL /\ fr[n].val = NULL => fr[n - 1].kind = "vm"
      OBVIOUS
    <3>3. t[n].val = fr[n].val \/ fr[n].val = NULL
      OBVIOUS
    <3> QED
      BY <3>1, <3>2, <3>3 DEF Link
  <2> QED
    BY <1>1, <2>1, StackReplace
<1>3. ASSUME NEW p \in Objects
      PROVE  /\ VarsOf(t, p) = VarsOf(fr, p)
             /\ TempsOf(t, mo, mt, p) = TempsOf(fr, mo, mt, p)
  <2>1. VarsOf(t, p) = VarsOf(fr, p)
    BY <1>1 DEF VarsOf
  <2>2. TempsOf(t, mo, mt, p) = TempsOf(fr, mo, mt, p)
    BY DEF TempsOf
  <2> QED
    BY <2>1, <2>2
<1>4. ASSUME NEW p \in Objects
      PROVE  /\ ValsOf(t, p) \ {n} = ValsOf(fr, p) \ {n}
             /\ counts2 = counts => ValsOf(t, p) = ValsOf(fr, p)
             /\ Count(t, mo, mt, ex, p) - Count(fr, mo, mt, ex, p) =
                  (IF p \in live THEN counts2[p] ELSE 0) - (IF p \in live THEN counts[p] ELSE 0)
  <2>0. /\ IsFiniteSet(VarsOf(fr, p)) /\ Cardinality(VarsOf(fr, p)) \in Nat
        /\ IsFiniteSet(ValsOf(fr, p)) /\ Cardinality(ValsOf(fr, p)) \in Nat
        /\ Cardinality(TempsOf(fr, mo, mt, p)) \in Nat
    BY <1>1, RefsFinite
  <2>1. CASE t[n].val = fr[n].val /\ counts2 = counts
    <3>1. ValsOf(t, p) = ValsOf(fr, p)
      BY <2>1 DEF ValsOf
    <3> QED
      BY <1>1, <1>3, <2>0, <2>1, <3>1 DEF Count
  <2>2. CASE /\ t[n].kind \in {"vm", "native"} /\ fr[n].val = NULL
             /\ t[n].val = o /\ counts2 = IncRef(counts, o)
    <3>1. ValsOf(t, p) = IF p = o THEN ValsOf(fr, p) \cup {n} ELSE ValsOf(fr, p)
      BY <1>1, <2>2 DEF ValsOf
    <3>2. n \notin ValsOf(fr, p)
      BY <1>1, <2>2 DEF ValsOf
    <3>3. p \in live => counts2[p] = IF p = o THEN counts[p] + 1 ELSE counts[p]
      BY <1>1, <2>2 DEF IncRef
    <3>4. Cardinality(ValsOf(fr, p) \cup {n}) = Cardinality(ValsOf(fr, p)) + 1
      BY <2>0, <3>2, CardStep
    <3>5. Count(t, mo, mt, ex, p) = IF p = o THEN Count(fr, mo, mt, ex, p) + 1 ELSE Count(fr, mo, mt, ex, p)
      BY <1>3, <2>0, <3>1, <3>4 DEF Count
    <3>6. p = o => p \in live
      BY <1>1
    <3>7. Count(fr, mo, mt, ex, p) \in Nat /\ counts[p] \in Nat
      BY <1>1, <2>0 DEF Count
    <3>8. counts2 = counts => p # o
      BY <1>1, <3>3, <3>6, <3>7
    <3> QED
      BY <3>1, <3>2, <3>3, <3>5, <3>6, <3>7, <3>8
  <2> QED
    BY <2>1, <2>2
<1>5. counts2 \in [Objects -> Nat] /\ \A p \in Objects : counts2[p] >= counts[p]
  BY <1>1, IncRefFacts
<1>6. Exact(live, counts2, ex, mo, mt, t, lax)
  <2> SUFFICES ASSUME NEW p \in Objects
               PROVE  /\ Count(t, mo, mt, ex, p) = IF p \in live THEN counts2[p] ELSE 0
                      /\ p \in live /\ counts2[p] = 0 => p = lax
    BY DEF Exact
  <2>1. /\ Count(fr, mo, mt, ex, p) = IF p \in live THEN counts[p] ELSE 0
        /\ p \in live /\ counts[p] = 0 => p = lax
    BY DEF Good, Exact
  <2>2. /\ counts[p] \in Nat /\ counts2[p] \in Nat /\ counts2[p] >= counts[p]
        /\ Count(t, mo, mt, ex, p) \in Nat
    BY <1>1, <1>2, <1>5, CountNone
  <2> QED
    BY <1>4, <2>1, <2>2
<1>7. DyingOK(t, mo, mt)
  <2> SUFFICES ASSUME NEW j \in 1 .. n, t[j].kind = "free" PROVE Dying(t, mo, mt, j)
    BY DEF DyingOK
  <2>1. fr[j].kind = "free" /\ Dying(fr, mo, mt, j)
    BY <1>1 DEF Good, DyingOK
  <2>2. j > 1 /\ fr[j].val \in Objects
    BY <1>1, <2>1, StackFacts, NativeAssumption DEF FrameOK, Objects
  <2>3. t[j].val = fr[j].val /\ t[j - 1] = fr[j - 1]
    BY <2>1, <2>2
  <2>4. \A k \in ValsOf(t, t[j].val) : k > j
    <3>1. CASE j = n
      <4>1. ValsOf(t, t[j].val) = ValsOf(fr, fr[j].val)
        BY <1>4, <2>1, <2>2, <2>3, <3>1
      <4> QED
        BY <2>1, <4>1 DEF Dying
    <3>2. CASE j # n
      BY <1>4, <2>1, <2>2, <2>3, <3>2 DEF Dying
    <3> QED
      BY <3>1, <3>2
  <2> QED
    BY <1>3, <2>1, <2>2, <2>3, <2>4 DEF Dying
<1>8. Vms(t) = Vms(fr)
  BY DEF Vms
<1> QED
  BY <1>2, <1>5, <1>6, <1>7, <1>8 DEF Good, HeapOK

-----------------------------------------------------------------------------
(* New objects and the exception variable.                                 *)

(* An object is allocated, and nobody refers to it yet.                    *)
LEMMA Fresh ==
  ASSUME NEW live, NEW counts, NEW ex, NEW mo, NEW mt, NEW blks, NEW fr,
         Good(live, counts, ex, mo, mt, blks, fr, NULL),
         NEW o \in Objects, o \notin live
  PROVE  Good(live \cup {o}, [counts EXCEPT ![o] = 0], ex, mo, mt, blks + 1, fr, o)
<1> DEFINE counts2 == [counts EXCEPT ![o] = 0]
<1>1. /\ live \subseteq Objects /\ counts \in [Objects -> Nat] /\ ex \in Strings \cup {NULL}
      /\ IsFiniteSet(live) /\ Cardinality(live) \in Nat /\ Len(fr) \in Nat /\ mt \in Nat
  BY GoodFacts
<1>2. counts2 \in [Objects -> Nat] /\ counts2[o] = 0
      /\ \A p \in Objects : p # o => counts2[p] = counts[p]
  BY <1>1
<1>3. Exact(live \cup {o}, counts2, ex, mo, mt, fr, o)
  <2> SUFFICES ASSUME NEW p \in Objects
               PROVE  /\ Count(fr, mo, mt, ex, p) = IF p \in live \cup {o} THEN counts2[p] ELSE 0
                      /\ p \in live \cup {o} /\ counts2[p] = 0 => p = o
    BY DEF Exact
  <2>1. /\ Count(fr, mo, mt, ex, p) = IF p \in live THEN counts[p] ELSE 0
        /\ p \in live /\ counts[p] = 0 => p = NULL
    BY DEF Good, Exact
  <2> QED
    BY <1>2, <2>1, NullFacts
<1>4. Cardinality(live \cup {o}) = Cardinality(live) + 1
  BY <1>1, CardStep
<1>5. blks = Cardinality(live) + 1 + Cardinality(Vms(fr)) /\ Cardinality(Vms(fr)) \in Nat
  BY <1>1, RefsFinite DEF Good
<1> HIDE DEF counts2
<1>6. blks + 1 = Cardinality(live \cup {o}) + 1 + Cardinality(Vms(fr))
  BY <1>1, <1>4, <1>5
<1>7. HeapOK(live \cup {o}, counts2, ex)
  BY <1>1, <1>2 DEF HeapOK
<1> QED
  BY <1>3, <1>6, <1>7 DEF Good, counts2

(* The exception variable counts twice: what it held loses two references, *)
(* and is freed when it had no others.                                     *)
LEMMA SetExc ==
  ASSUME NEW live, NEW counts, NEW mo, NEW mt, NEW blks, NEW fr, NEW lax,
         Good(live, counts, exc, mo, mt, blks, fr, lax),
         NEW new \in Strings \cup {NULL}, new # NULL => new \in live, lax \in {NULL, new},
         SetException(new, counts, live, blks, fr)
  PROVE  Good(alive', rc', exc', mo, mt, blocks', stack', NULL) /\ stack' = fr /\ exc' = new
<1> DEFINE once == DecRef(counts, exc)
           more == IncRef(once, new)
           both == DecRef(more, exc)
           dies == exc # NULL /\ both[exc] = 0
<1>1. /\ live \subseteq Objects /\ counts \in [Objects -> Nat] /\ exc \in Strings \cup {NULL}
      /\ IsFiniteSet(live) /\ Cardinality(live) \in Nat /\ Len(fr) \in Nat /\ mt \in Nat
      /\ Strings \subseteq Objects /\ NULL \notin Objects
      /\ exc \in Objects \cup {NULL} /\ new \in Objects \cup {NULL}
  BY GoodFacts, NullFacts DEF Objects
<1>2. ASSUME NEW p \in Objects
      PROVE  /\ Count(fr, mo, mt, exc, p) = IF p \in live THEN counts[p] ELSE 0
             /\ p \in live /\ counts[p] = 0 => p = lax
             /\ Count(fr, mo, mt, new, p) =
                  Count(fr, mo, mt, exc, p) - (IF exc = p THEN 2 ELSE 0) + (IF new = p THEN 2 ELSE 0)
             /\ Count(fr, mo, mt, exc, p) \in Nat
             /\ exc = p => Count(fr, mo, mt, exc, p) >= 2 /\ p \in live /\ counts[p] >= 2
  <2>1. /\ Count(fr, mo, mt, exc, p) = IF p \in live THEN counts[p] ELSE 0
        /\ p \in live /\ counts[p] = 0 => p = lax
    BY DEF Good, Exact
  <2>2. /\ Cardinality(VarsOf(fr, p)) \in Nat /\ Cardinality(ValsOf(fr, p)) \in Nat
        /\ Cardinality(TempsOf(fr, mo, mt, p)) \in Nat
    BY <1>1, RefsFinite
  <2>3. /\ Count(fr, mo, mt, new, p) =
             Count(fr, mo, mt, exc, p) - (IF exc = p THEN 2 ELSE 0) + (IF new = p THEN 2 ELSE 0)
        /\ Count(fr, mo, mt, exc, p) \in Nat
        /\ exc = p => Count(fr, mo, mt, exc, p) >= 2
    BY <2>2 DEF Count
  <2> QED
    BY <2>1, <2>3
<1>3. once \in [Objects -> Nat] /\ \A p \in Objects : once[p] = IF p = exc THEN counts[p] - 1 ELSE counts[p]
  <2>1. exc # NULL => counts[exc] > 0
    BY <1>1, <1>2
  <2> QED
    BY <1>1, <2>1, DecRefFacts
<1>4. more \in [Objects -> Nat] /\ \A p \in Objects : more[p] = IF p = new THEN once[p] + 1 ELSE once[p]
  <2> HIDE DEF once
  <2> QED
    BY <1>1, <1>3, IncRefFacts
<1>5. both \in [Objects -> Nat] /\ \A p \in Objects : both[p] = IF p = exc THEN more[p] - 1 ELSE more[p]
  <2>1. exc # NULL => more[exc] > 0
    BY <1>1, <1>2, <1>3, <1>4
  <2> HIDE DEF more
  <2> QED
    BY <1>1, <1>4, <2>1, DecRefFacts
<1>6. /\ exc' = new /\ stack' = fr
      /\ rc' = IncRef(both, new)
      /\ alive' = IF dies THEN live \ {exc} ELSE live
      /\ blocks' = IF dies THEN blks - 1 ELSE blks
  BY DEF SetException
<1>7. /\ rc' \in [Objects -> Nat]
      /\ \A p \in Objects : rc'[p] = IF p = new THEN both[p] + 1 ELSE both[p]
  <2> HIDE DEF both
  <2> QED
    BY <1>1, <1>5, <1>6, IncRefFacts
<1> HIDE DEF once, more, both
<1>8. \A p \in Objects :
        /\ counts[p] \in Nat
        /\ rc'[p] = counts[p] - (IF exc = p THEN 2 ELSE 0) + (IF new = p THEN 2 ELSE 0)
  BY <1>1, <1>3, <1>4, <1>5, <1>7
<1>9. dies <=> exc # NULL /\ new # exc /\ rc'[exc] = 0
  <2>1. ASSUME exc # NULL PROVE both[exc] = 0 <=> new # exc /\ rc'[exc] = 0
    <3>1. exc \in Objects /\ both[exc] \in Nat /\ counts[exc] >= 2
      BY <1>1, <1>2, <1>5, <2>1
    <3>2. rc'[exc] = IF exc = new THEN both[exc] + 1 ELSE both[exc]
      BY <1>7, <3>1
    <3>3. both[exc] = IF exc = new THEN counts[exc] - 1 ELSE counts[exc] - 2
      BY <1>3, <1>4, <1>5, <1>8, <3>1
    <3> QED
      BY <3>1, <3>2, <3>3
  <2> QED
    BY <2>1
<1> HIDE DEF dies
<1>10. Exact(alive', rc', exc', mo, mt, fr, NULL)
  <2> SUFFICES ASSUME NEW p \in Objects
               PROVE  /\ Count(fr, mo, mt, new, p) = IF p \in alive' THEN rc'[p] ELSE 0
                      /\ p \in alive' /\ rc'[p] = 0 => p = NULL
    BY <1>6 DEF Exact
  <2>1. p # NULL /\ (p = new => p \in live)
    BY <1>1
  <2>2. p \in alive' <=> p \in live /\ ~(p = exc /\ dies)
    BY <1>6
  <2>3. CASE p = exc
    BY <1>2, <1>8, <1>9, <2>1, <2>2, <2>3
  <2>4. CASE p # exc
    BY <1>2, <1>8, <2>1, <2>2, <2>4
  <2> QED
    BY <2>3, <2>4
<1>11. blocks' = Cardinality(alive') + 1 + Cardinality(Vms(fr))
  <2>1. blks = Cardinality(live) + 1 + Cardinality(Vms(fr)) /\ Cardinality(Vms(fr)) \in Nat
    BY <1>1, RefsFinite DEF Good
  <2>2. CASE dies
    <3>1. exc \in live /\ Cardinality(live \ {exc}) = Cardinality(live) - 1
      BY <1>1, <1>2, <1>9, <2>2, CardStep
    <3>2. alive' = live \ {exc} /\ blocks' = blks - 1
      BY <1>6, <2>2
    <3> QED
      BY <1>1, <2>1, <3>1, <3>2
  <2>3. CASE ~dies
    BY <1>6, <2>1, <2>3
  <2> QED
    BY <2>2, <2>3
<1>12. HeapOK(alive', rc', exc')
  BY <1>1, <1>6, <1>7 DEF HeapOK
<1> QED
  BY <1>6, <1>10, <1>11, <1>12 DEF Good

-----------------------------------------------------------------------------
(* OBJECT_ASSIGN to the variable of the activation on top.                 *)

LEMMA OldFacts ==
  ASSUME NEW live, NEW counts, NEW ex, NEW mo, NEW mt, NEW blks, NEW fr, NEW lax,
         Good(live, counts, ex, mo, mt, blks, fr, lax),
         fr # <<>>, fr[Len(fr)].kind = "vm"
  PROVE  LET n == Len(fr)  f == fr[n] IN
         /\ n \in Nat \ {0} /\ f \in Frames /\ FrameOK(f) /\ ScopeOK(f, mo, mt)
         /\ ~f.clear /\ f.var \in live \cup {NULL}
         /\ f.var # NULL => n \in VarsOf(fr, f.var) /\ counts[f.var] > 0
         /\ \A p \in Objects : n \in VarsOf(fr, p) => p = f.var
<1> DEFINE n == Len(fr)  f == fr[n]
<1>1. n \in Nat \ {0} /\ f \in Frames /\ FrameOK(f) /\ ScopeOK(f, mo, mt)
  BY GoodFacts, StackFacts
<1>2. ~f.clear /\ f.var \in Objects \cup {NULL}
  BY <1>1 DEF FrameOK, Frames, ObjectOrNull
<1>3. f.var # NULL => n \in VarsOf(fr, f.var)
  BY <1>1 DEF VarsOf
<1>4. f.var # NULL => f.var \in live /\ counts[f.var] > 0
  BY <1>2, <1>3, LiveFacts
<1>5. \A p \in Objects : n \in VarsOf(fr, p) => p = f.var
  BY DEF VarsOf
<1> QED
  BY <1>1, <1>2, <1>3, <1>4, <1>5

(* The last reference to an instance with a destructor: the assignment     *)
(* waits for the destructor to return.                                     *)
LEMMA AssignWaits ==
  ASSUME NEW live, NEW counts, NEW ex, NEW mo, NEW mt, NEW blks, NEW fr, NEW lax,
         Good(live, counts, ex, mo, mt, blks, fr, lax),
         fr # <<>>, fr[Len(fr)].kind = "vm",
         NEW new \in live \cup {NULL}, lax \in {NULL, new},
         fr[Len(fr)].var \in Destructible, IncRef(counts, new)[fr[Len(fr)].var] = 1
  PROVE  Good(live, IncRef(counts, new), ex, mo, mt, blks,
              fr \o <<[Frame("write") EXCEPT !.val = new],
                      [Frame("free") EXCEPT !.val = fr[Len(fr)].var]>>, NULL)
<1> DEFINE n == Len(fr)
           old == fr[n].var
           count == IncRef(counts, new)
           w == [Frame("write") EXCEPT !.val = new]
           z == [Frame("free") EXCEPT !.val = old]
           u == Append(fr, w)
           t == fr \o <<w, z>>
<1>1. /\ StackOK(fr, mo, mt) /\ mt \in Nat /\ n \in Nat \ {0} /\ fr \in Seq(Frames)
      /\ live \subseteq Objects /\ counts \in [Objects -> Nat] /\ ex \in Strings \cup {NULL}
      /\ NULL \notin Objects /\ old \in Destructible /\ old \in Objects /\ old # NULL
  <2>1. /\ StackOK(fr, mo, mt) /\ mt \in Nat /\ fr \in Seq(Frames)
        /\ live \subseteq Objects /\ counts \in [Objects -> Nat] /\ ex \in Strings \cup {NULL}
    BY GoodFacts
  <2>2. n \in Nat \ {0}
    BY <2>1, StackFacts
  <2>3. NULL \notin Objects /\ old \in Destructible /\ Destructible \subseteq Objects
    BY NullFacts, NativeAssumption DEF Objects
  <2> QED
    BY <2>1, <2>2, <2>3
<1>2. /\ fr[n].kind = "vm" /\ ~fr[n].clear
      /\ n \in VarsOf(fr, old) /\ counts[old] > 0 /\ old \in live
  BY <1>1, OldFacts
<1>3. /\ count \in [Objects -> Nat]
      /\ \A p \in Objects : count[p] = IF p = new THEN counts[p] + 1 ELSE counts[p]
  BY <1>1, IncRefFacts
<1>4. new # old /\ counts[old] = 1
  <2>1. count[old] = 1 /\ counts[old] \in Nat
    BY <1>1
  <2> QED
    BY <1>1, <1>2, <1>3, <2>1
<1>5. Count(fr, mo, mt, ex, old) = 1
  BY <1>1, <1>2, <1>4, LiveFacts
<1>6. VarsOf(fr, old) = {n} /\ ValsOf(fr, old) = {} /\ TempsOf(fr, mo, mt, old) = {}
  <2> HIDE DEF old
  <2> QED
    BY <1>1, <1>2, <1>5, CountOne
<1>7. /\ w \in Frames /\ w.kind = "write" /\ w.phase = "run" /\ w.var = NULL /\ w.val = new
      /\ w.base = 0 /\ w.inner = -1 /\ w.clear = FALSE
      /\ z \in Frames /\ z.kind = "free" /\ z.phase = "run" /\ z.var = NULL /\ z.val = old
      /\ z.base = 0 /\ z.inner = -1 /\ z.clear = FALSE
  BY <1>1 DEF Frame, Frames, ObjectOrNull
<1> HIDE DEF w, z, old, count, n
<1>8. /\ u \in Seq(Frames) /\ Len(u) = n + 1 /\ u[n + 1] = w
      /\ \A j \in 1 .. n : u[j] = fr[j]
  BY <1>1, <1>7, PushFacts DEF n
<1>9. /\ t \in Seq(Frames) /\ Len(t) = n + 2 /\ t[n + 1] = w /\ t[n + 2] = z
      /\ \A j \in 1 .. n : t[j] = fr[j]
  BY <1>1, <1>7, PushTwoFacts DEF n
<1> HIDE DEF u, t
<1>10. StackOK(t, mo, mt)
  <2>1. FrameOK(w) /\ ScopeOK(w, mo, mt) /\ Link(fr[n], w)
    BY <1>1, <1>2, <1>7 DEF FrameOK, ScopeOK, Link
  <2>2. StackOK(u, mo, mt)
    BY <1>1, <1>7, <1>8, <2>1, StackPush DEF n
  <2>3. FrameOK(z) /\ ScopeOK(z, mo, mt) /\ Link(w, z)
    BY <1>1, <1>7 DEF FrameOK, ScopeOK, Link
  <2>4. n + 1 \in Nat \ {0} /\ (n + 1) + 1 = Len(t) /\ \A j \in 1 .. n + 1 : t[j] = u[j]
    BY <1>1, <1>8, <1>9
  <2>5. FrameOK(t[(n + 1) + 1]) /\ ScopeOK(t[(n + 1) + 1], mo, mt)
        /\ Link(u[n + 1], t[(n + 1) + 1]) /\ t[(n + 1) + 1].kind # "native"
    BY <1>1, <1>7, <1>8, <1>9, <2>3
  <2> QED
    BY <1>8, <1>9, <2>2, <2>4, <2>5, StackPush
<1>11. ASSUME NEW p \in Objects
       PROVE  /\ VarsOf(t, p) = VarsOf(fr, p)
              /\ ValsOf(t, p) = IF p = new THEN ValsOf(fr, p) \cup {n + 1} ELSE ValsOf(fr, p)
              /\ TempsOf(t, mo, mt, p) = TempsOf(fr, mo, mt, p)
              /\ n + 1 \notin ValsOf(fr, p)
  <2>1. VarsOf(t, p) = VarsOf(fr, p)
    <3>1. \A j \in 1 .. n : j \in VarsOf(t, p) <=> j \in VarsOf(fr, p)
      BY <1>1, <1>2, <1>7, <1>9, StackFacts DEF VarsOf, n
    <3>2. n + 1 \notin VarsOf(t, p) /\ n + 2 \notin VarsOf(t, p)
      BY <1>7, <1>9 DEF VarsOf
    <3>3. VarsOf(t, p) \subseteq 1 .. n + 2 /\ VarsOf(fr, p) \subseteq 1 .. n
      BY <1>9 DEF VarsOf, n
    <3>4. \A k : k \in 1 .. n + 2 => k \in 1 .. n \/ k = n + 1 \/ k = n + 2
      BY <1>1
    <3> QED
      BY <3>1, <3>2, <3>3, <3>4
  <2>2. ValsOf(t, p) = IF p = new THEN ValsOf(fr, p) \cup {n + 1} ELSE ValsOf(fr, p)
    BY <1>1, <1>7, <1>9 DEF ValsOf, n
  <2>3. TempsOf(t, mo, mt, p) = TempsOf(fr, mo, mt, p)
    BY <1>1, <1>2, <1>7, <1>9 DEF TempsOf, n
  <2>4. n + 1 \notin ValsOf(fr, p)
    BY <1>1 DEF ValsOf, n
  <2> QED
    BY <2>1, <2>2, <2>3, <2>4
<1>12. Exact(live, count, ex, mo, mt, t, NULL)
  <2> SUFFICES ASSUME NEW p \in Objects
               PROVE  /\ Count(t, mo, mt, ex, p) = IF p \in live THEN count[p] ELSE 0
                      /\ p \in live /\ count[p] = 0 => p = NULL
    BY DEF Exact
  <2>1. /\ Count(fr, mo, mt, ex, p) = IF p \in live THEN counts[p] ELSE 0
        /\ p \in live /\ counts[p] = 0 => p = lax
    BY DEF Good, Exact
  <2>2. /\ IsFiniteSet(ValsOf(fr, p)) /\ Cardinality(VarsOf(fr, p)) \in Nat
        /\ Cardinality(TempsOf(fr, mo, mt, p)) \in Nat
        /\ Cardinality(ValsOf(fr, p)) \in Nat
    BY <1>1, RefsFinite DEF n
  <2>3. Cardinality(ValsOf(fr, p) \cup {n + 1}) = Cardinality(ValsOf(fr, p)) + 1
    BY <1>11, <2>2, CardStep
  <2>4. Count(t, mo, mt, ex, p) = IF p = new THEN Count(fr, mo, mt, ex, p) + 1 ELSE Count(fr, mo, mt, ex, p)
    <3>1. CASE p = new
      <4>1. Cardinality(ValsOf(t, p)) = Cardinality(ValsOf(fr, p)) + 1
        BY <1>11, <2>3, <3>1
      <4> QED
        BY <1>11, <2>2, <3>1, <4>1 DEF Count
    <3>2. CASE p # new
      BY <1>11, <2>2, <3>2 DEF Count
    <3> QED
      BY <3>1, <3>2
  <2>5. Count(fr, mo, mt, ex, p) \in Nat /\ counts[p] \in Nat /\ p # NULL
    BY <1>1, <2>2 DEF Count
  <2> QED
    BY <1>3, <2>1, <2>4, <2>5
<1>13. DyingOK(t, mo, mt)
  <2> SUFFICES ASSUME NEW j \in 1 .. n + 2, t[j].kind = "free" PROVE Dying(t, mo, mt, j)
    BY <1>9 DEF DyingOK
  <2>1. CASE j = n + 2
    <3>1. t[j - 1] = w /\ t[j].val = old /\ j - 2 = n
      BY <1>1, <1>7, <1>9, <2>1
    <3>2. VarsOf(t, old) = {n} /\ ValsOf(t, old) = {} /\ TempsOf(t, mo, mt, old) = {}
      BY <1>1, <1>4, <1>6, <1>11
    <3> QED
      BY <1>7, <3>1, <3>2 DEF Dying
  <2>2. CASE j # n + 2
    <3>1. j \in 1 .. n /\ t[j] = fr[j]
      <4>1. j # n + 1
        BY <1>7, <1>9
      <4> QED
        BY <1>1, <1>9, <2>2, <4>1
    <3>2. fr[j].kind = "free" /\ Dying(fr, mo, mt, j) /\ j > 1 /\ fr[j].val \in Objects
      BY <3>1, StackFacts, NativeAssumption DEF Good, DyingOK, FrameOK, Objects, n
    <3>3. t[j - 1] = fr[j - 1] /\ t[j].val = fr[j].val
      BY <1>1, <1>9, <3>1, <3>2
    <3>4. n + 1 > j
      BY <1>1, <3>1
    <3> QED
      BY <1>11, <3>2, <3>3, <3>4 DEF Dying
  <2> QED
    BY <2>1, <2>2
<1>14. Vms(t) = Vms(fr)
  BY <1>1, <1>7, <1>9 DEF Vms, n
<1>15. Good(live, count, ex, mo, mt, blks, t, NULL)
  BY <1>1, <1>3, <1>10, <1>12, <1>13, <1>14 DEF Good, HeapOK
<1> QED
  BY <1>15 DEF t, w, z, old, n, count

(* dec_ref_count without a destructor: the object goes with its last       *)
(* reference.                                                              *)
LEMMA DropFacts ==
  ASSUME NEW o, NEW counts \in [Objects -> Nat], NEW live \in SUBSET Objects, NEW blks, NEW frames,
         o \in live \cup {NULL}, o # NULL => counts[o] > 0,
         ~(o \in Destructible /\ counts[o] = 1),
         Drop(o, counts, live, blks, frames)
  PROVE  /\ rc' \in [Objects -> Nat] /\ stack' = frames
         /\ \A p \in Objects : rc'[p] = IF p = o THEN counts[p] - 1 ELSE counts[p]
         /\ o # NULL /\ counts[o] = 1 => alive' = live \ {o} /\ blocks' = blks - 1
         /\ o = NULL \/ counts[o] # 1 => alive' = live /\ blocks' = blks
<1>1. o # NULL => o \in Objects /\ counts[o] \in Nat
  BY NullFacts
<1>2. CASE o = NULL \/ counts[o] > 1
  <2>1. rc' = DecRef(counts, o) /\ alive' = live /\ blocks' = blks /\ stack' = frames
    BY <1>2 DEF Drop
  <2> QED
    BY <1>1, <1>2, <2>1, DecRefFacts
<1>3. CASE ~(o = NULL \/ counts[o] > 1)
  <2>1. o # NULL /\ o \in Objects /\ counts[o] = 1
    BY <1>1, <1>3
  <2>2. /\ rc' = [counts EXCEPT ![o] = 0] /\ alive' = live \ {o}
        /\ blocks' = blks - 1 /\ stack' = frames
    BY <1>3, <2>1 DEF Drop
  <2> QED
    BY <2>1, <2>2
<1> QED
  BY <1>2, <1>3

LEMMA AssignDone ==
  ASSUME NEW live, NEW counts, NEW ex, NEW mo, NEW mt, NEW blks, NEW fr, NEW lax,
         Good(live, counts, ex, mo, mt, blks, fr, lax),
         fr # <<>>, fr[Len(fr)].kind = "vm",
         NEW new \in live \cup {NULL}, lax \in {NULL, new},
         ~(fr[Len(fr)].var \in Destructible /\ IncRef(counts, new)[fr[Len(fr)].var] = 1),
         Drop(fr[Len(fr)].var, IncRef(counts, new), live, blks,
              [fr EXCEPT ![Len(fr)].var = new])
  PROVE  Good(alive', rc', ex, mo, mt, blocks', stack', NULL) /\ stack' # <<>>
<1> DEFINE n == Len(fr)
           old == fr[n].var
           count == IncRef(counts, new)
           g == [fr[n] EXCEPT !.var = new]
           t == [fr EXCEPT ![n] = g]
<1>1. /\ StackOK(fr, mo, mt) /\ mt \in Nat /\ fr \in Seq(Frames)
      /\ live \subseteq Objects /\ counts \in [Objects -> Nat] /\ ex \in Strings \cup {NULL}
      /\ IsFiniteSet(live) /\ Cardinality(live) \in Nat
  BY GoodFacts
<1>2. /\ n \in Nat \ {0} /\ fr[n] \in Frames /\ FrameOK(fr[n]) /\ ScopeOK(fr[n], mo, mt)
      /\ fr[n].kind = "vm" /\ ~fr[n].clear /\ old \in live \cup {NULL}
      /\ old # NULL => n \in VarsOf(fr, old) /\ counts[old] > 0
      /\ \A p \in Objects : n \in VarsOf(fr, p) => p = old
      /\ NULL \notin Objects /\ old \in Objects \cup {NULL} /\ new \in Objects \cup {NULL}
  BY <1>1, OldFacts, NullFacts
<1>3. /\ count \in [Objects -> Nat]
      /\ \A p \in Objects : count[p] = IF p = new THEN counts[p] + 1 ELSE counts[p]
  BY <1>1, <1>2, IncRefFacts
<1>4. /\ g \in Frames /\ g.var = new /\ g.kind = "vm" /\ g.val = fr[n].val /\ g.base = fr[n].base
      /\ g.clear = fr[n].clear /\ FrameOK(g) /\ ScopeOK(g, mo, mt)
  <2>1. /\ g \in Frames /\ g.var = new /\ g.kind = fr[n].kind /\ g.val = fr[n].val
        /\ g.base = fr[n].base /\ g.inner = fr[n].inner /\ g.next = fr[n].next
        /\ g.phase = fr[n].phase /\ g.clear = fr[n].clear /\ g.flag = fr[n].flag
    BY <1>2 DEF Frames, ObjectOrNull
  <2> HIDE DEF g
  <2> QED
    BY <1>2, <2>1 DEF FrameOK, ScopeOK
<1> HIDE DEF g
<1>5. /\ t \in Seq(Frames) /\ Len(t) = n /\ t[n] = g
      /\ \A j \in 1 .. n - 1 : t[j] = fr[j]
  BY <1>1, <1>4, ExceptFacts
<1>6. /\ rc' \in [Objects -> Nat] /\ stack' = t
      /\ \A p \in Objects : rc'[p] = IF p = old THEN count[p] - 1 ELSE count[p]
      /\ old # NULL /\ count[old] = 1 => alive' = live \ {old} /\ blocks' = blks - 1
      /\ old = NULL \/ count[old] # 1 => alive' = live /\ blocks' = blks
  <2>1. Drop(old, count, live, blks, t)
    BY DEF g
  <2>2. old # NULL => count[old] > 0
    BY <1>1, <1>2, <1>3
  <2>3. ~(old \in Destructible /\ count[old] = 1)
    OBVIOUS
  <2> HIDE DEF old, count, t
  <2> QED
    BY <1>1, <1>2, <1>3, <2>1, <2>2, <2>3, DropFacts
<1> HIDE DEF old, count, t
<1>7. StackOK(t, mo, mt)
  <2>1. ASSUME n > 1 PROVE Link(fr[n - 1], t[n])
    <3>1. n \in 2 .. Len(fr)
      BY <2>1
    <3>2. Link(fr[n - 1], fr[n])
      BY <1>1, <3>1, StackFacts
    <3> QED
      BY <1>2, <1>4, <1>5, <3>2 DEF Link
  <2> HIDE DEF n
  <2> QED
    BY <1>1, <1>2, <1>4, <1>5, <2>1, StackReplace DEF n
<1>8. ASSUME NEW p \in Objects
      PROVE  /\ VarsOf(t, p) = (VarsOf(fr, p) \ {n}) \cup (IF p = new THEN {n} ELSE {})
             /\ ValsOf(t, p) = ValsOf(fr, p)
             /\ TempsOf(t, mo, mt, p) = TempsOf(fr, mo, mt, p)
  <2>1. VarsOf(t, p) = (VarsOf(fr, p) \ {n}) \cup (IF p = new THEN {n} ELSE {})
    <3>1. \A j \in 1 .. n - 1 : j \in VarsOf(t, p) <=> j \in VarsOf(fr, p)
      BY <1>2, <1>4, <1>5 DEF VarsOf
    <3>2. n \in VarsOf(t, p) <=> p = new
      BY <1>2, <1>4, <1>5 DEF VarsOf
    <3>3. VarsOf(t, p) \subseteq 1 .. n /\ VarsOf(fr, p) \subseteq 1 .. n
      BY <1>5 DEF VarsOf
    <3>4. \A k : k \in 1 .. n => k \in 1 .. n - 1 \/ k = n
      BY <1>2
    <3> HIDE DEF n
    <3> QED
      BY <3>1, <3>2, <3>3, <3>4
  <2>2. ValsOf(t, p) = ValsOf(fr, p)
    BY <1>2, <1>4, <1>5 DEF ValsOf
  <2>3. TempsOf(t, mo, mt, p) = TempsOf(fr, mo, mt, p)
    BY <1>2, <1>4, <1>5 DEF TempsOf
  <2> QED
    BY <2>1, <2>2, <2>3
<1>9. ASSUME NEW p \in Objects
      PROVE  /\ Count(t, mo, mt, ex, p) = Count(fr, mo, mt, ex, p)
                  + (IF p = new THEN 1 ELSE 0) - (IF p = old THEN 1 ELSE 0)
             /\ Count(fr, mo, mt, ex, p) \in Nat
  <2>1. /\ IsFiniteSet(VarsOf(fr, p)) /\ Cardinality(VarsOf(fr, p)) \in Nat
        /\ Cardinality(TempsOf(fr, mo, mt, p)) \in Nat
        /\ Cardinality(ValsOf(fr, p)) \in Nat
    BY <1>1, <1>2, RefsFinite
  <2>2. n \in VarsOf(fr, p) <=> p = old
    BY <1>2
  <2>3. /\ Cardinality(VarsOf(fr, p) \ {n}) =
             Cardinality(VarsOf(fr, p)) - (IF p = old THEN 1 ELSE 0)
        /\ IsFiniteSet(VarsOf(fr, p) \ {n})
    <3>1. CASE p = old
      BY <2>1, <2>2, <3>1, FS_RemoveElement
    <3>2. CASE p # old
      <4>1. n \notin VarsOf(fr, p)
        BY <2>2, <3>2
      <4>2. /\ Cardinality(VarsOf(fr, p) \ {n}) = Cardinality(VarsOf(fr, p))
            /\ IsFiniteSet(VarsOf(fr, p) \ {n})
        BY <2>1, <4>1, FS_RemoveElement
      <4> QED
        BY <2>1, <3>2, <4>2
    <3> QED
      BY <3>1, <3>2
  <2>4. Cardinality((VarsOf(fr, p) \ {n}) \cup {n}) = Cardinality(VarsOf(fr, p) \ {n}) + 1
    BY <2>3, FS_AddElement
  <2>5. Cardinality(VarsOf(t, p)) = Cardinality(VarsOf(fr, p))
          + (IF p = new THEN 1 ELSE 0) - (IF p = old THEN 1 ELSE 0)
    <3>1. CASE p = new
      <4>1. VarsOf(t, p) = (VarsOf(fr, p) \ {n}) \cup {n}
        BY <1>8, <3>1
      <4> QED
        BY <2>1, <2>3, <2>4, <3>1, <4>1
    <3>2. CASE p # new
      <4>1. VarsOf(t, p) = VarsOf(fr, p) \ {n}
        BY <1>8, <3>2
      <4> QED
        BY <2>1, <2>3, <3>2, <4>1
    <3> QED
      BY <3>1, <3>2
  <2> QED
    BY <1>8, <2>1, <2>5 DEF Count
<1>10. Exact(alive', rc', ex, mo, mt, t, NULL)
  <2> SUFFICES ASSUME NEW p \in Objects
               PROVE  /\ Count(t, mo, mt, ex, p) = IF p \in alive' THEN rc'[p] ELSE 0
                      /\ p \in alive' /\ rc'[p] = 0 => p = NULL
    BY DEF Exact
  <2>1. /\ Count(fr, mo, mt, ex, p) = IF p \in live THEN counts[p] ELSE 0
        /\ p \in live /\ counts[p] = 0 => p = lax
    BY DEF Good, Exact
  <2>2. counts[p] \in Nat /\ p # NULL
    BY <1>1, <1>2
  <2>3. p \in alive' <=> p \in live /\ ~(p = old /\ count[p] = 1)
    BY <1>6, <2>2
  <2>4. p = new \/ p = old => p \in live
    BY <1>2, <2>2
  <2>5. rc'[p] = counts[p] + (IF p = new THEN 1 ELSE 0) - (IF p = old THEN 1 ELSE 0)
        /\ rc'[p] \in Nat /\ count[p] = counts[p] + (IF p = new THEN 1 ELSE 0)
    BY <1>3, <1>6, <2>2
  <2>6. /\ Count(t, mo, mt, ex, p) = Count(fr, mo, mt, ex, p)
             + (IF p = new THEN 1 ELSE 0) - (IF p = old THEN 1 ELSE 0)
        /\ Count(fr, mo, mt, ex, p) \in Nat
    BY <1>9
  <2>7. CASE p \notin live
    BY <2>1, <2>3, <2>4, <2>6, <2>7
  <2>8. CASE p \in live /\ p = old
    <3>1. p \in alive' <=> count[p] # 1
      BY <2>3, <2>8
    <3>2. rc'[p] = count[p] - 1
      BY <2>2, <2>5, <2>8
    <3>3. Count(t, mo, mt, ex, p) = rc'[p]
      BY <2>1, <2>2, <2>5, <2>6, <2>8
    <3>4. count[p] \in Nat
      BY <2>2, <2>5
    <3> QED
      BY <3>1, <3>2, <3>3, <3>4
  <2>9. CASE p \in live /\ p # old
    <3>1. p \in alive' /\ Count(t, mo, mt, ex, p) = rc'[p]
      BY <2>1, <2>2, <2>3, <2>5, <2>6, <2>9
    <3>2. rc'[p] # 0
      BY <2>1, <2>2, <2>5, <2>9
    <3> QED
      BY <3>1, <3>2
  <2> QED
    BY <2>7, <2>8, <2>9
<1>11. DyingOK(t, mo, mt)
  <2> SUFFICES ASSUME NEW j \in 1 .. n, t[j].kind = "free" PROVE Dying(t, mo, mt, j)
    BY <1>5 DEF DyingOK
  <2>1. j \in 1 .. n - 1 /\ t[j] = fr[j]
    <3>1. j # n
      BY <1>4, <1>5
    <3> QED
      BY <1>2, <1>5, <3>1
  <2>2. fr[j].kind = "free" /\ Dying(fr, mo, mt, j) /\ j > 1 /\ fr[j].val \in Objects
    BY <1>1, <2>1, StackFacts, NativeAssumption DEF Good, DyingOK, FrameOK, Objects
  <2>3. t[j - 1] = fr[j - 1] /\ t[j].val = fr[j].val
    BY <1>2, <1>5, <2>1, <2>2
  <2>4. n > j /\ n # j - 2
    BY <1>2, <2>1
  <2> HIDE DEF n
  <2> QED
    BY <1>8, <2>2, <2>3, <2>4 DEF Dying
<1>12. blocks' = Cardinality(alive') + 1 + Cardinality(Vms(t))
  <2>1. Vms(t) = Vms(fr)
    BY <1>2, <1>4, <1>5 DEF Vms
  <2>2. blks = Cardinality(live) + 1 + Cardinality(Vms(fr)) /\ Cardinality(Vms(fr)) \in Nat
    BY <1>1, <1>2, RefsFinite DEF Good
  <2>3. CASE old # NULL /\ count[old] = 1
    <3>1. old \in live /\ Cardinality(live \ {old}) = Cardinality(live) - 1
      BY <1>1, <1>2, <2>3, CardStep
    <3>2. alive' = live \ {old} /\ blocks' = blks - 1
      BY <1>6, <2>3
    <3> QED
      BY <1>1, <2>1, <2>2, <3>1, <3>2
  <2>4. CASE old = NULL \/ count[old] # 1
    BY <1>6, <2>1, <2>2, <2>4
  <2> QED
    BY <2>3, <2>4
<1>13. HeapOK(alive', rc', ex)
  BY <1>1, <1>6 DEF HeapOK
<1>14. t # <<>>
  BY <1>2, <1>5
<1> QED
  BY <1>6, <1>7, <1>10, <1>11, <1>12, <1>13, <1>14 DEF Good

LEMMA Assign ==
  ASSUME NEW live, NEW counts, NEW ex, NEW mo, NEW mt, NEW blks, NEW fr, NEW lax,
         Good(live, counts, ex, mo, mt, blks, fr, lax),
         fr # <<>>, fr[Len(fr)].kind = "vm",
         NEW new \in live \cup {NULL}, lax \in {NULL, new},
         AssignVar(new, counts, live, blks, fr)
  PROVE  Good(alive', rc', ex, mo, mt, blocks', stack', NULL) /\ stack' # <<>>
<1> DEFINE old == fr[Len(fr)].var
           t == fr \o <<[Frame("write") EXCEPT !.val = new], [Frame("free") EXCEPT !.val = old]>>
<1>1. CASE old \in Destructible /\ IncRef(counts, new)[old] = 1
  <2>1. rc' = IncRef(counts, new) /\ alive' = live /\ blocks' = blks /\ stack' = t
    BY <1>1 DEF AssignVar
  <2>2. Good(live, IncRef(counts, new), ex, mo, mt, blks, t, NULL)
    BY <1>1, AssignWaits
  <2>3. t # <<>>
    <3> HIDE DEF old
    <3>1. fr \in Seq(Frames)
      BY GoodFacts
    <3> QED
      BY <3>1
  <2> QED
    BY <2>1, <2>2, <2>3
<1>2. CASE ~(old \in Destructible /\ IncRef(counts, new)[old] = 1)
  <2>1. Drop(old, IncRef(counts, new), live, blks, [fr EXCEPT ![Len(fr)].var = new])
    BY <1>2 DEF AssignVar
  <2> QED
    BY <1>2, <2>1, AssignDone
<1> QED
  BY <1>1, <1>2

-----------------------------------------------------------------------------
(* Calls.                                                                  *)

(* A subroutine gets its argument: the virtual machine counts it, native   *)
(* code only reads it where somebody below counts it.                      *)
LEMMA PushCall ==
  ASSUME NEW live, NEW counts, NEW ex, NEW mo, NEW mt, NEW blks, NEW fr,
         Good(live, counts, ex, mo, mt, blks, fr, NULL),
         NEW n \in Nat \ {0}, n = Len(fr),
         fr[n].phase = "run", fr[n].kind # "write", fr[n].kind = "vm" => ~fr[n].flag,
         NEW arg \in live \cup {NULL}, NEW g \in Frames,
         g.phase = "run", g.var = arg, g.val = NULL, g.inner = -1, ~g.clear, ~g.flag,
         NEW counts2, NEW blks2,
         \/ g.kind = "vm" /\ g.base = 0 /\ counts2 = IncRef(counts, arg) /\ blks2 = blks + 1
         \/ /\ g.kind = "native" /\ g.base = mt /\ counts2 = counts /\ blks2 = blks
            /\ \/ arg = NULL
               \/ \E i \in 1 .. n : \/ fr[i].kind = "vm" /\ fr[i].var = arg
                                    \/ fr[i].kind = "free" /\ fr[i].val = arg
               \/ \E i \in 1 .. mt : mo[i] = arg
  PROVE  Good(live, counts2, ex, mo, mt, blks2, Append(fr, g), NULL)
<1> DEFINE t == Append(fr, g)
<1>1. /\ StackOK(fr, mo, mt) /\ mt \in Nat /\ fr \in Seq(Frames)
      /\ live \subseteq Objects /\ counts \in [Objects -> Nat] /\ ex \in Strings \cup {NULL}
      /\ NULL \notin Objects /\ arg \in Objects \cup {NULL}
  BY GoodFacts, NullFacts
<1>2. /\ t \in Seq(Frames) /\ Len(t) = n + 1 /\ t[n + 1] = g
      /\ \A j \in 1 .. n : t[j] = fr[j]
  BY <1>1, PushFacts
<1> HIDE DEF t
<1>3. /\ fr[n] \in Frames /\ FrameOK(fr[n]) /\ ~fr[n].clear
      /\ g.kind \in {"vm", "native"}
  <2>1. FrameOK(fr[n])
    BY <1>1, StackFacts
  <2> QED
    BY <2>1 DEF FrameOK
<1>4. StackOK(t, mo, mt)
  <2>1. FrameOK(g)
    BY <1>3 DEF FrameOK
  <2>2. ScopeOK(g, mo, mt)
    BY <1>1 DEF ScopeOK
  <2>3. Link(fr[n], g)
    BY <1>3 DEF Link
  <2>4. ASSUME g.kind = "native"
        PROVE  /\ \A k \in 1 .. n : Within(fr[k], g.base)
               /\ g.var = NULL \/ HeldBelow(t, mo, n + 1, g.var)
    <3>1. \A k \in 1 .. n : Within(fr[k], g.base)
      BY <1>1, <2>4, StackFacts DEF ScopeOK, Within
    <3>2. (n + 1) - 1 = n /\ t[n + 1].base = mt
      BY <1>2, <2>4
    <3>3. g.var = NULL \/ HeldBelow(t, mo, n + 1, g.var)
      BY <1>2, <2>4, <3>2 DEF HeldBelow
    <3> QED
      BY <3>1, <3>3
  <2> QED
    BY <1>1, <1>2, <2>1, <2>2, <2>3, <2>4, StackPush
<1>5. ASSUME NEW p \in Objects
      PROVE  /\ g.kind = "vm" /\ p = arg => VarsOf(t, p) = VarsOf(fr, p) \cup {n + 1}
             /\ ~(g.kind = "vm" /\ p = arg) => VarsOf(t, p) = VarsOf(fr, p)
             /\ ValsOf(t, p) = ValsOf(fr, p)
             /\ TempsOf(t, mo, mt, p) = TempsOf(fr, mo, mt, p)
             /\ n + 1 \notin VarsOf(fr, p)
  <2>1. /\ g.kind = "vm" /\ p = arg => VarsOf(t, p) = VarsOf(fr, p) \cup {n + 1}
        /\ ~(g.kind = "vm" /\ p = arg) => VarsOf(t, p) = VarsOf(fr, p)
    <3>1. \A j \in 1 .. n : j \in VarsOf(t, p) <=> j \in VarsOf(fr, p)
      BY <1>2, <1>3 DEF VarsOf
    <3>2. n + 1 \in VarsOf(t, p) <=> g.kind = "vm" /\ p = arg
      BY <1>2 DEF VarsOf
    <3>3. VarsOf(t, p) \subseteq 1 .. n + 1 /\ VarsOf(fr, p) \subseteq 1 .. n
      BY <1>2 DEF VarsOf
    <3>4. \A k : k \in 1 .. n + 1 => k \in 1 .. n \/ k = n + 1
      OBVIOUS
    <3>5. n + 1 \in VarsOf(t, p) => VarsOf(t, p) = VarsOf(fr, p) \cup {n + 1}
      BY <3>1, <3>3, <3>4
    <3>6. n + 1 \notin VarsOf(t, p) => VarsOf(t, p) = VarsOf(fr, p)
      BY <3>1, <3>3, <3>4
    <3> QED
      BY <3>2, <3>5, <3>6
  <2>2. ValsOf(t, p) = ValsOf(fr, p)
    <3>1. \A j \in 1 .. n : j \in ValsOf(t, p) <=> j \in ValsOf(fr, p)
      BY <1>2 DEF ValsOf
    <3>2. n + 1 \notin ValsOf(t, p)
      BY <1>1, <1>2 DEF ValsOf
    <3>3. ValsOf(t, p) \subseteq 1 .. n + 1 /\ ValsOf(fr, p) \subseteq 1 .. n
      BY <1>2 DEF ValsOf
    <3>4. \A k : k \in 1 .. n + 1 => k \in 1 .. n \/ k = n + 1
      OBVIOUS
    <3> QED
      BY <3>1, <3>2, <3>3, <3>4
  <2>3. TempsOf(t, mo, mt, p) = TempsOf(fr, mo, mt, p)
    BY <1>2, <1>3 DEF TempsOf
  <2>4. n + 1 \notin VarsOf(fr, p)
    BY DEF VarsOf
  <2> QED
    BY <2>1, <2>2, <2>3, <2>4
<1>6. /\ counts2 \in [Objects -> Nat]
      /\ \A p \in Objects : counts2[p] = IF g.kind = "vm" /\ p = arg THEN counts[p] + 1 ELSE counts[p]
  <2>1. CASE g.kind = "vm"
    BY <1>1, <2>1, IncRefFacts
  <2>2. CASE g.kind = "native"
    BY <1>1, <2>2
  <2> QED
    BY <1>3, <2>1, <2>2
<1>7. Exact(live, counts2, ex, mo, mt, t, NULL)
  <2> SUFFICES ASSUME NEW p \in Objects
               PROVE  /\ Count(t, mo, mt, ex, p) = IF p \in live THEN counts2[p] ELSE 0
                      /\ p \in live /\ counts2[p] = 0 => p = NULL
    BY DEF Exact
  <2>1. /\ Count(fr, mo, mt, ex, p) = IF p \in live THEN counts[p] ELSE 0
        /\ p \in live /\ counts[p] = 0 => p = NULL
    BY DEF Good, Exact
  <2>2. /\ IsFiniteSet(VarsOf(fr, p)) /\ Cardinality(VarsOf(fr, p)) \in Nat
        /\ Cardinality(TempsOf(fr, mo, mt, p)) \in Nat /\ Cardinality(ValsOf(fr, p)) \in Nat
    BY <1>1, RefsFinite
  <2>3. Cardinality(VarsOf(fr, p) \cup {n + 1}) = Cardinality(VarsOf(fr, p)) + 1
    BY <1>5, <2>2, CardStep
  <2>4. p # NULL /\ counts[p] \in Nat
    BY <1>1
  <2>5. CASE g.kind = "vm" /\ p = arg
    <3>1. Cardinality(VarsOf(t, p)) = Cardinality(VarsOf(fr, p)) + 1
      BY <1>5, <2>3, <2>5
    <3>2. Count(t, mo, mt, ex, p) = Count(fr, mo, mt, ex, p) + 1
      BY <1>5, <2>2, <3>1 DEF Count
    <3>3. p \in live
      BY <2>4, <2>5
    <3> QED
      BY <1>6, <2>1, <2>4, <2>5, <3>2, <3>3
  <2>6. CASE ~(g.kind = "vm" /\ p = arg)
    <3>1. Count(t, mo, mt, ex, p) = Count(fr, mo, mt, ex, p)
      BY <1>5, <2>6, CountSame
    <3> QED
      BY <1>6, <2>1, <2>6, <3>1
  <2> QED
    BY <2>5, <2>6
<1>8. DyingOK(t, mo, mt)
  <2> SUFFICES ASSUME NEW j \in 1 .. n + 1, t[j].kind = "free" PROVE Dying(t, mo, mt, j)
    BY <1>2 DEF DyingOK
  <2>1. j \in 1 .. n /\ t[j] = fr[j]
    <3>1. j # n + 1
      BY <1>2, <1>3
    <3> QED
      BY <1>2, <3>1
  <2>2. fr[j].kind = "free" /\ Dying(fr, mo, mt, j) /\ j > 1 /\ fr[j].val \in Objects
    BY <1>1, <2>1, StackFacts, NativeAssumption DEF Good, DyingOK, FrameOK, Objects
  <2>3. t[j - 1] = fr[j - 1] /\ t[j].val = fr[j].val
    BY <1>2, <2>1, <2>2
  <2>4. n + 1 > j
    BY <2>1
  <2> QED
    BY <1>5, <2>2, <2>3, <2>4 DEF Dying
<1>9. blks2 = Cardinality(live) + 1 + Cardinality(Vms(t))
  <2>1. /\ blks = Cardinality(live) + 1 + Cardinality(Vms(fr)) /\ Cardinality(Vms(fr)) \in Nat
        /\ IsFiniteSet(Vms(fr)) /\ Cardinality(live) \in Nat
    BY <1>1, RefsFinite, GoodFacts DEF Good
  <2>2. CASE g.kind = "vm"
    <3>1. Vms(t) = Vms(fr) \cup {n + 1} /\ n + 1 \notin Vms(fr)
      BY <1>2, <2>2 DEF Vms
    <3>2. Cardinality(Vms(t)) = Cardinality(Vms(fr)) + 1
      BY <2>1, <3>1, CardStep
    <3> QED
      BY <2>1, <2>2, <3>2
  <2>3. CASE g.kind = "native"
    <3>1. Vms(t) = Vms(fr)
      BY <1>2, <2>3 DEF Vms
    <3> QED
      BY <2>1, <2>3, <3>1
  <2> QED
    BY <1>3, <2>2, <2>3
<1>10. Good(live, counts2, ex, mo, mt, blks2, t, NULL)
  BY <1>1, <1>4, <1>6, <1>7, <1>8, <1>9 DEF Good, HeapOK
<1> QED
  BY <1>10 DEF t

-----------------------------------------------------------------------------
(* push_mortal.                                                            *)

(* The array with room for one more entry.                                 *)
Room(mo, mt) == IF mt >= Len(mo) THEN mo \o [i \in 1 .. Len(mo) |-> NULL] ELSE mo
WithTemp(mo, mt, o) == [Room(mo, mt) EXCEPT ![mt + 1] = o]

LEMMA RoomFacts ==
  ASSUME NEW mo, NEW mt, MortalOK(mo, mt), NEW o \in ObjectOrNull
  PROVE  /\ MortalOK(WithTemp(mo, mt, o), mt + 1) /\ mt \in Nat
         /\ \A i \in 1 .. mt : WithTemp(mo, mt, o)[i] = mo[i]
         /\ WithTemp(mo, mt, o)[mt + 1] = o
<1> DEFINE room == Room(mo, mt)
           mo2  == WithTemp(mo, mt, o)
           more == [i \in 1 .. Len(mo) |-> NULL]
<1>1. /\ mo \in Seq(ObjectOrNull) /\ Len(mo) \in Nat \ {0} /\ mt \in 0 .. Len(mo) /\ mt \in Nat
      /\ \A i \in mt + 1 .. Len(mo) : mo[i] = NULL
      /\ NULL \in ObjectOrNull
  BY DEF MortalOK, ObjectOrNull
<1>2. /\ room \in Seq(ObjectOrNull) /\ Len(room) \in Nat /\ Len(room) >= mt + 1
      /\ \A i \in 1 .. mt : room[i] = mo[i]
      /\ \A i \in mt + 1 .. Len(room) : room[i] = NULL
  <2>1. CASE mt >= Len(mo)
    <3>1. more \in Seq(ObjectOrNull) /\ Len(more) = Len(mo)
          /\ \A i \in 1 .. Len(mo) : more[i] = NULL
      BY <1>1
    <3> HIDE DEF more
    <3>2. /\ mo \o more \in Seq(ObjectOrNull) /\ Len(mo \o more) = Len(mo) + Len(more)
          /\ \A i \in 1 .. Len(mo) + Len(more) :
               (mo \o more)[i] = IF i <= Len(mo) THEN mo[i] ELSE more[i - Len(mo)]
      BY <1>1, <3>1
    <3>3. room = mo \o more
      BY <2>1 DEF Room, more
    <3>4. Len(mo) = mt
      BY <1>1, <2>1
    <3>5. ASSUME NEW i \in mt + 1 .. Len(room) PROVE room[i] = NULL
      <4>1. i \in 1 .. Len(mo) + Len(more) /\ ~(i <= Len(mo)) /\ i - Len(mo) \in 1 .. Len(mo)
        BY <1>1, <3>1, <3>2, <3>3, <3>4
      <4> QED
        BY <3>1, <3>2, <3>3, <4>1
    <3> QED
      BY <1>1, <3>1, <3>2, <3>3, <3>4, <3>5
  <2>2. CASE ~(mt >= Len(mo))
    BY <1>1, <2>2 DEF Room
  <2> QED
    BY <2>1, <2>2
<1> HIDE DEF room
<1>3. mo2 = [room EXCEPT ![mt + 1] = o]
  BY DEF WithTemp, room
<1>4. /\ mo2 \in Seq(ObjectOrNull) /\ Len(mo2) = Len(room) /\ mo2[mt + 1] = o
      /\ \A i \in 1 .. Len(room) : i # mt + 1 => mo2[i] = room[i]
  BY <1>1, <1>2, <1>3
<1> HIDE DEF mo2
<1>5. MortalOK(mo2, mt + 1)
  <2>1. mo2 # <<>> /\ mt + 1 \in 0 .. Len(mo2)
    BY <1>1, <1>2, <1>4
  <2>2. \A i \in (mt + 1) + 1 .. Len(mo2) : mo2[i] = NULL
    BY <1>1, <1>2, <1>4
  <2> QED
    BY <1>4, <2>1, <2>2 DEF MortalOK
<1>6. \A i \in 1 .. mt : mo2[i] = mo[i]
  BY <1>1, <1>2, <1>4
<1> QED
  BY <1>1, <1>4, <1>5, <1>6 DEF mo2

LEMMA PushTemp ==
  ASSUME NEW live, NEW counts, NEW ex, NEW mo, NEW mt, NEW blks, NEW fr, NEW lax,
         Good(live, counts, ex, mo, mt, blks, fr, lax),
         NEW o \in live, lax \in {NULL, o}, counts[o] = 0,
         fr # <<>> => fr[Len(fr)].kind = "native" /\ fr[Len(fr)].phase = "run"
  PROVE  Good(live, IncRef(counts, o), ex, WithTemp(mo, mt, o), mt + 1, blks, fr, NULL)
<1> DEFINE mo2 == WithTemp(mo, mt, o)
           counts2 == IncRef(counts, o)
           n == Len(fr)
<1>1. /\ StackOK(fr, mo, mt) /\ mt \in Nat /\ fr \in Seq(Frames) /\ n \in Nat
      /\ live \subseteq Objects /\ counts \in [Objects -> Nat] /\ ex \in Strings \cup {NULL}
      /\ NULL \notin Objects /\ o \in Objects /\ o \in ObjectOrNull
  BY GoodFacts, NullFacts DEF ObjectOrNull
<1>2. /\ MortalOK(mo2, mt + 1)
      /\ \A i \in 1 .. mt : mo2[i] = mo[i]
      /\ mo2[mt + 1] = o
  BY <1>1, RoomFacts DEF Good
<1>3. /\ counts2 \in [Objects -> Nat]
      /\ \A p \in Objects : counts2[p] = IF p = o THEN counts[p] + 1 ELSE counts[p]
  BY <1>1, IncRefFacts
<1> HIDE DEF mo2, counts2
<1>4. fr # <<>> => n \in 1 .. n /\ n > 0 /\ FrameOK(fr[n]) /\ ~fr[n].clear
  <2>1. ASSUME fr # <<>> PROVE n \in 1 .. n /\ n > 0 /\ FrameOK(fr[n])
    BY <1>1, <2>1, StackFacts
  <2> QED
    BY <2>1 DEF FrameOK
<1>5. StackOK(fr, mo2, mt + 1)
  <2>1. ASSUME NEW j \in 1 .. n PROVE ScopeOK(fr[j], mo2, mt + 1)
    <3>1. /\ fr[j] \in Frames /\ ScopeOK(fr[j], mo, mt) /\ FrameOK(fr[j])
      BY <1>1, StackFacts
    <3>2. CASE fr[j].kind \in {"native", "host"} /\ fr[j].phase # "run"
      <4>1. j # n
        BY <1>1, <3>2, NullFacts
      <4>2. j \in 1 .. Len(fr) - 1 /\ Link(fr[j], fr[j + 1])
        BY <1>1, <4>1 DEF StackOK
      <4>3. j + 1 \in 1 .. Len(fr) /\ fr[j + 1] \in Frames
        BY <1>1, <4>2, StackFacts
      <4>4. fr[j].clear
        BY <3>1, <3>2, <4>2, <4>3 DEF Link, FrameOK, Frames
      <4>5. fr[j].next <= mt
        BY <3>1, <4>4 DEF ScopeOK
      <4>6. ASSUME NEW i \in 1 .. mt + 1,
                   (IF fr[j].phase = "inner" THEN fr[j].inner ELSE fr[j].base) < i, i < fr[j].next
            PROVE  mo2[i] = NULL
        <5>1. i \in 1 .. mt
          BY <1>1, <3>1, <4>5, <4>6 DEF Frames
        <5>2. mo[i] = NULL
          BY <3>1, <3>2, <4>6, <5>1 DEF ScopeOK
        <5> QED
          BY <1>2, <5>1, <5>2
      <4> QED
        BY <1>1, <3>1, <4>5, <4>6 DEF ScopeOK, Frames
    <3>3. CASE ~(fr[j].kind \in {"native", "host"} /\ fr[j].phase # "run")
      BY <1>1, <3>1, <3>3 DEF ScopeOK, Frames
    <3> QED
      BY <3>2, <3>3
  <2>2. ASSUME NEW j \in 1 .. n, NEW i \in 1 .. fr[j].base PROVE mo2[i] = mo[i]
    <3>1. fr[j] \in Frames /\ ScopeOK(fr[j], mo, mt)
      BY <1>1, StackFacts
    <3>2. i \in 1 .. mt
      BY <1>1, <2>2, <3>1 DEF ScopeOK, Frames
    <3> QED
      BY <1>2, <3>2
  <2> QED
    BY <1>1, <2>1, <2>2, StackMortal
<1>6. ASSUME NEW p \in Objects
      PROVE  /\ p = o => TempsOf(fr, mo2, mt + 1, p) = TempsOf(fr, mo, mt, p) \cup {mt + 1}
             /\ p # o => TempsOf(fr, mo2, mt + 1, p) = TempsOf(fr, mo, mt, p)
             /\ mt + 1 \notin TempsOf(fr, mo, mt, p)
  <2>1. \A i \in 1 .. mt : i \in TempsOf(fr, mo2, mt + 1, p) <=> i \in TempsOf(fr, mo, mt, p)
    BY <1>1, <1>2 DEF TempsOf
  <2>2. mt + 1 \in TempsOf(fr, mo2, mt + 1, p) <=> p = o
    BY <1>1, <1>2, <1>4 DEF TempsOf
  <2>3. TempsOf(fr, mo2, mt + 1, p) \subseteq 1 .. mt + 1 /\ TempsOf(fr, mo, mt, p) \subseteq 1 .. mt
    BY DEF TempsOf
  <2>4. /\ \A k : k \in 1 .. mt + 1 => k \in 1 .. mt \/ k = mt + 1
        /\ mt + 1 \notin 1 .. mt
    BY <1>1
  <2>5. mt + 1 \in TempsOf(fr, mo2, mt + 1, p) =>
          TempsOf(fr, mo2, mt + 1, p) = TempsOf(fr, mo, mt, p) \cup {mt + 1}
    BY <2>1, <2>3, <2>4
  <2>6. mt + 1 \notin TempsOf(fr, mo2, mt + 1, p) =>
          TempsOf(fr, mo2, mt + 1, p) = TempsOf(fr, mo, mt, p)
    BY <2>1, <2>3, <2>4
  <2>7. mt + 1 \notin TempsOf(fr, mo, mt, p)
    BY <2>3, <2>4
  <2> QED
    BY <2>2, <2>5, <2>6, <2>7
<1>7. Exact(live, counts2, ex, mo2, mt + 1, fr, NULL)
  <2> SUFFICES ASSUME NEW p \in Objects
               PROVE  /\ Count(fr, mo2, mt + 1, ex, p) = IF p \in live THEN counts2[p] ELSE 0
                      /\ p \in live /\ counts2[p] = 0 => p = NULL
    BY DEF Exact
  <2>1. /\ Count(fr, mo, mt, ex, p) = IF p \in live THEN counts[p] ELSE 0
        /\ p \in live /\ counts[p] = 0 => p = lax
    BY DEF Good, Exact
  <2>2. /\ IsFiniteSet(TempsOf(fr, mo, mt, p)) /\ Cardinality(VarsOf(fr, p)) \in Nat
        /\ Cardinality(TempsOf(fr, mo, mt, p)) \in Nat /\ Cardinality(ValsOf(fr, p)) \in Nat
    BY <1>1, RefsFinite
  <2>3. p # NULL /\ counts[p] \in Nat
    BY <1>1
  <2>4. CASE p = o
    <3>1. Cardinality(TempsOf(fr, mo2, mt + 1, p)) = Cardinality(TempsOf(fr, mo, mt, p)) + 1
      BY <1>6, <2>2, <2>4, CardStep
    <3>2. Count(fr, mo2, mt + 1, ex, p) = Count(fr, mo, mt, ex, p) + 1
      BY <2>2, <3>1 DEF Count
    <3> QED
      BY <1>3, <2>1, <2>3, <2>4, <3>2
  <2>5. CASE p # o
    <3>1. Count(fr, mo2, mt + 1, ex, p) = Count(fr, mo, mt, ex, p)
      BY <1>6, <2>5, CountSame
    <3> QED
      BY <1>3, <2>1, <2>3, <2>5, <3>1
  <2> QED
    BY <2>4, <2>5
<1>8. DyingOK(fr, mo2, mt + 1)
  <2> SUFFICES ASSUME NEW j \in 1 .. n, fr[j].kind = "free" PROVE Dying(fr, mo2, mt + 1, j)
    BY DEF DyingOK
  <2>1. Dying(fr, mo, mt, j) /\ fr[j].val \in Objects
    BY <1>1, StackFacts, NativeAssumption DEF Good, DyingOK, FrameOK, Objects
  <2>2. fr[j].val # o
    <3>1. VarsOf(fr, fr[j].val) # {} \/ TempsOf(fr, mo, mt, fr[j].val) # {}
      BY <2>1 DEF Dying
    <3>2. counts[fr[j].val] > 0
      BY <2>1, <3>1, LiveFacts
    <3> QED
      BY <3>2
  <2> QED
    BY <1>6, <2>1, <2>2 DEF Dying
<1>9. Good(live, counts2, ex, mo2, mt + 1, blks, fr, NULL)
  BY <1>1, <1>2, <1>3, <1>5, <1>7, <1>8 DEF Good, HeapOK
<1> QED
  BY <1>9 DEF mo2, counts2

-----------------------------------------------------------------------------
(* Returns: an activation whose variable is released, a scope that is left.*)

LEMMA PopFrame ==
  ASSUME NEW live, NEW counts, NEW ex, NEW mo, NEW mt, NEW blks, NEW fr,
         Good(live, counts, ex, mo, mt, blks, fr, NULL),
         NEW n \in Nat \ {0}, n = Len(fr), NEW mt2, NEW blks2,
         \/ fr[n].kind = "vm" /\ fr[n].var = NULL /\ mt2 = mt /\ blks2 = blks - 1
         \/ /\ fr[n].kind \in {"native", "host"} /\ fr[n].phase = "leave"
            /\ ~fr[n].clear /\ fr[n].next > mt /\ mt2 = fr[n].base /\ blks2 = blks
  PROVE  LET v == fr[n].val  t == SubSeq(fr, 1, n - 1) IN
         /\ Good(live, DecRef(counts, v), ex, mo, mt2, blks2, t, v)
         /\ v \in live \cup {NULL}
<1> DEFINE v == fr[n].val
           t == SubSeq(fr, 1, n - 1)
           counts2 == DecRef(counts, v)
<1>1. /\ StackOK(fr, mo, mt) /\ mt \in Nat /\ fr \in Seq(Frames) /\ fr # <<>>
      /\ live \subseteq Objects /\ counts \in [Objects -> Nat] /\ ex \in Strings \cup {NULL}
      /\ NULL \notin Objects /\ mo \in Seq(ObjectOrNull) /\ mt \in 0 .. Len(mo)
      /\ MortalOK(mo, mt)
  BY GoodFacts, NullFacts DEF Good
<1>2. /\ t \in Seq(Frames) /\ Len(t) = n - 1
      /\ \A j \in 1 .. n - 1 : t[j] = fr[j]
  BY <1>1, PopFacts
<1>3. /\ n \in 1 .. Len(fr) /\ fr[n] \in Frames /\ FrameOK(fr[n]) /\ ScopeOK(fr[n], mo, mt)
      /\ ~fr[n].clear /\ fr[n].kind \in {"vm", "native", "host"} /\ v \in Objects \cup {NULL}
  <2>1. FrameOK(fr[n]) /\ ScopeOK(fr[n], mo, mt) /\ fr[n] \in Frames
    BY <1>1, StackFacts
  <2> QED
    BY <2>1 DEF FrameOK, Frames, ObjectOrNull
<1>4. n > 1 => /\ Link(fr[n - 1], fr[n]) /\ ~fr[n - 1].clear /\ fr[n - 1].kind # "write"
               /\ fr[n].kind # "host"
  <2>1. ASSUME n > 1 PROVE Link(fr[n - 1], fr[n])
    <3>1. n \in 2 .. Len(fr)
      BY <2>1
    <3> QED
      BY <1>1, <3>1, StackFacts
  <2> QED
    BY <1>3, <2>1 DEF Link
<1>5. /\ mt2 \in 0 .. mt /\ \A j \in 1 .. n - 1 : Within(fr[j], mt2)
      /\ \A i \in mt2 + 1 .. mt : mo[i] = NULL
  <2>1. CASE fr[n].kind = "vm"
    <3>1. mt2 = mt
      BY <2>1
    <3>2. \A j \in 1 .. n - 1 : ScopeOK(fr[j], mo, mt)
      BY <1>1, StackFacts
    <3> QED
      BY <1>1, <3>1, <3>2 DEF ScopeOK, Within
  <2>2. CASE fr[n].kind \in {"native", "host"}
    <3>1. mt2 = fr[n].base /\ fr[n].next > mt /\ fr[n].phase = "leave"
      BY <2>2
    <3>2. mt2 \in 0 .. mt
      BY <1>1, <1>3, <3>1 DEF ScopeOK, Frames
    <3>3. \A i \in mt2 + 1 .. mt : mo[i] = NULL
      BY <1>1, <1>3, <2>2, <3>1, <3>2 DEF ScopeOK, Frames
    <3>4. \A j \in 1 .. n - 1 : Within(fr[j], mt2)
      <4>1. CASE fr[n].kind = "native"
        BY <1>1, <1>3, <3>1, <4>1 DEF StackOK
      <4>2. CASE fr[n].kind = "host"
        BY <1>4, <4>2
      <4> QED
        BY <2>2, <4>1, <4>2
    <3> QED
      BY <3>2, <3>3, <3>4
  <2> QED
    BY <1>3, <2>1, <2>2
<1> HIDE DEF t, v, counts2
<1>6. StackOK(t, mo, mt2)
  <2>1. mt2 \in Nat /\ mt2 <= mt
    BY <1>1, <1>5
  <2> QED
    BY <1>1, <1>2, <1>5, <2>1, StackPop
<1>7. MortalOK(mo, mt2)
  BY <1>1, <1>5 DEF MortalOK
<1>8. ASSUME NEW p \in Objects
      PROVE  /\ VarsOf(t, p) = VarsOf(fr, p)
             /\ ValsOf(t, p) = ValsOf(fr, p) \ {n}
             /\ n \in ValsOf(fr, p) <=> p = v
             /\ TempsOf(t, mo, mt2, p) = TempsOf(fr, mo, mt, p)
  <2>0. \A k : k \in 1 .. n => k \in 1 .. n - 1 \/ k = n
    OBVIOUS
  <2>1. VarsOf(t, p) = VarsOf(fr, p)
    <3>1. \A j \in 1 .. n - 1 : j \in VarsOf(t, p) <=> j \in VarsOf(fr, p)
      BY <1>2, <1>3, <1>4 DEF VarsOf
    <3>2. n \notin VarsOf(fr, p)
      BY <1>1 DEF VarsOf
    <3>3. VarsOf(t, p) \subseteq 1 .. n - 1 /\ VarsOf(fr, p) \subseteq 1 .. n
      BY <1>2 DEF VarsOf
    <3> QED
      BY <2>0, <3>1, <3>2, <3>3
  <2>2. ValsOf(t, p) = ValsOf(fr, p) \ {n}
    BY <1>2 DEF ValsOf
  <2>3. n \in ValsOf(fr, p) <=> p = v
    <3>1. fr[n].kind = "host" => v = NULL
      BY <1>3 DEF FrameOK, v
    <3> QED
      BY <1>1, <1>3, <3>1 DEF ValsOf, v
  <2>4. TempsOf(t, mo, mt2, p) = TempsOf(fr, mo, mt, p)
    <3>1. \A i \in 1 .. mt2 : i \in TempsOf(t, mo, mt2, p) <=> i \in TempsOf(fr, mo, mt, p)
      BY <1>1, <1>2, <1>3, <1>4, <1>5 DEF TempsOf
    <3>2. \A i \in mt2 + 1 .. mt : i \notin TempsOf(fr, mo, mt, p)
      BY <1>1, <1>5 DEF TempsOf
    <3>3. TempsOf(t, mo, mt2, p) \subseteq 1 .. mt2 /\ TempsOf(fr, mo, mt, p) \subseteq 1 .. mt
      BY DEF TempsOf
    <3>4. \A k : k \in 1 .. mt => k \in 1 .. mt2 \/ k \in mt2 + 1 .. mt
      BY <1>1, <1>5
    <3> QED
      BY <3>1, <3>2, <3>3, <3>4
  <2> QED
    BY <2>1, <2>2, <2>3, <2>4
<1>9. v \in live \cup {NULL} /\ (v # NULL => counts[v] > 0)
  <2>1. ASSUME v # NULL PROVE v \in live /\ counts[v] > 0
    <3>1. v \in Objects /\ ValsOf(fr, v) # {}
      BY <1>3, <1>8, <2>1
    <3> QED
      BY <3>1, LiveFacts
  <2> QED
    BY <2>1
<1>10. /\ counts2 \in [Objects -> Nat]
       /\ \A p \in Objects : counts2[p] = IF p = v THEN counts[p] - 1 ELSE counts[p]
  BY <1>1, <1>3, <1>9, DecRefFacts DEF counts2
<1>11. Exact(live, counts2, ex, mo, mt2, t, v)
  <2> SUFFICES ASSUME NEW p \in Objects
               PROVE  /\ Count(t, mo, mt2, ex, p) = IF p \in live THEN counts2[p] ELSE 0
                      /\ p \in live /\ counts2[p] = 0 => p = v
    BY DEF Exact
  <2>1. /\ Count(fr, mo, mt, ex, p) = IF p \in live THEN counts[p] ELSE 0
        /\ p \in live /\ counts[p] = 0 => p = NULL
    BY DEF Good, Exact
  <2>2. /\ IsFiniteSet(ValsOf(fr, p)) /\ Cardinality(VarsOf(fr, p)) \in Nat
        /\ Cardinality(TempsOf(fr, mo, mt, p)) \in Nat /\ Cardinality(ValsOf(fr, p)) \in Nat
    BY <1>1, RefsFinite
  <2>3. p # NULL /\ counts[p] \in Nat
    BY <1>1
  <2>4. CASE p = v
    <3>1. Cardinality(ValsOf(t, p)) = Cardinality(ValsOf(fr, p)) - 1
      BY <1>8, <2>2, <2>4, CardStep
    <3>2. Count(t, mo, mt2, ex, p) = Count(fr, mo, mt, ex, p) - 1
      BY <1>8, <2>2, <3>1 DEF Count
    <3>3. p \in live
      BY <1>9, <2>3, <2>4
    <3> QED
      BY <1>10, <2>1, <2>3, <2>4, <3>2, <3>3
  <2>5. CASE p # v
    <3>1. ValsOf(t, p) = ValsOf(fr, p)
      BY <1>8, <2>5
    <3>2. Count(t, mo, mt2, ex, p) = Count(fr, mo, mt, ex, p)
      BY <1>8, <3>1, CountSame
    <3> QED
      BY <1>10, <2>1, <2>3, <2>5, <3>2
  <2> QED
    BY <2>4, <2>5
<1>12. DyingOK(t, mo, mt2)
  <2> SUFFICES ASSUME NEW j \in 1 .. n - 1, t[j].kind = "free" PROVE Dying(t, mo, mt2, j)
    BY <1>2 DEF DyingOK
  <2>1. j \in 1 .. n /\ t[j] = fr[j]
    BY <1>2
  <2>2. fr[j].kind = "free" /\ Dying(fr, mo, mt, j) /\ j > 1 /\ fr[j].val \in Objects
    BY <1>1, <2>1, StackFacts, NativeAssumption DEF Good, DyingOK, FrameOK, Objects
  <2>3. t[j - 1] = fr[j - 1] /\ t[j].val = fr[j].val
    BY <1>2, <2>1, <2>2
  <2> QED
    BY <1>8, <2>2, <2>3 DEF Dying
<1>13. blks2 = Cardinality(live) + 1 + Cardinality(Vms(t))
  <2>1. /\ blks = Cardinality(live) + 1 + Cardinality(Vms(fr)) /\ Cardinality(Vms(fr)) \in Nat
        /\ IsFiniteSet(Vms(fr)) /\ Cardinality(live) \in Nat
    BY <1>1, RefsFinite, GoodFacts DEF Good
  <2>2. CASE fr[n].kind = "vm"
    <3>1. Vms(t) = Vms(fr) \ {n} /\ n \in Vms(fr)
      BY <1>2, <2>2 DEF Vms
    <3>2. Cardinality(Vms(t)) = Cardinality(Vms(fr)) - 1
      BY <2>1, <3>1, CardStep
    <3> QED
      BY <2>1, <2>2, <3>2
  <2>3. CASE fr[n].kind # "vm"
    <3>1. Vms(t) = Vms(fr)
      BY <1>2, <2>3 DEF Vms
    <3> QED
      BY <2>1, <2>3, <3>1
  <2> QED
    BY <2>2, <2>3
<1>14. Good(live, counts2, ex, mo, mt2, blks2, t, v)
  BY <1>1, <1>6, <1>7, <1>10, <1>11, <1>12, <1>13 DEF Good, HeapOK
<1> QED
  BY <1>9, <1>14 DEF t, v, counts2

LEMMA CallerFacts ==
  ASSUME NEW fr, NEW mo, NEW mt, StackOK(fr, mo, mt), fr # <<>>,
         fr[Len(fr)].kind \in {"vm", "native"}
  PROVE  LET n == Len(fr)  c == fr[n - 1] IN
         /\ n \in Nat /\ n > 1 /\ Link(c, fr[n]) /\ c \in Frames /\ FrameOK(c)
         /\ c.phase = "run" /\ ~c.clear /\ c.kind \in {"vm", "native", "host", "free"}
         /\ c.kind = "vm" => ~c.flag
         /\ fr[n].val # NULL => c.kind = "vm" /\ ~fr[n].flag
<1> DEFINE n == Len(fr)
<1>1. n \in Nat \ {0} /\ fr[n] \in Frames /\ FrameOK(fr[n])
  BY StackFacts
<1>2. n # 1
  <2>1. fr[1].kind = "host"
    BY DEF StackOK
  <2> QED
    BY <2>1
<1>3. n \in 2 .. Len(fr) /\ n - 1 \in 1 .. Len(fr) /\ n > 1
  <2>1. n \in Nat \ {0} /\ n # 1 /\ n = Len(fr)
    BY <1>1, <1>2
  <2> HIDE DEF n
  <2>2. n > 1
    BY <2>1
  <2> QED
    BY <2>1, <2>2
<1>4. Link(fr[n - 1], fr[n]) /\ fr[n - 1] \in Frames /\ FrameOK(fr[n - 1])
  BY <1>3, StackFacts
<1>5. /\ fr[n - 1].phase = "run" /\ fr[n - 1].kind # "write" /\ ~fr[n - 1].clear
      /\ fr[n - 1].kind = "vm" => ~fr[n - 1].flag
      /\ fr[n].val # NULL => fr[n - 1].kind = "vm"
  BY <1>4 DEF Link
<1>6. fr[n].val # NULL => ~fr[n].flag
  BY <1>1 DEF FrameOK
<1>7. fr[n - 1].kind \in {"host", "native", "vm", "write", "free"}
  BY <1>4 DEF Frames
<1> QED
  BY <1>3, <1>4, <1>5, <1>6, <1>7

(* The caller gets the flag or the result.                                 *)
LEMMA Returned ==
  ASSUME NEW live, NEW counts, NEW ex, NEW mo, NEW mt, NEW blks, NEW lax,
         Good(live, counts, ex, mo, mt, blks, Below, lax), Below # <<>>,
         NEW flag \in BOOLEAN, NEW result \in live \cup {NULL}, lax \in {NULL, result},
         Below[Len(Below)].phase = "run", ~Below[Len(Below)].clear,
         Below[Len(Below)].kind \in {"vm", "native", "host", "free"},
         Below[Len(Below)].kind # "vm" \/ flag => lax = NULL,
         ReturnTo(flag, result, counts, live, blks)
  PROVE  Good(alive', rc', ex, mo, mt, blocks', stack', NULL) /\ stack' # <<>>
<1> DEFINE fr == Below
           n == Len(fr)
           f == fr[n]
           g == CASE f.kind = "vm"     -> [f EXCEPT !.flag = TRUE]
                  [] f.kind = "native" -> f
                  [] f.kind = "host"   -> [f EXCEPT !.phase = "leave", !.next = f.base + 1]
                  [] f.kind = "free"   -> [f EXCEPT !.phase = "leave"]
           t == [fr EXCEPT ![n] = g]
<1>1. /\ StackOK(fr, mo, mt) /\ mt \in Nat /\ fr \in Seq(Frames) /\ n \in Nat \ {0}
      /\ f \in Frames /\ FrameOK(f) /\ ScopeOK(f, mo, mt) /\ NULL \notin Objects
      /\ counts \in [Objects -> Nat]
  BY GoodFacts, StackFacts, NullFacts
<1>2. CASE f.kind = "vm" /\ ~flag
  <2>1. AssignVar(result, counts, live, blks, fr)
    BY <1>2 DEF ReturnTo
  <2> QED
    BY <1>2, <2>1, Assign
<1>3. CASE ~(f.kind = "vm" /\ ~flag)
  <2>1. rc' = counts /\ alive' = live /\ blocks' = blks /\ stack' = t
    BY <1>3 DEF ReturnTo
  <2>2. lax = NULL
    BY <1>3
  <2>3. /\ g \in Frames /\ g.kind = f.kind /\ g.var = f.var /\ g.base = f.base
        /\ g.val = f.val /\ g.clear = f.clear /\ FrameOK(g) /\ ScopeOK(g, mo, mt)
    <3>1. CASE f.kind = "vm"
      <4>1. g = [f EXCEPT !.flag = TRUE]
        BY <3>1
      <4> HIDE DEF f, g
      <4>2. /\ g \in Frames /\ g.kind = f.kind /\ g.var = f.var /\ g.base = f.base
            /\ g.val = f.val /\ g.clear = f.clear /\ g.inner = f.inner /\ g.next = f.next
            /\ g.phase = f.phase
        BY <1>1, <4>1 DEF Frames
      <4> QED
        BY <1>1, <3>1, <4>2 DEF FrameOK, ScopeOK, f
    <3>2. CASE f.kind = "native"
      BY <1>1, <3>2
    <3>3. CASE f.kind = "host"
      <4>1. g = [f EXCEPT !.phase = "leave", !.next = f.base + 1]
        BY <3>3
      <4> HIDE DEF f, g
      <4>2. /\ g \in Frames /\ g.kind = f.kind /\ g.var = f.var /\ g.base = f.base
            /\ g.val = f.val /\ g.clear = f.clear /\ g.inner = f.inner /\ g.next = f.base + 1
            /\ g.phase = "leave" /\ f.base \in Nat
        <5>1. f.base + 1 \in Nat
          BY <1>1 DEF Frames
        <5> DEFINE next == f.base + 1
        <5> HIDE DEF next
        <5>2. g = [f EXCEPT !.phase = "leave", !.next = next] /\ next \in Nat
          BY <4>1, <5>1 DEF next
        <5>3. /\ g \in Frames /\ g.kind = f.kind /\ g.var = f.var /\ g.base = f.base
              /\ g.val = f.val /\ g.clear = f.clear /\ g.inner = f.inner /\ g.next = next
              /\ g.phase = "leave" /\ f.base \in Nat
          BY <1>1, <5>2 DEF Frames
        <5> QED
          BY <5>3 DEF next
      <4>3. ~f.clear
        BY DEF f
      <4>4. FrameOK(g)
        BY <1>1, <3>3, <4>2, <4>3 DEF FrameOK
      <4>5. ScopeOK(g, mo, mt)
        BY <1>1, <3>3, <4>2, <4>3 DEF ScopeOK
      <4> QED
        BY <4>2, <4>4, <4>5
    <3>4. CASE f.kind = "free"
      <4>1. g = [f EXCEPT !.phase = "leave"]
        BY <3>4
      <4> HIDE DEF f, g
      <4>2. /\ g \in Frames /\ g.kind = f.kind /\ g.var = f.var /\ g.base = f.base
            /\ g.val = f.val /\ g.clear = f.clear /\ g.inner = f.inner /\ g.next = f.next
            /\ g.phase = "leave"
        BY <1>1, <4>1 DEF Frames
      <4>3. ~f.clear
        BY DEF f
      <4> QED
        BY <1>1, <3>4, <4>2, <4>3 DEF FrameOK, ScopeOK
    <3> QED
      BY <3>1, <3>2, <3>3, <3>4
  <2> HIDE DEF g
  <2>4. /\ t \in Seq(Frames) /\ Len(t) = n /\ t[n] = g
        /\ \A j \in 1 .. n - 1 : t[j] = fr[j]
    BY <1>1, <2>3, ExceptFacts
  <2> HIDE DEF t, fr
  <2>5. Good(live, counts, ex, mo, mt, blks, t, NULL)
    <3>1. NULL \in live \cup {NULL} /\ Good(live, counts, ex, mo, mt, blks, fr, NULL)
      BY <2>2 DEF fr
    <3>2. ~fr[n].clear
      BY DEF fr
    <3> QED
      BY <1>1, <2>3, <2>4, <3>1, <3>2, MoveOn
  <2> QED
    BY <1>1, <2>1, <2>4, <2>5
<1> QED
  BY <1>2, <1>3

-----------------------------------------------------------------------------
(* The end of a pending assignment and of a release.                       *)

LEMMA ExactSame ==
  ASSUME NEW live, NEW counts, NEW ex, NEW mo, NEW mt, NEW fr, NEW lax, NEW mo2, NEW mt2, NEW fr2,
         Exact(live, counts, ex, mo, mt, fr, lax),
         \A p \in Objects : Count(fr2, mo2, mt2, ex, p) = Count(fr, mo, mt, ex, p)
  PROVE  Exact(live, counts, ex, mo2, mt2, fr2, lax)
BY DEF Exact

LEMMA BelowFits ==
  ASSUME NEW fr, NEW mo, NEW mt \in Nat, NEW n \in Nat \ {0}, StackOK(fr, mo, mt), n = Len(fr),
         NEW t \in Seq(Frames), Len(t) = n - 1, \A j \in 1 .. n - 1 : t[j] = fr[j]
  PROVE  StackOK(t, mo, mt)
<1>1. \A j \in 1 .. n - 1 : ScopeOK(fr[j], mo, mt)
  BY StackFacts
<1>2. \A j \in 1 .. n - 1 : Within(fr[j], mt)
  BY <1>1 DEF ScopeOK, Within
<1>3. mt <= mt
  OBVIOUS
<1> QED
  BY <1>2, <1>3, StackPop

Written(fr) ==
  LET b == SubSeq(fr, 1, Len(fr) - 1) IN [b EXCEPT ![Len(b)].var = fr[Len(fr)].val]

LEMMA EndWrite ==
  ASSUME NEW live, NEW counts, NEW ex, NEW mo, NEW mt, NEW blks, NEW fr,
         Good(live, counts, ex, mo, mt, blks, fr, NULL),
         NEW n \in Nat \ {0}, n = Len(fr), fr[n].kind = "write"
  PROVE  /\ Good(live, counts, ex, mo, mt, blks, Written(fr), NULL)
         /\ Written(fr) # <<>>
<1> DEFINE b == SubSeq(fr, 1, n - 1)
<1> DEFINE m == n - 1
           g == [fr[m] EXCEPT !.var = fr[n].val]
           t == [b EXCEPT ![Len(b)] = g]
<1>1. /\ StackOK(fr, mo, mt) /\ mt \in Nat /\ fr \in Seq(Frames) /\ fr # <<>>
      /\ live \subseteq Objects /\ counts \in [Objects -> Nat] /\ ex \in Strings \cup {NULL}
      /\ NULL \notin Objects
  BY GoodFacts, NullFacts
<1>2. /\ m \in Nat \ {0} /\ n = m + 1 /\ fr[m].kind = "vm" /\ fr[m] \in Frames /\ fr[n] \in Frames
      /\ FrameOK(fr[m]) /\ ScopeOK(fr[m], mo, mt) /\ FrameOK(fr[n])
  <2>1. n \in 1 .. Len(fr) /\ n > 1 /\ fr[n - 1].kind = "vm"
    BY <1>1, StackFacts
  <2>2. m \in 1 .. Len(fr)
    BY <2>1
  <2> QED
    BY <1>1, <2>1, <2>2, StackFacts
<1>3. /\ b \in Seq(Frames) /\ Len(b) = m /\ b # <<>>
      /\ \A j \in 1 .. m : b[j] = fr[j]
  <2>1. b \in Seq(Frames) /\ Len(b) = m /\ \A j \in 1 .. m : b[j] = fr[j]
    BY <1>1, PopFacts
  <2> QED
    BY <1>2, <2>1
<1>0. Written(fr) = [b EXCEPT ![Len(b)].var = fr[n].val]
  BY DEF Written
<1> HIDE DEF m, b
<1>4. /\ g \in Frames /\ g.kind = "vm" /\ g.var = fr[n].val /\ g.val = fr[m].val
      /\ g.base = fr[m].base /\ g.clear = fr[m].clear /\ ~g.clear
      /\ FrameOK(g) /\ ScopeOK(g, mo, mt) /\ ~fr[n].clear
  <2>1. /\ g \in Frames /\ g.kind = fr[m].kind /\ g.var = fr[n].val /\ g.val = fr[m].val
        /\ g.base = fr[m].base /\ g.inner = fr[m].inner /\ g.next = fr[m].next
        /\ g.phase = fr[m].phase /\ g.clear = fr[m].clear /\ g.flag = fr[m].flag
    BY <1>2 DEF Frames
  <2> HIDE DEF g
  <2>2. FrameOK(g) /\ ScopeOK(g, mo, mt)
    BY <1>2, <2>1 DEF FrameOK, ScopeOK
  <2> QED
    BY <1>2, <2>1, <2>2 DEF FrameOK
<1> HIDE DEF g
<1>5. t \in Seq(Frames) /\ Len(t) = m /\ t[m] = g /\ \A j \in 1 .. m - 1 : t[j] = fr[j]
  <2>1. /\ t \in Seq(Frames) /\ Len(t) = Len(b) /\ t[Len(b)] = g
        /\ \A j \in 1 .. Len(b) - 1 : t[j] = b[j]
    BY <1>3, <1>4, ExceptFacts
  <2> QED
    BY <1>3, <2>1
<1>6. [b EXCEPT ![Len(b)].var = fr[n].val] = t
  <2>1. b[Len(b)] = fr[m]
    BY <1>2, <1>3
  <2> QED
    BY <2>1 DEF g
<1> HIDE DEF t
<1>7. StackOK(t, mo, mt)
  <2>1. StackOK(b, mo, mt)
    <3>1. Len(b) = n - 1 /\ \A j \in 1 .. n - 1 : b[j] = fr[j]
      BY <1>3 DEF m
    <3> QED
      BY <1>1, <1>3, <3>1, BelowFits
  <2>2. ASSUME m > 1 PROVE Link(b[m - 1], t[m])
    <3>1. m \in 2 .. Len(b)
      BY <1>3, <2>2
    <3>2. Link(b[m - 1], b[m])
      BY <2>1, <3>1, StackFacts
    <3>3. b[m] = fr[m]
      BY <1>2, <1>3
    <3> QED
      BY <1>2, <1>4, <1>5, <3>2, <3>3 DEF Link
  <2>3. \A j \in 1 .. m - 1 : t[j] = b[j]
    BY <1>3, <1>5
  <2>4. b[m].kind = "vm" /\ b[m].base = g.base
    BY <1>2, <1>3, <1>4
  <2> QED
    BY <1>2, <1>3, <1>4, <1>5, <2>1, <2>2, <2>3, <2>4, StackReplace
<1>8. ASSUME NEW p \in Objects
      PROVE  /\ p = fr[n].val => /\ VarsOf(t, p) = VarsOf(fr, p) \cup {m}
                                 /\ n \in ValsOf(fr, p)
             /\ p # fr[n].val => /\ VarsOf(t, p) = VarsOf(fr, p)
                                 /\ n \notin ValsOf(fr, p)
             /\ m \notin VarsOf(fr, p)
             /\ ValsOf(t, p) = ValsOf(fr, p) \ {n}
             /\ TempsOf(t, mo, mt, p) = TempsOf(fr, mo, mt, p)
  <2>1. \A j \in 1 .. m - 1 : j \in VarsOf(t, p) <=> j \in VarsOf(fr, p)
    BY <1>2, <1>4, <1>5 DEF VarsOf
  <2>2. m \in VarsOf(t, p) <=> p = fr[n].val
    BY <1>2, <1>4, <1>5 DEF VarsOf
  <2>3. VarsOf(t, p) \subseteq 1 .. n /\ VarsOf(fr, p) \subseteq 1 .. n /\ n \notin VarsOf(t, p)
    BY <1>2, <1>5 DEF VarsOf
  <2>4. m \notin VarsOf(fr, p) /\ n \notin VarsOf(fr, p)
    BY <1>2 DEF VarsOf
  <2>5. \A k : k \in 1 .. n => k \in 1 .. m - 1 \/ k = m \/ k = n
    BY <1>2
  <2>6. m \in VarsOf(t, p) => VarsOf(t, p) = VarsOf(fr, p) \cup {m}
    BY <2>1, <2>3, <2>4, <2>5
  <2>7. m \notin VarsOf(t, p) => VarsOf(t, p) = VarsOf(fr, p)
    <3> SUFFICES ASSUME m \notin VarsOf(t, p), NEW k \in 1 .. n
                 PROVE  k \in VarsOf(t, p) <=> k \in VarsOf(fr, p)
      BY <2>3
    <3>1. CASE k \in 1 .. m - 1
      BY <2>1, <3>1
    <3>2. CASE k \in {m, n}
      BY <2>3, <2>4, <3>2
    <3> QED
      BY <2>5, <3>1, <3>2
  <2>8. n \in ValsOf(fr, p) <=> p = fr[n].val
    BY DEF ValsOf
  <2>9. ValsOf(t, p) = ValsOf(fr, p) \ {n}
    <3>1. \A j \in 1 .. m : j \in ValsOf(t, p) <=> j \in ValsOf(fr, p)
      BY <1>2, <1>4, <1>5 DEF ValsOf
    <3>2. ValsOf(t, p) \subseteq 1 .. m /\ ValsOf(fr, p) \subseteq 1 .. n
      BY <1>5 DEF ValsOf
    <3>3. \A k : k \in 1 .. n => k \in 1 .. m \/ k = n
      BY <1>2
    <3>4. n \notin 1 .. m
      BY <1>2
    <3> QED
      BY <3>1, <3>2, <3>3, <3>4
  <2>10. TempsOf(t, mo, mt, p) = TempsOf(fr, mo, mt, p)
    BY <1>1, <1>2, <1>4, <1>5 DEF TempsOf
  <2> QED
    BY <2>2, <2>4, <2>6, <2>7, <2>8, <2>9, <2>10
<1>9. ASSUME NEW p \in Objects PROVE Count(t, mo, mt, ex, p) = Count(fr, mo, mt, ex, p)
  <2>1. /\ IsFiniteSet(ValsOf(fr, p)) /\ Cardinality(VarsOf(fr, p)) \in Nat
        /\ IsFiniteSet(VarsOf(fr, p)) /\ Cardinality(ValsOf(fr, p)) \in Nat
        /\ Cardinality(TempsOf(fr, mo, mt, p)) \in Nat
    BY <1>1, RefsFinite
  <2>2. CASE p = fr[n].val
    <3>1. Cardinality(VarsOf(t, p)) = Cardinality(VarsOf(fr, p)) + 1
      BY <1>8, <2>1, <2>2, CardStep
    <3>2. Cardinality(ValsOf(t, p)) = Cardinality(ValsOf(fr, p)) - 1
      <4>1. n \in ValsOf(fr, p) /\ ValsOf(t, p) = ValsOf(fr, p) \ {n}
        BY <1>8, <2>2
      <4>2. Cardinality(ValsOf(fr, p) \ {n}) = Cardinality(ValsOf(fr, p)) - 1
        BY <2>1, <4>1, CardStep
      <4> QED
        BY <4>1, <4>2
    <3>3. TempsOf(t, mo, mt, p) = TempsOf(fr, mo, mt, p)
      BY <1>8
    <3> QED
      BY <2>1, <3>1, <3>2, <3>3 DEF Count
  <2>3. CASE p # fr[n].val
    <3>1. ValsOf(t, p) = ValsOf(fr, p)
      BY <1>8, <2>3
    <3> QED
      BY <1>8, <2>3, <3>1, CountSame
  <2> QED
    BY <2>2, <2>3
<1>10. Exact(live, counts, ex, mo, mt, t, NULL)
  BY <1>9, ExactSame DEF Good
<1>11. DyingOK(t, mo, mt)
  <2> SUFFICES ASSUME NEW j \in 1 .. m, t[j].kind = "free" PROVE Dying(t, mo, mt, j)
    BY <1>5 DEF DyingOK
  <2>1. j \in 1 .. m - 1 /\ t[j] = fr[j]
    <3>1. j # m
      BY <1>4, <1>5
    <3> QED
      BY <1>2, <1>5, <3>1
  <2>2. fr[j].kind = "free" /\ Dying(fr, mo, mt, j) /\ j > 1 /\ fr[j].val \in Objects
    <3>1. j \in 1 .. Len(fr)
      BY <1>2, <2>1
    <3> QED
      BY <1>1, <2>1, <3>1, StackFacts, NativeAssumption DEF Good, DyingOK, FrameOK, Objects
  <2>3. t[j - 1] = fr[j - 1] /\ t[j].val = fr[j].val
    BY <1>2, <1>5, <2>1, <2>2
  <2>4. m > j
    BY <1>2, <2>1
  <2>5. \A k : k \in VarsOf(fr, fr[j].val) => k \in VarsOf(t, fr[j].val)
    BY <1>8, <2>2
  <2>6. \A k : k \in VarsOf(t, fr[j].val) => k = m \/ k \in VarsOf(fr, fr[j].val)
    BY <1>8, <2>2
  <2> QED
    BY <1>8, <2>2, <2>3, <2>4, <2>5, <2>6 DEF Dying
<1>12. Vms(t) = Vms(fr)
  <2>1. \A j \in 1 .. m : j \in Vms(t) <=> j \in Vms(fr)
    BY <1>2, <1>4, <1>5 DEF Vms
  <2>2. Vms(t) \subseteq 1 .. m /\ Vms(fr) \subseteq 1 .. n /\ n \notin Vms(fr)
    BY <1>5 DEF Vms
  <2>3. \A k : k \in 1 .. n => k \in 1 .. m \/ k = n
    BY <1>2
  <2> QED
    BY <2>1, <2>2, <2>3
<1>13. t # <<>>
  BY <1>2, <1>5
<1> QED
  <2>1. Good(live, counts, ex, mo, mt, blks, t, NULL)
    <3>1. /\ HeapOK(live, counts, ex) /\ MortalOK(mo, mt)
          /\ blks = Cardinality(live) + 1 + Cardinality(Vms(fr))
      BY DEF Good
    <3>2. blks = Cardinality(live) + 1 + Cardinality(Vms(t))
      BY <1>12, <3>1
    <3> QED
      BY <1>7, <1>10, <1>11, <3>1, <3>2 DEF Good
  <2>2. Written(fr) = t
    BY <1>0, <1>6
  <2> QED
    BY <1>13, <2>1, <2>2
(* The object whose destructor has run is freed with the one reference     *)
(* that is left.                                                           *)
LEMMA FreeDone ==
  ASSUME NEW live, NEW counts, NEW ex, NEW mo, NEW mt, NEW blks, NEW fr,
         Good(live, counts, ex, mo, mt, blks, fr, NULL),
         NEW n \in Nat \ {0}, n = Len(fr), fr[n].kind = "free",
         NEW o, o = fr[n].val
  PROVE  /\ Good(live \ {o}, DecRef(counts, o), ex, mo, mt, blks - 1, SubSeq(fr, 1, n - 1), NULL)
         /\ SubSeq(fr, 1, n - 1) # <<>>
<1> DEFINE t == SubSeq(fr, 1, n - 1)
           write == fr[n - 1].kind = "write"
           live2 == live \ {o}
           counts2 == DecRef(counts, o)
<1>1. /\ StackOK(fr, mo, mt) /\ mt \in Nat /\ fr \in Seq(Frames) /\ fr # <<>>
      /\ live \subseteq Objects /\ counts \in [Objects -> Nat] /\ ex \in Strings \cup {NULL}
      /\ NULL \notin Objects /\ IsFiniteSet(live) /\ Cardinality(live) \in Nat
  BY GoodFacts, NullFacts
<1>2. /\ t \in Seq(Frames) /\ Len(t) = n - 1
      /\ \A j \in 1 .. n - 1 : t[j] = fr[j]
  BY <1>1, PopFacts
<1>3. /\ n \in 1 .. Len(fr) /\ n > 1 /\ n - 1 \in 1 .. Len(fr)
      /\ write \/ fr[n - 1].clear
      /\ fr[n] \in Frames /\ FrameOK(fr[n]) /\ fr[n - 1] \in Frames /\ FrameOK(fr[n - 1])
      /\ ~fr[n].clear /\ o \in Objects /\ o # NULL /\ ex # o
  <2>1. n \in 1 .. Len(fr) /\ n > 1 /\ (write \/ fr[n - 1].clear)
    BY <1>1, StackFacts
  <2>2. n - 1 \in 1 .. Len(fr)
    BY <2>1
  <2>3. fr[n] \in Frames /\ FrameOK(fr[n]) /\ fr[n - 1] \in Frames /\ FrameOK(fr[n - 1])
    BY <1>1, <2>1, <2>2, StackFacts
  <2>4. ~fr[n].clear /\ o \in Destructible
    BY <2>3 DEF FrameOK
  <2>5. o \in Objects /\ o # NULL /\ ex # o
    BY <1>1, <2>4, NativeAssumption DEF Objects
  <2> QED
    BY <2>1, <2>2, <2>3, <2>4, <2>5
<1> HIDE DEF t
<1>4. /\ write => /\ VarsOf(fr, o) = {n - 2} /\ TempsOf(fr, mo, mt, o) = {}
                  /\ fr[n - 2].var = o
      /\ ~write => /\ VarsOf(fr, o) = {} /\ TempsOf(fr, mo, mt, o) = {fr[n - 1].next}
                   /\ mo[fr[n - 1].next] = o
      /\ ValsOf(fr, o) = {}
  <2>1. Dying(fr, mo, mt, n)
    BY <1>3 DEF Good, DyingOK
  <2>2. VarsOf(fr, o) \subseteq 1 .. n /\ ValsOf(fr, o) \subseteq 1 .. n
    BY DEF VarsOf, ValsOf
  <2>3. /\ \A k \in VarsOf(fr, o) : write /\ k = n - 2
        /\ \A k \in ValsOf(fr, o) : FALSE
        /\ \A i \in TempsOf(fr, mo, mt, o) : ~write /\ i = fr[n - 1].next
    BY <2>1, <2>2 DEF Dying
  <2>4. IF write THEN n - 2 \in VarsOf(fr, o) ELSE fr[n - 1].next \in TempsOf(fr, mo, mt, o)
    BY <2>1 DEF Dying
  <2>5. /\ n - 2 \in VarsOf(fr, o) => fr[n - 2].var = o
        /\ fr[n - 1].next \in TempsOf(fr, mo, mt, o) => mo[fr[n - 1].next] = o
    BY DEF VarsOf, TempsOf
  <2> QED
    BY <2>3, <2>4, <2>5
<1>5. o \in live /\ counts[o] = 1
  <2>1. \A x : Cardinality({x}) = 1
    BY FS_Singleton
  <2>2. Cardinality({}) = 0
    BY FS_EmptySet
  <2>3. Count(fr, mo, mt, ex, o) = 1
    <3>1. CASE write
      <4>1. /\ Cardinality(VarsOf(fr, o)) = 1 /\ Cardinality(ValsOf(fr, o)) = 0
            /\ Cardinality(TempsOf(fr, mo, mt, o)) = 0
        BY <1>4, <2>1, <2>2, <3>1
      <4> QED
        BY <1>3, <4>1 DEF Count
    <3>2. CASE ~write
      <4>1. /\ Cardinality(VarsOf(fr, o)) = 0 /\ Cardinality(ValsOf(fr, o)) = 0
            /\ Cardinality(TempsOf(fr, mo, mt, o)) = 1
        BY <1>4, <2>1, <2>2, <3>2
      <4> QED
        BY <1>3, <4>1 DEF Count
    <3> QED
      BY <3>1, <3>2
  <2> QED
    BY <1>3, <2>3, LiveFacts
<1>6. StackOK(t, mo, mt)
  BY <1>1, <1>2, BelowFits
<1>7. ASSUME NEW p \in Objects
      PROVE  /\ p # o => VarsOf(t, p) = VarsOf(fr, p)
             /\ p # o => TempsOf(t, mo, mt, p) = TempsOf(fr, mo, mt, p)
             /\ p = o => VarsOf(t, p) = {} /\ TempsOf(t, mo, mt, p) = {}
             /\ ValsOf(t, p) = ValsOf(fr, p)
  <2>0. /\ \A k : k \in 1 .. n => k \in 1 .. n - 1 \/ k = n
        /\ \A k : k \in 1 .. n - 1 => k \in 1 .. n
        /\ n \notin 1 .. n - 1
    OBVIOUS
  <2>1. VarsOf(t, p) \subseteq 1 .. n - 1 /\ VarsOf(fr, p) \subseteq 1 .. n /\ n \notin VarsOf(fr, p)
    BY <1>2 DEF VarsOf
  <2>2. \A j \in 1 .. n - 1 : j \in VarsOf(t, p) <=> j \in VarsOf(fr, p) /\ ~(write /\ j = n - 2)
    BY <1>2, <1>3 DEF VarsOf
  <2>3. p # o => ~(write /\ n - 2 \in VarsOf(fr, p))
    BY <1>4 DEF VarsOf
  <2>4. p # o => VarsOf(t, p) = VarsOf(fr, p)
    BY <2>0, <2>1, <2>2, <2>3
  <2>5. VarsOf(t, o) = {}
    <3>1. \A j \in 1 .. n - 1 : j \in VarsOf(t, o) <=> j \in VarsOf(fr, o) /\ ~(write /\ j = n - 2)
      BY <1>2, <1>3 DEF VarsOf
    <3>2. VarsOf(t, o) \subseteq 1 .. n - 1
      BY <1>2 DEF VarsOf
    <3> QED
      BY <1>4, <3>1, <3>2
  <2>6. ValsOf(t, p) = ValsOf(fr, p)
    <3>1. \A j \in 1 .. n - 1 : j \in ValsOf(t, p) <=> j \in ValsOf(fr, p)
      BY <1>2 DEF ValsOf
    <3>2. ValsOf(t, p) \subseteq 1 .. n - 1 /\ ValsOf(fr, p) \subseteq 1 .. n /\ n \notin ValsOf(fr, p)
      BY <1>2 DEF ValsOf
    <3> QED
      BY <2>0, <3>1, <3>2
  <2>7. ASSUME NEW q \in Objects, NEW i \in 1 .. mt
        PROVE  i \in TempsOf(t, mo, mt, q) <=>
                 i \in TempsOf(fr, mo, mt, q) /\ ~(fr[n - 1].clear /\ i = fr[n - 1].next)
    BY <1>1, <1>2, <1>3 DEF TempsOf
  <2>8. \A q : TempsOf(t, mo, mt, q) \subseteq 1 .. mt /\ TempsOf(fr, mo, mt, q) \subseteq 1 .. mt
    BY DEF TempsOf
  <2>9. p # o => TempsOf(t, mo, mt, p) = TempsOf(fr, mo, mt, p)
    <3>1. ASSUME p # o PROVE ~(fr[n - 1].clear /\ fr[n - 1].next \in TempsOf(fr, mo, mt, p))
      <4>1. fr[n - 1].clear => ~write
        BY <1>3 DEF FrameOK
      <4> QED
        BY <1>4, <3>1, <4>1 DEF TempsOf
    <3> QED
      BY <2>7, <2>8, <3>1
  <2>10. TempsOf(t, mo, mt, o) = {}
    BY <1>3, <1>4, <2>7, <2>8
  <2> QED
    BY <2>4, <2>5, <2>6, <2>9, <2>10
<1>8. /\ counts2 \in [Objects -> Nat]
      /\ \A p \in Objects : counts2[p] = IF p = o THEN counts[p] - 1 ELSE counts[p]
  <2>1. counts[o] > 0 /\ o \in Objects \cup {NULL}
    BY <1>3, <1>5
  <2> QED
    BY <1>1, <2>1, DecRefFacts
<1> HIDE DEF counts2
<1>9. Exact(live2, counts2, ex, mo, mt, t, NULL)
  <2> SUFFICES ASSUME NEW p \in Objects
               PROVE  /\ Count(t, mo, mt, ex, p) = IF p \in live2 THEN counts2[p] ELSE 0
                      /\ p \in live2 /\ counts2[p] = 0 => p = NULL
    BY DEF Exact
  <2>1. /\ Count(fr, mo, mt, ex, p) = IF p \in live THEN counts[p] ELSE 0
        /\ p \in live /\ counts[p] = 0 => p = NULL
    BY DEF Good, Exact
  <2>2. CASE p = o
    <3>1. VarsOf(t, p) = {} /\ TempsOf(t, mo, mt, p) = {} /\ ValsOf(t, p) = {} /\ ex # p
      BY <1>3, <1>4, <1>7, <2>2
    <3>2. Count(t, mo, mt, ex, p) = 0
      BY <3>1, FS_EmptySet DEF Count
    <3> QED
      BY <2>2, <3>2
  <2>3. CASE p # o
    <3>1. Count(t, mo, mt, ex, p) = Count(fr, mo, mt, ex, p)
      BY <1>7, <2>3, CountSame
    <3> QED
      BY <1>8, <2>1, <2>3, <3>1
  <2> QED
    BY <2>2, <2>3
<1>10. DyingOK(t, mo, mt)
  <2> SUFFICES ASSUME NEW j \in 1 .. n - 1, t[j].kind = "free" PROVE Dying(t, mo, mt, j)
    BY <1>2 DEF DyingOK
  <2>1. j \in 1 .. Len(fr) /\ t[j] = fr[j] /\ j < n
    BY <1>2
  <2>2. fr[j].kind = "free" /\ Dying(fr, mo, mt, j) /\ j > 1 /\ fr[j].val \in Objects
        /\ (fr[j - 1].kind = "write" \/ fr[j - 1].clear)
    BY <1>1, <2>1, StackFacts, NativeAssumption DEF Good, DyingOK, FrameOK, Objects
  <2>3. t[j - 1] = fr[j - 1] /\ t[j].val = fr[j].val
    BY <1>2, <2>1, <2>2
  <2>4. ASSUME fr[j].val = o PROVE FALSE
    <3>1. CASE fr[j - 1].kind = "write"
      <4>1. j - 2 \in VarsOf(fr, o)
        BY <2>2, <2>4, <3>1 DEF Dying
      <4>2. j - 2 # n - 2
        BY <2>1
      <4> QED
        BY <1>4, <4>1, <4>2
    <3>2. CASE fr[j - 1].kind # "write"
      <4>1. fr[j - 1].next \in TempsOf(fr, mo, mt, o) /\ fr[j - 1].clear
        BY <2>2, <2>4, <3>2 DEF Dying
      <4>2. ~write /\ fr[j - 1].next = fr[n - 1].next /\ fr[n - 1].clear
        BY <1>3, <1>4, <4>1
      <4>3. fr[n - 1].next > fr[n - 1].base
        BY <1>3, <4>2 DEF FrameOK, Frames
      <4>4. fr[n - 1].kind = "native"
        <5>1. n - 1 \in 2 .. Len(fr)
          BY <1>3, <2>1, <2>2
        <5>2. Link(fr[(n - 1) - 1], fr[n - 1])
          BY <1>1, <5>1, StackFacts
        <5> QED
          BY <1>3, <4>2, <5>2 DEF Link, FrameOK
      <4>5. j - 1 \in 1 .. (n - 1) - 1
        BY <2>1, <2>2
      <4>6. Within(fr[j - 1], fr[n - 1].base)
        BY <1>1, <1>3, <4>4, <4>5 DEF StackOK
      <4> QED
        BY <1>3, <4>1, <4>2, <4>3, <4>6 DEF Within, Frames
    <3> QED
      BY <3>1, <3>2
  <2> QED
    BY <1>7, <2>2, <2>3, <2>4 DEF Dying
<1>11. blks - 1 = Cardinality(live2) + 1 + Cardinality(Vms(t))
  <2>1. Vms(t) = Vms(fr)
    <3>1. \A k : k \in 1 .. n => k \in 1 .. n - 1 \/ k = n
      OBVIOUS
    <3>2. Vms(t) \subseteq 1 .. n - 1 /\ Vms(fr) \subseteq 1 .. n /\ n \notin Vms(fr)
      BY <1>2 DEF Vms
    <3>3. \A j \in 1 .. n - 1 : j \in Vms(t) <=> j \in Vms(fr)
      BY <1>2 DEF Vms
    <3> QED
      BY <3>1, <3>2, <3>3
  <2>2. blks = Cardinality(live) + 1 + Cardinality(Vms(fr)) /\ Cardinality(Vms(fr)) \in Nat
    BY <1>1, RefsFinite DEF Good
  <2>3. Cardinality(live2) = Cardinality(live) - 1
    BY <1>1, <1>5, CardStep
  <2> HIDE DEF live2
  <2> QED
    BY <1>1, <2>1, <2>2, <2>3
<1>12. HeapOK(live2, counts2, ex)
  BY <1>1, <1>8 DEF HeapOK
<1>13. Good(live2, counts2, ex, mo, mt, blks - 1, t, NULL)
  <2> HIDE DEF live2
  <2> QED
    BY <1>6, <1>9, <1>10, <1>11, <1>12 DEF Good
<1>14. t # <<>>
  BY <1>2, <1>3
<1> QED
  BY <1>13, <1>14 DEF t, counts2

-----------------------------------------------------------------------------
(* leave_scope.                                                            *)

(* An entry is being released: it does not count any more.                 *)
LEMMA EntryFacts ==
  ASSUME NEW live, NEW counts, NEW ex, NEW mo, NEW mt, NEW blks, NEW fr,
         Good(live, counts, ex, mo, mt, blks, fr, NULL),
         NEW n \in Nat \ {0}, n = Len(fr),
         fr[n].kind \in {"native", "host"}, fr[n].phase \in {"leave", "inner"},
         ~fr[n].clear, fr[n].next <= mt,
         NEW next, next = fr[n].next, NEW o, o = mo[next],
         NEW t \in Seq(Frames), Len(t) = n, \A j \in 1 .. n - 1 : t[j] = fr[j],
         t[n].kind = fr[n].kind, t[n].var = fr[n].var, t[n].val = fr[n].val,
         t[n].base = fr[n].base, t[n].inner = fr[n].inner, t[n].next = next,
         t[n].phase = fr[n].phase, t[n].clear, t[n].flag = fr[n].flag
  PROVE  /\ next \in 1 .. mt /\ o \in live \cup {NULL}
         /\ o # NULL => counts[o] > 0
         /\ StackOK(t, mo, mt)
<1>1. /\ StackOK(fr, mo, mt) /\ mt \in Nat /\ fr \in Seq(Frames) /\ fr # <<>>
      /\ mo \in Seq(ObjectOrNull) /\ mt \in 0 .. Len(mo)
  BY GoodFacts
<1>2. fr[n] \in Frames /\ FrameOK(fr[n]) /\ ScopeOK(fr[n], mo, mt)
  BY <1>1, StackFacts
<1>3. next \in 1 .. mt /\ o \in Objects \cup {NULL}
  <2>1. next \in Nat /\ next > fr[n].base /\ fr[n].base \in Nat
    BY <1>2 DEF FrameOK, Frames
  <2>2. next \in 1 .. mt
    BY <1>1, <2>1
  <2> QED
    BY <1>1, <2>2 DEF ObjectOrNull
<1>4. o # NULL => next \in TempsOf(fr, mo, mt, o) /\ o \in live /\ counts[o] > 0
  <2>1. next \in TempsOf(fr, mo, mt, o)
    BY <1>3 DEF TempsOf
  <2> QED
    BY <1>3, <2>1, LiveFacts
<1>5. t[n] \in Frames
  OBVIOUS
<1>7. StackOK(t, mo, mt)
  <2>1. FrameOK(t[n])
    BY <1>2, <1>5 DEF FrameOK
  <2>2. ScopeOK(t[n], mo, mt)
    BY <1>2, <1>3, <1>5 DEF ScopeOK
  <2>3. ASSUME n > 1 PROVE Link(fr[n - 1], t[n])
    <3>1. n \in 2 .. Len(fr)
      BY <2>3
    <3>2. Link(fr[n - 1], fr[n])
      BY <1>1, <3>1, StackFacts
    <3> QED
      BY <3>2 DEF Link
  <2> QED
    BY <1>1, <2>1, <2>2, <2>3, StackReplace
<1> QED
  BY <1>3, <1>4, <1>7

LEMMA EntryReleased ==
  ASSUME NEW live, NEW counts, NEW ex, NEW mo, NEW mt, NEW blks, NEW fr,
         Good(live, counts, ex, mo, mt, blks, fr, NULL),
         NEW n \in Nat \ {0}, n = Len(fr),
         fr[n].kind \in {"native", "host"}, fr[n].phase \in {"leave", "inner"},
         ~fr[n].clear, fr[n].next <= mt,
         NEW next \in 1 .. mt, next = fr[n].next, NEW o \in live \cup {NULL}, o = mo[next],
         NEW t \in Seq(Frames), Len(t) = n, \A j \in 1 .. n - 1 : t[j] = fr[j],
         t[n].kind = fr[n].kind, t[n].val = fr[n].val, t[n].clear, t[n].next = next,
         StackOK(t, mo, mt),
         ~(o \in Destructible /\ counts[o] = 1),
         Drop(o, counts, live, blks, t)
  PROVE  Good(alive', rc', ex, mo, mt, blocks', stack', NULL) /\ stack' # <<>>
<1>1. /\ StackOK(fr, mo, mt) /\ mt \in Nat /\ fr \in Seq(Frames) /\ fr # <<>>
      /\ live \subseteq Objects /\ counts \in [Objects -> Nat] /\ ex \in Strings \cup {NULL}
      /\ NULL \notin Objects /\ IsFiniteSet(live) /\ Cardinality(live) \in Nat
  BY GoodFacts, NullFacts
<1>2. o # NULL => counts[o] > 0 /\ next \in TempsOf(fr, mo, mt, o)
  <2>1. next \in TempsOf(fr, mo, mt, o)
    BY DEF TempsOf
  <2> QED
    BY <1>1, <2>1, LiveFacts
<1>3. /\ rc' \in [Objects -> Nat] /\ stack' = t
      /\ \A p \in Objects : rc'[p] = IF p = o THEN counts[p] - 1 ELSE counts[p]
      /\ o # NULL /\ counts[o] = 1 => alive' = live \ {o} /\ blocks' = blks - 1
      /\ o = NULL \/ counts[o] # 1 => alive' = live /\ blocks' = blks
  <2>1. live \in SUBSET Objects
    BY <1>1
  <2> QED
    BY <1>1, <1>2, <2>1, DropFacts
<1>4. ASSUME NEW p \in Objects
      PROVE  /\ VarsOf(t, p) = VarsOf(fr, p)
             /\ ValsOf(t, p) = ValsOf(fr, p)
             /\ TempsOf(t, mo, mt, p) = TempsOf(fr, mo, mt, p) \ {next}
             /\ Vms(t) = Vms(fr)
             /\ next \in TempsOf(fr, mo, mt, p) <=> p = o
  <2>1. next \in TempsOf(fr, mo, mt, p) => p = o
    BY DEF TempsOf
  <2>2. p = o => next \in TempsOf(fr, mo, mt, p)
    BY <1>1, <1>2
  <2>3. VarsOf(t, p) = VarsOf(fr, p)
    BY DEF VarsOf
  <2>4. ValsOf(t, p) = ValsOf(fr, p)
    BY DEF ValsOf
  <2>5. TempsOf(t, mo, mt, p) = TempsOf(fr, mo, mt, p) \ {next}
    <3>1. t # <<>> /\ fr # <<>>
      OBVIOUS
    <3> QED
      BY <3>1 DEF TempsOf
  <2>6. Vms(t) = Vms(fr)
    BY DEF Vms
  <2> QED
    BY <2>1, <2>2, <2>3, <2>4, <2>5, <2>6
<1>5. Exact(alive', rc', ex, mo, mt, t, NULL)
  <2> SUFFICES ASSUME NEW p \in Objects
               PROVE  /\ Count(t, mo, mt, ex, p) = IF p \in alive' THEN rc'[p] ELSE 0
                      /\ p \in alive' /\ rc'[p] = 0 => p = NULL
    BY DEF Exact
  <2>1. /\ Count(fr, mo, mt, ex, p) = IF p \in live THEN counts[p] ELSE 0
        /\ p \in live /\ counts[p] = 0 => p = NULL
    BY DEF Good, Exact
  <2>2. /\ IsFiniteSet(TempsOf(fr, mo, mt, p)) /\ Cardinality(VarsOf(fr, p)) \in Nat
        /\ Cardinality(TempsOf(fr, mo, mt, p)) \in Nat /\ Cardinality(ValsOf(fr, p)) \in Nat
    BY <1>1, RefsFinite
  <2>3. p # NULL /\ counts[p] \in Nat
    BY <1>1
  <2>4. CASE p = o
    <3>1. next \in TempsOf(fr, mo, mt, p)
      BY <1>4, <2>4
    <3>2. Cardinality(TempsOf(fr, mo, mt, p) \ {next}) = Cardinality(TempsOf(fr, mo, mt, p)) - 1
      BY <2>2, <3>1, CardStep
    <3>3. /\ Cardinality(TempsOf(t, mo, mt, p)) = Cardinality(TempsOf(fr, mo, mt, p)) - 1
          /\ Cardinality(VarsOf(t, p)) = Cardinality(VarsOf(fr, p))
          /\ Cardinality(ValsOf(t, p)) = Cardinality(ValsOf(fr, p))
      BY <1>4, <3>2
    <3>5. Count(t, mo, mt, ex, p) = Count(fr, mo, mt, ex, p) - 1
      BY <2>2, <3>3 DEF Count
    <3>4. p \in live /\ counts[p] > 0 /\ rc'[p] = counts[p] - 1 /\ (p \in alive' <=> counts[p] # 1)
      BY <1>2, <1>3, <2>3, <2>4
    <3> QED
      BY <2>1, <2>3, <3>5, <3>4
  <2>5. CASE p # o
    <3>0. next \notin TempsOf(fr, mo, mt, p)
      BY <1>4, <2>5
    <3>4. TempsOf(t, mo, mt, p) = TempsOf(fr, mo, mt, p) \ {next}
      BY <1>4
    <3>1. TempsOf(t, mo, mt, p) = TempsOf(fr, mo, mt, p)
      BY <3>0, <3>4
    <3>2. Count(t, mo, mt, ex, p) = Count(fr, mo, mt, ex, p)
      BY <1>4, <3>1, CountSame
    <3>3. rc'[p] = counts[p] /\ (p \in alive' <=> p \in live)
      BY <1>3, <2>5
    <3> QED
      BY <2>1, <2>3, <3>2, <3>3
  <2> QED
    BY <2>4, <2>5
<1>6. DyingOK(t, mo, mt)
  <2> SUFFICES ASSUME NEW j \in 1 .. n, t[j].kind = "free" PROVE Dying(t, mo, mt, j)
    BY <1>2 DEF DyingOK
  <2>1. j \in 1 .. n - 1 /\ t[j] = fr[j]
    <3>1. j # n
      BY <1>2
    <3> QED
      BY <1>2, <3>1
  <2>2. fr[j].kind = "free" /\ Dying(fr, mo, mt, j) /\ j > 1 /\ fr[j].val \in Objects
        /\ (fr[j - 1].kind = "write" \/ fr[j - 1].clear)
    BY <1>1, <2>1, StackFacts, NativeAssumption DEF Good, DyingOK, FrameOK, Objects
  <2>3. t[j - 1] = fr[j - 1] /\ t[j].val = fr[j].val
    BY <1>2, <2>1, <2>2
  <2>4. fr[j - 1].kind # "write" => fr[j - 1].next # next
    <3> SUFFICES ASSUME fr[j - 1].kind # "write" PROVE fr[j - 1].next # next
      OBVIOUS
    <3>1. fr[j - 1].clear /\ j - 1 \in 1 .. n - 1 /\ n \in 2 .. Len(fr)
      BY <2>1, <2>2
    <3>6. j - 1 \in 1 .. Len(fr) /\ n \in 1 .. Len(fr)
      BY <3>1
    <3>7. FrameOK(fr[n]) /\ fr[n] \in Frames /\ fr[j - 1] \in Frames
      BY <1>1, <3>6, StackFacts
    <3>2. Link(fr[n - 1], fr[n])
      BY <1>1, <3>1, StackFacts
    <3>3. fr[n].kind = "native"
      BY <3>2 DEF Link
    <3>4. Within(fr[j - 1], fr[n].base)
      BY <1>1, <3>1, <3>3 DEF StackOK
    <3>5. next > fr[n].base
      BY <3>7 DEF FrameOK, Frames
    <3>8. fr[j - 1].next <= fr[n].base /\ fr[j - 1].next \in Nat /\ fr[n].base \in Nat
      BY <3>1, <3>4, <3>7 DEF Within, Frames
    <3> QED
      BY <3>5, <3>8
  <2> QED
    BY <1>4, <2>2, <2>3, <2>4 DEF Dying
<1>7. blocks' = Cardinality(alive') + 1 + Cardinality(Vms(t))
  <2>0. Vms(t) = Vms(fr)
    BY <1>2 DEF Vms
  <2>1. blks = Cardinality(live) + 1 + Cardinality(Vms(fr)) /\ Cardinality(Vms(fr)) \in Nat
    BY <1>1, RefsFinite DEF Good
  <2>2. CASE o # NULL /\ counts[o] = 1
    <3>1. alive' = live \ {o} /\ blocks' = blks - 1
      BY <1>3, <2>2
    <3>2. Cardinality(live \ {o}) = Cardinality(live) - 1
      BY <1>1, <1>2, <2>2, CardStep
    <3> QED
      BY <1>1, <2>0, <2>1, <3>1, <3>2
  <2>3. CASE o = NULL \/ counts[o] # 1
    BY <1>3, <2>0, <2>1, <2>3
  <2> QED
    BY <2>2, <2>3
<1>8. HeapOK(alive', rc', ex)
  BY <1>1, <1>3 DEF HeapOK
<1>9. t # <<>>
  BY <1>2
<1> QED
  BY <1>2, <1>3, <1>5, <1>6, <1>7, <1>8, <1>9 DEF Good


(* The last reference to an instance with a destructor.                    *)
LEMMA EntryWaits ==
  ASSUME NEW live, NEW counts, NEW ex, NEW mo, NEW mt, NEW blks, NEW fr,
         Good(live, counts, ex, mo, mt, blks, fr, NULL),
         NEW n \in Nat \ {0}, n = Len(fr),
         fr[n].kind \in {"native", "host"}, ~fr[n].clear,
         NEW next \in 1 .. mt, next = fr[n].next, NEW o \in live, o = mo[next],
         NEW t \in Seq(Frames), Len(t) = n, \A j \in 1 .. n - 1 : t[j] = fr[j],
         t[n].kind = fr[n].kind, t[n].val = fr[n].val, t[n].clear, t[n].next = next,
         StackOK(t, mo, mt), o \in Destructible, counts[o] = 1,
         NEW u \in Seq(Frames), Len(u) = n + 1, \A j \in 1 .. n : u[j] = t[j],
         u[n + 1].kind = "free", u[n + 1].phase = "run", u[n + 1].var = NULL, u[n + 1].val = o,
         u[n + 1].base = 0, u[n + 1].inner = -1, ~u[n + 1].clear
  PROVE  Good(live, counts, ex, mo, mt, blks, u, NULL) /\ u # <<>>
<1>1. /\ StackOK(fr, mo, mt) /\ mt \in Nat /\ fr \in Seq(Frames) /\ fr # <<>> /\ Len(fr) \in Nat
      /\ live \subseteq Objects /\ counts \in [Objects -> Nat] /\ ex \in Strings \cup {NULL}
      /\ NULL \notin Objects /\ o \in Objects
  <2>1. o \in Objects
    BY NativeAssumption DEF Objects
  <2> QED
    BY <2>1, GoodFacts, NullFacts
<1> DEFINE h == u[n + 1]
<1>2. /\ h \in Frames /\ h.kind = "free" /\ h.phase = "run" /\ h.var = NULL /\ h.val = o
      /\ h.base = 0 /\ h.inner = -1 /\ ~h.clear
  OBVIOUS
<1> HIDE DEF h
<1>3. u[n + 1] = h /\ n \in 1 .. n /\ n + 1 \in Nat
  BY DEF h
<1>4. StackOK(u, mo, mt)
  <2>1. FrameOK(h) /\ ScopeOK(h, mo, mt)
    BY <1>1, <1>2 DEF FrameOK, ScopeOK, Frames
  <2>2. t[n].kind # "write" /\ t[n].kind # "vm"
    OBVIOUS
  <2>3. Link(t[n], h)
    BY <1>2, <2>2 DEF Link
  <2>4. u[n + 1].kind # "native"
    BY <1>2, <1>3
  <2>5. FrameOK(u[n + 1]) /\ ScopeOK(u[n + 1], mo, mt) /\ Link(t[n], u[n + 1])
    BY <1>3, <2>1, <2>3
  <2> QED
    BY <2>4, <2>5, StackPush
<1>5. u[n].kind = fr[n].kind /\ u[n].clear /\ u[n].next = next /\ u # <<>>
      /\ \A j \in 1 .. n - 1 : u[j] = fr[j]
  BY <1>3
<1>6. ASSUME NEW p \in Objects
      PROVE  /\ VarsOf(u, p) = VarsOf(fr, p)
             /\ ValsOf(u, p) = ValsOf(fr, p)
             /\ TempsOf(u, mo, mt, p) = TempsOf(fr, mo, mt, p)
  <2>1. VarsOf(u, p) = VarsOf(fr, p)
    <3>1. \A j \in 1 .. n - 1 : j \in VarsOf(u, p) <=> j \in VarsOf(fr, p)
      BY <1>2, <1>3, <1>5 DEF VarsOf
    <3>2. n \notin VarsOf(u, p) /\ n + 1 \notin VarsOf(u, p) /\ n \notin VarsOf(fr, p)
      BY <1>2, <1>3, <1>5 DEF VarsOf
    <3>3. VarsOf(u, p) \subseteq 1 .. n + 1 /\ VarsOf(fr, p) \subseteq 1 .. n
      BY DEF VarsOf
    <3>4. \A k \in 1 .. n + 1 : k \in 1 .. n - 1 \/ k = n \/ k = n + 1
      OBVIOUS
    <3>5. VarsOf(u, p) \subseteq 1 .. n - 1 /\ VarsOf(fr, p) \subseteq 1 .. n - 1
      BY <3>2, <3>3, <3>4
    <3> QED
      BY <3>1, <3>5
  <2>2. ValsOf(u, p) = ValsOf(fr, p)
    <3>0. u[n].val = fr[n].val
      OBVIOUS
    <3>5. n \in ValsOf(u, p) <=> n \in ValsOf(fr, p)
      BY <1>5, <3>0 DEF ValsOf
    <3>6. \A j \in 1 .. n - 1 : j \in ValsOf(u, p) <=> j \in ValsOf(fr, p)
      BY <1>5 DEF ValsOf
    <3>1. \A j \in 1 .. n : j \in ValsOf(u, p) <=> j \in ValsOf(fr, p)
      BY <3>5, <3>6
    <3>2. n + 1 \notin ValsOf(u, p)
      BY <1>2, <1>3 DEF ValsOf
    <3>3. ValsOf(u, p) \subseteq 1 .. n + 1 /\ ValsOf(fr, p) \subseteq 1 .. n
      BY DEF ValsOf
    <3>4. \A k \in 1 .. n + 1 : k \in 1 .. n \/ k = n + 1
      OBVIOUS
    <3> QED
      BY <3>1, <3>2, <3>3, <3>4
  <2>3. TempsOf(u, mo, mt, p) = TempsOf(fr, mo, mt, p)
    <3>1. ~u[Len(u)].clear /\ ~fr[Len(fr)].clear
      BY <1>2, <1>3
    <3> QED
      BY <3>1 DEF TempsOf
  <2> QED
    BY <2>1, <2>2, <2>3
<1>7. Exact(live, counts, ex, mo, mt, u, NULL)
  <2>1. \A p \in Objects : Count(u, mo, mt, ex, p) = Count(fr, mo, mt, ex, p)
    BY <1>6, CountSame
  <2>2. Exact(live, counts, ex, mo, mt, fr, NULL)
    BY DEF Good
  <2> QED
    BY <2>1, <2>2, ExactSame
<1>8. DyingOK(u, mo, mt)
  <2> SUFFICES ASSUME NEW j \in 1 .. n + 1, u[j].kind = "free" PROVE Dying(u, mo, mt, j)
    BY DEF DyingOK
  <2>1. CASE j = n + 1
    <3>1. next \in TempsOf(fr, mo, mt, o)
      BY <1>1 DEF TempsOf
    <3>2. Count(fr, mo, mt, ex, o) = 1
      BY <1>1, LiveFacts
    <3>3. (\A k \in TempsOf(fr, mo, mt, o) : k = next) /\ VarsOf(fr, o) = {} /\ ValsOf(fr, o) = {}
      <4> DEFINE V == VarsOf(fr, o)  L == ValsOf(fr, o)  T == TempsOf(fr, mo, mt, o)
      <4>1. /\ IsFiniteSet(V) /\ Cardinality(V) \in Nat
            /\ IsFiniteSet(L) /\ Cardinality(L) \in Nat
            /\ IsFiniteSet(T) /\ Cardinality(T) \in Nat
        BY <1>1, RefsFinite
      <4>2. Cardinality(V) + Cardinality(L) + Cardinality(T) + (IF ex = o THEN 2 ELSE 0) = 1
        BY <3>2 DEF Count
      <4> HIDE DEF V, L, T
      <4>3. next \in T
        BY <3>1 DEF T
      <4>4. Cardinality(T) # 0
        BY <4>1, <4>3, FS_EmptySet
      <4>5. Cardinality(T) = 1 /\ Cardinality(V) = 0 /\ Cardinality(L) = 0
        BY <4>1, <4>2, <4>4
      <4>6. V = {} /\ L = {}
        BY <4>1, <4>5, FS_EmptySet
      <4>7. PICK i : T = {i}
        BY <4>1, <4>5, FS_Singleton
      <4> QED
        BY <4>3, <4>6, <4>7 DEF V, L, T
    <3>4. u[j].val = o /\ u[j - 1].kind # "write" /\ u[j - 1].next = next
      BY <1>2, <1>3, <1>5, <2>1
    <3>5. /\ next \in TempsOf(u, mo, mt, o) /\ \A k \in TempsOf(u, mo, mt, o) : k = next
          /\ VarsOf(u, o) = {} /\ ValsOf(u, o) = {}
      BY <1>1, <1>6, <3>1, <3>3
    <3> QED
      BY <3>4, <3>5 DEF Dying
  <2>2. CASE j # n + 1
    <3>1. j \in 1 .. n - 1 /\ u[j] = fr[j]
      <4>1. j # n
        BY <1>5
      <4> QED
        BY <1>5, <2>2, <4>1
    <3>2. fr[j].kind = "free" /\ Dying(fr, mo, mt, j) /\ j > 1 /\ FrameOK(fr[j])
      BY <1>1, <3>1, StackFacts DEF Good, DyingOK
    <3>3. u[j - 1] = fr[j - 1] /\ u[j].val = fr[j].val /\ fr[j].val \in Objects
      BY <1>5, <3>1, <3>2, NativeAssumption DEF FrameOK, Objects
    <3> QED
      BY <1>6, <3>2, <3>3 DEF Dying
  <2> QED
    BY <2>1, <2>2
<1>9. blks = Cardinality(live) + 1 + Cardinality(Vms(u))
  <2>1. Vms(u) = Vms(fr)
    <3>1. \A j \in 1 .. n : j \in Vms(u) <=> j \in Vms(fr)
      BY <1>5 DEF Vms
    <3>2. n + 1 \notin Vms(u)
      BY <1>2, <1>3 DEF Vms
    <3>3. Vms(u) \subseteq 1 .. n + 1 /\ Vms(fr) \subseteq 1 .. n
      BY DEF Vms
    <3>4. \A k \in 1 .. n + 1 : k \in 1 .. n \/ k = n + 1
      OBVIOUS
    <3> QED
      BY <3>1, <3>2, <3>3, <3>4
  <2> QED
    BY <2>1 DEF Good
<1>10. HeapOK(live, counts, ex) /\ MortalOK(mo, mt)
  BY DEF Good
<1> QED
  BY <1>4, <1>5, <1>7, <1>8, <1>9, <1>10 DEF Good


(* The top moves on in a scope, and the temporaries stay the same.         *)
LEMMA SameRefs ==
  ASSUME NEW live, NEW counts, NEW ex, NEW mo, NEW mt, NEW blks, NEW fr, NEW lax,
         Good(live, counts, ex, mo, mt, blks, fr, lax),
         NEW n \in Nat \ {0}, n = Len(fr),
         fr[n].kind \in {"native", "host"},
         NEW t \in Seq(Frames), Len(t) = n, \A j \in 1 .. n - 1 : t[j] = fr[j],
         t[n].kind = fr[n].kind, t[n].val = fr[n].val,
         NEW mo2, NEW mt2, MortalOK(mo2, mt2), StackOK(t, mo2, mt2),
         \A p \in Objects : \A i : i \in TempsOf(t, mo2, mt2, p) <=> i \in TempsOf(fr, mo, mt, p)
  PROVE  Good(live, counts, ex, mo2, mt2, blks, t, lax) /\ t # <<>>
<1>1. StackOK(fr, mo, mt) /\ fr \in Seq(Frames)
  BY GoodFacts
<1>2. ASSUME NEW p \in Objects PROVE VarsOf(t, p) = VarsOf(fr, p) /\ ValsOf(t, p) = ValsOf(fr, p)
  <2>1. VarsOf(t, p) = VarsOf(fr, p)
    <3>1. \A j \in 1 .. n : j \in VarsOf(t, p) <=> j \in VarsOf(fr, p)
      BY DEF VarsOf
    <3>2. VarsOf(t, p) \subseteq 1 .. n /\ VarsOf(fr, p) \subseteq 1 .. n
      BY DEF VarsOf
    <3> QED
      BY <3>1, <3>2
  <2>2. ValsOf(t, p) = ValsOf(fr, p)
    BY DEF ValsOf
  <2> QED
    BY <2>1, <2>2
<1>3. Exact(live, counts, ex, mo2, mt2, t, lax)
  <2>1. \A p \in Objects : Count(t, mo2, mt2, ex, p) = Count(fr, mo, mt, ex, p)
    <3> SUFFICES ASSUME NEW p \in Objects
                 PROVE  Count(t, mo2, mt2, ex, p) = Count(fr, mo, mt, ex, p)
      OBVIOUS
    <3>1. TempsOf(t, mo2, mt2, p) = TempsOf(fr, mo, mt, p)
      OBVIOUS
    <3> QED
      BY <1>2, <3>1, CountSame
  <2>2. Exact(live, counts, ex, mo, mt, fr, lax)
    BY DEF Good
  <2> QED
    BY <2>1, <2>2, ExactSame
<1>4. DyingOK(t, mo2, mt2)
  <2> SUFFICES ASSUME NEW j \in 1 .. n, t[j].kind = "free" PROVE Dying(t, mo2, mt2, j)
    BY DEF DyingOK
  <2>1. j \in 1 .. n - 1 /\ t[j] = fr[j]
    OBVIOUS
  <2>2. fr[j].kind = "free" /\ Dying(fr, mo, mt, j) /\ j > 1 /\ FrameOK(fr[j])
    BY <1>1, <2>1, StackFacts DEF Good, DyingOK
  <2>3. t[j - 1] = fr[j - 1] /\ t[j].val = fr[j].val /\ fr[j].val \in Objects
    BY <2>1, <2>2, NativeAssumption DEF FrameOK, Objects
  <2> DEFINE o == fr[j].val
  <2>4. /\ VarsOf(t, o) = VarsOf(fr, o) /\ ValsOf(t, o) = ValsOf(fr, o)
        /\ TempsOf(t, mo2, mt2, o) = TempsOf(fr, mo, mt, o)
    BY <1>2, <2>3
  <2> QED
    BY <2>2, <2>3, <2>4 DEF Dying
<1>5. Vms(t) = Vms(fr)
  BY DEF Vms
<1> QED
  BY <1>3, <1>4, <1>5 DEF Good

(* The slot is set to null in the array as it is by now.                   *)
LEMMA EntryCleared ==
  ASSUME NEW live, NEW counts, NEW ex, NEW mo, NEW mt, NEW blks, NEW fr,
         Good(live, counts, ex, mo, mt, blks, fr, NULL),
         NEW n \in Nat \ {0}, n = Len(fr),
         fr[n].kind \in {"native", "host"}, fr[n].clear,
         NEW next, next = fr[n].next,
         NEW t \in Seq(Frames), Len(t) = n, \A j \in 1 .. n - 1 : t[j] = fr[j],
         t[n].kind = fr[n].kind, t[n].var = fr[n].var, t[n].val = fr[n].val,
         t[n].base = fr[n].base, t[n].inner = fr[n].inner, t[n].next = next + 1,
         t[n].phase = fr[n].phase, ~t[n].clear, t[n].flag = fr[n].flag
  PROVE  Good(live, counts, ex, [mo EXCEPT ![next] = NULL], mt, blks, t, NULL) /\ t # <<>>
<1> DEFINE mo2 == [mo EXCEPT ![next] = NULL]
<1>1. /\ StackOK(fr, mo, mt) /\ fr \in Seq(Frames) /\ fr # <<>> /\ mt \in Nat
      /\ mo \in Seq(ObjectOrNull) /\ mt \in 0 .. Len(mo) /\ MortalOK(mo, mt)
  BY GoodFacts DEF Good
<1>2. fr[n] \in Frames /\ FrameOK(fr[n]) /\ ScopeOK(fr[n], mo, mt)
  BY <1>1, StackFacts
<1>3. /\ next \in 1 .. mt /\ fr[n].phase # "run" /\ next > fr[n].base /\ fr[n].base \in Nat
  BY <1>1, <1>2 DEF FrameOK, ScopeOK, Frames
<1>4. /\ mo2 \in Seq(ObjectOrNull) /\ Len(mo2) = Len(mo) /\ mo2 # <<>>
      /\ \A i \in 1 .. Len(mo) : mo2[i] = IF i = next THEN NULL ELSE mo[i]
  BY <1>1, <1>3 DEF ObjectOrNull, MortalOK
<1> HIDE DEF mo2
<1>5. MortalOK(mo2, mt)
  BY <1>1, <1>4 DEF MortalOK
<1>6. n \in 1 .. Len(t) /\ t[n] \in Frames
  OBVIOUS
<1>7. StackOK(fr, mo2, mt)
  <2>1. ASSUME NEW j \in 1 .. Len(fr) PROVE ScopeOK(fr[j], mo2, mt)
    <3>1. ScopeOK(fr[j], mo, mt)
      BY <1>1, StackFacts
    <3> QED
      BY <1>1, <1>4, <3>1 DEF ScopeOK
  <2>2. ASSUME NEW j \in 1 .. Len(fr), fr[j].kind = "native"
        PROVE  \A i \in 1 .. fr[j].base : mo2[i] = mo[i]
    <3>1. fr[j].base < next /\ fr[j].base \in Nat
      <4>1. CASE j = n
        BY <1>3, <4>1
      <4>2. CASE j # n
        <5>1. j \in 1 .. n - 1 /\ n \in 2 .. Len(fr)
          BY <4>2
        <5>2. Link(fr[n - 1], fr[n])
          BY <1>1, <5>1, StackFacts
        <5>3. fr[n].kind = "native"
          BY <5>2 DEF Link
        <5>6. n \in 1 .. Len(fr)
          OBVIOUS
        <5>4. Within(fr[j], fr[n].base)
          BY <1>1, <5>1, <5>3, <5>6 DEF StackOK
        <5>5. fr[j] \in Frames
          BY <1>1, StackFacts
        <5>7. fr[j].base \in Nat
          BY <5>5 DEF Frames
        <5>8. fr[j].base <= fr[n].base
          BY <5>4 DEF Within
        <5> QED
          BY <1>3, <5>7, <5>8
      <4> QED
        BY <4>1, <4>2
    <3> QED
      BY <1>1, <1>3, <1>4, <3>1
  <2> QED
    BY <1>1, <2>1, <2>2, StackMortal
<1>8. StackOK(t, mo2, mt)
  <2>1. FrameOK(t[n])
    BY <1>2, <1>3, <1>6 DEF FrameOK, Frames
  <2>2. ScopeOK(t[n], mo2, mt)
    <3>1. ASSUME NEW i \in 1 .. mt, (IF t[n].phase = "inner" THEN t[n].inner ELSE t[n].base) < i,
                 i < next + 1
          PROVE  mo2[i] = NULL
      <4>1. i \in 1 .. Len(mo) /\ (i = next \/ i < next)
        BY <1>1, <1>3, <3>1
      <4>2. i < next => mo[i] = NULL
        BY <1>2, <1>3, <1>6, <3>1 DEF ScopeOK
      <4> QED
        BY <1>4, <4>1, <4>2
    <3> QED
      BY <1>2, <1>6, <3>1 DEF ScopeOK
  <2>3. ASSUME n > 1 PROVE Link(fr[n - 1], t[n])
    <3>1. n \in 2 .. Len(fr)
      BY <2>3
    <3>2. Link(fr[n - 1], fr[n])
      BY <1>1, <3>1, StackFacts
    <3> QED
      BY <1>6, <3>2 DEF Link
  <2>4. t[n].kind = fr[n].kind /\ t[n].base = fr[n].base /\ t[n].var = fr[n].var /\ n = Len(t)
    BY <1>6
  <2> QED
    BY <1>7, <2>1, <2>2, <2>3, <2>4, StackReplace
<1>9. ASSUME NEW p \in Objects PROVE TempsOf(t, mo2, mt, p) = TempsOf(fr, mo, mt, p)
  <2>1. p # NULL
    BY NullFacts
  <2>2. t # <<>> /\ fr # <<>> /\ ~t[Len(t)].clear
    BY <1>6
  <2>3. \A i \in 1 .. mt : i \in 1 .. Len(mo)
    BY <1>1
  <2> QED
    BY <1>4, <2>1, <2>2, <2>3 DEF TempsOf
<1>10. t[n].kind = fr[n].kind /\ t[n].val = fr[n].val
  BY <1>6
<1>11. Good(live, counts, ex, mo2, mt, blks, t, NULL) /\ t # <<>>
  BY <1>5, <1>8, <1>9, <1>10, SameRefs
<1> QED
  BY <1>11 DEF mo2

(* The end of a nested scope.                                              *)
LEMMA InnerLeft ==
  ASSUME NEW live, NEW counts, NEW ex, NEW mo, NEW mt, NEW blks, NEW fr,
         Good(live, counts, ex, mo, mt, blks, fr, NULL),
         NEW n \in Nat \ {0}, n = Len(fr),
         fr[n].phase = "inner", fr[n].kind \in {"native", "host"}, fr[n].next > mt,
         NEW t \in Seq(Frames), Len(t) = n, \A j \in 1 .. n - 1 : t[j] = fr[j],
         t[n].kind = fr[n].kind, t[n].var = fr[n].var, t[n].val = fr[n].val,
         t[n].base = fr[n].base, t[n].inner = -1, t[n].next = fr[n].next,
         t[n].phase = "run", ~t[n].clear, t[n].flag = fr[n].flag
  PROVE  Good(live, counts, ex, mo, fr[n].inner, blks, t, NULL) /\ t # <<>>
<1> DEFINE mt2 == fr[n].inner
<1>1. /\ StackOK(fr, mo, mt) /\ fr \in Seq(Frames) /\ fr # <<>> /\ mt \in Nat
      /\ mo \in Seq(ObjectOrNull) /\ mt \in 0 .. Len(mo) /\ MortalOK(mo, mt)
  BY GoodFacts DEF Good
<1>2. fr[n] \in Frames /\ FrameOK(fr[n]) /\ ScopeOK(fr[n], mo, mt)
  BY <1>1, StackFacts
<1>3. /\ mt2 \in Nat /\ mt2 <= mt /\ fr[n].base <= mt2 /\ fr[n].base \in Nat /\ fr[n].next \in Nat
      /\ ~fr[n].clear /\ fr[n].kind = "native"
      /\ \A i \in 1 .. mt : mt2 < i => mo[i] = NULL
  BY <1>1, <1>2 DEF FrameOK, ScopeOK, Frames
<1> HIDE DEF mt2
<1>4. n \in 2 .. Len(fr) /\ Link(fr[n - 1], fr[n])
  <2>1. n # 1
    BY <1>1, <1>3 DEF StackOK
  <2>2. n \in 2 .. Len(fr)
    BY <2>1
  <2> QED
    BY <1>1, <2>2, StackFacts
<1>5. MortalOK(mo, mt2)
  <2>1. ASSUME NEW i \in mt2 + 1 .. Len(mo) PROVE mo[i] = NULL
    <3>1. i \in 1 .. mt \/ i \in mt + 1 .. Len(mo)
      BY <1>1, <1>3
    <3> QED
      BY <1>1, <1>3, <3>1 DEF MortalOK
  <2> QED
    BY <1>1, <1>3, <2>1 DEF MortalOK
<1>6. t[n] \in Frames /\ t[n].kind = "native"
  BY <1>3
<1>7. StackOK(t, mo, mt2)
  <2> DEFINE b == SubSeq(fr, 1, n - 1)
  <2>1. b \in Seq(Frames) /\ Len(b) = n - 1 /\ \A j \in 1 .. n - 1 : b[j] = fr[j]
    BY <1>1, PopFacts
  <2> HIDE DEF b
  <2>2. \A j \in 1 .. n - 1 : Within(fr[j], fr[n].base)
    <3>1. n \in 1 .. Len(fr) /\ fr[n].kind = "native"
      BY <1>3
    <3> QED
      BY <1>1, <3>1 DEF StackOK
  <2>3. ASSUME NEW j \in 1 .. n - 1 PROVE Within(fr[j], mt2)
    <3>1. Within(fr[j], fr[n].base)
      BY <2>2
    <3>2. fr[j] \in Frames
      BY <1>1, StackFacts
    <3>3. /\ fr[j].base \in Nat /\ fr[j].inner \in Nat \cup {-1} /\ fr[j].next \in Nat
      BY <3>2 DEF Frames
    <3> QED
      BY <1>3, <3>1, <3>3 DEF Within
  <2>4. StackOK(b, mo, mt2)
    BY <1>1, <1>3, <2>1, <2>3, StackPop
  <2> DEFINE m == n - 1
  <2>5. m \in Nat \ {0} /\ m = Len(b) /\ m + 1 = Len(t) /\ m + 1 = n
    BY <1>4, <2>1
  <2>6. \A j \in 1 .. m : t[j] = b[j]
    BY <2>1
  <2>7. FrameOK(t[n]) /\ ScopeOK(t[n], mo, mt2)
    BY <1>2, <1>3, <1>6 DEF FrameOK, ScopeOK, Frames
  <2>8. Link(b[m], t[n])
    <3>1. b[m] = fr[n - 1]
      BY <2>1, <2>5
    <3> QED
      BY <1>3, <1>4, <1>6, <3>1 DEF Link
  <2>9. \A k \in 1 .. m : Within(b[k], t[n].base)
    BY <1>6, <2>1, <2>2
  <2>10. t[n].var = NULL \/ HeldBelow(t, mo, n, t[n].var)
    <3>1. fr[n].var = NULL \/ HeldBelow(fr, mo, n, fr[n].var)
      BY <1>1, <1>3 DEF StackOK
    <3> QED
      BY <1>6, <3>1 DEF HeldBelow
  <2>11. /\ FrameOK(t[m + 1]) /\ ScopeOK(t[m + 1], mo, mt2) /\ Link(b[m], t[m + 1])
         /\ \A k \in 1 .. m : Within(b[k], t[m + 1].base)
         /\ t[m + 1].var = NULL \/ HeldBelow(t, mo, m + 1, t[m + 1].var)
    BY <2>5, <2>7, <2>8, <2>9, <2>10
  <2> HIDE DEF m
  <2> QED
    BY <2>4, <2>5, <2>6, <2>11, StackPush
<1>8. ASSUME NEW p \in Objects PROVE TempsOf(t, mo, mt2, p) = TempsOf(fr, mo, mt, p)
  <2>1. p # NULL
    BY NullFacts
  <2>2. t # <<>> /\ fr # <<>> /\ ~t[Len(t)].clear /\ ~fr[Len(fr)].clear
    BY <1>3, <1>6
  <2>3. \A i \in 1 .. mt2 : i \in 1 .. mt
    BY <1>1, <1>3
  <2>4. \A i \in 1 .. mt : mo[i] = p => i \in 1 .. mt2
    BY <1>1, <1>3, <2>1
  <2> QED
    BY <2>2, <2>3, <2>4 DEF TempsOf
<1>10. t[n].kind = fr[n].kind /\ t[n].val = fr[n].val
  BY <1>3, <1>6
<1>11. Good(live, counts, ex, mo, mt2, blks, t, NULL) /\ t # <<>>
  BY <1>5, <1>7, <1>8, <1>10, SameRefs
<1> QED
  BY <1>11 DEF mt2


-----------------------------------------------------------------------------
(* The actions.                                                            *)

LEMMA NextGood ==
  ASSUME Good(alive', rc', exc', mortal', mtop', blocks', stack', NULL),
         stack' = <<>> => mtop' = 0
  PROVE  IInv'
BY DEF IInv

LEMMA NowGood ==
  ASSUME IInv
  PROVE  /\ Good(alive, rc, exc, mortal, mtop, blocks, stack, NULL)
         /\ stack \in Seq(Frames) /\ Len(stack) \in Nat
         /\ mtop \in Nat /\ mortal \in Seq(ObjectOrNull) /\ mtop \in 0 .. Len(mortal)
         /\ alive \subseteq Objects /\ rc \in [Objects -> Nat] /\ exc \in Strings \cup {NULL}
         /\ exc \in alive \cup {NULL}
<1>1. Good(alive, rc, exc, mortal, mtop, blocks, stack, NULL)
  BY DEF IInv
<1>2. /\ stack \in Seq(Frames) /\ Len(stack) \in Nat
      /\ mtop \in Nat /\ mortal \in Seq(ObjectOrNull) /\ mtop \in 0 .. Len(mortal)
      /\ alive \subseteq Objects /\ rc \in [Objects -> Nat] /\ exc \in Strings \cup {NULL}
  BY <1>1, GoodFacts
<1>3. exc # NULL => exc \in Objects
  BY <1>2 DEF Objects
<1>4. exc # NULL => exc \in alive
  BY <1>1, <1>3, LiveFacts
<1> QED
  BY <1>1, <1>2, <1>4

LEMMA NowTop ==
  ASSUME IInv, stack # <<>>
  PROVE  /\ Len(stack) \in Nat \ {0} /\ Len(stack) \in 1 .. Len(stack)
         /\ Top = stack[Len(stack)] /\ Top \in Frames /\ FrameOK(Top) /\ ScopeOK(Top, mortal, mtop)
         /\ Top.kind = "vm" => ~Top.clear /\ Top.var \in alive \cup {NULL}
<1>1. /\ Good(alive, rc, exc, mortal, mtop, blocks, stack, NULL)
      /\ StackOK(stack, mortal, mtop)
  BY DEF IInv, Good
<1>2. Len(stack) \in Nat \ {0} /\ Len(stack) \in 1 .. Len(stack)
  BY <1>1, StackFacts
<1>3. Top \in Frames /\ FrameOK(Top) /\ ScopeOK(Top, mortal, mtop)
  BY <1>1, <1>2, StackFacts DEF Top
<1>4. Top.kind = "vm" => ~Top.clear /\ Top.var \in alive \cup {NULL}
  BY <1>1, OldFacts DEF Top
<1> QED
  BY <1>2, <1>3, <1>4 DEF Top

(* What native code may use is allocated, and somebody below counts it.    *)
LEMMA HeldLive ==
  ASSUME IInv, NativeRuns, NEW o \in Held
  PROVE  /\ o \in alive
         /\ \/ \E i \in 1 .. Len(stack) : \/ stack[i].kind = "vm" /\ stack[i].var = o
                                          \/ stack[i].kind = "free" /\ stack[i].val = o
            \/ \E i \in 1 .. mtop : mortal[i] = o
<1> DEFINE n == Len(stack)
<1>1. stack # <<>> /\ Top.kind = "native" /\ Top.phase = "run"
  BY DEF NativeRuns, Running
<1>2. /\ n \in Nat \ {0} /\ n \in 1 .. n /\ Top = stack[n] /\ Top \in Frames
      /\ FrameOK(Top) /\ ScopeOK(Top, mortal, mtop)
  BY <1>1, NowTop
<1>3. /\ Good(alive, rc, exc, mortal, mtop, blocks, stack, NULL) /\ mtop \in Nat
      /\ mortal \in Seq(ObjectOrNull) /\ mtop \in 0 .. Len(mortal)
      /\ StackOK(stack, mortal, mtop) /\ DyingOK(stack, mortal, mtop)
  BY NowGood DEF Good
<1>4. o # NULL /\ NULL \notin Objects
  BY NullFacts DEF Held
<1>5. o = Top.var \/ \E i \in 1 .. mtop : mortal[i] = o
  BY <1>2, <1>3, <1>4 DEF Held, Frames
<1>6. ~Top.clear
  BY <1>1, <1>2 DEF FrameOK
<1>7. ASSUME NEW i \in 1 .. mtop, mortal[i] = o PROVE o \in alive
  <2>1. o \in Objects
    BY <1>3, <1>4, <1>7 DEF ObjectOrNull
  <2>2. i \in TempsOf(stack, mortal, mtop, o)
    BY <1>2, <1>6, <1>7 DEF TempsOf
  <2> QED
    BY <1>3, <2>1, <2>2, LiveFacts
<1>8. CASE \E i \in 1 .. mtop : mortal[i] = o
  BY <1>7, <1>8
<1>9. CASE o = Top.var /\ ~\E i \in 1 .. mtop : mortal[i] = o
  <2>1. HeldBelow(stack, mortal, n, o) /\ o \in Objects
    <3>1. stack[n].var = NULL \/ HeldBelow(stack, mortal, n, stack[n].var)
      BY <1>1, <1>2, <1>3 DEF StackOK
    <3>2. o \in ObjectOrNull
      BY <1>2, <1>9 DEF Frames
    <3> QED
      BY <1>2, <1>4, <1>9, <3>1, <3>2 DEF ObjectOrNull
  <2>2. ASSUME NEW i \in 1 .. stack[n].base PROVE mortal[i] # o
    <3>1. i \in 1 .. mtop
      BY <1>2, <1>3 DEF ScopeOK, Frames
    <3> QED
      BY <1>9, <3>1
  <2>3. PICK i \in 1 .. n - 1 : \/ stack[i].kind = "vm" /\ stack[i].var = o
                                \/ stack[i].kind = "free" /\ stack[i].val = o
    BY <2>1, <2>2 DEF HeldBelow
  <2>4. i \in 1 .. n
    BY <1>2
  <2>5. CASE stack[i].kind = "vm" /\ stack[i].var = o
    <3>1. i \in VarsOf(stack, o)
      BY <1>1, <1>2, <2>3, <2>4, <2>5 DEF VarsOf
    <3> QED
      BY <1>3, <2>1, <2>4, <2>5, <3>1, LiveFacts
  <2>6. CASE stack[i].kind = "free" /\ stack[i].val = o
    <3>1. Dying(stack, mortal, mtop, i)
      BY <1>3, <2>4, <2>6 DEF DyingOK
    <3>2. VarsOf(stack, o) # {} \/ TempsOf(stack, mortal, mtop, o) # {}
      BY <2>6, <3>1 DEF Dying
    <3> QED
      BY <1>3, <2>1, <2>4, <2>6, <3>2, LiveFacts
  <2> QED
    BY <2>3, <2>5, <2>6
<1> QED
  BY <1>5, <1>8, <1>9

(* The running subroutine moves on.                                        *)
LEMMA MoveTop ==
  ASSUME IInv, stack # <<>>,
         NEW g \in Frames, g.kind = Top.kind, g.var = Top.var, g.base = Top.base,
         ~g.clear, ~Top.clear, FrameOK(g), ScopeOK(g, mortal, mtop),
         NEW o \in alive \cup {NULL}, NEW counts2,
         \/ g.val = Top.val /\ counts2 = rc
         \/ /\ g.kind \in {"vm", "native"} /\ Top.val = NULL
            /\ g.val = o /\ counts2 = IncRef(rc, o)
            /\ Result(o)
  PROVE  /\ Good(alive, counts2, exc, mortal, mtop, blocks, WithTop(g), NULL)
         /\ WithTop(g) # <<>>
<1> DEFINE n == Len(stack)  t == WithTop(g)
<1>1. /\ Good(alive, rc, exc, mortal, mtop, blocks, stack, NULL)
      /\ stack \in Seq(Frames) /\ StackOK(stack, mortal, mtop)
  BY NowGood DEF Good
<1>2. n \in Nat \ {0} /\ n \in 1 .. n /\ Top = stack[n]
  BY NowTop
<1>3. /\ t \in Seq(Frames) /\ Len(t) = n /\ t[n] = g
      /\ \A j \in 1 .. n - 1 : t[j] = stack[j]
  BY <1>1, TopFacts DEF WithTop, Below
<1> HIDE DEF t
<1>4. ASSUME g.kind \in {"vm", "native"}, Result(o), o # NULL
      PROVE  n > 1 /\ stack[n - 1].kind = "vm"
  <2>1. n > 1
    <3>1. stack[1].kind = "host"
      BY <1>1 DEF StackOK
    <3> QED
      BY <1>2, <1>4, <3>1
  <2>2. /\ Len(Below) = n - 1 /\ \A j \in 1 .. n - 1 : Below[j] = stack[j]
    BY <1>1, PopFacts DEF Below
  <2>3. Below[n - 1] = stack[n - 1]
    BY <2>1, <2>2
  <2> QED
    BY <1>4, <2>1, <2>2, <2>3 DEF Result
<1>5. /\ t[n].kind = stack[n].kind /\ t[n].var = stack[n].var /\ t[n].base = stack[n].base
      /\ ~t[n].clear /\ ~stack[n].clear /\ FrameOK(t[n]) /\ ScopeOK(t[n], mortal, mtop)
  BY <1>2, <1>3
<1>6. \/ t[n].val = stack[n].val /\ counts2 = rc
      \/ /\ t[n].kind \in {"vm", "native"} /\ stack[n].val = NULL
         /\ t[n].val = o /\ counts2 = IncRef(rc, o)
         /\ o # NULL => n > 1 /\ stack[n - 1].kind = "vm"
  BY <1>2, <1>3, <1>4
<1>7. n = Len(t) /\ t # <<>>
  BY <1>2, <1>3
<1> HIDE DEF n
<1>8. n = Len(stack)
  BY DEF n
<1>9. Good(alive, counts2, exc, mortal, mtop, blocks, t, NULL)
  <2>1. CASE t[n].val = stack[n].val /\ counts2 = rc
    BY <1>1, <1>2, <1>3, <1>5, <1>7, <1>8, <2>1, MoveOn
  <2>2. CASE /\ t[n].kind \in {"vm", "native"} /\ stack[n].val = NULL
             /\ t[n].val = o /\ counts2 = IncRef(rc, o)
             /\ o # NULL => n > 1 /\ stack[n - 1].kind = "vm"
    BY <1>1, <1>2, <1>3, <1>5, <1>7, <1>8, <2>2, MoveOn
  <2> QED
    BY <1>6, <2>1, <2>2
<1> QED
  BY <1>7, <1>9 DEF t


LEMMA AssignNow ==
  ASSUME NEW live, NEW counts, NEW blks, NEW lax,
         Good(live, counts, exc, mortal, mtop, blks, stack, lax),
         stack # <<>>, Top.kind = "vm",
         NEW new \in live \cup {NULL}, lax \in {NULL, new},
         AssignVar(new, counts, live, blks, stack),
         UNCHANGED <<exc, mortal, mtop>>
  PROVE  IInv'
<1>1. stack[Len(stack)].kind = "vm"
  BY DEF Top
<1>2. Good(alive', rc', exc, mortal, mtop, blocks', stack', NULL) /\ stack' # <<>>
  BY <1>1, Assign
<1>3. exc' = exc /\ mortal' = mortal /\ mtop' = mtop
  OBVIOUS
<1> QED
  BY <1>2, <1>3, NextGood

LEMMA SetExcNow ==
  ASSUME NEW live, NEW counts, NEW blks, NEW fr, NEW lax,
         Good(live, counts, exc, mortal, mtop, blks, fr, lax), fr # <<>>,
         NEW new \in Strings \cup {NULL}, new # NULL => new \in live, lax \in {NULL, new},
         SetException(new, counts, live, blks, fr),
         UNCHANGED <<mortal, mtop>>
  PROVE  IInv'
<1>1. Good(alive', rc', exc', mortal, mtop, blocks', stack', NULL) /\ stack' = fr
  BY SetExc
<1>2. mortal' = mortal /\ mtop' = mtop
  OBVIOUS
<1> QED
  BY <1>1, <1>2, NextGood

LEMMA KeepNow ==
  ASSUME NEW counts2, NEW fr,
         Good(alive, counts2, exc, mortal, mtop, blocks, fr, NULL), fr # <<>>,
         rc' = counts2, stack' = fr, UNCHANGED <<alive, exc, mortal, mtop, blocks>>
  PROVE  IInv'
BY NextGood

LEMMA VmNow ==
  ASSUME IInv, Running("vm")
  PROVE  /\ stack # <<>> /\ Top.kind = "vm" /\ Top.phase = "run"
         /\ Top \in Frames /\ FrameOK(Top) /\ ScopeOK(Top, mortal, mtop)
         /\ ~Top.clear /\ Top.val = NULL /\ Top.var \in alive \cup {NULL}
<1>1. stack # <<>> /\ Top.kind = "vm" /\ Top.phase = "run"
  BY DEF Running
<1>2. /\ Top \in Frames /\ FrameOK(Top) /\ ScopeOK(Top, mortal, mtop)
      /\ ~Top.clear /\ Top.var \in alive \cup {NULL}
  BY <1>1, NowTop
<1>3. Top.val = NULL
  BY <1>1, <1>2 DEF FrameOK
<1> QED
  BY <1>1, <1>2, <1>3

LEMMA StepNewObject == ASSUME IInv, NEW o \in Objects, NewObject(o) PROVE IInv'
<1>1. stack # <<>> /\ Top.kind = "vm"
  BY DEF NewObject, VmRuns, Running
<1>2. o \notin alive
  BY DEF NewObject, MayNew
<1>3. Good(alive \cup {o}, [rc EXCEPT ![o] = 0], exc, mortal, mtop, blocks + 1, stack, o)
  BY <1>2, NowGood, Fresh
<1>4. /\ AssignVar(o, [rc EXCEPT ![o] = 0], alive \cup {o}, blocks + 1, stack)
      /\ UNCHANGED <<exc, mortal, mtop>>
  BY DEF NewObject
<1>5. o \in (alive \cup {o}) \cup {NULL} /\ o \in {NULL, o}
  OBVIOUS
<1> QED
  BY <1>1, <1>3, <1>4, <1>5, AssignNow

LEMMA StepMoveUndef == ASSUME IInv, MoveUndef \/ VmLeaveScope PROVE IInv'
<1>1. /\ stack # <<>> /\ Top.kind = "vm"
      /\ AssignVar(NULL, rc, alive, blocks, stack) /\ UNCHANGED <<exc, mortal, mtop>>
  BY DEF MoveUndef, VmLeaveScope, VmRuns, Running, Leaving
<1>2. Good(alive, rc, exc, mortal, mtop, blocks, stack, NULL)
  BY NowGood
<1>3. NULL \in alive \cup {NULL} /\ NULL \in {NULL, NULL}
  OBVIOUS
<1> QED
  BY <1>1, <1>2, <1>3, AssignNow

LEMMA StepGetExceptionVar == ASSUME IInv, GetExceptionVar PROVE IInv'
<1>1. /\ stack # <<>> /\ Top.kind = "vm"
      /\ AssignVar(exc, rc, alive, blocks, stack) /\ UNCHANGED <<exc, mortal, mtop>>
  BY DEF GetExceptionVar, VmRuns, Running
<1>2. Good(alive, rc, exc, mortal, mtop, blocks, stack, NULL) /\ exc \in alive \cup {NULL}
  BY NowGood
<1>3. NULL \in {NULL, exc}
  OBVIOUS
<1> QED
  BY <1>1, <1>2, <1>3, AssignNow

LEMMA StepSetExceptionVar ==
  ASSUME IInv, NEW s \in Strings \cup {NULL}, SetExceptionVar(s) PROVE IInv'
<1>1. /\ Running("vm") /\ (s = NULL \/ s = Top.var)
      /\ SetException(s, rc, alive, blocks, stack) /\ UNCHANGED <<mortal, mtop>>
  BY DEF SetExceptionVar, VmRuns
<1>2. stack # <<>> /\ (s # NULL => s \in alive)
  BY <1>1, VmNow
<1>3. Good(alive, rc, exc, mortal, mtop, blocks, stack, NULL)
  BY NowGood
<1>4. NULL \in {NULL, s}
  OBVIOUS
<1> QED
  BY <1>1, <1>2, <1>3, <1>4, SetExcNow

LEMMA StepNativeSetException ==
  ASSUME IInv, NEW s \in Strings \cup {NULL}, NativeSetException(s) PROVE IInv'
<1>1. /\ NativeRuns /\ (s = NULL \/ s \in Held)
      /\ SetException(s, rc, alive, blocks, stack) /\ UNCHANGED <<mortal, mtop>>
  BY DEF NativeSetException
<1>2. stack # <<>>
  BY <1>1 DEF NativeRuns, Running
<1>3. s # NULL => s \in alive
  BY <1>1, HeldLive
<1>4. Good(alive, rc, exc, mortal, mtop, blocks, stack, NULL)
  BY NowGood
<1>5. NULL \in {NULL, s}
  OBVIOUS
<1> QED
  BY <1>1, <1>2, <1>3, <1>4, <1>5, SetExcNow

LEMMA StepCroak == ASSUME IInv, Croak PROVE IInv'
<1> DEFINE g == [Top EXCEPT !.flag = TRUE]
           s == Top.var
<1>1. /\ Running("vm") /\ s \in Strings
      /\ SetException(s, rc, alive, blocks, WithTop(g)) /\ UNCHANGED <<mortal, mtop>>
  BY DEF Croak, VmRuns
<1>2. /\ stack # <<>> /\ Top.kind = "vm" /\ Top.phase = "run"
      /\ Top \in Frames /\ FrameOK(Top) /\ ScopeOK(Top, mortal, mtop)
      /\ ~Top.clear /\ Top.val = NULL /\ s \in alive \cup {NULL}
  BY <1>1, VmNow
<1>3. /\ g \in Frames /\ g.kind = Top.kind /\ g.phase = Top.phase /\ g.var = Top.var
      /\ g.val = Top.val /\ g.base = Top.base /\ g.inner = Top.inner /\ g.next = Top.next
      /\ g.clear = Top.clear
  BY <1>2 DEF Frames
<1> HIDE DEF g
<1>4. FrameOK(g) /\ ScopeOK(g, mortal, mtop)
  BY <1>2, <1>3 DEF FrameOK, ScopeOK
<1>5. Good(alive, rc, exc, mortal, mtop, blocks, WithTop(g), NULL) /\ WithTop(g) # <<>>
  <2>1. NULL \in alive \cup {NULL} /\ ~g.clear
    BY <1>2, <1>3
  <2> QED
    BY <1>2, <1>3, <1>4, <2>1, MoveTop
<1>6. s \in Strings \cup {NULL} /\ s \in alive /\ NULL \in {NULL, s}
  BY <1>1, <1>2, NullFacts
<1> QED
  BY <1>1, <1>5, <1>6, SetExcNow

LEMMA StepEvalStart == ASSUME IInv, EvalStart PROVE IInv'
<1> DEFINE g == [Top EXCEPT !.eval = TRUE]
<1>1. /\ Running("vm")
      /\ SetException(NULL, rc, alive, blocks, WithTop(g)) /\ UNCHANGED <<mortal, mtop>>
  BY DEF EvalStart, VmRuns
<1>2. /\ stack # <<>> /\ Top.kind = "vm" /\ Top.phase = "run"
      /\ Top \in Frames /\ FrameOK(Top) /\ ScopeOK(Top, mortal, mtop)
      /\ ~Top.clear /\ Top.val = NULL
  BY <1>1, VmNow
<1>3. /\ g \in Frames /\ g.kind = Top.kind /\ g.phase = Top.phase /\ g.var = Top.var
      /\ g.val = Top.val /\ g.base = Top.base /\ g.inner = Top.inner /\ g.next = Top.next
      /\ g.clear = Top.clear /\ g.flag = Top.flag
  BY <1>2 DEF Frames
<1> HIDE DEF g
<1>4. FrameOK(g) /\ ScopeOK(g, mortal, mtop)
  BY <1>2, <1>3 DEF FrameOK, ScopeOK
<1>5. Good(alive, rc, exc, mortal, mtop, blocks, WithTop(g), NULL) /\ WithTop(g) # <<>>
  <2>1. NULL \in alive \cup {NULL} /\ ~g.clear
    BY <1>2, <1>3
  <2> QED
    BY <1>2, <1>3, <1>4, <2>1, MoveTop
<1>6. NULL \in Strings \cup {NULL} /\ NULL \in {NULL, NULL}
  OBVIOUS
<1> QED
  BY <1>1, <1>5, <1>6, SetExcNow

LEMMA StepEvalEnd == ASSUME IInv, EvalEnd PROVE IInv'
<1> DEFINE g == [Top EXCEPT !.eval = FALSE]
<1>1. /\ Running("vm")
      /\ stack' = WithTop(g) /\ UNCHANGED <<alive, rc, exc, mortal, mtop, blocks>>
  BY DEF EvalEnd, VmRuns
<1>2. /\ stack # <<>> /\ Top.kind = "vm" /\ Top.phase = "run"
      /\ Top \in Frames /\ FrameOK(Top) /\ ScopeOK(Top, mortal, mtop)
      /\ ~Top.clear /\ Top.val = NULL
  BY <1>1, VmNow
<1>3. /\ g \in Frames /\ g.kind = Top.kind /\ g.phase = Top.phase /\ g.var = Top.var
      /\ g.val = Top.val /\ g.base = Top.base /\ g.inner = Top.inner /\ g.next = Top.next
      /\ g.clear = Top.clear /\ g.flag = Top.flag
  BY <1>2 DEF Frames
<1> HIDE DEF g
<1>4. FrameOK(g) /\ ScopeOK(g, mortal, mtop)
  BY <1>2, <1>3 DEF FrameOK, ScopeOK
<1>5. Good(alive, rc, exc, mortal, mtop, blocks, WithTop(g), NULL) /\ WithTop(g) # <<>>
  <2>1. NULL \in alive \cup {NULL} /\ ~g.clear
    BY <1>2, <1>3
  <2> QED
    BY <1>2, <1>3, <1>4, <2>1, MoveTop
<1> QED
  BY <1>1, <1>5, KeepNow


LEMMA StepIfException ==
  ASSUME IInv, NEW s \in Strings, IfException(s) PROVE IInv'
<1> DEFINE g == IF Top.eval THEN [Top EXCEPT !.flag = FALSE, !.eval = FALSE]
                ELSE [Top EXCEPT !.phase = "leave"]
<1>1. /\ Running("vm") /\ Top.flag /\ s \notin alive
      /\ SetException(s, [rc EXCEPT ![s] = 0], alive \cup {s}, blocks + 1, WithTop(g))
      /\ UNCHANGED <<mortal, mtop>>
  BY DEF IfException
<1>2. /\ stack # <<>> /\ Top.kind = "vm" /\ Top.phase = "run"
      /\ Top \in Frames /\ FrameOK(Top) /\ ScopeOK(Top, mortal, mtop)
      /\ ~Top.clear /\ Top.val = NULL
  BY <1>1, VmNow
<1>3. /\ g \in Frames /\ g.kind = Top.kind /\ g.phase \in {"run", "leave"} /\ g.var = Top.var
      /\ g.val = Top.val /\ g.base = Top.base /\ g.inner = Top.inner /\ g.next = Top.next
      /\ g.clear = Top.clear
  <2>1. CASE Top.eval
    BY <1>2, <2>1 DEF Frames
  <2>2. CASE ~Top.eval
    BY <1>2, <2>2 DEF Frames
  <2> QED
    BY <2>1, <2>2
<1> HIDE DEF g
<1>4. FrameOK(g) /\ ScopeOK(g, mortal, mtop)
  BY <1>2, <1>3 DEF FrameOK, ScopeOK
<1>5. Good(alive, rc, exc, mortal, mtop, blocks, WithTop(g), NULL) /\ WithTop(g) # <<>>
  <2>1. NULL \in alive \cup {NULL} /\ ~g.clear
    BY <1>2, <1>3
  <2> QED
    BY <1>2, <1>3, <1>4, <2>1, MoveTop
<1>6. s \in Objects
  BY DEF Objects
<1>7. Good(alive \cup {s}, [rc EXCEPT ![s] = 0], exc, mortal, mtop, blocks + 1, WithTop(g), s)
  BY <1>1, <1>5, <1>6, Fresh
<1>8. s \in Strings \cup {NULL} /\ s \in alive \cup {s} /\ s \in {NULL, s}
  OBVIOUS
<1> QED
  BY <1>1, <1>5, <1>7, <1>8, SetExcNow

LEMMA StepReturn == ASSUME IInv, NEW o \in ObjectOrNull, Return(o) PROVE IInv'
<1> DEFINE g == [Top EXCEPT !.phase = "leave", !.val = o]
<1>1. /\ Running("vm") /\ ~Top.flag /\ o \in {NULL, Top.var} /\ Result(o)
      /\ rc' = IncRef(rc, o) /\ stack' = WithTop(g)
      /\ UNCHANGED <<alive, exc, mortal, mtop, blocks>>
  BY DEF Return, VmRuns
<1>2. /\ stack # <<>> /\ Top.kind = "vm" /\ Top.phase = "run"
      /\ Top \in Frames /\ FrameOK(Top) /\ ScopeOK(Top, mortal, mtop)
      /\ ~Top.clear /\ Top.val = NULL /\ o \in alive \cup {NULL}
  BY <1>1, VmNow
<1>3. /\ g \in Frames /\ g.kind = Top.kind /\ g.phase = "leave" /\ g.var = Top.var
      /\ g.val = o /\ g.base = Top.base /\ g.inner = Top.inner /\ g.next = Top.next
      /\ g.clear = Top.clear /\ g.flag = Top.flag
  BY <1>2 DEF Frames
<1> HIDE DEF g
<1>4. FrameOK(g) /\ ScopeOK(g, mortal, mtop)
  BY <1>1, <1>2, <1>3 DEF FrameOK, ScopeOK
<1>5. /\ Good(alive, IncRef(rc, o), exc, mortal, mtop, blocks, WithTop(g), NULL)
      /\ WithTop(g) # <<>>
  <2>1. ~g.clear /\ g.kind \in {"vm", "native"}
    BY <1>2, <1>3
  <2> QED
    BY <1>1, <1>2, <1>3, <1>4, <2>1, MoveTop
<1> QED
  BY <1>1, <1>5, KeepNow

LEMMA NativeNow ==
  ASSUME IInv, NativeRuns
  PROVE  /\ stack # <<>> /\ Top.kind = "native" /\ Top.phase = "run"
         /\ Top \in Frames /\ FrameOK(Top) /\ ScopeOK(Top, mortal, mtop)
         /\ ~Top.clear /\ Top.val = NULL /\ mtop \in Nat
<1>1. stack # <<>> /\ Top.kind = "native" /\ Top.phase = "run"
  BY DEF Running, NativeRuns
<1>2. Top \in Frames /\ FrameOK(Top) /\ ScopeOK(Top, mortal, mtop)
  BY <1>1, NowTop
<1>3. Top.val = NULL /\ ~Top.clear
  BY <1>1, <1>2 DEF FrameOK
<1> QED
  BY <1>1, <1>2, <1>3, NowGood

LEMMA StepNativeEnterScope == ASSUME IInv, NativeEnterScope PROVE IInv'
<1> DEFINE g == [Top EXCEPT !.inner = mtop]
<1>1. /\ NativeRuns
      /\ stack' = WithTop(g) /\ UNCHANGED <<alive, rc, exc, mortal, mtop, blocks>>
  BY DEF NativeEnterScope
<1>2. /\ stack # <<>> /\ Top.kind = "native" /\ Top.phase = "run"
      /\ Top \in Frames /\ FrameOK(Top) /\ ScopeOK(Top, mortal, mtop)
      /\ ~Top.clear /\ Top.val = NULL /\ mtop \in Nat
  BY <1>1, NativeNow
<1>3. /\ g \in Frames /\ g.kind = Top.kind /\ g.phase = Top.phase /\ g.var = Top.var
      /\ g.val = Top.val /\ g.base = Top.base /\ g.inner = mtop /\ g.next = Top.next
      /\ g.clear = Top.clear /\ g.flag = Top.flag
  BY <1>2 DEF Frames
<1> HIDE DEF g
<1>4. FrameOK(g) /\ ScopeOK(g, mortal, mtop)
  BY <1>2, <1>3 DEF FrameOK, ScopeOK, Frames
<1>5. Good(alive, rc, exc, mortal, mtop, blocks, WithTop(g), NULL) /\ WithTop(g) # <<>>
  <2>1. NULL \in alive \cup {NULL} /\ ~g.clear
    BY <1>2, <1>3
  <2> QED
    BY <1>2, <1>3, <1>4, <2>1, MoveTop
<1> QED
  BY <1>1, <1>5, KeepNow

LEMMA StepNativeLeaveScope == ASSUME IInv, NativeLeaveScope PROVE IInv'
<1> DEFINE g == [Top EXCEPT !.phase = "inner", !.next = Top.inner + 1]
<1>1. /\ NativeRuns /\ Top.inner # -1
      /\ stack' = WithTop(g) /\ UNCHANGED <<alive, rc, exc, mortal, mtop, blocks>>
  BY DEF NativeLeaveScope
<1>2. /\ stack # <<>> /\ Top.kind = "native" /\ Top.phase = "run"
      /\ Top \in Frames /\ FrameOK(Top) /\ ScopeOK(Top, mortal, mtop)
      /\ ~Top.clear /\ Top.val = NULL /\ mtop \in Nat
  BY <1>1, NativeNow
<1>3. /\ g \in Frames /\ g.kind = Top.kind /\ g.phase = "inner" /\ g.var = Top.var
      /\ g.val = Top.val /\ g.base = Top.base /\ g.inner = Top.inner /\ g.next = Top.inner + 1
      /\ g.clear = Top.clear /\ g.flag = Top.flag /\ Top.inner \in Nat
  <2>1. Top.inner \in Nat /\ Top.inner + 1 \in Nat
    BY <1>1, <1>2 DEF Frames
  <2> QED
    BY <1>2, <2>1 DEF Frames
<1> HIDE DEF g
<1>4. FrameOK(g) /\ ScopeOK(g, mortal, mtop)
  BY <1>2, <1>3 DEF FrameOK, ScopeOK, Frames
<1>5. Good(alive, rc, exc, mortal, mtop, blocks, WithTop(g), NULL) /\ WithTop(g) # <<>>
  <2>1. NULL \in alive \cup {NULL} /\ ~g.clear
    BY <1>2, <1>3
  <2> QED
    BY <1>2, <1>3, <1>4, <2>1, MoveTop
<1> QED
  BY <1>1, <1>5, KeepNow

LEMMA StepNativeReturn ==
  ASSUME IInv, NEW flag \in BOOLEAN, NEW o \in ObjectOrNull, NativeReturn(flag, o) PROVE IInv'
<1> DEFINE g == [Top EXCEPT !.phase = "leave", !.next = Top.base + 1, !.val = o, !.flag = flag]
<1>1. /\ NativeRuns /\ (flag => o = NULL) /\ o \in Held \cup {NULL} /\ Result(o)
      /\ rc' = IncRef(rc, o) /\ stack' = WithTop(g)
      /\ UNCHANGED <<alive, exc, mortal, mtop, blocks>>
  BY DEF NativeReturn
<1>2. /\ stack # <<>> /\ Top.kind = "native" /\ Top.phase = "run"
      /\ Top \in Frames /\ FrameOK(Top) /\ ScopeOK(Top, mortal, mtop)
      /\ ~Top.clear /\ Top.val = NULL /\ mtop \in Nat
  BY <1>1, NativeNow
<1>3. /\ g \in Frames /\ g.kind = Top.kind /\ g.phase = "leave" /\ g.var = Top.var
      /\ g.val = o /\ g.base = Top.base /\ g.inner = Top.inner /\ g.next = Top.base + 1
      /\ g.clear = Top.clear /\ g.flag = flag /\ Top.base \in Nat
  <2>1. Top.base \in Nat /\ Top.base + 1 \in Nat
    BY <1>2 DEF Frames
  <2> QED
    BY <1>2, <2>1 DEF Frames
<1> HIDE DEF g
<1>4. FrameOK(g) /\ ScopeOK(g, mortal, mtop)
  BY <1>1, <1>2, <1>3 DEF FrameOK, ScopeOK, Frames
<1>5. /\ Good(alive, IncRef(rc, o), exc, mortal, mtop, blocks, WithTop(g), NULL)
      /\ WithTop(g) # <<>>
  <2>1. ~g.clear /\ g.kind \in {"vm", "native"}
    BY <1>2, <1>3
  <2>2. o \in alive \cup {NULL}
    BY <1>1, HeldLive
  <2> QED
    BY <1>1, <1>2, <1>3, <1>4, <2>1, <2>2, MoveTop
<1> QED
  BY <1>1, <1>5, KeepNow

LEMMA EnterNow ==
  ASSUME IInv, stack # <<>>, Top.phase = "run", Top.kind # "write", Top.kind = "vm" => ~Top.flag,
         NEW k \in Kinds, NEW arg \in alive \cup {NULL},
         \/ arg = NULL
         \/ \E i \in 1 .. Len(stack) : \/ stack[i].kind = "vm" /\ stack[i].var = arg
                                       \/ stack[i].kind = "free" /\ stack[i].val = arg
         \/ \E i \in 1 .. mtop : mortal[i] = arg,
         Enter(k, arg), UNCHANGED <<alive, exc, mortal, mtop>>
  PROVE  IInv'
<1> DEFINE n == Len(stack)
<1>1. n \in Nat \ {0} /\ Top = stack[n]
  BY NowTop
<1>2. /\ Good(alive, rc, exc, mortal, mtop, blocks, stack, NULL) /\ mtop \in Nat
      /\ stack \in Seq(Frames)
  BY NowGood
<1>3. arg \in ObjectOrNull
  BY NowGood DEF ObjectOrNull
<1>4. stack[n].phase = "run" /\ stack[n].kind # "write" /\ (stack[n].kind = "vm" => ~stack[n].flag)
  BY <1>1
<1>5. CASE k = "vm"
  <2> DEFINE g == VmFrame(arg)
  <2>1. /\ rc' = IncRef(rc, arg) /\ blocks' = blocks + 1 /\ stack' = Append(stack, g)
    BY <1>5 DEF Enter
  <2>2. /\ g \in Frames /\ g.kind = "vm" /\ g.phase = "run" /\ g.var = arg /\ g.val = NULL
        /\ g.base = 0 /\ g.inner = -1 /\ ~g.clear /\ ~g.flag
    BY <1>3, FrameFields DEF VmFrame, Frames
  <2> HIDE DEF g
  <2>3. Good(alive, IncRef(rc, arg), exc, mortal, mtop, blocks + 1, Append(stack, g), NULL)
    BY <1>1, <1>2, <1>4, <2>2, PushCall
  <2>4. Append(stack, g) # <<>>
    BY <1>2, <2>2, PushFacts
  <2> QED
    BY <2>1, <2>3, <2>4, NextGood
<1>6. CASE k = "native"
  <2> DEFINE g == [ScopeFrame("native") EXCEPT !.var = arg]
  <2>1. /\ rc' = rc /\ blocks' = blocks /\ stack' = Append(stack, g)
    BY <1>6 DEF Enter
  <2>2. /\ g \in Frames /\ g.kind = "native" /\ g.phase = "run" /\ g.var = arg /\ g.val = NULL
        /\ g.base = mtop /\ g.inner = -1 /\ ~g.clear /\ ~g.flag
    BY <1>2, <1>3, FrameFields DEF ScopeFrame, Frames
  <2> HIDE DEF g
  <2>3. Good(alive, rc, exc, mortal, mtop, blocks, Append(stack, g), NULL)
    BY <1>1, <1>2, <1>4, <2>2, PushCall
  <2>4. Append(stack, g) # <<>>
    BY <1>2, <2>2, PushFacts
  <2> QED
    BY <2>1, <2>3, <2>4, NextGood
<1> QED
  BY <1>5, <1>6 DEF Kinds

LEMMA StepCallSub == ASSUME IInv, NEW k \in Kinds, CallSub(k) PROVE IInv'
<1>1. /\ Running("vm") /\ ~Top.flag /\ Enter(k, Top.var) /\ UNCHANGED <<alive, exc, mortal, mtop>>
  BY DEF CallSub, VmRuns
<1>2. stack # <<>> /\ Top.kind = "vm" /\ Top.phase = "run" /\ Top.var \in alive \cup {NULL}
  BY <1>1, VmNow
<1>3. \E i \in 1 .. Len(stack) : stack[i].kind = "vm" /\ stack[i].var = Top.var
  <2>1. Len(stack) \in 1 .. Len(stack) /\ Top = stack[Len(stack)]
    BY <1>2, NowTop
  <2> QED
    BY <1>2, <2>1
<1> QED
  BY <1>1, <1>2, <1>3, EnterNow

LEMMA StepNativeCallSub ==
  ASSUME IInv, NEW k \in Kinds, NEW o \in ObjectOrNull, NativeCallSub(k, o) PROVE IInv'
<1>1. /\ NativeRuns /\ o \in Held \cup {NULL} /\ Enter(k, o) /\ UNCHANGED <<alive, exc, mortal, mtop>>
  BY DEF NativeCallSub
<1>2. stack # <<>> /\ Top.kind = "native" /\ Top.phase = "run"
  BY <1>1, NativeNow
<1>3. CASE o = NULL
  BY <1>1, <1>2, <1>3, EnterNow
<1>4. CASE o \in Held
  <2>1. /\ o \in alive
        /\ \/ \E i \in 1 .. Len(stack) : \/ stack[i].kind = "vm" /\ stack[i].var = o
                                         \/ stack[i].kind = "free" /\ stack[i].val = o
           \/ \E i \in 1 .. mtop : mortal[i] = o
    BY <1>1, <1>4, HeldLive
  <2> QED
    BY <1>1, <1>2, <2>1, EnterNow
<1> QED
  BY <1>1, <1>3, <1>4

LEMMA StepFreeDestroy == ASSUME IInv, NEW k \in Kinds, FreeDestroy(k) PROVE IInv'
<1>1. /\ stack # <<>> /\ Top.kind = "free" /\ Top.phase = "run"
      /\ Enter(k, Top.val) /\ UNCHANGED <<alive, exc, mortal, mtop>>
  BY DEF FreeDestroy, Running
<1> DEFINE n == Len(stack)  o == Top.val
<1>2. n \in 1 .. n /\ Top = stack[n] /\ FrameOK(Top)
  BY <1>1, NowTop
<1>3. /\ Good(alive, rc, exc, mortal, mtop, blocks, stack, NULL) /\ DyingOK(stack, mortal, mtop)
  BY NowGood DEF Good
<1>4. o \in alive
  <2>1. o \in Objects
    BY <1>1, <1>2, NativeAssumption DEF FrameOK, Objects
  <2>2. Dying(stack, mortal, mtop, n)
    BY <1>1, <1>2, <1>3 DEF DyingOK
  <2>3. VarsOf(stack, o) # {} \/ TempsOf(stack, mortal, mtop, o) # {}
    BY <1>2, <2>2 DEF Dying
  <2> QED
    BY <1>3, <2>1, <2>3, LiveFacts
<1>5. \E i \in 1 .. Len(stack) : stack[i].kind = "free" /\ stack[i].val = Top.val
  BY <1>1, <1>2
<1> QED
  BY <1>1, <1>4, <1>5, EnterNow


LEMMA StepAssignWrite == ASSUME IInv, AssignWrite PROVE IInv'
<1>1. /\ stack # <<>> /\ Top.kind = "write"
      /\ stack' = Written(stack)
      /\ UNCHANGED <<alive, rc, exc, mortal, mtop, blocks>>
  BY DEF AssignWrite, Running, Written, Below, Top
<1>2. Len(stack) \in Nat \ {0} /\ stack[Len(stack)].kind = "write"
  BY <1>1, NowTop
<1>3. Good(alive, rc, exc, mortal, mtop, blocks, stack, NULL)
  BY NowGood
<1>4. Good(alive, rc, exc, mortal, mtop, blocks, Written(stack), NULL) /\ Written(stack) # <<>>
  BY <1>2, <1>3, EndWrite
<1> QED
  BY <1>1, <1>4, NextGood

LEMMA StepFreeBlock == ASSUME IInv, FreeBlock PROVE IInv'
<1>1. /\ stack # <<>> /\ Top.kind = "free"
      /\ rc' = DecRef(rc, Top.val) /\ alive' = alive \ {Top.val} /\ blocks' = blocks - 1
      /\ stack' = Below /\ UNCHANGED <<exc, mortal, mtop>>
  BY DEF FreeBlock, Leaving
<1> DEFINE n == Len(stack)
<1>2. n \in Nat \ {0} /\ Top = stack[n]
  BY <1>1, NowTop
<1>3. Good(alive, rc, exc, mortal, mtop, blocks, stack, NULL)
  BY NowGood
<1>4. Below = SubSeq(stack, 1, n - 1) /\ stack[n].kind = "free" /\ Top.val = stack[n].val
  BY <1>1, <1>2 DEF Below
<1>5. /\ Good(alive \ {Top.val}, DecRef(rc, Top.val), exc, mortal, mtop, blocks - 1,
              SubSeq(stack, 1, n - 1), NULL)
      /\ SubSeq(stack, 1, n - 1) # <<>>
  BY <1>2, <1>3, <1>4, FreeDone
<1> QED
  BY <1>1, <1>4, <1>5, NextGood

(* The frame on top is left with the reference it holds.                   *)
LEMMA TopLeft ==
  ASSUME IInv, stack # <<>>, NEW mt2, NEW blks2,
         \/ Top.kind = "vm" /\ Top.var = NULL /\ mt2 = mtop /\ blks2 = blocks - 1
         \/ /\ Top.kind \in {"native", "host"} /\ Top.phase = "leave"
            /\ Top.next > mtop /\ mt2 = Top.base /\ blks2 = blocks
  PROVE  /\ Good(alive, DecRef(rc, Top.val), exc, mortal, mt2, blks2, Below, Top.val)
         /\ Top.val \in alive \cup {NULL}
<1> DEFINE n == Len(stack)
<1>1. n \in Nat \ {0} /\ Top = stack[n] /\ ScopeOK(Top, mortal, mtop) /\ Top \in Frames
  BY NowTop
<1>2. Good(alive, rc, exc, mortal, mtop, blocks, stack, NULL) /\ mtop \in Nat
  BY NowGood
<1>3. Below = SubSeq(stack, 1, n - 1)
  BY DEF Below
<1>4. CASE Top.kind = "vm" /\ Top.var = NULL /\ mt2 = mtop /\ blks2 = blocks - 1
  <2>1. /\ Good(alive, DecRef(rc, stack[n].val), exc, mortal, mt2, blks2, SubSeq(stack, 1, n - 1),
                stack[n].val)
        /\ stack[n].val \in alive \cup {NULL}
    BY <1>1, <1>2, <1>4, PopFrame
  <2> QED
    BY <1>1, <1>3, <2>1
<1>5. CASE /\ Top.kind \in {"native", "host"} /\ Top.phase = "leave"
           /\ Top.next > mtop /\ mt2 = Top.base /\ blks2 = blocks
  <2>1. ~Top.clear
    BY <1>1, <1>2, <1>5 DEF ScopeOK, Frames
  <2>2. /\ Good(alive, DecRef(rc, stack[n].val), exc, mortal, mt2, blks2, SubSeq(stack, 1, n - 1),
                stack[n].val)
        /\ stack[n].val \in alive \cup {NULL}
    BY <1>1, <1>2, <1>5, <2>1, PopFrame
  <2> QED
    BY <1>1, <1>3, <2>2
<1> QED
  BY <1>4, <1>5

(* The frame that a subroutine returns to.                                 *)
LEMMA CallerNow ==
  ASSUME IInv, stack # <<>>, Top.kind \in {"vm", "native"}
  PROVE  /\ Below # <<>>
         /\ Below[Len(Below)].phase = "run" /\ ~Below[Len(Below)].clear
         /\ Below[Len(Below)].kind \in {"vm", "native", "host", "free"}
         /\ Top.val # NULL => Below[Len(Below)].kind = "vm" /\ ~Top.flag
<1> DEFINE n == Len(stack)
<1>1. n \in Nat \ {0} /\ Top = stack[n]
  BY NowTop
<1>2. StackOK(stack, mortal, mtop) /\ stack \in Seq(Frames)
  BY NowGood DEF Good
<1>3. stack[n].kind \in {"vm", "native"}
  BY <1>1
<1>4. /\ n > 1 /\ stack[n - 1].phase = "run" /\ ~stack[n - 1].clear
      /\ stack[n - 1].kind \in {"vm", "native", "host", "free"}
      /\ stack[n].val # NULL => stack[n - 1].kind = "vm" /\ ~stack[n].flag
  BY <1>2, <1>3, CallerFacts
<1>5. Below \in Seq(Frames) /\ Len(Below) = n - 1 /\ \A j \in 1 .. n - 1 : Below[j] = stack[j]
  BY <1>2, PopFacts DEF Below
<1>6. Below[Len(Below)] = stack[n - 1] /\ Below # <<>>
  BY <1>1, <1>4, <1>5
<1> QED
  BY <1>1, <1>4, <1>6

LEMMA StepEndSub == ASSUME IInv, EndSub PROVE IInv'
<1> DEFINE v == Top.val
<1>1. /\ stack # <<>> /\ Top.kind = "vm" /\ Top.var = NULL
      /\ ReturnTo(Top.flag, v, IF Top.flag THEN rc ELSE DecRef(rc, v), alive, blocks - 1)
      /\ UNCHANGED <<exc, mortal, mtop>>
  BY DEF EndSub, Leaving
<1>2. Top \in Frames /\ FrameOK(Top) /\ Top.flag \in BOOLEAN
  BY <1>1, NowTop DEF Frames
<1>3. Top.flag => v = NULL
  BY <1>1, <1>2 DEF FrameOK
<1>4. ReturnTo(Top.flag, v, DecRef(rc, v), alive, blocks - 1)
  <2>1. (IF Top.flag THEN rc ELSE DecRef(rc, v)) = DecRef(rc, v)
    BY <1>3 DEF DecRef
  <2> QED
    BY <1>1, <2>1
<1>5. /\ Good(alive, DecRef(rc, v), exc, mortal, mtop, blocks - 1, Below, v)
      /\ v \in alive \cup {NULL}
  BY <1>1, TopLeft
<1>6. /\ Below # <<>>
      /\ Below[Len(Below)].phase = "run" /\ ~Below[Len(Below)].clear
      /\ Below[Len(Below)].kind \in {"vm", "native", "host", "free"}
      /\ v # NULL => Below[Len(Below)].kind = "vm" /\ ~Top.flag
  BY <1>1, CallerNow
<1>7. v \in {NULL, v} /\ (Below[Len(Below)].kind # "vm" \/ Top.flag => v = NULL)
  BY <1>6
<1> HIDE DEF v
<1>8. Good(alive', rc', exc, mortal, mtop, blocks', stack', NULL) /\ stack' # <<>>
  BY <1>2, <1>4, <1>5, <1>6, <1>7, Returned
<1> QED
  BY <1>1, <1>8, NextGood

(* A message for an exception without one.                                 *)
LEMMA Message ==
  ASSUME NEW live, NEW counts, NEW mo, NEW mt, NEW blks, NEW fr,
         Good(live, counts, NULL, mo, mt, blks, fr, NULL),
         NEW m \in Strings, m \notin live
  PROVE  Good(live \cup {m}, [counts EXCEPT ![m] = 2], m, mo, mt, blks + 1, fr, NULL)
<1> DEFINE counts2 == [counts EXCEPT ![m] = 2]
<1>1. /\ mt \in Nat /\ fr \in Seq(Frames) /\ Len(fr) \in Nat
      /\ live \subseteq Objects /\ counts \in [Objects -> Nat]
      /\ NULL \notin Objects /\ m \in Objects /\ IsFiniteSet(live) /\ Cardinality(live) \in Nat
  BY GoodFacts, NullFacts DEF Objects
<1>2. /\ counts2 \in [Objects -> Nat]
      /\ \A p \in Objects : counts2[p] = IF p = m THEN 2 ELSE counts[p]
  BY <1>1
<1> HIDE DEF counts2
<1>3. Exact(live \cup {m}, counts2, m, mo, mt, fr, NULL)
  <2> SUFFICES ASSUME NEW p \in Objects
               PROVE  /\ Count(fr, mo, mt, m, p) = IF p \in live \cup {m} THEN counts2[p] ELSE 0
                      /\ p \in live \cup {m} /\ counts2[p] = 0 => p = NULL
    BY DEF Exact
  <2>1. /\ Count(fr, mo, mt, NULL, p) = IF p \in live THEN counts[p] ELSE 0
        /\ p \in live /\ counts[p] = 0 => p = NULL
    BY DEF Good, Exact
  <2>2. /\ Cardinality(VarsOf(fr, p)) \in Nat /\ Cardinality(ValsOf(fr, p)) \in Nat
        /\ Cardinality(TempsOf(fr, mo, mt, p)) \in Nat
    BY <1>1, RefsFinite
  <2>3. NULL # p
    BY <1>1
  <2>4. CASE p = m
    <3>1. Count(fr, mo, mt, m, p) = Count(fr, mo, mt, NULL, p) + 2
      BY <2>2, <2>3, <2>4 DEF Count
    <3>2. counts2[p] = 2 /\ Count(fr, mo, mt, NULL, p) = 0
      BY <1>2, <2>1, <2>4
    <3> QED
      BY <2>4, <3>1, <3>2
  <2>5. CASE p # m
    <3>1. Count(fr, mo, mt, m, p) = Count(fr, mo, mt, NULL, p)
      BY <2>2, <2>3, <2>5 DEF Count
    <3>2. counts2[p] = counts[p] /\ (p \in live \cup {m} <=> p \in live)
      BY <1>2, <2>5
    <3> QED
      BY <2>1, <3>1, <3>2
  <2> QED
    BY <2>4, <2>5
<1>4. HeapOK(live \cup {m}, counts2, m)
  BY <1>1, <1>2 DEF HeapOK
<1>5. blks + 1 = Cardinality(live \cup {m}) + 1 + Cardinality(Vms(fr))
  <2>1. Cardinality(live \cup {m}) = Cardinality(live) + 1
    BY <1>1, CardStep
  <2>2. blks = Cardinality(live) + 1 + Cardinality(Vms(fr)) /\ Cardinality(Vms(fr)) \in Nat
    BY <1>1, RefsFinite DEF Good
  <2> QED
    BY <1>1, <2>1, <2>2
<1>6. Good(live \cup {m}, counts2, m, mo, mt, blks + 1, fr, NULL)
  BY <1>3, <1>4, <1>5 DEF Good
<1> QED
  BY <1>6 DEF counts2

LEMMA StepNativeEnd ==
  ASSUME IInv, NEW m \in Strings \cup {NULL}, NativeEnd(m) PROVE IInv'
<1> DEFINE v == Top.val
<1>1. /\ stack # <<>> /\ Top.kind = "native" /\ Top.phase = "leave" /\ Top.next > mtop
      /\ mtop' = Top.base /\ mortal' = mortal
  BY DEF NativeEnd, LeavesScope
<1>2. Top \in Frames /\ FrameOK(Top) /\ Top.flag \in BOOLEAN
  BY <1>1, NowTop DEF Frames
<1>3. Top.flag => v = NULL
  BY <1>1, <1>2 DEF FrameOK
<1>4. /\ Good(alive, DecRef(rc, v), exc, mortal, Top.base, blocks, Below, v)
      /\ v \in alive \cup {NULL}
  BY <1>1, TopLeft
<1>5. /\ Below # <<>>
      /\ Below[Len(Below)].phase = "run" /\ ~Below[Len(Below)].clear
      /\ Below[Len(Below)].kind \in {"vm", "native", "host", "free"}
      /\ v # NULL => Below[Len(Below)].kind = "vm" /\ ~Top.flag
  BY <1>1, CallerNow
<1>6. CASE Top.flag /\ exc = NULL
  <2>1. /\ m \in Strings /\ m \notin alive /\ exc' = m
        /\ ReturnTo(TRUE, NULL, [rc EXCEPT ![m] = 2], alive \cup {m}, blocks + 1)
    BY <1>6 DEF NativeEnd
  <2>2. v = NULL /\ DecRef(rc, v) = rc
    BY <1>3, <1>6 DEF DecRef
  <2>3. Good(alive, rc, NULL, mortal, Top.base, blocks, Below, NULL)
    BY <1>4, <1>6, <2>2
  <2>4. Good(alive \cup {m}, [rc EXCEPT ![m] = 2], m, mortal, Top.base, blocks + 1, Below, NULL)
    BY <2>1, <2>3, Message
  <2>5. TRUE \in BOOLEAN /\ NULL \in (alive \cup {m}) \cup {NULL} /\ NULL \in {NULL, NULL}
    OBVIOUS
  <2>6. Good(alive', rc', m, mortal, Top.base, blocks', stack', NULL) /\ stack' # <<>>
    BY <1>5, <2>1, <2>4, <2>5, Returned
  <2> QED
    BY <1>1, <2>1, <2>6, NextGood
<1>7. CASE ~(Top.flag /\ exc = NULL)
  <2>1. ReturnTo(Top.flag, v, DecRef(rc, v), alive, blocks) /\ exc' = exc
    BY <1>7 DEF NativeEnd
  <2>2. v \in {NULL, v} /\ (Below[Len(Below)].kind # "vm" \/ Top.flag => v = NULL)
    BY <1>5
  <2> HIDE DEF v
  <2>3. Good(alive', rc', exc, mortal, Top.base, blocks', stack', NULL) /\ stack' # <<>>
    BY <1>2, <1>4, <1>5, <2>1, <2>2, Returned
  <2> QED
    BY <1>1, <2>1, <2>3, NextGood
<1> QED
  BY <1>6, <1>7

LEMMA StepHostEnd == ASSUME IInv, HostEnd PROVE IInv'
<1>1. /\ stack # <<>> /\ Top.kind = "host" /\ Top.phase \in {"leave", "inner"} /\ Top.next > mtop
      /\ mtop' = Top.base /\ stack' = Below /\ UNCHANGED <<alive, rc, exc, mortal, blocks>>
  BY DEF HostEnd, LeavesScope
<1> DEFINE n == Len(stack)
<1>2. n \in Nat \ {0} /\ Top = stack[n] /\ FrameOK(Top)
  BY <1>1, NowTop
<1>3. Top.phase = "leave" /\ Top.val = NULL
  BY <1>1, <1>2 DEF FrameOK
<1>4. Good(alive, DecRef(rc, Top.val), exc, mortal, Top.base, blocks, Below, Top.val)
  BY <1>1, <1>3, TopLeft
<1>5. Good(alive, rc, exc, mortal, Top.base, blocks, Below, NULL)
  BY <1>3, <1>4 DEF DecRef
<1>6. Top.base = 0
  <2>1. StackOK(stack, mortal, mtop)
    BY NowGood DEF Good
  <2>2. n = 1
    <3>1. SUFFICES ASSUME n # 1 PROVE FALSE
      OBVIOUS
    <3>2. n \in 2 .. Len(stack)
      BY <1>2, <3>1
    <3>3. Link(stack[n - 1], stack[n])
      BY <2>1, <3>2, StackFacts
    <3>4. stack[n].kind # "host"
      BY <3>3 DEF Link
    <3> QED
      BY <1>1, <1>2, <3>4
  <2> QED
    BY <1>1, <1>2, <2>1, <2>2 DEF StackOK
<1> QED
  BY <1>1, <1>5, <1>6, NextGood


LEMMA LeavesNow ==
  ASSUME IInv, LeavesScope
  PROVE  LET n == Len(stack) IN
         /\ stack # <<>> /\ n \in Nat \ {0} /\ n = Len(stack) /\ Top = stack[n]
         /\ stack[n].kind \in {"native", "host"} /\ stack[n].phase \in {"leave", "inner"}
         /\ Top \in Frames /\ FrameOK(Top) /\ ScopeOK(Top, mortal, mtop)
         /\ Good(alive, rc, exc, mortal, mtop, blocks, stack, NULL)
         /\ stack \in Seq(Frames) /\ mtop \in Nat
<1>1. stack # <<>> /\ Top.kind \in {"native", "host"} /\ Top.phase \in {"leave", "inner"}
  BY DEF LeavesScope
<1>2. /\ Len(stack) \in Nat \ {0} /\ Top = stack[Len(stack)]
      /\ Top \in Frames /\ FrameOK(Top) /\ ScopeOK(Top, mortal, mtop)
  BY <1>1, NowTop
<1>3. /\ Good(alive, rc, exc, mortal, mtop, blocks, stack, NULL)
      /\ stack \in Seq(Frames) /\ mtop \in Nat
  BY NowGood
<1> QED
  BY <1>1, <1>2, <1>3

LEMMA StepLeaveEntry == ASSUME IInv, LeaveEntry PROVE IInv'
<1> DEFINE n == Len(stack)
           next == Top.next
           o == mortal[next]
           g == [Top EXCEPT !.clear = TRUE]
           t == WithTop(g)
<1>1. /\ LeavesScope /\ ~Top.clear /\ next <= mtop
      /\ Drop(o, rc, alive, blocks, t)
      /\ UNCHANGED <<exc, mortal, mtop>>
  BY DEF LeaveEntry
<1>2. /\ stack # <<>> /\ n \in Nat \ {0} /\ n = Len(stack) /\ Top = stack[n]
      /\ stack[n].kind \in {"native", "host"} /\ stack[n].phase \in {"leave", "inner"}
      /\ Good(alive, rc, exc, mortal, mtop, blocks, stack, NULL)
      /\ Top \in Frames /\ stack \in Seq(Frames)
      /\ rc \in [Objects -> Nat] /\ NULL \notin Objects /\ alive \subseteq Objects
  BY <1>1, LeavesNow, NowGood, NullFacts
<1>3. /\ ~stack[n].clear /\ stack[n].next <= mtop /\ next = stack[n].next
      /\ g \in Frames /\ g.kind = Top.kind /\ g.var = Top.var /\ g.val = Top.val
      /\ g.base = Top.base /\ g.inner = Top.inner /\ g.next = Top.next
      /\ g.phase = Top.phase /\ g.clear = TRUE /\ g.flag = Top.flag
  BY <1>1, <1>2 DEF Frames
<1> HIDE DEF g
<1>6. t \in Seq(Frames) /\ Len(t) = n /\ t[n] = g /\ \A j \in 1 .. n - 1 : t[j] = stack[j]
  BY <1>2, <1>3, TopFacts DEF WithTop, Below
<1>7. /\ t[n].kind = stack[n].kind /\ t[n].var = stack[n].var /\ t[n].val = stack[n].val
      /\ t[n].base = stack[n].base /\ t[n].inner = stack[n].inner /\ t[n].next = next
      /\ t[n].phase = stack[n].phase /\ t[n].clear /\ t[n].flag = stack[n].flag
  BY <1>2, <1>3, <1>6
<1> HIDE DEF next, o, t, n
<1>4. o = mortal[next] /\ n = Len(stack)
  BY DEF o, n
<1>5. /\ next \in 1 .. mtop /\ o \in alive \cup {NULL}
      /\ o # NULL => rc[o] > 0
      /\ StackOK(t, mortal, mtop)
  BY <1>2, <1>3, <1>4, <1>6, <1>7, EntryFacts
<1>8. CASE o \in Destructible /\ rc[o] = 1
  <2> DEFINE h == [Frame("free") EXCEPT !.val = o]
             u == Append(t, h)
  <2>1. o # NULL /\ o \in Objects /\ o \in alive
    BY <1>2, <1>5, <1>8, NullFacts
  <2>2. rc' = rc /\ alive' = alive /\ blocks' = blocks /\ stack' = u
    BY <1>1, <1>8, <2>1 DEF Drop
  <2>3. /\ h \in Frames /\ h.kind = "free" /\ h.phase = "run" /\ h.var = NULL /\ h.val = o
        /\ h.base = 0 /\ h.inner = -1 /\ ~h.clear
    BY <2>1, FrameFields DEF Frames, ObjectOrNull
  <2> HIDE DEF h
  <2>4. u \in Seq(Frames) /\ Len(u) = n + 1 /\ (\A j \in 1 .. n : u[j] = t[j]) /\ u[n + 1] = h
    BY <1>6, <2>3, PushFacts
  <2>5. /\ u[n + 1].kind = "free" /\ u[n + 1].phase = "run" /\ u[n + 1].var = NULL
        /\ u[n + 1].val = o /\ u[n + 1].base = 0 /\ u[n + 1].inner = -1 /\ ~u[n + 1].clear
    BY <2>3, <2>4
  <2> HIDE DEF u
  <2>6. Good(alive, rc, exc, mortal, mtop, blocks, u, NULL) /\ u # <<>>
    <3>1. /\ Good(alive, rc, exc, mortal, mtop, blocks, stack, NULL)
          /\ n \in Nat \ {0} /\ n = Len(stack)
          /\ stack[n].kind \in {"native", "host"} /\ ~stack[n].clear
          /\ next \in 1 .. mtop /\ next = stack[n].next /\ o = mortal[next]
      BY <1>2, <1>3, <1>4, <1>5
    <3>2. /\ t \in Seq(Frames) /\ Len(t) = n /\ \A j \in 1 .. n - 1 : t[j] = stack[j]
          /\ t[n].kind = stack[n].kind /\ t[n].val = stack[n].val /\ t[n].clear /\ t[n].next = next
          /\ StackOK(t, mortal, mtop)
      BY <1>5, <1>6, <1>7
    <3>3. Good(alive, rc, exc, mortal, mtop, blocks, u, NULL)
      BY <1>8, <2>1, <2>4, <2>5, <3>1, <3>2, EntryWaits, SMTT(60)
    <3>4. u # <<>>
      BY <2>4, <3>1
    <3> QED
      BY <3>3, <3>4
  <2> QED
    BY <1>1, <2>2, <2>6, NextGood
<1>9. CASE ~(o \in Destructible /\ rc[o] = 1)
  <2>1. Good(alive', rc', exc, mortal, mtop, blocks', stack', NULL) /\ stack' # <<>>
    <3>1. /\ Good(alive, rc, exc, mortal, mtop, blocks, stack, NULL)
          /\ n \in Nat \ {0} /\ n = Len(stack)
          /\ stack[n].kind \in {"native", "host"} /\ ~stack[n].clear
          /\ stack[n].phase \in {"leave", "inner"} /\ stack[n].next <= mtop
          /\ next \in 1 .. mtop /\ next = stack[n].next /\ o = mortal[next]
      BY <1>2, <1>3, <1>4, <1>5
    <3>2. /\ t \in Seq(Frames) /\ Len(t) = n /\ \A j \in 1 .. n - 1 : t[j] = stack[j]
          /\ t[n].kind = stack[n].kind /\ t[n].val = stack[n].val /\ t[n].clear /\ t[n].next = next
          /\ StackOK(t, mortal, mtop)
      BY <1>5, <1>6, <1>7
    <3>3. o \in alive \cup {NULL} /\ Drop(o, rc, alive, blocks, t)
      BY <1>1, <1>5
    <3> QED
      BY <1>9, <3>1, <3>2, <3>3, EntryReleased
  <2> QED
    BY <1>1, <2>1, NextGood
<1> QED
  BY <1>8, <1>9

LEMMA StepClearEntry == ASSUME IInv, ClearEntry PROVE IInv'
<1> DEFINE n == Len(stack)
           next == Top.next
           g == [Top EXCEPT !.next = next + 1, !.clear = FALSE]
           t == WithTop(g)
<1>1. /\ LeavesScope /\ Top.clear
      /\ mortal' = [mortal EXCEPT ![next] = NULL] /\ stack' = t
      /\ UNCHANGED <<alive, rc, exc, mtop, blocks>>
  BY DEF ClearEntry
<1>2. /\ stack # <<>> /\ n \in Nat \ {0} /\ n = Len(stack) /\ Top = stack[n]
      /\ stack[n].kind \in {"native", "host"} /\ Top \in Frames
      /\ Good(alive, rc, exc, mortal, mtop, blocks, stack, NULL) /\ stack \in Seq(Frames)
  BY <1>1, LeavesNow
<1>3. /\ g \in Frames
      /\ g.kind = Top.kind /\ g.var = Top.var /\ g.val = Top.val
      /\ g.base = Top.base /\ g.inner = Top.inner /\ g.next = next + 1
      /\ g.phase = Top.phase /\ g.clear = FALSE /\ g.flag = Top.flag
  <2>1. next \in Nat /\ next + 1 \in Nat
    BY <1>2 DEF Frames
  <2> QED
    BY <1>2, <2>1 DEF Frames
<1> HIDE DEF g
<1>4. t \in Seq(Frames) /\ Len(t) = n /\ t[n] = g /\ \A j \in 1 .. n - 1 : t[j] = stack[j]
  BY <1>2, <1>3, TopFacts DEF WithTop, Below
<1>5. /\ stack[n].clear /\ next = stack[n].next
      /\ t[n].kind = stack[n].kind /\ t[n].var = stack[n].var /\ t[n].val = stack[n].val
      /\ t[n].base = stack[n].base /\ t[n].inner = stack[n].inner /\ t[n].next = next + 1
      /\ t[n].phase = stack[n].phase /\ ~t[n].clear /\ t[n].flag = stack[n].flag
  BY <1>1, <1>2, <1>3, <1>4
<1> HIDE DEF next, t, n
<1>6. n = Len(stack)
  BY DEF n
<1>7. Good(alive, rc, exc, [mortal EXCEPT ![next] = NULL], mtop, blocks, t, NULL) /\ t # <<>>
  BY <1>2, <1>4, <1>5, <1>6, EntryCleared
<1> QED
  BY <1>1, <1>7, NextGood

LEMMA StepLeaveInner == ASSUME IInv, LeaveInner PROVE IInv'
<1> DEFINE n == Len(stack)
           g == [Top EXCEPT !.phase = "run", !.inner = -1]
           t == WithTop(g)
<1>1. /\ LeavesScope /\ Top.phase = "inner" /\ Top.next > mtop
      /\ mtop' = Top.inner /\ stack' = t
      /\ UNCHANGED <<alive, rc, exc, mortal, blocks>>
  BY DEF LeaveInner
<1>2. /\ stack # <<>> /\ n \in Nat \ {0} /\ n = Len(stack) /\ Top = stack[n]
      /\ stack[n].kind \in {"native", "host"} /\ Top \in Frames
      /\ ScopeOK(Top, mortal, mtop) /\ mtop \in Nat
      /\ Good(alive, rc, exc, mortal, mtop, blocks, stack, NULL) /\ stack \in Seq(Frames)
  BY <1>1, LeavesNow
<1>3. /\ g \in Frames
      /\ g.kind = Top.kind /\ g.var = Top.var /\ g.val = Top.val
      /\ g.base = Top.base /\ g.inner = -1 /\ g.next = Top.next
      /\ g.phase = "run" /\ g.clear = Top.clear /\ g.flag = Top.flag
  BY <1>2 DEF Frames
<1>8. ~Top.clear
  BY <1>1, <1>2 DEF ScopeOK, Frames
<1> HIDE DEF g
<1>4. t \in Seq(Frames) /\ Len(t) = n /\ t[n] = g /\ \A j \in 1 .. n - 1 : t[j] = stack[j]
  BY <1>2, <1>3, TopFacts DEF WithTop, Below
<1>5. /\ stack[n].phase = "inner" /\ stack[n].next > mtop
      /\ t[n].kind = stack[n].kind /\ t[n].var = stack[n].var /\ t[n].val = stack[n].val
      /\ t[n].base = stack[n].base /\ t[n].inner = -1 /\ t[n].next = stack[n].next
      /\ t[n].phase = "run" /\ ~t[n].clear /\ t[n].flag = stack[n].flag
  BY <1>1, <1>2, <1>3, <1>4, <1>8
<1> HIDE DEF t, n
<1>6. n = Len(stack)
  BY DEF n
<1>7. Good(alive, rc, exc, mortal, stack[n].inner, blocks, t, NULL) /\ t # <<>>
  BY <1>2, <1>4, <1>5, <1>6, InnerLeft
<1> QED
  BY <1>1, <1>2, <1>7, NextGood


(* An empty stack with nothing on the mortal stack: only the exception     *)
(* variable refers to objects.                                             *)
LEMMA HostPush ==
  ASSUME NEW live, NEW counts, NEW ex, NEW mo, NEW mt, NEW blks,
         Good(live, counts, ex, mo, mt, blks, <<>>, NULL),
         NEW g \in Frames, g.kind = "host", g.phase = "run", g.var = NULL, g.val = NULL,
         g.base = 0, g.inner = -1, ~g.clear, ~g.flag
  PROVE  Good(live, counts, ex, mo, mt, blks, <<g>>, NULL)
<1> DEFINE t == <<g>>
<1>1. t \in Seq(Frames) /\ Len(t) = 1 /\ t[1] = g /\ t # <<>>
  OBVIOUS
<1>2. MortalOK(mo, mt) /\ mt \in Nat
  BY GoodFacts DEF Good
<1> HIDE DEF t
<1>3. StackOK(t, mo, mt)
  <2>1. FrameOK(g) /\ ScopeOK(g, mo, mt)
    BY <1>2 DEF FrameOK, ScopeOK
  <2>2. \A j \in 1 .. Len(t) : j = 1
    BY <1>1
  <2>3. \A j \in 1 .. Len(t) - 1 : FALSE
    BY <1>1
  <2> QED
    BY <1>1, <2>1, <2>2, <2>3 DEF StackOK
<1>4. ASSUME NEW p \in Objects
      PROVE  /\ VarsOf(t, p) = VarsOf(<<>>, p)
             /\ ValsOf(t, p) = ValsOf(<<>>, p)
             /\ TempsOf(t, mo, mt, p) = TempsOf(<<>>, mo, mt, p)
  <2>1. \A j \in 1 .. Len(t) : t[j] = g
    BY <1>1
  <2>2. VarsOf(t, p) = {} /\ ValsOf(t, p) = {}
    BY <2>1 DEF VarsOf, ValsOf
  <2>3. VarsOf(<<>>, p) = {} /\ ValsOf(<<>>, p) = {}
    BY DEF VarsOf, ValsOf
  <2>4. ~t[Len(t)].clear
    BY <1>1
  <2>5. TempsOf(t, mo, mt, p) = TempsOf(<<>>, mo, mt, p)
    BY <2>4 DEF TempsOf
  <2> QED
    BY <2>2, <2>3, <2>5
<1>5. Exact(live, counts, ex, mo, mt, t, NULL)
  <2>1. \A p \in Objects : Count(t, mo, mt, ex, p) = Count(<<>>, mo, mt, ex, p)
    BY <1>4, CountSame
  <2>2. Exact(live, counts, ex, mo, mt, <<>>, NULL)
    BY DEF Good
  <2> QED
    BY <2>1, <2>2, ExactSame
<1>6. DyingOK(t, mo, mt)
  BY <1>1 DEF DyingOK
<1>7. Vms(t) = Vms(<<>>)
  <2>1. Vms(t) = {}
    BY <1>1 DEF Vms
  <2>2. Vms(<<>>) = {}
    BY DEF Vms
  <2> QED
    BY <2>1, <2>2
<1>8. Good(live, counts, ex, mo, mt, blks, t, NULL)
  <2>1. HeapOK(live, counts, ex) /\ blks = Cardinality(live) + 1 + Cardinality(Vms(t))
    BY <1>7 DEF Good
  <2> QED
    BY <1>2, <1>3, <1>5, <1>6, <2>1 DEF Good
<1> QED
  BY <1>8 DEF t

LEMMA PushMortalFacts ==
  ASSUME IInv, NEW o, NEW counts, NEW blks \in Int, PushMortal(o, counts, blks)
  PROVE  /\ mortal' = WithTemp(mortal, mtop, o) /\ mtop' = mtop + 1
         /\ rc' = IncRef(counts, o) /\ blocks' = blks
<1>1. blocks' = blks
  BY DEF PushMortal
<1>2. mortal' = WithTemp(mortal, mtop, o)
  BY DEF PushMortal, WithTemp, Room
<1> QED
  BY <1>1, <1>2 DEF PushMortal

LEMMA BlocksNat == ASSUME IInv PROVE blocks \in Nat
<1>1. /\ Good(alive, rc, exc, mortal, mtop, blocks, stack, NULL)
      /\ mtop \in Nat /\ Len(stack) \in Nat
  BY NowGood
<1>2. Cardinality(alive) \in Nat /\ Cardinality(Vms(stack)) \in Nat
  BY <1>1, GoodFacts, RefsFinite
<1>3. blocks = Cardinality(alive) + 1 + Cardinality(Vms(stack))
  BY <1>1 DEF Good
<1> QED
  BY <1>2, <1>3

LEMMA StepNativeNew == ASSUME IInv, NEW o \in Objects, NativeNew(o) PROVE IInv'
<1> DEFINE counts == [rc EXCEPT ![o] = 0]
<1>1. /\ NativeRuns /\ o \notin alive /\ alive' = alive \cup {o}
      /\ PushMortal(o, counts, blocks + 1) /\ UNCHANGED <<exc, stack>>
  BY DEF NativeNew, MayNew
<1>2. /\ stack # <<>> /\ stack[Len(stack)].kind = "native" /\ stack[Len(stack)].phase = "run"
  BY <1>1, NativeNow DEF Top
<1>3. counts[o] = 0
  BY NowGood
<1>4. Good(alive \cup {o}, counts, exc, mortal, mtop, blocks + 1, stack, o)
  BY <1>1, NowGood, Fresh
<1> HIDE DEF counts
<1>5. /\ mortal' = WithTemp(mortal, mtop, o) /\ mtop' = mtop + 1
      /\ rc' = IncRef(counts, o) /\ blocks' = blocks + 1
  BY <1>1, BlocksNat, PushMortalFacts
<1>6. o \in alive \cup {o} /\ o \in {NULL, o}
  OBVIOUS
<1>7. Good(alive \cup {o}, IncRef(counts, o), exc, WithTemp(mortal, mtop, o), mtop + 1, blocks + 1,
           stack, NULL)
  BY <1>2, <1>3, <1>4, <1>6, PushTemp
<1> QED
  BY <1>1, <1>2, <1>5, <1>7, NextGood

LEMMA HostNow ==
  ASSUME IInv, stack = <<>>
  PROVE  /\ ScopeFrame("host") \in Frames /\ ScopeFrame("host").kind = "host"
         /\ ScopeFrame("host").phase = "run" /\ ScopeFrame("host").var = NULL
         /\ ScopeFrame("host").val = NULL /\ ScopeFrame("host").base = 0
         /\ ScopeFrame("host").inner = -1 /\ ~ScopeFrame("host").clear
         /\ ~ScopeFrame("host").flag /\ mtop = 0
<1>1. mtop = 0
  BY DEF IInv
<1> QED
  BY <1>1, FrameFields DEF ScopeFrame, Frames

LEMMA VmFields ==
  ASSUME NEW arg \in ObjectOrNull
  PROVE  /\ VmFrame(arg) \in Frames /\ VmFrame(arg).kind = "vm" /\ VmFrame(arg).phase = "run"
         /\ VmFrame(arg).var = arg /\ VmFrame(arg).val = NULL /\ VmFrame(arg).base = 0
         /\ VmFrame(arg).inner = -1 /\ ~VmFrame(arg).clear /\ ~VmFrame(arg).flag
BY FrameFields DEF VmFrame, Frames

(* The host calls a subroutine of the virtual machine.                     *)
LEMMA HostCalls ==
  ASSUME NEW live, NEW counts, NEW ex, NEW mo, NEW mt, NEW blks,
         Good(live, counts, ex, mo, mt, blks, <<>>, NULL),
         IInv, stack = <<>>, NEW arg \in live \cup {NULL}, arg \in ObjectOrNull
  PROVE  /\ Good(live, IncRef(counts, arg), ex, mo, mt, blks + 1,
                 <<ScopeFrame("host"), VmFrame(arg)>>, NULL)
         /\ <<ScopeFrame("host"), VmFrame(arg)>> # <<>>
<1> DEFINE g == ScopeFrame("host")  h == VmFrame(arg)  s == <<g>>
<1>1. /\ g \in Frames /\ g.kind = "host" /\ g.phase = "run" /\ g.var = NULL /\ g.val = NULL
      /\ g.base = 0 /\ g.inner = -1 /\ ~g.clear /\ ~g.flag
  BY HostNow
<1>2. /\ h \in Frames /\ h.kind = "vm" /\ h.phase = "run" /\ h.var = arg /\ h.val = NULL
      /\ h.base = 0 /\ h.inner = -1 /\ ~h.clear /\ ~h.flag
  BY VmFields
<1> HIDE DEF g, h
<1>3. Good(live, counts, ex, mo, mt, blks, s, NULL)
  BY <1>1, HostPush
<1>4. 1 = Len(s) /\ s[1] = g /\ 1 \in Nat \ {0}
  OBVIOUS
<1>5. s[1].phase = "run" /\ s[1].kind # "write" /\ (s[1].kind = "vm" => ~s[1].flag)
  BY <1>1, <1>4
<1>7. Append(s, h) = <<g, h>> /\ <<g, h>> # <<>>
  <2> DEFINE t == <<g, h>>
  <2>1. t \in Seq(Frames) /\ Len(t) = 2 /\ t[1] = g /\ t[2] = h /\ t # <<>>
    BY <1>1, <1>2
  <2>2. s \in Seq(Frames) /\ Len(s) = 1
    BY <1>1
  <2> HIDE DEF t, s
  <2>3. /\ Append(s, h) \in Seq(Frames) /\ Len(Append(s, h)) = 2
        /\ Append(s, h)[1] = g /\ Append(s, h)[2] = h
    <3>1. /\ Append(s, h) \in Seq(Frames) /\ Len(Append(s, h)) = Len(s) + 1
          /\ \A j \in 1 .. Len(s) : Append(s, h)[j] = s[j]
          /\ Append(s, h)[Len(s) + 1] = h
      BY <1>2, <2>2, PushFacts
    <3> QED
      BY <1>4, <2>2, <3>1
  <2>4. \A i \in 1 .. 2 : Append(s, h)[i] = t[i]
    BY <2>1, <2>3
  <2>5. Append(s, h) = t
    BY <2>1, <2>3, <2>4, SeqEqual
  <2> QED
    BY <2>1, <2>5 DEF t
<1> HIDE DEF s
<1>6. Good(live, IncRef(counts, arg), ex, mo, mt, blks + 1, Append(s, h), NULL)
  BY <1>2, <1>3, <1>4, <1>5, PushCall
<1> QED
  BY <1>6, <1>7 DEF g, h

LEMMA StepEntryPoint == ASSUME IInv, NEW o \in Instances, EntryPoint(o) PROVE IInv'
<1> DEFINE counts == [rc EXCEPT ![o] = 0]
           once == IncRef(counts, o)
           mo == WithTemp(mortal, mtop, o)
           s == <<ScopeFrame("host"), VmFrame(o)>>
<1>1. /\ stack = <<>> /\ o \notin alive /\ alive' = alive \cup {o}
      /\ PushMortal(o, once, blocks + 2) /\ stack' = s /\ exc' = exc
  BY DEF EntryPoint
<1>2. o \in Objects /\ o \in ObjectOrNull
  BY DEF Objects, ObjectOrNull
<1>3. counts[o] = 0
  BY <1>2, NowGood
<1>4. Good(alive \cup {o}, counts, exc, mortal, mtop, blocks + 1, stack, o)
  BY <1>1, <1>2, NowGood, Fresh
<1> HIDE DEF counts
<1>5. blocks \in Nat /\ blocks + 2 \in Int /\ (blocks + 1) + 1 = blocks + 2
  BY BlocksNat
<1>6. mortal' = mo /\ mtop' = mtop + 1 /\ rc' = IncRef(once, o) /\ blocks' = blocks + 2
  BY <1>1, <1>5, PushMortalFacts
<1>7. o \in alive \cup {o} /\ o \in {NULL, o}
  OBVIOUS
<1>8. Good(alive \cup {o}, once, exc, mo, mtop + 1, blocks + 1, stack, NULL)
  BY <1>1, <1>3, <1>4, <1>7, PushTemp
<1>9. Good(alive \cup {o}, once, exc, mo, mtop + 1, blocks + 1, <<>>, NULL)
  BY <1>1, <1>8
<1> HIDE DEF once, mo
<1>10. o \in (alive \cup {o}) \cup {NULL}
  OBVIOUS
<1>11. Good(alive \cup {o}, IncRef(once, o), exc, mo, mtop + 1, (blocks + 1) + 1, s, NULL) /\ s # <<>>
  BY <1>1, <1>2, <1>9, <1>10, HostCalls
<1> HIDE DEF s
<1> QED
  BY <1>1, <1>5, <1>6, <1>11, NextGood

LEMMA StepCallBeginBlocks == ASSUME IInv, CallBeginBlocks PROVE IInv'
<1> DEFINE s == <<ScopeFrame("host"), VmFrame(NULL)>>
<1>1. /\ stack = <<>> /\ stack' = s /\ blocks' = blocks + 1
      /\ UNCHANGED <<alive, rc, exc, mortal, mtop>>
  BY DEF CallBeginBlocks
<1>2. Good(alive, rc, exc, mortal, mtop, blocks, <<>>, NULL)
  BY <1>1, NowGood
<1>3. NULL \in alive \cup {NULL} /\ NULL \in ObjectOrNull /\ IncRef(rc, NULL) = rc
  BY DEF ObjectOrNull, IncRef
<1>4. Good(alive, IncRef(rc, NULL), exc, mortal, mtop, blocks + 1, s, NULL) /\ s # <<>>
  BY <1>1, <1>2, <1>3, HostCalls
<1> HIDE DEF s
<1> QED
  BY <1>1, <1>3, <1>4, NextGood

LEMMA StepFreeEnv == ASSUME IInv, FreeEnv PROVE IInv'
<1> DEFINE mo == [i \in 1 .. InitCapacity |-> NULL]
<1>1. /\ stack = <<>> /\ mortal' = mo /\ mtop' = 0
      /\ SetException(NULL, rc, alive, blocks - 1 + 1, stack)
  BY DEF FreeEnv
<1>2. blocks - 1 + 1 = blocks
  BY BlocksNat
<1>3. MortalOK(mo, 0)
  <2>1. InitCapacity \in Nat \ {0}
    BY NativeAssumption
  <2>2. mo \in Seq(ObjectOrNull) /\ Len(mo) = InitCapacity /\ mo # <<>>
    BY <2>1 DEF ObjectOrNull
  <2>3. \A i \in 0 + 1 .. Len(mo) : mo[i] = NULL
    BY <2>1, <2>2
  <2> QED
    BY <2>1, <2>2, <2>3 DEF MortalOK
<1> HIDE DEF mo
<1>4. Good(alive, rc, exc, mo, 0, blocks, stack, NULL)
  <2>1. Good(alive, rc, exc, mortal, 0, blocks, stack, NULL)
    BY <1>1, NowGood DEF IInv
  <2>2. ASSUME NEW p \in Objects
        PROVE  Count(stack, mo, 0, exc, p) = Count(stack, mortal, 0, exc, p)
    <3>1. TempsOf(stack, mo, 0, p) = TempsOf(stack, mortal, 0, p)
      BY DEF TempsOf
    <3> QED
      BY <3>1, CountSame
  <2>3. Exact(alive, rc, exc, mo, 0, stack, NULL)
    <3>1. Exact(alive, rc, exc, mortal, 0, stack, NULL)
      BY <2>1 DEF Good
    <3> QED
      BY <2>2, <3>1, ExactSame
  <2>4. StackOK(stack, mo, 0) /\ DyingOK(stack, mo, 0)
    BY <1>1 DEF StackOK, DyingOK
  <2> QED
    BY <1>3, <2>1, <2>3, <2>4 DEF Good
<1>5. SetException(NULL, rc, alive, blocks, stack)
  BY <1>1, <1>2
<1>6. NULL \in Strings \cup {NULL} /\ NULL \in {NULL, NULL}
  OBVIOUS
<1>7. Good(alive', rc', exc', mo, 0, blocks', stack', NULL)
  BY <1>4, <1>5, <1>6, SetExc
<1> QED
  BY <1>1, <1>7, NextGood


-----------------------------------------------------------------------------
LEMMA InitIInv == Init => IInv
<1> SUFFICES ASSUME Init PROVE IInv
  OBVIOUS
<1>1. /\ alive = {} /\ rc = [o \in Objects |-> 0] /\ exc = NULL
      /\ mortal = [i \in 1 .. InitCapacity |-> NULL] /\ mtop = 0 /\ blocks = 1 /\ stack = <<>>
  BY DEF Init
<1>2. MortalOK(mortal, mtop)
  <2>1. InitCapacity \in Nat \ {0}
    BY NativeAssumption
  <2>2. mortal \in Seq(ObjectOrNull) /\ Len(mortal) = InitCapacity /\ mortal # <<>>
    BY <1>1, <2>1 DEF ObjectOrNull
  <2>3. \A i \in mtop + 1 .. Len(mortal) : mortal[i] = NULL
    BY <1>1, <2>1, <2>2
  <2> QED
    BY <1>1, <2>1, <2>2, <2>3 DEF MortalOK
<1>3. HeapOK(alive, rc, exc)
  BY <1>1 DEF HeapOK
<1>4. StackOK(stack, mortal, mtop) /\ DyingOK(stack, mortal, mtop)
  BY <1>1 DEF StackOK, DyingOK
<1>5. Exact(alive, rc, exc, mortal, mtop, stack, NULL)
  <2> SUFFICES ASSUME NEW o \in Objects PROVE Count(stack, mortal, mtop, exc, o) = 0
    BY <1>1 DEF Exact
  <2>1. VarsOf(stack, o) = {} /\ ValsOf(stack, o) = {} /\ TempsOf(stack, mortal, mtop, o) = {}
    BY <1>1 DEF VarsOf, ValsOf, TempsOf
  <2>2. exc # o
    BY <1>1, NullFacts
  <2> QED
    BY <2>1, <2>2, FS_EmptySet DEF Count
<1>6. blocks = Cardinality(alive) + 1 + Cardinality(Vms(stack))
  <2>1. Vms(stack) = {}
    BY <1>1 DEF Vms
  <2> QED
    BY <1>1, <2>1, FS_EmptySet
<1> QED
  BY <1>1, <1>2, <1>3, <1>4, <1>5, <1>6 DEF IInv, Good

LEMMA NextIInv == IInv /\ [Next]_vars => IInv'
<1> SUFFICES ASSUME IInv, [Next]_vars PROVE IInv'
  OBVIOUS
<1>1. CASE UNCHANGED vars
  BY <1>1 DEF vars, IInv
<1>2. CASE \E o \in Instances : EntryPoint(o)
  BY <1>2, StepEntryPoint
<1>3. CASE CallBeginBlocks \/ FreeEnv
  BY <1>3, StepCallBeginBlocks, StepFreeEnv
<1>4. CASE Program
  <2>1. CASE \E o \in Objects : NewObject(o) \/ NativeNew(o)
    BY <2>1, StepNewObject, StepNativeNew
  <2>2. CASE MoveUndef \/ GetExceptionVar \/ Croak \/ EvalStart \/ EvalEnd
    BY <2>2, StepMoveUndef, StepGetExceptionVar, StepCroak, StepEvalStart, StepEvalEnd
  <2>3. CASE \E s \in Strings \cup {NULL} : SetExceptionVar(s) \/ NativeSetException(s)
    BY <2>3, StepSetExceptionVar, StepNativeSetException
  <2>4. CASE \E k \in Kinds : CallSub(k)
    BY <2>4, StepCallSub
  <2>5. CASE \E o \in ObjectOrNull : Return(o)
    BY <2>5, StepReturn
  <2>6. CASE NativeEnterScope \/ NativeLeaveScope
    BY <2>6, StepNativeEnterScope, StepNativeLeaveScope
  <2>7. CASE \E k \in Kinds, o \in ObjectOrNull : NativeCallSub(k, o)
    BY <2>7, StepNativeCallSub
  <2>8. CASE \E f \in BOOLEAN, o \in ObjectOrNull : NativeReturn(f, o)
    BY <2>8, StepNativeReturn
  <2> QED
    BY <1>4, <2>1, <2>2, <2>3, <2>4, <2>5, <2>6, <2>7, <2>8 DEF Program
<1>5. CASE Runtime
  <2>1. CASE AssignWrite \/ VmLeaveScope \/ EndSub
    BY <2>1, StepAssignWrite, StepMoveUndef, StepEndSub
  <2>2. CASE \E s \in Strings : IfException(s)
    BY <2>2, StepIfException
  <2>3. CASE LeaveEntry \/ ClearEntry \/ LeaveInner \/ HostEnd
    BY <2>3, StepLeaveEntry, StepClearEntry, StepLeaveInner, StepHostEnd
  <2>4. CASE \E s \in Strings \cup {NULL} : NativeEnd(s)
    BY <2>4, StepNativeEnd
  <2>5. CASE \E k \in Kinds : FreeDestroy(k)
    BY <2>5, StepFreeDestroy
  <2>6. CASE FreeBlock
    BY <2>6, StepFreeBlock
  <2> QED
    BY <1>5, <2>1, <2>2, <2>3, <2>4, <2>5, <2>6 DEF Runtime
<1> QED
  BY <1>1, <1>2, <1>3, <1>4, <1>5 DEF Next

(***************************************************************************)
(* The inductive invariant: counts are exact between any two steps, scopes *)
(* lie within one another, and nobody but the slot that lets an object go  *)
(* refers to an object that is being released.                             *)
(***************************************************************************)
THEOREM Invariant == Spec => []IInv
<1>1. Init => IInv
  BY InitIInv
<1>2. IInv /\ [Next]_vars => IInv'
  BY NextIInv
<1> QED
  BY <1>1, <1>2, PTL DEF Spec

-----------------------------------------------------------------------------
(* What the invariant implies.                                             *)

LEMMA SameVariables ==
  ASSUME IInv, NEW o
  PROVE  /\ {j \in Variables : stack[j].var = o} = VarsOf(stack, o)
         /\ {j \in Carried : stack[j].val = o} = ValsOf(stack, o)
         /\ {j \in DOMAIN stack : stack[j].kind = "vm"} = Vms(stack)
<1>1. stack \in Seq(Frames) /\ StackOK(stack, mortal, mtop) /\ DOMAIN stack = 1 .. Len(stack)
  BY NowGood DEF Good
<1>2. ASSUME NEW j \in 1 .. Len(stack), stack[j].kind = "vm"
      PROVE  Stale(j) <=> (j = Len(stack) - 1 /\ stack[j + 1].kind = "write")
  <2>1. ~stack[j].clear
    BY <1>1, <1>2, StackFacts DEF FrameOK
  <2> QED
    BY <2>1 DEF Stale
<1>3. {j \in Variables : stack[j].var = o} = VarsOf(stack, o)
  BY <1>1, <1>2 DEF Variables, VarsOf
<1>4. {j \in Carried : stack[j].val = o} = ValsOf(stack, o)
  BY <1>1 DEF Carried, ValsOf
<1>5. {j \in DOMAIN stack : stack[j].kind = "vm"} = Vms(stack)
  BY <1>1 DEF Vms
<1> QED
  BY <1>3, <1>4, <1>5

LEMMA SameTemps ==
  ASSUME IInv, NEW o
  PROVE  {i \in Temps : mortal[i] = o} = TempsOf(stack, mortal, mtop, o)
<1> DEFINE n == Len(stack)
           Slots == {stack[j].next : j \in {k \in DOMAIN stack : stack[k].kind # "vm" /\ Stale(k)}}
<1>0. Temps = (1 .. mtop) \ Slots
  BY DEF Temps
<1>1. stack \in Seq(Frames) /\ StackOK(stack, mortal, mtop) /\ DOMAIN stack = 1 .. n
  BY NowGood DEF Good
<1>2. ASSUME NEW k \in 1 .. n, stack[k].kind # "vm"
      PROVE  Stale(k) <=> (k = n /\ stack[k].clear)
  <2>1. ASSUME k = n - 1, stack[k + 1].kind = "write" PROVE FALSE
    <3>1. k + 1 \in 1 .. n /\ (k + 1) - 1 = k
      BY <1>1, <2>1
    <3>2. stack[(k + 1) - 1].kind = "vm"
      BY <1>1, <2>1, <3>1, StackFacts
    <3> QED
      BY <1>2, <3>1, <3>2
  <2> QED
    BY <2>1 DEF Stale
<1>3. ASSUME NEW k \in 1 .. n, stack[k].clear PROVE stack[k].kind # "vm"
  BY <1>1, <1>3, StackFacts DEF FrameOK
<1>4. ASSUME NEW i \in 1 .. mtop
      PROVE  i \in Temps <=> ~(stack # <<>> /\ stack[n].clear /\ stack[n].next = i)
  <2>1. stack # <<>> => n \in 1 .. n
    BY <1>1
  <2>2. CASE stack # <<>> /\ stack[n].clear /\ stack[n].next = i
    <3>1. n \in 1 .. n /\ stack[n].kind # "vm" /\ Stale(n)
      BY <1>2, <1>3, <2>1, <2>2
    <3>2. i \in Slots
      BY <1>1, <2>2, <3>1
    <3> QED
      BY <1>0, <2>2, <3>2
  <2>3. CASE ~(stack # <<>> /\ stack[n].clear /\ stack[n].next = i)
    <3>1. ASSUME NEW k \in 1 .. n, stack[k].kind # "vm", Stale(k) PROVE stack[k].next # i
      <4>1. k = n /\ stack[k].clear
        BY <1>2, <3>1
      <4>2. stack # <<>>
        BY <1>1, <3>1
      <4> QED
        BY <2>3, <4>1, <4>2
    <3>2. i \notin Slots
      BY <1>1, <3>1
    <3> QED
      BY <1>0, <2>3, <3>2
  <2> QED
    BY <2>2, <2>3
<1>5. Temps \subseteq 1 .. mtop
  BY DEF Temps
<1> QED
  BY <1>4, <1>5 DEF TempsOf

LEMMA IInvCounts == IInv => CountsExact
<1> SUFFICES ASSUME IInv PROVE CountsExact
  OBVIOUS
<1>1. /\ Good(alive, rc, exc, mortal, mtop, blocks, stack, NULL) /\ alive \subseteq Objects
      /\ NULL \notin Objects
  BY NowGood, NullFacts
<1>2. ASSUME NEW o \in alive PROVE rc[o] = References(o) /\ rc[o] > 0
  <2>1. o \in Objects /\ o # NULL
    BY <1>1
  <2>2. References(o) = Count(stack, mortal, mtop, exc, o)
    <3>1. /\ {j \in Variables : stack[j].var = o} = VarsOf(stack, o)
          /\ {j \in Carried : stack[j].val = o} = ValsOf(stack, o)
      BY SameVariables
    <3>2. {i \in Temps : mortal[i] = o} = TempsOf(stack, mortal, mtop, o)
      BY SameTemps
    <3> QED
      BY <3>1, <3>2 DEF References, Count
  <2>3. Count(stack, mortal, mtop, exc, o) = rc[o] /\ rc[o] \in Nat
    BY <1>1, <2>1, LiveFacts
  <2>4. rc[o] # 0
    BY <1>1, <2>1 DEF Good, Exact
  <2> QED
    BY <2>2, <2>3, <2>4
<1>3. blocks = Cardinality(alive) + 1 + Cardinality({j \in DOMAIN stack : stack[j].kind = "vm"})
  <2>1. {j \in DOMAIN stack : stack[j].kind = "vm"} = Vms(stack)
    BY SameVariables
  <2>2. blocks = Cardinality(alive) + 1 + Cardinality(Vms(stack))
    BY <1>1 DEF Good
  <2> QED
    BY <2>1, <2>2
<1> QED
  BY <1>2, <1>3 DEF CountsExact

(***************************************************************************)
(* CountsExact: after every step, the middle of leave_scope, of an         *)
(* assignment and of a return included, every count is the number of the   *)
(* references and the block counter is right.                              *)
(***************************************************************************)
THEOREM CountsAreExact == Spec => []CountsExact
  BY Invariant, IInvCounts, PTL

LEMMA IInvReleased == IInv => ReleasedAtHost
<1> SUFFICES ASSUME IInv, stack = <<>> PROVE mtop = 0 /\ alive = {exc} \ {NULL}
  BY DEF ReleasedAtHost
<1>1. /\ Good(alive, rc, exc, mortal, mtop, blocks, stack, NULL) /\ alive \subseteq Objects
      /\ NULL \notin Objects /\ exc \in alive \cup {NULL}
  BY NowGood, NullFacts
<1>2. mtop = 0
  BY DEF IInv
<1>3. ASSUME NEW o \in alive PROVE exc = o
  <2>1. o \in Objects /\ o # NULL
    BY <1>1
  <2>2. VarsOf(stack, o) = {} /\ ValsOf(stack, o) = {} /\ TempsOf(stack, mortal, mtop, o) = {}
    BY <1>2 DEF VarsOf, ValsOf, TempsOf
  <2>3. Count(stack, mortal, mtop, exc, o) = rc[o] /\ rc[o] # 0
    BY <1>1, <2>1 DEF Good, Exact
  <2>4. Cardinality({}) = 0
    BY FS_EmptySet
  <2>a. /\ Cardinality(VarsOf(stack, o)) = 0 /\ Cardinality(ValsOf(stack, o)) = 0
        /\ Cardinality(TempsOf(stack, mortal, mtop, o)) = 0
    BY <2>2, <2>4
  <2>5. Count(stack, mortal, mtop, exc, o) = IF exc = o THEN 2 ELSE 0
    BY <2>a DEF Count
  <2> QED
    BY <2>3, <2>5
<1> QED
  BY <1>1, <1>2, <1>3

(***************************************************************************)
(* ReleasedAtHost: when call_sub has returned to the host, every temporary *)
(* of every scope is released and nothing is left but an exception that    *)
(* nobody cleared.                                                         *)
(***************************************************************************)
THEOREM HostFindsAllReleased == Spec => []ReleasedAtHost
  BY Invariant, IInvReleased, PTL

-----------------------------------------------------------------------------
(* What C code holds without counting it.                                  *)

LEMMA IInvType == IInv => TypeOK
<1> SUFFICES ASSUME IInv PROVE TypeOK
  OBVIOUS
<1>1. /\ alive \subseteq Objects /\ rc \in [Objects -> Nat] /\ exc \in Strings \cup {NULL}
      /\ mtop \in 0 .. Len(mortal) /\ mtop \in Nat /\ mortal \in Seq(ObjectOrNull)
      /\ stack \in Seq(Frames) /\ Len(stack) \in Nat /\ DOMAIN stack = 1 .. Len(stack)
      /\ StackOK(stack, mortal, mtop) /\ MortalOK(mortal, mtop)
  BY NowGood DEF Good
<1>2. ASSUME NEW i \in DOMAIN mortal
      PROVE  IF i > mtop THEN mortal[i] = NULL ELSE mortal[i] \in ObjectOrNull
  <2>1. i \in 1 .. Len(mortal) /\ mortal[i] \in ObjectOrNull
    BY <1>1
  <2>2. i > mtop => i \in mtop + 1 .. Len(mortal)
    BY <1>1, <2>1
  <2> QED
    BY <1>1, <2>1, <2>2 DEF MortalOK
<1>3. ASSUME NEW j \in DOMAIN stack
      PROVE  /\ stack[j].kind \in {"host", "native", "vm", "write", "free"}
             /\ stack[j].phase \in {"run", "leave", "inner"}
             /\ stack[j].var \in ObjectOrNull /\ stack[j].val \in ObjectOrNull
             /\ stack[j].base \in 0 .. mtop /\ stack[j].inner \in -1 .. mtop
             /\ stack[j].kind = "native" =>
                  \A k \in 1 .. j - 1 : /\ stack[k].base <= stack[j].base
                                       /\ stack[k].inner <= stack[j].base
  <2>1. stack[j] \in Frames /\ ScopeOK(stack[j], mortal, mtop)
    BY <1>1, StackFacts
  <2>2. stack[j].kind = "native" => \A k \in 1 .. j - 1 : Within(stack[k], stack[j].base)
    BY <1>1 DEF StackOK
  <2>3. /\ stack[j].kind \in {"host", "native", "vm", "write", "free"}
        /\ stack[j].phase \in {"run", "leave", "inner"}
        /\ stack[j].var \in ObjectOrNull /\ stack[j].val \in ObjectOrNull
        /\ stack[j].base \in Nat /\ stack[j].inner \in Nat \cup {-1}
    BY <2>1 DEF Frames
  <2>4. stack[j].base \in 0 .. mtop /\ stack[j].inner \in -1 .. mtop
    BY <1>1, <2>1, <2>3 DEF ScopeOK
  <2> QED
    BY <2>2, <2>3, <2>4 DEF Within
<1> QED
  BY <1>1, <1>2, <1>3 DEF TypeOK

(* The argument of a native subroutine is counted for somebody below.      *)
LEMMA ArgumentLive ==
  ASSUME IInv, NEW j \in 1 .. Len(stack), stack[j].kind = "native", stack[j].var # NULL
  PROVE  stack[j].var \in alive
<1> DEFINE n == Len(stack)
           o == stack[j].var
<1>1. /\ Good(alive, rc, exc, mortal, mtop, blocks, stack, NULL) /\ mtop \in Nat /\ n \in Nat
      /\ mortal \in Seq(ObjectOrNull) /\ mtop \in 0 .. Len(mortal)
      /\ StackOK(stack, mortal, mtop) /\ DyingOK(stack, mortal, mtop)
  BY NowGood DEF Good
<1>2. stack[j] \in Frames /\ FrameOK(stack[j]) /\ ScopeOK(stack[j], mortal, mtop)
  BY <1>1, StackFacts
<1>3. o \in Objects
  BY <1>2 DEF Frames, ObjectOrNull
<1>4. /\ HeldBelow(stack, mortal, j, o)
      /\ \A k \in 1 .. j - 1 : Within(stack[k], stack[j].base)
  BY <1>1 DEF StackOK
<1>5. CASE \E i \in 1 .. stack[j].base : mortal[i] = o
  <2>1. PICK i \in 1 .. stack[j].base : mortal[i] = o
    BY <1>5
  <2>2. i \in 1 .. mtop /\ stack[j].base \in Nat
    BY <1>1, <1>2 DEF ScopeOK, Frames
  <2>3. ASSUME stack # <<>>, stack[n].clear, stack[n].next = i PROVE FALSE
    <3>1. n \in 1 .. n /\ stack[n] \in Frames /\ FrameOK(stack[n])
      BY <1>1, StackFacts
    <3>2. stack[n].next > stack[n].base /\ stack[n].next \in Nat /\ stack[n].base \in Nat
      BY <2>3, <3>1 DEF FrameOK, Frames
    <3>3. CASE j = n
      BY <2>1, <2>2, <2>3, <3>2, <3>3
    <3>4. CASE j # n
      <4>1. j \in 1 .. n - 1 /\ n \in 2 .. n
        BY <1>1, <3>4
      <4>2. stack[n].kind = "native"
        <5>1. stack[n].kind \in {"native", "host"}
          BY <2>3, <3>1 DEF FrameOK
        <5>2. stack[n].kind # "host"
          BY <1>1, <4>1, StackFacts DEF Link
        <5> QED
          BY <5>1, <5>2
      <4>3. stack[j].base <= stack[n].base
        BY <1>1, <3>1, <4>1, <4>2 DEF StackOK, Within
      <4> QED
        BY <2>1, <2>2, <2>3, <3>2, <4>3
    <3> QED
      BY <3>3, <3>4
  <2>4. i \in TempsOf(stack, mortal, mtop, o)
    BY <2>1, <2>2, <2>3 DEF TempsOf
  <2> QED
    BY <1>1, <1>3, <2>4, LiveFacts
<1>6. CASE \E i \in 1 .. j - 1 : stack[i].kind = "vm" /\ stack[i].var = o
  <2>1. PICK i \in 1 .. j - 1 : stack[i].kind = "vm" /\ stack[i].var = o
    BY <1>6
  <2>2. i \in 1 .. n /\ ~(i = n - 1 /\ stack[i + 1].kind = "write")
    <3>1. i \in 1 .. n
      BY <1>1
    <3>2. i = n - 1 => j = i + 1
      BY <1>1
    <3> QED
      BY <3>1, <3>2
  <2>3. i \in VarsOf(stack, o)
    BY <2>1, <2>2 DEF VarsOf
  <2> QED
    BY <1>1, <1>3, <2>3, LiveFacts
<1>7. CASE \E i \in 1 .. j - 1 : stack[i].kind = "free" /\ stack[i].val = o
  <2>1. PICK i \in 1 .. j - 1 : stack[i].kind = "free" /\ stack[i].val = o
    BY <1>7
  <2>2. i \in 1 .. n
    BY <1>1
  <2>3. Dying(stack, mortal, mtop, i)
    BY <1>1, <2>1, <2>2 DEF DyingOK
  <2>4. VarsOf(stack, o) # {} \/ TempsOf(stack, mortal, mtop, o) # {}
    BY <2>1, <2>3 DEF Dying
  <2> QED
    BY <1>1, <1>3, <2>4, LiveFacts
<1> QED
  BY <1>4, <1>5, <1>6, <1>7 DEF HeldBelow

LEMMA IInvHeld == IInv => HeldAlive
<1> SUFFICES ASSUME IInv PROVE HeldAlive
  OBVIOUS
<1> DEFINE n == Len(stack)
<1>1. /\ Good(alive, rc, exc, mortal, mtop, blocks, stack, NULL) /\ mtop \in Nat /\ n \in Nat
      /\ mortal \in Seq(ObjectOrNull) /\ mtop \in 0 .. Len(mortal)
      /\ stack \in Seq(Frames) /\ DOMAIN stack = 1 .. n /\ exc \in alive \cup {NULL}
      /\ StackOK(stack, mortal, mtop) /\ DyingOK(stack, mortal, mtop)
  BY NowGood DEF Good
<1>2. ASSUME NEW j \in 1 .. n
      PROVE  /\ stack[j].kind \in {"native", "host"} \/ ~Stale(j) => stack[j].var \in alive \cup {NULL}
             /\ stack[j].val \in alive \cup {NULL}
  <2>1. stack[j] \in Frames /\ FrameOK(stack[j])
    BY <1>1, StackFacts
  <2>2. stack[j].var \in Objects \cup {NULL} /\ stack[j].val \in Objects \cup {NULL}
        /\ stack[j].kind \in {"host", "native", "vm", "write", "free"}
    BY <2>1 DEF Frames, ObjectOrNull
  <2>3. stack[j].kind \in {"host", "write", "free"} => stack[j].var = NULL
    BY <2>1 DEF FrameOK
  <2>4. ASSUME stack[j].kind = "vm", ~Stale(j), stack[j].var # NULL PROVE stack[j].var \in alive
    <3>1. j \in VarsOf(stack, stack[j].var)
      BY <2>4 DEF VarsOf, Stale
    <3> QED
      BY <1>1, <2>2, <2>4, <3>1, LiveFacts
  <2>5. stack[j].kind = "native" /\ stack[j].var # NULL => stack[j].var \in alive
    BY ArgumentLive
  <2>6. ASSUME stack[j].kind \in {"vm", "native", "write"}, stack[j].val # NULL PROVE stack[j].val \in alive
    <3>1. j \in ValsOf(stack, stack[j].val)
      BY <2>6 DEF ValsOf
    <3> QED
      BY <1>1, <2>2, <2>6, <3>1, LiveFacts
  <2>7. ASSUME stack[j].kind = "free" PROVE stack[j].val \in alive
    <3>1. Dying(stack, mortal, mtop, j)
      BY <1>1, <2>7 DEF DyingOK
    <3>2. /\ VarsOf(stack, stack[j].val) # {} \/ TempsOf(stack, mortal, mtop, stack[j].val) # {}
          /\ stack[j].val \in Objects
      BY <2>1, <2>2, <2>7, <3>1, NullFacts DEF Dying, FrameOK
    <3> QED
      BY <1>1, <3>2, LiveFacts
  <2>8. stack[j].kind = "host" => stack[j].val = NULL
    BY <2>1 DEF FrameOK
  <2> QED
    BY <2>2, <2>3, <2>4, <2>5, <2>6, <2>7, <2>8
<1>3. ASSUME NEW i \in Temps PROVE mortal[i] \in alive \cup {NULL}
  <2>1. i \in TempsOf(stack, mortal, mtop, mortal[i])
    <3>1. i \in {k \in Temps : mortal[k] = mortal[i]}
      OBVIOUS
    <3> QED
      BY <3>1, SameTemps
  <2>2. i \in 1 .. mtop
    BY DEF Temps
  <2>3. mortal[i] \in Objects \cup {NULL}
    BY <1>1, <2>2 DEF ObjectOrNull
  <2> QED
    BY <1>1, <2>1, <2>3, LiveFacts
<1> QED
  BY <1>1, <1>2, <1>3, IInvType DEF HeldAlive

(***************************************************************************)
(* HeldAlive: what C code holds without counting it, the argument of a     *)
(* native subroutine and the object whose DESTROY runs, stays allocated,   *)
(* and so does all that is counted.                                        *)
(***************************************************************************)
THEOREM HeldStaysAllocated == Spec => []HeldAlive
  BY Invariant, IInvHeld, PTL

-----------------------------------------------------------------------------
(* The scopes of the subroutines below.                                    *)

(* The temporaries that are not the innermost scope's to release.          *)
Untouched == IF Top.kind \in {"native", "host"} THEN Top.base ELSE mtop

MortalBelow ==
  /\ Untouched <= Len(mortal')
  /\ \A i \in 1 .. Untouched : mortal'[i] = mortal[i]

LEMMA MortalKept ==
  ASSUME IInv, [Next]_vars, stack # <<>>
  PROVE  MortalBelow
<1>1. /\ Top \in Frames /\ FrameOK(Top) /\ ScopeOK(Top, mortal, mtop) /\ mtop \in Nat
      /\ mortal \in Seq(ObjectOrNull) /\ mtop \in 0 .. Len(mortal)
      /\ MortalOK(mortal, mtop)
  BY NowTop, NowGood DEF Good
<1>2. Untouched \in Nat /\ Untouched <= mtop
  BY <1>1 DEF Untouched, Frames, ScopeOK
<1>3. CASE UNCHANGED mortal
  BY <1>1, <1>2, <1>3 DEF MortalBelow
<1>4. CASE ClearEntry
  <2>1. LeavesScope /\ Top.clear /\ mortal' = [mortal EXCEPT ![Top.next] = NULL]
    BY <1>4 DEF ClearEntry
  <2>2. Top.next > Top.base /\ Top.next \in Nat /\ Top.base \in Nat
    BY <1>1, <2>1 DEF FrameOK, Frames
  <2>3. Untouched = Top.base
    BY <2>1 DEF LeavesScope, Untouched
  <2> QED
    BY <1>1, <1>2, <2>1, <2>2, <2>3 DEF MortalBelow
<1>5. ASSUME NEW o \in Objects, NativeNew(o) PROVE MortalBelow
  <2>1. PushMortal(o, [rc EXCEPT ![o] = 0], blocks + 1)
    BY <1>5 DEF NativeNew
  <2>2. mortal' = WithTemp(mortal, mtop, o)
    BY <2>1, BlocksNat, PushMortalFacts
  <2>3. o \in ObjectOrNull
    BY DEF ObjectOrNull
  <2>4. /\ MortalOK(WithTemp(mortal, mtop, o), mtop + 1)
        /\ \A i \in 1 .. mtop : WithTemp(mortal, mtop, o)[i] = mortal[i]
    BY <1>1, <2>3, RoomFacts
  <2>5. mortal' \in Seq(ObjectOrNull) /\ mtop + 1 <= Len(mortal')
    BY <1>1, <2>2, <2>4 DEF MortalOK
  <2>6. \A i \in 1 .. mtop : mortal'[i] = mortal[i]
    BY <2>2, <2>4
  <2>7. Untouched <= Len(mortal')
    BY <1>1, <1>2, <2>5
  <2> QED
    BY <1>1, <1>2, <2>6, <2>7 DEF MortalBelow
<1>6. CASE UNCHANGED vars
  BY <1>3, <1>6 DEF vars
<1>7. CASE (\E o \in Instances : EntryPoint(o)) \/ CallBeginBlocks \/ FreeEnv
  BY <1>7 DEF EntryPoint, CallBeginBlocks, FreeEnv
<1>8. CASE Program
  <2>1. CASE \E o \in Objects : NewObject(o) \/ NativeNew(o)
    BY <1>3, <1>5, <2>1 DEF NewObject
  <2>2. CASE MoveUndef \/ GetExceptionVar \/ Croak \/ EvalStart \/ EvalEnd
    BY <1>3, <2>2 DEF MoveUndef, GetExceptionVar, Croak, EvalStart, EvalEnd
  <2>3. CASE \E s \in Strings \cup {NULL} : SetExceptionVar(s) \/ NativeSetException(s)
    BY <1>3, <2>3 DEF SetExceptionVar, NativeSetException
  <2>4. CASE \E k \in Kinds : CallSub(k)
    BY <1>3, <2>4 DEF CallSub
  <2>5. CASE \E o \in ObjectOrNull : Return(o)
    BY <1>3, <2>5 DEF Return
  <2>6. CASE NativeEnterScope \/ NativeLeaveScope
    BY <1>3, <2>6 DEF NativeEnterScope, NativeLeaveScope
  <2>7. CASE \E k \in Kinds, o \in ObjectOrNull : NativeCallSub(k, o)
    BY <1>3, <2>7 DEF NativeCallSub
  <2>8. CASE \E f \in BOOLEAN, o \in ObjectOrNull : NativeReturn(f, o)
    BY <1>3, <2>8 DEF NativeReturn
  <2> QED
    BY <1>8, <2>1, <2>2, <2>3, <2>4, <2>5, <2>6, <2>7, <2>8 DEF Program
<1>9. CASE Runtime
  <2>1. CASE AssignWrite \/ VmLeaveScope \/ EndSub
    BY <1>3, <2>1 DEF AssignWrite, VmLeaveScope, EndSub
  <2>2. CASE \E s \in Strings : IfException(s)
    BY <1>3, <2>2 DEF IfException
  <2>3. CASE LeaveEntry \/ ClearEntry \/ LeaveInner \/ HostEnd
    BY <1>3, <1>4, <2>3 DEF LeaveEntry, LeaveInner, HostEnd
  <2>4. CASE \E s \in Strings \cup {NULL} : NativeEnd(s)
    BY <1>3, <2>4 DEF NativeEnd
  <2>5. CASE \E k \in Kinds : FreeDestroy(k)
    BY <1>3, <2>5 DEF FreeDestroy
  <2>6. CASE FreeBlock
    BY <1>3, <2>6 DEF FreeBlock
  <2> QED
    BY <1>9, <2>1, <2>2, <2>3, <2>4, <2>5, <2>6 DEF Runtime
<1> QED
  BY <1>6, <1>7, <1>8, <1>9 DEF Next

LEMMA SamePrefix ==
  ASSUME NEW s \in Seq(ObjectOrNull), NEW t \in Seq(ObjectOrNull), NEW n \in Nat,
         n <= Len(s), n <= Len(t), \A i \in 1 .. n : t[i] = s[i]
  PROVE  SubSeq(t, 1, n) = SubSeq(s, 1, n)
<1> DEFINE a == SubSeq(s, 1, n)
           b == SubSeq(t, 1, n)
<1>1. a \in Seq(ObjectOrNull) /\ Len(a) = n /\ \A i \in 1 .. n : a[i] = s[i]
  BY SubSeqProperties
<1>2. b \in Seq(ObjectOrNull) /\ Len(b) = n /\ \A i \in 1 .. n : b[i] = t[i]
  BY SubSeqProperties
<1> HIDE DEF a, b
<1>3. Len(a) = Len(b) /\ \A i \in 1 .. Len(a) : a[i] = b[i]
  BY <1>1, <1>2
<1>4. a = b
  BY <1>1, <1>2, <1>3, SeqEqual
<1> QED
  BY <1>4 DEF a, b

(***************************************************************************)
(* CallerTempsKept: no step, whatever a callee or a DESTROY pushes,        *)
(* releases or reallocates, touches the temporaries of a scope below.      *)
(***************************************************************************)
THEOREM CallersKeepTemps == Spec => CallerTempsKept
<1>1. ASSUME IInv, [Next]_vars, stack # <<>>
      PROVE  LET below == IF Top.kind \in {"native", "host"} THEN Top.base ELSE mtop
             IN  SubSeq(mortal', 1, below) = SubSeq(mortal, 1, below)
  <2>1. Untouched <= Len(mortal') /\ \A i \in 1 .. Untouched : mortal'[i] = mortal[i]
    BY <1>1, MortalKept DEF MortalBelow
  <2>2. /\ Top \in Frames /\ ScopeOK(Top, mortal, mtop) /\ mtop \in Nat
        /\ mortal \in Seq(ObjectOrNull) /\ mtop \in 0 .. Len(mortal)
    BY <1>1, NowTop, NowGood
  <2>3. Untouched \in Nat /\ Untouched <= mtop /\ Untouched <= Len(mortal)
    BY <2>2 DEF Untouched, Frames, ScopeOK
  <2>4. mortal' \in Seq(ObjectOrNull)
    <3>1. IInv'
      BY <1>1, NextIInv
    <3> QED
      BY <3>1 DEF IInv, Good, MortalOK
  <2>5. SubSeq(mortal', 1, Untouched) = SubSeq(mortal, 1, Untouched)
    BY <2>1, <2>2, <2>3, <2>4, SamePrefix
  <2> QED
    BY <2>5 DEF Untouched
<1>2. IInv /\ [Next]_vars =>
        [stack # <<>> => LET below == IF Top.kind \in {"native", "host"} THEN Top.base ELSE mtop
                         IN  SubSeq(mortal', 1, below) = SubSeq(mortal, 1, below)]_vars
  BY <1>1
<1> QED
  BY <1>2, Invariant, PTL DEF Spec, CallerTempsKept
-----------------------------------------------------------------------------
(* Exceptions, when destructors raise none.                                *)

(* An exception is pending only below every object that is being released, *)
(* and an activation that handles one finds an object.                     *)
QuietStack(fr, ex) ==
  /\ \A j \in 1 .. Len(fr) : fr[j].kind \in {"vm", "native"} /\ fr[j].flag =>
       \A i \in 1 .. j : fr[i].kind # "free"
  /\ \A j \in 1 .. Len(fr) : fr[j].kind = "vm" /\ fr[j].flag => ex # NULL

Quiet == raiser = [s \in Strings |-> 0] /\ QuietStack(stack, exc)

(* t keeps the first m frames of fr, where only frame new gets the flag,   *)
(* and has new frames without the flag above.                              *)
Calmer(t, fr, m, new) ==
  \A j \in 1 .. Len(t) : IF j <= m THEN t[j].kind = fr[j].kind /\ (t[j].flag => fr[j].flag \/ j = new)
                         ELSE ~t[j].flag

LEMMA QuietKept ==
  ASSUME NEW fr, NEW t, NEW ex, NEW ex2, NEW m \in Nat, NEW new \in Nat,
         Len(fr) \in Nat, m <= Len(fr),
         QuietStack(fr, ex), Calmer(t, fr, m, new),
         new # 0 => new \in 1 .. Len(fr) /\ \A i \in 1 .. new : fr[i].kind # "free",
         \/ ex2 # NULL
         \/ ex2 = ex /\ (new # 0 => fr[new].kind # "vm")
         \/ \A j \in 1 .. Len(t) : ~(t[j].kind = "vm" /\ t[j].flag)
  PROVE  QuietStack(t, ex2)
<1>1. ASSUME NEW j \in 1 .. Len(t), t[j].kind \in {"vm", "native"}, t[j].flag, NEW i \in 1 .. j
      PROVE  t[i].kind # "free"
  <2>1. j <= m /\ t[j].kind = fr[j].kind /\ (fr[j].flag \/ j = new)
    BY <1>1 DEF Calmer
  <2>2. i \in 1 .. Len(t) /\ i <= m /\ j \in 1 .. Len(fr)
    BY <2>1
  <2>3. t[i].kind = fr[i].kind
    BY <2>2 DEF Calmer
  <2>4. fr[j].flag => fr[i].kind # "free"
    BY <1>1, <2>1, <2>2 DEF QuietStack
  <2> QED
    BY <2>1, <2>2, <2>3, <2>4
<1>2. ASSUME NEW j \in 1 .. Len(t), t[j].kind = "vm", t[j].flag PROVE ex2 # NULL
  <2>1. j <= m /\ t[j].kind = fr[j].kind /\ (fr[j].flag \/ j = new) /\ j \in 1 .. Len(fr)
    BY <1>2 DEF Calmer
  <2>2. fr[j].flag => ex # NULL
    BY <1>2, <2>1 DEF QuietStack
  <2> QED
    BY <1>2, <2>1, <2>2
<1> QED
  BY <1>1, <1>2 DEF QuietStack

LEMMA LevelZero ==
  ASSUME IInv
  PROVE  Level = 0 <=> \A i \in 1 .. Len(stack) : stack[i].kind # "free"
<1> DEFINE F == {i \in DOMAIN stack : stack[i].kind = "free"}
<1>1. stack \in Seq(Frames) /\ DOMAIN stack = 1 .. Len(stack) /\ Len(stack) \in Nat
  BY NowGood
<1>2. IsFiniteSet(1 .. Len(stack))
  BY <1>1, FS_Interval
<1>3. IsFiniteSet(F)
  BY <1>1, <1>2, FS_Subset
<1>4. Cardinality(F) = 0 <=> F = {}
  BY <1>3, FS_EmptySet
<1>5. F = {} <=> \A i \in 1 .. Len(stack) : stack[i].kind # "free"
  BY <1>1
<1> QED
  BY <1>4, <1>5 DEF Level

(* Where nothing is being released, no activation below the one that runs  *)
(* handles an exception.                                                   *)
LEMMA NoneBelow ==
  ASSUME IInv, NEW j \in 1 .. Len(stack) - 1, stack[j].kind = "vm", stack[j].flag,
         stack[Len(stack)].kind # "write",
         \A i \in 1 .. Len(stack) : stack[i].kind # "free"
  PROVE  FALSE
<1>1. StackOK(stack, mortal, mtop) /\ Len(stack) \in Nat /\ stack \in Seq(Frames)
  BY NowGood DEF Good
<1>2. j \in 1 .. Len(stack) /\ j + 1 \in 1 .. Len(stack) /\ stack[j] \in Frames /\ stack[j + 1] \in Frames
  BY <1>1
<1>3. Link(stack[j], stack[j + 1])
  BY <1>1 DEF StackOK
<1>4. stack[j + 1].kind \in {"host", "native", "vm", "write", "free"}
  BY <1>2 DEF Frames
<1>5. stack[j + 1].kind = "write"
  BY <1>2, <1>3, <1>4 DEF Link
<1>6. j + 1 \in 1 .. Len(stack) - 1
  BY <1>1, <1>2, <1>5
<1>7. Link(stack[j + 1], stack[(j + 1) + 1]) /\ (j + 1) + 1 \in 1 .. Len(stack)
  BY <1>1, <1>6 DEF StackOK
<1>8. stack[(j + 1) + 1].kind = "free"
  BY <1>5, <1>7 DEF Link
<1> QED
  BY <1>7, <1>8

-----------------------------------------------------------------------------
(* What the operators of the model do to kinds and flags.                  *)

LEMMA TopCalm ==
  ASSUME IInv, stack # <<>>, NEW g \in Frames, g.kind = Top.kind,
         NEW new, g.flag => Top.flag \/ new = Len(stack)
  PROVE  Calmer(WithTop(g), stack, Len(stack), new)
<1> DEFINE n == Len(stack)
           t == WithTop(g)
<1>1. /\ Len(t) = n /\ n \in Nat \ {0} /\ t[n] = g /\ Top = stack[n]
      /\ \A j \in 1 .. n - 1 : t[j] = stack[j]
  BY NowGood, NowTop, TopFacts DEF WithTop, Below
<1> HIDE DEF t
<1>2. Calmer(t, stack, n, new)
  BY <1>1 DEF Calmer
<1> QED
  BY <1>2 DEF t

LEMMA PushCalm ==
  ASSUME NEW fr \in Seq(Frames), NEW g \in Frames, ~g.flag
  PROVE  Calmer(Append(fr, g), fr, Len(fr), 0)
<1> DEFINE t == Append(fr, g)
<1>1. /\ Len(fr) \in Nat /\ Len(t) = Len(fr) + 1 /\ t[Len(fr) + 1] = g
      /\ \A j \in 1 .. Len(fr) : t[j] = fr[j]
  BY PushFacts
<1> HIDE DEF t
<1>2. Calmer(t, fr, Len(fr), 0)
  BY <1>1 DEF Calmer
<1> QED
  BY <1>2 DEF t

LEMMA DropCalm ==
  ASSUME NEW fr \in Seq(Frames), NEW o \in ObjectOrNull, NEW counts, NEW live, NEW blks,
         Drop(o, counts, live, blks, fr)
  PROVE  Calmer(stack', fr, Len(fr), 0)
<1> DEFINE h == [Frame("free") EXCEPT !.val = o]
<1>1. h \in Frames /\ ~h.flag
  BY FrameFields DEF Frames
<1>2. stack' = fr \/ stack' = Append(fr, h)
  BY DEF Drop
<1> HIDE DEF h
<1>3. Calmer(Append(fr, h), fr, Len(fr), 0)
  BY <1>1, PushCalm
<1>4. Calmer(fr, fr, Len(fr), 0)
  BY DEF Calmer
<1> QED
  BY <1>2, <1>3, <1>4

LEMMA VarCalm ==
  ASSUME NEW fr \in Seq(Frames), fr # <<>>, NEW v \in ObjectOrNull
  PROVE  LET t == [fr EXCEPT ![Len(fr)].var = v] IN
         /\ t \in Seq(Frames) /\ Len(t) = Len(fr) /\ Len(fr) \in Nat
         /\ \A j \in 1 .. Len(fr) : t[j].kind = fr[j].kind /\ t[j].flag = fr[j].flag
<1> DEFINE n == Len(fr)
           g == [fr[n] EXCEPT !.var = v]
           t == [fr EXCEPT ![n] = g]
<1>1. n \in Nat \ {0} /\ fr[n] \in Frames
  OBVIOUS
<1>2. g \in Frames /\ g.kind = fr[n].kind /\ g.flag = fr[n].flag
  BY <1>1 DEF Frames
<1>3. [fr EXCEPT ![Len(fr)].var = v] = t
  OBVIOUS
<1> HIDE DEF g
<1>4. t \in Seq(Frames) /\ Len(t) = n /\ t[n] = g /\ \A j \in 1 .. n - 1 : t[j] = fr[j]
  BY <1>1, <1>2, ExceptFacts
<1> HIDE DEF t
<1>5. \A j \in 1 .. n : t[j].kind = fr[j].kind /\ t[j].flag = fr[j].flag
  BY <1>1, <1>2, <1>4
<1> QED
  BY <1>1, <1>3, <1>4, <1>5

LEMMA AssignCalm ==
  ASSUME NEW fr \in Seq(Frames), fr # <<>>, NEW new \in ObjectOrNull,
         NEW counts, NEW live, NEW blks, AssignVar(new, counts, live, blks, fr)
  PROVE  Calmer(stack', fr, Len(fr), 0)
<1> DEFINE n == Len(fr)
           old == fr[n].var
           w == [Frame("write") EXCEPT !.val = new]
           z == [Frame("free") EXCEPT !.val = old]
           done == [fr EXCEPT ![n].var = new]
           u == fr \o <<w, z>>
<1>0. n \in Nat \ {0} /\ fr[n] \in Frames
  OBVIOUS
<1>1. n \in Nat \ {0} /\ fr[n] \in Frames /\ old \in ObjectOrNull
  BY <1>0 DEF Frames
<1>2. stack' = u \/ Drop(old, IncRef(counts, new), live, blks, done)
  BY DEF AssignVar
<1>3. w \in Frames /\ ~w.flag /\ z \in Frames /\ ~z.flag
  BY <1>1, FrameFields DEF Frames
<1>4. /\ done \in Seq(Frames) /\ Len(done) = n
      /\ \A j \in 1 .. n : done[j].kind = fr[j].kind /\ done[j].flag = fr[j].flag
  BY VarCalm
<1> HIDE DEF w, z, done, old
<1>5. CASE stack' = u
  <2>1. Len(u) = n + 2 /\ (\A j \in 1 .. n : u[j] = fr[j]) /\ u[n + 1] = w /\ u[n + 2] = z
    BY <1>3, PushTwoFacts
  <2> HIDE DEF u
  <2>2. Calmer(u, fr, n, 0)
    BY <1>1, <1>3, <2>1 DEF Calmer
  <2> QED
    BY <1>5, <2>2
<1>6. CASE Drop(old, IncRef(counts, new), live, blks, done)
  <2>1. Calmer(stack', done, n, 0)
    BY <1>1, <1>4, <1>6, DropCalm
  <2> QED
    BY <1>1, <1>4, <2>1 DEF Calmer
<1> QED
  BY <1>2, <1>5, <1>6

LEMMA ReturnCalm ==
  ASSUME IInv, stack # <<>>, Top.kind \in {"vm", "native"},
         NEW flag \in BOOLEAN, NEW result \in ObjectOrNull, NEW counts, NEW live, NEW blks,
         ReturnTo(flag, result, counts, live, blks)
  PROVE  /\ Len(stack) - 1 \in Nat \ {0}
         /\ Calmer(stack', stack, Len(stack) - 1, IF flag THEN Len(stack) - 1 ELSE 0)
<1> DEFINE n == Len(stack) - 1
           caller == Below[n]
<1>1. /\ Below \in Seq(Frames) /\ Len(Below) = n /\ \A j \in 1 .. n : Below[j] = stack[j]
      /\ n \in Nat
  BY NowGood, PopFacts DEF Below
<1>2. n # 0 /\ Below # <<>> /\ caller \in Frames /\ caller.kind \in {"vm", "native", "host", "free"}
  BY <1>1, CallerNow
<1>3. CASE caller.kind = "vm" /\ ~flag
  <2>1. AssignVar(result, counts, live, blks, Below)
    BY <1>1, <1>3 DEF ReturnTo
  <2>2. Calmer(stack', Below, n, 0)
    BY <1>1, <1>2, <2>1, AssignCalm
  <2> QED
    BY <1>1, <1>2, <1>3, <2>2 DEF Calmer
<1>4. CASE ~(caller.kind = "vm" /\ ~flag)
  <2> DEFINE g == CASE caller.kind = "vm"     -> [caller EXCEPT !.flag = TRUE]
                    [] caller.kind = "native" -> caller
                    [] caller.kind = "host"   -> [caller EXCEPT !.phase = "leave",
                                                                !.next = caller.base + 1]
                    [] caller.kind = "free"   -> [caller EXCEPT !.phase = "leave"]
  <2>1. stack' = [Below EXCEPT ![n] = g]
    BY <1>1, <1>4 DEF ReturnTo
  <2> HIDE DEF caller
  <2>2. g \in Frames /\ g.kind = caller.kind /\ (caller.kind # "vm" => g.flag = caller.flag)
    <3>1. CASE caller.kind = "vm"
      <4>1. g = [caller EXCEPT !.flag = TRUE]
        BY <3>1
      <4> QED
        BY <1>2, <3>1, <4>1 DEF Frames
    <3>2. CASE caller.kind = "native"
      <4>1. g = caller
        BY <3>2
      <4> QED
        BY <1>2, <4>1
    <3>3. CASE caller.kind = "host"
      <4>1. g = [caller EXCEPT !.phase = "leave", !.next = caller.base + 1]
        BY <3>3
      <4>2. caller.base + 1 \in Nat
        BY <1>2 DEF Frames
      <4> QED
        BY <1>2, <4>1, <4>2 DEF Frames
    <3>4. CASE caller.kind = "free"
      <4>1. g = [caller EXCEPT !.phase = "leave"]
        BY <3>4
      <4> QED
        BY <1>2, <4>1 DEF Frames
    <3> QED
      BY <1>2, <3>1, <3>2, <3>3, <3>4
  <2> HIDE DEF g
  <2>3. Len(stack') = n /\ stack'[n] = g /\ \A j \in 1 .. n - 1 : stack'[j] = Below[j]
    BY <1>1, <1>2, <2>1, <2>2, ExceptFacts
  <2>4. caller = stack[n]
    BY <1>1, <1>2 DEF caller
  <2> QED
    BY <1>1, <1>2, <1>4, <2>2, <2>3, <2>4 DEF Calmer
<1> QED
  BY <1>1, <1>2, <1>3, <1>4

LEMMA EnterCalm ==
  ASSUME IInv, NEW k \in Kinds, NEW arg \in ObjectOrNull, Enter(k, arg)
  PROVE  Calmer(stack', stack, Len(stack), 0)
<1>1. stack \in Seq(Frames) /\ mtop \in Nat
  BY NowGood
<1>2. CASE k = "vm"
  <2>1. VmFrame(arg) \in Frames /\ ~VmFrame(arg).flag
    BY FrameFields DEF VmFrame, Frames
  <2> QED
    BY <1>1, <1>2, <2>1, PushCalm DEF Enter
<1>3. CASE k = "native"
  <2> DEFINE g == [ScopeFrame("native") EXCEPT !.var = arg]
  <2>1. g \in Frames /\ ~g.flag
    BY <1>1, FrameFields DEF ScopeFrame, Frames
  <2>2. stack' = Append(stack, g)
    BY <1>3 DEF Enter
  <2> HIDE DEF g
  <2> QED
    BY <1>1, <2>1, <2>2, PushCalm
<1> QED
  BY <1>2, <1>3 DEF Kinds

-----------------------------------------------------------------------------
(* Every step keeps the exceptions quiet.                                  *)

LEMMA RaisedQuiet ==
  ASSUME Quiet, NEW s \in Strings, Level = 0
  PROVE  [raiser EXCEPT ![s] = Level] = raiser
BY DEF Quiet

LEMMA QuietSame ==
  ASSUME IInv, Quiet, NEW m \in Nat, m <= Len(stack), Calmer(stack', stack, m, 0),
         UNCHANGED <<exc, raiser>>
  PROVE  Quiet'
<1>1. Len(stack) \in Nat /\ QuietStack(stack, exc) /\ exc' = exc /\ raiser' = raiser /\ 0 \in Nat
  BY NowGood DEF Quiet
<1>2. QuietStack(stack', exc)
  BY <1>1, QuietKept
<1> QED
  BY <1>1, <1>2 DEF Quiet

(* One more frame has the flag, the exception is set.                      *)
LEMMA QuietRaised ==
  ASSUME IInv, Quiet, NEW m \in Nat, m <= Len(stack), NEW new \in Nat,
         Calmer(stack', stack, m, new), raiser' = raiser, exc' # NULL,
         new # 0 => new \in 1 .. Len(stack) /\ \A i \in 1 .. new : stack[i].kind # "free"
  PROVE  Quiet'
<1>1. Len(stack) \in Nat /\ QuietStack(stack, exc)
  BY NowGood DEF Quiet
<1>2. QuietStack(stack', exc')
  BY <1>1, QuietKept
<1> QED
  BY <1>2 DEF Quiet

(* The exception changes, perhaps to null, when no activation handles one. *)
LEMMA QuietCleared ==
  ASSUME IInv, Quiet, Level = 0, stack # <<>>, Top.kind # "write", Top.kind = "vm" => ~Top.flag,
         Calmer(stack', stack, Len(stack), 0), raiser' = raiser
  PROVE  Quiet'
<1> DEFINE n == Len(stack)
<1>1. n \in Nat \ {0} /\ QuietStack(stack, exc) /\ Top = stack[n]
  BY NowGood, NowTop DEF Quiet
<1>2. Calmer(stack', stack, n, 0)
  OBVIOUS
<1>3. \A i \in 1 .. n : stack[i].kind # "free"
  BY LevelZero
<1>4. ASSUME NEW j \in 1 .. Len(stack'), stack'[j].kind = "vm", stack'[j].flag PROVE FALSE
  <2>1. j <= n /\ stack[j].kind = "vm" /\ stack[j].flag
    BY <1>2, <1>4 DEF Calmer
  <2>2. j \in 1 .. n - 1
    BY <1>1, <2>1
  <2> QED
    BY <1>1, <1>3, <2>1, <2>2, NoneBelow
<1>5. QuietStack(stack', exc')
  BY <1>1, <1>2, <1>4, QuietKept
<1> QED
  BY <1>5 DEF Quiet

LEMMA Unreleased ==
  ASSUME IInv, Quiet, stack # <<>>, Top.kind \in {"vm", "native"}, Top.flag
  PROVE  Level = 0 /\ (Top.kind = "vm" => exc # NULL)
<1>1. Len(stack) \in 1 .. Len(stack) /\ Top = stack[Len(stack)]
  BY NowTop
<1>2. \A i \in 1 .. Len(stack) : stack[i].kind # "free"
  BY <1>1 DEF Quiet, QuietStack
<1> QED
  BY <1>1, <1>2, LevelZero DEF Quiet, QuietStack

LEMMA QuietAssign ==
  ASSUME IInv, Quiet, (\E o \in Objects : NewObject(o)) \/ MoveUndef \/ GetExceptionVar \/ VmLeaveScope
  PROVE  Quiet'
<1>1. PICK new, counts, live, blks :
        /\ new \in ObjectOrNull /\ stack # <<>> /\ AssignVar(new, counts, live, blks, stack)
        /\ UNCHANGED <<exc, raiser>>
  <2>1. CASE \E o \in Objects : NewObject(o)
    BY <2>1 DEF NewObject, VmRuns, Running, ObjectOrNull
  <2>2. CASE MoveUndef
    BY <2>2 DEF MoveUndef, VmRuns, Running, ObjectOrNull
  <2>3. CASE GetExceptionVar
    <3>1. exc \in ObjectOrNull
      BY NowGood DEF ObjectOrNull, Objects
    <3> QED
      BY <2>3, <3>1 DEF GetExceptionVar, VmRuns, Running
  <2>4. CASE VmLeaveScope
    BY <2>4 DEF VmLeaveScope, Leaving, ObjectOrNull
  <2> QED
    BY <2>1, <2>2, <2>3, <2>4
<1>2. stack \in Seq(Frames) /\ Len(stack) \in Nat
  BY NowGood
<1>3. Calmer(stack', stack, Len(stack), 0)
  BY <1>1, <1>2, AssignCalm
<1> QED
  BY <1>1, <1>2, <1>3, QuietSame

LEMMA QuietSet ==
  ASSUME IInv, Quiet, Noisy = FALSE,
         \/ \E s \in Strings \cup {NULL} : SetExceptionVar(s) \/ NativeSetException(s)
         \/ EvalStart
  PROVE  Quiet'
<1>1. /\ stack # <<>> /\ Top.kind \in {"vm", "native"} /\ (Top.kind = "vm" => ~Top.flag) /\ MayRaise
      /\ \/ stack' = stack
         \/ stack' = WithTop([Top EXCEPT !.eval = TRUE]) /\ ~Top.flag
      /\ raiser' = raiser \/ \E s \in Strings : raiser' = [raiser EXCEPT ![s] = Level]
  <2>1. CASE \E s \in Strings \cup {NULL} : SetExceptionVar(s)
    BY <2>1 DEF SetExceptionVar, SetException, VmRuns, Running
  <2>2. CASE \E s \in Strings \cup {NULL} : NativeSetException(s)
    <3>1. PICK s \in Strings \cup {NULL} : NativeSetException(s)
      BY <2>2
    <3>2. NativeRuns /\ MayRaise /\ stack' = stack
          /\ (raiser' = IF s = NULL THEN raiser ELSE [raiser EXCEPT ![s] = Level])
      BY <3>1 DEF NativeSetException, SetException
    <3> QED
      BY <3>2 DEF NativeRuns, Running
  <2>3. CASE EvalStart
    BY <2>3 DEF EvalStart, SetException, VmRuns, Running
  <2> QED
    BY <2>1, <2>2, <2>3
<1>2. Level = 0
  BY <1>1 DEF MayRaise
<1>3. raiser' = raiser
  BY <1>1, <1>2, RaisedQuiet
<1>4. Calmer(stack', stack, Len(stack), 0)
  <2>1. CASE stack' = stack
    BY <2>1 DEF Calmer
  <2>2. CASE stack' = WithTop([Top EXCEPT !.eval = TRUE]) /\ ~Top.flag
    <3> DEFINE g == [Top EXCEPT !.eval = TRUE]
    <3>1. g \in Frames /\ g.kind = Top.kind /\ ~g.flag
      BY <1>1, <2>2, NowTop DEF Frames
    <3> HIDE DEF g
    <3>2. Calmer(WithTop(g), stack, Len(stack), 0)
      BY <1>1, <3>1, TopCalm
    <3> QED
      BY <2>2, <3>2 DEF g
  <2> QED
    BY <1>1, <2>1, <2>2
<1> QED
  BY <1>1, <1>2, <1>3, <1>4, QuietCleared

LEMMA QuietCroak == ASSUME IInv, Quiet, Noisy = FALSE, Croak PROVE Quiet'
<1> DEFINE g == [Top EXCEPT !.flag = TRUE]
           n == Len(stack)
<1>1. /\ stack # <<>> /\ Top.var \in Strings /\ MayRaise
      /\ raiser' = [raiser EXCEPT ![Top.var] = Level] /\ exc' = Top.var /\ stack' = WithTop(g)
  BY DEF Croak, SetException, VmRuns, Running
<1>2. Level = 0
  BY <1>1 DEF MayRaise
<1>3. raiser' = raiser
  BY <1>1, <1>2, RaisedQuiet
<1>4. g \in Frames /\ g.kind = Top.kind
  BY <1>1, NowTop DEF Frames
<1> HIDE DEF g
<1>5. n \in Nat \ {0} /\ n \in 1 .. Len(stack)
  BY <1>1, NowTop
<1>6. Calmer(stack', stack, n, n)
  BY <1>1, <1>4, TopCalm
<1>7. \A i \in 1 .. n : stack[i].kind # "free"
  BY <1>2, LevelZero
<1>8. exc' # NULL
  BY <1>1, NullFacts
<1> QED
  BY <1>3, <1>5, <1>6, <1>7, <1>8, QuietRaised

(* The frame on top moves on.                                              *)
LEMMA QuietTop ==
  ASSUME IInv, Quiet, stack # <<>>, NEW g \in Frames, g.kind = Top.kind, g.flag => Top.flag,
         stack' = WithTop(g), UNCHANGED <<exc, raiser>>
  PROVE  Quiet'
<1>1. Len(stack) \in Nat
  BY NowGood
<1>2. Calmer(stack', stack, Len(stack), 0)
  BY TopCalm
<1> QED
  BY <1>1, <1>2, QuietSame

LEMMA QuietMove ==
  ASSUME IInv, Quiet,
         \/ EvalEnd \/ NativeEnterScope \/ NativeLeaveScope \/ ClearEntry \/ LeaveInner
         \/ \E o \in ObjectOrNull : Return(o)
  PROVE  Quiet'
<1>1. stack # <<>> /\ UNCHANGED <<exc, raiser>>
  BY DEF EvalEnd, NativeEnterScope, NativeLeaveScope, ClearEntry, LeaveInner, Return,
         VmRuns, NativeRuns, LeavesScope, Running
<1>2. Top \in Frames /\ mtop \in Nat /\ Top.next + 1 \in Nat /\ Top.inner \in Nat \cup {-1}
  BY <1>1, NowTop, NowGood DEF Frames
<1>3. CASE EvalEnd
  <2> DEFINE g == [Top EXCEPT !.eval = FALSE]
  <2>1. stack' = WithTop(g) /\ g \in Frames /\ g.kind = Top.kind /\ g.flag = Top.flag
    BY <1>2, <1>3 DEF EvalEnd, Frames
  <2> QED
    BY <1>1, <2>1, QuietTop
<1>4. CASE NativeEnterScope
  <2> DEFINE g == [Top EXCEPT !.inner = mtop]
  <2>1. stack' = WithTop(g) /\ g \in Frames /\ g.kind = Top.kind /\ g.flag = Top.flag
    BY <1>2, <1>4 DEF NativeEnterScope, Frames
  <2> QED
    BY <1>1, <2>1, QuietTop
<1>5. CASE NativeLeaveScope
  <2> DEFINE g == [Top EXCEPT !.phase = "inner", !.next = Top.inner + 1]
  <2>1. Top.inner + 1 \in Nat
    BY <1>2
  <2>2. stack' = WithTop(g) /\ g \in Frames /\ g.kind = Top.kind /\ g.flag = Top.flag
    BY <1>2, <1>5, <2>1 DEF NativeLeaveScope, Frames
  <2> QED
    BY <1>1, <2>2, QuietTop
<1>6. CASE ClearEntry
  <2> DEFINE g == [Top EXCEPT !.next = @ + 1, !.clear = FALSE]
  <2>1. stack' = WithTop(g)
    BY <1>6 DEF ClearEntry
  <2>2. g \in Frames /\ g.kind = Top.kind /\ g.flag = Top.flag
    BY <1>2 DEF Frames
  <2> QED
    BY <1>1, <2>1, <2>2, QuietTop
<1>7. CASE LeaveInner
  <2> DEFINE g == [Top EXCEPT !.phase = "run", !.inner = -1]
  <2>1. stack' = WithTop(g) /\ g \in Frames /\ g.kind = Top.kind /\ g.flag = Top.flag
    BY <1>2, <1>7 DEF LeaveInner, Frames
  <2> QED
    BY <1>1, <2>1, QuietTop
<1>8. ASSUME NEW o \in ObjectOrNull, Return(o) PROVE Quiet'
  <2> DEFINE g == [Top EXCEPT !.phase = "leave", !.val = o]
  <2>1. stack' = WithTop(g) /\ g \in Frames /\ g.kind = Top.kind /\ g.flag = Top.flag
    BY <1>2, <1>8 DEF Return, Frames
  <2> QED
    BY <1>1, <2>1, QuietTop
<1> QED
  BY <1>3, <1>4, <1>5, <1>6, <1>7, <1>8

LEMMA QuietNativeReturn ==
  ASSUME IInv, Quiet, Noisy = FALSE, NEW f \in BOOLEAN, NEW o \in ObjectOrNull, NativeReturn(f, o)
  PROVE  Quiet'
<1> DEFINE g == [Top EXCEPT !.phase = "leave", !.next = Top.base + 1, !.val = o, !.flag = f]
           n == Len(stack)
<1>1. /\ stack # <<>> /\ Top.kind = "native" /\ (f => MayRaise) /\ stack' = WithTop(g)
      /\ UNCHANGED <<exc, raiser>>
  BY DEF NativeReturn, NativeRuns, Running
<1>2. Top \in Frames /\ Top.base + 1 \in Nat
  BY <1>1, NowTop DEF Frames
<1>3. g \in Frames /\ g.kind = Top.kind /\ g.flag = f
  BY <1>2 DEF Frames
<1> HIDE DEF g
<1>4. CASE ~f
  BY <1>1, <1>3, <1>4, QuietTop
<1>5. CASE f
  <2>1. Level = 0
    BY <1>1, <1>5 DEF MayRaise
  <2>2. \A i \in 1 .. n : stack[i].kind # "free"
    BY <2>1, LevelZero
  <2>3. n \in Nat \ {0} /\ n \in 1 .. n /\ Top = stack[n]
    BY <1>1, NowTop
  <2>4. Calmer(stack', stack, n, n)
    BY <1>1, <1>3, TopCalm
  <2>5. QuietStack(stack, exc) /\ exc' = exc /\ stack[n].kind # "vm"
    BY <1>1, <2>3 DEF Quiet
  <2>6. QuietStack(stack', exc)
    BY <2>2, <2>3, <2>4, <2>5, QuietKept
  <2> QED
    BY <1>1, <2>6 DEF Quiet
<1> QED
  BY <1>4, <1>5

LEMMA QuietIfException ==
  ASSUME IInv, Quiet, NEW s \in Strings, IfException(s)
  PROVE  Quiet'
<1> DEFINE a == [Top EXCEPT !.flag = FALSE, !.eval = FALSE]
           b == [Top EXCEPT !.phase = "leave"]
           g == IF Top.eval THEN a ELSE b
<1>1. /\ stack # <<>> /\ Top.kind = "vm" /\ Top.flag
      /\ raiser' = [raiser EXCEPT ![s] = Level] /\ exc' = s /\ stack' = WithTop(g)
  BY DEF IfException, SetException, Running
<1>2. Level = 0
  BY <1>1, Unreleased
<1>3. raiser' = raiser
  BY <1>1, <1>2, RaisedQuiet
<1>4. g \in Frames /\ g.kind = Top.kind
  <2>1. a \in Frames /\ a.kind = Top.kind
    BY <1>1, NowTop DEF Frames
  <2>2. b \in Frames /\ b.kind = Top.kind
    BY <1>1, NowTop DEF Frames
  <2> QED
    BY <2>1, <2>2
<1> HIDE DEF g
<1>5. Len(stack) \in Nat /\ exc' # NULL
  BY <1>1, NowGood, NullFacts
<1>6. Calmer(stack', stack, Len(stack), 0)
  BY <1>1, <1>4, TopCalm
<1> QED
  BY <1>3, <1>5, <1>6, QuietRaised

LEMMA QuietCall ==
  ASSUME IInv, Quiet,
         \/ \E k \in Kinds : CallSub(k) \/ FreeDestroy(k)
         \/ \E k \in Kinds, o \in ObjectOrNull : NativeCallSub(k, o)
  PROVE  Quiet'
<1>1. PICK k \in Kinds, arg \in ObjectOrNull : Enter(k, arg) /\ UNCHANGED <<exc, raiser>>
  <2>1. CASE \E k \in Kinds : CallSub(k) \/ FreeDestroy(k)
    <3>1. PICK k \in Kinds : CallSub(k) \/ FreeDestroy(k)
      BY <2>1
    <3>2. stack # <<>>
      BY <3>1 DEF CallSub, FreeDestroy, VmRuns, Running
    <3>3. Top.var \in ObjectOrNull /\ Top.val \in ObjectOrNull
      BY <3>2, NowTop DEF Frames
    <3> QED
      BY <3>1, <3>3 DEF CallSub, FreeDestroy
  <2>2. CASE \E k \in Kinds, o \in ObjectOrNull : NativeCallSub(k, o)
    BY <2>2 DEF NativeCallSub
  <2> QED
    BY <2>1, <2>2
<1>2. Calmer(stack', stack, Len(stack), 0) /\ Len(stack) \in Nat
  BY <1>1, EnterCalm, NowGood
<1> QED
  BY <1>1, <1>2, QuietSame

LEMMA OneLess ==
  ASSUME NEW k \in Nat, k - 1 \in Nat \ {0}
  PROVE  k - 1 \in 1 .. k
OBVIOUS

(* A frame is left; its caller goes on.                                    *)
LEMMA QuietReturn ==
  ASSUME IInv, Quiet, stack # <<>>, Top.kind \in {"vm", "native"},
         NEW flag \in BOOLEAN, NEW result \in ObjectOrNull, NEW counts, NEW live, NEW blks,
         ReturnTo(flag, result, counts, live, blks),
         flag => Top.flag /\ exc' # NULL,
         ~flag => exc' = exc, raiser' = raiser
  PROVE  Quiet'
<1> DEFINE n == Len(stack) - 1
<1>1. /\ n \in Nat \ {0} /\ n <= Len(stack)
      /\ Calmer(stack', stack, n, IF flag THEN n ELSE 0)
  BY ReturnCalm
<1>2. CASE ~flag
  <2>1. Calmer(stack', stack, n, 0)
    BY <1>1, <1>2
  <2> QED
    BY <1>1, <1>2, <2>1, QuietSame
<1>3. CASE flag
  <2>1. Calmer(stack', stack, n, n)
    BY <1>1, <1>3
  <2>2. Level = 0
    BY <1>3, Unreleased
  <2>3. \A i \in 1 .. n : stack[i].kind # "free"
    BY <1>1, <2>2, LevelZero
  <2>4. n \in 1 .. Len(stack)
    BY <1>1, NowGood, OneLess
  <2> QED
    BY <1>1, <1>3, <2>1, <2>3, <2>4, QuietRaised
<1> QED
  BY <1>2, <1>3

LEMMA QuietEndSub == ASSUME IInv, Quiet, EndSub PROVE Quiet'
<1>1. /\ stack # <<>> /\ Top.kind = "vm" /\ UNCHANGED <<exc, raiser>>
      /\ ReturnTo(Top.flag, Top.val, IF Top.flag THEN rc ELSE DecRef(rc, Top.val), alive, blocks - 1)
  BY DEF EndSub, Leaving
<1>2. Top.flag \in BOOLEAN /\ Top.val \in ObjectOrNull
  BY <1>1, NowTop DEF Frames
<1>3. Top.flag => exc' # NULL
  BY <1>1, Unreleased
<1> QED
  BY <1>1, <1>2, <1>3, QuietReturn

LEMMA QuietNativeEnd ==
  ASSUME IInv, Quiet, NEW m \in Strings \cup {NULL}, NativeEnd(m) PROVE Quiet'
<1>1. stack # <<>> /\ Top.kind = "native"
  BY DEF NativeEnd, LeavesScope
<1>2. Top.flag \in BOOLEAN /\ Top.val \in ObjectOrNull /\ NULL \in ObjectOrNull
  BY <1>1, NowTop DEF Frames, ObjectOrNull
<1>3. CASE Top.flag /\ exc = NULL
  <2>1. /\ m \in Strings /\ exc' = m /\ raiser' = [raiser EXCEPT ![m] = Level]
        /\ ReturnTo(TRUE, NULL, [rc EXCEPT ![m] = 2], alive \cup {m}, blocks + 1)
    BY <1>3 DEF NativeEnd
  <2>2. raiser' = raiser
    BY <1>1, <1>3, <2>1, Unreleased, RaisedQuiet
  <2>3. exc' # NULL
    BY <2>1, NullFacts
  <2> QED
    BY <1>1, <1>2, <1>3, <2>1, <2>2, <2>3, QuietReturn
<1>4. CASE ~(Top.flag /\ exc = NULL)
  <2>1. ReturnTo(Top.flag, Top.val, DecRef(rc, Top.val), alive, blocks) /\ UNCHANGED <<exc, raiser>>
    BY <1>4 DEF NativeEnd
  <2> QED
    BY <1>1, <1>2, <1>4, <2>1, QuietReturn
<1> QED
  BY <1>3, <1>4

LEMMA QuietLeaveEntry == ASSUME IInv, Quiet, LeaveEntry PROVE Quiet'
<1> DEFINE g == [Top EXCEPT !.clear = TRUE]
           o == mortal[Top.next]
           n == Len(stack)
           t == WithTop(g)
<1>1. /\ LeavesScope /\ ~Top.clear /\ Top.next <= mtop /\ Drop(o, rc, alive, blocks, t)
      /\ UNCHANGED <<exc, raiser>>
  BY DEF LeaveEntry
<1>2. stack # <<>> /\ stack \in Seq(Frames) /\ n \in Nat \ {0} /\ Top \in Frames /\ FrameOK(Top)
  BY <1>1, NowGood, NowTop DEF LeavesScope
<1>3. o \in ObjectOrNull
  <2>1. Top.next \in Nat /\ Top.next > 0
    BY <1>1, <1>2 DEF LeavesScope, FrameOK, Frames
  <2>2. mortal \in Seq(ObjectOrNull) /\ mtop \in 0 .. Len(mortal)
    BY NowGood
  <2> QED
    BY <1>1, <2>1, <2>2
<1>4. g \in Frames /\ g.kind = Top.kind /\ g.flag = Top.flag
  BY <1>2 DEF Frames
<1> HIDE DEF g, o
<1>5. t \in Seq(Frames) /\ Len(t) = n
  BY <1>2, <1>4, TopFacts DEF WithTop, Below
<1>6. Calmer(t, stack, n, 0)
  BY <1>2, <1>4, TopCalm
<1> HIDE DEF t
<1>7. Calmer(stack', t, n, 0)
  BY <1>1, <1>3, <1>5, DropCalm
<1>8. Calmer(stack', stack, n, 0)
  BY <1>2, <1>5, <1>6, <1>7 DEF Calmer
<1> QED
  BY <1>1, <1>2, <1>8, QuietSame

LEMMA QuietPop ==
  ASSUME IInv, Quiet, AssignWrite \/ HostEnd \/ FreeBlock PROVE Quiet'
<1> DEFINE n == Len(stack) - 1
<1>1. stack # <<>> /\ UNCHANGED <<exc, raiser>>
  BY DEF AssignWrite, HostEnd, FreeBlock, LeavesScope, Running, Leaving
<1>2. /\ Below \in Seq(Frames) /\ Len(Below) = n /\ \A j \in 1 .. n : Below[j] = stack[j]
      /\ n \in Nat /\ n <= Len(stack)
  BY <1>1, NowGood, PopFacts DEF Below
<1>3. CASE HostEnd \/ FreeBlock
  <2>1. stack' = Below
    BY <1>3 DEF HostEnd, FreeBlock
  <2>2. Calmer(stack', stack, n, 0)
    BY <1>2, <2>1 DEF Calmer
  <2> QED
    BY <1>1, <1>2, <2>2, QuietSame
<1>4. CASE AssignWrite
  <2>1. Top.kind = "write" /\ stack' = [Below EXCEPT ![Len(Below)].var = Top.val]
    BY <1>4 DEF AssignWrite, Running
  <2>2. Len(stack) \in 1 .. Len(stack) /\ Top = stack[Len(stack)] /\ Top.val \in ObjectOrNull
    BY <1>1, NowTop DEF Frames
  <2>3. n > 0
    <3>1. StackOK(stack, mortal, mtop)
      BY NowGood DEF Good
    <3> QED
      BY <2>1, <2>2, <3>1, StackFacts
  <2>4. Below # <<>>
    BY <1>2, <2>3
  <2>5. /\ Len(stack') = Len(Below)
        /\ \A j \in 1 .. Len(Below) : stack'[j].kind = Below[j].kind /\ stack'[j].flag = Below[j].flag
    BY <1>2, <2>1, <2>2, <2>4, VarCalm
  <2>6. Calmer(stack', stack, n, 0)
    BY <1>2, <2>5 DEF Calmer
  <2> QED
    BY <1>1, <1>2, <2>6, QuietSame
<1> QED
  BY <1>3, <1>4

LEMMA QuietHost ==
  ASSUME IInv, Quiet, (\E o \in Instances : EntryPoint(o)) \/ CallBeginBlocks \/ FreeEnv
  PROVE  Quiet'
<1>1. stack = <<>> /\ raiser' = raiser
  BY DEF EntryPoint, CallBeginBlocks, FreeEnv
<1>2. \A j \in 1 .. Len(stack') : ~stack'[j].flag
  <2>1. mtop \in Nat
    BY NowGood
  <2>2. ASSUME NEW o \in ObjectOrNull, stack' = <<ScopeFrame("host"), VmFrame(o)>>
        PROVE  \A j \in 1 .. Len(stack') : ~stack'[j].flag
    <3>1. ~ScopeFrame("host").flag /\ ~VmFrame(o).flag
      BY FrameFields DEF ScopeFrame, VmFrame, Frames
    <3> QED
      BY <2>2, <3>1
  <2>3. CASE \E o \in Instances : EntryPoint(o)
    BY <2>2, <2>3 DEF EntryPoint, ObjectOrNull, Objects
  <2>4. CASE CallBeginBlocks
    BY <2>2, <2>4 DEF CallBeginBlocks, ObjectOrNull
  <2>5. CASE FreeEnv
    BY <1>1, <2>5 DEF FreeEnv, SetException
  <2> QED
    BY <2>3, <2>4, <2>5
<1>3. QuietStack(stack', exc')
  BY <1>2 DEF QuietStack
<1> QED
  BY <1>1, <1>3 DEF Quiet

LEMMA QuietNativeNew ==
  ASSUME IInv, Quiet, \E o \in Objects : NativeNew(o) PROVE Quiet'
<1>1. UNCHANGED <<exc, raiser, stack>>
  BY DEF NativeNew
<1> QED
  BY <1>1 DEF Quiet

LEMMA NextQuiet ==
  ASSUME Noisy = FALSE, IInv, Quiet, [Next]_vars PROVE Quiet'
<1>1. CASE UNCHANGED vars
  BY <1>1 DEF vars, Quiet
<1>2. CASE (\E o \in Instances : EntryPoint(o)) \/ CallBeginBlocks \/ FreeEnv
  BY <1>2, QuietHost
<1>3. CASE Program
  <2>1. CASE (\E o \in Objects : NewObject(o)) \/ MoveUndef \/ GetExceptionVar
    BY <2>1, QuietAssign
  <2>2. CASE \E o \in Objects : NativeNew(o)
    BY <2>2, QuietNativeNew
  <2>3. CASE Croak
    BY <2>3, QuietCroak
  <2>4. CASE (\E s \in Strings \cup {NULL} : SetExceptionVar(s) \/ NativeSetException(s)) \/ EvalStart
    BY <2>4, QuietSet
  <2>5. CASE \/ EvalEnd \/ NativeEnterScope \/ NativeLeaveScope
             \/ \E o \in ObjectOrNull : Return(o)
    BY <2>5, QuietMove
  <2>6. CASE \/ \E k \in Kinds : CallSub(k)
             \/ \E k \in Kinds, o \in ObjectOrNull : NativeCallSub(k, o)
    BY <2>6, QuietCall
  <2>7. CASE \E f \in BOOLEAN, o \in ObjectOrNull : NativeReturn(f, o)
    BY <2>7, QuietNativeReturn
  <2> QED
    BY <1>3, <2>1, <2>2, <2>3, <2>4, <2>5, <2>6, <2>7 DEF Program
<1>4. CASE Runtime
  <2>1. CASE AssignWrite \/ HostEnd \/ FreeBlock
    BY <2>1, QuietPop
  <2>2. CASE VmLeaveScope
    BY <2>2, QuietAssign
  <2>3. CASE EndSub
    BY <2>3, QuietEndSub
  <2>4. CASE \E s \in Strings : IfException(s)
    BY <2>4, QuietIfException
  <2>5. CASE LeaveEntry
    BY <2>5, QuietLeaveEntry
  <2>6. CASE ClearEntry \/ LeaveInner
    BY <2>6, QuietMove
  <2>7. CASE \E s \in Strings \cup {NULL} : NativeEnd(s)
    BY <2>7, QuietNativeEnd
  <2>8. CASE \E k \in Kinds : FreeDestroy(k)
    BY <2>8, QuietCall
  <2> QED
    BY <1>4, <2>1, <2>2, <2>3, <2>4, <2>5, <2>6, <2>7, <2>8 DEF Runtime
<1> QED
  BY <1>1, <1>2, <1>3, <1>4 DEF Next

LEMMA QuietKeepsException == IInv /\ Quiet => ExceptionKept
<1> SUFFICES ASSUME IInv, Quiet, stack # <<>>, Top.kind = "vm", Top.flag
             PROVE  exc # NULL /\ raiser[exc] = Level
  BY DEF ExceptionKept
<1>1. Level = 0 /\ exc # NULL
  BY Unreleased
<1>2. exc \in Strings
  BY <1>1, NowGood
<1> QED
  BY <1>1, <1>2 DEF Quiet

(***************************************************************************)
(* ExceptionKept: as long as no DESTROY uses eval, croak or the exception  *)
(* variable, an activation that handles an exception finds the object and  *)
(* keeps it while its variable is released, destructors included.          *)
(***************************************************************************)
THEOREM ExceptionSurvives ==
  ASSUME Noisy = FALSE
  PROVE  Spec => []ExceptionKept
<1>1. Init => Quiet
  BY DEF Init, Quiet, QuietStack
<1>2. IInv /\ Quiet /\ [Next]_vars => Quiet'
  BY NextQuiet
<1>3. IInv /\ Quiet => ExceptionKept
  BY QuietKeepsException
<1> QED
  BY <1>1, <1>2, <1>3, Invariant, PTL DEF Spec
=============================================================================
