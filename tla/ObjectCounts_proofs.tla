------------------------ MODULE ObjectCounts_proofs ------------------------
(***************************************************************************)
(* Reference counts of the object memory are exact, for every number of    *)
(* objects, fields, variables and activations, when the program uses no    *)
(* weak references and every DESTROY keeps to its own object.              *)
(*                                                                         *)
(* The inductive invariant says who may still know an object while it is   *)
(* being released: nothing but the activations of its own DESTROY.  So     *)
(* when the release comes to its end nobody is left, and the slots whose   *)
(* pointer is no longer counted are never read.                            *)
(***************************************************************************)
EXTENDS ObjectMemory_proofs

(***************************************************************************)
(* Released, Holders, InFlight and Freeing of any slots sl and stack st.   *)
(***************************************************************************)
Gone(st, s) ==
  \E i \in 1 .. Len(st) :
    \/ st[i].kind = "assign" /\ st[i].dst = s
    \/ st[i].kind = "free" /\ \E n \in Fields : n < st[i].n /\ s = <<st[i].obj, n>>

HoldersIn(sl, st, o) == {s \in Slots : sl[s] = o /\ ~Gone(st, s)}
FlightsIn(st, o) == {i \in 1 .. Len(st) : st[i].val = o}
FreesIn(st, o) == {i \in 1 .. Len(st) : st[i].kind = "free" /\ st[i].obj = o}

Count(sl, st, o) ==
  Cardinality(HoldersIn(sl, st, o)) + Cardinality(FlightsIn(st, o)) + Cardinality(FreesIn(st, o))

(* Counts are exact; only the object lax may be alive without a reference. *)
Exact(live, counts, sl, st, lax) ==
  \A o \in Objects :
    /\ Count(sl, st, o) = IF o \in live THEN counts[o] ELSE 0
    /\ o \in live /\ o # lax => counts[o] > 0

(* The frame f on top of the frame b.                                      *)
Link(b, f) ==
  /\ f.kind = "assign" => b.kind = "sub" \/ (b.kind = "leave" /\ f.dst \in VarSlots /\ f.val = NULL)
  /\ f.kind = "free" => b.kind \in {"assign", "free"}
  /\ Activation(f) =>
       \/ b.kind = "sub" /\ b.obj = f.obj
       \/ b.kind = "free" /\ b.n = 1 /\ b.obj = f.obj /\ f.dst = NoSlot

(* Results are in the frames that have somewhere to put them.              *)
ResultOK(f) ==
  /\ f.kind \in {"sub", "free"} => f.val = NULL
  /\ f.kind = "leave" /\ f.dst = NoSlot => f.val = NULL

(* The code of a DESTROY runs right above the release that called it, and  *)
(* the code of the host below every release.                               *)
OwnerBelow(st, j) ==
  \E k \in 1 .. j - 1 :
    /\ st[k].kind = "free" /\ st[k].n = 1 /\ st[k].obj = st[j].obj
    /\ \A m \in k + 1 .. j : Activation(st[m])

Shape(st) ==
  /\ st # <<>> => Activation(st[1]) /\ st[1].obj = NULL /\ st[1].dst = NoSlot
  /\ \A i \in 1 .. Len(st) : ResultOK(st[i])
  /\ \A i \in 2 .. Len(st) : Link(st[i - 1], st[i])
  /\ \A i \in 1 .. Len(st) : Activation(st[i]) /\ st[i].obj # NULL => OwnerBelow(st, i)
  /\ \A i \in 1 .. Len(st) : Activation(st[i]) /\ st[i].obj = NULL =>
       \A k \in 1 .. i - 1 : st[k].kind = "sub"
  /\ \A i, j \in 1 .. Len(st) :
       i # j /\ st[i].kind = "free" /\ st[j].kind = "free" => st[i].obj # st[j].obj

(* Who refers to an object under release: only the activations of its own  *)
(* DESTROY, in their variables and results.                                *)
OwnVar(st, k, s) ==
  \E j \in k + 1 .. Len(st) :
    Activation(st[j]) /\ st[j].obj = st[k].obj /\ s \in VarSlots /\ s[1] = Level(st, j)
OwnFlight(st, k, i) ==
  /\ i > k
  /\ \/ Activation(st[i]) /\ st[i].obj = st[k].obj
     \/ st[i].kind = "assign" /\ st[i - 1].obj = st[k].obj /\ st[i].dst \in VarSlots

ReleaseOK(sl, st, k) ==
  /\ \A s \in HoldersIn(sl, st, st[k].obj) : OwnVar(st, k, s)
  /\ \A i \in FlightsIn(st, st[k].obj) : OwnFlight(st, k, i)

(* The object whose field is about to be written stays in a variable of    *)
(* the activation that writes it; package variables are left to the host.  *)
WriteOK(sl, st, i) ==
  /\ st[i].dst \in FieldSlots =>
       /\ \E v \in Vars : <<Level(st, i), v>> \in VarSlots /\ sl[<<Level(st, i), v>>] = st[i].dst[1]
       /\ st[i - 1].obj \in {NULL, st[i].dst[1]}
  /\ st[i].dst \in PackageSlots => st[i - 1].obj = NULL

Good(live, counts, sl, blks, d, st, lax) ==
  /\ live \subseteq Objects
  /\ counts \in [Objects -> Int]
  /\ sl \in [Slots -> ObjectOrNull]
  /\ \A o \in Objects \ live, f \in Fields : sl[<<o, f>>] = NULL
  /\ StackOK(st, d)
  /\ Shape(st)
  /\ \A i \in 1 .. Len(st) :
       /\ st[i].kind = "free" => ReleaseOK(sl, st, i)
       /\ st[i].kind = "assign" => WriteOK(sl, st, i)
  /\ Exact(live, counts, sl, st, lax)
  /\ blks = Cardinality(live) + d

(* No variable is left of activations that are gone, and of the variables  *)
(* a leaving activation has passed at most the one that is being released. *)
Cleared(sl, d, st) ==
  /\ \A e \in 1 .. MaxDepth, v \in Vars : e > d => sl[<<e, v>>] = NULL
  /\ \A i \in 1 .. Len(st), v \in Vars :
       st[i].kind = "leave" /\ v < st[i].n =>
         \/ sl[<<Level(st, i), v>>] = NULL
         \/ i < Len(st) /\ st[i + 1].kind = "assign" /\ st[i + 1].dst = <<Level(st, i), v>>

CountInv ==
  /\ depth \in Depths
  /\ weak = {}
  /\ backref = [o \in Objects |-> <<>>]
  /\ Good(alive, rc, slot, blocks, depth, stack, NULL)
  /\ Cleared(slot, depth, stack)

-----------------------------------------------------------------------------
(* References are finitely many, and one of them changes at a time.        *)

LEMMA SlotsFinite == IsFiniteSet(Slots)
<1>1. /\ IsFiniteSet(1 .. MaxDepth) /\ IsFiniteSet(Vars) /\ IsFiniteSet({0})
      /\ IsFiniteSet(Globals) /\ IsFiniteSet(Objects) /\ IsFiniteSet(Fields)
  <2>1. MaxDepth \in Int /\ NVars \in Int /\ NGlobals \in Int /\ NFields \in Int
    BY MemoryAssumption
  <2>2. /\ IsFiniteSet(1 .. MaxDepth) /\ IsFiniteSet(1 .. NVars)
        /\ IsFiniteSet(1 .. NGlobals) /\ IsFiniteSet(1 .. NFields)
    BY <2>1, FS_Interval
  <2> QED
    BY <2>2, FS_Singleton, MemoryAssumption DEF Vars, Globals, Fields
<1>2. IsFiniteSet(VarSlots) /\ IsFiniteSet(PackageSlots) /\ IsFiniteSet(FieldSlots)
  BY <1>1, FS_Product DEF VarSlots, PackageSlots, FieldSlots
<1>3. IsFiniteSet(VarSlots \cup PackageSlots)
  BY <1>2, FS_Union
<1> QED
  BY <1>2, <1>3, FS_Union DEF Slots

LEMMA CardOne ==
  ASSUME NEW S, NEW T, NEW x, IsFiniteSet(S),
         \A y : y # x => (y \in S <=> y \in T)
  PROVE  /\ IsFiniteSet(T) /\ Cardinality(T) \in Nat /\ Cardinality(S) \in Nat
         /\ Cardinality(T) = Cardinality(S) + (IF x \in T THEN 1 ELSE 0) - (IF x \in S THEN 1 ELSE 0)
<1>1. CASE x \in T
  <2>1. T = S \cup {x}
    BY <1>1
  <2> QED
    BY <1>1, <2>1, FS_AddElement, FS_CardinalityType
<1>2. CASE x \notin T
  <2>1. T = S \ {x}
    BY <1>2
  <2>2. /\ IsFiniteSet(T)
        /\ Cardinality(T) = IF x \in S THEN Cardinality(S) - 1 ELSE Cardinality(S)
    BY <2>1, FS_RemoveElement
  <2>3. Cardinality(T) \in Nat /\ Cardinality(S) \in Nat
    BY <2>2, FS_CardinalityType
  <2> QED
    BY <1>2, <2>2, <2>3
<1> QED
  BY <1>1, <1>2

LEMMA CardSome ==
  ASSUME NEW S, IsFiniteSet(S)
  PROVE  /\ Cardinality(S) \in Nat
         /\ Cardinality(S) = 0 => \A y : y \notin S
         /\ (\A y : y \notin S) => Cardinality(S) = 0
         /\ Cardinality(S) = 1 => \A y, z \in S : y = z
<1>1. Cardinality(S) \in Nat /\ (Cardinality(S) = 0 <=> S = {})
  BY FS_CardinalityType, FS_EmptySet
<1>2. Cardinality(S) = 1 => \E y : S = {y}
  BY FS_Singleton
<1> QED
  BY <1>1, <1>2

LEMMA RefsFinite ==
  ASSUME NEW sl, NEW st, Len(st) \in Nat, NEW o
  PROVE  /\ IsFiniteSet(HoldersIn(sl, st, o))
         /\ IsFiniteSet(FlightsIn(st, o))
         /\ IsFiniteSet(FreesIn(st, o))
<1>1. IsFiniteSet(1 .. Len(st))
  BY FS_Interval
<1>2. /\ HoldersIn(sl, st, o) \subseteq Slots
      /\ FlightsIn(st, o) \subseteq 1 .. Len(st)
      /\ FreesIn(st, o) \subseteq 1 .. Len(st)
  BY DEF HoldersIn, FlightsIn, FreesIn
<1> QED
  BY <1>1, <1>2, SlotsFinite, FS_Subset

(* What the sum of the three numbers says.                                 *)
LEMMA CountFacts ==
  ASSUME NEW sl, NEW st, Len(st) \in Nat, NEW o
  PROVE  LET H == HoldersIn(sl, st, o)
             F == FlightsIn(st, o)
             R == FreesIn(st, o)
         IN /\ Cardinality(H) \in Nat /\ Cardinality(F) \in Nat /\ Cardinality(R) \in Nat
            /\ Count(sl, st, o) \in Nat
            /\ Count(sl, st, o) = Cardinality(H) + Cardinality(F) + Cardinality(R)
            /\ Count(sl, st, o) = 0 => \A x : x \notin H /\ x \notin F /\ x \notin R
            /\ Count(sl, st, o) <= 1 =>
                 /\ \A x \in H : \A y : y \notin F /\ y \notin R /\ (y \in H => y = x)
                 /\ \A x \in R : \A y : y \notin F /\ y \notin H /\ (y \in R => y = x)
<1> DEFINE H == HoldersIn(sl, st, o)
           F == FlightsIn(st, o)
           R == FreesIn(st, o)
<1>1. /\ Cardinality(H) \in Nat
      /\ Cardinality(H) = 0 => \A y : y \notin H
      /\ Cardinality(H) = 1 => \A y, z \in H : y = z
  BY RefsFinite, CardSome
<1>2. /\ Cardinality(F) \in Nat
      /\ Cardinality(F) = 0 => \A y : y \notin F
  BY RefsFinite, CardSome
<1>3. /\ Cardinality(R) \in Nat
      /\ Cardinality(R) = 0 => \A y : y \notin R
      /\ Cardinality(R) = 1 => \A y, z \in R : y = z
  BY RefsFinite, CardSome
<1>4. Count(sl, st, o) = Cardinality(H) + Cardinality(F) + Cardinality(R)
  BY DEF Count
<1> HIDE DEF H, F, R
<1>5. Count(sl, st, o) = 0 => Cardinality(H) = 0 /\ Cardinality(F) = 0 /\ Cardinality(R) = 0
  BY <1>1, <1>2, <1>3, <1>4
<1>6. ASSUME Count(sl, st, o) <= 1, NEW x \in H
      PROVE  Cardinality(H) = 1 /\ Cardinality(F) = 0 /\ Cardinality(R) = 0
  <2>1. Cardinality(H) # 0
    BY <1>1, <1>6
  <2> QED
    BY <2>1, <1>1, <1>2, <1>3, <1>4, <1>6
<1>7. ASSUME Count(sl, st, o) <= 1, NEW x \in R
      PROVE  Cardinality(R) = 1 /\ Cardinality(F) = 0 /\ Cardinality(H) = 0
  <2>1. Cardinality(R) # 0
    BY <1>3, <1>7
  <2> QED
    BY <2>1, <1>1, <1>2, <1>3, <1>4, <1>7
<1>8. Count(sl, st, o) \in Nat
  BY <1>1, <1>2, <1>3, <1>4
<1>9. Count(sl, st, o) <= 1 =>
        /\ \A x \in H : \A y : y \notin F /\ y \notin R /\ (y \in H => y = x)
        /\ \A x \in R : \A y : y \notin F /\ y \notin H /\ (y \in R => y = x)
  BY <1>1, <1>2, <1>3, <1>6, <1>7
<1>10. Count(sl, st, o) = 0 => \A x : x \notin H /\ x \notin F /\ x \notin R
  BY <1>1, <1>2, <1>3, <1>5
<1> QED
  BY <1>1, <1>2, <1>3, <1>4, <1>8, <1>9, <1>10 DEF H, F, R

Ind(x, S) == IF x \in S THEN 1 ELSE 0

LEMMA IndFacts ==
  ASSUME NEW x, NEW S
  PROVE  /\ Ind(x, S) \in Nat
         /\ x \in S => Ind(x, S) = 1
         /\ x \notin S => Ind(x, S) = 0
BY DEF Ind

LEMMA SumMoves ==
  ASSUME NEW x \in Nat, NEW y \in Nat, NEW z \in Nat,
         NEW x2 \in Nat, NEW y2 \in Nat, NEW z2 \in Nat,
         NEW a \in Nat, NEW b \in Nat, NEW c \in Nat,
         NEW a2 \in Nat, NEW b2 \in Nat, NEW c2 \in Nat,
         x2 = x + a2 - a, y2 = y + b2 - b, z2 = z + c2 - c
  PROVE  x2 + y2 + z2 = (x + y + z) + a2 - a + b2 - b + c2 - c
OBVIOUS

(* At most one slot, one result and one release change.                    *)
LEMMA CountMoves ==
  ASSUME NEW sl, NEW st, Len(st) \in Nat, NEW sl2, NEW st2, Len(st2) \in Nat, NEW o,
         NEW s, NEW i, NEW k,
         \A y : y # s => (y \in HoldersIn(sl, st, o) <=> y \in HoldersIn(sl2, st2, o)),
         \A y : y # i => (y \in FlightsIn(st, o) <=> y \in FlightsIn(st2, o)),
         \A y : y # k => (y \in FreesIn(st, o) <=> y \in FreesIn(st2, o))
  PROVE  /\ Count(sl, st, o) \in Nat /\ Count(sl2, st2, o) \in Nat
         /\ Count(sl2, st2, o) = Count(sl, st, o)
              + Ind(s, HoldersIn(sl2, st2, o)) - Ind(s, HoldersIn(sl, st, o))
              + Ind(i, FlightsIn(st2, o)) - Ind(i, FlightsIn(st, o))
              + Ind(k, FreesIn(st2, o)) - Ind(k, FreesIn(st, o))
<1> DEFINE H == HoldersIn(sl, st, o)    H2 == HoldersIn(sl2, st2, o)
           F == FlightsIn(st, o)        F2 == FlightsIn(st2, o)
           R == FreesIn(st, o)          R2 == FreesIn(st2, o)
           x == Cardinality(H)    y == Cardinality(F)    z == Cardinality(R)
           x2 == Cardinality(H2)  y2 == Cardinality(F2)  z2 == Cardinality(R2)
           a2 == Ind(s, H2)  a == Ind(s, H)
           b2 == Ind(i, F2)  b == Ind(i, F)
           c2 == Ind(k, R2)  c == Ind(k, R)
<1>0. IsFiniteSet(H) /\ IsFiniteSet(F) /\ IsFiniteSet(R)
  BY RefsFinite
<1>1. x \in Nat /\ x2 \in Nat /\ x2 = x + a2 - a
  BY <1>0, CardOne DEF Ind
<1>2. y \in Nat /\ y2 \in Nat /\ y2 = y + b2 - b
  BY <1>0, CardOne DEF Ind
<1>3. z \in Nat /\ z2 \in Nat /\ z2 = z + c2 - c
  BY <1>0, CardOne DEF Ind
<1>4. Count(sl, st, o) = x + y + z /\ Count(sl2, st2, o) = x2 + y2 + z2
  BY DEF Count
<1>5. a2 \in Nat /\ a \in Nat /\ b2 \in Nat /\ b \in Nat /\ c2 \in Nat /\ c \in Nat
  BY DEF Ind
<1>6. /\ Count(sl, st, o) \in Nat /\ Count(sl2, st2, o) \in Nat
      /\ Count(sl2, st2, o) = Count(sl, st, o) + a2 - a + b2 - b + c2 - c
  <2> HIDE DEF a2, a, b2, b, c2, c, x, y, z, x2, y2, z2
  <2>1. x2 + y2 + z2 = (x + y + z) + a2 - a + b2 - b + c2 - c
    BY <1>1, <1>2, <1>3, <1>5, SumMoves
  <2> QED
    BY <1>1, <1>2, <1>3, <1>4, <2>1
<1> QED
  BY <1>6

-----------------------------------------------------------------------------
(* Levels grow with the activations.                                       *)

LEMMA LevelGrows ==
  ASSUME NEW st, NEW i \in Nat, NEW j \in Nat, i <= j
  PROVE  /\ Level(st, i) \in Nat /\ Level(st, j) \in Nat
         /\ Level(st, i) <= Level(st, j)
         /\ i < j /\ Activation(st[j]) => Level(st, i) < Level(st, j)
<1>1. IsFiniteSet(Activations(st, j)) /\ IsFiniteSet(Activations(st, i))
      /\ Level(st, i) \in Nat /\ Level(st, j) \in Nat
  BY LevelType
<1>2. Activations(st, i) \subseteq Activations(st, j)
  BY DEF Activations
<1>3. Level(st, i) <= Level(st, j)
  BY <1>1, <1>2, FS_Subset DEF Level
<1>4. ASSUME i < j, Activation(st[j]) PROVE Level(st, i) # Level(st, j)
  <2>1. j \in Activations(st, j) /\ j \notin Activations(st, i)
    BY <1>4 DEF Activations
  <2> QED
    BY <2>1, <1>1, <1>2, FS_Subset DEF Level
<1> QED
  BY <1>1, <1>3, <1>4

(* The frames of a stack within which the level does not change but once.  *)
LEMMA LevelHere ==
  ASSUME NEW st, NEW n \in Nat \ {0}
  PROVE  /\ Level(st, n) \in Nat /\ Level(st, n - 1) \in Nat
         /\ Activation(st[n]) => Level(st, n) = Level(st, n - 1) + 1
         /\ ~Activation(st[n]) => Level(st, n) = Level(st, n - 1)
<1>1. n - 1 \in Nat /\ (n - 1) + 1 = n
  OBVIOUS
<1>2. Level(st, (n - 1) + 1)
        = IF Activation(st[(n - 1) + 1]) THEN Level(st, n - 1) + 1 ELSE Level(st, n - 1)
  BY <1>1, LevelNext
<1>3. Level(st, n) \in Nat /\ Level(st, n - 1) \in Nat
  BY <1>1, LevelType
<1> QED
  BY <1>1, <1>2, <1>3

(* A frame is pushed, two are pushed, the top is replaced or popped.       *)
Pushed(st, n, t, f) ==
  /\ t \in Seq(Frames) /\ n \in Nat /\ n = Len(st) /\ Len(t) = n + 1
  /\ \A i \in 1 .. n : t[i] = st[i]
  /\ t[n + 1] = f
Replaced(st, n, t, f) ==
  /\ t \in Seq(Frames) /\ n \in Nat \ {0} /\ n = Len(st) /\ Len(t) = n
  /\ \A i \in 1 .. n - 1 : t[i] = st[i]
  /\ t[n] = f
Popped(st, n, t) ==
  /\ t \in Seq(Frames) /\ n \in Nat \ {0} /\ n = Len(st) /\ Len(t) = n - 1
  /\ \A i \in 1 .. n - 1 : t[i] = st[i]

LEMMA PushedFacts ==
  ASSUME NEW st \in Seq(Frames), NEW f \in Frames
  PROVE  Pushed(st, Len(st), Append(st, f), f)
BY DEF Pushed

LEMMA PoppedFacts ==
  ASSUME NEW st \in Seq(Frames), st # <<>>
  PROVE  Popped(st, Len(st), SubSeq(st, 1, Len(st) - 1))
<1> DEFINE n == Len(st) - 1
<1>1. Len(st) \in Nat \ {0} /\ n \in Nat /\ n <= Len(st)
  OBVIOUS
<1> HIDE DEF n
<1>2. SubSeq(st, 1, n) \in Seq(Frames) /\ Len(SubSeq(st, 1, n)) = n
  BY <1>1
<1>3. \A j \in 1 .. n : SubSeq(st, 1, n)[j] = st[j]
  BY <1>1
<1> QED
  BY <1>1, <1>2, <1>3 DEF n, Popped

LEMMA ReplacedFacts ==
  ASSUME NEW st \in Seq(Frames), st # <<>>, NEW f \in Frames
  PROVE  Replaced(st, Len(st), Append(SubSeq(st, 1, Len(st) - 1), f), f)
<1> DEFINE b == SubSeq(st, 1, Len(st) - 1)
<1>1. Popped(st, Len(st), b)
  BY PoppedFacts
<1>2. b \in Seq(Frames) /\ Len(b) = Len(st) - 1 /\ Len(st) \in Nat \ {0}
      /\ \A j \in 1 .. Len(st) - 1 : b[j] = st[j]
  BY <1>1 DEF Popped
<1> HIDE DEF b
<1>3. Pushed(b, Len(b), Append(b, f), f)
  BY <1>2, PushedFacts
<1> QED
  BY <1>2, <1>3 DEF b, Pushed, Replaced

LEMMA LevelsKept ==
  ASSUME NEW st, NEW t, NEW n \in Nat, \A i \in 1 .. n : t[i] = st[i]
  PROVE  \A i \in 0 .. n : Level(t, i) = Level(st, i)
<1> SUFFICES ASSUME NEW i \in 0 .. n PROVE Level(t, i) = Level(st, i)
  OBVIOUS
<1>1. i \in Nat /\ \A j \in 1 .. i : t[j] = st[j]
  OBVIOUS
<1> QED
  BY <1>1, LevelAgree

LEMMA LevelReplaced ==
  ASSUME NEW st, NEW t, NEW n, NEW f, Replaced(st, n, t, f), Activation(f) <=> Activation(st[n])
  PROVE  \A i \in 0 .. n : Level(t, i) = Level(st, i)
<1>0. n \in Nat \ {0} /\ n - 1 \in Nat /\ t[n] = f /\ \A i \in 1 .. n - 1 : t[i] = st[i]
  BY DEF Replaced
<1>1. \A i \in 0 .. n - 1 : Level(t, i) = Level(st, i)
  BY <1>0, LevelsKept
<1>2. Level(t, n) = Level(st, n)
  <2>1. /\ Level(t, n - 1) = Level(st, n - 1)
        /\ Level(st, n - 1) \in Nat
    BY <1>0, <1>1, LevelHere
  <2>2. /\ Activation(st[n]) => Level(st, n) = Level(st, n - 1) + 1
        /\ ~Activation(st[n]) => Level(st, n) = Level(st, n - 1)
    BY <1>0, LevelHere
  <2>3. /\ Activation(t[n]) => Level(t, n) = Level(t, n - 1) + 1
        /\ ~Activation(t[n]) => Level(t, n) = Level(t, n - 1)
    BY <1>0, LevelHere
  <2> QED
    BY <1>0, <2>1, <2>2, <2>3
<1> QED
  BY <1>0, <1>1, <1>2

-----------------------------------------------------------------------------
(* The shape of the stack.                                                 *)

LEMMA ShapePushed ==
  ASSUME NEW st, NEW n, NEW t, NEW f, Shape(st), Pushed(st, n, t, f), ResultOK(f),
         n = 0 => Activation(f) /\ f.obj = NULL /\ f.dst = NoSlot,
         n > 0 => Link(st[n], f),
         Activation(f) /\ f.obj # NULL =>
           st[n].obj = f.obj /\ ((st[n].kind = "free" /\ st[n].n = 1) \/ Activation(st[n])),
         Activation(f) /\ f.obj = NULL => \A k \in 1 .. n : st[k].kind = "sub",
         f.kind = "free" => \A k \in 1 .. n : st[k].kind = "free" => st[k].obj # f.obj
  PROVE  Shape(t)
<1>1. /\ t \in Seq(Frames) /\ n \in Nat /\ n = Len(st) /\ Len(t) = n + 1
      /\ \A i \in 1 .. n : t[i] = st[i]
      /\ t[n + 1] = f
  BY DEF Pushed
<1>2. Activation(t[1]) /\ t[1].obj = NULL /\ t[1].dst = NoSlot
  <2>1. CASE n = 0
    BY <1>1, <2>1
  <2>2. CASE n > 0
    <3>1. st # <<>> /\ t[1] = st[1]
      BY <1>1, <2>2
    <3> QED
      BY <3>1 DEF Shape
  <2> QED
    BY <1>1, <2>1, <2>2
<1>3. \A i \in 1 .. n + 1 : ResultOK(t[i])
  BY <1>1 DEF Shape
<1>4. ASSUME NEW i \in 2 .. n + 1 PROVE Link(t[i - 1], t[i])
  <2>1. CASE i = n + 1
    BY <1>1, <2>1
  <2>2. CASE i # n + 1
    <3>1. i \in 2 .. n /\ t[i] = st[i] /\ t[i - 1] = st[i - 1]
      BY <1>1, <2>2
    <3> QED
      BY <3>1, <1>1 DEF Shape
  <2> QED
    BY <2>1, <2>2
<1>5. ASSUME NEW i \in 1 .. n, OwnerBelow(st, i) PROVE OwnerBelow(t, i)
  <2>1. PICK k \in 1 .. i - 1 :
          /\ st[k].kind = "free" /\ st[k].n = 1 /\ st[k].obj = st[i].obj
          /\ \A m \in k + 1 .. i : Activation(st[m])
    BY <1>5 DEF OwnerBelow
  <2>2. t[k] = st[k] /\ t[i] = st[i] /\ \A m \in k + 1 .. i : t[m] = st[m]
    BY <1>1
  <2> QED
    BY <2>1, <2>2 DEF OwnerBelow
<1>6. ASSUME Activation(f), f.obj # NULL PROVE OwnerBelow(t, n + 1)
  <2>1. st[n].obj = f.obj /\ ((st[n].kind = "free" /\ st[n].n = 1) \/ Activation(st[n]))
    BY <1>6
  <2>0. n > 0
    BY <1>1, <1>6
  <2>2. CASE st[n].kind = "free" /\ st[n].n = 1
    <3>1. n \in 1 .. (n + 1) - 1 /\ t[n] = st[n] /\ \A m \in n + 1 .. n + 1 : t[m] = f
      BY <1>1, <2>0
    <3> QED
      BY <1>1, <1>6, <2>1, <2>2, <3>1 DEF OwnerBelow
  <2>3. CASE Activation(st[n])
    <3>1. OwnerBelow(st, n)
      BY <1>1, <1>6, <2>0, <2>1, <2>3 DEF Shape
    <3>2. PICK k \in 1 .. n - 1 :
          /\ st[k].kind = "free" /\ st[k].n = 1 /\ st[k].obj = st[n].obj
          /\ \A m \in k + 1 .. n : Activation(st[m])
      BY <3>1 DEF OwnerBelow
    <3>3. k \in 1 .. (n + 1) - 1 /\ t[k] = st[k]
      BY <1>1
    <3>4. \A m \in k + 1 .. n + 1 : Activation(t[m])
      BY <1>1, <1>6, <3>2
    <3> QED
      BY <1>1, <2>1, <3>2, <3>3, <3>4 DEF OwnerBelow
  <2> QED
    BY <2>1, <2>2, <2>3
<1>7. ASSUME NEW i \in 1 .. n + 1, Activation(t[i]), t[i].obj # NULL PROVE OwnerBelow(t, i)
  <2>1. CASE i = n + 1
    BY <1>1, <1>6, <1>7, <2>1
  <2>2. CASE i # n + 1
    <3>1. i \in 1 .. n /\ t[i] = st[i]
      BY <1>1, <2>2
    <3> QED
      BY <1>1, <1>5, <1>7, <3>1 DEF Shape
  <2> QED
    BY <2>1, <2>2
<1>8. ASSUME NEW i \in 1 .. n + 1, Activation(t[i]), t[i].obj = NULL, NEW k \in 1 .. i - 1
      PROVE  t[k].kind = "sub"
  <2>0. t[k] = st[k] /\ k \in 1 .. n
    BY <1>1
  <2>1. CASE i = n + 1
    BY <1>1, <1>8, <2>0, <2>1
  <2>2. CASE i # n + 1
    <3>1. i \in 1 .. n /\ t[i] = st[i]
      BY <1>1, <2>2
    <3> QED
      BY <1>1, <1>8, <2>0, <3>1 DEF Shape
  <2> QED
    BY <2>1, <2>2
<1>9. ASSUME NEW i \in 1 .. n + 1, NEW j \in 1 .. n + 1, i # j, t[i].kind = "free", t[j].kind = "free"
      PROVE  t[i].obj # t[j].obj
  <2>1. CASE i # n + 1 /\ j # n + 1
    <3>1. i \in 1 .. n /\ j \in 1 .. n /\ t[i] = st[i] /\ t[j] = st[j]
      BY <1>1, <2>1
    <3> QED
      BY <1>1, <1>9, <3>1 DEF Shape
  <2>2. CASE i = n + 1
    <3>1. j \in 1 .. n /\ t[j] = st[j]
      BY <1>1, <1>9, <2>2
    <3> QED
      BY <1>1, <1>9, <2>2, <3>1
  <2>3. CASE j = n + 1
    <3>1. i \in 1 .. n /\ t[i] = st[i]
      BY <1>1, <1>9, <2>3
    <3> QED
      BY <1>1, <1>9, <2>3, <3>1
  <2> QED
    BY <2>1, <2>2, <2>3
<1> QED
  BY <1>1, <1>2, <1>3, <1>4, <1>7, <1>8, <1>9 DEF Shape

(* The top frame moves on: the kind of frame and its object stay.          *)
LEMMA ShapeReplaced ==
  ASSUME NEW st, NEW n, NEW t, NEW f, Shape(st), Replaced(st, n, t, f), ResultOK(f),
         f.kind = "assign" <=> st[n].kind = "assign",
         f.kind = "free" <=> st[n].kind = "free",
         Activation(f) <=> Activation(st[n]),
         f.obj = st[n].obj,
         Activation(f) => f.dst = st[n].dst \/ f.dst = NoSlot,
         f.kind = "assign" => f.dst = st[n].dst /\ f.val = st[n].val
  PROVE  Shape(t)
<1>1. /\ t \in Seq(Frames) /\ n \in Nat \ {0} /\ n = Len(st) /\ Len(t) = n
      /\ \A i \in 1 .. n - 1 : t[i] = st[i]
      /\ t[n] = f
  BY DEF Replaced
<1>2. Activation(t[1]) /\ t[1].obj = NULL /\ t[1].dst = NoSlot
  <2>1. Activation(st[1]) /\ st[1].obj = NULL /\ st[1].dst = NoSlot
    <3>1. st # <<>>
      BY <1>1
    <3> QED
      BY <3>1 DEF Shape
  <2>2. CASE n = 1
    BY <1>1, <2>1, <2>2
  <2>3. CASE n # 1
    BY <1>1, <2>1, <2>3
  <2> QED
    BY <2>2, <2>3
<1>3. \A i \in 1 .. n : ResultOK(t[i])
  BY <1>1 DEF Shape
<1>4. ASSUME NEW i \in 2 .. n PROVE Link(t[i - 1], t[i])
  <2>0. t[i - 1] = st[i - 1] /\ Link(st[i - 1], st[i])
    BY <1>1 DEF Shape
  <2>1. CASE i = n
    BY <1>1, <2>0, <2>1 DEF Link
  <2>2. CASE i # n
    BY <1>1, <2>0, <2>2
  <2> QED
    BY <2>1, <2>2
<1>5. ASSUME NEW i \in 1 .. n, Activation(t[i]), t[i].obj # NULL PROVE OwnerBelow(t, i)
  <2>1. Activation(st[i]) /\ st[i].obj = t[i].obj
    <3>1. CASE i = n
      BY <1>1, <1>5, <3>1
    <3>2. CASE i # n
      BY <1>1, <1>5, <3>2
    <3> QED
      BY <3>1, <3>2
  <2>2. OwnerBelow(st, i)
    BY <1>1, <1>5, <2>1 DEF Shape
  <2>3. PICK k \in 1 .. i - 1 :
          /\ st[k].kind = "free" /\ st[k].n = 1 /\ st[k].obj = st[i].obj
          /\ \A m \in k + 1 .. i : Activation(st[m])
    BY <2>2 DEF OwnerBelow
  <2>4. t[k] = st[k]
    BY <1>1
  <2>5. \A m \in k + 1 .. i : Activation(t[m])
    <3>1. ASSUME NEW m \in k + 1 .. i PROVE Activation(t[m])
      <4>1. CASE m = n
        BY <1>1, <2>3, <4>1
      <4>2. CASE m # n
        BY <1>1, <2>3, <4>2
      <4> QED
        BY <4>1, <4>2
    <3> QED
      BY <3>1
  <2> QED
    BY <2>1, <2>3, <2>4, <2>5 DEF OwnerBelow
<1>6. ASSUME NEW i \in 1 .. n, Activation(t[i]), t[i].obj = NULL, NEW k \in 1 .. i - 1
      PROVE  t[k].kind = "sub"
  <2>1. Activation(st[i]) /\ st[i].obj = NULL
    <3>1. CASE i = n
      BY <1>1, <1>6, <3>1
    <3>2. CASE i # n
      BY <1>1, <1>6, <3>2
    <3> QED
      BY <3>1, <3>2
  <2>2. t[k] = st[k]
    BY <1>1
  <2> QED
    BY <1>1, <1>6, <2>1, <2>2 DEF Shape
<1>7. ASSUME NEW i \in 1 .. n PROVE (t[i].kind = "free" <=> st[i].kind = "free") /\ t[i].obj = st[i].obj
  <2>1. CASE i = n
    BY <1>1, <2>1
  <2>2. CASE i # n
    BY <1>1, <2>2
  <2> QED
    BY <2>1, <2>2
<1>8. ASSUME NEW i \in 1 .. n, NEW j \in 1 .. n, i # j, t[i].kind = "free", t[j].kind = "free"
      PROVE  t[i].obj # t[j].obj
  BY <1>1, <1>7, <1>8 DEF Shape
<1> QED
  BY <1>1, <1>2, <1>3, <1>4, <1>5, <1>6, <1>8 DEF Shape

LEMMA ShapePopped ==
  ASSUME NEW st, NEW n, NEW t, Shape(st), Popped(st, n, t)
  PROVE  Shape(t)
<1>1. /\ t \in Seq(Frames) /\ n \in Nat \ {0} /\ n = Len(st) /\ Len(t) = n - 1
      /\ \A i \in 1 .. n - 1 : t[i] = st[i]
  BY DEF Popped
<1>2. t # <<>> => Activation(t[1]) /\ t[1].obj = NULL /\ t[1].dst = NoSlot
  <2>1. ASSUME t # <<>> PROVE t[1] = st[1] /\ st # <<>>
    BY <1>1, <2>1
  <2> QED
    BY <2>1 DEF Shape
<1>3. \A i \in 1 .. n - 1 : ResultOK(t[i])
  BY <1>1 DEF Shape
<1>4. ASSUME NEW i \in 2 .. n - 1 PROVE Link(t[i - 1], t[i])
  BY <1>1 DEF Shape
<1>5. ASSUME NEW i \in 1 .. n - 1, Activation(t[i]), t[i].obj # NULL PROVE OwnerBelow(t, i)
  <2>1. t[i] = st[i] /\ OwnerBelow(st, i)
    BY <1>1, <1>5 DEF Shape
  <2>2. PICK k \in 1 .. i - 1 :
          /\ st[k].kind = "free" /\ st[k].n = 1 /\ st[k].obj = st[i].obj
          /\ \A m \in k + 1 .. i : Activation(st[m])
    BY <2>1 DEF OwnerBelow
  <2>3. t[k] = st[k] /\ \A m \in k + 1 .. i : t[m] = st[m]
    BY <1>1
  <2> QED
    BY <2>1, <2>2, <2>3 DEF OwnerBelow
<1>6. ASSUME NEW i \in 1 .. n - 1, Activation(t[i]), t[i].obj = NULL, NEW k \in 1 .. i - 1
      PROVE  t[k].kind = "sub"
  <2>1. t[i] = st[i] /\ t[k] = st[k] /\ i \in 1 .. Len(st)
    BY <1>1
  <2> QED
    BY <1>6, <2>1 DEF Shape
<1>7. ASSUME NEW i \in 1 .. n - 1, NEW j \in 1 .. n - 1, i # j, t[i].kind = "free", t[j].kind = "free"
      PROVE  t[i].obj # t[j].obj
  BY <1>1, <1>7 DEF Shape
<1> QED
  BY <1>1, <1>2, <1>3, <1>4, <1>5, <1>6, <1>7 DEF Shape

-----------------------------------------------------------------------------
(* What the invariant says of a state.                                     *)

LEMMA ShapeFacts ==
  ASSUME NEW st, NEW d, StackOK(st, d), Shape(st), NEW i \in 1 .. Len(st)
  PROVE  /\ st \in Seq(Frames) /\ Len(st) \in Nat /\ i \in Nat \ {0}
         /\ st[i] \in Frames /\ FrameOK(st[i], Level(st, i)) /\ ResultOK(st[i])
         /\ st[i].kind \in {"sub", "leave", "assign", "free"}
         /\ ~Activation(st[i]) => i > 1 /\ i - 1 \in 1 .. Len(st)
         /\ i > 1 => Link(st[i - 1], st[i])
         /\ st[i].kind = "assign" => Activation(st[i - 1])
         /\ st[i].kind = "free" => ~Activation(st[i - 1])
<1>1. st \in Seq(Frames) /\ Len(st) \in Nat /\ i \in Nat \ {0}
  BY DEF StackOK
<1>2. FrameOK(st[i], Level(st, i)) /\ st[i] \in Frames /\ ResultOK(st[i])
  BY DEF StackOK, FrameOK, Shape
<1>3. st[i].kind \in {"sub", "leave", "assign", "free"}
  BY <1>2 DEF Frames
<1>4. i > 1 => Link(st[i - 1], st[i])
  BY <1>1 DEF Shape
<1>5. ~Activation(st[i]) => i > 1
  <2>1. st # <<>>
    BY <1>1
  <2>2. Activation(st[1])
    BY <2>1 DEF Shape
  <2>3. ~Activation(st[i]) => i # 1
    BY <2>2
  <2> QED
    BY <1>1, <2>3
<1>6. st[i].kind = "assign" => i > 1 /\ Activation(st[i - 1])
  BY <1>4, <1>5 DEF Link, Activation
<1>7. st[i].kind = "free" => i > 1 /\ ~Activation(st[i - 1])
  BY <1>4, <1>5 DEF Link, Activation
<1> QED
  BY <1>1, <1>2, <1>3, <1>4, <1>5, <1>6, <1>7

LEMMA GoodFacts ==
  ASSUME NEW live, NEW counts, NEW sl, NEW blks, NEW d, NEW st, NEW lax,
         Good(live, counts, sl, blks, d, st, lax)
  PROVE  /\ live \subseteq Objects /\ IsFiniteSet(live) /\ Cardinality(live) \in Nat
         /\ counts \in [Objects -> Int]
         /\ sl \in [Slots -> ObjectOrNull]
         /\ StackOK(st, d) /\ Shape(st)
         /\ st \in Seq(Frames) /\ Len(st) \in Nat /\ d \in Nat /\ d = Level(st, Len(st))
         /\ \A i \in 1 .. Len(st) : Level(st, i) \in Nat /\ Level(st, i) <= d
<1>1. /\ live \subseteq Objects /\ counts \in [Objects -> Int] /\ sl \in [Slots -> ObjectOrNull]
      /\ StackOK(st, d) /\ Shape(st)
  BY DEF Good
<1>2. st \in Seq(Frames) /\ Len(st) \in Nat /\ d = Level(st, Len(st))
  BY <1>1 DEF StackOK
<1>3. d \in Nat
  BY <1>2, LevelType
<1>4. ASSUME NEW i \in 1 .. Len(st) PROVE Level(st, i) \in Nat /\ Level(st, i) <= d
  <2>1. i \in Nat /\ i <= Len(st)
    BY <1>2
  <2> QED
    BY <1>2, <2>1, LevelGrows
<1>5. IsFiniteSet(live) /\ Cardinality(live) \in Nat
  BY <1>1, MemoryAssumption, FS_Subset, FS_CardinalityType
<1> QED
  BY <1>1, <1>2, <1>3, <1>4, <1>5

(* Whatever is referred to is allocated, and its count is positive.        *)
LEMMA LiveFacts ==
  ASSUME NEW live, NEW counts, NEW sl, NEW blks, NEW d, NEW st, NEW lax,
         Good(live, counts, sl, blks, d, st, lax), NEW o \in Objects
  PROVE  /\ (\E x : x \in HoldersIn(sl, st, o) \/ x \in FlightsIn(st, o) \/ x \in FreesIn(st, o))
              => o \in live /\ counts[o] > 0
         /\ o \in live => Count(sl, st, o) = counts[o] /\ counts[o] \in Nat
         /\ o \notin live => Count(sl, st, o) = 0
<1>1. Len(st) \in Nat /\ counts \in [Objects -> Int]
  BY GoodFacts
<1>2. Count(sl, st, o) = IF o \in live THEN counts[o] ELSE 0
  BY DEF Good, Exact
<1>3. /\ Count(sl, st, o) \in Nat
      /\ Count(sl, st, o) = 0 =>
           \A x : x \notin HoldersIn(sl, st, o) /\ x \notin FlightsIn(st, o) /\ x \notin FreesIn(st, o)
  BY <1>1, CountFacts
<1>4. ASSUME \E x : x \in HoldersIn(sl, st, o) \/ x \in FlightsIn(st, o) \/ x \in FreesIn(st, o)
      PROVE  o \in live /\ counts[o] > 0
  <2>1. Count(sl, st, o) # 0
    BY <1>3, <1>4
  <2>2. o \in live
    BY <1>2, <2>1
  <2>3. Count(sl, st, o) = counts[o]
    BY <1>2, <2>2
  <2> QED
    BY <1>3, <2>1, <2>2, <2>3
<1>5. o \in live => Count(sl, st, o) = counts[o] /\ counts[o] \in Nat
  BY <1>2, <1>3
<1>6. o \notin live => Count(sl, st, o) = 0
  BY <1>2
<1> QED
  BY <1>4, <1>5, <1>6

LEMMA SlotKinds ==
  /\ \A s \in VarSlots : s \in Slots /\ s \notin FieldSlots /\ s \notin PackageSlots
  /\ \A s \in FieldSlots : s \in Slots /\ s \notin VarSlots /\ s \notin PackageSlots
                           /\ s[1] \in Objects /\ s[2] \in Fields /\ s = <<s[1], s[2]>>
  /\ \A s \in PackageSlots : s \in Slots /\ s \notin FieldSlots /\ s \notin VarSlots
  /\ \A s \in Slots : s \in VarSlots \/ s \in FieldSlots \/ s \in PackageSlots
  /\ NoSlot \notin Slots
<1>1. \A s \in PackageSlots : s \notin FieldSlots
  BY MemoryAssumption DEF FieldSlots, PackageSlots, Depths
<1>2. \A s \in FieldSlots : s[1] \in Objects /\ s[2] \in Fields /\ s = <<s[1], s[2]>>
  BY DEF FieldSlots
<1>3. \A s \in VarSlots : s \in Slots
  BY DEF Slots
<1> QED
  BY <1>1, <1>2, <1>3, SlotsApart DEF Slots

(* A level has at most one pending write.                                  *)
LEMMA AssignLevels ==
  ASSUME NEW st, NEW d, StackOK(st, d), Shape(st),
         NEW i \in 1 .. Len(st), NEW j \in 1 .. Len(st), i < j,
         st[i].kind = "assign", st[j].kind = "assign"
  PROVE  Level(st, i) < Level(st, j)
<1>1. /\ Len(st) \in Nat /\ j > 1 /\ j - 1 \in 1 .. Len(st) /\ Activation(st[j - 1])
      /\ ~Activation(st[i])
  BY ShapeFacts DEF Activation
<1>2. i # j - 1
  BY <1>1
<1>3. i \in Nat /\ j \in Nat /\ j - 1 \in Nat /\ i < j - 1 /\ j - 1 <= j
  BY <1>1, <1>2
<1>4. Level(st, i) \in Nat /\ Level(st, j - 1) \in Nat /\ Level(st, i) < Level(st, j - 1)
  BY <1>1, <1>3, LevelGrows
<1>5. Level(st, j) \in Nat /\ Level(st, j - 1) <= Level(st, j)
  BY <1>3, LevelGrows
<1> QED
  BY <1>4, <1>5

(* The variables of the innermost activation of a stack, up to frame m,    *)
(* are not the destination of a pending write below.                       *)
LEMMA VarBelow ==
  ASSUME NEW st, NEW d, StackOK(st, d), Shape(st),
         NEW m \in 1 .. Len(st), Activation(st[m]), NEW i \in 1 .. m - 1,
         st[i].kind = "assign", st[i].dst \in VarSlots
  PROVE  st[i].dst[1] < Level(st, m)
<1>1. i \in 1 .. Len(st) /\ i \in Nat /\ m \in Nat /\ i < m
  BY DEF StackOK
<1>2. FrameOK(st[i], Level(st, i))
  BY <1>1 DEF StackOK
<1>3. Level(st, i) \in Nat /\ Level(st, i) < Level(st, m)
  BY <1>1, LevelGrows
<1> QED
  BY <1>2, <1>3 DEF FrameOK

(* The object whose field awaits a write is held by a variable of the      *)
(* activation that writes, and a release of it lies further below.         *)
LEMMA WriteHolder ==
  ASSUME NEW live, NEW counts, NEW sl, NEW blks, NEW d, NEW st, NEW lax,
         Good(live, counts, sl, blks, d, st, lax),
         NEW i \in 1 .. Len(st), st[i].kind = "assign", st[i].dst \in FieldSlots
  PROVE  LET q == st[i].dst[1] IN
         /\ q \in Objects /\ q \in live /\ counts[q] > 0
         /\ \E s \in HoldersIn(sl, st, q) : s \in VarSlots /\ s[1] = Level(st, i)
         /\ st[i - 1].obj \in {NULL, q}
         /\ \A k \in 1 .. Len(st) : st[k].kind = "free" /\ st[k].obj = q => k < i
<1> DEFINE q == st[i].dst[1]
<1>0. /\ StackOK(st, d) /\ Shape(st) /\ Len(st) \in Nat /\ i \in Nat
      /\ ~Activation(st[i])
  BY GoodFacts DEF Activation
<1>1. q \in Objects
  BY SlotKinds
<1>2. WriteOK(sl, st, i)
  BY DEF Good
<1>3. PICK v \in Vars : <<Level(st, i), v>> \in VarSlots /\ sl[<<Level(st, i), v>>] = q
  BY <1>2 DEF WriteOK
<1> DEFINE s == <<Level(st, i), v>>
<1>4. s \in VarSlots /\ s \in Slots /\ s[1] = Level(st, i) /\ sl[s] = q /\ s \notin FieldSlots
  BY <1>3, SlotKinds
<1> HIDE DEF s
<1>5. ~Gone(st, s)
  <2>1. ASSUME NEW k \in 1 .. Len(st), st[k].kind = "assign", st[k].dst = s PROVE FALSE
    <3>1. FrameOK(st[k], Level(st, k))
      BY <2>1 DEF StackOK, Good
    <3>2. Level(st, k) = Level(st, i)
      BY <1>4, <2>1, <3>1 DEF FrameOK
    <3>3. k # i
      BY <1>4, <2>1
    <3>4. k \in Nat /\ (k < i \/ i < k)
      BY <1>0, <3>3
    <3>5. Level(st, k) \in Nat /\ Level(st, i) \in Nat
      BY <1>0, GoodFacts
    <3> QED
      BY <1>0, <2>1, <3>2, <3>4, <3>5, AssignLevels
  <2>2. ASSUME NEW k \in 1 .. Len(st), st[k].kind = "free", NEW n \in Fields, s = <<st[k].obj, n>>
        PROVE  FALSE
    <3>1. FrameOK(st[k], Level(st, k))
      BY <2>2 DEF StackOK, Good
    <3>2. s \in FieldSlots
      BY <2>2, <3>1 DEF FrameOK, FieldSlots
    <3> QED
      BY <3>2, <1>4
  <2> QED
    BY <2>1, <2>2 DEF Gone
<1>6. s \in HoldersIn(sl, st, q)
  BY <1>4, <1>5 DEF HoldersIn
<1>7. q \in live /\ counts[q] > 0
  BY <1>1, <1>6, LiveFacts
<1>8. ASSUME NEW k \in 1 .. Len(st), st[k].kind = "free", st[k].obj = q PROVE k < i
  <2>1. ReleaseOK(sl, st, k)
    BY <1>8 DEF Good
  <2>2. OwnVar(st, k, s)
    BY <2>1, <1>6, <1>8 DEF ReleaseOK
  <2>3. PICK j \in k + 1 .. Len(st) : Activation(st[j]) /\ Level(st, j) = Level(st, i)
    BY <2>2, <1>4 DEF OwnVar
  <2>4. j \in Nat /\ k \in Nat /\ k < j
    BY <1>0
  <2>5. ASSUME i < j PROVE FALSE
    <3>1. Level(st, i) \in Nat /\ Level(st, i) < Level(st, j)
      BY <2>3, <2>4, <2>5, <1>0, LevelGrows
    <3> QED
      BY <3>1, <2>3
  <2> QED
    BY <2>4, <2>5, <1>0
<1>9. st[i - 1].obj \in {NULL, q}
  BY <1>2 DEF WriteOK
<1> QED
  BY <1>1, <1>4, <1>6, <1>7, <1>8, <1>9 DEF q

(* Nobody but the code of a DESTROY uses the fields of its object, and     *)
(* nothing is being released under the code of the host: what an           *)
(* activation may read or write is not awaiting a write nor released.      *)
LEMMA FieldBelow ==
  ASSUME NEW live, NEW counts, NEW sl, NEW blks, NEW d, NEW st, NEW lax,
         Good(live, counts, sl, blks, d, st, lax),
         NEW m \in 1 .. Len(st), Activation(st[m]), NEW s \in FieldSlots,
         st[m].obj \in {NULL, s[1]}, NEW i \in 1 .. m - 1
  PROVE  /\ ~(st[i].kind = "assign" /\ st[i].dst = s)
         /\ ~(st[i].kind = "free" /\ \E n \in Fields : n < st[i].n /\ s = <<st[i].obj, n>>)
<1>0. /\ StackOK(st, d) /\ Shape(st) /\ Len(st) \in Nat /\ i \in 1 .. Len(st)
      /\ i \in Nat /\ m \in Nat /\ i < m
  BY GoodFacts
<1>1. CASE st[m].obj = NULL
  <2>1. st[i].kind = "sub"
    BY <1>0, <1>1 DEF Shape
  <2> QED
    BY <2>1
<1>2. CASE st[m].obj # NULL
  <2>0. st[m].obj = s[1]
    BY <1>2
  <2>1. OwnerBelow(st, m)
    BY <1>0, <1>2 DEF Shape
  <2>2. PICK k \in 1 .. m - 1 :
          /\ st[k].kind = "free" /\ st[k].n = 1 /\ st[k].obj = s[1]
          /\ \A j \in k + 1 .. m : Activation(st[j])
    BY <2>0, <2>1 DEF OwnerBelow
  <2>3. k \in Nat /\ k \in 1 .. Len(st)
    BY <1>0
  <2>4. ASSUME st[i].kind = "assign", st[i].dst = s PROVE FALSE
    <3>1. k < i
      BY <2>2, <2>3, <2>4, WriteHolder
    <3>2. Activation(st[i])
      BY <1>0, <2>2, <2>3, <3>1
    <3> QED
      BY <2>4, <3>2 DEF Activation
  <2>5. ASSUME st[i].kind = "free", NEW n \in Fields, n < st[i].n, s = <<st[i].obj, n>> PROVE FALSE
    <3>1. st[i].obj = st[k].obj
      BY <2>2, <2>5
    <3>2. i = k
      BY <1>0, <2>2, <2>3, <2>5, <3>1 DEF Shape
    <3> QED
      BY <2>2, <2>5, <3>2, MemoryAssumption DEF Fields
  <2> QED
    BY <2>4, <2>5
<1> QED
  BY <1>1, <1>2

-----------------------------------------------------------------------------
(* OBJECT_ASSIGN: what the innermost activation of a stack may write.      *)

Target(live, sl, d, st, dst, new) ==
  LET n == Len(st) IN
  /\ st # <<>> /\ Activation(st[n])
  /\ dst \in Slots
  /\ dst \in VarSlots => dst[1] = d
  /\ dst \in FieldSlots =>
       /\ \E v \in Vars : <<d, v>> \in VarSlots /\ sl[<<d, v>>] = dst[1]
       /\ st[n].obj \in {NULL, dst[1]}
  /\ dst \in PackageSlots => st[n].obj = NULL
  /\ new \in live \cup {NULL}
  /\ \A k \in 1 .. n : st[k].kind = "free" /\ st[k].obj = new => dst \in VarSlots /\ st[n].obj = new
  /\ st[n].kind = "leave" => dst \in VarSlots /\ new = NULL

(* A variable of the innermost activation is an ordinary reference.        *)
LEMMA OwnVarFree ==
  ASSUME NEW st, NEW d, StackOK(st, d), Shape(st), st # <<>>, Activation(st[Len(st)]),
         NEW s \in VarSlots, s[1] = d
  PROVE  ~Gone(st, s)
<1>1. st \in Seq(Frames) /\ Len(st) \in Nat \ {0} /\ Len(st) \in 1 .. Len(st) /\ d = Level(st, Len(st))
  BY DEF StackOK
<1>2. s \notin FieldSlots
  BY SlotKinds
<1>3. ASSUME NEW i \in 1 .. Len(st), st[i].kind = "assign", st[i].dst = s PROVE FALSE
  <2>1. i \in 1 .. Len(st) - 1
    BY <1>1, <1>3 DEF Activation
  <2>2. st[i].dst[1] < Level(st, Len(st))
    BY <1>1, <1>3, <2>1, VarBelow
  <2>3. d \in Nat
    BY <1>1, LevelType
  <2> QED
    BY <1>1, <1>3, <2>2, <2>3
<1>4. ASSUME NEW i \in 1 .. Len(st), st[i].kind = "free", NEW n \in Fields, s = <<st[i].obj, n>>
      PROVE  FALSE
  <2>1. FrameOK(st[i], Level(st, i))
    BY DEF StackOK
  <2> QED
    BY <1>2, <1>4, <2>1 DEF FrameOK, FieldSlots
<1> QED
  BY <1>3, <1>4 DEF Gone

LEMMA TargetFacts ==
  ASSUME NEW live, NEW counts, NEW sl, NEW blks, NEW d, NEW st, NEW lax,
         Good(live, counts, sl, blks, d, st, lax),
         NEW dst, NEW new, Target(live, sl, d, st, dst, new)
  PROVE  /\ ~Gone(st, dst)
         /\ dst \in FieldSlots => dst[1] \in live
         /\ sl[dst] \in ObjectOrNull
         /\ sl[dst] # NULL => sl[dst] \in live /\ counts[sl[dst]] > 0 /\ dst \in HoldersIn(sl, st, sl[dst])
         /\ new # NULL => new \in live
<1> DEFINE n == Len(st)
<1>0. /\ StackOK(st, d) /\ Shape(st) /\ n \in Nat \ {0} /\ n \in 1 .. n
      /\ Activation(st[n]) /\ d = Level(st, n)
      /\ dst \in Slots /\ sl \in [Slots -> ObjectOrNull]
  BY GoodFacts DEF Target
<1>00. ASSUME \A i \in 1 .. n - 1 :
                /\ ~(st[i].kind = "assign" /\ st[i].dst = dst)
                /\ ~(st[i].kind = "free" /\ \E f \in Fields : f < st[i].n /\ dst = <<st[i].obj, f>>)
       PROVE  ~Gone(st, dst)
  <2>1. st[n].kind # "assign" /\ st[n].kind # "free"
    BY <1>0 DEF Activation
  <2>2. \A i \in 1 .. Len(st) : i = n \/ i \in 1 .. n - 1
    BY <1>0
  <2> HIDE DEF n
  <2> QED
    BY <1>00, <2>1, <2>2 DEF Gone
<1>1. ASSUME dst \in VarSlots PROVE ~Gone(st, dst)
  <2>1. dst[1] = d /\ st # <<>> /\ Activation(st[Len(st)])
    BY <1>1 DEF Target
  <2>2. ~Gone(st, dst)
    BY <1>0, <1>1, <2>1, OwnVarFree
  <2> QED
    BY <2>2
<1>2. ASSUME dst \in FieldSlots PROVE ~Gone(st, dst)
  <2>1. st[n].obj \in {NULL, dst[1]}
    BY <1>2 DEF Target
  <2>2. \A i \in 1 .. n - 1 :
          /\ ~(st[i].kind = "assign" /\ st[i].dst = dst)
          /\ ~(st[i].kind = "free" /\ \E f \in Fields : f < st[i].n /\ dst = <<st[i].obj, f>>)
    BY <1>0, <1>2, <2>1, FieldBelow
  <2> QED
    BY <1>00, <2>2
<1>3. ASSUME dst \in PackageSlots PROVE ~Gone(st, dst)
  <2>1. st[n].obj = NULL
    BY <1>3 DEF Target
  <2>2. \A i \in 1 .. n - 1 : st[i].kind = "sub"
    BY <1>0, <2>1 DEF Shape
  <2> QED
    BY <1>00, <2>2
<1>4. ~Gone(st, dst)
  BY <1>0, <1>1, <1>2, <1>3, SlotKinds
<1>5. ASSUME dst \in FieldSlots PROVE dst[1] \in live
  <2>1. PICK v \in Vars : <<d, v>> \in VarSlots /\ sl[<<d, v>>] = dst[1]
    BY <1>5 DEF Target
  <2> DEFINE s == <<d, v>>
  <2>2. s \in VarSlots /\ s[1] = d /\ sl[s] = dst[1] /\ s \in Slots
    BY <2>1, SlotKinds
  <2> HIDE DEF s
  <2>3. ~Gone(st, s)
    BY <1>0, <2>2, OwnVarFree
  <2>4. s \in HoldersIn(sl, st, dst[1]) /\ dst[1] \in Objects
    BY <1>5, <2>2, <2>3, SlotKinds DEF HoldersIn
  <2> QED
    BY <2>4, LiveFacts
<1>6. sl[dst] \in ObjectOrNull
  BY <1>0
<1>7. ASSUME sl[dst] # NULL
      PROVE  sl[dst] \in live /\ counts[sl[dst]] > 0 /\ dst \in HoldersIn(sl, st, sl[dst])
  <2>1. sl[dst] \in Objects
    BY <1>6, <1>7 DEF ObjectOrNull
  <2>2. dst \in HoldersIn(sl, st, sl[dst])
    BY <1>0, <1>4 DEF HoldersIn
  <2> QED
    BY <2>1, <2>2, LiveFacts
<1>8. new # NULL => new \in live
  BY DEF Target
<1> QED
  BY <1>4, <1>5, <1>6, <1>7, <1>8

(* The old referent stays alive: the slot is written at once.              *)
LEMMA Wrote ==
  ASSUME NEW live, NEW counts, NEW sl, NEW blks, NEW d, NEW st, NEW lax,
         Good(live, counts, sl, blks, d, st, lax),
         NEW dst, NEW new, Target(live, sl, d, st, dst, new), lax \in {NULL, new},
         NEW sl2 \in [Slots -> ObjectOrNull],
         sl2[dst] = new, \A s \in Slots : s # dst => sl2[s] = sl[s],
         NEW counts2 \in [Objects -> Int],
         \A p \in Objects : counts2[p] = counts[p] + (IF p = new THEN 1 ELSE 0)
                                                   - (IF p = sl[dst] THEN 1 ELSE 0),
         sl[dst] # NULL => counts2[sl[dst]] > 0
  PROVE  Good(live, counts2, sl2, blks, d, st, NULL)
<1> DEFINE n == Len(st)
<1>0. /\ StackOK(st, d) /\ Shape(st) /\ n \in Nat \ {0} /\ n \in 1 .. n
      /\ Activation(st[n]) /\ d = Level(st, n) /\ dst \in Slots
      /\ live \subseteq Objects /\ counts \in [Objects -> Int]
      /\ NULL \notin Objects
  BY GoodFacts, MemoryAssumption DEF Target
<1>1. /\ ~Gone(st, dst)
      /\ dst \in FieldSlots => dst[1] \in live
      /\ sl[dst] # NULL => sl[dst] \in live /\ counts[sl[dst]] > 0 /\ dst \in HoldersIn(sl, st, sl[dst])
      /\ new # NULL => new \in live
  BY TargetFacts
<1>2. ASSUME NEW o \in Objects \ live, NEW f \in Fields PROVE sl2[<<o, f>>] = NULL
  <2>1. <<o, f>> \in FieldSlots /\ <<o, f>> \in Slots
    BY SlotKinds DEF FieldSlots
  <2>2. <<o, f>> # dst
    BY <1>1, <2>1
  <2>3. sl[<<o, f>>] = NULL
    BY DEF Good
  <2> QED
    BY <2>1, <2>2, <2>3
<1>3. ASSUME NEW p \in Objects, NEW s, s # dst
      PROVE  s \in HoldersIn(sl, st, p) <=> s \in HoldersIn(sl2, st, p)
  BY <1>3 DEF HoldersIn
<1>4. ASSUME NEW k \in 1 .. n, st[k].kind = "free" PROVE ReleaseOK(sl2, st, k)
  <2>1. ReleaseOK(sl, st, k) /\ st[k].obj \in Objects
    BY <1>4 DEF Good, StackOK, FrameOK
  <2>2. ASSUME NEW s \in HoldersIn(sl2, st, st[k].obj) PROVE OwnVar(st, k, s)
    <3>1. CASE s # dst
      BY <1>3, <2>1, <2>2, <3>1 DEF ReleaseOK
    <3>2. CASE s = dst
      <4>1. st[k].obj = new
        BY <2>2, <3>2 DEF HoldersIn
      <4>2. dst \in VarSlots /\ st[n].obj = new /\ dst[1] = d
        BY <1>4, <4>1 DEF Target
      <4>3. k # n
        BY <1>0, <1>4 DEF Activation
      <4>4. n \in k + 1 .. n
        BY <1>0, <4>3
      <4> QED
        BY <1>0, <3>2, <4>1, <4>2, <4>4 DEF OwnVar
    <3> QED
      BY <3>1, <3>2
  <2> QED
    BY <2>1, <2>2 DEF ReleaseOK
<1>5. ASSUME NEW i \in 1 .. n, st[i].kind = "assign" PROVE WriteOK(sl2, st, i)
  <2>1. WriteOK(sl, st, i)
    BY <1>5 DEF Good
  <2>2. Level(st, i) \in Nat /\ Level(st, i) < d
    <3>1. i # n
      BY <1>0, <1>5 DEF Activation
    <3>2. i \in Nat /\ i < n
      BY <1>0, <3>1
    <3> QED
      BY <1>0, <3>2, LevelGrows
  <2>3. ASSUME NEW v \in Vars, <<Level(st, i), v>> \in VarSlots
        PROVE  sl2[<<Level(st, i), v>>] = sl[<<Level(st, i), v>>]
    <3>1. <<Level(st, i), v>> \in Slots /\ <<Level(st, i), v>>[1] = Level(st, i)
      BY <2>3, SlotKinds
    <3>2. <<Level(st, i), v>> # dst
      BY <2>2, <2>3, <3>1 DEF Target
    <3> QED
      BY <3>1, <3>2
  <2> QED
    BY <2>1, <2>3 DEF WriteOK
<1>6. Exact(live, counts2, sl2, st, NULL)
  <2> SUFFICES ASSUME NEW p \in Objects
               PROVE  /\ Count(sl2, st, p) = IF p \in live THEN counts2[p] ELSE 0
                      /\ p \in live => counts2[p] > 0
    BY DEF Exact
  <2>1. /\ Count(sl, st, p) \in Nat
        /\ Count(sl2, st, p) = Count(sl, st, p)
             + Ind(dst, HoldersIn(sl2, st, p)) - Ind(dst, HoldersIn(sl, st, p))
    <3>1. 0 \notin FlightsIn(st, p) /\ 0 \notin FreesIn(st, p)
      BY DEF FlightsIn, FreesIn
    <3>2. /\ Count(sl, st, p) \in Nat /\ Count(sl2, st, p) \in Nat
          /\ Count(sl2, st, p) = Count(sl, st, p)
               + Ind(dst, HoldersIn(sl2, st, p)) - Ind(dst, HoldersIn(sl, st, p))
               + Ind(0, FlightsIn(st, p)) - Ind(0, FlightsIn(st, p))
               + Ind(0, FreesIn(st, p)) - Ind(0, FreesIn(st, p))
      <4>1. \A y : y # dst => (y \in HoldersIn(sl, st, p) <=> y \in HoldersIn(sl2, st, p))
        BY <1>3
      <4>2. Len(st) \in Nat
        BY <1>0
      <4>3. /\ \A y : y # 0 => (y \in FlightsIn(st, p) <=> y \in FlightsIn(st, p))
            /\ \A y : y # 0 => (y \in FreesIn(st, p) <=> y \in FreesIn(st, p))
        OBVIOUS
      <4> QED
        BY <4>1, <4>2, <4>3, CountMoves
    <3>3. Ind(0, FlightsIn(st, p)) = 0 /\ Ind(0, FreesIn(st, p)) = 0
      BY <3>1, IndFacts
    <3>4. Ind(dst, HoldersIn(sl2, st, p)) \in Nat /\ Ind(dst, HoldersIn(sl, st, p)) \in Nat
      BY IndFacts
    <3> QED
      BY <3>2, <3>3, <3>4
  <2>2. /\ dst \in HoldersIn(sl2, st, p) <=> p = new
        /\ dst \in HoldersIn(sl, st, p) <=> p = sl[dst]
    BY <1>0, <1>1 DEF HoldersIn
  <2>3. Count(sl, st, p) = IF p \in live THEN counts[p] ELSE 0
    BY DEF Good, Exact
  <2>4. p = new => p \in live
    BY <1>0, <1>1
  <2>5. p = sl[dst] => p \in live
    BY <1>0, <1>1
  <2>6. Count(sl2, st, p) = IF p \in live THEN counts2[p] ELSE 0
    <3>1. /\ p = new => Ind(dst, HoldersIn(sl2, st, p)) = 1
          /\ p # new => Ind(dst, HoldersIn(sl2, st, p)) = 0
          /\ p = sl[dst] => Ind(dst, HoldersIn(sl, st, p)) = 1
          /\ p # sl[dst] => Ind(dst, HoldersIn(sl, st, p)) = 0
      BY <2>2, IndFacts
    <3> QED
      BY <2>1, <2>3, <2>4, <2>5, <3>1, <1>0
  <2>7. ASSUME p \in live PROVE counts2[p] > 0
    <3>1. CASE p = sl[dst]
      BY <1>0, <3>1
    <3>2. CASE p # sl[dst] /\ p = new
      <4>1. counts[p] \in Nat
        BY <2>1, <2>3, <2>7
      <4>2. counts2[p] = counts[p] + 1 - 0
        BY <3>2
      <4> QED
        BY <4>1, <4>2
    <3>3. CASE p # sl[dst] /\ p # new
      <4>1. p # lax /\ counts[p] > 0
        BY <1>0, <2>7, <3>3 DEF Good, Exact
      <4> QED
        BY <1>0, <3>3, <4>1
    <3> QED
      BY <3>1, <3>2, <3>3
  <2> QED
    BY <2>6, <2>7
<1>7. blks = Cardinality(live) + d
  BY DEF Good
<1> QED
  BY <1>0, <1>2, <1>4, <1>5, <1>6, <1>7 DEF Good

-----------------------------------------------------------------------------
(* How the parts of the invariant move from one stack to the next.         *)

Alike(st, t) ==
  /\ Len(st) \in Nat /\ Len(t) \in Nat /\ Len(st) <= Len(t)
  /\ \A i \in 1 .. Len(st) :
       /\ t[i].obj = st[i].obj
       /\ Activation(t[i]) <=> Activation(st[i])
       /\ t[i].kind = "assign" <=> st[i].kind = "assign"
       /\ t[i].kind = "assign" => t[i].dst = st[i].dst
       /\ Level(t, i) = Level(st, i)

LEMMA PushedAlike ==
  ASSUME NEW st, NEW n, NEW t, NEW f, Pushed(st, n, t, f)
  PROVE  Alike(st, t)
<1>1. \A i \in 0 .. n : Level(t, i) = Level(st, i)
  BY LevelsKept DEF Pushed
<1> QED
  BY <1>1 DEF Pushed, Alike

LEMMA ReplacedAlike ==
  ASSUME NEW st, NEW n, NEW t, NEW f, Replaced(st, n, t, f),
         f.kind = "assign" <=> st[n].kind = "assign",
         Activation(f) <=> Activation(st[n]),
         f.obj = st[n].obj,
         f.kind = "assign" => f.dst = st[n].dst
  PROVE  Alike(st, t)
<1>1. \A i \in 0 .. n : Level(t, i) = Level(st, i)
  BY LevelReplaced
<1>2. \A i \in 1 .. n : i = n \/ t[i] = st[i]
  BY DEF Replaced
<1> QED
  BY <1>1, <1>2 DEF Replaced, Alike

LEMMA OwnAlike ==
  ASSUME NEW st, NEW t, NEW d, StackOK(st, d), Shape(st), Alike(st, t),
         NEW k \in 1 .. Len(st)
  PROVE  /\ \A s : OwnVar(st, k, s) => OwnVar(t, k, s)
         /\ \A i \in 1 .. Len(st) : OwnFlight(st, k, i) => OwnFlight(t, k, i)
<1>1. ASSUME NEW s, OwnVar(st, k, s) PROVE OwnVar(t, k, s)
  <2>1. PICK j \in k + 1 .. Len(st) :
          Activation(st[j]) /\ st[j].obj = st[k].obj /\ s \in VarSlots /\ s[1] = Level(st, j)
    BY <1>1 DEF OwnVar
  <2>2. j \in 1 .. Len(st) /\ j \in k + 1 .. Len(t)
    BY DEF Alike
  <2> QED
    BY <2>1, <2>2 DEF Alike, OwnVar
<1>2. ASSUME NEW i \in 1 .. Len(st), OwnFlight(st, k, i) PROVE OwnFlight(t, k, i)
  <2>1. CASE Activation(st[i]) /\ st[i].obj = st[k].obj
    BY <1>2, <2>1 DEF Alike, OwnFlight
  <2>2. CASE st[i].kind = "assign" /\ st[i - 1].obj = st[k].obj /\ st[i].dst \in VarSlots
    <3>1. i - 1 \in 1 .. Len(st)
      BY <2>2, ShapeFacts DEF Activation
    <3>2. t[i - 1].obj = st[i - 1].obj /\ t[i].kind = "assign" /\ t[i].dst = st[i].dst
          /\ t[k].obj = st[k].obj
      BY <2>2, <3>1 DEF Alike
    <3> QED
      BY <1>2, <2>2, <3>2 DEF OwnFlight
  <2> QED
    BY <1>2, <2>1, <2>2 DEF OwnFlight
<1> QED
  BY <1>1, <1>2

(* References are added to what the code of a DESTROY holds only.          *)
LEMMA ReleaseAlike ==
  ASSUME NEW st, NEW t, NEW d, StackOK(st, d), Shape(st), Alike(st, t),
         NEW sl, NEW sl2, NEW k \in 1 .. Len(st), ReleaseOK(sl, st, k),
         \A s \in HoldersIn(sl2, t, st[k].obj) : s \in HoldersIn(sl, st, st[k].obj) \/ OwnVar(t, k, s),
         \A i \in FlightsIn(t, st[k].obj) : i \in FlightsIn(st, st[k].obj) \/ OwnFlight(t, k, i)
  PROVE  ReleaseOK(sl2, t, k)
<1>1. t[k].obj = st[k].obj
  BY DEF Alike
<1>2. \A s \in HoldersIn(sl2, t, t[k].obj) : OwnVar(t, k, s)
  BY <1>1, OwnAlike DEF ReleaseOK
<1>3. ASSUME NEW i \in FlightsIn(t, t[k].obj) PROVE OwnFlight(t, k, i)
  <2>1. CASE i \in FlightsIn(st, st[k].obj)
    <3>1. i \in 1 .. Len(st) /\ OwnFlight(st, k, i)
      BY <2>1 DEF ReleaseOK, FlightsIn
    <3> QED
      BY <3>1, OwnAlike
  <2>2. CASE i \notin FlightsIn(st, st[k].obj)
    BY <1>1, <1>3, <2>2
  <2> QED
    BY <2>1, <2>2
<1> QED
  BY <1>2, <1>3 DEF ReleaseOK

LEMMA WriteAlike ==
  ASSUME NEW st, NEW t, NEW d, StackOK(st, d), Shape(st), Alike(st, t),
         NEW sl, NEW sl2, NEW i \in 1 .. Len(st), st[i].kind = "assign", WriteOK(sl, st, i),
         \A v \in Vars : <<Level(st, i), v>> \in VarSlots =>
           sl2[<<Level(st, i), v>>] = sl[<<Level(st, i), v>>]
  PROVE  WriteOK(sl2, t, i)
<1>1. i - 1 \in 1 .. Len(st)
  BY ShapeFacts DEF Activation
<1>2. /\ t[i].dst = st[i].dst /\ t[i - 1].obj = st[i - 1].obj /\ Level(t, i) = Level(st, i)
  BY <1>1 DEF Alike
<1> QED
  BY <1>2 DEF WriteOK

(* Counts follow the references: one slot, one result and one release.     *)
Follows(live, counts, sl, st, counts2, sl2, st2, s, i, k, lax2) ==
  /\ \A p \in Objects : \A y :
       /\ y # s => (y \in HoldersIn(sl, st, p) <=> y \in HoldersIn(sl2, st2, p))
       /\ y # i => (y \in FlightsIn(st, p) <=> y \in FlightsIn(st2, p))
       /\ y # k => (y \in FreesIn(st, p) <=> y \in FreesIn(st2, p))
  /\ \A p \in Objects \ live :
       s \notin HoldersIn(sl2, st2, p) /\ i \notin FlightsIn(st2, p) /\ k \notin FreesIn(st2, p)
  /\ \A p \in live :
       /\ counts2[p] = counts[p]
            + Ind(s, HoldersIn(sl2, st2, p)) - Ind(s, HoldersIn(sl, st, p))
            + Ind(i, FlightsIn(st2, p)) - Ind(i, FlightsIn(st, p))
            + Ind(k, FreesIn(st2, p)) - Ind(k, FreesIn(st, p))
       /\ p # lax2 => counts2[p] > 0

LEMMA ExactMoved ==
  ASSUME NEW live, NEW counts, NEW sl, NEW st, NEW lax, Exact(live, counts, sl, st, lax),
         Len(st) \in Nat, NEW sl2, NEW st2, Len(st2) \in Nat,
         NEW s, NEW i, NEW k, NEW counts2, NEW lax2,
         Follows(live, counts, sl, st, counts2, sl2, st2, s, i, k, lax2)
  PROVE  Exact(live, counts2, sl2, st2, lax2)
<1> SUFFICES ASSUME NEW p \in Objects
             PROVE  /\ Count(sl2, st2, p) = IF p \in live THEN counts2[p] ELSE 0
                    /\ p \in live /\ p # lax2 => counts2[p] > 0
  BY DEF Exact
<1>1. /\ \A y : y # s => (y \in HoldersIn(sl, st, p) <=> y \in HoldersIn(sl2, st2, p))
      /\ \A y : y # i => (y \in FlightsIn(st, p) <=> y \in FlightsIn(st2, p))
      /\ \A y : y # k => (y \in FreesIn(st, p) <=> y \in FreesIn(st2, p))
  BY DEF Follows
<1>2. /\ Count(sl, st, p) \in Nat /\ Count(sl2, st2, p) \in Nat
      /\ Count(sl2, st2, p) = Count(sl, st, p)
              + Ind(s, HoldersIn(sl2, st2, p)) - Ind(s, HoldersIn(sl, st, p))
              + Ind(i, FlightsIn(st2, p)) - Ind(i, FlightsIn(st, p))
              + Ind(k, FreesIn(st2, p)) - Ind(k, FreesIn(st, p))
  BY <1>1, CountMoves
<1>3. Count(sl, st, p) = IF p \in live THEN counts[p] ELSE 0
  BY DEF Exact
<1>4. CASE p \in live
  <2>1. Count(sl, st, p) = counts[p]
    BY <1>3, <1>4
  <2> QED
    BY <1>2, <1>4, <2>1 DEF Follows
<1>5. CASE p \notin live
  <2>1. Count(sl, st, p) = 0
    BY <1>3, <1>5
  <2>2. /\ s \notin HoldersIn(sl, st, p) /\ i \notin FlightsIn(st, p) /\ k \notin FreesIn(st, p)
    BY <2>1, CountFacts
  <2>3. /\ Ind(s, HoldersIn(sl2, st2, p)) = 0 /\ Ind(s, HoldersIn(sl, st, p)) = 0
        /\ Ind(i, FlightsIn(st2, p)) = 0 /\ Ind(i, FlightsIn(st, p)) = 0
        /\ Ind(k, FreesIn(st2, p)) = 0 /\ Ind(k, FreesIn(st, p)) = 0
    BY <1>5, <2>2, IndFacts DEF Follows
  <2> QED
    BY <1>2, <1>5, <2>1, <2>3
<1> QED
  BY <1>4, <1>5

-----------------------------------------------------------------------------
(* Frames stay well formed.                                                *)

LEMMA PushedStack ==
  ASSUME NEW st, NEW d, StackOK(st, d), NEW n, NEW t, NEW f, Pushed(st, n, t, f),
         NEW e, FrameOK(f, e), Activation(f) => e = d + 1, ~Activation(f) => e = d
  PROVE  StackOK(t, e)
<1>1. /\ t \in Seq(Frames) /\ n \in Nat /\ n = Len(st) /\ Len(t) = n + 1
      /\ \A i \in 1 .. n : t[i] = st[i]
      /\ t[n + 1] = f
  BY DEF Pushed
<1>2. \A i \in 0 .. n : Level(t, i) = Level(st, i)
  BY <1>1, LevelsKept
<1>3. Level(t, n) = d
  BY <1>1, <1>2 DEF StackOK
<1>4. n + 1 \in Nat \ {0} /\ (n + 1) - 1 = n
  BY <1>1
<1>5. /\ Activation(t[n + 1]) => Level(t, n + 1) = Level(t, n) + 1
      /\ ~Activation(t[n + 1]) => Level(t, n + 1) = Level(t, n)
  BY <1>4, LevelHere
<1>6. Level(t, n + 1) = e
  BY <1>1, <1>3, <1>5
<1>7. ASSUME NEW i \in 1 .. n + 1 PROVE FrameOK(t[i], Level(t, i))
  <2>1. CASE i = n + 1
    BY <1>1, <1>6, <2>1
  <2>2. CASE i # n + 1
    <3>1. i \in 1 .. n
      BY <1>1, <2>2
    <3> QED
      BY <1>1, <1>2, <3>1 DEF StackOK
  <2> QED
    BY <2>1, <2>2
<1> QED
  BY <1>1, <1>6, <1>7 DEF StackOK

LEMMA ReplacedStack ==
  ASSUME NEW st, NEW d, StackOK(st, d), NEW n, NEW t, NEW f, Replaced(st, n, t, f),
         FrameOK(f, d), Activation(f) <=> Activation(st[n])
  PROVE  StackOK(t, d)
<1>1. /\ t \in Seq(Frames) /\ n \in Nat \ {0} /\ n = Len(st) /\ Len(t) = n
      /\ \A i \in 1 .. n - 1 : t[i] = st[i]
      /\ t[n] = f
  BY DEF Replaced
<1>2. \A i \in 0 .. n : Level(t, i) = Level(st, i)
  BY LevelReplaced
<1>3. Level(t, n) = d
  BY <1>1, <1>2 DEF StackOK
<1>4. ASSUME NEW i \in 1 .. n PROVE FrameOK(t[i], Level(t, i))
  <2>1. CASE i = n
    BY <1>1, <1>3, <2>1
  <2>2. CASE i # n
    <3>1. i \in 1 .. n - 1
      BY <1>1, <2>2
    <3> QED
      BY <1>1, <1>2, <3>1 DEF StackOK
  <2> QED
    BY <2>1, <2>2
<1> QED
  BY <1>1, <1>3, <1>4 DEF StackOK

LEMMA PoppedStack ==
  ASSUME NEW st, NEW d, StackOK(st, d), NEW n, NEW t, Popped(st, n, t)
  PROVE  /\ Activation(st[n]) => StackOK(t, d - 1)
         /\ ~Activation(st[n]) => StackOK(t, d)
         /\ d \in Nat /\ d = Level(st, n) /\ Level(st, n - 1) \in Nat
         /\ Activation(st[n]) => Level(st, n - 1) = d - 1
         /\ ~Activation(st[n]) => Level(st, n - 1) = d
         /\ \A i \in 0 .. n - 1 : Level(t, i) = Level(st, i)
<1>1. /\ t \in Seq(Frames) /\ n \in Nat \ {0} /\ n = Len(st) /\ Len(t) = n - 1
      /\ \A i \in 1 .. n - 1 : t[i] = st[i]
  BY DEF Popped
<1>2. n - 1 \in Nat
  BY <1>1
<1>3. \A i \in 0 .. n - 1 : Level(t, i) = Level(st, i)
  BY <1>1, <1>2, LevelsKept
<1>4. /\ d = Level(st, n) /\ d \in Nat /\ Level(st, n - 1) \in Nat
      /\ Activation(st[n]) => d = Level(st, n - 1) + 1
      /\ ~Activation(st[n]) => d = Level(st, n - 1)
  BY <1>1, LevelHere DEF StackOK
<1>5. Level(t, n - 1) = Level(st, n - 1)
  BY <1>2, <1>3
<1>6. \A i \in 1 .. n - 1 : FrameOK(t[i], Level(t, i))
  BY <1>1, <1>3 DEF StackOK
<1>7. StackOK(t, Level(st, n - 1))
  BY <1>1, <1>5, <1>6 DEF StackOK
<1>8. /\ Activation(st[n]) => Level(st, n - 1) = d - 1
      /\ ~Activation(st[n]) => Level(st, n - 1) = d
  BY <1>4
<1> QED
  BY <1>3, <1>4, <1>7, <1>8

-----------------------------------------------------------------------------
(* The top frame moves on: it may pass a slot, and take a result.          *)

(* The premises of Moved together.                                         *)
MoveTop(live, counts, sl, d, st, n, t, f, s, counts2, lax2) ==
  /\ Replaced(st, n, t, f) /\ FrameOK(f, d) /\ ResultOK(f)
  /\ f.kind = "assign" <=> st[n].kind = "assign"
  /\ f.kind = "free" <=> st[n].kind = "free"
  /\ Activation(f) <=> Activation(st[n])
  /\ f.obj = st[n].obj
  /\ Activation(f) => f.dst = st[n].dst \/ f.dst = NoSlot
  /\ f.kind = "assign" => f.dst = st[n].dst /\ f.val = st[n].val
  /\ \A p \in Objects : \A y :
       y # s => (y \in HoldersIn(sl, st, p) <=> y \in HoldersIn(sl, t, p))
  /\ \A p \in Objects : s \in HoldersIn(sl, t, p) => s \in HoldersIn(sl, st, p)
  /\ \/ f.val = st[n].val
     \/ /\ Activation(f) /\ st[n].val = NULL /\ f.val \in live
        /\ \A k \in 1 .. n : st[k].kind = "free" /\ st[k].obj = f.val => st[n].obj = f.val
  /\ counts2 \in [Objects -> Int]
  /\ \A p \in live :
       /\ counts2[p] = counts[p]
            + Ind(s, HoldersIn(sl, t, p)) - Ind(s, HoldersIn(sl, st, p))
            + Ind(n, FlightsIn(t, p)) - Ind(n, FlightsIn(st, p))
       /\ p # lax2 => counts2[p] > 0

LEMMA Moved ==
  ASSUME NEW live, NEW counts, NEW sl, NEW blks, NEW d, NEW st, NEW lax,
         Good(live, counts, sl, blks, d, st, lax),
         NEW n, NEW t, NEW f, NEW s, NEW counts2, NEW lax2,
         MoveTop(live, counts, sl, d, st, n, t, f, s, counts2, lax2)
  PROVE  Good(live, counts2, sl, blks, d, t, lax2)
<1>a. /\ Replaced(st, n, t, f) /\ FrameOK(f, d) /\ ResultOK(f)
      /\ f.kind = "assign" <=> st[n].kind = "assign"
      /\ f.kind = "free" <=> st[n].kind = "free"
      /\ Activation(f) <=> Activation(st[n])
      /\ f.obj = st[n].obj
      /\ Activation(f) => f.dst = st[n].dst \/ f.dst = NoSlot
      /\ f.kind = "assign" => f.dst = st[n].dst /\ f.val = st[n].val
  BY DEF MoveTop
<1>b. /\ \A p \in Objects : \A y :
           y # s => (y \in HoldersIn(sl, st, p) <=> y \in HoldersIn(sl, t, p))
      /\ \A p \in Objects : s \in HoldersIn(sl, t, p) => s \in HoldersIn(sl, st, p)
  BY DEF MoveTop
<1>c. \/ f.val = st[n].val
      \/ /\ Activation(f) /\ st[n].val = NULL /\ f.val \in live
         /\ \A k \in 1 .. n : st[k].kind = "free" /\ st[k].obj = f.val => st[n].obj = f.val
  BY DEF MoveTop
<1>d. /\ counts2 \in [Objects -> Int]
      /\ \A p \in live :
           /\ counts2[p] = counts[p]
                + Ind(s, HoldersIn(sl, t, p)) - Ind(s, HoldersIn(sl, st, p))
                + Ind(n, FlightsIn(t, p)) - Ind(n, FlightsIn(st, p))
           /\ p # lax2 => counts2[p] > 0
  BY DEF MoveTop
<1>0. /\ StackOK(st, d) /\ Shape(st) /\ live \subseteq Objects
      /\ counts \in [Objects -> Int] /\ sl \in [Slots -> ObjectOrNull]
      /\ Len(st) \in Nat
  BY GoodFacts
<1>1. /\ t \in Seq(Frames) /\ n \in Nat \ {0} /\ n = Len(st) /\ Len(t) = n
      /\ \A i \in 1 .. n - 1 : t[i] = st[i]
      /\ t[n] = f
  BY <1>a DEF Replaced
<1>2. StackOK(t, d)
  BY <1>0, <1>a, ReplacedStack
<1>3. Shape(t)
  BY <1>0, <1>a, ShapeReplaced
<1>4. Alike(st, t)
  BY <1>a, ReplacedAlike
<1>5. \A i \in 1 .. n : i = n \/ t[i] = st[i]
  BY <1>1
<1>6. ASSUME NEW p \in Objects, NEW y, y # n
      PROVE  y \in FlightsIn(st, p) <=> y \in FlightsIn(t, p)
  BY <1>1, <1>5, <1>6 DEF FlightsIn
<1>7. ASSUME NEW p \in Objects, NEW y
      PROVE  y \in FreesIn(st, p) <=> y \in FreesIn(t, p)
  <2>1. CASE y = n
    BY <1>1, <1>a, <2>1 DEF FreesIn
  <2>2. CASE y # n
    BY <1>1, <1>5, <2>2 DEF FreesIn
  <2> QED
    BY <2>1, <2>2
<1>8. ASSUME NEW k \in 1 .. n, t[k].kind = "free" PROVE ReleaseOK(sl, t, k)
  <2>1. st[k].kind = "free" /\ k \in 1 .. Len(st) /\ t[k].obj = st[k].obj
    BY <1>1, <1>5, <1>8, <1>a
  <2>2. ReleaseOK(sl, st, k) /\ st[k].obj \in Objects
    BY <1>0, <2>1 DEF Good, StackOK, FrameOK
  <2>3. \A y \in HoldersIn(sl, t, st[k].obj) : y \in HoldersIn(sl, st, st[k].obj)
    BY <2>2, <1>b
  <2>4. ASSUME NEW i \in FlightsIn(t, st[k].obj), i \notin FlightsIn(st, st[k].obj)
        PROVE  OwnFlight(t, k, i)
    <3>1. i = n
      BY <1>6, <2>2, <2>4
    <3>2. f.val = st[k].obj /\ f.val # st[n].val
      BY <1>1, <2>4, <3>1 DEF FlightsIn
    <3>3. Activation(f) /\ st[n].obj = f.val
      BY <1>1, <1>c, <2>1, <3>2
    <3>4. k # n
      BY <1>1, <1>8, <3>3 DEF Activation
    <3>5. n > k
      BY <1>1, <3>4
    <3> QED
      BY <1>1, <1>a, <2>1, <3>1, <3>2, <3>3, <3>5 DEF OwnFlight
  <2> QED
    BY <1>0, <1>4, <2>1, <2>2, <2>3, <2>4, ReleaseAlike
<1>9. ASSUME NEW i \in 1 .. n, t[i].kind = "assign" PROVE WriteOK(sl, t, i)
  <2>1. st[i].kind = "assign" /\ i \in 1 .. Len(st)
    BY <1>1, <1>5, <1>9, <1>a
  <2>2. WriteOK(sl, st, i)
    BY <2>1 DEF Good
  <2> QED
    BY <1>0, <1>4, <2>1, <2>2, WriteAlike
<1>10. Exact(live, counts2, sl, t, lax2)
  <2>1. Exact(live, counts, sl, st, lax)
    BY DEF Good
  <2>2. \A p \in Objects : \A y :
          /\ y # s => (y \in HoldersIn(sl, st, p) <=> y \in HoldersIn(sl, t, p))
          /\ y # n => (y \in FlightsIn(st, p) <=> y \in FlightsIn(t, p))
          /\ y # 0 => (y \in FreesIn(st, p) <=> y \in FreesIn(t, p))
    BY <1>6, <1>7, <1>b
  <2>3. ASSUME NEW p \in Objects \ live
        PROVE  s \notin HoldersIn(sl, t, p) /\ n \notin FlightsIn(t, p) /\ 0 \notin FreesIn(t, p)
    <3>1. Count(sl, st, p) = 0
      BY LiveFacts
    <3>2. s \notin HoldersIn(sl, st, p) /\ n \notin FlightsIn(st, p)
      BY <1>0, <3>1, CountFacts
    <3>3. st[n].val # p
      BY <1>0, <1>1, <3>2 DEF FlightsIn
    <3>4. n \notin FlightsIn(t, p)
      BY <1>1, <1>c, <3>3 DEF FlightsIn
    <3> QED
      BY <1>b, <3>2, <3>4 DEF FreesIn
  <2>4. ASSUME NEW p \in live
        PROVE  /\ counts2[p] = counts[p]
                    + Ind(s, HoldersIn(sl, t, p)) - Ind(s, HoldersIn(sl, st, p))
                    + Ind(n, FlightsIn(t, p)) - Ind(n, FlightsIn(st, p))
                    + Ind(0, FreesIn(t, p)) - Ind(0, FreesIn(st, p))
               /\ p # lax2 => counts2[p] > 0
    <3>1. Ind(0, FreesIn(t, p)) = 0 /\ Ind(0, FreesIn(st, p)) = 0
      BY IndFacts DEF FreesIn
    <3>2. counts2[p] \in Int
      BY <1>0, <1>d
    <3> QED
      BY <1>d, <3>1, <3>2
  <2>5. live \subseteq Objects /\ counts \in [Objects -> Int] /\ Len(st) \in Nat /\ Len(t) \in Nat
    BY <1>0, <1>1
  <2>6. /\ \A p \in Objects \ live :
             s \notin HoldersIn(sl, t, p) /\ n \notin FlightsIn(t, p) /\ 0 \notin FreesIn(t, p)
        /\ \A p \in live :
             /\ counts2[p] = counts[p]
                  + Ind(s, HoldersIn(sl, t, p)) - Ind(s, HoldersIn(sl, st, p))
                  + Ind(n, FlightsIn(t, p)) - Ind(n, FlightsIn(st, p))
                  + Ind(0, FreesIn(t, p)) - Ind(0, FreesIn(st, p))
             /\ p # lax2 => counts2[p] > 0
    BY <2>3, <2>4
  <2>7. Follows(live, counts, sl, st, counts2, sl, t, s, n, 0, lax2)
    BY <2>2, <2>6 DEF Follows
  <2> QED
    BY <2>1, <2>5, <2>7, ExactMoved
<1>11. /\ \A o \in Objects \ live, g \in Fields : sl[<<o, g>>] = NULL
       /\ blks = Cardinality(live) + d
  BY DEF Good
<1> QED
  BY <1>0, <1>1, <1>2, <1>3, <1>8, <1>9, <1>10, <1>11, <1>d DEF Good

-----------------------------------------------------------------------------
(* A release begins: the write waits, and the old referent is released.    *)

LEMMA PushAssign ==
  ASSUME NEW live, NEW counts, NEW sl, NEW blks, NEW d, NEW st, NEW lax,
         Good(live, counts, sl, blks, d, st, lax),
         NEW dst, NEW new, Target(live, sl, d, st, dst, new), lax \in {NULL, new},
         NEW n, NEW t, Pushed(st, n, t, AssignFrame(dst, new)),
         NEW counts2 \in [Objects -> Int],
         \A p \in Objects : counts2[p] = counts[p] + (IF p = new THEN 1 ELSE 0)
                                                   - (IF p = sl[dst] THEN 1 ELSE 0)
  PROVE  Good(live, counts2, sl, blks, d, t, sl[dst])
<1> DEFINE f == AssignFrame(dst, new)
           old == sl[dst]
<1>0. /\ StackOK(st, d) /\ Shape(st) /\ live \subseteq Objects
      /\ counts \in [Objects -> Int] /\ sl \in [Slots -> ObjectOrNull]
      /\ NULL \notin Objects
  BY GoodFacts, MemoryAssumption
<1>1. /\ t \in Seq(Frames) /\ n \in Nat /\ n = Len(st) /\ Len(t) = n + 1
      /\ \A i \in 1 .. n : t[i] = st[i]
      /\ t[n + 1] = f
  BY DEF Pushed
<1>2. /\ f.kind = "assign" /\ f.dst = dst /\ f.val = new /\ f.obj = NULL
      /\ ~Activation(f)
  BY DEF AssignFrame, Activation
<1>3. /\ n # 0 /\ n \in 1 .. n /\ Activation(st[n]) /\ dst \in Slots
      /\ new \in live \cup {NULL} /\ new \in ObjectOrNull
      /\ d = Level(st, n)
  BY <1>0, <1>1, GoodFacts DEF Target, ObjectOrNull
<1>4. /\ ~Gone(st, dst)
      /\ old # NULL => old \in live /\ counts[old] > 0 /\ dst \in HoldersIn(sl, st, old)
      /\ new # NULL => new \in live
  BY TargetFacts
<1>5. FrameOK(f, d)
  <2>1. dst \in VarSlots => dst[1] = d
    BY DEF Target
  <2> QED
    BY <1>3, <2>1 DEF FrameOK, AssignFrame, Activation, Frames, Addresses, ObjectOrNull
<1> HIDE DEF f, old
<1>6. StackOK(t, d)
  BY <1>0, <1>1, <1>2, <1>5, PushedStack DEF f
<1>7. Shape(t)
  <2>1. ResultOK(f)
    BY <1>2 DEF ResultOK
  <2>2. Link(st[n], f)
    <3>1. st[n].kind = "leave" => dst \in VarSlots /\ new = NULL
      BY <1>1, <1>3 DEF Target
    <3> QED
      BY <1>2, <1>3, <3>1 DEF Link, Activation
  <2>3. f.kind # "free"
    BY <1>2
  <2> QED
    BY <1>0, <1>1, <1>2, <1>3, <2>1, <2>2, <2>3, ShapePushed DEF f
<1>8. Alike(st, t)
  BY PushedAlike
<1>9. ASSUME NEW s, s # dst PROVE Gone(st, s) <=> Gone(t, s)
  <2>1. Gone(st, s) => Gone(t, s)
    <3>1. ASSUME NEW i \in 1 .. Len(st) PROVE i \in 1 .. Len(t) /\ t[i] = st[i]
      BY <1>1
    <3> QED
      BY <3>1 DEF Gone
  <2>2. Gone(t, s) => Gone(st, s)
    <3>1. ASSUME NEW i \in 1 .. Len(t) PROVE i = n + 1 \/ (i \in 1 .. Len(st) /\ t[i] = st[i])
      <4>1. i = n + 1 \/ i \in 1 .. n
        BY <1>1
      <4> QED
        BY <1>1, <4>1
    <3> QED
      BY <1>1, <1>2, <1>9, <3>1 DEF Gone
  <2> QED
    BY <2>1, <2>2
<1>10. Gone(t, dst)
  <2>1. n + 1 \in 1 .. Len(t) /\ t[n + 1].kind = "assign" /\ t[n + 1].dst = dst
    BY <1>1, <1>2
  <2> QED
    BY <2>1 DEF Gone
<1>11. ASSUME NEW p, NEW y, y # dst PROVE y \in HoldersIn(sl, st, p) <=> y \in HoldersIn(sl, t, p)
  BY <1>9, <1>11 DEF HoldersIn
<1>12. \A p : dst \notin HoldersIn(sl, t, p)
  BY <1>10 DEF HoldersIn
<1>13. ASSUME NEW p, NEW y, y # n + 1
       PROVE  /\ y \in FlightsIn(st, p) <=> y \in FlightsIn(t, p)
              /\ y \in FreesIn(st, p) <=> y \in FreesIn(t, p)
  <2>1. y \in 1 .. Len(st) <=> y \in 1 .. Len(t)
    BY <1>1, <1>13
  <2>2. y \in 1 .. Len(st) => t[y] = st[y]
    BY <1>1
  <2> QED
    BY <2>1, <2>2 DEF FlightsIn, FreesIn
<1>14. /\ n + 1 \in 1 .. Len(t)
       /\ \A p : n + 1 \in FlightsIn(t, p) <=> p = new
       /\ \A p : n + 1 \notin FlightsIn(st, p)
       /\ \A p : n + 1 \notin FreesIn(t, p) /\ n + 1 \notin FreesIn(st, p)
  BY <1>1, <1>2 DEF FlightsIn, FreesIn
<1>15. ASSUME NEW k \in 1 .. n + 1, t[k].kind = "free" PROVE ReleaseOK(sl, t, k)
  <2>1. k \in 1 .. n /\ k \in 1 .. Len(st) /\ st[k].kind = "free" /\ t[k].obj = st[k].obj /\ t[k] = st[k]
    <3>1. k # n + 1
      BY <1>1, <1>2, <1>15
    <3> QED
      BY <1>1, <1>15, <3>1
  <2>2. ReleaseOK(sl, st, k) /\ st[k].obj \in Objects
    BY <1>0, <2>1 DEF Good, StackOK, FrameOK
  <2>3. \A y \in HoldersIn(sl, t, st[k].obj) : y \in HoldersIn(sl, st, st[k].obj)
    BY <1>11, <1>12
  <2>4. ASSUME NEW i \in FlightsIn(t, st[k].obj), i \notin FlightsIn(st, st[k].obj)
        PROVE  OwnFlight(t, k, i)
    <3>1. i = n + 1
      BY <1>13, <2>4
    <3>2. new = st[k].obj
      BY <1>14, <2>4, <3>1
    <3>3. dst \in VarSlots /\ st[n].obj = new
      BY <1>1, <2>1, <3>2 DEF Target
    <3>4. t[i].kind = "assign" /\ t[i].dst = dst /\ t[i - 1] = st[n] /\ i > k
      BY <1>1, <1>2, <1>3, <2>1, <3>1
    <3> QED
      BY <2>1, <3>2, <3>3, <3>4 DEF OwnFlight
  <2> QED
    BY <1>0, <1>8, <2>1, <2>2, <2>3, <2>4, ReleaseAlike
<1>16. ASSUME NEW i \in 1 .. n + 1, t[i].kind = "assign" PROVE WriteOK(sl, t, i)
  <2>1. CASE i = n + 1
    <3>1. t[i].dst = dst /\ t[i - 1] = st[n] /\ Level(t, i) = d
      BY <1>1, <1>2, <1>3, <1>6, <2>1 DEF StackOK
    <3> QED
      BY <1>1, <3>1 DEF WriteOK, Target
  <2>2. CASE i # n + 1
    <3>1. i \in 1 .. Len(st) /\ st[i].kind = "assign"
      BY <1>1, <1>16, <2>2
    <3>2. WriteOK(sl, st, i)
      BY <3>1 DEF Good
    <3> QED
      BY <1>0, <1>8, <3>1, <3>2, WriteAlike
  <2> QED
    BY <2>1, <2>2
<1>17. Follows(live, counts, sl, st, counts2, sl, t, dst, n + 1, n + 1, old)
  <2>1. ASSUME NEW p \in live
        PROVE  /\ counts2[p] = counts[p]
                    + Ind(dst, HoldersIn(sl, t, p)) - Ind(dst, HoldersIn(sl, st, p))
                    + Ind(n + 1, FlightsIn(t, p)) - Ind(n + 1, FlightsIn(st, p))
                    + Ind(n + 1, FreesIn(t, p)) - Ind(n + 1, FreesIn(st, p))
               /\ p # old => counts2[p] > 0
    <3>0. p \in Objects /\ counts[p] \in Nat
      BY <1>0, LiveFacts
    <3>1. dst \in HoldersIn(sl, st, p) <=> p = old
      BY <1>3, <1>4 DEF HoldersIn, old
    <3>2. /\ Ind(dst, HoldersIn(sl, t, p)) = 0
          /\ p = old => Ind(dst, HoldersIn(sl, st, p)) = 1
          /\ p # old => Ind(dst, HoldersIn(sl, st, p)) = 0
      BY <1>12, <3>1, IndFacts
    <3>3. /\ p = new => Ind(n + 1, FlightsIn(t, p)) = 1
          /\ p # new => Ind(n + 1, FlightsIn(t, p)) = 0
          /\ Ind(n + 1, FlightsIn(st, p)) = 0
          /\ Ind(n + 1, FreesIn(t, p)) = 0 /\ Ind(n + 1, FreesIn(st, p)) = 0
      BY <1>14, IndFacts
    <3>4. /\ counts2[p] = counts[p] + (IF p = new THEN 1 ELSE 0) - (IF p = old THEN 1 ELSE 0)
      BY <3>0 DEF old
    <3>5. p # old /\ p # new => counts[p] > 0
      BY <1>0, <3>0 DEF Good, Exact
    <3> QED
      BY <3>0, <3>2, <3>3, <3>4, <3>5
  <2>2. ASSUME NEW p \in Objects \ live
        PROVE  dst \notin HoldersIn(sl, t, p) /\ n + 1 \notin FlightsIn(t, p) /\ n + 1 \notin FreesIn(t, p)
    BY <1>0, <1>4, <1>12, <1>14
  <2> QED
    BY <1>11, <1>13, <2>1, <2>2 DEF Follows
<1>18. Exact(live, counts2, sl, t, old)
  <2>1. Exact(live, counts, sl, st, lax) /\ Len(st) \in Nat /\ Len(t) \in Nat
    BY <1>1 DEF Good
  <2> QED
    BY <1>17, <2>1, ExactMoved
<1>19. /\ \A o \in Objects \ live, g \in Fields : sl[<<o, g>>] = NULL
       /\ blks = Cardinality(live) + d
  BY DEF Good
<1> QED
  BY <1>0, <1>1, <1>6, <1>7, <1>15, <1>16, <1>18, <1>19 DEF Good, old

(* The last reference to o is gone: its release begins.                    *)
LEMMA PushFree ==
  ASSUME NEW live, NEW counts, NEW sl, NEW blks, NEW d, NEW st, NEW o,
         Good(live, counts, sl, blks, d, st, o), o \in live, counts[o] = 0,
         NEW n, NEW t, Pushed(st, n, t, FreeFrame(o)),
         n > 0, st[n].kind \in {"assign", "free"},
         NEW counts2 \in [Objects -> Int],
         \A p \in Objects : counts2[p] = counts[p] + (IF p = o THEN 1 ELSE 0)
  PROVE  Good(live, counts2, sl, blks, d, t, NULL)
<1> DEFINE f == FreeFrame(o)
<1>0. /\ StackOK(st, d) /\ Shape(st) /\ live \subseteq Objects /\ o \in Objects
      /\ counts \in [Objects -> Int] /\ sl \in [Slots -> ObjectOrNull]
      /\ NULL \notin Objects /\ o # NULL
  BY GoodFacts, MemoryAssumption
<1>1. /\ t \in Seq(Frames) /\ n \in Nat \ {0} /\ n = Len(st) /\ Len(t) = n + 1
      /\ \A i \in 1 .. n : t[i] = st[i]
      /\ t[n + 1] = f
  BY DEF Pushed
<1>2. /\ f.kind = "free" /\ f.val = NULL /\ f.obj = o /\ f.n = 0
      /\ ~Activation(f)
  BY DEF FreeFrame, Activation
<1>3. FrameOK(f, d)
  BY <1>0 DEF FrameOK, FreeFrame, Activation, Frames, Addresses, ObjectOrNull
<1> HIDE DEF f
<1>4. StackOK(t, d)
  BY <1>0, <1>1, <1>2, <1>3, PushedStack DEF f
<1>5. \A x : x \notin HoldersIn(sl, st, o) /\ x \notin FlightsIn(st, o) /\ x \notin FreesIn(st, o)
  <2>1. Count(sl, st, o) = 0
    BY <1>0, LiveFacts
  <2> QED
    BY <1>1, <2>1, CountFacts
<1>6. Shape(t)
  <2>1. ResultOK(f) /\ Link(st[n], f)
    BY <1>2 DEF ResultOK, Link
  <2>2. \A k \in 1 .. n : st[k].kind = "free" => st[k].obj # f.obj
    BY <1>1, <1>2, <1>5 DEF FreesIn
  <2> QED
    BY <1>0, <1>1, <1>2, <2>1, <2>2, ShapePushed DEF f
<1>7. Alike(st, t)
  BY PushedAlike
<1>8. ASSUME NEW s PROVE Gone(st, s) <=> Gone(t, s)
  <2>1. Gone(st, s) => Gone(t, s)
    <3>1. ASSUME NEW i \in 1 .. Len(st) PROVE i \in 1 .. Len(t) /\ t[i] = st[i]
      BY <1>1
    <3> QED
      BY <3>1 DEF Gone
  <2>2. Gone(t, s) => Gone(st, s)
    <3>1. ASSUME NEW i \in 1 .. Len(t) PROVE i = n + 1 \/ (i \in 1 .. Len(st) /\ t[i] = st[i])
      <4>1. i = n + 1 \/ i \in 1 .. n
        BY <1>1
      <4> QED
        BY <1>1, <4>1
    <3>2. \A g \in Fields : ~(g < t[n + 1].n)
      BY <1>1, <1>2 DEF Fields
    <3>3. t[n + 1].kind # "assign"
      BY <1>1, <1>2
    <3> QED
      BY <3>1, <3>2, <3>3 DEF Gone
  <2> QED
    BY <2>1, <2>2
<1>9. ASSUME NEW p, NEW y PROVE y \in HoldersIn(sl, st, p) <=> y \in HoldersIn(sl, t, p)
  BY <1>8 DEF HoldersIn
<1>10. ASSUME NEW p, NEW y, y # n + 1
       PROVE  /\ y \in FlightsIn(st, p) <=> y \in FlightsIn(t, p)
              /\ y \in FreesIn(st, p) <=> y \in FreesIn(t, p)
  <2>1. y \in 1 .. Len(st) <=> y \in 1 .. Len(t)
    BY <1>1, <1>10
  <2>2. y \in 1 .. Len(st) => t[y] = st[y]
    BY <1>1
  <2> QED
    BY <2>1, <2>2 DEF FlightsIn, FreesIn
<1>11. /\ n + 1 \in 1 .. Len(t)
       /\ \A p \in Objects : n + 1 \notin FlightsIn(t, p) /\ n + 1 \notin FlightsIn(st, p)
       /\ \A p : n + 1 \in FreesIn(t, p) <=> p = o
       /\ \A p : n + 1 \notin FreesIn(st, p)
  BY <1>0, <1>1, <1>2 DEF FlightsIn, FreesIn
<1>12. ASSUME NEW k \in 1 .. n + 1, t[k].kind = "free" PROVE ReleaseOK(sl, t, k)
  <2>1. CASE k = n + 1
    <3>1. t[k].obj = o
      BY <1>1, <1>2, <2>1
    <3>2. \A x : x \notin HoldersIn(sl, t, o) /\ x \notin FlightsIn(t, o)
      BY <1>0, <1>5, <1>9, <1>10, <1>11
    <3> QED
      BY <3>1, <3>2 DEF ReleaseOK
  <2>2. CASE k # n + 1
    <3>1. k \in 1 .. Len(st) /\ st[k].kind = "free" /\ t[k] = st[k]
      BY <1>1, <1>12, <2>2
    <3>2. ReleaseOK(sl, st, k) /\ st[k].obj \in Objects
      BY <1>0, <3>1 DEF Good, StackOK, FrameOK
    <3>3. /\ \A y \in HoldersIn(sl, t, st[k].obj) : y \in HoldersIn(sl, st, st[k].obj)
          /\ \A i \in FlightsIn(t, st[k].obj) : i \in FlightsIn(st, st[k].obj)
      BY <1>9, <1>10, <1>11, <3>2
    <3> QED
      BY <1>0, <1>7, <3>1, <3>2, <3>3, ReleaseAlike
  <2> QED
    BY <2>1, <2>2
<1>13. ASSUME NEW i \in 1 .. n + 1, t[i].kind = "assign" PROVE WriteOK(sl, t, i)
  <2>1. i # n + 1
    BY <1>1, <1>2, <1>13
  <2>2. i \in 1 .. Len(st) /\ st[i].kind = "assign"
    BY <1>1, <1>13, <2>1
  <2>3. WriteOK(sl, st, i)
    BY <2>2 DEF Good
  <2> QED
    BY <1>0, <1>7, <2>2, <2>3, WriteAlike
<1>14. Follows(live, counts, sl, st, counts2, sl, t, NoSlot, n + 1, n + 1, NULL)
  <2>1. ASSUME NEW p \in live
        PROVE  /\ counts2[p] = counts[p]
                    + Ind(NoSlot, HoldersIn(sl, t, p)) - Ind(NoSlot, HoldersIn(sl, st, p))
                    + Ind(n + 1, FlightsIn(t, p)) - Ind(n + 1, FlightsIn(st, p))
                    + Ind(n + 1, FreesIn(t, p)) - Ind(n + 1, FreesIn(st, p))
               /\ p # NULL => counts2[p] > 0
    <3>0. p \in Objects /\ counts[p] \in Nat
      BY <1>0, LiveFacts
    <3>1. NoSlot \notin HoldersIn(sl, t, p) /\ NoSlot \notin HoldersIn(sl, st, p)
      BY SlotKinds DEF HoldersIn
    <3>2. Ind(NoSlot, HoldersIn(sl, t, p)) = 0 /\ Ind(NoSlot, HoldersIn(sl, st, p)) = 0
      BY <3>1, IndFacts
    <3>3. /\ p = o => Ind(n + 1, FreesIn(t, p)) = 1
          /\ p # o => Ind(n + 1, FreesIn(t, p)) = 0
          /\ Ind(n + 1, FreesIn(st, p)) = 0
          /\ Ind(n + 1, FlightsIn(t, p)) = 0 /\ Ind(n + 1, FlightsIn(st, p)) = 0
      BY <1>11, <3>0, IndFacts
    <3>4. counts2[p] = counts[p] + (IF p = o THEN 1 ELSE 0)
      BY <3>0
    <3>5. p # o => counts[p] > 0
      BY <3>0 DEF Good, Exact
    <3> QED
      BY <3>0, <3>2, <3>3, <3>4, <3>5
  <2>2. ASSUME NEW p \in Objects \ live
        PROVE  NoSlot \notin HoldersIn(sl, t, p) /\ n + 1 \notin FlightsIn(t, p) /\ n + 1 \notin FreesIn(t, p)
    BY <1>11, SlotKinds DEF HoldersIn
  <2> QED
    BY <1>9, <1>10, <2>1, <2>2 DEF Follows
<1>15. Exact(live, counts2, sl, t, NULL)
  <2>1. Exact(live, counts, sl, st, o) /\ Len(st) \in Nat /\ Len(t) \in Nat
    BY <1>1 DEF Good
  <2> QED
    BY <1>14, <2>1, ExactMoved
<1>16. /\ \A q \in Objects \ live, g \in Fields : sl[<<q, g>>] = NULL
       /\ blks = Cardinality(live) + d
  BY DEF Good
<1> QED
  BY <1>0, <1>1, <1>4, <1>6, <1>12, <1>13, <1>15, <1>16 DEF Good

LEMMA RefsAt ==
  ASSUME NEW counts \in [Objects -> Int], NEW o
  PROVE  /\ IncRef(counts, o) \in [Objects -> Int]
         /\ DecRef(counts, o) \in [Objects -> Int]
         /\ \A p \in Objects : IncRef(counts, o)[p] = counts[p] + (IF p = o THEN 1 ELSE 0)
         /\ \A p \in Objects : DecRef(counts, o)[p] = counts[p] - (IF p = o THEN 1 ELSE 0)
<1>1. IncRef(counts, o) \in [Objects -> Int] /\ DecRef(counts, o) \in [Objects -> Int]
  BY CountsType
<1>2. ASSUME NEW p \in Objects
      PROVE  IncRef(counts, o)[p] = counts[p] + (IF p = o THEN 1 ELSE 0)
  <2>1. counts[p] \in Int
    OBVIOUS
  <2>2. CASE o = NULL
    BY <2>1, <2>2, MemoryAssumption DEF IncRef
  <2>3. CASE o # NULL
    BY <2>1, <2>3 DEF IncRef
  <2> QED
    BY <2>2, <2>3
<1>3. ASSUME NEW p \in Objects
      PROVE  DecRef(counts, o)[p] = counts[p] - (IF p = o THEN 1 ELSE 0)
  <2>1. counts[p] \in Int
    OBVIOUS
  <2> QED
    BY <2>1 DEF DecRef
<1> QED
  BY <1>1, <1>2, <1>3

LEMMA TwoPushed ==
  ASSUME NEW st \in Seq(Frames), NEW a \in Frames, NEW b \in Frames
  PROVE  /\ st \o <<a, b>> = Append(Append(st, a), b)
         /\ Pushed(st, Len(st), Append(st, a), a)
         /\ Pushed(Append(st, a), Len(st) + 1, Append(Append(st, a), b), b)
         /\ Append(st, a) \in Seq(Frames) /\ Len(Append(st, a)) = Len(st) + 1
         /\ Append(st, a)[Len(st) + 1] = a
<1>1. st \o <<a, b>> = Append(Append(st, a), b)
  OBVIOUS
<1>2. Append(st, a) \in Seq(Frames) /\ Len(Append(st, a)) = Len(st) + 1
  OBVIOUS
<1>3. Pushed(st, Len(st), Append(st, a), a)
  BY PushedFacts
<1>4. Pushed(Append(st, a), Len(Append(st, a)), Append(Append(st, a), b), b)
  BY <1>2, PushedFacts
<1> QED
  BY <1>1, <1>2, <1>3, <1>4

(* What OBJECT_ASSIGN leaves when there are no weak references.            *)
Assigned(dst, new, st) ==
  \/ slot' = [slot EXCEPT ![dst] = new] /\ stack' = st
  \/ slot' = slot /\ stack' = st \o <<AssignFrame(dst, new), FreeFrame(slot[dst])>>

LEMMA AssignGood ==
  ASSUME weak = {},
         NEW live, NEW counts, NEW blks, NEW d, NEW st, NEW lax,
         Good(live, counts, slot, blks, d, st, lax),
         NEW dst, NEW new, Target(live, slot, d, st, dst, new), lax \in {NULL, new},
         ObjectAssign(dst, new, counts, blks, st)
  PROVE  /\ Good(live, rc', slot', blks, d, stack', NULL)
         /\ weak' = {} /\ backref' = backref /\ blocks' = blks
         /\ Assigned(dst, new, st)
<1> DEFINE old == slot[dst]
           mid == IncRef(counts, new)
           left == [p \in Objects |-> mid[p] - (IF p = old THEN 1 ELSE 0)]
<1>0. /\ counts \in [Objects -> Int] /\ slot \in [Slots -> ObjectOrNull] /\ st \in Seq(Frames)
      /\ live \subseteq Objects /\ dst \in Slots /\ NULL \notin Objects
      /\ new \in ObjectOrNull /\ StackOK(st, d)
  BY GoodFacts, MemoryAssumption DEF Target, ObjectOrNull
<1>1. /\ ~Gone(st, dst)
      /\ old \in ObjectOrNull
      /\ old # NULL => old \in live /\ counts[old] > 0 /\ dst \in HoldersIn(slot, st, old)
  BY TargetFacts
<1>2. /\ mid \in [Objects -> Int] /\ DecRef(mid, old) \in [Objects -> Int]
      /\ \A p \in Objects : mid[p] = counts[p] + (IF p = new THEN 1 ELSE 0)
      /\ \A p \in Objects : DecRef(mid, old)[p] = mid[p] - (IF p = old THEN 1 ELSE 0)
  <2>1. /\ mid \in [Objects -> Int]
        /\ \A p \in Objects : mid[p] = counts[p] + (IF p = new THEN 1 ELSE 0)
    BY <1>0, RefsAt
  <2> HIDE DEF mid
  <2> QED
    BY <2>1, RefsAt
<1>3. /\ weak' = {} /\ backref' = backref /\ blocks' = blks
      /\ \/ old = NULL /\ rc' = mid /\ slot' = [slot EXCEPT ![dst] = new] /\ stack' = st
         \/ /\ old # NULL /\ mid[old] > 1 /\ rc' = DecRef(mid, old)
            /\ slot' = [slot EXCEPT ![dst] = new] /\ stack' = st
         \/ /\ old # NULL /\ mid[old] <= 1 /\ rc' = mid /\ slot' = slot
            /\ stack' = st \o <<AssignFrame(dst, new), FreeFrame(old)>>
  <2>1. PICK m \in Untagged(dst, mid, blks) :
          /\ weak' = m.weak /\ backref' = m.backref /\ blocks' = m.blocks
          /\ \/ old = NULL /\ rc' = m.rc /\ slot' = [slot EXCEPT ![dst] = new] /\ stack' = st
             \/ /\ old # NULL /\ m.rc[old] > 1 /\ rc' = DecRef(m.rc, old)
                /\ slot' = [slot EXCEPT ![dst] = new] /\ stack' = st
             \/ /\ old # NULL /\ m.rc[old] <= 1 /\ rc' = m.rc /\ slot' = slot
                /\ stack' = st \o <<AssignFrame(dst, new), FreeFrame(old)>>
    BY DEF ObjectAssign
  <2>2. m = [rc |-> mid, weak |-> weak, backref |-> backref, blocks |-> blks]
    BY DEF Untagged
  <2>3. m.rc = mid /\ m.weak = {} /\ m.backref = backref /\ m.blocks = blks
    BY <2>2
  <2> HIDE DEF old, mid
  <2> QED
    BY <2>1, <2>3
<1>4. CASE slot' = [slot EXCEPT ![dst] = new] /\ stack' = st
  <2>1. slot' \in [Slots -> ObjectOrNull] /\ slot'[dst] = new
        /\ \A s \in Slots : s # dst => slot'[s] = slot[s]
    BY <1>0, <1>4
  <2>2. /\ rc' \in [Objects -> Int]
        /\ \A p \in Objects : rc'[p] = counts[p] + (IF p = new THEN 1 ELSE 0)
                                                 - (IF p = slot[dst] THEN 1 ELSE 0)
        /\ slot[dst] # NULL => rc'[slot[dst]] > 0
    <3>0. slot[dst] = old
      OBVIOUS
    <3>1. CASE old = NULL
      <4>1. rc' = mid /\ \A p \in Objects : p # old
        BY <1>0, <1>3, <3>1
      <4> HIDE DEF mid, old
      <4> QED
        BY <1>0, <1>2, <3>0, <3>1, <4>1
    <3>2. CASE old # NULL
      <4>0. stack' # st \o <<AssignFrame(dst, new), FreeFrame(old)>>
        <5>1. AssignFrame(dst, new) \in Frames /\ FreeFrame(old) \in Frames
          BY <1>0, <1>1 DEF AssignFrame, FreeFrame, Frames, Addresses, ObjectOrNull
        <5>2. /\ Len(Append(Append(st, AssignFrame(dst, new)), FreeFrame(old))) = Len(st) + 2
              /\ Len(st) \in Nat
          <6> HIDE DEF old
          <6> QED
            BY <1>0, <5>1
        <5>3. st \o <<AssignFrame(dst, new), FreeFrame(old)>>
                = Append(Append(st, AssignFrame(dst, new)), FreeFrame(old))
          <6> HIDE DEF old
          <6> QED
            BY <1>0, <5>1, TwoPushed
        <5> HIDE DEF old
        <5> QED
          BY <1>4, <5>2, <5>3
      <4>1. mid[old] > 1 /\ rc' = DecRef(mid, old) /\ old \in Objects
        BY <1>0, <1>1, <1>3, <1>4, <3>2, <4>0 DEF ObjectOrNull
      <4> HIDE DEF mid, old
      <4> QED
        BY <1>0, <1>2, <3>0, <4>1
    <3> QED
      BY <3>1, <3>2
  <2>3. Good(live, rc', slot', blks, d, st, NULL)
    <3> HIDE DEF mid, old
    <3> QED
      BY <2>1, <2>2, Wrote
  <2> QED
    BY <1>3, <1>4, <2>3 DEF Assigned
<1>5. CASE /\ old # NULL /\ mid[old] <= 1 /\ rc' = mid /\ slot' = slot
           /\ stack' = st \o <<AssignFrame(dst, new), FreeFrame(old)>>
  <2> DEFINE a == AssignFrame(dst, new)
             b == FreeFrame(old)
  <2>0. old \in live /\ old \in Objects /\ old \in ObjectOrNull
    BY <1>0, <1>1, <1>5 DEF ObjectOrNull
  <2>1. a \in Frames /\ b \in Frames /\ a.kind = "assign"
    <3> HIDE DEF old
    <3> QED
      BY <1>0, <2>0 DEF AssignFrame, FreeFrame, Frames, Addresses, ObjectOrNull
  <2>2. /\ left \in [Objects -> Int]
        /\ \A p \in Objects : left[p] = counts[p] + (IF p = new THEN 1 ELSE 0)
                                                  - (IF p = slot[dst] THEN 1 ELSE 0)
        /\ left[old] = mid[old] - 1
        /\ \A p \in Objects : mid[p] = left[p] + (IF p = old THEN 1 ELSE 0)
    <3> HIDE DEF mid
    <3>1. \A p \in Objects : mid[p] \in Int
      BY <1>2
    <3>2. left \in [Objects -> Int]
      BY <3>1
    <3>3. \A p \in Objects : left[p] = mid[p] - (IF p = old THEN 1 ELSE 0)
      OBVIOUS
    <3> HIDE DEF left
    <3> QED
      BY <1>0, <1>2, <2>0, <3>1, <3>2, <3>3
  <2> HIDE DEF a, b
  <2>3. /\ Pushed(st, Len(st), Append(st, a), a)
        /\ Pushed(Append(st, a), Len(st) + 1, Append(Append(st, a), b), b)
        /\ Append(st, a)[Len(st) + 1] = a
        /\ stack' = Append(Append(st, a), b)
        /\ Len(st) + 1 > 0
    <3>1. stack' = st \o <<a, b>>
      BY <1>5 DEF a, b
    <3>2. Len(st) \in Nat
      BY <1>0
    <3> QED
      BY <1>0, <2>1, <3>1, <3>2, TwoPushed
  <2>4. Good(live, left, slot, blks, d, Append(st, a), old)
    <3>1. Pushed(st, Len(st), Append(st, a), AssignFrame(dst, new))
      BY <2>3 DEF a
    <3>2. /\ left \in [Objects -> Int]
          /\ \A p \in Objects : left[p] = counts[p] + (IF p = new THEN 1 ELSE 0)
                                                  - (IF p = slot[dst] THEN 1 ELSE 0)
      BY <2>2
    <3> HIDE DEF left
    <3>3. Good(live, left, slot, blks, d, Append(st, a), slot[dst])
      BY <3>1, <3>2, PushAssign
    <3> QED
      BY <3>3
  <2>5. left[old] = 0
    <3> HIDE DEF left, mid, old
    <3>1. left[old] \in Nat
      BY <2>0, <2>4, LiveFacts
    <3>2. mid[old] \in Int
      BY <1>2, <2>0
    <3> QED
      BY <1>5, <2>2, <3>1, <3>2
  <2>6. Good(live, mid, slot, blks, d, Append(Append(st, a), b), NULL)
    <3>1. Pushed(Append(st, a), Len(st) + 1, Append(Append(st, a), b), FreeFrame(old))
      BY <2>3 DEF b
    <3>2. Append(st, a)[Len(st) + 1].kind \in {"assign", "free"} /\ Len(st) + 1 > 0
      BY <2>1, <2>3
    <3>3. /\ mid \in [Objects -> Int]
          /\ \A p \in Objects : mid[p] = left[p] + (IF p = old THEN 1 ELSE 0)
      BY <1>2, <2>2
    <3> HIDE DEF left, mid, old
    <3>4. ASSUME NEW n, NEW u, NEW t, Good(live, left, slot, blks, d, u, old),
                 Pushed(u, n, t, FreeFrame(old)), n > 0, u[n].kind \in {"assign", "free"}
          PROVE  Good(live, mid, slot, blks, d, t, NULL)
      BY <2>0, <2>5, <3>3, <3>4, PushFree
    <3> QED
      BY <2>4, <3>1, <3>2, <3>4
  <2> QED
    BY <1>3, <1>5, <2>3, <2>6 DEF Assigned
<1> QED
  BY <1>3, <1>4, <1>5

-----------------------------------------------------------------------------
(* A frame is popped.                                                      *)

GoneTop(f, s) ==
  \/ f.kind = "assign" /\ f.dst = s
  \/ f.kind = "free" /\ \E n \in Fields : n < f.n /\ s = <<f.obj, n>>

LEMMA GonePopped ==
  ASSUME NEW st, NEW n, NEW t, Popped(st, n, t), NEW s
  PROVE  Gone(st, s) <=> Gone(t, s) \/ GoneTop(st[n], s)
<1>1. /\ n \in Nat \ {0} /\ n = Len(st) /\ Len(t) = n - 1 /\ n \in 1 .. Len(st)
      /\ \A i \in 1 .. n - 1 : i \in 1 .. Len(st) /\ t[i] = st[i]
  BY DEF Popped
<1>2. \A i \in 1 .. Len(st) : i = n \/ i \in 1 .. n - 1
  BY <1>1
<1>3. Gone(t, s) => Gone(st, s)
  BY <1>1 DEF Gone
<1>4. GoneTop(st[n], s) => Gone(st, s)
  BY <1>1 DEF Gone, GoneTop
<1>5. ASSUME Gone(st, s) PROVE Gone(t, s) \/ GoneTop(st[n], s)
  <2>1. PICK i \in 1 .. Len(st) : GoneTop(st[i], s)
    BY <1>5 DEF Gone, GoneTop
  <2>2. CASE i \in 1 .. n - 1
    <3>1. i \in 1 .. Len(t) /\ t[i] = st[i]
      BY <1>1, <2>2
    <3> QED
      BY <2>1, <3>1 DEF Gone, GoneTop
  <2> QED
    BY <1>2, <2>1, <2>2
<1> QED
  BY <1>3, <1>4, <1>5

LEMMA RefsPopped ==
  ASSUME NEW st, NEW n, NEW t, Popped(st, n, t), NEW p
  PROVE  /\ \A y : y # n => (y \in FlightsIn(st, p) <=> y \in FlightsIn(t, p))
         /\ \A y : y # n => (y \in FreesIn(st, p) <=> y \in FreesIn(t, p))
         /\ n \in FlightsIn(st, p) <=> st[n].val = p
         /\ n \in FreesIn(st, p) <=> st[n].kind = "free" /\ st[n].obj = p
         /\ n \notin FlightsIn(t, p) /\ n \notin FreesIn(t, p)
<1>1. /\ n \in Nat \ {0} /\ n = Len(st) /\ Len(t) = n - 1 /\ n \in 1 .. Len(st)
      /\ \A i \in 1 .. n - 1 : i \in 1 .. Len(st) /\ t[i] = st[i]
  BY DEF Popped
<1>2. ASSUME NEW y, y # n PROVE y \in 1 .. Len(st) <=> y \in 1 .. Len(t)
  BY <1>1, <1>2
<1>3. ASSUME NEW y \in 1 .. Len(t) PROVE t[y] = st[y]
  BY <1>1
<1>4. n \notin 1 .. Len(t)
  BY <1>1
<1>5. ASSUME NEW y, y # n
      PROVE  /\ y \in FlightsIn(st, p) <=> y \in FlightsIn(t, p)
             /\ y \in FreesIn(st, p) <=> y \in FreesIn(t, p)
  BY <1>2, <1>3, <1>5 DEF FlightsIn, FreesIn
<1>6. /\ n \in FlightsIn(st, p) <=> st[n].val = p
      /\ n \in FreesIn(st, p) <=> st[n].kind = "free" /\ st[n].obj = p
      /\ n \notin FlightsIn(t, p) /\ n \notin FreesIn(t, p)
  BY <1>1, <1>4 DEF FlightsIn, FreesIn
<1> QED
  BY <1>5, <1>6

LEMMA ReleasePopped ==
  ASSUME NEW st, NEW d, StackOK(st, d), Shape(st), NEW n, NEW t, Popped(st, n, t),
         NEW sl, NEW sl2, NEW k \in 1 .. n - 1, ReleaseOK(sl, st, k),
         \A s \in HoldersIn(sl2, t, st[k].obj) :
           \/ s \in HoldersIn(sl, st, st[k].obj)
              /\ (Activation(st[n]) => s \notin VarSlots \/ s[1] # d)
           \/ OwnVar(t, k, s)
  PROVE  ReleaseOK(sl2, t, k)
<1>1. /\ n \in Nat \ {0} /\ n = Len(st) /\ Len(t) = n - 1 /\ n \in 1 .. Len(st)
      /\ \A i \in 1 .. n - 1 : i \in 1 .. Len(st) /\ t[i] = st[i]
  BY DEF Popped
<1>2. /\ d = Level(st, n)
      /\ \A i \in 0 .. n - 1 : Level(t, i) = Level(st, i)
  BY PoppedStack
<1>3. t[k].obj = st[k].obj
  BY <1>1
<1>4. ASSUME NEW s \in HoldersIn(sl, st, st[k].obj),
             Activation(st[n]) => s \notin VarSlots \/ s[1] # d
      PROVE  OwnVar(t, k, s)
  <2>1. PICK j \in k + 1 .. Len(st) :
          Activation(st[j]) /\ st[j].obj = st[k].obj /\ s \in VarSlots /\ s[1] = Level(st, j)
    BY DEF ReleaseOK, OwnVar
  <2>2. j # n
    BY <1>2, <1>4, <2>1
  <2>3. j \in k + 1 .. Len(t) /\ j \in 0 .. n - 1 /\ j \in 1 .. n - 1
    BY <1>1, <2>2
  <2>4. t[j] = st[j] /\ Level(t, j) = Level(st, j)
    BY <1>1, <1>2, <2>3
  <2> QED
    BY <1>3, <2>1, <2>3, <2>4 DEF OwnVar
<1>5. ASSUME NEW i \in FlightsIn(t, st[k].obj) PROVE OwnFlight(t, k, i)
  <2>1. i \in 1 .. n - 1
    BY <1>1 DEF FlightsIn
  <2>2. i # n /\ i \in FlightsIn(st, st[k].obj) /\ t[i] = st[i]
    BY <1>1, <2>1, RefsPopped
  <2>3. OwnFlight(st, k, i)
    BY <2>2 DEF ReleaseOK
  <2>4. CASE Activation(st[i]) /\ st[i].obj = st[k].obj
    BY <1>3, <2>2, <2>3, <2>4 DEF OwnFlight
  <2>5. CASE st[i].kind = "assign" /\ st[i - 1].obj = st[k].obj /\ st[i].dst \in VarSlots
    <3>1. i > 1
      BY <1>1, <2>1, <2>5, ShapeFacts DEF Activation
    <3>2. i - 1 \in 1 .. n - 1
      BY <1>1, <2>1, <3>1
    <3>3. t[i - 1] = st[i - 1]
      BY <1>1, <3>2
    <3> QED
      BY <1>3, <2>2, <2>3, <2>5, <3>3 DEF OwnFlight
  <2> QED
    BY <2>3, <2>4, <2>5 DEF OwnFlight
<1> QED
  BY <1>3, <1>4, <1>5 DEF ReleaseOK

LEMMA WritePopped ==
  ASSUME NEW st, NEW d, StackOK(st, d), Shape(st), NEW n, NEW t, Popped(st, n, t),
         NEW sl, NEW sl2, NEW i \in 1 .. n - 1, st[i].kind = "assign", WriteOK(sl, st, i),
         \A v \in Vars : <<Level(st, i), v>> \in VarSlots =>
           sl2[<<Level(st, i), v>>] = sl[<<Level(st, i), v>>]
  PROVE  WriteOK(sl2, t, i)
<1>1. /\ n \in Nat \ {0} /\ n = Len(st) /\ Len(t) = n - 1 /\ n \in 1 .. Len(st)
      /\ \A j \in 1 .. n - 1 : j \in 1 .. Len(st) /\ t[j] = st[j]
  BY DEF Popped
<1>2. i > 1
  BY <1>1, ShapeFacts DEF Activation
<1>3. i - 1 \in 1 .. n - 1 /\ i \in 0 .. n - 1
  BY <1>1, <1>2
<1>4. Level(t, i) = Level(st, i)
  BY <1>3, PoppedStack
<1>5. t[i] = st[i] /\ t[i - 1] = st[i - 1]
  BY <1>1, <1>3
<1> QED
  BY <1>4, <1>5 DEF WriteOK

(* The release has returned: the write that waited for it is done.         *)
LEMMA PopAssign ==
  ASSUME NEW live, NEW counts, NEW sl, NEW blks, NEW d, NEW st,
         Good(live, counts, sl, blks, d, st, NULL),
         NEW n, NEW t, Popped(st, n, t), st[n].kind = "assign",
         NEW sl2 \in [Slots -> ObjectOrNull],
         sl2[st[n].dst] = st[n].val,
         \A s \in Slots : s # st[n].dst => sl2[s] = sl[s]
  PROVE  Good(live, counts, sl2, blks, d, t, NULL)
<1> DEFINE dst == st[n].dst
           val == st[n].val
<1>0. /\ StackOK(st, d) /\ Shape(st) /\ live \subseteq Objects
      /\ counts \in [Objects -> Int] /\ sl \in [Slots -> ObjectOrNull]
      /\ NULL \notin Objects /\ ~Activation(st[n])
  BY GoodFacts, MemoryAssumption DEF Activation
<1>1. /\ t \in Seq(Frames) /\ n \in Nat \ {0} /\ n = Len(st) /\ Len(t) = n - 1
      /\ n \in 1 .. Len(st)
      /\ \A i \in 1 .. n - 1 : t[i] = st[i] /\ i \in 1 .. Len(st)
  BY DEF Popped
<1>2. /\ n > 1 /\ n - 1 \in 1 .. n - 1 /\ n - 1 \in 1 .. Len(st) /\ Activation(st[n - 1])
      /\ FrameOK(st[n], Level(st, n))
  BY <1>0, <1>1, ShapeFacts
<1>3. StackOK(t, d) /\ d = Level(st, n) /\ d = Level(st, n - 1) /\ d \in Nat
  BY <1>0, PoppedStack
<1>4. Shape(t)
  BY <1>0, ShapePopped
<1>5. dst \in Slots /\ (dst \in VarSlots => dst[1] = d) /\ val \in ObjectOrNull
  BY <1>0, <1>2, <1>3 DEF FrameOK, Frames
<1>6. WriteOK(sl, st, n)
  BY <1>1 DEF Good
<1>7. ~Gone(t, dst)
  <2>1. CASE dst \in VarSlots
    <3>1. t # <<>> /\ Activation(t[Len(t)]) /\ dst[1] = d
      BY <1>1, <1>2, <1>5, <2>1
    <3> QED
      BY <1>3, <1>4, <2>1, <3>1, OwnVarFree
  <2>2. CASE dst \in FieldSlots
    <3>1. st[n - 1].obj \in {NULL, dst[1]}
      BY <1>6, <2>2 DEF WriteOK
    <3>2. ASSUME NEW i \in 1 .. (n - 1) - 1 PROVE ~GoneTop(st[i], dst)
      <4>1. ASSUME NEW m \in 1 .. Len(st), Activation(st[m]), st[m].obj \in {NULL, dst[1]},
                   NEW j \in 1 .. m - 1
            PROVE  /\ ~(st[j].kind = "assign" /\ st[j].dst = dst)
                   /\ ~(st[j].kind = "free" /\ \E f \in Fields : f < st[j].n /\ dst = <<st[j].obj, f>>)
        <5> HIDE DEF dst
        <5> QED
          BY <2>2, <4>1, FieldBelow
      <4>2. /\ ~(st[i].kind = "assign" /\ st[i].dst = dst)
            /\ ~(st[i].kind = "free" /\ \E f \in Fields : f < st[i].n /\ dst = <<st[i].obj, f>>)
        BY <1>2, <3>1, <4>1
      <4> HIDE DEF dst
      <4> QED
        BY <4>2 DEF GoneTop
    <3>3. ~GoneTop(st[n - 1], dst)
      BY <1>2 DEF GoneTop, Activation
    <3>4. \A i \in 1 .. n - 1 : i = n - 1 \/ i \in 1 .. (n - 1) - 1
      BY <1>1
    <3>5. ASSUME NEW i \in 1 .. Len(t) PROVE ~GoneTop(t[i], dst)
      <4>1. i \in 1 .. n - 1 /\ t[i] = st[i]
        BY <1>1
      <4> HIDE DEF dst
      <4> QED
        BY <3>2, <3>3, <3>4, <4>1
    <3> HIDE DEF dst
    <3> QED
      BY <3>5 DEF Gone, GoneTop
  <2>3. CASE dst \in PackageSlots
    <3>1. st[n - 1].obj = NULL
      BY <1>6, <2>3 DEF WriteOK
    <3>2. \A i \in 1 .. (n - 1) - 1 : st[i].kind = "sub"
      BY <1>0, <1>2, <3>1 DEF Shape
    <3>3. \A i \in 1 .. n - 1 : i = n - 1 \/ i \in 1 .. (n - 1) - 1
      BY <1>1
    <3>4. \A i \in 1 .. n - 1 : st[i].kind # "assign" /\ st[i].kind # "free"
      BY <1>2, <3>2, <3>3 DEF Activation
    <3> QED
      BY <1>1, <3>4 DEF Gone
  <2> QED
    BY <1>5, <2>1, <2>2, <2>3, SlotKinds
<1>8. ASSUME NEW p, NEW s, s # dst PROVE s \in HoldersIn(sl, st, p) <=> s \in HoldersIn(sl2, t, p)
  <2>1. Gone(st, s) <=> Gone(t, s)
    <3>1. ~GoneTop(st[n], s)
      BY <1>8 DEF GoneTop
    <3> QED
      BY <3>1, GonePopped
  <2> QED
    BY <1>8, <2>1 DEF HoldersIn
<1>9. \A p : dst \notin HoldersIn(sl, st, p)
  <2>1. GoneTop(st[n], dst)
    BY DEF GoneTop
  <2>2. Gone(st, dst)
    BY <2>1, GonePopped
  <2> QED
    BY <2>2 DEF HoldersIn
<1>10. \A p : dst \in HoldersIn(sl2, t, p) <=> p = val
  BY <1>5, <1>7 DEF HoldersIn
<1>11. \A p : n \in FlightsIn(st, p) <=> p = val
  BY RefsPopped
<1>12. ASSUME NEW k \in 1 .. n - 1, t[k].kind = "free" PROVE ReleaseOK(sl2, t, k)
  <2>1. st[k].kind = "free" /\ k \in 1 .. Len(st) /\ t[k] = st[k]
    BY <1>1, <1>12
  <2>2. ReleaseOK(sl, st, k) /\ st[k].obj \in Objects
    BY <1>0, <2>1 DEF Good, StackOK, FrameOK
  <2>3. ASSUME NEW s \in HoldersIn(sl2, t, st[k].obj), s \notin HoldersIn(sl, st, st[k].obj)
        PROVE  OwnVar(t, k, s)
    <3>1. s = dst
      BY <1>8, <2>3
    <3>2. val = st[k].obj
      BY <1>10, <2>3, <3>1
    <3>3. OwnFlight(st, k, n)
      BY <1>11, <2>2, <3>2 DEF ReleaseOK
    <3>4. st[n - 1].obj = st[k].obj /\ dst \in VarSlots
      BY <1>0, <3>3 DEF OwnFlight
    <3>5. k # n - 1
      BY <1>2, <2>1 DEF Activation
    <3>6. n - 1 \in k + 1 .. Len(t) /\ t[n - 1] = st[n - 1]
      BY <1>1, <1>2, <3>5
    <3>7. Level(t, n - 1) = d
      BY <1>1, <1>3 DEF StackOK
    <3> QED
      BY <1>2, <1>5, <2>1, <3>1, <3>4, <3>6, <3>7 DEF OwnVar
  <2> QED
    BY <1>0, <2>2, <2>3, ReleasePopped
<1>13. ASSUME NEW i \in 1 .. n - 1, t[i].kind = "assign" PROVE WriteOK(sl2, t, i)
  <2>1. st[i].kind = "assign" /\ i \in 1 .. Len(st) /\ i < n
    BY <1>1, <1>13
  <2>2. WriteOK(sl, st, i)
    BY <2>1 DEF Good
  <2>3. Level(st, i) \in Nat /\ Level(st, i) < d
    <3>1. Level(st, i) < Level(st, n)
      BY <1>0, <1>1, <2>1, AssignLevels
    <3> QED
      BY <1>3, <2>1, <3>1, GoodFacts
  <2>4. ASSUME NEW v \in Vars, <<Level(st, i), v>> \in VarSlots
        PROVE  sl2[<<Level(st, i), v>>] = sl[<<Level(st, i), v>>]
    <3>1. <<Level(st, i), v>> \in Slots /\ <<Level(st, i), v>>[1] = Level(st, i)
      BY <2>4, SlotKinds
    <3>2. <<Level(st, i), v>> # dst
      BY <1>3, <1>5, <2>3, <2>4, <3>1
    <3> QED
      BY <3>1, <3>2
  <2> QED
    BY <1>0, <2>1, <2>2, <2>4, WritePopped
<1>14. Follows(live, counts, sl, st, counts, sl2, t, dst, n, n, NULL)
  <2>1. ASSUME NEW p \in live
        PROVE  /\ counts[p] = counts[p]
                    + Ind(dst, HoldersIn(sl2, t, p)) - Ind(dst, HoldersIn(sl, st, p))
                    + Ind(n, FlightsIn(t, p)) - Ind(n, FlightsIn(st, p))
                    + Ind(n, FreesIn(t, p)) - Ind(n, FreesIn(st, p))
               /\ p # NULL => counts[p] > 0
    <3>0. p \in Objects /\ counts[p] \in Nat
      BY <1>0, LiveFacts
    <3>1. counts[p] > 0
      BY <1>0, <3>0 DEF Good, Exact
    <3>2. /\ Ind(dst, HoldersIn(sl, st, p)) = 0
          /\ p = val => Ind(dst, HoldersIn(sl2, t, p)) = 1
          /\ p # val => Ind(dst, HoldersIn(sl2, t, p)) = 0
      BY <1>9, <1>10, IndFacts
    <3>3. /\ n \notin FlightsIn(t, p) /\ n \notin FreesIn(t, p) /\ n \notin FreesIn(st, p)
      BY RefsPopped
    <3>4. /\ p = val => Ind(n, FlightsIn(st, p)) = 1
          /\ p # val => Ind(n, FlightsIn(st, p)) = 0
          /\ Ind(n, FlightsIn(t, p)) = 0
          /\ Ind(n, FreesIn(t, p)) = 0 /\ Ind(n, FreesIn(st, p)) = 0
      BY <1>11, <3>3, IndFacts
    <3> HIDE DEF dst, val
    <3> QED
      BY <3>0, <3>1, <3>2, <3>4
  <2>2. ASSUME NEW p \in Objects \ live
        PROVE  dst \notin HoldersIn(sl2, t, p) /\ n \notin FlightsIn(t, p) /\ n \notin FreesIn(t, p)
    <3>1. n \notin FlightsIn(st, p)
      BY LiveFacts
    <3> QED
      BY <1>10, <1>11, <3>1, RefsPopped
  <2>3. ASSUME NEW p \in Objects, NEW y
        PROVE  /\ y # n => (y \in FlightsIn(st, p) <=> y \in FlightsIn(t, p))
               /\ y # n => (y \in FreesIn(st, p) <=> y \in FreesIn(t, p))
    BY RefsPopped
  <2> HIDE DEF dst
  <2> QED
    BY <1>8, <2>1, <2>2, <2>3 DEF Follows
<1>15. Exact(live, counts, sl2, t, NULL)
  <2>1. Exact(live, counts, sl, st, NULL) /\ Len(st) \in Nat /\ Len(t) \in Nat
    BY <1>1 DEF Good
  <2> QED
    BY <1>14, <2>1, ExactMoved
<1>16. ASSUME NEW o \in Objects \ live, NEW g \in Fields PROVE sl2[<<o, g>>] = NULL
  <2>1. <<o, g>> \in FieldSlots /\ <<o, g>> \in Slots
    BY SlotKinds DEF FieldSlots
  <2>2. <<o, g>> # dst
    <3>1. dst \in FieldSlots => dst[1] \in live
      BY <1>1, WriteHolder
    <3> QED
      BY <2>1, <3>1
  <2>3. sl[<<o, g>>] = NULL
    BY DEF Good
  <2> QED
    BY <2>1, <2>2, <2>3
<1>17. blks = Cardinality(live) + d
  BY DEF Good
<1> QED
  BY <1>0, <1>1, <1>3, <1>4, <1>12, <1>13, <1>15, <1>16, <1>17 DEF Good

(* An activation ends, its variables released: its result is nobody's yet. *)
LEMMA PopSub ==
  ASSUME NEW live, NEW counts, NEW sl, NEW blks, NEW d, NEW st,
         Good(live, counts, sl, blks, d, st, NULL),
         NEW n, NEW t, Popped(st, n, t), Activation(st[n]),
         \A v \in Vars : <<d, v>> \in VarSlots => sl[<<d, v>>] = NULL,
         NEW counts2 \in [Objects -> Int],
         \A p \in Objects : counts2[p] = counts[p] - (IF p = st[n].val THEN 1 ELSE 0)
  PROVE  Good(live, counts2, sl, blks - 1, d - 1, t, st[n].val)
<1> DEFINE val == st[n].val
<1>0. /\ StackOK(st, d) /\ Shape(st) /\ live \subseteq Objects
      /\ counts \in [Objects -> Int] /\ sl \in [Slots -> ObjectOrNull]
      /\ NULL \notin Objects /\ Cardinality(live) \in Nat
  BY GoodFacts, MemoryAssumption
<1>1. /\ t \in Seq(Frames) /\ n \in Nat \ {0} /\ n = Len(st) /\ Len(t) = n - 1
      /\ n \in 1 .. Len(st)
      /\ \A i \in 1 .. n - 1 : t[i] = st[i] /\ i \in 1 .. Len(st)
  BY DEF Popped
<1>2. StackOK(t, d - 1) /\ d \in Nat
  BY <1>0, PoppedStack
<1>3. Shape(t)
  BY <1>0, ShapePopped
<1>4. ASSUME NEW p, NEW s PROVE s \in HoldersIn(sl, st, p) <=> s \in HoldersIn(sl, t, p)
  <2>1. ~GoneTop(st[n], s)
    BY DEF GoneTop, Activation
  <2>2. Gone(st, s) <=> Gone(t, s)
    BY <2>1, GonePopped
  <2> QED
    BY <2>2 DEF HoldersIn
<1>5. ASSUME NEW k \in 1 .. n - 1, t[k].kind = "free" PROVE ReleaseOK(sl, t, k)
  <2>1. st[k].kind = "free" /\ k \in 1 .. Len(st) /\ t[k] = st[k]
    BY <1>1, <1>5
  <2>2. ReleaseOK(sl, st, k) /\ st[k].obj \in Objects
    BY <1>0, <2>1 DEF Good, StackOK, FrameOK
  <2>3. ASSUME NEW s \in HoldersIn(sl, t, st[k].obj), s \in VarSlots, s[1] = d PROVE FALSE
    <3>1. sl[s] # NULL
      BY <1>0, <2>2 DEF HoldersIn
    <3>2. s[2] \in Vars /\ s = <<d, s[2]>>
      BY <2>3 DEF VarSlots
    <3> QED
      BY <2>3, <3>1, <3>2
  <2> QED
    BY <1>0, <1>4, <2>2, <2>3, ReleasePopped
<1>6. ASSUME NEW i \in 1 .. n - 1, t[i].kind = "assign" PROVE WriteOK(sl, t, i)
  <2>1. st[i].kind = "assign" /\ i \in 1 .. Len(st) /\ i < n
    BY <1>1, <1>6
  <2>2. WriteOK(sl, st, i)
    BY <2>1 DEF Good
  <2> QED
    BY <1>0, <2>1, <2>2, WritePopped
<1>7. Follows(live, counts, sl, st, counts2, sl, t, NoSlot, n, n, val)
  <2>1. ASSUME NEW p \in live
        PROVE  /\ counts2[p] = counts[p]
                    + Ind(NoSlot, HoldersIn(sl, t, p)) - Ind(NoSlot, HoldersIn(sl, st, p))
                    + Ind(n, FlightsIn(t, p)) - Ind(n, FlightsIn(st, p))
                    + Ind(n, FreesIn(t, p)) - Ind(n, FreesIn(st, p))
               /\ p # val => counts2[p] > 0
    <3>0. p \in Objects /\ counts[p] \in Nat /\ counts[p] > 0
      BY <1>0, LiveFacts DEF Good, Exact
    <3>1. NoSlot \notin HoldersIn(sl, t, p) /\ NoSlot \notin HoldersIn(sl, st, p)
      BY SlotKinds DEF HoldersIn
    <3>2. Ind(NoSlot, HoldersIn(sl, t, p)) = 0 /\ Ind(NoSlot, HoldersIn(sl, st, p)) = 0
      BY <3>1, IndFacts
    <3>3. /\ n \notin FlightsIn(t, p) /\ n \notin FreesIn(t, p) /\ n \notin FreesIn(st, p)
          /\ n \in FlightsIn(st, p) <=> p = val
      BY RefsPopped DEF Activation
    <3>4. /\ p = val => Ind(n, FlightsIn(st, p)) = 1
          /\ p # val => Ind(n, FlightsIn(st, p)) = 0
          /\ Ind(n, FlightsIn(t, p)) = 0
          /\ Ind(n, FreesIn(t, p)) = 0 /\ Ind(n, FreesIn(st, p)) = 0
      BY <3>3, IndFacts
    <3>5. counts2[p] = counts[p] - (IF p = val THEN 1 ELSE 0)
      BY <3>0
    <3> HIDE DEF val
    <3> QED
      BY <3>0, <3>2, <3>4, <3>5
  <2>2. ASSUME NEW p \in Objects \ live
        PROVE  NoSlot \notin HoldersIn(sl, t, p) /\ n \notin FlightsIn(t, p) /\ n \notin FreesIn(t, p)
    BY RefsPopped, SlotKinds DEF HoldersIn
  <2>3. ASSUME NEW p \in Objects, NEW y
        PROVE  /\ y # n => (y \in FlightsIn(st, p) <=> y \in FlightsIn(t, p))
               /\ y # n => (y \in FreesIn(st, p) <=> y \in FreesIn(t, p))
    BY RefsPopped
  <2> HIDE DEF val
  <2> QED
    BY <1>4, <2>1, <2>2, <2>3 DEF Follows
<1>8. Exact(live, counts2, sl, t, val)
  <2>1. Exact(live, counts, sl, st, NULL) /\ Len(st) \in Nat /\ Len(t) \in Nat
    BY <1>1 DEF Good
  <2> QED
    BY <1>7, <2>1, ExactMoved
<1>9. /\ \A o \in Objects \ live, g \in Fields : sl[<<o, g>>] = NULL
      /\ blks = Cardinality(live) + d
  BY DEF Good
<1>10. blks - 1 = Cardinality(live) + (d - 1)
  BY <1>0, <1>2, <1>9
<1> QED
  BY <1>0, <1>1, <1>2, <1>3, <1>5, <1>6, <1>8, <1>9, <1>10 DEF Good

(* The release of an object ends with its block: nobody refers to it.      *)
LEMMA PopFree ==
  ASSUME NEW live, NEW counts, NEW sl, NEW blks, NEW d, NEW st,
         Good(live, counts, sl, blks, d, st, NULL),
         NEW n, NEW t, Popped(st, n, t), st[n].kind = "free", st[n].n > NFields,
         NEW o, o = st[n].obj,
         NEW sl2 \in [Slots -> ObjectOrNull],
         \A s \in {o} \X Fields : sl2[s] = NULL,
         \A s \in Slots : s \notin {o} \X Fields => sl2[s] = sl[s],
         NEW counts2 \in [Objects -> Int],
         \A p \in Objects : p # o => counts2[p] = counts[p]
  PROVE  Good(live \ {o}, counts2, sl2, blks - 1, d, t, NULL)
<1>0. /\ StackOK(st, d) /\ Shape(st) /\ live \subseteq Objects
      /\ counts \in [Objects -> Int] /\ sl \in [Slots -> ObjectOrNull]
      /\ NULL \notin Objects /\ IsFiniteSet(live) /\ Cardinality(live) \in Nat
      /\ ~Activation(st[n])
  BY GoodFacts, MemoryAssumption DEF Activation
<1>1. /\ t \in Seq(Frames) /\ n \in Nat \ {0} /\ n = Len(st) /\ Len(t) = n - 1
      /\ n \in 1 .. Len(st)
      /\ \A i \in 1 .. n - 1 : t[i] = st[i] /\ i \in 1 .. Len(st)
  BY DEF Popped
<1>2. StackOK(t, d) /\ d = Level(st, n) /\ d \in Nat
  BY <1>0, PoppedStack
<1>3. Shape(t)
  BY <1>0, ShapePopped
<1>4. o \in Objects /\ o \in live
  <2>1. o \in Objects
    BY <1>0, <1>1 DEF StackOK, FrameOK
  <2>2. n \in FreesIn(st, o)
    BY RefsPopped
  <2> QED
    BY <2>1, <2>2, LiveFacts
<1>5. \A x : x \notin HoldersIn(sl, st, o) /\ x \notin FlightsIn(st, o)
  <2>1. ReleaseOK(sl, st, n)
    BY <1>1 DEF Good
  <2>2. \A s : ~OwnVar(st, n, s)
    <3>1. \A j : j \notin n + 1 .. Len(st)
      BY <1>1
    <3> QED
      BY <3>1 DEF OwnVar
  <2>3. \A i \in 1 .. Len(st) : ~OwnFlight(st, n, i)
    BY <1>1 DEF OwnFlight
  <2> QED
    BY <2>1, <2>2, <2>3 DEF ReleaseOK, FlightsIn
<1>6. \A s : GoneTop(st[n], s) <=> s \in {o} \X Fields
  <2>1. \A g \in Fields : g < st[n].n
    <3>1. st[n].n \in Nat
      BY <1>0, <1>1 DEF StackOK, FrameOK, Frames
    <3> QED
      BY <3>1, MemoryAssumption DEF Fields
  <2> QED
    BY <2>1 DEF GoneTop
<1>7. ASSUME NEW p \in Objects, NEW s
      PROVE  s \in HoldersIn(sl, st, p) <=> s \in HoldersIn(sl2, t, p)
  <2>1. CASE s \in {o} \X Fields
    <3>1. Gone(st, s)
      BY <1>6, <2>1, GonePopped
    <3>2. sl2[s] # p
      BY <1>0, <2>1
    <3> QED
      BY <3>1, <3>2 DEF HoldersIn
  <2>2. CASE s \notin {o} \X Fields
    <3>1. Gone(st, s) <=> Gone(t, s)
      BY <1>6, <2>2, GonePopped
    <3> QED
      BY <2>2, <3>1 DEF HoldersIn
  <2> QED
    BY <2>1, <2>2
<1>8. ASSUME NEW s \in VarSlots PROVE sl2[s] = sl[s]
  <2>1. s \notin {o} \X Fields /\ s \in Slots
    BY <1>4, SlotKinds DEF FieldSlots
  <2> QED
    BY <2>1
<1>9. ASSUME NEW k \in 1 .. n - 1, t[k].kind = "free" PROVE ReleaseOK(sl2, t, k)
  <2>1. st[k].kind = "free" /\ k \in 1 .. Len(st) /\ t[k] = st[k]
    BY <1>1, <1>9
  <2>2. ReleaseOK(sl, st, k) /\ st[k].obj \in Objects
    BY <1>0, <2>1 DEF Good, StackOK, FrameOK
  <2>3. \A s \in HoldersIn(sl2, t, st[k].obj) : s \in HoldersIn(sl, st, st[k].obj)
    BY <1>7, <2>2
  <2> QED
    BY <1>0, <2>2, <2>3, ReleasePopped
<1>10. ASSUME NEW i \in 1 .. n - 1, t[i].kind = "assign" PROVE WriteOK(sl2, t, i)
  <2>1. st[i].kind = "assign" /\ i \in 1 .. Len(st) /\ i < n
    BY <1>1, <1>10
  <2>2. WriteOK(sl, st, i)
    BY <2>1 DEF Good
  <2> QED
    BY <1>0, <1>8, <2>1, <2>2, WritePopped
<1>11. ASSUME NEW p \in Objects
       PROVE  /\ Count(sl2, t, p) = IF p \in live \ {o} THEN counts2[p] ELSE 0
              /\ p \in live \ {o} => counts2[p] > 0
  <2>0. Len(st) \in Nat /\ Len(t) \in Nat
    BY <1>1
  <2>1. CASE p = o
    <3>1. \A x : x \notin HoldersIn(sl2, t, o)
      BY <1>4, <1>5, <1>7
    <3>2. \A x : x \notin FlightsIn(t, o)
      BY <1>5, RefsPopped
    <3>3. \A x : x \notin FreesIn(t, o)
      <4>1. ASSUME NEW x \in FreesIn(t, o) PROVE FALSE
        <5>1. x \in 1 .. n - 1 /\ t[x].kind = "free" /\ t[x].obj = o
          BY <1>1 DEF FreesIn
        <5>2. x \in 1 .. Len(st) /\ x # n /\ st[x].kind = "free" /\ st[x].obj = o
          BY <1>1, <5>1
        <5> QED
          BY <1>0, <1>1, <5>2 DEF Shape
      <4> QED
        BY <4>1
    <3>4. /\ Cardinality(HoldersIn(sl2, t, o)) = 0
          /\ Cardinality(FlightsIn(t, o)) = 0
          /\ Cardinality(FreesIn(t, o)) = 0
      BY <2>0, <3>1, <3>2, <3>3, RefsFinite, CardSome
    <3>5. Count(sl2, t, o) = 0
      BY <3>4 DEF Count
    <3> QED
      BY <2>1, <3>5
  <2>2. CASE p # o
    <3>1. Count(sl, st, p) = IF p \in live THEN counts[p] ELSE 0
      BY DEF Good, Exact
    <3>2. /\ \A y : y # NoSlot => (y \in HoldersIn(sl, st, p) <=> y \in HoldersIn(sl2, t, p))
          /\ \A y : y # n => (y \in FlightsIn(st, p) <=> y \in FlightsIn(t, p))
          /\ \A y : y # n => (y \in FreesIn(st, p) <=> y \in FreesIn(t, p))
      BY <1>7, RefsPopped
    <3>3. /\ Count(sl, st, p) \in Nat /\ Count(sl2, t, p) \in Nat
          /\ Count(sl2, t, p) = Count(sl, st, p)
               + Ind(NoSlot, HoldersIn(sl2, t, p)) - Ind(NoSlot, HoldersIn(sl, st, p))
               + Ind(n, FlightsIn(t, p)) - Ind(n, FlightsIn(st, p))
               + Ind(n, FreesIn(t, p)) - Ind(n, FreesIn(st, p))
      BY <2>0, <3>2, CountMoves
    <3>4. NoSlot \notin HoldersIn(sl2, t, p) /\ NoSlot \notin HoldersIn(sl, st, p)
      BY SlotKinds DEF HoldersIn
    <3>5. st[n].val # p
      <4>1. st[n].val = NULL
        BY <1>0, <1>1 DEF Shape, ResultOK
      <4> QED
        BY <1>0, <4>1
    <3>6. /\ n \notin FlightsIn(t, p) /\ n \notin FreesIn(t, p)
          /\ n \notin FreesIn(st, p) /\ n \notin FlightsIn(st, p)
      BY <2>2, <3>5, RefsPopped
    <3>7. /\ Ind(NoSlot, HoldersIn(sl2, t, p)) = 0 /\ Ind(NoSlot, HoldersIn(sl, st, p)) = 0
          /\ Ind(n, FlightsIn(t, p)) = 0 /\ Ind(n, FlightsIn(st, p)) = 0
          /\ Ind(n, FreesIn(t, p)) = 0 /\ Ind(n, FreesIn(st, p)) = 0
      BY <3>4, <3>6, IndFacts
    <3>8. Count(sl2, t, p) = Count(sl, st, p)
      BY <3>3, <3>7
    <3>9. p \in live => counts[p] > 0
      BY <1>0 DEF Good, Exact
    <3> QED
      BY <2>2, <3>1, <3>8, <3>9
  <2> QED
    BY <2>1, <2>2
<1>12. Exact(live \ {o}, counts2, sl2, t, NULL)
  BY <1>11 DEF Exact
<1>13. ASSUME NEW q \in Objects \ (live \ {o}), NEW g \in Fields PROVE sl2[<<q, g>>] = NULL
  <2>1. CASE q = o
    BY <2>1
  <2>2. CASE q # o
    <3>1. sl[<<q, g>>] = NULL
      BY <2>2 DEF Good
    <3>2. <<q, g>> \in Slots /\ <<q, g>> \notin {o} \X Fields
      BY <2>2 DEF Slots, FieldSlots
    <3> QED
      BY <3>1, <3>2
  <2> QED
    BY <2>1, <2>2
<1>14. blks - 1 = Cardinality(live \ {o}) + d
  <2>1. blks = Cardinality(live) + d
    BY DEF Good
  <2>2. Cardinality(live \ {o}) = Cardinality(live) - 1
    <3>1. IsFiniteSet(live)
      BY <1>0
    <3>2. o \in live
      BY <1>4
    <3>3. Cardinality(live \ {o}) = IF o \in live THEN Cardinality(live) - 1 ELSE Cardinality(live)
      BY ONLY <3>1, FS_RemoveElement
    <3> QED
      BY ONLY <3>2, <3>3
  <2> QED
    BY <1>0, <1>2, <2>1, <2>2
<1>15. live \ {o} \subseteq Objects
  BY <1>0
<1> QED
  BY <1>0, <1>1, <1>2, <1>3, <1>9, <1>10, <1>12, <1>13, <1>14, <1>15 DEF Good

(* A subroutine is entered: its argument is one more reference.            *)
LEMMA PushSub ==
  ASSUME NEW live, NEW counts, NEW sl, NEW blks, NEW d, NEW st,
         Good(live, counts, sl, blks, d, st, NULL),
         NEW self \in ObjectOrNull, NEW dst \in Addresses, NEW arg \in live \cup {NULL},
         NEW n, NEW t, Pushed(st, n, t, SubFrame(self, dst)),
         FrameOK(SubFrame(self, dst), d + 1),
         n = 0 => self = NULL /\ dst = NoSlot,
         n > 0 => \/ st[n].kind = "sub" /\ st[n].obj = self
                  \/ st[n].kind = "free" /\ st[n].n = 1 /\ st[n].obj = self /\ dst = NoSlot,
         self = NULL => \A k \in 1 .. n : st[k].kind = "sub",
         \A k \in 1 .. n : st[k].kind = "free" /\ st[k].obj = arg => self = arg,
         NEW s0 \in VarSlots, s0[1] = d + 1, sl[s0] = NULL,
         NEW sl2 \in [Slots -> ObjectOrNull], sl2[s0] = arg,
         \A s \in Slots : s # s0 => sl2[s] = sl[s],
         NEW counts2 \in [Objects -> Int],
         \A p \in Objects : counts2[p] = counts[p] + (IF p = arg THEN 1 ELSE 0)
  PROVE  Good(live, counts2, sl2, blks + 1, d + 1, t, NULL)
<1> DEFINE f == SubFrame(self, dst)
<1>0. /\ StackOK(st, d) /\ Shape(st) /\ live \subseteq Objects
      /\ counts \in [Objects -> Int] /\ sl \in [Slots -> ObjectOrNull]
      /\ NULL \notin Objects /\ Cardinality(live) \in Nat /\ d \in Nat
  BY GoodFacts, MemoryAssumption
<1>1. /\ t \in Seq(Frames) /\ n \in Nat /\ n = Len(st) /\ Len(t) = n + 1
      /\ \A i \in 1 .. n : t[i] = st[i] /\ i \in 1 .. Len(st)
      /\ t[n + 1] = f
  BY DEF Pushed
<1>2. /\ f.kind = "sub" /\ f.dst = dst /\ f.val = NULL /\ f.obj = self /\ Activation(f)
  BY DEF SubFrame, Activation
<1>3. s0 \in Slots /\ s0 \notin FieldSlots
  BY SlotKinds
<1> HIDE DEF f
<1>4. StackOK(t, d + 1)
  BY <1>0, <1>2, PushedStack DEF f
<1>5. Shape(t)
  <2>1. ResultOK(f) /\ f.kind # "free"
    BY <1>2 DEF ResultOK
  <2>2. n > 0 => Link(st[n], f)
    BY <1>2 DEF Link
  <2>3. n = 0 => Activation(f) /\ f.obj = NULL /\ f.dst = NoSlot
    BY <1>2
  <2>4. Activation(f) /\ f.obj # NULL =>
          st[n].obj = f.obj /\ ((st[n].kind = "free" /\ st[n].n = 1) \/ Activation(st[n]))
    <3>1. f.obj # NULL => n > 0
      BY <1>1, <2>3
    <3> QED
      BY <1>2, <3>1 DEF Activation
  <2>5. Activation(f) /\ f.obj = NULL => \A k \in 1 .. n : st[k].kind = "sub"
    BY <1>2
  <2>6. Pushed(st, n, t, f)
    BY DEF f
  <2> QED
    BY <1>0, <2>1, <2>2, <2>3, <2>4, <2>5, <2>6, ShapePushed
<1>6. Alike(st, t)
  BY PushedAlike
<1>7. ASSUME NEW i \in 1 .. n PROVE Level(st, i) \in Nat /\ Level(st, i) <= d
  BY <1>1, GoodFacts
<1>8. ASSUME NEW s PROVE Gone(st, s) <=> Gone(t, s)
  <2>1. Gone(st, s) => Gone(t, s)
    <3>1. ASSUME NEW i \in 1 .. Len(st) PROVE i \in 1 .. Len(t) /\ t[i] = st[i]
      BY <1>1
    <3> QED
      BY <3>1 DEF Gone
  <2>2. Gone(t, s) => Gone(st, s)
    <3>1. ASSUME NEW i \in 1 .. Len(t) PROVE i = n + 1 \/ (i \in 1 .. Len(st) /\ t[i] = st[i])
      <4>1. i = n + 1 \/ i \in 1 .. n
        BY <1>1
      <4> QED
        BY <1>1, <4>1
    <3>2. t[n + 1].kind # "assign" /\ t[n + 1].kind # "free"
      BY <1>1, <1>2
    <3> QED
      BY <3>1, <3>2 DEF Gone
  <2> QED
    BY <2>1, <2>2
<1>9. ~Gone(t, s0)
  <2>1. ASSUME NEW i \in 1 .. Len(st), st[i].kind = "assign", st[i].dst = s0 PROVE FALSE
    <3>1. FrameOK(st[i], Level(st, i)) /\ i \in 1 .. n
      BY <1>0, <1>1 DEF StackOK
    <3>2. s0[1] = Level(st, i)
      BY <2>1, <3>1 DEF FrameOK
    <3> QED
      BY <1>0, <1>7, <3>1, <3>2
  <2>2. ASSUME NEW i \in 1 .. Len(st), st[i].kind = "free", NEW g \in Fields, s0 = <<st[i].obj, g>>
        PROVE  FALSE
    <3>1. FrameOK(st[i], Level(st, i))
      BY <1>0 DEF StackOK
    <3> QED
      BY <1>3, <2>2, <3>1 DEF FrameOK, FieldSlots
  <2>3. ~Gone(st, s0)
    BY <2>1, <2>2 DEF Gone
  <2> QED
    BY <1>8, <2>3
<1>10. ASSUME NEW p, NEW y, y # s0 PROVE y \in HoldersIn(sl, st, p) <=> y \in HoldersIn(sl2, t, p)
  BY <1>8, <1>10 DEF HoldersIn
<1>11. /\ \A p \in Objects : s0 \notin HoldersIn(sl, st, p)
       /\ \A p : s0 \in HoldersIn(sl2, t, p) <=> p = arg
  BY <1>0, <1>3, <1>9 DEF HoldersIn
<1>12. ASSUME NEW p, NEW y, y # n + 1
       PROVE  /\ y \in FlightsIn(st, p) <=> y \in FlightsIn(t, p)
              /\ y \in FreesIn(st, p) <=> y \in FreesIn(t, p)
  <2>1. y \in 1 .. Len(st) <=> y \in 1 .. Len(t)
    BY <1>1, <1>12
  <2>2. y \in 1 .. Len(st) => t[y] = st[y]
    BY <1>1
  <2> QED
    BY <2>1, <2>2 DEF FlightsIn, FreesIn
<1>13. /\ \A p \in Objects : n + 1 \notin FlightsIn(t, p) /\ n + 1 \notin FlightsIn(st, p)
       /\ \A p : n + 1 \notin FreesIn(t, p) /\ n + 1 \notin FreesIn(st, p)
  BY <1>0, <1>1, <1>2 DEF FlightsIn, FreesIn
<1>14. ASSUME NEW k \in 1 .. n + 1, t[k].kind = "free" PROVE ReleaseOK(sl2, t, k)
  <2>0. k \in 1 .. n
    <3>1. k # n + 1
      BY <1>1, <1>2, <1>14
    <3> QED
      BY <1>1, <3>1
  <2>1. k \in 1 .. Len(st) /\ st[k].kind = "free" /\ t[k] = st[k]
    BY <1>1, <1>14, <2>0
  <2>2. ReleaseOK(sl, st, k) /\ st[k].obj \in Objects
    BY <1>0, <2>1 DEF Good, StackOK, FrameOK
  <2>3. ASSUME NEW s \in HoldersIn(sl2, t, st[k].obj), s \notin HoldersIn(sl, st, st[k].obj)
        PROVE  OwnVar(t, k, s)
    <3>1. s = s0 /\ st[k].obj = arg /\ self = arg
      <4>1. s = s0
        BY <1>10, <2>3
      <4>2. st[k].obj = arg
        BY <1>11, <2>3, <4>1
      <4> QED
        BY <2>0, <2>1, <4>1, <4>2
    <3>2. n + 1 \in k + 1 .. Len(t)
      BY <1>1, <2>0
    <3>3. Level(t, n + 1) = d + 1
      BY <1>1, <1>4 DEF StackOK
    <3> QED
      BY <1>1, <1>2, <2>1, <3>1, <3>2, <3>3 DEF OwnVar
  <2>4. \A i \in FlightsIn(t, st[k].obj) : i \in FlightsIn(st, st[k].obj)
    BY <1>12, <1>13, <2>2
  <2> QED
    BY <1>0, <1>6, <2>1, <2>2, <2>3, <2>4, ReleaseAlike
<1>15. ASSUME NEW i \in 1 .. n + 1, t[i].kind = "assign" PROVE WriteOK(sl2, t, i)
  <2>0. i # n + 1
    BY <1>1, <1>2, <1>15
  <2>1. i \in 1 .. n /\ i \in 1 .. Len(st) /\ st[i].kind = "assign"
    BY <1>1, <1>15, <2>0
  <2>2. WriteOK(sl, st, i)
    BY <2>1 DEF Good
  <2>3. ASSUME NEW v \in Vars, <<Level(st, i), v>> \in VarSlots
        PROVE  sl2[<<Level(st, i), v>>] = sl[<<Level(st, i), v>>]
    <3>1. <<Level(st, i), v>> \in Slots /\ <<Level(st, i), v>>[1] = Level(st, i)
      BY <2>3, SlotKinds
    <3>2. <<Level(st, i), v>> # s0
      BY <1>0, <1>7, <2>1, <3>1
    <3> QED
      BY <3>1, <3>2
  <2> QED
    BY <1>0, <1>6, <2>1, <2>2, <2>3, WriteAlike
<1>16. Follows(live, counts, sl, st, counts2, sl2, t, s0, n + 1, n + 1, NULL)
  <2>1. ASSUME NEW p \in live
        PROVE  /\ counts2[p] = counts[p]
                    + Ind(s0, HoldersIn(sl2, t, p)) - Ind(s0, HoldersIn(sl, st, p))
                    + Ind(n + 1, FlightsIn(t, p)) - Ind(n + 1, FlightsIn(st, p))
                    + Ind(n + 1, FreesIn(t, p)) - Ind(n + 1, FreesIn(st, p))
               /\ p # NULL => counts2[p] > 0
    <3>0. p \in Objects /\ counts[p] \in Nat /\ counts[p] > 0
      BY <1>0, LiveFacts DEF Good, Exact
    <3>1. /\ Ind(s0, HoldersIn(sl, st, p)) = 0
          /\ p = arg => Ind(s0, HoldersIn(sl2, t, p)) = 1
          /\ p # arg => Ind(s0, HoldersIn(sl2, t, p)) = 0
      BY <1>11, <3>0, IndFacts
    <3>2. /\ Ind(n + 1, FlightsIn(t, p)) = 0 /\ Ind(n + 1, FlightsIn(st, p)) = 0
          /\ Ind(n + 1, FreesIn(t, p)) = 0 /\ Ind(n + 1, FreesIn(st, p)) = 0
      BY <1>13, <3>0, IndFacts
    <3>3. counts2[p] = counts[p] + (IF p = arg THEN 1 ELSE 0)
      BY <3>0
    <3> QED
      BY <3>0, <3>1, <3>2, <3>3
  <2>2. ASSUME NEW p \in Objects \ live
        PROVE  s0 \notin HoldersIn(sl2, t, p) /\ n + 1 \notin FlightsIn(t, p) /\ n + 1 \notin FreesIn(t, p)
    BY <1>0, <1>11, <1>13
  <2> QED
    BY <1>10, <1>12, <2>1, <2>2 DEF Follows
<1>17. Exact(live, counts2, sl2, t, NULL)
  <2>1. Exact(live, counts, sl, st, NULL) /\ Len(st) \in Nat /\ Len(t) \in Nat
    BY <1>1 DEF Good
  <2> QED
    BY <1>16, <2>1, ExactMoved
<1>18. ASSUME NEW o \in Objects \ live, NEW g \in Fields PROVE sl2[<<o, g>>] = NULL
  <2>1. <<o, g>> \in FieldSlots /\ <<o, g>> \in Slots /\ <<o, g>> # s0
    BY <1>3, SlotKinds DEF FieldSlots
  <2>2. sl[<<o, g>>] = NULL
    BY DEF Good
  <2> QED
    BY <2>1, <2>2
<1>19. blks + 1 = Cardinality(live) + (d + 1)
  <2>1. blks = Cardinality(live) + d
    BY DEF Good
  <2> QED
    BY <1>0, <2>1
<1> QED
  BY <1>0, <1>1, <1>4, <1>5, <1>14, <1>15, <1>17, <1>18, <1>19 DEF Good

(* A new object has no reference yet.                                      *)
LEMMA Fresh ==
  ASSUME NEW live, NEW counts, NEW sl, NEW blks, NEW d, NEW st,
         Good(live, counts, sl, blks, d, st, NULL), NEW o \in Objects, o \notin live,
         NEW counts2 \in [Objects -> Int], counts2[o] = 0,
         \A p \in Objects : p # o => counts2[p] = counts[p]
  PROVE  Good(live \cup {o}, counts2, sl, blks + 1, d, st, o)
<1>0. /\ live \subseteq Objects /\ IsFiniteSet(live) /\ Cardinality(live) \in Nat /\ d \in Nat
      /\ counts \in [Objects -> Int]
  BY GoodFacts
<1>1. Exact(live \cup {o}, counts2, sl, st, o)
  <2> SUFFICES ASSUME NEW p \in Objects
               PROVE  /\ Count(sl, st, p) = IF p \in live \cup {o} THEN counts2[p] ELSE 0
                      /\ p \in live \cup {o} /\ p # o => counts2[p] > 0
    BY DEF Exact
  <2>1. /\ Count(sl, st, p) = IF p \in live THEN counts[p] ELSE 0
        /\ p \in live /\ p # NULL => counts[p] > 0
    BY DEF Good, Exact
  <2>2. p # NULL
    BY MemoryAssumption
  <2> QED
    BY <2>1, <2>2
<1>2. blks + 1 = Cardinality(live \cup {o}) + d
  <2>1. blks = Cardinality(live) + d
    BY DEF Good
  <2>2. Cardinality(live \cup {o}) = Cardinality(live) + 1
    <3>1. IsFiniteSet(live)
      BY <1>0
    <3>2. Cardinality(live \cup {o}) = IF o \in live THEN Cardinality(live) ELSE Cardinality(live) + 1
      BY ONLY <3>1, FS_AddElement
    <3> QED
      BY <3>2
  <2> QED
    BY <1>0, <2>1, <2>2
<1>3. live \cup {o} \subseteq Objects
  BY <1>0
<1>4. \A q \in Objects \ (live \cup {o}), g \in Fields : sl[<<q, g>>] = NULL
  BY DEF Good
<1> QED
  BY <1>1, <1>2, <1>3, <1>4 DEF Good

-----------------------------------------------------------------------------
(* Variables of activations that are gone.                                 *)

(* The first m frames stay; those above do not release variables.          *)
LEMMA ClearedStep ==
  ASSUME NEW sl, NEW d, NEW st, Cleared(sl, d, st), NEW sl2, NEW d2, NEW t,
         Len(st) \in Nat, Len(t) \in Nat, NEW m \in Nat, m <= Len(st), m <= Len(t),
         \A i \in 1 .. m : t[i] = st[i],
         \A i \in m + 1 .. Len(t) : t[i].kind = "leave" => t[i].n = 1,
         m < Len(st) => st[m + 1].kind # "assign",
         \A e \in 1 .. MaxDepth, v \in Vars : e > d2 => sl2[<<e, v>>] = NULL,
         \A i \in 1 .. m, v \in Vars :
           st[i].kind = "leave" /\ sl[<<Level(st, i), v>>] = NULL => sl2[<<Level(st, i), v>>] = NULL
  PROVE  Cleared(sl2, d2, t)
<1>1. \A i \in 0 .. m : Level(t, i) = Level(st, i)
  BY LevelsKept
<1>2. ASSUME NEW i \in 1 .. Len(t), NEW v \in Vars, t[i].kind = "leave", v < t[i].n
      PROVE  \/ sl2[<<Level(t, i), v>>] = NULL
             \/ i < Len(t) /\ t[i + 1].kind = "assign" /\ t[i + 1].dst = <<Level(t, i), v>>
  <2>1. CASE i \in m + 1 .. Len(t)
    <3>1. t[i].n = 1
      BY <1>2, <2>1
    <3> QED
      BY <1>2, <3>1 DEF Vars
  <2>2. CASE i \in 1 .. m
    <3>1. t[i] = st[i] /\ Level(t, i) = Level(st, i) /\ i \in 1 .. Len(st) /\ i \in Nat
      BY <1>1, <2>2
    <3>2. \/ sl[<<Level(st, i), v>>] = NULL
          \/ i < Len(st) /\ st[i + 1].kind = "assign" /\ st[i + 1].dst = <<Level(st, i), v>>
      BY <1>2, <3>1 DEF Cleared
    <3>3. CASE sl[<<Level(st, i), v>>] = NULL
      BY <1>2, <2>2, <3>1, <3>3
    <3>4. CASE i < Len(st) /\ st[i + 1].kind = "assign" /\ st[i + 1].dst = <<Level(st, i), v>>
      <4>1. i # m
        BY <3>4
      <4>2. i + 1 \in 1 .. m /\ i < Len(t)
        BY <2>2, <4>1
      <4>3. t[i + 1] = st[i + 1]
        BY <4>2
      <4> QED
        BY <3>1, <3>4, <4>2, <4>3
    <3> QED
      BY <3>2, <3>3, <3>4
  <2>3. i \in m + 1 .. Len(t) \/ i \in 1 .. m
    OBVIOUS
  <2> QED
    BY <2>1, <2>2, <2>3
<1> QED
  BY <1>2 DEF Cleared

(* A write of the innermost activation of a stack.                         *)
LEMMA ClearedAssigned ==
  ASSUME slot \in [Slots -> ObjectOrNull],
         NEW d \in Depths, NEW st, StackOK(st, d), st # <<>>, st[Len(st)].kind = "sub",
         Cleared(slot, d, st),
         NEW dst \in Slots, dst \in VarSlots => dst[1] = d,
         NEW new \in ObjectOrNull, Assigned(dst, new, st)
  PROVE  Cleared(slot', d, stack')
<1> DEFINE n == Len(st)
<1>0. /\ st \in Seq(Frames) /\ n \in Nat \ {0} /\ n \in 1 .. n /\ d = Level(st, n)
      /\ Activation(st[n])
  BY DEF StackOK, Activation
<1>00. d \in Nat
  BY <1>0, LevelType
<1>1. \A s \in Slots : s # dst => slot'[s] = slot[s]
  BY DEF Assigned
<1>2. ASSUME NEW e \in 1 .. MaxDepth, NEW v \in Vars, e > d PROVE slot'[<<e, v>>] = NULL
  <2>1. <<e, v>> \in VarSlots /\ <<e, v>> \in Slots
    BY DEF VarSlots, Slots
  <2>2. <<e, v>> # dst
    BY <1>00, <1>2, <2>1
  <2>3. slot[<<e, v>>] = NULL
    BY <1>2 DEF Cleared
  <2> QED
    BY <1>1, <2>1, <2>2, <2>3
<1>3. ASSUME NEW i \in 1 .. n, NEW v \in Vars, st[i].kind = "leave",
             slot[<<Level(st, i), v>>] = NULL
      PROVE  slot'[<<Level(st, i), v>>] = NULL
  <2>1. i # n /\ i \in Nat /\ i < n
    BY <1>0, <1>3
  <2>2. Level(st, i) \in Nat /\ Level(st, i) < d
    BY <1>0, <2>1, LevelGrows
  <2>3. Level(st, i) # 0
    <3>1. i \in Activations(st, i)
      BY <1>0, <1>3, <2>1 DEF Activations, Activation
    <3> QED
      BY <2>1, <3>1, LevelType, FS_EmptySet DEF Level
  <2>4. <<Level(st, i), v>> \in VarSlots
    BY <2>2, <2>3, MemoryAssumption DEF VarSlots, Depths
  <2>5. <<Level(st, i), v>> # dst /\ <<Level(st, i), v>> \in Slots
    BY <2>2, <2>4, SlotKinds
  <2> QED
    BY <1>1, <1>3, <2>5
<1>4. ASSUME NEW t \in Seq(Frames), n <= Len(t), \A i \in 1 .. n : t[i] = st[i],
             \A i \in n + 1 .. Len(t) : t[i].kind # "leave"
      PROVE  Cleared(slot', d, t)
  <2>1. /\ Len(st) \in Nat /\ Len(t) \in Nat /\ n \in Nat /\ n <= Len(st)
        /\ \A i \in n + 1 .. Len(t) : t[i].kind = "leave" => t[i].n = 1
        /\ n < Len(st) => st[n + 1].kind # "assign"
    BY <1>0, <1>4
  <2>2. /\ \A e \in 1 .. MaxDepth, v \in Vars : e > d => slot'[<<e, v>>] = NULL
        /\ \A i \in 1 .. n, v \in Vars :
             st[i].kind = "leave" /\ slot[<<Level(st, i), v>>] = NULL => slot'[<<Level(st, i), v>>] = NULL
    BY <1>2, <1>3
  <2> HIDE DEF n
  <2> QED
    BY <1>4, <2>1, <2>2, ClearedStep
<1>5. CASE stack' = st
  BY <1>0, <1>4, <1>5
<1>6. CASE /\ slot' = slot
           /\ stack' = st \o <<AssignFrame(dst, new), FreeFrame(slot[dst])>>
  <2> DEFINE a == AssignFrame(dst, new)
             b == FreeFrame(slot[dst])
  <2>1. a \in Frames /\ b \in Frames /\ a.kind # "leave" /\ b.kind # "leave"
    BY DEF AssignFrame, FreeFrame, Frames, Addresses, ObjectOrNull
  <2>2. stack' = st \o <<a, b>>
    BY <1>6
  <2> HIDE DEF a, b
  <2>3. /\ stack' \in Seq(Frames) /\ Len(stack') = n + 2
        /\ \A i \in 1 .. n : stack'[i] = st[i]
        /\ stack'[n + 1] = a /\ stack'[n + 2] = b
    BY <1>0, <2>1, <2>2
  <2>4. \A i \in n + 1 .. Len(stack') : i = n + 1 \/ i = n + 2
    BY <1>0, <2>3
  <2> QED
    BY <1>0, <1>4, <2>1, <2>3, <2>4
<1> QED
  BY <1>5, <1>6 DEF Assigned

-----------------------------------------------------------------------------
(* What the invariant says of the running program.                         *)

LEMMA TopFacts ==
  ASSUME CountInv, stack # <<>>
  PROVE  /\ Good(alive, rc, slot, blocks, depth, stack, NULL)
         /\ StackOK(stack, depth) /\ Shape(stack)
         /\ stack \in Seq(Frames) /\ Len(stack) \in Nat \ {0} /\ Len(stack) \in 1 .. Len(stack)
         /\ Top = stack[Len(stack)] /\ Top \in Frames /\ FrameOK(Top, depth) /\ ResultOK(Top)
         /\ depth \in Depths /\ depth \in Nat /\ depth = Level(stack, Len(stack))
         /\ slot \in [Slots -> ObjectOrNull] /\ rc \in [Objects -> Int] /\ alive \subseteq Objects
         /\ Popped(stack, Len(stack), Below)
         /\ \A f \in Frames : Replaced(stack, Len(stack), WithTop(f), f)
<1>1. Good(alive, rc, slot, blocks, depth, stack, NULL) /\ depth \in Depths
  BY DEF CountInv
<1>2. /\ StackOK(stack, depth) /\ Shape(stack) /\ stack \in Seq(Frames)
      /\ depth \in Nat /\ depth = Level(stack, Len(stack))
      /\ slot \in [Slots -> ObjectOrNull] /\ rc \in [Objects -> Int] /\ alive \subseteq Objects
  BY <1>1, GoodFacts
<1>3. Len(stack) \in Nat \ {0} /\ Len(stack) \in 1 .. Len(stack)
  BY <1>2
<1>4. Top = stack[Len(stack)] /\ Top \in Frames /\ FrameOK(Top, depth) /\ ResultOK(Top)
  BY <1>2, <1>3, ShapeFacts DEF Top
<1>5. Popped(stack, Len(stack), Below)
  BY <1>2, PoppedFacts DEF Below
<1>6. \A f \in Frames : Replaced(stack, Len(stack), WithTop(f), f)
  BY <1>2, ReplacedFacts DEF WithTop, Below
<1> QED
  BY <1>1, <1>2, <1>3, <1>4, <1>5, <1>6

LEMMA VarFacts ==
  ASSUME CountInv, stack # <<>>, Activation(Top)
  PROVE  /\ depth \in 1 .. MaxDepth
         /\ \A v \in Vars : /\ Var(v) \in VarSlots /\ Var(v) \in Slots
                            /\ Var(v)[1] = depth /\ Var(v) = <<depth, v>>
                            /\ slot[Var(v)] \in ObjectOrNull
<1>1. /\ depth \in Depths /\ depth \in Nat /\ depth = Level(stack, Len(stack))
      /\ Len(stack) \in Nat \ {0} /\ Top = stack[Len(stack)]
      /\ slot \in [Slots -> ObjectOrNull]
  BY TopFacts
<1>2. depth = Level(stack, Len(stack) - 1) + 1 /\ Level(stack, Len(stack) - 1) \in Nat
  BY <1>1, LevelHere
<1>3. depth \in 1 .. MaxDepth
  BY <1>1, <1>2, MemoryAssumption DEF Depths
<1>4. ASSUME NEW v \in Vars
      PROVE  /\ Var(v) \in VarSlots /\ Var(v) \in Slots
             /\ Var(v)[1] = depth /\ Var(v) = <<depth, v>>
             /\ slot[Var(v)] \in ObjectOrNull
  BY <1>1, <1>3 DEF Var, VarSlots, Slots
<1> QED
  BY <1>3, <1>4

(* What a variable holds is allocated, and under release only if the       *)
(* running code is its DESTROY.                                            *)
LEMMA HeldVar ==
  ASSUME CountInv, stack # <<>>, Activation(Top), NEW v \in Vars
  PROVE  /\ slot[Var(v)] \in alive \cup {NULL}
         /\ \A k \in 1 .. Len(stack) :
              stack[k].kind = "free" /\ stack[k].obj = slot[Var(v)] => Top.obj = slot[Var(v)]
<1> DEFINE s == Var(v)
           o == slot[s]
           n == Len(stack)
<1>1. /\ s \in VarSlots /\ s \in Slots /\ s[1] = depth /\ o \in ObjectOrNull
  BY VarFacts
<1> HIDE DEF s
<1>2. /\ StackOK(stack, depth) /\ Shape(stack) /\ n \in Nat \ {0}
      /\ Activation(stack[Len(stack)]) /\ Top = stack[n] /\ depth = Level(stack, n) /\ depth \in Nat
      /\ Good(alive, rc, slot, blocks, depth, stack, NULL)
  BY TopFacts
<1>3. s \in HoldersIn(slot, stack, o)
  BY <1>1, <1>2, OwnVarFree DEF HoldersIn
<1>4. o # NULL => o \in alive
  <2>1. o # NULL => o \in Objects
    BY <1>1 DEF ObjectOrNull
  <2> QED
    BY <1>2, <1>3, <2>1, LiveFacts
<1>5. ASSUME NEW k \in 1 .. n, stack[k].kind = "free", stack[k].obj = o PROVE Top.obj = o
  <2>1. ReleaseOK(slot, stack, k)
    BY <1>2, <1>5 DEF Good
  <2>2. OwnVar(stack, k, s)
    BY <1>3, <1>5, <2>1 DEF ReleaseOK
  <2>3. PICK j \in k + 1 .. n : Activation(stack[j]) /\ stack[j].obj = o /\ Level(stack, j) = depth
    BY <1>1, <1>5, <2>2 DEF OwnVar
  <2>4. j \in Nat /\ j <= n
    BY <1>2
  <2>5. ASSUME j < n PROVE FALSE
    <3>1. Level(stack, j) < Level(stack, n) /\ Level(stack, j) \in Nat
      BY <1>2, <2>4, <2>5, LevelGrows
    <3> QED
      BY <1>2, <2>3, <3>1
  <2>6. j = n
    BY <1>2, <2>4, <2>5
  <2> QED
    BY <1>2, <2>3, <2>6
<1> QED
  BY <1>4, <1>5 DEF s

(* What a field or package variable in use holds is not under release.     *)
LEMMA ReadSlot ==
  ASSUME CountInv, NEW s \in Slots, s \notin VarSlots, ~Gone(stack, s)
  PROVE  /\ slot[s] \in alive \cup {NULL}
         /\ \A k \in 1 .. Len(stack) : stack[k].kind = "free" => stack[k].obj # slot[s]
<1>1. Good(alive, rc, slot, blocks, depth, stack, NULL) /\ slot \in [Slots -> ObjectOrNull]
  BY GoodFacts DEF CountInv
<1>2. s \in HoldersIn(slot, stack, slot[s])
  BY DEF HoldersIn
<1>3. slot[s] \in Objects => slot[s] \in alive
  BY <1>1, <1>2, LiveFacts
<1>4. ASSUME NEW k \in 1 .. Len(stack), stack[k].kind = "free", stack[k].obj = slot[s] PROVE FALSE
  <2>1. ReleaseOK(slot, stack, k)
    BY <1>1, <1>4 DEF Good
  <2> QED
    BY <1>2, <1>4, <2>1 DEF ReleaseOK, OwnVar
<1> QED
  BY <1>1, <1>3, <1>4 DEF ObjectOrNull

(* A write of the running subroutine.                                      *)
LEMMA StoreGood ==
  ASSUME CountInv, Running("sub"),
         NEW live, NEW counts, NEW blks, NEW lax,
         Good(live, counts, slot, blks, depth, stack, lax),
         NEW dst, NEW new, Target(live, slot, depth, stack, dst, new), lax \in {NULL, new},
         ObjectAssign(dst, new, counts, blks, stack), alive' = live, UNCHANGED depth
  PROVE  CountInv'
<1>1. stack # <<>> /\ Top.kind = "sub"
  BY DEF Running
<1>2. /\ StackOK(stack, depth) /\ depth \in Depths /\ Top = stack[Len(stack)]
      /\ slot \in [Slots -> ObjectOrNull] /\ live \subseteq Objects
  BY <1>1, TopFacts, GoodFacts
<1>3. weak = {} /\ backref = [o \in Objects |-> <<>>] /\ Cleared(slot, depth, stack)
  BY DEF CountInv
<1>4. /\ Good(live, rc', slot', blks, depth, stack', NULL)
      /\ weak' = {} /\ backref' = backref /\ blocks' = blks
      /\ Assigned(dst, new, stack)
  BY <1>3, AssignGood
<1>5. dst \in Slots /\ (dst \in VarSlots => dst[1] = depth) /\ new \in ObjectOrNull
  BY <1>2 DEF Target, ObjectOrNull
<1>6. Cleared(slot', depth, stack')
  BY <1>1, <1>2, <1>3, <1>4, <1>5, ClearedAssigned
<1> QED
  BY <1>2, <1>3, <1>4, <1>6 DEF CountInv

LEMMA StoreCount ==
  ASSUME CountInv, Running("sub"), NEW dst, NEW new,
         Target(alive, slot, depth, stack, dst, new), Store(dst, new)
  PROVE  CountInv'
<1>1. ObjectAssign(dst, new, rc, blocks, stack) /\ alive' = alive /\ UNCHANGED depth
  BY DEF Store
<1>2. Good(alive, rc, slot, blocks, depth, stack, NULL) /\ NULL \in {NULL, new}
  BY DEF CountInv
<1> QED
  BY <1>1, <1>2, StoreGood

(* The targets of the opcodes.                                             *)
LEMMA VarTarget ==
  ASSUME CountInv, Running("sub"), NEW v \in Vars, NEW new \in alive \cup {NULL},
         \A k \in 1 .. Len(stack) : stack[k].kind = "free" /\ stack[k].obj = new => Top.obj = new
  PROVE  Target(alive, slot, depth, stack, Var(v), new)
<1>1. stack # <<>> /\ Activation(Top) /\ Top.kind = "sub" /\ Top = stack[Len(stack)]
  BY DEF Running, Activation, Top
<1>2. /\ Var(v) \in VarSlots /\ Var(v) \in Slots /\ Var(v)[1] = depth
      /\ Var(v) \notin FieldSlots /\ Var(v) \notin PackageSlots
  BY <1>1, VarFacts, SlotKinds
<1> QED
  BY <1>1, <1>2 DEF Target

-----------------------------------------------------------------------------
(* The object opcodes.                                                     *)

(* A field that the program may use is not awaiting a write nor released.  *)
LEMMA FieldInUse ==
  ASSUME CountInv, SelfContained = TRUE, Running("sub"), NEW w \in Vars, NEW f \in Fields,
         slot[Var(w)] # NULL, MayReadField(slot[Var(w)]),
         NEW s, s = <<slot[Var(w)], f>>
  PROVE  /\ s \in FieldSlots /\ s \in Slots /\ s \notin VarSlots /\ s \notin PackageSlots
         /\ s[1] = slot[Var(w)]
         /\ Top.obj \in {NULL, s[1]}
         /\ ~Gone(stack, s)
<1> DEFINE n == Len(stack)
<1>1. stack # <<>> /\ Activation(Top)
  BY DEF Running, Activation
<1>2. slot[Var(w)] \in Objects
  BY <1>1, VarFacts DEF ObjectOrNull
<1>3. s \in FieldSlots /\ s[1] = slot[Var(w)]
  BY <1>2 DEF FieldSlots
<1>4. s \in Slots /\ s \notin VarSlots /\ s \notin PackageSlots
  BY <1>3, SlotKinds
<1>5. Top.obj \in {NULL, s[1]}
  BY <1>3 DEF MayReadField, Confined
<1>6. ~Gone(stack, s)
  <2>1. /\ Good(alive, rc, slot, blocks, depth, stack, NULL) /\ Top = stack[n]
        /\ n \in Nat \ {0} /\ n \in 1 .. n
    BY <1>1, TopFacts
  <2>2. ASSUME NEW i \in 1 .. n - 1
        PROVE  /\ ~(stack[i].kind = "assign" /\ stack[i].dst = s)
               /\ ~(stack[i].kind = "free" /\ \E g \in Fields : g < stack[i].n /\ s = <<stack[i].obj, g>>)
    BY <1>1, <1>3, <1>5, <2>1, FieldBelow
  <2>3. stack[n].kind # "assign" /\ stack[n].kind # "free"
    BY <1>1, <2>1 DEF Activation
  <2>4. \A i \in 1 .. n : i = n \/ i \in 1 .. n - 1
    BY <2>1
  <2> QED
    BY <2>2, <2>3, <2>4 DEF Gone
<1> QED
  BY <1>3, <1>4, <1>5, <1>6

LEMMA MoveCount ==
  ASSUME CountInv, NEW v \in Vars, NEW w \in Vars, MoveObject(v, w) \/ MoveUndef(v)
  PROVE  CountInv'
<1>1. stack # <<>> /\ Activation(Top) /\ Running("sub")
  BY DEF Running, Activation, MoveObject, MoveUndef
<1>2. CASE MoveObject(v, w)
  <2>1. Target(alive, slot, depth, stack, Var(v), slot[Var(w)])
    BY <1>1, HeldVar, VarTarget
  <2> QED
    BY <1>1, <1>2, <2>1, StoreCount DEF MoveObject
<1>3. CASE MoveUndef(v)
  <2>1. \A k \in 1 .. Len(stack) : stack[k].kind = "free" => stack[k].obj # NULL
    <3>1. StackOK(stack, depth)
      BY <1>1, TopFacts
    <3> QED
      BY <3>1, MemoryAssumption DEF StackOK, FrameOK
  <2>2. Target(alive, slot, depth, stack, Var(v), NULL)
    BY <1>1, <2>1, VarTarget
  <2> QED
    BY <1>1, <1>3, <2>2, StoreCount DEF MoveUndef
<1> QED
  BY <1>2, <1>3

LEMMA GetFieldCount ==
  ASSUME CountInv, SelfContained = TRUE, NEW v \in Vars, NEW w \in Vars, NEW f \in Fields,
         GetField(v, w, f)
  PROVE  CountInv'
<1> DEFINE s == <<slot[Var(w)], f>>
<1>1. /\ Running("sub") /\ slot[Var(w)] # NULL /\ MayReadField(slot[Var(w)])
      /\ Store(Var(v), slot[s])
  BY DEF GetField
<1>2. s \in Slots /\ s \notin VarSlots /\ ~Gone(stack, s)
  BY <1>1, FieldInUse
<1> HIDE DEF s
<1>3. /\ slot[s] \in alive \cup {NULL}
      /\ \A k \in 1 .. Len(stack) : stack[k].kind = "free" => stack[k].obj # slot[s]
  BY <1>2, ReadSlot
<1>4. Target(alive, slot, depth, stack, Var(v), slot[s])
  BY <1>1, <1>3, VarTarget
<1> QED
  BY <1>1, <1>4, StoreCount

(* A value the program stores comes from one of its variables.             *)
LEMMA NewFacts ==
  ASSUME CountInv, stack # <<>>, Activation(Top), NEW new,
         new = NULL \/ \E v \in Vars : new = slot[Var(v)]
  PROVE  /\ new \in alive \cup {NULL}
         /\ \A k \in 1 .. Len(stack) : stack[k].kind = "free" /\ stack[k].obj = new => Top.obj = new
<1>1. \A k \in 1 .. Len(stack) : stack[k].kind = "free" => stack[k].obj # NULL
  <2>1. StackOK(stack, depth)
    BY TopFacts
  <2> QED
    BY <2>1, MemoryAssumption DEF StackOK, FrameOK
<1>2. CASE new = NULL
  BY <1>1, <1>2
<1>3. CASE \E v \in Vars : new = slot[Var(v)]
  <2>1. PICK v \in Vars : new = slot[Var(v)]
    BY <1>3
  <2> QED
    BY <2>1, HeldVar
<1> QED
  BY <1>2, <1>3

LEMMA SetFieldCount ==
  ASSUME CountInv, SelfContained = TRUE, NEW w \in Vars, NEW f \in Fields,
         NEW new \in ObjectOrNull, SetField(w, f, new)
  PROVE  CountInv'
<1> DEFINE s == <<slot[Var(w)], f>>
<1>1. /\ Running("sub") /\ slot[Var(w)] # NULL /\ MayReadField(slot[Var(w)])
      /\ Confined => new # Top.obj
      /\ new = NULL \/ \E v \in Vars : new = slot[Var(v)]
      /\ Store(s, new)
  BY DEF SetField, MayWriteField
<1>2. stack # <<>> /\ Activation(Top) /\ Top.kind = "sub" /\ Top = stack[Len(stack)]
  BY <1>1 DEF Running, Activation, Top
<1>3. /\ s \in FieldSlots /\ s \in Slots /\ s \notin VarSlots /\ s \notin PackageSlots
      /\ s[1] = slot[Var(w)] /\ Top.obj \in {NULL, s[1]}
  BY <1>1, FieldInUse
<1>4. /\ new \in alive \cup {NULL}
      /\ \A k \in 1 .. Len(stack) : stack[k].kind = "free" /\ stack[k].obj = new => Top.obj = new
  BY <1>1, <1>2, NewFacts
<1>5. \A k \in 1 .. Len(stack) : stack[k].kind = "free" => stack[k].obj # new
  <2>1. StackOK(stack, depth)
    BY <1>2, TopFacts
  <2>2. \A k \in 1 .. Len(stack) : stack[k].kind = "free" => stack[k].obj # NULL
    BY <2>1, MemoryAssumption DEF StackOK, FrameOK
  <2> QED
    BY <1>1, <1>4, <2>2 DEF Confined
<1>6. <<depth, w>> \in VarSlots /\ slot[<<depth, w>>] = s[1]
  BY <1>2, <1>3, VarFacts
<1> HIDE DEF s
<1>7. Target(alive, slot, depth, stack, s, new)
  BY <1>2, <1>3, <1>4, <1>5, <1>6 DEF Target
<1> QED
  BY <1>1, <1>7, StoreCount

(* Package variables are used by the code of the host only.                *)
LEMMA PackageInUse ==
  ASSUME CountInv, SelfContained = TRUE, Running("sub"), ~Confined, NEW g \in Globals,
         NEW s, s = <<0, g>>
  PROVE  /\ s \in PackageSlots /\ s \in Slots /\ s \notin VarSlots /\ s \notin FieldSlots
         /\ Top.obj = NULL /\ ~Gone(stack, s)
         /\ \A k \in 1 .. Len(stack) : stack[k].kind # "free"
<1> DEFINE n == Len(stack)
<1>1. stack # <<>> /\ Activation(Top) /\ Top.obj = NULL /\ Top.kind = "sub"
  BY DEF Running, Activation, Confined
<1>2. s \in PackageSlots
  BY DEF PackageSlots
<1>3. s \in Slots /\ s \notin VarSlots /\ s \notin FieldSlots
  BY <1>2, SlotKinds
<1>4. Shape(stack) /\ Top = stack[n] /\ n \in Nat \ {0} /\ n \in 1 .. n
  BY <1>1, TopFacts
<1>5. \A i \in 1 .. n - 1 : stack[i].kind = "sub"
  BY <1>1, <1>4 DEF Shape
<1>6. \A i \in 1 .. n : i = n \/ i \in 1 .. n - 1
  BY <1>4
<1>7. \A i \in 1 .. n : stack[i].kind = "sub"
  BY <1>1, <1>4, <1>5, <1>6
<1> QED
  BY <1>1, <1>2, <1>3, <1>7 DEF Gone

LEMMA PackageCount ==
  ASSUME CountInv, SelfContained = TRUE, NEW v \in Vars, NEW g \in Globals,
         NEW new \in ObjectOrNull, GetPackageVar(v, g) \/ SetPackageVar(g, new)
  PROVE  CountInv'
<1> DEFINE s == <<0, g>>
<1>1. Running("sub") /\ ~Confined /\ stack # <<>> /\ Activation(Top)
      /\ Top.kind = "sub" /\ Top = stack[Len(stack)]
  BY DEF Running, Activation, GetPackageVar, SetPackageVar, Top
<1>2. /\ s \in PackageSlots /\ s \in Slots /\ s \notin VarSlots /\ s \notin FieldSlots
      /\ Top.obj = NULL /\ ~Gone(stack, s)
      /\ \A k \in 1 .. Len(stack) : stack[k].kind # "free"
  BY <1>1, PackageInUse
<1>3. CASE GetPackageVar(v, g)
  <2>1. Store(Var(v), slot[s])
    BY <1>3 DEF GetPackageVar
  <2> HIDE DEF s
  <2>2. slot[s] \in alive \cup {NULL}
    BY <1>2, ReadSlot
  <2>3. Target(alive, slot, depth, stack, Var(v), slot[s])
    BY <1>1, <1>2, <2>2, VarTarget
  <2> QED
    BY <1>1, <2>1, <2>3, StoreCount
<1>4. CASE SetPackageVar(g, new)
  <2>1. Store(s, new) /\ (new = NULL \/ \E w \in Vars : new = slot[Var(w)])
    BY <1>4 DEF SetPackageVar
  <2> HIDE DEF s
  <2>2. new \in alive \cup {NULL}
    BY <1>1, <2>1, NewFacts
  <2>3. Target(alive, slot, depth, stack, s, new)
    BY <1>1, <1>2, <2>2 DEF Target
  <2> QED
    BY <1>1, <2>1, <2>3, StoreCount
<1> QED
  BY <1>3, <1>4

LEMMA NewObjectCount ==
  ASSUME CountInv, NEW v \in Vars, NEW o \in Objects, NewObject(v, o)
  PROVE  CountInv'
<1> DEFINE live == alive \cup {o}
           counts == [rc EXCEPT ![o] = 0]
<1>1. /\ Running("sub") /\ o \notin alive /\ alive' = live /\ UNCHANGED depth
      /\ ObjectAssign(Var(v), o, counts, blocks + 1, stack)
  BY DEF NewObject
<1>2. stack # <<>> /\ Activation(Top) /\ Top.kind = "sub" /\ Top = stack[Len(stack)]
  BY <1>1 DEF Running, Activation, Top
<1>3. Good(alive, rc, slot, blocks, depth, stack, NULL) /\ rc \in [Objects -> Int]
  BY <1>2, TopFacts
<1>4. /\ counts \in [Objects -> Int] /\ counts[o] = 0
      /\ \A p \in Objects : p # o => counts[p] = rc[p]
  BY <1>3
<1> HIDE DEF counts
<1>5. Good(live, counts, slot, blocks + 1, depth, stack, o)
  BY <1>1, <1>3, <1>4, Fresh
<1>6. \A k \in 1 .. Len(stack) : stack[k].kind = "free" => stack[k].obj # o
  <2>1. \A x : x \notin FreesIn(stack, o)
    BY <1>1, <1>3, LiveFacts
  <2> QED
    BY <2>1 DEF FreesIn
<1>7. /\ Var(v) \in VarSlots /\ Var(v) \in Slots /\ Var(v)[1] = depth
      /\ Var(v) \notin FieldSlots /\ Var(v) \notin PackageSlots
  BY <1>2, VarFacts, SlotKinds
<1>8. Target(live, slot, depth, stack, Var(v), o)
  BY <1>2, <1>6, <1>7 DEF Target
<1> HIDE DEF live
<1> QED
  BY <1>1, <1>5, <1>8, StoreGood

-----------------------------------------------------------------------------
(* The end of an activation.                                               *)

LEMMA GoneReplaced ==
  ASSUME NEW st, NEW n, NEW t, NEW f, Replaced(st, n, t, f),
         NEW s, GoneTop(f, s) <=> GoneTop(st[n], s)
  PROVE  Gone(t, s) <=> Gone(st, s)
<1>1. /\ n \in Nat \ {0} /\ n = Len(st) /\ Len(t) = n /\ n \in 1 .. n
      /\ t[n] = f /\ \A i \in 1 .. n - 1 : t[i] = st[i]
  BY DEF Replaced
<1>2. \A i \in 1 .. n : i = n \/ i \in 1 .. n - 1
  BY <1>1
<1>3. \A u : Len(u) = n => (Gone(u, s) <=> \E i \in 1 .. n : GoneTop(u[i], s))
  BY DEF Gone, GoneTop
<1>4. ASSUME NEW i \in 1 .. n PROVE GoneTop(t[i], s) <=> GoneTop(st[i], s)
  BY <1>1, <1>2
<1> QED
  BY <1>1, <1>3, <1>4

LEMMA RefsReplaced ==
  ASSUME NEW st, NEW n, NEW t, NEW f, Replaced(st, n, t, f), NEW p
  PROVE  /\ n \in FlightsIn(st, p) <=> st[n].val = p
         /\ n \in FlightsIn(t, p) <=> f.val = p
BY DEF Replaced, FlightsIn

(* The running subroutine turns into an activation that leaves, with the   *)
(* counted result new.                                                     *)
LEMMA Leaving ==
  ASSUME CountInv, Running("sub"), NEW dst \in {Top.dst, NoSlot},
         NEW new \in alive \cup {NULL}, dst = NoSlot => new = NULL,
         \A k \in 1 .. Len(stack) : stack[k].kind = "free" /\ stack[k].obj = new => Top.obj = new,
         rc' = IncRef(rc, new), stack' = WithTop(LeaveFrame(dst, new)),
         UNCHANGED <<alive, slot, weak, backref, blocks, depth>>
  PROVE  CountInv'
<1> DEFINE n == Len(stack)
           f == LeaveFrame(dst, new)
<1>1. stack # <<>> /\ Activation(Top) /\ Top.kind = "sub"
  BY DEF Running, Activation
<1>2. /\ Good(alive, rc, slot, blocks, depth, stack, NULL)
      /\ n \in Nat \ {0} /\ n \in 1 .. n /\ Top = stack[n] /\ Top \in Frames
      /\ FrameOK(Top, depth) /\ ResultOK(Top) /\ rc \in [Objects -> Int]
      /\ alive \subseteq Objects
      /\ \A g \in Frames : Replaced(stack, n, WithTop(g), g)
  BY <1>1, TopFacts
<1>3. new \in ObjectOrNull
  BY <1>2 DEF ObjectOrNull
<1>4. /\ f.kind = "leave" /\ f.obj = Top.obj /\ f.dst = dst /\ f.val = new /\ f.n = 1
      /\ Top.val = NULL
  BY <1>1, <1>2 DEF LeaveFrame, ResultOK
<1>5. f \in Frames
  BY <1>2, <1>3 DEF LeaveFrame, Frames, Addresses
<1>6. Replaced(stack, n, stack', f)
  BY <1>2, <1>5
<1> HIDE DEF f
<1>7. FrameOK(f, depth) /\ ResultOK(f) /\ Activation(f) /\ Activation(stack[n])
      /\ f.kind # "assign" /\ f.kind # "free"
      /\ stack[n].kind # "assign" /\ stack[n].kind # "free"
  BY <1>1, <1>2, <1>4, <1>5 DEF FrameOK, ResultOK, Activation
<1>8. \A s : Gone(stack', s) <=> Gone(stack, s)
  <2>1. \A s : GoneTop(f, s) <=> GoneTop(stack[n], s)
    BY <1>7 DEF GoneTop
  <2> QED
    BY <1>6, <2>1, GoneReplaced
<1>9. \A p : HoldersIn(slot, stack', p) = HoldersIn(slot, stack, p)
  BY <1>8 DEF HoldersIn
<1>10. /\ rc' \in [Objects -> Int]
       /\ \A p \in Objects : rc'[p] = rc[p] + (IF p = new THEN 1 ELSE 0)
  BY <1>2, RefsAt
<1>11. Good(alive, rc', slot, blocks, depth, stack', NULL)
  <2>1. /\ f.kind = "assign" <=> stack[n].kind = "assign"
        /\ f.kind = "free" <=> stack[n].kind = "free"
        /\ Activation(f) <=> Activation(stack[n])
        /\ f.obj = stack[n].obj
        /\ Activation(f) => f.dst = stack[n].dst \/ f.dst = NoSlot
        /\ f.kind = "assign" => f.dst = stack[n].dst /\ f.val = stack[n].val
    BY <1>2, <1>4, <1>7
  <2>2. /\ \A p \in Objects : \A y :
             y # NoSlot => (y \in HoldersIn(slot, stack, p) <=> y \in HoldersIn(slot, stack', p))
        /\ \A p \in Objects : NoSlot \in HoldersIn(slot, stack', p) => NoSlot \in HoldersIn(slot, stack, p)
    BY <1>9
  <2>3. \/ f.val = stack[n].val
        \/ /\ Activation(f) /\ stack[n].val = NULL /\ f.val \in alive
           /\ \A k \in 1 .. n : stack[k].kind = "free" /\ stack[k].obj = f.val => stack[n].obj = f.val
    BY <1>2, <1>4, <1>7
  <2>4. ASSUME NEW p \in alive
        PROVE  /\ rc'[p] = rc[p]
                     + Ind(NoSlot, HoldersIn(slot, stack', p)) - Ind(NoSlot, HoldersIn(slot, stack, p))
                     + Ind(n, FlightsIn(stack', p)) - Ind(n, FlightsIn(stack, p))
               /\ p # NULL => rc'[p] > 0
    <3>1. p \in Objects /\ p # NULL /\ rc[p] \in Int
      BY <1>2, MemoryAssumption
    <3>2. rc[p] > 0
      BY <1>2, <3>1, GoodFacts DEF Good, Exact
    <3>3. (n \in FlightsIn(stack', p) <=> p = new) /\ n \notin FlightsIn(stack, p)
      BY <1>2, <1>4, <1>6, <3>1, RefsReplaced
    <3>4. Ind(NoSlot, HoldersIn(slot, stack', p)) = Ind(NoSlot, HoldersIn(slot, stack, p))
          /\ Ind(NoSlot, HoldersIn(slot, stack, p)) \in Nat
      BY <1>9, IndFacts
    <3>5. Ind(n, FlightsIn(stack, p)) = 0
      BY <3>3, IndFacts
    <3>6. rc'[p] = rc[p] + (IF p = new THEN 1 ELSE 0)
      BY <1>10, <3>1
    <3>7. CASE p = new
      <4>1. Ind(n, FlightsIn(stack', p)) = 1
        BY <3>3, <3>7, IndFacts
      <4> QED
        BY <3>1, <3>2, <3>4, <3>5, <3>6, <3>7, <4>1
    <3>8. CASE p # new
      <4>1. Ind(n, FlightsIn(stack', p)) = 0
        BY <3>3, <3>8, IndFacts
      <4> QED
        BY <3>1, <3>2, <3>4, <3>5, <3>6, <3>8, <4>1
    <3> QED
      BY <3>7, <3>8
  <2>5. MoveTop(alive, rc, slot, depth, stack, n, stack', f, NoSlot, rc', NULL)
    BY <1>6, <1>7, <1>10, <2>1, <2>2, <2>3, <2>4 DEF MoveTop
  <2> QED
    BY <1>2, <2>5, Moved
<1>12. Cleared(slot, depth, stack')
  <2>1. Cleared(slot, depth, stack)
    BY DEF CountInv
  <2>2. /\ Len(stack) \in Nat /\ Len(stack') \in Nat /\ n - 1 \in Nat
        /\ n - 1 <= Len(stack) /\ n - 1 <= Len(stack')
        /\ \A i \in 1 .. n - 1 : stack'[i] = stack[i]
        /\ \A i \in (n - 1) + 1 .. Len(stack') : stack'[i].kind = "leave" => stack'[i].n = 1
        /\ n - 1 < Len(stack) => stack[(n - 1) + 1].kind # "assign"
    BY <1>2, <1>4, <1>6, <1>7 DEF Replaced
  <2>3. \A e \in 1 .. MaxDepth, v \in Vars : e > depth => slot[<<e, v>>] = NULL
    BY <2>1 DEF Cleared
  <2> HIDE DEF n
  <2> QED
    BY <2>1, <2>2, <2>3, ClearedStep
<1> QED
  BY <1>11, <1>12 DEF CountInv

LEMMA ReturnCount ==
  ASSUME CountInv, NEW new \in ObjectOrNull, Return(new)
  PROVE  CountInv'
<1>1. /\ Running("sub")
      /\ new = NULL \/ (Top.dst # NoSlot /\ \E v \in Vars : new = slot[Var(v)])
      /\ rc' = IncRef(rc, new) /\ stack' = WithTop(LeaveFrame(Top.dst, new))
      /\ UNCHANGED <<alive, slot, weak, backref, blocks, depth>>
  BY DEF Return
<1>2. stack # <<>> /\ Activation(Top)
  BY <1>1 DEF Running, Activation
<1>3. /\ new \in alive \cup {NULL}
      /\ \A k \in 1 .. Len(stack) : stack[k].kind = "free" /\ stack[k].obj = new => Top.obj = new
  BY <1>1, <1>2, NewFacts
<1>4. Top.dst \in {Top.dst, NoSlot} /\ (Top.dst = NoSlot => new = NULL)
  BY <1>1
<1> QED
  BY <1>1, <1>3, <1>4, Leaving

LEMMA CroakCount ==
  ASSUME CountInv, Croak
  PROVE  CountInv'
<1>1. /\ Running("sub") /\ stack' = WithTop(LeaveFrame(NoSlot, NULL))
      /\ UNCHANGED <<alive, rc, slot, weak, backref, blocks, depth>>
  BY DEF Croak
<1>2. stack # <<>> /\ Activation(Top)
  BY <1>1 DEF Running, Activation
<1>3. /\ NULL \in alive \cup {NULL}
      /\ \A k \in 1 .. Len(stack) : stack[k].kind = "free" /\ stack[k].obj = NULL => Top.obj = NULL
  BY <1>2, NewFacts
<1>4. rc' = IncRef(rc, NULL) /\ NoSlot \in {Top.dst, NoSlot}
  BY <1>1 DEF IncRef
<1> QED
  BY <1>1, <1>3, <1>4, Leaving

-----------------------------------------------------------------------------
(* Calls.                                                                  *)

(* The frame below a new activation.                                       *)
Caller(st, self, dst) ==
  /\ Len(st) = 0 => self = NULL /\ dst = NoSlot
  /\ Len(st) > 0 =>
       \/ st[Len(st)].kind = "sub" /\ st[Len(st)].obj = self
       \/ /\ st[Len(st)].kind = "free" /\ st[Len(st)].n = 1 /\ st[Len(st)].obj = self
          /\ dst = NoSlot
  /\ self = NULL => \A k \in 1 .. Len(st) : st[k].kind = "sub"

LEMMA Entered ==
  ASSUME NEW st, Good(alive, rc, slot, blocks, depth, st, NULL), Cleared(slot, depth, st),
         depth \in Depths, weak = {}, backref = [o \in Objects |-> <<>>],
         NEW self \in ObjectOrNull, NEW dst \in Addresses, NEW arg \in alive \cup {NULL},
         dst = NoSlot \/ (dst \in VarSlots /\ dst[1] = depth),
         Caller(st, self, dst),
         \A k \in 1 .. Len(st) : st[k].kind = "free" /\ st[k].obj = arg => self = arg,
         EnterSub(arg, Append(st, SubFrame(self, dst)))
  PROVE  CountInv'
<1> DEFINE n == Len(st)
           t == Append(st, SubFrame(self, dst))
           s0 == <<depth + 1, 1>>
<1>1. /\ depth < MaxDepth /\ depth' = depth + 1 /\ slot' = [slot EXCEPT ![s0] = arg]
      /\ rc' = IncRef(rc, arg) /\ blocks' = blocks + 1 /\ stack' = t
      /\ UNCHANGED <<alive, weak, backref>>
  BY DEF EnterSub
<1>2. /\ depth \in Nat /\ st \in Seq(Frames) /\ n \in Nat
      /\ slot \in [Slots -> ObjectOrNull] /\ rc \in [Objects -> Int] /\ alive \subseteq Objects
  BY GoodFacts
<1>3. /\ depth + 1 \in 1 .. MaxDepth /\ depth + 1 \in Depths /\ 1 \in Vars
      /\ s0 \in VarSlots /\ s0 \in Slots /\ s0[1] = depth + 1
  BY <1>1, <1>2, MemoryAssumption DEF Depths, Vars, VarSlots, Slots
<1>4. slot[s0] = NULL
  BY <1>2, <1>3 DEF Cleared
<1> HIDE DEF s0
<1>5. arg \in ObjectOrNull
  BY <1>2 DEF ObjectOrNull
<1>6. /\ slot' \in [Slots -> ObjectOrNull] /\ slot'[s0] = arg
      /\ \A s \in Slots : s # s0 => slot'[s] = slot[s]
  BY <1>1, <1>2, <1>3, <1>5
<1>7. /\ rc' \in [Objects -> Int]
      /\ \A p \in Objects : rc'[p] = rc[p] + (IF p = arg THEN 1 ELSE 0)
  BY <1>1, <1>2, RefsAt
<1>8. SubFrame(self, dst) \in Frames
  BY DEF SubFrame, Frames, ObjectOrNull
<1>9. FrameOK(SubFrame(self, dst), depth + 1)
  BY <1>2, <1>8 DEF FrameOK, SubFrame
<1>10. Pushed(st, n, t, SubFrame(self, dst))
  BY <1>2, <1>8, PushedFacts
<1>11. /\ n = 0 => self = NULL /\ dst = NoSlot
       /\ n > 0 => \/ st[n].kind = "sub" /\ st[n].obj = self
                   \/ st[n].kind = "free" /\ st[n].n = 1 /\ st[n].obj = self /\ dst = NoSlot
       /\ self = NULL => \A k \in 1 .. n : st[k].kind = "sub"
       /\ \A k \in 1 .. n : st[k].kind = "free" /\ st[k].obj = arg => self = arg
  BY DEF Caller
<1> HIDE DEF n, t
<1>12. Good(alive, rc', slot', blocks + 1, depth + 1, t, NULL)
  BY <1>3, <1>4, <1>6, <1>7, <1>9, <1>10, <1>11, PushSub
<1>13. Cleared(slot', depth + 1, t)
  <2>1. /\ Len(st) \in Nat /\ Len(t) \in Nat /\ n \in Nat /\ n <= Len(st) /\ n <= Len(t)
        /\ \A i \in 1 .. n : t[i] = st[i]
        /\ \A i \in n + 1 .. Len(t) : t[i].kind = "leave" => t[i].n = 1
        /\ n < Len(st) => st[n + 1].kind # "assign"
    <3>1. SubFrame(self, dst).kind # "leave"
      BY DEF SubFrame
    <3>2. n \in Nat /\ n = Len(st) /\ Len(t) = n + 1 /\ t[n + 1] = SubFrame(self, dst)
          /\ \A i \in 1 .. n : t[i] = st[i]
      BY <1>10 DEF Pushed
    <3>3. \A i \in n + 1 .. Len(t) : i = n + 1
      BY <3>2
    <3> QED
      BY <3>1, <3>2, <3>3
  <2>2. ASSUME NEW e \in 1 .. MaxDepth, NEW v \in Vars, e > depth + 1
        PROVE  slot'[<<e, v>>] = NULL
    <3>1. <<e, v>> \in Slots /\ e > depth
      BY <1>2, <2>2 DEF Slots, VarSlots
    <3>2. <<e, v>> # s0
      BY <1>2, <1>3, <2>2
    <3>3. slot[<<e, v>>] = NULL
      BY <3>1 DEF Cleared
    <3> QED
      BY <1>6, <3>1, <3>2, <3>3
  <2>3. ASSUME NEW i \in 1 .. n, NEW v \in Vars,
               st[i].kind = "leave" /\ slot[<<Level(st, i), v>>] = NULL
        PROVE  slot'[<<Level(st, i), v>>] = NULL
    <3>1. Level(st, i) \in Nat /\ Level(st, i) <= depth /\ i \in Nat /\ i \in 1 .. Len(st)
      BY <1>10, GoodFacts DEF Pushed
    <3>2. Level(st, i) # 0
      <4>1. i \in Activations(st, i)
        BY <2>3, <3>1 DEF Activations, Activation
      <4> QED
        BY <3>1, <4>1, LevelType, FS_EmptySet DEF Level
    <3>3. <<Level(st, i), v>> \in Slots
      BY <1>1, <1>2, <3>1, <3>2, MemoryAssumption DEF VarSlots, Slots
    <3>4. <<Level(st, i), v>> # s0
      BY <1>2, <1>3, <3>1
    <3> QED
      BY <1>6, <2>3, <3>3, <3>4
  <2> QED
    BY <2>1, <2>2, <2>3, ClearedStep
<1> QED
  BY <1>1, <1>3, <1>12, <1>13 DEF CountInv

LEMMA CallFromHostCount ==
  ASSUME CountInv, CallFromHost
  PROVE  CountInv'
<1>1. stack = <<>> /\ EnterSub(NULL, <<SubFrame(NULL, NoSlot)>>)
  BY DEF CallFromHost
<1>2. <<SubFrame(NULL, NoSlot)>> = Append(stack, SubFrame(NULL, NoSlot))
  BY <1>1
<1>3. /\ Good(alive, rc, slot, blocks, depth, stack, NULL) /\ Cleared(slot, depth, stack)
      /\ depth \in Depths /\ weak = {} /\ backref = [o \in Objects |-> <<>>]
  BY DEF CountInv
<1>4. /\ NULL \in ObjectOrNull /\ NoSlot \in Addresses /\ NULL \in alive \cup {NULL}
      /\ NoSlot = NoSlot \/ (NoSlot \in VarSlots /\ NoSlot[1] = depth)
      /\ \A k \in 1 .. Len(stack) : stack[k].kind = "free" /\ stack[k].obj = NULL => NULL = NULL
  BY DEF ObjectOrNull, Addresses
<1>5. Caller(stack, NULL, NoSlot)
  BY <1>1 DEF Caller
<1>6. EnterSub(NULL, Append(stack, SubFrame(NULL, NoSlot)))
  BY <1>1, <1>2
<1> QED
  BY <1>3, <1>4, <1>5, <1>6, Entered

LEMMA CallSubCount ==
  ASSUME CountInv, NEW v \in Vars, NEW w \in Vars, CallSub(v, w)
  PROVE  CountInv'
<1>1. Running("sub") /\ EnterSub(slot[Var(w)], Append(stack, SubFrame(Top.obj, Var(v))))
  BY DEF CallSub
<1>2. stack # <<>> /\ Activation(Top) /\ Top.kind = "sub"
  BY <1>1 DEF Running, Activation
<1>3. /\ Good(alive, rc, slot, blocks, depth, stack, NULL) /\ Cleared(slot, depth, stack)
      /\ depth \in Depths /\ weak = {} /\ backref = [o \in Objects |-> <<>>]
  BY DEF CountInv
<1>4. /\ Shape(stack) /\ Len(stack) \in Nat \ {0} /\ Len(stack) \in 1 .. Len(stack)
      /\ Top = stack[Len(stack)] /\ Top \in Frames
  BY <1>2, TopFacts
<1>5. /\ slot[Var(w)] \in alive \cup {NULL}
      /\ \A k \in 1 .. Len(stack) :
           stack[k].kind = "free" /\ stack[k].obj = slot[Var(w)] => Top.obj = slot[Var(w)]
  BY <1>2, HeldVar
<1>6. Top.obj \in ObjectOrNull
  BY <1>4 DEF Frames
<1>7. Var(v) \in VarSlots /\ Var(v)[1] = depth /\ Var(v) \in Addresses
  BY <1>2, VarFacts DEF Addresses
<1>8. Caller(stack, Top.obj, Var(v))
  <2>1. ASSUME Top.obj = NULL, NEW k \in 1 .. Len(stack) PROVE stack[k].kind = "sub"
    <3>1. k = Len(stack) \/ k \in 1 .. Len(stack) - 1
      BY <1>4
    <3> QED
      BY <1>2, <1>4, <2>1, <3>1 DEF Shape
  <2> QED
    BY <1>2, <1>4, <2>1 DEF Caller
<1> QED
  BY <1>1, <1>3, <1>5, <1>6, <1>7, <1>8, Entered

-----------------------------------------------------------------------------
(* The write after a release.                                              *)

LEMMA AssignWriteCount ==
  ASSUME CountInv, AssignWrite
  PROVE  CountInv'
<1> DEFINE n == Len(stack)
<1>1. /\ stack # <<>> /\ Top.kind = "assign"
      /\ slot' = [slot EXCEPT ![Top.dst] = Top.val] /\ stack' = Below
      /\ UNCHANGED <<alive, rc, weak, backref, blocks, depth>>
  BY DEF AssignWrite, Running
<1>2. /\ Good(alive, rc, slot, blocks, depth, stack, NULL)
      /\ n \in Nat \ {0} /\ n \in 1 .. n /\ Top = stack[n] /\ Top \in Frames
      /\ FrameOK(Top, depth) /\ slot \in [Slots -> ObjectOrNull]
      /\ depth \in Nat /\ depth = Level(stack, n)
      /\ StackOK(stack, depth) /\ Shape(stack)
      /\ Popped(stack, n, Below)
  BY <1>1, TopFacts
<1>3. Top.dst \in Slots /\ Top.val \in ObjectOrNull /\ (Top.dst \in VarSlots => Top.dst[1] = depth)
  BY <1>1, <1>2 DEF FrameOK, Frames
<1>4. /\ slot' \in [Slots -> ObjectOrNull] /\ slot'[Top.dst] = Top.val
      /\ \A s \in Slots : s # Top.dst => slot'[s] = slot[s]
  BY <1>1, <1>2, <1>3
<1>5. Good(alive, rc, slot', blocks, depth, Below, NULL)
  <2>1. /\ stack[n].kind = "assign" /\ slot'[stack[n].dst] = stack[n].val
        /\ \A s \in Slots : s # stack[n].dst => slot'[s] = slot[s]
    BY <1>1, <1>2, <1>4
  <2> HIDE DEF n
  <2> QED
    BY <1>2, <1>4, <2>1, PopAssign
<1>6. /\ Below \in Seq(Frames) /\ Len(Below) = n - 1
      /\ \A i \in 1 .. n - 1 : Below[i] = stack[i]
      /\ \A i \in 0 .. n - 1 : Level(Below, i) = Level(stack, i)
  <2>1. /\ Below \in Seq(Frames) /\ Len(Below) = n - 1
        /\ \A i \in 1 .. n - 1 : Below[i] = stack[i]
    BY <1>2 DEF Popped
  <2>2. n - 1 \in Nat
    BY <1>2
  <2> HIDE DEF n
  <2> QED
    BY <2>1, <2>2, LevelsKept
<1>7. ASSUME NEW e \in 1 .. MaxDepth, NEW v \in Vars, e > depth PROVE slot'[<<e, v>>] = NULL
  <2>1. <<e, v>> \in VarSlots /\ <<e, v>> \in Slots
    BY DEF VarSlots, Slots
  <2>2. <<e, v>> # Top.dst
    BY <1>2, <1>3, <1>7, <2>1
  <2>3. slot[<<e, v>>] = NULL
    BY <1>7 DEF CountInv, Cleared
  <2> QED
    BY <1>4, <2>1, <2>2, <2>3
<1>8. ASSUME NEW i \in 1 .. n - 1, NEW v \in Vars, stack[i].kind = "leave", v < stack[i].n
      PROVE  \/ slot'[<<Level(stack, i), v>>] = NULL
             \/ i < n - 1 /\ stack[i + 1].kind = "assign" /\ stack[i + 1].dst = <<Level(stack, i), v>>
  <2> DEFINE s == <<Level(stack, i), v>>
  <2>1. i \in 1 .. n /\ i \in Nat \ {0} /\ i < n
    BY <1>2
  <2>2. Level(stack, i) \in Nat /\ Level(stack, i) <= depth /\ Level(stack, i) # 0
    <3>1. i \in Activations(stack, i)
      BY <1>8, <2>1 DEF Activations, Activation
    <3>2. Level(stack, i) \in Nat /\ Level(stack, i) <= depth
      BY <1>2, <2>1, LevelGrows
    <3> QED
      BY <2>1, <3>1, <3>2, LevelType, FS_EmptySet DEF Level
  <2>3. s \in VarSlots /\ s \in Slots /\ s[1] = Level(stack, i)
    <3>1. depth \in 0 .. MaxDepth
      BY DEF CountInv, Depths
    <3>2. Level(stack, i) \in 1 .. MaxDepth
      BY <1>2, <2>2, <3>1, MemoryAssumption
    <3> QED
      BY <3>2 DEF VarSlots, Slots
  <2>4. \/ slot[s] = NULL
        \/ i < n /\ stack[i + 1].kind = "assign" /\ stack[i + 1].dst = s
    BY <1>8, <2>1 DEF CountInv, Cleared
  <2>5. ASSUME s = Top.dst PROVE slot'[s] = NULL
    <3>1. Level(stack, i) = depth
      BY <1>3, <2>3, <2>5
    <3>2. Link(stack[n - 1], stack[n]) /\ n - 1 \in 1 .. n /\ n > 1
      BY <1>2, <2>1 DEF Shape
    <3>3. i = n - 1
      <4>1. Activation(stack[n - 1])
        BY <1>1, <1>2, <3>2 DEF Link, Activation
      <4>2. CASE i < n - 1
        <5>1. Level(stack, i) < Level(stack, n - 1) /\ Level(stack, n - 1) <= Level(stack, n)
              /\ Level(stack, n - 1) \in Nat
          BY <1>2, <2>1, <3>2, <4>1, <4>2, LevelGrows
        <5> QED
          BY <1>2, <2>2, <3>1, <5>1
      <4> QED
        BY <1>2, <2>1, <4>2
    <3>4. Top.val = NULL
      BY <1>1, <1>2, <1>8, <3>2, <3>3 DEF Link
    <3> QED
      BY <1>4, <2>5, <3>4
  <2>6. CASE s # Top.dst
    <3>1. slot'[s] = slot[s]
      BY <1>4, <2>3, <2>6
    <3>2. ASSUME i < n, stack[i + 1].kind = "assign", stack[i + 1].dst = s PROVE i < n - 1
      BY <1>2, <2>1, <2>6, <3>2
    <3> QED
      BY <2>4, <3>1, <3>2
  <2> QED
    BY <2>5, <2>6
<1>9. Cleared(slot', depth, Below)
  <2>1. \A i \in 1 .. n - 1 : i \in 0 .. n - 1 /\ Level(Below, i) = Level(stack, i)
    BY <1>2, <1>6
  <2>2. \A i \in 1 .. n - 1 : i < n - 1 => i + 1 \in 1 .. n - 1
    BY <1>2
  <2> HIDE DEF n
  <2>3. ASSUME NEW i \in 1 .. Len(Below), NEW v \in Vars, Below[i].kind = "leave", v < Below[i].n
        PROVE  \/ slot'[<<Level(Below, i), v>>] = NULL
               \/ i < Len(Below) /\ Below[i + 1].kind = "assign" /\ Below[i + 1].dst = <<Level(Below, i), v>>
    <3>1. i \in 1 .. n - 1 /\ Below[i] = stack[i] /\ Level(Below, i) = Level(stack, i)
      BY <1>6, <2>1
    <3>2. i < n - 1 => Below[i + 1] = stack[i + 1]
      BY <1>6, <2>2, <3>1
    <3> QED
      BY <1>6, <1>8, <2>3, <3>1, <3>2
  <2> QED
    BY <1>7, <2>3 DEF Cleared
<1> QED
  BY <1>1, <1>5, <1>9 DEF CountInv

-----------------------------------------------------------------------------
(* The variables of an activation are released, one by one.                *)

(* A frame that only advances its index.                                   *)
LEMMA Advanced ==
  ASSUME CountInv, stack # <<>>, NEW f \in Frames, NEW t, Replaced(stack, Len(stack), t, f),
         f.kind = Top.kind, f.obj = Top.obj, f.dst = Top.dst, f.val = Top.val, f.n = Top.n + 1,
         Top.kind = "leave" \/ (Top.kind = "free" /\ Top.n = 0)
  PROVE  /\ Good(alive, rc, slot, blocks, depth, t, NULL)
         /\ \A i \in 0 .. Len(stack) : Level(t, i) = Level(stack, i)
<1> DEFINE n == Len(stack)
<1>1. /\ Good(alive, rc, slot, blocks, depth, stack, NULL)
      /\ n \in Nat \ {0} /\ n \in 1 .. n /\ Top = stack[n] /\ Top \in Frames
      /\ FrameOK(Top, depth) /\ ResultOK(Top) /\ rc \in [Objects -> Int]
      /\ alive \subseteq Objects
  BY TopFacts
<1>2. Top.n \in Nat /\ Replaced(stack, n, t, f)
  BY <1>1 DEF Frames
<1>3. /\ FrameOK(f, depth) /\ ResultOK(f)
      /\ f.kind = "assign" <=> stack[n].kind = "assign"
      /\ f.kind = "free" <=> stack[n].kind = "free"
      /\ Activation(f) <=> Activation(stack[n])
      /\ f.kind # "assign" /\ stack[n].kind # "assign"
  BY <1>1, <1>2 DEF FrameOK, ResultOK, Activation
<1>4. ASSUME NEW s PROVE GoneTop(f, s) <=> GoneTop(stack[n], s)
  <2>1. CASE Top.kind = "leave"
    BY <1>1, <2>1 DEF GoneTop
  <2>2. CASE Top.kind = "free" /\ Top.n = 0
    <3>1. \A g \in Fields : ~(g < Top.n) /\ ~(g < f.n)
      BY <2>2 DEF Fields
    <3> QED
      BY <1>1, <1>3, <3>1 DEF GoneTop
  <2> QED
    BY <2>1, <2>2
<1>5. \A s : Gone(t, s) <=> Gone(stack, s)
  BY <1>2, <1>4, GoneReplaced
<1>6. \A p : HoldersIn(slot, t, p) = HoldersIn(slot, stack, p)
  BY <1>5 DEF HoldersIn
<1> HIDE DEF n
<1>7. MoveTop(alive, rc, slot, depth, stack, n, t, f, NoSlot, rc, NULL)
  <2>1. /\ f.obj = stack[n].obj
        /\ Activation(f) => f.dst = stack[n].dst \/ f.dst = NoSlot
        /\ f.kind = "assign" => f.dst = stack[n].dst /\ f.val = stack[n].val
        /\ f.val = stack[n].val
    BY <1>1, <1>3
  <2>2. /\ \A p \in Objects : \A y :
             y # NoSlot => (y \in HoldersIn(slot, stack, p) <=> y \in HoldersIn(slot, t, p))
        /\ \A p \in Objects : NoSlot \in HoldersIn(slot, t, p) => NoSlot \in HoldersIn(slot, stack, p)
    BY <1>6
  <2>3. ASSUME NEW p \in alive
        PROVE  /\ rc[p] = rc[p]
                     + Ind(NoSlot, HoldersIn(slot, t, p)) - Ind(NoSlot, HoldersIn(slot, stack, p))
                     + Ind(n, FlightsIn(t, p)) - Ind(n, FlightsIn(stack, p))
               /\ p # NULL => rc[p] > 0
    <3>1. p \in Objects /\ p # NULL /\ rc[p] \in Int
      BY <1>1, MemoryAssumption
    <3>2. rc[p] > 0
      BY <1>1, <3>1, GoodFacts DEF Good, Exact
    <3>3. n \in FlightsIn(t, p) <=> n \in FlightsIn(stack, p)
      <4>1. (n \in FlightsIn(stack, p) <=> stack[n].val = p) /\ (n \in FlightsIn(t, p) <=> f.val = p)
        BY <1>2, RefsReplaced
      <4> QED
        BY <2>1, <4>1
    <3>4. Ind(n, FlightsIn(t, p)) = Ind(n, FlightsIn(stack, p))
      BY <3>3 DEF Ind
    <3>5. Ind(NoSlot, HoldersIn(slot, t, p)) = Ind(NoSlot, HoldersIn(slot, stack, p))
      BY <1>6
    <3>6. Ind(NoSlot, HoldersIn(slot, stack, p)) \in Nat /\ Ind(n, FlightsIn(stack, p)) \in Nat
      BY IndFacts
    <3> QED
      BY <3>1, <3>2, <3>4, <3>5, <3>6
  <2> QED
    BY <1>1, <1>2, <1>3, <2>1, <2>2, <2>3 DEF MoveTop
<1>8. \A i \in 0 .. n : Level(t, i) = Level(stack, i)
  BY <1>2, <1>3, LevelReplaced
<1>9. Good(alive, rc, slot, blocks, depth, t, NULL)
  BY <1>1, <1>7, Moved
<1> QED
  BY <1>8, <1>9 DEF n

LEMMA LeaveScopeAssigns ==
  ASSUME LeaveScope, weak = {}, rc \in [Objects -> Int], slot \in [Slots -> ObjectOrNull]
  PROVE  ObjectAssign(Var(Top.n), NULL, rc, blocks, WithTop([Top EXCEPT !.n = @ + 1]))
<1> DEFINE s == Var(Top.n)
           m == [rc |-> rc, weak |-> weak, backref |-> backref, blocks |-> blocks]
<1>1. m \in Untagged(s, IncRef(rc, NULL), blocks)
  BY DEF Untagged, IncRef
<1>2. m.rc = rc /\ m.weak = weak /\ m.backref = backref /\ m.blocks = blocks
  OBVIOUS
<1>3. /\ \/ /\ slot[s] = NULL
            /\ stack' = WithTop([Top EXCEPT !.n = @ + 1])
            /\ rc' = rc /\ slot' = slot
         \/ /\ slot[s] # NULL /\ rc[slot[s]] > 1
            /\ rc' = DecRef(rc, slot[s]) /\ slot' = [slot EXCEPT ![s] = NULL]
            /\ stack' = WithTop([Top EXCEPT !.n = @ + 1])
         \/ /\ slot[s] # NULL /\ rc[slot[s]] <= 1
            /\ stack' = WithTop([Top EXCEPT !.n = @ + 1])
                         \o <<AssignFrame(s, NULL), FreeFrame(slot[s])>>
            /\ rc' = rc /\ slot' = slot
      /\ weak' = weak /\ backref' = backref /\ blocks' = blocks
  BY DEF LeaveScope
<1>4. slot[s] = NULL => [slot EXCEPT ![s] = NULL] = slot
  OBVIOUS
<1> HIDE DEF m, s
<1>5. \E x \in Untagged(s, IncRef(rc, NULL), blocks) :
        /\ weak' = x.weak /\ backref' = x.backref /\ blocks' = x.blocks
        /\ \/ /\ slot[s] = NULL /\ rc' = x.rc
              /\ slot' = [slot EXCEPT ![s] = NULL]
              /\ stack' = WithTop([Top EXCEPT !.n = @ + 1])
           \/ /\ slot[s] # NULL /\ x.rc[slot[s]] > 1
              /\ rc' = DecRef(x.rc, slot[s])
              /\ slot' = [slot EXCEPT ![s] = NULL]
              /\ stack' = WithTop([Top EXCEPT !.n = @ + 1])
           \/ /\ slot[s] # NULL /\ x.rc[slot[s]] <= 1
              /\ rc' = x.rc /\ slot' = slot
              /\ stack' = WithTop([Top EXCEPT !.n = @ + 1])
                           \o <<AssignFrame(s, NULL), FreeFrame(slot[s])>>
  <2> WITNESS m \in Untagged(s, IncRef(rc, NULL), blocks)
  <2> HIDE DEF s
  <2> QED
    BY <1>2, <1>3, <1>4
<1> QED
  BY <1>5 DEF ObjectAssign, s

LEMMA LeaveScopeCleared ==
  ASSUME CountInv, stack # <<>>, Top.kind = "leave", Top.n \in Vars,
         NEW t, NEW f, Replaced(stack, Len(stack), t, f),
         f.kind = "leave", f.n = Top.n + 1, f.obj = Top.obj,
         \A i \in 0 .. Len(stack) : Level(t, i) = Level(stack, i),
         Assigned(Var(Top.n), NULL, t)
  PROVE  Cleared(slot', depth, stack')
<1> DEFINE n == Len(stack)
           s == Var(Top.n)
<1>1. /\ n \in Nat \ {0} /\ n \in 1 .. n /\ Top = stack[n] /\ Top \in Frames
      /\ depth \in Nat /\ depth = Level(stack, n) /\ slot \in [Slots -> ObjectOrNull]
  BY TopFacts
<1>2. Activation(Top)
  BY DEF Activation
<1>3. /\ depth \in 1 .. MaxDepth
      /\ s \in VarSlots /\ s \in Slots /\ s[1] = depth /\ s = <<depth, Top.n>>
  BY <1>2, VarFacts
<1>4. /\ t \in Seq(Frames) /\ Len(t) = n /\ t[n] = f
      /\ \A i \in 1 .. n - 1 : t[i] = stack[i]
  BY DEF Replaced
<1> HIDE DEF s
<1>5. \A x \in Slots : slot[x] = NULL => slot'[x] = NULL
  BY <1>1, <1>3 DEF Assigned, s
<1>6. /\ \A i \in 1 .. n : stack'[i] = t[i]
      /\ \A i \in n + 1 .. Len(stack') : stack'[i].kind # "leave"
      /\ Len(stack') \in Nat /\ Len(stack') >= n
      /\ \/ slot'[s] = NULL
         \/ Len(stack') > n /\ stack'[n + 1].kind = "assign" /\ stack'[n + 1].dst = s
  <2>1. CASE slot' = [slot EXCEPT ![s] = NULL] /\ stack' = t
    BY <1>1, <1>3, <1>4, <2>1
  <2>2. CASE slot' = slot /\ stack' = t \o <<AssignFrame(s, NULL), FreeFrame(slot[s])>>
    <3> DEFINE a == AssignFrame(s, NULL)
               b == FreeFrame(slot[s])
    <3>1. /\ a \in Frames /\ b \in Frames /\ a.kind # "leave" /\ b.kind # "leave"
          /\ a.kind = "assign" /\ a.dst = s
      BY <1>1, <1>3 DEF AssignFrame, FreeFrame, Frames, Addresses, ObjectOrNull
    <3>2. stack' = t \o <<a, b>>
      BY <2>2
    <3> HIDE DEF a, b
    <3>3. /\ stack' \in Seq(Frames) /\ Len(stack') = n + 2
          /\ \A i \in 1 .. n : stack'[i] = t[i]
          /\ stack'[n + 1] = a /\ stack'[n + 2] = b
      BY <1>1, <1>4, <3>1, <3>2
    <3>4. \A i \in n + 1 .. Len(stack') : i = n + 1 \/ i = n + 2
      BY <1>1, <3>3
    <3> QED
      BY <1>1, <3>1, <3>3, <3>4
  <2> QED
    BY <2>1, <2>2 DEF Assigned, s
<1>7. \A i \in 1 .. n : Level(stack', i) = Level(stack, i)
  <2>1. \A i \in 0 .. n : Level(stack', i) = Level(t, i)
    BY <1>1, <1>6, LevelsKept
  <2> QED
    BY <1>1, <2>1
<1>8. ASSUME NEW e \in 1 .. MaxDepth, NEW v \in Vars, e > depth PROVE slot'[<<e, v>>] = NULL
  <2>1. <<e, v>> \in Slots /\ slot[<<e, v>>] = NULL
    BY <1>8 DEF Slots, VarSlots, CountInv, Cleared
  <2> QED
    BY <1>5, <2>1
<1>9. ASSUME NEW i \in 1 .. n, NEW v \in Vars, stack[i].kind = "leave", v < stack[i].n
      PROVE  \/ slot'[<<Level(stack, i), v>>] = NULL
             \/ i + 1 \in 1 .. n - 1 /\ stack[i + 1].kind = "assign"
                /\ stack[i + 1].dst = <<Level(stack, i), v>>
  <2>1. i \in Nat \ {0} /\ i <= n
    BY <1>1
  <2>2. Level(stack, i) \in Nat /\ Level(stack, i) <= depth /\ Level(stack, i) # 0
    <3>1. i \in Activations(stack, i)
      BY <1>9, <2>1 DEF Activations, Activation
    <3>2. Level(stack, i) \in Nat /\ Level(stack, i) <= depth
      BY <1>1, <2>1, LevelGrows
    <3> QED
      BY <2>1, <3>1, <3>2, LevelType, FS_EmptySet DEF Level
  <2>3. <<Level(stack, i), v>> \in Slots
    <3>1. Level(stack, i) \in 1 .. MaxDepth
      BY <1>3, <2>2, MemoryAssumption
    <3> QED
      BY <3>1 DEF VarSlots, Slots
  <2>4. \/ slot[<<Level(stack, i), v>>] = NULL
        \/ i < n /\ stack[i + 1].kind = "assign" /\ stack[i + 1].dst = <<Level(stack, i), v>>
    BY <1>9 DEF CountInv, Cleared
  <2>5. ASSUME i < n, stack[i + 1].kind = "assign" PROVE i + 1 \in 1 .. n - 1
    <3>1. i + 1 # n
      BY <1>1, <2>5
    <3> QED
      BY <1>1, <2>1, <2>5, <3>1
  <2> QED
    BY <1>5, <2>3, <2>4, <2>5
<1>10. ASSUME NEW i \in 1 .. Len(stack'), NEW v \in Vars, stack'[i].kind = "leave", v < stack'[i].n
       PROVE  \/ slot'[<<Level(stack', i), v>>] = NULL
              \/ i < Len(stack') /\ stack'[i + 1].kind = "assign"
                 /\ stack'[i + 1].dst = <<Level(stack', i), v>>
  <2>1. i \in 1 .. n
    <3>1. i \in 1 .. n \/ i \in n + 1 .. Len(stack')
      BY <1>1, <1>6
    <3> QED
      BY <1>6, <1>10, <3>1
  <2>2. stack'[i] = t[i] /\ Level(stack', i) = Level(stack, i)
    BY <1>6, <1>7, <2>1
  <2>3. CASE i = n
    <3>1. stack'[i].n = Top.n + 1 /\ Level(stack', i) = depth /\ Top.n \in Nat /\ v \in Nat
      BY <1>1, <1>4, <2>2, <2>3 DEF Vars
    <3>2. v < Top.n \/ v = Top.n
      BY <1>10, <3>1
    <3>3. CASE v = Top.n
      BY <1>1, <1>3, <1>6, <2>3, <3>1, <3>3
    <3>4. CASE v < Top.n
      <4>1. ~(i + 1 \in 1 .. n - 1)
        BY <1>1, <2>3
      <4> QED
        BY <1>1, <1>9, <2>1, <2>2, <2>3, <3>4, <4>1
    <3> QED
      BY <3>2, <3>3, <3>4
  <2>4. CASE i # n
    <3>1. i \in 1 .. n - 1 /\ i < Len(stack')
      BY <1>1, <1>6, <2>1, <2>4
    <3>2. stack'[i] = stack[i]
      BY <1>4, <2>2, <3>1
    <3>3. i + 1 \in 1 .. n - 1 => stack'[i + 1] = stack[i + 1]
      BY <1>1, <1>4, <1>6
    <3> QED
      BY <1>9, <1>10, <2>1, <2>2, <3>1, <3>2, <3>3
  <2> QED
    BY <2>3, <2>4
<1> QED
  BY <1>8, <1>10 DEF Cleared

LEMMA LeaveScopeCount ==
  ASSUME CountInv, LeaveScope
  PROVE  CountInv'
<1> DEFINE n == Len(stack)
           s == Var(Top.n)
           f == [Top EXCEPT !.n = @ + 1]
           t == WithTop(f)
<1>1. /\ stack # <<>> /\ Top.kind = "leave" /\ Top.n <= NVars
      /\ UNCHANGED <<alive, weak, backref, blocks, depth>>
  BY DEF LeaveScope, Running
<1>2. /\ n \in Nat \ {0} /\ Top = stack[n] /\ Top \in Frames /\ FrameOK(Top, depth)
      /\ rc \in [Objects -> Int] /\ slot \in [Slots -> ObjectOrNull]
      /\ \A g \in Frames : Replaced(stack, n, WithTop(g), g)
  BY <1>1, TopFacts
<1>3. Activation(Top)
  BY <1>1 DEF Activation
<1>4. Top.n \in Vars
  BY <1>1, <1>2, MemoryAssumption DEF FrameOK, Frames, Vars
<1>5. weak = {} /\ backref = [o \in Objects |-> <<>>] /\ depth \in Depths
  BY DEF CountInv
<1>6. ObjectAssign(s, NULL, rc, blocks, t)
  BY <1>2, <1>5, LeaveScopeAssigns
<1>7. s \in VarSlots /\ s \in Slots /\ s[1] = depth /\ s \notin FieldSlots /\ s \notin PackageSlots
  BY <1>1, <1>3, <1>4, VarFacts, SlotKinds
<1> HIDE DEF s
<1>8. /\ Good(alive, rc, slot, blocks, depth, t, NULL)
      /\ Replaced(stack, n, t, f)
      /\ f.kind = "leave" /\ f.n = Top.n + 1 /\ f.obj = Top.obj
      /\ \A i \in 0 .. n : Level(t, i) = Level(stack, i)
  <2>1. /\ f.kind = "leave" /\ f.obj = Top.obj /\ f.dst = Top.dst /\ f.val = Top.val
        /\ f.n = Top.n + 1 /\ f \in Frames
    BY <1>1, <1>2 DEF Frames
  <2> HIDE DEF f
  <2>2. Replaced(stack, n, t, f)
    BY <1>2, <2>1
  <2> HIDE DEF t
  <2> QED
    BY <1>1, <2>1, <2>2, Advanced
<1> HIDE DEF f, t
<1>9. Target(alive, slot, depth, t, s, NULL)
  <2>1. /\ t \in Seq(Frames) /\ Len(t) = n /\ t[n] = f /\ t # <<>>
    BY <1>2, <1>8 DEF Replaced
  <2>2. \A k \in 1 .. Len(t) : t[k].kind = "free" => t[k].obj # NULL
    <3>1. StackOK(t, depth)
      BY <1>8, GoodFacts
    <3> QED
      BY <3>1, MemoryAssumption DEF StackOK, FrameOK
  <2> QED
    BY <1>7, <1>8, <2>1, <2>2 DEF Target, Activation
<1>10. /\ Good(alive, rc', slot', blocks, depth, stack', NULL)
       /\ weak' = {} /\ backref' = backref /\ blocks' = blocks
       /\ Assigned(s, NULL, t)
  <2>1. NULL \in {NULL, NULL}
    OBVIOUS
  <2> QED
    BY <1>5, <1>6, <1>8, <1>9, <2>1, AssignGood
<1>11. Cleared(slot', depth, stack')
  <2>1. Assigned(Var(Top.n), NULL, t)
    BY <1>10 DEF s
  <2> QED
    BY <1>1, <1>4, <1>8, <2>1, LeaveScopeCleared
<1> QED
  BY <1>1, <1>5, <1>10, <1>11 DEF CountInv

(* The activation is gone, its result is on its way to the caller.         *)
LEMMA EndSubCount ==
  ASSUME CountInv, EndSub
  PROVE  CountInv'
<1> DEFINE n == Len(stack)
           val == Top.val
           counts == IF val = NULL THEN rc ELSE DecRef(rc, val)
<1>1. /\ stack # <<>> /\ Top.kind = "leave" /\ Top.n > NVars /\ depth' = depth - 1
      /\ alive' = alive
  BY DEF EndSub, Running
<1>2. /\ Good(alive, rc, slot, blocks, depth, stack, NULL)
      /\ n \in Nat \ {0} /\ n \in 1 .. n /\ Top = stack[n] /\ Top \in Frames
      /\ FrameOK(Top, depth) /\ ResultOK(Top) /\ rc \in [Objects -> Int]
      /\ alive \subseteq Objects /\ slot \in [Slots -> ObjectOrNull]
      /\ depth \in Nat /\ depth = Level(stack, n)
      /\ StackOK(stack, depth) /\ Shape(stack) /\ Popped(stack, n, Below)
  BY <1>1, TopFacts
<1>3. Activation(Top)
  BY <1>1 DEF Activation
<1>4. /\ weak = {} /\ backref = [o \in Objects |-> <<>>] /\ depth \in Depths
      /\ Cleared(slot, depth, stack)
  BY DEF CountInv
<1>5. depth \in 1 .. MaxDepth /\ depth - 1 \in Depths
  BY <1>1, <1>2, <1>3, VarFacts, MemoryAssumption DEF Depths
<1>6. \A v \in Vars : slot[<<depth, v>>] = NULL
  <2>1. \A v \in Vars : v < Top.n
    BY <1>1, <1>2, MemoryAssumption DEF Vars, Frames
  <2> QED
    BY <1>1, <1>2, <1>4, <2>1 DEF Cleared
<1>7. val \in ObjectOrNull /\ (val # NULL => val \in Objects)
  BY <1>2 DEF Frames, ObjectOrNull
<1>8. /\ counts \in [Objects -> Int]
      /\ \A p \in Objects : counts[p] = rc[p] - (IF p = val THEN 1 ELSE 0)
  <2>1. CASE val = NULL
    <3>1. counts = rc /\ \A p \in Objects : p # val /\ rc[p] \in Int
      BY <1>2, <2>1, MemoryAssumption
    <3> HIDE DEF counts, val
    <3> QED
      BY <1>2, <3>1
  <2>2. CASE val # NULL
    <3>1. counts = DecRef(rc, val)
      BY <2>2
    <3> HIDE DEF counts, val
    <3> QED
      BY <1>2, <3>1, RefsAt
  <2> QED
    BY <2>1, <2>2
<1> HIDE DEF counts
<1>9. Good(alive, counts, slot, blocks - 1, depth - 1, Below, val)
  <2>1. Activation(stack[n]) /\ val = stack[n].val
    BY <1>2, <1>3
  <2>2. \A v \in Vars : <<depth, v>> \in VarSlots => slot[<<depth, v>>] = NULL
    BY <1>6
  <2>3. \A p \in Objects : counts[p] = rc[p] - (IF p = stack[n].val THEN 1 ELSE 0)
    BY <1>8, <2>1
  <2> HIDE DEF val, n
  <2>4. Good(alive, counts, slot, blocks - 1, depth - 1, Below, stack[n].val)
    BY <1>2, <1>8, <2>1, <2>2, <2>3, PopSub
  <2> QED
    BY <2>1, <2>4
<1>10. /\ Below \in Seq(Frames) /\ Len(Below) = n - 1
       /\ \A i \in 1 .. n - 1 : Below[i] = stack[i]
  BY <1>2 DEF Popped
<1>11. Cleared(slot, depth - 1, Below)
  <2>1. /\ Len(stack) \in Nat /\ Len(Below) \in Nat /\ n - 1 \in Nat
        /\ n - 1 <= Len(stack) /\ n - 1 <= Len(Below)
        /\ \A i \in 1 .. n - 1 : Below[i] = stack[i]
        /\ \A i \in (n - 1) + 1 .. Len(Below) : Below[i].kind = "leave" => Below[i].n = 1
        /\ n - 1 < Len(stack) => stack[(n - 1) + 1].kind # "assign"
    BY <1>1, <1>2, <1>10
  <2>2. ASSUME NEW e \in 1 .. MaxDepth, NEW v \in Vars, e > depth - 1
        PROVE  slot[<<e, v>>] = NULL
    <3>1. e = depth \/ e > depth
      BY <1>2, <2>2
    <3> QED
      BY <1>4, <1>6, <3>1 DEF Cleared
  <2> HIDE DEF n
  <2> QED
    BY <1>4, <2>1, <2>2, ClearedStep
<1>12. CASE Top.dst = NoSlot
  <2>1. /\ blocks' = blocks - 1 /\ stack' = Below
        /\ UNCHANGED <<rc, slot, weak, backref>>
    <3>1. \/ /\ blocks' = blocks - 1 /\ stack' = Below
             /\ UNCHANGED <<rc, slot, weak, backref>>
          \/ Top.dst # NoSlot
      BY DEF EndSub
    <3> QED
      BY <1>12, <3>1
  <2>2. val = NULL /\ counts = rc
    BY <1>1, <1>2, <1>12 DEF ResultOK, counts
  <2>3. Good(alive, rc, slot, blocks - 1, depth - 1, Below, NULL)
    BY <1>9, <2>2
  <2> QED
    BY <1>1, <1>4, <1>5, <1>11, <2>1, <2>3 DEF CountInv
<1>13. CASE Top.dst # NoSlot
  <2>1. ObjectAssign(Top.dst, val, counts, blocks - 1, Below)
    <3>1. \/ Top.dst = NoSlot
          \/ ObjectAssign(Top.dst, Top.val, IF Top.val = NULL THEN rc ELSE DecRef(rc, Top.val),
                          blocks - 1, Below)
      BY DEF EndSub
    <3> QED
      BY <1>13, <3>1 DEF counts
  <2>2. Top.dst \in VarSlots /\ Top.dst[1] = depth - 1
    BY <1>2, <1>3, <1>13 DEF FrameOK
  <2>3. n > 1 /\ n - 1 \in 1 .. n - 1 /\ n \in 2 .. n
    <3>1. n # 1
      BY <1>1, <1>2, <1>13 DEF Shape
    <3>2. n \in Nat \ {0}
      BY <1>2
    <3> HIDE DEF n
    <3> QED
      BY <3>1, <3>2
  <2>4. stack[n - 1].kind = "sub" /\ stack[n - 1].obj = Top.obj
    <3>1. Link(stack[n - 1], stack[n])
      BY <1>2, <2>3 DEF Shape
    <3> QED
      BY <1>2, <1>3, <1>13, <3>1 DEF Link
  <2>5. n \in FlightsIn(stack, val)
    BY <1>2 DEF FlightsIn
  <2>6. val \in alive \cup {NULL}
    BY <1>2, <1>7, <2>5, LiveFacts
  <2>7. ASSUME NEW k \in 1 .. n, stack[k].kind = "free", stack[k].obj = val
        PROVE  Top.obj = val
    <3>1. ReleaseOK(slot, stack, k)
      BY <1>2, <2>7 DEF Good
    <3>2. OwnFlight(stack, k, n)
      BY <2>5, <2>7, <3>1 DEF ReleaseOK
    <3> QED
      BY <1>1, <1>2, <2>7, <3>2 DEF OwnFlight
  <2>8. /\ Below # <<>> /\ Len(Below) = n - 1 /\ Below[n - 1] = stack[n - 1]
        /\ \A k \in 1 .. n - 1 : Below[k] = stack[k] /\ k \in 1 .. n
    BY <1>2, <1>10, <2>3
  <2> HIDE DEF n, val
  <2>9. Target(alive, slot, depth - 1, Below, Top.dst, val)
    <3>1. /\ Below # <<>> /\ Activation(Below[Len(Below)]) /\ Below[Len(Below)].kind # "leave"
          /\ Below[Len(Below)].obj = Top.obj
      BY <2>4, <2>8 DEF Activation
    <3>2. /\ Top.dst \in Slots /\ Top.dst \notin FieldSlots /\ Top.dst \notin PackageSlots
      BY <2>2, SlotKinds
    <3>3. ASSUME NEW k \in 1 .. Len(Below), Below[k].kind = "free" /\ Below[k].obj = val
          PROVE  Top.obj = val
      BY <2>7, <2>8, <3>3
    <3> QED
      BY <2>2, <2>6, <3>1, <3>2, <3>3 DEF Target
  <2>10. val \in {NULL, val}
    OBVIOUS
  <2>11. /\ Good(alive, rc', slot', blocks - 1, depth - 1, stack', NULL)
         /\ weak' = {} /\ backref' = backref /\ blocks' = blocks - 1
         /\ Assigned(Top.dst, val, Below)
    BY <1>4, <1>9, <2>1, <2>9, <2>10, AssignGood
  <2>12. Cleared(slot', depth - 1, stack')
    <3>1. StackOK(Below, depth - 1)
      BY <1>9, GoodFacts
    <3>2. Below[Len(Below)].kind = "sub" /\ Below # <<>>
      BY <2>4, <2>8
    <3>3. Top.dst \in Slots /\ (Top.dst \in VarSlots => Top.dst[1] = depth - 1)
      BY <2>2, SlotKinds
    <3> QED
      BY <1>2, <1>5, <1>7, <1>11, <2>11, <3>1, <3>2, <3>3, ClearedAssigned
  <2> QED
    BY <1>1, <1>4, <1>5, <2>11, <2>12 DEF CountInv
<1> QED
  BY <1>12, <1>13

-----------------------------------------------------------------------------
(* The release of an object.                                               *)

LEMMA ReleaseFacts ==
  ASSUME CountInv, Running("free")
  PROVE  /\ stack # <<>> /\ Top.kind = "free" /\ stack[Len(stack)].kind = "free"
         /\ Top.obj \in alive /\ Top.obj \in Objects /\ Top.obj # NULL /\ Top.n \in Nat
         /\ Top.dst \in Addresses /\ Top.val = NULL
<1>1. stack # <<>> /\ Top.kind = "free"
  BY DEF Running
<1>2. /\ Good(alive, rc, slot, blocks, depth, stack, NULL)
      /\ Len(stack) \in Nat \ {0} /\ Len(stack) \in 1 .. Len(stack)
      /\ Top = stack[Len(stack)] /\ Top \in Frames
      /\ FrameOK(Top, depth) /\ ResultOK(Top)
  BY <1>1, TopFacts
<1>3. Top.obj \in Objects
  BY <1>1, <1>2 DEF FrameOK
<1>4. Len(stack) \in FreesIn(stack, Top.obj)
  BY <1>1, <1>2 DEF FreesIn
<1>5. Top.obj \in alive
  BY <1>2, <1>3, <1>4, LiveFacts
<1> QED
  BY <1>1, <1>2, <1>3, <1>5, MemoryAssumption DEF Frames, ResultOK

(* A release that goes on, above the frames that wait for it.              *)
LEMMA ReleaseCleared ==
  ASSUME CountInv, Running("free"), NEW t \in Seq(Frames), Len(t) >= Len(stack),
         \A i \in 1 .. Len(stack) - 1 : t[i] = stack[i],
         \A i \in Len(stack) .. Len(t) : t[i].kind # "leave"
  PROVE  Cleared(slot, depth, t)
<1> DEFINE n == Len(stack)
<1>1. n \in Nat \ {0} /\ stack[n].kind = "free" /\ Cleared(slot, depth, stack)
  BY ReleaseFacts, TopFacts DEF CountInv
<1>2. /\ Len(stack) \in Nat /\ Len(t) \in Nat /\ n - 1 \in Nat
      /\ n - 1 <= Len(stack) /\ n - 1 <= Len(t)
      /\ \A i \in 1 .. n - 1 : t[i] = stack[i]
      /\ \A i \in (n - 1) + 1 .. Len(t) : t[i].kind = "leave" => t[i].n = 1
      /\ n - 1 < Len(stack) => stack[(n - 1) + 1].kind # "assign"
  BY <1>1
<1>3. \A e \in 1 .. MaxDepth, v \in Vars : e > depth => slot[<<e, v>>] = NULL
  BY <1>1 DEF Cleared
<1> HIDE DEF n
<1> QED
  BY <1>1, <1>2, <1>3, ClearedStep

LEMMA FreeDestroyCount ==
  ASSUME CountInv, FreeDestroy
  PROVE  CountInv'
<1> DEFINE n == Len(stack)
           f == [Top EXCEPT !.n = 1]
           t == WithTop(f)
<1>1. Running("free") /\ Top.n = 0
  BY DEF FreeDestroy
<1>2. /\ stack # <<>> /\ Top.kind = "free" /\ Top.obj \in alive /\ Top.obj \in Objects
      /\ Top.obj # NULL
  BY <1>1, ReleaseFacts
<1>3. /\ n \in Nat \ {0} /\ Top \in Frames
      /\ \A g \in Frames : Replaced(stack, n, WithTop(g), g)
  BY <1>2, TopFacts
<1>4. /\ f.kind = "free" /\ f.obj = Top.obj /\ f.dst = Top.dst /\ f.val = Top.val
      /\ f.n = 1 /\ f \in Frames
  BY <1>2, <1>3 DEF Frames
<1> HIDE DEF f
<1>5. Replaced(stack, n, t, f)
  BY <1>3, <1>4
<1>6. IF Top.obj \in Destructible
        THEN EnterSub(Top.obj, Append(t, SubFrame(Top.obj, NoSlot)))
        ELSE /\ stack' = t
             /\ UNCHANGED <<alive, rc, slot, weak, backref, blocks, depth>>
  BY DEF FreeDestroy, f
<1> HIDE DEF t
<1>7. Good(alive, rc, slot, blocks, depth, t, NULL)
  <2>1. f.n = Top.n + 1 /\ f.kind = Top.kind /\ Top.kind = "free" /\ Top.n = 0
    BY <1>1, <1>2, <1>4
  <2> QED
    BY <1>2, <1>4, <1>5, <2>1, Advanced
<1>8. /\ t \in Seq(Frames) /\ Len(t) = n /\ t[n] = f
      /\ \A i \in 1 .. n - 1 : t[i] = stack[i]
  BY <1>5 DEF Replaced
<1>9. Cleared(slot, depth, t)
  <2>1. \A i \in Len(stack) .. Len(t) : t[i].kind # "leave"
    <3>1. \A i \in Len(stack) .. Len(t) : i = n
      BY <1>3, <1>8
    <3> QED
      BY <1>4, <1>8, <3>1
  <2>2. Len(t) >= Len(stack)
    BY <1>3, <1>8
  <2> QED
    BY <1>1, <1>8, <2>1, <2>2, ReleaseCleared
<1>10. weak = {} /\ backref = [o \in Objects |-> <<>>] /\ depth \in Depths
  BY DEF CountInv
<1>11. CASE Top.obj \in Destructible
  <2>1. EnterSub(Top.obj, Append(t, SubFrame(Top.obj, NoSlot)))
    BY <1>6, <1>11
  <2>2. /\ Top.obj \in ObjectOrNull /\ NoSlot \in Addresses /\ Top.obj \in alive \cup {NULL}
        /\ NoSlot = NoSlot \/ (NoSlot \in VarSlots /\ NoSlot[1] = depth)
        /\ \A k \in 1 .. Len(t) : t[k].kind = "free" /\ t[k].obj = Top.obj => Top.obj = Top.obj
    BY <1>2 DEF ObjectOrNull, Addresses
  <2>3. Caller(t, Top.obj, NoSlot)
    BY <1>2, <1>3, <1>4, <1>8 DEF Caller
  <2> QED
    BY <1>7, <1>9, <1>10, <2>1, <2>2, <2>3, Entered
<1>12. CASE Top.obj \notin Destructible
  <2>1. stack' = t /\ UNCHANGED <<alive, rc, slot, weak, backref, blocks, depth>>
    BY <1>6, <1>12
  <2> QED
    BY <1>7, <1>9, <1>10, <2>1 DEF CountInv
<1> QED
  BY <1>11, <1>12

(* The field that is released next is still counted.                       *)
LEMMA FieldHeld ==
  ASSUME CountInv, Running("free"), Top.n \in Fields, NEW s, s = <<Top.obj, Top.n>>
  PROVE  s \in FieldSlots /\ s \in Slots /\ ~Gone(stack, s)
<1> DEFINE n == Len(stack)
<1>1. /\ stack # <<>> /\ Top.kind = "free" /\ Top.obj \in Objects
  BY ReleaseFacts
<1>2. /\ Good(alive, rc, slot, blocks, depth, stack, NULL) /\ Shape(stack)
      /\ n \in Nat \ {0} /\ n \in 1 .. n /\ Top = stack[n]
  BY <1>1, TopFacts
<1>3. s \in FieldSlots
  BY <1>1 DEF FieldSlots
<1>4. s \in Slots /\ s[1] = Top.obj
  BY <1>3, SlotKinds
<1>5. ASSUME NEW i \in 1 .. n, stack[i].kind = "assign", stack[i].dst = s PROVE FALSE
  <2>1. \A k \in 1 .. n : stack[k].kind = "free" /\ stack[k].obj = stack[i].dst[1] => k < i
    BY <1>2, <1>3, <1>5, WriteHolder
  <2>2. n < i
    BY <1>1, <1>2, <1>4, <1>5, <2>1
  <2> QED
    BY <1>2, <2>2
<1>6. ASSUME NEW i \in 1 .. n, stack[i].kind = "free",
             NEW g \in Fields, g < stack[i].n, s = <<stack[i].obj, g>>
      PROVE  FALSE
  <2>1. stack[i].obj = Top.obj /\ g = Top.n
    BY <1>6
  <2>2. i = n
    BY <1>1, <1>2, <1>6, <2>1 DEF Shape
  <2> QED
    BY <1>2, <1>6, <2>1, <2>2 DEF Fields
<1> QED
  BY <1>3, <1>4, <1>5, <1>6 DEF Gone

(* The release passes the field.                                           *)
LEMMA FieldPassed ==
  ASSUME CountInv, Running("free"), Top.n \in Fields, NEW s, s = <<Top.obj, Top.n>>,
         NEW f \in Frames, NEW t, Replaced(stack, Len(stack), t, f),
         f.kind = Top.kind, f.obj = Top.obj, f.dst = Top.dst, f.val = Top.val, f.n = Top.n + 1,
         NEW counts \in [Objects -> Int], NEW lax,
         \A p \in Objects : counts[p] = rc[p] - (IF p = slot[s] THEN 1 ELSE 0),
         \A p \in Objects : p # lax /\ p = slot[s] => counts[p] > 0
  PROVE  Good(alive, counts, slot, blocks, depth, t, lax)
<1> DEFINE n == Len(stack)
<1>1. stack # <<>> /\ Top.kind = "free" /\ Top.obj \in Objects /\ Top.n \in Nat
  BY ReleaseFacts
<1>2. /\ Good(alive, rc, slot, blocks, depth, stack, NULL)
      /\ n \in Nat \ {0} /\ n \in 1 .. n /\ Top = stack[n]
      /\ FrameOK(Top, depth) /\ ResultOK(Top) /\ rc \in [Objects -> Int]
      /\ alive \subseteq Objects
  BY <1>1, TopFacts
<1>3. s \in Slots /\ ~Gone(stack, s)
  BY FieldHeld
<1>4. /\ FrameOK(f, depth) /\ ResultOK(f)
      /\ f.kind = "free" /\ stack[n].kind = "free"
      /\ Activation(f) <=> Activation(stack[n])
      /\ ~Activation(f)
  BY <1>1, <1>2 DEF FrameOK, ResultOK, Activation
<1>5. ASSUME NEW y, y # s PROVE GoneTop(f, y) <=> GoneTop(stack[n], y)
  <2>1. ASSUME NEW g \in Fields, y = <<Top.obj, g>>
        PROVE  g < f.n <=> g < Top.n
    <3>1. g # Top.n /\ g \in Nat
      BY <1>5, <2>1 DEF Fields
    <3> QED
      BY <1>1, <3>1
  <2> QED
    BY <1>2, <1>4, <2>1 DEF GoneTop
<1>6. \A y : y # s => (Gone(t, y) <=> Gone(stack, y))
  BY <1>5, GoneReplaced
<1>7. Gone(t, s)
  <2>1. n = Len(t) /\ t[n] = f
    BY DEF Replaced
  <2>2. Top.n < f.n
    BY <1>1
  <2> QED
    BY <1>2, <1>4, <2>1, <2>2 DEF Gone
<1> HIDE DEF n
<1>8. \A p \in Objects : \A y :
        y # s => (y \in HoldersIn(slot, stack, p) <=> y \in HoldersIn(slot, t, p))
  BY <1>6 DEF HoldersIn
<1>9. \A p : /\ s \notin HoldersIn(slot, t, p)
             /\ s \in HoldersIn(slot, stack, p) <=> p = slot[s]
  BY <1>3, <1>7 DEF HoldersIn
<1>10. ASSUME NEW p \in alive
       PROVE  /\ counts[p] = rc[p]
                    + Ind(s, HoldersIn(slot, t, p)) - Ind(s, HoldersIn(slot, stack, p))
                    + Ind(n, FlightsIn(t, p)) - Ind(n, FlightsIn(stack, p))
              /\ p # lax => counts[p] > 0
  <2>1. p \in Objects /\ p # NULL /\ rc[p] \in Int
    BY <1>2, MemoryAssumption
  <2>2. rc[p] > 0
    BY <1>2, <2>1, GoodFacts DEF Good, Exact
  <2>3. n \in FlightsIn(t, p) <=> n \in FlightsIn(stack, p)
    <3>1. (n \in FlightsIn(stack, p) <=> stack[n].val = p) /\ (n \in FlightsIn(t, p) <=> f.val = p)
      BY RefsReplaced DEF n
    <3> QED
      BY <1>2, <3>1
  <2>4. Ind(n, FlightsIn(t, p)) = Ind(n, FlightsIn(stack, p)) /\ Ind(n, FlightsIn(stack, p)) \in Nat
    BY <2>3 DEF Ind
  <2>5. Ind(s, HoldersIn(slot, t, p)) = 0
    BY <1>9, IndFacts
  <2>6. counts[p] = rc[p] - (IF p = slot[s] THEN 1 ELSE 0)
    BY <2>1
  <2>7. CASE p = slot[s]
    <3>1. Ind(s, HoldersIn(slot, stack, p)) = 1
      BY <1>9, <2>7, IndFacts
    <3>2. p # lax => counts[p] > 0
      BY <2>1, <2>7
    <3> QED
      BY <2>1, <2>4, <2>5, <2>6, <2>7, <3>1, <3>2
  <2>8. CASE p # slot[s]
    <3>1. Ind(s, HoldersIn(slot, stack, p)) = 0
      BY <1>9, <2>8, IndFacts
    <3> QED
      BY <2>1, <2>2, <2>4, <2>5, <2>6, <2>8, <3>1
  <2> QED
    BY <2>7, <2>8
<1>11. MoveTop(alive, rc, slot, depth, stack, n, t, f, s, counts, lax)
  <2>1. /\ Replaced(stack, n, t, f)
        /\ f.kind = "assign" <=> stack[n].kind = "assign"
        /\ f.kind = "free" <=> stack[n].kind = "free"
        /\ f.obj = stack[n].obj /\ f.val = stack[n].val
        /\ Activation(f) => f.dst = stack[n].dst \/ f.dst = NoSlot
        /\ f.kind = "assign" => f.dst = stack[n].dst /\ f.val = stack[n].val
    BY <1>2, <1>4 DEF n
  <2>2. \A p \in Objects : s \in HoldersIn(slot, t, p) => s \in HoldersIn(slot, stack, p)
    BY <1>9
  <2> QED
    BY <1>4, <1>8, <1>10, <2>1, <2>2 DEF MoveTop
<1> QED
  BY <1>2, <1>11, Moved

LEMMA FreeFieldCount ==
  ASSUME CountInv, FreeField
  PROVE  CountInv'
<1> DEFINE n == Len(stack)
           s == <<Top.obj, Top.n>>
           old == slot[s]
           f == [Top EXCEPT !.n = @ + 1]
           t == WithTop(f)
           m == [rc |-> rc, weak |-> weak, backref |-> backref, blocks |-> blocks]
<1>1. Running("free") /\ Top.n \in Fields /\ UNCHANGED <<alive, slot, depth>>
  BY DEF FreeField
<1>2. /\ stack # <<>> /\ Top.kind = "free" /\ Top.obj \in Objects /\ Top.n \in Nat
  BY <1>1, ReleaseFacts
<1>3. /\ Good(alive, rc, slot, blocks, depth, stack, NULL)
      /\ n \in Nat \ {0} /\ n \in 1 .. n /\ Top \in Frames
      /\ rc \in [Objects -> Int] /\ slot \in [Slots -> ObjectOrNull] /\ alive \subseteq Objects
      /\ \A g \in Frames : Replaced(stack, n, WithTop(g), g)
  BY <1>2, TopFacts
<1>4. weak = {} /\ backref = [o \in Objects |-> <<>>] /\ depth \in Depths
  BY DEF CountInv
<1>5. Untagged(s, rc, blocks) = {m}
  BY <1>4 DEF Untagged
<1>6. m.rc = rc /\ m.weak = weak /\ m.backref = backref /\ m.blocks = blocks
  OBVIOUS
<1> HIDE DEF m
<1>7. /\ weak' = weak /\ backref' = backref /\ blocks' = blocks
      /\ \/ old = NULL /\ stack' = t /\ rc' = rc
         \/ old # NULL /\ rc[old] = 1 /\ rc' = rc /\ stack' = Append(t, FreeFrame(old))
         \/ old # NULL /\ rc[old] # 1 /\ rc' = DecRef(rc, old) /\ stack' = t
  BY <1>5, <1>6 DEF FreeField
<1>8. /\ f.kind = Top.kind /\ f.obj = Top.obj /\ f.dst = Top.dst /\ f.val = Top.val
      /\ f.n = Top.n + 1 /\ f \in Frames
  BY <1>3 DEF Frames
<1> HIDE DEF f
<1>9. Replaced(stack, n, t, f)
  BY <1>3, <1>8
<1> HIDE DEF t
<1>10. /\ t \in Seq(Frames) /\ Len(t) = n /\ t[n] = f
       /\ \A i \in 1 .. n - 1 : t[i] = stack[i]
  BY <1>9 DEF Replaced
<1>11. s \in Slots /\ s \in HoldersIn(slot, stack, old) /\ old \in ObjectOrNull
  <2>1. s \in Slots /\ ~Gone(stack, s)
    BY <1>1, FieldHeld
  <2> HIDE DEF s
  <2> QED
    BY <1>3, <2>1 DEF HoldersIn
<1> HIDE DEF s
<1>12. old # NULL => old \in Objects /\ old \in alive /\ rc[old] > 0
  <2>1. old # NULL => old \in Objects
    BY <1>11 DEF ObjectOrNull
  <2> HIDE DEF old
  <2> QED
    BY <1>3, <1>11, <2>1, LiveFacts
<1>13. ASSUME NEW counts \in [Objects -> Int], NEW lax,
              \A p \in Objects : counts[p] = rc[p] - (IF p = old THEN 1 ELSE 0),
              \A p \in Objects : p # lax /\ p = old => counts[p] > 0
       PROVE  Good(alive, counts, slot, blocks, depth, t, lax)
  <2>1. s = <<Top.obj, Top.n>>
    BY DEF s
  <2> QED
    BY <1>1, <1>8, <1>9, <1>13, <2>1, FieldPassed
<1>14. DecRef(rc, old) \in [Objects -> Int]
       /\ \A p \in Objects : DecRef(rc, old)[p] = rc[p] - (IF p = old THEN 1 ELSE 0)
  BY <1>3, RefsAt
<1>15. CASE old = NULL
  <2>1. stack' = t /\ rc' = rc
    BY <1>7, <1>15
  <2>2. \A p \in Objects : p # old /\ rc[p] \in Int
    BY <1>3, <1>15, MemoryAssumption
  <2>3. /\ \A p \in Objects : rc[p] = rc[p] - (IF p = old THEN 1 ELSE 0)
        /\ \A p \in Objects : p # NULL /\ p = old => rc[p] > 0
    BY <2>2
  <2>4. Good(alive, rc, slot, blocks, depth, t, NULL)
    BY <1>3, <1>13, <2>3
  <2>5. Cleared(slot, depth, t)
    <3>1. \A i \in Len(stack) .. Len(t) : t[i].kind # "leave"
      BY <1>2, <1>3, <1>8, <1>10
    <3> QED
      BY <1>1, <1>3, <1>10, <3>1, ReleaseCleared
  <2> QED
    BY <1>1, <1>4, <1>7, <2>1, <2>4, <2>5 DEF CountInv
<1>16. CASE old # NULL /\ rc[old] = 1
  <2>1. rc' = rc /\ stack' = Append(t, FreeFrame(old))
    BY <1>7, <1>16
  <2> DEFINE c == DecRef(rc, old)
  <2>2. c \in [Objects -> Int] /\ \A p \in Objects : c[p] = rc[p] - (IF p = old THEN 1 ELSE 0)
    BY <1>14
  <2> HIDE DEF c
  <2>3. old \in Objects /\ old \in alive /\ rc[old] = 1
    BY <1>12, <1>16
  <2> HIDE DEF old
  <2>4. Good(alive, c, slot, blocks, depth, t, old)
    BY <1>13, <2>2
  <2>5. c[old] = 0
    BY <2>2, <2>3
  <2>6. \A p \in Objects : rc[p] = c[p] + (IF p = old THEN 1 ELSE 0)
    <3>1. \A p \in Objects : rc[p] \in Int
      BY <1>3
    <3> QED
      BY <2>2, <3>1
  <2>7. FreeFrame(old) \in Frames /\ FreeFrame(old).kind = "free"
    BY <2>3 DEF FreeFrame, Frames, Addresses, ObjectOrNull
  <2>8. Pushed(t, n, stack', FreeFrame(old))
    BY <1>10, <2>1, <2>7, PushedFacts
  <2>9. n > 0 /\ t[n].kind \in {"assign", "free"}
    BY <1>2, <1>3, <1>8, <1>10
  <2>10. Good(alive, rc, slot, blocks, depth, stack', NULL)
    BY <1>3, <2>3, <2>4, <2>5, <2>6, <2>8, <2>9, PushFree
  <2>11. Cleared(slot, depth, stack')
    <3>1. /\ stack' \in Seq(Frames) /\ Len(stack') = n + 1 /\ stack'[n + 1] = FreeFrame(old)
          /\ \A i \in 1 .. n : stack'[i] = t[i]
      BY <2>8 DEF Pushed
    <3>2. \A i \in 1 .. Len(stack) - 1 : stack'[i] = stack[i]
      BY <1>3, <1>10, <3>1
    <3>3. \A i \in Len(stack) .. Len(stack') : i = n \/ i = n + 1
      BY <1>3, <3>1
    <3>4. \A i \in Len(stack) .. Len(stack') : stack'[i].kind # "leave"
      BY <1>2, <1>3, <1>8, <1>10, <2>7, <3>1, <3>3
    <3>5. Len(stack') >= Len(stack)
      BY <1>3, <3>1
    <3> QED
      BY <1>1, <3>1, <3>2, <3>4, <3>5, ReleaseCleared
  <2> QED
    BY <1>1, <1>4, <1>7, <2>1, <2>10, <2>11 DEF CountInv
<1>17. CASE old # NULL /\ rc[old] # 1
  <2>1. rc' = DecRef(rc, old) /\ stack' = t
    BY <1>7, <1>17
  <2>2. rc' \in [Objects -> Int] /\ \A p \in Objects : rc'[p] = rc[p] - (IF p = old THEN 1 ELSE 0)
    BY <1>14, <2>1
  <2>3. old \in Objects /\ rc[old] > 0 /\ rc[old] # 1 /\ rc[old] \in Int
    BY <1>3, <1>12, <1>17
  <2> HIDE DEF old
  <2>4. \A p \in Objects : p # NULL /\ p = old => rc'[p] > 0
    BY <2>2, <2>3
  <2>5. Good(alive, rc', slot, blocks, depth, t, NULL)
    BY <1>13, <2>2, <2>4
  <2>6. Cleared(slot, depth, t)
    <3>1. \A i \in Len(stack) .. Len(t) : t[i].kind # "leave"
      BY <1>2, <1>3, <1>8, <1>10
    <3> QED
      BY <1>1, <1>3, <1>10, <3>1, ReleaseCleared
  <2> QED
    BY <1>1, <1>4, <1>7, <2>1, <2>5, <2>6 DEF CountInv
<1> QED
  BY <1>7, <1>15, <1>16, <1>17

LEMMA FreeBlockCount ==
  ASSUME CountInv, FreeBlock
  PROVE  CountInv'
<1> DEFINE n == Len(stack)
           o == Top.obj
           own == {o} \X Fields
<1>1. /\ Running("free") /\ Top.n > NFields /\ rc' = DecRef(rc, o) /\ alive' = alive \ {o}
      /\ backref' = [backref EXCEPT ![o] = <<>>]
      /\ blocks' = blocks - 1 - Len(backref[o]) /\ stack' = Below /\ UNCHANGED depth
  BY DEF FreeBlock
<1>2. stack # <<>> /\ Top.kind = "free" /\ o \in Objects
  BY <1>1, ReleaseFacts
<1>3. /\ Good(alive, rc, slot, blocks, depth, stack, NULL)
      /\ n \in Nat \ {0} /\ n \in 1 .. n /\ Top = stack[n]
      /\ rc \in [Objects -> Int] /\ slot \in [Slots -> ObjectOrNull]
      /\ Popped(stack, n, Below)
  BY <1>2, TopFacts
<1>4. weak = {} /\ backref = [p \in Objects |-> <<>>] /\ depth \in Depths
      /\ Cleared(slot, depth, stack)
  BY DEF CountInv
<1>5. backref[o] = <<>> /\ Len(backref[o]) = 0 /\ DOMAIN backref[o] = {}
  BY <1>2, <1>4
<1>6. slot' = [s \in Slots |-> IF s \in own THEN NULL ELSE slot[s]] /\ weak' = {}
  <2>1. {backref[o][i] : i \in DOMAIN backref[o]} = {}
    BY <1>5
  <2>2. \A s \in Slots : (s \in {backref[o][i] : i \in DOMAIN backref[o]} \/ s \in own) <=> s \in own
    BY <2>1
  <2> DEFINE gone == {s \in Slots : s \in {backref[o][i] : i \in DOMAIN backref[o]}
                                    \/ s \in {o} \X Fields}
  <2>3. slot' = [s \in Slots |-> IF s \in gone THEN NULL ELSE slot[s]] /\ weak' = weak \ gone
    BY DEF FreeBlock
  <2>4. \A s \in Slots : s \in gone <=> s \in own
    BY <2>2
  <2> HIDE DEF gone, own
  <2> QED
    BY <1>4, <2>3, <2>4
<1>7. /\ backref' = [p \in Objects |-> <<>>] /\ blocks' = blocks - 1
  <2>1. Good(alive, rc, slot, blocks, depth, stack, NULL)
    BY <1>3
  <2>2. blocks \in Int
    BY <1>3, GoodFacts DEF Good
  <2> QED
    BY <1>1, <1>2, <1>4, <1>5, <2>2
<1>8. own \subseteq Slots
  BY <1>2 DEF FieldSlots, Slots
<1> HIDE DEF own
<1>9. /\ slot' \in [Slots -> ObjectOrNull]
      /\ \A s \in own : slot'[s] = NULL
      /\ \A s \in Slots : s \notin own => slot'[s] = slot[s]
  BY <1>3, <1>6, <1>8 DEF ObjectOrNull
<1>10. /\ rc' \in [Objects -> Int]
       /\ \A p \in Objects : p # o => rc'[p] = rc[p]
  <2>1. \A p \in Objects : rc'[p] = rc[p] - (IF p = o THEN 1 ELSE 0)
    BY <1>1, <1>3, RefsAt
  <2>2. \A p \in Objects : rc[p] \in Int
    BY <1>3
  <2>3. rc' \in [Objects -> Int]
    BY <1>1, <1>3, RefsAt
  <2> QED
    BY <2>1, <2>2, <2>3
<1>11. Good(alive \ {o}, rc', slot', blocks - 1, depth, Below, NULL)
  <2>1. /\ stack[n].kind = "free" /\ stack[n].n > NFields /\ o = stack[n].obj
    BY <1>1, <1>2, <1>3
  <2>2. /\ \A s \in {o} \X Fields : slot'[s] = NULL
        /\ \A s \in Slots : s \notin {o} \X Fields => slot'[s] = slot[s]
    BY <1>9 DEF own
  <2> HIDE DEF n, o
  <2> QED
    BY <1>3, <1>9, <1>10, <2>1, <2>2, PopFree
<1>12. Cleared(slot', depth, Below)
  <2>1. /\ Len(stack) \in Nat /\ Len(Below) \in Nat /\ n - 1 \in Nat
        /\ n - 1 <= Len(stack) /\ n - 1 <= Len(Below)
        /\ \A i \in 1 .. n - 1 : Below[i] = stack[i]
        /\ \A i \in (n - 1) + 1 .. Len(Below) : Below[i].kind = "leave" => Below[i].n = 1
        /\ n - 1 < Len(stack) => stack[(n - 1) + 1].kind # "assign"
    BY <1>2, <1>3 DEF Popped
  <2>2. \A x \in Slots : slot[x] = NULL => slot'[x] = NULL
    BY <1>9
  <2>3. ASSUME NEW e \in 1 .. MaxDepth, NEW v \in Vars, e > depth
        PROVE  slot'[<<e, v>>] = NULL
    <3>1. <<e, v>> \in Slots
      BY DEF VarSlots, Slots
    <3>2. slot[<<e, v>>] = NULL
      BY <1>4, <2>3 DEF Cleared
    <3> QED
      BY <2>2, <3>1, <3>2
  <2>4. ASSUME NEW i \in 1 .. n - 1, NEW v \in Vars,
               stack[i].kind = "leave" /\ slot[<<Level(stack, i), v>>] = NULL
        PROVE  slot'[<<Level(stack, i), v>>] = NULL
    <3>1. i \in 1 .. n /\ i \in Nat \ {0}
      BY <1>3
    <3>2. Level(stack, i) \in Nat /\ Level(stack, i) <= depth /\ Level(stack, i) # 0
      <4>1. i \in Activations(stack, i)
        BY <2>4, <3>1 DEF Activations, Activation
      <4>2. Level(stack, i) \in Nat /\ Level(stack, i) <= depth
        BY <1>3, <3>1, GoodFacts
      <4> QED
        BY <3>1, <4>1, <4>2, LevelType, FS_EmptySet DEF Level
    <3>3. depth \in Nat /\ depth <= MaxDepth
      BY <1>4, MemoryAssumption DEF Depths
    <3>4. <<Level(stack, i), v>> \in Slots
      BY <3>2, <3>3, MemoryAssumption DEF VarSlots, Slots
    <3> QED
      BY <2>2, <2>4, <3>4
  <2>5. Cleared(slot, depth, stack)
    BY <1>4
  <2>6. \A e \in 1 .. MaxDepth, v \in Vars : e > depth => slot'[<<e, v>>] = NULL
    BY <2>3
  <2>7. \A i \in 1 .. n - 1, v \in Vars :
          stack[i].kind = "leave" /\ slot[<<Level(stack, i), v>>] = NULL
            => slot'[<<Level(stack, i), v>>] = NULL
    BY <2>4
  <2> HIDE DEF n
  <2> QED
    BY <2>1, <2>5, <2>6, <2>7, ClearedStep
<1> QED
  BY <1>1, <1>4, <1>6, <1>7, <1>11, <1>12 DEF CountInv

-----------------------------------------------------------------------------
(* Every step keeps the invariant.                                         *)

LEMMA InitCount == Init => CountInv
<1> SUFFICES ASSUME Init PROVE CountInv
  OBVIOUS
<1>1. /\ alive = {} /\ rc = [o \in Objects |-> 0] /\ slot = [s \in Slots |-> NULL]
      /\ weak = {} /\ backref = [o \in Objects |-> <<>>]
      /\ blocks = 0 /\ depth = 0 /\ stack = <<>>
  BY DEF Init
<1>2. /\ depth \in Depths /\ stack \in Seq(Frames) /\ Len(stack) = 0
      /\ rc \in [Objects -> Int] /\ slot \in [Slots -> ObjectOrNull]
  BY <1>1, MemoryAssumption DEF Depths, ObjectOrNull
<1>3. StackOK(stack, depth) /\ Shape(stack)
  BY <1>1, <1>2, LevelEmpty DEF StackOK, Shape
<1>4. \A o \in Objects, f \in Fields : slot[<<o, f>>] = NULL
  <2>1. \A o \in Objects, f \in Fields : <<o, f>> \in Slots
    BY DEF FieldSlots, Slots
  <2> QED
    BY <1>1, <2>1
<1>5. Exact(alive, rc, slot, stack, NULL)
  <2>1. ASSUME NEW o \in Objects PROVE Count(slot, stack, o) = 0
    <3>1. \A x : x \notin HoldersIn(slot, stack, o) /\ x \notin FlightsIn(stack, o)
                 /\ x \notin FreesIn(stack, o)
      BY <1>1, <1>2, MemoryAssumption DEF HoldersIn, FlightsIn, FreesIn
    <3>2. /\ IsFiniteSet(HoldersIn(slot, stack, o)) /\ IsFiniteSet(FlightsIn(stack, o))
          /\ IsFiniteSet(FreesIn(stack, o))
      BY <1>2, RefsFinite
    <3>3. /\ Cardinality(HoldersIn(slot, stack, o)) = 0
          /\ Cardinality(FlightsIn(stack, o)) = 0
          /\ Cardinality(FreesIn(stack, o)) = 0
      BY <3>1, <3>2, CardSome
    <3> QED
      BY <3>3 DEF Count
  <2> QED
    BY <1>1, <2>1 DEF Exact
<1>6. blocks = Cardinality(alive) + depth
  BY <1>1, FS_EmptySet
<1>7. Good(alive, rc, slot, blocks, depth, stack, NULL)
  BY <1>1, <1>2, <1>3, <1>4, <1>5, <1>6 DEF Good
<1>8. Cleared(slot, depth, stack)
  <2>1. \A e \in 1 .. MaxDepth, v \in Vars : <<e, v>> \in Slots
    BY DEF VarSlots, Slots
  <2> QED
    BY <1>1, <1>2, <2>1 DEF Cleared
<1> QED
  BY <1>1, <1>2, <1>7, <1>8 DEF CountInv

LEMMA NextCount ==
  ASSUME WeakFields = {}, SelfContained = TRUE
  PROVE  CountInv /\ [Next]_vars => CountInv'
<1> SUFFICES ASSUME CountInv, [Next]_vars PROVE CountInv'
  OBVIOUS
<1>1. CASE UNCHANGED vars
  BY <1>1 DEF vars, CountInv
<1>2. CASE Program
  <2>1. ASSUME NEW v \in Vars, NEW w \in Vars, MoveObject(v, w) \/ CallSub(v, w) PROVE CountInv'
    BY <2>1, MoveCount, CallSubCount
  <2>2. ASSUME NEW v \in Vars, MoveUndef(v) PROVE CountInv'
    BY <2>2, MoveCount
  <2>3. ASSUME NEW v \in Vars, NEW o \in Objects, NewObject(v, o) PROVE CountInv'
    BY <2>3, NewObjectCount
  <2>4. ASSUME NEW v \in Vars, NEW w \in Vars, NEW f \in Fields, GetField(v, w, f) PROVE CountInv'
    BY <2>4, GetFieldCount
  <2>5. ASSUME NEW w \in Vars, NEW f \in Fields, NEW new \in ObjectOrNull, SetField(w, f, new)
        PROVE  CountInv'
    BY <2>5, SetFieldCount
  <2>6. ASSUME NEW v \in Vars, NEW g \in Globals, GetPackageVar(v, g) PROVE CountInv'
    <3>1. NULL \in ObjectOrNull
      BY DEF ObjectOrNull
    <3> QED
      BY <2>6, <3>1, PackageCount
  <2>7. ASSUME NEW g \in Globals, NEW new \in ObjectOrNull, SetPackageVar(g, new) PROVE CountInv'
    <3>1. 1 \in Vars
      BY MemoryAssumption DEF Vars
    <3> QED
      BY <2>7, <3>1, PackageCount
  <2>8. ASSUME NEW w \in Vars, NEW f \in Fields, WeakenField(w, f) \/ UnweakenField(w, f)
        PROVE  CountInv'
    <3>1. weak = {}
      BY DEF CountInv
    <3> QED
      BY <2>8, <3>1 DEF WeakenField, UnweakenField
  <2>9. ASSUME NEW new \in ObjectOrNull, Return(new) PROVE CountInv'
    BY <2>9, ReturnCount
  <2>10. ASSUME Croak PROVE CountInv'
    BY <2>10, CroakCount
  <2>11. ASSUME CallFromHost PROVE CountInv'
    BY <2>11, CallFromHostCount
  <2> QED
    BY <1>2, <2>1, <2>2, <2>3, <2>4, <2>5, <2>6, <2>7, <2>8, <2>9, <2>10, <2>11 DEF Program
<1>3. CASE Runtime
  BY <1>3, LeaveScopeCount, EndSubCount, AssignWriteCount, FreeDestroyCount, FreeFieldCount,
     FreeBlockCount DEF Runtime
<1> QED
  BY <1>1, <1>2, <1>3 DEF Next

(* The inductive invariant: counts are exact, and what a release has       *)
(* passed is known to nobody but the destructors it called.                *)
THEOREM CountsInvariant ==
  ASSUME WeakFields = {}, SelfContained = TRUE
  PROVE  Spec => []CountInv
<1>1. CountInv /\ [Next]_vars => CountInv'
  BY NextCount
<1> QED
  BY <1>1, InitCount, PTL DEF Spec

-----------------------------------------------------------------------------
(* What the invariant implies.                                             *)

LEMMA SameRefs ==
  ASSUME CountInv, NEW o
  PROVE  /\ Holders(o) = HoldersIn(slot, stack, o)
         /\ InFlight(o) = FlightsIn(stack, o)
         /\ Freeing(o) = FreesIn(stack, o)
<1>1. weak = {} /\ stack \in Seq(Frames)
  BY GoodFacts DEF CountInv
<1>2. DOMAIN stack = 1 .. Len(stack)
  BY <1>1
<1>3. \A s : Released(s) <=> Gone(stack, s)
  BY <1>2 DEF Released, Gone
<1>4. Holders(o) = HoldersIn(slot, stack, o)
  BY <1>1, <1>3 DEF Holders, HoldersIn
<1> QED
  BY <1>2, <1>4 DEF InFlight, FlightsIn, Freeing, FreesIn

(* The reference count kept by OBJECT_ASSIGN, CALL_SUB, RETURN and         *)
(* dec_ref_count is the number of references there are, at every step of   *)
(* every release, whatever the destructors do with their own objects.      *)
THEOREM CountsExact ==
  ASSUME WeakFields = {}, SelfContained = TRUE
  PROVE  Spec => []RefCountExact
<1>1. CountInv => RefCountExact
  <2> SUFFICES ASSUME CountInv, NEW o \in Objects
               PROVE  RefsTo(o) = IF o \in alive THEN rc[o] ELSE 0
    BY DEF RefCountExact
  <2>1. RefsTo(o) = Count(slot, stack, o)
    BY SameRefs DEF RefsTo, Count
  <2>2. Exact(alive, rc, slot, stack, NULL)
    BY DEF CountInv, Good
  <2> QED
    BY <2>1, <2>2 DEF Exact
<1> QED
  BY <1>1, CountsInvariant, PTL

(* An object that is allocated still has a reference whose release will    *)
(* free it.                                                                *)
THEOREM NothingLost ==
  ASSUME WeakFields = {}, SelfContained = TRUE
  PROVE  Spec => []NoLostObject
<1>1. CountInv => NoLostObject
  <2> SUFFICES ASSUME CountInv, NEW o \in alive PROVE rc[o] > 0
    BY DEF NoLostObject
  <2>1. Exact(alive, rc, slot, stack, NULL) /\ alive \subseteq Objects
    BY DEF CountInv, Good
  <2>2. o \in Objects /\ o # NULL
    BY <2>1, MemoryAssumption
  <2> QED
    BY <2>1, <2>2 DEF Exact
<1> QED
  BY <1>1, CountsInvariant, PTL

(* dec_ref_count is never entered again for an object it is releasing, so  *)
(* no object is destroyed twice.                                           *)
THEOREM NoReentry ==
  ASSUME WeakFields = {}, SelfContained = TRUE
  PROVE  Spec => []NoReentrantFree
<1>1. CountInv => NoReentrantFree
  <2> SUFFICES ASSUME CountInv, NEW o \in Objects PROVE Cardinality(Freeing(o)) <= 1
    BY DEF NoReentrantFree
  <2>1. Freeing(o) = FreesIn(stack, o)
    BY SameRefs
  <2>2. Shape(stack) /\ Len(stack) \in Nat
    BY GoodFacts DEF CountInv
  <2>3. \A i, j \in FreesIn(stack, o) : i = j
    BY <2>2 DEF Shape, FreesIn
  <2>4. IsFiniteSet(FreesIn(stack, o))
    BY <2>2, RefsFinite
  <2>5. CASE FreesIn(stack, o) = {}
    BY <2>1, <2>5, FS_EmptySet
  <2>6. CASE FreesIn(stack, o) # {}
    <3>1. PICK i \in FreesIn(stack, o) : TRUE
      BY <2>6
    <3>2. FreesIn(stack, o) = {i}
      BY <2>3, <3>1
    <3>3. Cardinality({i}) = 1
      BY FS_Singleton
    <3> QED
      BY <2>1, <3>2, <3>3
  <2> QED
    BY <2>5, <2>6
<1> QED
  BY <1>1, CountsInvariant, PTL

(* memory_blocks_count counts the live objects and the activations: it is  *)
(* zero again exactly when nothing is left, which is what every test of    *)
(* the repository compares.                                                *)
THEOREM BlocksCounted ==
  ASSUME WeakFields = {}, SelfContained = TRUE
  PROVE  Spec => []BlocksExact
<1>1. CountInv => BlocksExact
  <2> SUFFICES ASSUME CountInv PROVE BlocksExact
    OBVIOUS
  <2> DEFINE listed == {p \in Objects \X (1 .. MaxBackrefs) : p[2] <= Len(backref[p[1]])}
  <2>1. /\ blocks = Cardinality(alive) + depth /\ depth \in Nat /\ Cardinality(alive) \in Nat
        /\ backref = [o \in Objects |-> <<>>]
    BY GoodFacts DEF CountInv, Good
  <2>2. listed = {}
    <3>1. ASSUME NEW p \in Objects \X (1 .. MaxBackrefs), p[2] <= Len(backref[p[1]]) PROVE FALSE
      <4>1. p[1] \in Objects /\ p[2] \in 1 .. MaxBackrefs
        OBVIOUS
      <4>2. Len(backref[p[1]]) = 0
        BY <2>1, <4>1
      <4> QED
        BY <3>1, <4>1, <4>2
    <3> QED
      BY <3>1
  <2>3. Cardinality(listed) = 0
    BY <2>2, FS_EmptySet
  <2> HIDE DEF listed
  <2>4. blocks = Cardinality(alive) + depth + Cardinality(listed)
    BY <2>1, <2>3
  <2> QED
    BY <2>4 DEF BlocksExact, listed
<1> QED
  BY <1>1, CountsInvariant, PTL

(* The assertion at the entry of dec_ref_count and its check after DESTROY *)
(* never fail without weak references: an object under release is          *)
(* allocated and its count is positive until its block is freed.           *)
THEOREM DestructorsPass ==
  ASSUME WeakFields = {}, SelfContained = TRUE
  PROVE  Spec => []DestructorCheck
<1>1. CountInv => DestructorCheck
  <2> SUFFICES ASSUME CountInv, Running("free") PROVE Top.obj \in alive /\ rc[Top.obj] > 0
    BY DEF DestructorCheck
  <2>1. Top.obj \in alive /\ Top.obj \in Objects /\ Top.obj # NULL
    BY ReleaseFacts
  <2>2. Exact(alive, rc, slot, stack, NULL)
    BY DEF CountInv, Good
  <2> QED
    BY <2>1, <2>2 DEF Exact
<1> QED
  BY <1>1, CountsInvariant, PTL
=============================================================================
