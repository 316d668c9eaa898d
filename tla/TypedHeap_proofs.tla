------------------------- MODULE TypedHeap_proofs -------------------------
(***************************************************************************)
(* Type soundness of TypedHeap for every set of packages, variables and    *)
(* types.  The invariant Sound is HeapTyped with what makes it inductive:  *)
(* no dangling reference, and objects only of types that exist at run      *)
(* time.  An accepted assignment goes up (ConformsUp), an element of an    *)
(* object has the element type of its variable (ElementUp, ElementDown).   *)
(***************************************************************************)
EXTENDS TypedHeap, TLAPS

(* The types objects have.                                                 *)
ObjectType(t) == t \in Types /\ t.basic # "string" /\ (t.dimension = 0 => IsClass(t))

(* A reference into h, and one that the type t of its place promises.      *)
Good(h, o)    == o = Undef \/ (o \in Ids /\ h[o] # Free)
Fits(h, o, t) == Good(h, o) /\ (o = Undef \/ TypeConforms(h[o].type, t))

ObjectSound(h, i) ==
  /\ ObjectType(h[i].type)
  /\ DOMAIN h[i].cells = DOMAIN CellTypes(h[i].type)
  /\ \A c \in DOMAIN h[i].cells : Fits(h, h[i].cells[c], CellTypes(h[i].type)[c])

VarsSound(vs, h)    == \A v \in Vars : Fits(h, vs[v], types[v])
GlobalsSound(gs, h) == \A g \in DOMAIN PackageVars : Fits(h, gs[g], PackageVars[g])
ObjectsSound(h)     == DOMAIN h = Ids /\ \A i \in Ids : h[i] # Free => ObjectSound(h, i)
Sound(vs, gs, h)    == VarsSound(vs, h) /\ GlobalsSound(gs, h) /\ ObjectsSound(h)

Shape ==
  /\ build \in Builds /\ types \in [Vars -> VarTypes] /\ raised \in BOOLEAN
  /\ vars \in [Vars -> Ids \cup {Undef}]
  /\ globals \in [DOMAIN PackageVars -> Ids \cup {Undef}]

Inv == Shape /\ Sound(vars, globals, heap)

-----------------------------------------------------------------------------
(* Types.                                                                  *)

LEMMA TypeIsT ==
  ASSUME NEW t \in Types
  PROVE  /\ t = T(t.basic, t.dimension) /\ t.basic \in Names /\ t.dimension \in Nat
         /\ t # UndefType
BY DEF Types, T, UndefType

LEMMA TFields ==
  ASSUME NEW b, NEW d
  PROVE  T(b, d).basic = b /\ T(b, d).dimension = d
BY DEF T

LEMMA ByteArrays ==
  ASSUME NEW d \in Nat
  PROVE  T("byte", d) \in Types
<1>1. "byte" \in Names
  BY DEF Names, BasicNames, NumericIds
<1>2. T("byte", d) # UndefType
  <2>1. UndefType.basic = "undef"
    BY TFields DEF UndefType
  <2> QED BY <2>1, TFields
<1> QED BY <1>1, <1>2 DEF Types, T

(* No type with the name of a basic type is one of a package.              *)
LEMMA NotPackage ==
  ASSUME NEW t, t.basic \in BasicNames
  PROVE  ~IsPackage(t) /\ ~IsClass(t) /\ ~IsInterface(t) /\ ~IsValue(t)
BY TypesAssumption DEF IsPackage, IsClass, IsInterface, IsValue, IsCategory

LEMMA SpecialNotPackage ==
  /\ \A d : ~IsInterface(T("string", d)) /\ ~IsInterface(T("byte", d))
            /\ ~IsValue(T("string", d)) /\ ~IsValue(T("byte", d))
            /\ ~IsClass(T("none", d)) /\ ~IsClass(T("undef", d))
  /\ ~IsInterface(AnyObject) /\ ~IsInterface(Oarray) /\ ~IsClass(AnyObject)
  /\ ~IsClass(Oarray) /\ ~IsClass(String)
<1>1. {"byte", "string", "object", "oarray", "undef", "none"} \subseteq BasicNames
  BY DEF BasicNames, NumericIds
<1>2. \A b \in {"byte", "string", "object", "oarray", "undef", "none"} : \A d :
        ~IsClass(T(b, d)) /\ ~IsInterface(T(b, d)) /\ ~IsValue(T(b, d))
  BY <1>1, NotPackage, TFields
<1> QED BY <1>2 DEF AnyObject, Oarray, String

(* A type of package dimension is not an array.                            *)
LEMMA Dimensions ==
  ASSUME NEW t
  PROVE  /\ IsInterface(t) \/ IsClass(t) \/ IsValue(t) => t.dimension = 0 /\ t.basic \in DOMAIN Packages
         /\ IsObjectArray(t) => t = Oarray \/ (t.dimension > 0 /\ IsObject(T(t.basic, t.dimension - 1)))
         /\ ~(IsInterface(t) /\ IsClass(t))
BY DEF IsInterface, IsClass, IsValue, IsCategory, IsPackage, IsObjectArray, IsArray

LEMMA NamesDiffer ==
  /\ AnyObject # Oarray /\ AnyObject # String /\ Oarray # String
  /\ AnyObject # ByteArray /\ Oarray # ByteArray /\ String # ByteArray
<1>1. AnyObject.basic = "object" /\ Oarray.basic = "oarray" /\ String.basic = "string"
      /\ ByteArray.basic = "byte"
  BY TFields DEF AnyObject, Oarray, String, ByteArray
<1> QED BY <1>1

LEMMA ObjectTypeNotSpecial ==
  ASSUME NEW t, ObjectType(t)
  PROVE  t # AnyObject /\ t # Oarray /\ t # T("none", 0)
<1>1. AnyObject.dimension = 0 /\ Oarray.dimension = 0 /\ T("none", 0).dimension = 0
  BY TFields DEF AnyObject, Oarray
<1> QED BY <1>1, SpecialNotPackage DEF ObjectType

LEMMA NotFree ==
  ASSUME NEW ob, ObjectType(ob.type)
  PROVE  ob # Free
<1>1. Free.type = T("none", 0)
  BY DEF Free
<1> QED BY <1>1, ObjectTypeNotSpecial

(* Strings are arrays of byte.                                             *)
RT(t) == IF t.basic = "string" THEN T("byte", t.dimension + 1) ELSE t

(* What conforms to a type that is neither an interface nor object.        *)
LEMMA Exact ==
  ASSUME NEW ot, NEW t, TypeConforms(ot, t), t # AnyObject, t # Oarray, ~IsInterface(t)
  PROVE  ot = RT(t)
BY DEF TypeConforms, RT

LEMMA ExactConforms ==
  ASSUME NEW t
  PROVE  TypeConforms(RT(t), t)
BY DEF TypeConforms, RT

LEMMA InterfaceSub ==
  ASSUME NEW p, NEW i \in DOMAIN Packages, NEW j,
         IsInterface(T(i, 0)), HasInterface(p, i), HasInterface(i, j)
  PROVE  HasInterface(p, j)
<1>1. Packages[i].category = "interface"
  BY TFields DEF IsInterface, IsCategory
<1>2. PICK m \in Packages[i].methods : Packages[i].methods = {m}
  BY <1>1, TypesAssumption
<1>3. ~Packages[i].anon
  BY <1>1, TypesAssumption
<1>4. InterfaceMethod(i) = m
  BY <1>2 DEF InterfaceMethod
<1>5. InterfaceMethod(j) = m
  BY <1>2, <1>3 DEF HasInterface
<1> QED BY <1>4, <1>5 DEF HasInterface

LEMMA ArraysOfObjects ==
  ASSUME NEW ot, ObjectType(ot), NEW t \in Types, TypeConforms(ot, t), IsObjectArray(t)
  PROVE  IsObjectArray(ot) /\ ot.dimension > 0
<1>1. ~IsInterface(t) /\ t # AnyObject
  <2>1. t = Oarray \/ t.dimension > 0
    BY Dimensions
  <2> QED BY <2>1, Dimensions, SpecialNotPackage, NamesDiffer, TFields DEF AnyObject
<1>2. IsObjectArray(ot)
  <2>1. CASE t = Oarray
    BY <2>1, <1>1, SpecialNotPackage, TFields DEF TypeConforms, Oarray
  <2>2. CASE t # Oarray
    <3>1. ot = RT(t)
      BY <2>2, <1>1, Exact
    <3>2. CASE t.basic = "string"
      <4>1. ot = T("byte", t.dimension + 1)
        BY <3>1, <3>2 DEF RT
      <4>2. t.dimension \in Nat /\ t.dimension > 0
        BY <2>2, Dimensions, TypeIsT
      <4>3. IsArray(T("byte", t.dimension)) /\ IsObject(T("byte", t.dimension))
        BY <4>2, TFields, SpecialNotPackage DEF IsArray, IsObject
      <4> QED BY <4>1, <4>2, <4>3, TFields DEF IsObjectArray, IsArray
    <3>3. CASE t.basic # "string"
      BY <3>1, <3>3 DEF RT
    <3> QED BY <3>2, <3>3
  <2> QED BY <2>1, <2>2
<1> QED BY <1>2, Dimensions, ObjectTypeNotSpecial

(***************************************************************************)
(* What the checker lets a variable take as it is conforms to its type.    *)
(***************************************************************************)
LEMMA ConformsUp ==
  ASSUME NEW dist \in Types, NEW src \in Types, Assignable(dist, src),
         NEW ot, ObjectType(ot), TypeConforms(ot, src)
  PROVE  TypeConforms(ot, dist)
<1>1. src # UndefType
  BY TypeIsT
<1>2. CASE dist = src
  BY <1>2
<1>3. CASE dist = AnyObject
  BY <1>3 DEF TypeConforms
<1>4. CASE dist = Oarray /\ IsObjectArray(src)
  BY <1>4, ArraysOfObjects DEF TypeConforms
<1>5. CASE dist = String /\ src \in {String, ByteArray}
  <2>1. src = ByteArray => ot = ByteArray
    <3>1. ByteArray.basic = "byte"
      BY TFields DEF ByteArray
    <3> QED BY <3>1, Exact, SpecialNotPackage, NamesDiffer DEF ByteArray, RT
  <2>2. RT(String) = ByteArray
    BY TFields DEF RT, String, ByteArray
  <2> QED BY <1>5, <2>1, <2>2, ExactConforms
<1>6. CASE AssignableToPackage(dist, src)
  <2>1. CASE IsClass(dist) /\ dist = src
    BY <2>1
  <2>2. CASE /\ IsInterface(dist) /\ (IsClass(src) \/ IsInterface(src))
             /\ HasInterface(src.basic, dist.basic)
    <3>1. src # AnyObject /\ src # Oarray
      BY <2>2, SpecialNotPackage
    <3>2. CASE IsClass(src)
      <4>1. src.basic # "string"
        BY <3>2, Dimensions, TypesAssumption DEF BasicNames
      <4>2. ot = src
        BY <3>1, <3>2, <4>1, Dimensions, Exact DEF RT
      <4> QED BY <4>2, <2>2, Dimensions DEF TypeConforms
    <3>3. CASE IsInterface(src)
      <4>1. src.basic # "string" /\ src.basic \in DOMAIN Packages /\ src = T(src.basic, 0)
        BY <3>3, Dimensions, TypesAssumption, TypeIsT DEF BasicNames
      <4>2. \/ ot.dimension = 0 /\ HasInterface(ot.basic, src.basic)
            \/ ot = src
        BY <3>1, <3>3, <4>1 DEF TypeConforms
      <4>3. ot # src
        BY <3>3, Dimensions DEF ObjectType
      <4>4. HasInterface(ot.basic, dist.basic)
        BY <4>1, <4>2, <4>3, <3>3, <2>2, InterfaceSub
      <4> QED BY <2>2, <4>2, <4>3, <4>4 DEF TypeConforms
    <3> QED BY <2>2, <3>2, <3>3
  <2> QED BY <1>6, <2>1, <2>2 DEF AssignableToPackage
<1> QED BY <1>1, <1>2, <1>3, <1>4, <1>5, <1>6 DEF Assignable

(* The elements of what an array variable of type t holds conform to the   *)
(* element type of t, and what conforms to that may be an element.         *)
LEMMA Elements ==
  ASSUME NEW ot, ObjectType(ot), NEW t \in Types, TypeConforms(ot, t), IsObjectArray(t),
         NEW e, ObjectType(e)
  PROVE  /\ CellTypes(ot) = <<ElementType(ot)>>
         /\ TypeConforms(e, ElementType(ot)) => TypeConforms(e, ElementType(t))
         /\ t # Oarray /\ TypeConforms(e, ElementType(t)) => TypeConforms(e, ElementType(ot))
<1>1. IsObjectArray(ot) /\ ot.dimension > 0 /\ ot.dimension \in Nat
  BY ArraysOfObjects, TypeIsT DEF ObjectType
<1>2. CellTypes(ot) = <<ElementType(ot)>>
  BY <1>1 DEF CellTypes
<1>3. t # String
  BY Dimensions, NamesDiffer, TFields DEF String
<1>4. CASE t = Oarray
  <2>1. ElementType(t) = AnyObject
    BY <1>3, <1>4 DEF ElementType
  <2> QED BY <1>2, <1>4, <2>1 DEF TypeConforms
<1>5. CASE t # Oarray
  <2>1. t.dimension > 0 /\ t.dimension \in Nat
    BY <1>5, Dimensions, TypeIsT
  <2>2. t # AnyObject /\ ~IsInterface(t)
    BY <2>1, Dimensions, TFields DEF AnyObject
  <2>3. ot = RT(t)
    BY <1>5, <2>2, Exact
  <2>4. ElementType(t) = T(t.basic, t.dimension - 1)
    BY <1>3, <1>5 DEF ElementType
  <2>5. CASE t.basic # "string"
    BY <1>2, <2>3, <2>5 DEF RT
  <2>6. CASE t.basic = "string"
    <3>1. ot = T("byte", t.dimension + 1)
      BY <2>3, <2>6 DEF RT
    <3>2. ot # String /\ ot # Oarray
      <4>1. String.dimension = 0 /\ Oarray.dimension = 0
        BY TFields DEF String, Oarray
      <4> QED BY <1>1, <4>1
    <3>3. ElementType(ot) = T("byte", t.dimension)
      <4>1. ot.basic = "byte" /\ ot.dimension - 1 = t.dimension
        BY <2>1, <3>1, TFields
      <4> QED BY <4>1, <3>2 DEF ElementType
    <3>4. RT(T("string", t.dimension - 1)) = T("byte", t.dimension)
      BY <2>1, TFields DEF RT
    <3>5. RT(T("byte", t.dimension)) = T("byte", t.dimension)
      BY TFields DEF RT
    <3>6. \A d : T("string", d) # AnyObject /\ T("string", d) # Oarray
                 /\ T("byte", d) # AnyObject /\ T("byte", d) # Oarray
      <4>1. AnyObject.basic = "object" /\ Oarray.basic = "oarray"
        BY TFields DEF AnyObject, Oarray
      <4> QED BY <4>1, TFields
    <3>7. TypeConforms(e, T("byte", t.dimension)) <=> e = T("byte", t.dimension)
      BY <3>5, <3>6, SpecialNotPackage, Exact, ExactConforms
    <3>8. TypeConforms(e, T("string", t.dimension - 1)) <=> e = T("byte", t.dimension)
      BY <3>4, <3>6, SpecialNotPackage, Exact, ExactConforms
    <3> QED BY <1>2, <2>4, <2>6, <3>3, <3>7, <3>8
  <2> QED BY <2>5, <2>6
<1> QED BY <1>4, <1>5

-----------------------------------------------------------------------------
(* Heaps.                                                                  *)

(* A heap with the objects of h, of the same types, and perhaps more.      *)
Keeps(h, k) ==
  \A i \in Ids : h[i] # Free => k[i] # Free /\ k[i].type = h[i].type

LEMMA FitsKept ==
  ASSUME NEW h, NEW k, Keeps(h, k), NEW o, NEW t, Fits(h, o, t)
  PROVE  Fits(k, o, t)
BY DEF Keeps, Fits, Good

(***************************************************************************)
(* Put keeps what is reached, and nothing that is kept refers to what is   *)
(* not.                                                                    *)
(***************************************************************************)
LEMMA PutSound ==
  ASSUME NEW vs \in [Vars -> Ids \cup {Undef}],
         NEW gs \in [DOMAIN PackageVars -> Ids \cup {Undef}],
         NEW h, Sound(vs, gs, h), Put(vs, gs, h)
  PROVE  /\ vars' \in [Vars -> Ids \cup {Undef}]
         /\ globals' \in [DOMAIN PackageVars -> Ids \cup {Undef}]
         /\ Sound(vars', globals', heap')
<1> DEFINE live == Reached(h, Roots(vs, gs))
           full == {i \in Ids : h[i] # Free}
<1>1. /\ vars' = vs /\ globals' = gs
      /\ heap' = [i \in Ids |-> IF i \in live THEN h[i] ELSE Free]
  BY DEF Put
<1>2. Undef \notin Ids
  BY DEF Undef, Ids
<1>3. Roots(vs, gs) \subseteq full
  BY DEF Roots, Sound, VarsSound, GlobalsSound, Fits, Good
<1>4. Closed(h, full)
  BY DEF Closed, Refers, Sound, ObjectsSound, ObjectSound, Fits, Good
<1>5. full \subseteq Ids
  OBVIOUS
<1>6. Roots(vs, gs) \subseteq live
  BY <1>3, <1>5 DEF Reached
<1>7. live \subseteq full
  BY <1>3, <1>4, <1>5, Zenon DEF Reached
<1>8. \A i \in live : Refers(h, i) \subseteq live
  <2> SUFFICES ASSUME NEW i \in live, NEW j \in Refers(h, i), NEW S \in SUBSET Ids,
                      Roots(vs, gs) \subseteq S, Closed(h, S)
               PROVE  j \in Ids /\ j \in S
    <3>1. \A i \in live : Refers(h, i) \subseteq Ids
      BY <1>4, <1>7 DEF Closed
    <3> QED BY <3>1 DEF Reached
  <2>1. i \in S
    BY DEF Reached
  <2> QED BY <2>1 DEF Closed
<1> HIDE DEF live
<1>9. \A o, t : Fits(h, o, t) /\ (o # Undef => o \in live) => Fits(heap', o, t)
  BY <1>1, <1>7 DEF Fits, Good
<1>10. VarsSound(vs, heap')
  BY <1>6, <1>9 DEF Sound, VarsSound, Roots
<1>11. GlobalsSound(gs, heap')
  BY <1>6, <1>9 DEF Sound, GlobalsSound, Roots
<1>12. ASSUME NEW i \in Ids, heap'[i] # Free
       PROVE  ObjectSound(heap', i)
  <2>1. i \in live /\ heap'[i] = h[i] /\ ObjectSound(h, i)
    BY <1>1, <1>12, <1>7 DEF Sound, ObjectsSound
  <2>2. ASSUME NEW c \in DOMAIN h[i].cells
        PROVE  Fits(heap', h[i].cells[c], CellTypes(h[i].type)[c])
    <3>1. h[i].cells[c] # Undef => h[i].cells[c] \in live
      BY <1>8, <2>1 DEF Refers
    <3> QED BY <1>9, <2>1, <3>1 DEF ObjectSound
  <2> QED BY <2>1, <2>2 DEF ObjectSound
<1> QED BY <1>1, <1>10, <1>11, <1>12 DEF Sound, ObjectsSound

(* An object of a type that exists, in a free place.                       *)
LEMMA CreateSound ==
  ASSUME NEW vs, NEW gs, NEW h, Sound(vs, gs, h),
         NEW r \in Ids, h[r] = Free, NEW t, ObjectType(t)
  PROVE  /\ Sound(vs, gs, [h EXCEPT ![r] = NewObject(t)])
         /\ Fits([h EXCEPT ![r] = NewObject(t)], r, t)
<1> DEFINE k == [h EXCEPT ![r] = NewObject(t)]
<1>1. k[r] = NewObject(t) /\ DOMAIN k = Ids /\ \A i \in Ids \ {r} : k[i] = h[i]
  BY DEF Sound, ObjectsSound
<1>2. /\ NewObject(t).type = t
      /\ NewObject(t).cells = [i \in DOMAIN CellTypes(t) |-> Undef]
      /\ NewObject(t) # Free
  <2>1. NewObject(t).type = t /\ NewObject(t).cells = [i \in DOMAIN CellTypes(t) |-> Undef]
    BY DEF NewObject
  <2> QED BY <2>1, NotFree
<1> HIDE DEF k
<1>3. Keeps(h, k)
  BY <1>1 DEF Keeps
<1>4. VarsSound(vs, k) /\ GlobalsSound(gs, k)
  BY <1>3, FitsKept DEF Sound, VarsSound, GlobalsSound
<1>5. ASSUME NEW i \in Ids, k[i] # Free
      PROVE  ObjectSound(k, i)
  <2>1. CASE i = r
    BY <1>1, <1>2, <2>1 DEF ObjectSound, Fits, Good
  <2>2. CASE i # r
    BY <1>1, <1>3, <1>5, <2>2, FitsKept DEF Sound, ObjectsSound, ObjectSound
  <2> QED BY <2>1, <2>2
<1>6. TypeConforms(t, t)
  BY ExactConforms DEF RT, ObjectType
<1>7. Fits(k, r, t)
  BY <1>1, <1>2, <1>6 DEF Fits, Good
<1> QED BY <1>1, <1>4, <1>5, <1>7 DEF Sound, ObjectsSound, k

(* A cell takes what fits its type.                                        *)
LEMMA CellSound ==
  ASSUME NEW vs, NEW gs, NEW h, Sound(vs, gs, h),
         NEW o \in Ids, h[o] # Free, NEW c \in DOMAIN h[o].cells,
         NEW v, Fits(h, v, CellTypes(h[o].type)[c])
  PROVE  Sound(vs, gs, [h EXCEPT ![o] = [type |-> h[o].type,
                                          cells |-> [h[o].cells EXCEPT ![c] = v]]])
<1> DEFINE object == [type |-> h[o].type, cells |-> [h[o].cells EXCEPT ![c] = v]]
           k == [h EXCEPT ![o] = object]
<1>1. k[o] = object /\ DOMAIN k = Ids /\ \A i \in Ids \ {o} : k[i] = h[i]
  BY DEF Sound, ObjectsSound
<1>2. /\ object.type = h[o].type
      /\ DOMAIN object.cells = DOMAIN h[o].cells
      /\ object.cells[c] = v
      /\ \A d \in DOMAIN h[o].cells \ {c} : object.cells[d] = h[o].cells[d]
  OBVIOUS
<1>3. ObjectSound(h, o)
  BY DEF Sound, ObjectsSound
<1>4. object # Free
  BY <1>2, <1>3, NotFree DEF ObjectSound
<1> HIDE DEF k, object
<1>5. Keeps(h, k)
  BY <1>1, <1>2, <1>4 DEF Keeps
<1>6. VarsSound(vs, k) /\ GlobalsSound(gs, k)
  BY <1>5, FitsKept DEF Sound, VarsSound, GlobalsSound
<1>7. ASSUME NEW i \in Ids, k[i] # Free
      PROVE  ObjectSound(k, i)
  <2>1. CASE i = o
    <3>1. ASSUME NEW d \in DOMAIN object.cells
          PROVE  Fits(h, object.cells[d], CellTypes(object.type)[d])
      BY <1>2, <1>3 DEF ObjectSound
    <3> QED BY <1>1, <1>2, <1>3, <1>5, <2>1, <3>1, FitsKept DEF ObjectSound
  <2>2. CASE i # o
    BY <1>1, <1>5, <1>7, <2>2, FitsKept DEF Sound, ObjectsSound, ObjectSound
  <2> QED BY <2>1, <2>2
<1> QED BY <1>1, <1>6, <1>7 DEF Sound, ObjectsSound, k, object

-----------------------------------------------------------------------------
(* Statements.                                                             *)

(* The declared types of everything.                                       *)
LEMMA DeclaredTypes ==
  ASSUME Inv
  PROVE  /\ \A v \in Vars : types[v] \in Types /\ types[v] \in VarTypes
         /\ \A g \in DOMAIN PackageVars : PackageVars[g] \in Types
         /\ CastTypes \subseteq Types /\ NewTypes \subseteq Types
BY TypesAssumption DEF Inv, Shape

LEMMA ObjectsHaveTypes ==
  ASSUME NEW h, ObjectsSound(h), NEW o, Good(h, o), o # Undef
  PROVE  o \in Ids /\ ObjectSound(h, o) /\ ObjectType(h[o].type)
BY DEF ObjectsSound, ObjectSound, Good

LEMMA FitsUp ==
  ASSUME NEW h, ObjectsSound(h), NEW dist \in Types, NEW src \in Types,
         Assignable(dist, src), NEW o, Fits(h, o, src)
  PROVE  Fits(h, o, dist)
<1>1. CASE o = Undef
  BY <1>1 DEF Fits, Good
<1>2. CASE o # Undef
  <2>1. Good(h, o) /\ TypeConforms(h[o].type, src) /\ ObjectType(h[o].type)
    BY <1>2, ObjectsHaveTypes DEF Fits
  <2>2. TypeConforms(h[o].type, dist)
    BY <2>1, ConformsUp
  <2> QED BY <2>1, <2>2 DEF Fits
<1> QED BY <1>1, <1>2

LEMMA PutInv ==
  ASSUME Inv, Program, raised' \in BOOLEAN,
         NEW vs \in [Vars -> Ids \cup {Undef}],
         NEW gs \in [DOMAIN PackageVars -> Ids \cup {Undef}],
         NEW h, Sound(vs, gs, h), Put(vs, gs, h)
  PROVE  Inv'
<1>1. /\ vars' \in [Vars -> Ids \cup {Undef}]
      /\ globals' \in [DOMAIN PackageVars -> Ids \cup {Undef}]
      /\ Sound(vars', globals', heap')
  BY PutSound
<1>2. types' = types /\ build' = build
  BY DEF Program
<1>3. Shape'
  BY <1>1, <1>2 DEF Inv, Shape
<1>4. Sound(vars, globals, heap)'
  BY <1>1, <1>2 DEF Sound, VarsSound, GlobalsSound, ObjectsSound, ObjectSound, Fits, Good
<1> QED BY <1>3, <1>4 DEF Inv

LEMMA DoNothingInv ==
  ASSUME Inv, Program, NEW r \in BOOLEAN, DoNothing(r)
  PROVE  Inv'
BY DEF Inv, Shape, Program, DoNothing, Sound, VarsSound, GlobalsSound, ObjectsSound,
       ObjectSound, Fits, Good

LEMMA FitsId ==
  ASSUME NEW h, NEW o, NEW t, Fits(h, o, t)
  PROVE  o \in Ids \cup {Undef}
BY DEF Fits, Good

LEMMA SetVarInv ==
  ASSUME Inv, Program, NEW x \in Vars, NEW o, Fits(heap, o, types[x]), SetVar(x, o)
  PROVE  Inv'
<1> DEFINE vs == [vars EXCEPT ![x] = o]
<1>1. vs \in [Vars -> Ids \cup {Undef}] /\ globals \in [DOMAIN PackageVars -> Ids \cup {Undef}]
  BY FitsId DEF Inv, Shape
<1>2. Sound(vs, globals, heap)
  BY DEF Inv, Shape, Sound, VarsSound
<1>3. raised' \in BOOLEAN /\ Put(vs, globals, heap)
  BY DEF SetVar
<1> QED BY <1>1, <1>2, <1>3, PutInv

LEMMA CellInv ==
  ASSUME Inv, Program, NEW o \in Ids, heap[o] # Free, NEW c \in DOMAIN heap[o].cells,
         NEW v, Fits(heap, v, CellTypes(heap[o].type)[c]), SetCell(o, c, v)
  PROVE  Inv'
<1> DEFINE h == [heap EXCEPT ![o] = [type |-> heap[o].type,
                                     cells |-> [heap[o].cells EXCEPT ![c] = v]]]
<1>1. Sound(vars, globals, h)
  BY CellSound DEF Inv
<1>2. raised' \in BOOLEAN /\ Put(vars, globals, h)
  BY DEF SetCell
<1> HIDE DEF h
<1> QED BY <1>1, <1>2, PutInv DEF Inv, Shape

LEMMA CreateInv ==
  ASSUME Inv, Program, NEW x \in Vars, NEW t, ObjectType(t), TypeConforms(t, types[x]),
         Create(x, t)
  PROVE  Inv'
<1> DEFINE h  == [heap EXCEPT ![Room] = NewObject(t)]
           vs == [vars EXCEPT ![x] = Room]
<1>1. Room \in Ids /\ heap[Room] = Free
  <2>1. Room \in Rooms
    BY DEF Create, Room
  <2> QED BY <2>1 DEF Rooms
<1>2. Sound(vars, globals, h) /\ Fits(h, Room, t)
  BY <1>1, CreateSound DEF Inv
<1>3. h[Room].type = t
  BY <1>1 DEF NewObject, Inv, Sound, ObjectsSound
<1>4. raised' \in BOOLEAN /\ Put(vs, globals, h)
  BY DEF Create
<1> HIDE DEF h
<1>5. Fits(h, Room, types[x])
  BY <1>1, <1>2, <1>3 DEF Fits
<1>6. Sound(vs, globals, h)
  BY <1>2, <1>5 DEF Sound, VarsSound, Inv, Shape
<1>7. vs \in [Vars -> Ids \cup {Undef}] /\ globals \in [DOMAIN PackageVars -> Ids \cup {Undef}]
  BY <1>1 DEF Inv, Shape
<1> QED BY <1>4, <1>6, <1>7, PutInv

LEMMA MoveInv ==
  ASSUME Inv, NEW x \in Vars, NEW y \in Vars, Move(x, y)
  PROVE  Inv'
<1>1. Fits(heap, vars[y], types[x])
  BY FitsUp, DeclaredTypes DEF Move, Inv, Sound, VarsSound
<1> QED BY <1>1, SetVarInv DEF Move

LEMMA MoveUndefInv ==
  ASSUME Inv, NEW x \in Vars, MoveUndef(x)
  PROVE  Inv'
<1>1. Fits(heap, Undef, types[x])
  BY DEF Fits, Good
<1> QED BY <1>1, SetVarInv DEF MoveUndef

(* What a conversion assigns is of the type converted to.                  *)
LEMMA ConvertFits ==
  ASSUME NEW t \in Types, NEW src \in Types, ~IsNumeric(src), ObjectsSound(heap),
         NEW o, Fits(heap, o, src),
         Convert(ConvertOpcode(t, src), o).does = "assign"
  PROVE  Fits(heap, Convert(ConvertOpcode(t, src), o).value, t)
<1> DEFINE op == ConvertOpcode(t, src)
           r  == Convert(op, o)
<1>1. op.id \in {"MOVE_OBJECT", "CHECK_OBJECT_TYPE", "CHECK_INTERFACE", "CONVERT_FROM_OBJECT"}
  BY DEF Convert, Keep
<1>2. CASE op.id = "MOVE_OBJECT"
  <2>1. r.value = o
    BY <1>2 DEF Convert, Value
  <2>2. \/ src \in {ByteArray, String} /\ t \in {ByteArray, String, AnyObject}
        \/ t = AnyObject
    BY <1>2 DEF ConvertOpcode, BytesConvertOpcode, ObjectConvertOpcode, Opcode
  <2>3. CASE t = AnyObject
    BY <2>1, <2>3 DEF Fits, TypeConforms
  <2>4. CASE src \in {ByteArray, String} /\ t \in {ByteArray, String}
    <3>1. RT(ByteArray) = ByteArray /\ RT(String) = ByteArray
      BY TFields DEF RT, ByteArray, String
    <3>2. \A ot : TypeConforms(ot, src) => ot = ByteArray
      BY <2>4, <3>1, Exact, NamesDiffer, SpecialNotPackage DEF ByteArray, String
    <3>3. TypeConforms(ByteArray, t)
      BY <2>4, <3>1, ExactConforms
    <3> QED BY <2>1, <3>2, <3>3 DEF Fits
  <2> QED BY <2>2, <2>3, <2>4
<1>3. CASE op.id = "CHECK_OBJECT_TYPE"
  <2>1. op.type = RuntimeType(t)
    BY <1>3 DEF ConvertOpcode, BytesConvertOpcode, ObjectConvertOpcode, Opcode
  <2>2. r = VmCheckObjectType(op.type, o)
    BY <1>3 DEF Convert, Run, PrecompiledCheckObjectType
  <2>3. r.value = o /\ TypeOf(o) = RuntimeType(t)
    BY <2>1, <2>2 DEF VmCheckObjectType, Keep, Raise, Value
  <2>4. RuntimeType(t) = RT(t)
    BY DEF RuntimeType, RT
  <2> QED BY <2>3, <2>4, ExactConforms DEF Fits, TypeOf
<1>4. CASE op.id = "CHECK_INTERFACE"
  <2>1. op.type = t /\ IsInterface(t)
    BY <1>4 DEF ConvertOpcode, BytesConvertOpcode, ObjectConvertOpcode, Opcode
  <2>2. r = VmCheckInterface(op.type, o)
    BY <1>4 DEF Convert, Run, PrecompiledCheckInterface
  <2>3. r.value = o /\ VmHasInterface(o, t.basic)
    BY <2>1, <2>2 DEF VmCheckInterface, Keep, Raise, Value
  <2> QED BY <2>1, <2>3 DEF Fits, TypeConforms, VmHasInterface, TypeOf
<1>5. CASE op.id = "CONVERT_FROM_OBJECT"
  <2>1. r = VmFromObject(op.type, o)
    BY <1>5 DEF Convert, Run, PrecompiledFromObject
  <2> QED BY <2>1 DEF VmFromObject, Keep, Raise
<1> QED BY <1>1, <1>2, <1>3, <1>4, <1>5

LEMMA CastInv ==
  ASSUME Inv, NEW x \in Vars, NEW y \in Vars, NEW t \in CastTypes, Cast(x, t, y)
  PROVE  Inv'
<1> DEFINE r == Convert(ConvertOpcode(t, types[y]), vars[y])
<1>1. /\ types[x] \in Types /\ types[y] \in Types /\ t \in Types
      /\ Fits(heap, vars[y], types[y]) /\ ObjectsSound(heap)
  BY DeclaredTypes DEF Inv, Sound, VarsSound
<1>2. Program /\ Converts(x, t, y) /\ ~IsNumeric(types[y])
  BY DEF Cast
<1>3. CASE r.does = "assign" /\ SetVar(x, r.value)
  <2>1. Fits(heap, r.value, t)
    BY <1>1, <1>2, <1>3, ConvertFits
  <2>2. Fits(heap, r.value, types[x])
    BY <1>1, <1>2, <2>1, FitsUp DEF Converts
  <2> QED BY <1>2, <1>3, <2>2, SetVarInv
<1>4. CASE DoNothing(FALSE) \/ DoNothing(TRUE)
  BY <1>2, <1>4, DoNothingInv
<1> QED BY <1>3, <1>4 DEF Cast

(* The object a number is put in.                                          *)
LEMMA BoxType ==
  ASSUME NEW t \in Types, NEW src \in VarTypes, IsNumeric(src),
         ConvertOpcode(t, src).id \in {"CONVERT_TO_OBJECT", "CONVERT_TO_STRING"}
  PROVE  /\ ObjectType(VmToObjectType(ConvertOpcode(t, src)))
         /\ TypeConforms(VmToObjectType(ConvertOpcode(t, src)), t)
<1> DEFINE op == ConvertOpcode(t, src)
           box == T(Boxes[src.basic], 0)
<1>1. op = NumberConvertOpcode(t, src)
  BY DEF ConvertOpcode
<1>2. IsClass(box) /\ ObjectType(box)
  <2>1. IsClass(box)
    BY TypesAssumption
  <2>2. box.basic = Boxes[src.basic] /\ box.dimension = 0
    BY TFields
  <2>3. box.basic \in DOMAIN Packages
    BY <2>1, Dimensions
  <2>4. box.basic # "string" /\ box # UndefType
    BY <2>3, <2>2, TypesAssumption, TFields DEF BasicNames, UndefType
  <2>5. box \in [basic : Names, dimension : Nat]
    BY <2>2, <2>3 DEF T, Names
  <2> QED BY <2>1, <2>4, <2>5 DEF ObjectType, Types
<1>3. CASE op.id = "CONVERT_TO_OBJECT"
  <2>1. \/ op.type = t /\ IsNumericObject(t) /\ Boxed(src, t)
        \/ t = AnyObject /\ op.type = box
    BY <1>1, <1>3 DEF NumberConvertOpcode, Opcode
  <2>2. VmToObjectType(op) = box
    <3>1. op.type.basic = Boxes[src.basic]
      BY <2>1, TFields DEF Boxed
    <3> QED BY <1>3, <3>1 DEF VmToObjectType
  <2>3. t = box \/ t = AnyObject
    BY <2>1, TypeIsT DEF IsNumericObject, Boxed
  <2>4. TypeConforms(box, t)
    BY <1>2, <2>3, ExactConforms DEF TypeConforms, RT, ObjectType
  <2> QED BY <1>2, <2>2, <2>4
<1>4. CASE op.id = "CONVERT_TO_STRING"
  <2>1. t = String
    BY <1>1, <1>4 DEF NumberConvertOpcode, Opcode
  <2>2. VmToObjectType(op) = ByteArray
    BY <1>4 DEF VmToObjectType
  <2>3. RT(String) = ByteArray
    BY TFields DEF RT, ByteArray, String
  <2>4. ObjectType(ByteArray)
    BY ByteArrays, TFields DEF ObjectType, ByteArray
  <2> QED BY <2>1, <2>2, <2>3, <2>4, ExactConforms
<1> QED BY <1>3, <1>4

LEMMA BoxInv ==
  ASSUME Inv, NEW x \in Vars, NEW y \in Vars, NEW t \in CastTypes, Box(x, t, y)
  PROVE  Inv'
<1> DEFINE new == VmToObjectType(ConvertOpcode(t, types[y]))
<1>1. types[x] \in Types /\ types[y] \in VarTypes /\ t \in Types
  BY DeclaredTypes
<1>2. Program /\ Converts(x, t, y) /\ Create(x, new)
  BY DEF Box, Run, PrecompiledToObjectType
<1>3. ObjectType(new) /\ TypeConforms(new, t)
  BY <1>1, BoxType DEF Box
<1>4. TypeConforms(new, types[x])
  <2> HIDE DEF new
  <2> QED BY <1>1, <1>2, <1>3, ConformsUp DEF Converts
<1> QED BY <1>2, <1>3, <1>4, CreateInv

(* A new object has the run time type of what the program writes.          *)
LEMMA NewTypeIs ==
  ASSUME NEW t \in NewTypes, NewAllowed(t)
  PROVE  VmNewType(NewOpcode(t)) = RuntimeType(t) /\ ObjectType(RuntimeType(t))
<1> DEFINE r == RuntimeType(t)
<1>1. t \in Types /\ t # Oarray
  BY TypesAssumption
<1>2. t.dimension \in Nat /\ t = T(t.basic, t.dimension) /\ t.basic \in Names
  BY <1>1, TypeIsT
<1>3. t.dimension > 0 \/ (t.dimension = 0 /\ IsClass(t))
  BY <1>1, Dimensions DEF NewAllowed, IsArray
<1>4. ObjectType(r) /\ r = T(r.basic, r.dimension) /\ r.dimension \in Nat
  <2>1. CASE t.basic = "string"
    <3>1. r = T("byte", t.dimension + 1)
      BY <2>1 DEF RuntimeType
    <3>2. r \in Types
      BY <1>2, <3>1, ByteArrays
    <3> QED BY <1>2, <3>1, <3>2, TFields DEF ObjectType
  <2>2. CASE t.basic # "string"
    BY <1>1, <1>2, <1>3, <2>2 DEF RuntimeType, ObjectType
  <2> QED BY <2>1, <2>2
<1> HIDE DEF r
<1>5. CASE r.dimension = 0
  BY <1>4, <1>5, TFields DEF VmNewType, NewOpcode, Opcode, r
<1>6. CASE r.dimension > 1
  BY <1>4, <1>6, TFields DEF VmNewType, NewOpcode, Opcode, r
<1>7. CASE r.dimension = 1
  BY <1>4, <1>7, TFields DEF VmNewType, NewOpcode, Opcode, r
<1>8. r.dimension = 0 \/ r.dimension = 1 \/ r.dimension > 1
  BY <1>4
<1> QED BY <1>4, <1>5, <1>6, <1>7, <1>8 DEF r

LEMMA NewInv ==
  ASSUME Inv, NEW x \in Vars, NEW t \in NewTypes, New(x, t)
  PROVE  Inv'
<1> DEFINE new == RuntimeType(t)
<1>1. types[x] \in Types /\ t \in Types
  BY DeclaredTypes
<1>2. Program /\ NewAllowed(t) /\ Assignable(types[x], t)
  BY DEF New
<1>3. Create(x, new) /\ ObjectType(new)
  BY <1>2, NewTypeIs DEF New, Run, PrecompiledNewType
<1>4. TypeConforms(new, t)
  BY ExactConforms DEF RT, RuntimeType
<1>5. TypeConforms(new, types[x])
  <2> HIDE DEF new
  <2> QED BY <1>1, <1>2, <1>3, <1>4, ConformsUp
<1> QED BY <1>2, <1>3, <1>5, CreateInv

LEMMA UndefNotObject == ~IsObject(UndefType)
<1>1. UndefType.basic = "undef" /\ UndefType.dimension = 0 /\ "undef" \in BasicNames
  BY TFields DEF UndefType, BasicNames
<1>2. Oarray.basic = "oarray" /\ String.basic = "string" /\ AnyObject.basic = "object"
  BY TFields DEF Oarray, String, AnyObject
<1> QED BY <1>1, <1>2, NotPackage DEF IsObject, IsArray

LEMMA ElementIsType ==
  ASSUME NEW t \in Types, IsObjectArray(t)
  PROVE  ElementType(t) \in Types
<1>1. t # String
  <2>1. String # Oarray /\ String.dimension = 0
    BY NamesDiffer, TFields DEF String
  <2> QED BY <2>1, Dimensions
<1>2. CASE t = Oarray
  <2>1. AnyObject.basic = "object" /\ UndefType.basic = "undef" /\ "object" \in Names
    BY TFields DEF AnyObject, UndefType, Names, BasicNames
  <2>2. AnyObject \in Types
    BY <2>1 DEF Types, AnyObject, T
  <2> QED BY <1>1, <1>2, <2>2 DEF ElementType
<1>3. CASE t # Oarray
  <2>1. /\ ElementType(t) = T(t.basic, t.dimension - 1) /\ IsObject(ElementType(t))
        /\ t.basic \in Names /\ t.dimension - 1 \in Nat
    BY <1>1, <1>3, Dimensions, TypeIsT DEF ElementType
  <2> QED BY <2>1, UndefNotObject DEF Types, T
<1> QED BY <1>2, <1>3

(* What an array variable holds: an object whose one cell is the element.  *)
LEMMA ArrayElement ==
  ASSUME Inv, NEW a \in Vars, IsObjectArray(types[a]), vars[a] # Undef
  PROVE  /\ vars[a] \in Ids /\ heap[vars[a]] # Free
         /\ ObjectSound(heap, vars[a]) /\ ObjectType(heap[vars[a]].type)
         /\ TypeConforms(heap[vars[a]].type, types[a])
         /\ types[a] \in Types
         /\ IsObjectArray(heap[vars[a]].type) /\ heap[vars[a]].type.dimension > 0
         /\ 1 \in DOMAIN heap[vars[a]].cells
         /\ CellTypes(heap[vars[a]].type)[1] = ElementType(heap[vars[a]].type)
         /\ ElementType(heap[vars[a]].type) \in Types
<1>1. Fits(heap, vars[a], types[a]) /\ ObjectsSound(heap) /\ types[a] \in Types
  BY DeclaredTypes DEF Inv, Sound, VarsSound
<1>2. /\ vars[a] \in Ids /\ heap[vars[a]] # Free
      /\ ObjectSound(heap, vars[a]) /\ ObjectType(heap[vars[a]].type)
      /\ TypeConforms(heap[vars[a]].type, types[a])
  BY <1>1, ObjectsHaveTypes DEF Fits, Good
<1> DEFINE ot == heap[vars[a]].type
<1>3. IsObjectArray(ot) /\ ot.dimension > 0
  BY <1>1, <1>2, ArraysOfObjects
<1>4. ot \in Types /\ ot.basic # "string" /\ ot # Oarray
  BY <1>2, ObjectTypeNotSpecial DEF ObjectType
<1>5. CellTypes(ot) = <<ElementType(ot)>>
  BY <1>3, <1>4 DEF CellTypes
<1>6. ElementType(ot) \in Types
  BY <1>3, <1>4, ElementIsType
<1> QED BY <1>1, <1>2, <1>3, <1>5, <1>6 DEF ObjectSound

LEMMA FetchInv ==
  ASSUME Inv, NEW x \in Vars, NEW a \in Vars, NEW inside \in BOOLEAN, Fetch(x, a, inside)
  PROVE  Inv'
<1> DEFINE r == VmFetch(vars[a], inside)
<1>1. /\ Program /\ IsObjectArray(types[a])
      /\ Assignable(types[x], ElementType(types[a]))
      /\ IF r.does = "raise" THEN DoNothing(TRUE) ELSE SetVar(x, r.value)
  BY DEF Fetch, Run, PrecompiledFetch
<1>2. CASE r.does = "raise"
  BY <1>1, <1>2, DoNothingInv
<1>3. CASE r.does # "raise"
  <2>1. vars[a] # Undef /\ r.value = heap[vars[a]].cells[1]
    BY <1>3 DEF VmFetch, Raise, Value
  <2> DEFINE e == heap[vars[a]].cells[1]
             ot == heap[vars[a]].type
  <2>2. Fits(heap, e, ElementType(ot)) /\ ObjectsSound(heap)
    BY <1>1, <2>1, ArrayElement DEF ObjectSound, Inv, Sound
  <2>3. Fits(heap, e, ElementType(types[a]))
    <3>1. CASE e = Undef
      BY <3>1 DEF Fits, Good
    <3>2. CASE e # Undef
      <4>1. ObjectType(heap[e].type) /\ TypeConforms(heap[e].type, ElementType(ot)) /\ Good(heap, e)
        BY <2>2, <3>2, ObjectsHaveTypes DEF Fits
      <4>2. TypeConforms(heap[e].type, ElementType(types[a]))
        BY <1>1, <2>1, <4>1, ArrayElement, Elements
      <4> QED BY <4>1, <4>2 DEF Fits
    <3> QED BY <3>1, <3>2
  <2>4. Fits(heap, e, types[x])
    <3>1. ElementType(types[a]) \in Types
      BY <1>1, DeclaredTypes, ElementIsType
    <3> QED BY <1>1, <2>2, <2>3, <3>1, FitsUp, DeclaredTypes
  <2> QED BY <1>1, <1>3, <2>1, <2>4, SetVarInv
<1> QED BY <1>2, <1>3

(* A store: src is undef or what fits the declared type src.               *)
LEMMA StoreInv ==
  ASSUME Inv, NEW a \in Vars, NEW inside \in BOOLEAN, NEW src, NEW o,
         \/ src = UndefType /\ o = Undef
         \/ src \in Types /\ Fits(heap, o, src),
         Store(a, inside, src, o)
  PROVE  Inv'
<1> DEFINE op == StoreOpcode(types[a], src)
           r  == VmStore(op, vars[a], inside, o)
<1>1. /\ Program /\ IsObjectArray(types[a])
      /\ Assignable(ElementType(types[a]), src) /\ op # "none"
      /\ IF r.does = "raise" THEN DoNothing(TRUE) ELSE SetCell(vars[a], 1, r.value)
  BY DEF Store, Run, PrecompiledStore, PrecompiledElementFits, VmStore
<1>2. CASE r.does = "raise"
  BY <1>1, <1>2, DoNothingInv
<1>3. CASE r.does # "raise"
  <2> DEFINE ot == heap[vars[a]].type
  <2>1. /\ vars[a] # Undef /\ r.value = o
        /\ op = "ARRAY_STORE_OBJECT_CHECK_TYPE" => VmElementFits(vars[a], o)
    BY <1>3 DEF VmStore, Raise, Value
  <2>2. Fits(heap, o, ElementType(ot))
    <3>1. CASE o = Undef
      BY <3>1 DEF Fits, Good
    <3>2. CASE o # Undef
      <4>1. /\ src \in Types /\ Good(heap, o) /\ TypeConforms(heap[o].type, src)
            /\ ObjectType(heap[o].type) /\ src # UndefType
        BY <3>2, ObjectsHaveTypes, TypeIsT DEF Fits, Inv, Sound
      <4>2. CASE types[a] = Oarray
        <5>1. VmElementFits(vars[a], o)
          BY <2>1, <4>1, <4>2 DEF StoreOpcode
        <5>2. /\ ot.basic = heap[o].type.basic /\ ot.dimension = heap[o].type.dimension + 1
              /\ heap[o].type.dimension \in Nat /\ heap[o].type.basic # "string"
              /\ heap[o].type = T(heap[o].type.basic, heap[o].type.dimension)
          BY <3>2, <4>1, <5>1, TypeIsT DEF VmElementFits, TypeOf, ObjectType
        <5>3. ElementType(ot) = heap[o].type
          <6>1. ot # Oarray /\ ot # String
            <7>1. String.dimension = 0 /\ Oarray.dimension = 0
              BY TFields DEF String, Oarray
            <7> QED BY <5>2, <7>1
          <6>2. ElementType(ot) = T(heap[o].type.basic, heap[o].type.dimension)
            BY <5>2, <6>1 DEF ElementType
          <6> QED BY <5>2, <6>2
        <5>4. RT(heap[o].type) = heap[o].type
          BY <5>2 DEF RT
        <5> QED BY <4>1, <5>3, <5>4, ExactConforms DEF Fits
      <4>3. CASE types[a] # Oarray
        <5>1. ElementType(types[a]) \in Types
          BY <1>1, <4>3, DeclaredTypes, ElementIsType
        <5>2. TypeConforms(heap[o].type, ElementType(types[a]))
          BY <1>1, <4>1, <5>1, ConformsUp
        <5>3. TypeConforms(heap[o].type, ElementType(ot))
          BY <1>1, <2>1, <4>1, <4>3, <5>2, ArrayElement, Elements
        <5> QED BY <4>1, <5>3 DEF Fits
      <4> QED BY <4>2, <4>3
    <3> QED BY <3>1, <3>2
  <2> QED BY <1>1, <1>3, <2>1, <2>2, ArrayElement, CellInv
<1> QED BY <1>2, <1>3

(* What a variable of a class holds is an object of that class.            *)
LEMMA ClassObject ==
  ASSUME Inv, NEW y \in Vars, NEW f, HasField(types[y], f), vars[y] # Undef
  PROVE  /\ vars[y] \in Ids /\ heap[vars[y]] # Free /\ ObjectSound(heap, vars[y])
         /\ CellTypes(heap[vars[y]].type)[f] = FieldType(types[y], f)
         /\ f \in DOMAIN heap[vars[y]].cells
<1>1. Fits(heap, vars[y], types[y]) /\ ObjectsSound(heap)
  BY DEF Inv, Sound, VarsSound
<1>2. /\ vars[y] \in Ids /\ heap[vars[y]] # Free /\ ObjectSound(heap, vars[y])
      /\ TypeConforms(heap[vars[y]].type, types[y])
  BY <1>1, ObjectsHaveTypes DEF Fits, Good
<1>3. /\ IsClass(types[y]) /\ f \in DOMAIN Packages[types[y].basic].fields
      /\ types[y].dimension = 0 /\ types[y].basic \in DOMAIN Packages
  BY Dimensions DEF HasField
<1>4. heap[vars[y]].type = types[y]
  <2>1. types[y] # AnyObject /\ types[y] # Oarray /\ ~IsInterface(types[y])
    BY <1>3, SpecialNotPackage, Dimensions
  <2>2. types[y].basic # "string"
    BY <1>3, TypesAssumption DEF BasicNames
  <2> QED BY <1>2, <2>1, <2>2, Exact DEF RT
<1>5. CellTypes(types[y]) = Packages[types[y].basic].fields
  BY <1>3 DEF CellTypes
<1> QED BY <1>2, <1>3, <1>4, <1>5 DEF ObjectSound, FieldType

LEMMA FieldTypes ==
  ASSUME NEW t, NEW f, HasField(t, f)
  PROVE  FieldType(t, f) \in Types
BY TypesAssumption, Dimensions DEF HasField, FieldType

LEMMA GetFieldInv ==
  ASSUME Inv, NEW x \in Vars, NEW y \in Vars, NEW f, GetField(x, y, f)
  PROVE  Inv'
<1> DEFINE r == VmGetField(vars[y], f)
<1>1. /\ Program /\ HasField(types[y], f) /\ Assignable(types[x], FieldType(types[y], f))
      /\ IF r.does = "raise" THEN DoNothing(TRUE) ELSE SetVar(x, r.value)
  BY DEF GetField, Run, PrecompiledGetField
<1>2. CASE r.does = "raise"
  BY <1>1, <1>2, DoNothingInv
<1>3. CASE r.does # "raise"
  <2>1. vars[y] # Undef /\ r.value = heap[vars[y]].cells[f]
    BY <1>3 DEF VmGetField, Raise, Value
  <2>2. Fits(heap, r.value, FieldType(types[y], f))
    BY <1>1, <2>1, ClassObject DEF ObjectSound
  <2>3. Fits(heap, r.value, types[x])
    BY <1>1, <2>2, FitsUp, FieldTypes, DeclaredTypes DEF Inv, Sound
  <2> QED BY <1>1, <1>3, <2>3, SetVarInv
<1> QED BY <1>2, <1>3

LEMMA SetFieldInv ==
  ASSUME Inv, NEW x \in Vars, NEW y \in Vars, NEW f, SetField(x, f, y)
  PROVE  Inv'
<1> DEFINE r == VmSetField(vars[x], f, vars[y])
<1>1. /\ Program /\ HasField(types[x], f) /\ Assignable(FieldType(types[x], f), types[y])
      /\ IF r.does = "raise" THEN DoNothing(TRUE) ELSE SetCell(vars[x], f, r.value)
  BY DEF SetField, Run, PrecompiledSetField
<1>2. CASE r.does = "raise"
  BY <1>1, <1>2, DoNothingInv
<1>3. CASE r.does # "raise"
  <2>1. vars[x] # Undef /\ r.value = vars[y]
    BY <1>3 DEF VmSetField, Raise, Value
  <2>2. Fits(heap, vars[y], FieldType(types[x], f))
    BY <1>1, FitsUp, FieldTypes, DeclaredTypes DEF Inv, Sound, VarsSound
  <2> QED BY <1>1, <1>3, <2>1, <2>2, ClassObject, CellInv
<1> QED BY <1>2, <1>3

LEMMA GetPackageVarInv ==
  ASSUME Inv, NEW x \in Vars, NEW g, GetPackageVar(x, g)
  PROVE  Inv'
<1>1. Fits(heap, globals[g], types[x])
  BY FitsUp, DeclaredTypes DEF GetPackageVar, Inv, Sound, GlobalsSound
<1> QED BY <1>1, SetVarInv DEF GetPackageVar

LEMMA SetPackageVarInv ==
  ASSUME Inv, NEW y \in Vars, NEW g, SetPackageVar(g, y)
  PROVE  Inv'
<1> DEFINE gs == [globals EXCEPT ![g] = vars[y]]
<1>1. /\ g \in DOMAIN PackageVars /\ Program /\ raised' \in BOOLEAN /\ Put(vars, gs, heap)
      /\ Assignable(PackageVars[g], types[y])
  BY DEF SetPackageVar
<1>2. Fits(heap, vars[y], PackageVars[g])
  BY <1>1, FitsUp, DeclaredTypes DEF Inv, Sound, VarsSound
<1>3. gs \in [DOMAIN PackageVars -> Ids \cup {Undef}]
  BY <1>2, FitsId DEF Inv, Shape
<1>4. Sound(vars, gs, heap)
  BY <1>1, <1>2 DEF Inv, Shape, Sound, GlobalsSound
<1> QED BY <1>1, <1>3, <1>4, PutInv DEF Inv, Shape

-----------------------------------------------------------------------------
(* The theorems.                                                           *)

LEMMA InitInv == Init => Inv
<1> SUFFICES ASSUME Init PROVE Inv
  OBVIOUS
<1>1. Shape
  BY DEF Init, Shape
<1>2. VarsSound(vars, heap) /\ GlobalsSound(globals, heap) /\ ObjectsSound(heap)
  BY DEF Init, VarsSound, GlobalsSound, ObjectsSound, Fits, Good
<1> QED BY <1>1, <1>2 DEF Inv, Sound

LEMMA NextInv == Inv /\ [Next]_state => Inv'
<1> SUFFICES ASSUME Inv, [Next]_state PROVE Inv'
  OBVIOUS
<1>1. CASE UNCHANGED state
  BY <1>1 DEF state, Inv, Shape, Sound, VarsSound, GlobalsSound, ObjectsSound,
              ObjectSound, Fits, Good
<1>2. ASSUME NEW x \in Vars, MoveUndef(x) PROVE Inv'
  BY <1>2, MoveUndefInv
<1>3. ASSUME NEW x \in Vars, NEW t \in NewTypes, New(x, t) PROVE Inv'
  BY <1>3, NewInv
<1>4. ASSUME NEW x \in Vars, NEW i \in BOOLEAN, StoreUndef(x, i) PROVE Inv'
  BY <1>4, StoreInv DEF StoreUndef
<1>5. ASSUME NEW x \in Vars, NEW g, GetPackageVar(x, g) \/ SetPackageVar(g, x) PROVE Inv'
  BY <1>5, GetPackageVarInv, SetPackageVarInv
<1>6. ASSUME NEW x \in Vars, NEW y \in Vars, Move(x, y) PROVE Inv'
  BY <1>6, MoveInv
<1>7. ASSUME NEW x \in Vars, NEW y \in Vars, NEW t \in CastTypes, Cast(x, t, y) \/ Box(x, t, y)
      PROVE  Inv'
  BY <1>7, CastInv, BoxInv
<1>8. ASSUME NEW x \in Vars, NEW y \in Vars, NEW i \in BOOLEAN, Fetch(x, y, i) PROVE Inv'
  BY <1>8, FetchInv
<1>9. ASSUME NEW x \in Vars, NEW y \in Vars, NEW i \in BOOLEAN, StoreVar(x, i, y) PROVE Inv'
  <2>1. types[y] \in Types /\ Fits(heap, vars[y], types[y])
    BY DeclaredTypes DEF Inv, Sound, VarsSound
  <2> QED BY <1>9, <2>1, StoreInv DEF StoreVar
<1>10. ASSUME NEW x \in Vars, NEW y \in Vars, NEW f, GetField(x, y, f) \/ SetField(x, f, y)
       PROVE  Inv'
  BY <1>10, GetFieldInv, SetFieldInv
<1> QED
  BY <1>1, <1>2, <1>3, <1>4, <1>5, <1>6, <1>7, <1>8, <1>9, <1>10 DEF Next

(* Sound is invariant: everything else follows from it.                    *)
THEOREM Soundness == Spec => []Inv
BY InitInv, NextInv, PTL DEF Spec

(***************************************************************************)
(* The heap keeps its shape: no reference dangles, cells are those of the  *)
(* type, no object has a type only the compiler knows.                     *)
(***************************************************************************)
THEOREM TypeCorrect == Spec => []TypeOK
<1>1. Inv => TypeOK
  <2> SUFFICES ASSUME Inv PROVE TypeOK
    OBVIOUS
  <2>1. ASSUME NEW i \in Ids, heap[i] # Free
        PROVE  /\ heap[i].type.basic # "string" /\ heap[i].type \notin {AnyObject, Oarray}
               /\ DOMAIN heap[i].cells = DOMAIN CellTypes(heap[i].type)
               /\ \A j \in Refers(heap, i) : j \in Ids /\ heap[j] # Free
    <3>1. ObjectSound(heap, i)
      BY <2>1 DEF Inv, Sound, ObjectsSound
    <3>2. \A j \in Refers(heap, i) : j \in Ids /\ heap[j] # Free
      BY <3>1 DEF ObjectSound, Refers, Fits, Good
    <3> QED BY <3>1, <3>2, ObjectTypeNotSpecial DEF ObjectSound, ObjectType
  <2> QED BY <2>1 DEF TypeOK, Inv, Shape
<1> QED BY <1>1, Soundness, PTL

(***************************************************************************)
(* Type soundness: every variable, package variable, element and field     *)
(* holds undef or an object of its declared type, for every hierarchy of   *)
(* packages and after any statements the checker accepts.                  *)
(***************************************************************************)
THEOREM TypeSound == Spec => []HeapTyped
<1>1. Inv => HeapTyped
  BY DEF Inv, Sound, VarsSound, GlobalsSound, ObjectsSound, ObjectSound, Fits, Conforms,
         TypeOf, HeapTyped
<1> QED BY <1>1, Soundness, PTL

(***************************************************************************)
(* A call through an interface finds exactly one subroutine, and it has    *)
(* the signature of the interface.                                         *)
(***************************************************************************)
THEOREM MethodsFound == Spec => []MethodFound
<1>1. Inv => MethodFound
  <2> SUFFICES ASSUME Inv, NEW v \in Vars, IsInterface(types[v]), vars[v] # Undef
               PROVE  \E m \in Packages[TypeOf(vars[v]).basic].methods :
                        /\ MethodSub(vars[v], types[v].basic) = {m}
                        /\ m.signature = InterfaceMethod(types[v].basic).signature
    BY DEF MethodFound
  <2> DEFINE ot == heap[vars[v]].type
             im == InterfaceMethod(types[v].basic)
  <2>1. ObjectType(ot) /\ TypeConforms(ot, types[v])
    <3>1. Fits(heap, vars[v], types[v]) /\ ObjectsSound(heap)
      BY DEF Inv, Sound, VarsSound
    <3> QED BY <3>1, ObjectsHaveTypes DEF Fits
  <2>2. ot.dimension = 0 /\ HasInterface(ot.basic, types[v].basic)
    <3>1. types[v] # AnyObject /\ types[v] # Oarray
      BY SpecialNotPackage
    <3>2. types[v].dimension = 0 /\ types[v].basic # "string"
      BY Dimensions, TypesAssumption DEF BasicNames
    <3>3. ot # types[v]
      BY <2>1, <3>2, Dimensions DEF ObjectType
    <3> QED BY <2>1, <3>1, <3>2, <3>3 DEF TypeConforms
  <2>3. ot.basic \in DOMAIN Packages
    BY <2>1, <2>2, Dimensions DEF ObjectType
  <2>4. CASE Packages[ot.basic].anon
    <3>1. PICK m \in Packages[ot.basic].methods : Packages[ot.basic].methods = {m}
      BY <2>3, <2>4, TypesAssumption
    <3>2. m.signature = im.signature
      BY <2>2, <2>4, <3>1 DEF HasInterface
    <3>3. MethodSub(vars[v], types[v].basic) = {m}
      BY <2>4, <3>1, <3>2 DEF MethodSub, TypeOf
    <3> QED BY <3>2, <3>3 DEF TypeOf
  <2>5. CASE ~Packages[ot.basic].anon
    <3>1. im \in Packages[ot.basic].methods
      BY <2>2, <2>5 DEF HasInterface
    <3>2. MethodSub(vars[v], types[v].basic) = {im}
      BY <2>5, <3>1 DEF MethodSub, TypeOf
    <3> QED BY <3>1, <3>2 DEF TypeOf
  <2> QED BY <2>4, <2>5
<1> QED BY <1>1, Soundness, PTL

(***************************************************************************)
(* isa and the conversion to the same type agree on every object.          *)
(***************************************************************************)
THEOREM IsaAgrees == Spec => []IsaTellsConversion
<1>1. IsaTellsConversion
  <2> SUFFICES ASSUME NEW v \in Vars, NEW t \in CastTypes, vars[v] # Undef,
                      ConvertOpcode(t, types[v]).id \in {"CHECK_OBJECT_TYPE", "CHECK_INTERFACE"}
               PROVE  VmIsa(IsaOpcode(t), vars[v])
                        <=> Convert(ConvertOpcode(t, types[v]), vars[v]).does = "assign"
    BY DEF IsaTellsConversion, Run, PrecompiledIsa
  <2> DEFINE op == ConvertOpcode(t, types[v])
             o  == vars[v]
  <2>1. \/ op = Opcode("CHECK_INTERFACE", t) /\ IsInterface(t)
        \/ op = Opcode("CHECK_OBJECT_TYPE", RuntimeType(t)) /\ ~IsInterface(t)
    BY DEF ConvertOpcode, NumberConvertOpcode, BytesConvertOpcode, ObjectConvertOpcode, Opcode
  <2>2. CASE op = Opcode("CHECK_INTERFACE", t) /\ IsInterface(t)
    <3>1. Convert(op, o) = VmCheckInterface(t, o)
      BY <2>2 DEF Convert, Opcode, Run, PrecompiledCheckInterface
    <3>2. IsaOpcode(t) = Opcode("HAS_INTERFACE", t)
      BY <2>2 DEF IsaOpcode
    <3> QED BY <3>1, <3>2 DEF VmIsa, VmCheckInterface, Opcode, Value, Raise
  <2>3. CASE op = Opcode("CHECK_OBJECT_TYPE", RuntimeType(t)) /\ ~IsInterface(t)
    <3>1. Convert(op, o) = VmCheckObjectType(RuntimeType(t), o)
      BY <2>3 DEF Convert, Opcode, Run, PrecompiledCheckObjectType
    <3>2. IsaOpcode(t) = Opcode("IS_TYPE", RuntimeType(t))
      BY <2>3 DEF IsaOpcode
    <3> QED BY <3>1, <3>2 DEF VmIsa, VmCheckObjectType, Opcode, Value, Raise
  <2> QED BY <2>1, <2>2, <2>3
<1> QED BY <1>1, PTL
=============================================================================
