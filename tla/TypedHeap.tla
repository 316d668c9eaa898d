----------------------------- MODULE TypedHeap -----------------------------
(***************************************************************************)
(* Types of objects.  The checker (spvm_op_checker.c) accepts an           *)
(* assignment or a conversion from the declared types alone, the builder   *)
(* (spvm_opcode_builder.c) chooses an opcode for it, and the virtual       *)
(* machine or the precompiled code runs it on objects that carry a basic   *)
(* type and a dimension.  Only some opcodes look at these: that every      *)
(* variable, element, field and package variable holds what its type       *)
(* promises is a result of the three parts together.                       *)
(*                                                                         *)
(* A string is an array of byte at run time; "object" takes any object,    *)
(* "oarray" any array of objects.  Numbers are not followed, and an array  *)
(* has one element.                                                        *)
(***************************************************************************)
EXTENDS Integers, Sequences, FiniteSets

CONSTANTS
  Packages,    \* name -> category, anon, methods (name and signature), fields
  Vars,        \* the variables of a program
  VarTypes,    \* the types it may give to them
  NewTypes,    \* the types it creates objects of
  CastTypes,   \* the types it converts to
  PackageVars, \* name -> type
  Builds,      \* who runs it: "vm" or "precompiled"
  MaxObjects   \* bound on the objects the program reaches at a time

VARIABLES
  build,   \* who runs the program
  types,   \* the declared types of the variables
  vars,    \* what they hold: an object or Undef
  globals, \* what the package variables hold
  heap,    \* the objects: type and cells
  raised   \* the last statement raised an exception

state == <<build, types, vars, globals, heap, raised>>

-----------------------------------------------------------------------------
(* Types.                                                                  *)

T(b, d) == [basic |-> b, dimension |-> d]

NumericIds  == [byte |-> 1, short |-> 2, int |-> 3, long |-> 4, float |-> 5, double |-> 6]
Boxes == [byte |-> "Byte", short |-> "Short", int |-> "Int", long |-> "Long",
          float |-> "Float", double |-> "Double"]

UndefType == T("undef", 0)
AnyObject == T("object", 0)
Oarray    == T("oarray", 0)
String    == T("string", 0)
ByteArray == T("byte", 1)

IsNumeric(t)       == t.dimension = 0 /\ t.basic \in DOMAIN NumericIds
IsNumericObject(t) == t.dimension = 0 /\ \E n \in DOMAIN Boxes : Boxes[n] = t.basic
IsPackage(t)       == t.dimension = 0 /\ t.basic \in DOMAIN Packages
IsCategory(t, c)   == IsPackage(t) /\ Packages[t.basic].category = c
IsClass(t)         == IsCategory(t, "class")
IsInterface(t)     == IsCategory(t, "interface")
IsValue(t)         == IsCategory(t, "value")
IsValueArray(t)    == t.dimension = 1 /\ IsValue(T(t.basic, 0))
IsArray(t)         == t = Oarray \/ t.dimension > 0

IsObject(t) ==
  /\ ~IsValue(t)
  /\ IsArray(t) \/ t = String \/ IsClass(t) \/ IsInterface(t) \/ t = AnyObject

IsObjectArray(t) == t = Oarray \/ (IsArray(t) /\ IsObject(T(t.basic, t.dimension - 1)))

(* The type of an element, to the checker.                                 *)
ElementType(t) ==
  IF t = String THEN T("byte", 0)
  ELSE IF t = Oarray THEN AnyObject
  ELSE T(t.basic, t.dimension - 1)

(* The number pair the constant pool gets for a type: strings are bytes.   *)
RuntimeTypeKeepingString(t) == t
RuntimeType(t) == IF t.basic = "string" THEN T("byte", t.dimension + 1) ELSE t

(* An interface declares one method; an anonymous subroutine has the       *)
(* method whatever its name is.                                            *)
InterfaceMethod(i) == CHOOSE m \in Packages[i].methods : TRUE

HasInterface(p, i) ==
  IF Packages[p].anon
    THEN \E m \in Packages[p].methods : m.signature = InterfaceMethod(i).signature
    ELSE InterfaceMethod(i) \in Packages[p].methods

BasicNames == DOMAIN NumericIds \cup {"string", "object", "oarray", "undef", "none"}
Names      == BasicNames \cup DOMAIN Packages
Types      == [basic : Names, dimension : Nat] \ {UndefType}

(***************************************************************************)
(* Names of packages begin with an upper case letter; an interface has one *)
(* method, the class of an anonymous subroutine has that subroutine; the   *)
(* classes of boxed numbers are there, oarray is nothing to create.        *)
(***************************************************************************)
ASSUME TypesAssumption ==
  /\ MaxObjects \in Nat
  /\ DOMAIN Packages \cap BasicNames = {}
  /\ \A p \in DOMAIN Packages :
       /\ Packages[p].category = "interface" \/ Packages[p].anon => \E m \in Packages[p].methods : Packages[p].methods = {m}
       /\ ~(Packages[p].category = "interface" /\ Packages[p].anon)
       /\ \A f \in DOMAIN Packages[p].fields : Packages[p].fields[f] \in Types
  /\ VarTypes \cup NewTypes \cup CastTypes \cup {PackageVars[g] : g \in DOMAIN PackageVars} \subseteq Types
  /\ Oarray \notin NewTypes
  /\ \A t \in VarTypes : IsNumeric(t) => IsClass(T(Boxes[t.basic], 0))

-----------------------------------------------------------------------------
(* What the checker accepts.                                               *)

Widens(dist, src) == NumericIds[dist.basic] > NumericIds[src.basic]
Boxed(src, box)   == Boxes[src.basic] = box.basic

(* check_assign accepts and puts a conversion in the tree.                 *)
NeedsConversion(dist, src) ==
  \/ IsNumeric(dist) /\ IsNumeric(src) /\ Widens(dist, src)
  \/ IsNumeric(dist) /\ (src = AnyObject \/ (IsNumericObject(src) /\ Boxed(dist, src)))
  \/ IsNumeric(src) /\ dist \in {String, AnyObject}
  \/ IsNumeric(src) /\ IsNumericObject(dist) /\ Boxed(src, dist)

AssignableToPackage(dist, src) ==
  \/ IsClass(dist) /\ IsClass(src) /\ dist = src
  \/ /\ IsInterface(dist) /\ (IsClass(src) \/ IsInterface(src))
     /\ HasInterface(src.basic, dist.basic)

(* check_assign accepts the source as it is.                               *)
Assignable(dist, src) ==
  IF ~IsObject(dist) THEN dist = src
  ELSE \/ src = UndefType
       \/ dist = AnyObject /\ IsObject(src)
       \/ dist = Oarray /\ IsObjectArray(src)
       \/ dist = String /\ src \in {String, ByteArray}
       \/ IsArray(dist) /\ dist = src
       \/ AssignableToPackage(dist, src)

(* (T)$src: the rules of CONVERT.  The cases follow each other.            *)
ValidConvert(dist, src) ==
  CASE IsNumeric(dist)       -> \/ IsNumeric(src) \/ src = AnyObject
                                \/ IsNumericObject(src) /\ Boxed(dist, src)
    [] ~IsObject(dist)       -> FALSE
    [] dist = Oarray         -> IsObjectArray(src)
    [] dist = String         -> IsNumeric(src) \/ src \in {String, ByteArray, AnyObject}
    [] dist = ByteArray      -> src \in {String, ByteArray, AnyObject}
    [] dist = AnyObject      -> IsNumeric(src) \/ IsObject(src)
    [] IsNumericObject(dist) -> \/ IsNumeric(src) /\ Boxed(src, dist)
                                \/ IsObject(src)
    [] OTHER                 -> IsPackage(src) \/ IsObject(src) \/ src = UndefType

(* isa is decided by the compiler for these.                               *)
CompileTimeIsa(t) == IsNumeric(t) \/ IsValue(t) \/ t = AnyObject
ValidIsa(src, t)  == ~CompileTimeIsa(t) /\ IsObject(src) /\ IsObject(t)

NewAllowed(t) == IsArray(t) \/ IsClass(t)

-----------------------------------------------------------------------------
(* What the builder writes.  A conversion without an opcode is one the     *)
(* builder has only an assertion for: no program has it.                   *)

Opcode(id, t) == [id |-> id, type |-> t]

NumberConvertOpcode(dist, src) ==
  IF IsNumeric(dist) THEN Opcode("CONVERT_NUMBER", dist)
  ELSE IF IsNumericObject(dist) /\ Boxed(src, dist) THEN Opcode("CONVERT_TO_OBJECT", dist)
  ELSE IF dist = AnyObject THEN Opcode("CONVERT_TO_OBJECT", T(Boxes[src.basic], 0))
  ELSE IF dist = String THEN Opcode("CONVERT_TO_STRING", String)
  ELSE Opcode("none", dist)

BytesConvertOpcode(dist) ==
  Opcode(IF dist \in {ByteArray, String, AnyObject} THEN "MOVE_OBJECT" ELSE "none", dist)

ObjectConvertOpcode(dist, src) ==
  IF IsNumeric(dist) THEN Opcode("CONVERT_FROM_OBJECT", T(Boxes[dist.basic], 0))
  ELSE IF dist = AnyObject THEN Opcode("MOVE_OBJECT", dist)
  ELSE IF IsInterface(dist) THEN Opcode("CHECK_INTERFACE", dist)
  ELSE Opcode("CHECK_OBJECT_TYPE", RuntimeType(dist))

ConvertOpcode(dist, src) ==
  IF IsNumeric(src) THEN NumberConvertOpcode(dist, src)
  ELSE IF src \in {ByteArray, String} THEN BytesConvertOpcode(dist)
  ELSE IF IsObject(src) THEN ObjectConvertOpcode(dist, src)
  ELSE Opcode("none", dist)

IsaOpcode(t) ==
  IF IsInterface(t) THEN Opcode("HAS_INTERFACE", t) ELSE Opcode("IS_TYPE", RuntimeType(t))

NewOpcode(t) ==
  LET r == RuntimeType(t) IN
  IF r.dimension = 0 THEN Opcode("NEW_OBJECT", r)
  ELSE IF r.dimension > 1 THEN Opcode("NEW_MULTI_ARRAY", r)
  ELSE IF IsNumeric(T(r.basic, 0)) THEN Opcode("NEW_NUMBER_ARRAY", r)
  ELSE IF IsValueArray(r) THEN Opcode("NEW_VALUE_ARRAY", r)
  ELSE Opcode("NEW_OBJECT_ARRAY", r)

(* The source is an object or undef; the type of the array decides.        *)
StoreOpcodeUnchecked(array, src) ==
  IF src = UndefType THEN (IF array = Oarray THEN "none" ELSE "ARRAY_STORE_UNDEF")
  ELSE "ARRAY_STORE_OBJECT"
StoreOpcode(array, src) ==
  IF src = UndefType THEN (IF array = Oarray THEN "none" ELSE "ARRAY_STORE_UNDEF")
  ELSE IF array = Oarray THEN "ARRAY_STORE_OBJECT_CHECK_TYPE"
  ELSE "ARRAY_STORE_OBJECT"

-----------------------------------------------------------------------------
(* Objects.                                                                *)

Ids   == 1 .. MaxObjects
Undef == 0
Free  == [type |-> T("none", 0), cells |-> <<>>]

(* The declared types of the cells of an object.                           *)
CellTypes(t) ==
  IF t.dimension = 0 THEN Packages[t.basic].fields
  ELSE IF IsObjectArray(t) THEN <<ElementType(t)>>
  ELSE <<>>

NewObject(t) == [type |-> t, cells |-> [i \in DOMAIN CellTypes(t) |-> Undef]]

(* Objects no variable leads to take no room: ObjectMemory is about them.  *)
Refers(h, i)    == {h[i].cells[c] : c \in DOMAIN h[i].cells} \ {Undef}
Closed(h, S)      == \A i \in S : Refers(h, i) \subseteq S
Reached(h, roots) == {i \in Ids : \A S \in SUBSET Ids : roots \subseteq S /\ Closed(h, S) => i \in S}

Roots(vs, gs) == ({vs[v] : v \in DOMAIN vs} \cup {gs[g] : g \in DOMAIN gs}) \ {Undef}

Put(vs, gs, h) ==
  LET live == Reached(h, Roots(vs, gs)) IN
  /\ vars' = vs /\ globals' = gs
  /\ heap' = [i \in Ids |-> IF i \in live THEN h[i] ELSE Free]

Rooms == {i \in Ids : heap[i] = Free}
Room  == CHOOSE i \in Rooms : TRUE

TypeOf(o) == heap[o].type

Init ==
  /\ build \in Builds
  /\ types \in [Vars -> VarTypes]
  /\ \E v \in Vars : IsObject(types[v])  \* without objects no statement is of interest
  /\ vars = [v \in Vars |-> Undef]
  /\ globals = [g \in DOMAIN PackageVars |-> Undef]
  /\ heap = [i \in Ids |-> Free]
  /\ raised = FALSE

-----------------------------------------------------------------------------
(* The virtual machine.                                                    *)

(* has_interface of an object, and the subroutine a method call finds.     *)
VmHasInterface(o, i) == TypeOf(o).dimension = 0 /\ HasInterface(TypeOf(o).basic, i)

MethodSubByName(o, i) ==
  {m \in Packages[TypeOf(o).basic].methods : m = InterfaceMethod(i)}
MethodSub(o, i) ==
  {m \in Packages[TypeOf(o).basic].methods :
     m = InterfaceMethod(i) \/
     (Packages[TypeOf(o).basic].anon /\ m.signature = InterfaceMethod(i).signature)}

(* What an opcode does with its destination.                               *)
Value(o) == [does |-> "assign", value |-> o]
Keep     == [does |-> "keep", value |-> Undef]
Raise    == [does |-> "raise", value |-> Undef]

VmCheckObjectTypeOfBasic(t, o) ==
  IF o = Undef THEN Keep ELSE IF TypeOf(o).basic = t.basic THEN Value(o) ELSE Raise
VmCheckObjectType(t, o) ==
  IF o = Undef THEN Keep ELSE IF TypeOf(o) = t THEN Value(o) ELSE Raise
VmCheckInterface(t, o) ==
  IF o = Undef THEN Keep ELSE IF VmHasInterface(o, t.basic) THEN Value(o) ELSE Raise
VmFromObject(t, o) ==
  IF o # Undef /\ TypeOf(o) = t THEN Keep ELSE Raise

PrecompiledCheckObjectType(t, o) == VmCheckObjectType(t, o)
PrecompiledCheckInterface(t, o)  == VmCheckInterface(t, o)
PrecompiledFromObject(t, o)      == VmFromObject(t, o)

Run(vm, precompiled) == IF build = "vm" THEN vm ELSE precompiled

Convert(op, o) ==
  IF op.id = "MOVE_OBJECT" THEN Value(o)
  ELSE IF op.id = "CHECK_OBJECT_TYPE"
    THEN Run(VmCheckObjectType(op.type, o), PrecompiledCheckObjectType(op.type, o))
  ELSE IF op.id = "CHECK_INTERFACE"
    THEN Run(VmCheckInterface(op.type, o), PrecompiledCheckInterface(op.type, o))
  ELSE IF op.id = "CONVERT_FROM_OBJECT"
    THEN Run(VmFromObject(op.type, o), PrecompiledFromObject(op.type, o))
  ELSE Keep

(* IS_TYPE and HAS_INTERFACE.                                              *)
VmIsa(op, o) ==
  /\ o # Undef
  /\ IF op.id = "HAS_INTERFACE" THEN VmHasInterface(o, op.type.basic) ELSE TypeOf(o) = op.type
PrecompiledIsa(op, o) == VmIsa(op, o)

(* The type the new object gets: some opcodes take the dimension from the  *)
(* constant pool, some know it.                                            *)
VmNewType(op) ==
  IF op.id = "NEW_OBJECT" THEN T(op.type.basic, 0)
  ELSE IF op.id \in {"NEW_NUMBER_ARRAY", "NEW_OBJECT_ARRAY", "NEW_VALUE_ARRAY"}
    THEN T(op.type.basic, 1)
  ELSE op.type
PrecompiledNewType(op) == VmNewType(op)

(* CONVERT_*_TO_*_OBJECT and CONVERT_*_TO_STRING.                          *)
VmToObjectType(op) == IF op.id = "CONVERT_TO_STRING" THEN ByteArray ELSE T(op.type.basic, 0)
PrecompiledToObjectType(op) == VmToObjectType(op)

VmElementFits(a, o) ==
  \/ o = Undef
  \/ /\ TypeOf(a).basic = TypeOf(o).basic
     /\ TypeOf(a).dimension = TypeOf(o).dimension + 1
PrecompiledElementFits(a, o) == VmElementFits(a, o)

-----------------------------------------------------------------------------
(* The statements of a program, each one the checker accepts.              *)

DoNothing(r) == raised' = r /\ UNCHANGED <<vars, globals, heap>>
SetVar(x, o) == raised' = FALSE /\ Put([vars EXCEPT ![x] = o], globals, heap)
Program      == UNCHANGED <<build, types>>

(* $x = $y                                                                 *)
Move(x, y) ==
  /\ IsObject(types[x]) /\ Assignable(types[x], types[y])
  /\ SetVar(x, vars[y])
  /\ Program

(* $x = undef                                                              *)
MoveUndef(x) == IsObject(types[x]) /\ SetVar(x, Undef) /\ Program

(* $x = (T)$y, and the conversion check_assign adds for $x = $y.           *)
Converts(x, t, y) ==
  \/ Assignable(types[x], t) /\ ValidConvert(t, types[y])
  \/ t = types[x] /\ NeedsConversion(t, types[y])

Cast(x, t, y) ==
  /\ ~IsNumeric(types[y])
  /\ Converts(x, t, y)
  /\ LET op == ConvertOpcode(t, types[y])
         r == Convert(op, vars[y])
     IN  /\ op.id # "none"
         /\ \/ r.does = "assign" /\ SetVar(x, r.value)
            \/ r.does = "keep" /\ DoNothing(FALSE)
            \/ r.does = "raise" /\ DoNothing(TRUE)
  /\ Program

Create(x, t) ==
  /\ Rooms # {} /\ raised' = FALSE
  /\ Put([vars EXCEPT ![x] = Room], globals, [heap EXCEPT ![Room] = NewObject(t)])

(* ... of a number: a new object.                                          *)
Box(x, t, y) ==
  /\ IsNumeric(types[y])
  /\ Converts(x, t, y)
  /\ LET op == ConvertOpcode(t, types[y]) IN
       /\ op.id \in {"CONVERT_TO_OBJECT", "CONVERT_TO_STRING"}
       /\ Create(x, Run(VmToObjectType(op), PrecompiledToObjectType(op)))
  /\ Program

(* $x = new T                                                              *)
New(x, t) ==
  /\ NewAllowed(t) /\ Assignable(types[x], t)
  /\ Create(x, Run(VmNewType(NewOpcode(t)), PrecompiledNewType(NewOpcode(t))))
  /\ Program

(* $x = $a->[$i], the index inside or outside of the array.                *)
VmFetch(a, inside) ==
  IF a = Undef \/ ~inside THEN Raise ELSE Value(heap[a].cells[1])
PrecompiledFetch(a, inside) == VmFetch(a, inside)

Fetch(x, a, inside) ==
  /\ IsObjectArray(types[a])
  /\ Assignable(types[x], ElementType(types[a]))
  /\ LET r == Run(VmFetch(vars[a], inside), PrecompiledFetch(vars[a], inside)) IN
       IF r.does = "raise" THEN DoNothing(TRUE) ELSE SetVar(x, r.value)
  /\ Program

(* $a->[$i] = $y and $a->[$i] = undef                                      *)
SetCell(o, c, v) ==
  LET object == [type |-> heap[o].type, cells |-> [heap[o].cells EXCEPT ![c] = v]]
  IN  raised' = FALSE /\ Put(vars, globals, [heap EXCEPT ![o] = object])

VmStore(op, a, inside, o) ==
  IF \/ a = Undef \/ ~inside
     \/ op = "ARRAY_STORE_OBJECT_CHECK_TYPE" /\ ~VmElementFits(a, o)
    THEN Raise ELSE Value(o)
PrecompiledStore(op, a, inside, o) ==
  IF \/ a = Undef \/ ~inside
     \/ op = "ARRAY_STORE_OBJECT_CHECK_TYPE" /\ ~PrecompiledElementFits(a, o)
    THEN Raise ELSE Value(o)

Store(a, inside, src, o) ==
  /\ IsObjectArray(types[a])
  /\ Assignable(ElementType(types[a]), src)
  /\ LET op == StoreOpcode(types[a], src)
         r == Run(VmStore(op, vars[a], inside, o), PrecompiledStore(op, vars[a], inside, o))
     IN  /\ op # "none"
         /\ IF r.does = "raise" THEN DoNothing(TRUE) ELSE SetCell(vars[a], 1, r.value)
  /\ Program

StoreVar(a, inside, y) == Store(a, inside, types[y], vars[y])
StoreUndef(a, inside)  == Store(a, inside, UndefType, Undef)

(* $x = $o->{f} and $o->{f} = $y                                           *)
FieldType(t, f) == Packages[t.basic].fields[f]
HasField(t, f)  == IsClass(t) /\ f \in DOMAIN Packages[t.basic].fields

VmGetField(o, f) == IF o = Undef THEN Raise ELSE Value(heap[o].cells[f])
PrecompiledGetField(o, f) == VmGetField(o, f)

GetField(x, y, f) ==
  /\ HasField(types[y], f) /\ Assignable(types[x], FieldType(types[y], f))
  /\ LET r == Run(VmGetField(vars[y], f), PrecompiledGetField(vars[y], f)) IN
       IF r.does = "raise" THEN DoNothing(TRUE) ELSE SetVar(x, r.value)
  /\ Program

VmSetField(o, f, v) == IF o = Undef THEN Raise ELSE Value(v)
PrecompiledSetField(o, f, v) == VmSetField(o, f, v)

SetField(x, f, y) ==
  /\ HasField(types[x], f) /\ Assignable(FieldType(types[x], f), types[y])
  /\ LET r == Run(VmSetField(vars[x], f, vars[y]), PrecompiledSetField(vars[x], f, vars[y])) IN
       IF r.does = "raise" THEN DoNothing(TRUE) ELSE SetCell(vars[x], f, r.value)
  /\ Program

(* $x = $P::v and $P::v = $y                                               *)
GetPackageVar(x, g) ==
  /\ g \in DOMAIN PackageVars /\ Assignable(types[x], PackageVars[g])
  /\ SetVar(x, globals[g])
  /\ Program
SetPackageVar(g, y) ==
  /\ g \in DOMAIN PackageVars /\ Assignable(PackageVars[g], types[y])
  /\ raised' = FALSE
  /\ Put(vars, [globals EXCEPT ![g] = vars[y]], heap)
  /\ Program

Next ==
  \E x \in Vars :
    \/ MoveUndef(x)
    \/ \E t \in NewTypes : New(x, t)
    \/ \E i \in BOOLEAN : StoreUndef(x, i)
    \/ \E g \in DOMAIN PackageVars : GetPackageVar(x, g) \/ SetPackageVar(g, x)
    \/ \E y \in Vars :
         \/ Move(x, y)
         \/ \E t \in CastTypes : Cast(x, t, y) \/ Box(x, t, y)
         \/ \E i \in BOOLEAN : Fetch(x, y, i) \/ StoreVar(x, i, y)
         \/ \E f \in 1 .. 2 : GetField(x, y, f) \/ SetField(x, f, y)

Spec == Init /\ [][Next]_state

-----------------------------------------------------------------------------
(* Properties.                                                             *)

(* The state keeps its shape: no dangling reference, cells as the type of  *)
(* the object asks for, and no object of a type only the compiler knows.   *)
TypeOK ==
  /\ build \in Builds /\ types \in [Vars -> VarTypes] /\ raised \in BOOLEAN
  /\ vars \in [Vars -> Ids \cup {Undef}]
  /\ globals \in [DOMAIN PackageVars -> Ids \cup {Undef}]
  /\ \A i \in Ids : heap[i] # Free =>
       /\ heap[i].type.basic # "string" /\ heap[i].type \notin {AnyObject, Oarray}
       /\ DOMAIN heap[i].cells = DOMAIN CellTypes(heap[i].type)
       /\ \A j \in Refers(heap, i) : j \in Ids /\ heap[j] # Free

(* What a declared type promises of an object.                             *)
TypeConforms(ot, t) ==
  \/ t = AnyObject
  \/ t = Oarray /\ IsObjectArray(ot)
  \/ IsInterface(t) /\ ot.dimension = 0 /\ HasInterface(ot.basic, t.basic)
  \/ ot = (IF t.basic = "string" THEN T("byte", t.dimension + 1) ELSE t)
Conforms(o, t) == o = Undef \/ TypeConforms(TypeOf(o), t)

(***************************************************************************)
(* Every variable, package variable, element and field holds undef or an   *)
(* object of its type, after any statements the checker accepts: aliases   *)
(* of arrays through oarray and object, strings as byte[], conversions.    *)
(***************************************************************************)
HeapTyped ==
  /\ \A v \in Vars : IsObject(types[v]) => Conforms(vars[v], types[v])
  /\ \A g \in DOMAIN PackageVars : Conforms(globals[g], PackageVars[g])
  /\ \A i \in Ids : heap[i] # Free =>
       \A c \in DOMAIN heap[i].cells : Conforms(heap[i].cells[c], CellTypes(heap[i].type)[c])

(* A method called through an interface is found by method_sub_id, and it  *)
(* is one subroutine with the signature of the interface.                  *)
MethodFound ==
  \A v \in Vars : (IsInterface(types[v]) /\ vars[v] # Undef) =>
    \E m \in Packages[TypeOf(vars[v]).basic].methods :
      /\ MethodSub(vars[v], types[v].basic) = {m}
      /\ m.signature = InterfaceMethod(types[v].basic).signature

(* isa and the conversion to the same type agree on every object: what isa *)
(* tells a program about a value is what a conversion of it does.          *)
IsaTellsConversion ==
  \A v \in Vars, t \in CastTypes :
    (/\ vars[v] # Undef /\ ValidIsa(types[v], t) /\ ValidConvert(t, types[v])
     /\ ConvertOpcode(t, types[v]).id \in {"CHECK_OBJECT_TYPE", "CHECK_INTERFACE"})
    => (Run(VmIsa(IsaOpcode(t), vars[v]), PrecompiledIsa(IsaOpcode(t), vars[v]))
          <=> Convert(ConvertOpcode(t, types[v]), vars[v]).does = "assign")

(* A conversion of undef gives undef: what $x = (T)$y leaves in $x.        *)
ConversionOfUndef ==
  \A x, y \in Vars, t \in CastTypes :
    LET op == ConvertOpcode(t, types[y])
        r  == Convert(op, vars[y])
    IN  (/\ Converts(x, t, y) /\ IsObject(types[y]) /\ IsObject(t) /\ op.id # "none"
         /\ vars[y] = Undef)
        => (IF r.does = "keep" THEN vars[x] ELSE r.value) = Undef
=============================================================================
