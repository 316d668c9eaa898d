---------------------------- MODULE PackageImage ----------------------------
(***************************************************************************)
(* PackageImage: the tables of packages, fields, package variables,        *)
(* subroutines, arguments and basic types of the portable image            *)
(* (spvm_portable.c), and the functions of the native interface that find  *)
(* a member by name and read and write it by id (spvm_runtime_api.c).      *)
(*                                                                         *)
(* The names are kept where the image has their place in the string pool.  *)
(***************************************************************************)
EXTENDS PackageChecker

Uint16(n) == n % 65536

(* A number is kept in sixteen bits, the first of no members is -1.        *)
FirstOf(ids) == IF ids = <<>> THEN -1 ELSE Head(ids)

PackageId(c, name) == (CHOOSE i \in DOMAIN c.packages : c.packages[i].name = name) - 1

(* A basic type that is no package keeps the zero the memory is cleared    *)
(* with.                                                                   *)
BasicTypeTable(c) ==
  [i \in DOMAIN c.basicTypes |->
     [name |-> c.basicTypes[i], id |-> i - 1,
      package |-> IF Declared(c, c.basicTypes[i]) THEN PackageId(c, c.basicTypes[i]) ELSE 0]]

VarTable(c) ==
  [i \in DOMAIN c.vars |->
     [name |-> c.vars[i].name, signature |-> MemberSignature(c.vars[i]), id |-> i - 1,
      package |-> PackageId(c, c.vars[i].package)]]

FieldTable(c) ==
  [i \in DOMAIN c.fields |->
     LET p == PackageOf(c, c.fields[i].package)
         k == CHOOSE j \in DOMAIN p.fields : p.fields[j] = i - 1
     IN [name |-> c.fields[i].name, signature |-> MemberSignature(c.fields[i]), id |-> i - 1,
         package |-> PackageId(c, p.name), offset |-> Uint16(OffsetsIn(c, p)[k])]]

(* The arguments of all subroutines are in one table; a string is an array *)
(* of bytes in it.                                                         *)
ArgType(t) == IF t.basic = "string" THEN [ArrayOf(t) EXCEPT !.basic = "byte"] ELSE t
ArgTypes(s) == [i \in DOMAIN s.args |-> ArgType(s.args[i])]

ArgTable(c) == FlattenSeq([i \in DOMAIN c.subs |-> ArgTypes(c.subs[i])])
ArgsBase(c, i) == FoldLeft(LAMBDA n, s : n + Len(s.args), 0, SubSeq(c.subs, 1, i - 1))

SubTable(c) ==
  [i \in DOMAIN c.subs |->
     [name |-> c.subs[i].name, signature |-> SubSignature(c.subs[i]), id |-> i - 1,
      package |-> PackageId(c, c.subs[i].package),
      argsBase |-> ArgsBase(c, i), argsLength |-> Uint16(Len(c.subs[i].args))]]

PackageTable(c) ==
  [i \in DOMAIN c.packages |->
     LET p == c.packages[i] IN
     [name |-> p.name, id |-> i - 1, category |-> p.category, anon |-> p.anon,
      destructor |-> p.destructor, begin |-> p.begin,
      fieldsBase |-> FirstOf(p.fields), fieldsLength |-> Uint16(Len(p.fields)),
      subsBase   |-> FirstOf(p.subs),   subsLength   |-> Uint16(Len(p.subs)),
      varsBase   |-> FirstOf(p.vars),   varsLength   |-> Uint16(Len(p.vars))]]

BuildPortable(c) ==
  [types |-> BasicTypeTable(c), vars |-> VarTable(c), fields |-> FieldTable(c),
   args |-> ArgTable(c), subs |-> SubTable(c), packages |-> PackageTable(c)]

(* build_runtime adds the basic types by name, and the variables.          *)
BuildRuntime(image) ==
  image @@ [sortedTypes |-> SortByName(image.types),
            varsHeap    |-> [i \in DOMAIN image.vars |-> 0]]

-----------------------------------------------------------------------------
(* Members by name.                                                        *)

(* The place of a name among length entries of a table from base on, or    *)
(* -1.  The search compares with the middle, and last with the lower end.  *)
BinarySearch(table, base, length, name) ==
  LET key(k) == Rank[At(table, k).name]
      search[low \in base..(base + length), high \in (base - 1)..(base + length)] ==
        LET middle == (low + high) \div 2 IN
        IF low >= high THEN IF key(low) = Rank[name] THEN low ELSE -1
        ELSE IF Rank[name] > key(middle) THEN search[middle + 1, high]
        ELSE IF Rank[name] < key(middle) THEN search[low, middle - 1]
        ELSE middle
  IN search[base, base + length - 1]

BasicType(r, name) ==
  LET k == BinarySearch(r.sortedTypes, 0, Len(r.sortedTypes), name) IN
  IF k = -1 THEN -1 ELSE At(r.sortedTypes, k).id

(* The package of a basic type that is known.                              *)
OwnerOf(r, name) == At(r.packages, At(r.types, BasicType(r, name)).package)

Signed(table, k, signature) == IF k # -1 /\ At(table, k).signature = signature THEN At(table, k).id ELSE -1

FieldId(r, package, name, signature) ==
  LET p == OwnerOf(r, package) IN
  IF BasicType(r, package) = -1 THEN -1
  ELSE Signed(r.fields, BinarySearch(r.fields, p.fieldsBase, p.fieldsLength, name), signature)

PkgvarId(r, package, name, signature) ==
  LET p == OwnerOf(r, package) IN
  Signed(r.vars, BinarySearch(r.vars, p.varsBase, p.varsLength, name), signature)

SubId(r, package, name, signature) ==
  LET p == OwnerOf(r, package) IN
  IF p.subsLength = 0 THEN -1
  ELSE Signed(r.subs, BinarySearch(r.subs, p.subsBase, p.subsLength, name), signature)

(* The subroutine of an object: the only one of an anonymous package.      *)
MethodSubId(r, type, name, signature) ==
  LET p == At(r.packages, At(r.types, type).package) IN
  IF ~p.anon THEN SubId(r, p.name, name, signature)
  ELSE IF At(r.subs, p.subsBase).signature = signature THEN p.subsBase ELSE 0

-----------------------------------------------------------------------------
(* Objects.  A byte knows which value it was written with and which byte   *)
(* of it it is; zero is the same in every byte.                            *)

Byte(value, k) == IF value = 0 THEN <<0, 0>> ELSE <<value, k>>

NewObject(r, type) ==
  LET size == 8 * (At(r.packages, At(r.types, type).package).fieldsLength + 1)
  IN [type |-> type, bytes |-> [k \in 0..(size - 1) |-> Byte(0, k)]]

(* bfield, sfield, ... and set_bfield, set_sfield, ... differ in width.    *)
AccessWidth(t) ==
  CASE t.dimension > 0                          -> 8
    [] t.basic \in {"byte"}                     -> 1
    [] t.basic \in {"short"}                    -> 2
    [] t.basic \in {"int", "float"}             -> 4
    [] OTHER                                    -> 8

SetField(r, object, field, value) ==
  LET f == At(r.fields, field) IN
  [object EXCEPT !.bytes =
     [k \in DOMAIN @ |-> IF k - f.offset \in 0..(AccessWidth(f.signature[1]) - 1)
                           THEN Byte(value, k - f.offset) ELSE @[k]]]

(* What is read where the bytes are of no one value is Torn.               *)
Torn == -1

Field(r, object, field) ==
  LET f     == At(r.fields, field)
      value == object.bytes[f.offset][1]
  IN IF \A k \in 0..(AccessWidth(f.signature[1]) - 1) : object.bytes[f.offset + k] = Byte(value, k)
       THEN value ELSE Torn

Pkgvar(r, var)           == At(r.varsHeap, var)
SetPkgvar(r, var, value) == [r EXCEPT !.varsHeap[var + 1] = value]
=============================================================================
