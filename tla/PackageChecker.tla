--------------------------- MODULE PackageChecker ---------------------------
(***************************************************************************)
(* PackageChecker: the part of the checker (spvm_op_checker.c) that puts   *)
(* the packages of a program together.  It numbers the packages by name,   *)
(* lays the fields of a class out, and replaces each name a subroutine     *)
(* uses by the member it refers to; calls of accessors, enumerations,      *)
(* constants and simple constructors are replaced by what they would do.   *)
(*                                                                         *)
(* c is the table of the compiler that Packages builds.  What a statement  *)
(* of a subroutine refers to is a reference [package, sub, statement,      *)
(* kind, id, value, writes]: kind is "call", "field", "var", "constant" or *)
(* "new".                                                                  *)
(***************************************************************************)
EXTENDS Packages

-----------------------------------------------------------------------------
(* Types.                                                                  *)

CategoryOf(c, t) == IF Declared(c, t.basic) THEN PackageOf(c, t.basic).category ELSE "none"

IsPlain(t)      == t.dimension = 0 /\ ~t.ref
IsNumeric(t)    == IsPlain(t) /\ t.basic \in NumericTypes
IsNumericRef(t) == t.dimension = 0 /\ t.ref /\ t.basic \in NumericTypes
IsPackage(c, t)  == IsPlain(t) /\ Declared(c, t.basic)
IsValue(c, t)    == IsPlain(t) /\ CategoryOf(c, t) = "value"
IsValueRef(c, t) == t.dimension = 0 /\ t.ref /\ CategoryOf(c, t) = "value"
IsClass(c, t)    == IsPackage(c, t) /\ CategoryOf(c, t) = "class"
IsArray(t)       == ~t.ref /\ (t.dimension > 0 \/ t.basic = "oarray")

(* resolve_types.                                                          *)
IsPackageName(c, b) == ~\E i \in 1..FirstPackageType : CoreTypes[i] = b

TypeErrors(c) ==
  UNION {LET t == c.types[i] IN
         Broken({<<"unknown package", IsPackageName(c, t.basic) /\ ~Declared(c, t.basic)>>,
                 <<"reference to no value", t.ref /\ ~IsNumericRef(t) /\ ~IsValueRef(c, t)>>,
                 <<"array of oarray", t.basic = "oarray" /\ t.dimension > 0>>})
         : i \in DOMAIN c.types}

-----------------------------------------------------------------------------
(* resolve_packages.                                                       *)

ValueFieldsMax == 16
ArgsMax == 255

FieldsIn(c, p) == [i \in DOMAIN p.fields |-> At(c.fields, p.fields[i])]
VarsIn(c, p)   == [i \in DOMAIN p.vars |-> At(c.vars, p.vars[i])]
SubsIn(c, p)   == [i \in DOMAIN p.subs |-> At(c.subs, p.subs[i])]

ValueErrors(c, p) ==
  LET fields == FieldsIn(c, p) IN
  Broken({<<"value with subs", p.subs # <<>>>>,
          <<"value with variables", p.vars # <<>>>>,
          <<"value without fields", fields = <<>>>>,
          <<"too many fields", Len(fields) > ValueFieldsMax>>,
          <<"value of no numbers", fields # <<>> /\ ~IsNumeric(fields[1].type)>>,
          <<"fields of two types", \E i \in DOMAIN fields : fields[i].type # fields[1].type>>})

(* A value type is passed as its fields.                                   *)
ArgWidth(c, t) ==
  IF IsValue(c, t) \/ IsValueRef(c, t) THEN Len(PackageOf(c, t.basic).fields) ELSE 1

SubRules(c, s) ==
  Broken({<<"over argument limit", FoldLeft(LAMBDA n, t : n + ArgWidth(c, t), 0, s.args) > ArgsMax>>,
          <<"last of ... is no array", s.vaarg /\ (s.args = <<>> \/ ~IsArray(Last(s.args)))>>,
          <<"reference is returned", s.ret.ref>>})

PackageErrors(c, p) ==
  (IF p.category = "value" THEN ValueErrors(c, p) ELSE {})
  \cup Broken({<<"variable of a value type", \E v \in ToSet(VarsIn(c, p)) : IsValue(c, v.type)>>,
               <<"field of a value type", \E f \in ToSet(FieldsIn(c, p)) : IsValue(c, f.type)>>})
  \cup UNION {SubRules(c, s) : s \in ToSet(SubsIn(c, p))}

(* What long and double would take if they were words.                     *)
NumberSizeOfWords(t) ==
  IF IsPlain(t) /\ t.basic \in {"double", "long", "float", "int"} THEN 4
  ELSE IF IsPlain(t) /\ t.basic = "short" THEN 2
  ELSE IF IsPlain(t) /\ t.basic = "byte" THEN 1 ELSE 0

(* Offsets of the fields of a class: the numbers first, the widest before  *)
(* the others, then the objects, eight bytes each.                         *)
NumberSize(t) ==
  CASE ~IsPlain(t)                    -> 0
    [] t.basic \in {"double", "long"} -> 8
    [] t.basic \in {"float", "int"}   -> 4
    [] t.basic = "short"              -> 2
    [] t.basic = "byte"               -> 1
    [] OTHER                          -> 0

FieldOffset(fields, i) ==
  LET size(k) == NumberSize(fields[k].type)
      total(S) == MapThenSumSet(size, S)
      aligned == ((total(DOMAIN fields) + 7) \div 8) * 8
  IN IF size(i) > 0
       THEN total({k \in DOMAIN fields : size(k) > size(i) \/ (size(k) = size(i) /\ k < i)})
       ELSE aligned + 8 * Cardinality({k \in DOMAIN fields : k < i /\ size(k) = 0})

OffsetsIn(c, p) ==
  [i \in DOMAIN p.fields |-> IF p.category = "class" THEN FieldOffset(FieldsIn(c, p), i) ELSE 0]

(* Signatures: the types, without the reference sign where it is not       *)
(* written; the invocant is written self.                                  *)
Unsigned(t) == [t EXCEPT !.ref = FALSE]
MemberSignature(m) == <<Unsigned(m.type)>>
SubSignature(s) ==
  <<Unsigned(s.ret)>> \o [i \in DOMAIN s.args |-> IF s.method /\ i = 1 THEN SelfType ELSE s.args[i]]

ResolvePackages(c) ==
  [c EXCEPT !.packages = SortByName(@),
            !.errors   = @ \cup UNION {PackageErrors(c, p) : p \in ToSet(c.packages)}]

(* A subroutine whose only statement returns a constant, or a new object   *)
(* of a package.  The declarations of the arguments are statements too.    *)
OnlyReturns(s, term) ==
  s.args = <<>> /\ Len(s.body) = 1 /\ EndsInReturn(s.body) /\ s.body[1].of.term = term
IsConstant(s)             == OnlyReturns(s, "constant")
IsSimpleConstructor(c, s) == OnlyReturns(s, "new") /\ IsPackage(c, s.body[1].of.type)

-----------------------------------------------------------------------------
(* What a term refers to.                                                  *)

SubIn(c, package, name) ==
  IF Declared(c, package) THEN IdNamed(PackageOf(c, package).subs, c.subs, name) ELSE -1

ImportsNamed(p, name) == SelectSeq(p.uses, LAMBDA u : Contains(u.names, name))

(* A search that begins with SPVM::CORE.                                   *)
FindFunctionCoreFirst(c, p, name) ==
  LET core == SubIn(c, "SPVM::CORE", name) IN
  IF core # -1 THEN core ELSE SubIn(c, p.name, name)

(* A function is looked for in the package, then among its imports, then   *)
(* in SPVM::CORE.                                                          *)
FindFunction(c, p, name) ==
  LET imports == ImportsNamed(p, name)
      near    == IF imports = <<>> THEN SubIn(c, p.name, name) ELSE SubIn(c, Last(imports).package, name)
  IN IF near # -1 THEN near ELSE SubIn(c, "SPVM::CORE", name)

FindCall(c, p, t) ==
  CASE t.how = "function" -> FindFunction(c, p, t.name)
    [] t.how = "class"    -> SubIn(c, t.on, t.name)
    [] t.how = "method"   -> SubIn(c, t.on.basic, t.name)

Reference(kind, id, value, writes) == [kind |-> kind, id |-> id, value |-> value, writes |-> writes]
Refers(ref)  == [errors |-> {}, refs |-> <<ref>>]
Fails(rules) == [errors |-> Broken(rules), refs |-> <<>>]
Silent       == Fails({})

Private(descriptors, default) ==
  IF Contains(descriptors, "private") THEN TRUE
  ELSE IF Contains(descriptors, "public") THEN FALSE ELSE default

(* A private member may be named in its own package only; the access that  *)
(* replaces an accessor is not checked.                                    *)
BindField(c, p, type, name, inlined, writes) ==
  LET owner  == PackageOf(c, type.basic)
      id     == IdNamed(owner.fields, c.fields, name)
      hidden == Private(At(c.fields, id).descriptors, ~owner.anon /\ owner.category # "value")
      valid  == IsClass(c, type) \/ IsValue(c, type) \/ IsValueRef(c, type)
      rules  == IF ~valid THEN {<<"invocant has no fields", TRUE>>}
                ELSE IF id = -1 THEN {<<"unknown field", TRUE>>}
                ELSE {<<"private field", hidden /\ ~inlined /\ type.basic # p.name>>}
  IN IF Broken(rules) # {} THEN Fails(rules) ELSE Refers(Reference("field", id, 0, writes))

BindVar(c, p, on, name, inlined, writes) ==
  LET package == IF on = "" THEN p.name ELSE on
      id      == IF Declared(c, package) THEN IdNamed(PackageOf(c, package).vars, c.vars, name) ELSE -1
      hidden  == Private(At(c.vars, id).descriptors, TRUE)
      rules   == IF id = -1 THEN {<<"variable not found", TRUE>>}
                 ELSE {<<"private variable", hidden /\ ~inlined /\ package # p.name>>}
  IN IF Broken(rules) # {} THEN Fails(rules) ELSE Refers(Reference("var", id, 0, writes))

(* A variable that is not the subroutine's own was captured.               *)
BindOuter(c, p, name, writes) ==
  LET id == IdNamed(p.fields, c.fields, name) IN
  IF id # -1 /\ At(c.fields, id).captured
    THEN BindField(c, p, Type(p.name), name, FALSE, writes)
    ELSE Fails({<<"variable not declared", TRUE>>})

(* A new object of an anonymous subroutine is given what it captured.      *)
BindNew(c, p, type, inlined) ==
  LET owner    == PackageOf(c, type.basic)
      captured == SelectSeq(owner.fields, LAMBDA f : At(c.fields, f).captured)
      rules    ==
        IF ~IsPackage(c, type) THEN {<<"new of a number", IsNumeric(type)>>}
        ELSE IF owner.anon THEN {}
        ELSE {<<"new of no class", owner.category # "class">>,
              <<"new of a pointer", Contains(owner.descriptors, "pointer_t")>>,
              <<"private package",
                Private(owner.descriptors, TRUE) /\ ~inlined /\ type.basic # p.name>>}
  IN IF Broken(rules) # {} THEN Fails(rules)
     ELSE [errors |-> {},
           refs |-> IF IsPackage(c, type) /\ owner.anon
                      THEN [i \in DOMAIN captured |-> Reference("field", captured[i], 0, TRUE)]
                      ELSE <<>>]

(* Arguments that do not fill the last of ... with an array become one.    *)
Given(p, t) ==
  IF t.how = "method" THEN <<IF t.on = SelfType THEN Type(p.name) ELSE t.on>> \o t.args ELSE t.args

ArgsGiven(s, given) ==
  LET n == Len(s.args) IN
  IF s.vaarg /\ Len(given) >= n /\ ~IsArray(given[n]) THEN n ELSE Len(given)

CallErrors(s, t, given) ==
  IF (t.how = "method") # s.method THEN {<<"invalid call", TRUE>>}
  ELSE {<<"too many arguments", ArgsGiven(s, given) > Len(s.args)>>,
        <<"too few arguments", ArgsGiven(s, given) < Len(s.args)>>,
        <<"DESTROY is called", s.name = "DESTROY">>}

(* The call is bound to its subroutine, unless what the subroutine does    *)
(* takes the place of the call.                                            *)
Inline(c, p, s, id, invocant) ==
  CASE s.accessor = "enum" \/ IsConstant(s) ->
         Refers(Reference("constant", id, s.body[1].of.value, FALSE))
    [] s.accessor # "enum" /\ ~IsConstant(s) /\ IsSimpleConstructor(c, s) ->
         LET new == BindNew(c, p, s.body[1].of.type, TRUE) IN
         [new EXCEPT !.refs = Append(@, Reference("new", id, 0, FALSE))]
    [] s.accessor \in {"field getter", "field setter"} ->
         BindField(c, p, invocant, s.original, TRUE, s.accessor = "field setter")
    [] s.accessor \in {"var getter", "var setter"} ->
         BindVar(c, p, s.package, s.original, TRUE, s.accessor = "var setter")
    [] OTHER -> Refers(Reference("call", id, 0, FALSE))

BindCall(c, p, t) ==
  LET given == Given(p, t)
      id    == FindCall(c, p, IF t.how = "method" THEN [t EXCEPT !.on = given[1]] ELSE t)
      rules == IF id = -1 THEN {<<"unknown sub", TRUE>>}
               ELSE CallErrors(At(c.subs, id), t, given)
  IN IF Broken(rules) # {} THEN Fails(rules)
     ELSE Inline(c, p, At(c.subs, id), id, IF t.how = "method" THEN given[1] ELSE VoidType)

BindTerm(c, p, s) ==
  LET t == s.of IN
  CASE t.term = "call"  -> BindCall(c, p, t)
    [] t.term = "field" -> BindField(c, p, IF t.on = SelfType THEN Type(p.name) ELSE t.on,
                                     t.name, FALSE, s.assigns)
    [] t.term = "var"   -> BindVar(c, p, t.on, t.name, FALSE, s.assigns)
    [] t.term = "outer" -> BindOuter(c, p, t.name, s.assigns)
    [] t.term = "new"   -> BindNew(c, p, t.type, FALSE)
    [] OTHER            -> Silent

(* One subroutine of the tree.  The block of a require that failed is cut  *)
(* out.                                                                    *)
Checked(c, id) ==
  LET s     == At(c.subs, id)
      p     == PackageOf(c, s.package)
      kept  == {i \in DOMAIN s.body : s.body[i].require \notin c.failed}
      found == [i \in kept |-> BindTerm(c, p, s.body[i])]
      own   == Broken({<<"DESTROY argument", s.name = "DESTROY" /\ s.args # <<Type(s.package)>>>>,
                       <<"interface sub with a block",
                         p.category = "interface" /\ (s.block \/ Describes(s, {"native"}))>>})
  IN [errors |-> own \cup UNION {found[i].errors : i \in kept},
      refs   |-> UNION {{[package |-> s.package, sub |-> s.name, statement |-> i,
                          kind |-> r.kind, id |-> r.id, value |-> r.value, writes |-> r.writes]
                         : r \in ToSet(found[i].refs)} : i \in kept}]

SubOrder(c) == FlattenSeq([i \in DOMAIN c.packages |-> c.packages[i].subs])
=============================================================================
