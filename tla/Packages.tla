------------------------------ MODULE Packages ------------------------------
(***************************************************************************)
(* Packages: what the syntax tree builder (spvm_op.c) makes of the text of *)
(* a package, and the loader (spvm_toke.c) that reads one file after       *)
(* another from a queue to which the files it reads add.                   *)
(*                                                                         *)
(* The text of a file is a sequence of packages in the order in which the  *)
(* parser reduces them: the package of an anonymous subroutine comes       *)
(* before the one it is written in.  A package is a sequence of            *)
(* declarations, a subroutine a sequence of statements.  Of a statement    *)
(* only the term that names something outside the subroutine is kept.      *)
(* Names are well formed (no colons within, upper and lower case where     *)
(* they must be, the ending of a value type), package variables are        *)
(* written without their dollar, constants are numbers, and the limits on  *)
(* the number of members of a package are left out.                        *)
(*                                                                         *)
(* The parser reads on when a rule of the builder is broken, the checker   *)
(* stops at the first; the model names all rules that are.                 *)
(***************************************************************************)
EXTENDS Integers, Sequences, FiniteSets, SequencesExt, TLC

CONSTANT NameOrder   \* the names of the programs, as strcmp sorts them

Rank == [n \in ToSet(NameOrder) |-> CHOOSE i \in DOMAIN NameOrder : NameOrder[i] = n]
SortByName(s) == SortSeq(s, LAMBDA a, b : Rank[a.name] < Rank[b.name])

-----------------------------------------------------------------------------
(* The text of a program.                                                  *)

Type(b)    == [basic |-> b, dimension |-> 0, ref |-> FALSE]
ArrayOf(t) == [t EXCEPT !.dimension = @ + 1]
RefTo(t)   == [t EXCEPT !.ref = TRUE]
SelfType   == Type("self")
VoidType   == Type("void")

(* Terms.  A function is called by its name alone, a class method through  *)
(* a package, a method through an invocant of a class.                     *)
Call(how, on, name, args) ==
  [term |-> "call", how |-> how, on |-> on, name |-> name, args |-> args]
FieldAccess(type, name)  == [term |-> "field", on |-> type, name |-> name]
VarAccess(package, name) == [term |-> "var", on |-> package, name |-> name]
Outer(name)     == [term |-> "outer", name |-> name]
Constant(value) == [term |-> "constant", value |-> value]
New(type)       == [term |-> "new", type |-> type]
Nothing         == [term |-> "nothing"]

(* A statement may assign to its term, return it, and be in the block of   *)
(* if (require Package).                                                   *)
Do(t)       == [of |-> t, assigns |-> FALSE, returns |-> FALSE, require |-> ""]
Assign(t)   == [Do(t) EXCEPT !.assigns = TRUE]
Return(t)   == [Do(t) EXCEPT !.returns = TRUE]
IfRequire(package, s) == [s EXCEPT !.require = package]

(* Declarations.                                                           *)
Use(package, names)         == [decl |-> "use", package |-> package, names |-> names]
Our(name, type, descriptors) ==
  [decl |-> "our", name |-> name, type |-> type, descriptors |-> descriptors]
Has(name, type, descriptors) ==
  [decl |-> "has", name |-> name, type |-> type, descriptors |-> descriptors]
Enum(values)                == [decl |-> "enum", values |-> values]
Sub(name, ret, args, body)  ==
  [decl |-> "sub", name |-> name, ret |-> ret, args |-> args, body |-> body,
   descriptors |-> <<>>, vaarg |-> FALSE, block |-> TRUE, captures |-> <<>>,
   begin |-> FALSE, accessor |-> "", original |-> "", method |-> FALSE, package |-> ""]
Begin(body) == [Sub("BEGIN", VoidType, <<>>, body) EXCEPT !.begin = TRUE]

(* An anonymous subroutine, and the package of its own.                    *)
AnonPackage(sub) == [name |-> "", descriptors |-> <<>>, decls |-> <<[sub EXCEPT !.name = ""]>>]
Package(name, descriptors, decls) ==
  [name |-> name, descriptors |-> descriptors, decls |-> decls]

-----------------------------------------------------------------------------
(* The compiler's tables.  Ids are positions from zero in the lists of all *)
(* packages; a package has the ids of its members in order.                *)

CoreTypes ==
  <<"unknown", "undef", "void", "byte", "short", "int", "long", "float", "double",
    "string", "object", "oarray", "SPVM::Byte", "SPVM::Short", "SPVM::Int",
    "SPVM::Long", "SPVM::Float", "SPVM::Double", "CORE">>
FirstPackageType == 12

CorePackages ==
  <<"SPVM::CORE", "SPVM::Byte", "SPVM::Short", "SPVM::Int", "SPVM::Long",
    "SPVM::Float", "SPVM::Double">>

At(list, id) == list[id + 1]
Ids(base, members) == [i \in DOMAIN members |-> base + i - 1]

AddBasicType(c, name) ==
  IF Contains(c.basicTypes, name) THEN c ELSE [c EXCEPT !.basicTypes = Append(@, name)]

AddType(c, t) ==
  IF t = SelfType THEN c
  ELSE [AddBasicType(c, t.basic) EXCEPT !.types = Append(@, t)]

Request(package, require) == [package |-> package, require |-> require]

(* use in a text, or if (require ...): queued as it is parsed.             *)
AddUse(c, package, require) ==
  [AddType(c, Type(package)) EXCEPT !.queue = Append(@, Request(package, require))]

(* The uses the compiler and its callers add are queued twice, by          *)
(* build_use and by hand.                                                  *)
AddUseTwice(c, package) ==
  [AddUse(c, package, FALSE) EXCEPT !.queue = Append(@, Request(package, FALSE))]

NewCompiler ==
  FoldLeft(AddUseTwice,
    [queue |-> <<>>, opened |-> <<>>, types |-> <<>>, basicTypes |-> CoreTypes, packages |-> <<>>,
     fields |-> <<>>, vars |-> <<>>, subs |-> <<>>, failed |-> {}, anons |-> 0,
     errors |-> {}],
    CorePackages)

(* Rules are pairs of a name and whether it is broken.                     *)
Broken(rules) == {r[1] : r \in {x \in rules : x[2]}}

Declared(c, name)  == \E i \in DOMAIN c.packages : c.packages[i].name = name
PackageOf(c, name) == CHOOSE p \in ToSet(c.packages) : p.name = name

-----------------------------------------------------------------------------
(* Declarations.                                                           *)

Count(descriptors, some)   == Len(SelectSeq(descriptors, LAMBDA d : d \in some))
Describes(d, some)         == Count(d.descriptors, some) > 0
AccessorNames == {"ro", "rw", "wo"}
AccessNames   == {"private", "public"}
HasGetter(d)  == Describes(d, {"ro", "rw"})
HasSetter(d)  == Describes(d, {"wo", "rw"})

MemberErrors(d) ==
  Broken({<<"invalid descriptor", ~(ToSet(d.descriptors) \subseteq AccessorNames \cup AccessNames)>>,
          <<"two accessors", Count(d.descriptors, AccessorNames) > 1>>,
          <<"two access controls", Count(d.descriptors, AccessNames) > 1>>})

If(condition, s) == IF condition THEN <<s>> ELSE <<>>

(* Accessors read or write the member by an ordinary access.               *)
VarAccessors(d) ==
  LET access == VarAccess("", d.name) IN
  If(HasGetter(d), [Sub(d.name, d.type, <<>>, <<Return(access)>>)
                      EXCEPT !.accessor = "var getter", !.original = d.name]) \o
  If(HasSetter(d), [Sub("SET_" \o d.name, VoidType, <<d.type>>, <<Assign(access)>>)
                      EXCEPT !.accessor = "var setter", !.original = d.name])

FieldAccessors(d) ==
  LET access == FieldAccess(SelfType, d.name) IN
  If(HasGetter(d), [Sub(d.name, d.type, <<SelfType>>, <<Return(access)>>)
                      EXCEPT !.accessor = "field getter", !.original = d.name]) \o
  If(HasSetter(d), [Sub("set_" \o d.name, VoidType, <<SelfType, d.type>>, <<Assign(access)>>)
                      EXCEPT !.accessor = "field setter", !.original = d.name])

(* A value without a number is one more than the one before it.            *)
EnumValue(values, i) ==
  LET next[k \in 0..Len(values)] ==
        IF k = 0 THEN 0
        ELSE (IF values[k].number = <<>> THEN next[k - 1] ELSE values[k].number[1]) + 1
  IN next[i] - 1

EnumSubs(d) ==
  [i \in DOMAIN d.values |->
     [Sub(d.values[i].name, Type("int"), <<>>, <<Return(Constant(EnumValue(d.values, i)))>>)
        EXCEPT !.accessor = "enum"]]

SubsOf(d) ==
  CASE d.decl = "our"  -> VarAccessors(d)
    [] d.decl = "has"  -> FieldAccessors(d)
    [] d.decl = "enum" -> EnumSubs(d)
    [] d.decl = "sub"  -> <<d>>
    [] OTHER           -> <<>>

(* Captured variables become fields of the package of the subroutine.      *)
FieldRecord(name, type, descriptors, captured) ==
  [name |-> name, type |-> type, descriptors |-> descriptors, captured |-> captured, package |-> ""]

FieldsOf(d) ==
  CASE d.decl = "has" -> <<FieldRecord(d.name, d.type, d.descriptors, FALSE)>>
    [] d.decl = "sub" -> [i \in DOMAIN d.captures |->
                            FieldRecord(d.captures[i].name, d.captures[i].type, <<>>, TRUE)]
    [] OTHER          -> <<>>

VarsOf(d) ==
  IF d.decl = "our"
    THEN <<[name |-> d.name, type |-> d.type, descriptors |-> d.descriptors, package |-> ""]>>
    ELSE <<>>

(* build_sub: the first argument tells a method, a return is added where   *)
(* the text ends without one.                                              *)
NumericTypes == {"byte", "short", "int", "long", "float", "double"}

DefaultReturn(ret) ==
  Return(IF ret.dimension = 0 /\ ret.basic \in NumericTypes THEN Constant(0) ELSE Nothing)

EndsInReturn(body) == body # <<>> /\ Last(body).returns /\ Last(body).require = ""

BuildSub(s) ==
  [s EXCEPT !.method = s.args # <<>> /\ s.args[1] = SelfType,
            !.body = IF s.block /\ ~EndsInReturn(@) THEN Append(@, DefaultReturn(s.ret)) ELSE @]

SubErrors(s) ==
  Broken({<<"BEGIN is reserved", s.name = "BEGIN" /\ ~s.begin>>,
          <<"invalid descriptor", ~(ToSet(s.descriptors) \subseteq {"native", "precompile"})>>,
          <<"native and precompile", Describes(s, {"native"}) /\ Describes(s, {"precompile"})>>,
          <<"native with a block", Describes(s, {"native"}) /\ s.block>>,
          <<"DESTROY must be void", s.name = "DESTROY" /\ s.ret # VoidType>>})

-----------------------------------------------------------------------------
(* build_package.                                                          *)

AllSubs(text)   == FlattenSeq([i \in DOMAIN text.decls |-> SubsOf(text.decls[i])])
AllFields(text) == FlattenSeq([i \in DOMAIN text.decls |-> FieldsOf(text.decls[i])])
AllVars(text)   == FlattenSeq([i \in DOMAIN text.decls |-> VarsOf(text.decls[i])])
DeclsOf(text, kind) == SelectSeq(text.decls, LAMBDA d : d.decl = kind)

Category(descriptors) ==
  FoldLeft(LAMBDA category, d : CASE d = "interface_t" -> "interface"
                                  [] d = "pointer_t"   -> "class"
                                  [] d = "value_t"     -> "value"
                                  [] OTHER             -> category,
           "class", descriptors)

Repeats(s) == \E i, j \in DOMAIN s : i < j /\ s[i].name = s[j].name

ImportsOf(text) == FlattenSeq([i \in DOMAIN DeclsOf(text, "use") |-> DeclsOf(text, "use")[i].names])

BuildErrors(c, name, text, category, fields, vars, subs) ==
  Broken({<<"redeclaration of package", Declared(c, name)>>,
          <<"invalid package descriptor",
            ~(ToSet(text.descriptors) \subseteq {"interface_t", "pointer_t", "value_t"} \cup AccessNames)>>,
          <<"two categories", Count(text.descriptors, {"interface_t", "pointer_t", "value_t"}) > 1>>,
          <<"two access controls", Count(text.descriptors, AccessNames) > 1>>,
          <<"import twice", Cardinality(ToSet(ImportsOf(text))) # Len(ImportsOf(text))>>,
          <<"interface with a variable", category = "interface" /\ vars # <<>>>>,
          <<"interface with a field", category = "interface" /\ DeclsOf(text, "has") # <<>>>>,
          <<"pointer with a field", Contains(text.descriptors, "pointer_t") /\ fields # <<>>>>,
          <<"redeclaration of field", Repeats(fields)>>,
          <<"redeclaration of variable", Repeats(vars)>>,
          <<"redeclaration of sub", Repeats(subs)>>,
          <<"sub is imported", \E i \in DOMAIN subs : Contains(ImportsOf(text), subs[i].name)>>,
          <<"interface sub is no method", category = "interface" /\ \E i \in DOMAIN subs : ~subs[i].method>>,
          <<"anonymous sub is no method", \E i \in DOMAIN subs : subs[i].name = "" /\ ~subs[i].method>>,
          <<"interface without its method", category = "interface" /\ Len(subs) # 1>>})
  \cup UNION {SubErrors(subs[i]) : i \in DOMAIN subs}
  \cup UNION {MemberErrors(text.decls[i]) :
                i \in {k \in DOMAIN text.decls : text.decls[k].decl \in {"our", "has"}}}

(* The invocant gets the type of the package.                              *)
OwnSub(s, package) ==
  [s EXCEPT !.package = package, !.args = IF s.method THEN [@ EXCEPT ![1] = Type(package)] ELSE @]

Owned(members, package) == [i \in DOMAIN members |-> [members[i] EXCEPT !.package = package]]

MembersUnsorted(c, text) ==
  LET subs == AllSubs(text) IN
  [fields |-> AllFields(text),
   vars   |-> AllVars(text),
   subs   |-> [i \in DOMAIN subs |-> BuildSub(subs[i])]]

(* Members are sorted by name, but the fields of value types.              *)
Members(c, text) ==
  LET subs   == AllSubs(text)
      fields == AllFields(text)
  IN [fields |-> IF Category(text.descriptors) = "value" THEN fields ELSE SortByName(fields),
      vars   |-> SortByName(AllVars(text)),
      subs   |-> SortByName([i \in DOMAIN subs |-> BuildSub(subs[i])])]

IdNamed(ids, list, name) ==
  IF \E i \in DOMAIN ids : At(list, ids[i]).name = name
    THEN CHOOSE id \in ToSet(ids) : At(list, id).name = name
    ELSE -1

BuildPackage(c, text) ==
  LET anon     == text.name = ""
      name     == IF anon THEN "anon" \o ToString(c.anons) ELSE text.name
      category == Category(text.descriptors)
      members  == Members(c, text)
      subs     == [i \in DOMAIN members.subs |-> OwnSub(members.subs[i], name)]
      allSubs  == c.subs \o subs
      subIds   == Ids(Len(c.subs), subs)
      package  == [name     |-> name,
                   category |-> category,
                   descriptors |-> text.descriptors,
                   anon     |-> \E i \in DOMAIN subs : subs[i].name = "",
                   uses     |-> DeclsOf(text, "use"),
                   fields   |-> Ids(Len(c.fields), members.fields),
                   vars     |-> Ids(Len(c.vars), members.vars),
                   subs     |-> subIds,
                   begin    |-> IdNamed(subIds, allSubs, "BEGIN"),
                   destructor |-> IdNamed(subIds, allSubs, "DESTROY")]
  IN [AddBasicType(c, name) EXCEPT
        !.packages = IF Declared(c, name) THEN @ ELSE Append(@, package),
        !.fields   = @ \o Owned(members.fields, name),
        !.vars     = @ \o Owned(members.vars, name),
        !.subs     = allSubs,
        !.anons    = IF anon THEN @ + 1 ELSE @,
        !.errors   = @ \cup BuildErrors(c, name, text, category, members.fields, members.vars, members.subs)]

-----------------------------------------------------------------------------
(* The parser and the loader.                                              *)

TermTypes(t) ==
  CASE t.term = "call" /\ t.how = "class" -> <<Type(t.on)>>
    [] t.term = "new"                     -> <<t.type>>
    [] OTHER                              -> <<>>

ParseStatement(c, s) ==
  LET required == IF s.require = "" THEN c ELSE AddUse(c, s.require, TRUE)
  IN FoldLeft(AddType, required, TermTypes(s.of))

ParseDecl(c, d) ==
  CASE d.decl = "use"            -> AddUse(c, d.package, FALSE)
    [] d.decl \in {"our", "has"} -> AddType(c, d.type)
    [] d.decl = "enum"           -> AddType(c, Type("int"))
    [] d.decl = "sub"            ->
         LET captured == [i \in DOMAIN d.captures |-> d.captures[i].type] IN
         FoldLeft(ParseStatement, FoldLeft(AddType, c, captured \o <<d.ret>> \o d.args), d.body)

ParsePackage(c, text) ==
  LET named == IF text.name = "" THEN c ELSE AddType(c, Type(text.name))
  IN BuildPackage(FoldLeft(ParseDecl, named, text.decls), text)

(* The next request of the queue.                                          *)
Take(c) == [c EXCEPT !.queue = Tail(@)]

ReadFile(c, name, files) ==
  [FoldLeft(ParsePackage, Take(c), files[name]) EXCEPT !.opened = Append(@, name)]

FailedRequire(c, name) ==
  [BuildPackage(c, Package(name, <<>>, <<>>)) EXCEPT !.failed = @ \cup {name}]

(* A loader that does not look at what is declared.                        *)
LoadNextAgain(c, files) ==
  LET name == Head(c.queue).package IN
  IF name \in DOMAIN files THEN ReadFile(c, name, files)
  ELSE [Take(c) EXCEPT !.errors = @ \cup {"can't locate"}]

(* What is declared already is not read again; a file that is missing ends *)
(* the parse unless it was required, then an empty package stands for it.  *)
LoadNext(c, files) ==
  LET request == Head(c.queue)
      name    == request.package
  IN CASE Declared(c, name)     -> Take(c)
       [] name \in DOMAIN files -> ReadFile(c, name, files)
       [] request.require       -> FailedRequire(Take(c), name)
       [] OTHER                 -> [Take(c) EXCEPT !.errors = @ \cup {"can't locate"}]
=============================================================================
