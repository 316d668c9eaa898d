------------------------------ MODULE Programs ------------------------------
(***************************************************************************)
(* Programs: a program from its files to the host that uses it.  The       *)
(* compiler (spvm_compiler.c) loads the files, checks the packages and     *)
(* then one subroutine after another; the image is built, the BEGIN blocks *)
(* run in the order of the packages, and the host reads and writes fields  *)
(* and package variables by the names the texts gave them.                 *)
(*                                                                         *)
(* Of the code that BEGIN and the setters run, the assignments to members  *)
(* count here; what the opcodes do is the subject of other modules.        *)
(***************************************************************************)
EXTENDS PackageImage

CONSTANTS Repositories,   \* the programs: their files, and the package asked for
          MaxValue        \* the host writes values from 0 to MaxValue

ASSUME ProgramsAssumption ==
  /\ MaxValue \in Nat \ {0}
  /\ \A r \in Repositories : ToSet(CorePackages) \subseteq DOMAIN r.files

VARIABLES
  repo,     \* the program
  pc,       \* what is done next
  comp,     \* the tables of the compiler
  done,     \* how many subroutines are checked, then packages begun
  refs,     \* what the statements checked so far refer to
  rt,       \* the runtime
  object,   \* the object of the host
  wrote     \* what was last written to fields and variables, by name

vars == <<repo, pc, comp, done, refs, rt, object, wrote>>

NoRuntime == [types |-> <<>>]
NoObject  == [type |-> -1, bytes |-> <<>>]

(* The value a BEGIN block writes.                                         *)
BeginValue == MaxValue + 1

Init ==
  /\ repo \in Repositories
  /\ comp = AddUseTwice(NewCompiler, repo.entry)
  /\ pc = "load" /\ done = 0 /\ refs = {}
  /\ rt = NoRuntime /\ object = NoObject
  /\ wrote = [fields |-> <<>>, vars |-> <<>>]

-----------------------------------------------------------------------------
(* SPVM_COMPILER_compile.                                                  *)

Located == "can't locate" \notin comp.errors

UnlessErrors(phase) == pc' = IF comp'.errors = {} THEN phase ELSE "failed"

Load ==
  /\ pc = "load" /\ comp.queue # <<>> /\ Located
  /\ comp' = LoadNext(comp, repo.files)
  /\ UNCHANGED <<repo, pc, done, refs, rt, object, wrote>>

EndLoad ==
  /\ pc = "load" /\ (comp.queue = <<>> \/ ~Located)
  /\ UNCHANGED comp
  /\ UnlessErrors("types")
  /\ UNCHANGED <<repo, done, refs, rt, object, wrote>>

ResolveTypes ==
  /\ pc = "types"
  /\ comp' = [comp EXCEPT !.errors = TypeErrors(comp)]
  /\ UnlessErrors("packages")
  /\ UNCHANGED <<repo, done, refs, rt, object, wrote>>

ResolveAllPackages ==
  /\ pc = "packages"
  /\ comp' = ResolvePackages(comp)
  /\ UnlessErrors("subs")
  /\ UNCHANGED <<repo, done, refs, rt, object, wrote>>

CheckSub ==
  /\ pc = "subs" /\ done < Len(SubOrder(comp))
  /\ LET result == Checked(comp, SubOrder(comp)[done + 1]) IN
     /\ comp' = [comp EXCEPT !.errors = result.errors]
     /\ refs' = refs \cup result.refs
  /\ UnlessErrors("subs")
  /\ done' = done + 1
  /\ UNCHANGED <<repo, rt, object, wrote>>

(* The image and the runtime; all variables are zero.                      *)
MembersOf(list) == {<<list[i].package, list[i].name>> : i \in DOMAIN list}

BuildImage ==
  /\ pc = "subs" /\ done = Len(SubOrder(comp))
  /\ rt' = BuildRuntime(BuildPortable(comp))
  /\ wrote' = [wrote EXCEPT !.vars = [m \in MembersOf(comp.vars) |-> 0]]
  /\ pc' = "begin" /\ done' = 0
  /\ UNCHANGED <<repo, comp, refs, object>>

-----------------------------------------------------------------------------
(* What the program says, apart from the tables of the compiler.           *)

Texts == {t \in UNION {ToSet(repo.files[f]) : f \in ToSet(comp.opened)} : t.name # ""}

TextNamed(package) == {t \in Texts : t.name = package}
MemberNames(list) == {list[i].name : i \in DOMAIN list}
SubsSaid(package)   == UNION {MemberNames(AllSubs(t)) : t \in TextNamed(package)}
DeclsSaid(package)  == UNION {ToSet(t.decls) : t \in TextNamed(package)}

(* The member an accessor stands for, [name, sets].                        *)
Behind(package, name) ==
  {[name |-> d.name, sets |-> FALSE] :
     d \in {x \in DeclsSaid(package) : x.decl \in {"has", "our"} /\ HasGetter(x) /\ x.name = name}}
  \cup
  {[name |-> d.name, sets |-> TRUE] :
     d \in {x \in DeclsSaid(package) :
              \/ x.decl = "has" /\ HasSetter(x) /\ "set_" \o x.name = name
              \/ x.decl = "our" /\ HasSetter(x) /\ "SET_" \o x.name = name}}

(* The package whose subroutine a call means: for a function the package   *)
(* it is written in, one it imports the name from, or the core.            *)
PackageMeant(package, t) ==
  LET importers == {d \in DeclsSaid(package) :
                      d.decl = "use" /\ Contains(d.names, t.name) /\ t.name \in SubsSaid(d.package)}
  IN CASE t.how = "class"  -> t.on
       [] t.how = "method" -> IF t.on = SelfType THEN package ELSE t.on.basic
       [] t.how = "function" ->
            IF t.name \in SubsSaid(package) THEN package
            ELSE IF importers # {} THEN (CHOOSE d \in importers : TRUE).package
            ELSE "SPVM::CORE"

(* What a statement assigns to: variables <<package, name>>.               *)
VarsAssigned(package, s) ==
  LET t == s.of IN
  CASE t.term = "var" /\ s.assigns -> {<<IF t.on = "" THEN package ELSE t.on, t.name>>}
    [] t.term = "call" /\ t.how # "method" ->
         LET owner == PackageMeant(package, t) IN
         {<<owner, m.name>> : m \in {x \in Behind(owner, t.name) : x.sets}}
    [] OTHER -> {}

-----------------------------------------------------------------------------
(* The program that runs.                                                  *)

Writes(package, sub, kind) ==
  {b.id : b \in {x \in refs : x.package = package /\ x.sub = sub /\ x.kind = kind /\ x.writes}}

Kept(body) == {i \in DOMAIN body : body[i].require \in {""} \cup DOMAIN repo.files}

(* The BEGIN block of the next package.                                    *)
CallBegin ==
  /\ pc = "begin" /\ done < Len(rt.packages)
  /\ LET p == At(rt.packages, done)
         said == {d \in DeclsSaid(p.name) : d.decl = "sub" /\ d.name = "BEGIN"}
         meant == UNION {UNION {VarsAssigned(p.name, d.body[i]) : i \in Kept(d.body)} : d \in said}
     IN /\ rt' = IF p.begin = -1 THEN rt
                 ELSE [rt EXCEPT !.varsHeap =
                         [k \in DOMAIN @ |-> IF k - 1 \in Writes(p.name, At(rt.subs, p.begin).name, "var")
                                               THEN BeginValue ELSE @[k]]]
        /\ wrote' = [wrote EXCEPT !.vars =
                       [m \in DOMAIN @ |-> IF m \in meant THEN BeginValue ELSE @[m]]]
  /\ done' = done + 1
  /\ UNCHANGED <<repo, pc, comp, refs, object>>

EndBegin ==
  /\ pc = "begin" /\ done = Len(rt.packages)
  /\ pc' = "run"
  /\ UNCHANGED <<repo, comp, done, refs, rt, object, wrote>>

(* The host.                                                               *)
Classes == {p \in ToSet(rt.packages) : p.category = "class" /\ p.fieldsLength > 0}
FieldsSaid(package) == {f \in ToSet(comp.fields) : f.package = package}
ObjectPackage == At(rt.packages, At(rt.types, object.type).package).name

CreateObject(p) ==
  /\ pc = "run" /\ object = NoObject
  /\ object' = NewObject(rt, BasicType(rt, p.name))
  /\ wrote' = [wrote EXCEPT !.fields = [n \in {f.name : f \in FieldsSaid(p.name)} |-> 0]]
  /\ UNCHANGED <<repo, pc, comp, done, refs, rt>>

SetFieldNamed(f, value) ==
  /\ pc = "run" /\ object # NoObject /\ f.package = ObjectPackage
  /\ LET id == FieldId(rt, f.package, f.name, MemberSignature(f)) IN
     /\ id # -1
     /\ object' = SetField(rt, object, id, value)
  /\ wrote' = [wrote EXCEPT !.fields[f.name] = value]
  /\ UNCHANGED <<repo, pc, comp, done, refs, rt>>

(* The setter of a field is found as a method of the object, and assigns   *)
(* to the field its access refers to.                                      *)
CallSetter(f, value) ==
  /\ pc = "run" /\ object # NoObject /\ f.package = ObjectPackage /\ HasSetter(f)
  /\ LET s == At(rt.subs, MethodSubId(rt, object.type, "set_" \o f.name,
                                      <<VoidType, SelfType>> \o MemberSignature(f)))
     IN \E id \in Writes(At(rt.packages, s.package).name, s.name, "field") :
          object' = SetField(rt, object, id, value)
  /\ wrote' = [wrote EXCEPT !.fields[f.name] = value]
  /\ UNCHANGED <<repo, pc, comp, done, refs, rt>>

SetVarNamed(v, value) ==
  /\ pc = "run"
  /\ LET id == PkgvarId(rt, v.package, v.name, MemberSignature(v)) IN
     /\ id # -1
     /\ rt' = SetPkgvar(rt, id, value)
  /\ wrote' = [wrote EXCEPT !.vars[v.package, v.name] = value]
  /\ UNCHANGED <<repo, pc, comp, done, refs, object>>

Host ==
  \/ \E p \in Classes : CreateObject(p)
  \/ \E value \in 0..MaxValue :
       \/ \E f \in ToSet(comp.fields) : SetFieldNamed(f, value) \/ CallSetter(f, value)
       \/ \E v \in ToSet(comp.vars) : SetVarNamed(v, value)

Next ==
  \/ Load \/ EndLoad \/ ResolveTypes \/ ResolveAllPackages \/ CheckSub \/ BuildImage
  \/ CallBegin \/ EndBegin
  \/ pc = "run" /\ Host

Spec == Init /\ [][Next]_vars

-----------------------------------------------------------------------------
Requires(t) ==
  {s.require : s \in UNION {ToSet(d.body) : d \in {x \in ToSet(t.decls) : x.decl = "sub"}}} \ {""}

Asked ==
  ToSet(CorePackages) \cup {repo.entry}
  \cup UNION {{d.package : d \in {x \in ToSet(t.decls) : x.decl = "use"}} \cup Requires(t) : t \in Texts}

(* Every file that declares its own package is read at most once, however  *)
(* often and from wherever it is asked for, also when packages use each    *)
(* other in a circle; no file is read that nothing asked for; and once the *)
(* types are resolved everything asked for is declared.                    *)
LoadedOnce ==
  pc \notin {"begin", "run"} =>
  /\ \A i, j \in DOMAIN comp.opened :
       comp.opened[i] = comp.opened[j]
         /\ comp.opened[i] \in {t.name : t \in ToSet(repo.files[comp.opened[i]])} => i = j
  /\ ToSet(comp.opened) \subseteq Asked
  /\ pc \notin {"load", "types", "failed"} => \A p \in Asked : Declared(comp, p)

NamedBy(b) ==
  LET m == CASE b.kind = "field" -> At(comp.fields, b.id)
             [] b.kind = "var"   -> At(comp.vars, b.id)
             [] OTHER            -> At(comp.subs, b.id)
  IN <<m.package, m.name>>

EnumNumber(d, i) ==
  LET given == {k \in 1..i : d.values[k].number # <<>>} IN
  IF given = {} THEN i - 1
  ELSE LET k == CHOOSE x \in given : \A y \in given : y <= x IN d.values[k].number[1] + i - k

ConstantsSaid(package, name) ==
  {EnumNumber(e[1], e[2]) :
     e \in UNION {{<<d, i>> : i \in {k \in DOMAIN d.values : d.values[k].name = name}} :
                    d \in {x \in DeclsSaid(package) : x.decl = "enum"}}}
  \cup {d.body[1].of.value : d \in {x \in DeclsSaid(package) :
          x.decl = "sub" /\ x.name = name /\ x.body # <<>> /\ x.body[1].of.term = "constant"}}

CallMeans(b, t) ==
  LET owner  == PackageMeant(b.package, t)
      behind == Behind(owner, t.name)
  IN CASE b.kind = "constant"          -> ConstantsSaid(owner, t.name) \in {{}, {b.value}}
       [] b.kind \in {"call", "new"}   -> behind = {} /\ NamedBy(b) = <<owner, t.name>> /\ ~b.writes
       [] b.kind \in {"field", "var"}  ->
            behind # {} => \E m \in behind : NamedBy(b) = <<owner, m.name>> /\ b.writes = m.sets

PrivateSaid(kind, member) ==
  \E t \in TextNamed(member[1]) :
    /\ kind = "var" \/ Category(t.descriptors) # "value"
    /\ \E d \in ToSet(t.decls) :
         /\ d.decl = (IF kind = "var" THEN "our" ELSE "has") /\ d.name = member[2]
         /\ ~Contains(d.descriptors, "public")

(* Whatever order the files were read in, each statement refers to the     *)
(* member its text means: a function of the package itself rather than an  *)
(* import, an import rather than the core; for an accessor the field or    *)
(* variable behind it, read or written as the accessor does; for an        *)
(* enumeration the number it was given or counts up to; and a private      *)
(* member is reached from another package only through an accessor.        *)
CallsBind ==
  pc \in {"subs", "failed"} =>
  \A b \in refs :
    LET sub == CHOOSE x \in ToSet(comp.subs) : x.package = b.package /\ x.name = b.sub
        s   == sub.body[b.statement]
        t   == s.of
    IN /\ t.term \in {"field", "var"} /\ NamedBy(b)[1] # b.package => ~PrivateSaid(t.term, NamedBy(b))
       /\ CASE t.term = "call"  -> CallMeans(b, t)
            [] t.term = "field" -> /\ NamedBy(b) = <<IF t.on = SelfType THEN b.package ELSE t.on.basic, t.name>>
                                   /\ b.writes = s.assigns
            [] t.term = "var"   -> /\ NamedBy(b) = <<IF t.on = "" THEN b.package ELSE t.on, t.name>>
                                   /\ b.writes = s.assigns
            [] t.term = "outer" -> NamedBy(b) = <<b.package, t.name>> /\ b.writes = s.assigns
            [] t.term = "new"   -> NamedBy(b)[1] = t.type.basic /\ b.writes

IdOf(list, package, name) ==
  IF \E i \in DOMAIN list : list[i].package = package /\ list[i].name = name
    THEN (CHOOSE i \in DOMAIN list : list[i].package = package /\ list[i].name = name) - 1
    ELSE -1

Finds(Find(_, _, _), list, package, SignatureOf(_)) ==
  /\ \A i \in DOMAIN list :
       list[i].package = package => Find(package, list[i].name, SignatureOf(list[i])) = i - 1
  /\ \A name \in ToSet(NameOrder) :
       IdOf(list, package, name) = -1
         => \A i \in DOMAIN list : Find(package, name, SignatureOf(list[i])) = -1

(* The native interface finds every member of a package that was declared, *)
(* by its name and signature, and no member that was not, though it        *)
(* searches by halves in tables that the builder sorted and the checker    *)
(* numbered; and a subroutine has its own arguments.  (The fields of value *)
(* types are not sorted and are found by chance only; a package without    *)
(* members of a kind is not searched for them.)                            *)
LookupsExact ==
  pc = "begin" /\ done = 0 =>
    /\ \A p \in ToSet(rt.packages) :
         /\ p.fieldsLength > 0 /\ p.category # "value" =>
              Finds(LAMBDA a, n, s : FieldId(rt, a, n, s), comp.fields, p.name, MemberSignature)
         /\ p.varsLength > 0 =>
              Finds(LAMBDA a, n, s : PkgvarId(rt, a, n, s), comp.vars, p.name, MemberSignature)
         /\ Finds(LAMBDA a, n, s : SubId(rt, a, n, s), comp.subs, p.name, SubSignature)
    /\ \A i \in DOMAIN rt.subs :
         SubSeq(rt.args, rt.subs[i].argsBase + 1, rt.subs[i].argsBase + rt.subs[i].argsLength)
           = ArgTypes(comp.subs[i])

(* A field or a variable that is read by name holds what was last written  *)
(* to it, by name, by a setter or by a BEGIN block, whatever else was      *)
(* written since: no two fields of an object share a byte or reach beyond  *)
(* its block.                                                              *)
ReadsAsWritten ==
  pc \in {"begin", "run"} =>
    /\ object # NoObject =>
         \A f \in FieldsSaid(ObjectPackage) :
           LET id == FieldId(rt, f.package, f.name, MemberSignature(f))
               at == At(rt.fields, id).offset
           IN /\ at + AccessWidth(f.type) - 1 \in DOMAIN object.bytes
              /\ Field(rt, object, id) = wrote.fields[f.name]
    /\ \A v \in ToSet(comp.vars) :
         Pkgvar(rt, PkgvarId(rt, v.package, v.name, MemberSignature(v))) = wrote.vars[v.package, v.name]
=============================================================================
