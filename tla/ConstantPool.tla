---------------------------- MODULE ConstantPool ----------------------------
(***************************************************************************)
(* How opcodes reach what does not fit into their operands: types, ids of  *)
(* subroutines, fields and package variables, constants, tables of switch  *)
(* statements.  The checker (spvm_op_checker.c) puts each into the         *)
(* constant pool of the package it compiles and remembers the index in the *)
(* syntax tree, finding through symbol tables what the pool already has;   *)
(* the builder (spvm_opcode_builder.c) writes the branches of switches     *)
(* into the pools and the indexes into the opcodes; the portable image     *)
(* (spvm_portable.c) joins the pools; the virtual machine and the          *)
(* precompiler read it relative to the base of their package.              *)
(*                                                                         *)
(* A 64 bit value is its two words, a text the sequence of its characters. *)
(* Index 0 of a pool or buffer is never used, so that sequences here have  *)
(* the indexes of the code.  An opcode and its path through the checker is *)
(* one action; which comes next is the program.                            *)
(***************************************************************************)
EXTENDS SymbolHash, FiniteSetsExt

CONSTANTS
  Packages,       \* how many there are; they are compiled in order
  PoolCapacity,   \* initial capacity of a pool (64)
  BufferCapacity, \* initial capacity of the string pool (0xFFFF)
  Names,          \* the texts the runtime finds things by
  Menus,          \* families of programs: what they refer to and how often
  ConstantSubs,   \* name -> the constant a subroutine does nothing but return
  Callers,        \* name -> the packages that call it
  Values          \* what switches are given

ASSUME CapacityAssumption ==
  /\ Packages \in Nat \ {0} /\ PoolCapacity \in Nat \ {0, 1, 2} /\ BufferCapacity \in Nat \ {0}
  /\ \A n \in Names : Len(n) < BufferCapacity
  /\ \A m \in Menus : \A c \in m.constants : c.kind = "string" => Len(c.of) < BufferCapacity

Pairs   == {"type", "array_init", "long", "double"}
Singles == {"sub", "var", "field"}

(* A 64 bit value and a type are two numbers, an id is one, a text is any  *)
(* number of characters; only a name has no zero among them.               *)
ASSUME ProgramAssumption ==
  /\ \A n \in Names : n \in Seq(Nat \ {0})
  /\ \A m \in Menus :
       /\ \A c \in m.constants :
            /\ c \in [kind : Pairs \union Singles \union {"string"}, of : Seq(Nat)]
            /\ c.kind \in Pairs => Len(c.of) = 2
            /\ c.kind \in Singles => Len(c.of) = 1
       /\ \A s \in m.switches : s.cases \in Seq(Int) \ {<<>>} /\ s.default \in BOOLEAN

VARIABLES
  phase,    \* "names", "check", "build", "run"
  package,  \* the package being checked
  menu,     \* the family of the program
  pools,    \* package->constant_pool
  tables,   \* the symbol tables of each package
  lists,    \* info_*_ids of each package, in order
  listIds,  \* no_dup_*_constant_pool_id
  strings,  \* compiler->string_pool and string_symtable
  poolIds,  \* constant_pool_id of the nodes of the syntax tree
  uses,     \* the opcodes: package, what they refer to, the node with the id
  switches, \* the switch statements
  image     \* the portable image

vars == <<phase, package, menu, pools, tables, lists, listIds, strings, poolIds, uses, switches, image>>

ListKinds == {"var", "field", "sub", "basic"}
BasicByte == 3
BasicDouble == 8
BasicString == 9
Nul == 0

-----------------------------------------------------------------------------
(* Growing pools.                                                          *)

(* The deviation lets the pool fill up before it grows.                    *)
PushLate(pool, value) ==
  [values |-> Append(pool.values, value),
   capacity |-> IF Len(pool.values) + 1 > pool.capacity THEN 2 * pool.capacity ELSE pool.capacity]
Push(pool, value) ==
  [values |-> Append(pool.values, value),
   capacity |-> IF Len(pool.values) + 2 >= pool.capacity THEN 2 * pool.capacity ELSE pool.capacity]

Pushed(pool, values) ==
  LET pushed[n \in 0..Len(values)] == IF n = 0 THEN pool ELSE Push(pushed[n - 1], values[n])
  IN pushed
PushAll(pool, values) == Pushed(pool, values)[Len(values)]

NextId(pool) == Len(pool.values) + 1

(* Adding a text doubles the buffer once at most.                          *)
AddText(text) ==
  LET length == Len(strings.buffer) + 1 + Len(text)
  IN [strings EXCEPT !.buffer = @ \o text,
                     !.capacity = IF length > @ THEN 2 * @ ELSE @]

(* The id of a text already there, or one for the text appended; either    *)
(* way the text is in the symbol table under it.                           *)
PoolText(text) ==
  LET key == Append(text, Nul)
      added == AddText(key)
  IN [added EXCEPT !.symtable = Insert(@, key, Len(key), Len(strings.buffer) + 1)]

(* Names are added once.  The deviation leaves out the terminating zero.   *)
NameUnterminated(text) ==
  LET key == Append(text, Nul)
      added == AddText(text)
  IN IF Fetch(strings.symtable, key) # Missing THEN strings
     ELSE [added EXCEPT !.symtable = Insert(@, key, Len(key), Len(strings.buffer) + 1)]
NamePooled(text) ==
  IF Fetch(strings.symtable, Append(text, Nul)) # Missing THEN strings ELSE PoolText(text)

-----------------------------------------------------------------------------
(* What constants are made of.                                             *)

RuntimeType(type) == IF type[1] = BasicString THEN <<BasicByte, type[2] + 1>> ELSE type

(* constant_pool_32bit_value_symtable serves subroutines, fields and       *)
(* package variables, which are told apart by what reads the entry.        *)
TableOf(kind) ==
  CASE kind = "type" -> "types"
    [] kind \in {"long", "double"} -> "wide"
    [] OTHER -> "ids"

(* The bytes of a 64 bit value are its low word and then its high word; a  *)
(* pool has the high word first.                                           *)
KeyOf(c) ==
  CASE c.kind = "type" -> RuntimeType(c.of)
    [] c.kind \in {"long", "double"} -> <<c.of[2], c.of[1]>>
    [] OTHER -> c.of

CellsOf(c) == IF c.kind = "type" THEN RuntimeType(c.of) ELSE c.of

(* What a package knows: [pool, tables, lists].  Interned finds a key or   *)
(* pushes its cells; the id is that of the key afterwards.                 *)
Interned(known, table, key, cells) ==
  IF Fetch(known.tables[table], key) # Missing THEN known
  ELSE [known EXCEPT !.pool = PushAll(@, cells),
                     !.tables[table] = Insert(@, key, 4 * Len(key), NextId(known.pool))]

(* An id is added to a list unless the symbol table of the list has it.    *)
Listed(known, kind, id) ==
  IF Fetch(known.tables[kind], <<id>>) # Missing THEN known
  ELSE [known EXCEPT !.lists[kind] = Append(@, id),
                     !.tables[kind] = Insert(@, <<id>>, 4, 1)]

Known == [pool |-> pools[package], tables |-> tables[package], lists |-> lists[package]]

Keep(known) ==
  /\ pools' = [pools EXCEPT ![package] = known.pool]
  /\ tables' = [tables EXCEPT ![package] = known.tables]
  /\ lists' = [lists EXCEPT ![package] = known.lists]

(* The node that holds the id of the opcode added next.                    *)
OwnNode == <<"node", Len(uses) + 1>>

Refer(c, node, id) ==
  /\ uses' = Append(uses, [package |-> package, constant |-> c, node |-> node])
  /\ poolIds' = [n \in DOMAIN poolIds \union {node} |-> IF n = node THEN id ELSE poolIds[n]]

Room == phase = "check" /\ Len(uses) + Len(switches) < menu.uses

-----------------------------------------------------------------------------
(* The checker.                                                            *)

Name(text) ==
  /\ phase = "names"
  /\ strings' = NamePooled(text)
  /\ UNCHANGED <<phase, package, menu, pools, tables, lists, listIds, poolIds, uses, switches, image>>

NamesDone ==
  /\ phase = "names"
  /\ \A n \in Names : Fetch(strings.symtable, Append(n, Nul)) # Missing
  /\ phase' = "check"
  /\ UNCHANGED <<package, menu, pools, tables, lists, listIds, strings, poolIds, uses, switches, image>>

(* new, isa and conversions: add_type_info_to_constant_pool.               *)
TypeKnown(known, type) ==
  LET runtime == RuntimeType(type)
  IN Interned(Listed(known, "basic", runtime[1]), "types", runtime, runtime)

UseType(c) ==
  /\ Room /\ c.kind = "type"
  /\ LET known == TypeKnown(Known, c.of)
     IN Keep(known) /\ Refer(c, OwnNode, Fetch(known.tables.types, KeyOf(c)))
  /\ UNCHANGED <<phase, package, menu, listIds, strings, switches, image>>

(* Calls and accesses to fields and package variables.                     *)
UseId(c) ==
  /\ Room /\ c.kind \in {"sub", "var", "field"}
  /\ LET known == Listed(Interned(Known, "ids", c.of, c.of), c.kind, c.of[1])
     IN Keep(known) /\ Refer(c, OwnNode, Fetch(known.tables.ids, c.of))
  /\ UNCHANGED <<phase, package, menu, listIds, strings, switches, image>>

(* [a, b, c]: an array is created and assigned to.  The types of the       *)
(* elements and of the array are pooled under tables of their own before   *)
(* the new expression made from the list is checked.                       *)
IsNumeric(type) == type[2] = 0 /\ type[1] \in BasicByte..BasicDouble

ArrayInit(c) ==
  /\ Room /\ c.kind = "array_init"
  /\ LET array == <<c.of[1], c.of[2] + 1>>
         listed == Listed(Known, "basic", c.of[1])
         element == IF IsNumeric(c.of) THEN Known ELSE Interned(listed, "wide", c.of, c.of)
         init == Interned(Listed(element, "basic", array[1]), "ids", array, array)
         known == TypeKnown(init, array)
         new == [kind |-> "type", of |-> array]
     IN Keep(known) /\ Refer(new, OwnNode, Fetch(known.tables.types, KeyOf(new)))
  /\ UNCHANGED <<phase, package, menu, listIds, strings, switches, image>>

(* A call of a subroutine that only returns a constant is replaced by that *)
(* constant: the node is the one in the body of the subroutine.            *)
ConstantNode(c) ==
  {OwnNode} \union
  {<<"sub", s>> : s \in {s \in DOMAIN ConstantSubs : ConstantSubs[s] = c /\ package \in Callers[s]}}

(* The case of long falls through to that of double, which finds the entry *)
(* just made.                                                              *)
IsWide(c) == c.kind \in {"long", "double"}
WideConstant(c, node) ==
  /\ Room /\ IsWide(c) /\ node \in ConstantNode(c)
  /\ LET known == Interned(Known, "wide", KeyOf(c), c.of)
     IN Keep(known) /\ Refer(c, node, Fetch(known.tables.wide, KeyOf(c)))
  /\ UNCHANGED <<phase, package, menu, listIds, strings, switches, image>>

(* package->string_symtable is searched but nothing is ever inserted in    *)
(* it: a string is added to both pools each time it occurs.                *)
StringConstant(c, node) ==
  /\ Room /\ c.kind = "string" /\ node \in ConstantNode(c)
  /\ strings' = PoolText(c.of)
  /\ pools' = [pools EXCEPT ![package] = PushAll(@, <<Len(c.of), Len(strings.buffer) + 1>>)]
  /\ Refer(c, node, NextId(pools[package]))
  /\ UNCHANGED <<phase, package, menu, tables, lists, listIds, switches, image>>

(* The cases are sorted by exchanges.  The deviation does one pass.        *)
Exchanged(cases, i, j) ==
  IF j > i /\ cases[i].match > cases[j].match
  THEN [cases EXCEPT ![i] = cases[j], ![j] = cases[i]] ELSE cases
Pass(cases, i) ==
  LET upto[j \in 0..Len(cases)] == IF j = 0 THEN cases ELSE Exchanged(upto[j - 1], i, j) IN upto
Passes(cases) ==
  LET upto[i \in 0..Len(cases)] == IF i = 0 THEN cases ELSE Pass(upto[i - 1], i)[Len(cases)] IN upto
SortedOnePass(cases) == Pass(cases, 1)[Len(cases)]
Sorted(cases)        == Passes(cases)[Len(cases)]

IsTable(cases) ==
  2 * (4 + cases[Len(cases)].match - cases[1].match) <= 3 * (3 + 2 * Len(cases))

SwitchCells(cases) ==
  LET min == cases[1].match  max == cases[Len(cases)].match
  IN IF IsTable(cases)
     THEN <<0, min, max>> \o [i \in 1..max - min + 1 |-> 0]
     ELSE <<0, Len(cases)>> \o
          [i \in 1..2 * Len(cases) |-> IF i % 2 = 1 THEN cases[(i + 1) \div 2].match ELSE 0]

(* The opcodes of the n-th case and of the default of a switch start at    *)
(* indexes 1, 2, ...; without default the index stays 0.                   *)
Numbered(values) == [i \in 1..Len(values) |-> [match |-> values[i], jump |-> i]]

Switch(s) ==
  /\ Room
  /\ LET cases == Sorted(Numbered(s.cases))
     IN /\ pools' = [pools EXCEPT ![package] = PushAll(@, SwitchCells(cases))]
        /\ switches' = Append(switches,
             [package |-> package, id |-> NextId(pools[package]), source |-> s.cases,
              cases |-> cases, built |-> FALSE, default |-> IF s.default THEN Len(s.cases) + 1 ELSE 0])
  /\ UNCHANGED <<phase, package, menu, tables, lists, listIds, strings, poolIds, uses, image>>

(* The end of a package: its lists, each behind its length.                *)
FinishPackage ==
  /\ phase = "check"
  /\ LET pool == pools[package]  l == lists[package]
         counted(k) == <<Len(l[k])>> \o l[k]
         field == PushAll(pool, counted("var"))
         sub   == PushAll(field, counted("field"))
         basic == PushAll(sub, counted("sub"))
     IN /\ pools' = [pools EXCEPT ![package] = PushAll(basic, counted("basic"))]
        /\ listIds' = [listIds EXCEPT ![package] =
             [var |-> NextId(pool), field |-> NextId(field), sub |-> NextId(sub), basic |-> NextId(basic)]]
  /\ IF package < Packages
     THEN package' = package + 1 /\ UNCHANGED phase
     ELSE phase' = "build" /\ UNCHANGED package
  /\ UNCHANGED <<menu, tables, lists, strings, poolIds, uses, switches, image>>

-----------------------------------------------------------------------------
(* The builder and the portable image.                                     *)

(* Where a table has a value go: to the first case that has it.            *)
Branch(s, value) ==
  LET matching == {i \in DOMAIN s.cases : s.cases[i].match = value}
  IN IF matching = {} THEN s.default ELSE s.cases[Min(matching)].jump

(* A pool with the cells of a switch written.  The length of a lookup      *)
(* switch and the bounds of a table switch are read, not written.          *)
Patched(values, s) ==
  LET min == values[s.id + 1]  max == values[s.id + 2]
  IN [n \in DOMAIN values |->
        IF n = s.id THEN s.default
        ELSE IF IsTable(s.cases) /\ n \in s.id + 3..s.id + 3 + max - min THEN Branch(s, min + n - s.id - 3)
        ELSE IF ~IsTable(s.cases) /\ n \in {s.id + 1 + 2 * i : i \in DOMAIN s.cases}
             THEN s.cases[(n - s.id - 1) \div 2].jump
        ELSE values[n]]

BuildSwitch ==
  /\ phase = "build"
  /\ \E i \in DOMAIN switches :
       /\ ~switches[i].built /\ \A j \in 1..i - 1 : switches[j].built
       /\ switches' = [switches EXCEPT ![i].built = TRUE]
       /\ pools' = [pools EXCEPT ![switches[i].package].values = Patched(@, switches[i])]
  /\ UNCHANGED <<phase, package, menu, tables, lists, listIds, strings, poolIds, uses, image>>

(* The pools follow each other, each with its unused word.  The deviation  *)
(* counts only the words that are used.                                    *)
BasesOfUsed ==
  LET base[p \in 1..Packages] == IF p = 1 THEN 0 ELSE base[p - 1] + Len(pools[p - 1].values) IN base
Bases ==
  LET base[p \in 1..Packages] == IF p = 1 THEN 0 ELSE base[p - 1] + Len(pools[p - 1].values) + 1 IN base

Unused == 0

Joined ==
  LET upto[p \in 0..Packages] ==
        IF p = 0 THEN <<>> ELSE upto[p - 1] \o <<Unused>> \o pools[p].values
  IN upto

BuildPortable ==
  /\ phase = "build" /\ \A i \in DOMAIN switches : switches[i].built
  /\ image' = [values |-> Joined[Packages], bases |-> Bases, texts |-> strings.buffer]
  /\ phase' = "run"
  /\ UNCHANGED <<package, menu, pools, tables, lists, listIds, strings, poolIds, uses, switches>>

Init ==
  /\ phase = "names" /\ package = 1 /\ menu \in Menus
  /\ pools = [p \in 1..Packages |-> [values |-> <<>>, capacity |-> PoolCapacity]]
  /\ tables = [p \in 1..Packages |->
       [t \in {"ids", "types", "wide"} \union ListKinds |-> NewHash(1)]]
  /\ lists = [p \in 1..Packages |-> [k \in ListKinds |-> <<>>]]
  /\ listIds = [p \in 1..Packages |-> [k \in ListKinds |-> 0]]
  /\ strings = [buffer |-> <<>>, capacity |-> BufferCapacity, symtable |-> NewHash(1)]
  /\ poolIds = [n \in {} |-> 0]
  /\ uses = <<>> /\ switches = <<>>
  /\ image = [values |-> <<>>, bases |-> [p \in 1..Packages |-> 0], texts |-> <<>>]

Next ==
  \/ \E n \in Names : Name(n)
  \/ NamesDone
  \/ \E c \in menu.constants :
       \/ UseType(c) \/ UseId(c) \/ ArrayInit(c)
       \/ \E node \in ConstantNode(c) : WideConstant(c, node) \/ StringConstant(c, node)
  \/ \E s \in menu.switches : Switch(s)
  \/ FinishPackage
  \/ BuildSwitch
  \/ BuildPortable

Spec == Init /\ [][Next]_vars

-----------------------------------------------------------------------------
(* What is not compiled as it should be: a subroutine that returns a       *)
(* constant and is called from several packages has one node for all of    *)
(* them, and an array initialiser takes the words of its type as a key     *)
(* where 64 bit constants are, whose words are in another order.           *)
AtHome == \A s \in DOMAIN ConstantSubs : \A p, q \in Callers[s] : p = q
NoClash ==
  \A m \in Menus : \A a, c \in m.constants :
    a.kind = "array_init" /\ ~IsNumeric(a.of) /\ IsWide(c) /\ KeyOf(c) = a.of => c.of = a.of
Supported == AtHome /\ NoClash

-----------------------------------------------------------------------------
(* Reading.                                                                *)

(* A word of the pool of a package: in the image, once there is one.       *)
Cell(p, id) ==
  IF phase = "run" THEN image.values[image.bases[p] + id + 1]
  ELSE IF id \in DOMAIN pools[p].values THEN pools[p].values[id] ELSE Unused

(* constant_pool[constant_pool_base + constant_pool_id], and for a string  *)
(* its characters in the string pool.                                      *)
Read(u) ==
  LET id == poolIds[u.node]
      buffer == IF phase = "run" THEN image.texts ELSE strings.buffer
  IN CASE u.constant.kind = "string" ->
            SubSeq(buffer, Cell(u.package, id + 1), Cell(u.package, id + 1) + Cell(u.package, id) - 1)
       [] u.constant.kind \in {"type", "long", "double"} -> <<Cell(u.package, id), Cell(u.package, id + 1)>>
       [] OTHER -> <<Cell(u.package, id)>>

(* TABLE_SWITCH and LOOKUP_SWITCH: where the virtual machine goes on.      *)
VmTableSwitch(s, value) ==
  LET min == Cell(s.package, s.id + 1)  max == Cell(s.package, s.id + 2)
  IN IF value \in min..max THEN Cell(s.package, s.id + 3 + value - min) ELSE Cell(s.package, s.id)

CaseAt(s, i) == Cell(s.package, s.id + 2 + 2 * i)
JumpAt(s, i) == Cell(s.package, s.id + 3 + 2 * i)

(* The cases from low to high, of which the middle one is looked at.       *)
Search(s, value) ==
  LET length == Cell(s.package, s.id + 1)
      search[r \in (0..length) \X (-1..length - 1)] ==
        LET low == r[1]  high == r[2]  half == low + (high - low) \div 2
        IN IF high < low THEN Cell(s.package, s.id)
           ELSE IF value > CaseAt(s, half) THEN search[<<half + 1, high>>]
           ELSE IF value < CaseAt(s, half) THEN search[<<low, half - 1>>]
           ELSE JumpAt(s, half)
  IN search

VmLookupSwitch(s, value) ==
  LET length == Cell(s.package, s.id + 1)
  IN IF value \in CaseAt(s, 0)..CaseAt(s, length - 1)
     THEN Search(s, value)[<<0, length - 1>>] ELSE Cell(s.package, s.id)

VmSwitch(s, value) == IF IsTable(s.cases) THEN VmTableSwitch(s, value) ELSE VmLookupSwitch(s, value)

(* The labels of the C switch that the precompiler writes for a value.     *)
PrecompiledSwitch(s, value) ==
  LET min == Cell(s.package, s.id + 1)  max == Cell(s.package, s.id + 2)
      found == IF IsTable(s.cases)
               THEN {Cell(s.package, s.id + 3 + value - min) : i \in {value} \intersect (min..max)}
               ELSE {JumpAt(s, i) : i \in {i \in 0..min - 1 : CaseAt(s, i) = value}}
  IN IF found = {} THEN {Cell(s.package, s.id)} ELSE found

(* The C string at an index of the string pool.                            *)
TextAt(id) ==
  LET ends == {i \in id..Len(image.texts) : image.texts[i] = Nul}
  IN SubSeq(image.texts, id, Min(ends \union {Len(image.texts) + 1}) - 1)

(* A list the precompiler reads, as it reads it.                           *)
ListRead(p, kind) ==
  LET id == listIds[p][kind] IN [i \in 1..Cell(p, id) |-> Cell(p, id + i)]

-----------------------------------------------------------------------------
(* Properties.                                                             *)

Distinct(s) == \A i, j \in DOMAIN s : s[i] = s[j] => i = j

(* Nothing is written past the memory allocated for a pool, for the texts, *)
(* or for the entries and keys of a symbol table.                          *)
HashFits(hash) ==
  Len(hash.entries) <= hash.entriesCapacity /\ hash.keysLength <= hash.keysCapacity
WritesFit ==
  /\ \A p \in 1..Packages :
       /\ Len(pools[p].values) + 1 <= pools[p].capacity
       /\ \A t \in DOMAIN tables[p] : HashFits(tables[p][t])
  /\ Len(strings.buffer) + 1 <= strings.capacity /\ HashFits(strings.symtable)

(* When the program runs, an opcode reads what it refers to.               *)
ConstantsRead == phase = "run" => \A i \in DOMAIN uses : Read(uses[i]) = CellsOf(uses[i].constant)

(* The same as a specification of its own: what an opcode reads never      *)
(* changes, whatever is compiled afterwards.                               *)
Promise == INSTANCE CompiledConstants WITH
  reads <- [i \in DOMAIN uses |-> [means |-> CellsOf(uses[i].constant), reads |-> Read(uses[i])]]
ReadsAsCompiled == Promise!Spec

(* What an opcode refers to is in the pool of its package, and what a      *)
(* package refers to several times is there once: an id is never the 0 of  *)
(* "not found", the symbol tables lose no key, neither in a chain nor when *)
(* they grow.                                                              *)
InternedOnce ==
  /\ \A i \in DOMAIN uses : poolIds[uses[i].node] \in 1..Len(pools[uses[i].package].values)
  /\ \A i, j \in DOMAIN uses :
    (/\ uses[i].package = uses[j].package
     /\ uses[i].constant.kind # "string" /\ uses[j].constant.kind # "string"
     /\ TableOf(uses[i].constant.kind) = TableOf(uses[j].constant.kind)
     /\ KeyOf(uses[i].constant) = KeyOf(uses[j].constant))
      => poolIds[uses[i].node] = poolIds[uses[j].node]

(* The C source of a package declares every id it uses, once: the lists    *)
(* the precompiler reads have no duplicate and leave nothing out.          *)
ListsDeclare ==
  phase = "run" =>
    \A p \in 1..Packages :
      /\ \A k \in ListKinds : Distinct(ListRead(p, k))
      /\ \A i \in DOMAIN uses :
           LET c == uses[i].constant IN
           uses[i].package = p =>
             /\ c.kind \in ListKinds => \E n \in DOMAIN ListRead(p, c.kind) : ListRead(p, c.kind)[n] = c.of[1]
             /\ c.kind = "type" => \E n \in DOMAIN ListRead(p, "basic") : ListRead(p, "basic")[n] = RuntimeType(c.of)[1]

(* A switch goes to a case that was written with the value it is given, or *)
(* to its default when there is none, in the virtual machine and           *)
(* precompiled, however its cases were sorted and searched.                *)
SwitchFinds ==
  phase = "run" =>
    \A i \in DOMAIN switches : \A v \in Values :
      LET s == switches[i]
          cases == {n \in DOMAIN s.source : s.source[n] = v}
          expected == IF cases = {} THEN {s.default} ELSE cases
      IN VmSwitch(s, v) \in expected /\ PrecompiledSwitch(s, v) \subseteq expected

(* The names by which the runtime looks things up are in the string pool   *)
(* at the indexes the image has for them.                                  *)
NamesRead ==
  phase = "run" =>
    \A n \in Names : TextAt(Fetch(strings.symtable, Append(n, Nul))) = n
=============================================================================
