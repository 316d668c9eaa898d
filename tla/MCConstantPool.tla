--------------------------- MODULE MCConstantPool ---------------------------
(* Programs for ConstantPool, by what their packages refer to. *)
EXTENDS ConstantPool, SequencesExt

Ids(kind, ids)     == [kind : {kind}, of : {<<i>> : i \in ids}]
Wide(kind, values) == [kind : {kind}, of : values]
Menu(constants, statements, n) == [constants |-> constants, switches |-> statements, uses |-> n]
Cases(values, default) == [cases |-> values, default |-> default]

(* Ids that share entries and fill a symbol table until it has grown twice *)
MCIds == Menu(Ids("sub", {1, 2}) \union Ids("var", {1}) \union Ids("field", {3, 8}), {}, 5)

(* Strings are arrays of byte at run time; 20 is a class                   *)
MCTypes ==
  Menu([kind : {"type"}, of : {<<20, 0>>, <<9, 0>>, <<3, 1>>, <<20, 1>>}]
         \union [kind : {"array_init"}, of : {<<20, 0>>, <<9, 0>>, <<5, 0>>}]
         \union Wide("long", {<<0, 7>>}), {}, 4)

(* Constants of 64 bits, among them a long and a double of the same bytes, *)
(* with the words exchanged, and texts, one of them a name                 *)
MCConstants ==
  Menu(Wide("long", {<<0, 7>>, <<7, 0>>}) \union Wide("double", {<<0, 7>>, <<4, 2>>})
         \union [kind : {"string"}, of : {<<>>, <<97>>, <<97, 0>>}], {}, 4)

(* Switch statements: dense and sparse, unsorted, with duplicates          *)
MCSwitches ==
  Menu(Ids("sub", {1}) \union Wide("long", {<<0, 7>>}),
       {Cases(<<2>>, TRUE), Cases(<<3, 1, 2>>, TRUE), Cases(<<1, 5>>, FALSE), Cases(<<9, -9, 0>>, TRUE),
        Cases(<<4, 1, 4>>, TRUE), Cases(<<9, 9, -9, 5, 0>>, TRUE), Cases(<<-9, 9>>, FALSE)}, 3)

MCMenus == {MCIds, MCTypes, MCConstants, MCSwitches}

(* A subroutine that returns a constant and is called in its own package,  *)
(* or also in another one                                                  *)
MCLimit == [kind |-> "long", of |-> <<0, 7>>]
MCConstantSubs == [LIMIT |-> MCLimit]
MCAtHome == [LIMIT |-> {1}]
ASSUME SupportedAssumption == Callers = MCAtHome => Supported
MCEverywhere == [LIMIT |-> {1, 2}]
MCShared == {Menu(Wide("long", {<<0, 7>>, <<3, 1>>}), {}, 3)}

MCNames == {<<97>>, <<98, 97>>}
MCValues == -10..10

(* Sums of keys: several keys share a chain in tables of each size         *)
MCHash(key) == FoldLeft(+, 0, key)
=============================================================================
