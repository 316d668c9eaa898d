----------------------------- MODULE Operators -----------------------------
(***************************************************************************)
(* A statement of a subroutine, compiled and run: by the virtual machine,  *)
(* an opcode at a time, or precompiled, where each opcode has become C.    *)
(* The two engines share the opcodes and differ in everything else; what   *)
(* both compute is compared with what the source tree means.               *)
(***************************************************************************)
EXTENDS PrecompiledC, Meaning

CONSTANT Programs  \* [tree, memory]: a statement or condition and what it finds

VARIABLES
  prog,    \* the program
  engine,  \* who runs it
  phase,   \* "source", "rejected" or "aborted" by the compiler, "run", "done"
  code,    \* the opcodes
  pc,      \* the next one
  s        \* the memory

vars == <<prog, engine, phase, code, pc, s>>

Init ==
  /\ prog \in Programs
  /\ engine \in {"vm", "precompiled"}
  /\ phase = "source"
  /\ code = <<>>
  /\ pc = 1
  /\ s = prog.memory

Asserts(op) == op = AssertFails \/ \E i \in DOMAIN op.r : op.r[i][1] = "assert"

Compile ==
  /\ phase = "source"
  /\ LET tree == Checked(prog.tree, <<>>)
     IN IF tree = Error
        THEN phase' = "rejected" /\ UNCHANGED code
        ELSE /\ code' = CodeOf(WithTemps(tree, <<>>, FALSE))
             /\ phase' = IF \E i \in DOMAIN code' : Asserts(code'[i]) THEN "aborted" ELSE "run"
  /\ UNCHANGED <<prog, engine, pc, s>>

Step(result) ==
  /\ s' = result
  /\ pc' = pc + 1
  /\ phase' = IF result.raised \/ pc = Len(code) THEN "done" ELSE "run"
  /\ UNCHANGED <<prog, engine, code>>
RunOpcode == phase = "run" /\ engine = "vm" /\ Step(Execute(code[pc], s))
RunText == phase = "run" /\ engine = "precompiled" /\ Step(RunC(Written(code[pc]), s))

Next == Compile \/ RunOpcode \/ RunText
Spec == Init /\ [][Next]_vars

(* ----------------------------- properties ------------------------------ *)
IsCondition(e) == e.k \in Relational \cup {"BOOL"}
\* op= narrows its result to a byte or short place only when its source is
\* the wider type: `$byte += $byte` is refused, and no more is said of op=.
RECURSIVE HasSpecialAssign(_)
HasSpecialAssign(e) == e.k = "SPECIAL_ASSIGN" \/ \E i \in DOMAIN e.a : HasSpecialAssign(e.a[i])

\* What is accepted does what the tree means, whoever runs it: the same
\* exception or none, the same objects, package variable and variables, and
\* for a condition the same truth.  What is refused has no meaning
\* (spvm_op_checker.c and spvm_opcode_builder.c against
\* spvm_runtime_api.c and spvm_csource_builder_precompile.c).
ComputesAsWritten ==
  /\ phase = "done" =>
       LET x == Value(prog.tree, prog.memory)
       IN \/ x.s = "undefined"
          \/ /\ x.s = IF s.raised THEN "raised" ELSE "ok"
             /\ s.heap = x.m.heap
             /\ s.pv = x.m.pv
             /\ \A r \in DOMAIN x.m.regs : Get(s, r) = x.m.regs[r]
             /\ (IsCondition(prog.tree) /\ ~s.raised) => ((s.flag # 0) = (x.v[1] # 0))
  /\ phase = "rejected" => \/ Value(prog.tree, prog.memory).s = "rejected"
                           \/ HasSpecialAssign(prog.tree)

\* Every variable that an opcode or its C text reads has been written, in the
\* bank of its type: both engines zero their banks when a call begins, so a
\* read of the wrong bank, or before the write, finds a value all the same
\* (get_target_op_var and the operand banks of spvm_opcode_builder.c).
OperandsDefined ==
  phase = "run" =>
    LET reads == IF engine = "vm" THEN Range(OperandsOf(code[pc]))
                 ELSE UNION {CReadsOf(Written(code[pc])[i]) : i \in DOMAIN Written(code[pc])}
    IN reads \subseteq DOMAIN s.regs

\* The builder finds an opcode and an operand for everything the checker
\* accepts; its switches end in assert(0).
CodeIsTotal == phase # "aborted"
=============================================================================
