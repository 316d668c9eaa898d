---------------------------- MODULE ScopeBuilder ----------------------------
(***************************************************************************)
(* The opcode builder (spvm_opcode_builder.c): one traversal of the tree   *)
(* of a subroutine that emits opcodes, remembers the jumps whose target is *)
(* not known yet on stacks, patches them when a block ends, and decides    *)
(* statically how many variables LEAVE_SCOPE keeps registered.             *)
(*                                                                         *)
(* A behaviour builds one subroutine, an action per visit of a tree node;  *)
(* the nondeterminism is the program.  The shape of the trees is that of   *)
(* the grammar (spvm_yacc.y) after the rewriting of spvm_op.c and          *)
(* spvm_op_checker.c.  Only object variables matter here.                  *)
(*                                                                         *)
(* Ghosts, which no step of the builder reads: the blocks that enclose an  *)
(* opcode ("scope"), the place a jump is meant for ("want"), where the     *)
(* places are ("marks"), and the block of each variable ("home").          *)
(***************************************************************************)
EXTENDS Integers, Sequences, SequencesExt

CONSTANTS
  Budgets,   \* how many statements of each kind: a budget a family of programs
  Features   \* what it does with them, see below

(***************************************************************************)
(*   nested_eval  an eval block inside an eval block                       *)
(*   loop_temps   object temporaries in the condition or increment of loops*)
(*   switch_decl  object variables declared directly in a switch block     *)
(***************************************************************************)
Statements == {"call", "declare", "plain", "if", "loop", "eval", "switch",
               "case", "jump", "logical"}

ASSUME BuilderAssumption ==
  /\ Budgets \subseteq [Statements -> Nat]
  /\ Features \subseteq {"nested_eval", "loop_temps", "switch_decl"}

VARIABLES
  code,    \* the opcodes of the subroutine
  blocks,  \* op_block_stack, with what the other block stacks hold for each
  mortal,  \* length of mortal_stack, the variables registered statically
  pend,    \* the stacks of jumps to patch
  home,    \* the block of each declared variable; its length counts them
  marks,   \* where each place of each block is, 0 when not there yet
  budget,  \* the statements the program may still have
  built    \* END_SUB has been emitted

bvars == <<code, blocks, mortal, pend, home, marks, budget, built>>

Places   == {"body", "cond", "end"}
Nowhere  == <<0, "end">>
Stacks   == {"if", "end", "first", "last", "next", "eval", "catch", "uncaught",
             "return", "switch"}
OpNames  == {"PUSH_MORTAL", "CALL", "LEAVE_SCOPE", "GOTO", "IF", "UNDEF",
             "SWITCH", "RETURN", "END_SUB"}

BlockKinds  == {"sub", "plain", "if", "else", "init", "loop", "eval", "switch"}
BlockPhases == {"stmts", "cond", "operand", "empty", "else", "else_operand",
                "else_empty", "init", "incr", "loopcond", "labels", "done"}

Top  == Last(blocks)
Here == Len(code) + 1
InPhase(p) == Top.phase = p

(* Blocks are numbered in the order they are opened.                       *)
NewBlock == Len(marks) + 1

Spend(s) == budget[s] > 0 /\ budget' = [budget EXCEPT ![s] = @ - 1]

(* The operation an opcode performs, the variable or the number it names,  *)
(* its jump target, and the targets of a switch.                           *)
Op(name, v, want) ==
  [op |-> name, var |-> v, to |-> 0, cases |-> {}, want |-> want,
   scope |-> {blocks[i].id : i \in DOMAIN blocks}]

Block(kind, phase, base) ==
  [id |-> NewBlock, kind |-> kind, phase |-> phase, top |-> mortal,
   base |-> base, have |-> FALSE, used |-> FALSE, resume |-> "done"]

Unmarked == [p \in Places |-> 0]

PushBlock(bs, b) ==
  /\ blocks' = Append(bs, b)
  /\ marks' = Append(marks, Unmarked)

SetTop(b) == [blocks EXCEPT ![Len(blocks)] = b]

Patch(c, S, t) ==
  [i \in DOMAIN c |-> IF i \in S THEN [c[i] EXCEPT !.to = t] ELSE c[i]]

EntriesFrom(s, base) == {s[i] : i \in base + 1 .. Len(s)}

(* The innermost block of one of the kinds; 0 when there is none.          *)
Innermost(kinds) ==
  LET S == {i \in DOMAIN blocks : blocks[i].kind \in kinds}
  IN IF S = {} THEN 0 ELSE blocks[CHOOSE i \in S : \A j \in S : j <= i].id

BInit ==
  /\ code = <<>>
  /\ blocks = << [id |-> 1, kind |-> "sub", phase |-> "stmts", top |-> 0, base |-> 0,
                  have |-> FALSE, used |-> FALSE, resume |-> "done"] >>
  /\ mortal = 0
  /\ pend = [s \in Stacks |-> <<>>]
  /\ home = <<>>
  /\ marks = <<Unmarked>>
  /\ budget \in Budgets
  /\ built = FALSE

(***************************************************************************)
(* A call and the exception check behind it (push_if_croak): inside an     *)
(* eval block an exception jumps to its end, elsewhere to the end of the   *)
(* subroutine.  v is the variable the result goes to, 0 for none.  A croak *)
(* is such a call that does not return.                                    *)
(***************************************************************************)
CroakStack == IF pend["eval"] # <<>> THEN "catch" ELSE "uncaught"

Call(v) ==
  Op("CALL", v, <<IF Innermost({"eval"}) = 0 THEN 1 ELSE Innermost({"eval"}), "end">>)

CallStatement ==
  /\ InPhase("stmts") /\ Spend("call")
  /\ code' = Append(code, Call(0))
  /\ pend' = [pend EXCEPT ![CroakStack] = Append(@, Here)]
  /\ UNCHANGED <<blocks, mortal, home, marks, built>>

(* A declaration, of a variable of the program or of a temporary: register *)
(* it, then store the value of the expression.                             *)
MayDeclare ==
  /\ ~Top.used
  /\ \/ Top.phase = "stmts" /\ (Top.kind # "switch" \/ "switch_decl" \in Features)
     \/ Top.phase \in {"init", "cond", "operand"}
     \/ Top.phase \in {"incr", "loopcond"} /\ "loop_temps" \in Features

Declare ==
  LET v == Len(home) + 1 IN
  /\ MayDeclare /\ Spend("declare")
  /\ code' = code \o <<Op("PUSH_MORTAL", v, Nowhere), Call(v)>>
  /\ pend' = [pend EXCEPT ![CroakStack] = Append(@, Here + 1)]
  /\ mortal' = mortal + 1
  /\ home' = Append(home, Top.id)
  /\ blocks' = SetTop([Top EXCEPT !.have = TRUE])
  /\ UNCHANGED <<marks, built>>

(***************************************************************************)
(* The end of a block: its LEAVE_SCOPE, which it has only when it declares *)
(* an object variable or a block in it does, names the height of the       *)
(* static stack when the block was opened.  c is the code with the jumps   *)
(* to the end of the block patched: that end is in front of LEAVE_SCOPE.   *)
(***************************************************************************)
(* Deviation: a block does not learn what the blocks in it declare. *)
PopBlockAlone == Front(blocks)

PopBlock ==
  LET rest == Front(blocks)
  IN IF rest = <<>> THEN <<>> ELSE [rest EXCEPT ![Len(rest)].have = @ \/ Top.have]

LeaveScopeOp(height) ==
  [Op("LEAVE_SCOPE", height, Nowhere) EXCEPT !.scope = @ \ {Top.id}]

(* Deviation: the end of a block releases everything registered. *)
LeftAll(c) == IF Top.have THEN Append(c, LeaveScopeOp(0)) ELSE c

Left(c) == IF Top.have THEN Append(c, LeaveScopeOp(Top.top)) ELSE c

(* Deviation: the static stack is emptied, not cut back. *)
Close(c) ==
  /\ mortal' = IF Top.have THEN Top.top ELSE mortal
  /\ blocks' = PopBlock
  /\ marks' = [marks EXCEPT ![Top.id]["end"] = Len(c) + 1]

CloseWith(c) == code' = Left(c) /\ Close(c)

OpenPlain ==
  /\ InPhase("stmts") /\ Spend("plain")
  /\ PushBlock(blocks, Block("plain", "stmts", 0))
  /\ UNCHANGED <<code, mortal, pend, home, built>>

ClosePlain ==
  /\ Top.kind = "plain" /\ Top.phase \in {"stmts", "done"}
  /\ CloseWith(code)
  /\ UNCHANGED <<pend, home, budget, built>>

(***************************************************************************)
(* An if statement is wrapped in a block of its own, for the variables of  *)
(* its condition.  An elsif is an else block that holds only another if.   *)
(***************************************************************************)
OpenIf ==
  /\ InPhase("stmts") /\ Spend("if")
  /\ PushBlock(blocks, Block("plain", "cond", 0))
  /\ UNCHANGED <<code, mortal, pend, home, built>>

(* IF jumps to the end of the true block when the condition is false.      *)
Test(parent, truePhase) ==
  /\ code' = Append(code, Op("IF", 0, <<NewBlock, "end">>))
  /\ pend' = [pend EXCEPT !["if"] = Append(@, Here)]
  /\ PushBlock(SetTop(parent), Block("if", truePhase, 0))
  /\ UNCHANGED <<mortal, home, built>>

Condition ==
  /\ InPhase("cond")
  /\ Test([Top EXCEPT !.phase = "else"], "stmts")
  /\ UNCHANGED budget

(* && and || are rewritten to if, without a block around it: the second    *)
(* operand is evaluated in the true block of && and the false block of ||. *)
Logical(operandIn) ==
  /\ Spend("logical")
  /\ \/ Top.phase \in {"cond", "operand"}
     \/ Top.phase = "loopcond" /\ "loop_temps" \in Features
  /\ Test([Top EXCEPT !.phase = IF operandIn = "if" THEN "else_empty" ELSE "else_operand",
                      !.resume = Top.phase],
          IF operandIn = "if" THEN "operand" ELSE "empty")

CloseIf ==
  LET c    == Append(code, Op("GOTO", 0, <<NewBlock, "end">>))
      test == Last(pend["if"])
  IN /\ Top.kind = "if" /\ Top.phase \in {"stmts", "done", "operand", "empty"}
     /\ CloseWith(Patch(c, {test}, Len(c) + 1))
     /\ pend' = [pend EXCEPT !["end"] = Append(@, Here), !["if"] = Front(@)]
     /\ UNCHANGED <<home, budget, built>>

PushElse(parentPhase, phase) ==
  PushBlock(SetTop([Top EXCEPT !.phase = parentPhase, !.used = TRUE]),
            Block("else", phase, 0))

OpenElse ==
  /\ \/ /\ Top.phase = "else"
        /\ \/ PushElse("done", "stmts") /\ UNCHANGED budget
           \/ PushElse("done", "cond") /\ Spend("if")
     \/ /\ Top.phase \in {"else_operand", "else_empty"}
        /\ PushElse(Top.resume, IF Top.phase = "else_empty" THEN "empty" ELSE "operand")
        /\ UNCHANGED budget
  /\ UNCHANGED <<code, mortal, pend, home, built>>

CloseElse ==
  /\ Top.kind = "else" /\ Top.phase \in {"stmts", "done", "operand", "empty"}
  /\ CloseWith(Patch(code, {Last(pend["end"])}, Here))
  /\ pend' = [pend EXCEPT !["end"] = Front(@)]
  /\ UNCHANGED <<home, budget, built>>

(***************************************************************************)
(* Loops: a block for the initialization holds the block of the statements,*)
(* the increment and, moved behind it, the condition.  The code enters at  *)
(* the condition.                                                          *)
(***************************************************************************)
OpenLoop ==
  /\ InPhase("stmts") /\ Spend("loop")
  /\ PushBlock(blocks, Block("init", "init", Len(pend["last"])))
  /\ UNCHANGED <<code, mortal, pend, home, built>>

OpenLoopBody ==
  /\ InPhase("init")
  /\ code' = Append(code, Op("GOTO", 0, <<Top.id, "cond">>))
  /\ pend' = [pend EXCEPT !["first"] = Append(@, Here)]
  /\ marks' = Append([marks EXCEPT ![Top.id]["body"] = Here + 1], Unmarked)
  /\ blocks' = Append(SetTop([Top EXCEPT !.phase = "incr"]),
                      Block("loop", "stmts", Len(pend["next"])))
  /\ UNCHANGED <<mortal, home, budget, built>>

(* Deviation: the "next"s of the enclosing loops are patched too. *)
CloseLoopBodyAll ==
  /\ Top.kind = "loop" /\ Top.phase \in {"stmts", "done"}
  /\ CloseWith(Patch(code, EntriesFrom(pend["next"], 0), Here))
  /\ pend' = [pend EXCEPT !["next"] = <<>>]
  /\ UNCHANGED <<home, budget, built>>

CloseLoopBody ==
  /\ Top.kind = "loop" /\ Top.phase \in {"stmts", "done"}
  /\ CloseWith(Patch(code, EntriesFrom(pend["next"], Top.base), Here))
  /\ pend' = [pend EXCEPT !["next"] = SubSeq(@, 1, Top.base)]
  /\ UNCHANGED <<home, budget, built>>

LoopIncrement ==
  /\ InPhase("incr")
  /\ code' = Patch(code, {Last(pend["first"])}, Here)
  /\ marks' = [marks EXCEPT ![Top.id]["cond"] = Here]
  /\ blocks' = SetTop([Top EXCEPT !.phase = "loopcond"])
  /\ UNCHANGED <<mortal, pend, home, budget, built>>

LoopCondition ==
  /\ InPhase("loopcond")
  /\ code' = Append(code, [Op("IF", 0, <<Top.id, "body">>)
                             EXCEPT !.to = Last(pend["first"]) + 1])
  /\ pend' = [pend EXCEPT !["first"] = Front(@)]
  /\ blocks' = SetTop([Top EXCEPT !.phase = "done"])
  /\ UNCHANGED <<mortal, home, budget, marks, built>>

(* The end of the loop: where its "last"s go.                              *)
CloseLoop ==
  /\ InPhase("done") /\ Top.kind = "init"
  /\ CloseWith(Patch(code, EntriesFrom(pend["last"], Top.base), Here))
  /\ pend' = [pend EXCEPT !["last"] = SubSeq(@, 1, Top.base)]
  /\ UNCHANGED <<home, budget, built>>

(***************************************************************************)
(* Jumps out of blocks.  What follows them in the block cannot be reached, *)
(* except behind the next label of a switch.                               *)
(***************************************************************************)
AfterJump == SetTop([Top EXCEPT !.phase = IF Top.kind = "switch" THEN "labels" ELSE "done"])

JumpOut(name, stack, target) ==
  /\ InPhase("stmts")
  /\ code' = Append(code, Op(name, 0, <<target, "end">>))
  /\ pend' = [pend EXCEPT ![stack] = Append(@, Here)]
  /\ blocks' = AfterJump
  /\ UNCHANGED <<mortal, home, marks, built>>

LastStatement ==
  /\ Innermost({"loop", "switch"}) # 0 /\ Spend("jump")
  /\ JumpOut("GOTO", "last", Innermost({"init", "switch"}))

NextStatement ==
  /\ Innermost({"loop"}) # 0 /\ Spend("jump")
  /\ JumpOut("GOTO", "next", Innermost({"loop"}))

(* The return at the end of the subroutine is not counted.                 *)
ReturnStatement ==
  /\ IF Top.kind = "sub" THEN UNCHANGED budget ELSE Spend("jump")
  /\ JumpOut("RETURN", "return", 1)

(***************************************************************************)
(* eval: the end of the block catches every exception check not yet        *)
(* patched.                                                                *)
(***************************************************************************)
OpenEval ==
  /\ InPhase("stmts") /\ Spend("eval")
  /\ "nested_eval" \in Features \/ Innermost({"eval"}) = 0
  /\ code' = Append(code, Op("UNDEF", 0, Nowhere))
  /\ pend' = [pend EXCEPT !["eval"] = Append(@, Here)]
  /\ PushBlock(blocks, Block("eval", "stmts", 0))
  /\ UNCHANGED <<mortal, home, built>>

CloseEval ==
  /\ Top.kind = "eval" /\ Top.phase \in {"stmts", "done"}
  /\ CloseWith(Patch(code, EntriesFrom(pend["catch"], 0), Here))
  /\ pend' = [pend EXCEPT !["catch"] = <<>>, !["eval"] = Front(@)]
  /\ UNCHANGED <<home, budget, built>>

(***************************************************************************)
(* switch: labels belong to the innermost switch.                          *)
(***************************************************************************)
OpenSwitch ==
  /\ InPhase("stmts") /\ Spend("switch")
  /\ code' = Append(code, Op("SWITCH", 0, <<NewBlock, "end">>))
  /\ pend' = [pend EXCEPT !["switch"] = Append(@, Here)]
  /\ PushBlock(blocks, Block("switch", "labels", Len(pend["last"])))
  /\ UNCHANGED <<mortal, home, built>>

AtLabel ==
  Top.kind = "switch" /\ Top.phase \in {"labels", "stmts"}

Case ==
  LET s == Last(pend["switch"]) IN
  /\ AtLabel /\ Spend("case")
  /\ code' = [code EXCEPT ![s].cases = @ \cup {Here}]
  /\ blocks' = SetTop([Top EXCEPT !.phase = "stmts"])
  /\ UNCHANGED <<mortal, pend, home, marks, built>>

Default ==
  LET s == Last(pend["switch"]) IN
  /\ AtLabel /\ code[s].to = 0
  /\ code' = Patch(code, {s}, Here)
  /\ blocks' = SetTop([Top EXCEPT !.phase = "stmts"])
  /\ UNCHANGED <<mortal, pend, home, budget, marks, built>>

(* The end of the switch: where its "last"s go.  Only a switch with a case *)
(* and a default is modelled: without a case the checker reads before its  *)
(* list, without a default the target would stay 0.                        *)
CloseSwitch ==
  LET s == code[Last(pend["switch"])] IN
  /\ AtLabel /\ s.cases # {} /\ s.to # 0
  /\ CloseWith(Patch(code, EntriesFrom(pend["last"], Top.base), Here))
  /\ pend' = [pend EXCEPT !["last"] = SubSeq(@, 1, Top.base), !["switch"] = Front(@)]
  /\ UNCHANGED <<home, budget, built>>

(* The end of the subroutine, whose last statement is always a return:     *)
(* returns and uncaught exceptions go to the LEAVE_SCOPE of its block, and *)
(* END_SUB follows.                                                        *)
CloseSub ==
  LET exits == EntriesFrom(pend["return"], 0) \cup EntriesFrom(pend["uncaught"], 0)
      c     == Patch(code, exits, Here)
  IN /\ InPhase("done") /\ Top.kind = "sub"
     /\ Close(c)
     /\ code' = Append(Left(c), [Op("END_SUB", 0, Nowhere) EXCEPT !.scope = {}])
     /\ pend' = [pend EXCEPT !["return"] = <<>>, !["uncaught"] = <<>>]
     /\ built' = TRUE
     /\ UNCHANGED <<home, budget>>

Build ==
  \/ CallStatement \/ Declare
  \/ OpenPlain \/ ClosePlain
  \/ OpenIf \/ Condition \/ CloseIf \/ OpenElse \/ CloseElse
  \/ \E b \in {"if", "else"} : Logical(b)
  \/ OpenLoop \/ OpenLoopBody \/ CloseLoopBody \/ LoopIncrement \/ LoopCondition
  \/ CloseLoop
  \/ LastStatement \/ NextStatement \/ ReturnStatement
  \/ OpenEval \/ CloseEval
  \/ OpenSwitch \/ Case \/ Default \/ CloseSwitch
  \/ CloseSub

-----------------------------------------------------------------------------
(* The fields of opcodes and blocks, the bounds of the static stack and of *)
(* the jumps to patch.                                                     *)
BTypeOK ==
  /\ \A i \in DOMAIN code :
       /\ code[i].op \in OpNames
       /\ code[i].var \in 0 .. Len(home)
       /\ code[i].to \in 0 .. Here
       /\ code[i].cases \subseteq 1 .. Here
       /\ code[i].scope \subseteq DOMAIN marks
  /\ \A i \in DOMAIN blocks :
       /\ blocks[i].kind \in BlockKinds /\ blocks[i].phase \in BlockPhases
       /\ blocks[i].top \in 0 .. mortal
  /\ mortal \in 0 .. Len(home)
  /\ \A s \in Stacks : \A i \in DOMAIN pend[s] : pend[s][i] \in DOMAIN code
  /\ \A v \in DOMAIN home : home[v] \in DOMAIN marks
  /\ \A b \in DOMAIN marks : marks[b] \in [Places -> 0 .. Here]
  /\ budget \in [Statements -> Nat]
  /\ built \in BOOLEAN

(* In a finished subroutine every jump, patched any number of blocks later,*)
(* lands where its statement says: "last", "next" and return at the end of *)
(* their block and in front of its LEAVE_SCOPE, an exception at the end of *)
(* the innermost eval block around it, loops at their condition and body,  *)
(* a label of a switch inside the block of that switch.                    *)
Mark(want) == marks[want[1]][want[2]]

Lands(c) ==
  IF c.op = "SWITCH"
  THEN \A t \in c.cases \cup {c.to} :
         t <= Mark(c.want) /\ (t < Mark(c.want) => c.want[1] \in code[t].scope)
  ELSE c.to = Mark(c.want)

JumpsLand ==
  built => \A i \in DOMAIN code : code[i].want # Nowhere => Lands(code[i])

(* An exception raised in an eval block is caught by that block, also when *)
(* eval blocks are nested (push_if_croak and the end of EVAL).             *)
CatchInnermost ==
  built => \A i \in DOMAIN code : code[i].op = "CALL" => code[i].to = Mark(code[i].want)

=============================================================================
