------------------------- MODULE ScopeMachine_proofs -------------------------
(***************************************************************************)
(* Proofs about ScopeMachine: in every subroutine the opcode builder       *)
(* finishes, of any size and any nesting of blocks, every jump lands where *)
(* its statement says.                                                     *)
(*                                                                         *)
(* Blocks are numbered in the order they are opened, so their numbers grow *)
(* along op_block_stack.  The stacks of jumps to patch are related to it:  *)
(* "if", "end", "first" and "switch" hold one jump for each open block of  *)
(* their kind, in the order of the blocks (Matched); "last" and "next"     *)
(* hold a segment for each block they may leave (Segmented); the others    *)
(* only hold what is meant for one block (Collected).  When a block ends,  *)
(* what is patched is then exactly what waits for it.                      *)
(*                                                                         *)
(* In order: the invariant; what growing code and changing blocks keep of  *)
(* each stack, of the nesting and of each jump; closing a block            *)
(* (CloseStep), growing (GrowStep); the builder's operators; one lemma for *)
(* each step of the builder; the theorem.                                  *)
(***************************************************************************)
EXTENDS ScopeMachine, WellFoundedInduction, TLAPS

-----------------------------------------------------------------------------
(* What the builder holds, as functions of the code c, the blocks bs, the  *)
(* stacks p of jumps to patch and the marks m.                             *)

OpRecords ==
  [op : OpNames, var : Nat, to : Nat, cases : SUBSET Nat, want : Nat \X Places, scope : SUBSET Nat]

BlockRecords ==
  [id : Nat, kind : BlockKinds, phase : BlockPhases, top : Nat, base : Nat,
   have : BOOLEAN, used : BOOLEAN, resume : BlockPhases]

Typed(c, bs, p, m) ==
  /\ c \in Seq(OpRecords)
  /\ bs \in Seq(BlockRecords)
  /\ p \in [Stacks -> Seq(Nat)]
  /\ m \in Seq([Places -> Nat])

Open(bs)         == {bs[k].id : k \in DOMAIN bs}
IdsOf(bs, kinds) == {bs[k].id : k \in {l \in DOMAIN bs : bs[l].kind \in kinds}}
Entries(s)       == {s[j] : j \in DOMAIN s}

ElsePhases   == {"else", "else_operand", "else_empty"}
ElseNext(bs) == bs # <<>> /\ bs[Len(bs)].phase \in ElsePhases

(* The phases of a block, by its kind, and where a block continues after   *)
(* the operands of && and ||.                                              *)
PhasesOf ==
  [sub |-> {"stmts", "done"}, loop |-> {"stmts", "done"}, eval |-> {"stmts", "done"},
   switch |-> {"labels", "stmts"},
   init |-> {"init", "incr", "loopcond", "else_operand", "else_empty", "done"},
   plain |-> {"stmts", "cond", "else", "else_operand", "else_empty", "done"},
   if |-> {"stmts", "operand", "empty", "else_operand", "else_empty", "done"},
   else |-> {"stmts", "cond", "operand", "empty", "else", "else_operand", "else_empty", "done"}]

ResumesOf ==
  [init |-> {"loopcond"}, plain |-> {"cond"}, if |-> {"operand"}, else |-> {"cond", "operand"},
   sub |-> {}, loop |-> {}, eval |-> {}, switch |-> {}]

(* The nesting of the open blocks; n blocks have been opened.              *)
BlockOK(bs, n, k) ==
  /\ bs[k].id \in 1 .. n
  /\ bs[k].kind = "sub" <=> k = 1
  /\ bs[k].kind = "sub" => bs[k].id = 1
  /\ bs[k].phase \in PhasesOf[bs[k].kind]
  /\ bs[k].phase \in {"else_operand", "else_empty"} => bs[k].resume \in ResumesOf[bs[k].kind]
  /\ k > 1 => /\ bs[k].kind = "loop" => bs[k - 1].kind = "init"
              /\ bs[k].kind = "if" <=> bs[k - 1].phase \in ElsePhases

Nested(bs, n) ==
  /\ \A k \in DOMAIN bs : BlockOK(bs, n, k)
  /\ \A k, l \in DOMAIN bs : k < l => bs[k].id < bs[l].id

(* Only one eval block is open at a time.                                  *)
OneEval(bs, evals) ==
  /\ \A a, b \in IdsOf(bs, {"eval"}) : a = b
  /\ evals = <<>> <=> IdsOf(bs, {"eval"}) = {}
  /\ Len(evals) <= 1

-----------------------------------------------------------------------------
(* The stacks of jumps to patch.                                           *)

Matched(c, s, op, place, ids) ==
  /\ \A j \in DOMAIN s :
       /\ s[j] \in DOMAIN c
       /\ c[s[j]].op = op
       /\ c[s[j]].want[1] \in ids
       /\ c[s[j]].want[2] = place
  /\ \A i, j \in DOMAIN s : i < j => c[s[i]].want[1] < c[s[j]].want[1]
  /\ \A b \in ids : \E j \in DOMAIN s : c[s[j]].want[1] = b

(* The block whose segment the place j of a stack is in.                   *)
OwnedBy(bs, kinds, j, k) ==
  /\ bs[k].kind \in kinds /\ bs[k].base < j
  /\ \A l \in DOMAIN bs : l > k /\ bs[l].kind \in kinds => j <= bs[l].base

Segmented(c, s, bs, kinds) ==
  /\ \A k \in DOMAIN bs : bs[k].kind \in kinds => bs[k].base <= Len(s)
  /\ \A k, l \in DOMAIN bs :
       k < l /\ bs[k].kind \in kinds /\ bs[l].kind \in kinds => bs[k].base <= bs[l].base
  /\ \A j \in DOMAIN s :
       /\ s[j] \in DOMAIN c
       /\ c[s[j]].op = "GOTO"
       /\ \E k \in DOMAIN bs : OwnedBy(bs, kinds, j, k) /\ c[s[j]].want = <<bs[k].id, "end">>

Collected(c, s, ids) ==
  \A j \in DOMAIN s :
    /\ s[j] \in DOMAIN c
    /\ c[s[j]].op # "SWITCH"
    /\ c[s[j]].want[1] \in ids /\ c[s[j]].want[2] = "end"

(* The blocks for which a jump to their end is on "end": the open else     *)
(* blocks, and the one about to be opened.                                 *)
ElseIds(bs, n) == IdsOf(bs, {"else"}) \cup (IF ElseNext(bs) THEN {n + 1} ELSE {})

(* The loops whose condition is still to come.                             *)
Entered(b) == b.kind = "init" /\ b.phase \notin {"init", "done"}
LoopIds(bs) == {bs[k].id : k \in {l \in DOMAIN bs : Entered(bs[l])}}

Waiting(c, bs, p, n) ==
  /\ Matched(c, p["if"], "IF", "end", IdsOf(bs, {"if"}))
  /\ Matched(c, p["end"], "GOTO", "end", ElseIds(bs, n))
  /\ Matched(c, p["first"], "GOTO", "cond", LoopIds(bs))
  /\ Matched(c, p["switch"], "SWITCH", "end", IdsOf(bs, {"switch"}))
  /\ Segmented(c, p["last"], bs, {"init", "switch"})
  /\ Segmented(c, p["next"], bs, {"loop"})
  /\ Collected(c, p["catch"], IdsOf(bs, {"eval"}))
  /\ Collected(c, p["return"], {1})
  /\ Collected(c, p["uncaught"], {1})

-----------------------------------------------------------------------------
(* Where jumps go.                                                         *)

StacksOf ==
  [sub |-> {"return", "uncaught"}, plain |-> {}, if |-> {"if"}, else |-> {"end"},
   init |-> {"last"}, loop |-> {"next"}, eval |-> {"catch"}, switch |-> {"last", "switch"}]

(* The stacks of jumps; "eval" only tells whether an eval block is open.   *)
JumpStacks ==
  {"if", "end", "first", "last", "next", "catch", "uncaught", "return", "switch"}

(* A jump to the end of a block waits for it on a stack of its kind until  *)
(* the block is closed, and then goes there; a jump to the condition or    *)
(* the body of a loop likewise.                                            *)
EndSettled(c, bs, p, m, i) ==
  LET b == c[i].want[1] IN
  c[i].want[2] = "end" =>
    /\ b \notin Open(bs) /\ b \in DOMAIN m /\ c[i].op # "SWITCH" => c[i].to = m[b]["end"]
    /\ \A k \in DOMAIN bs : bs[k].id = b => \E s \in StacksOf[bs[k].kind] : i \in Entries(p[s])

CondSettled(c, bs, p, m, i) ==
  LET b == c[i].want[1] IN
  c[i].want[2] = "cond" =>
    \/ /\ c[i].to = m[b]["cond"]
       /\ \A k \in DOMAIN bs : bs[k].id = b => bs[k].phase \notin {"init", "incr"}
    \/ /\ i \in Entries(p["first"])
       /\ \E k \in DOMAIN bs : bs[k].id = b /\ bs[k].phase = "incr"

BodySettled(c, bs, m, i) ==
  LET b == c[i].want[1] IN
  c[i].want[2] = "body" =>
    /\ c[i].to = m[b]["body"]
    /\ \A k \in DOMAIN bs : bs[k].id = b => bs[k].phase = "done"

Aims(c, bs, p, m, i) ==
  \/ c[i].want[1] \in DOMAIN m
  \/ ElseNext(bs) /\ c[i].want = <<Len(m) + 1, "end">> /\ i \in Entries(p["end"])

Settled(c, bs, p, m, i) ==
  /\ Aims(c, bs, p, m, i)
  /\ EndSettled(c, bs, p, m, i) /\ CondSettled(c, bs, p, m, i) /\ BodySettled(c, bs, m, i)

(* The targets of a switch are in its block, or at the end of it.          *)
Limit(c, bs, m, b) == IF b \in Open(bs) THEN Len(c) + 1 ELSE m[b]["end"]

Targets(o) == o.cases \cup ({o.to} \ {0})

Ranged(c, bs, m, i) ==
  LET b == c[i].want[1] IN
  c[i].op = "SWITCH" =>
    /\ c[i].want[2] = "end" /\ b \in DOMAIN m
    /\ b \in Open(bs) \/ c[i].to # 0
    /\ \A t \in Targets(c[i]) :
         /\ t <= Limit(c, bs, m, b)
         /\ t < Limit(c, bs, m, b) => t \in DOMAIN c /\ b \in c[t].scope

(* The condition of a loop jumps to its body, behind the first jump.       *)
BodiesMarked(c, bs, s, m) ==
  \A k \in DOMAIN bs : Entered(bs[k]) =>
    \A j \in DOMAIN s : c[s[j]].want[1] = bs[k].id => m[bs[k].id]["body"] = s[j] + 1

Landing(c, bs, p, m) ==
  /\ \A i \in DOMAIN c : c[i].want # Nowhere => Settled(c, bs, p, m, i)
  /\ \A i \in DOMAIN c : Ranged(c, bs, m, i)
  /\ BodiesMarked(c, bs, p["first"], m)

BuilderOK(c, bs, p, m) ==
  /\ Typed(c, bs, p, m)
  /\ Nested(bs, Len(m))
  /\ OneEval(bs, p["eval"])
  /\ Waiting(c, bs, p, Len(m))
  /\ Landing(c, bs, p, m)

JumpInv ==
  /\ BuilderOK(code, blocks, pend, marks)
  /\ mortal \in Nat /\ home \in Seq(Nat) /\ built \in BOOLEAN
  /\ built <=> blocks = <<>>

-----------------------------------------------------------------------------
(* Stacks, when opcodes are appended and jumps patched.                    *)

(* The opcodes of c keep what they do and what they are meant for in d.    *)
Extends(c, d) ==
  /\ Len(c) <= Len(d)
  /\ \A i \in DOMAIN c : d[i].op = c[i].op /\ d[i].want = c[i].want /\ d[i].scope = c[i].scope

LEMMA ExtendsDomain ==
  ASSUME NEW c \in Seq(OpRecords), NEW d \in Seq(OpRecords), Extends(c, d)
  PROVE  \A i \in DOMAIN c : i \in DOMAIN d
BY DEF Extends

LEMMA MatchedKept ==
  ASSUME NEW c \in Seq(OpRecords), NEW d \in Seq(OpRecords), Extends(c, d),
         NEW s \in Seq(Nat), NEW op, NEW place, NEW ids, Matched(c, s, op, place, ids)
  PROVE  Matched(d, s, op, place, ids)
<1>1. \A j \in DOMAIN s : s[j] \in DOMAIN c /\ s[j] \in DOMAIN d
  BY ExtendsDomain DEF Matched
<1>2. \A j \in DOMAIN s : d[s[j]].op = c[s[j]].op /\ d[s[j]].want = c[s[j]].want
  BY <1>1 DEF Extends
<1> QED
  BY <1>1, <1>2 DEF Matched

LEMMA MatchedPush ==
  ASSUME NEW c \in Seq(OpRecords), NEW d \in Seq(OpRecords), Extends(c, d),
         NEW s \in Seq(Nat), NEW op, NEW place, NEW ids \in SUBSET Nat,
         Matched(c, s, op, place, ids),
         NEW n \in DOMAIN d, NEW b \in Nat, \A x \in ids : x < b,
         d[n].op = op, d[n].want = <<b, place>>
  PROVE  Matched(d, Append(s, n), op, place, ids \cup {b})
<1> DEFINE t == Append(s, n)
<1>0. n \in Nat
  OBVIOUS
<1>1. Len(t) = Len(s) + 1 /\ t[Len(s) + 1] = n /\ (\A j \in DOMAIN s : t[j] = s[j] /\ j \in DOMAIN t)
      /\ \A j \in DOMAIN t : j \in DOMAIN s \/ j = Len(s) + 1
  BY <1>0
<1>2. Len(s) \in Nat /\ DOMAIN s = 1 .. Len(s) /\ DOMAIN t = 1 .. Len(s) + 1 /\ Len(s) + 1 \in DOMAIN t
  BY <1>0
<1> HIDE DEF t
<1>3. Matched(d, s, op, place, ids)
  BY MatchedKept
<1>4. ASSUME NEW j \in DOMAIN t
      PROVE  /\ t[j] \in DOMAIN d /\ d[t[j]].op = op
             /\ d[t[j]].want[1] \in ids \cup {b} /\ d[t[j]].want[2] = place
  <2>1. CASE j \in DOMAIN s
    <3>1. t[j] = s[j]
      BY <2>1, <1>1
    <3> QED
      BY <2>1, <3>1, <1>3 DEF Matched
  <2>2. CASE j = Len(s) + 1
    <3>1. t[j] = n
      BY <2>2, <1>1
    <3>2. d[n].want[1] = b /\ d[n].want[2] = place
      OBVIOUS
    <3> QED
      BY <3>1, <3>2
  <2> QED
    BY <2>1, <2>2, <1>1
<1>5. ASSUME NEW i \in DOMAIN t, NEW j \in DOMAIN t, i < j
      PROVE  d[t[i]].want[1] < d[t[j]].want[1]
  <2>1. i \in DOMAIN s
    BY <1>2, <1>5
  <2>2. CASE j \in DOMAIN s
    BY <2>1, <2>2, <1>1, <1>3, <1>5 DEF Matched
  <2>3. CASE j = Len(s) + 1
    <3>1. d[t[i]].want[1] \in ids
      BY <2>1, <1>1, <1>3 DEF Matched
    <3>2. d[t[j]].want[1] = b
      BY <2>3, <1>1
    <3> QED
      BY <3>1, <3>2
  <2> QED
    BY <2>2, <2>3, <1>1
<1>6. ASSUME NEW x \in ids \cup {b}
      PROVE  \E j \in DOMAIN t : d[t[j]].want[1] = x
  <2>1. CASE x \in ids
    <3>1. PICK j \in DOMAIN s : d[s[j]].want[1] = x
      BY <2>1, <1>3 DEF Matched
    <3> QED
      BY <3>1, <1>1
  <2>2. CASE x = b
    BY <2>2, <1>1, <1>2
  <2> QED
    BY <2>1, <2>2
<1>7. Matched(d, t, op, place, ids \cup {b})
  BY <1>4, <1>5, <1>6 DEF Matched
<1> QED
  BY <1>7 DEF t

(* The jump of the innermost block is the last one.                        *)
LEMMA MatchedLast ==
  ASSUME NEW c \in Seq(OpRecords), NEW s \in Seq(Nat), NEW op, NEW place,
         NEW ids \in SUBSET Nat, Matched(c, s, op, place, ids),
         NEW b \in ids, \A x \in ids : x <= b
  PROVE  /\ s # <<>> /\ Len(s) \in DOMAIN s /\ Last(s) = s[Len(s)]
         /\ Last(s) \in DOMAIN c /\ c[Last(s)].op = op
         /\ c[Last(s)].want[1] = b /\ c[Last(s)].want[2] = place
         /\ \A j \in DOMAIN s : c[s[j]].want[1] = b => j = Len(s)
<1>1. PICK j \in DOMAIN s : c[s[j]].want[1] = b
  BY DEF Matched
<1>2. Len(s) \in Nat /\ DOMAIN s = 1 .. Len(s)
  OBVIOUS
<1>3. s # <<>> /\ Len(s) \in DOMAIN s /\ Last(s) = s[Len(s)]
  BY <1>1, <1>2 DEF Last
<1>4. ASSUME NEW i \in DOMAIN s, c[s[i]].want[1] = b, i # Len(s) PROVE FALSE
  <2>1. i < Len(s)
    BY <1>2, <1>4
  <2>2. c[s[i]].want[1] < c[s[Len(s)]].want[1]
    BY <2>1, <1>3 DEF Matched
  <2>3. c[s[Len(s)]].want[1] \in ids
    BY <1>3 DEF Matched
  <2> DEFINE w == c[s[Len(s)]].want[1]
  <2>4. w <= b /\ w \in Nat /\ b \in Nat
    BY <2>3
  <2>5. b < w
    BY <1>4, <2>2
  <2> QED
    BY <2>4, <2>5
<1>5. j = Len(s)
  BY <1>1, <1>4
<1>6. Last(s) \in DOMAIN c /\ c[Last(s)].op = op /\ c[Last(s)].want[2] = place
  BY <1>3 DEF Matched
<1> QED
  BY <1>1, <1>3, <1>4, <1>5, <1>6

LEMMA MatchedPop ==
  ASSUME NEW c \in Seq(OpRecords), NEW d \in Seq(OpRecords), Extends(c, d),
         NEW s \in Seq(Nat), NEW op, NEW place,
         NEW ids \in SUBSET Nat, Matched(c, s, op, place, ids),
         NEW b \in ids, \A x \in ids : x <= b
  PROVE  Matched(d, Front(s), op, place, ids \ {b}) /\ Front(s) \in Seq(Nat)
<1>1. /\ s # <<>> /\ Len(s) \in DOMAIN s /\ Last(s) = s[Len(s)]
      /\ Last(s) \in DOMAIN c /\ c[Last(s)].op = op
      /\ c[Last(s)].want[1] = b /\ c[Last(s)].want[2] = place
      /\ \A j \in DOMAIN s : c[s[j]].want[1] = b => j = Len(s)
  <2>1. /\ c \in Seq(OpRecords) /\ s \in Seq(Nat) /\ ids \in SUBSET Nat /\ b \in ids
        /\ Matched(c, s, op, place, ids) /\ \A x \in ids : x <= b
    OBVIOUS
  <2> QED
    BY ONLY <2>1, MatchedLast, SMTT(60)
<1> DEFINE t == Front(s)
<1>2. Len(s) \in Nat /\ Len(s) > 0 /\ DOMAIN s = 1 .. Len(s)
  BY <1>1
<1>3. t \in Seq(Nat) /\ Len(t) = Len(s) - 1 /\ \A j \in DOMAIN t : t[j] = s[j] /\ j \in DOMAIN s
  BY <1>2 DEF Front
<1>4. DOMAIN t = 1 .. Len(s) - 1
  BY <1>2, <1>3
<1> HIDE DEF t
<1>5. Matched(d, s, op, place, ids)
  BY MatchedKept
<1>6. \A j \in DOMAIN s : s[j] \in DOMAIN c /\ d[s[j]].want = c[s[j]].want
  BY DEF Matched, Extends
<1>7. ASSUME NEW j \in DOMAIN t
      PROVE  /\ t[j] \in DOMAIN d /\ d[t[j]].op = op
             /\ d[t[j]].want[1] \in ids /\ d[t[j]].want[2] = place
  <2>1. t[j] = s[j] /\ j \in DOMAIN s
    BY <1>3
  <2> QED
    BY <2>1, <1>5 DEF Matched
<1>8. \A j \in DOMAIN t : j # Len(s)
  BY <1>2, <1>4
<1>9. ASSUME NEW j \in DOMAIN t PROVE d[t[j]].want[1] # b
  <2>1. t[j] = s[j] /\ j \in DOMAIN s /\ j # Len(s)
    BY <1>3, <1>8
  <2>2. d[t[j]].want = c[s[j]].want
    BY <2>1, <1>6
  <2> QED
    BY <2>1, <2>2, <1>1
<1>10. ASSUME NEW i \in DOMAIN t, NEW j \in DOMAIN t, i < j
       PROVE  d[t[i]].want[1] < d[t[j]].want[1]
  <2>1. t[j] = s[j] /\ j \in DOMAIN s /\ t[i] = s[i] /\ i \in DOMAIN s
    BY <1>3
  <2> QED
    BY <2>1, <1>5, <1>10 DEF Matched
<1>11. ASSUME NEW x \in ids \ {b} PROVE \E j \in DOMAIN t : d[t[j]].want[1] = x
  <2>1. PICK j \in DOMAIN s : d[s[j]].want[1] = x
    BY <1>5 DEF Matched
  <2>2. j # Len(s)
    BY <2>1, <1>1, <1>6
  <2>3. j \in DOMAIN t
    BY <2>2, <1>2, <1>4
  <2> QED
    BY <2>1, <2>3, <1>3
<1>12. Matched(d, t, op, place, ids \ {b})
  BY <1>7, <1>9, <1>10, <1>11 DEF Matched
<1> QED
  BY <1>3, <1>12 DEF t

LEMMA CollectedKept ==
  ASSUME NEW c \in Seq(OpRecords), NEW d \in Seq(OpRecords), Extends(c, d),
         NEW s \in Seq(Nat), NEW ids, NEW more, ids \subseteq more, Collected(c, s, ids)
  PROVE  Collected(d, s, more)
<1>1. \A j \in DOMAIN s : s[j] \in DOMAIN c /\ s[j] \in DOMAIN d
  BY ExtendsDomain DEF Collected
<1>2. \A j \in DOMAIN s : d[s[j]].op = c[s[j]].op /\ d[s[j]].want = c[s[j]].want
  BY <1>1 DEF Extends
<1> QED
  BY <1>1, <1>2 DEF Collected

LEMMA CollectedPush ==
  ASSUME NEW c \in Seq(OpRecords), NEW d \in Seq(OpRecords), Extends(c, d),
         NEW s \in Seq(Nat), NEW ids, Collected(c, s, ids),
         NEW n \in DOMAIN d, d[n].op # "SWITCH", NEW b \in ids, d[n].want = <<b, "end">>
  PROVE  Collected(d, Append(s, n), ids)
<1> DEFINE t == Append(s, n)
<1>1. \A j \in DOMAIN t : (j \in DOMAIN s /\ t[j] = s[j]) \/ t[j] = n
  OBVIOUS
<1>2. Collected(d, s, ids)
  BY CollectedKept
<1> HIDE DEF t
<1>3. Collected(d, t, ids)
  BY <1>1, <1>2 DEF Collected
<1> QED
  BY <1>3 DEF t

-----------------------------------------------------------------------------
(* The segments of "last" and "next", when blocks are opened and closed.   *)

(* The first n blocks are the same ones, whatever they do now.             *)
SameBlocks(bs, cs, n) ==
  \A k \in 1 .. n : cs[k].id = bs[k].id /\ cs[k].kind = bs[k].kind /\ cs[k].base = bs[k].base

LEMMA BaseTyped ==
  ASSUME NEW bs \in Seq(BlockRecords), NEW k \in DOMAIN bs
  PROVE  /\ bs[k].base \in Nat /\ bs[k].id \in Nat /\ bs[k].top \in Nat
         /\ bs[k].kind \in BlockKinds /\ bs[k].phase \in BlockPhases
         /\ bs[k].have \in BOOLEAN
<1>1. bs[k] \in BlockRecords
  OBVIOUS
<1> QED
  BY <1>1 DEF BlockRecords

(* Blocks are opened at the end: what was there keeps its segments, and a  *)
(* new block of the kind starts an empty one.                              *)
LEMMA SegmentedOpen ==
  ASSUME NEW c \in Seq(OpRecords), NEW d \in Seq(OpRecords), Extends(c, d),
         NEW s \in Seq(Nat), NEW kinds,
         NEW bs \in Seq(BlockRecords), NEW cs \in Seq(BlockRecords),
         SameBlocks(bs, cs, Len(bs)), Len(bs) <= Len(cs), Len(cs) <= Len(bs) + 1,
         Segmented(c, s, bs, kinds),
         \A k \in DOMAIN cs : k > Len(bs) /\ cs[k].kind \in kinds => cs[k].base = Len(s)
  PROVE  Segmented(d, s, cs, kinds)
<1>1. /\ Len(bs) \in Nat /\ Len(cs) \in Nat
      /\ DOMAIN bs = 1 .. Len(bs) /\ DOMAIN cs = 1 .. Len(cs)
      /\ Len(s) \in Nat /\ DOMAIN s = 1 .. Len(s)
  OBVIOUS
<1>2. \A k \in DOMAIN bs : k \in DOMAIN cs /\ cs[k].id = bs[k].id /\ cs[k].kind = bs[k].kind
                           /\ cs[k].base = bs[k].base
  BY <1>1 DEF SameBlocks
<1>3. \A k \in DOMAIN cs : k \in DOMAIN bs \/ k = Len(bs) + 1
  BY <1>1
<1>4. ASSUME NEW k \in DOMAIN cs, cs[k].kind \in kinds PROVE cs[k].base <= Len(s)
  <2>1. CASE k \in DOMAIN bs
    BY <2>1, <1>2, <1>4 DEF Segmented
  <2>2. CASE k = Len(bs) + 1
    BY <2>2, <1>1, <1>4
  <2> QED
    BY <2>1, <2>2, <1>3
<1>5. ASSUME NEW k \in DOMAIN cs, NEW l \in DOMAIN cs, k < l, cs[k].kind \in kinds, cs[l].kind \in kinds
      PROVE  cs[k].base <= cs[l].base
  <2>1. CASE l \in DOMAIN bs
    <3>1. k \in DOMAIN bs
      BY <2>1, <1>1, <1>5
    <3> QED
      BY <2>1, <3>1, <1>2, <1>5 DEF Segmented
  <2>2. CASE l = Len(bs) + 1
    <3>1. l > Len(bs)
      BY <2>2, <1>1
    <3>2. cs[l].base = Len(s)
      BY <3>1, <1>5
    <3>3. cs[k].base <= Len(s)
      BY <1>4, <1>5
    <3> QED
      BY <3>2, <3>3
  <2> QED
    BY <2>1, <2>2, <1>3
<1>6. ASSUME NEW j \in DOMAIN s
      PROVE  /\ s[j] \in DOMAIN d /\ d[s[j]].op = "GOTO"
             /\ \E k \in DOMAIN cs : OwnedBy(cs, kinds, j, k) /\ d[s[j]].want = <<cs[k].id, "end">>
  <2>1. s[j] \in DOMAIN c /\ c[s[j]].op = "GOTO"
    BY DEF Segmented
  <2>2. s[j] \in DOMAIN d /\ d[s[j]].op = "GOTO" /\ d[s[j]].want = c[s[j]].want
    BY <2>1, ExtendsDomain DEF Extends
  <2>3. PICK k \in DOMAIN bs : OwnedBy(bs, kinds, j, k) /\ c[s[j]].want = <<bs[k].id, "end">>
    BY DEF Segmented
  <2>4. k \in DOMAIN cs /\ cs[k].kind \in kinds /\ cs[k].base < j /\ cs[k].id = bs[k].id
    BY <2>3, <1>2 DEF OwnedBy
  <2>5. ASSUME NEW l \in DOMAIN cs, l > k, cs[l].kind \in kinds PROVE j <= cs[l].base
    <3>1. CASE l \in DOMAIN bs
      BY <3>1, <2>3, <2>5, <1>2 DEF OwnedBy
    <3>2. CASE l = Len(bs) + 1
      <4>1. l > Len(bs)
        BY <3>2, <1>1
      <4>2. cs[l].base = Len(s)
        BY <4>1, <2>5
      <4> QED
        BY <4>2, <1>1
    <3> QED
      BY <3>1, <3>2, <1>3
  <2> QED
    BY <2>2, <2>3, <2>4, <2>5 DEF OwnedBy
<1> QED
  BY <1>4, <1>5, <1>6 DEF Segmented

(* A jump out of a block is added to the segment of that block.            *)
LEMMA SegmentedPush ==
  ASSUME NEW c \in Seq(OpRecords), NEW d \in Seq(OpRecords), Extends(c, d),
         NEW s \in Seq(Nat), NEW kinds,
         NEW bs \in Seq(BlockRecords), NEW cs \in Seq(BlockRecords),
         SameBlocks(bs, cs, Len(bs)), Len(bs) = Len(cs),
         Segmented(c, s, bs, kinds),
         NEW n \in DOMAIN d, d[n].op = "GOTO",
         NEW k \in DOMAIN bs, bs[k].kind \in kinds,
         \A l \in DOMAIN bs : bs[l].kind \in kinds => l <= k,
         d[n].want = <<bs[k].id, "end">>
  PROVE  Segmented(d, Append(s, n), cs, kinds)
<1> DEFINE t == Append(s, n)
<1>0. n \in Nat
  OBVIOUS
<1>1. Len(t) = Len(s) + 1 /\ t[Len(s) + 1] = n /\ (\A j \in DOMAIN s : t[j] = s[j])
      /\ (\A j \in DOMAIN t : j \in DOMAIN s \/ j = Len(s) + 1) /\ t \in Seq(Nat)
  BY <1>0
<1> HIDE DEF t
<1>2. Len(s) \in Nat /\ DOMAIN bs = 1 .. Len(bs) /\ DOMAIN cs = DOMAIN bs /\ DOMAIN bs \subseteq Nat
  OBVIOUS
<1>3. Segmented(d, s, cs, kinds)
  BY <1>2, SegmentedOpen
<1>4. \A l \in DOMAIN cs : cs[l].id = bs[l].id /\ cs[l].kind = bs[l].kind /\ cs[l].base \in Nat
  BY <1>2, BaseTyped DEF SameBlocks
<1>5. \A l \in DOMAIN cs : cs[l].kind \in kinds => cs[l].base <= Len(t)
  <2> TAKE l \in DOMAIN cs
  <2> HAVE cs[l].kind \in kinds
  <2>1. cs[l].base <= Len(s)
    BY <1>3 DEF Segmented
  <2> QED
    BY <2>1, <1>1, <1>2, <1>4
<1>6. ASSUME NEW j \in DOMAIN t
      PROVE  /\ t[j] \in DOMAIN d /\ d[t[j]].op = "GOTO"
             /\ \E l \in DOMAIN cs : OwnedBy(cs, kinds, j, l) /\ d[t[j]].want = <<cs[l].id, "end">>
  <2>1. CASE j \in DOMAIN s
    BY <2>1, <1>1, <1>3 DEF Segmented
  <2>2. CASE j = Len(s) + 1
    <3>1. t[j] = n
      BY <2>2, <1>1
    <3>2. k \in DOMAIN cs /\ cs[k].kind \in kinds /\ cs[k].id = bs[k].id
      BY <1>2, <1>4
    <3>3. cs[k].base < j
      <4>1. cs[k].base <= Len(s)
        BY <3>2, <1>3 DEF Segmented
      <4> QED
        BY <4>1, <2>2, <1>2, <1>4, <3>2
    <3>4. ASSUME NEW l \in DOMAIN cs, l > k, cs[l].kind \in kinds PROVE FALSE
      <4>1. l <= k
        BY <3>4, <1>2, <1>4
      <4> QED
        BY <4>1, <3>4, <1>2
    <3>5. OwnedBy(cs, kinds, j, k)
      BY <3>2, <3>3, <3>4 DEF OwnedBy
    <3> QED
      BY <3>1, <3>2, <3>5
  <2> QED
    BY <2>1, <2>2, <1>1
<1>7. \A i, l \in DOMAIN cs :
        i < l /\ cs[i].kind \in kinds /\ cs[l].kind \in kinds => cs[i].base <= cs[l].base
  BY <1>3 DEF Segmented
<1>8. Segmented(d, t, cs, kinds)
  BY <1>5, <1>6, <1>7 DEF Segmented
<1> QED
  BY <1>8 DEF t

(* The innermost block is closed: its segment, if it has one, is the end   *)
(* of the stack, and is removed.                                           *)
LEMMA SegmentedClose ==
  ASSUME NEW c \in Seq(OpRecords), NEW d \in Seq(OpRecords), Extends(c, d),
         NEW s \in Seq(Nat), NEW t \in Seq(Nat), NEW kinds,
         NEW bs \in Seq(BlockRecords), NEW cs \in Seq(BlockRecords),
         Len(bs) > 0, Len(cs) = Len(bs) - 1, SameBlocks(bs, cs, Len(cs)),
         Segmented(c, s, bs, kinds),
         bs[Len(bs)].kind \in kinds => t = SubSeq(s, 1, bs[Len(bs)].base),
         bs[Len(bs)].kind \notin kinds => t = s
  PROVE  Segmented(d, t, cs, kinds)
<1> DEFINE last == Len(bs)
<1>1. /\ Len(bs) \in Nat /\ Len(cs) \in Nat
      /\ DOMAIN bs = 1 .. Len(bs) /\ DOMAIN cs = 1 .. Len(bs) - 1 /\ last \in DOMAIN bs
      /\ Len(s) \in Nat /\ DOMAIN s = 1 .. Len(s) /\ Len(t) \in Nat /\ DOMAIN t = 1 .. Len(t)
  OBVIOUS
<1>2. \A k \in DOMAIN cs : k \in DOMAIN bs /\ k < last /\ cs[k].id = bs[k].id
                           /\ cs[k].kind = bs[k].kind /\ cs[k].base = bs[k].base
  <2>1. \A k \in DOMAIN cs : k \in DOMAIN bs /\ k < last /\ k \in 1 .. Len(cs)
    BY <1>1
  <2> QED
    BY <2>1 DEF SameBlocks
<1>3. \A k \in DOMAIN bs : bs[k].base \in Nat
  BY BaseTyped
<1>4. \A k \in DOMAIN bs : bs[k].kind \in kinds => bs[k].base <= Len(s)
  BY DEF Segmented
<1>5. /\ bs[last].kind \in kinds => Len(t) = bs[last].base
      /\ bs[last].kind \notin kinds => Len(t) = Len(s)
      /\ \A j \in DOMAIN t : t[j] = s[j] /\ j \in DOMAIN s /\ j \in Nat
  <2>1. CASE bs[last].kind \in kinds
    <3> DEFINE n == bs[last].base
    <3>1. n \in Nat /\ n <= Len(s) /\ t = SubSeq(s, 1, n)
      BY <2>1, <1>1, <1>3, <1>4
    <3> HIDE DEF n
    <3>2. Len(t) = n /\ \A j \in 1 .. n : t[j] = s[j]
      BY <3>1
    <3>3. DOMAIN t = 1 .. n
      BY <3>2, <1>1
    <3>5. n \in Nat /\ n <= Len(s)
      BY <3>1
    <3>6. \A j \in 1 .. n : j \in 1 .. Len(s) /\ j \in Nat
      BY <3>5, <1>1
    <3>4. \A j \in DOMAIN t : t[j] = s[j] /\ j \in DOMAIN s /\ j \in Nat
      BY <3>2, <3>3, <3>6, <1>1, Zenon
    <3> QED
      BY <2>1, <3>2, <3>4 DEF n
  <2>2. CASE bs[last].kind \notin kinds
    <3>1. t = s
      BY <2>2
    <3>2. \A j \in DOMAIN s : j \in Nat
      BY <1>1
    <3>3. \A j \in DOMAIN t : t[j] = s[j] /\ j \in DOMAIN s /\ j \in Nat
      BY <3>1, <3>2, Zenon
    <3> QED
      BY <3>1, <3>3, <2>2, Zenon
  <2> QED
    BY <2>1, <2>2
<1>6. ASSUME NEW k \in DOMAIN cs, cs[k].kind \in kinds PROVE cs[k].base <= Len(t)
  <2>0. bs[k].kind \in kinds /\ k \in DOMAIN bs /\ k < last /\ cs[k].base = bs[k].base
    BY <1>2, <1>6
  <2>1. CASE bs[last].kind \in kinds
    <3>1. bs[k].base <= bs[last].base
      BY <2>0, <2>1, <1>1 DEF Segmented
    <3> QED
      BY <3>1, <2>0, <2>1, <1>5
  <2>2. CASE bs[last].kind \notin kinds
    BY <2>0, <2>2, <1>4, <1>5
  <2> QED
    BY <2>1, <2>2
<1>7. ASSUME NEW k \in DOMAIN cs, NEW l \in DOMAIN cs, k < l, cs[k].kind \in kinds, cs[l].kind \in kinds
      PROVE  cs[k].base <= cs[l].base
  BY <1>2, <1>7 DEF Segmented
<1>8. ASSUME NEW j \in DOMAIN t
      PROVE  /\ t[j] \in DOMAIN d /\ d[t[j]].op = "GOTO"
             /\ \E k \in DOMAIN cs : OwnedBy(cs, kinds, j, k) /\ d[t[j]].want = <<cs[k].id, "end">>
  <2>0. t[j] = s[j] /\ j \in DOMAIN s /\ j \in Nat
    BY <1>5
  <2>1. s[j] \in DOMAIN c /\ c[s[j]].op = "GOTO"
    BY <2>0 DEF Segmented
  <2>2. s[j] \in DOMAIN d /\ d[s[j]].op = "GOTO" /\ d[s[j]].want = c[s[j]].want
    BY <2>1, ExtendsDomain DEF Extends
  <2>3. PICK k \in DOMAIN bs : OwnedBy(bs, kinds, j, k) /\ c[s[j]].want = <<bs[k].id, "end">>
    BY <2>0 DEF Segmented
  <2>4. k # last
    <3>1. CASE bs[last].kind \in kinds
      <4>0. Len(t) = bs[last].base /\ bs[last].base \in Nat
        BY <3>1, <1>5, <1>1, <1>3
      <4>1. j <= Len(t)
        BY <1>1
      <4>2. ~ (bs[last].base < j)
        BY <4>0, <4>1, <2>0
      <4> QED
        BY <4>2, <2>3 DEF OwnedBy
    <3>2. CASE bs[last].kind \notin kinds
      BY <3>2, <2>3 DEF OwnedBy
    <3> QED
      BY <3>1, <3>2
  <2>5. k \in DOMAIN cs
    BY <2>4, <1>1
  <2>6. cs[k].kind \in kinds /\ cs[k].base < j /\ cs[k].id = bs[k].id
    BY <2>3, <2>5, <1>2 DEF OwnedBy
  <2>7. ASSUME NEW l \in DOMAIN cs, l > k, cs[l].kind \in kinds PROVE j <= cs[l].base
    BY <2>3, <2>7, <1>2 DEF OwnedBy
  <2>8. OwnedBy(cs, kinds, j, k)
    BY <2>6, <2>7 DEF OwnedBy
  <2> QED
    BY <2>0, <2>2, <2>3, <2>5, <2>6, <2>8
<1> QED
  BY <1>6, <1>7, <1>8 DEF Segmented

-----------------------------------------------------------------------------
(* The open blocks.                                                        *)

LEMMA IdsAreOpen ==
  ASSUME NEW bs \in Seq(BlockRecords), NEW n \in Nat, Nested(bs, n)
  PROVE  /\ \A k, l \in DOMAIN bs : bs[k].id = bs[l].id => k = l
         /\ Open(bs) \subseteq 1 .. n
         /\ \A kinds : IdsOf(bs, kinds) \subseteq Open(bs)
         /\ LoopIds(bs) \subseteq IdsOf(bs, {"init"})
         /\ \A kinds : \A k \in DOMAIN bs : bs[k].id \in IdsOf(bs, kinds) <=> bs[k].kind \in kinds
         /\ \A k \in DOMAIN bs : bs[k].id \in LoopIds(bs) <=> Entered(bs[k])
<1>0. DOMAIN bs = 1 .. Len(bs) /\ Len(bs) \in Nat
  OBVIOUS
<1>1. ASSUME NEW k \in DOMAIN bs, NEW l \in DOMAIN bs, bs[k].id = bs[l].id, k # l PROVE FALSE
  <2>1. bs[k].id \in Nat /\ bs[l].id \in Nat
    BY BaseTyped
  <2>2. k < l \/ l < k
    BY <1>0, <1>1
  <2>3. bs[k].id < bs[l].id \/ bs[l].id < bs[k].id
    BY <2>2 DEF Nested
  <2> QED
    BY <2>1, <2>3, <1>1
<1>2. Open(bs) \subseteq 1 .. n
  BY DEF Open, Nested, BlockOK
<1>3. \A kinds : IdsOf(bs, kinds) \subseteq Open(bs)
  BY DEF IdsOf, Open
<1>4. LoopIds(bs) \subseteq IdsOf(bs, {"init"})
  BY DEF LoopIds, IdsOf, Entered
<1>5. ASSUME NEW kinds, NEW k \in DOMAIN bs
      PROVE  bs[k].id \in IdsOf(bs, kinds) <=> bs[k].kind \in kinds
  <2>1. ASSUME bs[k].id \in IdsOf(bs, kinds) PROVE bs[k].kind \in kinds
    <3>1. PICK l \in DOMAIN bs : bs[l].kind \in kinds /\ bs[k].id = bs[l].id
      BY <2>1 DEF IdsOf
    <3>2. k = l
      BY <3>1, <1>1
    <3> QED
      BY <3>1, <3>2
  <2>2. ASSUME bs[k].kind \in kinds PROVE bs[k].id \in IdsOf(bs, kinds)
    BY <2>2 DEF IdsOf
  <2> QED
    BY <2>1, <2>2
<1>6. ASSUME NEW k \in DOMAIN bs
      PROVE  bs[k].id \in LoopIds(bs) <=> Entered(bs[k])
  <2>1. ASSUME bs[k].id \in LoopIds(bs) PROVE Entered(bs[k])
    <3>1. PICK l \in DOMAIN bs : Entered(bs[l]) /\ bs[k].id = bs[l].id
      BY <2>1 DEF LoopIds
    <3>2. k = l
      BY <3>1, <1>1
    <3> QED
      BY <3>1, <3>2
  <2>2. ASSUME Entered(bs[k]) PROVE bs[k].id \in LoopIds(bs)
    BY <2>2 DEF LoopIds
  <2> QED
    BY <2>1, <2>2
<1> QED
  BY <1>1, <1>2, <1>3, <1>4, <1>5, <1>6

(* The innermost block has the greatest number.                            *)
LEMMA TopIsLast ==
  ASSUME NEW bs \in Seq(BlockRecords), NEW n \in Nat, Nested(bs, n), bs # <<>>
  PROVE  LET top == bs[Len(bs)] IN
         /\ Len(bs) \in DOMAIN bs /\ top \in BlockRecords /\ Last(bs) = top
         /\ top.id \in 1 .. n /\ top.id \in Open(bs)
         /\ \A b \in Open(bs) : b \in Nat /\ b <= top.id
<1>1. Len(bs) \in DOMAIN bs /\ DOMAIN bs = 1 .. Len(bs) /\ Len(bs) \in Nat
  OBVIOUS
<1>2. bs[Len(bs)] \in BlockRecords /\ Last(bs) = bs[Len(bs)]
  BY <1>1 DEF Last
<1>3. bs[Len(bs)].id \in 1 .. n /\ bs[Len(bs)].id \in Open(bs)
  BY <1>1 DEF Nested, BlockOK, Open
<1>4. ASSUME NEW b \in Open(bs) PROVE b \in Nat /\ b <= bs[Len(bs)].id
  <2>1. PICK k \in DOMAIN bs : b = bs[k].id
    BY DEF Open
  <2>2. bs[k].id \in Nat /\ bs[Len(bs)].id \in Nat
    BY <1>1, BaseTyped
  <2>3. k = Len(bs) \/ k < Len(bs)
    BY <1>1
  <2>4. k < Len(bs) => bs[k].id < bs[Len(bs)].id
    BY <1>1 DEF Nested
  <2> QED
    BY <2>1, <2>2, <2>3, <2>4
<1> QED
  BY <1>1, <1>2, <1>3, <1>4

(* The first n blocks do what they did.                                    *)
SamePhases(bs, cs, n) ==
  \A k \in 1 .. n : cs[k].phase = bs[k].phase /\ cs[k].resume = bs[k].resume

LEMMA IdsSame ==
  ASSUME NEW bs \in Seq(BlockRecords), NEW cs \in Seq(BlockRecords),
         Len(cs) = Len(bs), SameBlocks(bs, cs, Len(bs))
  PROVE  /\ Open(cs) = Open(bs)
         /\ \A kinds : IdsOf(cs, kinds) = IdsOf(bs, kinds)
<1>1. DOMAIN bs = 1 .. Len(bs) /\ DOMAIN cs = 1 .. Len(bs)
  OBVIOUS
<1>2. DOMAIN cs = DOMAIN bs /\ \A k \in DOMAIN bs : cs[k].id = bs[k].id /\ cs[k].kind = bs[k].kind
  BY <1>1 DEF SameBlocks
<1>3. Open(cs) = Open(bs)
  BY <1>2 DEF Open
<1>4. ASSUME NEW kinds PROVE IdsOf(cs, kinds) = IdsOf(bs, kinds)
  <2>1. \A x : x \in IdsOf(cs, kinds) <=> \E k \in DOMAIN bs : bs[k].kind \in kinds /\ x = bs[k].id
    BY <1>2 DEF IdsOf
  <2>2. \A x : x \in IdsOf(bs, kinds) <=> \E k \in DOMAIN bs : bs[k].kind \in kinds /\ x = bs[k].id
    BY DEF IdsOf
  <2> QED
    BY <2>1, <2>2
<1> QED
  BY <1>3, <1>4

LEMMA IdsOpened ==
  ASSUME NEW bs \in Seq(BlockRecords), NEW cs \in Seq(BlockRecords),
         Len(cs) = Len(bs) + 1, SameBlocks(bs, cs, Len(bs))
  PROVE  LET b == cs[Len(cs)] IN
         /\ Open(cs) = Open(bs) \cup {b.id}
         /\ \A kinds : b.kind \in kinds => IdsOf(cs, kinds) = IdsOf(bs, kinds) \cup {b.id}
         /\ \A kinds : b.kind \notin kinds => IdsOf(cs, kinds) = IdsOf(bs, kinds)
<1> DEFINE b == cs[Len(cs)]
<1>1. Len(bs) \in Nat /\ DOMAIN bs = 1 .. Len(bs) /\ DOMAIN cs = 1 .. Len(bs) + 1
  OBVIOUS
<1>2. /\ \A k \in DOMAIN bs : k \in DOMAIN cs /\ cs[k].id = bs[k].id /\ cs[k].kind = bs[k].kind
      /\ \A k \in DOMAIN cs : k \in DOMAIN bs \/ k = Len(cs)
      /\ Len(cs) \in DOMAIN cs
  BY <1>1 DEF SameBlocks
<1>3. Open(cs) = Open(bs) \cup {b.id}
  BY <1>2 DEF Open
<1>4. ASSUME NEW kinds
      PROVE  /\ b.kind \in kinds => IdsOf(cs, kinds) = IdsOf(bs, kinds) \cup {b.id}
             /\ b.kind \notin kinds => IdsOf(cs, kinds) = IdsOf(bs, kinds)
  <2>1. \A x : x \in IdsOf(cs, kinds) <=> \E k \in DOMAIN cs : cs[k].kind \in kinds /\ x = cs[k].id
    BY DEF IdsOf
  <2>2. \A x : x \in IdsOf(bs, kinds) <=> \E k \in DOMAIN bs : bs[k].kind \in kinds /\ x = bs[k].id
    BY DEF IdsOf
  <2>3. \A x : x \in IdsOf(cs, kinds) <=> x \in IdsOf(bs, kinds) \/ (b.kind \in kinds /\ x = b.id)
    BY <2>1, <2>2, <1>2
  <2> QED
    BY <2>3
<1> QED
  BY <1>3, <1>4

LEMMA IdsClosed ==
  ASSUME NEW bs \in Seq(BlockRecords), NEW cs \in Seq(BlockRecords), NEW n \in Nat, Nested(bs, n),
         Len(bs) > 0, Len(cs) = Len(bs) - 1, SameBlocks(bs, cs, Len(cs))
  PROVE  LET b == bs[Len(bs)] IN
         /\ Open(cs) = Open(bs) \ {b.id}
         /\ \A kinds : IdsOf(cs, kinds) = IdsOf(bs, kinds) \ {b.id}
         /\ \A kinds : b.kind \notin kinds => IdsOf(cs, kinds) = IdsOf(bs, kinds)
<1> DEFINE b == bs[Len(bs)]
<1>1. Len(bs) \in Nat /\ DOMAIN bs = 1 .. Len(bs) /\ DOMAIN cs = 1 .. Len(bs) - 1
      /\ Len(bs) \in DOMAIN bs
  OBVIOUS
<1>2. /\ \A k \in DOMAIN cs : k \in DOMAIN bs /\ k # Len(bs) /\ cs[k].id = bs[k].id /\ cs[k].kind = bs[k].kind
      /\ \A k \in DOMAIN bs : k \in DOMAIN cs \/ k = Len(bs)
  <2>1. \A k \in DOMAIN cs : k \in DOMAIN bs /\ k # Len(bs) /\ k \in 1 .. Len(cs)
    BY <1>1
  <2>2. \A k \in DOMAIN bs : k \in DOMAIN cs \/ k = Len(bs)
    BY <1>1
  <2> QED
    BY <2>1, <2>2 DEF SameBlocks
<1>3. \A k \in DOMAIN bs : bs[k].id = b.id => k = Len(bs)
  BY <1>1, IdsAreOpen
<1>4. Open(cs) = Open(bs) \ {b.id}
  <2>1. \A x : x \in Open(cs) <=> \E k \in DOMAIN cs : x = cs[k].id
    BY DEF Open
  <2>2. \A x : x \in Open(bs) <=> \E k \in DOMAIN bs : x = bs[k].id
    BY DEF Open
  <2>3. \A x : x \in Open(cs) <=> x \in Open(bs) /\ x # b.id
    BY <2>1, <2>2, <1>2, <1>3
  <2> QED
    BY <2>3
<1>5. ASSUME NEW kinds
      PROVE  /\ IdsOf(cs, kinds) = IdsOf(bs, kinds) \ {b.id}
             /\ b.kind \notin kinds => IdsOf(cs, kinds) = IdsOf(bs, kinds)
  <2>1. \A x : x \in IdsOf(cs, kinds) <=> \E k \in DOMAIN cs : cs[k].kind \in kinds /\ x = cs[k].id
    BY DEF IdsOf
  <2>2. \A x : x \in IdsOf(bs, kinds) <=> \E k \in DOMAIN bs : bs[k].kind \in kinds /\ x = bs[k].id
    BY DEF IdsOf
  <2>3. \A x : x \in IdsOf(cs, kinds) <=> x \in IdsOf(bs, kinds) /\ x # b.id
    BY <2>1, <2>2, <1>2, <1>3
  <2>4. b.kind \notin kinds => b.id \notin IdsOf(bs, kinds)
    BY <2>2, <1>3
  <2> QED
    BY <2>3, <2>4
<1> QED
  BY <1>4, <1>5

LEMMA LoopsSame ==
  ASSUME NEW bs \in Seq(BlockRecords), NEW cs \in Seq(BlockRecords),
         Len(bs) <= Len(cs), SameBlocks(bs, cs, Len(bs)),
         \A k \in DOMAIN bs : Entered(cs[k]) <=> Entered(bs[k]),
         \A k \in DOMAIN cs : k > Len(bs) => ~ Entered(cs[k])
  PROVE  LoopIds(cs) = LoopIds(bs)
<1>1. Len(bs) \in Nat /\ DOMAIN bs = 1 .. Len(bs) /\ DOMAIN cs = 1 .. Len(cs) /\ Len(cs) \in Nat
  OBVIOUS
<1>2. /\ \A k \in DOMAIN bs : k \in DOMAIN cs /\ cs[k].id = bs[k].id
      /\ \A k \in DOMAIN cs : k \in DOMAIN bs \/ k > Len(bs)
  BY <1>1 DEF SameBlocks
<1>3. \A x : x \in LoopIds(cs) <=> \E k \in DOMAIN cs : Entered(cs[k]) /\ x = cs[k].id
  BY DEF LoopIds
<1>4. \A x : x \in LoopIds(bs) <=> \E k \in DOMAIN bs : Entered(bs[k]) /\ x = bs[k].id
  BY DEF LoopIds
<1>5. \A x : x \in LoopIds(cs) <=> x \in LoopIds(bs)
  BY <1>2, <1>3, <1>4
<1> QED
  BY <1>5

LEMMA LoopsClosed ==
  ASSUME NEW bs \in Seq(BlockRecords), NEW cs \in Seq(BlockRecords), NEW n \in Nat, Nested(bs, n),
         Len(bs) > 0, Len(cs) = Len(bs) - 1, SameBlocks(bs, cs, Len(cs)),
         SamePhases(bs, cs, Len(cs)), ~ Entered(bs[Len(bs)])
  PROVE  LoopIds(cs) = LoopIds(bs)
<1>1. Len(bs) \in Nat /\ DOMAIN bs = 1 .. Len(bs) /\ DOMAIN cs = 1 .. Len(cs) /\ Len(cs) \in Nat
  OBVIOUS
<1>2. /\ \A k \in DOMAIN cs : k \in DOMAIN bs /\ cs[k].id = bs[k].id /\ (Entered(cs[k]) <=> Entered(bs[k]))
      /\ \A k \in DOMAIN bs : k \in DOMAIN cs \/ k = Len(bs)
  <2>1. \A k \in DOMAIN cs : k \in DOMAIN bs /\ k \in 1 .. Len(cs)
    BY <1>1
  <2>2. \A k \in DOMAIN bs : k \in DOMAIN cs \/ k = Len(bs)
    BY <1>1
  <2> QED
    BY <2>1, <2>2 DEF SameBlocks, SamePhases, Entered
<1>3. \A x : x \in LoopIds(cs) <=> \E k \in DOMAIN cs : Entered(cs[k]) /\ x = cs[k].id
  BY DEF LoopIds
<1>4. \A x : x \in LoopIds(bs) <=> \E k \in DOMAIN bs : Entered(bs[k]) /\ x = bs[k].id
  BY DEF LoopIds
<1>5. \A x : x \in LoopIds(cs) <=> x \in LoopIds(bs)
  BY <1>2, <1>3, <1>4
<1> QED
  BY <1>5

(* The body of a loop is opened; its condition has been read.              *)
LEMMA LoopsEntered ==
  ASSUME NEW bs \in Seq(BlockRecords), NEW cs \in Seq(BlockRecords), NEW n \in Nat, Nested(bs, n),
         Len(bs) > 0, Len(cs) = Len(bs) + 1, SameBlocks(bs, cs, Len(bs)),
         SamePhases(bs, cs, Len(bs) - 1), ~ Entered(cs[Len(cs)]), Entered(cs[Len(bs)])
  PROVE  LoopIds(cs) = LoopIds(bs) \cup {bs[Len(bs)].id}
<1>1. Len(bs) \in Nat /\ DOMAIN bs = 1 .. Len(bs) /\ DOMAIN cs = 1 .. Len(bs) + 1 /\ Len(cs) \in Nat
      /\ Len(bs) \in DOMAIN bs
  OBVIOUS
<1>2. /\ \A k \in DOMAIN bs : k \in DOMAIN cs /\ cs[k].id = bs[k].id
                               /\ (k # Len(bs) => (Entered(cs[k]) <=> Entered(bs[k])))
      /\ \A k \in DOMAIN cs : k \in DOMAIN bs \/ k = Len(cs)
  <2>1. \A k \in DOMAIN bs : k \in DOMAIN cs /\ (k # Len(bs) => k \in 1 .. Len(bs) - 1)
    BY <1>1
  <2>2. \A k \in DOMAIN cs : k \in DOMAIN bs \/ k = Len(cs)
    BY <1>1
  <2> QED
    BY <2>1, <2>2, <1>1 DEF SameBlocks, SamePhases, Entered
<1>3. \A x : x \in LoopIds(cs) <=> \E k \in DOMAIN cs : Entered(cs[k]) /\ x = cs[k].id
  BY DEF LoopIds
<1>4. \A x : x \in LoopIds(bs) <=> \E k \in DOMAIN bs : Entered(bs[k]) /\ x = bs[k].id
  BY DEF LoopIds
<1>5. \A x : x \in LoopIds(cs) <=> x \in LoopIds(bs) \/ x = bs[Len(bs)].id
  BY <1>1, <1>2, <1>3, <1>4
<1> QED
  BY <1>5

LEMMA LoopsDone ==
  ASSUME NEW bs \in Seq(BlockRecords), NEW cs \in Seq(BlockRecords), NEW n \in Nat, Nested(bs, n),
         Len(bs) > 0, Len(cs) = Len(bs), SameBlocks(bs, cs, Len(bs)),
         SamePhases(bs, cs, Len(bs) - 1), ~ Entered(cs[Len(cs)])
  PROVE  LoopIds(cs) = LoopIds(bs) \ {bs[Len(bs)].id}
<1>1. Len(bs) \in Nat /\ DOMAIN bs = 1 .. Len(bs) /\ DOMAIN cs = DOMAIN bs /\ Len(bs) \in DOMAIN bs
  OBVIOUS
<1>2. \A k \in DOMAIN bs : cs[k].id = bs[k].id
                           /\ (k # Len(bs) => (Entered(cs[k]) <=> Entered(bs[k])))
  <2>1. \A k \in DOMAIN bs : (k # Len(bs) => k \in 1 .. Len(bs) - 1)
    BY <1>1
  <2> QED
    BY <2>1, <1>1 DEF SameBlocks, SamePhases, Entered
<1>3. \A x : x \in LoopIds(cs) <=> \E k \in DOMAIN cs : Entered(cs[k]) /\ x = cs[k].id
  BY DEF LoopIds
<1>4. \A x : x \in LoopIds(bs) <=> \E k \in DOMAIN bs : Entered(bs[k]) /\ x = bs[k].id
  BY DEF LoopIds
<1>5. \A k \in DOMAIN bs : bs[k].id = bs[Len(bs)].id => k = Len(bs)
  BY <1>1, IdsAreOpen
<1>6. \A x : x \in LoopIds(cs) <=> x \in LoopIds(bs) /\ x # bs[Len(bs)].id
  BY <1>1, <1>2, <1>3, <1>4, <1>5
<1> QED
  BY <1>6

-----------------------------------------------------------------------------
(* Nesting, when the innermost block goes on, opens another, or is closed. *)

(* What a block may do next.                                               *)
MayBe(b) ==
  /\ b.phase \in PhasesOf[b.kind]
  /\ b.phase \in {"else_operand", "else_empty"} => b.resume \in ResumesOf[b.kind]

LEMMA NestedStays ==
  ASSUME NEW bs \in Seq(BlockRecords), NEW cs \in Seq(BlockRecords), NEW n \in Nat, Nested(bs, n),
         Len(bs) > 0, Len(cs) = Len(bs), SameBlocks(bs, cs, Len(bs)),
         SamePhases(bs, cs, Len(bs) - 1), MayBe(cs[Len(bs)])
  PROVE  Nested(cs, n)
<1>1. Len(bs) \in Nat /\ DOMAIN bs = 1 .. Len(bs) /\ DOMAIN cs = DOMAIN bs
  OBVIOUS
<1>2. \A k \in DOMAIN bs : cs[k].id = bs[k].id /\ cs[k].kind = bs[k].kind
  BY <1>1 DEF SameBlocks
<1>3. \A k \in DOMAIN bs : k # Len(bs) => cs[k].phase = bs[k].phase /\ cs[k].resume = bs[k].resume
  <2>1. \A k \in DOMAIN bs : k # Len(bs) => k \in 1 .. Len(bs) - 1
    BY <1>1
  <2> QED
    BY <2>1 DEF SamePhases
<1>4. ASSUME NEW k \in DOMAIN cs PROVE BlockOK(cs, n, k)
  <2>1. k \in DOMAIN bs /\ BlockOK(bs, n, k)
    BY <1>1 DEF Nested
  <2>2. MayBe(cs[k])
    <3>1. CASE k = Len(bs)
      BY <3>1
    <3>2. CASE k # Len(bs)
      BY <3>2, <2>1, <1>2, <1>3 DEF BlockOK, MayBe
    <3> QED
      BY <3>1, <3>2
  <2>3. k > 1 => k - 1 \in DOMAIN bs /\ k - 1 # Len(bs)
    BY <2>1, <1>1
  <2>4. k > 1 => cs[k - 1].kind = bs[k - 1].kind /\ cs[k - 1].phase = bs[k - 1].phase
    BY <2>3, <1>2, <1>3
  <2> QED
    BY <2>1, <2>2, <2>4, <1>2 DEF BlockOK, MayBe
<1>5. \A k, l \in DOMAIN cs : k < l => cs[k].id < cs[l].id
  BY <1>1, <1>2 DEF Nested
<1> QED
  BY <1>4, <1>5 DEF Nested

LEMMA NestedOpened ==
  ASSUME NEW bs \in Seq(BlockRecords), NEW cs \in Seq(BlockRecords), NEW n \in Nat, Nested(bs, n),
         Len(bs) > 0, Len(cs) = Len(bs) + 1, SameBlocks(bs, cs, Len(bs)),
         SamePhases(bs, cs, Len(bs) - 1), MayBe(cs[Len(bs)]), MayBe(cs[Len(cs)]),
         cs[Len(cs)].id = n + 1, cs[Len(cs)].kind # "sub",
         cs[Len(cs)].kind = "if" <=> cs[Len(bs)].phase \in ElsePhases,
         cs[Len(cs)].kind = "loop" => cs[Len(bs)].kind = "init"
  PROVE  Nested(cs, n + 1)
<1> DEFINE L == Len(bs)
<1>1. L \in Nat /\ DOMAIN bs = 1 .. L /\ DOMAIN cs = 1 .. L + 1 /\ L + 1 > 1
  OBVIOUS
<1>2. \A k \in DOMAIN bs : k \in DOMAIN cs /\ cs[k].id = bs[k].id /\ cs[k].kind = bs[k].kind
  BY <1>1 DEF SameBlocks
<1>3. \A k \in DOMAIN bs : k # L => cs[k].phase = bs[k].phase /\ cs[k].resume = bs[k].resume
  <2>1. \A k \in DOMAIN bs : k # L => k \in 1 .. L - 1
    BY <1>1
  <2> QED
    BY <2>1 DEF SamePhases
<1>4. ASSUME NEW k \in DOMAIN cs PROVE BlockOK(cs, n + 1, k)
  <2>1. CASE k \in DOMAIN bs
    <3>1. BlockOK(bs, n, k)
      BY <2>1 DEF Nested
    <3>2. MayBe(cs[k])
      <4>1. CASE k = L
        BY <4>1
      <4>2. CASE k # L
        BY <4>2, <2>1, <3>1, <1>2, <1>3 DEF BlockOK, MayBe
      <4> QED
        BY <4>1, <4>2
    <3>3. k > 1 => k - 1 \in DOMAIN bs /\ k - 1 # L
      BY <2>1, <1>1
    <3>4. k > 1 => cs[k - 1].kind = bs[k - 1].kind /\ cs[k - 1].phase = bs[k - 1].phase
      BY <3>3, <1>2, <1>3
    <3>5. cs[k].id \in 1 .. n + 1
      BY <3>1, <2>1, <1>2 DEF BlockOK
    <3> QED
      BY <2>1, <3>1, <3>2, <3>4, <3>5, <1>2 DEF BlockOK, MayBe
  <2>2. CASE k = L + 1
    <3>1. k - 1 = L /\ k = Len(cs) /\ k # 1
      BY <2>2, <1>1
    <3>2. n + 1 \in 1 .. n + 1
      OBVIOUS
    <3> QED
      BY <3>1, <3>2 DEF BlockOK, MayBe
  <2> QED
    BY <2>1, <2>2, <1>1
<1>5. ASSUME NEW k \in DOMAIN cs, NEW l \in DOMAIN cs, k < l PROVE cs[k].id < cs[l].id
  <2>1. k \in DOMAIN bs
    BY <1>1, <1>5
  <2>2. CASE l \in DOMAIN bs
    BY <2>1, <2>2, <1>2, <1>5 DEF Nested
  <2>3. CASE l = L + 1
    <3>1. bs[k].id \in 1 .. n
      BY <2>1 DEF Nested, BlockOK
    <3>2. cs[k].id = bs[k].id /\ cs[l].id = n + 1
      BY <2>1, <2>3, <1>2
    <3> QED
      BY <3>1, <3>2
  <2> QED
    BY <2>2, <2>3, <1>1
<1> QED
  BY <1>4, <1>5 DEF Nested

LEMMA NestedClosed ==
  ASSUME NEW bs \in Seq(BlockRecords), NEW cs \in Seq(BlockRecords), NEW n \in Nat, Nested(bs, n),
         Len(bs) > 0, Len(cs) = Len(bs) - 1, SameBlocks(bs, cs, Len(cs)),
         SamePhases(bs, cs, Len(cs))
  PROVE  Nested(cs, n) /\ (ElseNext(cs) <=> cs # <<>> /\ bs[Len(bs)].kind = "if")
<1>1. Len(bs) \in Nat /\ DOMAIN bs = 1 .. Len(bs) /\ DOMAIN cs = 1 .. Len(cs) /\ Len(cs) \in Nat
  OBVIOUS
<1>2. \A k \in DOMAIN cs : /\ k \in DOMAIN bs
                           /\ cs[k].id = bs[k].id /\ cs[k].kind = bs[k].kind
                           /\ cs[k].phase = bs[k].phase /\ cs[k].resume = bs[k].resume
  <2>1. \A k \in DOMAIN cs : k \in DOMAIN bs /\ k \in 1 .. Len(cs)
    BY <1>1
  <2> QED
    BY <2>1 DEF SameBlocks, SamePhases
<1>3. ASSUME NEW k \in DOMAIN cs PROVE BlockOK(cs, n, k)
  <2>1. k \in DOMAIN bs /\ BlockOK(bs, n, k)
    BY <1>2 DEF Nested
  <2>2. k > 1 => k - 1 \in DOMAIN cs
    BY <1>1
  <2>3. k > 1 => cs[k - 1].kind = bs[k - 1].kind /\ cs[k - 1].phase = bs[k - 1].phase
    BY <2>2, <1>2
  <2> QED
    BY <2>1, <2>3, <1>2 DEF BlockOK
<1>4. \A k, l \in DOMAIN cs : k < l => cs[k].id < cs[l].id
  BY <1>2 DEF Nested
<1>5. ElseNext(cs) <=> cs # <<>> /\ bs[Len(bs)].kind = "if"
  <2>1. CASE cs = <<>>
    BY <2>1 DEF ElseNext
  <2>2. CASE cs # <<>>
    <3>1. Len(cs) \in DOMAIN cs /\ Len(bs) - 1 = Len(cs) /\ Len(bs) > 1 /\ Len(bs) \in DOMAIN bs
      BY <2>2, <1>1
    <3>2. BlockOK(bs, n, Len(bs))
      BY <3>1 DEF Nested
    <3>3. bs[Len(bs)].kind = "if" <=> bs[Len(cs)].phase \in ElsePhases
      BY <3>1, <3>2 DEF BlockOK
    <3>4. cs[Len(cs)].phase = bs[Len(cs)].phase
      BY <3>1, <1>2
    <3> QED
      BY <2>2, <3>3, <3>4 DEF ElseNext
  <2> QED
    BY <2>1, <2>2
<1> QED
  BY <1>3, <1>4, <1>5 DEF Nested

-----------------------------------------------------------------------------
(* Jumps that landed stay where they are, and those that wait are waiting. *)

(* The innermost block goes on or opens another one.                       *)
GoesOn(bs, cs, p, q, m, r) ==
  /\ bs \in Seq(BlockRecords) /\ cs \in Seq(BlockRecords) /\ Nested(bs, Len(m))
  /\ Len(bs) <= Len(cs) /\ SameBlocks(bs, cs, Len(bs)) /\ Len(m) <= Len(r)
  /\ \A b \in DOMAIN m : r[b]["end"] = m[b]["end"]
  /\ \A b \in DOMAIN m :
       \/ r[b]["body"] = m[b]["body"]
       \/ \E k \in DOMAIN bs : bs[k].id = b /\ bs[k].phase # "done"
  /\ \A k \in DOMAIN cs : k > Len(bs) =>
       cs[k].id = Len(m) + 1 /\ (ElseNext(bs) => cs[k].kind = "else")
  /\ ElseNext(bs) => Len(cs) > Len(bs) /\ Len(r) > Len(m)
  /\ \A s \in JumpStacks \ {"first"} : Entries(p[s]) \subseteq Entries(q[s])
  /\ \A k \in DOMAIN bs : bs[k].phase = "done" => cs[k].phase = "done"

LEMMA StacksAre ==
  \A kind \in BlockKinds : StacksOf[kind] \subseteq JumpStacks \ {"first"}
<1>1. \A kind \in BlockKinds : StacksOf[kind] \subseteq JumpStacks
  BY DEF StacksOf, JumpStacks, BlockKinds
<1>2. \A kind \in BlockKinds : "first" \notin StacksOf[kind]
  BY DEF StacksOf, BlockKinds
<1> QED
  BY <1>1, <1>2

LEMMA SettledStays ==
  ASSUME NEW c \in Seq(OpRecords), NEW d \in Seq(OpRecords), Extends(c, d), NEW i \in DOMAIN c,
         NEW bs, NEW cs, NEW p, NEW q,
         NEW m \in Seq([Places -> Nat]), NEW r \in Seq([Places -> Nat]),
         GoesOn(bs, cs, p, q, m, r),
         d[i].to = c[i].to \/ (c[i].op = "SWITCH" /\ c[i].want[2] = "end") \/ c[i].want[2] = "cond",
         c[i].want[2] = "cond" => CondSettled(d, cs, q, r, i),
         Settled(c, bs, p, m, i)
  PROVE  Settled(d, cs, q, r, i)
<1> USE DEF GoesOn
<1> DEFINE b == c[i].want[1]
           pl == c[i].want[2]
<1>1. /\ Len(bs) \in Nat /\ DOMAIN bs = 1 .. Len(bs) /\ DOMAIN cs = 1 .. Len(cs) /\ Len(cs) \in Nat
      /\ Len(m) \in Nat /\ Len(r) \in Nat /\ DOMAIN m = 1 .. Len(m) /\ DOMAIN r = 1 .. Len(r)
  OBVIOUS
<1>2. i \in DOMAIN d /\ d[i].want = c[i].want /\ d[i].op = c[i].op
  BY ExtendsDomain DEF Extends
<1>3. \A k \in DOMAIN bs : k \in DOMAIN cs /\ cs[k].id = bs[k].id /\ cs[k].kind = bs[k].kind
  BY <1>1 DEF SameBlocks
<1>4. \A k \in DOMAIN cs : k \in DOMAIN bs \/ k > Len(bs)
  BY <1>1
<1>5. ASSUME NEW x \in Open(bs) PROVE x \in Open(cs)
  <2>1. PICK k \in DOMAIN bs : x = bs[k].id
    BY DEF Open
  <2> QED
    BY <2>1, <1>3 DEF Open
<1>6. DOMAIN m \subseteq DOMAIN r
  BY <1>1
<1>7. b \notin DOMAIN m => ElseNext(bs) /\ c[i].want = <<Len(m) + 1, "end">> /\ i \in Entries(p["end"])
  BY DEF Settled, Aims
<1>8. ElseNext(bs) => Len(m) + 1 \in Open(cs) /\ Len(m) + 1 \in DOMAIN r
  <2>1. SUFFICES ASSUME ElseNext(bs) PROVE Len(m) + 1 \in Open(cs) /\ Len(m) + 1 \in DOMAIN r
    OBVIOUS
  <2>2. Len(cs) \in DOMAIN cs /\ Len(cs) > Len(bs) /\ Len(m) + 1 \in DOMAIN r
    BY <1>1, <2>1
  <2>3. cs[Len(cs)].id = Len(m) + 1
    BY <2>2
  <2> QED
    BY <2>2, <2>3 DEF Open
<1>9. \A k \in DOMAIN cs : k > Len(bs) => cs[k].id \notin DOMAIN m
  BY <1>1
<1>10. Aims(d, cs, q, r, i)
  BY <1>2, <1>6, <1>7, <1>8 DEF Aims
<1>11. EndSettled(d, cs, q, r, i)
  <2>1. SUFFICES ASSUME pl = "end"
        PROVE  /\ b \notin Open(cs) /\ b \in DOMAIN r /\ c[i].op # "SWITCH" => d[i].to = r[b]["end"]
               /\ \A k \in DOMAIN cs : cs[k].id = b => \E s \in StacksOf[cs[k].kind] : i \in Entries(q[s])
    BY <1>2 DEF EndSettled
  <2>2. ASSUME b \notin Open(cs), b \in DOMAIN r, c[i].op # "SWITCH" PROVE d[i].to = r[b]["end"]
    <3>1. b \in DOMAIN m
      BY <1>7, <1>8, <2>2
    <3>2. b \notin Open(bs)
      BY <1>5, <2>2
    <3> QED
      BY <3>1, <3>2, <2>1, <2>2 DEF Settled, EndSettled
  <2>3. ASSUME NEW k \in DOMAIN cs, cs[k].id = b PROVE \E s \in StacksOf[cs[k].kind] : i \in Entries(q[s])
    <3>0. \A kind \in BlockKinds : StacksOf[kind] \subseteq JumpStacks \ {"first"}
      BY StacksAre
    <3>1. CASE k \in DOMAIN bs
      <4>1. bs[k].id = b /\ bs[k].kind = cs[k].kind
        BY <3>1, <2>3, <1>3
      <4>2. PICK s \in StacksOf[bs[k].kind] : i \in Entries(p[s])
        BY <4>1, <3>1, <2>1 DEF Settled, EndSettled
      <4>3. bs[k].kind \in BlockKinds
        BY <3>1, BaseTyped
      <4>4. s \in JumpStacks \ {"first"}
        BY <4>2, <4>3, <3>0
      <4> QED
        BY <4>1, <4>2, <4>4
    <3>2. CASE k > Len(bs)
      <4>1. ElseNext(bs) /\ i \in Entries(p["end"])
        BY <3>2, <2>3, <1>9, <1>7
      <4>2. cs[k].kind = "else"
        BY <4>1, <3>2
      <4>3. "end" \in JumpStacks \ {"first"} /\ "end" \in StacksOf["else"]
        BY DEF JumpStacks, StacksOf
      <4> QED
        BY <4>1, <4>2, <4>3
    <3> QED
      BY <3>1, <3>2, <1>4
  <2> QED
    BY <2>2, <2>3
<1>12. CondSettled(d, cs, q, r, i)
  BY <1>2 DEF CondSettled
<1>13. BodySettled(d, cs, r, i)
  <2>1. SUFFICES ASSUME pl = "body" PROVE BodySettled(d, cs, r, i)
    BY <1>2 DEF BodySettled
  <2>2. b \in DOMAIN m
    BY <1>7, <2>1
  <2>3. c[i].to = m[b]["body"] /\ \A k \in DOMAIN bs : bs[k].id = b => bs[k].phase = "done"
    BY <2>1 DEF Settled, BodySettled
  <2>4. r[b]["body"] = m[b]["body"]
    BY <2>2, <2>3
  <2>5. ASSUME NEW k \in DOMAIN cs, cs[k].id = b PROVE cs[k].phase = "done"
    <3>1. k \in DOMAIN bs
      BY <2>5, <2>2, <1>4, <1>9
    <3> QED
      BY <3>1, <2>5, <1>3, <2>3
  <2> QED
    BY <2>3, <2>4, <2>5, <1>2 DEF BodySettled
<1> QED
  BY <1>10, <1>11, <1>12, <1>13 DEF Settled

LEMMA CondStays ==
  ASSUME NEW c \in Seq(OpRecords), NEW d \in Seq(OpRecords), Extends(c, d), NEW i \in DOMAIN c,
         NEW bs \in Seq(BlockRecords), NEW cs \in Seq(BlockRecords),
         NEW p, NEW q, NEW m \in Seq([Places -> Nat]), NEW r \in Seq([Places -> Nat]),
         d[i].to = c[i].to,
         GoesOn(bs, cs, p, q, m, r), Entries(p["first"]) \subseteq Entries(q["first"]),
         \A b \in DOMAIN m : r[b]["cond"] = m[b]["cond"],
         \A k \in DOMAIN bs :
           /\ bs[k].phase \notin {"init", "incr"} => cs[k].phase \notin {"init", "incr"}
           /\ bs[k].phase = "incr" => cs[k].phase = "incr",
         Settled(c, bs, p, m, i)
  PROVE  CondSettled(d, cs, q, r, i)
<1> USE DEF GoesOn
<1> DEFINE b == c[i].want[1]
           pl == c[i].want[2]
<1>1. /\ Len(bs) \in Nat /\ DOMAIN bs = 1 .. Len(bs) /\ DOMAIN cs = 1 .. Len(cs) /\ Len(cs) \in Nat
      /\ Len(m) \in Nat /\ Len(r) \in Nat /\ DOMAIN m = 1 .. Len(m) /\ DOMAIN r = 1 .. Len(r)
  OBVIOUS
<1>2. i \in DOMAIN d /\ d[i].want = c[i].want /\ d[i].op = c[i].op
  BY ExtendsDomain DEF Extends
<1>3. \A k \in DOMAIN bs : k \in DOMAIN cs /\ cs[k].id = bs[k].id /\ cs[k].kind = bs[k].kind
  BY <1>1 DEF SameBlocks
<1>4. \A k \in DOMAIN cs : k \in DOMAIN bs \/ k > Len(bs)
  BY <1>1
<1>9. \A k \in DOMAIN cs : k > Len(bs) => cs[k].id \notin DOMAIN m
  BY <1>1
<1>7. b \notin DOMAIN m => ElseNext(bs) /\ c[i].want = <<Len(m) + 1, "end">> /\ i \in Entries(p["end"])
  BY DEF Settled, Aims
<1>12. CondSettled(d, cs, q, r, i)
  <2>1. SUFFICES ASSUME pl = "cond" PROVE CondSettled(d, cs, q, r, i)
    BY <1>2 DEF CondSettled
  <2>2. b \in DOMAIN m
    BY <1>7, <2>1
  <2>3. CASE c[i].to = m[b]["cond"] /\ \A k \in DOMAIN bs : bs[k].id = b => bs[k].phase \notin {"init", "incr"}
    <3>1. d[i].to = r[b]["cond"]
      BY <2>2, <2>3
    <3>2. ASSUME NEW k \in DOMAIN cs, cs[k].id = b PROVE cs[k].phase \notin {"init", "incr"}
      <4>1. k \in DOMAIN bs
        BY <3>2, <2>2, <1>4, <1>9
      <4> QED
        BY <4>1, <3>2, <1>3, <2>3
    <3> QED
      BY <3>1, <3>2, <1>2 DEF CondSettled
  <2>4. CASE i \in Entries(p["first"]) /\ \E k \in DOMAIN bs : bs[k].id = b /\ bs[k].phase = "incr"
    <3>1. i \in Entries(q["first"])
      BY <2>4 
    <3>2. \E k \in DOMAIN cs : cs[k].id = b /\ cs[k].phase = "incr"
      BY <2>4, <1>3
    <3> QED
      BY <3>1, <3>2, <1>2 DEF CondSettled
  <2> QED
    BY <2>1, <2>3, <2>4 DEF Settled, CondSettled
<1> QED
  BY <1>12

(* When a block is closed, everything that waits for it jumps to e.        *)
(* The end e of the innermost block is reached.                           *)
EndReached(c, bs, cs, p, q, m, r, top, e) ==
  /\ top = bs[Len(bs)]
  /\ bs \in Seq(BlockRecords) /\ cs \in Seq(BlockRecords)
  /\ Nested(bs, Len(m)) /\ ~ ElseNext(bs)
  /\ Len(bs) > 0 /\ Len(cs) = Len(bs) - 1
  /\ SameBlocks(bs, cs, Len(cs)) /\ SamePhases(bs, cs, Len(cs))
  /\ top.phase # "incr"
  /\ Len(m) = Len(r) /\ r[top.id]["end"] = e
  /\ \A b \in DOMAIN m :
       /\ b # top.id => r[b]["end"] = m[b]["end"]
       /\ r[b]["cond"] = m[b]["cond"] /\ r[b]["body"] = m[b]["body"]
  /\ \A s \in JumpStacks : \A x \in Entries(p[s]) :
       (x \in DOMAIN c /\ c[x].want = <<top.id, "end">>) \/ x \in Entries(q[s])

LEMMA SettledAtClose ==
  ASSUME NEW c \in Seq(OpRecords), NEW d \in Seq(OpRecords), Extends(c, d), NEW i \in DOMAIN c,
         NEW bs, NEW cs, NEW top,
         NEW p, NEW q, NEW m \in Seq([Places -> Nat]), NEW r \in Seq([Places -> Nat]), NEW e,
         EndReached(c, bs, cs, p, q, m, r, top, e),
         c[i].want = <<top.id, "end">> /\ c[i].op # "SWITCH" => d[i].to = e,
         ~ (c[i].want = <<top.id, "end">> /\ c[i].op # "SWITCH") => d[i].to = c[i].to,
         Settled(c, bs, p, m, i)
  PROVE  Settled(d, cs, q, r, i)
<1> USE DEF EndReached
<1> DEFINE b == c[i].want[1]
           pl == c[i].want[2]
<1>0. \A k \in 1 .. Len(cs) : cs[k].phase = bs[k].phase
  BY DEF SamePhases
<1>1. /\ Len(bs) \in Nat /\ DOMAIN bs = 1 .. Len(bs) /\ DOMAIN cs = 1 .. Len(cs) /\ Len(cs) \in Nat
      /\ DOMAIN m = DOMAIN r /\ Len(bs) \in DOMAIN bs /\ Len(m) \in Nat
  OBVIOUS
<1>2. i \in DOMAIN d /\ d[i].want = c[i].want /\ d[i].op = c[i].op
  BY ExtendsDomain DEF Extends
<1>3. c[i] \in OpRecords /\ c[i].want \in Nat \X Places /\ c[i].want = <<b, pl>>
  <2>1. c[i] \in OpRecords
    OBVIOUS
  <2>2. c[i].want \in Nat \X Places
    BY <2>1 DEF OpRecords
  <2>3. \A w \in Nat \X Places : w = <<w[1], w[2]>>
    OBVIOUS
  <2> QED
    BY <2>1, <2>2, <2>3
<1>4. \A k \in DOMAIN cs : k \in DOMAIN bs /\ k # Len(bs) /\ k \in 1 .. Len(cs)
  BY <1>1
<1>5. \A k \in DOMAIN cs : /\ k \in DOMAIN bs /\ k # Len(bs) /\ cs[k].id = bs[k].id
                           /\ cs[k].kind = bs[k].kind /\ cs[k].phase = bs[k].phase
  BY <1>4, <1>0 DEF SameBlocks
<1>6. \A k \in DOMAIN bs : k \in DOMAIN cs \/ k = Len(bs)
  BY <1>1
<1>7. b \in DOMAIN m
  BY DEF Settled, Aims
<1>8. \A k, l \in DOMAIN bs : bs[k].id = bs[l].id => k = l
  BY <1>1, IdsAreOpen
<1>9. Aims(d, cs, q, r, i)
  BY <1>1, <1>2, <1>7 DEF Aims
<1>10. EndSettled(d, cs, q, r, i)
  <2>1. SUFFICES ASSUME pl = "end"
        PROVE  /\ b \notin Open(cs) /\ b \in DOMAIN r /\ c[i].op # "SWITCH" => d[i].to = r[b]["end"]
               /\ \A k \in DOMAIN cs : cs[k].id = b => \E s \in StacksOf[cs[k].kind] : i \in Entries(q[s])
    BY <1>2 DEF EndSettled
  <2>2. ASSUME b \notin Open(cs), c[i].op # "SWITCH" PROVE d[i].to = r[b]["end"]
    <3>1. CASE b = top.id
      BY <3>1, <2>1, <2>2, <1>3
    <3>2. CASE b # top.id
      <4>1. ASSUME b \in Open(bs) PROVE FALSE
        <5>1. PICK k \in DOMAIN bs : b = bs[k].id
          BY <4>1 DEF Open
        <5>2. k # Len(bs)
          BY <5>1, <3>2
        <5>3. k \in DOMAIN cs /\ cs[k].id = b
          BY <5>1, <5>2, <1>5, <1>6
        <5> QED
          BY <5>3, <2>2 DEF Open
      <4>2. c[i].to = m[b]["end"]
        BY <4>1, <1>7, <2>1, <2>2 DEF Settled, EndSettled
      <4>3. c[i].want # <<top.id, "end">>
        BY <3>2
      <4> QED
        BY <4>2, <4>3, <3>2, <1>7
    <3> QED
      BY <3>1, <3>2
  <2>3. ASSUME NEW k \in DOMAIN cs, cs[k].id = b PROVE \E s \in StacksOf[cs[k].kind] : i \in Entries(q[s])
    <3>0. \A kind \in BlockKinds : StacksOf[kind] \subseteq JumpStacks
      BY DEF StacksOf, JumpStacks, BlockKinds
    <3>1. k \in DOMAIN bs /\ bs[k].id = b /\ bs[k].kind = cs[k].kind /\ k # Len(bs)
      BY <2>3, <1>5
    <3>2. PICK s \in StacksOf[bs[k].kind] : i \in Entries(p[s])
      BY <3>1, <2>1 DEF Settled, EndSettled
    <3>3. bs[k].kind \in BlockKinds
      BY <3>1, BaseTyped
    <3>4. s \in JumpStacks
      BY <3>2, <3>3, <3>0
    <3>5. b # top.id
      BY <3>1, <1>1, <1>8
    <3>6. i \in Entries(q[s])
      BY <3>2, <3>4, <3>5, <1>3
    <3> QED
      BY <3>1, <3>2, <3>6
  <2> QED
    BY <2>2, <2>3
<1>11. CondSettled(d, cs, q, r, i)
  <2>1. SUFFICES ASSUME pl = "cond" PROVE CondSettled(d, cs, q, r, i)
    BY <1>2 DEF CondSettled
  <2>2. d[i].to = c[i].to /\ c[i].want # <<top.id, "end">>
    BY <2>1, <1>3
  <2>3. CASE c[i].to = m[b]["cond"] /\ \A k \in DOMAIN bs : bs[k].id = b => bs[k].phase \notin {"init", "incr"}
    <3>1. d[i].to = r[b]["cond"]
      BY <2>2, <2>3, <1>7
    <3>2. \A k \in DOMAIN cs : cs[k].id = b => cs[k].phase \notin {"init", "incr"}
      BY <2>3, <1>5
    <3> QED
      BY <3>1, <3>2, <1>2 DEF CondSettled
  <2>4. CASE i \in Entries(p["first"]) /\ \E k \in DOMAIN bs : bs[k].id = b /\ bs[k].phase = "incr"
    <3>1. i \in Entries(q["first"])
      BY <2>4, <2>2 DEF JumpStacks
    <3>2. \E k \in DOMAIN cs : cs[k].id = b /\ cs[k].phase = "incr"
      BY <2>4, <1>5, <1>6
    <3> QED
      BY <3>1, <3>2, <1>2 DEF CondSettled
  <2> QED
    BY <2>1, <2>3, <2>4 DEF Settled, CondSettled
<1>12. BodySettled(d, cs, r, i)
  <2>1. SUFFICES ASSUME pl = "body" PROVE BodySettled(d, cs, r, i)
    BY <1>2 DEF BodySettled
  <2>2. c[i].to = m[b]["body"] /\ \A k \in DOMAIN bs : bs[k].id = b => bs[k].phase = "done"
    BY <2>1 DEF Settled, BodySettled
  <2>3. d[i].to = c[i].to
    BY <2>1, <1>3
  <2>4. r[b]["body"] = m[b]["body"]
    BY <1>7
  <2>5. \A k \in DOMAIN cs : cs[k].id = b => cs[k].phase = "done"
    BY <2>2, <1>5
  <2> QED
    BY <2>2, <2>3, <2>4, <2>5, <1>2 DEF BodySettled
<1> QED
  BY <1>9, <1>10, <1>11, <1>12 DEF Settled

-----------------------------------------------------------------------------
(* The targets of a switch.                                                *)

LEMMA OpTyped ==
  ASSUME NEW c \in Seq(OpRecords), NEW i \in DOMAIN c
  PROVE  /\ c[i].op \in OpNames /\ c[i].var \in Nat /\ c[i].to \in Nat /\ c[i].cases \subseteq Nat
         /\ c[i].want \in Nat \X Places /\ c[i].want[1] \in Nat /\ c[i].want[2] \in Places
         /\ c[i].want = <<c[i].want[1], c[i].want[2]>>
         /\ c[i].scope \subseteq Nat /\ Targets(c[i]) \subseteq Nat
<1>1. c[i] \in OpRecords
  OBVIOUS
<1>2. /\ c[i].op \in OpNames /\ c[i].var \in Nat /\ c[i].to \in Nat /\ c[i].cases \subseteq Nat
      /\ c[i].want \in Nat \X Places /\ c[i].scope \subseteq Nat
  BY <1>1 DEF OpRecords
<1>3. \A w \in Nat \X Places : w = <<w[1], w[2]>> /\ w[1] \in Nat /\ w[2] \in Places
  OBVIOUS
<1> QED
  BY <1>2, <1>3 DEF Targets

(* No block is closed, and what is emitted belongs to the open ones.       *)
Widened(c, d, bs, cs, m, r) ==
  /\ Len(m) <= Len(r) /\ \A b \in DOMAIN m : r[b]["end"] = m[b]["end"]
  /\ \A b \in DOMAIN m : b \in Open(cs) <=> b \in Open(bs)
  /\ \A n \in DOMAIN d : n > Len(c) => Open(bs) \subseteq d[n].scope

LEMMA RangedStays ==
  ASSUME NEW c \in Seq(OpRecords), NEW d \in Seq(OpRecords), Extends(c, d),
         NEW i \in DOMAIN c, d[i].to = c[i].to, d[i].cases = c[i].cases,
         NEW bs, NEW cs, NEW m \in Seq([Places -> Nat]), NEW r \in Seq([Places -> Nat]),
         Widened(c, d, bs, cs, m, r),
         Ranged(c, bs, m, i)
  PROVE  Ranged(d, cs, r, i)
<1> USE DEF Widened
<1> DEFINE b == c[i].want[1]
<1>1. Len(c) \in Nat /\ Len(d) \in Nat /\ DOMAIN c = 1 .. Len(c) /\ DOMAIN d = 1 .. Len(d)
      /\ Len(m) \in Nat /\ Len(r) \in Nat /\ DOMAIN m = 1 .. Len(m) /\ DOMAIN r = 1 .. Len(r)
      /\ Len(c) <= Len(d)
  BY DEF Extends
<1>2. i \in DOMAIN d /\ d[i].want = c[i].want /\ d[i].op = c[i].op
  BY ExtendsDomain DEF Extends
<1>3. Targets(d[i]) = Targets(c[i])
  BY DEF Targets
<1>4. SUFFICES ASSUME c[i].op = "SWITCH" PROVE Ranged(d, cs, r, i)
  BY <1>2 DEF Ranged
<1>5. c[i].want[2] = "end" /\ b \in DOMAIN m /\ (b \in Open(bs) \/ c[i].to # 0)
  BY <1>4 DEF Ranged
<1>6. b \in DOMAIN r /\ (b \in Open(cs) <=> b \in Open(bs))
  BY <1>1, <1>5
<1>7. ASSUME NEW t \in Targets(c[i])
      PROVE  /\ t <= Limit(d, cs, r, b)
             /\ t < Limit(d, cs, r, b) => t \in DOMAIN d /\ b \in d[t].scope
  <2>1. t \in Nat
    BY OpTyped
  <2>2. t <= Limit(c, bs, m, b) /\ (t < Limit(c, bs, m, b) => t \in DOMAIN c /\ b \in c[t].scope)
    BY <1>4 DEF Ranged
  <2>3. \A n \in DOMAIN c : n \in DOMAIN d /\ d[n].scope = c[n].scope
    BY ExtendsDomain DEF Extends
  <2>4. CASE b \notin Open(bs)
    <3>1. Limit(d, cs, r, b) = Limit(c, bs, m, b)
      BY <2>4, <1>5, <1>6 DEF Limit
    <3> QED
      BY <3>1, <2>2, <2>3
  <2>5. CASE b \in Open(bs)
    <3>1. Limit(c, bs, m, b) = Len(c) + 1 /\ Limit(d, cs, r, b) = Len(d) + 1
      BY <2>5, <1>6 DEF Limit
    <3>2. t <= Len(d) + 1
      BY <3>1, <2>1, <2>2, <1>1
    <3>3. ASSUME t < Len(d) + 1 PROVE t \in DOMAIN d /\ b \in d[t].scope
      <4>1. CASE t < Len(c) + 1
        BY <4>1, <3>1, <2>2, <2>3
      <4>2. CASE t = Len(c) + 1
        <5>1. t \in DOMAIN d /\ t > Len(c)
          BY <4>2, <3>3, <1>1, <2>1
        <5> QED
          BY <5>1, <2>5
      <4> QED
        BY <4>1, <4>2, <3>1, <2>1, <2>2, <1>1
    <3> QED
      BY <3>1, <3>2, <3>3
  <2> QED
    BY <2>4, <2>5
<1> QED
  BY <1>2, <1>3, <1>5, <1>6, <1>7 DEF Ranged

(* Closing block x: its end is at e, and its variables are out of scope    *)
(* behind that.                                                            *)
EndMarked(c, d, bs, cs, m, r, x, e) ==
  /\ x \in Open(bs) /\ Open(cs) = Open(bs) \ {x}
  /\ Len(m) = Len(r) /\ r[x]["end"] = e
  /\ \A b \in DOMAIN m : b # x => r[b]["end"] = m[b]["end"]
  /\ Len(c) + 1 <= e /\ e <= Len(d) + 1
  /\ \A n \in DOMAIN d : n > Len(c) =>
       /\ Open(bs) \ {x} \subseteq d[n].scope
       /\ n < e => x \in d[n].scope

LEMMA RangedAtClose ==
  ASSUME NEW c \in Seq(OpRecords), NEW d \in Seq(OpRecords), Extends(c, d), NEW i \in DOMAIN c,
         d[i].cases = c[i].cases, c[i].op = "SWITCH" => d[i].to = c[i].to,
         NEW bs, NEW cs, NEW m \in Seq([Places -> Nat]), NEW r \in Seq([Places -> Nat]),
         NEW x, NEW e \in Nat, EndMarked(c, d, bs, cs, m, r, x, e),
         c[i].op = "SWITCH" /\ c[i].want[1] = x => c[i].to # 0,
         Ranged(c, bs, m, i)
  PROVE  Ranged(d, cs, r, i)
<1>0. /\ x \in Open(bs) /\ Open(cs) = Open(bs) \ {x}
      /\ Len(m) = Len(r) /\ r[x]["end"] = e
      /\ \A b \in DOMAIN m : b # x => r[b]["end"] = m[b]["end"]
      /\ Len(c) + 1 <= e /\ e <= Len(d) + 1
  BY DEF EndMarked
<1> DEFINE b == c[i].want[1]
<1>1. Len(c) \in Nat /\ Len(d) \in Nat /\ DOMAIN c = 1 .. Len(c) /\ DOMAIN d = 1 .. Len(d)
      /\ DOMAIN m = DOMAIN r /\ Len(c) <= Len(d)
  BY <1>0 DEF Extends
<1>2. i \in DOMAIN d /\ d[i].want = c[i].want /\ d[i].op = c[i].op
  BY ExtendsDomain DEF Extends
<1>8. \A n \in DOMAIN d : n > Len(c) =>
        /\ \A y \in Open(bs) : y # x => y \in d[n].scope
        /\ n < e => x \in d[n].scope
  <2>1. \A n \in DOMAIN d : n > Len(c) =>
          /\ Open(bs) \ {x} \subseteq d[n].scope
          /\ n < e => x \in d[n].scope
    BY DEF EndMarked
  <2> QED
    BY <2>1
<1>4. SUFFICES ASSUME c[i].op = "SWITCH" PROVE Ranged(d, cs, r, i)
  BY <1>2 DEF Ranged
<1>3. Targets(d[i]) = Targets(c[i]) /\ d[i].to = c[i].to
  BY <1>4 DEF Targets
<1>5. c[i].want[2] = "end" /\ b \in DOMAIN m /\ (b \in Open(bs) \/ c[i].to # 0)
  BY <1>4 DEF Ranged
<1>6. b \in DOMAIN r /\ (b \in Open(cs) \/ d[i].to # 0)
  BY <1>0, <1>1, <1>3, <1>4, <1>5
<1>7. ASSUME NEW t \in Targets(c[i])
      PROVE  /\ t <= Limit(d, cs, r, b)
             /\ t < Limit(d, cs, r, b) => t \in DOMAIN d /\ b \in d[t].scope
  <2>1. t \in Nat
    BY OpTyped
  <2>2. t <= Limit(c, bs, m, b) /\ (t < Limit(c, bs, m, b) => t \in DOMAIN c /\ b \in c[t].scope)
    BY <1>4 DEF Ranged
  <2>3. \A n \in DOMAIN c : n \in DOMAIN d /\ d[n].scope = c[n].scope
    BY ExtendsDomain DEF Extends
  <2>4. CASE b \notin Open(bs)
    <3>1. Limit(d, cs, r, b) = Limit(c, bs, m, b)
      BY <2>4, <1>0, <1>5, <1>6 DEF Limit
    <3> QED
      BY <3>1, <2>2, <2>3
  <2>5. CASE b \in Open(bs) /\ b # x
    <3>1. Limit(c, bs, m, b) = Len(c) + 1 /\ Limit(d, cs, r, b) = Len(d) + 1
      BY <2>5, <1>0, <1>6 DEF Limit
    <3>2. t <= Len(d) + 1
      BY <3>1, <2>1, <2>2, <1>0, <1>1
    <3>3. ASSUME t < Len(d) + 1 PROVE t \in DOMAIN d /\ b \in d[t].scope
      <4>1. CASE t < Len(c) + 1
        BY <4>1, <3>1, <2>2, <2>3
      <4>2. CASE t = Len(c) + 1
        <5>1. t \in DOMAIN d /\ t > Len(c)
          BY <4>2, <3>3, <1>0, <1>1, <2>1
        <5>2. b \in d[t].scope
          <6> HIDE DEF b
          <6> QED
            BY <5>1, <2>5, <1>8
        <5> QED
          BY <5>1, <5>2
      <4> QED
        BY <4>1, <4>2, <3>1, <2>1, <2>2, <1>1
    <3> QED
      BY <3>1, <3>2, <3>3
  <2>6. CASE b = x
    <3>1. Limit(c, bs, m, b) = Len(c) + 1 /\ Limit(d, cs, r, b) = e
      BY <2>6, <1>0 DEF Limit
    <3>2. t <= e
      BY <3>1, <2>1, <2>2, <1>0, <1>1
    <3>3. ASSUME t < e PROVE t \in DOMAIN d /\ b \in d[t].scope
      <4>1. CASE t < Len(c) + 1
        BY <4>1, <3>1, <2>2, <2>3
      <4>2. CASE t = Len(c) + 1
        <5>1. t \in DOMAIN d /\ t > Len(c)
          BY <4>2, <3>3, <1>0, <1>1, <2>1
        <5>2. b \in d[t].scope
          <6> HIDE DEF b
          <6> QED
            BY <5>1, <2>6, <3>3, <1>8
        <5> QED
          BY <5>1, <5>2
      <4> QED
        BY <4>1, <4>2, <3>1, <2>1, <2>2, <1>1
    <3> QED
      BY <3>1, <3>2, <3>3
  <2> QED
    BY <2>4, <2>5, <2>6
<1> QED
  BY <1>2, <1>3, <1>5, <1>6, <1>7 DEF Ranged

LEMMA BodiesStay ==
  ASSUME NEW c \in Seq(OpRecords), NEW d \in Seq(OpRecords), Extends(c, d),
         NEW bs, NEW cs, NEW s, NEW t, NEW m, NEW r,
         \A j \in DOMAIN s : s[j] \in DOMAIN c,
         \A j \in DOMAIN t : j \in DOMAIN s /\ t[j] = s[j],
         \A k \in DOMAIN cs : Entered(cs[k]) =>
           k \in DOMAIN bs /\ Entered(bs[k]) /\ cs[k].id = bs[k].id
           /\ r[bs[k].id]["body"] = m[bs[k].id]["body"],
         BodiesMarked(c, bs, s, m)
  PROVE  BodiesMarked(d, cs, t, r)
<1>1. SUFFICES ASSUME NEW k \in DOMAIN cs, Entered(cs[k]),
                      NEW j \in DOMAIN t, d[t[j]].want[1] = cs[k].id
               PROVE  r[cs[k].id]["body"] = t[j] + 1
  BY DEF BodiesMarked
<1>2. k \in DOMAIN bs /\ Entered(bs[k]) /\ cs[k].id = bs[k].id /\ r[bs[k].id]["body"] = m[bs[k].id]["body"]
  BY <1>1
<1>3. j \in DOMAIN s /\ t[j] = s[j] /\ s[j] \in DOMAIN c
  OBVIOUS
<1>4. c[s[j]].want[1] = bs[k].id
  BY <1>1, <1>2, <1>3 DEF Extends
<1>5. m[bs[k].id]["body"] = s[j] + 1
  BY <1>2, <1>3, <1>4 DEF BodiesMarked
<1> QED
  BY <1>2, <1>3, <1>5

-----------------------------------------------------------------------------
(* Patching, and the entries of stacks.                                    *)

LEMMA PatchIs ==
  ASSUME NEW c \in Seq(OpRecords), NEW S, NEW t \in Nat
  PROVE  /\ Patch(c, S, t) \in Seq(OpRecords) /\ Len(Patch(c, S, t)) = Len(c)
         /\ DOMAIN Patch(c, S, t) = DOMAIN c
         /\ Extends(c, Patch(c, S, t))
         /\ \A i \in DOMAIN c : /\ i \in S => Patch(c, S, t)[i].to = t
                                /\ i \notin S => Patch(c, S, t)[i].to = c[i].to
                                /\ Patch(c, S, t)[i].cases = c[i].cases
                                /\ Patch(c, S, t)[i].var = c[i].var
<1> DEFINE d == Patch(c, S, t)
<1>1. DOMAIN c = 1 .. Len(c) /\ Len(c) \in Nat /\ \A i \in DOMAIN c : c[i] \in OpRecords
  OBVIOUS
<1>2. \A i \in DOMAIN c : /\ [c[i] EXCEPT !.to = t] \in OpRecords
                          /\ [c[i] EXCEPT !.to = t].to = t
                          /\ [c[i] EXCEPT !.to = t].op = c[i].op
                          /\ [c[i] EXCEPT !.to = t].var = c[i].var
                          /\ [c[i] EXCEPT !.to = t].want = c[i].want
                          /\ [c[i] EXCEPT !.to = t].scope = c[i].scope
                          /\ [c[i] EXCEPT !.to = t].cases = c[i].cases
  BY <1>1 DEF OpRecords
<1>3. d = [i \in 1 .. Len(c) |-> IF i \in S THEN [c[i] EXCEPT !.to = t] ELSE c[i]]
  BY <1>1 DEF Patch
<1>4. d \in Seq(OpRecords) /\ Len(d) = Len(c) /\ DOMAIN d = DOMAIN c
  BY <1>1, <1>2, <1>3
<1>5. \A i \in DOMAIN c : d[i] = IF i \in S THEN [c[i] EXCEPT !.to = t] ELSE c[i]
  BY <1>1, <1>3
<1> HIDE DEF d
<1>6. Extends(c, d)
  <2>1. ASSUME NEW i \in DOMAIN c
        PROVE  d[i].op = c[i].op /\ d[i].want = c[i].want /\ d[i].scope = c[i].scope
    BY <1>2, <1>5
  <2>2. Len(c) <= Len(d)
    BY <1>1, <1>4
  <2> QED
    BY <2>1, <2>2 DEF Extends
<1>7. \A i \in DOMAIN c : /\ i \in S => d[i].to = t
                          /\ i \notin S => d[i].to = c[i].to
                          /\ d[i].cases = c[i].cases /\ d[i].var = c[i].var
  BY <1>2, <1>5
<1> QED
  BY <1>4, <1>6, <1>7 DEF d

LEMMA EntriesPushed ==
  ASSUME NEW s \in Seq(Nat), NEW n \in Nat
  PROVE  Entries(Append(s, n)) = Entries(s) \cup {n}
<1> DEFINE t == Append(s, n)
<1>1. /\ \A j \in DOMAIN s : j \in DOMAIN t /\ t[j] = s[j]
      /\ \A j \in DOMAIN t : j \in DOMAIN s \/ j = Len(s) + 1
      /\ Len(s) + 1 \in DOMAIN t /\ t[Len(s) + 1] = n
  OBVIOUS
<1> HIDE DEF t
<1>2. Entries(t) = Entries(s) \cup {n}
  BY <1>1 DEF Entries
<1> QED
  BY <1>2 DEF t

LEMMA EntriesPopped ==
  ASSUME NEW s \in Seq(Nat), s # <<>>
  PROVE  /\ Last(s) \in Entries(s)
         /\ \A x \in Entries(s) : x = Last(s) \/ x \in Entries(Front(s))
         /\ Entries(Front(s)) \subseteq Entries(s)
         /\ \A j \in DOMAIN Front(s) : j \in DOMAIN s /\ Front(s)[j] = s[j]
<1> DEFINE t == Front(s)
<1>1. Len(s) \in Nat /\ Len(s) > 0 /\ DOMAIN s = 1 .. Len(s)
  OBVIOUS
<1>2. t = SubSeq(s, 1, Len(s) - 1)
  BY DEF Front
<1>3. Len(t) = Len(s) - 1 /\ \A j \in 1 .. Len(s) - 1 : t[j] = s[j]
  BY <1>1, <1>2
<1>4. DOMAIN t = 1 .. Len(s) - 1
  BY <1>1, <1>2
<1> HIDE DEF t
<1>5. \A j \in DOMAIN t : j \in DOMAIN s /\ t[j] = s[j]
  BY <1>1, <1>3, <1>4
<1>6. \A j \in DOMAIN s : j = Len(s) \/ j \in DOMAIN t
  BY <1>1, <1>4
<1>7. Last(s) = s[Len(s)] /\ Len(s) \in DOMAIN s
  BY <1>1 DEF Last
<1>8. Last(s) \in Entries(s)
  BY <1>7 DEF Entries
<1>9. \A x \in Entries(s) : x = Last(s) \/ x \in Entries(t)
  BY <1>5, <1>6, <1>7 DEF Entries
<1>10. Entries(t) \subseteq Entries(s)
  BY <1>5 DEF Entries
<1> QED
  BY <1>5, <1>8, <1>9, <1>10 DEF t

(* What is above a base, and what is left below it.                        *)
LEMMA EntriesCut ==
  ASSUME NEW s \in Seq(Nat), NEW base \in Nat, base <= Len(s)
  PROVE  /\ SubSeq(s, 1, base) \in Seq(Nat)
         /\ \A j \in DOMAIN s : s[j] \in EntriesFrom(s, base) \/ s[j] \in Entries(SubSeq(s, 1, base))
         /\ EntriesFrom(s, base) = {s[j] : j \in {l \in DOMAIN s : l > base}}
<1> DEFINE t == SubSeq(s, 1, base)
<1>1. Len(s) \in Nat /\ DOMAIN s = 1 .. Len(s) /\ base + 1 \in Nat
  OBVIOUS
<1>2. t \in Seq(Nat) /\ Len(t) = base /\ (\A j \in 1 .. base : t[j] = s[j])
  OBVIOUS
<1>3. DOMAIN t = 1 .. base
  BY <1>2
<1> HIDE DEF t
<1>4. EntriesFrom(s, base) = {s[j] : j \in {l \in DOMAIN s : l > base}}
  <2>1. base + 1 .. Len(s) = {l \in DOMAIN s : l > base}
    BY <1>1
  <2> QED
    BY <2>1 DEF EntriesFrom
<1>5. ASSUME NEW j \in DOMAIN s PROVE s[j] \in EntriesFrom(s, base) \/ s[j] \in Entries(t)
  <2>1. CASE j > base
    BY <2>1, <1>4
  <2>2. CASE j <= base
    <3>1. j \in DOMAIN t /\ t[j] = s[j]
      BY <2>2, <1>1, <1>2, <1>3
    <3> QED
      BY <3>1 DEF Entries
  <2> QED
    BY <2>1, <2>2, <1>1
<1> QED
  BY <1>2, <1>4, <1>5 DEF t

-----------------------------------------------------------------------------
(* The innermost block of one of the kinds.                                *)

LEMMA Greatest ==
  ASSUME NEW n \in Nat, NEW S, S \subseteq 1 .. n, S # {}
  PROVE  \E k \in S : \A j \in S : j <= k
<1> DEFINE R == {p \in Nat \X Nat : p[1] < p[2]}
           T == {n - k : k \in S}
<1>1. R = OpToRel(<, Nat)
  BY DEF OpToRel
<1>2. IsWellFoundedOn(R, Nat)
  BY <1>1, NatLessThanWellFounded
<1>3. T \subseteq Nat /\ T # {}
  <2>1. \A k \in S : k \in 1 .. n
    OBVIOUS
  <2>2. \A k \in S : n - k \in Nat
    BY <2>1
  <2>3. PICK k \in S : TRUE
    OBVIOUS
  <2> QED
    BY <2>2, <2>3
<1>4. PICK t \in T : \A u \in T : <<u, t>> \notin R
  <2> HIDE DEF R, T
  <2> QED
    BY <1>2, <1>3, WFMin
<1>5. PICK k \in S : t = n - k
  BY <1>4
<1>6. ASSUME NEW j \in S PROVE j <= k
  <2>1. n - j \in T /\ n - j \in Nat /\ t \in Nat
    BY <1>3
  <2>2. ~ (n - j < t)
    BY <2>1, <1>4
  <2>3. j \in 1 .. n /\ k \in 1 .. n
    OBVIOUS
  <2> QED
    BY <2>2, <2>3, <1>5
<1> QED
  BY <1>5, <1>6

LEMMA InnermostIs ==
  ASSUME NEW kinds, blocks \in Seq(BlockRecords), \E k \in DOMAIN blocks : blocks[k].kind \in kinds
  PROVE  \E k \in DOMAIN blocks : /\ blocks[k].kind \in kinds
                                  /\ \A l \in DOMAIN blocks : blocks[l].kind \in kinds => l <= k
                                  /\ Innermost(kinds) = blocks[k].id
<1> DEFINE S == {i \in DOMAIN blocks : blocks[i].kind \in kinds}
           k == CHOOSE i \in S : \A j \in S : j <= i
<1>1. Len(blocks) \in Nat /\ S \subseteq 1 .. Len(blocks) /\ S # {}
  OBVIOUS
<1>2. \E i \in S : \A j \in S : j <= i
  <2> HIDE DEF S
  <2> QED
    BY <1>1, Greatest
<1>3. k \in S /\ \A j \in S : j <= k
  <2> HIDE DEF S
  <2> QED
    BY <1>2
<1>4. Innermost(kinds) = blocks[k].id
  BY <1>1 DEF Innermost
<1> HIDE DEF k
<1> QED
  BY <1>3, <1>4

LEMMA InnermostNone ==
  ASSUME NEW kinds, \A k \in DOMAIN blocks : blocks[k].kind \notin kinds
  PROVE  Innermost(kinds) = 0
<1>1. {i \in DOMAIN blocks : blocks[i].kind \in kinds} = {}
  OBVIOUS
<1> QED
  BY <1>1 DEF Innermost

-----------------------------------------------------------------------------
(* What is patched when a block is closed is what waits for it.            *)

Closing(bs) ==
  /\ bs # <<>> /\ ~ ElseNext(bs) /\ bs[Len(bs)].phase # "incr" /\ ~ Entered(bs[Len(bs)])

Patched(bs, p) ==
  LET top == bs[Len(bs)] IN
  CASE top.kind = "if"     -> {Last(p["if"])}
    [] top.kind = "else"   -> {Last(p["end"])}
    [] top.kind = "loop"   -> EntriesFrom(p["next"], top.base)
    [] top.kind = "init"   -> EntriesFrom(p["last"], top.base)
    [] top.kind = "switch" -> EntriesFrom(p["last"], top.base)
    [] top.kind = "eval"   -> EntriesFrom(p["catch"], 0)
    [] top.kind = "sub"    -> EntriesFrom(p["return"], 0) \cup EntriesFrom(p["uncaught"], 0)
    [] top.kind = "plain"  -> {}

WaitsFor(c, b, i) == c[i].want = <<b, "end">> /\ c[i].op # "SWITCH"

LEMMA EntriesFromAll ==
  ASSUME NEW s \in Seq(Nat)
  PROVE  EntriesFrom(s, 0) = Entries(s)
BY DEF EntriesFrom, Entries

LEMMA PendTyped ==
  ASSUME NEW p \in [Stacks -> Seq(Nat)]
  PROVE  /\ p["if"] \in Seq(Nat) /\ p["end"] \in Seq(Nat) /\ p["first"] \in Seq(Nat)
         /\ p["last"] \in Seq(Nat) /\ p["next"] \in Seq(Nat) /\ p["eval"] \in Seq(Nat)
         /\ p["catch"] \in Seq(Nat) /\ p["uncaught"] \in Seq(Nat) /\ p["return"] \in Seq(Nat)
         /\ p["switch"] \in Seq(Nat)
BY DEF Stacks

(* The jumps of a stack that are meant for the innermost block.            *)
LEMMA MatchedWaits ==
  ASSUME NEW c \in Seq(OpRecords), NEW s \in Seq(Nat), NEW op, op # "SWITCH",
         NEW ids \in SUBSET Nat, Matched(c, s, op, "end", ids),
         NEW b \in ids, \A x \in ids : x <= b,
         \A i \in DOMAIN c : c[i].want = <<b, "end">> => i \in Entries(s)
  PROVE  \A i \in DOMAIN c : i \in {Last(s)} <=> WaitsFor(c, b, i)
<1>1. /\ s # <<>> /\ Len(s) \in DOMAIN s /\ Last(s) = s[Len(s)]
      /\ Last(s) \in DOMAIN c /\ c[Last(s)].op = op
      /\ c[Last(s)].want[1] = b /\ c[Last(s)].want[2] = "end"
      /\ \A j \in DOMAIN s : c[s[j]].want[1] = b => j = Len(s)
  BY MatchedLast
<1>2. c[Last(s)].want = <<b, "end">>
  BY <1>1, OpTyped
<1>3. ASSUME NEW i \in DOMAIN c, WaitsFor(c, b, i) PROVE i = Last(s)
  <2>1. i \in Entries(s) /\ c[i].want = <<b, "end">>
    BY <1>3 DEF WaitsFor
  <2>2. PICK j \in DOMAIN s : i = s[j]
    BY <2>1 DEF Entries
  <2>3. c[s[j]].want[1] = b
    BY <2>1, <2>2
  <2> QED
    BY <2>2, <2>3, <1>1
<1> QED
  BY <1>1, <1>2, <1>3 DEF WaitsFor

LEMMA SegmentedWaits ==
  ASSUME NEW c \in Seq(OpRecords), NEW s \in Seq(Nat), NEW kinds,
         NEW bs \in Seq(BlockRecords), NEW n \in Nat, Nested(bs, n), bs # <<>>,
         Segmented(c, s, bs, kinds), bs[Len(bs)].kind \in kinds,
         \A i \in DOMAIN c : WaitsFor(c, bs[Len(bs)].id, i) => i \in Entries(s)
  PROVE  \A i \in DOMAIN c :
           i \in EntriesFrom(s, bs[Len(bs)].base) <=> WaitsFor(c, bs[Len(bs)].id, i)
<1> DEFINE top == bs[Len(bs)]
<1>1. Len(bs) \in DOMAIN bs /\ DOMAIN bs \subseteq Nat /\ DOMAIN s \subseteq Nat /\ top.base \in Nat
      /\ DOMAIN bs = 1 .. Len(bs) /\ Len(bs) \in Nat
  <2>1. Len(bs) \in DOMAIN bs /\ DOMAIN bs = 1 .. Len(bs) /\ Len(bs) \in Nat
    OBVIOUS
  <2> QED
    BY <2>1, BaseTyped
<1>2. top.base <= Len(s)
  BY <1>1 DEF Segmented
<1>3. EntriesFrom(s, top.base) = {s[j] : j \in {l \in DOMAIN s : l > top.base}}
  BY <1>1, <1>2, EntriesCut
<1>4. ASSUME NEW j \in DOMAIN s, NEW k \in DOMAIN bs, OwnedBy(bs, kinds, j, k)
      PROVE  k = Len(bs) <=> j > top.base
  <2>1. k # Len(bs) => j <= top.base
    <3>1. k # Len(bs) => Len(bs) > k
      BY <1>1
    <3> QED
      BY <3>1, <1>1, <1>4 DEF OwnedBy
  <2>2. k = Len(bs) => top.base < j
    BY <1>4 DEF OwnedBy
  <2> QED
    BY <2>1, <2>2, <1>1
<1>5. \A k, l \in DOMAIN bs : bs[k].id = bs[l].id => k = l
  BY IdsAreOpen
<1>6. ASSUME NEW j \in DOMAIN s
      PROVE  /\ s[j] \in DOMAIN c
             /\ j > top.base <=> WaitsFor(c, top.id, s[j])
  <2>1. s[j] \in DOMAIN c /\ c[s[j]].op = "GOTO"
    BY DEF Segmented
  <2>2. PICK k \in DOMAIN bs : OwnedBy(bs, kinds, j, k) /\ c[s[j]].want = <<bs[k].id, "end">>
    BY DEF Segmented
  <2>3. WaitsFor(c, top.id, s[j]) <=> bs[k].id = top.id
    BY <2>1, <2>2 DEF WaitsFor
  <2>4. bs[k].id = top.id <=> k = Len(bs)
    BY <1>1, <1>5
  <2> QED
    BY <2>1, <2>2, <2>3, <2>4, <1>4
<1>7. ASSUME NEW i \in DOMAIN c
      PROVE  i \in EntriesFrom(s, top.base) <=> WaitsFor(c, top.id, i)
  <2>1. ASSUME i \in EntriesFrom(s, top.base) PROVE WaitsFor(c, top.id, i)
    BY <2>1, <1>3, <1>6
  <2>2. ASSUME WaitsFor(c, top.id, i) PROVE i \in EntriesFrom(s, top.base)
    <3>1. i \in Entries(s)
      BY <2>2
    <3>2. PICK j \in DOMAIN s : i = s[j]
      BY <3>1 DEF Entries
    <3>3. j > top.base
      BY <3>2, <2>2, <1>6
    <3> QED
      BY <3>2, <3>3, <1>3
  <2> QED
    BY <2>1, <2>2
<1> QED
  BY <1>7

LEMMA CollectedWaits ==
  ASSUME NEW c \in Seq(OpRecords), NEW s \in Seq(Nat), NEW b, Collected(c, s, {b}),
         NEW i \in Entries(s)
  PROVE  i \in DOMAIN c /\ WaitsFor(c, b, i)
<1>1. PICK j \in DOMAIN s : i = s[j]
  BY DEF Entries
<1>2. i \in DOMAIN c /\ c[i].op # "SWITCH" /\ c[i].want[1] = b /\ c[i].want[2] = "end"
  BY <1>1 DEF Collected
<1>3. c[i].want = <<b, "end">>
  BY <1>2, OpTyped
<1> QED
  BY <1>2, <1>3 DEF WaitsFor

LEMMA PatchedIsWaiting ==
  ASSUME NEW c, NEW bs, NEW p, NEW m, BuilderOK(c, bs, p, m), Closing(bs)
  PROVE  \A i \in DOMAIN c : i \in Patched(bs, p) <=> WaitsFor(c, bs[Len(bs)].id, i)
<1> DEFINE top == bs[Len(bs)]
           n == Len(m)
<1>1. c \in Seq(OpRecords) /\ bs \in Seq(BlockRecords) /\ p \in [Stacks -> Seq(Nat)] /\ n \in Nat
      /\ Nested(bs, n) /\ bs # <<>> /\ Waiting(c, bs, p, n) /\ ~ ElseNext(bs)
  BY DEF BuilderOK, Typed, Closing
<1>2. Len(bs) \in DOMAIN bs /\ top.kind \in BlockKinds /\ top.id \in Nat
      /\ top.id \in Open(bs) /\ (\A b \in Open(bs) : b \in Nat /\ b <= top.id) /\ top.id \in 1 .. n
  BY <1>1, TopIsLast, BaseTyped
<1>3. /\ \A kinds : IdsOf(bs, kinds) \subseteq Open(bs)
      /\ \A kinds : top.id \in IdsOf(bs, kinds) <=> top.kind \in kinds
  BY <1>1, <1>2, IdsAreOpen
<1>4. ASSUME NEW i \in DOMAIN c, c[i].want = <<top.id, "end">>
      PROVE  \E s \in StacksOf[top.kind] : i \in Entries(p[s])
  <2>1. c[i].want # Nowhere
    BY <1>2, <1>4 DEF Nowhere
  <2>2. EndSettled(c, bs, p, m, i)
    BY <2>1 DEF BuilderOK, Landing, Settled
  <2> QED
    BY <2>2, <1>2, <1>4 DEF EndSettled
<1>5. \A kinds : IdsOf(bs, kinds) \in SUBSET Nat /\ \A b \in IdsOf(bs, kinds) : b <= top.id
  BY <1>2, <1>3
<1>6. CASE top.kind = "if"
  <2>1. Matched(c, p["if"], "IF", "end", IdsOf(bs, {"if"})) /\ top.id \in IdsOf(bs, {"if"})
    BY <1>1, <1>3, <1>6 DEF Waiting
  <2>2. \A i \in DOMAIN c : c[i].want = <<top.id, "end">> => i \in Entries(p["if"])
    BY <1>4, <1>6 DEF StacksOf
  <2>3. IdsOf(bs, {"if"}) \in SUBSET Nat /\ (\A b \in IdsOf(bs, {"if"}) : b <= top.id)
    BY <1>5
  <2>4. p["if"] \in Seq(Nat)
    BY <1>1, PendTyped
  <2>5. \A i \in DOMAIN c : i \in {Last(p["if"])} <=> WaitsFor(c, top.id, i)
    <3> HIDE DEF top
    <3> QED
      BY <2>1, <2>2, <2>3, <2>4, <1>1, MatchedWaits
  <2> QED
    BY <2>5, <1>6 DEF Patched
<1>7. CASE top.kind = "else"
  <2>0. ElseIds(bs, n) = IdsOf(bs, {"else"})
    BY <1>1 DEF ElseIds
  <2>1. Matched(c, p["end"], "GOTO", "end", IdsOf(bs, {"else"})) /\ top.id \in IdsOf(bs, {"else"})
    BY <1>1, <1>3, <1>7, <2>0 DEF Waiting
  <2>2. \A i \in DOMAIN c : c[i].want = <<top.id, "end">> => i \in Entries(p["end"])
    BY <1>4, <1>7 DEF StacksOf
  <2>3. IdsOf(bs, {"else"}) \in SUBSET Nat /\ (\A b \in IdsOf(bs, {"else"}) : b <= top.id)
    BY <1>5
  <2>4. p["end"] \in Seq(Nat)
    BY <1>1, PendTyped
  <2>5. \A i \in DOMAIN c : i \in {Last(p["end"])} <=> WaitsFor(c, top.id, i)
    <3> HIDE DEF top
    <3> QED
      BY <2>1, <2>2, <2>3, <2>4, <1>1, MatchedWaits
  <2> QED
    BY <2>5, <1>7 DEF Patched
<1>8. CASE top.kind = "loop"
  <2>1. Segmented(c, p["next"], bs, {"loop"})
    BY <1>1 DEF Waiting
  <2>2. \A i \in DOMAIN c : WaitsFor(c, top.id, i) => i \in Entries(p["next"])
    BY <1>4, <1>8 DEF StacksOf, WaitsFor
  <2>3. \A i \in DOMAIN c : i \in EntriesFrom(p["next"], top.base) <=> WaitsFor(c, top.id, i)
    BY <2>1, <2>2, <1>1, <1>8, PendTyped, SegmentedWaits
  <2> QED
    BY <2>3, <1>8 DEF Patched
<1>9. CASE top.kind \in {"init", "switch"}
  <2>1. Segmented(c, p["last"], bs, {"init", "switch"})
    BY <1>1 DEF Waiting
  <2>2. ASSUME NEW i \in DOMAIN c, WaitsFor(c, top.id, i) PROVE i \in Entries(p["last"])
    <3>1. i \in Entries(p["last"]) \/ i \in Entries(p["switch"])
      BY <1>4, <1>9, <2>2 DEF StacksOf, WaitsFor
    <3>2. i \notin Entries(p["switch"])
      <4>1. \A j \in DOMAIN p["switch"] : c[p["switch"][j]].op = "SWITCH"
        BY <1>1 DEF Waiting, Matched
      <4> QED
        BY <4>1, <2>2 DEF Entries, WaitsFor
    <3> QED
      BY <3>1, <3>2
  <2>3. \A i \in DOMAIN c : i \in EntriesFrom(p["last"], top.base) <=> WaitsFor(c, top.id, i)
    BY <2>1, <2>2, <1>1, <1>9, PendTyped, SegmentedWaits
  <2> QED
    BY <2>3, <1>9 DEF Patched
<1>10. CASE top.kind = "eval"
  <2>0. IdsOf(bs, {"eval"}) = {top.id}
    <3>1. top.id \in IdsOf(bs, {"eval"})
      BY <1>3, <1>10
    <3>2. \A a, b \in IdsOf(bs, {"eval"}) : a = b
      BY DEF BuilderOK, OneEval
    <3> QED
      BY <3>1, <3>2
  <2>1. Collected(c, p["catch"], {top.id})
    BY <2>0, <1>1 DEF Waiting
  <2>2. \A i \in DOMAIN c : WaitsFor(c, top.id, i) => i \in Entries(p["catch"])
    BY <1>4, <1>10 DEF StacksOf, WaitsFor
  <2>3. EntriesFrom(p["catch"], 0) = Entries(p["catch"])
    BY <1>1, PendTyped, EntriesFromAll
  <2>4. \A i \in Entries(p["catch"]) : WaitsFor(c, top.id, i)
    BY <2>1, <1>1, PendTyped, CollectedWaits
  <2> QED
    BY <2>2, <2>3, <2>4, <1>10 DEF Patched
<1>11. CASE top.kind = "sub"
  <2>0. top.id = 1
    BY <1>1, <1>2, <1>11 DEF Nested, BlockOK
  <2>1. Collected(c, p["return"], {top.id}) /\ Collected(c, p["uncaught"], {top.id})
    BY <2>0, <1>1 DEF Waiting
  <2>2. \A i \in DOMAIN c : WaitsFor(c, top.id, i) => i \in Entries(p["return"]) \cup Entries(p["uncaught"])
    BY <1>4, <1>11 DEF StacksOf, WaitsFor
  <2>3. EntriesFrom(p["return"], 0) = Entries(p["return"]) /\ EntriesFrom(p["uncaught"], 0) = Entries(p["uncaught"])
    BY <1>1, PendTyped, EntriesFromAll
  <2>4. /\ \A i \in Entries(p["return"]) : WaitsFor(c, top.id, i)
        /\ \A i \in Entries(p["uncaught"]) : WaitsFor(c, top.id, i)
    BY <2>1, <1>1, PendTyped, CollectedWaits
  <2> QED
    BY <2>2, <2>3, <2>4, <1>11 DEF Patched
<1>12. CASE top.kind = "plain"
  <2>1. \A i \in DOMAIN c : ~ WaitsFor(c, top.id, i)
    BY <1>4, <1>12 DEF StacksOf, WaitsFor
  <2> QED
    BY <2>1, <1>12 DEF Patched
<1> QED
  BY <1>2, <1>6, <1>7, <1>8, <1>9, <1>10, <1>11, <1>12 DEF BlockKinds


(* The stacks when a block is closed; the end of a true block adds its     *)
(* jump over the false one, x.                                             *)
Released(bs, p, q, x) ==
  LET top == bs[Len(bs)] IN
  /\ q["if"]    = IF top.kind = "if" THEN Front(p["if"]) ELSE p["if"]
  /\ q["end"]   = IF top.kind = "if" THEN Append(p["end"], x)
                  ELSE IF top.kind = "else" THEN Front(p["end"]) ELSE p["end"]
  /\ q["first"] = p["first"]
  /\ q["last"]  = IF top.kind \in {"init", "switch"} THEN SubSeq(p["last"], 1, top.base)
                  ELSE p["last"]
  /\ q["next"]  = IF top.kind = "loop" THEN SubSeq(p["next"], 1, top.base) ELSE p["next"]
  /\ q["eval"]  = IF top.kind = "eval" THEN Front(p["eval"]) ELSE p["eval"]
  /\ q["catch"] = IF top.kind = "eval" THEN <<>> ELSE p["catch"]
  /\ q["uncaught"] = IF top.kind = "sub" THEN <<>> ELSE p["uncaught"]
  /\ q["return"]   = IF top.kind = "sub" THEN <<>> ELSE p["return"]
  /\ q["switch"]   = IF top.kind = "switch" THEN Front(p["switch"]) ELSE p["switch"]

(* The innermost block is gone, the others are what they were.             *)
Closed(bs, cs) ==
  /\ cs \in Seq(BlockRecords)
  /\ Len(cs) = Len(bs) - 1
  /\ SameBlocks(bs, cs, Len(cs)) /\ SamePhases(bs, cs, Len(cs))

(* The code d of a closed block: the jumps that wait for its end, which is *)
(* at e, are patched; behind that end its variables are out of scope.      *)
Finished(c, d, bs, p, n, e) ==
  LET top == bs[Len(bs)] IN
  /\ Extends(c, d)
  /\ \A i \in DOMAIN c : /\ i \in Patched(bs, p) => d[i].to = e
                         /\ i \notin Patched(bs, p) => d[i].to = c[i].to
                         /\ d[i].cases = c[i].cases
  /\ e \in Nat /\ Len(c) + 1 <= e /\ e <= Len(d) + 1
  /\ top.kind = "if" => /\ Len(c) + 1 \in DOMAIN d /\ d[Len(c) + 1].op = "GOTO"
                        /\ d[Len(c) + 1].want = <<n + 1, "end">>
  /\ top.kind = "switch" => c[Last(p["switch"])].to # 0
  /\ \A i \in DOMAIN d : i > Len(c) =>
       /\ d[i].op # "SWITCH"
       /\ d[i].want = Nowhere \/ (top.kind = "if" /\ i = Len(c) + 1)
       /\ Open(bs) \ {top.id} \subseteq d[i].scope
       /\ i < e => top.id \in d[i].scope

LEMMA WaitingAtClose ==
  ASSUME NEW c, NEW d \in Seq(OpRecords), NEW bs, NEW cs, NEW p, NEW q, NEW m, NEW e,
         q \in [Stacks -> Seq(Nat)],
         BuilderOK(c, bs, p, m), Closing(bs), Closed(bs, cs),
         Finished(c, d, bs, p, Len(m), e), Released(bs, p, q, Len(c) + 1)
  PROVE  Waiting(d, cs, q, Len(m))
<1> DEFINE top == bs[Len(bs)]
           n == Len(m)
<1>1. /\ c \in Seq(OpRecords) /\ bs \in Seq(BlockRecords) /\ p \in [Stacks -> Seq(Nat)] /\ n \in Nat
      /\ Nested(bs, n) /\ bs # <<>> /\ ~ ElseNext(bs) /\ ~ Entered(bs[Len(bs)])
      /\ Extends(c, d) /\ cs \in Seq(BlockRecords)
  BY DEF BuilderOK, Typed, Closing, Closed, Finished
<1>w. /\ Matched(c, p["if"], "IF", "end", IdsOf(bs, {"if"}))
      /\ Matched(c, p["end"], "GOTO", "end", ElseIds(bs, n))
      /\ Matched(c, p["first"], "GOTO", "cond", LoopIds(bs))
      /\ Matched(c, p["switch"], "SWITCH", "end", IdsOf(bs, {"switch"}))
      /\ Segmented(c, p["last"], bs, {"init", "switch"})
      /\ Segmented(c, p["next"], bs, {"loop"})
      /\ Collected(c, p["catch"], IdsOf(bs, {"eval"}))
      /\ Collected(c, p["return"], {1})
      /\ Collected(c, p["uncaught"], {1})
  BY DEF BuilderOK, Waiting
<1>2. Len(bs) \in DOMAIN bs /\ top.kind \in BlockKinds /\ top.id \in Nat /\ Len(bs) > 0
      /\ top.id \in Open(bs) /\ (\A b \in Open(bs) : b \in Nat /\ b <= top.id) /\ top.id <= n
  <2>1. Len(bs) > 0
    BY <1>1
  <2> QED
    BY <1>1, <2>1, TopIsLast, BaseTyped
<1>3. Len(cs) = Len(bs) - 1 /\ SameBlocks(bs, cs, Len(cs)) /\ SamePhases(bs, cs, Len(cs))
  BY DEF Closed
<1>4. /\ \A kinds : IdsOf(cs, kinds) = IdsOf(bs, kinds) \ {top.id}
      /\ \A kinds : top.kind \notin kinds => IdsOf(cs, kinds) = IdsOf(bs, kinds)
  BY <1>1, <1>2, <1>3, IdsClosed
<1>5. /\ \A kinds : IdsOf(bs, kinds) \subseteq Open(bs)
      /\ \A kinds : top.id \in IdsOf(bs, kinds) <=> top.kind \in kinds
  BY <1>1, <1>2, IdsAreOpen
<1>6. ASSUME NEW kinds
      PROVE  IdsOf(bs, kinds) \in SUBSET Nat /\ (\A b \in IdsOf(bs, kinds) : b <= top.id)
  BY <1>2, <1>5
<1>7. ElseNext(cs) <=> cs # <<>> /\ top.kind = "if"
  BY <1>1, <1>2, <1>3, NestedClosed
<1>8. /\ p["if"] \in Seq(Nat) /\ p["end"] \in Seq(Nat) /\ p["first"] \in Seq(Nat)
      /\ p["last"] \in Seq(Nat) /\ p["next"] \in Seq(Nat)
      /\ p["catch"] \in Seq(Nat) /\ p["uncaught"] \in Seq(Nat) /\ p["return"] \in Seq(Nat)
      /\ p["switch"] \in Seq(Nat) /\ q["last"] \in Seq(Nat) /\ q["next"] \in Seq(Nat)
  BY <1>1, PendTyped
<1>9. Matched(d, q["if"], "IF", "end", IdsOf(cs, {"if"}))
  <2>1. CASE top.kind = "if"
    <3>1. Matched(d, Front(p["if"]), "IF", "end", IdsOf(bs, {"if"}) \ {top.id})
      <4>1. top.id \in IdsOf(bs, {"if"}) /\ IdsOf(bs, {"if"}) \in SUBSET Nat
            /\ \A b \in IdsOf(bs, {"if"}) : b <= top.id
        BY <1>5, <1>6, <2>1
      <4> HIDE DEF top
      <4> QED
        BY <4>1, <1>1, <1>w, <1>8, MatchedPop
    <3> QED
      BY <3>1, <2>1, <1>4 DEF Released
  <2>2. CASE top.kind # "if"
    <3>1. Matched(d, p["if"], "IF", "end", IdsOf(bs, {"if"}))
      BY <1>1, <1>w, <1>8, MatchedKept
    <3> QED
      BY <3>1, <2>2, <1>4 DEF Released
  <2> QED
    BY <2>1, <2>2
<1>10. Matched(d, q["end"], "GOTO", "end", ElseIds(cs, n))
  <2>0. ElseIds(bs, n) = IdsOf(bs, {"else"})
    BY <1>1 DEF ElseIds
  <2>1. CASE top.kind = "if"
    <3>1. cs # <<>>
      <4>1. bs[Len(bs)].kind = "sub" <=> Len(bs) = 1
        BY <1>1, <1>2 DEF Nested, BlockOK
      <4> QED
        BY <4>1, <2>1, <1>1, <1>3
    <3>2. ElseIds(cs, n) = IdsOf(bs, {"else"}) \cup {n + 1}
      BY <3>1, <2>1, <1>4, <1>7 DEF ElseIds
    <3>3. Len(c) + 1 \in DOMAIN d /\ d[Len(c) + 1].op = "GOTO" /\ d[Len(c) + 1].want = <<n + 1, "end">>
      BY <2>1 DEF Finished
    <3>4. \A b \in IdsOf(bs, {"else"}) : b < n + 1
      BY <1>1, <1>2, <1>5
    <3>5. IdsOf(bs, {"else"}) \in SUBSET Nat
      BY <1>6
    <3>6. Matched(d, Append(p["end"], Len(c) + 1), "GOTO", "end", IdsOf(bs, {"else"}) \cup {n + 1})
      <4>1. n + 1 \in Nat
        BY <1>1
      <4> HIDE DEF n
      <4> QED
        BY <4>1, <3>3, <3>4, <3>5, <2>0, <1>1, <1>w, <1>8, MatchedPush
    <3> QED
      BY <3>2, <3>6, <2>1 DEF Released
  <2>2. CASE top.kind = "else"
    <3>1. Matched(d, Front(p["end"]), "GOTO", "end", IdsOf(bs, {"else"}) \ {top.id})
      <4>1. top.id \in IdsOf(bs, {"else"}) /\ IdsOf(bs, {"else"}) \in SUBSET Nat
            /\ \A b \in IdsOf(bs, {"else"}) : b <= top.id
        BY <1>5, <1>6, <2>2
      <4> HIDE DEF top, n
      <4> QED
        BY <4>1, <2>0, <1>1, <1>w, <1>8, MatchedPop
    <3>2. ElseIds(cs, n) = IdsOf(bs, {"else"}) \ {top.id}
      BY <2>2, <1>4, <1>7 DEF ElseIds
    <3> QED
      BY <3>1, <3>2, <2>2 DEF Released
  <2>3. CASE top.kind \notin {"if", "else"}
    <3>1. Matched(d, p["end"], "GOTO", "end", IdsOf(bs, {"else"}))
      BY <2>0, <1>1, <1>w, <1>8, MatchedKept
    <3>2. ElseIds(cs, n) = IdsOf(bs, {"else"})
      BY <2>3, <1>4, <1>7 DEF ElseIds
    <3> QED
      BY <3>1, <3>2, <2>3 DEF Released
  <2> QED
    BY <2>1, <2>2, <2>3
<1>11. Matched(d, q["first"], "GOTO", "cond", LoopIds(cs))
  <2>1. LoopIds(cs) = LoopIds(bs)
    BY <1>1, <1>2, <1>3, LoopsClosed
  <2>2. Matched(d, p["first"], "GOTO", "cond", LoopIds(bs))
    BY <1>1, <1>w, <1>8, MatchedKept
  <2> QED
    BY <2>1, <2>2 DEF Released
<1>12. Matched(d, q["switch"], "SWITCH", "end", IdsOf(cs, {"switch"}))
  <2>1. CASE top.kind = "switch"
    <3>1. Matched(d, Front(p["switch"]), "SWITCH", "end", IdsOf(bs, {"switch"}) \ {top.id})
      <4>1. top.id \in IdsOf(bs, {"switch"}) /\ IdsOf(bs, {"switch"}) \in SUBSET Nat
            /\ \A b \in IdsOf(bs, {"switch"}) : b <= top.id
        BY <1>5, <1>6, <2>1
      <4> HIDE DEF top
      <4> QED
        BY <4>1, <1>1, <1>w, <1>8, MatchedPop
    <3> QED
      BY <3>1, <2>1, <1>4 DEF Released
  <2>2. CASE top.kind # "switch"
    <3>1. Matched(d, p["switch"], "SWITCH", "end", IdsOf(bs, {"switch"}))
      BY <1>1, <1>w, <1>8, MatchedKept
    <3> QED
      BY <3>1, <2>2, <1>4 DEF Released
  <2> QED
    BY <2>1, <2>2
<1>13. Segmented(d, q["last"], cs, {"init", "switch"})
  <2>1. top.kind \in {"init", "switch"} => q["last"] = SubSeq(p["last"], 1, top.base)
    BY DEF Released
  <2>2. top.kind \notin {"init", "switch"} => q["last"] = p["last"]
    BY DEF Released
  <2> QED
    BY <2>1, <2>2, <1>1, <1>2, <1>3, <1>w, <1>8, SegmentedClose
<1>14. Segmented(d, q["next"], cs, {"loop"})
  <2>1. top.kind \in {"loop"} => q["next"] = SubSeq(p["next"], 1, top.base)
    BY DEF Released
  <2>2. top.kind \notin {"loop"} => q["next"] = p["next"]
    BY DEF Released
  <2> QED
    BY <2>1, <2>2, <1>1, <1>2, <1>3, <1>w, <1>8, SegmentedClose
<1>15. Collected(d, q["catch"], IdsOf(cs, {"eval"}))
  <2>1. CASE top.kind = "eval"
    <3>1. q["catch"] = <<>>
      BY <2>1 DEF Released
    <3> QED
      BY <3>1 DEF Collected
  <2>2. CASE top.kind # "eval"
    <3>1. Collected(d, p["catch"], IdsOf(bs, {"eval"}))
      BY <1>1, <1>w, <1>8, CollectedKept
    <3> QED
      BY <3>1, <2>2, <1>4 DEF Released
  <2> QED
    BY <2>1, <2>2
<1>16. Collected(d, q["return"], {1}) /\ Collected(d, q["uncaught"], {1})
  <2>1. CASE top.kind = "sub"
    <3>1. q["return"] = <<>> /\ q["uncaught"] = <<>>
      BY <2>1 DEF Released
    <3> QED
      BY <3>1 DEF Collected
  <2>2. CASE top.kind # "sub"
    <3>1. Collected(d, p["return"], {1}) /\ Collected(d, p["uncaught"], {1})
      BY <1>1, <1>w, <1>8, CollectedKept
    <3> QED
      BY <3>1, <2>2 DEF Released
  <2> QED
    BY <2>1, <2>2
<1> QED
  BY <1>9, <1>10, <1>11, <1>12, <1>13, <1>14, <1>15, <1>16 DEF Waiting

LEMMA MatchedRemoved ==
  ASSUME NEW c \in Seq(OpRecords), NEW s \in Seq(Nat), NEW op,
         NEW ids \in SUBSET Nat, Matched(c, s, op, "end", ids),
         NEW b \in ids, \A x \in ids : x <= b,
         NEW x \in Entries(s)
  PROVE  (x \in DOMAIN c /\ c[x].want = <<b, "end">>) \/ x \in Entries(Front(s))
<1>1. /\ s # <<>> /\ Last(s) \in DOMAIN c
      /\ c[Last(s)].want[1] = b /\ c[Last(s)].want[2] = "end"
  BY MatchedLast
<1>2. x = Last(s) \/ x \in Entries(Front(s))
  BY <1>1, EntriesPopped
<1>3. c[Last(s)].want = <<b, "end">>
  BY <1>1, OpTyped
<1> QED
  BY <1>1, <1>2, <1>3

LEMMA MatchedOnly ==
  ASSUME NEW c \in Seq(OpRecords), NEW s \in Seq(Nat), NEW op, NEW place,
         NEW ids \in SUBSET Nat, Matched(c, s, op, place, ids),
         NEW b \in ids, \A x \in ids : x <= b,
         NEW i \in Entries(s), c[i].want[1] = b
  PROVE  i = Last(s)
<1>1. /\ Last(s) = s[Len(s)]
      /\ \A j \in DOMAIN s : c[s[j]].want[1] = b => j = Len(s)
  BY MatchedLast
<1>2. PICK j \in DOMAIN s : i = s[j]
  BY DEF Entries
<1> QED
  BY <1>1, <1>2

(* What is taken from a stack of jumps waited for the end of the block.    *)
LEMMA RemovedWaited ==
  ASSUME NEW c, NEW d, NEW bs, NEW p, NEW q, NEW m, NEW e,
         BuilderOK(c, bs, p, m), Closing(bs), q \in [Stacks -> Seq(Nat)],
         Finished(c, d, bs, p, Len(m), e), Released(bs, p, q, Len(c) + 1),
         NEW s \in JumpStacks, NEW x \in Entries(p[s])
  PROVE  (x \in DOMAIN c /\ c[x].want = <<bs[Len(bs)].id, "end">>) \/ x \in Entries(q[s])
<1> DEFINE top == bs[Len(bs)]
           n == Len(m)
<1>1. /\ c \in Seq(OpRecords) /\ bs \in Seq(BlockRecords) /\ p \in [Stacks -> Seq(Nat)] /\ n \in Nat
      /\ Nested(bs, n) /\ bs # <<>> /\ ~ ElseNext(bs)
  BY DEF BuilderOK, Typed, Closing
<1>w. /\ Matched(c, p["if"], "IF", "end", IdsOf(bs, {"if"}))
      /\ Matched(c, p["end"], "GOTO", "end", ElseIds(bs, n))
      /\ Matched(c, p["switch"], "SWITCH", "end", IdsOf(bs, {"switch"}))
      /\ Segmented(c, p["last"], bs, {"init", "switch"})
      /\ Segmented(c, p["next"], bs, {"loop"})
      /\ Collected(c, p["catch"], IdsOf(bs, {"eval"}))
      /\ Collected(c, p["return"], {1})
      /\ Collected(c, p["uncaught"], {1})
  BY DEF BuilderOK, Waiting
<1>2. Len(bs) \in DOMAIN bs /\ top.kind \in BlockKinds /\ top.id \in Nat /\ top.base \in Nat
      /\ top.id \in Open(bs) /\ (\A b \in Open(bs) : b \in Nat /\ b <= top.id)
  BY <1>1, TopIsLast, BaseTyped
<1>5. /\ \A kinds : IdsOf(bs, kinds) \subseteq Open(bs)
      /\ \A kinds : top.id \in IdsOf(bs, kinds) <=> top.kind \in kinds
  BY <1>1, <1>2, IdsAreOpen
<1>6. ASSUME NEW kinds, top.kind \in kinds
      PROVE  IdsOf(bs, kinds) \in SUBSET Nat /\ top.id \in IdsOf(bs, kinds)
             /\ (\A b \in IdsOf(bs, kinds) : b <= top.id)
  BY <1>2, <1>5, <1>6
<1>8. /\ p["if"] \in Seq(Nat) /\ p["end"] \in Seq(Nat) /\ p["first"] \in Seq(Nat)
      /\ p["last"] \in Seq(Nat) /\ p["next"] \in Seq(Nat)
      /\ p["catch"] \in Seq(Nat) /\ p["uncaught"] \in Seq(Nat) /\ p["return"] \in Seq(Nat)
      /\ p["switch"] \in Seq(Nat)
  BY <1>1, PendTyped
<1>9. ASSUME x \in DOMAIN c, x \in Patched(bs, p) PROVE c[x].want = <<top.id, "end">>
  <2>1. WaitsFor(c, top.id, x)
    BY <1>9, PatchedIsWaiting
  <2> QED
    BY <2>1 DEF WaitsFor
<1>10. CASE s = "if"
  <2>1. CASE top.kind = "if"
    <3>1. IdsOf(bs, {"if"}) \in SUBSET Nat /\ top.id \in IdsOf(bs, {"if"})
          /\ (\A b \in IdsOf(bs, {"if"}) : b <= top.id)
      BY <1>6, <2>1
    <3>2. x \in Entries(p["if"])
      BY <1>10
    <3>3. (x \in DOMAIN c /\ c[x].want = <<top.id, "end">>) \/ x \in Entries(Front(p["if"]))
      <4> HIDE DEF top
      <4> QED
        BY <3>1, <3>2, <1>1, <1>w, <1>8, MatchedRemoved
    <3> QED
      BY <3>3, <1>10, <2>1 DEF Released
  <2> QED
    BY <2>1, <1>10 DEF Released
<1>11. CASE s = "end"
  <2>0. ElseIds(bs, n) = IdsOf(bs, {"else"})
    BY <1>1 DEF ElseIds
  <2>1. CASE top.kind = "else"
    <3>1. IdsOf(bs, {"else"}) \in SUBSET Nat /\ top.id \in IdsOf(bs, {"else"})
          /\ (\A b \in IdsOf(bs, {"else"}) : b <= top.id)
      BY <1>6, <2>1
    <3>2. x \in Entries(p["end"])
      BY <1>11
    <3>3. (x \in DOMAIN c /\ c[x].want = <<top.id, "end">>) \/ x \in Entries(Front(p["end"]))
      <4> HIDE DEF top, n
      <4> QED
        BY <3>1, <3>2, <2>0, <1>1, <1>w, <1>8, MatchedRemoved
    <3> QED
      BY <3>3, <1>11, <2>1 DEF Released
  <2>2. CASE top.kind = "if"
    <3>1. Entries(Append(p["end"], Len(c) + 1)) = Entries(p["end"]) \cup {Len(c) + 1}
      <4>1. Len(c) + 1 \in Nat
        BY <1>1
      <4> QED
        BY <4>1, <1>8, EntriesPushed
    <3>2. q["end"] = Append(p["end"], Len(c) + 1)
      BY <2>2 DEF Released
    <3> QED
      BY <3>1, <3>2, <1>11
  <2> QED
    BY <2>1, <2>2, <1>11 DEF Released
<1>12. CASE s = "first"
  BY <1>12 DEF Released
<1>13. CASE s = "last"
  <2>1. CASE top.kind \in {"init", "switch"}
    <3>1. top.base <= Len(p["last"])
      BY <1>2, <1>w, <2>1 DEF Segmented
    <3>2. PICK j \in DOMAIN p["last"] : x = p["last"][j]
      BY <1>13 DEF Entries
    <3>3. x \in EntriesFrom(p["last"], top.base) \/ x \in Entries(SubSeq(p["last"], 1, top.base))
      BY <3>1, <3>2, <1>2, <1>8, EntriesCut
    <3>4. x \in DOMAIN c
      BY <3>2, <1>w DEF Segmented
    <3>5. Patched(bs, p) = EntriesFrom(p["last"], top.base)
      BY <2>1 DEF Patched
    <3> QED
      BY <3>3, <3>4, <3>5, <1>9, <1>13, <2>1 DEF Released
  <2> QED
    BY <2>1, <1>13 DEF Released
<1>14. CASE s = "next"
  <2>1. CASE top.kind = "loop"
    <3>1. top.base <= Len(p["next"])
      BY <1>2, <1>w, <2>1 DEF Segmented
    <3>2. PICK j \in DOMAIN p["next"] : x = p["next"][j]
      BY <1>14 DEF Entries
    <3>3. x \in EntriesFrom(p["next"], top.base) \/ x \in Entries(SubSeq(p["next"], 1, top.base))
      BY <3>1, <3>2, <1>2, <1>8, EntriesCut
    <3>4. x \in DOMAIN c
      BY <3>2, <1>w DEF Segmented
    <3>5. Patched(bs, p) = EntriesFrom(p["next"], top.base)
      BY <2>1 DEF Patched
    <3> QED
      BY <3>3, <3>4, <3>5, <1>9, <1>14, <2>1 DEF Released
  <2> QED
    BY <2>1, <1>14 DEF Released
<1>15. CASE s = "catch"
  <2>1. CASE top.kind = "eval"
    <3>1. x \in DOMAIN c
      BY <1>15, <1>w DEF Collected, Entries
    <3>2. x \in Patched(bs, p)
      BY <1>8, <1>15, <2>1, EntriesFromAll DEF Patched
    <3> QED
      BY <3>1, <3>2, <1>9
  <2> QED
    BY <2>1, <1>15 DEF Released
<1>16. CASE s \in {"return", "uncaught"}
  <2>1. CASE top.kind = "sub"
    <3>1. x \in DOMAIN c
      BY <1>16, <1>w DEF Collected, Entries
    <3>2. x \in Patched(bs, p)
      BY <1>8, <1>16, <2>1, EntriesFromAll DEF Patched
    <3> QED
      BY <3>1, <3>2, <1>9
  <2> QED
    BY <2>1, <1>16 DEF Released
<1>17. CASE s = "switch"
  <2>1. CASE top.kind = "switch"
    <3>1. IdsOf(bs, {"switch"}) \in SUBSET Nat /\ top.id \in IdsOf(bs, {"switch"})
          /\ (\A b \in IdsOf(bs, {"switch"}) : b <= top.id)
      BY <1>6, <2>1
    <3>2. x \in Entries(p["switch"])
      BY <1>17
    <3>3. (x \in DOMAIN c /\ c[x].want = <<top.id, "end">>) \/ x \in Entries(Front(p["switch"]))
      <4> HIDE DEF top
      <4> QED
        BY <3>1, <3>2, <1>1, <1>w, <1>8, MatchedRemoved
    <3> QED
      BY <3>3, <1>17, <2>1 DEF Released
  <2> QED
    BY <2>1, <1>17 DEF Released
<1> QED
  BY <1>10, <1>11, <1>12, <1>13, <1>14, <1>15, <1>16, <1>17 DEF JumpStacks

(* The switch of a block is the last one on its stack.                     *)
LEMMA SwitchIsLast ==
  ASSUME NEW c, NEW bs, NEW p, NEW m, BuilderOK(c, bs, p, m), bs # <<>>,
         NEW i \in DOMAIN c, c[i].op = "SWITCH", c[i].want[1] = bs[Len(bs)].id
  PROVE  bs[Len(bs)].kind = "switch" /\ i = Last(p["switch"])
<1> DEFINE top == bs[Len(bs)]
           n == Len(m)
<1>1. /\ c \in Seq(OpRecords) /\ bs \in Seq(BlockRecords) /\ p \in [Stacks -> Seq(Nat)] /\ n \in Nat
      /\ Nested(bs, n)
  BY DEF BuilderOK, Typed
<1>w. /\ Matched(c, p["if"], "IF", "end", IdsOf(bs, {"if"}))
      /\ Matched(c, p["end"], "GOTO", "end", ElseIds(bs, n))
      /\ Matched(c, p["switch"], "SWITCH", "end", IdsOf(bs, {"switch"}))
      /\ Segmented(c, p["last"], bs, {"init", "switch"})
      /\ Segmented(c, p["next"], bs, {"loop"})
      /\ Collected(c, p["catch"], IdsOf(bs, {"eval"}))
      /\ Collected(c, p["return"], {1})
      /\ Collected(c, p["uncaught"], {1})
  BY DEF BuilderOK, Waiting
<1>2. Len(bs) \in DOMAIN bs /\ top.kind \in BlockKinds /\ top.id \in Nat /\ top.id \in 1 .. n
      /\ top.id \in Open(bs) /\ (\A b \in Open(bs) : b \in Nat /\ b <= top.id)
  BY <1>1, TopIsLast, BaseTyped
<1>3. c[i].want[2] = "end"
  BY DEF BuilderOK, Landing, Ranged
<1>4. c[i].want # Nowhere
  BY <1>2 DEF Nowhere
<1>5. PICK s \in StacksOf[top.kind] : i \in Entries(p[s])
  <2>1. EndSettled(c, bs, p, m, i)
    BY <1>4 DEF BuilderOK, Landing, Settled
  <2> QED
    BY <2>1, <1>2, <1>3 DEF EndSettled
<1>6. \A s2 \in {"if", "end", "last", "next", "catch", "return", "uncaught"} : i \notin Entries(p[s2])
  <2>1. i \notin Entries(p["if"]) /\ i \notin Entries(p["end"])
    BY <1>w DEF Matched, Entries
  <2>2. i \notin Entries(p["last"]) /\ i \notin Entries(p["next"])
    BY <1>w DEF Segmented, Entries
  <2>3. i \notin Entries(p["catch"]) /\ i \notin Entries(p["return"]) /\ i \notin Entries(p["uncaught"])
    BY <1>w DEF Collected, Entries
  <2> QED
    BY <2>1, <2>2, <2>3
<1>7. s = "switch" /\ top.kind = "switch"
  BY <1>2, <1>5, <1>6 DEF StacksOf, BlockKinds
<1>8. top.id \in IdsOf(bs, {"switch"}) /\ IdsOf(bs, {"switch"}) \in SUBSET Nat
      /\ \A b \in IdsOf(bs, {"switch"}) : b <= top.id
  BY <1>1, <1>2, <1>7, IdsAreOpen
<1>9. p["switch"] \in Seq(Nat)
  BY <1>1, PendTyped
<1>10. Matched(c, p["switch"], "SWITCH", "end", IdsOf(bs, {"switch"}))
  BY <1>w
<1>11. i \in Entries(p["switch"])
  BY <1>5, <1>7
<1>12. i = Last(p["switch"])
  <2>1. c[i].want[1] = top.id
    OBVIOUS
  <2> HIDE DEF top
  <2> QED
    BY <2>1, <1>1, <1>8, <1>9, <1>10, <1>11, MatchedOnly
<1> QED
  BY <1>7, <1>12

(* Closing the innermost block keeps the invariant.                        *)
LEMMA CloseStep ==
  ASSUME NEW c, NEW d \in Seq(OpRecords), NEW bs, NEW cs, NEW p, NEW q, NEW m, NEW e,
         q \in [Stacks -> Seq(Nat)],
         BuilderOK(c, bs, p, m), Closing(bs), Closed(bs, cs),
         Finished(c, d, bs, p, Len(m), e), Released(bs, p, q, Len(c) + 1)
  PROVE  BuilderOK(d, cs, q, [m EXCEPT ![bs[Len(bs)].id]["end"] = e])
<1> DEFINE top == bs[Len(bs)]
           n == Len(m)
           r == [m EXCEPT ![bs[Len(bs)].id]["end"] = e]
<1>1. /\ c \in Seq(OpRecords) /\ bs \in Seq(BlockRecords) /\ p \in [Stacks -> Seq(Nat)] /\ n \in Nat
      /\ m \in Seq([Places -> Nat])
      /\ Nested(bs, n) /\ bs # <<>> /\ ~ ElseNext(bs) /\ ~ Entered(top) /\ top.phase # "incr"
      /\ Extends(c, d) /\ cs \in Seq(BlockRecords) /\ e \in Nat
  BY DEF BuilderOK, Typed, Closing, Closed, Finished
<1>2. Len(bs) \in DOMAIN bs /\ top.kind \in BlockKinds /\ top.id \in Nat /\ Len(bs) > 0
      /\ top.id \in Open(bs) /\ (\A b \in Open(bs) : b \in Nat /\ b <= top.id) /\ top.id \in 1 .. n
  <2>1. Len(bs) > 0
    BY <1>1
  <2> QED
    BY <1>1, <2>1, TopIsLast, BaseTyped
<1>3. Len(cs) = Len(bs) - 1 /\ SameBlocks(bs, cs, Len(cs)) /\ SamePhases(bs, cs, Len(cs))
  BY DEF Closed
<1>4. /\ \A kinds : IdsOf(cs, kinds) = IdsOf(bs, kinds) \ {top.id}
      /\ \A kinds : top.kind \notin kinds => IdsOf(cs, kinds) = IdsOf(bs, kinds)
      /\ Open(cs) = Open(bs) \ {top.id}
  BY <1>1, <1>2, <1>3, IdsClosed
<1>5. /\ r \in Seq([Places -> Nat]) /\ Len(r) = n /\ DOMAIN r = DOMAIN m
      /\ r[top.id]["end"] = e
      /\ \A b \in DOMAIN m : b # top.id => r[b]["end"] = m[b]["end"]
      /\ \A b \in DOMAIN m : r[b]["cond"] = m[b]["cond"] /\ r[b]["body"] = m[b]["body"]
  <2>1. top.id \in DOMAIN m
    BY <1>1, <1>2
  <2>2. [m[top.id] EXCEPT !["end"] = e] \in [Places -> Nat]
    BY <2>1, <1>1 DEF Places
  <2>3. r = [m EXCEPT ![top.id] = [m[top.id] EXCEPT !["end"] = e]]
    OBVIOUS
  <2>4. r \in Seq([Places -> Nat]) /\ Len(r) = n /\ DOMAIN r = DOMAIN m
    BY <2>1, <2>2, <2>3, <1>1
  <2>5. \A b \in DOMAIN m : r[b] = IF b = top.id THEN [m[top.id] EXCEPT !["end"] = e] ELSE m[b]
    BY <2>3
  <2>6. m[top.id] \in [Places -> Nat]
    BY <2>1, <1>1
  <2>7. [m[top.id] EXCEPT !["end"] = e]["end"] = e /\ [m[top.id] EXCEPT !["end"] = e]["cond"] = m[top.id]["cond"]
        /\ [m[top.id] EXCEPT !["end"] = e]["body"] = m[top.id]["body"]
    BY <2>6 DEF Places
  <2> QED
    BY <2>1, <2>4, <2>5, <2>7
<1> HIDE DEF r
<1>6. Typed(d, cs, q, r)
  BY <1>1, <1>5 DEF Typed
<1>7. Nested(cs, Len(r)) /\ (ElseNext(cs) <=> cs # <<>> /\ top.kind = "if")
  BY <1>1, <1>2, <1>3, <1>5, NestedClosed
<1>8. OneEval(cs, q["eval"])
  <2>1. /\ \A a, b \in IdsOf(bs, {"eval"}) : a = b
        /\ p["eval"] = <<>> <=> IdsOf(bs, {"eval"}) = {}
        /\ Len(p["eval"]) <= 1
        /\ p["eval"] \in Seq(Nat)
    BY <1>1, PendTyped DEF BuilderOK, OneEval
  <2>2. CASE top.kind = "eval"
    <3>1. top.id \in IdsOf(bs, {"eval"})
      BY <1>1, <1>2, <2>2, IdsAreOpen
    <3>2. IdsOf(cs, {"eval"}) = {}
      BY <3>1, <2>1, <1>4
    <3>3. Front(p["eval"]) = <<>>
      BY <3>1, <2>1 DEF Front
    <3> QED
      BY <3>2, <3>3, <2>2 DEF OneEval, Released
  <2>3. CASE top.kind # "eval"
    <3>1. IdsOf(cs, {"eval"}) = IdsOf(bs, {"eval"})
      BY <1>4, <2>3
    <3> QED
      BY <3>1, <2>1, <2>3 DEF OneEval, Released
  <2> QED
    BY <2>2, <2>3
<1>9. Waiting(d, cs, q, Len(r))
  BY <1>5, WaitingAtClose
<1>10. \A i \in DOMAIN c : i \in Patched(bs, p) <=> WaitsFor(c, top.id, i)
  BY PatchedIsWaiting
<1>11. \A s \in JumpStacks : \A x \in Entries(p[s]) :
         (x \in DOMAIN c /\ c[x].want = <<top.id, "end">>) \/ x \in Entries(q[s])
  BY RemovedWaited
<1>12. /\ DOMAIN c = 1 .. Len(c) /\ DOMAIN d = 1 .. Len(d) /\ Len(c) \in Nat /\ Len(d) \in Nat
       /\ Len(c) <= Len(d)
  BY <1>1 DEF Extends
<1>13. ASSUME NEW i \in DOMAIN c
       PROVE  /\ i \in DOMAIN d
              /\ d[i].want = c[i].want /\ d[i].op = c[i].op /\ d[i].cases = c[i].cases
              /\ WaitsFor(c, top.id, i) => d[i].to = e
              /\ ~ WaitsFor(c, top.id, i) => d[i].to = c[i].to
  BY <1>1, <1>10, <1>12 DEF Finished, Extends
<1>f. /\ c \in Seq(OpRecords) /\ Extends(c, d) /\ e \in Nat
      /\ m \in Seq([Places -> Nat]) /\ r \in Seq([Places -> Nat])
  BY <1>1, <1>5
<1>g. EndReached(c, bs, cs, p, q, m, r, top, e)
  BY <1>1, <1>2, <1>3, <1>5, <1>11 DEF EndReached
<1>14. ASSUME NEW i \in DOMAIN d, d[i].want # Nowhere PROVE Settled(d, cs, q, r, i)
  <2>1. CASE i \in DOMAIN c
    <3>1. Settled(c, bs, p, m, i)
      BY <2>1, <1>13, <1>14 DEF BuilderOK, Landing
    <3>2. /\ c[i].want = <<top.id, "end">> /\ c[i].op # "SWITCH" => d[i].to = e
          /\ ~ (c[i].want = <<top.id, "end">> /\ c[i].op # "SWITCH") => d[i].to = c[i].to
      BY <2>1, <1>13 DEF WaitsFor
    <3> HIDE DEF top
    <3> QED
      BY <3>1, <3>2, <2>1, <1>f, <1>g, SettledAtClose
  <2>2. CASE i \notin DOMAIN c
    <3>1. i > Len(c)
      BY <2>2, <1>12
    <3>2. top.kind = "if" /\ i = Len(c) + 1 /\ d[i].want = <<n + 1, "end">>
      BY <3>1, <1>14 DEF Finished
    <3>3. cs # <<>>
      <4>1. top.kind = "sub" <=> Len(bs) = 1
        BY <1>1, <1>2 DEF Nested, BlockOK
      <4> QED
        BY <4>1, <3>2, <1>2, <1>3, <1>1
    <3>4. i \in Entries(q["end"])
      <4>1. q["end"] = Append(p["end"], i)
        BY <3>2 DEF Released
      <4>2. p["end"] \in Seq(Nat) /\ i \in Nat
        BY <1>1, <1>12, PendTyped
      <4> QED
        BY <4>1, <4>2, EntriesPushed
    <3>5. Aims(d, cs, q, r, i)
      BY <3>2, <3>3, <3>4, <1>5, <1>7 DEF Aims
    <3>6. d[i].want[1] = n + 1 /\ d[i].want[2] = "end"
      BY <3>2
    <3>7. n + 1 \notin DOMAIN r /\ \A k \in DOMAIN cs : cs[k].id # n + 1
      <4>1. \A k \in DOMAIN cs : cs[k].id \in Open(cs)
        BY DEF Open
      <4>2. Open(cs) \subseteq 1 .. n
        BY <1>1, <1>5, <1>7, IdsAreOpen
      <4>3. DOMAIN r = 1 .. n
        BY <1>5
      <4> QED
        BY <4>1, <4>2, <4>3, <1>1
    <3>8. EndSettled(d, cs, q, r, i)
      BY <3>6, <3>7 DEF EndSettled
    <3> QED
      BY <3>5, <3>6, <3>8 DEF Settled, CondSettled, BodySettled
  <2> QED
    BY <2>1, <2>2
<1>e. EndMarked(c, d, bs, cs, m, r, top.id, e)
  BY <1>1, <1>2, <1>4, <1>5 DEF EndMarked, Finished
<1>15. ASSUME NEW i \in DOMAIN d PROVE Ranged(d, cs, r, i)
  <2>1. CASE i \in DOMAIN c
    <3>1. Ranged(c, bs, m, i)
      BY <2>1 DEF BuilderOK, Landing
    <3>2. c[i].op = "SWITCH" => d[i].to = c[i].to
      BY <2>1, <1>13 DEF WaitsFor
    <3>3. d[i].cases = c[i].cases
      BY <2>1, <1>13
    <3>6. c[i].op = "SWITCH" /\ c[i].want[1] = top.id => c[i].to # 0
      <4>1. SUFFICES ASSUME c[i].op = "SWITCH", c[i].want[1] = top.id PROVE c[i].to # 0
        OBVIOUS
      <4>2. top.kind = "switch" /\ i = Last(p["switch"])
        BY <4>1, <2>1, <1>1, SwitchIsLast
      <4> QED
        BY <4>2 DEF Finished
    <3> HIDE DEF top
    <3> QED
      BY <3>1, <3>2, <3>3, <3>6, <2>1, <1>e, <1>f, RangedAtClose
  <2>2. CASE i \notin DOMAIN c
    <3>1. i > Len(c)
      BY <2>2, <1>12
    <3> QED
      BY <3>1 DEF Finished, Ranged
  <2> QED
    BY <2>1, <2>2
<1>16. BodiesMarked(d, cs, q["first"], r)
  <2>1. q["first"] = p["first"]
    BY DEF Released
  <2>2. \A j \in DOMAIN p["first"] : p["first"][j] \in DOMAIN c
    BY DEF BuilderOK, Waiting, Matched
  <2>3. ASSUME NEW k \in DOMAIN cs, Entered(cs[k])
        PROVE  k \in DOMAIN bs /\ Entered(bs[k]) /\ cs[k].id = bs[k].id
               /\ r[bs[k].id]["body"] = m[bs[k].id]["body"]
    <3>1. k \in DOMAIN bs /\ k \in 1 .. Len(cs)
      BY <1>1, <1>3
    <3>2. cs[k].id = bs[k].id /\ cs[k].kind = bs[k].kind /\ cs[k].phase = bs[k].phase
      BY <3>1, <1>3 DEF SameBlocks, SamePhases
    <3>3. bs[k].id \in DOMAIN m
      BY <3>1, <1>1 DEF Nested, BlockOK
    <3> QED
      BY <3>1, <3>2, <3>3, <2>3, <1>5 DEF Entered
  <2>4. BodiesMarked(c, bs, p["first"], m)
    BY DEF BuilderOK, Landing
  <2>5. \A j \in DOMAIN q["first"] : j \in DOMAIN p["first"] /\ q["first"][j] = p["first"][j]
    BY <2>1
  <2>6. c \in Seq(OpRecords) /\ Extends(c, d)
    BY <1>1
  <2> HIDE DEF top, n
  <2> QED
    BY <2>2, <2>3, <2>4, <2>5, <2>6, BodiesStay
<1> QED
  BY <1>6, <1>7, <1>8, <1>9, <1>14, <1>15, <1>16 DEF BuilderOK, Landing, r

-----------------------------------------------------------------------------
(* Steps that close no block.                                              *)

(* Waiting, one stack at a time.                                           *)
OnStack(name, c, s, bs, n) ==
  CASE name = "if"     -> Matched(c, s, "IF", "end", IdsOf(bs, {"if"}))
    [] name = "end"    -> Matched(c, s, "GOTO", "end", ElseIds(bs, n))
    [] name = "first"  -> Matched(c, s, "GOTO", "cond", LoopIds(bs))
    [] name = "switch" -> Matched(c, s, "SWITCH", "end", IdsOf(bs, {"switch"}))
    [] name = "last"   -> Segmented(c, s, bs, {"init", "switch"})
    [] name = "next"   -> Segmented(c, s, bs, {"loop"})
    [] name = "catch"  -> Collected(c, s, IdsOf(bs, {"eval"}))
    [] name = "return"   -> Collected(c, s, {1})
    [] name = "uncaught" -> Collected(c, s, {1})

LEMMA OnStackIs ==
  ASSUME NEW c, NEW s, NEW bs, NEW n
  PROVE  /\ OnStack("if", c, s, bs, n)     <=> Matched(c, s, "IF", "end", IdsOf(bs, {"if"}))
         /\ OnStack("end", c, s, bs, n)    <=> Matched(c, s, "GOTO", "end", ElseIds(bs, n))
         /\ OnStack("first", c, s, bs, n)  <=> Matched(c, s, "GOTO", "cond", LoopIds(bs))
         /\ OnStack("switch", c, s, bs, n) <=> Matched(c, s, "SWITCH", "end", IdsOf(bs, {"switch"}))
         /\ OnStack("last", c, s, bs, n)   <=> Segmented(c, s, bs, {"init", "switch"})
         /\ OnStack("next", c, s, bs, n)   <=> Segmented(c, s, bs, {"loop"})
         /\ OnStack("catch", c, s, bs, n)  <=> Collected(c, s, IdsOf(bs, {"eval"}))
         /\ OnStack("return", c, s, bs, n) <=> Collected(c, s, {1})
         /\ OnStack("uncaught", c, s, bs, n) <=> Collected(c, s, {1})
BY DEF OnStack

LEMMA WaitingIs ==
  ASSUME NEW c, NEW p, NEW bs, NEW n
  PROVE  Waiting(c, bs, p, n) <=> \A name \in JumpStacks : OnStack(name, c, p[name], bs, n)
BY OnStackIs DEF Waiting, JumpStacks

(* The blocks a stack is about are the same ones.                          *)
SameOnStack(name, s, bs, cs, n, n2) ==
  /\ name = "if"     => IdsOf(cs, {"if"}) = IdsOf(bs, {"if"})
  /\ name = "end"    => ElseIds(cs, n2) = ElseIds(bs, n)
  /\ name = "first"  => LoopIds(cs) = LoopIds(bs)
  /\ name = "switch" => IdsOf(cs, {"switch"}) = IdsOf(bs, {"switch"})
  /\ name = "last"   => \A k \in DOMAIN cs : k > Len(bs) /\ cs[k].kind \in {"init", "switch"} => cs[k].base = Len(s)
  /\ name = "next"   => \A k \in DOMAIN cs : k > Len(bs) /\ cs[k].kind \in {"loop"} => cs[k].base = Len(s)
  /\ name = "catch"  => IdsOf(bs, {"eval"}) \subseteq IdsOf(cs, {"eval"})

LEMMA StackKept ==
  ASSUME NEW name \in JumpStacks,
         NEW c \in Seq(OpRecords), NEW d \in Seq(OpRecords), Extends(c, d), NEW s \in Seq(Nat),
         NEW bs \in Seq(BlockRecords), NEW cs \in Seq(BlockRecords), NEW n, NEW n2,
         SameBlocks(bs, cs, Len(bs)), Len(bs) <= Len(cs), Len(cs) <= Len(bs) + 1,
         SameOnStack(name, s, bs, cs, n, n2), OnStack(name, c, s, bs, n)
  PROVE  OnStack(name, d, s, cs, n2)
<1>1. CASE name = "if"
  <2>1. Matched(d, s, "IF", "end", IdsOf(bs, {"if"}))
    BY <1>1, OnStackIs, MatchedKept
  <2> QED
    BY <2>1, <1>1, OnStackIs DEF SameOnStack
<1>2. CASE name = "end"
  <2>1. Matched(d, s, "GOTO", "end", ElseIds(bs, n))
    BY <1>2, OnStackIs, MatchedKept
  <2> QED
    BY <2>1, <1>2, OnStackIs DEF SameOnStack
<1>3. CASE name = "first"
  <2>1. Matched(d, s, "GOTO", "cond", LoopIds(bs))
    BY <1>3, OnStackIs, MatchedKept
  <2> QED
    BY <2>1, <1>3, OnStackIs DEF SameOnStack
<1>4. CASE name = "switch"
  <2>1. Matched(d, s, "SWITCH", "end", IdsOf(bs, {"switch"}))
    BY <1>4, OnStackIs, MatchedKept
  <2> QED
    BY <2>1, <1>4, OnStackIs DEF SameOnStack
<1>5. CASE name = "last"
  <2>1. \A k \in DOMAIN cs : k > Len(bs) /\ cs[k].kind \in {"init", "switch"} => cs[k].base = Len(s)
    BY <1>5 DEF SameOnStack
  <2>2. Segmented(c, s, bs, {"init", "switch"})
    BY <1>5, OnStackIs
  <2>3. Segmented(d, s, cs, {"init", "switch"})
    BY <2>1, <2>2, SegmentedOpen
  <2> QED
    BY <2>3, <1>5, OnStackIs
<1>6. CASE name = "next"
  <2>1. \A k \in DOMAIN cs : k > Len(bs) /\ cs[k].kind \in {"loop"} => cs[k].base = Len(s)
    BY <1>6 DEF SameOnStack
  <2>2. Segmented(c, s, bs, {"loop"})
    BY <1>6, OnStackIs
  <2>3. Segmented(d, s, cs, {"loop"})
    BY <2>1, <2>2, SegmentedOpen
  <2> QED
    BY <2>3, <1>6, OnStackIs
<1>7. CASE name = "catch"
  <2>1. Collected(c, s, IdsOf(bs, {"eval"})) /\ IdsOf(bs, {"eval"}) \subseteq IdsOf(cs, {"eval"})
    BY <1>7, OnStackIs DEF SameOnStack
  <2>2. Collected(d, s, IdsOf(cs, {"eval"}))
    BY <2>1, CollectedKept
  <2> QED
    BY <2>2, <1>7, OnStackIs
<1>8. CASE name \in {"return", "uncaught"}
  <2>1. Collected(c, s, {1})
    BY <1>8, OnStackIs
  <2>2. Collected(d, s, {1})
    BY <2>1, CollectedKept
  <2> QED
    BY <2>2, <1>8, OnStackIs
<1> QED
  BY <1>1, <1>2, <1>3, <1>4, <1>5, <1>6, <1>7, <1>8 DEF JumpStacks

(* A new jump to the end of an open block, on a stack of that block.       *)
WaitsOn(d, cs, q, i) ==
  \E k \in DOMAIN cs : d[i].want = <<cs[k].id, "end">>
                       /\ \E s \in StacksOf[cs[k].kind] : i \in Entries(q[s])

LEMMA NewWaits ==
  ASSUME NEW d, NEW cs \in Seq(BlockRecords), NEW q, NEW r \in Seq([Places -> Nat]),
         Nested(cs, Len(r)), NEW i, WaitsOn(d, cs, q, i)
  PROVE  Settled(d, cs, q, r, i) /\ d[i].want[2] = "end" /\ d[i].want[1] \in Open(cs)
         /\ d[i].want[1] \in DOMAIN r
<1>1. PICK k \in DOMAIN cs : d[i].want = <<cs[k].id, "end">>
                             /\ \E s \in StacksOf[cs[k].kind] : i \in Entries(q[s])
  BY DEF WaitsOn
<1>2. d[i].want[1] = cs[k].id /\ d[i].want[2] = "end"
  BY <1>1
<1>3. cs[k].id \in Open(cs) /\ cs[k].id \in DOMAIN r
  BY DEF Open, Nested, BlockOK
<1>4. \A l \in DOMAIN cs : cs[l].id = cs[k].id => l = k
  <2>1. Len(r) \in Nat
    OBVIOUS
  <2> QED
    BY <2>1, IdsAreOpen
<1>5. Aims(d, cs, q, r, i)
  BY <1>2, <1>3 DEF Aims
<1>6. EndSettled(d, cs, q, r, i)
  BY <1>1, <1>2, <1>3, <1>4 DEF EndSettled
<1>7. CondSettled(d, cs, q, r, i) /\ BodySettled(d, cs, r, i)
  BY <1>2 DEF CondSettled, BodySettled
<1> QED
  BY <1>2, <1>3, <1>5, <1>6, <1>7 DEF Settled

(* What a step that closes no block must show.                             *)
Grown(c, d, bs, cs, p, q, m, r) ==
  /\ Typed(d, cs, q, r) /\ Extends(c, d)
  /\ GoesOn(bs, cs, p, q, m, r)
  /\ Nested(cs, Len(r)) /\ OneEval(cs, q["eval"]) /\ Waiting(d, cs, q, Len(r))
  /\ BodiesMarked(d, cs, q["first"], r)
  /\ \A i \in DOMAIN c : c[i].want # Nowhere =>
       /\ \/ d[i].to = c[i].to
          \/ c[i].op = "SWITCH" /\ c[i].want[2] = "end"
          \/ c[i].want[2] = "cond"
       /\ c[i].want[2] = "cond" => CondSettled(d, cs, q, r, i)
  /\ \A i \in DOMAIN c :
       (d[i].to = c[i].to /\ d[i].cases = c[i].cases) \/ Ranged(d, cs, r, i)
  /\ \A i \in DOMAIN d : i > Len(c) =>
       /\ Open(bs) \subseteq d[i].scope
       /\ d[i].want # Nowhere => Settled(d, cs, q, r, i)
       /\ Ranged(d, cs, r, i)

LEMMA GrowStep ==
  ASSUME NEW c, NEW d, NEW bs, NEW cs, NEW p, NEW q, NEW m, NEW r,
         BuilderOK(c, bs, p, m), Grown(c, d, bs, cs, p, q, m, r)
  PROVE  BuilderOK(d, cs, q, r)
<1>1. /\ c \in Seq(OpRecords) /\ d \in Seq(OpRecords) /\ Extends(c, d)
      /\ bs \in Seq(BlockRecords) /\ cs \in Seq(BlockRecords)
      /\ m \in Seq([Places -> Nat]) /\ r \in Seq([Places -> Nat])
      /\ GoesOn(bs, cs, p, q, m, r)
  BY DEF BuilderOK, Typed, Grown
<1>2. \A i \in DOMAIN d : i \in DOMAIN c \/ i > Len(c)
  BY <1>1
<1>3. \A i \in DOMAIN c : d[i].want = c[i].want /\ d[i].op = c[i].op
  BY <1>1 DEF Extends
<1>4. ASSUME NEW i \in DOMAIN d, d[i].want # Nowhere PROVE Settled(d, cs, q, r, i)
  <2>1. CASE i \in DOMAIN c
    <3>1. Settled(c, bs, p, m, i) /\ c[i].want # Nowhere
      BY <2>1, <1>3, <1>4 DEF BuilderOK, Landing
    <3>2. /\ \/ d[i].to = c[i].to
             \/ c[i].op = "SWITCH" /\ c[i].want[2] = "end"
             \/ c[i].want[2] = "cond"
          /\ c[i].want[2] = "cond" => CondSettled(d, cs, q, r, i)
      BY <2>1, <3>1 DEF Grown
    <3> QED
      BY <2>1, <3>1, <3>2, <1>1, SettledStays
  <2>2. CASE i > Len(c)
    BY <2>2, <1>4 DEF Grown
  <2> QED
    BY <2>1, <2>2, <1>2
<1>5. Widened(c, d, bs, cs, m, r)
  <2>1. /\ Len(bs) <= Len(cs) /\ SameBlocks(bs, cs, Len(bs)) /\ Len(m) <= Len(r)
        /\ \A b \in DOMAIN m : r[b]["end"] = m[b]["end"]
        /\ \A k \in DOMAIN cs : k > Len(bs) => cs[k].id = Len(m) + 1
    BY <1>1 DEF GoesOn
  <2>2. ASSUME NEW b \in DOMAIN m, b \in Open(cs) PROVE b \in Open(bs)
    <3>1. PICK k \in DOMAIN cs : b = cs[k].id
      BY <2>2 DEF Open
    <3>2. k \in 1 .. Len(bs) /\ k \in DOMAIN bs
      <4>1. b # Len(m) + 1
        BY <1>1
      <4>2. ~ (k > Len(bs))
        BY <4>1, <3>1, <2>1
      <4> QED
        BY <4>2, <1>1
    <3>3. b = bs[k].id
      BY <3>1, <3>2, <2>1 DEF SameBlocks
    <3> QED
      BY <3>2, <3>3 DEF Open
  <2>3. ASSUME NEW b \in Open(bs) PROVE b \in Open(cs)
    <3>1. PICK k \in DOMAIN bs : b = bs[k].id
      BY DEF Open
    <3>2. k \in 1 .. Len(bs) /\ k \in DOMAIN cs
      BY <2>1, <1>1
    <3>3. b = cs[k].id
      BY <3>1, <3>2, <2>1 DEF SameBlocks
    <3> QED
      BY <3>2, <3>3 DEF Open
  <2>4. \A i \in DOMAIN d : i > Len(c) => Open(bs) \subseteq d[i].scope
    BY DEF Grown
  <2> QED
    BY <2>1, <2>2, <2>3, <2>4 DEF Widened
<1>6. ASSUME NEW i \in DOMAIN d PROVE Ranged(d, cs, r, i)
  <2>1. CASE i \in DOMAIN c
    <3>1. Ranged(c, bs, m, i)
      BY <2>1 DEF BuilderOK, Landing
    <3>2. (d[i].to = c[i].to /\ d[i].cases = c[i].cases) \/ Ranged(d, cs, r, i)
      BY <2>1 DEF Grown
    <3> QED
      BY <2>1, <3>1, <3>2, <1>1, <1>5, RangedStays
  <2>2. CASE i > Len(c)
    BY <2>2 DEF Grown
  <2> QED
    BY <2>1, <2>2, <1>2
<1>7. Typed(d, cs, q, r) /\ Nested(cs, Len(r)) /\ OneEval(cs, q["eval"]) /\ Waiting(d, cs, q, Len(r))
      /\ BodiesMarked(d, cs, q["first"], r)
  BY DEF Grown
<1> QED
  BY <1>4, <1>6, <1>7 DEF BuilderOK, Landing

(* What a block may do next without a jump of it landing.                  *)
TopGoes(b, b2) ==
  /\ MayBe(b2)
  /\ Entered(b2) <=> Entered(b)
  /\ b.phase = "done" => b2.phase = "done"
  /\ b.phase \notin {"init", "incr"} => b2.phase \notin {"init", "incr"}
  /\ b.phase = "incr" => b2.phase = "incr"

NewOp(d, bs, cs, q, i) ==
  /\ Open(bs) \subseteq d[i].scope
  /\ d[i].cases = {} /\ d[i].to = 0
  /\ (d[i].want = Nowhere /\ d[i].op # "SWITCH") \/ WaitsOn(d, cs, q, i)

(* No block is opened.                                                     *)
Stays(bs, cs, p, q, m, r) ==
  /\ Len(cs) = Len(bs) /\ r = m
  /\ ~ ElseNext(bs)
  /\ q["eval"] = p["eval"]

(* A block other than the body of a loop is opened.                        *)
Opens(d, bs, cs, p, q, m, r) ==
  LET b == cs[Len(cs)] IN
  /\ Len(cs) = Len(bs) + 1 /\ r = Append(m, Unmarked)
  /\ b.id = Len(m) + 1 /\ b.kind \notin {"sub", "loop"} /\ MayBe(b) /\ ~ Entered(b)
  /\ b.kind = "if" <=> cs[Len(bs)].phase \in ElsePhases
  /\ b.kind = "else" <=> ElseNext(bs)
  /\ b.kind \in {"init", "switch"} => b.base = Len(p["last"])
  /\ b.kind = "if" => OnStack("if", d, q["if"], cs, Len(m) + 1)
  /\ b.kind = "switch" => OnStack("switch", d, q["switch"], cs, Len(m) + 1)
  /\ b.kind # "eval" => q["eval"] = p["eval"]
  /\ b.kind = "eval" => OneEval(cs, q["eval"])

Ordinary(c, d, bs, cs, p, q, m, r) ==
  /\ d \in Seq(OpRecords) /\ cs \in Seq(BlockRecords) /\ q \in [Stacks -> Seq(Nat)]
  /\ bs # <<>> /\ ~ ElseNext(cs)
  /\ Len(c) <= Len(d) /\ \A i \in DOMAIN c : d[i] = c[i]
  /\ \A i \in DOMAIN d : i > Len(c) => NewOp(d, bs, cs, q, i)
  /\ SameBlocks(bs, cs, Len(bs)) /\ SamePhases(bs, cs, Len(bs) - 1)
  /\ TopGoes(bs[Len(bs)], cs[Len(bs)])
  /\ q["first"] = p["first"]
  /\ \A s \in JumpStacks : Entries(p[s]) \subseteq Entries(q[s])
  /\ \A s \in JumpStacks : q[s] = p[s] \/ OnStack(s, d, q[s], cs, Len(r))
  /\ Stays(bs, cs, p, q, m, r) \/ Opens(d, bs, cs, p, q, m, r)

LEMMA NewRanged ==
  ASSUME NEW d, NEW bs, NEW cs \in Seq(BlockRecords), NEW q, NEW r \in Seq([Places -> Nat]),
         Nested(cs, Len(r)), NEW i, NewOp(d, bs, cs, q, i)
  PROVE  Ranged(d, cs, r, i) /\ (d[i].want # Nowhere => Settled(d, cs, q, r, i))
         /\ Open(bs) \subseteq d[i].scope
<1>1. CASE WaitsOn(d, cs, q, i)
  <2>1. Settled(d, cs, q, r, i) /\ d[i].want[2] = "end" /\ d[i].want[1] \in Open(cs)
        /\ d[i].want[1] \in DOMAIN r
    BY <1>1, NewWaits
  <2>2. Targets(d[i]) = {}
    BY DEF NewOp, Targets
  <2> QED
    BY <2>1, <2>2 DEF NewOp, Ranged
<1>2. CASE d[i].want = Nowhere /\ d[i].op # "SWITCH"
  BY <1>2 DEF NewOp, Ranged
<1> QED
  BY <1>1, <1>2 DEF NewOp

LEMMA OrdinaryStep ==
  ASSUME NEW c, NEW d, NEW bs, NEW cs, NEW p, NEW q, NEW m, NEW r,
         BuilderOK(c, bs, p, m), Ordinary(c, d, bs, cs, p, q, m, r)
  PROVE  BuilderOK(d, cs, q, r)
<1>1. /\ c \in Seq(OpRecords) /\ d \in Seq(OpRecords)
      /\ bs \in Seq(BlockRecords) /\ cs \in Seq(BlockRecords) /\ Nested(bs, Len(m))
      /\ p \in [Stacks -> Seq(Nat)] /\ q \in [Stacks -> Seq(Nat)]
      /\ m \in Seq([Places -> Nat])
  BY DEF BuilderOK, Typed, Ordinary
<1>2. /\ bs # <<>> /\ ~ ElseNext(cs)
      /\ SameBlocks(bs, cs, Len(bs)) /\ SamePhases(bs, cs, Len(bs) - 1)
      /\ TopGoes(bs[Len(bs)], cs[Len(bs)])
      /\ q["first"] = p["first"]
      /\ \A s \in JumpStacks : Entries(p[s]) \subseteq Entries(q[s])
      /\ \A s \in JumpStacks : q[s] = p[s] \/ OnStack(s, d, q[s], cs, Len(r))
  BY DEF Ordinary
<1>3. Extends(c, d)
  <2>1. Len(c) <= Len(d) /\ \A i \in DOMAIN c : d[i] = c[i]
    BY DEF Ordinary
  <2> QED
    BY <2>1 DEF Extends
<1>4. Stays(bs, cs, p, q, m, r) \/ Opens(d, bs, cs, p, q, m, r)
  BY DEF Ordinary
<1>5. /\ Len(bs) > 0 /\ Len(bs) \in Nat /\ Len(bs) \in DOMAIN bs /\ DOMAIN bs = 1 .. Len(bs)
      /\ DOMAIN cs = 1 .. Len(cs) /\ Len(cs) \in Nat /\ Len(m) \in Nat
  BY <1>1, <1>2
<1>n. Len(bs) \in Nat /\ Len(cs) \in Nat
  BY <1>1
<1>s. Stays(bs, cs, p, q, m, r) => Len(cs) = Len(bs) /\ r = m
  BY DEF Stays
<1>o. Opens(d, bs, cs, p, q, m, r) => Len(cs) = Len(bs) + 1 /\ r = Append(m, Unmarked)
  BY DEF Opens
<1>6. /\ Len(bs) <= Len(cs) /\ Len(cs) <= Len(bs) + 1
      /\ \A k \in DOMAIN cs : k > Len(bs) => k = Len(cs) /\ Opens(d, bs, cs, p, q, m, r)
  <2>1. Len(cs) = Len(bs) \/ Len(cs) = Len(bs) + 1
    BY <1>4, <1>s, <1>o, Zenon
  <2>2. ASSUME NEW k \in DOMAIN cs, k > Len(bs)
        PROVE  k = Len(cs) /\ Len(cs) # Len(bs)
    <3>1. k \in 1 .. Len(cs)
      BY <1>1
    <3> QED
      BY <2>1, <2>2, <3>1, <1>n
  <2>3. Len(cs) # Len(bs) => Opens(d, bs, cs, p, q, m, r)
    BY <1>4, <1>s, Zenon
  <2>4. Len(bs) <= Len(cs) /\ Len(cs) <= Len(bs) + 1
    BY <2>1, <1>n
  <2> QED
    BY <2>2, <2>3, <2>4, Zenon
<1>x. ~ (Stays(bs, cs, p, q, m, r) /\ Opens(d, bs, cs, p, q, m, r))
  <2>1. Len(bs) + 1 # Len(bs)
    BY <1>n
  <2> QED
    BY <2>1, <1>s, <1>o, Zenon
<1>7. /\ r \in Seq([Places -> Nat]) /\ Len(m) <= Len(r)
      /\ \A b \in DOMAIN m : r[b] = m[b]
      /\ Opens(d, bs, cs, p, q, m, r) => Len(r) = Len(m) + 1
      /\ Stays(bs, cs, p, q, m, r) => r = m
  <2>1. Unmarked \in [Places -> Nat]
    BY DEF Unmarked
  <2>2. CASE Stays(bs, cs, p, q, m, r)
    <3>1. Len(cs) = Len(bs) /\ r = m
      BY <2>2, <1>s
    <3>2. ~ Opens(d, bs, cs, p, q, m, r)
      BY <2>2, <1>x, Zenon
    <3> QED
      BY <3>1, <3>2, <1>1, <1>5
  <2>3. CASE Opens(d, bs, cs, p, q, m, r)
    <3>1. Len(cs) = Len(bs) + 1 /\ r = Append(m, Unmarked)
      BY <2>3, <1>o
    <3>2. ~ Stays(bs, cs, p, q, m, r)
      BY <2>3, <1>x, Zenon
    <3>3. r \in Seq([Places -> Nat]) /\ Len(r) = Len(m) + 1 /\ \A b \in 1 .. Len(m) : r[b] = m[b]
      BY <3>1, <2>1, <1>1
    <3>4. Len(m) <= Len(r) /\ DOMAIN m = 1 .. Len(m)
      BY <3>3, <1>1, <1>5
    <3> QED
      BY <3>2, <3>3, <3>4
  <2> QED
    BY <2>2, <2>3, <1>4
<1>8. ASSUME NEW k \in DOMAIN bs
      PROVE  /\ Entered(cs[k]) <=> Entered(bs[k])
             /\ bs[k].phase = "done" => cs[k].phase = "done"
             /\ bs[k].phase \notin {"init", "incr"} => cs[k].phase \notin {"init", "incr"}
             /\ bs[k].phase = "incr" => cs[k].phase = "incr"
  <2>1. CASE k = Len(bs)
    BY <2>1, <1>2 DEF TopGoes
  <2>2. CASE k # Len(bs)
    <3>1. k \in 1 .. Len(bs) - 1 /\ k \in 1 .. Len(bs)
      BY <2>2, <1>5
    <3>2. cs[k].phase = bs[k].phase /\ cs[k].kind = bs[k].kind
      BY <3>1, <1>2 DEF SameBlocks, SamePhases
    <3> QED
      BY <3>2 DEF Entered
  <2> QED
    BY <2>1, <2>2
<1>9. \A k \in DOMAIN cs : k > Len(bs) => ~ Entered(cs[k])
  BY <1>6 DEF Opens
<1>10. LoopIds(cs) = LoopIds(bs)
  BY <1>1, <1>2, <1>6, <1>8, <1>9, LoopsSame
<1>11. GoesOn(bs, cs, p, q, m, r)
  <2>1. \A b \in DOMAIN m : r[b]["end"] = m[b]["end"] /\ r[b]["body"] = m[b]["body"]
    BY <1>7
  <2>2. \A k \in DOMAIN cs : k > Len(bs) => cs[k].id = Len(m) + 1 /\ (ElseNext(bs) => cs[k].kind = "else")
    BY <1>6 DEF Opens
  <2>3. ElseNext(bs) => Len(cs) > Len(bs) /\ Len(r) > Len(m)
    <3>1. SUFFICES ASSUME ElseNext(bs) PROVE Len(cs) > Len(bs) /\ Len(r) > Len(m)
      OBVIOUS
    <3>2. Opens(d, bs, cs, p, q, m, r)
      BY <3>1, <1>4 DEF Stays
    <3>3. Len(cs) = Len(bs) + 1 /\ Len(r) = Len(m) + 1
      BY <3>2, <1>7 DEF Opens
    <3> QED
      BY <3>3, <1>5
  <2>4. \A s \in JumpStacks \ {"first"} : Entries(p[s]) \subseteq Entries(q[s])
    BY <1>2
  <2> QED
    BY <2>1, <2>2, <2>3, <2>4, <1>1, <1>2, <1>6, <1>7, <1>8 DEF GoesOn
<1>12. Nested(cs, Len(r))
  <2>1. MayBe(cs[Len(bs)])
    BY <1>2 DEF TopGoes
  <2>2. CASE Stays(bs, cs, p, q, m, r)
    <3>1. Len(cs) = Len(bs) /\ r = m
      BY <2>2 DEF Stays
    <3> QED
      BY <3>1, <2>1, <1>1, <1>2, <1>5, NestedStays
  <2>3. CASE Opens(d, bs, cs, p, q, m, r)
    <3>1. /\ Len(cs) = Len(bs) + 1 /\ Len(r) = Len(m) + 1
          /\ cs[Len(cs)].id = Len(m) + 1 /\ cs[Len(cs)].kind \notin {"sub", "loop"}
          /\ MayBe(cs[Len(cs)])
          /\ cs[Len(cs)].kind = "if" <=> cs[Len(bs)].phase \in ElsePhases
      BY <2>3, <1>7 DEF Opens
    <3>2. Nested(cs, Len(m) + 1)
      BY <3>1, <2>1, <1>1, <1>2, <1>5, NestedOpened
    <3> QED
      BY <3>1, <3>2
  <2> QED
    BY <2>2, <2>3, <1>4
<1>13. ASSUME NEW kinds
       PROVE  /\ Stays(bs, cs, p, q, m, r) => IdsOf(cs, kinds) = IdsOf(bs, kinds)
              /\ Opens(d, bs, cs, p, q, m, r) /\ cs[Len(cs)].kind \notin kinds => IdsOf(cs, kinds) = IdsOf(bs, kinds)
              /\ Opens(d, bs, cs, p, q, m, r) /\ cs[Len(cs)].kind \in kinds =>
                   IdsOf(cs, kinds) = IdsOf(bs, kinds) \cup {Len(m) + 1}
  <2>1. CASE Stays(bs, cs, p, q, m, r)
    <3>1. Len(cs) = Len(bs) /\ ~ Opens(d, bs, cs, p, q, m, r)
      BY <2>1, <1>s, <1>x, Zenon
    <3>2. IdsOf(cs, kinds) = IdsOf(bs, kinds)
      BY <3>1, <1>1, <1>2, IdsSame
    <3> QED
      BY <3>1, <3>2
  <2>2. CASE Opens(d, bs, cs, p, q, m, r)
    <3>1. Len(cs) = Len(bs) + 1 /\ ~ Stays(bs, cs, p, q, m, r)
      BY <2>2, <1>o, <1>x, Zenon
    <3>2. /\ cs[Len(cs)].kind \in kinds => IdsOf(cs, kinds) = IdsOf(bs, kinds) \cup {cs[Len(cs)].id}
          /\ cs[Len(cs)].kind \notin kinds => IdsOf(cs, kinds) = IdsOf(bs, kinds)
      BY <3>1, <1>1, <1>2, IdsOpened
    <3>3. cs[Len(cs)].id = Len(m) + 1
      BY <2>2 DEF Opens
    <3> QED
      BY <3>1, <3>2, <3>3
  <2> QED
    BY <2>1, <2>2, <1>4
<1>14. OneEval(cs, q["eval"])
  <2>1. OneEval(bs, p["eval"])
    BY DEF BuilderOK
  <2>2. CASE q["eval"] = p["eval"] /\ IdsOf(cs, {"eval"}) = IdsOf(bs, {"eval"})
    BY <2>1, <2>2 DEF OneEval
  <2>3. CASE Stays(bs, cs, p, q, m, r)
    BY <2>2, <2>3, <1>13 DEF Stays
  <2>4. CASE Opens(d, bs, cs, p, q, m, r) /\ cs[Len(cs)].kind # "eval"
    <3>1. q["eval"] = p["eval"]
      BY <2>4 DEF Opens
    <3> QED
      BY <2>2, <2>4, <3>1, <1>13
  <2>5. CASE Opens(d, bs, cs, p, q, m, r) /\ cs[Len(cs)].kind = "eval"
    BY <2>5 DEF Opens
  <2> QED
    BY <2>3, <2>4, <2>5, <1>4
<1>15. Waiting(d, cs, q, Len(r))
  <2>1. SUFFICES ASSUME NEW s \in JumpStacks PROVE OnStack(s, d, q[s], cs, Len(r))
    BY WaitingIs
  <2>2. SUFFICES ASSUME q[s] = p[s], ~ OnStack(s, d, q[s], cs, Len(r)) PROVE FALSE
    BY <1>2
  <2>3. OnStack(s, c, p[s], bs, Len(m))
    BY WaitingIs DEF BuilderOK
  <2>4. p[s] \in Seq(Nat)
    BY <1>1, PendTyped DEF JumpStacks
  <2>5. s = "if" => IdsOf(cs, {"if"}) = IdsOf(bs, {"if"})
    <3>1. Opens(d, bs, cs, p, q, m, r) /\ cs[Len(cs)].kind = "if" => s # "if"
      BY <2>2, <1>7 DEF Opens
    <3> QED
      BY <3>1, <1>4, <1>13
  <2>6. s = "switch" => IdsOf(cs, {"switch"}) = IdsOf(bs, {"switch"})
    <3>1. Opens(d, bs, cs, p, q, m, r) /\ cs[Len(cs)].kind = "switch" => s # "switch"
      BY <2>2, <1>7 DEF Opens
    <3> QED
      BY <3>1, <1>4, <1>13
  <2>7. IdsOf(bs, {"eval"}) \subseteq IdsOf(cs, {"eval"})
    BY <1>4, <1>13
  <2>8. ElseIds(cs, Len(r)) = ElseIds(bs, Len(m))
    <3>1. ElseIds(cs, Len(r)) = IdsOf(cs, {"else"})
      BY <1>2 DEF ElseIds
    <3>2. CASE Stays(bs, cs, p, q, m, r)
      <4>1. ~ ElseNext(bs)
        BY <3>2 DEF Stays
      <4>2. IdsOf(cs, {"else"}) = IdsOf(bs, {"else"})
        BY <3>2, <1>13
      <4> QED
        BY <3>1, <4>1, <4>2 DEF ElseIds
    <3>3. CASE Opens(d, bs, cs, p, q, m, r)
      <4>1. cs[Len(cs)].kind = "else" <=> ElseNext(bs)
        BY <3>3 DEF Opens
      <4>2. IdsOf(cs, {"else"}) = IF ElseNext(bs) THEN IdsOf(bs, {"else"}) \cup {Len(m) + 1} ELSE IdsOf(bs, {"else"})
        BY <3>3, <4>1, <1>13
      <4> QED
        BY <3>1, <4>2 DEF ElseIds
    <3> QED
      BY <3>2, <3>3, <1>4
  <2>9. /\ s = "last" => \A k \in DOMAIN cs : k > Len(bs) /\ cs[k].kind \in {"init", "switch"} => cs[k].base = Len(p[s])
        /\ s = "next" => \A k \in DOMAIN cs : k > Len(bs) /\ cs[k].kind \in {"loop"} => cs[k].base = Len(p[s])
    <3>1. ASSUME NEW k \in DOMAIN cs, k > Len(bs)
          PROVE  /\ cs[k].kind \in {"init", "switch"} => cs[k].base = Len(p["last"])
                 /\ cs[k].kind # "loop"
      BY <3>1, <1>6 DEF Opens
    <3> QED
      BY <3>1
  <2>10. SameOnStack(s, p[s], bs, cs, Len(m), Len(r))
    BY <2>5, <2>6, <2>7, <2>8, <2>9, <1>10 DEF SameOnStack
  <2>11. OnStack(s, d, p[s], cs, Len(r))
    BY <2>3, <2>4, <2>10, <1>1, <1>2, <1>3, <1>6, StackKept
  <2> QED
    BY <2>2, <2>11
<1>16. BodiesMarked(d, cs, q["first"], r)
  <2>1. \A j \in DOMAIN p["first"] : p["first"][j] \in DOMAIN c
    BY DEF BuilderOK, Waiting, Matched
  <2>2. \A j \in DOMAIN q["first"] : j \in DOMAIN p["first"] /\ q["first"][j] = p["first"][j]
    BY <1>2
  <2>3. ASSUME NEW k \in DOMAIN cs, Entered(cs[k])
        PROVE  k \in DOMAIN bs /\ Entered(bs[k]) /\ cs[k].id = bs[k].id
               /\ r[bs[k].id]["body"] = m[bs[k].id]["body"]
    <3>1. k \in DOMAIN bs
      BY <2>3, <1>5, <1>9
    <3>2. cs[k].id = bs[k].id /\ bs[k].id \in DOMAIN m
      BY <3>1, <1>1, <1>2, <1>5 DEF SameBlocks, Nested, BlockOK
    <3> QED
      BY <3>1, <3>2, <2>3, <1>7, <1>8
  <2>4. BodiesMarked(c, bs, p["first"], m)
    BY DEF BuilderOK, Landing
  <2>5. c \in Seq(OpRecords) /\ d \in Seq(OpRecords)
    BY <1>1
  <2> QED
    BY <2>1, <2>2, <2>3, <2>4, <2>5, <1>3, BodiesStay
<1>17. \A i \in DOMAIN c : d[i].to = c[i].to /\ d[i].cases = c[i].cases
  <2>1. \A i \in DOMAIN c : d[i] = c[i]
    BY DEF Ordinary
  <2> QED
    BY <2>1
<1>18. ASSUME NEW i \in DOMAIN c, c[i].want # Nowhere PROVE CondSettled(d, cs, q, r, i)
  <2>1. Settled(c, bs, p, m, i)
    BY <1>18 DEF BuilderOK, Landing
  <2>2. Entries(p["first"]) \subseteq Entries(q["first"]) /\ d[i].to = c[i].to
    BY <1>2, <1>17
  <2>3. \A b \in DOMAIN m : r[b]["cond"] = m[b]["cond"]
    BY <1>7
  <2> QED
    BY <2>1, <2>2, <2>3, <1>1, <1>3, <1>7, <1>8, <1>11, CondStays
<1>19. ASSUME NEW i \in DOMAIN d, i > Len(c)
       PROVE  /\ Open(bs) \subseteq d[i].scope
              /\ d[i].want # Nowhere => Settled(d, cs, q, r, i)
              /\ Ranged(d, cs, r, i)
  <2>1. NewOp(d, bs, cs, q, i)
    BY <1>19 DEF Ordinary
  <2> QED
    BY <2>1, <1>1, <1>7, <1>12, NewRanged
<1>20. Grown(c, d, bs, cs, p, q, m, r)
  <2>1. Typed(d, cs, q, r)
    BY <1>1, <1>7 DEF Typed
  <2> QED
    BY <2>1, <1>3, <1>11, <1>12, <1>14, <1>15, <1>16, <1>17, <1>18, <1>19 DEF Grown
<1> QED
  BY <1>20, GrowStep

-----------------------------------------------------------------------------
(* What the builder's operators do.                                        *)

LEMMA InvTyped ==
  ASSUME JumpInv, blocks # <<>>
  PROVE  /\ code \in Seq(OpRecords) /\ blocks \in Seq(BlockRecords) /\ pend \in [Stacks -> Seq(Nat)]
         /\ marks \in Seq([Places -> Nat]) /\ Len(marks) \in Nat /\ mortal \in Nat
         /\ Nested(blocks, Len(marks)) /\ OneEval(blocks, pend["eval"])
         /\ Waiting(code, blocks, pend, Len(marks))
         /\ Len(blocks) \in DOMAIN blocks /\ Len(blocks) > 0 /\ Top = blocks[Len(blocks)]
         /\ Top \in BlockRecords /\ Top.id \in 1 .. Len(marks) /\ Top.id \in Open(blocks)
         /\ \A b \in Open(blocks) : b \in Nat /\ b <= Top.id
         /\ MayBe(Top) /\ Top.kind \in BlockKinds /\ Top.phase \in BlockPhases
<1>1. /\ code \in Seq(OpRecords) /\ blocks \in Seq(BlockRecords) /\ pend \in [Stacks -> Seq(Nat)]
      /\ marks \in Seq([Places -> Nat]) /\ mortal \in Nat
      /\ Nested(blocks, Len(marks)) /\ OneEval(blocks, pend["eval"])
      /\ Waiting(code, blocks, pend, Len(marks))
  BY DEF JumpInv, BuilderOK, Typed
<1>2. Len(marks) \in Nat
  BY <1>1
<1>3. LET top == blocks[Len(blocks)] IN
      /\ Len(blocks) \in DOMAIN blocks /\ top \in BlockRecords /\ Last(blocks) = top
      /\ top.id \in 1 .. Len(marks) /\ top.id \in Open(blocks)
      /\ \A b \in Open(blocks) : b \in Nat /\ b <= top.id
  BY <1>1, <1>2, TopIsLast
<1>4. Len(blocks) > 0
  BY <1>1
<1>5. MayBe(blocks[Len(blocks)])
  BY <1>1, <1>3 DEF Nested, BlockOK, MayBe
<1>6. blocks[Len(blocks)].kind \in BlockKinds /\ blocks[Len(blocks)].phase \in BlockPhases
  BY <1>1, <1>3, BaseTyped
<1> QED
  BY <1>1, <1>2, <1>3, <1>4, <1>5, <1>6 DEF Top

LEMMA OpIs ==
  ASSUME JumpInv, NEW name \in OpNames, NEW v \in Nat, NEW w \in Nat \X Places
  PROVE  /\ Op(name, v, w) \in OpRecords
         /\ Op(name, v, w).op = name /\ Op(name, v, w).to = 0 /\ Op(name, v, w).cases = {}
         /\ Op(name, v, w).want = w /\ Op(name, v, w).scope = Open(blocks)
<1>1. blocks \in Seq(BlockRecords)
  BY DEF JumpInv, BuilderOK, Typed
<1>2. \A k \in DOMAIN blocks : blocks[k].id \in Nat
  BY <1>1, BaseTyped
<1>3. Open(blocks) \subseteq Nat
  BY <1>2 DEF Open
<1>4. Op(name, v, w) = [op |-> name, var |-> v, to |-> 0, cases |-> {}, want |-> w, scope |-> Open(blocks)]
  BY DEF Op, Open
<1> HIDE DEF OpRecords
<1>5. [op |-> name, var |-> v, to |-> 0, cases |-> {}, want |-> w, scope |-> Open(blocks)] \in OpRecords
  BY <1>3 DEF OpRecords
<1> QED
  BY <1>4, <1>5

LEMMA Emitted ==
  ASSUME NEW c \in Seq(OpRecords), NEW o \in OpRecords
  PROVE  /\ Append(c, o) \in Seq(OpRecords) /\ Len(Append(c, o)) = Len(c) + 1
         /\ Append(c, o)[Len(c) + 1] = o /\ Len(c) + 1 \in DOMAIN Append(c, o) /\ Len(c) + 1 \in Nat
         /\ \A i \in DOMAIN c : Append(c, o)[i] = c[i]
         /\ \A i \in DOMAIN Append(c, o) : i > Len(c) => i = Len(c) + 1
         /\ Len(c) <= Len(Append(c, o)) /\ Extends(c, Append(c, o))
<1>1. /\ Append(c, o) \in Seq(OpRecords) /\ Len(Append(c, o)) = Len(c) + 1
      /\ Append(c, o)[Len(c) + 1] = o /\ Len(c) + 1 \in DOMAIN Append(c, o) /\ Len(c) + 1 \in Nat
      /\ \A i \in DOMAIN c : Append(c, o)[i] = c[i]
  OBVIOUS
<1>2. \A i \in DOMAIN Append(c, o) : i > Len(c) => i = Len(c) + 1
  BY <1>1
<1>3. Len(c) <= Len(Append(c, o))
  BY <1>1
<1> QED
  BY <1>1, <1>2, <1>3 DEF Extends

(* The top block changes.                                                  *)
LEMMA TopSet ==
  ASSUME NEW bs \in Seq(BlockRecords), bs # <<>>, NEW b \in BlockRecords,
         b.id = bs[Len(bs)].id, b.kind = bs[Len(bs)].kind, b.base = bs[Len(bs)].base
  PROVE  LET cs == [bs EXCEPT ![Len(bs)] = b] IN
         /\ cs \in Seq(BlockRecords) /\ Len(cs) = Len(bs) /\ cs[Len(bs)] = b
         /\ SameBlocks(bs, cs, Len(bs)) /\ SamePhases(bs, cs, Len(bs) - 1)
<1> DEFINE cs == [bs EXCEPT ![Len(bs)] = b]
<1>1. /\ cs \in Seq(BlockRecords) /\ Len(cs) = Len(bs) /\ cs[Len(bs)] = b
      /\ \A k \in DOMAIN bs : k # Len(bs) => cs[k] = bs[k]
      /\ DOMAIN bs = 1 .. Len(bs) /\ Len(bs) \in Nat
  OBVIOUS
<1>2. SameBlocks(bs, cs, Len(bs))
  BY <1>1 DEF SameBlocks
<1>3. SamePhases(bs, cs, Len(bs) - 1)
  <2>1. \A k \in 1 .. Len(bs) - 1 : k \in 1 .. Len(bs) /\ k # Len(bs)
    OBVIOUS
  <2>2. \A k \in 1 .. Len(bs) - 1 : cs[k] = bs[k]
    BY <2>1, <1>1
  <2> QED
    BY <2>2 DEF SamePhases
<1> QED
  BY <1>1, <1>2, <1>3

(* A block is put on the others.                                           *)
LEMMA BlockPushed ==
  ASSUME NEW bs \in Seq(BlockRecords), NEW ds \in Seq(BlockRecords), bs # <<>>, NEW b \in BlockRecords,
         Len(ds) = Len(bs), SameBlocks(bs, ds, Len(bs)), SamePhases(bs, ds, Len(bs) - 1)
  PROVE  LET cs == Append(ds, b) IN
         /\ cs \in Seq(BlockRecords) /\ Len(cs) = Len(bs) + 1 /\ cs[Len(bs)] = ds[Len(bs)]
         /\ cs[Len(cs)] = b /\ SameBlocks(bs, cs, Len(bs)) /\ SamePhases(bs, cs, Len(bs) - 1)
<1> DEFINE cs == Append(ds, b)
<1>1. /\ cs \in Seq(BlockRecords) /\ Len(cs) = Len(bs) + 1 /\ cs[Len(cs)] = b
      /\ \A k \in 1 .. Len(bs) : cs[k] = ds[k]
      /\ Len(bs) \in 1 .. Len(bs)
  OBVIOUS
<1>2. SameBlocks(bs, cs, Len(bs))
  BY <1>1 DEF SameBlocks
<1>3. SamePhases(bs, cs, Len(bs) - 1)
  <2>1. \A k \in 1 .. Len(bs) - 1 : k \in 1 .. Len(bs)
    OBVIOUS
  <2> QED
    BY <2>1, <1>1 DEF SamePhases
<1> QED
  BY <1>1, <1>2, <1>3

LEMMA NewBlockIs ==
  ASSUME JumpInv, blocks # <<>>, NEW kind \in BlockKinds, NEW phase \in BlockPhases, NEW base \in Nat
  PROVE  LET b == Block(kind, phase, base) IN
         /\ b \in BlockRecords
         /\ b.id = Len(marks) + 1 /\ b.kind = kind /\ b.phase = phase /\ b.base = base
<1>1. Len(marks) + 1 \in Nat /\ mortal \in Nat
  BY InvTyped
<1>2. "done" \in BlockPhases
  BY DEF BlockPhases
<1> QED
  BY <1>1, <1>2 DEF Block, NewBlock, BlockRecords

(* A jump is put on one of the stacks.                                     *)
LEMMA JumpPushed ==
  ASSUME NEW p \in [Stacks -> Seq(Nat)], NEW s \in Stacks, NEW x \in Nat
  PROVE  LET q == [p EXCEPT ![s] = Append(@, x)] IN
         /\ q \in [Stacks -> Seq(Nat)] /\ q[s] = Append(p[s], x) /\ x \in Entries(q[s])
         /\ p[s] \in Seq(Nat)
         /\ \A s2 \in Stacks : s2 # s => q[s2] = p[s2]
         /\ \A s2 \in JumpStacks : Entries(p[s2]) \subseteq Entries(q[s2])
<1> DEFINE q == [p EXCEPT ![s] = Append(@, x)]
<1>1. p[s] \in Seq(Nat) /\ Append(p[s], x) \in Seq(Nat)
  OBVIOUS
<1>2. q \in [Stacks -> Seq(Nat)] /\ q[s] = Append(p[s], x) /\ \A s2 \in Stacks : s2 # s => q[s2] = p[s2]
  BY <1>1
<1>3. Entries(q[s]) = Entries(p[s]) \cup {x}
  BY <1>1, <1>2, EntriesPushed
<1>4. JumpStacks \subseteq Stacks
  BY DEF JumpStacks, Stacks
<1>5. \A s2 \in JumpStacks : Entries(p[s2]) \subseteq Entries(q[s2])
  BY <1>2, <1>3, <1>4
<1> QED
  BY <1>1, <1>2, <1>3, <1>5

-----------------------------------------------------------------------------
(* Calls, declarations and jumps out of blocks.                            *)

(* The opcode x of d jumps to the end of the open block k, and goes on the *)
(* stack s of that block.                                                  *)
Leaves(d, x, k, s) ==
  /\ x \in DOMAIN d /\ k \in DOMAIN blocks
  /\ d[x].want = <<blocks[k].id, "end">> /\ d[x].op # "SWITCH"
  /\ \/ s = "catch" /\ blocks[k].kind = "eval"
     \/ s \in {"uncaught", "return"} /\ blocks[k].kind = "sub"
     \/ /\ s = "last" /\ blocks[k].kind \in {"init", "switch"} /\ d[x].op = "GOTO"
        /\ \A l \in DOMAIN blocks : blocks[l].kind \in {"init", "switch"} => l <= k
     \/ /\ s = "next" /\ blocks[k].kind \in {"loop"} /\ d[x].op = "GOTO"
        /\ \A l \in DOMAIN blocks : blocks[l].kind \in {"loop"} => l <= k

LEMMA LeavesOn ==
  ASSUME JumpInv, blocks # <<>>,
         NEW d \in Seq(OpRecords), Extends(code, d), NEW cs \in Seq(BlockRecords),
         Len(cs) = Len(blocks), SameBlocks(blocks, cs, Len(blocks)),
         NEW x, NEW k, NEW s, Leaves(d, x, k, s)
  PROVE  /\ OnStack(s, d, Append(pend[s], x), cs, Len(marks))
         /\ s \in Stacks /\ s \in JumpStacks /\ s # "eval" /\ s # "first"
         /\ s \in StacksOf[blocks[k].kind]
<1>1. /\ code \in Seq(OpRecords) /\ blocks \in Seq(BlockRecords) /\ pend \in [Stacks -> Seq(Nat)]
      /\ Waiting(code, blocks, pend, Len(marks)) /\ Nested(blocks, Len(marks)) /\ Len(marks) \in Nat
  BY InvTyped
<1>2. x \in DOMAIN d /\ k \in DOMAIN blocks /\ d[x].want = <<blocks[k].id, "end">> /\ d[x].op # "SWITCH"
  BY DEF Leaves
<1>3. s \in {"catch", "uncaught", "return", "last", "next"}
  BY DEF Leaves
<1>4. s \in Stacks /\ s \in JumpStacks /\ s # "eval" /\ s # "first"
  BY <1>3 DEF Stacks, JumpStacks
<1>5. s \in StacksOf[blocks[k].kind]
  BY DEF Leaves, StacksOf
<1>6. pend["catch"] \in Seq(Nat) /\ pend["uncaught"] \in Seq(Nat) /\ pend["return"] \in Seq(Nat)
      /\ pend["last"] \in Seq(Nat) /\ pend["next"] \in Seq(Nat)
  BY <1>1, PendTyped
<1>7. CASE s = "catch"
  <2>1. Collected(code, pend["catch"], IdsOf(blocks, {"eval"}))
    BY <1>1 DEF Waiting
  <2>2. blocks[k].id \in IdsOf(blocks, {"eval"})
    BY <1>7, <1>2 DEF Leaves, IdsOf
  <2>3. Collected(d, Append(pend["catch"], x), IdsOf(blocks, {"eval"}))
    BY <2>1, <2>2, <1>1, <1>2, <1>6, CollectedPush
  <2>4. IdsOf(cs, {"eval"}) = IdsOf(blocks, {"eval"})
    BY <1>1, IdsSame
  <2> QED
    BY <2>3, <2>4, <1>4, <1>5, <1>7, OnStackIs
<1>8. CASE s \in {"uncaught", "return"}
  <2>1. Collected(code, pend["uncaught"], {1}) /\ Collected(code, pend["return"], {1})
    BY <1>1 DEF Waiting
  <2>2. blocks[k].id \in {1}
    BY <1>8, <1>1, <1>2 DEF Leaves, Nested, BlockOK
  <2>3. Collected(d, Append(pend["uncaught"], x), {1})
    BY <2>1, <2>2, <1>1, <1>2, <1>6, CollectedPush
  <2>4. Collected(d, Append(pend["return"], x), {1})
    BY <2>1, <2>2, <1>1, <1>2, <1>6, CollectedPush
  <2> QED
    BY <2>3, <2>4, <1>4, <1>5, <1>8, OnStackIs
<1>9. CASE s = "last"
  <2>1. Segmented(code, pend["last"], blocks, {"init", "switch"})
    BY <1>1 DEF Waiting
  <2>2. blocks[k].kind \in {"init", "switch"} /\ d[x].op = "GOTO"
        /\ \A l \in DOMAIN blocks : blocks[l].kind \in {"init", "switch"} => l <= k
    BY <1>9 DEF Leaves
  <2>3. Segmented(d, Append(pend["last"], x), cs, {"init", "switch"})
    BY <2>1, <2>2, <1>1, <1>2, <1>6, SegmentedPush
  <2> QED
    BY <2>3, <1>4, <1>5, <1>9, OnStackIs
<1>10. CASE s = "next"
  <2>1. Segmented(code, pend["next"], blocks, {"loop"})
    BY <1>1 DEF Waiting
  <2>2. blocks[k].kind \in {"loop"} /\ d[x].op = "GOTO"
        /\ \A l \in DOMAIN blocks : blocks[l].kind \in {"loop"} => l <= k
    BY <1>10 DEF Leaves
  <2>3. Segmented(d, Append(pend["next"], x), cs, {"loop"})
    BY <2>1, <2>2, <1>1, <1>2, <1>6, SegmentedPush
  <2> QED
    BY <2>3, <1>4, <1>5, <1>10, OnStackIs
<1> QED
  BY <1>3, <1>7, <1>8, <1>9, <1>10

(* A step that emits a jump out of blocks, and lets the block go on.       *)
LEMMA LeavingStep ==
  ASSUME JumpInv, blocks # <<>>, ~ ElseNext(blocks),
         NEW d \in Seq(OpRecords), Len(code) <= Len(d), \A i \in DOMAIN code : d[i] = code[i],
         NEW b \in BlockRecords, b.id = Top.id, b.kind = Top.kind, b.base = Top.base,
         TopGoes(Top, b), b.phase \notin ElsePhases,
         NEW x, NEW k, NEW s, Leaves(d, x, k, s),
         \A i \in DOMAIN d : i > Len(code) =>
           /\ Open(blocks) \subseteq d[i].scope /\ d[i].cases = {} /\ d[i].to = 0 /\ d[i].op # "SWITCH"
           /\ d[i].want = Nowhere \/ i = x
  PROVE  BuilderOK(d, SetTop(b), [pend EXCEPT ![s] = Append(@, x)], marks)
<1> DEFINE cs == SetTop(b)
           q  == [pend EXCEPT ![s] = Append(@, x)]
<1>1. /\ code \in Seq(OpRecords) /\ blocks \in Seq(BlockRecords) /\ pend \in [Stacks -> Seq(Nat)]
      /\ Top = blocks[Len(blocks)] /\ Len(blocks) \in DOMAIN blocks
  BY InvTyped
<1>2. Extends(code, d)
  BY DEF Extends
<1>3. /\ cs \in Seq(BlockRecords) /\ Len(cs) = Len(blocks) /\ cs[Len(blocks)] = b
      /\ SameBlocks(blocks, cs, Len(blocks)) /\ SamePhases(blocks, cs, Len(blocks) - 1)
  BY <1>1, TopSet DEF SetTop
<1> HIDE DEF cs
<1>4. /\ OnStack(s, d, Append(pend[s], x), cs, Len(marks))
      /\ s \in Stacks /\ s \in JumpStacks /\ s # "eval" /\ s # "first"
      /\ s \in StacksOf[blocks[k].kind]
  BY <1>2, <1>3, LeavesOn
<1>5. x \in DOMAIN d /\ x \in Nat /\ k \in DOMAIN blocks /\ d[x].want = <<blocks[k].id, "end">>
  BY DEF Leaves
<1>6. /\ q \in [Stacks -> Seq(Nat)] /\ q[s] = Append(pend[s], x) /\ x \in Entries(q[s])
      /\ \A s2 \in Stacks : s2 # s => q[s2] = pend[s2]
      /\ \A s2 \in JumpStacks : Entries(pend[s2]) \subseteq Entries(q[s2])
  BY <1>1, <1>4, <1>5, JumpPushed
<1> HIDE DEF q
<1>7. q["eval"] = pend["eval"] /\ q["first"] = pend["first"]
  BY <1>4, <1>6 DEF Stacks
<1>8. \A s2 \in JumpStacks : q[s2] = pend[s2] \/ OnStack(s2, d, q[s2], cs, Len(marks))
  <2>1. JumpStacks \subseteq Stacks
    BY DEF JumpStacks, Stacks
  <2> QED
    BY <2>1, <1>4, <1>6
<1>9. WaitsOn(d, cs, q, x)
  <2>1. k \in DOMAIN cs /\ cs[k].id = blocks[k].id /\ cs[k].kind = blocks[k].kind
    BY <1>1, <1>3, <1>5 DEF SameBlocks
  <2> QED
    BY <2>1, <1>4, <1>5, <1>6 DEF WaitsOn
<1>10. \A i \in DOMAIN d : i > Len(code) => NewOp(d, blocks, cs, q, i)
  BY <1>9 DEF NewOp
<1>11. ~ ElseNext(cs)
  BY <1>3 DEF ElseNext
<1>12. Stays(blocks, cs, pend, q, marks, marks)
  BY <1>3, <1>7 DEF Stays
<1>13. TopGoes(blocks[Len(blocks)], cs[Len(blocks)])
  BY <1>1, <1>3
<1>14. Ordinary(code, d, blocks, cs, pend, q, marks, marks)
  BY <1>3, <1>6, <1>7, <1>8, <1>10, <1>11, <1>12, <1>13 DEF Ordinary
<1>15. BuilderOK(d, cs, q, marks)
  BY <1>14, OrdinaryStep DEF JumpInv
<1> QED
  BY <1>15 DEF cs, q

LEMMA TopAgain ==
  ASSUME JumpInv, blocks # <<>>
  PROVE  SetTop(Top) = blocks
<1>1. blocks \in Seq(BlockRecords) /\ Top = blocks[Len(blocks)] /\ Len(blocks) \in DOMAIN blocks
  BY InvTyped
<1> QED
  BY <1>1 DEF SetTop

(* A call is meant for the innermost eval block, or for the subroutine.    *)
LEMMA CallIs ==
  ASSUME JumpInv, blocks # <<>>
  PROVE  \E k \in DOMAIN blocks :
           /\ \A v : Call(v) = Op("CALL", v, <<blocks[k].id, "end">>)
           /\ \/ blocks[k].kind = "eval" /\ CroakStack = "catch"
              \/ blocks[k].kind = "sub" /\ CroakStack = "uncaught"
<1>1. /\ blocks \in Seq(BlockRecords) /\ Nested(blocks, Len(marks)) /\ OneEval(blocks, pend["eval"])
      /\ Len(blocks) > 0 /\ Len(marks) \in Nat
  BY InvTyped
<1>2. CASE \E k \in DOMAIN blocks : blocks[k].kind \in {"eval"}
  <2>1. PICK k \in DOMAIN blocks : /\ blocks[k].kind \in {"eval"}
                                   /\ \A l \in DOMAIN blocks : blocks[l].kind \in {"eval"} => l <= k
                                   /\ Innermost({"eval"}) = blocks[k].id
    BY <1>1, <1>2, InnermostIs
  <2>2. blocks[k].id # 0
    BY <1>1 DEF Nested, BlockOK
  <2>3. blocks[k].id \in IdsOf(blocks, {"eval"})
    BY <2>1 DEF IdsOf
  <2>4. CroakStack = "catch"
    BY <2>3, <1>1 DEF OneEval, CroakStack
  <2> QED
    BY <2>1, <2>2, <2>4 DEF Call
<1>3. CASE \A k \in DOMAIN blocks : blocks[k].kind \notin {"eval"}
  <2>1. Innermost({"eval"}) = 0
    BY <1>3, InnermostNone
  <2>2. IdsOf(blocks, {"eval"}) = {}
    BY <1>3 DEF IdsOf
  <2>3. CroakStack = "uncaught"
    BY <2>2, <1>1 DEF OneEval, CroakStack
  <2>4. 1 \in DOMAIN blocks
    BY <1>1
  <2>5. blocks[1].kind = "sub" /\ blocks[1].id = 1
    BY <2>4, <1>1 DEF Nested, BlockOK
  <2> QED
    BY <2>1, <2>3, <2>4, <2>5 DEF Call
<1> QED
  BY <1>2, <1>3

LEMMA CallStatementStep ==
  ASSUME JumpInv, blocks # <<>>, CallStatement
  PROVE  BuilderOK(code', blocks', pend', marks')
<1>1. PICK k \in DOMAIN blocks :
         /\ \A v : Call(v) = Op("CALL", v, <<blocks[k].id, "end">>)
         /\ \/ blocks[k].kind = "eval" /\ CroakStack = "catch"
            \/ blocks[k].kind = "sub" /\ CroakStack = "uncaught"
  BY CallIs
<1>2. /\ code \in Seq(OpRecords) /\ blocks \in Seq(BlockRecords) /\ MayBe(Top) /\ Top \in BlockRecords
      /\ Top = blocks[Len(blocks)]
  BY InvTyped
<1> DEFINE o == Op("CALL", 0, <<blocks[k].id, "end">>)
           d == Append(code, o)
           x == Len(code) + 1
<1>3. <<blocks[k].id, "end">> \in Nat \X Places /\ "CALL" \in OpNames
  BY <1>2, BaseTyped DEF Places, OpNames
<1>4. /\ o \in OpRecords /\ o.op = "CALL" /\ o.to = 0 /\ o.cases = {}
      /\ o.want = <<blocks[k].id, "end">> /\ o.scope = Open(blocks)
  BY <1>3, OpIs
<1> HIDE DEF o
<1>5. /\ d \in Seq(OpRecords) /\ Len(code) <= Len(d) /\ \A i \in DOMAIN code : d[i] = code[i]
      /\ d[x] = o /\ x \in DOMAIN d /\ \A i \in DOMAIN d : i > Len(code) => i = x
  BY <1>2, <1>4, Emitted
<1>6. code' = d /\ pend' = [pend EXCEPT ![CroakStack] = Append(@, x)] /\ blocks' = blocks /\ marks' = marks
      /\ Top.phase = "stmts"
  BY <1>1 DEF CallStatement, InPhase, Here, o
<1> HIDE DEF d, x
<1>7. Leaves(d, x, k, CroakStack)
  BY <1>1, <1>4, <1>5 DEF Leaves
<1>8. ~ ElseNext(blocks) /\ Top.phase \notin ElsePhases
  BY <1>2, <1>6 DEF ElseNext, ElsePhases
<1>9. TopGoes(Top, Top)
  BY <1>2 DEF TopGoes
<1>10. \A i \in DOMAIN d : i > Len(code) =>
         /\ Open(blocks) \subseteq d[i].scope /\ d[i].cases = {} /\ d[i].to = 0 /\ d[i].op # "SWITCH"
         /\ d[i].want = Nowhere \/ i = x
  BY <1>4, <1>5
<1>11. BuilderOK(d, SetTop(Top), [pend EXCEPT ![CroakStack] = Append(@, x)], marks)
  BY <1>2, <1>5, <1>7, <1>8, <1>9, <1>10, LeavingStep
<1> QED
  BY <1>6, <1>11, TopAgain

LEMMA DeclareStep ==
  ASSUME JumpInv, blocks # <<>>, Declare
  PROVE  BuilderOK(code', blocks', pend', marks')
<1>1. PICK k \in DOMAIN blocks :
         /\ \A v : Call(v) = Op("CALL", v, <<blocks[k].id, "end">>)
         /\ \/ blocks[k].kind = "eval" /\ CroakStack = "catch"
            \/ blocks[k].kind = "sub" /\ CroakStack = "uncaught"
  BY CallIs
<1>2. /\ code \in Seq(OpRecords) /\ blocks \in Seq(BlockRecords) /\ MayBe(Top) /\ Top \in BlockRecords
      /\ Top = blocks[Len(blocks)]
  BY InvTyped
<1> DEFINE v == Len(home) + 1
           o1 == Op("PUSH_MORTAL", v, Nowhere)
           o2 == Op("CALL", v, <<blocks[k].id, "end">>)
           d == code \o <<o1, o2>>
           x == Len(code) + 1 + 1
           b == [Top EXCEPT !.have = TRUE]
<1>3. /\ <<blocks[k].id, "end">> \in Nat \X Places /\ "CALL" \in OpNames /\ "PUSH_MORTAL" \in OpNames
      /\ Nowhere \in Nat \X Places /\ v \in Nat
  <2>1. <<blocks[k].id, "end">> \in Nat \X Places
    BY <1>2, BaseTyped DEF Places
  <2>2. v \in Nat
    BY DEF JumpInv
  <2> QED
    BY <2>1, <2>2 DEF Places, OpNames, Nowhere
<1> HIDE DEF v
<1>4. /\ o1 \in OpRecords /\ o1.op = "PUSH_MORTAL" /\ o1.to = 0 /\ o1.cases = {}
      /\ o1.want = Nowhere /\ o1.scope = Open(blocks)
  BY <1>3, OpIs
<1>5. /\ o2 \in OpRecords /\ o2.op = "CALL" /\ o2.to = 0 /\ o2.cases = {}
      /\ o2.want = <<blocks[k].id, "end">> /\ o2.scope = Open(blocks)
  BY <1>3, OpIs
<1> HIDE DEF o1, o2
<1>6. /\ d \in Seq(OpRecords) /\ Len(code) <= Len(d) /\ \A i \in DOMAIN code : d[i] = code[i]
      /\ d[Len(code) + 1] = o1 /\ d[x] = o2 /\ x \in DOMAIN d
      /\ \A i \in DOMAIN d : i > Len(code) => i = Len(code) + 1 \/ i = x
  <2>1. /\ Append(code, o1) \in Seq(OpRecords) /\ Len(Append(code, o1)) = Len(code) + 1
        /\ Append(code, o1)[Len(code) + 1] = o1 /\ Len(code) + 1 \in DOMAIN Append(code, o1)
        /\ \A i \in DOMAIN code : Append(code, o1)[i] = code[i] /\ i \in DOMAIN Append(code, o1)
        /\ \A i \in DOMAIN Append(code, o1) : i > Len(code) => i = Len(code) + 1
    BY <1>2, <1>4, Emitted
  <2>2. d = Append(Append(code, o1), o2)
    BY <1>2, <1>4, <1>5
  <2> DEFINE c1 == Append(code, o1)
  <2>3. /\ Append(c1, o2) \in Seq(OpRecords) /\ Len(Append(c1, o2)) = Len(c1) + 1
        /\ Append(c1, o2)[Len(c1) + 1] = o2 /\ Len(c1) + 1 \in DOMAIN Append(c1, o2)
        /\ \A i \in DOMAIN c1 : Append(c1, o2)[i] = c1[i]
        /\ \A i \in DOMAIN Append(c1, o2) : i > Len(c1) => i = Len(c1) + 1
    BY <2>1, <1>5, Emitted
  <2> HIDE DEF c1
  <2>4. Len(code) \in Nat /\ Len(c1) = Len(code) + 1 /\ d = Append(c1, o2)
    BY <1>2, <2>1, <2>2 DEF c1
  <2>5. \A i \in DOMAIN d : i > Len(code) => i = Len(code) + 1 \/ i = x
    <3>1. \A i \in DOMAIN d : i \in Nat
      BY <2>3, <2>4
    <3> QED
      BY <3>1, <2>3, <2>4
  <2> QED
    BY <2>1, <2>3, <2>4, <2>5 DEF c1
<1>7. code' = d /\ pend' = [pend EXCEPT ![CroakStack] = Append(@, x)] /\ blocks' = SetTop(b) /\ marks' = marks
      /\ MayDeclare
  BY <1>1 DEF Declare, Here, o1, o2, v
<1> HIDE DEF d, x
<1>8. Leaves(d, x, k, CroakStack)
  BY <1>1, <1>5, <1>6 DEF Leaves
<1>9. ~ ElseNext(blocks) /\ Top.phase \notin ElsePhases
  BY <1>2, <1>7 DEF ElseNext, ElsePhases, MayDeclare
<1>10. /\ b \in BlockRecords /\ b.id = Top.id /\ b.kind = Top.kind /\ b.base = Top.base
       /\ b.phase = Top.phase /\ b.resume = Top.resume
  BY <1>2 DEF BlockRecords
<1>11. TopGoes(Top, b)
  BY <1>2, <1>10 DEF TopGoes, MayBe, Entered
<1>12. \A i \in DOMAIN d : i > Len(code) =>
         /\ Open(blocks) \subseteq d[i].scope /\ d[i].cases = {} /\ d[i].to = 0 /\ d[i].op # "SWITCH"
         /\ d[i].want = Nowhere \/ i = x
  BY <1>4, <1>5, <1>6
<1> HIDE DEF b
<1>13. BuilderOK(d, SetTop(b), [pend EXCEPT ![CroakStack] = Append(@, x)], marks)
  BY <1>6, <1>8, <1>9, <1>10, <1>11, <1>12, LeavingStep
<1> QED
  BY <1>7, <1>13

LEMMA JumpOutStep ==
  ASSUME JumpInv, blocks # <<>>, NEW name \in {"GOTO", "RETURN"}, NEW k \in DOMAIN blocks, NEW s,
         JumpOut(name, s, blocks[k].id),
         \/ s = "return" /\ blocks[k].kind = "sub"
         \/ /\ s = "last" /\ blocks[k].kind \in {"init", "switch"} /\ name = "GOTO"
            /\ \A l \in DOMAIN blocks : blocks[l].kind \in {"init", "switch"} => l <= k
         \/ /\ s = "next" /\ blocks[k].kind \in {"loop"} /\ name = "GOTO"
            /\ \A l \in DOMAIN blocks : blocks[l].kind \in {"loop"} => l <= k
  PROVE  BuilderOK(code', blocks', pend', marks')
<1>2. /\ code \in Seq(OpRecords) /\ blocks \in Seq(BlockRecords) /\ MayBe(Top) /\ Top \in BlockRecords
      /\ Top = blocks[Len(blocks)] /\ Top.kind \in BlockKinds
  BY InvTyped
<1> DEFINE o == Op(name, 0, <<blocks[k].id, "end">>)
           d == Append(code, o)
           x == Len(code) + 1
           next == IF Top.kind = "switch" THEN "labels" ELSE "done"
           b == [Top EXCEPT !.phase = next]
<1>3. <<blocks[k].id, "end">> \in Nat \X Places /\ name \in OpNames
  BY <1>2, BaseTyped DEF Places, OpNames
<1>4. /\ o \in OpRecords /\ o.op = name /\ o.to = 0 /\ o.cases = {}
      /\ o.want = <<blocks[k].id, "end">> /\ o.scope = Open(blocks)
  <2>1. JumpInv /\ name \in OpNames /\ 0 \in Nat /\ <<blocks[k].id, "end">> \in Nat \X Places
    BY <1>3
  <2> QED
    BY ONLY <2>1, OpIs
<1> HIDE DEF o
<1>5. /\ d \in Seq(OpRecords) /\ Len(code) <= Len(d) /\ \A i \in DOMAIN code : d[i] = code[i]
      /\ d[x] = o /\ x \in DOMAIN d /\ \A i \in DOMAIN d : i > Len(code) => i = x
  BY <1>2, <1>4, Emitted
<1>6. code' = d /\ pend' = [pend EXCEPT ![s] = Append(@, x)] /\ blocks' = SetTop(b) /\ marks' = marks
      /\ Top.phase = "stmts"
  BY DEF JumpOut, AfterJump, InPhase, Here, o
<1> HIDE DEF d, x
<1>7. Leaves(d, x, k, s)
  BY <1>4, <1>5 DEF Leaves
<1>8. ~ ElseNext(blocks)
  BY <1>2, <1>6 DEF ElseNext, ElsePhases
<1>9. /\ b \in BlockRecords /\ b.id = Top.id /\ b.kind = Top.kind /\ b.base = Top.base
      /\ b.phase = next
  BY <1>2 DEF BlockRecords, BlockPhases
<1>10. Top.kind # "init" /\ next \in PhasesOf[Top.kind]
  <2>1. "stmts" \in PhasesOf[Top.kind]
    BY <1>2, <1>6 DEF MayBe
  <2>2. Top.kind # "init"
    BY <2>1 DEF PhasesOf
  <2>3. Top.kind = "switch" => "labels" \in PhasesOf[Top.kind]
    BY DEF PhasesOf
  <2>4. Top.kind \in BlockKinds \ {"init", "switch"} => "done" \in PhasesOf[Top.kind]
    BY DEF PhasesOf, BlockKinds
  <2> QED
    BY <1>2, <2>2, <2>3, <2>4
<1>11. next \in {"labels", "done"}
  OBVIOUS
<1> HIDE DEF next, b
<1>12. TopGoes(Top, b)
  BY <1>6, <1>9, <1>10, <1>11 DEF TopGoes, MayBe, Entered
<1>13. \A i \in DOMAIN d : i > Len(code) =>
         /\ Open(blocks) \subseteq d[i].scope /\ d[i].cases = {} /\ d[i].to = 0 /\ d[i].op # "SWITCH"
         /\ d[i].want = Nowhere \/ i = x
  BY <1>4, <1>5
<1>14. b.phase \notin ElsePhases
  BY <1>9, <1>11 DEF ElsePhases
<1>15. BuilderOK(d, SetTop(b), [pend EXCEPT ![s] = Append(@, x)], marks)
  BY <1>5, <1>7, <1>8, <1>9, <1>12, <1>13, <1>14, LeavingStep
<1> QED
  BY <1>6, <1>15

LEMMA LastStatementStep ==
  ASSUME JumpInv, blocks # <<>>, LastStatement
  PROVE  BuilderOK(code', blocks', pend', marks')
<1>1. blocks \in Seq(BlockRecords) /\ Nested(blocks, Len(marks))
  BY InvTyped
<1>2. \E k \in DOMAIN blocks : blocks[k].kind \in {"init", "switch"}
  <2>1. PICK k \in DOMAIN blocks : blocks[k].kind \in {"loop", "switch"}
    BY InnermostNone DEF LastStatement
  <2>2. CASE blocks[k].kind = "loop"
    <3>1. k > 1 /\ k \in Nat /\ k \in 1 .. Len(blocks)
      <4>1. k # 1
        BY <2>2, <1>1 DEF Nested, BlockOK
      <4> QED
        BY <4>1, <1>1
    <3>2. blocks[k - 1].kind = "init"
      BY <2>2, <3>1, <1>1 DEF Nested, BlockOK
    <3>3. k - 1 \in DOMAIN blocks
      BY <3>1, <1>1
    <3> QED
      BY <3>2, <3>3
  <2> QED
    BY <2>1, <2>2
<1>3. PICK k \in DOMAIN blocks : /\ blocks[k].kind \in {"init", "switch"}
                                 /\ \A l \in DOMAIN blocks : blocks[l].kind \in {"init", "switch"} => l <= k
                                 /\ Innermost({"init", "switch"}) = blocks[k].id
  BY <1>1, <1>2, InnermostIs
<1>4. JumpOut("GOTO", "last", blocks[k].id)
  BY <1>3 DEF LastStatement
<1> QED
  BY <1>3, <1>4, JumpOutStep

LEMMA NextStatementStep ==
  ASSUME JumpInv, blocks # <<>>, NextStatement
  PROVE  BuilderOK(code', blocks', pend', marks')
<1>1. blocks \in Seq(BlockRecords)
  BY InvTyped
<1>2. \E k \in DOMAIN blocks : blocks[k].kind \in {"loop"}
  BY InnermostNone DEF NextStatement
<1>3. PICK k \in DOMAIN blocks : /\ blocks[k].kind \in {"loop"}
                                 /\ \A l \in DOMAIN blocks : blocks[l].kind \in {"loop"} => l <= k
                                 /\ Innermost({"loop"}) = blocks[k].id
  BY <1>1, <1>2, InnermostIs
<1>4. JumpOut("GOTO", "next", blocks[k].id)
  BY <1>3 DEF NextStatement
<1> QED
  BY <1>3, <1>4, JumpOutStep

LEMMA ReturnStatementStep ==
  ASSUME JumpInv, blocks # <<>>, ReturnStatement
  PROVE  BuilderOK(code', blocks', pend', marks')
<1>1. blocks \in Seq(BlockRecords) /\ Nested(blocks, Len(marks)) /\ Len(blocks) > 0
  BY InvTyped
<1>2. 1 \in DOMAIN blocks
  BY <1>1
<1>3. blocks[1].kind = "sub" /\ blocks[1].id = 1
  BY <1>1, <1>2 DEF Nested, BlockOK
<1>4. JumpOut("RETURN", "return", blocks[1].id)
  BY <1>3 DEF ReturnStatement
<1> QED
  BY <1>2, <1>3, <1>4, JumpOutStep

-----------------------------------------------------------------------------
(* Blocks that are opened without a jump.                                  *)

LEMMA BlockOpened ==
  ASSUME JumpInv, blocks # <<>>,
         NEW b \in BlockRecords, b.id = Top.id, b.kind = Top.kind, b.base = Top.base,
         NEW a \in BlockRecords, a.phase \notin ElsePhases
  PROVE  LET cs == Append(SetTop(b), a) IN
         /\ cs \in Seq(BlockRecords) /\ Len(cs) = Len(blocks) + 1
         /\ cs[Len(blocks)] = b /\ cs[Len(cs)] = a
         /\ SameBlocks(blocks, cs, Len(blocks)) /\ SamePhases(blocks, cs, Len(blocks) - 1)
         /\ ~ ElseNext(cs)
<1> DEFINE ds == SetTop(b)
           cs == Append(ds, a)
<1>1. blocks \in Seq(BlockRecords) /\ Top = blocks[Len(blocks)]
  BY InvTyped
<1>2. /\ ds \in Seq(BlockRecords) /\ Len(ds) = Len(blocks) /\ ds[Len(blocks)] = b
      /\ SameBlocks(blocks, ds, Len(blocks)) /\ SamePhases(blocks, ds, Len(blocks) - 1)
  BY <1>1, TopSet DEF SetTop
<1> HIDE DEF ds
<1>3. /\ cs \in Seq(BlockRecords) /\ Len(cs) = Len(blocks) + 1 /\ cs[Len(blocks)] = ds[Len(blocks)]
      /\ cs[Len(cs)] = a /\ SameBlocks(blocks, cs, Len(blocks))
      /\ SamePhases(blocks, cs, Len(blocks) - 1)
  BY <1>1, <1>2, BlockPushed
<1>4. ~ ElseNext(cs)
  BY <1>3 DEF ElseNext
<1> QED
  BY <1>2, <1>3, <1>4 DEF ds

LEMMA QuietOpening ==
  ASSUME JumpInv, blocks # <<>>,
         NEW b \in BlockRecords, b.id = Top.id, b.kind = Top.kind, b.base = Top.base,
         TopGoes(Top, b), b.phase \notin ElsePhases,
         NEW a \in BlockRecords, a.phase \notin ElsePhases,
         a.id = Len(marks) + 1, a.kind \in {"plain", "init", "else"}, MayBe(a), ~ Entered(a),
         a.kind = "else" <=> ElseNext(blocks),
         a.kind = "init" => a.base = Len(pend["last"])
  PROVE  BuilderOK(code, Append(SetTop(b), a), pend, Append(marks, Unmarked))
<1> DEFINE cs == Append(SetTop(b), a)
           r  == Append(marks, Unmarked)
<1>1. /\ code \in Seq(OpRecords) /\ blocks \in Seq(BlockRecords) /\ pend \in [Stacks -> Seq(Nat)]
      /\ Top = blocks[Len(blocks)] /\ BuilderOK(code, blocks, pend, marks)
  BY InvTyped DEF JumpInv
<1>2. /\ cs \in Seq(BlockRecords) /\ Len(cs) = Len(blocks) + 1
      /\ cs[Len(blocks)] = b /\ cs[Len(cs)] = a
      /\ SameBlocks(blocks, cs, Len(blocks)) /\ SamePhases(blocks, cs, Len(blocks) - 1)
      /\ ~ ElseNext(cs)
  BY BlockOpened
<1> HIDE DEF cs
<1>3. Opens(code, blocks, cs, pend, pend, marks, r)
  <2>1. r = Append(marks, Unmarked)
    OBVIOUS
  <2> HIDE DEF r
  <2> QED
    BY <2>1, <1>2 DEF Opens
<1> HIDE DEF r
<1>4. \A i \in DOMAIN code : ~ (i > Len(code))
  BY <1>1
<1>5. Len(code) <= Len(code)
  BY <1>1
<1>6. TopGoes(blocks[Len(blocks)], cs[Len(blocks)])
  BY <1>1, <1>2
<1>7. Ordinary(code, code, blocks, cs, pend, pend, marks, r)
  BY <1>1, <1>2, <1>3, <1>4, <1>5, <1>6 DEF Ordinary
<1>8. BuilderOK(code, cs, pend, r)
  BY <1>1, <1>7, OrdinaryStep
<1> QED
  BY <1>8 DEF cs, r

(* What a block in the midst of its statements is.                         *)
LEMMA AmongStatements ==
  ASSUME JumpInv, blocks # <<>>, InPhase("stmts")
  PROVE  TopGoes(Top, Top) /\ Top.phase \notin ElsePhases /\ ~ ElseNext(blocks) /\ Top \in BlockRecords
<1>1. Top = blocks[Len(blocks)] /\ MayBe(Top) /\ Top \in BlockRecords
  BY InvTyped
<1>2. Top.phase = "stmts"
  BY DEF InPhase
<1> QED
  BY <1>1, <1>2 DEF TopGoes, ElseNext, ElsePhases

LEMMA OpenPlainStep ==
  ASSUME JumpInv, blocks # <<>>, OpenPlain \/ OpenIf \/ OpenLoop
  PROVE  BuilderOK(code', blocks', pend', marks')
<1>1. PICK kind \in {"plain", "init"}, phase \in {"stmts", "cond", "init"}, base \in Nat :
         /\ blocks' = Append(blocks, Block(kind, phase, base)) /\ marks' = Append(marks, Unmarked)
         /\ code' = code /\ pend' = pend /\ InPhase("stmts")
         /\ kind = "plain" => phase \in {"stmts", "cond"}
         /\ kind = "init" => phase = "init" /\ base = Len(pend["last"])
  <2>1. pend["last"] \in Seq(Nat)
    BY InvTyped, PendTyped
  <2>2. Len(pend["last"]) \in Nat
    BY <2>1
  <2>3. CASE OpenPlain
    <3>1. /\ blocks' = Append(blocks, Block("plain", "stmts", 0)) /\ marks' = Append(marks, Unmarked)
          /\ code' = code /\ pend' = pend /\ InPhase("stmts")
      BY <2>3 DEF OpenPlain, PushBlock
    <3> QED
      BY <3>1
  <2>4. CASE OpenIf
    <3>1. /\ blocks' = Append(blocks, Block("plain", "cond", 0)) /\ marks' = Append(marks, Unmarked)
          /\ code' = code /\ pend' = pend /\ InPhase("stmts")
      BY <2>4 DEF OpenIf, PushBlock
    <3> QED
      BY <3>1
  <2>5. CASE OpenLoop
    <3>1. /\ blocks' = Append(blocks, Block("init", "init", Len(pend["last"])))
          /\ marks' = Append(marks, Unmarked)
          /\ code' = code /\ pend' = pend /\ InPhase("stmts")
      BY <2>5 DEF OpenLoop, PushBlock
    <3> QED
      BY <3>1, <2>2
  <2> QED
    BY <2>3, <2>4, <2>5
<1> DEFINE a == Block(kind, phase, base)
<1>2. /\ a \in BlockRecords
      /\ a.id = Len(marks) + 1 /\ a.kind = kind /\ a.phase = phase /\ a.base = base
  <2>1. kind \in BlockKinds /\ phase \in BlockPhases
    BY DEF BlockKinds, BlockPhases
  <2> QED
    BY <2>1, NewBlockIs
<1>3. blocks' = Append(blocks, a)
  BY <1>1
<1> HIDE DEF a
<1>4. TopGoes(Top, Top) /\ Top.phase \notin ElsePhases /\ ~ ElseNext(blocks) /\ Top \in BlockRecords
  BY <1>1, AmongStatements
<1>5. a.phase \notin ElsePhases /\ MayBe(a) /\ ~ Entered(a)
  BY <1>1, <1>2 DEF ElsePhases, MayBe, Entered, PhasesOf
<1>6. /\ a.kind \in {"plain", "init", "else"} /\ (a.kind = "else" <=> ElseNext(blocks))
      /\ a.kind = "init" => a.base = Len(pend["last"])
  BY <1>1, <1>2, <1>4
<1>7. BuilderOK(code, Append(SetTop(Top), a), pend, Append(marks, Unmarked))
  BY <1>2, <1>4, <1>5, <1>6, QuietOpening
<1> QED
  BY <1>1, <1>3, <1>7, TopAgain

LEMMA OpenElseStep ==
  ASSUME JumpInv, blocks # <<>>, OpenElse
  PROVE  BuilderOK(code', blocks', pend', marks')
<1>1. PICK next \in BlockPhases, phase \in {"stmts", "cond", "operand", "empty"} :
         /\ PushElse(next, phase) /\ code' = code /\ pend' = pend
         /\ \/ Top.phase = "else" /\ next = "done"
            \/ Top.phase \in {"else_operand", "else_empty"} /\ next = Top.resume
  <2>1. Top \in BlockRecords /\ Top.resume \in BlockPhases /\ "done" \in BlockPhases
    BY InvTyped DEF BlockRecords, BlockPhases
  <2>2. CASE Top.phase = "else" /\ PushElse("done", "stmts")
    BY <2>1, <2>2 DEF OpenElse
  <2>3. CASE Top.phase = "else" /\ PushElse("done", "cond")
    BY <2>1, <2>3 DEF OpenElse
  <2>4. CASE /\ Top.phase \in {"else_operand", "else_empty"}
             /\ PushElse(Top.resume, IF Top.phase = "else_empty" THEN "empty" ELSE "operand")
    BY <2>1, <2>4 DEF OpenElse
  <2> QED
    BY <2>2, <2>3, <2>4 DEF OpenElse
<1>2. /\ Top = blocks[Len(blocks)] /\ MayBe(Top) /\ Top \in BlockRecords /\ Top.kind \in BlockKinds
  BY InvTyped
<1> DEFINE a == Block("else", phase, 0)
           b == [Top EXCEPT !.phase = next, !.used = TRUE]
<1>3. /\ a \in BlockRecords
      /\ a.id = Len(marks) + 1 /\ a.kind = "else" /\ a.phase = phase /\ a.base = 0
  <2>1. "else" \in BlockKinds /\ phase \in BlockPhases /\ 0 \in Nat
    BY DEF BlockKinds, BlockPhases
  <2> QED
    BY <2>1, NewBlockIs
<1>4. /\ b \in BlockRecords /\ b.id = Top.id /\ b.kind = Top.kind /\ b.base = Top.base
      /\ b.phase = next
  BY <1>2 DEF BlockRecords
<1>5. blocks' = Append(SetTop(b), a) /\ marks' = Append(marks, Unmarked)
  BY <1>1 DEF PushElse, PushBlock
<1> HIDE DEF a, b
<1>6. next \in {"done", "cond", "operand", "loopcond"} /\ next \in PhasesOf[Top.kind]
      /\ (next = "loopcond" <=> Top.kind = "init" /\ Top.phase # "else")
  <2>1. CASE Top.phase = "else" /\ next = "done"
    <3>1. "else" \in PhasesOf[Top.kind]
      BY <1>2, <2>1 DEF MayBe
    <3>2. Top.kind \in {"plain", "else"}
      BY <1>2, <3>1 DEF PhasesOf, BlockKinds
    <3> QED
      BY <2>1, <3>2 DEF PhasesOf
  <2>2. CASE Top.phase \in {"else_operand", "else_empty"} /\ next = Top.resume
    <3>1. next \in ResumesOf[Top.kind]
      BY <1>2, <2>2 DEF MayBe
    <3>2. Top.kind \in {"init", "plain", "if", "else"}
      BY <1>2, <3>1 DEF ResumesOf, BlockKinds
    <3> QED
      BY <2>2, <3>1, <3>2 DEF PhasesOf, ResumesOf
  <2> QED
    BY <2>1, <2>2, <1>1
<1>7. ElseNext(blocks)
  BY <1>1, <1>2 DEF ElseNext, ElsePhases
<1>8. TopGoes(Top, b)
  <2>1. MayBe(b)
    BY <1>4, <1>6 DEF MayBe
  <2>2. Entered(b) <=> Entered(Top)
    <3>1. CASE Top.kind = "init"
      <4>1. Top.phase # "else"
        BY <3>1, <1>2 DEF MayBe, PhasesOf
      <4> QED
        BY <3>1, <4>1, <1>1, <1>4, <1>6 DEF Entered
    <3> QED
      BY <3>1, <1>4 DEF Entered
  <2> QED
    BY <2>1, <2>2, <1>1, <1>4, <1>6 DEF TopGoes
<1>9. b.phase \notin ElsePhases /\ a.phase \notin ElsePhases
  BY <1>3, <1>4, <1>6 DEF ElsePhases
<1>10. MayBe(a) /\ ~ Entered(a)
  BY <1>3 DEF MayBe, Entered, PhasesOf
<1>11. BuilderOK(code, Append(SetTop(b), a), pend, Append(marks, Unmarked))
  BY <1>3, <1>4, <1>7, <1>8, <1>9, <1>10, QuietOpening
<1> QED
  BY <1>1, <1>5, <1>11

-----------------------------------------------------------------------------
(* Blocks that are opened with a jump over them.                           *)

LEMMA JumpOpening ==
  ASSUME JumpInv, blocks # <<>>, ~ ElseNext(blocks),
         NEW b \in BlockRecords, b.id = Top.id, b.kind = Top.kind, b.base = Top.base,
         TopGoes(Top, b),
         NEW a \in BlockRecords, a.phase \notin ElsePhases,
         a.id = Len(marks) + 1, MayBe(a), ~ Entered(a),
         NEW name, \/ a.kind = "if" /\ name = "IF"
                   \/ a.kind = "switch" /\ name = "SWITCH" /\ a.base = Len(pend["last"]),
         a.kind = "if" <=> b.phase \in ElsePhases
  PROVE  BuilderOK(Append(code, Op(name, 0, <<NewBlock, "end">>)), Append(SetTop(b), a),
                   [pend EXCEPT ![a.kind] = Append(@, Here)], Append(marks, Unmarked))
<1> DEFINE cs == Append(SetTop(b), a)
           r  == Append(marks, Unmarked)
           o  == Op(name, 0, <<NewBlock, "end">>)
           d  == Append(code, o)
           x  == Len(code) + 1
           s  == a.kind
           q  == [pend EXCEPT ![a.kind] = Append(@, Here)]
           n  == Len(marks) + 1
<1>1. /\ code \in Seq(OpRecords) /\ blocks \in Seq(BlockRecords) /\ pend \in [Stacks -> Seq(Nat)]
      /\ Top = blocks[Len(blocks)] /\ BuilderOK(code, blocks, pend, marks) /\ Len(marks) \in Nat
      /\ Nested(blocks, Len(marks)) /\ Waiting(code, blocks, pend, Len(marks))
  BY InvTyped DEF JumpInv
<1>2. /\ cs \in Seq(BlockRecords) /\ Len(cs) = Len(blocks) + 1
      /\ cs[Len(blocks)] = b /\ cs[Len(cs)] = a
      /\ SameBlocks(blocks, cs, Len(blocks)) /\ SamePhases(blocks, cs, Len(blocks) - 1)
      /\ ~ ElseNext(cs)
  BY BlockOpened
<1> HIDE DEF cs
<1>3. <<NewBlock, "end">> \in Nat \X Places /\ name \in OpNames /\ NewBlock = n /\ n \in Nat
  BY <1>1 DEF NewBlock, Places, OpNames
<1>4. /\ o \in OpRecords /\ o.op = name /\ o.to = 0 /\ o.cases = {}
      /\ o.want = <<n, "end">> /\ o.scope = Open(blocks)
  BY <1>3, OpIs
<1> HIDE DEF o
<1>5. /\ d \in Seq(OpRecords) /\ Len(code) <= Len(d) /\ (\A i \in DOMAIN code : d[i] = code[i])
      /\ d[x] = o /\ x \in DOMAIN d /\ (\A i \in DOMAIN d : i > Len(code) => i = x) /\ x \in Nat
      /\ Extends(code, d)
  BY <1>1, <1>4, Emitted
<1> HIDE DEF d
<1>6. s \in {"if", "switch"} /\ s \in Stacks /\ s # "eval" /\ s # "first" /\ Here = x
  BY DEF Stacks, Here
<1>7. /\ q \in [Stacks -> Seq(Nat)] /\ q[s] = Append(pend[s], x) /\ x \in Entries(q[s])
      /\ pend[s] \in Seq(Nat)
      /\ \A s2 \in Stacks : s2 # s => q[s2] = pend[s2]
      /\ \A s2 \in JumpStacks : Entries(pend[s2]) \subseteq Entries(q[s2])
  <2> HIDE DEF x
  <2> QED
    BY <1>1, <1>5, <1>6, JumpPushed
<1> HIDE DEF q, x
<1>8. IdsOf(cs, {s}) = IdsOf(blocks, {s}) \cup {n}
  BY <1>1, <1>2, IdsOpened
<1>9. IdsOf(blocks, {s}) \in SUBSET Nat /\ \A b2 \in IdsOf(blocks, {s}) : b2 < n
  <2>1. IdsOf(blocks, {s}) \subseteq Open(blocks) /\ Open(blocks) \subseteq 1 .. Len(marks)
    BY <1>1, IdsAreOpen
  <2>2. Len(marks) \in Nat
    BY <1>1
  <2>3. \A y \in 1 .. Len(marks) : y \in Nat /\ y < n
    BY <2>2
  <2> HIDE DEF n
  <2> QED
    BY <2>1, <2>3
<1>10. OnStack(s, d, q[s], cs, n)
  <2>1. CASE s = "if"
    <3>1. Matched(code, pend[s], "IF", "end", IdsOf(blocks, {s}))
      BY <2>1, <1>1 DEF Waiting
    <3>2. d[x].op = "IF"
      BY <2>1, <1>4, <1>5
    <3>3. Matched(d, Append(pend[s], x), "IF", "end", IdsOf(blocks, {s}) \cup {n})
      <4> HIDE DEF n, s
      <4> QED
        BY <3>1, <3>2, <1>1, <1>3, <1>4, <1>5, <1>7, <1>9, MatchedPush
    <3> QED
      BY <2>1, <3>3, <1>7, <1>8, OnStackIs
  <2>2. CASE s = "switch"
    <3>1. Matched(code, pend[s], "SWITCH", "end", IdsOf(blocks, {s}))
      BY <2>2, <1>1 DEF Waiting
    <3>2. d[x].op = "SWITCH"
      BY <2>2, <1>4, <1>5
    <3>3. Matched(d, Append(pend[s], x), "SWITCH", "end", IdsOf(blocks, {s}) \cup {n})
      <4> HIDE DEF n, s
      <4> QED
        BY <3>1, <3>2, <1>1, <1>3, <1>4, <1>5, <1>7, <1>9, MatchedPush
    <3> QED
      BY <2>2, <3>3, <1>7, <1>8, OnStackIs
  <2> QED
    BY <2>1, <2>2
<1>11. q["eval"] = pend["eval"] /\ q["first"] = pend["first"]
  BY <1>6, <1>7 DEF Stacks
<1>12. /\ r = Append(marks, Unmarked) /\ Len(r) = n
  <2>1. marks \in Seq([Places -> Nat])
    BY InvTyped
  <2> QED
    BY <2>1
<1>13. Opens(d, blocks, cs, pend, q, marks, r)
  <2> HIDE DEF r
  <2> QED
    BY <1>2, <1>10, <1>11, <1>12 DEF Opens
<1> HIDE DEF r, n
<1>14. \A s2 \in JumpStacks : q[s2] = pend[s2] \/ OnStack(s2, d, q[s2], cs, Len(r))
  <2>1. JumpStacks \subseteq Stacks
    BY DEF JumpStacks, Stacks
  <2> QED
    BY <2>1, <1>7, <1>10, <1>12
<1>15. WaitsOn(d, cs, q, x)
  <2>1. Len(cs) \in DOMAIN cs
    BY <1>1, <1>2
  <2>2. s \in StacksOf[cs[Len(cs)].kind]
    BY <1>2, <1>6 DEF StacksOf
  <2>3. d[x].want = <<cs[Len(cs)].id, "end">>
    BY <1>2, <1>4, <1>5 DEF n
  <2> QED
    BY <2>1, <2>2, <2>3, <1>7 DEF WaitsOn
<1>16. \A i \in DOMAIN d : i > Len(code) => NewOp(d, blocks, cs, q, i)
  BY <1>4, <1>5, <1>15 DEF NewOp
<1>17. TopGoes(blocks[Len(blocks)], cs[Len(blocks)])
  BY <1>1, <1>2
<1>18. Ordinary(code, d, blocks, cs, pend, q, marks, r)
  BY <1>2, <1>5, <1>7, <1>11, <1>13, <1>14, <1>16, <1>17 DEF Ordinary
<1>19. BuilderOK(d, cs, q, r)
  BY <1>1, <1>18, OrdinaryStep
<1> QED
  BY <1>19 DEF cs, r, d, o, q

LEMMA TestStep ==
  ASSUME JumpInv, blocks # <<>>, ~ ElseNext(blocks),
         NEW b \in BlockRecords, b.id = Top.id, b.kind = Top.kind, b.base = Top.base,
         TopGoes(Top, b), b.phase \in ElsePhases,
         NEW phase \in {"stmts", "operand", "empty"}, Test(b, phase)
  PROVE  BuilderOK(code', blocks', pend', marks')
<1> DEFINE a == Block("if", phase, 0)
<1>1. /\ a \in BlockRecords
      /\ a.id = Len(marks) + 1 /\ a.kind = "if" /\ a.phase = phase /\ a.base = 0
  <2>1. "if" \in BlockKinds /\ phase \in BlockPhases /\ 0 \in Nat
    BY DEF BlockKinds, BlockPhases
  <2> QED
    BY <2>1, NewBlockIs
<1>2. /\ code' = Append(code, Op("IF", 0, <<NewBlock, "end">>))
      /\ pend' = [pend EXCEPT !["if"] = Append(@, Here)]
      /\ blocks' = Append(SetTop(b), a) /\ marks' = Append(marks, Unmarked)
  BY DEF Test, PushBlock
<1> HIDE DEF a
<1>3. a.phase \notin ElsePhases /\ MayBe(a) /\ ~ Entered(a)
  BY <1>1 DEF MayBe, Entered, PhasesOf, ElsePhases
<1>4. BuilderOK(Append(code, Op("IF", 0, <<NewBlock, "end">>)), Append(SetTop(b), a),
                [pend EXCEPT ![a.kind] = Append(@, Here)], Append(marks, Unmarked))
  BY <1>1, <1>3, JumpOpening
<1> QED
  BY <1>1, <1>2, <1>4

LEMMA ConditionStep ==
  ASSUME JumpInv, blocks # <<>>, Condition
  PROVE  BuilderOK(code', blocks', pend', marks')
<1>1. /\ Top = blocks[Len(blocks)] /\ MayBe(Top) /\ Top \in BlockRecords /\ Top.kind \in BlockKinds
  BY InvTyped
<1> DEFINE b == [Top EXCEPT !.phase = "else"]
<1>2. Top.phase = "cond" /\ Test(b, "stmts")
  BY DEF Condition, InPhase
<1>3. /\ b \in BlockRecords /\ b.id = Top.id /\ b.kind = Top.kind /\ b.base = Top.base
      /\ b.phase = "else"
  BY <1>1 DEF BlockRecords, BlockPhases
<1> HIDE DEF b
<1>4. Top.kind \in {"plain", "else"}
  <2>1. "cond" \in PhasesOf[Top.kind]
    BY <1>1, <1>2 DEF MayBe
  <2> QED
    BY <2>1, <1>1 DEF PhasesOf, BlockKinds
<1>5. TopGoes(Top, b)
  BY <1>2, <1>3, <1>4 DEF TopGoes, MayBe, PhasesOf, Entered
<1>6. ~ ElseNext(blocks) /\ b.phase \in ElsePhases
  BY <1>1, <1>2, <1>3 DEF ElseNext, ElsePhases
<1> QED
  BY <1>2, <1>3, <1>5, <1>6, TestStep

LEMMA LogicalStep ==
  ASSUME JumpInv, blocks # <<>>, NEW operandIn \in {"if", "else"}, Logical(operandIn)
  PROVE  BuilderOK(code', blocks', pend', marks')
<1>1. /\ Top = blocks[Len(blocks)] /\ MayBe(Top) /\ Top \in BlockRecords /\ Top.kind \in BlockKinds
      /\ Top.phase \in BlockPhases
  BY InvTyped
<1> DEFINE next == IF operandIn = "if" THEN "else_empty" ELSE "else_operand"
           phase == IF operandIn = "if" THEN "operand" ELSE "empty"
           b == [Top EXCEPT !.phase = next, !.resume = Top.phase]
<1>2. Top.phase \in {"cond", "operand", "loopcond"} /\ Test(b, phase)
  BY DEF Logical
<1>3. /\ b \in BlockRecords /\ b.id = Top.id /\ b.kind = Top.kind /\ b.base = Top.base
      /\ b.phase = next /\ b.resume = Top.phase
  BY <1>1 DEF BlockRecords, BlockPhases
<1>4. next \in {"else_empty", "else_operand"} /\ phase \in {"stmts", "operand", "empty"}
  OBVIOUS
<1> HIDE DEF b, next, phase
<1>5. Top.phase \in PhasesOf[Top.kind]
  BY <1>1 DEF MayBe
<1>6. Top.phase \in ResumesOf[Top.kind] /\ next \in PhasesOf[Top.kind]
      /\ (Top.kind = "init" <=> Top.phase = "loopcond")
  <2>1. Top.kind \in {"init", "plain", "if", "else"}
    BY <1>1, <1>2, <1>5 DEF PhasesOf, BlockKinds
  <2> QED
    BY <2>1, <1>2, <1>4, <1>5 DEF PhasesOf, ResumesOf
<1>7. TopGoes(Top, b)
  BY <1>2, <1>3, <1>4, <1>6 DEF TopGoes, MayBe, Entered
<1>8. ~ ElseNext(blocks) /\ b.phase \in ElsePhases
  BY <1>1, <1>2, <1>3, <1>4 DEF ElseNext, ElsePhases
<1> QED
  BY <1>2, <1>3, <1>4, <1>7, <1>8, TestStep

LEMMA OpenSwitchStep ==
  ASSUME JumpInv, blocks # <<>>, OpenSwitch
  PROVE  BuilderOK(code', blocks', pend', marks')
<1> DEFINE a == Block("switch", "labels", Len(pend["last"]))
<1>1. /\ a \in BlockRecords
      /\ a.id = Len(marks) + 1 /\ a.kind = "switch" /\ a.phase = "labels" /\ a.base = Len(pend["last"])
  <2>1. pend["last"] \in Seq(Nat)
    BY InvTyped, PendTyped
  <2>2. "switch" \in BlockKinds /\ "labels" \in BlockPhases /\ Len(pend["last"]) \in Nat
    BY <2>1 DEF BlockKinds, BlockPhases
  <2> QED
    BY <2>2, NewBlockIs
<1>2. /\ code' = Append(code, Op("SWITCH", 0, <<NewBlock, "end">>))
      /\ pend' = [pend EXCEPT !["switch"] = Append(@, Here)]
      /\ blocks' = Append(blocks, a) /\ marks' = Append(marks, Unmarked) /\ InPhase("stmts")
  BY DEF OpenSwitch, PushBlock
<1> HIDE DEF a
<1>3. a.phase \notin ElsePhases /\ MayBe(a) /\ ~ Entered(a)
  BY <1>1 DEF MayBe, Entered, PhasesOf, ElsePhases
<1>4. TopGoes(Top, Top) /\ Top.phase \notin ElsePhases /\ ~ ElseNext(blocks) /\ Top \in BlockRecords
  BY <1>2, AmongStatements
<1>5. BuilderOK(Append(code, Op("SWITCH", 0, <<NewBlock, "end">>)), Append(SetTop(Top), a),
                [pend EXCEPT ![a.kind] = Append(@, Here)], Append(marks, Unmarked))
  BY <1>1, <1>3, <1>4, JumpOpening
<1> QED
  BY <1>1, <1>2, <1>5, TopAgain

(* An eval block is opened when no other is open.                          *)
LEMMA OpenEvalStep ==
  ASSUME JumpInv, blocks # <<>>, "nested_eval" \notin Features, OpenEval
  PROVE  BuilderOK(code', blocks', pend', marks')
<1> DEFINE a == Block("eval", "stmts", 0)
           cs == Append(SetTop(Top), a)
           r  == Append(marks, Unmarked)
           o  == Op("UNDEF", 0, Nowhere)
           d  == Append(code, o)
           x  == Len(code) + 1
           q  == [pend EXCEPT !["eval"] = Append(@, x)]
<1>1. /\ code \in Seq(OpRecords) /\ blocks \in Seq(BlockRecords) /\ pend \in [Stacks -> Seq(Nat)]
      /\ Top = blocks[Len(blocks)] /\ BuilderOK(code, blocks, pend, marks) /\ Len(marks) \in Nat
      /\ Nested(blocks, Len(marks)) /\ OneEval(blocks, pend["eval"])
  BY InvTyped DEF JumpInv
<1>2. /\ a \in BlockRecords
      /\ a.id = Len(marks) + 1 /\ a.kind = "eval" /\ a.phase = "stmts" /\ a.base = 0
  <2>1. "eval" \in BlockKinds /\ "stmts" \in BlockPhases /\ 0 \in Nat
    BY DEF BlockKinds, BlockPhases
  <2> QED
    BY <2>1, NewBlockIs
<1>3. /\ InPhase("stmts") /\ Innermost({"eval"}) = 0 /\ code' = d /\ pend' = q
      /\ blocks' = Append(blocks, a) /\ marks' = r
  BY DEF OpenEval, PushBlock, Here
<1> HIDE DEF a
<1>4. TopGoes(Top, Top) /\ Top.phase \notin ElsePhases /\ ~ ElseNext(blocks) /\ Top \in BlockRecords
  BY <1>3, AmongStatements
<1>5. a.phase \notin ElsePhases /\ MayBe(a) /\ ~ Entered(a)
  BY <1>2 DEF MayBe, Entered, PhasesOf, ElsePhases
<1>6. /\ cs \in Seq(BlockRecords) /\ Len(cs) = Len(blocks) + 1
      /\ cs[Len(blocks)] = Top /\ cs[Len(cs)] = a
      /\ SameBlocks(blocks, cs, Len(blocks)) /\ SamePhases(blocks, cs, Len(blocks) - 1)
      /\ ~ ElseNext(cs)
  BY <1>2, <1>4, <1>5, BlockOpened
<1>b. blocks' = cs
  BY <1>3, TopAgain
<1> HIDE DEF cs
<1>7. Nowhere \in Nat \X Places /\ "UNDEF" \in OpNames
  BY DEF Nowhere, Places, OpNames
<1>8. /\ o \in OpRecords /\ o.op = "UNDEF" /\ o.to = 0 /\ o.cases = {}
      /\ o.want = Nowhere /\ o.scope = Open(blocks)
  BY <1>7, OpIs
<1> HIDE DEF o
<1>9. /\ d \in Seq(OpRecords) /\ Len(code) <= Len(d) /\ (\A i \in DOMAIN code : d[i] = code[i])
      /\ d[x] = o /\ x \in DOMAIN d /\ (\A i \in DOMAIN d : i > Len(code) => i = x) /\ x \in Nat
  BY <1>1, <1>8, Emitted
<1> HIDE DEF d, x
<1>10. "eval" \in Stacks
  BY DEF Stacks
<1>11. /\ q \in [Stacks -> Seq(Nat)] /\ q["eval"] = Append(pend["eval"], x)
       /\ pend["eval"] \in Seq(Nat)
       /\ \A s2 \in Stacks : s2 # "eval" => q[s2] = pend[s2]
       /\ \A s2 \in JumpStacks : Entries(pend[s2]) \subseteq Entries(q[s2])
  BY <1>1, <1>9, <1>10, JumpPushed
<1> HIDE DEF q
<1>12. \A s2 \in JumpStacks : q[s2] = pend[s2]
  BY <1>11 DEF JumpStacks, Stacks
<1>13. IdsOf(blocks, {"eval"}) = {}
  <2>1. SUFFICES ASSUME \E k \in DOMAIN blocks : blocks[k].kind \in {"eval"} PROVE FALSE
    BY DEF IdsOf
  <2>2. PICK k \in DOMAIN blocks : Innermost({"eval"}) = blocks[k].id
    BY <2>1, <1>1, InnermostIs
  <2>3. blocks[k].id # 0
    BY <1>1 DEF Nested, BlockOK
  <2> QED
    BY <2>2, <2>3, <1>3
<1>14. OneEval(cs, q["eval"])
  <2>1. IdsOf(cs, {"eval"}) = IdsOf(blocks, {"eval"}) \cup {a.id}
    BY <1>1, <1>2, <1>6, IdsOpened
  <2>2. pend["eval"] = <<>>
    BY <1>1, <1>13 DEF OneEval
  <2>3. q["eval"] # <<>> /\ Len(q["eval"]) <= 1
    BY <2>2, <1>9, <1>11
  <2> QED
    BY <2>1, <2>3, <1>13 DEF OneEval
<1>15. r = Append(marks, Unmarked)
  OBVIOUS
<1> HIDE DEF r
<1>16. Opens(d, blocks, cs, pend, q, marks, r)
  BY <1>2, <1>4, <1>5, <1>6, <1>14, <1>15 DEF Opens
<1>17. \A i \in DOMAIN d : i > Len(code) => NewOp(d, blocks, cs, q, i)
  BY <1>8, <1>9 DEF NewOp
<1>18. q["first"] = pend["first"]
  BY <1>12 DEF JumpStacks
<1>19. TopGoes(blocks[Len(blocks)], cs[Len(blocks)])
  BY <1>1, <1>4, <1>6
<1>20. Ordinary(code, d, blocks, cs, pend, q, marks, r)
  BY <1>6, <1>9, <1>11, <1>12, <1>16, <1>17, <1>18, <1>19 DEF Ordinary
<1>21. BuilderOK(d, cs, q, r)
  BY <1>1, <1>20, OrdinaryStep
<1> QED
  BY <1>3, <1>b, <1>21

-----------------------------------------------------------------------------
(* The labels of a switch.                                                 *)

(* The top block goes on: the other stacks than "first" hold what they did.*)
LEMMA TopStays ==
  ASSUME JumpInv, blocks # <<>>, ~ ElseNext(blocks),
         NEW b \in BlockRecords, b.id = Top.id, b.kind = Top.kind, b.base = Top.base,
         MayBe(b), b.phase \notin ElsePhases,
         NEW d \in Seq(OpRecords), Extends(code, d)
  PROVE  LET cs == SetTop(b) IN
         /\ cs \in Seq(BlockRecords) /\ Len(cs) = Len(blocks) /\ cs[Len(blocks)] = b
         /\ SameBlocks(blocks, cs, Len(blocks)) /\ SamePhases(blocks, cs, Len(blocks) - 1)
         /\ Nested(cs, Len(marks)) /\ OneEval(cs, pend["eval"]) /\ ~ ElseNext(cs)
         /\ Open(cs) = Open(blocks)
         /\ \A s \in JumpStacks \ {"first"} : OnStack(s, d, pend[s], cs, Len(marks))
<1> DEFINE cs == SetTop(b)
<1>1. /\ code \in Seq(OpRecords) /\ blocks \in Seq(BlockRecords) /\ pend \in [Stacks -> Seq(Nat)]
      /\ Top = blocks[Len(blocks)] /\ Len(marks) \in Nat /\ Len(blocks) > 0
      /\ Nested(blocks, Len(marks)) /\ OneEval(blocks, pend["eval"])
      /\ Waiting(code, blocks, pend, Len(marks))
  BY InvTyped
<1>2. /\ cs \in Seq(BlockRecords) /\ Len(cs) = Len(blocks) /\ cs[Len(blocks)] = b
      /\ SameBlocks(blocks, cs, Len(blocks)) /\ SamePhases(blocks, cs, Len(blocks) - 1)
  BY <1>1, TopSet DEF SetTop
<1> HIDE DEF cs
<1>3. Nested(cs, Len(marks))
  BY <1>1, <1>2, NestedStays
<1>4. Open(cs) = Open(blocks) /\ \A kinds : IdsOf(cs, kinds) = IdsOf(blocks, kinds)
  BY <1>1, <1>2, IdsSame
<1>5. OneEval(cs, pend["eval"])
  BY <1>1, <1>4 DEF OneEval
<1>6. ~ ElseNext(cs)
  BY <1>2 DEF ElseNext
<1>7. ASSUME NEW s \in JumpStacks \ {"first"} PROVE OnStack(s, d, pend[s], cs, Len(marks))
  <2>1. OnStack(s, code, pend[s], blocks, Len(marks))
    BY <1>1, WaitingIs
  <2>2. pend[s] \in Seq(Nat)
    BY <1>1 DEF JumpStacks, Stacks
  <2>3. ElseIds(cs, Len(marks)) = ElseIds(blocks, Len(marks))
    BY <1>4, <1>6 DEF ElseIds
  <2>4. \A k \in DOMAIN cs : ~ (k > Len(blocks))
    BY <1>1, <1>2
  <2>5. SameOnStack(s, pend[s], blocks, cs, Len(marks), Len(marks))
    BY <1>4, <2>3, <2>4 DEF SameOnStack
  <2>6. Len(blocks) <= Len(cs) /\ Len(cs) <= Len(blocks) + 1
    BY <1>1, <1>2
  <2> QED
    BY <2>1, <2>2, <2>5, <2>6, <1>1, <1>2, StackKept
<1> QED
  BY <1>2, <1>3, <1>4, <1>5, <1>6, <1>7 DEF cs

LEMMA TopGoesOn ==
  ASSUME JumpInv, blocks # <<>>, ~ ElseNext(blocks),
         NEW cs \in Seq(BlockRecords), Len(cs) = Len(blocks), SameBlocks(blocks, cs, Len(blocks)),
         \A k \in DOMAIN blocks : blocks[k].phase = "done" => cs[k].phase = "done",
         NEW q, \A s \in JumpStacks \ {"first"} : q[s] = pend[s],
         NEW r, Len(r) = Len(marks),
         \A b \in DOMAIN marks : r[b]["end"] = marks[b]["end"] /\ r[b]["body"] = marks[b]["body"]
  PROVE  GoesOn(blocks, cs, pend, q, marks, r)
<1>1. blocks \in Seq(BlockRecords) /\ Nested(blocks, Len(marks)) /\ Len(marks) \in Nat
  BY InvTyped
<1>2. \A k \in DOMAIN cs : ~ (k > Len(blocks))
  BY <1>1
<1>3. Len(blocks) <= Len(cs) /\ Len(marks) <= Len(r)
  BY <1>1
<1>4. \A s \in JumpStacks \ {"first"} : Entries(pend[s]) \subseteq Entries(q[s])
  OBVIOUS
<1>5. /\ \A b \in DOMAIN marks : r[b]["end"] = marks[b]["end"]
      /\ \A b \in DOMAIN marks :
           \/ r[b]["body"] = marks[b]["body"]
           \/ \E k \in DOMAIN blocks : blocks[k].id = b /\ blocks[k].phase # "done"
  OBVIOUS
<1>6. /\ \A k \in DOMAIN cs : k > Len(blocks) =>
           cs[k].id = Len(marks) + 1 /\ (ElseNext(blocks) => cs[k].kind = "else")
      /\ ElseNext(blocks) => Len(cs) > Len(blocks) /\ Len(r) > Len(marks)
  BY <1>2
<1> QED
  BY ONLY <1>1, <1>3, <1>4, <1>5, <1>6, cs \in Seq(BlockRecords),
     SameBlocks(blocks, cs, Len(blocks)),
     \A k \in DOMAIN blocks : blocks[k].phase = "done" => cs[k].phase = "done" DEF GoesOn

LEMMA SwitchTarget ==
  ASSUME JumpInv, blocks # <<>>, AtLabel,
         NEW d \in Seq(OpRecords), Extends(code, d), Len(d) = Len(code),
         \A i \in DOMAIN code : i # Last(pend["switch"]) => d[i] = code[i],
         Last(pend["switch"]) \in DOMAIN code =>
           Targets(d[Last(pend["switch"])]) \subseteq Targets(code[Last(pend["switch"])]) \cup {Here}
  PROVE  BuilderOK(d, SetTop([Top EXCEPT !.phase = "stmts"]), pend, marks)
<1> DEFINE b  == [Top EXCEPT !.phase = "stmts"]
           cs == SetTop(b)
           s  == Last(pend["switch"])
<1>1. /\ code \in Seq(OpRecords) /\ blocks \in Seq(BlockRecords) /\ pend \in [Stacks -> Seq(Nat)]
      /\ Top = blocks[Len(blocks)] /\ Len(marks) \in Nat /\ Len(blocks) > 0 /\ Top \in BlockRecords
      /\ Nested(blocks, Len(marks)) /\ Waiting(code, blocks, pend, Len(marks))
      /\ Top.id \in 1 .. Len(marks) /\ Top.id \in Open(blocks) /\ Top.id \in Nat
      /\ (\A x \in Open(blocks) : x \in Nat /\ x <= Top.id)
      /\ BuilderOK(code, blocks, pend, marks) /\ marks \in Seq([Places -> Nat])
      /\ Len(blocks) \in DOMAIN blocks
  BY InvTyped DEF JumpInv
<1>2. /\ b \in BlockRecords /\ b.id = Top.id /\ b.kind = Top.kind /\ b.base = Top.base
      /\ b.phase = "stmts"
  BY <1>1 DEF BlockRecords, BlockPhases
<1>3. Top.kind = "switch" /\ Top.phase \in {"labels", "stmts"}
  BY DEF AtLabel
<1> HIDE DEF b
<1>4. ~ ElseNext(blocks) /\ b.phase \notin ElsePhases /\ MayBe(b)
  BY <1>1, <1>2, <1>3 DEF ElseNext, ElsePhases, MayBe, PhasesOf
<1>5. /\ cs \in Seq(BlockRecords) /\ Len(cs) = Len(blocks) /\ cs[Len(blocks)] = b
      /\ SameBlocks(blocks, cs, Len(blocks)) /\ SamePhases(blocks, cs, Len(blocks) - 1)
      /\ Nested(cs, Len(marks)) /\ OneEval(cs, pend["eval"]) /\ ~ ElseNext(cs)
      /\ Open(cs) = Open(blocks)
      /\ \A s2 \in JumpStacks \ {"first"} : OnStack(s2, d, pend[s2], cs, Len(marks))
  BY <1>2, <1>4, TopStays
<1> HIDE DEF cs
<1>7. s \in DOMAIN code /\ code[s].op = "SWITCH" /\ code[s].want[1] = Top.id /\ code[s].want[2] = "end"
  <2>1. /\ Top.id \in IdsOf(blocks, {"switch"}) /\ IdsOf(blocks, {"switch"}) \in SUBSET Nat
        /\ \A x \in IdsOf(blocks, {"switch"}) : x <= Top.id
    BY <1>1, <1>3, IdsAreOpen
  <2>2. Matched(code, pend["switch"], "SWITCH", "end", IdsOf(blocks, {"switch"}))
    BY <1>1 DEF Waiting
  <2>3. pend["switch"] \in Seq(Nat) /\ code \in Seq(OpRecords)
    BY <1>1, PendTyped
  <2>4. /\ Last(pend["switch"]) \in DOMAIN code /\ code[Last(pend["switch"])].op = "SWITCH"
        /\ code[Last(pend["switch"])].want[1] = Top.id /\ code[Last(pend["switch"])].want[2] = "end"
    BY ONLY <2>1, <2>2, <2>3, MatchedLast
  <2> QED
    BY <2>4
<1>8. /\ \A i \in DOMAIN code : i \in DOMAIN d /\ d[i].op = code[i].op /\ d[i].want = code[i].want
                                /\ d[i].scope = code[i].scope
      /\ \A i \in DOMAIN d : i \in DOMAIN code /\ ~ (i > Len(code))
  BY <1>1 DEF Extends
<1>9. ASSUME NEW k \in DOMAIN blocks
      PROVE  /\ Entered(cs[k]) <=> Entered(blocks[k])
             /\ blocks[k].phase \notin {"init", "incr"} => cs[k].phase \notin {"init", "incr"}
             /\ blocks[k].phase = "incr" => cs[k].phase = "incr"
             /\ blocks[k].phase = "done" => cs[k].phase = "done"
             /\ cs[k].id = blocks[k].id
  <2>1. CASE k = Len(blocks)
    BY <2>1, <1>1, <1>2, <1>3, <1>5 DEF Entered
  <2>2. CASE k # Len(blocks)
    <3>1. k \in 1 .. Len(blocks) - 1 /\ k \in 1 .. Len(blocks)
      BY <2>2, <1>1
    <3>2. cs[k].phase = blocks[k].phase /\ cs[k].kind = blocks[k].kind /\ cs[k].id = blocks[k].id
      BY <3>1, <1>5 DEF SameBlocks, SamePhases
    <3> QED
      BY <3>2 DEF Entered
  <2> QED
    BY <2>1, <2>2
<1>6. GoesOn(blocks, cs, pend, pend, marks, marks)
  BY <1>4, <1>5, <1>9, TopGoesOn
<1>10. LoopIds(cs) = LoopIds(blocks)
  <2>1. Len(blocks) <= Len(cs) /\ \A k \in DOMAIN cs : ~ (k > Len(blocks))
    BY <1>1, <1>5
  <2> QED
    BY <2>1, <1>1, <1>5, <1>9, LoopsSame
<1>11. Waiting(d, cs, pend, Len(marks))
  <2>1. OnStack("first", d, pend["first"], cs, Len(marks))
    <3>1. Matched(code, pend["first"], "GOTO", "cond", LoopIds(blocks)) /\ pend["first"] \in Seq(Nat)
      BY <1>1, PendTyped DEF Waiting
    <3>2. Matched(d, pend["first"], "GOTO", "cond", LoopIds(cs))
      BY <3>1, <1>1, <1>10, MatchedKept
    <3> QED
      BY <3>2, OnStackIs
  <2> QED
    BY <2>1, <1>5, WaitingIs
<1>12. BodiesMarked(d, cs, pend["first"], marks)
  <2>1. \A j \in DOMAIN pend["first"] : pend["first"][j] \in DOMAIN code
    BY <1>1 DEF Waiting, Matched
  <2>2. ASSUME NEW k \in DOMAIN cs, Entered(cs[k])
        PROVE  k \in DOMAIN blocks /\ Entered(blocks[k]) /\ cs[k].id = blocks[k].id
               /\ marks[blocks[k].id]["body"] = marks[blocks[k].id]["body"]
    <3>1. k \in DOMAIN blocks
      BY <1>1, <1>5
    <3> QED
      BY <3>1, <2>2, <1>9
  <2>3. BodiesMarked(code, blocks, pend["first"], marks)
    BY <1>1 DEF BuilderOK, Landing
  <2>4. \A j \in DOMAIN pend["first"] : j \in DOMAIN pend["first"] /\ pend["first"][j] = pend["first"][j]
    OBVIOUS
  <2>5. code \in Seq(OpRecords)
    BY <1>1
  <2> QED
    BY <2>1, <2>2, <2>3, <2>4, <2>5, BodiesStay
<1>13. ASSUME NEW i \in DOMAIN code, code[i].want # Nowhere
       PROVE  /\ \/ d[i].to = code[i].to
                 \/ code[i].op = "SWITCH" /\ code[i].want[2] = "end"
              /\ code[i].want[2] = "cond" => CondSettled(d, cs, pend, marks, i)
  <2>1. CASE i = s
    BY <2>1, <1>7
  <2>2. CASE i # s
    <3>1. d[i].to = code[i].to
      BY <2>2
    <3>2. Settled(code, blocks, pend, marks, i)
      BY <1>1, <1>13 DEF BuilderOK, Landing
    <3>3. \A k \in DOMAIN blocks :
            /\ blocks[k].phase \notin {"init", "incr"} => cs[k].phase \notin {"init", "incr"}
            /\ blocks[k].phase = "incr" => cs[k].phase = "incr"
      BY <1>9
    <3>4. CondSettled(d, cs, pend, marks, i)
      BY <3>1, <3>2, <3>3, <1>1, <1>5, <1>6, CondStays
    <3> QED
      BY <3>1, <3>4
  <2> QED
    BY <2>1, <2>2
<1>14. ASSUME NEW i \in DOMAIN code
       PROVE  (d[i].to = code[i].to /\ d[i].cases = code[i].cases) \/ Ranged(d, cs, marks, i)
  <2>1. CASE i = s
    <3>1. Ranged(code, blocks, marks, s) /\ Limit(code, blocks, marks, Top.id) = Len(code) + 1
      BY <1>1, <1>7 DEF BuilderOK, Landing, Limit
    <3>2. Limit(d, cs, marks, Top.id) = Len(code) + 1
      BY <1>1, <1>5 DEF Limit
    <3>3. \A t \in Targets(code[s]) : /\ t <= Len(code) + 1
                                      /\ t < Len(code) + 1 => t \in DOMAIN code /\ Top.id \in code[t].scope
      BY <3>1, <1>7 DEF Ranged
    <3>4. Targets(d[s]) \subseteq Targets(code[s]) \cup {Len(code) + 1}
      BY <1>7 DEF Here
    <3>5. ASSUME NEW t \in Targets(d[s])
          PROVE  /\ t <= Len(code) + 1
                 /\ t < Len(code) + 1 => t \in DOMAIN d /\ Top.id \in d[t].scope
      <4>1. CASE t \in Targets(code[s])
        <5>1. /\ t <= Len(code) + 1
              /\ t < Len(code) + 1 => t \in DOMAIN code /\ Top.id \in code[t].scope
          BY <4>1, <3>3
        <5> QED
          BY <5>1, <1>8
      <4>2. CASE t = Len(code) + 1
        <5>1. Len(code) \in Nat
          BY <1>1
        <5> QED
          BY <4>2, <5>1
      <4> QED
        BY <4>1, <4>2, <3>4
    <3>6. Ranged(d, cs, marks, s)
      <4>1. d[s].want[1] = Top.id /\ d[s].want[2] = "end"
        BY <1>7, <1>8
      <4>2. Top.id \in DOMAIN marks /\ Top.id \in Open(cs)
        BY <1>1, <1>5
      <4> QED
        BY <4>1, <4>2, <3>2, <3>5 DEF Ranged
    <3> QED
      BY <2>1, <3>6
  <2>2. CASE i # s
    BY <2>2
  <2> QED
    BY <2>1, <2>2
<1>15. Typed(d, cs, pend, marks)
  BY <1>1, <1>5 DEF Typed
<1>16. Grown(code, d, blocks, cs, pend, pend, marks, marks)
  <2>1. \A i \in DOMAIN d : ~ (i > Len(code))
    BY <1>8
  <2> QED
    BY <2>1, <1>5, <1>6, <1>11, <1>12, <1>13, <1>14, <1>15 DEF Grown
<1>17. BuilderOK(d, cs, pend, marks)
  BY <1>1, <1>16, GrowStep
<1> QED
  BY <1>17 DEF cs, b

LEMMA CaseStep ==
  ASSUME JumpInv, blocks # <<>>, Case
  PROVE  BuilderOK(code', blocks', pend', marks')
<1> DEFINE s == Last(pend["switch"])
           d == [code EXCEPT ![s].cases = @ \cup {Here}]
<1>1. code \in Seq(OpRecords) /\ Here \in Nat
  BY InvTyped DEF Here
<1>2. /\ AtLabel /\ code' = d /\ pend' = pend /\ marks' = marks
      /\ blocks' = SetTop([Top EXCEPT !.phase = "stmts"])
  BY DEF Case
<1>3. ASSUME NEW i \in DOMAIN code
      PROVE  /\ i # s => d[i] = code[i]
             /\ i = s => d[i] = [code[i] EXCEPT !.cases = @ \cup {Here}]
  BY <1>3
<1>4. ASSUME NEW i \in DOMAIN code
      PROVE  LET o == [code[i] EXCEPT !.cases = @ \cup {Here}] IN
             /\ o \in OpRecords /\ o.op = code[i].op /\ o.want = code[i].want
             /\ o.scope = code[i].scope /\ o.to = code[i].to /\ o.cases = code[i].cases \cup {Here}
  <2>1. code[i] \in OpRecords
    BY <1>1
  <2> HIDE DEF Here
  <2> QED
    BY <2>1, <1>1 DEF OpRecords
<1>5. DOMAIN d = 1 .. Len(code) /\ Len(code) \in Nat /\ DOMAIN code = 1 .. Len(code)
  BY <1>1
<1>6. \A i \in DOMAIN code : d[i] \in OpRecords
  <2> HIDE DEF d
  <2>1. \A i \in DOMAIN code : code[i] \in OpRecords
    BY <1>1
  <2> QED
    BY <2>1, <1>3, <1>4
<1>7. d \in Seq(OpRecords) /\ Len(d) = Len(code)
  <2>1. d \in [1 .. Len(code) -> OpRecords]
    BY <1>5, <1>6
  <2> HIDE DEF d
  <2> QED
    BY <2>1, <1>5
<1> HIDE DEF d
<1>8. Extends(code, d)
  <2>1. Len(code) <= Len(d)
    BY <1>5, <1>7
  <2>2. \A i \in DOMAIN code : d[i].op = code[i].op /\ d[i].want = code[i].want
                               /\ d[i].scope = code[i].scope
    BY <1>3, <1>4
  <2> QED
    BY <2>1, <2>2 DEF Extends
<1>9. s \in DOMAIN code => Targets(d[s]) \subseteq Targets(code[s]) \cup {Here}
  BY <1>3, <1>4 DEF Targets
<1>10. BuilderOK(d, SetTop([Top EXCEPT !.phase = "stmts"]), pend, marks)
  BY <1>2, <1>3, <1>7, <1>8, <1>9, SwitchTarget
<1> QED
  BY <1>2, <1>10

LEMMA DefaultStep ==
  ASSUME JumpInv, blocks # <<>>, Default
  PROVE  BuilderOK(code', blocks', pend', marks')
<1> DEFINE s == Last(pend["switch"])
           d == Patch(code, {s}, Here)
<1>1. code \in Seq(OpRecords) /\ Here \in Nat /\ Len(code) \in Nat
  BY InvTyped DEF Here
<1>2. /\ AtLabel /\ code' = d /\ pend' = pend /\ marks' = marks
      /\ blocks' = SetTop([Top EXCEPT !.phase = "stmts"])
  BY DEF Default
<1>3. /\ d \in Seq(OpRecords) /\ Len(d) = Len(code)
      /\ \A i \in DOMAIN code : /\ d[i].op = code[i].op /\ d[i].want = code[i].want
                                /\ d[i].scope = code[i].scope /\ d[i].cases = code[i].cases
                                /\ i \in {s} => d[i].to = Here
                                /\ i \notin {s} => d[i] = code[i]
  <2>1. /\ d \in Seq(OpRecords) /\ Len(d) = Len(code) /\ Extends(code, d)
        /\ \A i \in DOMAIN code : d[i].cases = code[i].cases /\ (i \in {s} => d[i].to = Here)
    BY <1>1, PatchIs
  <2>2. \A i \in DOMAIN code : i \notin {s} => d[i] = code[i]
    BY DEF Patch
  <2> HIDE DEF d, s
  <2> QED
    BY <2>1, <2>2 DEF Extends
<1> HIDE DEF d
<1>4. Extends(code, d)
  BY <1>1, <1>3 DEF Extends
<1>5. s \in DOMAIN code => Targets(d[s]) \subseteq Targets(code[s]) \cup {Here}
  BY <1>3 DEF Targets
<1>6. BuilderOK(d, SetTop([Top EXCEPT !.phase = "stmts"]), pend, marks)
  BY <1>2, <1>3, <1>4, <1>5, SwitchTarget
<1> QED
  BY <1>2, <1>6

-----------------------------------------------------------------------------
(* The increment and the condition of a loop.                              *)

LEMMA LoopTop ==
  ASSUME JumpInv, blocks # <<>>, Top.phase \in {"incr", "loopcond"}
  PROVE  LET x == Last(pend["first"]) IN
         /\ Top.kind = "init" /\ Entered(Top) /\ Top.id \in Nat
         /\ pend["first"] \in Seq(Nat) /\ pend["first"] # <<>>
         /\ Len(pend["first"]) \in DOMAIN pend["first"] /\ x = pend["first"][Len(pend["first"])]
         /\ x \in DOMAIN code /\ code[x].op = "GOTO" /\ code[x].want = <<Top.id, "cond">>
         /\ \A i \in Entries(pend["first"]) : code[i].want[1] = Top.id => i = x
         /\ \A d \in Seq(OpRecords) : Extends(code, d) =>
              /\ Matched(d, pend["first"], "GOTO", "cond", LoopIds(blocks))
              /\ Matched(d, Front(pend["first"]), "GOTO", "cond", LoopIds(blocks) \ {Top.id})
         /\ Front(pend["first"]) \in Seq(Nat)
<1> DEFINE x == Last(pend["first"])
<1>1. /\ code \in Seq(OpRecords) /\ blocks \in Seq(BlockRecords) /\ pend \in [Stacks -> Seq(Nat)]
      /\ Top = blocks[Len(blocks)] /\ Len(marks) \in Nat /\ MayBe(Top) /\ Top.kind \in BlockKinds
      /\ Nested(blocks, Len(marks)) /\ Waiting(code, blocks, pend, Len(marks))
      /\ Top.id \in Nat /\ Len(blocks) \in DOMAIN blocks
      /\ (\A b \in Open(blocks) : b \in Nat /\ b <= Top.id)
  BY InvTyped
<1>2. Top.kind = "init" /\ Entered(Top)
  <2>1. Top.phase \in PhasesOf[Top.kind]
    BY <1>1 DEF MayBe
  <2>2. Top.kind = "init"
    BY <2>1, <1>1 DEF PhasesOf, BlockKinds
  <2> QED
    BY <2>2 DEF Entered
<1>3. /\ Top.id \in LoopIds(blocks) /\ LoopIds(blocks) \in SUBSET Nat
      /\ \A b \in LoopIds(blocks) : b <= Top.id
  <2>1. LoopIds(blocks) \subseteq Open(blocks) /\ Top.id \in LoopIds(blocks)
    BY <1>1, <1>2, IdsAreOpen
  <2> QED
    BY <2>1, <1>1
<1>4. Matched(code, pend["first"], "GOTO", "cond", LoopIds(blocks)) /\ pend["first"] \in Seq(Nat)
      /\ code \in Seq(OpRecords)
  BY <1>1, PendTyped DEF Waiting
<1>5. /\ pend["first"] # <<>> /\ Len(pend["first"]) \in DOMAIN pend["first"]
      /\ x = pend["first"][Len(pend["first"])] /\ x \in DOMAIN code /\ code[x].op = "GOTO"
      /\ code[x].want[1] = Top.id /\ code[x].want[2] = "cond"
  BY ONLY <1>3, <1>4, MatchedLast
<1>6. code[x].want = <<Top.id, "cond">>
  <2> HIDE DEF x
  <2> QED
    BY <1>4, <1>5, OpTyped
<1>7. ASSUME NEW i \in Entries(pend["first"]), code[i].want[1] = Top.id PROVE i = x
  <2>1. code[i].want[1] = Top.id /\ i \in Entries(pend["first"])
    BY <1>7
  <2> QED
    BY ONLY <2>1, <1>3, <1>4, MatchedOnly
<1>8. ASSUME NEW d \in Seq(OpRecords), Extends(code, d)
      PROVE  /\ Matched(d, pend["first"], "GOTO", "cond", LoopIds(blocks))
             /\ Matched(d, Front(pend["first"]), "GOTO", "cond", LoopIds(blocks) \ {Top.id})
  <2>1. d \in Seq(OpRecords) /\ Extends(code, d)
    BY <1>8
  <2>2. Matched(d, pend["first"], "GOTO", "cond", LoopIds(blocks))
    BY ONLY <2>1, <1>4, MatchedKept
  <2>3. Matched(d, Front(pend["first"]), "GOTO", "cond", LoopIds(blocks) \ {Top.id})
    BY ONLY <2>1, <1>3, <1>4, MatchedPop
  <2> QED
    BY <2>2, <2>3
<1>9. Front(pend["first"]) \in Seq(Nat)
  <2>1. Extends(code, code)
    BY <1>4 DEF Extends
  <2> QED
    BY ONLY <2>1, <1>3, <1>4, MatchedPop
<1> QED
  BY <1>1, <1>2, <1>4, <1>5, <1>6, <1>7, <1>8, <1>9

(* The loop goes on to the phase of b; the others are where they were.     *)
LEMMA LoopGoes ==
  ASSUME JumpInv, blocks # <<>>, Top.phase \in {"incr", "loopcond"},
         NEW b \in BlockRecords, b.id = Top.id, b.kind = Top.kind, b.base = Top.base,
         b.phase \in {"loopcond", "done"},
         NEW d \in Seq(OpRecords), Extends(code, d)
  PROVE  LET cs == SetTop(b) IN
         /\ cs \in Seq(BlockRecords) /\ Len(cs) = Len(blocks) /\ cs[Len(blocks)] = b
         /\ SameBlocks(blocks, cs, Len(blocks)) /\ SamePhases(blocks, cs, Len(blocks) - 1)
         /\ Nested(cs, Len(marks)) /\ OneEval(cs, pend["eval"]) /\ Open(cs) = Open(blocks)
         /\ \A s \in JumpStacks \ {"first"} : OnStack(s, d, pend[s], cs, Len(marks))
         /\ ~ ElseNext(blocks)
         /\ \A k \in DOMAIN blocks : k \in DOMAIN cs /\ cs[k].id = blocks[k].id
         /\ \A k \in DOMAIN blocks : blocks[k].id = Top.id => k = Len(blocks)
         /\ \A k \in DOMAIN blocks : blocks[k].id # Top.id =>
              cs[k].phase = blocks[k].phase /\ (Entered(cs[k]) <=> Entered(blocks[k]))
<1> DEFINE cs == SetTop(b)
<1>1. /\ blocks \in Seq(BlockRecords) /\ Top = blocks[Len(blocks)] /\ Len(marks) \in Nat
      /\ Nested(blocks, Len(marks)) /\ Len(blocks) \in DOMAIN blocks
  BY InvTyped
<1>2. Top.kind = "init"
  BY LoopTop
<1>3. ~ ElseNext(blocks) /\ b.phase \notin ElsePhases /\ MayBe(b)
  BY <1>1, <1>2 DEF ElseNext, ElsePhases, MayBe, PhasesOf
<1>4. /\ cs \in Seq(BlockRecords) /\ Len(cs) = Len(blocks) /\ cs[Len(blocks)] = b
      /\ SameBlocks(blocks, cs, Len(blocks)) /\ SamePhases(blocks, cs, Len(blocks) - 1)
      /\ Nested(cs, Len(marks)) /\ OneEval(cs, pend["eval"]) /\ Open(cs) = Open(blocks)
      /\ \A s \in JumpStacks \ {"first"} : OnStack(s, d, pend[s], cs, Len(marks))
  BY <1>3, TopStays
<1> HIDE DEF cs
<1>5. /\ \A k \in DOMAIN blocks : k \in DOMAIN cs
      /\ DOMAIN blocks = 1 .. Len(blocks) /\ Len(blocks) \in Nat
  BY <1>1, <1>4
<1>6. ASSUME NEW k \in DOMAIN blocks PROVE k \in DOMAIN cs /\ cs[k].id = blocks[k].id
  BY <1>4, <1>5 DEF SameBlocks
<1>7. ASSUME NEW k \in DOMAIN blocks, blocks[k].id = Top.id PROVE k = Len(blocks)
  BY <1>1, <1>7, IdsAreOpen
<1>8. ASSUME NEW k \in DOMAIN blocks, blocks[k].id # Top.id
      PROVE  cs[k].phase = blocks[k].phase /\ (Entered(cs[k]) <=> Entered(blocks[k]))
  <2>1. k \in 1 .. Len(blocks) - 1 /\ k \in 1 .. Len(blocks)
    BY <1>1, <1>5, <1>8
  <2>2. cs[k].phase = blocks[k].phase /\ cs[k].kind = blocks[k].kind
    BY <2>1, <1>4 DEF SameBlocks, SamePhases
  <2> QED
    BY <2>2 DEF Entered
<1> QED
  BY <1>3, <1>4, <1>6, <1>7, <1>8 DEF cs

LEMMA LoopIncrementStep ==
  ASSUME JumpInv, blocks # <<>>, LoopIncrement
  PROVE  BuilderOK(code', blocks', pend', marks')
<1> DEFINE b  == [Top EXCEPT !.phase = "loopcond"]
           cs == SetTop(b)
           x  == Last(pend["first"])
           d  == Patch(code, {x}, Here)
           r  == [marks EXCEPT ![Top.id]["cond"] = Here]
<1>1. /\ code \in Seq(OpRecords) /\ blocks \in Seq(BlockRecords) /\ pend \in [Stacks -> Seq(Nat)]
      /\ Top = blocks[Len(blocks)] /\ Len(marks) \in Nat /\ Top \in BlockRecords
      /\ marks \in Seq([Places -> Nat]) /\ Top.id \in 1 .. Len(marks)
      /\ Waiting(code, blocks, pend, Len(marks)) /\ Len(blocks) \in DOMAIN blocks
      /\ BuilderOK(code, blocks, pend, marks) /\ Here \in Nat /\ Len(code) \in Nat
  BY InvTyped DEF JumpInv, Here
<1>2. /\ Top.phase = "incr" /\ code' = d /\ pend' = pend /\ marks' = r /\ blocks' = cs
  BY DEF LoopIncrement, InPhase
<1>3. /\ b \in BlockRecords /\ b.id = Top.id /\ b.kind = Top.kind /\ b.base = Top.base
      /\ b.phase = "loopcond"
  BY <1>1 DEF BlockRecords, BlockPhases
<1> HIDE DEF b
<1>4. /\ Top.kind = "init" /\ Entered(Top)
      /\ pend["first"] \in Seq(Nat)
      /\ x \in DOMAIN code /\ code[x].op = "GOTO" /\ code[x].want = <<Top.id, "cond">>
      /\ \A i \in Entries(pend["first"]) : code[i].want[1] = Top.id => i = x
  BY <1>2, LoopTop
<1> HIDE DEF x
<1>5. /\ d \in Seq(OpRecords) /\ Len(d) = Len(code) /\ Extends(code, d)
      /\ \A i \in DOMAIN code : /\ d[i].cases = code[i].cases
                                /\ i \in {x} => d[i].to = Here
                                /\ i \notin {x} => d[i].to = code[i].to
  <2>1. code \in Seq(OpRecords) /\ Here \in Nat
    BY <1>1
  <2> QED
    BY ONLY <2>1, PatchIs
<1> HIDE DEF d
<1>6. /\ cs \in Seq(BlockRecords) /\ Len(cs) = Len(blocks) /\ cs[Len(blocks)] = b
      /\ SameBlocks(blocks, cs, Len(blocks)) /\ SamePhases(blocks, cs, Len(blocks) - 1)
      /\ Nested(cs, Len(marks)) /\ OneEval(cs, pend["eval"]) /\ Open(cs) = Open(blocks)
      /\ \A s \in JumpStacks \ {"first"} : OnStack(s, d, pend[s], cs, Len(marks))
      /\ ~ ElseNext(blocks)
  BY <1>2, <1>3, <1>5, LoopGoes
<1>7. /\ \A k \in DOMAIN blocks : k \in DOMAIN cs /\ cs[k].id = blocks[k].id
      /\ \A k \in DOMAIN blocks : blocks[k].id = Top.id => k = Len(blocks)
      /\ \A k \in DOMAIN blocks : blocks[k].id # Top.id =>
           cs[k].phase = blocks[k].phase /\ (Entered(cs[k]) <=> Entered(blocks[k]))
  BY <1>2, <1>3, <1>5, LoopGoes
<1> HIDE DEF cs
<1>8. DOMAIN cs = DOMAIN blocks /\ \A k \in DOMAIN cs : ~ (k > Len(blocks))
  BY <1>1, <1>6
<1>9. /\ r \in Seq([Places -> Nat]) /\ Len(r) = Len(marks) /\ DOMAIN r = DOMAIN marks
      /\ r[Top.id]["cond"] = Here
      /\ \A y \in DOMAIN marks : y # Top.id => r[y] = marks[y]
      /\ \A y \in DOMAIN marks : r[y]["end"] = marks[y]["end"] /\ r[y]["body"] = marks[y]["body"]
  <2> DEFINE n == [marks[Top.id] EXCEPT !["cond"] = Here]
  <2>1. Top.id \in DOMAIN marks
    BY <1>1
  <2>2. marks[Top.id] \in [Places -> Nat]
    BY <2>1, <1>1
  <2>3. n \in [Places -> Nat] /\ n["cond"] = Here /\ n["end"] = marks[Top.id]["end"]
        /\ n["body"] = marks[Top.id]["body"]
    BY <2>2, <1>1 DEF Places
  <2>4. r = [marks EXCEPT ![Top.id] = n]
    OBVIOUS
  <2> HIDE DEF n, r
  <2>5. r \in Seq([Places -> Nat]) /\ Len(r) = Len(marks) /\ DOMAIN r = DOMAIN marks
    BY <2>1, <2>3, <2>4, <1>1
  <2>6. \A y \in DOMAIN marks : r[y] = IF y = Top.id THEN n ELSE marks[y]
    BY <2>4
  <2> QED
    BY <2>1, <2>3, <2>5, <2>6
<1> HIDE DEF r
<1>10. ASSUME NEW k \in DOMAIN blocks
       PROVE  /\ Entered(cs[k]) <=> Entered(blocks[k])
              /\ blocks[k].phase = "done" => cs[k].phase = "done"
  <2>1. CASE blocks[k].id = Top.id
    <3>1. k = Len(blocks)
      BY <2>1, <1>7
    <3>2. cs[k] = b /\ blocks[k] = Top
      BY <3>1, <1>1, <1>6
    <3> QED
      BY <3>2, <1>2, <1>3, <1>4 DEF Entered
  <2>2. CASE blocks[k].id # Top.id
    BY <2>2, <1>7
  <2> QED
    BY <2>1, <2>2
<1>11. GoesOn(blocks, cs, pend, pend, marks, r)
  BY <1>6, <1>9, <1>10, TopGoesOn
<1>12. LoopIds(cs) = LoopIds(blocks)
  <2>1. Len(blocks) <= Len(cs)
    BY <1>1, <1>6
  <2> QED
    BY <2>1, <1>1, <1>6, <1>8, <1>10, LoopsSame
<1>13. Waiting(d, cs, pend, Len(r))
  <2>1. Matched(d, pend["first"], "GOTO", "cond", LoopIds(cs))
    BY <1>2, <1>5, <1>12, LoopTop
  <2>2. OnStack("first", d, pend["first"], cs, Len(marks))
    BY <2>1, OnStackIs
  <2> QED
    BY <2>2, <1>6, <1>9, WaitingIs
<1>14. BodiesMarked(d, cs, pend["first"], r)
  <2>1. \A j \in DOMAIN pend["first"] : pend["first"][j] \in DOMAIN code
    BY <1>1 DEF Waiting, Matched
  <2>2. ASSUME NEW k \in DOMAIN cs, Entered(cs[k])
        PROVE  k \in DOMAIN blocks /\ Entered(blocks[k]) /\ cs[k].id = blocks[k].id
               /\ r[blocks[k].id]["body"] = marks[blocks[k].id]["body"]
    <3>1. k \in DOMAIN blocks
      BY <1>8
    <3>2. blocks[k].id \in DOMAIN marks
      BY <3>1, <1>1 DEF BuilderOK, Nested, BlockOK
    <3> QED
      BY <3>1, <3>2, <2>2, <1>7, <1>9, <1>10
  <2>3. BodiesMarked(code, blocks, pend["first"], marks)
    BY <1>1 DEF BuilderOK, Landing
  <2>4. \A j \in DOMAIN pend["first"] : j \in DOMAIN pend["first"] /\ pend["first"][j] = pend["first"][j]
    OBVIOUS
  <2>5. code \in Seq(OpRecords) /\ Extends(code, d)
    BY <1>1, <1>5
  <2> QED
    BY <2>1, <2>2, <2>3, <2>4, <2>5, <1>5, BodiesStay
<1>15. ASSUME NEW i \in DOMAIN code, code[i].want # Nowhere, code[i].want[2] = "cond"
       PROVE  CondSettled(d, cs, pend, r, i)
  <2> DEFINE y == code[i].want[1]
  <2>1. Settled(code, blocks, pend, marks, i)
    BY <1>1, <1>15 DEF BuilderOK, Landing
  <2>2. y \in DOMAIN marks
    BY <2>1, <1>6 DEF Settled, Aims
  <2>3. CondSettled(code, blocks, pend, marks, i)
    BY <2>1 DEF Settled
  <2>4. d[i].want = code[i].want
    BY <1>5 DEF Extends
  <2>5. CASE y = Top.id
    <3>1. i \in Entries(pend["first"])
      BY <2>3, <2>5, <1>1, <1>2, <1>15 DEF CondSettled
    <3>2. i = x
      BY <3>1, <2>5, <1>4
    <3>3. d[i].to = r[y]["cond"]
      BY <3>2, <2>5, <1>5, <1>9
    <3>4. \A k \in DOMAIN cs : cs[k].id = y => cs[k].phase \notin {"init", "incr"}
      BY <2>5, <1>3, <1>6, <1>7, <1>8
    <3> QED
      BY <3>3, <3>4, <2>4 DEF CondSettled
  <2>6. CASE y # Top.id
    <3>1. i # x
      BY <2>6, <1>4
    <3>2. d[i].to = code[i].to /\ r[y]["cond"] = marks[y]["cond"]
      BY <3>1, <2>2, <2>6, <1>5, <1>9
    <3>3. \A k \in DOMAIN cs : cs[k].id = y =>
            k \in DOMAIN blocks /\ blocks[k].id = y /\ cs[k].phase = blocks[k].phase
      BY <2>6, <1>7, <1>8
    <3>4. \A k \in DOMAIN blocks : blocks[k].id = y =>
            k \in DOMAIN cs /\ cs[k].id = y /\ cs[k].phase = blocks[k].phase
      BY <2>6, <1>7
    <3> HIDE DEF y
    <3>5. \/ /\ code[i].to = marks[y]["cond"]
             /\ \A k \in DOMAIN blocks : blocks[k].id = y => blocks[k].phase \notin {"init", "incr"}
          \/ /\ i \in Entries(pend["first"])
             /\ \E k \in DOMAIN blocks : blocks[k].id = y /\ blocks[k].phase = "incr"
      BY <2>3, <1>15 DEF CondSettled, y
    <3>6. \/ /\ d[i].to = r[y]["cond"]
             /\ \A k \in DOMAIN cs : cs[k].id = y => cs[k].phase \notin {"init", "incr"}
          \/ /\ i \in Entries(pend["first"])
             /\ \E k \in DOMAIN cs : cs[k].id = y /\ cs[k].phase = "incr"
      BY <3>2, <3>3, <3>4, <3>5
    <3> QED
      BY <3>6, <2>4 DEF CondSettled, y
  <2> QED
    BY <2>5, <2>6
<1>16. ASSUME NEW i \in DOMAIN code
       PROVE  /\ \/ d[i].to = code[i].to
                 \/ code[i].want[2] = "cond"
              /\ (d[i].to = code[i].to /\ d[i].cases = code[i].cases) \/ Ranged(d, cs, r, i)
  <2>1. CASE i = x
    <3>1. d[i].op # "SWITCH"
      BY <2>1, <1>4, <1>5 DEF Extends
    <3> QED
      BY <3>1, <2>1, <1>4 DEF Ranged
  <2>2. CASE i # x
    BY <2>2, <1>5
  <2> QED
    BY <2>1, <2>2
<1>17. Typed(d, cs, pend, r)
  BY <1>1, <1>5, <1>6, <1>9 DEF Typed
<1>18. Grown(code, d, blocks, cs, pend, pend, marks, r)
  <2>1. \A i \in DOMAIN d : ~ (i > Len(code))
    BY <1>1, <1>5
  <2>2. Nested(cs, Len(r))
    BY <1>6, <1>9
  <2> QED
    BY <2>1, <2>2, <1>5, <1>6, <1>11, <1>13, <1>14, <1>15, <1>16, <1>17 DEF Grown
<1>19. BuilderOK(d, cs, pend, r)
  BY <1>1, <1>18, GrowStep
<1> QED
  BY <1>2, <1>19

LEMMA LoopConditionStep ==
  ASSUME JumpInv, blocks # <<>>, LoopCondition
  PROVE  BuilderOK(code', blocks', pend', marks')
<1> DEFINE b  == [Top EXCEPT !.phase = "done"]
           cs == SetTop(b)
           x  == Last(pend["first"])
           o1 == Op("IF", 0, <<Top.id, "body">>)
           o  == [o1 EXCEPT !.to = x + 1]
           d  == Append(code, o)
           i0 == Len(code) + 1
           q  == [pend EXCEPT !["first"] = Front(@)]
<1>1. /\ code \in Seq(OpRecords) /\ blocks \in Seq(BlockRecords) /\ pend \in [Stacks -> Seq(Nat)]
      /\ Top = blocks[Len(blocks)] /\ Len(marks) \in Nat /\ Top \in BlockRecords
      /\ marks \in Seq([Places -> Nat]) /\ Top.id \in 1 .. Len(marks) /\ Top.id \in Nat
      /\ Waiting(code, blocks, pend, Len(marks)) /\ Len(blocks) \in DOMAIN blocks
      /\ BuilderOK(code, blocks, pend, marks) /\ Len(code) \in Nat
  BY InvTyped DEF JumpInv
<1>2. /\ Top.phase = "loopcond" /\ code' = d /\ pend' = q /\ marks' = marks /\ blocks' = cs
  BY DEF LoopCondition, InPhase
<1>3. /\ b \in BlockRecords /\ b.id = Top.id /\ b.kind = Top.kind /\ b.base = Top.base
      /\ b.phase = "done"
  BY <1>1 DEF BlockRecords, BlockPhases
<1> HIDE DEF b
<1>4. /\ Top.kind = "init" /\ Entered(Top)
      /\ pend["first"] \in Seq(Nat) /\ pend["first"] # <<>>
      /\ Len(pend["first"]) \in DOMAIN pend["first"] /\ x = pend["first"][Len(pend["first"])]
      /\ x \in DOMAIN code /\ code[x].op = "GOTO" /\ code[x].want = <<Top.id, "cond">>
      /\ Front(pend["first"]) \in Seq(Nat)
  BY <1>2, LoopTop
<1>5. x \in Nat
  BY <1>1, <1>4
<1> HIDE DEF x
<1>6. /\ o \in OpRecords /\ o.op = "IF" /\ o.to = x + 1 /\ o.cases = {}
      /\ o.want = <<Top.id, "body">> /\ o.scope = Open(blocks)
  <2>1. <<Top.id, "body">> \in Nat \X Places /\ "IF" \in OpNames /\ 0 \in Nat
    BY <1>1 DEF Places, OpNames
  <2>2. /\ o1 \in OpRecords /\ o1.op = "IF" /\ o1.cases = {}
        /\ o1.want = <<Top.id, "body">> /\ o1.scope = Open(blocks)
    BY <2>1, OpIs
  <2> HIDE DEF o1
  <2> QED
    BY <2>2, <1>5 DEF OpRecords
<1> HIDE DEF o, o1
<1>7. /\ d \in Seq(OpRecords) /\ Len(d) = Len(code) + 1 /\ Extends(code, d)
      /\ (\A i \in DOMAIN code : d[i] = code[i])
      /\ d[i0] = o /\ i0 \in DOMAIN d /\ (\A i \in DOMAIN d : i > Len(code) => i = i0)
  BY <1>1, <1>6, Emitted
<1> HIDE DEF d, i0
<1>8. /\ cs \in Seq(BlockRecords) /\ Len(cs) = Len(blocks) /\ cs[Len(blocks)] = b
      /\ SameBlocks(blocks, cs, Len(blocks)) /\ SamePhases(blocks, cs, Len(blocks) - 1)
      /\ Nested(cs, Len(marks)) /\ OneEval(cs, pend["eval"]) /\ Open(cs) = Open(blocks)
      /\ \A s \in JumpStacks \ {"first"} : OnStack(s, d, pend[s], cs, Len(marks))
      /\ ~ ElseNext(blocks)
  BY <1>2, <1>3, <1>7, LoopGoes
<1>9. /\ \A k \in DOMAIN blocks : k \in DOMAIN cs /\ cs[k].id = blocks[k].id
      /\ \A k \in DOMAIN blocks : blocks[k].id = Top.id => k = Len(blocks)
      /\ \A k \in DOMAIN blocks : blocks[k].id # Top.id =>
           cs[k].phase = blocks[k].phase /\ (Entered(cs[k]) <=> Entered(blocks[k]))
  BY <1>2, <1>3, <1>7, LoopGoes
<1> HIDE DEF cs
<1>10. DOMAIN cs = DOMAIN blocks
  BY <1>1, <1>8
<1>11. /\ q \in [Stacks -> Seq(Nat)] /\ q["first"] = Front(pend["first"])
       /\ \A s \in Stacks : s # "first" => q[s] = pend[s]
  <2>1. "first" \in Stacks
    BY DEF Stacks
  <2> QED
    BY <2>1, <1>1, <1>4
<1> HIDE DEF q
<1>12. q["eval"] = pend["eval"] /\ \A s \in JumpStacks \ {"first"} : q[s] = pend[s]
  BY <1>11 DEF Stacks, JumpStacks
<1>13. ASSUME NEW k \in DOMAIN blocks, blocks[k].phase = "done" PROVE cs[k].phase = "done"
  <2>1. blocks[k].id # Top.id
    BY <1>1, <1>2, <1>9, <1>13
  <2> QED
    BY <2>1, <1>9, <1>13
<1>14. GoesOn(blocks, cs, pend, q, marks, marks)
  BY <1>8, <1>12, <1>13, TopGoesOn
<1>15. LoopIds(cs) = LoopIds(blocks) \ {Top.id}
  <2>1. ~ Entered(cs[Len(cs)])
    BY <1>3, <1>8 DEF Entered
  <2>2. Len(blocks) > 0 /\ Nested(blocks, Len(marks))
    BY InvTyped
  <2> QED
    BY <2>1, <2>2, <1>1, <1>8, LoopsDone
<1>16. Waiting(d, cs, q, Len(marks))
  <2>1. Matched(d, q["first"], "GOTO", "cond", LoopIds(cs))
    BY <1>2, <1>7, <1>11, <1>15, LoopTop
  <2>2. OnStack("first", d, q["first"], cs, Len(marks))
    BY <2>1, OnStackIs
  <2> QED
    BY <2>2, <1>8, <1>12, WaitingIs
<1>17. /\ \A y \in Entries(pend["first"]) : y = x \/ y \in Entries(q["first"])
       /\ \A j \in DOMAIN q["first"] : j \in DOMAIN pend["first"] /\ q["first"][j] = pend["first"][j]
  BY <1>4, <1>11, EntriesPopped DEF x
<1>18. BodiesMarked(d, cs, q["first"], marks)
  <2>1. \A j \in DOMAIN pend["first"] : pend["first"][j] \in DOMAIN code
    BY <1>1 DEF Waiting, Matched
  <2>2. ASSUME NEW k \in DOMAIN cs, Entered(cs[k])
        PROVE  k \in DOMAIN blocks /\ Entered(blocks[k]) /\ cs[k].id = blocks[k].id
               /\ marks[blocks[k].id]["body"] = marks[blocks[k].id]["body"]
    <3>1. k \in DOMAIN blocks
      BY <1>10
    <3>2. CASE blocks[k].id = Top.id
      <4>1. k = Len(blocks)
        BY <3>1, <3>2, <1>9
      <4> QED
        BY <4>1, <2>2, <1>3, <1>8 DEF Entered
    <3>3. CASE blocks[k].id # Top.id
      BY <3>1, <3>3, <2>2, <1>9
    <3> QED
      BY <3>2, <3>3
  <2>3. BodiesMarked(code, blocks, pend["first"], marks)
    BY <1>1 DEF BuilderOK, Landing
  <2>5. code \in Seq(OpRecords) /\ Extends(code, d)
    BY <1>1, <1>7
  <2> QED
    BY <2>1, <2>2, <2>3, <2>5, <1>7, <1>17, BodiesStay
<1>19. ASSUME NEW i \in DOMAIN code, code[i].want # Nowhere, code[i].want[2] = "cond"
       PROVE  CondSettled(d, cs, q, marks, i)
  <2> DEFINE y == code[i].want[1]
  <2>1. Settled(code, blocks, pend, marks, i)
    BY <1>1, <1>19 DEF BuilderOK, Landing
  <2>2. d[i] = code[i]
    BY <1>7
  <2>3. \/ /\ code[i].to = marks[y]["cond"]
           /\ \A k \in DOMAIN blocks : blocks[k].id = y => blocks[k].phase \notin {"init", "incr"}
        \/ /\ i \in Entries(pend["first"])
           /\ \E k \in DOMAIN blocks : blocks[k].id = y /\ blocks[k].phase = "incr"
    BY <2>1, <1>19 DEF Settled, CondSettled
  <2>4. CASE y = Top.id
    <3>1. \A k \in DOMAIN blocks : blocks[k].id = y => blocks[k] = Top
      BY <2>4, <1>1, <1>9
    <3>2. code[i].to = marks[y]["cond"]
      BY <2>3, <3>1, <1>2
    <3>3. \A k \in DOMAIN cs : cs[k].id = y => cs[k].phase \notin {"init", "incr"}
      BY <2>4, <1>3, <1>8, <1>9, <1>10
    <3> QED
      BY <3>2, <3>3, <2>2 DEF CondSettled
  <2>5. CASE y # Top.id
    <3>1. i # x
      BY <2>5, <1>4
    <3>2. \A k \in DOMAIN blocks : blocks[k].id = y => cs[k].phase = blocks[k].phase
      BY <2>5, <1>9
    <3> HIDE DEF y
    <3>3. \/ /\ d[i].to = marks[y]["cond"]
             /\ \A k \in DOMAIN cs : cs[k].id = y => cs[k].phase \notin {"init", "incr"}
          \/ /\ i \in Entries(q["first"])
             /\ \E k \in DOMAIN cs : cs[k].id = y /\ cs[k].phase = "incr"
      BY <2>2, <2>3, <3>1, <3>2, <1>9, <1>10, <1>17
    <3> QED
      BY <3>3, <2>2 DEF CondSettled, y
  <2> QED
    BY <2>4, <2>5
<1>20. ASSUME NEW i \in DOMAIN d, i > Len(code)
       PROVE  /\ Open(blocks) \subseteq d[i].scope
              /\ d[i].want # Nowhere => Settled(d, cs, q, marks, i)
              /\ Ranged(d, cs, marks, i)
  <2>1. d[i] = o
    BY <1>7, <1>20
  <2>2. d[i].want[1] = Top.id /\ d[i].want[2] = "body" /\ d[i].op = "IF" /\ d[i].to = x + 1
        /\ d[i].scope = Open(blocks)
    BY <2>1, <1>6
  <2>3. Aims(d, cs, q, marks, i)
    BY <2>2, <1>1 DEF Aims
  <2>4. EndSettled(d, cs, q, marks, i) /\ CondSettled(d, cs, q, marks, i) /\ Ranged(d, cs, marks, i)
    BY <2>2 DEF EndSettled, CondSettled, Ranged
  <2>5. BodySettled(d, cs, marks, i)
    <3>1. marks[Top.id]["body"] = x + 1
      <4>1. BodiesMarked(code, blocks, pend["first"], marks)
        BY <1>1 DEF BuilderOK, Landing
      <4>2. code[pend["first"][Len(pend["first"])]].want[1] = blocks[Len(blocks)].id
        BY <1>1, <1>4
      <4>3. Entered(blocks[Len(blocks)])
        BY <1>1, <1>4
      <4> QED
        BY <4>1, <4>2, <4>3, <1>1, <1>4 DEF BodiesMarked
    <3>2. \A k \in DOMAIN cs : cs[k].id = Top.id => cs[k].phase = "done"
      BY <1>3, <1>8, <1>9, <1>10
    <3> QED
      BY <3>1, <3>2, <2>2 DEF BodySettled
  <2> QED
    BY <2>2, <2>3, <2>4, <2>5 DEF Settled
<1>21. Typed(d, cs, q, marks)
  BY <1>1, <1>7, <1>8, <1>11 DEF Typed
<1>22. Grown(code, d, blocks, cs, pend, q, marks, marks)
  <2>1. \A i \in DOMAIN code : d[i].to = code[i].to /\ d[i].cases = code[i].cases
    BY <1>7
  <2>2. OneEval(cs, q["eval"])
    BY <1>8, <1>12
  <2> QED
    BY <2>1, <2>2, <1>7, <1>8, <1>14, <1>16, <1>18, <1>19, <1>20, <1>21 DEF Grown
<1>23. BuilderOK(d, cs, q, marks)
  BY <1>1, <1>22, GrowStep
<1> QED
  BY <1>2, <1>23

LEMMA OpenLoopBodyStep ==
  ASSUME JumpInv, blocks # <<>>, OpenLoopBody
  PROVE  BuilderOK(code', blocks', pend', marks')
<1> DEFINE b  == [Top EXCEPT !.phase = "incr"]
           a  == Block("loop", "stmts", Len(pend["next"]))
           cs == Append(SetTop(b), a)
           o  == Op("GOTO", 0, <<Top.id, "cond">>)
           d  == Append(code, o)
           x  == Len(code) + 1
           q  == [pend EXCEPT !["first"] = Append(@, x)]
           m1 == [marks EXCEPT ![Top.id]["body"] = x + 1]
           r  == Append(m1, Unmarked)
<1>1. /\ code \in Seq(OpRecords) /\ blocks \in Seq(BlockRecords) /\ pend \in [Stacks -> Seq(Nat)]
      /\ Top = blocks[Len(blocks)] /\ Len(marks) \in Nat /\ Top \in BlockRecords
      /\ marks \in Seq([Places -> Nat]) /\ Top.id \in 1 .. Len(marks) /\ Top.id \in Nat
      /\ Nested(blocks, Len(marks)) /\ OneEval(blocks, pend["eval"])
      /\ Waiting(code, blocks, pend, Len(marks)) /\ Len(blocks) \in DOMAIN blocks
      /\ BuilderOK(code, blocks, pend, marks) /\ Len(code) \in Nat /\ MayBe(Top)
      /\ Top.kind \in BlockKinds /\ Len(blocks) > 0
      /\ (\A y \in Open(blocks) : y \in Nat /\ y <= Top.id)
  BY InvTyped DEF JumpInv
<1>2. /\ Top.phase = "init" /\ code' = d /\ pend' = q /\ marks' = r /\ blocks' = cs
  BY DEF OpenLoopBody, InPhase, Here
<1>3. /\ b \in BlockRecords /\ b.id = Top.id /\ b.kind = Top.kind /\ b.base = Top.base
      /\ b.phase = "incr"
  BY <1>1 DEF BlockRecords, BlockPhases
<1> HIDE DEF b
<1>4. Top.kind = "init" /\ ~ Entered(Top) /\ ~ ElseNext(blocks)
  <2>1. "init" \in PhasesOf[Top.kind] /\ Top.kind \in BlockKinds
    BY <1>1, <1>2 DEF MayBe
  <2>2. Top.kind = "init"
    BY ONLY <2>1 DEF PhasesOf, BlockKinds
  <2> QED
    BY <2>2, <1>1, <1>2 DEF Entered, ElseNext, ElsePhases
<1>5. /\ a \in BlockRecords
      /\ a.id = Len(marks) + 1 /\ a.kind = "loop" /\ a.phase = "stmts" /\ a.base = Len(pend["next"])
  <2>1. pend["next"] \in Seq(Nat)
    BY <1>1, PendTyped
  <2>2. "loop" \in BlockKinds /\ "stmts" \in BlockPhases /\ Len(pend["next"]) \in Nat
    BY <2>1 DEF BlockKinds, BlockPhases
  <2> QED
    BY <2>2, NewBlockIs
<1> HIDE DEF a
<1>6. /\ cs \in Seq(BlockRecords) /\ Len(cs) = Len(blocks) + 1
      /\ cs[Len(blocks)] = b /\ cs[Len(cs)] = a
      /\ SameBlocks(blocks, cs, Len(blocks)) /\ SamePhases(blocks, cs, Len(blocks) - 1)
      /\ ~ ElseNext(cs)
  <2>1. a.phase \notin ElsePhases
    BY <1>5 DEF ElsePhases
  <2> QED
    BY <2>1, <1>3, <1>5, BlockOpened
<1> HIDE DEF cs
<1>7. /\ o \in OpRecords /\ o.op = "GOTO" /\ o.to = 0 /\ o.cases = {}
      /\ o.want = <<Top.id, "cond">> /\ o.scope = Open(blocks)
  <2>1. <<Top.id, "cond">> \in Nat \X Places /\ "GOTO" \in OpNames /\ 0 \in Nat
    BY <1>1 DEF Places, OpNames
  <2> QED
    BY <2>1, OpIs
<1> HIDE DEF o
<1>8. /\ d \in Seq(OpRecords) /\ Len(d) = Len(code) + 1 /\ Extends(code, d)
      /\ (\A i \in DOMAIN code : d[i] = code[i])
      /\ d[x] = o /\ x \in DOMAIN d /\ (\A i \in DOMAIN d : i > Len(code) => i = x) /\ x \in Nat
  BY <1>1, <1>7, Emitted
<1> HIDE DEF d
<1>9. /\ q \in [Stacks -> Seq(Nat)] /\ q["first"] = Append(pend["first"], x) /\ x \in Entries(q["first"])
      /\ pend["first"] \in Seq(Nat)
      /\ \A s \in Stacks : s # "first" => q[s] = pend[s]
      /\ \A s \in JumpStacks : Entries(pend[s]) \subseteq Entries(q[s])
  <2>1. "first" \in Stacks
    BY DEF Stacks
  <2> HIDE DEF x
  <2> QED
    BY <2>1, <1>1, <1>8, JumpPushed
<1> HIDE DEF q
<1>10. q["eval"] = pend["eval"] /\ \A s \in JumpStacks \ {"first"} : q[s] = pend[s]
  BY <1>9 DEF Stacks, JumpStacks
<1>11. /\ r \in Seq([Places -> Nat]) /\ Len(r) = Len(marks) + 1
       /\ r[Top.id]["body"] = x + 1
       /\ \A y \in DOMAIN marks : y \in DOMAIN r /\ (y # Top.id => r[y] = marks[y])
       /\ \A y \in DOMAIN marks : r[y]["end"] = marks[y]["end"] /\ r[y]["cond"] = marks[y]["cond"]
  <2> DEFINE n == [marks[Top.id] EXCEPT !["body"] = x + 1]
  <2>1. Top.id \in DOMAIN marks
    BY <1>1
  <2>2. marks[Top.id] \in [Places -> Nat]
    BY <2>1, <1>1
  <2>3. n \in [Places -> Nat] /\ n["body"] = x + 1 /\ n["end"] = marks[Top.id]["end"]
        /\ n["cond"] = marks[Top.id]["cond"]
    <3>1. x + 1 \in Nat
      BY <1>8
    <3> HIDE DEF x
    <3> QED
      BY <3>1, <2>2 DEF Places
  <2>4. m1 = [marks EXCEPT ![Top.id] = n] /\ r = Append(m1, Unmarked)
    OBVIOUS
  <2> HIDE DEF n, m1, r, x
  <2>5. m1 \in Seq([Places -> Nat]) /\ Len(m1) = Len(marks) /\ DOMAIN m1 = DOMAIN marks
    BY <2>1, <2>3, <2>4, <1>1
  <2>6. \A y \in DOMAIN marks : m1[y] = IF y = Top.id THEN n ELSE marks[y]
    BY <2>4
  <2>7. Unmarked \in [Places -> Nat]
    BY DEF Unmarked
  <2>8. /\ r \in Seq([Places -> Nat]) /\ Len(r) = Len(marks) + 1
        /\ \A y \in DOMAIN m1 : r[y] = m1[y] /\ y \in DOMAIN r
    BY <2>4, <2>5, <2>7
  <2> QED
    BY <2>1, <2>3, <2>5, <2>6, <2>8
<1> HIDE DEF r, m1
<1>12. /\ DOMAIN blocks = 1 .. Len(blocks) /\ Len(blocks) \in Nat /\ DOMAIN cs = 1 .. Len(blocks) + 1
       /\ \A k \in DOMAIN cs : k > Len(blocks) => k = Len(cs)
       /\ \A k \in DOMAIN cs : k \in DOMAIN blocks \/ k = Len(cs)
       /\ \A k \in DOMAIN blocks : k \in DOMAIN cs
       /\ Len(blocks) <= Len(cs) /\ Len(cs) <= Len(blocks) + 1
  <2>1. Len(blocks) \in Nat /\ DOMAIN blocks = 1 .. Len(blocks) /\ DOMAIN cs = 1 .. Len(blocks) + 1
    BY <1>1, <1>6
  <2> QED
    BY ONLY <2>1, Len(cs) = Len(blocks) + 1, <1>6
<1>13. ASSUME NEW k \in DOMAIN blocks
       PROVE  /\ cs[k].id = blocks[k].id /\ blocks[k].id \in DOMAIN marks
              /\ blocks[k].id = Top.id => k = Len(blocks)
              /\ k # Len(blocks) => cs[k].phase = blocks[k].phase /\ (Entered(cs[k]) <=> Entered(blocks[k]))
  <2>1. cs[k].id = blocks[k].id /\ cs[k].kind = blocks[k].kind
    BY <1>6, <1>12 DEF SameBlocks
  <2>2. blocks[k].id \in DOMAIN marks
    BY <1>1 DEF Nested, BlockOK
  <2>3. blocks[k].id = Top.id => k = Len(blocks)
    BY <1>1, IdsAreOpen
  <2>4. k # Len(blocks) => cs[k].phase = blocks[k].phase
    <3>1. k # Len(blocks) => k \in 1 .. Len(blocks) - 1
      BY <1>12
    <3> QED
      BY <3>1, <1>6 DEF SamePhases
  <2> QED
    BY <2>1, <2>2, <2>3, <2>4 DEF Entered
<1>14. Entered(cs[Len(blocks)]) /\ ~ Entered(cs[Len(cs)])
  BY <1>3, <1>4, <1>5, <1>6 DEF Entered
<1>15. Nested(cs, Len(r))
  <2>1. MayBe(b) /\ MayBe(a)
    BY <1>3, <1>4, <1>5 DEF MayBe, PhasesOf
  <2>2. a.kind = "if" <=> b.phase \in ElsePhases
    BY <1>3, <1>5 DEF ElsePhases
  <2>3. Nested(cs, Len(marks) + 1)
    BY <2>1, <2>2, <1>1, <1>3, <1>4, <1>5, <1>6, NestedOpened
  <2> QED
    BY <2>3, <1>11
<1>16. \A kinds : "loop" \notin kinds => IdsOf(cs, kinds) = IdsOf(blocks, kinds)
  BY <1>1, <1>5, <1>6, IdsOpened
<1>17. OneEval(cs, q["eval"])
  <2>1. IdsOf(cs, {"eval"}) = IdsOf(blocks, {"eval"})
    BY <1>16
  <2> QED
    BY <2>1, <1>1, <1>10 DEF OneEval
<1>18. Waiting(d, cs, q, Len(r))
  <2>1. ASSUME NEW s \in JumpStacks \ {"first"} PROVE OnStack(s, d, q[s], cs, Len(r))
    <3>1. OnStack(s, code, pend[s], blocks, Len(marks)) /\ q[s] = pend[s]
      BY <1>1, <1>10, WaitingIs
    <3>2. pend[s] \in Seq(Nat)
      BY <1>1 DEF JumpStacks, Stacks
    <3>3. ElseIds(cs, Len(r)) = ElseIds(blocks, Len(marks))
      BY <1>4, <1>6, <1>16 DEF ElseIds
    <3>4. /\ s = "last" => \A k \in DOMAIN cs : k > Len(blocks) /\ cs[k].kind \in {"init", "switch"} => cs[k].base = Len(pend[s])
          /\ s = "next" => \A k \in DOMAIN cs : k > Len(blocks) /\ cs[k].kind \in {"loop"} => cs[k].base = Len(pend[s])
      BY <1>5, <1>6, <1>12
    <3>5. SameOnStack(s, pend[s], blocks, cs, Len(marks), Len(r))
      BY <3>3, <3>4, <1>16 DEF SameOnStack
    <3> QED
      BY <3>1, <3>2, <3>5, <1>1, <1>6, <1>8, <1>12, StackKept
  <2>2. LoopIds(cs) = LoopIds(blocks) \cup {Top.id}
    BY <1>1, <1>6, <1>14, LoopsEntered
  <2>3. LoopIds(blocks) \in SUBSET Nat /\ \A y \in LoopIds(blocks) : y < Top.id
    <3>1. LoopIds(blocks) \subseteq Open(blocks) /\ Top.id \notin LoopIds(blocks)
      BY <1>1, <1>4, IdsAreOpen
    <3> QED
      BY <3>1, <1>1
  <2>4. Matched(code, pend["first"], "GOTO", "cond", LoopIds(blocks))
    BY <1>1 DEF Waiting
  <2>5. /\ code \in Seq(OpRecords) /\ d \in Seq(OpRecords) /\ Extends(code, d) /\ pend["first"] \in Seq(Nat)
        /\ x \in DOMAIN d /\ Top.id \in Nat /\ d[x].op = "GOTO" /\ d[x].want = <<Top.id, "cond">>
    BY <1>1, <1>7, <1>8, <1>9
  <2>6. Matched(d, Append(pend["first"], x), "GOTO", "cond", LoopIds(blocks) \cup {Top.id})
    <3> HIDE DEF x
    <3> QED
      BY ONLY <2>3, <2>4, <2>5, MatchedPush
  <2>7. OnStack("first", d, q["first"], cs, Len(r))
    BY <2>2, <2>6, <1>9, OnStackIs
  <2> QED
    BY <2>1, <2>7, WaitingIs
<1>19. GoesOn(blocks, cs, pend, q, marks, r)
  <2>1. \A y \in DOMAIN marks : r[y]["end"] = marks[y]["end"]
    BY <1>11
  <2>2. ASSUME NEW y \in DOMAIN marks
        PROVE  \/ r[y]["body"] = marks[y]["body"]
               \/ \E k \in DOMAIN blocks : blocks[k].id = y /\ blocks[k].phase # "done"
    <3>1. CASE y = Top.id
      <4>1. blocks[Len(blocks)].id = y /\ blocks[Len(blocks)].phase # "done"
        BY <3>1, <1>1, <1>2
      <4> QED
        BY <4>1, <1>1
    <3>2. CASE y # Top.id
      BY <3>2, <1>11
    <3> QED
      BY <3>1, <3>2
  <2>3. \A k \in DOMAIN cs : k > Len(blocks) =>
          cs[k].id = Len(marks) + 1 /\ (ElseNext(blocks) => cs[k].kind = "else")
    BY <1>4, <1>5, <1>6, <1>12
  <2>4. ElseNext(blocks) => Len(cs) > Len(blocks) /\ Len(r) > Len(marks)
    BY <1>4
  <2>5. Len(marks) <= Len(r)
    BY <1>1, <1>11
  <2>6. \A s \in JumpStacks \ {"first"} : Entries(pend[s]) \subseteq Entries(q[s])
    BY <1>9
  <2>7. \A k \in DOMAIN blocks : blocks[k].phase = "done" => cs[k].phase = "done"
    <3>1. blocks[Len(blocks)].phase # "done"
      BY <1>1, <1>2
    <3> QED
      BY <3>1, <1>13
  <2>8. blocks \in Seq(BlockRecords) /\ cs \in Seq(BlockRecords) /\ Nested(blocks, Len(marks))
        /\ Len(blocks) <= Len(cs) /\ SameBlocks(blocks, cs, Len(blocks))
    BY <1>1, <1>6, <1>12
  <2> QED
    BY ONLY <2>1, <2>2, <2>3, <2>4, <2>5, <2>6, <2>7, <2>8 DEF GoesOn
<1>20. BodiesMarked(d, cs, q["first"], r)
  <2>1. SUFFICES ASSUME NEW k \in DOMAIN cs, Entered(cs[k]),
                        NEW j \in DOMAIN q["first"], d[q["first"][j]].want[1] = cs[k].id
                 PROVE  r[cs[k].id]["body"] = q["first"][j] + 1
    BY DEF BodiesMarked
  <2>2. k \in DOMAIN blocks
    BY <2>1, <1>12, <1>14
  <2>3. (j \in DOMAIN pend["first"] /\ q["first"][j] = pend["first"][j]) \/ q["first"][j] = x
    <3> HIDE DEF x
    <3> QED
      BY <1>8, <1>9
  <2>4. ASSUME NEW i \in DOMAIN pend["first"]
        PROVE  /\ pend["first"][i] \in DOMAIN code
               /\ code[pend["first"][i]].want[1] \in LoopIds(blocks)
    BY <1>1 DEF Waiting, Matched
  <2>5. Top.id \notin LoopIds(blocks)
    BY <1>1, <1>4, IdsAreOpen
  <2>6. CASE q["first"][j] = x
    <3>1. cs[k].id = Top.id
      BY <2>1, <2>6, <1>7, <1>8
    <3> QED
      BY <2>6, <3>1, <1>11
  <2>7. CASE j \in DOMAIN pend["first"] /\ q["first"][j] = pend["first"][j]
    <3> DEFINE y == pend["first"][j]
    <3>1. y \in DOMAIN code /\ code[y].want[1] \in LoopIds(blocks) /\ d[y] = code[y]
      BY <2>4, <2>7, <1>8
    <3>2. code[y].want[1] = blocks[k].id /\ cs[k].id = blocks[k].id /\ blocks[k].id # Top.id
          /\ blocks[k].id \in DOMAIN marks
      BY <2>1, <2>2, <2>5, <2>7, <3>1, <1>13
    <3>3. Entered(blocks[k])
      BY <2>1, <2>2, <3>2, <1>1, <1>13
    <3>4. marks[blocks[k].id]["body"] = y + 1
      <4>1. BodiesMarked(code, blocks, pend["first"], marks)
        BY <1>1 DEF BuilderOK, Landing
      <4> QED
        BY <4>1, <2>2, <2>7, <3>2, <3>3 DEF BodiesMarked
    <3>5. r[blocks[k].id] = marks[blocks[k].id]
      BY <3>2, <1>11
    <3> QED
      BY <2>7, <3>2, <3>4, <3>5
  <2> QED
    BY <2>3, <2>6, <2>7
<1>21. ASSUME NEW i \in DOMAIN code, code[i].want # Nowhere PROVE CondSettled(d, cs, q, r, i)
  <2>1. Settled(code, blocks, pend, marks, i)
    BY <1>1, <1>21 DEF BuilderOK, Landing
  <2>2. d[i].to = code[i].to /\ Entries(pend["first"]) \subseteq Entries(q["first"])
    BY <1>8, <1>9 DEF JumpStacks
  <2>3. \A y \in DOMAIN marks : r[y]["cond"] = marks[y]["cond"]
    BY <1>11
  <2>4. \A k \in DOMAIN blocks :
          /\ blocks[k].phase \notin {"init", "incr"} => cs[k].phase \notin {"init", "incr"}
          /\ blocks[k].phase = "incr" => cs[k].phase = "incr"
    <3>1. blocks[Len(blocks)].phase = "init"
      BY <1>1, <1>2
    <3> QED
      BY <3>1, <1>13
  <2> QED
    BY <2>1, <2>2, <2>3, <2>4, <1>1, <1>6, <1>8, <1>11, <1>19, CondStays
<1>22. ASSUME NEW i \in DOMAIN d, i > Len(code)
       PROVE  /\ Open(blocks) \subseteq d[i].scope
              /\ d[i].want # Nowhere => Settled(d, cs, q, r, i)
              /\ Ranged(d, cs, r, i)
  <2>1. d[i] = o /\ i = x
    BY <1>8, <1>22
  <2>2. d[i].want[1] = Top.id /\ d[i].want[2] = "cond" /\ d[i].op = "GOTO" /\ d[i].scope = Open(blocks)
    BY <2>1, <1>7
  <2>3. Aims(d, cs, q, r, i)
    <3>1. Top.id \in DOMAIN r
      BY <1>1, <1>11
    <3> QED
      BY <3>1, <2>2 DEF Aims
  <2>4. EndSettled(d, cs, q, r, i) /\ BodySettled(d, cs, r, i) /\ Ranged(d, cs, r, i)
    BY <2>2 DEF EndSettled, BodySettled, Ranged
  <2>5. CondSettled(d, cs, q, r, i)
    <3>1. cs[Len(blocks)].id = Top.id /\ cs[Len(blocks)].phase = "incr" /\ Len(blocks) \in DOMAIN cs
      BY <1>1, <1>3, <1>6, <1>12
    <3> QED
      BY <3>1, <2>1, <2>2, <1>9 DEF CondSettled
  <2> QED
    BY <2>2, <2>3, <2>4, <2>5 DEF Settled
<1>23. Typed(d, cs, q, r)
  BY <1>6, <1>8, <1>9, <1>11 DEF Typed
<1>24. Grown(code, d, blocks, cs, pend, q, marks, r)
  <2>1. \A i \in DOMAIN code : d[i].to = code[i].to /\ d[i].cases = code[i].cases
    BY <1>8
  <2> QED
    BY <2>1, <1>8, <1>15, <1>17, <1>18, <1>19, <1>20, <1>21, <1>22, <1>23 DEF Grown
<1>25. BuilderOK(d, cs, q, r)
  BY <1>1, <1>24, GrowStep
<1> QED
  BY <1>2, <1>25

-----------------------------------------------------------------------------
(* The end of a block.                                                     *)

LEMMA BlocksBelow ==
  ASSUME NEW bs \in Seq(BlockRecords), NEW h \in Nat, h <= Len(bs)
  PROVE  /\ SubSeq(bs, 1, h) \in Seq(BlockRecords) /\ Len(SubSeq(bs, 1, h)) = h
         /\ \A k \in 1 .. h : SubSeq(bs, 1, h)[k] = bs[k]
OBVIOUS

LEMMA BlockPopped ==
  ASSUME JumpInv, blocks # <<>>
  PROVE  Closed(blocks, PopBlock)
<1> DEFINE rest == Front(blocks)
           cs   == PopBlock
<1>1. blocks \in Seq(BlockRecords) /\ Len(blocks) \in Nat /\ Len(blocks) > 0 /\ Top \in BlockRecords
  BY InvTyped
<1>2. rest = SubSeq(blocks, 1, Len(blocks) - 1)
  BY <1>1 DEF Front
<1>3. /\ rest \in Seq(BlockRecords) /\ Len(rest) = Len(blocks) - 1
      /\ DOMAIN rest = 1 .. Len(blocks) - 1
      /\ \A k \in 1 .. Len(blocks) - 1 : rest[k] = blocks[k] /\ rest[k] \in BlockRecords
  <2> DEFINE h == Len(blocks) - 1
  <2> HIDE DEF rest
  <2>1. h \in Nat /\ h <= Len(blocks) /\ blocks \in Seq(BlockRecords) /\ rest = SubSeq(blocks, 1, h)
    BY <1>1, <1>2
  <2> HIDE DEF h
  <2>2. /\ rest \in Seq(BlockRecords) /\ Len(rest) = h
        /\ \A k \in 1 .. h : rest[k] = blocks[k]
    BY ONLY <2>1, BlocksBelow
  <2>3. DOMAIN rest = 1 .. Len(rest)
    BY ONLY <2>2
  <2>4. \A k \in 1 .. h : rest[k] \in BlockRecords
    BY ONLY <2>2, <2>3
  <2> QED
    BY <2>2, <2>3, <2>4 DEF h
<1> HIDE DEF rest
<1>4. CASE rest = <<>>
  <2>1. cs = <<>> /\ Len(rest) = 0
    BY <1>4 DEF PopBlock, rest
  <2>2. cs \in Seq(BlockRecords) /\ Len(cs) = 0
    BY <2>1
  <2>3. Len(cs) = Len(blocks) - 1 /\ \A k \in 1 .. Len(cs) : FALSE
    BY <2>1, <2>2, <1>3, <1>1
  <2> QED
    BY <2>2, <2>3 DEF Closed, SameBlocks, SamePhases
<1>5. CASE rest # <<>>
  <2> DEFINE b == [rest[Len(rest)] EXCEPT !.have = @ \/ Top.have]
  <2>1. cs = [rest EXCEPT ![Len(rest)] = b]
    BY <1>5 DEF PopBlock, rest
  <2>2. Len(rest) \in DOMAIN rest /\ rest[Len(rest)] \in BlockRecords
    BY <1>3, <1>5
  <2>3. /\ b \in BlockRecords /\ b.id = rest[Len(rest)].id /\ b.kind = rest[Len(rest)].kind
        /\ b.base = rest[Len(rest)].base /\ b.phase = rest[Len(rest)].phase
        /\ b.resume = rest[Len(rest)].resume
    <3>1. Top.have \in BOOLEAN
      BY <1>1 DEF BlockRecords
    <3>2. rest[Len(rest)].have \in BOOLEAN
      BY <2>2 DEF BlockRecords
    <3>3. (rest[Len(rest)].have \/ Top.have) \in BOOLEAN
      BY <3>1, <3>2
    <3> QED
      BY <3>3, <2>2 DEF BlockRecords
  <2> HIDE DEF b, cs
  <2>4. /\ cs \in Seq(BlockRecords) /\ Len(cs) = Len(rest)
        /\ \A k \in DOMAIN rest : cs[k] = IF k = Len(rest) THEN b ELSE rest[k]
    BY <2>1, <2>2, <2>3, <1>3
  <2>5. \A k \in 1 .. Len(cs) :
          /\ cs[k].id = blocks[k].id /\ cs[k].kind = blocks[k].kind /\ cs[k].base = blocks[k].base
          /\ cs[k].phase = blocks[k].phase /\ cs[k].resume = blocks[k].resume
    BY <2>3, <2>4, <1>3
  <2> QED
    BY <2>4, <2>5, <1>3 DEF Closed, SameBlocks, SamePhases, cs
<1> QED
  BY <1>4, <1>5

(* Opcodes emitted behind the end of the block.                            *)
LEMMA FinishedBehind ==
  ASSUME NEW c \in Seq(OpRecords), NEW d \in Seq(OpRecords), NEW bs, NEW p, NEW n, NEW e,
         Finished(c, d, bs, p, n, e), e <= Len(d) + 1,
         NEW o \in OpRecords, o.op # "SWITCH", o.want = Nowhere,
         Open(bs) \ {bs[Len(bs)].id} \subseteq o.scope
  PROVE  Append(d, o) \in Seq(OpRecords) /\ Finished(c, Append(d, o), bs, p, n, e)
         /\ e <= Len(Append(d, o)) + 1
<1> DEFINE f == Append(d, o)
           top == bs[Len(bs)]
<1>1. /\ f \in Seq(OpRecords) /\ Len(f) = Len(d) + 1
      /\ f[Len(d) + 1] = o
      /\ \A i \in DOMAIN d : f[i] = d[i] /\ i \in DOMAIN f
      /\ \A i \in DOMAIN f : i \in DOMAIN d \/ i = Len(d) + 1
      /\ Len(d) \in Nat /\ Len(c) \in Nat
  <2> HIDE DEF OpRecords
  <2> QED
    OBVIOUS
<1> HIDE DEF f
<1>2. Extends(c, d) /\ e \in Nat
  BY DEF Finished
<1>3. \A i \in DOMAIN c : i \in DOMAIN d
  BY <1>2, ExtendsDomain
<1>4. Extends(c, f)
  BY <1>1, <1>2, <1>3 DEF Extends
<1>5. ASSUME NEW i \in DOMAIN f, i > Len(c)
      PROVE  /\ f[i].op # "SWITCH"
             /\ f[i].want = Nowhere \/ (top.kind = "if" /\ i = Len(c) + 1)
             /\ Open(bs) \ {top.id} \subseteq f[i].scope
             /\ i < e => top.id \in f[i].scope
  <2>1. CASE i \in DOMAIN d
    BY <2>1, <1>1, <1>5 DEF Finished
  <2>2. CASE i = Len(d) + 1
    <3>1. ~ (i < e)
      BY <2>2, <1>1, <1>2
    <3> QED
      BY <2>2, <3>1, <1>1
  <2> QED
    BY <2>1, <2>2, <1>1
<1>6. \A i \in DOMAIN c : /\ i \in Patched(bs, p) => f[i].to = e
                          /\ i \notin Patched(bs, p) => f[i].to = c[i].to
                          /\ f[i].cases = c[i].cases
  BY <1>1, <1>3 DEF Finished
<1>7. top.kind = "if" => /\ Len(c) + 1 \in DOMAIN f /\ f[Len(c) + 1].op = "GOTO"
                         /\ f[Len(c) + 1].want = <<n + 1, "end">>
  BY <1>1 DEF Finished
<1>8. Len(c) + 1 <= e /\ e <= Len(f) + 1
  BY <1>1, <1>2 DEF Finished
<1>9. top.kind = "switch" => c[Last(p["switch"])].to # 0
  BY DEF Finished
<1>10. Finished(c, f, bs, p, n, e)
  BY <1>2, <1>4, <1>5, <1>6, <1>7, <1>8, <1>9 DEF Finished
<1> QED
  BY <1>1, <1>8, <1>10 DEF f

(* The LEAVE_SCOPE of the block, if it has one.                            *)
LEMMA LeftFinished ==
  ASSUME JumpInv, blocks # <<>>, NEW c \in Seq(OpRecords), NEW e \in Nat, e <= Len(c) + 1,
         Finished(code, c, blocks, pend, Len(marks), e)
  PROVE  /\ Left(c) \in Seq(OpRecords) /\ e <= Len(Left(c)) + 1
         /\ Finished(code, Left(c), blocks, pend, Len(marks), e)
<1> DEFINE o == Op("LEAVE_SCOPE", Top.top, Nowhere)
           l == LeaveScopeOp(Top.top)
<1>1. /\ code \in Seq(OpRecords) /\ Top \in BlockRecords /\ Top = blocks[Len(blocks)]
      /\ Len(marks) \in Nat
  BY InvTyped
<1>2. "LEAVE_SCOPE" \in OpNames /\ Top.top \in Nat /\ Nowhere \in Nat \X Places
  BY <1>1 DEF OpNames, BlockRecords, Nowhere, Places
<1>3. /\ o \in OpRecords /\ o.op = "LEAVE_SCOPE" /\ o.want = Nowhere /\ o.scope = Open(blocks)
  BY <1>2, OpIs
<1> HIDE DEF o
<1>4. l = [o EXCEPT !.scope = @ \ {Top.id}]
  BY DEF LeaveScopeOp, o
<1> HIDE DEF l
<1>5. /\ l \in OpRecords /\ l.op = "LEAVE_SCOPE" /\ l.want = Nowhere
      /\ l.scope = Open(blocks) \ {Top.id}
  BY <1>3, <1>4 DEF OpRecords
<1>6. CASE Top.have
  <2>1. Left(c) = Append(c, l)
    BY <1>6 DEF Left, l
  <2>2. Open(blocks) \ {blocks[Len(blocks)].id} \subseteq l.scope
    BY <1>1, <1>5
  <2>3. l.op # "SWITCH" /\ l.want = Nowhere /\ l \in OpRecords
    BY <1>5
  <2>4. /\ c \in Seq(OpRecords) /\ code \in Seq(OpRecords) /\ e <= Len(c) + 1
        /\ Finished(code, c, blocks, pend, Len(marks), e)
    BY <1>1
  <2>5. /\ Append(c, l) \in Seq(OpRecords) /\ e <= Len(Append(c, l)) + 1
        /\ Finished(code, Append(c, l), blocks, pend, Len(marks), e)
    BY ONLY <2>2, <2>3, <2>4, FinishedBehind
  <2> QED
    BY <2>1, <2>5
<1>7. CASE ~ Top.have
  <2>1. Left(c) = c
    BY <1>7 DEF Left
  <2> QED
    BY <2>1
<1> QED
  BY <1>6, <1>7

(* The jumps to the end of the block are patched.                          *)
LEMMA PatchedFinished ==
  ASSUME JumpInv, blocks # <<>>, Top.kind # "if",
         Top.kind = "switch" => code[Last(pend["switch"])].to # 0,
         NEW S, S = Patched(blocks, pend)
  PROVE  /\ Patch(code, S, Here) \in Seq(OpRecords) /\ Here \in Nat
         /\ Len(Patch(code, S, Here)) = Len(code)
         /\ Finished(code, Patch(code, S, Here), blocks, pend, Len(marks), Here)
<1> DEFINE d == Patch(code, S, Here)
<1>1. code \in Seq(OpRecords) /\ Top = blocks[Len(blocks)] /\ Len(code) \in Nat
  BY InvTyped
<1>2. Here \in Nat /\ Here = Len(code) + 1
  BY <1>1 DEF Here
<1>3. /\ d \in Seq(OpRecords) /\ Len(d) = Len(code) /\ Extends(code, d)
      /\ \A i \in DOMAIN code : /\ i \in S => d[i].to = Here
                                /\ i \notin S => d[i].to = code[i].to
                                /\ d[i].cases = code[i].cases
  <2>1. code \in Seq(OpRecords) /\ Here \in Nat
    BY <1>1, <1>2
  <2> QED
    BY ONLY <2>1, PatchIs
<1> HIDE DEF d
<1>4. Len(code) + 1 <= Here /\ Here <= Len(d) + 1
  BY <1>1, <1>2, <1>3
<1>5. \A i \in DOMAIN d : ~ (i > Len(code))
  BY <1>1, <1>3
<1>6. Finished(code, d, blocks, pend, Len(marks), Here)
  <2>1. \A i \in DOMAIN code : /\ i \in Patched(blocks, pend) => d[i].to = Here
                               /\ i \notin Patched(blocks, pend) => d[i].to = code[i].to
                               /\ d[i].cases = code[i].cases
    BY <1>3
  <2>2. blocks[Len(blocks)].kind # "if"
        /\ (blocks[Len(blocks)].kind = "switch" => code[Last(pend["switch"])].to # 0)
    BY <1>1
  <2> QED
    BY ONLY <2>1, <2>2, <1>2, <1>3, <1>4, <1>5 DEF Finished
<1> QED
  BY <1>2, <1>3, <1>6 DEF d

(* A block ends whose jumps are patched and off their stacks.              *)
LEMMA EndStep ==
  ASSUME JumpInv, blocks # <<>>, Closing(blocks),
         NEW c \in Seq(OpRecords), Finished(code, c, blocks, pend, Len(marks), Len(c) + 1),
         NEW q \in [Stacks -> Seq(Nat)], Released(blocks, pend, q, Here),
         CloseWith(c)
  PROVE  BuilderOK(code', blocks', q, marks')
<1>1. code' = Left(c) /\ blocks' = PopBlock /\ marks' = [marks EXCEPT ![Top.id]["end"] = Len(c) + 1]
  BY DEF CloseWith, Close
<1>2. Top = blocks[Len(blocks)] /\ BuilderOK(code, blocks, pend, marks) /\ Len(c) + 1 \in Nat
  BY InvTyped DEF JumpInv
<1>3. Closed(blocks, PopBlock)
  BY BlockPopped
<1>4. Left(c) \in Seq(OpRecords) /\ Finished(code, Left(c), blocks, pend, Len(marks), Len(c) + 1)
  <2>1. Len(c) + 1 <= Len(c) + 1
    BY <1>2
  <2> QED
    BY <2>1, <1>2, LeftFinished
<1>5. Released(blocks, pend, q, Len(code) + 1)
  BY DEF Here
<1>6. BuilderOK(Left(c), PopBlock, q, [marks EXCEPT ![blocks[Len(blocks)].id]["end"] = Len(c) + 1])
  <2>1. /\ q \in [Stacks -> Seq(Nat)] /\ BuilderOK(code, blocks, pend, marks)
        /\ Closing(blocks)
    BY <1>2
  <2> QED
    BY ONLY <2>1, <1>3, <1>4, <1>5, CloseStep
<1> QED
  BY <1>1, <1>2, <1>6

-----------------------------------------------------------------------------
(* The ends of the blocks of each kind.                                    *)

LEMMA MayClose ==
  ASSUME JumpInv, blocks # <<>>, Top.phase \in {"stmts", "done", "operand", "empty", "labels"},
         Top.kind = "init" => Top.phase = "done"
  PROVE  Closing(blocks)
<1>1. Top = blocks[Len(blocks)]
  BY InvTyped
<1>2. Top.phase \notin ElsePhases /\ Top.phase # "incr"
  BY DEF ElsePhases
<1>3. ~ Entered(Top)
  BY DEF Entered
<1> QED
  BY <1>1, <1>2, <1>3 DEF Closing, ElseNext

(* A block ends that is not a true block, and patches the jumps to its end *)
(* in front of its LEAVE_SCOPE.                                            *)
LEMMA EndPatched ==
  ASSUME JumpInv, blocks # <<>>, Top.kind # "if",
         Top.phase \in {"stmts", "done", "operand", "empty", "labels"},
         Top.kind = "init" => Top.phase = "done",
         Top.kind = "switch" => code[Last(pend["switch"])].to # 0,
         NEW S, S = Patched(blocks, pend),
         NEW q \in [Stacks -> Seq(Nat)], Released(blocks, pend, q, Here),
         CloseWith(Patch(code, S, Here))
  PROVE  BuilderOK(code', blocks', q, marks')
<1> DEFINE c == Patch(code, S, Here)
<1>1. Closing(blocks)
  BY MayClose
<1>2. /\ c \in Seq(OpRecords) /\ Here \in Nat /\ Len(c) = Len(code)
      /\ Finished(code, c, blocks, pend, Len(marks), Here)
  <2>1. /\ JumpInv /\ blocks # <<>> /\ Top.kind # "if"
        /\ Top.kind = "switch" => code[Last(pend["switch"])].to # 0
        /\ S = Patched(blocks, pend)
    OBVIOUS
  <2> QED
    BY ONLY <2>1, PatchedFinished
<1>3. Here = Len(c) + 1
  BY <1>2 DEF Here
<1>4. Finished(code, c, blocks, pend, Len(marks), Len(c) + 1)
  BY <1>2, <1>3
<1>5. CloseWith(c)
  OBVIOUS
<1> HIDE DEF c
<1>6. /\ JumpInv /\ blocks # <<>> /\ q \in [Stacks -> Seq(Nat)] /\ Released(blocks, pend, q, Here)
  OBVIOUS
<1> QED
  BY ONLY <1>1, <1>2, <1>4, <1>5, <1>6, EndStep

LEMMA ClosePlainStep ==
  ASSUME JumpInv, blocks # <<>>, ClosePlain
  PROVE  BuilderOK(code', blocks', pend', marks')
<1>1. /\ Top.kind = "plain" /\ Top.phase \in {"stmts", "done"} /\ CloseWith(code) /\ pend' = pend
  BY DEF ClosePlain
<1>2. /\ code \in Seq(OpRecords) /\ pend \in [Stacks -> Seq(Nat)] /\ Top = blocks[Len(blocks)]
      /\ Len(code) \in Nat
  BY InvTyped
<1>3. Closing(blocks)
  BY <1>1, MayClose
<1>4. Released(blocks, pend, pend, Here)
  BY <1>1, <1>2 DEF Released
<1>5. Finished(code, code, blocks, pend, Len(marks), Len(code) + 1)
  <2>1. Patched(blocks, pend) = {}
    BY <1>1, <1>2 DEF Patched
  <2>2. Extends(code, code)
    BY <1>2 DEF Extends
  <2>3. \A i \in DOMAIN code : ~ (i > Len(code))
    BY <1>2
  <2>4. Len(code) + 1 \in Nat /\ Len(code) + 1 <= Len(code) + 1
    BY <1>2
  <2>5. blocks[Len(blocks)].kind # "if" /\ blocks[Len(blocks)].kind # "switch"
    BY <1>1, <1>2
  <2> QED
    BY ONLY <2>1, <2>2, <2>3, <2>4, <2>5 DEF Finished
<1>6. JumpInv /\ blocks # <<>>
  OBVIOUS
<1>7. BuilderOK(code', blocks', pend, marks')
  BY ONLY <1>1, <1>2, <1>3, <1>4, <1>5, <1>6, EndStep
<1> QED
  BY <1>1, <1>7

LEMMA CloseElseStep ==
  ASSUME JumpInv, blocks # <<>>, CloseElse
  PROVE  BuilderOK(code', blocks', pend', marks')
<1> DEFINE S == {Last(pend["end"])}
           q == [pend EXCEPT !["end"] = Front(@)]
<1>1. /\ Top.kind = "else" /\ Top.phase \in {"stmts", "done", "operand", "empty"}
      /\ CloseWith(Patch(code, S, Here)) /\ pend' = q
  BY DEF CloseElse
<1>2. /\ code \in Seq(OpRecords) /\ blocks \in Seq(BlockRecords) /\ pend \in [Stacks -> Seq(Nat)]
      /\ Top = blocks[Len(blocks)] /\ Len(marks) \in Nat /\ Nested(blocks, Len(marks))
      /\ Waiting(code, blocks, pend, Len(marks)) /\ Len(blocks) \in DOMAIN blocks
      /\ Closing(blocks) /\ (\A b \in Open(blocks) : b \in Nat /\ b <= Top.id)
  BY <1>1, InvTyped, MayClose
<1>3. S = Patched(blocks, pend)
  BY <1>1, <1>2 DEF Patched
<1>4. /\ pend["end"] # <<>> /\ Front(pend["end"]) \in Seq(Nat)
  <2>1. ElseIds(blocks, Len(marks)) = IdsOf(blocks, {"else"})
    BY <1>2 DEF ElseIds, Closing
  <2>2. /\ IdsOf(blocks, {"else"}) \in SUBSET Nat /\ Top.id \in IdsOf(blocks, {"else"})
        /\ \A b \in IdsOf(blocks, {"else"}) : b <= Top.id
    <3>1. IdsOf(blocks, {"else"}) \subseteq Open(blocks)
      BY <1>2, IdsAreOpen
    <3>2. Top.id \in IdsOf(blocks, {"else"})
      BY <1>1, <1>2, IdsAreOpen
    <3> QED
      BY <3>1, <3>2, <1>2
  <2>3. /\ Matched(code, pend["end"], "GOTO", "end", IdsOf(blocks, {"else"}))
        /\ pend["end"] \in Seq(Nat) /\ code \in Seq(OpRecords) /\ Extends(code, code)
    BY <2>1, <1>2, PendTyped DEF Waiting, Extends
  <2>4. pend["end"] # <<>>
    BY ONLY <2>2, <2>3, MatchedLast
  <2>5. Front(pend["end"]) \in Seq(Nat)
    BY ONLY <2>2, <2>3, MatchedPop
  <2> QED
    BY <2>4, <2>5
<1>5. q \in [Stacks -> Seq(Nat)]
  BY <1>2, <1>4
<1>6. Released(blocks, pend, q, Here)
  BY <1>1, <1>2 DEF Released, Stacks
<1>7. /\ JumpInv /\ blocks # <<>> /\ Top.kind # "if"
      /\ Top.phase \in {"stmts", "done", "operand", "empty", "labels"}
      /\ Top.kind # "init" /\ Top.kind # "switch" /\ CloseWith(Patch(code, S, Here))
  BY <1>1
<1> HIDE DEF S, q
<1>8. BuilderOK(code', blocks', q, marks')
  BY ONLY <1>3, <1>5, <1>6, <1>7, EndPatched
<1> QED
  BY <1>1, <1>8

(* The stack of the jumps that wait for the innermost block.               *)
LEMMA LastIsThere ==
  ASSUME JumpInv, blocks # <<>>, NEW s \in Seq(Nat), NEW op,
         Matched(code, s, op, "end", IdsOf(blocks, {Top.kind}))
  PROVE  s # <<>> /\ Front(s) \in Seq(Nat) /\ Last(s) \in DOMAIN code
<1> DEFINE ids == IdsOf(blocks, {Top.kind})
<1>1. /\ code \in Seq(OpRecords) /\ blocks \in Seq(BlockRecords)
      /\ Top = blocks[Len(blocks)] /\ Len(marks) \in Nat /\ Nested(blocks, Len(marks))
      /\ Len(blocks) \in DOMAIN blocks /\ (\A b \in Open(blocks) : b \in Nat /\ b <= Top.id)
  BY InvTyped
<1>2. ids \in SUBSET Nat /\ Top.id \in ids /\ \A b \in ids : b <= Top.id
  <2>1. ids \subseteq Open(blocks)
    BY <1>1, IdsAreOpen
  <2>2. Top.id \in ids
    BY <1>1, IdsAreOpen
  <2> QED
    BY <2>1, <2>2, <1>1
<1>3. Matched(code, s, op, "end", ids) /\ s \in Seq(Nat) /\ code \in Seq(OpRecords) /\ Extends(code, code)
  BY <1>1 DEF Extends
<1> HIDE DEF ids
<1>4. s # <<>> /\ Last(s) \in DOMAIN code
  BY ONLY <1>2, <1>3, MatchedLast
<1>5. Front(s) \in Seq(Nat)
  BY ONLY <1>2, <1>3, MatchedPop
<1> QED
  BY <1>4, <1>5

LEMMA CloseLoopBodyStep ==
  ASSUME JumpInv, blocks # <<>>, CloseLoopBody
  PROVE  BuilderOK(code', blocks', pend', marks')
<1> DEFINE S == EntriesFrom(pend["next"], Top.base)
           q == [pend EXCEPT !["next"] = SubSeq(@, 1, Top.base)]
<1>1. /\ Top.kind = "loop" /\ Top.phase \in {"stmts", "done"}
      /\ CloseWith(Patch(code, S, Here)) /\ pend' = q
  BY DEF CloseLoopBody
<1>2. /\ blocks \in Seq(BlockRecords) /\ pend \in [Stacks -> Seq(Nat)]
      /\ Top = blocks[Len(blocks)] /\ Len(blocks) \in DOMAIN blocks
      /\ Waiting(code, blocks, pend, Len(marks))
  BY InvTyped
<1>3. S = Patched(blocks, pend)
  BY <1>1, <1>2 DEF Patched
<1>4. pend["next"] \in Seq(Nat) /\ Top.base \in Nat /\ Top.base <= Len(pend["next"])
  BY <1>1, <1>2, PendTyped, BaseTyped DEF Waiting, Segmented
<1>5. q \in [Stacks -> Seq(Nat)]
  <2>1. SubSeq(pend["next"], 1, Top.base) \in Seq(Nat)
    BY <1>4, EntriesCut
  <2> QED
    BY <2>1, <1>2
<1>6. Released(blocks, pend, q, Here)
  BY <1>1, <1>2 DEF Released, Stacks
<1>7. /\ JumpInv /\ blocks # <<>> /\ Top.kind # "if"
      /\ Top.phase \in {"stmts", "done", "operand", "empty", "labels"}
      /\ Top.kind # "init" /\ Top.kind # "switch" /\ CloseWith(Patch(code, S, Here))
  BY <1>1
<1> HIDE DEF S, q
<1>8. BuilderOK(code', blocks', q, marks')
  BY ONLY <1>3, <1>5, <1>6, <1>7, EndPatched
<1> QED
  BY <1>1, <1>8

LEMMA CloseLoopStep ==
  ASSUME JumpInv, blocks # <<>>, CloseLoop
  PROVE  BuilderOK(code', blocks', pend', marks')
<1> DEFINE S == EntriesFrom(pend["last"], Top.base)
           q == [pend EXCEPT !["last"] = SubSeq(@, 1, Top.base)]
<1>1. /\ Top.kind = "init" /\ Top.phase = "done"
      /\ CloseWith(Patch(code, S, Here)) /\ pend' = q
  BY DEF CloseLoop, InPhase
<1>2. /\ blocks \in Seq(BlockRecords) /\ pend \in [Stacks -> Seq(Nat)]
      /\ Top = blocks[Len(blocks)] /\ Len(blocks) \in DOMAIN blocks
      /\ Waiting(code, blocks, pend, Len(marks))
  BY InvTyped
<1>3. S = Patched(blocks, pend)
  BY <1>1, <1>2 DEF Patched
<1>4. pend["last"] \in Seq(Nat) /\ Top.base \in Nat /\ Top.base <= Len(pend["last"])
  BY <1>1, <1>2, PendTyped, BaseTyped DEF Waiting, Segmented
<1>5. q \in [Stacks -> Seq(Nat)]
  <2>1. SubSeq(pend["last"], 1, Top.base) \in Seq(Nat)
    BY <1>4, EntriesCut
  <2> QED
    BY <2>1, <1>2
<1>6. Released(blocks, pend, q, Here)
  BY <1>1, <1>2 DEF Released, Stacks
<1>7. /\ JumpInv /\ blocks # <<>> /\ Top.kind # "if" /\ Top.phase = "done"
      /\ Top.phase \in {"stmts", "done", "operand", "empty", "labels"}
      /\ Top.kind # "switch" /\ CloseWith(Patch(code, S, Here))
  BY <1>1
<1> HIDE DEF S, q
<1>8. BuilderOK(code', blocks', q, marks')
  BY ONLY <1>3, <1>5, <1>6, <1>7, EndPatched
<1> QED
  BY <1>1, <1>8

LEMMA CloseEvalStep ==
  ASSUME JumpInv, blocks # <<>>, CloseEval
  PROVE  BuilderOK(code', blocks', pend', marks')
<1> DEFINE S == EntriesFrom(pend["catch"], 0)
           q == [pend EXCEPT !["catch"] = <<>>, !["eval"] = Front(@)]
<1>1. /\ Top.kind = "eval" /\ Top.phase \in {"stmts", "done"}
      /\ CloseWith(Patch(code, S, Here)) /\ pend' = q
  BY DEF CloseEval
<1>2. /\ blocks \in Seq(BlockRecords) /\ pend \in [Stacks -> Seq(Nat)]
      /\ Top = blocks[Len(blocks)] /\ Len(blocks) \in DOMAIN blocks
      /\ Waiting(code, blocks, pend, Len(marks)) /\ OneEval(blocks, pend["eval"])
      /\ Nested(blocks, Len(marks)) /\ Len(marks) \in Nat
  BY InvTyped
<1>3. S = Patched(blocks, pend)
  BY <1>1, <1>2 DEF Patched
<1>4. Front(pend["eval"]) = <<>>
  <2>1. Top.id \in IdsOf(blocks, {"eval"})
    BY <1>1, <1>2, IdsAreOpen
  <2>2. pend["eval"] \in Seq(Nat) /\ pend["eval"] # <<>> /\ Len(pend["eval"]) <= 1
    BY <2>1, <1>2, PendTyped DEF OneEval
  <2> QED
    BY <2>2 DEF Front
<1>5. q \in [Stacks -> Seq(Nat)]
  <2>1. <<>> \in Seq(Nat)
    OBVIOUS
  <2> QED
    BY <2>1, <1>2, <1>4
<1>6. Released(blocks, pend, q, Here)
  BY <1>1, <1>2 DEF Released, Stacks
<1>7. /\ JumpInv /\ blocks # <<>> /\ Top.kind # "if"
      /\ Top.phase \in {"stmts", "done", "operand", "empty", "labels"}
      /\ Top.kind # "init" /\ Top.kind # "switch" /\ CloseWith(Patch(code, S, Here))
  BY <1>1
<1> HIDE DEF S, q
<1>8. BuilderOK(code', blocks', q, marks')
  BY ONLY <1>3, <1>5, <1>6, <1>7, EndPatched
<1> QED
  BY <1>1, <1>8

LEMMA CloseSwitchStep ==
  ASSUME JumpInv, blocks # <<>>, CloseSwitch
  PROVE  BuilderOK(code', blocks', pend', marks')
<1> DEFINE S == EntriesFrom(pend["last"], Top.base)
           q == [pend EXCEPT !["last"] = SubSeq(@, 1, Top.base), !["switch"] = Front(@)]
<1>1. /\ Top.kind = "switch" /\ Top.phase \in {"labels", "stmts"}
      /\ code[Last(pend["switch"])].to # 0
      /\ CloseWith(Patch(code, S, Here)) /\ pend' = q
  BY DEF CloseSwitch, AtLabel
<1>2. /\ blocks \in Seq(BlockRecords) /\ pend \in [Stacks -> Seq(Nat)]
      /\ Top = blocks[Len(blocks)] /\ Len(blocks) \in DOMAIN blocks
      /\ Waiting(code, blocks, pend, Len(marks))
  BY InvTyped
<1>3. S = Patched(blocks, pend)
  BY <1>1, <1>2 DEF Patched
<1>4. /\ pend["last"] \in Seq(Nat) /\ Top.base \in Nat /\ Top.base <= Len(pend["last"])
      /\ pend["switch"] \in Seq(Nat)
  BY <1>1, <1>2, PendTyped, BaseTyped DEF Waiting, Segmented
<1>5. q \in [Stacks -> Seq(Nat)]
  <2>1. SubSeq(pend["last"], 1, Top.base) \in Seq(Nat)
    BY <1>4, EntriesCut
  <2>2. Front(pend["switch"]) \in Seq(Nat)
    <3>1. Matched(code, pend["switch"], "SWITCH", "end", IdsOf(blocks, {Top.kind}))
      BY <1>1, <1>2 DEF Waiting
    <3> QED
      BY <3>1, <1>4, LastIsThere
  <2> QED
    BY <2>1, <2>2, <1>2
<1>6. Released(blocks, pend, q, Here)
  BY <1>1, <1>2 DEF Released, Stacks
<1>7. /\ JumpInv /\ blocks # <<>> /\ Top.kind # "if"
      /\ Top.phase \in {"stmts", "done", "operand", "empty", "labels"}
      /\ Top.kind # "init" /\ code[Last(pend["switch"])].to # 0
      /\ CloseWith(Patch(code, S, Here))
  BY <1>1
<1> HIDE DEF S, q
<1>8. BuilderOK(code', blocks', q, marks')
  BY ONLY <1>3, <1>5, <1>6, <1>7, EndPatched
<1> QED
  BY <1>1, <1>8

LEMMA CloseIfStep ==
  ASSUME JumpInv, blocks # <<>>, CloseIf
  PROVE  BuilderOK(code', blocks', pend', marks')
<1> DEFINE o == Op("GOTO", 0, <<NewBlock, "end">>)
           c == Append(code, o)
           test == Last(pend["if"])
           d == Patch(c, {test}, Len(c) + 1)
           q == [pend EXCEPT !["end"] = Append(@, Here), !["if"] = Front(@)]
<1>1. /\ Top.kind = "if" /\ Top.phase \in {"stmts", "done", "operand", "empty"}
      /\ CloseWith(d) /\ pend' = q
  BY DEF CloseIf
<1>2. /\ code \in Seq(OpRecords) /\ blocks \in Seq(BlockRecords) /\ pend \in [Stacks -> Seq(Nat)]
      /\ Top = blocks[Len(blocks)] /\ Len(marks) \in Nat /\ Len(code) \in Nat
      /\ Waiting(code, blocks, pend, Len(marks)) /\ Top.id \in Open(blocks)
      /\ Closing(blocks)
  BY <1>1, InvTyped, MayClose
<1>3. /\ pend["if"] \in Seq(Nat) /\ pend["end"] \in Seq(Nat) /\ Front(pend["if"]) \in Seq(Nat)
      /\ test \in DOMAIN code /\ Here \in Nat /\ Here = Len(code) + 1
  <2>1. Matched(code, pend["if"], "IF", "end", IdsOf(blocks, {Top.kind})) /\ pend["if"] \in Seq(Nat)
    BY <1>1, <1>2, PendTyped DEF Waiting
  <2>2. Front(pend["if"]) \in Seq(Nat) /\ test \in DOMAIN code
    BY <2>1, LastIsThere
  <2> QED
    BY <2>1, <2>2, <1>2, PendTyped DEF Here
<1>4. q \in [Stacks -> Seq(Nat)]
  <2>1. Append(pend["end"], Here) \in Seq(Nat)
    BY <1>3
  <2> QED
    BY <2>1, <1>2, <1>3
<1>5. Released(blocks, pend, q, Here)
  BY <1>1, <1>2 DEF Released, Stacks
<1>6. /\ o \in OpRecords /\ o.op = "GOTO" /\ o.want = <<Len(marks) + 1, "end">> /\ o.scope = Open(blocks)
  <2>1. <<Len(marks) + 1, "end">> \in Nat \X Places /\ "GOTO" \in OpNames /\ 0 \in Nat
    BY <1>2 DEF Places, OpNames
  <2> QED
    BY <2>1, OpIs DEF NewBlock
<1> HIDE DEF o
<1>7. /\ c \in Seq(OpRecords) /\ Len(c) = Len(code) + 1 /\ Extends(code, c)
      /\ (\A i \in DOMAIN code : c[i] = code[i] /\ i \in DOMAIN c)
      /\ c[Len(code) + 1] = o /\ Len(code) + 1 \in DOMAIN c
      /\ (\A i \in DOMAIN c : i > Len(code) => i = Len(code) + 1)
  <2>1. /\ c \in Seq(OpRecords) /\ Len(c) = Len(code) + 1 /\ Extends(code, c)
        /\ (\A i \in DOMAIN code : c[i] = code[i])
        /\ c[Len(code) + 1] = o /\ Len(code) + 1 \in DOMAIN c
        /\ (\A i \in DOMAIN c : i > Len(code) => i = Len(code) + 1)
    BY <1>2, <1>6, Emitted
  <2>2. \A i \in DOMAIN code : i \in DOMAIN c
    BY <2>1, <1>2, ExtendsDomain
  <2> QED
    BY <2>1, <2>2
<1> HIDE DEF c
<1>8. c \in Seq(OpRecords) /\ Len(c) + 1 \in Nat
  BY <1>2, <1>7
<1>9. /\ d \in Seq(OpRecords) /\ Len(d) = Len(c) /\ DOMAIN d = DOMAIN c /\ Extends(c, d)
      /\ \A i \in DOMAIN c : /\ i \in {test} => d[i].to = Len(c) + 1
                             /\ i \notin {test} => d[i].to = c[i].to
                             /\ d[i].cases = c[i].cases
  BY ONLY <1>8, PatchIs
<1> HIDE DEF d
<1>10. Finished(code, d, blocks, pend, Len(marks), Len(d) + 1)
  <2> DEFINE e == Len(d) + 1
  <2>1. e = Len(c) + 1 /\ e \in Nat /\ Len(code) + 1 <= e /\ e <= Len(d) + 1
    BY <1>2, <1>7, <1>8, <1>9
  <2> HIDE DEF e
  <2>2. Patched(blocks, pend) = {test}
    BY <1>1, <1>2 DEF Patched
  <2>3. \A i \in DOMAIN code : /\ i \in Patched(blocks, pend) => d[i].to = e
                               /\ i \notin Patched(blocks, pend) => d[i].to = code[i].to
                               /\ d[i].cases = code[i].cases
    BY <2>1, <2>2, <1>7, <1>9
  <2>4. \A i \in DOMAIN c : d[i].op = c[i].op /\ d[i].want = c[i].want /\ d[i].scope = c[i].scope
    BY <1>9 DEF Extends
  <2>5. Extends(code, d)
    BY <2>4, <1>2, <1>7, <1>9 DEF Extends
  <2>6. /\ Len(code) + 1 \in DOMAIN d /\ d[Len(code) + 1].op = "GOTO"
        /\ d[Len(code) + 1].want = <<Len(marks) + 1, "end">>
        /\ d[Len(code) + 1].scope = Open(blocks)
    BY <2>4, <1>6, <1>7, <1>9
  <2>7. \A i \in DOMAIN d : i > Len(code) => i = Len(code) + 1
    BY <1>7, <1>9
  <2>8. blocks[Len(blocks)].kind = "if" /\ blocks[Len(blocks)].id \in Open(blocks)
    BY <1>1, <1>2
  <2>9. Finished(code, d, blocks, pend, Len(marks), e)
    BY ONLY <2>1, <2>3, <2>5, <2>6, <2>7, <2>8 DEF Finished
  <2> QED
    BY <2>9 DEF e
<1>11. JumpInv /\ blocks # <<>>
  OBVIOUS
<1> HIDE DEF q
<1>12. BuilderOK(code', blocks', q, marks')
  BY ONLY <1>1, <1>2, <1>4, <1>5, <1>9, <1>10, <1>11, EndStep
<1> QED
  BY <1>1, <1>12

LEMMA CloseSubStep ==
  ASSUME JumpInv, blocks # <<>>, CloseSub
  PROVE  BuilderOK(code', blocks', pend', marks') /\ blocks' = <<>>
<1> DEFINE S == EntriesFrom(pend["return"], 0) \cup EntriesFrom(pend["uncaught"], 0)
           c == Patch(code, S, Here)
           o == [Op("END_SUB", 0, Nowhere) EXCEPT !.scope = {}]
           d == Append(Left(c), o)
           q == [pend EXCEPT !["return"] = <<>>, !["uncaught"] = <<>>]
<1>1. /\ Top.kind = "sub" /\ Top.phase = "done" /\ blocks' = PopBlock /\ pend' = q
      /\ code' = d /\ marks' = [marks EXCEPT ![Top.id]["end"] = Len(c) + 1]
  BY DEF CloseSub, Close, InPhase
<1>2. /\ code \in Seq(OpRecords) /\ blocks \in Seq(BlockRecords) /\ pend \in [Stacks -> Seq(Nat)]
      /\ Top = blocks[Len(blocks)] /\ Len(blocks) \in DOMAIN blocks /\ Nested(blocks, Len(marks))
      /\ Closing(blocks) /\ BuilderOK(code, blocks, pend, marks) /\ Len(blocks) \in Nat
      /\ DOMAIN blocks = 1 .. Len(blocks)
  <2>1. Top.phase \in {"stmts", "done", "operand", "empty", "labels"} /\ Top.kind # "init"
    BY <1>1
  <2> QED
    BY <2>1, InvTyped, MayClose DEF JumpInv
<1>3. Len(blocks) = 1
  BY <1>1, <1>2 DEF Nested, BlockOK
<1>4. S = Patched(blocks, pend)
  BY <1>1, <1>2 DEF Patched
<1>5. q \in [Stacks -> Seq(Nat)]
  <2>1. <<>> \in Seq(Nat)
    OBVIOUS
  <2> QED
    BY <2>1, <1>2
<1>6. Released(blocks, pend, q, Len(code) + 1)
  BY <1>1, <1>2 DEF Released, Stacks
<1>7. /\ c \in Seq(OpRecords) /\ Here \in Nat /\ Len(c) = Len(code)
      /\ Finished(code, c, blocks, pend, Len(marks), Here)
  <2>1. JumpInv /\ blocks # <<>> /\ Top.kind # "if" /\ Top.kind # "switch" /\ S = Patched(blocks, pend)
    BY <1>1, <1>4
  <2> QED
    BY ONLY <2>1, PatchedFinished
<1> HIDE DEF c
<1>8. Here = Len(c) + 1 /\ Here <= Len(c) + 1
  BY <1>7 DEF Here
<1>9. /\ Left(c) \in Seq(OpRecords) /\ Here <= Len(Left(c)) + 1
      /\ Finished(code, Left(c), blocks, pend, Len(marks), Here)
  <2>1. JumpInv /\ blocks # <<>>
    OBVIOUS
  <2> QED
    BY ONLY <2>1, <1>7, <1>8, LeftFinished
<1>10. o \in OpRecords /\ o.op # "SWITCH" /\ o.want = Nowhere
  <2> DEFINE b == Op("END_SUB", 0, Nowhere)
  <2>1. "END_SUB" \in OpNames /\ 0 \in Nat /\ Nowhere \in Nat \X Places
    BY DEF OpNames, Nowhere, Places
  <2>2. b \in OpRecords /\ b.op = "END_SUB" /\ b.want = Nowhere
    BY <2>1, OpIs
  <2>3. o = [b EXCEPT !.scope = {}]
    OBVIOUS
  <2> HIDE DEF b, o
  <2> QED
    BY <2>2, <2>3 DEF OpRecords
<1> HIDE DEF o
<1>11. Open(blocks) \ {blocks[Len(blocks)].id} \subseteq o.scope
  <2>1. Open(blocks) \ {blocks[Len(blocks)].id} = {}
    BY <1>2, <1>3 DEF Open
  <2> QED
    BY <2>1
<1>12. d \in Seq(OpRecords) /\ Finished(code, d, blocks, pend, Len(marks), Here)
  BY ONLY <1>2, <1>9, <1>10, <1>11, FinishedBehind
<1> HIDE DEF d
<1>13. Closed(blocks, PopBlock)
  BY BlockPopped
<1> HIDE DEF q
<1>14. BuilderOK(d, PopBlock, q, [marks EXCEPT ![blocks[Len(blocks)].id]["end"] = Here])
  BY ONLY <1>2, <1>5, <1>6, <1>12, <1>13, CloseStep
<1>15. PopBlock = <<>>
  BY <1>3, <1>13 DEF Closed
<1> QED
  BY <1>1, <1>2, <1>8, <1>14, <1>15

-----------------------------------------------------------------------------
(* Every step of the builder keeps the invariant.                          *)

LEMMA NotEmptied ==
  ASSUME NEW S, NEW s \in Seq(S), s # <<>>, NEW a, NEW b
  PROVE  /\ Append(s, a) # <<>>
         /\ [s EXCEPT ![Len(s)] = b] # <<>>
         /\ Append([s EXCEPT ![Len(s)] = b], a) # <<>>
<1> DEFINE T == S \cup {a, b}
           t == [s EXCEPT ![Len(s)] = b]
<1>1. s \in Seq(T) /\ Len(s) > 0 /\ a \in T /\ b \in T
  OBVIOUS
<1>2. t \in Seq(T) /\ Len(t) = Len(s)
  <2> HIDE DEF T
  <2> QED
    BY <1>1
<1> HIDE DEF T, t
<1>3. t # <<>> /\ Append(t, a) # <<>> /\ Append(s, a) # <<>>
  BY <1>1, <1>2
<1> QED
  BY <1>3 DEF t

LEMMA StillOpen ==
  ASSUME JumpInv, blocks # <<>>, NEW a, NEW b
  PROVE  /\ Append(blocks, a) # <<>> /\ SetTop(b) # <<>> /\ Append(SetTop(b), a) # <<>>
<1>1. blocks \in Seq(BlockRecords)
  BY InvTyped
<1> QED
  BY <1>1, NotEmptied DEF SetTop

(* Only the end of the subroutine empties the stack of blocks.             *)
LEMMA SubIsLast ==
  ASSUME JumpInv, blocks # <<>>, Top.kind # "sub", blocks' = PopBlock
  PROVE  blocks' # <<>>
<1>1. /\ blocks \in Seq(BlockRecords) /\ Top = blocks[Len(blocks)] /\ Len(blocks) \in DOMAIN blocks
      /\ Nested(blocks, Len(marks))
  BY InvTyped
<1>2. Len(blocks) # 1 /\ Len(blocks) \in Nat /\ Len(blocks) > 0
  BY <1>1 DEF Nested, BlockOK
<1>3. Len(PopBlock) = Len(blocks) - 1
  BY BlockPopped DEF Closed
<1>4. Len(PopBlock) # 0
  BY <1>2, <1>3
<1> QED
  BY <1>4

LEMMA HeightsTyped ==
  ASSUME JumpInv, blocks # <<>>
  PROVE  /\ mortal \in Nat /\ mortal + 1 \in Nat /\ Top.top \in Nat
         /\ home \in Seq(Nat) /\ Append(home, Top.id) \in Seq(Nat)
<1>1. mortal \in Nat /\ Top \in BlockRecords /\ home \in Seq(Nat)
  BY InvTyped DEF JumpInv
<1>2. Top.id \in Nat /\ Top.top \in Nat
  BY <1>1 DEF BlockRecords
<1>3. Append(home, Top.id) \in Seq(Nat)
  BY <1>1, <1>2
<1> QED
  BY <1>1, <1>2, <1>3

(* What the steps that close no block leave alone.                         *)
Kept ==
  /\ BuilderOK(code', blocks', pend', marks') /\ blocks' # <<>>
  /\ mortal' \in Nat /\ home' \in Seq(Nat) /\ built' = built

LEMMA StatementsKeep ==
  ASSUME JumpInv, blocks # <<>>,
         CallStatement \/ Declare \/ LastStatement \/ NextStatement \/ ReturnStatement
  PROVE  Kept
<1>1. CASE CallStatement
  <2>1. blocks' = blocks /\ mortal' = mortal /\ home' = home /\ built' = built
    BY <1>1 DEF CallStatement
  <2> QED
    BY <2>1, <1>1, CallStatementStep, HeightsTyped DEF Kept
<1>2. CASE Declare
  <2>1. /\ blocks' = SetTop([Top EXCEPT !.have = TRUE]) /\ mortal' = mortal + 1
        /\ home' = Append(home, Top.id) /\ built' = built
    BY <1>2 DEF Declare
  <2> QED
    BY <2>1, <1>2, DeclareStep, HeightsTyped, StillOpen DEF Kept
<1>3. ASSUME NEW name, NEW stack, NEW target, JumpOut(name, stack, target)
      PROVE  blocks' # <<>> /\ mortal' \in Nat /\ home' \in Seq(Nat) /\ built' = built
  <2>1. /\ blocks' = SetTop([Top EXCEPT !.phase = IF Top.kind = "switch" THEN "labels" ELSE "done"])
        /\ mortal' = mortal /\ home' = home /\ built' = built
    BY <1>3 DEF JumpOut, AfterJump
  <2> QED
    BY <2>1, HeightsTyped, StillOpen
<1>4. CASE LastStatement
  BY <1>3, <1>4, LastStatementStep DEF LastStatement, Kept
<1>5. CASE NextStatement
  BY <1>3, <1>5, NextStatementStep DEF NextStatement, Kept
<1>6. CASE ReturnStatement
  BY <1>3, <1>6, ReturnStatementStep DEF ReturnStatement, Kept
<1> QED
  BY <1>1, <1>2, <1>4, <1>5, <1>6

LEMMA OpeningsKeep ==
  ASSUME JumpInv, blocks # <<>>,
         OpenPlain \/ OpenIf \/ OpenLoop \/ OpenElse \/ OpenLoopBody \/ OpenEval \/ OpenSwitch,
         "nested_eval" \notin Features
  PROVE  Kept
<1>1. ASSUME NEW b, PushBlock(blocks, b), UNCHANGED <<mortal, home, built>>
      PROVE  blocks' # <<>> /\ mortal' \in Nat /\ home' \in Seq(Nat) /\ built' = built
  BY <1>1, HeightsTyped, StillOpen DEF PushBlock
<1>2. CASE OpenPlain \/ OpenIf \/ OpenLoop
  <2>1. blocks' # <<>> /\ mortal' \in Nat /\ home' \in Seq(Nat) /\ built' = built
    BY <1>1, <1>2 DEF OpenPlain, OpenIf, OpenLoop
  <2> QED
    BY <2>1, <1>2, OpenPlainStep DEF Kept
<1>3. CASE OpenElse
  <2>1. \E ph, p : PushElse(ph, p) /\ UNCHANGED <<mortal, home, built>>
    BY <1>3 DEF OpenElse
  <2>2. blocks' # <<>> /\ mortal' \in Nat /\ home' \in Seq(Nat) /\ built' = built
    BY <2>1, HeightsTyped, StillOpen DEF PushElse, PushBlock
  <2> QED
    BY <2>2, <1>3, OpenElseStep DEF Kept
<1>4. CASE OpenLoopBody
  <2>1. /\ blocks' = Append(SetTop([Top EXCEPT !.phase = "incr"]), Block("loop", "stmts", Len(pend["next"])))
        /\ mortal' = mortal /\ home' = home /\ built' = built
    BY <1>4 DEF OpenLoopBody
  <2> QED
    BY <2>1, <1>4, OpenLoopBodyStep, HeightsTyped, StillOpen DEF Kept
<1>5. CASE OpenEval
  <2>1. blocks' # <<>> /\ mortal' \in Nat /\ home' \in Seq(Nat) /\ built' = built
    BY <1>1, <1>5 DEF OpenEval
  <2> QED
    BY <2>1, <1>5, OpenEvalStep DEF Kept
<1>6. CASE OpenSwitch
  <2>1. blocks' # <<>> /\ mortal' \in Nat /\ home' \in Seq(Nat) /\ built' = built
    BY <1>1, <1>6 DEF OpenSwitch
  <2> QED
    BY <2>1, <1>6, OpenSwitchStep DEF Kept
<1> QED
  BY <1>2, <1>3, <1>4, <1>5, <1>6

LEMMA ConditionsKeep ==
  ASSUME JumpInv, blocks # <<>>,
         \/ Condition \/ LoopIncrement \/ LoopCondition \/ Case \/ Default
         \/ \E b \in {"if", "else"} : Logical(b)
  PROVE  Kept
<1>1. ASSUME NEW parent, NEW phase, Test(parent, phase)
      PROVE  blocks' # <<>> /\ mortal' \in Nat /\ home' \in Seq(Nat) /\ built' = built
  <2>1. /\ blocks' = Append(SetTop(parent), Block("if", phase, 0))
        /\ mortal' = mortal /\ home' = home /\ built' = built
    BY <1>1 DEF Test, PushBlock
  <2> QED
    BY <2>1, HeightsTyped, StillOpen
<1>2. ASSUME NEW b, blocks' = SetTop(b), UNCHANGED <<mortal, home, built>>
      PROVE  blocks' # <<>> /\ mortal' \in Nat /\ home' \in Seq(Nat) /\ built' = built
  BY <1>2, HeightsTyped, StillOpen
<1>3. CASE Condition
  <2>1. blocks' # <<>> /\ mortal' \in Nat /\ home' \in Seq(Nat) /\ built' = built
    BY <1>1, <1>3 DEF Condition
  <2> QED
    BY <2>1, <1>3, ConditionStep DEF Kept
<1>4. CASE \E b \in {"if", "else"} : Logical(b)
  <2>1. PICK b \in {"if", "else"} : Logical(b)
    BY <1>4
  <2>2. blocks' # <<>> /\ mortal' \in Nat /\ home' \in Seq(Nat) /\ built' = built
    BY <1>1, <2>1 DEF Logical
  <2> QED
    BY <2>1, <2>2, LogicalStep DEF Kept
<1>5. CASE LoopIncrement
  <2>1. blocks' # <<>> /\ mortal' \in Nat /\ home' \in Seq(Nat) /\ built' = built
    BY <1>2, <1>5 DEF LoopIncrement
  <2> QED
    BY <2>1, <1>5, LoopIncrementStep DEF Kept
<1>6. CASE LoopCondition
  <2>1. blocks' # <<>> /\ mortal' \in Nat /\ home' \in Seq(Nat) /\ built' = built
    BY <1>2, <1>6 DEF LoopCondition
  <2> QED
    BY <2>1, <1>6, LoopConditionStep DEF Kept
<1>7. CASE Case
  <2>1. blocks' # <<>> /\ mortal' \in Nat /\ home' \in Seq(Nat) /\ built' = built
    BY <1>2, <1>7 DEF Case
  <2> QED
    BY <2>1, <1>7, CaseStep DEF Kept
<1>8. CASE Default
  <2>1. blocks' # <<>> /\ mortal' \in Nat /\ home' \in Seq(Nat) /\ built' = built
    BY <1>2, <1>8 DEF Default
  <2> QED
    BY <2>1, <1>8, DefaultStep DEF Kept
<1> QED
  BY <1>3, <1>4, <1>5, <1>6, <1>7, <1>8

LEMMA ClosingsKeep ==
  ASSUME JumpInv, blocks # <<>>,
         \/ ClosePlain \/ CloseIf \/ CloseElse \/ CloseLoopBody \/ CloseLoop \/ CloseEval
         \/ CloseSwitch
  PROVE  Kept
<1>1. ASSUME NEW c, CloseWith(c), Top.kind # "sub", UNCHANGED <<home, built>>
      PROVE  blocks' # <<>> /\ mortal' \in Nat /\ home' \in Seq(Nat) /\ built' = built
  <2>1. blocks' = PopBlock /\ (mortal' = Top.top \/ mortal' = mortal)
    BY <1>1 DEF CloseWith, Close
  <2>2. blocks' # <<>>
    BY <2>1, <1>1, SubIsLast
  <2> QED
    BY <2>1, <2>2, <1>1, HeightsTyped
<1>2. blocks' # <<>> /\ mortal' \in Nat /\ home' \in Seq(Nat) /\ built' = built
  <2>1. CASE ClosePlain
    BY <1>1, <2>1 DEF ClosePlain
  <2>2. CASE CloseIf
    BY <1>1, <2>2 DEF CloseIf
  <2>3. CASE CloseElse
    BY <1>1, <2>3 DEF CloseElse
  <2>4. CASE CloseLoopBody
    BY <1>1, <2>4 DEF CloseLoopBody
  <2>5. CASE CloseLoop
    BY <1>1, <2>5 DEF CloseLoop
  <2>6. CASE CloseEval
    BY <1>1, <2>6 DEF CloseEval
  <2>7. CASE CloseSwitch
    BY <1>1, <2>7 DEF CloseSwitch, AtLabel
  <2> QED
    BY <2>1, <2>2, <2>3, <2>4, <2>5, <2>6, <2>7
<1>4. BuilderOK(code', blocks', pend', marks')
  BY ClosePlainStep, CloseIfStep, CloseElseStep, CloseLoopBodyStep, CloseLoopStep, CloseEvalStep,
     CloseSwitchStep
<1> QED
  BY <1>2, <1>4 DEF Kept

LEMMA InitJump ==
  ASSUME Init
  PROVE  JumpInv
<1> DEFINE b == [id |-> 1, kind |-> "sub", phase |-> "stmts", top |-> 0, base |-> 0,
                 have |-> FALSE, used |-> FALSE, resume |-> "done"]
<1>1. /\ code = <<>> /\ blocks = <<b>> /\ mortal = 0 /\ pend = [s \in Stacks |-> <<>>]
      /\ home = <<>> /\ marks = <<Unmarked>> /\ built = FALSE
  BY DEF Init, BInit
<1>2. /\ b \in BlockRecords /\ b.id = 1 /\ b.kind = "sub" /\ b.phase = "stmts" /\ b.base = 0
      /\ b.resume = "done"
  BY DEF BlockRecords, BlockKinds, BlockPhases
<1> HIDE DEF b
<1>3. /\ blocks \in Seq(BlockRecords) /\ DOMAIN blocks = {1} /\ blocks[1] = b /\ Len(blocks) = 1
      /\ blocks # <<>>
  BY <1>1, <1>2
<1>4. Unmarked \in [Places -> Nat]
  BY DEF Unmarked
<1>5. marks \in Seq([Places -> Nat]) /\ Len(marks) = 1
  BY <1>1, <1>4
<1>6. <<>> \in Seq(Nat) /\ <<>> \in Seq(OpRecords) /\ DOMAIN <<>> = {} /\ Len(<<>>) = 0
  OBVIOUS
<1>7. /\ pend \in [Stacks -> Seq(Nat)] /\ DOMAIN code = {} /\ code \in Seq(OpRecords)
      /\ \A s \in Stacks : pend[s] = <<>> /\ DOMAIN pend[s] = {} /\ Len(pend[s]) = 0
  BY <1>1, <1>6
<1>8. Nested(blocks, Len(marks))
  <2>1. BlockOK(blocks, 1, 1)
    BY <1>2, <1>3 DEF BlockOK, PhasesOf
  <2> QED
    BY <2>1, <1>3, <1>5 DEF Nested
<1>9. /\ \A kinds : "sub" \notin kinds => IdsOf(blocks, kinds) = {}
      /\ ~ ElseNext(blocks) /\ LoopIds(blocks) = {} /\ ~ Entered(blocks[1])
  BY <1>2, <1>3 DEF IdsOf, ElseNext, ElsePhases, LoopIds, Entered
<1>10. OneEval(blocks, pend["eval"])
  BY <1>7, <1>9 DEF OneEval, Stacks
<1>11. Waiting(code, blocks, pend, Len(marks))
  <2>1. /\ IdsOf(blocks, {"if"}) = {} /\ ElseIds(blocks, Len(marks)) = {} /\ LoopIds(blocks) = {}
        /\ IdsOf(blocks, {"switch"}) = {}
    BY <1>9 DEF ElseIds
  <2>2. \A s \in Stacks : \A op, place : Matched(code, pend[s], op, place, {})
    BY <1>7 DEF Matched
  <2>3. \A s \in Stacks : \A kinds : "sub" \notin kinds => Segmented(code, pend[s], blocks, kinds)
    BY <1>2, <1>3, <1>7 DEF Segmented
  <2>4. \A s \in Stacks : \A ids : Collected(code, pend[s], ids)
    BY <1>7 DEF Collected
  <2>5. {"if", "end", "first", "switch", "last", "next", "catch", "return", "uncaught"} \subseteq Stacks
    BY DEF Stacks
  <2> QED
    BY <2>1, <2>2, <2>3, <2>4, <2>5 DEF Waiting
<1>12. Landing(code, blocks, pend, marks)
  BY <1>3, <1>7, <1>9 DEF Landing, BodiesMarked
<1>13. BuilderOK(code, blocks, pend, marks)
  BY <1>3, <1>5, <1>7, <1>8, <1>10, <1>11, <1>12 DEF BuilderOK, Typed
<1> QED
  BY <1>1, <1>3, <1>6, <1>13 DEF JumpInv

LEMMA BuildKeeps ==
  ASSUME JumpInv, ~ built, Build, "nested_eval" \notin Features
  PROVE  JumpInv'
<1>1. blocks # <<>> /\ built = FALSE
  BY DEF JumpInv
<1>2. CASE Kept
  BY <1>1, <1>2 DEF Kept, JumpInv
<1>3. CASE CloseSub
  <2>1. BuilderOK(code', blocks', pend', marks') /\ blocks' = <<>>
    BY <1>1, <1>3, CloseSubStep
  <2>2. mortal' \in {mortal, Top.top} /\ home' = home /\ built' = TRUE
    BY <1>3 DEF CloseSub, Close
  <2>3. mortal' \in Nat /\ home' \in Seq(Nat)
    BY <2>2, <1>1, HeightsTyped
  <2> QED
    BY <2>1, <2>2, <2>3 DEF JumpInv
<1>4. CASE CallStatement \/ Declare \/ LastStatement \/ NextStatement \/ ReturnStatement
  BY <1>1, <1>2, <1>4, StatementsKeep
<1>5. CASE OpenPlain \/ OpenIf \/ OpenLoop \/ OpenElse \/ OpenLoopBody \/ OpenEval \/ OpenSwitch
  BY <1>1, <1>2, <1>5, OpeningsKeep
<1>6. CASE \/ Condition \/ LoopIncrement \/ LoopCondition \/ Case \/ Default
           \/ \E b \in {"if", "else"} : Logical(b)
  BY <1>1, <1>2, <1>6, ConditionsKeep
<1>7. CASE \/ ClosePlain \/ CloseIf \/ CloseElse \/ CloseLoopBody \/ CloseLoop \/ CloseEval
           \/ CloseSwitch
  BY <1>1, <1>2, <1>7, ClosingsKeep
<1> QED
  BY <1>3, <1>4, <1>5, <1>6, <1>7 DEF Build

LEMMA NextJump ==
  ASSUME JumpInv, [Next]_vars, "nested_eval" \notin Features
  PROVE  JumpInv'
<1>1. CASE BuildStep
  BY <1>1, BuildKeeps DEF BuildStep
<1>2. CASE UNCHANGED bvars
  BY <1>2 DEF bvars, JumpInv
<1>3. [Next]_vars => BuildStep \/ UNCHANGED bvars
  BY DEF Next, vars, Enter, PushMortal, CallReturns, CallRaises, LeaveScope, Jump, Branch, Switch,
         ExceptionVarUndef
<1> QED
  BY <1>1, <1>2, <1>3

(* When the subroutine is finished no block is open, and nothing waits.    *)
LEMMA JumpInvLands ==
  ASSUME JumpInv
  PROVE  JumpsLand
<1>1. SUFFICES ASSUME built, NEW i \in DOMAIN code, code[i].want # Nowhere
               PROVE  Lands(code[i])
  BY DEF JumpsLand
<1>2. blocks = <<>> /\ Settled(code, blocks, pend, marks, i) /\ Ranged(code, blocks, marks, i)
      /\ code \in Seq(OpRecords) /\ marks \in Seq([Places -> Nat])
  BY <1>1 DEF JumpInv, BuilderOK, Landing, Typed
<1>3. DOMAIN blocks = {} /\ Open(blocks) = {}
  BY <1>2 DEF Open
<1> DEFINE b == code[i].want[1]
<1>4. b \in DOMAIN marks
  BY <1>2 DEF Settled, Aims, ElseNext
<1>5. code[i].want[2] \in Places
  BY <1>2, OpTyped
<1>6. code[i].op # "SWITCH" => code[i].to = Mark(code[i].want)
  <2>1. code[i].want[2] = "end" /\ code[i].op # "SWITCH" => code[i].to = marks[b]["end"]
    BY <1>2, <1>3, <1>4 DEF Settled, EndSettled
  <2>2. code[i].want[2] = "cond" => code[i].to = marks[b]["cond"]
    BY <1>2, <1>3 DEF Settled, CondSettled
  <2>3. code[i].want[2] = "body" => code[i].to = marks[b]["body"]
    BY <1>2 DEF Settled, BodySettled
  <2> QED
    BY <2>1, <2>2, <2>3, <1>5 DEF Places, Mark
<1>7. ASSUME code[i].op = "SWITCH"
      PROVE  \A t \in code[i].cases \cup {code[i].to} :
               t <= Mark(code[i].want) /\ (t < Mark(code[i].want) => b \in code[t].scope)
  <2>1. /\ code[i].want[2] = "end" /\ code[i].to # 0
        /\ \A t \in Targets(code[i]) :
             /\ t <= Limit(code, blocks, marks, b)
             /\ t < Limit(code, blocks, marks, b) => b \in code[t].scope
    BY <1>2, <1>3, <1>7 DEF Ranged
  <2>2. Targets(code[i]) = code[i].cases \cup {code[i].to}
    BY <2>1 DEF Targets
  <2>3. Limit(code, blocks, marks, b) = Mark(code[i].want)
    BY <2>1, <1>3 DEF Limit, Mark
  <2> QED
    BY <2>1, <2>2, <2>3
<1> QED
  BY <1>6, <1>7 DEF Lands

-----------------------------------------------------------------------------
(* In a subroutine of any size the builder finishes, every jump lands      *)
(* where its statement says, however many blocks were opened and closed    *)
(* between the jump and its patch; eval blocks are not nested in each      *)
(* other (push_if_croak).                                                  *)
THEOREM JumpsLandAlways ==
  ASSUME "nested_eval" \notin Features
  PROVE  Spec => []JumpsLand
<1>1. Init => JumpInv
  BY InitJump
<1>2. JumpInv /\ [Next]_vars => JumpInv'
  BY NextJump
<1>3. JumpInv => JumpsLand
  BY JumpInvLands
<1> QED
  BY <1>1, <1>2, <1>3, PTL DEF Spec
=============================================================================
