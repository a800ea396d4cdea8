--------------------------- MODULE OptlirMeaning ---------------------------
(***************************************************************************)
(* The control-flow passes keep what a function does: after every step of  *)
(* every pass the function offers an observer what it offered before, at   *)
(* every point of every run.  The one exception is a block with code of    *)
(* its own that takes over a loop of one block (merge_blocks_function):    *)
(* that code is then repeated with the loop.  At the end: the passes come  *)
(* to an end.                                                              *)
(***************************************************************************)
EXTENDS OptlirProofs

(* The places of a function execution can be at. *)
Position(f) == {p \in [block : DOMAIN f, at : Nat] : p.at \in DOMAIN f[p.block].code}

(* g at q does what f does at p, and goes on with pairs of R. *)
Matches(f, g, R, p, q) ==
  /\ Silent(f, p) <=> Silent(g, q)
  /\ Silent(f, p) => <<Glide(f, p), Glide(g, q)>> \in R
  /\ Offers(f, p) = Offers(g, q)
  /\ ~Silent(f, p) =>
       \A event \in Offers(f, p) :
         ~Stops(event) => <<Taken(f, p, event), Taken(g, q, event)>> \in R

(* Two functions that behave alike: from the start, and from every pair of R,
   g takes the steps of f, except that it may save one silent step. *)
Bisimulation(f, g, R) ==
  /\ R \subseteq Position(f) \X Position(g)
  /\ <<Start, Start>> \in R
  /\ \A r \in R :
       \/ Matches(f, g, R, r[1], r[2])
       \/ /\ Silent(f, r[1])
          /\ <<Glide(f, r[1]), r[2]>> \in R
          /\ Matches(f, g, R, Glide(f, r[1]), r[2])

(* The block b is the one that merging lets take over t now. *)
Merges(b, t) ==
  Takes(b, t) /\ \A c \in 1..(b - 1), u \in DOMAIN blocks : ~Takes(c, u)

(* What is taken over jumps back to its own start, behind other code. *)
Repeats(b, t) ==
  Len(blocks[b].code) > 1 /\ blocks[t].label \in TargetsOf(blocks[t])

TakesLoop ==
  pass = "merge" /\ \E b, t \in DOMAIN blocks : Merges(b, t) /\ Repeats(b, t)

(* Every step of the optimiser leaves a function that behaves like the one
   before it, unless it takes over a loop. *)
BehaviourKept ==
  [][\/ pass = "waiting"
     \/ TakesLoop
     \/ \E R : Bisimulation(blocks, blocks', R)]_optVars
-----------------------------------------------------------------------------
Good(f) ==
  /\ f \in Function
  /\ Accepted(f)
  /\ \A i, j \in DOMAIN f : f[i].label = f[j].label => i = j

LEMMA EventHead ==
  ASSUME NEW arg \in Operand, NEW w
  PROVE  Head(<<w>> \o arg) = w
<1> DEFINE S == STRING \cup {w, "0", "1", "0?", "1?"}
<1>1. arg \in Seq(S)
  <2>1. CASE arg \in Seq(STRING)
    BY <2>1
  <2>2. CASE arg \in Constant
    <3>1. \A s \in S : <<s>> \in Seq(S)
      OBVIOUS
    <3>2. {"0", "1", "0?", "1?"} \subseteq S
      OBVIOUS
    <3> HIDE DEF S
    <3>3. \E s \in S : arg = <<s>>
      BY <2>2, <3>2 DEF Constant, Literal
    <3> QED BY <3>1, <3>3
  <2> QED BY <2>1, <2>2 DEF Operand
<1>2. <<w>> \in Seq(S) /\ Len(<<w>>) = 1 /\ <<w>>[1] = w
  OBVIOUS
<1> HIDE DEF S
<1>3. (<<w>> \o arg)[1] = w /\ <<w>> \o arg \in Seq(S)
  BY <1>1, <1>2, Joined
<1> QED BY <1>3

(* Where a run is, it is at an instruction; one that is not the last of its
   block is a call. *)
LEMMA PositionFacts ==
  ASSUME NEW f, Good(f), NEW p \in Position(f)
  PROVE  /\ InCode(f, p) /\ p.block \in DOMAIN f /\ At(f, p) = f[p.block].code[p.at]
         /\ p = [block |-> p.block, at |-> p.at]
         /\ At(f, p) \in Instruction
         /\ Targets(At(f, p)) \subseteq TargetsOf(f[p.block])
         /\ TargetsOf(f[p.block]) \subseteq Labels(f)
         /\ IsTerminator(At(f, p)) => p.at = Len(f[p.block].code)
         /\ At(f, p).op = "call" => /\ [p EXCEPT !.at = @ + 1] \in Position(f)
                                    /\ p.at < Len(f[p.block].code)
<1> DEFINE c == f[p.block].code
<1>1. p.block \in DOMAIN f /\ p.at \in DOMAIN c /\ p = [block |-> p.block, at |-> p.at]
  BY DEF Position
<1>2. /\ c \in Seq(Instruction) /\ Len(c) \in Nat \ {0} /\ DOMAIN c = 1 .. Len(c)
      /\ GoodCode(c, Labels(f)) /\ TargetsOf(f[p.block]) \subseteq Labels(f)
  BY <1>1, BlockFacts DEF Good
<1>3. At(f, p) = c[p.at] /\ InCode(f, p)
  BY <1>1 DEF At, InCode
<1> HIDE DEF c
<1>4. c[p.at] \in Instruction
  BY <1>1, <1>2, ElementOfSeq
<1>5. Targets(At(f, p)) \subseteq TargetsOf(f[p.block])
  BY <1>1, <1>3 DEF TargetsOf, c
<1>6. IsTerminator(c[p.at]) => p.at = Len(c)
  BY <1>1, <1>2 DEF GoodCode
<1>7. c[p.at].op = "call" => p.at + 1 \in DOMAIN c /\ p.at < Len(c)
  BY <1>1, <1>2 DEF GoodCode, IsTerminator
<1>8. p.at + 1 \in DOMAIN c => [p EXCEPT !.at = @ + 1] \in Position(f)
  <2> SUFFICES ASSUME p.at + 1 \in DOMAIN c PROVE [p EXCEPT !.at = @ + 1] \in Position(f)
    OBVIOUS
  <2>1. p.at + 1 \in Nat
    BY <1>1, <1>2
  <2>2. [p EXCEPT !.at = @ + 1] = [block |-> p.block, at |-> p.at + 1]
    BY <1>1
  <2> QED BY <1>1, <2>1, <2>2 DEF Position, c
<1> QED BY <1>1, <1>2, <1>3, <1>4, <1>5, <1>6, <1>7, <1>8 DEF c

(* A jump to the label of a block goes to the start of that block. *)
LEMMA GotoFacts ==
  ASSUME NEW f, Good(f), NEW b \in DOMAIN f
  PROVE  /\ Goto(f, f[b].label) = [block |-> b, at |-> 1]
         /\ [block |-> b, at |-> 1] \in Position(f)
<1>1. f[b].label \in Labels(f)
  BY DEF Labels
<1>2. BlockOf(f, f[b].label) = b
  BY <1>1, BlockOfLabel DEF Good
<1>3. 1 \in DOMAIN f[b].code
  BY BlockFacts DEF Good
<1> QED BY <1>2, <1>3 DEF Goto, Position

(* The instruction of g at q is as good as that of f at p: the same, or the
   jump that a branch on a constant is, and what follows is in R. *)
Onward(p) == [p EXCEPT !.at = @ + 1]

Like(f, g, R, p, q) ==
  LET i == At(f, p)
      j == At(g, q)
  IN  /\ i.op \in {"call", "ret", "panic"} => j.op = i.op /\ j.arg = i.arg
      /\ i.op = "call" => <<Onward(p), Onward(q)>> \in R
      /\ i.op = "jump" => j.op = "jump" /\ <<Goto(f, i.yes), Goto(g, j.yes)>> \in R
      /\ i.op = "condi" /\ i.arg \notin Constant =>
           /\ j.op = "condi" /\ j.arg = i.arg
           /\ <<Goto(f, i.yes), Goto(g, j.yes)>> \in R
           /\ <<Goto(f, i.no), Goto(g, j.no)>> \in R
      /\ i.op = "condi" /\ i.arg \in Constant =>
           /\ Silent(g, q)
           /\ <<Goto(f, IF IsTrue(i.arg) THEN i.yes ELSE i.no), Glide(g, q)>> \in R

LEMMA LikeMatches ==
  ASSUME NEW f, Good(f), NEW g, Good(g), NEW R,
         NEW p \in Position(f), NEW q \in Position(g), Like(f, g, R, p, q)
  PROVE  Matches(f, g, R, p, q)
<1> DEFINE i == At(f, p)
           j == At(g, q)
<1>1. /\ InCode(f, p) /\ InCode(g, q) /\ i \in Instruction /\ j \in Instruction
  BY PositionFacts
<1>2. /\ i.op \in {"call", "jump", "condi", "ret", "panic"} /\ i.arg \in Operand
  BY <1>1 DEF Instruction
<1>3. CASE i.op = "call"
  <2>1. j.op = "call" /\ j.arg = i.arg /\ <<Onward(p), Onward(q)>> \in R
    BY <1>3 DEF Like
  <2>2. ~Silent(f, p) /\ ~Silent(g, q)
    BY <1>3, <2>1 DEF Silent
  <2>3. Offers(f, p) = {<<"call">> \o i.arg} /\ Offers(g, q) = {<<"call">> \o i.arg}
    BY <1>1, <1>3, <2>1 DEF Offers
  <2>4. Head(<<"call">> \o i.arg) = "call"
    BY <1>2, EventHead
  <2>5. /\ Taken(f, p, <<"call">> \o i.arg) = Onward(p)
        /\ Taken(g, q, <<"call">> \o i.arg) = Onward(q)
    BY <2>4 DEF Taken, Onward
  <2> QED BY <2>1, <2>2, <2>3, <2>5 DEF Matches
<1>4. CASE i.op = "jump"
  <2>1. j.op = "jump" /\ <<Goto(f, i.yes), Goto(g, j.yes)>> \in R
    BY <1>4 DEF Like
  <2>2. Silent(f, p) /\ Silent(g, q)
    BY <1>1, <1>4, <2>1 DEF Silent
  <2>3. Offers(f, p) = {<<"hang">>} /\ Offers(g, q) = {<<"hang">>}
    BY <1>1, <1>4, <2>1 DEF Offers
  <2>4. Glide(f, p) = Goto(f, i.yes) /\ Glide(g, q) = Goto(g, j.yes)
    BY <1>4, <2>1 DEF Glide
  <2> QED BY <2>1, <2>2, <2>3, <2>4 DEF Matches
<1>5. CASE i.op = "condi" /\ i.arg \notin Constant
  <2>1. /\ j.op = "condi" /\ j.arg = i.arg
        /\ <<Goto(f, i.yes), Goto(g, j.yes)>> \in R
        /\ <<Goto(f, i.no), Goto(g, j.no)>> \in R
    BY <1>5 DEF Like
  <2>2. ~Silent(f, p) /\ ~Silent(g, q)
    BY <1>5, <2>1 DEF Silent
  <2> DEFINE yes == <<"yes">> \o i.arg
             no  == <<"no">> \o i.arg
  <2>3. Offers(f, p) = {yes, no} /\ Offers(g, q) = {yes, no}
    BY <1>1, <1>5, <2>1, <2>2 DEF Offers
  <2>4. Head(yes) = "yes" /\ Head(no) = "no"
    BY <1>2, EventHead
  <2> HIDE DEF yes, no
  <2>5. /\ Taken(f, p, yes) = Goto(f, i.yes) /\ Taken(g, q, yes) = Goto(g, j.yes)
        /\ Taken(f, p, no) = Goto(f, i.no) /\ Taken(g, q, no) = Goto(g, j.no)
    BY <2>4 DEF Taken
  <2> QED BY <2>1, <2>2, <2>3, <2>5 DEF Matches
<1>6. CASE i.op = "condi" /\ i.arg \in Constant
  <2>1. /\ Silent(g, q)
        /\ <<Goto(f, IF IsTrue(i.arg) THEN i.yes ELSE i.no), Glide(g, q)>> \in R
    BY <1>6 DEF Like
  <2>2. Silent(f, p)
    BY <1>1, <1>6 DEF Silent
  <2>3. Glide(f, p) = Goto(f, IF IsTrue(i.arg) THEN i.yes ELSE i.no)
    BY <1>6 DEF Glide
  <2>4. Offers(f, p) = {<<"hang">>}
    BY <1>1, <1>6, <2>2 DEF Offers
  <2>5. Offers(g, q) = {<<"hang">>}
    <3>1. j.op \in {"jump", "condi"}
      BY <2>1 DEF Silent
    <3> QED BY <1>1, <2>1, <3>1 DEF Offers
  <2> QED BY <2>1, <2>2, <2>3, <2>4, <2>5 DEF Matches
<1>7. CASE i.op \in {"ret", "panic"}
  <2>1. j.op = i.op
    BY <1>7 DEF Like
  <2>2. ~Silent(f, p) /\ ~Silent(g, q)
    BY <1>7, <2>1 DEF Silent
  <2>3. Offers(f, p) = {<<i.op>>} /\ Offers(g, q) = {<<i.op>>}
    BY <1>1, <1>7, <2>1 DEF Offers
  <2>4. Head(<<i.op>>) = i.op
    OBVIOUS
  <2>5. Stops(<<i.op>>)
    BY <1>7, <2>4 DEF Stops
  <2> QED BY <2>2, <2>3, <2>5 DEF Matches
<1> QED BY <1>2, <1>3, <1>4, <1>5, <1>6, <1>7

(* The same instruction, up to the names of the blocks it goes to. *)
LEMMA SameInstruction ==
  ASSUME NEW f, Good(f), NEW g, Good(g), NEW R,
         NEW p \in Position(f), NEW q \in Position(g),
         At(g, q).op = At(f, p).op,
         At(f, p).op # "jump" => At(g, q).arg = At(f, p).arg,
         At(f, p).op = "call" => <<Onward(p), Onward(q)>> \in R,
         At(f, p).op \in {"jump", "condi"} =>
           <<Goto(f, At(f, p).yes), Goto(g, At(g, q).yes)>> \in R,
         At(f, p).op = "condi" => <<Goto(f, At(f, p).no), Goto(g, At(g, q).no)>> \in R
  PROVE  Matches(f, g, R, p, q)
<1> DEFINE i == At(f, p)
           j == At(g, q)
<1>1. CASE i.op = "condi" /\ i.arg \in Constant
  <2>1. Silent(g, q)
    BY <1>1, PositionFacts DEF Silent
  <2>2. Glide(g, q) = Goto(g, IF IsTrue(i.arg) THEN j.yes ELSE j.no)
    BY <1>1 DEF Glide
  <2>3. Like(f, g, R, p, q)
    BY <1>1, <2>1, <2>2 DEF Like
  <2> QED BY <2>3, LikeMatches
<1>2. CASE ~(i.op = "condi" /\ i.arg \in Constant)
  <2>1. Like(f, g, R, p, q)
    BY <1>2 DEF Like
  <2> QED BY <2>1, LikeMatches
<1> QED BY <1>1, <1>2
-----------------------------------------------------------------------------
(* Passes that rewrite instructions in place.  What becomes of i is i again,
   or a branch on a constant goes where it went. *)
Remains(i, j) ==
  \/ j = i
  \/ /\ i.op = "condi" /\ i.arg \in Constant
     /\ \/ j.op = "jump" /\ j.yes = IF IsTrue(i.arg) THEN i.yes ELSE i.no
        \/ /\ j.op = "condi" /\ j.arg \in Constant /\ (IsTrue(j.arg) <=> IsTrue(i.arg))
           /\ j.yes = i.yes /\ j.no = i.no

SameFrame(f, g) ==
  /\ DOMAIN g = DOMAIN f
  /\ \A b \in DOMAIN f : /\ g[b].label = f[b].label
                         /\ DOMAIN g[b].code = DOMAIN f[b].code
                         /\ \A i \in DOMAIN f[b].code : Remains(f[b].code[i], g[b].code[i])

(* Every place is paired with itself. *)
Itself(f) == {<<p, p>> : p \in Position(f)}

LEMMA InPlace ==
  ASSUME NEW f, Good(f), NEW g, Good(g), SameFrame(f, g)
  PROVE  Bisimulation(f, g, Itself(f))
<1> DEFINE R == Itself(f)
<1>1. Position(g) = Position(f)
  BY DEF SameFrame, Position
<1>2. R \subseteq Position(f) \X Position(g)
  BY <1>1 DEF Itself
<1>3. Start \in Position(f)
  BY GotoFacts, FunctionFacts DEF Start, Good
<1>4. ASSUME NEW l \in Labels(f)
      PROVE  Goto(g, l) = Goto(f, l) /\ <<Goto(f, l), Goto(g, l)>> \in R
  <2>1. PICK b \in DOMAIN f : l = f[b].label
    BY DEF Labels
  <2>2. b \in DOMAIN g /\ l = g[b].label
    BY <2>1 DEF SameFrame
  <2>3. /\ Goto(f, l) = [block |-> b, at |-> 1] /\ Goto(f, l) \in Position(f)
        /\ Goto(g, l) = [block |-> b, at |-> 1]
    BY <2>1, <2>2, GotoFacts
  <2> QED BY <2>3 DEF Itself
<1>5. ASSUME NEW p \in Position(f) PROVE Matches(f, g, R, p, p)
  <2> DEFINE i == At(f, p)
             j == At(g, p)
  <2>1. /\ i = f[p.block].code[p.at] /\ j = g[p.block].code[p.at]
        /\ p.block \in DOMAIN f /\ p.at \in DOMAIN f[p.block].code
    BY DEF At, Position
  <2>2. Remains(i, j)
    BY <2>1 DEF SameFrame
  <2>3. Targets(i) \subseteq Labels(f) /\ InCode(g, p)
    BY <1>1, PositionFacts
  <2>4. i.op = "call" => <<Onward(p), Onward(p)>> \in R
    BY PositionFacts DEF Itself, Onward
  <2>5. i.op \in {"jump", "condi"} => i.yes \in Labels(f)
    BY <2>3 DEF Targets
  <2>6. i.op = "condi" => i.no \in Labels(f)
    BY <2>3 DEF Targets
  <2> HIDE DEF R
  <2>7. CASE j = i
    <3>1. i.op \in {"jump", "condi"} => <<Goto(f, i.yes), Goto(g, j.yes)>> \in R
      BY <1>4, <2>5, <2>7
    <3>2. i.op = "condi" => <<Goto(f, i.no), Goto(g, j.no)>> \in R
      BY <1>4, <2>6, <2>7
    <3> QED BY <1>1, <2>4, <2>7, <3>1, <3>2, SameInstruction
  <2>8. CASE j # i
    <3> DEFINE l == IF IsTrue(i.arg) THEN i.yes ELSE i.no
    <3>1. /\ i.op = "condi" /\ i.arg \in Constant /\ l \in Labels(f)
          /\ \/ j.op = "jump" /\ j.yes = l
             \/ /\ j.op = "condi" /\ j.arg \in Constant /\ (IsTrue(j.arg) <=> IsTrue(i.arg))
                /\ j.yes = i.yes /\ j.no = i.no
      BY <2>2, <2>5, <2>6, <2>8 DEF Remains
    <3>2. Silent(g, p)
      BY <2>3, <3>1 DEF Silent
    <3>3. Glide(g, p) = Goto(g, l)
      BY <3>1 DEF Glide
    <3>4. <<Goto(f, l), Glide(g, p)>> \in R
      BY <1>4, <3>1, <3>3
    <3>5. Like(f, g, R, p, p)
      BY <3>1, <3>2, <3>4 DEF Like
    <3> QED BY <1>1, <3>5, LikeMatches
  <2> QED BY <2>7, <2>8
<1>6. \A r \in R : r[1] \in Position(f) /\ r[2] = r[1]
  BY DEF Itself
<1>7. <<Start, Start>> \in R
  BY <1>3 DEF Itself
<1> HIDE DEF R
<1>8. \A r \in R : Matches(f, g, R, r[1], r[2])
  BY <1>5, <1>6
<1> QED BY <1>2, <1>7, <1>8 DEF Bisimulation, R

LEMMA PropagatedRemains ==
  ASSUME NEW i \in Instruction PROVE Remains(i, Propagated(i))
<1>1. CASE i.op = "condi"
  <2>1. i = [op |-> "condi", arg |-> i.arg, yes |-> i.yes, no |-> i.no]
    BY <1>1 DEF Instruction
  <2>2. Propagated(i) = [op |-> "condi", arg |-> Value(i.arg), yes |-> i.yes, no |-> i.no]
    BY <1>1, <2>1 DEF Propagated
  <2>3. CASE i.arg \in Constant
    <3>1. Value(i.arg) \in Constant /\ (IsTrue(Value(i.arg)) <=> IsTrue(i.arg))
      BY <2>3 DEF Constant, Literal, Value, IsTrue
    <3> QED BY <1>1, <2>2, <2>3, <3>1 DEF Remains
  <2>4. CASE i.arg \notin Constant
    <3>1. Value(i.arg) = i.arg
      BY <2>4 DEF Constant, Literal, Value
    <3> QED BY <2>1, <2>2, <3>1 DEF Remains
  <2> QED BY <2>3, <2>4
<1>2. CASE i.op # "condi"
  BY <1>2 DEF Propagated, Remains
<1> QED BY <1>1, <1>2

LEMMA FoldedRemains ==
  ASSUME NEW i \in Instruction PROVE Remains(i, Folded(i))
<1>1. CASE i.op = "condi" /\ i.arg \in Literal
  <2>1. Folded(i) = [op |-> "jump", arg |-> <<>>,
                     yes |-> IF IsTrue(i.arg) THEN i.yes ELSE i.no, no |-> NoLabel]
    BY <1>1 DEF Folded, Jump, Inst
  <2> QED BY <1>1, <2>1 DEF Remains, Constant
<1>2. CASE ~(i.op = "condi" /\ i.arg \in Literal)
  BY <1>2 DEF Folded, Remains
<1> QED BY <1>1, <1>2

LEMMA InvariantIsGood ==
  /\ OptInv => Good(blocks)
  /\ OptInv' => Good(blocks')
BY DEF OptInv, Good, UniqueLabels

LEMMA PropagateConstantsKeeps ==
  ASSUME OptInv, PropagateConstants
  PROVE  \E R : Bisimulation(blocks, blocks', R)
<1>1. Good(blocks) /\ Good(blocks')
  BY InvariantIsGood, PropagateConstantsInv
<1>2. blocks' = [b \in DOMAIN blocks |->
        [blocks[b] EXCEPT !.code = [i \in DOMAIN @ |-> Propagated(@[i])]]]
  BY DEF PropagateConstants, EachInst
<1>3. ASSUME NEW b \in DOMAIN blocks
      PROVE  /\ blocks'[b].label = blocks[b].label
             /\ DOMAIN blocks'[b].code = DOMAIN blocks[b].code
             /\ \A i \in DOMAIN blocks[b].code : Remains(blocks[b].code[i], blocks'[b].code[i])
  <2> DEFINE c == blocks[b].code
  <2>1. blocks[b] = [label |-> blocks[b].label, code |-> c] /\ c \in Seq(Instruction)
    BY <1>1, BlockFacts DEF Good
  <2>2. blocks'[b] = [label |-> blocks[b].label, code |-> [i \in DOMAIN c |-> Propagated(c[i])]]
    BY <1>2, <2>1
  <2>3. \A i \in DOMAIN c : c[i] \in Instruction
    BY <2>1, ElementOfSeq, LenProperties
  <2> HIDE DEF c
  <2>4. \A i \in DOMAIN c : Remains(c[i], Propagated(c[i]))
    BY <2>3, PropagatedRemains
  <2> QED BY <2>2, <2>4 DEF c
<1>4. SameFrame(blocks, blocks')
  BY <1>2, <1>3 DEF SameFrame
<1> QED BY <1>1, <1>4, InPlace

LEMMA FoldBranchesKeeps ==
  ASSUME OptInv, FoldBranches
  PROVE  \E R : Bisimulation(blocks, blocks', R)
<1>1. Good(blocks) /\ Good(blocks')
  BY InvariantIsGood, FoldBranchesInv
<1>2. blocks' = [b \in DOMAIN blocks |->
        [blocks[b] EXCEPT !.code = [i \in DOMAIN @ |-> Folded(@[i])]]]
  BY DEF FoldBranches, EachInst
<1>3. ASSUME NEW b \in DOMAIN blocks
      PROVE  /\ blocks'[b].label = blocks[b].label
             /\ DOMAIN blocks'[b].code = DOMAIN blocks[b].code
             /\ \A i \in DOMAIN blocks[b].code : Remains(blocks[b].code[i], blocks'[b].code[i])
  <2> DEFINE c == blocks[b].code
  <2>1. blocks[b] = [label |-> blocks[b].label, code |-> c] /\ c \in Seq(Instruction)
    BY <1>1, BlockFacts DEF Good
  <2>2. blocks'[b] = [label |-> blocks[b].label, code |-> [i \in DOMAIN c |-> Folded(c[i])]]
    BY <1>2, <2>1
  <2>3. \A i \in DOMAIN c : c[i] \in Instruction
    BY <2>1, ElementOfSeq, LenProperties
  <2> HIDE DEF c
  <2>4. \A i \in DOMAIN c : Remains(c[i], Folded(c[i]))
    BY <2>3, FoldedRemains
  <2> QED BY <2>2, <2>4 DEF c
<1>4. SameFrame(blocks, blocks')
  BY <1>2, <1>3 DEF SameFrame
<1> QED BY <1>1, <1>4, InPlace

(* Steps that leave the blocks as they are. *)
LEMMA NothingChanged ==
  ASSUME OptInv, blocks' = blocks
  PROVE  \E R : Bisimulation(blocks, blocks', R)
<1>1. Good(blocks) /\ Good(blocks')
  BY InvariantIsGood
<1>2. SameFrame(blocks, blocks')
  BY DEF SameFrame, Remains
<1> QED BY <1>1, <1>2, InPlace
-----------------------------------------------------------------------------
(* Blocks that are kept as they are, at other places. *)
Moved(f, g, keep) ==
  {r \in Position(f) \X Position(g) :
     /\ r[1].block \in keep
     /\ g[r[2].block] = f[r[1].block]
     /\ r[2].at = r[1].at}

LEMMA SelectionKeeps ==
  ASSUME NEW f, Good(f), NEW g, Good(g), NEW keep \in SUBSET DOMAIN f, 1 \in keep,
         Selects(g, f, keep), g[1] = f[1],
         \A b \in keep : \A l \in TargetsOf(f[b]) : \E c \in keep : f[c].label = l
  PROVE  \E R : Bisimulation(f, g, R)
<1> DEFINE R == Moved(f, g, keep)
<1>1. \A r \in R : /\ r[1] \in Position(f) /\ r[2] \in Position(g)
                   /\ r[1].block \in keep /\ g[r[2].block] = f[r[1].block]
                   /\ r[2].at = r[1].at
  BY DEF Moved
<1>2. \A p \in Position(f), q \in Position(g) :
        p.block \in keep /\ g[q.block] = f[p.block] /\ q.at = p.at => <<p, q>> \in R
  BY DEF Moved
<1>3. <<Start, Start>> \in R
  <2>1. 1 \in DOMAIN g /\ 1 \in DOMAIN f
    BY FunctionFacts DEF Good
  <2>2. Start \in Position(f) /\ Start \in Position(g) /\ Start.block = 1 /\ Start.at = 1
    BY <2>1, GotoFacts DEF Start
  <2> QED BY <1>2, <2>2
<1>4. R \subseteq Position(f) \X Position(g)
  BY DEF Moved
<1> HIDE DEF R
<1>5. ASSUME NEW b \in keep, NEW l \in TargetsOf(f[b])
      PROVE  <<Goto(f, l), Goto(g, l)>> \in R
  <2>1. PICK c \in keep : f[c].label = l
    BY <1>5
  <2>2. PICK d \in DOMAIN g : g[d] = f[c]
    BY <2>1 DEF Selects
  <2>3. /\ Goto(f, l) = [block |-> c, at |-> 1] /\ [block |-> c, at |-> 1] \in Position(f)
        /\ Goto(g, l) = [block |-> d, at |-> 1] /\ [block |-> d, at |-> 1] \in Position(g)
    BY <2>1, <2>2, GotoFacts
  <2> QED BY <1>2, <2>1, <2>2, <2>3
<1>6. ASSUME NEW r \in R PROVE Matches(f, g, R, r[1], r[2])
  <2> DEFINE p == r[1]
             q == r[2]
  <2>1. /\ p \in Position(f) /\ q \in Position(g) /\ p.block \in keep
        /\ g[q.block] = f[p.block] /\ q.at = p.at
    BY <1>1
  <2> HIDE DEF p, q
  <2>2. At(g, q) = At(f, p)
    BY <2>1 DEF At
  <2>3. At(f, p).op = "call" => <<Onward(p), Onward(q)>> \in R
    <3> SUFFICES ASSUME At(f, p).op = "call" PROVE <<Onward(p), Onward(q)>> \in R
      OBVIOUS
    <3>1. Onward(p) \in Position(f) /\ Onward(q) \in Position(g)
      BY <2>1, <2>2, PositionFacts DEF Onward
    <3>2. /\ Onward(p).block = p.block /\ Onward(p).at = p.at + 1
          /\ Onward(q).block = q.block /\ Onward(q).at = q.at + 1
      BY <2>1, PositionFacts DEF Onward
    <3> QED BY <1>2, <2>1, <3>1, <3>2
  <2>4. Targets(At(f, p)) \subseteq TargetsOf(f[p.block])
    BY <2>1, PositionFacts
  <2>5. At(f, p).op \in {"jump", "condi"} =>
          <<Goto(f, At(f, p).yes), Goto(g, At(g, q).yes)>> \in R
    BY <1>5, <2>1, <2>2, <2>4 DEF Targets
  <2>6. At(f, p).op = "condi" => <<Goto(f, At(f, p).no), Goto(g, At(g, q).no)>> \in R
    BY <1>5, <2>1, <2>2, <2>4 DEF Targets
  <2>7. Matches(f, g, R, p, q)
    BY <2>1, <2>2, <2>3, <2>5, <2>6, SameInstruction
  <2> QED BY <2>7 DEF p, q
<1>7. Bisimulation(f, g, R)
  BY <1>3, <1>4, <1>6 DEF Bisimulation
<1> QED BY <1>7

LEMMA RemoveUnreachableKeeps ==
  ASSUME OptInv, RemoveUnreachable
  PROVE  \E R : Bisimulation(blocks, blocks', R)
<1> DEFINE keep == Reachable
<1>1. Good(blocks) /\ Good(blocks')
  BY InvariantIsGood, RemoveUnreachableInv
<1>2. /\ keep \subseteq DOMAIN blocks /\ 1 \in keep
      /\ \A b \in keep : Successors(b) \subseteq keep
  BY <1>1, ReachableIsClosed DEF Good
<1>3. blocks' = Kept(keep) /\ UniqueLabels
  BY DEF RemoveUnreachable, OptInv
<1> HIDE DEF keep
<1>4. Selects(blocks', blocks, keep) /\ blocks'[1] = blocks[1]
  BY <1>1, <1>2, <1>3, KeptIsSelection DEF Good
<1>5. ASSUME NEW b \in keep, NEW l \in TargetsOf(blocks[b])
      PROVE  \E c \in keep : blocks[c].label = l
  <2> DEFINE c == BlockOf(blocks, l)
  <2>1. l \in Labels(blocks)
    BY <1>1, <1>2, BlockFacts DEF Good
  <2>2. c \in DOMAIN blocks /\ blocks[c].label = l
    BY <1>1, <2>1, BlockOfLabel DEF Good
  <2>3. c # 0
    BY <1>1, <2>2, FunctionFacts DEF Good
  <2>4. c \in Successors(b)
    BY <2>3 DEF Successors
  <2> QED BY <1>2, <2>2, <2>4
<1> QED BY <1>1, <1>2, <1>4, <1>5, SelectionKeeps
-----------------------------------------------------------------------------
(* Redirection renames what an instruction goes to, and nothing else. *)
Renamed(l, from, to) == IF l = from THEN to ELSE l

LEMMA RedirectedInstruction ==
  ASSUME NEW i \in Instruction, NEW from, NEW to
  PROVE  /\ Redirect(i, from, to).op = i.op
         /\ i.op # "jump" => Redirect(i, from, to).arg = i.arg
         /\ i.op \in {"jump", "condi"} => Redirect(i, from, to).yes = Renamed(i.yes, from, to)
         /\ i.op = "condi" => Redirect(i, from, to).no = Renamed(i.no, from, to)
<1>1. CASE i.op = "jump"
  <2>1. Redirect(i, from, to) =
          [op |-> "jump", arg |-> <<>>, yes |-> Renamed(i.yes, from, to), no |-> NoLabel]
    BY <1>1 DEF Redirect, Jump, Inst, Renamed
  <2> QED BY <1>1, <2>1
<1>2. CASE i.op = "condi"
  <2>1. Redirect(i, from, to) =
          [op |-> "condi", arg |-> i.arg, yes |-> Renamed(i.yes, from, to), no |-> Renamed(i.no, from, to)]
    BY <1>2 DEF Redirect, Condi, Inst, Renamed
  <2> QED BY <1>2, <2>1
<1>3. CASE i.op \notin {"jump", "condi"}
  <2>1. Redirect(i, from, to) = i
    BY <1>3 DEF Redirect
  <2> QED BY <1>3, <2>1
<1> QED BY <1>1, <1>2, <1>3

(* The block u does nothing but jump to another, and in g whatever went to u
   goes there. *)
Bypasses(g, f, u) ==
  /\ u \in DOMAIN f /\ u # 1
  /\ Len(f[u].code) = 1 /\ f[u].code[1].op = "jump" /\ f[u].code[1].yes # f[u].label
  /\ DOMAIN g = DOMAIN f
  /\ \A b \in DOMAIN f : g[b].label = f[b].label
  /\ \A b \in DOMAIN f \ {u} :
       /\ DOMAIN g[b].code = DOMAIN f[b].code
       /\ \A i \in DOMAIN f[b].code :
            g[b].code[i] = Redirect(f[b].code[i], f[u].label, f[u].code[1].yes)

(* Outside of u every place is paired with itself, and u with where it goes. *)
Away(f, u) == {<<p, p>> : p \in {r \in Position(f) : r.block # u}}
Past(g, f, u) == <<[block |-> u, at |-> 1], Goto(g, f[u].code[1].yes)>>

LEMMA BypassKeeps ==
  ASSUME NEW f, Good(f), NEW g, Good(g), NEW u, Bypasses(g, f, u)
  PROVE  \E R : Bisimulation(f, g, R)
<1> DEFINE R    == Away(f, u) \cup {Past(g, f, u)}
           from == f[u].label
           to   == f[u].code[1].yes
           pu   == [block |-> u, at |-> 1]
<1>1. /\ u \in DOMAIN f /\ u # 1 /\ Len(f[u].code) = 1 /\ f[u].code[1].op = "jump" /\ to # from
      /\ DOMAIN g = DOMAIN f
      /\ \A b \in DOMAIN f : g[b].label = f[b].label
      /\ \A b \in DOMAIN f \ {u} :
           /\ DOMAIN g[b].code = DOMAIN f[b].code
           /\ \A i \in DOMAIN f[b].code : g[b].code[i] = Redirect(f[b].code[i], from, to)
  BY DEF Bypasses
<1>2. PICK v \in DOMAIN f \ {u} : f[v].label = to
  <2>1. TargetsOf(f[u]) = {to} /\ TargetsOf(f[u]) \subseteq Labels(f)
    BY <1>1, BlockFacts DEF Targets, Good
  <2> QED BY <1>1, <2>1 DEF Labels
<1> DEFINE pv == [block |-> v, at |-> 1]
<1>3. /\ pu \in Position(f) /\ pv \in Position(f) /\ pv \in Position(g)
      /\ Goto(f, from) = pu /\ Goto(f, to) = pv /\ Goto(g, to) = pv
  BY <1>1, <1>2, GotoFacts
<1>4. /\ \A p \in Position(f) : p.block # u => <<p, p>> \in R
      /\ <<pu, pv>> \in R
      /\ \A r \in R : \/ r[1] \in Position(f) /\ r[1].block # u /\ r[2] = r[1]
                      \/ r[1] = pu /\ r[2] = pv
  BY <1>3 DEF Away, Past
<1>5. \A p \in Position(f) : p.block # u => p \in Position(g)
  BY <1>1 DEF Position
<1>6. R \subseteq Position(f) \X Position(g)
  <2>1. Away(f, u) \subseteq Position(f) \X Position(g)
    BY <1>5 DEF Away
  <2>2. Past(g, f, u) \in Position(f) \X Position(g)
    BY <1>3 DEF Past
  <2> QED BY <2>1, <2>2
<1>7. <<Start, Start>> \in R
  <2>1. 1 \in DOMAIN f
    BY FunctionFacts DEF Good
  <2>2. Start \in Position(f) /\ Start.block = 1
    BY <2>1, GotoFacts DEF Start
  <2> QED BY <1>1, <1>4, <2>2
<1> HIDE DEF R, from, to, pu, pv
<1>8. ASSUME NEW l \in Labels(f)
      PROVE  <<Goto(f, l), Goto(g, Renamed(l, from, to))>> \in R
  <2>1. CASE l = from
    BY <1>3, <1>4, <2>1 DEF Renamed
  <2>2. CASE l # from
    <3>1. PICK b \in DOMAIN f : f[b].label = l
      BY DEF Labels
    <3>2. b # u /\ b \in DOMAIN g /\ g[b].label = l
      BY <1>1, <2>2, <3>1 DEF from
    <3>3. /\ Goto(f, l) = [block |-> b, at |-> 1] /\ [block |-> b, at |-> 1] \in Position(f)
          /\ Goto(g, l) = [block |-> b, at |-> 1]
      BY <3>1, <3>2, GotoFacts
    <3> QED BY <1>4, <2>2, <3>2, <3>3 DEF Renamed
  <2> QED BY <2>1, <2>2
<1>9. ASSUME NEW p \in Position(f), p.block # u PROVE Matches(f, g, R, p, p)
  <2> DEFINE i == At(f, p)
             j == At(g, p)
  <2>1. /\ p \in Position(g) /\ i \in Instruction /\ p.block \in DOMAIN f
        /\ p.at \in DOMAIN f[p.block].code
        /\ i = f[p.block].code[p.at] /\ j = g[p.block].code[p.at]
        /\ Targets(i) \subseteq Labels(f)
    <3>1. p \in Position(g) /\ p \in Position(f) /\ Good(f)
      BY <1>5, <1>9
    <3>2. p.at \in DOMAIN f[p.block].code /\ j = g[p.block].code[p.at]
      BY <3>1 DEF Position, At
    <3> QED BY <3>1, <3>2, PositionFacts
  <2>2. j = Redirect(i, from, to)
    BY <1>1, <1>9, <2>1
  <2>3. /\ j.op = i.op /\ (i.op # "jump" => j.arg = i.arg)
        /\ i.op \in {"jump", "condi"} => j.yes = Renamed(i.yes, from, to)
        /\ i.op = "condi" => j.no = Renamed(i.no, from, to)
    <3>1. i \in Instruction
      BY <2>1
    <3> HIDE DEF i, j
    <3>2. /\ Redirect(i, from, to).op = i.op
          /\ i.op # "jump" => Redirect(i, from, to).arg = i.arg
          /\ i.op \in {"jump", "condi"} => Redirect(i, from, to).yes = Renamed(i.yes, from, to)
          /\ i.op = "condi" => Redirect(i, from, to).no = Renamed(i.no, from, to)
      BY ONLY <3>1, RedirectedInstruction
    <3> QED BY ONLY <2>2, <3>2
  <2>4. /\ i.op \in {"jump", "condi"} => i.yes \in Labels(f)
        /\ i.op = "condi" => i.no \in Labels(f)
    <3> HIDE DEF i, j
    <3> QED BY ONLY <2>1 DEF Targets
  <2>5. i.op = "call" => <<Onward(p), Onward(p)>> \in R
    <3> SUFFICES ASSUME i.op = "call" PROVE <<Onward(p), Onward(p)>> \in R
      OBVIOUS
    <3>1. Onward(p) \in Position(f) /\ Onward(p).block = p.block
      BY PositionFacts DEF Onward
    <3> QED BY <1>4, <1>9, <3>1
  <2>6. i.op \in {"jump", "condi"} => <<Goto(f, i.yes), Goto(g, j.yes)>> \in R
    BY <1>8, <2>3, <2>4
  <2>7. i.op = "condi" => <<Goto(f, i.no), Goto(g, j.no)>> \in R
    BY <1>8, <2>3, <2>4
  <2> QED BY <2>1, <2>3, <2>5, <2>6, <2>7, SameInstruction
<1>10. Silent(f, pu) /\ Glide(f, pu) = pv
  <2>1. InCode(f, pu) /\ At(f, pu) = f[u].code[1]
    BY <1>3, PositionFacts DEF At, pu
  <2>2. Silent(f, pu)
    BY <1>1, <2>1 DEF Silent
  <2>3. Glide(f, pu) = Goto(f, to)
    BY <1>1, <2>1 DEF Glide, to
  <2> QED BY <1>3, <2>2, <2>3
<1>11. pv.block # u /\ <<pv, pv>> \in R
  BY <1>2, <1>3, <1>4 DEF pv
<1>12. ASSUME NEW r \in R
       PROVE  \/ Matches(f, g, R, r[1], r[2])
              \/ /\ Silent(f, r[1])
                 /\ <<Glide(f, r[1]), r[2]>> \in R
                 /\ Matches(f, g, R, Glide(f, r[1]), r[2])
  <2>1. CASE r[1] \in Position(f) /\ r[1].block # u /\ r[2] = r[1]
    BY <1>9, <2>1
  <2>2. CASE r[1] = pu /\ r[2] = pv
    <3>1. Matches(f, g, R, pv, pv)
      BY <1>3, <1>9, <1>11
    <3> QED BY <1>10, <1>11, <2>2, <3>1
  <2> QED BY <1>4, <2>1, <2>2
<1>13. Bisimulation(f, g, R)
  BY <1>6, <1>7, <1>12 DEF Bisimulation
<1> QED BY <1>13

LEMMA ForwardBlockKeeps ==
  ASSUME OptInv, ForwardBlock
  PROVE  \E R : Bisimulation(blocks, blocks', R)
<1>1. Good(blocks) /\ Good(blocks')
  BY InvariantIsGood, ForwardBlockInv
<1> DEFINE from == blocks[at].label
           to   == blocks[at].code[1].yes
<1>2. /\ at \in DOMAIN blocks /\ at # 1 /\ Len(blocks[at].code) = 1
      /\ blocks[at].code[1].op = "jump" /\ to # from
      /\ blocks' = [b \in DOMAIN blocks |-> [blocks[b] EXCEPT !.code =
                      IF b = at THEN <<Jump(from)>> ELSE Redirected(@, from, to)]]
  BY DEF ForwardBlock, Forwards
<1>3. DOMAIN blocks' = DOMAIN blocks
  BY <1>2
<1>4. \A b \in DOMAIN blocks : blocks[b] = [label |-> blocks[b].label, code |-> blocks[b].code]
  BY <1>1, BlockFacts DEF Good
<1>5. \A b \in DOMAIN blocks : blocks'[b].label = blocks[b].label
  BY <1>2, <1>4
<1>6. \A b \in DOMAIN blocks \ {at} : blocks'[b].code = Redirected(blocks[b].code, from, to)
  BY <1>2, <1>4
<1>7. ASSUME NEW b \in DOMAIN blocks \ {at}
      PROVE  /\ DOMAIN blocks'[b].code = DOMAIN blocks[b].code
             /\ \A i \in DOMAIN blocks[b].code :
                  blocks'[b].code[i] = Redirect(blocks[b].code[i], from, to)
  BY <1>6 DEF Redirected
<1>8. Bypasses(blocks', blocks, at)
  BY <1>2, <1>3, <1>5, <1>7 DEF Bypasses
<1> QED BY <1>1, <1>8, BypassKeeps
-----------------------------------------------------------------------------
(* Where the instructions of two pieces of code are in the joined one. *)
LEMMA JoinedPlaces ==
  ASSUME NEW c \in Seq(Instruction), NEW d \in Seq(Instruction), c # <<>>
  PROVE  /\ Front(c) \o d \in Seq(Instruction)
         /\ Len(Front(c) \o d) = (Len(c) - 1) + Len(d)
         /\ \A i \in 1 .. (Len(c) - 1) : (Front(c) \o d)[i] = c[i]
         /\ \A i \in 1 .. Len(d) : (Front(c) \o d)[(Len(c) - 1) + i] = d[i]
<1> DEFINE front == Front(c)
           join  == front \o d
           k     == Len(c) - 1
<1>1. Len(c) \in Nat \ {0} /\ Len(d) \in Nat /\ k \in Nat
  BY EmptySeq, LenProperties
<1>2. front \in Seq(Instruction) /\ Len(front) = k /\ \A i \in 1 .. k : front[i] = c[i]
  <2>1. /\ 1 \in Nat \ {0} /\ 1 =< k + 1 /\ k =< Len(c) /\ (k - 1) + 1 = k
        /\ \A i \in 1 .. k : (1 + i) - 1 = i
    BY <1>1
  <2>2. front = SubSeq(c, 1, k)
    BY DEF Front
  <2> HIDE DEF front, k
  <2>3. /\ front \in Seq(Instruction) /\ Len(front) = (k - 1) + 1
        /\ \A i \in 1 .. (k - 1) + 1 : front[i] = c[(1 + i) - 1]
    BY <1>1, <2>1, <2>2, Slice
  <2> QED BY <2>1, <2>3
<1> HIDE DEF front
<1>3. /\ join \in Seq(Instruction) /\ Len(join) = Len(front) + Len(d)
      /\ \A i \in 1 .. Len(front) : join[i] = front[i]
      /\ \A i \in Len(front) + 1 .. Len(front) + Len(d) : join[i] = d[i - Len(front)]
  BY ONLY <1>2, d \in Seq(Instruction), Joined
<1> HIDE DEF join, k
<1>4. /\ Len(join) = k + Len(d)
      /\ \A i \in 1 .. k : join[i] = c[i]
      /\ \A i \in k + 1 .. k + Len(d) : join[i] = d[i - k]
  BY <1>2, <1>3
<1>5. ASSUME NEW i \in 1 .. Len(d) PROVE join[k + i] = d[i]
  <2>1. k + i \in k + 1 .. k + Len(d) /\ (k + i) - k = i
    BY <1>1
  <2> QED BY <1>4, <2>1
<1> QED BY <1>3, <1>4, <1>5 DEF join, front, k

(* In g the block b has taken over t, which no other block went to; h is
   what becomes of the blocks before t is dropped. *)
TakesOver(g, h, f, b, t) ==
  /\ b \in DOMAIN f /\ t \in DOMAIN f /\ t # 1 /\ t # b
  /\ TargetsOf(f[b]) = {f[t].label}
  /\ f[b].code[Len(f[b].code)].op = "jump"
  /\ f[b].code[Len(f[b].code)].yes = f[t].label
  /\ \A c \in DOMAIN f \ {b, t} : f[t].label \notin TargetsOf(f[c])
  /\ f[t].label \in TargetsOf(f[t]) => Len(f[b].code) = 1
  /\ DOMAIN h = DOMAIN f
  /\ \A c \in DOMAIN f :
       /\ h[c].label = f[c].label
       /\ h[c].code = Redirected(IF c = b THEN Front(f[b].code) \o f[t].code ELSE f[c].code,
                                 f[t].label, f[b].label)
  /\ Selects(g, h, DOMAIN f \ {t}) /\ g[1] = h[1]

(* The places of t are behind those of b, less its jump. *)
Home(c, b, t) == IF c = t THEN b ELSE c
Place(f, p, b, t) == IF p.block = t THEN (Len(f[b].code) - 1) + p.at ELSE p.at

Joins(g, h, f, b, t) ==
  {r \in Position(f) \X Position(g) :
     /\ g[r[2].block] = h[Home(r[1].block, b, t)]
     /\ r[2].at = Place(f, r[1], b, t)}

(* Every instruction but the jump is where it should be. *)
LEMMA TakenOverCode ==
  ASSUME NEW f, Good(f), NEW g, NEW h, NEW b, NEW t, TakesOver(g, h, f, b, t),
         NEW p \in Position(f), ~(p.block = b /\ p.at = Len(f[b].code))
  PROVE  /\ Place(f, p, b, t) \in DOMAIN h[Home(p.block, b, t)].code
         /\ h[Home(p.block, b, t)].code[Place(f, p, b, t)]
              = Redirect(At(f, p), f[t].label, f[b].label)
<1> DEFINE c  == p.block
           cb == f[b].code
           ct == f[t].code
           lt == f[t].label
           lb == f[b].label
           k  == Len(cb) - 1
<1>1. /\ c \in DOMAIN f /\ p.at \in DOMAIN f[c].code /\ At(f, p) = f[c].code[p.at]
      /\ b \in DOMAIN f /\ t \in DOMAIN f /\ t # b
  <2>1. b \in DOMAIN f /\ t \in DOMAIN f /\ t # b
    BY DEF TakesOver
  <2>2. p.at \in DOMAIN f[c].code
    BY DEF Position
  <2> QED BY <2>1, <2>2, PositionFacts
<1>2. /\ cb \in Seq(Instruction) /\ ct \in Seq(Instruction) /\ cb # <<>>
      /\ DOMAIN cb = 1 .. Len(cb) /\ DOMAIN ct = 1 .. Len(ct)
      /\ Len(cb) \in Nat \ {0} /\ Len(ct) \in Nat \ {0} /\ k \in Nat
  BY <1>1, BlockFacts DEF Good
<1> DEFINE join == Front(cb) \o ct
<1>3. /\ Len(join) = k + Len(ct) /\ join \in Seq(Instruction)
      /\ \A i \in 1 .. k : join[i] = cb[i]
      /\ \A i \in 1 .. Len(ct) : join[k + i] = ct[i]
  BY <1>2, JoinedPlaces
<1>4. /\ h[b].code = Redirected(join, lt, lb)
      /\ \A d \in DOMAIN f : d # b => h[d].code = Redirected(f[d].code, lt, lb)
  BY <1>1 DEF TakesOver
<1> HIDE DEF join
<1>5. DOMAIN join = 1 .. (k + Len(ct))
  BY <1>3, LenProperties
<1> HIDE DEF cb, ct, k, lt, lb
<1>6. CASE c = t
  <2>1. /\ p.at \in 1 .. Len(ct) /\ k + p.at \in DOMAIN join /\ join[k + p.at] = At(f, p)
    <3>1. p.at \in DOMAIN ct /\ ct[p.at] = At(f, p)
      BY <1>1, <1>6 DEF ct
    <3>2. p.at \in 1 .. Len(ct)
      BY <1>2, <3>1
    <3>3. k + p.at \in 1 .. (k + Len(ct))
      BY <1>2, <3>2
    <3> QED BY <1>3, <1>5, <3>1, <3>2, <3>3
  <2>2. Home(p.block, b, t) = b /\ Place(f, p, b, t) = k + p.at
    BY <1>6 DEF Home, Place, k, cb
  <2>3. /\ DOMAIN Redirected(join, lt, lb) = DOMAIN join
        /\ Redirected(join, lt, lb)[k + p.at] = Redirect(join[k + p.at], lt, lb)
    BY <2>1 DEF Redirected
  <2> QED BY <1>4, <2>1, <2>2, <2>3 DEF lt, lb
<1>7. CASE c = b
  <2>1. p.at \in DOMAIN cb /\ p.at # Len(cb)
    BY <1>1, <1>7 DEF cb
  <2>2. p.at \in 1 .. k
    BY <1>2, <2>1 DEF k
  <2>3. p.at \in DOMAIN join /\ join[p.at] = At(f, p)
    BY <1>1, <1>2, <1>3, <1>5, <1>7, <2>2 DEF cb
  <2>4. Home(p.block, b, t) = b /\ Place(f, p, b, t) = p.at
    BY <1>1, <1>7 DEF Home, Place
  <2>5. /\ DOMAIN Redirected(join, lt, lb) = DOMAIN join
        /\ Redirected(join, lt, lb)[p.at] = Redirect(join[p.at], lt, lb)
    BY <2>3 DEF Redirected
  <2> QED BY <1>4, <2>3, <2>4, <2>5 DEF lt, lb
<1>8. CASE c \notin {b, t}
  <2>1. Home(p.block, b, t) = c /\ Place(f, p, b, t) = p.at
    BY <1>8 DEF Home, Place
  <2>2. h[c].code = Redirected(f[c].code, lt, lb)
    BY <1>1, <1>4, <1>8
  <2>3. /\ DOMAIN Redirected(f[c].code, lt, lb) = DOMAIN f[c].code
        /\ Redirected(f[c].code, lt, lb)[p.at] = Redirect(f[c].code[p.at], lt, lb)
    BY <1>1 DEF Redirected
  <2> QED BY <1>1, <2>1, <2>2, <2>3 DEF lt, lb
<1> QED BY <1>6, <1>7, <1>8

LEMMA TakeOverKeeps ==
  ASSUME NEW f, Good(f), NEW g, Good(g), NEW h, NEW b, NEW t, TakesOver(g, h, f, b, t)
  PROVE  \E R : Bisimulation(f, g, R)
<1> DEFINE R  == Joins(g, h, f, b, t)
           cb == f[b].code
           n  == Len(cb)
           lt == f[t].label
           lb == f[b].label
           IsJump(p) == p.block = b /\ p.at = n
           pt == [block |-> t, at |-> 1]
<1>1. /\ b \in DOMAIN f /\ t \in DOMAIN f /\ t # 1 /\ t # b
      /\ TargetsOf(f[b]) = {lt} /\ cb[n].op = "jump" /\ cb[n].yes = lt
      /\ \A c \in DOMAIN f \ {b, t} : lt \notin TargetsOf(f[c])
      /\ lt \in TargetsOf(f[t]) => n = 1
      /\ DOMAIN h = DOMAIN f /\ \A c \in DOMAIN f : h[c].label = f[c].label
      /\ Selects(g, h, DOMAIN f \ {t}) /\ g[1] = h[1]
  BY DEF TakesOver
<1>2. n \in Nat \ {0} /\ 1 \in DOMAIN f /\ (n - 1) + 1 = n
  <2>1. n \in Nat \ {0} /\ 1 \in DOMAIN f
    BY <1>1, BlockFacts, FunctionFacts DEF Good
  <2> HIDE DEF n
  <2> QED BY <2>1
<1>3. /\ R \subseteq Position(f) \X Position(g)
      /\ \A r \in R : /\ r[1] \in Position(f) /\ r[2] \in Position(g)
                      /\ g[r[2].block] = h[Home(r[1].block, b, t)]
                      /\ r[2].at = Place(f, r[1], b, t)
      /\ \A p \in Position(f), q \in Position(g) :
           g[q.block] = h[Home(p.block, b, t)] /\ q.at = Place(f, p, b, t) => <<p, q>> \in R
  BY DEF Joins
<1>4. \A p \in Position(f) : p.block # t => Home(p.block, b, t) = p.block /\ Place(f, p, b, t) = p.at
  BY DEF Home, Place
<1>5. \A p \in Position(f) : p.block = t => Home(p.block, b, t) = b /\ Place(f, p, b, t) = (n - 1) + p.at
  BY DEF Home, Place
<1> HIDE DEF R, lt, lb, n, cb
<1>6. <<Start, Start>> \in R
  <2>1. 1 \in DOMAIN g
    BY FunctionFacts DEF Good
  <2>2. Start \in Position(f) /\ Start \in Position(g) /\ Start.block = 1 /\ Start.at = 1
    BY <1>2, <2>1, GotoFacts DEF Start
  <2> QED BY <1>1, <1>3, <1>4, <2>2
<1>7. ASSUME NEW c \in DOMAIN f \ {t}
      PROVE  \E d \in DOMAIN g : /\ g[d] = h[c] /\ g[d].label = f[c].label
                                 /\ Goto(g, f[c].label) = [block |-> d, at |-> 1]
                                 /\ [block |-> d, at |-> 1] \in Position(g)
  <2>1. PICK d \in DOMAIN g : g[d] = h[c]
    BY <1>1 DEF Selects
  <2>2. g[d].label = f[c].label
    BY <1>1, <2>1
  <2> QED BY <2>1, <2>2, GotoFacts
<1>8. pt \in Position(f) /\ Goto(f, lt) = pt
  BY <1>1, GotoFacts DEF lt
<1>9. ASSUME NEW p \in Position(f), ~IsJump(p), NEW l \in Targets(At(f, p)), IsTerminator(At(f, p))
      PROVE  <<Goto(f, l), Goto(g, Renamed(l, lt, lb))>> \in R
  <2>1. /\ l \in TargetsOf(f[p.block]) /\ l \in Labels(f) /\ p.block \in DOMAIN f
        /\ p.at = Len(f[p.block].code)
    <3>1. Good(f) /\ p \in Position(f) /\ IsTerminator(At(f, p)) /\ l \in Targets(At(f, p))
      BY <1>9
    <3> QED BY ONLY <3>1, PositionFacts
  <2>2. CASE l = lt
    <3>1. p.block # b
      BY <1>9, <2>1 DEF n, cb
    <3>2. p.block = t
      BY <1>1, <2>1, <2>2, <3>1
    <3>3. n = 1
      BY <1>1, <2>1, <2>2, <3>2
    <3>4. PICK d \in DOMAIN g : /\ g[d] = h[b] /\ Goto(g, lb) = [block |-> d, at |-> 1]
                                /\ [block |-> d, at |-> 1] \in Position(g)
      BY <1>1, <1>7 DEF lb
    <3>5. Renamed(l, lt, lb) = lb
      BY <2>2 DEF Renamed
    <3>6. Home(pt.block, b, t) = b /\ Place(f, pt, b, t) = 1
      BY <1>5, <1>8, <3>3
    <3>7. <<pt, Goto(g, lb)>> \in R
      BY <1>3, <1>8, <3>4, <3>6
    <3> QED BY <1>8, <2>2, <3>5, <3>7
  <2>3. CASE l # lt
    <3>1. PICK c \in DOMAIN f : f[c].label = l
      BY <2>1 DEF Labels
    <3>2. c # t
      BY <2>3, <3>1 DEF lt
    <3>3. /\ Goto(f, l) = [block |-> c, at |-> 1] /\ [block |-> c, at |-> 1] \in Position(f)
      BY <3>1, GotoFacts
    <3>4. PICK d \in DOMAIN g : /\ g[d] = h[c] /\ Goto(g, l) = [block |-> d, at |-> 1]
                                /\ [block |-> d, at |-> 1] \in Position(g)
      BY <1>7, <3>1, <3>2
    <3>5. Renamed(l, lt, lb) = l
      BY <2>3 DEF Renamed
    <3>6. <<Goto(f, l), Goto(g, l)>> \in R
      BY <1>3, <1>4, <3>2, <3>3, <3>4
    <3> QED BY <3>5, <3>6
  <2> QED BY <2>2, <2>3
<1>10. ASSUME NEW r \in R, ~IsJump(r[1]) PROVE Matches(f, g, R, r[1], r[2])
  <2> DEFINE p == r[1]
             q == r[2]
             i == At(f, p)
             j == At(g, q)
  <2>1. /\ p \in Position(f) /\ q \in Position(g)
        /\ g[q.block] = h[Home(p.block, b, t)] /\ q.at = Place(f, p, b, t)
    BY <1>3
  <2>2. ~(p.block = b /\ p.at = Len(f[b].code))
    BY <1>10 DEF n, cb
  <2> HIDE DEF p, q
  <2>3. j = Redirect(i, lt, lb)
    BY <2>1, <2>2, TakenOverCode DEF At, lt, lb
  <2>4. i \in Instruction /\ j \in Instruction
    BY <2>1, PositionFacts
  <2>5. /\ j.op = i.op /\ (i.op # "jump" => j.arg = i.arg)
        /\ i.op \in {"jump", "condi"} => j.yes = Renamed(i.yes, lt, lb)
        /\ i.op = "condi" => j.no = Renamed(i.no, lt, lb)
    BY <2>3, <2>4, RedirectedInstruction
  <2>6. i.op \in {"jump", "condi"} => <<Goto(f, i.yes), Goto(g, j.yes)>> \in R
    <3>1. i.op \in {"jump", "condi"} => i.yes \in Targets(i) /\ IsTerminator(i)
      BY DEF Targets, IsTerminator
    <3> QED BY <1>9, <2>1, <2>2, <2>5, <3>1 DEF n, cb
  <2>7. i.op = "condi" => <<Goto(f, i.no), Goto(g, j.no)>> \in R
    <3>1. i.op = "condi" => i.no \in Targets(i) /\ IsTerminator(i)
      BY DEF Targets, IsTerminator
    <3> QED BY <1>9, <2>1, <2>2, <2>5, <3>1 DEF n, cb
  <2>8. i.op = "call" => <<Onward(p), Onward(q)>> \in R
    <3> SUFFICES ASSUME i.op = "call" PROVE <<Onward(p), Onward(q)>> \in R
      OBVIOUS
    <3>1. Onward(p) \in Position(f) /\ Onward(q) \in Position(g)
      BY <2>1, <2>5, PositionFacts DEF Onward
    <3>2. /\ Onward(p).block = p.block /\ Onward(p).at = p.at + 1 /\ p.at \in Nat
          /\ Onward(q).block = q.block /\ Onward(q).at = q.at + 1
      BY <2>1 DEF Onward, Position
    <3>3. Place(f, Onward(p), b, t) = Place(f, p, b, t) + 1
      <4>1. CASE p.block = t
        <5>1. Place(f, p, b, t) = (n - 1) + p.at /\ Place(f, Onward(p), b, t) = (n - 1) + (p.at + 1)
          BY <1>5, <2>1, <3>1, <3>2, <4>1
        <5> QED BY <1>2, <3>2, <5>1
      <4>2. CASE p.block # t
        BY <1>4, <2>1, <3>1, <3>2, <4>2
      <4> QED BY <4>1, <4>2
    <3> QED BY <1>3, <2>1, <3>1, <3>2, <3>3
  <2>9. Matches(f, g, R, p, q)
    BY <2>1, <2>5, <2>6, <2>7, <2>8, SameInstruction
  <2> QED BY <2>9 DEF p, q
<1>11. ASSUME NEW r \in R, IsJump(r[1])
       PROVE  /\ Silent(f, r[1]) /\ Glide(f, r[1]) = pt
              /\ <<pt, r[2]>> \in R
  <2>1. r[1] \in Position(f) /\ r[1].block = b /\ r[1].at = n
    BY <1>3, <1>11
  <2>2. At(f, r[1]) = cb[n] /\ InCode(f, r[1])
    BY <2>1, PositionFacts DEF At, cb
  <2>3. Silent(f, r[1]) /\ Glide(f, r[1]) = Goto(f, lt)
    BY <1>1, <2>2 DEF Silent, Glide
  <2>4. r[2] \in Position(g) /\ g[r[2].block] = h[b] /\ r[2].at = n
    BY <1>1, <1>3, <1>4, <2>1
  <2>5. Home(pt.block, b, t) = b /\ Place(f, pt, b, t) = n
    BY <1>2, <1>5, <1>8
  <2> QED BY <1>3, <1>8, <2>3, <2>4, <2>5
<1>12. ~IsJump(pt)
  BY <1>1
<1>13. ASSUME NEW r \in R
       PROVE  \/ Matches(f, g, R, r[1], r[2])
              \/ /\ Silent(f, r[1])
                 /\ <<Glide(f, r[1]), r[2]>> \in R
                 /\ Matches(f, g, R, Glide(f, r[1]), r[2])
  <2>1. CASE ~IsJump(r[1])
    BY <1>10, <2>1
  <2>2. CASE IsJump(r[1])
    <3> DEFINE s == <<pt, r[2]>>
    <3>1. s \in R /\ s[1] = pt /\ s[2] = r[2]
      BY <1>11, <2>2
    <3>2. Matches(f, g, R, pt, r[2])
      BY <1>10, <1>12, <3>1
    <3> QED BY <1>11, <2>2, <3>2
  <2> QED BY <2>1, <2>2
<1>14. Bisimulation(f, g, R)
  BY <1>3, <1>6, <1>13 DEF Bisimulation
<1> QED BY <1>14

LEMMA MergeBlocksKeeps ==
  ASSUME OptInv, MergeBlocks, ~TakesLoop
  PROVE  \E R : Bisimulation(blocks, blocks', R)
<1>1. /\ Good(blocks) /\ Good(blocks') /\ blocks \in Function /\ Accepted(blocks) /\ UniqueLabels
      /\ pass = "merge"
  BY InvariantIsGood, MergeBlocksInv DEF OptInv, MergeBlocks
<1>2. PICK b, t \in DOMAIN blocks :
        /\ Takes(b, t)
        /\ \A c \in 1..(b - 1), u \in DOMAIN blocks : ~Takes(c, u)
        /\ blocks' = RemoveAt([c \in DOMAIN blocks |->
                       [blocks[c] EXCEPT !.code =
                          Redirected(IF c = b THEN Front(blocks[c].code) \o blocks[t].code
                                              ELSE blocks[c].code,
                                     blocks[t].label, blocks[b].label)]], t)
  BY DEF MergeBlocks
<1> DEFINE lt == blocks[t].label
           lb == blocks[b].label
           own(c)  == IF c = b THEN Front(blocks[c].code) \o blocks[t].code ELSE blocks[c].code
           h == [c \in DOMAIN blocks |-> [blocks[c] EXCEPT !.code = Redirected(own(c), lt, lb)]]
<1>3. blocks' = RemoveAt(h, t)
  BY <1>2
<1>4. /\ t # 1 /\ t # b /\ TargetsOf(blocks[b]) = {lt}
      /\ \A c \in DOMAIN blocks \ {b, t} : lt \notin TargetsOf(blocks[c])
  BY <1>1, <1>2, TakesAlone
<1>5. Merges(b, t)
  BY <1>2 DEF Merges
<1>6. ~Repeats(b, t)
  BY <1>1, <1>2, <1>5 DEF TakesLoop
<1>7. lt \in TargetsOf(blocks[t]) => Len(blocks[b].code) = 1
  <2> DEFINE n == Len(blocks[b].code)
  <2>1. n \in Nat \ {0}
    BY <1>1, BlockFacts
  <2>2. lt \in TargetsOf(blocks[t]) => ~(n > 1)
    BY <1>6 DEF Repeats
  <2> HIDE DEF n, lt
  <2>3. ~(n > 1) => n = 1
    BY <2>1
  <2> QED BY <2>2, <2>3 DEF n
<1>8. /\ blocks[b].code[Len(blocks[b].code)].op = "jump"
      /\ blocks[b].code[Len(blocks[b].code)].yes = lt
  <2> DEFINE last == blocks[b].code[Len(blocks[b].code)]
  <2>1. last.op = "jump"
    BY <1>2 DEF Takes, Last
  <2>2. TargetsOf(blocks[b]) = Targets(last)
    BY <1>1, BlockFacts
  <2> QED BY <1>4, <2>1, <2>2 DEF Targets
<1>9. /\ DOMAIN h = DOMAIN blocks
      /\ \A c \in DOMAIN blocks : /\ h[c] = [label |-> blocks[c].label, code |-> Redirected(own(c), lt, lb)]
                                  /\ h[c].label = blocks[c].label
                                  /\ h[c].code = Redirected(own(c), lt, lb)
  <2>1. \A c \in DOMAIN blocks : blocks[c] = [label |-> blocks[c].label, code |-> blocks[c].code]
    BY <1>1, BlockFacts
  <2> HIDE DEF own
  <2> QED BY <2>1
<1>10. h \in Function
  <2>1. ASSUME NEW c \in DOMAIN blocks
        PROVE  own(c) \in Seq(Instruction) /\ Redirected(own(c), lt, lb) \in Seq(Instruction)
    <3>1. own(c) \in Seq(Instruction)
      <4>1. CASE c = b
        <5>1. /\ blocks[b].code \in Seq(Instruction) /\ blocks[t].code \in Seq(Instruction)
              /\ blocks[b].code # <<>>
          BY <1>1, BlockFacts
        <5> QED BY <4>1, <5>1, JoinedPlaces
      <4>2. CASE c # b
        BY <1>1, <4>2, BlockFacts
      <4> QED BY <4>1, <4>2
    <3>2. lt \in Label /\ lb \in Label
      BY <1>1, BlockFacts
    <3> HIDE DEF own, lt, lb
    <3>3. SameShape(Redirected(own(c), lt, lb), own(c))
      BY <3>1, <3>2, RedirectedCode
    <3> QED BY <3>1, <3>3 DEF SameShape
  <2>2. \A c \in DOMAIN blocks : blocks[c].label \in Label
    BY <1>1, BlockFacts
  <2> DEFINE K == Len(blocks)
  <2>3. K \in Nat \ {0} /\ DOMAIN blocks = 1 .. K
    BY <1>1, FunctionFacts
  <2>4. \A c \in DOMAIN blocks : h[c] \in Block
    <3> HIDE DEF own, lt, lb, h
    <3> QED BY <1>9, <2>1, <2>2 DEF Block
  <2>5. h = [c \in DOMAIN blocks |-> h[c]]
    OBVIOUS
  <2> HIDE DEF h, K
  <2>6. h \in [1 .. K -> Block]
    BY <2>3, <2>4, <2>5
  <2>7. h \in Seq(Block) /\ Len(h) = K
    BY <2>3, <2>6
  <2>8. h # <<>>
    BY <2>3, <2>7, EmptySeq
  <2> QED BY <2>7, <2>8 DEF Function
<1> HIDE DEF h
<1>11. \A i, j \in DOMAIN h : h[i].label = h[j].label => i = j
  BY <1>1, <1>9 DEF Good
<1>12. Selects(blocks', h, DOMAIN blocks \ {t}) /\ blocks'[1] = h[1]
  <2>1. DOMAIN h = DOMAIN blocks
    BY <1>9
  <2> QED BY <1>3, <1>4, <1>10, <1>11, <2>1, RemoveAtSelects
<1>13. ASSUME NEW c \in DOMAIN blocks
       PROVE  h[c].code = Redirected(IF c = b THEN Front(blocks[b].code) \o blocks[t].code
                                              ELSE blocks[c].code, lt, lb)
  BY <1>9
<1>14. TakesOver(blocks', h, blocks, b, t)
  BY <1>2, <1>4, <1>7, <1>8, <1>9, <1>12, <1>13 DEF TakesOver
<1> QED BY <1>1, <1>14, TakeOverKeeps
-----------------------------------------------------------------------------
(* Each step of the passes. *)
LEMMA MeaningStep ==
  OptInv /\ [BeginPasses \/ Pass]_optVars
    => [\/ pass = "waiting"
        \/ TakesLoop
        \/ \E R : Bisimulation(blocks, blocks', R)]_optVars
<1> SUFFICES ASSUME OptInv, BeginPasses \/ Pass, ~TakesLoop
             PROVE  \E R : Bisimulation(blocks, blocks', R)
  OBVIOUS
<1>1. CASE BeginPasses \/ PassBlock \/ SweepAgain \/ EndForward \/ EndMerge
  <2>1. blocks' = blocks
    BY <1>1 DEF BeginPasses, PassBlock, SweepAgain, EndForward, EndMerge
  <2> QED BY <2>1, NothingChanged
<1>2. CASE RemoveUnreachable
  BY <1>2, RemoveUnreachableKeeps
<1>3. CASE ForwardBlock
  BY <1>3, ForwardBlockKeeps
<1>4. CASE PropagateConstants
  BY <1>4, PropagateConstantsKeeps
<1>5. CASE FoldBranches
  BY <1>5, FoldBranchesKeeps
<1>6. CASE MergeBlocks
  BY <1>6, MergeBlocksKeeps
<1> QED BY <1>1, <1>2, <1>3, <1>4, <1>5, <1>6 DEF Pass

(* The optimiser changes how a function gets from one call, test or end to
   the next, and not which ones there are, whatever the function and whatever
   is known or unknown when it runs; except where merging takes over a loop. *)
THEOREM PassesKeepBehaviour == OptSpec => BehaviourKept
BY MeaningStep, PassesKeepFunction, PTL DEF OptSpec, BehaviourKept

-----------------------------------------------------------------------------
(***************************************************************************)
(* The control-flow passes come to an end on every function, at every      *)
(* level: each of their steps makes a measure smaller that cannot become   *)
(* smaller for ever.  The loops of the code that are not over a list are   *)
(* the sweeps of the forwarding pass, repeated while one of them changes   *)
(* something, and the merges, after each of which the walk starts again.   *)
(***************************************************************************)

Forwardable == {b \in DOMAIN blocks : Forwards(b)}

(* How many passes of this round are still to come. *)
Rank(p) ==
  CASE p = "waiting"     -> 6
    [] p = "unreachable" -> 5
    [] p = "forward"     -> 4
    [] p = "propagate"   -> 3
    [] p = "fold"        -> 2
    [] p = "merge"       -> 1
    [] OTHER             -> 0

(* What the pass that runs may still change, whether it has to sweep once
   more for what it has changed, and what is left of the sweep. *)
Work == IF pass = "forward" THEN Cardinality(Forwardable)
        ELSE IF pass = "merge" THEN Len(blocks) ELSE 0

Resweep == IF pass = "forward" /\ changed THEN 1 ELSE 0

ToSweep == IF pass = "forward" THEN (Len(blocks) + 1) - at ELSE 0

Measure == <<rounds, Rank(pass), Work, Resweep, ToSweep>>

(* The first place where two measures differ decides. *)
Less(m, n) == \E i \in 1..5 : m[i] < n[i] /\ \A j \in 1..(i - 1) : m[j] = n[j]

MeasureOK == Measure \in Nat \X Nat \X Nat \X Nat \X Nat

(* Each step is one towards the end. *)
PassesGoOn == [][BeginPasses \/ Pass => Less(Measure', Measure)]_optVars

(* What the measure needs of the variables that steer the passes. *)
Steering ==
  /\ rounds \in Nat
  /\ pass # "done" => rounds > 0
  /\ pass = "forward" => at \in 1..(Len(blocks) + 1)

ProgressInv == OptInv /\ Steering
-----------------------------------------------------------------------------
LEMMA LessAt ==
  ASSUME NEW m, NEW n, NEW i \in 1..5, m[i] < n[i], \A j \in 1..(i - 1) : m[j] = n[j]
  PROVE  Less(m, n)
BY DEF Less

LEMMA RemoveAtShortens ==
  ASSUME NEW S, NEW h \in Seq(S), NEW t \in 1 .. Len(h)
  PROVE  Len(RemoveAt(h, t)) = Len(h) - 1
<1> DEFINE K  == Len(h)
           lo == SubSeq(h, 1, t - 1)
           hi == SubSeq(h, t + 1, K)
<1>1. K \in Nat /\ t \in 1 .. K
  BY LenProperties
<1>2. lo \in Seq(S) /\ Len(lo) = t - 1
  <2>1. /\ 1 \in Nat \ {0} /\ t - 1 \in Nat /\ 1 =< (t - 1) + 1 /\ t - 1 =< Len(h)
        /\ ((t - 1) - 1) + 1 = t - 1
    BY <1>1
  <2>2. lo \in Seq(S) /\ Len(lo) = ((t - 1) - 1) + 1
    BY ONLY <2>1, h \in Seq(S), Slice
  <2> HIDE DEF lo
  <2> QED BY <2>1, <2>2
<1>3. hi \in Seq(S) /\ Len(hi) = K - t
  <2>1. /\ t + 1 \in Nat \ {0} /\ K \in Nat /\ t + 1 =< K + 1 /\ K =< Len(h)
        /\ (K - (t + 1)) + 1 = K - t
    BY <1>1
  <2>2. hi \in Seq(S) /\ Len(hi) = (K - (t + 1)) + 1
    <3>1. h \in Seq(S)
      OBVIOUS
    <3>2. /\ SubSeq(h, t + 1, K) \in Seq(S)
          /\ Len(SubSeq(h, t + 1, K)) = (K - (t + 1)) + 1
      <4> DEFINE m == t + 1
      <4>1. m \in Nat \ {0} /\ m =< K + 1
        BY <2>1
      <4> HIDE DEF m
      <4>2. SubSeq(h, m, K) \in Seq(S) /\ Len(SubSeq(h, m, K)) = (K - m) + 1
        BY ONLY <2>1, <3>1, <4>1, Slice
      <4> QED BY <4>2 DEF m
    <3> QED BY ONLY <3>2 DEF hi
  <2> HIDE DEF hi
  <2> QED BY <2>1, <2>2
<1>4. RemoveAt(h, t) = lo \o hi
  BY DEF RemoveAt
<1> HIDE DEF lo, hi
<1>5. Len(lo \o hi) = Len(lo) + Len(hi)
  BY ONLY <1>2, <1>3, Joined
<1> QED BY <1>1, <1>2, <1>3, <1>4, <1>5

LEMMA MergeShortens ==
  ASSUME OptInv, MergeBlocks
  PROVE  Len(blocks') = Len(blocks) - 1
<1>1. PICK b, t \in DOMAIN blocks :
        blocks' = RemoveAt([c \in DOMAIN blocks |->
                    [blocks[c] EXCEPT !.code =
                       Redirected(IF c = b THEN Front(blocks[c].code) \o blocks[t].code
                                           ELSE blocks[c].code,
                                  blocks[t].label, blocks[b].label)]], t)
  BY DEF MergeBlocks
<1> DEFINE h == [c \in DOMAIN blocks |->
                   [blocks[c] EXCEPT !.code =
                      Redirected(IF c = b THEN Front(blocks[c].code) \o blocks[t].code
                                          ELSE blocks[c].code,
                                 blocks[t].label, blocks[b].label)]]
           K == Len(blocks)
<1>2. K \in Nat \ {0} /\ DOMAIN blocks = 1 .. K
  BY FunctionFacts DEF OptInv
<1>3. h = [i \in DOMAIN blocks |-> h[i]]
  OBVIOUS
<1>4. blocks' = RemoveAt(h, t)
  BY <1>1
<1> HIDE DEF h, K
<1> DEFINE S == {h[i] : i \in 1 .. K}
<1>5. h \in [1 .. K -> S]
  BY <1>2, <1>3
<1> HIDE DEF S
<1>6. h \in Seq(S) /\ Len(h) = K /\ t \in 1 .. Len(h)
  BY <1>2, <1>5
<1> QED BY <1>2, <1>4, <1>6, RemoveAtShortens DEF K

(* A block that is bypassed is never bypassed again in the same pass, and no
   other block becomes one that can be. *)
LEMMA ForwardableShrinks ==
  ASSUME OptInv, ForwardBlock
  PROVE  /\ IsFiniteSet(Forwardable) /\ IsFiniteSet(Forwardable')
         /\ Cardinality(Forwardable') \in Nat /\ Cardinality(Forwardable) \in Nat
         /\ Cardinality(Forwardable') < Cardinality(Forwardable)
<1> DEFINE from == blocks[at].label
           to   == blocks[at].code[1].yes
<1>1. /\ Good(blocks) /\ Good(blocks')
      /\ \A b, c \in DOMAIN blocks : blocks[b].label = blocks[c].label => b = c
  BY InvariantIsGood, ForwardBlockInv DEF Good
<1>2. /\ at \in DOMAIN blocks /\ Forwards(at)
      /\ blocks' = [b \in DOMAIN blocks |-> [blocks[b] EXCEPT !.code =
                      IF b = at THEN <<Jump(from)>> ELSE Redirected(@, from, to)]]
  BY DEF ForwardBlock
<1>3. \A b \in DOMAIN blocks : blocks[b] = [label |-> blocks[b].label, code |-> blocks[b].code]
  BY <1>1, BlockFacts DEF Good
<1>4. /\ DOMAIN blocks' = DOMAIN blocks
      /\ \A b \in DOMAIN blocks : blocks'[b].label = blocks[b].label
      /\ blocks'[at].code = <<Jump(from)>>
      /\ \A b \in DOMAIN blocks \ {at} : blocks'[b].code = Redirected(blocks[b].code, from, to)
  BY <1>2, <1>3
<1>5. at \notin Forwardable'
  <2>1. Jump(from).yes = from /\ <<Jump(from)>>[1] = Jump(from)
    BY DEF Jump, Inst
  <2>2. blocks'[at].code[1].yes = blocks'[at].label
    BY <1>2, <1>4, <2>1
  <2> QED BY <2>2 DEF Forwardable, Forwards
<1>6. ASSUME NEW b \in Forwardable' PROVE b \in Forwardable
  <2>1. /\ b \in DOMAIN blocks /\ b # at /\ b # 1
        /\ Len(blocks'[b].code) = 1 /\ blocks'[b].code[1].op = "jump"
        /\ blocks'[b].code[1].yes # blocks[b].label
    BY <1>4, <1>5, <1>6 DEF Forwardable, Forwards
  <2> DEFINE c == blocks[b].code
  <2>2. c \in Seq(Instruction) /\ blocks[b].label # from
    BY <1>1, <1>2, <2>1, BlockFacts DEF Good
  <2>3. blocks'[b].code = Redirected(c, from, to)
    BY <1>4, <2>1
  <2>4. from \in Label /\ to \in Label
    <3>1. to \in TargetsOf(blocks[at]) /\ TargetsOf(blocks[at]) \subseteq Labels(blocks)
      BY <1>1, <1>2, BlockFacts DEF Good, Forwards, Targets
    <3>2. Labels(blocks) \subseteq Label
      <4>1. \A d \in DOMAIN blocks : blocks[d].label \in Label
        BY <1>1, FunctionFacts DEF Good
      <4> QED BY <4>1 DEF Labels
    <3>3. from \in Label
      BY <1>1, <1>2, BlockFacts DEF Good
    <3> HIDE DEF to
    <3> QED BY <3>1, <3>2, <3>3
  <2> HIDE DEF c, from, to
  <2>5. SameShape(Redirected(c, from, to), c)
    BY <2>2, <2>4, RedirectedCode
  <2>6. Len(c) = 1
    BY <2>1, <2>3, <2>5 DEF SameShape
  <2>7. 1 \in DOMAIN c /\ c[1] \in Instruction
    <3>1. DOMAIN c = 1 .. Len(c) /\ 1 \in 1 .. Len(c)
      BY <2>2, <2>6, LenProperties
    <3> QED BY <2>2, <3>1, ElementOfSeq
  <2>8. blocks'[b].code[1] = Redirect(c[1], from, to)
    BY <2>3, <2>7 DEF Redirected
  <2>9. c[1].op = "jump" /\ blocks'[b].code[1].yes = Renamed(c[1].yes, from, to)
    BY <2>1, <2>7, <2>8, RedirectedInstruction
  <2>10. c[1].yes # blocks[b].label
    BY <2>1, <2>2, <2>9 DEF Renamed
  <2> QED BY <2>1, <2>6, <2>9, <2>10 DEF Forwardable, Forwards, c
<1>7. IsFiniteSet(DOMAIN blocks)
  BY <1>1, FunctionFacts, FS_Interval DEF Good
<1>8. IsFiniteSet(Forwardable) /\ at \in Forwardable
  <2>1. Forwardable \subseteq DOMAIN blocks
    BY DEF Forwardable
  <2> QED BY <1>2, <1>7, <2>1, FS_Subset DEF Forwardable
<1>9. Forwardable' \subseteq Forwardable \ {at}
  BY <1>5, <1>6
<1> DEFINE S == Forwardable
           T == Forwardable'
<1> HIDE DEF S, T
<1>10. IsFiniteSet(S \ {at}) /\ Cardinality(S \ {at}) = Cardinality(S) - 1
  BY <1>8, FS_RemoveElement DEF S
<1>11. IsFiniteSet(T) /\ Cardinality(T) =< Cardinality(S \ {at})
  BY <1>9, <1>10, FS_Subset DEF S, T
<1>12. Cardinality(S) \in Nat /\ Cardinality(T) \in Nat
  BY <1>8, <1>11, FS_CardinalityType DEF S
<1> QED BY <1>8, <1>10, <1>11, <1>12 DEF S, T
-----------------------------------------------------------------------------
(* The variables that steer the passes stay in their ranges. *)
LEMMA SteeringStart == OptInit => Steering
<1> SUFFICES ASSUME OptInit PROVE Steering
  OBVIOUS
<1>1. PICK l \in 0..3 : Waiting(l)
  BY DEF OptInit
<1>2. rounds \in Nat /\ rounds > 0
  BY <1>1, RoundsAssumption DEF Waiting, RoundsAt
<1> QED BY <1>1, <1>2 DEF Waiting, Steering

LEMMA SteeringStep ==
  ASSUME ProgressInv, OptInv', BeginPasses \/ Pass
  PROVE  Steering'
<1>1. /\ rounds \in Nat
      /\ pass # "done" => rounds > 0
      /\ pass = "forward" => at \in 1..(Len(blocks) + 1)
  BY DEF ProgressInv, Steering
<1>2. /\ Len(blocks) \in Nat \ {0} /\ DOMAIN blocks = 1 .. Len(blocks)
      /\ Len(blocks') \in Nat \ {0}
  BY FunctionFacts DEF ProgressInv, OptInv
<1>3. CASE BeginPasses
  BY <1>1, <1>3 DEF BeginPasses, Steering
<1>4. CASE RemoveUnreachable
  BY <1>1, <1>2, <1>4 DEF RemoveUnreachable, Steering
<1>5. CASE ForwardBlock
  <2>1. Len(blocks') = Len(blocks)
    <3>1. DOMAIN blocks' = DOMAIN blocks
      BY <1>5 DEF ForwardBlock
    <3>2. DOMAIN blocks' = 1 .. Len(blocks')
      BY FunctionFacts DEF OptInv
    <3> QED BY <1>2, <3>1, <3>2
  <2>2. /\ at \in DOMAIN blocks /\ at' = at + 1
        /\ rounds' = rounds /\ pass' = pass /\ pass = "forward"
    BY <1>5 DEF ForwardBlock
  <2> QED BY <1>1, <1>2, <2>1, <2>2 DEF Steering
<1>6. CASE PassBlock
  BY <1>1, <1>2, <1>6 DEF PassBlock, Steering
<1>7. CASE SweepAgain
  BY <1>1, <1>2, <1>7 DEF SweepAgain, Steering
<1>8. CASE EndForward
  BY <1>1, <1>2, <1>8 DEF EndForward, Steering
<1>9. CASE PropagateConstants
  BY <1>1, <1>9 DEF PropagateConstants, Steering
<1>10. CASE FoldBranches
  BY <1>1, <1>10 DEF FoldBranches, Steering
<1>11. CASE MergeBlocks
  BY <1>1, <1>11 DEF MergeBlocks, Steering
<1>12. CASE EndMerge
  BY <1>1, <1>12 DEF EndMerge, Steering
<1> QED BY <1>3, <1>4, <1>5, <1>6, <1>7, <1>8, <1>9, <1>10, <1>11, <1>12 DEF Pass
(* The measure stays among the natural numbers. *)
LEMMA ProgressMeasure ==
  ASSUME ProgressInv
  PROVE  /\ MeasureOK
         /\ Work \in Nat /\ ToSweep \in Nat
<1>1. Len(blocks) \in Nat /\ DOMAIN blocks = 1 .. Len(blocks)
  BY FunctionFacts DEF ProgressInv, OptInv
<1>2. Cardinality(Forwardable) \in Nat
  <2>1. IsFiniteSet(DOMAIN blocks)
    BY <1>1, FS_Interval
  <2>2. Forwardable \subseteq DOMAIN blocks
    BY DEF Forwardable
  <2> QED BY <2>1, <2>2, FS_Subset, FS_CardinalityType
<1>3. Work \in Nat
  BY <1>1, <1>2 DEF Work
<1>4. ToSweep \in Nat
  BY <1>1 DEF ToSweep, ProgressInv, Steering
<1>5. rounds \in Nat /\ Resweep \in Nat
  BY DEF Resweep, ProgressInv, Steering
<1>6. Rank(pass) \in Nat
  BY DEF Rank
<1> QED BY <1>3, <1>4, <1>5, <1>6 DEF MeasureOK, Measure

LEMMA Decides ==
  ASSUME NEW a1, NEW a2, NEW a3, NEW a4, NEW a5,
         NEW b1, NEW b2, NEW b3, NEW b4, NEW b5,
         \/ a1 < b1
         \/ a1 = b1 /\ a2 < b2
         \/ a1 = b1 /\ a2 = b2 /\ a3 < b3
         \/ a1 = b1 /\ a2 = b2 /\ a3 = b3 /\ a4 < b4
         \/ a1 = b1 /\ a2 = b2 /\ a3 = b3 /\ a4 = b4 /\ a5 < b5
  PROVE  Less(<<a1, a2, a3, a4, a5>>, <<b1, b2, b3, b4, b5>>)
<1> DEFINE m == <<a1, a2, a3, a4, a5>>
           n == <<b1, b2, b3, b4, b5>>
<1>1. /\ m[1] = a1 /\ m[2] = a2 /\ m[3] = a3 /\ m[4] = a4 /\ m[5] = a5
      /\ n[1] = b1 /\ n[2] = b2 /\ n[3] = b3 /\ n[4] = b4 /\ n[5] = b5
  OBVIOUS
<1> HIDE DEF m, n
<1>2. PICK i \in 1..5 : m[i] < n[i] /\ \A j \in 1..(i - 1) : m[j] = n[j]
  <2>1. CASE a1 < b1
    BY <1>1, <2>1
  <2>2. CASE a1 = b1 /\ a2 < b2
    BY <1>1, <2>2
  <2>3. CASE a1 = b1 /\ a2 = b2 /\ a3 < b3
    BY <1>1, <2>3
  <2>4. CASE a1 = b1 /\ a2 = b2 /\ a3 = b3 /\ a4 < b4
    BY <1>1, <2>4
  <2>5. CASE a1 = b1 /\ a2 = b2 /\ a3 = b3 /\ a4 = b4 /\ a5 < b5
    BY <1>1, <2>5
  <2> QED BY <2>1, <2>2, <2>3, <2>4, <2>5
<1>3. Less(m, n)
  BY <1>2 DEF Less
<1> QED BY <1>3 DEF m, n

(* Each step makes the measure smaller. *)
LEMMA StepProgresses ==
  ASSUME ProgressInv, BeginPasses \/ Pass
  PROVE  Less(Measure', Measure)
<1>1. /\ rounds \in Nat
      /\ pass # "done" => rounds > 0
      /\ pass = "forward" => at \in 1..(Len(blocks) + 1)
      /\ OptInv
  BY DEF ProgressInv, Steering
<1>2. Len(blocks) \in Nat /\ DOMAIN blocks = 1 .. Len(blocks)
  BY <1>1, FunctionFacts DEF OptInv
<1>3. SUFFICES \/ rounds' < rounds
               \/ rounds' = rounds /\ Rank(pass)' < Rank(pass)
               \/ rounds' = rounds /\ Rank(pass)' = Rank(pass) /\ Work' < Work
               \/ /\ rounds' = rounds /\ Rank(pass)' = Rank(pass) /\ Work' = Work
                  /\ Resweep' < Resweep
               \/ /\ rounds' = rounds /\ Rank(pass)' = Rank(pass) /\ Work' = Work
                  /\ Resweep' = Resweep /\ ToSweep' < ToSweep
  BY Decides DEF Measure
<1>4. CASE BeginPasses
  <2>1. \/ pass = "waiting" /\ pass' = "unreachable" /\ rounds' = rounds
        \/ pass = "waiting" /\ pass' = "done" /\ rounds' = rounds
    BY <1>4 DEF BeginPasses
  <2> QED BY <2>1 DEF Rank
<1>5. CASE RemoveUnreachable
  <2>1. pass = "unreachable" /\ pass' = "forward" /\ rounds' = rounds
    BY <1>5 DEF RemoveUnreachable
  <2> QED BY <2>1 DEF Rank
<1>6. CASE ForwardBlock
  <2>1. pass = "forward" /\ pass' = pass /\ rounds' = rounds
    BY <1>6 DEF ForwardBlock
  <2>2. Cardinality(Forwardable') < Cardinality(Forwardable)
    BY <1>1, <1>6, ForwardableShrinks
  <2>3. Work' < Work
    BY <2>1, <2>2 DEF Work
  <2> QED BY <2>1, <2>3
<1>7. CASE PassBlock
  <2>1. /\ pass = "forward" /\ pass' = pass /\ rounds' = rounds
        /\ blocks' = blocks /\ changed' = changed
        /\ at \in DOMAIN blocks /\ at' = at + 1
    BY <1>7 DEF PassBlock
  <2>2. Forwardable' = Forwardable
    BY <2>1 DEF Forwardable, Forwards
  <2>3. Work' = Work /\ Resweep' = Resweep
    BY <2>1, <2>2 DEF Work, Resweep
  <2>4. ToSweep' < ToSweep
    BY <1>2, <2>1 DEF ToSweep
  <2> QED BY <2>1, <2>3, <2>4
<1>8. CASE SweepAgain
  <2>1. /\ pass = "forward" /\ pass' = pass /\ rounds' = rounds
        /\ blocks' = blocks /\ changed /\ ~changed'
    BY <1>8 DEF SweepAgain
  <2>2. Forwardable' = Forwardable
    BY <2>1 DEF Forwardable, Forwards
  <2>3. Work' = Work
    BY <2>1, <2>2 DEF Work
  <2>4. Resweep' = 0 /\ Resweep = 1
    BY <2>1 DEF Resweep
  <2> QED BY <2>1, <2>3, <2>4
<1>9. CASE EndForward
  <2>1. \/ pass = "forward" /\ pass' = "propagate" /\ rounds' = rounds
        \/ rounds' = rounds - 1
    BY <1>9 DEF EndForward
  <2> QED BY <1>1, <2>1 DEF Rank
<1>10. CASE PropagateConstants
  <2>1. pass = "propagate" /\ pass' = "fold" /\ rounds' = rounds
    BY <1>10 DEF PropagateConstants
  <2> QED BY <2>1 DEF Rank
<1>11. CASE FoldBranches
  <2>1. pass = "fold" /\ pass' = "merge" /\ rounds' = rounds
    BY <1>11 DEF FoldBranches
  <2> QED BY <2>1 DEF Rank
<1>12. CASE MergeBlocks
  <2>1. pass = "merge" /\ pass' = pass /\ rounds' = rounds
    BY <1>12 DEF MergeBlocks
  <2>2. Len(blocks') = Len(blocks) - 1
    BY <1>1, <1>12, MergeShortens
  <2>3. Work' < Work
    BY <1>2, <2>1, <2>2 DEF Work
  <2> QED BY <2>1, <2>3
<1>13. CASE EndMerge
  BY <1>1, <1>13 DEF EndMerge
<1> QED
  BY <1>4, <1>5, <1>6, <1>7, <1>8, <1>9, <1>10, <1>11, <1>12, <1>13 DEF Pass

(* The passes end, for every function alick accepted, at every level and for
   any number of rounds: every step lowers the measure, whose five parts are
   natural numbers, and so there is no run of them without an end. *)
THEOREM PassesEnd == OptSpec => []MeasureOK /\ PassesGoOn
<1>1. OptInit => ProgressInv
  BY OptStart, SteeringStart DEF ProgressInv
<1>2. ProgressInv /\ [BeginPasses \/ Pass]_optVars => ProgressInv'
  <2> SUFFICES ASSUME ProgressInv, [BeginPasses \/ Pass]_optVars PROVE ProgressInv'
    OBVIOUS
  <2>1. OptInv'
    BY OptStep DEF ProgressInv
  <2>2. CASE BeginPasses \/ Pass
    BY <2>1, <2>2, SteeringStep DEF ProgressInv
  <2>3. CASE UNCHANGED optVars
    BY <2>1, <2>3 DEF ProgressInv, Steering, optVars, opt
  <2> QED BY <2>2, <2>3
<1>3. ProgressInv => MeasureOK
  BY ProgressMeasure
<1>4. ProgressInv /\ [BeginPasses \/ Pass]_optVars
        => [BeginPasses \/ Pass => Less(Measure', Measure)]_optVars
  BY StepProgresses
<1> QED BY <1>1, <1>2, <1>3, <1>4, PTL DEF OptSpec, PassesGoOn
=============================================================================
