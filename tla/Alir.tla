-------------------------------- MODULE Alir --------------------------------
(***************************************************************************)
(* The part of Alkyl's intermediate representation that carries control:   *)
(* a function is a sequence of labelled blocks, a block a sequence of      *)
(* instructions (include/alir/alir.h).  Instructions that only compute are *)
(* abstracted to a "call" of a name, the thing an observer can see; the    *)
(* four terminators are kept as they are.  The operators below are the     *)
(* look-ups that the lowering, the optimiser and the checker share, and    *)
(* the meaning of a function: what it offers to an observer at a position, *)
(* and the position it moves to.                                           *)
(***************************************************************************)
EXTENDS Integers, Sequences, FiniteSets, SequencesExt

\* A label is the hint the block was asked for with, and the number of its
\* use: <<"while_cond", 1>> is printed while_cond, <<"while_cond", 2>> is
\* printed while_cond_2.
NoLabel == <<"", 0>>

Inst(op, arg, yes, no) == [op |-> op, arg |-> arg, yes |-> yes, no |-> no]

Call(name)       == Inst("call", name, NoLabel, NoLabel)
Jump(l)          == Inst("jump", <<>>, l, NoLabel)
Condi(c, yes, no) == Inst("condi", c, yes, no)
Ret              == Inst("ret", <<>>, NoLabel, NoLabel)
Panic            == Inst("panic", <<>>, NoLabel, NoLabel)

IsTerminator(inst) == inst.op \in {"ret", "jump", "condi", "panic"}

\* A condition is the literal 0 or 1, an expression over literals that only
\* constant propagation evaluates ("0?" and "1?"), or anything else: a value
\* known when the program runs.
Literal  == {<<"0">>, <<"1">>}
Constant == Literal \cup {<<"0?">>, <<"1?">>}
IsTrue(c) == c \in {<<"1">>, <<"1?">>}

\* What a function is made of: labelled blocks of instructions, with at least
\* one block, the entry, which is the first.
Label == STRING \X Nat
Operand == Constant \cup Seq(STRING)

Instruction ==
  [op : {"call", "jump", "condi", "ret", "panic"}, arg : Operand,
   yes : Label \cup {NoLabel}, no : Label \cup {NoLabel}]

Block == [label : Label, code : Seq(Instruction)]

Function == Seq(Block) \ {<<>>}

Labels(blocks) == {blocks[b].label : b \in DOMAIN blocks}

\* The first block with the label, as the walks over func->blocks find it;
\* 0 when there is none.
BlockOf(blocks, l) ==
  SelectInSeq(blocks, LAMBDA block : block.label = l)

Targets(inst) ==
  CASE inst.op = "jump"  -> {inst.yes}
    [] inst.op = "condi" -> {inst.yes, inst.no}
    [] OTHER             -> {}

\* Every label a block jumps to, from any instruction of it.
TargetsOf(block) == UNION {Targets(block.code[i]) : i \in DOMAIN block.code}

Terminated(block) == block.code # <<>> /\ IsTerminator(Last(block.code))

-----------------------------------------------------------------------------
(***************************************************************************)
(* The control-flow check of alick: a block is empty, does not end in a    *)
(* terminator, has one before its end, or ends in a branch to a label no   *)
(* block carries.                                                          *)
(***************************************************************************)
CfgError(blocks, b) ==
  LET code == blocks[b].code
  IN  \/ code = <<>>
      \/ ~IsTerminator(Last(code))
      \/ \E i \in 1..(Len(code) - 1) : IsTerminator(code[i])
      \/ ~(Targets(Last(code)) \subseteq Labels(blocks))

Accepted(blocks) == \A b \in DOMAIN blocks : ~CfgError(blocks, b)

-----------------------------------------------------------------------------
(***************************************************************************)
(* Execution.  A position is a block and an instruction of it.  Jumps and  *)
(* branches on constants are silent; a call, a branch on a run-time value  *)
(* and the two ways to stop are what an observer sees.                     *)
(***************************************************************************)
Start == [block |-> 1, at |-> 1]
Goto(blocks, l) == [block |-> BlockOf(blocks, l), at |-> 1]

InCode(blocks, p) ==
  p.block \in DOMAIN blocks /\ p.at \in DOMAIN blocks[p.block].code
At(blocks, p) == blocks[p.block].code[p.at]

Silent(blocks, p) ==
  /\ InCode(blocks, p)
  /\ \/ At(blocks, p).op = "jump"
     \/ At(blocks, p).op = "condi" /\ At(blocks, p).arg \in Constant

Glide(blocks, p) ==
  LET i == At(blocks, p)
  IN  Goto(blocks, IF i.op = "jump" \/ IsTrue(i.arg) THEN i.yes ELSE i.no)

\* The first position from p on that is not silent.  A function has fewer
\* blocks than Fuel, so a walk that is still silent then never leaves a loop.
Settle(blocks, p, Fuel) ==
  LET walk[n \in 0..Fuel] ==
        IF n = 0 THEN p
        ELSE LET q == walk[n - 1]
             IN  IF Silent(blocks, q) THEN Glide(blocks, q) ELSE q
  IN  walk[Fuel]

\* What an observer can see next: one call, one of the two outcomes of a
\* test, the return, the panic, or that nothing will ever happen.
Offers(blocks, p) ==
  IF ~InCode(blocks, p) THEN {<<"lost">>}
  ELSE LET i == At(blocks, p)
       IN  CASE i.op = "condi" /\ ~Silent(blocks, p) ->
                  {<<"yes">> \o i.arg, <<"no">> \o i.arg}
             [] i.op = "call" -> {<<"call">> \o i.arg}
             [] i.op \in {"ret", "panic"} -> {<<i.op>>}
             [] OTHER -> {<<"hang">>}

Stops(event) == Head(event) \in {"ret", "panic", "hang", "lost"}

\* The position behind an event, and where the run settles then.
Taken(blocks, p, event) ==
  LET i == At(blocks, p)
  IN  CASE Head(event) = "call" -> [p EXCEPT !.at = @ + 1]
        [] Head(event) = "yes"  -> Goto(blocks, i.yes)
        [] Head(event) = "no"   -> Goto(blocks, i.no)

After(blocks, p, event, Fuel) == Settle(blocks, Taken(blocks, p, event), Fuel)
=============================================================================
