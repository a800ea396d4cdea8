------------------------------- MODULE Values -------------------------------
(***************************************************************************)
(* One function whose statements compute, lowered by DataLowering, and the *)
(* optimiser's passes on values and memory.  A pass that turns a temporary *)
(* into a constant does it in place, for every instruction that holds the  *)
(* value, while other passes compare temporaries by their number or the    *)
(* values by their identity.  The passes on the control flow are those of  *)
(* Optlir and do not look at operands.  What the instructions do is        *)
(* compared at every stage with what the statements mean.                  *)
(***************************************************************************)
EXTENDS DataLowering

CONSTANTS Jobs,       \* what is compiled: body, consts, level, pure
          Inputs,     \* the integers the function is tried on
          Rounds,     \* rounds of the passes at level 3
          Fuel        \* iterations and jumps after which a run is cut off

ASSUME InputAssumption == Inputs \subseteq -8..8 /\ Rounds \in Nat \ {0} /\ Fuel \in Nat

VARIABLES job,        \* the function being compiled
          expected,   \* what each input should give
          todo,       \* the statements still to be lowered
          code,       \* values, blocks and the generator's context
          functions,  \* the functions of the module, the one compiled is "main"
          stage,      \* the pass that comes next
          round       \* the rounds still to come, this one included

vars == <<job, expected, todo, code, functions, stage, round>>

V(v) == code.vals[v]
IsTemp(v)   == v # 0 /\ V(v).kind = "temp"
IsConst(v)  == v # 0 /\ V(v).kind = "const"
SameTemp(v, w) == IsTemp(v) /\ IsTemp(w) /\ V(v).n = V(w).n
Elements(s) == {s[i] : i \in DOMAIN s}
Operands(inst) == {inst.op1, inst.op2} \cup Elements(inst.args)
InstsOf(c)  == UNION {Elements(c.blocks[b]) : b \in DOMAIN c.blocks}
Everything  == InstsOf(code)

EachInst(blocks, f(_)) ==
  [b \in DOMAIN blocks |-> [i \in DOMAIN blocks[b] |-> f(blocks[b][i])]]
Without(blocks, gone(_)) ==
  [b \in DOMAIN blocks |-> SelectSeq(blocks[b], LAMBDA inst : ~gone(inst))]

\* The functions of the module beside the one compiled, and whom they call.
Module     == {"main", "out", "poke", "two", "loud", "same", "abs", "sum", "part", "tick", "apply"}
Callees(f) == CASE f = "sum" -> {"sum"} [] f = "loud" -> {"out"} [] OTHER -> {}

-----------------------------------------------------------------------------
Init ==
  /\ job \in Jobs
  /\ expected = [n \in Inputs |-> Meaning(job.body, job.consts, n, Fuel)]
  /\ todo = job.body
  /\ code = Entry(job.consts)
  /\ functions = Module
  /\ stage = "lower"
  /\ round = IF job.level >= 3 THEN Rounds ELSE 1

LowerStmt ==
  /\ stage = "lower" /\ todo # <<>>
  /\ code' = IF Ended(code) THEN code ELSE GenStmt(code, Head(todo))
  /\ todo' = Tail(todo)
  /\ UNCHANGED <<job, expected, functions, stage, round>>

EndBody ==
  /\ stage = "lower" /\ todo = <<>>
  /\ code' = Closed(code)
  /\ stage' = IF job.level = 0 THEN "done" ELSE "unused"
  /\ UNCHANGED <<job, expected, todo, functions, round>>

Pass(from, to, blocks) ==
  /\ stage = from
  /\ code' = [code EXCEPT !.blocks = blocks]
  /\ stage' = to
  /\ UNCHANGED <<job, expected, todo, functions, round>>

-----------------------------------------------------------------------------
(***************************************************************************)
(* Functions nobody uses are removed before the passes and after them.     *)
(* Used is what a call names and what is stored; parameters, which are     *)
(* stored too, are told from functions by their names.  What only a        *)
(* function that is removed uses is still used this time.                  *)
(***************************************************************************)
IsFunction(v) == v # 0 /\ (V(v).kind = "global" \/ (V(v).kind = "var" /\ V(v).n = 0))

UsedBy(insts) ==
  {V(inst.op1).name : inst \in {i \in insts : i.op \in {"call", "store"} /\ IsFunction(i.op1)}}

RemoveUnused ==
  /\ stage \in {"unused", "unused again"}
  /\ functions' = functions \cap
       ({"main"} \cup UsedBy(Everything) \cup UNION {Callees(f) : f \in functions})
  /\ stage' = IF stage = "unused" THEN "forward" ELSE "done"
  /\ UNCHANGED <<job, expected, todo, code, round>>

-----------------------------------------------------------------------------
(***************************************************************************)
(* Store-to-load forwarding.  Within a block a load from a temporary takes *)
(* the value stored to that temporary last, whatever came between; the     *)
(* replacement is made in every block, and followed to its end.            *)
(***************************************************************************)
LastStore(b, i) ==
  LET seen == code.blocks[b]
      js   == {j \in 1..(i - 1) : seen[j].op = "store" /\ SameTemp(seen[j].op2, seen[i].op1)}
  IN  IF js = {} THEN 0 ELSE seen[Max(js)].op1

Forwarded ==
  {<<b, i>> \in UNION {{b} \X DOMAIN code.blocks[b] : b \in DOMAIN code.blocks} :
     code.blocks[b][i].op = "load" /\ LastStore(b, i) # 0}

\* Mutant of Replacement: a replacement that is itself replaced is kept.
Replacement_OneStep(v) ==
  LET next(w) == {LastStore(p[1], p[2]) : p \in {q \in Forwarded :
                    SameTemp(code.blocks[q[1]][q[2]].dest, w)}}
  IN  IF next(v) = {} THEN v ELSE CHOOSE w \in next(v) : TRUE

Replacement(v) ==
  LET next(w) == {LastStore(p[1], p[2]) : p \in {q \in Forwarded :
                    SameTemp(code.blocks[q[1]][q[2]].dest, w)}}
      chase[n \in 0..Len(code.vals)] ==
        IF n = 0 THEN v
        ELSE LET w == chase[n - 1]
             IN  IF next(w) = {} THEN w ELSE CHOOSE x \in next(w) : TRUE
  IN  chase[Cardinality(Forwarded)]

Mem2Reg ==
  LET new == [v \in 0..Len(code.vals) |-> Replacement(v)]
      replaced(inst) == [inst EXCEPT !.op1 = new[@], !.op2 = new[@],
                                     !.args = [a \in DOMAIN @ |-> new[@[a]]]]
      nops == [b \in DOMAIN code.blocks |->
                 SelectSeq([i \in DOMAIN code.blocks[b] |->
                              IF <<b, i>> \in Forwarded
                              THEN Inst("nop", 0, 0, 0) ELSE code.blocks[b][i]],
                           LAMBDA inst : inst.op # "nop")]
  IN  Pass("forward", IF job.level >= 2 THEN "propagate" ELSE "allocs",
           EachInst(nops, replaced))

-----------------------------------------------------------------------------
(***************************************************************************)
(* Constant propagation, in one walk over the instructions.  The result of *)
(* a removed instruction becomes the constant, or takes the number of the  *)
(* operand it is a copy of.                                                *)
(***************************************************************************)
Arithmetic == {"add", "sub", "mul", "div", "mod", "xor", "eq", "neq", "lt", "gt", "lte", "gte"}

IsIdentity(op, n) ==
  \/ n = 0 /\ op \in {"add", "sub", "or", "xor", "mul"}
  \/ n = 1 /\ op \in {"mul", "div", "mod"}
  \/ n = -1 /\ op = "and"

\* What becomes of the result of an instruction: <<>> when it stays.  A copy of
\* a value that is not a temporary (a parameter, after forwarding) gets the
\* number such a value has: 0.
Known(c, inst) ==
  LET x    == c.vals[inst.op1]
      y    == c.vals[inst.op2]
      const(n) == <<"const", n>>
      copy(v)  == <<"temp", IF v.kind = "temp" THEN v.n ELSE 0>>
      kx   == inst.op1 # 0 /\ x.kind = "const"
      ky   == inst.op2 # 0 /\ y.kind = "const"
  IN  CASE inst.op \in Arithmetic /\ kx /\ ky ->
             const(Apply(IF inst.op = "xor" THEN "flip" ELSE inst.op, x.n, y.n))
        [] inst.op \in Arithmetic /\ kx /\ ~ky /\ IsIdentity(inst.op, x.n) -> copy(y)
        [] inst.op \in Arithmetic /\ ~kx /\ ky /\ IsIdentity(inst.op, y.n) -> copy(x)
        [] inst.op = "not" /\ kx  ->
             const(IF c.vals[inst.dest].bool THEN Apply("eq", x.n, 0) ELSE Apply("flip", x.n, 0))
        [] inst.op = "cast" /\ kx -> const(x.n)
        [] OTHER -> <<>>

Become(c, v, k) == [c EXCEPT !.vals[v].kind = k[1], !.vals[v].n = k[2]]

PropagateBlock(c, b) ==
  FoldLeft(LAMBDA d, inst : IF Known(d, inst) = <<>>
                            THEN [d EXCEPT !.blocks[b] = Append(@, inst)]
                            ELSE Become(d, inst.dest, Known(d, inst)),
           [c EXCEPT !.blocks[b] = <<>>], c.blocks[b])

Propagate ==
  /\ stage = "propagate"
  /\ code' = FoldLeft(PropagateBlock, code, [b \in DOMAIN code.blocks |-> b])
  /\ stage' = "stores"
  /\ UNCHANGED <<job, expected, todo, functions, round>>

-----------------------------------------------------------------------------
(***************************************************************************)
(* Stores to an allocation nobody reads.  The value is looked for by its   *)
(* identity; to be stored to is no use.  The stores are looked at one by   *)
(* one: what only a store that has just been removed used is unused.       *)
(***************************************************************************)
IsUsed(c, v) ==
  \E inst \in InstsOf(c) :
    IF inst.op = "store" THEN inst.op1 = v ELSE v \in Operands(inst)

DeadStore(c, inst) ==
  /\ inst.op = "store" /\ IsTemp(inst.op2) /\ ~IsUsed(c, inst.op2)
  /\ \E alloca \in InstsOf(c) : alloca.op = "alloca" /\ alloca.dest = inst.op2

StorelessBlock(c, b) ==
  FoldLeft(LAMBDA d, i : IF DeadStore(d, d.blocks[b][i])
                         THEN [d EXCEPT !.blocks[b][i] = Inst("nop", 0, 0, 0)] ELSE d,
           c, [i \in DOMAIN c.blocks[b] |-> i])

DeadStores ==
  LET swept == FoldLeft(StorelessBlock, code, [b \in DOMAIN code.blocks |-> b])
  IN  Pass("stores", IF job.level >= 3 THEN "calls" ELSE "round",
           Without(swept.blocks, LAMBDA inst : inst.op = "nop"))

(***************************************************************************)
(* Calls of pure functions with constant arguments, in functions that are  *)
(* pure themselves.  "abs" is known by its name; of any other function the *)
(* first constant its entry block returns is the result.  A callee that is *)
(* a global, as in every plain call, is not looked at.                     *)
(***************************************************************************)
Returns == [two |-> 2, loud |-> 2]
PureCallees == {"two", "same", "abs"}

Evaluates(c, inst) ==
  /\ inst.op = "call" /\ job.pure /\ c.vals[inst.op1].kind = "var"
  /\ c.vals[inst.op1].name \in PureCallees
  /\ \A a \in DOMAIN inst.args : c.vals[inst.args[a]].kind = "const"

Evaluated(c, inst) ==
  LET f == c.vals[inst.op1].name
  IN  CASE ~Evaluates(c, inst) -> <<>>
        [] f = "abs" -> <<"const", Abs(c.vals[inst.args[1]].n)>>
        [] f \in DOMAIN Returns -> <<"const", Returns[f]>>
        [] OTHER -> <<>>

EvaluateBlock(c, b) ==
  FoldLeft(LAMBDA d, inst : IF Evaluated(d, inst) = <<>>
                            THEN [d EXCEPT !.blocks[b] = Append(@, inst)]
                            ELSE Become(d, inst.dest, Evaluated(d, inst)),
           [c EXCEPT !.blocks[b] = <<>>], c.blocks[b])

PureCalls ==
  /\ stage = "calls"
  /\ code' = FoldLeft(EvaluateBlock, code, [b \in DOMAIN code.blocks |-> b])
  /\ stage' = "round"
  /\ UNCHANGED <<job, expected, todo, functions, round>>

NextRound ==
  /\ stage = "round"
  /\ round' = round - 1
  /\ stage' = IF round > 1 THEN "propagate" ELSE "allocs"
  /\ UNCHANGED <<job, expected, todo, functions, code>>

-----------------------------------------------------------------------------
(***************************************************************************)
(* Allocations nobody uses, and the stores to them.  Temporaries are told  *)
(* apart by number, and no operand of a store is a use.                    *)
(***************************************************************************)
\* Mutant of UsedNumbers: arguments of calls are overlooked.
UsedNumbers_NotArgs ==
  {V(v).n : v \in {w \in UNION {{inst.op1, inst.op2} : inst \in
     {i \in Everything : i.op \notin {"store", "alloca"}}} : IsTemp(w)}}

UsedNumbers ==
  {V(v).n : v \in {w \in UNION {Operands(inst) : inst \in
     {i \in Everything : i.op \notin {"store", "alloca"}}} : IsTemp(w)}}

Allocated == {V(inst.dest).n : inst \in {i \in Everything : i.op = "alloca" /\ IsTemp(i.dest)}}

DeadAllocs ==
  LET unused == Allocated \ UsedNumbers
      gone(inst) ==
        \/ inst.op = "alloca" /\ IsTemp(inst.dest) /\ V(inst.dest).n \in unused
        \/ inst.op = "store" /\ IsTemp(inst.op2) /\ V(inst.op2).n \in unused
  IN  Pass("allocs", "unused again",
           EachInst(code.blocks, LAMBDA inst : IF gone(inst) THEN Inst("nop", 0, 0, 0)
                                                             ELSE inst))

Next ==
  \/ LowerStmt \/ EndBody \/ RemoveUnused
  \/ Mem2Reg \/ Propagate \/ DeadStores \/ PureCalls \/ NextRound \/ DeadAllocs

Spec == Init /\ [][Next]_vars

-----------------------------------------------------------------------------
TypeOK ==
  /\ stage \in {"lower", "unused", "unused again", "forward", "propagate", "stores", "calls", "round", "allocs", "done"}
  /\ round \in 0..Rounds
  /\ code.current \in DOMAIN code.blocks
  /\ \A v \in DOMAIN code.vals : V(v).kind \in {"temp", "const", "var", "global"}
  /\ \A inst \in Everything : Operands(inst) \cup {inst.dest} \subseteq 0..Len(code.vals)

\* After the lowering and after every pass the function hands out, for each
\* input, what its statements say (alir_gen_expr, optlir_optimize).
SameValues ==
  stage # "lower" => \A n \in Inputs : Behaviour(code, n, Fuel) = expected[n]

\* A temporary that an instruction reads is the result of an instruction that is
\* still there, and a function that it calls or hands on is still a function of
\* the module: no pass removes what is needed, and none turns a use that counts
\* into one that does not (remove_instruction, optlir_dce_allocs,
\* build_used_function_set).
NoDangling ==
  LET made == {V(inst.dest).n : inst \in {i \in Everything : IsTemp(i.dest)}}
  IN  \A inst \in Everything : \A v \in Operands(inst) :
        /\ IsTemp(v) => V(v).n \in made
        /\ IsFunction(v) => V(v).name \in functions
=============================================================================
