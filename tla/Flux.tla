-------------------------------- MODULE Flux --------------------------------
(***************************************************************************)
(* Generator functions (flux): alir_gen_flux_def turns one into a function *)
(* that fills in a context and a function that resumes it, emit saves      *)
(* where to go on and returns, return says that nothing follows, and a for *)
(* loop calls the second function on a copy of the context until the copy  *)
(* says that it is finished.  Loops may be nested, be left by a break and  *)
(* be begun again, over one object or over another.                        *)
(***************************************************************************)
EXTENDS Integers, Sequences, FiniteSets, SequencesExt

CONSTANTS Generators,  \* params, body of each, in the order of the program
          Arguments,   \* values they may be called with
          Objects,     \* variables of the program that hold a context
          MaxNest,     \* how deep loops are nested
          Junk,        \* what a register may hold before it is written
          MaxCalls,    \* bound on calls and loops begun
          Fuel         \* iterations after which the reference is cut off

ASSUME FluxAssumption == /\ MaxNest \in Nat /\ MaxCalls \in Nat /\ Fuel \in Nat
                         /\ MaxCalls < Fuel

-----------------------------------------------------------------------------
(***************************************************************************)
(* The body of a generator and the values it is meant to give.             *)
(***************************************************************************)
Num(n)        == <<"num", n>>
Ref(x)        == <<"ref", x>>
Bin(op, l, r) == <<op, l, r>>
Emits(e)      == <<"emit", e>>
Let(x, e)     == <<"let", x, e>>
Set(x, e)     == <<"set", x, e>>
When(e, t, f) == <<"when", e, t, f>>
Repeat(e, s)  == <<"while", e, s>>
UpTo(x, e, s) == <<"for", x, e, s>>
Break         == <<"break">>
Defer(s)      == <<"defer", s>>
Give          == <<"return", <<>>>>
GiveUp(e)     == <<"return", <<e>>>>

Apply(op, a, b) ==
  CASE op = "add" -> a + b
    [] op = "mul" -> a * b
    [] op = "lt"  -> IF a < b THEN 1 ELSE 0
    [] op = "eq"  -> IF a = b THEN 1 ELSE 0

\* The value of an expression when the names stand for v.
RECURSIVE Value(_, _)
Value(e, v) ==
  CASE e[1] = "num" -> e[2]
    [] e[1] = "ref" -> v[e[2]]
    [] OTHER        -> Apply(e[1], Value(e[2], v), Value(e[3], v))

\* How a list of statements was left: at its "end", by "break" or "return".
\* A loop is left by its own break only.
Ending(r) == [r EXCEPT !.how = IF @ = "break" THEN "end" ELSE @]

\* Outside the braces the names declared inside stand for what they did.
Outer(r, s, names) ==
  [r EXCEPT !.env = [x \in DOMAIN s.env |-> IF x \in names THEN s.env[x] ELSE @[x]]]
Declared(stmts) == {stmts[i][2] : i \in {i \in DOMAIN stmts : stmts[i][1] = "let"}}

RECURSIVE Meaning(_, _)
Meaning(stmts, s) ==
  IF stmts = <<>> \/ s.how # "end" \/ s.fuel = 0 THEN s
  ELSE LET st   == Head(stmts)
           rest == Tail(stmts)
           v    == Value(IF st[1] \in {"emit", "when", "while"} THEN st[2]
                         ELSE IF st[1] \in {"let", "set", "for"} THEN st[3] ELSE Num(0), s.env)
           bound(x, n) == [s EXCEPT !.env = (x :> n) @@ @]
           turned(r)   == [r EXCEPT !.fuel = @ - 1,
                             !.env = IF st[1] = "turn" THEN [@ EXCEPT ![st[2]] = @ + 1] ELSE @]
           block(b) == Outer(Meaning(b, s), s, Declared(b))
           \* After the body of a loop.
           on(r) == Meaning(IF r.how = "end" THEN stmts ELSE rest,
                            IF r.how = "end" THEN turned(r) ELSE Ending(r))
       IN  CASE st[1] = "emit" -> Meaning(rest, [s EXCEPT !.out = Append(@, v)])
             [] st[1] \in {"let", "set"} -> Meaning(rest, bound(st[2], v))
             [] st[1] = "when"  -> Meaning(rest, block(IF v # 0 THEN st[3] ELSE st[4]))
             [] st[1] = "while" -> IF v = 0 THEN Meaning(rest, s) ELSE on(block(st[3]))
             [] st[1] = "for"   ->
                  Meaning(rest, Outer(Meaning(<<<<"turn", st[2], v, st[4]>>>>, bound(st[2], 0)), s, {st[2]}))
             [] st[1] = "turn"  -> IF s.env[st[2]] >= st[3] THEN Meaning(rest, s) ELSE on(block(st[4]))
             [] st[1] = "defer" -> Meaning(rest, [s EXCEPT !.defers = st[2] \o @])
             [] OTHER           -> [s EXCEPT !.how = st[1]]

\* However the body is left, what it has deferred is done, the last first.
Whole(stmts, s) == LET r == Meaning(stmts, s)
                   IN  Meaning(r.defers, [r EXCEPT !.how = "end"])

Named(g, args) == [p \in ToSet(Generators[g].params) |->
                     args[CHOOSE i \in DOMAIN args : Generators[g].params[i] = p]]
Stream(g, args) ==
  Whole(Generators[g].body,
        [env |-> Named(g, args), out |-> <<>>, how |-> "end", fuel |-> Fuel, defers |-> <<>>]).out

Written == UNION {{Stream(g, args) : args \in [DOMAIN Generators[g].params -> Arguments]} :
                    g \in DOMAIN Generators}

-----------------------------------------------------------------------------
(***************************************************************************)
(* The fields of a context and the function that resumes it.  A cell is a  *)
(* field of the context, or a register, which is lost on every return.     *)
(***************************************************************************)
StateField    == <<"field", 0>>
FinishedField == <<"field", 1>>
ResultField   == <<"field", 2>>
FirstParam    == 4

RECURSIVE FluxVars(_)
FluxVars(stmts) ==
  IF stmts = <<>> THEN <<>>
  ELSE LET st == Head(stmts)
       IN  (CASE st[1] = "let"   -> <<st[2]>>
              [] st[1] = "when"  -> FluxVars(st[3]) \o FluxVars(st[4])
              [] st[1] = "while" -> FluxVars(st[3])
              [] st[1] = "for"   -> <<st[2]>> \o FluxVars(st[4])
              [] OTHER           -> <<>>) \o FluxVars(Tail(stmts))

\* Parameters, then variables: two of one name have two fields, and the name
\* is that of the one declared first.
FieldNames(g) == Generators[g].params \o FluxVars(Generators[g].body)
Symbols(g) ==
  LET vars == FieldNames(g)
      own  == {i \in DOMAIN vars : i > Len(Generators[g].params)}
      of(x) == {i \in DOMAIN vars : vars[i] = x}
      named(x) == IF of(x) \cap own # {} THEN of(x) \cap own ELSE of(x)
  IN  [x \in ToSet(vars) |-> <<"field", FirstParam - 1 + (CHOOSE i \in named(x) : \A j \in named(x) : i <= j)>>]

Store(cell, e, env) == [op |-> "store", cell |-> cell, e |-> e, env |-> env, yes |-> 0, no |-> 0]
Jump(b)             == [op |-> "jump", cell |-> StateField, e |-> Num(0), env |-> <<>>, yes |-> b, no |-> 0]
Condi(e, env, b, d) == [op |-> "condi", cell |-> StateField, e |-> e, env |-> env, yes |-> b, no |-> d]
Ret                 == [op |-> "ret", cell |-> StateField, e |-> Num(0), env |-> <<>>, yes |-> 0, no |-> 0]

Emit(c, inst)   == [c EXCEPT !.blocks[c.cur] = Append(@, inst)]
AddBlocks(c, n) == [c EXCEPT !.blocks = @ \o [i \in 1..n |-> <<>>]]
At(c, b)        == [c EXCEPT !.cur = b]
Count(c)        == Len(c.blocks)
Ended(c) == c.blocks[c.cur] # <<>> /\ Last(c.blocks[c.cur]).op # "store"
\* A jump at the end of a block that has not ended.
Seal(c, b) == IF Ended(c) THEN c ELSE Emit(c, Jump(b))

\* The value is saved, and the number of the block where to go on.
GenYield(c, e) ==
  LET n == c.yields + 1
      d == Emit(Emit(Emit(c, Store(ResultField, e, c.syms)), Store(StateField, Num(n), c.syms)), Ret)
  IN  [At(AddBlocks(d, 1), Count(d) + 1) EXCEPT
         !.yields = n, !.cases = <<[state |-> n, block |-> Count(d) + 1]>> \o @]

\* Every variable has a field; one declared again is stored to.
GenStore(c, x, e) == Emit(c, Store(c.syms[x], e, c.syms))

\* A return, when what was deferred has been lowered: its value is saved, and
\* that the generator has finished.
GenReturn(given, ran) ==
  LET d == IF given = <<>> THEN ran ELSE Emit(ran, Store(ResultField, given[1], ran.syms))
  IN  Emit(Emit(d, Store(FinishedField, Num(1), d.syms)), Ret)

Register(c) == <<"reg", c.regs + 1>>
Pushed(c, b) == [c EXCEPT !.loops = Append(@, b)]
Popped(c)    == [c EXCEPT !.loops = Front(@)]

RECURSIVE Gens(_, _)
Gens(c, stmts) ==
  IF stmts = <<>> THEN c
  ELSE LET st == Head(stmts)
           k  == Count(c)
           \* Into the blocks k+1, k+2 and k+3.
           three(d) == AddBlocks(d, 3)
           branch(e, d) == At(Emit(d, Condi(e, d.syms, k + 1, k + 2)), k + 1)
           when == IF st[4] = <<>>
                   THEN At(Seal(Gens(branch(st[2], AddBlocks(c, 2)), st[3]), k + 2), k + 2)
                   ELSE At(Seal(Gens(At(Seal(Gens(branch(st[2], three(c)), st[3]), k + 3), k + 2), st[4]),
                                k + 3), k + 3)
           \* A condition known when it is lowered makes no blocks.
           known == Gens(c, IF st[2][2] # 0 THEN st[3] ELSE st[4])
           header(d) == At(Emit(three(d), Jump(k + 1)), k + 1)
           while == At(Popped(Seal(Gens(Pushed(At(Emit(header(c), Condi(st[2], c.syms, k + 2, k + 3)),
                                                  k + 2), k + 3), st[3]), k + 1)), k + 3)
           \* The limit and the variable of a for loop are registers.
           limit   == Register(c)
           counter == <<"reg", c.regs + 2>>
           inner   == ("#" :> limit) @@ (st[2] :> counter) @@ c.syms
           opened  == [Emit(Emit(c, Store(limit, st[3], c.syms)), Store(counter, Num(0), c.syms))
                         EXCEPT !.regs = @ + 2, !.syms = (st[2] :> counter) @@ @]
           test(d)    == At(Emit(d, Condi(Bin("lt", Ref(st[2]), Ref("#")), inner, k + 2, k + 3)), k + 2)
           advance(d) == IF Ended(d) THEN d
                         ELSE Emit(Emit(d, Store(counter, Bin("add", Ref(st[2]), Num(1)), inner)), Jump(k + 1))
           \* Of each deferred list the first statement, the last list first.
           ran == FoldLeft(LAMBDA d, s : Gens(d, SubSeq(s, 1, 1)), c, Reverse(c.defers))
           range == At(Popped(advance(Gens(Pushed(test(header(opened)), k + 3), st[4]))), k + 3)
       IN  Gens(CASE Ended(c)           -> c
                  [] st[1] = "emit"     -> GenYield(c, st[2])
                  [] st[1] \in {"let", "set"} -> GenStore(c, st[2], st[3])
                  [] st[1] = "when"     -> IF st[2][1] = "num" THEN known ELSE when
                  [] st[1] = "while"    -> while
                  [] st[1] = "for"      -> range
                  [] st[1] = "break"    -> IF c.loops = <<>> THEN c ELSE Emit(c, Jump(Last(c.loops)))
                  [] st[1] = "defer"    -> [c EXCEPT !.defers = Append(@, st[2])]
                  [] OTHER              -> GenReturn(st[2], ran),
                Tail(stmts))

\* Mutant of Closed: nothing says that the generator has finished.
Closed_Silent(c) == Seal(c, 4)

\* Behind the body: it has finished.
Closed(c) == IF Ended(c) THEN c ELSE Emit(Emit(c, Store(FinishedField, Num(1), c.syms)), Jump(4))

\* Block 1 is the entry, 2 the body, 3 the dispatch and 4 the end.  What the
\* function before has deferred is still on the list.
Fresh(g, defers) ==
  [blocks |-> <<<<Store(<<"reg", 1>>, Ref("#"), [x \in {"#"} |-> StateField]), Jump(3)>>, <<>>, <<>>, <<Ret>>>>,
   cur |-> 2, yields |-> 0, cases |-> <<[state |-> 0, block |-> 2]>>,
   syms |-> Symbols(g), regs |-> 1, loops |-> <<>>, defers |-> defers]

\* Mutant of Dispatch: what is not this case is looked up here again.
Dispatch_Here(c) ==
  LET n == Len(c.cases)
      checks(i) == IF i = 1 THEN 3 ELSE Count(c) + i - 1
      test(i) == <<Condi(Bin("eq", Ref("#"), Num(c.cases[i].state)), [x \in {"#"} |-> <<"reg", 1>>],
                         c.cases[i].block, IF i < n THEN checks(i) ELSE 4)>>
  IN  [c.blocks EXCEPT ![3] = test(1)] \o [i \in 1..(n - 1) |-> test(i + 1)]

\* The saved state is compared with every case, those emitted last first.
Dispatch(c) ==
  LET n == Len(c.cases)
      checks(i) == IF i = 1 THEN 3 ELSE Count(c) + i - 1
      test(i) == <<Condi(Bin("eq", Ref("#"), Num(c.cases[i].state)), [x \in {"#"} |-> <<"reg", 1>>],
                         c.cases[i].block, IF i < n THEN checks(i + 1) ELSE 4)>>
  IN  [c.blocks EXCEPT ![3] = test(1)] \o [i \in 1..(n - 1) |-> test(i + 1)]

\* The functions are lowered one after the other.
ResumeOf(done, g) ==
  LET c == Closed(Gens(Fresh(g, done.defers), Generators[g].body))
  IN  [code |-> Append(done.code, [blocks |-> Dispatch(c), regs |-> c.regs,
                                   states |-> {c.cases[i].state : i \in DOMAIN c.cases}]),
       defers |-> c.defers]
Resumes == FoldLeft(ResumeOf, [code |-> <<>>, defers |-> <<>>], [g \in DOMAIN Generators |-> g]).code

Contexts(g, args) ==
  [f \in 0..(FirstParam + Len(FieldNames(g)) - 1) |->
     IF f - FirstParam + 1 \in DOMAIN args THEN args[f - FirstParam + 1] ELSE 0]

-----------------------------------------------------------------------------
VARIABLES code,    \* the resume function of each generator
          kept,    \* the context in each object
          ctx,     \* the context of the loop at each depth
          nest,    \* how many loops are being executed
          running, \* whether the innermost has called its resume function
          pc,      \* block and instruction
          regs,    \* registers of the call
          got,     \* values the loops have taken
          over,    \* loops that have come to their end
          calls    \* and loops begun, so far

vars == <<code, kept, ctx, nest, running, pc, regs, got, over, calls>>

Loops == 1..MaxNest

Init ==
  /\ code = Resumes
  /\ kept = <<>>
  /\ ctx = <<>>
  /\ nest = 0
  /\ running = FALSE
  /\ pc = <<1, 1>>
  /\ regs = <<>>
  /\ got = [l \in Loops |-> <<>>]
  /\ over = {}
  /\ calls = 0

\* The program goes on, up to a bound.
Goes == ~running /\ calls < MaxCalls /\ calls' = calls + 1

\* The function of the program's name: it fills in a context.
Create(o) ==
  /\ Goes
  /\ \E g \in DOMAIN Generators :
       \E args \in [DOMAIN Generators[g].params -> Arguments] :
         kept' = (o :> [g |-> g, fields |-> Contexts(g, args), values |-> Stream(g, args)]) @@ kept
  /\ UNCHANGED <<code, ctx, nest, running, pc, regs, got, over>>

\* A for loop, inside those being executed, begins with a copy of the context.
Begin(o) ==
  /\ Goes
  /\ o \in DOMAIN kept /\ nest < MaxNest
  /\ nest' = nest + 1
  /\ ctx' = (nest' :> kept[o]) @@ ctx
  /\ got' = [got EXCEPT ![nest'] = <<>>]
  /\ over' = over \ {nest'}
  /\ UNCHANGED <<code, kept, running, pc, regs>>

\* The head of the innermost loop calls the resume function.
Call ==
  /\ Goes
  /\ nest > 0
  /\ running' = TRUE
  /\ pc' = <<1, 1>>
  /\ \E j \in Junk : regs' = [r \in 1..code[ctx[nest].g].regs |-> j]
  /\ UNCHANGED <<code, kept, ctx, nest, got, over>>

\* The innermost loop is left by a break.
Leave ==
  /\ ~running /\ nest > 0
  /\ nest' = nest - 1
  /\ UNCHANGED <<code, kept, ctx, running, pc, regs, got, over, calls>>

-----------------------------------------------------------------------------
(***************************************************************************)
(* The resume function, one instruction at a time.                         *)
(***************************************************************************)
Instr == code[ctx[nest].g].blocks[pc[1]][pc[2]]

Content(cell) == IF cell[1] = "field" THEN ctx[nest].fields[cell[2]] ELSE regs[cell[2]]
Result == Value(Instr.e, [x \in DOMAIN Instr.env |-> Content(Instr.env[x])])

StoreStep ==
  /\ running /\ Instr.op = "store"
  /\ IF Instr.cell[1] = "field"
     THEN ctx' = [ctx EXCEPT ![nest].fields[Instr.cell[2]] = Result] /\ UNCHANGED regs
     ELSE regs' = [regs EXCEPT ![Instr.cell[2]] = Result] /\ UNCHANGED ctx
  /\ pc' = <<pc[1], pc[2] + 1>>
  /\ UNCHANGED <<code, kept, nest, running, got, over, calls>>

JumpStep ==
  /\ running /\ Instr.op \in {"jump", "condi"}
  /\ pc' = <<IF Instr.op = "jump" \/ Result # 0 THEN Instr.yes ELSE Instr.no, 1>>
  /\ UNCHANGED <<code, kept, ctx, nest, running, regs, got, over, calls>>

\* Back in the loop, which ends or takes the result into its variable.
Return ==
  /\ running /\ Instr.op = "ret"
  /\ IF ctx[nest].fields[FinishedField[2]] # 0
     THEN over' = over \cup {nest} /\ nest' = nest - 1 /\ UNCHANGED got
     ELSE /\ got' = [got EXCEPT ![nest] = Append(@, ctx[nest].fields[ResultField[2]])]
          /\ UNCHANGED <<over, nest>>
  /\ running' = FALSE
  /\ UNCHANGED <<code, kept, ctx, pc, regs, calls>>

Resume == StoreStep \/ JumpStep \/ Return

Done == ~running /\ nest = 0 /\ calls = MaxCalls /\ UNCHANGED vars

Next == (\E o \in Objects : Create(o) \/ Begin(o)) \/ Call \/ Leave \/ Resume \/ Done

\* A call is executed by the processor until it returns.
Spec == Init /\ [][Next]_vars /\ WF_vars(Resume)

-----------------------------------------------------------------------------
TypeOK ==
  /\ DOMAIN kept \subseteq Objects /\ nest \in 0..MaxNest /\ 1..nest \subseteq DOMAIN ctx
  /\ \A l \in DOMAIN ctx :
       /\ ctx[l].fields[FinishedField[2]] \in {0, 1}
       /\ ctx[l].fields[StateField[2]] \in code[ctx[l].g].states
  /\ running => /\ nest > 0
                /\ pc[1] \in DOMAIN code[ctx[nest].g].blocks
                /\ pc[2] \in DOMAIN code[ctx[nest].g].blocks[pc[1]]
  /\ over \subseteq DOMAIN ctx /\ calls \in 0..MaxCalls

\* However loops over the objects are nested, left and begun again, each loop
\* takes the values that its generator was written to give, in order, none
\* twice and none left out, whether the body falls off its end or returns,
\* with what was deferred before a return, and ends after the last
\* (alir_gen_flux_def, alir_gen_flux_yield, the return of alir_gen_stmt and
\* alir_for_in_flux).
Promise == INSTANCE Streams WITH
  Loops     <- Loops,
  Sequences <- Written,
  open <- DOMAIN ctx,
  left <- [l \in Loops |-> IF l \notin DOMAIN ctx THEN <<>>
             ELSE SubSeq(ctx[l].values, Len(got[l]) + 1, Len(ctx[l].values))]
ImplementsStreams == Promise!Spec

\* A call of a resume function returns: the dispatch finds the way back into
\* whatever loops the emit was in, and from there the next emit or the end.
Returns == running ~> ~running
=============================================================================
