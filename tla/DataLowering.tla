---------------------------- MODULE DataLowering ----------------------------
(***************************************************************************)
(* How the generator turns the statements of DataCode into instructions on *)
(* values (alir_gen_expr, alir_gen_addr and the statements around them),   *)
(* and what those instructions do.  A value is an object of the compiler's *)
(* arena that instructions point to; 0 is no value.                        *)
(***************************************************************************)
EXTENDS DataCode

(***************************************************************************)
(* Values, instructions and the generator's context.  0 is no value.       *)
(***************************************************************************)
Value(kind, n, name, bool) == [kind |-> kind, n |-> n, name |-> name, bool |-> bool]

Inst(op, dest, op1, op2) ==
  [op |-> op, dest |-> dest, op1 |-> op1, op2 |-> op2, args |-> <<>>, yes |-> 0, no |-> 0]

IsTerminator(i) == i.op \in {"jump", "condi", "ret"}

New(c, value) == [c EXCEPT !.vals = Append(@, value)]
Newest(c)     == Len(c.vals)

NewTemp(c, bool) ==
  [New(c, Value("temp", c.temps, "", bool)) EXCEPT !.temps = @ + 1]
NewConst(c, n) == New(c, Value("const", n, "", FALSE))

Emit(c, inst) == [c EXCEPT !.blocks[c.current] = Append(@, inst)]

\* An instruction with a new temporary for its result.
Yield(c, op, op1, op2, bool) ==
  LET t == NewTemp(c, bool) IN Emit(t, Inst(op, Newest(t), op1, op2))

Store(c, val, ptr) == Emit(c, Inst("store", 0, val, ptr))

\* A cast to the type of the target, when it differs.
Promoted(c, v, bool) ==
  IF c.vals[v].bool = bool THEN [c |-> c, v |-> v]
  ELSE LET t == Yield(c, "cast", v, 0, bool) IN [c |-> t, v |-> Newest(t)]

\* A name stands for the allocation made for it last.  Constants declared
\* outside are asked for before any name.
Named(c, x, ptr)   == [c EXCEPT !.names = (x :> ptr) @@ @]
Const(c, x)        == {k \in c.consts : k[1] = x}

\* The comparisons that are made from another one by a NOT, and the operators
\* the table of operators does not have.
Operation == [neq |-> "eq", lte |-> "gt", gte |-> "lt", and |-> "add", or |-> "add"]
Negated   == {"neq", "lte", "gte"}
Compares  == {"eq", "lt", "gt"} \cup Negated
Logical   == {"and", "or"}
OperationOf(op) == IF op \in DOMAIN Operation THEN Operation[op] ELSE op

-----------------------------------------------------------------------------
(***************************************************************************)
(* Expressions.  Each gives the context after it, and its value: operands  *)
(* are lowered by Gen, in their order, and handed to the rest as r.        *)
(***************************************************************************)
RECURSIVE Gen(_, _)

With(c) == [c |-> c, v |-> Newest(c)]

GenAll(c, es) ==
  FoldLeft(LAMBDA r, e : LET x == Gen(r.c, e) IN [c |-> x.c, v |-> Append(r.v, x.v)],
           [c |-> c, v |-> <<>>], es)

\* Fields and elements, from the address of the object or a pointer to it.
GenElem(r)     == With(Yield(r.c, "get_ptr", r.v[1], r.v[2], FALSE))
GenField(r, f) == GenElem([c |-> NewConst(r.c, FieldAt[f]), v |-> <<r.v, Newest(r.c) + 1>>])

\* A name that is not known in the function is that of a global.
GenName(c, x) ==
  IF x \in DOMAIN c.names THEN [c |-> c, v |-> c.names[x]]
  ELSE With(New(c, Value("global", 0, x, FALSE)))

GenAddr(c, e) ==
  CASE e[1] = "ref"   -> GenName(c, e[2])
    [] e[1] = "deref" -> Gen(c, e[2])
    [] e[1] = "field" -> GenField(Gen(c, Based(e[2], e[4])), e[3])
    [] e[1] = "elem"  -> GenElem(GenAll(c, <<Based(e[2], e[4]), e[3]>>))

GenAccess(p, bool) == With(Yield(p.c, "load", p.v, 0, bool))

\* A name that is a constant is not read from memory.
GenVarRef(c, x) ==
  IF Const(c, x) # {} THEN With(NewConst(c, (CHOOSE k \in Const(c, x) : TRUE)[2]))
  ELSE LET p == GenName(c, x) IN GenAccess(p, p.c.vals[p.v].bool)

\* A function that is not called, but handed on, is the global of its name.
GenFunction(c, f) == With(New(c, Value("global", 0, f, FALSE)))

\* Whether the type of an expression is that of truth values.
IsBool(c, e) ==
  \/ e[1] = "not"
  \/ e[1] = "bin" /\ e[2] \in Compares \cup Logical
  \/ e[1] = "ref" /\ e[2] \in DOMAIN c.names /\ c.vals[c.names[e[2]]].bool

\* A truth value in a comparison or a sum is made an integer by the semantic
\* analysis; && and || leave it to the generator, which turns the integer of
\* the two into a truth value.
CheckedOperand(c, op, e) == IF op \notin Logical /\ IsBool(c, e) THEN <<"cast", e>> ELSE e

GenCast(r) ==
  LET x == r.c.vals[r.v]
  IN  With(IF x.kind = "const" THEN NewConst(r.c, x.n) ELSE Yield(r.c, "cast", r.v, 0, FALSE))

Matched(r, e) ==
  IF e[2] \notin Logical \/ IsBool(r.c, e[3]) = IsBool(r.c, e[4]) THEN r
  ELSE LET i == IF IsBool(r.c, e[3]) THEN 2 ELSE 1
           p == Promoted(r.c, r.v[i], TRUE)
       IN  [c |-> p.c, v |-> [r.v EXCEPT ![i] = p.v]]

\* A comparison of two constants is folded at once.  The result of a negated
\* comparison is made before the comparison.
GenBinary(r, op) ==
  LET x     == r.c.vals[r.v[1]]
      y     == r.c.vals[r.v[2]]
      dest  == NewTemp(r.c, TRUE)
      comp  == Yield(dest, OperationOf(op), r.v[1], r.v[2], TRUE)
  IN  IF op \in Compares /\ x.kind = "const" /\ y.kind = "const"
      THEN With(NewConst(r.c, Apply(op, x.n, y.n)))
      ELSE IF op \in Negated
      THEN [c |-> Emit(comp, Inst("not", Newest(dest), Newest(comp), 0)), v |-> Newest(dest)]
      ELSE With(Yield(r.c, OperationOf(op), r.v[1], r.v[2], op \in Compares))

Stored(r, ptr) == [r EXCEPT !.c = Store(r.c, r.v, ptr)]

\* x += e and its like: the old value is loaded after e is evaluated.
GenAssign(r, op, promotes) ==
  LET val == r.v[1]
      ptr == r.v[2]
      new == IF promotes THEN Promoted(r.c, val, r.c.vals[ptr].bool) ELSE [c |-> r.c, v |-> val]
      old == Yield(new.c, "load", ptr, 0, FALSE)
  IN  IF op = "set" THEN Stored(new, ptr)
      ELSE Stored(With(Yield(old, op, Newest(old), new.v, FALSE)), ptr)

\* A call; the callee of an operator is a name, of any other call a global.
GenCall(r, kind, f) ==
  LET t == NewTemp(New(r.c, Value(kind, 0, f, FALSE)), FALSE)
  IN  With(Emit(t, [Inst("call", Newest(t), Newest(t) - 1, 0) EXCEPT !.args = r.v]))

GenBump(r, op, pre) ==
  LET old == NewConst(Yield(r.c, "load", r.v, 0, FALSE), 1)
      new == Yield(old, op, Newest(old) - 1, Newest(old), FALSE)
  IN  IF pre THEN Stored(With(new), r.v)
      ELSE [Stored(With(new), r.v) EXCEPT !.v = Newest(old) - 1]

GenUnary(r, kind) ==
  LET k == NewConst(r.c, IF kind = "flip" THEN -1 ELSE 0)
  IN  With(CASE kind = "minus" -> Yield(k, "sub", Newest(k), r.v, FALSE)
             [] kind = "flip"  -> Yield(k, "xor", r.v, Newest(k), FALSE)
             [] kind = "deref" -> Yield(r.c, "load", r.v, 0, FALSE)
             [] kind = "not"   -> IF r.c.vals[r.v].bool
                                  THEN Yield(r.c, "not", r.v, 0, TRUE)
                                  ELSE Yield(k, "eq", r.v, Newest(k), TRUE))

Gen(c, e) ==
  CASE e[1] = "num"  -> With(NewConst(c, e[2]))
    [] e[1] = "ref"  -> GenVarRef(c, e[2])
    [] e[1] = "function" -> GenFunction(c, e[2])
    [] e[1] = "addr" -> GenAddr(c, e[2])
    [] e[1] \in {"field", "elem"} -> GenAccess(Gen(c, AddressOf(e)), FALSE)
    [] e[1] \in {"minus", "flip", "not", "deref"} -> GenUnary(Gen(c, e[2]), e[1])
    [] e[1] = "cast"   -> GenCast(Gen(c, e[2]))
    [] e[1] = "bin"    ->
         GenBinary(Matched(GenAll(c, <<CheckedOperand(c, e[2], e[3]), CheckedOperand(c, e[2], e[4])>>), e),
                   e[2])
    [] e[1] = "assign" -> GenAssign(GenAll(c, <<e[4], AddressOf(e[3])>>), e[2], FALSE)
    [] e[1] = "bump"   -> GenBump(Gen(c, AddressOf(e[3])), e[2], e[4])
    [] e[1] = "call"   -> GenCall(GenAll(c, e[4]), e[2], e[3])

-----------------------------------------------------------------------------
(***************************************************************************)
(* Statements.  One step of the generator lowers one statement of the body *)
(* with all it contains; blocks are named by their place.  The value of    *)
(* the statement is lowered first, and handed to the rest as r.            *)
(***************************************************************************)
RECURSIVE Gens(_, _)

Allocate(c, x, bool) ==
  LET t == NewTemp(c, bool)
  IN  Named(Emit(t, Inst("alloca", Newest(t), 0, 0)), x, Newest(t))

Ended(c)     == c.blocks[c.current] # <<>> /\ IsTerminator(Last(c.blocks[c.current]))
JumpTo(b)    == [Inst("jump", 0, 0, 0) EXCEPT !.yes = b]
Seal(c, b)   == IF Ended(c) THEN c ELSE Emit(c, JumpTo(b))
Branch(r, yes, no) ==
  Emit(r.c, [Inst("condi", 0, r.v, 0) EXCEPT !.yes = yes, !.no = no])
NewBlocks(c, n) == [c EXCEPT !.blocks = @ \o [i \in 1..n |-> <<>>]]
Enter(c, b)     == [c EXCEPT !.current = b]

\* A name is declared after its value is known, with the type of its value.
GenLet(r, x, bool) ==
  LET p == Promoted(r.c, r.v, bool)
      a == Allocate(p.c, x, bool)
  IN  Store(a, p.v, Newest(a))

\* An element of an array is stored.
GenItem(r, heap, i) ==
  LET p == Yield(NewConst(r.c, i - 1), "get_ptr", heap, Newest(r.c) + 1, FALSE)
  IN  Store(p, r.v, Newest(p))

\* The elements are stored one by one; the name is a pointer to them.
GenItems(c, x, es) ==
  LET full == FoldLeft(LAMBDA d, i : GenItem(Gen(d, es[i]), Newest(c), i), c,
                       [i \in DOMAIN es |-> i])
      a    == Allocate(full, x, FALSE)
  IN  Store(a, Newest(c), Newest(a))

GenArray(c, x, es) ==
  LET raw == NewTemp(c, FALSE)
  IN  GenItems(Yield(Emit(raw, Inst("alloca", Newest(raw), 0, 0)), "bitcast",
                     Newest(raw), 0, FALSE), x, es)

GenWhen(r, t, f) ==
  LET n     == Len(r.c.blocks)
      merge == n + (IF f = <<>> THEN 2 ELSE 3)
      open  == NewBlocks(Branch(r, n + 1, n + 2), merge - n)
      else(then) == IF f = <<>> THEN then ELSE Seal(Gens(Enter(then, n + 2), f), merge)
  IN  Enter(else(Seal(Gens(Enter(open, n + 1), t), merge)), merge)

\* The first of three new blocks has the condition.
GenRepeat(cond, body) ==
  LET n == cond.c.current
  IN  Enter(Seal(Gens(Enter(Branch(cond, n + 1, n + 2), n + 1), body), n), n + 2)

GenCondition(c) ==
  Enter(Emit(NewBlocks(c, 3), JumpTo(Len(c.blocks) + 1)), Len(c.blocks) + 1)

GenStmt(c, s) ==
  CASE s[1] = "let"    -> GenLet(Gen(c, s[3]), s[2], IsBool(c, s[3]))
    [] s[1] = "array"  -> GenArray(c, s[2], s[3])
    [] s[1] = "object" -> Allocate(c, s[2], FALSE)
    [] s[1] = "do"     ->
         IF s[2][1] = "assign"
         THEN GenAssign(GenAll(c, <<s[2][4], AddressOf(s[2][3])>>), s[2][2], TRUE).c
         ELSE Gen(c, s[2]).c
    [] s[1] = "when"   -> IF s[2][1] = "num"
                          THEN Gens(c, IF s[2][2] = 0 THEN s[4] ELSE s[3])
                          ELSE GenWhen(Gen(c, s[2]), s[3], s[4])
    [] s[1] = "repeat" -> GenRepeat(Gen(GenCondition(c), s[2]), s[3])
    [] s[1] = "give"   -> LET v == Gen(c, s[2]) IN Emit(v.c, Inst("ret", 0, v.v, 0))

Gens(c, body) ==
  FoldLeft(LAMBDA d, s : IF Ended(d) THEN d ELSE GenStmt(d, s), c, body)

\* The entry block moves the parameters to memory.
EntryOf(consts, params) ==
  LET none == [vals |-> <<>>, blocks |-> <<<<>>>>, current |-> 1, temps |-> 0,
               names |-> <<>>, consts |-> consts]
      each(c, i) ==
        LET a == Allocate(c, params[i], FALSE)
            p == New(a, Value("var", i, "p", FALSE))
        IN  Store(p, Newest(p), Newest(a))
  IN  FoldLeft(each, none, [i \in DOMAIN params |-> i])

Entry(consts) == EntryOf(consts, <<"n">>)

\* A function that can be left at its end returns 0.
Closed(c) ==
  IF Ended(c) THEN c
  ELSE LET k == NewConst(c, 0) IN Emit(k, Inst("ret", 0, Newest(k), 0))

-----------------------------------------------------------------------------
(***************************************************************************)
(* Execution of the blocks.                                                *)
(***************************************************************************)
Read(code, m, v) ==
  LET x == code.vals[v]
  IN  CASE x.kind = "const" -> IntOf(x.n)
        [] x.kind = "temp"  -> IF x.n \in DOMAIN m.temps THEN m.temps[x.n] ELSE <<"lost">>
        [] x.kind = "var" /\ x.n > 0 -> IntOf(m.input)
        [] OTHER            -> <<"name", x.name>>

Result(code, m, inst) ==
  LET x == Read(code, m, inst.op1)
      y == Read(code, m, inst.op2)
  IN  CASE inst.op = "alloca"  -> PtrTo(code.vals[inst.dest].n, 0)
        [] inst.op = "load"    -> IF x \in DOMAIN m.mem THEN m.mem[x] ELSE <<"lost">>
        [] inst.op = "get_ptr" -> IF x[1] = "ptr" THEN Compute("add", x, y) ELSE <<"lost">>
        [] inst.op \in {"cast", "bitcast"} -> x
        [] inst.op = "not"     -> Truth(IsZero(x))
        [] x[1] = "lost" \/ y[1] = "lost" -> <<"lost">>
        [] inst.op = "xor"     -> IntOf(-x[2] - 1)
        [] OTHER               -> Compute(inst.op, x, y)

RECURSIVE Execute(_, _, _, _, _)

Execute(code, m, b, i, fuel) ==
  IF fuel = 0 \/ i > Len(code.blocks[b]) THEN m
  ELSE LET inst == code.blocks[b][i]
           set(v) == [m EXCEPT !.temps = (code.vals[inst.dest].n :> v) @@ @]
       IN  CASE inst.op = "jump"  -> Execute(code, m, inst.yes, 1, fuel - 1)
             [] inst.op = "condi" ->
                  Execute(code, m, IF IsZero(Read(code, m, inst.op1)) THEN inst.no
                                                                        ELSE inst.yes,
                          1, fuel - 1)
             [] inst.op = "ret"   -> [m EXCEPT !.out = Append(@, Read(code, m, inst.op1))]
             [] inst.op = "store" ->
                  Execute(code, [m EXCEPT !.mem = (Read(code, m, inst.op2)
                                               :> Read(code, m, inst.op1)) @@ @],
                          b, i + 1, fuel)
             [] inst.op = "nop"   -> Execute(code, m, b, i + 1, fuel)
             [] inst.op = "call"  ->
                  LET args == [a \in DOMAIN inst.args |-> Read(code, m, inst.args[a])]
                      r    == Invoke(code.vals[inst.op1].name, args,
                                     [mem |-> m.mem, out |-> m.out])
                  IN  Execute(code, [m EXCEPT !.temps = (code.vals[inst.dest].n :> r.v) @@ @,
                                              !.mem = r.s.mem, !.out = r.s.out],
                              b, i + 1, fuel)
             [] OTHER -> Execute(code, set(Result(code, m, inst)), b, i + 1, fuel)

Behaviour(code, input, fuel) ==
  Execute(code, [temps |-> <<>>, mem |-> <<>>, out |-> <<>>, input |-> input],
          1, 1, fuel).out
=============================================================================
