------------------------------ MODULE DataCode ------------------------------
(***************************************************************************)
(* Statements over data as the parser and the semantic analysis hand them  *)
(* to the generator, and what they mean.  A function takes one integer n.  *)
(* Types are resolved: a field or an element says whether it is reached    *)
(* through a pointer, a call whether its callee is an operator.  The right *)
(* side of an assignment is evaluated before its target, operands from     *)
(* left to right.                                                          *)
(***************************************************************************)
EXTENDS DataValues, FiniteSets, SequencesExt

Num(n)            == <<"num", n>>
Ref(x)            == <<"ref", x>>
AddressOf(e)      == <<"addr", e>>
Deref(e)          == <<"deref", e>>
Minus(e)          == <<"minus", e>>
Not(e)            == <<"not", e>>
Flip(e)           == <<"flip", e>>
Bin(op, l, r)     == <<"bin", op, l, r>>
Field(e, f, via)  == <<"field", e, f, via>>
Elem(e, i, via)   == <<"elem", e, i, via>>
Assign(op, l, e)  == <<"assign", op, l, e>>
Bump(op, l, pre)  == <<"bump", op, l, pre>>
Ask(f, args)      == <<"call", "global", f, args>>
Operator(f, args) == <<"call", "var", f, args>>
Function(f)       == <<"function", f>>

Let(x, e)      == <<"let", x, e>>
LetArray(x, s) == <<"array", x, s>>
LetObject(x)   == <<"object", x>>
Do(e)          == <<"do", e>>
When(e, t, f)  == <<"when", e, t, f>>
Repeat(e, s)   == <<"repeat", e, s>>
Give(e)        == <<"give", e>>

-----------------------------------------------------------------------------
(***************************************************************************)
(* The meaning of an expression: its value and the state it leaves.        *)
(***************************************************************************)
RECURSIVE Eval(_, _)

EvalAll(es, s) ==
  FoldLeft(LAMBDA r, e : LET x == Eval(e, r.s) IN [v |-> Append(r.v, x.v), s |-> x.s],
           [v |-> <<>>, s |-> s], es)

\* An object itself stands for its address, a pointer to one for its value.
Based(e, via) == IF via THEN e ELSE AddressOf(e)

\* Where the value of an expression that can be assigned to is kept.
Where(e, s) ==
  CASE e[1] = "ref"   -> [v |-> PtrTo(s.env[e[2]], 0), s |-> s]
    [] e[1] = "deref" -> Eval(e[2], s)
    [] e[1] = "field" ->
         LET b == Eval(Based(e[2], e[4]), s)
         IN  [v |-> PtrTo(b.v[2], b.v[3] + FieldAt[e[3]]), s |-> b.s]
    [] e[1] = "elem"  ->
         LET b == EvalAll(<<Based(e[2], e[4]), e[3]>>, s)
         IN  [v |-> PtrTo(b.v[1][2], b.v[1][3] + b.v[2][2]), s |-> b.s]

Eval(e, s) ==
  LET one  == Eval(e[2], s)
      all  == EvalAll(CASE e[1] = "bin"    -> <<e[3], e[4]>>
                        [] e[1] = "call"   -> e[4]
                        [] e[1] = "assign" -> <<e[4], AddressOf(e[3])>>
                        [] e[1] = "bump"   -> <<AddressOf(e[3])>>
                        [] OTHER           -> <<AddressOf(e)>>, s)
      set(p, v) == [all.s EXCEPT !.mem = (p :> v) @@ @]
  IN CASE e[1] = "num"   -> [v |-> IntOf(e[2]), s |-> s]
    [] e[1] = "function" -> [v |-> <<"name", e[2]>>, s |-> s]
    [] e[1] = "addr"  -> Where(e[2], s)
    [] e[1] \in {"ref", "deref", "field", "elem"} -> [all EXCEPT !.v = all.s.mem[@[1]]]
    [] e[1] = "minus" -> [one EXCEPT !.v = IntOf(-@[2])]
    [] e[1] = "not"   -> [one EXCEPT !.v = Truth(IsZero(@))]
    [] e[1] = "flip"  -> [one EXCEPT !.v = IntOf(-@[2] - 1)]
    [] e[1] = "bin"   -> [all EXCEPT !.v = Compute(e[2], @[1], @[2])]
    [] e[1] = "call"  -> Invoke(e[3], all.v, all.s)
    [] e[1] = "assign" ->
         LET p == all.v[2]
             v == IF e[2] = "set" THEN all.v[1] ELSE Compute(e[2], all.s.mem[p], all.v[1])
         IN  [v |-> v, s |-> set(p, v)]
    [] e[1] = "bump"  ->
         LET p   == all.v[1]
             old == all.s.mem[p]
             new == Compute(e[2], old, IntOf(1))
         IN  [v |-> IF e[4] THEN new ELSE old, s |-> set(p, new)]

-----------------------------------------------------------------------------
(***************************************************************************)
(* The meaning of a body: what it hands to "out", and what it returns.  A  *)
(* block is left by taking back the environment it was entered with; the   *)
(* object a name stands for is told apart by how deep it is declared.  The *)
(* name of an array is a pointer to its items.                             *)
(***************************************************************************)
Items(x)      == x \o "[]"
Leave(s)      == <<"leave", s.env, s.depth>>
Entered(s)    == [s EXCEPT !.depth = @ + 1]

\* The name x declared in s with the values vs of its parts.
Declared(s, x, vs) ==
  LET object == <<x, s.depth>>
  IN  [s EXCEPT !.env = (x :> object) @@ @,
                !.mem = [p \in {PtrTo(object, i - 1) : i \in DOMAIN vs} |->
                           vs[p[3] + 1]] @@ @]

RECURSIVE Run(_, _, _)

\* One statement whose value is x, with what follows it.
RunStmt(st, body, x, fuel) ==
  LET rest == Tail(body)
      past == Leave(x.s)
  IN  CASE st[1] = "let" -> Run(rest, Declared(x.s, st[2], <<x.v>>), fuel)
        [] st[1] = "array" ->
             LET items == Declared(x.s, Items(st[2]), x.v)
             IN  Run(rest, Declared(items, st[2], <<PtrTo(items.env[Items(st[2])], 0)>>), fuel)
        [] st[1] = "object" -> Run(rest, Declared(x.s, st[2], <<IntOf(0), IntOf(0)>>), fuel)
        [] st[1] = "do"     -> Run(rest, x.s, fuel)
        [] st[1] = "when"   ->
             Run((IF IsZero(x.v) THEN st[4] ELSE st[3]) \o <<past>> \o rest, Entered(x.s), fuel)
        [] st[1] = "repeat" ->
             IF IsZero(x.v) THEN Run(rest, x.s, fuel)
             ELSE Run(st[3] \o <<past>> \o body, Entered(x.s), fuel - 1)
        [] st[1] = "leave"  -> Run(rest, [x.s EXCEPT !.env = st[2], !.depth = st[3]], fuel)
        [] st[1] = "give"   -> [x.s EXCEPT !.out = Append(@, x.v), !.done = TRUE]

Run(body, s, fuel) ==
  IF body = <<>> \/ s.done \/ fuel = 0 THEN s
  ELSE LET st == Head(body)
       IN  RunStmt(st, body,
                   CASE st[1] \in {"do", "when", "repeat", "give"} -> Eval(st[2], s)
                     [] st[1] = "let"   -> Eval(st[3], s)
                     [] st[1] = "array" -> EvalAll(st[3], s)
                     [] OTHER           -> [v |-> <<>>, s |-> s],
                   fuel)

\* consts are the constants declared outside the function.
Meaning(body, consts, n, fuel) ==
  LET outer == [mem |-> <<>>, out |-> <<>>, done |-> FALSE, env |-> <<>>, depth |-> 0]
      known == FoldFunctionOnSet(LAMBDA c, s : Declared(s, c[1], <<IntOf(c[2])>>),
                                 outer, [c \in consts |-> c], consts)
  IN  Run(body, Declared(Entered(known), "n", <<IntOf(n)>>), fuel).out
=============================================================================
