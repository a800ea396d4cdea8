------------------------------- MODULE ErrorRuns -------------------------------
(***************************************************************************)
(* What a program of Alkyl may do with its errors and its marks when it    *)
(* runs: the reference the semantic analysis is held against.  A value is  *)
(* "ok" or the name of an error.  Every path is taken: a division by       *)
(* anything but a constant may fail, a condition may go either way, a      *)
(* loop runs at most twice.  The run collects the promises it breaks.      *)
(*                                                                         *)
(* Expressions: lit (zero), static (val), var (x), addr (x), bin (op, l,   *)
(* r), or (l, r, errs), call (f, args).  Statements: decl (x, form,        *)
(* mutable, e), assign (x, e), inc (x), if (e, then, other), switch (e,    *)
(* cases), loop (mark, e, body), defer (body), exit (word), return (e),    *)
(* purge (err, to), clean (x, as, body, residue), untaint (x, residue),    *)
(* expr (e).                                                               *)
(***************************************************************************)
EXTENDS Naturals, Sequences, SequencesExt, FiniteSets, FiniteSetsExt

Ok == "ok"
DivisionByZero == "ErrDivisionByZero"
NoExpr == [k |-> "none"]

Level(vars, x) ==
  LET at == {i \in DOMAIN vars : x \in DOMAIN vars[i]}
  IN  IF at = {} THEN 0 ELSE Max(at)

Function(p, f) == CHOOSE d \in Range(p.funcs) : d.name = f
MayFail(d) == "tainted" \in d.marks \/ d.errs # {}

\* s: the variables, the promises broken and the functions being run.
Broken(s, what) == [s EXCEPT !.bad = @ \cup {what}]
BrokenIf(s, cond, what) == IF cond THEN Broken(s, what) ELSE s
Inside(p, s, mark) == \E f \in s.running : mark \in Function(p, f).marks
Read(p, s, x) == BrokenIf(s, Level(s.vars, x) = 1 /\ Inside(p, s, "pure"), "global")
Holds(s, x) == s.vars[Level(s.vars, x)][x]
Put(s, x, v) == [s EXCEPT !.vars[Level(s.vars, x)][x].v = v]

\* A value given to a variable: its promise of being pristine may break.
Give(s, x, v) ==
  BrokenIf(Put(s, x, v), Holds(s, x).pristine /\ v # Ok, "pristine")
Variable(form, mutable, v) ==
  [v |-> v, pristine |-> form \notin {"let", "tainted"}, explicit |-> form = "pristine",
   mutable |-> mutable]
New(s, x, form, mutable, v) ==
  BrokenIf([s EXCEPT !.vars[Len(s.vars)] = (x :> Variable(form, mutable, v)) @@ @],
           Variable(form, mutable, v).pristine /\ v # Ok, "pristine")
\* A function that may fail got the address of x: x is pristine no longer.
Spoil(s, x) ==
  LET t == BrokenIf(s, Holds(s, x).explicit, "pristine")
      u == [t EXCEPT !.vars[Level(t.vars, x)][x].pristine = FALSE]
  IN  {u, Put(u, x, DivisionByZero)}
Enter(s) == [s EXCEPT !.vars = Append(@, <<>>)]
Leave(o) == [o EXCEPT !.s.vars = Front(@)]
Out(out, v, s) == [out |-> out, v |-> v, s |-> s]

RECURSIVE Eval(_, _, _), EvalArgs(_, _, _), Exec(_, _, _), Do(_, _, _), Rounds(_, _, _, _)

\* The outcomes of an expression: a value and the state after it.
Eval(p, e, s) ==
  CASE e.k \in {"lit", "static", "none", "addr"} -> {[v |-> Ok, s |-> s]}
    [] e.k = "var" -> {[v |-> Holds(s, e.x).v, s |-> Read(p, s, e.x)]}
    [] e.k = "bin" ->
         UNION {UNION {LET failed == {w \in {l.v, r.v} : w # Ok}
                           safe == e.r.k = "lit" /\ ~e.r.zero
                       IN  {[v |-> w, s |-> r.s] :
                             w \in IF failed # {} THEN {IF l.v # Ok THEN l.v ELSE r.v}
                                   ELSE {Ok} \cup (IF e.op = "/" /\ ~safe
                                                   THEN {DivisionByZero} ELSE {})} :
                       r \in Eval(p, e.r, l.s)} : l \in Eval(p, e.l, s)}
    [] e.k = "or" ->
         UNION {IF l.v # Ok /\ (e.errs = <<>> \/ l.v = Head(e.errs))
                THEN Eval(p, e.r, l.s) ELSE {l} : l \in Eval(p, e.l, s)}
    [] e.k = "call" ->
         LET d == Function(p, e.f)
             Bound(a) == [i \in DOMAIN a.vs |-> d.params[i].name]
             Wrong(a) == \E i \in DOMAIN a.vs : d.params[i].pristine /\ a.vs[i] # Ok
             Called(a) ==
               LET t == BrokenIf(BrokenIf(a.s, Wrong(a), "argument"),
                                 "extern" \in d.marks /\ "pure" \notin d.marks
                                   /\ Inside(p, s, "pure"), "impure")
               IN  [t EXCEPT !.running = @ \cup {e.f},
                             !.vars = <<t.vars[1],
                                [x \in Range(Bound(a)) |->
                                  LET i == CHOOSE j \in DOMAIN a.vs : Bound(a)[j] = x
                                  IN  [v |-> a.vs[i], mutable |-> TRUE,
                                       explicit |-> d.params[i].explicit,
                                       pristine |-> d.params[i].pristine]]>>]
             Back(a, o) ==
               LET t == [o.s EXCEPT !.running = a.s.running,
                                    !.vars = <<o.s.vars[1]>> \o Tail(a.s.vars)]
               IN  BrokenIf(t, o.v # Ok /\ ~MayFail(d), "result")
             Pointed == {x.x : x \in {y \in Range(e.args) : y.k = "addr"}}
             After(t) == IF MayFail(d) /\ Pointed # {} THEN UNION {Spoil(t, x) : x \in Pointed}
                         ELSE {t}
         IN  UNION {UNION {{[v |-> o.v, s |-> t] : t \in After(Back(a, o))} :
                           o \in Exec(p, d.body, Called(a))} : a \in EvalArgs(p, e.args, s)}

EvalArgs(p, args, s) ==
  IF args = <<>> THEN {[vs |-> <<>>, s |-> s]}
  ELSE UNION {{[vs |-> <<a.v>> \o r.vs, s |-> r.s] : r \in EvalArgs(p, Tail(args), a.s)} :
              a \in Eval(p, Head(args), s)}

Block(p, body, s) == {Leave(o) : o \in Exec(p, body, Enter(s))}

\* At most n rounds of the loop c; what ends it is not passed on.
Rounds(p, c, n, s) ==
  LET t == IF c.word = "for" THEN New(Enter(s), c.x, "int", TRUE, Ok) ELSE Enter(s)
  IN  {Out("next", Ok, s)} \cup
      IF n = 0 THEN {}
      ELSE UNION {IF o.out = "return" THEN {Leave(o)}
                  ELSE IF o.out = "break" THEN {Out("next", Ok, Leave(o).s)}
                  ELSE Rounds(p, c, n - 1, Leave(o).s) : o \in Exec(p, c.body, t)}

Tested(c) == BrokenIf(c.s, c.v # Ok, "condition")
\* The error of x reaches the cases of a residue.
Residue(p, s, r, x) ==
  IF r = <<>> THEN {Out("next", Ok, s)}
  ELSE LET case == r[1]
           known == case.errs = {} \/ Holds(s, x).v \in case.errs
       IN  Block(p, case.body, BrokenIf(s, ~known, "residue"))

Do(p, c, s) ==
  CASE c.k = "decl" ->
         {Out("next", Ok, New(o.s, c.x, c.form, c.mutable, o.v)) :
          o \in Eval(p, c.e, s)}
    [] c.k = "assign" ->
         {Out("next", Ok, LET t == BrokenIf(Read(p, o.s, c.x), ~Holds(s, c.x).mutable, "assigned")
                          IN  Give(t, c.x, o.v)) : o \in Eval(p, c.e, s)}
    [] c.k = "inc" -> {Out("next", Ok, BrokenIf(Read(p, s, c.x), ~Holds(s, c.x).mutable, "assigned"))}
    [] c.k = "if" ->
         UNION {UNION {Block(p, b, Tested(o)) :
                       b \in IF c.e.k = "static" THEN {IF c.e.val THEN c.then ELSE c.other}
                             ELSE {c.then, c.other}} : o \in Eval(p, c.e, s)}
    [] c.k = "switch" ->
         UNION {UNION {Block(p, b, Tested(o)) : b \in Range(c.cases)} : o \in Eval(p, c.e, s)}
    [] c.k = "loop" ->
         UNION {Rounds(p, c, 2, BrokenIf(Tested(o), Inside(p, s, "total"), "loop")) :
                o \in Eval(p, c.e, s)}
    [] c.k = "defer" -> {Out("next", Ok, s)}
    [] c.k = "exit" -> {Out(c.word, Ok, s)}
    [] c.k = "return" -> {Out("return", o.v, o.s) : o \in Eval(p, c.e, s)}
    [] c.k = "purge" -> IF c.to = "" THEN {Out("return", c.err, s)}
                        ELSE {Out("next", Ok, Give(s, c.to, c.err))}
    [] c.k = "clean" ->
         IF Holds(s, c.x).v = Ok
         THEN {Leave(o) : o \in Exec(p, c.body, New(Enter(s), c.as, "int", TRUE, Ok))}
         ELSE Residue(p, s, c.residue, c.x)
    [] c.k = "untaint" ->
         IF Holds(s, c.x).v = Ok
         THEN {Out("next", Ok, [s EXCEPT !.vars[Level(s.vars, c.x)][c.x].pristine = TRUE])}
         ELSE {[o EXCEPT !.s = Put([@ EXCEPT !.vars[Level(@.vars, c.x)][c.x].pristine = TRUE],
                                   c.x, Ok)] : o \in Residue(p, s, c.residue, c.x)}
    [] c.k = "expr" -> {Out("next", Ok, o.s) : o \in Eval(p, c.e, s)}

Exec(p, list, s) ==
  IF list = <<>> THEN {Out("next", Ok, s)}
  ELSE UNION {IF o.out = "next" THEN Exec(p, Tail(list), o.s) ELSE {o} :
              o \in Do(p, Head(list), s)}

\* The promises some run of the last function of the program breaks.
BrokenPromises(p) ==
  LET main == Last(p.funcs)
      globals == [x \in p.globals |-> Variable("int", TRUE, Ok)]
      start == [vars |-> <<globals, <<>>>>, bad |-> {}, running |-> {main.name}]
  IN  UNION {o.s.bad : o \in Exec(p, main.body, start)}
================================================================================
