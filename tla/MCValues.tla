------------------------------ MODULE MCValues ------------------------------
(***************************************************************************)
(* Functions for Values: every operator on what is known when and not,     *)
(* variables that are set in one block and read in another, arrays,        *)
(* objects, pointers, calls that do and do not touch memory.               *)
(***************************************************************************)
EXTENDS Values

n == Ref("n")
x == Ref("x")
y == Ref("y")
Out(e) == Do(Ask("out", <<e>>))
Set(l, e) == Do(Assign("set", l, e))

Operators == {"add", "sub", "mul", "div", "mod", "eq", "neq", "lt", "gt", "lte", "gte"}

\* Operands that are known at once, after a pass, and only at run time.
Known3 == {Num(3), Bin("add", Num(1), Num(2)), Operator("two", <<>>)}
Sums(l) == {Bin(op, l, r) : op \in Operators, r \in Known3 \cup {x}}

\* The expression read once, and read again after what it reads has changed.
Reads(e) == {<<Let("x", Num(5)), Let("y", e), Out(y), Set(x, n), Out(y), Give(x)>>}

OperatorPrograms ==
  UNION {Reads(e) : e \in UNION {Sums(l) : l \in Known3 \cup {n}}}
    \cup UNION {Reads(e) : e \in {Minus(Num(4)), Not(n), Not(Bin("lt", n, Num(1))),
                                  Flip(n), Flip(Num(2)), Not(Num(0)),
                                  Operator("abs", <<Minus(Num(4))>>),
                                  Operator("abs", <<n>>), Operator("same", <<Num(6)>>)}}

\* Truth values and integers in one expression.
Truths == {Not(n), Bin("lt", n, Num(1)), Bin("eq", Num(1), Num(1)), Ref("t")}
MixedPrograms ==
  {<<Let("x", Num(5)), Let("t", Bin("gt", n, Num(0))), Let("y", Bin(op, t, e)), Out(y),
     Out(Not(y)), Give(x)>> :
     op \in {"add", "eq", "lt", "gte"}, t \in Truths, e \in {n, Num(1), Ref("t")}}
    \cup {<<Let("t", Bin("gt", n, Num(0))), Let("x", Num(5)), When(Bin("or", t, n), <<Set(x, t)>>, <<Set(x, n)>>),
            Out(x), When(Bin("or", n, t), <<Out(t)>>, <<>>), Give(x)>> : t \in {Not(n), Ref("t")}}

\* Places a value can be kept in, and what is declared for them.
Places == {x, Field(Ref("o"), "second", FALSE), Field(Ref("q"), "first", TRUE),
           Elem(Ref("a"), Bin("gt", n, Num(0)), TRUE), Elem(Ref("a"), Num(1), TRUE)}
Setup == <<Let("x", Num(5)), LetObject("o"), Set(Field(Ref("o"), "second", FALSE), Num(2)),
           Set(Field(Ref("o"), "first", FALSE), Num(3)),
           Let("q", AddressOf(Ref("o"))), LetArray("a", <<Num(4), n, Num(6)>>)>>
Dump == <<Out(x), Out(Field(Ref("o"), "first", FALSE)), Out(Field(Ref("o"), "second", FALSE)),
          Out(Elem(Ref("a"), Num(0), TRUE)), Out(Elem(Ref("a"), Num(1), TRUE)), Give(n)>>

PlacePrograms ==
  {Setup \o <<Do(Assign(op, p, e))>> \o Dump :
     op \in {"set", "add", "mul"}, p \in Places, e \in {Num(3), n}}
    \cup {Setup \o <<Out(Bump(op, p, pre)), Out(Bump("add", p, TRUE))>> \o Dump :
            op \in {"add", "sub"}, p \in Places, pre \in BOOLEAN}
    \cup {Setup \o <<Out(Bin("add", Assign("set", p, Num(8)), r))>> \o Dump :
            p \in Places, r \in Places}
    \cup {Setup \o <<Set(p, Bin("sub", r, Num(1)))>> \o Dump : p \in Places, r \in Places}

\* What is set in one block and read in another.
Branches ==
  {<<>>, <<Set(x, Num(7))>>, <<Set(x, Bin("add", x, n)), Out(x)>>,
   <<Out(x), Give(x)>>, <<When(Bin("lt", x, n), <<Set(x, Num(0))>>, <<Out(x)>>)>>}
Conditions == {n, Bin("gt", n, Num(0)), Num(1), Num(0), Bin("lt", Num(1), Num(2)),
               Bin("or", Bin("gt", n, Num(0)), Bin("eq", n, Num(-1)))}

ControlPrograms ==
  {<<Let("x", Num(2)), When(c, t, f), Out(x), Give(n)>> :
     c \in Conditions, t \in Branches, f \in Branches}
    \cup {<<Let("x", n), Repeat(Bin("gt", x, Num(0)), b \o <<Do(Bump("sub", x, FALSE))>>), Give(x)>> :
            b \in {<<Out(x)>>, <<Let("y", x), Do(Assign("add", y, Num(1))), Out(y)>>,
                   <<When(n, <<Out(n)>>, <<>>)>>}}

\* Calls that write through a pointer, the variable read in another block.
CallPrograms ==
  {<<Let("x", n), Do(Ask("poke", <<AddressOf(x)>>)), When(c, <<Out(x)>>, <<Set(x, Num(1))>>),
     When(n, <<Out(x)>>, <<>>), Give(n)>> : c \in {n, Bin("gt", n, Num(0))}}
    \cup {<<Let("x", n), Do(Ask("poke", <<AddressOf(x)>>)), Give(n)>>}
    \cup {<<Let("x", e), Out(x), Out(Operator("loud", <<>>)), Give(Ask("two", <<>>))>> :
            e \in {n, Operator("same", <<n>>), Operator("two", <<>>)}}

\* A function kept in a variable, and called or handed on in another block.
HandedPrograms ==
  {<<Let("f", Function("two"))>> \o call \o <<Let("x", n), When(n, <<Out(Ask("apply", <<Ref("f")>>))>>, <<>>),
     Give(x)>> : call \in {<<>>, <<Out(Ask("two", <<>>))>>, <<Out(Ask("apply", <<Function("two")>>))>>}}

Bodies == HandedPrograms \cup OperatorPrograms \cup MixedPrograms \cup PlacePrograms \cup ControlPrograms \cup CallPrograms

SmallInputs == {-1, 0, 2}

Constants == {<<"k", 4>>}
ConstPrograms ==
  {<<Let("x", Bin(op, Ref("k"), n)), Out(x), When(Bin("gt", Ref("k"), Num(1)), <<Out(n)>>, <<>>), Give(x)>> :
     op \in Operators}

AllJobs ==
  [body : Bodies, consts : {{}}, level : {0, 1, 2}, pure : {FALSE}]
    \cup [body : Bodies, consts : {{}}, level : {3}, pure : BOOLEAN]
    \cup [body : ConstPrograms, consts : {Constants}, level : {0, 3}, pure : {FALSE}]

\* Two tests joined by &&: 2 passes the first only, -1 both.
LogicalAnd ==
  [body : {<<When(Bin("and", n, Bin("lt", n, Num(0))), <<Out(Num(1))>>, <<>>), Give(n)>>},
   consts : {{}}, level : {0}, pure : {FALSE}]

\* Two tests joined by ||: for -1 the first gives 1, and the sum is 0.
LogicalOr ==
  [body : {<<When(Bin("or", Bin("lt", n, Num(1)), n), <<Out(Num(1))>>, <<>>), Give(n)>>},
   consts : {{}}, level : {0}, pure : {FALSE}]

\* A second variable of the same name, in the block of a test.
InnerLet ==
  [body : {<<Let("x", Num(5)), When(n, <<Let("x", Num(6)), Out(x)>>, <<>>), Out(x), Give(n)>>},
   consts : {{}}, level : {0}, pure : {FALSE}]

\* What is stored through a pointer, read again from the variable.
StaleLoad ==
  [body : {<<Let("x", n), Do(Ask("poke", <<AddressOf(x)>>)), Out(x), Give(n)>>},
   consts : {{}}, level : {1}, pure : {FALSE}]

\* A function handed on that no instruction calls, at once and by way of a
\* variable.
HandedOn ==
  [body : {<<Let("f", Function("two")), Out(Ask("apply", <<Ref("f")>>)), Give(n)>>},
   consts : {{}}, level : {1}, pure : {FALSE}]
HandedAtOnce ==
  [body : {<<Out(Ask("apply", <<Function("two")>>)), Give(n)>>},
   consts : {{}}, level : {1}, pure : {FALSE}]

\* Nothing minus a value.
TakenFromZero ==
  [body : {<<Give(Bin("sub", Num(0), n))>>}, consts : {{}}, level : {2}, pure : {FALSE}]

\* A parameter and nothing, in the block that keeps the parameter.
PlusNothing ==
  [body : {<<Give(Bin("add", n, Num(0)))>>}, consts : {{}}, level : {2}, pure : {FALSE}]

\* A variable times nothing, in another block than the one that sets it.
TimesNothing ==
  [body : {<<Let("x", n), When(n, <<Out(Bin("mul", x, Num(0)))>>, <<>>), Give(x)>>},
   consts : {{}}, level : {2}, pure : {FALSE}]
=============================================================================
