------------------------------ MODULE MCMetaVM ------------------------------
(***************************************************************************)
(* Sessions for MetaVM: values of every kind at the prompt and in files,   *)
(* functions that call each other and themselves, loops, arrays and        *)
(* objects, globals changed from functions, errors between other items.    *)
(***************************************************************************)
EXTENDS MetaMeaning

a == Ref("a")
x == Ref("x")
y == Ref("y")
g == Ref("g")
res == Ref("res")
Out(e) == Do(Ask("out", <<e>>))
Set(l, e) == Do(Assign("set", l, e))
Inc(l)    == Do(Assign("add", l, Num(1)))
Zero == Num(0)

Functions ==
  [two  |-> [params |-> <<>>,    body |-> <<Give(Num(2))>>],
   same |-> [params |-> <<"a">>, body |-> <<Give(a)>>],
   loud |-> [params |-> <<>>,    body |-> <<Out(Num(9)), Give(Num(2))>>],
   sum  |-> [params |-> <<"a">>, body |->
     <<When(Bin("eq", a, Zero), <<Give(Zero)>>, <<>>),
       Let("b", Ask("sum", <<Bin("sub", a, Num(1))>>)),
       Give(Bin("add", a, Ref("b")))>>],
   part |-> [params |-> <<"a">>, body |->
     <<Let("b", Num(6)), Let("c", Bin("div", Ref("b"), a)), Give(Ref("c"))>>],
   tick |-> [params |-> <<>>,    body |-> <<Give(Assign("add", g, Num(1)))>>]]

All == <<Define("two"), Define("same"), Define("loud"), Define("sum"), Define("part"),
         Define("tick")>>
With2(items) == All \o items
Sess(mode, items) == [mode |-> mode, items |-> items]

\* What can be asked for without an error.
Values ==
  {Num(3), Bin("mod", Num(7), Num(4)), Bin("lt", x, Num(9)), Not(Bin("lt", x, Num(9))),
   Bin("mul", Ask("two", <<>>), x), Ask("same", <<Ask("loud", <<>>)>>), Ask("sum", <<Num(3)>>),
   Ask("part", <<Num(2)>>), Ask("tick", <<>>), Ask("abs", <<Minus(Num(4))>>),
   Assign("add", x, Ask("tick", <<>>)), Bump("sub", x, TRUE), Bump("add", x, FALSE),
   Ask("sum", <<Ask("sum", <<Num(2)>>)>>), Assign("set", y, Num(6)),
   Assign("add", y, Num(6))}

\* What is an error, and changes nothing.
Errors == {Bin("div", Num(6), Bin("sub", x, x)), Ask("part", <<Zero>>),
           Bin("add", Ask("loud", <<>>), Ask("missing", <<>>)),
           Ask("same", <<Bin("mod", x, Zero)>>)}

Prompts ==
  {Sess("repl", With2(<<Let("g", Num(1)), Let("x", Num(5)), Do(e), Do(f), Do(res), Do(x), Do(g)>>)) :
     e \in Values, f \in Values}
  \cup {Sess("repl", <<Do(e), Do(Num(1)), Do(res)>>) : e \in {Minus(Num(4)), Flip(Num(5))}}
  \cup {Sess("repl", With2(<<Let("x", Num(5)), Do(e), Do(x), Do(Ask("sum", <<Num(2)>>)), Do(res)>>)) :
     e \in Errors}

Programs ==
  {<<Let("x", Num(3)), Repeat(x, <<Out(x), Do(Bump("sub", x, TRUE))>>), Give(g)>>,
   <<LetArray("t", <<Num(4), Ask("tick", <<>>), Num(6)>>), Let("x", Zero),
     Repeat(Bin("lt", x, Num(3)), <<Out(Elem(Ref("t"), x, TRUE)), Inc(x)>>), Give(x)>>,
   <<LetObject("o"), Set(Field(Ref("o"), "second", FALSE), Num(2)),
     Let("q", AddressOf(Ref("o"))), Inc(Field(Ref("q"), "second", TRUE)),
     Out(Field(Ref("o"), "second", FALSE)), Out(Field(Ref("o"), "first", FALSE)), Give(g)>>,
   <<Let("x", Num(1)), Do(Ask("poke", <<AddressOf(x)>>)), Out(x),
     When(Bin("gt", x, Num(3)), <<Out(Num(1))>>, <<Out(Num(2))>>), Give(Ask("sum", <<Num(2)>>))>>}

Files ==
  {Sess("file", With2(<<Let("g", Num(1)), Main(p)>>)) : p \in Programs}
  \cup {Sess("file", With2(<<Let("g", Num(1)), Let("x", Bin("add", g, Num(1))), Do(e), Do(x)>>)) :
          e \in {Bin("add", x, g), Ask("tick", <<>>), Assign("add", x, Num(3))}}

Blocks ==
  {Sess("compile", With2(<<Meta(<<Out(Ask("sum", <<Num(2)>>)), Out(Num(1))>>),
                           Meta(<<Let("x", Ask("loud", <<>>)), Out(x)>>)>>)),
   Sess("compile", <<Define("two"), Meta(<<Out(Ask("two", <<>>)), Out(Num(1))>>), Define("sum"),
                     Meta(<<Do(Ask("missing", <<>>)), Out(Ask("sum", <<Num(1)>>))>>),
                     Meta(<<Let("x", Num(3)), Repeat(x, <<Out(x), Do(Bump("sub", x, TRUE))>>)>>)>>)}

Sound == Prompts \cup Files \cup Blocks

\* A negated comparison.
Negation == {Sess("repl", <<Let("x", Num(5)), Do(Bin("neq", x, Num(4)))>>)}

\* An integer below zero, asked for again.
BelowZero == {Sess("repl", <<Let("x", Minus(Num(3))), Do(x)>>)}

\* A file without main whose declaration prints.
Twice == {Sess("file", <<Define("loud"), Let("x", Ask("loud", <<>>)), Do(x)>>)}

\* A declaration that fails at the prompt.
LostLet == {Sess("repl", <<Let("x", Num(5)), Do(Assign("set", x, Bin("div", x, Zero))), Do(x)>>)}
=============================================================================
