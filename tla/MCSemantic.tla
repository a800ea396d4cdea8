------------------------------- MODULE MCSemantic -------------------------------
(* The programs for the check of Semantic: small functions before, one      *)
(* function `work` whose marks and statements vary, and a caller of it.     *)
EXTENDS Semantic

Lit == [k |-> "lit", zero |-> FALSE]
V(x) == [k |-> "var", x |-> x]
At(x) == [k |-> "addr", x |-> x]
Bin(op, l, r) == [k |-> "bin", op |-> op, l |-> l, r |-> r]
Or(l, errs) == [k |-> "or", l |-> l, r |-> Lit, errs |-> errs]
CallOf(f, args) == [k |-> "call", f |-> f, args |-> args]
Decl(form, e) == [k |-> "decl", x |-> "x", form |-> form, mutable |-> TRUE, e |-> e]
Fixed(x) == [k |-> "decl", x |-> x, form |-> "int", mutable |-> FALSE, e |-> Lit]
Set(x, e) == [k |-> "assign", x |-> x, e |-> e]
Ret(e) == [k |-> "return", e |-> e]
IfThen(e, then, other) == [k |-> "if", e |-> e, then |-> then, other |-> other]
Repeat(word, e, body) == [k |-> "loop", word |-> word, x |-> "i", e |-> e, body |-> body]
Leaving(word) == [k |-> "exit", word |-> word]
Case(errs, body) == <<[errs |-> errs, body |-> body]>>
CleanOf(x, body, residue) ==
  [k |-> "clean", x |-> x, as |-> "y", err |-> "e", body |-> body, residue |-> residue]
UntaintOf(x, residue) == [k |-> "untaint", x |-> x, err |-> "e", residue |-> residue]
Purging(to) == [k |-> "purge", err |-> "E1", to |-> to]
Do1(e) == [k |-> "expr", e |-> e]

Param(n, pristine, explicit) == [name |-> n, pristine |-> pristine, explicit |-> explicit]
Fun(name, marks_, errs, params, body) ==
  [name |-> name, marks |-> marks_, errs |-> errs, params |-> params, body |-> body]

Divided == Bin("/", V("g"), V("g"))
Sum == Bin("+", Lit, V("x"))
Risky == CallOf("risky", <<>>)

\* The functions before `work`: one fails with E1 or E2, one reads a global,
\* one iterates, one takes an address and may spoil it, one is declared only.
Earlier ==
  <<Fun("risky", {"tainted"}, {"E1", "E2"}, <<>>,
        <<IfThen(Lit, <<[Purging("") EXCEPT !.err = "E2"]>>, <<Purging("")>>), Ret(Lit)>>),
    Fun("reads", {}, {}, <<>>, <<Ret(V("g"))>>),
    Fun("iterates", {}, {}, <<>>, <<Repeat("while", Lit, <<>>), Ret(Lit)>>),
    Fun("spoils", {"tainted"}, {}, <<Param("q", TRUE, FALSE)>>, <<Ret(Lit)>>),
    Fun("careful", {"pristine"}, {}, <<Param("q", TRUE, TRUE)>>, <<Ret(V("q"))>>),
    Fun("native", {"extern"}, {}, <<>>, <<>>)>>

Programme(marks_, body) ==
  [globals |-> {"g"},
   funcs |-> Earlier \o <<Fun("work", marks_, {}, <<>>, body),
                          Fun("main", {}, {}, <<>>, <<Do1(CallOf("work", <<>>))>>)>>]

MarkSets == {{"tainted"}, {"pristine"}, {"pristine", "pure"}, {"tainted", "pure"},
             {"tainted", "total"}, {"pristine", "total"}}

Declarations ==
  {Decl("tainted", Divided), Decl("let", Risky), Decl("int", Lit), Decl("int", Divided),
   Decl("pristine", Or(Risky, <<>>)), Decl("let", Bin("/", Lit, Lit)), Decl("let", CallOf("reads", <<>>)),
   Decl("tainted", Or(Risky, <<"E1">>)), Fixed("x")}

\* What may follow the declaration of x.
Uses ==
  {Set("x", Divided), Set("x", Sum), Set("x", Risky), Set("x", Or(Risky, <<"E1">>)),
   Set("x", Or(Or(Risky, <<"E1">>), <<"E2">>)), Set("g", Lit), Set("z", Lit),
   Do1(CallOf("spoils", <<At("x")>>)), Do1(CallOf("careful", <<Sum>>)),
   Do1(CallOf("native", <<>>)), Do1(CallOf("nowhere", <<>>)), Do1(CallOf("careful", <<>>)),
   IfThen(Sum, <<Set("x", Lit)>>, <<Purging("")>>), IfThen(V("x"), <<Set("x", Divided)>>, <<>>),
   IfThen([k |-> "static", val |-> TRUE], <<Set("x", Lit)>>, <<Set("z", Lit)>>),
   [k |-> "switch", e |-> Sum, cases |-> <<<<Ret(Lit)>>, <<Set("x", Risky)>>>>],
   Repeat("while", Lit, <<Leaving("break")>>),
   Repeat("while", Lit, <<IfThen(Lit, <<Leaving("continue")>>, <<>>), Set("x", Divided)>>),
   Repeat("for", Sum, <<Set("x", V("i"))>>),
   [k |-> "defer", body |-> <<Set("x", Lit)>>], Leaving("break"), Purging("x"),
   CleanOf("x", <<Set("x", V("y"))>>, Case({}, <<Purging("")>>)),
   UntaintOf("x", <<>>), UntaintOf("x", Case({}, <<>>)), CleanOf("z", <<>>, <<>>),
   UntaintOf("z", <<>>), [k |-> "inc", x |-> "g"]}
\* A residue is held against the errors of the call last assigned to x.
Residues ==
  {<<Set("x", Risky), c>> :
     c \in {CleanOf("x", <<>>, Case({"E1"}, <<>>)), CleanOf("x", <<>>, Case({"E1", "E2"}, <<>>)),
            UntaintOf("x", Case({"E1", "E2"}, <<>>)), UntaintOf("x", Case({"E2"}, <<>>))}}
Ends == {Ret(Sum), Ret(Divided), Ret(Lit)}

Bodies ==
  {<<m, us, r>> : m \in MarkSets, us \in SeqOf(Uses, 1) \cup Residues, r \in Ends}
    \cup {<<{"tainted"}, <<u, v>>, Ret(Sum)>> : u \in Uses, v \in Uses}
Sound == {Programme(b[1], <<d>> \o b[2] \o <<b[3]>>) : d \in Declarations, b \in Bodies}

\* A tainted variable passed, copied or returned by its name.
ByName ==
  {Programme(m, <<Decl("tainted", Divided), c, Ret(Lit)>>) : m \in MarkSets,
     c \in {Do1(CallOf("careful", <<V("x")>>)), Ret(V("x")), Set("g", V("x"))}}

\* A function marked total calls one further down that iterates.
Forward ==
  {[p EXCEPT !.funcs = <<p.funcs[2]>> \o Earlier \o <<p.funcs[1], Last(p.funcs)>>] :
     p \in {[globals |-> {"g"},
             funcs |-> <<Fun("below", {}, {}, <<>>, <<Repeat("while", Lit, b), Ret(Lit)>>),
                         Fun("work", {m}, {}, <<>>, <<c, Ret(CallOf("below", <<>>))>>),
                         Fun("main", {}, {}, <<>>, <<Do1(CallOf("work", <<>>))>>)>>] :
               m \in {"total", "pure"}, b \in {<<>>, <<Set("g", Lit)>>},
               c \in {Do1(Lit), Decl("int", Lit)}}}
================================================================================
