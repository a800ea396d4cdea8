------------------------------- MODULE Emitter -------------------------------
(***************************************************************************)
(* The other way round: what is written for a tree.  Compound assignments  *)
(* other than += and -= are written as =, and what the emitter knows       *)
(* nothing of is left out.                                                 *)
(***************************************************************************)
EXTENDS Parser

Listing(texts) == FlattenSeq([i \in DOMAIN texts |-> IF i = 1 THEN texts[i] ELSE <<",">> \o texts[i]])
Has(n, flag)   == \E i \in DOMAIN n.a[2].a : n.a[2].a[i].k = flag
Mark(c, word)  == IF c THEN <<word>> ELSE <<>>
MarksOf(t, k)  == SelectSeq(t.a, LAMBDA m : m.k = k)

\* The name of a type, its pointers and its size; nothing shows that it is tainted.
EmitType(t) ==
  LET size == MarksOf(t, "size")
  IN  Mark(MarksOf(t, "unsigned") # <<>>, "unsigned") \o <<IF t.t \in {"union", "func", "?"} THEN "auto" ELSE t.t>>
      \o [i \in DOMAIN MarksOf(t, "*") |-> "*"]
      \o (IF size = <<>> THEN <<>> ELSE <<Tight, "[", size[1].t, "]">>)

NeedsSemicolon(n) == n.k \in {"call", "method", "assign", "pre", "post", "unary", "bin", "ref", "index", "member",
                              "cast", "emit", "purge"}
Ending(n) == Mark(NeedsSemicolon(n), ";")

Number(n) == IF n.k \in {"num", "true", "false"} THEN n.t ELSE Numerals[1]

RECURSIVE EmitNode(_, _)
Inside(a)       == FlattenSeq([i \in DOMAIN a |-> EmitNode(a[i], 1) \o Ending(a[i])])
EmitBlock(n)        == <<"{">> \o (IF n = None THEN <<>> ELSE Inside(n.a)) \o <<"}">>
EmitArgs(a, from) == Listing([i \in 1 .. Len(a) - from + 1 |-> EmitNode(a[i + from - 1], 1)])

EmitFunc(n) ==
  LET params == n.a[3].a
      param(d) == IF d.k = "..." THEN <<"...">> ELSE EmitType(d.a[1]) \o Mark(d.t # "", d.t)
      clean == IF Has(n, "extern") THEN <<>>
               ELSE Mark(Has(n, "impure"), "impure") \o Mark(~Has(n, "pristine"), "tainted")
  IN  Mark(Has(n, "extern"), "extern") \o Mark(Has(n, "public"), "public") \o Mark(Has(n, "static"), "static")
      \o Mark(Has(n, "open"), "open") \o Mark(Has(n, "flux"), "flux") \o clean \o EmitType(n.a[1]) \o <<n.t, "(">>
      \o Listing([i \in DOMAIN params |-> param(params[i])]) \o <<")">>
      \o (IF n.a[4] = None \/ n.a[4].a = <<>> THEN <<";">> ELSE EmitBlock(n.a[4]))

\* Whether a variable can be changed is only said at the top.
EmitVar(n, depth) ==
  Mark(Has(n, "public"), "public") \o Mark(Has(n, "static"), "static") \o Mark(Has(n, "open"), "open")
  \o Mark(Has(n, "const"), "const") \o Mark(Has(n, "explicit pure") /\ Has(n, "impure"), "impure")
  \o Mark(Has(n, "explicit pristine") /\ ~Has(n, "pristine"), "tainted")
  \o (IF depth # 0 THEN <<>> ELSE IF Has(n, "mut") THEN <<"mut">> ELSE Mark(~Has(n, "const"), "imut"))
  \o EmitType(n.a[1]) \o <<n.t>>
  \o (IF n.a[3].a = <<>> THEN <<>> ELSE <<Tight, "[">> \o EmitNode(n.a[3].a[1], 1) \o <<"]">>)
  \o (IF n.a[4] = None THEN <<>> ELSE <<"=">> \o EmitNode(n.a[4], 1)) \o <<";">>

\* Of a branch that begins with an if, only that is written.
EmitElse(n, depth) ==
  IF n = None THEN <<>>
  ELSE IF n.a[1].k = "if" THEN <<"else">> \o EmitNode(n.a[1], depth) ELSE <<"else">> \o EmitBlock(n)

EmitCase(n) ==
  IF n.k = "default" THEN <<"default", ":">> \o (IF n.a[1] = None THEN <<>> ELSE Inside(n.a[1].a))
  ELSE Mark(n.t = "leak", "leak") \o <<"case">> \o EmitNode(n.a[1], 1) \o <<":">>
       \o (IF n.a[2] = None THEN <<>> ELSE Inside(n.a[2].a))
EmitSwitch(n) ==
  <<"switch">> \o EmitNode(n.a[1], 1) \o <<"{">>
  \o FlattenSeq([i \in 1 .. Len(n.a) - 1 |-> EmitCase(n.a[i + 1])]) \o <<"}">>

\* Mutant of EmitBinary: the parentheses are left out.
EmitBinary_Bare(n) == EmitNode(n.a[1], 1) \o <<n.t>> \o EmitNode(n.a[2], 1)
EmitBinary(n) == <<"(">> \o EmitNode(n.a[1], 1) \o <<n.t>> \o EmitNode(n.a[2], 1) \o <<")">>

\* Neither traits nor what a class may contain are written, and a closed one is called final.
EmitClass(n) ==
  LET flag(f) == Mark(Has(n, f), f)
  IN  flag("public") \o flag("static") \o flag("open") \o flag("final") \o flag("naked") \o flag("inert")
      \o flag("reactive") \o flag("extern") \o <<n.a[3].t, n.t>>
      \o (IF n.a[1].t = "" THEN <<>> ELSE <<"is", n.a[1].t>>)
      \o <<"{">> \o FlattenSeq([i \in DOMAIN n.a[4].a |-> EmitNode(n.a[4].a[i], 1)]) \o <<"}", ";">>
\* The value -1 is not written.
EmitEntry(e) ==
  LET v == Len(e.a)
  IN  <<e.t>> \o (IF v = 0 THEN <<"=", Numerals[1]>> ELSE IF e.a[1].k = "+" THEN <<"=", Numerals[v + 1]>>
                   ELSE IF v = 1 THEN <<>> ELSE <<"=", "-", Numerals[v + 1]>>)

EmitExpression(n) ==
  CASE n.k = "call" -> <<IF n.t = "" THEN "(null)" ELSE n.t, "(">> \o EmitArgs(n.a, 2) \o <<")">>
    [] n.k = "method" -> EmitNode(n.a[1], 1) \o <<".", n.t, "(">> \o EmitArgs(n.a, 2) \o <<")">>
    [] n.k = "assign" -> EmitNode(n.a[1], 1) \o <<IF n.t \in {"+=", "-="} THEN n.t ELSE "=">> \o EmitNode(n.a[2], 1)
    [] n.k = "bin" -> EmitBinary(n)
    [] n.k = "unary" -> <<n.t, "(">> \o EmitNode(n.a[1], 1) \o <<")">>
    [] n.k = "pre" -> <<n.t>> \o EmitNode(n.a[1], 1)
    [] n.k = "post" -> EmitNode(n.a[1], 1) \o <<n.t>>
    [] n.k = "array" -> <<"[">> \o EmitArgs(n.a, 1) \o <<"]">>
    [] n.k = "index" -> EmitNode(n.a[1], 1) \o <<Tight, "[">> \o EmitNode(n.a[2], 1) \o <<"]">>
    [] n.k = "member" -> EmitNode(n.a[1], 1) \o <<".", n.t>>
    [] n.k = "cast" -> EmitNode(n.a[1], 1) \o <<"as">> \o EmitType(n.a[2])
    [] n.k = "typeof" -> <<"typeof", "(">> \o EmitNode(n.a[1], 1) \o <<")">>
    [] n.k = "ref" -> <<n.t>>
    [] n.k \in Literals -> <<Number(n)>>
    [] OTHER -> <<>>

EmitNode(n, depth) ==
  CASE n.k = "func" -> EmitFunc(n)
    [] n.k = "var" -> EmitVar(n, depth)
    [] n.k = "namespace" -> <<"namespace", n.t>> \o EmitBlock(n.a[2])
    [] n.k = "class" -> EmitClass(n)
    [] n.k = "enum" -> <<"enum", n.t, "[">> \o Listing([i \in DOMAIN n.a |-> EmitEntry(n.a[i])]) \o <<"]", ";">>
    [] n.k = "return" -> <<"return">> \o (IF n.a[1] = None THEN <<>> ELSE EmitNode(n.a[1], 1)) \o <<";">>
    [] n.k \in {"break", "continue"} -> <<n.k, ";">>
    [] n.k = "if" -> <<"if">> \o EmitNode(n.a[1], 1) \o EmitBlock(n.a[2]) \o EmitElse(n.a[3], depth)
    [] n.k = "while" -> <<"while">> \o Mark(n.t = "once", "once") \o EmitNode(n.a[1], 1) \o EmitBlock(n.a[2])
    [] n.k = "loop" -> <<"loop">> \o EmitNode(n.a[1], 1) \o EmitBlock(n.a[2])
    [] n.k = "forin" -> <<"for", n.t, "in">> \o EmitNode(n.a[1], 1) \o EmitBlock(n.a[2])
    [] n.k \in {"emit", "purge"} -> <<n.k>> \o EmitNode(n.a[1], 1)
    [] n.k = "switch" -> EmitSwitch(n)
    [] OTHER -> EmitExpression(n)

\* A program.
Emitted(a) == FlattenSeq([i \in DOMAIN a |-> EmitNode(a[i], 0) \o Ending(a[i])])
=============================================================================
