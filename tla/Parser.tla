------------------------------- MODULE Parser -------------------------------
(***************************************************************************)
(* The parser.  Every operator takes the state of the parser and returns   *)
(* it with what it built: a node n, or a list a of nodes.  A statement is a*)
(* list, because the statements of a block without a keyword are put among *)
(* those around it.  The settings are the defaults.  Imports as            *)
(* expressions, operator functions and settings are left out, and so are   *)
(* the tokens they begin with.                                             *)
(***************************************************************************)
EXTENDS SyntaxTrees

(***************************************************************************)
(* The rules that call each other, by their names.  A level is that of a   *)
(* binary operator.                                                        *)
(***************************************************************************)
RECURSIVE Parse(_, _, _)
Type(p)       == Parse("type", 0, R(p, None))
Expression(p) == Parse("expression", 0, R(p, None))
Unary(p)      == Parse("unary", 0, R(p, None))
Binary(p, i)  == Parse("binary", i, R(p, None))
Postfix(r)    == Parse("postfix", 0, r)
Single(p)     == Parse("single", 0, R(p, None))
Statements(p) == Parse("statements", 0, R(p, None))
TopLevel(p)   == Parse("top level", 0, R(p, None))
Take(p)       == Parse("token", 0, R(p, None)).p

-----------------------------------------------------------------------------
(***************************************************************************)
(* Reading one token, and finding the way back after an error.             *)
(***************************************************************************)
\* Mutant of Fail: what is no operand is skipped.
Fail_Skips(p) == R(Take(p), None)
Fail(p) == R(Say(p), None)

Eat(p, k) == IF p.err THEN p ELSE IF p.cur.k = k THEN Take(p) ELSE Say(p)
EatAny(p) == Eat(p, p.cur.k)
MayEat(p, k) == IF p.cur.k = k THEN Eat(p, k) ELSE p

EatSemi(p) == IF Is(p, {"else", "}", "eof"}) THEN p ELSE Eat(p, ";")

\* Mutant of Sync: the brace that ends a block is left where it is.
RECURSIVE Sync_LeavesBrace(_)
Sync_LeavesBrace(p) ==
  LET q == InStep(p)
  IN  CASE Is(q, {"eof"} \cup SyncWords \cup {"}"}) -> q
        [] Is(q, {";"}) -> EatSemi(q)
        [] OTHER -> Sync_LeavesBrace(Take(q))

RECURSIVE Sync(_)
Sync(p) ==
  LET q == InStep(p)
  IN  CASE Is(q, {"eof"} \cup SyncWords) -> q
        [] Is(q, {";"}) -> EatSemi(q)
        [] Is(q, {"}"}) -> Eat(q, "}")
        [] OTHER -> Sync(Take(q))

RECURSIVE EatModifiers(_, _)
EatModifiers(p, got) ==
  LET q == Eat(p, "@")
  IN  CASE Is(p, Modifiers) /\ p.stuck = "" -> EatModifiers(Round(p, EatAny(p)), got \cup {p.cur.k})
        [] Is(p, {"meta"}) /\ p.stuck = "" /\ Peek(p).k \notin {"{", "[", "(", "if", "while"} ->
             EatModifiers(Round(p, EatAny(p)), got \cup {"meta"})
        [] Is(p, {"@"}) /\ p.stuck = "" ->
             IF Is(q, {"id"}) THEN EatModifiers(Round(q, EatAny(q)), got) ELSE [p |-> Say(q), m |-> got]
        [] OTHER -> [p |-> p, m |-> got]

-----------------------------------------------------------------------------
(***************************************************************************)
(* Types: a base and marks on it.  After an error the type is void.        *)
(***************************************************************************)
\* The names and dots that may be a type's.
RECURSIVE Dotted(_, _)
Dotted(p, name) ==
  IF ~Is(p, {"."}) \/ p.err THEN [p |-> p, t |-> name]
  ELSE LET q == Eat(p, ".")
       IN  IF Is(q, {"id"}) THEN Dotted(EatAny(q), name \o "." \o q.cur.s) ELSE [p |-> q, t |-> name \o "."]

RECURSIVE Template(_, _, _)
Template(p, close, name) ==
  IF Is(p, {close, "eof"}) \/ p.err THEN [p |-> Eat(p, close), t |-> name \o close]
  ELSE Template(EatAny(p), close, name \o p.cur.s)
Named(p) ==
  LET d == Dotted(EatAny(p), p.cur.s)
      t == Template(EatAny(d.p), IF Is(d.p, {"["}) THEN "]" ELSE ">", d.t \o d.p.cur.k)
  IN  IF AliasesOf(p, p.cur.s) # {} THEN R(EatAny(p), AliasOf(p))
      ELSE IF d.p.err THEN R(d.p, Base("void"))
      ELSE IF d.t \notin p.types THEN R(Rewound(p, d.p), Unknown)
      ELSE IF Is(d.p, {"[", "<"}) /\ d.t \notin p.enums THEN R(t.p, Base(t.t))
      ELSE R(d.p, Base(d.t))

Keyword(p) ==
  LET one == EatAny(p)
      two == MayEat(one, "long")
  IN  CASE Is(p, {"short"}) -> R(MayEat(one, "int"), Base("short"))
        [] Is(p, {"double"}) /\ Is(one, {"long"}) -> R(MayEat(two, "long"), Base("long double"))
        [] Is(p, {"long"}) /\ Is(two, {"double"}) -> R(EatAny(two), Base("long double"))
        [] Is(p, {"long"}) /\ ~Is(two, {"double"}) ->
             R(MayEat(two, "int"), Base(IF Is(one, {"long"}) THEN "long long" ELSE "long"))
        [] Is(p, {"unsigned", "signed"}) -> R(Eat(p, "bool"), Base("bool"))
        [] OTHER -> R(one, Base(p.cur.s))

\* The members of a union type; nothing in the loop looks at the error.
RECURSIVE Members(_)
Members(l) ==
  IF Is(l.p, {"]", "eof"}) \/ l.p.stuck # "" THEN L(Eat(l.p, "]"), l.a)
  ELSE LET t == Type(l.p)
           name == MayEat(t.p, "id")
       IN  Members(L(Round(l.p, MayEat(name, ",")),
                     Append(l.a, Node("var", IF Is(t.p, {"id"}) THEN t.p.cur.s ELSE "", <<t.n>>))))
UnionType(p) ==
  LET q == Eat(p, "union")
      l == Members(L(Eat(q, "["), <<>>))
  IN  IF ~Is(q, {"["}) THEN Fail(q) ELSE R(l.p, Node("type", "union", l.a))

\* The members of a class without a name; in this loop neither.
RECURSIVE Fields(_)
Fields(l) ==
  IF Is(l.p, {"}", "eof"}) \/ l.p.stuck # "" THEN L(Eat(l.p, "}"), l.a)
  ELSE LET t == Type(l.p)
           name == MayEat(t.p, "id")
           one == IF Is(t.p, {"id"}) THEN <<Node("var", t.p.cur.s, <<t.n>>)>> ELSE <<>>
       IN  Fields(L(Round(l.p, IF Is(name, {";"}) THEN EatSemi(name) ELSE name), l.a \o one))
NamelessClass(p) ==
  LET q == Eat(Eat(Eat(p, "abstract"), "container"), "class")
      l == Fields(L(Eat(q, "{"), <<>>))
  IN  IF q.err \/ ~Is(q, {"{"}) THEN Fail(q) ELSE R(l.p, Node("type", "nameless class", l.a))

\* An enum where a type is; what it lists is read over.
RECURSIVE EnumList(_)
SkipValue(p) == IF ~Is(p, {"="}) THEN p ELSE MayEat(MayEat(Eat(p, "="), "-"), "num")
NextListed(q) == IF Is(q, {",", "]"}) THEN EnumList(MayEat(q, ",")) ELSE Say(q)
EnumList(p) ==
  CASE Is(p, {"]", "eof"}) \/ p.err -> p
    [] ~Is(p, {"id", "]", "eof"}) /\ ~p.err -> Say(p)
    [] OTHER -> NextListed(SkipValue(EatAny(p)))
EnumType(q) ==
  LET name == IF Is(q, {"id"}) THEN q.cur.s ELSE "nameless enum"
      list == Eat(Registered(MayEat(q, "id"), name, TRUE), "[")
  IN  IF Is(q, {"id", "["}) THEN R(Eat(EnumList(list), "]"), Base(name)) ELSE R(Say(q), Unknown)

\* What parameters are read by the types of functions.
Bracket(p) == LET q == Eat(p, "[") IN Eat(IF Is(q, {"]"}) THEN q ELSE Expression(q).p, "]")
Sized(r)   == IF Is(r.p, {"["}) /\ ~r.p.err THEN R(Bracket(r.p), With(r.n, Star)) ELSE r
NamedOrNot(t) == IF t.p.err THEN t ELSE Sized(R(MayEat(IF t.n = Unknown THEN Say(t.p) ELSE t.p, "id"), t.n))
Param(p) == LET m == EatModifiers(p, {}).p IN IF m.err THEN R(m, None) ELSE NamedOrNot(Type(m))
RECURSIVE Params(_, _)
More(r, got) ==
  CASE r.p.err -> L(r.p, got)
    [] ~r.p.err /\ Is(r.p, {","}) -> Params(EatAny(r.p), Append(got, r.n))
    [] OTHER -> L(Eat(r.p, ")"), Append(got, r.n))
Params(p, got) ==
  IF Is(p, {"..."}) THEN L(Eat(EatAny(p), ")"), Append(got, Leaf("...", ""))) ELSE More(Param(p), got)
FuncType(p, result) ==
  FuncOf(IF p.err THEN L(p, <<>>) ELSE IF Is(p, {")"}) THEN L(EatAny(p), <<>>) ELSE Params(p, <<>>), result)

FuncSig(p, result) == FuncType(Eat(p, "("), result)
FuncPtr(p, result) ==
  LET open == Eat(p, "(")
      star == Eat(open, "*")
      type == Eat(Eat(MayEat(star, "id"), ")"), "(")
  IN  IF Is(open, {"*"}) /\ ~open.err THEN NamedType(FuncType(type, result), Name(star))
      ELSE NamedType(FuncType(open, result), "")

RECURSIVE Sizes(_)
Sizes(r) ==
  IF ~Is(r.p, {"["}) \/ r.p.err THEN r
  ELSE LET q == Eat(r.p, "[")
           e == IF Is(q, {"]"}) THEN R(q, None) ELSE Expression(q)
       IN  Sizes(R(Eat(e.p, "]"), SizeOf(r.n, e.n)))

RECURSIVE Stars(_)
Stars(r) == IF Is(r.p, {"*"}) /\ ~r.p.err THEN Stars(R(EatAny(r.p), With(r.n, Star))) ELSE r

Tainted(s) == IF Is(s.p, {"?"}) THEN R(EatAny(s.p), With(s.n, Leaf("?", ""))) ELSE s
Marked(s) ==
  LET call == Is(s.p, {"("}) /\ (Peek(s.p).k = "*" \/ PastParens(s.p).k # "{")
  IN  CASE call /\ Peek(s.p).k = "*" -> OnlyType(FuncPtr(s.p, s.n))
        [] call /\ Peek(s.p).k # "*" -> FuncSig(s.p, s.n)
        [] OTHER -> Sizes(Tainted(s))
Marks(r) == Marked(Stars(r))

BaseType(q) ==
  CASE Is(q, {"id"}) -> Named(q)
    [] Is(q, {"let"}) -> R(EatAny(q), Base("let"))
    [] Is(q, {"union"}) -> UnionType(q)
    [] Is(q, {"abstract"}) -> NamelessClass(q)
    [] Is(q, BaseTypes \cup {"signed"}) -> Keyword(q)
    [] OTHER -> R(q, Unknown)
Whole(b, q, unsigned) ==
  LET int == IF unsigned /\ b.n = Unknown THEN Base("int") ELSE b.n
      n == IF unsigned THEN With(int, Leaf("unsigned", "")) ELSE int
  IN  CASE b.n = None -> R(b.p, Unknown)
        [] b.n = Unknown /\ (~unsigned \/ Is(q, {"id"})) -> R(b.p, n)
        [] OTHER -> OnError(Marks(R(b.p, n)))
TypeRule(p) ==
  LET q == IF Is(p, {"unsigned", "signed"}) THEN EatAny(p) ELSE p
  IN  IF q.err THEN R(q, IF Is(p, BaseTypes \cup {"signed", "id", "let"}) THEN Base("void") ELSE Unknown)
      ELSE IF Is(q, {"enum"}) THEN EnumType(Eat(q, "enum"))
      ELSE Whole(BaseType(q), q, Is(p, {"unsigned"}))

-----------------------------------------------------------------------------
(***************************************************************************)
(* Calls.                                                                  *)
(***************************************************************************)
\* An argument that is null stops the parser without a word.
RECURSIVE MoreArgs(_)
MoreArgs(l) ==
  IF ~Is(l.p, {","}) \/ l.p.err THEN l
  ELSE LET e == Expression(Eat(l.p, ","))
       IN  IF e.n = None THEN L([e.p EXCEPT !.err = TRUE], l.a) ELSE MoreArgs(L(e.p, Append(l.a, Arg(e.n))))
Args(p) ==
  LET e == Expression(p)
      l == IF e.n = None THEN L([e.p EXCEPT !.err = TRUE], <<>>) ELSE MoreArgs(L(e.p, <<Arg(e.n)>>))
  IN  IF Is(p, {")"}) THEN L(Eat(p, ")"), <<>>) ELSE L(Eat(l.p, ")"), l.a)

Call(p, target) ==
  LET l == Args(Eat(p, "(")) IN R(l.p, IF l.p.err /\ l.a = <<>> THEN None ELSE Applied(target, l.a))

RECURSIVE MoreSpaced(_)
MoreSpaced(l) ==
  IF ~ExprStart(l.p) THEN l
  ELSE LET e == Unary([l.p EXCEPT !.spaced = @ + 1])
           q == [e.p EXCEPT !.spaced = l.p.spaced]
       IN  CASE e.n = None -> L(q, l.a)
             [] e.n # None /\ Is(q, {","}) -> MoreSpaced(L(Eat(q, ","), Append(l.a, e.n)))
             [] OTHER -> L(q, Append(l.a, e.n))
Spaced(p, target) == LET l == MoreSpaced(L(p, <<>>)) IN R(l.p, Applied(target, l.a))

-----------------------------------------------------------------------------
(***************************************************************************)
(* What follows an operand.                                                *)
(***************************************************************************)
MemberOf(r) ==
  LET q == Eat(r.p, ".")
      name == EatAny(IF Is(q, Symbols) THEN Say(q) ELSE q)
      l == Args(Eat(name, "("))
  IN  IF Is(name, {"("}) THEN R(l.p, Node("method", q.cur.s, <<r.n>> \o l.a))
      ELSE R(name, Node("member", q.cur.s, <<r.n>>))

RECURSIVE TypeArgs(_, _)
TypeArgs(l, close) ==
  IF Is(l.p, {close}) \/ l.p.err THEN l
  ELSE LET t == Type(l.p)
       IN  IF Is(t.p, {","}) THEN TypeArgs(L(Eat(t.p, ","), Append(l.a, t.n)), close)
           ELSE L(t.p, Append(l.a, t.n))

\* [ and < open type arguments or an index; a < that does neither is read again.
Bracketed(r, q, close) ==
  LET l == TypeArgs(L(q, <<>>), close)
      e == Expression(q)
  IN  IF TypeStart(q) THEN R(Eat(l.p, close), Node("inst", "", <<r.n>> \o l.a))
      ELSE R(Eat(e.p, close), Node("index", "", <<r.n, e.n>>))

BeingOf(r) ==
  LET q == Eat(r.p, "being")
      name == Eat(q, "[")
      end == Eat(IF Is(name, {"id"}) THEN Eat(IF name.cur.s \in {"little", "big"} THEN name ELSE Say(name), "id")
                 ELSE Say(name), "]")
      t == Type(IF Is(q, {"["}) THEN end ELSE q)
  IN  R(t.p, Node("being", IF Is(q, {"["}) THEN name.cur.s ELSE "", <<r.n, t.n>>))

PostfixRule(r) ==
  LET p == r.p
      adjacent == Is(p, {"[", "<"}) /\ (p.cur.tight \/ p.spaced > 0)
      q == EatAny(p)
      t == Type(q)
  IN  CASE p.err -> r
        [] Is(p, {"."}) -> Postfix(MemberOf(r))
        [] adjacent /\ Is(p, {"<"}) /\ ~TypeStart(q) -> R(Unread(p, q), r.n)
        [] adjacent /\ ~(Is(p, {"<"}) /\ ~TypeStart(q)) ->
             Postfix(Bracketed(r, q, IF Is(p, {"<"}) THEN ">" ELSE "]"))
        [] Is(p, {"++", "--"}) -> Postfix(R(q, Node("post", p.cur.k, <<r.n>>)))
        [] Is(p, {"as"}) -> Postfix(R(t.p, Node("cast", "", <<r.n, t.n>>)))
        [] Is(p, {"being"}) -> Postfix(BeingOf(r))
        [] Is(p, {"("}) -> Postfix(Call(p, r.n))
        [] ~adjacent /\ ~Is(p, {"("}) /\ ExprStart(p) /\ p.spaced = 0 -> Postfix(Spaced(p, r.n))
        [] OTHER -> r

-----------------------------------------------------------------------------
(***************************************************************************)
(* Operands.                                                               *)
(***************************************************************************)
\* One element, or the numbers of a range.
Element(l, e) ==
  LET r == Expression(EatAny(e.p))
      op == e.p.cur.k
  IN  CASE ~Is(e.p, Ranges) -> L(e.p, IF e.n = None THEN l.a ELSE Append(l.a, e.n))
        [] Is(e.p, Ranges) /\ (e.n = None \/ (e.n.k \in Literals /\ r.n = None)) -> L(Crashed(r.p), l.a)
        [] Is(e.p, Ranges) /\ e.n.k = "num" /\ r.n.k = "num" ->
             L(r.p, l.a \o Span(Value(e.n), Value(r.n), op \in Exclusive))
        [] OTHER -> L(Say(r.p), l.a)
RECURSIVE Elements(_)
Elements(l) ==
  LET q == Eat(l.p, ",")
  IN  IF ~Is(l.p, {","}) \/ l.p.err THEN l
      ELSE IF Is(q, {"]"}) THEN L(q, l.a) ELSE Elements(Element(L(q, l.a), Expression(q)))
ArrayOf(p) ==
  LET q == Eat(p, "[")
      l == IF Is(q, {"]"}) THEN L(q, <<>>) ELSE Elements(Element(L(q, <<>>), Expression(q)))
  IN  R(Eat(l.p, "]"), Node("array", "", l.a))

\* Brackets after a type that is used as a value; an error does not end the loop.
RECURSIVE SkipTo(_, _)
SkipTo(p, k) == IF Is(p, {k, "eof"}) \/ p.stuck # "" THEN p ELSE SkipTo(Round(p, EatAny(p)), k)
RECURSIVE SkipArrays(_)
SkipArrays(p) ==
  IF Is(p, {"["}) /\ p.stuck = "" THEN SkipArrays(Round(p, Eat(SkipTo(Eat(p, "["), "]"), "]"))) ELSE p
TypeValue(p) == LET t == Type(p) IN R(SkipArrays(t.p), Node("typeof", "", <<t.n>>))

\* typeof, sizeof and alignof take a type or an expression, in parentheses or not.
Asked(p) ==
  LET q == MayEat(EatAny(p), "(")
      paren == Is(EatAny(p), {"("})
      r == IF ~TypeStart(q) THEN Expression(q)
           ELSE IF Is(p, {"typeof"}) THEN LET t == TypeValue(q) IN R(t.p, t.n.a[1]) ELSE Type(q)
  IN  R(IF paren THEN Eat(r.p, ")") ELSE r.p, Node(p.cur.k, "", <<r.n>>))

\* defined, hasmethod and hasattribute; the names of the first are not expanded.
Tested(p) ==
  LET q == EatAny([p EXCEPT !.literal = @ \/ Is(p, {"defined"})])
      r == IF Is(q, {"("}) THEN Expression(Eat(q, "(")) ELSE Unary(q)
      s == [r.p EXCEPT !.literal = IF Is(p, {"defined"}) THEN FALSE ELSE @]
  IN  R(IF Is(q, {"("}) THEN Eat(s, ")") ELSE s, Node(p.cur.k, "", <<r.n>>))

Compatible(p) ==
  LET t == Type(Eat(EatAny(p), "("))
      u == Type(Eat(t.p, ","))
  IN  R(Eat(u.p, ")"), Node("iscompatible", "", <<t.n, u.n>>))

Factor(p) ==
  CASE Is(p, BaseTypes) -> TypeValue(p)
    [] Is(p, {"typeof", "sizeof", "alignof"}) -> Postfix(Asked(p))
    [] Is(p, {"defined", "hasmethod", "hasattribute"}) -> Postfix(Tested(p))
    [] Is(p, {"iscompatible"}) -> Postfix(Compatible(p))
    [] Is(p, {"@"}) -> Postfix(R(p, None))
    [] Is(p, {"["}) -> Postfix(ArrayOf(p))
    [] Is(p, Literals) -> Postfix(R(EatAny(p), Leaf(p.cur.k, p.cur.s)))
    [] Is(p, {"id", "..."}) -> Postfix(R(EatAny(p), Leaf("ref", p.cur.s)))
    [] Is(p, {"signed"}) -> Postfix(R(Type(p).p, Leaf("num", "type")))
    [] OTHER -> Fail(p)

-----------------------------------------------------------------------------
(***************************************************************************)
(* Operators.                                                              *)
(***************************************************************************)
UnaryRule(p) ==
  LET u == Unary(EatAny(p))
      e == Expression(Eat(p, "("))
      q == Eat(e.p, ")")
  IN  CASE p.err -> R(p, None)
        [] ~p.err /\ Is(p, {"++", "--"}) -> R(u.p, Node("pre", p.cur.k, <<u.n>>))
        [] ~p.err /\ Is(p, {"!", "-", "~", "*", "&"}) -> R(u.p, Node("unary", p.cur.k, <<u.n>>))
        [] ~p.err /\ Is(p, {"("}) -> IF e.n = None THEN R([q EXCEPT !.err = TRUE], None) ELSE Postfix(R(q, e.n))
        [] OTHER -> Factor(p)

\* Mutant of Chain: the operators of a level group from the right.
RECURSIVE Chain_Right(_, _)
Chain_Right(l, i) ==
  IF l.p.err \/ ~Is(l.p, Levels[i]) THEN l
  ELSE LET r == Chain_Right(Binary(EatAny(l.p), i - 1), i) IN R(r.p, Node("bin", l.p.cur.k, <<l.n, r.n>>))

RECURSIVE Chain(_, _)
Chain(l, i) ==
  IF l.p.err \/ ~Is(l.p, Levels[i]) THEN l
  ELSE LET r == Binary(EatAny(l.p), i - 1) IN Chain(R(r.p, Node("bin", l.p.cur.k, <<l.n, r.n>>)), i)
BinaryRule(p, i) == IF i = 0 THEN Unary(p) ELSE Chain(Binary(p, i - 1), i)

\* The names of errors in brackets.
RECURSIVE Names(_)
Names(l) ==
  CASE Is(l.p, {"]", "eof"}) \/ l.p.err -> L(Eat(l.p, "]"), l.a)
    [] ~Is(l.p, {"id", "]", "eof"}) /\ ~l.p.err -> L(Say(l.p), l.a)
    [] OTHER -> LET q == EatAny(l.p)
                    a == Append(l.a, Leaf("error", l.p.cur.s))
                IN  IF Is(q, {","}) THEN Names(L(Eat(q, ","), a)) ELSE L(Eat(q, "]"), a)

RECURSIVE Fallback(_)
Handled(l, names) == Recovered(l, Name(names.p), names.a, Binary(MayEat(names.p, "id"), 10))
Fallback(l) ==
  IF ~Is(l.p, {"?", "??"}) \/ l.p.err THEN l
  ELSE LET q == EatAny(l.p)
       IN  Fallback(IF Is(l.p, {"?"}) /\ Is(q, {"["}) THEN Handled(l, Names(L(Eat(q, "["), <<>>)))
                    ELSE Recovered(l, "", <<>>, Binary(q, 10)))

RECURSIVE Dollar(_)
GivenOrNot(l) == IF l.p.err \/ ~Is(l.p, {"$"}) THEN l ELSE Given(l, Dollar(Eat(l.p, "$")))
Dollar(p) == GivenOrNot(Fallback(Binary(p, 10)))

RECURSIVE Assignment(_)
AssignedOrNot(l) == IF l.p.err \/ ~Is(l.p, Assigns) THEN l ELSE AssignedTo(l, Assignment(EatAny(l.p)))
Assignment(p) == AssignedOrNot(Dollar(p))

\* The initial value of a variable, after = or as the arguments of its class.
RECURSIVE InitArgs(_)
InitArgs(l) ==
  LET e == Expression(l.p)
      m == L(e.p, Append(l.a, Arg(e.n)))
  IN  CASE l.p.err -> l
        [] ~l.p.err /\ e.n = None -> L(Crashed(e.p), l.a)
        [] OTHER -> IF Is(e.p, {","}) THEN InitArgs(L(Eat(e.p, ","), m.a)) ELSE m
Initializer(p, type) ==
  LET q == Eat(p, "(")
      l == IF Is(q, {")"}) THEN L(q, <<>>) ELSE InitArgs(L(q, <<>>))
      name == IF type.t \in Plain THEN "" ELSE type.t
  IN  CASE Is(p, {"="}) -> Expression(Eat(p, "="))
        [] Is(p, {"("}) -> R(Eat(l.p, ")"), Node("call", name, <<None>> \o l.a))
        [] OTHER -> R(p, None)
EatName(p) == Eat(IF Is(p, {"id"}) THEN p ELSE Say(p), "id")

Ended(l)  == L(Eat(l.p, ")"), l.a)
Braced(p) == LET l == Statements(Eat(p, "{")) IN L(Eat(l.p, "}"), l.a)

-----------------------------------------------------------------------------
(***************************************************************************)
(* Variables.                                                              *)
(***************************************************************************)
RECURSIVE ArraySizes(_)
ArraySizes(l) ==
  IF ~Is(l.p, {"["}) \/ l.p.err THEN l
  ELSE LET q == Eat(l.p, "[")
           e == IF Is(q, {"]"}) THEN R(q, Leaf("num", Numerals[1])) ELSE Expression(q)
       IN  ArraySizes(L(Eat(e.p, "]"), Append(l.a, e.n)))
Arrays(l, type, name, mut, m) ==
  LET t == Pointed(type, Len(l.a)) IN VariableOf(Initializer(l.p, t), name, t, mut, l.a, m)
Variable(p, type, name, mut, m) == Arrays(ArraySizes(Nothing(p)), type, name, mut, m)

(* The variables of a declaration that may have several.  Where the error  *)
(* is not looked at, a comma that cannot be eaten is met again and again.  *)
RECURSIVE Declarators(_, _, _, _, _, _)
Following(l, v, next, type, mut, m, looks) ==
  Declarators(L(Round(l.p, EatName(next.p)), Append(l.a, v.n)), type,
              [name |-> Name(next.p), stars |-> Len(next.n.a)], mut, m, looks)
Declared(l, v, type, mut, m, looks) ==
  LET q == IF v.n.a[4] = None /\ type.t = "let" THEN Say(v.p) ELSE v.p
  IN  IF Is(q, {","}) THEN Following(l, v, Stars(R(Eat(q, ","), Leaf("stars", ""))), type, mut, m, looks)
      ELSE L(q, Append(l.a, v.n))
Declarators(l, type, d, mut, m, looks) ==
  LET p == l.p
      t == Pointed(IF Is(p, {"?"}) THEN Taint(type) ELSE type, d.stars)
  IN  IF p.stuck # "" \/ (looks /\ p.err) THEN l
      ELSE Declared(l, Variable(MayEat(p, "?"), t, d.name, mut, m), type, mut, m, looks)
Declaration(p, type, name, mut, m, looks) ==
  LET l == Declarators(Nothing(p), type, [name |-> name, stars |-> 0], mut, m, looks) IN L(EatSemi(l.p), l.a)
\* let, mut and imut declarations.
PastMut(p) == MayEat(p, IF Is(p, {"mut"}) THEN "mut" ELSE "imut")
PointerVar(f, i, mut, m) ==
  L(EatSemi(i.p), <<Modified(Node("var", f.name, <<f.n, Flags(mut), NoSizes, i.n>>), m)>>)
Assigned(f) == IF Is(f.p, {"="}) THEN Expression(Eat(f.p, "=")) ELSE R(f.p, None)
PointerDecl(f, mut, m) == PointerVar(f, Assigned(f), mut, m)
NamedDecl(p, type, mut, m) == Declaration(EatName(p), type, Name(p), mut, m, FALSE)
DeclOf(t, type, before, m) ==
  LET mut == Mutable(t.p, before)
  IN  IF Is(t.p, {"("}) THEN PointerDecl(FuncPtr(t.p, type), mut, m) ELSE NamedDecl(PastMut(t.p), type, mut, m)
TypedDecl(t, before, m) == DeclOf(t, IF t.n = Unknown THEN Base("let") ELSE t.n, before, m)
VarDecl(p, m) == TypedDecl(Type(PastMut(p)), Mutable(p, {"mut"}), m)

\* A call of a class, or a function pointer, that starts like a type.
Evaluated(r) == L(EatSemi(r.p), IF r.n = None THEN <<>> ELSE <<r.n>>)
InitializedPointer(f, m) == PointerVar(f, Initializer(f.p, f.n), {"mut"}, m)
AfterType(t, m) ==
  CASE ~OfClass(t) -> InitializedPointer(FuncPtr(t.p, t.n), m)
    [] OfClass(t) /\ m # {} -> Nothing(Say(t.p))
    [] OTHER -> Evaluated(Postfix(Call(t.p, Leaf("ref", t.n.t))))

\* Inside a function a declaration has one variable.
OneVar(v) == L(EatSemi(v.p), <<v.n>>)
LocalVar(t, m) ==
  LET q == PastMut(t.p)
  IN  IF Is(t.p, {"("}) THEN AfterType(t, m)
      ELSE OneVar(Variable(EatName(q), t.n, Name(q), Mutable(t.p, {"mut"}), m))

-----------------------------------------------------------------------------
(***************************************************************************)
(* Macros.                                                                 *)
(***************************************************************************)
RECURSIVE Body(_, _, _)
Body(l, depth, looks) ==
  LET p == l.p
      more == L(Round(p, EatAny(p)), Append(l.a, p.cur))
  IN  CASE Is(p, {";", "eof"}) \/ p.stuck # "" \/ (looks /\ p.err) -> l
        [] Is(p, {"{"}) -> Body(more, depth + 1, looks)
        [] Is(p, {"}"}) /\ depth = 0 -> l
        [] Is(p, {"}"}) /\ depth = 1 -> L(Eat(p, "}"), more.a)
        [] Is(p, {"}"}) /\ depth > 1 -> Body(more, depth - 1, looks)
        [] OTHER -> Body(more, depth, looks)

\* The token that follows is the first that is expanded again.
Resumed(q) == Nothing(MayEat(Expand(q, q.cur), ";"))
\* Mutant of Bodied: the body's tokens are expanded as they are read.
Bodied_Expands(p, names, looks) == LET l == Body(Nothing(p), 0, looks) IN Resumed(Register(l.p, names, l.a))
\* The body is read without expansion, from its second token on.
Bodied(p, names, looks) ==
  LET l == Body(Nothing([p EXCEPT !.literal = TRUE]), 0, looks)
  IN  Resumed(Register([l.p EXCEPT !.literal = p.literal], names, l.a))

RECURSIVE MacroParams(_)
MacroParams(l) ==
  LET q == Eat(l.p, "id")
      a == Append(l.a, l.p.cur.s)
  IN  CASE l.p.err \/ Is(l.p, {"eof"}) -> l
        [] ~l.p.err /\ ~Is(l.p, {"eof", "id"}) -> L(Say(l.p), l.a)
        [] OTHER -> IF Is(q, {","}) THEN MacroParams(L(Eat(q, ","), a))
                    ELSE L(IF Is(q, {")"}) THEN q ELSE Say(q), a)

RECURSIVE MacroNames(_)
ParamsOf(q) ==
  IF ~Is(q, {"("}) THEN Nothing(q)
  ELSE LET open == Eat(q, "(") IN Ended(IF Is(open, {")"}) THEN Nothing(open) ELSE MacroParams(Nothing(open)))
AnotherName(r, names) ==
  LET q == Eat(r, ",")
  IN  IF ~Is(r, {","}) THEN L(r, names) ELSE IF r.err \/ Is(q, {"eof"}) THEN L(q, names) ELSE MacroNames(L(q, names))
NamedMacro(s, l) == AnotherName(s.p, Append(l.a, [name |-> l.p.cur.s, params |-> s.a]))
MacroNames(l) == NamedMacro(ParamsOf(EatAny(l.p)), l)
DefineAs(l) ==
  CASE l.p.err -> Nothing(l.p)
    [] ~l.p.err /\ ~Is(l.p, {"as"}) -> Nothing(Say(l.p))
    [] OTHER -> Bodied(Eat(l.p, "as"), l.a, TRUE)
Define(p) == DefineAs(MacroNames(Nothing(Eat(p, "define"))))

\* name := body;
Walrus(p) == Bodied(Eat(Eat(p, "id"), ":="), <<[name |-> p.cur.s, params |-> <<>>]>>, FALSE)

-----------------------------------------------------------------------------
(***************************************************************************)
(* Statements that begin with a word.                                      *)
(***************************************************************************)
Return(p) ==
  LET q == Eat(p, "return")
      e == IF Is(q, Ends) THEN R(q, None) ELSE Expression(q)
  IN  L(EatSemi(e.p), <<Node("return", "", <<e.n>>)>>)
Emit(p) == LET e == Expression(Eat(p, "emit")) IN L(EatSemi(e.p), <<Node("emit", "", <<e.n>>)>>)
Jump(p) == L(EatSemi(EatAny(p)), <<Leaf(p.cur.k, "")>>)
Purge(p) ==
  LET e == Expression(Eat(p, "purge"))
      t == IF Is(e.p, {"in"}) THEN Expression(Eat(e.p, "in")) ELSE R(e.p, None)
  IN  L(EatSemi(t.p), <<Node("purge", "", <<e.n, t.n>>)>>)
Defer(p) == LET q == Eat(p, "defer") l == IF Is(q, {"{"}) THEN Braced(q) ELSE Single(q)
            IN  L(l.p, <<Node("defer", "", <<BlockOf(l.a)>>)>>)

If(p) ==
  LET c == Expression(Eat(p, "if"))
      t == Single(MayEat(c.p, "then"))
      e == IF Is(t.p, {"else"}) THEN Single(Eat(t.p, "else")) ELSE Nothing(t.p)
  IN  L(e.p, <<Node("if", "", <<c.n, BlockOf(t.a), BlockOf(e.a)>>)>>)
While(p) ==
  LET q == MayEat(Eat(p, "while"), "once")
      c == IF Is(q, {"{"}) THEN R(q, True1) ELSE Expression(q)
      b == Single(c.p)
      once == IF Is(Eat(p, "while"), {"once"}) THEN "once" ELSE ""
  IN  L(b.p, <<Node("while", once, <<c.n, BlockOf(b.a)>>)>>)
Loop(p) ==
  LET c == Expression(Eat(p, "loop"))
      b == Single(c.p)
  IN  L(b.p, <<Node("loop", "", <<c.n, BlockOf(b.a)>>)>>)
ForIn(p) ==
  LET q == Eat(p, "for")
      in == EatName(q)
      c == Expression(Eat(IF Is(in, {"in"}) THEN in ELSE Say(in), "in"))
      b == Single(IF Is(q, {"{"}) THEN q ELSE c.p)
  IN  L(b.p, <<IF Is(q, {"{"}) THEN Node("while", "", <<True1, BlockOf(b.a)>>)
               ELSE Node("forin", Name(q), <<c.n, BlockOf(b.a)>>)>>)
Meta(p) ==
  LET q == EatAny(p)
      l == CASE Is(q, {"if"}) -> If(q) [] Is(q, {"while"}) -> While(q) [] OTHER -> Braced(q)
  IN  L(l.p, <<Node(p.cur.k, "", <<BlockOf(l.a)>>)>>)

\* Mutant of CaseBody: a statement behind the first takes its place.
RECURSIVE CaseBody_Last(_)
CaseBody_Last(l) ==
  LET s == Single(l.p)
  IN  IF Is(l.p, {"eof", "}", "case", "leak", "default"}) \/ l.p.stuck # "" THEN L(l.p, l.a)
      ELSE CaseBody_Last([p |-> Round(l.p, s.p), a |-> IF s.a = <<>> THEN l.a ELSE s.a, kept |-> 0])
(* The statements of a case.  The list goes on behind the first node of    *)
(* the last statement, whatever follows that node in it; and an error does *)
(* not end the loop.                                                       *)
RECURSIVE CaseBody(_)
CaseBody(l) ==
  LET s == Single(l.p)
  IN  IF Is(l.p, {"eof", "}", "case", "leak", "default"}) \/ l.p.stuck # "" THEN L(l.p, l.a)
      ELSE CaseBody([p |-> Round(l.p, s.p),
                     a |-> IF s.a = <<>> THEN l.a ELSE SubSeq(l.a, 1, l.kept) \o s.a,
                     kept |-> IF s.a = <<>> THEN l.kept ELSE l.kept + 1])

RECURSIVE CaseValues(_, _)
CaseValues(l, leak) ==
  LET e == Expression(l.p)
      b == CaseBody(NoStatement(Eat(e.p, ":")))
  IN  CASE l.p.stuck # "" -> l
        [] Is(e.p, {","}) ->
             CaseValues(L(Round(l.p, Eat(e.p, ",")), Append(l.a, Node("case", "leak", <<e.n, None>>))), leak)
        [] OTHER -> L(b.p, Append(l.a, Node("case", leak, <<e.n, BlockOf(b.a)>>)))

RECURSIVE Cases(_, _)
Cases(l, default) ==
  LET q == MayEat(l.p, "leak")
      v == CaseValues(L(Eat(q, "case"), l.a), IF Is(l.p, {"leak"}) THEN "leak" ELSE "")
      colon == Eat(Eat(q, "default"), ":")
      d == CaseBody(NoStatement(IF default = <<>> THEN colon ELSE Say(colon)))
  IN  CASE Is(l.p, {"}", "eof"}) \/ l.p.err -> L(Eat(l.p, "}"), l.a \o default)
        [] ~Is(l.p, {"}", "eof"}) /\ ~l.p.err /\ Is(q, {"case"}) -> Cases(v, default)
        [] ~Is(l.p, {"}", "eof"}) /\ ~l.p.err /\ Is(q, {"default"}) ->
             Cases(L(d.p, l.a), <<Node("default", "", <<BlockOf(d.a)>>)>>)
        [] OTHER -> Cases(L(Say(q), l.a), default)
SwitchOn(c) == SwitchOf(c, Cases(Nothing(Eat(c.p, "{")), <<>>))
Switch(p) == SwitchOn(Expression(Eat(p, "switch")))

\* The cases behind residue; the one without names is the last.
RECURSIVE ResidueCases(_)
ResidueBody(l, b, names) ==
  LET m == L(b.p, Append(l.a, Node("residue", "", <<Node("errors", "", names), BlockOf(b.a)>>)))
  IN  IF Is(l.p, {"{"}) THEN m ELSE ResidueCases(m)
ResidueCase(l, names) ==
  IF Is(names.p, {"{"}) THEN ResidueBody(l, Braced(names.p), names.a) ELSE L(Say(names.p), l.a)
ResidueCases(l) ==
  IF ~Is(l.p, {"[", "{"}) \/ l.p.err THEN l
  ELSE ResidueCase(l, IF Is(l.p, {"["}) THEN Names(Nothing(Eat(l.p, "["))) ELSE Nothing(l.p))
Residue(p) == LET q == Eat(p, "residue") IN ResidueOf(ResidueCases(Nothing(EatName(q))), Name(q))
Untaint(p) == LET q == Eat(p, "untaint") IN UntaintOf(Residue(EatName(q)), Name(q))
CleanBody(b, name, new) == CleanOf(Residue(b.p), name, new, b.a)
CleanAs(q, name) ==
  LET as == Eat(q, "as")
  IN  IF Is(q, {"as"}) THEN CleanBody(Braced(EatName(as)), name, Name(as)) ELSE CleanBody(Braced(q), name, "")
Clean(p) == LET q == Eat(p, "clean") IN CleanAs(EatName(q), Name(q))

-----------------------------------------------------------------------------
(***************************************************************************)
(* Functions.                                                              *)
(***************************************************************************)
\* A parameter; an extern function's needs no name.
Default(p) == IF Is(p, {"="}) THEN Expression(Eat(p, "=")) ELSE R(p, None)
SizedOrNot(q, type, name, m) ==
  IF Is(q, {"["}) THEN ParameterOf(Default(Bracket(q)), With(type, Star), name, m)
  ELSE ParameterOf(Default(q), type, name, m)
NamedParam(q, type, named, m) ==
  SizedOrNot(IF named \/ Is(q, {"id"}) THEN Eat(q, "id") ELSE q, type, Name(q), m)
TypedParam(t, named, m) == NamedParam(IF t.n = Unknown THEN Say(t.p) ELSE t.p, t.n, named, m)
Parameter(p, named) == LET m == EatModifiers(p, {}) IN TypedParam(Type(m.p), named, m.m)
RECURSIVE Parameters(_, _)
MoreParameters(r, l, named) ==
  IF Is(r.p, {","}) THEN Parameters(L(Eat(r.p, ","), Append(l.a, r.n)), named) ELSE L(r.p, Append(l.a, r.n))
Parameters(l, named) ==
  CASE l.p.err -> l
    [] ~l.p.err /\ Is(l.p, {"..."}) -> L(EatAny(l.p), Append(l.a, Leaf("...", "")))
    [] OTHER -> MoreParameters(Parameter(l.p, named), l, named)
Listed(p, named) ==
  LET q == Eat(p, "(") IN Ended(IF Is(q, {")"}) THEN Nothing(q) ELSE Parameters(Nothing(q), named))
WithParams(l, name, type, flux, m) == WithBody(Braced(l.p), name, type, flux, m, l.a)
FuncOrVars(q, name, type, flux, m) ==
  IF Is(q, {"("}) THEN WithParams(Listed(q, TRUE), name, type, flux, m)
  ELSE Declaration(q, type, name, {"mut"}, m, TRUE)
Marked2(q, name, type, flux, m) ==
  IF Is(q, {"?"}) /\ Peek(q).k = "(" THEN FuncOrVars(Eat(q, "?"), name, Taint(type), flux, m)
  ELSE FuncOrVars(q, name, type, flux, m)
FuncDef(p, m, type, flux) == Marked2(EatName(p), Name(p), type, flux, m)
ExternClass(p, m) ==
  LET q == EatSemi(EatName(p))
  IN  IF q.err THEN Nothing(q)
      ELSE L(Registered(q, Name(p), FALSE), <<ClassNode(Headed(Name(p), "", {"extern"}, "class"), m, <<>>, <<>>)>>)
ExternFunc(p, name, real, type, m, params) ==
  LET f == Function(name, type, {"extern"}, m, params, None)
  IN  L(EatSemi(p), IF p.err THEN <<>> ELSE <<[f EXCEPT !.a[5] = Leaf("real name", real)]>>)
Renamed(l, name, type, m) ==
  LET as == Eat(l.p, "as")
  IN  IF Is(l.p, {"as"}) THEN ExternFunc(EatName(as), Name(as), name, type, m, l.a)
      ELSE ExternFunc(l.p, name, "", type, m, l.a)
ExternOf(t, m) ==
  IF t.n = Unknown \/ ~Is(t.p, {"id"}) THEN Nothing(Say(t.p))
  ELSE Renamed(Listed(EatName(t.p), FALSE), Name(t.p), t.n, m)
SingleExtern(p, before) ==
  LET mod == EatModifiers(p, {})
  IN  IF Is(mod.p, {"class", "struct", "union"}) THEN ExternClass(EatAny(mod.p), before \cup mod.m)
      ELSE ExternOf(Type(mod.p), before \cup mod.m)
RECURSIVE Externs(_, _)
Externs(l, m) ==
  IF Is(l.p, {"}", "eof"}) \/ l.p.err THEN L(Eat(l.p, "}"), l.a) ELSE Externs(Joined(l, SingleExtern(l.p, m)), m)
ExternOrBlock(mod) ==
  IF Is(mod.p, {"{"}) THEN Externs(Nothing(Eat(mod.p, "{")), mod.m) ELSE SingleExtern(mod.p, mod.m)
Extern(p, before) == ExternOrBlock(EatModifiers(Eat(p, "extern"), before))

-----------------------------------------------------------------------------
(***************************************************************************)
(* Statements.                                                             *)
(***************************************************************************)
Word(p) ==
  CASE Is(p, {"loop"}) -> Loop(p)      [] Is(p, {"while"}) -> While(p)   [] Is(p, {"if"}) -> If(p)
    [] Is(p, {"switch"}) -> Switch(p)  [] Is(p, {"return"}) -> Return(p) [] Is(p, {"emit"}) -> Emit(p)
    [] Is(p, {"purge"}) -> Purge(p)    [] Is(p, {"for"}) -> ForIn(p)     [] Is(p, {"define"}) -> Define(p)
    [] Is(p, {"defer"}) -> Defer(p)    [] Is(p, {"meta", "postmeta"}) -> Meta(p)
    [] OTHER -> Jump(p)

Plainly(t, m) ==
  CASE t.n # Unknown -> LocalVar(t, m)
    [] t.n = Unknown /\ Is(t.p, {"imut"}) -> VarDecl(t.p, m)
    [] t.n = Unknown /\ ~Is(t.p, {"imut"}) /\ m # {} -> Nothing(Say(t.p))
    [] t.n = Unknown /\ m = {} /\ Is(t.p, {"id"}) /\ Peek(t.p).k = ":=" -> Walrus(t.p)
    [] OTHER -> Evaluated(Expression(t.p))
ModifiedStatement(q, m) ==
  CASE Is(q, Worded) -> IF m = {} THEN Word(q) ELSE Nothing(Say(q))
    [] Is(q, {"extern"}) -> Extern(q, m)
    [] OTHER -> Plainly(Type(q), m)
Statement(p) ==
  CASE Is(p, {"{"}) -> Braced(p)
    [] Is(p, {"clean"}) -> Clean(p)
    [] Is(p, {"untaint"}) -> Untaint(p)
    [] OTHER -> LET mod == EatModifiers(p, {}) IN ModifiedStatement(mod.p, mod.m)

\* A reason is a string; what is written in quotes is none.
SingleRule(p) ==
  CASE p.err -> Nothing(p)
    [] ~p.err /\ Is(p, {"reason"}) -> Nothing(Say(Eat(p, "reason")))
    [] OTHER -> Statement(p)

RECURSIVE StatementList(_)
StatementList(l) ==
  LET s == Single(l.p)
  IN  IF Is(l.p, {"eof", "}"}) \/ l.p.err THEN l ELSE StatementList(L(Round(l.p, s.p), l.a \o s.a))

-----------------------------------------------------------------------------
(***************************************************************************)
(* The top level.                                                          *)
(***************************************************************************)
RECURSIVE TopList(_)
TopList(l) ==
  LET s == TopLevel(l.p)
  IN  IF Is(l.p, {"}", "eof"}) \/ l.p.err THEN L(Eat(l.p, "}"), l.a)
      ELSE TopList(L(Round(l.p, s.p), l.a \o s.a))
TopBlock(p) == TopList(Nothing(Eat(p, "{")))

\* The names declared in a namespace are types under its own name too.
Within(q, name) == LET l == TopBlock([MayEat(q, "id") EXCEPT !.space = name]) IN L([l.p EXCEPT !.space = q.space], l.a)
Namespace(p, m, exported) ==
  LET q == Eat(p, "namespace")
      l == Within(q, IF Is(q, {"id"}) THEN Name(q) ELSE "nameless")
      hidden == "private" \in m \/ (Is(q, {"{"}) /\ ~exported)
      flags == When(hidden /\ ~exported, "private") \cup When("closed" \in m /\ ~exported, "closed")
               \cup When(exported, "exported")
  IN  IF Is(q, {"id", "{"}) THEN L(l.p, <<Node("namespace", Name(q), <<Flags(flags), Block(l.a)>>)>>)
      ELSE Nothing(Say(q))
\* errnum [names] and the function it is for.
ErrnumFunc(t, m, names) ==
  IF t.n = Unknown THEN Nothing(Say(t.p)) ELSE ForErrors(FuncDef(MayEat(t.p, "flux"), m, t.n, FALSE), names)
ErrnumOf(names) ==
  IF Is(names.p, {";"}) THEN Nothing(Say(names.p))
  ELSE LET mod == EatModifiers(names.p, {}) IN ErrnumFunc(Type(mod.p), mod.m, names.a)
Errnum(p) == ErrnumOf(Names(Nothing(Eat(Eat(p, "errnum"), "["))))

\* The parameters of a compound are types from where they are named.
RECURSIVE TypeParams(_, _)
TypeParam(l, q, allowed, close) ==
  LET name == EatName(q)
      m == L(Registered(name, Name(q), FALSE), Append(l.a, Node("type parameter", Name(q), allowed)))
  IN  IF Is(m.p, {","}) THEN TypeParams(L(Eat(m.p, ","), m.a), close) ELSE m
Allowed(l, types, end, close) == TypeParam(l, Eat(types.p, end), types.a, close)
TypeParams(l, close) ==
  LET q == Eat(l.p, "type")
      end == IF Is(q, {"<"}) THEN ">" ELSE "]"
  IN  CASE Is(l.p, {close}) \/ l.p.err -> l
        [] ~Is(l.p, {close}) /\ ~l.p.err /\ Is(q, {"[", "<"}) ->
             Allowed(l, TypeArgs(Nothing(EatAny(q)), end), end, close)
        [] OTHER -> TypeParam(l, q, <<>>, close)
CompoundOf(l, close) ==
  LET q == Eat(l.p, close) IN CompoundBody(IF Is(q, {"{"}) THEN TopBlock(q) ELSE TopLevel(q), l.a)
Compound(p) ==
  LET q == Eat(p, "compound")
      close == IF Is(q, {"<"}) THEN ">" ELSE "]"
  IN  CompoundOf(TypeParams(Nothing(Eat(q, IF Is(q, {"<"}) THEN "<" ELSE "[")), close), close)

-----------------------------------------------------------------------------
(***************************************************************************)
(* Other names for types.  Of the type a name stands for, only its base,   *)
(* its pointers and its size are kept.                                     *)
(***************************************************************************)
RECURSIVE AliasSizes(_)
AliasSize(e, t)  == AliasSizes(R(Eat(e.p, "]"), With(IF e.n.k = "num" THEN SizeOf(t, e.n) ELSE t, Star)))
AliasSizeOf(q, t) == AliasSize(IF Is(q, {"]"}) THEN R(q, None) ELSE Expression(q), t)
AliasSizes(t) == IF ~Is(t.p, {"["}) \/ t.p.err THEN t ELSE AliasSizeOf(Eat(t.p, "["), t.n)

\* The names behind the type; nothing in the loop looks at the error.
RECURSIVE AliasNames(_, _)
AnotherAlias(p, q, type) == IF ~Is(q, {","}) THEN q ELSE AliasNames(Round(p, Eat(q, ",")), type)
NamedAlias(p, t, type) == AnotherAlias(p, Aliased(t.p, Name(p), Bare(t.n)), type)
AliasNames(p, type) == IF p.stuck # "" THEN p ELSE NamedAlias(p, AliasSizes(R(EatName(p), type)), type)
TypeFirst(t) ==
  LET f == FuncPtr(t.p, t.n)
  IN  IF Is(t.p, {"("}) THEN Aliased(f.p, f.name, Bare(f.n)) ELSE AliasNames(MayEat(t.p, "as"), t.n)

\* The names before the type.
RECURSIVE NewNames(_)
NewNames(l) ==
  LET q == EatName(l.p)
      m == L(Round(l.p, MayEat(q, ",")), Append(l.a, Name(l.p)))
  IN  CASE l.p.stuck # "" -> l [] Is(q, {","}) -> NewNames(m) [] OTHER -> L(q, m.a)
Standing(t, names) == AliasedAll(AliasSizes(IF t.n = Unknown THEN R(Say(t.p), t.n) ELSE t), names)
NamesFirst(l) == Standing(Type(IF Is(l.p, {"as"}) THEN Eat(l.p, "as") ELSE Say(l.p)), l.a)
Typedef(p) ==
  LET q == Eat(p, "typedef")
  IN  Nothing(EatSemi(IF BeginsType(q) THEN TypeFirst(Type(q)) ELSE NamesFirst(NewNames(Nothing(q)))))

-----------------------------------------------------------------------------
(***************************************************************************)
(* Enums.  A value is written as so many marks.                            *)
(***************************************************************************)
ValueAt(s, sign) == [p |-> Eat(IF Is(s, {"num"}) THEN s ELSE Say(s), "num"), v |-> sign * NumberAt(s)]
EntryValue(q, next) ==
  LET r == Eat(q, "=")
  IN  IF ~Is(q, {"="}) THEN [p |-> q, v |-> next] ELSE ValueAt(MayEat(r, "-"), IF Is(r, {"-"}) THEN -1 ELSE 1)

\* Entries are counted on from the last value that was given.
RECURSIVE Entries(_, _)
Entry(l, e) ==
  Entries(L(IF Is(e.p, {"]"}) THEN e.p ELSE Eat(e.p, ","), Append(l.a, Node("entry", l.p.cur.s, Count(e.v)))), e.v + 1)
Entries(l, next) ==
  IF Is(l.p, {"]", "eof"}) \/ l.p.err THEN l
  ELSE Entry(l, EntryValue(EatAny(IF Is(l.p, Symbols) THEN Say(l.p) ELSE l.p), next))
EnumOf(l, name) == L(EatSemi(Eat(l.p, "]")), <<Node("enum", name, l.a)>>)
EnumBody(q, name) == EnumOf(Entries(Nothing(Eat(q, "[")), 0), name)
Enum(p) ==
  LET q == Eat(p, "enum")
  IN  CASE Is(q, {"id"}) -> EnumBody(Registered(EatAny(q), Name(q), TRUE), Name(q))
        [] Is(q, {"["}) -> EnumBody(q, "nameless enum")
        [] OTHER -> EnumBody(Say(q), "")

-----------------------------------------------------------------------------
(***************************************************************************)
(* Classes.                                                                *)
(***************************************************************************)
RECURSIVE MemberParams(_, _)
\* Parameters; nothing in the loop looks at the error.
MemberParam(l, r, constructor) ==
  IF Is(r.p, {","}) THEN MemberParams(L(Round(l.p, Eat(r.p, ",")), Append(l.a, r.n)), constructor)
  ELSE L(r.p, Append(l.a, r.n))
MemberParams(l, constructor) ==
  IF l.p.stuck # "" THEN l
  ELSE MemberParam(l, IF constructor THEN Unmarked(TypedParam(Type(l.p), TRUE, {})) ELSE Parameter(l.p, TRUE), constructor)
MemberParamList(p, constructor) ==
  LET q == Eat(p, "(")
      l == IF Is(q, {")"}) THEN Nothing(q) ELSE MemberParams(Nothing(q), constructor)
  IN  L(Eat(l.p, ")"), l.a)
Constructor(l, name, c, m) == Bodies(Braced(l.p), name, Base("void"), c.old, m, l.a)
Method(l, name, type, c, m) ==
  IF Is(l.p, {";"}) THEN L(EatSemi(l.p), <<Function(name, type, c.old, m, l.a, None)>>)
  ELSE Bodies(Braced(l.p), name, type, c.old, m, l.a)
Iterator(t, c, m) == Bodies(Braced(t.p), "iterate", t.n, c.old \cup {"flux"}, m, <<>>)
Conversion(t, c, m) == Bodies(Braced(t.p), ConversionName(t.p, t.n), t.n, c.old, m, <<>>)

\* Fields: sizes make no pointer of them.
RECURSIVE FieldList(_, _, _, _, _)
NextField(l, v, next, type, c, m) ==
  FieldList(L(Round(l.p, EatName(next.p)), Append(l.a, v.n)), type, [name |-> Name(next.p), stars |-> Len(next.n.a)], c, m)
FieldOrMore(l, v, type, c, m) ==
  IF Is(v.p, {","}) THEN NextField(l, v, Stars(R(Eat(v.p, ","), Leaf("stars", ""))), type, c, m)
  ELSE L(EatSemi(v.p), Append(l.a, v.n))
Field(s, t, name, c, m) == VariableOf(Initializer(s.p, t), name, t, c.old \cup {"mut"}, s.a, m)
FieldList(l, type, d, c, m) ==
  IF l.p.stuck # "" THEN l
  ELSE FieldOrMore(l, Field(ArraySizes(Nothing(l.p)), Pointed(type, d.stars), d.name, c, m), type, c, m)

NamedMember(q, name, type, c, m) ==
  IF Is(q, {"("}) THEN Method(MemberParamList(q, FALSE), name, type, c, m)
  ELSE FieldList(Nothing(q), type, [name |-> name, stars |-> 0], c, m)
PointerMember(f, c, m) == PointerVar(f, Initializer(f.p, f.n), c.old \cup {"mut"}, m)
MemberAfter(t, q, c, m) ==
  CASE t.n = Unknown -> Nothing(Say(q))
    [] t.n # Unknown /\ Is(q, {"("}) /\ Peek(q).k = "*" -> PointerMember(FuncPtr(q, t.n), c, m)
    [] t.n # Unknown /\ Is(q, {"("}) /\ Peek(q).k # "*" /\ Constructs(t, c) ->
         Constructor(MemberParamList(q, TRUE), t.n.t, c, m)
    [] OTHER -> NamedMember(EatName(q), Name(q), t.n, c, m)
TypedMember(t, c, before) == LET mod == EatModifiers(t.p, before) IN MemberAfter(t, mod.p, c, mod.m)
Member(q, c, m) ==
  CASE Is(q, {"flux"}) -> Iterator(Type(Eat(q, "flux")), c, m)
    [] Is(q, {"as"}) -> Conversion(Type(Eat(q, "as")), c, m)
    [] OTHER -> TypedMember(Type(q), c, m)

\* The types a compound of a class is for, and the first of its members.
RECURSIVE TypeChoices(_)
NextChoice(l, t) ==
  IF Is(t.p, {","}) THEN TypeChoices(L(Round(l.p, Eat(t.p, ",")), Append(l.a, t.n))) ELSE L(t.p, Append(l.a, t.n))
TypeChoices(l) == IF Is(l.p, {"]", "eof"}) \/ l.p.stuck # "" THEN l ELSE NextChoice(l, Type(l.p))
RECURSIVE MemberTypes(_)
MemberType(l, q, choices) ==
  LET r == Registered(EatName(q), q.cur.s, FALSE)
      m == L(MayEat(r, ","), Append(l.a, Node("type parameter", Name(q), choices)))
  IN  IF Is(r, {","}) THEN MemberTypes(m) ELSE m
Chosen(l, choices) == MemberType(l, Eat(choices.p, "]"), choices.a)
MemberTypes(l) ==
  LET q == Eat(l.p, "type")
  IN  IF Is(l.p, {"]", "eof"}) \/ l.p.err THEN l
      ELSE IF ~l.p.err /\ Is(l.p, {"type"}) /\ Is(q, {"["}) THEN Chosen(l, TypeChoices(Nothing(Eat(q, "["))))
      ELSE MemberType(l, q, <<>>)
CompoundMember(l, c, m) == FirstIn(Member(Eat(l.p, "]"), c, m), l.a)
AnyMember(q, c, m) ==
  IF Is(q, {"compound"}) THEN CompoundMember(MemberTypes(Nothing(Eat(Eat(q, "compound"), "["))), c, m) ELSE Member(q, c, m)

(* The body of a class.  Labels are modifiers for the members behind them; *)
(* those before a brace are for what is in it, together with those around. *)
RECURSIVE ClassBody(_, _)
Opened(b, mod) ==
  IF Len(b.labels) = MaxLabels THEN [b EXCEPT !.p = Crashed(@)]
  ELSE [b EXCEPT !.p = Eat(mod.p, "{"), !.labels = Append(@, Last(@) \cup mod.m)]
Labelled(b, mod, c) ==
  CASE Is(mod.p, {":"}) -> [b EXCEPT !.p = Eat(mod.p, ":"), !.labels = Append(Front(@), mod.m)]
    [] Is(mod.p, {"{"}) /\ mod.m # {} -> Opened(b, mod)
    [] OTHER -> Added(b, AnyMember(mod.p, c, mod.m \cup Last(b.labels)))
ClassBody(b, c) ==
  CASE b.p.err \/ Is(b.p, {"eof"}) \/ (Is(b.p, {"}"}) /\ Len(b.labels) = 1) -> L(Eat(b.p, "}"), b.a)
    [] ~b.p.err /\ Is(b.p, {"}"}) /\ Len(b.labels) > 1 ->
         ClassBody([b EXCEPT !.p = Eat(@, "}"), !.labels = Front(@)], c)
    [] OTHER -> ClassBody(Labelled(b, EatModifiers(b.p, {}), c), c)

\* What is in brackets behind the name becomes part of it; traits are listed like names.
RECURSIVE ClassTemplate(_, _, _)
ClassTemplate(p, close, name) ==
  IF Is(p, {close, "eof"}) \/ p.stuck # "" THEN [p |-> Eat(p, close), of |-> name \o close]
  ELSE ClassTemplate(Round(p, EatAny(p)), close, name \o (IF Is(p, {"num"}) THEN Numerals[1] ELSE p.cur.s))
FullName(q, name) ==
  CASE Is(q, {"["}) -> ClassTemplate(EatAny(q), "]", name \o "[")
    [] Is(q, {"<"}) -> ClassTemplate(EatAny(q), ">", name \o "<")
    [] OTHER -> [p |-> q, of |-> name]
RECURSIVE Traits(_)
Traits(l) ==
  LET q == EatName(l.p)
      a == Append(l.a, Leaf("trait", Name(l.p)))
  IN  IF l.p.stuck = "" /\ Is(q, {","}) THEN Traits(L(Round(l.p, Eat(q, ",")), a)) ELSE L(q, a)
ClassOf(l, c, m) ==
  ClassDone(ClassBody([p |-> Eat(l.p, "{"), a |-> <<>>, labels |-> <<{}>>], [c EXCEPT !.old = @ \cap {"open"}]), c, m, l.a)
Inheriting(q, c, m) == ClassOf(IF Is(q, {"has"}) THEN Traits(Nothing(Eat(q, "has"))) ELSE Nothing(q), c, m)
ClassNamed(f, old, m, word) ==
  LET q == Registered(f.p, f.of, FALSE)
      is == Eat(q, "is")
  IN  IF Is(q, {"is"}) THEN Inheriting(EatName(is), Headed(f.of, Name(is), old, word), m)
      ELSE Inheriting(q, Headed(f.of, "", old, word), m)
Class(p, m) ==
  LET q == EatAny(p)
      r == MayEat(q, "?")
      s == EatAny(IF Is(r, ClassWords) THEN r ELSE Say(r))
      old == When("open" \in m, "open") \cup When(Is(q, {"?"}) \/ Is(s, {"?"}), "tainted")
  IN  ClassNamed(FullName(MayEat(s, "?"), r.cur.s), old, m, IF Is(p, {"union"}) THEN "union" ELSE "class")

-----------------------------------------------------------------------------
(***************************************************************************)
(* What is left at the top level.                                          *)
(***************************************************************************)
\* Whatever begins with a type, or with none.
AfterModifiers(t, q, m, flux, first) ==
  CASE t.n = Unknown /\ m = {} -> Single(q)
    [] t.n = Unknown /\ m # {} ->
         IF Is(q, {"id"}) /\ Peek(q).k = "=" THEN VarDecl(q, m) ELSE Nothing(Say(q))
    [] t.n # Unknown /\ t.n.t \in q.enums /\ first.k = "id" /\ ~Is(q, {"id"}) -> L(q, <<Leaf("ref", first.s)>>)
    [] t.n # Unknown /\ first.k = "union" /\ Is(q, {"id"}) /\ Peek(q).k = ";" ->
         Nothing(Registered(Aliased(EatSemi(EatAny(q)), Name(q), Bare(t.n)), Name(q), FALSE))
    [] t.n # Unknown /\ Is(q, {"("}) -> AfterType(R(q, t.n), m)
    [] OTHER -> FuncDef(q, m, t.n, flux)
Qualified(t, before, flux, first) ==
  LET mod == EatModifiers(t.p, before) IN AfterModifiers(t, mod.p, mod.m, flux, first)
TypedFrom(q, before, flux, first) == Qualified(Type(q), before, flux, first)
Typed(p, before) ==
  LET q == MayEat(p, "flux") IN TypedFrom(q, before, q # p, IF q.cur.k = "union" /\ q # p THEN Eof ELSE q.cur)

\* Imports and libraries; a semicolon may follow.
Requested(p, kind, words) ==
  IF ~p.err /\ Is(p, words) THEN L(MayEat(EatAny(p), ";"), <<Leaf(kind, p.cur.s)>>) ELSE Nothing(Say(p))
Import(p) == LET q == Eat(p, "import") IN IF q.err THEN Nothing(q) ELSE Requested(q, "import", {"str"})
Link(p)   == Requested(EatAny(p), "link", {"id", "str"})
HeaderImport(p) == Requested(EatAny(EatAny(EatAny(p))), "c import", {"id", "str"})
ModifiedTop(q, m) ==
  CASE Is(q, {"{"}) /\ m # {} -> LET l == TopBlock(q) IN L(l.p, ModifiedAll(l.a, m))
    [] Is(q, {"compound"}) -> Compound(q)
    [] Is(q, {"namespace"}) -> Namespace(q, m, FALSE)
    [] Is(q, {"export"}) /\ Peek(q).k = "namespace" -> Namespace(Eat(q, "export"), m, TRUE)
    [] Is(q, {"define"}) -> Only(q, m, Define(q))
    [] Is(q, {"id"}) /\ Peek(q).k = ":=" -> Walrus(IF m = {} THEN q ELSE Say(q))
    [] Is(q, {"typedef"}) -> Typedef(IF m = {} THEN q ELSE Say(q))
    [] Is(q, {"enum"}) -> Enum(IF m = {} THEN q ELSE Say(q))
    [] Is(q, {"class", "struct"}) \/ (Is(q, {"union"}) /\ Peek(q).k # "[") -> Class(q, m)
    [] Is(q, {"errnum"}) -> Only(q, m, Errnum(q))
    [] Is(q, {"meta", "postmeta"}) -> Only(q, m, Meta(q))
    [] Is(q, {"import"}) -> Import(IF m = {} THEN q ELSE Say(q))
    [] Is(q, {"link"}) -> Link(IF m = {} THEN q ELSE Say(q))
    [] Is(q, {"extern"}) -> Extern(q, m)
    [] Is(q, {"imut"}) -> VarDecl(q, m)
    [] OTHER -> Typed(q, m)
Top(p) ==
  CASE Is(p, {";"}) -> Nothing(EatSemi(p))
    [] Is(p, {"@"}) /\ Peek(p).s = "c" /\ PeekAt(p, 2).k = "import" -> HeaderImport(p)
    [] OTHER -> LET mod == EatModifiers(p, {}) IN ModifiedTop(mod.p, mod.m)

TopLevelRule(p) ==
  LET q == Eat(p, "reason")
  IN  IF Is(p, {"reason"}) /\ ~Is(q, {"str"}) THEN Nothing(Say(q))
      ELSE Top(IF Is(p, {"reason"}) THEN EatAny(q) ELSE p)

(* One round of the loop over a file: back in step after an error, then    *)
(* the next of the top level.                                              *)
NextNode(p, q) == IF Is(q, {"eof"}) THEN Nothing(q) ELSE LET l == TopLevel(q) IN L(Round(p, l.p), l.a)
RoundOf(p)     == NextNode(p, IF p.err THEN Sync(p) ELSE p)

Parse(rule, i, r) ==
  CASE rule = "token" -> R(NextToken(r.p), None)
    [] rule = "type" -> TypeRule(r.p)
    [] rule = "postfix" -> PostfixRule(r)
    [] rule = "unary" -> UnaryRule(r.p)
    [] rule = "binary" -> BinaryRule(r.p, i)
    [] rule = "expression" -> IF r.p.err THEN R(r.p, None) ELSE Assignment(r.p)
    [] rule = "single" -> SingleRule(r.p)
    [] rule = "statements" -> StatementList(Nothing(r.p))
    [] rule = "top level" -> TopLevelRule(r.p)
    [] rule = "round" -> RoundOf(r.p)
=============================================================================
