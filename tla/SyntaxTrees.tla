---------------------------- MODULE SyntaxTrees -----------------------------
(***************************************************************************)
(* The trees that the parser builds: their nodes, the words they are told  *)
(* by, and what modifiers do to them.  A node is a kind, a text and its    *)
(* parts; None is the null pointer that an error leaves.                   *)
(***************************************************************************)
EXTENDS TokenStream

Node(k, t, a) == [k |-> k, t |-> t, a |-> a]
None == Node("none", "", <<>>)
Leaf(k, t) == Node(k, t, <<>>)
R(p, n) == [p |-> p, n |-> n]
L(p, a) == [p |-> p, a |-> a]
Name(p) == IF Is(p, {"id"}) THEN p.cur.s ELSE ""

BaseTypes == {"int", "short", "long", "double", "single", "char", "void", "bool", "unsigned"}
Modifiers == {"public", "private", "open", "closed", "const", "pure", "impure", "pristine", "tainted",
              "partial", "total", "mut", "static", "inert", "reactive", "naked", "covalent", "abstract", "exact",
              "pragma", "method", "extended", "override", "container", "frame"}
Literals  == {"num", "str", "true", "false", "null"}
Ranges    == {"..", "..<", "..>", "..=", "..<=", "..>="}
Exclusive == {"..", "..<", "..>"}
Levels    == << {"*", "/", "%"}, {"+", "-"}, {"<<", ">>", "<<%", "%>>"}, {"<", ">", "<=", ">="},
                {"==", "!="}, {"&"}, {"^"}, {"|"}, {"&&"}, {"||"} >>
Assigns   == {"=", "+=", "-=", "*=", "/=", "%=", "&=", "|=", "^=", "<<=", ">>="}
Symbols   == UNION {Levels[i] : i \in DOMAIN Levels} \cup Assigns \cup Ranges \cup
             {"num", "(", ")", "[", "]", "{", "}", ",", ";", ".", "?", "??", "$", "!", "~", "@", "++", "--",
              "eof", "...", ":", ":="}

TypeStart(p) == Is(p, BaseTypes \cup {"signed"}) \/ (Is(p, {"id"}) /\ p.cur.s \in p.types)
ExprStart(p) == Is(p, Literals \cup {"id", "(", "[", "typeof", "sizeof", "alignof", "defined",
                                     "hasmethod", "hasattribute", "!", "~"})

SyncWords == {"class", "struct", "union", "namespace", "int", "void", "char", "bool",
              "if", "while", "loop", "return", "let", "define"}

InStep(p) == [p EXCEPT !.err = FALSE, !.told = IF @ = "no" THEN @ ELSE "before"]

Base(t)       == Leaf("type", t)
Unknown       == Base("?")
Star          == Leaf("*", "")
Rank(mark)    == CASE mark.k = "*" -> 1 [] mark.k = "unsigned" -> 2 [] mark.k = "?" -> 3 [] mark.k = "size" -> 4
                   [] OTHER -> 0
With(n, mark) == [n EXCEPT !.a = SelectSeq(@, LAMBDA x : Rank(x) <= Rank(mark)) \o <<mark>>
                                 \o SelectSeq(@, LAMBDA x : Rank(x) > Rank(mark))]
OnError(r)    == IF r.p.err THEN R(r.p, Base("void")) ELSE r

(* A name that is no type is read again.  The position in the file and in  *)
(* the expansion it came from are put back, not those of the expansions    *)
(* around that one.                                                        *)
Rewound(p, q) ==
  [q EXCEPT !.pos = p.pos, !.cur = p.cur,
            !.exp = [i \in DOMAIN p.exp |->
                       LET now == {e \in Range(q.exp) : e.id = p.exp[i].id}
                       IN  IF i = 1 THEN p.exp[1]
                           ELSE IF now = {} THEN [p.exp[i] EXCEPT !.pos = Len(p.exp[i].toks) + 1]
                           ELSE CHOOSE e \in now : TRUE]]

AliasOf(p) == (CHOOSE x \in AliasesOf(p, p.cur.s) : TRUE).type
FuncOf(l, result) == OnError(R(l.p, Node("type", "func", <<result>> \o l.a)))
NamedType(r, name) == [p |-> r.p, n |-> r.n, name |-> name]
Size(n)      == IF n.k = "num" THEN n.t ELSE "1"
SizeOf(n, e) == With([n EXCEPT !.a = SelectSeq(@, LAMBDA m : m.k # "size")], Leaf("size", Size(e)))
OnlyType(f) == R(f.p, f.n)

Arg(n) ==
  IF n.k = "assign" /\ n.t = "=" /\ n.a[1].k = "ref" THEN Node("named", n.a[1].t, <<n.a[2]>>) ELSE n

Applied(target, args) ==
  CASE target.k = "member" -> Node("method", target.t, target.a \o args)
    [] target.k = "ref" -> Node("call", target.t, <<None>> \o args)
    [] OTHER -> Node("call", "", <<target>> \o args)

Unread(p, q) == [q EXCEPT !.pos = p.pos, !.cur = p.cur]

Value(n) == (CHOOSE i \in DOMAIN Numerals : Numerals[i] = n.t) - 1
Span(s, e, open) ==
  LET step == IF s <= e THEN 1 ELSE -1
      last == IF open THEN e - step ELSE e
  IN  IF open /\ s = e THEN <<>> ELSE [i \in 1 .. (last - s) * step + 1 |-> Leaf("num", Numerals[s + (i - 1) * step + 1])]

Recovered(l, name, names, r) ==
  R(r.p, Node("fallback", l.p.cur.k, <<l.n, Node("errors", name, names), r.n>>))
Given(l, r) == R(r.p, Applied(l.n, IF r.n = None THEN <<>> ELSE <<r.n>>))
AssignedTo(l, r) == IF l.n = None THEN R(Crashed(r.p), None) ELSE R(r.p, Node("assign", l.p.cur.k, <<l.n, r.n>>))
Plain == BaseTypes \cup {"long long", "long double", "let", "func", "?"}

Block(a)   == Node("block", "", a)
BlockOf(a) == IF a = <<>> THEN None ELSE Block(a)
One(r)     == L(r.p, IF r.n = None THEN <<>> ELSE <<r.n>>)
Nothing(p) == L(p, <<>>)

-----------------------------------------------------------------------------
(***************************************************************************)
(* What modifiers do to a declaration.  A modifier that is not among those *)
(* given takes back what an earlier one said, except for a few.            *)
(***************************************************************************)
FlagOrder == <<"public", "private", "exported", "open", "closed", "meta", "static", "const", "mut", "pure", "impure",
               "explicit pure", "pristine", "explicit pristine", "partial", "explicit total", "flux", "extern",
               "override", "covalent", "abstract", "exact", "pragma", "method", "container", "extended", "frame",
               "final", "naked", "inert", "reactive", "tainted">>
Flags(S)  == Node("flags", "", [i \in DOMAIN SelectSeq(FlagOrder, LAMBDA f : f \in S) |->
                                 Leaf(SelectSeq(FlagOrder, LAMBDA f : f \in S)[i], "")])
FlagsOf(n) == {n.a[2].a[i].k : i \in DOMAIN n.a[2].a}
TaintedType(t) == \E i \in DOMAIN t.a : t.a[i].k = "?"
Taint(t)       == IF TaintedType(t) THEN t ELSE With(t, Leaf("?", ""))

When(c, flag)  == IF c THEN {flag} ELSE {}
Explicit(m)    == When("pure" \in m, "explicit pure") \cup When("pristine" \in m, "explicit pristine")
Purity(m)      == {IF "impure" \in m THEN "impure" ELSE "pure"}
Shown(old, m)  == When("private" \notin m /\ ("public" \in old \/ "public" \in m), "public")
                  \cup When("closed" \notin m /\ ("open" \in old \/ "open" \in m), "open")

VarFlags(old, m) ==
  Shown(old, m) \cup (m \cap {"const", "static"}) \cup Purity(m) \cup Explicit(m)
  \cup When("mut" \in old /\ "const" \notin m, "mut")
FuncFlags(old, m) ==
  Shown(old, m) \cup (old \cap {"static", "mut", "meta", "flux", "extern", "override", "covalent"})
  \cup (m \cap {"static", "mut", "meta", "override", "covalent"})
  \cup (IF "extern" \in old THEN {IF "pure" \in m THEN "pure" ELSE "impure"} ELSE Purity(m)) \cup Explicit(m)
  \cup When("total" \in m, "explicit total") \cup (m \cap {"partial"})
ParamFlags(old, m) == Purity(m) \cup Explicit(m)
Kinds == {"static", "abstract", "exact", "pragma", "method", "container", "extended", "frame"}
Defaulted(kinds) == kinds \cup When(kinds \cap {"abstract", "exact"} = {}, "pragma")
                    \cup When(kinds \cap {"method", "container"} = {}, "frame")
ClassFlags(old, m) ==
  Shown(old, m) \cup Defaulted((old \cup m) \cap Kinds) \cup (old \cap {"extern", "tainted"})
  \cup Purity(m) \cup When("pure" \in m, "explicit pure")
  \cup (IF "closed" \in m THEN {"final"} ELSE m \cap {"naked"})
  \cup (IF "inert" \in m THEN {"inert"} ELSE m \cap {"reactive"})

\* A declaration with modifiers; a tainted type stays tainted.
ModifiedType(n, m) ==
  LET old    == FlagsOf(n)
      new    == CASE n.k = "var" -> VarFlags(old, m) [] n.k = "func" -> FuncFlags(old, m)
                  [] OTHER -> ParamFlags(old, m)
      clean  == IF "extern" \in old THEN "pristine" \in m ELSE "tainted" \notin m
      type   == IF clean THEN n.a[1] ELSE Taint(n.a[1])
  IN  [n EXCEPT !.a[1] = type, !.a[2] = Flags(new \cup When(~TaintedType(type), "pristine"))]
Modified(n, m) ==
  CASE n.k = "class" -> [n EXCEPT !.a[2] = Flags(ClassFlags(FlagsOf(n), m))]
    [] n.k \in {"var", "func", "param"} -> ModifiedType(n, m)
    [] OTHER -> n
ModifiedAll(a, m) == [i \in DOMAIN a |-> Modified(a[i], m)]

RECURSIVE Pointed(_, _)
Pointed(t, n) == IF n = 0 THEN t ELSE Pointed(With(t, Star), n - 1)

VariableOf(i, name, t, mut, sizes, m) ==
  R(i.p, Modified(Node("var", name, <<t, Flags(mut), Node("sizes", "", sizes), i.n>>), m))

Mutable(p, before) == IF Is(p, {"mut"}) THEN {"mut"} ELSE IF Is(p, {"imut"}) THEN {} ELSE before
NoSizes == Node("sizes", "", <<>>)
OfClass(t) == t.n.t \notin Plain \cup t.p.enums

Register(p, names, body) ==
  [p EXCEPT !.macros = [i \in DOMAIN names |-> [name |-> names[i].name, params |-> names[i].params, body |-> body]] \o @]

Ends == {";", "else", "}", "eof"}
\* The condition of a loop that has none.
True1 == Leaf("num", Numerals[2])
NoStatement(p) == [p |-> p, a |-> <<>>, kept |-> 0]
SwitchOf(c, l) == L(l.p, <<Node("switch", "", <<c.n>> \o l.a)>>)
ResidueOf(l, name) == L(l.p, <<Leaf("name", name)>> \o l.a)
UntaintOf(l, name) == L(l.p, <<Node("untaint", name, l.a)>>)
CleanOf(l, name, new, body) ==
  L(l.p, <<Node("clean", name, <<Leaf("name", new), BlockOf(body)>> \o l.a)>>)

ParameterOf(d, type, name, m) == R(d.p, Modified(Node("param", name, <<type, Flags({}), d.n>>), m))

Function(name, type, old, m, params, body) ==
  Modified(Node("func", name, <<type, Flags(old), Node("params", "", params), body, Node("errnum", "", <<>>)>>), m)

WithBody(b, name, type, flux, m, params) ==
  L(b.p, <<Function(name, type, When(flux, "flux"), m, params, Block(b.a))>>)

Headed(name, parent, old, word) == [name |-> name, parent |-> parent, old |-> old, word |-> word]
ClassNode(c, m, traits, members) ==
  Modified(Node("class", c.name, <<Leaf("is", c.parent), Flags(c.old), Node("traits", c.word, traits), Block(members)>>), m)
Joined(l, s) == L(s.p, l.a \o s.a)

Worded == {"loop", "while", "if", "switch", "return", "break", "continue", "emit", "purge", "for", "define",
           "defer", "meta", "postmeta"}

\* errnum [names] is for the function behind it.
ForErrors(f, names) ==
  IF f.a # <<>> /\ f.a[1].k = "func"
  THEN L(f.p, <<[f.a[1] EXCEPT !.a[1] = Taint(@), !.a[5] = Node("errnum", "", names)]>>)
  ELSE L(Say(f.p), f.a)
CompoundBody(b, params) == L(b.p, <<Node("compound", "", params \o <<BlockOf(b.a)>>)>>)

Bare(t) == IF t.t = "func" THEN Base("void") ELSE [t EXCEPT !.a = SelectSeq(@, LAMBDA x : x.k \in {"*", "size", "var"})]
AliasedAll(t, names) == FoldSeq(LAMBDA name, p : Aliased(p, name, Bare(t.n)), t.p, names)

BeginsType(q) == Is(q, BaseTypes \cup {"let", "class", "struct", "union", "enum"}) \/ (Is(q, {"id"}) /\ q.cur.s \in q.types)

Count(v) == [i \in 1 .. (IF v < 0 THEN -v ELSE v) |-> Leaf(IF v < 0 THEN "-" ELSE "+", "")]
NumberAt(q) == IF Is(q, {"num"}) THEN Value(Leaf("num", q.cur.s)) ELSE 0

ClassWords == {"id", "int", "char", "bool", "single", "double", "short", "long", "void"}
MaxLabels  == 16

\* The parameters of a constructor take no modifiers.
Unmarked(r) == R(r.p, [r.n EXCEPT !.a[2] = Flags({})])

Bodies(b, name, type, old, m, params) == L(b.p, <<Function(name, type, old, m, params, Block(b.a))>>)
ConversionName(p, type) ==
  CASE type = Unknown -> "as_(null)" [] type.t = "single" -> "as_float" [] type.t \in p.enums -> "as_type of an enum"
    [] OTHER -> "as_" \o type.t

\* A constructor is called like its class, whatever stands in front of the name.
Constructs(t, c) == \E pre \in {""} \cup {w \o "." : w \in Words} : t.n.t = pre \o c.name
FirstIn(l, params) ==
  IF l.a = <<>> THEN l ELSE L(l.p, <<Node("compound", "", params \o <<BlockOf(<<l.a[1]>>)>>)>> \o Tail(l.a))
Added(b, l) == [b EXCEPT !.p = l.p, !.a = @ \o l.a]

ClassDone(b, c, m, traits) == L(b.p, <<ClassNode(c, m, traits, b.a)>>)

Only(q, m, l) == IF m = {} THEN l ELSE Nothing(Say(q))
=============================================================================
