----------------------------- MODULE MCParsing -----------------------------
(***************************************************************************)
(* The programs that TLC parses.                                           *)
(***************************************************************************)
EXTENDS Parsing

MCNumerals == <<"0", "1", "2", "3">>
MCFiles    == {"first", "second", "third"}
MCWords    == {"a", "b", "c", "f", "g", "m", "n", "x", "y", "little"}

-----------------------------------------------------------------------------
(***************************************************************************)
(* Expressions, with their text and the level they have: 1 to 10 for the   *)
(* binary operators, from * to ||, below them what binds more tightly.     *)
(***************************************************************************)
Made(n, w, l) == [n |-> n, w |-> w, l |-> l]
Ref(s)        == Made(Leaf("ref", s), <<s>>, -1)
Put(e, l)     == IF e.l <= l THEN e.w ELSE <<"(">> \o e.w \o <<")">>

OpLevel(o)    == CHOOSE i \in DOMAIN Levels : o \in Levels[i]
Bin(o, d, e)  == Made(Node("bin", o, <<d.n, e.n>>), Put(d, OpLevel(o)) \o <<o>> \o Put(e, OpLevel(o) - 1), OpLevel(o))
Fall(d, e)    == Made(Node("fallback", "??", <<d.n, Node("errors", "", <<>>), e.n>>),
                      Put(d, 11) \o <<"??">> \o Put(e, 10), 11)
Pay(d, e)     == Made(Applied(d.n, <<e.n>>), Put(d, 11) \o <<"$">> \o Put(e, 12), 12)
Set(d, e)     == Made(Node("assign", "=", <<d.n, e.n>>), Put(d, 12) \o <<"=">> \o Put(e, 13), 13)
At(d, e)      == Made(Node("index", "", <<d.n, e.n>>), Put(d, -1) \o <<Tight, "[">> \o e.w \o <<"]">>, -1)
Called(d, e)  == Made(Applied(d.n, <<Arg(e.n)>>), Put(d, -1) \o <<"(">> \o e.w \o <<")">>, -1)
Before(o, d)  == Made(Node(IF o = "++" THEN "pre" ELSE "unary", o, <<d.n>>), <<o>> \o Put(d, 0), 0)
After(d)      == Made(Node("post", "++", <<d.n>>), Put(d, -1) \o <<"++">>, -1)
Dot(d)        == Made(Node("member", "f", <<d.n>>), Put(d, -1) \o <<".", "f">>, -1)

Operators == {"*", "-", "+", "<<", "<", "==", "&", "^", "|", "&&", "||"}
Pairs(d, e) == {Bin(o, d, e) : o \in Operators} \cup {Fall(d, e), Pay(d, e), Set(d, e), At(d, e), Called(d, e)}
Alone(d)    == {Before(o, d) : o \in {"-", "!", "*", "++"}} \cup {After(d), Dot(d)}

Trees == UNION {Pairs(d, Ref("c")) : d \in Pairs(Ref("a"), Ref("b"))}
         \cup UNION {Pairs(Ref("a"), d) : d \in Pairs(Ref("b"), Ref("c"))}
         \cup UNION {Alone(d) : d \in Pairs(Ref("a"), Ref("b"))}
         \cup UNION {Pairs(d, Ref("b")) \cup Pairs(Ref("b"), d) \cup Alone(d) : d \in Alone(Ref("a"))}
TreeJob(e) == [kind |-> "tree", text |-> <<"x", "=">> \o e.w \o <<";">>,
                  meant |-> Node("assign", "=", <<Leaf("ref", "x"), e.n>>)]
TreeJobs == {TreeJob(e) : e \in Trees}

-----------------------------------------------------------------------------
(***************************************************************************)
(* Programs.                                                               *)
(***************************************************************************)
Programs == {
  <<"int", "f", "(", "int", "a", ",", "bool", "*", "b", ")", "{", "return", "a", "+", "b", "*", "c", ";", "}">>,
  <<"void", "f", "(", ")", "{", "if", "a", "<", "b", "{", "a", "=", "b", ";", "}", "else", "{", "b", "=", "a", ";",
    "c", "(", ")", ";", "}", "return", ";", "}">>,
  <<"if", "a", "{", "x", ";", "}", "else", "if", "b", "{", "y", ";", "}", "else", "c", ";">>,
  <<"while", "once", "a", "{", "break", ";", "continue", ";", "}", "while", "b", "{", "}">>,
  <<"loop", "3", "{", "f", "(", ")", ";", "}", "for", "a", "in", "b", "{", "emit", "a", ";", "}">>,
  <<"switch", "a", "{", "case", "1", ":", "f", "(", ")", ";", "x", "=", "y", ";", "case", "2", ",", "3", ":",
    "{", "g", "(", ")", ";", "}", "leak", "case", "0", ":", "default", ":", "b", ";", "c", ";", "}">>,
  <<"int", "x", "=", "1", ",", "*", "y", "=", "a", ";", "bool", "b", ";">>,
  <<"public", "static", "open", "int", "f", "(", ")", "{", "a", ";", "}", "impure", "int", "g", "(", ")", "{", "return", ";", "}">>,
  <<"extern", "int", "f", "(", "int", "a", ",", "...", ")", ";">>,
  <<"namespace", "n", "{", "int", "x", "=", "1", ";", "void", "f", "(", ")", "{", "y", "=", "x", ";", "}", "}">>,
  <<"x", ".", "y", "(", "1", ",", "2", ")", Tight, "[", "3", "]", "=", "a", "as", "int", ";">>,
  <<"f", "a", ",", "b", ";", "g", "(", "x", ",", "f", "(", "y", ")", ")", ";">>,
  <<"imut", "int", "x", "=", "1", ";", "const", "int", "y", "=", "2", ";", "mut", "a", "=", "b", ";">>,
  <<"int", Tight, "[", "3", "]", "x", ";", "let", "y", "=", "[", "1", ",", "a", ",", "b", "]", ";">>,
  <<"purge", "a", ";", "x", "+=", "typeof", "(", "b", ")", ";">>,
  <<"class", "b", "{", "}", "public", "open", "class", "a", "is", "b", "{", "int", "x", "=", "1", ";", "bool", "*", "y", ";", "void",
    "f", "(", "int", "n", ")", "{", "x", "=", "n", ";", "}", "impure", "b", "g", "(", ")", "{", "return", "y",
    ";", "}", "}">>,
  <<"static", "naked", "inert", "class", "m", "{", "public", ":", "int", "x", ";", "private", "{", "int", "y",
    ";", "static", "void", "f", "(", ")", ";", "}", "bool", "n", ";", "}">>,
  <<"union", "c", "{", "int", "a", "=", "b", ";", "int", "*", "x", ";", "}">>,
  <<"enum", "a", "[", "b", ",", "c", "=", "2", ",", "x", "]", ";", "a", "y", "=", "b", ";", "enum", "m", "[",
    "f", "=", "-", "2", ",", "g", "=", "0", "]", ";">> }

\* Of these the emitter leaves something out.
Others == {
  <<"x", "=", "a", "?", "[", "b", ",", "c", "]", "m", "n", ";", "f", "(", "y", "=", "1", ",", "a", ")", ";">>,
  <<"clean", "a", "as", "b", "{", "f", "(", ")", ";", "}", "residue", "x", "[", "m", ",", "n", "]", "{", "g", "(", ")",
    ";", "}", "{", "y", ";", "}">>,
  <<"untaint", "a", "residue", "b", "{", "c", ";", "}", "defer", "{", "x", ";", "y", ";", "}">>,
  <<"errnum", "[", "a", "]", "int", "f", "(", "int", "b", "=", "c", ")", "{", "return", "b", ";", "}">>,
  <<"meta", "{", "a", ";", "b", ";", "}", "defer", "c", ";", "x", "*=", "y", ";">>,
  <<"if", "a", "{", "}", "else", "{", "if", "b", "{", "}", "c", ";", "}">>,
  <<"class", "x", "{", "}", "errnum", "[", "a", ",", "b", "]", "int", "flux", "f", "(", "x", "m", ",", "int", "(", "*", ")", "(", "int",
    ")", "g", ")", "{", "}">>,
  <<"extern", "class", "a", ";", "a", "*", "x", "=", "b", ";", "a", "*", "*", "f", "(", "a", "?", "y", ")", "{", "a", "c", "=",
    "g", "(", "x", ")", ";", "return", "y", "as", "a", "*", ";", "}">>,
  <<"pure", "{", "int", "x", ";", "public", "int", "f", "(", ")", "{", "}", "}", "extern", "{", "int", "f", "(", "int", ")",
    "as", "g", ";", "class", "c", ";", "}">>,
  <<"unsigned", "int", "x", "=", "sizeof", "(", "a", ")", ";", "long", "double", "y", "=", "b", "being", "[", "little", "]", "int",
    ";", "int", "f", "(", "union", "[", "int", "a", ",", "bool", "b", "]", "c", ")", "{", "}">>,
  <<"int", "(", "*", ")", "(", "int", ")", "x", "=", "f", ";", "x", "=", "[", "0", "..", "2", ",", "a", "]", ";">>,
  <<"int", "f", "(", ")", "{", "g", "(", "a", ")", ".", "m", "(", "b", ")", ".", "n", "=", "defined", "x", ";", "c", "$", "y", ";", "}">>,
  <<"compound", "[", "type", "a", ",", "type", "b", "]", "a", "f", "(", "b", "x", ")", "{", "}">>,
  <<"closed", "class", "a", "has", "b", ",", "c", "{", "a", "(", "int", "x", ",", "bool", "n", "=", "y", ")",
    "{", "m", "=", "x", ";", "}", "flux", "int", "{", "emit", "x", ";", "}", "as", "int", "{", "return", "m",
    ";", "}", "}">>,
  <<"class", "?", "a", "{", "int", "x", Tight, "[", "3", "]", ",", "*", "y", "=", "b", ";", "int", "pure", "(",
    "*", "g", ")", "(", "int", ")", "=", "f", ";", "covalent", "override", "a", "*", "m", "(", "int", "n", Tight,
    "[", "2", "]", ",", "bool", "c", ")", ";", "}">>,
  <<"class", "a", "{", "compound", "[", "type", "b", ",", "type", "[", "int", ",", "bool", "]", "c", "]", "b",
    "f", "(", "c", "x", ")", ";", "reactive", "{", "pure", ":", "int", "y", ";", "}", "}">>,
  <<"enum", "[", "a", ",", "b", "]", ";", "extern", "union", "c", ";", "c", "x", ";", "enum", "m", "[", "n",
    "]", ";", "m", ";", "export", "namespace", "f", "{", "class", "g", "{", "}", "g", "y", ";", "}">> }

ProgramJobs == {[kind |-> "program", text |-> w, meant |-> None] : w \in Programs}
               \cup {[kind |-> "other", text |-> w, meant |-> None] : w \in Others}

-----------------------------------------------------------------------------
(***************************************************************************)
(* Programs with an error: one token too few, one too many, or two in the  *)
(* wrong order.                                                            *)
(***************************************************************************)
Without(w, i) == SubSeq(w, 1, i - 1) \o SubSeq(w, i + 1, Len(w))
Inserted(w, i, s) == SubSeq(w, 1, i - 1) \o <<s>> \o SubSeq(w, i, Len(w))
Damaged(w, more) == {Without(w, i) : i \in DOMAIN w} \cup {Inserted(w, i, s) : i \in DOMAIN w, s \in more}
HasNone(w, S) == {w[i] : i \in DOMAIN w} \cap S = {}
Guarded(w)   == HasNone(w, {"switch", "imut", "mut", "let", "class", "union", ".."})
CommaFree(w) == HasNone(w, {",", "switch", "imut", "mut", "let", ".."})
DamagedJobs ==
  {[kind |-> "damaged", text |-> v, meant |-> None] :
     v \in UNION {Damaged(w, {"}", ")", ",", "if"}) : w \in {w \in Programs \cup Others : Guarded(w)}}
            \cup UNION {Damaged(w, {"}", ")", "if"}) : w \in {w \in Programs \cup Others : CommaFree(w)}}}

-----------------------------------------------------------------------------
(***************************************************************************)
(* C headers: every type in every place where one may stand, with what is  *)
(* meant, and headers with a declaration from which a token is missing or  *)
(* in which there is one too many.                                         *)
(***************************************************************************)
Written(w, t) == [w |-> w, t |-> t]
CSpellings == {
  Written(<<"int">>, CBasic("int")), Written(<<"const", "char">>, CBasic("char")), Written(<<"unsigned", "char">>, CBasic("unsigned char")),
  Written(<<"short">>, CBasic("short")), Written(<<"long">>, CBasic("long")), Written(<<"long", "long">>, CBasic("long long")),
  Written(<<"unsigned">>, CBasic("unsigned int")), Written(<<"unsigned", "long">>, CBasic("unsigned long")),
  Written(<<"float">>, CBasic("single")), Written(<<"long", "double">>, CBasic("double")), Written(<<"_Bool">>, CBasic("bool")),
  Written(<<"size_t">>, CBasic("unsigned long")), Written(<<"struct", "m">>, CClass("m")), Written(<<"enum", "n">>, Leaf("enum", "n")) }
Pointing(s)   == Written(s.w \o <<"*">>, [s.t EXCEPT !.a = CStars(1)])
CWritten      == CSpellings \cup {Pointing(s) : s \in CSpellings \ {Written(<<"enum", "n">>, Leaf("enum", "n"))}}
                 \cup {Written(<<"void", "*">>, [CBasic("void") EXCEPT !.a = CStars(1)])}

CFuncNode(name, t, params) == Node("extern func", name, <<t, Leaf("real name", ""), Node("params", "", params)>>)
CParamNode(name, t) == Node("param", name, <<t>>)
CInt == CBasic("int")
CDone(w, nodes) == [w |-> w, nodes |-> nodes]

\* What can be declared with a type.
CPlaces(s) == {
  CDone(s.w \o <<"f", "(", "void", ")", ";">>, <<CFuncNode("f", s.t, <<>>)>>),
  CDone(<<"extern", "int", "f", "(">> \o s.w \o <<"a", ",">> \o s.w \o <<",", "...", ")", "__THROW", ";">>,
        <<CFuncNode("f", CInt, <<CParamNode("a", s.t), CParamNode("", s.t), CMore>>)>>),
  CDone(<<"static", "inline", "void", "f", "(", "int", "(", "*", ")", "(", "int", ")", ",">> \o s.w \o <<"a", "[", "3", "]", ")", "{", "{", "}",
          "}">>,
        <<CFuncNode("f", CBasic("void"), <<CParamNode("", Node("func", "", <<CInt>>)), CParamNode("a", s.t)>>)>>),
  CDone(<<"extern">> \o s.w \o <<"x", "[", "]", ";">>, <<Node("extern var", "x", <<s.t>>)>>),
  CDone(<<"struct", "a", "{">> \o s.w \o <<"x", ",", "y", ";">> \o s.w \o <<"c", ":", "2", ";", "}", ";">>,
        <<CStructNode("a", "", Block(<<Node("var", "x", <<s.t>>), Node("var", "y", <<s.t>>), Node("var", "c", <<s.t>>)>>))>>),
  CDone(<<"typedef", "struct", "a", "{">> \o s.w \o <<"x", ";", "int", "y", "[", "2", "]", ";", "}", "b", ";">>,
        <<CStructNode("a", "", Block(<<Node("var", "x", <<s.t>>), Node("var", "y", <<CInt>>)>>))>>) }
CEntryNode(name, v) == Node("entry", name, Count(v))
CAlone == {
  CDone(<<"enum", "c", "{", "x", ",", "y", "=", "3", ",", "n", "}", ";">>,
        <<Node("enum", "c", <<CEntryNode("x", 0), CEntryNode("y", 3), CEntryNode("n", 4)>>)>>),
  CDone(<<"typedef", "enum", "{", "x", "=", "2", ",", "y", "}", "a", ";", "a", "f", "(", "a", "b", ")", ";">>,
        <<Node("enum", "a", <<CEntryNode("x", 2), CEntryNode("y", 3)>>),
          CFuncNode("f", Leaf("enum", "a"), <<CParamNode("b", Leaf("enum", "a"))>>)>>),
  CDone(<<"struct", "a", ";", "typedef", "struct", "a", "b", ";", "b", "*", "f", "(", ")", ";">>,
        <<CStructNode("a", "", None), CFuncNode("f", [CClass("a") EXCEPT !.a = CStars(1)], <<>>)>>),
  CDone(<<"namespace", "m", "{", "int", "f", "(", ")", ";", "extern", "int", "x", ";", "}">>,
        <<CFuncNode("f", CInt, <<>>), Node("extern var", "x", <<CInt>>)>>),
  CDone(<<"class", "c", ":", "public", "b", "{", "public", ":", "int", "x", ";", "c", "(", "int", "n", ")", ":", "x", "(", "n", ")", "{", "}",
          "~", "c", "(", ")", ";", "int", "g", "(", "int", "n", ")", "const", ";", "bool", "y", ";", "}", ";">>,
        <<CStructNode("c", "b", Block(<<Node("var", "x", <<CInt>>), Node("var", "y", <<CBasic("bool")>>)>>))>>) }
CSamples == CAlone \cup CPlaces(Written(<<"unsigned", "long">>, CBasic("unsigned long")))
            \cup CPlaces(Pointing(Written(<<"const", "char">>, CBasic("char"))))
HeaderJob(d, e) == [kind |-> "header", text |-> d.w \o e.w, meant |-> [before |-> d.nodes, after |-> e.nodes]]
HeaderJobs == {HeaderJob(d, CDone(<<>>, <<>>)) : d \in UNION {CPlaces(s) : s \in CWritten}}
              \cup {HeaderJob(d, e) : d \in CSamples, e \in CSamples}

CBefore == CDone(<<"int", "g", "(", "int", "c", ")", ";">>, <<CFuncNode("g", CInt, <<CParamNode("c", CInt)>>)>>)
CBehind == CDone(<<"extern", "int", "n", ";">>, <<Node("extern var", "n", <<CInt>>)>>)
TornJob(v) == [kind |-> "torn header", text |-> CBefore.w \o v \o CBehind.w, meant |-> [before |-> CBefore.nodes, after |-> CBehind.nodes]]
Bodyless(w)  == HasNone(w, {"inline", "namespace", "class"})
Times(w, x)  == Len(SelectSeq(w, LAMBDA y : y = x))
Closed(v)    == v[Len(v)] = ";" /\ Times(v, "{") = Times(v, "}")
TornTexts    == UNION {Damaged(d.w, {"int", "*", "x"}) : d \in {d \in CSamples : Bodyless(d.w)}}
TornJobs     == {TornJob(v) : v \in {v \in TornTexts : Closed(v)}}

-----------------------------------------------------------------------------
(***************************************************************************)
(* Programs with macros.                                                   *)
(***************************************************************************)
MacroOf(name, params, body) == [name |-> name, params |-> params, body |-> body]
DefineText(d) ==
  <<"define", d.name>> \o (IF d.params = <<>> THEN <<>> ELSE <<"(">> \o Listing([i \in DOMAIN d.params |-> <<d.params[i]>>]) \o <<")">>)
  \o <<"as">> \o d.body \o <<";">>

\* Where the arguments that begin at i end, and what they are.
RECURSIVE ArgEnd(_, _, _, _)
ArgEnd(w, i, depth, last) ==
  IF depth = 0 /\ w[i] = (IF last THEN ")" ELSE ",") THEN i
  ELSE ArgEnd(w, i + 1, depth + (CASE w[i] = "(" -> 1 [] w[i] = ")" -> -1 [] OTHER -> 0), last)
RECURSIVE ArgsFrom(_, _, _)
ArgsFrom(w, i, n) ==
  IF n = 0 THEN <<>>
  ELSE LET e == ArgEnd(w, i, 0, n = 1) IN <<[from |-> i, to |-> e]>> \o ArgsFrom(w, e + 1, n - 1)

\* The text with the macros replaced, none inside its own replacement.
RECURSIVE Replaced(_, _, _)
Replaced(w, defs, inside) ==
  IF w = <<>> THEN <<>>
  ELSE LET ds == {d \in defs : d.name = w[1] /\ d.name \notin inside}
           d == CHOOSE d \in ds : TRUE
           args == ArgsFrom(w, 3, Len(d.params))
           arg(k) == SubSeq(w, args[k].from, args[k].to - 1)
           piece(s) == IF \E k \in DOMAIN d.params : d.params[k] = s
                       THEN arg(CHOOSE k \in DOMAIN d.params : d.params[k] = s) ELSE <<s>>
           body == FlattenSeq([i \in DOMAIN d.body |-> piece(d.body[i])])
           rest == IF d.params = <<>> THEN 2 ELSE args[Len(args)].to + 1
       IN  IF ds = {} THEN <<w[1]>> \o Replaced(Tail(w), defs, inside)
           ELSE Replaced(body, defs, inside \cup {d.name}) \o Replaced(SubSeq(w, rest, Len(w)), defs, inside)

MBodies == {<<"a">>, <<"a", "-", "n">>, <<"c", "*", "m">>, <<"(", "n", ")", "+", "a">>, <<"f", "(", "n", ",", "b", ")">>}
NBodies == {<<"b">>, <<"c", "-", "m">>, <<"a", "*", "n">>}
Uses == {<<"x", "=", "m", ";">>, <<"x", "=", "n", "*", "m", ";", "m", "=", "y", ";">>,
         <<"int", "y", "=", "m", ";", "if", "n", "{", "x", "=", "m", ";", "}">>,
         <<"switch", "m", "{", "case", "1", ":", "n", ";", "}">>}
GBodies == {<<"a", "-", "b">>, <<"b", "*", "a", "+", "n">>, <<"a", "+", "g", "(", "a", ")">>}
GUses == {<<"x", "=", "g", "(", "a", "+", "b", ",", "c", ")", ";">>,
          <<"x", "=", "g", "(", "g", "(", "a", ",", "n", ")", ",", "f", "(", "y", ",", "b", ")", ")", ";">>}
MacroSets == {[defs |-> {MacroOf("m", <<>>, v), MacroOf("n", <<>>, w)},
               text |-> DefineText(MacroOf("m", <<>>, v)) \o DefineText(MacroOf("n", <<>>, w)) \o u, use |-> u] :
                v \in MBodies, w \in NBodies, u \in Uses}
             \cup {[defs |-> {MacroOf("g", <<"a", "b">>, v), MacroOf("n", <<>>, w)},
                    text |-> DefineText(MacroOf("n", <<>>, w)) \o DefineText(MacroOf("g", <<"a", "b">>, v)) \o u, use |-> u] :
                     v \in GBodies, w \in {<<"b">>, <<"c">>}, u \in GUses}
MacroJobs == {[kind |-> "macros", text |-> s.text, meant |-> Replaced(s.use, s.defs, {})] : s \in MacroSets}

\* Programs with other names for types, and without.
TypeJobs == {
  [kind |-> "macros", text |-> <<"typedef", "x", "as", "int", ";", "x", "y", "=", "1", ";">>,
   meant |-> <<"int", "y", "=", "1", ";">>],
  [kind |-> "macros", text |-> <<"typedef", "int", "*", "as", "x", ",", "y", ";", "x", "a", ";", "y", "*", "b", ";">>,
   meant |-> <<"int", "*", "a", ";", "int", "*", "*", "b", ";">>],
  [kind |-> "macros", text |-> <<"typedef", "x", ",", "y", "as", "bool", Tight, "[", "2", "]", ";", "y", "*", "a", ";">>,
   meant |-> <<"bool", "*", Tight, "[", "2", "]", "a", ";">>],
  [kind |-> "macros", text |-> <<"typedef", "int", "x", Tight, "[", "2", "]", ";", "x", "y", ";">>,
   meant |-> <<"int", "*", Tight, "[", "2", "]", "y", ";">>],
  [kind |-> "macros", text |-> <<"class", "c", "{", "}", "typedef", "x", "as", "c", ";", "x", "y", ";", "x", "*", "f", "(", "x", "a", ")",
     "{", "return", "a", "as", "x", ";", "}">>,
   meant |-> <<"class", "c", "{", "}", "c", "y", ";", "c", "*", "f", "(", "c", "a", ")", "{", "return", "a", "as", "c",
     ";", "}">>],
  [kind |-> "macros", text |-> <<"union", "[", "int", "a", ",", "bool", "b", "]", "x", ";", "x", "*", "y", "=", "a", ";">>,
   meant |-> <<"union", "[", "int", "a", ",", "bool", "b", "]", "*", "y", "=", "a", ";">>],
  [kind |-> "macros", text |-> <<"typedef", "x", "as", "int", ";", "typedef", "x", "as", "bool", ";", "x", "y", ";">>,
   meant |-> <<"bool", "y", ";">>],
  [kind |-> "macros", text |-> <<"namespace", "n", "{", "class", "c", "{", "int", "a", ";", "}", "c", "b", ";", "}", "typedef", "y", "as",
     "n", ".", "c", ";", "y", "x", ";">>,
   meant |-> <<"namespace", "n", "{", "class", "c", "{", "int", "a", ";", "}", "c", "b", ";", "}", "n", ".", "c", "x",
     ";">>],
  [kind |-> "macros", text |-> <<"typedef", "enum", "a", "[", "b", ",", "c", "=", "1", "]", "x", ";", "x", "y", ";">>,
   meant |-> <<"typedef", "enum", "a", "[", "b", "]", "m", ";", "a", "y", ";">>],
  [kind |-> "macros", text |-> <<"typedef", "x", "as", "abstract", "container", "class", "{", "int", "a", ";", "bool", "b", ";", "}", ";",
     "x", "y", ";">>,
   meant |-> <<"typedef", "m", "as", "abstract", "container", "class", "{", "int", "a", ";", "bool", "b", ";", "}", ";",
     "m", "y", ";">>],
  [kind |-> "macros", text |-> <<"define", "m", "as", "b", ";", "class", "a", "[", "m", "]", "{", "}", "a", Tight, "[", "b", "]", "x",
     ";">>,
   meant |-> <<"class", "a", "[", "b", "]", "{", "}", "a", Tight, "[", "b", "]", "x", ";">>] }

-----------------------------------------------------------------------------
(***************************************************************************)
(* Programs that import files.                                             *)
(***************************************************************************)
Of(path) == <<"import", path, ";">>
File(path, w) == [path |-> path, text |-> w]
AnInt(x) == <<"int", x, ";">>
Func(x, w) == <<"void", x, "(", ")", "{">> \o w \o <<"}">>
Space(x, w) == <<"namespace", x, "{">> \o w \o <<"}">>

\* The text with that of the files in place of their imports.
RECURSIVE InPlace(_, _)
InPlace(w, files) ==
  IF w = <<>> THEN <<>>
  ELSE IF w[1] = "import" THEN InPlace((CHOOSE f \in files : f.path = w[2]).text, files) \o InPlace(SubSeq(w, 4, Len(w)), files)
  ELSE <<w[1]>> \o InPlace(Tail(w), files)

Library(x) == <<"link", x, ";">>

ImportUses(i) == {
  i, AnInt("x") \o i, i \o Func("f", <<"x", ";">>), AnInt("x") \o i \o AnInt("y"), Space("n", i) \o AnInt("x"),
  Space("n", AnInt("x") \o i \o AnInt("y")) \o Func("g", <<>>), Library("m") \o i,
  <<"define", "a", "as", "y", ";">> \o i \o <<"x", "=", "a", ";">> }
FirstTexts == UNION {ImportUses(w) : w \in {AnInt("a"), Func("a", <<"b", ";">>) \o AnInt("m"), Of("second")}}
SecondTexts == {AnInt("c"), AnInt("c") \o Func("m", <<"a", ";">>)}
ImportJob(w, files) == [kind |-> "imports", text |-> w, meant |-> InPlace(w, files), files |-> files]
ImportJobs == {ImportJob(w, {File("first", v), File("second", u)}) : w \in ImportUses(Of("first")), v \in FirstTexts, u \in SecondTexts}
              \cup {ImportJob(Of("first") \o Of("third"), {File("first", v), File("third", u)}) :
                      v \in {<<"class", "c", "{", "}">>, <<"define", "c", "as", "int", ";">>, <<"typedef", "c", "as", "int", "*", ";">>},
                      u \in {<<"c", "x", ";">>, <<"c", "*", "f", "(", "c", "y", ")", "{", "}">>}}
              \cup {[kind |-> "missing import", text |-> w, meant |-> <<>>, files |-> {File("first", Of("second"))}] :
                      w \in ImportUses(Of("second")) \cup ImportUses(Of("first"))}
OfHeader(path) == <<"@", "c", "import", path, ";">>
CImportJobs == {[kind |-> "imported header", text |-> Library("m") \o OfHeader("first") \o Library("n"), files |-> {File("first", d.w)},
                 meant |-> [before |-> <<Leaf("link", "m")>> \o d.nodes, after |-> <<Leaf("link", "n")>>]] : d \in CSamples}

MCJobs == ImportJobs \cup CImportJobs \cup HeaderJobs \cup TornJobs \cup TreeJobs \cup ProgramJobs \cup MacroJobs \cup TypeJobs \cup DamagedJobs

-----------------------------------------------------------------------------
(***************************************************************************)
(* Programs for which a property fails.                                    *)
(***************************************************************************)
\* MacrosTransparent: the first token of a body is expanded when the macro is defined.
Captured == {[defs |-> {MacroOf("n", <<>>, <<"b">>), MacroOf("m", <<"b">>, <<"n", "+", "b">>)},
              text |-> DefineText(MacroOf("n", <<>>, <<"b">>)) \o DefineText(MacroOf("m", <<"b">>, <<"n", "+", "b">>))
                       \o <<"x", "=", "m", "(", "c", ")", ";">>,
              use |-> <<"x", "=", "m", "(", "c", ")", ";">>]}
CaptureJobs == {[kind |-> "macros", text |-> s.text, meant |-> Replaced(s.use, s.defs, {})] : s \in Captured}

\* NeverStuck: loops over cases, names and members that do not look at the error, ranges without a bound.
LoopJobs == {[kind |-> "damaged", text |-> v, meant |-> None] :
               v \in UNION {Damaged(w, {"}", ")", ",", "if"}) : w \in {w \in Programs \cup Others : ~Guarded(w)}}}

\* DeclarationsKept: after an error the reader resumes at the next semicolon, behind a body and what follows it.
SwallowJobs == {TornJob(v) : v \in UNION {Damaged(d.w, {"int"}) : d \in {d \in CSamples : ~Bodyless(d.w)}}}
\* NeverStuck: members up to a brace that is not there.
OpenJobs == {TornJob(v) : v \in {v \in TornTexts : Times(v, "{") > Times(v, "}")}}

\* DeclarationsKept: a nested struct and its variable, all names but the first, a block of declarations.
LostJobs == {HeaderJob(d, CDone(<<>>, <<>>)) : d \in {
  CDone(<<"struct", "a", "{", "struct", "b", "{", "int", "m", ";", "}", "x", ";", "int", "y", ";", "}", ";">>,
        <<CStructNode("a", "", Block(<<Node("var", "x", <<CClass("b")>>), Node("struct", "b", <<Block(<<Node("var", "m", <<CInt>>)>>)>>),
                                       Node("var", "y", <<CInt>>)>>))>>),
  CDone(<<"typedef", "struct", "a", "{", "int", "x", ",", "y", ";", "}", "b", ";">>,
        <<CStructNode("a", "", Block(<<Node("var", "x", <<CInt>>), Node("var", "y", <<CInt>>)>>))>>),
  CDone(<<"extern", "int", "x", ",", "y", ";">>, <<Node("extern var", "x", <<CInt>>), Node("extern var", "y", <<CInt>>)>>),
  CDone(<<"extern", "str", "{", "int", "f", "(", ")", ";", "}">>, <<CFuncNode("f", CInt, <<>>)>>) }}
\* DeclarationsKept: the words of a type in another order than sign, length, rest.
OrderJobs == {HeaderJob(d, CDone(<<>>, <<>>)) :
                d \in CPlaces(Written(<<"long", "unsigned">>, CBasic("unsigned long")))
                      \cup CPlaces(Written(<<"unsigned", "short">>, CBasic("unsigned short")))
                      \cup CPlaces(Written(<<"long", "int">>, CBasic("long")))}

\* NamesKept: all but the first statement of a block in a case, when another follows it.
NestedCase == {[kind |-> "program", meant |-> None,
                text |-> <<"switch", "a", "{", "case", "1", ":", "{", "x", "(", ")", ";", "y", "(", ")", ";", "}",
                           "b", "(", ")", ";", "}">>]}

\* RoundTrip: what follows an if in the branch behind else.
ElseJobs == {[kind |-> "program", meant |-> None,
              text |-> <<"if", "a", "{", "x", "(", ")", ";", "}", "else", "{", "if", "b", "{", "}", "c", "(", ")", ";", "}">>]}
\* RoundTrip: the value -1 of an enum.
MinusOne == {[kind |-> "program", meant |-> None, text |-> <<"enum", "a", "[", "b", "=", "0", ",", "c", "=", "-", "1", "]", ";">>]}

\* NeverStuck: sixteen blocks with modifiers may be open in a class, and the seventeenth is put behind them.
DeepLabels == {[kind |-> "damaged", meant |-> None,
                text |-> <<"class", "a", "{">> \o FlattenSeq([i \in 1 .. 17 |-> <<"pure", "{">>])]}

\* NeverStuck: a file is imported twice, by two files, or by itself; what it was read as then points back to itself.
AgainJobs == {ImportJob(w, {File("first", Of("third")), File("second", Of("third")), File("third", AnInt("a"))}) :
                w \in {Of("third") \o Of("third"), Of("third") \o AnInt("x") \o Of("third"), Of("first") \o Of("second")}}
             \cup {[kind |-> "imports", text |-> Of("first"), meant |-> <<>>, files |-> {File("first", w)}] :
                     w \in {Of("first"), AnInt("a") \o Of("first") \o AnInt("b")}}
\* ImportsInPlace: the names that an imported file declares are not known to the file that imports it.
LateJobs == {ImportJob(Of("first") \o <<"c", "x", ";">>, {File("first", w)}) :
               w \in {<<"define", "c", "as", "int", ";">>, <<"typedef", "c", "as", "int", ";">>}}
=============================================================================
