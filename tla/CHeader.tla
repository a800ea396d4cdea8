------------------------------ MODULE CHeader -------------------------------
(***************************************************************************)
(* The reader of C headers, which finds the declarations in what the C     *)
(* preprocessor gives for a header.  A token is the text it has; nothing   *)
(* is known of types but the names a header gave them.  Eating a token     *)
(* that is not there is an error and skips what is there.                  *)
(***************************************************************************)
EXTENDS SyntaxTrees

(* The state of a reader.  The number that tells structs and enums without *)
(* names apart is left out: their name is empty.                           *)
CFresh(tokens) == [toks |-> tokens, err |-> FALSE, types |-> {}, stuck |-> ""]

(* The rules that are used in several places, by their names: what was     *)
(* read, with a type or with nodes.                                        *)
RECURSIVE CParse(_, _)
CType(h)        == CParse("type", h)
CModifiers(h)   == CParse("modifiers", h)
CListed(h)      == CParse("listed", h)
CDeclaration(h) == CParse("declaration", h)

CT(h, t) == [h |-> h, t |-> t]
CL(h, a) == [h |-> h, a |-> a]

-----------------------------------------------------------------------------
(***************************************************************************)
(* Tokens.                                                                 *)
(***************************************************************************)
CQualifiers  == {"const", "volatile", "restrict"}
CPlain       == CQualifiers \cup {"extern", "static", "inline", "__extension__", "__cdecl"}
CGroups      == {"__attribute__", "__declspec", "asm"}
CTypeWords   == {"void", "char", "short", "int", "long", "float", "double", "signed", "unsigned", "bool", "_Bool",
                 "struct", "union", "enum", "_Complex"}
CMarks       == {"(", ")", "[", "]", "{", "}", "<", ">", ";", ",", "*", "&", "&&", "=", ":", "~", "..."}
CReservedTokens == CPlain \cup CGroups \cup CTypeWords \cup CMarks \cup {"typedef", "return", "str", "eof"} \cup Range(Numerals)

\* Names with a meaning of their own, one or two of each kind.
CAttributes  == {"__attribute_pure__", "__nonnull", "__BEGIN_DECLS"}
CIgnored     == {"__THROW", "__wur", "__restrict", "__inline"}
CRestricts   == {"__restrict", "__const"}
CWrappers    == {"__NTH", "__REDIRECT"}
CHidden      == CAttributes \cup CWrappers \cup {"__THROW", "__wur", "__restrict", "__inline", "__const", "__builtin"}
CBuiltins    == [size_t |-> "unsigned long", ssize_t |-> "long", wchar_t |-> "short", uint8_t |-> "unsigned char",
                 int32_t |-> "int", uint64_t |-> "unsigned long long", __builtin_va_list |-> "void"]

CName(s)     == s \notin CReservedTokens
CAhead(h, n) == IF Len(h.toks) < n THEN "eof" ELSE h.toks[n]
CCur(h)      == CAhead(h, 1)
CIs(h, S)    == CCur(h) \in S
CNamed(h)    == CName(CCur(h))
CSkip(h)     == [h EXCEPT !.toks = IF @ = <<>> THEN @ ELSE Tail(@)]
CFail(h)     == [h EXCEPT !.err = TRUE]
CEat(h, s)   == CSkip(IF CIs(h, {s}) THEN h ELSE CFail(h))
COpt(h, S)   == IF CIs(h, S) THEN CSkip(h) ELSE h
COptName(h)  == IF CNamed(h) THEN CSkip(h) ELSE h

RECURSIVE CWhile(_, _), CNames(_), CUntil(_, _), CSeek(_, _), CGroup(_, _, _, _, _), CArrays(_)
CWhile(h, S) == IF CIs(h, S) THEN CWhile(CSkip(h), S) ELSE h
CNames(h)    == IF CNamed(h) THEN CNames(CSkip(h)) ELSE h

\* A loop that ends at one of S or at an error, but not at the end of the file.
CUntil(h, S) ==
  CASE h.err \/ CIs(h, S) -> h
    [] CIs(h, {"eof"}) -> [CFail(h) EXCEPT !.stuck = "hangs"]
    [] OTHER -> CUntil(CSkip(h), S)
CSeek(h, S)  == IF CIs(h, S \cup {"eof"}) THEN h ELSE CSeek(CSkip(h), S)

\* Up to the bracket that closes what is open, or to one of stops.
CGroup(h, open, close, stops, depth) ==
  IF depth = 0 \/ CIs(h, stops) THEN h
  ELSE CGroup(CSkip(h), open, close, stops, depth + (CASE CIs(h, {open}) -> 1 [] CIs(h, {close}) -> -1 [] OTHER -> 0))
CParens(h)   == CGroup(CSkip(h), "(", ")", {"eof"}, 1)
CBody(h)     == CGroup(CSkip(h), "{", "}", {"eof"}, 1)
CAngles(h)   == IF CIs(h, {"<"}) THEN CGroup(CSkip(h), "<", ">", {"eof"}, 1) ELSE h
COutward(h)  == IF h.err THEN h ELSE CGroup(h, "(", ")", {";", "eof"}, 1)
CArrays(h)   ==
  IF CIs(h, {"["}) THEN CArrays(IF h.err THEN CSkip(h) ELSE CGroup(CSkip(h), "[", "]", {";", "eof"}, 1)) ELSE h

-----------------------------------------------------------------------------
(***************************************************************************)
(* Types, a kind and a name with a star for each pointer.  What is between *)
(* brackets is read over, and nothing is kept of it.                       *)
(***************************************************************************)
CMore        == Leaf("...", "")
CUnknown     == Leaf("unknown", "")
CBasic(t)    == Leaf("basic", t)
CClass(t)    == Leaf("class", t)
CStars(n)    == [i \in 1 .. n |-> Star]

CGiven(h, name) == {x \in h.types : x.name = name}
CLookup(h, name) ==
  IF CGiven(h, name) # {} THEN (CHOOSE x \in CGiven(h, name) : TRUE).type
  ELSE IF name \in DOMAIN CBuiltins THEN CBasic(CBuiltins[name])
  ELSE IF name = "FILE" THEN CClass("") ELSE CUnknown
CRegister(h, name, t) == [h EXCEPT !.types = (@ \ CGiven(h, name)) \cup {[name |-> name, type |-> t]}]

CTypeToken(h, s) == s \in CTypeWords \/ (CName(s) /\ CLookup(h, s) # CUnknown)
CBeforeType(h)   == CTypeToken(h, CAhead(h, 2)) \/ CAhead(h, 2) \in CQualifiers \cup {"*"}

(* What stands around declarations.  A name that is no type is taken for a *)
(* macro when a type follows it.                                           *)
CSomeModifiers(h) ==
  CASE h.err \/ CIs(h, {"eof"}) -> h
    [] CIs(h, CPlain) -> CModifiers(CSkip(h))
    [] CIs(h, CGroups) -> CModifiers(IF CAhead(h, 2) = "(" THEN CParens(CSkip(h)) ELSE CSkip(h))
    [] CNamed(h) /\ CAhead(h, 2) = "(" -> IF CIs(h, CAttributes) THEN CModifiers(CParens(CSkip(h))) ELSE h
    [] CNamed(h) /\ CAhead(h, 2) # "(" ->
         IF CIs(h, CAttributes \cup CIgnored) \/ (~CTypeToken(h, CCur(h)) /\ CBeforeType(h))
         THEN CModifiers(CSkip(h)) ELSE h
    [] OTHER -> h

RECURSIVE CPointers(_, _), CFnParams(_, _)
CPointers(h, n) ==
  IF CIs(h, {"*", "&", "&&"}) THEN CPointers(CWhile(CWhile(CSkip(h), CQualifiers), CRestricts), n + 1)
  ELSE [h |-> h, n |-> n]

CFnParams(h, got) ==
  IF CIs(h, {")"}) \/ h.err THEN CL(h, got)
  ELSE LET r == CType(h)
           g == CArrays(COptName(r.h))
       IN  CASE CIs(g, {","}) -> CFnParams(CSkip(g), Append(got, r.t))
             [] CIs(g, {"..."}) -> CL(CSkip(g), got \o <<r.t, CMore>>)
             [] OTHER -> CL(g, Append(got, r.t))

\* A pointer to a function, from the star on; the name in it is not kept.
CFnPointer(h) ==
  LET l == CFnParams(CEat(CEat(COptName(CSkip(h)), ")"), "("), <<>>)
  IN  CT(CEat(l.h, ")"), Node("func", "", l.a))
CStarInParens(h) == CIs(h, {"("}) /\ CAhead(h, 2) = "*"
CNoPointer(h)    == IF CIs(h, {"("}) THEN COutward(CSkip(h)) ELSE h

\* Pointers, brackets and parentheses behind a type.
CSuffixed(r) ==
  LET s == CPointers(r.h, 0)
      g == CArrays(s.h)
  IN  IF CStarInParens(g) THEN CFnPointer(CSkip(g))
      ELSE CT(CNoPointer(g), IF r.t.k = "func" THEN r.t ELSE [r.t EXCEPT !.a = CStars(s.n)])

CTagged(h, t) == CSuffixed(CT(COptName(CSkip(h)), [t EXCEPT !.t = IF CName(CAhead(h, 2)) THEN CAhead(h, 2) ELSE @]))

\* A name: of a type, of a macro before one, or of a class nobody has declared.
CNamedType(h) ==
  LET t == CLookup(h, CCur(h))
  IN  IF t = CUnknown /\ CBeforeType(h) THEN CType(CSkip(h))
      ELSE IF t = CUnknown /\ CIs(h, CHidden) THEN CT(h, CUnknown)
      ELSE CSuffixed(CT(CAngles(CSkip(h)), IF t = CUnknown THEN CClass(CCur(h)) ELSE t))

CSized(sign, t) == CBasic(IF sign = "unsigned" THEN "unsigned " \o t ELSE t)
CLong(h, sign, longs) ==
  IF longs >= 2 THEN CT(h, CSized(sign, "long long"))
  ELSE IF CIs(h, {"double"}) THEN CT(COpt(CSkip(h), {"int"}), CBasic("double")) ELSE CT(h, CSized(sign, "long"))

(* The words of a type, in the only order that is known: a sign, short or  *)
(* long, then the rest.  An int behind long decides alone.                 *)
CSpecified(h, sign, short, longs) ==
  CASE CIs(h, {"_Complex"}) -> CType(CSkip(h))
    [] CIs(h, {"void"}) -> CSuffixed(CT(CSkip(h), CBasic("void")))
    [] CIs(h, {"char"}) -> CSuffixed(CT(CSkip(h), CSized(sign, "char")))
    [] ~CIs(h, {"_Complex", "void", "char"}) /\ ((short /\ sign = "") \/ CIs(h, {"short"})) ->
         CSuffixed(CT(COpt(COpt(h, {"short"}), {"int"}), CBasic(IF sign = "unsigned" THEN "unsigned int" ELSE "short")))
    [] OTHER ->
         CASE CIs(h, {"int"}) \/ (sign # "" /\ ~short /\ longs = 0) ->
                CSuffixed(CT(COpt(h, {"int"}), CSized(sign, "int")))
           [] ~CIs(h, {"int"}) /\ longs > 0 -> CSuffixed(CLong(h, sign, longs))
           [] OTHER ->
                CASE CIs(h, {"float"}) -> CSuffixed(CT(CSkip(h), CBasic("single")))
                  [] CIs(h, {"double"}) -> CSuffixed(CT(CSkip(h), CBasic("double")))
                  [] CIs(h, {"bool", "_Bool"}) -> CSuffixed(CT(CSkip(h), CBasic("bool")))
                  [] CIs(h, {"struct", "union"}) -> CTagged(h, CClass("__anonymous"))
                  [] CIs(h, {"enum"}) -> CTagged(h, Leaf("enum", "__anonymous"))
                  [] CNamed(h) -> CNamedType(h)
                  [] OTHER -> CT(h, CUnknown)

CTypeFrom(h) ==
  LET a == CModifiers(h)
      sign == IF CIs(a, {"signed", "unsigned"}) THEN CCur(a) ELSE ""
      b == COpt(a, {"signed", "unsigned"})
      c == COpt(b, {"short"})
      d == CWhile(c, {"long"})
      longs == Len(c.toks) - Len(d.toks)
  IN  IF CStarInParens(d) THEN CFnPointer(CSkip(d))
      ELSE CSpecified(CNoPointer(d), sign, CIs(b, {"short"}), longs)

\* The pointers of a type are its depth, and those who declare with it add them again.
CDeclared(t) == IF t.k = "func" THEN t ELSE [t EXCEPT !.a = @ \o @]
CVar(name, t) == Node("var", name, <<CDeclared(t)>>)

-----------------------------------------------------------------------------
(***************************************************************************)
(* Functions.  What the reader takes for the name of a macro is read over  *)
(* with its arguments.                                                     *)
(***************************************************************************)
Wrapped(h) == CIs(h, CWrappers) /\ CAhead(h, 2) = "(" /\ CName(CAhead(h, 3)) /\ CAhead(h, 4) \in {"(", ",", ")"}

CDefault(h) == IF CIs(h, {"="}) THEN CUntil(CSkip(h), {",", ")"}) ELSE h
RECURSIVE CParams(_)
CNext(h, got) ==
  IF ~CIs(h, {","}) THEN CL(h, got)
  ELSE IF CAhead(h, 2) = "..." THEN CL(CSkip(CSkip(h)), Append(got, CMore)) ELSE CParams(CL(CSkip(h), got))
CParam(l, r) ==
  LET name == IF CNamed(r.h) THEN CCur(r.h) ELSE ""
      q == COptName(r.h)
  IN  IF CIs(q, {")"}) /\ l.a = <<>> /\ (r.t.k = "func" \/ r.t = CBasic("void")) THEN CL(q, <<>>)
      ELSE CNext(CDefault(CArrays(q)), Append(l.a, Node("param", name, <<CDeclared(r.t)>>)))
CFortified(l, r) ==
  LET q == COpt(CModifiers(COpt(r.h, {","})), {","})
      end == COpt(COpt(CSeek(q, {")"}), {")"}), {","})
  IN  CParams(CL(end, Append(l.a, Node("param", IF CNamed(q) THEN CCur(q) ELSE "", <<CDeclared(r.t)>>))))
CParams(l) ==
  LET h == CModifiers(l.h)
  IN  CASE CIs(l.h, {")"}) \/ l.h.err -> l
        [] ~CIs(l.h, {")"}) /\ ~l.h.err /\ CIs(l.h, {"..."}) -> CL(CSkip(l.h), Append(l.a, CMore))
        [] OTHER ->
             CASE CIs(h, {"__fortify_clang_overload_arg"}) -> CFortified(l, CType(CEat(CSkip(h), "(")))
               [] ~CIs(h, {"__fortify_clang_overload_arg"}) /\ CNamed(h) /\ CAhead(h, 2) = "(" /\ CAhead(h, 3) # "*" ->
                    CParams(CL(COpt(CParens(CSkip(h)), {","}), l.a))
               [] OTHER -> CParam(l, CType(h))
CParameters(h) ==
  LET l == CParams(CL(COpt(h, {"("}), <<>>)) IN CL(IF CIs(h, {"("}) THEN COpt(l.h, {")"}) ELSE l.h, l.a)
CParameterList(h) ==
  IF ~CIs(h, {"("}) THEN CL(h, <<>>)
  ELSE LET l == IF CAhead(h, 2) = ")" THEN CL(CSkip(h), <<>>) ELSE CParameters(CSkip(h)) IN CL(CEat(l.h, ")"), l.a)

\* What follows the parameters.  A body is read over.
CAfter(h, wrapped) ==
  LET q == CModifiers(IF wrapped THEN COpt(IF h.err THEN h ELSE CSeek(h, {")", ";", "{"}), {")"}) ELSE h)
  IN  IF CIs(q, {"{"}) THEN CBody(q) ELSE COpt(q, {";"})
CFuncOf(name, type, real, l, wrapped) ==
  CL(CAfter(l.h, wrapped), <<Node("extern func", name, <<type, Leaf("real name", real), Node("params", "", l.a)>>)>>)
CFuncNamed(h, type, real) ==
  CASE Wrapped(h) -> CFuncOf(CAhead(h, 3), type, real, CListed(COpt(CSkip(CSkip(CSkip(h))), {","})), TRUE)
    [] ~Wrapped(h) /\ CNamed(h) -> CFuncOf(CCur(h), type, real, CListed(CSkip(h)), FALSE)
    [] OTHER -> CL(CFail(h), <<>>)

\* A type that is not known is int, and its error is forgotten.
CResult(r) == IF r.t = CUnknown THEN CT([r.h EXCEPT !.err = FALSE], CBasic("int")) ELSE r
CFuncAs(h, type) ==
  IF ~CIs(h, {"as"}) THEN CFuncNamed(CModifiers(h), type, "")
  ELSE CFuncNamed(CModifiers(COptName(CSkip(h))), type, IF CName(CAhead(h, 2)) THEN CAhead(h, 2) ELSE "")
CFunction(h) == LET r == CResult(CType(CModifiers(h))) IN CFuncAs(CModifiers(r.h), r.t)

-----------------------------------------------------------------------------
(***************************************************************************)
(* Structs and unions.  There is one reader for those that are declared,   *)
(* one for those in a typedef, and three for what is nested in them.       *)
(***************************************************************************)
CStatics   == {"static", "inline", "virtual", "explicit", "constexpr"}
CAccess    == {"public", "protected", "private"}
CBits(h)   == IF ~CIs(h, {":"}) THEN h ELSE COpt(CSkip(h), Range(Numerals))
CTrailing(h) == CBits(CNames(CArrays(h)))
CParensOpt(h) == IF CIs(h, {"("}) THEN CParens(h) ELSE h
CBodyOrEnd(h) == IF CIs(h, {"{"}) THEN CBody(h) ELSE COpt(h, {";"})

\* An unknown type is an error, and an error ends all loops over members.
CUnknownMember(h) == COpt(CFail(h), {";"})

\* What is between a member and the next that is not understood.
CToNext(h) == IF CIs(h, {";"}) THEN CSkip(h) ELSE COpt(CUntil(h, {";", "}", ","}), {";", ","})

RECURSIVE CDeepest(_)
\* The members two levels down, one name to a type.
CDeepMember(l, r) ==
  LET name == IF CNamed(r.h) THEN <<CVar(CCur(r.h), r.t)>> ELSE <<>>
  IN  IF r.t = CUnknown THEN CDeepest(CL(CUnknownMember(r.h), l.a))
      ELSE CDeepest(CL(COpt(CBits(CArrays(COptName(r.h))), {";"}), l.a \o name))
CDeepest(l) ==
  IF CIs(l.h, {"}"}) \/ l.h.err THEN l ELSE CDeepMember(l, CType(CWhile(l.h, CQualifiers \cup {"__extension__"})))
CNestedIn(h, t) == LET l == CDeepest(CL(CSkip(h), <<>>)) IN CL(CEat(l.h, "}"), <<Node("struct", t.t, <<Block(l.a)>>)>>)

(* What is nested in a struct is read and lost: the list that its members, *)
(* the variable behind it and it itself are put in is its own.             *)
RECURSIVE CNameList(_), CCommas(_), CLost(_)
CNameList(h) == IF ~CNamed(h) THEN h ELSE IF CAhead(h, 2) = "," THEN CNameList(CSkip(CSkip(h))) ELSE CSkip(h)
CCommas(h)   == IF CIs(h, {","}) THEN CCommas(COptName(CSkip(h))) ELSE h
CAfterNested(h) == COpt(CCommas(h), {";"})
CLostEnd(h)  == IF CIs(h, {","}) THEN COpt(CNameList(CSkip(h)), {";"}) ELSE CToNext(h)
COpens(r)    == r.t.k = "class" /\ CIs(r.h, {"{"})
CLostMember(r) ==
  CASE r.t = CUnknown -> CUnknownMember(r.h)
    [] COpens(r) -> CAfterNested(CNestedIn(r.h, r.t).h)
    [] OTHER -> CLostEnd(IF CNamed(r.h) THEN CTrailing(CSkip(r.h)) ELSE r.h)
CLost(h) ==
  IF CIs(h, {"}"}) \/ h.err THEN h ELSE CLost(CLostMember(CType(CWhile(h, CQualifiers \cup {"__extension__"}))))
CNestedLost(h) == CAfterNested(COptName(CEat(CLost(CSkip(h)), "}")))

RECURSIVE CSeveral(_, _), CStarred(_, _)
CStarred(h, n) == IF CIs(h, {"*"}) THEN CStarred(CSkip(h), n + 1) ELSE [h |-> h, n |-> n]
CAnother(l, s, t) ==
  IF ~CNamed(s.h) THEN CSeveral(CL(s.h, l.a), t)
  ELSE CSeveral(CL(CNames(CArrays(CSkip(s.h))),
                   Append(l.a, Node("var", CCur(s.h), <<[CDeclared(t) EXCEPT !.a = @ \o CStars(s.n)]>>))), t)
CSeveral(l, t) == IF CIs(l.h, {","}) THEN CAnother(l, CStarred(CSkip(l.h), 0), t) ELSE CL(COpt(l.h, {";"}), l.a)

\* The members of a struct or class; those of C++ that are no data are read over.
RECURSIVE CMembers(_, _)
CMethod(h)      == CBodyOrEnd(CUntil(CParens(h), {";", "{"}))
CDestructor(h)  == LET q == COptName(CSkip(h)) IN COpt(IF CIs(q, {"("}) THEN CParens(q) ELSE q, {";"})
CConstructor(h) ==
  LET q == CWhile(CParens(h), {"const", "volatile", "noexcept", "override"})
  IN  CBodyOrEnd(IF CIs(q, {":"}) THEN CUntil(CSkip(q), {"{", ";"}) ELSE q)
CMemberOf(l, r) ==
  CASE r.t = CUnknown -> CL(CUnknownMember(r.h), l.a)
    [] COpens(r) -> CL(CNestedLost(r.h), l.a)
    [] OTHER ->
         CASE CNamed(r.h) /\ CAhead(r.h, 2) = "(" -> CL(CMethod(CSkip(r.h)), l.a)
           [] CNamed(r.h) /\ CAhead(r.h, 2) # "(" ->
                CSeveral(CL(CTrailing(CSkip(r.h)), Append(l.a, CVar(CCur(r.h), r.t))), r.t)
           [] OTHER -> CSeveral(CL(r.h, l.a), r.t)
CMembers(l, name) ==
  LET label == CIs(l.h, CAccess) /\ CAhead(l.h, 2) = ":"
      h == CWhile(COpt(l.h, CAccess), CQualifiers \cup {"__extension__"} \cup CStatics)
  IN  CASE CIs(l.h, {"}"}) \/ l.h.err -> l
        [] ~CIs(l.h, {"}"}) /\ ~l.h.err /\ label -> CMembers(CL(CSkip(CSkip(l.h)), l.a), name)
        [] OTHER ->
             CASE CIs(h, {"~"}) -> CMembers(CL(CDestructor(h), l.a), name)
               [] CNamed(h) /\ CIs(h, {name}) /\ CAhead(h, 2) = "(" -> CMembers(CL(CConstructor(CSkip(h)), l.a), name)
               [] OTHER -> CMembers(CMemberOf(l, CType(h)), name)

RECURSIVE CBases(_)
CBases(h)   == IF CIs(h, {","}) THEN CBases(CUntil(CSkip(h), {"{", ";", ","})) ELSE h
CParent(h)  ==
  LET q == CWhile(CSkip(h), {"const", "volatile", "virtual"} \cup CAccess)
  IN  IF ~CIs(h, {":"}) THEN CT(h, "")
      ELSE IF CNamed(q) THEN CT(CBases(CAngles(CSkip(q))), CCur(q)) ELSE CT(CBases(q), "")
CStructNode(name, parent, body) == Node("struct", name, <<Leaf("is", parent), body>>)
CStructEnd(l, name, parent) ==
  LET h == CEat(l.h, "}")
      node == CStructNode(name, parent, Block(l.a))
  IN  IF CNamed(h) THEN CL(CEat(CArrays(CSkip(h)), ";"), <<node, CVar(CCur(h), CClass(name))>>)
      ELSE CL(CEat(h, ";"), <<node>>)
CStructFrom(b, name) ==
  IF CIs(b.h, {"{"}) THEN CStructEnd(CMembers(CL(CSkip(b.h), <<>>), name), name, b.t)
  ELSE CL(CEat(b.h, ";"), <<CStructNode(name, b.t, None)>>)
CTagOf(h) == IF CNamed(h) THEN CCur(h) ELSE ""
CStruct(h) == LET q == CSkip(h) IN CStructFrom(CParent(COptName(q)), CTagOf(q))

-----------------------------------------------------------------------------
(***************************************************************************)
(* Enums and typedefs.                                                     *)
(***************************************************************************)
RECURSIVE CEntries(_, _), CUntilValue(_)
\* Of a value only a number in front is read.
CUntilValue(h) ==
  CASE h.err \/ CIs(h, {",", "}"}) -> h
    [] CIs(h, {"eof"}) -> [CFail(h) EXCEPT !.stuck = "hangs"]
    [] OTHER -> CUntilValue(IF CIs(h, {"("}) THEN CParens(h) ELSE CSkip(h))
CEntryValue(h, next) ==
  IF ~CIs(h, {"="}) THEN [h |-> h, v |-> next]
  ELSE [h |-> CUntilValue(CSkip(h)),
        v |-> IF CAhead(h, 2) \in Range(Numerals) THEN Value(Leaf("num", CAhead(h, 2))) ELSE next]
CEntry(l, name, e) ==
  LET a == Append(l.a, Node("entry", name, Count(e.v)))
  IN  IF CIs(e.h, {","}) THEN CEntries(CL(CSkip(e.h), a), e.v + 1) ELSE CL(e.h, a)
CEntries(l, next) ==
  CASE CIs(l.h, {"}"}) \/ l.h.err -> l
    [] ~CIs(l.h, {"}"}) /\ ~l.h.err /\ ~CNamed(l.h) -> CL(CFail(l.h), l.a)
    [] OTHER ->
         IF CAhead(l.h, 2) = "(" THEN CEntries(CL(COpt(CParens(CSkip(l.h)), {","}), l.a), next)
         ELSE CEntry(l, CCur(l.h), CEntryValue(CSkip(l.h), next))
CEnumEnd(l, name) ==
  LET h == CEat(l.h, "}")
      known == IF name = "" THEN CTagOf(h) ELSE name
      q == IF CNamed(h) THEN CRegister(CSkip(h), CCur(h), Leaf("enum", known)) ELSE h
  IN  CL(COpt(q, {";"}), <<Node("enum", known, l.a)>>)
CEnumFrom(h, name) ==
  IF CIs(h, {"{"}) THEN CEnumEnd(CEntries(CL(CSkip(h), <<>>), 0), name)
  ELSE CL(CEat(h, ";"), <<Node("enum", name, <<>>)>>)
CEnum(h) ==
  LET q == COpt(CSkip(h), {"struct", "union", "class"})
      r == COptName(q)
  IN  CEnumFrom(IF CIs(r, {":"}) THEN CUntil(CSkip(r), {"{", ";"}) ELSE r, CTagOf(q))

\* The struct of a typedef: the first name of a member is the only one that is read.
RECURSIVE CFields(_)
CInner(l, n, name) ==
  LET q == COptName(n.h)
  IN  CL(CToNext(q), l.a \o (IF CNamed(n.h) THEN <<CVar(CCur(n.h), CClass(name))>> ELSE <<>>) \o n.a)
CField(l, r) ==
  CASE r.t # CUnknown /\ CNamed(r.h) ->
         CL(CToNext(CNames(CArrays(CSkip(r.h)))), Append(l.a, CVar(CCur(r.h), r.t)))
    [] COpens(r) -> CInner(l, CNestedIn(r.h, r.t), r.t.t)
    [] OTHER -> CL(CToNext(r.h), l.a)
CFields(l) ==
  IF CIs(l.h, {"}"}) \/ l.h.err THEN l ELSE CFields(CField(l, CType(CWhile(l.h, {"const", "volatile"}))))
CGivenName(h, t) == IF CNamed(h) THEN CRegister(CSkip(h), CCur(h), t) ELSE h
CTypedefEnd(l, name) ==
  CL(CEat(CGivenName(CEat(l.h, "}"), CClass(name)), ";"), <<CStructNode(name, "", Block(l.a))>>)
CTypedefStruct(h, tag) ==
  LET s == CPointers(h, 0)
      t == [CClass(IF tag = "" THEN "__unknown" ELSE tag) EXCEPT !.a = CStars(s.n)]
  IN  IF CIs(h, {"{"}) THEN CTypedefEnd(CFields(CL(CSkip(h), <<>>)), IF tag = "" THEN "__anon_typedef" ELSE tag)
      ELSE CL(CEat(CGivenName(s.h, t), ";"), <<>>)

\* Whatever stands in parentheses behind the name of a type, up to the end of the declaration.
CToEnd(h) == IF CIs(h, {"("}) /\ ~h.err THEN CGroup(h, "(", ")", {";", "eof"}, 1) ELSE h
CTypedefOf(r) ==
  LET q == CToEnd(CArrays(COptName(r.h)))
      g == IF CNamed(r.h) THEN CRegister(q, CCur(r.h), CDeclared(r.t)) ELSE CToEnd(r.h)
  IN  CL(COpt(CModifiers(g), {";"}), <<>>)
CStandalone(h) ==
  CAhead(h, 2) \in {"{", ":", "__attribute__"} \/ (CName(CAhead(h, 2)) /\ CAhead(h, 3) \in {"{", ";", ":", "__attribute__"})
CTypedef(h) ==
  CASE CIs(h, {"enum"}) /\ CStandalone(h) -> CEnum(h)
    [] CIs(h, {"struct", "union"}) /\ CStandalone(h) -> CTypedefStruct(COptName(CSkip(h)), CTagOf(CSkip(h)))
    [] OTHER -> CTypedefOf(CType(h))

-----------------------------------------------------------------------------
(***************************************************************************)
(* Declarations.                                                           *)
(***************************************************************************)
CVarFrom(h, t) ==
  LET q == COpt(CSeek(CModifiers(COptName(h)), {";"}), {";"})
  IN  CL(q, IF CNamed(h) THEN <<Node("extern var", CCur(h), <<CDeclared(t)>>)>> ELSE <<>>)
CVariable(h) == LET r == CType(CModifiers(h)) IN CVarFrom(CModifiers(r.h), r.t)

\* A declaration is a function's when its type is followed by a name and a parenthesis.
CIsFunction(h) == LET q == CModifiers(CType(CModifiers(h)).h) IN CNamed(q) /\ CAhead(q, 2) = "("

RECURSIVE CDeclarations(_, _), CSpaceNames(_)
\* Declarations up to stop; one with an error is left out up to its end.
CResumed(h, stop) == [COpt(CSeek(h, stop \cup {";"}), {";"}) EXCEPT !.err = FALSE]
\* Mutant of CRound: the end of the declaration is looked for without an error as well.
CRound_Resumes(l, stop) ==
  LET d == CDeclaration(l.h) IN CL(IF d.a = <<>> THEN CResumed(d.h, stop) ELSE d.h, l.a \o d.a)
CRound(l, stop) ==
  LET d == CDeclaration(l.h)
  IN  CL(IF d.a = <<>> /\ d.h.err THEN CResumed(d.h, stop) ELSE d.h, l.a \o d.a)
CDeclarations(l, stop) == IF CIs(l.h, stop \cup {"eof"}) \/ l.h.stuck # "" THEN l ELSE CDeclarations(CRound(l, stop), stop)
CSpaceNames(h) == IF CNamed(h) \/ CIs(h, {":"}) THEN CSpaceNames(CSkip(h)) ELSE h
CNamespace(h) == LET l == CDeclarations(CL(CSkip(h), <<>>), {"}"}) IN CL(COpt(l.h, {"}"}), l.a)
CPlainly(h) == LET q == [h EXCEPT !.err = FALSE] IN IF CIsFunction(q) THEN CFunction(q) ELSE CVariable(q)
CSpace(h) ==
  CASE CIs(h, {"{"}) -> CNamespace(h) [] CIs(h, {";"}) -> CL(CSkip(h), <<>>) [] OTHER -> CPlainly(h)
CFrom(h) ==
  CASE CIs(h, {"eof"}) -> CL(h, <<>>)
    [] CIs(h, {"}", ";"}) -> CL(CSkip(h), <<>>)
    [] CIs(h, {"{"}) -> CL(CBody(h), <<>>)
    [] CIs(h, {"typedef"}) -> CTypedef(CSkip(h))
    [] CIs(h, {"enum"}) /\ CStandalone(h) -> CEnum(h)
    [] CIs(h, {"struct", "union", "class"}) /\ CStandalone(h) -> CStruct(h)
    [] CIs(h, {"namespace"}) -> CSpace(CSpaceNames(CSkip(h)))
    [] CIs(h, {"using"}) -> CL(COpt(CSeek(h, {";"}), {";"}), <<>>)
    [] CIs(h, {"template"}) -> CDeclaration(CAngles(CSkip(h)))
    [] OTHER -> CPlainly(h)

CParse(rule, h) ==
  CASE rule = "type" -> CTypeFrom(h)
    [] rule = "modifiers" -> CSomeModifiers(h)
    [] rule = "listed" -> CParameterList(h)
    [] rule = "header" -> CDeclarations(CL(h, <<>>), {})
    [] rule = "declaration" -> CFrom(CModifiers([h EXCEPT !.err = FALSE]))
=============================================================================
