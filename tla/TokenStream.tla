----------------------------- MODULE TokenStream -----------------------------
(***************************************************************************)
(* What the parser reads: the tokens of a file, the macros that replace    *)
(* some of them on the way, and the error state in which nothing is read   *)
(* any more until the parser has been brought back in step.  A token is a  *)
(* kind, the text, and whether it follows the token before it directly.    *)
(* Programs stand on one line, so that lines decide nothing.               *)
(***************************************************************************)
EXTENDS Integers, Sequences, FiniteSets, SequencesExt

CONSTANTS Words,      \* the identifiers of the programs
          Files,      \* the names of files that stand in quotes
          Numerals    \* sequence of the numbers, from 0 on, as they are written

Tight == "_"          \* written before a token that no blank precedes
KindOf(s) ==
  IF s \in Words THEN "id" ELSE IF s \in Files THEN "str"
  ELSE IF \E i \in DOMAIN Numerals : Numerals[i] = s THEN "num" ELSE s
Token(s, tight) == [k |-> KindOf(s), s |-> s, tight |-> tight]
Eof == [k |-> "eof", s |-> "", tight |-> FALSE]

\* The tokens of what is written.
Tokens(written) ==
  LET at == SelectSeq([i \in DOMAIN written |-> i], LAMBDA i : written[i] # Tight)
  IN  [j \in DOMAIN at |-> Token(written[at[j]], at[j] > 1 /\ written[at[j] - 1] = Tight)]

(* The state of a parser.  `stuck' is "hangs" when a loop would go round   *)
(* for ever, "crashes" when a pointer that may be null is followed; `told'  *)
(* says whether the error has been reported, or one before it.             *)
Fresh(tokens) ==
  [toks |-> Append(tokens, Eof), pos |-> 1, cur |-> Eof, exp |-> <<>>, made |-> 0,
   macros |-> <<>>, types |-> {}, enums |-> {}, aliases |-> {}, space |-> "main", literal |-> FALSE,
   spaced |-> 0, err |-> FALSE, told |-> "no", stuck |-> ""]

Say(p)     == [p EXCEPT !.err = TRUE, !.told = "now"]
Crashed(p) == IF p.stuck = "" THEN [p EXCEPT !.err = TRUE, !.stuck = "crashes"] ELSE p
Is(p, S)   == p.cur.k \in S

(* The rounds of a loop: one that changes nothing is repeated for ever.    *)
Round(p, q) == IF q = p THEN [p EXCEPT !.err = TRUE, !.stuck = "hangs"] ELSE q

-----------------------------------------------------------------------------
(***************************************************************************)
(* Fetching.  Expansions are read before the tokens of the file.           *)
(***************************************************************************)
RECURSIVE Fetch(_)
Fetch(p) ==
  IF p.exp = <<>>
  THEN IF p.pos > Len(p.toks) THEN [p |-> p, t |-> Eof]
       ELSE [p |-> [p EXCEPT !.pos = @ + 1], t |-> p.toks[p.pos]]
  ELSE IF p.exp[1].pos > Len(p.exp[1].toks) THEN Fetch([p EXCEPT !.exp = Tail(@)])
       ELSE [p |-> [p EXCEPT !.exp[1].pos = @ + 1], t |-> p.exp[1].toks[p.exp[1].pos]]

\* The n-th token ahead, not expanded; 1 is the next.
PeekAt(p, n) ==
  IF p.exp # <<>> /\ p.exp[1].pos + n - 1 <= Len(p.exp[1].toks)
  THEN p.exp[1].toks[p.exp[1].pos + n - 1]
  ELSE IF p.pos + n - 1 <= Len(p.toks) THEN p.toks[p.pos + n - 1] ELSE Eof
Peek(p) == PeekAt(p, 1)

\* The token behind the parenthesis that closes the current one.
RECURSIVE Closing(_, _, _)
Closing(ts, i, depth) ==
  IF depth = 0 \/ i > Len(ts) THEN IF i > Len(ts) THEN Eof ELSE ts[i]
  ELSE Closing(ts, i + 1, IF ts[i].k = "(" THEN depth + 1 ELSE IF ts[i].k = ")" THEN depth - 1 ELSE depth)
PastParens(p) ==
  IF p.exp = <<>> THEN Closing(p.toks, p.pos, 1) ELSE Closing(p.exp[1].toks, p.exp[1].pos + 1, 1)

-----------------------------------------------------------------------------
(***************************************************************************)
(* Macros.                                                                 *)
(***************************************************************************)
Defined(p, name) == {i \in DOMAIN p.macros : p.macros[i].name = name}
Macro(p, name)   == p.macros[CHOOSE i \in Defined(p, name) : \A j \in Defined(p, name) : i <= j]
Expanding(p, name) == \E i \in DOMAIN p.exp : p.exp[i].name = name

\* The tokens of one argument, up to the comma or parenthesis that ends it.
RECURSIVE Argument(_, _, _, _)
Argument(f, last, depth, got) ==
  CASE f.t.k = "eof" -> [p |-> Say(f.p), a |-> got]
    [] depth = 0 /\ f.t.k = (IF last THEN ")" ELSE ",") -> [p |-> f.p, a |-> got]
    [] OTHER -> Argument(Fetch(f.p), last,
                         depth + (CASE f.t.k = "(" -> 1 [] f.t.k = ")" -> -1 [] OTHER -> 0),
                         Append(got, f.t))

RECURSIVE Arguments(_, _, _)
Arguments(p, n, got) ==
  IF p.stuck = "" /\ Len(got) < n
  THEN LET r == Argument(Fetch(p), Len(got) = n - 1, 0, <<>>)
       IN  IF r.p.err THEN [p |-> r.p, a |-> got] ELSE Arguments(r.p, n, Append(got, r.a))
  ELSE [p |-> p, a |-> got]

\* The body with the arguments in place of the parameters.
Filled(m, args) ==
  FlattenSeq([i \in DOMAIN m.body |->
    IF \E k \in DOMAIN m.params : m.params[k] = m.body[i].s
    THEN args[CHOOSE k \in DOMAIN m.params : m.params[k] = m.body[i].s] ELSE <<m.body[i]>>])

Push(p, m, args) ==
  [p EXCEPT !.exp = <<[toks |-> Filled(m, args), pos |-> 1, name |-> m.name, id |-> p.made]>> \o @,
            !.made = @ + 1]

RECURSIVE Expand(_, _)
Expand(p, t) ==
  IF p.literal \/ t.k # "id" \/ Defined(p, t.s) = {} \/ Expanding(p, t.s) THEN [p EXCEPT !.cur = t]
  ELSE LET m == Macro(p, t.s)
           open == Fetch(p)
           args == IF m.params = <<>> THEN [p |-> p, a |-> <<>>]
                   ELSE IF open.t.k # "(" THEN [p |-> Say(open.p), a |-> <<>>]
                   ELSE Arguments(open.p, Len(m.params), <<>>)
           f == Fetch(Push(args.p, m, args.a))
       IN  IF args.p.err THEN [args.p EXCEPT !.cur = t] ELSE Expand(f.p, f.t)

NextToken(p) == LET f == Fetch(p) IN Expand(f.p, f.t)

-----------------------------------------------------------------------------
(***************************************************************************)
(* The names of types: with the namespace and without it.                  *)
(***************************************************************************)
Registered(p, name, enum) ==
  LET both == {name, p.space \o "." \o name}
  IN  [p EXCEPT !.types = @ \cup both, !.enums = IF enum THEN @ \cup both ELSE @ \ both]

\* What a declaration's names are before anything is parsed.
Announced(p, words) ==
  UNION {{p.toks[i].s, p.space \o "." \o p.toks[i].s} :
         i \in {i \in 2..Len(p.toks) : p.toks[i].k = "id" /\ p.toks[i - 1].k \in words}}
Prescan(p) ==
  [p EXCEPT !.types = @ \cup Announced(p, {"class", "struct", "union", "enum"}), !.enums = @ \cup Announced(p, {"enum"})]

\* Another name for a type; a name given twice is the later one.
AliasesOf(p, name)     == {x \in p.aliases : x.name = name}
Aliased(p, name, type) == [p EXCEPT !.aliases = (@ \ AliasesOf(p, name)) \cup {[name |-> name, type |-> type]}]
=============================================================================
