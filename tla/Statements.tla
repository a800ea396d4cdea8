----------------------------- MODULE Statements -----------------------------
(***************************************************************************)
(* Statements of the Alkyl language, and what a programmer expects of      *)
(* them.  A statement is a record of one shape: its kind, the name or      *)
(* condition it carries, and two lists of statements (a body and an else   *)
(* branch; the cases of a switch and its default).  The second half is a   *)
(* reference meaning, the measure the lowered code is held against: it     *)
(* runs a statement list with no labels, no blocks and no jumps.           *)
(***************************************************************************)
EXTENDS Integers, Sequences, SequencesExt

Node(kind, name, body, other) ==
  [kind |-> kind, name |-> name, body |-> body, other |-> other]

CallStmt(f)        == Node("call", <<f>>, <<>>, <<>>)
If(c, then, else)  == Node("if", <<c>>, then, else)
While(c, body)     == Node("while", <<c>>, body, <<>>)
WhileOnce(c, body) == Node("once", <<c>>, body, <<>>)
Loop(n, body)      == Node("loop", <<n>>, body, <<>>)
ForIn(i, body)     == Node("for", <<i>>, body, <<>>)
Switch(s, cases, default) == Node("switch", <<s>>, cases, default)
Case(v, body)      == Node("case", <<v>>, body, <<>>)
LeakCase(v, body)  == Node("leak", <<v>>, body, <<>>)
Defer(body)        == Node("defer", <<>>, body, <<>>)
Meta(body)         == Node("meta", <<>>, body, <<>>)
Break    == Node("break", <<>>, <<>>, <<>>)
Continue == Node("continue", <<>>, <<>>, <<>>)
Return   == Node("return", <<>>, <<>>, <<>>)
Purge    == Node("purge", <<>>, <<>>, <<>>)

\* A case with several values, as parse_switch builds it: the values before
\* the last get a case of their own, with no body and the leak mark.
Cases(values, body) ==
  [i \in 1..Len(values) |->
     IF i < Len(values) THEN LeakCase(values[i], <<>>)
                        ELSE Case(values[i], body)]

\* The test "s equals v" of a switch; on a literal scrutinee, a constant.
Test(s, v) ==
  IF s[1] \in {"0", "1"}
  THEN IF s[1] = v[1] THEN <<"1?">> ELSE <<"0?">>
  ELSE <<"eq">> \o s \o v

-----------------------------------------------------------------------------
(***************************************************************************)
(* The reference meaning.  A configuration is what is left to do and the   *)
(* bodies deferred so far.  "again" marks the end of a loop's body and     *)
(* holds what the loop does next; "end" the end of a switch.               *)
(***************************************************************************)
Again(rest) == Node("again", <<>>, rest, <<>>)
EndSwitch   == Node("end", <<>>, <<>>, <<>>)
Finish      == Node("finish", <<>>, <<>>, <<>>)

Known(c) == c \in {<<"0">>, <<"1">>, <<"0?">>, <<"1?">>}
Holds(c) == c \in {<<"1">>, <<"1?">>}

\* What is left after the innermost loop (or switch) is left, and what is
\* left when its next round begins.
Left(todo) ==
  SubSeq(todo, SelectInSeq(todo, LAMBDA s : s.kind \in {"again", "end"}) + 1, Len(todo))
NextRound(todo) ==
  SubSeq(todo, SelectInSeq(todo, LAMBDA s : s.kind = "again"), Len(todo))

\* The bodies a case runs: its own and, from a leaking case, those below it.
Bodies(cases, default) ==
  LET last  == SelectInSeq(cases, LAMBDA c : c.kind # "leak")
      these == IF last = 0 THEN cases ELSE SubSeq(cases, 1, last)
  IN  FlattenSeq([i \in DOMAIN these |-> these[i].body])
        \o (IF last = 0 THEN default ELSE <<>>)

AllDeferred(deferred) == FlattenSeq(Reverse(deferred))

\* The test a statement begins with, <<>> when it begins with none.
Asks(s) ==
  CASE s.kind \in {"if", "while"} -> s.name
    [] s.kind = "rounds" -> <<"more">> \o s.name
    [] s.kind = "switch" /\ s.body # <<>> -> Test(s.name, Head(s.body).name)
    [] OTHER -> <<>>

\* What a statement with a test turns into, by the test's outcome.
Chosen(s, yes) ==
  CASE s.kind = "if"     -> IF yes THEN s.body ELSE s.other
    [] s.kind = "while"  -> IF yes THEN s.body \o <<Again(<<s>>)>> ELSE <<>>
    [] s.kind = "rounds" ->
         IF yes THEN s.body \o <<Again(s.other \o <<s>>)>> ELSE <<>>
    [] s.kind = "switch" ->
         IF yes THEN Bodies(s.body, s.other) \o <<EndSwitch>>
                ELSE <<[s EXCEPT !.body = Tail(s.body)]>>

\* A statement that an observer does not see, and what is left after it.
Unseen(k) ==
  k.todo = <<>> \/ LET s == Head(k.todo)
                   IN  IF Asks(s) # <<>> THEN Known(Asks(s))
                       ELSE s.kind \notin {"call", "purge", "finish"}

Proceed(k) ==
  IF k.todo = <<>>
  THEN [k EXCEPT !.todo = AllDeferred(k.deferred) \o <<Finish>>]
  ELSE
  LET s    == Head(k.todo)
      rest == Tail(k.todo)
      Do(stmts) == [k EXCEPT !.todo = stmts \o rest]
  IN  CASE Asks(s) # <<>>       -> Do(Chosen(s, Holds(Asks(s))))
        [] s.kind = "once"      -> Do(s.body \o <<Again(<<While(s.name[1], s.body)>>)>>)
        [] s.kind = "loop"      -> Do(<<Node("rounds", s.name, s.body, <<>>)>>)
        [] s.kind = "for"       ->
             Do(<<Node("call", <<"init">> \o s.name, <<>>, <<>>),
                  Node("rounds", s.name, s.body,
                       <<Node("call", <<"step">> \o s.name, <<>>, <<>>)>>)>>)
        [] s.kind = "switch"    -> Do(s.other \o <<EndSwitch>>)
        [] s.kind = "again"     -> Do(s.body)
        [] s.kind = "break"     -> [k EXCEPT !.todo = Left(rest)]
        [] s.kind = "continue"  -> [k EXCEPT !.todo = NextRound(rest)]
        [] s.kind = "return"    ->
             [k EXCEPT !.todo = AllDeferred(k.deferred) \o <<Finish>>]
        [] s.kind = "defer"     ->
             [todo |-> rest, deferred |-> Append(k.deferred, s.body)]
        [] OTHER                -> Do(<<>>)

Rest(k, Patience) ==
  LET walk[n \in 0..Patience] ==
        IF n = 0 THEN k
        ELSE LET j == walk[n - 1] IN IF Unseen(j) THEN Proceed(j) ELSE j
  IN  walk[Patience]

Begin(program, Patience) == Rest([todo |-> program, deferred |-> <<>>], Patience)

Expects(k) ==
  IF Unseen(k) THEN {<<"hang">>}
  ELSE LET s == Head(k.todo)
       IN  IF Asks(s) # <<>> THEN {<<"yes">> \o Asks(s), <<"no">> \o Asks(s)}
           ELSE CASE s.kind = "call"   -> {<<"call">> \o s.name}
                  [] s.kind = "purge"  -> {<<"panic">>}
                  [] s.kind = "finish" -> {<<"ret">>}

Observed(k, event, Patience) ==
  LET s == Head(k.todo)
  IN  Rest([k EXCEPT !.todo =
              (IF Asks(s) = <<>> THEN <<>> ELSE Chosen(s, Head(event) = "yes"))
                \o Tail(k.todo)], Patience)
=============================================================================
