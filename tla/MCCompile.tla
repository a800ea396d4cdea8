----------------------------- MODULE MCCompile ------------------------------
(***************************************************************************)
(* Bodies of functions for Compile, built from the statements of the       *)
(* language: three calls, two run-time conditions, and every placement of  *)
(* the statements that leave a body.                                       *)
(***************************************************************************)
EXTENDS Compile

Checks == <<"switch_check_1", "switch_check_2", "switch_check_3">>

a == CallStmt("a")
b == CallStmt("b")
d == CallStmt("d")

\* How a body may end outside and inside a loop.
Ends   == {<<>>, <<Return>>, <<Purge>>}
InLoop == {<<Break>>, <<Continue>>} \cup Ends

\* An if in the middle of a body, one or both branches of which leave it.
Around(ifs) == {<<i, b>> : i \in ifs} \cup {<<b, i>> : i \in ifs}
Ifs(c, ends) == {If(c, t, e) : t \in ends \cup {<<a>>}, e \in ends \cup {<<a>>}}

LoopBodies ==
  {<<a>> \o e : e \in InLoop} \cup {<<Break, a>>} \cup Around(Ifs("p", InLoop))

Loops(bodies) ==
  {<<d, While("w", body), b>> : body \in bodies}
    \cup {<<While("w", body)>> : body \in bodies}
    \cup {<<While("v", <<a, While("w", body), d>>), b>> : body \in bodies}

\* Deferred statements run on every way out of the function.
Defers(bodies) ==
  {<<Defer(<<d>>), While("w", body), Defer(<<b>>)>> \o e :
     body \in bodies, e \in {<<>>, <<Return, a>>}}

\* Conditions known to the compiler, at once or after constant propagation.
KnownIfs ==
  UNION {Around(Ifs(c, Ends)) : c \in {"0", "1", "0?", "1?", "p"}}
    \cup {<<If("0?", <<Loop("n", <<a>>)>>, <<b>>)>>}

Body(e) == <<a>> \o e
Switches(s, ends) ==
  {Switch(s, <<>>, <<>>)}
    \cup {Switch(s, <<Case("0", Body(e))>>, f) : e \in ends, f \in ends}
    \cup {Switch(s, <<Case("0", Body(e)), Case("1", <<b>>), LeakCase("2", f)>>, <<d>>) :
            e \in ends, f \in ends}
    \cup {Switch(s, <<Case("0", <<>>), Case("1", e)>>, <<>>) : e \in ends}

SwitchPrograms ==
  {<<sw, b>> : sw \in (Switches("s", Ends) \cup Switches("1", Ends))
                        \ {Switch(s, <<>>, <<>>) : s \in {"s", "1"}}}
    \cup {<<While("w", <<sw, b>>)>> :
            sw \in Switches("s", {<<>>, <<Break>>, <<Return>>})
                     \ {Switch("s", <<>>, <<>>)}}

ForBodies ==
  {<<a>> \o e : e \in InLoop \ {<<Continue>>}}
    \cup Around(Ifs("p", {<<>>, <<Break>>, <<Return>>}))
    \cup {<<While("w", <<a, Continue>>)>>}

ForPrograms ==
  {<<ForIn("i", body), b>> : body \in ForBodies \cup {<<>>}}
    \cup {<<ForIn("j", <<ForIn("i", body)>>)>> : body \in ForBodies}

\* The programs on which the levels agree with the statements.
AllPrograms ==
  Loops(LoopBodies) \cup Defers(LoopBodies) \cup KnownIfs
    \cup SwitchPrograms \cup ForPrograms

\* Loops that are never left by their condition, or that do nothing: right
\* as long as blocks are not merged (levels 0 and 1).
ConstantLoops ==
  {<<d, While(c, body), b>> :
     c \in {"1", "1?", "0", "w"},
     body \in {<<>>, <<Continue>>, <<a>>, <<If("p", <<Break>>, <<>>), a>>,
               <<While("v", <<>>)>>, <<While("1", <<>>)>>}}

\* Whole statements are deferred, and a @meta block makes the label table start
\* again before the first label of the body is counted.
OddPrograms ==
  {<<Defer(<<If("p", <<a>>, <<b>>)>>), If("q", e, <<>>), d>> : e \in Ends}
    \cup {<<Meta(<<b>>), While("w", body), a>> : body \in LoopBodies}
    \cup {<<Defer(<<d>>), Meta(<<b, Return, Defer(<<b>>)>>), a>>}

\* What is compiled at which level.
AllJobs ==
  ((AllPrograms \cup OddPrograms) \X (0..3)) \cup (ConstantLoops \X (0..1))

-----------------------------------------------------------------------------
\* The statements the bodies are made of, and those after which the block at
\* hand is still open: what is proved of handled statements is about these.
Inner(stmts) == stmts \cup UNION {Range(s.body) \cup Range(s.other) : s \in stmts}

Parts ==
  LET parts[n \in 0..4] ==
        IF n = 0 THEN UNION {Range(job[1]) : job \in AllJobs} ELSE Inner(parts[n - 1])
  IN  parts[4]

Flowing ==
  {s \in Parts :
     /\ s.kind \in {"call", "if", "while", "loop", "for", "switch", "defer", "meta"}
     /\ ~(s.kind = "if" /\ s.name \in Literal)}

ASSUME ProgramsHandled == Inner(Parts) = Parts /\ Handled(Parts, Flowing)

-----------------------------------------------------------------------------
\* One program for each place where the code and what is said of it part.
ForContinue == {<<<<ForIn("i", <<If("p", <<Continue>>, <<>>), a>>)>>, 0>>}
SeveralValues == {<<<<Switch("s", Cases(<<"1", "2">>, <<a>>), <<b>>)>>, 0>>}
DeferredBlock == {<<<<Defer(<<a, b>>), d>>, 0>>}
CountedLoop == {<<<<Loop("n", <<a>>), b>>, 0>>}
EndlessLoop == {<<<<a, While("1", <<b>>)>>, 2>>}
ContinueInSwitch ==
  {<<<<While("w", <<Switch("s", <<Case("0", <<Continue>>)>>, <<>>), b>>)>>, 0>>}
OnceRejected == {<<<<a, WhileOnce("w", <<b>>)>>, 0>>}
LoopLeft == {<<<<Loop("n", <<a, Break>>)>>, 0>>}
EmptySwitch == {<<<<Switch("s", <<>>, <<a>>), b>>, 0>>}
DeferredPurge == {<<<<Defer(<<Purge>>), a, Return>>, 0>>}
MetaDefers == {<<<<Meta(<<Defer(<<b>>)>>), a>>, 0>>}
MetaBetween == {<<<<While("v", <<a>>), Meta(<<b>>), While("w", <<d>>)>>, 0>>}
=============================================================================
