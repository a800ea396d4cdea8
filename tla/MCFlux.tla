------------------------------- MODULE MCFlux -------------------------------
(***************************************************************************)
(* Generators for Flux: emits one after the other, in loops and both ways  *)
(* of an if, after a loop that is left early, none at all; variables of    *)
(* one name in two loops; sums over a range; parameters changed; returns   *)
(* early, out of a loop and with a value; and what is deferred until then. *)
(***************************************************************************)
EXTENDS Flux

Inc(x, n) == Set(x, Bin("add", Ref(x), Num(n)))
Is(x, n)  == Bin("eq", Ref(x), Num(n))
Below(x, y) == Bin("lt", Ref(x), y)
A == Ref("a")
I == Ref("i")

\* Falling off the end, returning with and without a value, and deferring.
Sound ==
  <<[params |-> <<>>, body |-> <<Let("i", Num(1))>>],
    [params |-> <<"a">>, body |->
      <<Let("i", Num(0)), Repeat(Below("i", A), <<Emits(I), Inc("i", 1)>>), Emits(Bin("mul", I, Num(4)))>>],
    [params |-> <<"a">>, body |->
      <<Let("i", Num(0)),
        Repeat(Below("i", Num(3)),
          <<When(Is("i", 1), <<Emits(Num(7)), Inc("i", 1)>>, <<Emits(A)>>), Inc("i", 1)>>)>>],
    [params |-> <<"a">>, body |->
      <<Repeat(Num(1), <<When(Below("a", Num(3)), <<Emits(A), Inc("a", 2)>>, <<Break>>), Emits(Num(5))>>),
        Emits(Num(6))>>],
    [params |-> <<>>, body |->
      <<When(Num(1), <<Let("i", Num(2)), Emits(I)>>, <<>>),
        Let("j", Num(0)),
        Repeat(Below("j", Num(2)), <<Let("i", Bin("add", Ref("j"), Num(4))), Emits(I), Inc("j", 1)>>)>>],
    [params |-> <<"a">>, body |->
      <<Let("s", Num(0)), UpTo("i", Bin("add", A, Num(1)), <<Set("s", Bin("add", Ref("s"), I))>>),
        Emits(Ref("s")), UpTo("k", Num(3), <<When(Is("k", 1), <<Break>>, <<>>), Inc("s", 3)>>),
        Emits(Ref("s"))>>],
    [params |-> <<"a">>, body |->
      <<Emits(A), When(Is("a", 2), <<Give>>, <<>>), Emits(Num(5))>>],
    [params |-> <<"a">>, body |->
      <<Repeat(Num(1), <<Emits(A), When(Is("a", 3), <<GiveUp(Num(9))>>, <<>>), Inc("a", 1)>>)>>],
    [params |-> <<"a">>, body |->
      <<Defer(<<Emits(Num(8))>>), Emits(A), Defer(<<Inc("a", 3)>>),
        When(Is("a", 2), <<Defer(<<Emits(A)>>), Give>>, <<>>), GiveUp(A)>>]>>

Given == {2}
Variables == {"g"}
Garbage == {0, 2}

\* An emit inside a for over a range: its counter is lost.
InRange == <<[params |-> <<"a">>, body |-> <<UpTo("i", A, <<Emits(I)>>)>>]>>

\* An inner variable of the name of an outer one: they share a field.
Nested ==
  <<[params |-> <<"a">>, body |->
      <<Let("i", A), When(Below("i", Num(9)), <<Let("i", Num(8)), Emits(I)>>, <<>>), Emits(I)>>]>>

\* A body that defers and falls off its end: what it deferred is not done.
AtEnd == <<[params |-> <<"a">>, body |-> <<Defer(<<Emits(Num(8))>>), Emits(A)>>]>>

\* The return of a generator does what the generator before it deferred.
LeftOver ==
  <<[params |-> <<"a">>, body |-> <<Defer(<<Emits(Num(8))>>), Emits(A), Give>>],
    [params |-> <<"a">>, body |-> <<Emits(A), Give>>]>>
=============================================================================
