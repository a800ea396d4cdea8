-------------------------------- MODULE MCNames --------------------------------
(***************************************************************************)
(* Small programs for module Names: classes that hold each other, calls of *)
(* overloaded functions and of constructors, names in namespaces, enums,   *)
(* extensions and classes that inherit.                                    *)
(***************************************************************************)
EXTENDS Names

Var(name, type, by_value, default) ==
  [k |-> "var", name |-> name, type |-> type, by_value |-> by_value, default |-> default]
Required(name) == Var(name, "", TRUE, FALSE)
Optional(name) == Var(name, "", TRUE, TRUE)
Enum(name, entries) == [k |-> "enum", name |-> name, entries |-> entries]
Template(name) == [k |-> "template", name |-> name]
Func(name, params) == [k |-> "func", name |-> name, params |-> params, extends |-> FALSE,
                       override |-> FALSE]
Override(name, params) == [Func(name, params) EXCEPT !.override = TRUE]
Class(name, parent, traits, members) ==
  [k |-> "class", name |-> name, parent |-> parent, traits |-> traits, is_a |-> "", has_a |-> "",
   pure |-> FALSE, members |-> members]
Extended(name, members) == [k |-> "extended", name |-> name, members |-> members]
Space(name, closed, members) ==
  [k |-> "namespace", name |-> name, closed |-> closed, hidden |-> FALSE, members |-> members]

P(name, type) == [name |-> name, type |-> type, default |-> ""]
D(name, type) == [name |-> name, type |-> type, default |-> type]
Given(types) == [i \in DOMAIN types |-> [name |-> "", type |-> types[i]]]
Call(name, args) == [k |-> "call", name |-> name, args |-> args]
Name(path, within) == [k |-> "name", path |-> path, within |-> within]
MemberOf(class, name) == [k |-> "member", class |-> class, name |-> name]
Uses(items, uses) == [items |-> items, uses |-> uses]

--------------------------------------------------------------------------------
(* Three classes, each holding at most one, in each of the ways there are. *)

Letters == {"A", "B", "C"}
Holdings == {<<"", "">>} \cup {"parent", "trait", "value", "pointer"} \X Letters
Holder(name, h, pure) ==
  [Class(name, IF h[1] = "parent" THEN h[2] ELSE "", IF h[1] = "trait" THEN <<h[2]>> ELSE <<>>,
         IF h[1] \in {"value", "pointer"} THEN <<Var("x", h[2], h[1] = "value", FALSE)>> ELSE <<>>)
     EXCEPT !.pure = pure]
Holding ==
  {Uses(<<Holder("A", t[1], t[4]), Holder("B", t[2], FALSE), Holder("C", t[3], FALSE)>>, <<>>) :
     t \in Holdings \X Holdings \X Holdings \X BOOLEAN}

\* The marks on how a class may be used.
Marked ==
  {Uses(<<[Class("A", "", <<>>, <<>>) EXCEPT !.is_a = t[1], !.has_a = t[2]],
          Holder("B", t[3], FALSE)>>, <<>>) :
     t \in {"final", "naked"} \X {"inert", "reactive"} \X
           {<<"", "">>, <<"parent", "A">>, <<"trait", "A">>, <<"value", "A">>, <<"pointer", "Z">>, <<"parent", "Z">>}}

--------------------------------------------------------------------------------
(* Calls. *)

ParamLists == {<<P("a", "int")>>, <<P("a", "double")>>, <<P("a", "char")>>,
               <<P("a", "int"), P("b", "int")>>, <<P("a", "double"), P("b", "int")>>,
               <<P("a", "Base")>>}
ArgLists == {Given(<<"int">>), Given(<<"bool">>), Given(<<"double">>), Given(<<"Derived">>),
             Given(<<"int", "int">>), Given(<<"char", "double">>),
             <<[name |-> "b", type |-> "int"], [name |-> "a", type |-> "int"]>>,
             <<[name |-> "", type |-> "int"], [name |-> "b", type |-> "int"]>>,
             <<[name |-> "b", type |-> "int"], [name |-> "", type |-> "single"]>>}
Family == <<Class("Top", "", <<>>, <<>>), Class("Base", "Top", <<>>, <<>>),
            Class("Derived", "Base", <<>>, <<>>)>>
Calling ==
  {Uses(Family \o <<Func("f", t[1]), Func("f", t[2])>>, <<Call("f", t[3])>>) :
     t \in ParamLists \X ParamLists \X ArgLists}
\* Parameters with defaults, left out from the end.
Defaulting ==
  {Uses(<<Func("f", <<P("a", "int"), D("b", "int"), [D("c", "double") EXCEPT !.default = "int"]>>)>>,
        <<Call("f", Given(t[1])), Call("f", Given(t[2]))>>) :
     t \in {<<>>, <<"int">>, <<"int", "int">>, <<"bool", "int", "int">>}
           \X {<<"int">>, <<"char", "int">>, <<"int", "int", "double">>}}
\* Constructors, written and implicit.
Constructing ==
  {Uses(<<Class("Top", "", <<>>, t[1]), Class("Mixin", "", <<>>, t[2]),
          Class("K", "Top", <<"Mixin">>, t[3])>>,
        <<Call("K", Given(SubSeq(<<"int", "int", "int", "int">>, 1, t[4])))>>) :
     t \in {<<>>, <<Required("a")>>, <<Required("a"), Required("b")>>}
           \X {<<>>, <<Required("c")>>}
           \X {<<>>, <<Required("d"), Optional("e")>>, <<Optional("e")>>,
               <<Required("d"), Func("init", <<P("a", "int")>>)>>,
               <<Func("K", <<P("a", "int"), P("b", "int")>>)>>}
           \X (0 .. 4)}

\* Constructors of traits, tried in turn; one object of the class is copied.
Borrowing ==
  {Uses(<<Class("M", "", <<>>, <<Required("c"), Func("init", <<P("a", "int")>>)>>),
          Class("N", "", <<>>, t[1]), Class("K", "", t[2], <<Required("d")>>)>>,
        <<Call("K", Given(t[3]))>>) :
     t \in {<<>>, <<Required("n")>>, <<Func("N", <<P("a", "int"), P("b", "int")>>)>>}
           \X {<<"M">>, <<"M", "N">>, <<"N", "M">>, <<"N">>, <<"Q", "N">>}
           \X {<<>>, <<"K">>, <<"int">>, <<"int", "int">>}}
\* Objects held by objects, made without arguments where that is possible.
Held ==
  {Uses(<<Class("A", "", <<>>, t[1]), Template("v"), Enum("E", <<>>),
          Class("B", "", <<>>, <<Var("x", "A", TRUE, FALSE)>>),
          Class("K", "B", <<>>, <<Var("z", "A", TRUE, FALSE)>>), Var("g", "K", TRUE, FALSE),
          Class("C", "", <<>>, <<Var("y", t[2], TRUE, FALSE)>>)>>,
        <<Call("K", Given(t[3])), Call("C", <<>>)>>) :
     t \in {<<>>, <<Required("a")>>, <<Optional("a")>>, <<Func("A", <<>>)>>,
            <<Func("init", <<P("a", "int")>>)>>}
           \X {"A", "E", "v", "Q"} \X {<<>>, <<"A">>, <<"A", "A", "A">>}}

--------------------------------------------------------------------------------
(* Names. *)

Inside == <<Func("g", <<>>), Enum("E", <<"e1", "e2">>), Template("v"),
            Class("A", "", <<>>, <<Required("x"), Func("A", <<P("a", "int")>>)>>)>>
Outside(closed) ==
  {<<Space("N", closed, Inside)>>, <<[Space("N", closed, Inside) EXCEPT !.hidden = TRUE]>>,
   <<Func("g", <<>>), Space("N", FALSE, <<>>), Space("N", closed, Inside)>>,
   <<Space("M", FALSE, <<Func("h", <<>>)>>), Space("N", closed, Inside), Space("N", FALSE, <<>>)>>}
Wide == <<Class("Z", "", <<>>, <<Required("z"), Func("m", <<>>)>>),
          Class("T", "", <<>>, <<Required("t")>>), Class("Y", "Z", <<>>, <<>>),
          Class("X", "Y", <<"T">>, <<Required("own")>>)>>
Extensions == {<<>>, <<Extended("X", <<Func("m", <<P("a", "int")>>)>>)>>,
               <<Extended("X", <<Func("more", <<>>), Func("more", <<>>)>>)>>,
               <<Extended("X", <<Override("own", <<>>), Override("more", <<>>)>>)>>,
               <<Extended("Nowhere", <<Func("m", <<>>)>>), Extended("int", <<Func("m", <<>>)>>)>>}
Asking == {Name(<<"g">>, ""), Name(<<"e2">>, ""), Name(<<"N", "e1">>, ""), Name(<<"N", "A", "x">>, ""),
           Name(<<"g", "x">>, ""), Name(<<"z">>, "X"), Name(<<"m">>, "Y"), Name(<<"t">>, "X"),
           Name(<<"lost">>, "X"), MemberOf("X", "z"), MemberOf("X", "t"), MemberOf("X", "m"),
           MemberOf("X", "lost"), MemberOf("Nowhere", "m"), MemberOf("int", "m"),
           MemberOf("A", "x"), Call("v", <<>>), Call("E", <<>>),
           Call("lost", <<>>), Call("Z", Given(<<"int">>))}
Naming ==
  {Uses(t[1] \o Wide \o t[2], <<t[3]>>) :
     t \in (Outside(FALSE) \cup Outside(TRUE)) \X Extensions \X Asking}

--------------------------------------------------------------------------------
(* Programs the properties do not hold for. *)

\* The node of the default of b is passed on by every call that leaves it out.
DefaultBetween ==
  {Uses(<<Func("f", <<P("a", "int"), D("b", "int"), D("c", "int")>>)>>,
        <<Call("f", <<[name |-> "", type |-> "int"], [name |-> "c", type |-> "int"]>>),
          Call("f", Given(<<"int">>))>>)}
\* A field with a default comes before one without.
DefaultFirst ==
  {Uses(<<Class("K", "", <<>>, <<Optional("x"), Required("y")>>)>>, <<Call("K", Given(<<"int">>))>>)}
\* Of the constructors only the last one is tried.
TwoConstructors ==
  {Uses(<<Class("K", "", <<>>, <<Func("init", <<P("a", "int")>>),
                                 Func("init", <<P("a", "int"), P("b", "int")>>)>>)>>,
        <<Call("K", Given(<<"int">>))>>)}
\* Classes are taken for each other's equals, and defaults add to the score.
ClassOverload ==
  {Uses(Family \o <<Func("f", <<P("a", "Base")>>), Func("f", <<P("a", "Derived")>>)>>,
        <<Call("f", Given(<<"Derived">>))>>)}
LongerOverload ==
  {Uses(<<Func("f", <<P("a", "int")>>), Func("f", <<P("a", "int"), D("b", "int")>>)>>,
        <<Call("f", Given(<<"int">>))>>)}
\* Parents in a circle, with a name to search from inside.
ParentsInCircle ==
  {Uses(<<Class("A", "B", <<>>, <<>>), Class("B", "A", <<>>, <<Func("m", <<>>)>>)>>,
        <<Name(<<"lost">>, "A")>>)}
\* `pure` classes inside a namespace keep their mark.
PureInside ==
  {Uses(<<Space("N", FALSE, <<[Class("A", "", <<>>, <<>>) EXCEPT !.pure = TRUE]>>),
          Holder("B", <<"value", "A">>, FALSE)>>, <<>>)}

SmallPrograms ==
  UNION {Holding, Marked, Calling, Defaulting, Constructing, Borrowing, Held, Naming}
================================================================================
