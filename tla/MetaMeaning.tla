----------------------------- MODULE MetaMeaning -----------------------------
(***************************************************************************)
(* What is typed, lowered by DataLowering and executed by MetaVM, compared *)
(* with what it means.                                                     *)
(***************************************************************************)
EXTENDS MetaVM, DataLowering

CONSTANT Fuel   \* iterations after which the reference is cut off

ASSUME FuelAssumption == Fuel \in Nat

-----------------------------------------------------------------------------
(***************************************************************************)
(* What the items mean: one after the other, each once.  At the prompt the *)
(* last value can be asked for by the name "res".                          *)
(***************************************************************************)
Fresh == [mem |-> <<>>, out |-> <<>>, done |-> FALSE, env |-> <<>>, depth |-> 0]

Implied(s, item) ==
  /\ item[1] = "do" /\ item[2][1] = "assign" /\ item[2][3][1] = "ref"
  /\ item[2][3][2] \notin DOMAIN s.env

\* The value x of an item is given the name it declares, and at the prompt
\* another one; it is shown unless it is void or declared in a file.
Introduced(s, item, x) ==
  IF item[1] = "let" THEN Declared(x.s, item[2], <<x.v>>)
  ELSE IF Implied(s, item) THEN Declared(x.s, item[2][3][2], <<x.v>>) ELSE x.s

ValueOf(item) == IF item[1] = "let" THEN item[3] ELSE item[2]

Shown(mode, s, item, x) ==
  LET void == IsVoid(ValueOf(item))
  IN  [s   |-> IF mode = "repl" /\ ~void THEN Declared(Introduced(s, item, x), "res", <<x.v>>)
               ELSE Introduced(s, item, x),
       out |-> x.s.out \o (IF void \/ (mode = "file" /\ item[1] = "let") THEN <<>> ELSE <<x.v>>)]

\* What is run has no value; of an item that has one the next item starts
\* with an empty output.
Meant(mode, s, item) ==
  CASE item[1] = "func" -> [s |-> s, out |-> <<>>]
    [] item[1] \in {"meta", "main"} ->
         [s |-> s, out |-> Run(item[2], IF item[1] = "meta" THEN Fresh ELSE s, Fuel).out]
    [] OTHER -> Shown(mode, s, item,
                      Eval(IF Implied(s, item) THEN item[2][4] ELSE ValueOf(item), s))

After(r, m) == [s |-> [m.s EXCEPT !.out = <<>>], outs |-> Append(r.outs, m.out)]

Outputs(s) ==
  FoldLeft(LAMBDA r, item : After(r, Meant(s.mode, r.s, item)), [s |-> Fresh, outs |-> <<>>], s.items).outs

\* What each item of each session should print.
Expected == [s \in Sessions |-> Outputs(s)]

-----------------------------------------------------------------------------
(***************************************************************************)
(* The code of an item.                                                    *)
(***************************************************************************)
\* A declaration or an expression is the value a function returns.
ParamsOf(item) == IF item[1] = "func" THEN Library[item[2]].params ELSE <<>>
BodyOf(item) ==
  CASE item[1] = "func" -> Library[item[2]].body
    [] item[1] = "let"  -> <<Give(item[3])>>
    [] item[1] = "do"   -> <<Give(item[2])>>
    [] OTHER            -> item[2]

\* Nothing is put at the end of a @meta block.
EndOf(c, item) == IF item[1] = "meta" THEN c ELSE Closed(c)
CodeOf(item)   == EndOf(Gens(EntryOf({}, ParamsOf(item)), BodyOf(item)), item)

-----------------------------------------------------------------------------
\* An item for which no error was reported prints what it means: what it has
\* printed is the beginning of that, and all of it once the session is over;
\* an item that failed does not change what the later ones print
\* (metalir_vm_execute, run_repl, run_file).
SameMeaning ==
  LET expected == Expected[session]
  IN  \A k \in DOMAIN printed \ failed :
        /\ IsPrefix(printed[k], expected[k])
        /\ todo = <<>> => printed[k] = expected[k]
=============================================================================
