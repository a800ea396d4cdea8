------------------------------ MODULE Lowering ------------------------------
(***************************************************************************)
(* The lowering of a function body to blocks: alir_gen_function_def,       *)
(* alir_gen_stmt and the generators it calls for loops and switches.  The  *)
(* recursion of the C code over the syntax tree is a list of things to do  *)
(* (todo), so that every step of a generator is a step here, in its order: *)
(* the blocks it asks for, the branch it emits, the block it goes on in.   *)
(* A task is a statement to lower, or what a generator does after the      *)
(* statements of a body: emit, seal, enter a block, push or pop a loop.    *)
(***************************************************************************)
EXTENDS Alir, Statements

CONSTANT CheckHint   \* the hints "switch_check_<i>", as far as programs need them

VARIABLES todo,      \* the tasks left, first one first
          blocks,    \* func->blocks
          current,   \* ctx->current_block, as an index of blocks
          uses,      \* label_map: how often each hint has been asked for
          loops,     \* the stack behind ctx->loop_continue and loop_break
          defers,    \* ctx->defers
          closing    \* the end of the function has been lowered

vars == <<todo, blocks, current, uses, loops, defers, closing>>

Task(do, stmt, code, block, loop) ==
  [do |-> do, stmt |-> stmt, code |-> code, block |-> block, loop |-> loop]

None  == Break                        \* a task that carries no statement
Outer == [cont |-> NoLabel, brk |-> NoLabel]  \* outside every loop: both NULL
Stmts(stmts) == [i \in DOMAIN stmts |-> Task("stmt", stmts[i], <<>>, 0, Outer)]
Emit(code)   == <<Task("emit", None, code, 0, Outer)>>
Seal(code)   == <<Task("seal", None, code, 0, Outer)>>
Enter(b)     == <<Task("enter", None, <<>>, b, Outer)>>
PushLoop(cont, brk) ==
  <<Task("push", None, <<>>, 0, [cont |-> cont, brk |-> brk])>>
PopLoop      == <<Task("pop", None, <<>>, 0, Outer)>>

-----------------------------------------------------------------------------
(***************************************************************************)
(* Blocks and labels.                                                      *)
(***************************************************************************)
\* Mutant of Used: a hint is taken to be new each time.
Used_Fresh(hint) == 0

Used(hint) == IF hint \in DOMAIN uses THEN uses[hint] ELSE 0
Counted(hints) ==
  [h \in DOMAIN uses \cup Range(hints) |->
     Used(h) + Cardinality({i \in DOMAIN hints : hints[i] = h})]

\* The labels the blocks asked for with these hints get, in this order.
NewLabels(hints) ==
  [i \in DOMAIN hints |->
     <<hints[i],
       Used(hints[i]) + Cardinality({j \in 1..i : hints[j] = hints[i]})>>]

Extend(block, code) == [block EXCEPT !.code = @ \o code]

\* The function after the current block got the code and the hints' blocks,
\* the n-th of which starts with starts[n], were added behind the others.
Grown(code, hints, starts) ==
  [blocks EXCEPT ![current] = Extend(@, code)]
    \o [i \in DOMAIN hints |->
          [label |-> NewLabels(hints)[i],
           code |-> IF i \in DOMAIN starts THEN starts[i] ELSE <<>>]]

\* Mutant of Continues: what follows a terminator is lowered as well.
Continues_Always == TRUE

Continues == blocks[current].code = <<>> \/ ~Terminated(blocks[current])

Init ==
  /\ blocks = <<[label |-> <<"entry", 1>>, code |-> <<>>]>>
  /\ current = 1
  /\ uses = [h \in {"entry"} |-> 1]
  /\ loops = <<Outer>>
  /\ defers = <<>>
  /\ closing = FALSE

-----------------------------------------------------------------------------
(***************************************************************************)
(* The statements.  Stmt(kind) is the head of todo, and every statement    *)
(* but the first after a terminator is skipped (Skip).                     *)
(***************************************************************************)
Doing(do)   == todo # <<>> /\ Head(todo).do = do
Stmt(kind)  == Doing("stmt") /\ Continues /\ Head(todo).stmt.kind = kind
S           == Head(todo).stmt
Then(tasks) == todo' = tasks \o Tail(todo)
Append1(inst) == blocks' = [blocks EXCEPT ![current] = Extend(@, <<inst>>)]

Skip ==
  /\ Doing("stmt") /\ ~Continues
  /\ Then(<<>>)
  /\ UNCHANGED <<blocks, current, uses, loops, defers, closing>>

LowerCall ==
  /\ Stmt("call")
  /\ Append1(Call(S.name))
  /\ Then(<<>>)
  /\ UNCHANGED <<current, uses, loops, defers, closing>>

LowerPurge ==
  /\ Stmt("purge")
  /\ Append1(Panic)
  /\ Then(<<>>)
  /\ UNCHANGED <<current, uses, loops, defers, closing>>

\* A literal condition picks its branch at once; no block is made.
LowerIfKnown ==
  /\ Stmt("if") /\ S.name \in Literal
  /\ Then(Stmts(IF IsTrue(S.name) THEN S.body ELSE S.other))
  /\ UNCHANGED <<blocks, current, uses, loops, defers, closing>>

LowerIf ==
  /\ Stmt("if") /\ S.name \notin Literal
  /\ LET hasElse == S.other # <<>>
         hints == IF hasElse THEN <<"then", "else", "merge">>
                             ELSE <<"then", "merge">>
         l     == NewLabels(hints)
         n     == Len(blocks)
         merge == Len(hints)
         close == Seal(<<Jump(l[merge])>>)
     IN  /\ blocks' = Grown(<<Condi(S.name, l[1], l[2])>>, hints, <<>>)
         /\ uses' = Counted(hints)
         /\ current' = n + 1
         /\ Then(Stmts(S.body) \o close
                 \o (IF hasElse THEN Enter(n + 2) \o Stmts(S.other) \o close
                                ELSE <<>>)
                 \o Enter(n + merge))
  /\ UNCHANGED <<loops, defers, closing>>

\* "while once" makes the same three blocks but never jumps to one of them.
LowerWhile ==
  /\ Stmt("while") \/ Stmt("once")
  /\ LET hints == <<"while_cond", "while_body", "while_end">>
         l == NewLabels(hints)
         n == Len(blocks)
     IN  /\ blocks' = Grown(IF S.kind = "while" THEN <<Jump(l[1])>> ELSE <<>>,
                            hints, <<<<Condi(S.name, l[2], l[3])>>>>)
         /\ uses' = Counted(hints)
         /\ current' = n + 2
         /\ loops' = Append(loops, [cont |-> l[1], brk |-> l[3]])
         /\ Then(Stmts(S.body) \o PopLoop \o Seal(<<Jump(l[1])>>)
                 \o Enter(n + 3))
  /\ UNCHANGED <<defers, closing>>

\* The count of a loop is not looked at, and its back edge is emitted
\* whether or not the body has ended already.
LowerLoop ==
  /\ Stmt("loop")
  /\ LET hints == <<"loop_body", "loop_end">>
         l == NewLabels(hints)
         n == Len(blocks)
     IN  /\ blocks' = Grown(<<Jump(l[1])>>, hints, <<>>)
         /\ uses' = Counted(hints)
         /\ current' = n + 1
         /\ loops' = Append(loops, [cont |-> l[1], brk |-> l[2]])
         /\ Then(Stmts(S.body) \o PopLoop \o Emit(<<Jump(l[1])>>)
                 \o Enter(n + 2))
  /\ UNCHANGED <<defers, closing>>

\* The loop variable's initial store, its comparison with the limit and its
\* increment are the calls init, more and step; continue goes to the test.
LowerForIn ==
  /\ Stmt("for")
  /\ LET hints == <<"for_cond", "for_body", "for_end">>
         l == NewLabels(hints)
         n == Len(blocks)
     IN  /\ blocks' = Grown(<<Call(<<"init">> \o S.name), Jump(l[1])>>, hints,
                            <<<<Condi(<<"more">> \o S.name, l[2], l[3])>>>>)
         /\ uses' = Counted(hints)
         /\ current' = n + 2
         /\ loops' = Append(loops, [cont |-> l[1], brk |-> l[3]])
         /\ Then(Stmts(S.body)
                 \o Seal(<<Call(<<"step">> \o S.name), Jump(l[1])>>)
                 \o PopLoop \o Enter(n + 3))
  /\ UNCHANGED <<defers, closing>>

\* The tests are chained from the last to the first, and the block of the i-th test
\* after the first is the (k - i)-th check.
LowerSwitch ==
  /\ Stmt("switch")
  /\ LET k == Len(S.body)
         d == IF S.other = <<>> THEN 0 ELSE 1
         hints == <<"switch_end">>
                  \o (IF d = 1 THEN <<"switch_default">> ELSE <<>>)
                  \o [i \in 1..k |-> "case"]
                  \o [i \in 1..(IF k = 0 THEN 0 ELSE k - 1) |-> CheckHint[k - i]]
         l == NewLabels(hints)
         n == Len(blocks)
         end     == l[1]
         default == l[1 + d]
         \* the i-th test; its block is the current one, then the checks
         test(i) == Condi(Test(S.name, S.body[i].name), l[1 + d + i],
                          IF i < k THEN l[1 + d + k + i] ELSE default)
         starts == [j \in 1..Len(hints) |->
                      IF j > 1 + d + k THEN <<test(j - (1 + d + k) + 1)>>
                                       ELSE <<>>]
         Body(b, stmts, to) ==
           Enter(b) \o PushLoop(NoLabel, end) \o Stmts(stmts) \o PopLoop
             \o Seal(<<Jump(to)>>)
     IN  /\ blocks' = Grown(IF k = 0 THEN <<>> ELSE <<test(1)>>, hints, starts)
         /\ uses' = Counted(hints)
         /\ current' = IF k > 1 THEN n + Len(hints) ELSE current
         /\ Then(FlattenSeq([i \in 1..k |->
                     Body(n + 1 + d + i, S.body[i].body,
                          IF S.body[i].kind = "leak" THEN default ELSE end)])
                 \o (IF d = 1 THEN Body(n + 2, S.other, end) ELSE <<>>)
                 \o Enter(n + 1))
  /\ UNCHANGED <<loops, defers, closing>>

\* break and continue emit nothing where there is nothing to leave.
LowerBreak ==
  /\ Stmt("break")
  /\ IF Last(loops).brk = NoLabel THEN UNCHANGED blocks
                                  ELSE Append1(Jump(Last(loops).brk))
  /\ Then(<<>>)
  /\ UNCHANGED <<current, uses, loops, defers, closing>>

LowerContinue ==
  /\ Stmt("continue")
  /\ IF Last(loops).cont = NoLabel THEN UNCHANGED blocks
                                   ELSE Append1(Jump(Last(loops).cont))
  /\ Then(<<>>)
  /\ UNCHANGED <<current, uses, loops, defers, closing>>

\* ctx->defers keeps a pointer to the first statement of the body, and
\* alir_gen_stmt lowers that statement alone.
LowerDefer ==
  /\ Stmt("defer")
  /\ defers' = Append(defers, SubSeq(S.body, 1, 1))
  /\ Then(<<>>)
  /\ UNCHANGED <<blocks, current, uses, loops, closing>>

Deferred == Stmts(FlattenSeq(Reverse(defers)))

LowerReturn ==
  /\ Stmt("return")
  /\ Then(Deferred \o Emit(<<Ret>>))
  /\ UNCHANGED <<blocks, current, uses, loops, defers, closing>>

\* A meta block is lowered to a function of its own, run at once and thrown
\* away; asking for that function's blocks makes label_map start again, and
\* what the block defers, up to a statement that ends it, is left to the
\* function around it.
DeferredBy(body) ==
  LET ends(s) == \/ s.kind \in {"return", "purge"}
                 \/ s.kind = "break" /\ Last(loops).brk # NoLabel
                 \/ s.kind = "continue" /\ Last(loops).cont # NoLabel
      reached(i) == \A j \in 1..(i - 1) : ~ends(body[j])
  IN  FlattenSeq([i \in DOMAIN body |->
                    IF body[i].kind = "defer" /\ reached(i)
                    THEN <<SubSeq(body[i].body, 1, 1)>> ELSE <<>>])
LowerMeta ==
  /\ Stmt("meta")
  /\ uses' = [h \in {} |-> 0]
  /\ defers' = defers \o DeferredBy(S.body)
  /\ Then(<<>>)
  /\ UNCHANGED <<blocks, current, loops, closing>>

-----------------------------------------------------------------------------
(***************************************************************************)
(* What the generators do around the statements of a body.                 *)
(***************************************************************************)
DoEmit ==
  /\ Doing("emit") \/ (Doing("seal") /\ Continues)
  /\ blocks' = [blocks EXCEPT ![current] = Extend(@, Head(todo).code)]
  /\ Then(<<>>)
  /\ UNCHANGED <<current, uses, loops, defers, closing>>

DoSealed ==
  /\ Doing("seal") /\ ~Continues
  /\ Then(<<>>)
  /\ UNCHANGED <<blocks, current, uses, loops, defers, closing>>

DoEnter ==
  /\ Doing("enter")
  /\ current' = Head(todo).block
  /\ Then(<<>>)
  /\ UNCHANGED <<blocks, uses, loops, defers, closing>>

DoPush ==
  /\ Doing("push")
  /\ loops' = Append(loops, Head(todo).loop)
  /\ Then(<<>>)
  /\ UNCHANGED <<blocks, current, uses, defers, closing>>

DoPop ==
  /\ Doing("pop")
  /\ loops' = Front(loops)
  /\ Then(<<>>)
  /\ UNCHANGED <<blocks, current, uses, defers, closing>>

\* The end of the body: a block that is still open runs what was deferred
\* and returns.
EndFunction ==
  /\ todo = <<>> /\ ~closing
  /\ closing' = TRUE
  /\ todo' = IF Continues THEN Deferred \o Emit(<<Ret>>) ELSE <<>>
  /\ UNCHANGED <<blocks, current, uses, loops, defers>>

Lowered == todo = <<>> /\ closing

Next ==
  \/ Skip \/ LowerCall \/ LowerPurge \/ LowerIfKnown \/ LowerIf
  \/ LowerWhile \/ LowerLoop \/ LowerForIn \/ LowerSwitch
  \/ LowerBreak \/ LowerContinue \/ LowerDefer \/ LowerReturn \/ LowerMeta
  \/ DoEmit \/ DoSealed \/ DoEnter \/ DoPush \/ DoPop \/ EndFunction
=============================================================================
