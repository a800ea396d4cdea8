-------------------------------- MODULE Semantic --------------------------------
(***************************************************************************)
(* The check of function bodies by the semantic analysis                   *)
(* (src/semantic): one pass over the functions in the order of the source, *)
(* one step per statement, with the marks of the symbols (pristine, pure,  *)
(* total, mutable) read and changed on the way.  Types other than the      *)
(* taint of a value are left out; the programs are those of ErrorRuns.     *)
(*                                                                         *)
(* work holds the statements still to visit and what is to be done when a  *)
(* block of them ends; the recursion of the C code is this stack.          *)
(***************************************************************************)
EXTENDS Naturals, Sequences, SequencesExt, FiniteSets, FiniteSetsExt, TLC

CONSTANTS Programs

VARIABLES
  program,   \* the program being analysed
  next,      \* the number of the next function to check
  work,      \* statements and closing steps, the next one first
  scopes,    \* the open scopes, the global one first
  marks,     \* function symbols by name
  current,   \* current_func_sym: a name, or "" outside functions
  in_loop,   \* ctx->in_loop
  errors,    \* the kinds of error reported so far
  broken     \* what the accepted program breaks when it runs

vars == <<program, next, work, scopes, marks, current, in_loop, errors, broken>>

Reference == INSTANCE ErrorRuns

--------------------------------------------------------------------------------
(* Symbols. *)

\* apply_func_modifiers, then sem_symbolic_func_def.
Symbolic(f) ==
  LET extern == "extern" \in f.marks
  IN  [pure |-> IF extern THEN {"pure", "reason"} \subseteq f.marks ELSE "impure" \notin f.marks,
       must_pure |-> "pure" \in f.marks,
       total |-> "partial" \notin f.marks,
       must_total |-> "total" \in f.marks,
       pristine |-> extern \/ "tainted" \notin f.marks,
       must_pristine |-> "pristine" \in f.marks,
       tainted |-> ~extern /\ ("tainted" \in f.marks \/ f.errs # {}),
       errs |-> f.errs,
       params |-> f.params]
SymbolicErrors(fs) ==
  IF \E f \in Range(fs) : {"extern", "pure"} \subseteq f.marks /\ "reason" \notin f.marks
  THEN {"extern pure without reason"} ELSE {}

\* sem_symbol_add: neither pure nor explicitly pristine unless set afterwards.
Symbol == [pristine |-> TRUE, must_pristine |-> FALSE, pure |-> FALSE,
           tainted |-> FALSE, mutable |-> TRUE, errs |-> {}]
Variable == [Symbol EXCEPT !.pure = TRUE]

Lookup(scs, x) ==
  LET found == {i \in DOMAIN scs : x \in DOMAIN scs[i]}
  IN  IF found = {} THEN 0 ELSE Max(found)

--------------------------------------------------------------------------------
(* Expressions.  s gathers what checking one changes; flag is the mark of  *)
(* the node in the type table, typed the one its type carries.             *)

State == [scopes |-> scopes, marks |-> marks, errors |-> errors, flag |-> FALSE, typed |-> FALSE]
Tainted(s) == s.flag \/ s.typed          \* sem_get_node_type(...).is_tainted
Fail(s, cond, what) == IF cond THEN [s EXCEPT !.errors = @ \cup {what}] ELSE s
Result(s, flag, typed) == [s EXCEPT !.flag = flag, !.typed = typed]

\* Mutant of Lose: the mark is lost without an error.
Lose_Unasked(s, mark, must, what) ==
  IF current # "" THEN [s EXCEPT !.marks[current][mark] = FALSE] ELSE s
\* The function being checked loses a mark it only had by default.
Lose(s, mark, must, what) ==
  IF current # "" /\ s.marks[current][mark]
  THEN [Fail(s, s.marks[current][must], what) EXCEPT !.marks[current][mark] = FALSE]
  ELSE s

CheckVarRef(x, s) ==
  LET at == Lookup(s.scopes, x)
      pure == current # "" /\ s.marks[current].pure
  IN  IF at = 0 THEN Result(Fail(s, TRUE, "undefined variable"), FALSE, FALSE)
      ELSE LET sym == s.scopes[at][x]
               t == [s EXCEPT !.scopes[at][x].tainted = @ \/ ~sym.pristine]
               u == IF pure /\ (~sym.pure \/ at = 1)
                    THEN Lose(t, "pure", "must_pure", "impure read") ELSE t
           IN  Result(u, FALSE, sym.tainted \/ ~sym.pristine)

NonZero(e) == e.k = "lit" /\ ~e.zero      \* sem_is_constant_nonzero

RECURSIVE CheckExpr(_, _), CheckArgs(_, _)

\* Mutant of CheckBinary: only the left side is asked for its taint.
CheckBinary_LeftOnly(e, s) ==
  LET l == CheckExpr(e.l, s)
      r == CheckExpr(e.r, l)
  IN  Result(r, Tainted(l) \/ (e.op = "/" /\ ~NonZero(e.r)), FALSE)
\* sem_check_binary_op: a division is tainted unless by a constant.
CheckBinary(e, s) ==
  LET l == CheckExpr(e.l, s)
      r == CheckExpr(e.r, l)
  IN  Result(r, Tainted(l) \/ Tainted(r) \/ (e.op = "/" /\ ~NonZero(e.r)), FALSE)

\* The fallbacks ? and ??: pristine when it catches every error.
CheckFallback(e, s) ==
  LET l == CheckExpr(e.l, s)
      r == CheckExpr(e.r, l)
      kept == e.errs # <<>> /\ Tainted(l)
  IN  Result(r, kept, kept)

\* The arguments, each with its own mark.
CheckArgs(args, s) ==
  IF args = <<>> THEN [s |-> s, flags |-> <<>>]
  ELSE LET a == CheckExpr(Head(args), s)
           rest == CheckArgs(Tail(args), a)
       IN  [s |-> rest.s, flags |-> <<a.flag>> \o rest.flags]

\* sem_resolve_overload: what is passed by reference to a tainted function
\* may come back tainted.
Downgrade(s, f, args) ==
  LET passed == {i \in DOMAIN args : args[i].k = "addr" /\ Lookup(s.scopes, args[i].x) # 0}
      Fixed(i) == s.scopes[Lookup(s.scopes, args[i].x)][args[i].x].must_pristine
      Lowered(lv, x) == s.scopes[lv][x].pristine
                          /\ ~\E i \in passed : args[i].x = x /\ Lookup(s.scopes, x) = lv
                                                  /\ ~s.scopes[lv][x].must_pristine
  IN  IF s.marks[f].pristine THEN s
      ELSE [Fail(s, \E i \in passed : Fixed(i), "pristine by reference")
              EXCEPT !.scopes = [lv \in DOMAIN @ |-> [x \in DOMAIN @[lv] |->
                 [@[lv][x] EXCEPT !.pristine = Lowered(lv, x)]]]]

CheckCall(e, s) ==
  IF e.f \notin DOMAIN s.marks
  THEN Result(Fail(s, TRUE, "undefined function"), FALSE, FALSE)
  ELSE LET callee == s.marks[e.f]
           p == IF ~callee.pure THEN Lose(s, "pure", "must_pure", "impure call") ELSE s
           t == IF ~callee.total THEN Lose(p, "total", "must_total", "partial call") ELSE p
           a == CheckArgs(e.args, t)
           bad == \E i \in DOMAIN e.args : i \in DOMAIN callee.params
                    /\ a.flags[i] /\ callee.params[i].pristine
       IN  IF Len(e.args) # Len(callee.params)
           THEN Result(Fail(a.s, TRUE, "no overload"), ~callee.pristine, callee.tainted)
           ELSE Result(Fail(Downgrade(a.s, e.f, e.args), bad, "tainted argument"),
                       ~callee.pristine, callee.tainted)

CheckExpr(e, s) ==
  CASE e.k \in {"lit", "static", "none"} -> Result(s, FALSE, FALSE)
    [] e.k = "var" -> CheckVarRef(e.x, s)
    [] e.k = "addr" -> CheckVarRef(e.x, s)
    [] e.k = "bin" -> CheckBinary(e, s)
    [] e.k = "or" -> CheckFallback(e, s)
    [] e.k = "call" -> CheckCall(e, s)

--------------------------------------------------------------------------------
(* Residues. *)

\* sem_get_errnum_func_sym: the error set of a call, {} for anything else.
ErrnumOf(e, s) == IF e.k = "call" /\ e.f \in DOMAIN s.marks THEN s.marks[e.f].errs ELSE {}
\* sem_check_residue_exhaustive; a case without names is the default.
Exhaustive(errs, cases) == \E c \in cases : c = {} \/ errs \subseteq UNION cases

\* A chain of fallbacks: what it starts from and the cases it handles.
RECURSIVE Bottom(_), Chain(_)
Bottom(e) == IF e.k = "or" THEN Bottom(e.l) ELSE e
Chain(e) == IF e.k = "or" THEN {Range(e.errs)} \cup Chain(e.l) ELSE {}

--------------------------------------------------------------------------------
(* Statements. *)

Now == Head(work)
Visit(k) == work # <<>> /\ Now.k = k
Scope(symbols) == [k |-> "open", symbols |-> symbols]
Closed(loops) == [k |-> "close", loops |-> loops]
Block(body) == <<Scope(<<>>)>> \o body \o <<Closed(0)>>
Then(items) == work' = items \o Tail(work)
Took(s) == scopes' = s.scopes /\ marks' = s.marks /\ errors' = s.errors
Apart == UNCHANGED <<program, next, current, broken>>

Init ==
  /\ program \in Programs
  /\ next = 1
  /\ work = <<>>
  /\ scopes = <<[x \in program.globals |-> Variable]>>
  /\ marks = [f \in {d.name : d \in Range(program.funcs)} |->
                Symbolic(CHOOSE d \in Range(program.funcs) : d.name = f)]
  /\ current = ""
  /\ in_loop = 0
  /\ errors = SymbolicErrors(program.funcs)
  /\ broken = {"unknown"}

\* sem_check_func_def.
FuncDef ==
  /\ work = <<>> /\ next <= Len(program.funcs)
  /\ LET f == program.funcs[next]
         params == [x \in {q.name : q \in Range(f.params)} |->
                     LET q == CHOOSE r \in Range(f.params) : r.name = x
                     IN  [Variable EXCEPT !.pristine = q.pristine, !.tainted = ~q.pristine,
                                          !.must_pristine = q.explicit]]
     IN  /\ work' = <<Scope(params)>> \o f.body \o <<Closed(0)>>
         /\ current' = f.name
  /\ next' = next + 1
  /\ UNCHANGED <<program, scopes, marks, in_loop, errors, broken>>

\* sem_scope_enter, with the symbols added at once.
Open ==
  /\ Visit("open") /\ Then(<<>>)
  /\ scopes' = Append(scopes, Now.symbols)
  /\ UNCHANGED <<marks, errors, in_loop>> /\ Apart

\* sem_scope_exit, and the end of the loop or the function it closes.
Close ==
  /\ Visit("close") /\ Then(<<>>)
  /\ scopes' = Front(scopes)
  /\ in_loop' = in_loop - Now.loops
  /\ current' = IF Tail(work) = <<>> THEN "" ELSE current
  /\ UNCHANGED <<program, next, marks, errors, broken>>

\* sem_check_var_decl with its initializer: let takes its mark from it.
Initial(c, s) ==
  LET let == c.form = "let"
  IN  [Variable EXCEPT
         !.mutable = c.mutable,
         !.pristine = c.form # "tainted" /\ ~(let /\ s.flag),
         !.must_pristine = c.form = "pristine",
         !.tainted = IF let THEN Tainted(s) ELSE c.form = "tainted"]
VarDecl ==
  /\ Visit("decl") /\ Then(<<>>)
  /\ LET s == CheckExpr(Now.e, State)
         t == Fail(s, Now.form \notin {"let", "tainted"} /\ s.flag, "tainted initializer")
         here == Len(scopes)
     IN  IF Now.x \in DOMAIN s.scopes[here]
         THEN Took(Fail(t, TRUE, "redeclaration"))
         ELSE Took([t EXCEPT !.scopes[here] = (Now.x :> Initial(Now, s)) @@ @])
  /\ UNCHANGED in_loop /\ Apart

\* sem_check_assign to a name; the error set of a call goes with its value.
AssignChecks(c, s) ==
  LET at == Lookup(s.scopes, c.x)
      sym == s.scopes[at][c.x]
      attached == ErrnumOf(c.e, s)
      chain == ErrnumOf(Bottom(c.e), s)
      g == Fail(s, current # "" /\ s.marks[current].pure /\ at = 1, "pure writes global")
      m == Fail(g, ~sym.mutable, "immutable")
      p == Fail(m, sym.pristine /\ s.flag, "tainted value")
      r == Fail(p, c.e.k = "or" /\ chain # {} /\ ~Exhaustive(chain, Chain(c.e)), "residue")
  IN  IF at = 0 THEN Fail(s, TRUE, "undefined variable")
      ELSE IF attached = {} THEN r ELSE [r EXCEPT !.scopes[at][c.x].errs = attached]
Assign ==
  /\ Visit("assign") /\ Then(<<>>)
  /\ Took(AssignChecks(Now, CheckExpr(Now.e, State)))
  /\ UNCHANGED in_loop /\ Apart

\* An expression on its own; x++ is checked as the reading of x.
Expression ==
  /\ work # <<>> /\ Now.k \in {"expr", "inc"} /\ Then(<<>>)
  /\ Took(CheckExpr(IF Now.k = "inc" THEN [k |-> "var", x |-> Now.x] ELSE Now.e, State))
  /\ UNCHANGED in_loop /\ Apart

Condition(e) ==
  LET s == CheckExpr(e, State) IN Fail(s, Tainted(s), "condition")

\* A comparison of types known now leaves the other branch unchecked.
If ==
  /\ Visit("if")
  /\ Then(IF Now.e.k = "static" THEN Block(IF Now.e.val THEN Now.then ELSE Now.other)
          ELSE Block(Now.then) \o (IF Now.other = <<>> THEN <<>> ELSE Block(Now.other)))
  /\ Took(Condition(Now.e))
  /\ UNCHANGED in_loop /\ Apart

Switch ==
  /\ Visit("switch")
  /\ Then(FlattenSeq([i \in DOMAIN Now.cases |-> Block(Now.cases[i])]))
  /\ Took(Condition(Now.e))
  /\ UNCHANGED in_loop /\ Apart

\* while, loop and for-in; for-in counts twice and its variable is not pure.
Iterates(c) == IF c.word = "for" THEN 2 ELSE 1
Loop ==
  /\ Visit("loop")
  /\ Then(<<Scope(IF Now.word = "for" THEN Now.x :> Symbol ELSE <<>>)>>
            \o Now.body \o <<Closed(Iterates(Now))>>)
  /\ LET s == IF current = "" THEN State
              ELSE [Fail(State, marks[current].must_total, "loop in total")
                      EXCEPT !.marks[current].total = FALSE]
         c == CheckExpr(Now.e, s)
     IN  Took(Fail(c, Tainted(c), "condition"))
  /\ in_loop' = in_loop + Iterates(Now)
  /\ Apart

Defer ==
  /\ Visit("defer") /\ Then(Block(Now.body))
  /\ UNCHANGED <<scopes, marks, errors, in_loop>> /\ Apart

\* break and continue; in_switch is never raised, so both ask for a loop.
Exit ==
  /\ Visit("exit") /\ Then(<<>>)
  /\ Took(Fail(State, in_loop = 0, "outside loop"))
  /\ UNCHANGED in_loop /\ Apart

Return ==
  /\ Visit("return") /\ Then(<<>>)
  /\ LET s == CheckExpr(Now.e, State)
     IN  Took(Fail(s, current # "" /\ marks[current].must_pristine /\ s.flag, "tainted return"))
  /\ UNCHANGED in_loop /\ Apart

Purge ==
  /\ Visit("purge") /\ Then(<<>>)
  /\ LET s == IF Now.to = "" THEN State ELSE CheckVarRef(Now.to, State)
     IN  Took(IF Now.to = ""
              THEN Fail(s, current # "" /\ marks[current].must_pristine, "pristine purges")
              ELSE Fail(s, ~Tainted(s), "purge into pristine"))
  /\ UNCHANGED in_loop /\ Apart

\* The steps after the blocks of clean and untaint: at and x name the symbol.
Residue(c, at) ==
  (IF c.residue = <<>> THEN <<>>
   ELSE <<Scope(c.err :> Symbol)>>
          \o FlattenSeq([i \in DOMAIN c.residue |-> c.residue[i].body])
          \o <<Closed(0), [k |-> "handled", at |-> at, x |-> c.x,
                           cases |-> {r.errs : r \in Range(c.residue)}]>>)

Clean ==
  /\ Visit("clean")
  /\ LET at == Lookup(scopes, Now.x)
     IN  IF at = 0
         THEN Then(<<>>) /\ Took(Fail(State, TRUE, "undefined variable"))
         ELSE /\ Then(<<Scope(Now.as :> Symbol)>> \o Now.body \o <<Closed(0)>> \o Residue(Now, at))
              /\ Took(Fail(State, ~scopes[at][Now.x].tainted, "not tainted"))
  /\ UNCHANGED in_loop /\ Apart

Untaint ==
  /\ Visit("untaint")
  /\ LET at == Lookup(scopes, Now.x)
     IN  IF at = 0
         THEN Then(<<>>) /\ Took(Fail(State, TRUE, "undefined variable"))
         ELSE /\ Then(Residue(Now, at) \o <<[k |-> "pristine", at |-> at, x |-> Now.x]>>)
              /\ Took(Fail(State, ~scopes[at][Now.x].tainted, "not tainted"))
  /\ UNCHANGED in_loop /\ Apart

Handled ==
  /\ Visit("handled") /\ Then(<<>>)
  /\ LET errs == scopes[Now.at][Now.x].errs
     IN  Took(Fail(State, errs # {} /\ ~Exhaustive(errs, Now.cases), "residue"))
  /\ UNCHANGED in_loop /\ Apart

Pristine ==
  /\ Visit("pristine") /\ Then(<<>>)
  /\ scopes' = [scopes EXCEPT ![Now.at][Now.x].pristine = TRUE, ![Now.at][Now.x].tainted = FALSE]
  /\ UNCHANGED <<marks, errors, in_loop>> /\ Apart

\* The program is accepted when nothing was reported; then it may run.
Finished == work = <<>> /\ next > Len(program.funcs)
Accepted == Finished /\ errors = {}
Run ==
  /\ Finished /\ broken = {"unknown"}
  /\ broken' = IF errors = {} THEN Reference!BrokenPromises(program) ELSE {}
  /\ UNCHANGED <<program, next, work, scopes, marks, current, in_loop, errors>>

Next == FuncDef \/ Open \/ Close \/ VarDecl \/ Assign \/ Expression \/ If \/ Switch \/ Loop
          \/ Defer \/ Exit \/ Return \/ Purge \/ Clean \/ Untaint \/ Handled \/ Pristine \/ Run

Spec == Init /\ [][Next]_vars

--------------------------------------------------------------------------------
TypeOK ==
  /\ \A at \in DOMAIN scopes : \A x \in DOMAIN scopes[at] : DOMAIN scopes[at][x] = DOMAIN Symbol
  /\ Len(scopes) >= 1
  /\ current \in DOMAIN marks \cup {""}
  /\ in_loop \in Nat

\* No run of an accepted program tests an error, keeps one in a pristine
\* variable, passes one for a pristine parameter, returns one from a function
\* that may not fail, or has a residue without a case for it: what the
\* pristine and tainted marks are for (README: "must be safely unwrapped").
ErrorsHandled ==
  broken \cap {"condition", "pristine", "argument", "result", "residue"} = {}

\* No run of an accepted program touches a global or calls an impure function
\* inside a function marked pure, iterates inside one marked total, or
\* assigns to an immutable variable.
MarksKept == broken \cap {"global", "impure", "loop", "assigned"} = {}
================================================================================
