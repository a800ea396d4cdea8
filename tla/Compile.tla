------------------------------ MODULE Compile -------------------------------
(***************************************************************************)
(* One function on its way through the compiler, as alkyl_main drives it:  *)
(* it is lowered, checked by alick, optimised at the level asked for,      *)
(* checked again and then executed.  Lowering and Optlir share the blocks. *)
(* Execution goes in lock step with the reference meaning of the           *)
(* statements the function was lowered from: each observable event is      *)
(* taken by both, and what the two offer next can be compared.             *)
(***************************************************************************)
EXTENDS Alir, Statements, Optlir

CONSTANTS Jobs,      \* what is compiled: pairs of a function body and a level
          Fuel,      \* silent steps after which a run is taken to hang
          MaxTodo,   \* no lowering has more tasks at once
          CheckHint  \* the hints of the tests of a switch

ASSUME LevelAssumption == \A job \in Jobs : job[2] \in 0..3
ASSUME FuelAssumption == Fuel \in Nat /\ MaxTodo \in Nat
\* The code has room for 64 cases.
ASSUME CheckAssumption ==
  CheckHint \in Seq(STRING) /\ Len(CheckHint) \in 0..63 /\ "entry" \notin Range(CheckHint)

\* What the provers do not know of the names in the source.
ASSUME NameAssumption ==
  {"entry", "then", "else", "merge", "while_cond", "while_body", "while_end",
   "loop_body", "loop_end", "for_cond", "for_body", "for_end", "switch_end",
   "switch_default", "case", "init", "more", "step", "eq"} \subseteq STRING

VARIABLES todo, current, uses, loops, defers, closing,
          phase,     \* how far the function has come
          pc,        \* where the execution of the blocks is
          src        \* what is left of the statements

low == <<todo, current, uses, loops, defers, closing>>
run == <<pc, src>>
vars == <<blocks, low, opt, run, phase>>

L == INSTANCE Lowering

-----------------------------------------------------------------------------
Init ==
  /\ \E job \in Jobs :
       /\ todo = L!Stmts(job[1])
       /\ src = Begin(job[1], Fuel)
       /\ Waiting(job[2])
  /\ L!Init
  /\ phase = "lower"
  /\ pc = Start

Lower ==
  /\ phase = "lower" /\ L!Next
  /\ UNCHANGED <<opt, run, phase>>

\* alick runs once on every function; an error ends the compilation.
Check ==
  /\ phase = "lower" /\ L!Lowered
  /\ \/ Accepted(blocks) /\ phase' = "optimise" /\ BeginPasses
     \/ ~Accepted(blocks) /\ phase' = "rejected" /\ UNCHANGED <<blocks, opt>>
  /\ UNCHANGED <<low, run>>

Optimise ==
  /\ phase = "optimise" /\ Pass
  /\ UNCHANGED <<low, run, phase>>

\* alick runs a second time, on what the optimiser left.
Recheck ==
  /\ phase = "optimise" /\ pass = "done"
  /\ phase' = IF level = 0 \/ Accepted(blocks) THEN "run" ELSE "broken"
  /\ pc' = Settle(blocks, Start, Fuel)
  /\ UNCHANGED <<blocks, low, opt, src>>

\* One observable event of the execution.
Run ==
  /\ phase = "run"
  /\ \E event \in Offers(blocks, pc) \cap Expects(src) :
       IF Stops(event)
       THEN phase' = "stopped" /\ UNCHANGED run
       ELSE /\ pc' = After(blocks, pc, event, Fuel)
            /\ src' = Observed(src, event, Fuel)
            /\ UNCHANGED phase
  /\ UNCHANGED <<blocks, low, opt>>

Next == Lower \/ Check \/ Optimise \/ Recheck \/ Run

Spec == Init /\ [][Next]_vars

\* The compiler is one sequential program: as long as the generator, alick or
\* the optimiser has a step to take it takes it.
FairSpec == Spec /\ WF_vars(Lower \/ Check \/ Optimise)

-----------------------------------------------------------------------------
(***************************************************************************)
(* The statements the lowering handles.  F is a set of statements that     *)
(* holds the parts of its members.  W is the part of it after which the    *)
(* block at hand is still open: two generators do not look at whether it   *)
(* is, the one of a counted loop, which jumps back behind its body, and    *)
(* the one of return, which returns behind the deferred statements.  Left  *)
(* out are "while once" and a switch with no case at all, which leave the  *)
(* block before them without an end.  A meta block has no blocks inside.   *)
(***************************************************************************)
Kinds ==
  {"call", "if", "while", "loop", "for", "switch", "case", "leak",
   "break", "continue", "return", "purge", "defer", "meta"}

Handled(F, W) ==
  /\ W \subseteq F
  /\ \A s \in F :
       /\ s \in [kind : Kinds, name : Seq(STRING), body : Seq(F), other : Seq(F)]
       /\ s.kind = "switch" => Len(s.body) \in 1..(Len(CheckHint) + 1)
       /\ s.kind = "loop"   => s.body \in Seq(W)
       /\ s.kind = "defer"  => SubSeq(s.body, 1, 1) \in Seq(W)
       /\ s.kind = "meta"   => \A i \in DOMAIN s.body :
            s.body[i].kind \in {"call", "break", "continue", "return", "purge", "defer"}
  /\ \A s \in W :
       /\ s.kind \in {"call", "if", "while", "loop", "for", "switch", "defer", "meta"}
       /\ s.kind = "if" /\ s.name \in Literal => s.body \in Seq(W) /\ s.other \in Seq(W)

-----------------------------------------------------------------------------
Optimising == phase = "optimise"

\* The state has the shape of the structures it stands for.
TypeOK ==
  /\ phase \in {"lower", "rejected", "optimise", "broken", "run", "stopped"}
  /\ pass \in {"waiting", "unreachable", "forward", "propagate", "fold", "merge", "done"}
  /\ level \in 0..3 /\ rounds \in 0..MaxRounds /\ changed \in BOOLEAN
  /\ at \in 1..(Len(blocks) + 1) \/ pass # "forward"
  /\ current \in 1..Len(blocks) \/ phase # "lower"
  /\ Len(loops) >= 1 /\ closing \in BOOLEAN /\ Len(todo) <= MaxTodo
  /\ \A b \in DOMAIN blocks : \A i \in DOMAIN blocks[b].code :
       blocks[b].code[i].op \in {"call", "jump", "condi", "ret", "panic"}

\* What runs is what was written: at every point of every execution the
\* compiled function offers exactly the calls, tests and ends that the
\* statements call for there (alir_gen_stmt, optlir_optimize).
SameBehaviour == phase = "run" => Offers(blocks, pc) = Expects(src)

\* The lowering gives alick no function to reject (alick_check_cfg).
LoweringAccepted == phase # "rejected"

\* No pass leaves a jump to a block it has removed or renamed, or makes one to
\* the entry, which neither LLVM nor QBE allows: between any two steps of the
\* optimiser every label named is the label of a block other than the entry
\* (forward_empty_blocks_function, merge_blocks_function).
NoLostJump ==
  Optimising =>
    \A b \in DOMAIN blocks :
      TargetsOf(blocks[b]) \subseteq Labels(blocks) \ {<<"entry", 1>>}

\* The compiler finishes: no list of empty blocks keeps the forwarding sweep
\* busy, no function is merged forever.
Finishes == <>(phase # "lower" /\ (Optimising => pass = "done"))
=============================================================================
