------------------------------- MODULE Optlir -------------------------------
(***************************************************************************)
(* The control-flow passes of the ALIR optimiser (optlir_optimize) on one  *)
(* function: unreachable blocks are removed and empty ones forwarded at    *)
(* every level, constants are propagated, branches on them folded and      *)
(* blocks merged from level 2 on, and level 3 repeats all of it.  The      *)
(* passes on memory instructions do not touch the control flow and are     *)
(* not here.                                                               *)
(***************************************************************************)
EXTENDS Alir

CONSTANT MaxRounds   \* how often the highest level runs all passes

ASSUME RoundsAssumption == MaxRounds \in Nat \ {0}

VARIABLES blocks,    \* func->blocks
          level,     \* opt_level
          pass,      \* "waiting", the pass that runs next or is running, or "done"
          at,        \* the block a forwarding sweep is at
          changed,   \* whether the sweep has redirected anything
          rounds     \* the rounds left, this one included

opt == <<level, pass, at, changed, rounds>>
optVars == <<blocks, opt>>

-----------------------------------------------------------------------------
(***************************************************************************)
(* Reachability.  Every jump and branch of a reached block is followed,    *)
(* wherever in the block it stands.                                        *)
(***************************************************************************)
\* Mutant of Successors: only the branch taken on true is followed.
Successors_TrueOnly(b) ==
  {BlockOf(blocks, blocks[b].code[i].yes) : i \in DOMAIN blocks[b].code} \ {0}

Successors(b) ==
  {BlockOf(blocks, l) : l \in TargetsOf(blocks[b])} \ {0}

Reachable ==
  LET reach[n \in 0..Len(blocks)] ==
        IF n = 0 THEN {1}
        ELSE {1} \cup UNION {Successors(b) : b \in reach[n - 1]}
  IN  reach[Len(blocks)]

Kept(keep) ==
  LET kept[n \in 0..Len(blocks)] ==
        IF n = 0 THEN <<>>
        ELSE IF n \in keep THEN Append(kept[n - 1], blocks[n])
        ELSE kept[n - 1]
  IN  kept[Len(blocks)]

RemoveUnreachable ==
  /\ pass = "unreachable"
  /\ blocks' = Kept(Reachable)
  /\ pass' = "forward"
  /\ at' = 1
  /\ changed' = FALSE
  /\ UNCHANGED <<level, rounds>>

-----------------------------------------------------------------------------
(***************************************************************************)
(* Forwarding.  A block that holds nothing but a jump elsewhere, and is    *)
(* not the entry, is bypassed: whoever jumps to it jumps to its target.    *)
(* It is left jumping to itself, for the next round to remove.             *)
(***************************************************************************)
Redirect(inst, from, to) ==
  LET new(l) == IF l = from THEN to ELSE l
  IN  CASE inst.op = "jump"  -> Jump(new(inst.yes))
        [] inst.op = "condi" -> Condi(inst.arg, new(inst.yes), new(inst.no))
        [] OTHER             -> inst

Redirected(code, from, to) ==
  [i \in DOMAIN code |-> Redirect(code[i], from, to)]

Forwards(b) ==
  LET block == blocks[b]
  IN  /\ b # 1
      /\ Len(block.code) = 1
      /\ block.code[1].op = "jump"
      /\ block.code[1].yes # block.label

\* Mutant of ForwardBlock: the bypassed block keeps its jump.
ForwardBlock_KeepsJump ==
  /\ pass = "forward" /\ at \in DOMAIN blocks /\ Forwards(at)
  /\ LET from == blocks[at].label
         to   == blocks[at].code[1].yes
     IN  blocks' = [b \in DOMAIN blocks |->
                      [blocks[b] EXCEPT !.code = Redirected(@, from, to)]]
  /\ changed' = TRUE
  /\ at' = at + 1
  /\ UNCHANGED <<level, pass, rounds>>

ForwardBlock ==
  /\ pass = "forward" /\ at \in DOMAIN blocks /\ Forwards(at)
  /\ LET from == blocks[at].label
         to   == blocks[at].code[1].yes
     IN  blocks' = [b \in DOMAIN blocks |->
                      [blocks[b] EXCEPT !.code =
                         IF b = at THEN <<Jump(from)>>
                                   ELSE Redirected(@, from, to)]]
  /\ changed' = TRUE
  /\ at' = at + 1
  /\ UNCHANGED <<level, pass, rounds>>

PassBlock ==
  /\ pass = "forward" /\ at \in DOMAIN blocks /\ ~Forwards(at)
  /\ at' = at + 1
  /\ UNCHANGED <<blocks, level, pass, changed, rounds>>

SweepAgain ==
  /\ pass = "forward" /\ at \notin DOMAIN blocks /\ changed
  /\ at' = 1
  /\ changed' = FALSE
  /\ UNCHANGED <<blocks, level, pass, rounds>>

EndForward ==
  /\ pass = "forward" /\ at \notin DOMAIN blocks /\ ~changed
  /\ IF level >= 2 THEN pass' = "propagate" /\ UNCHANGED rounds
                   ELSE pass' = "done" /\ rounds' = rounds - 1
  /\ UNCHANGED <<blocks, level, at, changed>>

-----------------------------------------------------------------------------
(***************************************************************************)
(* Constants and branches on them.                                         *)
(***************************************************************************)
Value(c) == CASE c = <<"0?">> -> <<"0">>
              [] c = <<"1?">> -> <<"1">>
              [] OTHER        -> c

EachInst(f(_)) ==
  [b \in DOMAIN blocks |->
     [blocks[b] EXCEPT !.code = [i \in DOMAIN @ |-> f(@[i])]]]

Propagated(inst) ==
  IF inst.op = "condi" THEN [inst EXCEPT !.arg = Value(@)] ELSE inst

Folded(inst) ==
  IF inst.op = "condi" /\ inst.arg \in Literal
  THEN Jump(IF IsTrue(inst.arg) THEN inst.yes ELSE inst.no)
  ELSE inst

PropagateConstants ==
  /\ pass = "propagate"
  /\ blocks' = EachInst(Propagated)
  /\ pass' = "fold"
  /\ UNCHANGED <<level, at, changed, rounds>>

FoldBranches ==
  /\ pass = "fold"
  /\ blocks' = EachInst(Folded)
  /\ pass' = "merge"
  /\ UNCHANGED <<level, at, changed, rounds>>

-----------------------------------------------------------------------------
(***************************************************************************)
(* Merging.  A block that ends in a jump takes over the block it jumps to  *)
(* when no other block jumps there.  An edge from a block to itself is not *)
(* an edge of the predecessor lists.  The edges are built anew after each  *)
(* merge, and the blocks walked from the first again.                      *)
(***************************************************************************)
Edges(b, t) ==
  LET code == blocks[b].code
  IN  {<<b, i, "yes">> : i \in {j \in DOMAIN code :
         code[j].op \in {"jump", "condi"} /\ BlockOf(blocks, code[j].yes) = t}}
        \cup
      {<<b, i, "no">> : i \in {j \in DOMAIN code :
         code[j].op = "condi" /\ BlockOf(blocks, code[j].no) = t}}

Predecessors(t) == UNION {Edges(b, t) : b \in DOMAIN blocks \ {t}}

\* Mutant of Takes: the target may have other predecessors.
Takes_Shared(b, t) ==
  /\ blocks[b].code # <<>> /\ Last(blocks[b].code).op = "jump"
  /\ BlockOf(blocks, Last(blocks[b].code).yes) = t
  /\ t \notin {1, b}

Takes(b, t) ==
  /\ blocks[b].code # <<>> /\ Last(blocks[b].code).op = "jump"
  /\ BlockOf(blocks, Last(blocks[b].code).yes) = t
  /\ t \notin {1, b}
  /\ \E edge \in Predecessors(t) : Predecessors(t) = {edge}

\* Mutant of MergeBlocks: the jump stays in front of what is taken over.
MergeBlocks_KeepsJump ==
  /\ pass = "merge"
  /\ \E b, t \in DOMAIN blocks :
       /\ Takes(b, t)
       /\ \A c \in 1..(b - 1), u \in DOMAIN blocks : ~Takes(c, u)
       /\ LET code(c) == IF c = b THEN blocks[c].code \o blocks[t].code
                                  ELSE blocks[c].code
          IN  blocks' =
                RemoveAt([c \in DOMAIN blocks |->
                            [blocks[c] EXCEPT !.code =
                               Redirected(code(c), blocks[t].label,
                                          blocks[b].label)]], t)
  /\ UNCHANGED <<level, pass, at, changed, rounds>>

\* Mutant of MergeBlocks: the block that takes over is the one removed.
MergeBlocks_RemovesTaker ==
  /\ pass = "merge"
  /\ \E b, t \in DOMAIN blocks :
       /\ Takes(b, t)
       /\ \A c \in 1..(b - 1), u \in DOMAIN blocks : ~Takes(c, u)
       /\ LET code(c) == IF c = b THEN Front(blocks[c].code) \o blocks[t].code
                                  ELSE blocks[c].code
          IN  blocks' =
                RemoveAt([c \in DOMAIN blocks |->
                            [blocks[c] EXCEPT !.code =
                               Redirected(code(c), blocks[t].label,
                                          blocks[b].label)]], b)
  /\ UNCHANGED <<level, pass, at, changed, rounds>>

MergeBlocks ==
  /\ pass = "merge"
  /\ \E b, t \in DOMAIN blocks :
       /\ Takes(b, t)
       /\ \A c \in 1..(b - 1), u \in DOMAIN blocks : ~Takes(c, u)
       /\ LET code(c) == IF c = b THEN Front(blocks[c].code) \o blocks[t].code
                                  ELSE blocks[c].code
          IN  blocks' =
                RemoveAt([c \in DOMAIN blocks |->
                            [blocks[c] EXCEPT !.code =
                               Redirected(code(c), blocks[t].label,
                                          blocks[b].label)]], t)
  /\ UNCHANGED <<level, pass, at, changed, rounds>>

\* The end of a round over the function.
EndMerge ==
  /\ pass = "merge"
  /\ \A b, t \in DOMAIN blocks : ~Takes(b, t)
  /\ rounds' = rounds - 1
  /\ pass' = IF rounds > 1 THEN "unreachable" ELSE "done"
  /\ UNCHANGED <<blocks, level, at, changed>>

RoundsAt(l) == IF l >= 3 THEN MaxRounds ELSE 1

\* Until optlir_optimize is called at level l.
Waiting(l) ==
  /\ pass = "waiting"
  /\ level = l
  /\ at = 1
  /\ changed = FALSE
  /\ rounds = RoundsAt(l)

\* Level 0 has no passes.
BeginPasses ==
  /\ pass = "waiting"
  /\ pass' = IF level > 0 THEN "unreachable" ELSE "done"
  /\ UNCHANGED <<blocks, level, at, changed, rounds>>

Pass ==
  \/ RemoveUnreachable
  \/ ForwardBlock \/ PassBlock \/ SweepAgain \/ EndForward
  \/ PropagateConstants \/ FoldBranches
  \/ MergeBlocks \/ EndMerge

-----------------------------------------------------------------------------
\* No two blocks of a function have the same label, although the hints are
\* counted in a table shared by all functions (alir_add_block).
UniqueLabels ==
  \A b, c \in DOMAIN blocks : blocks[b].label = blocks[c].label => b = c

\* The optimiser on any function that alick accepted, whatever it was lowered
\* from: labels are unique, and no block jumps to the entry.
OptInit ==
  /\ blocks \in Function
  /\ Accepted(blocks)
  /\ UniqueLabels
  /\ \A b \in DOMAIN blocks : blocks[1].label \notin TargetsOf(blocks[b])
  /\ \E l \in 0..3 : Waiting(l)

OptSpec == OptInit /\ [][BeginPasses \/ Pass]_optVars

-----------------------------------------------------------------------------
\* What alick has accepted it would accept again after every step of every
\* pass, and so after the optimiser (main.c: "Error occured in alick after
\* optimization"): no block runs into the next, and none branches to a block
\* that was removed or renamed.
StaysAccepted == pass # "waiting" => Accepted(blocks)

\* The entry of a function is its entry to the end: no pass removes it,
\* merges it away or puts a block before it.
EntryStays ==
  [][pass # "waiting" => blocks'[1].label = blocks[1].label]_optVars

=============================================================================
