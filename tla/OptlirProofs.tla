---------------------------- MODULE OptlirProofs ----------------------------
(***************************************************************************)
(* The control-flow passes keep a function well formed, for every function *)
(* that alick accepted, at every level and for any number of rounds: each  *)
(* block still ends in its one terminator, every label a block names is    *)
(* the label of exactly one block, and the entry stays where it is.        *)
(***************************************************************************)
EXTENDS Optlir, Iterations, FiniteSetTheorems

(* A pass may bring a branch to the entry only where a loop was taken over
   by it, which only merging does. *)
EntryJumps ==
  \A b \in DOMAIN blocks :
    blocks[1].label \in TargetsOf(blocks[b]) => b = 1 /\ level >= 2

Running == {"unreachable", "forward", "propagate", "fold", "merge"}

(* The inductive invariant. *)
OptInv ==
  /\ blocks \in Function
  /\ Accepted(blocks)
  /\ UniqueLabels
  /\ EntryJumps
  /\ level \in 0..3
  /\ pass \in Running \cup {"waiting", "done"}
  /\ pass \in {"propagate", "fold", "merge"} => level >= 2
-----------------------------------------------------------------------------
(* A function has an entry, and its blocks their shape. *)
LEMMA FunctionFacts ==
  ASSUME NEW f \in Function
  PROVE  /\ f \in Seq(Block) /\ Len(f) \in Nat \ {0} /\ DOMAIN f = 1 .. Len(f)
         /\ 1 \in DOMAIN f
         /\ \A b \in DOMAIN f : /\ f[b] \in Block
                                /\ f[b].label \in Label /\ f[b].code \in Seq(Instruction)
                                /\ f[b].code # <<>> => Len(f[b].code) \in Nat \ {0}
                                /\ DOMAIN f[b].code = 1 .. Len(f[b].code)
                                /\ Len(f[b].code) \in Nat
<1>1. f \in Seq(Block) /\ f # <<>>
  BY DEF Function
<1>2. Len(f) \in Nat \ {0} /\ DOMAIN f = 1 .. Len(f)
  BY <1>1, EmptySeq, LenProperties
<1>3. \A b \in DOMAIN f : f[b] \in Block
  BY <1>1, <1>2
<1>4. \A b \in DOMAIN f : f[b].label \in Label /\ f[b].code \in Seq(Instruction)
  BY <1>3 DEF Block
<1> QED BY <1>1, <1>2, <1>3, <1>4, EmptySeq, LenProperties

(* The block of a label that a block carries is that block. *)
LEMMA BlockOfLabel ==
  ASSUME NEW f \in Function, NEW l \in Labels(f)
  PROVE  BlockOf(f, l) \in DOMAIN f /\ f[BlockOf(f, l)].label = l
<1> DEFINE I == {i \in 1 .. Len(f) : f[i].label = l}
<1>1. I # {} /\ I \in SUBSET Nat
  BY FunctionFacts DEF Labels
<1>2. BlockOf(f, l) = Min(I)
  BY <1>1 DEF BlockOf, SelectInSeq
<1>3. \E n \in I : \A m \in I : n =< m
  BY <1>1, LeastNatural
<1>4. Min(I) \in I
  BY <1>3 DEF Min
<1> QED BY <1>2, <1>4, FunctionFacts
-----------------------------------------------------------------------------
(* Code as alick wants it. *)
GoodCode(code, labels) ==
  /\ code # <<>>
  /\ IsTerminator(code[Len(code)])
  /\ \A i \in 1 .. (Len(code) - 1) : ~IsTerminator(code[i])
  /\ Targets(code[Len(code)]) \subseteq labels

LEMMA AcceptedIsGood ==
  ASSUME NEW f
  PROVE  Accepted(f) <=> \A b \in DOMAIN f : GoodCode(f[b].code, Labels(f))
BY DEF Accepted, CfgError, GoodCode, Last

(* The labels good code names are those of its last instruction. *)
LEMMA GoodTargets ==
  ASSUME NEW c \in Block, NEW labels, GoodCode(c.code, labels)
  PROVE  /\ TargetsOf(c) = Targets(c.code[Len(c.code)])
         /\ TargetsOf(c) \subseteq labels
<1>1. c.code \in Seq(Instruction) /\ c.code # <<>>
  BY DEF Block, GoodCode
<1>2. Len(c.code) \in Nat \ {0} /\ DOMAIN c.code = 1 .. Len(c.code)
  BY <1>1, EmptySeq, LenProperties
<1>3. \A i \in 1 .. (Len(c.code) - 1) : Targets(c.code[i]) = {}
  BY DEF GoodCode, IsTerminator, Targets
<1>4. TargetsOf(c) = Targets(c.code[Len(c.code)])
  <2>1. \A i \in DOMAIN c.code : i = Len(c.code) \/ i \in 1 .. (Len(c.code) - 1)
    BY <1>2
  <2>2. Len(c.code) \in DOMAIN c.code
    BY <1>2
  <2> QED BY <1>3, <2>1, <2>2 DEF TargetsOf
<1> QED BY <1>4 DEF GoodCode

(* Whatever names labels in an accepted function names existing ones. *)
LEMMA TargetsExist ==
  ASSUME NEW f \in Function, Accepted(f), NEW b \in DOMAIN f
  PROVE  /\ GoodCode(f[b].code, Labels(f))
         /\ TargetsOf(f[b]) = Targets(f[b].code[Len(f[b].code)])
         /\ TargetsOf(f[b]) \subseteq Labels(f)
BY AcceptedIsGood, GoodTargets, FunctionFacts
-----------------------------------------------------------------------------
(* One more step of the search from the entry. *)
Search(S) == {1} \cup UNION {Successors(b) : b \in S}

LEMMA SuccessorsExist ==
  ASSUME blocks \in Function, Accepted(blocks), NEW b \in DOMAIN blocks
  PROVE  Successors(b) \subseteq DOMAIN blocks
BY TargetsExist, BlockOfLabel DEF Successors

(* The search ends with all that can be reached: it takes no more steps than
   there are blocks, as each one that finds anything finds a new block. *)
LEMMA ReachableIsClosed ==
  ASSUME blocks \in Function, Accepted(blocks)
  PROVE  /\ Reachable \subseteq DOMAIN blocks /\ 1 \in Reachable
         /\ \A b \in Reachable : Successors(b) \subseteq Reachable
<1> DEFINE K == Len(blocks)
           T == SUBSET DOMAIN blocks
           step == [n \in 1 .. K |-> [S \in T |-> Search(S)]]
           Step(reach) == [n \in 0 .. K |-> IF n = 0 THEN {1} ELSE Search(reach[n - 1])]
           reach == CHOOSE f : f = Step(f)
<1>1. K \in Nat \ {0} /\ DOMAIN blocks = 1 .. K /\ 1 \in DOMAIN blocks
  BY FunctionFacts
<1>2. \A S \in T : Search(S) \in T
  BY <1>1, SuccessorsExist DEF Search
<1>3. reach = Step(reach)
  <2>1. IsSteps(step, K, T) /\ {1} \in T
    BY <1>1, <1>2 DEF IsSteps
  <2>2. \A n \in 1 .. K, S \in T : step[n][S] = Search(S)
    OBVIOUS
  <2> HIDE DEF step, T, K
  <2>3. PICK f : IsRun(f, K, T, {1}, step)
    BY <1>1, <2>1, Iteration
  <2>4. f \in [0 .. K -> T] /\ f[0] = {1} /\ \A n \in 1 .. K : f[n] = step[n][f[n - 1]]
    BY <2>3 DEF IsRun
  <2>5. \A n \in 1 .. K : f[n - 1] \in T
    BY <1>1, <2>4
  <2>6. \A n \in 1 .. K : f[n] = Search(f[n - 1])
    BY <2>2, <2>4, <2>5
  <2>7. f = Step(f)
    <3>1. \A n \in 0 .. K : n # 0 => n \in 1 .. K
      BY <1>1
    <3> QED BY <2>4, <2>6, <3>1
  <2> QED BY <2>7
<1>4. Reachable = reach[K]
  BY DEF Reachable, Search
<1> HIDE DEF reach
<1> HIDE DEF K
<1>5. reach[0] = {1} /\ \A n \in 1 .. K : reach[n] = Search(reach[n - 1])
  <2> DEFINE next == Step(reach)
  <2>1. next[0] = {1} /\ \A n \in 1 .. K : next[n] = Search(reach[n - 1])
    BY <1>1
  <2>2. reach = next
    BY <1>3
  <2> HIDE DEF next
  <2> QED BY <2>1, <2>2
<1> HIDE DEF Step
<1> DEFINE Holds(n) == /\ reach[n] \in T
                       /\ reach[n] \subseteq Search(reach[n])
                       /\ Cardinality(reach[n]) > n \/ Search(reach[n]) = reach[n]
           P == {n \in 0 .. K : Holds(n)}
<1>6. \A R \in T : IsFiniteSet(R) /\ Cardinality(R) \in Nat /\ Cardinality(R) =< K
  <2>1. IsFiniteSet(DOMAIN blocks) /\ Cardinality(DOMAIN blocks) = K
    BY <1>1, FS_Interval
  <2> QED BY <2>1, FS_Subset, FS_CardinalityType
<1>7. 0 \in P
  <2>1. reach[0] = {1} /\ Cardinality(reach[0]) = 1
    BY <1>5, FS_Singleton
  <2>2. reach[0] \in T /\ reach[0] \subseteq Search(reach[0])
    BY <1>1, <2>1 DEF Search
  <2>3. Holds(0)
    BY <2>1, <2>2
  <2> HIDE DEF Holds
  <2> QED BY <1>1, <2>3
<1>8. ASSUME NEW n \in 1 .. K, n - 1 \in P PROVE n \in P
  <2> DEFINE R == reach[n - 1]
  <2>1. /\ R \in T /\ R \subseteq Search(R) /\ reach[n] = Search(R)
        /\ Cardinality(R) > n - 1 \/ Search(R) = R
    BY <1>5, <1>8
  <2> HIDE DEF R
  <2>2. reach[n] \in T
    BY <1>2, <2>1
  <2>3. reach[n] \subseteq Search(reach[n])
    BY <2>1 DEF Search
  <2>4. Cardinality(reach[n]) > n \/ Search(reach[n]) = reach[n]
    <3>1. CASE Search(R) = R
      BY <2>1, <3>1
    <3>2. CASE Search(R) # R
      <4>1. PICK x \in reach[n] : x \notin R
        BY <2>1, <3>2
      <4>2. IsFiniteSet(reach[n]) /\ IsFiniteSet(R)
        BY <1>6, <2>1, <2>2
      <4>3. IsFiniteSet(R \cup {x}) /\ Cardinality(R \cup {x}) = Cardinality(R) + 1
        BY <4>1, <4>2, FS_AddElement
      <4>4. R \cup {x} \subseteq reach[n]
        BY <2>1, <4>1
      <4>5. Cardinality(R \cup {x}) =< Cardinality(reach[n])
        BY <4>2, <4>4, FS_Subset
      <4>6. Cardinality(R) \in Nat /\ Cardinality(reach[n]) \in Nat
        BY <4>2, FS_CardinalityType
      <4> QED BY <2>1, <3>2, <4>3, <4>5, <4>6
    <3> QED BY <3>1, <3>2
  <2> QED BY <2>2, <2>3, <2>4
<1>9. Holds(K)
  <2> HIDE DEF P
  <2>1. 0 .. K \subseteq P
    BY <1>1, <1>7, <1>8, InductionUpTo
  <2>2. K \in P
    BY <1>1, <2>1
  <2> QED BY <2>2 DEF P
<1>10. Search(reach[K]) = reach[K]
  <2>1. Cardinality(reach[K]) =< K /\ Cardinality(reach[K]) \in Nat
    BY <1>6, <1>9
  <2> QED BY <1>1, <1>9, <2>1
<1> QED BY <1>4, <1>9, <1>10 DEF Search

(* g is made of the blocks of f at the places in keep, one each. *)
Selects(g, f, keep) ==
  /\ g \in Seq(Block)
  /\ \A j \in DOMAIN g : \E i \in keep : g[j] = f[i]
  /\ \A i \in keep : \E j \in DOMAIN g : g[j] = f[i]
  /\ \A j, k \in DOMAIN g : g[j].label = g[k].label => j = k

LEMMA SelectsMore ==
  ASSUME NEW f \in Function, NEW g, NEW keep, NEW n \in DOMAIN f,
         keep \subseteq DOMAIN f, n \notin keep,
         \A i, j \in DOMAIN f : f[i].label = f[j].label => i = j,
         Selects(g, f, keep)
  PROVE  /\ Selects(Append(g, f[n]), f, keep \cup {n})
         /\ g # <<>> => Append(g, f[n])[1] = g[1]
         /\ g = <<>> => Append(g, f[n])[1] = f[n]
<1> DEFINE h == Append(g, f[n])
<1>1. f[n] \in Block /\ g \in Seq(Block)
  BY FunctionFacts DEF Selects
<1>2. /\ h \in Seq(Block) /\ Len(h) = Len(g) + 1 /\ Len(g) \in Nat
      /\ DOMAIN g = 1 .. Len(g) /\ DOMAIN h = 1 .. (Len(g) + 1)
      /\ h[Len(g) + 1] = f[n] /\ \A j \in DOMAIN g : h[j] = g[j]
  BY <1>1, AppendProperties, LenProperties
<1> HIDE DEF h
<1>3. \A j \in DOMAIN h : j \in DOMAIN g \/ j = Len(g) + 1
  BY <1>2
<1>4. DOMAIN g \subseteq DOMAIN h /\ Len(g) + 1 \in DOMAIN h
  BY <1>2
<1>5. \A j \in DOMAIN h : \E i \in keep \cup {n} : h[j] = f[i]
  BY <1>2, <1>3 DEF Selects
<1>6. \A i \in keep \cup {n} : \E j \in DOMAIN h : h[j] = f[i]
  BY <1>2, <1>4 DEF Selects
<1>7. \A j \in DOMAIN g : g[j].label # f[n].label
  BY DEF Selects
<1>8. \A j, k \in DOMAIN h : h[j].label = h[k].label => j = k
  BY <1>2, <1>3, <1>7 DEF Selects
<1>9. (g # <<>> => h[1] = g[1]) /\ (g = <<>> => h[1] = f[n])
  <2>1. CASE g = <<>>
    BY <1>2, <2>1, EmptySeq
  <2>2. CASE g # <<>>
    <3>1. 1 \in DOMAIN g
      BY <1>1, <1>2, <2>2, EmptySeq
    <3> QED BY <1>2, <2>2, <3>1
  <2> QED BY <2>1, <2>2
<1> QED BY <1>2, <1>5, <1>6, <1>8, <1>9 DEF Selects, h

LEMMA KeptIsSelection ==
  ASSUME blocks \in Function, UniqueLabels,
         NEW keep \in SUBSET DOMAIN blocks, 1 \in keep
  PROVE  /\ Selects(Kept(keep), blocks, keep)
         /\ Kept(keep) # <<>> /\ Kept(keep)[1] = blocks[1]
<1> DEFINE K == Len(blocks)
           T == Seq(Block)
           More(n, g) == IF n \in keep THEN Append(g, blocks[n]) ELSE g
           step == [n \in 1 .. K |-> [g \in T |-> More(n, g)]]
           Step(kept) == [n \in 0 .. K |-> IF n = 0 THEN <<>> ELSE More(n, kept[n - 1])]
           kept == CHOOSE f : f = Step(f)
<1>1. K \in Nat \ {0} /\ DOMAIN blocks = 1 .. K /\ \A n \in 1 .. K : blocks[n] \in Block
  BY FunctionFacts
<1>2. \A n \in 1 .. K : \A g \in T : More(n, g) \in T
  BY <1>1, AppendProperties
<1>3. kept = Step(kept)
  <2>1. IsSteps(step, K, T) /\ <<>> \in T
    BY <1>1, <1>2, EmptySeq DEF IsSteps
  <2>2. \A n \in 1 .. K, g \in T : step[n][g] = More(n, g)
    OBVIOUS
  <2> HIDE DEF step, T, K, More
  <2>3. PICK f : IsRun(f, K, T, <<>>, step)
    BY <1>1, <2>1, Iteration
  <2>4. f \in [0 .. K -> T] /\ f[0] = <<>> /\ \A n \in 1 .. K : f[n] = step[n][f[n - 1]]
    BY <2>3 DEF IsRun
  <2>5. \A n \in 1 .. K : f[n - 1] \in T
    BY <1>1, <2>4
  <2>6. \A n \in 1 .. K : f[n] = More(n, f[n - 1])
    BY <2>2, <2>4, <2>5
  <2>7. f = Step(f)
    <3>1. \A n \in 0 .. K : n # 0 => n \in 1 .. K
      BY <1>1
    <3> QED BY <2>4, <2>6, <3>1
  <2> QED BY <2>7
<1>4. Kept(keep) = kept[K]
  BY DEF Kept
<1> HIDE DEF kept
<1> HIDE DEF K
<1>5. kept[0] = <<>> /\ \A n \in 1 .. K : kept[n] = More(n, kept[n - 1])
  <2> DEFINE next == Step(kept)
  <2> HIDE DEF More
  <2>1. next[0] = <<>> /\ \A n \in 1 .. K : next[n] = More(n, kept[n - 1])
    BY <1>1
  <2>2. kept = next
    BY <1>3
  <2> HIDE DEF next
  <2> QED BY <2>1, <2>2
<1> HIDE DEF Step
<1> DEFINE Upto(n) == keep \cap (1 .. n)
           Holds(n) == /\ Selects(kept[n], blocks, Upto(n))
                       /\ n > 0 => kept[n] # <<>> /\ kept[n][1] = blocks[1]
           P == {n \in 0 .. K : Holds(n)}
<1>6. 0 \in P
  <2>1. Upto(0) = {} /\ DOMAIN kept[0] = {} /\ kept[0] \in Seq(Block)
    BY <1>5, EmptySeq
  <2>2. Holds(0)
    BY <2>1 DEF Selects
  <2> HIDE DEF Holds
  <2> QED BY <1>1, <2>2
<1>7. ASSUME NEW n \in 1 .. K, n - 1 \in P PROVE n \in P
  <2>1. /\ Selects(kept[n - 1], blocks, Upto(n - 1))
        /\ n > 1 => kept[n - 1] # <<>> /\ kept[n - 1][1] = blocks[1]
        /\ kept[n] = More(n, kept[n - 1])
    BY <1>5, <1>7
  <2>2. CASE n \in keep
    <3>1. /\ n \in DOMAIN blocks /\ Upto(n - 1) \subseteq DOMAIN blocks
          /\ n \notin Upto(n - 1) /\ Upto(n) = Upto(n - 1) \cup {n}
          /\ kept[n] = Append(kept[n - 1], blocks[n])
      BY <1>1, <2>1, <2>2
    <3>2. \A i, j \in DOMAIN blocks : blocks[i].label = blocks[j].label => i = j
      BY DEF UniqueLabels
    <3> HIDE DEF Upto
    <3>3. /\ Selects(kept[n], blocks, Upto(n))
          /\ kept[n - 1] # <<>> => kept[n][1] = kept[n - 1][1]
          /\ kept[n - 1] = <<>> => kept[n][1] = blocks[n]
      BY <2>1, <3>1, <3>2, SelectsMore
    <3>4. kept[n] # <<>>
      BY <2>1, <3>1, <1>1, AppendProperties, EmptySeq DEF Selects
    <3>5. n = 1 => kept[n - 1] = <<>>
      BY <1>5
    <3>6. Holds(n)
      BY <2>1, <3>3, <3>4, <3>5
    <3> HIDE DEF Holds
    <3> QED BY <3>6
  <2>3. CASE n \notin keep
    <3>1. Upto(n) = Upto(n - 1) /\ kept[n] = kept[n - 1] /\ n > 1
      BY <2>1, <2>3
    <3> HIDE DEF Upto
    <3>2. Holds(n)
      BY <2>1, <3>1
    <3> HIDE DEF Holds
    <3> QED BY <3>2
  <2> QED BY <2>2, <2>3
<1>8. Holds(K)
  <2> HIDE DEF P
  <2>1. 0 .. K \subseteq P
    BY <1>1, <1>6, <1>7, InductionUpTo
  <2>2. K \in P
    BY <1>1, <2>1
  <2> QED BY <2>2 DEF P
<1>9. Upto(K) = keep
  BY <1>1
<1> HIDE DEF Upto
<1> QED BY <1>1, <1>4, <1>8, <1>9
-----------------------------------------------------------------------------
(* Removing what cannot be reached. *)
LEMMA RemoveUnreachableInv == OptInv /\ RemoveUnreachable => OptInv' /\ blocks'[1].label = blocks[1].label
<1> SUFFICES ASSUME OptInv, RemoveUnreachable
             PROVE  OptInv' /\ blocks'[1].label = blocks[1].label
  OBVIOUS
<1> DEFINE R == Reachable
<1>1. /\ blocks \in Function /\ Accepted(blocks) /\ UniqueLabels /\ EntryJumps
      /\ blocks' = Kept(R) /\ pass' = "forward" /\ level' = level /\ level \in 0..3
  BY DEF OptInv, RemoveUnreachable
<1>2. /\ R \subseteq DOMAIN blocks /\ 1 \in R
      /\ \A b \in R : Successors(b) \subseteq R
  BY <1>1, ReachableIsClosed
<1> HIDE DEF R
<1>3. Selects(blocks', blocks, R) /\ blocks' # <<>> /\ blocks'[1] = blocks[1]
  BY <1>1, <1>2, KeptIsSelection
<1>4. blocks' \in Function /\ UniqueLabels'
  BY <1>3 DEF Selects, Function, UniqueLabels
<1>5. \A i \in R : TargetsOf(blocks[i]) \subseteq Labels(blocks')
  <2> SUFFICES ASSUME NEW i \in R, NEW l \in TargetsOf(blocks[i]) PROVE l \in Labels(blocks')
    OBVIOUS
  <2>1. l \in Labels(blocks)
    BY <1>1, <1>2, TargetsExist
  <2>2. BlockOf(blocks, l) \in DOMAIN blocks /\ blocks[BlockOf(blocks, l)].label = l
    BY <1>1, <2>1, BlockOfLabel
  <2>3. BlockOf(blocks, l) # 0
    BY <1>1, <2>2, FunctionFacts
  <2>4. BlockOf(blocks, l) \in R
    BY <1>2, <2>2, <2>3 DEF Successors
  <2> QED BY <1>3, <2>2, <2>4 DEF Selects, Labels
<1>6. Accepted(blocks')
  <2> SUFFICES ASSUME NEW j \in DOMAIN blocks' PROVE GoodCode(blocks'[j].code, Labels(blocks'))
    BY AcceptedIsGood
  <2>1. PICK i \in R : blocks'[j] = blocks[i]
    BY <1>3 DEF Selects
  <2>2. /\ GoodCode(blocks[i].code, Labels(blocks))
        /\ Targets(blocks[i].code[Len(blocks[i].code)]) \subseteq Labels(blocks')
    BY <1>1, <1>2, <1>5, TargetsExist
  <2> QED BY <2>1, <2>2 DEF GoodCode
<1>7. EntryJumps'
  <2> SUFFICES ASSUME NEW j \in DOMAIN blocks', blocks'[1].label \in TargetsOf(blocks'[j])
               PROVE  j = 1 /\ level' >= 2
    BY DEF EntryJumps
  <2>1. PICK i \in R : blocks'[j] = blocks[i]
    BY <1>3 DEF Selects
  <2>2. i = 1 /\ level >= 2
    BY <1>1, <1>2, <1>3, <2>1 DEF EntryJumps
  <2>3. 1 \in DOMAIN blocks'
    BY <1>4, FunctionFacts
  <2>4. blocks'[j].label = blocks'[1].label
    BY <1>3, <2>1, <2>2
  <2>5. j = 1
    BY <2>3, <2>4, <1>3 DEF Selects
  <2> QED BY <1>1, <2>2, <2>5
<1> QED BY <1>1, <1>3, <1>4, <1>6, <1>7 DEF OptInv, Running
-----------------------------------------------------------------------------
(* Code that is changed instruction by instruction. *)
LEMMA RedirectFacts ==
  ASSUME NEW inst \in Instruction, NEW from \in Label, NEW to \in Label
  PROVE  /\ Redirect(inst, from, to) \in Instruction
         /\ IsTerminator(Redirect(inst, from, to)) <=> IsTerminator(inst)
         /\ \A l \in Targets(Redirect(inst, from, to)) :
              \/ l \in Targets(inst) /\ l # from
              \/ l = to /\ from \in Targets(inst)
<1>1. /\ inst.yes \in Label \cup {NoLabel} /\ inst.no \in Label \cup {NoLabel}
      /\ inst.arg \in Operand /\ <<>> \in Operand
  BY EmptySeq DEF Instruction, Operand
<1>2. CASE inst.op = "jump"
  <2> DEFINE y == IF inst.yes = from THEN to ELSE inst.yes
  <2>1. Redirect(inst, from, to) = [op |-> "jump", arg |-> <<>>, yes |-> y, no |-> NoLabel]
    BY <1>2 DEF Redirect, Jump, Inst
  <2>2. y \in Label \cup {NoLabel}
    BY <1>1
  <2>3. Targets(inst) = {inst.yes} /\ Targets(Redirect(inst, from, to)) = {y}
    BY <1>2, <2>1 DEF Targets
  <2> QED BY <1>1, <1>2, <2>1, <2>2, <2>3 DEF Instruction, IsTerminator
<1>3. CASE inst.op = "condi"
  <2> DEFINE y == IF inst.yes = from THEN to ELSE inst.yes
             n == IF inst.no = from THEN to ELSE inst.no
  <2>1. Redirect(inst, from, to) = [op |-> "condi", arg |-> inst.arg, yes |-> y, no |-> n]
    BY <1>3 DEF Redirect, Condi, Inst
  <2>2. y \in Label \cup {NoLabel} /\ n \in Label \cup {NoLabel}
    BY <1>1
  <2>3. Targets(inst) = {inst.yes, inst.no} /\ Targets(Redirect(inst, from, to)) = {y, n}
    BY <1>3, <2>1 DEF Targets
  <2> QED BY <1>1, <1>3, <2>1, <2>2, <2>3 DEF Instruction, IsTerminator
<1>4. CASE inst.op \notin {"jump", "condi"}
  <2>1. Redirect(inst, from, to) = inst /\ Targets(inst) = {}
    BY <1>4 DEF Redirect, Targets
  <2> QED BY <2>1
<1> QED BY <1>2, <1>3, <1>4

(* d has the shape of c: terminators stand where they stood. *)
SameShape(d, c) ==
  /\ d \in Seq(Instruction)
  /\ Len(d) = Len(c)
  /\ \A i \in 1 .. Len(c) : IsTerminator(d[i]) <=> IsTerminator(c[i])

LEMMA ShapeIsGood ==
  ASSUME NEW c \in Seq(Instruction), NEW d, NEW labels, NEW new,
         SameShape(d, c), GoodCode(c, labels), Targets(d[Len(d)]) \subseteq new
  PROVE  GoodCode(d, new)
<1>1. Len(c) \in Nat \ {0}
  BY EmptySeq, LenProperties DEF GoodCode
<1>2. d # <<>>
  BY <1>1, EmptySeq DEF SameShape
<1> QED BY <1>1, <1>2 DEF GoodCode, SameShape

LEMMA RedirectedCode ==
  ASSUME NEW c \in Seq(Instruction), NEW from \in Label, NEW to \in Label
  PROVE  /\ SameShape(Redirected(c, from, to), c)
         /\ \A i \in DOMAIN c : Redirected(c, from, to)[i] = Redirect(c[i], from, to)
<1> DEFINE d == Redirected(c, from, to)
<1>1. DOMAIN c = 1 .. Len(c) /\ Len(c) \in Nat
  BY LenProperties
<1>2. \A i \in 1 .. Len(c) : c[i] \in Instruction
  BY ElementOfSeq
<1>3. d = [i \in 1 .. Len(c) |-> Redirect(c[i], from, to)]
  BY <1>1 DEF Redirected
<1> HIDE DEF d
<1>4. \A i \in 1 .. Len(c) : /\ d[i] = Redirect(c[i], from, to)
                             /\ d[i] \in Instruction /\ (IsTerminator(d[i]) <=> IsTerminator(c[i]))
  BY <1>2, <1>3, RedirectFacts
<1>5. d \in [1 .. Len(c) -> Instruction]
  BY <1>3, <1>4
<1>6. d \in Seq(Instruction) /\ Len(d) = Len(c)
  BY <1>1, <1>5
<1> QED BY <1>1, <1>4, <1>6 DEF SameShape, d

LEMMA RedirectedTargets ==
  ASSUME NEW c \in Seq(Instruction), NEW from \in Label, NEW to \in Label, c # <<>>,
         NEW l \in Targets(Redirected(c, from, to)[Len(Redirected(c, from, to))])
  PROVE  \/ l \in Targets(c[Len(c)]) /\ l # from
         \/ l = to /\ from \in Targets(c[Len(c)])
<1>1. Len(c) \in DOMAIN c /\ c[Len(c)] \in Instruction
  BY EmptySeq, LenProperties, ElementOfSeq
<1>2. Redirected(c, from, to)[Len(Redirected(c, from, to))] = Redirect(c[Len(c)], from, to)
  BY <1>1, RedirectedCode DEF SameShape
<1> QED BY <1>1, <1>2, RedirectFacts

(* h is f with other code in the blocks, all of it good. *)
Recoded(h, f) ==
  /\ h = [b \in DOMAIN f |-> h[b]]
  /\ \A b \in DOMAIN f : /\ h[b] = [label |-> f[b].label, code |-> h[b].code]
                         /\ h[b].code \in Seq(Instruction)
                         /\ GoodCode(h[b].code, Labels(f))

LEMMA RecodedFunction ==
  ASSUME NEW f \in Function, NEW h, Recoded(h, f)
  PROVE  /\ h \in Function /\ DOMAIN h = DOMAIN f /\ Len(h) = Len(f)
         /\ \A b \in DOMAIN f : h[b].label = f[b].label
         /\ Labels(h) = Labels(f)
         /\ Accepted(h)
<1>1. /\ Len(f) \in Nat \ {0} /\ DOMAIN f = 1 .. Len(f)
      /\ \A b \in DOMAIN f : f[b].label \in Label
  BY FunctionFacts
<1>2. \A b \in DOMAIN f : h[b] \in Block
  BY <1>1 DEF Block, Recoded
<1>3. h \in [1 .. Len(f) -> Block] /\ DOMAIN h = DOMAIN f
  BY <1>1, <1>2 DEF Recoded
<1>4. h \in Seq(Block) /\ Len(h) = Len(f)
  BY <1>1, <1>3
<1>5. h # <<>>
  BY <1>1, <1>4, EmptySeq
<1>6. \A b \in DOMAIN f : h[b].label = f[b].label
  BY DEF Recoded
<1>7. Labels(h) = Labels(f)
  BY <1>3, <1>6 DEF Labels
<1>8. Accepted(h)
  BY <1>3, <1>7, AcceptedIsGood DEF Recoded
<1> QED BY <1>3, <1>4, <1>5, <1>6, <1>7, <1>8 DEF Function

(* A pass that only rewrites code, and brings no block to the entry that did
   not go there. *)
LEMMA RecodingInv ==
  ASSUME blocks \in Function, UniqueLabels, EntryJumps, level' = level,
         Recoded(blocks', blocks),
         \A b \in DOMAIN blocks :
           blocks[1].label \in Targets(blocks'[b].code[Len(blocks'[b].code)])
             => blocks[1].label \in TargetsOf(blocks[b])
  PROVE  /\ blocks' \in Function /\ Accepted(blocks') /\ UniqueLabels' /\ EntryJumps'
         /\ blocks'[1].label = blocks[1].label
<1>1. /\ blocks' \in Function /\ DOMAIN blocks' = DOMAIN blocks
      /\ \A b \in DOMAIN blocks : blocks'[b].label = blocks[b].label
      /\ Accepted(blocks')
  BY RecodedFunction
<1>2. blocks'[1].label = blocks[1].label
  BY <1>1, FunctionFacts
<1>3. UniqueLabels'
  BY <1>1 DEF UniqueLabels
<1>4. EntryJumps'
  <2> SUFFICES ASSUME NEW b \in DOMAIN blocks', blocks'[1].label \in TargetsOf(blocks'[b])
               PROVE  b = 1 /\ level' >= 2
    BY DEF EntryJumps
  <2>1. TargetsOf(blocks'[b]) = Targets(blocks'[b].code[Len(blocks'[b].code)])
    BY <1>1, TargetsExist
  <2> QED BY <1>1, <1>2, <2>1 DEF EntryJumps
<1> QED BY <1>1, <1>2, <1>3, <1>4

(* What is known of every block of an accepted function. *)
LEMMA BlockFacts ==
  ASSUME NEW f \in Function, Accepted(f), NEW b \in DOMAIN f
  PROVE  /\ f[b] \in Block /\ f[b].label \in Label /\ f[b].label \in Labels(f)
         /\ f[b] = [label |-> f[b].label, code |-> f[b].code]
         /\ f[b].code \in Seq(Instruction) /\ f[b].code # <<>>
         /\ Len(f[b].code) \in Nat \ {0} /\ DOMAIN f[b].code = 1 .. Len(f[b].code)
         /\ GoodCode(f[b].code, Labels(f))
         /\ TargetsOf(f[b]) = Targets(f[b].code[Len(f[b].code)])
         /\ TargetsOf(f[b]) \subseteq Labels(f)
BY FunctionFacts, TargetsExist DEF GoodCode, Labels, Block

(* Forwarding one block: what jumped to it jumps to its target, which is
   another block and never the entry. *)
LEMMA ForwardBlockInv == OptInv /\ ForwardBlock => OptInv' /\ blocks'[1].label = blocks[1].label
<1> SUFFICES ASSUME OptInv, ForwardBlock
             PROVE  OptInv' /\ blocks'[1].label = blocks[1].label
  OBVIOUS
<1> DEFINE from == blocks[at].label
           to   == blocks[at].code[1].yes
           code(b) == IF b = at THEN <<Jump(from)>> ELSE Redirected(blocks[b].code, from, to)
           last(b) == code(b)[Len(code(b))]
<1>1. /\ blocks \in Function /\ Accepted(blocks) /\ UniqueLabels /\ EntryJumps
      /\ pass = "forward" /\ pass' = pass /\ level' = level /\ level \in 0..3
      /\ at \in DOMAIN blocks /\ at # 1 /\ Len(blocks[at].code) = 1
      /\ blocks[at].code[1].op = "jump" /\ to # from
      /\ blocks' = [b \in DOMAIN blocks |-> [blocks[b] EXCEPT !.code =
                      IF b = at THEN <<Jump(from)>> ELSE Redirected(@, from, to)]]
  BY DEF OptInv, ForwardBlock, Forwards
<1>2. TargetsOf(blocks[at]) = {to}
  BY <1>1, BlockFacts DEF Targets
<1>3. /\ to \in Labels(blocks) /\ to # blocks[1].label
      /\ from \in Labels(blocks) /\ from # blocks[1].label
      /\ to \in Label /\ from \in Label
  <2>1. to \in Labels(blocks) /\ from \in Labels(blocks)
    BY <1>1, <1>2, BlockFacts
  <2>2. to # blocks[1].label
    BY <1>1, <1>2 DEF EntryJumps
  <2>3. from # blocks[1].label
    BY <1>1, FunctionFacts DEF UniqueLabels
  <2> QED BY <1>1, <2>1, <2>2, <2>3, BlockFacts DEF Labels
<1> HIDE DEF from, to
<1>4. /\ blocks' = [b \in DOMAIN blocks |-> blocks'[b]]
      /\ \A b \in DOMAIN blocks : /\ blocks'[b] = [label |-> blocks[b].label, code |-> code(b)]
                                  /\ blocks'[b].code = code(b)
  <2>1. \A b \in DOMAIN blocks : blocks[b] = [label |-> blocks[b].label, code |-> blocks[b].code]
    BY <1>1, BlockFacts
  <2> QED BY <1>1, <2>1
<1>5. Jump(from) \in Instruction /\ IsTerminator(Jump(from)) /\ Targets(Jump(from)) = {from}
  BY <1>3, EmptySeq DEF Jump, Inst, Instruction, Operand, IsTerminator, Targets
<1>6. ASSUME NEW b \in DOMAIN blocks
      PROVE  /\ code(b) \in Seq(Instruction)
             /\ GoodCode(code(b), Labels(blocks))
             /\ blocks[1].label \in Targets(last(b)) => blocks[1].label \in TargetsOf(blocks[b])
  <2>1. CASE b = at
    <3>1. /\ code(b) = <<Jump(from)>> /\ Len(code(b)) = 1 /\ last(b) = Jump(from)
          /\ code(b) # <<>> /\ code(b) \in Seq(Instruction)
      BY <1>5, <2>1
    <3> HIDE DEF code
    <3> QED BY <1>3, <1>5, <3>1 DEF GoodCode
  <2>2. CASE b # at
    <3> DEFINE c == blocks[b].code
    <3>1. code(b) = Redirected(c, from, to)
      BY <2>2
    <3>2. /\ c \in Seq(Instruction) /\ c # <<>> /\ GoodCode(c, Labels(blocks))
          /\ Targets(c[Len(c)]) = TargetsOf(blocks[b]) /\ TargetsOf(blocks[b]) \subseteq Labels(blocks)
      BY <1>1, BlockFacts
    <3> HIDE DEF code, c
    <3>3. SameShape(code(b), c)
      BY <1>3, <3>1, <3>2, RedirectedCode
    <3>4. \A l \in Targets(last(b)) : l \in Targets(c[Len(c)]) \/ l = to
      BY <1>3, <3>1, <3>2, RedirectedTargets
    <3>5. GoodCode(code(b), Labels(blocks))
      BY <1>3, <3>2, <3>3, <3>4, ShapeIsGood
    <3> QED BY <1>3, <3>2, <3>3, <3>4, <3>5 DEF SameShape
  <2> QED BY <2>1, <2>2
<1> HIDE DEF code
<1>7. Recoded(blocks', blocks)
  BY <1>4, <1>6 DEF Recoded
<1> QED BY <1>1, <1>4, <1>6, <1>7, RecodingInv DEF OptInv
-----------------------------------------------------------------------------
(* Constants and branches on them: an instruction names no label that it did
   not name before. *)
LEMMA PropagatedFacts ==
  ASSUME NEW inst \in Instruction
  PROVE  /\ Propagated(inst) \in Instruction
         /\ IsTerminator(Propagated(inst)) <=> IsTerminator(inst)
         /\ Targets(Propagated(inst)) \subseteq Targets(inst)
<1>1. CASE inst.op = "condi"
  <2>1. inst.arg \in Operand /\ Value(inst.arg) \in Operand
    BY DEF Instruction, Operand, Constant, Literal, Value
  <2>2. inst = [op |-> "condi", arg |-> inst.arg, yes |-> inst.yes, no |-> inst.no]
    BY <1>1 DEF Instruction
  <2>3. Propagated(inst) = [op |-> "condi", arg |-> Value(inst.arg), yes |-> inst.yes, no |-> inst.no]
    BY <1>1, <2>2 DEF Propagated
  <2>4. Propagated(inst) \in Instruction
    BY <2>1, <2>3 DEF Instruction
  <2>5. IsTerminator(Propagated(inst)) <=> IsTerminator(inst)
    BY <1>1, <2>3 DEF IsTerminator
  <2>6. Targets(Propagated(inst)) = {inst.yes, inst.no} /\ Targets(inst) = {inst.yes, inst.no}
    BY <1>1, <2>3 DEF Targets
  <2> QED BY <2>4, <2>5, <2>6
<1>2. CASE inst.op # "condi"
  BY <1>2 DEF Propagated
<1> QED BY <1>1, <1>2

LEMMA FoldedFacts ==
  ASSUME NEW inst \in Instruction
  PROVE  /\ Folded(inst) \in Instruction
         /\ IsTerminator(Folded(inst)) <=> IsTerminator(inst)
         /\ Targets(Folded(inst)) \subseteq Targets(inst)
<1>1. CASE inst.op = "condi" /\ inst.arg \in Literal
  <2> DEFINE l == IF IsTrue(inst.arg) THEN inst.yes ELSE inst.no
  <2>1. l \in Label \cup {NoLabel} /\ l \in {inst.yes, inst.no}
    BY DEF Instruction
  <2>2. Folded(inst) = [op |-> "jump", arg |-> <<>>, yes |-> l, no |-> NoLabel]
    BY <1>1 DEF Folded, Jump, Inst
  <2> HIDE DEF l
  <2>3. Folded(inst) \in Instruction
    BY <2>1, <2>2, EmptySeq DEF Instruction, Operand
  <2>4. IsTerminator(Folded(inst)) <=> IsTerminator(inst)
    BY <1>1, <2>2 DEF IsTerminator
  <2>5. Targets(Folded(inst)) = {l} /\ Targets(inst) = {inst.yes, inst.no}
    BY <1>1, <2>2 DEF Targets
  <2> QED BY <2>1, <2>3, <2>4, <2>5
<1>2. CASE ~(inst.op = "condi" /\ inst.arg \in Literal)
  BY <1>2 DEF Folded
<1> QED BY <1>1, <1>2

(* new is what an instruction-wise pass makes of the code c. *)
Rewritten(new, c) ==
  /\ new = [i \in DOMAIN c |-> new[i]]
  /\ \A i \in DOMAIN c : /\ new[i] \in Instruction
                         /\ IsTerminator(new[i]) <=> IsTerminator(c[i])
                         /\ Targets(new[i]) \subseteq Targets(c[i])

LEMMA RewrittenIsGood ==
  ASSUME NEW c \in Seq(Instruction), NEW new, NEW labels, Rewritten(new, c), GoodCode(c, labels)
  PROVE  /\ new \in Seq(Instruction) /\ GoodCode(new, labels)
         /\ Targets(new[Len(new)]) \subseteq Targets(c[Len(c)])
<1>1. Len(c) \in Nat \ {0} /\ DOMAIN c = 1 .. Len(c)
  BY EmptySeq, LenProperties DEF GoodCode
<1>2. new \in [1 .. Len(c) -> Instruction]
  BY <1>1 DEF Rewritten
<1>3. new \in Seq(Instruction) /\ Len(new) = Len(c)
  BY <1>1, <1>2
<1>4. SameShape(new, c)
  BY <1>1, <1>3 DEF SameShape, Rewritten
<1>5. Targets(new[Len(new)]) \subseteq Targets(c[Len(c)])
  BY <1>1, <1>3 DEF Rewritten
<1>6. Targets(new[Len(new)]) \subseteq labels
  BY <1>5 DEF GoodCode
<1> QED BY <1>3, <1>4, <1>5, <1>6, ShapeIsGood

LEMMA RewritingInv ==
  ASSUME OptInv, level' = level,
         blocks' = [b \in DOMAIN blocks |-> blocks'[b]],
         \A b \in DOMAIN blocks :
           /\ blocks'[b] = [label |-> blocks[b].label, code |-> blocks'[b].code]
           /\ Rewritten(blocks'[b].code, blocks[b].code)
  PROVE  /\ blocks' \in Function /\ Accepted(blocks') /\ UniqueLabels' /\ EntryJumps'
         /\ blocks'[1].label = blocks[1].label
<1>1. blocks \in Function /\ Accepted(blocks) /\ UniqueLabels /\ EntryJumps
  BY DEF OptInv
<1>2. ASSUME NEW b \in DOMAIN blocks
      PROVE  /\ blocks'[b].code \in Seq(Instruction)
             /\ GoodCode(blocks'[b].code, Labels(blocks))
             /\ Targets(blocks'[b].code[Len(blocks'[b].code)]) \subseteq TargetsOf(blocks[b])
  <2> DEFINE c   == blocks[b].code
             new == blocks'[b].code
  <2>1. /\ c \in Seq(Instruction) /\ GoodCode(c, Labels(blocks))
        /\ TargetsOf(blocks[b]) = Targets(c[Len(c)])
    BY <1>1, BlockFacts
  <2>2. Rewritten(new, c)
    OBVIOUS
  <2> HIDE DEF c, new
  <2>3. /\ new \in Seq(Instruction) /\ GoodCode(new, Labels(blocks))
        /\ Targets(new[Len(new)]) \subseteq Targets(c[Len(c)])
    BY <2>1, <2>2, RewrittenIsGood
  <2> QED BY <2>1, <2>3 DEF new
<1>3. Recoded(blocks', blocks)
  BY <1>2 DEF Recoded
<1> QED BY <1>1, <1>2, <1>3, RecodingInv

LEMMA PropagateConstantsInv ==
  OptInv /\ PropagateConstants => OptInv' /\ blocks'[1].label = blocks[1].label
<1> SUFFICES ASSUME OptInv, PropagateConstants
             PROVE  OptInv' /\ blocks'[1].label = blocks[1].label
  OBVIOUS
<1>1. /\ blocks \in Function /\ Accepted(blocks) /\ level' = level /\ level \in 0..3 /\ level >= 2
      /\ pass' = "fold"
      /\ blocks' = [b \in DOMAIN blocks |->
           [blocks[b] EXCEPT !.code = [i \in DOMAIN @ |-> Propagated(@[i])]]]
  BY DEF OptInv, PropagateConstants, EachInst
<1>2. ASSUME NEW b \in DOMAIN blocks
      PROVE  /\ blocks'[b] = [label |-> blocks[b].label, code |-> blocks'[b].code]
             /\ Rewritten(blocks'[b].code, blocks[b].code)
  <2> DEFINE c == blocks[b].code
             new == [i \in DOMAIN c |-> Propagated(c[i])]
  <2>1. blocks[b] = [label |-> blocks[b].label, code |-> c]
    BY <1>1, BlockFacts
  <2>2. blocks'[b] = [label |-> blocks[b].label, code |-> new]
    BY <1>1, <2>1
  <2>3. \A i \in DOMAIN c : c[i] \in Instruction
    BY <1>1, BlockFacts, ElementOfSeq
  <2>4. Rewritten(new, c)
    BY <2>3, PropagatedFacts DEF Rewritten
  <2> HIDE DEF new
  <2> QED BY <2>2, <2>4
<1>3. blocks' = [b \in DOMAIN blocks |-> blocks'[b]]
  BY <1>1
<1> QED BY <1>1, <1>2, <1>3, RewritingInv DEF OptInv, Running

LEMMA FoldBranchesInv ==
  OptInv /\ FoldBranches => OptInv' /\ blocks'[1].label = blocks[1].label
<1> SUFFICES ASSUME OptInv, FoldBranches
             PROVE  OptInv' /\ blocks'[1].label = blocks[1].label
  OBVIOUS
<1>1. /\ blocks \in Function /\ Accepted(blocks) /\ level' = level /\ level \in 0..3 /\ level >= 2
      /\ pass' = "merge"
      /\ blocks' = [b \in DOMAIN blocks |->
           [blocks[b] EXCEPT !.code = [i \in DOMAIN @ |-> Folded(@[i])]]]
  BY DEF OptInv, FoldBranches, EachInst
<1>2. ASSUME NEW b \in DOMAIN blocks
      PROVE  /\ blocks'[b] = [label |-> blocks[b].label, code |-> blocks'[b].code]
             /\ Rewritten(blocks'[b].code, blocks[b].code)
  <2> DEFINE c == blocks[b].code
             new == [i \in DOMAIN c |-> Folded(c[i])]
  <2>1. blocks[b] = [label |-> blocks[b].label, code |-> c]
    BY <1>1, BlockFacts
  <2>2. blocks'[b] = [label |-> blocks[b].label, code |-> new]
    BY <1>1, <2>1
  <2>3. \A i \in DOMAIN c : c[i] \in Instruction
    BY <1>1, BlockFacts, ElementOfSeq
  <2>4. Rewritten(new, c)
    BY <2>3, FoldedFacts DEF Rewritten
  <2> HIDE DEF new
  <2> QED BY <2>2, <2>4
<1>3. blocks' = [b \in DOMAIN blocks |-> blocks'[b]]
  BY <1>1
<1> QED BY <1>1, <1>2, <1>3, RewritingInv DEF OptInv, Running
-----------------------------------------------------------------------------
(* Merging: the code of a block and of the one it takes over. *)
LEMMA JoinedCode ==
  ASSUME NEW c \in Seq(Instruction), NEW d \in Seq(Instruction), NEW labels,
         GoodCode(c, labels), GoodCode(d, labels)
  PROVE  /\ Front(c) \o d \in Seq(Instruction)
         /\ GoodCode(Front(c) \o d, labels)
         /\ (Front(c) \o d)[Len(Front(c) \o d)] = d[Len(d)]
<1> DEFINE front == Front(c)
           join  == front \o d
           k     == Len(c) - 1
<1>1. Len(c) \in Nat \ {0} /\ Len(d) \in Nat \ {0} /\ k \in Nat
  BY EmptySeq, LenProperties DEF GoodCode
<1>2. front \in Seq(Instruction) /\ Len(front) = k /\ \A i \in 1 .. k : front[i] = c[i]
  <2>1. /\ 1 \in Nat \ {0} /\ 1 =< k + 1 /\ k =< Len(c) /\ (k - 1) + 1 = k
        /\ \A i \in 1 .. k : (1 + i) - 1 = i
    BY <1>1
  <2>2. front = SubSeq(c, 1, k)
    BY DEF Front
  <2> HIDE DEF front, k
  <2>3. /\ front \in Seq(Instruction) /\ Len(front) = (k - 1) + 1
        /\ \A i \in 1 .. (k - 1) + 1 : front[i] = c[(1 + i) - 1]
    BY <1>1, <2>1, <2>2, Slice
  <2> QED BY <2>1, <2>3
<1> HIDE DEF front
<1>3. /\ join \in Seq(Instruction) /\ Len(join) = k + Len(d)
      /\ \A i \in 1 .. k : join[i] = front[i]
      /\ \A i \in k + 1 .. k + Len(d) : join[i] = d[i - k]
  <2>1. /\ join \in Seq(Instruction) /\ Len(join) = Len(front) + Len(d)
        /\ \A i \in 1 .. Len(front) : join[i] = front[i]
        /\ \A i \in Len(front) + 1 .. Len(front) + Len(d) : join[i] = d[i - Len(front)]
    BY ONLY <1>2, d \in Seq(Instruction), Joined
  <2>2. Len(front) = k
    BY <1>2
  <2> HIDE DEF join, k
  <2> QED BY <2>1, <2>2
<1> HIDE DEF join
<1>4. join[Len(join)] = d[Len(d)]
  BY <1>1, <1>3
<1>5. \A i \in 1 .. k : ~IsTerminator(c[i])
  BY DEF GoodCode
<1> HIDE DEF k
<1>6. ASSUME NEW i \in 1 .. (Len(join) - 1) PROVE ~IsTerminator(join[i])
  <2>1. CASE i \in 1 .. k
    BY <1>2, <1>3, <1>5, <2>1
  <2>2. CASE i \notin 1 .. k
    <3>1. i - k \in 1 .. (Len(d) - 1) /\ i \in k + 1 .. k + Len(d)
      BY <1>1, <1>3, <1>6, <2>2
    <3>2. join[i] = d[i - k]
      BY <1>3, <3>1
    <3> QED BY <3>1, <3>2 DEF GoodCode
  <2> QED BY <2>1, <2>2
<1>7. join # <<>>
  BY <1>1, <1>3, EmptySeq
<1>8. GoodCode(join, labels)
  BY <1>4, <1>6, <1>7 DEF GoodCode
<1> QED BY <1>3, <1>4, <1>8 DEF join, front

(* A function without one of its blocks. *)
LEMMA RemoveAtSelects ==
  ASSUME NEW f \in Function, NEW t \in DOMAIN f, t # 1,
         \A i, j \in DOMAIN f : f[i].label = f[j].label => i = j
  PROVE  /\ Selects(RemoveAt(f, t), f, DOMAIN f \ {t})
         /\ RemoveAt(f, t) # <<>> /\ RemoveAt(f, t)[1] = f[1]
<1> DEFINE K  == Len(f)
           lo == SubSeq(f, 1, t - 1)
           hi == SubSeq(f, t + 1, K)
           g  == lo \o hi
<1>1. /\ K \in Nat \ {0} /\ DOMAIN f = 1 .. K /\ t \in 2 .. K /\ f \in Seq(Block)
  BY FunctionFacts
<1>2. /\ lo \in Seq(Block) /\ Len(lo) = t - 1
      /\ \A i \in 1 .. (t - 1) : lo[i] = f[i]
  BY <1>1, Slice
<1>3. /\ hi \in Seq(Block) /\ Len(hi) = K - t
      /\ \A i \in 1 .. (K - t) : hi[i] = f[t + i]
  <2>1. /\ t + 1 \in Nat \ {0} /\ K \in Nat /\ t + 1 =< K + 1 /\ K =< Len(f)
        /\ (K - (t + 1)) + 1 = K - t /\ \A i \in 1 .. (K - t) : ((t + 1) + i) - 1 = t + i
    BY <1>1
  <2>2. /\ hi \in Seq(Block) /\ Len(hi) = (K - (t + 1)) + 1
        /\ \A i \in 1 .. (K - (t + 1)) + 1 : hi[i] = f[((t + 1) + i) - 1]
    BY <1>1, <2>1, Slice
  <2> HIDE DEF hi, K
  <2> QED BY <2>1, <2>2
<1>4. g = RemoveAt(f, t)
  BY DEF RemoveAt
<1> HIDE DEF lo, hi
<1>5. /\ g \in Seq(Block) /\ Len(g) = Len(lo) + Len(hi)
      /\ \A i \in 1 .. Len(lo) : g[i] = lo[i]
      /\ \A i \in Len(lo) + 1 .. Len(lo) + Len(hi) : g[i] = hi[i - Len(lo)]
  BY ONLY <1>2, <1>3, Joined
<1> HIDE DEF g
<1> HIDE DEF K
<1>6. /\ DOMAIN g = 1 .. (K - 1) /\ Len(g) = K - 1
      /\ \A i \in 1 .. (t - 1) : g[i] = f[i]
      /\ \A i \in t .. (K - 1) : g[i] = f[i + 1]
  <2>1. Len(g) = K - 1 /\ K - 1 \in Nat
    BY <1>1, <1>2, <1>3, <1>5
  <2>2. DOMAIN g = 1 .. (K - 1)
    BY <1>5, <2>1, LenProperties
  <2>3. \A i \in 1 .. (t - 1) : g[i] = f[i]
    BY <1>2, <1>5
  <2>4. ASSUME NEW i \in t .. (K - 1) PROVE g[i] = f[i + 1]
    <3> DEFINE j == i - (t - 1)
    <3>1. j \in 1 .. (K - t) /\ t + j = i + 1 /\ i \in Len(lo) + 1 .. Len(lo) + Len(hi)
      <4>1. t \in Nat /\ K \in Nat /\ i \in Nat /\ t =< i /\ i =< K - 1 /\ 2 =< t
        BY <1>1, <2>4
      <4>2. Len(lo) = t - 1 /\ Len(hi) = K - t
        BY <1>2, <1>3
      <4>3. Len(lo) + Len(hi) = K - 1
        BY <4>1, <4>2
      <4>4. i \in t .. (K - 1) /\ Len(lo) + 1 = t
        BY <4>1, <4>2
      <4> QED BY <4>1, <4>3, <4>4
    <3>2. g[i] = hi[j]
      BY <1>2, <1>5, <3>1
    <3>3. \A n \in 1 .. (K - t) : hi[n] = f[t + n]
      BY <1>3
    <3> HIDE DEF j
    <3>4. hi[j] = f[t + j]
      BY <3>1, <3>3
    <3> QED BY <3>1, <3>2, <3>4
  <2> QED BY <2>1, <2>2, <2>3, <2>4
<1> DEFINE from(j) == IF j < t THEN j ELSE j + 1
<1>7. \A j \in DOMAIN g : from(j) \in DOMAIN f \ {t} /\ g[j] = f[from(j)]
  BY <1>1, <1>6
<1>8. \A j, k \in DOMAIN g : from(j) = from(k) => j = k
  BY <1>1, <1>6
<1>9. ASSUME NEW i \in DOMAIN f \ {t} PROVE \E j \in DOMAIN g : g[j] = f[i]
  <2>1. CASE i < t
    <3>1. i \in DOMAIN g /\ g[i] = f[i]
      BY <1>1, <1>6, <2>1
    <3> QED BY <3>1
  <2>2. CASE i > t
    <3>1. i - 1 \in DOMAIN g /\ g[i - 1] = f[i]
      BY <1>1, <1>6, <2>2
    <3> QED BY <3>1
  <2> QED BY <1>1, <2>1, <2>2
<1>10. 1 \in DOMAIN g /\ g[1] = f[1] /\ g # <<>>
  BY <1>1, <1>6, EmptySeq
<1> HIDE DEF from
<1>11. \A j, k \in DOMAIN g : g[j].label = g[k].label => j = k
  BY <1>7, <1>8
<1>12. \A j \in DOMAIN g : \E i \in DOMAIN f \ {t} : g[j] = f[i]
  BY <1>7
<1> QED BY <1>4, <1>5, <1>9, <1>10, <1>11, <1>12 DEF Selects

(* Where a block may take over another, it ends in a jump to it, and no third
   block names the other's label: it would be a second edge. *)
LEMMA TakesAlone ==
  ASSUME blocks \in Function, Accepted(blocks), UniqueLabels,
         NEW b \in DOMAIN blocks, NEW t \in DOMAIN blocks, Takes(b, t)
  PROVE  /\ t # 1 /\ t # b
         /\ TargetsOf(blocks[b]) = {blocks[t].label}
         /\ \A c \in DOMAIN blocks \ {b, t} : blocks[t].label \notin TargetsOf(blocks[c])
<1> DEFINE cb == blocks[b].code
           lt == blocks[t].label
           n  == Len(cb)
<1>1. /\ cb # <<>> /\ cb[n].op = "jump" /\ BlockOf(blocks, cb[n].yes) = t /\ t # 1 /\ t # b
  BY DEF Takes, Last
<1>2. n \in DOMAIN cb /\ TargetsOf(blocks[b]) = Targets(cb[n]) /\ TargetsOf(blocks[b]) \subseteq Labels(blocks)
  BY BlockFacts
<1>3. cb[n].yes = lt /\ TargetsOf(blocks[b]) = {lt}
  <2>1. Targets(cb[n]) = {cb[n].yes} /\ cb[n].yes \in Labels(blocks)
    BY <1>1, <1>2 DEF Targets
  <2>2. blocks[BlockOf(blocks, cb[n].yes)].label = cb[n].yes
    BY <2>1, BlockOfLabel
  <2> QED BY <1>1, <1>2, <2>1, <2>2
<1>4. BlockOf(blocks, lt) = t
  BY <1>1, <1>3
<1>5. <<b, n, "yes">> \in Predecessors(t)
  <2>1. <<b, n, "yes">> \in Edges(b, t)
    BY <1>1, <1>2 DEF Edges
  <2> QED BY <1>1, <2>1 DEF Predecessors
<1>6. ASSUME NEW c \in DOMAIN blocks \ {b, t}, lt \in TargetsOf(blocks[c])
      PROVE  FALSE
  <2> DEFINE cc == blocks[c].code
             m  == Len(cc)
  <2>1. m \in DOMAIN cc /\ lt \in Targets(cc[m])
    BY <1>6, BlockFacts
  <2> HIDE DEF m, lt
  <2>2. \/ cc[m].op \in {"jump", "condi"} /\ cc[m].yes = lt
        \/ cc[m].op = "condi" /\ cc[m].no = lt
    BY <2>1 DEF Targets
  <2>3. <<c, m, "yes">> \in Edges(c, t) \/ <<c, m, "no">> \in Edges(c, t)
    BY <1>4, <2>1, <2>2 DEF Edges
  <2>4. <<c, m, "yes">> \in Predecessors(t) \/ <<c, m, "no">> \in Predecessors(t)
    BY <1>6, <2>3 DEF Predecessors
  <2>5. PICK edge : Predecessors(t) = {edge}
    BY DEF Takes
  <2>6. <<b, n, "yes">> = <<c, m, "yes">> \/ <<b, n, "yes">> = <<c, m, "no">>
    BY <1>5, <2>4, <2>5
  <2>7. b = c
    BY <2>6
  <2> QED BY <1>6, <2>7
<1> QED BY <1>1, <1>3, <1>6

(* Taking over a block: its label is gone from the function, as all that
   named it names the block that took it over. *)
LEMMA MergeBlocksInv == OptInv /\ MergeBlocks => OptInv' /\ blocks'[1].label = blocks[1].label
<1> SUFFICES ASSUME OptInv, MergeBlocks
             PROVE  OptInv' /\ blocks'[1].label = blocks[1].label
  OBVIOUS
<1>1. /\ blocks \in Function /\ Accepted(blocks) /\ UniqueLabels /\ EntryJumps
      /\ pass = "merge" /\ pass' = pass /\ level' = level /\ level \in 0..3 /\ level >= 2
  BY DEF OptInv, MergeBlocks
<1>2. PICK b, t \in DOMAIN blocks :
        /\ Takes(b, t)
        /\ blocks' = RemoveAt([c \in DOMAIN blocks |->
                       [blocks[c] EXCEPT !.code =
                          Redirected(IF c = b THEN Front(blocks[c].code) \o blocks[t].code
                                              ELSE blocks[c].code,
                                     blocks[t].label, blocks[b].label)]], t)
  BY DEF MergeBlocks
<1> DEFINE lt == blocks[t].label
           lb == blocks[b].label
           le == blocks[1].label
           own(c)  == IF c = b THEN Front(blocks[c].code) \o blocks[t].code ELSE blocks[c].code
           code(c) == Redirected(own(c), lt, lb)
           f == [c \in DOMAIN blocks |-> [blocks[c] EXCEPT !.code = code(c)]]
           last(c) == code(c)[Len(code(c))]
<1>3. blocks' = RemoveAt(f, t)
  BY <1>2
<1>4. /\ t # 1 /\ t # b
      /\ \A c \in DOMAIN blocks \ {b, t} : lt \notin TargetsOf(blocks[c])
  BY <1>1, <1>2, TakesAlone
<1>5. /\ lt \in Label /\ lb \in Label /\ lt \in Labels(blocks) /\ lb \in Labels(blocks)
      /\ lt # lb /\ lt # le
  BY <1>1, <1>4, BlockFacts, FunctionFacts DEF UniqueLabels
<1>6. /\ f = [c \in DOMAIN blocks |-> f[c]]
      /\ \A c \in DOMAIN blocks : /\ f[c] = [label |-> blocks[c].label, code |-> code(c)]
                                  /\ f[c].code = code(c) /\ f[c].label = blocks[c].label
  <2>1. \A c \in DOMAIN blocks : blocks[c] = [label |-> blocks[c].label, code |-> blocks[c].code]
    BY <1>1, BlockFacts
  <2> HIDE DEF code
  <2> QED BY <2>1
<1>7. ASSUME NEW c \in DOMAIN blocks
      PROVE  /\ own(c) \in Seq(Instruction) /\ own(c) # <<>> /\ GoodCode(own(c), Labels(blocks))
             /\ Targets(own(c)[Len(own(c))]) = TargetsOf(blocks[IF c = b THEN t ELSE c])
  <2>1. CASE c = b
    <3>1. own(c) = Front(blocks[b].code) \o blocks[t].code
      BY <2>1
    <3> HIDE DEF own
    <3>2. /\ own(c) \in Seq(Instruction) /\ GoodCode(own(c), Labels(blocks))
          /\ own(c)[Len(own(c))] = blocks[t].code[Len(blocks[t].code)]
      <4>1. /\ blocks[b].code \in Seq(Instruction) /\ GoodCode(blocks[b].code, Labels(blocks))
            /\ blocks[t].code \in Seq(Instruction) /\ GoodCode(blocks[t].code, Labels(blocks))
        BY <1>1, BlockFacts
      <4> QED BY <3>1, <4>1, JoinedCode
    <3>3. own(c) # <<>>
      BY <3>2 DEF GoodCode
    <3>4. Targets(blocks[t].code[Len(blocks[t].code)]) = TargetsOf(blocks[t])
      BY <1>1, BlockFacts
    <3> QED BY <2>1, <3>2, <3>3, <3>4
  <2>2. CASE c # b
    BY <1>1, <2>2, BlockFacts
  <2> QED BY <2>1, <2>2
<1> HIDE DEF own
<1>8. ASSUME NEW c \in DOMAIN blocks
      PROVE  /\ code(c) \in Seq(Instruction) /\ GoodCode(code(c), Labels(blocks))
             /\ \A l \in Targets(last(c)) :
                  \/ l \in TargetsOf(blocks[IF c = b THEN t ELSE c]) /\ l # lt
                  \/ l = lb /\ lt \in TargetsOf(blocks[IF c = b THEN t ELSE c])
  <2> DEFINE u == IF c = b THEN t ELSE c
             o == own(c)
  <2>1. /\ o \in Seq(Instruction) /\ o # <<>> /\ GoodCode(o, Labels(blocks))
        /\ Targets(o[Len(o)]) = TargetsOf(blocks[u])
    BY <1>7
  <2>2. TargetsOf(blocks[u]) \subseteq Labels(blocks)
    BY <1>1, BlockFacts
  <2> HIDE DEF lt, lb, u, o
  <2>3. SameShape(Redirected(o, lt, lb), o)
    BY <1>5, <2>1, RedirectedCode
  <2>4. code(c) = Redirected(o, lt, lb)
    BY DEF o
  <2> HIDE DEF code
  <2>5. \A l \in Targets(last(c)) : \/ l \in TargetsOf(blocks[u]) /\ l # lt
                                    \/ l = lb /\ lt \in TargetsOf(blocks[u])
    <3> SUFFICES ASSUME NEW l \in Targets(last(c))
                 PROVE  \/ l \in Targets(o[Len(o)]) /\ l # lt
                        \/ l = lb /\ lt \in Targets(o[Len(o)])
      BY <2>1
    <3> HIDE DEF last
    <3>1. last(c) = Redirected(o, lt, lb)[Len(Redirected(o, lt, lb))]
      BY <2>4 DEF last
    <3>2. l \in Targets(Redirected(o, lt, lb)[Len(Redirected(o, lt, lb))])
      BY <3>1
    <3> QED BY <1>5, <2>1, <3>2, RedirectedTargets
  <2>6. Targets(last(c)) \subseteq Labels(blocks)
    BY <1>5, <2>2, <2>5
  <2>7. GoodCode(code(c), Labels(blocks))
    BY <2>1, <2>3, <2>4, <2>6, ShapeIsGood
  <2>8. code(c) \in Seq(Instruction)
    BY <2>3, <2>4 DEF SameShape
  <2> QED BY <2>5, <2>7, <2>8 DEF u
<1> HIDE DEF code, f, lt, lb, le
<1>9. Recoded(f, blocks)
  BY <1>6, <1>8 DEF Recoded
<1>10. /\ f \in Function /\ DOMAIN f = DOMAIN blocks /\ Accepted(f) /\ Labels(f) = Labels(blocks)
       /\ \A i, j \in DOMAIN f : f[i].label = f[j].label => i = j
  <2>1. /\ f \in Function /\ DOMAIN f = DOMAIN blocks /\ Accepted(f) /\ Labels(f) = Labels(blocks)
    BY <1>1, <1>9, RecodedFunction
  <2> QED BY <1>1, <1>6, <2>1 DEF UniqueLabels
<1>11. Selects(blocks', f, DOMAIN f \ {t}) /\ blocks' # <<>> /\ blocks'[1] = f[1]
  BY <1>2, <1>3, <1>4, <1>10, RemoveAtSelects
<1>12. blocks' \in Function /\ UniqueLabels'
  BY <1>11 DEF Selects, Function, UniqueLabels
<1>13. ASSUME NEW c \in DOMAIN blocks \ {t}, NEW l \in Targets(last(c))
       PROVE  /\ l \in Labels(blocks) \ {lt}
              /\ l = le => c = 1
  <2>1. CASE c = b
    <3>1. \/ l \in TargetsOf(blocks[t]) /\ l # lt
          \/ l = lb
      BY <1>8, <1>13, <2>1
    <3>2. TargetsOf(blocks[t]) \subseteq Labels(blocks)
      BY <1>1, BlockFacts
    <3>3. le \notin TargetsOf(blocks[t])
      BY <1>1, <1>4 DEF EntryJumps, le
    <3>4. lb = le => b = 1
      BY <1>1, FunctionFacts DEF UniqueLabels, lb, le
    <3> QED BY <1>5, <2>1, <3>1, <3>2, <3>3, <3>4
  <2>2. CASE c # b
    <3>1. l \in TargetsOf(blocks[c]) /\ l # lt
      BY <1>4, <1>8, <1>13, <2>2
    <3>2. TargetsOf(blocks[c]) \subseteq Labels(blocks)
      BY <1>1, BlockFacts
    <3>3. le \in TargetsOf(blocks[c]) => c = 1
      BY <1>1 DEF EntryJumps, le
    <3> QED BY <3>1, <3>2, <3>3
  <2> QED BY <2>1, <2>2
<1>14. Labels(blocks) \ {lt} \subseteq Labels(blocks')
  <2> SUFFICES ASSUME NEW i \in DOMAIN blocks, blocks[i].label # lt
               PROVE  blocks[i].label \in Labels(blocks')
    BY DEF Labels
  <2>1. i \in DOMAIN f \ {t} /\ f[i].label = blocks[i].label
    BY <1>6, <1>10 DEF lt
  <2> QED BY <1>11, <2>1 DEF Selects, Labels
<1>15. Accepted(blocks')
  <2> SUFFICES ASSUME NEW j \in DOMAIN blocks' PROVE GoodCode(blocks'[j].code, Labels(blocks'))
    BY AcceptedIsGood
  <2>1. PICK i \in DOMAIN f \ {t} : blocks'[j] = f[i]
    BY <1>11 DEF Selects
  <2>2. blocks'[j].code = code(i) /\ GoodCode(code(i), Labels(blocks))
    BY <1>6, <1>8, <1>10, <2>1
  <2>3. Targets(last(i)) \subseteq Labels(blocks')
    BY <1>10, <1>13, <1>14, <2>1
  <2> QED BY <2>2, <2>3 DEF GoodCode
<1>16. blocks'[1].label = le /\ 1 \in DOMAIN blocks'
  BY <1>1, <1>6, <1>11, <1>12, FunctionFacts DEF le
<1>17. EntryJumps'
  <2> SUFFICES ASSUME NEW j \in DOMAIN blocks', blocks'[1].label \in TargetsOf(blocks'[j])
               PROVE  j = 1 /\ level' >= 2
    BY DEF EntryJumps
  <2>1. PICK i \in DOMAIN f \ {t} : blocks'[j] = f[i]
    BY <1>11 DEF Selects
  <2>2. TargetsOf(blocks'[j]) = Targets(blocks'[j].code[Len(blocks'[j].code)])
    BY <1>12, <1>15, TargetsExist
  <2>3. blocks'[j].code = code(i) /\ i \in DOMAIN blocks \ {t}
    BY <1>6, <1>10, <2>1
  <2>4. le \in Targets(last(i))
    BY <1>16, <2>2, <2>3
  <2>5. i = 1
    BY <1>13, <2>3, <2>4
  <2>6. blocks'[j].label = blocks'[1].label
    BY <1>11, <2>1, <2>5
  <2>7. j = 1
    BY <1>11, <1>16, <2>6 DEF Selects
  <2> QED BY <1>1, <2>7
<1> QED BY <1>1, <1>12, <1>15, <1>16, <1>17 DEF OptInv, Running, le
-----------------------------------------------------------------------------
(* The other steps change no block. *)
LEMMA OptStart == OptInit => OptInv
<1> SUFFICES ASSUME OptInit PROVE OptInv
  OBVIOUS
<1>1. \E l \in 0..3 : Waiting(l)
  BY DEF OptInit
<1>2. level \in 0..3 /\ pass = "waiting"
  BY <1>1 DEF Waiting
<1>3. blocks \in Function /\ Accepted(blocks) /\ UniqueLabels /\ EntryJumps
  BY DEF OptInit, EntryJumps
<1> QED BY <1>2, <1>3 DEF OptInv, Running

LEMMA SameBlocks ==
  ASSUME blocks \in Function, Accepted(blocks), UniqueLabels, EntryJumps,
         UNCHANGED <<blocks, level>>
  PROVE  /\ blocks' \in Function /\ Accepted(blocks') /\ UniqueLabels' /\ EntryJumps'
         /\ blocks'[1].label = blocks[1].label
BY DEF UniqueLabels, EntryJumps

LEMMA OptStep ==
  OptInv /\ [BeginPasses \/ Pass]_optVars => OptInv' /\ blocks'[1].label = blocks[1].label
<1> SUFFICES ASSUME OptInv, [BeginPasses \/ Pass]_optVars
             PROVE  OptInv' /\ blocks'[1].label = blocks[1].label
  OBVIOUS
<1>1. /\ blocks \in Function /\ Accepted(blocks) /\ UniqueLabels /\ EntryJumps
      /\ level \in 0..3
  BY DEF OptInv
<1> DEFINE Keeps == /\ UNCHANGED <<blocks, level>>
                    /\ pass' \in Running \cup {"waiting", "done"}
                    /\ pass' \in {"propagate", "fold", "merge"} => level >= 2
<1>2. ASSUME Keeps PROVE OptInv' /\ blocks'[1].label = blocks[1].label
  BY <1>1, <1>2, SameBlocks DEF OptInv
<1>3. CASE BeginPasses
  <2>1. Keeps
    BY <1>3 DEF BeginPasses, Running
  <2> HIDE DEF Keeps
  <2> QED BY <1>2, <2>1
<1>4. CASE RemoveUnreachable
  BY <1>4, RemoveUnreachableInv
<1>5. CASE ForwardBlock
  BY <1>5, ForwardBlockInv
<1>6. CASE PassBlock \/ SweepAgain
  <2>1. Keeps
    BY <1>6 DEF PassBlock, SweepAgain, Running
  <2> HIDE DEF Keeps
  <2> QED BY <1>2, <2>1
<1>7. CASE EndForward
  <2>1. Keeps
    BY <1>7 DEF EndForward, Running
  <2> HIDE DEF Keeps
  <2> QED BY <1>2, <2>1
<1>8. CASE PropagateConstants
  BY <1>8, PropagateConstantsInv
<1>9. CASE FoldBranches
  BY <1>9, FoldBranchesInv
<1>10. CASE MergeBlocks
  BY <1>10, MergeBlocksInv
<1>11. CASE EndMerge
  <2>1. Keeps
    BY <1>11 DEF EndMerge, Running
  <2> HIDE DEF Keeps
  <2> QED BY <1>2, <2>1
<1>12. CASE UNCHANGED optVars
  <2>1. Keeps
    BY <1>12 DEF optVars, opt, OptInv
  <2> HIDE DEF Keeps
  <2> QED BY <1>2, <2>1
<1> QED
  BY <1>3, <1>4, <1>5, <1>6, <1>7, <1>8, <1>9, <1>10, <1>11, <1>12 DEF Pass

(* The invariant of the passes: at every step the function is one alick would
   accept, with unique labels, and a block that jumps to the entry is the
   entry itself, which has taken over a loop. *)
THEOREM PassesKeepFunction == OptSpec => []OptInv
<1>1. OptInit => OptInv
  BY OptStart
<1>2. OptInv /\ [BeginPasses \/ Pass]_optVars => OptInv'
  BY OptStep
<1> QED BY <1>1, <1>2, PTL DEF OptSpec

(* What alick accepts before the optimiser it accepts after every step of
   every pass, at every level and for every function. *)
THEOREM PassesStayAccepted == OptSpec => []StaysAccepted
<1>1. OptInv => StaysAccepted
  BY DEF OptInv, StaysAccepted
<1> QED BY <1>1, PassesKeepFunction, PTL

(* No pass gives two blocks the same label. *)
THEOREM PassesKeepLabelsUnique == OptSpec => []UniqueLabels
<1>1. OptInv => UniqueLabels
  BY DEF OptInv
<1> QED BY <1>1, PassesKeepFunction, PTL

(* The first block stays the block the function is entered at, whichever
   blocks are removed or taken over. *)
THEOREM PassesKeepEntry == OptSpec => EntryStays
<1>1. OptInv /\ [BeginPasses \/ Pass]_optVars
        => [pass # "waiting" => blocks'[1].label = blocks[1].label]_optVars
  BY OptStep
<1> QED BY <1>1, PassesKeepFunction, PTL DEF OptSpec, EntryStays
=============================================================================
