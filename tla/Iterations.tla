----------------------------- MODULE Iterations -----------------------------
(***************************************************************************)
(* Lemmas about natural numbers, sequences and recursive functions that    *)
(* the proofs about the optimiser and about the editor share.  A recursive *)
(* function on 0 .. K is treated as a run of K steps.                      *)
(***************************************************************************)
EXTENDS Integers, Sequences, TLAPS, SequenceTheorems, WellFoundedInduction

(* A set of natural numbers has a least element. *)
LEMMA LeastNatural ==
  ASSUME NEW S \in SUBSET Nat, S # {}
  PROVE  \E n \in S : \A m \in S : n =< m
<1>1. PICK n \in S : \A m \in S : ~ (<<m, n>> \in OpToRel(<, Nat))
  BY NatLessThanWellFounded, WFMin, Zenon
<1>2. \A m \in S : ~ (m < n)
  BY <1>1 DEF OpToRel
<1>3. \A m \in S : n =< m
  BY <1>2
<1> QED BY <1>3

(* Induction over the numbers up to K, for the set of those that have a
   property. *)
LEMMA InductionUpTo ==
  ASSUME NEW K \in Nat, NEW P, 0 \in P, \A k \in 1 .. K : k - 1 \in P => k \in P
  PROVE  0 .. K \subseteq P
<1> DEFINE Bad == {k \in 0 .. K : k \notin P}
<1>1. SUFFICES ASSUME Bad # {} PROVE FALSE
  OBVIOUS
<1>2. Bad \in SUBSET Nat
  OBVIOUS
<1> HIDE DEF Bad
<1>3. PICK k \in Bad : \A m \in Bad : k =< m
  BY <1>1, <1>2, LeastNatural
<1>4. k \in 1 .. K /\ k \notin P
  BY <1>3 DEF Bad
<1>5. k - 1 \notin Bad /\ k - 1 \in 0 .. K
  BY <1>3, <1>4
<1> QED BY <1>4, <1>5 DEF Bad

(* The steps 1 .. K of an iteration over the values T, and a run of them. *)
IsSteps(step, K, T) == step \in [1 .. K -> [T -> T]]

IsRun(f, K, T, z, step) ==
  f \in [0 .. K -> T] /\ f[0] = z /\ \A n \in 1 .. K : f[n] = step[n][f[n - 1]]

LEMMA Iteration ==
  ASSUME NEW K \in Nat, NEW T, NEW z \in T, NEW step, IsSteps(step, K, T)
  PROVE  \E f : IsRun(f, K, T, z, step)
<1> DEFINE Runs(k, f) == /\ f \in [0 .. k -> T] /\ f[0] = z
                         /\ \A n \in 1 .. k : f[n] = step[n][f[n - 1]]
           P == {k \in 0 .. K : \E f : Runs(k, f)}
<1>1. 0 \in P
  <2> DEFINE f == [n \in 0 .. 0 |-> z]
  <2>1. Runs(0, f)
    OBVIOUS
  <2>2. \E h : Runs(0, h)
    BY <2>1
  <2> HIDE DEF Runs
  <2> QED BY <2>2
<1>2. ASSUME NEW k \in 1 .. K, k - 1 \in P PROVE k \in P
  <2>1. PICK f : Runs(k - 1, f)
    BY <1>2
  <2> DEFINE g == [n \in 0 .. k |-> IF n = k THEN step[k][f[k - 1]] ELSE f[n]]
  <2>2. f[k - 1] \in T /\ step[k][f[k - 1]] \in T
    BY <2>1 DEF IsSteps
  <2>3. g \in [0 .. k -> T] /\ g[0] = z
    <3>1. \A n \in 0 .. k : n # k => f[n] \in T
      BY <2>1
    <3> QED BY <2>1, <2>2, <3>1
  <2>4. \A n \in 1 .. k : g[n] = step[n][g[n - 1]]
    <3> TAKE n \in 1 .. k
    <3>1. CASE n = k
      BY <3>1
    <3>2. CASE n # k
      <4>1. n \in 1 .. (k - 1) /\ n - 1 \in 0 .. (k - 1)
        BY <3>2
      <4>2. f[n] = step[n][f[n - 1]]
        BY <2>1, <4>1
      <4> QED BY <4>1, <4>2
    <3> QED BY <3>1, <3>2
  <2>5. Runs(k, g)
    BY <2>3, <2>4
  <2>6. \E h : Runs(k, h)
    BY <2>5
  <2> HIDE DEF Runs
  <2> QED BY <2>6
<1> HIDE DEF P
<1>3. 0 .. K \subseteq P
  BY <1>1, <1>2, InductionUpTo
<1>4. K \in P
  BY <1>3
<1> QED BY <1>4 DEF P, IsRun

-----------------------------------------------------------------------------
(* A part of a sequence, and two sequences one after the other. *)
LEMMA Slice ==
  ASSUME NEW S, NEW s \in Seq(S), NEW m \in Nat \ {0}, NEW n \in Nat, m =< n + 1, n =< Len(s)
  PROVE  /\ SubSeq(s, m, n) \in Seq(S) /\ Len(SubSeq(s, m, n)) = (n - m) + 1
         /\ \A i \in 1 .. (n - m) + 1 : SubSeq(s, m, n)[i] = s[(m + i) - 1]
<1>1. \A i \in m .. n : s[i] \in S
  BY ElementOfSeq, LenProperties
<1>2. m \in Int /\ n \in Int
  OBVIOUS
<1>3. /\ SubSeq(s, m, n) \in Seq(S)
      /\ Len(SubSeq(s, m, n)) = IF m <= n THEN n - m + 1 ELSE 0
      /\ \A i \in 1 .. n - m + 1 : SubSeq(s, m, n)[i] = s[m + i - 1]
  BY ONLY <1>1, <1>2, SubSeqProperties
<1> HIDE <1>1
<1> QED BY <1>3

LEMMA Joined ==
  ASSUME NEW S, NEW r \in Seq(S), NEW s \in Seq(S)
  PROVE  /\ r \o s \in Seq(S) /\ Len(r \o s) = Len(r) + Len(s)
         /\ \A i \in 1 .. Len(r) : (r \o s)[i] = r[i]
         /\ \A i \in Len(r) + 1 .. Len(r) + Len(s) : (r \o s)[i] = s[i - Len(r)]
<1>1. /\ r \o s \in Seq(S) /\ Len(r \o s) = Len(r) + Len(s)
      /\ \A i \in 1 .. Len(r) + Len(s) : (r \o s)[i] = IF i <= Len(r) THEN r[i] ELSE s[i - Len(r)]
  BY ConcatProperties
<1>2. Len(r) \in Nat /\ Len(s) \in Nat
  BY LenProperties
<1> QED BY <1>1, <1>2
=============================================================================
