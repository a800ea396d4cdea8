----------------------------- MODULE StringMap -----------------------------
(***************************************************************************)
(* What src/common/hashmap.c promises: a partial function from keys to     *)
(* values on which put overwrites, intern stores a key under itself once,  *)
(* and inc counts from one.                                                *)
(***************************************************************************)
EXTENDS Integers

CONSTANTS Keys, PutValues, MaxCount

VARIABLE contents

Init == contents = [k \in {} |-> 0]

(* contents with key k bound to v. *)
With(k, v) == [x \in DOMAIN contents \cup {k} |-> IF x = k THEN v ELSE contents[x]]

Put(k, v) == contents' = With(k, v)

Intern(k) == contents' = IF k \in DOMAIN contents THEN contents ELSE With(k, k)

Inc(k) ==
  \/ k \notin DOMAIN contents /\ contents' = With(k, 1)
  \/ /\ k \in DOMAIN contents
     /\ contents[k] \in 1 .. (MaxCount - 1)
     /\ contents' = With(k, contents[k] + 1)

Next ==
  \E k \in Keys :
    \/ \E v \in PutValues : Put(k, v)
    \/ Intern(k)
    \/ Inc(k)

Spec == Init /\ [][Next]_contents
=============================================================================
