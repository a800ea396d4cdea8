------------------------------- MODULE Overloads -------------------------------
(***************************************************************************)
(* Choosing one of the functions of a name for a call                      *)
(* (sem_resolve_overload), with what it does to the list of arguments: the *)
(* nodes are chained by their next pointers, a parameter left out takes    *)
(* the node of its default, and an argument of another type is wrapped in  *)
(* a cast.  The node of a default belongs to the function, not to a call.  *)
(*                                                                         *)
(* A heap gives every node [next, type, name, under]: the node after it,   *)
(* its type, the name of a named argument and what a cast is put around.   *)
(* A parameter is [name, type, default], default "" when there is none.    *)
(***************************************************************************)
EXTENDS Integers, Sequences, SequencesExt, FiniteSets, FiniteSetsExt, TLC

NoNode == <<"none", 0, 0>>
Node(type, name) == [next |-> NoNode, type |-> type, name |-> name, under |-> NoNode]
DefaultOf(f, i) == <<"default", f, i>>

Ranks == ("bool" :> 1) @@ ("char" :> 2) @@ ("int" :> 4) @@ ("single" :> 7) @@ ("double" :> 8)
Numeric == DOMAIN Ranks
Whole(type) == Ranks[type] <= 6
Classes(p, a) == p \notin Numeric /\ a \notin Numeric

\* Numbers go for each other, a class for the classes it is made of.
Compatible(p, a, derived) ==
  p = a \/ {p, a} \subseteq Numeric \/ (Classes(p, a) /\ <<a, p>> \in derived)

\* What one argument adds to the score; any two classes have one base type.
Score(p, a) ==
  IF p = a \/ Classes(p, a) THEN 100
  ELSE IF Ranks[p] <= Ranks[a] THEN 1
  ELSE 20 - (Ranks[p] - Ranks[a]) + (IF p = "double" /\ Whole(a) THEN 2 ELSE 0)

--------------------------------------------------------------------------------
(* Lists of nodes. *)

RECURSIVE ListFrom(_, _)
ListFrom(heap, head) ==
  IF head = NoNode THEN <<>> ELSE <<head>> \o ListFrom(heap, heap[head].next)
HeadOf(nodes) == IF nodes = <<>> THEN NoNode ELSE nodes[1]
Chained(heap, nodes) ==
  LET after == [i \in 1 .. Len(nodes) |-> IF i = Len(nodes) THEN NoNode ELSE nodes[i + 1]]
      where == [x \in Range(nodes) |-> CHOOSE i \in DOMAIN nodes : nodes[i] = x]
  IN  [x \in DOMAIN heap |-> IF x \in Range(nodes) THEN [heap[x] EXCEPT !.next = after[where[x]]]
                             ELSE heap[x]]

--------------------------------------------------------------------------------
(* The arguments put to the parameters of one function. *)

\* A named argument goes to its parameter, the others to the next position,
\* which must be free.
Placed(params, nodes, heap) ==
  LET named(x) == {i \in DOMAIN params : params[i].name = heap[x].name}
      put(s, x) ==
        LET at == IF heap[x].name = "" THEN s.pos + 1
                  ELSE IF named(x) = {} THEN 0 ELSE Min(named(x))
        IN  IF at \notin DOMAIN params \/ s.slots[at] # NoNode THEN [s EXCEPT !.fits = FALSE]
            ELSE [s EXCEPT !.slots[at] = x, !.pos = IF heap[x].name = "" THEN at ELSE @]
  IN  FoldLeft(put, [fits |-> TRUE, pos |-> 0, slots |-> [i \in DOMAIN params |-> NoNode]], nodes)

\* Mutant of Filled: the defaults are filled in from the first on.
Filled_FromFirst(f, params, placed) ==
  LET free == SelectSeq([i \in DOMAIN params |-> i], LAMBDA i : params[i].default # "")
  IN  [i \in DOMAIN params |-> IF placed.slots[i] = NoNode /\ params[i].default # ""
                               THEN DefaultOf(f, free[1]) ELSE placed.slots[i]]
\* The parameters left out take their defaults.
Filled(f, params, placed) ==
  [i \in DOMAIN params |-> IF placed.slots[i] = NoNode /\ params[i].default # ""
                           THEN DefaultOf(f, i) ELSE placed.slots[i]]

NoMatch == [f |-> 0, slots |-> <<>>, score |-> -1]
\* [f, slots, score] of a function that can take the arguments.
Match(f, params, nodes, heap, derived) ==
  LET placed == Placed(params, nodes, heap)
      slots == Filled(f, params, placed)
      fits == /\ placed.fits
              /\ \A i \in DOMAIN params :
                   slots[i] # NoNode /\ Compatible(params[i].type, heap[slots[i]].type, derived)
  IN  IF ~fits THEN NoMatch
      ELSE [f |-> f, slots |-> slots,
            score |-> FoldLeft(+, 0, [i \in DOMAIN params |->
                                        Score(params[i].type, heap[slots[i]].type)])]

\* Mutant of Better: a later function that fits is taken, whatever its score.
Better_Last(old, new) == IF new.score >= 0 THEN new ELSE old
\* The first of those with the highest score.
Better(old, new) == IF new.score > old.score THEN new ELSE old

\* sem_insert_implicit_cast over the list that was rebuilt: what is wrapped
\* leaves the list, the cast stands in its place.
Rebuilt(heap, best, params, call) ==
  LET wraps == {i \in DOMAIN params : heap[best.slots[i]].type # params[i].type
                                        /\ ~Classes(params[i].type, heap[best.slots[i]].type)}
      list == [i \in DOMAIN params |-> IF i \in wraps THEN <<"cast", call, i>> ELSE best.slots[i]]
      casts == [x \in {list[i] : i \in wraps} |->
                  [Node(params[x[3]].type, "") EXCEPT !.under = best.slots[x[3]]]]
      freed == [x \in DOMAIN heap |-> IF x \in Range(best.slots)
                                      THEN [heap[x] EXCEPT !.next = NoNode] ELSE heap[x]]
  IN  [heap |-> Chained(casts @@ freed, list), head |-> HeadOf(list)]
================================================================================
