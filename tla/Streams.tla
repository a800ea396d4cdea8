------------------------------ MODULE Streams ------------------------------
(***************************************************************************)
(* What a generator promises to those who loop over it: a loop stands for  *)
(* a sequence, takes the values of the sequence one by one, then is over.  *)
(* It may be left before, and begun again with another sequence.           *)
(***************************************************************************)
EXTENDS Sequences

CONSTANTS Loops,       \* which may be executed at a time
          Sequences    \* what may be generated

VARIABLES open,    \* the loops begun so far
          left,    \* what each still has to take
          got,     \* what each has taken
          over     \* the loops that have come to their end

vars == <<open, left, got, over>>

Init ==
  /\ open = {}
  /\ left = [l \in Loops |-> <<>>]
  /\ got  = [l \in Loops |-> <<>>]
  /\ over = {}

Begin(l) ==
  /\ open' = open \cup {l}
  /\ \E s \in Sequences : left' = [left EXCEPT ![l] = s]
  /\ got' = [got EXCEPT ![l] = <<>>]
  /\ over' = over \ {l}

Take(l) ==
  /\ l \in open /\ l \notin over /\ left[l] # <<>>
  /\ got'  = [got EXCEPT ![l] = Append(@, Head(left[l]))]
  /\ left' = [left EXCEPT ![l] = Tail(@)]
  /\ UNCHANGED <<open, over>>

End(l) ==
  /\ l \in open /\ left[l] = <<>>
  /\ over' = over \cup {l}
  /\ UNCHANGED <<open, left, got>>

Next == \E l \in Loops : Begin(l) \/ Take(l) \/ End(l)

Spec == Init /\ [][Next]_vars
=============================================================================
