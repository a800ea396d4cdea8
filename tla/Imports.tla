------------------------------- MODULE Imports --------------------------------
(***************************************************************************)
(* Imports are replaced by what the files say when the file that imports   *)
(* them has been parsed.  Lists of nodes are linked: a cell has a node, the*)
(* next cell, and the first cell of what is in a namespace; 0 is none.     *)
(* What a file was read as is kept under its name and linked in again when *)
(* the file is imported again.                                             *)
(***************************************************************************)
EXTENDS Parser, CHeader

CONSTANT MaxVisits   \* nodes looked at before the replacement counts as endless

\* The cells, the files read, the nodes looked at; the first cell of the program, and
\* the one before the next (0 for none).
NoLinks == [heap |-> <<>>, read |-> {}, visits |-> 0, head |-> 0, behind |-> 0]

RECURSIVE Linked(_, _), Unlinked(_, _)
Linked(heap, a) ==
  IF a = <<>> THEN [heap |-> heap, head |-> 0]
  ELSE LET inside == Linked(heap, IF a[1].k = "namespace" THEN a[1].a[2].a ELSE <<>>)
           rest   == Linked(inside.heap, Tail(a))
       IN  [heap |-> Append(rest.heap, [node |-> a[1], next |-> rest.head, body |-> inside.head]), head |-> Len(rest.heap) + 1]
Unlinked(heap, c) ==
  IF c = 0 THEN <<>>
  ELSE <<IF heap[c].node.k = "namespace" THEN [heap[c].node EXCEPT !.a[2].a = Unlinked(heap, heap[c].body)] ELSE heap[c].node>>
       \o Unlinked(heap, heap[c].next)

-----------------------------------------------------------------------------
(***************************************************************************)
(* Reading a file.  Macros and names of types are shared by all that are   *)
(* read; a file that is empty or missing is an error, a header is not.     *)
(***************************************************************************)
Shared(p, q) == [p EXCEPT !.macros = q.macros, !.types = q.types, !.enums = q.enums, !.aliases = q.aliases]

Longer(a, l) == L(l.p, a \o l.a)
RECURSIVE AllNodes(_)
AllNodes(l) ==
  IF Is(l.p, {"eof"}) \/ l.p.stuck # "" THEN l ELSE AllNodes(Longer(l.a, Parse("round", 0, R(l.p, None))))
Program(p) == AllNodes(Nothing(Take(Prescan(p))))

Got(s, head)      == [s |-> s, head |-> head]
RootIfNone(a)     == IF a = <<>> THEN <<Leaf("root", "")>> ELSE a
PutIn(s, l)       == Got([s EXCEPT !.k.heap = l.heap], l.head)
Keep(g, path)     == Got([g.s EXCEPT !.k.read = @ \cup {[path |-> path, head |-> g.head]}], g.head)
FromFile(s, l)    == PutIn([s EXCEPT !.p = [Shared(@, l.p) EXCEPT !.stuck = l.p.stuck]], Linked(s.k.heap, RootIfNone(l.a)))
FromHeader(s, l)  == PutIn([s EXCEPT !.p.stuck = l.h.stuck], Linked(s.k.heap, RootIfNone(l.a)))
TextOf(files, path) == IF \E f \in files : f.path = path THEN (CHOOSE f \in files : f.path = path).text ELSE <<>>
ReadAs(s, path)   == {x \in s.k.read : x.path = path}
Read(s, n, text)  ==
  CASE n.k = "c import" -> FromHeader(s, CParse("header", CFresh(text)))
    [] n.k = "import" /\ ReadAs(s, n.t) # {} -> Got(s, (CHOOSE x \in ReadAs(s, n.t) : TRUE).head)
    [] n.k = "import" /\ ReadAs(s, n.t) = {} /\ text = <<>> -> Got([s EXCEPT !.p = Say(@)], 0)
    [] OTHER -> Keep(FromFile(s, Program(Shared(Fresh(Tokens(text)), s.p))), n.t)

-----------------------------------------------------------------------------
(***************************************************************************)
(* Replacing the imports of a list.  What a file says is treated like that *)
(* first, then linked in front of what follows the import, and looked at   *)
(* once more with it, all but its first node.                              *)
(***************************************************************************)
NextOf(s, head, behind) == IF behind = 0 THEN head ELSE s.k.heap[behind].next
SetNext(s, c, to)        == [s EXCEPT !.k.heap[c].next = to]
Circular(s)              == [s EXCEPT !.p.stuck = "hangs"]
RECURSIVE LastCell(_, _, _), Resolved(_, _, _), EachOf(_, _)
LastCell(heap, c, steps) ==
  IF heap[c].next = 0 \/ steps = Len(heap) THEN c ELSE LastCell(heap, heap[c].next, steps + 1)

IntoSpace(g, c) == Got([g.s EXCEPT !.k.heap[c].body = g.head], c)
\* Mutant of LinkedIn: what follows the import is forgotten.
LinkedIn_DropsRest(g, c) == g
\* g is what the file says; the import is cell c.
LinkedIn(g, c) ==
  LET last == LastCell(g.s.k.heap, g.head, 0)
  IN  IF g.head = 0 \/ g.s.p.stuck # "" THEN g
      ELSE IF g.s.k.heap[last].next # 0 THEN Got(Circular(g.s), g.head)
      ELSE Got(SetNext(g.s, last, g.s.k.heap[c].next), g.head)
AllOf(g, files) == EachOf([s |-> g.s, head |-> g.head, behind |-> 0], files)
Resolved(s, files, c) ==
  LET n == s.k.heap[c].node
  IN  CASE n.k \in {"import", "c import"} -> LinkedIn(AllOf(Read(s, n, TextOf(files, n.t)), files), c)
        [] n.k = "namespace" -> IntoSpace(AllOf(Got(s, s.k.heap[c].body), files), c)
        [] OTHER -> Got(s, c)

\* The list that begins at head, from behind a cell on: one node, or all.
Reached(s, head, behind) == [s |-> s, head |-> head, behind |-> behind]
PutAt(l, to)             == IF l.behind = 0 THEN Reached(l.s, to, to) ELSE Reached(SetNext(l.s, l.behind, to), l.head, to)
PutBack(g, l, c)         == PutAt([l EXCEPT !.s = g.s], IF g.head = 0 THEN c ELSE g.head)
OneAt(l, files, c)       == PutBack(Resolved([l.s EXCEPT !.k.visits = @ + 1], files, c), l, c)
OneOf(l, files) ==
  IF l.s.k.visits = MaxVisits THEN [l EXCEPT !.s = Circular(@)] ELSE OneAt(l, files, NextOf(l.s, l.head, l.behind))
EachOf(l, files) ==
  IF NextOf(l.s, l.head, l.behind) = 0 \/ l.s.p.stuck # "" THEN Got(l.s, l.head) ELSE EachOf(OneOf(l, files), files)
=============================================================================
