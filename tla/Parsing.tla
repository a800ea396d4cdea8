------------------------------ MODULE Parsing ------------------------------
(***************************************************************************)
(* A program is parsed, one node of its top level after the other, and     *)
(* then a second text is: what the emitter writes for the tree, or the     *)
(* program with its macros and imports replaced by hand.  Both trees must  *)
(* be the same.  A C header is read once, one declaration after the other. *)
(***************************************************************************)
EXTENDS Emitter, Imports

\* Records: the kind of a program, its text, the tree meant by it or the text
\* without macros and imports, and the files that may be imported.
CONSTANT Jobs

VARIABLES job,    \* the program that was chosen
          text,   \* what is read now
          p,      \* the parser
          out,    \* the nodes read so far
          first,  \* those of the first text
          links,  \* the same nodes, linked, while imports are replaced
          stage   \* what comes next

vars == <<job, text, p, out, first, links, stage>>

Headers   == {"header", "torn header"}
Importing == {"imports", "imported header", "missing import"}

Init == /\ job \in Jobs
        /\ text = job.text
        /\ p = (IF job.kind \in Headers THEN CFresh(job.text) ELSE Fresh(<<>>))
        /\ out = <<>> /\ first = <<>> /\ links = NoLinks
        /\ stage = IF job.kind \in Headers THEN "header" ELSE "open"

\* The text is cut into tokens, its type names are noted and the first token is read.
Open ==
  /\ p' = Take(Prescan(Fresh(Tokens(text))))
  /\ stage \in {"open", "reopen"}
  /\ stage' = IF stage = "open" THEN "parse" ELSE "reparse"
  /\ out' = <<>>
  /\ UNCHANGED <<job, text, first, links>>

Unfinished == ~Is(p, {"eof"}) /\ p.stuck = ""

\* One round of the loop over the program.
ParseNode ==
  /\ UNCHANGED <<job, text, first, links, stage>>
  /\ stage \in {"parse", "reparse"} /\ Unfinished
  /\ \E l \in {Parse("round", 0, R(p, None))} : p' = l.p /\ out' = out \o l.a

\* The second text.
Rewrite ==
  /\ stage = "parse" /\ ~Unfinished /\ job.kind \notin Importing
  /\ stage' = IF job.kind \in {"tree", "program", "macros"} THEN "reopen" ELSE "done"
  /\ text' = IF job.kind = "macros" THEN job.meant ELSE Emitted(out)
  /\ first' = out
  /\ UNCHANGED <<job, p, out, links>>

\* Imports are replaced when the program has been read, one node after the other.
LinkNodes ==
  /\ stage = "parse" /\ ~Unfinished /\ job.kind \in Importing
  /\ \E l \in {Linked(<<>>, out)} : links' = [NoLinks EXCEPT !.heap = l.heap, !.head = l.head]
  /\ stage' = "resolve"
  /\ UNCHANGED <<job, text, p, out, first>>

NodesLeft == p.stuck = "" /\ NextOf([k |-> links], links.head, links.behind) # 0

ResolveNode ==
  /\ stage = "resolve" /\ NodesLeft
  /\ \E r \in {OneOf(Reached([p |-> p, k |-> links], links.head, links.behind), job.files)} :
        p' = r.s.p /\ links' = [r.s.k EXCEPT !.head = r.head, !.behind = r.behind]
  /\ UNCHANGED <<job, text, out, first, stage>>

EndResolve ==
  /\ stage = "resolve" /\ ~NodesLeft
  /\ out' = (IF p.stuck = "" THEN Unlinked(links.heap, links.head) ELSE <<>>) /\ first' = out'
  /\ stage' = IF job.kind = "imports" THEN "reopen" ELSE "done"
  /\ text' = IF job.kind = "imports" THEN job.meant ELSE text
  /\ UNCHANGED <<job, p, links>>

Close == stage = "reparse" /\ ~Unfinished /\ stage' = "done" /\ UNCHANGED <<job, text, p, out, first, links>>

\* One round of the loop over a header.
ReadDeclaration ==
  /\ UNCHANGED <<job, text, first, links, stage>>
  /\ stage = "header" /\ p.toks # <<>> /\ p.stuck = ""
  /\ \E l \in {CRound(CL(p, out), {})} : p' = l.h /\ out' = l.a

CloseHeader ==
  stage = "header" /\ (p.toks = <<>> \/ p.stuck # "") /\ stage' = "done" /\ UNCHANGED <<job, text, p, out, first, links>>

Next == Open \/ ParseNode \/ Rewrite \/ LinkNodes \/ ResolveNode \/ EndResolve \/ Close \/ ReadDeclaration \/ CloseHeader
Spec == Init /\ [][Next]_vars

-----------------------------------------------------------------------------
(***************************************************************************)
(* Properties.                                                             *)
(***************************************************************************)
AllRead == stage = "parse" /\ ~Unfinished

(* The loops over statements, cases, names and values end, whatever is     *)
(* missing or too much in a program, and no null node is followed.         *)
NeverStuck == p.stuck = ""

(* Whoever finds an error says so, so that no part of a program is dropped *)
(* in silence; whatever has been parsed without one is kept.  (The errors  *)
(* of a header are reported where they are found.)                         *)
ErrorsTold == job.kind \notin Headers /\ p.err => p.told = "now"

(* An expression that is written with no more parentheses than precedence  *)
(* and grouping need is read as the tree it was written for.               *)
SameTree == job.kind = "tree" /\ AllRead => out = <<job.meant>> /\ p.told = "no"

(* What the emitter has a form for: it writes parentheses around binary    *)
(* operators only, nothing for a fallback, a named argument or what is     *)
(* called when that is no name, and a function without statements as if it *)
(* had no body.                                                            *)
Selfcontained == {"ref", "bin", "index", "member", "call", "method", "post", "array"} \cup Literals
RECURSIVE Printable(_)
Printable(n) ==
  /\ n.k \notin {"fallback", "named"}
  /\ n.k \in {"index", "member", "method", "post"} => n.a[1].k \in Selfcontained
  /\ n.k = "pre" => n.a[1].k # "assign"
  /\ n.k = "bin" => n.a[1].k # "assign" /\ n.a[2].k # "assign"
  /\ n.k = "assign" => n.a[1].k # "assign"
  /\ n.k = "call" => n.a[1] = None
  /\ n.k = "func" => n.a[4] = None \/ n.a[4].a # <<>>
  /\ n.k \in {"call", "method"} => \A i \in 2 .. Len(n.a) : n.a[i].k # "assign"
  /\ \A i \in DOMAIN n.a : Printable(n.a[i])

(* What the emitter writes is read as the tree it was written for, and a   *)
(* program with macros as the program with their text in its place.        *)
RoundTrip == job.kind \in {"tree", "program"} /\ stage = "done" /\ (\A i \in DOMAIN first : Printable(first[i])) =>
               out = first /\ p.told = "no"
MacrosTransparent == job.kind = "macros" /\ stage = "done" => out = first

(* What a program imports is read as if it stood in place of the import,   *)
(* in a namespace and in another imported file too; what follows an import *)
(* keeps following it.                                                     *)
ImportsInPlace == job.kind = "imports" /\ stage = "done" => out = SelectSeq(first, LAMBDA n : n.k # "root")

\* The names of a tree in the order in which they were written.
RECURSIVE NamesIn(_)
AllNames(a) == FlattenSeq([i \in DOMAIN a |-> NamesIn(a[i])])
NamesIn(n) ==
  LET here == IF n.t \in Words THEN <<n.t>> ELSE <<>>
      from(i) == AllNames([j \in 1 .. Len(n.a) - i + 1 |-> n.a[j + i - 1]])
  IN  CASE n.k \in {"member", "errors"} -> from(1) \o here
        [] n.k \in {"method", "var", "param", "being"} -> NamesIn(n.a[1]) \o here \o from(2)
        [] n.k = "func" -> NamesIn(n.a[5]) \o NamesIn(n.a[1]) \o here \o NamesIn(n.a[3]) \o NamesIn(n.a[4])
        [] OTHER -> here \o from(1)

\* A declaration up to the depth of its pointers, which is doubled in most places.
RECURSIVE UpToDepth(_)
UpToDepth(n) ==
  IF n.k \in {"basic", "class"} /\ n.a # <<>> THEN [n EXCEPT !.a = <<Star>>]
  ELSE [n EXCEPT !.a = [i \in DOMAIN n.a |-> UpToDepth(n.a[i])]]
DepthsAside(a) == [i \in DOMAIN a |-> UpToDepth(a[i])]

(* A header is read as the declarations it consists of, with the types and *)
(* names they were written with; a declaration that cannot be read costs   *)
(* neither those before it nor those behind it.                            *)
DeclarationsKept ==
  job.kind \in Headers \cup {"imported header"} /\ stage = "done" =>
    LET before == DepthsAside(job.meant.before)
        after  == DepthsAside(job.meant.after)
        all    == DepthsAside(out)
    IN  /\ IsPrefix(before, all) /\ IsSuffix(after, all)
        /\ job.kind # "torn header" => Len(all) = Len(before) + Len(after)

(* No name of a program gets lost or changes its place on the way into the *)
(* tree, unless the program has an error and the parser reports one.       *)
NamesKept == job.kind \notin {"macros"} \cup Importing /\ AllRead /\ (job.kind = "damaged" => p.told = "no") =>
               AllNames(out) = SelectSeq(text, LAMBDA s : s \in Words)
=============================================================================
