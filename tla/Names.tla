--------------------------------- MODULE Names ---------------------------------
(***************************************************************************)
(* The names of a program in the semantic analysis: the pass that enters   *)
(* the declarations into scopes (sem_scan_top_level), the searches for a   *)
(* name (sem_symbol_lookup), for a member of a class, for the fields a     *)
(* constructor fills, and for a class that contains itself, and the calls, *)
(* which choose between the functions of a name (module Overloads).        *)
(*                                                                         *)
(* stack is the C call stack: one frame per search under way, and one step *)
(* per round of its loops, so that a search that never returns is a        *)
(* behaviour that never ends, and one that calls itself without end meets  *)
(* MaxDepth.  A name may be qualified: it is a sequence.  The functions    *)
(* that name things come after the declarations, as uses.                  *)
(***************************************************************************)
EXTENDS Overloads

CONSTANTS
  Programs,  \* [items |-> declarations, uses |-> what the functions name]
  MaxDepth   \* the calls that fit on the C stack

ASSUME MaxDepthAssumption == MaxDepth \in Nat

VARIABLES
  program,   \* the program being analysed
  phase,     \* "scan", "relate", "check", "sizes", "final", "done"; "overflow"
  todo,      \* what is left of the phase
  here,      \* ctx->current_scope
  symbols,   \* every symbol made, by its number
  scopes,    \* every scope: its symbols, newest first, and its table
  stack,     \* the searches under way, the innermost last
  answer,    \* what the search that ended last found
  fields,    \* the fields collected for a constructor
  heap,      \* the nodes of arguments and defaults
  calls,     \* the calls checked, with the function or the fields taken
  errors,    \* the kinds of error reported
  counted    \* those of them that raise error_count

vars == <<program, phase, todo, here, symbols, scopes, stack, answer, fields, heap, calls,
          errors, counted>>

Unasked == -1
Nothing == 0
Global == 1

--------------------------------------------------------------------------------
(* Symbols and scopes. *)

\* sem_symbol_add; must_pure is what the check for size cycles marks.
NewSymbol(name, kind) ==
  [name |-> name, kind |-> kind, inner |-> Nothing, parent |-> "", traits |-> <<>>,
   hidden |-> FALSE, closed |-> FALSE, is_a |-> "", has_a |-> "", used_as_parent |-> FALSE,
   used_as_composition |-> FALSE, type |-> "", by_value |-> FALSE, default |-> FALSE,
   constructed |-> FALSE, params |-> <<>>, overloads |-> <<>>, must_pure |-> FALSE, must_pristine |-> FALSE]
NewScope(parent, class) == [order |-> <<>>, map |-> <<>>, parent |-> parent, class |-> class]

Tables == [symbols |-> symbols, scopes |-> scopes]
Taken(t) == symbols' = t.symbols /\ scopes' = t.scopes

InMap(t, scope, name) ==
  IF name \in DOMAIN t.scopes[scope].map THEN t.scopes[scope].map[name] ELSE Nothing

\* Functions of a scope with one name form a chain; any other symbol takes
\* the name over.
Add(t, scope, sym) ==
  LET n == Len(t.symbols) + 1
      old == InMap(t, scope, sym.name)
      chained == old # Nothing /\ t.symbols[old].kind = "func" /\ sym.kind = "func"
      entered == [t EXCEPT !.symbols = Append(@, sym), !.scopes[scope].order = <<n>> \o @]
  IN  IF chained THEN [entered EXCEPT !.symbols[old].overloads = Append(@, n)]
      ELSE [entered EXCEPT !.scopes[scope].map = (sym.name :> n) @@ @]
\* A scope for symbol n, inside the current one.
Inner(t, n, class) ==
  [t EXCEPT !.symbols[n].inner = Len(t.scopes) + 1,
            !.scopes = Append(@, NewScope(here, class))]
AddAll(t, scope, syms) == FoldLeft(LAMBDA u, sym : Add(u, scope, sym), t, syms)

\* find_in_scope_direct: a constructor does not hide its class.
Direct(scope, name) ==
  LET n == InMap(Tables, scope, name)
      class == scopes[scope].class
  IN  IF n # Nothing /\ class # Nothing /\ symbols[n].kind = "func"
         /\ symbols[n].name = symbols[class].name
      THEN Nothing ELSE n
IsType(n) == symbols[n].kind \in {"class", "enum", "namespace", "template"}
IsClass(n) == n # Nothing /\ symbols[n].kind = "class"

--------------------------------------------------------------------------------
(* Searching a name: sem_symbol_lookup, and _type for types only. *)

Top == Last(stack)
Running(k) == stack # <<>> /\ Top.k = k
Change(frame) == stack' = Append(Front(stack), frame)
\* A search from a scope, and what came of it.
Search(path, types, scope) ==
  [k |-> "lookup", path |-> path, types |-> types, scope |-> scope, stage |-> "scope",
   class |-> Nothing, at |-> 0]
Ask(path, types, scope) ==
  /\ answer = Unasked
  /\ stack' = Append(stack, Search(path, types, scope)) /\ answer' = Unasked
Answered == answer # Unasked
OnlySearch ==
  UNCHANGED <<program, phase, todo, here, symbols, scopes, fields, heap, calls, errors, counted>>

Enclosing(scope) ==
  LET chain[s \in 0 .. Len(scopes)] ==
        IF s = Nothing THEN <<>> ELSE <<s>> \o chain[scopes[s].parent]
  IN  chain[scope]
\* The first of these scopes that has the name for something wanted.
FirstWith(chain, name, wanted) ==
  LET has == {i \in DOMAIN chain : Direct(chain[i], name) \in wanted}
  IN  IF has = {} THEN Nothing ELSE chain[Min(has)]

\* A symbol is found in a scope: the rest of a qualified name is searched
\* from inside it.  A base without a scope of its own is searched further up.
Found(n, scope) ==
  LET f == Top
      within == {m \in DOMAIN symbols : symbols[m].inner # Nothing}
      up == IF scope = Nothing THEN <<>> ELSE Tail(Enclosing(scope))
      other == FirstWith(up, Head(f.path), within)
      base == IF n \in within THEN n
              ELSE IF f.types \/ other = Nothing THEN Nothing ELSE Direct(other, Head(f.path))
  IN  IF Len(f.path) = 1 THEN stack' = Front(stack) /\ answer' = n
      ELSE IF base = Nothing THEN stack' = Front(stack) /\ answer' = Nothing
      ELSE Change(Search(Tail(f.path), f.types, symbols[base].inner)) /\ UNCHANGED answer

Visible(n) == ~symbols[n].hidden
Fits(n) == n # Nothing /\ Visible(n) /\ (Top.types => IsType(n))

\* Entries of the enums declared in a scope.
Entries(scope, name) ==
  {m \in UNION {Range(scopes[symbols[e].inner].order) :
                  e \in {x \in Range(scopes[scope].order) : symbols[x].kind = "enum"}} :
     symbols[m].name = name}
ScopeOf(m) == CHOOSE s \in DOMAIN scopes : m \in Range(scopes[s].order)

\* The class that the class of this scope names as its parent.
ParentClass(scope) ==
  LET class == scopes[scope].class
      wanted == symbols[class].parent
      at == FirstWith(Enclosing(scopes[scope].parent), wanted,
                      {m \in DOMAIN symbols : IsClass(m)})
  IN  IF class = Nothing \/ wanted = "" \/ at = Nothing THEN Nothing ELSE Direct(at, wanted)

Outwards(f) ==
  Change([f EXCEPT !.scope = scopes[f.scope].parent, !.class = Nothing, !.at = 1,
            !.stage = IF scopes[f.scope].parent = Nothing THEN "spaces" ELSE "scope"])

\* One scope: its own names, the entries of its enums, what it inherits.
LookScope ==
  /\ Running("lookup") /\ Top.stage = "scope"
  /\ LET f == Top
         name == Head(f.path)
         own == Direct(f.scope, name)
         entries == IF f.types THEN {} ELSE Entries(f.scope, name)
         parent == IF f.types THEN Nothing ELSE ParentClass(f.scope)
         inherited == IF parent = Nothing THEN Nothing ELSE Direct(symbols[parent].inner, name)
     IN  IF Fits(own) THEN Found(own, f.scope)
         ELSE IF entries # {} THEN LET m == Max(entries) IN Found(m, ScopeOf(m))
         ELSE IF inherited # Nothing THEN Found(inherited, symbols[parent].inner)
         ELSE /\ IF parent = Nothing THEN Outwards(f)
                 ELSE Change([f EXCEPT !.stage = "ancestors", !.class = parent])
              /\ UNCHANGED answer
  /\ OnlySearch

\* Mutant of LookAncestor: the search stays at the ancestor it is at.
LookAncestor_Stays ==
  /\ Running("lookup") /\ Top.stage = "ancestors"
  /\ LET f == Top
         parent == symbols[f.class].parent
         next == IF parent = "" THEN Nothing ELSE Direct(Global, parent)
         inherited == IF IsClass(next) THEN Direct(symbols[next].inner, Head(f.path)) ELSE Nothing
     IN  IF inherited # Nothing THEN Found(inherited, symbols[next].inner)
         ELSE /\ IF IsClass(next) THEN Change(f) ELSE Outwards(f)
              /\ UNCHANGED answer
  /\ OnlySearch
\* One more ancestor; its class is looked for among the global names only.
LookAncestor ==
  /\ Running("lookup") /\ Top.stage = "ancestors"
  /\ LET f == Top
         parent == symbols[f.class].parent
         next == IF parent = "" THEN Nothing ELSE Direct(Global, parent)
         inherited == IF IsClass(next) THEN Direct(symbols[next].inner, Head(f.path)) ELSE Nothing
     IN  IF inherited # Nothing THEN Found(inherited, symbols[next].inner)
         ELSE /\ IF IsClass(next) THEN Change([f EXCEPT !.class = next]) ELSE Outwards(f)
              /\ UNCHANGED answer
  /\ OnlySearch

\* The namespaces, newest first, when the name is in no scope around.
LookSpaces ==
  /\ Running("lookup") /\ Top.stage = "spaces"
  /\ LET f == Top
         spaces == scopes[Global].order
         s == spaces[f.at]
         inside == IF symbols[s].kind # "namespace" THEN Nothing
                   ELSE Direct(symbols[s].inner, Head(f.path))
         wanted == inside # Nothing /\ (f.types => IsType(inside))
     IN  IF f.at > Len(spaces) THEN stack' = Front(stack) /\ answer' = Nothing
         ELSE IF wanted /\ ~Visible(inside) THEN UNCHANGED <<stack, answer>>
         ELSE IF wanted THEN Found(inside, symbols[s].inner)
         ELSE Change([f EXCEPT !.at = @ + 1]) /\ UNCHANGED answer
  /\ OnlySearch

--------------------------------------------------------------------------------
(* Entering the declarations: sem_scan_top_level. *)

\* The nodes of the arguments written at the calls, every list chained.
NoUse == 0
Written(u) ==
  IF u = NoUse THEN <<>> ELSE IF program.uses[u].k # "call" THEN <<>>
  ELSE [i \in DOMAIN program.uses[u].args |-> <<"arg", u, i>>]
Arguments ==
  LET all == UNION {Range(Written(u)) : u \in DOMAIN program.uses}
      plain == [x \in all |-> LET a == program.uses[x[2]].args[x[3]] IN Node(a.type, a.name)]
  IN  [x \in all |-> IF x[3] = Len(Written(x[2])) THEN plain[x]
                     ELSE [plain[x] EXCEPT !.next = <<"arg", x[2], x[3] + 1>>]]

Init ==
  /\ program \in Programs
  /\ phase = "scan"
  /\ todo = program.items
  /\ here = Global
  /\ symbols = <<>>
  /\ scopes = <<NewScope(Nothing, Nothing)>>
  /\ stack = <<>>
  /\ answer = Unasked
  /\ fields = <<>>
  /\ heap = Arguments
  /\ calls = <<>>
  /\ errors = {} /\ counted = {}

Now == Head(todo)
At(p, k) == phase = p /\ todo # <<>> /\ Now.k = k /\ stack = <<>>
Scanning(k) == At("scan", k)
\* An error at a node of the program, and one without a node.
Report(es) == errors' = errors \cup es /\ counted' = counted \cup es
ReportNowhere(es) == errors' = errors \cup es /\ UNCHANGED counted
Quiet == UNCHANGED <<errors, counted>>
ErrorIf(cond, what) == IF cond THEN {what} ELSE {}
Apart == UNCHANGED <<program, phase, fields, calls>>

ScanVar ==
  /\ Scanning("var") /\ todo' = Tail(todo)
  /\ Taken(Add(Tables, here, [NewSymbol(Now.name, "var") EXCEPT
               !.type = Now.type, !.by_value = Now.by_value, !.default = Now.default]))
  /\ UNCHANGED <<here, stack, answer>> /\ Quiet /\ Apart /\ UNCHANGED heap

ScanEnum ==
  /\ Scanning("enum") /\ todo' = Tail(todo)
  /\ LET t == Add(Tables, here, NewSymbol(Now.name, "enum"))
         u == Inner(t, Len(t.symbols), Nothing)
     IN  Taken(AddAll(u, Len(u.scopes), [i \in DOMAIN Now.entries |->
                                           NewSymbol(Now.entries[i], "var")]))
  /\ UNCHANGED <<here, stack, answer>> /\ Quiet /\ Apart /\ UNCHANGED heap

ScanTemplate ==
  /\ Scanning("template") /\ todo' = Tail(todo)
  /\ Taken(Add(Tables, here, NewSymbol(Now.name, "template")))
  /\ UNCHANGED <<here, stack, answer>> /\ Quiet /\ Apart /\ UNCHANGED heap

\* Before a function, a namespace or an extension is entered, its name is
\* searched from here outwards.
AskDeclared ==
  /\ phase = "scan" /\ todo # <<>> /\ stack = <<>>
  /\ Now.k \in {"func", "namespace", "extended"}
  /\ Ask(<<Now.name>>, FALSE, here)
  /\ OnlySearch

Defaults(f, params) ==
  [x \in {DefaultOf(f, i) : i \in {j \in DOMAIN params : params[j].default # ""}} |->
     Node(params[x[3]].default, "")]

\* sem_symbolic_func_def: a function without parameters that is found under
\* the name becomes this one; in an extension the name should be new, or
\* the function an override.
ScanFunc ==
  /\ Scanning("func") /\ Answered /\ answer' = Unasked /\ todo' = Tail(todo)
  /\ Report(ErrorIf(Now.extends /\ ~Now.override /\ InMap(Tables, here, Now.name) # Nothing,
                    "method exists"))
  /\ LET becomes == answer # Nothing /\ symbols[answer].kind = "func"
                      /\ symbols[answer].params = <<>> /\ Now.params # <<>>
         n == IF becomes THEN answer ELSE Len(symbols) + 1
     IN  /\ heap' = Defaults(n, Now.params) @@ heap
         /\ IF becomes
            THEN symbols' = [symbols EXCEPT ![answer].params = Now.params] /\ UNCHANGED scopes
            ELSE Taken(Add(Tables, here,
                           [NewSymbol(Now.name, "func") EXCEPT !.params = Now.params]))
  /\ UNCHANGED <<here, stack>> /\ Apart

Members(item, extends) ==
  [i \in DOMAIN item.members |->
     IF item.members[i].k = "func" THEN [item.members[i] EXCEPT !.extends = extends]
     ELSE item.members[i]]
\* The members are entered in the scope, then the scan goes on outside.
EnterScope(scope, items) ==
  /\ here' = scope
  /\ todo' = items \o <<[k |-> "leave", scope |-> here]>> \o Tail(todo)

ScanClass ==
  /\ Scanning("class")
  /\ LET t == Add(Tables, here, [NewSymbol(Now.name, "class") EXCEPT
                   !.parent = Now.parent, !.traits = Now.traits, !.is_a = Now.is_a,
                   !.has_a = Now.has_a, !.must_pure = Now.pure])
         u == Inner(t, Len(t.symbols), Len(t.symbols))
     IN  Taken(u) /\ EnterScope(Len(u.scopes), Members(Now, FALSE))
  /\ UNCHANGED <<stack, answer>> /\ Quiet /\ Apart /\ UNCHANGED heap

\* `extended class`: the members go into the class that is there, or into
\* one made for a type of the language.
Primitives == {"int", "char", "bool", "single", "double"}
ScanExtended ==
  /\ Scanning("extended") /\ Answered /\ answer' = Unasked
  /\ LET fresh == answer = Nothing /\ Now.name \in Primitives
         t == IF fresh THEN Add(Tables, here, NewSymbol(Now.name, "class")) ELSE Tables
         n == IF fresh THEN Len(t.symbols) ELSE answer
         u == IF t.symbols[n].inner # Nothing THEN t ELSE Inner(t, n, n)
     IN  IF n = Nothing \/ t.symbols[n].is_a = "final"
         THEN /\ Report({"cannot extend"}) /\ todo' = Tail(todo)
              /\ UNCHANGED <<symbols, scopes, here>>
         ELSE Taken(u) /\ EnterScope(u.symbols[n].inner, Members(Now, TRUE)) /\ Quiet
  /\ UNCHANGED <<stack, heap>> /\ Apart

\* A namespace may be reopened; a closed one may not, nor closed later.
ScanNamespace ==
  /\ Scanning("namespace") /\ Answered /\ answer' = Unasked
  /\ LET there == answer # Nothing /\ symbols[answer].kind = "namespace"
         t == Add(Tables, here, [NewSymbol(Now.name, "namespace") EXCEPT
                    !.closed = Now.closed, !.hidden = Now.hidden])
         u == IF there THEN Tables ELSE Inner(t, Len(t.symbols), Nothing)
     IN  /\ Taken(u)
         /\ EnterScope(IF there THEN symbols[answer].inner ELSE Len(u.scopes), Now.members)
         /\ Report(ErrorIf(there /\ (symbols[answer].closed \/ Now.closed), "closed namespace"))
  /\ UNCHANGED <<stack, heap>> /\ Apart

Leave ==
  /\ todo # <<>> /\ Now.k = "leave" /\ stack = <<>>
  /\ here' = Now.scope /\ todo' = Tail(todo)
  /\ UNCHANGED <<symbols, scopes, stack, answer>> /\ Quiet /\ Apart /\ UNCHANGED heap

--------------------------------------------------------------------------------
(* Walks over the classes of a class: for a member, for the fields that a  *)
(* constructor fills, for its size.  An edge is a name, searched each time. *)

Parent(n) == IF symbols[n].parent = "" THEN <<>> ELSE <<symbols[n].parent>>
OwnFields(n) ==
  Reverse(SelectSeq(scopes[symbols[n].inner].order, LAMBDA m : symbols[m].kind = "var"))
ByValue(n) ==
  LET held == SelectSeq(Reverse(OwnFields(n)),
                        LAMBDA m : symbols[m].by_value /\ symbols[m].type # "")
  IN  [i \in DOMAIN held |-> symbols[held[i]].type]
Edges(f) ==
  CASE f.k = "member" -> symbols[f.class].traits \o Parent(f.class)
    [] f.k = "fields" -> Parent(f.class) \o symbols[f.class].traits
    [] f.k = "size" -> Parent(f.class) \o symbols[f.class].traits \o ByValue(f.class)
Walk(k, class, name) == [k |-> k, class |-> class, name |-> name, at |-> 0]
AtEnd(f) == f.at > Len(Edges(f))
Continue(f) == [f EXCEPT !.at = @ + 1]
Member(n, name) ==
  IF symbols[n].inner = Nothing THEN Nothing ELSE InMap(Tables, symbols[n].inner, name)

\* The next edge is searched while the stack has room.
NextEdge ==
  /\ stack # <<>> /\ Top.k \in {"member", "fields", "size"}
  /\ Top.at > 0 /\ ~AtEnd(Top) /\ answer = Unasked
AskEdge ==
  /\ NextEdge /\ Len(stack) < MaxDepth
  /\ Ask(<<Edges(Top)[Top.at]>>, FALSE, here)
  /\ OnlySearch
Overflow ==
  /\ NextEdge /\ Len(stack) >= MaxDepth
  /\ phase' = "overflow" /\ todo' = <<>> /\ stack' = <<>>
  /\ UNCHANGED <<program, here, symbols, scopes, answer, fields, heap, calls, errors, counted>>

\* sem_check_member_access, sem_lookup_class_call: the class itself, each of
\* its traits, then the same from its parent.
StepMember ==
  /\ Running("member") /\ (Top.at = 0 \/ AtEnd(Top) \/ Answered)
  /\ LET f == Top
         own == Member(f.class, f.name)
         toParent == f.at = Len(Edges(f)) /\ Parent(f.class) # <<>>
         there == IF answer = Nothing THEN Nothing ELSE Member(answer, f.name)
     IN  IF f.at = 0
         THEN IF own # Nothing THEN stack' = Front(stack) /\ answer' = own
              ELSE Change(Continue(f)) /\ UNCHANGED answer
         ELSE IF AtEnd(f) THEN stack' = Front(stack) /\ answer' = Nothing
         ELSE IF toParent /\ answer # Nothing
              THEN Change(Walk("member", answer, f.name)) /\ answer' = Unasked
         ELSE IF ~toParent /\ there # Nothing THEN stack' = Front(stack) /\ answer' = there
         ELSE Change(Continue(f)) /\ answer' = Unasked
  /\ OnlySearch

\* sem_count_class_fields, sem_count_required_class_fields and
\* sem_collect_class_fields, which walk alike and without looking back: the
\* fields of the parent, of the traits, then the class's own.
StepFields ==
  /\ Running("fields") /\ (Top.at = 0 \/ AtEnd(Top) \/ Answered)
  /\ answer' = Unasked
  /\ LET f == Top
         on == Append(Front(stack), Continue(f))
     IN  IF AtEnd(f) /\ f.at > 0
         THEN stack' = Front(stack) /\ fields' = fields \o OwnFields(f.class)
         ELSE /\ stack' = IF f.at > 0 /\ IsClass(answer)
                          THEN Append(on, Walk("fields", answer, "")) ELSE on
              /\ UNCHANGED fields
  /\ UNCHANGED <<program, phase, todo, here, symbols, scopes, heap, calls, errors, counted>>

\* check_class_size_cycle: must_pure marks a class under way, must_pristine
\* one that is done; a cycle ends the whole check.
Visit(rest, n) ==
  IF IsClass(n) /\ symbols[n].must_pure
  THEN /\ ReportNowhere({"cycle"}) /\ stack' = <<>> /\ todo' = <<>> /\ UNCHANGED symbols
  ELSE /\ Quiet /\ UNCHANGED todo
       /\ IF IsClass(n) /\ ~symbols[n].must_pristine
          THEN /\ stack' = Append(rest, Continue(Walk("size", n, "")))
               /\ symbols' = [symbols EXCEPT ![n].must_pure = TRUE]
          ELSE stack' = rest /\ UNCHANGED symbols
StepSize ==
  /\ Running("size") /\ (AtEnd(Top) \/ Answered)
  /\ answer' = Unasked
  /\ IF AtEnd(Top)
     THEN /\ symbols' = [symbols EXCEPT ![Top.class].must_pure = FALSE,
                                        ![Top.class].must_pristine = TRUE]
          /\ stack' = Front(stack) /\ UNCHANGED todo /\ Quiet
     ELSE Visit(Append(Front(stack), Continue(Top)), answer)
  /\ UNCHANGED <<program, phase, here, scopes, fields, heap, calls>>

--------------------------------------------------------------------------------
(* The checks after the scan: sem_check_program. *)

\* A name of the phase's list is searched from its scope.
Wanted(item) ==
  CASE item.k = "var" -> <<item.type>>
    [] item.k = "name" -> item.path
    [] item.k = "member" -> <<item.class>>
    [] item.k = "making" -> <<symbols[item.class].traits[item.at]>>
    [] OTHER -> <<item.name>>
Within(item) ==
  CASE item.k = "known" -> item.from
    [] item.k = "name" /\ item.within # "" -> symbols[InMap(Tables, Global, item.within)].inner
    [] OTHER -> here
Searched(item) ==
  \/ item.k \in {"parent", "trait", "class", "extended", "namespace", "var", "known", "field",
                 "name", "member", "call"}
  \/ item.k = "making" /\ item.at <= Len(symbols[item.class].traits)
AskNow ==
  /\ phase \in {"relate", "check"} /\ todo # <<>> /\ stack = <<>> /\ Searched(Now)
  /\ Ask(Wanted(Now), Now.k \in {"member", "class", "extended", "known"}, Within(Now))
  /\ OnlySearch
Asked(p, k) == At(p, k) /\ Answered /\ answer' = Unasked

Keep == UNCHANGED <<program, phase, here, scopes, fields, heap, calls>>
Composed(n) == [symbols EXCEPT ![n].used_as_composition = TRUE]

Inherit ==
  /\ Asked("relate", "parent") /\ todo' = Tail(todo)
  /\ Report(ErrorIf(IsClass(answer) /\ symbols[answer].is_a = "final", "final class"))
  /\ symbols' = IF IsClass(answer) THEN [symbols EXCEPT ![answer].used_as_parent = TRUE] ELSE symbols
  /\ UNCHANGED stack /\ Keep

\* A trait, and the class a field is of (the end of sem_check_var_decl).
Compose ==
  /\ Asked("relate", "trait") \/ Asked("check", "field")
  /\ todo' = Tail(todo)
  /\ Report(ErrorIf(IsClass(answer) /\ symbols[answer].has_a = "inert", "inert class"))
  /\ symbols' = IF IsClass(answer) THEN Composed(answer) ELSE symbols
  /\ UNCHANGED stack /\ Keep

\* What the passes over the declarations go through: of a class its parent
\* and its traits, of a scope what names a class.
Related(item) ==
  IF item.k # "class" THEN <<>>
  ELSE (IF item.parent = "" THEN <<>> ELSE <<[k |-> "parent", name |-> item.parent]>>)
         \o [i \in DOMAIN item.traits |-> [k |-> "trait", name |-> item.traits[i]]]
Known(item) ==
  [i \in DOMAIN Related(item) |-> [k |-> "known", name |-> Related(item)[i].name, from |-> here]]
Checkable(items) ==
  SelectSeq(items, LAMBDA m : \/ m.k \in {"class", "extended", "namespace"}
                              \/ m.k = "var" /\ m.type # "")

\* sem_check_node: a class's parent and traits, then its members from inside
\* it; the members of a namespace.
CheckScope ==
  /\ \E k \in {"class", "extended", "namespace"} : Asked("check", k)
  /\ IF answer # Nothing /\ symbols[answer].inner # Nothing
     THEN EnterScope(symbols[answer].inner, Known(Now) \o Checkable(Now.members))
     ELSE todo' = Known(Now) \o Tail(todo) /\ UNCHANGED here
  /\ UNCHANGED <<symbols, scopes, stack, heap>> /\ Quiet /\ Apart
CheckKnown ==
  /\ Asked("check", "known") /\ todo' = Tail(todo)
  /\ Report(ErrorIf(~IsClass(answer), "undefined class"))
  /\ UNCHANGED <<symbols, stack>> /\ Keep

\* sem_check_var_decl: before a variable that holds an object, and is given
\* none, is seen as a part of its class, the fields the object needs are
\* counted.
IsTemplate(n) == n # Nothing /\ symbols[n].kind = "template"
CheckVar ==
  /\ Asked("check", "var")
  /\ LET counts == Now.by_value /\ ~Now.default /\ answer # Nothing /\ ~IsTemplate(answer)
         composes == scopes[here].class # Nothing /\ ~IsTemplate(answer)
     IN  /\ stack' = IF counts /\ IsClass(answer) THEN <<Walk("fields", answer, "")>> ELSE <<>>
         /\ todo' = (IF counts THEN <<[k |-> "counted", name |-> Now.type,
                                       of |-> InMap(Tables, here, Now.name)]>> ELSE <<>>)
                      \o (IF composes THEN <<[k |-> "field", name |-> Now.type]>> ELSE <<>>)
                      \o Tail(todo)
  /\ Report(ErrorIf(IsTemplate(answer), "needs types"))
  /\ fields' = <<>>
  /\ UNCHANGED <<program, phase, here, symbols, scopes, heap, calls>>
\* It needs none: it is given a call of the constructor, checked at once.
Constructed(name) == [k |-> "call", name |-> name, args |-> <<>>, use |-> NoUse]
CountedFields ==
  /\ At("check", "counted") /\ answer = Unasked
  /\ IF \A i \in DOMAIN fields : symbols[fields[i]].default
     THEN /\ symbols' = [symbols EXCEPT ![Now.of].default = TRUE, ![Now.of].constructed = TRUE]
          /\ todo' = <<Constructed(Now.name)>> \o Tail(todo)
     ELSE todo' = Tail(todo) /\ UNCHANGED symbols
  /\ UNCHANGED <<stack, answer>> /\ Quiet /\ Keep

UseName ==
  /\ Asked("check", "name") /\ todo' = Tail(todo)
  /\ Report(ErrorIf(answer = Nothing, "undefined"))
  /\ UNCHANGED <<symbols, stack>> /\ Keep

UseMember ==
  /\ Asked("check", "member")
  /\ IF IsClass(answer)
     THEN /\ stack' = <<Walk("member", answer, Now.name)>> /\ Quiet
          /\ todo' = <<[k |-> "searched"]>> \o Tail(todo)
     ELSE todo' = Tail(todo) /\ Report({"not a class"}) /\ UNCHANGED stack
  /\ UNCHANGED symbols /\ Keep
MemberSearched ==
  /\ Asked("check", "searched") /\ todo' = Tail(todo)
  /\ Report(ErrorIf(answer = Nothing, "no member"))
  /\ UNCHANGED <<symbols, stack>> /\ Keep

\* The classes that class a is made of, as sem_types_are_compatible finds
\* them: its ancestors and the traits of each.
RECURSIVE Line(_)
Line(n) ==
  IF ~IsClass(n) THEN {}
  ELSE {n} \cup (IF symbols[n].parent = "" THEN {} ELSE Line(Direct(Global, symbols[n].parent)))
Derives(a, b) ==
  \E c \in Line(Direct(Global, a)) : b \in {symbols[c].parent} \cup Range(symbols[c].traits)

ThisUse == Now.use
ThisCall == Len(calls) + 1
Checked(f, head, takes) ==
  Append(calls, [use |-> ThisUse, name |-> Now.name, f |-> f, head |-> head, takes |-> takes])
\* sem_resolve_overload: the function found and those chained after it are
\* tried in turn; the best one takes the arguments over.
Overloaded(f) == [k |-> "overload", chain |-> <<f>> \o symbols[f].overloads, best |-> NoMatch]
TryOverload ==
  /\ Running("overload") /\ Top.chain # <<>>
  /\ LET f == Top.chain[1]
         nodes == ListFrom(heap, HeadOf(Written(ThisUse)))
         params == symbols[f].params
         types == {heap[x].type : x \in DOMAIN heap} \X {params[i].type : i \in DOMAIN params}
         m == Match(f, params, nodes, heap, {t \in types : Derives(t[1], t[2])})
     IN  Change([Top EXCEPT !.chain = Tail(@), !.best = Better(@, m)])
  /\ UNCHANGED answer /\ OnlySearch
Taking(r) ==
  /\ heap' = r.heap
  /\ calls' = Checked(Top.best.f, r.head, [i \in DOMAIN Top.best.slots |-> DefaultOf(Top.best.f, i)])
TakeOverload ==
  /\ Running("overload") /\ Top.chain = <<>>
  /\ IF Top.best.f = 0
     THEN /\ Report({"no overload"}) /\ UNCHANGED heap
          /\ calls' = Checked(0, HeadOf(Written(ThisUse)), <<>>)
     ELSE Taking(Rebuilt(heap, Top.best, symbols[Top.best.f].params, ThisCall)) /\ Quiet
  /\ stack' = Front(stack)
  /\ todo' = IF Top.best.f = 0 /\ Now.k = "making" THEN todo ELSE Tail(todo)
  /\ UNCHANGED <<program, phase, here, symbols, scopes, answer, fields>>

\* The symbols that make an object: named after the class or init.
Constructors(n) ==
  IF n = Nothing \/ symbols[n].inner = Nothing THEN <<>>
  ELSE SelectSeq(scopes[symbols[n].inner].order,
                 LAMBDA m : symbols[m].name \in {symbols[n].name, "init"})

\* A function, or a class by its newest constructor; without one the traits
\* are tried.
CheckCall ==
  /\ Asked("check", "call")
  /\ LET making == [k |-> "making", name |-> Now.name, class |-> answer, at |-> 1,
                    head |-> Nothing, use |-> ThisUse]
         function == answer # Nothing /\ symbols[answer].kind = "func"
         own == Constructors(answer)
     IN  IF IsClass(answer) /\ own = <<>>
         THEN todo' = <<making>> \o Tail(todo) /\ UNCHANGED stack /\ Quiet
         ELSE IF function \/ IsClass(answer)
         THEN /\ stack' = <<Overloaded(IF function THEN answer ELSE own[1])>>
              /\ Quiet /\ UNCHANGED todo
         ELSE /\ Report(ErrorIf(answer = Nothing, "undefined")
                          \cup ErrorIf(IsTemplate(answer), "needs types"))
              /\ todo' = Tail(todo) /\ UNCHANGED stack
  /\ UNCHANGED <<program, phase, here, symbols, scopes, fields, heap, calls>>

\* One trait after the other; the constructor of the last that had one is
\* tried again for a trait without.
TryTrait ==
  /\ Asked("check", "making")
  /\ LET own == Constructors(answer)
         head == IF own = <<>> THEN Now.head ELSE own[1]
         within == answer # Nothing /\ symbols[answer].inner # Nothing
     IN  /\ todo' = <<[Now EXCEPT !.at = @ + 1, !.head = head]>> \o Tail(todo)
         /\ stack' = IF within /\ head # Nothing THEN <<Overloaded(head)>> ELSE <<>>
  /\ UNCHANGED symbols /\ Quiet /\ Keep
\* No constructor took the arguments: they are for the fields.
MakeImplicitly ==
  /\ At("check", "making") /\ answer = Unasked /\ ~Searched(Now)
  /\ stack' = <<Walk("fields", Now.class, "")>> /\ fields' = <<>>
  /\ todo' = <<[Now EXCEPT !.k = "construct"]>> \o Tail(todo)
  /\ UNCHANGED <<program, phase, here, symbols, scopes, answer, heap, calls>> /\ Quiet

\* sem_inject_default_class_args: from the first field without an argument
\* on, a copy of every default there is, which is checked like any other
\* expression.  One object of the class itself is copied.
CloneOf(i) == <<"clone", ThisCall, i>>
Construct ==
  /\ At("check", "construct") /\ answer = Unasked
  /\ LET total == Len(fields)
         given == Written(ThisUse)
         defaulted == {i \in DOMAIN fields : symbols[fields[i]].default}
         injected == [i \in {j \in defaulted : j > Len(given)} |-> CloneOf(i)]
         clones == SetToSortSeq(DOMAIN injected, <)
         nodes == given \o [i \in DOMAIN clones |-> injected[clones[i]]]
         calling == SelectSeq(clones, LAMBDA i : symbols[fields[i]].constructed)
         allowed == Len(given) \in total - Cardinality(defaulted) .. total
         copied == Len(given) = 1 /\ heap[given[1]].type = symbols[Now.class].name
     IN  IF ~allowed
         THEN Report(ErrorIf(~copied, "arguments")) /\ todo' = Tail(todo) /\ UNCHANGED <<heap, calls>>
         ELSE /\ heap' = Chained([x \in Range(nodes) \ DOMAIN heap |-> Node("", "")] @@ heap, nodes)
              /\ calls' = Checked(-1, HeadOf(nodes), [i \in DOMAIN fields |-> CloneOf(i)])
              /\ todo' = [i \in DOMAIN calling |-> Constructed(symbols[fields[calling[i]]].type)]
                           \o Tail(todo)
              /\ Quiet
  /\ UNCHANGED <<program, phase, here, symbols, scopes, stack, answer, fields>>

StartSize ==
  /\ At("sizes", "class") /\ answer = Unasked
  /\ LET n == Now.n
     IN  IF symbols[n].must_pure
         THEN ReportNowhere({"cycle"}) /\ todo' = <<>> /\ UNCHANGED <<symbols, stack>>
         ELSE /\ todo' = Tail(todo) /\ Quiet
              /\ IF symbols[n].must_pristine THEN UNCHANGED <<symbols, stack>>
                 ELSE /\ stack' = <<Continue(Walk("size", n, ""))>>
                      /\ symbols' = [symbols EXCEPT ![n].must_pure = TRUE]
  /\ UNCHANGED answer /\ Keep

CheckUnused ==
  /\ At("final", "class") /\ todo' = Tail(todo)
  /\ ReportNowhere(
       ErrorIf(symbols[Now.n].is_a = "naked" /\ ~symbols[Now.n].used_as_parent, "naked class")
         \cup ErrorIf(symbols[Now.n].has_a = "reactive" /\ ~symbols[Now.n].used_as_composition,
                      "reactive class"))
  /\ UNCHANGED <<symbols, stack, answer>> /\ Keep

GlobalClasses ==
  LET found == SelectSeq(scopes[Global].order, IsClass)
  IN  [i \in DOMAIN found |-> [k |-> "class", n |-> found[i]]]
Turn(from, to) == phase = from /\ phase' = to /\ todo = <<>> /\ stack = <<>>
Stay == UNCHANGED <<program, here, scopes, stack, answer, fields, heap, calls>> /\ Quiet

\* Mutant of Unmarked: the marks of the declarations are not cleared.
Unmarked_Keeps == symbols
\* must_pure and must_pristine are cleared, of the global symbols.
Unmarked ==
  [n \in DOMAIN symbols |->
     IF n \in Range(scopes[Global].order)
     THEN [symbols[n] EXCEPT !.must_pure = FALSE, !.must_pristine = FALSE] ELSE symbols[n]]

Scanned ==
  Turn("scan", "relate") /\ todo' = FlattenSeq([i \in DOMAIN program.items |->
                                                  Related(program.items[i])])
  /\ Stay /\ UNCHANGED symbols
RelatedAll ==
  /\ Turn("relate", "check")
  /\ todo' = Checkable(program.items)
                \o [i \in DOMAIN program.uses |-> program.uses[i] @@ [use |-> i]]
  /\ Stay /\ UNCHANGED symbols
CheckedAll == Turn("check", "sizes") /\ todo' = GlobalClasses /\ Stay /\ symbols' = Unmarked
Sized == Turn("sizes", "final") /\ todo' = GlobalClasses /\ Stay /\ UNCHANGED symbols
Finished == Turn("final", "done") /\ UNCHANGED todo /\ Stay /\ UNCHANGED symbols

Next ==
  \/ LookScope \/ LookAncestor \/ LookSpaces \/ AskEdge \/ Overflow \/ AskDeclared \/ AskNow
  \/ ScanVar \/ ScanEnum \/ ScanTemplate \/ ScanFunc \/ ScanClass \/ ScanExtended
  \/ ScanNamespace \/ Leave
  \/ StepMember \/ StepFields \/ StepSize
  \/ Inherit \/ Compose \/ CheckScope \/ CheckKnown \/ CheckVar \/ CountedFields
  \/ UseName \/ UseMember \/ MemberSearched \/ CheckCall \/ TryTrait \/ MakeImplicitly
  \/ TryOverload \/ TakeOverload \/ Construct
  \/ StartSize \/ CheckUnused
  \/ Scanned \/ RelatedAll \/ CheckedAll \/ Sized \/ Finished

\* The analysis is one thread that does not stop by itself.
Spec == Init /\ [][Next]_vars /\ WF_vars(Next)

--------------------------------------------------------------------------------
(* Properties. *)

\* Every symbol is entered in one scope, what the tables and chains hold was
\* entered there, and errors without a place are only those of the last passes.
TypeOK ==
  /\ phase \in {"scan", "relate", "check", "sizes", "final", "done", "overflow"}
  /\ here \in DOMAIN scopes /\ answer \in -1 .. Len(symbols)
  /\ \A s \in DOMAIN scopes :
       /\ scopes[s].parent \in 0 .. s - 1
       /\ \A x \in DOMAIN scopes[s].map :
            /\ scopes[s].map[x] \in Range(scopes[s].order)
            /\ Range(symbols[scopes[s].map[x]].overloads) \subseteq Range(scopes[s].order)
  /\ \A n \in DOMAIN symbols : Cardinality({s \in DOMAIN scopes : n \in Range(scopes[s].order)}) = 1
  /\ errors \ counted \subseteq {"cycle", "naked class", "reactive class"}

\* Global classes by name, what they inherit and what they are made of.
Named == {symbols[n].name : n \in {m \in Range(scopes[Global].order) : symbols[m].kind = "class"}}
Above(a) ==
  LET n == scopes[Global].map[a] IN (Range(Parent(n)) \cup Range(symbols[n].traits)) \cap Named
Holds(a) == Above(a) \cup (Range(ByValue(scopes[Global].map[a])) \cap Named)
Closure(next) ==
  LET within[i \in 0 .. Cardinality(Named)] ==
        IF i = 0 THEN next
        ELSE [a \in Named |-> within[i - 1][a] \cup UNION {within[i - 1][b] : b \in within[i - 1][a]}]
  IN  within[Cardinality(Named)]
Cyclic == LET made == Closure([a \in Named |-> Holds(a)]) IN \E a \in Named : a \in made[a]

\* A class that contains itself is reported, and no other is: the marks that
\* the check leaves on its way stand for "declared pure" until then.
CyclesReported == phase = "done" => (("cycle" \in errors) <=> Cyclic)

\* Every accepted call passes, for every parameter or field in its order, the
\* argument written for it or the default, also after the calls checked later.
Origin(x) == IF heap[x].under = NoNode THEN x ELSE heap[x].under
ArgumentFor(c, i) ==
  LET written == Written(c.use)
      named == {j \in DOMAIN written :
                  c.f > 0 /\ heap[written[j]].name = symbols[c.f].params[i].name}
      plain == SelectSeq(written, LAMBDA x : heap[x].name = "")
  IN  IF named # {} THEN written[Min(named)]
      ELSE IF i <= Len(plain) THEN plain[i] ELSE c.takes[i]
ArgumentsKept ==
  \A j \in DOMAIN calls :
    LET c == calls[j]
        nodes == ListFrom(heap, c.head)
    IN  c.f # 0 => [i \in DOMAIN nodes |-> Origin(nodes[i])]
                     = [i \in DOMAIN c.takes |-> ArgumentFor(c, i)]

\* A call whose argument types are those of a function declared under the
\* name goes to such a function, also when it is a constructor.
Fitting(c) ==
  LET written == Written(c.use)
      types == [i \in DOMAIN written |-> heap[written[i]].type]
      n == InMap(Tables, Global, c.name)
      home == IF IsClass(n) THEN symbols[n].inner ELSE Global
  IN  {m \in Range(scopes[home].order) :
         /\ symbols[m].kind = "func" /\ symbols[m].name \in {c.name, "init"}
         /\ [i \in DOMAIN symbols[m].params |-> symbols[m].params[i].type] = types}
ExactChosen ==
  \A j \in DOMAIN calls :
    LET fitting == Fitting(calls[j]) IN fitting = {} \/ calls[j].f \in fitting \cup {-1}

\* The fields of these are counted: a variable that holds an object without
\* being given one, and the classes that are called.  Counting does not end
\* where parents and traits go in a circle.
CountedClasses ==
  {symbols[n].type : n \in {m \in DOMAIN symbols : symbols[m].by_value /\ ~symbols[m].default}}
    \cup {program.uses[u].name : u \in {v \in DOMAIN program.uses : program.uses[v].k = "call"}}
Circling ==
  LET above == Closure([a \in Named |-> Above(a)])
  IN  \E a \in CountedClasses \cap Named : \E b \in {a} \cup above[a] : b \in above[b]

\* The analysis comes to an end of its own, or at the end of its stack, which
\* only a circle of parents and traits under a class that is counted leads to.
Ends == <>(phase = "done" \/ (phase = "overflow" /\ Circling))
================================================================================
