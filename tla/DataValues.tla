----------------------------- MODULE DataValues -----------------------------
(***************************************************************************)
(* The values statements compute with, and the functions they call.  Both  *)
(* what statements mean (DataCode) and what executes them is written in    *)
(* these terms.                                                            *)
(***************************************************************************)
EXTENDS Integers, Sequences

-----------------------------------------------------------------------------
(***************************************************************************)
(* Values are integers and pointers, a pointer names an object and an      *)
(* offset in it.  C divides towards zero.                                  *)
(***************************************************************************)
IntOf(n)    == <<"int", n>>
PtrTo(o, i) == <<"ptr", o, i>>
IsZero(v)   == v[1] = "int" /\ v[2] = 0
Truth(b)    == IntOf(IF b THEN 1 ELSE 0)
Abs(n)      == IF n < 0 THEN -n ELSE n
Sign(n)     == IF n < 0 THEN -1 ELSE 1
Quotient(a, b) == Sign(a) * Sign(b) * (Abs(a) \div Abs(b))

\* f with x bound to v.
Bound(f, x, v) == [y \in DOMAIN f \cup {x} |-> IF y = x THEN v ELSE f[y]]

\* What an operation gives for two integers.
Apply(op, a, b) ==
  CASE op = "add" -> a + b
    [] op = "sub" -> a - b
    [] op = "mul" -> a * b
    [] op = "div" -> IF b = 0 THEN 0 ELSE Quotient(a, b)
    [] op = "mod" -> IF b = 0 THEN 0 ELSE a - b * Quotient(a, b)
    [] op = "or"  -> IF a = 0 /\ b = 0 THEN 0 ELSE 1
    [] op = "and" -> IF a = 0 \/ b = 0 THEN 0 ELSE 1
    [] op = "flip" -> -a - 1
    [] op = "eq"  -> IF a = b THEN 1 ELSE 0
    [] op = "neq" -> IF a # b THEN 1 ELSE 0
    [] op = "lt"  -> IF a < b THEN 1 ELSE 0
    [] op = "gt"  -> IF a > b THEN 1 ELSE 0
    [] op = "lte" -> IF a <= b THEN 1 ELSE 0
    [] op = "gte" -> IF a >= b THEN 1 ELSE 0

\* An offset added to a pointer moves within the object.
Compute(op, a, b) ==
  CASE a[1] = "int" /\ b[1] = "int" -> IntOf(Apply(op, a[2], b[2]))
    [] a[1] = "ptr" /\ b[1] = "int" -> PtrTo(a[2], a[3] + b[2])
    [] OTHER -> Truth((a = b) = (op = "eq"))

FieldAt == [first |-> 0, second |-> 1]

\* What the functions called do to the memory and the output, and return.
\* Only "two", "same" and "abs" are pure; "sum" calls itself; "apply" calls the
\* function it is given.
Invoke(f, args, s) ==
  CASE f = "out"  -> [s |-> [s EXCEPT !.out = Append(@, args[1])], v |-> IntOf(0)]
    [] f = "poke" -> [s |-> [s EXCEPT !.mem = Bound(@, args[1], IntOf(7))], v |-> IntOf(0)]
    [] f = "two"  -> [s |-> s, v |-> IntOf(2)]
    [] f = "loud" -> [s |-> [s EXCEPT !.out = Append(@, IntOf(9))], v |-> IntOf(2)]
    [] f = "same" -> [s |-> s, v |-> args[1]]
    [] f = "abs"  -> [s |-> s, v |-> IntOf(Abs(args[1][2]))]
    [] f = "sum"  -> [s |-> s, v |-> IntOf((args[1][2] * (args[1][2] + 1)) \div 2)]
    [] f = "apply" -> [s |-> s, v |-> IntOf(IF args[1] = <<"name", "two">> THEN 2 ELSE 0)]
    [] f = "part" -> [s |-> s, v |-> IntOf(Apply("div", 6, args[1][2]))]
    [] f = "tick" -> LET g == PtrTo(s.env["g"], 0)
                     IN  [s |-> [s EXCEPT !.mem = Bound(@, g, Compute("add", @[g], IntOf(1)))],
                          v |-> Compute("add", s.mem[g], IntOf(1))]
    [] OTHER      -> [s |-> s, v |-> IntOf(0)]
=============================================================================
