---------------------------- MODULE CompileProofs ----------------------------
(***************************************************************************)
(* What the lowering makes of a body, for every body of statements it      *)
(* handles: alick accepts the function, and so the passes start from one   *)
(* of the functions OptlirProofs is about.                                 *)
(***************************************************************************)
EXTENDS Compile, OptlirMeaning

(***************************************************************************)
(* A list of tasks is read from its first task to its last.  A point of    *)
(* the reading says what is known there of the current block (it is open,  *)
(* or has ended, or nothing), how many loops are around it, and which      *)
(* blocks are still to be entered.                                         *)
(***************************************************************************)
Flags  == {"open", "ended", "any"}
Points == [at : Flags, depth : Nat, left : SUBSET Nat]
Point(f, n, P) == [at |-> f, depth |-> n, left |-> P]

Places(T) == [cont : T \cup {NoLabel}, brk : T \cup {NoLabel}]

Tasks(F) ==
  [do : {"stmt", "emit", "seal", "enter", "push", "pop"}, stmt : F \cup {L!None},
   code : Seq(Instruction), block : Nat, loop : Places(Label)]

(* What may happen to the block at hand: a statement leaves it open only if it is
   one of W; a jump is put behind open code only, or after a look at it; a
   block is entered when the one before has ended, and only once. *)
Leads(F, W, T, p, t, q) ==
  \/ /\ t.do = "stmt" /\ t.stmt \in F
     /\ q.at = "any" \/ (q.at = "open" /\ p.at = "open" /\ t.stmt \in W)
     /\ q.depth = p.depth /\ q.left = p.left
  \/ /\ t.do = "emit" /\ p.at = "open" /\ GoodCode(t.code, T)
     /\ q.at \in {"ended", "any"} /\ q.depth = p.depth /\ q.left = p.left
  \/ /\ t.do = "seal" /\ GoodCode(t.code, T)
     /\ q.at \in {"ended", "any"} /\ q.depth = p.depth /\ q.left = p.left
  \/ /\ t.do = "enter" /\ p.at = "ended" /\ t.block \in p.left
     /\ q.at \in {"open", "any"} /\ q.depth = p.depth /\ q.left = p.left \ {t.block}
  \/ /\ t.do = "push" /\ t.loop \in Places(T)
     /\ q.at = "any" /\ q.depth = p.depth + 1 /\ q.left = p.left
  \/ /\ t.do = "pop" /\ q.at \in {p.at, "any"} /\ p.depth = q.depth + 1 /\ q.left = p.left

Reading(F, W, T, ts, p, q, r) ==
  /\ r \in [0 .. Len(ts) -> Points] /\ r[0] = p /\ r[Len(ts)] = q
  /\ \A i \in 1 .. Len(ts) : Leads(F, W, T, r[i - 1], ts[i], r[i])

Reads(F, W, T, ts, p, q) ==
  ts \in Seq(Tasks(F)) /\ \E r : Reading(F, W, T, ts, p, q, r)

LEMMA ReadsNone ==
  ASSUME NEW F, NEW W, NEW T, NEW p \in Points
  PROVE  Reads(F, W, T, <<>>, p, p)
<1> DEFINE e == <<>>
           r == [i \in 0 .. 0 |-> p]
<1>1. e \in Seq(Tasks(F)) /\ Len(e) = 0
  OBVIOUS
<1> HIDE DEF e
<1>2. Reading(F, W, T, e, p, p, r)
  BY <1>1 DEF Reading
<1>3. \E s : Reading(F, W, T, e, p, p, s)
  BY <1>2
<1>4. Reads(F, W, T, e, p, p)
  BY <1>1, <1>3 DEF Reads
<1> QED BY <1>4 DEF e

LEMMA ReadsOne ==
  ASSUME NEW F, NEW W, NEW T, NEW p \in Points, NEW q \in Points,
         NEW t \in Tasks(F), Leads(F, W, T, p, t, q)
  PROVE  Reads(F, W, T, <<t>>, p, q)
<1> DEFINE e == <<t>>
           r == [i \in 0 .. 1 |-> IF i = 0 THEN p ELSE q]
<1>1. e \in Seq(Tasks(F)) /\ Len(e) = 1 /\ e[1] = t
  OBVIOUS
<1> HIDE DEF e
<1>2. r \in [0 .. 1 -> Points] /\ r[0] = p /\ r[1] = q
  OBVIOUS
<1> HIDE DEF r
<1>3. Reading(F, W, T, e, p, q, r)
  BY <1>1, <1>2 DEF Reading
<1>4. \E s : Reading(F, W, T, e, p, q, s)
  BY <1>3
<1>5. Reads(F, W, T, e, p, q)
  BY <1>1, <1>4 DEF Reads
<1> QED BY <1>5 DEF e

(* One list is read after another. *)
LEMMA ReadsJoin ==
  ASSUME NEW F, NEW W, NEW T, NEW p, NEW m, NEW q, NEW x, NEW y,
         Reads(F, W, T, x, p, m), Reads(F, W, T, y, m, q)
  PROVE  Reads(F, W, T, x \o y, p, q)
<1> DEFINE z == x \o y
           a == Len(x)
           b == Len(y)
<1>1. /\ x \in Seq(Tasks(F)) /\ y \in Seq(Tasks(F)) /\ z \in Seq(Tasks(F))
      /\ a \in Nat /\ b \in Nat /\ Len(z) = a + b
      /\ \A i \in 1 .. a : z[i] = x[i]
      /\ \A i \in a + 1 .. a + b : z[i] = y[i - a]
  BY Joined DEF Reads
<1>2. PICK r : Reading(F, W, T, x, p, m, r)
  BY DEF Reads
<1>3. PICK s : Reading(F, W, T, y, m, q, s)
  BY DEF Reads
<1> HIDE DEF z, a, b
<1>4. /\ r \in [0 .. a -> Points] /\ r[0] = p /\ r[a] = m
      /\ \A i \in 1 .. a : Leads(F, W, T, r[i - 1], x[i], r[i])
      /\ s \in [0 .. b -> Points] /\ s[0] = m /\ s[b] = q
      /\ \A i \in 1 .. b : Leads(F, W, T, s[i - 1], y[i], s[i])
  BY <1>2, <1>3 DEF Reading, a, b
<1> DEFINE u == [i \in 0 .. (a + b) |-> IF i =< a THEN r[i] ELSE s[i - a]]
<1>5. u \in [0 .. Len(z) -> Points] /\ u[0] = p /\ u[Len(z)] = q
  <2>1. \A i \in 0 .. (a + b) : i > a => i - a \in 0 .. b
    BY <1>1
  <2>2. \A i \in 0 .. (a + b) : (IF i =< a THEN r[i] ELSE s[i - a]) \in Points
    <3> TAKE i \in 0 .. (a + b)
    <3>1. CASE i =< a
      BY <3>1, <1>4, <1>1
    <3>2. CASE i > a
      BY <3>2, <1>4, <1>1, <2>1
    <3> QED BY <3>1, <3>2, <1>1
  <2>3. CASE b = 0
    BY <2>2, <2>3, <1>1, <1>4
  <2>4. CASE b # 0
    BY <2>2, <2>4, <1>1, <1>4
  <2> QED BY <2>3, <2>4
<1>6. ASSUME NEW i \in 1 .. Len(z) PROVE Leads(F, W, T, u[i - 1], z[i], u[i])
  <2>1. CASE i =< a
    <3>1. i \in 1 .. a /\ u[i] = r[i] /\ u[i - 1] = r[i - 1]
      BY <2>1, <1>1
    <3> HIDE DEF u
    <3> QED BY <3>1, <1>4, <1>1
  <2>2. CASE i = a + 1
    <3>1. /\ i - a = 1 /\ 1 \in 1 .. b /\ u[i] = s[1] /\ u[i - 1] = s[0]
          /\ i \in a + 1 .. a + b
      BY <2>2, <1>1, <1>4
    <3> HIDE DEF u
    <3>2. z[i] = y[1] /\ Leads(F, W, T, s[1 - 1], y[1], s[1])
      BY <3>1, <1>1, <1>4
    <3>3. 1 - 1 = 0
      OBVIOUS
    <3> QED BY <3>1, <3>2, <3>3
  <2>3. CASE i > a + 1
    <3>1. /\ i - a \in 1 .. b /\ u[i] = s[i - a] /\ u[i - 1] = s[(i - a) - 1]
          /\ i \in a + 1 .. a + b
      BY <2>3, <1>1
    <3> HIDE DEF u
    <3> QED BY <3>1, <1>1, <1>4
  <2> QED BY <2>1, <2>2, <2>3, <1>1
<1> HIDE DEF u
<1>7. Reading(F, W, T, z, p, q, u)
  BY <1>5, <1>6 DEF Reading
<1>8. \E v : Reading(F, W, T, z, p, q, v)
  BY <1>7
<1>9. Reads(F, W, T, z, p, q)
  BY <1>1, <1>8 DEF Reads
<1> QED BY <1>9 DEF z

(* The first task is done, and the others are read from there. *)
LEMMA ReadsHead ==
  ASSUME NEW F, NEW W, NEW T, NEW p, NEW q, NEW ts,
         Reads(F, W, T, ts, p, q), ts # <<>>
  PROVE  /\ Head(ts) \in Tasks(F)
         /\ \E m \in Points : Leads(F, W, T, p, Head(ts), m) /\ Reads(F, W, T, Tail(ts), m, q)
<1> DEFINE z == Tail(ts)
           n == Len(ts)
<1>1. /\ ts \in Seq(Tasks(F)) /\ n \in Nat \ {0} /\ Head(ts) = ts[1] /\ Head(ts) \in Tasks(F)
      /\ z \in Seq(Tasks(F)) /\ Len(z) = n - 1 /\ \A i \in 1 .. n - 1 : z[i] = ts[i + 1]
  <2>1. ts \in Seq(Tasks(F))
    BY DEF Reads
  <2> QED BY <2>1, HeadTailProperties, EmptySeq, LenProperties
<1>2. PICK r : Reading(F, W, T, ts, p, q, r)
  BY DEF Reads
<1> HIDE DEF z, n
<1>3. /\ r \in [0 .. n -> Points] /\ r[0] = p /\ r[n] = q
      /\ \A i \in 1 .. n : Leads(F, W, T, r[i - 1], ts[i], r[i])
  BY <1>2 DEF Reading, n
<1>4. r[1] \in Points /\ Leads(F, W, T, p, Head(ts), r[1])
  <2>1. 1 \in 1 .. n /\ 1 - 1 = 0
    BY <1>1
  <2> QED BY <2>1, <1>1, <1>3
<1> DEFINE s == [i \in 0 .. n - 1 |-> r[i + 1]]
<1>5. s \in [0 .. Len(z) -> Points] /\ s[0] = r[1] /\ s[Len(z)] = q
  BY <1>1, <1>3
<1>6. ASSUME NEW i \in 1 .. Len(z) PROVE Leads(F, W, T, s[i - 1], z[i], s[i])
  <2>1. /\ i + 1 \in 1 .. n /\ s[i] = r[i + 1] /\ s[i - 1] = r[(i + 1) - 1]
        /\ z[i] = ts[i + 1]
    BY <1>1
  <2> HIDE DEF s
  <2> QED BY <2>1, <1>3
<1> HIDE DEF s
<1>7. Reading(F, W, T, z, r[1], q, s)
  BY <1>5, <1>6 DEF Reading
<1>8. \E v : Reading(F, W, T, z, r[1], q, v)
  BY <1>7
<1>9. Reads(F, W, T, z, r[1], q)
  BY <1>1, <1>8 DEF Reads
<1> QED BY <1>1, <1>4, <1>9 DEF z

(* More labels may be named. *)
LEMMA ReadsMore ==
  ASSUME NEW F, NEW W, NEW T, NEW U, T \subseteq U, NEW p, NEW q, NEW ts,
         Reads(F, W, T, ts, p, q)
  PROVE  Reads(F, W, U, ts, p, q)
<1>1. PICK r : Reading(F, W, T, ts, p, q, r)
  BY DEF Reads
<1>2. ASSUME NEW a, NEW t, NEW b, Leads(F, W, T, a, t, b) PROVE Leads(F, W, U, a, t, b)
  <2>1. GoodCode(t.code, T) => GoodCode(t.code, U)
    BY DEF GoodCode
  <2>2. t.loop \in Places(T) => t.loop \in Places(U)
    BY DEF Places
  <2> QED BY <1>2, <2>1, <2>2, Zenon DEF Leads
<1>3. Reading(F, W, U, ts, p, q, r)
  BY <1>1, <1>2, Zenon DEF Reading
<1> QED BY <1>3, Zenon DEF Reads

-----------------------------------------------------------------------------
(* The lists the generators are made of. *)
LEMMA PointType ==
  ASSUME NEW f \in Flags, NEW n \in Nat, NEW P \in SUBSET Nat
  PROVE  /\ Point(f, n, P) \in Points
         /\ Point(f, n, P).at = f /\ Point(f, n, P).depth = n /\ Point(f, n, P).left = P
BY DEF Point, Points

LEMMA TaskType ==
  ASSUME NEW F
  PROVE  /\ \A s \in F : L!Task("stmt", s, <<>>, 0, L!Outer) \in Tasks(F)
         /\ \A c \in Seq(Instruction) : /\ L!Task("emit", L!None, c, 0, L!Outer) \in Tasks(F)
                                        /\ L!Task("seal", L!None, c, 0, L!Outer) \in Tasks(F)
         /\ \A b \in Nat : L!Task("enter", L!None, <<>>, b, L!Outer) \in Tasks(F)
         /\ \A l \in Places(Label) : L!Task("push", L!None, <<>>, 0, l) \in Tasks(F)
         /\ L!Task("pop", L!None, <<>>, 0, L!Outer) \in Tasks(F)
<1> DEFINE e == <<>>
<1>1. e \in Seq(Instruction)
  OBVIOUS
<1>2. L!Outer \in Places(Label)
  BY DEF L!Outer, Places, L!NoLabel, NoLabel
<1> HIDE DEF e
<1>3. /\ \A s \in F : L!Task("stmt", s, e, 0, L!Outer) \in Tasks(F)
      /\ \A c \in Seq(Instruction) : /\ L!Task("emit", L!None, c, 0, L!Outer) \in Tasks(F)
                                     /\ L!Task("seal", L!None, c, 0, L!Outer) \in Tasks(F)
      /\ \A b \in Nat : L!Task("enter", L!None, e, b, L!Outer) \in Tasks(F)
      /\ \A l \in Places(Label) : L!Task("push", L!None, e, 0, l) \in Tasks(F)
      /\ L!Task("pop", L!None, e, 0, L!Outer) \in Tasks(F)
  BY <1>1, <1>2 DEF L!Task, Tasks
<1> QED BY <1>3 DEF e

LEMMA ReadsEmit ==
  ASSUME NEW F, NEW W, NEW T, NEW n \in Nat, NEW P \in SUBSET Nat, NEW g \in {"ended", "any"},
         NEW c \in Seq(Instruction), GoodCode(c, T)
  PROVE  Reads(F, W, T, L!Emit(c), Point("open", n, P), Point(g, n, P))
<1> DEFINE t == L!Task("emit", L!None, c, 0, L!Outer)
           p == Point("open", n, P)
           q == Point(g, n, P)
<1>1. t \in Tasks(F) /\ t.do = "emit" /\ t.code = c
  BY TaskType DEF L!Task
<1>2. /\ p \in Points /\ p.at = "open" /\ p.depth = n /\ p.left = P
      /\ q \in Points /\ q.at = g /\ q.depth = n /\ q.left = P
  BY PointType DEF Flags
<1>3. L!Emit(c) = <<t>>
  BY DEF L!Emit
<1> HIDE DEF t, p, q
<1>4. Leads(F, W, T, p, t, q)
  BY <1>1, <1>2 DEF Leads
<1>5. Reads(F, W, T, <<t>>, p, q)
  BY <1>1, <1>2, <1>4, ReadsOne
<1> QED BY <1>3, <1>5 DEF p, q

LEMMA ReadsSeal ==
  ASSUME NEW F, NEW W, NEW T, NEW n \in Nat, NEW P \in SUBSET Nat, NEW f \in Flags,
         NEW g \in {"ended", "any"}, NEW c \in Seq(Instruction), GoodCode(c, T)
  PROVE  Reads(F, W, T, L!Seal(c), Point(f, n, P), Point(g, n, P))
<1> DEFINE t == L!Task("seal", L!None, c, 0, L!Outer)
           p == Point(f, n, P)
           q == Point(g, n, P)
<1>1. t \in Tasks(F) /\ t.do = "seal" /\ t.code = c
  BY TaskType DEF L!Task
<1>2. /\ p \in Points /\ p.depth = n /\ p.left = P
      /\ q \in Points /\ q.at = g /\ q.depth = n /\ q.left = P
  BY PointType DEF Flags
<1>3. L!Seal(c) = <<t>>
  BY DEF L!Seal
<1> HIDE DEF t, p, q
<1>4. Leads(F, W, T, p, t, q)
  BY <1>1, <1>2 DEF Leads
<1>5. Reads(F, W, T, <<t>>, p, q)
  BY <1>1, <1>2, <1>4, ReadsOne
<1> QED BY <1>3, <1>5 DEF p, q

LEMMA ReadsEnter ==
  ASSUME NEW F, NEW W, NEW T, NEW n \in Nat, NEW P \in SUBSET Nat, NEW b \in P,
         NEW g \in {"open", "any"}
  PROVE  Reads(F, W, T, L!Enter(b), Point("ended", n, P), Point(g, n, P \ {b}))
<1> DEFINE t == L!Task("enter", L!None, <<>>, b, L!Outer)
           p == Point("ended", n, P)
           q == Point(g, n, P \ {b})
<1>1. t \in Tasks(F) /\ t.do = "enter" /\ t.block = b
  <2>1. b \in Nat
    OBVIOUS
  <2> QED BY <2>1, TaskType DEF L!Task
<1>2. /\ p \in Points /\ p.at = "ended" /\ p.depth = n /\ p.left = P
      /\ q \in Points /\ q.at = g /\ q.depth = n /\ q.left = P \ {b}
  <2>1. P \ {b} \in SUBSET Nat
    OBVIOUS
  <2> QED BY <2>1, PointType DEF Flags
<1>3. L!Enter(b) = <<t>>
  BY DEF L!Enter
<1> HIDE DEF t, p, q
<1>4. Leads(F, W, T, p, t, q)
  BY <1>1, <1>2 DEF Leads
<1>5. Reads(F, W, T, <<t>>, p, q)
  BY <1>1, <1>2, <1>4, ReadsOne
<1> QED BY <1>3, <1>5 DEF p, q

LEMMA ReadsPush ==
  ASSUME NEW F, NEW W, NEW T, T \subseteq Label, NEW n \in Nat, NEW P \in SUBSET Nat,
         NEW f \in Flags, NEW c \in T \cup {NoLabel}, NEW b \in T \cup {NoLabel}
  PROVE  Reads(F, W, T, L!PushLoop(c, b), Point(f, n, P), Point("any", n + 1, P))
<1> DEFINE l == [cont |-> c, brk |-> b]
           t == L!Task("push", L!None, <<>>, 0, l)
           p == Point(f, n, P)
           q == Point("any", n + 1, P)
<1>1. t \in Tasks(F) /\ t.do = "push" /\ t.loop = l /\ l \in Places(T)
  <2>1. l \in Places(Label) /\ l \in Places(T)
    BY DEF Places
  <2> QED BY <2>1, TaskType DEF L!Task
<1>2. /\ p \in Points /\ p.depth = n /\ p.left = P
      /\ q \in Points /\ q.at = "any" /\ q.depth = n + 1 /\ q.left = P
  BY PointType DEF Flags
<1>3. L!PushLoop(c, b) = <<t>>
  BY DEF L!PushLoop
<1> HIDE DEF t, p, q
<1>4. Leads(F, W, T, p, t, q)
  BY <1>1, <1>2 DEF Leads
<1>5. Reads(F, W, T, <<t>>, p, q)
  BY <1>1, <1>2, <1>4, ReadsOne
<1> QED BY <1>3, <1>5 DEF p, q

LEMMA ReadsPop ==
  ASSUME NEW F, NEW W, NEW T, NEW n \in Nat, NEW P \in SUBSET Nat, NEW f \in Flags
  PROVE  Reads(F, W, T, L!PopLoop, Point(f, n + 1, P), Point(f, n, P))
<1> DEFINE t == L!Task("pop", L!None, <<>>, 0, L!Outer)
           p == Point(f, n + 1, P)
           q == Point(f, n, P)
<1>1. t \in Tasks(F) /\ t.do = "pop"
  BY TaskType DEF L!Task
<1>2. /\ p \in Points /\ p.at = f /\ p.depth = n + 1 /\ p.left = P
      /\ q \in Points /\ q.at = f /\ q.depth = n /\ q.left = P
  BY PointType
<1>3. L!PopLoop = <<t>>
  BY DEF L!PopLoop
<1> HIDE DEF t, p, q
<1>4. Leads(F, W, T, p, t, q)
  BY <1>1, <1>2 DEF Leads
<1>5. Reads(F, W, T, <<t>>, p, q)
  BY <1>1, <1>2, <1>4, ReadsOne
<1> QED BY <1>3, <1>5 DEF p, q

(* The statements of a body: nothing is known behind them, unless all of
   them are of W. *)
LEMMA ReadsStmts ==
  ASSUME NEW F, NEW W, W \subseteq F, NEW T, NEW n \in Nat, NEW P \in SUBSET Nat, NEW body
  PROVE  /\ body \in Seq(F) => Reads(F, W, T, L!Stmts(body), Point("any", n, P), Point("any", n, P))
         /\ body \in Seq(W) => Reads(F, W, T, L!Stmts(body), Point("open", n, P), Point("open", n, P))
<1> DEFINE task(i) == L!Task("stmt", body[i], <<>>, 0, L!Outer)
           ts == L!Stmts(body)
<1>1. ASSUME NEW f \in {"any", "open"}, body \in Seq(F), f = "open" => body \in Seq(W)
      PROVE  Reads(F, W, T, ts, Point(f, n, P), Point(f, n, P))
  <2>1. Len(body) \in Nat /\ DOMAIN body = 1 .. Len(body)
    BY <1>1, LenProperties
  <2>2. \A i \in 1 .. Len(body) : body[i] \in F /\ (f = "open" => body[i] \in W)
    BY <1>1, <2>1, ElementOfSeq
  <2>3. \A i \in 1 .. Len(body) : task(i) \in Tasks(F)
    BY <2>2, TaskType
  <2>4. \A i \in 1 .. Len(body) : task(i).do = "stmt" /\ task(i).stmt = body[i]
    BY DEF L!Task
  <2>5. ts = [i \in 1 .. Len(body) |-> task(i)]
    BY <2>1 DEF L!Stmts
  <2> HIDE DEF task
  <2>6. ts \in Seq(Tasks(F)) /\ Len(ts) = Len(body) /\ \A i \in 1 .. Len(body) : ts[i] = task(i)
    BY <2>1, <2>3, <2>5
  <2> HIDE DEF ts
  <2> DEFINE p == Point(f, n, P)
  <2>7. p \in Points /\ p.at = f
    BY PointType DEF Flags
  <2> HIDE DEF p
  <2> DEFINE r == [i \in 0 .. Len(ts) |-> p]
  <2>8. r \in [0 .. Len(ts) -> Points] /\ r[0] = p /\ r[Len(ts)] = p
    BY <2>1, <2>6, <2>7
  <2>9. ASSUME NEW i \in 1 .. Len(ts) PROVE Leads(F, W, T, r[i - 1], ts[i], r[i])
    <3>1. i \in 1 .. Len(body) /\ r[i - 1] = p /\ r[i] = p
      BY <2>1, <2>6
    <3> HIDE DEF r
    <3>2. /\ ts[i].do = "stmt" /\ ts[i].stmt \in F /\ (f = "open" => ts[i].stmt \in W)
      BY <3>1, <2>2, <2>4, <2>6
    <3>3. Leads(F, W, T, p, ts[i], p)
      BY <3>2, <2>7 DEF Leads
    <3> QED BY <3>1, <3>3
  <2> HIDE DEF r
  <2>10. Reading(F, W, T, ts, p, p, r)
    BY <2>8, <2>9 DEF Reading
  <2>11. \E s : Reading(F, W, T, ts, p, p, s)
    BY <2>10
  <2> QED BY <2>6, <2>11 DEF Reads, p
<1> HIDE DEF ts
<1>2. body \in Seq(W) => body \in Seq(F)
  OBVIOUS
<1>3. body \in Seq(F) => Reads(F, W, T, ts, Point("any", n, P), Point("any", n, P))
  <2>1. "any" \in {"any", "open"} /\ "any" # "open"
    OBVIOUS
  <2> QED BY <2>1, <1>1
<1>4. body \in Seq(W) => Reads(F, W, T, ts, Point("open", n, P), Point("open", n, P))
  <2>1. "open" \in {"any", "open"}
    OBVIOUS
  <2> QED BY <2>1, <1>1, <1>2
<1> QED BY <1>3, <1>4 DEF ts

(* Lowering is an instance; its words for instructions are those of Alir. *)
LEMMA SameWords ==
  /\ L!NoLabel = NoLabel
  /\ \A a, b, c, d : L!Inst(a, b, c, d) = Inst(a, b, c, d)
  /\ \A a : L!Call(a) = Call(a) /\ L!Jump(a) = Jump(a)
  /\ \A a, b, c : L!Condi(a, b, c) = Condi(a, b, c)
  /\ L!Ret = Ret /\ L!Panic = Panic
  /\ \A i : L!IsTerminator(i) <=> IsTerminator(i)
  /\ \A b : L!Terminated(b) <=> Terminated(b)
  /\ L!Literal = Literal
  /\ \A s, v : L!Test(s, v) = Test(s, v)
<1>1. /\ L!NoLabel = NoLabel
      /\ \A a, b, c, d : L!Inst(a, b, c, d) = Inst(a, b, c, d)
      /\ \A a : L!Call(a) = Call(a) /\ L!Jump(a) = Jump(a)
      /\ \A a, b, c : L!Condi(a, b, c) = Condi(a, b, c)
      /\ L!Ret = Ret /\ L!Panic = Panic
  BY DEF L!NoLabel, NoLabel, L!Inst, Inst, L!Call, Call, L!Jump, Jump, L!Condi, Condi, L!Ret, Ret,
       L!Panic, Panic
<1>2. \A i : L!IsTerminator(i) <=> IsTerminator(i)
  BY DEF L!IsTerminator, IsTerminator
<1>3. \A b : L!Terminated(b) <=> Terminated(b)
  BY <1>2 DEF L!Terminated, Terminated, L!Last, Last
<1>4. L!Literal = Literal
  BY DEF L!Literal, Literal
<1>5. \A s, v : L!Test(s, v) = Test(s, v)
  BY DEF L!Test, Test
<1> QED BY <1>1, <1>2, <1>3, <1>4, <1>5

-----------------------------------------------------------------------------
(* Code, open or with an end. *)
OpenCode(code) == \A i \in 1 .. Len(code) : ~IsTerminator(code[i])

LEMMA InstructionTypes ==
  /\ \A l \in Label : Jump(l) \in Instruction
  /\ \A c \in Operand, y \in Label, n \in Label : Condi(c, y, n) \in Instruction
  /\ \A x \in Seq(STRING) : Call(x) \in Instruction
  /\ Ret \in Instruction /\ Panic \in Instruction
<1> DEFINE e == <<>>
<1>1. e \in Operand
  BY DEF Operand
<1>2. \A x \in Seq(STRING) : x \in Operand
  BY DEF Operand
<1> HIDE DEF e
<1>3. \A l \in Label : Inst("jump", e, l, NoLabel) \in Instruction
  BY <1>1 DEF Inst, Instruction
<1>4. \A c \in Operand, y \in Label, n \in Label : Inst("condi", c, y, n) \in Instruction
  BY DEF Inst, Instruction
<1>5. \A x \in Seq(STRING) : Inst("call", x, NoLabel, NoLabel) \in Instruction
  BY <1>2 DEF Inst, Instruction
<1>6. Inst("ret", e, NoLabel, NoLabel) \in Instruction /\ Inst("panic", e, NoLabel, NoLabel) \in Instruction
  BY <1>1 DEF Inst, Instruction
<1> QED BY <1>3, <1>4, <1>5, <1>6 DEF Jump, Condi, Call, Ret, Panic, e

LEMMA GoodEndings ==
  ASSUME NEW T, T \subseteq Label
  PROVE  /\ \A l \in T : <<Jump(l)>> \in Seq(Instruction) /\ GoodCode(<<Jump(l)>>, T)
         /\ \A x \in Seq(STRING), l \in T :
              <<Call(x), Jump(l)>> \in Seq(Instruction) /\ GoodCode(<<Call(x), Jump(l)>>, T)
         /\ \A c \in Operand, y \in T, n \in T :
              <<Condi(c, y, n)>> \in Seq(Instruction) /\ GoodCode(<<Condi(c, y, n)>>, T)
         /\ <<Ret>> \in Seq(Instruction) /\ GoodCode(<<Ret>>, T)
         /\ <<Panic>> \in Seq(Instruction) /\ GoodCode(<<Panic>>, T)
         /\ \A x \in Seq(STRING) : <<Call(x)>> \in Seq(Instruction) /\ OpenCode(<<Call(x)>>)
<1>1. ASSUME NEW i \in Instruction, IsTerminator(i), Targets(i) \subseteq T
      PROVE  <<i>> \in Seq(Instruction) /\ GoodCode(<<i>>, T)
  <2> DEFINE s == <<i>>
  <2>1. s \in Seq(Instruction) /\ Len(s) = 1 /\ s[1] = i /\ s # <<>>
    OBVIOUS
  <2> HIDE DEF s
  <2>2. GoodCode(s, T)
    BY <2>1, <1>1 DEF GoodCode
  <2> QED BY <2>1, <2>2 DEF s
<1>2. ASSUME NEW l \in T
      PROVE  <<Jump(l)>> \in Seq(Instruction) /\ GoodCode(<<Jump(l)>>, T)
  <2>1. Jump(l) \in Instruction
    BY InstructionTypes
  <2>2. IsTerminator(Jump(l)) /\ Targets(Jump(l)) \subseteq T
    BY DEF Jump, Inst, IsTerminator, Targets
  <2> HIDE DEF Jump
  <2> QED BY <2>1, <2>2, <1>1
<1>3. ASSUME NEW c \in Operand, NEW y \in T, NEW n \in T
      PROVE  <<Condi(c, y, n)>> \in Seq(Instruction) /\ GoodCode(<<Condi(c, y, n)>>, T)
  <2>1. Condi(c, y, n) \in Instruction
    BY InstructionTypes
  <2>2. IsTerminator(Condi(c, y, n)) /\ Targets(Condi(c, y, n)) \subseteq T
    BY DEF Condi, Inst, IsTerminator, Targets
  <2> QED BY <2>1, <2>2, <1>1
<1>4. <<Ret>> \in Seq(Instruction) /\ GoodCode(<<Ret>>, T)
  <2>1. Ret \in Instruction
    BY InstructionTypes
  <2>2. IsTerminator(Ret) /\ Targets(Ret) \subseteq T
    BY DEF Ret, Inst, IsTerminator, Targets
  <2> QED BY <2>1, <2>2, <1>1
<1>5. <<Panic>> \in Seq(Instruction) /\ GoodCode(<<Panic>>, T)
  <2>1. Panic \in Instruction
    BY InstructionTypes
  <2>2. IsTerminator(Panic) /\ Targets(Panic) \subseteq T
    BY DEF Panic, Inst, IsTerminator, Targets
  <2> QED BY <2>1, <2>2, <1>1
<1>6. ASSUME NEW x \in Seq(STRING)
      PROVE  /\ Call(x) \in Instruction /\ ~IsTerminator(Call(x))
             /\ <<Call(x)>> \in Seq(Instruction) /\ OpenCode(<<Call(x)>>)
  <2>1. Call(x) \in Instruction /\ ~IsTerminator(Call(x))
    BY InstructionTypes DEF Call, Inst, IsTerminator
  <2> DEFINE i == Call(x)
             s == <<i>>
  <2> HIDE DEF i
  <2>2. s \in Seq(Instruction) /\ Len(s) = 1 /\ s[1] = i
    BY <2>1 DEF i
  <2> HIDE DEF s
  <2>3. OpenCode(s)
    BY <2>1, <2>2 DEF OpenCode, i
  <2> QED BY <2>1, <2>2, <2>3 DEF s, i
<1>7. ASSUME NEW x \in Seq(STRING), NEW l \in T
      PROVE  <<Call(x), Jump(l)>> \in Seq(Instruction) /\ GoodCode(<<Call(x), Jump(l)>>, T)
  <2>1. Jump(l) \in Instruction
    BY InstructionTypes
  <2>2. IsTerminator(Jump(l)) /\ Targets(Jump(l)) \subseteq T
    BY DEF Jump, Inst, IsTerminator, Targets
  <2> DEFINE i == Call(x)
             j == Jump(l)
             s == <<i, j>>
  <2>3. i \in Instruction /\ ~IsTerminator(i)
    BY <1>6
  <2> HIDE DEF i, j
  <2>4. s \in Seq(Instruction) /\ Len(s) = 2 /\ s[1] = i /\ s[2] = j /\ s # <<>>
    BY <2>1, <2>3 DEF j
  <2> HIDE DEF s
  <2>5. \A k \in 1 .. (Len(s) - 1) : s[k] = i
    BY <2>4
  <2>6. GoodCode(s, T)
    BY <2>2, <2>3, <2>4, <2>5 DEF GoodCode, j
  <2> QED BY <2>4, <2>6 DEF s, i, j
<1> QED BY <1>2, <1>3, <1>4, <1>5, <1>6, <1>7

(* Behind open code an end may be put, or more open code. *)
LEMMA CodeJoin ==
  ASSUME NEW T, NEW x \in Seq(Instruction), OpenCode(x), NEW y \in Seq(Instruction)
  PROVE  /\ x \o y \in Seq(Instruction)
         /\ GoodCode(y, T) => GoodCode(x \o y, T)
         /\ OpenCode(y) => OpenCode(x \o y)
<1> DEFINE z == x \o y
           a == Len(x)
           b == Len(y)
<1>1. /\ z \in Seq(Instruction) /\ a \in Nat /\ b \in Nat /\ Len(z) = a + b
      /\ \A i \in 1 .. a : z[i] = x[i]
      /\ \A i \in a + 1 .. a + b : z[i] = y[i - a]
  BY Joined
<1>2. y # <<>> => b > 0
  BY EmptySeq, <1>1
<1> HIDE DEF z, a, b
<1>3. \A i \in 1 .. a : ~IsTerminator(z[i])
  BY <1>1 DEF OpenCode, a
<1>4. ASSUME OpenCode(y) PROVE OpenCode(z)
  <2>1. \A i \in a + 1 .. a + b : ~IsTerminator(z[i])
    BY <1>1, <1>4 DEF OpenCode, b
  <2> QED BY <1>1, <1>3, <2>1 DEF OpenCode
<1>5. ASSUME GoodCode(y, T) PROVE GoodCode(z, T)
  <2>1. b > 0 /\ IsTerminator(y[b]) /\ Targets(y[b]) \subseteq T
        /\ \A i \in 1 .. b - 1 : ~IsTerminator(y[i])
    BY <1>2, <1>5 DEF GoodCode, b
  <2>2. a + b \in a + 1 .. a + b /\ (a + b) - a = b
    BY <1>1, <2>1
  <2>3. z[a + b] = y[b]
    BY <1>1, <2>2
  <2>4. \A i \in 1 .. (a + b) - 1 : ~IsTerminator(z[i])
    <3> TAKE i \in 1 .. (a + b) - 1
    <3>1. CASE i =< a
      BY <3>1, <1>1, <1>3
    <3>2. CASE i > a
      <4>1. i \in a + 1 .. a + b /\ i - a \in 1 .. b - 1
        BY <3>2, <1>1
      <4> QED BY <4>1, <1>1, <2>1
    <3> QED BY <3>1, <3>2, <1>1
  <2>5. z # <<>>
    <3>1. Len(z) > 0
      BY <1>1, <2>1
    <3> QED BY <3>1
  <2> QED BY <1>1, <2>1, <2>3, <2>4, <2>5 DEF GoodCode
<1> QED BY <1>1, <1>4, <1>5 DEF z

-----------------------------------------------------------------------------
(* The function as it grows.  Names are the labels a branch may name: those of
   all blocks but the entry. *)
Names(bs) == {bs[b].label : b \in 2 .. Len(bs)}

Shaped(bs) ==
  /\ bs \in Function /\ bs[1].label = <<"entry", 1>>
  /\ \A l \in Names(bs) : l[1] # "entry"

(* Blocks still to be entered are empty; the current one is open or has ended;
   the others have ended. *)
Written(bs, c, P) ==
  /\ c \in 1 .. Len(bs) /\ P \subseteq 1 .. Len(bs) /\ c \notin P
  /\ \A b \in P : bs[b].code = <<>>
  /\ \A b \in 1 .. Len(bs) : b \notin P /\ b # c => GoodCode(bs[b].code, Names(bs))
  /\ OpenCode(bs[c].code) \/ GoodCode(bs[c].code, Names(bs))

Counts == \A h \in DOMAIN uses : uses[h] \in Nat

LEMMA NamesFacts ==
  ASSUME NEW bs \in Function
  PROVE  /\ Names(bs) \subseteq Label
         /\ Labels(bs) = {bs[1].label} \cup Names(bs)
<1>1. /\ Len(bs) \in Nat \ {0} /\ DOMAIN bs = 1 .. Len(bs)
      /\ \A b \in DOMAIN bs : bs[b].label \in Label
  BY FunctionFacts
<1>2. \A b \in 1 .. Len(bs) : b = 1 \/ b \in 2 .. Len(bs)
  BY <1>1
<1>3. 2 .. Len(bs) \subseteq 1 .. Len(bs) /\ 1 \in 1 .. Len(bs)
  BY <1>1
<1> QED BY <1>1, <1>2, <1>3 DEF Names, Labels

(* Whether a statement is lowered is whether the block is open. *)
LEMMA OpenOrEnded ==
  ASSUME NEW bs, NEW c, NEW P, Shaped(bs), Written(bs, c, P)
  PROVE  /\ bs[c].code = <<>> \/ ~L!Terminated(bs[c]) <=> OpenCode(bs[c].code)
         /\ ~OpenCode(bs[c].code) <=> GoodCode(bs[c].code, Names(bs))
<1> DEFINE code == bs[c].code
<1>1. c \in DOMAIN bs /\ code \in Seq(Instruction)
  BY FunctionFacts DEF Shaped, Written
<1>2. Len(code) \in Nat /\ (code # <<>> => Len(code) > 0) /\ (code = <<>> => Len(code) = 0)
  BY <1>1, EmptySeq, LenProperties
<1>3. L!Terminated(bs[c]) <=> code # <<>> /\ IsTerminator(code[Len(code)])
  BY SameWords DEF Terminated, Last
<1>4. OpenCode(code) \/ GoodCode(code, Names(bs))
  BY DEF Written
<1> HIDE DEF code
<1>5. OpenCode(code) => code = <<>> \/ ~IsTerminator(code[Len(code)])
  BY <1>2 DEF OpenCode
<1>6. GoodCode(code, Names(bs)) => code # <<>> /\ IsTerminator(code[Len(code)])
  BY DEF GoodCode
<1>7. /\ code = <<>> \/ ~L!Terminated(bs[c]) <=> OpenCode(code)
      /\ ~OpenCode(code) <=> GoodCode(code, Names(bs))
  BY <1>3, <1>4, <1>5, <1>6
<1> QED BY <1>7 DEF code

LEMMA ContinuesIsOpen ==
  ASSUME NEW P, Shaped(blocks), Written(blocks, current, P)
  PROVE  /\ L!Continues <=> OpenCode(blocks[current].code)
         /\ ~L!Continues => GoodCode(blocks[current].code, Names(blocks))
BY OpenOrEnded DEF L!Continues

LEMMA NewLabelsType ==
  ASSUME Counts, NEW hints \in Seq(STRING)
  PROVE  /\ DOMAIN L!NewLabels(hints) = 1 .. Len(hints)
         /\ \A i \in 1 .. Len(hints) : /\ L!NewLabels(hints)[i] \in Label
                                       /\ L!NewLabels(hints)[i][1] = hints[i]
<1>1. DOMAIN hints = 1 .. Len(hints) /\ Len(hints) \in Nat
  BY LenProperties
<1> DEFINE n(i) == L!Used(hints[i]) + L!Cardinality({j \in 1 .. i : hints[j] = hints[i]})
<1>2. \A i \in 1 .. Len(hints) : n(i) \in Nat
  <2> TAKE i \in 1 .. Len(hints)
  <2>1. L!Used(hints[i]) \in Nat
    BY DEF L!Used, Counts
  <2>2. IsFiniteSet(1 .. i) /\ {j \in 1 .. i : hints[j] = hints[i]} \subseteq 1 .. i
    BY <1>1, FS_Interval
  <2>3. IsFiniteSet({j \in 1 .. i : hints[j] = hints[i]})
    BY <2>2, FS_Subset
  <2>4. L!Cardinality({j \in 1 .. i : hints[j] = hints[i]}) \in Nat
    BY <2>3, FS_CardinalityType DEF L!Cardinality, Cardinality
  <2> QED BY <2>1, <2>4
<1>3. \A i \in 1 .. Len(hints) : hints[i] \in STRING
  BY <1>1, ElementOfSeq
<1>4. L!NewLabels(hints) = [i \in 1 .. Len(hints) |-> <<hints[i], n(i)>>]
  BY <1>1 DEF L!NewLabels
<1> HIDE DEF n
<1> QED BY <1>2, <1>3, <1>4 DEF Label

(* What the function is after the current block got code and blocks were added. *)
GrowsTo(bs, code, hints, starts) ==
  /\ Shaped(bs) /\ Len(bs) = Len(blocks) + Len(hints)
  /\ \A b \in 1 .. Len(blocks) :
       /\ bs[b].label = blocks[b].label
       /\ bs[b].code = IF b = current THEN blocks[b].code \o code ELSE blocks[b].code
  /\ \A i \in 1 .. Len(hints) :
       /\ bs[Len(blocks) + i].label = L!NewLabels(hints)[i]
       /\ bs[Len(blocks) + i].code = IF i =< Len(starts) THEN starts[i] ELSE <<>>
       /\ L!NewLabels(hints)[i] \in Names(bs)
  /\ Names(blocks) \subseteq Names(bs)
  /\ bs[current].code = blocks[current].code \o code
  /\ \A j \in 1 .. Len(hints) : j =< Len(starts) => bs[Len(blocks) + j].code = starts[j]

LEMMA GrownIs ==
  ASSUME Shaped(blocks), Counts, current \in 1 .. Len(blocks),
         NEW code \in Seq(Instruction), NEW hints \in Seq(STRING),
         \A i \in 1 .. Len(hints) : hints[i] # "entry",
         NEW starts \in Seq(Seq(Instruction)), Len(starts) =< Len(hints),
         NEW bs, bs = L!Grown(code, hints, starts)
  PROVE  GrowsTo(bs, code, hints, starts)
<1> DEFINE n == Len(blocks)
           k == Len(hints)
           l(i) == L!NewLabels(hints)[i]
           start(i) == IF i =< Len(starts) THEN starts[i] ELSE <<>>
           old == [blocks EXCEPT ![current] = [label |-> blocks[current].label,
                                               code |-> blocks[current].code \o code]]
           new == [i \in 1 .. k |-> [label |-> l(i), code |-> start(i)]]
<1>1. /\ blocks \in Seq(Block) /\ n \in Nat \ {0} /\ DOMAIN blocks = 1 .. n
      /\ \A b \in 1 .. n : /\ blocks[b] \in Block /\ blocks[b].label \in Label
                           /\ blocks[b].code \in Seq(Instruction)
  BY FunctionFacts DEF Shaped
<1>2. k \in Nat /\ DOMAIN hints = 1 .. k
  BY LenProperties
<1>3. Len(starts) \in Nat /\ DOMAIN starts = 1 .. Len(starts)
  BY LenProperties
<1>4. \A i \in 1 .. k : start(i) \in Seq(Instruction)
  <2>1. \A i \in 1 .. k : i =< Len(starts) => starts[i] \in Seq(Instruction)
    BY <1>2, <1>3, ElementOfSeq
  <2> DEFINE e == <<>>
  <2>2. e \in Seq(Instruction)
    OBVIOUS
  <2> HIDE DEF e
  <2>3. \A i \in 1 .. k : (IF i =< Len(starts) THEN starts[i] ELSE e) \in Seq(Instruction)
    BY <2>1, <2>2, Zenon
  <2> QED BY <2>3 DEF e
<1>5. \A i \in 1 .. k : l(i) \in Label /\ l(i)[1] = hints[i]
  BY NewLabelsType
<1>6. bs = old \o new
  <2>1. L!Extend(blocks[current], code) = [label |-> blocks[current].label,
                                           code |-> blocks[current].code \o code]
    <3>1. blocks[current] \in [label : Label, code : Seq(Instruction)]
      BY <1>1 DEF Block
    <3>2. \A x \in [label : Label, code : Seq(Instruction)] : \A y :
            [x EXCEPT !.code = y] = [label |-> x.label, code |-> y]
      OBVIOUS
    <3> QED BY <3>1, <3>2 DEF L!Extend
  <2>2. \A i \in 1 .. k : i \in DOMAIN starts <=> i =< Len(starts)
    BY <1>2, <1>3
  <2>3. new = [i \in DOMAIN hints |->
                 [label |-> L!NewLabels(hints)[i], code |-> IF i \in DOMAIN starts THEN starts[i] ELSE <<>>]]
    BY <1>2, <2>2
  <2> HIDE DEF new
  <2> QED BY <2>1, <2>3 DEF L!Grown
<1>7. /\ old \in Seq(Block) /\ Len(old) = n
      /\ \A b \in 1 .. n : /\ old[b].label = blocks[b].label
                           /\ old[b].code = IF b = current THEN blocks[b].code \o code ELSE blocks[b].code
  <2>1. blocks[current].code \o code \in Seq(Instruction)
    BY <1>1, Joined
  <2>2. [label |-> blocks[current].label, code |-> blocks[current].code \o code] \in Block
    BY <1>1, <2>1 DEF Block
  <2> DEFINE b1 == [label |-> blocks[current].label, code |-> blocks[current].code \o code]
  <2>3. b1.label = blocks[current].label /\ b1.code = blocks[current].code \o code /\ b1 \in Block
    BY <2>2
  <2> HIDE DEF b1
  <2>4. [blocks EXCEPT ![current] = b1] \in Seq(Block) /\ Len([blocks EXCEPT ![current] = b1]) = n
        /\ \A b \in 1 .. n : [blocks EXCEPT ![current] = b1][b] = IF b = current THEN b1 ELSE blocks[b]
    BY <1>1, <2>3, ExceptSeq
  <2> QED BY <2>3, <2>4 DEF b1
<1>8. /\ new \in Seq(Block) /\ Len(new) = k
      /\ \A i \in 1 .. k : new[i].label = l(i) /\ new[i].code = start(i)
  <2> HIDE DEF l, start
  <2>1. \A i \in 1 .. k : [label |-> l(i), code |-> start(i)] \in Block
    BY <1>4, <1>5 DEF Block
  <2> QED BY <1>2, <2>1
<1> HIDE DEF old, new, l, start, n, k
<1>9. /\ bs \in Seq(Block) /\ Len(bs) = n + k
      /\ \A b \in 1 .. n : bs[b] = old[b]
      /\ \A i \in n + 1 .. n + k : bs[i] = new[i - n]
  <2>1. /\ old \o new \in Seq(Block) /\ Len(old \o new) = Len(old) + Len(new)
        /\ \A i \in 1 .. Len(old) : (old \o new)[i] = old[i]
        /\ \A i \in Len(old) + 1 .. Len(old) + Len(new) : (old \o new)[i] = new[i - Len(old)]
    BY <1>7, <1>8, Joined
  <2>2. Len(old) = n /\ Len(new) = k
    BY <1>7, <1>8
  <2> QED BY <1>6, <2>1, <2>2
<1>10. \A i \in 1 .. k : n + i \in n + 1 .. n + k /\ (n + i) - n = i
  BY <1>1, <1>2
<1>11. \A i \in 1 .. k : bs[n + i] = new[i]
  BY <1>9, <1>10
<1>12. /\ \A b \in 1 .. n : /\ bs[b].label = blocks[b].label
                            /\ bs[b].code = IF b = current THEN blocks[b].code \o code ELSE blocks[b].code
       /\ \A i \in 1 .. k : bs[n + i].label = l(i) /\ bs[n + i].code = start(i)
  BY <1>7, <1>8, <1>9, <1>11
<1>13. Names(blocks) \subseteq Names(bs)
  <2>1. \A b \in 2 .. n : b \in 2 .. n + k /\ b \in 1 .. n
    BY <1>1, <1>2
  <2> QED BY <2>1, <1>9, <1>12 DEF Names, n
<1>14. \A i \in 1 .. k : l(i) \in Names(bs)
  <2>1. \A i \in 1 .. k : n + i \in 2 .. n + k
    BY <1>1, <1>2
  <2> QED BY <2>1, <1>9, <1>12 DEF Names
<1>15. \A b \in 2 .. n + k : bs[b].label[1] # "entry"
  <2> TAKE b \in 2 .. n + k
  <2>1. CASE b =< n
    <3>1. b \in 2 .. n /\ b \in 1 .. n
      BY <2>1, <1>1
    <3>2. blocks[b].label \in Names(blocks)
      BY <3>1 DEF Names, n
    <3> QED BY <3>1, <3>2, <1>12 DEF Shaped
  <2>2. CASE b > n
    <3>1. b - n \in 1 .. k /\ n + (b - n) = b
      BY <2>2, <1>1, <1>2
    <3>2. bs[b].label = l(b - n)
      BY <3>1, <1>12
    <3>3. hints[b - n] # "entry"
      BY <3>1 DEF k
    <3> QED BY <3>1, <3>2, <3>3, <1>5
  <2> QED BY <2>1, <2>2, <1>1
<1>16. Shaped(bs)
  <2>1. 1 \in 1 .. n /\ n + k # 0
    BY <1>1, <1>2
  <2>2. bs # <<>>
    BY <1>9, <2>1
  <2>3. bs \in Function /\ bs[1].label = <<"entry", 1>>
    BY <1>9, <1>12, <2>1, <2>2 DEF Function, Shaped
  <2>4. \A x \in Names(bs) : x[1] # "entry"
    BY <1>9, <1>15 DEF Names
  <2> QED BY <2>3, <2>4 DEF Shaped
<1>17. bs[current].code = blocks[current].code \o code
  <2>1. bs[current].code = IF current = current THEN blocks[current].code \o code ELSE blocks[current].code
    BY <1>12, Zenon DEF n
  <2> QED BY <2>1, Zenon
<1>18. ASSUME NEW j \in 1 .. Len(hints), j =< Len(starts)
       PROVE  bs[Len(blocks) + j].code = starts[j]
  <2>1. bs[Len(blocks) + j].code = start(j)
    BY <1>12, Zenon DEF n, k
  <2> QED BY <1>18, <2>1, Zenon DEF start
<1> QED BY <1>9, <1>12, <1>13, <1>14, <1>16, <1>17, <1>18 DEF GrowsTo, n, k, l, start

(* What a statement adds: code to the current block and blocks named by hints, of
   which the first get code at once. *)
Adds(bs, code, hints, starts) ==
  /\ code \in Seq(Instruction) /\ hints \in Seq(STRING)
  /\ \A i \in 1 .. Len(hints) : hints[i] # "entry"
  /\ starts \in Seq(Seq(Instruction)) /\ Len(starts) =< Len(hints)
  /\ bs = L!Grown(code, hints, starts)

LEMMA GrownFacts ==
  ASSUME Shaped(blocks), Counts, current \in 1 .. Len(blocks),
         NEW code, NEW hints, NEW starts, NEW bs, Adds(bs, code, hints, starts)
  PROVE  /\ Shaped(bs) /\ Len(bs) = Len(blocks) + Len(hints)
         /\ \A b \in 1 .. Len(blocks) :
              /\ bs[b].label = blocks[b].label
              /\ bs[b].code = IF b = current THEN blocks[b].code \o code ELSE blocks[b].code
         /\ \A i \in 1 .. Len(hints) :
              /\ bs[Len(blocks) + i].label = L!NewLabels(hints)[i]
              /\ bs[Len(blocks) + i].code = IF i =< Len(starts) THEN starts[i] ELSE <<>>
              /\ L!NewLabels(hints)[i] \in Names(bs)
         /\ Names(blocks) \subseteq Names(bs)
         /\ bs[current].code = blocks[current].code \o code
         /\ \A j \in 1 .. Len(hints) : j =< Len(starts) => bs[Len(blocks) + j].code = starts[j]
<1>1. GrowsTo(bs, code, hints, starts)
  BY GrownIs DEF Adds
<1> QED BY ONLY <1>1 DEF GrowsTo

LEMMA GrownEmpty ==
  ASSUME Shaped(blocks), Counts, current \in 1 .. Len(blocks),
         NEW code, NEW hints, NEW starts, NEW bs, Adds(bs, code, hints, starts),
         NEW j \in 1 .. Len(hints), ~(j =< Len(starts))
  PROVE  bs[Len(blocks) + j].code = <<>>
BY GrownFacts

(* Code is put at the end of the current block. *)
Puts(bs, code) ==
  code \in Seq(Instruction) /\ bs = [blocks EXCEPT ![current] = L!Extend(@, code)]

LEMMA AppendFacts ==
  ASSUME Shaped(blocks), current \in 1 .. Len(blocks), NEW code, NEW bs, Puts(bs, code)
  PROVE  /\ Shaped(bs) /\ Len(bs) = Len(blocks) /\ Names(bs) = Names(blocks)
         /\ \A b \in 1 .. Len(blocks) :
              /\ bs[b].label = blocks[b].label
              /\ bs[b].code = IF b = current THEN blocks[b].code \o code ELSE blocks[b].code
<1> DEFINE n == Len(blocks)
           b1 == [label |-> blocks[current].label, code |-> blocks[current].code \o code]
<1>1. /\ blocks \in Seq(Block) /\ n \in Nat \ {0} /\ DOMAIN blocks = 1 .. n
      /\ \A b \in 1 .. n : /\ blocks[b] \in Block /\ blocks[b].label \in Label
                           /\ blocks[b].code \in Seq(Instruction)
  BY FunctionFacts DEF Shaped
<1>0. code \in Seq(Instruction)
  BY DEF Puts
<1>2. L!Extend(blocks[current], code) = b1
  <2>1. blocks[current] \in [label : Label, code : Seq(Instruction)]
    BY <1>1 DEF Block
  <2>2. \A x \in [label : Label, code : Seq(Instruction)] : \A y :
          [x EXCEPT !.code = y] = [label |-> x.label, code |-> y]
    OBVIOUS
  <2> QED BY <2>1, <2>2 DEF L!Extend
<1>3. b1.label = blocks[current].label /\ b1.code = blocks[current].code \o code /\ b1 \in Block
  <2>1. blocks[current].code \o code \in Seq(Instruction)
    BY <1>0, <1>1, Joined
  <2> QED BY <1>1, <2>1 DEF Block
<1> HIDE DEF b1
<1>4. /\ bs \in Seq(Block) /\ Len(bs) = n
      /\ \A b \in 1 .. n : bs[b] = IF b = current THEN b1 ELSE blocks[b]
  <2>1. bs = [blocks EXCEPT ![current] = b1]
    BY <1>2 DEF Puts
  <2> QED BY <1>1, <1>3, <2>1, ExceptSeq
<1>5. \A b \in 1 .. n :
        /\ bs[b].label = blocks[b].label
        /\ bs[b].code = IF b = current THEN blocks[b].code \o code ELSE blocks[b].code
  <2> TAKE b \in 1 .. n
  <2>1. bs[b] = IF b = current THEN b1 ELSE blocks[b]
    BY <1>4
  <2>2. CASE b = current
    BY <2>1, <2>2, <1>3
  <2>3. CASE b # current
    BY <2>1, <2>3
  <2> QED BY <2>2, <2>3
<1>6. Names(bs) = Names(blocks)
  <2>1. \A b \in 2 .. n : b \in 1 .. n
    BY <1>1
  <2> QED BY <2>1, <1>4, <1>5 DEF Names, n
<1>7. bs \in Function
  <2>1. Len(bs) # 0
    BY <1>1, <1>4
  <2>2. bs # <<>>
    BY <2>1
  <2> QED BY <1>4, <2>2 DEF Function
<1>8. bs[1].label = <<"entry", 1>>
  <2>1. 1 \in 1 .. n
    BY <1>1
  <2> QED BY <2>1, <1>5 DEF Shaped
<1> QED BY <1>4, <1>5, <1>6, <1>7, <1>8 DEF Shaped, n

LEMMA AppendWritten ==
  ASSUME Shaped(blocks), NEW P, Written(blocks, current, P), OpenCode(blocks[current].code),
         NEW code, OpenCode(code) \/ GoodCode(code, Names(blocks)), NEW bs, Puts(bs, code)
  PROVE  /\ Shaped(bs) /\ Len(bs) = Len(blocks) /\ Names(bs) = Names(blocks)
         /\ Written(bs, current, P)
         /\ OpenCode(code) => OpenCode(bs[current].code)
         /\ GoodCode(code, Names(blocks)) => GoodCode(bs[current].code, Names(blocks))
<1>1. current \in 1 .. Len(blocks) /\ P \subseteq 1 .. Len(blocks) /\ current \notin P
  BY DEF Written
<1>2. /\ Shaped(bs) /\ Len(bs) = Len(blocks) /\ Names(bs) = Names(blocks)
      /\ \A b \in 1 .. Len(blocks) :
           /\ bs[b].label = blocks[b].label
           /\ bs[b].code = IF b = current THEN blocks[b].code \o code ELSE blocks[b].code
  BY <1>1, AppendFacts
<1>3. blocks[current].code \in Seq(Instruction) /\ code \in Seq(Instruction)
  BY <1>1, FunctionFacts DEF Shaped, Puts
<1>4. /\ OpenCode(code) => OpenCode(bs[current].code)
      /\ GoodCode(code, Names(blocks)) => GoodCode(bs[current].code, Names(blocks))
  BY <1>1, <1>2, <1>3, CodeJoin
<1>5. \A b \in P : bs[b].code = <<>>
  BY <1>1, <1>2 DEF Written
<1>6. \A b \in 1 .. Len(bs) : b \notin P /\ b # current => GoodCode(bs[b].code, Names(bs))
  BY <1>1, <1>2 DEF Written
<1> QED BY <1>1, <1>2, <1>4, <1>5, <1>6 DEF Written

(* The new blocks that got no code wait to be entered, but for the one that is
   entered at once. *)
Waits(n, hints, starts) ==
  {n + i : i \in {j \in 1 .. Len(hints) : j > Len(starts) \/ starts[j] = <<>>}}

LEMMA GrownWritten ==
  ASSUME Shaped(blocks), Counts, NEW P, Written(blocks, current, P),
         OpenCode(blocks[current].code),
         NEW code, NEW hints, NEW starts, NEW bs, Adds(bs, code, hints, starts), GoodCode(code, Names(bs)),
         \A i \in 1 .. Len(starts) : starts[i] = <<>> \/ GoodCode(starts[i], Names(bs)),
         NEW c \in {current} \cup (Len(blocks) + 1) .. (Len(blocks) + Len(hints))
  PROVE  Written(bs, c, P \cup (Waits(Len(blocks), hints, starts) \ {c}))
<1> DEFINE n == Len(blocks)
           k == Len(hints)
           Q == Waits(n, hints, starts) \ {c}
           N == Names(bs)
<1>1. /\ Shaped(bs) /\ Len(bs) = n + k /\ Names(blocks) \subseteq N
      /\ \A b \in 1 .. n :
              bs[b].code = IF b = current THEN blocks[b].code \o code ELSE blocks[b].code
      /\ \A i \in 1 .. k : bs[n + i].code = IF i =< Len(starts) THEN starts[i] ELSE <<>>
  <2>1. current \in 1 .. Len(blocks)
    BY DEF Written
  <2> QED BY <2>1, GrownFacts
<1>2. /\ current \in 1 .. n /\ P \subseteq 1 .. n /\ current \notin P
      /\ n \in Nat \ {0} /\ k \in Nat /\ Len(starts) \in Nat
      /\ code \in Seq(Instruction) /\ starts \in Seq(Seq(Instruction)) /\ Len(starts) =< k
  <2>1. /\ code \in Seq(Instruction) /\ hints \in Seq(STRING)
        /\ starts \in Seq(Seq(Instruction)) /\ Len(starts) =< k
    BY DEF Adds
  <2> QED BY <2>1, FunctionFacts, LenProperties DEF Written, Shaped
<1>3. \A code1, T, U : T \subseteq U /\ GoodCode(code1, T) => GoodCode(code1, U)
  BY DEF GoodCode
<1>4. GoodCode(bs[current].code, N)
  <2>1. blocks[current].code \in Seq(Instruction)
    BY <1>2, FunctionFacts DEF Shaped
  <2>2. bs[current].code = blocks[current].code \o code
    BY ONLY <1>1, <1>2
  <2>3. OpenCode(blocks[current].code) /\ code \in Seq(Instruction) /\ GoodCode(code, N)
    BY <1>2
  <2> HIDE DEF N
  <2> QED BY ONLY <2>1, <2>2, <2>3, CodeJoin
<1>5. Q \subseteq n + 1 .. n + k /\ \A b \in Q : bs[b].code = <<>>
  <2>1. ASSUME NEW i \in 1 .. k, i > Len(starts) \/ starts[i] = <<>>
        PROVE  n + i \in n + 1 .. n + k /\ bs[n + i].code = <<>>
    <3>1. n + i \in n + 1 .. n + k
      BY <1>2
    <3>2. CASE i > Len(starts)
      BY <3>1, <3>2, <1>1, <1>2
    <3>3. CASE i =< Len(starts)
      BY <3>1, <3>3, <2>1, <1>1, <1>2
    <3> QED BY <3>1, <3>2, <3>3, <1>2
  <2> QED BY <2>1 DEF Waits
<1>6. ASSUME NEW b \in n + 1 .. n + k, b \notin Q, b # c PROVE GoodCode(bs[b].code, N)
  <2>1. b - n \in 1 .. k /\ n + (b - n) = b
    BY <1>2
  <2>2. ~(b - n > Len(starts) \/ starts[b - n] = <<>>)
    BY <1>6, <2>1 DEF Waits
  <2>3. b - n \in 1 .. Len(starts) /\ starts[b - n] # <<>>
    BY <2>1, <2>2, <1>2
  <2>4. bs[n + (b - n)].code = IF b - n =< Len(starts) THEN starts[b - n] ELSE <<>>
    BY <1>1, <2>1
  <2>5. bs[n + (b - n)].code = starts[b - n]
    BY <2>3, <2>4
  <2> QED BY <2>1, <2>3, <2>5
<1>7. ASSUME NEW b \in 1 .. n, b \notin P PROVE b = current \/ GoodCode(bs[b].code, N)
  <2>1. b # current => GoodCode(blocks[b].code, Names(blocks))
    BY <1>7 DEF Written
  <2> QED BY <2>1, <1>1, <1>3
<1>8. \A b \in P : bs[b].code = <<>>
  BY <1>1, <1>2 DEF Written
<1>9. c \in 1 .. n + k /\ c \notin P
  BY <1>2
<1>10. OpenCode(bs[c].code) \/ GoodCode(bs[c].code, N)
  <2>1. CASE c = current
    BY <2>1, <1>4
  <2>2. CASE c # current
    <3>1. c - n \in 1 .. k /\ n + (c - n) = c
      BY <2>2, <1>2
    <3>2. bs[n + (c - n)].code = IF c - n =< Len(starts) THEN starts[c - n] ELSE <<>>
      BY <1>1, <3>1
    <3>3. c - n =< Len(starts) => c - n \in 1 .. Len(starts)
      BY <3>1, <1>2
    <3> DEFINE e == <<>>
    <3>4. OpenCode(e)
      BY DEF OpenCode
    <3> HIDE DEF e
    <3>5. bs[c].code = e \/ GoodCode(bs[c].code, N)
      BY <3>1, <3>2, <3>3 DEF e
    <3> QED BY <3>4, <3>5
  <2> QED BY <2>1, <2>2
<1>11. \A b \in 1 .. n + k : b \notin P \cup Q /\ b # c => GoodCode(bs[b].code, N)
  <2> TAKE b \in 1 .. n + k
  <2>1. CASE b \in 1 .. n
    BY <2>1, <1>4, <1>7
  <2>2. CASE b \notin 1 .. n
    <3>1. b \in n + 1 .. n + k
      BY <2>2, <1>2
    <3> QED BY <3>1, <1>6
  <2> QED BY <2>1, <2>2
<1>12. P \cup Q \subseteq 1 .. n + k /\ c \notin P \cup Q
  <2>1. c \notin Q
    OBVIOUS
  <2>2. 1 .. n \subseteq 1 .. n + k /\ n + 1 .. n + k \subseteq 1 .. n + k
    BY <1>2
  <2> HIDE DEF Q
  <2> QED BY <2>1, <2>2, <1>2, <1>5, <1>9
<1> HIDE DEF Q, n, k, N
<1>13. Written(bs, c, P \cup Q)
  BY <1>1, <1>5, <1>8, <1>9, <1>10, <1>11, <1>12 DEF Written, N
<1> QED BY <1>13 DEF Q, n

-----------------------------------------------------------------------------
(* The inductive invariant of the lowering.  The tasks can be read from where
   the lowering is: what the reading takes for known of the current block is
   true of it, it starts inside as many loops as there are, its blocks to be
   entered are those that wait, and it enters them all.  When the end of the
   function was lowered, the reading ends with a block that has ended. *)
Knows(f) == (f = "open" => L!Continues) /\ (f = "ended" => ~L!Continues)

Steered(F, W, f, P, q) ==
  /\ f \in Flags /\ P \in SUBSET Nat /\ q \in Points
  /\ Reads(F, W, Names(blocks), todo, Point(f, Len(loops) - 1, P), q)
  /\ q.left = {} /\ (closing => q.at = "ended")
  /\ Written(blocks, current, P)
  /\ Knows(f)

Framed(W) ==
  /\ Shaped(blocks) /\ Counts
  /\ loops \in Seq(Places(Names(blocks))) /\ loops # <<>>
  /\ defers \in Seq(Seq(W))
  /\ closing \in BOOLEAN

LowInv(F, W) == Framed(W) /\ \E f, P, q : Steered(F, W, f, P, q)

LEMMA HandledFacts ==
  ASSUME NEW F, NEW W, Handled(F, W)
  PROVE  /\ W \subseteq F
         /\ \A s \in F : /\ s.kind \in Kinds /\ s.name \in Seq(STRING)
                         /\ s.body \in Seq(F) /\ s.other \in Seq(F)
         /\ \A s \in F : s.kind = "switch" => Len(s.body) \in 1 .. (Len(CheckHint) + 1)
         /\ \A s \in F : s.kind = "loop" => s.body \in Seq(W)
         /\ \A s \in F : s.kind = "defer" => SubSeq(s.body, 1, 1) \in Seq(W)
         /\ \A s \in W : s.kind \in {"call", "if", "while", "loop", "for", "switch", "defer", "meta"}
         /\ \A s \in W : s.kind = "if" /\ s.name \in Literal => s.body \in Seq(W) /\ s.other \in Seq(W)
<1>1. \A s \in [kind : Kinds, name : Seq(STRING), body : Seq(F), other : Seq(F)] :
        s.kind \in Kinds /\ s.name \in Seq(STRING) /\ s.body \in Seq(F) /\ s.other \in Seq(F)
  OBVIOUS
<1> QED BY <1>1, Zenon DEF Handled

(* What follows the statement at the head of the tasks, and what is known
   behind it. *)
Behind(F, W, f, P, q) ==
  /\ f \in {"any", "open"} /\ P \in SUBSET Nat /\ q \in Points
  /\ Reads(F, W, Names(blocks), Tail(todo), Point(f, Len(loops) - 1, P), q)
  /\ q.left = {} /\ (closing => q.at = "ended")
  /\ Written(blocks, current, P)
  /\ f = "open" => L!Continues /\ L!S \in W

LEMMA DepthOfLoops ==
  ASSUME NEW W, Framed(W)
  PROVE  Len(loops) - 1 \in Nat /\ Len(loops) \in Nat \ {0}
BY EmptySeq, LenProperties DEF Framed

LEMMA StatementAhead ==
  ASSUME NEW F, NEW W, LowInv(F, W), L!Doing("stmt")
  PROVE  L!S \in F /\ \E f, P, q : Behind(F, W, f, P, q)
<1> DEFINE N == Names(blocks)
           d == Len(loops) - 1
<1>1. PICK f, P, q : Steered(F, W, f, P, q)
  BY DEF LowInv
<1>2. d \in Nat
  BY DepthOfLoops DEF LowInv
<1> HIDE DEF d
<1> DEFINE p == Point(f, d, P)
<1>3. p \in Points /\ p.at = f /\ p.depth = d /\ p.left = P
  <2>1. f \in Flags /\ P \in SUBSET Nat
    BY ONLY <1>1 DEF Steered
  <2> QED BY ONLY <1>2, <2>1, PointType
<1>4. todo # <<>> /\ Head(todo).do = "stmt"
  BY DEF L!Doing
<1> HIDE DEF p
<1>5. Reads(F, W, N, todo, p, q)
  BY <1>1 DEF Steered, p, d
<1>6. PICK m \in Points : Leads(F, W, N, p, Head(todo), m) /\ Reads(F, W, N, Tail(todo), m, q)
  BY <1>4, <1>5, ReadsHead
<1>7. /\ Head(todo).stmt \in F
      /\ m.at = "any" \/ (m.at = "open" /\ p.at = "open" /\ Head(todo).stmt \in W)
      /\ m.depth = d /\ m.left = P
  BY <1>3, <1>4, <1>6 DEF Leads
<1>8. m = Point(m.at, d, P)
  BY <1>6, <1>7 DEF Points, Point
<1>9. Behind(F, W, m.at, P, q)
  <2>1. m.at = "open" => L!Continues /\ L!S \in W
    BY <1>1, <1>3, <1>7 DEF Steered, Knows, L!S
  <2>2. m.at \in {"any", "open"}
    BY <1>7
  <2>3. Reads(F, W, N, Tail(todo), Point(m.at, d, P), q)
    BY <1>6, <1>8
  <2> QED BY <1>1, <2>1, <2>2, <2>3 DEF Behind, Steered, d
<1> QED BY <1>7, <1>9 DEF L!S

(* The tasks a statement becomes lead from the new state to what is known behind
   it. *)
LEMMA GoesOn ==
  ASSUME NEW F, NEW W, NEW f, NEW P, NEW q, Behind(F, W, f, P, q),
         Framed(W)', Names(blocks) \subseteq Names(blocks'), closing' = closing,
         NEW tasks, todo' = tasks \o Tail(todo),
         NEW g \in Flags, NEW Q \in SUBSET Nat, Written(blocks', current', Q), Knows(g)',
         Reads(F, W, Names(blocks'), tasks, Point(g, Len(loops') - 1, Q), Point(f, Len(loops) - 1, P))
  PROVE  LowInv(F, W)'
<1>1. Reads(F, W, Names(blocks'), Tail(todo), Point(f, Len(loops) - 1, P), q)
  BY ReadsMore DEF Behind
<1>2. Reads(F, W, Names(blocks'), todo', Point(g, Len(loops') - 1, Q), q)
  BY <1>1, ReadsJoin
<1>3. Steered(F, W, g, Q, q)'
  BY <1>2 DEF Behind, Steered
<1>4. \E x, y, z : Steered(F, W, x, y, z)'
  BY <1>3
<1> QED BY <1>4 DEF LowInv

LEMMA PlacesMore ==
  ASSUME NEW T, NEW U, T \subseteq U
  PROVE  Places(T) \subseteq Places(U) /\ Seq(Places(T)) \subseteq Seq(Places(U))
<1>1. Places(T) \subseteq Places(U)
  BY DEF Places
<1> QED BY <1>1

-----------------------------------------------------------------------------
(* Statements that make no block. *)
LEMMA NoTasks ==
  ASSUME NEW F, NEW W, NEW T, NEW f \in Flags, NEW P \in SUBSET Nat, Framed(W)
  PROVE  Reads(F, W, T, <<>>, Point(f, Len(loops) - 1, P), Point(f, Len(loops) - 1, P))
BY ReadsNone, PointType, DepthOfLoops

(* A statement after a terminator is left out. *)
LEMMA SkipStep ==
  ASSUME NEW F, NEW W, LowInv(F, W), L!Skip
  PROVE  LowInv(F, W)'
<1>1. PICK f, P, q : Behind(F, W, f, P, q)
  BY StatementAhead DEF L!Skip
<1>2. /\ UNCHANGED <<blocks, current, uses, loops, defers, closing>> /\ ~L!Continues
      /\ todo' = <<>> \o Tail(todo)
  BY DEF L!Skip, L!Then
<1>3. Framed(W)'
  BY <1>2 DEF LowInv, Framed, Counts
<1>4. f = "any" /\ f \in Flags /\ P \in SUBSET Nat
  BY <1>1, <1>2 DEF Behind, Flags
<1>5. Written(blocks', current', P) /\ Knows(f)'
  BY <1>1, <1>2, <1>4 DEF Behind, Knows
<1>6. Reads(F, W, Names(blocks'), <<>>, Point(f, Len(loops') - 1, P), Point(f, Len(loops) - 1, P))
  BY <1>2, <1>4, NoTasks DEF LowInv
<1> QED BY <1>1, <1>2, <1>3, <1>4, <1>5, <1>6, GoesOn

(* Code is put behind open code. *)
LEMMA AppendStep ==
  ASSUME NEW F, NEW W, NEW f, NEW P, NEW q, Behind(F, W, f, P, q), Framed(W), L!Continues,
         NEW code \in Seq(Instruction), OpenCode(code) \/ (f = "any" /\ GoodCode(code, Names(blocks))),
         blocks' = [blocks EXCEPT ![current] = L!Extend(@, code)],
         todo' = <<>> \o Tail(todo),
         UNCHANGED <<current, uses, loops, defers, closing>>
  PROVE  LowInv(F, W)'
<1>1. Shaped(blocks) /\ Written(blocks, current, P) /\ f \in Flags /\ P \in SUBSET Nat
  BY DEF Behind, Framed, Flags
<1>2. OpenCode(blocks[current].code)
  BY <1>1, ContinuesIsOpen
<1>3. /\ Shaped(blocks') /\ Len(blocks') = Len(blocks) /\ Names(blocks') = Names(blocks)
      /\ Written(blocks', current, P)
      /\ OpenCode(code) => OpenCode(blocks'[current].code)
  <2>1. Puts(blocks', code)
    BY DEF Puts
  <2> QED BY <1>1, <1>2, <2>1, AppendWritten
<1>4. Framed(W)'
  BY <1>3 DEF Framed, Counts
<1>5. Knows(f)'
  <2>1. blocks'[current].code = <<>> \/ ~L!Terminated(blocks'[current]) <=> OpenCode(blocks'[current].code)
    BY <1>3, OpenOrEnded
  <2>2. L!Continues' <=> OpenCode(blocks'[current].code)
    BY <2>1 DEF L!Continues
  <2>3. f = "open" => OpenCode(code)
    OBVIOUS
  <2>4. f # "ended"
    BY DEF Behind
  <2> QED BY <1>3, <2>2, <2>3, <2>4 DEF Knows
<1>6. Reads(F, W, Names(blocks'), <<>>, Point(f, Len(loops') - 1, P), Point(f, Len(loops) - 1, P))
  BY <1>1, NoTasks
<1> QED BY <1>1, <1>3, <1>4, <1>5, <1>6, GoesOn

LEMMA CallStep ==
  ASSUME NEW F, NEW W, Handled(F, W), LowInv(F, W), L!LowerCall
  PROVE  LowInv(F, W)'
<1>1. PICK f, P, q : Behind(F, W, f, P, q)
  BY StatementAhead DEF L!LowerCall, L!Stmt
<1>2. L!S \in F /\ L!Continues /\ Framed(W)
  BY StatementAhead DEF L!LowerCall, L!Stmt, LowInv
<1>3. <<Call(L!S.name)>> \in Seq(Instruction) /\ OpenCode(<<Call(L!S.name)>>)
  BY <1>2, HandledFacts, GoodEndings
<1>4. /\ blocks' = [blocks EXCEPT ![current] = L!Extend(@, <<Call(L!S.name)>>)]
      /\ todo' = <<>> \o Tail(todo)
      /\ UNCHANGED <<current, uses, loops, defers, closing>>
  BY SameWords DEF L!LowerCall, L!Append1, L!Then
<1> QED BY <1>1, <1>2, <1>3, <1>4, AppendStep

(* Behind a statement that is none of W nothing is known. *)
LEMMA NothingKnown ==
  ASSUME NEW F, NEW W, Handled(F, W), NEW f, NEW P, NEW q, Behind(F, W, f, P, q),
         L!S.kind \notin {"call", "if", "while", "loop", "for", "switch", "defer", "meta"}
  PROVE  f = "any"
BY HandledFacts DEF Behind

LEMMA PurgeStep ==
  ASSUME NEW F, NEW W, Handled(F, W), LowInv(F, W), L!LowerPurge
  PROVE  LowInv(F, W)'
<1>1. PICK f, P, q : Behind(F, W, f, P, q)
  BY StatementAhead DEF L!LowerPurge, L!Stmt
<1>2. L!S.kind = "purge" /\ L!Continues /\ Framed(W)
  BY DEF L!LowerPurge, L!Stmt, L!S, LowInv
<1>3. <<Panic>> \in Seq(Instruction) /\ GoodCode(<<Panic>>, Names(blocks))
  BY <1>2, GoodEndings, NamesFacts DEF Framed, Shaped
<1>4. /\ blocks' = [blocks EXCEPT ![current] = L!Extend(@, <<Panic>>)]
      /\ todo' = <<>> \o Tail(todo)
      /\ UNCHANGED <<current, uses, loops, defers, closing>>
  BY SameWords DEF L!LowerPurge, L!Append1, L!Then
<1>5. f = "any"
  BY <1>1, <1>2, NothingKnown
<1> QED BY <1>1, <1>2, <1>3, <1>4, <1>5, AppendStep

(* Nothing but the tasks, the counts and what is deferred changes. *)
LEMMA KeptStep ==
  ASSUME NEW F, NEW W, NEW f, NEW P, NEW q, Behind(F, W, f, P, q), Framed(W),
         NEW g \in Flags, Knows(g), NEW tasks, todo' = tasks \o Tail(todo),
         Reads(F, W, Names(blocks), tasks, Point(g, Len(loops) - 1, P), Point(f, Len(loops) - 1, P)),
         Counts', defers' \in Seq(Seq(W)),
         UNCHANGED <<blocks, current, loops, closing>>
  PROVE  LowInv(F, W)'
<1>1. Framed(W)'
  BY DEF Framed
<1>2. Written(blocks', current', P) /\ P \in SUBSET Nat
  BY DEF Behind
<1>3. Knows(g)'
  BY DEF Knows, L!Continues
<1>4. Reads(F, W, Names(blocks'), tasks, Point(g, Len(loops') - 1, P), Point(f, Len(loops) - 1, P))
  OBVIOUS
<1> QED BY <1>1, <1>2, <1>3, <1>4, GoesOn

LEMMA IfKnownStep ==
  ASSUME NEW F, NEW W, Handled(F, W), LowInv(F, W), L!LowerIfKnown
  PROVE  LowInv(F, W)'
<1>1. PICK f, P, q : Behind(F, W, f, P, q)
  BY StatementAhead DEF L!LowerIfKnown, L!Stmt
<1>2. L!S \in F /\ L!Continues /\ Framed(W) /\ L!S.kind = "if" /\ L!S.name \in Literal
  BY StatementAhead, SameWords DEF L!LowerIfKnown, L!Stmt, LowInv, L!S
<1> DEFINE body == IF L!IsTrue(L!S.name) THEN L!S.body ELSE L!S.other
<1>3. W \subseteq F /\ body \in Seq(F) /\ (f = "open" => body \in Seq(W))
  <2>1. W \subseteq F /\ L!S.body \in Seq(F) /\ L!S.other \in Seq(F)
    BY <1>2, HandledFacts
  <2>2. f = "open" => L!S.body \in Seq(W) /\ L!S.other \in Seq(W)
    BY <1>1, <1>2, HandledFacts DEF Behind
  <2> QED BY <2>1, <2>2
<1>4. todo' = L!Stmts(body) \o Tail(todo) /\ UNCHANGED <<blocks, current, uses, loops, defers, closing>>
  BY DEF L!LowerIfKnown, L!Then
<1> HIDE DEF body
<1>5. Len(loops) - 1 \in Nat /\ P \in SUBSET Nat /\ f \in {"any", "open"}
  BY <1>1, <1>2, DepthOfLoops DEF Behind
<1>6. Reads(F, W, Names(blocks), L!Stmts(body), Point(f, Len(loops) - 1, P), Point(f, Len(loops) - 1, P))
  BY <1>3, <1>5, ReadsStmts
<1>7. f \in Flags /\ Knows(f)
  BY <1>1, <1>5 DEF Flags, Knows, Behind
<1>8. Counts' /\ defers' \in Seq(Seq(W))
  BY <1>2, <1>4 DEF Framed, Counts
<1> QED BY <1>1, <1>2, <1>4, <1>6, <1>7, <1>8, KeptStep

LEMMA DeferStep ==
  ASSUME NEW F, NEW W, Handled(F, W), LowInv(F, W), L!LowerDefer
  PROVE  LowInv(F, W)'
<1>1. PICK f, P, q : Behind(F, W, f, P, q)
  BY StatementAhead DEF L!LowerDefer, L!Stmt
<1>2. L!S \in F /\ L!Continues /\ Framed(W) /\ L!S.kind = "defer"
  BY StatementAhead DEF L!LowerDefer, L!Stmt, LowInv, L!S
<1>3. /\ todo' = <<>> \o Tail(todo) /\ defers' = Append(defers, SubSeq(L!S.body, 1, 1))
      /\ UNCHANGED <<blocks, current, uses, loops, closing>>
  BY DEF L!LowerDefer, L!Then
<1>4. SubSeq(L!S.body, 1, 1) \in Seq(W)
  BY <1>2, HandledFacts
<1>5. Counts' /\ defers' \in Seq(Seq(W))
  BY <1>2, <1>3, <1>4 DEF Framed, Counts
<1>6. f \in Flags /\ Knows(f) /\ P \in SUBSET Nat
  BY <1>1 DEF Flags, Knows, Behind
<1>7. Reads(F, W, Names(blocks), <<>>, Point(f, Len(loops) - 1, P), Point(f, Len(loops) - 1, P))
  BY <1>2, <1>6, NoTasks
<1> QED BY <1>1, <1>2, <1>3, <1>5, <1>6, <1>7, KeptStep

(* break and continue: a jump, or nothing where there is nothing to leave. *)
LEMMA LeaveStep ==
  ASSUME NEW F, NEW W, Handled(F, W), LowInv(F, W), L!Doing("stmt"), L!Continues,
         L!S.kind \in {"break", "continue"},
         NEW l \in {L!Last(loops).brk, L!Last(loops).cont},
         IF l = L!NoLabel THEN UNCHANGED blocks ELSE L!Append1(L!Jump(l)),
         L!Then(<<>>), UNCHANGED <<current, uses, loops, defers, closing>>
  PROVE  LowInv(F, W)'
<1>1. PICK f, P, q : Behind(F, W, f, P, q)
  BY StatementAhead
<1>2. Framed(W) /\ f = "any" /\ todo' = <<>> \o Tail(todo)
  BY <1>1, NothingKnown DEF LowInv, L!Then
<1>3. l \in Names(blocks) \cup {NoLabel}
  <2>1. Len(loops) \in Nat \ {0} /\ loops \in Seq(Places(Names(blocks)))
    BY <1>2, DepthOfLoops DEF Framed
  <2>2. loops[Len(loops)] \in Places(Names(blocks))
    BY <2>1, ElementOfSeq
  <2> QED BY <2>2 DEF Places, L!Last
<1>4. CASE l = NoLabel
  <2>1. UNCHANGED blocks
    BY <1>4, SameWords
  <2>2. Counts' /\ defers' \in Seq(Seq(W))
    BY <1>2 DEF Framed, Counts
  <2>3. f \in Flags /\ Knows(f) /\ P \in SUBSET Nat
    BY <1>1 DEF Flags, Knows, Behind
  <2>4. Reads(F, W, Names(blocks), <<>>, Point(f, Len(loops) - 1, P), Point(f, Len(loops) - 1, P))
    BY <1>2, <2>3, NoTasks
  <2> QED BY <1>1, <1>2, <2>1, <2>2, <2>3, <2>4, KeptStep
<1>5. CASE l # NoLabel
  <2>1. l \in Names(blocks) /\ Names(blocks) \subseteq Label
    BY <1>2, <1>3, <1>5, NamesFacts DEF Framed, Shaped
  <2>2. <<Jump(l)>> \in Seq(Instruction) /\ GoodCode(<<Jump(l)>>, Names(blocks))
    BY <2>1, GoodEndings
  <2>3. blocks' = [blocks EXCEPT ![current] = L!Extend(@, <<Jump(l)>>)]
    BY <1>5, SameWords DEF L!Append1
  <2> QED BY <1>1, <1>2, <2>2, <2>3, AppendStep
<1> QED BY <1>4, <1>5

LEMMA BreakStep ==
  ASSUME NEW F, NEW W, Handled(F, W), LowInv(F, W), L!LowerBreak
  PROVE  LowInv(F, W)'
<1>1. /\ L!Doing("stmt") /\ L!Continues /\ L!S.kind = "break" /\ L!Then(<<>>)
      /\ UNCHANGED <<current, uses, loops, defers, closing>>
  BY DEF L!LowerBreak, L!Stmt, L!S
<1>2. IF L!Last(loops).brk = L!NoLabel THEN UNCHANGED blocks ELSE L!Append1(L!Jump(L!Last(loops).brk))
  BY DEF L!LowerBreak
<1> QED BY <1>1, <1>2, LeaveStep

LEMMA ContinueStep ==
  ASSUME NEW F, NEW W, Handled(F, W), LowInv(F, W), L!LowerContinue
  PROVE  LowInv(F, W)'
<1>1. /\ L!Doing("stmt") /\ L!Continues /\ L!S.kind = "continue" /\ L!Then(<<>>)
      /\ UNCHANGED <<current, uses, loops, defers, closing>>
  BY DEF L!LowerContinue, L!Stmt, L!S
<1>2. IF L!Last(loops).cont = L!NoLabel THEN UNCHANGED blocks ELSE L!Append1(L!Jump(L!Last(loops).cont))
  BY DEF L!LowerContinue
<1> QED BY <1>1, <1>2, LeaveStep

-----------------------------------------------------------------------------
(* The lists of a list, one after the other: f tells how far they are. *)
Flattens(f, ss, T) ==
  /\ f \in [1 .. Len(ss) -> Seq(T)] /\ f[1] = ss[1]
  /\ \A i \in 2 .. Len(ss) : f[i] = f[i - 1] \o ss[i]

LEMMA Flattened ==
  ASSUME NEW T, NEW ss \in Seq(Seq(T)), ss # <<>>
  PROVE  \E f : Flattens(f, ss, T) /\ L!FlattenSeq(ss) = f[Len(ss)]
<1> DEFINE K == Len(ss)
           S == Seq(T)
           More(n, x) == x \o ss[n]
           step == [n \in 1 .. K |-> [x \in S |-> More(n, x)]]
           Step(f) == [i \in 1 .. K |-> IF i = 1 THEN ss[i] ELSE More(i, f[i - 1])]
           flat == CHOOSE f : f = Step(f)
           none == <<>>
<1>1. K \in Nat \ {0} /\ \A n \in 1 .. K : ss[n] \in S
  BY LenProperties, ElementOfSeq, EmptySeq
<1>2. none \in S /\ \A n \in 1 .. K : More(n, none) = ss[n] /\ \A x \in S : More(n, x) \in S
  BY <1>1
<1> HIDE DEF none
<1>3. flat = Step(flat)
  <2>1. IsSteps(step, K, S) /\ \A n \in 1 .. K, x \in S : step[n][x] = More(n, x)
    BY <1>1, <1>2 DEF IsSteps
  <2> HIDE DEF step, S, K, More
  <2>2. PICK f : IsRun(f, K, S, none, step)
    BY <1>1, <1>2, <2>1, Iteration
  <2>3. /\ f \in [0 .. K -> S] /\ f[0] = none /\ \A n \in 1 .. K : f[n] = step[n][f[n - 1]]
    BY <2>2 DEF IsRun
  <2>4. \A n \in 1 .. K : f[n - 1] \in S
    BY <1>1, <2>3
  <2>5. \A n \in 1 .. K : f[n] = More(n, f[n - 1])
    BY <2>1, <2>3, <2>4
  <2>6. f[1] = ss[1]
    <3>1. 1 \in 1 .. K /\ 1 - 1 = 0
      BY <1>1
    <3>2. f[1] = More(1, f[1 - 1])
      BY <2>5, <3>1
    <3> QED BY <1>1, <1>2, <2>3, <3>1, <3>2
  <2> DEFINE g == [i \in 1 .. K |-> f[i]]
  <2>7. g = Step(g)
    <3>1. \A i \in 1 .. K : i # 1 => i - 1 \in 1 .. K
      BY <1>1
    <3> QED BY <2>5, <2>6, <3>1
  <2> HIDE DEF g
  <2> QED BY <2>7
<1>4. L!FlattenSeq(ss) = flat[K]
  BY <1>1 DEF L!FlattenSeq
<1> HIDE DEF flat
<1>5. /\ flat = [i \in 1 .. K |-> flat[i]] /\ flat[1] = ss[1]
      /\ \A i \in 2 .. K : flat[i] = More(i, flat[i - 1])
  <2> DEFINE next == Step(flat)
  <2> HIDE DEF More
  <2>1. /\ next = [i \in 1 .. K |-> next[i]] /\ next[1] = ss[1]
        /\ \A i \in 2 .. K : next[i] = More(i, flat[i - 1])
    BY <1>1
  <2>2. flat = next
    BY <1>3
  <2> HIDE DEF next
  <2> QED BY <2>1, <2>2
<1> HIDE DEF Step, S, K, More
<1> DEFINE P == {n \in 0 .. K : n = 0 \/ flat[n] \in S}
<1>6. 0 \in P
  BY <1>1
<1>7. ASSUME NEW n \in 1 .. K, n - 1 \in P PROVE n \in P
  <2>1. n \in 0 .. K
    BY <1>1
  <2>2. CASE n = 1
    <3>1. ss[1] \in S
      BY <1>1, <2>2
    <3> QED BY <1>5, <2>1, <2>2, <3>1
  <2>3. CASE n # 1
    <3>1. n \in 2 .. K /\ flat[n - 1] \in S
      BY <1>1, <1>7, <2>3
    <3>2. flat[n] = More(n, flat[n - 1]) /\ More(n, flat[n - 1]) \in S
      BY <1>2, <1>5, <3>1
    <3> HIDE DEF More
    <3>3. flat[n] \in S
      BY <3>2
    <3> QED BY <2>1, <3>3
  <2> QED BY <2>2, <2>3
<1>8. 0 .. K \subseteq P
  <2> HIDE DEF P
  <2> QED BY <1>1, <1>6, <1>7, InductionUpTo
<1>9. flat \in [1 .. K -> S]
  <2>1. \A n \in 1 .. K : flat[n] \in S
    BY <1>1, <1>8
  <2> QED BY <1>5, <2>1
<1>10. Flattens(flat, ss, T)
  BY <1>5, <1>9 DEF Flattens, K, S, More
<1> QED BY <1>4, <1>10 DEF K

LEMMA FlattenedType ==
  ASSUME NEW T, NEW ss \in Seq(Seq(T))
  PROVE  L!FlattenSeq(ss) \in Seq(T)
<1>1. CASE ss = <<>>
  <2>1. Len(ss) = 0 /\ ss \in Seq(T)
    BY <1>1
  <2> QED BY <2>1 DEF L!FlattenSeq
<1>2. CASE ss # <<>>
  <2>1. PICK f : Flattens(f, ss, T) /\ L!FlattenSeq(ss) = f[Len(ss)]
    BY <1>2, Flattened
  <2>2. Len(ss) \in 1 .. Len(ss)
    BY <1>2, LenProperties, EmptySeq
  <2> QED BY <2>1, <2>2 DEF Flattens
<1> QED BY <1>1, <1>2

(* A meta block: the labels start again, and what it defers is left. *)
LEMMA MetaStep ==
  ASSUME NEW F, NEW W, Handled(F, W), LowInv(F, W), L!LowerMeta
  PROVE  LowInv(F, W)'
<1>1. PICK f, P, q : Behind(F, W, f, P, q)
  BY StatementAhead DEF L!LowerMeta, L!Stmt
<1>2. /\ L!S \in F /\ L!S.kind = "meta" /\ L!S.body \in Seq(F)
      /\ L!Continues /\ Framed(W)
  <2>1. L!S \in F
    BY StatementAhead DEF L!LowerMeta, L!Stmt
  <2> QED BY <2>1, HandledFacts DEF L!LowerMeta, L!Stmt, L!S, LowInv
<1>3. /\ todo' = <<>> \o Tail(todo) /\ uses' = [h \in {} |-> 0]
      /\ defers' = defers \o L!DeferredBy(L!S.body)
      /\ UNCHANGED <<blocks, current, loops, closing>>
  BY DEF L!LowerMeta, L!Then
<1>4. L!DeferredBy(L!S.body) \in Seq(Seq(W))
  <2> DEFINE body == L!S.body
             ends(s) == \/ s.kind \in {"return", "purge"}
                        \/ s.kind = "break" /\ L!Last(loops).brk # L!NoLabel
                        \/ s.kind = "continue" /\ L!Last(loops).cont # L!NoLabel
             reached(i) == \A j \in 1..(i - 1) : ~ends(body[j])
             kept == [i \in DOMAIN body |->
                        IF body[i].kind = "defer" /\ reached(i)
                        THEN <<SubSeq(body[i].body, 1, 1)>> ELSE <<>>]
  <2>1. L!DeferredBy(L!S.body) = L!FlattenSeq(kept)
    BY DEF L!DeferredBy
  <2> HIDE DEF reached
  <2>2. kept \in Seq(Seq(Seq(W)))
    <3>1. DOMAIN body = 1 .. Len(body) /\ Len(body) \in Nat
      BY <1>2, LenProperties
    <3>2. ASSUME NEW i \in 1 .. Len(body) PROVE kept[i] \in Seq(Seq(W))
      <4>1. body[i] \in F
        BY <1>2, ElementOfSeq
      <4>2. body[i].kind = "defer" => SubSeq(body[i].body, 1, 1) \in Seq(W)
        BY <4>1, HandledFacts
      <4> QED BY <3>1, <4>2
    <3>3. kept = [i \in 1 .. Len(body) |-> kept[i]]
      BY <3>1
    <3> HIDE DEF kept, body
    <3>4. kept \in [1 .. Len(body) -> Seq(Seq(W))]
      BY <3>2, <3>3
    <3> QED BY <3>1, <3>4
  <2> HIDE DEF kept
  <2> QED BY <2>1, <2>2, FlattenedType
<1>5. Counts' /\ defers' \in Seq(Seq(W))
  <2>1. Counts'
    BY <1>3 DEF Counts
  <2>2. defers \in Seq(Seq(W))
    BY <1>2 DEF Framed
  <2> QED BY <1>3, <1>4, <2>1, <2>2
<1>6. f \in Flags /\ Knows(f) /\ P \in SUBSET Nat
  BY <1>1 DEF Flags, Knows, Behind
<1>7. Reads(F, W, Names(blocks), <<>>, Point(f, Len(loops) - 1, P), Point(f, Len(loops) - 1, P))
  BY <1>2, <1>6, NoTasks
<1> QED BY <1>1, <1>2, <1>3, <1>5, <1>6, <1>7, KeptStep

(* What a function runs before it returns. *)
LEMMA DeferredReads ==
  ASSUME NEW F, NEW W, W \subseteq F, NEW T, defers \in Seq(Seq(W)), NEW n \in Nat,
         NEW P \in SUBSET Nat, NEW g \in {"ended", "any"}, T \subseteq Label
  PROVE  Reads(F, W, T, L!Deferred \o L!Emit(<<L!Ret>>), Point("open", n, P), Point(g, n, P))
<1>1. L!Reverse(defers) \in Seq(Seq(W))
  <2>1. Len(defers) \in Nat /\ \A i \in 1 .. Len(defers) : defers[i] \in Seq(W)
    BY LenProperties, ElementOfSeq
  <2>2. \A i \in 1 .. Len(defers) : (Len(defers) - i) + 1 \in 1 .. Len(defers)
    BY <2>1
  <2> QED BY <2>1, <2>2 DEF L!Reverse
<1>2. L!FlattenSeq(L!Reverse(defers)) \in Seq(W)
  BY <1>1, FlattenedType
<1>3. Reads(F, W, T, L!Deferred, Point("open", n, P), Point("open", n, P))
  BY <1>2, ReadsStmts DEF L!Deferred
<1>4. L!Ret = Ret /\ <<Ret>> \in Seq(Instruction) /\ GoodCode(<<Ret>>, T)
  BY SameWords, GoodEndings
<1>5. Reads(F, W, T, L!Emit(<<L!Ret>>), Point("open", n, P), Point(g, n, P))
  BY <1>4, ReadsEmit
<1> QED BY <1>3, <1>5, ReadsJoin

LEMMA ReturnStep ==
  ASSUME NEW F, NEW W, Handled(F, W), LowInv(F, W), L!LowerReturn
  PROVE  LowInv(F, W)'
<1>1. PICK f, P, q : Behind(F, W, f, P, q)
  BY StatementAhead DEF L!LowerReturn, L!Stmt
<1>2. L!Continues /\ Framed(W) /\ L!S.kind = "return" /\ W \subseteq F
  BY HandledFacts DEF L!LowerReturn, L!Stmt, LowInv, L!S
<1>3. /\ todo' = (L!Deferred \o L!Emit(<<L!Ret>>)) \o Tail(todo)
      /\ UNCHANGED <<blocks, current, uses, loops, defers, closing>>
  BY DEF L!LowerReturn, L!Then
<1>4. f = "any"
  BY <1>1, <1>2, NothingKnown
<1>5. "open" \in Flags /\ Knows("open") /\ P \in SUBSET Nat
  BY <1>1, <1>2 DEF Flags, Knows, Behind
<1>6. Reads(F, W, Names(blocks), L!Deferred \o L!Emit(<<L!Ret>>),
            Point("open", Len(loops) - 1, P), Point(f, Len(loops) - 1, P))
  <2>1. Names(blocks) \subseteq Label /\ defers \in Seq(Seq(W)) /\ Len(loops) - 1 \in Nat
    BY <1>2, NamesFacts, DepthOfLoops DEF Framed, Shaped
  <2> QED BY <1>2, <1>4, <1>5, <2>1, DeferredReads
<1>7. Counts' /\ defers' \in Seq(Seq(W))
  BY <1>2, <1>3 DEF Framed, Counts
<1> QED BY <1>1, <1>2, <1>3, <1>5, <1>6, <1>7, KeptStep

-----------------------------------------------------------------------------
(* Statements that make blocks. *)
LEMMA CountedType ==
  ASSUME Counts, NEW hints \in Seq(STRING), uses' = L!Counted(hints)
  PROVE  Counts'
<1>1. DOMAIN hints = 1 .. Len(hints) /\ Len(hints) \in Nat
  BY LenProperties
<1>2. \A h : L!Used(h) \in Nat
  BY DEF L!Used, Counts
<1>3. \A h : L!Cardinality({i \in DOMAIN hints : hints[i] = h}) \in Nat
  <2> TAKE h
  <2>1. IsFiniteSet(1 .. Len(hints)) /\ {i \in DOMAIN hints : hints[i] = h} \subseteq 1 .. Len(hints)
    BY <1>1, FS_Interval
  <2>2. IsFiniteSet({i \in DOMAIN hints : hints[i] = h})
    BY <2>1, FS_Subset
  <2> QED BY <2>2, FS_CardinalityType DEF L!Cardinality, Cardinality
<1> DEFINE c(h) == L!Cardinality({i \in DOMAIN hints : hints[i] = h})
           n(h) == L!Used(h) + c(h)
           D == DOMAIN uses \cup L!Range(hints)
<1>4. \A h : n(h) \in Nat
  <2> HIDE DEF c
  <2>1. \A h : c(h) \in Nat
    BY <1>3 DEF c
  <2> QED BY <1>2, <2>1
<1>5. uses' = [h \in D |-> n(h)]
  BY DEF L!Counted
<1> HIDE DEF n, D
<1> QED BY <1>4, <1>5 DEF Counts

LEMMA GrowStep ==
  ASSUME NEW F, NEW W, NEW f, NEW P, NEW q, Behind(F, W, f, P, q), Framed(W), L!Continues,
         NEW code \in Seq(Instruction), NEW hints \in Seq(STRING),
         \A i \in 1 .. Len(hints) : hints[i] # "entry",
         NEW starts \in Seq(Seq(Instruction)), Len(starts) =< Len(hints),
         blocks' = L!Grown(code, hints, starts), uses' = L!Counted(hints),
         GoodCode(code, Names(blocks')),
         \A i \in 1 .. Len(starts) : starts[i] = <<>> \/ GoodCode(starts[i], Names(blocks')),
         current' \in {current} \cup (Len(blocks) + 1) .. (Len(blocks) + Len(hints)),
         loops' \in Seq(Places(Names(blocks'))), loops' # <<>>,
         UNCHANGED <<defers, closing>>,
         NEW Q, Q = P \cup (Waits(Len(blocks), hints, starts) \ {current'}),
         NEW tasks, todo' = tasks \o Tail(todo), NEW g \in Flags, Knows(g)',
         Reads(F, W, Names(blocks'), tasks, Point(g, Len(loops') - 1, Q), Point(f, Len(loops) - 1, P))
  PROVE  LowInv(F, W)'
<1>0. Adds(blocks', code, hints, starts)
  BY DEF Adds
<1>1. Shaped(blocks) /\ Counts /\ Written(blocks, current, P) /\ current \in 1 .. Len(blocks)
  BY DEF Framed, Behind, Written
<1>2. OpenCode(blocks[current].code)
  BY <1>1, ContinuesIsOpen
<1>3. Shaped(blocks') /\ Names(blocks) \subseteq Names(blocks')
  BY ONLY <1>0, <1>1, GrownFacts
<1>4. Written(blocks', current', Q)
  BY <1>0, <1>1, <1>2, GrownWritten
<1>5. Counts'
  BY <1>1, CountedType
<1>6. Framed(W)'
  BY <1>3, <1>5 DEF Framed
<1>7. Q \in SUBSET Nat
  BY <1>3, <1>4, FunctionFacts DEF Written, Shaped
<1> QED BY <1>3, <1>4, <1>6, <1>7, GoesOn

(* The labels of new blocks, and that a loop may be left to them. *)
LEMMA GrowLabels ==
  ASSUME NEW W, Framed(W), NEW P, Written(blocks, current, P),
         NEW code, NEW hints, NEW starts, NEW bs, Adds(bs, code, hints, starts)
  PROVE  /\ \A i \in 1 .. Len(hints) : L!NewLabels(hints)[i] \in Names(bs)
         /\ Names(bs) \subseteq Label
         /\ loops \in Seq(Places(Names(bs))) /\ loops # <<>>
         /\ \A x, y \in Names(bs) :
              /\ Append(loops, [cont |-> x, brk |-> y]) \in Seq(Places(Names(bs)))
              /\ Append(loops, [cont |-> x, brk |-> y]) # <<>>
              /\ Len(Append(loops, [cont |-> x, brk |-> y])) = Len(loops) + 1
<1>1. /\ \A i \in 1 .. Len(hints) : L!NewLabels(hints)[i] \in Names(bs)
      /\ Shaped(bs) /\ Names(blocks) \subseteq Names(bs)
  <2>1. Shaped(blocks) /\ Counts /\ current \in 1 .. Len(blocks)
    BY DEF Framed, Written
  <2> QED BY <2>1, GrownFacts
<1>2. Names(bs) \subseteq Label
  BY <1>1, NamesFacts DEF Shaped
<1>3. loops \in Seq(Places(Names(bs))) /\ loops # <<>>
  BY <1>1, PlacesMore DEF Framed
<1>4. ASSUME NEW x \in Names(bs), NEW y \in Names(bs)
      PROVE  /\ Append(loops, [cont |-> x, brk |-> y]) \in Seq(Places(Names(bs)))
             /\ Append(loops, [cont |-> x, brk |-> y]) # <<>>
             /\ Len(Append(loops, [cont |-> x, brk |-> y])) = Len(loops) + 1
  <2> DEFINE p == [cont |-> x, brk |-> y]
             V == Places(Names(bs))
             more == Append(loops, p)
  <2>1. p \in V
    BY DEF Places
  <2> HIDE DEF p, V
  <2>2. more \in Seq(V) /\ Len(more) = Len(loops) + 1
    BY <1>3, <2>1, AppendProperties DEF V
  <2>3. Len(loops) \in Nat
    BY <1>3, LenProperties
  <2> HIDE DEF more
  <2>4. more # <<>>
    BY <2>2, <2>3, EmptySeq
  <2> QED BY <2>2, <2>4 DEF p, V, more
<1> QED BY <1>1, <1>2, <1>3, <1>4

(* Which of the new blocks wait to be entered. *)
LEMMA WaitsOf ==
  ASSUME NEW n \in Nat, NEW hints \in Seq(STRING)
  PROVE  /\ Waits(n, hints, <<>>) = n + 1 .. n + Len(hints)
         /\ \A s : s # <<>> => Waits(n, hints, <<s>>) = n + 2 .. n + Len(hints)
<1> DEFINE k == Len(hints)
<1>1. k \in Nat
  BY LenProperties
<1> HIDE DEF k
<1>2. \A i \in n + 1 .. n + k : i - n \in 1 .. k /\ i = n + (i - n)
  BY <1>1
<1>3. \A j \in 1 .. k : n + j \in n + 1 .. n + k
  BY <1>1
<1>4. Waits(n, hints, <<>>) = n + 1 .. n + k
  <2> DEFINE e == <<>>
  <2>1. Len(e) = 0
    OBVIOUS
  <2> HIDE DEF e
  <2>2. {j \in 1 .. k : j > Len(e) \/ e[j] = <<>>} = 1 .. k
    BY <2>1, <1>1
  <2>3. Waits(n, hints, e) = {n + i : i \in 1 .. k}
    BY <2>2 DEF Waits, k
  <2>4. Waits(n, hints, e) = n + 1 .. n + k
    BY <2>3, <1>2, <1>3
  <2> QED BY <2>4 DEF e
<1>5. ASSUME NEW s, s # <<>> PROVE Waits(n, hints, <<s>>) = n + 2 .. n + k
  <2> DEFINE e == <<s>>
             none == <<>>
  <2>1. Len(e) = 1 /\ e[1] = s
    OBVIOUS
  <2> HIDE DEF e
  <2>2. {j \in 1 .. k : j > Len(e) \/ e[j] = none} = 2 .. k
    <3>1. s # none
      BY <1>5
    <3> HIDE DEF none
    <3>2. \A j \in 1 .. k : (j > Len(e) \/ e[j] = none) <=> j \in 2 .. k
      <4> TAKE j \in 1 .. k
      <4>1. CASE j = 1
        BY <4>1, <3>1, <2>1
      <4>2. CASE j # 1
        BY <4>2, <2>1, <1>1
      <4> QED BY <4>1, <4>2
    <3>3. 2 .. k \subseteq 1 .. k
      BY <1>1
    <3> QED BY <3>2, <3>3
  <2>3. Waits(n, hints, e) = {n + i : i \in 2 .. k}
    BY <2>2 DEF Waits, k
  <2>4. \A i \in n + 2 .. n + k : i - n \in 2 .. k /\ i = n + (i - n)
    BY <1>1
  <2>5. \A j \in 2 .. k : n + j \in n + 2 .. n + k
    BY <1>1
  <2>6. Waits(n, hints, e) = n + 2 .. n + k
    BY <2>3, <2>4, <2>5
  <2> QED BY <2>6 DEF e
<1> QED BY <1>4, <1>5 DEF k

(* A body between two places, with the jump behind it. *)
LEMMA SealedBody ==
  ASSUME NEW F, NEW W, W \subseteq F, NEW T, T \subseteq Label, NEW body \in Seq(F), NEW l \in T,
         NEW n \in Nat, NEW P \in SUBSET Nat
  PROVE  Reads(F, W, T, L!Stmts(body) \o L!Seal(<<L!Jump(l)>>), Point("any", n, P), Point("ended", n, P))
<1>1. L!Jump(l) = Jump(l) /\ <<Jump(l)>> \in Seq(Instruction) /\ GoodCode(<<Jump(l)>>, T)
  BY SameWords, GoodEndings
<1>2. Reads(F, W, T, L!Stmts(body), Point("any", n, P), Point("any", n, P))
  BY ReadsStmts
<1>3. Reads(F, W, T, L!Seal(<<L!Jump(l)>>), Point("any", n, P), Point("ended", n, P))
  BY <1>1, ReadsSeal DEF Flags
<1> QED BY <1>2, <1>3, ReadsJoin

LEMMA BlockCounts ==
  ASSUME NEW W, Framed(W), NEW P, Written(blocks, current, P)
  PROVE  Len(blocks) \in Nat \ {0} /\ P \subseteq 1 .. Len(blocks) /\ current \in 1 .. Len(blocks)
BY FunctionFacts DEF Framed, Shaped, Written

LEMMA IfStep ==
  ASSUME NEW F, NEW W, Handled(F, W), LowInv(F, W), L!LowerIf
  PROVE  LowInv(F, W)'
<1> DEFINE n == Len(blocks)
           d == Len(loops) - 1
           T == Names(blocks')
           hasElse == L!S.other # <<>>
           hints == IF hasElse THEN <<"then", "else", "merge">> ELSE <<"then", "merge">>
           k == Len(hints)
           l == L!NewLabels(hints)
           code == <<Condi(L!S.name, l[1], l[2])>>
           else == IF hasElse THEN L!Enter(n + 2) \o L!Stmts(L!S.other) \o L!Seal(<<L!Jump(l[k])>>)
                              ELSE <<>>
           tasks == L!Stmts(L!S.body) \o L!Seal(<<L!Jump(l[k])>>) \o else \o L!Enter(n + k)
           none == <<>>
<1>1. PICK f, P, q : Behind(F, W, f, P, q)
  BY StatementAhead DEF L!LowerIf, L!Stmt
<1>2. L!S \in F /\ L!Continues /\ Framed(W)
  BY StatementAhead DEF L!LowerIf, L!Stmt, LowInv
<1>3. /\ W \subseteq F /\ L!S.body \in Seq(F) /\ L!S.other \in Seq(F) /\ L!S.name \in Operand
  BY <1>2, HandledFacts DEF Operand
<1>4. /\ blocks' = L!Grown(code, hints, none) /\ uses' = L!Counted(hints) /\ current' = n + 1
      /\ todo' = tasks \o Tail(todo) /\ UNCHANGED <<loops, defers, closing>>
  BY SameWords, Zenon DEF L!LowerIf, L!Then
<1>5. /\ hints \in Seq(STRING) /\ k \in {2, 3} /\ \A i \in 1 .. k : hints[i] # "entry"
      /\ hasElse => k = 3
      /\ ~hasElse => k = 2
  <2> DEFINE three == <<"then", "else", "merge">>
             two == <<"then", "merge">>
  <2>1. three \in Seq(STRING) /\ Len(three) = 3 /\ \A i \in 1 .. 3 : three[i] # "entry"
    BY NameAssumption
  <2>2. two \in Seq(STRING) /\ Len(two) = 2 /\ \A i \in 1 .. 2 : two[i] # "entry"
    BY NameAssumption
  <2>3. CASE hasElse
    BY <2>1, <2>3
  <2>4. CASE ~hasElse
    BY <2>2, <2>4
  <2> QED BY <2>3, <2>4
<1>6. n \in Nat \ {0} /\ P \subseteq 1 .. n /\ current \in 1 .. n /\ d \in Nat
  BY <1>1, <1>2, BlockCounts, DepthOfLoops DEF Behind
<1>7. none \in Seq(Seq(Instruction)) /\ Len(none) = 0
  OBVIOUS
<1> HIDE DEF hints, n, none
<1>8. code \in Seq(Instruction) /\ GoodCode(code, T) /\ T \subseteq Label /\ l[k] \in T
      /\ loops \in Seq(Places(T)) /\ loops # <<>>
  <2>1. \A i \in 1 .. k : l[i] \in Label
    BY <1>2, <1>5, NewLabelsType DEF Framed
  <2>2. 1 \in 1 .. k /\ 2 \in 1 .. k /\ k \in 1 .. k
    <3>1. k \in {2, 3}
      BY <1>5
    <3> HIDE DEF k
    <3> QED BY <3>1
  <2>3. code \in Seq(Instruction)
    BY <1>3, <2>1, <2>2, GoodEndings
  <2> HIDE DEF l, k
  <2>4. /\ \A i \in 1 .. k : l[i] \in T
        /\ T \subseteq Label /\ loops \in Seq(Places(T)) /\ loops # <<>>
    <3>1. Len(none) =< Len(hints)
      BY <1>5, <1>7 DEF k
    <3> HIDE DEF code
    <3>2. Adds(blocks', code, hints, none)
      BY <1>4, <1>5, <1>7, <2>3, <3>1 DEF Adds, k
    <3>3. Framed(W) /\ Written(blocks, current, P)
      BY <1>1, <1>2 DEF Behind
    <3> HIDE DEF T
    <3> QED BY ONLY <3>2, <3>3, GrowLabels DEF l, k, T
  <2> QED BY <1>3, <2>2, <2>3, <2>4, GoodEndings
<1> HIDE DEF T
<1> DEFINE Q == P \cup (Waits(n, hints, none) \ {n + 1})
<1>9. Q = P \cup (n + 2 .. n + k)
  <2>1. Waits(n, hints, none) = n + 1 .. n + k
    BY <1>5, <1>6, WaitsOf DEF none
  <2>2. (n + 1 .. n + k) \ {n + 1} = n + 2 .. n + k
    BY <1>5, <1>6
  <2> QED BY <2>1, <2>2
<1>10. Q \in SUBSET Nat /\ P \in SUBSET Nat /\ n + 2 \in Q /\ n + k \in Q
       /\ (hasElse => (Q \ {n + 2}) \ {n + k} = P /\ n + k \in Q \ {n + 2})
       /\ (~hasElse => Q \ {n + k} = P)
  <2>1. k \in {2, 3} /\ (hasElse => k = 3) /\ (~hasElse => k = 2)
    BY <1>5
  <2> HIDE DEF Q, k, hasElse
  <2>2. Q = P \cup (n + 2 .. n + k) /\ P \subseteq 1 .. n
    BY <1>6, <1>9
  <2>3. CASE k = 2
    <3>1. n + 2 .. n + k = {n + 2} /\ n + 2 \notin P
      BY <1>6, <2>2, <2>3
    <3>2. Q \ {n + k} = P
      BY <2>2, <2>3, <3>1
    <3> QED BY <1>6, <2>1, <2>2, <2>3, <3>1, <3>2
  <2>4. CASE k = 3
    <3>1. n + 2 .. n + k = {n + 2, n + 3} /\ n + 2 \notin P /\ n + 3 \notin P /\ n + 2 # n + 3
      BY <1>6, <2>2, <2>4
    <3>2. (Q \ {n + 2}) \ {n + k} = P
      BY <2>2, <2>4, <3>1
    <3>3. n + 2 \in Q /\ n + k \in Q
      BY <2>2, <2>4, <3>1
    <3>4. n + k \in Q \ {n + 2}
      BY <3>1, <3>3, <2>4
    <3>5. Q \in SUBSET Nat /\ P \in SUBSET Nat
      BY <1>6, <2>2, <2>4, <3>1
    <3> QED BY <2>1, <2>4, <3>2, <3>3, <3>4, <3>5
  <2> QED BY <2>1, <2>3, <2>4
<1> HIDE DEF Q, k
<1>11. f \in {"open", "any"}
  BY <1>1 DEF Behind
<1>12. Reads(F, W, T, L!Stmts(L!S.body) \o L!Seal(<<L!Jump(l[k])>>), Point("any", d, Q), Point("ended", d, Q))
  BY <1>3, <1>6, <1>8, <1>10, SealedBody
<1> HIDE DEF d, l
<1>13. Reads(F, W, T, tasks, Point("any", d, Q), Point(f, d, P))
  <2>1. CASE hasElse
    <3> DEFINE R == Q \ {n + 2}
    <3>1. R \in SUBSET Nat /\ n + k \in R /\ R \ {n + k} = P
      BY <1>10, <2>1
    <3>2. Reads(F, W, T, L!Enter(n + 2), Point("ended", d, Q), Point("any", d, R))
      BY <1>6, <1>10, ReadsEnter
    <3> HIDE DEF R
    <3>3. Reads(F, W, T, L!Stmts(L!S.other), Point("any", d, R), Point("any", d, R))
      BY <1>3, <1>6, <3>1, ReadsStmts
    <3>4. Reads(F, W, T, L!Seal(<<L!Jump(l[k])>>), Point("any", d, R), Point("ended", d, R))
      <4>1. L!Jump(l[k]) = Jump(l[k]) /\ <<Jump(l[k])>> \in Seq(Instruction) /\ GoodCode(<<Jump(l[k])>>, T)
        BY <1>8, SameWords, GoodEndings
      <4> QED BY <1>6, <3>1, <4>1, ReadsSeal DEF Flags
    <3>5. Reads(F, W, T, L!Enter(n + k), Point("ended", d, R), Point(f, d, P))
      BY <1>6, <1>11, <3>1, ReadsEnter
    <3>6. else = L!Enter(n + 2) \o L!Stmts(L!S.other) \o L!Seal(<<L!Jump(l[k])>>)
      BY <2>1
    <3>7. Reads(F, W, T, else, Point("ended", d, Q), Point("ended", d, R))
      BY <3>2, <3>3, <3>4, <3>6, ReadsJoin
    <3> HIDE DEF else
    <3>8. Reads(F, W, T, (L!Stmts(L!S.body) \o L!Seal(<<L!Jump(l[k])>>)) \o else,
                Point("any", d, Q), Point("ended", d, R))
      BY ONLY <1>12, <3>7, ReadsJoin
    <3> QED BY ONLY <3>5, <3>8, ReadsJoin
  <2>2. CASE ~hasElse
    <3>1. Reads(F, W, T, L!Enter(n + k), Point("ended", d, Q), Point(f, d, P))
      BY <1>6, <1>10, <1>11, <2>2, ReadsEnter
    <3>2. Point("ended", d, Q) \in Points
      BY <1>6, <1>10, PointType DEF Flags
    <3>3. else = <<>>
      BY <2>2
    <3>4. Reads(F, W, T, else, Point("ended", d, Q), Point("ended", d, Q))
      BY <3>2, <3>3, ReadsNone
    <3> HIDE DEF else
    <3>5. Reads(F, W, T, (L!Stmts(L!S.body) \o L!Seal(<<L!Jump(l[k])>>)) \o else,
                Point("any", d, Q), Point("ended", d, Q))
      BY ONLY <1>12, <3>4, ReadsJoin
    <3> QED BY ONLY <3>1, <3>5, ReadsJoin
  <2> QED BY <2>1, <2>2
<1> HIDE DEF tasks, code
<1>14. /\ Len(none) =< Len(hints) /\ current' \in {current} \cup (n + 1) .. (n + Len(hints))
       /\ \A i \in 1 .. Len(none) : none[i] = <<>> \/ GoodCode(none[i], T)
  <2>1. Len(hints) \in {2, 3} /\ n \in Nat
    BY ONLY <1>5, <1>6 DEF k
  <2>2. current' \in (n + 1) .. (n + Len(hints))
    BY ONLY <1>4, <2>1
  <2> QED BY ONLY <1>7, <2>1, <2>2
<1>15. "any" \in Flags /\ Knows("any")'
  BY DEF Flags, Knows
<1>16. \A i \in 1 .. Len(hints) : hints[i] # "entry"
  BY <1>5 DEF k
<1>17. Q = P \cup (Waits(Len(blocks), hints, none) \ {current'})
  BY <1>4 DEF Q, n
<1> QED BY <1>1, <1>2, <1>4, <1>5, <1>7, <1>8, <1>13, <1>14, <1>15, <1>16, <1>17, GrowStep DEF n, T, d

(* The two loops with a test of their own: the body, and what closes it, takes the
   labels of the three new blocks for granted. *)
LEMMA TestedLoop ==
  ASSUME NEW F, NEW W, NEW f, NEW P, NEW q, Behind(F, W, f, P, q), Framed(W), L!Continues,
         NEW hints \in Seq(STRING), Len(hints) = 3, \A i \in 1 .. 3 : hints[i] # "entry",
         NEW l, l = L!NewLabels(hints),
         NEW cond \in Operand, NEW code, NEW body,
         \A T : T \subseteq Label /\ l[1] \in T =>
           /\ code \in Seq(Instruction) /\ GoodCode(code, T)
           /\ \A m \in Nat : \A R \in SUBSET Nat :
                Reads(F, W, T, body, Point("any", m + 1, R), Point("ended", m, R)),
         blocks' = L!Grown(code, hints, <<<<Condi(cond, l[2], l[3])>>>>),
         uses' = L!Counted(hints), current' = Len(blocks) + 2,
         loops' = Append(loops, [cont |-> l[1], brk |-> l[3]]),
         todo' = (body \o L!Enter(Len(blocks) + 3)) \o Tail(todo), UNCHANGED <<defers, closing>>
  PROVE  LowInv(F, W)'
<1> DEFINE n == Len(blocks)
           d == Len(loops) - 1
           T == Names(blocks')
           test == <<Condi(cond, l[2], l[3])>>
           starts == <<test>>
           Q == P \cup (Waits(n, hints, starts) \ {n + 2})
           tasks == body \o L!Enter(n + 3)
<1>1. n \in Nat \ {0} /\ P \subseteq 1 .. n /\ current \in 1 .. n /\ d \in Nat
  BY BlockCounts, DepthOfLoops DEF Behind
<1>2. l[1] \in Label /\ l[2] \in Label /\ l[3] \in Label
  BY NewLabelsType DEF Framed
<1>3. code \in Seq(Instruction) /\ test \in Seq(Instruction)
  BY <1>2, GoodEndings
<1>4. starts \in Seq(Seq(Instruction)) /\ Len(starts) = 1 /\ starts[1] = test /\ test # <<>>
  <2>1. Len(test) = 1 /\ Len(<<>>) = 0
    OBVIOUS
  <2>2. test # <<>>
    BY <2>1
  <2> HIDE DEF test
  <2> QED BY <1>3, <2>2
<1> HIDE DEF test, starts, n
<1>5. /\ l[1] \in T /\ l[2] \in T /\ l[3] \in T /\ T \subseteq Label
      /\ loops' \in Seq(Places(T)) /\ loops' # <<>> /\ Len(loops') = Len(loops) + 1
  <2>1. blocks' = L!Grown(code, hints, starts)
    BY DEF starts, test
  <2>2. /\ \A i \in 1 .. Len(hints) : L!NewLabels(hints)[i] \in T
        /\ T \subseteq Label
        /\ \A x, y \in T : /\ Append(loops, [cont |-> x, brk |-> y]) \in Seq(Places(T))
                           /\ Append(loops, [cont |-> x, brk |-> y]) # <<>>
                           /\ Len(Append(loops, [cont |-> x, brk |-> y])) = Len(loops) + 1
    <3>1. Len(starts) =< Len(hints) /\ \A i \in 1 .. Len(hints) : hints[i] # "entry"
      BY <1>4
    <3>2. Framed(W) /\ Written(blocks, current, P) /\ hints \in Seq(STRING)
      BY DEF Behind
    <3>3. Adds(blocks', code, hints, starts)
      BY ONLY <1>3, <1>4, <2>1, <3>1, <3>2 DEF Adds
    <3> HIDE DEF T
    <3> QED BY ONLY <3>2, <3>3, GrowLabels DEF T
  <2>3. l[1] \in T /\ l[2] \in T /\ l[3] \in T
    BY <2>2
  <2> HIDE DEF T
  <2> QED BY <2>2, <2>3
<1> HIDE DEF T
<1>6. GoodCode(code, T) /\ GoodCode(test, T)
  BY <1>5, GoodEndings DEF test
<1>7. Q \in SUBSET Nat /\ P \in SUBSET Nat /\ n + 3 \in Q /\ Q \ {n + 3} = P
  <2>1. Waits(n, hints, starts) = n + 2 .. n + 3
    BY <1>1, <1>4, WaitsOf DEF starts
  <2>2. (n + 2 .. n + 3) \ {n + 2} = {n + 3} /\ n + 3 \notin P
    BY <1>1
  <2> QED BY <1>1, <2>1, <2>2
<1>8. Reads(F, W, T, body, Point("any", d + 1, Q), Point("ended", d, Q))
  BY <1>1, <1>5, <1>7
<1> HIDE DEF Q
<1>9. f \in {"open", "any"}
  BY DEF Behind
<1>10. Reads(F, W, T, L!Enter(n + 3), Point("ended", d, Q), Point(f, d, P))
  BY <1>1, <1>7, <1>9, ReadsEnter
<1>11. Reads(F, W, T, tasks, Point("any", Len(loops') - 1, Q), Point(f, Len(loops) - 1, P))
  <2>1. Len(loops') - 1 = d + 1
    <3>1. Len(loops) \in Nat
      BY DepthOfLoops
    <3> QED BY <3>1, <1>5
  <2> HIDE DEF d
  <2>2. Reads(F, W, T, tasks, Point("any", d + 1, Q), Point(f, d, P))
    BY <1>8, <1>10, ReadsJoin
  <2> QED BY <2>1, <2>2 DEF d
<1> HIDE DEF tasks
<1>12. /\ Len(starts) =< Len(hints) /\ current' \in {current} \cup (n + 1) .. (n + Len(hints))
       /\ \A i \in 1 .. Len(starts) : starts[i] = <<>> \/ GoodCode(starts[i], T)
  <2>1. \A i \in 1 .. Len(starts) : starts[i] = test
    BY <1>4
  <2> QED BY <1>1, <1>4, <1>6, <2>1 DEF n
<1>13. "any" \in Flags /\ Knows("any")'
  BY DEF Flags, Knows
<1>14. /\ Q = P \cup (Waits(Len(blocks), hints, starts) \ {current'})
       /\ blocks' = L!Grown(code, hints, starts) /\ todo' = tasks \o Tail(todo)
  BY DEF Q, n, starts, test, tasks
<1> QED BY <1>3, <1>4, <1>5, <1>6, <1>11, <1>12, <1>13, <1>14, GrowStep DEF n, T

LEMMA WhileStep ==
  ASSUME NEW F, NEW W, Handled(F, W), LowInv(F, W), L!LowerWhile
  PROVE  LowInv(F, W)'
<1> DEFINE hints == <<"while_cond", "while_body", "while_end">>
           l == L!NewLabels(hints)
           code == <<Jump(l[1])>>
           body == L!Stmts(L!S.body) \o L!PopLoop \o L!Seal(<<L!Jump(l[1])>>)
<1>1. PICK f, P, q : Behind(F, W, f, P, q)
  BY StatementAhead DEF L!LowerWhile, L!Stmt
<1>2. L!S \in F /\ L!Continues /\ Framed(W)
  BY StatementAhead DEF L!LowerWhile, L!Stmt, LowInv
<1>3. /\ W \subseteq F /\ L!S.body \in Seq(F) /\ L!S.name \in Operand /\ L!S.kind \in Kinds
  BY <1>2, HandledFacts DEF Operand
<1>4. L!S.kind = "while"
  BY <1>3 DEF L!LowerWhile, L!Stmt, L!S, Kinds
<1>5. /\ blocks' = L!Grown(code, hints, <<<<Condi(L!S.name, l[2], l[3])>>>>)
      /\ uses' = L!Counted(hints) /\ current' = Len(blocks) + 2
      /\ loops' = Append(loops, [cont |-> l[1], brk |-> l[3]])
      /\ todo' = (body \o L!Enter(Len(blocks) + 3)) \o Tail(todo)
      /\ UNCHANGED <<defers, closing>>
  BY <1>4, SameWords, Zenon DEF L!LowerWhile, L!Then
<1>6. hints \in Seq(STRING) /\ Len(hints) = 3 /\ \A i \in 1 .. 3 : hints[i] # "entry"
  BY NameAssumption
<1> HIDE DEF hints
<1>7. ASSUME NEW T, T \subseteq Label, l[1] \in T
      PROVE  /\ code \in Seq(Instruction) /\ GoodCode(code, T)
             /\ \A m \in Nat : \A R \in SUBSET Nat :
                  Reads(F, W, T, body, Point("any", m + 1, R), Point("ended", m, R))
  <2> HIDE DEF l
  <2>1. L!Jump(l[1]) = Jump(l[1]) /\ code \in Seq(Instruction) /\ GoodCode(code, T)
    BY <1>7, SameWords, GoodEndings
  <2>2. ASSUME NEW m \in Nat, NEW R \in SUBSET Nat
        PROVE  Reads(F, W, T, body, Point("any", m + 1, R), Point("ended", m, R))
    <3>0. m + 1 \in Nat
      OBVIOUS
    <3>1. Reads(F, W, T, L!Stmts(L!S.body), Point("any", m + 1, R), Point("any", m + 1, R))
      BY <1>3, <3>0, ReadsStmts
    <3>2. Reads(F, W, T, L!PopLoop, Point("any", m + 1, R), Point("any", m, R))
      BY ReadsPop DEF Flags
    <3>3. Reads(F, W, T, L!Seal(<<L!Jump(l[1])>>), Point("any", m, R), Point("ended", m, R))
      BY <2>1, ReadsSeal DEF Flags
    <3> QED BY <3>1, <3>2, <3>3, ReadsJoin
  <2> QED BY <2>1, <2>2
<1> HIDE DEF code, body
<1>8. \A T : T \subseteq Label /\ l[1] \in T =>
        /\ code \in Seq(Instruction) /\ GoodCode(code, T)
        /\ \A m \in Nat : \A R \in SUBSET Nat :
             Reads(F, W, T, body, Point("any", m + 1, R), Point("ended", m, R))
  BY <1>7
<1> HIDE DEF l
<1> QED BY <1>1, <1>2, <1>3, <1>5, <1>6, <1>8, TestedLoop DEF l

LEMMA ForInStep ==
  ASSUME NEW F, NEW W, Handled(F, W), LowInv(F, W), L!LowerForIn
  PROVE  LowInv(F, W)'
<1> DEFINE hints == <<"for_cond", "for_body", "for_end">>
           l == L!NewLabels(hints)
           first == <<"init">> \o L!S.name
           cond == <<"more">> \o L!S.name
           step == <<"step">> \o L!S.name
           code == <<Call(first), Jump(l[1])>>
           body == L!Stmts(L!S.body) \o L!Seal(<<L!Call(step), L!Jump(l[1])>>) \o L!PopLoop
<1>1. PICK f, P, q : Behind(F, W, f, P, q)
  BY StatementAhead DEF L!LowerForIn, L!Stmt
<1>2. L!S \in F /\ L!Continues /\ Framed(W)
  BY StatementAhead DEF L!LowerForIn, L!Stmt, LowInv
<1>3. /\ W \subseteq F /\ L!S.body \in Seq(F) /\ L!S.name \in Seq(STRING)
  BY <1>2, HandledFacts
<1>4. first \in Seq(STRING) /\ cond \in Operand /\ step \in Seq(STRING)
  <2>1. <<"init">> \in Seq(STRING) /\ <<"more">> \in Seq(STRING) /\ <<"step">> \in Seq(STRING)
    BY NameAssumption
  <2>2. \A x, y \in Seq(STRING) : x \o y \in Seq(STRING)
    OBVIOUS
  <2>3. first \in Seq(STRING) /\ cond \in Seq(STRING) /\ step \in Seq(STRING)
    BY <1>3, <2>1, <2>2
  <2> QED BY <2>3 DEF Operand
<1>5. /\ blocks' = L!Grown(code, hints, <<<<Condi(cond, l[2], l[3])>>>>)
      /\ uses' = L!Counted(hints) /\ current' = Len(blocks) + 2
      /\ loops' = Append(loops, [cont |-> l[1], brk |-> l[3]])
      /\ todo' = (body \o L!Enter(Len(blocks) + 3)) \o Tail(todo)
      /\ UNCHANGED <<defers, closing>>
  BY SameWords, Zenon DEF L!LowerForIn, L!Then
<1>6. hints \in Seq(STRING) /\ Len(hints) = 3 /\ \A i \in 1 .. 3 : hints[i] # "entry"
  BY NameAssumption
<1> HIDE DEF hints, first, cond, step
<1>7. ASSUME NEW T, T \subseteq Label, l[1] \in T
      PROVE  /\ code \in Seq(Instruction) /\ GoodCode(code, T)
             /\ \A m \in Nat : \A R \in SUBSET Nat :
                  Reads(F, W, T, body, Point("any", m + 1, R), Point("ended", m, R))
  <2> HIDE DEF l
  <2>1. code \in Seq(Instruction) /\ GoodCode(code, T)
    BY <1>4, <1>7, GoodEndings
  <2> DEFINE back == <<L!Call(step), L!Jump(l[1])>>
  <2>2. back \in Seq(Instruction) /\ GoodCode(back, T)
    <3>1. back = <<Call(step), Jump(l[1])>>
      BY SameWords
    <3> HIDE DEF back
    <3> QED BY <1>4, <1>7, <3>1, GoodEndings
  <2> HIDE DEF back, code
  <2>3. ASSUME NEW m \in Nat, NEW R \in SUBSET Nat
        PROVE  Reads(F, W, T, body, Point("any", m + 1, R), Point("ended", m, R))
    <3>0. m + 1 \in Nat
      OBVIOUS
    <3>1. Reads(F, W, T, L!Stmts(L!S.body), Point("any", m + 1, R), Point("any", m + 1, R))
      BY <1>3, <3>0, ReadsStmts
    <3>2. Reads(F, W, T, L!Seal(back), Point("any", m + 1, R), Point("ended", m + 1, R))
      BY <2>2, <3>0, ReadsSeal DEF Flags
    <3>3. Reads(F, W, T, L!PopLoop, Point("ended", m + 1, R), Point("ended", m, R))
      BY ReadsPop DEF Flags
    <3> QED BY <3>1, <3>2, <3>3, ReadsJoin DEF back
  <2> QED BY <2>1, <2>3
<1> HIDE DEF code, body
<1>8. \A T : T \subseteq Label /\ l[1] \in T =>
        /\ code \in Seq(Instruction) /\ GoodCode(code, T)
        /\ \A m \in Nat : \A R \in SUBSET Nat :
             Reads(F, W, T, body, Point("any", m + 1, R), Point("ended", m, R))
  BY <1>7
<1> HIDE DEF l
<1> QED BY <1>1, <1>2, <1>4, <1>5, <1>6, <1>8, TestedLoop DEF l

LEMMA LoopStep ==
  ASSUME NEW F, NEW W, Handled(F, W), LowInv(F, W), L!LowerLoop
  PROVE  LowInv(F, W)'
<1> DEFINE n == Len(blocks)
           d == Len(loops) - 1
           T == Names(blocks')
           hints == <<"loop_body", "loop_end">>
           l == L!NewLabels(hints)
           code == <<Jump(l[1])>>
           none == <<>>
           tasks == L!Stmts(L!S.body) \o L!PopLoop \o L!Emit(<<L!Jump(l[1])>>) \o L!Enter(n + 2)
<1>1. PICK f, P, q : Behind(F, W, f, P, q)
  BY StatementAhead DEF L!LowerLoop, L!Stmt
<1>2. L!S \in F /\ L!Continues /\ Framed(W) /\ L!S.kind = "loop"
  BY StatementAhead DEF L!LowerLoop, L!Stmt, LowInv, L!S
<1>3. W \subseteq F /\ L!S.body \in Seq(W)
  BY <1>2, HandledFacts
<1>4. /\ blocks' = L!Grown(code, hints, none) /\ uses' = L!Counted(hints) /\ current' = n + 1
      /\ loops' = Append(loops, [cont |-> l[1], brk |-> l[2]])
      /\ todo' = tasks \o Tail(todo) /\ UNCHANGED <<defers, closing>>
  BY SameWords, Zenon DEF L!LowerLoop, L!Then
<1>5. hints \in Seq(STRING) /\ Len(hints) = 2 /\ \A i \in 1 .. Len(hints) : hints[i] # "entry"
  BY NameAssumption
<1>6. n \in Nat \ {0} /\ P \subseteq 1 .. n /\ current \in 1 .. n /\ d \in Nat
  BY <1>1, <1>2, BlockCounts, DepthOfLoops DEF Behind
<1>7. none \in Seq(Seq(Instruction)) /\ Len(none) = 0
  OBVIOUS
<1> HIDE DEF hints, n, none
<1>8. l[1] \in Label /\ l[2] \in Label
  <2>1. 1 \in 1 .. Len(hints) /\ 2 \in 1 .. Len(hints)
    BY <1>5
  <2> QED BY <1>2, <1>5, <2>1, NewLabelsType DEF Framed
<1>9. code \in Seq(Instruction)
  BY <1>8, GoodEndings
<1> HIDE DEF code
<1>10. /\ l[1] \in T /\ l[2] \in T /\ T \subseteq Label
       /\ loops' \in Seq(Places(T)) /\ loops' # <<>> /\ Len(loops') = Len(loops) + 1
  <2>1. Len(none) =< Len(hints)
    BY <1>5, <1>7
  <2>2. Written(blocks, current, P)
    BY <1>1 DEF Behind
  <2> HIDE DEF T
  <2>3. /\ \A i \in 1 .. Len(hints) : L!NewLabels(hints)[i] \in T
        /\ T \subseteq Label
        /\ \A x, y \in T : /\ Append(loops, [cont |-> x, brk |-> y]) \in Seq(Places(T))
                           /\ Append(loops, [cont |-> x, brk |-> y]) # <<>>
                           /\ Len(Append(loops, [cont |-> x, brk |-> y])) = Len(loops) + 1
    <3>1. Adds(blocks', code, hints, none)
      BY ONLY <1>4, <1>5, <1>7, <1>9, <2>1 DEF Adds
    <3> QED BY ONLY <1>2, <2>2, <3>1, GrowLabels DEF T
  <2>4. l[1] \in T /\ l[2] \in T
    BY <1>5, <2>3
  <2> QED BY <1>4, <2>3, <2>4
<1> HIDE DEF T
<1>11. L!Jump(l[1]) = Jump(l[1]) /\ GoodCode(code, T)
  BY <1>10, SameWords, GoodEndings DEF code
<1> DEFINE Q == P \cup (Waits(n, hints, none) \ {n + 1})
<1>12. Q \in SUBSET Nat /\ P \in SUBSET Nat /\ n + 2 \in Q /\ Q \ {n + 2} = P
  <2>1. Waits(n, hints, none) = n + 1 .. n + 2
    BY <1>5, <1>6, WaitsOf DEF none
  <2>2. (n + 1 .. n + 2) \ {n + 1} = {n + 2} /\ n + 2 \notin P
    BY <1>6
  <2> QED BY <1>6, <2>1, <2>2
<1> HIDE DEF Q
<1>13. f \in {"open", "any"}
  BY <1>1 DEF Behind
<1>14. Reads(F, W, T, tasks, Point("open", Len(loops') - 1, Q), Point(f, Len(loops) - 1, P))
  <2>1. Len(loops') - 1 = d + 1
    <3>1. Len(loops) \in Nat
      BY <1>2, DepthOfLoops
    <3> QED BY <3>1, <1>10
  <2> HIDE DEF d
  <2>2. d + 1 \in Nat
    BY <1>6
  <2>3. Reads(F, W, T, L!Stmts(L!S.body), Point("open", d + 1, Q), Point("open", d + 1, Q))
    BY <1>3, <1>12, <2>2, ReadsStmts
  <2>4. Reads(F, W, T, L!PopLoop, Point("open", d + 1, Q), Point("open", d, Q))
    BY <1>6, <1>12, ReadsPop DEF Flags
  <2>5. Reads(F, W, T, L!Emit(<<L!Jump(l[1])>>), Point("open", d, Q), Point("ended", d, Q))
    BY <1>6, <1>9, <1>11, <1>12, ReadsEmit DEF code
  <2>6. Reads(F, W, T, L!Enter(n + 2), Point("ended", d, Q), Point(f, d, P))
    BY <1>6, <1>12, <1>13, ReadsEnter
  <2>7. Reads(F, W, T, tasks, Point("open", d + 1, Q), Point(f, d, P))
    BY <2>3, <2>4, <2>5, <2>6, ReadsJoin
  <2> QED BY <2>1, <2>7 DEF d
<1> HIDE DEF tasks
<1>15. /\ Len(none) =< Len(hints) /\ current' \in {current} \cup (n + 1) .. (n + Len(hints))
       /\ \A i \in 1 .. Len(none) : none[i] = <<>> \/ GoodCode(none[i], T)
  BY <1>4, <1>5, <1>6, <1>7
<1>16. "open" \in Flags /\ Knows("open")'
  <2>1. 1 \in 1 .. Len(hints) /\ Len(none) =< Len(hints) /\ ~(1 =< Len(none))
    BY <1>5, <1>7
  <2>2. Shaped(blocks) /\ Counts /\ current \in 1 .. Len(blocks)
    BY <1>1, <1>2 DEF Framed, Behind, Written
  <2>3. blocks'[Len(blocks) + 1].code = <<>>
    <3>1. Adds(blocks', code, hints, none)
      BY ONLY <1>4, <1>5, <1>7, <1>9, <2>1 DEF Adds
    <3> QED BY ONLY <2>1, <2>2, <3>1, GrownEmpty
  <2>4. blocks'[current'].code = <<>>
    BY <1>4, <2>3, Zenon DEF n
  <2>5. L!Continues'
    BY <2>4 DEF L!Continues
  <2>6. "open" # "ended"
    OBVIOUS
  <2> QED BY <2>5, <2>6 DEF Flags, Knows
<1>17. Q = P \cup (Waits(Len(blocks), hints, none) \ {current'})
  BY <1>4 DEF Q, n
<1> QED BY <1>1, <1>2, <1>4, <1>5, <1>7, <1>9, <1>10, <1>11, <1>14, <1>15, <1>16, <1>17, GrowStep DEF n, T

(* A switch: the hints of its blocks, its tests, and its bodies. *)
LEMMA SwitchHints ==
  ASSUME NEW k \in 1 .. (Len(CheckHint) + 1), NEW has \in {0, 1}, NEW hints,
         hints = <<"switch_end">> \o (IF has = 1 THEN <<"switch_default">> ELSE <<>>)
                   \o [i \in 1 .. k |-> "case"]
                   \o [i \in 1 .. (IF k = 0 THEN 0 ELSE k - 1) |-> CheckHint[k - i]]
  PROVE  /\ hints \in Seq(STRING) /\ Len(hints) = (1 + has + k) + (k - 1)
         /\ \A i \in 1 .. Len(hints) : hints[i] # "entry"
<1> DEFINE H == STRING \ {"entry"}
           a == <<"switch_end">>
           b == IF has = 1 THEN <<"switch_default">> ELSE <<>>
           c == [i \in 1 .. k |-> "case"]
           e == [i \in 1 .. (k - 1) |-> CheckHint[k - i]]
<1>1. CheckHint \in Seq(STRING) /\ Len(CheckHint) \in Nat /\ k \in Nat \ {0} /\ k - 1 \in Nat
  BY CheckAssumption
<1>2. a \in Seq(H) /\ Len(a) = 1
  <2>1. "switch_end" \in H
    BY NameAssumption
  <2> HIDE DEF H
  <2> QED BY <2>1
<1>3. b \in Seq(H) /\ Len(b) = has
  <2>1. "switch_default" \in H
    BY NameAssumption
  <2> HIDE DEF H
  <2> DEFINE x == <<"switch_default">>
             y == <<>>
  <2>2. x \in Seq(H) /\ Len(x) = 1 /\ y \in Seq(H) /\ Len(y) = 0
    BY <2>1
  <2>3. b = IF has = 1 THEN x ELSE y
    OBVIOUS
  <2> HIDE DEF x, y, b
  <2> QED BY <2>2, <2>3
<1>4. c \in Seq(H) /\ Len(c) = k
  <2>1. "case" \in H
    BY NameAssumption
  <2> HIDE DEF H
  <2> QED BY <1>1, <2>1
<1>5. e \in Seq(H) /\ Len(e) = k - 1
  <2>1. ASSUME NEW i \in 1 .. (k - 1) PROVE CheckHint[k - i] \in H
    <3>1. k - i \in 1 .. Len(CheckHint)
      BY <1>1
    <3>2. CheckHint[k - i] \in STRING /\ k - i \in DOMAIN CheckHint
      BY <1>1, <3>1, ElementOfSeq, LenProperties
    <3>3. CheckHint[k - i] \in Range(CheckHint)
      BY <3>2 DEF Range
    <3> QED BY <3>2, <3>3, CheckAssumption
  <2> HIDE DEF H
  <2> QED BY <1>1, <2>1
<1>6. hints = a \o b \o c \o e
  BY <1>1
<1> HIDE DEF a, b, c, e, H
<1> DEFINE ab == a \o b
           abc == ab \o c
<1>7. ab \in Seq(H) /\ Len(ab) = 1 + has
  <2>1. ab \in Seq(H) /\ Len(ab) = Len(a) + Len(b)
    BY ONLY <1>2, <1>3, Joined
  <2> QED BY <1>2, <1>3, <2>1
<1> HIDE DEF ab
<1>8. abc \in Seq(H) /\ Len(abc) = 1 + has + k
  <2>1. abc \in Seq(H) /\ Len(abc) = Len(ab) + Len(c)
    BY ONLY <1>4, <1>7, Joined
  <2> QED BY <1>4, <1>7, <2>1
<1> HIDE DEF abc
<1>9. hints \in Seq(H) /\ Len(hints) = (1 + has + k) + (k - 1)
  <2>1. hints = abc \o e
    BY <1>6 DEF abc, ab
  <2>2. abc \o e \in Seq(H) /\ Len(abc \o e) = Len(abc) + Len(e)
    BY ONLY <1>5, <1>8, Joined
  <2> QED BY <1>5, <1>8, <2>1, <2>2
<1>10. \A i \in 1 .. Len(hints) : hints[i] \in H
  BY <1>9, ElementOfSeq
<1>11. hints \in Seq(STRING)
  <2>1. H \subseteq STRING
    BY DEF H
  <2>2. \A A, B : A \subseteq B => Seq(A) \subseteq Seq(B)
    OBVIOUS
  <2>3. Seq(H) \subseteq Seq(STRING)
    BY <2>1, <2>2, Zenon
  <2> QED BY <1>9, <2>3
<1>12. \A i \in 1 .. Len(hints) : hints[i] # "entry"
  BY <1>10 DEF H
<1> QED BY <1>9, <1>11, <1>12

LEMMA TestType ==
  ASSUME NEW s \in Seq(STRING), NEW v \in Seq(STRING)
  PROVE  Test(s, v) \in Operand
<1>1. <<"eq">> \in Seq(STRING)
  BY NameAssumption
<1>2. \A x, y \in Seq(STRING) : x \o y \in Seq(STRING)
  OBVIOUS
<1>3. <<"eq">> \o s \o v \in Seq(STRING)
  BY <1>1, <1>2
<1>4. <<"1?">> \in Operand /\ <<"0?">> \in Operand /\ <<"eq">> \o s \o v \in Operand
  BY <1>3 DEF Operand, Constant
<1> QED BY <1>4, Zenon DEF Test

(* The body of a case; b is its block, and end is where break leads. *)
CaseBody(b, end, stmts, to) ==
  L!Enter(b) \o L!PushLoop(L!NoLabel, end) \o L!Stmts(stmts) \o L!PopLoop \o L!Seal(<<L!Jump(to)>>)

LEMMA CaseBodyReads ==
  ASSUME NEW F, NEW W, W \subseteq F, NEW T, T \subseteq Label, NEW end \in T, NEW to \in T,
         NEW stmts \in Seq(F), NEW n \in Nat, NEW R \in SUBSET Nat, NEW b \in R
  PROVE  Reads(F, W, T, CaseBody(b, end, stmts, to), Point("ended", n, R), Point("ended", n, R \ {b}))
<1> DEFINE V == R \ {b}
           m == n + 1
<1>1. V \in SUBSET Nat /\ m \in Nat /\ b \in Nat
  OBVIOUS
<1>2. L!NoLabel = NoLabel /\ L!Jump(to) = Jump(to)
      /\ <<Jump(to)>> \in Seq(Instruction) /\ GoodCode(<<Jump(to)>>, T)
  BY SameWords, GoodEndings
<1>3. Reads(F, W, T, L!Enter(b), Point("ended", n, R), Point("any", n, V))
  BY ReadsEnter
<1> HIDE DEF V
<1>4. Reads(F, W, T, L!PushLoop(NoLabel, end), Point("any", n, V), Point("any", m, V))
  BY <1>1, ReadsPush DEF Flags
<1>5. Reads(F, W, T, L!PopLoop, Point("any", m, V), Point("any", n, V))
  BY <1>1, ReadsPop DEF Flags
<1> HIDE DEF m
<1>6. Reads(F, W, T, L!Stmts(stmts), Point("any", m, V), Point("any", m, V))
  BY <1>1, ReadsStmts
<1>7. Reads(F, W, T, L!Seal(<<L!Jump(to)>>), Point("any", n, V), Point("ended", n, V))
  BY <1>1, <1>2, ReadsSeal DEF Flags
<1>8. Reads(F, W, T, CaseBody(b, end, stmts, to), Point("ended", n, R), Point("ended", n, V))
  BY <1>2, <1>3, <1>4, <1>5, <1>6, <1>7, ReadsJoin, Zenon DEF CaseBody
<1> QED BY <1>8 DEF V

(* One case after the other enters the blocks a + 1 .. a + k. *)
LEMMA CasesRead ==
  ASSUME NEW F, NEW W, NEW T, NEW n \in Nat, NEW a \in Nat, NEW k \in Nat \ {0},
         NEW Q \in SUBSET Nat, a + 1 .. a + k \subseteq Q,
         NEW ss, ss = [i \in 1 .. k |-> ss[i]],
         \A i \in 1 .. k : \A R \in SUBSET Nat : a + i \in R =>
           Reads(F, W, T, ss[i], Point("ended", n, R), Point("ended", n, R \ {a + i}))
  PROVE  Reads(F, W, T, L!FlattenSeq(ss), Point("ended", n, Q), Point("ended", n, Q \ (a + 1 .. a + k)))
<1> DEFINE Upto(i) == Q \ (a + 1 .. a + i)
           Goal(x, i) == Reads(F, W, T, x, Point("ended", n, Q), Point("ended", n, Upto(i)))
<1>1. ss \in Seq(Seq(Tasks(F))) /\ Len(ss) = k /\ ss # <<>>
  <2>1. ASSUME NEW i \in 1 .. k PROVE ss[i] \in Seq(Tasks(F))
    <3>1. a + i \in Q
      OBVIOUS
    <3>2. Reads(F, W, T, ss[i], Point("ended", n, Q), Point("ended", n, Q \ {a + i}))
      BY <3>1
    <3> QED BY <3>2 DEF Reads
  <2>2. ss \in [1 .. k -> Seq(Tasks(F))]
    BY <2>1
  <2>3. ss \in Seq(Seq(Tasks(F))) /\ Len(ss) = k
    BY <2>2
  <2> QED BY <2>3, EmptySeq
<1>2. PICK g : Flattens(g, ss, Tasks(F)) /\ L!FlattenSeq(ss) = g[Len(ss)]
  BY <1>1, Flattened
<1>3. g[1] = ss[1] /\ \A i \in 2 .. k : g[i] = g[i - 1] \o ss[i]
  BY <1>1, <1>2 DEF Flattens
<1> DEFINE P == {i \in 0 .. k : i = 0 \/ Goal(g[i], i)}
<1>4. 0 \in P
  OBVIOUS
<1>5. ASSUME NEW i \in 1 .. k, i - 1 \in P PROVE i \in P
  <2>1. i \in 0 .. k /\ a + i \in Q
    OBVIOUS
  <2>2. CASE i = 1
    <3>1. Upto(i) = Q \ {a + i}
      BY <2>2
    <3>2. Goal(g[i], i)
      BY <1>3, <2>1, <2>2, <3>1
    <3> QED BY <2>1, <3>2
  <2>3. CASE i # 1
    <3>1. i \in 2 .. k /\ i - 1 # 0
      BY <2>3
    <3>2. Goal(g[i - 1], i - 1)
      BY <1>5, <3>1
    <3>3. a + i \in Upto(i - 1) /\ Upto(i) = Upto(i - 1) \ {a + i} /\ Upto(i - 1) \in SUBSET Nat
      BY <2>1, <3>1
    <3> HIDE DEF Upto
    <3>4. Reads(F, W, T, ss[i], Point("ended", n, Upto(i - 1)), Point("ended", n, Upto(i)))
      BY <3>3
    <3>5. Reads(F, W, T, g[i - 1] \o ss[i], Point("ended", n, Q), Point("ended", n, Upto(i)))
      BY <3>2, <3>4, ReadsJoin
    <3>6. Goal(g[i], i)
      BY <1>3, <3>1, <3>5
    <3> HIDE DEF Goal
    <3> QED BY <2>1, <3>6
  <2> QED BY <2>2, <2>3
<1>6. 0 .. k \subseteq P
  <2> HIDE DEF P
  <2> QED BY <1>4, <1>5, InductionUpTo
<1>7. Goal(g[k], k)
  <2>1. k \in 0 .. k /\ k # 0
    OBVIOUS
  <2> HIDE DEF Goal
  <2>2. k \in P
    BY <1>6, <2>1
  <2> QED BY <2>1, <2>2
<1> QED BY <1>1, <1>2, <1>7

(* Which of the blocks of a switch have their code at once: the tests. *)
EmptyFirst(starts, m) == \A j \in 1 .. Len(starts) : starts[j] = <<>> <=> j =< m

LEMMA WaitsBefore ==
  ASSUME NEW n \in Nat, NEW m \in Nat, NEW starts, Len(starts) \in Nat, m =< Len(starts),
         EmptyFirst(starts, m), NEW hints, Len(hints) = Len(starts)
  PROVE  Waits(n, hints, starts) = n + 1 .. n + m
<1> DEFINE J == {j \in 1 .. Len(hints) : j > Len(starts) \/ starts[j] = <<>>}
<1>1. J = 1 .. m
  <2>1. \A j \in 1 .. Len(starts) : j \in J <=> starts[j] = <<>>
    OBVIOUS
  <2>2. J \subseteq 1 .. Len(starts) /\ 1 .. m \subseteq 1 .. Len(starts)
    OBVIOUS
  <2> HIDE DEF J
  <2>3. \A j \in 1 .. Len(starts) : j \in J <=> j \in 1 .. m
    BY <2>1 DEF EmptyFirst
  <2> QED BY <2>2, <2>3
<1>2. Waits(n, hints, starts) = {n + i : i \in J}
  BY DEF Waits
<1> HIDE DEF J
<1>3. \A b \in n + 1 .. n + m : b - n \in 1 .. m /\ b = n + (b - n)
  OBVIOUS
<1>4. \A j \in 1 .. m : n + j \in n + 1 .. n + m
  OBVIOUS
<1> QED BY <1>1, <1>2, <1>3, <1>4

(* A block that begins with an end has ended. *)
LEMMA HasEnded ==
  ASSUME NEW b, NEW T, GoodCode(b.code, T)
  PROVE  ~(b.code = <<>> \/ ~L!Terminated(b))
BY SameWords DEF GoodCode, Terminated, Last

LEMMA GrownEnds ==
  ASSUME NEW W, Framed(W), NEW P, Written(blocks, current, P), L!Continues,
         NEW code, NEW hints, NEW starts, NEW bs, Adds(bs, code, hints, starts), NEW T
  PROVE  /\ GoodCode(code, T) => GoodCode(bs[current].code, T)
         /\ \A j \in 1 .. Len(hints) : j =< Len(starts) => bs[Len(blocks) + j].code = starts[j]
<1>1. Shaped(blocks) /\ Counts /\ current \in 1 .. Len(blocks)
  BY DEF Framed, Written
<1>2. OpenCode(blocks[current].code) /\ blocks[current].code \in Seq(Instruction)
  BY <1>1, ContinuesIsOpen, FunctionFacts DEF Shaped
<1>3. GrowsTo(bs, code, hints, starts)
  BY <1>1, GrownIs DEF Adds
<1>4. bs[current].code = blocks[current].code \o code
  BY ONLY <1>3 DEF GrowsTo
<1>5. code \in Seq(Instruction)
  BY DEF Adds
<1>6. GoodCode(code, T) => GoodCode(bs[current].code, T)
  BY ONLY <1>2, <1>4, <1>5, CodeJoin
<1>7. \A j \in 1 .. Len(hints) : j =< Len(starts) => bs[Len(blocks) + j].code = starts[j]
  BY ONLY <1>3 DEF GrowsTo
<1> QED BY ONLY <1>6, <1>7

(* The blocks a switch goes through: those of the cases, the default's, the one
   behind it. *)
SwitchSets(n, has, k, P, a, Q, Q1) ==
  /\ n \in Nat /\ has \in {0, 1} /\ k \in Nat \ {0} /\ P \subseteq 1 .. n /\ a = n + 1 + has
  /\ Q = P \cup (n + 1 .. n + 1 + has + k) /\ Q1 = Q \ (a + 1 .. a + k)

LEMMA SwitchBlocks ==
  ASSUME NEW n, NEW has, NEW k, NEW P, NEW a, NEW Q, NEW Q1, SwitchSets(n, has, k, P, a, Q, Q1)
  PROVE  /\ Q \in SUBSET Nat /\ a + 1 .. a + k \subseteq Q /\ Q1 \in SUBSET Nat
         /\ P \cup {n + 1} \in SUBSET Nat
         /\ has = 0 => Q1 = P \cup {n + 1}
         /\ has = 1 => n + 2 \in Q1 /\ Q1 \ {n + 2} = P \cup {n + 1}
<1> USE DEF SwitchSets
<1>1. \A x \in P : x \in Nat /\ x =< n
  OBVIOUS
<1>2. CASE has = 0
  <2>1. a = n + 1 /\ Q = P \cup (n + 1 .. n + 1 + k)
    BY <1>2
  <2>2. \A x : x \in n + 1 .. n + 1 + k <=> x = n + 1 \/ x \in a + 1 .. a + k
    BY <2>1
  <2>3. n + 1 \notin a + 1 .. a + k /\ \A x \in P : x \notin a + 1 .. a + k
    BY <1>1, <2>1
  <2>4. Q1 = P \cup {n + 1}
    BY <2>1, <2>2, <2>3
  <2>5. a + 1 .. a + k \subseteq Q
    BY <2>1, <2>2
  <2>6. Q \in SUBSET Nat
    BY <1>1, <2>1
  <2> QED BY <1>2, <2>4, <2>5, <2>6
<1>3. CASE has = 1
  <2>1. a = n + 2 /\ Q = P \cup (n + 1 .. n + 2 + k)
    BY <1>3
  <2>2. \A x : x \in n + 1 .. n + 2 + k <=> x = n + 1 \/ x = n + 2 \/ x \in a + 1 .. a + k
    BY <2>1
  <2>3. /\ n + 1 \notin a + 1 .. a + k /\ n + 2 \notin a + 1 .. a + k /\ n + 1 # n + 2
        /\ \A x \in P : x \notin a + 1 .. a + k /\ x # n + 2
    BY <1>1, <2>1
  <2>4. Q1 = P \cup {n + 1, n + 2}
    BY <2>1, <2>2, <2>3
  <2>5. n + 2 \in Q1 /\ Q1 \ {n + 2} = P \cup {n + 1}
    BY <2>3, <2>4
  <2>6. a + 1 .. a + k \subseteq Q
    BY <2>1, <2>2
  <2>7. Q \in SUBSET Nat
    BY <1>1, <2>1
  <2> QED BY <1>3, <2>5, <2>6, <2>7
<1> QED BY <1>2, <1>3

(* All bodies of a switch, and the block behind it. *)
CaseBodies(n, has, end, default, cases) ==
  [i \in 1 .. Len(cases) |->
     CaseBody(n + 1 + has + i, end, cases[i].body,
              IF cases[i].kind = "leak" THEN default ELSE end)]

SwitchTasks(n, has, end, default, cases, other) ==
  L!FlattenSeq(CaseBodies(n, has, end, default, cases))
    \o (IF has = 1 THEN CaseBody(n + 2, end, other, end) ELSE <<>>)
    \o L!Enter(n + 1)

LEMMA SwitchReads ==
  ASSUME NEW F, NEW W, W \subseteq F, \A s \in F : s.body \in Seq(F),
         NEW T, T \subseteq Label, NEW end \in T, NEW default \in T,
         NEW cases \in Seq(F), cases # <<>>, NEW other \in Seq(F), NEW has \in {0, 1},
         NEW n \in Nat, NEW d \in Nat, NEW P, P \subseteq 1 .. n, NEW f \in {"open", "any"}
  PROVE  Reads(F, W, T, SwitchTasks(n, has, end, default, cases, other),
               Point("ended", d, P \cup (n + 1 .. n + 1 + has + Len(cases))), Point(f, d, P))
<1> DEFINE k == Len(cases)
           a == n + 1 + has
           Q == P \cup (n + 1 .. n + 1 + has + k)
           Q1 == Q \ (a + 1 .. a + k)
           Q2 == P \cup {n + 1}
           ss == CaseBodies(n, has, end, default, cases)
           rest == IF has = 1 THEN CaseBody(n + 2, end, other, end) ELSE <<>>
<1>1. k \in Nat \ {0} /\ a \in Nat /\ n + 1 \in Nat /\ n + 2 \in Nat
  BY EmptySeq, LenProperties
<1>2. \A i \in 1 .. k : cases[i] \in F /\ cases[i].body \in Seq(F)
  BY <1>1, ElementOfSeq
<1>3. /\ Q \in SUBSET Nat /\ a + 1 .. a + k \subseteq Q
      /\ Q1 \in SUBSET Nat /\ Q2 \in SUBSET Nat
      /\ (has = 0 => Q1 = Q2) /\ (has = 1 => n + 2 \in Q1 /\ Q1 \ {n + 2} = Q2)
  <2>1. SwitchSets(n, has, k, P, a, Q, Q1)
    BY <1>1 DEF SwitchSets
  <2> HIDE DEF a, Q, Q1, k
  <2> QED BY ONLY <2>1, SwitchBlocks
<1>4. /\ Q1 \in SUBSET Nat /\ Q2 \in SUBSET Nat
      /\ (has = 0 => Q1 = Q2) /\ (has = 1 => n + 2 \in Q1 /\ Q1 \ {n + 2} = Q2)
  BY <1>3
<1>5. n + 1 \in Q2 /\ Q2 \ {n + 1} = P
  BY <1>1
<1>6. ASSUME NEW i \in 1 .. k, NEW R \in SUBSET Nat, a + i \in R
      PROVE  Reads(F, W, T, ss[i], Point("ended", d, R), Point("ended", d, R \ {a + i}))
  <2> DEFINE to == IF cases[i].kind = "leak" THEN default ELSE end
  <2>1. to \in T
    OBVIOUS
  <2>2. ss[i] = CaseBody(a + i, end, cases[i].body, to)
    BY DEF CaseBodies
  <2> HIDE DEF to, a
  <2>3. /\ W \subseteq F /\ T \subseteq Label /\ end \in T /\ d \in Nat /\ R \in SUBSET Nat /\ a + i \in R
        /\ cases[i].body \in Seq(F)
    BY <1>2, <1>6
  <2>4. Reads(F, W, T, CaseBody(a + i, end, cases[i].body, to), Point("ended", d, R),
              Point("ended", d, R \ {a + i}))
    BY ONLY <2>1, <2>3, CaseBodyReads
  <2> QED BY <2>2, <2>4
<1>7. ss = [i \in 1 .. k |-> ss[i]]
  BY DEF CaseBodies
<1> HIDE DEF ss
<1>8. Reads(F, W, T, L!FlattenSeq(ss), Point("ended", d, Q), Point("ended", d, Q1))
  <2> HIDE DEF Q, k, a
  <2>1. \A i \in 1 .. k : \A R \in SUBSET Nat : a + i \in R =>
           Reads(F, W, T, ss[i], Point("ended", d, R), Point("ended", d, R \ {a + i}))
    BY <1>6
  <2> QED BY ONLY <1>1, <1>3, <1>7, <2>1, d \in Nat, CasesRead
<1> HIDE DEF Q, Q1, Q2, k, a, rest
<1>9. Reads(F, W, T, rest, Point("ended", d, Q1), Point("ended", d, Q2))
  <2>1. CASE has = 1
    <3>1. rest = CaseBody(n + 2, end, other, end)
      BY <2>1 DEF rest
    <3>2. Q1 \in SUBSET Nat /\ n + 2 \in Q1 /\ Q1 \ {n + 2} = Q2
      BY <2>1, <1>4
    <3>3. Reads(F, W, T, CaseBody(n + 2, end, other, end), Point("ended", d, Q1),
                Point("ended", d, Q1 \ {n + 2}))
      BY <3>2, CaseBodyReads
    <3> QED BY <3>1, <3>2, <3>3
  <2>2. CASE has = 0
    <3>1. rest = <<>>
      BY <2>2 DEF rest
    <3>2. Point("ended", d, Q2) \in Points
      BY <1>4, PointType DEF Flags
    <3> QED BY <2>2, <3>1, <3>2, <1>4, ReadsNone
  <2> QED BY <2>1, <2>2
<1>10. Reads(F, W, T, L!Enter(n + 1), Point("ended", d, Q2), Point(f, d, P))
  BY <1>4, <1>5, ReadsEnter
<1>11. Reads(F, W, T, L!FlattenSeq(ss) \o rest \o L!Enter(n + 1), Point("ended", d, Q), Point(f, d, P))
  <2>1. Reads(F, W, T, L!FlattenSeq(ss) \o rest, Point("ended", d, Q), Point("ended", d, Q2))
    BY ONLY <1>8, <1>9, ReadsJoin
  <2> QED BY ONLY <1>10, <2>1, ReadsJoin
<1> QED BY <1>11 DEF Q, k, ss, rest, SwitchTasks

LEMMA SwitchStep ==
  ASSUME NEW F, NEW W, Handled(F, W), LowInv(F, W), L!LowerSwitch
  PROVE  LowInv(F, W)'
<1> DEFINE n == Len(blocks)
           d == Len(loops) - 1
           T == Names(blocks')
           k == Len(L!S.body)
           has == IF L!S.other = <<>> THEN 0 ELSE 1
           hints == <<"switch_end">>
                      \o (IF has = 1 THEN <<"switch_default">> ELSE <<>>)
                      \o [i \in 1 .. k |-> "case"]
                      \o [i \in 1 .. (IF k = 0 THEN 0 ELSE k - 1) |-> CheckHint[k - i]]
           l == L!NewLabels(hints)
           end == l[1]
           default == l[1 + has]
           test(i) == L!Condi(L!Test(L!S.name, L!S.body[i].name), l[1 + has + i],
                              IF i < k THEN l[1 + has + k + i] ELSE default)
           starts == [j \in 1 .. Len(hints) |->
                        IF j > 1 + has + k THEN <<test(j - (1 + has + k) + 1)>> ELSE <<>>]
           code == IF k = 0 THEN <<>> ELSE <<test(1)>>
           tasks == SwitchTasks(n, has, end, default, L!S.body, L!S.other)
           m == 1 + has + k
<1>1. PICK f, P, q : Behind(F, W, f, P, q)
  BY StatementAhead DEF L!LowerSwitch, L!Stmt
<1>2. L!S \in F /\ L!Continues /\ Framed(W) /\ L!S.kind = "switch"
  BY StatementAhead DEF L!LowerSwitch, L!Stmt, LowInv, L!S
<1>3. /\ blocks' = L!Grown(code, hints, starts) /\ uses' = L!Counted(hints)
      /\ current' = IF k > 1 THEN n + Len(hints) ELSE current
      /\ todo' = tasks \o Tail(todo)
      /\ UNCHANGED <<loops, defers, closing>>
  BY Zenon DEF L!LowerSwitch, L!Then, SwitchTasks, CaseBodies, CaseBody
<1>4. /\ W \subseteq F /\ L!S.body \in Seq(F) /\ L!S.other \in Seq(F) /\ L!S.name \in Seq(STRING)
      /\ k \in 1 .. (Len(CheckHint) + 1) /\ \A s \in F : s.body \in Seq(F) /\ s.name \in Seq(STRING)
  BY <1>2, HandledFacts
<1>5. k \in Nat \ {0} /\ has \in {0, 1} /\ m \in Nat /\ k - 1 \in Nat /\ 1 + has \in 1 .. m
  <2>1. has \in {0, 1}
    BY Zenon
  <2>2. Len(CheckHint) \in Nat
    BY CheckAssumption
  <2> HIDE DEF has, k
  <2> QED BY ONLY <1>4, <2>1, <2>2
<1>6. /\ hints \in Seq(STRING) /\ Len(hints) = m + (k - 1)
      /\ \A i \in 1 .. Len(hints) : hints[i] # "entry"
  <2>1. hints = <<"switch_end">> \o (IF has = 1 THEN <<"switch_default">> ELSE <<>>)
                   \o [i \in 1 .. k |-> "case"]
                   \o [i \in 1 .. (IF k = 0 THEN 0 ELSE k - 1) |-> CheckHint[k - i]]
    OBVIOUS
  <2> HIDE DEF k, has, hints
  <2> QED BY <1>4, <1>5, <2>1, SwitchHints
<1>7. \A i \in 1 .. k : L!S.body[i] \in F
  BY <1>4, <1>5, ElementOfSeq
<1> HIDE DEF hints, n, has
<1>8. \A i \in 1 .. k : test(i) = Condi(Test(L!S.name, L!S.body[i].name), l[1 + has + i],
                                        IF i < k THEN l[1 + has + k + i] ELSE default)
  BY SameWords, Zenon
<1>9. ASSUME NEW U, U \subseteq Label, \A j \in 1 .. Len(hints) : l[j] \in U, NEW i \in 1 .. k
      PROVE  <<test(i)>> \in Seq(Instruction) /\ GoodCode(<<test(i)>>, U)
  <2> DEFINE no == IF i < k THEN l[1 + has + k + i] ELSE default
             c == Test(L!S.name, L!S.body[i].name)
  <2> HIDE DEF k, l
  <2>1. 1 + has + i \in 1 .. Len(hints) /\ 1 + has \in 1 .. Len(hints)
        /\ (i < k => 1 + has + k + i \in 1 .. Len(hints))
    BY <1>5, <1>6
  <2>2. l[1 + has + i] \in U /\ no \in U
    BY <1>9, <2>1
  <2>3. c \in Operand
    BY <1>4, <1>7, TestType
  <2> HIDE DEF c, no
  <2>4. <<Condi(c, l[1 + has + i], no)>> \in Seq(Instruction)
        /\ GoodCode(<<Condi(c, l[1 + has + i], no)>>, U)
    BY <1>9, <2>2, <2>3, GoodEndings
  <2>5. test(i) = Condi(c, l[1 + has + i], no)
    BY <1>8, Zenon DEF c, no
  <2> HIDE DEF test
  <2> QED BY <2>4, <2>5
<1> DEFINE one(i) == <<test(i)>>
<1>10. /\ \A i \in 1 .. k : one(i) \in Seq(Instruction)
       /\ \A U : U \subseteq Label /\ (\A j \in 1 .. Len(hints) : l[j] \in U) =>
            \A i \in 1 .. k : GoodCode(one(i), U)
  <2>1. \A j \in 1 .. Len(hints) : l[j] \in Label
    BY <1>2, <1>6, NewLabelsType DEF Framed
  <2> HIDE DEF test, l
  <2> QED BY <1>9, <2>1
<1>11. /\ starts = [j \in 1 .. Len(hints) |-> IF j > m THEN one(j - m + 1) ELSE <<>>]
       /\ code = one(1)
  BY <1>5
<1>12. \A i \in 1 .. k : one(i) # <<>>
  OBVIOUS
<1> HIDE DEF test, one, starts, code, l, m, tasks, k, default, end
<1>13. /\ starts \in Seq(Seq(Instruction)) /\ Len(starts) = m + (k - 1)
       /\ \A j \in 1 .. Len(starts) : starts[j] = IF j > m THEN one(j - m + 1) ELSE <<>>
       /\ \A j \in 1 .. Len(starts) : j > m => j - m + 1 \in 1 .. k
       /\ code \in Seq(Instruction)
  <2> DEFINE none == <<>>
             st(j) == IF j > m THEN one(j - m + 1) ELSE none
  <2>1. none \in Seq(Instruction)
    OBVIOUS
  <2>2. \A j \in 1 .. Len(hints) : j > m => j - m + 1 \in 1 .. k
    BY <1>5, <1>6
  <2>3. \A j \in 1 .. Len(hints) : st(j) \in Seq(Instruction)
    <3> HIDE DEF none
    <3> QED BY <1>10, <2>1, <2>2
  <2>4. starts = [j \in 1 .. Len(hints) |-> st(j)]
    BY <1>11, Zenon
  <2> HIDE DEF st
  <2>5. starts \in Seq(Seq(Instruction)) /\ Len(starts) = Len(hints)
        /\ \A j \in 1 .. Len(hints) : starts[j] = st(j)
    BY <1>5, <1>6, <2>3, <2>4
  <2>6. 1 \in 1 .. k
    BY <1>5
  <2> QED BY <1>6, <1>10, <1>11, <2>2, <2>5, <2>6, Zenon DEF st
<1>14. \A j \in 1 .. (m + (k - 1)) : starts[j] = <<>> <=> j =< m
  <2> TAKE j \in 1 .. (m + (k - 1))
  <2> DEFINE none == <<>>
  <2>1. j \in 1 .. Len(starts) /\ starts[j] = IF j > m THEN one(j - m + 1) ELSE none
    BY <1>13
  <2>2. j > m => one(j - m + 1) # none
    BY <1>12, <1>13, <2>1
  <2> HIDE DEF none
  <2>3. starts[j] = none <=> j =< m
    BY <1>5, <2>1, <2>2
  <2> QED BY <2>3 DEF none
<1>15. n \in Nat \ {0} /\ P \subseteq 1 .. n /\ current \in 1 .. n /\ d \in Nat
  BY <1>1, <1>2, BlockCounts, DepthOfLoops DEF Behind, n
<1>16. Waits(n, hints, starts) = n + 1 .. n + m
  <2>1. n \in Nat /\ m \in Nat /\ Len(starts) \in Nat /\ m =< Len(starts) /\ Len(hints) = Len(starts)
    BY <1>5, <1>6, <1>13, <1>15
  <2>2. EmptyFirst(starts, m)
    BY <1>13, <1>14 DEF EmptyFirst
  <2> QED BY ONLY <2>1, <2>2, WaitsBefore
<1> DEFINE Q == P \cup (n + 1 .. n + m)
<1>a. Framed(W) /\ Written(blocks, current, P) /\ L!Continues /\ Adds(blocks', code, hints, starts)
  <2>1. Len(starts) =< Len(hints)
    BY ONLY <1>6, <1>13, LenProperties
  <2> QED BY <1>1, <1>2, <1>3, <1>6, <1>13, <2>1 DEF Behind, Adds
<1>17. /\ \A j \in 1 .. Len(hints) : l[j] \in T
       /\ T \subseteq Label /\ loops' \in Seq(Places(T)) /\ loops' # <<>> /\ Len(loops') - 1 = d
  <2>1. UNCHANGED loops
    BY <1>3
  <2> HIDE DEF T
  <2>2. /\ \A j \in 1 .. Len(hints) : l[j] \in T
        /\ T \subseteq Label /\ loops \in Seq(Places(T)) /\ loops # <<>>
    BY ONLY <1>a, GrowLabels DEF T, l
  <2> QED BY ONLY <2>1, <2>2 DEF d
<1> HIDE DEF T
<1>18. /\ GoodCode(code, T)
       /\ \A j \in 1 .. Len(starts) : starts[j] = <<>> \/ GoodCode(starts[j], T)
  <2>1. \A i \in 1 .. k : GoodCode(one(i), T)
    BY <1>10, <1>17
  <2>2. 1 \in 1 .. k
    BY <1>5
  <2>3. ASSUME NEW j \in 1 .. Len(starts) PROVE starts[j] = <<>> \/ GoodCode(starts[j], T)
    <3>1. CASE j > m
      <4>1. starts[j] = one(j - m + 1) /\ j - m + 1 \in 1 .. k
        BY <1>13, <3>1
      <4> QED BY <2>1, <4>1
    <3>2. CASE ~(j > m)
      BY <1>13, <3>2, Zenon
    <3> QED BY <3>1, <3>2
  <2> QED BY <1>11, <2>1, <2>2, <2>3
<1>19. /\ current' \in {current} \cup (n + 1) .. (n + Len(hints))
       /\ Q = P \cup (Waits(n, hints, starts) \ {current'})
       /\ current' = current \/ (current' = n + Len(hints) /\ Len(hints) > m)
  BY <1>3, <1>5, <1>6, <1>15, <1>16
<1>20. Knows("ended")'
  <2>1. Len(starts) =< Len(hints) /\ Written(blocks, current, P) /\ Len(hints) \in Nat
    BY <1>1, <1>5, <1>6, <1>13 DEF Behind
  <2>2. /\ GoodCode(blocks'[current].code, T)
        /\ \A j \in 1 .. Len(hints) : j =< Len(starts) => blocks'[n + j].code = starts[j]
    BY ONLY <1>a, <1>18, GrownEnds DEF n
  <2>3. GoodCode(blocks'[current'].code, T)
    <3>1. CASE current' = current
      BY <2>2, <3>1
    <3>2. CASE current' = n + Len(hints) /\ Len(hints) > m
      <4>1. Len(hints) \in 1 .. Len(hints) /\ Len(hints) = Len(starts) /\ Len(hints) > m
        <5>1. Len(hints) = Len(starts)
          BY ONLY <1>6, <1>13
        <5>2. m \in Nat /\ Len(hints) \in Nat /\ Len(hints) > m
          BY ONLY <1>5, <2>1, <3>2
        <5>3. Len(hints) \in 1 .. Len(hints)
          BY ONLY <5>2
        <5> QED BY ONLY <5>1, <5>2, <5>3
      <4>2. blocks'[current'].code = starts[Len(hints)]
        BY <2>2, <3>2, <4>1
      <4>3. Len(hints) \in 1 .. (m + (k - 1)) /\ ~(Len(hints) =< m)
        BY ONLY <1>5, <1>6, <2>1, <4>1
      <4>4. ~(starts[Len(hints)] = <<>>)
        BY ONLY <1>14, <4>3
      <4> QED BY <1>18, <4>1, <4>2, <4>4
    <3> QED BY <1>19, <3>1, <3>2
  <2>4. ~(blocks'[current'].code = <<>> \/ ~L!Terminated(blocks'[current']))
    BY <2>3, HasEnded
  <2> QED BY <2>4 DEF Knows, L!Continues
<1>21. f \in {"open", "any"} /\ "ended" \in Flags
  BY <1>1 DEF Behind, Flags
<1>22. Reads(F, W, T, tasks, Point("ended", d, Q), Point(f, d, P))
  <2>1. l[1] \in T /\ l[1 + has] \in T /\ L!S.body # <<>>
    <3>1. 1 \in 1 .. Len(hints) /\ 1 + has \in 1 .. Len(hints)
      BY <1>5, <1>6
    <3>2. k # 0
      BY <1>5
    <3>3. L!S.body # <<>>
      BY <3>2 DEF k
    <3> QED BY <1>17, <3>1, <3>3
  <2>2. \A s \in F : s.body \in Seq(F)
    BY <1>4
  <2> HIDE DEF d
  <2>3. end \in T /\ default \in T
    BY <2>1 DEF end, default
  <2>4. Reads(F, W, T, SwitchTasks(n, has, end, default, L!S.body, L!S.other),
              Point("ended", d, P \cup (n + 1 .. n + 1 + has + Len(L!S.body))), Point(f, d, P))
    <3>1. n \in Nat /\ d \in Nat /\ P \subseteq 1 .. n /\ has \in {0, 1} /\ f \in {"open", "any"}
      BY <1>5, <1>15, <1>21
    <3> QED BY ONLY <1>4, <1>17, <2>1, <2>2, <2>3, <3>1, SwitchReads
  <2>5. n + 1 + has + Len(L!S.body) = n + m
    <3>1. Len(L!S.body) = k /\ m = 1 + has + k
      BY DEF k, m
    <3>2. n \in Nat /\ has \in Nat /\ k \in Nat
      BY <1>5, <1>15
    <3> QED BY ONLY <3>1, <3>2
  <2> QED BY <2>4, <2>5 DEF tasks
<1> HIDE DEF Q
<1>23. Reads(F, W, T, tasks, Point("ended", Len(loops') - 1, Q), Point(f, Len(loops) - 1, P))
  BY <1>17, <1>22
<1>24. Len(starts) =< Len(hints)
  BY <1>5, <1>6, <1>13
<1> QED BY <1>1, <1>2, <1>3, <1>6, <1>13, <1>17, <1>18, <1>19, <1>20, <1>21, <1>23, <1>24, GrowStep DEF n, T

-----------------------------------------------------------------------------
(* The tasks around the statements.  m is what is known behind the one at the
   head of the list. *)
TaskAhead(F, W, f, P, q, m) ==
  /\ f \in Flags /\ P \in SUBSET Nat /\ q \in Points /\ m \in Points
  /\ Head(todo) \in Tasks(F)
  /\ Leads(F, W, Names(blocks), Point(f, Len(loops) - 1, P), Head(todo), m)
  /\ Reads(F, W, Names(blocks), Tail(todo), m, q)
  /\ q.left = {} /\ (closing => q.at = "ended")
  /\ Written(blocks, current, P) /\ Knows(f)

LEMMA ThereIsATask ==
  ASSUME NEW F, NEW W, LowInv(F, W), todo # <<>>
  PROVE  \E f, P, q, m : TaskAhead(F, W, f, P, q, m)
<1>1. PICK f, P, q : Steered(F, W, f, P, q)
  BY DEF LowInv
<1>2. Reads(F, W, Names(blocks), todo, Point(f, Len(loops) - 1, P), q)
  BY <1>1 DEF Steered
<1>3. /\ Head(todo) \in Tasks(F)
      /\ \E m \in Points : /\ Leads(F, W, Names(blocks), Point(f, Len(loops) - 1, P), Head(todo), m)
                           /\ Reads(F, W, Names(blocks), Tail(todo), m, q)
  BY ONLY <1>2, todo # <<>>, ReadsHead
<1>4. PICK m \in Points : /\ Leads(F, W, Names(blocks), Point(f, Len(loops) - 1, P), Head(todo), m)
                          /\ Reads(F, W, Names(blocks), Tail(todo), m, q)
  BY <1>3
<1>5. TaskAhead(F, W, f, P, q, m)
  BY <1>1, <1>3, <1>4 DEF Steered, TaskAhead
<1> QED BY <1>5

(* The task is done, and the others are read from there. *)
LEMMA TaskDone ==
  ASSUME NEW F, NEW W, NEW f, NEW P, NEW q, NEW m, TaskAhead(F, W, f, P, q, m),
         Framed(W)', Names(blocks) \subseteq Names(blocks'), closing' = closing,
         L!Then(<<>>), Len(loops') - 1 = m.depth,
         Written(blocks', current', m.left), Knows(m.at)'
  PROVE  LowInv(F, W)'
<1>1. m \in Points /\ m.at \in Flags /\ m.left \in SUBSET Nat /\ m = Point(m.at, Len(loops') - 1, m.left)
  BY DEF TaskAhead, Points, Point
<1>2. Reads(F, W, Names(blocks'), Tail(todo), m, q)
  BY ReadsMore DEF TaskAhead
<1>3. Reads(F, W, Names(blocks'), <<>>, m, m)
  BY <1>1, ReadsNone
<1>4. Reads(F, W, Names(blocks'), todo', m, q)
  <2>1. Reads(F, W, Names(blocks'), <<>> \o Tail(todo), m, q)
    BY ONLY <1>2, <1>3, ReadsJoin
  <2> QED BY <2>1 DEF L!Then
<1>5. Reads(F, W, Names(blocks'), todo', Point(m.at, Len(loops') - 1, m.left), q)
  BY <1>1, <1>4
<1>6. Steered(F, W, m.at, m.left, q)'
  BY <1>1, <1>5 DEF TaskAhead, Steered
<1>7. \E x, y, z : Steered(F, W, x, y, z)'
  BY <1>6
<1> QED BY <1>7 DEF LowInv

LEMMA EmitStep ==
  ASSUME NEW F, NEW W, LowInv(F, W), L!DoEmit
  PROVE  LowInv(F, W)'
<1>1. todo # <<>> /\ Framed(W) /\ Head(todo).do \in {"emit", "seal"}
      /\ (Head(todo).do = "seal" => L!Continues)
      /\ blocks' = [blocks EXCEPT ![current] = L!Extend(@, Head(todo).code)] /\ L!Then(<<>>)
      /\ UNCHANGED <<current, uses, loops, defers, closing>>
  BY DEF L!DoEmit, L!Doing, LowInv
<1>2. PICK f, P, q, m : TaskAhead(F, W, f, P, q, m)
  BY <1>1, ThereIsATask
<1> DEFINE p == Point(f, Len(loops) - 1, P)
           code == Head(todo).code
           N == Names(blocks)
<1>3. /\ p.at = f /\ p.depth = Len(loops) - 1 /\ p.left = P
      /\ Shaped(blocks) /\ Written(blocks, current, P)
  <2>1. p.at = f /\ p.depth = Len(loops) - 1 /\ p.left = P
    BY <1>1, <1>2, PointType, DepthOfLoops DEF TaskAhead
  <2> HIDE DEF p
  <2> QED BY <1>1, <1>2, <2>1 DEF TaskAhead, Framed
<1>4. code \in Seq(Instruction)
  <2>1. \A t \in Tasks(F) : t.code \in Seq(Instruction)
    BY DEF Tasks
  <2> QED BY <1>2, <2>1 DEF TaskAhead
<1>5. Leads(F, W, N, p, Head(todo), m)
  BY <1>2 DEF TaskAhead
<1> HIDE DEF p
<1>6. /\ GoodCode(code, N) /\ m.at \in {"ended", "any"} /\ m.depth = Len(loops) - 1 /\ m.left = P
      /\ Head(todo).do = "emit" => f = "open"
  BY <1>1, <1>3, <1>5 DEF Leads
<1>7. OpenCode(blocks[current].code)
  <2>1. L!Continues
    BY <1>1, <1>2, <1>6 DEF TaskAhead, Knows
  <2> QED BY <1>3, <2>1, ContinuesIsOpen
<1>8. /\ Shaped(blocks') /\ Names(blocks') = N /\ Written(blocks', current', P)
      /\ GoodCode(blocks'[current].code, N)
  <2>1. Puts(blocks', code) /\ current' = current
    BY <1>1, <1>4 DEF Puts
  <2> HIDE DEF code
  <2> QED BY <1>3, <1>6, <1>7, <2>1, AppendWritten
<1>9. Framed(W)'
  BY <1>1, <1>8 DEF Framed, Counts
<1>10. Knows(m.at)'
  <2>1. ~(blocks'[current'].code = <<>> \/ ~L!Terminated(blocks'[current']))
    BY <1>1, <1>8, HasEnded
  <2> QED BY <1>6, <2>1 DEF Knows, L!Continues
<1> QED BY <1>1, <1>2, <1>6, <1>8, <1>9, <1>10, TaskDone

LEMMA SealedStep ==
  ASSUME NEW F, NEW W, LowInv(F, W), L!DoSealed
  PROVE  LowInv(F, W)'
<1>1. /\ todo # <<>> /\ Framed(W) /\ Head(todo).do = "seal" /\ ~L!Continues /\ L!Then(<<>>)
      /\ UNCHANGED <<blocks, current, uses, loops, defers, closing>>
  BY DEF L!DoSealed, L!Doing, LowInv
<1>2. PICK f, P, q, m : TaskAhead(F, W, f, P, q, m)
  BY <1>1, ThereIsATask
<1> DEFINE p == Point(f, Len(loops) - 1, P)
<1>3. p.depth = Len(loops) - 1 /\ p.left = P /\ Leads(F, W, Names(blocks), p, Head(todo), m)
  BY <1>1, <1>2, PointType, DepthOfLoops DEF TaskAhead
<1> HIDE DEF p
<1>4. m.at \in {"ended", "any"} /\ m.depth = Len(loops) - 1 /\ m.left = P
  BY <1>1, <1>3 DEF Leads
<1>5. Framed(W)' /\ Knows(m.at)' /\ Written(blocks', current', m.left)
  BY <1>1, <1>2, <1>4 DEF TaskAhead, Framed, Counts, Knows, L!Continues
<1> QED BY <1>1, <1>2, <1>4, <1>5, TaskDone

LEMMA EnterStep ==
  ASSUME NEW F, NEW W, LowInv(F, W), L!DoEnter
  PROVE  LowInv(F, W)'
<1>1. /\ todo # <<>> /\ Framed(W) /\ Head(todo).do = "enter" /\ current' = Head(todo).block
      /\ L!Then(<<>>) /\ UNCHANGED <<blocks, uses, loops, defers, closing>>
  BY DEF L!DoEnter, L!Doing, LowInv
<1>2. PICK f, P, q, m : TaskAhead(F, W, f, P, q, m)
  BY <1>1, ThereIsATask
<1> DEFINE p == Point(f, Len(loops) - 1, P)
           b == Head(todo).block
           N == Names(blocks)
<1>3. p.at = f /\ p.depth = Len(loops) - 1 /\ p.left = P /\ Leads(F, W, N, p, Head(todo), m)
  BY <1>1, <1>2, PointType, DepthOfLoops DEF TaskAhead
<1> HIDE DEF p
<1>4. f = "ended" /\ b \in P /\ m.at \in {"open", "any"} /\ m.depth = Len(loops) - 1 /\ m.left = P \ {b}
  BY <1>1, <1>3 DEF Leads
<1>5. Shaped(blocks) /\ Written(blocks, current, P) /\ ~L!Continues
  BY <1>1, <1>2, <1>4 DEF TaskAhead, Framed, Knows
<1>6. GoodCode(blocks[current].code, N)
  BY <1>5, ContinuesIsOpen
<1>7. blocks[b].code = <<>>
  BY <1>4, <1>5 DEF Written
<1> DEFINE none == <<>>
<1>8. OpenCode(none)
  BY DEF OpenCode
<1>9. Written(blocks, b, P \ {b})
  <2> HIDE DEF none, b
  <2>1. OpenCode(blocks[b].code)
    BY <1>7, <1>8 DEF none
  <2>2. b \in 1 .. Len(blocks) /\ P \ {b} \subseteq 1 .. Len(blocks)
    BY <1>4, <1>5 DEF Written
  <2>3. \A x \in 1 .. Len(blocks) : x \notin P \ {b} /\ x # b => GoodCode(blocks[x].code, N)
    BY <1>5, <1>6 DEF Written
  <2>4. \A x \in P \ {b} : blocks[x].code = <<>>
    BY <1>5 DEF Written
  <2> QED BY <2>1, <2>2, <2>3, <2>4, Zenon DEF Written
<1>10. Knows(m.at)'
  BY <1>1, <1>4, <1>7 DEF Knows, L!Continues
<1>11. Framed(W)'
  BY <1>1 DEF Framed, Counts
<1> QED BY <1>1, <1>2, <1>4, <1>9, <1>10, <1>11, TaskDone

LEMMA PushStep ==
  ASSUME NEW F, NEW W, LowInv(F, W), L!DoPush
  PROVE  LowInv(F, W)'
<1>1. /\ todo # <<>> /\ Framed(W) /\ Head(todo).do = "push" /\ loops' = Append(loops, Head(todo).loop)
      /\ L!Then(<<>>) /\ UNCHANGED <<blocks, current, uses, defers, closing>>
  BY DEF L!DoPush, L!Doing, LowInv
<1>2. PICK f, P, q, m : TaskAhead(F, W, f, P, q, m)
  BY <1>1, ThereIsATask
<1> DEFINE p == Point(f, Len(loops) - 1, P)
           V == Places(Names(blocks))
           loop == Head(todo).loop
<1>3. p.depth = Len(loops) - 1 /\ p.left = P /\ Leads(F, W, Names(blocks), p, Head(todo), m)
  BY <1>1, <1>2, PointType, DepthOfLoops DEF TaskAhead
<1> HIDE DEF p
<1>4. loop \in V /\ m.at = "any" /\ m.depth = Len(loops) - 1 + 1 /\ m.left = P
  BY <1>1, <1>3 DEF Leads
<1>5. loops' \in Seq(V) /\ Len(loops') = Len(loops) + 1 /\ Len(loops) \in Nat
  <2>1. loops \in Seq(V) /\ Len(loops) \in Nat
    BY <1>1, DepthOfLoops DEF Framed
  <2> HIDE DEF V, loop
  <2> QED BY <1>1, <1>4, <2>1, AppendProperties DEF loop
<1>6. loops' # <<>>
  <2> HIDE DEF V
  <2> QED BY <1>5, EmptySeq
<1>7. Framed(W)'
  BY <1>1, <1>5, <1>6 DEF Framed, Counts
<1>8. Knows(m.at)' /\ Written(blocks', current', m.left) /\ Len(loops') - 1 = m.depth
  BY <1>1, <1>2, <1>4, <1>5 DEF TaskAhead, Knows
<1> QED BY <1>1, <1>2, <1>7, <1>8, TaskDone

LEMMA PopStep ==
  ASSUME NEW F, NEW W, LowInv(F, W), L!DoPop
  PROVE  LowInv(F, W)'
<1>1. /\ todo # <<>> /\ Framed(W) /\ Head(todo).do = "pop" /\ loops' = L!Front(loops)
      /\ L!Then(<<>>) /\ UNCHANGED <<blocks, current, uses, defers, closing>>
  BY DEF L!DoPop, L!Doing, LowInv
<1>2. PICK f, P, q, m : TaskAhead(F, W, f, P, q, m)
  BY <1>1, ThereIsATask
<1> DEFINE p == Point(f, Len(loops) - 1, P)
           V == Places(Names(blocks))
<1>3. /\ p.at = f /\ p.depth = Len(loops) - 1 /\ p.left = P
      /\ Leads(F, W, Names(blocks), p, Head(todo), m)
  BY <1>1, <1>2, PointType, DepthOfLoops DEF TaskAhead
<1> HIDE DEF p
<1>4. m.at \in {f, "any"} /\ Len(loops) - 1 = m.depth + 1 /\ m.left = P
  BY <1>1, <1>3 DEF Leads
<1>5. m.depth \in Nat /\ Len(loops) \in Nat /\ loops \in Seq(V)
  BY <1>1, <1>2, DepthOfLoops DEF TaskAhead, Points, Framed
<1>6. loops' \in Seq(V) /\ Len(loops') = Len(loops) - 1 /\ loops' # <<>>
  <2> HIDE DEF V
  <2>1. loops' = SubSeq(loops, 1, Len(loops) - 1)
    BY <1>1 DEF L!Front
  <2>2. loops' = [i \in 1 .. Len(loops) - 1 |-> loops[i]]
    BY <1>4, <1>5, <2>1
  <2>3. \A i \in 1 .. Len(loops) : loops[i] \in V
    BY <1>5, ElementOfSeq
  <2>4. \A i \in 1 .. Len(loops) - 1 : loops[i] \in V
    BY <1>5, <2>3
  <2>5. loops' \in Seq(V) /\ Len(loops') = Len(loops) - 1
    BY <1>4, <1>5, <2>2, <2>4
  <2> QED BY <1>4, <1>5, <2>5, EmptySeq
<1>7. Framed(W)'
  BY <1>1, <1>6 DEF Framed, Counts
<1>8. Knows(m.at)' /\ Written(blocks', current', m.left) /\ Len(loops') - 1 = m.depth
  BY <1>1, <1>2, <1>4, <1>5, <1>6 DEF TaskAhead, Knows, L!Continues
<1> QED BY <1>1, <1>2, <1>7, <1>8, TaskDone

(* At the end of the body an open block runs what was deferred and returns; the
   tasks left are none, so nothing else is to be entered. *)
LEMMA EndStep ==
  ASSUME NEW F, NEW W, Handled(F, W), LowInv(F, W), L!EndFunction
  PROVE  LowInv(F, W)'
<1>1. /\ todo = <<>> /\ closing' = TRUE /\ Framed(W) /\ W \subseteq F
      /\ todo' = IF L!Continues THEN L!Deferred \o L!Emit(<<L!Ret>>) ELSE <<>>
      /\ UNCHANGED <<blocks, current, uses, loops, defers>>
  BY HandledFacts DEF L!EndFunction, LowInv
<1>2. PICK f, P, q : Steered(F, W, f, P, q)
  BY DEF LowInv
<1> DEFINE d == Len(loops) - 1
           N == Names(blocks)
           x == Point("ended", d, {})
<1>3. d \in Nat /\ N \subseteq Label /\ defers \in Seq(Seq(W))
  BY <1>1, DepthOfLoops, NamesFacts DEF Framed, Shaped
<1> HIDE DEF d
<1>4. P = {} /\ Written(blocks, current, {})
  <2> DEFINE p == Point(f, d, P)
  <2>1. p.left = P
    <3>1. f \in Flags /\ P \in SUBSET Nat
      BY <1>2 DEF Steered
    <3> QED BY <1>3, <3>1, PointType
  <2>2. Reads(F, W, N, todo, p, q) /\ q.left = {} /\ Written(blocks, current, P)
    BY <1>2 DEF Steered, d
  <2> HIDE DEF p
  <2>3. PICK r : Reading(F, W, N, todo, p, q, r)
    BY <2>2 DEF Reads
  <2>4. Len(todo) = 0
    BY <1>1
  <2>5. p = q
    BY <2>3, <2>4 DEF Reading
  <2> QED BY <2>1, <2>2, <2>5
<1>5. x \in Points /\ x.at = "ended" /\ x.left = {}
  BY <1>3, PointType DEF Flags
<1> HIDE DEF x
<1>6. \E g \in Flags : Knows(g) /\ Reads(F, W, N, todo', Point(g, d, {}), x)
  <2>1. CASE L!Continues
    <3>1. Reads(F, W, N, L!Deferred \o L!Emit(<<L!Ret>>), Point("open", d, {}), x)
      BY <1>1, <1>3, DeferredReads DEF x
    <3>2. "open" \in Flags /\ Knows("open")
      BY <2>1 DEF Flags, Knows
    <3>3. todo' = L!Deferred \o L!Emit(<<L!Ret>>)
      BY <1>1, <2>1, Zenon
    <3> QED BY <3>1, <3>2, <3>3
  <2>2. CASE ~L!Continues
    <3>1. Reads(F, W, N, <<>>, x, x)
      BY <1>5, ReadsNone
    <3>2. "ended" \in Flags /\ Knows("ended")
      BY <2>2 DEF Flags, Knows
    <3>3. todo' = <<>>
      BY <1>1, <2>2, Zenon
    <3>4. Reads(F, W, N, todo', Point("ended", d, {}), x)
      BY <3>1, <3>3 DEF x
    <3> QED BY <3>2, <3>4
  <2> QED BY <2>1, <2>2
<1>7. PICK g \in Flags, y \in Points :
        /\ Knows(g) /\ Reads(F, W, N, todo', Point(g, d, {}), y) /\ y.at = "ended" /\ y.left = {}
  BY <1>5, <1>6
<1>8. Steered(F, W, g, {}, y)'
  <2>1. Knows(g)' /\ Written(blocks', current', {})
    BY <1>1, <1>4, <1>7 DEF Knows, L!Continues
  <2>2. Reads(F, W, Names(blocks'), todo', Point(g, Len(loops') - 1, {}), y)
    BY <1>1, <1>7 DEF d
  <2>3. {} \in SUBSET Nat
    OBVIOUS
  <2> QED BY <1>7, <2>1, <2>2, <2>3 DEF Steered
<1>9. Framed(W)'
  BY <1>1 DEF Framed, Counts
<1>10. \E u, v, z : Steered(F, W, u, v, z)'
  BY <1>8
<1> QED BY <1>9, <1>10 DEF LowInv

-----------------------------------------------------------------------------
LEMMA LowStep ==
  ASSUME NEW F, NEW W, Handled(F, W), LowInv(F, W), L!Next
  PROVE  LowInv(F, W)'
<1>1. CASE L!Skip \/ L!LowerCall \/ L!LowerPurge \/ L!LowerIfKnown \/ L!LowerIf
  BY <1>1, SkipStep, CallStep, PurgeStep, IfKnownStep, IfStep
<1>2. CASE L!LowerWhile \/ L!LowerLoop \/ L!LowerForIn \/ L!LowerSwitch
  BY <1>2, WhileStep, LoopStep, ForInStep, SwitchStep
<1>3. CASE L!LowerBreak \/ L!LowerContinue \/ L!LowerDefer \/ L!LowerReturn \/ L!LowerMeta
  BY <1>3, BreakStep, ContinueStep, DeferStep, ReturnStep, MetaStep
<1>4. CASE L!DoEmit \/ L!DoSealed \/ L!DoEnter \/ L!DoPush \/ L!DoPop \/ L!EndFunction
  BY <1>4, EmitStep, SealedStep, EnterStep, PushStep, PopStep, EndStep
<1> QED BY <1>1, <1>2, <1>3, <1>4 DEF L!Next

(* No body has been begun. *)
LEMMA LowStart ==
  ASSUME NEW F, NEW W, Handled(F, W), Jobs \subseteq Seq(F) \X (0..3), Init
  PROVE  LowInv(F, W) /\ phase = "lower" /\ pass = "waiting" /\ level \in 0..3
<1>1. PICK job \in Jobs : todo = L!Stmts(job[1]) /\ Waiting(job[2])
  BY DEF Init
<1>2. job[1] \in Seq(F) /\ job[2] \in 0..3
  <2>1. \A j \in Seq(F) \X (0..3) : j[1] \in Seq(F) /\ j[2] \in 0..3
    OBVIOUS
  <2> QED BY <2>1
<1>3. phase = "lower" /\ pass = "waiting" /\ level \in 0..3
  BY <1>1, <1>2 DEF Init, Waiting
<1> DEFINE none == <<>>
           first == [label |-> <<"entry", 1>>, code |-> none]
           outer == [cont |-> NoLabel, brk |-> NoLabel]
<1>4. /\ blocks = <<first>> /\ current = 1 /\ uses = [h \in {"entry"} |-> 1]
      /\ loops = <<outer>> /\ defers = none /\ closing = FALSE
  BY SameWords DEF Init, L!Init, L!Outer
<1>5. none \in Seq(Instruction) /\ none \in Seq(Seq(W)) /\ Len(none) = 0 /\ OpenCode(none)
  BY DEF OpenCode
<1>6. <<"entry", 1>> \in Label
  BY NameAssumption DEF Label
<1>7. first \in Block /\ first.label = <<"entry", 1>> /\ first.code = none
  <2> HIDE DEF none
  <2> QED BY <1>5, <1>6 DEF Block
<1> HIDE DEF none, first
<1>8. blocks \in Seq(Block) /\ Len(blocks) = 1 /\ blocks[1] = first /\ blocks # <<>>
  BY <1>4, <1>7
<1>9. Names(blocks) = {}
  BY <1>8 DEF Names
<1>10. Shaped(blocks)
  BY <1>7, <1>8, <1>9 DEF Shaped, Function
<1>11. Written(blocks, current, {})
  BY <1>4, <1>5, <1>7, <1>8 DEF Written
<1>12. Counts
  BY <1>4 DEF Counts
<1>13. loops \in Seq(Places(Names(blocks))) /\ loops # <<>> /\ Len(loops) - 1 = 0
  <2>1. outer \in Places(Names(blocks))
    BY DEF Places
  <2> HIDE DEF outer
  <2> QED BY <1>4, <2>1
<1>14. Framed(W)
  BY <1>4, <1>5, <1>10, <1>12, <1>13 DEF Framed
<1> DEFINE q == Point("any", 0, {})
<1>15. q \in Points /\ q.left = {}
  BY PointType DEF Flags
<1>16. Reads(F, W, Names(blocks), todo, Point("any", Len(loops) - 1, {}), q)
  <2>1. Reads(F, W, Names(blocks), L!Stmts(job[1]), Point("any", 0, {}), Point("any", 0, {}))
    BY <1>2, HandledFacts, ReadsStmts
  <2> QED BY <1>1, <1>13, <2>1
<1> HIDE DEF q
<1>17. Steered(F, W, "any", {}, q)
  BY <1>4, <1>11, <1>15, <1>16 DEF Steered, Flags, Knows
<1>18. \E x, y, z : Steered(F, W, x, y, z)
  BY <1>17
<1> QED BY <1>3, <1>14, <1>18 DEF LowInv

(* A function that is finished has no block without its one end, and no branch
   to anything but its blocks, the entry excepted. *)
LEMMA LoweredIsGood ==
  ASSUME NEW F, NEW W, LowInv(F, W), L!Lowered
  PROVE  /\ Shaped(blocks)
         /\ \A b \in DOMAIN blocks : GoodCode(blocks[b].code, Names(blocks))
<1>1. todo = <<>> /\ closing /\ Framed(W)
  BY DEF L!Lowered, LowInv
<1>2. PICK f, P, q : Steered(F, W, f, P, q)
  BY DEF LowInv
<1> DEFINE d == Len(loops) - 1
           p == Point(f, d, P)
<1>3. p.at = f /\ p.left = P
  BY <1>1, <1>2, DepthOfLoops, PointType DEF Steered
<1>4. Reads(F, W, Names(blocks), todo, p, q) /\ q.left = {} /\ q.at = "ended"
  BY <1>1, <1>2 DEF Steered
<1> HIDE DEF p
<1>5. p = q
  <2>1. PICK r : Reading(F, W, Names(blocks), todo, p, q, r)
    BY <1>4 DEF Reads
  <2>2. Len(todo) = 0
    BY <1>1
  <2> QED BY <2>1, <2>2 DEF Reading
<1>6. P = {} /\ f = "ended" /\ Written(blocks, current, {}) /\ ~L!Continues
  BY <1>2, <1>3, <1>4, <1>5 DEF Steered, Knows
<1>7. Shaped(blocks) /\ DOMAIN blocks = 1 .. Len(blocks)
  BY <1>1, FunctionFacts DEF Framed, Shaped
<1>8. GoodCode(blocks[current].code, Names(blocks))
  BY <1>6, <1>7, ContinuesIsOpen
<1> QED BY <1>6, <1>7, <1>8 DEF Written

LEMMA LoweredIsAccepted ==
  ASSUME NEW F, NEW W, LowInv(F, W), L!Lowered
  PROVE  /\ blocks \in Function /\ Accepted(blocks)
         /\ blocks[1].label = <<"entry", 1>>
         /\ \A b \in DOMAIN blocks : blocks[1].label \notin TargetsOf(blocks[b])
<1>1. /\ Shaped(blocks) /\ \A b \in DOMAIN blocks : GoodCode(blocks[b].code, Names(blocks))
  BY LoweredIsGood
<1>2. blocks \in Function /\ Names(blocks) \subseteq Labels(blocks)
  BY <1>1, NamesFacts DEF Shaped
<1>3. Accepted(blocks)
  <2>1. \A b \in DOMAIN blocks : GoodCode(blocks[b].code, Labels(blocks))
    BY <1>1, <1>2 DEF GoodCode
  <2> QED BY <2>1, AcceptedIsGood
<1>4. \A b \in DOMAIN blocks : TargetsOf(blocks[b]) \subseteq Names(blocks)
  <2> TAKE b \in DOMAIN blocks
  <2>1. blocks[b] \in Block
    BY <1>2, FunctionFacts
  <2> QED BY <1>1, <2>1, GoodTargets
<1>5. <<"entry", 1>> \notin Names(blocks)
  BY <1>1 DEF Shaped
<1> QED BY <1>1, <1>2, <1>3, <1>4, <1>5 DEF Shaped

-----------------------------------------------------------------------------
(* The numbers of the labels.  No label of the function has a number above the
   count of its hint, and the blocks asked for are numbered on from there. *)
Numbered ==
  /\ UniqueLabels
  /\ \A b \in DOMAIN blocks : blocks[b].label[2] =< L!Used(blocks[b].label[1])

(* How often a hint is among the first i, and among all. *)
Upto(hints, i, h) == {j \in 1 .. i : hints[j] = h}
Every(hints, h) == {j \in DOMAIN hints : hints[j] = h}

LEMMA HintNumbers ==
  ASSUME NEW hints \in Seq(STRING)
  PROVE  /\ \A h : L!Cardinality(Every(hints, h)) \in Nat
         /\ \A i \in 1 .. Len(hints) :
              /\ L!Cardinality(Upto(hints, i, hints[i])) \in Nat \ {0}
              /\ L!Cardinality(Upto(hints, i, hints[i])) =< L!Cardinality(Every(hints, hints[i]))
         /\ \A i, j \in 1 .. Len(hints) :
              i < j /\ hints[i] = hints[j] =>
                L!Cardinality(Upto(hints, i, hints[i])) < L!Cardinality(Upto(hints, j, hints[j]))
<1>1. DOMAIN hints = 1 .. Len(hints) /\ Len(hints) \in Nat
  BY LenProperties
<1>2. \A S : L!Cardinality(S) = Cardinality(S)
  BY DEF L!Cardinality, Cardinality
<1>3. ASSUME NEW h PROVE IsFiniteSet(Every(hints, h)) /\ Cardinality(Every(hints, h)) \in Nat
  <2>1. IsFiniteSet(1 .. Len(hints)) /\ Every(hints, h) \in SUBSET (1 .. Len(hints))
    BY <1>1, FS_Interval DEF Every
  <2>2. IsFiniteSet(Every(hints, h))
    BY <2>1, FS_Subset
  <2> QED BY <2>2, FS_CardinalityType
<1>4. ASSUME NEW i \in 1 .. Len(hints), NEW h
      PROVE  /\ Upto(hints, i, h) \subseteq Every(hints, h) /\ IsFiniteSet(Upto(hints, i, h))
             /\ Cardinality(Upto(hints, i, h)) \in Nat
             /\ Cardinality(Upto(hints, i, h)) =< Cardinality(Every(hints, h))
  <2>1. Upto(hints, i, h) \in SUBSET Every(hints, h)
    BY <1>1 DEF Upto, Every
  <2>2. IsFiniteSet(Upto(hints, i, h)) /\ Cardinality(Upto(hints, i, h)) =< Cardinality(Every(hints, h))
    BY <1>3, <2>1, FS_Subset
  <2> QED BY <2>1, <2>2, FS_CardinalityType
<1>5. ASSUME NEW i \in 1 .. Len(hints) PROVE Cardinality(Upto(hints, i, hints[i])) # 0
  <2>1. i \in Upto(hints, i, hints[i])
    BY <1>1 DEF Upto
  <2>2. Upto(hints, i, hints[i]) # {}
    BY <2>1
  <2> QED BY <1>4, <2>2, FS_EmptySet
<1>6. ASSUME NEW i \in 1 .. Len(hints), NEW j \in 1 .. Len(hints), i < j, hints[i] = hints[j]
      PROVE  Cardinality(Upto(hints, i, hints[i])) < Cardinality(Upto(hints, j, hints[j]))
  <2> DEFINE A == Upto(hints, i, hints[i])
             B == Upto(hints, j, hints[j])
  <2>1. A \in SUBSET B /\ j \in B /\ j \notin A
    BY <1>1, <1>6 DEF Upto
  <2>2. IsFiniteSet(B) /\ Cardinality(A) \in Nat /\ Cardinality(B) \in Nat
    BY <1>4
  <2> HIDE DEF A, B
  <2>3. Cardinality(A) =< Cardinality(B) /\ (Cardinality(B) = Cardinality(A) => B = A)
    BY <2>1, <2>2, FS_Subset
  <2>4. Cardinality(A) < Cardinality(B)
    BY <2>1, <2>2, <2>3
  <2> QED BY <2>4 DEF A, B
<1> QED BY <1>2, <1>3, <1>4, <1>5, <1>6

LEMMA ListIsSeq ==
  ASSUME NEW A, NEW m \in Nat, NEW g \in [1 .. m -> A]
  PROVE  g \in Seq(A) /\ Len(g) = m
<1>1. g \in Seq(A)
  OBVIOUS
<1>2. DOMAIN g = 1 .. Len(g) /\ Len(g) \in Nat /\ DOMAIN g = 1 .. m
  BY <1>1, LenProperties
<1> QED BY <1>1, <1>2

LEMMA GrownNames ==
  ASSUME blocks \in Function, current \in 1 .. Len(blocks), NEW code, NEW starts,
         NEW hints \in Seq(STRING), NEW bs, bs = L!Grown(code, hints, starts)
  PROVE  /\ DOMAIN bs = 1 .. Len(blocks) + Len(hints)
         /\ \A b \in 1 .. Len(blocks) : bs[b].label = blocks[b].label
         /\ \A i \in 1 .. Len(hints) : bs[Len(blocks) + i].label = L!NewLabels(hints)[i]
<1> DEFINE n == Len(blocks)
           k == Len(hints)
           old == [blocks EXCEPT ![current] = L!Extend(@, code)]
           new == [i \in 1 .. k |-> [label |-> L!NewLabels(hints)[i],
                                     code |-> IF i \in DOMAIN starts THEN starts[i] ELSE <<>>]]
           T == {old[b] : b \in 1 .. n} \cup {new[i] : i \in 1 .. k}
<1>1. /\ n \in Nat \ {0} /\ DOMAIN blocks = 1 .. n /\ k \in Nat /\ DOMAIN hints = 1 .. k
      /\ \A b \in 1 .. n : blocks[b] \in [label : Label, code : Seq(Instruction)]
  BY FunctionFacts, LenProperties DEF Block
<1>2. bs = old \o new
  BY <1>1 DEF L!Grown
<1>3. \A b \in 1 .. n : old[b].label = blocks[b].label
  <2>1. \A x \in [label : Label, code : Seq(Instruction)] : \A y : [x EXCEPT !.code = y].label = x.label
    OBVIOUS
  <2>2. L!Extend(blocks[current], code).label = blocks[current].label
    BY <1>1, <2>1 DEF L!Extend
  <2> QED BY <1>1, <2>2
<1>4. \A i \in 1 .. k : new[i].label = L!NewLabels(hints)[i]
  OBVIOUS
<1>5. DOMAIN old = 1 .. n /\ DOMAIN new = 1 .. k
  BY <1>1
<1>6. old = [b \in 1 .. n |-> old[b]] /\ new = [i \in 1 .. k |-> new[i]]
  BY <1>1
<1> HIDE DEF old, new, n, k
<1>7. old \in Seq(T) /\ Len(old) = n
  <2>1. \A b \in 1 .. n : old[b] \in T
    OBVIOUS
  <2> HIDE DEF T
  <2>2. old \in [1 .. n -> T]
    BY ONLY <1>6, <2>1
  <2> QED BY ONLY <1>1, <2>2, ListIsSeq
<1>8. new \in Seq(T) /\ Len(new) = k
  <2>1. \A i \in 1 .. k : new[i] \in T
    OBVIOUS
  <2> HIDE DEF T
  <2>2. new \in [1 .. k -> T]
    BY ONLY <1>6, <2>1
  <2> QED BY ONLY <1>1, <2>2, ListIsSeq
<1> HIDE DEF T
<1>9. /\ bs \in Seq(T) /\ Len(bs) = n + k
      /\ \A b \in 1 .. n : bs[b] = old[b]
      /\ \A b \in n + 1 .. n + k : bs[b] = new[b - n]
  <2> DEFINE e == old \o new
  <2>1. /\ e \in Seq(T) /\ Len(e) = Len(old) + Len(new)
        /\ \A i \in 1 .. Len(old) : e[i] = old[i]
        /\ \A i \in Len(old) + 1 .. Len(old) + Len(new) : e[i] = new[i - Len(old)]
    BY ONLY <1>7, <1>8, Joined
  <2>2. e = bs
    BY <1>2
  <2> HIDE DEF e
  <2> QED BY ONLY <1>7, <1>8, <2>1, <2>2
<1>10. \A i \in 1 .. k : n + i \in n + 1 .. n + k /\ (n + i) - n = i
  BY <1>1
<1>11. \A i \in 1 .. k : bs[n + i] = new[i]
  BY <1>9, <1>10
<1>12. DOMAIN bs = 1 .. n + k
  BY <1>9, LenProperties
<1> QED BY <1>3, <1>4, <1>9, <1>11, <1>12 DEF n, k

LEMMA GrownNumbers ==
  ASSUME blocks \in Function, current \in 1 .. Len(blocks), Counts, Numbered,
         NEW code, NEW starts, NEW hints \in Seq(STRING),
         blocks' = L!Grown(code, hints, starts), uses' = L!Counted(hints)
  PROVE  Numbered'
<1> DEFINE n == Len(blocks)
           k == Len(hints)
           used(h) == L!Used(h)
           used1(h) == IF h \in DOMAIN uses' THEN uses'[h] ELSE 0
           c(i) == L!Cardinality(Upto(hints, i, hints[i]))
           all(h) == L!Cardinality(Every(hints, h))
           name(b) == blocks[b].label
           name1(b) == blocks'[b].label
<1>1. /\ n \in Nat \ {0} /\ DOMAIN blocks = 1 .. n /\ k \in Nat /\ DOMAIN hints = 1 .. k
      /\ \A b \in 1 .. n : name(b) \in Label
  BY FunctionFacts, LenProperties
<1>2. /\ DOMAIN blocks' = 1 .. n + k
      /\ \A b \in 1 .. n : name1(b) = name(b)
      /\ \A i \in 1 .. k : name1(n + i) = L!NewLabels(hints)[i]
  <2>1. PICK bs : bs = blocks'
    OBVIOUS
  <2>2. bs = L!Grown(code, hints, starts)
    BY <2>1
  <2>3. /\ DOMAIN bs = 1 .. Len(blocks) + Len(hints)
        /\ \A b \in 1 .. Len(blocks) : bs[b].label = blocks[b].label
        /\ \A i \in 1 .. Len(hints) : bs[Len(blocks) + i].label = L!NewLabels(hints)[i]
    BY ONLY <2>2, blocks \in Function, current \in 1 .. Len(blocks), hints \in Seq(STRING), GrownNames
  <2> QED BY ONLY <2>1, <2>3
<1>3. \A i \in 1 .. k : L!NewLabels(hints)[i] = <<hints[i], used(hints[i]) + c(i)>>
  BY <1>1 DEF L!NewLabels, Upto
<1>4. \A h : used(h) \in Nat
  BY DEF L!Used, Counts
<1>5. /\ \A h : all(h) \in Nat
      /\ \A i \in 1 .. k : c(i) \in Nat \ {0} /\ c(i) =< all(hints[i])
      /\ \A i, j \in 1 .. k : i < j /\ hints[i] = hints[j] => c(i) < c(j)
  BY HintNumbers
<1>6. uses' = [h \in DOMAIN uses \cup L!Range(hints) |-> used(h) + all(h)]
  BY DEF L!Counted, Every
<1>7. \A i \in 1 .. k : hints[i] \in L!Range(hints)
  BY <1>1 DEF L!Range
<1>8. \A h : h \notin DOMAIN uses => used(h) = 0
  BY DEF L!Used
<1> HIDE DEF used, c, all, name, name1
<1>9. \A h : used(h) =< used1(h)
  <2> TAKE h
  <2>1. CASE h \in DOMAIN uses \cup L!Range(hints)
    BY <1>4, <1>5, <1>6, <2>1
  <2>2. CASE h \notin DOMAIN uses \cup L!Range(hints)
    BY <1>4, <1>6, <1>8, <2>2
  <2> QED BY <2>1, <2>2
<1>10. \A i \in 1 .. k : used1(hints[i]) = used(hints[i]) + all(hints[i])
  BY <1>6, <1>7
<1>11. \A h : used1(h) \in Nat
  BY <1>4, <1>5, <1>6
<1> HIDE DEF used1
<1>12. \A b \in 1 .. n : name(b)[2] \in Nat /\ name(b)[2] =< used(name(b)[1])
  BY <1>1 DEF Numbered, name, used, Label
<1>13. \A b \in 1 .. n + k : b \in 1 .. n \/ (b - n \in 1 .. k /\ b = n + (b - n))
  BY <1>1
<1>14. \A i \in 1 .. k : name1(n + i) = <<hints[i], used(hints[i]) + c(i)>>
  BY <1>2, <1>3
<1>15. \A b \in 1 .. n + k : name1(b)[2] =< used1(name1(b)[1])
  <2> TAKE b \in 1 .. n + k
  <2>1. CASE b \in 1 .. n
    <3>1. name1(b) = name(b) /\ name(b)[2] \in Nat /\ name(b)[2] =< used(name(b)[1])
      BY <1>2, <1>12, <2>1
    <3>2. used(name(b)[1]) =< used1(name(b)[1]) /\ used(name(b)[1]) \in Nat /\ used1(name(b)[1]) \in Nat
      BY <1>4, <1>9, <1>11
    <3> QED BY <3>1, <3>2
  <2>2. CASE b - n \in 1 .. k /\ b = n + (b - n)
    <3> DEFINE i == b - n
    <3>1. i \in 1 .. k /\ b = n + i
      BY <2>2
    <3> HIDE DEF i
    <3>2. name1(b) = <<hints[i], used(hints[i]) + c(i)>>
      BY <1>14, <3>1
    <3>3. used(hints[i]) + c(i) =< used1(hints[i])
      BY <1>4, <1>5, <1>10, <3>1
    <3> QED BY <3>2, <3>3
  <2> QED BY <1>13, <2>1, <2>2
<1>16. \A b \in 1 .. n, i \in 1 .. k : name1(b) # name1(n + i)
  <2> TAKE b \in 1 .. n, i \in 1 .. k
  <2>1. name1(b) = name(b) /\ name(b)[2] \in Nat /\ name(b)[2] =< used(name(b)[1])
    BY <1>2, <1>12
  <2>2. name1(n + i) = <<hints[i], used(hints[i]) + c(i)>> /\ c(i) \in Nat \ {0} /\ used(hints[i]) \in Nat
    BY <1>4, <1>5, <1>14
  <2> SUFFICES ASSUME name(b) = <<hints[i], used(hints[i]) + c(i)>> PROVE FALSE
    BY <2>1, <2>2
  <2>3. used(hints[i]) + c(i) =< used(hints[i])
    BY <2>1
  <2> QED BY <2>2, <2>3
<1>17. \A i, j \in 1 .. k : name1(n + i) = name1(n + j) => i = j
  <2> TAKE i, j \in 1 .. k
  <2> SUFFICES ASSUME name1(n + i) = name1(n + j) PROVE i = j
    OBVIOUS
  <2>1. hints[i] = hints[j] /\ used(hints[i]) + c(i) = used(hints[j]) + c(j)
    BY <1>14
  <2>2. c(i) \in Nat /\ c(j) \in Nat /\ used(hints[i]) \in Nat
    BY <1>4, <1>5
  <2>3. c(i) = c(j)
    BY <2>1, <2>2
  <2>4. ~(i < j) /\ ~(j < i)
    BY <1>5, <2>1, <2>2, <2>3
  <2> QED BY <1>1, <2>4
<1>18. \A b, e \in 1 .. n : name(b) = name(e) => b = e
  BY <1>1 DEF Numbered, UniqueLabels, name
<1>19. \A b, e \in 1 .. n + k : name1(b) = name1(e) => b = e
  <2> TAKE b, e \in 1 .. n + k
  <2>1. CASE b \in 1 .. n /\ e \in 1 .. n
    BY <1>2, <1>18, <2>1
  <2>2. CASE b \in 1 .. n /\ e - n \in 1 .. k /\ e = n + (e - n)
    BY <1>16, <2>2
  <2>3. CASE e \in 1 .. n /\ b - n \in 1 .. k /\ b = n + (b - n)
    BY <1>16, <2>3
  <2>4. CASE b - n \in 1 .. k /\ b = n + (b - n) /\ e - n \in 1 .. k /\ e = n + (e - n)
    <3>1. name1(b) = name1(e) => b - n = e - n
      BY <1>17, <2>4
    <3> QED BY <2>4, <3>1
  <2> QED BY <1>13, <2>1, <2>2, <2>3, <2>4
<1> QED BY <1>2, <1>15, <1>19 DEF Numbered, UniqueLabels, L!Used, name1, used1

(* A step that adds code to a block at most names none. *)
LEMMA AppendNumbers ==
  ASSUME blocks \in Function, current \in 1 .. Len(blocks), Numbered, uses' = uses,
         blocks' = blocks \/ \E code : blocks' = [blocks EXCEPT ![current] = L!Extend(@, code)]
  PROVE  Numbered'
<1> DEFINE n == Len(blocks)
<1>1. DOMAIN blocks = 1 .. n /\ \A b \in 1 .. n : blocks[b] \in [label : Label, code : Seq(Instruction)]
  BY FunctionFacts DEF Block
<1>2. DOMAIN blocks' = 1 .. n /\ \A b \in 1 .. n : blocks'[b].label = blocks[b].label
  <2>1. CASE blocks' = blocks
    BY <1>1, <2>1
  <2>2. CASE \E code : blocks' = [blocks EXCEPT ![current] = L!Extend(@, code)]
    <3>1. PICK code : blocks' = [blocks EXCEPT ![current] = L!Extend(@, code)]
      BY <2>2
    <3>2. \A x \in [label : Label, code : Seq(Instruction)] : \A y : [x EXCEPT !.code = y].label = x.label
      OBVIOUS
    <3>3. L!Extend(blocks[current], code).label = blocks[current].label
      BY <1>1, <3>2 DEF L!Extend
    <3> QED BY <1>1, <3>1, <3>3
  <2> QED BY <2>1, <2>2
<1>3. \A h : L!Used(h)' = L!Used(h)
  BY DEF L!Used
<1> HIDE DEF n
<1> QED BY <1>1, <1>2, <1>3 DEF Numbered, UniqueLabels


LEMMA NumberStep ==
  ASSUME NEW F, NEW W, Handled(F, W), LowInv(F, W), Numbered, L!Next, \A s \in F : s.kind # "meta"
  PROVE  Numbered'
<1>1. Framed(W) /\ \E P : Written(blocks, current, P)
  BY DEF LowInv, Steered
<1>2. blocks \in Function /\ current \in 1 .. Len(blocks) /\ Counts
  BY <1>1 DEF Framed, Shaped, Written
<1>3. ASSUME uses' = uses,
             blocks' = blocks \/ \E code : blocks' = [blocks EXCEPT ![current] = L!Extend(@, code)]
      PROVE  Numbered'
  BY ONLY <1>2, <1>3, Numbered, AppendNumbers
<1>4. ASSUME NEW code, NEW starts, NEW hints \in Seq(STRING),
             blocks' = L!Grown(code, hints, starts), uses' = L!Counted(hints)
      PROVE  Numbered'
  BY ONLY <1>2, <1>4, Numbered, GrownNumbers
<1>5. CASE L!Skip \/ L!LowerIfKnown \/ L!LowerDefer \/ L!LowerReturn \/ L!DoSealed \/ L!DoEnter
           \/ L!DoPush \/ L!DoPop \/ L!EndFunction
  <2>1. UNCHANGED <<blocks, uses>>
    BY <1>5, Zenon DEF L!Skip, L!LowerIfKnown, L!LowerDefer, L!LowerReturn, L!DoSealed, L!DoEnter,
         L!DoPush, L!DoPop, L!EndFunction
  <2> QED BY <1>3, <2>1
<1>6. CASE L!LowerCall \/ L!LowerPurge \/ L!LowerBreak \/ L!LowerContinue \/ L!DoEmit
  <2>1. uses' = uses
    BY <1>6 DEF L!LowerCall, L!LowerPurge, L!LowerBreak, L!LowerContinue, L!DoEmit
  <2>2. blocks' = blocks \/ \E code : blocks' = [blocks EXCEPT ![current] = L!Extend(@, code)]
    <3>1. CASE L!LowerCall
      BY <3>1, Zenon DEF L!LowerCall, L!Append1
    <3>2. CASE L!LowerPurge
      BY <3>2, Zenon DEF L!LowerPurge, L!Append1
    <3>3. CASE L!LowerBreak
      BY <3>3, Zenon DEF L!LowerBreak, L!Append1
    <3>4. CASE L!LowerContinue
      BY <3>4, Zenon DEF L!LowerContinue, L!Append1
    <3>5. CASE L!DoEmit
      BY <3>5, Zenon DEF L!DoEmit
    <3> QED BY <1>6, <3>1, <3>2, <3>3, <3>4, <3>5
  <2> QED BY <1>3, <2>1, <2>2
<1>7. CASE L!LowerIf
  <2> DEFINE three == <<"then", "else", "merge">>
             two == <<"then", "merge">>
             hints == IF L!S.other # <<>> THEN three ELSE two
             l == L!NewLabels(hints)
  <2>1. three \in Seq(STRING) /\ two \in Seq(STRING)
    BY NameAssumption
  <2>2. /\ blocks' = L!Grown(<<L!Condi(L!S.name, l[1], l[2])>>, hints, <<>>)
        /\ uses' = L!Counted(hints)
    BY <1>7, Zenon DEF L!LowerIf
  <2>3. hints \in Seq(STRING)
    <3> HIDE DEF three, two
    <3> QED BY <2>1
  <2> HIDE DEF hints
  <2> QED BY <1>4, <2>2, <2>3
<1>8. CASE L!LowerWhile
  <2> DEFINE hints == <<"while_cond", "while_body", "while_end">>
             l == L!NewLabels(hints)
  <2>1. hints \in Seq(STRING)
    BY NameAssumption
  <2>2. /\ blocks' = L!Grown(IF L!S.kind = "while" THEN <<L!Jump(l[1])>> ELSE <<>>, hints,
                             <<<<L!Condi(L!S.name, l[2], l[3])>>>>)
        /\ uses' = L!Counted(hints)
    BY <1>8, Zenon DEF L!LowerWhile
  <2> HIDE DEF hints
  <2> QED BY <1>4, <2>1, <2>2
<1>9. CASE L!LowerLoop
  <2> DEFINE hints == <<"loop_body", "loop_end">>
  <2>1. hints \in Seq(STRING)
    BY NameAssumption
  <2>2. /\ blocks' = L!Grown(<<L!Jump(L!NewLabels(hints)[1])>>, hints, <<>>)
        /\ uses' = L!Counted(hints)
    BY <1>9, Zenon DEF L!LowerLoop
  <2> HIDE DEF hints
  <2> QED BY <1>4, <2>1, <2>2
<1>10. CASE L!LowerForIn
  <2> DEFINE hints == <<"for_cond", "for_body", "for_end">>
             l == L!NewLabels(hints)
  <2>1. hints \in Seq(STRING)
    BY NameAssumption
  <2>2. /\ blocks' = L!Grown(<<L!Call(<<"init">> \o L!S.name), L!Jump(l[1])>>, hints,
                             <<<<L!Condi(<<"more">> \o L!S.name, l[2], l[3])>>>>)
        /\ uses' = L!Counted(hints)
    BY <1>10, Zenon DEF L!LowerForIn
  <2> HIDE DEF hints
  <2> QED BY <1>4, <2>1, <2>2
<1>11. CASE L!LowerSwitch
  <2> DEFINE k == Len(L!S.body)
             has == IF L!S.other = <<>> THEN 0 ELSE 1
             hints == <<"switch_end">>
                        \o (IF has = 1 THEN <<"switch_default">> ELSE <<>>)
                        \o [i \in 1 .. k |-> "case"]
                        \o [i \in 1 .. (IF k = 0 THEN 0 ELSE k - 1) |-> CheckHint[k - i]]
             l == L!NewLabels(hints)
             default == l[1 + has]
             test(i) == L!Condi(L!Test(L!S.name, L!S.body[i].name), l[1 + has + i],
                                IF i < k THEN l[1 + has + k + i] ELSE default)
             starts == [j \in 1 .. Len(hints) |->
                          IF j > 1 + has + k THEN <<test(j - (1 + has + k) + 1)>> ELSE <<>>]
             code == IF k = 0 THEN <<>> ELSE <<test(1)>>
  <2>1. L!S \in F /\ L!S.kind = "switch"
    BY <1>11, StatementAhead DEF L!LowerSwitch, L!Stmt, L!S
  <2>2. k \in 1 .. (Len(CheckHint) + 1) /\ has \in {0, 1}
    BY <2>1, HandledFacts
  <2>3. blocks' = L!Grown(code, hints, starts) /\ uses' = L!Counted(hints)
    BY <1>11, Zenon DEF L!LowerSwitch
  <2>4. hints = <<"switch_end">>
                  \o (IF has = 1 THEN <<"switch_default">> ELSE <<>>)
                  \o [i \in 1 .. k |-> "case"]
                  \o [i \in 1 .. (IF k = 0 THEN 0 ELSE k - 1) |-> CheckHint[k - i]]
    OBVIOUS
  <2> HIDE DEF hints, k, has
  <2>5. hints \in Seq(STRING)
    BY ONLY <2>2, <2>4, SwitchHints
  <2> HIDE DEF code, starts
  <2> QED BY <1>4, <2>3, <2>5
<1>12. ~L!LowerMeta
  <2>1. ASSUME L!LowerMeta PROVE FALSE
    <3>1. L!S \in F /\ L!S.kind = "meta"
      BY <2>1, StatementAhead DEF L!LowerMeta, L!Stmt, L!S
    <3> QED BY <3>1
  <2> QED BY <2>1
<1> QED BY <1>5, <1>6, <1>7, <1>8, <1>9, <1>10, <1>11, <1>12 DEF L!Next

LEMMA NumberStart ==
  ASSUME Init
  PROVE  Numbered
<1> DEFINE none == <<>>
           first == [label |-> <<"entry", 1>>, code |-> none]
           name == <<"entry", 1>>
<1>1. blocks = <<first>> /\ uses = [h \in {"entry"} |-> 1]
  BY DEF Init, L!Init
<1>2. first.label = name /\ name[1] = "entry" /\ name[2] = 1
  OBVIOUS
<1> HIDE DEF first, name
<1>3. DOMAIN blocks = {1} /\ blocks[1].label = name
  BY <1>1, <1>2
<1>4. L!Used("entry") = 1
  BY <1>1 DEF L!Used
<1> QED BY <1>2, <1>3, <1>4 DEF Numbered, UniqueLabels

-----------------------------------------------------------------------------
(* The function on its way: it is lowered, alick accepts it, and from there on
   the invariant of the passes holds. *)
CompileInv(F, W) ==
  /\ phase = "lower" => LowInv(F, W) /\ pass = "waiting" /\ level \in 0..3
  /\ phase # "rejected"

LEMMA LowStutter ==
  ASSUME NEW F, NEW W, LowInv(F, W), UNCHANGED <<blocks, low>>
  PROVE  LowInv(F, W)'
<1>1. /\ blocks' = blocks /\ todo' = todo /\ current' = current /\ uses' = uses
      /\ loops' = loops /\ defers' = defers /\ closing' = closing
  BY DEF low
<1>2. Framed(W)'
  BY <1>1 DEF LowInv, Framed, Counts
<1>3. PICK f, P, q : Steered(F, W, f, P, q)
  BY DEF LowInv
<1>4. Knows(f)'
  BY <1>1, <1>3 DEF Steered, Knows, L!Continues
<1>5. Steered(F, W, f, P, q)'
  BY <1>1, <1>3, <1>4 DEF Steered
<1>6. \E x, y, z : Steered(F, W, x, y, z)'
  BY <1>5
<1> QED BY <1>2, <1>6 DEF LowInv

LEMMA CompileStep ==
  ASSUME NEW F, NEW W, Handled(F, W), CompileInv(F, W), [Next]_vars
  PROVE  CompileInv(F, W)'
<1>1. CASE Lower
  <2>1. phase = "lower" /\ phase' = phase /\ L!Next /\ UNCHANGED <<pass, level>>
    BY <1>1 DEF Lower, opt
  <2> QED BY <2>1, LowStep DEF CompileInv
<1>2. CASE Check
  <2>1. phase = "lower" /\ L!Lowered
    BY <1>2 DEF Check
  <2>2. Accepted(blocks)
    BY <2>1, LoweredIsAccepted DEF CompileInv
  <2>3. phase' = "optimise"
    BY <1>2, <2>2, Zenon DEF Check
  <2> QED BY <2>3 DEF CompileInv
<1>3. CASE Optimise
  BY <1>3 DEF Optimise, CompileInv
<1>4. CASE Recheck
  <2>1. phase' \in {"run", "broken"}
    BY <1>4, Zenon DEF Recheck
  <2> QED BY <2>1 DEF CompileInv
<1>5. CASE Run
  <2>1. phase' \in {"run", "stopped"}
    BY <1>5, Zenon DEF Run
  <2> QED BY <2>1 DEF CompileInv
<1>6. CASE UNCHANGED vars
  <2>1. UNCHANGED <<blocks, low>> /\ UNCHANGED <<phase, pass, level>>
    BY <1>6 DEF vars, opt
  <2>2. LowInv(F, W) => LowInv(F, W)'
    BY <2>1, LowStutter
  <2> QED BY <2>1, <2>2 DEF CompileInv
<1> QED BY <1>1, <1>2, <1>3, <1>4, <1>5, <1>6 DEF Next

(* alick has nothing to reject in what the lowering makes, whatever the body is
   and however deep its loops, switches and deferred statements are nested: every block
   has one end, and every branch a block to go to (alick_check_cfg). *)
THEOREM LoweringIsAccepted ==
  ASSUME NEW CONSTANT F, NEW CONSTANT W, Handled(F, W), Jobs \subseteq Seq(F) \X (0..3)
  PROVE  Spec => []LoweringAccepted
<1>1. Init => CompileInv(F, W)
  BY LowStart DEF CompileInv
<1>2. CompileInv(F, W) /\ [Next]_vars => CompileInv(F, W)'
  BY CompileStep
<1>3. CompileInv(F, W) => LoweringAccepted
  BY DEF CompileInv, LoweringAccepted
<1> QED BY <1>1, <1>2, <1>3, PTL DEF Spec

(* Where the body has no @meta block, whose function starts the count of labels
   again, the labels are unique too. *)
PassInv(F, W) ==
  /\ CompileInv(F, W)
  /\ phase = "lower" => Numbered
  /\ phase # "lower" => OptInv /\ blocks[1].label = <<"entry", 1>>

LEMMA CheckBegins ==
  ASSUME NEW F, NEW W, PassInv(F, W), Check
  PROVE  OptInv' /\ blocks'[1].label = <<"entry", 1>>
<1>1. /\ LowInv(F, W) /\ L!Lowered /\ pass = "waiting" /\ level \in 0..3 /\ UniqueLabels
  BY DEF PassInv, CompileInv, Numbered, Check
<1>2. /\ blocks \in Function /\ Accepted(blocks) /\ blocks[1].label = <<"entry", 1>>
      /\ \A b \in DOMAIN blocks : blocks[1].label \notin TargetsOf(blocks[b])
  BY <1>1, LoweredIsAccepted
<1>3. OptInv
  BY <1>1, <1>2 DEF OptInv, EntryJumps, Running
<1>4. BeginPasses
  BY <1>2, Zenon DEF Check
<1> QED BY <1>2, <1>3, <1>4, OptStep

LEMMA OptStutter ==
  ASSUME OptInv, UNCHANGED <<blocks, level, pass>>
  PROVE  OptInv'
BY DEF OptInv, UniqueLabels, EntryJumps, Running

LEMMA PassStep ==
  ASSUME NEW F, NEW W, Handled(F, W), \A s \in F : s.kind # "meta", PassInv(F, W), [Next]_vars
  PROVE  PassInv(F, W)'
<1>1. CompileInv(F, W)'
  BY CompileStep DEF PassInv
<1>2. CASE Lower
  <2>1. phase = "lower" /\ phase' = phase /\ L!Next
    BY <1>2 DEF Lower
  <2>2. Numbered'
    BY <2>1, NumberStep DEF PassInv, CompileInv
  <2> QED BY <1>1, <2>1, <2>2 DEF PassInv
<1>3. CASE Check
  <2>1. phase' # "lower"
    BY <1>3, Zenon DEF Check
  <2>2. OptInv' /\ blocks'[1].label = <<"entry", 1>>
    BY <1>3, CheckBegins
  <2> QED BY <1>1, <2>1, <2>2 DEF PassInv
<1>4. CASE Optimise
  <2>1. phase = "optimise" /\ phase' = phase /\ Pass
    BY <1>4 DEF Optimise
  <2>2. OptInv' /\ blocks'[1].label = blocks[1].label
    BY <2>1, OptStep DEF PassInv
  <2> QED BY <1>1, <2>1, <2>2 DEF PassInv
<1>5. CASE Recheck \/ Run
  <2>1. phase # "lower" /\ phase' # "lower" /\ UNCHANGED <<blocks, level, pass>>
    <3>1. CASE Recheck
      BY <3>1, Zenon DEF Recheck, opt
    <3>2. CASE Run
      BY <3>2, Zenon DEF Run, opt
    <3> QED BY <1>5, <3>1, <3>2
  <2>2. OptInv'
    BY <2>1, OptStutter DEF PassInv
  <2> QED BY <1>1, <2>1, <2>2 DEF PassInv
<1>6. CASE UNCHANGED vars
  <2>1. UNCHANGED <<blocks, uses, phase, level, pass>>
    BY <1>6 DEF vars, low, opt
  <2>2. Numbered => Numbered'
    BY <2>1 DEF Numbered, UniqueLabels, L!Used
  <2>3. OptInv => OptInv'
    BY <2>1, OptStutter
  <2> QED BY <1>1, <2>1, <2>2, <2>3 DEF PassInv
<1> QED BY <1>2, <1>3, <1>4, <1>5, <1>6 DEF Next

LEMMA PassInvariant ==
  ASSUME NEW CONSTANT F, NEW CONSTANT W, Handled(F, W), \A s \in F : s.kind # "meta",
         Jobs \subseteq Seq(F) \X (0..3)
  PROVE  Spec => []PassInv(F, W)
<1>1. Init => PassInv(F, W)
  BY LowStart, NumberStart DEF PassInv, CompileInv
<1>2. PassInv(F, W) /\ [Next]_vars => PassInv(F, W)'
  BY PassStep
<1> QED BY <1>1, <1>2, PTL DEF Spec

(* Two blocks of a function never get the same label, from the first one the
   generators ask for to the end of the passes, as long as no @meta block is
   lowered among them (alir_add_block). *)
THEOREM LabelsStayUnique ==
  ASSUME NEW CONSTANT F, NEW CONSTANT W, Handled(F, W), \A s \in F : s.kind # "meta",
         Jobs \subseteq Seq(F) \X (0..3)
  PROVE  Spec => []UniqueLabels
<1>1. PassInv(F, W) => UniqueLabels
  BY DEF PassInv, OptInv, Numbered
<1> QED BY <1>1, PassInvariant, PTL

(* What alick accepted once it accepts after every pass, for every function
   that was lowered from such a body: the second check never fails. *)
THEOREM CompiledStaysAccepted ==
  ASSUME NEW CONSTANT F, NEW CONSTANT W, Handled(F, W), \A s \in F : s.kind # "meta",
         Jobs \subseteq Seq(F) \X (0..3)
  PROVE  Spec => []StaysAccepted
<1>1. PassInv(F, W) => StaysAccepted
  BY DEF PassInv, CompileInv, OptInv, StaysAccepted
<1> QED BY <1>1, PassInvariant, PTL

(* Below level 2, where no blocks are merged, no pass leaves a branch to a block
   that is gone or brings one to the entry. *)
THEOREM NoJumpIsLost ==
  ASSUME NEW CONSTANT F, NEW CONSTANT W, Handled(F, W), \A s \in F : s.kind # "meta",
         Jobs \subseteq Seq(F) \X (0..1)
  PROVE  Spec => []NoLostJump
<1>1. Jobs \subseteq Seq(F) \X (0..3)
  <2>1. Seq(F) \X (0..1) \subseteq Seq(F) \X (0..3)
    OBVIOUS
  <2> QED BY <2>1
<1>2. Spec => []PassInv(F, W)
  BY <1>1, PassInvariant
<1>3. Init => level \in 0..1
  <2> SUFFICES ASSUME Init PROVE level \in 0..1
    OBVIOUS
  <2>1. PICK job \in Jobs : Waiting(job[2])
    BY DEF Init
  <2>2. \A j \in Seq(F) \X (0..1) : j[2] \in 0..1
    OBVIOUS
  <2> QED BY <2>1, <2>2 DEF Waiting
<1>4. level \in 0..1 /\ [Next]_vars => (level \in 0..1)'
  <2> SUFFICES ASSUME level \in 0..1, [Next]_vars PROVE level' = level
    OBVIOUS
  <2>1. CASE Lower \/ Recheck \/ Run \/ UNCHANGED vars
    BY <2>1 DEF Lower, Recheck, Run, vars, opt
  <2>2. CASE Check
    BY <2>2 DEF Check, BeginPasses, opt
  <2>3. CASE Optimise
    BY <2>3 DEF Optimise, Pass, RemoveUnreachable, ForwardBlock, PassBlock, SweepAgain, EndForward,
         PropagateConstants, FoldBranches, MergeBlocks, EndMerge
  <2> QED BY <2>1, <2>2, <2>3 DEF Next
<1>5. PassInv(F, W) /\ level \in 0..1 => NoLostJump
  <2> SUFFICES ASSUME PassInv(F, W), level \in 0..1, phase = "optimise", NEW b \in DOMAIN blocks
               PROVE  TargetsOf(blocks[b]) \subseteq Labels(blocks) \ {<<"entry", 1>>}
    BY DEF NoLostJump, Optimising
  <2>1. OptInv /\ blocks[1].label = <<"entry", 1>>
    BY DEF PassInv
  <2>2. TargetsOf(blocks[b]) \subseteq Labels(blocks)
    BY <2>1, TargetsExist DEF OptInv
  <2>3. blocks[1].label \notin TargetsOf(blocks[b])
    BY <2>1 DEF OptInv, EntryJumps
  <2> QED BY <2>1, <2>2, <2>3
<1> QED BY <1>2, <1>3, <1>4, <1>5, PTL DEF Spec

(* The entry of the function is its entry to the end, for every function that
   was lowered from such a body. *)
THEOREM CompiledKeepsEntry ==
  ASSUME NEW CONSTANT F, NEW CONSTANT W, Handled(F, W), \A s \in F : s.kind # "meta",
         Jobs \subseteq Seq(F) \X (0..3)
  PROVE  Spec => EntryStays
<1>1. PassInv(F, W) /\ [Next]_vars => [pass # "waiting" => blocks'[1].label = blocks[1].label]_optVars
  <2> SUFFICES ASSUME PassInv(F, W), [Next]_vars, pass # "waiting"
               PROVE  blocks'[1].label = blocks[1].label
    BY Zenon
  <2>1. phase # "lower" /\ OptInv
    BY DEF PassInv, CompileInv
  <2>2. CASE Optimise
    BY <2>1, <2>2, OptStep DEF Optimise
  <2>3. CASE Recheck \/ Run \/ UNCHANGED vars
    BY <2>3 DEF Recheck, Run, vars
  <2> QED BY <2>1, <2>2, <2>3 DEF Next, Lower, Check
<1> QED BY <1>1, PassInvariant, PTL DEF Spec, EntryStays

(* What a function lowered from such a body does, the optimiser leaves as it
   is: after every step of every pass it offers the calls, tests and ends it
   offered before, at every point of every run, except where merging takes
   over a loop. *)
THEOREM CompiledKeepsBehaviour ==
  ASSUME NEW CONSTANT F, NEW CONSTANT W, Handled(F, W), \A s \in F : s.kind # "meta",
         Jobs \subseteq Seq(F) \X (0..3)
  PROVE  Spec => BehaviourKept
<1>1. PassInv(F, W) /\ [Next]_vars
        => [\/ pass = "waiting"
            \/ TakesLoop
            \/ \E R : Bisimulation(blocks, blocks', R)]_optVars
  <2> SUFFICES ASSUME PassInv(F, W), [Next]_vars, pass # "waiting", ~TakesLoop, optVars' # optVars
               PROVE  \E R : Bisimulation(blocks, blocks', R)
    BY Zenon
  <2>1. phase # "lower" /\ OptInv
    BY DEF PassInv, CompileInv
  <2>2. CASE Optimise
    <3>1. Pass
      BY <2>2 DEF Optimise
    <3> QED BY <2>1, <3>1, MeaningStep
  <2>3. CASE Recheck \/ Run \/ UNCHANGED vars
    <3>1. blocks' = blocks
      BY <2>3 DEF Recheck, Run, vars
    <3> QED BY <2>1, <3>1, NothingChanged
  <2> QED BY <2>1, <2>2, <2>3 DEF Next, Lower, Check
<1> QED BY <1>1, PassInvariant, PTL DEF Spec, BehaviourKept

(* What the passes need to come to an end, from the start of the lowering on. *)
EndInv(F, W) == PassInv(F, W) /\ Steering

LEMMA MeasureStep ==
  ASSUME NEW F, NEW W, Handled(F, W), \A s \in F : s.kind # "meta", EndInv(F, W), [Next]_vars
  PROVE  Steering'
<1>1. PassInv(F, W)' /\ PassInv(F, W) /\ Steering
  BY PassStep DEF EndInv
<1>2. CASE Lower
  <2>1. pass = "waiting" /\ pass' = pass /\ rounds' = rounds
    BY <1>1, <1>2 DEF Lower, opt, PassInv, CompileInv
  <2> QED BY <1>1, <2>1 DEF Steering
<1>3. CASE Check
  <2>1. BeginPasses
    BY <1>1, <1>3, LoweredIsAccepted, Zenon DEF Check, PassInv, CompileInv
  <2>2. pass = "waiting" /\ pass' # "forward" /\ rounds' = rounds
    BY <2>1 DEF BeginPasses
  <2> QED BY <1>1, <2>2 DEF Steering
<1>4. CASE Optimise
  <2>1. Pass /\ OptInv /\ OptInv'
    BY <1>1, <1>4 DEF Optimise, PassInv
  <2> QED BY <1>1, <2>1, SteeringStep DEF ProgressInv
<1>5. CASE Recheck \/ Run \/ UNCHANGED vars
  <2>1. UNCHANGED <<blocks, pass, at, rounds>>
    BY <1>5 DEF Recheck, Run, vars, opt
  <2> QED BY <1>1, <2>1 DEF Steering
<1> QED BY <1>2, <1>3, <1>4, <1>5 DEF Next

(* The passes come to an end on every function that was lowered from such a
   body, at every level: each step of the optimiser makes the measure smaller,
   whose parts are natural numbers from the check of the function on. *)
THEOREM CompiledPassesEnd ==
  ASSUME NEW CONSTANT F, NEW CONSTANT W, Handled(F, W), \A s \in F : s.kind # "meta",
         Jobs \subseteq Seq(F) \X (0..3)
  PROVE  Spec => /\ [](phase # "lower" => MeasureOK)
                 /\ [][Optimise => Less(Measure', Measure)]_vars
<1>1. Init => Steering
  <2> SUFFICES ASSUME Init PROVE Steering
    OBVIOUS
  <2>1. PICK job \in Jobs : Waiting(job[2])
    BY DEF Init
  <2>2. pass = "waiting" /\ rounds = RoundsAt(level)
    BY <2>1 DEF Waiting
  <2> QED BY <2>2, RoundsAssumption DEF Steering, RoundsAt
<1>2. EndInv(F, W) /\ [Next]_vars => Steering'
  BY MeasureStep
<1>3. EndInv(F, W) => (phase # "lower" => MeasureOK)
  BY ProgressMeasure DEF EndInv, PassInv, ProgressInv
<1>4. EndInv(F, W) /\ [Next]_vars => [Optimise => Less(Measure', Measure)]_vars
  <2> SUFFICES ASSUME EndInv(F, W), Optimise PROVE Less(Measure', Measure)
    OBVIOUS
  <2>1. Pass /\ ProgressInv
    BY DEF Optimise, EndInv, PassInv, ProgressInv
  <2> QED BY <2>1, StepProgresses
<1>5. EndInv(F, W) <=> PassInv(F, W) /\ Steering
  BY DEF EndInv
<1>6. Spec => []PassInv(F, W)
  BY PassInvariant
<1> QED BY <1>1, <1>2, <1>3, <1>4, <1>5, <1>6, PTL DEF Spec

(* Whatever the level, no pass leaves a branch to a block that is gone: every
   label a block names is the label of a block.  And a branch to the entry
   comes from one place only, the entry itself, where merging from level 2 on
   has made a block take over the end of the loop it stands in. *)
THEOREM CompiledJumps ==
  ASSUME NEW CONSTANT F, NEW CONSTANT W, Handled(F, W), \A s \in F : s.kind # "meta",
         Jobs \subseteq Seq(F) \X (0..3)
  PROVE  Spec => [](Optimising =>
                      \A b \in DOMAIN blocks :
                        /\ TargetsOf(blocks[b]) \subseteq Labels(blocks)
                        /\ <<"entry", 1>> \in TargetsOf(blocks[b]) => b = 1 /\ level >= 2)
<1>1. PassInv(F, W) => (Optimising =>
                      \A b \in DOMAIN blocks :
                        /\ TargetsOf(blocks[b]) \subseteq Labels(blocks)
                        /\ <<"entry", 1>> \in TargetsOf(blocks[b]) => b = 1 /\ level >= 2)
  <2> SUFFICES ASSUME PassInv(F, W), phase = "optimise", NEW b \in DOMAIN blocks
               PROVE  /\ TargetsOf(blocks[b]) \subseteq Labels(blocks)
                      /\ <<"entry", 1>> \in TargetsOf(blocks[b]) => b = 1 /\ level >= 2
    BY DEF Optimising
  <2>1. OptInv /\ blocks[1].label = <<"entry", 1>>
    BY DEF PassInv
  <2>2. TargetsOf(blocks[b]) \subseteq Labels(blocks)
    BY <2>1, TargetsExist DEF OptInv
  <2>3. blocks[1].label \in TargetsOf(blocks[b]) => b = 1 /\ level >= 2
    BY <2>1 DEF OptInv, EntryJumps
  <2> QED BY <2>1, <2>2, <2>3
<1> QED BY <1>1, PassInvariant, PTL
=============================================================================
