---------------------------- MODULE MetaVMProofs ----------------------------
(***************************************************************************)
(* What functions that run at the same time have allocated stays apart, in *)
(* every session, for every well-formed code and however deep the calls    *)
(* are.  The argument is about the stack of frames: an object is given to  *)
(* the innermost frame only when it is new, and a result that is handed to *)
(* a caller never takes the register of one of the caller's objects.       *)
(***************************************************************************)
EXTENDS MetaVM, Iterations, TLAPS

Frame(f, a, d, b, i, n, g) ==
  [fn |-> f, args |-> a, dest |-> d, b |-> b, i |-> i, next |-> n, regs |-> g]

IsFrame(r) == r = Frame(r.fn, r.args, r.dest, r.b, r.i, r.next, r.regs)

(* The code of the functions that can be called. *)
Codes == [f \in DOMAIN funcs |-> CodeAt(f)]

(* A frame of a function whose code is among cs stands at an instruction, or
   behind the last one of its block. *)
FrameOK(cs, r) ==
  /\ IsFrame(r)
  /\ r.fn \in DOMAIN cs
  /\ r.b \in DOMAIN cs[r.fn].blocks
  /\ r.i \in 1..(Len(cs[r.fn].blocks[r.b]) + 1)
  /\ r.next \in Nat \ {0}

Objects(h)   == {PtrTo(o, 0) : o \in 1..h}
OwnOf(cs, r) == {r.regs[n] : n \in Made(cs[r.fn]) \cap DOMAIN r.regs}

(* The frame r stands at the call that s executes. *)
Calls(cs, r, s) ==
  LET block == cs[r.fn].blocks[r.b]
  IN  /\ r.i \in 1..Len(block)
      /\ block[r.i].op = "call"
      /\ block[r.i].dest = s.dest
      /\ cs[r.fn].vals[block[r.i].op1].name = s.fn

(* The frames fs when h objects have been allocated. *)
Stack(cs, fs, h) ==
  /\ \E S : fs \in Seq(S)
  /\ \A k \in DOMAIN fs : FrameOK(cs, fs[k]) /\ OwnOf(cs, fs[k]) \subseteq Objects(h)
  /\ \A k \in DOMAIN fs : \A j \in 1..(k - 1) : OwnOf(cs, fs[j]) \cap OwnOf(cs, fs[k]) = {}
  /\ \A k \in 2..Len(fs) : Calls(cs, fs[k - 1], fs[k])

(* The innermost frame becomes r. *)
TopIs(fs, r) == [fs EXCEPT ![Len(fs)] = r]

-----------------------------------------------------------------------------
LEMMA StackDomain ==
  ASSUME NEW cs, NEW fs, NEW h, Stack(cs, fs, h)
  PROVE  Len(fs) \in Nat /\ DOMAIN fs = 1..Len(fs)
<1>1. PICK S : fs \in Seq(S)
  BY DEF Stack
<1> QED BY <1>1, LenProperties

LEMMA FewerObjects ==
  ASSUME NEW h \in Nat, NEW g \in Nat, h <= g
  PROVE  /\ Objects(h) \subseteq Objects(g)
         /\ h < g => PtrTo(g, 0) \notin Objects(h)
BY DEF Objects, PtrTo

(* No function is executed. *)
LEMMA EmptyStack == ASSUME NEW cs, NEW h PROVE Stack(cs, <<>>, h)
<1>1. Len(<<>>) = 0 /\ DOMAIN <<>> = {} /\ <<>> \in Seq({})
  OBVIOUS
<1>2. \E S : <<>> \in Seq(S)
  BY <1>1
<1> DEFINE none == <<>>
<1>3. none = <<>>
  OBVIOUS
<1> HIDE DEF none
<1>4. Stack(cs, none, h)
  BY <1>1, <1>2, <1>3 DEF Stack
<1> QED BY <1>3, <1>4

(* A call. *)
LEMMA Pushed ==
  ASSUME NEW cs, NEW fs, NEW h, Stack(cs, fs, h),
         NEW r, FrameOK(cs, r), OwnOf(cs, r) = {},
         fs # <<>> => Calls(cs, fs[Len(fs)], r)
  PROVE  Stack(cs, Append(fs, r), h)
<1> DEFINE gs == Append(fs, r)
           K  == Len(fs)
<1>1. PICK S : fs \in Seq(S)
  BY DEF Stack
<1>2. fs \in Seq(S \cup {r}) /\ r \in S \cup {r}
  BY <1>1
<1>3. /\ gs \in Seq(S \cup {r}) /\ Len(gs) = K + 1 /\ K \in Nat
      /\ \A i \in 1..K : gs[i] = fs[i]
      /\ gs[K + 1] = r
  BY <1>2, AppendProperties, LenProperties
<1>4. DOMAIN gs = 1..(K + 1) /\ DOMAIN fs = 1..K
  BY <1>1, <1>3, LenProperties
<1>5. K > 0 => fs # <<>>
  OBVIOUS
<1> HIDE DEF gs, K
<1>6. \A k \in DOMAIN gs : FrameOK(cs, gs[k]) /\ OwnOf(cs, gs[k]) \subseteq Objects(h)
  BY <1>3, <1>4 DEF Stack
<1>7. \A k \in DOMAIN gs : \A j \in 1..(k - 1) : OwnOf(cs, gs[j]) \cap OwnOf(cs, gs[k]) = {}
  BY <1>3, <1>4 DEF Stack
<1>8. \A k \in 2..Len(gs) : Calls(cs, gs[k - 1], gs[k])
  <2> TAKE k \in 2..Len(gs)
  <2>1. CASE k = K + 1
    BY <1>3, <1>5, <2>1 DEF K
  <2>2. CASE k # K + 1
    BY <1>3, <2>2 DEF Stack, K
  <2> QED BY <2>1, <2>2
<1> QED BY <1>3, <1>6, <1>7, <1>8 DEF Stack, gs

(* A return. *)
LEMMA Popped ==
  ASSUME NEW cs, NEW fs, NEW h, Stack(cs, fs, h), fs # <<>>
  PROVE  /\ Stack(cs, Front(fs), h)
         /\ Len(Front(fs)) = Len(fs) - 1
         /\ \A i \in 1..(Len(fs) - 1) : Front(fs)[i] = fs[i]
<1> DEFINE gs == Front(fs)
           K  == Len(fs)
<1>1. PICK S : fs \in Seq(S)
  BY DEF Stack
<1>2. K \in Nat \ {0} /\ DOMAIN fs = 1..K
  BY <1>1, LenProperties, EmptySeq
<1>3. /\ gs \in Seq(S) /\ Len(gs) = K - 1
      /\ \A i \in 1..(K - 1) : gs[i] = fs[i]
  <2> DEFINE m == K - 1
  <2>1. m \in Nat /\ 1 \in Nat \ {0} /\ 1 =< m + 1 /\ m =< Len(fs) /\ (m - 1) + 1 = m
    BY <1>2
  <2>2. gs = SubSeq(fs, 1, m)
    BY DEF Front
  <2> HIDE DEF m, gs
  <2>3. /\ SubSeq(fs, 1, m) \in Seq(S) /\ Len(SubSeq(fs, 1, m)) = (m - 1) + 1
        /\ \A i \in 1 .. (m - 1) + 1 : SubSeq(fs, 1, m)[i] = fs[(1 + i) - 1]
    BY ONLY <1>1, <2>1, Slice
  <2>4. \A i \in 1..m : (1 + i) - 1 = i
    BY <2>1
  <2>5. gs \in Seq(S) /\ Len(gs) = m /\ \A i \in 1..m : gs[i] = fs[i]
    BY <2>1, <2>2, <2>3, <2>4
  <2> QED BY <2>5 DEF m
<1>4. DOMAIN gs = 1..(K - 1)
  BY <1>3, LenProperties
<1> HIDE DEF gs, K
<1>5. \A k \in DOMAIN gs : FrameOK(cs, gs[k]) /\ OwnOf(cs, gs[k]) \subseteq Objects(h)
  BY <1>2, <1>3, <1>4 DEF Stack
<1>6. \A k \in DOMAIN gs : \A j \in 1..(k - 1) : OwnOf(cs, gs[j]) \cap OwnOf(cs, gs[k]) = {}
  BY <1>2, <1>3, <1>4 DEF Stack
<1>7. \A k \in 2..Len(gs) : Calls(cs, gs[k - 1], gs[k])
  BY <1>2, <1>3, <1>4 DEF Stack, K
<1>8. Stack(cs, gs, h)
  BY <1>3, <1>5, <1>6, <1>7 DEF Stack
<1> QED BY <1>3, <1>8 DEF gs, K

(* The innermost frame goes on, perhaps with one more object, which is new. *)
LEMMA Changed ==
  ASSUME NEW cs, NEW fs, NEW h \in Nat, Stack(cs, fs, h), fs # <<>>,
         NEW r, FrameOK(cs, r), r.fn = fs[Len(fs)].fn, r.dest = fs[Len(fs)].dest,
         NEW g \in Nat, h <= g,
         OwnOf(cs, r) \subseteq OwnOf(cs, fs[Len(fs)]) \cup (Objects(g) \ Objects(h))
  PROVE  Stack(cs, TopIs(fs, r), g)
<1> DEFINE gs == TopIs(fs, r)
           K  == Len(fs)
<1>1. PICK S : fs \in Seq(S)
  BY DEF Stack
<1>2. K \in Nat \ {0} /\ DOMAIN fs = 1..K
  BY <1>1, LenProperties, EmptySeq
<1>3. /\ gs \in Seq(S \cup {r}) /\ Len(gs) = K /\ DOMAIN gs = 1..K
      /\ gs[K] = r
      /\ \A i \in 1..(K - 1) : gs[i] = fs[i]
  <2>1. gs = [fs EXCEPT ![K] = r]
    BY DEF TopIs
  <2> HIDE DEF gs, K
  <2>2. fs \in [1..K -> S] /\ K \in DOMAIN fs
    BY <1>1, <1>2 DEF K
  <2>3. gs \in [1..K -> S \cup {r}] /\ gs[K] = r /\ \A i \in 1..K : i # K => gs[i] = fs[i]
    BY <2>1, <2>2
  <2>4. gs \in Seq(S \cup {r}) /\ DOMAIN gs = 1..K
    BY <1>2, <2>3
  <2>5. Len(gs) = K
    BY <1>2, <2>4, LenProperties
  <2>6. \A i \in 1..(K - 1) : i \in 1..K /\ i # K
    BY <1>2
  <2> QED BY <2>3, <2>4, <2>5, <2>6
<1>4. Objects(h) \subseteq Objects(g)
  BY FewerObjects
<1>0. /\ \A k \in 1..K : FrameOK(cs, fs[k]) /\ OwnOf(cs, fs[k]) \subseteq Objects(h)
      /\ \A k \in 1..K : \A j \in 1..(k - 1) : OwnOf(cs, fs[j]) \cap OwnOf(cs, fs[k]) = {}
      /\ \A k \in 2..K : Calls(cs, fs[k - 1], fs[k])
      /\ r.fn = fs[K].fn /\ r.dest = fs[K].dest
      /\ OwnOf(cs, r) \subseteq OwnOf(cs, fs[K]) \cup (Objects(g) \ Objects(h))
  BY <1>2 DEF Stack
<1> HIDE DEF gs, K
<1>5. \A k \in DOMAIN gs : FrameOK(cs, gs[k]) /\ OwnOf(cs, gs[k]) \subseteq Objects(g)
  <2> SUFFICES ASSUME NEW k \in 1..K
               PROVE  FrameOK(cs, gs[k]) /\ OwnOf(cs, gs[k]) \subseteq Objects(g)
    BY <1>3
  <2>1. FrameOK(cs, fs[k]) /\ OwnOf(cs, fs[k]) \subseteq Objects(h)
    BY <1>0
  <2>2. CASE k = K
    BY <1>0, <1>3, <1>4, <2>1, <2>2
  <2>3. CASE k # K
    <3>1. k \in 1..(K - 1)
      BY <1>2, <2>3
    <3> QED BY <1>3, <1>4, <2>1, <3>1
  <2> QED BY <2>2, <2>3
<1>6. \A k \in DOMAIN gs : \A j \in 1..(k - 1) : OwnOf(cs, gs[j]) \cap OwnOf(cs, gs[k]) = {}
  <2> SUFFICES ASSUME NEW k \in 1..K, NEW j \in 1..(k - 1)
               PROVE  OwnOf(cs, gs[j]) \cap OwnOf(cs, gs[k]) = {}
    BY <1>3
  <2>1. /\ j \in 1..(K - 1) /\ gs[j] = fs[j]
        /\ OwnOf(cs, fs[j]) \subseteq Objects(h)
        /\ OwnOf(cs, fs[j]) \cap OwnOf(cs, fs[k]) = {}
    <3>1. j \in 1..(K - 1)
      BY <1>2
    <3>2. j \in 1..K
      BY <1>2
    <3> QED BY <1>0, <1>3, <3>1, <3>2
  <2>2. CASE k = K
    BY <1>0, <1>3, <2>1, <2>2
  <2>3. CASE k # K
    <3>1. k \in 1..(K - 1)
      BY <1>2, <2>3
    <3> QED BY <1>3, <2>1, <3>1
  <2> QED BY <2>2, <2>3
<1>7. \A k \in 2..Len(gs) : Calls(cs, gs[k - 1], gs[k])
  <2> SUFFICES ASSUME NEW k \in 2..K PROVE Calls(cs, gs[k - 1], gs[k])
    BY <1>3
  <2>1. Calls(cs, fs[k - 1], fs[k]) /\ gs[k - 1] = fs[k - 1]
    <3>1. k - 1 \in 1..(K - 1)
      BY <1>2
    <3> QED BY <1>0, <1>3, <3>1
  <2>2. CASE k = K
    BY <1>0, <1>3, <2>1, <2>2 DEF Calls
  <2>3. CASE k # K
    <3>1. k \in 1..(K - 1)
      BY <1>2, <2>3
    <3> QED BY <1>3, <2>1, <3>1
  <2> QED BY <2>2, <2>3
<1>8. Stack(cs, gs, g)
  BY <1>3, <1>5, <1>6, <1>7 DEF Stack
<1> QED BY <1>8 DEF gs
-----------------------------------------------------------------------------
(* How the steps of the machine write the innermost frame. *)
Turned(fs, x)    == Proceed([fs EXCEPT ![Len(fs)].next = x])
Filled(fs, n, v) == Proceed([fs EXCEPT ![Len(fs)].regs = Bound(@, n, v)])
Entered(fs, x)   == [fs EXCEPT ![Len(fs)].b = x, ![Len(fs)].i = 1, ![Len(fs)].next = x + 1]

LEMMA TopWritten ==
  ASSUME NEW S, NEW fs \in Seq(S), fs # <<>>, NEW r, r = fs[Len(fs)], IsFrame(r),
         NEW x, NEW v, NEW n
  PROVE  /\ Proceed(fs) = TopIs(fs, Frame(r.fn, r.args, r.dest, r.b, r.i + 1, r.next, r.regs))
         /\ Turned(fs, x) = TopIs(fs, Frame(r.fn, r.args, r.dest, r.b, r.i + 1, x, r.regs))
         /\ Filled(fs, n, v)
              = TopIs(fs, Frame(r.fn, r.args, r.dest, r.b, r.i + 1, r.next, Bound(r.regs, n, v)))
         /\ Entered(fs, x) = TopIs(fs, Frame(r.fn, r.args, r.dest, x, 1, x + 1, r.regs))
<1> DEFINE K == Len(fs)
<1>1. K \in Nat \ {0} /\ DOMAIN fs = 1..K
  BY LenProperties, EmptySeq
<1>2. \A a, b : TopIs(TopIs(fs, a), b) = TopIs(fs, b) /\ TopIs(fs, a)[K] = a
                /\ Len(TopIs(fs, a)) = K
  <2> SUFFICES ASSUME NEW a, NEW b
               PROVE  /\ TopIs(TopIs(fs, a), b) = TopIs(fs, b) /\ TopIs(fs, a)[K] = a
                      /\ Len(TopIs(fs, a)) = K
    OBVIOUS
  <2> DEFINE gs == TopIs(fs, a)
  <2>1. gs = [fs EXCEPT ![K] = a]
    BY DEF TopIs
  <2>2. gs \in [1..K -> S \cup {a}] /\ gs[K] = a
    <3> HIDE DEF gs
    <3>1. fs \in [1..K -> S]
      BY <1>1
    <3> HIDE DEF K
    <3> QED BY <1>1, <2>1, <3>1
  <2>3. Len(gs) = K
    <3> HIDE DEF gs
    <3>1. gs \in Seq(S \cup {a}) /\ DOMAIN gs = 1..K
      BY <1>1, <2>2
    <3> QED BY <1>1, <3>1, LenProperties
  <2> HIDE DEF gs
  <2>4. TopIs(gs, b) = [gs EXCEPT ![K] = b] /\ TopIs(fs, b) = [fs EXCEPT ![K] = b]
    BY <2>3 DEF TopIs
  <2> HIDE DEF K
  <2>5. [gs EXCEPT ![K] = b] = [fs EXCEPT ![K] = b]
    BY <2>1, <2>2
  <2> QED BY <2>2, <2>3, <2>4, <2>5 DEF gs
<1>3. \A f, a, d, b, i, m, g, y : LET q == Frame(f, a, d, b, i, m, g) IN
        /\ [q EXCEPT !.i = @ + 1] = Frame(f, a, d, b, i + 1, m, g)
        /\ [q EXCEPT !.next = y] = Frame(f, a, d, b, i, y, g)
        /\ [q EXCEPT !.regs = Bound(@, n, v)] = Frame(f, a, d, b, i, m, Bound(g, n, v))
        /\ [q EXCEPT !.b = y] = Frame(f, a, d, y, i, m, g)
        /\ [q EXCEPT !.i = 1] = Frame(f, a, d, b, 1, m, g)
  BY DEF Frame
<1>4. \A f, a, d, b, i, m, g :
        Proceed(TopIs(fs, Frame(f, a, d, b, i, m, g))) = TopIs(fs, Frame(f, a, d, b, i + 1, m, g))
  <2> TAKE f, a, d, b, i, m, g
  <2> DEFINE q == Frame(f, a, d, b, i, m, g)
  <2>1. Proceed(TopIs(fs, q)) = TopIs(TopIs(fs, q), [TopIs(fs, q)[K] EXCEPT !.i = @ + 1])
    BY <1>2 DEF Proceed, TopIs
  <2> QED BY <1>2, <1>3, <2>1
<1>5. PICK f, a, d, b, i, m, g :
        /\ r = Frame(f, a, d, b, i, m, g)
        /\ f = r.fn /\ a = r.args /\ d = r.dest /\ b = r.b /\ i = r.i /\ m = r.next /\ g = r.regs
  BY DEF IsFrame
<1>6. SUFFICES
        /\ Proceed(fs) = TopIs(fs, Frame(f, a, d, b, i + 1, m, g))
        /\ Turned(fs, x) = TopIs(fs, Frame(f, a, d, b, i + 1, x, g))
        /\ Filled(fs, n, v) = TopIs(fs, Frame(f, a, d, b, i + 1, m, Bound(g, n, v)))
        /\ Entered(fs, x) = TopIs(fs, Frame(f, a, d, x, 1, x + 1, g))
  BY ONLY <1>5, <1>6
<1>7. fs = TopIs(fs, Frame(f, a, d, b, i, m, g))
  <2>1. TopIs(fs, r) = fs
    BY <1>1 DEF TopIs
  <2> QED BY ONLY <1>5, <2>1
<1>8. Proceed(fs) = TopIs(fs, Frame(f, a, d, b, i + 1, m, g))
  BY ONLY <1>4, <1>7
<1>9. /\ [fs EXCEPT ![Len(fs)].next = x] = TopIs(fs, [r EXCEPT !.next = x])
      /\ [fs EXCEPT ![Len(fs)].regs = Bound(@, n, v)] = TopIs(fs, [r EXCEPT !.regs = Bound(@, n, v)])
  BY DEF TopIs
<1>10. /\ [fs EXCEPT ![Len(fs)].next = x] = TopIs(fs, Frame(f, a, d, b, i, x, g))
       /\ [fs EXCEPT ![Len(fs)].regs = Bound(@, n, v)]
            = TopIs(fs, Frame(f, a, d, b, i, m, Bound(g, n, v)))
  <2>1. /\ [r EXCEPT !.next = x] = Frame(f, a, d, b, i, x, g)
        /\ [r EXCEPT !.regs = Bound(@, n, v)] = Frame(f, a, d, b, i, m, Bound(g, n, v))
    BY ONLY <1>5 DEF Frame
  <2> QED BY ONLY <1>9, <2>1
<1>11. [fs EXCEPT ![Len(fs)].b = x, ![Len(fs)].i = 1, ![Len(fs)].next = x + 1]
         = TopIs(fs, [[[r EXCEPT !.b = x] EXCEPT !.i = 1] EXCEPT !.next = x + 1])
  BY <1>1 DEF TopIs
<1>12. [[[r EXCEPT !.b = x] EXCEPT !.i = 1] EXCEPT !.next = x + 1] = Frame(f, a, d, x, 1, x + 1, g)
  <2>1. [r EXCEPT !.b = x] = Frame(f, a, d, x, i, m, g)
    BY ONLY <1>5 DEF Frame
  <2>2. [Frame(f, a, d, x, i, m, g) EXCEPT !.i = 1] = Frame(f, a, d, x, 1, m, g)
    BY DEF Frame
  <2>3. [Frame(f, a, d, x, 1, m, g) EXCEPT !.next = x + 1] = Frame(f, a, d, x, 1, x + 1, g)
    BY DEF Frame
  <2>4. [[r EXCEPT !.b = x] EXCEPT !.i = 1] = Frame(f, a, d, x, 1, m, g)
    BY ONLY <2>1, <2>2, Zenon
  <2> QED BY ONLY <2>3, <2>4, Zenon
<1>13. /\ Turned(fs, x) = TopIs(fs, Frame(f, a, d, b, i + 1, x, g))
       /\ Filled(fs, n, v) = TopIs(fs, Frame(f, a, d, b, i + 1, m, Bound(g, n, v)))
  <2>1. Proceed(TopIs(fs, Frame(f, a, d, b, i, x, g))) = TopIs(fs, Frame(f, a, d, b, i + 1, x, g))
    BY ONLY <1>4
  <2>2. Proceed(TopIs(fs, Frame(f, a, d, b, i, m, Bound(g, n, v))))
          = TopIs(fs, Frame(f, a, d, b, i + 1, m, Bound(g, n, v)))
    BY ONLY <1>4
  <2> QED BY ONLY <1>10, <2>1, <2>2, Zenon DEF Turned, Filled
<1>14. Entered(fs, x) = TopIs(fs, Frame(f, a, d, x, 1, x + 1, g))
  BY ONLY <1>11, <1>12, Zenon DEF Entered
<1> QED BY ONLY <1>8, <1>13, <1>14

LEMMA FrameFields ==
  ASSUME NEW f, NEW a, NEW d, NEW b, NEW i, NEW n, NEW g
  PROVE  LET r == Frame(f, a, d, b, i, n, g) IN
         /\ r.fn = f /\ r.args = a /\ r.dest = d /\ r.b = b /\ r.i = i /\ r.next = n
         /\ r.regs = g /\ IsFrame(r)
BY DEF Frame, IsFrame

-----------------------------------------------------------------------------
(* What the session and the globals are: every function that can be called
   has the code of an item, and every global an object that was allocated. *)
Driven ==
  /\ session \in Sessions
  /\ todo \in Seq(DOMAIN session.items)
  /\ code = [k \in DOMAIN session.items |-> Compiled(session.items[k])]
  /\ \A f \in DOMAIN funcs : funcs[f] \in DOMAIN session.items
  /\ status \in {-1, 0, 1} /\ errors \in Nat /\ failed \subseteq DOMAIN session.items
  /\ frames # <<>> \/ result # <<>> => todo # <<>>

StoreOK(st) ==
  /\ st = [names |-> st.names, mem |-> st.mem, heap |-> st.heap]
  /\ st.heap \in Nat
  /\ \A x \in DOMAIN st.names : st.names[x][2] \in 1..st.heap

VMInv == Driven /\ StoreOK(store) /\ Stack(Codes, frames, store.heap)

LEMMA CodesWellFormed ==
  ASSUME Driven
  PROVE  /\ DOMAIN Codes = DOMAIN funcs
         /\ \A f \in DOMAIN funcs : Codes[f] = CodeAt(f) /\ WellFormed(Codes[f])
<1> SUFFICES ASSUME NEW f \in DOMAIN funcs PROVE WellFormed(CodeAt(f))
  BY DEF Codes
<1>1. session \in Sessions /\ funcs[f] \in DOMAIN session.items
  BY DEF Driven
<1>2. CodeAt(f) = Compiled(session.items[funcs[f]])
  BY <1>1 DEF Driven, CodeAt
<1> QED BY <1>1, <1>2, SessionAssumption

LEMMA BlockFacts ==
  ASSUME NEW c, WellFormed(c)
  PROVE  /\ Len(c.blocks) \in Nat /\ DOMAIN c.blocks = 1..Len(c.blocks)
         /\ \A b \in DOMAIN c.blocks : c.blocks[b] \in Seq(Instruction)
<1>1. c.blocks \in Seq(Seq(Instruction))
  BY DEF WellFormed
<1> QED BY ONLY <1>1, LenProperties, ElementOfSeq

(* Execution can start at the first block of a function. *)
LEMMA StartsAtOne ==
  ASSUME NEW c, WellFormed(c)
  PROVE  1 \in DOMAIN c.blocks /\ 1 \in 1..(Len(c.blocks[1]) + 1) /\ 2 \in Nat \ {0}
<1>1. c.blocks \in Seq(Seq(Instruction)) /\ c.blocks # <<>>
  BY DEF WellFormed
<1>2. 1 \in DOMAIN c.blocks
  BY <1>1, EmptySeq, LenProperties
<1>3. Len(c.blocks[1]) \in Nat
  BY <1>1, <1>2, ElementOfSeq, LenProperties
<1> QED BY <1>2, <1>3

(* What the theorems say follows. *)
LEMMA InvariantApart == VMInv => LocalsApart /\ TypeOK
<1> SUFFICES ASSUME VMInv PROVE LocalsApart /\ TypeOK
  OBVIOUS
<1>1. /\ Len(frames) \in Nat /\ DOMAIN frames = 1..Len(frames)
      /\ DOMAIN Codes = DOMAIN funcs /\ \A f \in DOMAIN funcs : Codes[f] = CodeAt(f)
  BY StackDomain, CodesWellFormed DEF VMInv
<1>2. \A k \in DOMAIN frames :
        /\ FrameOK(Codes, frames[k]) /\ frames[k].fn \in DOMAIN funcs
        /\ Codes[frames[k].fn] = CodeAt(frames[k].fn)
  BY <1>1 DEF VMInv, Stack, FrameOK
<1>3. \A k \in DOMAIN frames : Own(k) = OwnOf(Codes, frames[k])
  BY <1>2 DEF Own, OwnOf
<1>4. LocalsApart
  <2>1. \A k \in DOMAIN frames : \A j \in 1..(k - 1) : j \in DOMAIN frames
    BY <1>1
  <2>2. \A k \in DOMAIN frames :
          /\ OwnOf(Codes, frames[k]) \subseteq Objects(store.heap)
          /\ \A j \in 1..(k - 1) : OwnOf(Codes, frames[j]) \cap OwnOf(Codes, frames[k]) = {}
    BY DEF VMInv, Stack
  <2> QED BY <1>3, <2>1, <2>2 DEF LocalsApart, Objects
<1>5. TypeOK
  BY <1>2 DEF TypeOK, VMInv, Driven, StoreOK, FrameOK
<1> QED BY <1>4, <1>5

-----------------------------------------------------------------------------
(* The innermost frame, and the instruction it is at. *)
LEMMA AtTop ==
  ASSUME VMInv, frames # <<>>
  PROVE  /\ Top = frames[Len(frames)] /\ FrameOK(Codes, Top) /\ IsFrame(Top)
         /\ Code = Codes[Top.fn] /\ WellFormed(Code) /\ Top.fn \in DOMAIN funcs
         /\ \E S : frames \in Seq(S)
         /\ todo # <<>> /\ Head(todo) \in DOMAIN session.items
<1>1. PICK S : frames \in Seq(S)
  BY DEF VMInv, Stack
<1>2. Len(frames) \in DOMAIN frames
  BY <1>1, LenProperties, EmptySeq
<1>3. Top = frames[Len(frames)]
  BY DEF Top, Last
<1>4. FrameOK(Codes, Top) /\ IsFrame(Top)
  BY <1>2, <1>3 DEF VMInv, Stack, FrameOK
<1>5. Top.fn \in DOMAIN funcs /\ Code = Codes[Top.fn] /\ WellFormed(Code)
  BY <1>4, CodesWellFormed DEF VMInv, FrameOK, Code
<1>6. todo # <<>> /\ todo \in Seq(DOMAIN session.items)
  BY DEF VMInv, Driven
<1>7. Head(todo) \in DOMAIN session.items
  BY <1>6, HeadTailProperties
<1> QED BY <1>1, <1>3, <1>4, <1>5, <1>6, <1>7

LEMMA AtInstr ==
  ASSUME VMInv, frames # <<>>, InBlock
  PROVE  /\ Instr \in Insts(Code)
         /\ Top.i + 1 \in 1..(Len(Code.blocks[Top.b]) + 1)
         /\ Instr.op \in Assigns => Code.vals[Instr.dest].n \notin Made(Code)
         /\ Instr.op = "alloca" => Code.vals[Instr.dest].n \in Made(Code)
         /\ Instr.op \in {"jump", "condi"} => Instr.yes \in DOMAIN Code.blocks
         /\ Instr.op = "condi" => Instr.no \in DOMAIN Code.blocks
<1>1. /\ FrameOK(Codes, Top) /\ Code = Codes[Top.fn] /\ WellFormed(Code)
  BY AtTop
<1>2. /\ Top.b \in DOMAIN Code.blocks /\ Top.i \in 1..(Len(Code.blocks[Top.b]) + 1)
      /\ Code.blocks \in Seq(Seq(Instruction))
  BY <1>1 DEF FrameOK, WellFormed
<1>3. Code.blocks[Top.b] \in Seq(Instruction)
  BY <1>2, ElementOfSeq, LenProperties
<1>4. /\ Len(Code.blocks[Top.b]) \in Nat
      /\ DOMAIN Code.blocks[Top.b] = 1..Len(Code.blocks[Top.b])
  BY <1>3, LenProperties
<1>5. Top.i \in DOMAIN Code.blocks[Top.b] /\ Top.i + 1 \in 1..(Len(Code.blocks[Top.b]) + 1)
  BY <1>2, <1>4 DEF InBlock
<1>6. Instr \in Insts(Code)
  BY <1>2, <1>5 DEF Instr, Insts, Range
<1> QED BY <1>1, <1>5, <1>6 DEF WellFormed, Made

-----------------------------------------------------------------------------
(* Steps of the innermost function. *)
LEMMA TopGoes ==
  ASSUME VMInv, frames # <<>>,
         NEW b \in DOMAIN Code.blocks, NEW i \in 1..(Len(Code.blocks[b]) + 1),
         NEW n \in Nat \ {0}, NEW g, NEW h \in Nat, store.heap <= h,
         \A m \in Made(Code) \cap DOMAIN g :
           \/ m \in DOMAIN Top.regs /\ g[m] = Top.regs[m]
           \/ g[m] \in Objects(h) \ Objects(store.heap)
  PROVE  Stack(Codes, TopIs(frames, Frame(Top.fn, Top.args, Top.dest, b, i, n, g)), h)
<1> DEFINE r == Frame(Top.fn, Top.args, Top.dest, b, i, n, g)
<1>1. /\ Top = frames[Len(frames)] /\ FrameOK(Codes, Top)
      /\ Code = Codes[Top.fn]
  BY AtTop
<1>2. /\ r.fn = Top.fn /\ r.dest = Top.dest /\ r.b = b /\ r.i = i /\ r.next = n /\ r.regs = g
      /\ IsFrame(r)
  BY FrameFields
<1> HIDE DEF r
<1>3. FrameOK(Codes, r)
  BY <1>1, <1>2 DEF FrameOK
<1>4. OwnOf(Codes, r) \subseteq OwnOf(Codes, Top) \cup (Objects(h) \ Objects(store.heap))
  BY <1>1, <1>2 DEF OwnOf
<1>5. store.heap \in Nat /\ Stack(Codes, frames, store.heap)
  BY DEF VMInv, StoreOK
<1>6. Stack(Codes, TopIs(frames, r), h)
  BY <1>1, <1>2, <1>3, <1>4, <1>5, Changed
<1> QED BY <1>6 DEF r

(* The instruction is left, with no value or with one that is no new object. *)
LEMMA TopProceeds ==
  ASSUME VMInv, frames # <<>>, InBlock, NEW h \in Nat, store.heap <= h,
         \/ frames' = Proceed(frames)
         \/ \E v : Instr.op \in Assigns /\ frames' = Proceed(Assigned(frames, Instr.dest, v))
         \/ \E x \in DOMAIN Code.blocks : frames' = Proceed([frames EXCEPT ![Len(frames)].next = x])
  PROVE  Stack(Codes, frames', h)
<1>1. /\ Top = frames[Len(frames)] /\ FrameOK(Codes, Top) /\ IsFrame(Top) /\ Code = Codes[Top.fn]
      /\ WellFormed(Code)
  BY AtTop
<1>2. PICK S : frames \in Seq(S)
  BY AtTop
<1>3. /\ Top.b \in DOMAIN Code.blocks /\ Top.next \in Nat \ {0}
      /\ Top.i + 1 \in 1..(Len(Code.blocks[Top.b]) + 1)
      /\ Instr.op \in Assigns => Code.vals[Instr.dest].n \notin Made(Code)
  BY <1>1, AtInstr DEF FrameOK
<1>4. DOMAIN Code.blocks \subseteq Nat \ {0}
  <2>1. Len(Code.blocks) \in Nat /\ DOMAIN Code.blocks = 1..Len(Code.blocks)
    BY <1>1, BlockFacts
  <2> QED BY ONLY <2>1
<1>5. CASE frames' = Proceed(frames)
  <2>1. frames' = TopIs(frames, Frame(Top.fn, Top.args, Top.dest, Top.b, Top.i + 1, Top.next, Top.regs))
    BY <1>1, <1>2, <1>5, TopWritten
  <2> QED BY <1>3, <2>1, TopGoes
<1>6. ASSUME NEW v, Instr.op \in Assigns, frames' = Proceed(Assigned(frames, Instr.dest, v))
      PROVE  Stack(Codes, frames', h)
  <2> DEFINE n == Code.vals[Instr.dest].n
             g == Bound(Top.regs, n, v)
  <2>1. frames' = Filled(frames, n, v)
    BY <1>6, Zenon DEF Assigned, Filled
  <2>2. n \notin Made(Code)
    BY <1>3, <1>6
  <2> HIDE DEF n
  <2>3. frames' = TopIs(frames, Frame(Top.fn, Top.args, Top.dest, Top.b, Top.i + 1, Top.next, g))
    BY <1>1, <1>2, <2>1, TopWritten
  <2>4. \A m \in Made(Code) \cap DOMAIN g : m \in DOMAIN Top.regs /\ g[m] = Top.regs[m]
    <3>1. \A m \in DOMAIN g : m # n => m \in DOMAIN Top.regs /\ g[m] = Top.regs[m]
      BY DEF Bound
    <3> HIDE DEF g
    <3> QED BY <2>2, <3>1
  <2> HIDE DEF g
  <2> QED BY <1>3, <2>3, <2>4, TopGoes
<1>7. ASSUME NEW x \in DOMAIN Code.blocks, frames' = Proceed([frames EXCEPT ![Len(frames)].next = x])
      PROVE  Stack(Codes, frames', h)
  <2>1. frames' = TopIs(frames, Frame(Top.fn, Top.args, Top.dest, Top.b, Top.i + 1, x, Top.regs))
    <3>1. frames' = Turned(frames, x)
      BY <1>7, Zenon DEF Turned
    <3> QED BY <1>1, <1>2, <3>1, TopWritten
  <2>2. x \in Nat \ {0}
    BY <1>4, <1>7
  <2> QED BY <1>3, <2>1, <2>2, TopGoes
<1> QED BY <1>5, <1>6, <1>7

(* The instruction is left with a new object. *)
LEMMA TopAllocates ==
  ASSUME VMInv, frames # <<>>, InBlock,
         frames' = Proceed(Assigned(frames, Instr.dest, PtrTo(store.heap + 1, 0)))
  PROVE  Stack(Codes, frames', store.heap + 1)
<1> DEFINE n == Code.vals[Instr.dest].n
           h == store.heap + 1
           g == Bound(Top.regs, n, PtrTo(h, 0))
<1>1. /\ Top = frames[Len(frames)] /\ FrameOK(Codes, Top) /\ IsFrame(Top) /\ Code = Codes[Top.fn]
  BY AtTop
<1>2. PICK S : frames \in Seq(S)
  BY AtTop
<1>3. /\ Top.b \in DOMAIN Code.blocks /\ Top.next \in Nat \ {0}
      /\ Top.i + 1 \in 1..(Len(Code.blocks[Top.b]) + 1)
  BY <1>1, AtInstr DEF FrameOK
<1>4. frames' = Filled(frames, n, PtrTo(h, 0))
  BY Zenon DEF Assigned, Filled
<1> HIDE DEF n
<1>5. frames' = TopIs(frames, Frame(Top.fn, Top.args, Top.dest, Top.b, Top.i + 1, Top.next, g))
  BY <1>1, <1>2, <1>4, TopWritten
<1>6. store.heap \in Nat /\ h \in Nat /\ store.heap <= h /\ PtrTo(h, 0) \in Objects(h) \ Objects(store.heap)
  <2>1. store.heap \in Nat
    BY DEF VMInv, StoreOK
  <2>2. h \in Nat /\ store.heap < h /\ h \in 1..h
    BY <2>1
  <2> HIDE DEF h
  <2> QED BY <2>1, <2>2, FewerObjects DEF Objects
<1> HIDE DEF h
<1>7. \A m \in Made(Code) \cap DOMAIN g :
        \/ m \in DOMAIN Top.regs /\ g[m] = Top.regs[m]
        \/ g[m] \in Objects(h) \ Objects(store.heap)
  <2>1. \A m \in DOMAIN g : IF m = n THEN g[m] = PtrTo(h, 0)
                                     ELSE m \in DOMAIN Top.regs /\ g[m] = Top.regs[m]
    BY DEF Bound
  <2> HIDE DEF g
  <2> QED BY <1>6, <2>1
<1> HIDE DEF g
<1>8. Stack(Codes, frames', h)
  BY <1>3, <1>5, <1>6, <1>7, TopGoes
<1> QED BY <1>8 DEF h

(* The next block is entered. *)
LEMMA TopEnters == ASSUME VMInv, NextBlock PROVE Stack(Codes, frames', store.heap)
<1> DEFINE x == Top.next
<1>1. /\ frames # <<>> /\ x <= Len(Code.blocks)
      /\ frames' = Entered(frames, x)
  BY DEF NextBlock, Entered
<1>2. /\ Top = frames[Len(frames)] /\ FrameOK(Codes, Top) /\ IsFrame(Top) /\ Code = Codes[Top.fn]
      /\ WellFormed(Code)
  BY <1>1, AtTop
<1>3. PICK S : frames \in Seq(S)
  BY <1>1, AtTop
<1>4. x \in Nat \ {0} /\ x + 1 \in Nat \ {0}
  BY <1>2 DEF FrameOK
<1>5. x \in DOMAIN Code.blocks /\ Code.blocks[x] \in Seq(Instruction)
  <2>1. /\ Len(Code.blocks) \in Nat /\ DOMAIN Code.blocks = 1..Len(Code.blocks)
        /\ \A b \in DOMAIN Code.blocks : Code.blocks[b] \in Seq(Instruction)
    BY <1>2, BlockFacts
  <2>2. x <= Len(Code.blocks)
    BY <1>1
  <2> QED BY ONLY <1>4, <2>1, <2>2
<1>6. 1 \in 1..(Len(Code.blocks[x]) + 1)
  BY <1>5, LenProperties
<1> HIDE DEF x
<1>7. frames' = TopIs(frames, Frame(Top.fn, Top.args, Top.dest, x, 1, x + 1, Top.regs))
  BY <1>1, <1>2, <1>3, TopWritten
<1>8. store.heap \in Nat
  BY DEF VMInv, StoreOK
<1> QED BY <1>1, <1>4, <1>5, <1>6, <1>7, <1>8, TopGoes

(* A function returns: what it gives does not go where its caller keeps the
   address of an object. *)
LEMMA TopReturns ==
  ASSUME VMInv, frames # <<>>, NEW v, Returned(v)
  PROVE  Stack(Codes, frames', store.heap)
<1> DEFINE K == Len(frames)
           callers == Front(frames)
<1>1. /\ Top = frames[K] /\ Top.fn \in DOMAIN funcs
      /\ K \in Nat \ {0} /\ DOMAIN frames = 1..K
      /\ store.heap \in Nat /\ Stack(Codes, frames, store.heap)
  BY AtTop, StackDomain, EmptySeq DEF VMInv, StoreOK
<1>2. /\ Stack(Codes, callers, store.heap) /\ Len(callers) = K - 1
      /\ \A i \in 1..(K - 1) : callers[i] = frames[i]
  BY <1>1, Popped
<1>3. CASE K = 1
  <2>1. frames' = <<>>
    BY <1>3 DEF Returned
  <2> QED BY <2>1, EmptyStack
<1>4. CASE K # 1
  <2> DEFINE r == frames[K - 1]
             n == CodeAt(r.fn).vals[Top.dest].n
             g == Bound(r.regs, n, v)
  <2>1. K - 1 \in 1..(K - 1) /\ K \in 2..K /\ K - 1 \in DOMAIN frames
    BY <1>1, <1>4
  <2>2. callers # <<>> /\ callers[Len(callers)] = r /\ Last(callers) = r
    BY <1>2, <2>1, EmptySeq DEF Last
  <2>3. FrameOK(Codes, r) /\ IsFrame(r) /\ Calls(Codes, r, Top)
    BY <1>1, <2>1 DEF Stack, FrameOK
  <2>4. frames' = Filled(callers, n, v)
    BY <1>4, <2>2, Zenon DEF Returned, Filled
  <2>5. CodeAt(r.fn) = Codes[r.fn] /\ WellFormed(Codes[r.fn])
    BY <2>3, CodesWellFormed DEF VMInv, FrameOK
  <2> HIDE DEF r, callers, K
  <2>6. n \notin Made(Codes[r.fn]) /\ r.i + 1 \in 1..(Len(Codes[r.fn].blocks[r.b]) + 1)
    <3> DEFINE block == Codes[r.fn].blocks[r.b]
    <3>1. r.b \in DOMAIN Codes[r.fn].blocks /\ Codes[r.fn].blocks \in Seq(Seq(Instruction))
      BY <2>3, <2>5 DEF FrameOK, WellFormed
    <3>2. block \in Seq(Instruction)
      BY <3>1, ElementOfSeq, LenProperties
    <3>3. /\ r.i \in 1..Len(block) /\ block[r.i].op = "call" /\ block[r.i].dest = Top.dest
      BY <2>3 DEF Calls
    <3>4. Len(block) \in Nat /\ DOMAIN block = 1..Len(block)
      BY <3>2, LenProperties
    <3>5. block[r.i] \in Insts(Codes[r.fn]) /\ r.i + 1 \in 1..(Len(block) + 1)
      <4>1. r.i \in DOMAIN block
        BY <3>3, <3>4
      <4>2. block[r.i] \in Insts(Codes[r.fn])
        BY <3>1, <4>1 DEF Insts, Range
      <4>3. r.i + 1 \in 1..(Len(block) + 1)
        <5> HIDE DEF block
        <5> QED BY <3>3, <3>4
      <4> QED BY <4>2, <4>3
    <3>6. "call" \in Assigns
      BY DEF Assigns
    <3>7. Codes[r.fn].vals[Top.dest].n \notin Made(Codes[r.fn])
      BY <2>5, <3>3, <3>5, <3>6 DEF WellFormed
    <3> QED BY <2>5, <3>5, <3>7
  <2> HIDE DEF n
  <2> DEFINE q == Frame(r.fn, r.args, r.dest, r.b, r.i + 1, r.next, g)
  <2>7. frames' = TopIs(callers, q)
    <3>1. PICK S : callers \in Seq(S)
      BY <1>2 DEF Stack
    <3> QED BY <2>2, <2>3, <2>4, <3>1, TopWritten
  <2>8. /\ q.fn = r.fn /\ q.dest = r.dest /\ q.b = r.b /\ q.i = r.i + 1 /\ q.next = r.next
        /\ q.regs = g /\ IsFrame(q)
    BY FrameFields
  <2>9. \A m \in DOMAIN g : m # n => m \in DOMAIN r.regs /\ g[m] = r.regs[m]
    BY DEF Bound
  <2> HIDE DEF q, g
  <2>10. FrameOK(Codes, q)
    BY <2>3, <2>6, <2>8 DEF FrameOK
  <2>11. OwnOf(Codes, q) \subseteq OwnOf(Codes, r)
    BY <2>6, <2>8, <2>9 DEF OwnOf
  <2>12. Stack(Codes, TopIs(callers, q), store.heap)
    BY <1>1, <1>2, <2>2, <2>8, <2>10, <2>11, Changed
  <2> QED BY <2>7, <2>12
<1> QED BY <1>3, <1>4

-----------------------------------------------------------------------------
(* What the instructions of one function do to the driver and the store. *)
LEMMA StepDriven ==
  ASSUME Driven, frames # <<>>, UNCHANGED <<session, todo, code, funcs>>,
         status' \in {-1, 0, 1}, errors' \in Nat, failed' \subseteq DOMAIN session.items
  PROVE  Driven' /\ Codes' = Codes
<1>1. todo # <<>> /\ todo' = todo
  BY DEF Driven
<1>2. Driven'
  BY <1>1 DEF Driven
<1>3. Codes' = Codes
  BY DEF Codes, CodeAt
<1> QED BY <1>2, <1>3

LEMMA StoreKept ==
  ASSUME NEW st, StoreOK(st), NEW x, NEW v
  PROVE  /\ StoreOK(Allocated(st)) /\ Allocated(st).heap = st.heap + 1
         /\ StoreOK(Declare(st, x, v)) /\ Declare(st, x, v).heap = st.heap + 1
         /\ StoreOK(Put(st, x, v)) /\ Put(st, x, v).heap \in {st.heap, st.heap + 1}
         /\ StoreOK(Update(st, x, v))
         /\ StoreOK([st EXCEPT !.mem = v]) /\ [st EXCEPT !.mem = v].heap = st.heap
<1> DEFINE N == st.names
           M == st.mem
           h == st.heap
           B == Bound(N, x, PtrTo(h + 1, 0))
<1>1. st = [names |-> N, mem |-> M, heap |-> h] /\ h \in Nat /\ \A y \in DOMAIN N : N[y][2] \in 1..h
  BY DEF StoreOK
<1>2. PtrTo(h + 1, 0)[2] = h + 1
  BY DEF PtrTo
<1>3. \A y \in DOMAIN B : B[y][2] \in 1..(h + 1)
  <2>1. \A y \in DOMAIN B : IF y = x THEN B[y] = PtrTo(h + 1, 0) ELSE y \in DOMAIN N /\ B[y] = N[y]
    <3> HIDE DEF N, h, M
    <3> QED BY DEF Bound
  <2> HIDE DEF B, N, h, M
  <2> QED BY <1>1, <1>2, <2>1
<1>4. Allocated(st) = [names |-> N, mem |-> M, heap |-> h + 1]
  <2> HIDE DEF N, M, h
  <2> QED BY <1>1 DEF Allocated
<1>5. Object(Allocated(st)) = PtrTo(h + 1, 0)
  BY <1>4 DEF Object
<1>6. Declare(st, x, v) = [names |-> B, mem |-> Bound(M, PtrTo(h + 1, 0), v), heap |-> h + 1]
  <2> DEFINE a == Allocated(st)
             p == Bound(a.names, x, Object(a))
             q == Bound(a.mem, Object(a), v)
  <2>1. a.names = N /\ a.mem = M
    BY <1>4
  <2>2. [a EXCEPT !.names = p] = [names |-> p, mem |-> M, heap |-> h + 1]
    <3> HIDE DEF N, M, h, p, q, a
    <3> QED BY <1>4 DEF a
  <2>3. [[names |-> p, mem |-> M, heap |-> h + 1] EXCEPT !.mem = q]
          = [names |-> p, mem |-> q, heap |-> h + 1]
    <3> HIDE DEF N, M, h, p, q, a
    <3> QED OBVIOUS
  <2>4. Declare(st, x, v) = [[a EXCEPT !.names = p] EXCEPT !.mem = q]
    BY Zenon DEF Declare
  <2>5. p = B /\ q = Bound(M, PtrTo(h + 1, 0), v)
    BY <1>5, <2>1
  <2> HIDE DEF p, q, a, B
  <2> QED BY <2>2, <2>3, <2>4, <2>5
<1>7. \A m : /\ [st EXCEPT !.mem = m] = [names |-> N, mem |-> m, heap |-> h]
             /\ StoreOK([st EXCEPT !.mem = m]) /\ [st EXCEPT !.mem = m].heap = h
  <2> TAKE m
  <2>1. [st EXCEPT !.mem = m] = [names |-> N, mem |-> m, heap |-> h]
    <3> HIDE DEF N, M, h
    <3> QED BY <1>1
  <2> HIDE DEF N, M, h
  <2> QED BY <1>1, <2>1 DEF StoreOK
<1>8. StoreOK(Allocated(st)) /\ Allocated(st).heap = h + 1
  <2>1. \A y \in DOMAIN N : N[y][2] \in 1..(h + 1)
    <3> HIDE DEF N, h, M
    <3> QED BY <1>1
  <2> HIDE DEF N, M, h
  <2> QED BY <1>1, <1>4, <2>1 DEF StoreOK
<1>9. StoreOK(Declare(st, x, v)) /\ Declare(st, x, v).heap = h + 1
  <2> HIDE DEF B, N, M, h
  <2> QED BY <1>1, <1>3, <1>6 DEF StoreOK
<1>10. StoreOK(Update(st, x, v)) /\ Update(st, x, v).heap = h
  <2>1. CASE x \in DOMAIN st.names
    <3>1. Update(st, x, v) = [st EXCEPT !.mem = Bound(st.mem, st.names[x], v)]
      BY <2>1 DEF Update
    <3> QED BY <1>7, <3>1
  <2>2. CASE x \notin DOMAIN st.names
    BY <2>2 DEF Update
  <2> QED BY <2>1, <2>2
<1>11. StoreOK(Put(st, x, v)) /\ Put(st, x, v).heap \in {h, h + 1}
  BY <1>9, <1>10 DEF Put
<1> QED BY <1>7, <1>8, <1>9, <1>10, <1>11

(* A frame is left or goes on; nothing else of the stack changes. *)
LEMMA GivesProceeds ==
  ASSUME VMInv, frames # <<>>, InBlock, Instr.op \in Assigns, NEW v, Gives(v),
         StoreOK(store'), store'.heap = store.heap
  PROVE  VMInv'
<1>1. UNCHANGED <<session, code, todo, funcs, status, errors, failed>>
      /\ frames' = Proceed(Assigned(frames, Instr.dest, v))
  BY DEF Gives
<1>2. Driven' /\ Codes' = Codes
  BY <1>1, StepDriven DEF VMInv, Driven
<1>3. store.heap \in Nat
  BY DEF VMInv, StoreOK
<1>4. Stack(Codes, frames', store.heap)
  BY <1>1, <1>3, TopProceeds
<1> QED BY <1>2, <1>4 DEF VMInv

LEMMA FailedReturns ==
  ASSUME VMInv, frames # <<>>, NEW rc \in {-1, 0, 1}, Failed(rc)
  PROVE  VMInv'
<1>1. /\ UNCHANGED <<session, code, todo, funcs, store>> /\ status' = rc
      /\ errors' = errors + 1 /\ failed' = failed \cup {Head(todo)}
      /\ Returned(IntOf(rc))
  BY DEF Failed
<1>2. Head(todo) \in DOMAIN session.items
  BY AtTop
<1>3. status' \in {-1, 0, 1} /\ errors' \in Nat /\ failed' \subseteq DOMAIN session.items
  BY <1>1, <1>2 DEF VMInv, Driven
<1>4. Driven' /\ Codes' = Codes
  BY <1>1, <1>3, StepDriven DEF VMInv
<1>5. Stack(Codes, frames', store.heap)
  BY <1>1, TopReturns
<1> QED BY <1>1, <1>4, <1>5 DEF VMInv

(* A step of the innermost function that stays in it. *)
LEMMA TopGoesOn ==
  ASSUME VMInv, frames # <<>>, InBlock,
         UNCHANGED <<session, code, todo, funcs, status, errors, failed>>,
         StoreOK(store'), store.heap <= store'.heap,
         \/ frames' = Proceed(frames)
         \/ \E v : Instr.op \in Assigns /\ frames' = Proceed(Assigned(frames, Instr.dest, v))
         \/ \E x \in DOMAIN Code.blocks : frames' = Proceed([frames EXCEPT ![Len(frames)].next = x])
  PROVE  VMInv'
<1>1. Driven' /\ Codes' = Codes
  BY StepDriven DEF VMInv, Driven
<1>2. store'.heap \in Nat
  BY DEF StoreOK
<1> DEFINE h == store'.heap
<1> HIDE DEF h
<1>3. h \in Nat /\ store.heap <= h
  BY <1>2 DEF h
<1>4. Stack(Codes, frames', h)
  BY <1>3, TopProceeds
<1> QED BY <1>1, <1>4 DEF VMInv, h

LEMMA Allocates == ASSUME VMInv, EvalAlloca PROVE VMInv'
<1>1. /\ frames # <<>> /\ InBlock /\ store' = Allocated(store)
      /\ UNCHANGED <<session, code, todo, funcs, status, errors, failed>>
      /\ frames' = Proceed(Assigned(frames, Instr.dest, Object(store')))
  BY DEF EvalAlloca, At, Gives
<1>2. StoreOK(store') /\ store'.heap = store.heap + 1
  BY <1>1, StoreKept DEF VMInv
<1>3. Object(store') = PtrTo(store.heap + 1, 0)
  BY <1>2 DEF Object
<1>4. Driven' /\ Codes' = Codes
  BY <1>1, StepDriven DEF VMInv, Driven
<1>5. Stack(Codes, frames', store.heap + 1)
  BY <1>1, <1>3, TopAllocates
<1> QED BY <1>2, <1>4, <1>5 DEF VMInv

LEMMA Loads == ASSUME VMInv, EvalLoad PROVE VMInv'
<1>1. /\ frames # <<>> /\ InBlock /\ Instr.op = "load" /\ store' = store
  BY DEF EvalLoad, At
<1>2. StoreOK(store') /\ store.heap <= store'.heap
  BY <1>1 DEF VMInv, StoreOK
<1>3. CASE IsZero(Operand(Instr.op1))
  BY <1>1, <1>2, <1>3, TopGoesOn DEF EvalLoad
<1>4. CASE ~IsZero(Operand(Instr.op1))
  <2>1. Gives(Contents(store, Operand(Instr.op1)))
    BY <1>4 DEF EvalLoad
  <2>2. Instr.op \in Assigns
    BY <1>1 DEF Assigns
  <2> QED BY <1>1, <1>2, <2>1, <2>2, GivesProceeds
<1> QED BY <1>3, <1>4

LEMMA Stores == ASSUME VMInv, EvalStore PROVE VMInv'
<1>1. /\ frames # <<>> /\ InBlock /\ frames' = Proceed(frames)
      /\ UNCHANGED <<session, code, todo, funcs, status, errors, failed>>
  BY DEF EvalStore, At
<1>2. StoreOK(store) /\ store.heap \in Nat
  BY DEF VMInv, StoreOK
<1>3. \/ \E x, v : store' = Put(store, x, v)
      \/ store' = store
      \/ \E m : store' = [store EXCEPT !.mem = m]
  <2>1. \A p, v : [store EXCEPT !.mem = Bound(@, p, v)] = [store EXCEPT !.mem = Bound(store.mem, p, v)]
    OBVIOUS
  <2> QED BY <2>1, Zenon DEF EvalStore
<1>4. StoreOK(store') /\ store'.heap \in {store.heap, store.heap + 1}
  <2>1. ASSUME NEW x, NEW v, store' = Put(store, x, v)
        PROVE  StoreOK(store') /\ store'.heap \in {store.heap, store.heap + 1}
    BY <1>2, <2>1, StoreKept
  <2>2. ASSUME NEW m, store' = [store EXCEPT !.mem = m]
        PROVE  StoreOK(store') /\ store'.heap \in {store.heap, store.heap + 1}
    BY <1>2, <2>2, StoreKept
  <2>3. CASE store' = store
    BY <1>2, <2>3
  <2> QED BY <1>3, <2>1, <2>2, <2>3
<1>5. store.heap <= store'.heap
  BY <1>2, <1>4
<1> QED BY <1>1, <1>4, <1>5, TopGoesOn

LEMMA Computes ==
  ASSUME VMInv, EvalGetPtr \/ EvalMisc \/ EvalMath \/ EvalNot
  PROVE  VMInv'
<1>1. frames # <<>> /\ InBlock
  BY DEF EvalGetPtr, EvalMisc, EvalMath, EvalNot, At
<1>2. StoreOK(store) /\ store.heap <= store.heap
  BY DEF VMInv, StoreOK
<1>3. ASSUME Instr.op \in Assigns, store' = store, NEW v, Gives(v) PROVE VMInv'
  BY <1>1, <1>2, <1>3, GivesProceeds
<1>4. CASE EvalGetPtr
  <2>1. CASE IsZero(Operand(Instr.op1))
    <3>1. /\ frames' = Proceed(frames) /\ store' = store
          /\ UNCHANGED <<session, code, todo, funcs, status, errors, failed>>
      BY <1>4, <2>1 DEF EvalGetPtr
    <3> QED BY <1>1, <1>2, <3>1, TopGoesOn
  <2>2. CASE ~IsZero(Operand(Instr.op1))
    BY <1>3, <1>4, <2>2 DEF EvalGetPtr, At, Assigns
  <2> QED BY <2>1, <2>2
<1>5. CASE EvalMisc
  BY <1>3, <1>5 DEF EvalMisc, At, Assigns
<1>6. CASE EvalMath
  <2>1. \/ Failed(-1)
        \/ store' = store /\ \E v : Gives(v)
    BY <1>6, Zenon DEF EvalMath
  <2>2. Instr.op \in Assigns
    BY <1>6 DEF EvalMath, At, Assigns
  <2>3. -1 \in {-1, 0, 1}
    OBVIOUS
  <2> QED BY <1>1, <1>3, <2>1, <2>2, <2>3, FailedReturns
<1>7. CASE EvalNot
  <2>1. /\ frames' = Proceed(frames) /\ store' = store
        /\ UNCHANGED <<session, code, todo, funcs, status, errors, failed>>
    BY <1>7 DEF EvalNot
  <2> QED BY <1>1, <1>2, <2>1, TopGoesOn
<1> QED BY <1>4, <1>5, <1>6, <1>7

LEMMA Jumps == ASSUME VMInv, EvalJump PROVE VMInv'
<1>1. /\ frames # <<>> /\ InBlock /\ Instr.op \in {"jump", "condi"}
      /\ UNCHANGED <<session, code, todo, funcs, store, status, errors, failed>>
  BY DEF EvalJump, At
<1>2. \/ frames' = Proceed([frames EXCEPT ![Len(frames)].next = Instr.yes])
      \/ Instr.op # "jump" /\ frames' = Proceed([frames EXCEPT ![Len(frames)].next = Instr.no])
  BY Zenon DEF EvalJump
<1>3. /\ Instr.yes \in DOMAIN Code.blocks
      /\ Instr.op # "jump" => Instr.no \in DOMAIN Code.blocks
  BY <1>1, AtInstr
<1>4. StoreOK(store') /\ store.heap <= store'.heap
  BY <1>1 DEF VMInv, StoreOK
<1>5. \E x \in DOMAIN Code.blocks : frames' = Proceed([frames EXCEPT ![Len(frames)].next = x])
  BY <1>2, <1>3, Zenon
<1> QED BY <1>1, <1>4, <1>5, TopGoesOn

(* The end of a block, and of a function. *)
LEMMA Leaves == ASSUME VMInv, NextBlock \/ EndOfBlocks \/ EvalRet PROVE VMInv'
<1>1. /\ frames # <<>>
      /\ UNCHANGED <<session, code, todo, funcs, store, status, errors, failed>>
  BY DEF NextBlock, EndOfBlocks, EvalRet, At
<1>2. Driven' /\ Codes' = Codes
  BY <1>1, StepDriven DEF VMInv, Driven
<1>3. NextBlock \/ \E v : Returned(v)
  BY Zenon DEF EndOfBlocks, EvalRet
<1>4. Stack(Codes, frames', store.heap)
  BY <1>1, <1>3, TopEnters, TopReturns
<1> QED BY <1>1, <1>2, <1>4 DEF VMInv

(* Calls. *)
LEMMA CallsFunction == ASSUME VMInv, CallFunction PROVE VMInv'
<1> DEFINE r == Call(Callee, CallArgs, Instr.dest)
<1>1. /\ frames # <<>> /\ InBlock /\ Instr.op = "call" /\ Callee \in DOMAIN funcs
      /\ frames' = Append(frames, r) /\ status' = 0
      /\ UNCHANGED <<session, code, todo, funcs, store, errors, failed>>
  BY DEF CallFunction, At
<1>2. Driven' /\ Codes' = Codes
  BY <1>1, StepDriven DEF VMInv, Driven
<1>3. Callee \in DOMAIN Codes /\ WellFormed(Codes[Callee])
  BY <1>1, CodesWellFormed DEF VMInv
<1>4. r = Frame(Callee, CallArgs, Instr.dest, 1, 1, 2, <<>>)
  BY DEF Call, Frame
<1>5. /\ r.fn = Callee /\ r.dest = Instr.dest /\ r.b = 1 /\ r.i = 1 /\ r.next = 2
      /\ r.regs = <<>> /\ IsFrame(r)
  BY <1>4, FrameFields
<1> HIDE DEF r
<1>6. FrameOK(Codes, r)
  BY <1>3, <1>5, StartsAtOne DEF FrameOK
<1>7. OwnOf(Codes, r) = {}
  BY <1>5 DEF OwnOf
<1>8. /\ Top = frames[Len(frames)] /\ FrameOK(Codes, Top) /\ Code = Codes[Top.fn]
      /\ WellFormed(Code)
  BY <1>1, AtTop
<1>9. Calls(Codes, frames[Len(frames)], r)
  <2>1. Top.i \in 1..Len(Code.blocks[Top.b])
    <3>1. Top.i + 1 \in 1..(Len(Code.blocks[Top.b]) + 1) /\ Top.i \in 1..(Len(Code.blocks[Top.b]) + 1)
      BY <1>1, <1>8, AtInstr DEF FrameOK
    <3>2. Top.b \in DOMAIN Code.blocks /\ Code.blocks \in Seq(Seq(Instruction))
      BY <1>8 DEF FrameOK, WellFormed
    <3>3. Code.blocks[Top.b] \in Seq(Instruction)
      BY <3>2, ElementOfSeq, LenProperties
    <3>4. Len(Code.blocks[Top.b]) \in Nat
      BY <3>3, LenProperties
    <3> QED BY <3>1, <3>4
  <2> QED BY <1>1, <1>5, <1>8, <2>1 DEF Calls, Instr, Callee
<1>10. Stack(Codes, frames', store.heap)
  BY <1>1, <1>6, <1>7, <1>9, Pushed DEF VMInv
<1> QED BY <1>1, <1>2, <1>10 DEF VMInv

LEMMA CallsOther == ASSUME VMInv, CallPrint \/ CallForeign \/ CallMissing PROVE VMInv'
<1>1. frames # <<>> /\ InBlock /\ Instr.op = "call"
  BY DEF CallPrint, CallForeign, CallMissing, At
<1>2. StoreOK(store) /\ store.heap \in Nat
  BY DEF VMInv, StoreOK
<1>3. CASE CallPrint
  <2>1. /\ frames' = Proceed(frames) /\ store' = store
        /\ UNCHANGED <<session, code, todo, funcs, status, errors, failed>>
    BY <1>3 DEF CallPrint
  <2> QED BY <1>1, <1>2, <2>1, TopGoesOn
<1>4. CASE CallForeign
  <2>1. \E m, v : store' = [store EXCEPT !.mem = m] /\ Gives(v)
    BY <1>4, Zenon DEF CallForeign
  <2>2. ASSUME NEW m, NEW v, store' = [store EXCEPT !.mem = m], Gives(v)
        PROVE  VMInv'
    <3>1. StoreOK(store') /\ store'.heap = store.heap
      BY <1>2, <2>2, StoreKept
    <3>2. Instr.op \in Assigns
      BY <1>1 DEF Assigns
    <3> QED BY <1>1, <2>2, <3>1, <3>2, GivesProceeds
  <2> QED BY <2>1, <2>2
<1>5. CASE CallMissing
  <2>1. Failed(1) /\ 1 \in {-1, 0, 1}
    BY <1>5 DEF CallMissing
  <2> QED BY <1>1, <2>1, FailedReturns
<1> QED BY <1>3, <1>4, <1>5

LEMMA StepKeeps == ASSUME VMInv, Step PROVE VMInv'
BY Allocates, Loads, Stores, Computes, Jumps, Leaves, CallsFunction, CallsOther, Zenon DEF Step

-----------------------------------------------------------------------------
(* The driver: what it starts, and what it does with the value. *)
LEMMA AddedFunction ==
  ASSUME NEW fs, NEW items, NEW k, NEW T, k \in T, \A f \in DOMAIN fs : fs[f] \in T
  PROVE  /\ \A f \in DOMAIN AddFunction(fs, items, k) : AddFunction(fs, items, k)[f] \in T
         /\ NameOf(items[k]) \in DOMAIN AddFunction(fs, items, k)
<1> DEFINE f == NameOf(items[k])
           B == Bound(fs, f, k)
<1>1. /\ DOMAIN B = DOMAIN fs \cup {f}
      /\ \A y \in DOMAIN B : IF y = f THEN B[y] = k ELSE y \in DOMAIN fs /\ B[y] = fs[y]
  <2> HIDE DEF f
  <2> QED BY DEF Bound
<1>2. \/ AddFunction(fs, items, k) = fs /\ f \in DOMAIN fs
      \/ AddFunction(fs, items, k) = B
  BY DEF AddFunction
<1> HIDE DEF B, f
<1>3. (\A y \in DOMAIN B : B[y] \in T) /\ f \in DOMAIN B
  BY <1>1
<1>4. CASE AddFunction(fs, items, k) = B
  BY <1>3, <1>4 DEF f
<1>5. CASE AddFunction(fs, items, k) = fs /\ f \in DOMAIN fs
  BY <1>5 DEF f
<1> QED BY <1>2, <1>4, <1>5

LEMMA Starts == ASSUME VMInv, NEW st, StoreOK(st), Start(st) PROVE VMInv'
<1> DEFINE r == Call(NameOf(Current), <<>>, 0)
           f == NameOf(Current)
<1>1. /\ frames = <<>> /\ todo # <<>> /\ Head(todo) \in DOMAIN session.items
  BY HeadTailProperties DEF Start, Idle, VMInv, Driven
<1>2. /\ funcs' = AddFunction(funcs, session.items, Head(todo))
      /\ frames' = <<r>> /\ store' = st /\ status' = 0
      /\ UNCHANGED <<session, code, todo, failed>>
      /\ errors' \in {0, errors}
  BY DEF Start
<1>3. /\ \A g \in DOMAIN funcs' : funcs'[g] \in DOMAIN session.items
      /\ f \in DOMAIN funcs'
  BY <1>1, <1>2, AddedFunction DEF VMInv, Driven, Current
<1>4. Driven'
  <2>1. errors' \in Nat
    BY <1>2 DEF VMInv, Driven
  <2> QED BY <1>1, <1>2, <1>3, <2>1 DEF VMInv, Driven
<1>5. f \in DOMAIN Codes' /\ WellFormed(Codes'[f])
  <2>1. Codes'[f] = code'[funcs'[f]] /\ f \in DOMAIN Codes'
    BY <1>3 DEF Codes, CodeAt
  <2>2. code'[funcs'[f]] = Compiled(session.items[funcs'[f]])
    BY <1>2, <1>3 DEF VMInv, Driven
  <2> QED BY <1>3, <2>1, <2>2, SessionAssumption DEF VMInv, Driven
<1>6. r = Frame(f, <<>>, 0, 1, 1, 2, <<>>)
  BY DEF Call, Frame
<1>7. /\ r.fn = f /\ r.b = 1 /\ r.i = 1 /\ r.next = 2 /\ r.regs = <<>> /\ IsFrame(r)
  BY <1>6, FrameFields
<1> HIDE DEF r
<1>8. FrameOK(Codes', r)
  BY <1>5, <1>7, StartsAtOne DEF FrameOK
<1>9. OwnOf(Codes', r) = {}
  BY <1>7 DEF OwnOf
<1>10. Stack(Codes', Append(<<>>, r), st.heap)
  BY <1>8, <1>9, EmptyStack, Pushed
<1>11. Append(<<>>, r) = <<r>>
  OBVIOUS
<1> QED BY <1>2, <1>4, <1>10, <1>11 DEF VMInv

LEMMA Begins == ASSUME VMInv, StartItem \/ StartMeta \/ DefineFunction PROVE VMInv'
<1>1. CASE StartItem
  BY <1>1, Starts DEF StartItem, VMInv
<1>2. CASE StartMeta
  <2> DEFINE st == [names |-> <<>>, mem |-> <<>>, heap |-> 0]
  <2>1. StoreOK(st)
    BY DEF StoreOK
  <2>2. Start(st)
    BY <1>2 DEF StartMeta
  <2> HIDE DEF st
  <2> QED BY <2>1, <2>2, Starts
<1>3. CASE DefineFunction
  <2>1. /\ frames = <<>> /\ result = <<>> /\ todo # <<>>
        /\ Head(todo) \in DOMAIN session.items /\ Tail(todo) \in Seq(DOMAIN session.items)
    BY <1>3, HeadTailProperties DEF DefineFunction, Idle, VMInv, Driven
  <2>2. /\ funcs' = AddFunction(funcs, session.items, Head(todo)) /\ todo' = Tail(todo)
        /\ UNCHANGED <<session, code, store, frames, result, status, errors, failed>>
    BY <1>3 DEF DefineFunction
  <2>3. \A g \in DOMAIN funcs' : funcs'[g] \in DOMAIN session.items
    BY <2>1, <2>2, AddedFunction DEF VMInv, Driven
  <2>4. Driven'
    BY <2>1, <2>2, <2>3 DEF VMInv, Driven
  <2>5. Stack(Codes', frames', store'.heap)
    BY <2>1, <2>2, EmptyStack
  <2> QED BY <2>2, <2>4, <2>5 DEF VMInv
<1> QED BY <1>1, <1>2, <1>3

LEMMA Ended ==
  ASSUME VMInv, HasValue, NEW shown, Ending(shown), StoreOK(store')
  PROVE  VMInv'
<1>1. frames = <<>> /\ todo # <<>> /\ Tail(todo) \in Seq(DOMAIN session.items)
  BY HeadTailProperties DEF HasValue, VMInv, Driven
<1>2. /\ result' = <<>> /\ todo' = Tail(todo)
      /\ UNCHANGED <<session, code, funcs, frames, status, errors, failed>>
  BY DEF Ending
<1>3. Driven'
  BY <1>1, <1>2 DEF VMInv, Driven
<1>4. Stack(Codes', frames', store'.heap)
  BY <1>1, <1>2, EmptyStack
<1> QED BY <1>3, <1>4 DEF VMInv

LEMMA Ends == ASSUME VMInv, EndLet \/ EndExpr \/ EndMain \/ EndMeta PROVE VMInv'
<1>1. StoreOK(store) /\ HasValue
  BY DEF VMInv, EndLet, EndExpr, EndMain, EndMeta
<1>2. \A st, x, v : StoreOK(st) => StoreOK(Declare(st, x, v)) /\ StoreOK(Put(st, x, v))
  BY StoreKept
<1>3. \A st, v : StoreOK(st) => StoreOK(Keep(st, v))
  BY <1>2 DEF Keep
<1>4. StoreOK(store')
  <2>1. CASE EndLet
    <3>1. \E st, v : store' = Keep(st, v) /\ (st = store \/ st = Declare(store, Current[2], v))
      BY <2>1, Zenon DEF EndLet
    <3> QED BY <1>1, <1>2, <1>3, <3>1
  <2>2. CASE EndExpr
    <3> DEFINE x == Current[2][3][2]
               kept(st) == IF IsVoid(Current[2]) THEN st ELSE Keep(st, TheValue)
    <3>1. \A st : StoreOK(st) => StoreOK(kept(st))
      BY <1>3
    <3>2. \/ store' = kept(Put(store, x, TheValue))
          \/ store' = Update(kept(store), x, TheValue)
          \/ store' = kept(store)
      BY <2>2, Zenon DEF EndExpr
    <3> HIDE DEF kept, x
    <3>3. \A st : StoreOK(st) => StoreOK(Put(st, x, TheValue)) /\ StoreOK(Update(st, x, TheValue))
      BY <1>2, StoreKept
    <3> QED BY <1>1, <3>1, <3>2, <3>3
  <2>3. CASE EndMain \/ EndMeta
    BY <1>1, <2>3 DEF EndMain, EndMeta
  <2> QED BY <2>1, <2>2, <2>3
<1>5. \E shown : Ending(shown)
  BY Zenon DEF EndLet, EndExpr, EndMain, EndMeta
<1> QED BY <1>1, <1>4, <1>5, Ended

-----------------------------------------------------------------------------
(* The first state: the items that will be run are items of the session, and
   the functions known have the code of one. *)
LEMMA ChosenItems ==
  ASSUME NEW items, DOMAIN items = 1..Len(items), Len(items) \in Nat, NEW kinds
  PROVE  Only(items, kinds) \in Seq(DOMAIN items)
<1> DEFINE K == Len(items)
           T == Seq(DOMAIN items)
           More(n, g) == IF items[n][1] \in kinds THEN Append(g, n) ELSE g
           step == [n \in 1..K |-> [g \in T |-> More(n, g)]]
           Turn(chosen) == [n \in 0..K |-> IF n = 0 THEN <<>> ELSE More(n, chosen[n - 1])]
           chosen == CHOOSE f : f = Turn(f)
<1>1. Only(items, kinds) = chosen[K]
  BY DEF Only
<1>2. <<>> \in T /\ \A n \in 1..K : \A g \in T : More(n, g) \in T
  BY AppendProperties, EmptySeq
<1> HIDE DEF T
<1>3. IsSteps(step, K, T)
  BY <1>2 DEF IsSteps
<1>4. \A n \in 1..K, g \in T : step[n][g] = More(n, g)
  OBVIOUS
<1> HIDE DEF step, More
<1>5. chosen = Turn(chosen)
  <2>1. PICK f : IsRun(f, K, T, <<>>, step)
    BY <1>2, <1>3, Iteration
  <2>2. f \in [0..K -> T] /\ f[0] = <<>> /\ \A n \in 1..K : f[n] = step[n][f[n - 1]]
    BY <2>1 DEF IsRun
  <2>3. \A n \in 1..K : f[n - 1] \in T /\ f[n] = More(n, f[n - 1])
    BY <1>4, <2>2
  <2>4. f = Turn(f)
    <3>1. \A n \in 0..K : n # 0 => n \in 1..K
      OBVIOUS
    <3> QED BY <2>2, <2>3, <3>1
  <2> QED BY <2>4
<1> HIDE DEF chosen
<1>6. chosen[0] = <<>> /\ \A n \in 1..K : chosen[n] = More(n, chosen[n - 1])
  <2> DEFINE next == Turn(chosen)
  <2>1. next[0] = <<>> /\ \A n \in 1..K : next[n] = More(n, chosen[n - 1])
    OBVIOUS
  <2>2. chosen = next
    BY <1>5
  <2> HIDE DEF next
  <2> QED BY <2>1, <2>2
<1> HIDE DEF Turn
<1> DEFINE P == {n \in 0..K : chosen[n] \in T}
<1>7. 0 \in P /\ \A n \in 1..K : n - 1 \in P => n \in P
  BY <1>2, <1>6
<1> HIDE DEF P, K
<1>8. 0..K \subseteq P /\ K \in 0..K
  <2>1. K \in Nat
    BY DEF K
  <2>2. 0..K \subseteq P
    BY ONLY <1>7, <2>1, InductionUpTo
  <2> QED BY <2>1, <2>2
<1>9. chosen[K] \in T
  BY <1>8 DEF P
<1> QED BY <1>1, <1>9 DEF T

LEMMA KnownFunctions ==
  ASSUME NEW items, DOMAIN items = 1..Len(items), Len(items) \in Nat
  PROVE  \A f \in DOMAIN FunctionsOf(items) : FunctionsOf(items)[f] \in DOMAIN items
<1> DEFINE K == Len(items)
           names == {NameOf(items[k]) : k \in 1..K}
           T == UNION {[D -> 1..K] : D \in SUBSET names}
           More(n, g) == IF items[n][1] \in {"func", "main"} THEN AddFunction(g, items, n) ELSE g
           step == [n \in 1..K |-> [g \in T |-> More(n, g)]]
           Turn(known) == [n \in 0..K |->
             IF n = 0 THEN <<>>
             ELSE IF items[n][1] \in {"func", "main"} THEN AddFunction(known[n - 1], items, n)
             ELSE known[n - 1]]
           known == CHOOSE f : f = Turn(f)
<1>1. FunctionsOf(items) = known[K]
  BY DEF FunctionsOf
<1>0. K \in Nat /\ DOMAIN items = 1..K
  OBVIOUS
<1> HIDE DEF K
<1>2. <<>> \in T
  <2>1. <<>> \in [{} -> 1..K]
    OBVIOUS
  <2> HIDE DEF names
  <2> QED BY <2>1
<1>3. \A n \in 1..K : \A g \in T : More(n, g) \in T
  <2> SUFFICES ASSUME NEW n \in 1..K, NEW g \in T PROVE AddFunction(g, items, n) \in T
    OBVIOUS
  <2> DEFINE f == NameOf(items[n])
             B == Bound(g, f, n)
  <2>1. PICK D \in SUBSET names : g \in [D -> 1..K]
    OBVIOUS
  <2>2. f \in names
    OBVIOUS
  <2>3. AddFunction(g, items, n) \in {g, B}
    BY DEF AddFunction
  <2> HIDE DEF f, names
  <2>4. B \in [D \cup {f} -> 1..K]
    BY <2>1 DEF Bound
  <2>5. D \cup {f} \in SUBSET names
    BY <2>1, <2>2
  <2>6. B \in T
    BY <2>4, <2>5
  <2> HIDE DEF T, B
  <2> QED BY <2>3, <2>6
<1>4. \A g \in T : \A f \in DOMAIN g : g[f] \in 1..K
  OBVIOUS
<1> HIDE DEF T
<1>5. IsSteps(step, K, T)
  BY <1>3 DEF IsSteps
<1>6. \A n \in 1..K, g \in T : step[n][g] = More(n, g)
  OBVIOUS
<1> HIDE DEF step
<1>7. known = Turn(known)
  <2>1. PICK f : IsRun(f, K, T, <<>>, step)
    BY <1>0, <1>2, <1>5, Iteration
  <2>2. f \in [0..K -> T] /\ f[0] = <<>> /\ \A n \in 1..K : f[n] = step[n][f[n - 1]]
    BY <2>1 DEF IsRun
  <2>3. \A n \in 1..K : f[n - 1] \in T /\ f[n] = More(n, f[n - 1])
    <3> HIDE DEF More
    <3>1. \A n \in 1..K : n - 1 \in 0..K
      BY <1>0
    <3> QED BY <1>6, <2>2, <3>1
  <2>4. f = Turn(f)
    <3>1. \A n \in 0..K : n # 0 => n \in 1..K
      BY <1>0
    <3> QED BY <2>2, <2>3, <3>1
  <2> QED BY <2>4
<1> HIDE DEF known
<1>8. known[0] = <<>> /\ \A n \in 1..K : known[n] = More(n, known[n - 1])
  <2> DEFINE next == Turn(known)
  <2>1. next[0] = <<>> /\ \A n \in 1..K : next[n] = More(n, known[n - 1])
    BY <1>0
  <2>2. known = next
    BY <1>7
  <2> HIDE DEF next
  <2> QED BY <2>1, <2>2
<1> HIDE DEF Turn, More
<1> DEFINE P == {n \in 0..K : known[n] \in T}
<1>9. 0 \in P /\ \A n \in 1..K : n - 1 \in P => n \in P
  BY <1>0, <1>2, <1>3, <1>8
<1> HIDE DEF P
<1>10. 0..K \subseteq P /\ K \in 0..K
  <2>1. K \in Nat
    BY <1>0
  <2>2. 0..K \subseteq P
    BY ONLY <1>9, <2>1, InductionUpTo
  <2> QED BY <2>1, <2>2
<1>11. known[K] \in T
  BY <1>10 DEF P
<1> QED BY <1>0, <1>1, <1>4, <1>11

LEMMA FirstSteps ==
  ASSUME NEW s \in Sessions
  PROVE  Steps(s) \in Seq(DOMAIN s.items)
<1> DEFINE S == DOMAIN s.items
           all == [i \in S |-> i]
<1>1. S = 1..Len(s.items) /\ Len(s.items) \in Nat
  BY SessionAssumption
<1>2. all \in Seq(S)
  BY <1>1
<1>3. Only(s.items, {"main"}) \in Seq(S) /\ Only(s.items, {"let", "func"}) \in Seq(S)
  BY <1>1, ChosenItems
<1>4. \/ Steps(s) = all
      \/ \E r \in {Only(s.items, {"main"}), all} : Steps(s) = Only(s.items, {"let", "func"}) \o r
  BY Zenon DEF Steps
<1> HIDE DEF all
<1> QED BY <1>2, <1>3, <1>4, ConcatProperties

LEMMA Initially == Init => VMInv
<1> SUFFICES ASSUME Init PROVE VMInv
  OBVIOUS
<1>1. /\ session \in Sessions /\ todo = Steps(session)
      /\ code = [k \in DOMAIN session.items |-> Compiled(session.items[k])]
      /\ funcs = (IF session.mode = "file" THEN FunctionsOf(session.items) ELSE <<>>)
      /\ store = [names |-> <<>>, mem |-> <<>>, heap |-> 0]
      /\ frames = <<>> /\ result = <<>> /\ status = 0 /\ errors = 0 /\ failed = {}
  BY DEF Init
<1>2. todo \in Seq(DOMAIN session.items)
  BY <1>1, FirstSteps
<1>3. \A f \in DOMAIN funcs : funcs[f] \in DOMAIN session.items
  BY <1>1, SessionAssumption, KnownFunctions
<1>4. Driven
  BY <1>1, <1>2, <1>3 DEF Driven
<1>5. StoreOK(store)
  BY <1>1 DEF StoreOK
<1>6. Stack(Codes, frames, store.heap)
  BY <1>1, EmptyStack
<1> QED BY <1>4, <1>5, <1>6 DEF VMInv

-----------------------------------------------------------------------------
(***************************************************************************)
(* The theorems.                                                           *)
(***************************************************************************)
LEMMA MachineInvariant == Spec => []VMInv
<1>1. VMInv /\ [Next]_vars => VMInv'
  <2> SUFFICES ASSUME VMInv, [Next]_vars PROVE VMInv'
    OBVIOUS
  <2>1. CASE Step
    BY <2>1, StepKeeps
  <2>2. CASE Drive
    BY <2>2, Begins, Ends DEF Drive
  <2>3. CASE UNCHANGED vars
    <3>1. Driven' /\ StoreOK(store') /\ Codes' = Codes
      BY <2>3 DEF vars, VMInv, Driven, Codes, CodeAt
    <3> QED BY <2>3, <3>1 DEF vars, VMInv
  <2> QED BY <2>1, <2>2, <2>3 DEF Next, Done
<1> QED BY Initially, <1>1, PTL DEF Spec

(* The machine never executes code that is not there: every function on the
   stack is one of the module, it stands at an instruction of a block or at the
   end of it, and a value is only handed to an item that was started. *)
THEOREM MachineTypeOK == Spec => []TypeOK
<1>1. VMInv => TypeOK
  BY InvariantApart
<1> QED BY <1>1, MachineInvariant, PTL

(* What a function has allocated is not given to any other call as long as it
   runs, a call of the same function included, whatever the functions called
   return into its registers. *)
THEOREM LocalsStayApart == Spec => []LocalsApart
<1>1. VMInv => LocalsApart
  BY InvariantApart
<1> QED BY <1>1, MachineInvariant, PTL

(* The functions above the outermost are those the calls name. *)
Nested ==
  \A k \in 2..Len(frames) : Calls(Codes, frames[k - 1], frames[k])

(* Each function but the innermost stands at the call that is being executed:
   of the function above it, with its result to go where that call has it
   (the return of metalir_vm_execute to vm_eval_call). *)
THEOREM CallsNested == Spec => []Nested
<1>1. VMInv => Nested
  BY DEF VMInv, Stack, Nested
<1> QED BY <1>1, MachineInvariant, PTL
=============================================================================
