---------------------------- MODULE ArenaProofs ----------------------------
(***************************************************************************)
(* The arena never hands out a word twice and never fills a block past its *)
(* end, for all request sizes, block sizes, strings and hashes, and with   *)
(* the interner answering some requests with memory handed out before; and *)
(* the interner gives equal strings equal pointers.                        *)
(***************************************************************************)
EXTENDS Arena, FiniteSetTheorems, TLAPS

(* Each block has an identity of its own. *)
BlocksDistinct ==
  \A i, j \in 1 .. Len(chain) :
    /\ chain[i].id \in 1 .. Len(chain)
    /\ chain[i].id = chain[j].id => i = j

CurrentIsSet == cur = 0 => chain = <<>>

(* Intact regions do not overlap. *)
MemDisjoint == \A x, y \in mem : Overlap(x, y) => x = y

(* Held regions lie in the part of their block that is charged for. *)
Charged(x) ==
  \E i \in 1 .. Len(chain) : x.blk = chain[i].id /\ x.lo + x.len =< chain[i].used

HeldCharged == \A x \in held : Charged(x)

(* The interner points at held regions only. *)
PointsAtHeld(t, c) == \A i \in 0 .. (c - 1) : t[i] \in held \cup {NULL}

InternerHeld == table # NoTable => PointsAtHeld(table, slots)

(* While the table grows, the old one is half as large and as good. *)
GrowingOK ==
  \/ growing = [at |-> "no"]
  \/ /\ growing = [at |-> "yes", old |-> growing.old, next |-> growing.next, str |-> growing.str]
     /\ table # NoTable
     /\ growing.str \in Strings
     /\ \E c \in Nat :
          /\ slots = 2 * c
          /\ DOMAIN growing.old = 0 .. (c - 1)
          /\ PointsAtHeld(growing.old, c)
          /\ growing.next \in 0 .. c
          /\ count =< growing.next

(* The inductive invariant. *)
IInv ==
  /\ TypeOK
  /\ NoOverrun
  /\ BlocksDistinct
  /\ CurrentIsSet
  /\ HeldIntact
  /\ MemDisjoint
  /\ HeldCharged
  /\ InternerHeld
  /\ GrowingOK
-----------------------------------------------------------------------------
LEMMA ModRange ==
  ASSUME NEW a \in Nat, NEW b \in Nat \ {0}
  PROVE  a % b \in 0 .. (b - 1)
OBVIOUS

LEMMA SlotsFacts == ASSUME TypeOK PROVE slots \in Nat \ {0}
BY DEF TypeOK, Tables

LEMMA ProbeInTable ==
  ASSUME TypeOK, NEW s \in Strings \cup {Data}, NEW n \in 0 .. (slots - 1)
  PROVE  Probe(Hash[s], n) \in 0 .. (slots - 1)
<1>1. Hash[s] + n \in Nat /\ slots \in Nat \ {0}
  BY SlotsFacts, TableAssumption
<1> QED BY <1>1, ModRange DEF Probe

(* The region given for a request is new: it overlaps nothing held, and the
   charge for it lands on the block it lies in. *)
LEMMA TakeFacts ==
  ASSUME IInv, NEW n \in Nat \ {0}, NEW what \in Strings \cup {Data}, Take(n, what),
         NEW r, r = Given(n, what)
  PROVE  /\ r \in Region /\ r.holds = what
         /\ \A x \in held : ~Overlap(x, r)
         /\ Charged(r)'
         /\ \A x \in held : Charged(x)'
         /\ chain' \in Seq(Block) /\ Len(chain') =< MaxBlocks /\ cur' \in 0 .. Len(chain')
         /\ NoOverrun' /\ BlocksDistinct' /\ CurrentIsSet'
<1>0. /\ chain \in Seq(Block) /\ Len(chain) \in Nat /\ cur \in 0 .. Len(chain)
      /\ Len(chain) =< MaxBlocks /\ DOMAIN chain = 1 .. Len(chain)
      /\ \A i \in 1 .. Len(chain) : chain[i] \in Block
      /\ MaxBlocks \in Nat
      /\ (cur # 0 => cur \in 1 .. Len(chain))
      /\ held \subseteq Region
      /\ BlockSize \in Nat \ {0}
  BY SizeAssumption DEF IInv, TypeOK
<1>a. \A i \in 1 .. Len(chain) : /\ chain[i].id \in 1 .. MaxBlocks
                                  /\ chain[i].cap \in Nat /\ chain[i].used \in Nat
  BY <1>0 DEF Block
<1>b. \A x \in held : x.lo \in Nat /\ x.len \in Nat \ {0}
  BY <1>0 DEF Region
<1>1. ASSUME NEW i \in 1 .. Len(chain), chain[i].used + n =< chain[i].cap,
             r = RegionAt(i, n, what), Charge(i, n), cur' = i,
             \A j \in 1 .. Len(chain) : j > i => chain[j].used = 0
      PROVE  /\ r \in Region /\ r.holds = what
             /\ \A x \in held : ~Overlap(x, r)
             /\ Charged(r)'
             /\ \A x \in held : Charged(x)'
             /\ chain' \in Seq(Block) /\ Len(chain') =< MaxBlocks /\ cur' \in 0 .. Len(chain')
             /\ NoOverrun' /\ BlocksDistinct' /\ CurrentIsSet'
  <2> DEFINE b == [chain[i] EXCEPT !.used = @ + n]
  <2>1. b \in Block /\ b.id = chain[i].id /\ b.used = chain[i].used + n /\ b.cap = chain[i].cap
    <3>1. chain[i] \in Block /\ chain[i].used + n \in Nat
      BY <1>0, <1>a
    <3> QED BY <3>1 DEF Block
  <2>2. chain' = [chain EXCEPT ![i] = b]
    BY <1>0, <1>1 DEF Charge
  <2> HIDE DEF b
  <2>3. /\ chain' \in Seq(Block) /\ Len(chain') = Len(chain) /\ chain'[i] = b
        /\ \A j \in 1 .. Len(chain) : j # i => chain'[j] = chain[j]
    BY <1>0, <1>1, <2>1, <2>2
  <2>4. r \in Region /\ r.blk = chain[i].id /\ r.lo = chain[i].used /\ r.len = n /\ r.holds = what
    BY <1>0, <1>1 DEF RegionAt, Region, Block
  <2>5. \A x \in held : ~Overlap(x, r)
    <3> SUFFICES ASSUME NEW x \in held, Overlap(x, r) PROVE FALSE
      OBVIOUS
    <3>1. PICK j \in 1 .. Len(chain) : x.blk = chain[j].id /\ x.lo + x.len =< chain[j].used
      BY DEF IInv, HeldCharged, Charged
    <3>2. j = i
      BY <1>1, <2>4, <3>1 DEF IInv, BlocksDistinct, Overlap
    <3>3. x.lo \in Nat /\ x.len \in Nat /\ chain[i].used \in Nat
      BY <1>a, <1>b, <1>1
    <3> QED BY <2>4, <3>1, <3>2, <3>3 DEF Overlap
  <2>6. Charged(r)'
    <3>1. r.blk = chain'[i].id /\ r.lo + r.len =< chain'[i].used
      BY <1>a, <1>1, <2>1, <2>3, <2>4
    <3> QED BY <1>1, <2>3, <3>1 DEF Charged
  <2>7. \A x \in held : Charged(x)'
    <3> TAKE x \in held
    <3>1. PICK j \in 1 .. Len(chain) : x.blk = chain[j].id /\ x.lo + x.len =< chain[j].used
      BY DEF IInv, HeldCharged, Charged
    <3>2. x.lo \in Nat /\ x.len \in Nat /\ chain[j].used \in Nat
      BY <1>a, <1>b
    <3>3. chain'[j].id = chain[j].id /\ chain'[j].used >= chain[j].used /\ chain'[j].used \in Nat
      <4>1. CASE j = i
        BY <1>1, <2>1, <2>3, <3>2, <4>1
      <4>2. CASE j # i
        BY <2>3, <3>2, <4>2
      <4> QED BY <4>1, <4>2
    <3>4. x.blk = chain'[j].id /\ x.lo + x.len =< chain'[j].used
      BY <3>1, <3>2, <3>3
    <3> QED BY <2>3, <3>4 DEF Charged
  <2>8. NoOverrun'
    <3> SUFFICES ASSUME NEW j \in 1 .. Len(chain)
                 PROVE  chain'[j].used =< chain'[j].cap /\ (j > i => chain'[j].used = 0)
      BY <1>1, <2>3 DEF NoOverrun
    <3>1. CASE j = i
      BY <1>1, <2>1, <2>3, <3>1
    <3>2. CASE j # i
      BY <1>1, <2>3, <3>2 DEF IInv, NoOverrun
    <3> QED BY <3>1, <3>2
  <2>9. BlocksDistinct'
    <3>1. \A j \in 1 .. Len(chain) : chain'[j].id = chain[j].id
      BY <2>1, <2>3
    <3> QED BY <2>3, <3>1 DEF IInv, BlocksDistinct
  <2>10. CurrentIsSet'
    BY <1>1 DEF CurrentIsSet
  <2> QED BY <1>0, <1>1, <2>3, <2>4, <2>5, <2>6, <2>7, <2>8, <2>9, <2>10
<1>2. CASE Fits(n)
  <2>1. cur \in 1 .. Len(chain) /\ chain[cur].used + n =< chain[cur].cap /\ r = RegionAt(cur, n, what)
        /\ Charge(cur, n) /\ cur' = cur
    BY <1>0, <1>2 DEF Fits, Given, Take
  <2>2. \A j \in 1 .. Len(chain) : j > cur => chain[j].used = 0
    BY DEF IInv, NoOverrun
  <2> QED BY <1>1, <2>1, <2>2
<1>3. CASE ~Fits(n) /\ NextFits(n)
  <2>1. cur + 1 \in 1 .. Len(chain) /\ chain[cur + 1].cap >= n /\ r = RegionAt(cur + 1, n, what)
        /\ Charge(cur + 1, n) /\ cur' = cur + 1
    BY <1>0, <1>3 DEF NextFits, Given, Take
  <2>2. \A j \in 1 .. Len(chain) : j > cur => chain[j].used = 0
    BY DEF IInv, NoOverrun
  <2>3. chain[cur + 1].used + n =< chain[cur + 1].cap
    <3>1. chain[cur + 1].used = 0 /\ chain[cur + 1].cap \in Nat
      BY <1>0, <1>a, <2>1, <2>2
    <3> QED BY <2>1, <3>1
  <2>4. \A j \in 1 .. Len(chain) : j > cur + 1 => chain[j].used = 0
    BY <1>0, <2>2
  <2> DEFINE i == cur + 1
  <2>5. i \in 1 .. Len(chain) /\ chain[i].used + n =< chain[i].cap /\ r = RegionAt(i, n, what)
        /\ Charge(i, n) /\ cur' = i /\ \A j \in 1 .. Len(chain) : j > i => chain[j].used = 0
    BY <2>1, <2>3, <2>4
  <2> HIDE DEF i
  <2> QED BY <1>1, <2>5
<1>4. CASE ~Fits(n) /\ ~NextFits(n)
  <2> DEFINE b == NewBlock(n)
             l == Len(chain)
  <2>1. /\ l < MaxBlocks /\ cur' = cur + 1
        /\ chain' = [i \in 1 .. (l + 1) |->
                       CASE i =< cur -> chain[i] [] i = cur + 1 -> b [] OTHER -> chain[i - 1]]
        /\ r = [blk |-> b.id, lo |-> 0, len |-> n, holds |-> what]
    BY <1>4 DEF Take, Given
  <2>2. b \in Block /\ b.id = l + 1 /\ b.used = n /\ b.used =< b.cap
    <3>1. l + 1 \in 1 .. MaxBlocks
      BY <1>0, <2>1
    <3> QED BY <1>0, <3>1 DEF NewBlock, Block
  <2>3. r \in Region /\ r.holds = what /\ r.blk = b.id /\ r.lo = 0 /\ r.len = n
    BY <2>1, <2>2 DEF Region, Block
  <2> HIDE DEF b
  <2>4. cur \in 0 .. l /\ l \in Nat
    BY <1>0
  <2>5. /\ chain'[cur + 1] = b
        /\ \A i \in 1 .. cur : chain'[i] = chain[i]
        /\ \A i \in (cur + 2) .. (l + 1) : chain'[i] = chain[i - 1] /\ i - 1 \in 1 .. l
    BY <2>1, <2>4
  <2>6. \A i \in 1 .. (l + 1) : i \in 1 .. cur \/ i = cur + 1 \/ i \in (cur + 2) .. (l + 1)
    BY <2>4
  <2>7. \A i \in 1 .. (l + 1) : chain'[i] \in Block
    BY <1>0, <2>2, <2>4, <2>5, <2>6
  <2>8. chain' \in Seq(Block) /\ Len(chain') = l + 1
    <3>1. DOMAIN chain' = 1 .. (l + 1) /\ chain' = [i \in 1 .. (l + 1) |-> chain'[i]]
      BY <2>1
    <3> QED BY <2>4, <2>7, <3>1
  <2>9. \A x \in held : ~Overlap(x, r)
    BY <2>2, <2>3, <2>4 DEF IInv, HeldCharged, Charged, BlocksDistinct, Overlap
  <2>10. Charged(r)'
    <3>1. cur + 1 \in 1 .. Len(chain')
      BY <2>4, <2>8
    <3>2. r.blk = chain'[cur + 1].id /\ r.lo + r.len =< chain'[cur + 1].used
      BY <2>2, <2>3, <2>5
    <3> QED BY <3>1, <3>2 DEF Charged
  <2>11. \A x \in held : Charged(x)'
    <3> TAKE x \in held
    <3>1. PICK j \in 1 .. l : x.blk = chain[j].id /\ x.lo + x.len =< chain[j].used
      BY DEF IInv, HeldCharged, Charged
    <3>2. CASE j =< cur
      BY <2>4, <2>5, <2>8, <3>1, <3>2 DEF Charged
    <3>3. CASE j > cur
      <4>1. j + 1 \in (cur + 2) .. (l + 1) /\ j + 1 \in 1 .. Len(chain') /\ (j + 1) - 1 = j
        BY <2>4, <2>8, <3>3
      <4>2. chain'[j + 1] = chain[j]
        BY <2>5, <4>1
      <4> QED BY <3>1, <4>1, <4>2 DEF Charged
    <3> QED BY <2>4, <3>2, <3>3
  <2>12. NoOverrun'
    <3> SUFFICES ASSUME NEW i \in 1 .. (l + 1)
                 PROVE  chain'[i].used =< chain'[i].cap /\ (i > cur + 1 => chain'[i].used = 0)
      BY <2>1, <2>8 DEF NoOverrun
    <3>1. CASE i \in 1 .. cur
      BY <2>4, <2>5, <3>1 DEF IInv, NoOverrun
    <3>2. CASE i = cur + 1
      BY <2>2, <2>4, <2>5, <3>2
    <3>3. CASE i \in (cur + 2) .. (l + 1)
      <4>1. chain'[i] = chain[i - 1] /\ i - 1 \in 1 .. l /\ i - 1 > cur
        BY <2>4, <2>5, <3>3
      <4> QED BY <4>1 DEF IInv, NoOverrun
    <3> QED BY <2>6, <3>1, <3>2, <3>3
  <2>13. BlocksDistinct'
    <3> DEFINE old(i) == IF i =< cur THEN i ELSE i - 1
    <3>1. \A i \in 1 .. (l + 1) : i # cur + 1 => chain'[i] = chain[old(i)] /\ old(i) \in 1 .. l
      BY <2>4, <2>5, <2>6
    <3>2. \A i, j \in 1 .. (l + 1) :
            i # cur + 1 /\ j # cur + 1 /\ old(i) = old(j) => i = j
      BY <2>4
    <3> HIDE DEF old
    <3>3. \A i \in 1 .. (l + 1) :
            IF i = cur + 1 THEN chain'[i].id = l + 1 ELSE chain'[i].id \in 1 .. l
      BY <2>2, <2>5, <3>1 DEF IInv, BlocksDistinct
    <3>4. ASSUME NEW i \in 1 .. (l + 1), NEW j \in 1 .. (l + 1), chain'[i].id = chain'[j].id
          PROVE  i = j
      <4>1. CASE i = cur + 1 \/ j = cur + 1
        BY <2>4, <3>3, <3>4, <4>1
      <4>2. CASE i # cur + 1 /\ j # cur + 1
        <5>1. chain[old(i)].id = chain[old(j)].id /\ old(i) \in 1 .. l /\ old(j) \in 1 .. l
          BY <3>1, <3>4, <4>2
        <5>2. old(i) = old(j)
          BY <5>1 DEF IInv, BlocksDistinct
        <5> QED BY <3>2, <4>2, <5>2
      <4> QED BY <4>1, <4>2
    <3> QED BY <2>4, <2>8, <3>3, <3>4 DEF BlocksDistinct
  <2>14. CurrentIsSet' /\ cur' \in 0 .. Len(chain') /\ Len(chain') =< MaxBlocks
    <3>1. MaxBlocks \in Int
      BY <1>0, <2>1, <2>2 DEF Block
    <3> QED BY <1>0, <2>1, <2>4, <2>8, <3>1 DEF CurrentIsSet
  <2> QED BY <2>3, <2>8, <2>9, <2>10, <2>11, <2>12, <2>13, <2>14
<1> QED BY <1>2, <1>3, <1>4

(* A request keeps the invariant's parts about memory, whatever it leaves of
   the interner. *)
LEMMA TakeMemory ==
  ASSUME IInv, NEW n \in Nat \ {0}, NEW what \in Strings \cup {Data}, Take(n, what)
  PROVE  /\ Given(n, what) \in Region
         /\ Given(n, what) \in held' /\ held \subseteq held'
         /\ mem' \subseteq Region /\ held' \subseteq Region
         /\ chain' \in Seq(Block) /\ Len(chain') =< MaxBlocks /\ cur' \in 0 .. Len(chain')
         /\ NoOverrun' /\ BlocksDistinct' /\ CurrentIsSet'
         /\ HeldIntact' /\ MemDisjoint' /\ HeldCharged'
<1>1. PICK r : r = Given(n, what)
  OBVIOUS
<1>2. /\ r \in Region /\ r.holds = what
      /\ \A x \in held : ~Overlap(x, r)
      /\ Charged(r)'
      /\ \A x \in held : Charged(x)'
      /\ chain' \in Seq(Block) /\ Len(chain') =< MaxBlocks /\ cur' \in 0 .. Len(chain')
      /\ NoOverrun' /\ BlocksDistinct' /\ CurrentIsSet'
  BY <1>1, TakeFacts
<1>3. mem' = {x \in mem : ~Overlap(x, r)} \cup {r} /\ held' = held \cup {r}
  BY <1>1 DEF Take
<1>4. mem \subseteq Region /\ held \subseteq Region /\ held \subseteq mem
  BY DEF IInv, TypeOK, HeldIntact
<1>5. HeldIntact'
  BY <1>2, <1>3, <1>4 DEF HeldIntact
<1>6. MemDisjoint'
  <2> SUFFICES ASSUME NEW x \in mem', NEW y \in mem', Overlap(x, y) PROVE x = y
    BY DEF MemDisjoint
  <2>1. Overlap(y, x)
    BY DEF Overlap
  <2> QED BY <1>3, <2>1 DEF IInv, MemDisjoint
<1>7. HeldCharged'
  BY <1>2, <1>3 DEF HeldCharged
<1> QED BY <1>1, <1>2, <1>3, <1>4, <1>5, <1>6, <1>7

(* A string found in the table is one that is held. *)
LEMMA FoundIsHeld ==
  ASSUME IInv, table # NoTable, NEW s \in Strings, Found(s)
  PROVE  held' = held
<1>1. PICK n \in 0 .. (slots - 1), x \in mem :
         /\ AtSlot(s, n) # NULL
         /\ x.blk = AtSlot(s, n).blk /\ x.lo = AtSlot(s, n).lo
         /\ held' = held \cup {x}
  BY DEF Found
<1> DEFINE p == AtSlot(s, n)
<1>2. p \in held
  <2>1. Probe(Hash[s], n) \in 0 .. (slots - 1)
    BY ProbeInTable DEF IInv
  <2> QED BY <1>1, <2>1 DEF IInv, InternerHeld, PointsAtHeld, AtSlot
<1>3. p \in mem /\ p \in Region /\ x \in Region
  BY <1>2 DEF IInv, HeldIntact, TypeOK
<1>4. p.blk = x.blk /\ p.lo = x.lo
  BY <1>1
<1> HIDE DEF p
<1>5. Overlap(x, p)
  BY <1>3, <1>4 DEF Overlap, Region
<1>6. x = p
  BY <1>3, <1>5 DEF IInv, MemDisjoint
<1> QED BY <1>1, <1>2, <1>6
-----------------------------------------------------------------------------
LEMMA InitIInv == Init => IInv
<1> SUFFICES ASSUME Init PROVE IInv
  OBVIOUS
<1>1. /\ chain = <<>> /\ cur = 0 /\ mem = {} /\ held = {} /\ count = 0 /\ slots = FirstSlots
      /\ growing = [at |-> "no"] /\ FirstSlots \in Nat \ {0}
      /\ (table = EmptyTable(FirstSlots) \/ table = NoTable)
  BY TableAssumption DEF Init, Tables
<1>2. Len(chain) = 0 /\ chain \in Seq(Block) /\ MaxBlocks \in Nat
  BY <1>1, SizeAssumption
<1>3. TypeOK
  <2>1. slots \in Tables
    BY <1>1, TableAssumption
  <2>2. table = NoTable \/ table \in [0 .. (slots - 1) -> Region \cup {NULL}]
    BY <1>1 DEF EmptyTable
  <2> QED BY <1>1, <1>2, <2>1, <2>2 DEF TypeOK
<1>4. NoOverrun /\ BlocksDistinct /\ CurrentIsSet /\ HeldIntact /\ MemDisjoint /\ HeldCharged
  BY <1>1, <1>2 DEF NoOverrun, BlocksDistinct, CurrentIsSet, HeldIntact, MemDisjoint, HeldCharged
<1>5. InternerHeld /\ GrowingOK
  BY <1>1 DEF InternerHeld, PointsAtHeld, EmptyTable, GrowingOK
<1> QED BY <1>3, <1>4, <1>5 DEF IInv

(* A request that leaves the interner alone. *)
LEMMA AllocIInv ==
  ASSUME IInv, NEW n \in Nat \ {0}, NEW what \in Strings \cup {Data}, Take(n, what),
         growing.at = "no", UNCHANGED interner
  PROVE  IInv'
<1>1. table' = table /\ slots' = slots /\ count' = count /\ growing' = growing
  BY DEF interner
<1>2. TypeOK'
  BY <1>1, TakeMemory DEF IInv, TypeOK
<1>3. InternerHeld' /\ GrowingOK'
  BY <1>1, TakeMemory DEF IInv, InternerHeld, GrowingOK, PointsAtHeld
<1> QED BY <1>2, <1>3, TakeMemory DEF IInv

(* Looking a string up, found or missed. *)
LEMMA LookupIInv ==
  ASSUME IInv, table # NoTable, count < slots, NEW s \in Strings, Lookup(s),
         growing' = [at |-> "no"]
  PROVE  IInv'
<1>1. GrowingOK' /\ growing'.at = "no"
  BY DEF GrowingOK
<1>2. CASE Found(s)
  <2>1. /\ chain' = chain /\ cur' = cur /\ mem' = mem /\ held' = held
        /\ table' = table /\ slots' = slots /\ count' = count
    BY <1>2, FoundIsHeld DEF Found
  <2>2. TypeOK' /\ InternerHeld'
    BY <1>1, <2>1 DEF IInv, TypeOK, InternerHeld, PointsAtHeld
  <2>3. NoOverrun' /\ BlocksDistinct' /\ CurrentIsSet' /\ HeldIntact' /\ MemDisjoint' /\ HeldCharged'
    BY <2>1 DEF IInv, NoOverrun, BlocksDistinct, CurrentIsSet, HeldIntact, MemDisjoint,
                HeldCharged, Charged
  <2> QED BY <1>1, <2>2, <2>3 DEF IInv
<1>3. CASE Missed(s)
  <2>1. Words[s] \in Nat \ {0}
    BY SizeAssumption
  <2>2. PICK n \in 0 .. (slots - 1) :
          /\ Take(Words[s], s)
          /\ table' = [table EXCEPT ![Probe(Hash[s], n)] = Given(Words[s], s)]
          /\ count' = count + 1 /\ slots' = slots
    BY <1>3 DEF Missed
  <2>3. Probe(Hash[s], n) \in 0 .. (slots - 1) /\ slots \in Nat \ {0}
    BY ProbeInTable, SlotsFacts DEF IInv
  <2>4. /\ Given(Words[s], s) \in Region
        /\ Given(Words[s], s) \in held' /\ held \subseteq held'
        /\ mem' \subseteq Region /\ held' \subseteq Region
        /\ chain' \in Seq(Block) /\ Len(chain') =< MaxBlocks /\ cur' \in 0 .. Len(chain')
        /\ NoOverrun' /\ BlocksDistinct' /\ CurrentIsSet'
        /\ HeldIntact' /\ MemDisjoint' /\ HeldCharged'
    BY <2>1, <2>2, TakeMemory
  <2>5. /\ table \in [0 .. (slots - 1) -> Region \cup {NULL}]
        /\ table' \in [0 .. (slots - 1) -> Region \cup {NULL}]
    BY <2>2, <2>3, <2>4 DEF IInv, TypeOK
  <2>6. count' \in 0 .. slots
    BY <2>2, <2>3 DEF IInv, TypeOK
  <2>7. TypeOK'
    BY <1>1, <2>2, <2>4, <2>5, <2>6 DEF IInv, TypeOK
  <2>8. InternerHeld'
    BY <2>2, <2>3, <2>4, <2>5 DEF IInv, InternerHeld, PointsAtHeld
  <2> QED BY <1>1, <2>4, <2>7, <2>8 DEF IInv
<1> QED BY <1>2, <1>3 DEF Lookup

(* Growing the table starts with an empty one and the old one put aside. *)
LEMMA BeginGrowIInv ==
  ASSUME IInv, NEW s \in Strings, BeginGrow(s)
  PROVE  IInv'
<1>1. /\ chain' = chain /\ cur' = cur /\ mem' = mem /\ held' = held
      /\ table # NoTable /\ table' = EmptyTable(slots * 2)
      /\ slots' = slots * 2 /\ slots' \in Tables /\ count' = 0
      /\ growing' = [at |-> "yes", old |-> table, next |-> 0, str |-> s]
  BY DEF BeginGrow
<1>2. slots \in Nat \ {0} /\ table \in [0 .. (slots - 1) -> Region \cup {NULL}]
  BY <1>1, SlotsFacts DEF IInv, TypeOK
<1>3. table' \in [0 .. (slots' - 1) -> Region \cup {NULL}] /\ \A i \in 0 .. (slots' - 1) : table'[i] = NULL
  BY <1>1 DEF EmptyTable
<1>4. TypeOK'
  BY <1>1, <1>2, <1>3 DEF IInv, TypeOK
<1>5. InternerHeld'
  BY <1>3 DEF InternerHeld, PointsAtHeld
<1>6. GrowingOK'
  <2>1. /\ growing'.at = "yes" /\ growing'.str = s /\ growing'.old = table /\ growing'.next = 0
        /\ growing' = [at |-> "yes", old |-> growing'.old, next |-> growing'.next, str |-> growing'.str]
    BY <1>1
  <2>2. table' # NoTable
    BY <1>1, <1>3, NoTableAssumption
  <2>3. PointsAtHeld(table, slots)
    BY <1>1 DEF IInv, InternerHeld
  <2>4. slots' = 2 * slots /\ slots \in Nat
    BY <1>1, <1>2
  <2>5. /\ DOMAIN growing'.old = 0 .. (slots - 1)
        /\ growing'.next \in 0 .. slots
        /\ count' =< growing'.next
        /\ \A i \in 0 .. (slots - 1) : growing'.old[i] \in held' \cup {NULL}
    BY <1>1, <1>2, <2>1, <2>3 DEF PointsAtHeld
  <2>6. \E c \in Nat :
          /\ slots' = 2 * c
          /\ DOMAIN growing'.old = 0 .. (c - 1)
          /\ \A i \in 0 .. (c - 1) : growing'.old[i] \in held' \cup {NULL}
          /\ growing'.next \in 0 .. c
          /\ count' =< growing'.next
    BY <2>4, <2>5
  <2> QED BY <2>1, <2>2, <2>6 DEF GrowingOK, PointsAtHeld
<1>7. NoOverrun' /\ BlocksDistinct' /\ CurrentIsSet' /\ HeldIntact' /\ MemDisjoint' /\ HeldCharged'
  BY <1>1 DEF IInv, NoOverrun, BlocksDistinct, CurrentIsSet, HeldIntact, MemDisjoint,
              HeldCharged, Charged
<1> QED BY <1>4, <1>5, <1>6, <1>7 DEF IInv

(* A rehash step moves a pointer from the old table to the new one. *)
LEMMA RehashIInv == IInv /\ Rehash => IInv'
<1> SUFFICES ASSUME IInv, Rehash PROVE IInv'
  OBVIOUS
<1> DEFINE p == growing.old[growing.next]
<1>1. /\ growing.at = "yes" /\ growing.next \in DOMAIN growing.old
      /\ growing' = [growing EXCEPT !.next = @ + 1]
      /\ chain' = chain /\ cur' = cur /\ mem' = mem /\ held' = held /\ slots' = slots
  BY DEF Rehash
<1>2. table # NoTable /\ growing.str \in Strings
  BY <1>1 DEF IInv, GrowingOK
<1>3. PICK c \in Nat : /\ slots = 2 * c
                       /\ DOMAIN growing.old = 0 .. (c - 1)
                       /\ PointsAtHeld(growing.old, c)
                       /\ growing.next \in 0 .. c
                       /\ count =< growing.next
  BY <1>1 DEF IInv, GrowingOK
<1>4. growing.next \in 0 .. (c - 1) /\ p \in held \cup {NULL}
  BY <1>1, <1>3 DEF PointsAtHeld
<1>5. table \in [0 .. (slots - 1) -> Region \cup {NULL}] /\ count \in 0 .. slots
  BY <1>2 DEF IInv, TypeOK
<1>6. /\ table' \in [0 .. (slots - 1) -> Region \cup {NULL}]
      /\ \A i \in 0 .. (slots - 1) : table'[i] \in held \cup {NULL}
      /\ count' \in {count, count + 1}
  <2>0. \A i \in 0 .. (slots - 1) : table[i] \in held \cup {NULL}
    BY <1>2 DEF IInv, InternerHeld, PointsAtHeld
  <2>1. CASE p = NULL
    BY <1>5, <2>0, <2>1 DEF Rehash
  <2>2. CASE p # NULL
    <3>1. PICK s \in Strings \cup {Data}, n \in 0 .. (slots - 1) :
            /\ table' = [table EXCEPT ![Probe(Hash[s], n)] = p]
            /\ count' = count + 1
      BY <2>2 DEF Rehash
    <3>2. Probe(Hash[s], n) \in 0 .. (slots - 1)
      BY ProbeInTable DEF IInv
    <3>3. p \in held /\ p \in Region
      BY <1>4, <2>2 DEF IInv, TypeOK
    <3> HIDE DEF p
    <3> QED BY <1>5, <2>0, <3>1, <3>2, <3>3
  <2> QED BY <2>1, <2>2
<1>7. table' # NoTable
  BY <1>6, NoTableAssumption DEF IInv, TypeOK
<1>8. /\ growing'.at = "yes" /\ growing'.str = growing.str
      /\ growing'.old = growing.old /\ growing'.next = growing.next + 1
      /\ growing' = [at |-> "yes", old |-> growing'.old, next |-> growing'.next, str |-> growing'.str]
  <2>1. growing = [at |-> "yes", old |-> growing.old, next |-> growing.next, str |-> growing.str]
    BY <1>1 DEF IInv, GrowingOK
  <2> QED BY <1>1, <2>1
<1>9. GrowingOK'
  <2>1. /\ slots' = 2 * c /\ DOMAIN growing'.old = 0 .. (c - 1)
        /\ PointsAtHeld(growing.old, c)'
        /\ growing'.next \in 0 .. c /\ count' =< growing'.next
    BY <1>1, <1>3, <1>4, <1>5, <1>6, <1>8 DEF PointsAtHeld
  <2> QED BY <1>2, <1>7, <1>8, <2>1 DEF GrowingOK
<1>10. TypeOK'
  <2>1. count' \in 0 .. slots
    BY <1>3, <1>4, <1>5, <1>6
  <2> QED BY <1>1, <1>6, <1>8, <2>1 DEF IInv, TypeOK
<1>11. InternerHeld'
  BY <1>1, <1>6 DEF InternerHeld, PointsAtHeld
<1>12. NoOverrun' /\ BlocksDistinct' /\ CurrentIsSet' /\ HeldIntact' /\ MemDisjoint' /\ HeldCharged'
  BY <1>1 DEF IInv, NoOverrun, BlocksDistinct, CurrentIsSet, HeldIntact, MemDisjoint,
              HeldCharged, Charged
<1> QED BY <1>9, <1>10, <1>11, <1>12 DEF IInv

(* A reset of an arena that has interned nothing, and arena_free, give up all
   that is held. *)
LEMMA ResetIInv == IInv /\ NothingInterned /\ Reset => IInv'
<1> SUFFICES ASSUME IInv, NothingInterned, Reset PROVE IInv'
  OBVIOUS
<1>1. /\ growing.at = "no"
      /\ chain' = [i \in DOMAIN chain |-> [chain[i] EXCEPT !.used = 0]]
      /\ cur' = IF chain = <<>> THEN 0 ELSE 1
      /\ mem' = {x \in mem : x.holds # Data} /\ held' = {}
      /\ table' = table /\ slots' = slots /\ count' = count /\ growing' = growing
  BY DEF Reset, interner
<1>2. chain \in Seq(Block) /\ Len(chain) \in Nat /\ DOMAIN chain = 1 .. Len(chain)
  BY DEF IInv, TypeOK
<1>3. \A i \in 1 .. Len(chain) :
        /\ chain'[i] \in Block /\ chain'[i].id = chain[i].id
        /\ chain'[i].used = 0 /\ chain'[i].used =< chain'[i].cap
  <2> TAKE i \in 1 .. Len(chain)
  <2>1. chain[i] \in Block /\ chain'[i] = [chain[i] EXCEPT !.used = 0]
    BY <1>1, <1>2
  <2> QED BY <2>1 DEF Block
<1>4. chain' \in Seq(Block) /\ Len(chain') = Len(chain)
  <2>1. chain' = [i \in 1 .. Len(chain) |-> chain'[i]]
    BY <1>1, <1>2
  <2> QED BY <1>2, <1>3, <2>1
<1>5. cur' \in 0 .. Len(chain') /\ CurrentIsSet'
  <2>1. CASE chain = <<>>
    BY <1>1, <1>2, <1>4, <2>1 DEF CurrentIsSet
  <2>2. CASE chain # <<>>
    BY <1>1, <1>2, <1>4, <2>2 DEF CurrentIsSet
  <2> QED BY <2>1, <2>2
<1>6. TypeOK'
  BY <1>1, <1>4, <1>5 DEF IInv, TypeOK
<1>7. NoOverrun' /\ BlocksDistinct'
  BY <1>3, <1>4 DEF IInv, NoOverrun, BlocksDistinct
<1>8. HeldIntact' /\ MemDisjoint' /\ HeldCharged'
  BY <1>1 DEF IInv, HeldIntact, MemDisjoint, HeldCharged
<1>9. InternerHeld' /\ GrowingOK'
  <2>1. growing = [at |-> "no"]
    BY <1>1 DEF IInv, GrowingOK
  <2> QED BY <1>1, <2>1 DEF NothingInterned, InternerHeld, PointsAtHeld, GrowingOK
<1> QED BY <1>5, <1>6, <1>7, <1>8, <1>9 DEF IInv

LEMMA FreeIInv == IInv /\ Free => IInv'
<1> SUFFICES ASSUME IInv, Free PROVE IInv'
  OBVIOUS
<1>1. /\ growing.at = "no" /\ chain' = <<>> /\ cur' = 0 /\ mem' = {} /\ held' = {}
      /\ table' = NoTable /\ slots' = slots /\ count' = count /\ growing' = growing
  BY DEF Free
<1>2. Len(chain') = 0 /\ chain' \in Seq(Block) /\ MaxBlocks \in Nat
  BY <1>1, SizeAssumption
<1>3. TypeOK'
  BY <1>1, <1>2 DEF IInv, TypeOK
<1>4. NoOverrun' /\ BlocksDistinct' /\ CurrentIsSet' /\ HeldIntact' /\ MemDisjoint' /\ HeldCharged'
  BY <1>1, <1>2 DEF NoOverrun, BlocksDistinct, CurrentIsSet, HeldIntact, MemDisjoint, HeldCharged
<1>5. InternerHeld' /\ GrowingOK'
  BY <1>1 DEF IInv, InternerHeld, GrowingOK
<1> QED BY <1>3, <1>4, <1>5 DEF IInv

LEMMA NextIInv == IInv /\ [Next]_vars => IInv'
<1> SUFFICES ASSUME IInv, [Next]_vars PROVE IInv'
  OBVIOUS
<1>1. ASSUME NEW n \in Requests, Alloc(n) PROVE IInv'
  <2>1. n \in Nat \ {0} /\ Take(n, Data) /\ growing.at = "no" /\ UNCHANGED interner
    BY <1>1, SizeAssumption DEF Alloc
  <2> QED BY <2>1, AllocIInv
<1>2. ASSUME NEW s \in Strings, StrdupPlain(s) PROVE IInv'
  <2>1. Words[s] \in Nat \ {0} /\ Take(Words[s], s) /\ growing.at = "no" /\ UNCHANGED interner
    BY <1>2, SizeAssumption DEF StrdupPlain
  <2> QED BY <2>1, AllocIInv
<1>3. ASSUME NEW s \in Strings, Strdup(s) PROVE IInv'
  <2>1. table # NoTable /\ Lookup(s) /\ growing' = growing /\ growing = [at |-> "no"]
    BY <1>3 DEF Strdup, IInv, GrowingOK
  <2>2. count < slots
    BY <1>3, SlotsFacts DEF Strdup, HasRoom, IInv, TypeOK
  <2> QED BY <2>1, <2>2, LookupIInv
<1>4. ASSUME NEW s \in Strings, BeginGrow(s) PROVE IInv'
  BY <1>4, BeginGrowIInv
<1>5. CASE Rehash
  BY <1>5, RehashIInv
<1>6. CASE EndGrow
  <2>1. growing.at = "yes" /\ Lookup(growing.str) /\ growing' = [at |-> "no"]
    BY <1>6 DEF EndGrow
  <2>2. table # NoTable /\ growing.str \in Strings
    BY <2>1 DEF IInv, GrowingOK
  <2>3. count < slots
    <3>1. PICK c \in Nat : slots = 2 * c /\ growing.next \in 0 .. c /\ count =< growing.next
      BY <2>1 DEF IInv, GrowingOK
    <3>2. slots \in Nat \ {0} /\ count \in 0 .. slots
      BY SlotsFacts DEF IInv, TypeOK
    <3> QED BY <3>1, <3>2
  <2> QED BY <2>1, <2>2, <2>3, LookupIInv
<1>7. CASE Free
  BY <1>7, FreeIInv
<1>8. CASE NothingInterned /\ Reset
  BY <1>8, ResetIInv
<1>9. CASE UNCHANGED vars
  BY <1>9 DEF vars, IInv, TypeOK, NoOverrun, BlocksDistinct, CurrentIsSet, HeldIntact,
              MemDisjoint, HeldCharged, Charged, InternerHeld, PointsAtHeld, GrowingOK
<1> QED BY <1>1, <1>2, <1>3, <1>4, <1>5, <1>6, <1>7, <1>8, <1>9 DEF Next, NextWithoutReset

(* The inductive invariant holds in every reachable state. *)
THEOREM Invariant == Spec => []IInv
BY InitIInv, NextIInv, PTL DEF Spec
-----------------------------------------------------------------------------
(* The variables keep their types; the interner's count never passes its
   capacity. *)
THEOREM TypeCorrect == Spec => []TypeOK
<1>1. IInv => TypeOK
  BY DEF IInv
<1> QED BY Invariant, <1>1, PTL

(* No two holders share memory: what arena_alloc and arena_strdup returned
   stays what it is until the arena is reset. *)
THEOREM Intact == Spec => []HeldIntact
<1>1. IInv => HeldIntact
  BY DEF IInv
<1> QED BY Invariant, <1>1, PTL

(* No block is ever filled past its end. *)
THEOREM Bounded == Spec => []NoOverrun
<1>1. IInv => NoOverrun
  BY DEF IInv
<1> QED BY Invariant, <1>1, PTL

-----------------------------------------------------------------------------
(* The string interner gives equal strings equal pointers, and its probes
   always end, through every growth of the table: every string that was
   handed out is in the table, or in the part of the old one still to be
   moved, and is found there by the probe that starts at its hash. *)

(* The slots in use, and what their pointers point at. *)
Used == {i \in 0 .. (slots - 1) : table[i] # NULL}

InTable == {table[i] : i \in Used}

(* The pointers of the old table that are still to be moved, by place. *)
Left ==
  IF growing.at = "no" THEN {}
  ELSE {j \in DOMAIN growing.old : j >= growing.next /\ growing.old[j] # NULL}

Pending == {growing.old[j] : j \in Left}

(* The interner's pointers point at strings. *)
PointsAtStrings == \A x \in InTable \cup Pending : x.holds \in Strings

(* No string is there twice: not in the table, not in the rest of the old
   table, not in both. *)
NoTwins ==
  /\ \A i, j \in Used : table[i].holds = table[j].holds => i = j
  /\ \A i, j \in Left : growing.old[i].holds = growing.old[j].holds => i = j
  /\ \A x \in InTable, y \in Pending : x.holds # y.holds

(* The probe for a string gets to slot i: the slots before are used. *)
Reached(s, i) ==
  \E n \in 0 .. (slots - 1) :
    Probe(Hash[s], n) = i /\ \A m \in 0 .. (n - 1) : table[Probe(Hash[s], m)] # NULL

AllReached == \A i \in Used : Reached(table[i].holds, i)

(* The count is that of the used slots, and a slot is left. *)
Counted == IsFiniteSet(Used) /\ Cardinality(Used) = count /\ count < slots

(* A table has two slots, and twice as many as the one it replaces. *)
LargeEnough == slots > 1 /\ (growing.at = "yes" => slots > 3)

(* Every string handed out is known to the interner. *)
AllInterned == \A x \in held : x.holds \in Strings => x \in InTable \cup Pending

(* The inductive invariant of the interner, on top of the arena's. *)
InternerInv ==
  table # NoTable =>
    /\ PointsAtStrings
    /\ NoTwins
    /\ AllReached
    /\ Counted
    /\ AllInterned

TInv == IInv /\ LargeEnough /\ InternerInv
-----------------------------------------------------------------------------
(* What a held pointer reads as is what it was handed out for. *)
LEMMA HeldReads ==
  ASSUME IInv, NEW p \in held, NEW s
  PROVE  Reads(p, s) <=> p.holds = s
<1>1. p \in mem /\ p \in Region /\ p # NULL /\ mem \subseteq Region
  BY TableAssumption DEF IInv, HeldIntact, TypeOK
<1>2. ASSUME NEW x \in mem, x.blk = p.blk, x.lo = p.lo
      PROVE  x = p
  <2>1. Overlap(x, p)
    BY <1>1, <1>2 DEF Overlap, Region
  <2> QED BY <1>1, <2>1 DEF IInv, MemDisjoint
<1> QED BY <1>1, <1>2 DEF Reads

(* Entries of the table and pending ones are held. *)
LEMMA EntriesHeld ==
  ASSUME IInv, table # NoTable
  PROVE  /\ table \in [0 .. (slots - 1) -> Region \cup {NULL}]
         /\ InTable \subseteq held
         /\ Pending \subseteq held
         /\ NULL \notin held
<1>1. table \in [0 .. (slots - 1) -> Region \cup {NULL}] /\ NULL \notin held
  BY TableAssumption DEF IInv, TypeOK
<1>2. InTable \subseteq held
  BY DEF IInv, InternerHeld, PointsAtHeld, InTable, Used
<1>3. Pending \subseteq held
  <2>1. CASE growing.at = "no"
    BY <2>1 DEF Pending, Left
  <2>2. CASE growing.at # "no"
    <3>1. growing # [at |-> "no"]
      BY <2>2
    <3>2. PICK c \in Nat : DOMAIN growing.old = 0 .. (c - 1) /\ PointsAtHeld(growing.old, c)
      BY <3>1 DEF IInv, GrowingOK
    <3> QED BY <2>2, <3>2 DEF Pending, Left, PointsAtHeld
  <2> QED BY <2>1, <2>2
<1> QED BY <1>1, <1>2, <1>3

(* A string the probe misses is not in the table. *)
LEMMA MissedIsAbsent ==
  ASSUME IInv, table # NoTable, AllReached,
         NEW s \in Strings, NEW n \in 0 .. (slots - 1),
         table[Probe(Hash[s], n)] = NULL,
         \A m \in 0 .. (n - 1) : ~Reads(table[Probe(Hash[s], m)], s)
  PROVE  \A x \in InTable : x.holds # s
<1> SUFFICES ASSUME NEW i \in Used, table[i].holds = s PROVE FALSE
  BY DEF InTable
<1>1. PICK k \in 0 .. (slots - 1) :
        /\ Probe(Hash[s], k) = i
        /\ \A m \in 0 .. (k - 1) : table[Probe(Hash[s], m)] # NULL
  BY DEF AllReached, Reached
<1>2. table[i] \in held /\ table[i] # NULL
  BY EntriesHeld DEF InTable, Used
<1>3. Reads(table[i], s)
  BY <1>2, HeldReads
<1>4. slots \in Nat
  BY SlotsFacts DEF IInv
<1>5. k \notin 0 .. (n - 1) /\ n \notin 0 .. (k - 1) /\ k # n
  BY <1>1, <1>2, <1>3
<1> QED BY <1>4, <1>5

(* A pointer entered at the unused slot its probe stops at is reached there,
   and is counted. *)
LEMMA Entered ==
  ASSUME slots \in Nat \ {0}, table \in [0 .. (slots - 1) -> Region \cup {NULL}],
         count \in Nat, AllReached, Counted,
         NEW s, NEW n \in 0 .. (slots - 1), NEW p \in Region, p.holds = s,
         NEW i \in 0 .. (slots - 1), i = Probe(Hash[s], n), table[i] = NULL,
         \A m \in 0 .. (n - 1) : table[Probe(Hash[s], m)] # NULL,
         \A m \in 0 .. (n - 1) : Probe(Hash[s], m) \in 0 .. (slots - 1),
         \A j \in Used : \A m \in 0 .. (slots - 1) :
            Probe(Hash[table[j].holds], m) \in 0 .. (slots - 1),
         table' = [table EXCEPT ![i] = p], slots' = slots, count' = count + 1
  PROVE  /\ Used' = Used \cup {i} /\ InTable' = InTable \cup {p}
         /\ table'[i] = p /\ i \notin Used /\ \A j \in Used : table'[j] = table[j]
         /\ AllReached'
         /\ IsFiniteSet(Used') /\ Cardinality(Used') = count'
<1>1. p # NULL
  BY TableAssumption
<1>2. table'[i] = p /\ \A j \in 0 .. (slots - 1) : j # i => table'[j] = table[j]
  OBVIOUS
<1>3. i \notin Used /\ Used' = Used \cup {i}
  BY <1>1, <1>2 DEF Used
<1>4. \A j \in Used : table'[j] = table[j]
  BY <1>2, <1>3 DEF Used
<1>5. InTable' = InTable \cup {p}
  <2>1. InTable' = {table'[j] : j \in Used \cup {i}}
    BY <1>3 DEF InTable
  <2>2. {table'[j] : j \in Used} = InTable
    BY <1>4 DEF InTable
  <2> QED BY <1>2, <2>1, <2>2
<1>6. \A h, m : Probe(h, m)' = Probe(h, m)
  BY DEF Probe
<1>7. Reached(s, i)'
  <2>1. \A m \in 0 .. (n - 1) : table'[Probe(Hash[s], m)] # NULL
    BY <1>1, <1>2
  <2> QED BY <1>6, <2>1 DEF Reached
<1>8. ASSUME NEW j \in Used PROVE Reached(table[j].holds, j)'
  <2> DEFINE h == table[j].holds
  <2>1. PICK k \in 0 .. (slots - 1) :
          Probe(Hash[h], k) = j /\ \A m \in 0 .. (k - 1) : table[Probe(Hash[h], m)] # NULL
    BY <1>8 DEF AllReached, Reached
  <2>2. table'[j] = table[j]
    BY <1>4
  <2>3. \A m \in 0 .. (k - 1) : table'[Probe(Hash[h], m)] # NULL
    <3> TAKE m \in 0 .. (k - 1)
    <3>1. Probe(Hash[h], m) \in 0 .. (slots - 1)
      OBVIOUS
    <3> QED BY <1>1, <1>2, <2>1, <3>1
  <2>4. k \in 0 .. (slots' - 1) /\ (Hash[table'[j].holds] + k) % slots' = j
    BY <2>1, <2>2 DEF Probe
  <2>5. \A m \in 0 .. (k - 1) : table'[(Hash[table'[j].holds] + m) % slots'] # NULL
    BY <2>2, <2>3 DEF Probe
  <2> QED BY <2>4, <2>5 DEF Reached, Probe
<1>9. AllReached'
  <2> SUFFICES ASSUME NEW j \in Used' PROVE Reached(table[j].holds, j)'
    BY DEF AllReached
  <2>1. CASE j = i
    BY <1>2, <1>7, <2>1 DEF Reached
  <2> QED BY <1>3, <1>8, <2>1
<1>10. IsFiniteSet(Used') /\ Cardinality(Used') = count'
  BY <1>3, FS_AddElement DEF Counted
<1> QED BY <1>2, <1>3, <1>4, <1>5, <1>9, <1>10
-----------------------------------------------------------------------------
(* All probes stay in the table. *)
LEMMA EntriesProbe ==
  ASSUME IInv, table # NoTable, PointsAtStrings
  PROVE  \A j \in Used : \A m \in 0 .. (slots - 1) :
           Probe(Hash[table[j].holds], m) \in 0 .. (slots - 1)
BY ProbeInTable DEF IInv, PointsAtStrings, InTable

(* A string that is asked for and not found is entered as a new copy. *)
LEMMA MissedInterner ==
  ASSUME IInv, InternerInv, table # NoTable, Left = {}, count + 1 < slots,
         NEW s \in Strings, Missed(s), growing' = [at |-> "no"]
  PROVE  InternerInv'
<1> DEFINE r == Given(Words[s], s)
<1>1. PICK n \in 0 .. (slots - 1) :
        /\ Stop(s, n) /\ AtSlot(s, n) = NULL
        /\ Take(Words[s], s)
        /\ table' = [table EXCEPT ![Probe(Hash[s], n)] = r]
        /\ count' = count + 1 /\ slots' = slots
  BY DEF Missed
<1> DEFINE i == Probe(Hash[s], n)
<1>2. slots \in Nat \ {0} /\ count \in Nat /\ IInv
      /\ table \in [0 .. (slots - 1) -> Region \cup {NULL}]
  BY SlotsFacts, EntriesHeld DEF IInv, TypeOK
<1>3. Words[s] \in Nat \ {0}
  BY SizeAssumption
<1>4. r \in Region /\ held' = held \cup {r}
  BY <1>1, <1>3, TakeMemory DEF Take
<1>5. r.holds = s
  BY <1>1, <1>3, TakeFacts
<1>6. \A m \in 0 .. (slots - 1) : Probe(Hash[s], m) \in 0 .. (slots - 1)
  BY ProbeInTable DEF IInv
<1>7. /\ table[i] = NULL
      /\ \A m \in 0 .. (n - 1) : /\ table[Probe(Hash[s], m)] # NULL
                                 /\ ~Reads(table[Probe(Hash[s], m)], s)
                                 /\ Probe(Hash[s], m) \in 0 .. (slots - 1)
  BY <1>1, <1>2, <1>6 DEF Stop, StopsAt, AtSlot
<1>8. \A x \in InTable : x.holds # s
  BY <1>7, MissedIsAbsent DEF InternerInv
<1> HIDE DEF r, i
<1>9. /\ Used' = Used \cup {i} /\ InTable' = InTable \cup {r}
      /\ table'[i] = r /\ i \notin Used /\ \A j \in Used : table'[j] = table[j]
      /\ AllReached'
      /\ IsFiniteSet(Used') /\ Cardinality(Used') = count'
  <2>1. AllReached /\ Counted
    BY DEF InternerInv
  <2>2. i = Probe(Hash[s], n) /\ i \in 0 .. (slots - 1) /\ table' = [table EXCEPT ![i] = r]
    BY <1>1, <1>6 DEF i
  <2>3. \A j \in Used : \A m \in 0 .. (slots - 1) :
           Probe(Hash[table[j].holds], m) \in 0 .. (slots - 1)
    BY EntriesProbe DEF InternerInv
  <2>4. /\ \A m \in 0 .. (n - 1) : table[Probe(Hash[s], m)] # NULL
        /\ \A m \in 0 .. (n - 1) : Probe(Hash[s], m) \in 0 .. (slots - 1)
        /\ slots' = slots /\ count' = count + 1 /\ table[i] = NULL
        /\ r \in Region /\ r.holds = s
    BY <1>1, <1>4, <1>5, <1>7
  <2> QED BY ONLY <1>2, <2>1, <2>2, <2>3, <2>4, Entered
<1>10. Left' = {} /\ Pending' = {} /\ Pending = {}
  BY DEF Left, Pending
<1>11. PointsAtStrings'
  BY <1>5, <1>9, <1>10 DEF InternerInv, PointsAtStrings
<1>12. NoTwins'
  <2>1. \A j, k \in Used : table'[j].holds = table'[k].holds => j = k
    BY <1>9 DEF InternerInv, NoTwins
  <2>2. \A j \in Used : table'[j].holds # table'[i].holds
    BY <1>5, <1>8, <1>9 DEF InTable
  <2>3. \A j, k \in Used' : table'[j].holds = table'[k].holds => j = k
    BY <1>9, <2>1, <2>2
  <2> QED BY <1>10, <2>3 DEF NoTwins
<1>13. Counted'
  BY <1>1, <1>9 DEF Counted
<1>14. AllInterned'
  BY <1>4, <1>9, <1>10 DEF InternerInv, AllInterned
<1> QED BY <1>9, <1>11, <1>12, <1>13, <1>14 DEF InternerInv

(* A string that is found changes nothing. *)
LEMMA FoundInterner ==
  ASSUME IInv, InternerInv, table # NoTable, Left = {},
         NEW s \in Strings, Found(s), growing' = [at |-> "no"]
  PROVE  InternerInv'
<1>1. held' = held /\ table' = table /\ slots' = slots /\ count' = count
  BY FoundIsHeld DEF Found
<1>2. Used' = Used /\ InTable' = InTable /\ Left' = {} /\ Pending' = Pending /\ Pending = {}
  BY <1>1 DEF Used, InTable, Left, Pending
<1>3. AllReached'
  BY <1>1, <1>2 DEF InternerInv, AllReached, Reached, Probe
<1> QED BY <1>1, <1>2, <1>3 DEF InternerInv, PointsAtStrings, NoTwins, Counted, AllInterned

(* Growing: nothing is in the new table, and all of the old one is pending. *)
LEMMA BeginGrowInterner ==
  ASSUME IInv, InternerInv, NEW s \in Strings, BeginGrow(s)
  PROVE  InternerInv'
<1>1. /\ held' = held /\ table # NoTable /\ table' = EmptyTable(slots * 2)
      /\ slots' = slots * 2 /\ count' = 0 /\ growing.at = "no"
      /\ growing' = [at |-> "yes", old |-> table, next |-> 0, str |-> s]
  BY DEF BeginGrow
<1>2. slots \in Nat \ {0} /\ DOMAIN table = 0 .. (slots - 1)
  BY <1>1, SlotsFacts, EntriesHeld DEF IInv
<1>3. Used' = {} /\ InTable' = {}
  BY <1>1 DEF Used, InTable, EmptyTable
<1>4. growing'.at = "yes" /\ growing'.old = table /\ growing'.next = 0
  BY <1>1
<1>5. Left' = Used
  BY <1>2, <1>4 DEF Left, Used
<1>6. Pending' = InTable
  BY <1>4, <1>5 DEF Pending, InTable
<1>7. Left = {} /\ Pending = {}
  BY <1>1 DEF Left, Pending
<1>8. PointsAtStrings' /\ AllInterned'
  BY <1>1, <1>3, <1>6, <1>7 DEF InternerInv, PointsAtStrings, AllInterned
<1>9. NoTwins'
  BY <1>1, <1>3, <1>4, <1>5 DEF InternerInv, NoTwins
<1>10. AllReached' /\ Counted'
  BY <1>1, <1>2, <1>3, FS_EmptySet DEF AllReached, Counted
<1> QED BY <1>8, <1>9, <1>10 DEF InternerInv

(* A pointer that is moved leaves the old table's rest and enters the table. *)
LEMMA RehashInterner ==
  ASSUME IInv, InternerInv, LargeEnough, Rehash
  PROVE  InternerInv'
<1> DEFINE j == growing.next
           p == growing.old[j]
<1>1. /\ growing.at = "yes" /\ j \in DOMAIN growing.old
      /\ growing' = [growing EXCEPT !.next = @ + 1]
      /\ held' = held /\ mem' = mem /\ slots' = slots
  BY DEF Rehash
<1>2. table # NoTable
  BY <1>1 DEF IInv, GrowingOK
<1>3. PICK c \in Nat : /\ slots = 2 * c
                       /\ DOMAIN growing.old = 0 .. (c - 1)
                       /\ PointsAtHeld(growing.old, c)
                       /\ j \in 0 .. c
                       /\ count =< j
  BY <1>1 DEF IInv, GrowingOK
<1>4. /\ growing'.at = "yes" /\ growing'.old = growing.old /\ growing'.next = j + 1
      /\ j \in 0 .. (c - 1)
  <2>1. growing = [at |-> "yes", old |-> growing.old, next |-> growing.next, str |-> growing.str]
    BY <1>1 DEF IInv, GrowingOK
  <2> QED BY <1>1, <1>3, <2>1
<1>5. slots \in Nat \ {0} /\ count \in Nat /\ slots > 3
      /\ table \in [0 .. (slots - 1) -> Region \cup {NULL}]
  BY <1>1, <1>2, SlotsFacts, EntriesHeld DEF IInv, TypeOK, LargeEnough
<1>6. Left' = Left \ {j}
  BY <1>1, <1>3, <1>4 DEF Left
<1>7. Pending' = {growing.old[k] : k \in Left \ {j}}
  BY <1>4, <1>6 DEF Pending
<1>8. CASE p = NULL
  <2>1. table' = table /\ count' = count /\ j \notin Left
    BY <1>1, <1>8 DEF Rehash, Left
  <2>2. Used' = Used /\ InTable' = InTable /\ Left' = Left /\ Pending' = Pending
    BY <1>1, <1>6, <1>7, <2>1 DEF Used, InTable, Pending
  <2>3. AllReached'
    BY <1>1, <1>2, <2>1, <2>2 DEF InternerInv, AllReached, Reached, Probe
  <2>4. NoTwins'
    BY <1>2, <1>4, <2>1, <2>2 DEF InternerInv, NoTwins
  <2> QED BY <1>1, <1>2, <2>1, <2>2, <2>3, <2>4
          DEF InternerInv, PointsAtStrings, Counted, AllInterned
<1>9. CASE p # NULL
  <2>1. j \in Left /\ p \in Pending
    BY <1>1, <1>3, <1>9 DEF Left, Pending
  <2>2. p \in held /\ p \in Region /\ p.holds \in Strings
    BY <1>2, <2>1, EntriesHeld DEF IInv, TypeOK, InternerInv, PointsAtStrings
  <2>3. PICK s \in Strings \cup {Data}, n \in 0 .. (slots - 1) :
          /\ Reads(p, s) \/ ~(\E t \in Strings : Reads(p, t))
          /\ table[Probe(Hash[s], n)] = NULL
          /\ \A m \in 0 .. (n - 1) : table[Probe(Hash[s], m)] # NULL
          /\ table' = [table EXCEPT ![Probe(Hash[s], n)] = p]
          /\ count' = count + 1
    BY <1>9 DEF Rehash
  <2>4. p.holds = s
    BY <2>2, <2>3, HeldReads
  <2>5. \A m \in 0 .. (slots - 1) : Probe(Hash[s], m) \in 0 .. (slots - 1)
    BY ProbeInTable DEF IInv
  <2> DEFINE i == Probe(Hash[s], n)
  <2>6. /\ i \in 0 .. (slots - 1) /\ table[i] = NULL /\ i = Probe(Hash[s], n)
        /\ \A m \in 0 .. (n - 1) : table[Probe(Hash[s], m)] # NULL
        /\ \A m \in 0 .. (n - 1) : Probe(Hash[s], m) \in 0 .. (slots - 1)
        /\ table' = [table EXCEPT ![i] = p] /\ slots' = slots /\ count' = count + 1
    BY <1>1, <1>5, <2>3, <2>5
  <2> HIDE DEF i, p
  <2>7. /\ Used' = Used \cup {i} /\ InTable' = InTable \cup {p}
        /\ table'[i] = p /\ i \notin Used /\ \A k \in Used : table'[k] = table[k]
        /\ AllReached'
        /\ IsFiniteSet(Used') /\ Cardinality(Used') = count'
    <3>1. AllReached /\ Counted
      BY <1>2 DEF InternerInv
    <3>2. \A k \in Used : \A m \in 0 .. (slots - 1) :
             Probe(Hash[table[k].holds], m) \in 0 .. (slots - 1)
      BY <1>2, EntriesProbe DEF InternerInv
    <3> QED BY ONLY <1>5, <2>2, <2>4, <2>6, <3>1, <3>2, Entered
  <2>8. InTable' \cup Pending' = InTable \cup Pending
    <3>1. Pending = Pending' \cup {p}
      BY <1>7, <2>1 DEF Pending, p
    <3> QED BY <2>7, <3>1
  <2>9. PointsAtStrings' /\ AllInterned'
    BY <1>1, <1>2, <2>8 DEF InternerInv, PointsAtStrings, AllInterned
  <2>10. NoTwins'
    <3>1. \A x \in InTable : x.holds # p.holds
      BY <1>2, <2>1 DEF InternerInv, NoTwins
    <3>2. \A k, l \in Used : table'[k].holds = table'[l].holds => k = l
      BY <1>2, <2>7 DEF InternerInv, NoTwins
    <3>3. \A k \in Used : table'[k].holds # table'[i].holds
      BY <2>7, <3>1 DEF InTable
    <3>4. \A k, l \in Used' : table'[k].holds = table'[l].holds => k = l
      BY <2>7, <3>2, <3>3
    <3>5. \A k, l \in Left' : growing'.old[k].holds = growing'.old[l].holds => k = l
      BY <1>2, <1>4, <1>6 DEF InternerInv, NoTwins
    <3>6. \A y \in Pending' : y \in Pending /\ y.holds # p.holds
      BY <1>2, <1>7, <2>1 DEF InternerInv, NoTwins, Pending, p
    <3>7. \A x \in InTable', y \in Pending' : x.holds # y.holds
      BY <1>2, <2>7, <3>6 DEF InternerInv, NoTwins
    <3> QED BY <3>4, <3>5, <3>7 DEF NoTwins
  <2>11. Counted'
    <3>1. count' < slots'
      BY <1>1, <1>3, <1>4, <1>5, <2>3
    <3> QED BY <2>7, <3>1 DEF Counted
  <2> QED BY <2>7, <2>9, <2>10, <2>11 DEF InternerInv
<1> QED BY <1>8, <1>9

(* A request for memory that is not a string, and a copy made without a table,
   leave the interner as it is. *)
LEMMA TakeInterner ==
  ASSUME IInv, InternerInv, NEW n, NEW what, Take(n, what), UNCHANGED interner,
         Given(n, what).holds = what, table = NoTable \/ what \notin Strings
  PROVE  InternerInv'
<1>1. /\ table' = table /\ slots' = slots /\ count' = count /\ growing' = growing
      /\ held' = held \cup {Given(n, what)}
  BY DEF interner, Take
<1>2. Used' = Used /\ InTable' = InTable /\ Left' = Left /\ Pending' = Pending
  BY <1>1 DEF Used, InTable, Left, Pending
<1>3. InternerInv => (table' # NoTable => AllReached')
  BY <1>1, <1>2 DEF InternerInv, AllReached, Reached, Probe
<1> QED BY <1>1, <1>2, <1>3 DEF InternerInv, PointsAtStrings, NoTwins, Counted, AllInterned
-----------------------------------------------------------------------------
LEMMA InitTInv == Init => TInv
<1> SUFFICES ASSUME Init PROVE TInv
  OBVIOUS
<1>1. /\ held = {} /\ count = 0 /\ slots = FirstSlots /\ growing = [at |-> "no"]
      /\ FirstSlots \in Nat /\ FirstSlots > 1
      /\ (table = EmptyTable(FirstSlots) \/ table = NoTable)
  BY TableAssumption DEF Init, Tables
<1>2. LargeEnough
  BY <1>1 DEF LargeEnough
<1>3. ASSUME table # NoTable
      PROVE  PointsAtStrings /\ NoTwins /\ AllReached /\ Counted /\ AllInterned
  <2>1. Used = {} /\ InTable = {} /\ Left = {} /\ Pending = {}
    BY <1>1, <1>3 DEF Used, InTable, Left, Pending, EmptyTable
  <2> QED BY <1>1, <2>1, FS_EmptySet
          DEF PointsAtStrings, NoTwins, AllReached, Counted, AllInterned
<1> QED BY <1>2, <1>3, InitIInv DEF TInv, InternerInv

LEMMA NextLargeEnough == TInv /\ [Next]_vars => LargeEnough'
<1> SUFFICES ASSUME TInv, [Next]_vars PROVE LargeEnough'
  OBVIOUS
<1>1. slots \in Nat \ {0} /\ slots > 1 /\ (growing.at = "yes" => slots > 3)
  BY SlotsFacts DEF TInv, IInv, LargeEnough
<1>2. CASE slots' = slots /\ growing'.at \in {growing.at, "no"}
  BY <1>1, <1>2 DEF LargeEnough
<1>3. ASSUME NEW s \in Strings, BeginGrow(s) PROVE LargeEnough'
  BY <1>1, <1>3 DEF BeginGrow, LargeEnough
<1>4. CASE Rehash
  <2>1. growing = [at |-> "yes", old |-> growing.old, next |-> growing.next, str |-> growing.str]
    BY <1>4 DEF Rehash, TInv, IInv, GrowingOK
  <2>2. growing'.at = "yes" /\ growing.at = "yes" /\ slots' = slots
    BY <1>4, <2>1 DEF Rehash
  <2> QED BY <1>2, <2>2
<1>5. CASE EndGrow
  BY <1>2, <1>5 DEF EndGrow, Lookup, Found, Missed
<1>6. ASSUME NEW s \in Strings, StrdupPlain(s) \/ Strdup(s) PROVE LargeEnough'
  BY <1>2, <1>6 DEF StrdupPlain, Strdup, Lookup, Found, Missed, interner
<1>7. ASSUME NEW n \in Requests, Alloc(n) PROVE LargeEnough'
  BY <1>2, <1>7 DEF Alloc, interner
<1>8. CASE Free \/ Reset \/ UNCHANGED vars
  BY <1>2, <1>8 DEF Free, Reset, interner, vars
<1> QED BY <1>3, <1>4, <1>5, <1>6, <1>7, <1>8 DEF Next, NextWithoutReset

LEMMA NextInterner == TInv /\ [Next]_vars => InternerInv'
<1> SUFFICES ASSUME TInv, [Next]_vars PROVE InternerInv'
  OBVIOUS
<1> USE DEF TInv
<1>0. slots \in Nat /\ slots > 1 /\ count \in Nat
  BY SlotsFacts DEF IInv, TypeOK, LargeEnough
<1>1. ASSUME NEW n \in Requests, Alloc(n) PROVE InternerInv'
  <2>1. n \in Nat \ {0} /\ Take(n, Data) /\ UNCHANGED interner /\ Data \notin Strings
    BY <1>1, SizeAssumption DEF Alloc
  <2>2. Given(n, Data).holds = Data
    BY <2>1, TakeFacts
  <2> QED BY <2>1, <2>2, TakeInterner
<1>2. ASSUME NEW s \in Strings, StrdupPlain(s) PROVE InternerInv'
  <2>1. Words[s] \in Nat \ {0} /\ Take(Words[s], s) /\ UNCHANGED interner /\ table = NoTable
    BY <1>2, SizeAssumption DEF StrdupPlain
  <2>2. Given(Words[s], s).holds = s
    BY <2>1, TakeFacts
  <2> QED BY <2>1, <2>2, TakeInterner
<1>3. ASSUME NEW s \in Strings, Strdup(s) PROVE InternerInv'
  <2>1. table # NoTable /\ Lookup(s) /\ growing.at = "no" /\ growing' = [at |-> "no"] /\ Left = {}
    BY <1>3 DEF Strdup, IInv, GrowingOK, Left
  <2>2. count + 1 < slots
    BY <1>0, <1>3 DEF Strdup, HasRoom
  <2> QED BY <2>1, <2>2, FoundInterner, MissedInterner DEF Lookup
<1>4. ASSUME NEW s \in Strings, BeginGrow(s) PROVE InternerInv'
  BY <1>4, BeginGrowInterner
<1>5. CASE Rehash
  BY <1>5, RehashInterner
<1>6. CASE EndGrow
  <2>1. /\ growing.at = "yes" /\ growing.next \notin DOMAIN growing.old
        /\ Lookup(growing.str) /\ growing' = [at |-> "no"]
    BY <1>6 DEF EndGrow
  <2>2. PICK c \in Nat : /\ slots = 2 * c /\ DOMAIN growing.old = 0 .. (c - 1)
                         /\ growing.next \in 0 .. c /\ count =< growing.next
    BY <2>1 DEF IInv, GrowingOK
  <2>3. table # NoTable /\ growing.str \in Strings
    BY <2>1 DEF IInv, GrowingOK
  <2>4. growing.next = c /\ Left = {}
    BY <2>1, <2>2 DEF Left
  <2>5. count + 1 < slots
    BY <1>0, <2>1, <2>2 DEF LargeEnough
  <2> QED BY <2>1, <2>3, <2>4, <2>5, FoundInterner, MissedInterner DEF Lookup
<1>7. CASE Free
  BY <1>7 DEF Free, InternerInv
<1>8. CASE NothingInterned /\ Reset
  <2>1. /\ held' = {} /\ table' = table /\ slots' = slots /\ count' = count /\ growing' = growing
        /\ growing.at = "no"
    BY <1>8 DEF Reset, interner
  <2>2. Used' = Used /\ InTable' = InTable /\ Left' = Left /\ Pending' = Pending
    BY <2>1 DEF Used, InTable, Left, Pending
  <2>3. AllReached => AllReached'
    BY <2>1, <2>2 DEF AllReached, Reached, Probe
  <2> QED BY <2>1, <2>2, <2>3 DEF InternerInv, PointsAtStrings, NoTwins, Counted, AllInterned
<1>9. CASE UNCHANGED vars
  <2>1. held' = held /\ table' = table /\ slots' = slots /\ count' = count /\ growing' = growing
    BY <1>9 DEF vars
  <2>2. Used' = Used /\ InTable' = InTable /\ Left' = Left /\ Pending' = Pending
    BY <2>1 DEF Used, InTable, Left, Pending
  <2>3. AllReached => AllReached'
    BY <2>1, <2>2 DEF AllReached, Reached, Probe
  <2> QED BY <2>1, <2>2, <2>3 DEF InternerInv, PointsAtStrings, NoTwins, Counted, AllInterned
<1> QED BY <1>1, <1>2, <1>3, <1>4, <1>5, <1>6, <1>7, <1>8, <1>9 DEF Next, NextWithoutReset

(* The interner's invariant holds in every reachable state. *)
THEOREM InternerInvariant == Spec => []TInv
<1>1. TInv /\ [Next]_vars => TInv'
  BY NextIInv, NextLargeEnough, NextInterner DEF TInv
<1> QED BY InitTInv, <1>1, PTL DEF Spec
-----------------------------------------------------------------------------
(* Equal strings that were handed out are one pointer, through every growth. *)
THEOREM PointersCanonical == Spec => []Canonical
<1>1. ASSUME TInv, table # NoTable,
             NEW x \in held, NEW y \in held, x.holds = y.holds, x.holds \in Strings
      PROVE  x = y
  <2>1. x \in InTable \cup Pending /\ y \in InTable \cup Pending
    BY <1>1 DEF TInv, InternerInv, AllInterned
  <2> QED BY <1>1, <2>1 DEF TInv, InternerInv, NoTwins, InTable, Pending
<1>2. TInv => Canonical
  BY <1>1 DEF Canonical
<1> QED BY InternerInvariant, <1>2, PTL

(* There is always an unused slot for a probe to end at. *)
THEOREM ProbesEnd == Spec => []ProbeEnds
<1>1. ASSUME TInv, table # NoTable, \A i \in 0 .. (slots - 1) : table[i] # NULL
      PROVE  FALSE
  <2>1. Used = 0 .. (slots - 1) /\ slots \in Nat \ {0}
    BY <1>1, SlotsFacts DEF Used, TInv, IInv
  <2>2. Cardinality(Used) = slots
    BY <2>1, FS_Interval
  <2> QED BY <1>1, <2>2, SlotsFacts DEF TInv, InternerInv, Counted, IInv, TypeOK
<1>2. TInv => ProbeEnds
  BY <1>1 DEF ProbeEnds
<1> QED BY InternerInvariant, <1>2, PTL
=============================================================================
