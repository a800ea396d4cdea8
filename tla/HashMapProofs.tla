--------------------------- MODULE HashMapProofs ---------------------------
(***************************************************************************)
(* The dictionary of HashMap is correct for every set of keys, every hash  *)
(* function and every number of doublings: each walk ends, finds exactly   *)
(* what was stored, and entries never move.                                *)
(*                                                                         *)
(* All that is used of the probe sequence is ProbeAssumption (it stays in  *)
(* the table and covers it), and of the table sizes CapacityAssumption.    *)
(***************************************************************************)
EXTENDS HashMap, TLAPS, FiniteSetTheorems, WellFoundedInduction

(* Every entry in use has a key. *)
EntriesInUse == \A i \in 0 .. (size - 1) : entries[i] \in [key : Keys, value : Values]

(* The index table points at covered entries only, and never twice at one. *)
IndexBound == \A s \in Slots(capacity) : indices[s] \in {Empty} \cup 0 .. (Indexed - 1)

IndexInjective ==
  \A s, t \in Slots(capacity) : indices[s] = indices[t] /\ indices[s] # Empty => s = t

(* A covered entry lies on its key's walk with no Empty slot before it. *)
OnWalk(k, i, n) ==
  /\ n \in Steps(k)
  /\ indices[SlotAt(k, n)] = i
  /\ \A m \in 1 .. (n - 1) : ~IsFree(k, m)

Reachable == \A i \in 0 .. (Indexed - 1) : \E n \in Steps(entries[i].key) : OnWalk(entries[i].key, i, n)

(* The call a resize interrupted has room in the new table. *)
RoomForCall == phase.at = "rehash" => size < Limit(capacity)

(* The inductive invariant. *)
IInv ==
  /\ TypeOK
  /\ EntriesInUse
  /\ KeysDistinct
  /\ IndexBound
  /\ IndexInjective
  /\ Reachable
  /\ RoomForCall
-----------------------------------------------------------------------------
(* A set of naturals that is not empty has a least element. *)
LEMMA LeastNatural ==
  ASSUME NEW S \in SUBSET Nat, S # {}
  PROVE  \E n \in S : \A m \in S : n =< m
<1>1. PICK n \in S : \A m \in S : ~ (<<m, n>> \in OpToRel(<, Nat))
  BY NatLessThanWellFounded, WFMin, Zenon
<1>2. \A m \in S : ~ (m < n)
  BY <1>1 DEF OpToRel
<1>3. \A m \in S : n =< m
  BY <1>2
<1> QED BY <1>3

(* A walk's slots lie in the table, and its steps count from one. *)
LEMMA WalkInTable ==
  ASSUME capacity \in Capacities, NEW k \in Keys
  PROVE  /\ \E l \in Nat : Steps(k) = 1 .. l
         /\ \A n \in Steps(k) : SlotAt(k, n) \in Slots(capacity)
         /\ \A s \in Slots(capacity) : \E n \in Steps(k) : SlotAt(k, n) = s
<1> DEFINE p == Probe[k, capacity]
<1>1. p \in Seq(Slots(capacity)) /\ \A s \in Slots(capacity) : \E n \in DOMAIN p : p[n] = s
  BY ProbeAssumption
<1>2. Steps(k) = DOMAIN p /\ \A n \in Steps(k) : SlotAt(k, n) = p[n]
  BY DEF Steps, SlotAt
<1> HIDE DEF p
<1>3. /\ Len(p) \in Nat /\ DOMAIN p = 1 .. Len(p)
      /\ \A n \in 1 .. Len(p) : p[n] \in Slots(capacity)
  BY <1>1
<1> QED BY <1>1, <1>2, <1>3

(* The entry array is smaller than the index table, and doubling makes room. *)
LEMMA LimitFacts ==
  ASSUME NEW c \in Capacities
  PROVE  /\ c \in Nat /\ c >= 3
         /\ Limit(c) \in Nat /\ Limit(c) > 0 /\ Limit(c) < c
         /\ Limit(c) < Limit(c * 2)
BY CapacityAssumption DEF Limit

(* What a call is. *)
LEMMA CallFacts ==
  ASSUME NEW call \in Calls
  PROVE  /\ call.key \in Keys
         /\ call.op \in {"put", "intern", "inc"}
         /\ call.op = "put" => call.value \in PutValues
BY DEF Calls

LEMMA ValueFacts ==
  ASSUME NEW call \in Calls, NEW old \in Values, call.op = "inc" => CanCount(old)
  PROVE  FreshValue(call) \in Values /\ UpdatedValue(call, old) \in Values
<1>1. MaxCount \in Nat /\ MaxCount > 0
  BY KeyAssumption
<1>2. CASE call.op = "put"
  BY <1>2, CallFacts DEF FreshValue, UpdatedValue, Values
<1>3. CASE call.op = "intern"
  BY <1>3, CallFacts DEF FreshValue, UpdatedValue, Values
<1>4. CASE call.op = "inc"
  BY <1>1, <1>4 DEF FreshValue, UpdatedValue, Values, CanCount
<1> QED BY <1>2, <1>3, <1>4, CallFacts

(* How far the index table covers the entry array. *)
LEMMA IndexedFacts ==
  ASSUME TypeOK
  PROVE  /\ size \in Nat /\ Indexed \in 0 .. size
         /\ phase.at \in {"idle", "rehash"}
         /\ phase.at = "idle" => phase = [at |-> "idle"] /\ Indexed = size
         /\ phase.at = "rehash" => phase.next \in 0 .. size /\ Indexed = phase.next /\ phase.call \in Calls
<1>1. size \in Nat /\ capacity \in Capacities
  BY LimitFacts DEF TypeOK
<1>2. CASE phase = [at |-> "idle"]
  BY <1>1, <1>2 DEF Indexed
<1>3. CASE phase \in [at : {"rehash"}, next : 0 .. size, call : Calls]
  BY <1>1, <1>3 DEF Indexed
<1> QED BY <1>2, <1>3 DEF TypeOK

(* The first n naturals number n. *)
LEMMA CountBelow ==
  ASSUME NEW n \in Nat
  PROVE  IsFiniteSet(0 .. (n - 1)) /\ Cardinality(0 .. (n - 1)) = n
<1> DEFINE b == n - 1
<1>1. 0 \in Int /\ b \in Int
  OBVIOUS
<1>2. (IF 0 > b THEN 0 ELSE b - 0 + 1) = n
  OBVIOUS
<1> HIDE DEF b
<1>3. IsFiniteSet(0 .. b) /\ Cardinality(0 .. b) = n
  BY <1>1, <1>2, FS_Interval
<1> QED BY <1>3 DEF b

(* An index table that points at fewer entries than it has slots, never twice
   at one, has an Empty slot. *)
LEMMA EmptySlot ==
  ASSUME IInv
  PROVE  \E s \in Slots(capacity) : indices[s] = Empty
<1>1. /\ capacity \in Nat /\ Limit(capacity) \in Nat /\ Limit(capacity) < capacity
      /\ Indexed \in Nat /\ Indexed =< Limit(capacity)
  BY LimitFacts, IndexedFacts DEF IInv, TypeOK
<1>2. SUFFICES ASSUME \A s \in Slots(capacity) : indices[s] # Empty PROVE FALSE
  OBVIOUS
<1> DEFINE S == 0 .. (capacity - 1)
           T == 0 .. (Indexed - 1)
           f == [s \in S |-> indices[s]]
<1>3. f \in [S -> T]
  BY <1>2 DEF IInv, IndexBound, Slots
<1>4. IsFiniteSet(S) /\ Cardinality(S) = capacity
  BY <1>1, CountBelow
<1>5. IsFiniteSet(T) /\ Cardinality(T) = Indexed
  BY <1>1, CountBelow
<1>6. Cardinality(T) < Cardinality(S)
  BY <1>1, <1>4, <1>5
<1>7. \E x, y \in S : x # y /\ f[x] = f[y]
  <2> HIDE DEF S, T, f
  <2> QED BY <1>3, <1>4, <1>5, <1>6, FS_PigeonHole
<1> QED BY <1>7, <1>2 DEF IInv, IndexInjective, Slots

(* So every walk meets an Empty slot; take the first one. *)
LEMMA FirstFreeOnWalk ==
  ASSUME IInv, NEW k \in Keys
  PROVE  \E n \in Steps(k) : IsFree(k, n) /\ \A m \in 1 .. (n - 1) : ~IsFree(k, m)
<1>1. capacity \in Capacities
  BY DEF IInv, TypeOK
<1>2. PICK l \in Nat : Steps(k) = 1 .. l
  BY <1>1, WalkInTable
<1> DEFINE F == {n \in Steps(k) : IsFree(k, n)}
<1>3. F # {}
  BY <1>1, EmptySlot, WalkInTable DEF IsFree
<1>4. F \in SUBSET Nat
  BY <1>2
<1>5. PICK n \in F : \A m \in F : n =< m
  BY <1>3, <1>4, LeastNatural
<1>6. \A m \in 1 .. (n - 1) : m \in Steps(k) /\ ~(n =< m)
  BY <1>2, <1>5
<1> QED BY <1>5, <1>6

(* When the index table covers every entry, a match on a walk is a stored entry. *)
LEMMA MatchIsStored ==
  ASSUME IInv, Indexed = size, NEW k \in Keys, NEW n \in Steps(k), IsMatch(k, n)
  PROVE  /\ indices[SlotAt(k, n)] \in 0 .. (size - 1)
         /\ entries[indices[SlotAt(k, n)]].key = k
<1>1. Indexed = size /\ size \in Nat /\ capacity \in Capacities
  BY IndexedFacts DEF IInv, TypeOK
<1>2. SlotAt(k, n) \in Slots(capacity)
  BY <1>1, WalkInTable
<1> QED BY <1>1, <1>2 DEF IInv, IndexBound, IsMatch, IsFree

(* The walk for a key that has an entry ends on that entry. *)
LEMMA StoredIsFound ==
  ASSUME IInv, Indexed = size, NEW i \in 0 .. (size - 1)
  PROVE  /\ entries[i].key \in Keys
         /\ Finds(entries[i].key)
         /\ Found(entries[i].key) = i
         /\ ~EndsFree(entries[i].key)
<1> DEFINE k == entries[i].key
<1>0. k \in Keys /\ entries[i] # Junk
  BY KeyAssumption DEF IInv, EntriesInUse, Entry
<1>1. Indexed = size /\ size \in Nat /\ capacity \in Capacities
  BY IndexedFacts DEF IInv, TypeOK
<1>2. PICK l \in Nat : Steps(k) = 1 .. l
  BY <1>0, <1>1, WalkInTable
<1>3. PICK n \in Steps(k) : OnWalk(k, i, n)
  BY <1>1 DEF IInv, Reachable
<1>4. IsMatch(k, n)
  BY <1>0, <1>1, <1>3 DEF OnWalk, IsMatch, IsFree, Empty
<1> DEFINE M == {m \in Steps(k) : IsMatch(k, m)}
<1>5. M # {} /\ M \in SUBSET Nat
  BY <1>2, <1>4
<1>6. PICK a \in M : \A m \in M : a =< m
  BY <1>5, LeastNatural
<1>7. a =< n /\ a \in 1 .. l /\ n \in 1 .. l
  BY <1>2, <1>4, <1>6
<1>8. \A m \in 1 .. (a - 1) : ~IsFree(k, m) /\ ~IsMatch(k, m)
  <2> TAKE m \in 1 .. (a - 1)
  <2>1. m \in 1 .. (n - 1) /\ m \in Steps(k) /\ ~(a =< m)
    BY <1>2, <1>7
  <2> QED BY <1>3, <1>6, <2>1 DEF OnWalk
<1>9. FirstMatch(k, a)
  BY <1>6, <1>8 DEF FirstMatch
<1>10. \A b \in Steps(k) : FirstMatch(k, b) => indices[SlotAt(k, b)] = i
  BY <1>0, MatchIsStored DEF FirstMatch, IInv, KeysDistinct
<1>11. Found(k) = i
  BY <1>9, <1>10, <1>6 DEF Found
<1>12. ~EndsFree(k)
  <2> SUFFICES ASSUME NEW b \in Steps(k), FirstFree(k, b) PROVE FALSE
    BY DEF EndsFree
  <2>1. IsFree(k, b) /\ \A m \in 1 .. (b - 1) : ~IsMatch(k, m)
    BY DEF FirstFree
  <2>2. b \in 1 .. l
    BY <1>2
  <2>3. CASE b < n
    BY <1>3, <1>7, <2>1, <2>2, <2>3 DEF OnWalk
  <2>4. CASE b = n
    BY <1>4, <2>1, <2>4 DEF IsMatch
  <2>5. CASE b > n
    BY <1>4, <1>7, <2>1, <2>2, <2>5
  <2> QED BY <1>7, <2>2, <2>3, <2>4, <2>5
<1> QED BY <1>0, <1>6, <1>9, <1>11, <1>12 DEF Finds

(* The walk for a key without an entry ends on an Empty slot. *)
LEMMA UnstoredEndsFree ==
  ASSUME IInv, Indexed = size, NEW k \in Keys, k \notin Stored
  PROVE  EndsFree(k)
<1>1. PICK n \in Steps(k) : IsFree(k, n) /\ \A m \in 1 .. (n - 1) : ~IsFree(k, m)
  BY FirstFreeOnWalk
<1>2. PICK l \in Nat : Steps(k) = 1 .. l
  BY WalkInTable DEF IInv, TypeOK
<1>3. \A m \in 1 .. (n - 1) : ~IsMatch(k, m)
  <2> SUFFICES ASSUME NEW m \in 1 .. (n - 1), IsMatch(k, m) PROVE FALSE
    OBVIOUS
  <2>1. m \in Steps(k)
    BY <1>2
  <2> QED BY <2>1, MatchIsStored DEF Stored
<1> QED BY <1>1, <1>3 DEF EndsFree, FirstFree

(* A walk that is at an entry of its key, or free, is one or the other. *)
LEMMA FoundIsStored ==
  ASSUME IInv, Indexed = size, NEW k \in Keys, Finds(k)
  PROVE  Found(k) \in 0 .. (size - 1) /\ entries[Found(k)].key = k
<1> DEFINE n == CHOOSE n \in Steps(k) : FirstMatch(k, n)
<1>1. n \in Steps(k) /\ FirstMatch(k, n)
  BY DEF Finds
<1>2. Found(k) = indices[SlotAt(k, n)]
  BY DEF Found
<1> HIDE DEF n
<1> QED BY <1>1, <1>2, MatchIsStored DEF FirstMatch
-----------------------------------------------------------------------------
(* A walk depends on the table size only. *)
LEMMA SameWalk ==
  ASSUME capacity' = capacity
  PROVE \A k : Steps(k)' = Steps(k) /\ \A n : SlotAt(k, n)' = SlotAt(k, n)
BY DEF Steps, SlotAt

(* The fresh table indexes nothing. *)
LEMMA InitIInv == Init => IInv
<1> SUFFICES ASSUME Init PROVE IInv
  OBVIOUS
<1>1. capacity \in Capacities
  <2>1. PICK c \in Capacities : \E n \in 0 .. c : capacity = NextPow2(n)
    BY DEF Init
  <2>2. PICK n \in 0 .. c : capacity = NextPow2(n)
    BY <2>1
  <2> DEFINE S == {d \in Capacities : n =< d}
  <2>3. S # {} /\ S \in SUBSET Nat
    BY <2>2, LimitFacts
  <2>4. PICK m \in S : \A d \in S : m =< d
    BY <2>3, LeastNatural
  <2>5. \E e \in Capacities : n =< e /\ \A d \in Capacities : n =< d => e =< d
    BY <2>4
  <2> QED BY <2>2, <2>5 DEF NextPow2
<1>2. size = 0 /\ phase = [at |-> "idle"] /\ phase.at = "idle"
      /\ indices = [s \in Slots(capacity) |-> Empty]
      /\ entries = [i \in 0 .. (Limit(capacity) - 1) |-> Junk]
  BY DEF Init
<1>3. Indexed = 0
  BY <1>2 DEF Indexed
<1>4. Limit(capacity) \in Nat
  BY <1>1, LimitFacts
<1>5. TypeOK
  BY <1>1, <1>2, <1>4 DEF TypeOK
<1>6. EntriesInUse /\ KeysDistinct /\ RoomForCall
  BY <1>2 DEF EntriesInUse, KeysDistinct, RoomForCall
<1>7. IndexBound /\ IndexInjective /\ Reachable
  BY <1>2, <1>3 DEF IndexBound, IndexInjective, Reachable
<1> QED BY <1>5, <1>6, <1>7 DEF IInv

(* An update writes a value and nothing else. *)
LEMMA UpdateIInv ==
  ASSUME IInv, Indexed = size, NEW call \in Calls, Update(call), phase' = [at |-> "idle"]
  PROVE  IInv'
<1> DEFINE k == call.key
           f == Found(k)
<1>1. k \in Keys /\ f \in 0 .. (size - 1) /\ entries[f].key = k
  BY CallFacts, FoundIsStored DEF Update
<1>2. /\ capacity' = capacity /\ size' = size /\ indices' = indices
      /\ phase'.at = "idle" /\ Indexed' = size
      /\ capacity \in Capacities /\ Limit(capacity) \in Nat /\ size \in 0 .. Limit(capacity)
  BY LimitFacts DEF Update, Indexed, IInv, TypeOK
<1>3. entries' = [entries EXCEPT ![f].value = UpdatedValue(call, @)]
      /\ (call.op = "inc" => CanCount(entries[f].value))
  BY DEF Update
<1>4. entries[f] \in [key : Keys, value : Values]
  BY <1>1 DEF IInv, EntriesInUse
<1> DEFINE v == UpdatedValue(call, entries[f].value)
<1>5. v \in Values
  BY <1>3, <1>4, ValueFacts
<1> HIDE DEF v, f, k
<1>6. /\ DOMAIN entries = 0 .. (Limit(capacity) - 1) /\ DOMAIN entries' = DOMAIN entries
      /\ entries'[f] = [entries[f] EXCEPT !.value = v]
      /\ \A i \in 0 .. (Limit(capacity) - 1) : i # f => entries'[i] = entries[i]
  BY <1>1, <1>2, <1>3 DEF IInv, TypeOK, v
<1>7. entries'[f] \in [key : Keys, value : Values] /\ entries'[f].key = entries[f].key
  BY <1>4, <1>5, <1>6
<1>8. \A i \in 0 .. (size - 1) : entries'[i].key = entries[i].key
  BY <1>1, <1>2, <1>6, <1>7
<1>9. TypeOK'
  <2>1. entries' \in [0 .. (Limit(capacity) - 1) -> Entry \cup {Junk}]
    <3>1. \A i \in 0 .. (Limit(capacity) - 1) : entries'[i] \in Entry \cup {Junk}
      BY <1>6, <1>7 DEF IInv, TypeOK, Entry
    <3>2. entries' = [i \in DOMAIN entries' |-> entries'[i]]
      BY <1>3
    <3> QED BY <1>6, <3>1, <3>2
  <2> QED BY <1>2, <2>1 DEF TypeOK, IInv
<1>10. EntriesInUse' /\ KeysDistinct' /\ RoomForCall'
  BY <1>1, <1>2, <1>6, <1>7, <1>8 DEF EntriesInUse, KeysDistinct, RoomForCall, IInv
<1>11. IndexBound' /\ IndexInjective'
  BY <1>2 DEF IndexBound, IndexInjective, IInv
<1>12. Reachable'
  <2> SUFFICES ASSUME NEW i \in 0 .. (size - 1)
               PROVE  \E n \in Steps(entries[i].key)' : OnWalk(entries[i].key, i, n)'
    BY <1>2 DEF Reachable
  <2>1. PICK n \in Steps(entries[i].key) : OnWalk(entries[i].key, i, n)
    BY DEF IInv, Reachable
  <2>2. entries'[i].key = entries[i].key
    BY <1>8
  <2>3. OnWalk(entries[i].key, i, n)'
    BY <1>2, <2>1, <2>2, SameWalk DEF OnWalk, IsFree
  <2> QED BY <1>2, <2>1, <2>2, <2>3, SameWalk
<1> QED BY <1>9, <1>10, <1>11, <1>12 DEF IInv

(* Indexing the next entry at the first Empty slot of its walk keeps every
   covered entry reachable: no walk loses a slot it passes. *)
LEMMA AddIndex ==
  ASSUME IInv, NEW k \in Keys, NEW n \in Steps(k),
         IsFree(k, n), \A m \in 1 .. (n - 1) : ~IsFree(k, m),
         indices' = [indices EXCEPT ![SlotAt(k, n)] = Indexed],
         capacity' = capacity, Indexed' = Indexed + 1,
         \A i \in 0 .. (Indexed - 1) : entries'[i].key = entries[i].key,
         entries'[Indexed].key = k
  PROVE  IndexBound' /\ IndexInjective' /\ Reachable'
<1> DEFINE a == SlotAt(k, n)
<1>1. capacity \in Capacities /\ Indexed \in Nat /\ DOMAIN indices = Slots(capacity)
  BY IndexedFacts DEF IInv, TypeOK
<1>2. a \in Slots(capacity) /\ indices[a] = Empty
  BY <1>1, WalkInTable DEF IsFree
<1> HIDE DEF a
<1>3. indices'[a] = Indexed /\ \A s \in Slots(capacity) : s # a => indices'[s] = indices[s]
  BY <1>1, <1>2 DEF a
<1>4. \A s \in Slots(capacity) : indices[s] \in {Empty} \cup 0 .. (Indexed - 1)
  BY DEF IInv, IndexBound
<1>5. IndexBound'
  BY <1>1, <1>3, <1>4 DEF IndexBound, Empty
<1>6. IndexInjective'
  BY <1>1, <1>3, <1>4 DEF IInv, IndexInjective, Empty
<1>7. Reachable'
  <2> SUFFICES ASSUME NEW i \in 0 .. Indexed
               PROVE  \E b \in Steps(entries[i].key)' : OnWalk(entries[i].key, i, b)'
    BY <1>1 DEF Reachable
  <2> DEFINE q == entries'[i].key
  <2>1. /\ Steps(entries[i].key)' = Steps(q)
        /\ \A b : SlotAt(entries[i].key, b)' = SlotAt(q, b)
    BY SameWalk
  <2>2. CASE i = Indexed
    <3>1. q = k
      BY <2>2
    <3>2. \A m \in 1 .. (n - 1) : SlotAt(k, m) # a /\ SlotAt(k, m) \in Slots(capacity)
      <4> TAKE m \in 1 .. (n - 1)
      <4>1. m \in Steps(k)
        BY <1>1, WalkInTable
      <4> QED BY <1>1, <1>2, <4>1, WalkInTable DEF IsFree
    <3> HIDE DEF q
    <3>3. \A m \in 1 .. (n - 1) : indices'[SlotAt(k, m)] # Empty
      BY <1>3, <3>2 DEF IsFree
    <3>4. OnWalk(entries[i].key, i, n)'
      BY <1>3, <2>1, <2>2, <3>1, <3>3 DEF OnWalk, IsFree, a
    <3> QED BY <2>1, <3>1, <3>4
  <2>3. CASE i \in 0 .. (Indexed - 1)
    <3>1. q = entries[i].key /\ q \in Keys
      <4>1. i \in 0 .. (size - 1)
        BY <2>3, IndexedFacts DEF IInv
      <4> QED BY <2>3, <4>1 DEF IInv, EntriesInUse
    <3>2. PICK b \in Steps(q) : OnWalk(q, i, b)
      BY <2>3, <3>1 DEF IInv, Reachable
    <3> HIDE DEF q
    <3>3. \A m \in 1 .. b : SlotAt(q, m) \in Slots(capacity)
      BY <1>1, <3>1, WalkInTable
    <3>4. b \in 1 .. b /\ \A m \in 1 .. (b - 1) : m \in 1 .. b
      BY <1>1, <3>1, WalkInTable
    <3>5. SlotAt(q, b) # a /\ \A m \in 1 .. (b - 1) : SlotAt(q, m) # a
      BY <1>2, <2>3, <3>2 DEF OnWalk, IsFree, Empty
    <3>6. indices'[SlotAt(q, b)] = i /\ \A m \in 1 .. (b - 1) : indices'[SlotAt(q, m)] # Empty
      BY <1>3, <3>2, <3>3, <3>4, <3>5 DEF OnWalk, IsFree
    <3>7. OnWalk(entries[i].key, i, b)'
      BY <2>1, <3>2, <3>6 DEF OnWalk, IsFree
    <3> QED BY <2>1, <3>7
  <2> QED BY <1>1, <2>2, <2>3
<1> QED BY <1>5, <1>6, <1>7

(* An insertion appends a key that had no entry. *)
LEMMA InsertIInv ==
  ASSUME IInv, Indexed = size, size < Limit(capacity),
         NEW call \in Calls, Insert(call), phase' = [at |-> "idle"]
  PROVE  IInv'
<1> DEFINE k == call.key
           e == [key |-> k, value |-> FreshValue(call)]
<1>1. PICK n \in Steps(k) : /\ FirstFree(k, n)
                            /\ indices' = [indices EXCEPT ![SlotAt(k, n)] = size]
  BY DEF Insert
<1>2. IsFree(k, n) /\ \A m \in 1 .. (n - 1) : ~IsFree(k, m)
  BY <1>1 DEF FirstFree
<1>3. e \in [key : Keys, value : Values]
  <2>1. k \in Keys
    BY CallFacts
  <2>2. FreshValue(call) \in Values
    <3>1. NULL \in Values /\ (call.op = "inc" => CanCount(1) \/ FreshValue(call) = 1)
      BY DEF Values, FreshValue
    <3>2. CASE call.op = "inc"
      BY <3>2, KeyAssumption DEF FreshValue, Values
    <3>3. CASE call.op # "inc"
      BY <3>1, <3>3, ValueFacts
    <3> QED BY <3>2, <3>3
  <2> QED BY <2>1, <2>2
<1>4. k \in Keys /\ EndsFree(k)
  BY <1>1, CallFacts DEF EndsFree
<1>5. \A i \in 0 .. (size - 1) : entries[i].key # k
  BY <1>4, StoredIsFound
<1>6. /\ capacity' = capacity /\ size' = size + 1
      /\ entries' = [entries EXCEPT ![size] = e]
      /\ phase'.at = "idle" /\ Indexed' = size + 1
      /\ capacity \in Capacities /\ Limit(capacity) \in Nat /\ size \in 0 .. (Limit(capacity) - 1)
  BY LimitFacts DEF Insert, Indexed, IInv, TypeOK
<1> HIDE DEF k, e
<1>7. /\ entries' \in [0 .. (Limit(capacity) - 1) -> Entry \cup {Junk}]
      /\ entries'[size] = e
      /\ \A i \in 0 .. (size - 1) : entries'[i] = entries[i]
  BY <1>3, <1>6 DEF IInv, TypeOK, Entry
<1>8. e.key = k
  BY DEF e
<1>9. IndexBound' /\ IndexInjective' /\ Reachable'
  BY <1>1, <1>2, <1>4, <1>6, <1>7, <1>8, AddIndex
<1>10. TypeOK'
  <2>1. SlotAt(k, n) \in Slots(capacity)
    BY <1>4, <1>6, WalkInTable
  <2>2. indices' \in [Slots(capacity) -> {Empty} \cup (0 .. (Limit(capacity) - 1))]
    BY <1>1, <1>6, <2>1 DEF IInv, TypeOK
  <2> QED BY <1>6, <1>7, <2>2 DEF TypeOK
<1>11. EntriesInUse' /\ RoomForCall'
  BY <1>3, <1>6, <1>7 DEF EntriesInUse, RoomForCall, IInv
<1>12. KeysDistinct'
  BY <1>5, <1>6, <1>7, <1>8 DEF KeysDistinct, IInv
<1> QED BY <1>9, <1>10, <1>11, <1>12 DEF IInv

LEMMA StoreIInv ==
  ASSUME IInv, Indexed = size, size < Limit(capacity),
         NEW call \in Calls, Store(call), phase' = [at |-> "idle"]
  PROVE  IInv'
BY UpdateIInv, InsertIInv DEF Store

(* A resize starts with an index table that covers nothing yet. *)
LEMMA BeginResizeIInv ==
  ASSUME IInv, NEW call \in Calls, BeginResize(call)
  PROVE  IInv'
<1>1. /\ capacity' = capacity * 2 /\ capacity' \in Capacities /\ size' = size
      /\ phase' = [at |-> "rehash", next |-> 0, call |-> call]
      /\ indices' = [s \in Slots(capacity') |-> Empty]
      /\ entries' = [i \in 0 .. (Limit(capacity') - 1) |-> IF i < size THEN entries[i] ELSE Junk]
  BY DEF BeginResize
<1>2. /\ capacity \in Capacities /\ size \in 0 .. Limit(capacity)
      /\ Limit(capacity) \in Nat /\ Limit(capacity') \in Nat /\ Limit(capacity) < Limit(capacity')
  BY <1>1, LimitFacts DEF IInv, TypeOK
<1>3. phase'.at = "rehash" /\ phase'.next = 0 /\ Indexed' = 0
  BY <1>1 DEF Indexed
<1>4. \A i \in 0 .. (size - 1) : entries'[i] = entries[i]
  BY <1>1, <1>2
<1>5. TypeOK'
  <2>1. entries' \in [0 .. (Limit(capacity') - 1) -> Entry \cup {Junk}]
    BY <1>1, <1>2 DEF IInv, EntriesInUse, Entry
  <2>2. indices' \in [Slots(capacity') -> {Empty} \cup (0 .. (Limit(capacity') - 1))]
    BY <1>1
  <2>3. phase' \in [at : {"rehash"}, next : 0 .. size, call : Calls]
    BY <1>1, <1>2
  <2> QED BY <1>1, <1>2, <2>1, <2>2, <2>3 DEF TypeOK
<1>6. EntriesInUse' /\ KeysDistinct' /\ RoomForCall'
  BY <1>1, <1>2, <1>4 DEF EntriesInUse, KeysDistinct, RoomForCall, IInv
<1>7. IndexBound' /\ IndexInjective' /\ Reachable'
  BY <1>1, <1>3 DEF IndexBound, IndexInjective, Reachable
<1> QED BY <1>5, <1>6, <1>7 DEF IInv

(* A resize step indexes the next entry, whose key differs from all others. *)
LEMMA RehashIInv == IInv /\ RehashEntry => IInv'
<1> SUFFICES ASSUME IInv, RehashEntry PROVE IInv'
  OBVIOUS
<1> DEFINE i == phase.next
           k == entries[i].key
<1>1. PICK n \in Steps(k) : /\ IsFree(k, n)
                            /\ \A m \in 1 .. (n - 1) : ~IsFree(k, m)
                            /\ indices' = [indices EXCEPT ![SlotAt(k, n)] = i]
  BY DEF RehashEntry
<1>2. /\ phase \in [at : {"rehash"}, next : 0 .. size, call : Calls]
      /\ i \in 0 .. (size - 1) /\ Indexed = i /\ size \in Nat
  BY IndexedFacts DEF RehashEntry, IInv, TypeOK
<1>3. phase' \in [at : {"rehash"}, next : 0 .. size, call : Calls] /\ phase'.next = i + 1
  BY <1>2 DEF RehashEntry
<1>4. /\ capacity' = capacity /\ size' = size /\ entries' = entries
      /\ Indexed' = i + 1
  BY <1>3 DEF RehashEntry, Indexed
<1>5. k \in Keys
  BY <1>2 DEF IInv, EntriesInUse
<1> HIDE DEF i
<1>6. IndexBound' /\ IndexInjective' /\ Reachable'
  BY <1>1, <1>2, <1>4, <1>5, AddIndex
<1>7. TypeOK'
  <2>1. capacity \in Capacities /\ Limit(capacity) \in Nat
    BY LimitFacts DEF IInv, TypeOK
  <2>2. SlotAt(k, n) \in Slots(capacity) /\ i \in 0 .. (Limit(capacity) - 1)
    BY <1>2, <1>5, <2>1, WalkInTable DEF IInv, TypeOK
  <2>3. indices' \in [Slots(capacity) -> {Empty} \cup (0 .. (Limit(capacity) - 1))]
    BY <1>1, <2>2 DEF IInv, TypeOK
  <2> QED BY <1>3, <1>4, <2>3 DEF IInv, TypeOK
<1>8. EntriesInUse' /\ KeysDistinct' /\ RoomForCall'
  <2>1. size < Limit(capacity)
    BY <1>2 DEF IInv, RoomForCall
  <2> QED BY <1>4, <2>1 DEF EntriesInUse, KeysDistinct, RoomForCall, IInv
<1> QED BY <1>6, <1>7, <1>8 DEF IInv

(* Every step of the specification keeps the invariant. *)
LEMMA NextIInv == IInv /\ [Next]_vars => IInv'
<1> SUFFICES ASSUME IInv, [Next]_vars PROVE IInv'
  OBVIOUS
<1>1. ASSUME NEW call \in Calls, Call(call) PROVE IInv'
  <2>1. phase = [at |-> "idle"] /\ phase' = phase /\ size < Limit(capacity) /\ Store(call)
    BY <1>1 DEF Call
  <2>2. Indexed = size
    BY <2>1 DEF Indexed
  <2> QED BY <2>1, <2>2, StoreIInv
<1>2. ASSUME NEW call \in Calls, BeginResize(call) PROVE IInv'
  BY <1>2, BeginResizeIInv
<1>3. CASE RehashEntry
  BY <1>3, RehashIInv
<1>4. CASE FinishCall
  <2>1. /\ Indexed = size /\ phase.call \in Calls /\ size < Limit(capacity)
        /\ Store(phase.call) /\ phase' = [at |-> "idle"]
    BY <1>4, IndexedFacts DEF FinishCall, IInv, RoomForCall
  <2> QED BY <2>1, StoreIInv
<1>5. CASE UNCHANGED vars
  <2>1. /\ capacity' = capacity /\ size' = size /\ indices' = indices
        /\ entries' = entries /\ phase' = phase
    BY <1>5 DEF vars
  <2>2. Indexed' = Indexed
    BY <2>1 DEF Indexed
  <2>3. TypeOK' /\ EntriesInUse' /\ KeysDistinct' /\ RoomForCall'
    BY <2>1 DEF IInv, TypeOK, EntriesInUse, KeysDistinct, RoomForCall
  <2>4. IndexBound' /\ IndexInjective'
    BY <2>1, <2>2 DEF IInv, IndexBound, IndexInjective
  <2>5. Reachable'
    BY <2>1, <2>2, SameWalk DEF IInv, Reachable, OnWalk, IsFree
  <2> QED BY <2>3, <2>4, <2>5 DEF IInv
<1> QED BY <1>1, <1>2, <1>3, <1>4, <1>5 DEF Next

(* The inductive invariant holds in every reachable state. *)
THEOREM Invariant == Spec => []IInv
BY InitIInv, NextIInv, PTL DEF Spec
-----------------------------------------------------------------------------
(* The variables keep their types: in particular no call ever writes past the
   entry array, which is sized from the capacity and never checked again. *)
THEOREM TypeCorrect == Spec => []TypeOK
<1>1. IInv => TypeOK
  BY DEF IInv
<1> QED BY Invariant, <1>1, PTL

(* No key ever has two entries. *)
THEOREM OneEntryPerKey == Spec => []KeysDistinct
<1>1. IInv => KeysDistinct
  BY DEF IInv
<1> QED BY Invariant, <1>1, PTL

(* The value of an entry is the value of its key. *)
LEMMA ValueOfEntry ==
  ASSUME KeysDistinct, NEW i \in 0 .. (size - 1)
  PROVE  ValueOf(entries[i].key) = entries[i].value
BY DEF KeysDistinct, ValueOf

(* hashmap_get ends on every key, with the value stored last or with NULL. *)
THEOREM LookupCorrect == Spec => []LookupExact
<1>1. IInv => LookupExact
  <2> SUFFICES ASSUME IInv, phase.at = "idle", NEW k \in Keys
               PROVE IF k \in Stored THEN Finds(k) /\ Get(k) = ValueOf(k) ELSE EndsFree(k)
    BY DEF LookupExact
  <2>1. Indexed = size
    BY DEF Indexed
  <2>2. CASE k \in Stored
    <3>1. PICK i \in 0 .. (size - 1) : entries[i].key = k
      BY <2>2 DEF Stored
    <3>2. Finds(k) /\ Found(k) = i
      BY <2>1, <3>1, StoredIsFound
    <3>3. ValueOf(k) = entries[i].value
      BY <3>1, ValueOfEntry DEF IInv
    <3> QED BY <2>2, <3>2, <3>3 DEF Get
  <2>3. CASE k \notin Stored
    BY <2>1, <2>3, UnstoredEndsFree
  <2> QED BY <2>2, <2>3
<1> QED BY Invariant, <1>1, PTL

(* The index table and the covered entries are in bijection. *)
THEOREM IndexExact == Spec => []OneSlotEach
<1>1. IInv => OneSlotEach
  <2> SUFFICES ASSUME IInv, NEW i \in 0 .. (Limit(capacity) - 1)
               PROVE  Cardinality({s \in Slots(capacity) : indices[s] = i}) =
                        IF i < Indexed THEN 1 ELSE 0
    BY DEF OneSlotEach
  <2>1. capacity \in Capacities /\ Indexed \in Nat /\ i \in Nat /\ Indexed =< size
    BY LimitFacts, IndexedFacts DEF IInv, TypeOK
  <2> DEFINE U == {s \in Slots(capacity) : indices[s] = i}
  <2>2. CASE i < Indexed
    <3>1. i \in 0 .. (size - 1) /\ i \in 0 .. (Indexed - 1)
      BY <2>1, <2>2, IndexedFacts DEF IInv
    <3>2. PICK n \in Steps(entries[i].key) : OnWalk(entries[i].key, i, n)
      BY <3>1 DEF IInv, Reachable
    <3>3. entries[i].key \in Keys
      BY <3>1 DEF IInv, EntriesInUse
    <3>4. SlotAt(entries[i].key, n) \in U
      BY <2>1, <3>2, <3>3, WalkInTable DEF OnWalk
    <3>5. \A s, t \in U : s = t
      BY <2>1 DEF IInv, IndexInjective, Empty
    <3>6. U = {SlotAt(entries[i].key, n)}
      BY <3>4, <3>5
    <3> QED BY <2>2, <3>6, FS_Singleton
  <2>3. CASE ~(i < Indexed)
    <3>1. U = {}
      BY <2>1, <2>3 DEF IInv, IndexBound, Empty
    <3> QED BY <2>3, <3>1, FS_EmptySet
  <2> QED BY <2>2, <2>3
<1> QED BY Invariant, <1>1, PTL

(* A step of the specification leaves the key at every place in use alone. *)
THEOREM PlacesAreForEver == Spec => EntriesKeepPlace
<1>1. IInv /\ [Next]_vars => [\A i \in 0 .. (size - 1) : entries'[i].key = entries[i].key]_vars
  <2> SUFFICES ASSUME IInv, Next, NEW i \in 0 .. (size - 1)
               PROVE  entries'[i].key = entries[i].key
    OBVIOUS
  <2>1. /\ size \in Nat /\ capacity \in Capacities
        /\ Limit(capacity) \in Nat /\ size =< Limit(capacity)
        /\ entries[i] \in [key : Keys, value : Values]
        /\ entries \in [0 .. (Limit(capacity) - 1) -> Entry \cup {Junk}]
    BY LimitFacts DEF IInv, TypeOK, EntriesInUse
  <2>2. ASSUME NEW call, Store(call) PROVE entries'[i].key = entries[i].key
    <3>1. CASE Insert(call)
      BY <2>1, <3>1 DEF Insert
    <3>2. CASE Update(call)
      BY <2>1, <3>2 DEF Update
    <3> QED BY <2>2, <3>1, <3>2 DEF Store
  <2>3. ASSUME NEW call \in Calls, Call(call) PROVE entries'[i].key = entries[i].key
    BY <2>2, <2>3 DEF Call
  <2>4. ASSUME NEW call \in Calls, BeginResize(call) PROVE entries'[i].key = entries[i].key
    <3>1. Limit(capacity') \in Nat /\ Limit(capacity) < Limit(capacity')
      BY <2>1, <2>4, LimitFacts DEF BeginResize
    <3> QED BY <2>1, <2>4, <3>1 DEF BeginResize
  <2>5. CASE RehashEntry
    BY <2>5 DEF RehashEntry
  <2>6. CASE FinishCall
    BY <2>2, <2>6 DEF FinishCall
  <2> QED BY <2>3, <2>4, <2>5, <2>6 DEF Next
<1> QED BY Invariant, <1>1, PTL DEF Spec, EntriesKeepPlace
-----------------------------------------------------------------------------
(* The contents of the map, as the refinement mapping gives them. *)
Contents == [k \in Stored |-> ValueOf(k)]

(* A key is bound to the value of any entry that holds it. *)
LEMMA ContentsAt ==
  ASSUME IInv, NEW i \in 0 .. (size - 1)
  PROVE  /\ entries[i].key \in DOMAIN Contents
         /\ Contents[entries[i].key] = entries[i].value
BY ValueOfEntry DEF Contents, Stored, IInv

(* The contents depend on the entries in use only. *)
LEMMA SameContents ==
  ASSUME IInv, IInv', size' = size, \A i \in 0 .. (size - 1) : entries'[i] = entries[i]
  PROVE  Contents' = Contents
<1>1. Stored' = Stored
  BY DEF Stored
<1>2. ASSUME NEW k \in Stored PROVE ValueOf(k)' = ValueOf(k)
  <2>1. PICK i \in 0 .. (size - 1) : entries[i].key = k
    BY <1>2 DEF Stored
  <2>2. ValueOf(k) = entries[i].value
    BY <2>1, ValueOfEntry DEF IInv
  <2>3. ValueOf(k)' = entries'[i].value
    BY <2>1 DEF IInv, KeysDistinct, ValueOf
  <2> QED BY <2>2, <2>3
<1> QED BY <1>1, <1>2 DEF Contents

(* A step writes the value v of the key k at the place i, and nothing else. *)
WritesAt(k, v, i) ==
  /\ i \in 0 .. (size' - 1) /\ (size' = size \/ size' = size + 1)
  /\ entries'[i].key = k /\ entries'[i].value = v
  /\ \A j \in 0 .. (size - 1) : j # i => entries'[j] = entries[j]
  /\ \A j \in 0 .. (size' - 1) : j \in 0 .. (size - 1) \/ j = i
  /\ i \in 0 .. (size - 1) => entries[i].key = k

(* Storing a call's value changes the binding of its key and no other. *)
LEMMA StoreChangesOneKey ==
  ASSUME IInv, IInv', NEW k \in Keys, NEW v, NEW i, WritesAt(k, v, i)
  PROVE  Contents' = [x \in DOMAIN Contents \cup {k} |-> IF x = k THEN v ELSE Contents[x]]
<1>0. \A j \in 0 .. (size - 1) : j \in 0 .. (size' - 1)
  <2>1. size \in Nat /\ (size' = size \/ size' = size + 1)
    BY IndexedFacts DEF IInv, WritesAt
  <2> QED BY ONLY <2>1
<1> USE DEF WritesAt
<1>1. Stored' = Stored \cup {k}
  <2>2. ASSUME NEW x \in Stored' PROVE x \in Stored \cup {k}
    <3>1. PICK j \in 0 .. (size' - 1) : entries'[j].key = x
      BY <2>2 DEF Stored
    <3> QED BY <3>1 DEF Stored
  <2>3. ASSUME NEW x \in Stored PROVE x \in Stored'
    <3>1. PICK j \in 0 .. (size - 1) : entries[j].key = x
      BY <2>3 DEF Stored
    <3>2. entries'[j].key = x
      BY <3>1
    <3> QED BY <1>0, <3>2 DEF Stored
  <2>4. k \in Stored'
    BY DEF Stored
  <2> QED BY <2>2, <2>3, <2>4
<1>2. ValueOf(k)' = v
  BY DEF IInv, KeysDistinct, ValueOf
<1>3. ASSUME NEW x \in Stored, x # k PROVE ValueOf(x)' = ValueOf(x)
  <2>1. PICK j \in 0 .. (size - 1) : entries[j].key = x
    BY <1>3 DEF Stored
  <2>2. ValueOf(x) = entries[j].value
    BY <2>1, ValueOfEntry DEF IInv
  <2>3. j # i /\ entries'[j] = entries[j]
    BY <1>3, <2>1
  <2>4. ValueOf(x)' = entries'[j].value
    BY <1>0, <2>1, <2>3 DEF IInv, KeysDistinct, ValueOf
  <2> QED BY <2>2, <2>3, <2>4
<1> QED BY <1>1, <1>2, <1>3 DEF Contents

(* A call that stores is one operation of the abstract map. *)
LEMMA StoreImplements ==
  ASSUME IInv, IInv', Indexed = size, size < Limit(capacity), NEW call \in Calls, Store(call)
  PROVE  Abstract!Next
<1> DEFINE k == call.key
<1>1. /\ k \in Keys /\ call.op \in {"put", "intern", "inc"}
      /\ call.op = "put" => call.value \in PutValues
  BY CallFacts
<1>2. /\ size \in Nat /\ Limit(capacity) \in Nat /\ size =< Limit(capacity)
      /\ entries \in [0 .. (Limit(capacity) - 1) -> Entry \cup {Junk}]
  BY LimitFacts DEF IInv, TypeOK
<1>3. Abstract!With(k, call.value) =
        [x \in DOMAIN Contents \cup {k} |-> IF x = k THEN call.value ELSE Contents[x]]
  BY DEF Abstract!With, Contents
<1>4. CASE Insert(call)
  <2>1. k \notin DOMAIN Contents
    <3>1. EndsFree(k)
      BY <1>4 DEF Insert, EndsFree
    <3> QED BY <3>1, StoredIsFound DEF Contents, Stored
  <2>2. /\ size' = size + 1 /\ entries'[size] = [key |-> k, value |-> FreshValue(call)]
        /\ \A j \in 0 .. (size - 1) : entries'[j] = entries[j]
    BY <1>2, <1>4 DEF Insert
  <2>3. Contents' = [x \in DOMAIN Contents \cup {k} |->
                       IF x = k THEN FreshValue(call) ELSE Contents[x]]
    <3>1. \A j \in 0 .. (size' - 1) : j \in 0 .. (size - 1) \/ j = size
      BY <1>2, <2>2
    <3>2. size \in 0 .. (size' - 1) /\ size \notin 0 .. (size - 1)
      BY <1>2, <2>2
    <3>3. entries'[size].key = k /\ entries'[size].value = FreshValue(call)
      BY <2>2
    <3> HIDE DEF k
    <3>4. WritesAt(k, FreshValue(call), size)
      BY ONLY <2>2, <3>1, <3>2, <3>3 DEF WritesAt
    <3> QED BY <1>1, <3>4, StoreChangesOneKey
  <2>4. CASE call.op = "put"
    BY <1>1, <2>3, <2>4 DEF FreshValue, Abstract!Next, Abstract!Put, Abstract!With, Contents
  <2>5. CASE call.op = "intern"
    BY <1>1, <2>1, <2>3, <2>5 DEF FreshValue, Abstract!Next, Abstract!Intern, Abstract!With, Contents
  <2>6. CASE call.op = "inc"
    BY <1>1, <2>1, <2>3, <2>6 DEF FreshValue, Abstract!Next, Abstract!Inc, Abstract!With, Contents
  <2> QED BY <1>1, <2>4, <2>5, <2>6
<1>5. CASE Update(call)
  <2> DEFINE f == Found(k)
             old == entries[f].value
  <2>1. f \in 0 .. (size - 1) /\ entries[f].key = k
    BY <1>1, <1>5, FoundIsStored DEF Update
  <2>2. k \in DOMAIN Contents /\ Contents[k] = old
    BY <2>1, ContentsAt
  <2>3. /\ size' = size /\ entries'[f].key = k /\ entries'[f].value = UpdatedValue(call, old)
        /\ \A j \in 0 .. (size - 1) : j # f => entries'[j] = entries[j]
        /\ call.op = "inc" => CanCount(old)
    <3>1. entries[f] \in [key : Keys, value : Values] /\ f \in DOMAIN entries
      BY <1>2, <2>1 DEF IInv, EntriesInUse
    <3>2. /\ entries' = [entries EXCEPT ![f].value = UpdatedValue(call, @)]
          /\ size' = size /\ (call.op = "inc" => CanCount(old))
      BY <1>5 DEF Update
    <3> HIDE DEF f
    <3> QED BY <2>1, <3>1, <3>2
  <2>4. Contents' = [x \in DOMAIN Contents \cup {k} |->
                       IF x = k THEN UpdatedValue(call, old) ELSE Contents[x]]
    <3>1. f \in 0 .. (size' - 1)
      BY <2>1, <2>3
    <3> HIDE DEF f, k, old
    <3>2. WritesAt(k, UpdatedValue(call, old), f)
      BY ONLY <2>1, <2>3, <3>1 DEF WritesAt
    <3> QED BY <1>1, <3>2, StoreChangesOneKey
  <2> HIDE DEF f, old
  <2>5. CASE call.op = "put"
    BY <1>1, <2>4, <2>5 DEF UpdatedValue, Abstract!Next, Abstract!Put, Abstract!With, Contents
  <2>6. CASE call.op = "intern"
    <3>1. Contents' = Contents
      <4>1. Contents = [x \in DOMAIN Contents |-> Contents[x]]
        BY DEF Contents
      <4>2. UpdatedValue(call, old) = old
        BY <2>6 DEF UpdatedValue
      <4>3. DOMAIN Contents \cup {k} = DOMAIN Contents
        BY <2>2
      <4> HIDE DEF k
      <4> QED BY <2>2, <2>4, <4>1, <4>2, <4>3
    <3> QED BY <1>1, <2>2, <3>1 DEF Abstract!Next, Abstract!Intern, Contents
  <2>7. CASE call.op = "inc"
    BY <1>1, <2>2, <2>3, <2>4, <2>7
    DEF UpdatedValue, CanCount, Abstract!Next, Abstract!Inc, Abstract!With, Contents
  <2> QED BY <1>1, <2>5, <2>6, <2>7
<1> QED BY <1>4, <1>5 DEF Store

(* The table implements the abstract map: each call is one abstract operation,
   and the steps of a resize change nothing a caller can see. *)
THEOREM Implements == Spec => ImplementsStringMap
<1>1. Init => Abstract!Init
  BY DEF Init, Abstract!Init, Stored
<1>2. IInv /\ IInv' /\ [Next]_vars => [Abstract!Next]_Contents
  <2> SUFFICES ASSUME IInv, IInv', [Next]_vars, Contents' # Contents
               PROVE  Abstract!Next
    OBVIOUS
  <2>1. ASSUME NEW call \in Calls, Call(call) PROVE Abstract!Next
    <3>1. Indexed = size
      BY <2>1 DEF Call, Indexed
    <3> QED BY <2>1, <3>1, StoreImplements DEF Call
  <2>2. ASSUME NEW call \in Calls, BeginResize(call) PROVE Abstract!Next
    <3>1. capacity \in Capacities /\ capacity' \in Capacities /\ size \in 0 .. Limit(capacity)
          /\ Limit(capacity) \in Nat /\ Limit(capacity') \in Nat /\ Limit(capacity) < Limit(capacity')
      BY <2>2, LimitFacts DEF BeginResize, IInv, TypeOK
    <3>2. size' = size /\ \A i \in 0 .. (size - 1) : entries'[i] = entries[i]
      BY <2>2, <3>1 DEF BeginResize
    <3> QED BY <3>2, SameContents
  <2>3. CASE RehashEntry
    BY <2>3, SameContents DEF RehashEntry
  <2>4. CASE FinishCall
    <3>1. /\ Indexed = size /\ phase.call \in Calls /\ size < Limit(capacity)
      BY <2>4, IndexedFacts DEF FinishCall, IInv, RoomForCall
    <3> QED BY <2>4, <3>1, StoreImplements DEF FinishCall
  <2>5. CASE UNCHANGED vars
    BY <2>5, SameContents DEF vars
  <2> QED BY <2>1, <2>2, <2>3, <2>4, <2>5 DEF Next
<1> QED BY Invariant, <1>1, <1>2, PTL DEF Spec, ImplementsStringMap, Abstract!Spec, Contents
=============================================================================
