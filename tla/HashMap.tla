------------------------------ MODULE HashMap ------------------------------
(***************************************************************************)
(* The open-addressing dictionary of src/common/hashmap.c.                 *)
(*                                                                         *)
(* One block holds an index table of `capacity` slots, each Empty or the   *)
(* number of an entry, followed by a dense entry array of capacity*2/3     *)
(* places.  A key is found by walking its probe sequence through the index *)
(* table until an Empty slot or a matching entry is met; a new key takes   *)
(* the next dense place and the Empty slot that ended the walk.  When the  *)
(* entry array is full the block is replaced by one twice as large and     *)
(* every entry is put back into the fresh index table, one per loop step.  *)
(*                                                                         *)
(* Strings are abstract keys.  A hash is seen only through the slots it    *)
(* makes a walk visit, Probe; equal keys have equal hashes, so "hash and *)
(* string match" is key equality.  Allocation is assumed to succeed        *)
(* (arena_alloc aborts the process when it does not).                      *)
(***************************************************************************)
EXTENDS Integers, Sequences, FiniteSets, TLC

CONSTANTS
  Keys,          (* the strings used as keys                               *)
  NoKey,         (* the NULL key of a removed entry                        *)
  NULL,          (* the NULL pointer, as a value or as "not found"         *)
  Junk,          (* an entry place that was never written                  *)
  Ops,           (* which of put, intern and inc the map's owner uses      *)
  PutValues,     (* the pointers handed to hashmap_put                     *)
  MaxCount,      (* bound: hashmap_inc stops at this counter value         *)
  MinCapacity,   (* the smallest table next_pow2 returns, 8 in the code    *)
  MaxDoublings,  (* bound: how often a resize doubles the smallest table   *)
  Hash           (* the 32-bit hash of each key, and of a removed entry     *)

VARIABLES
  capacity,      (* map->capacity                                          *)
  size,          (* map->size                                              *)
  indices,       (* slot -> entry number, or Empty                         *)
  entries,       (* the dense entry array                                  *)
  phase          (* where the running call is: idle, or rehashing entry
                    `next` on behalf of the call it interrupted            *)

vars == <<capacity, size, indices, entries, phase>>

Empty == -1

(* The table sizes that doubling reaches from MinCapacity. *)
Capacities == {MinCapacity * 2^n : n \in 0 .. MaxDoublings}

Slots(c) == 0 .. (c - 1)

(* How many entries a table of c slots holds: two thirds of its slots. *)
Limit(c) == (c * 2) \div 3

Values == PutValues \cup Keys \cup (1 .. MaxCount) \cup {NULL}

Entry == [key : Keys \cup {NoKey}, value : Values]

ASSUME CapacityAssumption ==
  \A c \in Capacities : c \in Nat /\ c >= 3

ASSUME KeyAssumption ==
  /\ IsFiniteSet(Keys)
  /\ NoKey \notin Keys
  /\ Junk \notin Entry
  /\ MaxCount \in Nat \ {0}

-----------------------------------------------------------------------------
(* The order in which the slots of an index table are visited: the hash
   masked to the table size, then j*5 + 1 + perturb, where perturb starts as
   the hash and loses five bits per step. *)
PerturbShift == 32

(* A 32-bit hash has no bits left after seven shifts; from then on the step
   has full period, so c more steps meet every slot. *)
ProbeLength(c) == 7 + c

(* What is left of the hash at step n, and the slots visited for a hash.
   Masking the perturbation before adding it gives the same slot, c
   being a power of two, and keeps the sum small. *)
Perturb(hash, n) == IF n > 6 THEN 0 ELSE hash \div PerturbShift ^ n

PerturbProbe(hash, c) ==
  LET slot[n \in 1 .. ProbeLength(c)] ==
        IF n = 1
        THEN hash % c
        ELSE (slot[n - 1] * 5 + 1 + (Perturb(hash, n - 2) % c)) % c
  IN  [n \in 1 .. ProbeLength(c) |-> slot[n]]

(* Probe[k, c] is the sequence of slots a walk for k visits in a table of c
   slots; combined with an empty function so that TLC tabulates it once. *)
Probe ==
  [k \in Keys \cup {NoKey}, c \in Capacities |-> <<>> \o PerturbProbe(Hash[k], c)]
    @@ [none \in {} |-> <<>>]

(* A walk stays inside the table, and reaches every slot of it: once the
   perturbation is shifted out, j -> 5j+1 has full period modulo a power of
   two. *)
ASSUME ProbeAssumption ==
  \A k \in Keys \cup {NoKey}, c \in Capacities :
    /\ Probe[k, c] \in Seq(Slots(c))
    /\ \A s \in Slots(c) : \E n \in DOMAIN Probe[k, c] : Probe[k, c][n] = s
-----------------------------------------------------------------------------
(* The walk for key k over index table ix: it stops at step n on an Empty
   slot or on an entry whose key is k. *)
Steps(k) == DOMAIN Probe[k, capacity]

SlotAt(k, n) == Probe[k, capacity][n]

IsFree(k, n) == indices[SlotAt(k, n)] = Empty

(* Mutant: the loop gives up comparing after the home slot. *)
IsMatch_HomeSlotOnly(k, n) ==
  n = 1 /\ ~IsFree(k, n) /\ entries[indices[SlotAt(k, n)]].key = k

IsMatch(k, n) ==
  /\ ~IsFree(k, n)
  /\ entries[indices[SlotAt(k, n)]] # Junk
  /\ entries[indices[SlotAt(k, n)]].key = k

FirstFree(k, n) ==
  /\ n \in Steps(k) /\ IsFree(k, n)
  /\ \A m \in 1 .. (n - 1) : ~IsFree(k, m) /\ ~IsMatch(k, m)

FirstMatch(k, n) ==
  /\ n \in Steps(k) /\ IsMatch(k, n)
  /\ \A m \in 1 .. (n - 1) : ~IsFree(k, m) /\ ~IsMatch(k, m)

Finds(k)    == \E n \in Steps(k) : FirstMatch(k, n)
EndsFree(k) == \E n \in Steps(k) : FirstFree(k, n)

(* The number of the entry the walk for k ends on. *)
Found(k) == indices[SlotAt(k, CHOOSE n \in Steps(k) : FirstMatch(k, n))]

(* hashmap_get and hashmap_get_n, and hashmap_has which tests the pointer
   get returns. *)
Get(k) == IF Finds(k) THEN entries[Found(k)].value ELSE NULL
Has(k) == Get(k) # NULL
-----------------------------------------------------------------------------
(* next_pow2: the smallest table size that holds the requested bucket count. *)
NextPow2(n) == CHOOSE c \in Capacities : n =< c /\ \A d \in Capacities : n =< d => c =< d

(* hashmap_init, for every requested bucket count. *)
Init ==
  /\ \E c \in Capacities : \E n \in 0 .. c : capacity = NextPow2(n)
  /\ size = 0
  /\ indices = [s \in Slots(capacity) |-> Empty]
  /\ entries = [i \in 0 .. (Limit(capacity) - 1) |-> Junk]
  /\ phase = [at |-> "idle"]

(* What a call stores under its key: hashmap_put the given pointer,
   hashmap_intern the key itself and only when the key is new, hashmap_inc
   one more than the counter it finds. *)
Calls ==
  [op : Ops \cap {"put"}, key : Keys, value : PutValues]
    \cup [op : Ops \cap {"intern", "inc"}, key : Keys, value : {NULL}]

FreshValue(call) ==
  CASE call.op = "put"    -> call.value
    [] call.op = "intern" -> call.key
    [] call.op = "inc"    -> 1

(* Mutant: hashmap_intern stores the key over what it found. *)
UpdatedValue_InternsAgain(call, old) ==
  CASE call.op = "put" -> call.value [] call.op = "intern" -> call.key [] call.op = "inc" -> old + 1

UpdatedValue(call, old) ==
  CASE call.op = "put"    -> call.value
    [] call.op = "intern" -> old
    [] call.op = "inc"    -> old + 1

CanCount(old) == old \in 1 .. (MaxCount - 1)

(* The walk met the key: update the entry in place. *)
Update(call) ==
  /\ Finds(call.key)
  /\ call.op = "inc" => CanCount(entries[Found(call.key)].value)
  /\ entries' = [entries EXCEPT ![Found(call.key)].value = UpdatedValue(call, @)]
  /\ UNCHANGED <<capacity, size, indices>>

(* Mutant: the entry is written one place too low. *)
Insert_OffByOne(call) ==
  /\ \E n \in Steps(call.key) :
       /\ FirstFree(call.key, n)
       /\ indices' = [indices EXCEPT ![SlotAt(call.key, n)] = size]
  /\ entries' = [entries EXCEPT ![IF size = 0 THEN 0 ELSE size - 1] =
                   [key |-> call.key, value |-> FreshValue(call)]]
  /\ size' = size + 1
  /\ UNCHANGED capacity

(* The walk ended on an Empty slot: append an entry and index it there. *)
Insert(call) ==
  /\ \E n \in Steps(call.key) :
       /\ FirstFree(call.key, n)
       /\ indices' = [indices EXCEPT ![SlotAt(call.key, n)] = size]
  /\ entries' = [entries EXCEPT ![size] = [key |-> call.key, value |-> FreshValue(call)]]
  /\ size' = size + 1
  /\ UNCHANGED capacity

Store(call) == Update(call) \/ Insert(call)

(* Mutant: `size > limit` where the code says `size >= limit`. *)
Call_Overfills(call) ==
  /\ phase = [at |-> "idle"]
  /\ size =< Limit(capacity)
  /\ Store(call)
  /\ UNCHANGED phase

(* hashmap_put, hashmap_intern, hashmap_inc on a table with room. *)
Call(call) ==
  /\ phase = [at |-> "idle"]
  /\ size < Limit(capacity)
  /\ Store(call)
  /\ UNCHANGED phase

(* Mutant: the old half of the index table is kept, only the rest cleared. *)
BeginResize_KeepsIndex(call) ==
  /\ phase = [at |-> "idle"]
  /\ size >= Limit(capacity)
  /\ capacity * 2 \in Capacities
  /\ capacity' = capacity * 2
  /\ indices' = [s \in Slots(capacity') |-> IF s < capacity THEN indices[s] ELSE Empty]
  /\ entries' = [i \in 0 .. (Limit(capacity') - 1) |-> IF i < size THEN entries[i] ELSE Junk]
  /\ phase' = [at |-> "rehash", next |-> 0, call |-> call]
  /\ UNCHANGED size

(* The same calls on a full table: hashmap_resize copies the entries into a
   block twice as large whose index table is all Empty ... *)
BeginResize(call) ==
  /\ phase = [at |-> "idle"]
  /\ size >= Limit(capacity)
  /\ capacity * 2 \in Capacities
  /\ capacity' = capacity * 2
  /\ indices' = [s \in Slots(capacity') |-> Empty]
  /\ entries' = [i \in 0 .. (Limit(capacity') - 1) |-> IF i < size THEN entries[i] ELSE Junk]
  /\ phase' = [at |-> "rehash", next |-> 0, call |-> call]
  /\ UNCHANGED size

(* Mutant: an entry goes to its home slot whether or not that slot is free. *)
RehashEntry_HomeSlot ==
  /\ phase.at = "rehash" /\ phase.next < size
  /\ indices' = [indices EXCEPT ![SlotAt(entries[phase.next].key, 1)] = phase.next]
  /\ phase' = [phase EXCEPT !.next = @ + 1]
  /\ UNCHANGED <<capacity, size, entries>>

(* ... then walks each entry's own probe sequence to the first Empty slot,
   without comparing keys ... *)
RehashEntry ==
  /\ phase.at = "rehash" /\ phase.next < size
  /\ LET k == entries[phase.next].key IN
       \E n \in Steps(k) :
         /\ IsFree(k, n) /\ \A m \in 1 .. (n - 1) : ~IsFree(k, m)
         /\ indices' = [indices EXCEPT ![SlotAt(k, n)] = phase.next]
  /\ phase' = [phase EXCEPT !.next = @ + 1]
  /\ UNCHANGED <<capacity, size, entries>>

(* ... and returns to the call, which walks the new table. *)
FinishCall ==
  /\ phase.at = "rehash" /\ phase.next = size
  /\ Store(phase.call)
  /\ phase' = [at |-> "idle"]

(* hashmap_remove: the entry is blanked but its slot keeps pointing at it,
   and the size drops. *)
Remove(k) ==
  /\ phase = [at |-> "idle"]
  /\ Finds(k)
  /\ entries' = [entries EXCEPT ![Found(k)] = [key |-> NoKey, value |-> NULL]]
  /\ size' = size - 1
  /\ UNCHANGED <<capacity, indices, phase>>

(* The operations the compiler calls; nothing in it calls hashmap_remove. *)
Next ==
  \/ \E call \in Calls : Call(call)
  \/ \E call \in Calls : BeginResize(call)
  \/ RehashEntry
  \/ FinishCall

NextWithRemove == Next \/ \E k \in Keys : Remove(k)

Spec == Init /\ [][Next]_vars

SpecWithRemove == Init /\ [][NextWithRemove]_vars
-----------------------------------------------------------------------------
TypeOK ==
  /\ capacity \in Capacities
  /\ size \in 0 .. Limit(capacity)
  /\ indices \in [Slots(capacity) -> {Empty} \cup (0 .. (Limit(capacity) - 1))]
  /\ entries \in [0 .. (Limit(capacity) - 1) -> Entry \cup {Junk}]
  /\ phase \in {[at |-> "idle"]}
       \cup [at : {"rehash"}, next : 0 .. size, call : Calls]

(* The contents of the dense array, which is what the map means. *)
Stored == {entries[i].key : i \in 0 .. (size - 1)}

ValueOf(k) == entries[CHOOSE i \in 0 .. (size - 1) : entries[i].key = k].value

-----------------------------------------------------------------------------
(* Between calls a walk for any stored key finds that key's own entry, and a
   walk for any other key reaches an Empty slot, so that hashmap_get returns
   the stored pointer or NULL and never circles for ever.  What could break
   it: an index lost in a collision, a chain cut by an Empty slot, a table
   without Empty slots (src/common/hashmap.c:303-314). *)
LookupExact ==
  phase.at = "idle" =>
    \A k \in Keys :
      IF k \in Stored THEN Finds(k) /\ Get(k) = ValueOf(k) ELSE EndsFree(k)

(* No key has two entries: an update can never leave a stale second value
   that a later walk, or the next resize, would bring back. *)
KeysDistinct ==
  \A i, j \in 0 .. (size - 1) : entries[i].key = entries[j].key => i = j

(* The index table is a partial inverse of the dense array: each covered entry
   has exactly one slot, in or out of a resize, so that no slot is wasted and
   the count that triggers the resize is the count of occupied slots. *)
Indexed == IF phase.at = "idle" THEN size ELSE phase.next

OneSlotEach ==
  \A i \in 0 .. (Limit(capacity) - 1) :
    Cardinality({s \in Slots(capacity) : indices[s] = i}) = IF i < Indexed THEN 1 ELSE 0

(* An entry keeps its place and its key for the life of the map: the pointer
   hashmap_intern returned stays the canonical one through every resize. *)
EntriesKeepPlace ==
  [][\A i \in 0 .. (size - 1) : entries'[i].key = entries[i].key]_vars

(* What the map promises its callers (StringMap), with the dense array as the
   contents: every call is one abstract call, every resize step a stutter. *)
Abstract == INSTANCE StringMap WITH contents <- [k \in Stored |-> ValueOf(k)]

ImplementsStringMap == Abstract!Spec

(* "Removes a key from the map" (include/common/hashmap.h:81): between calls,
   the only step that makes a stored key unfindable is its own removal.  A
   removal that frees a place in the middle of the dense array, which the next
   insertion does not reuse, would break it. *)
OnlyRemoveForgets ==
  [][\A k \in Keys :
       phase.at = "idle" /\ phase'.at = "idle" /\ Finds(k) => Finds(k)' \/ Remove(k)]_vars
=============================================================================
