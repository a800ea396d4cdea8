------------------------------- MODULE Arena -------------------------------
(***************************************************************************)
(* The bump allocator of src/common/arena.c and the string interner that   *)
(* lives in it.                                                            *)
(*                                                                         *)
(* An arena is a chain of blocks, each filled from its start, with one     *)
(* current block.  A request that does not fit the current block takes the *)
(* next one of the chain when it is large enough, and otherwise a new      *)
(* block linked in right behind the current one.  A reset rewinds every    *)
(* block and keeps it, and every string, in place.  The interner is a      *)
(* linear-probing table of pointers into the blocks, compared by content.  *)
(*                                                                         *)
(* Sizes are in words: the code rounds a request up to whole words.  What  *)
(* memory holds is the set mem of the regions written last; writing a      *)
(* region destroys what it overlaps.  malloc succeeds for blocks (the code *)
(* aborts otherwise) and may fail for the first interner table.            *)
(***************************************************************************)
EXTENDS Integers, Sequences, FiniteSets

CONSTANTS
  Strings,       (* the strings that are interned                          *)
  Words,         (* the words a string takes, with its terminator          *)
  Hash,          (* the 32-bit FNV-1a hash of a string                     *)
  Data,          (* the content of a region that is not a string           *)
  Requests,      (* sizes asked of arena_alloc                             *)
  BlockSize,     (* default_block_size                                     *)
  FirstSlots,    (* interner capacity set by arena_init: 1024 in the code  *)
  NoTable,       (* the NULL interner table                                *)
  NULL,          (* an unused slot of the table                            *)
  MaxBlocks,     (* bound: blocks in the chain                             *)
  MaxSlots       (* bound: size of the interner table                      *)

VARIABLES
  chain,         (* the blocks from head on: [id, cap, used]               *)
  cur,           (* the place of `current` in the chain, 0 for NULL        *)
  mem,           (* the regions whose content is intact                    *)
  held,          (* the regions handed out since the arena was last reset  *)
  table,         (* interner.strings: slot -> region pointed at, or NULL   *)
  slots,         (* interner.capacity                                      *)
  count,         (* interner.count                                         *)
  growing        (* the rehash of a full table, while one runs             *)

vars == <<chain, cur, mem, held, table, slots, count, growing>>

blocks == <<chain, cur>>
interner == <<table, slots, count, growing>>

Block == [id : 1 .. MaxBlocks, cap : Nat, used : Nat]

Region == [blk : 1 .. MaxBlocks, lo : Nat, len : Nat \ {0}, holds : Strings \cup {Data}]

Tables == {FirstSlots * 2^n : n \in 0 .. MaxSlots} \cap 1 .. MaxSlots

ASSUME SizeAssumption ==
  /\ Requests \subseteq Nat \ {0}
  /\ \A s \in Strings : Words[s] \in Nat \ {0}
  /\ BlockSize \in Nat \ {0} /\ MaxBlocks \in Nat
  /\ Data \notin Strings

ASSUME TableAssumption ==
  /\ FirstSlots \in Tables /\ FirstSlots > 1
  /\ NULL \notin Region
  /\ \A s \in Strings \cup {Data} : Hash[s] \in Nat

(* A table that was allocated is not NULL. *)
ASSUME NoTableAssumption ==
  \A c \in Tables : NoTable \notin [0 .. (c - 1) -> Region \cup {NULL}]
-----------------------------------------------------------------------------
Overlap(x, y) ==
  x.blk = y.blk /\ x.lo < y.lo + y.len /\ y.lo < x.lo + x.len

(* The region of n words at the rest of the block at place i. *)
RegionAt(i, n, what) ==
  [blk |-> chain[i].id, lo |-> chain[i].used, len |-> n, holds |-> what]

Fits(n) == cur # 0 /\ chain[cur].used + n =< chain[cur].cap

(* Mutant: a next block is taken whatever its size. *)
NextFits_AnySize(n) == cur # 0 /\ cur < Len(chain)

(* arena_alloc_slow looks one block ahead, and only at its capacity. *)
NextFits(n) == cur # 0 /\ cur < Len(chain) /\ chain[cur + 1].cap >= n

(* A new block, at least of the default size, goes behind the current one. *)
NewBlock(n) ==
  [id |-> Len(chain) + 1, cap |-> IF n > BlockSize THEN n ELSE BlockSize, used |-> n]

(* The region arena_alloc returns for n words. *)
Given(n, what) ==
  IF Fits(n) THEN RegionAt(cur, n, what)
  ELSE IF NextFits(n) THEN RegionAt(cur + 1, n, what)
  ELSE [blk |-> NewBlock(n).id, lo |-> 0, len |-> n, holds |-> what]

(* Mutant: the block forgets what was taken from it before. *)
Charge_Forgets(i, n) == chain' = [chain EXCEPT ![i].used = n]

Charge(i, n) == chain' = [chain EXCEPT ![i].used = @ + n]

(* arena_alloc of n words, which the caller fills. *)
Take(n, what) ==
  /\ \/ Fits(n) /\ Charge(cur, n) /\ UNCHANGED cur
     \/ ~Fits(n) /\ NextFits(n) /\ Charge(cur + 1, n) /\ cur' = cur + 1
     \/ /\ ~Fits(n) /\ ~NextFits(n) /\ Len(chain) < MaxBlocks
        /\ chain' = [i \in 1 .. (Len(chain) + 1) |->
                       CASE i =< cur -> chain[i] [] i = cur + 1 -> NewBlock(n) [] OTHER -> chain[i - 1]]
        /\ cur' = cur + 1
  /\ mem' = {x \in mem : ~Overlap(x, Given(n, what))} \cup {Given(n, what)}
  /\ held' = held \cup {Given(n, what)}
-----------------------------------------------------------------------------
(* The string a slot's pointer reads as: the content written there last. *)
Reads(p, s) == p # NULL /\ \E x \in mem : x.blk = p.blk /\ x.lo = p.lo /\ x.holds = s

(* The n-th slot of the linear probe for hash h. *)
Probe(h, n) == (h + n) % slots

(* The probe for s stops at step n: at an unused slot, or one that reads s. *)
StopsAt(s, n) == table[Probe(Hash[s], n)] = NULL \/ Reads(table[Probe(Hash[s], n)], s)

Stop(s, n) == n \in 0 .. (slots - 1) /\ StopsAt(s, n) /\ \A m \in 0 .. (n - 1) : ~StopsAt(s, m)

AtSlot(s, n) == table[Probe(Hash[s], n)]
-----------------------------------------------------------------------------
EmptyTable(c) == [i \in 0 .. (c - 1) |-> NULL]

(* arena_init; malloc may refuse the interner its table. *)
Init ==
  /\ chain = <<>> /\ cur = 0
  /\ mem = {} /\ held = {}
  /\ table \in {EmptyTable(FirstSlots), NoTable}
  /\ slots = FirstSlots /\ count = 0
  /\ growing = [at |-> "no"]

(* arena_alloc. *)
Alloc(n) ==
  /\ growing.at = "no"
  /\ Take(n, Data)
  /\ UNCHANGED interner

(* arena_strdup without an interner table: a fresh copy. *)
StrdupPlain(s) ==
  /\ growing.at = "no" /\ table = NoTable
  /\ Take(Words[s], s)
  /\ UNCHANGED interner

(* Mutant: the table grows only once it is full. *)
HasRoom_Full == count =< slots

HasRoom == count * 2 < slots

(* arena_strdup and arena_strndup when the probe ends on the string: the
   pointer that is there ... *)
Found(s) ==
  \E n \in 0 .. (slots - 1), x \in mem :
    /\ Stop(s, n) /\ AtSlot(s, n) # NULL
    /\ x.blk = AtSlot(s, n).blk /\ x.lo = AtSlot(s, n).lo
    /\ held' = held \cup {x}
    /\ UNCHANGED <<chain, cur, mem, table, slots, count>>

(* ... and when it ends on an unused slot: a new copy, entered there. *)
Missed(s) ==
  \E n \in 0 .. (slots - 1) :
    /\ Stop(s, n) /\ AtSlot(s, n) = NULL
    /\ Take(Words[s], s)
    /\ table' = [table EXCEPT ![Probe(Hash[s], n)] = Given(Words[s], s)]
    /\ count' = count + 1
    /\ UNCHANGED slots

Lookup(s) == Found(s) \/ Missed(s)

Strdup(s) ==
  /\ growing.at = "no" /\ table # NoTable /\ HasRoom
  /\ Lookup(s)
  /\ UNCHANGED growing

(* A table half full is replaced by an empty one twice as large ... *)
BeginGrow(s) ==
  /\ growing.at = "no" /\ table # NoTable /\ ~HasRoom
  /\ slots * 2 \in Tables
  /\ growing' = [at |-> "yes", old |-> table, next |-> 0, str |-> s]
  /\ table' = EmptyTable(slots * 2)
  /\ slots' = slots * 2
  /\ count' = 0
  /\ UNCHANGED <<chain, cur, mem, held>>

(* Mutant: the pointer goes to its home slot, used or not. *)
Rehash_HomeSlot ==
  /\ growing.at = "yes" /\ growing.next \in DOMAIN growing.old
  /\ LET p == growing.old[growing.next] IN
       IF p = NULL
       THEN UNCHANGED <<table, count>>
       ELSE \E s \in Strings \cup {Data} :
              /\ Reads(p, s)
              /\ table' = [table EXCEPT ![Probe(Hash[s], 0)] = p]
              /\ count' = count + 1
  /\ growing' = [growing EXCEPT !.next = @ + 1]
  /\ UNCHANGED <<chain, cur, mem, held, slots>>

(* ... into which each used slot is put back by the hash of what its pointer
   reads as: whatever the memory now holds, or anything when what was there
   is partly overwritten ... *)
Rehash ==
  /\ growing.at = "yes" /\ growing.next \in DOMAIN growing.old
  /\ LET p == growing.old[growing.next] IN
       IF p = NULL
       THEN UNCHANGED <<table, count>>
       ELSE \E s \in Strings \cup {Data}, n \in 0 .. (slots - 1) :
              /\ Reads(p, s) \/ ~(\E t \in Strings : Reads(p, t))
              /\ table[Probe(Hash[s], n)] = NULL
              /\ \A m \in 0 .. (n - 1) : table[Probe(Hash[s], m)] # NULL
              /\ table' = [table EXCEPT ![Probe(Hash[s], n)] = p]
              /\ count' = count + 1
  /\ growing' = [growing EXCEPT !.next = @ + 1]
  /\ UNCHANGED <<chain, cur, mem, held, slots>>

(* ... after which the string that was asked for is looked up. *)
EndGrow ==
  /\ growing.at = "yes" /\ growing.next \notin DOMAIN growing.old
  /\ Lookup(growing.str)
  /\ growing' = [at |-> "no"]

(* arena_reset: the blocks are rewound; their content and the interner, which
   points at it, stay.  The callers give up what they hold;
   what they wrote besides strings is read by nobody and forgotten here. *)
Reset ==
  /\ growing.at = "no"
  /\ chain' = [i \in DOMAIN chain |-> [chain[i] EXCEPT !.used = 0]]
  /\ cur' = IF chain = <<>> THEN 0 ELSE 1
  /\ mem' = {x \in mem : x.holds # Data}
  /\ held' = {}
  /\ UNCHANGED interner

(* arena_free: an arena used again after it interns nothing. *)
Free ==
  /\ growing.at = "no"
  /\ chain' = <<>> /\ cur' = 0
  /\ mem' = {} /\ held' = {}
  /\ table' = NoTable
  /\ UNCHANGED <<slots, count, growing>>

NextWithoutReset ==
  \/ \E n \in Requests : Alloc(n)
  \/ \E s \in Strings : StrdupPlain(s) \/ Strdup(s) \/ BeginGrow(s)
  \/ Rehash
  \/ EndGrow
  \/ Free

NothingInterned == table # NoTable => \A i \in 0 .. (slots - 1) : table[i] = NULL

(* An arena used as the language server uses the one it resets per request:
   nothing is interned when it is reset. *)
Next ==
  \/ NextWithoutReset
  \/ NothingInterned /\ Reset

(* Any arena, as arena.h offers it. *)
NextAnyReset == NextWithoutReset \/ Reset

Spec == Init /\ [][Next]_vars

SpecAnyReset == Init /\ [][NextAnyReset]_vars
-----------------------------------------------------------------------------
TypeOK ==
  /\ chain \in Seq(Block) /\ Len(chain) =< MaxBlocks
  /\ cur \in 0 .. Len(chain)
  /\ mem \subseteq Region /\ held \subseteq Region
  /\ slots \in Tables
  /\ table = NoTable \/ table \in [0 .. (slots - 1) -> Region \cup {NULL}]
  /\ count \in 0 .. slots
  /\ growing.at \in {"no", "yes"}

(* Memory a caller was handed keeps what the caller put there until the arena
   is reset: no two requests share a word, whichever block they came from. *)
HeldIntact == held \subseteq mem

(* No block is filled past its end: the blocks behind the current one, taken
   without a look at how full they are, are in fact unused. *)
NoOverrun ==
  \A i \in 1 .. Len(chain) :
    chain[i].used =< chain[i].cap /\ (i > cur => chain[i].used = 0)

(* The pointer to a string is canonical, through every growth of the table:
   two holders of equal strings hold the same pointer. *)
Canonical ==
  table # NoTable =>
    \A x, y \in held : x.holds = y.holds /\ x.holds \in Strings => x = y

(* The probe for any string ends, for one that was never interned too, and
   while the table is being rehashed: the half-full rule always leaves an
   unused slot for the loops of intern_string to stop at. *)
ProbeEnds ==
  table # NoTable => \E i \in 0 .. (slots - 1) : table[i] = NULL

(* "A pointer to the duplicated string" (include/common/arena.h:86): what
   arena_strdup returned reads as the string it was given until the arena is
   reset.  A reset leaves the interner pointing into the rewound blocks, so a
   string interned before it is answered with memory that is free to be handed
   out again. *)
StringsKept == \A x \in held : x.holds \in Strings => x \in mem
=============================================================================
