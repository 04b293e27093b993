------------------------------- MODULE Arena -------------------------------
(***************************************************************************)
(* The arena of src/allocator.c: a chain of blocks, each with a capacity   *)
(* and an offset, from which memory is handed out and given back a block   *)
(* or a chain at a time.                                                   *)
(*                                                                         *)
(* Every call holds the arena's mutex from its first access to its last    *)
(* (arena_set_contains_fd(), one store, takes none), so a call is one step,*)
(* whichever thread makes it.  What the caller does with its memory is     *)
(* another.  Sizes, offsets and capacities are in units of 16 bytes, as    *)
(* align() rounds them; Word of them is more than a size_t can count.      *)
(***************************************************************************)
EXTENDS Naturals, Sequences

CONSTANTS
  BlockSize, \* arena_t.block_size
  Header,    \* the size of an arena_block_t
  Word,      \* 2^64 / 16
  Ids,       \* 2^16, the values of arena_block_t.id
  Sizes,     \* the sizes that callers ask for; Word: less than a unit below it
  MaxBlocks  \* the blocks memory has room for

ASSUME SizesAssumption ==
  /\ BlockSize \in Nat \ {0} /\ Header \in Nat /\ Word \in Nat
  /\ Header + BlockSize < Word
  /\ Sizes \subseteq 0 .. Word
ASSUME BlocksAssumption == MaxBlocks \in Nat \ {0} /\ Ids \in Nat \ {0}

VARIABLES
  status,  \* "live"; "locked": the mutex is kept; "corrupt"; "freed"
  blocks,  \* the chain, from arena_t.head
  current, \* the index of arena_t.current
  fd,      \* arena_t.contains_fd
  db,      \* arena_t.contains_db_handle
  fresh,   \* arena_t.is_reset
  allocs,  \* history: the memory callers have and may use
  dirty,   \* the units that are not zero, as pairs of a block and an index
  largest  \* history: the largest size asked for

flagVars == <<fd, db, fresh>>
vars == <<status, blocks, current, flagVars, allocs, dirty, largest>>

Blocks == [id : 0 .. Ids - 1, wiped : BOOLEAN, off : Nat, cap : Nat]
Regions == [b : Nat \ {0}, lo : Nat, hi : Nat]
Units(x) == {x.b} \X (x.lo .. x.hi - 1)

(* arena_new_block(), zeroed. *)
NewBlock(id, size) == [id |-> id, wiped |-> FALSE, off |-> 0, cap |-> size]

-----------------------------------------------------------------------------
(* arena_alloc(), and arena_strdup() up to its copy.                       *)

(* align(): the last sizes of all are rounded up to nothing. *)
Aligned(u) == IF u = Word THEN 0 ELSE u

(* Slip: a block is always used from its start. *)
StartAnew(b) == 0

(* A block is used from its offset, or anew when it is not the current one.*)
Start(b) == IF b = current THEN blocks[b].off ELSE 0

(* Slip: the capacity is not looked at. *)
FitsAlways(b, u) == TRUE

(* cur->offset + aligned_size > cur->capacity, which wraps *)
Fits(b, u) ==
  LET end == Start(b) + Aligned(u) IN
  (IF end < Word THEN end ELSE end - Word) <= blocks[b].cap

Fitting(u) == {b \in current .. Len(blocks) : Fits(b, u)}

(* Is any sum a wrong one?  Then so is the pointer that is returned. *)
Wraps(b, u) == u = Word \/ Start(b) + u >= Word

NewSize(u) == IF Aligned(u) > BlockSize THEN Aligned(u) ELSE BlockSize

(* The offset of the block that is used moves on. *)
BumpTo(b, u) == [blocks EXCEPT ![b].off = Start(b) + u]

(* new_block->id = arena->current->id + 1, an unsigned short *)
NextId == (blocks[Len(blocks)].id + 1) % Ids

Ask(u) ==
  /\ status = "live"
  /\ largest' = IF u > largest THEN u ELSE largest

Give(b, lo, u) ==
  /\ allocs' = allocs \cup {[b |-> b, lo |-> lo, hi |-> lo + u]}
  /\ current' = b
  /\ fresh' = FALSE
  /\ UNCHANGED <<status, fd, db, dirty>>

(* The first block, from the current one on, that has room. *)
AllocInChain(u) ==
  /\ Ask(u)
  /\ \E b \in Fitting(u) :
       /\ \A c \in Fitting(u) : b <= c
       /\ ~Wraps(b, u)
       /\ blocks' = BumpTo(b, u)
       /\ Give(b, Start(b), u)

AllocNewBlock(u) ==
  LET last == Len(blocks) IN
  /\ Ask(u)
  /\ Fitting(u) = {} /\ Header + NewSize(u) < Word
  /\ last < MaxBlocks
  /\ blocks' = Append(blocks, [NewBlock(NextId, NewSize(u)) EXCEPT !.off = u])
  /\ Give(last + 1, 0, u)

(* malloc() fails: a null pointer, and the mutex stays locked.             *)
AllocOutOfMemory(u) ==
  /\ Ask(u)
  /\ Fitting(u) = {} /\ Header + NewSize(u) < Word
  /\ status' = "locked"
  /\ current' = Len(blocks)
  /\ UNCHANGED <<blocks, flagVars, allocs, dirty>>

(* A sum wraps: the caller gets a pointer to less than it asked for.  What *)
(* happens from here on is undefined.                                      *)
AllocWraps(u) ==
  /\ Ask(u)
  /\ \/ Fitting(u) = {} /\ Header + NewSize(u) >= Word
     \/ \E b \in Fitting(u) : (\A c \in Fitting(u) : b <= c) /\ Wraps(b, u)
  /\ status' = "corrupt"
  /\ UNCHANGED <<blocks, current, flagVars, allocs, dirty>>

(* The caller writes to its memory, as arena_strdup() does. *)
Write(x) ==
  /\ status = "live"
  /\ dirty' = dirty \cup Units(x)
  /\ UNCHANGED <<status, blocks, current, flagVars, allocs, largest>>

-----------------------------------------------------------------------------
(* arena_reset(), arena_shred(), the setters and arena_destroy().          *)

(* internal_block_shred() of some blocks; to rewind one is to take back    *)
(* all that was handed out of it.                                          *)
Shred(bs, rewind) ==
  /\ blocks' = [b \in DOMAIN blocks |->
       IF b \notin bs THEN blocks[b]
       ELSE [blocks[b] EXCEPT !.wiped = TRUE, !.off = IF rewind THEN 0 ELSE @]]
  /\ dirty' = {d \in dirty : d[1] \notin bs}
  /\ allocs' = {x \in allocs : ~(rewind /\ x.b \in bs)}

Reset ==
  /\ status = "live"
  /\ Shred(DOMAIN blocks, TRUE)
  /\ current' = 1
  /\ fresh' = TRUE
  /\ UNCHANGED <<status, fd, db, largest>>

(* get_arena(): the first block with that id, if there is one. *)
WithId(id) ==
  {b \in DOMAIN blocks : blocks[b].id = id
                         /\ \A c \in 1 .. b - 1 : blocks[c].id # id}

(* ARENA_ID_ENTIRE, ARENA_ID_CURRENT, or an id; CND_ABORT if it is unknown.*)
ArenaShred(bs, rewind) ==
  /\ status = "live"
  /\ Shred(bs, rewind)
  /\ UNCHANGED <<status, current, flagVars, largest>>

(* arena_set_contains_fd(), ..._db_connection(), ..._resources() *)
SetContains(f, d) ==
  /\ status = "live"
  /\ f = fd \/ d = db \/ f = d
  /\ fd' = f /\ db' = d
  /\ UNCHANGED <<status, blocks, current, fresh, allocs, dirty, largest>>

(* It refuses, unless it is forced, while a resource is held.              *)
Destroy(force) ==
  /\ status = "live"
  /\ force \/ ~(fd \/ db)
  /\ status' = "freed"
  /\ blocks' = << >> /\ current' = 1
  /\ allocs' = {} /\ dirty' = {}
  /\ UNCHANGED <<flagVars, largest>>

-----------------------------------------------------------------------------
(* arena_init() *)
Init ==
  /\ status = "live"
  /\ blocks = <<NewBlock(0, BlockSize)>>
  /\ current = 1
  /\ fd = FALSE /\ db = FALSE /\ fresh = FALSE
  /\ allocs = {}
  /\ dirty = {}
  /\ largest = 0

Alloc(u) ==
  \/ AllocInChain(u)
  \/ AllocNewBlock(u)
  \/ AllocOutOfMemory(u)
  \/ AllocWraps(u)

Next ==
  \/ \E u \in Sizes : Alloc(u)
  \/ \E x \in allocs : Write(x)
  \/ Reset
  \/ \E rewind \in BOOLEAN :
       \/ ArenaShred(DOMAIN blocks, rewind)
       \/ ArenaShred({current}, rewind)
       \/ \E id \in 0 .. Ids - 1 : ArenaShred(WithId(id), rewind)
  \/ \E f, d \in BOOLEAN : SetContains(f, d)
  \/ \E force \in BOOLEAN : Destroy(force)

Spec == Init /\ [][Next]_vars

-----------------------------------------------------------------------------
(* The type of every variable. *)
TypeOK ==
  /\ status \in {"live", "locked", "corrupt", "freed"}
  /\ blocks \in Seq(Blocks)
  /\ current \in Nat \ {0}
  /\ fd \in BOOLEAN /\ db \in BOOLEAN /\ fresh \in BOOLEAN
  /\ allocs \subseteq Regions
  /\ dirty \subseteq (Nat \ {0}) \X Nat
  /\ largest \in Nat

(* arena_alloc() never hands out a byte twice before it has been taken     *)
(* back, nor one outside its block (allocator.c:101-124), whatever blocks  *)
(* are skipped, rewound or shredded alone.                                 *)
Disjoint(x, y) == x.b # y.b \/ x.hi <= y.lo \/ y.hi <= x.lo

NoOverlap ==
  /\ \A x \in allocs : x.b \in DOMAIN blocks /\ x.hi <= blocks[x.b].cap
  /\ \A x, y \in allocs : x # y => Disjoint(x, y)

(* What arena_alloc() will hand out is zero, although it zeroes nothing    *)
(* itself: every way to use memory again goes through a shred              *)
(* (allocator.c:46-54, 103-104).                                           *)
FreshIsZero ==
  \A d \in dirty : \E x \in allocs : d \in Units(x)

(* A wrong sum (allocator.c:29, 101, 107) needs a request that is itself   *)
(* about as large as a size_t can be.                                      *)
Largest == IF largest > BlockSize THEN largest ELSE BlockSize
WrapNeedsHuge == status = "corrupt" => Header + Largest >= Word \/ 2 * Largest >= Word

(* What these rest on: offsets stay within their blocks, and a block after *)
(* the current one has nothing handed out, so that rewinding it is safe.   *)
ChainInOrder ==
  status # "freed" =>
    /\ current \in DOMAIN blocks
    /\ \A b \in DOMAIN blocks :
         /\ blocks[b].off <= blocks[b].cap
         /\ blocks[b].cap <= Largest
         /\ b > current => blocks[b].off = 0

AllocsInOrder ==
  \A x \in allocs :
    x.b \in DOMAIN blocks /\ x.lo <= x.hi /\ x.hi <= blocks[x.b].off

(* Together with it they say what arena_alloc() hands out, whatever is     *)
(* reset, shredded or used again in between (allocator.c:10-151).          *)
ArenaInv == TypeOK /\ ChainInOrder /\ AllocsInOrder /\ NoOverlap /\ FreshIsZero
=============================================================================
