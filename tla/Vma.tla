-------------------------------- MODULE Vma --------------------------------
(***************************************************************************)
(* The shared memory zones of src/vma.c: one name, the shared memory       *)
(* objects that have had it, and processes that create, attach to, inherit *)
(* by fork, allocate from, reset and release them, and die at any point.   *)
(*                                                                         *)
(* A zone keeps its own descriptor, address, bounds, mutex and name in the *)
(* shared memory, so every process reads what its creator wrote there.     *)
(* Sizes and offsets are in units of 16 bytes, as align_vma() rounds them, *)
(* and so small that no sum wraps.                                         *)
(* A call is one step as far as no other process can tell, but vma_alloc() *)
(* takes one for the lock, one for the load of the offset and one for its  *)
(* store and the unlock, and vma_create() one for each store that an early *)
(* user would notice.                                                      *)
(***************************************************************************)
EXTENDS Naturals, FiniteSets

CONSTANTS
  Procs, Addrs, Fds, \* the processes, and the addresses and descriptors of each
  MaxZones,          \* the objects made under the name, one after the other
  Capacity,          \* of each object, the size given to vma_create()
  Header,            \* align_vma(sizeof(vma_zone_t))
  Sizes              \* the sizes of allocations

ASSUME NamesAssumption == "free" \notin Procs /\ "lost" \notin Procs
ASSUME NumbersAssumption ==
  /\ Addrs \subseteq Nat \ {0} /\ Fds \subseteq Nat \ {0}
  /\ MaxZones \in Nat /\ Capacity \in [1 .. MaxZones -> Nat]
  /\ Header \in Nat \ {0}
  /\ Sizes \subseteq Nat \ {0}

VARIABLES
  zone,   \* the objects: what is in each zone's vma_zone_t
  made,   \* how many of them there have been
  link,   \* the object that has the name, or 0
  alive,  \* the processes that run
  maps,   \* of each process, what is mapped at each address, or 0
  fds,    \* of each process, the object a descriptor is open on, or 0
  ptrs,   \* of each process, the vma_zone_t pointers its code still has
  at,     \* of each process, where it is in vma_create() or vma_alloc()
  given,  \* history: the units of a zone that were handed out and not reset
  clash,  \* history: zones that handed out a unit twice or one not theirs
  hurt,   \* history: the zones that lost their exclusion, and how
  guests, \* history: processes that have called vma_attach()
  faults, \* processes that died because they used memory that is not there
  twice   \* history: a zone was destroyed by two processes

spaceVars == <<maps, fds, ptrs>>
pastVars == <<guests, faults, twice>>
vars == <<zone, made, link, alive, spaceVars, at, given, clash, hurt, pastVars>>

Zones == 1 .. MaxZones

Idle == [pc |-> "idle", h |-> 0, u |-> 0, off |-> 0]

(* An object without memory.  Once it has some, it is zero, which is also  *)
(* the value of a plain mutex that is free.                                *)
Blank == [fd |-> 0, base |-> 0, cap |-> 0, off |-> 0, master |-> FALSE,
          kind |-> "none", lock |-> "free", orphan |-> FALSE, torn |-> FALSE]

FreeFds(p) == {f \in Fds : fds[p][f] = 0}
FreeAddrs(p) == {a \in Addrs : maps[p][a] = 0}

(* A call that process p may start. *)
Ready(p) == p \in alive /\ at[p] = Idle

(* Pointer h of process p leads to memory. *)
Usable(p, h) == maps[p][h] # 0 /\ zone[maps[p][h]].kind # "none"

(* The lowest descriptor that is free. *)
OpenFd(p, z) ==
  \E f \in FreeFds(p) :
    (\A g \in FreeFds(p) : f <= g) /\ fds' = [fds EXCEPT ![p][f] = z]

-----------------------------------------------------------------------------
(* vma_create() and vma_attach().                                          *)

(* shm_open() with O_EXCL; it fails while the name exists. *)
CreateOpen(p) ==
  /\ Ready(p) /\ link = 0 /\ made + 1 \in Zones
  /\ made' = made + 1 /\ link' = made + 1
  /\ OpenFd(p, made + 1)
  /\ at' = [at EXCEPT ![p] = [Idle EXCEPT !.pc = "size", !.off = made + 1]]
  /\ UNCHANGED <<zone, alive, maps, ptrs, given, clash, hurt, pastVars>>

(* ftruncate(), mmap() and memset(). *)
CreateSize(p, a) ==
  LET z == at[p].off IN
  /\ p \in alive /\ at[p].pc = "size" /\ a \in FreeAddrs(p)
  /\ zone' = [zone EXCEPT ![z].kind = "plain"]
  /\ maps' = [maps EXCEPT ![p][a] = z]
  /\ at' = [at EXCEPT ![p] = [Idle EXCEPT !.pc = "bounds", !.h = a]]
  /\ UNCHANGED <<made, link, alive, fds, ptrs, given, clash, hurt, pastVars>>

(* ftruncate() or mmap() fails: the object is closed and unlinked again.   *)
CreateFails(p) ==
  /\ p \in alive /\ at[p].pc = "size"
  /\ link' = 0
  /\ fds' = [fds EXCEPT ![p] =
              [f \in Fds |-> IF fds[p][f] = at[p].off THEN 0 ELSE fds[p][f]]]
  /\ at' = [at EXCEPT ![p] = Idle]
  /\ UNCHANGED <<zone, made, alive, maps, ptrs, given, clash, hurt, pastVars>>

(* Slip: the descriptor is not written down. *)
CreateBoundsNoFd(p) ==
  LET z == maps[p][at[p].h] IN
  /\ p \in alive /\ at[p].pc = "bounds"
  /\ zone' = [zone EXCEPT ![z].base = at[p].h, ![z].cap = Capacity[z]]
  /\ at' = [at EXCEPT ![p].pc = "offset"]
  /\ UNCHANGED <<made, link, alive, spaceVars, given, clash, hurt, pastVars>>

(* fd, base_addr and capacity. *)
CreateBounds(p) ==
  LET z == maps[p][at[p].h] IN
  /\ p \in alive /\ at[p].pc = "bounds"
  /\ zone' = [zone EXCEPT ![z] =
       [@ EXCEPT !.fd = CHOOSE f \in Fds : fds[p][f] = z,
                 !.base = at[p].h, !.cap = Capacity[z]]]
  /\ at' = [at EXCEPT ![p].pc = "offset"]
  /\ UNCHANGED <<made, link, alive, spaceVars, given, clash, hurt, pastVars>>

(* The offset, is_master and, in vma_init(), the mutex.                    *)
CreateReady(p, pshared) ==
  LET z == maps[p][at[p].h] IN
  /\ p \in alive /\ at[p].pc = "offset"
  /\ zone' = [zone EXCEPT
       ![z].off = Header, ![z].master = TRUE,
       ![z].kind = IF pshared THEN "robust" ELSE @,
       ![z].lock = IF pshared THEN "free" ELSE @]
  /\ ptrs' = [ptrs EXCEPT ![p] = @ \cup {at[p].h}]
  /\ at' = [at EXCEPT ![p] = Idle]
  /\ UNCHANGED <<made, link, alive, maps, fds, given, clash, hurt, pastVars>>

(* Whoever attaches before the zone is ready finds it all the same.        *)
Attach(p, a) ==
  /\ Ready(p) /\ link # 0 /\ a \in FreeAddrs(p)
  /\ OpenFd(p, link)
  /\ maps' = [maps EXCEPT ![p][a] = link]
  /\ ptrs' = [ptrs EXCEPT ![p] = @ \cup {a}]
  /\ guests' = guests \cup {p}
  /\ hurt' = IF zone[link].master THEN hurt ELSE hurt \cup {<<link, "raced">>}
  /\ UNCHANGED <<zone, made, link, alive, at, given, clash, faults, twice>>

-----------------------------------------------------------------------------
(* vma_alloc(), also by way of its adapter.                                *)

(* Slip: the lock is not taken. *)
NoLock(z) == FALSE

(* pthread_mutex_lock() waits for a process that runs; for ever, if it is  *)
(* not robust, for one that has died.                                      *)
Held(z) == zone[z].lock \in Procs /\ zone[z].kind # "gone"

(* Its result, which nobody looks at, may be that the owner died, that the *)
(* mutex is lost for good or that it is none.                              *)
Take(z, p) ==
  IF zone[z].lock = "free" /\ zone[z].kind # "gone"
  THEN [zone[z] EXCEPT !.lock = p]
  ELSE zone[z]

AllocLock(p, h, u) ==
  LET z == maps[p][h] IN
  /\ Ready(p) /\ h \in ptrs[p] /\ Usable(p, h)
  /\ ~Held(z)
  /\ zone' = [zone EXCEPT ![z] = Take(z, p)]
  /\ at' = [at EXCEPT ![p] = [pc |-> "load", h |-> h, u |-> u, off |-> 0]]
  /\ hurt' = IF Take(z, p).lock = p THEN hurt ELSE hurt \cup {<<z, "unlocked">>}
  /\ UNCHANGED <<made, link, alive, spaceVars, given, clash, pastVars>>

(* Slip: the mutex is released after the load. *)
AllocLoadUnlocks(p) ==
  LET z == maps[p][at[p].h] IN
  /\ p \in alive /\ at[p].pc = "load"
  /\ at' = [at EXCEPT ![p].pc = "store", ![p].off = zone[z].off]
  /\ zone' = [zone EXCEPT ![z].lock = IF @ = p THEN "free" ELSE @]
  /\ UNCHANGED <<made, link, alive, spaceVars, given, clash, hurt, pastVars>>

AllocLoad(p) ==
  LET z == maps[p][at[p].h] IN
  /\ p \in alive /\ at[p].pc = "load"
  /\ at' = [at EXCEPT ![p].pc = "store", ![p].off = zone[z].off]
  /\ UNCHANGED <<zone, made, link, alive, spaceVars, given, clash, hurt, pastVars>>

(* pthread_mutex_unlock(): a mutex whose last owner died, and that nobody  *)
(* made consistent, can never be locked again.                             *)
Released(z, p) ==
  IF zone[z].lock # p THEN zone[z].lock
  ELSE IF zone[z].orphan THEN "lost" ELSE "free"

(* zone->offset + aligned > zone->capacity *)
Room(z, off, u) == off + u <= zone[z].cap

AllocStore(p) ==
  LET z == maps[p][at[p].h]
      lo == at[p].off
      new == lo .. lo + at[p].u - 1
      fits == Room(z, lo, at[p].u) IN
  /\ p \in alive /\ at[p].pc = "store"
  /\ zone' = [zone EXCEPT ![z].off = IF fits THEN lo + at[p].u ELSE @,
                          ![z].lock = Released(z, p)]
  /\ given' = IF fits THEN given \cup ({z} \X new) ELSE given
  /\ clash' = IF fits /\ ~(new \subseteq Header .. Capacity[z] - 1
                           /\ given \cap ({z} \X new) = {})
              THEN clash \cup {z} ELSE clash
  /\ at' = [at EXCEPT ![p] = Idle]
  /\ UNCHANGED <<made, link, alive, spaceVars, hurt, pastVars>>

-----------------------------------------------------------------------------
(* vma_reset(), vma_unmap(), vma_free() and vma_destroy().                 *)

(* Those inside vma_alloc(), past the lock. *)
Users(z) ==
  {q \in alive : at[q].pc \in {"load", "store"} /\ maps[q][at[q].h] = z}

(* Nobody locks.  The data is cleared at the creator's address, which must *)
(* be mapped here too; then the offset goes back.                          *)
Reset(p, h) ==
  LET z == maps[p][h] IN
  /\ Ready(p) /\ h \in ptrs[p] /\ Usable(p, h)
  /\ zone[z].cap > Header => maps[p][zone[z].base] # 0
  /\ zone' = [zone EXCEPT ![z].off = Header]
  /\ given' = {x \in given : x[1] # z}
  /\ hurt' = IF Users(z) # {} THEN hurt \cup {<<z, "raced">>} ELSE hurt
  /\ UNCHANGED <<made, link, alive, spaceVars, at, clash, pastVars>>

(* munmap() and close() of what the creator wrote down. *)
Unmap(p, h) ==
  LET z == maps[p][h] IN
  /\ maps' = [maps EXCEPT ![p] =
               [a \in Addrs |-> IF a = zone[z].base THEN 0 ELSE maps[p][a]]]
  /\ fds' = [fds EXCEPT ![p] =
              [f \in Fds |-> IF f = zone[z].fd THEN 0 ELSE fds[p][f]]]

(* Slip: vma_free() unlinks. *)
FreeUnlinks(p, h) ==
  /\ Ready(p) /\ h \in ptrs[p] /\ Usable(p, h)
  /\ Unmap(p, h)
  /\ link' = 0
  /\ ptrs' = [ptrs EXCEPT ![p] = @ \ {h}]
  /\ UNCHANGED <<zone, made, alive, at, given, clash, hurt, pastVars>>

Free(p, h) ==
  /\ Ready(p) /\ h \in ptrs[p] /\ Usable(p, h)
  /\ Unmap(p, h)
  /\ ptrs' = [ptrs EXCEPT ![p] = @ \ {h}]
  /\ UNCHANGED <<zone, made, link, alive, at, given, clash, hurt, pastVars>>

(* pthread_mutex_destroy(), shm_unlink() by whoever finds is_master set,   *)
(* and vma_unmap().  A plain mutex in use is left as it is.                *)
Destroy(p, h) ==
  LET z == maps[p][h] IN
  /\ Ready(p) /\ h \in ptrs[p] /\ Usable(p, h)
  /\ zone' = [zone EXCEPT
       ![z].kind = IF @ = "plain" /\ zone[z].lock # "free" THEN @ ELSE "gone",
       ![z].torn = TRUE]
  /\ link' = IF zone[z].master THEN 0 ELSE link
  /\ twice' = (twice \/ zone[z].torn)
  /\ Unmap(p, h)
  /\ ptrs' = [ptrs EXCEPT ![p] = @ \ {h}]
  /\ UNCHANGED <<made, alive, at, given, clash, hurt, guests, faults>>

-----------------------------------------------------------------------------
(* Processes.                                                              *)

(* process_spawn() and the like: the child has all that its parent has.    *)
Fork(p, q) ==
  /\ Ready(p) /\ q \notin alive
  /\ alive' = alive \cup {q}
  /\ maps' = [maps EXCEPT ![q] = maps[p]]
  /\ fds' = [fds EXCEPT ![q] = fds[p]]
  /\ ptrs' = [ptrs EXCEPT ![q] = ptrs[p]]
  /\ guests' = IF p \in guests THEN guests \cup {q} ELSE guests \ {q}
  /\ faults' = faults \ {q}
  /\ UNCHANGED <<zone, made, link, at, given, clash, hurt, twice>>

(* A robust mutex is given up by an owner that dies; a plain one is kept.  *)
Gone(p) ==
  /\ alive' = alive \ {p}
  /\ maps' = [maps EXCEPT ![p] = [a \in Addrs |-> 0]]
  /\ fds' = [fds EXCEPT ![p] = [f \in Fds |-> 0]]
  /\ ptrs' = [ptrs EXCEPT ![p] = {}]
  /\ at' = [at EXCEPT ![p] = Idle]
  /\ zone' = [z \in Zones |->
       IF zone[z].lock = p /\ zone[z].kind = "robust"
       THEN [zone[z] EXCEPT !.lock = "free", !.orphan = TRUE] ELSE zone[z]]
  /\ UNCHANGED <<made, link, given, clash, hurt, twice>>

Die(p) ==
  /\ p \in alive /\ Gone(p)
  /\ guests' = guests \ {p} /\ UNCHANGED faults

(* A pointer to a zone that is not there, or, in vma_reset(), whose data   *)
(* is not where the creator has it.                                        *)
Fault(p, h) ==
  /\ Ready(p) /\ h \in ptrs[p]
  /\ Usable(p, h) => LET z == zone[maps[p][h]] IN
                       z.cap > Header /\ maps[p][z.base] = 0
  /\ Gone(p)
  /\ faults' = faults \cup {p} /\ UNCHANGED guests

-----------------------------------------------------------------------------
Init ==
  /\ zone = [z \in Zones |-> Blank]
  /\ made = 0 /\ link = 0
  /\ alive \in (SUBSET Procs) \ {{}}
  /\ maps = [p \in Procs |-> [a \in Addrs |-> 0]]
  /\ fds = [p \in Procs |-> [f \in Fds |-> 0]]
  /\ ptrs = [p \in Procs |-> {}]
  /\ at = [p \in Procs |-> Idle]
  /\ given = {} /\ clash = {} /\ hurt = {} /\ guests = {} /\ faults = {} /\ twice = FALSE

Use(p, h) ==
  \/ \E u \in Sizes : AllocLock(p, h, u)
  \/ Reset(p, h)
  \/ Free(p, h)
  \/ Destroy(p, h)
  \/ Fault(p, h)

Step(p) ==
  \/ CreateOpen(p)
  \/ \E a \in Addrs : CreateSize(p, a) \/ Attach(p, a) \/ Use(p, a)
  \/ CreateFails(p)
  \/ CreateBounds(p)
  \/ \E pshared \in BOOLEAN : CreateReady(p, pshared)
  \/ AllocLoad(p)
  \/ AllocStore(p)
  \/ \E q \in Procs : Fork(p, q)
  \/ Die(p)

Next == \E p \in Procs : Step(p)

Spec == Init /\ [][Next]_vars

-----------------------------------------------------------------------------
(* The type of every variable; an offset stays in its zone (vma.c:28-33).  *)
Locks == Procs \cup {"free", "lost"}

ZoneStates ==
  [fd : Fds \cup {0}, base : Addrs \cup {0}, cap : Nat, off : Nat,
   master : BOOLEAN, kind : {"none", "plain", "robust", "gone"},
   lock : Locks, orphan : BOOLEAN, torn : BOOLEAN]

Places == [pc : {"idle", "size", "bounds", "offset", "load", "store"},
           h : Addrs \cup {0}, u : Sizes \cup {0}, off : Nat]

TypeOK ==
  /\ zone \in [Zones -> ZoneStates]
  /\ \A z \in Zones : zone[z].off <= zone[z].cap \/ zone[z].off <= Header
  /\ made \in Zones \cup {0} /\ link \in Zones \cup {0}
  /\ alive \subseteq Procs
  /\ maps \in [Procs -> [Addrs -> Zones \cup {0}]]
  /\ fds \in [Procs -> [Fds -> Zones \cup {0}]]
  /\ ptrs \in [Procs -> SUBSET Addrs]
  /\ at \in [Procs -> Places]
  /\ given \subseteq Zones \X Nat /\ clash \subseteq Zones
  /\ hurt \subseteq Zones \X {"raced", "unlocked"}
  /\ guests \subseteq Procs /\ faults \subseteq Procs /\ twice \in BOOLEAN

(* Two calls of vma_alloc() (vma.c:109-117), whatever processes make them, *)
(* never hand out the same memory, nor the zone's own fields, nor memory   *)
(* past its end: as long as none goes on without the lock, none attached   *)
(* before the zone was ready and none was inside during a reset.           *)
Whole(z) == \A why \in {"raced", "unlocked"} : <<z, why>> \notin hurt

NoOverlap == \A z \in clash : ~Whole(z)

(* And one goes on without the lock only after the zone has been destroyed *)
(* under it, or after an owner died in a call and the next one, who was    *)
(* told so (vma.c:112), did not make the mutex consistent.                 *)
UnlockedNeedsDeath ==
  \A z \in Zones : <<z, "unlocked">> \in hurt => zone[z].torn \/ zone[z].orphan

(* A process that made its zones, or inherited them, finds them where they *)
(* say they are (vma.c:134-143) and so dies of none; only one that         *)
(* attached may (vma.c:99-106).                                            *)
OnlyGuestsFault ==
  /\ faults \subseteq guests
  /\ \A p \in alive \ guests : \A h \in ptrs[p] :
       LET z == maps[p][h] IN
       z # 0 /\ zone[z].base = h /\ zone[z].fd \in Fds /\ fds[p][zone[z].fd] = z

(* And it keeps no mapping and no descriptor of a zone it has released, or *)
(* failed to make (vma.c:58-72, 131-145).                                  *)
NothingLeaks ==
  \A p \in alive \ guests : at[p].pc \in {"idle", "load", "store"} =>
    /\ \A a \in Addrs : maps[p][a] # 0 => a \in ptrs[p]
    /\ \A f \in Fds : fds[p][f] # 0 =>
         \E a \in ptrs[p] : maps[p][a] = fds[p][f]

(* A zone that is ready has the name until it is destroyed; but is_master  *)
(* is shared, so each of its processes unlinks the name, whichever zone    *)
(* has it by then (vma.c:157-159).                                         *)
NameUntilDestroyed ==
  ~twice => \A z \in Zones : zone[z].master /\ ~zone[z].torn => link = z

-----------------------------------------------------------------------------
(* What these rest on.                                                     *)

Creating(p) == at[p].pc \in {"size", "bounds", "offset"}
InCall(p) == at[p].pc \in {"load", "store"}

(* The object that p is making. *)
Fresh(p) == IF at[p].pc = "size" THEN at[p].off ELSE maps[p][at[p].h]

(* What a process has open or mapped has been made; in a call it has what  *)
(* the call is about (vma.c:49-93, 109-117); and one that is dead is in no *)
(* call, nor one that runs among those that died of a zone.                *)
CallInOrder(p) ==
  /\ p \notin alive => at[p] = Idle
  /\ \A a \in Addrs : maps[p][a] <= made
  /\ \A f \in Fds : fds[p][f] <= made
  /\ at[p].pc # "idle" /\ at[p].pc # "size" =>
       at[p].h \in Addrs /\ maps[p][at[p].h] # 0
  /\ InCall(p) => at[p].h \in ptrs[p]

CallsInOrder ==
  /\ link <= made /\ faults \cap alive = {}
  /\ \A z \in Zones : z > made => zone[z] = Blank
  /\ \A p \in Procs : CallInOrder(p)

(* Process q has nothing of object z. *)
Ignorant(q, z) ==
  (\A a \in Addrs : maps[q][a] # z) /\ (\A f \in Fds : fds[q][f] # z)

(* An object is made by one process, which has opened and mapped it once,  *)
(* and until it is ready only those that attach know of it.                *)
MakerInOrder(p) ==
  LET z == Fresh(p) IN
  /\ z \in 1 .. made /\ ~zone[z].master
  /\ \E f \in Fds : \A g \in Fds : fds[p][g] = z <=> g = f
  /\ \A a \in Addrs : maps[p][a] = z <=> at[p].pc # "size" /\ a = at[p].h
  /\ at[p].pc # "size" => zone[z].kind # "none"
  /\ at[p].pc # "offset" => zone[z].cap = 0
  /\ at[p].pc = "offset" =>
       /\ zone[z].base = at[p].h /\ zone[z].cap = Capacity[z]
       /\ zone[z].fd \in Fds /\ fds[p][zone[z].fd] = z
  /\ \A q \in Procs \ {p} : Creating(q) => Fresh(q) # z
  /\ \A q \in alive \ guests : q # p => Ignorant(q, z)

MakersInOrder == \A p \in Procs : Creating(p) => MakerInOrder(p)

(* A process that did not attach has mapped each zone it has a pointer to  *)
(* where its creator did, and has open the descriptor its creator had; and *)
(* nothing else but the object it is making.                               *)
OwnerKnows(p) ==
  /\ \A h \in ptrs[p] :
       LET z == maps[p][h] IN
       /\ z # 0 /\ zone[z].kind # "none" /\ zone[z].base = h
       /\ zone[z].fd \in Fds /\ fds[p][zone[z].fd] = z
       /\ Creating(p) => z # Fresh(p)
  /\ \A a \in Addrs : maps[p][a] # 0 =>
       a \in ptrs[p] \/ (Creating(p) /\ maps[p][a] = Fresh(p))
  /\ \A f \in Fds : fds[p][f] # 0 =>
       \/ Creating(p) /\ fds[p][f] = Fresh(p)
       \/ /\ zone[fds[p][f]].fd = f
          /\ \E a \in ptrs[p] : maps[p][a] = fds[p][f]

OwnersKnow == \A p \in alive \ guests : OwnerKnows(p)

(* Until a zone is destroyed twice, the one being made has the name.       *)
NameInOrder ==
  /\ ~twice => \A p \in Procs : Creating(p) => link = Fresh(p)
  /\ NameUntilDestroyed

(* A mutex is gone only with its zone, and lost only after an owner died.  *)
LocksInOrder ==
  /\ \A z \in Zones : (zone[z].kind = "gone" => zone[z].torn)
                      /\ (zone[z].lock = "lost" => zone[z].orphan)
  /\ UnlockedNeedsDeath

(* As long as a zone is whole, only those use it that have its mutex, once *)
(* it is ready, and what it handed out lies between its header and its     *)
(* offset.                                                                 *)
UsesInOrder(p, z) ==
  /\ \A a \in ptrs[p] : maps[p][a] = z =>
       zone[z].master \/ (Creating(p) /\ z = Fresh(p))
  /\ InCall(p) /\ maps[p][at[p].h] = z =>
       zone[z].lock = p /\ (at[p].pc = "store" => at[p].off = zone[z].off)

ExclusiveAt(z) ==
  /\ z \notin clash
  /\ zone[z].master => zone[z].cap = Capacity[z] /\ Header <= zone[z].off
  /\ \A x \in given : x[1] = z =>
       zone[z].master /\ x[2] \in Header .. zone[z].off - 1
  /\ \A p \in alive : UsesInOrder(p, z)

Exclusive == \A z \in Zones : Whole(z) => ExclusiveAt(z)

(* So a process that did not attach dies of no zone and leaves nothing of  *)
(* one behind, though each shares its fd and base_addr with the others     *)
(* (vma.c:76-93, 131-145).                                                 *)
VmaInv ==
  /\ TypeOK /\ OnlyGuestsFault /\ NothingLeaks
  /\ CallsInOrder /\ MakersInOrder /\ OwnersKnow
  /\ NameInOrder /\ LocksInOrder /\ Exclusive
=============================================================================
