----------------------------- MODULE VmaProofs -----------------------------
(***************************************************************************)
(* Proofs about Vma, for any number of processes and objects, of any       *)
(* sizes.  VmaInv is inductive.                                            *)
(***************************************************************************)
EXTENDS Vma, TLAPS

USE NamesAssumption, NumbersAssumption DEF NumbersAssumption, NamesAssumption

(* What is free is among the descriptors, and what is opened becomes so.   *)
LEMMA OpenFdShape ==
  ASSUME fds \in [Procs -> [Fds -> Zones \cup {0}]], NEW p \in Procs, NEW z \in Zones, OpenFd(p, z)
  PROVE  /\ fds' \in [Procs -> [Fds -> Zones \cup {0}]]
         /\ \A q \in Procs \ {p} : fds'[q] = fds[q]
         /\ \E f \in Fds : /\ fds[p][f] = 0 
                           /\ \A g \in Fds : fds'[p][g] = IF g = f THEN z ELSE fds[p][g]
<1>1. PICK f \in FreeFds(p) : fds' = [fds EXCEPT ![p] = [fds[p] EXCEPT ![f] = z]]
  BY Zenon DEF OpenFd
<1>2. f \in Fds /\ fds[p][f] = 0
  BY DEF FreeFds
<1>3. \A g \in Fds : fds'[p][g] = IF g = f THEN z ELSE fds[p][g]
  BY <1>1, <1>2
<1> QED
  BY <1>1, <1>2, <1>3

(* What munmap() and close() leave. *)
LEMMA UnmapShape ==
  ASSUME TypeOK, NEW p \in Procs, NEW h \in Addrs, Unmap(p, h)
  PROVE  LET z == maps[p][h] IN
         /\ maps' \in [Procs -> [Addrs -> Zones \cup {0}]]
         /\ fds' \in [Procs -> [Fds -> Zones \cup {0}]]
         /\ \A q \in Procs \ {p} : maps'[q] = maps[q] /\ fds'[q] = fds[q]
         /\ \A a \in Addrs : maps'[p][a] = IF a = zone[z].base THEN 0 ELSE maps[p][a]
         /\ \A f \in Fds : fds'[p][f] = IF f = zone[z].fd THEN 0 ELSE fds[p][f]
<1> DEFINE z == maps[p][h]
           m == [a \in Addrs |-> IF a = zone[z].base THEN 0 ELSE maps[p][a]]
           d == [f \in Fds |-> IF f = zone[z].fd THEN 0 ELSE fds[p][f]]
<1>1. maps' = [maps EXCEPT ![p] = m] /\ fds' = [fds EXCEPT ![p] = d]
  BY DEF Unmap
<1>2. m \in [Addrs -> Zones \cup {0}] /\ d \in [Fds -> Zones \cup {0}]
  BY DEF TypeOK
<1>3. /\ \A a \in Addrs : m[a] = IF a = zone[z].base THEN 0 ELSE maps[p][a]
      /\ \A f \in Fds : d[f] = IF f = zone[z].fd THEN 0 ELSE fds[p][f]
  OBVIOUS
<1>4. maps \in [Procs -> [Addrs -> Zones \cup {0}]] /\ fds \in [Procs -> [Fds -> Zones \cup {0}]]
  BY DEF TypeOK
<1> HIDE DEF m, d, z
<1> QED
  BY <1>1, <1>2, <1>3, <1>4 DEF z

(* The places in a call that a step goes to. *)
LEMMA IdleShape == Idle \in Places /\ Idle.pc = "idle"
  BY DEF Idle, Places

LEMMA PlaceShape ==
  /\ \A z \in Nat : LET r == [Idle EXCEPT !.pc = "size", !.off = z] IN
       r \in Places /\ r.pc = "size" /\ r.off = z
  /\ \A a \in Addrs : LET r == [Idle EXCEPT !.pc = "bounds", !.h = a] IN
       r \in Places /\ r.pc = "bounds" /\ r.h = a
  /\ \A a \in Addrs, u \in Sizes :
       LET r == [pc |-> "load", h |-> a, u |-> u, off |-> 0] IN
       r \in Places /\ r.pc = "load" /\ r.h = a /\ r.u = u
  /\ \A c \in Places : LET r == [c EXCEPT !.pc = "offset"] IN
       r \in Places /\ r.pc = "offset" /\ r.h = c.h
<1> QED
  BY Zenon DEF Idle, Places

LEMMA PlaceFields ==
  ASSUME NEW c \in Places
  PROVE  c.h \in Addrs \cup {0} /\ c.u \in Nat /\ c.off \in Nat
<1>1. c.h \in Addrs \cup {0} /\ c.u \in Sizes \cup {0}
  BY DEF Places
<1>2. c.off \in Nat
  BY DEF Places
<1>3. Sizes \cup {0} \subseteq Nat
  OBVIOUS
<1> QED
  BY <1>1, <1>2, <1>3, Zenon

LEMMA StorePlace ==
  ASSUME NEW c \in Places, NEW off \in Nat
  PROVE  LET r == [c EXCEPT !.pc = "store", !.off = off] IN
         r \in Places /\ r.pc = "store" /\ r.h = c.h /\ r.off = off
  BY Zenon DEF Places

(* What a step makes of an object. *)
LEMMA ObjectShape ==
  ASSUME NEW o \in ZoneStates
  PROVE  /\ [o EXCEPT !.kind = "plain"] \in ZoneStates
         /\ \A f \in Fds, a \in Addrs, c \in Nat :
              [o EXCEPT !.fd = f, !.base = a, !.cap = c] \in ZoneStates
         /\ \A n \in Nat, k \in {"none", "plain", "robust", "gone"}, l \in Locks :
              [o EXCEPT !.off = n, !.master = TRUE, !.kind = k, !.lock = l] \in ZoneStates
         /\ \A l \in Locks : [o EXCEPT !.lock = l] \in ZoneStates
         /\ \A n \in Nat, l \in Locks : [o EXCEPT !.off = n, !.lock = l] \in ZoneStates
         /\ \A n \in Nat : [o EXCEPT !.off = n] \in ZoneStates
         /\ \A k \in {"none", "plain", "robust", "gone"} :
              [o EXCEPT !.kind = k, !.torn = TRUE] \in ZoneStates
         /\ [o EXCEPT !.lock = "free", !.orphan = TRUE] \in ZoneStates
<1>1. /\ [o EXCEPT !.kind = "plain"] \in ZoneStates
      /\ [o EXCEPT !.lock = "free", !.orphan = TRUE] \in ZoneStates
  BY DEF ZoneStates, Locks
<1>2. ASSUME NEW f \in Fds, NEW a \in Addrs, NEW c \in Nat
      PROVE  [o EXCEPT !.fd = f, !.base = a, !.cap = c] \in ZoneStates
  BY DEF ZoneStates
<1>3. ASSUME NEW n \in Nat, NEW k \in {"none", "plain", "robust", "gone"}, NEW l \in Locks
      PROVE  /\ [o EXCEPT !.off = n, !.master = TRUE, !.kind = k, !.lock = l] \in ZoneStates
             /\ [o EXCEPT !.off = n, !.lock = l] \in ZoneStates
             /\ [o EXCEPT !.lock = l] \in ZoneStates
             /\ [o EXCEPT !.off = n] \in ZoneStates
             /\ [o EXCEPT !.kind = k, !.torn = TRUE] \in ZoneStates
  BY DEF ZoneStates
<1>4. 0 \in Nat /\ "none" \in {"none", "plain", "robust", "gone"} /\ "free" \in Locks
  BY DEF Locks
<1> QED
  BY <1>1, <1>2, <1>3, <1>4

SameBounds(r, o) == r.fd = o.fd /\ r.base = o.base /\ r.cap = o.cap
SameUse(r, o) == r.off = o.off /\ r.master = o.master /\ r.torn = o.torn
SameMutex(r, o) == r.kind = o.kind /\ r.lock = o.lock /\ r.orphan = o.orphan

IsSized(r, o) ==
  /\ SameBounds(r, o) /\ SameUse(r, o)
  /\ r.kind = "plain" /\ r.lock = o.lock /\ r.orphan = o.orphan
IsBound(r, o, f, a, c) ==
  /\ r.fd = f /\ r.base = a /\ r.cap = c
  /\ SameUse(r, o) /\ SameMutex(r, o)
IsReady(r, o, k, l) ==
  /\ SameBounds(r, o) /\ r.off = Header /\ r.master = TRUE /\ r.torn = o.torn
  /\ r.kind = k /\ r.lock = l /\ r.orphan = o.orphan
HasLock(r, o, l) ==
  /\ SameBounds(r, o) /\ SameUse(r, o)
  /\ r.kind = o.kind /\ r.lock = l /\ r.orphan = o.orphan
IsStored(r, o, n, l) ==
  /\ SameBounds(r, o) /\ r.off = n /\ r.master = o.master /\ r.torn = o.torn
  /\ r.kind = o.kind /\ r.lock = l /\ r.orphan = o.orphan
IsTorn(r, o, k) ==
  /\ SameBounds(r, o) /\ r.off = o.off /\ r.master = o.master /\ r.torn = TRUE
  /\ r.kind = k /\ r.lock = o.lock /\ r.orphan = o.orphan
IsOrphan(r, o) ==
  /\ SameBounds(r, o) /\ SameUse(r, o)
  /\ r.kind = o.kind /\ r.lock = "free" /\ r.orphan = TRUE

(* The fields of what a step makes of an object. *)
LEMMA FieldShape ==
  ASSUME NEW o \in ZoneStates
  PROVE  /\ IsSized([o EXCEPT !.kind = "plain"], o)
         /\ \A f, a, c : IsBound([o EXCEPT !.fd = f, !.base = a, !.cap = c], o, f, a, c)
         /\ \A k, l : IsReady([o EXCEPT !.off = Header, !.master = TRUE, !.kind = k,
                                        !.lock = l], o, k, l)
         /\ \A l : HasLock([o EXCEPT !.lock = l], o, l)
         /\ \A n, l : IsStored([o EXCEPT !.off = n, !.lock = l], o, n, l)
         /\ IsStored([o EXCEPT !.off = Header], o, Header, o.lock)
         /\ \A k : IsTorn([o EXCEPT !.kind = k, !.torn = TRUE], o, k)
         /\ IsOrphan([o EXCEPT !.lock = "free", !.orphan = TRUE], o)
<1> QED
  BY DEF ZoneStates, SameBounds, SameUse, SameMutex, IsSized, IsBound, IsReady,
         HasLock, IsStored, IsTorn, IsOrphan

(* A step moves one process. *)
LEMMA AtShape ==
  ASSUME at \in [Procs -> Places], NEW p \in Procs, NEW r \in Places,
         at' = [at EXCEPT ![p] = r]
  PROVE  at' \in [Procs -> Places] /\ at'[p] = r /\ \A q \in Procs \ {p} : at'[q] = at[q]
  OBVIOUS

(* A step changes one object. *)
LEMMA ZoneShape ==
  ASSUME zone \in [Zones -> ZoneStates], NEW z \in Zones, NEW r \in ZoneStates,
         zone' = [zone EXCEPT ![z] = r]
  PROVE  /\ zone' \in [Zones -> ZoneStates]
         /\ zone'[z] = r /\ \A y \in Zones \ {z} : zone'[y] = zone[y]
  OBVIOUS

(* What a process in a call is about is there. *)
LEMMA InOrder ==
  ASSUME VmaInv, NEW p \in Procs
  PROVE  /\ Creating(p) => Fresh(p) \in Zones
         /\ at[p].pc \in {"bounds", "offset", "load", "store"} =>
              at[p].h \in Addrs /\ maps[p][at[p].h] \in Zones
         /\ at[p] \in Places
<1>1. at[p] \in Places /\ maps[p] \in [Addrs -> Zones \cup {0}] /\ made \in Zones \cup {0}
  BY DEF VmaInv, TypeOK
<1>2. at[p].pc # "idle" /\ at[p].pc # "size" => at[p].h \in Addrs /\ maps[p][at[p].h] # 0
  BY DEF VmaInv, CallsInOrder, CallInOrder
<1>3. Creating(p) => Fresh(p) \in 1 .. made
  BY DEF VmaInv, MakersInOrder, MakerInOrder
<1>4. Creating(p) => Fresh(p) \in Zones
  BY <1>1, <1>3 DEF Zones
<1> QED
  BY <1>1, <1>2, <1>4, Zenon

AfterOpen(p) ==
  LET z == made + 1 IN
  /\ z \in Zones /\ Ready(p) /\ link = 0 /\ made' = z /\ link' = z
  /\ at' \in [Procs -> Places] /\ \A q \in Procs \ {p} : at'[q] = at[q]
  /\ at'[p] \in Places /\ at'[p].pc = "size" /\ at'[p].off = z
  /\ fds' \in [Procs -> [Fds -> Zones \cup {0}]]
  /\ \A q \in Procs \ {p} : fds'[q] = fds[q]
  /\ \E f \in Fds : fds[p][f] = 0
       /\ \A g \in Fds : fds'[p][g] = IF g = f THEN z ELSE fds[p][g]
  /\ UNCHANGED <<zone, alive, maps, ptrs, given, clash, hurt, guests, faults, twice>>

LEMMA CreateOpenShape ==
  ASSUME VmaInv, NEW p \in Procs, CreateOpen(p)
  PROVE  AfterOpen(p)
<1> DEFINE r == [Idle EXCEPT !.pc = "size", !.off = made + 1]
<1>1. made + 1 \in Zones /\ made + 1 \in Nat /\ OpenFd(p, made + 1)
  BY DEF CreateOpen, Zones
<1>2. at \in [Procs -> Places] /\ fds \in [Procs -> [Fds -> Zones \cup {0}]]
  BY DEF VmaInv, TypeOK
<1>3. r \in Places /\ r.pc = "size" /\ r.off = made + 1
  BY <1>1, PlaceShape, Zenon
<1>4. at' = [at EXCEPT ![p] = r]
  BY DEF CreateOpen
<1> HIDE DEF r
<1>5. at' \in [Procs -> Places] /\ at'[p] = r /\ \A q \in Procs \ {p} : at'[q] = at[q]
  BY <1>2, <1>3, <1>4
<1> QED
  BY <1>1, <1>2, <1>3, <1>5, OpenFdShape DEF CreateOpen, pastVars, AfterOpen

AfterSize(p, a) ==
  LET z == at[p].off IN
  /\ z \in Zones /\ z = Fresh(p) /\ p \in alive /\ at[p].pc = "size"
  /\ maps[p][a] = 0
  /\ zone' \in [Zones -> ZoneStates] /\ \A y \in Zones \ {z} : zone'[y] = zone[y]
  /\ IsSized(zone'[z], zone[z])
  /\ maps' \in [Procs -> [Addrs -> Zones \cup {0}]]
  /\ \A q \in Procs \ {p} : maps'[q] = maps[q]
  /\ \A b \in Addrs : maps'[p][b] = IF b = a THEN z ELSE maps[p][b]
  /\ at' \in [Procs -> Places] /\ \A q \in Procs \ {p} : at'[q] = at[q]
  /\ at'[p].pc = "bounds" /\ at'[p].h = a
  /\ UNCHANGED <<made, link, alive, fds, ptrs, given, clash, hurt,
                 guests, faults, twice>>

LEMMA CreateSizeShape ==
  ASSUME VmaInv, NEW p \in Procs, NEW a \in Addrs, CreateSize(p, a)
  PROVE  AfterSize(p, a)
<1> DEFINE z == at[p].off
           r == [Idle EXCEPT !.pc = "bounds", !.h = a]
           o == [zone[z] EXCEPT !.kind = "plain"]
<1>1. p \in alive /\ at[p].pc = "size" /\ maps[p][a] = 0
  BY DEF CreateSize, FreeAddrs
<1>2. z = Fresh(p) /\ z \in Zones
  BY <1>1, InOrder DEF Fresh, Creating
<1>3. /\ zone \in [Zones -> ZoneStates] /\ at \in [Procs -> Places]
      /\ maps \in [Procs -> [Addrs -> Zones \cup {0}]]
  BY DEF VmaInv, TypeOK
<1>4. r \in Places /\ r.pc = "bounds" /\ r.h = a
  BY PlaceShape, Zenon
<1> HIDE DEF z
<1>5. o \in ZoneStates /\ IsSized(o, zone[z])
  <2>1. zone[z] \in ZoneStates
    BY <1>2, <1>3
  <2>2. o \in ZoneStates
    BY <2>1, ObjectShape, Zenon
  <2>3. IsSized([zone[z] EXCEPT !.kind = "plain"], zone[z])
    BY <2>1, FieldShape, Zenon
  <2> QED
    BY <2>2, <2>3
<1>6. /\ zone' = [zone EXCEPT ![z] = o] /\ at' = [at EXCEPT ![p] = r]
      /\ maps' = [maps EXCEPT ![p] = [maps[p] EXCEPT ![a] = z]]
  BY DEF CreateSize, z
<1> HIDE DEF r, o
<1>7. /\ maps' \in [Procs -> [Addrs -> Zones \cup {0}]]
      /\ \A q \in Procs \ {p} : maps'[q] = maps[q]
      /\ \A b \in Addrs : maps'[p][b] = IF b = a THEN z ELSE maps[p][b]
  BY <1>2, <1>3, <1>6
<1>8. at' \in [Procs -> Places] /\ at'[p] = r /\ \A q \in Procs \ {p} : at'[q] = at[q]
  BY <1>3, <1>4, <1>6
<1>9. /\ zone' \in [Zones -> ZoneStates] /\ \A y \in Zones \ {z} : zone'[y] = zone[y]
      /\ zone'[z] = o
  BY <1>2, <1>3, <1>5, <1>6
<1>10. UNCHANGED <<made, link, alive, fds, ptrs, given, clash, hurt, guests, faults, twice>>
  BY DEF CreateSize, pastVars
<1>11. IsSized(zone'[z], zone[z])
  BY <1>5, <1>9
<1> QED
  BY <1>1, <1>2, <1>4, <1>7, <1>8, <1>9, <1>10, <1>11 DEF z, AfterSize

AfterFails(p) ==
  /\ p \in alive /\ at[p].pc = "size" /\ link' = 0
  /\ at' \in [Procs -> Places] /\ at'[p] = Idle /\ at'[p].pc = "idle"
  /\ \A q \in Procs \ {p} : at'[q] = at[q]
  /\ fds' \in [Procs -> [Fds -> Zones \cup {0}]]
  /\ \A q \in Procs \ {p} : fds'[q] = fds[q]
  /\ \A f \in Fds : fds'[p][f] = IF fds[p][f] = Fresh(p) THEN 0 ELSE fds[p][f]
  /\ UNCHANGED <<zone, made, alive, maps, ptrs, given, clash, hurt,
                 guests, faults, twice>>

LEMMA CreateFailsShape ==
  ASSUME VmaInv, NEW p \in Procs, CreateFails(p)
  PROVE  AfterFails(p)
<1> DEFINE d == [f \in Fds |-> IF fds[p][f] = at[p].off THEN 0 ELSE fds[p][f]]
<1>1. p \in alive /\ at[p].pc = "size" /\ Fresh(p) = at[p].off
  BY DEF CreateFails, Fresh
<1>2. at \in [Procs -> Places] /\ fds \in [Procs -> [Fds -> Zones \cup {0}]]
  BY DEF VmaInv, TypeOK
<1>3. /\ d \in [Fds -> Zones \cup {0}]
      /\ \A f \in Fds : d[f] = IF fds[p][f] = Fresh(p) THEN 0 ELSE fds[p][f]
  BY <1>1, <1>2
<1>4. fds' = [fds EXCEPT ![p] = d] /\ at' = [at EXCEPT ![p] = Idle]
  BY DEF CreateFails
<1> HIDE DEF d
<1>5. /\ fds' \in [Procs -> [Fds -> Zones \cup {0}]]
      /\ \A q \in Procs \ {p} : fds'[q] = fds[q]
      /\ fds'[p] = d
  BY <1>2, <1>3, <1>4
<1>6. /\ at' \in [Procs -> Places] /\ at'[p] = Idle /\ at'[p].pc = "idle"
      /\ \A q \in Procs \ {p} : at'[q] = at[q]
  BY <1>2, <1>4, IdleShape
<1> QED
  BY <1>1, <1>3, <1>5, <1>6 DEF CreateFails, pastVars, AfterFails

AfterBounds(p) ==
  LET z == Fresh(p) IN
  /\ z \in Zones /\ p \in alive /\ at[p].pc = "bounds"
  /\ z = maps[p][at[p].h] /\ at[p].h \in Addrs
  /\ zone' \in [Zones -> ZoneStates] /\ \A y \in Zones \ {z} : zone'[y] = zone[y]
  /\ \E f \in Fds : /\ fds[p][f] = z
       /\ IsBound(zone'[z], zone[z], f, at[p].h, Capacity[z])
  /\ at' \in [Procs -> Places] /\ \A q \in Procs \ {p} : at'[q] = at[q]
  /\ at'[p].pc = "offset" /\ at'[p].h = at[p].h
  /\ UNCHANGED <<made, link, alive, maps, fds, ptrs, given, clash, hurt,
                 guests, faults, twice>>

LEMMA CreateBoundsShape ==
  ASSUME VmaInv, NEW p \in Procs, CreateBounds(p)
  PROVE  AfterBounds(p)
<1> DEFINE z == maps[p][at[p].h]
           f == CHOOSE f \in Fds : fds[p][f] = z
           r == [at[p] EXCEPT !.pc = "offset"]
           o == [zone[z] EXCEPT !.fd = f, !.base = at[p].h, !.cap = Capacity[z]]
<1>1. p \in alive /\ at[p].pc = "bounds" /\ z = Fresh(p) /\ Creating(p)
  BY DEF CreateBounds, Fresh, Creating
<1>2. at[p].h \in Addrs /\ z \in Zones /\ at[p] \in Places
  BY <1>1, InOrder
<1>3. f \in Fds /\ fds[p][f] = z
  <2>1. \E g \in Fds : fds[p][g] = Fresh(p)
    BY <1>1 DEF VmaInv, MakersInOrder, MakerInOrder
  <2> QED
    BY <1>1, <2>1
<1>4. zone \in [Zones -> ZoneStates] /\ at \in [Procs -> Places] /\ Capacity[z] \in Nat
  BY <1>2 DEF VmaInv, TypeOK, Zones
<1>5. r \in Places /\ r.pc = "offset" /\ r.h = at[p].h
  BY <1>2, PlaceShape, Zenon
<1>6. /\ zone' = [zone EXCEPT ![z] = o] /\ at' = [at EXCEPT ![p] = r]
  BY DEF CreateBounds
<1> HIDE DEF f, z
<1>7. o \in ZoneStates /\ IsBound(o, zone[z], f, at[p].h, Capacity[z])
  BY <1>2, <1>3, <1>4, ObjectShape, FieldShape, Zenon
<1> HIDE DEF r, o
<1>8. at' \in [Procs -> Places] /\ at'[p] = r /\ \A q \in Procs \ {p} : at'[q] = at[q]
  BY <1>4, <1>5, <1>6
<1>9. /\ zone' \in [Zones -> ZoneStates] /\ \A y \in Zones \ {z} : zone'[y] = zone[y]
      /\ zone'[z] = o
  BY <1>2, <1>4, <1>6, <1>7
<1>10. UNCHANGED <<made, link, alive, maps, fds, ptrs, given, clash, hurt, guests, faults, twice>>
  BY Zenon DEF CreateBounds, pastVars, spaceVars
<1>11. IsBound(zone'[z], zone[z], f, at[p].h, Capacity[z])
  BY <1>7, <1>9, Zenon
<1>12. z = maps[p][at[p].h]
  BY DEF z
<1>13. \E g \in Fds : /\ fds[p][g] = Fresh(p)
                      /\ IsBound(zone'[Fresh(p)], zone[Fresh(p)], g, at[p].h, Capacity[Fresh(p)])
  BY <1>1, <1>3, <1>11, Zenon
<1>14. at'[p].pc = "offset" /\ at'[p].h = at[p].h
  BY <1>5, <1>8, Zenon
<1> QED
  BY <1>1, <1>2, <1>8, <1>9, <1>10, <1>12, <1>13, <1>14, Zenon DEF AfterBounds

AfterReady(p, pshared) ==
  LET z == Fresh(p) IN
  /\ z \in Zones /\ p \in alive /\ at[p].pc = "offset"
  /\ z = maps[p][at[p].h] /\ at[p].h \in Addrs
  /\ zone' \in [Zones -> ZoneStates] /\ \A y \in Zones \ {z} : zone'[y] = zone[y]
  /\ IsReady(zone'[z], zone[z], IF pshared THEN "robust" ELSE zone[z].kind,
             IF pshared THEN "free" ELSE zone[z].lock)
  /\ ptrs' \in [Procs -> SUBSET Addrs]
  /\ ptrs'[p] = ptrs[p] \cup {at[p].h} /\ \A q \in Procs \ {p} : ptrs'[q] = ptrs[q]
  /\ at' \in [Procs -> Places] /\ at'[p] = Idle /\ at'[p].pc = "idle"
  /\ \A q \in Procs \ {p} : at'[q] = at[q]
  /\ UNCHANGED <<made, link, alive, maps, fds, given, clash, hurt,
                 guests, faults, twice>>

LEMMA CreateReadyShape ==
  ASSUME VmaInv, NEW p \in Procs, NEW pshared \in BOOLEAN, CreateReady(p, pshared)
  PROVE  AfterReady(p, pshared)
<1> DEFINE z == maps[p][at[p].h]
           k == IF pshared THEN "robust" ELSE zone[z].kind
           l == IF pshared THEN "free" ELSE zone[z].lock
           o == [zone[z] EXCEPT !.off = Header, !.master = TRUE, !.kind = k, !.lock = l]
<1>1. p \in alive /\ at[p].pc = "offset" /\ z = Fresh(p)
  BY Zenon DEF CreateReady, Fresh
<1>2. at[p].h \in Addrs /\ z \in Zones
  BY <1>1, InOrder
<1>3. /\ zone \in [Zones -> ZoneStates] /\ at \in [Procs -> Places]
      /\ ptrs \in [Procs -> SUBSET Addrs]
  BY DEF VmaInv, TypeOK
<1>4. /\ zone' = [zone EXCEPT ![z] = o] /\ at' = [at EXCEPT ![p] = Idle]
      /\ ptrs' = [ptrs EXCEPT ![p] = ptrs[p] \cup {at[p].h}]
  BY Zenon DEF CreateReady
<1> HIDE DEF z
<1>5. k \in {"none", "plain", "robust", "gone"} /\ l \in Locks
  BY <1>2, <1>3 DEF ZoneStates, Locks
<1> HIDE DEF k, l
<1>6. o \in ZoneStates /\ IsReady(o, zone[z], k, l)
  BY <1>2, <1>3, <1>5, ObjectShape, FieldShape, Zenon
<1> HIDE DEF o
<1>7. /\ zone' \in [Zones -> ZoneStates] /\ \A y \in Zones \ {z} : zone'[y] = zone[y]
      /\ zone'[z] = o
  BY <1>2, <1>3, <1>4, <1>6
<1>8. /\ at' \in [Procs -> Places] /\ at'[p] = Idle /\ at'[p].pc = "idle"
      /\ \A q \in Procs \ {p} : at'[q] = at[q]
  BY <1>3, <1>4, IdleShape
<1>9. /\ ptrs' \in [Procs -> SUBSET Addrs]
      /\ ptrs'[p] = ptrs[p] \cup {at[p].h} /\ \A q \in Procs \ {p} : ptrs'[q] = ptrs[q]
  BY <1>2, <1>3, <1>4
<1> QED
  BY <1>1, <1>2, <1>6, <1>7, <1>8, <1>9 DEF CreateReady, pastVars, k, l, o, z, AfterReady

AfterAttach(p, a) ==
  /\ link \in Zones /\ Ready(p) /\ maps[p][a] = 0
  /\ maps' \in [Procs -> [Addrs -> Zones \cup {0}]]
  /\ \A q \in Procs \ {p} : maps'[q] = maps[q]
  /\ \A b \in Addrs : maps'[p][b] = IF b = a THEN link ELSE maps[p][b]
  /\ fds' \in [Procs -> [Fds -> Zones \cup {0}]]
  /\ \A q \in Procs \ {p} : fds'[q] = fds[q]
  /\ \E f \in Fds : fds[p][f] = 0
       /\ \A g \in Fds : fds'[p][g] = IF g = f THEN link ELSE fds[p][g]
  /\ ptrs' \in [Procs -> SUBSET Addrs]
  /\ ptrs'[p] = ptrs[p] \cup {a} /\ \A q \in Procs \ {p} : ptrs'[q] = ptrs[q]
  /\ guests' = guests \cup {p}
  /\ hurt' = IF zone[link].master THEN hurt ELSE hurt \cup {<<link, "raced">>}
  /\ UNCHANGED <<zone, made, link, alive, at, given, clash, faults, twice>>

LEMMA AttachShape ==
  ASSUME VmaInv, NEW p \in Procs, NEW a \in Addrs, Attach(p, a)
  PROVE  AfterAttach(p, a)
<1>1. /\ maps \in [Procs -> [Addrs -> Zones \cup {0}]] /\ link \in Zones \cup {0}
      /\ fds \in [Procs -> [Fds -> Zones \cup {0}]]
      /\ ptrs \in [Procs -> SUBSET Addrs]
  BY DEF VmaInv, TypeOK
<1>2. link \in Zones /\ maps[p][a] = 0 /\ OpenFd(p, link)
  BY <1>1 DEF Attach, FreeAddrs
<1>3. /\ maps' = [maps EXCEPT ![p] = [maps[p] EXCEPT ![a] = link]]
      /\ ptrs' = [ptrs EXCEPT ![p] = ptrs[p] \cup {a}]
  BY DEF Attach
<1>4. /\ maps' \in [Procs -> [Addrs -> Zones \cup {0}]]
      /\ \A q \in Procs \ {p} : maps'[q] = maps[q]
      /\ \A b \in Addrs : maps'[p][b] = IF b = a THEN link ELSE maps[p][b]
  BY <1>1, <1>2, <1>3
<1>5. /\ ptrs' \in [Procs -> SUBSET Addrs]
      /\ ptrs'[p] = ptrs[p] \cup {a} /\ \A q \in Procs \ {p} : ptrs'[q] = ptrs[q]
  BY <1>1, <1>3
<1> QED
  BY <1>1, <1>2, <1>4, <1>5, OpenFdShape DEF Attach, AfterAttach

(* The zone of a call that starts. *)
LEMMA UsedZone ==
  ASSUME VmaInv, NEW p \in Procs, NEW h \in Addrs, Usable(p, h)
  PROVE  maps[p][h] \in Zones /\ zone[maps[p][h]] \in ZoneStates
<1> QED
  BY DEF VmaInv, TypeOK, Usable

AfterLock(p, h, u) ==
  LET z == maps[p][h] IN
  /\ z \in Zones /\ Ready(p) /\ h \in ptrs[p]
  /\ zone' \in [Zones -> ZoneStates] /\ \A y \in Zones \ {z} : zone'[y] = zone[y]
  /\ \/ /\ zone[z].lock = "free" /\ zone[z].kind # "gone"
        /\ HasLock(zone'[z], zone[z], p) /\ hurt' = hurt
     \/ /\ zone[z].lock = "lost" \/ zone[z].kind = "gone"
        /\ zone'[z] = zone[z]
        /\ \/ zone[z].lock = p /\ hurt' = hurt
           \/ hurt' = hurt \cup {<<z, "unlocked">>}
  /\ at' \in [Procs -> Places] /\ \A q \in Procs \ {p} : at'[q] = at[q]
  /\ at'[p].pc = "load" /\ at'[p].h = h /\ at'[p].u = u
  /\ UNCHANGED <<made, link, alive, maps, fds, ptrs, given, clash,
                 guests, faults, twice>>

LEMMA AllocLockShape ==
  ASSUME VmaInv, NEW p \in Procs, NEW h \in Addrs, NEW u \in Sizes, AllocLock(p, h, u)
  PROVE  AfterLock(p, h, u)
<1> DEFINE z == maps[p][h]
           r == [pc |-> "load", h |-> h, u |-> u, off |-> 0]
           t == Take(z, p)
<1>1. z \in Zones /\ zone[z] \in ZoneStates
  BY UsedZone DEF AllocLock
<1>2. at \in [Procs -> Places] /\ zone \in [Zones -> ZoneStates]
  BY DEF VmaInv, TypeOK
<1>3. r \in Places /\ r.pc = "load" /\ r.h = h /\ r.u = u
  BY PlaceShape, Zenon
<1>4. /\ zone' = [zone EXCEPT ![z] = t] /\ at' = [at EXCEPT ![p] = r]
      /\ hurt' = IF t.lock = p THEN hurt ELSE hurt \cup {<<z, "unlocked">>}
  BY DEF AllocLock
<1> HIDE DEF r, z
<1>5. p \in Locks /\ zone[z].lock \in Locks
  BY <1>1 DEF Locks, ZoneStates
<1>6. \/ /\ zone[z].lock = "free" /\ zone[z].kind # "gone"
         /\ t = [zone[z] EXCEPT !.lock = p] /\ t.lock = p /\ HasLock(t, zone[z], p)
      \/ /\ zone[z].lock = "lost" \/ zone[z].kind = "gone"
         /\ t = zone[z]
  <2>1. ~(zone[z].lock \in Procs /\ zone[z].kind # "gone")
    BY DEF AllocLock, Held, z
  <2>2. CASE zone[z].lock = "free" /\ zone[z].kind # "gone"
    <3>1. t = [zone[z] EXCEPT !.lock = p]
      BY <2>2 DEF Take
    <3>2. HasLock([zone[z] EXCEPT !.lock = p], zone[z], p)
      BY <1>1, FieldShape
    <3> QED
      BY <2>2, <3>1, <3>2, Zenon DEF HasLock
  <2>3. CASE ~(zone[z].lock = "free" /\ zone[z].kind # "gone")
    BY <1>5, <2>1, <2>3 DEF Take, Locks
  <2> HIDE DEF t
  <2> QED
    BY <2>2, <2>3, Zenon
<1>7. t \in ZoneStates
  <2>1. [zone[z] EXCEPT !.lock = p] \in ZoneStates
    BY <1>1, <1>5, ObjectShape
  <2> HIDE DEF t
  <2> QED
    BY <1>1, <1>6, <2>1, Zenon
<1> HIDE DEF t
<1>8. /\ zone' \in [Zones -> ZoneStates] /\ \A y \in Zones \ {z} : zone'[y] = zone[y]
      /\ zone'[z] = t
  BY <1>1, <1>2, <1>4, <1>7
<1>9. at' \in [Procs -> Places] /\ at'[p] = r /\ \A q \in Procs \ {p} : at'[q] = at[q]
  BY <1>2, <1>3, <1>4
<1>10. \/ /\ zone[z].lock = "free" /\ zone[z].kind # "gone"
          /\ HasLock(zone'[z], zone[z], p) /\ hurt' = hurt
       \/ /\ zone[z].lock = "lost" \/ zone[z].kind = "gone"
          /\ zone'[z] = zone[z]
          /\ \/ zone[z].lock = p /\ hurt' = hurt
             \/ hurt' = hurt \cup {<<z, "unlocked">>}
  BY <1>4, <1>6, <1>8
<1> QED
  BY <1>1, <1>3, <1>8, <1>9, <1>10, Zenon DEF AllocLock, pastVars, spaceVars, z, AfterLock

AfterLoad(p) ==
  LET z == maps[p][at[p].h] IN
  /\ z \in Zones /\ p \in alive /\ at[p].pc = "load" /\ at[p].h \in Addrs
  /\ at' \in [Procs -> Places] /\ \A q \in Procs \ {p} : at'[q] = at[q]
  /\ at'[p].pc = "store" /\ at'[p].h = at[p].h /\ at'[p].off = zone[z].off
  /\ UNCHANGED <<zone, made, link, alive, maps, fds, ptrs, given, clash, hurt,
                 guests, faults, twice>>

LEMMA AllocLoadShape ==
  ASSUME VmaInv, NEW p \in Procs, AllocLoad(p)
  PROVE  AfterLoad(p)
<1> DEFINE z == maps[p][at[p].h]
           r == [at[p] EXCEPT !.pc = "store", !.off = zone[z].off]
<1>1. p \in alive /\ at[p].pc = "load"
  BY DEF AllocLoad
<1>2. at[p].h \in Addrs /\ z \in Zones /\ at[p] \in Places
  BY <1>1, InOrder
<1>3. at \in [Procs -> Places] /\ zone[z].off \in Nat
  BY <1>2 DEF VmaInv, TypeOK, ZoneStates
<1> DEFINE n == zone[z].off
<1> HIDE DEF z
<1>4. r \in Places /\ r.pc = "store" /\ r.h = at[p].h /\ r.off = zone[z].off
  BY <1>2, <1>3, StorePlace, Zenon
<1>5. at' = [at EXCEPT ![p] = r]
  BY Zenon DEF AllocLoad, z
<1> HIDE DEF r
<1>6. at' \in [Procs -> Places] /\ at'[p] = r /\ \A q \in Procs \ {p} : at'[q] = at[q]
  BY <1>3, <1>4, <1>5
<1> QED
  BY <1>1, <1>2, <1>4, <1>6, Zenon DEF AllocLoad, pastVars, spaceVars, z, AfterLoad

AfterStore(p) ==
  LET z == maps[p][at[p].h]
      lo == at[p].off
      hi == lo + at[p].u
      fits == hi <= zone[z].cap IN
  /\ z \in Zones /\ p \in alive /\ at[p].pc = "store" /\ at[p].h \in Addrs
  /\ lo \in Nat /\ hi \in Nat
  /\ zone' \in [Zones -> ZoneStates] /\ \A y \in Zones \ {z} : zone'[y] = zone[y]
  /\ \E l \in Locks :
       /\ IsStored(zone'[z], zone[z], IF fits THEN hi ELSE zone[z].off, l)
       /\ l = "lost" => zone[z].lock = "lost" \/ zone[z].orphan
       /\ zone[z].lock # p => l = zone[z].lock
  /\ at' \in [Procs -> Places] /\ at'[p] = Idle /\ at'[p].pc = "idle"
  /\ \A q \in Procs \ {p} : at'[q] = at[q]
  /\ given' = IF fits THEN given \cup ({z} \X (lo .. lo + at[p].u - 1)) ELSE given
  /\ clash' = IF fits /\ ~(lo .. lo + at[p].u - 1 \subseteq Header .. Capacity[z] - 1
                           /\ given \cap ({z} \X (lo .. lo + at[p].u - 1)) = {})
              THEN clash \cup {z} ELSE clash
  /\ UNCHANGED <<made, link, alive, maps, fds, ptrs, hurt, guests, faults, twice>>

LEMMA AllocStoreShape ==
  ASSUME VmaInv, NEW p \in Procs, AllocStore(p)
  PROVE  AfterStore(p)
<1> DEFINE z == maps[p][at[p].h]
           hi == at[p].off + at[p].u
           l == Released(z, p)
           n == IF hi <= zone[z].cap THEN hi ELSE zone[z].off
           o == [zone[z] EXCEPT !.off = n, !.lock = l]
<1>1. p \in alive /\ at[p].pc = "store"
  BY Zenon DEF AllocStore
<1>2. at[p].h \in Addrs /\ z \in Zones /\ at[p] \in Places
  BY <1>1, InOrder
<1>3. /\ at \in [Procs -> Places] /\ zone \in [Zones -> ZoneStates]
      /\ zone[z] \in ZoneStates
  BY <1>2 DEF VmaInv, TypeOK
<1>4. at[p].off \in Nat /\ hi \in Nat
  <2>1. at[p].off \in Nat /\ at[p].u \in Nat
    BY <1>2, PlaceFields
  <2> QED
    BY <2>1
<1>5. /\ zone' = [zone EXCEPT ![z] = o] /\ at' = [at EXCEPT ![p] = Idle]
  BY Zenon DEF AllocStore, Room
<1>a. given' = IF hi <= zone[z].cap THEN given \cup ({z} \X (at[p].off .. at[p].off + at[p].u - 1)) ELSE given
  BY Zenon DEF AllocStore, Room
<1>b. clash' = IF hi <= zone[z].cap
                  /\ ~(at[p].off .. at[p].off + at[p].u - 1 \subseteq Header .. Capacity[z] - 1
                       /\ given \cap ({z} \X (at[p].off .. at[p].off + at[p].u - 1)) = {})
               THEN clash \cup {z} ELSE clash
  BY Zenon DEF AllocStore, Room
<1> HIDE DEF z, hi
<1>6. /\ l \in Locks
      /\ l = "lost" => zone[z].lock = "lost" \/ zone[z].orphan
      /\ zone[z].lock # p => l = zone[z].lock
  BY <1>3 DEF Released, ZoneStates, Locks
<1>7. n \in Nat
  BY <1>3, <1>4 DEF ZoneStates
<1> HIDE DEF l, n
<1>8. o \in ZoneStates /\ IsStored(o, zone[z], n, l)
  BY <1>3, <1>6, <1>7, ObjectShape, FieldShape, Zenon
<1> HIDE DEF o
<1>9. /\ zone' \in [Zones -> ZoneStates] /\ \A y \in Zones \ {z} : zone'[y] = zone[y]
      /\ zone'[z] = o
  BY <1>2, <1>3, <1>5, <1>8
<1>10. /\ at' \in [Procs -> Places] /\ at'[p] = Idle /\ at'[p].pc = "idle"
       /\ \A q \in Procs \ {p} : at'[q] = at[q]
  BY <1>3, <1>5, IdleShape
<1>11. \E k \in Locks :
         /\ IsStored(zone'[z], zone[z], IF hi <= zone[z].cap THEN hi ELSE zone[z].off, k)
         /\ k = "lost" => zone[z].lock = "lost" \/ zone[z].orphan
         /\ zone[z].lock # p => k = zone[z].lock
  BY <1>6, <1>8, <1>9 DEF n
<1> QED
  BY <1>1, <1>2, <1>4, <1>a, <1>b, <1>9, <1>10, <1>11, Zenon DEF AllocStore, pastVars, spaceVars, z, hi, AfterStore

AfterReset(p, h) ==
  LET z == maps[p][h] IN
  /\ z \in Zones /\ Ready(p) /\ h \in ptrs[p]
  /\ zone' \in [Zones -> ZoneStates] /\ \A y \in Zones \ {z} : zone'[y] = zone[y]
  /\ IsStored(zone'[z], zone[z], Header, zone[z].lock)
  /\ given' = {x \in given : x[1] # z}
  /\ hurt' = IF Users(z) # {} THEN hurt \cup {<<z, "raced">>} ELSE hurt
  /\ UNCHANGED <<made, link, alive, maps, fds, ptrs, at, clash, guests, faults, twice>>

LEMMA ResetShape ==
  ASSUME VmaInv, NEW p \in Procs, NEW h \in Addrs, Reset(p, h)
  PROVE  AfterReset(p, h)
<1> DEFINE z == maps[p][h]
           o == [zone[z] EXCEPT !.off = Header]
<1>1. z \in Zones /\ zone[z] \in ZoneStates
  BY UsedZone DEF Reset
<1>2. zone \in [Zones -> ZoneStates]
  BY DEF VmaInv, TypeOK
<1>3. zone' = [zone EXCEPT ![z] = o]
  BY DEF Reset
<1> HIDE DEF z
<1>4. o \in ZoneStates /\ IsStored(o, zone[z], Header, zone[z].lock)
  BY <1>1, ObjectShape, FieldShape, Zenon
<1> HIDE DEF o
<1>5. /\ zone' \in [Zones -> ZoneStates] /\ \A y \in Zones \ {z} : zone'[y] = zone[y]
      /\ zone'[z] = o
  BY <1>1, <1>2, <1>3, <1>4
<1> QED
  BY <1>1, <1>4, <1>5 DEF Reset, pastVars, spaceVars, z, o, AfterReset

(* What vma_free() and vma_destroy() leave of the process that calls them. *)
Releases(p, h) ==
  LET z == maps[p][h] IN
  /\ z \in Zones /\ Ready(p) /\ h \in ptrs[p]
  /\ maps' \in [Procs -> [Addrs -> Zones \cup {0}]]
  /\ fds' \in [Procs -> [Fds -> Zones \cup {0}]]
  /\ \A q \in Procs \ {p} : maps'[q] = maps[q] /\ fds'[q] = fds[q]
  /\ \A a \in Addrs : maps'[p][a] = IF a = zone[z].base THEN 0 ELSE maps[p][a]
  /\ \A f \in Fds : fds'[p][f] = IF f = zone[z].fd THEN 0 ELSE fds[p][f]
  /\ ptrs' \in [Procs -> SUBSET Addrs]
  /\ ptrs'[p] = ptrs[p] \ {h} /\ \A q \in Procs \ {p} : ptrs'[q] = ptrs[q]
  /\ UNCHANGED <<made, alive, at, given, clash, hurt, guests, faults>>

AfterFree(p, h) ==
  Releases(p, h) /\ UNCHANGED <<zone, link, twice>>

LEMMA ReleaseShape ==
  ASSUME TypeOK, NEW p \in Procs, NEW h \in Addrs, maps[p][h] \in Zones, Unmap(p, h),
         Ready(p), h \in ptrs[p], ptrs' = [ptrs EXCEPT ![p] = ptrs[p] \ {h}],
         UNCHANGED <<made, alive, at, given, clash, hurt, guests, faults>>
  PROVE  Releases(p, h)
<1>1. ptrs \in [Procs -> SUBSET Addrs]
  BY DEF TypeOK
<1>2. /\ ptrs' \in [Procs -> SUBSET Addrs]
      /\ ptrs'[p] = ptrs[p] \ {h} /\ \A q \in Procs \ {p} : ptrs'[q] = ptrs[q]
  BY <1>1
<1>3. LET z == maps[p][h] IN
      /\ maps' \in [Procs -> [Addrs -> Zones \cup {0}]]
      /\ fds' \in [Procs -> [Fds -> Zones \cup {0}]]
      /\ \A q \in Procs \ {p} : maps'[q] = maps[q] /\ fds'[q] = fds[q]
      /\ \A a \in Addrs : maps'[p][a] = IF a = zone[z].base THEN 0 ELSE maps[p][a]
      /\ \A f \in Fds : fds'[p][f] = IF f = zone[z].fd THEN 0 ELSE fds[p][f]
  BY UnmapShape, Zenon
<1> QED
  BY <1>2, <1>3, Zenon DEF Releases

LEMMA FreeShape ==
  ASSUME VmaInv, NEW p \in Procs, NEW h \in Addrs, Free(p, h)
  PROVE  AfterFree(p, h)
<1>1. TypeOK /\ maps[p][h] \in Zones
  BY UsedZone DEF VmaInv, Free
<1>2. /\ Ready(p) /\ h \in ptrs[p] /\ Unmap(p, h)
      /\ ptrs' = [ptrs EXCEPT ![p] = ptrs[p] \ {h}]
      /\ UNCHANGED <<zone, made, link, alive, at, given, clash, hurt, guests, faults, twice>>
  BY Zenon DEF Free, pastVars
<1>3. Releases(p, h)
  BY <1>1, <1>2, ReleaseShape
<1> QED
  BY <1>2, <1>3, Zenon DEF AfterFree

AfterDestroy(p, h) ==
  LET z == maps[p][h] IN
  /\ Releases(p, h)
  /\ zone' \in [Zones -> ZoneStates] /\ \A y \in Zones \ {z} : zone'[y] = zone[y]
  /\ zone[z].kind # "none"
  /\ \E k \in {zone[z].kind, "gone"} :
       IsTorn(zone'[z], zone[z], k)
  /\ link' = IF zone[z].master THEN 0 ELSE link
  /\ twice' = (twice \/ zone[z].torn)

LEMMA DestroyShape ==
  ASSUME VmaInv, NEW p \in Procs, NEW h \in Addrs, Destroy(p, h)
  PROVE  AfterDestroy(p, h)
<1> DEFINE z == maps[p][h]
           k == IF zone[z].kind = "plain" /\ zone[z].lock # "free" THEN zone[z].kind ELSE "gone"
           o == [zone[z] EXCEPT !.kind = k, !.torn = TRUE]
<1>1. TypeOK /\ zone \in [Zones -> ZoneStates]
  BY DEF VmaInv, TypeOK
<1>2. z \in Zones /\ zone[z] \in ZoneStates
  BY UsedZone DEF Destroy
<1>3. zone' = [zone EXCEPT ![z] = o]
  BY Zenon DEF Destroy
<1>4. /\ Ready(p) /\ h \in ptrs[p] /\ Unmap(p, h)
      /\ ptrs' = [ptrs EXCEPT ![p] = ptrs[p] \ {h}]
      /\ UNCHANGED <<made, alive, at, given, clash, hurt, guests, faults>>
  BY Zenon DEF Destroy
<1>5. Releases(p, h)
  BY <1>1, <1>2, <1>4, ReleaseShape
<1>6. /\ zone[z].kind # "none"
      /\ link' = IF zone[z].master THEN 0 ELSE link
      /\ twice' = (twice \/ zone[z].torn)
  BY DEF Destroy, Usable
<1> HIDE DEF z
<1>7. k \in {zone[z].kind, "gone"} /\ k \in {"none", "plain", "robust", "gone"}
  BY <1>2 DEF ZoneStates
<1> HIDE DEF k
<1>8. o \in ZoneStates /\ IsTorn(o, zone[z], k)
  BY <1>2, <1>7, ObjectShape, FieldShape, Zenon
<1> HIDE DEF o
<1>9. /\ zone' \in [Zones -> ZoneStates] /\ \A y \in Zones \ {z} : zone'[y] = zone[y]
      /\ zone'[z] = o
  BY <1>1, <1>2, <1>3, <1>8
<1> QED
  BY <1>5, <1>6, <1>7, <1>8, <1>9 DEF z, AfterDestroy

AfterFork(p, q) ==
  /\ Ready(p) /\ q \notin alive /\ q # p /\ at[q] = Idle
  /\ alive' = alive \cup {q}
  /\ maps' \in [Procs -> [Addrs -> Zones \cup {0}]]
  /\ fds' \in [Procs -> [Fds -> Zones \cup {0}]]
  /\ ptrs' \in [Procs -> SUBSET Addrs]
  /\ maps'[q] = maps[p] /\ fds'[q] = fds[p] /\ ptrs'[q] = ptrs[p]
  /\ \A r \in Procs \ {q} : maps'[r] = maps[r] /\ fds'[r] = fds[r] /\ ptrs'[r] = ptrs[r]
  /\ guests' = IF p \in guests THEN guests \cup {q} ELSE guests \ {q}
  /\ faults' = faults \ {q}
  /\ UNCHANGED <<zone, made, link, at, given, clash, hurt, twice>>

LEMMA ForkShape ==
  ASSUME VmaInv, NEW p \in Procs, NEW q \in Procs, Fork(p, q)
  PROVE  AfterFork(p, q)
<1>1. /\ maps \in [Procs -> [Addrs -> Zones \cup {0}]]
      /\ fds \in [Procs -> [Fds -> Zones \cup {0}]]
      /\ ptrs \in [Procs -> SUBSET Addrs]
  BY DEF VmaInv, TypeOK
<1>2. Ready(p) /\ q \notin alive /\ q # p /\ at[q] = Idle
  BY DEF Fork, Ready, VmaInv, CallsInOrder, CallInOrder
<1> QED
  BY <1>1, <1>2 DEF Fork, AfterFork

AfterGone(p) ==
  /\ alive' = alive \ {p}
  /\ maps' \in [Procs -> [Addrs -> Zones \cup {0}]]
  /\ fds' \in [Procs -> [Fds -> Zones \cup {0}]]
  /\ ptrs' \in [Procs -> SUBSET Addrs]
  /\ \A a \in Addrs : maps'[p][a] = 0
  /\ \A f \in Fds : fds'[p][f] = 0
  /\ \A q \in Procs \ {p} : maps'[q] = maps[q] /\ fds'[q] = fds[q] /\ ptrs'[q] = ptrs[q]
  /\ at' \in [Procs -> Places] /\ at'[p] = Idle /\ at'[p].pc = "idle"
  /\ \A q \in Procs \ {p} : at'[q] = at[q]
  /\ zone' \in [Zones -> ZoneStates]
  /\ \A z \in Zones : \/ zone'[z] = zone[z]
                      \/ /\ zone[z].lock = p
                         /\ IsOrphan(zone'[z], zone[z])
  /\ UNCHANGED <<made, link, given, clash, hurt, twice>>

LEMMA GoneShape ==
  ASSUME VmaInv, NEW p \in Procs, Gone(p)
  PROVE  AfterGone(p)
<1> DEFINE m == [a \in Addrs |-> 0]  d == [f \in Fds |-> 0]
<1>1. /\ maps \in [Procs -> [Addrs -> Zones \cup {0}]]
      /\ fds \in [Procs -> [Fds -> Zones \cup {0}]]
      /\ ptrs \in [Procs -> SUBSET Addrs] /\ at \in [Procs -> Places]
      /\ zone \in [Zones -> ZoneStates]
  BY DEF VmaInv, TypeOK
<1>2. /\ m \in [Addrs -> Zones \cup {0}] /\ d \in [Fds -> Zones \cup {0}]
      /\ (\A a \in Addrs : m[a] = 0) /\ (\A f \in Fds : d[f] = 0)
  OBVIOUS
<1>3. /\ maps' = [maps EXCEPT ![p] = m] /\ fds' = [fds EXCEPT ![p] = d]
      /\ ptrs' = [ptrs EXCEPT ![p] = {}] /\ at' = [at EXCEPT ![p] = Idle]
  BY Zenon DEF Gone
<1> HIDE DEF m, d
<1>4. /\ maps' \in [Procs -> [Addrs -> Zones \cup {0}]] /\ maps'[p] = m
      /\ fds' \in [Procs -> [Fds -> Zones \cup {0}]] /\ fds'[p] = d
      /\ \A q \in Procs \ {p} : maps'[q] = maps[q] /\ fds'[q] = fds[q]
  BY <1>1, <1>2, <1>3
<1>5. /\ ptrs' \in [Procs -> SUBSET Addrs]
      /\ \A q \in Procs \ {p} : ptrs'[q] = ptrs[q]
  BY <1>1, <1>3
<1>6. /\ at' \in [Procs -> Places] /\ at'[p] = Idle /\ at'[p].pc = "idle"
      /\ \A q \in Procs \ {p} : at'[q] = at[q]
  BY <1>1, <1>3, IdleShape
<1>7. \A z \in Zones :
        zone'[z] = IF zone[z].lock = p /\ zone[z].kind = "robust"
                   THEN [zone[z] EXCEPT !.lock = "free", !.orphan = TRUE] ELSE zone[z]
  BY Zenon DEF Gone
<1>8. ASSUME NEW z \in Zones PROVE zone[z] \in ZoneStates /\ zone'[z] \in ZoneStates
  <2>1. zone[z] \in ZoneStates
    BY <1>1
  <2>2. [zone[z] EXCEPT !.lock = "free", !.orphan = TRUE] \in ZoneStates
    BY <2>1, ObjectShape
  <2> QED
    BY <1>7, <2>1, <2>2, Zenon
<1>a. \A z \in Zones : zone'[z] # zone[z] => zone[z].lock = p /\ IsOrphan(zone'[z], zone[z])
  BY <1>7, <1>8, FieldShape, Zenon
<1>9. zone' \in [Zones -> ZoneStates]
  BY <1>8, Zenon DEF Gone
<1> QED
  BY <1>2, <1>4, <1>5, <1>6, <1>a, <1>9, Zenon DEF Gone, AfterGone

AfterDie(p) ==
  /\ AfterGone(p) /\ p \in alive /\ guests' = guests \ {p} /\ faults' = faults

LEMMA DieShape ==
  ASSUME VmaInv, NEW p \in Procs, Die(p)
  PROVE  AfterDie(p)
<1> QED
  BY GoneShape DEF Die, AfterDie

(* Who did not attach does not fault: the zone is where its base says.     *)
AfterFault(p) ==
  /\ AfterGone(p) /\ p \in alive
  /\ p \in guests /\ guests' = guests /\ faults' = faults \cup {p}

LEMMA FaultShape ==
  ASSUME VmaInv, NEW p \in Procs, NEW h \in Addrs, Fault(p, h)
  PROVE  AfterFault(p)
<1>1. /\ p \in alive /\ h \in ptrs[p] /\ Gone(p)
      /\ Usable(p, h) => maps[p][zone[maps[p][h]].base] = 0
      /\ guests' = guests /\ faults' = faults \cup {p}
  BY DEF Fault, Ready
<1>2. ASSUME p \notin guests PROVE FALSE
  <2>1. OwnerKnows(p)
    BY <1>1, <1>2 DEF VmaInv, OwnersKnow
  <2>2. maps[p][h] # 0 /\ zone[maps[p][h]].kind # "none" /\ zone[maps[p][h]].base = h
    BY <1>1, <2>1 DEF OwnerKnows
  <2> QED
    BY <1>1, <2>2 DEF Usable
<1> QED
  BY <1>1, <1>2, GoneShape DEF AfterFault

(* What a step of a process may do. *)
Effect(p) ==
  \/ AfterOpen(p)
  \/ \E a \in Addrs : AfterSize(p, a)
  \/ AfterFails(p)
  \/ AfterBounds(p)
  \/ \E s \in BOOLEAN : AfterReady(p, s)
  \/ \E a \in Addrs : AfterAttach(p, a)
  \/ \E h \in Addrs, u \in Sizes : AfterLock(p, h, u)
  \/ AfterLoad(p)
  \/ AfterStore(p)
  \/ \E h \in Addrs : AfterReset(p, h)
  \/ \E h \in Addrs : AfterFree(p, h)
  \/ \E h \in Addrs : AfterDestroy(p, h)
  \/ \E q \in Procs : AfterFork(p, q)
  \/ AfterDie(p)
  \/ AfterFault(p)

LEMMA StepEffect == ASSUME VmaInv, NEW p \in Procs, Step(p) PROVE Effect(p)
<1>1. CASE CreateOpen(p)
  BY <1>1, CreateOpenShape DEF Effect
<1>2. ASSUME NEW a \in Addrs, CreateSize(p, a) PROVE Effect(p)
  BY <1>2, CreateSizeShape DEF Effect
<1>3. CASE CreateFails(p)
  BY <1>3, CreateFailsShape DEF Effect
<1>4. CASE CreateBounds(p)
  BY <1>4, CreateBoundsShape DEF Effect
<1>5. ASSUME NEW s \in BOOLEAN, CreateReady(p, s) PROVE Effect(p)
  BY <1>5, CreateReadyShape DEF Effect
<1>6. ASSUME NEW a \in Addrs, Attach(p, a) PROVE Effect(p)
  BY <1>6, AttachShape DEF Effect
<1>7. ASSUME NEW h \in Addrs, NEW u \in Sizes, AllocLock(p, h, u) PROVE Effect(p)
  BY <1>7, AllocLockShape DEF Effect
<1>8. CASE AllocLoad(p)
  BY <1>8, AllocLoadShape DEF Effect
<1>9. CASE AllocStore(p)
  BY <1>9, AllocStoreShape DEF Effect
<1>10. ASSUME NEW h \in Addrs, Reset(p, h) PROVE Effect(p)
  BY <1>10, ResetShape DEF Effect
<1>11. ASSUME NEW h \in Addrs, Free(p, h) PROVE Effect(p)
  BY <1>11, FreeShape DEF Effect
<1>12. ASSUME NEW h \in Addrs, Destroy(p, h) PROVE Effect(p)
  BY <1>12, DestroyShape DEF Effect
<1>13. ASSUME NEW q \in Procs, Fork(p, q) PROVE Effect(p)
  BY <1>13, ForkShape DEF Effect
<1>14. CASE Die(p)
  BY <1>14, DieShape DEF Effect
<1>15. ASSUME NEW h \in Addrs, Fault(p, h) PROVE Effect(p)
  BY <1>15, FaultShape DEF Effect
<1> QED
  BY <1>1, <1>2, <1>3, <1>4, <1>5, <1>6, <1>7, <1>8, <1>9, <1>10, <1>11, <1>12, <1>13,
     <1>14, <1>15 DEF Step, Use

-----------------------------------------------------------------------------
(* Types.                                                                  *)

(* The offset of an object, which is within it or its header. *)
OffsetFits(o) == o.off <= o.cap \/ o.off <= Header

OffsetsFit == \A z \in Zones : OffsetFits(zone[z])

(* A step that changes one object. *)
LEMMA OneOffset ==
  ASSUME TypeOK, NEW z \in Zones, \A y \in Zones \ {z} : zone'[y] = zone[y],
         OffsetFits(zone'[z])
  PROVE  OffsetsFit'
<1>1. \A y \in Zones : OffsetFits(zone[y])
  BY DEF TypeOK, OffsetFits
<1>2. \A y \in Zones : OffsetFits(zone'[y])
  BY <1>1
<1> QED
  BY <1>2 DEF OffsetsFit, OffsetFits

(* The parts of the types that most steps leave alone. *)
SpaceTypes ==
  /\ maps \in [Procs -> [Addrs -> Zones \cup {0}]]
  /\ fds \in [Procs -> [Fds -> Zones \cup {0}]]
  /\ ptrs \in [Procs -> SUBSET Addrs]
  /\ at \in [Procs -> Places]

PastTypes ==
  /\ given \subseteq Zones \X Nat /\ clash \subseteq Zones
  /\ hurt \subseteq Zones \X {"raced", "unlocked"}
  /\ guests \subseteq Procs /\ faults \subseteq Procs /\ twice \in BOOLEAN

ZoneTypes ==
  /\ zone \in [Zones -> ZoneStates] /\ OffsetsFit
  /\ made \in Zones \cup {0} /\ link \in Zones \cup {0}
  /\ alive \subseteq Procs

LEMMA TypesNow == TypeOK => SpaceTypes /\ PastTypes /\ ZoneTypes
  BY DEF TypeOK, SpaceTypes, PastTypes, ZoneTypes, OffsetsFit, OffsetFits

LEMMA TypesNext == SpaceTypes' /\ PastTypes' /\ ZoneTypes' => TypeOK'
  BY DEF TypeOK, SpaceTypes, PastTypes, ZoneTypes, OffsetsFit, OffsetFits

LEMMA TypeEffect == ASSUME VmaInv, NEW p \in Procs, Effect(p) PROVE TypeOK'
<1>1. TypeOK /\ SpaceTypes /\ PastTypes /\ ZoneTypes
  BY TypesNow DEF VmaInv
<1>2. CASE AfterOpen(p)
  <2>1. SpaceTypes'
    BY <1>1, <1>2 DEF AfterOpen, SpaceTypes
  <2>2. PastTypes' /\ ZoneTypes'
    BY <1>1, <1>2 DEF AfterOpen, PastTypes, ZoneTypes, OffsetsFit, OffsetFits
  <2> QED
    BY <2>1, <2>2, TypesNext
<1>3. ASSUME NEW a \in Addrs, AfterSize(p, a) PROVE TypeOK'
  <2>1. PICK z \in Zones : IsSized(zone'[z], zone[z]) /\ (\A y \in Zones \ {z} : zone'[y] = zone[y])
    BY <1>3, Zenon DEF AfterSize
  <2>2. OffsetsFit'
    BY <1>1, <2>1, OneOffset DEF TypeOK, IsSized, SameUse, SameBounds, OffsetFits
  <2>3. SpaceTypes'
    BY <1>1, <1>3 DEF AfterSize, SpaceTypes
  <2>4. PastTypes' /\ ZoneTypes'
    BY <1>1, <1>3, <2>2 DEF AfterSize, PastTypes, ZoneTypes
  <2> QED
    BY <2>3, <2>4, TypesNext
<1>4. CASE AfterFails(p)
  <2>1. SpaceTypes'
    BY <1>1, <1>4 DEF AfterFails, SpaceTypes
  <2>2. PastTypes' /\ ZoneTypes'
    BY <1>1, <1>4 DEF AfterFails, PastTypes, ZoneTypes, OffsetsFit, OffsetFits
  <2> QED
    BY <2>1, <2>2, TypesNext
<1>5. CASE AfterBounds(p)
  <2>1. PICK z \in Zones :
          /\ z = Fresh(p) /\ (\A y \in Zones \ {z} : zone'[y] = zone[y])
          /\ zone'[z].off = zone[z].off /\ zone'[z].cap = Capacity[z]
    BY <1>5, Zenon DEF AfterBounds, IsBound, SameUse
  <2>2. zone[z].cap = 0
    <3>1. at[p].pc = "bounds" /\ Creating(p) /\ MakersInOrder
      BY <1>5 DEF AfterBounds, Creating, VmaInv
    <3> QED
      BY <2>1, <3>1 DEF MakersInOrder, MakerInOrder
  <2>3. OffsetsFit'
    <3>1. zone[z].off \in Nat /\ (zone[z].off <= 0 \/ zone[z].off <= Header) /\ Capacity[z] \in Nat
      BY <1>1, <2>1, <2>2 DEF TypeOK, ZoneStates, Zones
    <3>2. OffsetFits(zone'[z])
      BY <2>1, <3>1 DEF OffsetFits
    <3> QED
      BY <1>1, <2>1, <3>2, OneOffset
  <2>4. SpaceTypes'
    BY <1>1, <1>5 DEF AfterBounds, SpaceTypes
  <2>5. PastTypes' /\ ZoneTypes'
    BY <1>1, <1>5, <2>3, Zenon DEF AfterBounds, PastTypes, ZoneTypes
  <2> QED
    BY <2>4, <2>5, TypesNext
<1>6. ASSUME NEW s \in BOOLEAN, AfterReady(p, s) PROVE TypeOK'
  <2>1. PICK z \in Zones : (\A y \in Zones \ {z} : zone'[y] = zone[y]) /\ zone'[z].off = Header
    BY <1>6, Zenon DEF AfterReady, IsReady
  <2>2. OffsetsFit'
    BY <1>1, <2>1, OneOffset DEF OffsetFits
  <2>3. SpaceTypes'
    BY <1>1, <1>6 DEF AfterReady, SpaceTypes
  <2>4. PastTypes' /\ ZoneTypes'
    BY <1>1, <1>6, <2>2, Zenon DEF AfterReady, PastTypes, ZoneTypes
  <2> QED
    BY <2>3, <2>4, TypesNext
<1>7. ASSUME NEW a \in Addrs, AfterAttach(p, a) PROVE TypeOK'
  <2>1. SpaceTypes'
    BY <1>1, <1>7 DEF AfterAttach, SpaceTypes
  <2>2. PastTypes' /\ ZoneTypes'
    BY <1>1, <1>7 DEF AfterAttach, PastTypes, ZoneTypes, OffsetsFit, OffsetFits
  <2> QED
    BY <2>1, <2>2, TypesNext
<1>8. ASSUME NEW h \in Addrs, NEW u \in Sizes, AfterLock(p, h, u) PROVE TypeOK'
  <2>1. PICK z \in Zones :
          /\ (\A y \in Zones \ {z} : zone'[y] = zone[y])
          /\ zone'[z].off = zone[z].off /\ zone'[z].cap = zone[z].cap
          /\ hurt' \subseteq hurt \cup {<<z, "unlocked">>}
    BY <1>8 DEF AfterLock, HasLock, SameUse, SameBounds
  <2>2. OffsetsFit'
    BY <1>1, <2>1, OneOffset DEF OffsetFits, TypeOK
  <2>3. SpaceTypes'
    BY <1>1, <1>8 DEF AfterLock, SpaceTypes
  <2>4. hurt' \subseteq Zones \X {"raced", "unlocked"}
    BY <1>1, <2>1 DEF PastTypes
  <2>5. PastTypes' /\ ZoneTypes'
    BY <1>1, <1>8, <2>2, <2>4 DEF AfterLock, PastTypes, ZoneTypes
  <2> QED
    BY <2>3, <2>5, TypesNext
<1>9. CASE AfterLoad(p)
  <2>1. SpaceTypes'
    BY <1>1, <1>9 DEF AfterLoad, SpaceTypes
  <2>2. PastTypes' /\ ZoneTypes'
    BY <1>1, <1>9 DEF AfterLoad, PastTypes, ZoneTypes, OffsetsFit, OffsetFits
  <2> QED
    BY <2>1, <2>2, TypesNext
<1>10. CASE AfterStore(p)
  <2> DEFINE new == at[p].off .. at[p].off + at[p].u - 1
  <2>1. PICK z \in Zones :
          /\ (\A y \in Zones \ {z} : zone'[y] = zone[y])
          /\ zone'[z].cap = zone[z].cap
          /\ zone'[z].off <= zone[z].cap \/ zone'[z].off = zone[z].off
          /\ given' \subseteq given \cup ({z} \X new) /\ clash' \subseteq clash \cup {z}
    <3> DEFINE z == maps[p][at[p].h]
    <3>1. z \in Zones /\ (\A y \in Zones \ {z} : zone'[y] = zone[y])
      BY <1>10, Zenon DEF AfterStore
    <3>2. zone'[z].cap = zone[z].cap /\ (zone'[z].off <= zone[z].cap \/ zone'[z].off = zone[z].off)
      BY <1>10, Zenon DEF AfterStore, IsStored, SameBounds
    <3>3. given' \subseteq given \cup ({z} \X new) /\ clash' \subseteq clash \cup {z}
      BY <1>10, Zenon DEF AfterStore
    <3> QED
      BY <3>1, <3>2, <3>3, Zenon
  <2>2. OffsetsFit'
    BY <1>1, <2>1, OneOffset DEF OffsetFits, TypeOK
  <2>3. new \subseteq Nat
    <3>1. at[p].off \in Nat /\ at[p].u \in Nat
      BY <1>1, PlaceFields DEF SpaceTypes
    <3> QED
      BY <3>1
  <2> HIDE DEF new
  <2>4. given' \subseteq Zones \X Nat /\ clash' \subseteq Zones
    <3>1. given \subseteq Zones \X Nat /\ clash \subseteq Zones
      BY <1>1 DEF PastTypes
    <3>2. {z} \X new \subseteq Zones \X Nat
      BY <2>1, <2>3
    <3> QED
      BY <2>1, <3>1, <3>2
  <2>5. SpaceTypes'
    BY <1>1, <1>10, Zenon DEF AfterStore, SpaceTypes
  <2>6. PastTypes' /\ ZoneTypes'
    BY <1>1, <1>10, <2>2, <2>4, Zenon DEF AfterStore, PastTypes, ZoneTypes
  <2> QED
    BY <2>5, <2>6, TypesNext
<1>11. ASSUME NEW h \in Addrs, AfterReset(p, h) PROVE TypeOK'
  <2>1. PICK z \in Zones :
          /\ (\A y \in Zones \ {z} : zone'[y] = zone[y]) /\ zone'[z].off = Header
          /\ hurt' \subseteq hurt \cup {<<z, "raced">>} /\ given' \subseteq given
    BY <1>11 DEF AfterReset, IsStored
  <2>2. OffsetsFit'
    BY <1>1, <2>1, OneOffset DEF OffsetFits
  <2>3. hurt' \subseteq Zones \X {"raced", "unlocked"} /\ given' \subseteq Zones \X Nat
    BY <1>1, <2>1 DEF PastTypes
  <2>4. SpaceTypes'
    BY <1>1, <1>11 DEF AfterReset, SpaceTypes
  <2>5. PastTypes' /\ ZoneTypes'
    BY <1>1, <1>11, <2>2, <2>3 DEF AfterReset, PastTypes, ZoneTypes
  <2> QED
    BY <2>4, <2>5, TypesNext
<1>12. ASSUME NEW h \in Addrs, Releases(p, h) PROVE SpaceTypes'
  BY <1>1, <1>12 DEF Releases, SpaceTypes
<1>13. ASSUME NEW h \in Addrs, AfterFree(p, h) PROVE TypeOK'
  <2>1. SpaceTypes'
    BY <1>12, <1>13 DEF AfterFree
  <2>2. PastTypes' /\ ZoneTypes'
    BY <1>1, <1>13 DEF AfterFree, Releases, PastTypes, ZoneTypes, OffsetsFit, OffsetFits
  <2> QED
    BY <2>1, <2>2, TypesNext
<1>14. ASSUME NEW h \in Addrs, AfterDestroy(p, h) PROVE TypeOK'
  <2>1. PICK z \in Zones :
          /\ (\A y \in Zones \ {z} : zone'[y] = zone[y])
          /\ zone'[z].off = zone[z].off /\ zone'[z].cap = zone[z].cap
          /\ twice' = (twice \/ zone[z].torn)
    BY <1>14, Zenon DEF AfterDestroy, IsTorn, SameBounds, Releases
  <2>2. OffsetsFit'
    BY <1>1, <2>1, OneOffset, Zenon DEF OffsetFits, TypeOK
  <2>3. SpaceTypes'
    BY <1>12, <1>14, Zenon DEF AfterDestroy
  <2>4. twice' \in BOOLEAN
    BY <2>1
  <2>5. PastTypes' /\ ZoneTypes'
    BY <1>1, <1>14, <2>2, <2>4 DEF AfterDestroy, Releases, PastTypes, ZoneTypes
  <2> QED
    BY <2>3, <2>5, TypesNext
<1>15. ASSUME NEW q \in Procs, AfterFork(p, q) PROVE TypeOK'
  <2>1. SpaceTypes'
    BY <1>1, <1>15 DEF AfterFork, SpaceTypes
  <2>2. PastTypes' /\ ZoneTypes'
    BY <1>1, <1>15 DEF AfterFork, PastTypes, ZoneTypes, OffsetsFit, OffsetFits
  <2> QED
    BY <2>1, <2>2, TypesNext
<1>16. ASSUME AfterGone(p), guests' \subseteq Procs, faults' \subseteq Procs PROVE TypeOK'
  <2>1. \A z \in Zones : zone'[z].off = zone[z].off /\ zone'[z].cap = zone[z].cap
    BY <1>16 DEF AfterGone, IsOrphan, SameUse, SameBounds
  <2>2. SpaceTypes'
    BY <1>1, <1>16 DEF AfterGone, SpaceTypes
  <2>3. OffsetsFit'
    BY <1>1, <2>1 DEF ZoneTypes, OffsetsFit, OffsetFits
  <2>4. PastTypes' /\ ZoneTypes'
    BY <1>1, <1>16, <2>3 DEF AfterGone, PastTypes, ZoneTypes
  <2> QED
    BY <2>2, <2>4, TypesNext
<1>17. CASE AfterDie(p)
  BY <1>1, <1>16, <1>17 DEF AfterDie, PastTypes
<1>18. CASE AfterFault(p)
  BY <1>1, <1>16, <1>18 DEF AfterFault, PastTypes
<1> QED
  BY <1>2, <1>3, <1>4, <1>5, <1>6, <1>7, <1>8, <1>9, <1>10, <1>11, <1>13, <1>14,
     <1>15, <1>17, <1>18 DEF Effect

-----------------------------------------------------------------------------
(* Calls.                                                                  *)

(* A process that a step leaves alone. *)
LEMMA CallKept ==
  ASSUME TypeOK, made' \in Nat, made <= made', NEW q \in Procs, CallInOrder(q),
         at'[q] = at[q], maps'[q] = maps[q], fds'[q] = fds[q], ptrs'[q] = ptrs[q],
         q \in alive' \/ q \notin alive \/ at[q] = Idle
  PROVE  CallInOrder(q)'
<1>1. /\ maps[q] \in [Addrs -> Nat] /\ fds[q] \in [Fds -> Nat] /\ made \in Nat
  BY DEF TypeOK, Zones
<1>2. ASSUME NEW a \in Addrs PROVE maps'[q][a] <= made'
  <2>1. maps[q][a] <= made /\ maps[q][a] \in Nat
    BY <1>1, Zenon DEF CallInOrder
  <2> QED
    BY <1>1, <2>1
<1>3. ASSUME NEW f \in Fds PROVE fds'[q][f] <= made'
  <2>1. fds[q][f] <= made /\ fds[q][f] \in Nat
    BY <1>1, Zenon DEF CallInOrder
  <2> QED
    BY <1>1, <2>1
<1> QED
  BY <1>2, <1>3, Zenon DEF CallInOrder, InCall

LEMMA CallEffect ==
  ASSUME VmaInv, NEW p \in Procs, Effect(p)
  PROVE  \A q \in Procs : CallInOrder(q)'
<1> DEFINE Others == \A q \in Procs \ {p} : CallInOrder(q)'
<1>1. /\ TypeOK /\ made \in Nat /\ link \in Nat /\ CallInOrder(p) /\ \A q \in Procs : CallInOrder(q)
      /\ maps[p] \in [Addrs -> Nat] /\ fds[p] \in [Fds -> Nat]
  BY DEF VmaInv, TypeOK, Zones, CallsInOrder
<1>2. ASSUME made' \in Nat, made <= made', \A q \in alive : q \in alive' \/ q = p,
             \A q \in Procs \ {p} : at'[q] = at[q] /\ maps'[q] = maps[q]
                                    /\ fds'[q] = fds[q] /\ ptrs'[q] = ptrs[q]
      PROVE  Others
  BY <1>1, <1>2, CallKept
<1>3. ASSUME CallInOrder(p)', Others PROVE \A q \in Procs : CallInOrder(q)'
  BY <1>3
<1> HIDE DEF Others
<1>4. CASE AfterOpen(p)
  <2>1. Others
    BY <1>1, <1>2, <1>4 DEF AfterOpen
  <2>2. /\ p \in alive' /\ at'[p].pc = "size" /\ made' = made + 1
        /\ \A a \in Addrs : maps'[p][a] <= made /\ maps'[p][a] \in Nat
    BY <1>1, <1>4 DEF AfterOpen, CallInOrder, Ready
  <2>3. \A f \in Fds : fds'[p][f] <= made'
    <3>1. PICK f \in Fds : \A g \in Fds : fds'[p][g] = IF g = f THEN made + 1 ELSE fds[p][g]
      BY <1>4 DEF AfterOpen
    <3>2. \A g \in Fds : fds[p][g] <= made /\ fds[p][g] \in Nat
      BY <1>1 DEF CallInOrder
    <3> QED
      BY <1>1, <2>2, <3>1, <3>2
  <2>4. CallInOrder(p)'
    BY <1>1, <2>2, <2>3 DEF CallInOrder, InCall
  <2> QED
    BY <1>3, <2>1, <2>4
<1>5. ASSUME NEW a \in Addrs, AfterSize(p, a) PROVE \A q \in Procs : CallInOrder(q)'
  <2>1. Others
    BY <1>1, <1>2, <1>5 DEF AfterSize
  <2>2. at[p].off \in 1 .. made /\ at[p].off \in Nat
    <3>1. Creating(p) /\ MakersInOrder /\ at[p].off = Fresh(p)
      BY <1>5 DEF AfterSize, VmaInv, Creating
    <3> QED
      BY <3>1 DEF MakersInOrder, MakerInOrder
  <2>3. CallInOrder(p)'
    BY <1>1, <1>5, <2>2 DEF AfterSize, CallInOrder, InCall
  <2> QED
    BY <1>3, <2>1, <2>3
<1>6. CASE AfterFails(p)
  <2>1. Others
    BY <1>1, <1>2, <1>6 DEF AfterFails
  <2>2. CallInOrder(p)'
    BY <1>1, <1>6 DEF AfterFails, CallInOrder, InCall
  <2> QED
    BY <1>3, <2>1, <2>2
<1>7. CASE AfterBounds(p)
  <2>1. Others
    BY <1>1, <1>2, <1>7 DEF AfterBounds
  <2>2. CallInOrder(p)'
    <3>1. /\ p \in alive' /\ made' = made /\ maps' = maps /\ fds' = fds
          /\ at'[p].pc = "offset" /\ at'[p].h = at[p].h /\ at[p].pc = "bounds"
      BY <1>7 DEF AfterBounds
    <3> QED
      BY <1>1, <3>1, Zenon DEF CallInOrder, InCall
  <2> QED
    BY <1>3, <2>1, <2>2
<1>8. ASSUME NEW s \in BOOLEAN, AfterReady(p, s) PROVE \A q \in Procs : CallInOrder(q)'
  <2>1. Others
    <3>1. /\ made' = made /\ alive' = alive /\ maps' = maps /\ fds' = fds
          /\ \A q \in Procs \ {p} : at'[q] = at[q] /\ ptrs'[q] = ptrs[q]
      BY <1>8, Zenon DEF AfterReady
    <3> QED
      BY <1>1, <1>2, <3>1
  <2>2. CallInOrder(p)'
    <3>1. /\ p \in alive' /\ at'[p].pc = "idle" /\ made' = made /\ maps' = maps
          /\ fds' = fds
      BY <1>8 DEF AfterReady
    <3> QED
      BY <1>1, <3>1, Zenon DEF CallInOrder, InCall
  <2> QED
    BY <1>3, <2>1, <2>2
<1>9. ASSUME NEW a \in Addrs, AfterAttach(p, a) PROVE \A q \in Procs : CallInOrder(q)'
  <2>1. Others
    BY <1>1, <1>2, <1>9 DEF AfterAttach
  <2>2. CallInOrder(p)'
    <3>1. /\ p \in alive' /\ at'[p].pc = "idle" /\ made' = made /\ link <= made
          /\ \A b \in Addrs : maps'[p][b] \in {link, maps[p][b]}
          /\ \A f \in Fds : fds'[p][f] \in {link, fds[p][f]}
      BY <1>9, IdleShape DEF AfterAttach, VmaInv, CallsInOrder, Ready
    <3>2. ASSUME NEW b \in Addrs PROVE maps'[p][b] <= made
      BY <1>1, <3>1, Zenon DEF CallInOrder
    <3>3. ASSUME NEW f \in Fds PROVE fds'[p][f] <= made
      BY <1>1, <3>1, Zenon DEF CallInOrder
    <3> QED
      BY <3>1, <3>2, <3>3, Zenon DEF CallInOrder, InCall
  <2> QED
    BY <1>3, <2>1, <2>2
<1>10. ASSUME NEW h \in Addrs, NEW u \in Sizes, AfterLock(p, h, u)
       PROVE  \A q \in Procs : CallInOrder(q)'
  <2>1. Others
    BY <1>1, <1>2, <1>10 DEF AfterLock
  <2>2. CallInOrder(p)'
    BY <1>1, <1>10 DEF AfterLock, CallInOrder, InCall, Ready, Zones
  <2> QED
    BY <1>3, <2>1, <2>2
<1>11. CASE AfterLoad(p)
  <2>1. Others
    BY <1>1, <1>2, <1>11 DEF AfterLoad
  <2>2. CallInOrder(p)'
    BY <1>1, <1>11 DEF AfterLoad, CallInOrder, InCall, Zones
  <2> QED
    BY <1>3, <2>1, <2>2
<1>12. CASE AfterStore(p)
  <2>1. Others
    <3>1. /\ UNCHANGED <<made, alive, maps, fds, ptrs>>
          /\ \A q \in Procs \ {p} : at'[q] = at[q]
      BY <1>12, Zenon DEF AfterStore
    <3> QED
      BY <1>1, <1>2, <3>1
  <2>2. CallInOrder(p)'
    <3>1. p \in alive' /\ at'[p].pc = "idle" /\ made' = made /\ maps' = maps /\ fds' = fds
      BY <1>12, Zenon DEF AfterStore
    <3> QED
      BY <1>1, <3>1, Zenon DEF CallInOrder, InCall
  <2> QED
    BY <1>3, <2>1, <2>2
<1>13. ASSUME NEW h \in Addrs, AfterReset(p, h) PROVE \A q \in Procs : CallInOrder(q)'
  BY <1>1, <1>13 DEF AfterReset, CallInOrder, InCall
<1>14. ASSUME NEW h \in Addrs, Releases(p, h) PROVE \A q \in Procs : CallInOrder(q)'
  <2>1. Others
    BY <1>1, <1>2, <1>14 DEF Releases
  <2>2. CallInOrder(p)'
    <3>1. p \in alive' /\ at'[p].pc = "idle" /\ made' = made
      BY <1>14, IdleShape DEF Releases, Ready
    <3>2. \A a \in Addrs : maps'[p][a] \in {0, maps[p][a]}
      BY <1>14 DEF Releases
    <3>3. \A f \in Fds : fds'[p][f] \in {0, fds[p][f]}
      BY <1>14 DEF Releases
    <3>4. ASSUME NEW a \in Addrs PROVE maps'[p][a] <= made
      <4>1. maps[p][a] <= made /\ maps'[p][a] \in {0, maps[p][a]}
        BY <1>1, <3>2, Zenon DEF CallInOrder
      <4>2. 0 <= made
        BY <1>1
      <4> QED
        BY <4>1, <4>2
    <3>5. ASSUME NEW f \in Fds PROVE fds'[p][f] <= made
      <4>1. fds[p][f] <= made /\ fds'[p][f] \in {0, fds[p][f]}
        BY <1>1, <3>3, Zenon DEF CallInOrder
      <4>2. 0 <= made
        BY <1>1
      <4> QED
        BY <4>1, <4>2
    <3> QED
      BY <3>1, <3>4, <3>5, Zenon DEF CallInOrder, InCall
  <2> QED
    BY <1>3, <2>1, <2>2
<1>15. ASSUME NEW q \in Procs, AfterFork(p, q) PROVE \A r \in Procs : CallInOrder(r)'
  <2>1. \A r \in Procs \ {q} : CallInOrder(r)'
    BY <1>1, <1>15, CallKept DEF AfterFork
  <2>2. CallInOrder(q)'
    BY <1>1, <1>15, IdleShape DEF AfterFork, CallInOrder, InCall
  <2> QED
    BY <2>1, <2>2
<1>16. CASE AfterGone(p)
  <2>1. Others
    BY <1>1, <1>2, <1>16 DEF AfterGone
  <2>2. CallInOrder(p)'
    BY <1>1, <1>16 DEF AfterGone, CallInOrder, InCall
  <2> QED
    BY <1>3, <2>1, <2>2
<1> QED
  BY <1>4, <1>5, <1>6, <1>7, <1>8, <1>9, <1>10, <1>11, <1>12, <1>13, <1>14, <1>15, <1>16, Zenon
  DEF Effect, AfterFree, AfterDestroy, AfterDie, AfterFault

(* Objects are made by opening, and lose the name to whoever unlinks it.   *)
LEMMA NameEffect ==
  ASSUME NEW p \in Procs, Effect(p), ~AfterOpen(p)
  PROVE  made' = made /\ link' \in {0, link}
<1>1. AfterFails(p) => made' = made /\ link' \in {0, link}
  BY DEF AfterFails
<1>2. \A h \in Addrs : AfterDestroy(p, h) => made' = made /\ link' \in {0, link}
  BY DEF AfterDestroy, Releases
<1>3. CASE \/ \E a \in Addrs : AfterSize(p, a) \/ AfterAttach(p, a)
           \/ AfterBounds(p)
           \/ \E s \in BOOLEAN : AfterReady(p, s)
  BY <1>3 DEF AfterSize, AfterAttach, AfterBounds, AfterReady
<1>4. CASE \/ \E h \in Addrs, u \in Sizes : AfterLock(p, h, u)
           \/ AfterLoad(p)
           \/ AfterStore(p)
           \/ \E h \in Addrs : AfterReset(p, h) \/ AfterFree(p, h)
  BY <1>4, Zenon DEF AfterLock, AfterLoad, AfterStore, AfterReset, AfterFree, Releases
<1>5. CASE (\E q \in Procs : AfterFork(p, q)) \/ AfterDie(p) \/ AfterFault(p)
  BY <1>5 DEF AfterFork, AfterDie, AfterFault, AfterGone
<1> QED
  BY <1>1, <1>2, <1>3, <1>4, <1>5 DEF Effect

(* The dead are those that left, unless a parent takes their place.        *)
LEMMA FaultsEffect ==
  ASSUME NEW p \in Procs, Effect(p), faults \cap alive = {}
  PROVE  faults' \cap alive' = {}
<1>1. CASE \/ AfterOpen(p) \/ AfterFails(p) \/ AfterBounds(p)
           \/ \E a \in Addrs : AfterSize(p, a) \/ AfterAttach(p, a)
           \/ \E s \in BOOLEAN : AfterReady(p, s)
  BY <1>1, Zenon DEF AfterOpen, AfterFails, AfterBounds, AfterSize, AfterAttach, AfterReady
<1>2. CASE \/ \E h \in Addrs, u \in Sizes : AfterLock(p, h, u)
           \/ AfterLoad(p)
           \/ AfterStore(p)
           \/ \E h \in Addrs : AfterReset(p, h) \/ AfterFree(p, h) \/ AfterDestroy(p, h)
  BY <1>2, Zenon DEF AfterLock, AfterLoad, AfterStore, AfterReset, AfterFree, AfterDestroy, Releases
<1>3. CASE (\E q \in Procs : AfterFork(p, q)) \/ AfterDie(p) \/ AfterFault(p)
  BY <1>3 DEF AfterFork, AfterDie, AfterFault, AfterGone
<1> QED
  BY <1>1, <1>2, <1>3 DEF Effect

(* A step changes nothing of an object but the one the process is making,  *)
(* one that it has mapped, or one whose mutex it dies with.                *)
LEMMA ObjectKept ==
  ASSUME NEW p \in Procs, Effect(p), NEW z \in Zones, zone[z].lock # p,
         \A a \in Addrs : maps[p][a] # z, Creating(p) => Fresh(p) # z
  PROVE  zone'[z] = zone[z]
<1>1. CASE \/ AfterOpen(p) \/ AfterFails(p) \/ AfterBounds(p)
           \/ \E a \in Addrs : AfterSize(p, a) \/ AfterAttach(p, a)
           \/ \E s \in BOOLEAN : AfterReady(p, s)
  BY <1>1, Zenon DEF AfterOpen, AfterFails, AfterBounds, AfterSize, AfterAttach, AfterReady, Creating
<1>2. CASE \/ \E h \in Addrs, u \in Sizes : AfterLock(p, h, u)
           \/ AfterLoad(p)
           \/ AfterStore(p)
           \/ \E h \in Addrs : AfterReset(p, h) \/ AfterFree(p, h) \/ AfterDestroy(p, h)
  BY <1>2, Zenon DEF AfterLock, AfterLoad, AfterStore, AfterReset, AfterFree, AfterDestroy, Releases
<1>3. CASE (\E q \in Procs : AfterFork(p, q)) \/ AfterDie(p) \/ AfterFault(p)
  BY <1>3 DEF AfterFork, AfterDie, AfterFault, AfterGone
<1> QED
  BY <1>1, <1>2, <1>3, Zenon DEF Effect

LEMMA CallsEffect ==
  ASSUME VmaInv, NEW p \in Procs, Effect(p), TypeOK'
  PROVE  CallsInOrder'
<1>1. /\ made \in Nat /\ link \in Nat /\ link <= made /\ faults \cap alive = {}
      /\ \A z \in Zones : z > made => zone[z] = Blank
      /\ \A q \in Procs : CallInOrder(q)
      /\ maps[p] \in [Addrs -> Nat]
  BY DEF VmaInv, TypeOK, Zones, CallsInOrder
<1>2. /\ link' <= made' /\ made <= made' /\ made' \in Nat
  <2>1. CASE AfterOpen(p)
    BY <1>1, <2>1 DEF AfterOpen
  <2>2. CASE ~AfterOpen(p)
    BY <1>1, <2>2, NameEffect
  <2> QED
    BY <2>1, <2>2
<1>3. ASSUME NEW z \in Zones, z > made' PROVE zone'[z] = Blank
  <2>1. z > made /\ z \in Nat /\ zone[z] = Blank /\ zone[z].lock = "free"
    BY <1>1, <1>2, <1>3 DEF Blank, Zones
  <2>2. \A a \in Addrs : maps[p][a] # z
    <3> SUFFICES ASSUME NEW a \in Addrs PROVE maps[p][a] # z
      OBVIOUS
    <3>1. maps[p][a] <= made /\ maps[p][a] \in Nat
      BY <1>1, Zenon DEF CallInOrder
    <3> QED
      BY <1>1, <2>1, <3>1
  <2>3. Creating(p) => Fresh(p) # z
    <3>1. Creating(p) => Fresh(p) \in 1 .. made
      BY DEF VmaInv, MakersInOrder, MakerInOrder
    <3> QED
      BY <1>1, <2>1, <3>1
  <2> QED
    BY <2>1, <2>2, <2>3, ObjectKept
<1> QED
  BY <1>1, <1>2, <1>3, FaultsEffect, CallEffect DEF CallsInOrder

-----------------------------------------------------------------------------
(* Makers.                                                                 *)

(* What the maker of an object relies on. *)
KeepsObject(r, o) ==
  /\ SameBounds(r, o) /\ r.master = o.master
  /\ o.kind # "none" => r.kind # "none"

LEMMA MakerKept ==
  ASSUME TypeOK, made' \in Nat, made <= made', NEW c \in Procs, Creating(c), MakerInOrder(c),
         at'[c] = at[c], maps'[c] = maps[c], fds'[c] = fds[c],
         KeepsObject(zone'[Fresh(c)], zone[Fresh(c)]),
         \A q \in Procs \ {c} : Creating(q)' => Fresh(q)' # Fresh(c),
         \A q \in alive' \ guests' : q # c => Ignorant(q, Fresh(c))'
  PROVE  MakerInOrder(c)'
<1>1. Fresh(c)' = Fresh(c)
  BY DEF Fresh
<1>2. Fresh(c) \in 1 .. made'
  BY DEF MakerInOrder, TypeOK, Zones
<1> DEFINE z == Fresh(c)
<1>3. /\ ~zone'[z].master
      /\ at'[c].pc # "size" => zone'[z].kind # "none"
      /\ at'[c].pc # "offset" => zone'[z].cap = 0
      /\ at'[c].pc = "offset" =>
           /\ zone'[z].base = at'[c].h /\ zone'[z].cap = Capacity[z]
           /\ zone'[z].fd \in Fds /\ fds'[c][zone'[z].fd] = z
  BY DEF MakerInOrder, KeepsObject, SameBounds
<1>4. /\ \E f \in Fds : \A g \in Fds : fds'[c][g] = z <=> g = f
      /\ \A a \in Addrs : maps'[c][a] = z <=> at'[c].pc # "size" /\ a = at'[c].h
  <2>1. /\ \E f \in Fds : \A g \in Fds : fds[c][g] = z <=> g = f
        /\ \A a \in Addrs : maps[c][a] = z <=> at[c].pc # "size" /\ a = at[c].h
    BY Zenon DEF MakerInOrder
  <2> QED
    BY <2>1, Zenon
<1> QED
  BY <1>1, <1>2, <1>3, <1>4 DEF MakerInOrder, Ignorant

(* What a process has, another one had that is not making anything, or it  *)
(* had it itself.                                                          *)
Inherits(q) ==
  \E r \in alive \ guests :
    /\ r = q \/ ~Creating(r)
    /\ \A a \in Addrs : maps'[q][a] = 0 \/ maps'[q][a] = maps[r][a]
    /\ \A f \in Fds : fds'[q][f] = 0 \/ fds'[q][f] = fds[r][f]

(* A step that leaves the makers alone, but for one that is done.          *)
LEMMA MakersKept ==
  ASSUME TypeOK, MakersInOrder, made' = made, NEW p \in Procs,
         ~Creating(p)',
         \A c \in Procs \ {p} : Creating(c)' =>
           at'[c] = at[c] /\ maps'[c] = maps[c] /\ fds'[c] = fds[c],
         \A c \in Procs \ {p} : Creating(c) => KeepsObject(zone'[Fresh(c)], zone[Fresh(c)]),
         \A q \in alive' \ guests' : Inherits(q)
  PROVE  MakersInOrder'
<1> SUFFICES ASSUME NEW c \in Procs, Creating(c)' PROVE MakerInOrder(c)'
  BY DEF MakersInOrder
<1>1. c # p /\ at'[c] = at[c] /\ maps'[c] = maps[c] /\ fds'[c] = fds[c] /\ made \in Nat
  BY DEF TypeOK, Zones
<1>2. Creating(c) /\ MakerInOrder(c) /\ KeepsObject(zone'[Fresh(c)], zone[Fresh(c)])
  BY <1>1 DEF Creating, MakersInOrder
<1>3. ASSUME NEW q \in Procs \ {c}, Creating(q)' PROVE Fresh(q)' # Fresh(c)
  <2>1. q # p /\ at'[q] = at[q] /\ maps'[q] = maps[q]
    BY <1>3
  <2>2. Fresh(q)' = Fresh(q) /\ Creating(q)
    BY <1>3, <2>1 DEF Fresh, Creating
  <2> QED
    BY <1>2, <2>2 DEF MakerInOrder
<1>4. ASSUME NEW q \in alive' \ guests', q # c PROVE Ignorant(q, Fresh(c))'
  <2>1. PICK r \in alive \ guests :
          /\ r = q \/ ~Creating(r)
          /\ \A a \in Addrs : maps'[q][a] = 0 \/ maps'[q][a] = maps[r][a]
          /\ \A f \in Fds : fds'[q][f] = 0 \/ fds'[q][f] = fds[r][f]
    BY <1>4 DEF Inherits
  <2>2. r # c /\ Ignorant(r, Fresh(c)) /\ Fresh(c) # 0
    BY <1>2, <1>4, <2>1 DEF MakerInOrder
  <2>3. Fresh(c)' = Fresh(c)
    BY <1>1 DEF Fresh
  <2> QED
    BY <2>1, <2>2, <2>3 DEF Ignorant
<1> QED
  BY <1>1, <1>2, <1>3, <1>4, MakerKept

(* As that of a step which opens and maps nothing. *)
LEMMA ShrinkInherits ==
  ASSUME alive' \ guests' \subseteq alive \ guests,
         \A q \in alive : \A a \in Addrs : maps'[q][a] = 0 \/ maps'[q][a] = maps[q][a],
         \A q \in alive : \A f \in Fds : fds'[q][f] = 0 \/ fds'[q][f] = fds[q][f]
  PROVE  \A q \in alive' \ guests' : Inherits(q)
  BY DEF Inherits

LEMMA SameObject == ASSUME NEW o PROVE KeepsObject(o, o)
  BY DEF KeepsObject, SameBounds

(* The object of another maker is not what a step works on. *)
LEMMA OthersObject ==
  ASSUME VmaInv, NEW p \in Procs, Creating(p), NEW c \in Procs \ {p}, Creating(c)
  PROVE  Fresh(c) # Fresh(p) /\ Fresh(c) \in Zones /\ Fresh(p) \in Zones
<1>1. MakerInOrder(p) /\ Fresh(c) \in Zones /\ Fresh(p) \in Zones
  BY InOrder DEF VmaInv, MakersInOrder
<1> QED
  BY <1>1 DEF MakerInOrder

(* The maker goes on with its object. *)
LEMMA MakerGoesOn ==
  ASSUME VmaInv, NEW p \in Procs, Creating(p), made' = made, guests' = guests, alive' = alive,
         \A c \in Procs \ {p} : at'[c] = at[c] /\ maps'[c] = maps[c] /\ fds'[c] = fds[c],
         \A y \in Zones \ {Fresh(p)} : zone'[y] = zone[y],
         Fresh(p)' = Fresh(p), Creating(p)',
         \A a \in Addrs : maps'[p][a] \in {maps[p][a], Fresh(p)},
         fds'[p] = fds[p]
  PROVE  \A c \in Procs \ {p} : Creating(c)' => MakerInOrder(c)'
<1> SUFFICES ASSUME NEW c \in Procs \ {p}, Creating(c)' PROVE MakerInOrder(c)'
  OBVIOUS
<1>1. TypeOK /\ MakersInOrder /\ made \in Nat /\ at'[c] = at[c] /\ maps'[c] = maps[c] /\ fds'[c] = fds[c]
  BY DEF VmaInv, TypeOK, Zones
<1>2. Creating(c) /\ MakerInOrder(c) /\ MakerInOrder(p) /\ Fresh(c)' = Fresh(c)
  BY <1>1 DEF Creating, Fresh, MakersInOrder
<1>3. Fresh(c) # Fresh(p) /\ zone'[Fresh(c)] = zone[Fresh(c)]
  BY <1>2, OthersObject
<1>4. ASSUME NEW q \in Procs \ {c}, Creating(q)' PROVE Fresh(q)' # Fresh(c)
  <2>1. CASE q = p
    BY <1>3, <2>1
  <2>2. CASE q # p
    <3>1. Creating(q) /\ Fresh(q)' = Fresh(q)
      BY <1>4, <2>2 DEF Creating, Fresh
    <3> QED
      BY <1>2, <3>1 DEF MakerInOrder
  <2> QED
    BY <2>1, <2>2
<1>5. ASSUME NEW q \in alive' \ guests', q # c PROVE Ignorant(q, Fresh(c))'
  <2>1. q \in alive \ guests /\ Ignorant(q, Fresh(c)) /\ q \in Procs
    BY <1>1, <1>2, <1>5 DEF MakerInOrder, TypeOK
  <2>2. /\ \A a \in Addrs : maps'[q][a] # Fresh(c)
        /\ \A f \in Fds : fds'[q][f] # Fresh(c)
    BY <1>3, <2>1 DEF Ignorant
  <2> QED
    BY <1>2, <2>2 DEF Ignorant
<1> QED
  BY <1>1, <1>2, <1>3, <1>4, <1>5, SameObject, MakerKept

LEMMA MakerFields ==
  ASSUME NEW p \in Procs, NEW z \in 1 .. made', Fresh(p)' = z,
         ~zone'[z].master,
         \E f \in Fds : \A g \in Fds : fds'[p][g] = z <=> g = f,
         \A a \in Addrs : maps'[p][a] = z <=> at'[p].pc # "size" /\ a = at'[p].h,
         at'[p].pc # "size" => zone'[z].kind # "none",
         at'[p].pc # "offset" => zone'[z].cap = 0,
         at'[p].pc = "offset" =>
           /\ zone'[z].base = at'[p].h /\ zone'[z].cap = Capacity[z]
           /\ zone'[z].fd \in Fds /\ fds'[p][zone'[z].fd] = z,
         \A q \in Procs \ {p} : Creating(q)' => Fresh(q)' # z,
         \A q \in alive' \ guests' : q # p => Ignorant(q, z)'
  PROVE  MakerInOrder(p)'
  BY DEF MakerInOrder, Ignorant

LEMMA MakersOpen ==
  ASSUME VmaInv, NEW p \in Procs, AfterOpen(p)
  PROVE  MakersInOrder'
<1>1. PICK n \in Zones :
      /\ n = made + 1 /\ TypeOK /\ made \in Nat /\ CallsInOrder /\ MakersInOrder
      /\ made' = n /\ zone' = zone /\ maps' = maps
      /\ alive' = alive /\ guests' = guests /\ at[p] = Idle
      /\ at'[p].pc = "size" /\ at'[p].off = n
      /\ \A q \in Procs \ {p} : at'[q] = at[q] /\ fds'[q] = fds[q]
  BY DEF AfterOpen, VmaInv, TypeOK, Zones, Ready
<1>2. PICK f \in Fds : fds[p][f] = 0 /\ \A g \in Fds : fds'[p][g] = IF g = f THEN n ELSE fds[p][g]
  BY <1>1 DEF AfterOpen
<1>3. ~Creating(p) /\ Creating(p)' /\ Fresh(p)' = n
  BY <1>1, IdleShape DEF Creating, Fresh
<1>4. ASSUME NEW q \in Procs PROVE Ignorant(q, n)
  <2>1. maps[q] \in [Addrs -> Nat] /\ fds[q] \in [Fds -> Nat] /\ CallInOrder(q)
    BY <1>1 DEF CallsInOrder, TypeOK, Zones
  <2>2. \A a \in Addrs : maps[q][a] <= made /\ maps[q][a] \in Nat
    BY <2>1, Zenon DEF CallInOrder
  <2>3. \A g \in Fds : fds[q][g] <= made /\ fds[q][g] \in Nat
    BY <2>1 DEF CallInOrder
  <2> QED
    BY <1>1, <2>2, <2>3 DEF Ignorant
<1>5. ASSUME NEW c \in Procs \ {p}, Creating(c)' PROVE Creating(c) /\ Fresh(c)' = Fresh(c) /\ Fresh(c) # n
  <2>1. Creating(c) /\ Fresh(c)' = Fresh(c)
    BY <1>1, <1>5 DEF Creating, Fresh
  <2>2. Fresh(c) \in 1 .. made
    BY <1>1, <2>1 DEF MakersInOrder, MakerInOrder
  <2> QED
    BY <1>1, <2>1, <2>2
<1>6. MakerInOrder(p)'
  <2>1. n \in 1 .. made' /\ zone'[n] = Blank
    <3>1. zone[n] = Blank
      BY <1>1 DEF CallsInOrder
    <3> QED
      BY <1>1, <3>1
  <2>2. ~zone'[n].master /\ zone'[n].cap = 0
    BY <2>1 DEF Blank
  <2>3. \A g \in Fds : fds'[p][g] = n <=> g = f
    BY <1>2, <1>4, Zenon DEF Ignorant
  <2>4. \A a \in Addrs : maps'[p][a] # n
    BY <1>1, <1>4 DEF Ignorant
  <2>5. \A q \in alive' \ guests' : q # p => Ignorant(q, n)'
    <3>1. ASSUME NEW q \in alive' \ guests', q # p PROVE Ignorant(q, n)'
      <4>1. q \in Procs \ {p} /\ Ignorant(q, n) /\ fds'[q] = fds[q] /\ maps' = maps
        BY <1>1, <1>4, <3>1 DEF TypeOK
      <4> QED
        BY <4>1, Zenon DEF Ignorant
    <3> QED
      BY <3>1
  <2>6. /\ \E e \in Fds : \A g \in Fds : fds'[p][g] = n <=> g = e
        /\ \A a \in Addrs : maps'[p][a] = n <=> at'[p].pc # "size" /\ a = at'[p].h
        /\ at'[p].pc = "size" /\ n \in 1 .. made'
    <3>1. \E e \in Fds : \A g \in Fds : fds'[p][g] = n <=> g = e
      BY <2>3, Zenon
    <3>2. at'[p].pc = "size"
      BY <1>1
    <3> QED
      BY <2>1, <2>4, <3>1, <3>2, Zenon
  <2>7. \A q \in Procs \ {p} : Creating(q)' => Fresh(q)' # n
    BY <1>5
  <2>8. /\ at'[p].pc # "size" => zone'[n].kind # "none"
        /\ at'[p].pc # "offset" => zone'[n].cap = 0
        /\ at'[p].pc = "offset" =>
             /\ zone'[n].base = at'[p].h /\ zone'[n].cap = Capacity[n]
             /\ zone'[n].fd \in Fds /\ fds'[p][zone'[n].fd] = n
    BY <2>2, <2>6
  <2>9. /\ n \in 1 .. made' /\ Fresh(p)' = n /\ ~zone'[n].master
        /\ \E e \in Fds : \A g \in Fds : fds'[p][g] = n <=> g = e
        /\ \A a \in Addrs : maps'[p][a] = n <=> at'[p].pc # "size" /\ a = at'[p].h
    BY <1>3, <2>2, <2>6, Zenon
  <2> QED
    BY <2>5, <2>7, <2>8, <2>9, MakerFields
<1>7. ASSUME NEW c \in Procs \ {p}, Creating(c)' PROVE MakerInOrder(c)'
  <2>1. /\ Creating(c) /\ MakerInOrder(c) /\ Fresh(c)' = Fresh(c) /\ Fresh(c) # n
        /\ Fresh(c) \in 1 .. made
    BY <1>1, <1>5, <1>7 DEF MakersInOrder, MakerInOrder
  <2>2. ASSUME NEW q \in Procs \ {c}, Creating(q)' PROVE Fresh(q)' # Fresh(c)
    <3>1. CASE q = p
      BY <1>3, <2>1, <3>1
    <3>2. CASE q # p
      BY <1>5, <2>1, <2>2, <3>2 DEF MakerInOrder
    <3> QED
      BY <3>1, <3>2
  <2>3. ASSUME NEW q \in alive' \ guests', q # c PROVE Ignorant(q, Fresh(c))'
    <3>1. Ignorant(q, Fresh(c)) /\ q \in Procs
      BY <1>1, <2>1, <2>3 DEF MakerInOrder, TypeOK
    <3>2. \A g \in Fds : fds'[q][g] # Fresh(c)
      BY <1>1, <1>2, <2>1, <3>1, Zenon DEF Ignorant
    <3> QED
      BY <1>1, <2>1, <3>1, <3>2 DEF Ignorant
  <2> QED
    BY <1>1, <2>1, <2>2, <2>3, SameObject, MakerKept
<1> QED
  BY <1>6, <1>7 DEF MakersInOrder

LEMMA MakersSize ==
  ASSUME VmaInv, NEW p \in Procs, NEW a \in Addrs, AfterSize(p, a)
  PROVE  MakersInOrder'
<1>1. PICK z \in Zones :
      /\ z = Fresh(p) /\ Creating(p) /\ Creating(p)' /\ MakerInOrder(p) /\ Fresh(p)' = z /\ at[p].pc = "size"
      /\ at'[p].pc = "bounds" /\ at'[p].h = a /\ made' = made /\ fds' = fds /\ maps[p][a] = 0
      /\ guests' = guests /\ alive' = alive
      /\ \A b \in Addrs : maps'[p][b] = IF b = a THEN z ELSE maps[p][b]
      /\ \A c \in Procs \ {p} : at'[c] = at[c] /\ maps'[c] = maps[c]
      /\ \A y \in Zones \ {z} : zone'[y] = zone[y]
      /\ IsSized(zone'[z], zone[z])
  BY Zenon DEF AfterSize, VmaInv, MakersInOrder, Creating, Fresh
<1>2. \A c \in Procs \ {p} : Creating(c)' => MakerInOrder(c)'
  BY <1>1, MakerGoesOn
<1>3. \A c \in Procs \ {p} : Creating(c)' => Fresh(c)' # z
  BY <1>1 DEF MakerInOrder, Creating, Fresh
<1>4. ASSUME NEW q \in alive' \ guests', q # p PROVE Ignorant(q, z)'
  <2>1. q \in Procs \ {p} /\ Ignorant(q, z)
    BY <1>1, <1>4 DEF MakerInOrder, VmaInv, TypeOK
  <2> QED
    BY <1>1, <2>1 DEF Ignorant
<1>5. ~zone'[z].master /\ zone'[z].kind # "none" /\ zone'[z].cap = 0
  BY <1>1 DEF MakerInOrder, IsSized, SameBounds, SameUse
<1>6. /\ \E f \in Fds : \A g \in Fds : fds'[p][g] = z <=> g = f
      /\ \A b \in Addrs : maps'[p][b] = z <=> b = a
  <2>1. /\ \E f \in Fds : \A g \in Fds : fds[p][g] = z <=> g = f
        /\ \A b \in Addrs : maps[p][b] # z
    BY <1>1 DEF MakerInOrder
  <2> QED
    BY <1>1, <2>1
<1>7. z \in 1 .. made'
  BY <1>1 DEF MakerInOrder
<1>8. MakerInOrder(p)'
  BY <1>1, <1>3, <1>4, <1>5, <1>6, <1>7, MakerFields
<1> QED
  BY <1>2, <1>8 DEF MakersInOrder

LEMMA MakersBounds ==
  ASSUME VmaInv, NEW p \in Procs, AfterBounds(p)
  PROVE  MakersInOrder'
<1>1. PICK z \in Zones :
      /\ z = Fresh(p) /\ Creating(p) /\ Creating(p)' /\ MakerInOrder(p) /\ Fresh(p)' = z /\ at[p].pc = "bounds"
      /\ at'[p].pc = "offset" /\ at'[p].h = at[p].h
      /\ made' = made /\ fds' = fds /\ maps' = maps
      /\ guests' = guests /\ alive' = alive
      /\ \A c \in Procs \ {p} : at'[c] = at[c]
      /\ \A y \in Zones \ {z} : zone'[y] = zone[y]
  BY Zenon DEF AfterBounds, VmaInv, MakersInOrder, Creating, Fresh
<1>2. \A c \in Procs \ {p} : Creating(c)' => MakerInOrder(c)'
  BY <1>1, MakerGoesOn
<1>3. \A c \in Procs \ {p} : Creating(c)' => Fresh(c)' # z
  BY <1>1 DEF MakerInOrder, Creating, Fresh
<1>4. ASSUME NEW q \in alive' \ guests', q # p PROVE Ignorant(q, z)'
  <2>1. q \in Procs \ {p} /\ Ignorant(q, z) /\ maps' = maps /\ fds' = fds
    BY <1>1, <1>4 DEF MakerInOrder, VmaInv, TypeOK
  <2> QED
    BY <2>1, Zenon DEF Ignorant
<1>a. /\ ~zone[z].master /\ zone[z].kind # "none"
      /\ \E g \in Fds : \A e \in Fds : fds[p][e] = z <=> e = g
      /\ \A b \in Addrs : maps[p][b] = z <=> b = at[p].h
  <2>1. z = Fresh(p) /\ MakerInOrder(p) /\ at[p].pc = "bounds"
    BY <1>1
  <2> QED
    BY <2>1, Zenon DEF MakerInOrder
<1>5. PICK f \in Fds : fds[p][f] = z /\ IsBound(zone'[z], zone[z], f, at[p].h, Capacity[z])
  BY <1>1, Zenon DEF AfterBounds
<1>6. /\ ~zone'[z].master /\ zone'[z].kind # "none" /\ zone'[z].cap = Capacity[z]
      /\ zone'[z].base = at'[p].h /\ zone'[z].fd \in Fds /\ fds'[p][zone'[z].fd] = z
  <2>1. at'[p].h = at[p].h /\ fds' = fds
    BY <1>1
  <2> QED
    BY <1>a, <1>5, <2>1 DEF IsBound, SameUse, SameMutex
<1>7. /\ \E g \in Fds : \A e \in Fds : fds'[p][e] = z <=> e = g
      /\ \A b \in Addrs : maps'[p][b] = z <=> at'[p].pc # "size" /\ b = at'[p].h
      /\ at'[p].pc = "offset"
  <2>2. fds' = fds /\ maps' = maps /\ at'[p].pc = "offset" /\ at'[p].h = at[p].h
    BY <1>1
  <2> QED
    BY <1>a, <2>2, Zenon
<1>8. z \in 1 .. made'
  BY <1>1 DEF MakerInOrder
<1>9. MakerInOrder(p)'
  <2>1. Fresh(p)' = z
    BY <1>1
  <2>2. \A q \in alive' \ guests' : q # p => Ignorant(q, z)'
    BY <1>4
  <2> QED
    BY <1>3, <1>6, <1>7, <1>8, <2>1, <2>2, MakerFields, Zenon
<1> QED
  BY <1>2, <1>9 DEF MakersInOrder

(* A step that keeps what makers rely on in every object.                  *)
LEMMA MakersStay ==
  ASSUME VmaInv, made' = made, NEW p \in Procs, ~Creating(p)',
         \A c \in Procs \ {p} : Creating(c)' =>
           at'[c] = at[c] /\ maps'[c] = maps[c] /\ fds'[c] = fds[c],
         \A y \in Zones : KeepsObject(zone'[y], zone[y]),
         \A q \in alive' \ guests' : Inherits(q)
  PROVE  MakersInOrder'
<1>1. TypeOK /\ MakersInOrder
  BY DEF VmaInv
<1>2. \A c \in Procs : Creating(c) => Fresh(c) \in Zones
  BY InOrder
<1> QED
  BY <1>1, <1>2, MakersKept

LEMMA OneObject ==
  ASSUME NEW z \in Zones, \A y \in Zones \ {z} : zone'[y] = zone[y], KeepsObject(zone'[z], zone[z])
  PROVE  \A y \in Zones : KeepsObject(zone'[y], zone[y])
  BY SameObject

LEMMA IdleMakes ==
  ASSUME NEW p \in Procs, Ready(p)
  PROVE  ~Creating(p) /\ ~InCall(p) /\ at[p].pc = "idle"
  BY IdleShape DEF Ready, Creating, InCall

LEMMA MakersEffect ==
  ASSUME VmaInv, NEW p \in Procs, Effect(p)
  PROVE  MakersInOrder'
<1>1. CASE AfterOpen(p)
  BY <1>1, MakersOpen
<1>2. CASE \E a \in Addrs : AfterSize(p, a)
  BY <1>2, MakersSize
<1>3. CASE AfterFails(p)
  <2>1. /\ made' = made /\ ~Creating(p)' /\ zone' = zone /\ maps' = maps
        /\ alive' = alive /\ guests' = guests
        /\ \A c \in Procs \ {p} : at'[c] = at[c] /\ fds'[c] = fds[c]
        /\ \A f \in Fds : fds'[p][f] = 0 \/ fds'[p][f] = fds[p][f]
    BY <1>3 DEF AfterFails, Creating
  <2>2. \A q \in alive' \ guests' : Inherits(q)
    <3>1. \A q \in alive : \A f \in Fds : fds'[q][f] = 0 \/ fds'[q][f] = fds[q][f]
      BY <2>1, Zenon DEF VmaInv, TypeOK
    <3> QED
      BY <2>1, <3>1, ShrinkInherits, Zenon
  <2>3. \A y \in Zones : KeepsObject(zone'[y], zone[y])
    BY <2>1, SameObject
  <2> QED
    BY <2>1, <2>2, <2>3, MakersStay
<1>4. CASE AfterBounds(p)
  BY <1>4, MakersBounds
<1>5. ASSUME NEW s \in BOOLEAN, AfterReady(p, s) PROVE MakersInOrder'
  <2>1. /\ made' = made /\ Creating(p) /\ ~Creating(p)' /\ maps' = maps /\ fds' = fds
        /\ alive' = alive /\ guests' = guests
        /\ \A c \in Procs \ {p} : at'[c] = at[c]
        /\ \A y \in Zones \ {Fresh(p)} : zone'[y] = zone[y]
    BY <1>5, Zenon DEF AfterReady, Creating
  <2>2. \A q \in alive' \ guests' : Inherits(q)
    BY <2>1, ShrinkInherits
  <2>3. \A c \in Procs \ {p} : Creating(c) => KeepsObject(zone'[Fresh(c)], zone[Fresh(c)])
    BY <2>1, OthersObject, SameObject
  <2>4. TypeOK /\ MakersInOrder
    BY DEF VmaInv
  <2> QED
    BY <2>1, <2>2, <2>3, <2>4, MakersKept
<1>6. ASSUME NEW a \in Addrs, AfterAttach(p, a) PROVE MakersInOrder'
  <2>1. /\ made' = made /\ Ready(p) /\ zone' = zone /\ at' = at
        /\ alive' = alive /\ guests' = guests \cup {p}
        /\ \A c \in Procs \ {p} : maps'[c] = maps[c] /\ fds'[c] = fds[c]
    BY <1>6 DEF AfterAttach
  <2>2. \A q \in alive' \ guests' : Inherits(q)
    BY <2>1, Zenon DEF Inherits, VmaInv, TypeOK
  <2>3. \A y \in Zones : KeepsObject(zone'[y], zone[y])
    BY <2>1, SameObject
  <2>4. ~Creating(p)'
    BY <2>1, IdleMakes DEF Creating
  <2> QED
    BY <2>1, <2>2, <2>3, <2>4, MakersStay
<1>7. ASSUME NEW h \in Addrs, NEW u \in Sizes, AfterLock(p, h, u) PROVE MakersInOrder'
  <2>1. /\ made' = made /\ ~Creating(p)' /\ maps' = maps /\ fds' = fds
        /\ alive' = alive /\ guests' = guests
        /\ \A c \in Procs \ {p} : at'[c] = at[c]
    BY <1>7 DEF AfterLock, Creating
  <2>2. \A q \in alive' \ guests' : Inherits(q)
    BY <2>1, ShrinkInherits
  <2>3. \A y \in Zones : KeepsObject(zone'[y], zone[y])
    <3>1. PICK z \in Zones : /\ \A y \in Zones \ {z} : zone'[y] = zone[y]
                             /\ HasLock(zone'[z], zone[z], p) \/ zone'[z] = zone[z]
      BY <1>7 DEF AfterLock
    <3> QED
      BY <3>1, OneObject DEF HasLock, KeepsObject, SameUse, SameBounds
  <2> QED
    BY <2>1, <2>2, <2>3, MakersStay
<1>8. CASE AfterLoad(p)
  <2>1. /\ made' = made /\ ~Creating(p)' /\ maps' = maps /\ fds' = fds /\ zone' = zone
        /\ alive' = alive /\ guests' = guests
        /\ \A c \in Procs \ {p} : at'[c] = at[c]
    BY <1>8 DEF AfterLoad, Creating
  <2>2. \A q \in alive' \ guests' : Inherits(q)
    BY <2>1, ShrinkInherits
  <2>3. \A y \in Zones : KeepsObject(zone'[y], zone[y])
    BY <2>1, SameObject
  <2> QED
    BY <2>1, <2>2, <2>3, MakersStay
<1>9. CASE AfterStore(p)
  <2>1. /\ made' = made /\ ~Creating(p)' /\ maps' = maps /\ fds' = fds
        /\ alive' = alive /\ guests' = guests
        /\ \A c \in Procs \ {p} : at'[c] = at[c]
    BY <1>9, Zenon DEF AfterStore, Creating
  <2>2. \A q \in alive' \ guests' : Inherits(q)
    BY <2>1, ShrinkInherits
  <2>3. \A y \in Zones : KeepsObject(zone'[y], zone[y])
    <3>1. PICK z \in Zones : /\ \A y \in Zones \ {z} : zone'[y] = zone[y]
                             /\ \E n, l : IsStored(zone'[z], zone[z], n, l)
      BY <1>9, Zenon DEF AfterStore
    <3> QED
      BY <3>1, OneObject DEF IsStored, KeepsObject, SameBounds
  <2> QED
    BY <2>1, <2>2, <2>3, MakersStay
<1>10. ASSUME NEW h \in Addrs, AfterReset(p, h) PROVE MakersInOrder'
  <2>1. /\ made' = made /\ Ready(p) /\ maps' = maps /\ fds' = fds /\ at' = at
        /\ alive' = alive /\ guests' = guests
    BY <1>10 DEF AfterReset
  <2>2. \A q \in alive' \ guests' : Inherits(q)
    BY <2>1, ShrinkInherits
  <2>3. \A y \in Zones : KeepsObject(zone'[y], zone[y])
    <3>1. PICK z \in Zones : /\ \A y \in Zones \ {z} : zone'[y] = zone[y]
                             /\ IsStored(zone'[z], zone[z], Header, zone[z].lock)
      BY <1>10 DEF AfterReset
    <3> QED
      BY <3>1, OneObject DEF IsStored, KeepsObject, SameBounds
  <2>4. ~Creating(p)'
    BY <2>1, IdleMakes DEF Creating
  <2> QED
    BY <2>1, <2>2, <2>3, <2>4, MakersStay
<1>11. ASSUME NEW h \in Addrs, Releases(p, h),
              \A y \in Zones : KeepsObject(zone'[y], zone[y])
       PROVE  MakersInOrder'
  <2>1. /\ made' = made /\ Ready(p) /\ at' = at /\ alive' = alive /\ guests' = guests
        /\ \A c \in Procs \ {p} : maps'[c] = maps[c] /\ fds'[c] = fds[c]
        /\ \A a \in Addrs : maps'[p][a] = 0 \/ maps'[p][a] = maps[p][a]
        /\ \A f \in Fds : fds'[p][f] = 0 \/ fds'[p][f] = fds[p][f]
    BY <1>11 DEF Releases
  <2>2. \A q \in alive' \ guests' : Inherits(q)
    <3>1. \A q \in alive : /\ \A a \in Addrs : maps'[q][a] = 0 \/ maps'[q][a] = maps[q][a]
                           /\ \A f \in Fds : fds'[q][f] = 0 \/ fds'[q][f] = fds[q][f]
      BY <2>1 DEF VmaInv, TypeOK
    <3> QED
      BY <2>1, <3>1, ShrinkInherits
  <2>3. ~Creating(p)'
    BY <2>1, IdleMakes DEF Creating
  <2> QED
    BY <1>11, <2>1, <2>2, <2>3, MakersStay
<1>12. ASSUME NEW h \in Addrs, AfterFree(p, h) PROVE MakersInOrder'
  BY <1>11, <1>12, SameObject DEF AfterFree
<1>13. ASSUME NEW h \in Addrs, AfterDestroy(p, h) PROVE MakersInOrder'
  <2>1. PICK z \in Zones : /\ \A y \in Zones \ {z} : zone'[y] = zone[y]
                           /\ zone[z].kind # "none"
                           /\ \E k \in {zone[z].kind, "gone"} : IsTorn(zone'[z], zone[z], k)
    BY <1>13 DEF AfterDestroy, Releases
  <2>2. KeepsObject(zone'[z], zone[z])
    BY <2>1 DEF IsTorn, KeepsObject, SameBounds
  <2> QED
    BY <1>11, <1>13, <2>1, <2>2, OneObject, Zenon DEF AfterDestroy
<1>14. ASSUME NEW q \in Procs, AfterFork(p, q) PROVE MakersInOrder'
  <2>1. /\ made' = made /\ zone' = zone /\ at' = at /\ at[q] = Idle /\ q # p
        /\ Ready(p) /\ alive' = alive \cup {q} /\ q \notin alive
        /\ guests' = IF p \in guests THEN guests \cup {q} ELSE guests \ {q}
        /\ maps'[q] = maps[p] /\ fds'[q] = fds[p]
        /\ \A r \in Procs \ {q} : maps'[r] = maps[r] /\ fds'[r] = fds[r]
    BY <1>14 DEF AfterFork
  <2>2. ~Creating(q)' /\ ~Creating(p)
    BY <2>1, IdleShape, IdleMakes DEF Creating
  <2>3. ASSUME NEW r \in alive' \ guests' PROVE Inherits(r)
    <3>1. CASE r = q
      BY <2>1, <2>2, <2>3, <3>1 DEF Inherits, Ready
    <3>2. CASE r # q
      BY <2>1, <2>3, <3>2, Zenon DEF Inherits, VmaInv, TypeOK
    <3> QED
      BY <3>1, <3>2
  <2>4. \A y \in Zones : KeepsObject(zone'[y], zone[y])
    BY <2>1, SameObject
  <2> QED
    BY <2>1, <2>2, <2>3, <2>4, MakersStay
<1>15. ASSUME AfterGone(p), alive' \ guests' \subseteq alive \ guests PROVE MakersInOrder'
  <2>1. /\ made' = made /\ ~Creating(p)'
        /\ \A c \in Procs \ {p} : at'[c] = at[c] /\ maps'[c] = maps[c] /\ fds'[c] = fds[c]
        /\ (\A a \in Addrs : maps'[p][a] = 0) /\ (\A f \in Fds : fds'[p][f] = 0)
    BY <1>15 DEF AfterGone, Creating
  <2>2. \A q \in alive' \ guests' : Inherits(q)
    <3>1. \A q \in alive : /\ \A a \in Addrs : maps'[q][a] = 0 \/ maps'[q][a] = maps[q][a]
                           /\ \A f \in Fds : fds'[q][f] = 0 \/ fds'[q][f] = fds[q][f]
      BY <2>1 DEF VmaInv, TypeOK
    <3> QED
      BY <1>15, <3>1, ShrinkInherits, Zenon
  <2>3. \A y \in Zones : KeepsObject(zone'[y], zone[y])
    BY <1>15, SameObject DEF AfterGone, IsOrphan, KeepsObject, SameUse, SameBounds
  <2> QED
    BY <2>1, <2>2, <2>3, MakersStay
<1>16. CASE AfterDie(p)
  BY <1>15, <1>16 DEF AfterDie, AfterGone
<1>17. CASE AfterFault(p)
  BY <1>15, <1>17 DEF AfterFault, AfterGone
<1> QED
  BY <1>1, <1>2, <1>3, <1>4, <1>5, <1>6, <1>7, <1>8, <1>9, <1>10, <1>12, <1>13, <1>14,
     <1>16, <1>17 DEF Effect

-----------------------------------------------------------------------------
(* Owners.                                                                 *)

(* What the owner of an object relies on. *)
KeepsPlace(r, o) ==
  /\ r.fd = o.fd /\ r.base = o.base
  /\ o.kind # "none" => r.kind # "none"

LEMMA SamePlace == ASSUME NEW o PROVE KeepsPlace(o, o)
  BY DEF KeepsPlace

LEMMA OnePlace ==
  ASSUME NEW z \in Zones, \A y \in Zones \ {z} : zone'[y] = zone[y], KeepsPlace(zone'[z], zone[z])
  PROVE  \A y \in Zones : KeepsPlace(zone'[y], zone[y])
  BY SamePlace

(* What a process has, has the owner r. *)
LEMMA OwnerKept ==
  ASSUME VmaInv, NEW q \in Procs, NEW r \in alive \ guests,
         maps'[q] = maps[r], fds'[q] = fds[r], ptrs'[q] = ptrs[r],
         Creating(q)' = Creating(r), Creating(r) => Fresh(q)' = Fresh(r),
         \A y \in Zones : Ignorant(r, y) \/ KeepsPlace(zone'[y], zone[y])
  PROVE  OwnerKnows(q)'
<1>1. /\ r \in Procs /\ OwnerKnows(r)
      /\ maps[r] \in [Addrs -> Zones \cup {0}] /\ fds[r] \in [Fds -> Zones \cup {0}]
      /\ ptrs[r] \subseteq Addrs
  BY DEF VmaInv, TypeOK, OwnersKnow
<1>2. \A a \in Addrs : maps[r][a] # 0 =>
        maps[r][a] \in Zones /\ KeepsPlace(zone'[maps[r][a]], zone[maps[r][a]])
  BY <1>1, Zenon DEF Ignorant
<1>3. \A f \in Fds : fds[r][f] # 0 =>
        fds[r][f] \in Zones /\ KeepsPlace(zone'[fds[r][f]], zone[fds[r][f]])
  BY <1>1 DEF Ignorant
<1>4. ASSUME NEW h \in ptrs'[q]
      PROVE  LET z == maps'[q][h] IN
             /\ z # 0 /\ zone'[z].kind # "none" /\ zone'[z].base = h
             /\ zone'[z].fd \in Fds /\ fds'[q][zone'[z].fd] = z
             /\ Creating(q)' => z # Fresh(q)'
  <2> DEFINE z == maps[r][h]
  <2>1. /\ h \in ptrs[r] /\ h \in Addrs /\ z # 0 /\ zone[z].kind # "none" /\ zone[z].base = h
        /\ zone[z].fd \in Fds /\ fds[r][zone[z].fd] = z
        /\ Creating(r) => z # Fresh(r)
    BY <1>1 DEF OwnerKnows
  <2>2. KeepsPlace(zone'[z], zone[z])
    BY <1>2, <2>1, Zenon
  <2> HIDE DEF z
  <2>3. /\ zone'[z].kind # "none" /\ zone'[z].base = h /\ zone'[z].fd = zone[z].fd
    BY <2>1, <2>2 DEF KeepsPlace
  <2> QED
    BY <2>1, <2>3 DEF z
<1>5. ASSUME NEW a \in Addrs, maps'[q][a] # 0
      PROVE  a \in ptrs'[q] \/ (Creating(q)' /\ maps'[q][a] = Fresh(q)')
  BY <1>1, <1>5 DEF OwnerKnows
<1>6. ASSUME NEW f \in Fds, fds'[q][f] # 0
      PROVE  \/ Creating(q)' /\ fds'[q][f] = Fresh(q)'
             \/ /\ zone'[fds'[q][f]].fd = f
                /\ \E a \in ptrs'[q] : maps'[q][a] = fds'[q][f]
  <2>1. \/ Creating(r) /\ fds[r][f] = Fresh(r)
        \/ /\ zone[fds[r][f]].fd = f
           /\ \E a \in ptrs[r] : maps[r][a] = fds[r][f]
    BY <1>1, <1>6 DEF OwnerKnows
  <2>2. zone'[fds[r][f]].fd = zone[fds[r][f]].fd
    BY <1>3, <1>6 DEF KeepsPlace
  <2> QED
    BY <2>1, <2>2
<1> QED
  BY <1>4, <1>5, <1>6 DEF OwnerKnows

(* A step that leaves the memory of all alone. *)
LEMMA OwnersStay ==
  ASSUME VmaInv, NEW p \in Procs, alive' \ guests' \subseteq alive \ guests,
         ~Creating(p), ~Creating(p)',
         \A q \in alive' \ guests' :
           maps'[q] = maps[q] /\ fds'[q] = fds[q] /\ ptrs'[q] = ptrs[q]
           /\ (q # p => at'[q] = at[q]),
         \A y \in Zones : KeepsPlace(zone'[y], zone[y])
  PROVE  OwnersKnow'
<1> SUFFICES ASSUME NEW q \in alive' \ guests' PROVE OwnerKnows(q)'
  BY DEF OwnersKnow
<1>1. q \in alive \ guests /\ q \in Procs
  BY DEF VmaInv, TypeOK
<1>2. Creating(q)' = Creating(q) /\ (Creating(q) => Fresh(q)' = Fresh(q))
  BY DEF Creating, Fresh
<1> QED
  BY <1>1, <1>2, OwnerKept

(* The other owners, when a maker goes on. *)
LEMMA OtherOwners ==
  ASSUME VmaInv, NEW p \in Procs, alive' = alive, guests' = guests,
         \A q \in Procs \ {p} : maps'[q] = maps[q] /\ fds'[q] = fds[q] /\ ptrs'[q] = ptrs[q]
                                /\ at'[q] = at[q],
         \A y \in Zones : (Creating(p) /\ y = Fresh(p)) \/ KeepsPlace(zone'[y], zone[y])
  PROVE  \A q \in (alive' \ guests') \ {p} : OwnerKnows(q)'
<1> SUFFICES ASSUME NEW q \in (alive' \ guests') \ {p} PROVE OwnerKnows(q)'
  OBVIOUS
<1>1. q \in alive \ guests /\ q \in Procs /\ q # p
  BY DEF VmaInv, TypeOK
<1>2. (Creating(q)' <=> Creating(q)) /\ Fresh(q)' = Fresh(q)
  BY <1>1 DEF Creating, Fresh
<1>3. Creating(p) => Ignorant(q, Fresh(p))
  BY <1>1 DEF VmaInv, MakersInOrder, MakerInOrder
<1>4. Creating(q)' = Creating(q)
  BY <1>1 DEF Creating
<1> QED
  BY <1>1, <1>2, <1>3, <1>4, OwnerKept

(* The owner clause, one part at a time. *)
LEMMA OwnerParts ==
  ASSUME NEW p \in Procs,
         \A h \in ptrs'[p] :
           /\ maps'[p][h] # 0 /\ zone'[maps'[p][h]].kind # "none"
           /\ zone'[maps'[p][h]].base = h
           /\ zone'[maps'[p][h]].fd \in Fds
           /\ fds'[p][zone'[maps'[p][h]].fd] = maps'[p][h]
           /\ Creating(p)' => maps'[p][h] # Fresh(p)',
         \A a \in Addrs : maps'[p][a] # 0 =>
           a \in ptrs'[p] \/ (Creating(p)' /\ maps'[p][a] = Fresh(p)'),
         \A f \in Fds : fds'[p][f] # 0 =>
           \/ Creating(p)' /\ fds'[p][f] = Fresh(p)'
           \/ /\ zone'[fds'[p][f]].fd = f
              /\ \E a \in ptrs'[p] : maps'[p][a] = fds'[p][f]
  PROVE  OwnerKnows(p)'
  BY DEF OwnerKnows

(* And what an owner knows before the step. *)
LEMMA OwnerFacts ==
  ASSUME VmaInv, NEW p \in alive \ guests
  PROVE  /\ p \in Procs /\ ptrs[p] \subseteq Addrs
         /\ \A h \in ptrs[p] :
              /\ maps[p][h] \in Zones /\ zone[maps[p][h]].kind # "none"
              /\ zone[maps[p][h]].base = h
              /\ zone[maps[p][h]].fd \in Fds /\ fds[p][zone[maps[p][h]].fd] = maps[p][h]
              /\ Creating(p) => maps[p][h] # Fresh(p)
         /\ \A a \in Addrs : maps[p][a] # 0 =>
              a \in ptrs[p] \/ (Creating(p) /\ maps[p][a] = Fresh(p))
         /\ \A f \in Fds : fds[p][f] # 0 =>
              \/ Creating(p) /\ fds[p][f] = Fresh(p)
              \/ /\ zone[fds[p][f]].fd = f
                 /\ \E a \in ptrs[p] : maps[p][a] = fds[p][f]
<1>1. OwnerKnows(p) /\ p \in Procs /\ ptrs[p] \subseteq Addrs
      /\ maps[p] \in [Addrs -> Zones \cup {0}]
  BY DEF VmaInv, TypeOK, OwnersKnow
<1>2. ASSUME NEW h \in ptrs[p]
      PROVE  /\ maps[p][h] \in Zones /\ zone[maps[p][h]].kind # "none"
             /\ zone[maps[p][h]].base = h
             /\ zone[maps[p][h]].fd \in Fds /\ fds[p][zone[maps[p][h]].fd] = maps[p][h]
             /\ Creating(p) => maps[p][h] # Fresh(p)
  <2>1. h \in Addrs /\ maps[p][h] \in Zones \cup {0}
    BY <1>1, Zenon
  <2> QED
    BY <1>1, <2>1 DEF OwnerKnows
<1>3. /\ \A a \in Addrs : maps[p][a] # 0 =>
           a \in ptrs[p] \/ (Creating(p) /\ maps[p][a] = Fresh(p))
      /\ \A f \in Fds : fds[p][f] # 0 =>
           \/ Creating(p) /\ fds[p][f] = Fresh(p)
           \/ /\ zone[fds[p][f]].fd = f
              /\ \E a \in ptrs[p] : maps[p][a] = fds[p][f]
  BY <1>1 DEF OwnerKnows
<1> QED
  BY <1>1, <1>2, <1>3

LEMMA OwnersOpen ==
  ASSUME VmaInv, NEW p \in Procs, AfterOpen(p)
  PROVE  OwnersKnow'
<1>0. made + 1 \in Zones /\ made \in Nat
  BY DEF AfterOpen, VmaInv, TypeOK, Zones
<1>a. PICK n \in Zones : n = made + 1
  BY <1>0
<1>1. /\ zone' = zone /\ maps' = maps /\ ptrs' = ptrs
      /\ alive' = alive /\ guests' = guests /\ Ready(p)
      /\ at'[p].pc = "size" /\ at'[p].off = n
      /\ \A q \in Procs \ {p} : at'[q] = at[q] /\ fds'[q] = fds[q]
  BY <1>a DEF AfterOpen
<1>2. PICK f \in Fds : fds[p][f] = 0 /\ \A g \in Fds : fds'[p][g] = IF g = f THEN n ELSE fds[p][g]
  BY <1>a DEF AfterOpen
<1>3. ~Creating(p) /\ Creating(p)' /\ Fresh(p)' = n
  BY <1>1, IdleMakes DEF Creating, Fresh
<1>4. \A q \in (alive' \ guests') \ {p} : OwnerKnows(q)'
  BY <1>1, SamePlace, OtherOwners
<1>5. ASSUME p \notin guests PROVE OwnerKnows(p)'
  <2>1. p \in alive \ guests
    BY <1>1, <1>5 DEF Ready
  <2>2. /\ ptrs[p] \subseteq Addrs
        /\ \A h \in ptrs[p] :
              /\ maps[p][h] \in Zones /\ zone[maps[p][h]].kind # "none"
              /\ zone[maps[p][h]].base = h
              /\ zone[maps[p][h]].fd \in Fds /\ fds[p][zone[maps[p][h]].fd] = maps[p][h]
    BY <2>1, OwnerFacts
  <2>3. \A h \in ptrs[p] : maps[p][h] # n
    <3> SUFFICES ASSUME NEW h \in ptrs[p] PROVE maps[p][h] # n
      OBVIOUS
    <3>1. h \in Addrs /\ maps[p][h] \in Nat
      BY <2>2 DEF Zones
    <3>2. maps[p][h] <= made
      BY <3>1, Zenon DEF VmaInv, CallsInOrder, CallInOrder
    <3> QED
      BY <1>0, <1>a, <3>1, <3>2
  <2>4. \A a \in Addrs : maps[p][a] # 0 => a \in ptrs[p]
    BY <1>3, <2>1, OwnerFacts
  <2>5. \A g \in Fds : fds[p][g] # 0 =>
           zone[fds[p][g]].fd = g /\ \E a \in ptrs[p] : maps[p][a] = fds[p][g]
    BY <1>3, <2>1, OwnerFacts
  <2>6. \A h \in ptrs'[p] :
           /\ maps'[p][h] # 0 /\ zone'[maps'[p][h]].kind # "none"
           /\ zone'[maps'[p][h]].base = h
           /\ zone'[maps'[p][h]].fd \in Fds
           /\ fds'[p][zone'[maps'[p][h]].fd] = maps'[p][h]
           /\ Creating(p)' => maps'[p][h] # Fresh(p)'
    <3> SUFFICES ASSUME NEW h \in ptrs[p]
                 PROVE  /\ maps[p][h] # 0 /\ zone[maps[p][h]].kind # "none"
                        /\ zone[maps[p][h]].base = h /\ zone[maps[p][h]].fd \in Fds
                        /\ fds'[p][zone[maps[p][h]].fd] = maps[p][h]
                        /\ Creating(p)' => maps[p][h] # Fresh(p)'
      BY <1>1
    <3>1. /\ maps[p][h] # 0 /\ zone[maps[p][h]].kind # "none"
          /\ zone[maps[p][h]].base = h /\ zone[maps[p][h]].fd \in Fds
          /\ fds[p][zone[maps[p][h]].fd] = maps[p][h] /\ zone[maps[p][h]].fd # f
      BY <1>2, <2>2 DEF Zones
    <3>2. fds'[p][zone[maps[p][h]].fd] = maps[p][h]
      BY <1>2, <3>1, Zenon
    <3> QED
      BY <1>3, <2>3, <3>1, <3>2, Zenon
  <2>7. \A g \in Fds : fds'[p][g] # 0 =>
           \/ Creating(p)' /\ fds'[p][g] = Fresh(p)'
           \/ /\ zone'[fds'[p][g]].fd = g
              /\ \E a \in ptrs'[p] : maps'[p][a] = fds'[p][g]
    <3> SUFFICES ASSUME NEW g \in Fds, fds'[p][g] # 0, g # f
                 PROVE  /\ zone'[fds'[p][g]].fd = g
                        /\ \E a \in ptrs'[p] : maps'[p][a] = fds'[p][g]
      BY <1>2, <1>3, Zenon
    <3>1. fds'[p][g] = fds[p][g]
      BY <1>2, Zenon
    <3> QED
      BY <1>1, <2>5, <3>1
  <2>8. \A a \in Addrs : maps'[p][a] # 0 =>
           a \in ptrs'[p] \/ (Creating(p)' /\ maps'[p][a] = Fresh(p)')
    BY <1>1, <2>4
  <2> QED
    BY <2>6, <2>7, <2>8, OwnerParts
<1> QED
  BY <1>1, <1>4, <1>5 DEF OwnersKnow

LEMMA OwnersSize ==
  ASSUME VmaInv, NEW p \in Procs, NEW a \in Addrs, AfterSize(p, a)
  PROVE  OwnersKnow'
<1>1. PICK z \in Zones :
      /\ z = Fresh(p) /\ Creating(p) /\ Creating(p)' /\ MakerInOrder(p) /\ Fresh(p)' = z
      /\ at[p].pc = "size" /\ fds' = fds /\ ptrs' = ptrs /\ maps[p][a] = 0 /\ p \in alive
      /\ guests' = guests /\ alive' = alive
      /\ \A b \in Addrs : maps'[p][b] = IF b = a THEN z ELSE maps[p][b]
      /\ \A c \in Procs \ {p} : at'[c] = at[c] /\ maps'[c] = maps[c]
      /\ \A y \in Zones \ {z} : zone'[y] = zone[y]
      /\ IsSized(zone'[z], zone[z])
  BY DEF AfterSize, VmaInv, MakersInOrder, Creating, Fresh
<1>2. \A y \in Zones : KeepsPlace(zone'[y], zone[y])
  <2>1. KeepsPlace(zone'[z], zone[z])
    BY <1>1 DEF IsSized, KeepsPlace, SameBounds
  <2> QED
    BY <1>1, <2>1, OnePlace
<1>3. \A q \in (alive' \ guests') \ {p} : OwnerKnows(q)'
  BY <1>1, <1>2, OtherOwners
<1>4. ASSUME p \notin guests PROVE OwnerKnows(p)'
  <2>1. p \in alive \ guests
    BY <1>1, <1>4
  <2>2. /\ ptrs[p] \subseteq Addrs
        /\ \A h \in ptrs[p] :
              /\ maps[p][h] \in Zones /\ zone[maps[p][h]].kind # "none"
              /\ zone[maps[p][h]].base = h
              /\ zone[maps[p][h]].fd \in Fds /\ fds[p][zone[maps[p][h]].fd] = maps[p][h]
              /\ maps[p][h] # z
    BY <1>1, <2>1, OwnerFacts
  <2>a. a \notin ptrs[p]
    BY <1>1, <2>2 DEF Zones
  <2>3. \A h \in ptrs[p] : /\ maps'[p][h] = maps[p][h] /\ zone'[maps[p][h]] = zone[maps[p][h]]
    BY <1>1, <2>2, <2>a
  <2>4. \A h \in ptrs'[p] :
           /\ maps'[p][h] # 0 /\ zone'[maps'[p][h]].kind # "none"
           /\ zone'[maps'[p][h]].base = h
           /\ zone'[maps'[p][h]].fd \in Fds
           /\ fds'[p][zone'[maps'[p][h]].fd] = maps'[p][h]
           /\ Creating(p)' => maps'[p][h] # Fresh(p)'
    <3>1. \A h \in ptrs[p] : maps[p][h] # 0
      BY <2>2 DEF Zones
    <3> QED
      BY <1>1, <2>2, <2>3, <3>1
  <2>5. \A b \in Addrs : maps'[p][b] # 0 =>
           b \in ptrs'[p] \/ (Creating(p)' /\ maps'[p][b] = Fresh(p)')
    <3>1. \A b \in Addrs : maps[p][b] # 0 => b \in ptrs[p] \/ maps[p][b] = z
      BY <1>1, <2>1, OwnerFacts
    <3> QED
      BY <1>1, <3>1
  <2>6. ASSUME NEW f \in Fds, fds'[p][f] # 0
        PROVE  \/ Creating(p)' /\ fds'[p][f] = Fresh(p)'
               \/ /\ zone'[fds'[p][f]].fd = f
                  /\ \E b \in ptrs'[p] : maps'[p][b] = fds'[p][f]
    <3>1. \/ fds[p][f] = z
          \/ /\ zone[fds[p][f]].fd = f
             /\ \E b \in ptrs[p] : maps[p][b] = fds[p][f]
      BY <1>1, <2>1, <2>6, OwnerFacts
    <3> QED
      BY <1>1, <2>3, <3>1
  <2> QED
    BY <2>4, <2>5, <2>6, OwnerParts
<1> QED
  BY <1>1, <1>3, <1>4 DEF OwnersKnow

LEMMA OwnersFails ==
  ASSUME VmaInv, NEW p \in Procs, AfterFails(p)
  PROVE  OwnersKnow'
<1>1. PICK z \in Zones :
      /\ z = Fresh(p) /\ Creating(p) /\ ~Creating(p)' /\ MakerInOrder(p)
      /\ at[p].pc = "size" /\ maps' = maps /\ ptrs' = ptrs /\ p \in alive
      /\ guests' = guests /\ alive' = alive /\ zone' = zone
      /\ \A c \in Procs \ {p} : at'[c] = at[c] /\ fds'[c] = fds[c]
      /\ \A f \in Fds : fds'[p][f] = IF fds[p][f] = z THEN 0 ELSE fds[p][f]
  <2>1. Creating(p) /\ Fresh(p) \in Zones /\ MakerInOrder(p)
    BY InOrder DEF AfterFails, Creating, VmaInv, MakersInOrder
  <2> QED
    BY <2>1 DEF AfterFails, Creating
<1>2. \A q \in (alive' \ guests') \ {p} : OwnerKnows(q)'
  BY <1>1, SamePlace, OtherOwners
<1>3. ASSUME p \notin guests PROVE OwnerKnows(p)'
  <2>1. p \in alive \ guests
    BY <1>1, <1>3
  <2>2. \A h \in ptrs'[p] :
           /\ maps'[p][h] # 0 /\ zone'[maps'[p][h]].kind # "none"
           /\ zone'[maps'[p][h]].base = h
           /\ zone'[maps'[p][h]].fd \in Fds
           /\ fds'[p][zone'[maps'[p][h]].fd] = maps'[p][h]
    <3>1. \A h \in ptrs[p] :
              /\ maps[p][h] \in Zones /\ zone[maps[p][h]].kind # "none"
              /\ zone[maps[p][h]].base = h
              /\ zone[maps[p][h]].fd \in Fds /\ fds[p][zone[maps[p][h]].fd] = maps[p][h]
              /\ maps[p][h] # z
      <4>1. \A h \in ptrs[p] :
               /\ maps[p][h] \in Zones /\ zone[maps[p][h]].kind # "none"
               /\ zone[maps[p][h]].base = h
               /\ zone[maps[p][h]].fd \in Fds /\ fds[p][zone[maps[p][h]].fd] = maps[p][h]
               /\ Creating(p) => maps[p][h] # Fresh(p)
        BY <2>1, OwnerFacts
      <4>2. Creating(p) /\ Fresh(p) = z
        BY <1>1
      <4> QED
        BY <4>1, <4>2, Zenon
    <3> SUFFICES ASSUME NEW h \in ptrs[p]
                 PROVE  /\ maps[p][h] # 0 /\ zone[maps[p][h]].kind # "none"
                        /\ zone[maps[p][h]].base = h /\ zone[maps[p][h]].fd \in Fds
                        /\ fds'[p][zone[maps[p][h]].fd] = maps[p][h]
      BY <1>1
    <3>2. maps[p][h] # 0
      BY <3>1 DEF Zones
    <3>3. zone[maps[p][h]].fd \in Fds /\ fds[p][zone[maps[p][h]].fd] = maps[p][h] /\ maps[p][h] # z
      BY <3>1
    <3>4. fds'[p][zone[maps[p][h]].fd] = maps[p][h]
      BY <1>1, <3>3, Zenon
    <3> QED
      BY <3>1, <3>2, <3>4, Zenon
  <2>3. \A b \in Addrs : maps'[p][b] # 0 => b \in ptrs'[p]
    <3>1. \A b \in Addrs : maps[p][b] # z
      BY <1>1 DEF MakerInOrder
    <3>2. \A b \in Addrs : maps[p][b] # 0 => b \in ptrs[p] \/ maps[p][b] = z
      BY <1>1, <2>1, OwnerFacts
    <3> QED
      BY <1>1, <3>1, <3>2
  <2>4. ASSUME NEW f \in Fds, fds'[p][f] # 0
        PROVE  /\ zone'[fds'[p][f]].fd = f
               /\ \E b \in ptrs'[p] : maps'[p][b] = fds'[p][f]
    <3>1. fds'[p][f] = fds[p][f] /\ fds[p][f] # z
      BY <1>1, <2>4, Zenon
    <3>2. /\ zone[fds[p][f]].fd = f
          /\ \E b \in ptrs[p] : maps[p][b] = fds[p][f]
      BY <1>1, <2>1, <2>4, <3>1, OwnerFacts
    <3> QED
      BY <1>1, <3>1, <3>2
  <2> QED
    BY <1>1, <2>2, <2>3, <2>4, OwnerParts
<1> QED
  BY <1>1, <1>2, <1>3 DEF OwnersKnow

LEMMA OwnersBounds ==
  ASSUME VmaInv, NEW p \in Procs, AfterBounds(p)
  PROVE  OwnersKnow'
<1>1. PICK z \in Zones :
      /\ z = Fresh(p) /\ Creating(p) /\ Creating(p)' /\ Fresh(p)' = z
      /\ fds' = fds /\ maps' = maps /\ ptrs' = ptrs /\ p \in alive
      /\ guests' = guests /\ alive' = alive
      /\ \A c \in Procs \ {p} : at'[c] = at[c]
      /\ \A y \in Zones \ {z} : zone'[y] = zone[y]
  BY Zenon DEF AfterBounds, Creating, Fresh
<1>2. \A y \in Zones : (Creating(p) /\ y = Fresh(p)) \/ KeepsPlace(zone'[y], zone[y])
  BY <1>1, SamePlace
<1>3. \A q \in (alive' \ guests') \ {p} : OwnerKnows(q)'
  BY <1>1, <1>2, OtherOwners
<1>4. ASSUME p \notin guests PROVE OwnerKnows(p)'
  <2>1. p \in alive \ guests
    BY <1>1, <1>4
  <2>2. \A h \in ptrs[p] :
           /\ maps[p][h] \in Zones /\ zone[maps[p][h]].kind # "none"
           /\ zone[maps[p][h]].base = h
           /\ zone[maps[p][h]].fd \in Fds /\ fds[p][zone[maps[p][h]].fd] = maps[p][h]
           /\ maps[p][h] # z
    BY <1>1, <2>1, OwnerFacts
  <2>3. \A h \in ptrs[p] : zone'[maps[p][h]] = zone[maps[p][h]] /\ maps[p][h] # 0
    BY <1>1, <2>2 DEF Zones
  <2>4. \A h \in ptrs'[p] :
           /\ maps'[p][h] # 0 /\ zone'[maps'[p][h]].kind # "none"
           /\ zone'[maps'[p][h]].base = h
           /\ zone'[maps'[p][h]].fd \in Fds
           /\ fds'[p][zone'[maps'[p][h]].fd] = maps'[p][h]
           /\ Creating(p)' => maps'[p][h] # Fresh(p)'
    BY <1>1, <2>2, <2>3
  <2>5. \A b \in Addrs : maps'[p][b] # 0 =>
           b \in ptrs'[p] \/ (Creating(p)' /\ maps'[p][b] = Fresh(p)')
    <3>1. \A b \in Addrs : maps[p][b] # 0 => b \in ptrs[p] \/ maps[p][b] = z
      BY <1>1, <2>1, OwnerFacts
    <3> QED
      BY <1>1, <3>1
  <2>6. ASSUME NEW f \in Fds, fds'[p][f] # 0
        PROVE  \/ Creating(p)' /\ fds'[p][f] = Fresh(p)'
               \/ /\ zone'[fds'[p][f]].fd = f
                  /\ \E b \in ptrs'[p] : maps'[p][b] = fds'[p][f]
    <3>1. \/ fds[p][f] = z
          \/ /\ zone[fds[p][f]].fd = f
             /\ \E b \in ptrs[p] : maps[p][b] = fds[p][f]
      BY <1>1, <2>1, <2>6, OwnerFacts
    <3> QED
      BY <1>1, <2>3, <3>1
  <2> QED
    BY <2>4, <2>5, <2>6, OwnerParts
<1> QED
  BY <1>1, <1>3, <1>4 DEF OwnersKnow

LEMMA OwnersReady ==
  ASSUME VmaInv, NEW p \in Procs, NEW s \in BOOLEAN, AfterReady(p, s)
  PROVE  OwnersKnow'
<1>1. PICK z \in Zones :
      /\ z = Fresh(p) /\ Creating(p) /\ ~Creating(p)'
      /\ fds' = fds /\ maps' = maps /\ ptrs'[p] = ptrs[p] \cup {at[p].h} /\ p \in alive
      /\ guests' = guests /\ alive' = alive /\ at[p].h \in Addrs /\ at[p].pc = "offset"
      /\ \A c \in Procs \ {p} : at'[c] = at[c] /\ ptrs'[c] = ptrs[c]
      /\ \A y \in Zones \ {z} : zone'[y] = zone[y]
      /\ zone'[z].fd = zone[z].fd /\ zone'[z].base = zone[z].base
      /\ zone'[z].kind \in {"robust", zone[z].kind}
  <2>1. /\ Fresh(p) \in Zones /\ Creating(p) /\ ~Creating(p)'
        /\ SameBounds(zone'[Fresh(p)], zone[Fresh(p)])
        /\ zone'[Fresh(p)].kind \in {"robust", zone[Fresh(p)].kind}
        /\ \A y \in Zones \ {Fresh(p)} : zone'[y] = zone[y]
    BY DEF AfterReady, IsReady, Creating
  <2>2. /\ fds' = fds /\ maps' = maps /\ ptrs'[p] = ptrs[p] \cup {at[p].h} /\ p \in alive
        /\ guests' = guests /\ alive' = alive /\ at[p].h \in Addrs /\ at[p].pc = "offset"
        /\ \A c \in Procs \ {p} : at'[c] = at[c] /\ ptrs'[c] = ptrs[c]
    BY Zenon DEF AfterReady
  <2> QED
    BY <2>1, <2>2, Zenon DEF SameBounds
<1>2. /\ zone[z].kind # "none" /\ zone[z].base = at[p].h
      /\ zone[z].fd \in Fds /\ fds[p][zone[z].fd] = z
      /\ \E f \in Fds : \A g \in Fds : fds[p][g] = z <=> g = f
      /\ \A a \in Addrs : maps[p][a] = z <=> a = at[p].h
  <2>1. MakerInOrder(p) /\ z = Fresh(p) /\ at[p].pc = "offset"
    BY <1>1 DEF VmaInv, MakersInOrder
  <2> QED
    BY <2>1, Zenon DEF MakerInOrder
<1>3. \A y \in Zones : KeepsPlace(zone'[y], zone[y])
  <2>1. KeepsPlace(zone'[z], zone[z])
    BY <1>1 DEF KeepsPlace
  <2> QED
    BY <1>1, <2>1, OnePlace
<1>4. \A q \in (alive' \ guests') \ {p} : OwnerKnows(q)'
  BY <1>1, <1>3, OtherOwners
<1>5. ASSUME p \notin guests PROVE OwnerKnows(p)'
  <2>1. p \in alive \ guests
    BY <1>1, <1>5
  <2>2. \A h \in ptrs[p] :
           /\ maps[p][h] \in Zones /\ zone[maps[p][h]].kind # "none"
           /\ zone[maps[p][h]].base = h
           /\ zone[maps[p][h]].fd \in Fds /\ fds[p][zone[maps[p][h]].fd] = maps[p][h]
           /\ maps[p][h] # z
    BY <1>1, <2>1, OwnerFacts
  <2>3. \A h \in ptrs[p] : zone'[maps[p][h]] = zone[maps[p][h]] /\ maps[p][h] # 0
    BY <1>1, <2>2 DEF Zones
  <2>4. ASSUME NEW h \in ptrs'[p]
        PROVE  /\ maps'[p][h] # 0 /\ zone'[maps'[p][h]].kind # "none"
               /\ zone'[maps'[p][h]].base = h
               /\ zone'[maps'[p][h]].fd \in Fds
               /\ fds'[p][zone'[maps'[p][h]].fd] = maps'[p][h]
    <3>1. CASE h = at[p].h
      <4>1. maps'[p][h] = z /\ z # 0
        <5>1. maps[p][at[p].h] = z /\ maps' = maps
          BY <1>1, <1>2
        <5>2. z \in 1 .. MaxZones
          BY DEF Zones
        <5> QED
          BY <3>1, <5>1, <5>2
      <4>2. /\ zone'[z].kind # "none" /\ zone'[z].base = h /\ zone'[z].fd = zone[z].fd
            /\ zone[z].fd \in Fds /\ fds' = fds /\ fds[p][zone[z].fd] = z
        <5>1. /\ zone'[z].kind # "none" /\ zone'[z].fd = zone[z].fd /\ fds' = fds
          BY <1>1, <1>2
        <5>2. zone'[z].base = h
          BY <1>1, <1>2, <3>1
        <5> QED
          BY <1>2, <5>1, <5>2
      <4> QED
        BY <4>1, <4>2
    <3>2. CASE h \in ptrs[p]
      BY <1>1, <2>2, <2>3, <3>2
    <3> QED
      BY <1>1, <3>1, <3>2
  <2>5. \A b \in Addrs : maps'[p][b] # 0 => b \in ptrs'[p]
    <3>1. \A b \in Addrs : maps[p][b] # 0 => b \in ptrs[p] \/ maps[p][b] = z
      BY <1>1, <2>1, OwnerFacts
    <3> QED
      BY <1>1, <1>2, <3>1
  <2>6. ASSUME NEW f \in Fds, fds'[p][f] # 0
        PROVE  /\ zone'[fds'[p][f]].fd = f
               /\ \E b \in ptrs'[p] : maps'[p][b] = fds'[p][f]
    <3>1. \/ fds[p][f] = z
          \/ /\ zone[fds[p][f]].fd = f
             /\ \E b \in ptrs[p] : maps[p][b] = fds[p][f]
      BY <1>1, <2>1, <2>6, OwnerFacts
    <3>2. CASE fds[p][f] = z
      <4>1. zone[z].fd = f
        BY <1>2, <3>2, Zenon
      <4>2. fds' = fds /\ maps' = maps /\ zone'[z].fd = f
        BY <1>1, <4>1
      <4>3. at[p].h \in ptrs'[p] /\ maps[p][at[p].h] = z
        BY <1>1, <1>2
      <4> QED
        BY <3>2, <4>2, <4>3
    <3>3. CASE fds[p][f] # z
      BY <1>1, <2>3, <3>1, <3>3
    <3> QED
      BY <3>2, <3>3
  <2> QED
    BY <1>1, <2>4, <2>5, <2>6, OwnerParts
<1> QED
  BY <1>1, <1>4, <1>5 DEF OwnersKnow

LEMMA OwnersRelease ==
  ASSUME VmaInv, NEW p \in Procs, NEW h \in Addrs, Releases(p, h),
         \A y \in Zones : KeepsPlace(zone'[y], zone[y])
  PROVE  OwnersKnow'
<1>1. PICK z \in Zones :
      /\ z = maps[p][h] /\ Ready(p) /\ h \in ptrs[p] /\ at' = at
      /\ alive' = alive /\ guests' = guests
      /\ \A q \in Procs \ {p} : maps'[q] = maps[q] /\ fds'[q] = fds[q] /\ ptrs'[q] = ptrs[q]
      /\ \A a \in Addrs : maps'[p][a] = IF a = zone[z].base THEN 0 ELSE maps[p][a]
      /\ \A f \in Fds : fds'[p][f] = IF f = zone[z].fd THEN 0 ELSE fds[p][f]
      /\ ptrs'[p] = ptrs[p] \ {h}
  BY DEF Releases
<1>2. \A q \in (alive' \ guests') \ {p} : OwnerKnows(q)'
  BY <1>1, OtherOwners
<1>3. ASSUME p \notin guests PROVE OwnerKnows(p)'
  <2>1. p \in alive \ guests /\ ~Creating(p) /\ ~Creating(p)'
    BY <1>1, <1>3, IdleMakes DEF Ready, Creating
  <2>2. \A g \in ptrs[p] :
           /\ g \in Addrs /\ maps[p][g] \in Zones /\ zone[maps[p][g]].kind # "none"
           /\ zone[maps[p][g]].base = g
           /\ zone[maps[p][g]].fd \in Fds /\ fds[p][zone[maps[p][g]].fd] = maps[p][g]
    BY <2>1, OwnerFacts
  <2>3. zone[z].base = h /\ fds[p][zone[z].fd] = z
    BY <1>1, <2>2
  <2>4. ASSUME NEW g \in ptrs'[p]
        PROVE  /\ maps'[p][g] # 0 /\ zone'[maps'[p][g]].kind # "none"
               /\ zone'[maps'[p][g]].base = g
               /\ zone'[maps'[p][g]].fd \in Fds
               /\ fds'[p][zone'[maps'[p][g]].fd] = maps'[p][g]
    <3>1. g \in ptrs[p] /\ g # h /\ g \in Addrs
      BY <1>1, <2>2
    <3>2. maps'[p][g] = maps[p][g] /\ maps[p][g] \in Zones /\ maps[p][g] # 0
      BY <1>1, <2>2, <2>3, <3>1 DEF Zones
    <3>3. zone[maps[p][g]].fd # zone[z].fd
      <4>1. maps[p][g] # z
        BY <2>2, <2>3, <3>1
      <4> QED
        BY <2>2, <2>3, <3>1, <4>1
    <3>4. KeepsPlace(zone'[maps[p][g]], zone[maps[p][g]])
      BY <3>2
    <3>5. /\ zone'[maps[p][g]].kind # "none" /\ zone'[maps[p][g]].base = g
          /\ zone'[maps[p][g]].fd = zone[maps[p][g]].fd
      BY <2>2, <3>1, <3>4 DEF KeepsPlace
    <3>6. zone[maps[p][g]].fd \in Fds /\ fds'[p][zone[maps[p][g]].fd] = maps[p][g]
      BY <1>1, <2>2, <3>1, <3>3
    <3> QED
      BY <3>2, <3>5, <3>6
  <2>5. \A a \in Addrs : maps'[p][a] # 0 => a \in ptrs'[p]
    <3>1. \A a \in Addrs : maps[p][a] # 0 => a \in ptrs[p]
      BY <2>1, OwnerFacts
    <3> QED
      BY <1>1, <2>3, <3>1
  <2>6. ASSUME NEW f \in Fds, fds'[p][f] # 0
        PROVE  /\ zone'[fds'[p][f]].fd = f
               /\ \E b \in ptrs'[p] : maps'[p][b] = fds'[p][f]
    <3>1. fds'[p][f] = fds[p][f] /\ f # zone[z].fd
      BY <1>1, <2>6
    <3>2. zone[fds[p][f]].fd = f
      BY <2>1, <2>6, <3>1, OwnerFacts, Zenon
    <3>3. PICK b \in ptrs[p] : maps[p][b] = fds[p][f]
      BY <2>1, <2>6, <3>1, OwnerFacts
    <3>4. maps[p][b] # z /\ b # h
      BY <1>1, <3>1, <3>2, <3>3
    <3>5. b \in ptrs'[p] /\ maps'[p][b] = fds'[p][f]
      BY <1>1, <2>2, <2>3, <3>1, <3>3, <3>4, Zenon
    <3>6. zone'[fds[p][f]].fd = zone[fds[p][f]].fd
      BY <2>2, <3>3 DEF KeepsPlace
    <3> QED
      BY <3>1, <3>2, <3>5, <3>6
  <2> QED
    BY <2>1, <2>4, <2>5, <2>6, OwnerParts
<1> QED
  BY <1>1, <1>2, <1>3 DEF OwnersKnow, Ready

LEMMA OwnersEffect ==
  ASSUME VmaInv, NEW p \in Procs, Effect(p)
  PROVE  OwnersKnow'
<1>1. CASE AfterOpen(p)
  BY <1>1, OwnersOpen
<1>2. CASE \E a \in Addrs : AfterSize(p, a)
  BY <1>2, OwnersSize
<1>3. CASE AfterFails(p)
  BY <1>3, OwnersFails
<1>4. CASE AfterBounds(p)
  BY <1>4, OwnersBounds
<1>5. CASE \E s \in BOOLEAN : AfterReady(p, s)
  BY <1>5, OwnersReady
<1>6. ASSUME NEW a \in Addrs, AfterAttach(p, a) PROVE OwnersKnow'
  <2>1. /\ Ready(p) /\ zone' = zone /\ at' = at
        /\ alive' = alive /\ guests' = guests \cup {p}
        /\ \A q \in Procs \ {p} : maps'[q] = maps[q] /\ fds'[q] = fds[q] /\ ptrs'[q] = ptrs[q]
    BY <1>6 DEF AfterAttach
  <2>2. ~Creating(p) /\ ~Creating(p)'
    BY <2>1, IdleMakes DEF Creating
  <2>3. \A y \in Zones : KeepsPlace(zone'[y], zone[y])
    BY <2>1, SamePlace
  <2>4. \A q \in alive' \ guests' : q \in Procs \ {p}
    BY <2>1 DEF VmaInv, TypeOK
  <2> QED
    BY <2>1, <2>2, <2>3, <2>4, OwnersStay
<1>7. ASSUME NEW h \in Addrs, NEW u \in Sizes, AfterLock(p, h, u) PROVE OwnersKnow'
  <2>1. /\ Ready(p) /\ ~Creating(p)' /\ maps' = maps /\ fds' = fds /\ ptrs' = ptrs
        /\ alive' = alive /\ guests' = guests
        /\ \A c \in Procs \ {p} : at'[c] = at[c]
    BY <1>7 DEF AfterLock, Creating
  <2>2. \A y \in Zones : KeepsPlace(zone'[y], zone[y])
    <3>1. PICK z \in Zones : /\ \A y \in Zones \ {z} : zone'[y] = zone[y]
                             /\ HasLock(zone'[z], zone[z], p) \/ zone'[z] = zone[z]
      BY <1>7 DEF AfterLock
    <3> QED
      BY <3>1, OnePlace DEF HasLock, KeepsPlace, SameBounds
  <2>3. \A q \in alive' \ guests' : q # p => at'[q] = at[q]
    BY <2>1 DEF VmaInv, TypeOK
  <2> QED
    BY <2>1, <2>2, <2>3, IdleMakes, OwnersStay
<1>8. CASE AfterLoad(p)
  <2>1. /\ ~Creating(p) /\ ~Creating(p)' /\ UNCHANGED <<zone, maps, fds, ptrs, alive, guests>>
        /\ \A c \in Procs \ {p} : at'[c] = at[c]
    BY <1>8 DEF AfterLoad, Creating
  <2>2. \A y \in Zones : KeepsPlace(zone'[y], zone[y])
    BY <2>1, SamePlace
  <2>3. \A q \in alive' \ guests' : q # p => at'[q] = at[q]
    BY <2>1 DEF VmaInv, TypeOK
  <2> QED
    BY <2>1, <2>2, <2>3, OwnersStay
<1>9. CASE AfterStore(p)
  <2>1. /\ ~Creating(p) /\ ~Creating(p)' /\ UNCHANGED <<maps, fds, ptrs, alive, guests>>
        /\ \A c \in Procs \ {p} : at'[c] = at[c]
    BY <1>9, Zenon DEF AfterStore, Creating
  <2>2. \A y \in Zones : KeepsPlace(zone'[y], zone[y])
    <3>1. PICK z \in Zones : /\ \A y \in Zones \ {z} : zone'[y] = zone[y]
                             /\ \E n, l : IsStored(zone'[z], zone[z], n, l)
      BY <1>9, Zenon DEF AfterStore
    <3> QED
      BY <3>1, OnePlace DEF IsStored, KeepsPlace, SameBounds
  <2>3. \A q \in alive' \ guests' : q # p => at'[q] = at[q]
    BY <2>1 DEF VmaInv, TypeOK
  <2> QED
    BY <2>1, <2>2, <2>3, OwnersStay
<1>10. ASSUME NEW h \in Addrs, AfterReset(p, h) PROVE OwnersKnow'
  <2>1. /\ Ready(p) /\ UNCHANGED <<maps, fds, ptrs, alive, guests, at>>
    BY <1>10 DEF AfterReset
  <2>2. \A y \in Zones : KeepsPlace(zone'[y], zone[y])
    <3>1. PICK z \in Zones : /\ \A y \in Zones \ {z} : zone'[y] = zone[y]
                             /\ IsStored(zone'[z], zone[z], Header, zone[z].lock)
      BY <1>10 DEF AfterReset
    <3> QED
      BY <3>1, OnePlace DEF IsStored, KeepsPlace, SameBounds
  <2>3. ~Creating(p) /\ ~Creating(p)'
    BY <2>1, IdleMakes DEF Creating
  <2> QED
    BY <2>1, <2>2, <2>3, OwnersStay
<1>11. ASSUME NEW h \in Addrs, AfterFree(p, h) PROVE OwnersKnow'
  BY <1>11, SamePlace, OwnersRelease DEF AfterFree
<1>12. ASSUME NEW h \in Addrs, AfterDestroy(p, h) PROVE OwnersKnow'
  <2>1. PICK z \in Zones : /\ \A y \in Zones \ {z} : zone'[y] = zone[y]
                           /\ zone[z].kind # "none"
                           /\ \E k \in {zone[z].kind, "gone"} : IsTorn(zone'[z], zone[z], k)
    BY <1>12 DEF AfterDestroy, Releases
  <2>2. KeepsPlace(zone'[z], zone[z])
    BY <2>1 DEF IsTorn, KeepsPlace, SameBounds
  <2> QED
    BY <1>12, <2>1, <2>2, OnePlace, OwnersRelease DEF AfterDestroy
<1>13. ASSUME NEW q \in Procs, AfterFork(p, q) PROVE OwnersKnow'
  <2>1. /\ zone' = zone /\ at' = at /\ at[q] = Idle /\ q # p
        /\ Ready(p) /\ alive' = alive \cup {q} /\ q \notin alive
        /\ guests' = IF p \in guests THEN guests \cup {q} ELSE guests \ {q}
        /\ maps'[q] = maps[p] /\ fds'[q] = fds[p] /\ ptrs'[q] = ptrs[p]
        /\ \A r \in Procs \ {q} : maps'[r] = maps[r] /\ fds'[r] = fds[r] /\ ptrs'[r] = ptrs[r]
    BY <1>13 DEF AfterFork
  <2>2. ~Creating(q)' /\ ~Creating(p) /\ Creating(q)' = Creating(p)
    BY <2>1, IdleShape, IdleMakes DEF Creating
  <2>3. \A y \in Zones : KeepsPlace(zone'[y], zone[y])
    BY <2>1, SamePlace
  <2>4. ASSUME NEW r \in alive' \ guests' PROVE OwnerKnows(r)'
    <3>1. CASE r = q
      <4>1. p \in alive \ guests
        BY <2>1, <2>4, <3>1 DEF Ready
      <4> QED
        BY <2>1, <2>2, <2>3, <3>1, <4>1, OwnerKept
    <3>2. CASE r # q
      <4>1. r \in alive \ guests /\ r \in Procs
        BY <2>1, <2>4, <3>2 DEF VmaInv, TypeOK
      <4>2. Creating(r)' = Creating(r) /\ Fresh(r)' = Fresh(r)
        BY <2>1, <3>2, <4>1 DEF Creating, Fresh
      <4> QED
        BY <2>1, <2>3, <3>2, <4>1, <4>2, OwnerKept
    <3> QED
      BY <3>1, <3>2
  <2> QED
    BY <2>4 DEF OwnersKnow
<1>14. ASSUME AfterGone(p), alive' \ guests' \subseteq (alive \ guests) \ {p} PROVE OwnersKnow'
  <2>1. /\ \A c \in Procs \ {p} : at'[c] = at[c] /\ maps'[c] = maps[c] /\ fds'[c] = fds[c]
                                  /\ ptrs'[c] = ptrs[c]
    BY <1>14 DEF AfterGone
  <2>2. \A y \in Zones : KeepsPlace(zone'[y], zone[y])
    BY <1>14, SamePlace DEF AfterGone, IsOrphan, KeepsPlace, SameBounds
  <2> SUFFICES ASSUME NEW q \in alive' \ guests' PROVE OwnerKnows(q)'
    BY DEF OwnersKnow
  <2>3. q \in alive \ guests /\ q \in Procs \ {p}
    BY <1>14 DEF VmaInv, TypeOK
  <2>4. Creating(q)' = Creating(q) /\ Fresh(q)' = Fresh(q)
    BY <2>1, <2>3 DEF Creating, Fresh
  <2> QED
    BY <2>1, <2>2, <2>3, <2>4, OwnerKept
<1>15. CASE AfterDie(p)
  BY <1>14, <1>15, Zenon DEF AfterDie, AfterGone
<1>16. CASE AfterFault(p)
  BY <1>14, <1>16 DEF AfterFault, AfterGone
<1> QED
  BY <1>1, <1>2, <1>3, <1>4, <1>5, <1>6, <1>7, <1>8, <1>9, <1>10, <1>11, <1>12, <1>13,
     <1>15, <1>16 DEF Effect

(* What OwnersKnow says of those that run. *)
LEMMA OwnersMean ==
  ASSUME OwnersKnow', faults' \subseteq guests'
  PROVE  OnlyGuestsFault' /\ NothingLeaks'
<1>1. OnlyGuestsFault'
  BY DEF OwnersKnow, OwnerKnows, OnlyGuestsFault
<1>2. NothingLeaks'
  BY DEF OwnersKnow, OwnerKnows, NothingLeaks, Creating
<1> QED
  BY <1>1, <1>2

LEMMA GuestsEffect ==
  ASSUME VmaInv, NEW p \in Procs, Effect(p)
  PROVE  faults' \subseteq guests'
<1>1. faults \subseteq guests /\ faults \cap alive = {}
  BY DEF VmaInv, OnlyGuestsFault, CallsInOrder
<1>2. CASE \/ AfterOpen(p) \/ AfterFails(p) \/ AfterBounds(p)
           \/ \E a \in Addrs : AfterSize(p, a) \/ AfterAttach(p, a)
           \/ \E s \in BOOLEAN : AfterReady(p, s)
  BY <1>1, <1>2 DEF AfterOpen, AfterFails, AfterBounds, AfterSize, AfterAttach, AfterReady
<1>3. CASE \/ \E h \in Addrs, u \in Sizes : AfterLock(p, h, u)
           \/ AfterLoad(p)
           \/ AfterStore(p)
           \/ \E h \in Addrs : AfterReset(p, h) \/ AfterFree(p, h) \/ AfterDestroy(p, h)
  BY <1>1, <1>3, Zenon DEF AfterLock, AfterLoad, AfterStore, AfterReset, AfterFree, AfterDestroy, Releases
<1>4. CASE (\E q \in Procs : AfterFork(p, q)) \/ AfterDie(p) \/ AfterFault(p)
  BY <1>1, <1>4 DEF AfterFork, AfterDie, AfterFault, AfterGone
<1> QED
  BY <1>2, <1>3, <1>4 DEF Effect

-----------------------------------------------------------------------------
(* The name.                                                               *)

(* A step that leaves the name alone, and what is ready or being made.     *)
LEMMA NameKept ==
  ASSUME NameInOrder, twice' = twice, link' = link,
         \A z \in Zones : zone'[z].master /\ ~zone'[z].torn => zone[z].master /\ ~zone[z].torn,
         \A c \in Procs : Creating(c)' => Creating(c) /\ Fresh(c)' = Fresh(c)
  PROVE  NameInOrder'
<1>1. ~twice' => \A c \in Procs : Creating(c)' => link' = Fresh(c)'
  BY DEF NameInOrder
<1>2. NameUntilDestroyed'
  BY DEF NameInOrder, NameUntilDestroyed
<1> QED
  BY <1>1, <1>2 DEF NameInOrder

(* Those that a step leaves alone go on with what they make. *)
LEMMA MakersSame ==
  ASSUME NEW p \in Procs, \A c \in Procs \ {p} : Creating(c)' => at'[c] = at[c] /\ maps'[c] = maps[c],
         Creating(p)' => Creating(p) /\ Fresh(p)' = Fresh(p)
  PROVE  \A c \in Procs : Creating(c)' => Creating(c) /\ Fresh(c)' = Fresh(c)
  BY DEF Creating, Fresh

LEMMA OneName ==
  ASSUME NEW z \in Zones, \A y \in Zones \ {z} : zone'[y] = zone[y],
         zone'[z].master = zone[z].master, zone[z].torn => zone'[z].torn
  PROVE  \A y \in Zones : zone'[y].master /\ ~zone'[y].torn => zone[y].master /\ ~zone[y].torn
  OBVIOUS

LEMMA NameStep ==
  ASSUME VmaInv, NEW p \in Procs, Effect(p)
  PROVE  NameInOrder'
<1>1. NameInOrder /\ TypeOK
  BY DEF VmaInv
<1>2. CASE AfterOpen(p)
  <2>1. PICK n \in Zones :
        /\ link = 0 /\ link' = n /\ twice' = twice /\ zone' = zone /\ maps' = maps
        /\ at'[p].pc = "size" /\ at'[p].off = n
        /\ \A q \in Procs \ {p} : at'[q] = at[q]
    BY <1>2 DEF AfterOpen
  <2>2. ~twice => \A c \in Procs : ~Creating(c)
    <3>1. \A c \in Procs : Creating(c) => Fresh(c) \in Zones
      BY InOrder
    <3> QED
      BY <1>1, <2>1, <3>1 DEF NameInOrder, Zones
  <2>3. ASSUME ~twice', NEW c \in Procs, Creating(c)' PROVE link' = Fresh(c)'
    <3>1. c = p
      BY <2>1, <2>2, <2>3 DEF Creating
    <3> QED
      BY <2>1, <3>1 DEF Fresh
  <2>4. NameUntilDestroyed'
    BY <1>1, <2>1 DEF NameInOrder, NameUntilDestroyed, Zones
  <2> QED
    BY <2>3, <2>4 DEF NameInOrder
<1>3. ASSUME NEW a \in Addrs, AfterSize(p, a) PROVE NameInOrder'
  <2>1. PICK z \in Zones :
        /\ z = Fresh(p) /\ Creating(p) /\ Fresh(p)' = z /\ link' = link /\ twice' = twice
        /\ \A q \in Procs \ {p} : at'[q] = at[q] /\ maps'[q] = maps[q]
        /\ \A y \in Zones \ {z} : zone'[y] = zone[y]
        /\ zone'[z].master = zone[z].master /\ zone'[z].torn = zone[z].torn
    BY <1>3 DEF AfterSize, IsSized, SameUse, Creating, Fresh
  <2> QED
    BY <1>1, <2>1, MakersSame, OneName, NameKept
<1>4. CASE AfterFails(p)
  <2>1. PICK z \in Zones :
        /\ z = Fresh(p) /\ Creating(p) /\ ~Creating(p)' /\ link' = 0 /\ twice' = twice
        /\ zone' = zone /\ maps' = maps
        /\ \A q \in Procs \ {p} : at'[q] = at[q]
    <3>1. Creating(p) /\ Fresh(p) \in Zones
      BY <1>4, InOrder DEF AfterFails, Creating
    <3> QED
      BY <1>4, <3>1 DEF AfterFails, Creating
  <2>2. ~twice => link = z
    BY <1>1, <2>1 DEF NameInOrder
  <2>3. ~zone[z].master
    BY <2>1 DEF VmaInv, MakersInOrder, MakerInOrder
  <2>4. ASSUME ~twice', NEW c \in Procs, Creating(c)' PROVE FALSE
    <3>1. c # p /\ Creating(c) /\ link = Fresh(c)
      BY <1>1, <2>1, <2>4 DEF Creating, NameInOrder
    <3> QED
      BY <2>1, <2>2, <2>4, <3>1, OthersObject
  <2>5. NameUntilDestroyed'
    BY <1>1, <2>1, <2>2, <2>3 DEF NameInOrder, NameUntilDestroyed
  <2> QED
    BY <2>4, <2>5 DEF NameInOrder
<1>5. CASE AfterBounds(p)
  <2>1. PICK z \in Zones :
        /\ z = Fresh(p) /\ Creating(p) /\ Fresh(p)' = z /\ link' = link /\ twice' = twice
        /\ \A q \in Procs \ {p} : at'[q] = at[q] /\ maps'[q] = maps[q]
        /\ \A y \in Zones \ {z} : zone'[y] = zone[y]
        /\ zone'[z].master = zone[z].master /\ zone'[z].torn = zone[z].torn
    BY <1>5, Zenon DEF AfterBounds, IsBound, SameUse, Creating, Fresh
  <2> QED
    BY <1>1, <2>1, MakersSame, OneName, NameKept
<1>6. ASSUME NEW s \in BOOLEAN, AfterReady(p, s) PROVE NameInOrder'
  <2>1. PICK z \in Zones :
        /\ z = Fresh(p) /\ Creating(p) /\ ~Creating(p)' /\ link' = link /\ twice' = twice
        /\ maps' = maps
        /\ \A q \in Procs \ {p} : at'[q] = at[q]
        /\ \A y \in Zones \ {z} : zone'[y] = zone[y]
    BY <1>6, Zenon DEF AfterReady, Creating
  <2>2. ~twice => link = z
    BY <1>1, <2>1 DEF NameInOrder
  <2>3. ASSUME ~twice', NEW c \in Procs, Creating(c)' PROVE link' = Fresh(c)'
    <3>1. c # p /\ Creating(c) /\ link = Fresh(c) /\ Fresh(c)' = Fresh(c)
      BY <1>1, <2>1, <2>3 DEF Creating, Fresh, NameInOrder
    <3> QED
      BY <2>1, <3>1
  <2>4. NameUntilDestroyed'
    BY <1>1, <2>1, <2>2 DEF NameInOrder, NameUntilDestroyed
  <2> QED
    BY <2>3, <2>4 DEF NameInOrder
<1>7. ASSUME NEW a \in Addrs, AfterAttach(p, a) PROVE NameInOrder'
  <2>1. /\ Ready(p) /\ UNCHANGED <<zone, link, at, twice>>
        /\ \A q \in Procs \ {p} : maps'[q] = maps[q]
    BY <1>7 DEF AfterAttach
  <2>2. ~Creating(p)'
    BY <2>1, IdleMakes DEF Creating
  <2> QED
    BY <1>1, <2>1, <2>2, MakersSame, NameKept
<1>8. ASSUME NEW h \in Addrs, NEW u \in Sizes, AfterLock(p, h, u) PROVE NameInOrder'
  <2>1. /\ ~Creating(p)' /\ UNCHANGED <<link, maps, twice>> /\ \A q \in Procs \ {p} : at'[q] = at[q]
    BY <1>8 DEF AfterLock, Creating
  <2>2. PICK z \in Zones :
        /\ \A y \in Zones \ {z} : zone'[y] = zone[y]
        /\ zone'[z].master = zone[z].master /\ zone'[z].torn = zone[z].torn
    BY <1>8 DEF AfterLock, HasLock, SameUse
  <2> QED
    BY <1>1, <2>1, <2>2, OneName, MakersSame, NameKept
<1>9. CASE AfterLoad(p)
  <2>1. /\ ~Creating(p)' /\ UNCHANGED <<zone, link, maps, twice>> /\ \A q \in Procs \ {p} : at'[q] = at[q]
    BY <1>9 DEF AfterLoad, Creating
  <2> QED
    BY <1>1, <2>1, MakersSame, NameKept
<1>10. CASE AfterStore(p)
  <2>1. /\ ~Creating(p)' /\ UNCHANGED <<link, maps, twice>> /\ \A q \in Procs \ {p} : at'[q] = at[q]
    BY <1>10, Zenon DEF AfterStore, Creating
  <2>2. PICK z \in Zones :
        /\ \A y \in Zones \ {z} : zone'[y] = zone[y]
        /\ \E n, l : IsStored(zone'[z], zone[z], n, l)
    BY <1>10, Zenon DEF AfterStore
  <2>3. zone'[z].master = zone[z].master /\ zone'[z].torn = zone[z].torn
    BY <2>2 DEF IsStored
  <2> QED
    BY <1>1, <2>1, <2>2, <2>3, OneName, MakersSame, NameKept
<1>11. ASSUME NEW h \in Addrs, AfterReset(p, h) PROVE NameInOrder'
  <2>1. /\ UNCHANGED <<link, maps, at, twice>>
    BY <1>11 DEF AfterReset
  <2>2. PICK z \in Zones :
        /\ \A y \in Zones \ {z} : zone'[y] = zone[y]
        /\ zone'[z].master = zone[z].master /\ zone'[z].torn = zone[z].torn
    BY <1>11 DEF AfterReset, IsStored
  <2>3. \A c \in Procs : Creating(c)' => Creating(c) /\ Fresh(c)' = Fresh(c)
    BY <2>1 DEF Creating, Fresh
  <2> QED
    BY <1>1, <2>1, <2>2, <2>3, OneName, NameKept
<1>12. ASSUME NEW h \in Addrs, Releases(p, h)
       PROVE  \A c \in Procs : Creating(c)' => Creating(c) /\ Fresh(c)' = Fresh(c)
  <2>1. /\ Ready(p) /\ at' = at /\ \A q \in Procs \ {p} : maps'[q] = maps[q]
    BY <1>12 DEF Releases
  <2>2. ~Creating(p)'
    BY <2>1, IdleMakes DEF Creating
  <2> QED
    BY <2>1, <2>2, MakersSame
<1>13. ASSUME NEW h \in Addrs, AfterFree(p, h) PROVE NameInOrder'
  BY <1>1, <1>12, <1>13, NameKept DEF AfterFree
<1>14. ASSUME NEW h \in Addrs, AfterDestroy(p, h) PROVE NameInOrder'
  <2>1. PICK z \in Zones :
        /\ \A y \in Zones \ {z} : zone'[y] = zone[y]
        /\ zone'[z].master = zone[z].master /\ zone'[z].torn = TRUE
        /\ link' = IF zone[z].master THEN 0 ELSE link
        /\ twice' = (twice \/ zone[z].torn)
    BY <1>14, Zenon DEF AfterDestroy, IsTorn, Releases
  <2>2. \A c \in Procs : Creating(c)' => Creating(c) /\ Fresh(c)' = Fresh(c)
    BY <1>12, <1>14, Zenon DEF AfterDestroy
  <2>3. CASE ~twice' /\ zone[z].master
    <3>1. ~twice /\ ~zone[z].torn /\ link = z /\ link' = 0
      BY <1>1, <2>1, <2>3, Zenon DEF NameInOrder, NameUntilDestroyed
    <3>2. ASSUME NEW c \in Procs, Creating(c)' PROVE FALSE
      <4>1. Creating(c) /\ z = Fresh(c)
        BY <1>1, <2>2, <3>1, <3>2 DEF NameInOrder
      <4> QED
        BY <2>3, <4>1 DEF VmaInv, MakersInOrder, MakerInOrder
    <3>3. NameUntilDestroyed'
      BY <1>1, <2>1, <3>1 DEF NameInOrder, NameUntilDestroyed
    <3> QED
      BY <3>2, <3>3 DEF NameInOrder
  <2>4. CASE ~twice' /\ ~zone[z].master
    <3>1. twice' = twice /\ link' = link
      BY <1>1, <2>1, <2>4, Zenon DEF TypeOK
    <3> QED
      BY <1>1, <2>1, <2>2, <3>1, OneName, NameKept
  <2> QED
    BY <2>3, <2>4 DEF NameInOrder, NameUntilDestroyed
<1>15. ASSUME NEW q \in Procs, AfterFork(p, q) PROVE NameInOrder'
  <2>1. /\ UNCHANGED <<zone, link, at, twice>> /\ at[q] = Idle
        /\ \A r \in Procs \ {q} : maps'[r] = maps[r]
    BY <1>15 DEF AfterFork
  <2>2. ~Creating(q)'
    BY <2>1, IdleShape DEF Creating
  <2> QED
    BY <1>1, <2>1, <2>2, MakersSame, NameKept
<1>16. CASE AfterGone(p)
  <2>1. /\ ~Creating(p)' /\ UNCHANGED <<link, twice>>
        /\ \A q \in Procs \ {p} : at'[q] = at[q] /\ maps'[q] = maps[q]
        /\ \A z \in Zones : zone'[z].master = zone[z].master /\ zone'[z].torn = zone[z].torn
    BY <1>16 DEF AfterGone, Creating, IsOrphan, SameUse
  <2> QED
    BY <1>1, <2>1, MakersSame, NameKept
<1> QED
  BY <1>2, <1>3, <1>4, <1>5, <1>6, <1>7, <1>8, <1>9, <1>10, <1>11, <1>13, <1>14, <1>15,
     <1>16 DEF Effect, AfterDie, AfterFault

-----------------------------------------------------------------------------
(* The mutexes.                                                            *)

(* What a step leaves of a mutex: what was lost for good stays so, and has *)
(* a reason.                                                               *)
KeepsReason(r, o) ==
  /\ r.kind = "gone" => o.kind = "gone" \/ r.torn
  /\ r.lock = "lost" => o.lock = "lost" \/ o.orphan
  /\ o.torn => r.torn
  /\ o.orphan => r.orphan

LEMMA ReasonKept ==
  ASSUME LocksInOrder, \A z \in Zones : KeepsReason(zone'[z], zone[z]),
         \A z \in Zones : <<z, "unlocked">> \in hurt' =>
           <<z, "unlocked">> \in hurt \/ zone[z].torn \/ zone[z].orphan
  PROVE  LocksInOrder'
  BY DEF LocksInOrder, UnlockedNeedsDeath, KeepsReason

LEMMA OneReason ==
  ASSUME NEW z \in Zones, \A y \in Zones \ {z} : zone'[y] = zone[y], KeepsReason(zone'[z], zone[z])
  PROVE  \A y \in Zones : KeepsReason(zone'[y], zone[y])
  BY DEF KeepsReason

LEMMA LocksStep ==
  ASSUME VmaInv, NEW p \in Procs, Effect(p)
  PROVE  LocksInOrder'
<1>1. LocksInOrder /\ p # "lost"
  BY DEF VmaInv
<1>2. ASSUME zone' = zone PROVE \A z \in Zones : KeepsReason(zone'[z], zone[z])
  BY <1>2 DEF KeepsReason
<1>3. CASE AfterOpen(p) \/ AfterFails(p) \/ AfterLoad(p) \/ \E q \in Procs : AfterFork(p, q)
  <2>1. zone' = zone /\ hurt' = hurt
    BY <1>3 DEF AfterOpen, AfterFails, AfterLoad, AfterFork
  <2> QED
    BY <1>1, <1>2, <2>1, ReasonKept
<1>4. ASSUME NEW a \in Addrs, AfterSize(p, a) PROVE LocksInOrder'
  <2>1. PICK z \in Zones : /\ \A y \in Zones \ {z} : zone'[y] = zone[y]
                           /\ IsSized(zone'[z], zone[z]) /\ hurt' = hurt
    BY <1>4 DEF AfterSize
  <2>2. KeepsReason(zone'[z], zone[z])
    BY <2>1 DEF IsSized, SameUse, KeepsReason
  <2> QED
    BY <1>1, <2>1, <2>2, OneReason, ReasonKept
<1>5. CASE AfterBounds(p)
  <2>1. PICK z \in Zones : /\ \A y \in Zones \ {z} : zone'[y] = zone[y]
                           /\ SameUse(zone'[z], zone[z]) /\ SameMutex(zone'[z], zone[z])
                           /\ hurt' = hurt
    BY <1>5, Zenon DEF AfterBounds, IsBound
  <2>2. KeepsReason(zone'[z], zone[z])
    BY <2>1 DEF SameUse, SameMutex, KeepsReason
  <2> QED
    BY <1>1, <2>1, <2>2, OneReason, ReasonKept
<1>6. ASSUME NEW s \in BOOLEAN, AfterReady(p, s) PROVE LocksInOrder'
  <2>1. PICK z \in Zones : /\ \A y \in Zones \ {z} : zone'[y] = zone[y] /\ hurt' = hurt
                           /\ IsReady(zone'[z], zone[z], IF s THEN "robust" ELSE zone[z].kind,
                                      IF s THEN "free" ELSE zone[z].lock)
    BY <1>6, Zenon DEF AfterReady
  <2>2. KeepsReason(zone'[z], zone[z]) /\ hurt' = hurt
    BY <1>6, <2>1, Zenon DEF IsReady, KeepsReason, AfterReady
  <2> QED
    BY <1>1, <2>1, <2>2, OneReason, ReasonKept
<1>7. ASSUME NEW a \in Addrs, AfterAttach(p, a) PROVE LocksInOrder'
  <2>1. zone' = zone /\ hurt' \subseteq hurt \cup {<<link, "raced">>}
    BY <1>7 DEF AfterAttach
  <2> QED
    BY <1>1, <1>2, <2>1, ReasonKept
<1>8. ASSUME NEW h \in Addrs, NEW u \in Sizes, AfterLock(p, h, u) PROVE LocksInOrder'
  <2>1. PICK z \in Zones :
        /\ \A y \in Zones \ {z} : zone'[y] = zone[y]
        /\ \/ HasLock(zone'[z], zone[z], p) /\ hurt' = hurt
           \/ /\ zone[z].lock = "lost" \/ zone[z].kind = "gone"
              /\ zone'[z] = zone[z] /\ hurt' \subseteq hurt \cup {<<z, "unlocked">>}
    BY <1>8 DEF AfterLock
  <2>2. KeepsReason(zone'[z], zone[z])
    BY <1>1, <2>1 DEF HasLock, SameUse, KeepsReason
  <2>3. \A y \in Zones : <<y, "unlocked">> \in hurt' =>
           <<y, "unlocked">> \in hurt \/ zone[y].torn \/ zone[y].orphan
    BY <1>1, <2>1 DEF LocksInOrder
  <2> QED
    BY <1>1, <2>1, <2>2, <2>3, OneReason, ReasonKept
<1>9. CASE AfterStore(p)
  <2>1. PICK z \in Zones, l \in Locks :
        /\ \A y \in Zones \ {z} : zone'[y] = zone[y]
        /\ \E n \in {at[p].off + at[p].u, zone[z].off} : IsStored(zone'[z], zone[z], n, l)
        /\ l = "lost" => zone[z].lock = "lost" \/ zone[z].orphan
        /\ hurt' = hurt
    BY <1>9, Zenon DEF AfterStore
  <2>2. KeepsReason(zone'[z], zone[z])
    BY <2>1 DEF IsStored, KeepsReason
  <2> QED
    BY <1>1, <2>1, <2>2, OneReason, ReasonKept
<1>10. ASSUME NEW h \in Addrs, AfterReset(p, h) PROVE LocksInOrder'
  <2>1. PICK z \in Zones :
        /\ \A y \in Zones \ {z} : zone'[y] = zone[y]
        /\ IsStored(zone'[z], zone[z], Header, zone[z].lock)
        /\ hurt' \subseteq hurt \cup {<<z, "raced">>}
    BY <1>10 DEF AfterReset
  <2>2. KeepsReason(zone'[z], zone[z])
    BY <2>1 DEF IsStored, KeepsReason
  <2>3. \A y \in Zones : <<y, "unlocked">> \in hurt' => <<y, "unlocked">> \in hurt
    BY <2>1
  <2> QED
    BY <1>1, <2>1, <2>2, <2>3, OneReason, ReasonKept
<1>11. ASSUME NEW h \in Addrs, AfterFree(p, h) PROVE LocksInOrder'
  <2>1. zone' = zone /\ hurt' = hurt
    BY <1>11 DEF AfterFree, Releases
  <2> QED
    BY <1>1, <1>2, <2>1, ReasonKept
<1>12. ASSUME NEW h \in Addrs, AfterDestroy(p, h) PROVE LocksInOrder'
  <2>1. PICK z \in Zones :
        /\ \A y \in Zones \ {z} : zone'[y] = zone[y]
        /\ \E k \in {zone[z].kind, "gone"} : IsTorn(zone'[z], zone[z], k)
        /\ hurt' = hurt
    BY <1>12, Zenon DEF AfterDestroy, Releases
  <2>2. KeepsReason(zone'[z], zone[z])
    BY <2>1 DEF IsTorn, KeepsReason
  <2> QED
    BY <1>1, <2>1, <2>2, OneReason, ReasonKept
<1>13. CASE AfterGone(p)
  <2>1. hurt' = hurt /\ \A z \in Zones : zone'[z] = zone[z] \/ IsOrphan(zone'[z], zone[z])
    BY <1>13 DEF AfterGone
  <2>2. \A z \in Zones : KeepsReason(zone'[z], zone[z])
    BY <2>1 DEF IsOrphan, SameUse, KeepsReason
  <2> QED
    BY <1>1, <2>1, <2>2, ReasonKept
<1> QED
  BY <1>3, <1>4, <1>5, <1>6, <1>7, <1>8, <1>9, <1>10, <1>11, <1>12, <1>13
  DEF Effect, AfterDie, AfterFault

-----------------------------------------------------------------------------
(* Exclusion.                                                              *)

(* What a process in a call relies on, if it has the mutex. *)
KeepsUse(r, o, q) ==
  /\ r.off = o.off /\ (o.master => r.master)
  /\ o.lock = q => r.lock = q

(* A process that a step leaves alone, or takes memory from. *)
LEMMA UseKept ==
  ASSUME NEW q, NEW z, UsesInOrder(q, z), at'[q] = at[q], maps'[q] = maps[q],
         ptrs'[q] = ptrs[q], KeepsUse(zone'[z], zone[z], q)
  PROVE  UsesInOrder(q, z)'
<1>1. (Creating(q)' <=> Creating(q)) /\ (InCall(q)' <=> InCall(q)) /\ Fresh(q)' = Fresh(q)
  BY DEF Creating, InCall, Fresh
<1> QED
  BY <1>1 DEF UsesInOrder, KeepsUse

(* A process that is in no call after the step. *)
LEMMA UseOut ==
  ASSUME NEW p, NEW z, ~InCall(p)',
         \A a \in ptrs'[p] : maps'[p][a] = z =>
           zone'[z].master \/ (Creating(p)' /\ z = Fresh(p)')
  PROVE  UsesInOrder(p, z)'
  BY DEF UsesInOrder

LEMMA ExclusiveKept ==
  ASSUME NEW z, ExclusiveAt(z), z \in clash' => z \in clash,
         zone'[z].off = zone[z].off, zone'[z].master = zone[z].master,
         zone'[z].master => zone'[z].cap = zone[z].cap,
         \A x \in given' : x[1] = z => x \in given,
         \A q \in alive' : UsesInOrder(q, z)'
  PROVE  ExclusiveAt(z)'
  BY DEF ExclusiveAt

LEMMA SameUser == ASSUME NEW o, NEW q PROVE KeepsUse(o, o, q)
  BY DEF KeepsUse

(* A step that hands nothing out, and after which the process is in no     *)
(* call.                                                                   *)
LEMMA ExclusiveStay ==
  ASSUME VmaInv, NEW p \in Procs, NEW z \in Zones, ExclusiveAt(z),
         alive' \subseteq alive, given' = given, clash' = clash,
         zone'[z].off = zone[z].off, zone'[z].master = zone[z].master,
         zone'[z].master => zone'[z].cap = zone[z].cap,
         \A q \in alive \ {p} :
           /\ at'[q] = at[q] /\ maps'[q] = maps[q] /\ ptrs'[q] = ptrs[q]
           /\ zone[z].lock = q => zone'[z].lock = q,
         p \in alive' => UsesInOrder(p, z)'
  PROVE  ExclusiveAt(z)'
<1>1. ASSUME NEW q \in alive', q # p PROVE UsesInOrder(q, z)'
  <2>1. UsesInOrder(q, z) /\ KeepsUse(zone'[z], zone[z], q)
    BY <1>1 DEF ExclusiveAt, KeepsUse
  <2> QED
    BY <1>1, <2>1, UseKept
<1> QED
  BY <1>1, ExclusiveKept

LEMMA ExclusiveOpen ==
  ASSUME VmaInv, NEW p \in Procs, AfterOpen(p), NEW z \in Zones, ExclusiveAt(z)
  PROVE  ExclusiveAt(z)'
<1>1. /\ Ready(p) /\ UNCHANGED <<zone, alive, maps, ptrs, given, clash>>
      /\ at'[p].pc = "size" /\ \A q \in Procs \ {p} : at'[q] = at[q]
  BY DEF AfterOpen
<1>2. UsesInOrder(p, z) /\ ~Creating(p) /\ ~InCall(p)' /\ alive \subseteq Procs
  BY <1>1, IdleMakes DEF Ready, ExclusiveAt, InCall, VmaInv, TypeOK
<1>3. UsesInOrder(p, z)'
  BY <1>1, <1>2, UseOut DEF UsesInOrder
<1> QED
  BY <1>1, <1>2, <1>3, ExclusiveStay

LEMMA ExclusiveSize ==
  ASSUME VmaInv, NEW p \in Procs, NEW a \in Addrs, AfterSize(p, a),
         NEW z \in Zones, ExclusiveAt(z)
  PROVE  ExclusiveAt(z)'
<1>1. /\ p \in alive /\ Creating(p) /\ Creating(p)' /\ ~InCall(p)' /\ Fresh(p)' = Fresh(p)
      /\ UNCHANGED <<alive, ptrs, given, clash>> /\ alive \subseteq Procs
      /\ \A q \in Procs \ {p} : at'[q] = at[q] /\ maps'[q] = maps[q]
      /\ \A b \in Addrs : maps'[p][b] = IF b = a THEN Fresh(p) ELSE maps[p][b]
  BY DEF AfterSize, Creating, InCall, Fresh, VmaInv, TypeOK
<1>2. zone'[z] = zone[z] \/ IsSized(zone'[z], zone[z])
  BY DEF AfterSize
<1>3. /\ zone'[z].off = zone[z].off /\ zone'[z].master = zone[z].master
      /\ zone'[z].cap = zone[z].cap /\ zone'[z].lock = zone[z].lock
  BY <1>2 DEF IsSized, SameUse, SameBounds
<1>4. UsesInOrder(p, z) /\ ptrs[p] \subseteq Addrs
  BY <1>1 DEF ExclusiveAt, VmaInv, TypeOK
<1>5. UsesInOrder(p, z)'
  BY <1>1, <1>3, <1>4, UseOut, Zenon DEF UsesInOrder
<1> QED
  BY <1>1, <1>3, <1>5, ExclusiveStay

LEMMA ExclusiveFails ==
  ASSUME VmaInv, NEW p \in Procs, AfterFails(p), NEW z \in Zones, ExclusiveAt(z)
  PROVE  ExclusiveAt(z)'
<1>1. /\ p \in alive /\ Creating(p) /\ ~InCall(p)' /\ at[p].pc = "size"
      /\ UNCHANGED <<zone, alive, maps, ptrs, given, clash>> /\ alive \subseteq Procs
      /\ \A q \in Procs \ {p} : at'[q] = at[q]
  BY DEF AfterFails, Creating, InCall, VmaInv, TypeOK
<1>2. UsesInOrder(p, z) /\ ptrs[p] \subseteq Addrs /\ MakerInOrder(p)
  BY <1>1 DEF ExclusiveAt, VmaInv, TypeOK, MakersInOrder
<1>3. \A a \in ptrs[p] : maps[p][a] # Fresh(p)
  BY <1>1, <1>2, Zenon DEF MakerInOrder
<1>4. UsesInOrder(p, z)'
  BY <1>1, <1>2, <1>3, UseOut DEF UsesInOrder
<1> QED
  BY <1>1, <1>4, ExclusiveStay

LEMMA ExclusiveBounds ==
  ASSUME VmaInv, NEW p \in Procs, AfterBounds(p), NEW z \in Zones, ExclusiveAt(z)
  PROVE  ExclusiveAt(z)'
<1>1. /\ p \in alive /\ Creating(p) /\ Creating(p)' /\ ~InCall(p)' /\ Fresh(p)' = Fresh(p)
      /\ UNCHANGED <<alive, maps, ptrs, given, clash>> /\ alive \subseteq Procs
      /\ \A q \in Procs \ {p} : at'[q] = at[q]
  BY DEF AfterBounds, Creating, InCall, Fresh, VmaInv, TypeOK
<1>2. \/ zone'[z] = zone[z]
      \/ z = Fresh(p) /\ SameUse(zone'[z], zone[z]) /\ SameMutex(zone'[z], zone[z])
  BY Zenon DEF AfterBounds, IsBound
<1>3. ~zone[Fresh(p)].master
  BY <1>1 DEF VmaInv, MakersInOrder, MakerInOrder
<1>4. /\ zone'[z].off = zone[z].off /\ zone'[z].master = zone[z].master
      /\ zone'[z].master => zone'[z].cap = zone[z].cap
      /\ zone'[z].lock = zone[z].lock
  BY <1>2, <1>3 DEF SameUse, SameMutex
<1>5. UsesInOrder(p, z)
  BY <1>1 DEF ExclusiveAt
<1>6. UsesInOrder(p, z)'
  BY <1>1, <1>4, <1>5, UseOut DEF UsesInOrder
<1> QED
  BY <1>1, <1>4, <1>6, ExclusiveStay

LEMMA ExclusiveReady ==
  ASSUME VmaInv, NEW p \in Procs, NEW s \in BOOLEAN, AfterReady(p, s),
         NEW z \in Zones, ExclusiveAt(z)
  PROVE  ExclusiveAt(z)'
<1>1. /\ p \in alive /\ Creating(p) /\ ~InCall(p)' /\ at[p].pc = "offset"
      /\ UNCHANGED <<alive, maps, given, clash>> /\ alive \subseteq Procs
      /\ ptrs'[p] = ptrs[p] \cup {at[p].h} /\ maps[p][at[p].h] = Fresh(p)
      /\ \A q \in Procs \ {p} : at'[q] = at[q] /\ ptrs'[q] = ptrs[q]
      /\ \A y \in Zones \ {Fresh(p)} : zone'[y] = zone[y]
  BY Zenon DEF AfterReady, Creating, InCall, VmaInv, TypeOK
<1>2. /\ ~zone[Fresh(p)].master /\ zone[Fresh(p)].cap = Capacity[Fresh(p)]
  BY <1>1 DEF VmaInv, MakersInOrder, MakerInOrder
<1>3. UsesInOrder(p, z)
  BY <1>1 DEF ExclusiveAt
<1>4. CASE z # Fresh(p)
  <2>1. zone'[z] = zone[z]
    BY <1>1, <1>4
  <2>2. UsesInOrder(p, z)'
    BY <1>1, <1>3, <1>4, <2>1, UseOut DEF UsesInOrder
  <2> QED
    BY <1>1, <2>1, <2>2, ExclusiveStay
<1>5. CASE z = Fresh(p)
  <2>1. zone'[z].master /\ zone'[z].off = Header /\ zone'[z].cap = zone[z].cap
    BY <1>5, Zenon DEF AfterReady, IsReady, SameBounds
  <2>2. \A x \in given : x[1] # z
    BY <1>2, <1>5 DEF ExclusiveAt
  <2>3. ASSUME NEW q \in alive', q # p PROVE UsesInOrder(q, z)'
    <3>1. UsesInOrder(q, z) /\ at'[q] = at[q] /\ maps'[q] = maps[q] /\ ptrs'[q] = ptrs[q] /\ q \in Procs
      BY <1>1, <2>3 DEF ExclusiveAt
    <3>2. InCall(q) => at[q].h \in ptrs[q] /\ ~Creating(q)
      BY <3>1 DEF VmaInv, CallsInOrder, CallInOrder, InCall, Creating
    <3>3. ~(InCall(q) /\ maps[q][at[q].h] = z)
      BY <1>2, <1>5, <3>1, <3>2 DEF UsesInOrder
    <3>4. ~(InCall(q)' /\ maps'[q][at'[q].h] = z)
      BY <3>1, <3>3 DEF InCall
    <3> QED
      BY <2>1, <3>4 DEF UsesInOrder
  <2>4. UsesInOrder(p, z)'
    BY <1>1, <2>1, UseOut
  <2>5. z \notin clash' /\ given' = given
    BY <1>1 DEF ExclusiveAt
  <2>6. zone'[z].cap = Capacity[z] /\ Header <= zone'[z].off
    BY <1>2, <1>5, <2>1
  <2> QED
    BY <2>2, <2>3, <2>4, <2>5, <2>6 DEF ExclusiveAt
<1> QED
  BY <1>4, <1>5

LEMMA ExclusiveAttach ==
  ASSUME VmaInv, NEW p \in Procs, NEW a \in Addrs, AfterAttach(p, a),
         NEW z \in Zones, ExclusiveAt(z), Whole(z)'
  PROVE  ExclusiveAt(z)'
<1>1. /\ Ready(p) /\ UNCHANGED <<zone, alive, at, given, clash>> /\ alive \subseteq Procs
      /\ \A q \in Procs \ {p} : maps'[q] = maps[q] /\ ptrs'[q] = ptrs[q]
      /\ \A b \in Addrs : maps'[p][b] = IF b = a THEN link ELSE maps[p][b]
      /\ ptrs'[p] = ptrs[p] \cup {a} /\ ptrs[p] \subseteq Addrs
  BY DEF AfterAttach, VmaInv, TypeOK
<1>2. z = link => zone[z].master
  BY DEF AfterAttach, Whole
<1>3. UsesInOrder(p, z) /\ ~Creating(p) /\ ~InCall(p)'
  BY <1>1, IdleMakes DEF Ready, ExclusiveAt, InCall
<1>4. UsesInOrder(p, z)'
  <2>1. \A b \in ptrs[p] : maps[p][b] = z => zone[z].master
    BY <1>3, Zenon DEF UsesInOrder
  <2> QED
    BY <1>1, <1>2, <1>3, <2>1, UseOut
<1> QED
  BY <1>1, <1>4, ExclusiveStay

(* Whoever is inside vma_alloc() in a whole zone has its mutex, and the    *)
(* zone is ready.                                                          *)
LEMMA UserHolds ==
  ASSUME VmaInv, NEW z \in Zones, ExclusiveAt(z), NEW q \in alive, InCall(q),
         maps[q][at[q].h] = z
  PROVE  zone[z].lock = q /\ zone[z].master /\ (at[q].pc = "store" => at[q].off = zone[z].off)
<1>1. UsesInOrder(q, z) /\ q \in Procs
  BY DEF ExclusiveAt, VmaInv, TypeOK
<1>2. at[q].h \in ptrs[q] /\ ~Creating(q)
  BY <1>1 DEF VmaInv, CallsInOrder, CallInOrder, InCall, Creating
<1> QED
  BY <1>1, <1>2 DEF UsesInOrder

LEMMA ExclusiveLock ==
  ASSUME VmaInv, NEW p \in Procs, NEW h \in Addrs, NEW u \in Sizes, AfterLock(p, h, u),
         NEW z \in Zones, ExclusiveAt(z), Whole(z)'
  PROVE  ExclusiveAt(z)'
<1>1. /\ Ready(p) /\ UNCHANGED <<alive, maps, ptrs, given, clash>> /\ alive \subseteq Procs
      /\ \A q \in Procs \ {p} : at'[q] = at[q]
      /\ at'[p].pc = "load" /\ at'[p].h = h
  BY DEF AfterLock, VmaInv, TypeOK
<1>2. UsesInOrder(p, z) /\ ~Creating(p)
  BY <1>1, IdleMakes DEF Ready, ExclusiveAt
<1>3. \/ maps[p][h] # z /\ zone'[z] = zone[z]
      \/ zone[z].lock = "free" /\ HasLock(zone'[z], zone[z], p)
      \/ zone[z].lock = p /\ zone'[z] = zone[z]
  <2>1. CASE maps[p][h] # z
    BY <2>1 DEF AfterLock
  <2>2. CASE maps[p][h] = z
    BY <2>2 DEF AfterLock, Whole
  <2> QED
    BY <2>1, <2>2
<1>4. /\ zone'[z].off = zone[z].off /\ zone'[z].master = zone[z].master
      /\ zone'[z].cap = zone[z].cap
      /\ zone[z].lock \in Procs => zone'[z].lock = zone[z].lock
  BY <1>3 DEF HasLock, SameUse, SameBounds
<1>5. maps[p][h] = z => zone'[z].lock = p
  BY <1>3 DEF HasLock
<1>6. UsesInOrder(p, z)'
  BY <1>1, <1>2, <1>4, <1>5 DEF UsesInOrder
<1> QED
  BY <1>1, <1>4, <1>6, ExclusiveStay

LEMMA ExclusiveLoad ==
  ASSUME VmaInv, NEW p \in Procs, AfterLoad(p), NEW z \in Zones, ExclusiveAt(z)
  PROVE  ExclusiveAt(z)'
<1>1. /\ p \in alive /\ UNCHANGED <<zone, alive, maps, ptrs, given, clash>>
      /\ alive \subseteq Procs /\ InCall(p) /\ ~Creating(p) /\ ~Creating(p)'
      /\ \A q \in Procs \ {p} : at'[q] = at[q]
      /\ at'[p].h = at[p].h /\ at'[p].off = zone[maps[p][at[p].h]].off
  BY DEF AfterLoad, VmaInv, TypeOK, InCall, Creating
<1>2. UsesInOrder(p, z)
  BY <1>1 DEF ExclusiveAt
<1>3. UsesInOrder(p, z)'
  BY <1>1, <1>2 DEF UsesInOrder
<1> QED
  BY <1>1, <1>3, ExclusiveStay

LEMMA Within ==
  ASSUME NEW lo \in Nat, NEW u \in Nat, NEW low \in Nat, NEW cap \in Nat, low <= lo, lo + u <= cap
  PROVE  lo .. lo + u - 1 \subseteq low .. cap - 1
<1> SUFFICES ASSUME NEW i \in lo .. lo + u - 1 PROVE i \in low .. cap - 1
  OBVIOUS
<1> QED
  OBVIOUS

LEMMA ExclusiveStore ==
  ASSUME VmaInv, NEW p \in Procs, AfterStore(p), NEW z \in Zones, ExclusiveAt(z)
  PROVE  ExclusiveAt(z)'
<1>1. /\ p \in alive /\ UNCHANGED <<alive, maps, ptrs>> /\ alive \subseteq Procs
      /\ InCall(p) /\ ~InCall(p)' /\ ~Creating(p) /\ at[p].pc = "store"
      /\ \A q \in Procs \ {p} : at'[q] = at[q]
  BY Zenon DEF AfterStore, VmaInv, TypeOK, InCall, Creating
<1>2. UsesInOrder(p, z)
  BY <1>1 DEF ExclusiveAt
<1>3. CASE maps[p][at[p].h] # z
  <2>1. zone'[z] = zone[z]
    BY <1>3, Zenon DEF AfterStore
  <2>2. (z \in clash' => z \in clash) /\ \A x \in given' : x[1] = z => x \in given
    BY <1>3, Zenon DEF AfterStore
  <2>3. UsesInOrder(p, z)'
    BY <1>1, <1>2, <2>1, UseOut DEF UsesInOrder
  <2>4. ASSUME NEW q \in alive', q # p PROVE UsesInOrder(q, z)'
    <3>1. UsesInOrder(q, z) /\ KeepsUse(zone'[z], zone[z], q) /\ q \in Procs
      BY <1>1, <2>1, SameUser DEF ExclusiveAt
    <3> QED
      BY <1>1, <2>4, <3>1, UseKept
  <2> QED
    BY <2>1, <2>2, <2>3, <2>4, ExclusiveKept
<1>4. CASE maps[p][at[p].h] = z
  <2> DEFINE lo == at[p].off
             hi == lo + at[p].u
             new == lo .. lo + at[p].u - 1
  <2>1. zone[z].lock = p /\ zone[z].master /\ lo = zone[z].off
    BY <1>1, <1>4, UserHolds
  <2>2. /\ zone[z].cap = Capacity[z] /\ Header <= lo /\ z \notin clash
        /\ \A x \in given : x[1] = z => x[2] \in Header .. lo - 1
    BY <2>1 DEF ExclusiveAt
  <2>3. /\ lo \in Nat /\ hi \in Nat /\ Capacity[z] \in Nat /\ Header \in Nat
        /\ at[p].u \in Nat
    <3>1. at[p] \in Places
      BY DEF VmaInv, TypeOK
    <3> QED
      BY <3>1, PlaceFields, Zenon DEF AfterStore, Zones
  <2>4. PICK n, l : /\ IsStored(zone'[z], zone[z], n, l)
                    /\ n = IF hi <= zone[z].cap THEN hi ELSE lo
    BY <1>4, <2>1 DEF AfterStore
  <2>5. /\ zone'[z].off = n /\ zone'[z].master /\ zone'[z].cap = Capacity[z]
        /\ lo <= n /\ n \in Nat
    BY <2>1, <2>2, <2>3, <2>4 DEF IsStored, SameBounds
  <2>6. given \cap ({z} \X new) = {}
    <3>1. ASSUME NEW x \in given, x \in {z} \X new PROVE FALSE
      <4>1. x[1] = z /\ x[2] \in new /\ x[2] \in Header .. lo - 1
        BY <2>2, <3>1
      <4> QED
        BY <2>3, <4>1
    <3> QED
      BY <3>1
  <2>7. hi <= zone[z].cap => new \subseteq Header .. Capacity[z] - 1
    BY <2>2, <2>3, Within, Zenon
  <2>8. z \notin clash'
    <3>1. clash' = IF hi <= zone[z].cap /\ ~(new \subseteq Header .. Capacity[z] - 1
                                             /\ given \cap ({z} \X new) = {})
                   THEN clash \cup {z} ELSE clash
      BY <1>4 DEF AfterStore
    <3> QED
      BY <2>2, <2>6, <2>7, <3>1
  <2>9. \A x \in given' : x[1] = z => x[2] \in Header .. zone'[z].off - 1
    <3>1. given' = IF hi <= zone[z].cap THEN given \cup ({z} \X new) ELSE given
      BY <1>4 DEF AfterStore
    <3>2. ASSUME NEW x \in given', x[1] = z PROVE x[2] \in Header .. zone'[z].off - 1
      <4>1. CASE x \in given
        <5>1. x[2] \in Header .. lo - 1
          BY <2>2, <3>2, <4>1
        <5> QED
          BY <2>3, <2>5, <5>1
      <4>2. CASE x \notin given
        <5>1. x \in {z} \X new /\ hi <= zone[z].cap
          BY <3>1, <4>2
        <5>2. x[2] \in new /\ n = hi
          BY <2>4, <5>1
        <5>3. zone'[z].off = lo + at[p].u
          BY <2>5, <5>2
        <5> HIDE DEF hi
        <5> QED
          BY <2>2, <2>3, <5>2, <5>3, Within
      <4> QED
        BY <4>1, <4>2
    <3> QED
      BY <3>2
  <2>10. ASSUME NEW q \in alive' PROVE UsesInOrder(q, z)'
    <3>1. CASE q = p
      BY <1>1, <2>5, <3>1, UseOut
    <3>2. CASE q # p
      <4>1. q \in alive /\ q \in Procs /\ at'[q] = at[q] /\ maps'[q] = maps[q]
        BY <1>1, <3>2
      <4>2. ~(InCall(q) /\ maps[q][at[q].h] = z)
        BY <2>1, <3>2, <4>1, UserHolds
      <4>3. ~(InCall(q)' /\ maps'[q][at'[q].h] = z)
        BY <4>1, <4>2 DEF InCall
      <4> QED
        BY <2>5, <4>3 DEF UsesInOrder
    <3> QED
      BY <3>1, <3>2
  <2>11. Header <= zone'[z].off
    BY <2>2, <2>3, <2>5
  <2> QED
    BY <2>5, <2>8, <2>9, <2>10, <2>11 DEF ExclusiveAt
<1> QED
  BY <1>3, <1>4

LEMMA ExclusiveReset ==
  ASSUME VmaInv, NEW p \in Procs, NEW h \in Addrs, AfterReset(p, h),
         NEW z \in Zones, ExclusiveAt(z), Whole(z)'
  PROVE  ExclusiveAt(z)'
<1>1. UNCHANGED <<alive, maps, ptrs, at, clash>>
  BY DEF AfterReset
<1>2. CASE maps[p][h] # z
  <2>1. zone'[z] = zone[z] /\ \A x \in given' : x \in given
    BY <1>2 DEF AfterReset
  <2>2. ASSUME NEW q \in alive' PROVE UsesInOrder(q, z)'
    <3>1. UsesInOrder(q, z) /\ KeepsUse(zone'[z], zone[z], q)
      BY <1>1, <2>1, SameUser DEF ExclusiveAt
    <3> QED
      BY <1>1, <3>1, UseKept
  <2> QED
    BY <1>1, <2>1, <2>2, ExclusiveKept
<1>3. CASE maps[p][h] = z
  <2>1. Users(z) = {}
    BY <1>3 DEF AfterReset, Whole
  <2>2. IsStored(zone'[z], zone[z], Header, zone[z].lock) /\ \A x \in given' : x[1] # z
    BY <1>3 DEF AfterReset
  <2>3. /\ zone'[z].off = Header /\ zone'[z].master = zone[z].master
        /\ zone'[z].cap = zone[z].cap
    BY <2>2 DEF IsStored, SameBounds
  <2>4. ASSUME NEW q \in alive' PROVE UsesInOrder(q, z)'
    <3>1. UsesInOrder(q, z) /\ ~(InCall(q) /\ maps[q][at[q].h] = z)
      BY <1>1, <2>1 DEF ExclusiveAt, Users, InCall
    <3>2. /\ (Creating(q)' <=> Creating(q)) /\ (InCall(q)' <=> InCall(q))
          /\ Fresh(q)' = Fresh(q)
      BY <1>1 DEF Creating, InCall, Fresh
    <3> QED
      BY <1>1, <2>3, <3>1, <3>2 DEF UsesInOrder
  <2>5. z \notin clash' /\ (zone[z].master => zone[z].cap = Capacity[z])
    BY <1>1 DEF ExclusiveAt
  <2> QED
    BY <2>2, <2>3, <2>4, <2>5 DEF ExclusiveAt
<1> QED
  BY <1>2, <1>3

(* vma_free() and vma_destroy(). *)
LEMMA ExclusiveRelease ==
  ASSUME VmaInv, NEW p \in Procs, NEW h \in Addrs, Releases(p, h),
         NEW z \in Zones, ExclusiveAt(z), zone'[z] = zone[z] \/ \E k : IsTorn(zone'[z], zone[z], k)
  PROVE  ExclusiveAt(z)'
<1>1. /\ zone'[z].off = zone[z].off /\ zone'[z].master = zone[z].master
      /\ zone'[z].cap = zone[z].cap /\ zone'[z].lock = zone[z].lock
  BY DEF IsTorn, SameBounds
<1>2. /\ Ready(p) /\ UNCHANGED <<alive, at, given, clash>> /\ alive \subseteq Procs
      /\ ptrs'[p] \subseteq ptrs[p] /\ ptrs[p] \subseteq Addrs
      /\ \A q \in Procs \ {p} : maps'[q] = maps[q] /\ ptrs'[q] = ptrs[q]
      /\ \A a \in Addrs : maps'[p][a] \in {0, maps[p][a]}
  BY DEF Releases, VmaInv, TypeOK
<1>3. UsesInOrder(p, z) /\ ~InCall(p)' /\ ~Creating(p) /\ z # 0
  BY <1>2, IdleMakes DEF Ready, ExclusiveAt, InCall, Zones
<1>4. UsesInOrder(p, z)'
  <2>1. \A a \in ptrs[p] : maps[p][a] = z => zone[z].master
    BY <1>3, Zenon DEF UsesInOrder
  <2>2. ASSUME NEW a \in ptrs'[p], maps'[p][a] = z PROVE zone'[z].master
    <3>1. a \in ptrs[p] /\ maps[p][a] = z
      BY <1>2, <1>3, <2>2
    <3> QED
      BY <1>1, <2>1, <3>1
  <2> QED
    BY <1>3, <2>2, UseOut
<1> QED
  BY <1>1, <1>2, <1>4, ExclusiveStay

LEMMA ExclusiveFork ==
  ASSUME VmaInv, NEW p \in Procs, NEW q \in Procs, AfterFork(p, q),
         NEW z \in Zones, ExclusiveAt(z)
  PROVE  ExclusiveAt(z)'
<1>1. /\ Ready(p) /\ UNCHANGED <<zone, at, given, clash>> /\ alive \subseteq Procs
      /\ alive' = alive \cup {q} /\ at[q] = Idle /\ p # q
      /\ maps'[q] = maps[p] /\ ptrs'[q] = ptrs[p]
      /\ \A r \in Procs \ {q} : maps'[r] = maps[r] /\ ptrs'[r] = ptrs[r]
  BY DEF AfterFork, VmaInv, TypeOK
<1>2. UsesInOrder(p, z) /\ ~Creating(p) /\ ~InCall(q)'
  BY <1>1, IdleMakes, IdleShape DEF Ready, ExclusiveAt, InCall
<1>3. UsesInOrder(q, z)'
  BY <1>1, <1>2, UseOut DEF UsesInOrder
<1>4. ASSUME NEW r \in alive', r # q PROVE UsesInOrder(r, z)'
  <2>1. UsesInOrder(r, z) /\ KeepsUse(zone'[z], zone[z], r) /\ r \in Procs
    BY <1>1, <1>4, SameUser DEF ExclusiveAt
  <2> QED
    BY <1>1, <1>4, <2>1, UseKept
<1> QED
  BY <1>1, <1>3, <1>4, ExclusiveKept

LEMMA ExclusiveGone ==
  ASSUME VmaInv, NEW p \in Procs, AfterGone(p), NEW z \in Zones, ExclusiveAt(z)
  PROVE  ExclusiveAt(z)'
<1>1. /\ UNCHANGED <<given, clash>> /\ alive' = alive \ {p} /\ alive \subseteq Procs
      /\ \A q \in Procs \ {p} : at'[q] = at[q] /\ maps'[q] = maps[q] /\ ptrs'[q] = ptrs[q]
  BY DEF AfterGone, VmaInv, TypeOK
<1>2. zone'[z] = zone[z] \/ (zone[z].lock = p /\ IsOrphan(zone'[z], zone[z]))
  BY DEF AfterGone
<1>3. /\ zone'[z].off = zone[z].off /\ zone'[z].master = zone[z].master
      /\ zone'[z].cap = zone[z].cap
      /\ zone[z].lock # p => zone'[z].lock = zone[z].lock
  BY <1>2 DEF IsOrphan, SameBounds, SameUse
<1> QED
  BY <1>1, <1>3, ExclusiveStay

(* What a zone has lost it never gets back. *)
LEMMA HurtStays == ASSUME NEW p \in Procs, Effect(p) PROVE hurt \subseteq hurt'
<1>1. CASE \/ AfterOpen(p) \/ AfterFails(p) \/ AfterBounds(p)
           \/ \E a \in Addrs : AfterSize(p, a)
           \/ \E s \in BOOLEAN : AfterReady(p, s)
  BY <1>1, Zenon DEF AfterOpen, AfterFails, AfterBounds, AfterSize, AfterReady
<1>2. CASE \/ \E a \in Addrs : AfterAttach(p, a)
           \/ \E h \in Addrs, u \in Sizes : AfterLock(p, h, u)
           \/ \E h \in Addrs : AfterReset(p, h)
  <2>1. \E x : hurt' = hurt \/ hurt' = hurt \cup {x}
    BY <1>2 DEF AfterAttach, AfterLock, AfterReset
  <2> QED
    BY <2>1
<1>3. CASE \/ AfterLoad(p) \/ AfterStore(p)
           \/ \E h \in Addrs : AfterFree(p, h) \/ AfterDestroy(p, h)
  BY <1>3, Zenon DEF AfterLoad, AfterStore, AfterFree, AfterDestroy, Releases
<1>4. CASE (\E q \in Procs : AfterFork(p, q)) \/ AfterDie(p) \/ AfterFault(p)
  BY <1>4 DEF AfterFork, AfterDie, AfterFault, AfterGone
<1> QED
  BY <1>1, <1>2, <1>3, <1>4 DEF Effect

LEMMA ExclusiveStep ==
  ASSUME VmaInv, NEW p \in Procs, Effect(p)
  PROVE  Exclusive'
<1> SUFFICES ASSUME NEW z \in Zones, Whole(z)' PROVE ExclusiveAt(z)'
  BY DEF Exclusive
<1>1. ExclusiveAt(z)
  BY HurtStays DEF VmaInv, Exclusive, Whole
<1>2. CASE AfterOpen(p)
  BY <1>1, <1>2, ExclusiveOpen
<1>3. ASSUME NEW a \in Addrs, AfterSize(p, a) PROVE ExclusiveAt(z)'
  BY <1>1, <1>3, ExclusiveSize
<1>4. CASE AfterFails(p)
  BY <1>1, <1>4, ExclusiveFails
<1>5. CASE AfterBounds(p)
  BY <1>1, <1>5, ExclusiveBounds
<1>6. ASSUME NEW s \in BOOLEAN, AfterReady(p, s) PROVE ExclusiveAt(z)'
  BY <1>1, <1>6, ExclusiveReady
<1>7. ASSUME NEW a \in Addrs, AfterAttach(p, a) PROVE ExclusiveAt(z)'
  BY <1>1, <1>7, ExclusiveAttach
<1>8. ASSUME NEW h \in Addrs, NEW u \in Sizes, AfterLock(p, h, u) PROVE ExclusiveAt(z)'
  BY <1>1, <1>8, ExclusiveLock
<1>9. CASE AfterLoad(p)
  BY <1>1, <1>9, ExclusiveLoad
<1>10. CASE AfterStore(p)
  BY <1>1, <1>10, ExclusiveStore
<1>11. ASSUME NEW h \in Addrs, AfterReset(p, h) PROVE ExclusiveAt(z)'
  BY <1>1, <1>11, ExclusiveReset
<1>12. ASSUME NEW h \in Addrs, AfterFree(p, h) PROVE ExclusiveAt(z)'
  <2>1. Releases(p, h) /\ zone'[z] = zone[z]
    BY <1>12 DEF AfterFree
  <2> QED
    BY <1>1, <2>1, ExclusiveRelease
<1>13. ASSUME NEW h \in Addrs, AfterDestroy(p, h) PROVE ExclusiveAt(z)'
  <2>1. Releases(p, h) /\ (zone'[z] = zone[z] \/ \E k : IsTorn(zone'[z], zone[z], k))
    BY <1>13 DEF AfterDestroy
  <2> QED
    BY <1>1, <2>1, ExclusiveRelease
<1>14. ASSUME NEW q \in Procs, AfterFork(p, q) PROVE ExclusiveAt(z)'
  BY <1>1, <1>14, ExclusiveFork
<1>15. CASE AfterGone(p)
  BY <1>1, <1>15, ExclusiveGone
<1> QED
  BY <1>2, <1>3, <1>4, <1>5, <1>6, <1>7, <1>8, <1>9, <1>10, <1>11, <1>12, <1>13,
     <1>14, <1>15 DEF Effect, AfterDie, AfterFault

-----------------------------------------------------------------------------
(* The theorems.                                                           *)

LEMMA InitTypes == Init => TypeOK
<1> SUFFICES ASSUME Init PROVE TypeOK
  OBVIOUS
<1>1. Blank \in ZoneStates /\ Blank.off = 0 /\ Blank.cap = 0
  BY DEF Blank, ZoneStates, Locks
<1>2. zone \in [Zones -> ZoneStates] /\ \A z \in Zones : zone[z] = Blank
  BY <1>1 DEF Init
<1>3. \A z \in Zones : zone[z].off <= zone[z].cap \/ zone[z].off <= Header
  BY <1>1, <1>2
<1>4. at \in [Procs -> Places]
  BY IdleShape DEF Init
<1>5. /\ made \in Zones \cup {0} /\ link \in Zones \cup {0} /\ alive \subseteq Procs
      /\ maps \in [Procs -> [Addrs -> Zones \cup {0}]]
      /\ fds \in [Procs -> [Fds -> Zones \cup {0}]]
      /\ ptrs \in [Procs -> SUBSET Addrs]
  BY DEF Init
<1>6. PastTypes
  BY Zenon DEF Init, PastTypes
<1> QED
  BY <1>2, <1>3, <1>4, <1>5, <1>6 DEF TypeOK, PastTypes

(* Nothing has been made, and nobody has anything. *)
LEMMA VmaInit == Init => VmaInv
<1> SUFFICES ASSUME Init PROVE VmaInv
  OBVIOUS
<1>1. TypeOK
  BY InitTypes
<1>2. \A p \in Procs : at[p] = Idle /\ ~Creating(p) /\ ~InCall(p) /\ at[p].pc = "idle"
  BY IdleShape DEF Init, Creating, InCall
<1>3. \A p \in Procs : /\ ptrs[p] = {}
                       /\ \A a \in Addrs : maps[p][a] = 0
                       /\ \A f \in Fds : fds[p][f] = 0
  BY DEF Init
<1>4. /\ made = 0 /\ link = 0 /\ given = {} /\ clash = {} /\ hurt = {}
      /\ guests = {} /\ faults = {} /\ twice = FALSE
  BY DEF Init
<1>5. \A z \in Zones : /\ zone[z] = Blank /\ ~zone[z].master
                       /\ zone[z].kind = "none" /\ zone[z].lock = "free"
  BY DEF Init, Blank
<1>6. alive \subseteq Procs
  BY <1>1 DEF TypeOK
<1>7. OnlyGuestsFault /\ NothingLeaks
  BY <1>3, <1>4, <1>6, Zenon DEF OnlyGuestsFault, NothingLeaks
<1>8. CallsInOrder
  BY <1>2, <1>3, <1>4, <1>5 DEF CallsInOrder, CallInOrder
<1>9. MakersInOrder
  BY <1>2 DEF MakersInOrder
<1>10. OwnersKnow
  BY <1>3, <1>6 DEF OwnersKnow, OwnerKnows
<1>11. NameInOrder
  BY <1>2, <1>5 DEF NameInOrder, NameUntilDestroyed
<1>12. LocksInOrder
  BY <1>4, <1>5 DEF LocksInOrder, UnlockedNeedsDeath
<1>13. Exclusive
  BY <1>2, <1>3, <1>4, <1>5, <1>6 DEF Exclusive, ExclusiveAt, UsesInOrder
<1> QED
  BY <1>1, <1>7, <1>8, <1>9, <1>10, <1>11, <1>12, <1>13 DEF VmaInv

LEMMA VmaStutters == VmaInv /\ UNCHANGED vars => VmaInv'
<1> SUFFICES ASSUME VmaInv, UNCHANGED vars PROVE VmaInv'
  OBVIOUS
<1>1. UNCHANGED <<zone, made, link, alive, maps, fds, ptrs, at, given, clash, hurt,
                  guests, faults, twice>>
  BY DEF vars, spaceVars, pastVars
<1>2. \A p \in Procs : /\ (Creating(p)' <=> Creating(p)) /\ (InCall(p)' <=> InCall(p))
                       /\ Fresh(p)' = Fresh(p)
  BY <1>1 DEF Creating, InCall, Fresh
<1>3. TypeOK' /\ OnlyGuestsFault' /\ NothingLeaks'
  BY <1>1 DEF VmaInv, TypeOK, OnlyGuestsFault, NothingLeaks
<1>4. CallsInOrder'
  BY <1>1 DEF VmaInv, CallsInOrder, CallInOrder, InCall
<1>5. MakersInOrder'
  <2> SUFFICES ASSUME NEW p \in Procs, Creating(p) PROVE MakerInOrder(p)'
    BY <1>2 DEF MakersInOrder
  <2>1. MakerInOrder(p)
    BY DEF VmaInv, MakersInOrder
  <2>2. \A q \in Procs \ {p} : Creating(q)' => Fresh(q)' # Fresh(p)'
    BY <1>2, <2>1 DEF MakerInOrder
  <2>3. \A q \in alive' \ guests' : q # p => Ignorant(q, Fresh(p))'
    <3>1. \A q \in alive \ guests : q # p => Ignorant(q, Fresh(p))
      BY <2>1 DEF MakerInOrder
    <3> QED
      BY <1>1, <1>2, <3>1 DEF Ignorant
  <2>4. TypeOK /\ made \in Nat /\ KeepsObject(zone'[Fresh(p)], zone[Fresh(p)])
    BY <1>1, SameObject DEF VmaInv, TypeOK, Zones
  <2>5. \A q \in Procs \ {p} : Creating(q)' => Fresh(q)' # Fresh(p)
    BY <1>2, <2>2
  <2>6. \A q \in alive' \ guests' : q # p => Ignorant(q, Fresh(p))'
    BY <2>3
  <2> QED
    BY <1>1, <2>1, <2>4, <2>5, <2>6, MakerKept
<1>6. OwnersKnow'
  BY <1>1 DEF VmaInv, OwnersKnow, OwnerKnows, Creating, Fresh
<1>7. NameInOrder' /\ LocksInOrder'
  BY <1>1, <1>2 DEF VmaInv, NameInOrder, NameUntilDestroyed, LocksInOrder, UnlockedNeedsDeath
<1>8. Exclusive'
  BY <1>1 DEF VmaInv, Exclusive, Whole, ExclusiveAt, UsesInOrder, Creating, InCall, Fresh
<1> QED
  BY <1>3, <1>4, <1>5, <1>6, <1>7, <1>8 DEF VmaInv

(* Every step of vma.c, and every death, keeps it. *)
LEMMA VmaSteps == VmaInv /\ [Next]_vars => VmaInv'
<1>1. ASSUME VmaInv, NEW p \in Procs, Step(p) PROVE VmaInv'
  <2>1. Effect(p)
    BY <1>1, StepEffect
  <2>2. TypeOK'
    BY <1>1, <2>1, TypeEffect
  <2>3. CallsInOrder'
    BY <1>1, <2>1, <2>2, CallsEffect
  <2>4. MakersInOrder'
    BY <1>1, <2>1, MakersEffect
  <2>5. OwnersKnow'
    BY <1>1, <2>1, OwnersEffect
  <2>6. OnlyGuestsFault' /\ NothingLeaks'
    BY <1>1, <2>1, <2>5, GuestsEffect, OwnersMean
  <2>7. NameInOrder'
    BY <1>1, <2>1, NameStep
  <2>8. LocksInOrder'
    BY <1>1, <2>1, LocksStep
  <2>9. Exclusive'
    BY <1>1, <2>1, ExclusiveStep
  <2> QED
    BY <2>2, <2>3, <2>4, <2>5, <2>6, <2>7, <2>8, <2>9 DEF VmaInv
<1> QED
  BY <1>1, VmaStutters DEF Next

(* The types, and that a process which made its zones, or inherited them   *)
(* from one that did, dies of none and leaves no mapping and no descriptor *)
(* of one behind, whatever the others do in shared memory.                 *)
THEOREM VmaInvariance == Spec => []VmaInv
<1> QED
  BY VmaInit, VmaSteps, PTL DEF Spec

(* Two calls of vma_alloc() never hand out the same memory, nor a zone's   *)
(* own fields, nor memory past its end, while the zone is whole.           *)
THEOREM Exclusion == Spec => []NoOverlap
<1>1. VmaInv => NoOverlap
  BY DEF VmaInv, TypeOK, Exclusive, ExclusiveAt, NoOverlap
<1> QED
  BY <1>1, VmaInvariance, PTL

(* The lock fails a caller only once the zone has been destroyed or an     *)
(* owner of its mutex has died.                                            *)
THEOREM LockLosses == Spec => []UnlockedNeedsDeath
<1>1. VmaInv => UnlockedNeedsDeath
  BY DEF VmaInv, LocksInOrder
<1> QED
  BY <1>1, VmaInvariance, PTL

(* A zone that is ready keeps its name until it is destroyed, as long as   *)
(* no zone was destroyed twice.                                            *)
THEOREM NameKeeps == Spec => []NameUntilDestroyed
<1>1. VmaInv => NameUntilDestroyed
  BY DEF VmaInv, NameInOrder
<1> QED
  BY <1>1, VmaInvariance, PTL
=============================================================================
