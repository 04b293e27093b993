------------------------- MODULE HeapTrackerProofs -------------------------
(***************************************************************************)
(* Proofs about HeapTracker, for any number of threads, objects and slots, *)
(* and whatever calls are made.  HeapInv is inductive.                     *)
(***************************************************************************)
EXTENDS HeapTracker, FiniteSetTheorems, TLAPS

USE ObjsAssumption, SizesAssumption

LEMMA HeapInit == Init => HeapInv
<1> SUFFICES ASSUME Init PROVE HeapInv
  OBVIOUS
<1>1. TypeOK
  <2>1. active \in 0 .. MaxHeaps /\ allocated \in Nat
    BY DEF Init
  <2>2. size \in [Objs -> 0 .. MaxSize] /\ seen \in [Threads -> 0 .. MaxHeaps]
    BY DEF Init
  <2>3. /\ ptr \in [Slots -> Objs \cup {None}] /\ obj \in [Threads -> Objs \cup {None}]
        /\ pc \in [Threads -> {"idle", "alloc", "free", "health"}]
        /\ fatal \in [Threads -> BOOLEAN] /\ calm \in [Threads -> BOOLEAN]
    BY DEF Init
  <2> QED
    BY <2>1, <2>2, <2>3 DEF Init, TypeOK
<1>2. NoDanglingSlot
  BY DEF Init, NoDanglingSlot
<1>3. CallsExclusive
  BY DEF Init, CallsExclusive, InCall
<1> QED
  BY <1>1, <1>2, <1>3 DEF HeapInv

(* The steps that touch neither the table nor the memory. *)
LEMMA HealthInv ==
  ASSUME HeapInv, NEW t \in Threads, HealthBegin(t) \/ HealthEnd(t)
  PROVE  HeapInv'
<1>1. /\ UNCHANGED <<lock, active, allocated, ptr, size, live, held, obj, draining, mixed>>
      /\ pc[t] \in {"idle", "health"}
      /\ pc' \in {[pc EXCEPT ![t] = "idle"], [pc EXCEPT ![t] = "health"]}
      /\ seen' \in {[seen EXCEPT ![t] = active], [seen EXCEPT ![t] = 0]}
      /\ fatal' \in [Threads -> BOOLEAN] /\ calm' \in [Threads -> BOOLEAN]
  BY DEF HealthBegin, HealthEnd, memVars, historyVars, HeapInv, TypeOK
<1>2. TypeOK'
  BY <1>1 DEF HeapInv, TypeOK
<1>3. NoDanglingSlot'
  BY <1>1 DEF HeapInv, NoDanglingSlot
<1>4. CallsExclusive'
  BY <1>1 DEF HeapInv, CallsExclusive, InCall, TypeOK
<1> QED
  BY <1>2, <1>3, <1>4 DEF HeapInv

LEMMA AllocInv ==
  ASSUME HeapInv, NEW t \in Threads,
         (\E p \in Objs, s \in Sizes : AllocBegin(t, p, s)) \/ AllocEnd(t)
  PROVE  HeapInv'
<1>1. ASSUME NEW p \in Objs, NEW s \in Sizes, AllocBegin(t, p, s)
      PROVE  HeapInv'
  <2>1. /\ UNCHANGED <<allocated, held, seen, fatal, draining>> /\ mixed' \in BOOLEAN
        /\ calm' \in [Threads -> BOOLEAN]
        /\ pc[t] = "idle" /\ lock = None /\ lock' = t
        /\ pc' = [pc EXCEPT ![t] = "alloc"] /\ obj' = [obj EXCEPT ![t] = p]
        /\ active < MaxHeaps /\ active' = active + 1
        /\ p \notin live /\ live' = live \cup {p}
        /\ size' = [size EXCEPT ![p] = s]
        /\ ptr' = [ptr EXCEPT ![active] = p]
    BY <1>1 DEF AllocBegin, Enter, HasRoom, Store, Disturb, healthVars, HeapInv, TypeOK
  <2>2. active \in Slots /\ active' \in 0 .. MaxHeaps
    BY <2>1 DEF HeapInv, TypeOK, Slots
  <2>3. TypeOK'
    BY <2>1, <2>2 DEF HeapInv, TypeOK, Sizes
  <2>4. NoDanglingSlot'
    BY <2>1, <2>2 DEF HeapInv, NoDanglingSlot, TypeOK
  <2>5. \A u \in Threads : pc'[u] \in {"alloc", "free"} => u = t
    BY <2>1 DEF HeapInv, CallsExclusive, InCall, TypeOK
  <2>6. CallsExclusive'
    BY <2>1, <2>5 DEF HeapInv, CallsExclusive, InCall, TypeOK
  <2> QED
    BY <2>3, <2>4, <2>6 DEF HeapInv
<1>2. CASE AllocEnd(t)
  <2>1. /\ UNCHANGED <<active, ptr, size, live, seen, fatal, draining, mixed>>
        /\ calm' \in [Threads -> BOOLEAN]
        /\ pc[t] = "alloc" /\ lock' = None
        /\ pc' = [pc EXCEPT ![t] = "idle"] /\ obj' = [obj EXCEPT ![t] = None]
        /\ allocated' = allocated + size[obj[t]]
        /\ held' = held \cup {obj[t]}
    BY <1>2 DEF AllocEnd, Leave, Disturb, healthVars, historyVars, HeapInv, TypeOK
  <2>2. lock = t /\ obj[t] \in Objs /\ obj[t] \in live /\ size[obj[t]] \in Nat
    BY <2>1 DEF HeapInv, CallsExclusive, InCall, TypeOK
  <2>3. TypeOK'
    BY <2>1, <2>2 DEF HeapInv, TypeOK
  <2>4. NoDanglingSlot'
    BY <2>1 DEF HeapInv, NoDanglingSlot
  <2>5. CallsExclusive'
    BY <2>1, <2>2 DEF HeapInv, CallsExclusive, InCall, TypeOK
  <2> QED
    BY <2>3, <2>4, <2>5 DEF HeapInv
<1> QED
  BY <1>1, <1>2

LEMMA FreeInv ==
  ASSUME HeapInv, NEW t \in Threads,
         (\E p \in held : FreeBegin(t, p) \/ FreeAbort(t, p)) \/ FreeEnd(t)
  PROVE  HeapInv'
<1>1. ASSUME NEW p \in held, FreeBegin(t, p)
      PROVE  HeapInv'
  <2> DEFINE first == CHOOSE i \in Slots : ptr[i] = p
                                           /\ \A j \in 0 .. i - 1 : ptr[j] # p
  <2>1. /\ UNCHANGED <<allocated, size, seen, fatal, mixed>>
        /\ calm' \in [Threads -> BOOLEAN]
        /\ pc[t] = "idle" /\ lock = None /\ lock' = t
        /\ pc' = [pc EXCEPT ![t] = "free"] /\ obj' = [obj EXCEPT ![t] = p]
        /\ active # 0 /\ allocated >= size[p] /\ active' = active - 1
        /\ live' = live \ {p} /\ held' = held \ {p} /\ draining' \in BOOLEAN
        /\ ptr' = [ptr EXCEPT ![first] = None]
        /\ p \in Objs
    BY <1>1 DEF FreeBegin, Enter, Consistent, Forget, Disturb, healthVars, HeapInv, TypeOK
  <2>2. \E i \in Slots : ptr[i] = p /\ \A j \in 0 .. i - 1 : ptr[j] # p
    <3>1. PICK i \in Slots : ptr[i] = p
      BY <1>1 DEF FreeBegin, Tracked
    <3>2. \A j \in 0 .. i - 1 : ptr[j] # p
      BY <2>1, <3>1 DEF HeapInv, NoDanglingSlot, Slots
    <3> QED
      BY <3>1, <3>2
  <2>3. first \in Slots /\ ptr[first] = p
    BY <2>2
  <2> HIDE DEF first
  <2>4. TypeOK'
    BY <2>1, <2>3 DEF HeapInv, TypeOK, Slots
  <2>5. NoDanglingSlot'
    BY <2>1, <2>3 DEF HeapInv, NoDanglingSlot, TypeOK
  <2>6. \A u \in Threads : pc'[u] \in {"alloc", "free"} => u = t
    BY <2>1 DEF HeapInv, CallsExclusive, InCall, TypeOK
  <2>7. CallsExclusive'
    BY <2>1, <2>6 DEF HeapInv, CallsExclusive, InCall, TypeOK
  <2> QED
    BY <2>4, <2>5, <2>7 DEF HeapInv
<1>2. ASSUME NEW p \in held, FreeAbort(t, p)
      PROVE  HeapInv'
  <2>1. /\ UNCHANGED <<active, allocated, ptr, size, live, pc, obj, seen, fatal, calm,
                       draining, mixed>>
        /\ lock = None /\ lock' = t /\ held' = held \ {p}
    BY <1>2 DEF FreeAbort, callVars, healthVars, historyVars
  <2>2. TypeOK' /\ NoDanglingSlot'
    BY <2>1 DEF HeapInv, TypeOK, NoDanglingSlot
  <2>3. CallsExclusive'
    BY <2>1 DEF HeapInv, CallsExclusive, InCall, TypeOK
  <2> QED
    BY <2>2, <2>3 DEF HeapInv
<1>3. CASE FreeEnd(t)
  <2>1. /\ UNCHANGED <<active, ptr, live, held, seen, fatal, draining, mixed>>
        /\ calm' \in [Threads -> BOOLEAN]
        /\ pc[t] = "free" /\ lock' = None
        /\ pc' = [pc EXCEPT ![t] = "idle"] /\ obj' = [obj EXCEPT ![t] = None]
        /\ allocated' = allocated - size[obj[t]]
        /\ size' = [size EXCEPT ![obj[t]] = 0]
    BY <1>3 DEF FreeEnd, Leave, Disturb, healthVars, historyVars, HeapInv, TypeOK
  <2>2. lock = t /\ obj[t] \in Objs /\ size[obj[t]] \in Nat /\ allocated >= size[obj[t]]
    BY <2>1 DEF HeapInv, CallsExclusive, InCall, TypeOK
  <2>3. TypeOK'
    BY <2>1, <2>2 DEF HeapInv, TypeOK
  <2>4. NoDanglingSlot'
    BY <2>1 DEF HeapInv, NoDanglingSlot
  <2>5. \A u \in Threads : pc'[u] \notin {"alloc", "free"}
    BY <2>1, <2>2 DEF HeapInv, CallsExclusive, InCall, TypeOK
  <2>6. CallsExclusive'
    BY <2>1, <2>5 DEF HeapInv, CallsExclusive, InCall
  <2> QED
    BY <2>3, <2>4, <2>6 DEF HeapInv
<1> QED
  BY <1>1, <1>2, <1>3

LEMMA WholeHeapInv ==
  ASSUME HeapInv, TrackerInit \/ HeapFreeAll
  PROVE  HeapInv'
<1>1. CASE TrackerInit
  <2>1. /\ ptr' = [i \in Slots |-> None]
        /\ UNCHANGED <<lock, active, allocated, size, live, held, pc, obj, seen,
                       fatal, calm, draining>>
        /\ mixed' \in BOOLEAN
    BY <1>1 DEF TrackerInit, HeapInv, TypeOK, memVars, callVars, healthVars
  <2>2. TypeOK' /\ NoDanglingSlot' /\ CallsExclusive'
    BY <2>1 DEF HeapInv, TypeOK, NoDanglingSlot, CallsExclusive, InCall
  <2> QED
    BY <2>2 DEF HeapInv
<1>2. CASE HeapFreeAll
  <2> DEFINE below == {i \in Slots : i < active /\ ptr[i] # None}
             gone  == {ptr[i] : i \in below}
  <2>1. /\ \A t \in Threads : pc[t] = "idle"
        /\ live' = live \ gone /\ held' = held \ gone
        /\ size' = [p \in Objs |-> IF p \in gone THEN 0 ELSE size[p]]
        /\ ptr' = [i \in Slots |-> IF i \in below THEN None ELSE ptr[i]]
        /\ active' = 0 /\ allocated' = 0 /\ draining' \in BOOLEAN /\ mixed' \in BOOLEAN
        /\ UNCHANGED <<lock, pc, obj, seen, fatal, calm>>
    BY <1>2 DEF HeapFreeAll, callVars, healthVars, HeapInv, TypeOK
  <2>2. TypeOK'
    <3>1. size' \in [Objs -> 0 .. MaxSize]
      BY <2>1 DEF HeapInv, TypeOK
    <3>2. ptr' \in [Slots -> Objs \cup {None}]
      BY <2>1 DEF HeapInv, TypeOK
    <3> QED
      BY <2>1, <3>1, <3>2 DEF HeapInv, TypeOK
  <2>3. NoDanglingSlot'
    <3>1. \A i \in Slots : ptr'[i] # None => i \notin below /\ ptr'[i] = ptr[i]
      BY <2>1
    <3>2. \A i \in Slots \ below : ptr[i] # None => ptr[i] \notin gone
      BY DEF HeapInv, NoDanglingSlot
    <3> HIDE DEF below, gone
    <3> QED
      BY <2>1, <3>1, <3>2 DEF HeapInv, NoDanglingSlot
  <2>4. CallsExclusive'
    BY <2>1 DEF HeapInv, CallsExclusive, InCall
  <2> QED
    BY <2>2, <2>3, <2>4 DEF HeapInv
<1> QED
  BY <1>1, <1>2

LEMMA HeapNext == HeapInv /\ [Next]_vars => HeapInv'
<1> SUFFICES ASSUME HeapInv, [Next]_vars PROVE HeapInv'
  OBVIOUS
<1>1. ASSUME NEW t \in Threads, ThreadStep(t)
      PROVE  HeapInv'
  BY <1>1, AllocInv, FreeInv, HealthInv DEF ThreadStep
<1>2. CASE TrackerInit \/ HeapFreeAll
  BY <1>2, WholeHeapInv
<1>3. CASE UNCHANGED vars
  <2>1. UNCHANGED <<lock, active, allocated, ptr, size, live, held, pc, obj, seen,
                    fatal, calm, draining, mixed>>
    BY <1>3 DEF vars, memVars, callVars, healthVars, historyVars
  <2> QED
    BY <2>1 DEF HeapInv, TypeOK, NoDanglingSlot, CallsExclusive, InCall
<1> QED
  BY <1>1, <1>2, <1>3 DEF Next

(* The tracker's table, its counters and its calls stay in order, whatever *)
(* is freed in whatever order (heap.c:7-110).                              *)
THEOREM HeapInvariance == Spec => []HeapInv
<1> QED
  BY HeapInit, HeapNext, PTL DEF Spec

(* The tracker never counts below zero nor past the end of its table       *)
(* (heap.c:9, 21, 112): active and allocated keep their types.             *)
THEOREM HeapTypes == Spec => []TypeOK
<1>1. HeapInv => TypeOK
  BY DEF HeapInv
<1> QED
  BY <1>1, HeapInvariance, PTL

(* The table names no freed object and none twice, whatever is lost or     *)
(* overwritten (heap.c:21, 95-101) and even across the calls that reset it.*)
THEOREM NoSlotDangles == Spec => []NoDanglingSlot
<1>1. HeapInv => NoDanglingSlot
  BY DEF HeapInv
<1> QED
  BY <1>1, HeapInvariance, PTL

(* Without heap_free_all(), active is the number of live objects: neither  *)
(* a heap_free() that aborts nor tracker_init() upsets the count.          *)
THEOREM ActiveCounts ==
  ASSUME "heap_free_all" \notin Extra
  PROVE  Spec => []ActiveIsLive
<1>1. Init => ActiveIsLive
  BY FS_EmptySet DEF Init, ActiveIsLive
<1>2. HeapInv /\ ActiveIsLive /\ [Next]_vars => ActiveIsLive'
  <2> SUFFICES ASSUME HeapInv, ActiveIsLive, [Next]_vars PROVE ActiveIsLive'
    OBVIOUS
  <2>1. IsFiniteSet(live) /\ Cardinality(live) \in Nat
    BY FS_Subset, FS_CardinalityType DEF HeapInv, TypeOK
  <2>2. \/ active' = active /\ live' = live
        \/ \E p \in Objs : p \notin live /\ active' = active + 1 /\ live' = live \cup {p}
        \/ \E p \in live : active' = active - 1 /\ live' = live \ {p}
    BY DEF Next, ThreadStep, AllocBegin, AllocEnd, FreeBegin, FreeAbort, FreeEnd,
       HealthBegin, HealthEnd, TrackerInit, HeapFreeAll, vars, memVars, HeapInv,
       CallsExclusive, InCall
  <2> QED
    BY <2>1, <2>2, FS_AddElement, FS_RemoveElement DEF ActiveIsLive
<1> QED
  BY <1>1, <1>2, HeapInvariance, PTL DEF Spec

-----------------------------------------------------------------------------
(* The counters, as long as one pool at a time is built and torn down.     *)

(* The units of one object. *)
Column(p, n) == {p} \X (1 .. n)

LEMMA ColumnUnits ==
  ASSUME NEW p, NEW n \in Nat
  PROVE  IsFiniteSet(Column(p, n)) /\ Cardinality(Column(p, n)) = n
<1>1. IsFiniteSet({p}) /\ Cardinality({p}) = 1
  BY FS_Singleton
<1>2. IsFiniteSet(1 .. n) /\ Cardinality(1 .. n) = n
  BY FS_Interval
<1>3. IsFiniteSet(Column(p, n))
  BY <1>1, <1>2, FS_Product DEF Column
<1>4. Cardinality(Column(p, n)) = Cardinality({p}) * Cardinality(1 .. n)
  BY <1>1, <1>2, FS_Product DEF Column
<1>5. Cardinality(Column(p, n)) = 1 * n
  BY <1>1, <1>2, <1>4
<1>6. 1 * n = n
  OBVIOUS
<1> QED
  BY <1>3, <1>5, <1>6

LEMMA UnitsType ==
  ASSUME TypeOK
  PROVE  /\ IsFiniteSet(live) /\ Cardinality(live) \in Nat
         /\ IsFiniteSet(Units) /\ Cardinality(Units) \in Nat
<1>1. IsFiniteSet(live)
  BY FS_Subset DEF TypeOK
<1>2. IsFiniteSet(Sizes)
  BY FS_Interval DEF Sizes
<1>3. IsFiniteSet(live \X Sizes)
  BY <1>1, <1>2, FS_Product
<1>4. IsFiniteSet(Units)
  BY <1>3, FS_Subset DEF Units
<1> QED
  BY <1>1, <1>4, FS_CardinalityType

(* An object that comes adds its units, ... *)
LEMMA UnitsCome ==
  ASSUME TypeOK, NEW p \in Objs, p \notin live, NEW s \in Sizes,
         live' = live \cup {p}, size' = [size EXCEPT ![p] = s]
  PROVE  Cardinality(Units)' = Cardinality(Units) + s
<1>1. size \in [Objs -> 0 .. MaxSize] /\ live \subseteq Objs /\ s \in Nat
  BY DEF TypeOK, Sizes
<1>2. Units' = Units \cup Column(p, s)
  BY <1>1 DEF Units, Column, Sizes
<1>3. Units \cap Column(p, s) = {}
  BY DEF Units, Column
<1>4. IsFiniteSet(Units) /\ Cardinality(Units) \in Nat
  BY UnitsType
<1>5. IsFiniteSet(Column(p, s)) /\ Cardinality(Column(p, s)) = s
  BY <1>1, ColumnUnits
<1>6. Cardinality(Units \cup Column(p, s))
        = Cardinality(Units) + Cardinality(Column(p, s)) - Cardinality({})
  BY <1>3, <1>4, <1>5, FS_Union
<1> QED
  BY <1>1, <1>2, <1>4, <1>5, <1>6, FS_EmptySet

(* ... one that goes takes them with it. *)
LEMMA UnitsGo ==
  ASSUME TypeOK, NEW p \in live, live' = live \ {p}, size' = size
  PROVE  Cardinality(Units) = Cardinality(Units)' + size[p]
<1>1. size[p] \in 0 .. MaxSize
  BY DEF TypeOK
<1>2. Units' = Units \ Column(p, size[p])
  BY <1>1 DEF Units, Column, Sizes
<1>3. Column(p, size[p]) \subseteq Units
  BY <1>1 DEF Units, Column, Sizes
<1>4. IsFiniteSet(Units) /\ Cardinality(Units) \in Nat
  BY UnitsType
<1>5. Cardinality(Column(p, size[p])) = size[p]
  BY <1>1, ColumnUnits
<1>6. Cardinality(Units \ Column(p, size[p]))
        = Cardinality(Units) - Cardinality(Units \cap Column(p, size[p]))
  BY <1>4, FS_Difference
<1>7. Units \cap Column(p, size[p]) = Column(p, size[p])
  BY <1>3
<1>8. Cardinality(Units)' = Cardinality(Units) - Cardinality(Column(p, size[p]))
  BY <1>2, <1>6, <1>7
<1>9. size[p] \in Nat
  BY <1>1
<1> QED
  BY <1>4, <1>5, <1>8, <1>9

(* Something is counted whenever something is live. *)
LEMMA UnitsOfLive ==
  ASSUME TypeOK, \A p \in live : size[p] \in Sizes
  PROVE  Cardinality(Units) = 0 <=> live = {}
<1>1. ASSUME NEW p \in live PROVE Units # {}
  <2>1. <<p, 1>> \in Units
    BY DEF Units, Sizes
  <2> QED
    BY <2>1
<1>2. live = {} => Units = {}
  BY DEF Units
<1>3. Units = {} <=> live = {}
  BY <1>1, <1>2
<1> QED
  BY <1>3, UnitsType, FS_EmptySet

Sound == HeapInv /\ CountersAgree /\ Counting

LEMMA SoundInit == Init => Sound
<1> SUFFICES ASSUME Init PROVE Sound
  OBVIOUS
<1>1. HeapInv /\ TypeOK
  BY HeapInit DEF HeapInv
<1>2. live = {} /\ active = 0 /\ allocated = 0
  BY DEF Init
<1>3. Cardinality(live) = 0 /\ Cardinality(Units) = 0
  BY <1>1, <1>2, UnitsOfLive, FS_EmptySet
<1>4. Counted /\ FreeFindsIt
  BY <1>2, <1>3 DEF Counted, ActiveIsLive, FreeFindsIt, EveryLiveTracked
<1>5. HealthNeverFatal
  BY DEF Init, HealthNeverFatal
<1>6. Counting
  BY DEF Init, Counting
<1> QED
  BY <1>1, <1>4, <1>5, <1>6 DEF Sound, CountersAgree

(* What Sound says of a state in which the pools do not mix. *)
LEMMA SoundParts ==
  ASSUME HeapInv
  PROVE  CountersAgree /\ Counting <=>
           (~mixed =>
              /\ ActiveIsLive /\ EveryLiveTracked
              /\ (\A t \in Threads : ~InCall(t)) => allocated = Cardinality(Units)
              /\ \A t \in Threads : fatal[t] => pc[t] = "health" \/ ~calm[t]
              /\ ~draining => \A i \in Slots : i >= active => ptr[i] = None
              /\ \A p \in live : size[p] \in Sizes
              /\ \A t \in Threads :
                   /\ pc[t] = "alloc" => allocated + size[obj[t]] = Cardinality(Units)
                   /\ pc[t] = "free" => allocated = Cardinality(Units) + size[obj[t]]
                   /\ pc[t] = "health" /\ calm[t] =>
                        seen[t] = active /\ \A u \in Threads : ~InCall(u))
BY DEF CountersAgree, Counting, Counted, FreeFindsIt, HealthNeverFatal

LEMMA AllocCounts ==
  ASSUME Sound, HeapInv', ~mixed', NEW t \in Threads, NEW p \in Objs, NEW s \in Sizes,
         AllocBegin(t, p, s)
  PROVE  CountersAgree' /\ Counting'
<1>1. /\ UNCHANGED <<allocated, held, seen, fatal, draining>>
      /\ pc[t] = "idle" /\ lock = None
      /\ pc' = [pc EXCEPT ![t] = "alloc"] /\ obj' = [obj EXCEPT ![t] = p]
      /\ active < MaxHeaps /\ active' = active + 1
      /\ p \notin live /\ live' = live \cup {p}
      /\ size' = [size EXCEPT ![p] = s]
      /\ ptr' = [ptr EXCEPT ![active] = p]
      /\ calm' = [u \in Threads |-> calm[u] /\ pc[u] # "health"]
      /\ ~mixed /\ ~draining
  BY DEF AllocBegin, Enter, HasRoom, Store, Disturb, healthVars, Sound, HeapInv, TypeOK
<1>2. /\ TypeOK /\ active \in Slots /\ size \in [Objs -> 0 .. MaxSize] /\ live \subseteq Objs
      /\ pc \in [Threads -> {"idle", "alloc", "free", "health"}]
      /\ obj \in [Threads -> Objs \cup {None}] /\ ptr \in [Slots -> Objs \cup {None}]
  BY <1>1 DEF Sound, HeapInv, TypeOK, Slots
<1>3. \A u \in Threads : ~InCall(u)
  BY <1>1, ObjsAssumption DEF Sound, HeapInv, CallsExclusive
<1>4. /\ ActiveIsLive /\ EveryLiveTracked /\ allocated = Cardinality(Units)
      /\ \A u \in Threads : fatal[u] => pc[u] = "health" \/ ~calm[u]
      /\ \A i \in Slots : i >= active => ptr[i] = None
      /\ \A o \in live : size[o] \in Sizes
  BY <1>1, <1>3, SoundParts DEF Sound
<1>5. ActiveIsLive'
  BY <1>1, <1>2, <1>4, UnitsType, FS_AddElement DEF ActiveIsLive
<1>6. EveryLiveTracked'
  <2>1. ptr[active] = None
    BY <1>2, <1>4 DEF Slots
  <2>2. ASSUME NEW o \in live' PROVE \E i \in Slots : ptr'[i] = o
    <3>1. CASE o = p
      BY <1>1, <1>2, <3>1
    <3>2. CASE o # p
      <4>1. o \in live
        BY <1>1, <3>2
      <4>2. PICK i \in Slots : ptr[i] = o
        BY <1>4, <4>1 DEF EveryLiveTracked, Tracked
      <4>3. o # None
        BY <1>2, <4>1, ObjsAssumption
      <4> QED
        BY <1>1, <1>2, <2>1, <4>2, <4>3
    <3> QED
      BY <3>1, <3>2
  <2> QED
    BY <2>2 DEF EveryLiveTracked, Tracked
<1>7. Cardinality(Units)' = Cardinality(Units) + s
  BY <1>1, <1>2, UnitsCome
<1>8. \A u \in Threads : fatal'[u] => pc'[u] = "health" \/ ~calm'[u]
  BY <1>1, <1>2, <1>4
<1>9. \A i \in Slots : i >= active' => ptr'[i] = None
  BY <1>1, <1>2, <1>4 DEF Slots
<1>10. \A o \in live' : size'[o] \in Sizes
  BY <1>1, <1>2, <1>4
<1>11. \A u \in Threads : pc'[u] = "alloc" => u = t
  BY <1>1, <1>2, <1>3 DEF InCall
<1>12. \A u \in Threads : pc'[u] # "free" /\ ~(pc'[u] = "health" /\ calm'[u])
  BY <1>1, <1>2, <1>3 DEF InCall
<1>13. allocated' + size'[obj'[t]] = Cardinality(Units)' /\ InCall(t)'
  BY <1>1, <1>2, <1>4, <1>7 DEF InCall
<1>14. CountersAgree'
  BY <1>5, <1>6, <1>8, <1>13 DEF CountersAgree, Counted, FreeFindsIt, HealthNeverFatal
<1>15. Counting'
  BY <1>9, <1>10, <1>11, <1>12, <1>13 DEF Counting
<1> QED
  BY <1>14, <1>15

LEMMA FreeCounts ==
  ASSUME Sound, HeapInv', ~mixed', NEW t \in Threads, NEW p \in held, FreeBegin(t, p)
  PROVE  CountersAgree' /\ Counting'
<1> DEFINE first == CHOOSE i \in Slots : ptr[i] = p /\ \A j \in 0 .. i - 1 : ptr[j] # p
<1>1. /\ UNCHANGED <<allocated, size, seen, fatal, mixed>>
      /\ pc[t] = "idle" /\ lock = None
      /\ pc' = [pc EXCEPT ![t] = "free"] /\ obj' = [obj EXCEPT ![t] = p]
      /\ active' = active - 1
      /\ live' = live \ {p} /\ draining' = (live' # {})
      /\ ptr' = [ptr EXCEPT ![first] = None]
      /\ calm' = [u \in Threads |-> calm[u] /\ pc[u] # "health"]
      /\ p \in live
  BY DEF FreeBegin, Enter, Forget, Disturb, healthVars, Sound, HeapInv, CallsExclusive
<1>2. /\ TypeOK /\ size \in [Objs -> 0 .. MaxSize] /\ live \subseteq Objs
      /\ pc \in [Threads -> {"idle", "alloc", "free", "health"}]
      /\ obj \in [Threads -> Objs \cup {None}] /\ ptr \in [Slots -> Objs \cup {None}]
      /\ active \in Nat
  BY DEF Sound, HeapInv, TypeOK
<1>3. \A u \in Threads : ~InCall(u)
  BY <1>1, ObjsAssumption DEF Sound, HeapInv, CallsExclusive
<1>4. /\ ActiveIsLive /\ EveryLiveTracked /\ allocated = Cardinality(Units)
      /\ \A u \in Threads : fatal[u] => pc[u] = "health" \/ ~calm[u]
      /\ \A o \in live : size[o] \in Sizes
  BY <1>1, <1>3, SoundParts DEF Sound
<1>5. ActiveIsLive'
  BY <1>1, <1>2, <1>4, UnitsType, FS_RemoveElement DEF ActiveIsLive
<1>6. first \in Slots /\ ptr[first] = p
  <2>1. PICK i \in Slots : ptr[i] = p
    BY <1>1, <1>4 DEF EveryLiveTracked, Tracked
  <2>2. \A j \in 0 .. i - 1 : ptr[j] # p
    BY <1>1, <1>2, <2>1, ObjsAssumption DEF Sound, HeapInv, NoDanglingSlot, Slots
  <2> QED
    BY <2>1, <2>2
<1> HIDE DEF first
<1>7. EveryLiveTracked'
  <2>1. ASSUME NEW o \in live' PROVE \E i \in Slots : ptr'[i] = o
    <3>1. PICK i \in Slots : ptr[i] = o
      BY <1>1, <1>4 DEF EveryLiveTracked, Tracked
    <3>2. i # first
      BY <1>1, <1>6, <3>1
    <3> QED
      BY <1>1, <1>2, <3>1, <3>2
  <2> QED
    BY <2>1 DEF EveryLiveTracked, Tracked
<1>8. Cardinality(Units) = Cardinality(Units)' + size[p]
  BY <1>1, <1>2, UnitsGo
<1>9. \A u \in Threads : fatal'[u] => pc'[u] = "health" \/ ~calm'[u]
  BY <1>1, <1>2, <1>4
<1>10. ~draining' => \A i \in Slots : ptr'[i] = None
  BY <1>1 DEF HeapInv, NoDanglingSlot
<1>11. \A o \in live' : size'[o] \in Sizes
  BY <1>1, <1>4
<1>12. \A u \in Threads : pc'[u] = "free" => u = t
  BY <1>1, <1>2, <1>3 DEF InCall
<1>13. \A u \in Threads : pc'[u] # "alloc" /\ ~(pc'[u] = "health" /\ calm'[u])
  BY <1>1, <1>2, <1>3 DEF InCall
<1>14. allocated' = Cardinality(Units)' + size'[obj'[t]] /\ InCall(t)'
  BY <1>1, <1>2, <1>4, <1>8 DEF InCall
<1>15. CountersAgree'
  BY <1>5, <1>7, <1>9, <1>14 DEF CountersAgree, Counted, FreeFindsIt, HealthNeverFatal
<1>16. Counting'
  BY <1>10, <1>11, <1>12, <1>13, <1>14 DEF Counting
<1> QED
  BY <1>15, <1>16

(* The end of either call. *)
LEMMA EndCounts ==
  ASSUME Sound, HeapInv', ~mixed', NEW t \in Threads, AllocEnd(t) \/ FreeEnd(t)
  PROVE  CountersAgree' /\ Counting'
<1>1. /\ UNCHANGED <<active, ptr, live, seen, fatal, draining, mixed>>
      /\ pc[t] \in {"alloc", "free"}
      /\ pc' = [pc EXCEPT ![t] = "idle"]
      /\ calm' = [u \in Threads |-> calm[u] /\ pc[u] # "health"]
  BY DEF AllocEnd, FreeEnd, Leave, Disturb, healthVars, historyVars
<1>2. /\ TypeOK /\ size \in [Objs -> 0 .. MaxSize] /\ live \subseteq Objs
      /\ pc \in [Threads -> {"idle", "alloc", "free", "health"}]
      /\ active \in Nat /\ allocated \in Nat /\ obj[t] \in Objs /\ lock = t
      /\ size[obj[t]] \in Nat
      /\ pc[t] = "free" => obj[t] \notin live
  BY <1>1 DEF Sound, HeapInv, TypeOK, CallsExclusive, InCall
<1>3. \A u \in Threads : InCall(u) => u = t
  BY <1>2 DEF Sound, HeapInv, CallsExclusive
<1>4. /\ ActiveIsLive /\ EveryLiveTracked
      /\ pc[t] = "alloc" => allocated + size[obj[t]] = Cardinality(Units)
      /\ pc[t] = "free" => allocated = Cardinality(Units) + size[obj[t]]
      /\ \A u \in Threads : fatal[u] => pc[u] = "health" \/ ~calm[u]
      /\ ~draining => \A i \in Slots : i >= active => ptr[i] = None
      /\ \A o \in live : size[o] \in Sizes
  BY <1>1, SoundParts DEF Sound
<1>5. ActiveIsLive' /\ EveryLiveTracked'
  BY <1>1, <1>4 DEF ActiveIsLive, EveryLiveTracked, Tracked
<1>6. \A o \in live : size'[o] = size[o]
  BY <1>1, <1>2 DEF AllocEnd, FreeEnd, Leave
<1>7. Units' = Units
  BY <1>1, <1>6 DEF Units
<1>8. allocated' = Cardinality(Units)'
  <2>1. Cardinality(Units) \in Nat
    BY <1>2, UnitsType
  <2>2. CASE AllocEnd(t)
    BY <1>4, <1>7, <2>2 DEF AllocEnd, Leave
  <2>3. CASE FreeEnd(t)
    BY <1>2, <1>4, <1>7, <2>1, <2>3 DEF FreeEnd, Leave
  <2> QED
    BY <2>2, <2>3
<1>9. \A u \in Threads : ~InCall(u)' /\ ~(pc'[u] = "health" /\ calm'[u])
  BY <1>1, <1>2, <1>3 DEF InCall
<1>10. \A u \in Threads : fatal'[u] => pc'[u] = "health" \/ ~calm'[u]
  BY <1>1, <1>2, <1>4
<1>11. CountersAgree'
  BY <1>5, <1>8, <1>10 DEF CountersAgree, Counted, FreeFindsIt, HealthNeverFatal
<1>12. \A o \in live' : size'[o] \in Sizes
  BY <1>1, <1>4, <1>6
<1>13. ~draining' => \A i \in Slots : i >= active' => ptr'[i] = None
  BY <1>1, <1>4
<1>14. Counting'
  BY <1>9, <1>12, <1>13 DEF Counting, InCall
<1> QED
  BY <1>11, <1>14

(* tracking_health(): undisturbed, it sees both counters of one moment. *)
LEMMA HealthCounts ==
  ASSUME Sound, HeapInv', ~mixed', NEW t \in Threads, HealthBegin(t) \/ HealthEnd(t)
  PROVE  CountersAgree' /\ Counting'
<1>1. /\ UNCHANGED <<lock, active, allocated, ptr, size, live, held, obj, draining, mixed>>
      /\ pc[t] \in {"idle", "health"}
      /\ pc' \in {[pc EXCEPT ![t] = "idle"], [pc EXCEPT ![t] = "health"]}
  BY DEF HealthBegin, HealthEnd, memVars, historyVars
<1>2. /\ TypeOK /\ pc \in [Threads -> {"idle", "alloc", "free", "health"}]
      /\ seen \in [Threads -> 0 .. MaxHeaps] /\ fatal \in [Threads -> BOOLEAN]
      /\ calm \in [Threads -> BOOLEAN]
  BY DEF Sound, HeapInv, TypeOK
<1>3. /\ ActiveIsLive /\ EveryLiveTracked
      /\ (\A u \in Threads : ~InCall(u)) => allocated = Cardinality(Units)
      /\ \A u \in Threads : fatal[u] => pc[u] = "health" \/ ~calm[u]
      /\ ~draining => \A i \in Slots : i >= active => ptr[i] = None
      /\ \A o \in live : size[o] \in Sizes
      /\ \A u \in Threads :
           /\ pc[u] = "alloc" => allocated + size[obj[u]] = Cardinality(Units)
           /\ pc[u] = "free" => allocated = Cardinality(Units) + size[obj[u]]
           /\ pc[u] = "health" /\ calm[u] =>
                seen[u] = active /\ \A v \in Threads : ~InCall(v)
  BY <1>1, SoundParts DEF Sound
<1>4. Units' = Units /\ \A u \in Threads : InCall(u)' <=> InCall(u)
  BY <1>1, <1>2 DEF Units, InCall
<1>5. \A u \in Threads : /\ pc'[u] = "alloc" => pc[u] = "alloc"
                         /\ pc'[u] = "free" => pc[u] = "free"
  BY <1>1, <1>2
<1>6. /\ \A u \in Threads : fatal'[u] => pc'[u] = "health" \/ ~calm'[u]
      /\ \A u \in Threads : pc'[u] = "health" /\ calm'[u] =>
           seen'[u] = active /\ \A v \in Threads : ~InCall(v)
  <2>1. CASE HealthBegin(t)
    <3>1. /\ pc' = [pc EXCEPT ![t] = "health"] /\ fatal' = fatal
          /\ seen' = [seen EXCEPT ![t] = active]
          /\ calm' = [calm EXCEPT ![t] = \A u \in Threads : ~InCall(u)]
      BY <2>1 DEF HealthBegin
    <3>2. calm'[t] = \A u \in Threads : ~InCall(u)
      BY <1>2, <3>1
    <3>3. \A u \in Threads \ {t} : calm'[u] = calm[u] /\ pc'[u] = pc[u] /\ seen'[u] = seen[u]
      BY <1>2, <3>1
    <3>4. pc'[t] = "health" /\ seen'[t] = active
      BY <1>2, <3>1
    <3> QED
      BY <1>3, <3>1, <3>2, <3>3, <3>4
  <2>2. CASE HealthEnd(t)
    <3>1. /\ pc[t] = "health" /\ pc' = [pc EXCEPT ![t] = "idle"] /\ calm' = calm
          /\ seen' = [seen EXCEPT ![t] = 0]
          /\ fatal' = [fatal EXCEPT ![t] = (seen[t] = 0) # (allocated = 0)]
      BY <2>2 DEF HealthEnd
    <3>2. calm[t] => ~fatal'[t]
      <4>1. SUFFICES ASSUME calm[t] PROVE ~fatal'[t]
        OBVIOUS
      <4>2. seen[t] = Cardinality(live) /\ allocated = Cardinality(Units)
        BY <1>3, <3>1, <4>1 DEF ActiveIsLive
      <4>3. Cardinality(live) = 0 <=> live = {}
        BY <1>2, UnitsType, FS_EmptySet
      <4>4. Cardinality(Units) = 0 <=> live = {}
        BY <1>2, <1>3, UnitsOfLive
      <4>5. fatal'[t] = ((seen[t] = 0) # (allocated = 0))
        BY <1>2, <3>1
      <4> QED
        BY <4>2, <4>3, <4>4, <4>5
    <3>3. \A u \in Threads \ {t} : fatal'[u] = fatal[u] /\ pc'[u] = pc[u] /\ seen'[u] = seen[u]
      BY <1>2, <3>1
    <3>4. pc'[t] = "idle"
      BY <1>2, <3>1
    <3> QED
      BY <1>3, <3>1, <3>2, <3>3, <3>4
  <2> QED
    BY <2>1, <2>2
<1>7. CountersAgree'
  BY <1>1, <1>3, <1>4, <1>6 DEF CountersAgree, Counted, FreeFindsIt, HealthNeverFatal,
     ActiveIsLive, EveryLiveTracked, Tracked
<1>8. Counting'
  BY <1>1, <1>3, <1>4, <1>5, <1>6 DEF Counting
<1> QED
  BY <1>7, <1>8

(* The calls that reset the tracker. *)
LEMMA WholeCounts ==
  ASSUME Sound, HeapInv', ~mixed', TrackerInit \/ HeapFreeAll
  PROVE  CountersAgree' /\ Counting'
<1>1. ~mixed /\ TypeOK /\ UNCHANGED <<pc, obj, seen, fatal, calm>>
      /\ pc \in [Threads -> {"idle", "alloc", "free", "health"}]
  BY DEF TrackerInit, HeapFreeAll, callVars, healthVars, Sound, HeapInv, TypeOK
<1>2. /\ ActiveIsLive /\ EveryLiveTracked
      /\ (\A u \in Threads : ~InCall(u)) => allocated = Cardinality(Units)
      /\ \A u \in Threads : fatal[u] => pc[u] = "health" \/ ~calm[u]
      /\ ~draining => \A i \in Slots : i >= active => ptr[i] = None
      /\ \A o \in live : size[o] \in Sizes
      /\ \A u \in Threads :
           /\ pc[u] = "alloc" => allocated + size[obj[u]] = Cardinality(Units)
           /\ pc[u] = "free" => allocated = Cardinality(Units) + size[obj[u]]
           /\ pc[u] = "health" /\ calm[u] =>
                seen[u] = active /\ \A v \in Threads : ~InCall(v)
  BY <1>1, SoundParts DEF Sound
<1>3. CASE TrackerInit
  <2>1. /\ ptr' = [i \in Slots |-> None] /\ live = {}
        /\ UNCHANGED <<active, allocated, size, live, draining>>
    BY <1>3 DEF TrackerInit, memVars
  <2>2. Units' = Units /\ \A u \in Threads : InCall(u)' <=> InCall(u)
    BY <1>1, <2>1 DEF Units, InCall
  <2>3. ActiveIsLive' /\ EveryLiveTracked'
    BY <1>2, <2>1 DEF ActiveIsLive, EveryLiveTracked
  <2>4. CountersAgree'
    BY <1>1, <1>2, <2>1, <2>2, <2>3 DEF CountersAgree, Counted, FreeFindsIt, HealthNeverFatal
  <2>5. Counting'
    BY <1>1, <1>2, <2>1, <2>2 DEF Counting
  <2> QED
    BY <2>4, <2>5
<1>4. CASE HeapFreeAll
  <2>1. /\ ~draining /\ \A u \in Threads : pc[u] = "idle"
        /\ live' = live \ {ptr[i] : i \in {j \in Slots : j < active /\ ptr[j] # None}}
        /\ active' = 0 /\ allocated' = 0
    BY <1>4 DEF HeapFreeAll
  <2>2. ASSUME NEW o \in live
        PROVE  o \in {ptr[i] : i \in {j \in Slots : j < active /\ ptr[j] # None}}
    <3>1. PICK i \in Slots : ptr[i] = o
      BY <1>2 DEF EveryLiveTracked, Tracked
    <3>2. o # None
      BY <1>1, ObjsAssumption DEF TypeOK
    <3>3. i < active
      BY <1>1, <1>2, <2>1, <3>1, <3>2 DEF TypeOK, Slots
    <3> QED
      BY <3>1, <3>2, <3>3
  <2>3. live' = {}
    BY <2>1, <2>2
  <2>4. Cardinality(live') = 0 /\ Cardinality(Units)' = 0
    <3>1. Units' = {}
      BY <2>3 DEF Units
    <3> QED
      BY <2>3, <3>1, FS_EmptySet
  <2>5. \A i \in Slots : ptr'[i] = None
    BY <2>3 DEF HeapInv, NoDanglingSlot
  <2>6. \A u \in Threads : pc'[u] = "idle"
    BY <1>1, <2>1
  <2>7. CountersAgree'
    BY <1>1, <1>2, <2>1, <2>3, <2>4 DEF CountersAgree, Counted, FreeFindsIt, HealthNeverFatal,
       ActiveIsLive, EveryLiveTracked
  <2>8. Counting'
    BY <2>3, <2>5, <2>6 DEF Counting
  <2> QED
    BY <2>7, <2>8
<1> QED
  BY <1>3, <1>4

LEMMA SoundNext == Sound /\ [Next]_vars => Sound'
<1> SUFFICES ASSUME Sound, [Next]_vars PROVE Sound'
  OBVIOUS
<1>1. HeapInv'
  BY HeapNext DEF Sound
<1>2. ASSUME mixed' PROVE CountersAgree' /\ Counting'
  BY <1>2 DEF CountersAgree, Counting, Counted, FreeFindsIt, HealthNeverFatal
<1>3. ASSUME ~mixed', NEW t \in Threads, ThreadStep(t)
      PROVE  CountersAgree' /\ Counting'
  <2>1. ASSUME NEW p \in held, FreeAbort(t, p)
        PROVE  CountersAgree' /\ Counting'
    <3>1. UNCHANGED <<active, allocated, ptr, size, live, pc, obj, seen, fatal, calm,
                      draining, mixed>>
      BY <2>1 DEF FreeAbort, callVars, healthVars, historyVars
    <3>2. Units' = Units
      BY <3>1 DEF Units
    <3> QED
      BY <3>1, <3>2 DEF Sound, CountersAgree, Counting, Counted, FreeFindsIt,
         HealthNeverFatal, ActiveIsLive, EveryLiveTracked, Tracked, InCall
  <2> QED
    BY <1>1, <1>3, <2>1, AllocCounts, FreeCounts, EndCounts, HealthCounts DEF ThreadStep
<1>4. ASSUME ~mixed', TrackerInit \/ HeapFreeAll
      PROVE  CountersAgree' /\ Counting'
  BY <1>1, <1>4, WholeCounts
<1>5. CASE UNCHANGED vars
  <2>1. UNCHANGED <<active, allocated, ptr, size, live, pc, obj, seen, fatal, calm,
                    draining, mixed>>
    BY <1>5 DEF vars, memVars, callVars, healthVars, historyVars
  <2>2. Units' = Units
    BY <2>1 DEF Units
  <2>3. CountersAgree' /\ Counting'
    BY <2>1, <2>2 DEF Sound, CountersAgree, Counting, Counted, FreeFindsIt,
       HealthNeverFatal, ActiveIsLive, EveryLiveTracked, Tracked, InCall
  <2> QED
    BY <1>1, <2>3 DEF Sound
<1> QED
  BY <1>1, <1>2, <1>3, <1>4, <1>5 DEF Next, Sound

(* As long as the pools do not mix, both counters are right between calls, *)
(* every live object can be freed, and tracking_health() (heap.c:32-42)    *)
(* fails only for a thread whom another one's call has overlapped.         *)
THEOREM CountersAreRight == Spec => []CountersAgree
<1>1. Sound => CountersAgree
  BY DEF Sound
<1> QED
  BY <1>1, SoundInit, SoundNext, PTL DEF Spec
=============================================================================
