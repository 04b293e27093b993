---------------------------- MODULE HeapTracker ----------------------------
(***************************************************************************)
(* The heap tracker of src/heap.c: a counted heap with a table of MAX_HEAPS*)
(* pointers under one mutex, which reactor.c and the server use for pools, *)
(* workers, jobs and contexts.                                             *)
(*                                                                         *)
(* heap_alloc() and heap_free() each are two steps, because                *)
(* tracking_health() reads the two counters without the mutex.  Sizes are  *)
(* in units of 16 bytes, as align_heap() rounds them.  An allocation that  *)
(* is refused (a full table, no memory, a null tracker) changes nothing    *)
(* and has no action; rest_of_heap() only reads.                           *)
(***************************************************************************)
EXTENDS Naturals, FiniteSets

CONSTANTS
  Threads,   \* the threads that use the tracker
  Objs,      \* the addresses malloc() may return
  None,      \* no object and no thread
  MaxHeaps,  \* MAX_HEAPS, the size of the table
  MaxSize,   \* the largest size requested
  Extra      \* what else is called: "tracker_init", "heap_free_all"

ASSUME ObjsAssumption == IsFiniteSet(Objs) /\ None \notin Objs \cup Threads
ASSUME SizesAssumption == MaxHeaps \in Nat \ {0} /\ MaxSize \in Nat \ {0}

Slots == 0 .. MaxHeaps - 1
Sizes == 1 .. MaxSize

VARIABLES
  lock,      \* the thread that holds heap_tracker_t.mutex
  active,    \* heap_tracker_t.active
  allocated, \* heap_tracker_t.allocated
  ptr,       \* heap_tracker_t.ptr
  size,      \* per object, the size word in front of it
  live,      \* the objects malloc() has returned and free() has not taken
  held,      \* the objects callers still have to pass to heap_free()
  pc,        \* per thread, the call it is in the middle of
  obj,       \* per thread, the object of that call
  seen,      \* per thread, the value of active that tracking_health() read
  fatal,     \* per thread, whether its last tracking_health() said CND_FATAL
  calm,      \* history: per thread, no other call has overlapped that
  draining,  \* history: something has been freed since the heap was empty
  mixed      \* history: and then something was allocated, or the table cleared

memVars    == <<size, live, held>>
callVars   == <<pc, obj>>
healthVars == <<seen, fatal>>
historyVars == <<draining, mixed>>
vars == <<lock, active, allocated, ptr, memVars, callVars, healthVars, calm,
          historyVars>>

InCall(t) == pc[t] \in {"alloc", "free"}

(* A change of the counters that another thread's tracking_health() may    *)
(* see half of.                                                            *)
Disturb == calm' = [t \in Threads |-> calm[t] /\ pc[t] # "health"]

Enter(t, step, p) ==
  /\ pc[t] = "idle" /\ lock = None
  /\ lock' = t
  /\ pc' = [pc EXCEPT ![t] = step]
  /\ obj' = [obj EXCEPT ![t] = p]

Leave(t, step) ==
  /\ pc[t] = step
  /\ lock' = None
  /\ pc' = [pc EXCEPT ![t] = "idle"]
  /\ obj' = [obj EXCEPT ![t] = None]

(* if (tracker->active >= MAX_HEAPS) return nullptr *)
HasRoom == active < MaxHeaps

(* Slip: the count is raised before the pointer is stored.                 *)
StoreAfterCount(p) == ptr' = [ptr EXCEPT ![active + 1] = p]

(* tracker->ptr[tracker->active] = user_ptr, whatever was there            *)
Store(p) == ptr' = [ptr EXCEPT ![active] = p]

AllocBegin(t, p, s) ==
  /\ Enter(t, "alloc", p)
  /\ HasRoom
  /\ p \notin live
  /\ live' = live \cup {p}
  /\ size' = [size EXCEPT ![p] = s]
  /\ Store(p)
  /\ active' = active + 1
  /\ mixed' = (mixed \/ draining)
  /\ Disturb
  /\ UNCHANGED <<allocated, held, healthVars, draining>>

AllocEnd(t) ==
  /\ Leave(t, "alloc")
  /\ allocated' = allocated + size[obj[t]]
  /\ held' = held \cup {obj[t]}
  /\ Disturb
  /\ UNCHANGED <<active, ptr, size, live, healthVars, historyVars>>

Tracked(p) == \E i \in Slots : ptr[i] = p

Consistent(p) == active # 0 /\ allocated >= size[p]

(* heap_free() of an object it cannot account for or find: it returns      *)
(* CND_ABORT, frees nothing and keeps the mutex.                           *)
FreeAbort(t, p) ==
  /\ pc[t] = "idle" /\ lock = None
  /\ p \in held
  /\ ~Consistent(p) \/ ~Tracked(p)
  /\ lock' = t
  /\ held' = held \ {p}
  /\ UNCHANGED <<active, allocated, ptr, size, live, callVars, healthVars, calm,
                 historyVars>>

(* Slip: the pointer stays in the table.                                   *)
ForgetNothing(p) == ptr' = ptr

(* The first slot that holds the pointer is cleared. *)
Forget(p) ==
  ptr' = [ptr EXCEPT ![CHOOSE i \in Slots : ptr[i] = p
                                          /\ \A j \in 0 .. i - 1 : ptr[j] # p] = None]

FreeBegin(t, p) ==
  /\ Enter(t, "free", p)
  /\ p \in held
  /\ Consistent(p) /\ Tracked(p)
  /\ Forget(p)
  /\ live' = live \ {p}
  /\ held' = held \ {p}
  /\ active' = active - 1
  /\ draining' = (live' # {})
  /\ Disturb
  /\ UNCHANGED <<allocated, size, healthVars, mixed>>

(* Slip: the size is not taken off the count.                              *)
FreeEndUncounted(t) ==
  /\ Leave(t, "free")
  /\ size' = [size EXCEPT ![obj[t]] = 0]
  /\ Disturb
  /\ UNCHANGED <<active, allocated, ptr, live, held, healthVars, historyVars>>

FreeEnd(t) ==
  /\ Leave(t, "free")
  /\ allocated' = allocated - size[obj[t]]
  /\ size' = [size EXCEPT ![obj[t]] = 0]
  /\ Disturb
  /\ UNCHANGED <<active, ptr, live, held, healthVars, historyVars>>

(* tracking_health() reads active, then allocated; no mutex. *)
HealthBegin(t) ==
  /\ pc[t] = "idle"
  /\ pc' = [pc EXCEPT ![t] = "health"]
  /\ seen' = [seen EXCEPT ![t] = active]
  /\ calm' = [calm EXCEPT ![t] = \A u \in Threads : ~InCall(u)]
  /\ UNCHANGED <<lock, active, allocated, ptr, memVars, obj, fatal, historyVars>>

HealthEnd(t) ==
  /\ pc[t] = "health"
  /\ pc' = [pc EXCEPT ![t] = "idle"]
  /\ fatal' = [fatal EXCEPT ![t] = (seen[t] = 0) # (allocated = 0)]
  /\ seen' = [seen EXCEPT ![t] = 0]
  /\ UNCHANGED <<lock, active, allocated, ptr, memVars, obj, calm, historyVars>>

(* sq_server_create() initialises the tracker each time it is called: the  *)
(* table alone.                                                            *)
TrackerInit ==
  /\ "tracker_init" \in Extra
  /\ ptr' = [i \in Slots |-> None]
  /\ mixed' = (mixed \/ live # {})
  /\ UNCHANGED <<lock, active, allocated, memVars, callVars, healthVars, calm,
                 draining>>

(* No code calls heap_free_all(): one step here, when no call is under way.*)
HeapFreeAll ==
  LET below == {i \in Slots : i < active /\ ptr[i] # None}
      gone  == {ptr[i] : i \in below} IN
  /\ "heap_free_all" \in Extra
  /\ \A t \in Threads : pc[t] = "idle"
  /\ live' = live \ gone
  /\ held' = held \ gone
  /\ size' = [p \in Objs |-> IF p \in gone THEN 0 ELSE size[p]]
  /\ ptr' = [i \in Slots |-> IF i \in below THEN None ELSE ptr[i]]
  /\ active' = 0
  /\ allocated' = 0
  /\ draining' = (live' # {})
  /\ mixed' = (mixed \/ draining)
  /\ UNCHANGED <<lock, callVars, healthVars, calm>>

-----------------------------------------------------------------------------
Init ==
  /\ lock = None
  /\ active = 0
  /\ allocated = 0
  /\ ptr = [i \in Slots |-> None]
  /\ size = [p \in Objs |-> 0]
  /\ live = {}
  /\ held = {}
  /\ pc = [t \in Threads |-> "idle"]
  /\ obj = [t \in Threads |-> None]
  /\ seen = [t \in Threads |-> 0]
  /\ fatal = [t \in Threads |-> FALSE]
  /\ calm = [t \in Threads |-> TRUE]
  /\ draining = FALSE
  /\ mixed = FALSE

ThreadStep(t) ==
  \/ \E p \in Objs, s \in Sizes : AllocBegin(t, p, s)
  \/ AllocEnd(t)
  \/ \E p \in held : FreeBegin(t, p) \/ FreeAbort(t, p)
  \/ FreeEnd(t)
  \/ HealthBegin(t)
  \/ HealthEnd(t)

Next ==
  \/ \E t \in Threads : ThreadStep(t)
  \/ TrackerInit
  \/ HeapFreeAll

Spec == Init /\ [][Next]_vars

(* A call that has begun goes on; nobody need make another.                *)
FairSpec ==
  Spec /\ \A t \in Threads : WF_vars(AllocEnd(t) \/ FreeEnd(t) \/ HealthEnd(t))

-----------------------------------------------------------------------------
(* The type of every variable. *)
TypeOK ==
  /\ lock \in Threads \cup {None}
  /\ active \in 0 .. MaxHeaps
  /\ allocated \in Nat
  /\ ptr \in [Slots -> Objs \cup {None}]
  /\ size \in [Objs -> 0 .. MaxSize]
  /\ live \subseteq Objs
  /\ held \subseteq Objs
  /\ pc \in [Threads -> {"idle", "alloc", "free", "health"}]
  /\ obj \in [Threads -> Objs \cup {None}]
  /\ seen \in [Threads -> 0 .. MaxHeaps]
  /\ fatal \in [Threads -> BOOLEAN]
  /\ calm \in [Threads -> BOOLEAN]
  /\ draining \in BOOLEAN
  /\ mixed \in BOOLEAN

ActiveIsLive == active = Cardinality(live)

(* The units of memory that callers have been given. *)
Units == {u \in live \X Sizes : u[2] <= size[u[1]]}

(* As long as callers free everything before they allocate again, the way  *)
(* reactor.c uses one pool at a time, heap.c counts what it has given out: *)
(* active is the number of live objects, and allocated of their units, but *)
(* for those of a call under way.                                          *)
Counted ==
  ~mixed =>
    /\ ActiveIsLive
    /\ (\A t \in Threads : ~InCall(t)) => allocated = Cardinality(Units)

(* The table never names freed memory, which heap_free_all() would touch   *)
(* (heap.c:64-70), and names no object twice.                              *)
NoDanglingSlot ==
  \A i \in Slots : ptr[i] # None =>
    /\ ptr[i] \in live
    /\ \A j \in Slots : ptr[j] = ptr[i] => j = i

(* What it rests on: a call under way has the mutex, and its object is one *)
(* nobody else has.                                                        *)
CallsExclusive ==
  /\ held \subseteq live
  /\ \A t \in Threads : InCall(t) => lock = t /\ obj[t] \in Objs
  /\ \A t \in Threads : pc[t] = "alloc" => obj[t] \in live
  /\ \A t \in Threads : pc[t] = "free" => obj[t] \notin live /\ allocated >= size[obj[t]]

HeapInv == TypeOK /\ NoDanglingSlot /\ CallsExclusive

(* Every live object can be freed: it is in the table. *)
EveryLiveTracked == \A p \in live : Tracked(p)

(* That holds as long as one pool at a time is built and torn down,        *)
(* whatever is freed first; *)
FreeFindsIt == ~mixed => EveryLiveTracked

(* then a health check (reactor.c:447, 600) only fails when some other     *)
(* thread's call has overlapped it: the counters are read without the      *)
(* mutex, and change one after the other;                                  *)
HealthNeverFatal ==
  ~mixed => \A t \in Threads : fatal[t] => pc[t] = "health" \/ ~calm[t]

(* so with one pool at a time the table, both counters and what is live    *)
(* agree (heap.c:21-42, 78-103),                                           *)
CountersAgree == Counted /\ FreeFindsIt /\ HealthNeverFatal

(* which rests on this: as long as objects are only added they fill the    *)
(* table from its start, each has a unit, a call under way is a size away  *)
(* from the count, and an undisturbed health check sees the counters rest. *)
Counting ==
  ~mixed =>
    /\ ~draining => \A i \in Slots : i >= active => ptr[i] = None
    /\ \A p \in live : size[p] \in Sizes
    /\ \A t \in Threads :
         /\ pc[t] = "alloc" => allocated + size[obj[t]] = Cardinality(Units)
         /\ pc[t] = "free" => allocated = Cardinality(Units) + size[obj[t]]
         /\ pc[t] = "health" /\ calm[t] =>
              seen[t] = active /\ \A u \in Threads : ~InCall(u)

(* and the mutex never stays locked.                                       *)
LockReleased == lock # None ~> lock = None \/ mixed
=============================================================================
