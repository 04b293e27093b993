------------------------------ MODULE SharedData ------------------------------
(***************************************************************************)
(* The shared data of a pool, in src/reactor.c: a zone of shared memory    *)
(* for its tasks and one for its jobs, that the owner of the pool makes,   *)
(* fills and destroys, in any order.  A zone has the bytes of MaxShared    *)
(* slots, and its header takes less than one slot of them.                 *)
(***************************************************************************)
EXTENDS Integers

CONSTANTS
  MaxShared, \* MAX_SHARED_TASK_DATA and MAX_SHARED_JOB_DATA
  MaxZones   \* bound: how many zones the pool asks for

ASSUME SharedAssumption == MaxShared \in Nat

VARIABLES
  pool,    \* "live", "freed", "crashed"
  mode,    \* pooling_mode: "pure", a pure thread pool, or "epoll"
  parts,   \* "workers" and "jobs", as long as they are not destroyed;
           \* a pure thread pool has no jobs
  zone,    \* per kind: is there one in the pool
  slots,   \* per kind: how many slots vma_alloc() has handed out of it
  count,   \* shared_task_data_count and shared_job_data_count
  asked,   \* history: how often a zone was asked for
  left,    \* history: the kinds of which a zone was dropped for another
  redone,  \* history: the kinds of which a count was set to none
  gone     \* history: <<kind, slots>> of the zones destroyed

sharedVars == <<pool, mode, parts, zone, slots, count, asked, left, redone, gone>>

Kinds == {"task", "job"}

Fits(used, n) == used + n < MaxShared

(* init_shared_task_data() and init_shared_job_data(): the rack of all the *)
(* slots is asked for, and the count is set when there is one.             *)
InitShared(k, created) ==
  /\ pool = "live" /\ asked < MaxZones
  /\ asked' = asked + 1
  /\ zone' = [zone EXCEPT ![k] = created]
  /\ left' = IF zone[k] THEN left \cup {k} ELSE left
  /\ IF created /\ Fits(0, MaxShared)
     THEN slots' = [slots EXCEPT ![k] = MaxShared] /\ count' = [count EXCEPT ![k] = 1]
     ELSE slots' = [slots EXCEPT ![k] = 0] /\ count' = count
  /\ UNCHANGED <<pool, mode, parts, redone, gone>>

(* Slip: the count forgets. *)
CountedNot(n) == n

CountedSet(n) == n + 1

(* set_shared_task_data() and set_shared_job_data().  Without a slot they  *)
(* write to a null pointer.                                                *)
SetShared(k) ==
  /\ pool = "live" /\ zone[k]
  /\ count' = [count EXCEPT ![k] = CountedSet(@)]
  /\ IF Fits(slots[k], 1)
     THEN slots' = [slots EXCEPT ![k] = @ + 1] /\ pool' = pool
     ELSE pool' = "crashed" /\ slots' = slots
  /\ UNCHANGED <<mode, parts, zone, asked, left, redone, gone>>

-----------------------------------------------------------------------------
(* The kinds whose destroy_shared_*_data() goes through when these parts   *)
(* of the pool are left; that of the jobs asks for no zone.                *)
Destroyable(rest) ==
  {k \in Kinds : count[k] <= 0 /\ IF k = "task" THEN zone[k] /\ "workers" \notin rest
                                  ELSE mode = "epoll" /\ "jobs" \notin rest}

ZonesGo(ks) ==
  /\ zone' = [k \in Kinds |-> zone[k] /\ k \notin ks]
  /\ count' = [k \in Kinds |-> IF k \in ks THEN -1 ELSE count[k]]
  /\ gone' = gone \cup {<<k, slots[k]>> : k \in {j \in ks : zone[j]}}
  /\ redone' = redone \cup ks

DestroyShared(k) ==
  /\ pool = "live" /\ k \in Destroyable(parts)
  /\ ZonesGo({k})
  /\ UNCHANGED <<pool, mode, parts, slots, asked, left>>

(* destroy_workers() and destroy_job(), as far as they matter here. *)
DestroyPart(p) ==
  /\ pool = "live" /\ p \in parts
  /\ parts' = parts \ {p}
  /\ UNCHANGED <<pool, mode, zone, slots, count, asked, left, redone, gone>>

(* The parts that are left when destroy_pool() looks at the zones. *)
RestOfPool == {}

DestroyPool ==
  /\ pool = "live"
  /\ pool' = "freed"
  /\ parts' = RestOfPool
  /\ ZonesGo(Destroyable(RestOfPool))
  /\ UNCHANGED <<mode, slots, asked, left>>

-----------------------------------------------------------------------------
SharedInit ==
  /\ pool = "live" /\ mode \in {"pure", "epoll"}
  /\ parts = {"workers"} \cup (IF mode = "epoll" THEN {"jobs"} ELSE {})
  /\ zone = [k \in Kinds |-> FALSE]
  /\ slots = [k \in Kinds |-> 0] /\ count = [k \in Kinds |-> 0]
  /\ asked = 0 /\ left = {} /\ redone = {} /\ gone = {}

SharedNext ==
  \/ \E k \in Kinds :
       \/ \E created \in BOOLEAN : InitShared(k, created)
       \/ SetShared(k) \/ DestroyShared(k)
  \/ \E p \in parts : DestroyPart(p)
  \/ DestroyPool

-----------------------------------------------------------------------------
(* A zone outlives its pool only if something was stored in it, if it is   *)
(* the job data of a pure thread pool, which destroy_shared_job_data()     *)
(* passes over, or if another was dropped for it, whose count it inherits  *)
(* (reactor.c:237, 577, 587-588).                                          *)
UnusedZonesGo ==
  pool = "freed" => \A k \in Kinds : zone[k] =>
    slots[k] > 0 \/ k \in left \/ (k = "job" /\ mode = "pure")

(* Nothing that was stored is destroyed, but for the one slot that a count *)
(* once set to none does not show (reactor.c:582, 593).                    *)
StoredStays ==
  \A g \in gone : g[2] > 0 => g[2] = 1 /\ g[1] \in redone

(* A pool's parts do not outlive their data: no zone goes under the        *)
(* threads or the processes that may use it (reactor.c:579, 590).          *)
ZonesGoLast ==
  \A g \in gone : (IF g[1] = "task" THEN "workers" ELSE "jobs") \notin parts

(* So the counts, which no call keeps equal to what is stored, still say   *)
(* which zones are in use (reactor.c:217-265, 575-595).                    *)
SharedIsKept == UnusedZonesGo /\ StoredStays /\ ZonesGoLast
=============================================================================
