--------------------------- MODULE PoolLifecycle ---------------------------
(***************************************************************************)
(* How a pool of src/reactor.c is set up and torn down by its owner: the   *)
(* three init_mode_*() functions, init_job() and init_worker() as they     *)
(* call them, and destroy_pool() with destroy_job() and destroy_workers(), *)
(* together with the heap tracker all of it is allocated from and the      *)
(* child processes of the jobs (external).                                 *)
(*                                                                         *)
(* One owner thread makes these calls, so a heap_alloc() or heap_free() is *)
(* one step here (HeapTracker has both halves), and tracking_health(),     *)
(* which only two threads can make fail, is left out.  The shutdown        *)
(* handshake with the worker threads is one step (Reactor has all of it).  *)
(* Left out as well: arguments out of range, after which nothing happens,  *)
(* failures of arena_init() and pthread_create() (Reactor), the semaphore  *)
(* of the pool, and shared task and job data, which no pool has until      *)
(* init_shared_*() is called.                                              *)
(***************************************************************************)
EXTENDS Naturals, FiniteSets

CONSTANTS
  Pools,      \* the pools made, one after the other or at the same time
  MaxWorkers, \* MAX_POOLS, the largest worker_count
  MaxJobs,    \* MAX_JOBS, the largest job_count
  MaxHeaps,   \* MAX_HEAPS, the size of the tracker's table
  Epolls,     \* whether a pool gets an epoll descriptor: a set of BOOLEANs
  OnePool,    \* a pool is made only when no other is there
  Faults      \* what may fail: "malloc", "fork"

ASSUME PoolsAssumption == IsFiniteSet(Pools)
ASSUME BoundsAssumption ==
  /\ MaxWorkers \in Nat \ {0} /\ MaxJobs \in Nat \ {0} /\ MaxHeaps \in Nat \ {0}
  /\ Epolls \subseteq BOOLEAN /\ Epolls # {} /\ OnePool \in BOOLEAN

WorkerIds == 1 .. MaxWorkers
JobIds == 1 .. MaxJobs

(* What the tracker gives out, by what it is used for. *)
Thing(k, kind, i) == <<k, kind, i>>
Things == Pools \X {"pool", "jobs", "workers"} \X {0}
          \cup Pools \X {"job"} \X JobIds \cup Pools \X {"worker"} \X WorkerIds
Nothing == << >>

VARIABLES
  op,     \* the call the owner is in: its step, its pool, its loop index
  stage,  \* per pool, what became of it
  conf,   \* per pool, job_count, worker_count and whether pooling_mode is epoll
  made,   \* per pool, the jobs and workers its tables name
  table,  \* heap_tracker_t.ptr
  active, \* heap_tracker_t.active
  locked, \* heap_tracker_t.mutex was left locked
  live,   \* what has been allocated and not freed
  proc,   \* per pool, its child processes
  thread  \* per pool, its worker threads that have not ended

heapVars == <<table, active, locked, live>>
vars == <<op, stage, conf, made, heapVars, proc, thread>>

Confs == [nj : 0 .. MaxJobs, nw : 0 .. MaxWorkers, epoll : Epolls]
Idle == [at |-> "idle", k |-> Nothing, i |-> 0]

At(step) == op.at = step
Step(at, i) == op' = [op EXCEPT !.at = at, !.i = i]

-----------------------------------------------------------------------------
(* The tracker. *)

Slots == 0 .. MaxHeaps - 1

(* heap_alloc() of x: its slot is the one active points to. *)
HeapAlloc(x) ==
  /\ ~locked /\ active < MaxHeaps
  /\ table' = [table EXCEPT ![active] = x]
  /\ active' = active + 1
  /\ live' = live \cup {x}
  /\ UNCHANGED locked

(* It returns null: the table is full, or malloc() fails. *)
HeapAllocFails ==
  /\ ~locked
  /\ active = MaxHeaps \/ "malloc" \in Faults
  /\ UNCHANGED heapVars

(* heap_free() of x: its first slot is cleared; when it has none, nothing  *)
(* is freed and the mutex stays locked.                                    *)
HeapFree(x) ==
  LET at == {i \in Slots : table[i] = x} IN
  /\ ~locked
  /\ IF at = {} \/ active = 0
     THEN locked' = TRUE /\ UNCHANGED <<table, active, live>>
     ELSE /\ table' = [table EXCEPT ![CHOOSE i \in at : \A j \in at : i <= j] = Nothing]
          /\ active' = active - 1
          /\ live' = live \ {x}
          /\ UNCHANGED locked

-----------------------------------------------------------------------------
(* init_mode_threading() makes a pool with workers, init_mode_processing() *)
(* one with jobs, init_mode_threaded_processing() one with both.           *)

Has(k, what) == IF what = "jobs" THEN conf[k].nj > 0 ELSE conf[k].nw > 0

Create(k, c) ==
  /\ At("idle") /\ stage[k] = "none"
  /\ c.nj > 0 \/ c.nw > 0
  /\ OnePool => \A j \in Pools : stage[j] # "ready"
  /\ conf' = [conf EXCEPT ![k] = c]
  /\ \/ /\ HeapAlloc(Thing(k, "pool", 0))
        /\ op' = [at |-> IF c.nj > 0 THEN "jobs" ELSE "workers", k |-> k, i |-> 0]
        /\ UNCHANGED stage
     \/ /\ HeapAllocFails
        /\ stage' = [stage EXCEPT ![k] = "failed"]
        /\ UNCHANGED op
  /\ UNCHANGED <<made, proc, thread>>

AllocJobs ==
  /\ At("jobs")
  /\ \/ /\ HeapAlloc(Thing(op.k, "jobs", 0))
        /\ IF Has(op.k, "workers") THEN Step("workers", 0) ELSE Step("job", 1)
     \/ HeapAllocFails /\ Step("undo_pool", 0)
  /\ UNCHANGED <<stage, conf, made, proc, thread>>

(* Slip: the table of jobs is not freed when that of the workers fails.    *)
AllocWorkersForgetJobs ==
  /\ At("workers")
  /\ \/ /\ HeapAlloc(Thing(op.k, "workers", 0))
        /\ IF Has(op.k, "jobs") THEN Step("job", 1) ELSE Step("worker", 1)
     \/ HeapAllocFails /\ Step("undo_pool", 0)
  /\ UNCHANGED <<stage, conf, made, proc, thread>>

AllocWorkers ==
  /\ At("workers")
  /\ \/ /\ HeapAlloc(Thing(op.k, "workers", 0))
        /\ IF Has(op.k, "jobs") THEN Step("job", 1) ELSE Step("worker", 1)
     \/ /\ HeapAllocFails
        /\ IF Has(op.k, "jobs") THEN Step("undo_jobs", 0) ELSE Step("undo_pool", 0)
  /\ UNCHANGED <<stage, conf, made, proc, thread>>

UndoJobs ==
  /\ At("undo_jobs")
  /\ HeapFree(Thing(op.k, "jobs", 0))
  /\ Step("undo_pool", 0)
  /\ UNCHANGED <<stage, conf, made, proc, thread>>

UndoPool ==
  /\ At("undo_pool")
  /\ HeapFree(Thing(op.k, "pool", 0))
  /\ stage' = [stage EXCEPT ![op.k] = "failed"]
  /\ op' = Idle
  /\ UNCHANGED <<conf, made, proc, thread>>

(* The loops over init_job() and init_worker(): after the last one the     *)
(* workers follow the jobs, and the pool is ready.                         *)
Return == op' = Idle /\ stage' = [stage EXCEPT ![op.k] = "ready"]

AfterJob ==
  IF op.i < conf[op.k].nj THEN Step("job", op.i + 1) /\ UNCHANGED stage
  ELSE IF Has(op.k, "workers") THEN Step("worker", 1) /\ UNCHANGED stage
  ELSE Return

AfterWorker ==
  IF op.i < conf[op.k].nw THEN Step("worker", op.i + 1) /\ UNCHANGED stage
  ELSE Return

(* init_job(): the job is allocated and its child process forked. *)
InitJob ==
  LET x == Thing(op.k, "job", op.i) IN
  /\ At("job")
  /\ HeapAlloc(x)
  /\ made' = [made EXCEPT ![op.k] = @ \cup {x}]
  /\ proc' = [proc EXCEPT ![op.k][op.i] = "up"]
  /\ AfterJob
  /\ UNCHANGED <<conf, thread>>

(* process_spawn() ends the whole program when fork() fails. *)
InitJobDies ==
  /\ At("job")
  /\ "fork" \in Faults
  /\ HeapAlloc(Thing(op.k, "job", op.i))
  /\ Step("dead", 0)
  /\ UNCHANGED <<stage, conf, made, proc, thread>>

(* Without memory the entry of the table stays null. *)
InitJobFails ==
  /\ At("job")
  /\ HeapAllocFails
  /\ AfterJob
  /\ UNCHANGED <<conf, made, proc, thread>>

InitWorker ==
  LET x == Thing(op.k, "worker", op.i) IN
  /\ At("worker")
  /\ HeapAlloc(x)
  /\ made' = [made EXCEPT ![op.k] = @ \cup {x}]
  /\ thread' = [thread EXCEPT ![op.k] = @ \cup {op.i}]
  /\ AfterWorker
  /\ UNCHANGED <<conf, proc>>

InitWorkerFails ==
  /\ At("worker")
  /\ HeapAllocFails
  /\ AfterWorker
  /\ UNCHANGED <<conf, made, proc, thread>>

-----------------------------------------------------------------------------
(* destroy_pool().  destroy_job() does nothing for a pool without an epoll *)
(* descriptor, whatever it has.                                            *)

DestroyPool(k) ==
  /\ At("idle") /\ stage[k] = "ready"
  /\ op' = [at |-> IF conf[k].epoll THEN "kill" ELSE "stop", k |-> k, i |-> 0]
  /\ UNCHANGED <<stage, conf, made, heapVars, proc, thread>>

(* Slip: the jobs are waited for and not told to stop.                     *)
KillNobody ==
  /\ At("kill")
  /\ Step("reap", 1)
  /\ UNCHANGED <<stage, conf, made, heapVars, proc, thread>>

KillJobs ==
  /\ At("kill")
  /\ proc' = [proc EXCEPT ![op.k] =
       [i \in JobIds |-> IF @[i] = "up" THEN "told" ELSE @[i]]]
  /\ Step("reap", 1)
  /\ UNCHANGED <<stage, conf, made, heapVars, thread>>

(* waitpid() and heap_free() of the next job; a null entry is skipped. *)
ReapJob ==
  LET x == Thing(op.k, "job", op.i) IN
  /\ At("reap") /\ op.i <= conf[op.k].nj
  /\ IF x \in made[op.k]
     THEN /\ proc[op.k][op.i] = "ended"
          /\ proc' = [proc EXCEPT ![op.k][op.i] = "reaped"]
          /\ HeapFree(x)
          /\ made' = [made EXCEPT ![op.k] = @ \ {x}]
     ELSE UNCHANGED <<proc, heapVars, made>>
  /\ Step("reap", op.i + 1)
  /\ UNCHANGED <<stage, conf, thread>>

FreeJobs ==
  /\ At("reap") /\ op.i > conf[op.k].nj
  /\ IF Has(op.k, "jobs") THEN HeapFree(Thing(op.k, "jobs", 0)) ELSE UNCHANGED heapVars
  /\ Step("stop", 0)
  /\ UNCHANGED <<stage, conf, made, proc, thread>>

(* Slip: the workers are freed without waiting for them.                   *)
StopNobody ==
  /\ At("stop")
  /\ Step("free_worker", 1)
  /\ UNCHANGED <<stage, conf, made, heapVars, proc, thread>>

StopWorkers ==
  /\ At("stop")
  /\ thread' = [thread EXCEPT ![op.k] = {}]
  /\ Step("free_worker", 1)
  /\ UNCHANGED <<stage, conf, made, heapVars, proc>>

FreeWorker ==
  LET x == Thing(op.k, "worker", op.i) IN
  /\ At("free_worker") /\ op.i <= conf[op.k].nw
  /\ IF x \in made[op.k] THEN HeapFree(x) /\ made' = [made EXCEPT ![op.k] = @ \ {x}]
                         ELSE UNCHANGED <<heapVars, made>>
  /\ Step("free_worker", op.i + 1)
  /\ UNCHANGED <<stage, conf, proc, thread>>

FreeWorkers ==
  /\ At("free_worker") /\ op.i > conf[op.k].nw
  /\ IF Has(op.k, "workers") THEN HeapFree(Thing(op.k, "workers", 0))
                             ELSE UNCHANGED heapVars
  /\ Step("free_pool", 0)
  /\ UNCHANGED <<stage, conf, made, proc, thread>>

FreePool ==
  /\ At("free_pool")
  /\ HeapFree(Thing(op.k, "pool", 0))
  /\ stage' = [stage EXCEPT ![op.k] = "gone"]
  /\ op' = Idle
  /\ UNCHANGED <<conf, made, proc, thread>>

(* A child pauses until SIGTERM ends it. *)
ChildEnds(k, i) ==
  /\ proc[k][i] = "told"
  /\ proc' = [proc EXCEPT ![k][i] = "ended"]
  /\ UNCHANGED <<op, stage, conf, made, heapVars, thread>>

-----------------------------------------------------------------------------
Init ==
  /\ op = Idle
  /\ stage = [k \in Pools |-> "none"]
  /\ conf = [k \in Pools |-> [nj |-> 0, nw |-> 0, epoll |-> CHOOSE e \in Epolls : TRUE]]
  /\ made = [k \in Pools |-> {}]
  /\ table = [i \in Slots |-> Nothing]
  /\ active = 0
  /\ locked = FALSE
  /\ live = {}
  /\ proc = [k \in Pools |-> [i \in JobIds |-> "none"]]
  /\ thread = [k \in Pools |-> {}]

Setup ==
  \/ AllocJobs
  \/ AllocWorkers
  \/ UndoJobs
  \/ UndoPool
  \/ InitJob
  \/ InitJobDies
  \/ InitJobFails
  \/ InitWorker
  \/ InitWorkerFails

Teardown ==
  \/ KillJobs
  \/ ReapJob
  \/ FreeJobs
  \/ StopWorkers
  \/ FreeWorker
  \/ FreeWorkers
  \/ FreePool

Next ==
  \/ \E k \in Pools, c \in Confs : Create(k, c)
  \/ Setup
  \/ \E k \in Pools : DestroyPool(k)
  \/ Teardown
  \/ \E k \in Pools, i \in JobIds : ChildEnds(k, i)

Spec == Init /\ [][Next]_vars

(* A call that has begun goes on, and a child that is told to stop does. *)
FairSpec ==
  /\ Spec
  /\ WF_vars(Setup) /\ WF_vars(Teardown)
  /\ \A k \in Pools, i \in JobIds : WF_vars(ChildEnds(k, i))

-----------------------------------------------------------------------------
(* Properties.                                                             *)

Steps == {"idle", "jobs", "workers", "undo_jobs", "undo_pool", "job", "worker",
          "dead", "kill", "reap", "stop", "free_worker", "free_pool"}

(* The type of every variable. *)
TypeOK ==
  /\ op \in [at : Steps, k : Pools \cup {Nothing}, i : 0 .. MaxJobs + MaxWorkers + 1]
  /\ stage \in [Pools -> {"none", "failed", "ready", "gone"}]
  /\ conf \in [Pools -> Confs]
  /\ made \in [Pools -> SUBSET Things]
  /\ table \in [Slots -> Things \cup {Nothing}]
  /\ active \in 0 .. MaxHeaps
  /\ locked \in BOOLEAN
  /\ live \subseteq Things
  /\ proc \in [Pools -> [JobIds -> {"none", "up", "told", "ended", "reaped"}]]
  /\ thread \in [Pools -> SUBSET WorkerIds]

(* What destroy_job() leaves of a pool without an epoll descriptor: its    *)
(* jobs and their table.                                                   *)
Left(k) ==
  IF stage[k] = "gone" /\ ~conf[k].epoll
  THEN {x \in made[k] : x[2] = "job"} \cup {Thing(k, "jobs", 0)}
  ELSE {}

(* A pool that could not be made or has been destroyed leaves nothing else *)
(* behind, whichever of its parts were missing: no memory, no process, no  *)
(* thread.  reactor.h:7-9: "Free and destroy manually via `destroy_...()`  *)
(* functions."                                                             *)
NothingLeft ==
  \A k \in Pools : stage[k] \in {"failed", "gone"} =>
    /\ \A x \in live \ Left(k) : x[1] # k
    /\ \A i \in JobIds :
         Thing(k, "job", i) \notin Left(k) => proc[k][i] \in {"none", "reaped"}
    /\ thread[k] = {}

(* With one pool at a time the owner frees only what the tracker can find, *)
(* so no heap_free() keeps the mutex.                                      *)
FreesSucceed == ~locked

(* So, whichever allocations fail, a pool leaves neither memory nor a      *)
(* locked tracker behind (reactor.c:418-480, 597-690).                     *)
TearDownIsClean == NothingLeft /\ FreesSucceed

(* A worker thread that is running can use its worker_t, the tables and    *)
(* the pool_t it points to.                                                *)
ThreadsUseLive ==
  \A k \in Pools : thread[k] # {} =>
    /\ \A i \in thread[k] : Thing(k, "worker", i) \in live
    /\ {Thing(k, "workers", 0), Thing(k, "pool", 0)} \subseteq live

(* What that rests on: the owner's pool, while it is in a call, and its    *)
(* loop index;                                                             *)
OpInOrder ==
  /\ op.at # "idle" => op.k \in Pools
  /\ op.at = "jobs" => conf[op.k].nj > 0
  /\ op.at = "workers" => conf[op.k].nw > 0
  /\ op.at = "job" => op.i \in 1 .. conf[op.k].nj
  /\ op.at = "worker" => op.i \in 1 .. conf[op.k].nw
  /\ op.at = "reap" => op.i \in 1 .. conf[op.k].nj + 1
  /\ op.at = "free_worker" => op.i \in 1 .. conf[op.k].nw + 1

(* and that before the first init_worker() of a pool and after the         *)
(* handshake that stops its workers no thread of it runs, and the first    *)
(* one finds the pool and its table.                                       *)
NoThreadSteps == {"jobs", "workers", "undo_jobs", "undo_pool", "job",
                  "free_worker", "free_pool"}

ThreadsInOrder ==
  /\ op.at \in NoThreadSteps => thread[op.k] = {}
  /\ \A k \in Pools : stage[k] = "none" /\ (op.at = "idle" \/ op.k # k) => thread[k] = {}
  /\ op.at \in {"jobs", "workers", "job", "worker"} => Thing(op.k, "pool", 0) \in live
  /\ op.at = "worker" \/ (op.at = "job" /\ Has(op.k, "workers")) =>
       Thing(op.k, "workers", 0) \in live

(* Together they are inductive (reactor.c:308-353, 418-480, 597-690).      *)
PoolInv == TypeOK /\ OpInOrder /\ ThreadsInOrder /\ ThreadsUseLive

(* For one pool at a time to leave nothing behind, more is needed.  Where a *)
(* pool is: in a call of its owner, or what became of it;                  *)
Phase(k) == IF op.at # "idle" /\ op.k = k THEN op.at ELSE stage[k]
SetupSteps == {"jobs", "workers", "undo_jobs", "undo_pool", "job", "worker", "dead"}
Away == {"none", "failed", "gone"}

(* which of its tables there are,                                          *)
Tables(k) ==
  {x \in {Thing(k, "pool", 0)} : Phase(k) \notin Away}
  \cup {x \in {Thing(k, "jobs", 0)} :
          /\ conf[k].nj > 0
          /\ \/ Phase(k) \in {"workers", "undo_jobs", "job", "worker", "ready", "kill", "reap"}
             \/ Phase(k) \in {"stop", "free_worker", "free_pool", "gone"} /\ ~conf[k].epoll}
  \cup {x \in {Thing(k, "workers", 0)} :
          /\ conf[k].nw > 0
          /\ Phase(k) \in {"job", "worker", "ready", "kill", "reap", "stop", "free_worker"}}

(* and which jobs and workers they may name;                               *)
JobsMade(k) ==
  {i \in 1 .. conf[k].nj :
     \/ Phase(k) = "job" /\ i < op.i
     \/ Phase(k) \in {"worker", "ready", "kill"}
     \/ Phase(k) = "reap" /\ i >= op.i
     \/ Phase(k) \in {"stop", "free_worker", "free_pool", "gone"} /\ ~conf[k].epoll}

WorkersMade(k) ==
  {i \in 1 .. conf[k].nw :
     \/ Phase(k) = "worker" /\ i < op.i
     \/ Phase(k) \in {"ready", "kill", "reap", "stop"}
     \/ Phase(k) = "free_worker" /\ i >= op.i}

(* that is all that is live of it, and of its jobs those have a process.   *)
PartsOf(k) ==
  /\ {x \in live : x[1] = k} = Tables(k) \cup made[k]
  /\ made[k] \subseteq {Thing(k, "job", i) : i \in JobsMade(k)}
                       \cup {Thing(k, "worker", i) : i \in WorkersMade(k)}
  /\ \A i \in JobIds :
       proc[k][i] \in {"none", "reaped"} <=> Thing(k, "job", i) \notin made[k]
  /\ Phase(k) \in Away => thread[k] = {}

PartsInOrder == \A k \in Pools : Phase(k) # "dead" => PartsOf(k)

(* There is one pool, which is not "ready" before its set-up has returned. *)
OneInPlay ==
  /\ op.at # "idle" => stage[op.k] = IF op.at \in SetupSteps THEN "none" ELSE "ready"
  /\ op.at \in {"kill", "reap"} => conf[op.k].epoll
  /\ op.at = "undo_jobs" => conf[op.k].nj > 0
  /\ \A j, k \in Pools : Phase(j) \notin Away /\ Phase(k) \notin Away => j = k

(* And the tracker finds every part of it: each went into the table behind *)
(* the last, over what gone pools have left there.                         *)
Building == {"jobs", "workers", "job", "worker"}

PartsTracked ==
  /\ active = Cardinality(live)
  /\ \A x \in live : Phase(x[1]) \notin Away => \E i \in Slots : table[i] = x
  /\ \A i \in Slots : table[i] # Nothing =>
       /\ table[i] \in live
       /\ \A j \in Slots : table[j] = table[i] => j = i
       /\ i >= active /\ op.at \in Building => op.k # table[i][1]

(* destroy_pool() returns: every child it waits for has been told to end.  *)
DestroyReturns == op.at \in {"kill", "stop"} ~> op.at = "idle"
=============================================================================
