------------------------ MODULE PoolLifecycleProofs ------------------------
(***************************************************************************)
(* Proofs about PoolLifecycle, for any number of pools at the same time or *)
(* in turn, any limits and whatever fails.                                 *)
(***************************************************************************)
EXTENDS PoolLifecycle, FiniteSetTheorems, TLAPS

USE PoolsAssumption, BoundsAssumption

-----------------------------------------------------------------------------
(* What heap_alloc() and heap_free() do to the tracker and to what is live.*)
HeapOK ==
  /\ table \in [Slots -> Things \cup {Nothing}]
  /\ active \in 0 .. MaxHeaps
  /\ locked \in BOOLEAN
  /\ live \subseteq Things

LEMMA AllocType ==
  ASSUME HeapOK, NEW x \in Things, HeapAlloc(x)
  PROVE  HeapOK' /\ live' = live \cup {x}
BY DEF HeapOK, HeapAlloc, Slots

LEMMA AllocFailsType ==
  ASSUME HeapOK, HeapAllocFails
  PROVE  HeapOK' /\ live' = live
BY DEF HeapOK, HeapAllocFails, heapVars

LEMMA FreeType ==
  ASSUME HeapOK, NEW x, HeapFree(x)
  PROVE  HeapOK' /\ live' \subseteq live /\ live \ {x} \subseteq live'
<1> DEFINE at == {i \in Slots : table[i] = x}
           j == CHOOSE i \in at : \A k \in at : i <= k
<1>1. CASE at = {} \/ active = 0
  BY <1>1 DEF HeapOK, HeapFree
<1>2. CASE at # {} /\ active # 0
  <2>1. /\ table' = [table EXCEPT ![j] = Nothing]
        /\ active' = active - 1 /\ live' = live \ {x} /\ UNCHANGED locked
    BY <1>2 DEF HeapFree
  <2> HIDE DEF at, j
  <2>2. table' \in [Slots -> Things \cup {Nothing}]
    BY <2>1 DEF HeapOK
  <2>3. active' \in 0 .. MaxHeaps
    BY <1>2, <2>1 DEF HeapOK
  <2>4. locked' \in BOOLEAN
    BY <2>1 DEF HeapOK
  <2>5. live' \subseteq live /\ live \ {x} \subseteq live' /\ live' \subseteq Things
    BY <2>1 DEF HeapOK
  <2> QED
    BY <2>2, <2>3, <2>4, <2>5 DEF HeapOK
<1> QED
  BY <1>1, <1>2

LEMMA ThingType ==
  ASSUME NEW k \in Pools
  PROVE  /\ Thing(k, "pool", 0) \in Things
         /\ Thing(k, "jobs", 0) \in Things
         /\ Thing(k, "workers", 0) \in Things
         /\ \A i \in JobIds : Thing(k, "job", i) \in Things
         /\ \A i \in WorkerIds : Thing(k, "worker", i) \in Things
BY DEF Thing, Things

(* Two things are the same only when all of their parts are. *)
LEMMA ThingsDiffer ==
  ASSUME NEW k, NEW a, NEW i, NEW l, NEW b, NEW j, Thing(k, a, i) = Thing(l, b, j)
  PROVE  k = l /\ a = b /\ i = j
BY DEF Thing

LEMMA ThingParts ==
  ASSUME NEW k, NEW kind, NEW i
  PROVE  Thing(k, kind, i)[1] = k /\ Thing(k, kind, i)[2] = kind /\ Thing(k, kind, i)[3] = i
BY DEF Thing

LEMMA InitPoolInv == Init => PoolInv
<1> SUFFICES ASSUME Init
             PROVE  PoolInv
  OBVIOUS
<1> USE DEF Init
<1>1. TypeOK
  <2>1. op \in [at : Steps, k : Pools \cup {Nothing}, i : 0 .. MaxJobs + MaxWorkers + 1]
    BY DEF Idle, Steps
  <2>2. conf \in [Pools -> Confs]
    <3> DEFINE e == CHOOSE x \in Epolls : TRUE
    <3>1. \E x \in Epolls : TRUE
      OBVIOUS
    <3>2. e \in Epolls
      BY <3>1
    <3>3. conf = [k \in Pools |-> [nj |-> 0, nw |-> 0, epoll |-> e]]
      OBVIOUS
    <3> HIDE DEF e
    <3>4. [nj |-> 0, nw |-> 0, epoll |-> e] \in Confs
      BY <3>2 DEF Confs
    <3> QED
      BY <3>3, <3>4
  <2>3. /\ table \in [Slots -> Things \cup {Nothing}] /\ active \in 0 .. MaxHeaps
        /\ locked \in BOOLEAN /\ live \subseteq Things
    <3>1. active \in 0 .. MaxHeaps
      OBVIOUS
    <3>2. table \in [Slots -> Things \cup {Nothing}]
      OBVIOUS
    <3>3. locked \in BOOLEAN /\ live \subseteq Things
      OBVIOUS
    <3> QED
      BY <3>1, <3>2, <3>3
  <2>4. /\ stage \in [Pools -> {"none", "failed", "ready", "gone"}]
        /\ made \in [Pools -> SUBSET Things]
        /\ proc \in [Pools -> [JobIds -> {"none", "up", "told", "ended", "reaped"}]]
        /\ thread \in [Pools -> SUBSET WorkerIds]
    OBVIOUS
  <2> QED
    BY <2>1, <2>2, <2>3, <2>4 DEF TypeOK
<1>2. op.at = "idle"
  BY DEF Idle
<1> QED
  BY <1>1, <1>2 DEF PoolInv, OpInOrder, ThreadsInOrder, NoThreadSteps, ThreadsUseLive

-----------------------------------------------------------------------------
(* Where a step takes the owner. *)
Ops == [at : Steps, k : Pools \cup {Nothing}, i : 0 .. MaxJobs + MaxWorkers + 1]

LEMMA StepType ==
  ASSUME TypeOK, NEW to \in Steps, NEW i \in 0 .. MaxJobs + MaxWorkers + 1, Step(to, i)
  PROVE  op' \in Ops /\ op'.at = to /\ op'.k = op.k /\ op'.i = i
BY DEF TypeOK, Ops, Step

LEMMA IdleType == Idle \in Ops /\ Idle.at = "idle" /\ Idle.k = Nothing
BY DEF Idle, Ops, Steps

LEMMA ConfType ==
  ASSUME TypeOK, NEW k \in Pools
  PROVE  conf[k].nj \in 0 .. MaxJobs /\ conf[k].nw \in 0 .. MaxWorkers
BY DEF TypeOK, Confs

(* Memory that a running thread uses is kept. *)
LEMMA UseKept ==
  ASSUME ThreadsUseLive, thread' = thread, NEW x, live \ {x} \subseteq live',
         \A k \in Pools : thread[k] # {} =>
           /\ x # Thing(k, "pool", 0) /\ x # Thing(k, "workers", 0)
           /\ \A i \in thread[k] : x # Thing(k, "worker", i)
  PROVE  ThreadsUseLive'
BY DEF ThreadsUseLive

LEMMA UseGrows ==
  ASSUME ThreadsUseLive, thread' = thread, live \subseteq live'
  PROVE  ThreadsUseLive'
BY DEF ThreadsUseLive

(* Something of a pool without threads, or a job, is not used by a thread. *)
LEMMA NotUsed ==
  ASSUME NEW l \in Pools, NEW kind, NEW j, thread[l] = {} \/ kind \in {"job", "jobs"}
  PROVE  \A k \in Pools : thread[k] # {} =>
           /\ Thing(l, kind, j) # Thing(k, "pool", 0)
           /\ Thing(l, kind, j) # Thing(k, "workers", 0)
           /\ \A i \in thread[k] : Thing(l, kind, j) # Thing(k, "worker", i)
<1> SUFFICES ASSUME NEW k \in Pools, thread[k] # {}
             PROVE  /\ Thing(l, kind, j) # Thing(k, "pool", 0)
                    /\ Thing(l, kind, j) # Thing(k, "workers", 0)
                    /\ \A i \in thread[k] : Thing(l, kind, j) # Thing(k, "worker", i)
  OBVIOUS
<1>1. \A b, i : Thing(l, kind, j) = Thing(k, b, i) => l = k /\ kind = b
  BY ThingsDiffer
<1> QED
  BY <1>1

-----------------------------------------------------------------------------
(* The set-up of a pool. *)
LEMMA CreateInv ==
  ASSUME PoolInv, NEW k \in Pools, NEW c \in Confs, Create(k, c)
  PROVE  PoolInv'
<1> USE DEF PoolInv
<1>1. /\ op.at = "idle" /\ stage[k] = "none" /\ thread[k] = {}
      /\ conf' = [conf EXCEPT ![k] = c] /\ conf' \in [Pools -> Confs]
      /\ conf'[k] = c /\ UNCHANGED <<made, proc, thread>>
      /\ c.nj > 0 \/ c.nw > 0
  BY DEF Create, At, TypeOK, ThreadsInOrder
<1>2. HeapOK
  BY DEF TypeOK, HeapOK
<1>3. CASE HeapAlloc(Thing(k, "pool", 0)) /\ op' = [at |-> IF c.nj > 0 THEN "jobs" ELSE "workers", k |-> k, i |-> 0] /\ UNCHANGED stage
  <2>1. HeapOK' /\ live' = live \cup {Thing(k, "pool", 0)}
    BY <1>2, <1>3, AllocType, ThingType
  <2>2. /\ op' \in Ops /\ op'.k = k /\ op'.at \in {"jobs", "workers"}
        /\ op'.at = "jobs" => c.nj > 0
        /\ op'.at = "workers" => c.nw > 0
    BY <1>1, <1>3 DEF Ops, Steps
  <2>3. TypeOK'
    BY <1>1, <1>3, <2>1, <2>2 DEF TypeOK, HeapOK, Ops
  <2>4. OpInOrder'
    BY <1>1, <2>2 DEF OpInOrder
  <2>5. ThreadsInOrder'
    BY <1>1, <1>3, <2>1, <2>2 DEF ThreadsInOrder, NoThreadSteps
  <2>6. ThreadsUseLive'
    BY <1>1, <2>1, UseGrows
  <2> QED
    BY <2>3, <2>4, <2>5, <2>6
<1>4. CASE HeapAllocFails /\ stage' = [stage EXCEPT ![k] = "failed"] /\ UNCHANGED op
  <2>1. HeapOK' /\ live' = live
    BY <1>2, <1>4, AllocFailsType
  <2>2. TypeOK'
    BY <1>1, <1>4, <2>1 DEF TypeOK, HeapOK
  <2>3. OpInOrder'
    BY <1>1, <1>4 DEF OpInOrder
  <2>4. ThreadsInOrder'
    BY <1>1, <1>4, <2>1 DEF ThreadsInOrder, NoThreadSteps, TypeOK
  <2>5. ThreadsUseLive'
    BY <1>1, <2>1, UseGrows
  <2> QED
    BY <2>2, <2>3, <2>4, <2>5
<1> QED
  BY <1>3, <1>4 DEF Create

LEMMA AllocJobsInv ==
  ASSUME PoolInv, AllocJobs
  PROVE  PoolInv'
<1> USE DEF PoolInv
<1>1. /\ op.at = "jobs" /\ op.k \in Pools /\ thread[op.k] = {}
      /\ conf[op.k].nj \in 1 .. MaxJobs /\ conf[op.k].nw \in 0 .. MaxWorkers
      /\ UNCHANGED <<stage, conf, made, proc, thread>>
  BY ConfType DEF AllocJobs, At, OpInOrder, ThreadsInOrder, NoThreadSteps
<1>2. HeapOK
  BY DEF TypeOK, HeapOK
<1>3. HeapOK' /\ live \subseteq live'
  BY <1>1, <1>2, AllocType, AllocFailsType, ThingType DEF AllocJobs
<1>4. \/ op' \in Ops /\ op'.k = op.k /\ op'.at = "workers" /\ conf[op.k].nw > 0
      \/ op' \in Ops /\ op'.k = op.k /\ op'.at = "job" /\ op'.i = 1 /\ conf[op.k].nw = 0
      \/ op' \in Ops /\ op'.k = op.k /\ op'.at = "undo_pool"
  BY <1>1, StepType DEF AllocJobs, Steps, Has
<1>5. TypeOK'
  BY <1>1, <1>3, <1>4 DEF TypeOK, HeapOK, Ops
<1>6. OpInOrder'
  BY <1>1, <1>4 DEF OpInOrder
<1>7. ThreadsInOrder'
  BY <1>1, <1>3, <1>4 DEF ThreadsInOrder, NoThreadSteps, Has
<1>8. ThreadsUseLive'
  BY <1>1, <1>3, UseGrows
<1> QED
  BY <1>5, <1>6, <1>7, <1>8

LEMMA AllocWorkersInv ==
  ASSUME PoolInv, AllocWorkers
  PROVE  PoolInv'
<1> USE DEF PoolInv
<1>1. /\ op.at = "workers" /\ op.k \in Pools /\ thread[op.k] = {}
      /\ conf[op.k].nj \in 0 .. MaxJobs /\ conf[op.k].nw \in 1 .. MaxWorkers
      /\ Thing(op.k, "pool", 0) \in live
      /\ UNCHANGED <<stage, conf, made, proc, thread>>
  BY ConfType DEF AllocWorkers, At, OpInOrder, ThreadsInOrder, NoThreadSteps
<1>2. HeapOK
  BY DEF TypeOK, HeapOK
<1>3. HeapOK' /\ live \subseteq live'
  BY <1>1, <1>2, AllocType, AllocFailsType, ThingType DEF AllocWorkers
<1>4. /\ op' \in Ops /\ op'.k = op.k
      /\ \/ /\ op'.at = "job" /\ op'.i = 1 /\ conf[op.k].nj > 0
            /\ Thing(op.k, "workers", 0) \in live'
         \/ /\ op'.at = "worker" /\ op'.i = 1
            /\ Thing(op.k, "workers", 0) \in live'
         \/ op'.at \in {"undo_jobs", "undo_pool"}
  BY <1>1, <1>2, AllocType, ThingType, StepType DEF AllocWorkers, Steps, Has
<1>5. TypeOK'
  BY <1>1, <1>3, <1>4 DEF TypeOK, HeapOK, Ops
<1>6. OpInOrder'
  BY <1>1, <1>4 DEF OpInOrder
<1>7. ThreadsInOrder'
  BY <1>1, <1>3, <1>4 DEF ThreadsInOrder, NoThreadSteps, Has
<1>8. ThreadsUseLive'
  BY <1>1, <1>3, UseGrows
<1> QED
  BY <1>5, <1>6, <1>7, <1>8

LEMMA UndoInv ==
  ASSUME PoolInv, UndoJobs \/ UndoPool
  PROVE  PoolInv'
<1> USE DEF PoolInv
<1>1. /\ op.at \in {"undo_jobs", "undo_pool"} /\ op.k \in Pools /\ thread[op.k] = {}
      /\ UNCHANGED <<conf, made, proc, thread>>
  BY DEF UndoJobs, UndoPool, At, OpInOrder, ThreadsInOrder, NoThreadSteps
<1>2. HeapOK
  BY DEF TypeOK, HeapOK
<1>3. PICK kind \in {"jobs", "pool"} : HeapFree(Thing(op.k, kind, 0))
  BY DEF UndoJobs, UndoPool
<1>4. HeapOK' /\ live \ {Thing(op.k, kind, 0)} \subseteq live'
  BY <1>2, <1>3, FreeType
<1>5. \/ op' \in Ops /\ op'.k = op.k /\ op'.at = "undo_pool" /\ UNCHANGED stage
      \/ op' = Idle /\ stage' = [stage EXCEPT ![op.k] = "failed"]
  BY <1>1, StepType DEF UndoJobs, UndoPool, Steps
<1>6. TypeOK'
  BY <1>1, <1>4, <1>5, IdleType DEF TypeOK, HeapOK, Ops
<1>7. OpInOrder'
  BY <1>1, <1>5, IdleType DEF OpInOrder
<1>8. ThreadsInOrder'
  BY <1>1, <1>5, IdleType DEF ThreadsInOrder, NoThreadSteps, TypeOK
<1>9. ThreadsUseLive'
  <2> DEFINE x == Thing(op.k, kind, 0)
  <2>1. \A k \in Pools : thread[k] # {} =>
          /\ x # Thing(k, "pool", 0) /\ x # Thing(k, "workers", 0)
          /\ \A i \in thread[k] : x # Thing(k, "worker", i)
    BY <1>1, NotUsed
  <2> HIDE DEF x
  <2>2. thread' = thread /\ live \ {x} \subseteq live'
    BY <1>1, <1>4 DEF x
  <2> QED
    BY <2>1, <2>2, UseKept
<1> QED
  BY <1>6, <1>7, <1>8, <1>9

(* Where the loops over jobs and workers go on. *)
LEMMA AfterJobType ==
  ASSUME PoolInv, op.at = "job", AfterJob
  PROVE  \/ /\ op' \in Ops /\ op'.k = op.k /\ op'.at = "job"
            /\ op'.i \in 1 .. conf[op.k].nj /\ UNCHANGED stage
         \/ /\ op' \in Ops /\ op'.k = op.k /\ op'.at = "worker" /\ op'.i = 1
            /\ conf[op.k].nw \in 1 .. MaxWorkers /\ UNCHANGED stage
         \/ /\ op' = Idle /\ stage' = [stage EXCEPT ![op.k] = "ready"]
<1>1. op.k \in Pools /\ op.i \in 1 .. conf[op.k].nj
  BY DEF PoolInv, OpInOrder
<1>2. conf[op.k].nj \in 0 .. MaxJobs /\ conf[op.k].nw \in 0 .. MaxWorkers
  BY <1>1, ConfType DEF PoolInv
<1>3. CASE op.i < conf[op.k].nj
  BY <1>1, <1>2, <1>3, StepType DEF AfterJob, PoolInv, Steps
<1>4. CASE ~(op.i < conf[op.k].nj)
  BY <1>1, <1>2, <1>4, StepType DEF AfterJob, PoolInv, Steps, Has, Return
<1> QED
  BY <1>3, <1>4

LEMMA AfterWorkerType ==
  ASSUME PoolInv, op.at = "worker", AfterWorker
  PROVE  \/ /\ op' \in Ops /\ op'.k = op.k /\ op'.at = "worker"
            /\ op'.i \in 1 .. conf[op.k].nw /\ UNCHANGED stage
         \/ /\ op' = Idle /\ stage' = [stage EXCEPT ![op.k] = "ready"]
<1>1. op.k \in Pools /\ op.i \in 1 .. conf[op.k].nw
  BY DEF PoolInv, OpInOrder
<1>2. conf[op.k].nj \in 0 .. MaxJobs /\ conf[op.k].nw \in 0 .. MaxWorkers
  BY <1>1, ConfType DEF PoolInv
<1>3. CASE op.i < conf[op.k].nw
  BY <1>1, <1>2, <1>3, StepType DEF AfterWorker, PoolInv, Steps
<1>4. CASE ~(op.i < conf[op.k].nw)
  BY <1>1, <1>2, <1>4 DEF AfterWorker, Return
<1> QED
  BY <1>3, <1>4

LEMMA InitJobInv ==
  ASSUME PoolInv, InitJob \/ InitJobDies \/ InitJobFails
  PROVE  PoolInv'
<1> USE DEF PoolInv
<1>1. /\ op.at = "job" /\ op.k \in Pools /\ thread[op.k] = {}
      /\ op.i \in JobIds /\ UNCHANGED <<conf, thread>>
  BY ConfType DEF InitJob, InitJobDies, InitJobFails, At, OpInOrder, ThreadsInOrder,
     NoThreadSteps, JobIds
<1>2. HeapOK
  BY DEF TypeOK, HeapOK
<1>3. HeapOK' /\ live \subseteq live'
  BY <1>1, <1>2, AllocType, AllocFailsType, ThingType DEF InitJob, InitJobDies, InitJobFails
<1>4. \/ /\ op' \in Ops /\ op'.k = op.k /\ op'.at = "job"
         /\ op'.i \in 1 .. conf[op.k].nj /\ UNCHANGED stage
      \/ /\ op' \in Ops /\ op'.k = op.k /\ op'.at = "worker" /\ op'.i = 1
         /\ conf[op.k].nw \in 1 .. MaxWorkers /\ UNCHANGED stage
      \/ /\ op' = Idle /\ stage' = [stage EXCEPT ![op.k] = "ready"]
      \/ /\ op' \in Ops /\ op'.k = op.k /\ op'.at = "dead" /\ UNCHANGED stage
  BY <1>1, AfterJobType, StepType DEF InitJob, InitJobDies, InitJobFails, Steps
<1>5. /\ made' \in [Pools -> SUBSET Things]
      /\ proc' \in [Pools -> [JobIds -> {"none", "up", "told", "ended", "reaped"}]]
  <2>1. CASE InitJob
    <3>1. made' \in [Pools -> SUBSET Things]
      BY <1>1, <2>1, ThingType DEF InitJob, TypeOK
    <3>2. proc' \in [Pools -> [JobIds -> {"none", "up", "told", "ended", "reaped"}]]
      BY <1>1, <2>1 DEF InitJob, TypeOK
    <3> QED
      BY <3>1, <3>2
  <2>2. CASE InitJobDies \/ InitJobFails
    BY <2>2 DEF InitJobDies, InitJobFails, TypeOK
  <2> QED
    BY <2>1, <2>2
<1>6. TypeOK'
  BY <1>1, <1>3, <1>4, <1>5, IdleType DEF TypeOK, HeapOK, Ops
<1>7. OpInOrder'
  BY <1>1, <1>4, IdleType DEF OpInOrder
<1>8. ThreadsInOrder'
  BY <1>1, <1>3, <1>4, IdleType DEF ThreadsInOrder, NoThreadSteps, TypeOK, Has
<1>9. ThreadsUseLive'
  BY <1>1, <1>3, UseGrows
<1> QED
  BY <1>6, <1>7, <1>8, <1>9

LEMMA InitWorkerInv ==
  ASSUME PoolInv, InitWorker \/ InitWorkerFails
  PROVE  PoolInv'
<1> USE DEF PoolInv
<1>1. /\ op.at = "worker" /\ op.k \in Pools /\ op.i \in WorkerIds
      /\ {Thing(op.k, "pool", 0), Thing(op.k, "workers", 0)} \subseteq live
      /\ UNCHANGED <<conf, proc>>
  BY ConfType DEF InitWorker, InitWorkerFails, At, OpInOrder, ThreadsInOrder, WorkerIds
<1>2. HeapOK
  BY DEF TypeOK, HeapOK
<1>3. HeapOK' /\ live \subseteq live'
  BY <1>1, <1>2, AllocType, AllocFailsType, ThingType DEF InitWorker, InitWorkerFails
<1>4. \/ /\ op' \in Ops /\ op'.k = op.k /\ op'.at = "worker"
         /\ op'.i \in 1 .. conf[op.k].nw /\ UNCHANGED stage
      \/ /\ op' = Idle /\ stage' = [stage EXCEPT ![op.k] = "ready"]
  BY <1>1, AfterWorkerType DEF InitWorker, InitWorkerFails
<1>5. made' \in [Pools -> SUBSET Things]
  BY <1>1, ThingType DEF InitWorker, InitWorkerFails, TypeOK
<1>6. \/ /\ thread' = [thread EXCEPT ![op.k] = @ \cup {op.i}]
         /\ Thing(op.k, "worker", op.i) \in live'
      \/ thread' = thread
  BY <1>1, <1>2, AllocType, ThingType DEF InitWorker, InitWorkerFails
<1>7. /\ thread' \in [Pools -> SUBSET WorkerIds]
      /\ \A k \in Pools : k # op.k => thread'[k] = thread[k]
  BY <1>1, <1>6 DEF TypeOK
<1>8. TypeOK'
  BY <1>1, <1>3, <1>4, <1>5, <1>7, IdleType DEF TypeOK, HeapOK, Ops
<1>9. OpInOrder'
  BY <1>1, <1>4, IdleType DEF OpInOrder
<1>10. ThreadsInOrder'
  BY <1>1, <1>3, <1>4, <1>7, IdleType DEF ThreadsInOrder, NoThreadSteps, TypeOK
<1>11. ThreadsUseLive'
  <2>1. \A i \in thread'[op.k] : Thing(op.k, "worker", i) \in live'
    BY <1>1, <1>3, <1>6 DEF ThreadsUseLive, TypeOK
  <2> QED
    BY <1>1, <1>3, <1>7, <2>1 DEF ThreadsUseLive
<1> QED
  BY <1>8, <1>9, <1>10, <1>11

-----------------------------------------------------------------------------
(* The tear-down of a pool. *)
LEMMA DestroyPoolInv ==
  ASSUME PoolInv, NEW k \in Pools, DestroyPool(k)
  PROVE  PoolInv'
<1> USE DEF PoolInv
<1>1. /\ op.at = "idle" /\ stage[k] = "ready"
      /\ op' \in Ops /\ op'.k = k /\ op'.at \in {"kill", "stop"}
      /\ UNCHANGED <<stage, conf, made, table, active, locked, live, proc, thread>>
  BY DEF DestroyPool, At, Ops, Steps, heapVars
<1>2. TypeOK'
  BY <1>1 DEF TypeOK, Ops
<1>3. OpInOrder' /\ ThreadsInOrder'
  BY <1>1 DEF OpInOrder, ThreadsInOrder, NoThreadSteps
<1>4. ThreadsUseLive'
  BY <1>1, UseGrows
<1> QED
  BY <1>2, <1>3, <1>4

(* A step of destroy_job(): threads may be running, and what is freed is a *)
(* job or the table of jobs.                                               *)
LEMMA JobsStepInv ==
  ASSUME PoolInv, KillJobs \/ ReapJob \/ FreeJobs
  PROVE  PoolInv'
<1> USE DEF PoolInv
<1>1. /\ op.at \in {"kill", "reap"} /\ op.k \in Pools
      /\ conf[op.k].nj \in 0 .. MaxJobs
      /\ UNCHANGED <<stage, conf, thread>>
  BY ConfType DEF KillJobs, ReapJob, FreeJobs, At, OpInOrder
<1>2. HeapOK
  BY DEF TypeOK, HeapOK
<1>3. \E x : /\ \A k \in Pools : thread[k] # {} =>
                 /\ x # Thing(k, "pool", 0) /\ x # Thing(k, "workers", 0)
                 /\ \A i \in thread[k] : x # Thing(k, "worker", i)
             /\ HeapOK' /\ live \ {x} \subseteq live'
  <2>1. \A kind \in {"job", "jobs"} : \A j : \A k \in Pools : thread[k] # {} =>
           /\ Thing(op.k, kind, j) # Thing(k, "pool", 0)
           /\ Thing(op.k, kind, j) # Thing(k, "workers", 0)
           /\ \A i \in thread[k] : Thing(op.k, kind, j) # Thing(k, "worker", i)
    BY <1>1, NotUsed
  <2>2. PICK kind \in {"job", "jobs"} : \E j :
          UNCHANGED <<table, active, locked, live>> \/ HeapFree(Thing(op.k, kind, j))
    BY DEF KillJobs, ReapJob, FreeJobs, heapVars
  <2>3. PICK j :
          UNCHANGED <<table, active, locked, live>> \/ HeapFree(Thing(op.k, kind, j))
    BY <2>2
  <2>4. HeapOK' /\ live \ {Thing(op.k, kind, j)} \subseteq live'
    <3>1. CASE UNCHANGED <<table, active, locked, live>>
      BY <1>2, <3>1 DEF HeapOK
    <3>2. CASE HeapFree(Thing(op.k, kind, j))
      BY <1>2, <3>2, FreeType
    <3> QED
      BY <2>3, <3>1, <3>2
  <2> DEFINE x == Thing(op.k, kind, j)
  <2>5. \A k \in Pools : thread[k] # {} =>
          /\ x # Thing(k, "pool", 0) /\ x # Thing(k, "workers", 0)
          /\ \A i \in thread[k] : x # Thing(k, "worker", i)
    BY <2>1
  <2>6. HeapOK' /\ live \ {x} \subseteq live'
    BY <2>4
  <2> HIDE DEF x
  <2> QED
    BY <2>5, <2>6
<1>4. /\ op' \in Ops /\ op'.k = op.k
      /\ \/ op'.at = "reap" /\ op'.i \in 1 .. conf[op.k].nj + 1
         \/ op'.at = "stop"
  <2>1. CASE KillJobs
    BY <1>1, <2>1, StepType DEF KillJobs, Steps
  <2>2. CASE ReapJob
    <3>1. op.i + 1 \in 1 .. conf[op.k].nj + 1 /\ op.i + 1 \in 0 .. MaxJobs + MaxWorkers + 1
      BY <1>1, <2>2 DEF ReapJob, OpInOrder, At
    <3> QED
      BY <2>2, <3>1, StepType DEF ReapJob, Steps
  <2>3. CASE FreeJobs
    BY <1>1, <2>3, StepType DEF FreeJobs, Steps
  <2> QED
    BY <2>1, <2>2, <2>3
<1>5. /\ made' \in [Pools -> SUBSET Things]
      /\ proc' \in [Pools -> [JobIds -> {"none", "up", "told", "ended", "reaped"}]]
  <2>1. CASE KillJobs
    BY <1>1, <2>1 DEF KillJobs, TypeOK
  <2>2. CASE ReapJob
    <3>1. op.i \in JobIds
      BY <1>1, <2>2 DEF ReapJob, OpInOrder, At, JobIds
    <3>2. made' \in [Pools -> SUBSET Things]
      <4> DEFINE less == made[op.k] \ {Thing(op.k, "job", op.i)}
      <4>1. made' = made \/ made' = [made EXCEPT ![op.k] = less]
        BY <2>2 DEF ReapJob
      <4>2. made \in [Pools -> SUBSET Things] /\ less \in SUBSET Things
        BY <1>1 DEF TypeOK
      <4> HIDE DEF less
      <4> QED
        BY <1>1, <4>1, <4>2
    <3>3. proc' \in [Pools -> [JobIds -> {"none", "up", "told", "ended", "reaped"}]]
      <4>1. proc' = proc \/ proc' = [proc EXCEPT ![op.k][op.i] = "reaped"]
        BY <2>2 DEF ReapJob
      <4>2. proc \in [Pools -> [JobIds -> {"none", "up", "told", "ended", "reaped"}]]
        BY DEF TypeOK
      <4> QED
        BY <1>1, <3>1, <4>1, <4>2
    <3> QED
      BY <3>2, <3>3
  <2>3. CASE FreeJobs
    BY <2>3 DEF FreeJobs, TypeOK
  <2> QED
    BY <2>1, <2>2, <2>3
<1>6. TypeOK'
  BY <1>1, <1>3, <1>4, <1>5 DEF TypeOK, HeapOK, Ops
<1>7. OpInOrder'
  BY <1>1, <1>4 DEF OpInOrder
<1>8. ThreadsInOrder'
  BY <1>1, <1>4 DEF ThreadsInOrder, NoThreadSteps
<1>9. ThreadsUseLive'
  BY <1>1, <1>3, UseKept
<1> QED
  BY <1>6, <1>7, <1>8, <1>9

LEMMA StopWorkersInv ==
  ASSUME PoolInv, StopWorkers
  PROVE  PoolInv'
<1> USE DEF PoolInv
<1>1. /\ op.at = "stop" /\ op.k \in Pools /\ conf[op.k].nw \in 0 .. MaxWorkers
      /\ thread' = [thread EXCEPT ![op.k] = {}]
      /\ UNCHANGED <<stage, conf, made, table, active, locked, live, proc>>
  BY ConfType DEF StopWorkers, At, OpInOrder, heapVars
<1>2. op' \in Ops /\ op'.k = op.k /\ op'.at = "free_worker" /\ op'.i = 1
  BY StepType DEF StopWorkers, Steps
<1>3. /\ thread' \in [Pools -> SUBSET WorkerIds] /\ thread'[op.k] = {}
      /\ \A k \in Pools : k # op.k => thread'[k] = thread[k]
  BY <1>1 DEF TypeOK
<1>4. TypeOK'
  BY <1>1, <1>2, <1>3 DEF TypeOK, Ops
<1>5. OpInOrder'
  BY <1>1, <1>2 DEF OpInOrder
<1>6. ThreadsInOrder'
  BY <1>1, <1>2, <1>3 DEF ThreadsInOrder, NoThreadSteps
<1>7. ThreadsUseLive'
  BY <1>1, <1>3 DEF ThreadsUseLive
<1> QED
  BY <1>4, <1>5, <1>6, <1>7

(* The rest of destroy_workers() and of destroy_pool(): no thread of the   *)
(* pool is running any more.                                               *)
LEMMA FreePoolInv ==
  ASSUME PoolInv, FreeWorker \/ FreeWorkers \/ FreePool
  PROVE  PoolInv'
<1> USE DEF PoolInv
<1>1. /\ op.at \in {"free_worker", "free_pool"} /\ op.k \in Pools /\ thread[op.k] = {}
      /\ conf[op.k].nw \in 0 .. MaxWorkers
      /\ UNCHANGED <<conf, proc, thread>>
  BY ConfType DEF FreeWorker, FreeWorkers, FreePool, At, OpInOrder, ThreadsInOrder,
     NoThreadSteps
<1>2. HeapOK
  BY DEF TypeOK, HeapOK
<1>3. PICK kind, j :
        UNCHANGED <<table, active, locked, live>> \/ HeapFree(Thing(op.k, kind, j))
  BY DEF FreeWorker, FreeWorkers, FreePool, heapVars
<1>4. HeapOK' /\ live \ {Thing(op.k, kind, j)} \subseteq live'
  <2>1. CASE UNCHANGED <<table, active, locked, live>>
    BY <1>2, <2>1 DEF HeapOK
  <2>2. CASE HeapFree(Thing(op.k, kind, j))
    BY <1>2, <2>2, FreeType
  <2> QED
    BY <1>3, <2>1, <2>2
<1>5. \/ /\ op' \in Ops /\ op'.k = op.k /\ op'.at = "free_worker"
         /\ op'.i \in 1 .. conf[op.k].nw + 1 /\ UNCHANGED stage
      \/ op' \in Ops /\ op'.k = op.k /\ op'.at = "free_pool" /\ UNCHANGED stage
      \/ op' = Idle /\ stage' = [stage EXCEPT ![op.k] = "gone"]
  <2>1. CASE FreeWorker
    <3>1. op.i + 1 \in 1 .. conf[op.k].nw + 1 /\ op.i + 1 \in 0 .. MaxJobs + MaxWorkers + 1
      BY <1>1, <2>1 DEF FreeWorker, OpInOrder, At
    <3> QED
      BY <2>1, <3>1, StepType DEF FreeWorker, Steps
  <2>2. CASE FreeWorkers
    BY <2>2, StepType DEF FreeWorkers, Steps
  <2>3. CASE FreePool
    BY <2>3 DEF FreePool
  <2> QED
    BY <2>1, <2>2, <2>3
<1>6. made' \in [Pools -> SUBSET Things]
  BY <1>1 DEF FreeWorker, FreeWorkers, FreePool, TypeOK
<1>7. TypeOK'
  BY <1>1, <1>4, <1>5, <1>6, IdleType DEF TypeOK, HeapOK, Ops
<1>8. OpInOrder'
  BY <1>1, <1>5, IdleType DEF OpInOrder
<1>9. ThreadsInOrder'
  BY <1>1, <1>5, IdleType DEF ThreadsInOrder, NoThreadSteps, TypeOK
<1>10. ThreadsUseLive'
  <2> DEFINE x == Thing(op.k, kind, j)
  <2>1. \A k \in Pools : thread[k] # {} =>
          /\ x # Thing(k, "pool", 0) /\ x # Thing(k, "workers", 0)
          /\ \A i \in thread[k] : x # Thing(k, "worker", i)
    BY <1>1, NotUsed
  <2> HIDE DEF x
  <2>2. thread' = thread /\ live \ {x} \subseteq live'
    BY <1>1, <1>4 DEF x
  <2> QED
    BY <2>1, <2>2, UseKept
<1> QED
  BY <1>7, <1>8, <1>9, <1>10

LEMMA ChildEndsInv ==
  ASSUME PoolInv, NEW k \in Pools, NEW i \in JobIds, ChildEnds(k, i)
  PROVE  PoolInv'
<1>1. UNCHANGED <<op, stage, conf, made, table, active, locked, live, thread>>
  BY DEF ChildEnds, heapVars
<1>2. proc' \in [Pools -> [JobIds -> {"none", "up", "told", "ended", "reaped"}]]
  BY DEF ChildEnds, PoolInv, TypeOK
<1>3. TypeOK'
  BY <1>1, <1>2 DEF PoolInv, TypeOK
<1> QED
  BY <1>1, <1>3 DEF PoolInv, OpInOrder, ThreadsInOrder, ThreadsUseLive, Has

LEMMA NextPoolInv == PoolInv /\ [Next]_vars => PoolInv'
<1> SUFFICES ASSUME PoolInv, [Next]_vars
             PROVE  PoolInv'
  OBVIOUS
<1>1. ASSUME NEW k \in Pools, NEW c \in Confs, Create(k, c)
      PROVE  PoolInv'
  BY <1>1, CreateInv
<1>2. CASE Setup
  BY <1>2, AllocJobsInv, AllocWorkersInv, UndoInv, InitJobInv, InitWorkerInv DEF Setup
<1>3. ASSUME NEW k \in Pools, DestroyPool(k)
      PROVE  PoolInv'
  BY <1>3, DestroyPoolInv
<1>4. CASE Teardown
  BY <1>4, JobsStepInv, StopWorkersInv, FreePoolInv DEF Teardown
<1>5. ASSUME NEW k \in Pools, NEW i \in JobIds, ChildEnds(k, i)
      PROVE  PoolInv'
  BY <1>5, ChildEndsInv
<1>6. CASE UNCHANGED vars
  BY <1>6 DEF vars, heapVars, PoolInv, TypeOK, OpInOrder, ThreadsInOrder, ThreadsUseLive, Has
<1> QED
  BY <1>1, <1>2, <1>3, <1>4, <1>5, <1>6 DEF Next

-----------------------------------------------------------------------------
(* The owner's calls stay in order and its threads use what is there,      *)
(* whatever fails (reactor.c:308-353, 418-480, 597-690).                   *)
THEOREM PoolInvariance == Spec => []PoolInv
BY InitPoolInv, NextPoolInv, PTL DEF Spec

(* Every variable keeps its type: no index leaves its table. *)
THEOREM PoolTypes == Spec => []TypeOK
<1>1. PoolInv => TypeOK
  BY DEF PoolInv
<1> QED
  BY <1>1, PoolInvariance, PTL

(* No worker_t, table or pool_t is freed under a thread that is running,   *)
(* however many pools there are and whatever could not be allocated.       *)
THEOREM ThreadsAreSafe == Spec => []ThreadsUseLive
<1>1. PoolInv => ThreadsUseLive
  BY DEF PoolInv
<1> QED
  BY <1>1, PoolInvariance, PTL

-----------------------------------------------------------------------------
(* One pool at a time leaves nothing behind.                               *)
CleanInv == FreesSucceed /\ PartsInOrder /\ OneInPlay /\ PartsTracked

LEMMA ThingsFinite == IsFiniteSet(Things)
<1>1. /\ IsFiniteSet({"pool", "jobs", "workers"}) /\ IsFiniteSet({0})
      /\ IsFiniteSet({"job"}) /\ IsFiniteSet({"worker"})
  <2>1. IsFiniteSet({"pool"}) /\ IsFiniteSet({0}) /\ IsFiniteSet({"job"}) /\ IsFiniteSet({"worker"})
    BY FS_Singleton
  <2>2. {"pool", "jobs", "workers"} = ({"pool"} \cup {"jobs"}) \cup {"workers"}
    OBVIOUS
  <2>3. IsFiniteSet(({"pool"} \cup {"jobs"}) \cup {"workers"})
    BY <2>1, FS_AddElement
  <2> QED
    BY <2>1, <2>2, <2>3
<1>2. IsFiniteSet(JobIds) /\ IsFiniteSet(WorkerIds)
  BY FS_Interval DEF JobIds, WorkerIds
<1>3. IsFiniteSet(Pools)
  OBVIOUS
<1>4. \A A, B : IsFiniteSet(A) /\ IsFiniteSet(B) => IsFiniteSet(A \cup B)
  BY FS_Union
<1>5. ASSUME NEW A, NEW B, NEW C, IsFiniteSet(A), IsFiniteSet(B), IsFiniteSet(C)
      PROVE  IsFiniteSet(A \X B \X C)
  <2>1. IsFiniteSet((A \X B) \X C)
    BY <1>5, FS_Product
  <2> DEFINE f == [p \in (A \X B) \X C |-> <<p[1][1], p[1][2], p[2]>>]
  <2>2. f \in Surjection((A \X B) \X C, A \X B \X C)
    <3>1. f \in [(A \X B) \X C -> A \X B \X C]
      OBVIOUS
    <3>2. ASSUME NEW y \in A \X B \X C
          PROVE  \E p \in (A \X B) \X C : f[p] = y
      <4>1. <<<<y[1], y[2]>>, y[3]>> \in (A \X B) \X C
        OBVIOUS
      <4>2. f[<<<<y[1], y[2]>>, y[3]>>] = y
        BY <4>1
      <4> QED
        BY <4>1, <4>2
    <3> QED
      BY <3>1, <3>2 DEF Surjection
  <2> HIDE DEF f
  <2> QED
    BY <2>1, <2>2, FS_Surjection
<1> QED
  BY <1>1, <1>2, <1>3, <1>4, <1>5 DEF Things

LEMMA LiveFinite ==
  ASSUME HeapOK
  PROVE  IsFiniteSet(live) /\ Cardinality(live) \in Nat
BY ThingsFinite, FS_Subset, FS_CardinalityType DEF HeapOK

(* heap_free() of what the tracker can find. *)
LEMMA FreeFound ==
  ASSUME HeapOK, FreesSucceed, active = Cardinality(live), NEW x \in live,
         NEW i \in Slots, table[i] = x, \A j \in Slots : table[j] = x => j = i,
         HeapFree(x)
  PROVE  /\ FreesSucceed' /\ live' = live \ {x} /\ active' = Cardinality(live')
         /\ active' \in Nat /\ active = active' + 1
         /\ table' = [table EXCEPT ![i] = Nothing]
<1> DEFINE at == {j \in Slots : table[j] = x}
<1>1. IsFiniteSet(live) /\ Cardinality(live) \in Nat
  BY LiveFinite
<1>2. /\ Cardinality(live \ {x}) = Cardinality(live) - 1
      /\ Cardinality(live \ {x}) \in Nat
  <2>1. IsFiniteSet(live \ {x})
    BY <1>1, FS_Subset
  <2> QED
    BY <1>1, <2>1, FS_RemoveElement, FS_CardinalityType
<1>3. at = {i} /\ active # 0
  BY <1>1, <1>2
<1> DEFINE first == CHOOSE j \in at : \A k \in at : j <= k
<1>4. i \in Nat /\ i <= i
  BY DEF Slots
<1>5. first = i
  <2> HIDE DEF at
  <2> QED
    BY <1>3, <1>4
<1>6. /\ table' = [table EXCEPT ![first] = Nothing]
      /\ active' = active - 1 /\ live' = live \ {x} /\ UNCHANGED locked
  BY <1>3 DEF HeapFree
<1> HIDE DEF first, at
<1>7. table' = [table EXCEPT ![i] = Nothing]
  BY <1>5, <1>6
<1>8. Cardinality(live') = Cardinality(live) - 1 /\ Cardinality(live') \in Nat
  BY <1>2, <1>6
<1>9. active' = Cardinality(live') /\ active = active' + 1
  BY <1>1, <1>6, <1>8
<1>10. FreesSucceed'
  BY <1>6 DEF FreesSucceed
<1> QED
  BY <1>6, <1>7, <1>8, <1>9, <1>10

(* heap_alloc() of something new. *)
LEMMA AllocNew ==
  ASSUME HeapOK, active = Cardinality(live), NEW x \in Things \ live, HeapAlloc(x)
  PROVE  /\ FreesSucceed' /\ live' = live \cup {x} /\ active' = Cardinality(live')
         /\ active \in Slots /\ active' = active + 1 /\ table'[active] = x
         /\ \A i \in Slots : i # active => table'[i] = table[i]
<1>1. IsFiniteSet(live) /\ Cardinality(live) \in Nat
  BY LiveFinite
<1>2. Cardinality(live \cup {x}) = Cardinality(live) + 1
  BY <1>1, FS_AddElement
<1>3. /\ table' = [table EXCEPT ![active] = x] /\ active < MaxHeaps /\ locked' = locked
      /\ ~locked /\ active' = active + 1 /\ live' = live \cup {x}
  BY DEF HeapAlloc
<1>4. active \in Slots
  BY <1>1, <1>3 DEF Slots
<1> QED
  BY <1>2, <1>3, <1>4 DEF FreesSucceed, HeapOK

-----------------------------------------------------------------------------
(* A step of the owner takes one pool from one phase to the next.          *)
OwnerStep(k) ==
  /\ op.at \notin {"idle", "dead"} /\ op.k = k
  /\ \/ op'.at \in Steps \ {"idle"} /\ op'.k = k /\ UNCHANGED stage
     \/ \E s \in {"failed", "ready", "gone"} :
          op' = Idle /\ stage' = [stage EXCEPT ![k] = s]

LEMMA OwnerPhases ==
  ASSUME TypeOK, NEW k \in Pools, OwnerStep(k)
  PROVE  /\ Phase(k) = op.at /\ Phase(k) \notin Away
         /\ Phase(k)' = IF op'.at = "idle" THEN stage'[k] ELSE op'.at
         /\ Phase(k)' # "none"
         /\ \A j \in Pools : j # k => Phase(j) = stage[j] /\ Phase(j)' = Phase(j)
         /\ op.at \in Steps
<1>1. op.at \in Steps \ {"idle"} /\ stage \in [Pools -> {"none", "failed", "ready", "gone"}]
  BY DEF TypeOK, OwnerStep
<1>2. CASE op'.at \in Steps \ {"idle"} /\ op'.k = k /\ UNCHANGED stage
  BY <1>1, <1>2 DEF OwnerStep, Phase, Away, Steps
<1>3. ASSUME NEW s \in {"failed", "ready", "gone"},
             op' = Idle, stage' = [stage EXCEPT ![k] = s]
      PROVE  /\ Phase(k)' = s /\ op'.at = "idle" /\ stage'[k] = s
             /\ \A j \in Pools : j # k => Phase(j)' = stage[j]
  BY <1>1, <1>3, IdleType DEF Phase
<1>4. /\ Phase(k) = op.at /\ Phase(k) \notin Away
      /\ \A j \in Pools : j # k => Phase(j) = stage[j]
  BY <1>1 DEF OwnerStep, Phase, Away, Steps
<1> QED
  BY <1>1, <1>2, <1>3, <1>4 DEF OwnerStep

(* The pool in play stays the only one. *)
LEMMA OwnerPlays ==
  ASSUME TypeOK, OneInPlay, NEW k \in Pools, OwnerStep(k)
  PROVE  /\ \A i, j \in Pools : Phase(i)' \notin Away /\ Phase(j)' \notin Away => i = j
         /\ \A j \in Pools : j # k => Phase(j) \in Away
<1>1. /\ Phase(k) \notin Away
      /\ \A j \in Pools : j # k => Phase(j)' = Phase(j)
  BY OwnerPhases
<1>2. \A j \in Pools : j # k => Phase(j) \in Away
  BY <1>1 DEF OneInPlay
<1> QED
  BY <1>1, <1>2

LEMMA OtherParts ==
  ASSUME PartsInOrder, NEW k \in Pools,
         \A j \in Pools : j # k =>
           /\ Phase(j) \in {"none", "failed", "ready", "gone"} /\ Phase(j)' = Phase(j)
           /\ conf'[j] = conf[j] /\ made'[j] = made[j] /\ proc'[j] = proc[j]
           /\ thread'[j] = thread[j],
         \A x : x[1] # k => (x \in live' <=> x \in live),
         Phase(k)' # "dead" => PartsOf(k)'
  PROVE  PartsInOrder'
<1> SUFFICES ASSUME NEW j \in Pools, j # k
             PROVE  PartsOf(j)'
  BY DEF PartsInOrder
<1>1. PartsOf(j) /\ Phase(j)' = Phase(j) /\ Phase(j) \in {"none", "failed", "ready", "gone"}
  BY DEF PartsInOrder
<1>2. {x \in live' : x[1] = j} = {x \in live : x[1] = j}
  OBVIOUS
<1>3. Tables(j)' = Tables(j)
  BY <1>1 DEF Tables
<1>4. JobsMade(j)' = JobsMade(j)
  BY <1>1 DEF JobsMade
<1>5. WorkersMade(j)' = WorkersMade(j)
  BY <1>1 DEF WorkersMade
<1> QED
  BY <1>1, <1>2, <1>3, <1>4, <1>5 DEF PartsOf


-----------------------------------------------------------------------------
(* What the steps do to the table.                                         *)

(* The tracker is left alone. *)
LEMMA TrackSame ==
  ASSUME TypeOK, FreesSucceed, OneInPlay, PartsTracked, NEW k \in Pools, OwnerStep(k),
         UNCHANGED heapVars, op'.at \in Building => op.at \in Building
  PROVE  FreesSucceed' /\ PartsTracked'
<1>1. UNCHANGED <<table, active, locked, live>>
  BY DEF heapVars
<1>2. \A j \in Pools : Phase(j)' \notin Away => Phase(j) \notin Away
  BY OwnerPhases
<1>3. \A x \in live : x[1] \in Pools
  BY DEF TypeOK, Things
<1>4. op'.at \in Building => op'.k = op.k
  BY IdleType DEF OwnerStep, Building
<1>5. \A x \in live' : Phase(x[1])' \notin Away => \E i \in Slots : table'[i] = x
  BY <1>1, <1>2, <1>3 DEF PartsTracked
<1>6. \A i \in Slots : table'[i] # Nothing =>
        /\ table'[i] \in live'
        /\ \A j \in Slots : table'[j] = table'[i] => j = i
        /\ i >= active' /\ op'.at \in Building => op'.k # table'[i][1]
  BY <1>1, <1>4 DEF PartsTracked
<1> QED
  BY <1>1, <1>5, <1>6 DEF PartsTracked, FreesSucceed

(* A part of the pool in play is freed, which is never while it is set up. *)
LEMMA TrackFree ==
  ASSUME TypeOK, FreesSucceed, OneInPlay, PartsTracked, NEW k \in Pools, OwnerStep(k),
         NEW x \in live, x[1] = k, HeapFree(x), op'.at \notin Building
  PROVE  FreesSucceed' /\ PartsTracked' /\ live' = live \ {x}
<1>1. HeapOK
  BY DEF TypeOK, HeapOK
<1>2. Phase(x[1]) \notin Away
  BY OwnerPhases
<1>3. PICK i \in Slots : table[i] = x
  BY <1>2 DEF PartsTracked
<1>4. x # Nothing
  BY DEF TypeOK, Things, Nothing
<1>5. \A j \in Slots : table[j] = x => j = i
  BY <1>3, <1>4 DEF PartsTracked
<1>6. /\ FreesSucceed' /\ live' = live \ {x} /\ active' = Cardinality(live')
      /\ table' = [table EXCEPT ![i] = Nothing]
  BY <1>1, <1>3, <1>5, FreeFound DEF PartsTracked
<1>7. \A j \in Slots : table'[j] = IF j = i THEN Nothing ELSE table[j]
  BY <1>6 DEF TypeOK
<1>8. \A j \in Pools : Phase(j)' \notin Away => Phase(j) \notin Away
  BY OwnerPhases
<1>9. \A y \in live : y[1] \in Pools
  BY DEF TypeOK, Things
<1>10. ASSUME NEW y \in live', Phase(y[1])' \notin Away
       PROVE  \E j \in Slots : table'[j] = y
  <2>1. y \in live /\ y # x /\ y[1] \in Pools
    BY <1>6, <1>9, <1>10
  <2>2. Phase(y[1]) \notin Away
    BY <1>8, <1>10, <2>1
  <2>3. PICK j \in Slots : table[j] = y
    BY <2>1, <2>2 DEF PartsTracked
  <2> QED
    BY <1>3, <1>7, <2>1, <2>3
<1>11. ASSUME NEW j \in Slots, table'[j] # Nothing
       PROVE  /\ table'[j] \in live'
              /\ \A l \in Slots : table'[l] = table'[j] => l = j
  <2>1. j # i /\ table'[j] = table[j] /\ table[j] # Nothing
    BY <1>7, <1>11
  <2>2. table[j] \in live /\ \A l \in Slots : table[l] = table[j] => l = j
    BY <2>1 DEF PartsTracked
  <2>3. table[j] # x
    BY <1>5, <2>1
  <2> QED
    BY <1>6, <1>7, <2>1, <2>2, <2>3
<1> QED
  BY <1>6, <1>10, <1>11 DEF PartsTracked

(* A part is added to the pool that is set up: what it takes the place of  *)
(* in the table is of a pool that is gone.                                 *)
LEMMA TrackAlloc ==
  ASSUME TypeOK, FreesSucceed, PartsTracked, NEW k \in Pools,
         NEW x \in Things \ live, x[1] = k, HeapAlloc(x),
         \A i \in Slots : table[i] # Nothing /\ i >= active => k # table[i][1],
         \A j \in Pools : j # k => Phase(j) \in Away /\ Phase(j)' \in Away,
         \A y \in live : y[1] = k => Phase(k) \notin Away,
         op'.at \in Building => op'.k = k
  PROVE  FreesSucceed' /\ PartsTracked' /\ live' = live \cup {x}
<1>1. HeapOK
  BY DEF TypeOK, HeapOK
<1>2. /\ FreesSucceed' /\ live' = live \cup {x} /\ active' = Cardinality(live')
      /\ active \in Slots /\ active' = active + 1 /\ table'[active] = x
      /\ \A i \in Slots : i # active => table'[i] = table[i]
  BY <1>1, AllocNew DEF PartsTracked
<1>3. \A y \in live : y[1] \in Pools
  BY DEF TypeOK, Things
<1>4. ASSUME NEW y \in live', Phase(y[1])' \notin Away
      PROVE  \E i \in Slots : table'[i] = y
  <2>1. CASE y = x
    BY <1>2, <2>1
  <2>2. CASE y # x
    <3>1. y \in live /\ y[1] = k
      BY <1>2, <1>3, <1>4, <2>2
    <3>2. Phase(y[1]) \notin Away
      BY <3>1
    <3>3. PICK i \in Slots : table[i] = y
      BY <3>1, <3>2 DEF PartsTracked
    <3>4. y # Nothing
      BY <3>1 DEF TypeOK, Things, Nothing
    <3>5. i # active
      BY <1>2, <3>1, <3>3, <3>4 DEF Slots
    <3> QED
      BY <1>2, <3>3, <3>5
  <2> QED
    BY <2>1, <2>2
<1>5. ASSUME NEW i \in Slots, table'[i] # Nothing
      PROVE  /\ table'[i] \in live'
             /\ \A j \in Slots : table'[j] = table'[i] => j = i
             /\ i >= active' /\ op'.at \in Building => op'.k # table'[i][1]
  <2>1. \A j \in Slots : table[j] # Nothing => table[j] \in live
    BY DEF PartsTracked
  <2>2. \A j \in Slots : table[j] # x
    BY <2>1 DEF Things, Nothing
  <2>3. CASE i = active
    BY <1>2, <2>2, <2>3 DEF Slots
  <2>4. CASE i # active
    <3>1. table'[i] = table[i] /\ table[i] # Nothing
      BY <1>2, <1>5, <2>4
    <3>2. table'[i] \in live'
      BY <1>2, <2>1, <3>1
    <3>3. \A j \in Slots : table[j] = table[i] => j = i
      BY <3>1 DEF PartsTracked
    <3>4. \A j \in Slots : table'[j] = table'[i] => j = i
      BY <1>2, <2>2, <3>1, <3>3
    <3>5. i >= active' /\ op'.at \in Building => op'.k # table'[i][1]
      BY <1>2, <3>1 DEF Slots
    <3> QED
      BY <3>2, <3>4, <3>5
  <2> QED
    BY <2>3, <2>4
<1> QED
  BY <1>2, <1>4, <1>5 DEF PartsTracked


-----------------------------------------------------------------------------
(* What the steps do to the parts of the pool in play.                     *)

LEMMA StepClean ==
  ASSUME TypeOK, CleanInv, NEW k \in Pools, OwnerStep(k), conf' = conf,
         \A j \in Pools : j # k =>
           made'[j] = made[j] /\ proc'[j] = proc[j] /\ thread'[j] = thread[j],
         \A x : x[1] # k => (x \in live' <=> x \in live),
         op'.at # "idle" => (op.at \in SetupSteps <=> op'.at \in SetupSteps),
         op'.at \in {"kill", "reap"} => op.at \in {"kill", "reap"},
         op'.at = "undo_jobs" => conf[k].nj > 0,
         FreesSucceed', PartsTracked', Phase(k)' # "dead" => PartsOf(k)'
  PROVE  CleanInv'
<1>1. OneInPlay'
  <2>1. \A i, j \in Pools : Phase(i)' \notin Away /\ Phase(j)' \notin Away => i = j
    BY OwnerPlays DEF CleanInv
  <2>2. op'.at # "idle" => op'.k = k /\ op.k = k /\ stage' = stage /\ op.at # "idle"
    BY IdleType DEF OwnerStep
  <2> QED
    BY <2>1, <2>2 DEF OneInPlay, CleanInv
<1>2. \A j \in Pools : j # k =>
        Phase(j) \in {"none", "failed", "ready", "gone"} /\ Phase(j)' = Phase(j)
  BY OwnerPhases DEF TypeOK
<1>3. PartsInOrder'
  BY <1>2, OtherParts DEF CleanInv
<1> QED
  BY <1>1, <1>3 DEF CleanInv

(* Before the first job or worker. *)
Bare == {"none", "failed", "jobs", "workers", "undo_jobs", "undo_pool"}

LEMMA BareParts ==
  ASSUME NEW k \in Pools, PartsOf(k), Phase(k) \in Bare
  PROVE  /\ made[k] = {} /\ {x \in live : x[1] = k} = Tables(k)
         /\ \A i \in JobIds : proc[k][i] \in {"none", "reaped"}
<1>1. JobsMade(k) = {}
  BY DEF JobsMade, Bare
<1>2. WorkersMade(k) = {}
  BY DEF WorkersMade, Bare
<1> QED
  BY <1>1, <1>2 DEF PartsOf

LEMMA StillBare ==
  ASSUME NEW k \in Pools, made'[k] = {}, {x \in live' : x[1] = k} = Tables(k)',
         \A i \in JobIds : proc'[k][i] \in {"none", "reaped"},
         Phase(k)' \in Away => thread'[k] = {}
  PROVE  PartsOf(k)'
BY DEF PartsOf

LEMMA AllocJobsClean ==
  ASSUME PoolInv, CleanInv, AllocJobs
  PROVE  CleanInv'
<1>1. PICK k \in Pools : k = op.k
  BY DEF AllocJobs, At, PoolInv, OpInOrder
<1> DEFINE x == Thing(k, "jobs", 0)
<1>2. /\ op.at = "jobs" /\ conf[k].nj \in 1 .. MaxJobs /\ conf[k].nw \in 0 .. MaxWorkers
      /\ UNCHANGED <<stage, conf, made, proc, thread>> /\ TypeOK
  BY <1>1, ConfType DEF AllocJobs, At, OpInOrder, PoolInv
<1>3. \/ /\ HeapAlloc(x) /\ op'.k = k
         /\ \/ op'.at = "workers" /\ conf[k].nw > 0
            \/ op'.at = "job" /\ conf[k].nw = 0
      \/ UNCHANGED heapVars /\ op'.k = k /\ op'.at = "undo_pool"
  BY <1>1, <1>2, StepType DEF AllocJobs, HeapAllocFails, Has, Steps
<1>4. OwnerStep(k)
  BY <1>1, <1>2, <1>3 DEF OwnerStep, Steps
<1>5. /\ Phase(k) = "jobs" /\ Phase(k)' = op'.at
      /\ \A j \in Pools : j # k => Phase(j) \in Away /\ Phase(j)' \in Away
  BY <1>2, <1>3, <1>4, OwnerPhases, OwnerPlays DEF CleanInv
<1>6. /\ made[k] = {} /\ {y \in live : y[1] = k} = Tables(k)
      /\ \A i \in JobIds : proc[k][i] \in {"none", "reaped"}
  BY <1>5, BareParts DEF CleanInv, PartsInOrder, Bare
<1>7. Tables(k) = {Thing(k, "pool", 0)}
  BY <1>5 DEF Tables, Away
<1>8. CASE /\ HeapAlloc(x) /\ op'.k = k
           /\ \/ op'.at = "workers" /\ conf[k].nw > 0
              \/ op'.at = "job" /\ conf[k].nw = 0
  <2>1. x \in Things \ live /\ x[1] = k
    <3>1. x \in Things /\ x[1] = k /\ x # Thing(k, "pool", 0)
      BY ThingType, ThingParts
    <3> QED
      BY <1>6, <1>7, <3>1
  <2>2. \A i \in Slots : table[i] # Nothing /\ i >= active => k # table[i][1]
    BY <1>1, <1>2 DEF CleanInv, PartsTracked, Building
  <2>3. Phase(k) \notin Away
    BY <1>5 DEF Away
  <2>4. Tables(k)' = {Thing(k, "pool", 0), x}
    BY <1>2, <1>5, <1>8 DEF Tables, Away
  <2> HIDE DEF x
  <2>5. FreesSucceed' /\ PartsTracked' /\ live' = live \cup {x}
    BY <1>2, <1>5, <1>8, <2>1, <2>2, <2>3, TrackAlloc DEF CleanInv
  <2>6. {y \in live' : y[1] = k} = Tables(k)'
    BY <1>6, <1>7, <2>1, <2>4, <2>5
  <2>7. PartsOf(k)'
    BY <1>2, <1>5, <1>6, <1>8, <2>6, StillBare DEF Away
  <2>8. \A y : y[1] # k => (y \in live' <=> y \in live)
    BY <2>1, <2>5
  <2> QED
    BY <1>2, <1>4, <1>8, <2>5, <2>7, <2>8, StepClean DEF SetupSteps
<1>9. CASE UNCHANGED heapVars /\ op'.k = k /\ op'.at = "undo_pool"
  <2>1. live' = live
    BY <1>9 DEF heapVars
  <2>2. FreesSucceed' /\ PartsTracked'
    BY <1>2, <1>4, <1>9, TrackSame DEF CleanInv, Building
  <2>3. Tables(k)' = {Thing(k, "pool", 0)}
    BY <1>5, <1>9 DEF Tables, Away
  <2>4. PartsOf(k)'
    BY <1>2, <1>5, <1>6, <1>7, <1>9, <2>1, <2>3, StillBare DEF Away
  <2> QED
    BY <1>2, <1>4, <1>9, <2>1, <2>2, <2>4, StepClean DEF SetupSteps
<1> QED
  BY <1>3, <1>8, <1>9

LEMMA AllocWorkersClean ==
  ASSUME PoolInv, CleanInv, AllocWorkers
  PROVE  CleanInv'
<1>1. PICK k \in Pools : k = op.k
  BY DEF AllocWorkers, At, PoolInv, OpInOrder
<1> DEFINE x == Thing(k, "workers", 0)
<1>2. /\ op.at = "workers" /\ conf[k].nj \in 0 .. MaxJobs /\ conf[k].nw \in 1 .. MaxWorkers
      /\ UNCHANGED <<stage, conf, made, proc, thread>> /\ TypeOK
  BY <1>1, ConfType DEF AllocWorkers, At, OpInOrder, PoolInv
<1>3. \/ HeapAlloc(x) /\ op'.k = k /\ op'.at \in {"job", "worker"}
      \/ /\ UNCHANGED heapVars /\ op'.k = k
         /\ \/ op'.at = "undo_jobs" /\ conf[k].nj > 0
            \/ op'.at = "undo_pool" /\ conf[k].nj = 0
  BY <1>1, <1>2, StepType DEF AllocWorkers, HeapAllocFails, Has, Steps
<1>4. OwnerStep(k)
  BY <1>1, <1>2, <1>3 DEF OwnerStep, Steps
<1>5. /\ Phase(k) = "workers" /\ Phase(k)' = op'.at
      /\ \A j \in Pools : j # k => Phase(j) \in Away /\ Phase(j)' \in Away
  BY <1>2, <1>3, <1>4, OwnerPhases, OwnerPlays DEF CleanInv
<1>6. /\ made[k] = {} /\ {y \in live : y[1] = k} = Tables(k)
      /\ \A i \in JobIds : proc[k][i] \in {"none", "reaped"}
  BY <1>5, BareParts DEF CleanInv, PartsInOrder, Bare
<1>7. Tables(k) = {Thing(k, "pool", 0)} \cup {y \in {Thing(k, "jobs", 0)} : conf[k].nj > 0}
  BY <1>5 DEF Tables, Away
<1>8. CASE HeapAlloc(x) /\ op'.k = k /\ op'.at \in {"job", "worker"}
  <2>1. x \in Things \ live /\ x[1] = k
    <3>1. x \in Things /\ x[1] = k /\ x[2] = "workers"
      BY ThingType, ThingParts
    <3>2. \A y \in Tables(k) : y[2] # "workers"
      BY <1>7, ThingParts
    <3> QED
      BY <1>6, <3>1, <3>2
  <2>2. \A i \in Slots : table[i] # Nothing /\ i >= active => k # table[i][1]
    BY <1>1, <1>2 DEF CleanInv, PartsTracked, Building
  <2>3. Phase(k) \notin Away
    BY <1>5 DEF Away
  <2>4. Tables(k)' = Tables(k) \cup {x}
    BY <1>2, <1>5, <1>7, <1>8 DEF Tables, Away
  <2> HIDE DEF x
  <2>5. FreesSucceed' /\ PartsTracked' /\ live' = live \cup {x}
    BY <1>2, <1>5, <1>8, <2>1, <2>2, <2>3, TrackAlloc DEF CleanInv
  <2>6. {y \in live' : y[1] = k} = Tables(k)'
    BY <1>6, <2>1, <2>4, <2>5
  <2>7. PartsOf(k)'
    BY <1>2, <1>5, <1>6, <1>8, <2>6, StillBare DEF Away
  <2>8. \A y : y[1] # k => (y \in live' <=> y \in live)
    BY <2>1, <2>5
  <2> QED
    BY <1>2, <1>4, <1>8, <2>5, <2>7, <2>8, StepClean DEF SetupSteps
<1>9. CASE /\ UNCHANGED heapVars /\ op'.k = k
           /\ \/ op'.at = "undo_jobs" /\ conf[k].nj > 0
              \/ op'.at = "undo_pool" /\ conf[k].nj = 0
  <2>1. live' = live
    BY <1>9 DEF heapVars
  <2>2. FreesSucceed' /\ PartsTracked'
    BY <1>2, <1>4, <1>9, TrackSame DEF CleanInv, Building
  <2>3. Tables(k)' = Tables(k)
    BY <1>2, <1>5, <1>7, <1>9 DEF Tables, Away
  <2>4. PartsOf(k)'
    BY <1>2, <1>5, <1>6, <1>9, <2>1, <2>3, StillBare DEF Away
  <2> QED
    BY <1>2, <1>4, <1>9, <2>1, <2>2, <2>4, StepClean DEF SetupSteps
<1> QED
  BY <1>3, <1>8, <1>9

LEMMA UndoJobsClean ==
  ASSUME PoolInv, CleanInv, UndoJobs
  PROVE  CleanInv'
<1>1. PICK k \in Pools : k = op.k
  BY DEF UndoJobs, At, PoolInv, OpInOrder
<1> DEFINE x == Thing(k, "jobs", 0)
<1>2. /\ op.at = "undo_jobs" /\ conf[k].nj > 0 /\ TypeOK
      /\ UNCHANGED <<stage, conf, made, proc, thread>> /\ HeapFree(x)
      /\ op'.at = "undo_pool" /\ op'.k = k
  BY <1>1, StepType DEF UndoJobs, At, PoolInv, CleanInv, OneInPlay, Steps
<1>3. OwnerStep(k)
  BY <1>1, <1>2 DEF OwnerStep, Steps
<1>4. Phase(k) = "undo_jobs" /\ Phase(k)' = "undo_pool"
  BY <1>2, <1>3, OwnerPhases
<1>5. /\ made[k] = {} /\ {y \in live : y[1] = k} = Tables(k)
      /\ \A i \in JobIds : proc[k][i] \in {"none", "reaped"}
  BY <1>4, BareParts DEF CleanInv, PartsInOrder, Bare
<1>6. Tables(k) = {Thing(k, "pool", 0), x}
  BY <1>2, <1>4 DEF Tables, Away
<1>7. Tables(k)' = {Thing(k, "pool", 0)}
  BY <1>4 DEF Tables, Away
<1>8. x \in live /\ x[1] = k /\ x # Thing(k, "pool", 0)
  BY <1>5, <1>6, ThingParts
<1> HIDE DEF x
<1>9. FreesSucceed' /\ PartsTracked' /\ live' = live \ {x}
  BY <1>2, <1>3, <1>8, TrackFree DEF CleanInv, Building
<1>10. {y \in live' : y[1] = k} = Tables(k)'
  BY <1>5, <1>6, <1>7, <1>8, <1>9
<1>11. PartsOf(k)'
  BY <1>2, <1>4, <1>5, <1>10, StillBare DEF Away
<1>12. \A y : y[1] # k => (y \in live' <=> y \in live)
  BY <1>8, <1>9
<1> QED
  BY <1>2, <1>3, <1>9, <1>11, <1>12, StepClean DEF SetupSteps

LEMMA UndoPoolClean ==
  ASSUME PoolInv, CleanInv, UndoPool
  PROVE  CleanInv'
<1>1. PICK k \in Pools : k = op.k
  BY DEF UndoPool, At, PoolInv, OpInOrder
<1> DEFINE x == Thing(k, "pool", 0)
<1>2. /\ op.at = "undo_pool" /\ TypeOK /\ thread[k] = {}
      /\ UNCHANGED <<conf, made, proc, thread>> /\ HeapFree(x)
      /\ op' = Idle /\ stage' = [stage EXCEPT ![k] = "failed"]
  BY <1>1 DEF UndoPool, At, PoolInv, ThreadsInOrder, NoThreadSteps
<1>3. OwnerStep(k) /\ op'.at = "idle" /\ stage'[k] = "failed"
  BY <1>1, <1>2, IdleType DEF OwnerStep, TypeOK
<1>4. Phase(k) = "undo_pool" /\ Phase(k)' = "failed"
  BY <1>2, <1>3, OwnerPhases
<1>5. /\ made[k] = {} /\ {y \in live : y[1] = k} = Tables(k)
      /\ \A i \in JobIds : proc[k][i] \in {"none", "reaped"}
  BY <1>4, BareParts DEF CleanInv, PartsInOrder, Bare
<1>6. Tables(k) = {x}
  BY <1>2, <1>4 DEF Tables, Away
<1>7. Tables(k)' = {}
  BY <1>4 DEF Tables, Away
<1>8. x \in live /\ x[1] = k
  BY <1>5, <1>6, ThingParts
<1> HIDE DEF x
<1>9. FreesSucceed' /\ PartsTracked' /\ live' = live \ {x}
  BY <1>2, <1>3, <1>8, TrackFree DEF CleanInv, Building
<1>10. {y \in live' : y[1] = k} = Tables(k)'
  BY <1>5, <1>6, <1>7, <1>8, <1>9
<1>11. PartsOf(k)'
  BY <1>2, <1>5, <1>10, StillBare
<1>12. \A y : y[1] # k => (y \in live' <=> y \in live)
  BY <1>8, <1>9
<1> QED
  BY <1>2, <1>3, <1>9, <1>11, <1>12, StepClean

(* Where the loops over jobs and workers go on, and what may be made then. *)
LEMMA AfterJobParts ==
  ASSUME TypeOK, OpInOrder, op.at = "job", NEW k \in Pools, op.k = k, AfterJob, conf' = conf
  PROVE  /\ OwnerStep(k) /\ Phase(k) = "job" /\ Phase(k)' \in {"job", "worker", "ready"}
         /\ JobsMade(k) \cup {op.i} = JobsMade(k)' /\ op.i \notin JobsMade(k)
         /\ WorkersMade(k) = {} /\ Tables(k)' = Tables(k)
         /\ op'.at # "idle" => op'.at \in {"job", "worker"} /\ op'.k = k
<1>1. /\ conf[k].nj \in 0 .. MaxJobs /\ conf[k].nw \in 0 .. MaxWorkers
      /\ op.i \in 1 .. conf[k].nj
  BY ConfType DEF OpInOrder
<1>2. \/ /\ op'.at = "job" /\ op'.k = k /\ op'.i = op.i + 1 /\ UNCHANGED stage
      \/ /\ op'.at = "worker" /\ op'.k = k /\ op.i = conf[k].nj /\ UNCHANGED stage
      \/ /\ op' = Idle /\ stage' = [stage EXCEPT ![k] = "ready"] /\ op.i = conf[k].nj
         /\ conf[k].nw = 0
  <2>1. CASE op.i < conf[k].nj
    BY <1>1, <2>1, StepType DEF AfterJob, Steps
  <2>2. CASE ~(op.i < conf[k].nj)
    BY <1>1, <2>2, StepType DEF AfterJob, Steps, Has, Return
  <2> QED
    BY <2>1, <2>2
<1>3. OwnerStep(k)
  BY <1>2 DEF OwnerStep, Steps
<1>4. Phase(k) = "job" /\ Phase(k)' = IF op'.at = "idle" THEN stage'[k] ELSE op'.at
  BY <1>3, OwnerPhases
<1>5. \/ Phase(k)' = "job" /\ op'.i = op.i + 1
      \/ Phase(k)' = "worker" /\ op.i = conf[k].nj
      \/ Phase(k)' = "ready" /\ op.i = conf[k].nj /\ conf[k].nw = 0
  BY <1>2, <1>4, IdleType DEF TypeOK
<1>6. JobsMade(k) \cup {op.i} = JobsMade(k)' /\ op.i \notin JobsMade(k)
  BY <1>1, <1>4, <1>5 DEF JobsMade
<1>7. WorkersMade(k) = {} /\ Tables(k)' = Tables(k)
  BY <1>4, <1>5 DEF WorkersMade, Tables, Away
<1> QED
  BY <1>2, <1>3, <1>4, <1>5, <1>6, <1>7, IdleType

LEMMA AfterWorkerParts ==
  ASSUME TypeOK, OpInOrder, op.at = "worker", NEW k \in Pools, op.k = k, AfterWorker,
         conf' = conf
  PROVE  /\ OwnerStep(k) /\ Phase(k) = "worker" /\ Phase(k)' \in {"worker", "ready"}
         /\ JobsMade(k)' = JobsMade(k)
         /\ WorkersMade(k) \cup {op.i} = WorkersMade(k)' /\ op.i \notin WorkersMade(k)
         /\ Tables(k)' = Tables(k)
         /\ op'.at # "idle" => op'.at = "worker" /\ op'.k = k
<1>1. /\ conf[k].nj \in 0 .. MaxJobs /\ conf[k].nw \in 0 .. MaxWorkers
      /\ op.i \in 1 .. conf[k].nw
  BY ConfType DEF OpInOrder
<1>2. \/ /\ op'.at = "worker" /\ op'.k = k /\ op'.i = op.i + 1 /\ UNCHANGED stage
      \/ /\ op' = Idle /\ stage' = [stage EXCEPT ![k] = "ready"] /\ op.i = conf[k].nw
  <2>1. CASE op.i < conf[k].nw
    BY <1>1, <2>1, StepType DEF AfterWorker, Steps
  <2>2. CASE ~(op.i < conf[k].nw)
    BY <1>1, <2>2 DEF AfterWorker, Return
  <2> QED
    BY <2>1, <2>2
<1>3. OwnerStep(k)
  BY <1>2 DEF OwnerStep, Steps
<1>4. Phase(k) = "worker" /\ Phase(k)' = IF op'.at = "idle" THEN stage'[k] ELSE op'.at
  BY <1>3, OwnerPhases
<1>5. \/ Phase(k)' = "worker" /\ op'.i = op.i + 1
      \/ Phase(k)' = "ready" /\ op.i = conf[k].nw
  BY <1>2, <1>4, IdleType DEF TypeOK
<1>6. WorkersMade(k) \cup {op.i} = WorkersMade(k)' /\ op.i \notin WorkersMade(k)
  BY <1>1, <1>4, <1>5 DEF WorkersMade
<1>7. JobsMade(k)' = JobsMade(k)
  BY <1>4, <1>5 DEF JobsMade
<1>8. Tables(k)' = Tables(k)
  BY <1>4, <1>5 DEF Tables, Away
<1> QED
  BY <1>2, <1>3, <1>4, <1>5, <1>6, <1>7, <1>8, IdleType

(* A job or a worker that is made is not among the tables, nor among the   *)
(* other jobs and workers.                                                 *)
LEMMA MadeParts ==
  ASSUME NEW k \in Pools, PartsOf(k)
  PROVE  /\ \A y \in Tables(k) : y[2] \in {"pool", "jobs", "workers"}
         /\ \A y \in made[k] :
              \/ y[2] = "job" /\ y[3] \in JobsMade(k)
              \/ y[2] = "worker" /\ y[3] \in WorkersMade(k)
<1>1. \A y \in Tables(k) : y[2] \in {"pool", "jobs", "workers"}
  BY ThingParts DEF Tables
<1>2. ASSUME NEW y \in made[k]
      PROVE  \/ y[2] = "job" /\ y[3] \in JobsMade(k)
             \/ y[2] = "worker" /\ y[3] \in WorkersMade(k)
  <2>1. CASE \E i \in JobsMade(k) : y = Thing(k, "job", i)
    BY <2>1, ThingParts
  <2>2. CASE \E i \in WorkersMade(k) : y = Thing(k, "worker", i)
    BY <2>2, ThingParts
  <2> QED
    BY <2>1, <2>2 DEF PartsOf
<1> QED
  BY <1>1, <1>2

LEMMA InitJobClean ==
  ASSUME PoolInv, CleanInv, InitJob
  PROVE  CleanInv'
<1>1. PICK k \in Pools : k = op.k
  BY DEF InitJob, At, PoolInv, OpInOrder
<1>2. PICK n : n = op.i
  OBVIOUS
<1> DEFINE x == Thing(k, "job", n)
<1>3. /\ op.at = "job" /\ conf' = conf /\ thread' = thread /\ HeapAlloc(x)
      /\ made' = [made EXCEPT ![k] = made[k] \cup {x}]
      /\ proc' = [proc EXCEPT ![k][n] = "up"]
      /\ AfterJob /\ TypeOK /\ OpInOrder
  BY <1>1, <1>2 DEF InitJob, At, PoolInv
<1>4. n \in 1 .. conf[k].nj /\ n \in JobIds
  BY <1>1, <1>2, <1>3, ConfType DEF OpInOrder, JobIds
<1>5. /\ OwnerStep(k) /\ Phase(k) = "job" /\ Phase(k)' \in {"job", "worker", "ready"}
      /\ JobsMade(k) \cup {n} = JobsMade(k)' /\ n \notin JobsMade(k)
      /\ WorkersMade(k) = {} /\ Tables(k)' = Tables(k)
      /\ op'.at # "idle" => op'.at \in {"job", "worker"} /\ op'.k = k
  BY <1>1, <1>2, <1>3, AfterJobParts
<1>6. PartsOf(k)
  BY <1>5 DEF CleanInv, PartsInOrder
<1>7. x \in Things \ live /\ x[1] = k
  <2>1. x \in Things /\ x[1] = k /\ x[2] = "job" /\ x[3] = n
    BY <1>4, ThingType, ThingParts
  <2>2. x \notin Tables(k) \cup made[k]
    BY <1>5, <1>6, <2>1, MadeParts
  <2> QED
    BY <1>6, <2>1, <2>2 DEF PartsOf
<1>8. \A j \in Pools : j # k => Phase(j) \in Away /\ Phase(j)' \in Away
  BY <1>3, <1>5, OwnerPhases, OwnerPlays DEF CleanInv
<1>9. \A i \in Slots : table[i] # Nothing /\ i >= active => k # table[i][1]
  BY <1>1, <1>3 DEF CleanInv, PartsTracked, Building
<1>10. /\ made'[k] = made[k] \cup {x}
       /\ \A j \in Pools : j # k =>
            made'[j] = made[j] /\ proc'[j] = proc[j] /\ thread'[j] = thread[j]
  BY <1>3 DEF TypeOK
<1>11. \A i \in JobIds : proc'[k][i] = IF i = n THEN "up" ELSE proc[k][i]
  BY <1>3, <1>4 DEF TypeOK
<1>12. \A i : Thing(k, "job", i) = x => i = n
  BY ThingParts
<1>13. made'[k] \subseteq {Thing(k, "job", i) : i \in JobsMade(k)'}
                          \cup {Thing(k, "worker", i) : i \in WorkersMade(k)'}
  <2>1. made[k] \subseteq {Thing(k, "job", i) : i \in JobsMade(k)}
    BY <1>5, <1>6 DEF PartsOf
  <2> DEFINE J == JobsMade(k)
             K == JobsMade(k)'
  <2>2. made'[k] \subseteq {Thing(k, "job", i) : i \in K}
    <3>1. J \cup {n} = K /\ made[k] \subseteq {Thing(k, "job", i) : i \in J}
      BY <1>5, <2>1
    <3> HIDE DEF J, K
    <3> QED
      BY <1>10, <3>1
  <2> QED
    BY <2>2
<1> HIDE DEF x
<1>14. FreesSucceed' /\ PartsTracked' /\ live' = live \cup {x}
  BY <1>3, <1>5, <1>7, <1>8, <1>9, TrackAlloc DEF CleanInv, Away, Building
<1>15. {y \in live' : y[1] = k} = Tables(k)' \cup made'[k]
  BY <1>5, <1>6, <1>7, <1>10, <1>14 DEF PartsOf
<1>16. \A i \in JobIds :
         proc'[k][i] \in {"none", "reaped"} <=> Thing(k, "job", i) \notin made'[k]
  <2>1. Thing(k, "job", n) \in made'[k]
    BY <1>10 DEF x
  <2>2. \A i \in JobIds : i # n =>
          (Thing(k, "job", i) \in made'[k] <=> Thing(k, "job", i) \in made[k])
    BY <1>10, <1>12
  <2> QED
    BY <1>6, <1>11, <2>1, <2>2 DEF PartsOf
<1>17. PartsOf(k)'
  BY <1>5, <1>13, <1>15, <1>16 DEF PartsOf, Away
<1>18. \A y : y[1] # k => (y \in live' <=> y \in live)
  BY <1>7, <1>14
<1> QED
  BY <1>3, <1>5, <1>10, <1>14, <1>17, <1>18, StepClean DEF SetupSteps

LEMMA InitJobDiesClean ==
  ASSUME PoolInv, CleanInv, InitJobDies
  PROVE  CleanInv'
<1>1. PICK k \in Pools : k = op.k
  BY DEF InitJobDies, At, PoolInv, OpInOrder
<1>2. PICK n : n = op.i
  OBVIOUS
<1> DEFINE x == Thing(k, "job", n)
<1>3. /\ op.at = "job" /\ UNCHANGED <<stage, conf, made, proc, thread>> /\ HeapAlloc(x)
      /\ op'.at = "dead" /\ op'.k = k /\ TypeOK /\ OpInOrder
  BY <1>1, <1>2, StepType DEF InitJobDies, At, PoolInv, Steps
<1>4. n \in 1 .. conf[k].nj /\ n \in JobIds
  BY <1>1, <1>2, <1>3, ConfType DEF OpInOrder, JobIds
<1>5. OwnerStep(k)
  BY <1>1, <1>3 DEF OwnerStep, Steps
<1>6. Phase(k) = "job" /\ Phase(k)' = "dead"
  BY <1>3, <1>5, OwnerPhases
<1>7. PartsOf(k)
  BY <1>6 DEF CleanInv, PartsInOrder
<1>8. n \notin JobsMade(k)
  BY <1>2, <1>4, <1>6 DEF JobsMade
<1>9. x \in Things \ live /\ x[1] = k
  <2>1. x \in Things /\ x[1] = k /\ x[2] = "job" /\ x[3] = n
    BY <1>4, ThingType, ThingParts
  <2>2. x \notin Tables(k) \cup made[k]
    BY <1>7, <1>8, <2>1, MadeParts
  <2> QED
    BY <1>7, <2>1, <2>2 DEF PartsOf
<1>10. \A j \in Pools : j # k => Phase(j) \in Away /\ Phase(j)' \in Away
  BY <1>3, <1>5, OwnerPhases, OwnerPlays DEF CleanInv
<1>11. \A i \in Slots : table[i] # Nothing /\ i >= active => k # table[i][1]
  BY <1>1, <1>3 DEF CleanInv, PartsTracked, Building
<1> HIDE DEF x
<1>12. FreesSucceed' /\ PartsTracked' /\ live' = live \cup {x}
  BY <1>3, <1>6, <1>9, <1>10, <1>11, TrackAlloc DEF CleanInv, Away, Building
<1>13. \A y : y[1] # k => (y \in live' <=> y \in live)
  BY <1>9, <1>12
<1> QED
  BY <1>3, <1>5, <1>6, <1>12, <1>13, StepClean DEF SetupSteps

(* A pool whose parts stay, while it may be given more of them. *)
LEMMA SameParts ==
  ASSUME NEW k \in Pools, PartsOf(k), live' = live, made' = made,
         \A i \in JobIds : proc'[k][i] \in {"none", "reaped"} <=> proc[k][i] \in {"none", "reaped"},
         Tables(k)' = Tables(k), JobsMade(k) \subseteq JobsMade(k)',
         WorkersMade(k) \subseteq WorkersMade(k)', Phase(k)' \notin Away
  PROVE  PartsOf(k)'
<1> DEFINE J == JobsMade(k)
           K == JobsMade(k)'
           V == WorkersMade(k)
           W == WorkersMade(k)'
<1>1. made[k] \subseteq {Thing(k, "job", i) : i \in J} \cup {Thing(k, "worker", i) : i \in V}
  BY DEF PartsOf
<1>2. J \subseteq K /\ V \subseteq W
  OBVIOUS
<1>3. made'[k] \subseteq {Thing(k, "job", i) : i \in K} \cup {Thing(k, "worker", i) : i \in W}
  <2> HIDE DEF J, K, V, W
  <2> QED
    BY <1>1, <1>2
<1> QED
  BY <1>3 DEF PartsOf

LEMMA InitFailsClean ==
  ASSUME PoolInv, CleanInv, InitJobFails \/ InitWorkerFails
  PROVE  CleanInv'
<1>1. PICK k \in Pools : k = op.k
  BY DEF InitJobFails, InitWorkerFails, At, PoolInv, OpInOrder
<1>2. /\ op.at \in {"job", "worker"} /\ UNCHANGED <<conf, made, proc, thread>>
      /\ UNCHANGED heapVars /\ TypeOK /\ OpInOrder
  BY DEF InitJobFails, InitWorkerFails, HeapAllocFails, At, PoolInv
<1>3. /\ OwnerStep(k) /\ Phase(k) \in {"job", "worker"} /\ Phase(k)' \in {"job", "worker", "ready"}
      /\ JobsMade(k) \subseteq JobsMade(k)' /\ WorkersMade(k) \subseteq WorkersMade(k)'
      /\ Tables(k)' = Tables(k)
      /\ op'.at # "idle" => op'.at \in {"job", "worker"} /\ op'.k = k
  <2>1. CASE InitJobFails
    BY <1>1, <1>2, <2>1, AfterJobParts DEF InitJobFails, At
  <2>2. CASE InitWorkerFails
    BY <1>1, <1>2, <2>2, AfterWorkerParts DEF InitWorkerFails, At
  <2> QED
    BY <2>1, <2>2
<1>4. live' = live
  BY <1>2 DEF heapVars
<1>5. PartsOf(k)
  BY <1>3 DEF CleanInv, PartsInOrder
<1>6. PartsOf(k)'
  BY <1>2, <1>3, <1>4, <1>5, SameParts DEF Away
<1>7. op'.at \in Building => op.at \in Building
  BY <1>2 DEF Building
<1>8. FreesSucceed' /\ PartsTracked'
  BY <1>2, <1>3, <1>7, TrackSame DEF CleanInv
<1> QED
  BY <1>2, <1>3, <1>4, <1>6, <1>8, StepClean DEF SetupSteps

LEMMA InitWorkerClean ==
  ASSUME PoolInv, CleanInv, InitWorker
  PROVE  CleanInv'
<1>1. PICK k \in Pools : k = op.k
  BY DEF InitWorker, At, PoolInv, OpInOrder
<1>2. PICK n : n = op.i
  OBVIOUS
<1> DEFINE x == Thing(k, "worker", n)
<1>3. /\ op.at = "worker" /\ conf' = conf /\ proc' = proc /\ HeapAlloc(x)
      /\ made' = [made EXCEPT ![k] = made[k] \cup {x}]
      /\ thread' = [thread EXCEPT ![k] = thread[k] \cup {n}]
      /\ AfterWorker /\ TypeOK /\ OpInOrder
  BY <1>1, <1>2 DEF InitWorker, At, PoolInv
<1>4. n \in WorkerIds
  BY <1>1, <1>2, <1>3, ConfType DEF OpInOrder, WorkerIds
<1>5. /\ OwnerStep(k) /\ Phase(k) = "worker" /\ Phase(k)' \in {"worker", "ready"}
      /\ JobsMade(k)' = JobsMade(k)
      /\ WorkersMade(k) \cup {n} = WorkersMade(k)' /\ n \notin WorkersMade(k)
      /\ Tables(k)' = Tables(k)
      /\ op'.at # "idle" => op'.at = "worker" /\ op'.k = k
  BY <1>1, <1>2, <1>3, AfterWorkerParts
<1>6. PartsOf(k)
  BY <1>5 DEF CleanInv, PartsInOrder
<1>7. x \in Things \ live /\ x[1] = k
  <2>1. x \in Things /\ x[1] = k /\ x[2] = "worker" /\ x[3] = n
    BY <1>4, ThingType, ThingParts
  <2>2. x \notin Tables(k) \cup made[k]
    BY <1>5, <1>6, <2>1, MadeParts
  <2> QED
    BY <1>6, <2>1, <2>2 DEF PartsOf
<1>8. \A j \in Pools : j # k => Phase(j) \in Away /\ Phase(j)' \in Away
  BY <1>3, <1>5, OwnerPhases, OwnerPlays DEF CleanInv
<1>9. \A i \in Slots : table[i] # Nothing /\ i >= active => k # table[i][1]
  BY <1>1, <1>3 DEF CleanInv, PartsTracked, Building
<1>10. /\ made'[k] = made[k] \cup {x}
       /\ \A j \in Pools : j # k =>
            made'[j] = made[j] /\ proc'[j] = proc[j] /\ thread'[j] = thread[j]
  BY <1>3 DEF TypeOK
<1>11. \A i : Thing(k, "job", i) # x
  BY ThingParts
<1>12. made'[k] \subseteq {Thing(k, "job", i) : i \in JobsMade(k)'}
                          \cup {Thing(k, "worker", i) : i \in WorkersMade(k)'}
  <2> DEFINE J == JobsMade(k)
             V == WorkersMade(k)
             W == WorkersMade(k)'
  <2>1. made[k] \subseteq {Thing(k, "job", i) : i \in J} \cup {Thing(k, "worker", i) : i \in V}
    BY <1>6 DEF PartsOf
  <2>2. V \cup {n} = W /\ JobsMade(k)' = J
    BY <1>5
  <2>3. made'[k] \subseteq {Thing(k, "job", i) : i \in J} \cup {Thing(k, "worker", i) : i \in W}
    <3> HIDE DEF J, V, W
    <3> QED
      BY <1>10, <2>1, <2>2
  <2> QED
    BY <2>2, <2>3
<1> HIDE DEF x
<1>13. FreesSucceed' /\ PartsTracked' /\ live' = live \cup {x}
  BY <1>3, <1>5, <1>7, <1>8, <1>9, TrackAlloc DEF CleanInv, Away, Building
<1>14. {y \in live' : y[1] = k} = Tables(k)' \cup made'[k]
  BY <1>5, <1>6, <1>7, <1>10, <1>13 DEF PartsOf
<1>15. \A i \in JobIds :
         proc'[k][i] \in {"none", "reaped"} <=> Thing(k, "job", i) \notin made'[k]
  BY <1>3, <1>6, <1>10, <1>11 DEF PartsOf
<1>16. PartsOf(k)'
  BY <1>5, <1>12, <1>14, <1>15 DEF PartsOf, Away
<1>17. \A y : y[1] # k => (y \in live' <=> y \in live)
  BY <1>7, <1>13
<1> QED
  BY <1>3, <1>5, <1>10, <1>13, <1>16, <1>17, StepClean DEF SetupSteps

LEMMA KillClean ==
  ASSUME PoolInv, CleanInv, KillJobs \/ StopWorkers
  PROVE  CleanInv'
<1>1. PICK k \in Pools : k = op.k
  BY DEF KillJobs, StopWorkers, At, PoolInv, OpInOrder
<1>2. /\ UNCHANGED <<stage, conf, made>> /\ UNCHANGED heapVars /\ TypeOK /\ op'.k = k /\ op'.i = 1
      /\ \/ op.at = "kill" /\ op'.at = "reap" /\ thread' = thread
         \/ op.at = "stop" /\ op'.at = "free_worker" /\ proc' = proc
      /\ conf[k].nj \in 0 .. MaxJobs /\ conf[k].nw \in 0 .. MaxWorkers
  BY <1>1, StepType, ConfType DEF KillJobs, StopWorkers, At, PoolInv, Steps, heapVars
<1>3. /\ \A j \in Pools : j # k =>
           made'[j] = made[j] /\ proc'[j] = proc[j] /\ thread'[j] = thread[j]
      /\ \A i \in JobIds : proc'[k][i] \in {"none", "reaped"} <=> proc[k][i] \in {"none", "reaped"}
  <2>1. CASE KillJobs
    BY <1>1, <1>2, <2>1 DEF KillJobs, TypeOK
  <2>2. CASE StopWorkers
    BY <1>1, <1>2, <2>2 DEF StopWorkers, TypeOK
  <2> QED
    BY <2>1, <2>2
<1>4. OwnerStep(k)
  BY <1>1, <1>2 DEF OwnerStep, Steps
<1>5. Phase(k) = op.at /\ Phase(k)' = op'.at
  BY <1>2, <1>4, OwnerPhases
<1>6. PartsOf(k)
  BY <1>2, <1>5 DEF CleanInv, PartsInOrder
<1>7. op.at = "kill" => conf[k].epoll
  BY <1>1 DEF CleanInv, OneInPlay
<1>8. Tables(k)' = Tables(k)
  BY <1>2, <1>5 DEF Tables, Away
<1>9. JobsMade(k) \subseteq JobsMade(k)'
  BY <1>2, <1>5 DEF JobsMade
<1>10. WorkersMade(k) \subseteq WorkersMade(k)'
  BY <1>2, <1>5 DEF WorkersMade
<1>11. live' = live
  BY <1>2 DEF heapVars
<1>12. PartsOf(k)'
  BY <1>2, <1>3, <1>5, <1>6, <1>8, <1>9, <1>10, <1>11, SameParts DEF Away
<1>13. FreesSucceed' /\ PartsTracked'
  BY <1>2, <1>4, TrackSame DEF CleanInv, Building
<1> QED
  BY <1>2, <1>3, <1>4, <1>11, <1>12, <1>13, StepClean DEF SetupSteps

LEMMA ReapJobClean ==
  ASSUME PoolInv, CleanInv, ReapJob
  PROVE  CleanInv'
<1>1. PICK k \in Pools : k = op.k
  BY DEF ReapJob, At, PoolInv, OpInOrder
<1>2. PICK n : n = op.i
  OBVIOUS
<1> DEFINE x == Thing(k, "job", n)
<1>3. /\ op.at = "reap" /\ UNCHANGED <<stage, conf, thread>> /\ TypeOK /\ OpInOrder
      /\ conf[k].nj \in 0 .. MaxJobs /\ n \in 1 .. conf[k].nj
      /\ \/ /\ x \in made[k] /\ HeapFree(x)
            /\ proc' = [proc EXCEPT ![k][n] = "reaped"]
            /\ made' = [made EXCEPT ![k] = made[k] \ {x}]
         \/ x \notin made[k] /\ UNCHANGED <<proc, heapVars, made>>
  BY <1>1, <1>2, ConfType DEF ReapJob, At, PoolInv, OpInOrder
<1>4. op'.at = "reap" /\ op'.k = k /\ op'.i = n + 1
  <2>1. n + 1 \in 0 .. MaxJobs + MaxWorkers + 1
    BY <1>3
  <2> QED
    BY <1>1, <1>2, <1>3, <2>1, StepType DEF ReapJob, Steps
<1>5. OwnerStep(k)
  BY <1>1, <1>3, <1>4 DEF OwnerStep, Steps
<1>6. Phase(k) = "reap" /\ Phase(k)' = "reap"
  BY <1>3, <1>4, <1>5, OwnerPhases
<1>7. PartsOf(k)
  BY <1>6 DEF CleanInv, PartsInOrder
<1>8. Tables(k)' = Tables(k)
  BY <1>3, <1>6 DEF Tables, Away
<1>9. JobsMade(k) \ {n} = JobsMade(k)'
  BY <1>2, <1>3, <1>4, <1>6 DEF JobsMade
<1>10. WorkersMade(k)' = WorkersMade(k)
  BY <1>3, <1>6 DEF WorkersMade
<1>11. n \in JobIds
  BY <1>3 DEF JobIds
<1>12. made'[k] = made[k] \ {x}
  BY <1>3 DEF TypeOK
<1>13. \A j \in Pools : j # k =>
         made'[j] = made[j] /\ proc'[j] = proc[j] /\ thread'[j] = thread[j]
  BY <1>3 DEF TypeOK
<1>14. made'[k] \subseteq {Thing(k, "job", i) : i \in JobsMade(k)'}
                          \cup {Thing(k, "worker", i) : i \in WorkersMade(k)'}
  <2> DEFINE J == JobsMade(k)
             K == JobsMade(k)'
             V == WorkersMade(k)
  <2>1. made[k] \subseteq {Thing(k, "job", i) : i \in J} \cup {Thing(k, "worker", i) : i \in V}
    BY <1>7 DEF PartsOf
  <2>2. J \ {n} = K /\ WorkersMade(k)' = V
    BY <1>9, <1>10
  <2>3. made'[k] \subseteq {Thing(k, "job", i) : i \in K} \cup {Thing(k, "worker", i) : i \in V}
    <3> HIDE DEF J, K, V
    <3> QED
      BY <1>12, <2>1, <2>2
  <2> QED
    BY <2>2, <2>3
<1>15. \A i \in JobIds :
         proc'[k][i] \in {"none", "reaped"} <=> Thing(k, "job", i) \notin made'[k]
  <2>1. \A i \in JobIds : i # n =>
          /\ proc'[k][i] = proc[k][i]
          /\ Thing(k, "job", i) \in made'[k] <=> Thing(k, "job", i) \in made[k]
    <3>1. \A i \in JobIds : i # n => proc'[k][i] = proc[k][i]
      BY <1>3 DEF TypeOK
    <3>2. \A i : Thing(k, "job", i) = x => i = n
      BY ThingParts
    <3> HIDE DEF x
    <3> QED
      BY <1>12, <3>1, <3>2
  <2>2. proc'[k][n] \in {"none", "reaped"}
    <3>1. CASE proc' = [proc EXCEPT ![k][n] = "reaped"]
      <4>1. proc \in [Pools -> [JobIds -> {"none", "up", "told", "ended", "reaped"}]]
        BY <1>3 DEF TypeOK
      <4>2. proc'[k] = [proc[k] EXCEPT ![n] = "reaped"]
        BY <3>1, <4>1
      <4> QED
        BY <1>11, <4>1, <4>2
    <3>2. CASE x \notin made[k] /\ proc' = proc
      BY <1>7, <1>11, <3>2 DEF PartsOf
    <3> QED
      BY <1>3, <3>1, <3>2
  <2> QED
    BY <1>7, <1>12, <2>1, <2>2 DEF PartsOf
<1>16. CASE x \in made[k] /\ HeapFree(x)
  <2>1. x[1] = k /\ x \in live /\ x \notin Tables(k)
    <3>1. x[1] = k /\ x[2] = "job"
      BY ThingParts
    <3> QED
      BY <1>7, <1>16, <3>1, MadeParts DEF PartsOf
  <2> HIDE DEF x
  <2>2. FreesSucceed' /\ PartsTracked' /\ live' = live \ {x}
    BY <1>3, <1>4, <1>5, <1>16, <2>1, TrackFree DEF CleanInv, Building
  <2>3. {y \in live' : y[1] = k} = Tables(k)' \cup made'[k]
    BY <1>7, <1>8, <1>12, <2>1, <2>2 DEF PartsOf
  <2>4. PartsOf(k)'
    BY <1>6, <1>14, <1>15, <2>3 DEF PartsOf, Away
  <2>5. \A y : y[1] # k => (y \in live' <=> y \in live)
    BY <2>1, <2>2
  <2> QED
    BY <1>3, <1>4, <1>5, <1>13, <2>2, <2>4, <2>5, StepClean DEF SetupSteps
<1>17. CASE x \notin made[k] /\ UNCHANGED heapVars
  <2>1. live' = live /\ made'[k] = made[k]
    BY <1>12, <1>17 DEF heapVars
  <2>2. FreesSucceed' /\ PartsTracked'
    BY <1>3, <1>4, <1>5, <1>17, TrackSame DEF CleanInv, Building
  <2>3. {y \in live' : y[1] = k} = Tables(k)' \cup made'[k]
    BY <1>7, <1>8, <2>1 DEF PartsOf
  <2>4. PartsOf(k)'
    BY <1>6, <1>14, <1>15, <2>3 DEF PartsOf, Away
  <2> QED
    BY <1>3, <1>4, <1>5, <1>13, <2>1, <2>2, <2>4, StepClean DEF SetupSteps
<1> QED
  BY <1>3, <1>16, <1>17

LEMMA FreeWorkerClean ==
  ASSUME PoolInv, CleanInv, FreeWorker
  PROVE  CleanInv'
<1>1. PICK k \in Pools : k = op.k
  BY DEF FreeWorker, At, PoolInv, OpInOrder
<1>2. PICK n : n = op.i
  OBVIOUS
<1> DEFINE x == Thing(k, "worker", n)
<1>3. /\ op.at = "free_worker" /\ UNCHANGED <<stage, conf, proc, thread>> /\ TypeOK /\ OpInOrder
      /\ conf[k].nw \in 0 .. MaxWorkers /\ n \in 1 .. conf[k].nw
      /\ \/ /\ x \in made[k] /\ HeapFree(x)
            /\ made' = [made EXCEPT ![k] = made[k] \ {x}]
         \/ x \notin made[k] /\ UNCHANGED <<heapVars, made>>
  BY <1>1, <1>2, ConfType DEF FreeWorker, At, PoolInv, OpInOrder
<1>4. op'.at = "free_worker" /\ op'.k = k /\ op'.i = n + 1
  <2>1. n + 1 \in 0 .. MaxJobs + MaxWorkers + 1
    BY <1>3
  <2> QED
    BY <1>1, <1>2, <1>3, <2>1, StepType DEF FreeWorker, Steps
<1>5. OwnerStep(k)
  BY <1>1, <1>3, <1>4 DEF OwnerStep, Steps
<1>6. Phase(k) = "free_worker" /\ Phase(k)' = "free_worker"
  BY <1>3, <1>4, <1>5, OwnerPhases
<1>7. PartsOf(k)
  BY <1>6 DEF CleanInv, PartsInOrder
<1>8. Tables(k)' = Tables(k)
  BY <1>3, <1>6 DEF Tables, Away
<1>9. WorkersMade(k) \ {n} = WorkersMade(k)'
  BY <1>2, <1>3, <1>4, <1>6 DEF WorkersMade
<1>10. JobsMade(k)' = JobsMade(k)
  BY <1>3, <1>6 DEF JobsMade
<1>11. made'[k] = made[k] \ {x}
  BY <1>3 DEF TypeOK
<1>12. \A j \in Pools : j # k =>
         made'[j] = made[j] /\ proc'[j] = proc[j] /\ thread'[j] = thread[j]
  BY <1>3 DEF TypeOK
<1>13. made'[k] \subseteq {Thing(k, "job", i) : i \in JobsMade(k)'}
                          \cup {Thing(k, "worker", i) : i \in WorkersMade(k)'}
  <2> DEFINE J == JobsMade(k)
             V == WorkersMade(k)
             W == WorkersMade(k)'
  <2>1. made[k] \subseteq {Thing(k, "job", i) : i \in J} \cup {Thing(k, "worker", i) : i \in V}
    BY <1>7 DEF PartsOf
  <2>2. V \ {n} = W /\ JobsMade(k)' = J
    BY <1>9, <1>10
  <2>3. made'[k] \subseteq {Thing(k, "job", i) : i \in J} \cup {Thing(k, "worker", i) : i \in W}
    <3> HIDE DEF J, V, W
    <3> QED
      BY <1>11, <2>1, <2>2
  <2> QED
    BY <2>2, <2>3
<1>14. \A i \in JobIds :
         proc'[k][i] \in {"none", "reaped"} <=> Thing(k, "job", i) \notin made'[k]
  <2>1. \A i : Thing(k, "job", i) # x
    BY ThingParts
  <2> HIDE DEF x
  <2> QED
    BY <1>3, <1>7, <1>11, <2>1 DEF PartsOf
<1>15. CASE x \in made[k] /\ HeapFree(x)
  <2>1. x[1] = k /\ x \in live /\ x \notin Tables(k)
    <3>1. x[1] = k /\ x[2] = "worker"
      BY ThingParts
    <3> QED
      BY <1>7, <1>15, <3>1, MadeParts DEF PartsOf
  <2> HIDE DEF x
  <2>2. FreesSucceed' /\ PartsTracked' /\ live' = live \ {x}
    BY <1>3, <1>4, <1>5, <1>15, <2>1, TrackFree DEF CleanInv, Building
  <2>3. {y \in live' : y[1] = k} = Tables(k)' \cup made'[k]
    BY <1>7, <1>8, <1>11, <2>1, <2>2 DEF PartsOf
  <2>4. PartsOf(k)'
    BY <1>6, <1>13, <1>14, <2>3 DEF PartsOf, Away
  <2>5. \A y : y[1] # k => (y \in live' <=> y \in live)
    BY <2>1, <2>2
  <2> QED
    BY <1>3, <1>4, <1>5, <1>12, <2>2, <2>4, <2>5, StepClean DEF SetupSteps
<1>16. CASE x \notin made[k] /\ UNCHANGED heapVars
  <2>1. live' = live /\ made'[k] = made[k]
    BY <1>11, <1>16 DEF heapVars
  <2>2. FreesSucceed' /\ PartsTracked'
    BY <1>3, <1>4, <1>5, <1>16, TrackSame DEF CleanInv, Building
  <2>3. {y \in live' : y[1] = k} = Tables(k)' \cup made'[k]
    BY <1>7, <1>8, <2>1 DEF PartsOf
  <2>4. PartsOf(k)'
    BY <1>6, <1>13, <1>14, <2>3 DEF PartsOf, Away
  <2> QED
    BY <1>3, <1>4, <1>5, <1>12, <2>1, <2>2, <2>4, StepClean DEF SetupSteps
<1> QED
  BY <1>3, <1>15, <1>16

(* The steps that free a table, or the pool_t itself.                      *)
LEMMA FreeTableClean ==
  ASSUME PoolInv, CleanInv, NEW k \in Pools, OwnerStep(k), NEW x, x[1] = k,
         x \in Tables(k), Tables(k)' = Tables(k) \ {x}, x \notin made[k],
         HeapFree(x), UNCHANGED <<conf, made, proc, thread>>,
         Phase(k) # "dead", JobsMade(k) \subseteq JobsMade(k)',
         WorkersMade(k) \subseteq WorkersMade(k)',
         Phase(k)' \in Away => thread[k] = {},
         op'.at \in {"idle", "stop", "free_pool"}, op.at \notin SetupSteps
  PROVE  CleanInv'
<1>1. TypeOK /\ PartsOf(k)
  BY DEF PoolInv, CleanInv, PartsInOrder
<1>2. x \in live
  BY <1>1 DEF PartsOf
<1>3. FreesSucceed' /\ PartsTracked' /\ live' = live \ {x}
  BY <1>1, <1>2, TrackFree DEF CleanInv, Building
<1>4. {y \in live' : y[1] = k} = Tables(k)' \cup made'[k]
  BY <1>1, <1>2, <1>3 DEF PartsOf
<1>5. made'[k] \subseteq {Thing(k, "job", i) : i \in JobsMade(k)'}
                         \cup {Thing(k, "worker", i) : i \in WorkersMade(k)'}
  <2> DEFINE J == JobsMade(k)
             K == JobsMade(k)'
             V == WorkersMade(k)
             W == WorkersMade(k)'
  <2>1. made'[k] \subseteq {Thing(k, "job", i) : i \in J} \cup {Thing(k, "worker", i) : i \in V}
    BY <1>1 DEF PartsOf
  <2>2. J \subseteq K /\ V \subseteq W
    OBVIOUS
  <2> HIDE DEF J, K, V, W
  <2>3. made'[k] \subseteq {Thing(k, "job", i) : i \in K} \cup {Thing(k, "worker", i) : i \in W}
    BY <2>1, <2>2
  <2> QED
    BY <2>3 DEF K, W
<1>6. PartsOf(k)'
  BY <1>1, <1>4, <1>5 DEF PartsOf
<1>7. \A y : y[1] # k => (y \in live' <=> y \in live)
  BY <1>3
<1> QED
  BY <1>1, <1>3, <1>6, <1>7, StepClean DEF SetupSteps

LEMMA FreeJobsClean ==
  ASSUME PoolInv, CleanInv, FreeJobs
  PROVE  CleanInv'
<1>1. PICK k \in Pools : k = op.k
  BY DEF FreeJobs, At, PoolInv, OpInOrder
<1> DEFINE x == Thing(k, "jobs", 0)
<1>2. /\ op.at = "reap" /\ UNCHANGED <<stage, conf, made, proc, thread>>
      /\ op.i > conf[k].nj /\ conf[k].nj \in 0 .. MaxJobs /\ op.i \in Nat
      /\ op'.at = "stop" /\ op'.k = k /\ conf[k].epoll /\ TypeOK
      /\ IF conf[k].nj > 0 THEN HeapFree(x) ELSE UNCHANGED heapVars
  BY <1>1, StepType, ConfType DEF FreeJobs, At, Has, PoolInv, CleanInv, OneInPlay, OpInOrder,
     Steps
<1>3. OwnerStep(k)
  BY <1>1, <1>2 DEF OwnerStep, Steps
<1>4. Phase(k) = "reap" /\ Phase(k)' = "stop"
  BY <1>2, <1>3, OwnerPhases
<1>5. JobsMade(k) = {}
  BY <1>2, <1>4 DEF JobsMade
<1>6. WorkersMade(k) \subseteq WorkersMade(k)'
  BY <1>2, <1>4 DEF WorkersMade
<1>7. PartsOf(k)
  BY <1>4 DEF CleanInv, PartsInOrder
<1>8. CASE conf[k].nj > 0 /\ HeapFree(x)
  <2>1. x[1] = k /\ x[2] = "jobs" /\ x # Thing(k, "pool", 0) /\ x # Thing(k, "workers", 0)
    BY ThingParts
  <2>2. x \in Tables(k)
    BY <1>4, <1>8 DEF Tables
  <2>3. x \notin made[k]
    BY <1>7, <2>1, MadeParts
  <2>4. Tables(k)' = Tables(k) \ {x}
    <3> DEFINE P == Thing(k, "pool", 0)
               V == {y \in {Thing(k, "workers", 0)} : conf[k].nw > 0}
    <3>1. Tables(k) = {P} \cup {x} \cup V
      BY <1>4, <1>8 DEF Tables, Away
    <3>2. Tables(k)' = {P} \cup V
      BY <1>2, <1>4 DEF Tables, Away
    <3>3. x # P /\ x \notin V
      BY <2>1
    <3> HIDE DEF x, P, V
    <3> QED
      BY <3>1, <3>2, <3>3
  <2> HIDE DEF x
  <2> QED
    BY <1>2, <1>3, <1>4, <1>5, <1>6, <1>8, <2>1, <2>2, <2>3, <2>4, FreeTableClean
       DEF Away, SetupSteps
<1>9. CASE conf[k].nj = 0 /\ UNCHANGED heapVars
  <2>1. live' = live
    BY <1>9 DEF heapVars
  <2>2. FreesSucceed' /\ PartsTracked'
    BY <1>2, <1>3, <1>9, TrackSame DEF CleanInv, Building
  <2>3. Tables(k)' = Tables(k)
    BY <1>2, <1>4, <1>9 DEF Tables, Away
  <2>4. PartsOf(k)'
    BY <1>2, <1>4, <1>5, <1>6, <1>7, <2>1, <2>3, SameParts DEF Away
  <2> QED
    BY <1>2, <1>3, <2>1, <2>2, <2>4, StepClean DEF SetupSteps
<1> QED
  BY <1>2, <1>8, <1>9

LEMMA FreeWorkersClean ==
  ASSUME PoolInv, CleanInv, FreeWorkers
  PROVE  CleanInv'
<1>1. PICK k \in Pools : k = op.k
  BY DEF FreeWorkers, At, PoolInv, OpInOrder
<1> DEFINE x == Thing(k, "workers", 0)
<1>2. /\ op.at = "free_worker" /\ UNCHANGED <<stage, conf, made, proc, thread>>
      /\ op.i > conf[k].nw /\ conf[k].nw \in 0 .. MaxWorkers /\ op.i \in Nat
      /\ op'.at = "free_pool" /\ op'.k = k /\ TypeOK
      /\ IF conf[k].nw > 0 THEN HeapFree(x) ELSE UNCHANGED heapVars
  BY <1>1, StepType, ConfType DEF FreeWorkers, At, Has, PoolInv, OpInOrder, Steps
<1>3. OwnerStep(k)
  BY <1>1, <1>2 DEF OwnerStep, Steps
<1>4. Phase(k) = "free_worker" /\ Phase(k)' = "free_pool"
  BY <1>2, <1>3, OwnerPhases
<1>5. WorkersMade(k) = {}
  BY <1>2, <1>4 DEF WorkersMade
<1>6. JobsMade(k) \subseteq JobsMade(k)'
  BY <1>2, <1>4 DEF JobsMade
<1>7. PartsOf(k)
  BY <1>4 DEF CleanInv, PartsInOrder
<1> DEFINE P == Thing(k, "pool", 0)
           J == {y \in {Thing(k, "jobs", 0)} : conf[k].nj > 0 /\ ~conf[k].epoll}
<1>8. CASE conf[k].nw > 0 /\ HeapFree(x)
  <2>1. x[1] = k /\ x[2] = "workers" /\ x # P /\ x \notin J
    BY ThingParts
  <2>2. x \in Tables(k)
    BY <1>4, <1>8 DEF Tables
  <2>3. x \notin made[k]
    BY <1>7, <2>1, MadeParts
  <2>4. Tables(k)' = Tables(k) \ {x}
    <3>1. Tables(k) = {P} \cup {x} \cup J
      BY <1>4, <1>8 DEF Tables, Away
    <3>2. Tables(k)' = {P} \cup J
      BY <1>2, <1>4 DEF Tables, Away
    <3> HIDE DEF x, P, J
    <3> QED
      BY <2>1, <3>1, <3>2
  <2> HIDE DEF x, P, J
  <2> QED
    BY <1>2, <1>3, <1>4, <1>5, <1>6, <1>8, <2>1, <2>2, <2>3, <2>4, FreeTableClean
       DEF Away, SetupSteps
<1>9. CASE conf[k].nw = 0 /\ UNCHANGED heapVars
  <2>1. live' = live
    BY <1>9 DEF heapVars
  <2>2. FreesSucceed' /\ PartsTracked'
    BY <1>2, <1>3, <1>9, TrackSame DEF CleanInv, Building
  <2>3. Tables(k)' = Tables(k)
    BY <1>2, <1>4, <1>9 DEF Tables, Away
  <2>4. PartsOf(k)'
    BY <1>2, <1>4, <1>5, <1>6, <1>7, <2>1, <2>3, SameParts DEF Away
  <2> QED
    BY <1>2, <1>3, <2>1, <2>2, <2>4, StepClean DEF SetupSteps
<1> QED
  BY <1>2, <1>8, <1>9

LEMMA FreePoolClean ==
  ASSUME PoolInv, CleanInv, FreePool
  PROVE  CleanInv'
<1>1. PICK k \in Pools : k = op.k
  BY DEF FreePool, At, PoolInv, OpInOrder
<1> DEFINE x == Thing(k, "pool", 0)
           J == {y \in {Thing(k, "jobs", 0)} : conf[k].nj > 0 /\ ~conf[k].epoll}
<1>2. /\ op.at = "free_pool" /\ UNCHANGED <<conf, made, proc, thread>> /\ thread[k] = {}
      /\ op' = Idle /\ stage' = [stage EXCEPT ![k] = "gone"] /\ TypeOK /\ HeapFree(x)
  BY <1>1 DEF FreePool, At, PoolInv, ThreadsInOrder, NoThreadSteps
<1>3. OwnerStep(k) /\ op'.at = "idle" /\ stage'[k] = "gone"
  BY <1>1, <1>2, IdleType DEF OwnerStep, TypeOK
<1>4. Phase(k) = "free_pool" /\ Phase(k)' = "gone"
  BY <1>2, <1>3, OwnerPhases
<1>5. JobsMade(k) \subseteq JobsMade(k)'
  BY <1>2, <1>4 DEF JobsMade
<1>6. WorkersMade(k) \subseteq WorkersMade(k)'
  BY <1>4 DEF WorkersMade
<1>7. x[1] = k /\ x[2] = "pool" /\ x \notin J
  BY ThingParts
<1>8. x \notin made[k]
  BY <1>4, <1>7, MadeParts DEF CleanInv, PartsInOrder
<1>9. x \in Tables(k) /\ Tables(k)' = Tables(k) \ {x}
  <2>1. Tables(k) = {x} \cup J
    BY <1>4 DEF Tables, Away
  <2>2. Tables(k)' = J
    BY <1>2, <1>4 DEF Tables, Away
  <2> HIDE DEF x, J
  <2> QED
    BY <1>7, <2>1, <2>2
<1> HIDE DEF x, J
<1> QED
  BY <1>2, <1>3, <1>4, <1>5, <1>6, <1>7, <1>8, <1>9, FreeTableClean DEF SetupSteps

(* A pool is made when no other is in play. *)
LEMMA CreateClean ==
  ASSUME OnePool, PoolInv, CleanInv, NEW k \in Pools, NEW c \in Confs, Create(k, c)
  PROVE  CleanInv'
<1> DEFINE x == Thing(k, "pool", 0)
<1>1. /\ op.at = "idle" /\ stage[k] = "none" /\ TypeOK /\ (c.nj > 0 \/ c.nw > 0)
      /\ \A j \in Pools : stage[j] # "ready"
      /\ conf' = [conf EXCEPT ![k] = c] /\ UNCHANGED <<made, proc, thread>>
  BY DEF Create, At, PoolInv
<1>2. /\ \A j \in Pools : Phase(j) = stage[j] /\ Phase(j) \in Away
      /\ Phase(k) = "none"
  BY <1>1 DEF Phase, Away, TypeOK
<1>3. /\ made[k] = {} /\ {y \in live : y[1] = k} = Tables(k)
      /\ \A i \in JobIds : proc[k][i] \in {"none", "reaped"}
  BY <1>2, BareParts DEF CleanInv, PartsInOrder, Bare
<1>4. Tables(k) = {}
  BY <1>2 DEF Tables, Away
<1>5. thread[k] = {}
  BY <1>2 DEF CleanInv, PartsInOrder, PartsOf, Away
<1>6. conf'[k] = c /\ \A j \in Pools : j # k => conf'[j] = conf[j]
  BY <1>1 DEF TypeOK
<1>7. c.nj \in Nat /\ c.nw \in Nat
  BY DEF Confs
<1>8. CASE /\ HeapAlloc(x)
           /\ op' = [at |-> IF c.nj > 0 THEN "jobs" ELSE "workers", k |-> k, i |-> 0]
           /\ UNCHANGED stage
  <2>1. op'.k = k /\ op'.at = IF c.nj > 0 THEN "jobs" ELSE "workers"
    BY <1>8
  <2>2. /\ Phase(k)' = op'.at /\ Phase(k)' \notin Away
        /\ \A j \in Pools : j # k => Phase(j)' = stage[j]
    BY <1>8, <2>1 DEF Phase, Away
  <2>3. x \in Things \ live /\ x[1] = k
    BY <1>3, <1>4, ThingType, ThingParts
  <2>4. Tables(k)' = {x}
    BY <1>6, <1>7, <2>1, <2>2 DEF Tables, Away
  <2> HIDE DEF x
  <2>5. \A i \in Slots : table[i] # Nothing /\ i >= active => k # table[i][1]
    BY <1>3, <1>4 DEF CleanInv, PartsTracked
  <2>6. FreesSucceed' /\ PartsTracked' /\ live' = live \cup {x}
    BY <1>1, <1>2, <1>3, <1>4, <1>8, <2>1, <2>2, <2>3, <2>5, TrackAlloc DEF CleanInv
  <2>7. {y \in live' : y[1] = k} = Tables(k)'
    BY <1>3, <1>4, <2>3, <2>4, <2>6
  <2>8. PartsOf(k)'
    BY <1>1, <1>3, <2>2, <2>7, StillBare
  <2>9. \A y : y[1] # k => (y \in live' <=> y \in live)
    BY <2>3, <2>6
  <2>10. PartsInOrder'
    BY <1>1, <1>2, <1>6, <2>2, <2>8, <2>9, OtherParts DEF CleanInv, TypeOK
  <2>11. OneInPlay'
    BY <1>1, <1>2, <1>8, <2>1, <2>2 DEF OneInPlay, SetupSteps
  <2> QED
    BY <2>6, <2>10, <2>11 DEF CleanInv
<1>9. CASE HeapAllocFails /\ stage' = [stage EXCEPT ![k] = "failed"] /\ UNCHANGED op
  <2>1. UNCHANGED <<table, active, locked, live>>
    BY <1>9 DEF HeapAllocFails, heapVars
  <2>2. /\ Phase(k)' = "failed"
        /\ \A j \in Pools : j # k => Phase(j)' = stage[j]
    BY <1>1, <1>9 DEF Phase, TypeOK
  <2>3. \A j \in Pools : Phase(j)' \in Away
    BY <1>2, <2>2 DEF Away
  <2>4. Tables(k)' = {}
    BY <2>2 DEF Tables, Away
  <2>5. PartsOf(k)'
    BY <1>1, <1>3, <1>4, <1>5, <2>1, <2>4, StillBare
  <2>6. PartsInOrder'
    BY <1>1, <1>2, <1>6, <2>1, <2>2, <2>5, OtherParts DEF CleanInv, TypeOK
  <2>7. OneInPlay'
    BY <1>1, <1>9, <2>3 DEF OneInPlay
  <2>8. \A y \in live : y[1] \in Pools
    BY <1>1 DEF TypeOK, Things
  <2>9. PartsTracked'
    BY <1>9, <2>1, <2>3, <2>8 DEF CleanInv, PartsTracked
  <2> QED
    BY <2>1, <2>6, <2>7, <2>9 DEF CleanInv, FreesSucceed
<1> QED
  BY <1>8, <1>9 DEF Create

LEMMA DestroyPoolClean ==
  ASSUME PoolInv, CleanInv, NEW k \in Pools, DestroyPool(k)
  PROVE  CleanInv'
<1>1. /\ op.at = "idle" /\ stage[k] = "ready" /\ TypeOK
      /\ op'.at = (IF conf[k].epoll THEN "kill" ELSE "stop") /\ op'.k = k
      /\ UNCHANGED <<stage, conf, made, table, active, locked, live, proc, thread>>
  BY DEF DestroyPool, At, PoolInv, heapVars
<1>2. /\ Phase(k) = "ready" /\ Phase(k)' = op'.at
      /\ \A j \in Pools : j # k => Phase(j) = stage[j] /\ Phase(j)' = stage[j]
  BY <1>1 DEF Phase
<1>3. \A j \in Pools : Phase(j)' \notin Away <=> Phase(j) \notin Away
  BY <1>1, <1>2 DEF Away
<1>4. \A j \in Pools : j # k => Phase(j) \in Away
  BY <1>2 DEF CleanInv, OneInPlay, Away
<1>5. PartsOf(k)'
  <2>1. PartsOf(k)
    BY <1>2 DEF CleanInv, PartsInOrder
  <2>2. Tables(k)' = Tables(k)
    BY <1>1, <1>2 DEF Tables, Away
  <2>3. JobsMade(k) \subseteq JobsMade(k)'
    BY <1>1, <1>2 DEF JobsMade
  <2>4. WorkersMade(k) \subseteq WorkersMade(k)'
    BY <1>1, <1>2 DEF WorkersMade
  <2>5. Phase(k)' \notin Away
    BY <1>1, <1>2 DEF Away
  <2> QED
    BY <1>1, <2>1, <2>2, <2>3, <2>4, <2>5, SameParts
<1>6. PartsInOrder'
  BY <1>1, <1>2, <1>5, OtherParts DEF CleanInv, TypeOK
<1>7. OneInPlay'
  BY <1>1, <1>3 DEF CleanInv, OneInPlay, SetupSteps
<1>8. \A y \in live : y[1] \in Pools
  BY <1>1 DEF TypeOK, Things
<1>9. PartsTracked'
  BY <1>1, <1>3, <1>8 DEF CleanInv, PartsTracked, Building
<1> QED
  BY <1>1, <1>6, <1>7, <1>9 DEF CleanInv, FreesSucceed

LEMMA CleanUntouched ==
  ASSUME CleanInv, UNCHANGED <<op, stage, conf, made, table, active, locked, live, thread>>,
         \A k \in Pools, i \in JobIds :
           proc'[k][i] \in {"none", "reaped"} <=> proc[k][i] \in {"none", "reaped"}
  PROVE  CleanInv'
<1>1. \A k : Phase(k)' = Phase(k)
  BY DEF Phase
<1>2. \A k \in Pools : Tables(k)' = Tables(k)
  BY <1>1 DEF Tables
<1>3. \A k \in Pools : JobsMade(k)' = JobsMade(k)
  BY <1>1 DEF JobsMade
<1>4. \A k \in Pools : WorkersMade(k)' = WorkersMade(k)
  BY <1>1 DEF WorkersMade
<1>5. ASSUME NEW k \in Pools, PartsOf(k)
      PROVE  PartsOf(k)'
  BY <1>1, <1>2, <1>3, <1>4, <1>5 DEF PartsOf
<1>6. PartsInOrder'
  BY <1>1, <1>5 DEF CleanInv, PartsInOrder
<1>7. OneInPlay'
  BY <1>1 DEF CleanInv, OneInPlay
<1>8. PartsTracked'
  BY <1>1 DEF CleanInv, PartsTracked
<1> QED
  BY <1>6, <1>7, <1>8 DEF CleanInv, FreesSucceed

LEMMA ChildEndsClean ==
  ASSUME PoolInv, CleanInv, NEW k \in Pools, NEW i \in JobIds, ChildEnds(k, i)
  PROVE  CleanInv'
<1>1. UNCHANGED <<op, stage, conf, made, table, active, locked, live, thread>>
  BY DEF ChildEnds, heapVars
<1>2. /\ proc \in [Pools -> [JobIds -> {"none", "up", "told", "ended", "reaped"}]]
      /\ proc[k][i] = "told" /\ proc' = [proc EXCEPT ![k][i] = "ended"]
  BY DEF ChildEnds, PoolInv, TypeOK
<1>3. \A l \in Pools, j \in JobIds :
        proc'[l][j] = IF l = k /\ j = i THEN "ended" ELSE proc[l][j]
  <2>1. proc'[k] = [proc[k] EXCEPT ![i] = "ended"] /\ \A l \in Pools : l # k => proc'[l] = proc[l]
    BY <1>2
  <2> QED
    BY <1>2, <2>1
<1>4. \A l \in Pools, j \in JobIds :
        proc'[l][j] \in {"none", "reaped"} <=> proc[l][j] \in {"none", "reaped"}
  BY <1>2, <1>3
<1> QED
  BY <1>1, <1>4, CleanUntouched

LEMMA NextClean == OnePool /\ PoolInv /\ CleanInv /\ [Next]_vars => CleanInv'
<1> SUFFICES ASSUME OnePool, PoolInv, CleanInv, [Next]_vars
             PROVE  CleanInv'
  OBVIOUS
<1>1. ASSUME NEW k \in Pools, NEW c \in Confs, Create(k, c)
      PROVE  CleanInv'
  BY <1>1, CreateClean
<1>2. CASE Setup
  BY <1>2, AllocJobsClean, AllocWorkersClean, UndoJobsClean, UndoPoolClean, InitJobClean,
     InitJobDiesClean, InitFailsClean, InitWorkerClean DEF Setup
<1>3. ASSUME NEW k \in Pools, DestroyPool(k)
      PROVE  CleanInv'
  BY <1>3, DestroyPoolClean
<1>4. CASE Teardown
  BY <1>4, KillClean, ReapJobClean, FreeJobsClean, FreeWorkerClean, FreeWorkersClean,
     FreePoolClean DEF Teardown
<1>5. ASSUME NEW k \in Pools, NEW i \in JobIds, ChildEnds(k, i)
      PROVE  CleanInv'
  BY <1>5, ChildEndsClean
<1>6. CASE UNCHANGED vars
  <2>1. /\ UNCHANGED <<op, stage, conf, made, table, active, locked, live, thread>>
        /\ proc' = proc
    BY <1>6 DEF vars, heapVars
  <2> QED
    BY <2>1, CleanUntouched
<1> QED
  BY <1>1, <1>2, <1>3, <1>4, <1>5, <1>6 DEF Next

LEMMA InitClean == Init => CleanInv
<1> SUFFICES ASSUME Init
             PROVE  CleanInv
  OBVIOUS
<1>1. /\ op.at = "idle" /\ live = {} /\ active = 0 /\ ~locked
      /\ \A k \in Pools : stage[k] = "none" /\ made[k] = {} /\ thread[k] = {}
      /\ \A k \in Pools, i \in JobIds : proc[k][i] = "none"
      /\ \A i \in Slots : table[i] = Nothing
  BY DEF Init, Idle
<1>2. \A k \in Pools : Phase(k) = "none"
  BY <1>1 DEF Phase
<1>3. \A k \in Pools : Tables(k) = {}
  BY <1>2 DEF Tables, Away
<1>4. PartsInOrder
  BY <1>1, <1>3 DEF PartsInOrder, PartsOf
<1>5. OneInPlay
  BY <1>1, <1>2 DEF OneInPlay, Away
<1>6. PartsTracked
  BY <1>1, FS_EmptySet DEF PartsTracked
<1> QED
  BY <1>1, <1>4, <1>5, <1>6 DEF CleanInv, FreesSucceed

(* What is left of a pool that is not in play is what destroy_job() leaves *)
(* without an epoll descriptor.                                            *)
LEMMA CleanMeans == PoolInv /\ CleanInv => TearDownIsClean
<1> SUFFICES ASSUME PoolInv, CleanInv, NEW k \in Pools, stage[k] \in {"failed", "gone"}
             PROVE  /\ \A x \in live \ Left(k) : x[1] # k
                    /\ \A i \in JobIds :
                         Thing(k, "job", i) \notin Left(k) => proc[k][i] \in {"none", "reaped"}
                    /\ thread[k] = {}
  BY DEF TearDownIsClean, NothingLeft, CleanInv
<1>1. Phase(k) = stage[k]
  BY DEF CleanInv, OneInPlay, Phase
<1>2. PartsOf(k) /\ thread[k] = {}
  BY <1>1 DEF CleanInv, PartsInOrder, PartsOf, Away
<1>3. WorkersMade(k) = {}
  BY <1>1 DEF WorkersMade
<1>4. \A x \in made[k] : x[2] = "job" /\ x[3] \in JobsMade(k)
  BY <1>2, <1>3, MadeParts
<1>5. CASE stage[k] = "gone" /\ ~conf[k].epoll
  <2>1. Left(k) = {x \in made[k] : x[2] = "job"} \cup {Thing(k, "jobs", 0)}
    BY <1>5 DEF Left
  <2>2. Tables(k) \subseteq {Thing(k, "jobs", 0)}
    BY <1>1, <1>5 DEF Tables, Away
  <2>3. made[k] \subseteq Left(k)
    BY <1>4, <2>1
  <2> QED
    BY <1>2, <2>1, <2>2, <2>3 DEF PartsOf
<1>6. CASE ~(stage[k] = "gone" /\ ~conf[k].epoll)
  <2>1. JobsMade(k) = {}
    BY <1>1, <1>6 DEF JobsMade
  <2>2. Tables(k) = {}
    BY <1>1, <1>6 DEF Tables, Away
  <2>3. made[k] = {}
    BY <1>4, <2>1
  <2> QED
    BY <1>2, <2>2, <2>3 DEF PartsOf
<1> QED
  BY <1>5, <1>6

(* With one pool at a time, whichever allocations fail, a pool that could  *)
(* not be made or has been destroyed leaves neither memory nor a process   *)
(* nor a thread, but the jobs of a pool without an epoll descriptor, and   *)
(* no heap_free() keeps the tracker locked (reactor.c:308-353, 418-480,    *)
(* 597-690).                                                               *)
THEOREM NothingIsLeft ==
  ASSUME OnePool
  PROVE  Spec => []TearDownIsClean
<1>1. PoolInv /\ CleanInv /\ [Next]_vars => CleanInv'
  BY NextClean
<1> QED
  BY <1>1, InitClean, CleanMeans, PoolInvariance, PTL DEF Spec

=============================================================================
