------------------------------ MODULE Reactor ------------------------------
(***************************************************************************)
(* The thread pool of src/reactor.c: the threads that run                  *)
(* start_working(), the callers of enqueue() (the thread that owns the     *)
(* pool, and the callbacks of running tasks), init_worker() and            *)
(* destroy_workers(), step by step.                                        *)
(*                                                                         *)
(* A worker's queue is an arena (src/allocator.c) that holds task_t's and  *)
(* nothing else, so its blocks are counted in tasks here: BlockCap of them *)
(* per block (1024 / 96 = 10 in the code).  What runs under the arena's    *)
(* mutex is one step; what runs outside it is not: the copy of the task    *)
(* into its cell, the scan of the queue by its worker, every flag and      *)
(* semaphore.                                                              *)
(*                                                                         *)
(* Left out because no step reads them: is_sleeping, is_done_queues,       *)
(* is_reset (both branches of destroy_workers() do the same), the calls    *)
(* that are commented out (shared, notify_done), and the id check of       *)
(* start_working(), which init_worker()'s ids always pass.                 *)
(***************************************************************************)
EXTENDS Integers, Sequences, FiniteSets

CONSTANTS
  N,         \* worker_count
  Tasks,     \* the tasks callers may submit, each at most once
  NoTask,    \* a null pointer where a task could be
  BlockCap,  \* the tasks one arena block holds
  Spawns,    \* per task, the tasks its execute callback may enqueue
  Faults     \* what may fail: "heap", "arena", "thread", "block", "args"

ASSUME NAssumption == N \in Nat \ {0}
ASSUME BlockCapAssumption == BlockCap \in Nat \ {0}
ASSUME TasksAssumption == NoTask \notin Tasks /\ IsFiniteSet(Tasks)
ASSUME SpawnsAssumption == Spawns \in [Tasks -> SUBSET Tasks]

Workers == 1 .. N
Main == 0                      \* the thread that owns the pool
Callers == {Main} \cup Workers \* who may call enqueue()

VARIABLES
  mpc,      \* where the owner is: init_worker() calls, running, destroy_workers()
  mi,       \* its loop index
  wpc,      \* per worker, where start_working() is ("null": no worker_t)
  shutdown, \* worker_t.shutdown
  sem,      \* worker_t.sem
  ack,      \* pool_t.ack_sem
  arena,    \* per worker, the state of its local_queues
  queue,    \* per worker, the blocks of local_queues, from head
  current,  \* per worker, the index of local_queues->current
  rb, ro,   \* per worker, the scan's block and the tasks read in it
  call,     \* per caller, its enqueue() in flight
  fresh,    \* history: the tasks nobody has submitted yet
  pending,  \* history: per worker, the accepted tasks it has not passed yet
  active,   \* history: per worker, the task whose callbacks are being called
  ran,      \* history: per task, the callbacks that were called, in order
  posted,   \* history: the tasks whose enqueue() has posted the semaphore
  snap      \* history: per worker, the tasks its wake-up found in its queue

ownerVars   == <<mpc, mi>>
threadVars  == <<wpc, rb, ro>>
signalVars  == <<shutdown, sem, ack>>
arenaVars   == <<arena, queue, current>>
historyVars == <<fresh, pending, active, ran, posted, snap>>
vars == <<ownerVars, threadVars, signalVars, arenaVars, call, historyVars>>

-----------------------------------------------------------------------------
(* The arena of a worker.  A cell is the set of values a read of its task  *)
(* may return: {NoTask} when zeroed, {t} once t is copied, more while a    *)
(* copy is under way or when two of them, or one and a shred, overlapped.  *)

Cells == (SUBSET (Tasks \cup {NoTask})) \ {{}}
ZeroCell == {NoTask}
Zeroed == [i \in 1 .. BlockCap |-> ZeroCell]
Blocks == [wiped : BOOLEAN, off : 0 .. BlockCap, data : [1 .. BlockCap -> Cells]]

(* arena_new_block() *)
NewBlock == [wiped |-> FALSE, off |-> 0, data |-> Zeroed]

(* What internal_block_shred() makes of a block when arena_reset() calls it *)
ShreddedBlock == [wiped |-> TRUE, off |-> 0, data |-> Zeroed]

(* The cells i of a block may now hold any of v. *)
PutCell(b, i, v) == [b EXCEPT !.data = [@ EXCEPT ![i] = v]]

(* Slip: a block in use again is marked unwiped, the flag alone. *)
BumpUnwiped(b) == [b EXCEPT !.off = @ + 1, !.wiped = FALSE]

(* arena_allocate_raw() hands out the next cell of a block. *)
Bump(b) == [b EXCEPT !.off = @ + 1]

(* It starts a block anew: the offset alone is reset. *)
Rewound(b) == [b EXCEPT !.off = 0]

Fits(b) == b.off + 1 <= BlockCap

-----------------------------------------------------------------------------
(* enqueue(), one step per piece that another thread can see between.      *)

CallSteps == {"idle", "alloc", "copy", "copying", "torn", "post"}
Idle == [step |-> "idle", w |-> Main, t |-> NoTask, notify |-> FALSE,
         b |-> 0, i |-> 0]

Present(w) == wpc[w] # "null"
HasThread(w) == wpc[w] \notin {"null", "nothread"}

(* The owner calls from outside; a worker from the execute callback of a   *)
(* task, and only for the tasks that callback may spawn.                   *)
MayCall(a, t) ==
  /\ call[a] = Idle
  /\ t \in fresh
  /\ \A b \in Callers : call[b].t # t
  /\ IF a = Main THEN mpc = "run"
                 ELSE wpc[a] = "executing" /\ t \in Spawns[active[a]]

Begin(a, w, t, notify) ==
  call' = [call EXCEPT ![a] = [step |-> "alloc", w |-> w, t |-> t,
                               notify |-> notify, b |-> 0, i |-> 0]]

Enqueue(a, w, t, notify) ==
  /\ MayCall(a, t)
  /\ Present(w) /\ arena[w] # "none"
  /\ Begin(a, w, t, notify)
  /\ UNCHANGED <<ownerVars, threadVars, signalVars, arenaVars, historyVars>>

(* "Arguments wrong": no worker, no queue, or an id or enum out of range.  *)
EnqueueRefused(a, w, t) ==
  /\ MayCall(a, t)
  /\ ~Present(w) \/ arena[w] = "none" \/ "args" \in Faults
  /\ fresh' = fresh \ {t}
  /\ UNCHANGED <<ownerVars, threadVars, signalVars, arenaVars, call,
                 pending, active, ran, posted, snap>>

(* arena_alloc(): the caller gets cell i of block b, and q is the queue    *)
(* with the blocks before the cell is counted.  The mutex must be free.    *)
TakeCell(a, b, q) ==
  LET w == call[a].w IN
  /\ arena[w] = "live"
  /\ queue' = [queue EXCEPT ![w] = [q EXCEPT ![b] = Bump(@)]]
  /\ current' = [current EXCEPT ![w] = b]
  /\ call' = [call EXCEPT ![a] =
       [step |-> "copy", w |-> w, t |-> @.t, notify |-> @.notify,
        b |-> b, i |-> q[b].off + 1]]
  /\ fresh' = fresh \ {call[a].t}
  /\ pending' = [pending EXCEPT ![w] = Append(@, call[a].t)]
  /\ UNCHANGED <<ownerVars, threadVars, signalVars, arena, active, ran, posted,
                 snap>>

Allocating(a) == call[a].step = "alloc"

AllocHere(a) ==
  LET w == call[a].w
      c == current[w] IN
  /\ Allocating(a)
  /\ Fits(queue[w][c])
  /\ TakeCell(a, c, queue[w])

(* The current block is full: the next one is used from its start. *)
AllocNextBlock(a) ==
  LET w == call[a].w
      c == current[w] IN
  /\ Allocating(a)
  /\ ~Fits(queue[w][c])
  /\ c < Len(queue[w])
  /\ TakeCell(a, c + 1, [queue[w] EXCEPT ![c + 1] = Rewound(@)])

AllocNewBlock(a) ==
  LET w == call[a].w
      c == current[w] IN
  /\ Allocating(a)
  /\ ~Fits(queue[w][c])
  /\ c = Len(queue[w])
  /\ TakeCell(a, c + 1, Append(queue[w], NewBlock))

(* malloc() fails: enqueue() returns, and the arena's mutex stays locked.  *)
AllocOutOfMemory(a) ==
  LET w == call[a].w IN
  /\ Allocating(a)
  /\ "block" \in Faults
  /\ arena[w] = "live"
  /\ ~Fits(queue[w][current[w]])
  /\ current[w] = Len(queue[w])
  /\ arena' = [arena EXCEPT ![w] = "locked"]
  /\ call' = [call EXCEPT ![a] = Idle]
  /\ fresh' = fresh \ {call[a].t}
  /\ UNCHANGED <<ownerVars, threadVars, signalVars, queue, current, pending,
                 active, ran, posted, snap>>

Tear(c) == [c EXCEPT !.step = "torn"]

(* memcpy() of the task into its cell, outside the mutex: begin and end.   *)
Copying(a, b) ==
  /\ call[b].step \in {"copying", "torn"}
  /\ <<call[b].w, call[b].b, call[b].i>> = <<call[a].w, call[a].b, call[a].i>>

WriteCell(a, v) ==
  LET c == call[a]
      q == queue[c.w] IN
  queue' = [queue EXCEPT ![c.w] = [q EXCEPT ![c.b] = PutCell(q[c.b], c.i, v)]]

CopyBegin(a) ==
  LET c == call[a]
      others == {b \in Callers : Copying(a, b)} IN
  /\ c.step = "copy"
  /\ WriteCell(a, queue[c.w][c.b].data[c.i] \cup {c.t})
  /\ call' = [b \in Callers |->
       IF b \in others THEN Tear(call[b])
       ELSE IF b # a THEN call[b]
       ELSE IF others = {} THEN [c EXCEPT !.step = "copying"] ELSE Tear(c)]
  /\ UNCHANGED <<ownerVars, threadVars, signalVars, arena, current, historyVars>>

CopyEnd(a) ==
  LET c == call[a] IN
  /\ c.step \in {"copying", "torn"}
  /\ WriteCell(a, IF c.step = "torn" THEN queue[c.w][c.b].data[c.i] \cup {c.t}
                                      ELSE {c.t})
  /\ call' = [call EXCEPT ![a] = IF c.notify THEN [c EXCEPT !.step = "post"]
                                             ELSE Idle]
  /\ UNCHANGED <<ownerVars, threadVars, signalVars, arena, current, historyVars>>

(* Slip: only a worker that is asleep is woken. *)
NotifySleeper(w) == sem' = [sem EXCEPT ![w] = IF wpc[w] = "wait" THEN @ + 1 ELSE @]

(* if (require_notify) sem_post(&worker->sem) *)
Notify(w) == sem' = [sem EXCEPT ![w] = @ + 1]

Post(a) ==
  /\ call[a].step = "post"
  /\ Notify(call[a].w)
  /\ posted' = posted \cup {call[a].t}
  /\ call' = [call EXCEPT ![a] = Idle]
  /\ UNCHANGED <<ownerVars, threadVars, shutdown, ack, arenaVars,
                 fresh, pending, active, ran, snap>>

EnqueueStep(a) ==
  \/ AllocHere(a)
  \/ AllocNextBlock(a)
  \/ AllocNewBlock(a)
  \/ AllocOutOfMemory(a)
  \/ CopyBegin(a)
  \/ CopyEnd(a)
  \/ Post(a)

-----------------------------------------------------------------------------
(* start_working(), the thread of worker w.                                *)

At(w, from) == wpc[w] = from

Go(w, from, to) == At(w, from) /\ wpc' = [wpc EXCEPT ![w] = to]

ThreadOnly == UNCHANGED <<ownerVars, signalVars, arenaVars, call, historyVars>>

Top(w) ==
  /\ \/ shutdown[w] /\ Go(w, "top", "ack")
     \/ ~shutdown[w] /\ Go(w, "top", "wait")
  /\ UNCHANGED <<rb, ro>> /\ ThreadOnly

SemWait(w) ==
  /\ Go(w, "wait", "woken")
  /\ sem[w] > 0
  /\ sem' = [sem EXCEPT ![w] = @ - 1]
  /\ UNCHANGED <<ownerVars, rb, ro, shutdown, ack, arenaVars, call, historyVars>>

(* The tasks a scan that starts now is bound to find: copied whole, in a   *)
(* block no arena_reset() has marked.                                      *)
Visible(w) ==
  {t \in Tasks : \E b \in DOMAIN queue[w] :
      /\ ~queue[w][b].wiped
      /\ \E i \in 1 .. queue[w][b].off : queue[w][b].data[i] = {t}}

WokenToStop(w) ==
  /\ shutdown[w]
  /\ Go(w, "woken", "ack")
  /\ UNCHANGED <<rb, ro>> /\ ThreadOnly

StartScan(w) ==
  /\ ~shutdown[w]
  /\ Go(w, "woken", "scan")
  /\ rb' = [rb EXCEPT ![w] = 1]
  /\ ro' = [ro EXCEPT ![w] = 0]
  /\ snap' = [snap EXCEPT ![w] = Visible(w)]
  /\ UNCHANGED <<ownerVars, signalVars, arenaVars, call,
                 fresh, pending, active, ran, posted>>

(* cur_block = cur_block->next, as next is at that moment *)
HasNext(w) == rb[w] < Len(queue[w])

ToNextBlock(w, from) ==
  /\ Go(w, from, IF HasNext(w) THEN "scan" ELSE "reset")
  /\ rb' = [rb EXCEPT ![w] = @ + 1]
  /\ ro' = [ro EXCEPT ![w] = 0]
  /\ ThreadOnly

SkipWiped(w) ==
  /\ At(w, "scan") /\ queue[w][rb[w]].wiped
  /\ ToNextBlock(w, "scan")

(* Slip: off by one at the end of the scan. *)
UnreadButLast(w) == ro[w] + 1 < queue[w][rb[w]].off

(* read_offset < cur_block->offset, read without the mutex *)
Unread(w) == ro[w] < queue[w][rb[w]].off

TakeTask(w) ==
  /\ At(w, "scan") /\ ~queue[w][rb[w]].wiped
  /\ Go(w, "scan", IF Unread(w) THEN "on_load" ELSE "next")
  /\ UNCHANGED <<rb, ro>> /\ ThreadOnly

NextBlock(w) == ToNextBlock(w, "next")

(* What is left of a queue once task t of it has been started. *)
After(s, t) ==
  IF \E k \in DOMAIN s : s[k] = t
  THEN SubSeq(s, 1 + CHOOSE k \in DOMAIN s : s[k] = t, Len(s))
  ELSE s

(* if (task->task_.<c>) task->task_.<c>(&task->task_): the pointer is read *)
(* from the cell each time, and t is what the read returns.                *)
Cell(w) == queue[w][rb[w]].data[ro[w] + 1]

Callback(w, t, c) ==
  /\ IF t = NoTask
     THEN UNCHANGED <<ran, active, pending>>
     ELSE /\ ran' = [ran EXCEPT ![t] = Append(@, c)]
          /\ active' = [active EXCEPT ![w] = t]
          /\ pending' = [pending EXCEPT ![w] = After(@, t)]
  /\ UNCHANGED <<ownerVars, rb, ro, signalVars, arenaVars, call,
                 fresh, posted, snap>>

OnLoad(w) ==
  At(w, "on_load") /\ \E t \in Cell(w) :
     /\ Go(w, "on_load", "execute")
     /\ Callback(w, t, "on_load")

(* The execute callback, which may enqueue more tasks until ...            *)
Execute(w) ==
  At(w, "execute") /\ \E t \in Cell(w) :
     /\ Go(w, "execute", IF t = NoTask THEN "on_exit" ELSE "executing")
     /\ Callback(w, t, "execute")

(* ... it returns. *)
Return(w) ==
  /\ call[w] = Idle
  /\ Go(w, "executing", "on_exit")
  /\ UNCHANGED <<rb, ro>> /\ ThreadOnly

OnExit(w) ==
  At(w, "on_exit") /\ \E t \in Cell(w) :
     /\ Go(w, "on_exit", "advance")
     /\ Callback(w, t, "on_exit")

(* Slip: the offset is not advanced. *)
AdvanceNowhere(w) ==
  /\ Go(w, "advance", "scan")
  /\ ro' = ro
  /\ active' = [active EXCEPT ![w] = NoTask]
  /\ UNCHANGED <<ownerVars, rb, signalVars, arenaVars, call,
                 fresh, pending, ran, posted, snap>>

(* read_offset += align(sizeof(task_t)) *)
Advance(w) ==
  /\ Go(w, "advance", "scan")
  /\ ro' = [ro EXCEPT ![w] = @ + 1]
  /\ active' = [active EXCEPT ![w] = NoTask]
  /\ UNCHANGED <<ownerVars, rb, signalVars, arenaVars, call,
                 fresh, pending, ran, posted, snap>>

(* arena_reset(): under the mutex, every block is zeroed and marked. A     *)
(* copy into the queue that is under way loses what it has written.        *)
Shred(q) == [b \in DOMAIN q |-> ShreddedBlock]

Reset(w) ==
  /\ Go(w, "reset", "top")
  /\ arena[w] = "live"
  /\ queue' = [queue EXCEPT ![w] = Shred(@)]
  /\ current' = [current EXCEPT ![w] = 1]
  /\ call' = [a \in Callers |->
       IF call[a].w = w /\ call[a].step = "copying"
       THEN Tear(call[a]) ELSE call[a]]
  /\ pending' = [pending EXCEPT ![w] = << >>]
  /\ snap' = [snap EXCEPT ![w] = {}]
  /\ rb' = [rb EXCEPT ![w] = 1]   \* the scan's locals go out of scope
  /\ ro' = [ro EXCEPT ![w] = 0]
  /\ UNCHANGED <<ownerVars, signalVars, arena, fresh, active, ran, posted>>

(* Slip: the thread ends without its acknowledgement. *)
EndUnacknowledged(w) ==
  /\ Go(w, "ack", "done")
  /\ UNCHANGED <<ownerVars, rb, ro, signalVars, arenaVars, call, historyVars>>

(* sem_post(&self->parent_pool->ack_sem), and the thread ends *)
Ack(w) ==
  /\ Go(w, "ack", "done")
  /\ ack' = ack + 1
  /\ UNCHANGED <<ownerVars, rb, ro, shutdown, sem, arenaVars, call, historyVars>>

WorkerStep(w) ==
  \/ Top(w)
  \/ SemWait(w)
  \/ WokenToStop(w)
  \/ StartScan(w)
  \/ SkipWiped(w)
  \/ TakeTask(w)
  \/ NextBlock(w)
  \/ OnLoad(w)
  \/ Execute(w)
  \/ Return(w)
  \/ OnExit(w)
  \/ Advance(w)
  \/ Reset(w)
  \/ Ack(w)

-----------------------------------------------------------------------------
(* The owner: init_worker() for each worker, then destroy_workers().       *)

(* The loop index moves on; after the last worker the next loop begins.    *)
Loop(again, then) ==
  /\ mpc' = IF mi < N THEN again ELSE then
  /\ mi' = IF mi < N THEN mi + 1 ELSE 1

(* What init_worker() leaves behind: a worker with its thread, or what a   *)
(* failed heap_alloc(), arena_init() or pthread_create() makes of it.      *)
InitWorker ==
  /\ mpc = "init"
  /\ \E heapOk, arenaOk, threadOk \in BOOLEAN :
       /\ heapOk \/ "heap" \in Faults
       /\ arenaOk \/ (heapOk /\ "arena" \in Faults)
       /\ threadOk \/ (heapOk /\ "thread" \in Faults)
       /\ wpc' = [wpc EXCEPT ![mi] = IF ~heapOk THEN "null"
                                     ELSE IF threadOk THEN "top" ELSE "nothread"]
       /\ arena' = [arena EXCEPT ![mi] = IF heapOk /\ arenaOk THEN "live" ELSE "none"]
       /\ queue' = [queue EXCEPT ![mi] =
                      IF heapOk /\ arenaOk THEN <<NewBlock>> ELSE << >>]
  /\ Loop("init", "run")
  /\ UNCHANGED <<rb, ro, signalVars, current, call, historyVars>>

StartDestroy ==
  /\ mpc = "run"
  /\ call[Main] = Idle
  /\ mpc' = "signal"
  /\ UNCHANGED <<mi, threadVars, signalVars, arenaVars, call, historyVars>>

(* The first loop: set the flag, then wake the worker. *)
SetShutdown ==
  /\ mpc = "signal" /\ Present(mi)
  /\ shutdown' = [shutdown EXCEPT ![mi] = TRUE]
  /\ mpc' = "wake"
  /\ UNCHANGED <<mi, threadVars, sem, ack, arenaVars, call, historyVars>>

(* Slip: the worker is told to stop and not woken. *)
WakeNobody ==
  /\ mpc = "wake"
  /\ Loop("signal", "await")
  /\ UNCHANGED <<threadVars, signalVars, arenaVars, call, historyVars>>

WakeToStop ==
  /\ mpc = "wake"
  /\ sem' = [sem EXCEPT ![mi] = @ + 1]
  /\ Loop("signal", "await")
  /\ UNCHANGED <<threadVars, shutdown, ack, arenaVars, call, historyVars>>

(* Slip: one acknowledgement is taken for all. *)
AwaitOneAck ==
  /\ mpc = "await" /\ Present(mi)
  /\ ack > 0
  /\ ack' = ack - 1
  /\ mpc' = "free" /\ mi' = 1
  /\ UNCHANGED <<threadVars, shutdown, sem, arenaVars, call, historyVars>>

(* The second loop: one sem_wait(&pool->ack_sem) per worker_t. *)
AwaitAck ==
  /\ mpc = "await" /\ Present(mi)
  /\ ack > 0
  /\ ack' = ack - 1
  /\ Loop("await", "free")
  /\ UNCHANGED <<threadVars, shutdown, sem, arenaVars, call, historyVars>>

(* The third loop: arena_destroy(), which needs the arena's mutex, ...     *)
DestroyArena ==
  /\ mpc = "free" /\ Present(mi)
  /\ arena[mi] = "live"
  /\ arena' = [arena EXCEPT ![mi] = "freed"]
  /\ queue' = [queue EXCEPT ![mi] = << >>]
  /\ current' = [current EXCEPT ![mi] = 1]
  /\ pending' = [pending EXCEPT ![mi] = << >>]
  /\ mpc' = "join"
  /\ UNCHANGED <<mi, threadVars, signalVars, call, fresh, active, ran, posted, snap>>

(* ... after local_queues->is_reset is read through a null local_queues,   *)
DestroyNullArena ==
  /\ mpc = "free" /\ Present(mi)
  /\ arena[mi] = "none"
  /\ mpc' = "crashed"
  /\ UNCHANGED <<mi, threadVars, signalVars, arenaVars, call, historyVars>>

(* ... then pthread_join(), sem_destroy() and heap_free() of the worker.   *)
Join ==
  /\ mpc = "join"
  /\ HasThread(mi) => wpc[mi] = "done"
  /\ Loop("free", "closed")
  /\ UNCHANGED <<threadVars, signalVars, arenaVars, call, historyVars>>

(* if (!pool->workers[i]) continue, in each of the three loops *)
SkipMissing ==
  /\ mpc \in {"signal", "await", "free"} /\ ~Present(mi)
  /\ Loop(mpc, CASE mpc = "signal" -> "await"
                 [] mpc = "await" -> "free"
                 [] mpc = "free" -> "closed")
  /\ UNCHANGED <<threadVars, signalVars, arenaVars, call, historyVars>>

DestroyStep ==
  \/ SetShutdown
  \/ WakeToStop
  \/ AwaitAck
  \/ DestroyArena
  \/ DestroyNullArena
  \/ Join
  \/ SkipMissing

Terminating == mpc = "closed" /\ UNCHANGED vars

-----------------------------------------------------------------------------
Init ==
  /\ mpc = "init"
  /\ mi = 1
  /\ wpc = [w \in Workers |-> "null"]
  /\ shutdown = [w \in Workers |-> FALSE]
  /\ sem = [w \in Workers |-> 0]
  /\ ack = 0
  /\ arena = [w \in Workers |-> "none"]
  /\ queue = [w \in Workers |-> << >>]
  /\ current = [w \in Workers |-> 1]
  /\ rb = [w \in Workers |-> 1]
  /\ ro = [w \in Workers |-> 0]
  /\ call = [a \in Callers |-> Idle]
  /\ fresh = Tasks
  /\ pending = [w \in Workers |-> << >>]
  /\ active = [w \in Workers |-> NoTask]
  /\ ran = [t \in Tasks |-> << >>]
  /\ posted = {}
  /\ snap = [w \in Workers |-> {}]

Submit ==
  \E a \in Callers, w \in Workers, t \in Tasks :
     \/ \E notify \in BOOLEAN : Enqueue(a, w, t, notify)
     \/ EnqueueRefused(a, w, t)

Next ==
  \/ InitWorker
  \/ StartDestroy
  \/ Submit
  \/ \E a \in Callers : EnqueueStep(a)
  \/ \E w \in Workers : WorkerStep(w)
  \/ DestroyStep
  \/ Terminating

(* The operating system schedules every thread, and callbacks return; the  *)
(* owner need never submit a task nor destroy the pool.                    *)
Fairness ==
  /\ \A a \in Callers : WF_vars(EnqueueStep(a))
  /\ \A w \in Workers : WF_vars(WorkerStep(w))
  /\ WF_vars(InitWorker)
  /\ WF_vars(DestroyStep)

Spec == Init /\ [][Next]_vars
FairSpec == Spec /\ Fairness

-----------------------------------------------------------------------------
(* Properties.                                                             *)

OwnerSteps == {"init", "run", "signal", "wake", "await", "free", "join",
               "closed", "crashed"}
WorkerSteps == {"null", "nothread", "top", "wait", "woken", "scan", "on_load",
                "execute", "executing", "on_exit", "advance", "next", "reset",
                "ack", "done"}
Calls == [step : CallSteps, w : {Main} \cup Workers, t : Tasks \cup {NoTask},
          notify : BOOLEAN, b : Nat, i : Nat]
Callbacks == {"on_load", "execute", "on_exit"}

(* The type of every variable. *)
TypeOK ==
  /\ mpc \in OwnerSteps
  /\ mi \in Workers
  /\ wpc \in [Workers -> WorkerSteps]
  /\ shutdown \in [Workers -> BOOLEAN]
  /\ sem \in [Workers -> Nat]
  /\ ack \in Nat
  /\ arena \in [Workers -> {"none", "live", "locked", "freed"}]
  /\ queue \in [Workers -> Seq(Blocks)]
  /\ current \in [Workers -> Nat \ {0}]
  /\ rb \in [Workers -> Nat \ {0}]
  /\ ro \in [Workers -> Nat]
  /\ call \in [Callers -> Calls]
  /\ fresh \subseteq Tasks
  /\ pending \in [Workers -> Seq(Tasks)]
  /\ active \in [Workers -> Tasks \cup {NoTask}]
  /\ ran \in [Tasks -> Seq(Callbacks)]
  /\ posted \subseteq Tasks
  /\ snap \in [Workers -> SUBSET Tasks]

(* The acknowledgements destroy_workers() has taken from ack_sem. *)
Taken ==
  CASE mpc \in {"init", "run", "signal", "wake"} -> {}
    [] mpc = "await" -> {w \in Workers : w < mi /\ Present(w)}
    [] OTHER -> {w \in Workers : Present(w)}

(* Every ack of a worker thread (reactor.c:97) is either still in ack_sem  *)
(* or was waited for (reactor.c:613-616): none is lost or counted twice.   *)
AckAccounting ==
  ack + Cardinality(Taken) = Cardinality({w \in Workers : wpc[w] = "done"})

(* destroy_workers() frees a queue (reactor.c:628) only when the thread    *)
(* that scans it has ended and no enqueue(), the callbacks' ones included, *)
(* still writes to it or posts its semaphore.                              *)
NoUseAfterDestroy ==
  \A w \in Workers : arena[w] = "freed" =>
    /\ wpc[w] = "done"
    /\ \A a \in Callers : call[a] # Idle => call[a].w # w

(* What the two above rest on; IInv is their inductive strengthening.      *)
OwnerInOrder ==
  /\ mpc = "init" => \A w \in mi .. N : wpc[w] = "null"
  /\ mpc \in {"wake", "join"} => Present(mi)
  /\ mpc = "wake" => shutdown[mi]
  /\ \A w \in Workers : arena[w] = "freed" =>
       mpc \in {"free", "join", "closed", "crashed"}

(* A queue the worker and the callers may use: current is one of its       *)
(* blocks, and the blocks after current are empty.                         *)
QueueInOrder(w) ==
  /\ current[w] \in DOMAIN queue[w]
  /\ \A b \in DOMAIN queue[w] : b > current[w] => queue[w][b].off = 0

Usable(w) == arena[w] \in {"live", "locked"}

QueuesInOrder ==
  \A w \in Workers :
    /\ Usable(w) => QueueInOrder(w)
    /\ arena[w] # "none" => Present(w)
    /\ arena[w] = "none" => current[w] = 1
    /\ arena[w] = "none" /\ (sem[w] > 0 \/ wpc[w] = "woken") => shutdown[w]

(* An enqueue() in flight belongs to a caller that is still running, its   *)
(* worker's queue is there, and so is the cell it writes to.               *)
CallsInOrder ==
  \A a \in Callers :
    /\ call[a].step = "idle" => call[a] = Idle
    /\ call[a].step # "idle" =>
         /\ call[a].w \in Workers /\ Usable(call[a].w)
         /\ call[a].t \in Tasks
         /\ IF a = Main THEN mpc = "run" ELSE wpc[a] = "executing"
    /\ call[a].step \in {"copy", "copying", "torn", "post"} =>
         call[a].b \in DOMAIN queue[call[a].w] /\ call[a].i \in 1 .. BlockCap

InCell == {"on_load", "execute", "executing", "on_exit", "advance"}
Scanning == InCell \cup {"scan", "next"}

(* The scan, which takes no lock, stays inside the queue: its block exists *)
(* and has not been freed, and a task it reads is one that was handed out. *)
ScanInBounds ==
  \A w \in Workers :
    /\ wpc[w] \in Scanning => Usable(w) /\ rb[w] \in DOMAIN queue[w]
    /\ wpc[w] \in InCell => ro[w] < queue[w][rb[w]].off

IInv ==
  /\ TypeOK
  /\ AckAccounting
  /\ OwnerInOrder
  /\ QueuesInOrder
  /\ CallsInOrder
  /\ ScanInBounds

(* Each enqueue() in flight is its task's only one, and a task is fresh    *)
(* until arena_alloc() has returned.                                       *)
CallsApart ==
  /\ \A a, b \in Callers : call[a] # Idle /\ call[a].t = call[b].t => a = b
  /\ \A a \in Callers : call[a] # Idle => (call[a].step = "alloc" <=> call[a].t \in fresh)

(* Only an accepted task waits, and in the queue its enqueue() put it in.  *)
WaitsWhereSent ==
  /\ \A w \in Workers : ~Usable(w) => pending[w] = << >>
  /\ \A w \in Workers : \A k \in DOMAIN pending[w] : pending[w][k] \notin fresh
  /\ \A w \in Workers, a \in Callers : \A k \in DOMAIN pending[w] :
       call[a] # Idle /\ call[a].t = pending[w][k] => call[a].w = w
  /\ posted \cap fresh = {}

(* A worker that has yet to sleep, or sleeps, will be woken for a task     *)
(* whose enqueue() has notified it.                                        *)
WakeUpsCount ==
  \A w \in Workers : wpc[w] \in {"top", "wait"} /\ sem[w] = 0 =>
    \A k \in DOMAIN pending[w] : pending[w][k] \notin posted

BlocksOf(w) == DOMAIN queue[w]
Offsets == 1 .. BlockCap

(* A task has a cell of a block that no arena_reset() has marked, from     *)
(* arena_alloc() on.                                                       *)
Owns(t, w, b, i) ==
  /\ t \in Tasks /\ w \in Workers /\ b \in BlocksOf(w) /\ i \in Offsets
  /\ ~queue[w][b].wiped
  /\ \/ t \in queue[w][b].data[i]
     \/ \E a \in Callers : /\ call[a].step \in {"copy", "copying"} /\ call[a].t = t
                           /\ call[a].w = w /\ call[a].b = b /\ call[a].i = i

(* Each of these cells is one task's, and a task has one of them: what a   *)
(* reset marks is never scanned again, only blocks that it has marked are  *)
(* filled a second time, and only in them do copies meet.                  *)
CellsApart ==
  /\ \A w \in Workers : \A b \in BlocksOf(w) :
       ~queue[w][b].wiped => current[w] = Len(queue[w])
  /\ \A w \in Workers : \A b \in BlocksOf(w), i \in Offsets, t, u \in Tasks :
       Owns(t, w, b, i) /\ Owns(u, w, b, i) => t = u
  /\ \A v, w \in Workers : \A b \in BlocksOf(v), c \in BlocksOf(w), i, j \in Offsets, t \in Tasks :
       Owns(t, v, b, i) /\ Owns(t, w, c, j) => v = w /\ b = c /\ i = j
  /\ \A w \in Workers : \A b \in BlocksOf(w), i \in Offsets, t \in Tasks :
       Owns(t, w, b, i) => i <= queue[w][b].off /\ t \notin fresh
  /\ \A a \in Callers : call[a].step = "torn" => queue[call[a].w][call[a].b].wiped

Before(b, i, c, j) == b < c \/ (b = c /\ i < j)

(* The scan has yet to come to a cell. *)
Ahead(w, b, i) ==
  /\ wpc[w] # "reset"
  /\ wpc[w] \in Scanning =>
       Before(rb[w], IF wpc[w] \in InCell THEN ro[w] + 1 ELSE ro[w], b, i)

(* The scan is in a cell. *)
Inside(w, b, i) == wpc[w] \in InCell /\ b = rb[w] /\ i = ro[w] + 1

Rank(c) == CASE c = "on_load" -> 1 [] c = "execute" -> 2 [] c = "on_exit" -> 3

(* The callbacks called in a cell so far rank below this. *)
Limit(w) == CASE wpc[w] = "on_load" -> 1 [] wpc[w] = "execute" -> 2
              [] wpc[w] = "advance" -> 4 [] OTHER -> 3

(* Before a task's cell is reached none of its callbacks has been called,  *)
(* and then they are called as the scan goes through the cell.             *)
CallbacksInOrder ==
  /\ \A w \in Workers : wpc[w] \in InCell => ~queue[w][rb[w]].wiped
  /\ \A w \in Workers : active[w] # NoTask =>
       wpc[w] \in InCell /\ Owns(active[w], w, rb[w], ro[w] + 1)
  /\ \A w \in Workers : \A b \in BlocksOf(w), i \in Offsets, t \in Tasks :
       Owns(t, w, b, i) =>
         /\ Ahead(w, b, i) => ran[t] = << >>
         /\ Inside(w, b, i) =>
              /\ active[w] = NoTask => ran[t] = << >>
              /\ \A k \in DOMAIN ran[t] : Rank(ran[t][k]) < Limit(w)
  /\ \A t \in fresh : ran[t] = << >>

(* Whatever is torn, reset or reused, the callbacks of a task are called   *)
(* at most once each, and in the order on_load, execute, on_exit           *)
(* (reactor.c:64-79).                                                      *)
InOrderAtMostOnce ==
  \A t \in Tasks :
    \A j, k \in DOMAIN ran[t] : j < k => Rank(ran[t][j]) < Rank(ran[t][k])

(* A task that may still start waits, in the order of the cells.           *)
PendingInOrder ==
  /\ \A w \in Workers : \A k, l \in DOMAIN pending[w] :
       /\ pending[w][k] = pending[w][l] => k = l
       /\ pending[w][k] # active[w]
  /\ \A w \in Workers : \A b \in BlocksOf(w), i \in Offsets, t \in Tasks :
       /\ Owns(t, w, b, i)
       /\ Ahead(w, b, i) \/ (Inside(w, b, i) /\ active[w] = NoTask)
       => \E k \in DOMAIN pending[w] : pending[w][k] = t
  /\ \A w \in Workers : \A b, c \in BlocksOf(w), i, j \in Offsets, k, l \in DOMAIN pending[w] :
       /\ Owns(pending[w][k], w, b, i) /\ Owns(pending[w][l], w, c, j)
       /\ Before(b, i, c, j)
       => k < l

(* The third loop has left behind no queue that could be used.             *)
DestroyedInOrder ==
  \A w \in Workers :
    mpc = "closed" \/ (mpc \in {"free", "join"} /\ w < mi) \/ (mpc = "join" /\ w = mi)
      => ~Usable(w)

AllCalled == <<"on_load", "execute", "on_exit">>

(* Cell i of block b holds a task that a wake-up has found, and its        *)
(* callbacks are called as far as the scan is.                             *)
Found(w, t, b, i) ==
  /\ b \in BlocksOf(w) /\ i \in Offsets
  /\ ~queue[w][b].wiped /\ queue[w][b].data[i] = {t} /\ i <= queue[w][b].off
  /\ b < rb[w] \/ (b = rb[w] /\ i <= ro[w]) => ran[t] = AllCalled
  /\ wpc[w] = "next" /\ b = rb[w] => i <= ro[w]
  /\ wpc[w] = "reset" => b < rb[w]
  /\ Inside(w, b, i) => ran[t] = SubSeq(AllCalled, 1, Limit(w) - 1)

SnapshotInOrder ==
  \A w \in Workers : \A t \in snap[w] :
    /\ wpc[w] \in Scanning \cup {"reset"}
    /\ \E b \in BlocksOf(w), i \in Offsets : Found(w, t, b, i)

TaskInv ==
  /\ IInv
  /\ CallsApart /\ WaitsWhereSent /\ WakeUpsCount
  /\ CellsApart /\ CallbacksInOrder /\ InOrderAtMostOnce
  /\ PendingInOrder /\ DestroyedInOrder
  /\ SnapshotInOrder

(* A worker never throws its queue away (reactor.c:94) before it has run,  *)
(* callbacks and all, every task that was copied into a block still in use *)
(* when it woke up, whoever enqueues while it scans.                       *)
SnapshotRuns ==
  \A w \in Workers : wpc[w] = "reset" =>
    \A t \in snap[w] : ran[t] = AllCalled

(* No lost wake-up: a worker that sleeps on an empty semaphore has no task *)
(* in its queue whose enqueue() has notified it (reactor.c:567-569).       *)
NoStrandedTask ==
  \A w \in Workers : (wpc[w] = "wait" /\ sem[w] = 0) =>
    \A k \in DOMAIN pending[w] : pending[w][k] \notin posted

(* The pool keeps the promises of TaskPool: its state, seen from outside.  *)
Abstract == INSTANCE TaskPool WITH closed <- mpc = "closed"
KeepsPromises == Abstract!PoolSpec

(* No failure has left behind what keeps the pool from ending: a worker_t  *)
(* without a thread, which gives no ack, a queue whose mutex a failed      *)
(* malloc() has kept (allocator.c:108-111), or a worker_t without a queue, *)
(* which is read through a null pointer (reactor.c:624).                   *)
Whole ==
  \A w \in Workers :
    /\ wpc[w] # "nothread"
    /\ arena[w] # "locked"
    /\ Present(w) => arena[w] # "none"

(* Once the owner calls destroy_workers() it comes back, all threads       *)
(* joined, unless one of these three failures is there, and then it never  *)
(* does: the life cycle reactor.h:30-43 draws, as far as it goes.          *)
ShutdownCompletes ==
  /\ mpc = "signal" ~> (mpc = "closed" \/ ~Whole)
  /\ [](mpc = "closed" => Whole)

InQueue(t, w) == \E k \in DOMAIN pending[w] : pending[w][k] = t

(* Worker w will never come to its queue: it has no thread, or waits for   *)
(* the mutex of a queue, its own or that a callback enqueues to.           *)
Held(w) ==
  \/ wpc[w] = "nothread"
  \/ arena[w] = "locked"
  \/ Allocating(w) /\ arena[call[w].w] = "locked"

(* A task whose enqueue() has posted the semaphore does not stay queued    *)
(* for ever: its worker runs it, or drops it at a reset, or it goes with   *)
(* its queue at the shutdown (reactor.c:40-94, 567-569, 628), unless its   *)
(* worker is held, or the shutdown is one that does not complete.          *)
PostedTaskLeavesQueue ==
  \A w \in Workers, t \in Tasks :
    t \in posted /\ InQueue(t, w)
      ~> ~InQueue(t, w) \/ Held(w) \/ (shutdown[w] /\ ~Whole)

(* reactor.c:625-627 says the queue "MUST run arena_reset() [...] When all *)
(* done": a reset drops no task whose enqueue() has notified the worker.   *)
ResetWhenAllDone ==
  [][\A w \in Workers :
       Reset(w) => \A k \in DOMAIN pending[w] : pending[w][k] \notin posted]_vars
=============================================================================
