--------------------------- MODULE ReactorProofs ---------------------------
(***************************************************************************)
(* Proofs about Reactor, for any number of workers and tasks, any block    *)
(* size and any combination of faults, in four layers:                     *)
(*   IInv, which the memory safety of destroy_workers() follows from;      *)
(*   Accounted: what each worker still owes its callers, and that a worker *)
(*     that sleeps owes no task it was notified of;                        *)
(*   InOrder: a task has one cell, the scan passes it once, so that its    *)
(*     callbacks come once each and in order; Ordered adds the order of    *)
(*     the tasks among each other, and the refinement of TaskPool;         *)
(*   SnapshotInOrder: what a wake-up finds runs before it is reset.        *)
(***************************************************************************)
EXTENDS Reactor, FiniteSetTheorems, SequenceTheorems, TLAPS

USE NAssumption, BlockCapAssumption, TasksAssumption, SpawnsAssumption

-----------------------------------------------------------------------------
(* The operators on blocks and queues return blocks and queues.            *)

LEMMA ZeroedType == Zeroed \in [1 .. BlockCap -> Cells]
BY DEF Zeroed, ZeroCell, Cells

LEMMA NewBlockType == NewBlock \in Blocks /\ NewBlock.off = 0
BY ZeroedType DEF NewBlock, Blocks

LEMMA ShreddedBlockType == ShreddedBlock \in Blocks /\ ShreddedBlock.off = 0
BY ZeroedType DEF ShreddedBlock, Blocks

LEMMA RewoundType ==
  ASSUME NEW b \in Blocks
  PROVE  /\ Rewound(b) \in Blocks
         /\ Rewound(b).off = 0
         /\ Fits(Rewound(b))
BY DEF Rewound, Blocks, Fits

LEMMA PutCellType ==
  ASSUME NEW b \in Blocks, NEW i, NEW v \in Cells
  PROVE  PutCell(b, i, v) \in Blocks /\ PutCell(b, i, v).off = b.off
BY DEF PutCell, Blocks

LEMMA BumpType ==
  ASSUME NEW b \in Blocks, Fits(b)
  PROVE  /\ Bump(b) \in Blocks
         /\ Bump(b).off = b.off + 1
         /\ b.off + 1 \in 1 .. BlockCap
BY DEF Bump, Fits, Blocks

LEMMA AfterType ==
  ASSUME NEW s \in Seq(Tasks), NEW t
  PROVE  After(s, t) \in Seq(Tasks)
<1>1. CASE \E k \in DOMAIN s : s[k] = t
  <2> DEFINE j == CHOOSE k \in DOMAIN s : s[k] = t
  <2>1. j \in 1 .. Len(s)
    BY <1>1
  <2>2. SubSeq(s, 1 + j, Len(s)) \in Seq(Tasks)
    <3>1. 1 + j \in Int /\ Len(s) \in Int
      BY <2>1
    <3>2. \A i \in 1 + j .. Len(s) : s[i] \in Tasks
      BY <2>1
    <3> HIDE DEF j
    <3> QED
      BY <3>1, <3>2, SubSeqProperties
  <2> QED
    BY <1>1, <2>2 DEF After
<1>2. CASE ~ \E k \in DOMAIN s : s[k] = t
  BY <1>2 DEF After
<1> QED
  BY <1>1, <1>2

(* The blocks of a queue. *)
LEMMA OffsetType ==
  ASSUME NEW q \in Seq(Blocks), NEW k \in DOMAIN q
  PROVE  q[k] \in Blocks /\ q[k].off \in Nat /\ k \in Nat \ {0}
<1>1. q[k] \in Blocks /\ k \in Nat \ {0}
  OBVIOUS
<1>2. q[k].off \in Nat
  BY <1>1 DEF Blocks
<1> QED
  BY <1>1, <1>2

(* A queue in which one block is replaced. *)
LEMMA ReplaceType ==
  ASSUME NEW q \in Seq(Blocks), NEW b \in DOMAIN q, NEW e \in Blocks
  PROVE  /\ [q EXCEPT ![b] = e] \in Seq(Blocks)
         /\ Len([q EXCEPT ![b] = e]) = Len(q)
         /\ DOMAIN [q EXCEPT ![b] = e] = DOMAIN q
BY ExceptSeq

LEMMA ShredType ==
  ASSUME NEW q \in Seq(Blocks)
  PROVE  /\ Shred(q) \in Seq(Blocks)
         /\ DOMAIN Shred(q) = DOMAIN q
         /\ \A b \in DOMAIN q : Shred(q)[b].off = 0
<1>1. q \in [1 .. Len(q) -> Blocks] /\ Len(q) \in Nat
  OBVIOUS
<1>2. Shred(q) \in [1 .. Len(q) -> Blocks]
  BY <1>1, ShreddedBlockType DEF Shred
<1> QED
  BY <1>1, <1>2, ShreddedBlockType, SeqDef DEF Shred

-----------------------------------------------------------------------------
(* IInv without the accounting of acknowledgements. *)
Shape ==
  /\ TypeOK
  /\ OwnerInOrder
  /\ QueuesInOrder
  /\ CallsInOrder
  /\ ScanInBounds

(* Nothing is freed before every thread has ended. *)
FreedDone ==
  (\E w \in Workers : arena[w] = "freed") =>
     \A w \in Workers : wpc[w] \in {"null", "done"}

(* What every step of a worker does to the control state. *)
Running == WorkerSteps \ {"null", "nothread", "done"}

LEMMA WorkerFrame ==
  ASSUME TypeOK, NEW w \in Workers, WorkerStep(w)
  PROVE  /\ UNCHANGED <<mpc, mi, shutdown, arena, fresh, posted>>
         /\ wpc[w] \in Running /\ wpc'[w] \in Running \cup {"done"}
         /\ wpc' = [wpc EXCEPT ![w] = wpc'[w]]
         /\ wpc[w] = "executing" => call[w] = Idle
         /\ wpc'[w] = "executing" => wpc[w] = "execute"
         /\ ack' = (IF wpc'[w] = "done" THEN ack + 1 ELSE ack)
<1> USE DEF TypeOK, Running, WorkerSteps, Go, At, ownerVars, signalVars,
        arenaVars, historyVars, ThreadOnly
<1>1. CASE Top(w)
  BY <1>1 DEF Top
<1>2. CASE SemWait(w)
  BY <1>2 DEF SemWait
<1>3. CASE WokenToStop(w)
  BY <1>3 DEF WokenToStop
<1>4. CASE StartScan(w)
  BY <1>4 DEF StartScan
<1>5. CASE SkipWiped(w) \/ NextBlock(w)
  BY <1>5 DEF SkipWiped, NextBlock, ToNextBlock
<1>6. CASE TakeTask(w)
  BY <1>6 DEF TakeTask
<1>7. CASE OnLoad(w)
  BY <1>7 DEF OnLoad, Callback
<1>8. CASE Execute(w)
  BY <1>8 DEF Execute, Callback
<1>9. CASE Return(w)
  BY <1>9 DEF Return
<1>10. CASE OnExit(w)
  BY <1>10 DEF OnExit, Callback
<1>11. CASE Advance(w)
  BY <1>11 DEF Advance
<1>12. CASE Reset(w)
  BY <1>12 DEF Reset
<1>13. CASE Ack(w)
  BY <1>13 DEF Ack
<1> QED
  BY <1>1, <1>2, <1>3, <1>4, <1>5, <1>6, <1>7, <1>8, <1>9, <1>10, <1>11,
     <1>12, <1>13 DEF WorkerStep

(* A worker's step creates and removes no worker_t. *)
LEMMA WorkerPresent ==
  ASSUME TypeOK, NEW w \in Workers, WorkerStep(w)
  PROVE  \A v \in Workers : /\ Present(v)' <=> Present(v)
                            /\ (wpc[v] = "null")' <=> (wpc[v] = "null")
<1>1. /\ wpc[w] \in Running /\ wpc'[w] \in Running \cup {"done"}
      /\ wpc' = [wpc EXCEPT ![w] = wpc'[w]]
  BY WorkerFrame
<1> QED
  BY <1>1 DEF Present, TypeOK, Running

LEMMA WorkerOwner ==
  ASSUME Shape, NEW w \in Workers, WorkerStep(w)
  PROVE  OwnerInOrder'
<1>1. UNCHANGED <<mpc, mi, shutdown, arena>>
  BY WorkerFrame DEF Shape
<1>2. \A v \in Workers : /\ Present(v)' <=> Present(v)
                         /\ (wpc[v] = "null")' <=> (wpc[v] = "null")
  BY WorkerPresent DEF Shape
<1>3. mi \in Workers /\ mi .. N \subseteq Workers
  BY DEF Shape, TypeOK, Workers
<1> QED
  BY <1>1, <1>2, <1>3 DEF Shape, OwnerInOrder

(* Calls in flight of which at most the copy has been disturbed. *)
SameCalls ==
  \A a \in Callers :
    \/ call'[a] = call[a]
    \/ /\ call[a].step = "copying" /\ call'[a].step = "torn"
       /\ call'[a].w = call[a].w /\ call'[a].t = call[a].t
       /\ call'[a].b = call[a].b /\ call'[a].i = call[a].i

LEMMA WorkerCalls ==
  ASSUME Shape, NEW w \in Workers, WorkerStep(w), SameCalls,
         \A v \in Workers : DOMAIN queue'[v] = DOMAIN queue[v]
  PROVE  CallsInOrder'
<1>1. /\ UNCHANGED <<mpc, arena>>
      /\ wpc' = [wpc EXCEPT ![w] = wpc'[w]]
      /\ wpc[w] = "executing" => call[w] = Idle
  BY WorkerFrame DEF Shape
<1>2. \A v \in Workers :
         call[v].step # "idle" /\ wpc[v] = "executing" => wpc'[v] = "executing"
  BY <1>1 DEF Shape, TypeOK, Idle
<1> QED
  BY <1>1, <1>2 DEF Shape, CallsInOrder, SameCalls, Usable, Callers

(* A queue nobody can use is never scanned: its semaphore is posted only   *)
(* by destroy_workers().                                                   *)
LEMMA WorkerWoken ==
  ASSUME Shape, NEW w \in Workers, WorkerStep(w)
  PROVE  \A v \in Workers :
           (arena[v] = "none" /\ (sem[v] > 0 \/ wpc[v] = "woken") => shutdown[v])'
<1>1. /\ UNCHANGED <<shutdown, arena>>
      /\ wpc' = [wpc EXCEPT ![w] = wpc'[w]]
  BY WorkerFrame DEF Shape
<1>2. /\ sem' = sem \/ (sem[w] > 0 /\ sem' = [sem EXCEPT ![w] = @ - 1])
      /\ wpc'[w] = "woken" => sem[w] > 0
  BY DEF WorkerStep, Top, SemWait, WokenToStop, StartScan, SkipWiped, NextBlock,
     ToNextBlock, TakeTask, OnLoad, Execute, Return, OnExit, Callback, Advance,
     Reset, Ack, ThreadOnly, signalVars, Go, At, Shape, TypeOK
<1>3. \A v \in Workers : /\ sem'[v] > 0 => sem[v] > 0
                         /\ wpc'[v] = "woken" => wpc[v] = "woken" \/ sem[v] > 0
  BY <1>1, <1>2 DEF Shape, TypeOK
<1> QED
  BY <1>1, <1>3 DEF Shape, QueuesInOrder

(* A task that a callback is called for is one that was enqueued. *)
LEMMA CellType ==
  ASSUME Shape, NEW w \in Workers, wpc[w] \in InCell
  PROVE  Cell(w) \subseteq Tasks \cup {NoTask}
<1>1. rb[w] \in DOMAIN queue[w] /\ ro[w] < queue[w][rb[w]].off
  BY DEF Shape, ScanInBounds, Scanning
<1>2. queue[w][rb[w]] \in Blocks /\ ro[w] \in Nat
  BY <1>1 DEF Shape, TypeOK
<1>3. ro[w] + 1 \in 1 .. BlockCap
  BY <1>1, <1>2 DEF Blocks
<1>4. Cell(w) \in Cells
  BY <1>2, <1>3 DEF Cell, Blocks
<1> QED
  BY <1>4 DEF Cells

(* What the steps of a worker other than Reset do to the data. *)
LEMMA WorkerData ==
  ASSUME Shape, NEW w \in Workers, WorkerStep(w), ~Reset(w)
  PROVE  /\ UNCHANGED <<queue, current, call>>
         /\ rb' \in {rb, [rb EXCEPT ![w] = 1], [rb EXCEPT ![w] = @ + 1]}
         /\ ro' \in {ro, [ro EXCEPT ![w] = 0], [ro EXCEPT ![w] = @ + 1]}
         /\ sem' \in {sem, [sem EXCEPT ![w] = @ - 1]}
         /\ sem' # sem => sem[w] > 0
         /\ snap' \in {snap, [snap EXCEPT ![w] = Visible(w)]}
         /\ \/ UNCHANGED <<ran, pending>> /\ active' \in {active, [active EXCEPT ![w] = NoTask]}
            \/ \E t \in Tasks, c \in Callbacks :
                 /\ ran' = [ran EXCEPT ![t] = Append(@, c)]
                 /\ active' = [active EXCEPT ![w] = t]
                 /\ pending' = [pending EXCEPT ![w] = After(@, t)]
<1> USE DEF Go, At, ThreadOnly, signalVars, arenaVars, historyVars
<1>1. CASE \/ Top(w) \/ SemWait(w) \/ WokenToStop(w) \/ StartScan(w) \/ Advance(w)
           \/ TakeTask(w) \/ Return(w) \/ Ack(w) \/ SkipWiped(w) \/ NextBlock(w)
  BY <1>1 DEF Top, SemWait, WokenToStop, StartScan, Advance, TakeTask, Return,
     Ack, SkipWiped, NextBlock, ToNextBlock
<1>2. CASE OnLoad(w) \/ Execute(w) \/ OnExit(w)
  <2>1. \E t \in Cell(w), c \in Callbacks : Callback(w, t, c)
    BY <1>2 DEF OnLoad, Execute, OnExit, Callbacks
  <2>2. Cell(w) \subseteq Tasks \cup {NoTask}
    BY <1>2, CellType DEF OnLoad, Execute, OnExit, InCell
  <2> QED
    BY <2>1, <2>2 DEF Callback
<1> QED
  BY <1>1, <1>2 DEF WorkerStep

LEMMA WorkerType ==
  ASSUME Shape, NEW w \in Workers, WorkerStep(w), ~Reset(w)
  PROVE  TypeOK'
<1>1. /\ UNCHANGED <<mpc, mi, shutdown, arena, fresh, posted>>
      /\ wpc'[w] \in Running \cup {"done"}
      /\ wpc' = [wpc EXCEPT ![w] = wpc'[w]]
      /\ ack' = (IF wpc'[w] = "done" THEN ack + 1 ELSE ack)
  BY WorkerFrame DEF Shape
<1>2. UNCHANGED <<queue, current, call>>
  BY WorkerData
<1>3. TypeOK
  BY DEF Shape
<1>4. wpc' \in [Workers -> WorkerSteps] /\ ack' \in Nat
  <2>1. wpc \in [Workers -> WorkerSteps] /\ ack \in Nat
    BY <1>3 DEF TypeOK
  <2>2. wpc'[w] \in WorkerSteps
    BY <1>1 DEF Running, WorkerSteps
  <2> QED
    BY <1>1, <2>1, <2>2
<1>5. rb' \in [Workers -> Nat \ {0}]
  <2>1. rb' \in {rb, [rb EXCEPT ![w] = 1], [rb EXCEPT ![w] = @ + 1]}
    BY WorkerData
  <2>2. rb \in [Workers -> Nat \ {0}]
    BY <1>3 DEF TypeOK
  <2> QED
    BY <2>1, <2>2
<1>6. ro' \in [Workers -> Nat]
  <2>1. ro' \in {ro, [ro EXCEPT ![w] = 0], [ro EXCEPT ![w] = @ + 1]}
    BY WorkerData
  <2>2. ro \in [Workers -> Nat]
    BY <1>3 DEF TypeOK
  <2> QED
    BY <2>1, <2>2
<1>7. sem' \in [Workers -> Nat]
  <2>1. sem' \in {sem, [sem EXCEPT ![w] = @ - 1]} /\ (sem' # sem => sem[w] > 0)
    BY WorkerData
  <2>2. sem \in [Workers -> Nat]
    BY <1>3 DEF TypeOK
  <2> QED
    BY <2>1, <2>2
<1>8. snap' \in [Workers -> SUBSET Tasks]
  <2>1. snap' \in {snap, [snap EXCEPT ![w] = Visible(w)]}
    BY WorkerData
  <2>2. Visible(w) \in SUBSET Tasks
    BY DEF Visible
  <2> QED
    BY <1>3, <2>1, <2>2 DEF TypeOK
<1>9. /\ ran' \in [Tasks -> Seq(Callbacks)]
      /\ active' \in [Workers -> Tasks \cup {NoTask}]
      /\ pending' \in [Workers -> Seq(Tasks)]
  <2>1. CASE UNCHANGED <<ran, pending>> /\ active' \in {active, [active EXCEPT ![w] = NoTask]}
    BY <1>3, <2>1 DEF TypeOK
  <2>2. ASSUME NEW t \in Tasks, NEW c \in Callbacks,
               ran' = [ran EXCEPT ![t] = Append(@, c)],
               active' = [active EXCEPT ![w] = t],
               pending' = [pending EXCEPT ![w] = After(@, t)]
        PROVE  /\ ran' \in [Tasks -> Seq(Callbacks)]
               /\ active' \in [Workers -> Tasks \cup {NoTask}]
               /\ pending' \in [Workers -> Seq(Tasks)]
    <3>1. /\ pending \in [Workers -> Seq(Tasks)]
          /\ ran \in [Tasks -> Seq(Callbacks)]
          /\ active \in [Workers -> Tasks \cup {NoTask}]
      BY <1>3 DEF TypeOK
    <3>2. After(pending[w], t) \in Seq(Tasks)
      BY <3>1, AfterType
    <3>3. Append(ran[t], c) \in Seq(Callbacks)
      BY <3>1, AppendProperties
    <3> QED
      BY <2>2, <3>1, <3>2, <3>3
  <2>3. \/ UNCHANGED <<ran, pending>> /\ active' \in {active, [active EXCEPT ![w] = NoTask]}
        \/ \E t \in Tasks, c \in Callbacks :
             /\ ran' = [ran EXCEPT ![t] = Append(@, c)]
             /\ active' = [active EXCEPT ![w] = t]
             /\ pending' = [pending EXCEPT ![w] = After(@, t)]
    BY WorkerData
  <2> QED
    BY <2>1, <2>2, <2>3
<1> QED
  BY <1>1, <1>2, <1>3, <1>4, <1>5, <1>6, <1>7, <1>8, <1>9 DEF TypeOK

(* The steps of a worker that leave the queues alone. *)
LEMMA ScanShape ==
  ASSUME Shape, FreedDone, NEW w \in Workers, WorkerStep(w), ~Reset(w)
  PROVE  Shape'
<1>1. UNCHANGED <<queue, current, call>>
  BY WorkerData
<1>2. UNCHANGED arena
  BY WorkerFrame DEF Shape
<1>3. OwnerInOrder'
  BY WorkerOwner
<1>4. CallsInOrder'
  BY <1>1, WorkerCalls DEF SameCalls
<1>5. QueuesInOrder'
  <2>1. \A v \in Workers : Present(v)' <=> Present(v)
    BY WorkerPresent DEF Shape
  <2> QED
    BY <1>1, <1>2, <2>1, WorkerWoken DEF Shape, QueuesInOrder, QueueInOrder, Usable
<1>6. ScanInBounds'
  <2> USE DEF Scanning, InCell, Usable
  <2>1. /\ rb' \in [Workers -> Nat] /\ ro' \in [Workers -> Nat]
        /\ wpc' = [wpc EXCEPT ![w] = wpc'[w]]
        /\ wpc \in [Workers -> WorkerSteps]
        /\ rb \in [Workers -> Nat] /\ ro \in [Workers -> Nat]
        /\ queue \in [Workers -> Seq(Blocks)]
    BY WorkerType, WorkerFrame DEF Shape, TypeOK
  <2>2. \A v \in Workers \ {w} : wpc'[v] = wpc[v] /\ rb'[v] = rb[v] /\ ro'[v] = ro[v]
    <3>1. /\ rb' \in {rb, [rb EXCEPT ![w] = 1], [rb EXCEPT ![w] = @ + 1]}
          /\ ro' \in {ro, [ro EXCEPT ![w] = 0], [ro EXCEPT ![w] = @ + 1]}
      BY WorkerData
    <3> QED
      BY <2>1, <3>1
  <2>3. /\ wpc[w] \in Scanning => Usable(w) /\ rb[w] \in DOMAIN queue[w]
        /\ wpc[w] \in InCell => ro[w] < queue[w][rb[w]].off
    BY DEF Shape, ScanInBounds
  <2>4. /\ wpc'[w] \in Scanning => Usable(w) /\ rb'[w] \in DOMAIN queue[w]
        /\ wpc'[w] \in InCell => ro'[w] < queue[w][rb'[w]].off
    <3> USE DEF Go, At, ThreadOnly
    <3>1. CASE StartScan(w)
      <4>1. ~shutdown[w] /\ wpc[w] = "woken" /\ rb'[w] = 1 /\ wpc'[w] = "scan"
        BY <2>1, <3>1 DEF StartScan, Shape, TypeOK
      <4>2. arena[w] \in {"none", "live", "locked", "freed"} /\ current \in [Workers -> Nat \ {0}]
        BY DEF Shape, TypeOK
      <4>3. Usable(w) /\ QueueInOrder(w)
        BY <4>1, <4>2 DEF Shape, QueuesInOrder, FreedDone
      <4>4. rb'[w] \in DOMAIN queue[w]
        BY <2>1, <4>1, <4>2, <4>3 DEF QueueInOrder
      <4> QED
        BY <4>1, <4>3, <4>4
    <3>2. CASE SkipWiped(w) \/ NextBlock(w)
      <4>1. /\ wpc[w] \in Scanning
            /\ wpc'[w] = (IF HasNext(w) THEN "scan" ELSE "reset")
            /\ rb'[w] = rb[w] + 1
        BY <2>1, <3>2 DEF SkipWiped, NextBlock, ToNextBlock
      <4> QED
        BY <2>1, <2>3, <4>1 DEF HasNext
    <3>3. CASE TakeTask(w)
      BY <2>1, <2>3, <3>3 DEF TakeTask, Unread
    <3>4. CASE OnLoad(w) \/ Execute(w) \/ OnExit(w) \/ Return(w)
      BY <2>1, <2>3, <3>4 DEF OnLoad, Execute, OnExit, Return, Callback
    <3>5. CASE Advance(w)
      BY <2>1, <2>3, <3>5 DEF Advance
    <3>6. CASE Top(w) \/ SemWait(w) \/ WokenToStop(w) \/ Ack(w)
      BY <2>1, <3>6 DEF Top, SemWait, WokenToStop, Ack
    <3> QED
      BY <3>1, <3>2, <3>3, <3>4, <3>5, <3>6 DEF WorkerStep
  <2> QED
    BY <1>1, <1>2, <2>2, <2>4 DEF Shape, ScanInBounds
<1> QED
  BY <1>3, <1>4, <1>5, <1>6, WorkerType DEF Shape

LEMMA ResetShape ==
  ASSUME Shape, NEW w \in Workers, Reset(w)
  PROVE  Shape'
<1>1. WorkerStep(w) /\ TypeOK
  BY DEF WorkerStep, Shape
<1>2. /\ UNCHANGED <<mpc, mi, shutdown, arena, fresh, posted, ack, sem, active, ran>>
      /\ wpc[w] = "reset" /\ wpc' = [wpc EXCEPT ![w] = "top"]
      /\ arena[w] = "live"
  BY DEF Reset, Go, At, ownerVars, signalVars
<1>3. /\ queue' = [queue EXCEPT ![w] = Shred(queue[w])]
      /\ current' = [current EXCEPT ![w] = 1]
      /\ rb' = [rb EXCEPT ![w] = 1] /\ ro' = [ro EXCEPT ![w] = 0]
      /\ pending' = [pending EXCEPT ![w] = << >>]
      /\ snap' = [snap EXCEPT ![w] = {}]
  BY DEF Reset
<1>4. /\ queue \in [Workers -> Seq(Blocks)]
      /\ current \in [Workers -> Nat \ {0}]
      /\ call \in [Callers -> Calls]
  BY <1>1 DEF TypeOK
<1>5. \A a \in Callers : \/ call'[a] = call[a]
                         \/ call[a].step = "copying" /\ call'[a] = Tear(call[a])
  BY DEF Reset
<1>6. SameCalls /\ call' \in [Callers -> Calls]
  <2>1. \A c \in Calls : /\ Tear(c) \in Calls /\ Tear(c).step = "torn"
                         /\ Tear(c).w = c.w /\ Tear(c).t = c.t
                         /\ Tear(c).b = c.b /\ Tear(c).i = c.i
    BY DEF Tear, Calls, CallSteps
  <2>2. SameCalls
    BY <1>4, <1>5, <2>1 DEF SameCalls
  <2>3. \A a \in Callers : call'[a] \in Calls
    BY <1>4, <1>5, <2>1
  <2>4. \E f : call' = [a \in Callers |-> f[a]]
    <3>1. call' = [a \in Callers |->
                     [b \in Callers |-> IF call[b].w = w /\ call[b].step = "copying"
                                        THEN Tear(call[b]) ELSE call[b]][a]]
      BY DEF Reset
    <3> QED
      BY <3>1
  <2> QED
    BY <2>2, <2>3, <2>4
<1>7. TypeOK'
  <2>1. queue' \in [Workers -> Seq(Blocks)]
    BY <1>3, <1>4, ShredType
  <2>2. wpc' \in [Workers -> WorkerSteps]
    BY <1>1, <1>2 DEF TypeOK, WorkerSteps
  <2>3. current' \in [Workers -> Nat \ {0}] /\ rb' \in [Workers -> Nat \ {0}]
        /\ ro' \in [Workers -> Nat]
    BY <1>1, <1>3 DEF TypeOK
  <2>4. pending' \in [Workers -> Seq(Tasks)] /\ snap' \in [Workers -> SUBSET Tasks]
    <3>1. pending \in [Workers -> Seq(Tasks)] /\ snap \in [Workers -> SUBSET Tasks]
      BY <1>1 DEF TypeOK
    <3>2. << >> \in Seq(Tasks) /\ {} \in SUBSET Tasks
      OBVIOUS
    <3>3. pending' = [pending EXCEPT ![w] = << >>] /\ snap' = [snap EXCEPT ![w] = {}]
      BY DEF Reset
    <3> HIDE DEF Reset
    <3> QED
      BY ONLY <3>1, <3>2, <3>3
  <2> QED
    BY <1>1, <1>2, <1>6, <2>1, <2>2, <2>3, <2>4 DEF TypeOK
<1>8. OwnerInOrder'
  BY <1>1, WorkerOwner
<1>9. CallsInOrder'
  <2>1. \A v \in Workers : DOMAIN queue'[v] = DOMAIN queue[v]
    BY <1>3, <1>4, ShredType
  <2> QED
    BY <1>1, <1>6, <2>1, WorkerCalls
<1>10. QueuesInOrder'
  <2>1. \A v \in Workers : Present(v)' <=> Present(v)
    BY <1>1, WorkerPresent DEF Shape
  <2>2. QueueInOrder(w)'
    <3>1. 1 \in DOMAIN queue[w]
      BY <1>2, <1>4 DEF Shape, QueuesInOrder, QueueInOrder, Usable
    <3>2. /\ DOMAIN Shred(queue[w]) = DOMAIN queue[w]
          /\ \A b \in DOMAIN queue[w] : Shred(queue[w])[b].off = 0
      BY <1>4, ShredType
    <3> QED
      BY <1>3, <1>4, <3>1, <3>2 DEF QueueInOrder
  <2>3. \A v \in Workers \ {w} : QueueInOrder(v) => QueueInOrder(v)'
    BY <1>3, <1>4 DEF QueueInOrder
  <2>4. \A v \in Workers : arena[v] = "none" => current'[v] = current[v]
    BY <1>2, <1>3, <1>4
  <2> QED
    BY <1>1, <1>2, <2>1, <2>2, <2>3, <2>4, WorkerWoken DEF Shape, QueuesInOrder, Usable
<1>11. ScanInBounds'
  BY <1>1, <1>2, <1>3, <1>4 DEF Shape, ScanInBounds, Scanning, InCell, Usable, TypeOK
<1> QED
  BY <1>7, <1>8, <1>9, <1>10, <1>11 DEF Shape

-----------------------------------------------------------------------------
(* The steps of the callers of enqueue(). *)

(* A queue grows: no block goes away, and no offset goes back. *)
Grows(v) ==
  /\ DOMAIN queue[v] \subseteq DOMAIN queue'[v]
  /\ \A b \in DOMAIN queue[v] : queue'[v][b].off >= queue[v][b].off

(* Whatever enqueue() does, its caller stays where it is and so does every *)
(* other thread; the queues only grow.                                     *)
LEMMA CallerShape ==
  ASSUME Shape, TypeOK', CallsInOrder',
         UNCHANGED <<mpc, mi, wpc, rb, ro, shutdown>>,
         \A v \in Workers : arena'[v] = arena[v] \/ (Usable(v) /\ Usable(v)'),
         \A v \in Workers : sem'[v] > 0 => sem[v] > 0 \/ Usable(v),
         \A v \in Workers : Usable(v) => Grows(v) /\ QueueInOrder(v)',
         \A v \in Workers : ~Usable(v) => current'[v] = current[v]
  PROVE  Shape'
<1>1. \A v \in Workers : /\ Usable(v)' <=> Usable(v)
                         /\ arena'[v] = "freed" <=> arena[v] = "freed"
                         /\ arena'[v] = "none" <=> arena[v] = "none"
                         /\ Present(v)' <=> Present(v)
  BY DEF Usable, Present
<1>2. mi \in Workers
  BY DEF Shape, TypeOK
<1>3. OwnerInOrder'
  BY <1>1, <1>2 DEF Shape, OwnerInOrder
<1>4. QueuesInOrder'
  <2>1. \A v \in Workers : arena[v] = "none" => ~Usable(v)
    BY DEF Usable
  <2> QED
    BY <1>1, <2>1 DEF Shape, QueuesInOrder
<1>5. ScanInBounds'
  <2>1. ASSUME NEW v \in Workers, wpc[v] \in Scanning
        PROVE  Usable(v) /\ rb[v] \in DOMAIN queue'[v]
    BY <2>1 DEF Shape, ScanInBounds, Grows
  <2>2. ASSUME NEW v \in Workers, wpc[v] \in InCell
        PROVE  ro[v] < queue'[v][rb[v]].off
    <3>1. wpc[v] \in Scanning /\ ro[v] < queue[v][rb[v]].off
      BY <2>2 DEF Shape, ScanInBounds, Scanning
    <3>2. rb[v] \in DOMAIN queue[v] /\ rb[v] \in DOMAIN queue'[v] /\ ro[v] \in Nat
      BY <2>1, <3>1 DEF Shape, ScanInBounds, TypeOK
    <3>3. queue[v][rb[v]] \in Blocks /\ queue'[v][rb[v]] \in Blocks
      <4>1. queue[v] \in Seq(Blocks)
        BY DEF Shape, TypeOK
      <4>2. queue'[v] \in Seq(Blocks)
        BY DEF TypeOK
      <4> QED
        BY <3>2, <4>1, <4>2
    <3>4. queue'[v][rb[v]].off >= queue[v][rb[v]].off
      BY <2>1, <3>1, <3>2 DEF Shape, ScanInBounds, Grows
    <3> QED
      BY <3>1, <3>2, <3>3, <3>4 DEF Blocks
  <2> QED
    BY <1>1, <2>1, <2>2 DEF ScanInBounds
<1> QED
  BY <1>3, <1>4, <1>5 DEF Shape

(* A step that leaves the queues alone makes no queue smaller. *)
LEMMA GrowsUnchanged ==
  ASSUME Shape, UNCHANGED <<queue, current>>
  PROVE  \A v \in Workers : Usable(v) => Grows(v) /\ QueueInOrder(v)'
<1>1. ASSUME NEW v \in Workers, NEW b \in DOMAIN queue[v]
      PROVE  queue[v][b].off >= queue[v][b].off
  <2>1. queue[v] \in Seq(Blocks)
    BY DEF Shape, TypeOK
  <2>2. queue[v][b].off \in Nat
    BY <2>1, OffsetType
  <2> QED
    BY <2>2
<1> QED
  BY <1>1 DEF Shape, QueuesInOrder, QueueInOrder, Grows

(* Calls that end, or that go on with the cell they have got. *)
WithCell == {"copy", "copying", "torn", "post"}

LEMMA CallsFrame ==
  ASSUME Shape, UNCHANGED <<mpc, wpc>>,
         \A v \in Workers :
           Usable(v) => Usable(v)' /\ DOMAIN queue[v] \subseteq DOMAIN queue'[v],
         \A a \in Callers :
           \/ call'[a] \in {call[a], Idle}
           \/ /\ call[a].step \in WithCell /\ call'[a].step \in WithCell
              /\ call'[a].w = call[a].w /\ call'[a].t = call[a].t
              /\ call'[a].b = call[a].b /\ call'[a].i = call[a].i
  PROVE  CallsInOrder'
<1> SUFFICES ASSUME NEW a \in Callers
    PROVE  /\ call'[a].step = "idle" => call'[a] = Idle
           /\ call'[a].step # "idle" =>
                /\ call'[a].w \in Workers
                /\ arena'[call'[a].w] \in {"live", "locked"}
                /\ call'[a].t \in Tasks
                /\ IF a = Main THEN mpc' = "run" ELSE wpc'[a] = "executing"
           /\ call'[a].step \in WithCell =>
                call'[a].b \in DOMAIN queue'[call'[a].w] /\ call'[a].i \in 1 .. BlockCap
  BY DEF CallsInOrder, WithCell, Usable
<1>1. /\ call[a].step = "idle" => call[a] = Idle
      /\ call[a].step # "idle" =>
           /\ call[a].w \in Workers /\ Usable(call[a].w)
           /\ call[a].t \in Tasks
           /\ IF a = Main THEN mpc = "run" ELSE wpc[a] = "executing"
      /\ call[a].step \in WithCell =>
           call[a].b \in DOMAIN queue[call[a].w] /\ call[a].i \in 1 .. BlockCap
  BY DEF Shape, CallsInOrder, WithCell
<1>2. CASE call'[a] = Idle
  BY <1>2 DEF Idle, WithCell
<1> USE DEF Usable
<1>3. CASE call'[a] = call[a]
  BY <1>1, <1>3 DEF WithCell
<1>4. CASE /\ call[a].step \in WithCell /\ call'[a].step \in WithCell
           /\ call'[a].w = call[a].w /\ call'[a].t = call[a].t
           /\ call'[a].b = call[a].b /\ call'[a].i = call[a].i
  BY <1>1, <1>4 DEF WithCell
<1> QED
  BY <1>2, <1>3, <1>4

LEMMA EnqueueShape ==
  ASSUME Shape, FreedDone, NEW a \in Callers, NEW w \in Workers,
         NEW t \in Tasks, NEW n \in BOOLEAN, Enqueue(a, w, t, n)
  PROVE  Shape'
<1> DEFINE new == [step |-> "alloc", w |-> w, t |-> t, notify |-> n,
                   b |-> 0, i |-> 0]
<1>1. /\ UNCHANGED <<mpc, mi, wpc, rb, ro, shutdown, sem, ack, arena, queue,
                     current, fresh, pending, active, ran, posted, snap>>
      /\ call' = [call EXCEPT ![a] = new]
      /\ call[a] = Idle
      /\ arena[w] # "none"
      /\ IF a = Main THEN mpc = "run" ELSE wpc[a] = "executing"
  BY DEF Enqueue, Begin, MayCall, ownerVars, threadVars, signalVars,
     arenaVars, historyVars
<1>2. TypeOK
  BY DEF Shape
<1>3. call \in [Callers -> Calls] /\ new \in Calls /\ new.step # "idle"
  BY <1>2 DEF TypeOK, Calls, CallSteps
<1>4. TypeOK'
  <2>1. call' \in [Callers -> Calls]
    BY <1>1, <1>3
  <2> QED
    BY <1>1, <1>2, <2>1 DEF TypeOK
<1>5. Usable(w)
  <2>1. arena[w] \in {"live", "locked", "freed"}
    BY <1>1, <1>2 DEF TypeOK
  <2>2. arena[w] # "freed"
    BY <1>1 DEF Shape, OwnerInOrder, FreedDone, Callers
  <2> QED
    BY <2>1, <2>2 DEF Usable
<1>6. CallsInOrder'
  <2>1. call'[a] = new
    BY <1>1, <1>3
  <2>2. \A c \in Callers \ {a} : call'[c] = call[c]
    BY <1>1, <1>3
  <2> QED
    BY <1>1, <1>5, <2>1, <2>2 DEF Shape, CallsInOrder, Usable
<1> QED
  BY <1>1, <1>4, <1>6, GrowsUnchanged, CallerShape

LEMMA EnqueueRefusedShape ==
  ASSUME Shape, NEW a \in Callers, NEW w \in Workers, NEW t \in Tasks,
         EnqueueRefused(a, w, t)
  PROVE  Shape'
<1>1. /\ UNCHANGED <<mpc, mi, wpc, rb, ro, shutdown, sem, ack, arena, queue,
                     current, call, pending, active, ran, posted, snap>>
      /\ fresh' \subseteq fresh
  BY DEF EnqueueRefused, ownerVars, threadVars, signalVars, arenaVars
<1>2. TypeOK'
  BY <1>1 DEF Shape, TypeOK
<1>3. CallsInOrder'
  BY <1>1 DEF Shape, CallsInOrder, Usable
<1> QED
  BY <1>1, <1>2, <1>3, GrowsUnchanged, CallerShape

(* A call in flight: its caller, its worker, its task and its queue.       *)
LEMMA CallInFlight ==
  ASSUME Shape, NEW a \in Callers, call[a].step # "idle"
  PROVE  /\ call[a] \in Calls
         /\ call[a].w \in Workers
         /\ call[a].t \in Tasks
         /\ Usable(call[a].w)
         /\ queue[call[a].w] \in Seq(Blocks)
         /\ QueueInOrder(call[a].w)
         /\ current[call[a].w] \in 1 .. Len(queue[call[a].w])
         /\ IF a = Main THEN mpc = "run" ELSE wpc[a] = "executing"
<1>1. call[a].w \in Workers /\ call[a].t \in Tasks /\ Usable(call[a].w)
  BY DEF Shape, CallsInOrder
<1>2. queue[call[a].w] \in Seq(Blocks)
  BY <1>1 DEF Shape, TypeOK
<1>3. QueueInOrder(call[a].w)
  BY <1>1 DEF Shape, QueuesInOrder
<1>4. current[call[a].w] \in 1 .. Len(queue[call[a].w])
  BY <1>2, <1>3 DEF QueueInOrder
<1> QED
  BY <1>1, <1>2, <1>3, <1>4 DEF Shape, CallsInOrder, TypeOK

LEMMA TakeCellShape ==
  ASSUME Shape, NEW a \in Callers, Allocating(a),
         NEW q \in Seq(Blocks), NEW b \in DOMAIN q, Fits(q[b]),
         DOMAIN queue[call[a].w] \subseteq DOMAIN q,
         \A k \in DOMAIN queue[call[a].w] : q[k].off >= queue[call[a].w][k].off,
         \A k \in DOMAIN q : k > b => q[k].off = 0,
         TakeCell(a, b, q)
  PROVE  Shape'
<1> DEFINE w == call[a].w
           q2 == [q EXCEPT ![b] = Bump(q[b])]
           new == [step |-> "copy", w |-> w, t |-> call[a].t,
                   notify |-> call[a].notify, b |-> b, i |-> q[b].off + 1]
<1>1. /\ UNCHANGED <<mpc, mi, wpc, rb, ro, shutdown, sem, ack, arena, active, ran,
                     posted, snap>>
      /\ queue' = [queue EXCEPT ![w] = q2]
      /\ current' = [current EXCEPT ![w] = b]
      /\ call' = [call EXCEPT ![a] = new]
      /\ fresh' \subseteq fresh
      /\ pending' = [pending EXCEPT ![w] = Append(pending[w], call[a].t)]
  BY DEF TakeCell, ownerVars, threadVars, signalVars
<1>2. /\ call[a] \in Calls /\ w \in Workers /\ call[a].t \in Tasks /\ Usable(w)
      /\ IF a = Main THEN mpc = "run" ELSE wpc[a] = "executing"
  BY CallInFlight DEF Allocating
<1>3. TypeOK
  BY DEF Shape
<1>4. /\ q[b] \in Blocks /\ Bump(q[b]) \in Blocks /\ b \in Nat \ {0}
      /\ q[b].off \in Nat /\ Bump(q[b]).off = q[b].off + 1
  BY BumpType, OffsetType
<1>5. /\ q2 \in Seq(Blocks) /\ DOMAIN q2 = DOMAIN q
      /\ \A k \in DOMAIN q : q2[k] = IF k = b THEN Bump(q[b]) ELSE q[k]
  BY <1>4, ReplaceType
<1>6. new \in Calls
  BY <1>2, <1>4 DEF Calls, CallSteps
<1> HIDE DEF w, q2, new
<1>7. TypeOK'
  <2>1. /\ queue' \in [Workers -> Seq(Blocks)]
        /\ current' \in [Workers -> Nat \ {0}]
        /\ call' \in [Callers -> Calls]
    BY <1>1, <1>2, <1>3, <1>4, <1>5, <1>6 DEF TypeOK
  <2>2. pending' \in [Workers -> Seq(Tasks)]
    BY <1>1, <1>2, <1>3, AppendProperties DEF TypeOK
  <2> QED
    BY <1>1, <1>3, <2>1, <2>2 DEF TypeOK
<1>8. ASSUME NEW v \in Workers, Usable(v)
      PROVE  Grows(v) /\ QueueInOrder(v)'
  <2>1. CASE v # w
    <3>1. queue'[v] = queue[v] /\ current'[v] = current[v] /\ queue[v] \in Seq(Blocks)
      BY <1>1, <1>3, <2>1 DEF TypeOK
    <3>2. \A k \in DOMAIN queue[v] : queue[v][k].off \in Nat
      BY <3>1, OffsetType
    <3> QED
      BY <1>8, <3>1, <3>2 DEF Shape, QueuesInOrder, QueueInOrder, Grows
  <2>2. CASE v = w
    <3>1. queue'[v] = q2 /\ current'[v] = b /\ queue[v] \in Seq(Blocks)
      BY <1>1, <1>3, <2>2 DEF TypeOK
    <3>2. \A k \in DOMAIN queue[v] : queue[v][k].off \in Nat
      BY <3>1, OffsetType
    <3>3. \A k \in DOMAIN q : q[k].off \in Nat
      BY OffsetType
    <3>4. Grows(v)
      BY <1>4, <1>5, <2>2, <3>1, <3>2, <3>3, SMTT(30) DEF Grows, w
    <3>5. QueueInOrder(v)'
      BY <1>4, <1>5, <3>1 DEF QueueInOrder
    <3> QED
      BY <3>4, <3>5
  <2> QED
    BY <2>1, <2>2
<1>9. CallsInOrder'
  <2>1. /\ call'[a].step # "idle" /\ call'[a].w = w /\ call'[a].t = call[a].t
        /\ call'[a].b \in DOMAIN queue'[w] /\ call'[a].i \in 1 .. BlockCap
    BY <1>1, <1>2, <1>3, <1>4, <1>5, BumpType DEF TypeOK, new
  <2>2. \A c \in Callers \ {a} : call'[c] = call[c]
    BY <1>1, <1>3 DEF TypeOK
  <2> QED
    BY <1>1, <1>2, <1>8, <2>1, <2>2 DEF Shape, CallsInOrder, Usable, Grows
<1>10. \A v \in Workers : ~Usable(v) => current'[v] = current[v]
  BY <1>1, <1>2, <1>3 DEF TypeOK
<1> QED
  BY <1>1, <1>7, <1>8, <1>9, <1>10, CallerShape

LEMMA AllocShape ==
  ASSUME Shape, NEW a \in Callers,
         AllocHere(a) \/ AllocNextBlock(a) \/ AllocNewBlock(a)
  PROVE  Shape'
<1> DEFINE w == call[a].w
           c == current[w]
<1>1. Allocating(a)
  BY DEF AllocHere, AllocNextBlock, AllocNewBlock
<1>2. /\ queue[w] \in Seq(Blocks) /\ c \in 1 .. Len(queue[w])
      /\ \A k \in DOMAIN queue[w] : k > c => queue[w][k].off = 0
      /\ Len(queue[w]) \in Nat
  <2>1. call[a].step # "idle"
    BY <1>1 DEF Allocating
  <2>2. /\ queue[w] \in Seq(Blocks) /\ c \in 1 .. Len(queue[w])
        /\ QueueInOrder(w)
    BY <2>1, CallInFlight
  <2>3. Len(queue[w]) \in Nat
    BY <2>2
  <2> QED
    BY <2>2, <2>3 DEF QueueInOrder
<1>3. \A k \in DOMAIN queue[w] : queue[w][k] \in Blocks /\ queue[w][k].off \in Nat
  BY <1>2, OffsetType
<1>4. CASE AllocHere(a)
  <2>1. Fits(queue[w][c]) /\ TakeCell(a, c, queue[w])
    BY <1>4 DEF AllocHere
  <2>2. \A k \in DOMAIN queue[w] : queue[w][k].off >= queue[w][k].off
    BY <1>3
  <2> HIDE DEF c
  <2> QED
    BY <1>1, <1>2, <2>1, <2>2, TakeCellShape, SMTT(30)
<1>5. CASE AllocNextBlock(a)
  <2> DEFINE q == [queue[w] EXCEPT ![c + 1] = Rewound(queue[w][c + 1])]
  <2>1. c + 1 \in DOMAIN queue[w] /\ TakeCell(a, c + 1, q)
    BY <1>2, <1>5, SMTT(30) DEF AllocNextBlock
  <2>2. Rewound(queue[w][c + 1]) \in Blocks
    BY <1>3, <2>1, RewoundType
  <2>3. /\ q \in Seq(Blocks) /\ DOMAIN q = DOMAIN queue[w]
        /\ \A k \in DOMAIN q : q[k] = IF k = c + 1 THEN Rewound(queue[w][c + 1])
                                                  ELSE queue[w][k]
    BY <1>2, <2>1, <2>2, ReplaceType
  <2>4. /\ Fits(q[c + 1]) /\ q[c + 1].off = 0 /\ queue[w][c + 1].off = 0
    <3>1. q[c + 1] = Rewound(queue[w][c + 1])
      BY <2>1, <2>3
    <3>2. queue[w][c + 1] \in Blocks
      BY <1>3, <2>1
    <3>3. c + 1 > c
      BY <1>2
    <3> HIDE DEF q, c, w
    <3>4. queue[w][c + 1].off = 0
      BY <1>2, <2>1, <3>3
    <3> QED
      BY <3>1, <3>2, <3>4, RewoundType
  <2> HIDE DEF q
  <2>5. \A k \in DOMAIN queue[w] : q[k].off >= queue[w][k].off
    BY <1>3, <2>3, <2>4
  <2>6. \A k \in DOMAIN q : k > c + 1 => q[k].off = 0
    <3> HIDE DEF w, c
    <3> QED
      BY <1>2, <2>3
  <2> HIDE DEF c
  <2> QED
    BY <1>1, <2>1, <2>3, <2>4, <2>5, <2>6, TakeCellShape
<1>6. CASE AllocNewBlock(a)
  <2> DEFINE q == Append(queue[w], NewBlock)
  <2>1. c = Len(queue[w]) /\ TakeCell(a, c + 1, q)
    BY <1>6 DEF AllocNewBlock
  <2>2. /\ q \in Seq(Blocks) /\ Len(q) = Len(queue[w]) + 1
        /\ \A k \in 1 .. Len(queue[w]) : q[k] = queue[w][k]
        /\ q[c + 1] = NewBlock
    BY <1>2, <2>1, NewBlockType, AppendProperties
  <2> HIDE DEF q
  <2>3. DOMAIN q = 1 .. Len(queue[w]) + 1
    <3> HIDE DEF w
    <3> QED
      BY <1>2, <2>2
  <2>4. Fits(q[c + 1])
    BY <2>2, NewBlockType DEF Fits
  <2>5. /\ DOMAIN queue[w] \subseteq DOMAIN q /\ c + 1 \in DOMAIN q
        /\ \A k \in DOMAIN queue[w] : q[k].off >= queue[w][k].off
        /\ \A k \in DOMAIN q : k > c + 1 => q[k].off = 0
    <3>1. DOMAIN queue[w] = 1 .. Len(queue[w])
      BY <1>2
    <3> HIDE DEF w
    <3>2. \A k \in DOMAIN queue[w] : q[k].off >= queue[w][k].off
      BY <1>3, <2>2, <3>1
    <3> HIDE DEF c
    <3> QED
      BY <1>2, <2>1, <2>3, <3>1, <3>2
  <2> HIDE DEF c
  <2> QED
    BY <1>1, <2>1, <2>2, <2>4, <2>5, TakeCellShape
<1> QED
  BY <1>4, <1>5, <1>6

LEMMA OutOfMemoryShape ==
  ASSUME Shape, NEW a \in Callers, AllocOutOfMemory(a)
  PROVE  Shape'
<1>1. /\ UNCHANGED <<mpc, mi, wpc, rb, ro, shutdown, sem, ack, queue, current,
                     pending, active, ran, posted, snap>>
      /\ fresh' \subseteq fresh
      /\ call' = [call EXCEPT ![a] = Idle]
      /\ arena' = [arena EXCEPT ![call[a].w] = "locked"]
      /\ arena[call[a].w] = "live"
      /\ call[a].step # "idle"
  BY DEF AllocOutOfMemory, Allocating, ownerVars, threadVars, signalVars
<1>2. TypeOK /\ call[a].w \in Workers
  BY <1>1, CallInFlight DEF Shape
<1>3. Idle \in Calls
  BY DEF Idle, Calls, CallSteps, Callers
<1>4. TypeOK'
  BY <1>1, <1>2, <1>3 DEF TypeOK
<1>5. \A v \in Workers : arena'[v] = arena[v] \/ (Usable(v) /\ Usable(v)')
  BY <1>1, <1>2 DEF TypeOK, Usable
<1>6. CallsInOrder'
  <2>1. call'[a] = Idle /\ \A b \in Callers \ {a} : call'[b] = call[b]
    BY <1>1, <1>2 DEF TypeOK
  <2> QED
    BY <1>1, <1>5, <2>1, CallsFrame DEF Usable
<1> QED
  BY <1>1, <1>4, <1>5, <1>6, GrowsUnchanged, CallerShape

(* Writing a cell changes no offset. *)
LEMMA WriteCellQueue ==
  ASSUME Shape, NEW a \in Callers, call[a].step \in {"copy", "copying", "torn"},
         NEW v \in Cells, WriteCell(a, v), current' = current
  PROVE  /\ queue' \in [Workers -> Seq(Blocks)]
         /\ \A u \in Workers : DOMAIN queue'[u] = DOMAIN queue[u]
         /\ \A u \in Workers : Usable(u) => Grows(u) /\ QueueInOrder(u)'
<1> DEFINE w == call[a].w
           b == call[a].b
           e == PutCell(queue[w][b], call[a].i, v)
           q == [queue[w] EXCEPT ![b] = e]
<1>1. /\ w \in Workers /\ queue[w] \in Seq(Blocks) /\ b \in DOMAIN queue[w]
      /\ queue \in [Workers -> Seq(Blocks)]
  BY CallInFlight DEF Shape, CallsInOrder, TypeOK
<1>2. \A u \in Workers : \A k \in DOMAIN queue[u] : queue[u][k].off \in Nat
  BY <1>1, OffsetType
<1>3. e \in Blocks /\ e.off = queue[w][b].off
  BY <1>1, OffsetType, PutCellType
<1> HIDE DEF e
<1>4. /\ q \in Seq(Blocks) /\ DOMAIN q = DOMAIN queue[w]
      /\ \A k \in DOMAIN q : q[k] = IF k = b THEN e ELSE queue[w][k]
  BY <1>1, <1>3, ReplaceType
<1>5. queue' = [queue EXCEPT ![w] = q]
  BY DEF WriteCell, e
<1> HIDE DEF w, b, q
<1>6. \A u \in Workers : queue'[u] = IF u = w THEN q ELSE queue[u]
  BY <1>1, <1>5
<1>7. \A u \in Workers : /\ DOMAIN queue'[u] = DOMAIN queue[u]
                         /\ \A k \in DOMAIN queue[u] : queue'[u][k].off = queue[u][k].off
  BY <1>1, <1>3, <1>4, <1>6
<1>8. ASSUME NEW u \in Workers, Usable(u)
      PROVE  Grows(u) /\ QueueInOrder(u)'
  BY <1>2, <1>7, <1>8 DEF Shape, QueuesInOrder, QueueInOrder, Grows
<1>9. queue' \in [Workers -> Seq(Blocks)]
  BY <1>1, <1>4, <1>5
<1> QED
  BY <1>7, <1>8, <1>9

LEMMA CellContents ==
  ASSUME Shape, NEW a \in Callers, call[a].step \in {"copy", "copying", "torn"}
  PROVE  /\ {call[a].t} \in Cells
         /\ queue[call[a].w][call[a].b].data[call[a].i] \cup {call[a].t} \in Cells
<1>1. /\ call[a].b \in DOMAIN queue[call[a].w] /\ call[a].i \in 1 .. BlockCap
      /\ call[a].t \in Tasks /\ queue[call[a].w] \in Seq(Blocks)
  BY CallInFlight DEF Shape, CallsInOrder
<1>2. queue[call[a].w][call[a].b] \in Blocks
  BY <1>1, OffsetType
<1>3. queue[call[a].w][call[a].b].data[call[a].i] \in Cells
  BY <1>1, <1>2 DEF Blocks
<1> QED
  BY <1>1, <1>3 DEF Cells

LEMMA TearType ==
  ASSUME NEW d \in Calls, NEW e, e \in {Tear(d), [d EXCEPT !.step = "copying"]}
  PROVE  e \in Calls /\ e.w = d.w /\ e.t = d.t /\ e.b = d.b /\ e.i = d.i
BY DEF Tear, Calls, CallSteps

(* A copy that begins leaves every call its cell, and tears those that     *)
(* write to the same cell.                                                 *)
LEMMA CopyBeginCalls ==
  ASSUME Shape, NEW a \in Callers, CopyBegin(a), NEW b \in Callers
  PROVE  /\ call'[b] \in Calls
         /\ call'[b].w = call[b].w /\ call'[b].t = call[b].t
         /\ call'[b].b = call[b].b /\ call'[b].i = call[b].i
         /\ \/ call'[b] = call[b] /\ b # a /\ ~Copying(a, b)
            \/ b = a /\ call'[b].step = "copying" /\ \A c \in Callers : ~Copying(a, c)
            \/ b = a /\ call'[b].step = "torn" /\ \E c \in Callers : Copying(a, c)
            \/ b # a /\ call'[b].step = "torn" /\ Copying(a, b)
<1> DEFINE others == {c \in Callers : Copying(a, c)}
<1>1. call[a].step = "copy" /\ call[b] \in Calls
  BY DEF CopyBegin, Shape, TypeOK
<1>2. a \notin others
  BY <1>1 DEF Copying
<1>3. \/ b \in others /\ call'[b] = Tear(call[b])
      \/ b \notin others /\ b # a /\ call'[b] = call[b]
      \/ b = a /\ others = {} /\ call'[b] = [call[b] EXCEPT !.step = "copying"]
      \/ b = a /\ others # {} /\ call'[b] = Tear(call[b])
  BY DEF CopyBegin
<1>4. /\ others = {} => \A c \in Callers : ~Copying(a, c)
      /\ others # {} => \E c \in Callers : Copying(a, c)
      /\ b \in others <=> Copying(a, b)
  OBVIOUS
<1> HIDE DEF others
<1>5. CASE b \in others /\ call'[b] = Tear(call[b])
  <2>1. call'[b].step = "torn"
    BY <1>1, <1>5 DEF Tear, Calls
  <2> QED
    BY <1>1, <1>2, <1>4, <1>5, <2>1, TearType
<1>6. CASE b \notin others /\ b # a /\ call'[b] = call[b]
  BY <1>1, <1>4, <1>6
<1>7. CASE b = a /\ others = {} /\ call'[b] = [call[b] EXCEPT !.step = "copying"]
  <2>1. call'[b].step = "copying"
    BY <1>1, <1>7 DEF Calls
  <2> QED
    BY <1>1, <1>4, <1>7, <2>1, TearType
<1>8. CASE b = a /\ others # {} /\ call'[b] = Tear(call[b])
  <2>1. call'[b].step = "torn"
    BY <1>1, <1>8 DEF Tear, Calls
  <2> QED
    BY <1>1, <1>4, <1>8, <2>1, TearType
<1> QED
  BY <1>3, <1>5, <1>6, <1>7, <1>8

LEMMA CopyBeginShape ==
  ASSUME Shape, NEW a \in Callers, CopyBegin(a)
  PROVE  Shape'
<1> DEFINE c == call[a]
           others == {b \in Callers : Copying(a, b)}
<1>1. /\ UNCHANGED <<mpc, mi, wpc, rb, ro, shutdown, sem, ack, arena, current,
                     fresh, pending, active, ran, posted, snap>>
      /\ c.step = "copy"
      /\ WriteCell(a, queue[c.w][c.b].data[c.i] \cup {c.t})
      /\ call' = [b \in Callers |->
           IF b \in others THEN Tear(call[b])
           ELSE IF b # a THEN call[b]
           ELSE IF others = {} THEN [c EXCEPT !.step = "copying"] ELSE Tear(c)]
  BY DEF CopyBegin, ownerVars, threadVars, signalVars, historyVars
<1>2. /\ queue' \in [Workers -> Seq(Blocks)]
      /\ \A u \in Workers : DOMAIN queue'[u] = DOMAIN queue[u]
      /\ \A u \in Workers : Usable(u) => Grows(u) /\ QueueInOrder(u)'
  BY <1>1, CellContents, WriteCellQueue
<1>3. TypeOK /\ call \in [Callers -> Calls]
  BY DEF Shape, TypeOK
<1>5. \A b \in Callers :
        /\ call'[b] \in Calls
        /\ \/ call'[b] = call[b]
           \/ /\ call[b].step \in {"copy", "copying", "torn"}
              /\ call'[b].step \in {"copying", "torn"}
              /\ call'[b].w = call[b].w /\ call'[b].t = call[b].t
              /\ call'[b].b = call[b].b /\ call'[b].i = call[b].i
  BY <1>1, CopyBeginCalls DEF Copying
<1>6. TypeOK'
  <2>1. call' \in [Callers -> Calls]
    BY <1>1, <1>5
  <2> QED
    BY <1>1, <1>2, <1>3, <2>1 DEF TypeOK
<1>7. CallsInOrder'
  <2>1. \A v \in Workers : Usable(v)' <=> Usable(v)
    BY <1>1 DEF Usable
  <2> QED
    BY <1>1, <1>2, <1>5, <2>1, CallsFrame DEF WithCell
<1> QED
  BY <1>1, <1>2, <1>6, <1>7, CallerShape

(* A copy that ends leaves the other calls alone. *)
LEMMA CopyEndCalls ==
  ASSUME Shape, NEW a \in Callers, CopyEnd(a)
  PROVE  /\ call' \in [Callers -> Calls]
         /\ \A b \in Callers \ {a} : call'[b] = call[b]
         /\ \/ call'[a] = Idle
            \/ /\ call'[a].step = "post"
               /\ call'[a].w = call[a].w /\ call'[a].t = call[a].t
               /\ call'[a].b = call[a].b /\ call'[a].i = call[a].i
<1> DEFINE c == call[a]
           d == [c EXCEPT !.step = "post"]
<1>1. call' = [call EXCEPT ![a] = IF c.notify THEN d ELSE Idle]
  BY DEF CopyEnd
<1>2. call \in [Callers -> Calls] /\ c \in Calls
  BY DEF Shape, TypeOK
<1>3. /\ d \in Calls /\ d.step = "post" /\ d.w = c.w /\ d.t = c.t
      /\ d.b = c.b /\ d.i = c.i
  BY <1>2 DEF Calls, CallSteps
<1>4. Idle \in Calls
  BY DEF Idle, Calls, CallSteps, Callers
<1> HIDE DEF d
<1>5. CASE c.notify
  <2>1. call' = [call EXCEPT ![a] = d]
    BY <1>1, <1>5
  <2> QED
    BY <1>2, <1>3, <2>1
<1>6. CASE ~c.notify
  <2>1. call' = [call EXCEPT ![a] = Idle]
    BY <1>1, <1>6
  <2> QED
    BY <1>2, <1>4, <2>1
<1> QED
  BY <1>5, <1>6

LEMMA CopyEndShape ==
  ASSUME Shape, NEW a \in Callers, CopyEnd(a)
  PROVE  Shape'
<1> DEFINE c == call[a]
           v == IF c.step = "torn" THEN queue[c.w][c.b].data[c.i] \cup {c.t}
                                   ELSE {c.t}
<1>1. /\ UNCHANGED <<mpc, mi, wpc, rb, ro, shutdown, sem, ack, arena, current,
                     fresh, pending, active, ran, posted, snap>>
      /\ c.step \in {"copying", "torn"}
      /\ WriteCell(a, v)
      /\ call' = [call EXCEPT ![a] = IF c.notify THEN [c EXCEPT !.step = "post"]
                                                 ELSE Idle]
  BY DEF CopyEnd, ownerVars, threadVars, signalVars, historyVars
<1>2. /\ queue' \in [Workers -> Seq(Blocks)]
      /\ \A u \in Workers : DOMAIN queue'[u] = DOMAIN queue[u]
      /\ \A u \in Workers : Usable(u) => Grows(u) /\ QueueInOrder(u)'
  <2>1. v \in Cells
    BY <1>1, CellContents
  <2> QED
    BY <1>1, <2>1, WriteCellQueue
<1>3. TypeOK'
  BY <1>1, <1>2, CopyEndCalls DEF Shape, TypeOK
<1>4. CallsInOrder'
  <2>1. \A u \in Workers : Usable(u)' <=> Usable(u)
    BY <1>1 DEF Usable
  <2>2. \A b \in Callers :
          \/ call'[b] \in {call[b], Idle}
          \/ /\ call[b].step \in WithCell /\ call'[b].step \in WithCell
             /\ call'[b].w = call[b].w /\ call'[b].t = call[b].t
             /\ call'[b].b = call[b].b /\ call'[b].i = call[b].i
    BY <1>1, CopyEndCalls DEF WithCell
  <2> QED
    BY <1>1, <1>2, <2>1, <2>2, CallsFrame
<1> QED
  BY <1>1, <1>2, <1>3, <1>4, CallerShape

LEMMA PostShape ==
  ASSUME Shape, NEW a \in Callers, Post(a)
  PROVE  Shape'
<1>1. /\ UNCHANGED <<mpc, mi, wpc, rb, ro, shutdown, ack, arena, queue, current,
                     fresh, pending, active, ran, snap>>
      /\ call' = [call EXCEPT ![a] = Idle]
      /\ sem' = [sem EXCEPT ![call[a].w] = @ + 1]
      /\ posted' = posted \cup {call[a].t}
      /\ call[a].step # "idle"
  BY DEF Post, Notify, ownerVars, threadVars, arenaVars
<1>2. /\ TypeOK /\ call[a].w \in Workers /\ call[a].t \in Tasks /\ Usable(call[a].w)
  BY <1>1, CallInFlight DEF Shape
<1>3. Idle \in Calls
  BY DEF Idle, Calls, CallSteps, Callers
<1>4. sem \in [Workers -> Nat] /\ sem' \in [Workers -> Nat]
  <2>1. sem \in [Workers -> Nat]
    BY <1>2 DEF TypeOK
  <2> HIDE DEF TypeOK
  <2>2. sem[call[a].w] + 1 \in Nat
    BY <1>2, <2>1
  <2> QED
    BY <1>1, <2>1, <2>2
<1>5. TypeOK'
  BY <1>1, <1>2, <1>3, <1>4 DEF TypeOK
<1>6. \A v \in Workers : sem'[v] > 0 => sem[v] > 0 \/ Usable(v)
  BY <1>1, <1>2, <1>4
<1>7. CallsInOrder'
  <2>1. call'[a] = Idle /\ \A b \in Callers \ {a} : call'[b] = call[b]
    BY <1>1, <1>2 DEF TypeOK
  <2> QED
    BY <1>1, <2>1, CallsFrame DEF Usable
<1> QED
  BY <1>1, <1>5, <1>6, <1>7, GrowsUnchanged, CallerShape

-----------------------------------------------------------------------------
(* The steps of the owner. *)

(* The loop index stays in range. *)
LEMMA LoopType ==
  ASSUME TypeOK, NEW again \in OwnerSteps, NEW then \in OwnerSteps,
         Loop(again, then)
  PROVE  /\ mpc' \in OwnerSteps /\ mi' \in Workers
         /\ \/ mpc' = again /\ mi < N /\ mi' = mi + 1
            \/ mpc' = then /\ mi = N /\ mi' = 1
<1>1. mi \in 1 .. N /\ N \in Nat /\ N > 0
  BY DEF TypeOK, Workers
<1> QED
  BY <1>1 DEF Loop, Workers

(* A step of the owner that changes its own state and flags only. *)
LEMMA OwnerFrame ==
  ASSUME Shape, TypeOK', OwnerInOrder',
         UNCHANGED <<wpc, rb, ro, arena, queue, current, call>>,
         call[Main] = Idle,
         \A w \in Workers : shutdown[w] => shutdown'[w],
         \A w \in Workers : sem'[w] > 0 => sem[w] > 0 \/ shutdown[w]
  PROVE  Shape'
<1>1. QueuesInOrder'
  BY DEF Shape, QueuesInOrder, QueueInOrder, Usable, Present
<1>2. CallsInOrder'
  <2>1. \A w \in Workers : Usable(w)' <=> Usable(w)
    BY DEF Usable
  <2>2. call[Main].step = "idle"
    BY DEF Idle
  <2> QED
    BY <2>1, <2>2 DEF Shape, CallsInOrder
<1>3. ScanInBounds'
  BY DEF Shape, ScanInBounds, Usable
<1> QED
  BY <1>1, <1>2, <1>3 DEF Shape

LEMMA MainIdle ==
  ASSUME Shape, mpc # "run"
  PROVE  call[Main] = Idle
BY DEF Shape, CallsInOrder, Callers

LEMMA StartDestroyShape ==
  ASSUME Shape, StartDestroy
  PROVE  Shape'
<1>1. /\ mpc = "run" /\ mpc' = "signal" /\ call[Main] = Idle
      /\ UNCHANGED <<mi, wpc, rb, ro, shutdown, sem, ack, arena, queue, current,
                     call, fresh, pending, active, ran, posted, snap>>
  BY DEF StartDestroy, threadVars, signalVars, arenaVars, historyVars
<1>2. TypeOK'
  BY <1>1 DEF Shape, TypeOK, OwnerSteps
<1>3. OwnerInOrder'
  BY <1>1 DEF Shape, OwnerInOrder
<1> QED
  BY <1>1, <1>2, <1>3, OwnerFrame

LEMMA SetShutdownShape ==
  ASSUME Shape, SetShutdown
  PROVE  Shape'
<1>1. /\ mpc = "signal" /\ mpc' = "wake" /\ Present(mi)
      /\ shutdown' = [shutdown EXCEPT ![mi] = TRUE]
      /\ UNCHANGED <<mi, wpc, rb, ro, sem, ack, arena, queue, current,
                     call, fresh, pending, active, ran, posted, snap>>
  BY DEF SetShutdown, threadVars, arenaVars, historyVars
<1>2. mi \in Workers /\ shutdown \in [Workers -> BOOLEAN]
  BY DEF Shape, TypeOK
<1>3. TypeOK'
  BY <1>1, <1>2 DEF Shape, TypeOK, OwnerSteps
<1>4. \A w \in Workers : shutdown[w] => shutdown'[w]
  BY <1>1, <1>2
<1>5. OwnerInOrder'
  <2>1. shutdown'[mi]
    BY <1>1, <1>2
  <2> QED
    BY <1>1, <2>1 DEF Shape, OwnerInOrder, Present
<1> QED
  BY <1>1, <1>3, <1>4, <1>5, MainIdle, OwnerFrame

LEMMA WakeToStopShape ==
  ASSUME Shape, WakeToStop
  PROVE  Shape'
<1>1. /\ mpc = "wake" /\ Loop("signal", "await")
      /\ sem' = [sem EXCEPT ![mi] = @ + 1]
      /\ UNCHANGED <<wpc, rb, ro, shutdown, ack, arena, queue, current,
                     call, fresh, pending, active, ran, posted, snap>>
  BY DEF WakeToStop, threadVars, arenaVars, historyVars
<1>2. TypeOK /\ mi \in Workers /\ sem \in [Workers -> Nat]
  BY DEF Shape, TypeOK
<1>3. /\ mpc' \in {"signal", "await"} /\ mi' \in Workers
  BY <1>1, <1>2, LoopType DEF OwnerSteps
<1>4. sem' \in [Workers -> Nat] /\ \A w \in Workers : w # mi => sem'[w] = sem[w]
  BY <1>1, <1>2
<1>5. TypeOK'
  BY <1>1, <1>2, <1>3, <1>4 DEF TypeOK, OwnerSteps
<1>6. shutdown[mi]
  BY <1>1 DEF Shape, OwnerInOrder
<1>7. OwnerInOrder'
  BY <1>1, <1>3 DEF Shape, OwnerInOrder
<1> QED
  BY <1>1, <1>4, <1>5, <1>6, <1>7, MainIdle, OwnerFrame

LEMMA AwaitAckShape ==
  ASSUME Shape, AwaitAck
  PROVE  Shape'
<1>1. /\ mpc = "await" /\ Loop("await", "free")
      /\ ack > 0 /\ ack' = ack - 1
      /\ UNCHANGED <<wpc, rb, ro, shutdown, sem, arena, queue, current,
                     call, fresh, pending, active, ran, posted, snap>>
  BY DEF AwaitAck, threadVars, arenaVars, historyVars
<1>2. TypeOK /\ ack \in Nat
  BY DEF Shape, TypeOK
<1>3. /\ mpc' \in {"await", "free"} /\ mi' \in Workers
  BY <1>1, <1>2, LoopType DEF OwnerSteps
<1>4. ack' \in Nat
  BY <1>1, <1>2
<1>5. TypeOK'
  BY <1>1, <1>2, <1>3, <1>4 DEF TypeOK, OwnerSteps
<1>6. OwnerInOrder'
  BY <1>1, <1>3 DEF Shape, OwnerInOrder
<1> QED
  BY <1>1, <1>5, <1>6, MainIdle, OwnerFrame

LEMMA JoinShape ==
  ASSUME Shape, Join \/ DestroyNullArena \/ SkipMissing
  PROVE  Shape'
<1>1. /\ mpc \notin {"init", "run"}
      /\ UNCHANGED <<wpc, rb, ro, shutdown, sem, ack, arena, queue, current,
                     call, fresh, pending, active, ran, posted, snap>>
  BY DEF Join, DestroyNullArena, SkipMissing, threadVars, signalVars, arenaVars,
     historyVars
<1>2. TypeOK
  BY DEF Shape
<1>3. /\ mpc' \in OwnerSteps /\ mi' \in Workers
      /\ mpc' \notin {"init", "wake", "join"}
      /\ mpc \in {"free", "join"} => mpc' \in {"free", "closed", "crashed"}
      /\ mpc \notin {"closed", "crashed"}
  <2>1. CASE Join
    BY <1>2, <2>1, LoopType DEF Join, OwnerSteps
  <2>2. CASE DestroyNullArena
    BY <1>2, <2>2 DEF DestroyNullArena, OwnerSteps, TypeOK
  <2>3. CASE SkipMissing
    BY <1>2, <2>3, LoopType DEF SkipMissing, OwnerSteps
  <2> QED
    BY <2>1, <2>2, <2>3
<1>4. TypeOK'
  BY <1>1, <1>2, <1>3 DEF TypeOK
<1>5. OwnerInOrder'
  BY <1>1, <1>3 DEF Shape, OwnerInOrder
<1> QED
  BY <1>1, <1>4, <1>5, MainIdle, OwnerFrame

(* What the owner's attempt leaves behind, whatever failed. *)
LEMMA InitWorkerMakes ==
  ASSUME InitWorker
  PROVE  \E pc \in {"null", "top", "nothread"}, st \in {"live", "none"} :
           /\ wpc' = [wpc EXCEPT ![mi] = pc]
           /\ arena' = [arena EXCEPT ![mi] = st]
           /\ queue' = [queue EXCEPT ![mi] = IF st = "live" THEN <<NewBlock>> ELSE << >>]
           /\ pc = "null" => st = "none"
<1>1. PICK heapOk \in BOOLEAN, arenaOk \in BOOLEAN, threadOk \in BOOLEAN :
       /\ wpc' = [wpc EXCEPT ![mi] = IF ~heapOk THEN "null"
                                     ELSE IF threadOk THEN "top" ELSE "nothread"]
       /\ arena' = [arena EXCEPT ![mi] = IF heapOk /\ arenaOk THEN "live" ELSE "none"]
       /\ queue' = [queue EXCEPT ![mi] =
                      IF heapOk /\ arenaOk THEN <<NewBlock>> ELSE << >>]
  BY DEF InitWorker
<1>2. CASE ~heapOk
  BY <1>1, <1>2
<1>3. CASE heapOk /\ arenaOk /\ threadOk
  BY <1>1, <1>3
<1>4. CASE heapOk /\ arenaOk /\ ~threadOk
  BY <1>1, <1>4
<1>5. CASE heapOk /\ ~arenaOk /\ threadOk
  BY <1>1, <1>5
<1>6. CASE heapOk /\ ~arenaOk /\ ~threadOk
  BY <1>1, <1>6
<1> QED
  BY <1>2, <1>3, <1>4, <1>5, <1>6

LEMMA InitWorkerShape ==
  ASSUME Shape, InitWorker
  PROVE  Shape'
<1>1. PICK pc \in {"null", "top", "nothread"}, st \in {"live", "none"} :
         /\ wpc' = [wpc EXCEPT ![mi] = pc]
         /\ arena' = [arena EXCEPT ![mi] = st]
         /\ queue' = [queue EXCEPT ![mi] = IF st = "live" THEN <<NewBlock>> ELSE << >>]
         /\ pc = "null" => st = "none"
  BY InitWorkerMakes
<1>2. /\ mpc = "init" /\ Loop("init", "run")
      /\ UNCHANGED <<rb, ro, shutdown, sem, ack, current, call, fresh, pending,
                     active, ran, posted, snap>>
  BY DEF InitWorker, signalVars, historyVars
<1>3. TypeOK /\ mi \in Workers
  BY DEF Shape, TypeOK
<1>4. /\ mpc' \in {"init", "run"} /\ mi' \in Workers
      /\ mpc' = "init" => mi' = mi + 1
  BY <1>2, <1>3, LoopType DEF OwnerSteps
<1>5. wpc[mi] = "null" /\ arena[mi] = "none" /\ current[mi] = 1
  <2>1. wpc[mi] = "null"
    BY <1>2, <1>3 DEF Shape, OwnerInOrder, Workers
  <2> QED
    BY <1>3, <2>1 DEF Shape, QueuesInOrder, Present
<1>6. /\ <<NewBlock>> \in Seq(Blocks) /\ DOMAIN <<NewBlock>> = {1}
      /\ <<NewBlock>>[1] = NewBlock
  BY NewBlockType
<1>7. \A w \in Workers \ {mi} : /\ wpc'[w] = wpc[w] /\ arena'[w] = arena[w]
                                /\ queue'[w] = queue[w]
  BY <1>1, <1>3 DEF TypeOK
<1>8. /\ wpc'[mi] = pc /\ arena'[mi] = st
      /\ queue'[mi] = IF st = "live" THEN <<NewBlock>> ELSE << >>
  BY <1>1, <1>3 DEF TypeOK
<1>9. TypeOK'
  <2>1. wpc' \in [Workers -> WorkerSteps]
    BY <1>1, <1>3 DEF TypeOK, WorkerSteps
  <2>2. arena' \in [Workers -> {"none", "live", "locked", "freed"}]
    BY <1>1, <1>3 DEF TypeOK
  <2>3. queue' \in [Workers -> Seq(Blocks)]
    BY <1>1, <1>3, <1>6 DEF TypeOK
  <2> QED
    BY <1>2, <1>3, <1>4, <2>1, <2>2, <2>3 DEF TypeOK, OwnerSteps
<1>10. OwnerInOrder'
  <2>1. mpc' = "init" => \A w \in mi' .. N : wpc'[w] = "null"
    <3>1. mi \in Nat /\ N \in Nat
      BY <1>3 DEF Workers
    <3>2. mpc' = "init" => \A w \in mi' .. N : w \in mi .. N /\ w # mi /\ w \in Workers
      BY <1>3, <1>4, <3>1 DEF Workers
    <3> QED
      BY <1>2, <1>7, <3>2 DEF Shape, OwnerInOrder
  <2>2. \A w \in Workers : arena'[w] # "freed"
    BY <1>2, <1>7, <1>8 DEF Shape, OwnerInOrder
  <2> QED
    BY <1>4, <2>1, <2>2 DEF OwnerInOrder
<1>11. QueuesInOrder'
  <2>1. ASSUME NEW w \in Workers, w # mi
        PROVE  /\ Usable(w)' => QueueInOrder(w)'
               /\ arena'[w] # "none" => wpc'[w] # "null"
               /\ arena'[w] = "none" => current'[w] = 1
               /\ arena'[w] = "none" /\ (sem'[w] > 0 \/ wpc'[w] = "woken") => shutdown'[w]
    BY <1>2, <1>7, <2>1 DEF Shape, QueuesInOrder, QueueInOrder, Usable, Present
  <2>2. /\ st = "live" => current'[mi] \in DOMAIN queue'[mi]
        /\ st = "live" => \A b \in DOMAIN queue'[mi] : ~(b > current'[mi])
        /\ st # "none" => wpc'[mi] # "null"
        /\ current'[mi] = 1
        /\ sem'[mi] > 0 => shutdown'[mi]
        /\ wpc'[mi] # "woken"
    BY <1>1, <1>2, <1>3, <1>5, <1>6, <1>8 DEF Shape, QueuesInOrder
  <2>3. ASSUME NEW w \in Workers, w = mi
        PROVE  /\ Usable(w)' => QueueInOrder(w)'
               /\ arena'[w] # "none" => wpc'[w] # "null"
               /\ arena'[w] = "none" => current'[w] = 1
               /\ arena'[w] = "none" /\ (sem'[w] > 0 \/ wpc'[w] = "woken") => shutdown'[w]
    BY <1>8, <2>2, <2>3 DEF QueueInOrder, Usable
  <2> QED
    BY <2>1, <2>3 DEF QueuesInOrder, Present
<1>12. CallsInOrder'
  <2>1. \A a \in Callers : call[a].step # "idle" => call[a].w # mi /\ a # mi
    BY <1>3, <1>5 DEF Shape, CallsInOrder, Usable, Main, Workers
  <2>2. call[Main].step = "idle"
    BY <1>2, MainIdle DEF Idle
  <2> QED
    BY <1>2, <1>7, <2>1, <2>2 DEF Shape, CallsInOrder, Usable, Callers
<1>13. ScanInBounds'
  BY <1>2, <1>7, <1>8 DEF Shape, ScanInBounds, Scanning, InCell, Usable
<1> QED
  BY <1>9, <1>10, <1>11, <1>12, <1>13 DEF Shape

LEMMA DestroyArenaShape ==
  ASSUME Shape, DestroyArena, \A w \in Workers : wpc[w] \in {"null", "done"}
  PROVE  Shape'
<1>1. /\ mpc = "free" /\ mpc' = "join" /\ Present(mi) /\ arena[mi] = "live"
      /\ arena' = [arena EXCEPT ![mi] = "freed"]
      /\ queue' = [queue EXCEPT ![mi] = << >>]
      /\ current' = [current EXCEPT ![mi] = 1]
      /\ pending' = [pending EXCEPT ![mi] = << >>]
      /\ UNCHANGED <<mi, wpc, rb, ro, shutdown, sem, ack, call, fresh, active,
                     ran, posted, snap>>
  BY DEF DestroyArena, threadVars, signalVars
<1>2. TypeOK /\ mi \in Workers
  BY DEF Shape, TypeOK
<1>3. \A w \in Workers \ {mi} : /\ arena'[w] = arena[w] /\ queue'[w] = queue[w]
                                /\ current'[w] = current[w]
  BY <1>1, <1>2 DEF TypeOK
<1>4. arena'[mi] = "freed"
  BY <1>1, <1>2 DEF TypeOK
<1>5. TypeOK'
  BY <1>1, <1>2 DEF TypeOK, OwnerSteps
<1>6. OwnerInOrder'
  BY <1>1, <1>2, <1>3 DEF Shape, OwnerInOrder, Present
<1>7. QueuesInOrder'
  BY <1>1, <1>3, <1>4 DEF Shape, QueuesInOrder, QueueInOrder, Usable, Present
<1>8. \A a \in Callers : call[a] = Idle
  BY <1>1 DEF Shape, CallsInOrder, Callers
<1>9. CallsInOrder'
  <2>1. \A a \in Callers : call'[a] = Idle /\ call'[a].step = "idle"
    <3>1. call' = call /\ Idle.step = "idle"
      BY <1>1 DEF Idle
    <3> QED
      BY <1>8, <3>1
  <2> QED
    BY <2>1 DEF CallsInOrder
<1>10. ScanInBounds'
  BY <1>1 DEF ScanInBounds, Scanning, InCell
<1> QED
  BY <1>5, <1>6, <1>7, <1>9, <1>10 DEF Shape

-----------------------------------------------------------------------------
(* The acknowledgements.                                                   *)

Ended == {w \in Workers : wpc[w] = "done"}
AllPresent == {w \in Workers : Present(w)}

LEMMA FiniteWorkers ==
  /\ \A S \in SUBSET Workers : IsFiniteSet(S) /\ Cardinality(S) \in Nat
  /\ IsFiniteSet(Ended) /\ IsFiniteSet(AllPresent)
<1>1. IsFiniteSet(Workers)
  BY FS_Interval DEF Workers
<1>2. \A S \in SUBSET Workers : IsFiniteSet(S) /\ Cardinality(S) \in Nat
  BY <1>1, FS_Subset, FS_CardinalityType
<1> QED
  BY <1>2 DEF Ended, AllPresent

(* Once every acknowledgement has been waited for, every thread has ended. *)
LEMMA AcksAllTaken ==
  ASSUME TypeOK, AckAccounting, mpc \in {"free", "join", "closed", "crashed"}
  PROVE  \A w \in Workers : wpc[w] \in {"null", "done"}
<1>1. ack + Cardinality(AllPresent) = Cardinality(Ended) /\ ack \in Nat
  BY DEF TypeOK, AckAccounting, Taken, AllPresent, Ended
<1>2. Ended \subseteq AllPresent
  BY DEF Ended, AllPresent, Present
<1>3. /\ IsFiniteSet(AllPresent)
      /\ Cardinality(AllPresent) \in Nat /\ Cardinality(Ended) \in Nat
  BY FiniteWorkers DEF AllPresent, Ended
<1>4. Cardinality(Ended) <= Cardinality(AllPresent)
  BY <1>2, <1>3, FS_Subset
<1>5. Ended = AllPresent
  BY <1>1, <1>2, <1>3, <1>4, FS_Subset
<1> QED
  BY <1>5 DEF Ended, AllPresent, Present

LEMMA FreedAfterAcks ==
  ASSUME TypeOK, AckAccounting, OwnerInOrder
  PROVE  FreedDone
BY AcksAllTaken DEF FreedDone, OwnerInOrder

(* A step after which the same threads have ended and the owner has waited *)
(* for the same acknowledgements.                                          *)
LEMMA SameAcks ==
  ASSUME AckAccounting, UNCHANGED ack, Ended' = Ended, Taken' = Taken
  PROVE  AckAccounting'
BY DEF AckAccounting, Ended

LEMMA WorkerAcks ==
  ASSUME Shape, AckAccounting, NEW w \in Workers, WorkerStep(w)
  PROVE  AckAccounting'
<1>1. /\ UNCHANGED <<mpc, mi>>
      /\ wpc[w] \in Running
      /\ wpc' = [wpc EXCEPT ![w] = wpc'[w]]
      /\ ack' = (IF wpc'[w] = "done" THEN ack + 1 ELSE ack)
  BY WorkerFrame DEF Shape
<1>2. \A v \in Workers : Present(v)' <=> Present(v)
  BY WorkerPresent DEF Shape
<1>3. TypeOK /\ ack \in Nat
  BY DEF Shape, TypeOK
<1>4. Taken' = Taken
  BY <1>1, <1>2 DEF Taken
<1>5. wpc[w] # "done" /\ w \notin Ended
  BY <1>1 DEF Running, Ended
<1>6. CASE wpc'[w] = "done"
  <2>1. Ended' = Ended \cup {w}
    BY <1>1, <1>3, <1>6 DEF Ended, TypeOK
  <2>2. Cardinality(Ended') = Cardinality(Ended) + 1
    BY <1>5, <2>1, FiniteWorkers, FS_AddElement
  <2>3. Cardinality(Taken) \in Nat
    BY FiniteWorkers DEF Taken
  <2>4. ack + Cardinality(Taken) = Cardinality(Ended)
    BY DEF AckAccounting, Ended
  <2>5. ack' + Cardinality(Taken') = Cardinality(Ended')
    BY <1>1, <1>3, <1>4, <1>6, <2>2, <2>3, <2>4
  <2> QED
    BY <2>5 DEF AckAccounting, Ended
<1>7. CASE wpc'[w] # "done"
  <2>1. Ended' = Ended
    BY <1>1, <1>3, <1>5, <1>7 DEF Ended, TypeOK
  <2> QED
    BY <1>1, <1>4, <1>7, <2>1, SameAcks
<1> QED
  BY <1>6, <1>7

LEMMA OwnerAcks ==
  ASSUME Shape, AckAccounting,
         InitWorker \/ StartDestroy \/ DestroyStep
  PROVE  AckAccounting'
<1>1. TypeOK /\ mi \in Workers /\ ack \in Nat
  BY DEF Shape, TypeOK
<1>2. CASE InitWorker
  <2>1. /\ mpc = "init" /\ mpc' \in {"init", "run"} /\ ack' = ack
        /\ wpc' \in {[wpc EXCEPT ![mi] = "null"], [wpc EXCEPT ![mi] = "top"],
                     [wpc EXCEPT ![mi] = "nothread"]}
    <3>1. mpc = "init" /\ mpc' \in {"init", "run"} /\ ack' = ack
      BY <1>2 DEF InitWorker, Loop, signalVars
    <3>2. PICK heapOk \in BOOLEAN, threadOk \in BOOLEAN :
            wpc' = [wpc EXCEPT ![mi] = IF ~heapOk THEN "null"
                                       ELSE IF threadOk THEN "top" ELSE "nothread"]
      BY <1>2 DEF InitWorker
    <3>3. CASE ~heapOk
      BY <3>1, <3>2, <3>3
    <3>4. CASE heapOk /\ threadOk
      BY <3>1, <3>2, <3>4
    <3>5. CASE heapOk /\ ~threadOk
      BY <3>1, <3>2, <3>5
    <3> QED
      BY <3>3, <3>4, <3>5
  <2>2. wpc[mi] = "null"
    BY <1>1, <2>1 DEF Shape, OwnerInOrder, Workers
  <2>3. Ended' = Ended
    BY <1>1, <2>1, <2>2 DEF Ended, TypeOK
  <2>4. Taken' = Taken
    BY <2>1 DEF Taken
  <2> QED
    BY <2>1, <2>3, <2>4, SameAcks
<1>3. CASE StartDestroy \/ SetShutdown \/ DestroyArena \/ DestroyNullArena \/ Join
  <2>1. UNCHANGED <<wpc, ack>>
    BY <1>3 DEF StartDestroy, SetShutdown, DestroyArena, DestroyNullArena, Join,
       threadVars, signalVars
  <2>2. \/ mpc \in {"run", "signal"} /\ mpc' \in {"signal", "wake"}
        \/ mpc \in {"free", "join"} /\ mpc' \in {"free", "join", "closed", "crashed"}
    BY <1>3 DEF StartDestroy, SetShutdown, DestroyArena, DestroyNullArena, Join, Loop
  <2>3. Taken' = Taken /\ Ended' = Ended
    BY <2>1, <2>2 DEF Taken, Ended, Present
  <2> QED
    BY <2>1, <2>3, SameAcks
<1>4. ASSUME NEW from \in {"signal", "await"}, NEW then \in {"await", "free"},
             from = "signal" <=> then = "await",
             Loop(from, then), UNCHANGED wpc
      PROVE  /\ mpc \in {"signal", "wake"} /\ from = "signal" => Taken' = Taken
             /\ mpc = "await" /\ from = "await" =>
                  Taken' = Taken \cup {w \in Workers : w = mi /\ Present(w)}
  <2>1. \/ mi < N /\ mpc' = from /\ mi' = mi + 1
        \/ mi = N /\ mpc' = then /\ mi' = 1
    BY <1>1, <1>4 DEF Loop, Workers
  <2>2. \A w \in Workers : Present(w)' <=> Present(w)
    BY <1>4 DEF Present
  <2>3. mi \in 1 .. N /\ Workers = 1 .. N
    BY <1>1 DEF Workers
  <2>4. ASSUME mpc \in {"signal", "wake"}, from = "signal"
        PROVE  Taken' = Taken
    <3>1. Taken = {}
      BY <2>4 DEF Taken
    <3>2. Taken' = {}
      BY <1>4, <2>1, <2>3, <2>4 DEF Taken
    <3> QED
      BY <3>1, <3>2
  <2>5. ASSUME mpc = "await", from = "await"
        PROVE  Taken' = Taken \cup {w \in Workers : w = mi /\ Present(w)}
    <3>1. Taken = {w \in Workers : w < mi /\ Present(w)}
      BY <2>5 DEF Taken
    <3>2. CASE mi < N /\ mpc' = from /\ mi' = mi + 1
      <4>1. Taken' = {w \in Workers : w < mi + 1 /\ Present(w)}
        BY <2>2, <2>5, <3>2 DEF Taken
      <4> QED
        BY <2>3, <3>1, <4>1
    <3>3. CASE mi = N /\ mpc' = then /\ mi' = 1
      <4>1. Taken' = {w \in Workers : Present(w)}
        BY <1>4, <2>2, <2>5, <3>3 DEF Taken
      <4> QED
        BY <2>3, <3>1, <3>3, <4>1
    <3> QED
      BY <2>1, <3>2, <3>3
  <2> QED
    BY <2>4, <2>5
<1>5. CASE WakeToStop
  <2>1. mpc = "wake" /\ Loop("signal", "await") /\ UNCHANGED <<wpc, ack>>
    BY <1>5 DEF WakeToStop, threadVars
  <2>2. Taken' = Taken /\ Ended' = Ended
    BY <1>4, <2>1 DEF Ended
  <2> QED
    BY <2>1, <2>2, SameAcks
<1>6. CASE AwaitAck
  <2>1. /\ mpc = "await" /\ Loop("await", "free") /\ UNCHANGED wpc
        /\ Present(mi) /\ ack > 0 /\ ack' = ack - 1
    BY <1>6 DEF AwaitAck, threadVars
  <2>2. Taken' = Taken \cup {mi} /\ Ended' = Ended
    BY <1>1, <1>4, <2>1 DEF Ended
  <2>3. mi \notin Taken /\ Taken \in SUBSET Workers
    BY <1>1, <2>1 DEF Taken, Workers
  <2>4. Cardinality(Taken') = Cardinality(Taken) + 1 /\ Cardinality(Taken) \in Nat
    BY <2>2, <2>3, FiniteWorkers, FS_AddElement
  <2>5. ack + Cardinality(Taken) = Cardinality(Ended)
    BY DEF AckAccounting, Ended
  <2>6. ack' + Cardinality(Taken') = Cardinality(Ended')
    BY <1>1, <2>1, <2>2, <2>4, <2>5
  <2> QED
    BY <2>6 DEF AckAccounting, Ended
<1>7. CASE SkipMissing
  <2>1. ~Present(mi) /\ UNCHANGED <<wpc, ack>>
    BY <1>7 DEF SkipMissing, threadVars, signalVars
  <2>2. CASE mpc = "signal" /\ Loop("signal", "await")
    BY <1>4, <2>1, <2>2, SameAcks DEF Ended
  <2>3. CASE mpc = "await" /\ Loop("await", "free")
    <3>1. Taken' = Taken
      BY <1>4, <2>1, <2>3
    <3> QED
      BY <2>1, <3>1, SameAcks DEF Ended
  <2>4. CASE mpc = "free" /\ Loop("free", "closed")
    <3>1. Taken' = Taken
      BY <2>1, <2>4 DEF Taken, Loop, Present
    <3> QED
      BY <2>1, <3>1, SameAcks DEF Ended
  <2> QED
    BY <1>7, <2>2, <2>3, <2>4 DEF SkipMissing
<1> QED
  BY <1>2, <1>3, <1>5, <1>6, <1>7 DEF DestroyStep

-----------------------------------------------------------------------------
(* IInv is an inductive invariant.                                         *)

LEMMA InitIInv == Init => IInv
<1> SUFFICES ASSUME Init PROVE IInv
  OBVIOUS
<1> USE DEF Init
<1>1. TypeOK
  <2>1. mpc \in OwnerSteps /\ mi \in Workers
    BY DEF OwnerSteps, Workers
  <2>2. wpc \in [Workers -> WorkerSteps]
    BY DEF WorkerSteps
  <2>3. Idle \in Calls
    BY DEF Idle, Calls, CallSteps
  <2>4. call \in [Callers -> Calls]
    BY <2>3
  <2>5. queue \in [Workers -> Seq(Blocks)] /\ pending \in [Workers -> Seq(Tasks)]
        /\ ran \in [Tasks -> Seq(Callbacks)]
    OBVIOUS
  <2> QED
    BY <2>1, <2>2, <2>4, <2>5 DEF TypeOK
<1>2. AckAccounting
  <2>1. Taken = {} /\ Ended = {}
    BY DEF Taken, Ended
  <2>2. ack = 0 /\ Cardinality({}) = 0
    BY FS_EmptySet
  <2> HIDE DEF Init
  <2>3. ack + Cardinality(Taken) = Cardinality(Ended)
    BY <2>1, <2>2
  <2> QED
    BY <2>3 DEF AckAccounting, Ended
<1>3. OwnerInOrder
  BY DEF OwnerInOrder, Workers
<1>4. QueuesInOrder
  BY DEF QueuesInOrder, Usable
<1>5. CallsInOrder
  BY DEF CallsInOrder, Idle
<1>6. ScanInBounds
  BY DEF ScanInBounds, Scanning, InCell
<1> QED
  BY <1>1, <1>2, <1>3, <1>4, <1>5, <1>6 DEF IInv

LEMMA UnchangedIInv ==
  ASSUME IInv, UNCHANGED vars
  PROVE  IInv'
<1>1. UNCHANGED <<mpc, mi, wpc, rb, ro, shutdown, sem, ack, arena, queue, current,
                  call, fresh, pending, active, ran, posted, snap>>
  BY DEF vars, ownerVars, threadVars, signalVars, arenaVars, historyVars
<1>2. TypeOK'
  BY <1>1 DEF IInv, TypeOK
<1>3. AckAccounting'
  BY <1>1 DEF IInv, AckAccounting, Taken, Present
<1>4. OwnerInOrder'
  BY <1>1 DEF IInv, OwnerInOrder, Present
<1>5. QueuesInOrder'
  BY <1>1 DEF IInv, QueuesInOrder, QueueInOrder, Usable, Present
<1>6. CallsInOrder'
  BY <1>1 DEF IInv, CallsInOrder, Usable
<1>7. ScanInBounds'
  BY <1>1 DEF IInv, ScanInBounds, Usable
<1> QED
  BY <1>2, <1>3, <1>4, <1>5, <1>6, <1>7 DEF IInv

(* A step that only a caller takes leaves the acknowledgements alone.      *)
LEMMA CallerAcks ==
  ASSUME AckAccounting,
         Submit \/ \E a \in Callers : EnqueueStep(a)
  PROVE  AckAccounting'
<1>1. UNCHANGED <<mpc, mi, wpc, ack>>
  <2>1. CASE Submit
    BY <2>1 DEF Submit, Enqueue, EnqueueRefused, ownerVars, threadVars, signalVars
  <2>2. CASE \E a \in Callers : EnqueueStep(a)
    BY <2>2 DEF EnqueueStep, AllocHere, AllocNextBlock, AllocNewBlock, TakeCell,
       AllocOutOfMemory, CopyBegin, CopyEnd, Post, ownerVars, threadVars, signalVars
  <2> QED
    BY <2>1, <2>2
<1>2. Taken' = Taken /\ Ended' = Ended
  BY <1>1 DEF Taken, Ended, Present
<1> QED
  BY <1>1, <1>2, SameAcks

LEMMA NextIInv == IInv /\ [Next]_vars => IInv'
<1> SUFFICES ASSUME IInv, [Next]_vars PROVE IInv'
  OBVIOUS
<1>1. Shape /\ TypeOK /\ AckAccounting /\ OwnerInOrder
  BY DEF IInv, Shape
<1>2. FreedDone
  BY <1>1, FreedAfterAcks
<1>3. ASSUME Shape', AckAccounting'
      PROVE  IInv'
  BY <1>3 DEF IInv, Shape
<1>4. CASE InitWorker
  BY <1>1, <1>3, <1>4, InitWorkerShape, OwnerAcks
<1>5. CASE StartDestroy
  BY <1>1, <1>3, <1>5, StartDestroyShape, OwnerAcks
<1>6. CASE Submit
  <2>1. Shape'
    BY <1>1, <1>2, <1>6, EnqueueShape, EnqueueRefusedShape DEF Submit
  <2> QED
    BY <1>1, <1>3, <1>6, <2>1, CallerAcks
<1>7. ASSUME NEW a \in Callers, EnqueueStep(a)
      PROVE  IInv'
  <2>1. Shape'
    BY <1>1, <1>7, AllocShape, OutOfMemoryShape, CopyBeginShape, CopyEndShape,
       PostShape DEF EnqueueStep
  <2> QED
    BY <1>1, <1>3, <1>7, <2>1, CallerAcks
<1>8. ASSUME NEW w \in Workers, WorkerStep(w)
      PROVE  IInv'
  <2>1. Shape'
    BY <1>1, <1>2, <1>8, ScanShape, ResetShape
  <2> QED
    BY <1>1, <1>3, <1>8, <2>1, WorkerAcks
<1>9. CASE DestroyStep
  <2>1. ASSUME SetShutdown PROVE Shape'
    BY <1>1, <2>1, SetShutdownShape
  <2>2. ASSUME WakeToStop PROVE Shape'
    BY <1>1, <2>2, WakeToStopShape
  <2>3. ASSUME AwaitAck PROVE Shape'
    BY <1>1, <2>3, AwaitAckShape
  <2>4. ASSUME DestroyArena PROVE Shape'
    <3>1. \A w \in Workers : wpc[w] \in {"null", "done"}
      BY <1>1, <2>4, AcksAllTaken DEF DestroyArena
    <3> QED
      BY <1>1, <2>4, <3>1, DestroyArenaShape
  <2>5. ASSUME DestroyNullArena \/ Join \/ SkipMissing PROVE Shape'
    BY <1>1, <2>5, JoinShape
  <2>6. Shape'
    BY <1>9, <2>1, <2>2, <2>3, <2>4, <2>5 DEF DestroyStep
  <2> QED
    BY <1>1, <1>3, <1>9, <2>6, OwnerAcks
<1>10. CASE Terminating \/ UNCHANGED vars
  BY <1>10, UnchangedIInv DEF Terminating
<1> QED
  BY <1>4, <1>5, <1>6, <1>7, <1>8, <1>9, <1>10 DEF Next

(* The invariant the other theorems follow from: the types, the accounting *)
(* of acknowledgements, and the order the owner, the queues, the calls in  *)
(* flight and the scans keep between them.                                 *)
THEOREM Invariance == Spec => []IInv
<1> QED
  BY InitIInv, NextIInv, PTL DEF Spec

(* Every variable keeps its type, whatever fails: the counts of the        *)
(* semaphores never go below zero and no block holds more than BlockCap.   *)
THEOREM TypeCorrect == Spec => []TypeOK
<1>1. IInv => TypeOK
  BY DEF IInv
<1> QED
  BY <1>1, Invariance, PTL

(* The acknowledgements destroy_workers() has waited for (reactor.c:613)   *)
(* and those still in ack_sem are those of the threads that have ended.    *)
THEOREM AcksAccounted == Spec => []AckAccounting
<1>1. IInv => AckAccounting
  BY DEF IInv
<1> QED
  BY <1>1, Invariance, PTL

(* No queue is destroyed (reactor.c:628) while its thread or an enqueue()  *)
(* may still use it: all the acknowledgements having been taken, every     *)
(* thread has passed its last statement, so no callback runs that could    *)
(* call enqueue(), and the owner is past its own calls.                    *)
THEOREM DestroyIsSafe == Spec => []NoUseAfterDestroy
<1>1. IInv => NoUseAfterDestroy
  <2> SUFFICES ASSUME IInv, NEW w \in Workers, arena[w] = "freed"
               PROVE  /\ wpc[w] = "done"
                      /\ \A a \in Callers : call[a] # Idle => call[a].w # w
    BY DEF NoUseAfterDestroy
  <2>1. TypeOK /\ OwnerInOrder /\ QueuesInOrder /\ CallsInOrder /\ AckAccounting
    BY DEF IInv
  <2>2. \A v \in Workers : wpc[v] \in {"null", "done"}
    BY <2>1, FreedAfterAcks DEF FreedDone
  <2>3. Present(w)
    BY <2>1 DEF QueuesInOrder
  <2>4. \A a \in Callers : call[a] # Idle => call[a].w # w
    BY <2>1 DEF CallsInOrder, Usable
  <2> QED
    BY <2>2, <2>3, <2>4 DEF Present
<1> QED
  BY <1>1, Invariance, PTL

(* The scan, which reads the queue without its mutex (reactor.c:48-93), is *)
(* always in a block that exists and on a task that was handed out.        *)
THEOREM ScanIsInBounds == Spec => []ScanInBounds
<1>1. IInv => ScanInBounds
  BY DEF IInv
<1> QED
  BY <1>1, Invariance, PTL

-----------------------------------------------------------------------------
(* The tasks that are in flight, wait or have been notified.               *)

Accounted == CallsApart /\ WaitsWhereSent /\ WakeUpsCount

(* What After() leaves of a queue was in it, and in the same order.        *)
LEMMA AfterIs ==
  ASSUME NEW s \in Seq(Tasks), NEW k \in DOMAIN s, NEW t, s[k] = t,
         \A l \in DOMAIN s : s[l] = t => l = k
  PROVE  /\ Len(After(s, t)) = Len(s) - k
         /\ \A l \in DOMAIN After(s, t) : l + k \in DOMAIN s /\ After(s, t)[l] = s[l + k]
<1>1. (CHOOSE l \in DOMAIN s : s[l] = t) = k
  OBVIOUS
<1>2. After(s, t) = SubSeq(s, 1 + k, Len(s))
  BY <1>1 DEF After
<1>3. 1 + k \in Int /\ Len(s) \in Int /\ k \in 1 .. Len(s)
  OBVIOUS
<1>4. \A i \in 1 + k .. Len(s) : s[i] \in Tasks
  BY <1>3
<1>5. /\ SubSeq(s, 1 + k, Len(s)) \in Seq(Tasks)
      /\ Len(SubSeq(s, 1 + k, Len(s))) = Len(s) - k
      /\ \A l \in 1 .. Len(s) - k : SubSeq(s, 1 + k, Len(s))[l] = s[l + k]
  BY <1>3, <1>4, SubSeqProperties
<1>6. After(s, t) \in Seq(Tasks) /\ Len(After(s, t)) = Len(s) - k
  BY <1>2, <1>5
<1>7. DOMAIN After(s, t) = 1 .. Len(s) - k
  BY <1>6
<1>8. ASSUME NEW l \in 1 .. Len(s) - k
      PROVE  l + k \in DOMAIN s /\ After(s, t)[l] = s[l + k]
  <2>1. l + k \in 1 .. Len(s)
    BY <1>3
  <2> QED
    BY <1>2, <1>5, <2>1
<1> QED
  BY <1>6, <1>7, <1>8

(* What After() leaves of a queue was in it. *)
LEMMA AfterElements ==
  ASSUME NEW s \in Seq(Tasks), NEW t, NEW l \in DOMAIN After(s, t)
  PROVE  \E k \in DOMAIN s : After(s, t)[l] = s[k]
<1>1. CASE \E k \in DOMAIN s : s[k] = t
  <2> DEFINE j == CHOOSE k \in DOMAIN s : s[k] = t
  <2>1. j \in 1 .. Len(s)
    BY <1>1
  <2>2. After(s, t) = SubSeq(s, 1 + j, Len(s))
    BY <1>1 DEF After
  <2> HIDE DEF j
  <2>3. 1 + j \in Int /\ Len(s) \in Int
    BY <2>1
  <2>4. \A i \in 1 + j .. Len(s) : s[i] \in Tasks
    BY <2>1
  <2>5. /\ Len(SubSeq(s, 1 + j, Len(s))) = Len(s) - j
        /\ \A i \in 1 .. Len(s) - j : SubSeq(s, 1 + j, Len(s))[i] = s[i + j]
        /\ SubSeq(s, 1 + j, Len(s)) \in Seq(Tasks)
    BY <2>1, <2>3, <2>4, SubSeqProperties
  <2>6. l \in 1 .. Len(s) - j /\ l + j \in DOMAIN s
    BY <2>1, <2>2, <2>5
  <2> QED
    BY <2>2, <2>5, <2>6
<1>2. CASE ~ \E k \in DOMAIN s : s[k] = t
  BY <1>2 DEF After
<1> QED
  BY <1>1, <1>2

(* An empty queue has no elements. *)
LEMMA EmptyDomain ==
  ASSUME NEW s \in Seq(Tasks), \A k \in DOMAIN s : FALSE
  PROVE  s = << >>
<1> SUFFICES ASSUME s # << >> PROVE FALSE
  OBVIOUS
<1>1. Len(s) \in Nat \ {0} /\ DOMAIN s = 1 .. Len(s)
  BY EmptySeq
<1>2. 1 \in DOMAIN s
  BY <1>1
<1> QED
  BY <1>2

(* A call in flight has a task. *)
LEMMA CallsTask ==
  ASSUME Shape, NEW a \in Callers
  PROVE  call[a] # Idle <=> call[a].t \in Tasks
<1>1. call[a].step = "idle" => call[a] = Idle
  BY DEF Shape, CallsInOrder
<1>2. call[a].step # "idle" => call[a].t \in Tasks
  BY DEF Shape, CallsInOrder
<1>3. Idle.t \notin Tasks
  BY DEF Idle
<1> QED
  BY <1>1, <1>2, <1>3

(* A step that begins no call, accepts no task and wakes no worker for one *)
(* more task.                                                              *)
LEMMA AccountedFrame ==
  ASSUME Shape, Shape', Accounted, posted' = posted, fresh' \subseteq fresh,
         \A a \in Callers :
           /\ \/ call'[a] \in {call[a], Idle}
              \/ /\ call[a].step \in WithCell /\ call'[a].step \in WithCell
                 /\ call'[a].w = call[a].w /\ call'[a].t = call[a].t
           /\ call'[a] # Idle /\ call[a].t \in fresh => call[a].t \in fresh',
         \A w \in Workers :
           /\ \A k \in DOMAIN pending'[w] : \E l \in DOMAIN pending[w] :
                pending'[w][k] = pending[w][l]
           /\ ~Usable(w)' => pending'[w] = << >>
           /\ wpc'[w] \in {"top", "wait"} /\ sem'[w] = 0 =>
                pending'[w] = << >> \/ (wpc[w] \in {"top", "wait"} /\ sem[w] = 0)
  PROVE  Accounted'
<1>1. \A a \in Callers : call'[a] # Idle =>
        /\ call[a] # Idle /\ call'[a].t = call[a].t /\ call'[a].w = call[a].w
        /\ call'[a].step = "alloc" <=> call[a].step = "alloc"
  <2> SUFFICES ASSUME NEW a \in Callers, call'[a] # Idle
               PROVE  /\ call[a] # Idle /\ call'[a].t = call[a].t /\ call'[a].w = call[a].w
                      /\ call'[a].step = "alloc" <=> call[a].step = "alloc"
    OBVIOUS
  <2>1. Idle.step \notin WithCell /\ "alloc" \notin WithCell
    BY DEF Idle, WithCell
  <2>2. CASE call'[a] = call[a]
    BY <2>2
  <2>3. CASE /\ call[a].step \in WithCell /\ call'[a].step \in WithCell
             /\ call'[a].w = call[a].w /\ call'[a].t = call[a].t
    BY <2>1, <2>3
  <2> QED
    BY <2>2, <2>3
<1>2. CallsApart'
  <2>1. ASSUME NEW a \in Callers, NEW b \in Callers, call'[a] # Idle,
               call'[a].t = call'[b].t
        PROVE  a = b
    <3>1. call'[a].t \in Tasks /\ Idle.t \notin Tasks
      BY <1>1, <2>1, CallsTask DEF Idle
    <3>2. call'[b] # Idle
      BY <2>1, <3>1
    <3> QED
      BY <1>1, <2>1, <3>2 DEF Accounted, CallsApart
  <2>2. ASSUME NEW a \in Callers, call'[a] # Idle
        PROVE  call'[a].step = "alloc" <=> call'[a].t \in fresh'
    BY <1>1, <2>2 DEF Accounted, CallsApart
  <2> QED
    BY <2>1, <2>2 DEF CallsApart
<1>3. WaitsWhereSent'
  <2>1. \A w \in Workers : ~Usable(w)' => pending'[w] = << >>
    OBVIOUS
  <2>2. ASSUME NEW w \in Workers, NEW k \in DOMAIN pending'[w]
        PROVE  pending'[w][k] \notin fresh'
    <3>1. PICK l \in DOMAIN pending[w] : pending'[w][k] = pending[w][l]
      BY <2>2
    <3> QED
      BY <3>1 DEF Accounted, WaitsWhereSent
  <2>3. ASSUME NEW w \in Workers, NEW a \in Callers, NEW k \in DOMAIN pending'[w],
               call'[a] # Idle, call'[a].t = pending'[w][k]
        PROVE  call'[a].w = w
    <3>1. PICK l \in DOMAIN pending[w] : pending'[w][k] = pending[w][l]
      BY <2>3
    <3>2. call[a] # Idle /\ call[a].t = pending[w][l] /\ call'[a].w = call[a].w
      BY <1>1, <2>3, <3>1
    <3> QED
      BY <3>1, <3>2 DEF Accounted, WaitsWhereSent
  <2>4. posted' \cap fresh' = {}
    BY DEF Accounted, WaitsWhereSent
  <2> QED
    BY <2>1, <2>2, <2>3, <2>4 DEF WaitsWhereSent
<1>4. WakeUpsCount'
  <2> SUFFICES ASSUME NEW w \in Workers, wpc'[w] \in {"top", "wait"}, sem'[w] = 0,
                      NEW k \in DOMAIN pending'[w]
               PROVE  pending'[w][k] \notin posted'
    BY DEF WakeUpsCount
  <2>1. PICK l \in DOMAIN pending[w] : pending'[w][k] = pending[w][l]
    OBVIOUS
  <2>2. pending'[w] # << >>
    OBVIOUS
  <2>3. wpc[w] \in {"top", "wait"} /\ sem[w] = 0
    BY <2>2
  <2> QED
    BY <2>1, <2>3 DEF Accounted, WakeUpsCount
<1> QED
  BY <1>2, <1>3, <1>4 DEF Accounted

(* enqueue() puts a task where it was sent and posts after that. *)
LEMMA EnqueueAccounted ==
  ASSUME Shape, Accounted, NEW a \in Callers, NEW w \in Workers, NEW t \in Tasks,
         NEW n \in BOOLEAN, Enqueue(a, w, t, n)
  PROVE  Accounted'
<1> DEFINE new == [step |-> "alloc", w |-> w, t |-> t, notify |-> n, b |-> 0, i |-> 0]
<1>1. /\ UNCHANGED <<wpc, sem, arena, fresh, pending, posted>>
      /\ call' = [call EXCEPT ![a] = new]
      /\ t \in fresh /\ \A b \in Callers : call[b].t # t
  BY DEF Enqueue, Begin, MayCall, threadVars, signalVars, arenaVars, historyVars
<1>2. call \in [Callers -> Calls]
  BY DEF Shape, TypeOK
<1>3. call'[a] = new /\ \A b \in Callers \ {a} : call'[b] = call[b]
  BY <1>1, <1>2
<1>4. new.t = t /\ new.step = "alloc"
  OBVIOUS
<1> HIDE DEF new
<1>5. CallsApart'
  <2>1. ASSUME NEW b \in Callers, NEW c \in Callers, call'[b] # Idle, call'[b].t = call'[c].t
        PROVE  b = c
    <3>1. CASE b = a
      BY <1>1, <1>3, <1>4, <2>1, <3>1
    <3>2. CASE c = a
      BY <1>1, <1>3, <1>4, <2>1, <3>2
    <3>3. CASE b # a /\ c # a
      BY <1>3, <2>1, <3>3 DEF Accounted, CallsApart
    <3> QED
      BY <3>1, <3>2, <3>3
  <2>2. ASSUME NEW b \in Callers, call'[b] # Idle
        PROVE  call'[b].step = "alloc" <=> call'[b].t \in fresh'
    BY <1>1, <1>3, <1>4, <2>2 DEF Accounted, CallsApart
  <2> QED
    BY <2>1, <2>2 DEF CallsApart
<1>6. WaitsWhereSent'
  <2>1. ASSUME NEW v \in Workers, NEW b \in Callers, NEW k \in DOMAIN pending'[v],
               call'[b] # Idle, call'[b].t = pending'[v][k]
        PROVE  call'[b].w = v
    BY <1>1, <1>3, <1>4, <2>1 DEF Accounted, WaitsWhereSent
  <2>2. \A v \in Workers : Usable(v)' <=> Usable(v)
    BY <1>1 DEF Usable
  <2> QED
    BY <1>1, <2>1, <2>2 DEF Accounted, WaitsWhereSent
<1>7. WakeUpsCount'
  BY <1>1 DEF Accounted, WakeUpsCount
<1> QED
  BY <1>5, <1>6, <1>7 DEF Accounted

(* arena_alloc() accepts a task that was fresh until then. *)
LEMMA TakeCellAccounted ==
  ASSUME Shape, Accounted, NEW a \in Callers, Allocating(a), NEW b, NEW q,
         TakeCell(a, b, q)
  PROVE  Accounted'
<1> DEFINE w == call[a].w
           t == call[a].t
           new == [step |-> "copy", w |-> w, t |-> t, notify |-> call[a].notify,
                   b |-> b, i |-> q[b].off + 1]
<1>1. /\ UNCHANGED <<wpc, sem, arena, posted>>
      /\ call' = [call EXCEPT ![a] = new]
      /\ fresh' = fresh \ {t}
      /\ pending' = [pending EXCEPT ![w] = Append(pending[w], t)]
  BY DEF TakeCell, threadVars, signalVars
<1>2. /\ call \in [Callers -> Calls] /\ pending \in [Workers -> Seq(Tasks)]
      /\ w \in Workers /\ t \in Tasks /\ Usable(w) /\ call[a] # Idle
  <2>1. call[a].step # "idle" /\ call[a] # Idle
    BY DEF Allocating, Idle
  <2>2. w \in Workers /\ t \in Tasks /\ Usable(w)
    BY <2>1, CallInFlight
  <2> QED
    BY <2>1, <2>2 DEF Shape, TypeOK
<1>3. call'[a] = new /\ \A c \in Callers \ {a} : call'[c] = call[c]
  BY <1>1, <1>2
<1>4. new.t = t /\ new.step = "copy" /\ new.w = w
  OBVIOUS
<1>5. t \in fresh /\ t \notin posted
  BY <1>2 DEF Accounted, CallsApart, WaitsWhereSent, Allocating
<1>6. \A c \in Callers : call[c].t = t => c = a
  BY <1>2 DEF Accounted, CallsApart
<1>7. \A v \in Workers : \A k \in DOMAIN pending[v] :
        pending[v][k] \notin fresh /\ pending[v][k] # t
  BY <1>5 DEF Accounted, WaitsWhereSent
<1> HIDE DEF new, w, t
<1>8. \A v \in Workers : \A k \in DOMAIN pending'[v] :
        \/ v = w /\ pending'[v][k] = t
        \/ k \in DOMAIN pending[v] /\ pending'[v][k] = pending[v][k]
  <2> SUFFICES ASSUME NEW v \in Workers, NEW k \in DOMAIN pending'[v]
               PROVE  \/ v = w /\ pending'[v][k] = t
                      \/ k \in DOMAIN pending[v] /\ pending'[v][k] = pending[v][k]
    OBVIOUS
  <2>1. CASE v # w
    BY <1>1, <1>2, <2>1
  <2>2. CASE v = w
    <3>1. pending'[v] = Append(pending[v], t) /\ pending[v] \in Seq(Tasks)
      BY <1>1, <1>2, <2>2
    <3>2. /\ Len(Append(pending[v], t)) = Len(pending[v]) + 1
          /\ \A l \in 1 .. Len(pending[v]) : Append(pending[v], t)[l] = pending[v][l]
          /\ Append(pending[v], t)[Len(pending[v]) + 1] = t
          /\ Append(pending[v], t) \in Seq(Tasks)
      BY <1>2, <3>1, AppendProperties
    <3> QED
      BY <2>2, <3>1, <3>2
  <2> QED
    BY <2>1, <2>2
<1>9. CallsApart'
  <2>1. ASSUME NEW c \in Callers, NEW d \in Callers, call'[c] # Idle, call'[c].t = call'[d].t
        PROVE  c = d
    <3>1. \A e \in Callers : call'[e].t = call[e].t /\ (call'[e] # Idle => call[e] # Idle)
      BY <1>2, <1>3, <1>4 DEF t
    <3> QED
      BY <2>1, <3>1 DEF Accounted, CallsApart
  <2>2. ASSUME NEW c \in Callers, call'[c] # Idle
        PROVE  call'[c].step = "alloc" <=> call'[c].t \in fresh'
    <3>1. CASE c = a
      BY <1>1, <1>3, <1>4, <3>1
    <3>2. CASE c # a
      BY <1>1, <1>3, <1>6, <2>2, <3>2 DEF Accounted, CallsApart
    <3> QED
      BY <3>1, <3>2
  <2> QED
    BY <2>1, <2>2 DEF CallsApart
<1>10. WaitsWhereSent'
  <2>1. \A v \in Workers : Usable(v)' <=> Usable(v)
    BY <1>1 DEF Usable
  <2>2. ASSUME NEW v \in Workers, ~Usable(v)'
        PROVE  pending'[v] = << >>
    <3>1. v # w
      BY <1>2, <2>1, <2>2
    <3> QED
      BY <1>1, <1>2, <2>1, <2>2, <3>1 DEF Accounted, WaitsWhereSent
  <2>3. \A v \in Workers : \A k \in DOMAIN pending'[v] : pending'[v][k] \notin fresh'
    BY <1>1, <1>7, <1>8
  <2>4. ASSUME NEW v \in Workers, NEW c \in Callers, NEW k \in DOMAIN pending'[v],
               call'[c] # Idle, call'[c].t = pending'[v][k]
        PROVE  call'[c].w = v
    <3>1. CASE c = a
      BY <1>3, <1>4, <1>7, <1>8, <2>4, <3>1
    <3>2. CASE c # a
      <4>1. call'[c] = call[c] /\ call[c].t # t
        BY <1>3, <1>6, <3>2
      <4> QED
        BY <1>8, <2>4, <4>1 DEF Accounted, WaitsWhereSent
    <3> QED
      BY <3>1, <3>2
  <2>5. posted' \cap fresh' = {}
    BY <1>1 DEF Accounted, WaitsWhereSent
  <2> QED
    BY <2>2, <2>3, <2>4, <2>5 DEF WaitsWhereSent
<1>11. WakeUpsCount'
  BY <1>1, <1>5, <1>8 DEF Accounted, WakeUpsCount
<1> QED
  BY <1>9, <1>10, <1>11 DEF Accounted

(* enqueue() wakes the worker whose queue the task waits in. *)
LEMMA PostAccounted ==
  ASSUME Shape, Accounted, NEW a \in Callers, Post(a)
  PROVE  Accounted'
<1> DEFINE w == call[a].w
           t == call[a].t
<1>1. /\ UNCHANGED <<wpc, arena, fresh, pending>>
      /\ call' = [call EXCEPT ![a] = Idle]
      /\ posted' = posted \cup {t}
      /\ sem' = [sem EXCEPT ![w] = sem[w] + 1]
      /\ call[a].step = "post"
  BY DEF Post, Notify, threadVars, arenaVars
<1>2. /\ call \in [Callers -> Calls] /\ sem \in [Workers -> Nat]
      /\ w \in Workers /\ t \in Tasks /\ call[a] # Idle
  BY <1>1, CallInFlight DEF Shape, TypeOK, Idle
<1>3. call'[a] = Idle /\ \A c \in Callers \ {a} : call'[c] = call[c]
  BY <1>1, <1>2
<1>4. t \notin fresh
  BY <1>1, <1>2 DEF Accounted, CallsApart
<1>5. \A v \in Workers : \A k \in DOMAIN pending[v] : pending[v][k] = t => v = w
  BY <1>2 DEF Accounted, WaitsWhereSent
<1> HIDE DEF w, t
<1>6. CallsApart'
  <2>1. ASSUME NEW c \in Callers, NEW d \in Callers, call'[c] # Idle, call'[c].t = call'[d].t
        PROVE  c = d
    <3>1. c # a /\ call'[c] = call[c] /\ call[c].t \in Tasks
      BY <1>3, <2>1, CallsTask
    <3>2. d # a
      BY <1>3, <2>1, <3>1 DEF Idle
    <3> QED
      BY <1>3, <2>1, <3>1, <3>2 DEF Accounted, CallsApart
  <2>2. ASSUME NEW c \in Callers, call'[c] # Idle
        PROVE  call'[c].step = "alloc" <=> call'[c].t \in fresh'
    BY <1>1, <1>3, <2>2 DEF Accounted, CallsApart
  <2> QED
    BY <2>1, <2>2 DEF CallsApart
<1>7. WaitsWhereSent'
  <2>1. \A v \in Workers : Usable(v)' <=> Usable(v)
    BY <1>1 DEF Usable
  <2>2. ASSUME NEW v \in Workers, NEW c \in Callers, NEW k \in DOMAIN pending'[v],
               call'[c] # Idle, call'[c].t = pending'[v][k]
        PROVE  call'[c].w = v
    BY <1>1, <1>3, <2>2 DEF Accounted, WaitsWhereSent
  <2>3. posted' \cap fresh' = {}
    BY <1>1, <1>4 DEF Accounted, WaitsWhereSent
  <2> QED
    BY <1>1, <2>1, <2>2, <2>3 DEF Accounted, WaitsWhereSent
<1>8. WakeUpsCount'
  <2> SUFFICES ASSUME NEW v \in Workers, wpc[v] \in {"top", "wait"}, sem'[v] = 0,
                      NEW k \in DOMAIN pending[v]
               PROVE  pending[v][k] \notin posted'
    BY <1>1 DEF WakeUpsCount
  <2>1. sem'[w] > 0
    <3>1. sem'[w] = sem[w] + 1 /\ sem[w] \in Nat
      BY <1>1, <1>2
    <3> QED
      BY <3>1
  <2>2. v # w /\ sem[v] = 0
    BY <1>1, <1>2, <2>1
  <2> QED
    BY <1>1, <1>5, <2>2 DEF Accounted, WakeUpsCount
<1> QED
  BY <1>6, <1>7, <1>8 DEF Accounted

(* Whatever the owner and its callers do, no notified task is stranded. *)
LEMMA CallerAccounted ==
  ASSUME Shape, Shape', Accounted, NEW a \in Callers,
         \/ \E w \in Workers, t \in Tasks : EnqueueRefused(a, w, t)
         \/ AllocOutOfMemory(a) \/ CopyBegin(a) \/ CopyEnd(a)
  PROVE  Accounted'
<1>1. UNCHANGED <<wpc, sem, pending, posted>> /\ fresh' \subseteq fresh
  BY DEF EnqueueRefused, AllocOutOfMemory, CopyBegin, CopyEnd, threadVars,
     signalVars, historyVars
<1>2. \A w \in Workers : Usable(w)' <=> Usable(w)
  <2>1. CASE AllocOutOfMemory(a)
    <3>1. /\ arena[call[a].w] = "live" /\ arena' = [arena EXCEPT ![call[a].w] = "locked"]
          /\ call[a].step # "idle"
      BY <2>1 DEF AllocOutOfMemory, Allocating
    <3>2. call[a].w \in Workers /\ arena \in [Workers -> {"none", "live", "locked", "freed"}]
      BY <3>1, CallInFlight DEF Shape, TypeOK
    <3> QED
      BY <3>1, <3>2 DEF Usable
  <2>2. CASE ~AllocOutOfMemory(a)
    BY <2>2 DEF EnqueueRefused, CopyBegin, CopyEnd, arenaVars, Usable
  <2> QED
    BY <2>1, <2>2
<1>3. ASSUME NEW b \in Callers
      PROVE  /\ \/ call'[b] \in {call[b], Idle}
                \/ /\ call[b].step \in WithCell /\ call'[b].step \in WithCell
                   /\ call'[b].w = call[b].w /\ call'[b].t = call[b].t
             /\ call'[b] # Idle /\ call[b].t \in fresh => call[b].t \in fresh'
  <2>1. CASE \E w \in Workers, t \in Tasks : EnqueueRefused(a, w, t)
    BY <2>1 DEF EnqueueRefused, MayCall
  <2>2. CASE AllocOutOfMemory(a)
    <3>1. /\ call' = [call EXCEPT ![a] = Idle] /\ fresh' = fresh \ {call[a].t}
          /\ call[a].step = "alloc"
      BY <2>2 DEF AllocOutOfMemory, Allocating
    <3>2. call \in [Callers -> Calls] /\ call[a] # Idle
      <4>1. Idle.step = "idle"
        BY DEF Idle
      <4> QED
        BY <3>1, <4>1 DEF Shape, TypeOK
    <3>3. CASE b = a
      BY <3>1, <3>2, <3>3
    <3>4. CASE b # a
      <4>1. call'[b] = call[b]
        BY <3>1, <3>2, <3>4
      <4>2. call[b].t # call[a].t
        BY <3>2, <3>4 DEF Accounted, CallsApart
      <4> QED
        BY <3>1, <4>1, <4>2
    <3> QED
      BY <3>3, <3>4
  <2>3. CASE CopyBegin(a)
    <3>1. call[a].step = "copy" /\ fresh' = fresh
      BY <2>3 DEF CopyBegin, historyVars
    <3> QED
      BY <2>3, <3>1, CopyBeginCalls DEF WithCell, Copying
  <2>4. CASE CopyEnd(a)
    <3>1. call[a].step \in {"copying", "torn"} /\ fresh' = fresh
      BY <2>4 DEF CopyEnd, historyVars
    <3> QED
      BY <2>4, <3>1, CopyEndCalls DEF WithCell
  <2> QED
    BY <2>1, <2>2, <2>3, <2>4
<1>4. ASSUME NEW w \in Workers
      PROVE  /\ \A k \in DOMAIN pending'[w] : \E l \in DOMAIN pending[w] :
                  pending'[w][k] = pending[w][l]
             /\ ~Usable(w)' => pending'[w] = << >>
             /\ wpc'[w] \in {"top", "wait"} /\ sem'[w] = 0 =>
                  pending'[w] = << >> \/ (wpc[w] \in {"top", "wait"} /\ sem[w] = 0)
  BY <1>1, <1>2 DEF Accounted, WaitsWhereSent
<1> QED
  BY <1>1, <1>3, <1>4, AccountedFrame

(* A worker comes back to sem_wait() only with nothing left to run. *)
LEMMA WorkerAccounted ==
  ASSUME Shape, Shape', Accounted, NEW w \in Workers, WorkerStep(w)
  PROVE  Accounted'
<1>1. /\ UNCHANGED <<arena, fresh, posted>> /\ wpc' = [wpc EXCEPT ![w] = wpc'[w]]
  BY WorkerFrame DEF Shape
<1>2. /\ wpc \in [Workers -> WorkerSteps] /\ pending \in [Workers -> Seq(Tasks)]
      /\ sem \in [Workers -> Nat]
  BY DEF Shape, TypeOK
<1>3. \A b \in Callers :
        \/ call'[b] = call[b]
        \/ /\ call[b].step \in WithCell /\ call'[b].step \in WithCell
           /\ call'[b].w = call[b].w /\ call'[b].t = call[b].t
  <2>1. CASE Reset(w)
    <3> SUFFICES ASSUME NEW b \in Callers, call'[b] # call[b]
                 PROVE  /\ call[b].step \in WithCell /\ call'[b].step \in WithCell
                        /\ call'[b].w = call[b].w /\ call'[b].t = call[b].t
      OBVIOUS
    <3>1. call[b].step = "copying" /\ call'[b] = Tear(call[b]) /\ call[b] \in Calls
      BY <2>1 DEF Reset, Shape, TypeOK
    <3>2. call'[b].step = "torn"
      BY <3>1 DEF Tear, Calls
    <3> QED
      BY <3>1, <3>2, TearType DEF WithCell
  <2>2. CASE ~Reset(w)
    BY <2>2, WorkerData
  <2> QED
    BY <2>1, <2>2
<1>4. \A v \in Workers : Usable(v)' <=> Usable(v)
  BY <1>1 DEF Usable
<1>5. ASSUME NEW v \in Workers, NEW k \in DOMAIN pending'[v]
      PROVE  \E l \in DOMAIN pending[v] : pending'[v][k] = pending[v][l]
  <2>1. CASE v # w
    <3>1. pending'[v] = pending[v]
      <4>1. CASE Reset(w)
        BY <1>2, <2>1, <4>1 DEF Reset
      <4>2. CASE ~Reset(w)
        <5>1. pending' = pending \/ \E t \in Tasks : pending' = [pending EXCEPT ![w] = After(@, t)]
          BY <4>2, WorkerData
        <5> QED
          BY <1>2, <2>1, <5>1
      <4> QED
        BY <4>1, <4>2
    <3> QED
      BY <1>5, <3>1
  <2>2. CASE v = w
    <3>1. CASE Reset(w)
      BY <1>2, <1>5, <2>2, <3>1 DEF Reset
    <3>2. CASE ~Reset(w)
      <4>1. pending' = pending \/ \E t \in Tasks : pending' = [pending EXCEPT ![w] = After(@, t)]
        BY <3>2, WorkerData
      <4>2. CASE pending' = pending
        BY <1>5, <4>2
      <4>3. ASSUME NEW t \in Tasks, pending' = [pending EXCEPT ![w] = After(@, t)]
            PROVE  \E l \in DOMAIN pending[v] : pending'[v][k] = pending[v][l]
        <5>1. pending'[v] = After(pending[v], t) /\ pending[v] \in Seq(Tasks)
          BY <1>2, <2>2, <4>3
        <5> QED
          BY <1>5, <5>1, AfterElements
      <4> QED
        BY <4>1, <4>2, <4>3
    <3> QED
      BY <3>1, <3>2
  <2> QED
    BY <2>1, <2>2
<1>6. ASSUME NEW v \in Workers, ~Usable(v)'
      PROVE  pending'[v] = << >>
  <2>1. pending[v] = << >>
    BY <1>4, <1>6 DEF Accounted, WaitsWhereSent
  <2>2. pending' \in [Workers -> Seq(Tasks)]
    BY DEF Shape, TypeOK
  <2>3. pending'[v] \in Seq(Tasks) /\ \A k \in DOMAIN pending[v] : FALSE
    BY <2>1, <2>2
  <2>4. \A k \in DOMAIN pending'[v] : FALSE
    BY <1>5, <2>3
  <2> QED
    BY <2>3, <2>4, EmptyDomain
<1>7. ASSUME NEW v \in Workers, wpc'[v] \in {"top", "wait"}, sem'[v] = 0
      PROVE  pending'[v] = << >> \/ (wpc[v] \in {"top", "wait"} /\ sem[v] = 0)
  <2> USE DEF Go, At, ThreadOnly, signalVars
  <2>1. CASE v = w
    <3>1. CASE Reset(w)
      BY <1>2, <2>1, <3>1 DEF Reset
    <3>2. CASE Top(w)
      BY <1>2, <1>7, <2>1, <3>2 DEF Top
    <3>3. CASE ~Reset(w) /\ ~Top(w)
      <4>1. wpc'[w] \notin {"top", "wait"}
        BY <1>2, <3>3 DEF WorkerStep, SemWait, WokenToStop, StartScan, SkipWiped, NextBlock,
          ToNextBlock, TakeTask, OnLoad, Execute, Return, OnExit, Advance, Ack
      <4> QED
        BY <1>7, <2>1, <4>1
    <3> QED
      BY <3>1, <3>2, <3>3
  <2>2. CASE v # w
    <3>1. sem'[v] = sem[v]
      <4>1. CASE Reset(w)
        BY <4>1 DEF Reset
      <4>2. CASE ~Reset(w)
        <5>1. sem' \in {sem, [sem EXCEPT ![w] = @ - 1]}
          BY <4>2, WorkerData
        <5> QED
          BY <1>2, <2>2, <5>1
      <4> QED
        BY <4>1, <4>2
    <3> QED
      BY <1>1, <1>2, <1>7, <2>2, <3>1
  <2> QED
    BY <2>1, <2>2
<1>8. \A b \in Callers :
        /\ \/ call'[b] \in {call[b], Idle}
           \/ /\ call[b].step \in WithCell /\ call'[b].step \in WithCell
              /\ call'[b].w = call[b].w /\ call'[b].t = call[b].t
        /\ call'[b] # Idle /\ call[b].t \in fresh => call[b].t \in fresh'
  BY <1>1, <1>3
<1>9. \A v \in Workers :
        /\ \A k \in DOMAIN pending'[v] : \E l \in DOMAIN pending[v] :
             pending'[v][k] = pending[v][l]
        /\ ~Usable(v)' => pending'[v] = << >>
        /\ wpc'[v] \in {"top", "wait"} /\ sem'[v] = 0 =>
             pending'[v] = << >> \/ (wpc[v] \in {"top", "wait"} /\ sem[v] = 0)
  BY <1>5, <1>6, <1>7
<1>10. posted' = posted /\ fresh' \subseteq fresh
  BY <1>1
<1> QED
  BY <1>8, <1>9, <1>10, AccountedFrame

(* init_worker() finds a worker_t that nobody has used. *)
LEMMA InitWorkerFrame ==
  ASSUME Shape, InitWorker
  PROVE  /\ mi \in Workers /\ wpc[mi] = "null" /\ arena[mi] = "none" /\ current[mi] = 1
         /\ UNCHANGED <<rb, ro, shutdown, sem, ack, current, call, fresh, pending,
                        active, ran, posted, snap>>
         /\ \A w \in Workers \ {mi} : /\ wpc'[w] = wpc[w] /\ arena'[w] = arena[w]
                                      /\ queue'[w] = queue[w]
         /\ wpc'[mi] \in {"null", "top", "nothread"}
         /\ queue'[mi] \in {<<NewBlock>>, << >>}
         /\ mpc = "init" /\ mpc' \in {"init", "run"}
<1>1. PICK pc \in {"null", "top", "nothread"}, st \in {"live", "none"} :
         /\ wpc' = [wpc EXCEPT ![mi] = pc]
         /\ arena' = [arena EXCEPT ![mi] = st]
         /\ queue' = [queue EXCEPT ![mi] = IF st = "live" THEN <<NewBlock>> ELSE << >>]
         /\ pc = "null" => st = "none"
  BY InitWorkerMakes
<1>2. /\ mpc = "init" /\ Loop("init", "run")
      /\ UNCHANGED <<rb, ro, shutdown, sem, ack, current, call, fresh, pending,
                     active, ran, posted, snap>>
  BY DEF InitWorker, signalVars, historyVars
<1>3. TypeOK /\ mi \in Workers
  BY DEF Shape, TypeOK
<1>4. mpc' \in {"init", "run"}
  BY <1>2 DEF Loop
<1>5. wpc[mi] = "null" /\ arena[mi] = "none" /\ current[mi] = 1
  <2>1. wpc[mi] = "null"
    BY <1>2, <1>3 DEF Shape, OwnerInOrder, Workers
  <2> QED
    BY <1>3, <2>1 DEF Shape, QueuesInOrder, Present
<1>6. /\ \A w \in Workers \ {mi} : /\ wpc'[w] = wpc[w] /\ arena'[w] = arena[w]
                                   /\ queue'[w] = queue[w]
      /\ wpc'[mi] \in {"null", "top", "nothread"}
      /\ queue'[mi] \in {<<NewBlock>>, << >>}
  BY <1>1, <1>3 DEF TypeOK
<1> QED
  BY <1>2, <1>3, <1>4, <1>5, <1>6

(* init_worker() and destroy_workers() owe no task. *)
LEMMA OwnerAccounted ==
  ASSUME Shape, Shape', Accounted, InitWorker \/ StartDestroy \/ DestroyStep
  PROVE  Accounted'
<1>1. UNCHANGED <<call, fresh, posted>>
  BY DEF InitWorker, StartDestroy, DestroyStep, SetShutdown, WakeToStop, AwaitAck,
     DestroyArena, DestroyNullArena, Join, SkipMissing, historyVars
<1>2. /\ wpc \in [Workers -> WorkerSteps] /\ pending \in [Workers -> Seq(Tasks)]
      /\ sem \in [Workers -> Nat] /\ arena \in [Workers -> {"none", "live", "locked", "freed"}]
      /\ mi \in Workers
  BY DEF Shape, TypeOK
<1>3. ASSUME NEW w \in Workers
      PROVE  /\ \A k \in DOMAIN pending'[w] : \E l \in DOMAIN pending[w] :
                  pending'[w][k] = pending[w][l]
             /\ ~Usable(w)' => pending'[w] = << >>
             /\ wpc'[w] \in {"top", "wait"} /\ sem'[w] = 0 =>
                  pending'[w] = << >> \/ (wpc[w] \in {"top", "wait"} /\ sem[w] = 0)
  <2>1. CASE InitWorker
    <3>1. pending' = pending /\ sem' = sem
      BY <2>1, InitWorkerFrame
    <3>2. ~Usable(w) => pending[w] = << >>
      BY DEF Accounted, WaitsWhereSent
    <3>3. CASE w = mi
      BY <2>1, <3>1, <3>2, <3>3, InitWorkerFrame DEF Usable
    <3>4. CASE w # mi
      <4>1. wpc'[w] = wpc[w] /\ arena'[w] = arena[w]
        BY <2>1, <3>4, InitWorkerFrame
      <4> QED
        BY <3>1, <3>2, <4>1 DEF Usable
    <3> QED
      BY <3>3, <3>4
  <2>2. CASE DestroyArena
    <3>1. /\ UNCHANGED <<wpc, sem>> /\ pending' = [pending EXCEPT ![mi] = << >>]
          /\ arena' = [arena EXCEPT ![mi] = "freed"]
      BY <2>2 DEF DestroyArena, threadVars, signalVars
    <3>2. ~Usable(w) => pending[w] = << >>
      BY DEF Accounted, WaitsWhereSent
    <3>3. CASE w = mi
      BY <1>2, <3>1, <3>3
    <3>4. CASE w # mi
      <4>1. pending'[w] = pending[w] /\ arena'[w] = arena[w]
        BY <1>2, <3>1, <3>4
      <4> QED
        BY <3>1, <3>2, <4>1 DEF Usable
    <3> QED
      BY <3>3, <3>4
  <2>3. CASE StartDestroy \/ (DestroyStep /\ ~DestroyArena)
    <3>1. UNCHANGED <<wpc, arena, pending>>
      BY <2>3 DEF StartDestroy, DestroyStep, SetShutdown, WakeToStop, AwaitAck,
         DestroyNullArena, Join, SkipMissing, threadVars, arenaVars, historyVars
    <3>2. sem' = sem \/ sem' = [sem EXCEPT ![mi] = @ + 1]
      BY <2>3 DEF StartDestroy, DestroyStep, SetShutdown, WakeToStop, AwaitAck,
         DestroyNullArena, Join, SkipMissing, signalVars
    <3>3. sem'[w] = 0 => sem[w] = 0
      <4>1. sem[w] \in Nat /\ sem[mi] \in Nat
        BY <1>2
      <4> QED
        BY <1>2, <3>2, <4>1
    <3>4. ~Usable(w)' => pending'[w] = << >>
      BY <3>1 DEF Accounted, WaitsWhereSent, Usable
    <3> QED
      BY <3>1, <3>3, <3>4
  <2> QED
    BY <2>1, <2>2, <2>3
<1> QED
  BY <1>1, <1>3, AccountedFrame

(* Nothing is owed at first, ... *)
LEMMA InitAccounted == Init => Accounted
<1> SUFFICES ASSUME Init PROVE Accounted
  OBVIOUS
<1>1. /\ \A a \in Callers : call[a] = Idle
      /\ \A w \in Workers : pending[w] = << >>
      /\ posted = {}
  BY DEF Init
<1>2. DOMAIN << >> = {}
  OBVIOUS
<1> QED
  BY <1>1, <1>2 DEF Accounted, CallsApart, WaitsWhereSent, WakeUpsCount

(* ... nor by a step that changes nothing ... *)
LEMMA UnchangedAccounted ==
  ASSUME Accounted, UNCHANGED vars
  PROVE  Accounted'
<1>1. UNCHANGED <<wpc, sem, arena, call, fresh, pending, posted>>
  BY DEF vars, threadVars, signalVars, arenaVars, historyVars
<1> QED
  BY <1>1 DEF Accounted, CallsApart, WaitsWhereSent, WakeUpsCount, Usable

(* arena_alloc(), by whichever branch. *)
Allocs(a) == AllocHere(a) \/ AllocNextBlock(a) \/ AllocNewBlock(a)

(* ... nor by any other. *)
LEMMA NextAccounted ==
  ASSUME IInv, IInv', Accounted, [Next]_vars
  PROVE  Accounted'
<1>1. Shape /\ Shape'
  BY DEF IInv, Shape
<1>2. CASE InitWorker \/ StartDestroy \/ DestroyStep
  BY <1>1, <1>2, OwnerAccounted
<1>3. CASE Submit
  <2>1. PICK a \in Callers, w \in Workers, t \in Tasks :
          \/ \E n \in BOOLEAN : Enqueue(a, w, t, n)
          \/ EnqueueRefused(a, w, t)
    BY <1>3 DEF Submit
  <2> QED
    BY <1>1, <2>1, EnqueueAccounted, CallerAccounted
<1>4. ASSUME NEW a \in Callers, EnqueueStep(a)
      PROVE  Accounted'
  <2>1. CASE Allocs(a)
    <3>1. Allocating(a) /\ \E b, q : TakeCell(a, b, q)
      BY <2>1 DEF Allocs, AllocHere, AllocNextBlock, AllocNewBlock
    <3> QED
      BY <1>1, <3>1, TakeCellAccounted
  <2>2. CASE AllocOutOfMemory(a) \/ CopyBegin(a) \/ CopyEnd(a)
    BY <1>1, <2>2, CallerAccounted
  <2>3. CASE Post(a)
    BY <1>1, <2>3, PostAccounted
  <2> QED
    BY <1>4, <2>1, <2>2, <2>3 DEF EnqueueStep, Allocs
<1>5. ASSUME NEW w \in Workers, WorkerStep(w)
      PROVE  Accounted'
  BY <1>1, <1>5, WorkerAccounted
<1>6. CASE Terminating \/ UNCHANGED vars
  BY <1>6, UnchangedAccounted DEF Terminating
<1> QED
  BY <1>2, <1>3, <1>4, <1>5, <1>6 DEF Next

(* No lost wake-up: a worker that sleeps on an empty semaphore has nothing *)
(* in its queue of which it was told (reactor.c:40, 568).                  *)
THEOREM NoTaskIsStranded == Spec => []NoStrandedTask
<1>1. Init => IInv /\ Accounted
  BY InitIInv, InitAccounted
<1>2. IInv /\ Accounted /\ [Next]_vars => (IInv /\ Accounted)'
  BY NextIInv, NextAccounted
<1>3. IInv /\ Accounted => NoStrandedTask
  BY DEF Accounted, WakeUpsCount, NoStrandedTask
<1> QED
  BY <1>1, <1>2, <1>3, PTL DEF Spec

-----------------------------------------------------------------------------
(* Who owns which cell.                                                    *)

OneTask == \A t, u, w, b, i : Owns(t, w, b, i) /\ Owns(u, w, b, i) => t = u
OneCell ==
  \A t, v, w, b, c, i, j : Owns(t, v, b, i) /\ Owns(t, w, c, j) => v = w /\ b = c /\ i = j
HandedOut == \A t, w, b, i : Owns(t, w, b, i) => i <= queue[w][b].off /\ t \notin fresh
LastInUse ==
  \A w \in Workers : \A b \in DOMAIN queue[w] :
    ~queue[w][b].wiped => current[w] = Len(queue[w])
TornMarked ==
  \A a \in Callers : call[a].step = "torn" => queue[call[a].w][call[a].b].wiped

(* The parameters of a cell that is owned. *)
LEMMA OwnsRange ==
  ASSUME NEW t, NEW w, NEW b, NEW i, Owns(t, w, b, i)
  PROVE  /\ t \in Tasks /\ w \in Workers /\ b \in DOMAIN queue[w] /\ i \in 1 .. BlockCap
         /\ ~queue[w][b].wiped
BY DEF Owns, BlocksOf, Offsets

(* CellsApart without the bounds of its quantifiers. *)
LEMMA ApartForms ==
  CellsApart <=> LastInUse /\ OneTask /\ OneCell /\ HandedOut /\ TornMarked
<1>1. ASSUME CellsApart
      PROVE  LastInUse /\ OneTask /\ OneCell /\ HandedOut /\ TornMarked
  <2>1. LastInUse /\ TornMarked
    BY <1>1 DEF CellsApart, LastInUse, TornMarked, BlocksOf
  <2>2. OneTask
    BY <1>1, OwnsRange DEF CellsApart, OneTask, BlocksOf, Offsets
  <2>3. OneCell
    BY <1>1, OwnsRange DEF CellsApart, OneCell, BlocksOf, Offsets
  <2>4. HandedOut
    BY <1>1, OwnsRange DEF CellsApart, HandedOut, BlocksOf, Offsets
  <2> QED
    BY <2>1, <2>2, <2>3, <2>4
<1>2. ASSUME LastInUse, OneTask, OneCell, HandedOut, TornMarked
      PROVE  CellsApart
  BY <1>2 DEF CellsApart, LastInUse, OneTask, OneCell, HandedOut, TornMarked, BlocksOf
<1> QED
  BY <1>1, <1>2

(* The cells of a worker keep their owners, ... *)
KeepsCells(w) ==
  /\ current'[w] = current[w]
  /\ DOMAIN queue'[w] = DOMAIN queue[w] /\ Len(queue'[w]) = Len(queue[w])
  /\ \A b \in DOMAIN queue[w] : /\ queue'[w][b].wiped = queue[w][b].wiped
                                /\ queue'[w][b].off = queue[w][b].off
  /\ \A t, b, i : Owns(t, w, b, i)' <=> Owns(t, w, b, i)

(* ... or lose them all while nobody scans them, ... *)
ClearsCells(w) ==
  /\ wpc[w] \notin Scanning /\ wpc'[w] \notin Scanning
  /\ \A b \in DOMAIN queue'[w] : ~queue'[w][b].wiped => current'[w] = Len(queue'[w])
  /\ \A t, b, i : ~Owns(t, w, b, i)'

(* ... or one more is handed out, after all the others. *)
TakesCell(a, w, b, i) ==
  /\ call[a].w = w /\ call[a].t \in fresh /\ fresh' = fresh \ {call[a].t}
  /\ b \in DOMAIN queue'[w] /\ b \in Nat /\ i \in 1 .. BlockCap /\ i <= queue'[w][b].off
  /\ \A k \in DOMAIN queue[w] :
       /\ k \in DOMAIN queue'[w] /\ queue'[w][k].wiped = queue[w][k].wiped
       /\ ~queue[w][k].wiped => queue'[w][k].off >= queue[w][k].off
  /\ \A k \in DOMAIN queue'[w] : ~queue'[w][k].wiped => current'[w] = Len(queue'[w])
  /\ \A t, k, j : Owns(t, w, k, j)' <=>
       Owns(t, w, k, j) \/ (t = call[a].t /\ k = b /\ j = i /\ ~queue'[w][b].wiped)
  /\ \A t, k, j : Owns(t, w, k, j) => Before(k, j, b, i)

(* What a cell is owned for. *)
Claim(t, w, b, i) ==
  \/ t \in queue[w][b].data[i]
  \/ \E a \in Callers : /\ call[a].step \in {"copy", "copying"} /\ call[a].t = t
                        /\ call[a].w = w /\ call[a].b = b /\ call[a].i = i

(* A caller that copies owns the cell it copies to. *)
LEMMA OwnsClaim ==
  ASSUME NEW t, NEW w, NEW b, NEW i
  PROVE  Owns(t, w, b, i) <=>
           /\ t \in Tasks /\ w \in Workers /\ b \in DOMAIN queue[w] /\ i \in 1 .. BlockCap
           /\ ~queue[w][b].wiped
           /\ Claim(t, w, b, i)
BY DEF Owns, Claim, BlocksOf, Offsets

(* A step that writes no queue, begins no copy and ends none. *)
LEMMA QuietKeeps ==
  ASSUME UNCHANGED <<queue, current>>,
         \A a \in Callers :
           \/ call'[a] = call[a]
           \/ call[a].step \notin {"copy", "copying"} /\ call'[a].step \notin {"copy", "copying"},
         NEW w \in Workers
  PROVE  KeepsCells(w)
<1>1. ASSUME NEW t, NEW b, NEW i
      PROVE  Claim(t, w, b, i)' <=> Claim(t, w, b, i)
  BY DEF Claim
<1>2. \A t, b, i : Owns(t, w, b, i)' <=> Owns(t, w, b, i)
  BY <1>1 DEF Owns, Claim, BlocksOf
<1> QED
  BY <1>2 DEF KeepsCells

(* What the copy of a task changes. *)
LEMMA WriteCellEffect ==
  ASSUME Shape, NEW a \in Callers, call[a].step \in {"copy", "copying", "torn"},
         NEW v, WriteCell(a, v), NEW u \in Workers
  PROVE  /\ DOMAIN queue'[u] = DOMAIN queue[u] /\ Len(queue'[u]) = Len(queue[u])
         /\ \A k \in DOMAIN queue[u] :
              /\ queue'[u][k].wiped = queue[u][k].wiped
              /\ queue'[u][k].off = queue[u][k].off
              /\ \A j \in 1 .. BlockCap :
                   queue'[u][k].data[j] = IF u = call[a].w /\ k = call[a].b /\ j = call[a].i
                                          THEN v ELSE queue[u][k].data[j]
<1> DEFINE w == call[a].w
           b == call[a].b
           i == call[a].i
           e == PutCell(queue[w][b], i, v)
           q == [queue[w] EXCEPT ![b] = e]
<1>1. /\ w \in Workers /\ queue[w] \in Seq(Blocks) /\ b \in DOMAIN queue[w]
      /\ i \in 1 .. BlockCap /\ queue \in [Workers -> Seq(Blocks)]
  BY CallInFlight DEF Shape, CallsInOrder, TypeOK
<1>2. queue[w][b] \in Blocks
  BY <1>1, OffsetType
<1>3. /\ e.wiped = queue[w][b].wiped /\ e.off = queue[w][b].off
      /\ \A j \in 1 .. BlockCap : e.data[j] = IF j = i THEN v ELSE queue[w][b].data[j]
  BY <1>1, <1>2 DEF PutCell, Blocks
<1>4. queue' = [queue EXCEPT ![w] = q]
  BY DEF WriteCell
<1> HIDE DEF e, w, b, i
<1>5. CASE u = w
  <2>1. queue'[u] = q
    BY <1>1, <1>4, <1>5
  <2>2. /\ DOMAIN q = DOMAIN queue[w] /\ Len(q) = Len(queue[w])
        /\ \A k \in DOMAIN queue[w] : q[k] = IF k = b THEN e ELSE queue[w][k]
    BY <1>1
  <2> HIDE DEF q
  <2> QED
    BY <1>3, <1>5, <2>1, <2>2 DEF w, b, i
<1>6. CASE u # w
  <2>1. queue'[u] = queue[u]
    BY <1>1, <1>4, <1>6
  <2> QED
    BY <1>6, <2>1 DEF w
<1> QED
  BY <1>5, <1>6

(* Two copies never meet in a cell that is owned. *)
LEMMA CopiesApart ==
  ASSUME Shape, CallsApart, OneTask, TornMarked,
         NEW a \in Callers, call[a].step \in {"copy", "copying"},
         NEW x \in Callers, call[x].step \in {"copy", "copying", "torn"},
         call[x].w = call[a].w, call[x].b = call[a].b, call[x].i = call[a].i,
         ~queue[call[a].w][call[a].b].wiped
  PROVE  x = a
<1>1. call[x].step \in {"copy", "copying"}
  BY DEF TornMarked
<1>2. /\ call[a].w \in Workers /\ call[a].t \in Tasks /\ call[x].t \in Tasks
      /\ call[a].b \in DOMAIN queue[call[a].w] /\ call[a].i \in 1 .. BlockCap
  BY CallInFlight DEF Shape, CallsInOrder
<1>3. Owns(call[a].t, call[a].w, call[a].b, call[a].i)
  BY <1>2 DEF Owns, BlocksOf, Offsets
<1>4. Owns(call[x].t, call[a].w, call[a].b, call[a].i)
  BY <1>1, <1>2 DEF Owns, BlocksOf, Offsets
<1>5. call[x].t = call[a].t
  BY <1>3, <1>4 DEF OneTask
<1>6. call[x] # Idle
  BY <1>1 DEF Idle
<1> QED
  BY <1>5, <1>6 DEF CallsApart

(* A queue and the copies into it that stay keep their owners. *)
LEMMA OwnsSame ==
  ASSUME NEW u \in Workers, DOMAIN queue'[u] = DOMAIN queue[u],
         \A k \in DOMAIN queue[u] : queue'[u][k].wiped = queue[u][k].wiped,
         NEW t, NEW k, NEW j,
         t \in Tasks /\ k \in DOMAIN queue[u] /\ j \in 1 .. BlockCap /\ ~queue[u][k].wiped
           => (Claim(t, u, k, j)' <=> Claim(t, u, k, j))
  PROVE  Owns(t, u, k, j)' <=> Owns(t, u, k, j)
<1>1. Owns(t, u, k, j) <=>
        /\ t \in Tasks /\ k \in DOMAIN queue[u] /\ j \in 1 .. BlockCap
        /\ ~queue[u][k].wiped
        /\ Claim(t, u, k, j)
  BY OwnsClaim
<1>2. Owns(t, u, k, j)' <=>
        /\ t \in Tasks /\ k \in DOMAIN queue'[u] /\ j \in 1 .. BlockCap
        /\ ~queue'[u][k].wiped
        /\ Claim(t, u, k, j)'
  BY DEF Owns, Claim, BlocksOf, Offsets
<1> QED
  BY <1>1, <1>2

(* The beginning of a copy hands out no cell ... *)
LEMMA CopyBeginKeeps ==
  ASSUME Shape, CallsApart, OneTask, TornMarked, NEW a \in Callers, CopyBegin(a),
         NEW u \in Workers
  PROVE  KeepsCells(u)
<1> DEFINE w == call[a].w
           b == call[a].b
           i == call[a].i
           v == queue[w][b].data[i] \cup {call[a].t}
<1>1. current' = current /\ call[a].step = "copy" /\ WriteCell(a, v)
  BY DEF CopyBegin
<1>2. /\ DOMAIN queue'[u] = DOMAIN queue[u] /\ Len(queue'[u]) = Len(queue[u])
      /\ \A k \in DOMAIN queue[u] :
           /\ queue'[u][k].wiped = queue[u][k].wiped
           /\ queue'[u][k].off = queue[u][k].off
           /\ \A j \in 1 .. BlockCap :
                queue'[u][k].data[j] = IF u = w /\ k = b /\ j = i
                                       THEN v ELSE queue[u][k].data[j]
  <2>1. call[a].step \in {"copy", "copying", "torn"} /\ WriteCell(a, v)
    BY <1>1
  <2> HIDE DEF v
  <2> QED
    BY <2>1, WriteCellEffect
<1>3. ASSUME NEW t, NEW k, NEW j, k \in DOMAIN queue[u], j \in 1 .. BlockCap,
             ~queue[u][k].wiped
      PROVE  Claim(t, u, k, j)' <=> Claim(t, u, k, j)
  <2>1. CASE u = w /\ k = b /\ j = i
    <3>1. \A x \in Callers : ~Copying(a, x)
      <4> SUFFICES ASSUME NEW x \in Callers, Copying(a, x) PROVE FALSE
        OBVIOUS
      <4>1. /\ call[x].step \in {"copying", "torn"}
            /\ call[x].w = w /\ call[x].b = b /\ call[x].i = i
        BY DEF Copying
      <4>2. x = a
        BY <1>1, <1>3, <2>1, <4>1, CopiesApart
      <4> QED
        BY <1>1, <4>1, <4>2
    <3>2. \A x \in Callers \ {a} : call'[x] = call[x]
      BY <3>1, CopyBeginCalls
    <3>3. /\ call'[a].step = "copying" /\ call'[a].w = w /\ call'[a].t = call[a].t
          /\ call'[a].b = b /\ call'[a].i = i
      BY <3>1, CopyBeginCalls
    <3>4. queue'[u][k].data[j] = queue[u][k].data[j] \cup {call[a].t}
      BY <1>2, <1>3, <2>1
    <3> HIDE DEF w, b, i, v
    <3>5. w = call[a].w /\ b = call[a].b /\ i = call[a].i
      BY DEF w, b, i
    <3>6. \A x \in Callers :
            /\ call'[x].step \in {"copy", "copying"} <=> call[x].step \in {"copy", "copying"}
            /\ call'[x].w = call[x].w /\ call'[x].t = call[x].t
            /\ call'[x].b = call[x].b /\ call'[x].i = call[x].i
      BY <1>1, <3>2, <3>3, <3>5
    <3> QED
      BY <1>1, <2>1, <3>4, <3>5, <3>6 DEF Claim
  <2>2. CASE ~(u = w /\ k = b /\ j = i)
    <3>1. queue'[u][k].data[j] = queue[u][k].data[j]
      BY <1>2, <1>3, <2>2
    <3>2. \A x \in Callers :
            \/ call'[x] = call[x]
            \/ /\ call[x].w = w /\ call[x].b = b /\ call[x].i = i
               /\ call'[x].w = w /\ call'[x].b = b /\ call'[x].i = i
      BY CopyBeginCalls DEF Copying
    <3> HIDE DEF w, b, i, v
    <3> QED
      BY <2>2, <3>1, <3>2 DEF Claim
  <2> QED
    BY <2>1, <2>2
<1> HIDE DEF w, b, i, v
<1>4. \A t, k, j : Owns(t, u, k, j)' <=> Owns(t, u, k, j)
  BY <1>2, <1>3, OwnsSame
<1> QED
  BY <1>1, <1>2, <1>4 DEF KeepsCells

(* ... and neither does its end. *)
LEMMA CopyEndKeeps ==
  ASSUME Shape, CallsApart, OneTask, TornMarked, NEW a \in Callers, CopyEnd(a),
         NEW u \in Workers
  PROVE  KeepsCells(u)
<1> DEFINE w == call[a].w
           b == call[a].b
           i == call[a].i
           v == IF call[a].step = "torn" THEN queue[w][b].data[i] \cup {call[a].t}
                                         ELSE {call[a].t}
<1>1. current' = current /\ call[a].step \in {"copying", "torn"} /\ WriteCell(a, v)
  BY DEF CopyEnd
<1>2. /\ DOMAIN queue'[u] = DOMAIN queue[u] /\ Len(queue'[u]) = Len(queue[u])
      /\ \A k \in DOMAIN queue[u] :
           /\ queue'[u][k].wiped = queue[u][k].wiped
           /\ queue'[u][k].off = queue[u][k].off
           /\ \A j \in 1 .. BlockCap :
                queue'[u][k].data[j] = IF u = w /\ k = b /\ j = i
                                       THEN v ELSE queue[u][k].data[j]
  <2>1. call[a].step \in {"copy", "copying", "torn"} /\ WriteCell(a, v)
    BY <1>1
  <2> HIDE DEF v
  <2> QED
    BY <2>1, WriteCellEffect
<1>3. \A x \in Callers \ {a} : call'[x] = call[x]
  BY CopyEndCalls
<1>4. call'[a].step \notin {"copy", "copying"}
  BY CopyEndCalls DEF Idle
<1>5. ASSUME NEW t \in Tasks, NEW k, NEW j, k \in DOMAIN queue[u], j \in 1 .. BlockCap,
             ~queue[u][k].wiped
      PROVE  Claim(t, u, k, j)' <=> Claim(t, u, k, j)
  <2>1. CASE u = w /\ k = b /\ j = i
    <3>1. call[a].step = "copying"
      BY <1>1, <1>5, <2>1 DEF TornMarked
    <3>2. queue'[u][k].data[j] = {call[a].t}
      BY <1>2, <1>5, <2>1, <3>1
    <3>3. call[a].t \in Tasks
      BY <3>1, CallInFlight
    <3>4. Owns(call[a].t, u, k, j)
      BY <1>5, <2>1, <3>1, <3>3 DEF Owns, BlocksOf, Offsets
    <3>5. Claim(t, u, k, j) <=> t = call[a].t
      BY <1>5, <3>4, OwnsClaim DEF OneTask
    <3>6. \A x \in Callers \ {a} :
            call[x].step \in {"copy", "copying"} /\ call[x].w = u /\ call[x].b = k /\ call[x].i = j
              => FALSE
      BY <1>5, <2>1, <3>1, CopiesApart
    <3> HIDE DEF w, b, i, v
    <3>7. Claim(t, u, k, j)' <=> t = call[a].t
      BY <1>3, <1>4, <3>2, <3>6 DEF Claim
    <3> QED
      BY <3>5, <3>7
  <2>2. CASE ~(u = w /\ k = b /\ j = i)
    <3>1. queue'[u][k].data[j] = queue[u][k].data[j]
      BY <1>2, <1>5, <2>2
    <3>2. call[a].w = w /\ call[a].b = b /\ call[a].i = i
      OBVIOUS
    <3> HIDE DEF w, b, i, v
    <3> QED
      BY <1>3, <1>4, <2>2, <3>1, <3>2 DEF Claim
  <2> QED
    BY <2>1, <2>2
<1> HIDE DEF w, b, i, v
<1>6. \A t, k, j : Owns(t, u, k, j)' <=> Owns(t, u, k, j)
  BY <1>2, <1>5, OwnsSame
<1> QED
  BY <1>1, <1>2, <1>6 DEF KeepsCells

(* The cell that a call gets is after all those that are owned. *)
LEMMA TakeCellTakes ==
  ASSUME Shape, CallsApart, HandedOut, NEW a \in Callers, Allocating(a),
         NEW w \in Workers, call[a].w = w,
         NEW q \in Seq(Blocks), NEW b \in DOMAIN q, Fits(q[b]),
         \A k \in DOMAIN queue[w] :
           /\ k \in DOMAIN q /\ q[k].wiped = queue[w][k].wiped
           /\ ~q[k].wiped => q[k] = queue[w][k],
         \A k \in DOMAIN q : k \notin DOMAIN queue[w] => q[k] = NewBlock,
         \A k \in DOMAIN q : ~q[k].wiped => b = Len(q),
         TakeCell(a, b, q)
  PROVE  TakesCell(a, w, b, q[b].off + 1)
<1> DEFINE t == call[a].t
           i == q[b].off + 1
           q2 == [q EXCEPT ![b] = Bump(q[b])]
           new == [step |-> "copy", w |-> w, t |-> t, notify |-> call[a].notify,
                   b |-> b, i |-> i]
<1>1. /\ queue' = [queue EXCEPT ![w] = q2]
      /\ current' = [current EXCEPT ![w] = b]
      /\ call' = [call EXCEPT ![a] = new]
      /\ fresh' = fresh \ {t}
  BY DEF TakeCell
<1>2. /\ w \in Workers /\ t \in Tasks /\ call[a].step = "alloc" /\ call[a] # Idle
      /\ queue \in [Workers -> Seq(Blocks)] /\ call \in [Callers -> Calls]
      /\ current \in [Workers -> Nat \ {0}]
  <2>1. call[a].step = "alloc" /\ Idle.step = "idle"
    BY DEF Allocating, Idle
  <2>2. t \in Tasks
    BY <2>1, CallInFlight
  <2> QED
    BY <2>1, <2>2 DEF Shape, TypeOK
<1>3. t \in fresh
  BY <1>2 DEF CallsApart
<1>4. /\ q[b] \in Blocks /\ Bump(q[b]) \in Blocks /\ b \in Nat \ {0}
      /\ q[b].off \in Nat /\ Bump(q[b]).off = q[b].off + 1 /\ i \in 1 .. BlockCap
  BY BumpType, OffsetType
<1>5. Bump(q[b]).wiped = q[b].wiped /\ Bump(q[b]).data = q[b].data
  BY <1>4 DEF Bump, Blocks
<1>6. /\ q2 \in Seq(Blocks) /\ DOMAIN q2 = DOMAIN q /\ Len(q2) = Len(q)
      /\ \A k \in DOMAIN q : q2[k] = IF k = b THEN Bump(q[b]) ELSE q[k]
  BY <1>4, ReplaceType
<1>7. /\ new.step = "copy" /\ new.w = w /\ new.t = t /\ new.b = b /\ new.i = i
  OBVIOUS
<1> HIDE DEF q2, new
<1>8. /\ queue'[w] = q2 /\ current'[w] = b
      /\ call'[a] = new /\ \A x \in Callers \ {a} : call'[x] = call[x]
  BY <1>1, <1>2
<1>9. /\ \A k \in DOMAIN q : queue'[w][k].wiped = q[k].wiped /\ queue'[w][k].data = q[k].data
      /\ \A k \in DOMAIN q : queue'[w][k].off = IF k = b THEN i ELSE q[k].off
      /\ DOMAIN queue'[w] = DOMAIN q /\ Len(queue'[w]) = Len(q)
  BY <1>4, <1>5, <1>6, <1>8
<1>10. \A k \in DOMAIN q : ~q[k].wiped /\ k \in DOMAIN queue[w] => q[k] = queue[w][k]
  OBVIOUS
<1>11. t = call[a].t
  OBVIOUS
<1> HIDE DEF t, i
<1>12. ASSUME NEW u, NEW k, NEW j
       PROVE  Owns(u, w, k, j)' <=>
                Owns(u, w, k, j) \/ (u = t /\ k = b /\ j = i /\ ~queue'[w][b].wiped)
  <2>1. Owns(u, w, k, j) <=>
          /\ u \in Tasks /\ k \in DOMAIN queue[w] /\ j \in 1 .. BlockCap
          /\ ~queue[w][k].wiped /\ Claim(u, w, k, j)
    BY <1>2, OwnsClaim
  <2>2. Owns(u, w, k, j)' <=>
          /\ u \in Tasks /\ k \in DOMAIN q /\ j \in 1 .. BlockCap
          /\ ~q[k].wiped /\ Claim(u, w, k, j)'
    BY <1>2, <1>9 DEF Owns, Claim, BlocksOf, Offsets
  <2>3. Claim(u, w, k, j)' <=>
          \/ u \in queue'[w][k].data[j]
          \/ u = t /\ k = b /\ j = i
          \/ \E x \in Callers : /\ call[x].step \in {"copy", "copying"} /\ call[x].t = u
                                /\ call[x].w = w /\ call[x].b = k /\ call[x].i = j
    <3>1. ASSUME NEW x \in Callers
          PROVE  (/\ call'[x].step \in {"copy", "copying"} /\ call'[x].t = u
                  /\ call'[x].w = w /\ call'[x].b = k /\ call'[x].i = j) <=>
                   \/ x = a /\ u = t /\ k = b /\ j = i
                   \/ /\ call[x].step \in {"copy", "copying"} /\ call[x].t = u
                      /\ call[x].w = w /\ call[x].b = k /\ call[x].i = j
      <4>1. CASE x = a
        <5>1. call'[x] = new /\ call[x].step = "alloc"
          BY <1>2, <1>8, <4>1
        <5> QED
          BY <1>7, <4>1, <5>1
      <4>2. CASE x # a
        BY <1>8, <4>2
      <4> QED
        BY <4>1, <4>2
    <3> QED
      BY <3>1 DEF Claim
  <2>4. CASE u = t /\ k = b /\ j = i
    BY <1>2, <1>3, <1>4, <1>9, <1>11, <2>1, <2>2, <2>3, <2>4 DEF HandedOut
  <2>5. CASE ~(u = t /\ k = b /\ j = i) /\ k \in DOMAIN queue[w]
    <3>1. k \in DOMAIN q /\ q[k].wiped = queue[w][k].wiped
      BY <1>11, <2>5
    <3>2. ~q[k].wiped => queue'[w][k].data = queue[w][k].data
      BY <1>9, <1>10, <2>5, <3>1
    <3> QED
      BY <2>1, <2>2, <2>3, <2>5, <3>1, <3>2 DEF Claim
  <2>6. CASE ~(u = t /\ k = b /\ j = i) /\ k \notin DOMAIN queue[w]
    <3>1. ASSUME Owns(u, w, k, j)' PROVE FALSE
      <4>1. q[k] = NewBlock /\ k \in DOMAIN q /\ j \in 1 .. BlockCap /\ u \in Tasks
        BY <1>11, <2>2, <2>6, <3>1
      <4>2. queue'[w][k].data[j] = {NoTask}
        BY <1>9, <4>1 DEF NewBlock, Zeroed, ZeroCell
      <4>3. \A x \in Callers : ~(call[x].step \in {"copy", "copying"} /\ call[x].w = w /\ call[x].b = k)
        BY <2>6 DEF Shape, CallsInOrder
      <4> QED
        BY <2>2, <2>3, <2>6, <3>1, <4>1, <4>2, <4>3
    <3> QED
      BY <2>1, <2>6, <3>1
  <2> QED
    BY <2>4, <2>5, <2>6
<1>13. ASSUME NEW u, NEW k, NEW j, Owns(u, w, k, j)
       PROVE  Before(k, j, b, i)
  <2>1. /\ k \in DOMAIN queue[w] /\ ~queue[w][k].wiped /\ j \in 1 .. BlockCap
        /\ j <= queue[w][k].off
    BY <1>13, OwnsRange DEF HandedOut
  <2>2. k \in DOMAIN q /\ ~q[k].wiped /\ q[k] = queue[w][k]
    BY <1>10, <1>11, <2>1
  <2>3. b = Len(q) /\ k \in 1 .. Len(q)
    BY <2>2
  <2>4. k = b => j < i
    BY <1>4, <2>1, <2>2 DEF i
  <2> QED
    BY <1>4, <2>3, <2>4 DEF Before
<1>14. ASSUME NEW k \in DOMAIN queue[w]
       PROVE  /\ k \in DOMAIN queue'[w] /\ queue'[w][k].wiped = queue[w][k].wiped
              /\ ~queue[w][k].wiped => queue'[w][k].off >= queue[w][k].off
  <2>1. k \in DOMAIN q /\ q[k].wiped = queue[w][k].wiped
    BY <1>11
  <2>2. q[k].off \in Nat
    BY <2>1, OffsetType
  <2>3. ~queue[w][k].wiped => q[k] = queue[w][k]
    BY <1>10, <2>1
  <2> QED
    BY <1>4, <1>9, <2>1, <2>2, <2>3 DEF i
<1>15. \A k \in DOMAIN queue'[w] : ~queue'[w][k].wiped => current'[w] = Len(queue'[w])
  BY <1>8, <1>9
<1>16. /\ b \in DOMAIN queue'[w] /\ b \in Nat /\ i \in 1 .. BlockCap /\ i <= queue'[w][b].off
  BY <1>4, <1>9
<1>17. TakesCell(a, w, b, i)
  BY <1>1, <1>3, <1>11, <1>12, <1>13, <1>14, <1>15, <1>16 DEF TakesCell
<1> QED
  BY <1>17 DEF i

(* arena_alloc() leaves the other queues alone, ... *)
LEMMA TakeCellOthers ==
  ASSUME Shape, NEW a \in Callers, Allocating(a), NEW q, NEW b, TakeCell(a, b, q),
         NEW u \in Workers, u # call[a].w
  PROVE  KeepsCells(u)
<1> DEFINE w == call[a].w
           new == [step |-> "copy", w |-> w, t |-> call[a].t, notify |-> call[a].notify,
                   b |-> b, i |-> q[b].off + 1]
           q2 == [q EXCEPT ![b] = Bump(q[b])]
<1>1. /\ queue' = [queue EXCEPT ![w] = q2]
      /\ current' = [current EXCEPT ![w] = b]
      /\ call' = [call EXCEPT ![a] = new]
  BY DEF TakeCell
<1>2. queue \in [Workers -> Seq(Blocks)] /\ call \in [Callers -> Calls]
      /\ current \in [Workers -> Nat \ {0}]
  BY DEF Shape, TypeOK
<1>3. new.w = w
  OBVIOUS
<1>4. w = call[a].w
  OBVIOUS
<1> HIDE DEF new, w, q2
<1>5. queue'[u] = queue[u] /\ current'[u] = current[u]
  BY <1>1, <1>2, <1>4
<1>6. \A x \in Callers : call'[x] = call[x] \/ (call[x].w # u /\ call'[x].w # u)
  BY <1>1, <1>2, <1>3, <1>4
<1>7. \A t, k, j : Claim(t, u, k, j)' <=> Claim(t, u, k, j)
  BY <1>5, <1>6 DEF Claim
<1>8. \A t, k, j : Owns(t, u, k, j)' <=> Owns(t, u, k, j)
  BY <1>5, <1>7, OwnsSame
<1> QED
  BY <1>5, <1>8 DEF KeepsCells

(* ... and in its own it hands out the last cell. *)
LEMMA AllocTakes ==
  ASSUME Shape, CallsApart, LastInUse, HandedOut, NEW a \in Callers, Allocs(a),
         NEW w \in Workers, call[a].w = w
  PROVE  \E b, i : TakesCell(a, w, b, i)
<1> DEFINE c == current[w]
<1>1. Allocating(a) /\ call[a].step # "idle"
  BY DEF Allocs, AllocHere, AllocNextBlock, AllocNewBlock, Allocating
<1>2. /\ queue[w] \in Seq(Blocks) /\ c \in 1 .. Len(queue[w]) /\ Len(queue[w]) \in Nat
      /\ DOMAIN queue[w] = 1 .. Len(queue[w])
  <2>1. queue[w] \in Seq(Blocks) /\ c \in 1 .. Len(queue[w])
    BY <1>1, CallInFlight
  <2> QED
    BY <2>1
<1>3. \A k \in DOMAIN queue[w] : ~queue[w][k].wiped => c = Len(queue[w])
  BY DEF LastInUse
<1>4. CASE AllocHere(a)
  <2>1. Fits(queue[w][c]) /\ TakeCell(a, c, queue[w])
    BY <1>4 DEF AllocHere
  <2>2. PICK q \in Seq(Blocks) : q = queue[w]
    BY <1>2
  <2>3. PICK b \in DOMAIN q : b = c
    BY <1>2, <2>2
  <2> HIDE DEF c
  <2>4. Fits(q[b]) /\ TakeCell(a, b, q)
    BY <2>1, <2>2, <2>3
  <2>5. TakesCell(a, w, b, q[b].off + 1)
    BY <1>1, <1>3, <2>2, <2>3, <2>4, TakeCellTakes
  <2> QED
    BY <2>5
<1>5. CASE AllocNextBlock(a)
  <2> DEFINE r == [queue[w] EXCEPT ![c + 1] = Rewound(queue[w][c + 1])]
  <2>1. c < Len(queue[w]) /\ TakeCell(a, c + 1, r)
    BY <1>5 DEF AllocNextBlock
  <2>2. c + 1 \in DOMAIN queue[w]
    BY <1>2, <2>1
  <2>3. /\ queue[w][c + 1] \in Blocks
        /\ Rewound(queue[w][c + 1]) \in Blocks /\ Fits(Rewound(queue[w][c + 1]))
    BY <1>2, <2>2, OffsetType, RewoundType
  <2>4. /\ r \in Seq(Blocks) /\ DOMAIN r = DOMAIN queue[w]
        /\ \A k \in DOMAIN r : r[k] = IF k = c + 1 THEN Rewound(queue[w][c + 1])
                                                  ELSE queue[w][k]
    BY <1>2, <2>2, <2>3, ReplaceType
  <2>5. \A k \in DOMAIN queue[w] : queue[w][k].wiped
    BY <1>2, <1>3, <2>1
  <2>6. Rewound(queue[w][c + 1]).wiped = queue[w][c + 1].wiped
    BY <2>3 DEF Rewound, Blocks
  <2> HIDE DEF r
  <2>7. PICK q \in Seq(Blocks) : q = r
    BY <2>4
  <2>8. PICK b \in DOMAIN q : b = c + 1
    BY <2>2, <2>4, <2>7
  <2> HIDE DEF c
  <2>9. Fits(q[b]) /\ TakeCell(a, b, q)
    BY <2>1, <2>3, <2>4, <2>7, <2>8
  <2>10. \A k \in DOMAIN queue[w] :
           k \in DOMAIN q /\ q[k].wiped = queue[w][k].wiped /\ q[k].wiped
    BY <2>4, <2>5, <2>6, <2>7
  <2>11. TakesCell(a, w, b, q[b].off + 1)
    BY <1>1, <2>4, <2>7, <2>9, <2>10, TakeCellTakes
  <2> QED
    BY <2>11
<1>6. CASE AllocNewBlock(a)
  <2> DEFINE r == Append(queue[w], NewBlock)
  <2>1. c = Len(queue[w]) /\ TakeCell(a, c + 1, r)
    BY <1>6 DEF AllocNewBlock
  <2>2. /\ r \in Seq(Blocks) /\ Len(r) = Len(queue[w]) + 1
        /\ \A k \in 1 .. Len(queue[w]) : r[k] = queue[w][k]
        /\ r[Len(queue[w]) + 1] = NewBlock
    BY <1>2, NewBlockType, AppendProperties
  <2> HIDE DEF r
  <2>3. PICK q \in Seq(Blocks) : q = r
    BY <2>2
  <2>4. DOMAIN q = 1 .. Len(queue[w]) + 1 /\ Len(q) = Len(queue[w]) + 1
    BY <2>2, <2>3
  <2> HIDE DEF c
  <2>5. PICK b \in DOMAIN q : b = c + 1
    <3>1. c = Len(queue[w]) /\ Len(queue[w]) \in Nat
      BY <1>2, <2>1
    <3>2. c + 1 \in DOMAIN q
      BY <2>4, <3>1
    <3> QED
      BY <3>2
  <2>6. q[b] = NewBlock /\ TakeCell(a, b, q) /\ b = Len(q)
    BY <2>1, <2>2, <2>3, <2>4, <2>5
  <2>7. Fits(q[b])
    BY <2>6, NewBlockType DEF Fits
  <2>8. \A k \in DOMAIN queue[w] : k \in DOMAIN q /\ q[k] = queue[w][k]
    BY <1>2, <2>2, <2>3, <2>4
  <2>9. \A k \in DOMAIN q : k \notin DOMAIN queue[w] => q[k] = NewBlock
    BY <1>2, <2>1, <2>4, <2>5, <2>6
  <2>10. TakesCell(a, w, b, q[b].off + 1)
    BY <1>1, <2>6, <2>7, <2>8, <2>9, TakeCellTakes
  <2> QED
    BY <2>10
<1> QED
  BY <1>4, <1>5, <1>6 DEF Allocs

(* A step of enqueue(): its caller takes a cell, or all cells are kept.    *)
LEMMA EnqueueCells ==
  ASSUME Shape, CallsApart, LastInUse, OneTask, HandedOut, TornMarked,
         NEW a \in Callers, EnqueueStep(a), NEW w \in Workers
  PROVE  IF Allocs(a) /\ call[a].w = w THEN \E b, i : TakesCell(a, w, b, i)
                                       ELSE KeepsCells(w)
<1>1. CASE Allocs(a) /\ call[a].w = w
  BY <1>1, AllocTakes
<1>2. CASE Allocs(a) /\ call[a].w # w
  <2>1. Allocating(a) /\ \E b, q : TakeCell(a, b, q)
    BY <1>2 DEF Allocs, AllocHere, AllocNextBlock, AllocNewBlock
  <2> QED
    BY <1>2, <2>1, TakeCellOthers
<1>3. ASSUME KeepsCells(w), ~Allocs(a)
      PROVE  IF Allocs(a) /\ call[a].w = w THEN \E b, i : TakesCell(a, w, b, i)
                                           ELSE KeepsCells(w)
  BY <1>3
<1>4. CASE ~Allocs(a)
  <2>1. CASE CopyBegin(a)
    BY <1>3, <1>4, <2>1, CopyBeginKeeps
  <2>2. CASE CopyEnd(a)
    BY <1>3, <1>4, <2>2, CopyEndKeeps
  <2>3. CASE AllocOutOfMemory(a) \/ Post(a)
    <3>1. /\ UNCHANGED <<queue, current>> /\ call[a].step \in {"alloc", "post"}
          /\ call' = [call EXCEPT ![a] = Idle]
      BY <2>3 DEF AllocOutOfMemory, Post, Allocating, arenaVars
    <3>2. call \in [Callers -> Calls] /\ Idle.step = "idle"
      BY DEF Shape, TypeOK, Idle
    <3>3. \A x \in Callers :
            \/ call'[x] = call[x]
            \/ call[x].step \notin {"copy", "copying"} /\ call'[x].step \notin {"copy", "copying"}
      BY <3>1, <3>2
    <3>4. KeepsCells(w)
      BY <3>1, <3>3, QuietKeeps
    <3> QED
      BY <1>3, <1>4, <3>4
  <2> QED
    BY <1>4, <2>1, <2>2, <2>3 DEF EnqueueStep, Allocs
<1> QED
  BY <1>1, <1>2, <1>4

(* arena_reset() marks every block of its queue, and of no other. *)
LEMMA ResetCells ==
  ASSUME Shape, NEW w \in Workers, Reset(w), NEW u \in Workers
  PROVE  IF u = w THEN ClearsCells(u) ELSE KeepsCells(u)
<1>1. /\ wpc[w] = "reset" /\ wpc' = [wpc EXCEPT ![w] = "top"]
      /\ queue' = [queue EXCEPT ![w] = Shred(queue[w])]
      /\ current' = [current EXCEPT ![w] = 1]
      /\ \A a \in Callers : call'[a] = IF call[a].w = w /\ call[a].step = "copying"
                                       THEN Tear(call[a]) ELSE call[a]
  BY DEF Reset, Go, At
<1>2. /\ queue \in [Workers -> Seq(Blocks)] /\ wpc \in [Workers -> WorkerSteps]
      /\ current \in [Workers -> Nat \ {0}] /\ call \in [Callers -> Calls]
  BY DEF Shape, TypeOK
<1>3. CASE u = w
  <2>1. queue'[u] = Shred(queue[u]) /\ wpc'[u] = "top"
    BY <1>1, <1>2, <1>3
  <2>2. \A b \in DOMAIN queue'[u] : queue'[u][b].wiped
    BY <2>1 DEF Shred, ShreddedBlock
  <2>3. \A t, b, i : ~Owns(t, u, b, i)'
    BY <2>2 DEF Owns, BlocksOf
  <2> QED
    BY <1>1, <1>3, <2>1, <2>2, <2>3 DEF ClearsCells, Scanning, InCell
<1>4. CASE u # w
  <2>1. queue'[u] = queue[u] /\ current'[u] = current[u]
    BY <1>1, <1>2, <1>4
  <2>2. ASSUME NEW a \in Callers
        PROVE  call'[a] = call[a] \/ (call[a].w # u /\ call'[a].w # u)
    <3>1. CASE call[a].w = w /\ call[a].step = "copying"
      <4>1. call'[a] = Tear(call[a]) /\ call[a] \in Calls
        BY <1>1, <1>2, <3>1
      <4>2. call'[a].w = w
        BY <3>1, <4>1, TearType
      <4> QED
        BY <1>4, <3>1, <4>2
    <3>2. CASE ~(call[a].w = w /\ call[a].step = "copying")
      BY <1>1, <3>2
    <3> QED
      BY <3>1, <3>2
  <2>3. \A t, k, j : Claim(t, u, k, j)' <=> Claim(t, u, k, j)
    BY <2>1, <2>2 DEF Claim
  <2>4. \A t, k, j : Owns(t, u, k, j)' <=> Owns(t, u, k, j)
    BY <2>1, <2>3, OwnsSame
  <2> QED
    BY <1>4, <2>1, <2>4 DEF KeepsCells
<1> QED
  BY <1>3, <1>4

(* A new queue has no owned cell. *)
LEMMA InitWorkerCells ==
  ASSUME Shape, InitWorker, NEW u \in Workers
  PROVE  IF u = mi THEN ClearsCells(u) ELSE KeepsCells(u)
<1>1. CASE u = mi
  <2>1. /\ wpc[u] = "null" /\ arena[u] = "none" /\ current'[u] = 1 /\ call' = call
        /\ wpc'[u] \in {"null", "top", "nothread"}
        /\ queue'[u] \in {<<NewBlock>>, << >>}
    BY <1>1, InitWorkerFrame
  <2>2. \A b \in DOMAIN queue'[u] : b = 1 /\ Len(queue'[u]) = 1 /\ queue'[u][b] = NewBlock
    BY <2>1
  <2>3. \A a \in Callers : call[a].w = u => call[a].step = "idle"
    BY <2>1 DEF Shape, CallsInOrder, Usable
  <2>4. ASSUME NEW t, NEW b, NEW i, Owns(t, u, b, i)'
        PROVE  FALSE
    <3>1. t \in Tasks /\ b \in DOMAIN queue'[u] /\ i \in 1 .. BlockCap
      BY <2>4 DEF Owns, BlocksOf, Offsets
    <3>2. queue'[u][b].data[i] = {NoTask}
      BY <2>2, <3>1 DEF NewBlock, Zeroed, ZeroCell
    <3> QED
      BY <2>1, <2>3, <2>4, <3>1, <3>2 DEF Owns
  <2> QED
    BY <1>1, <2>1, <2>2, <2>4 DEF ClearsCells, Scanning, InCell
<1>2. CASE u # mi
  <2>1. queue'[u] = queue[u] /\ current'[u] = current[u] /\ call' = call
    BY <1>2, InitWorkerFrame
  <2>2. \A t, k, j : Claim(t, u, k, j)' <=> Claim(t, u, k, j)
    BY <2>1 DEF Claim
  <2>3. \A t, k, j : Owns(t, u, k, j)' <=> Owns(t, u, k, j)
    BY <2>1, <2>2, OwnsSame
  <2> QED
    BY <1>2, <2>1, <2>3 DEF KeepsCells
<1> QED
  BY <1>1, <1>2

(* A queue that is freed had no scan. *)
LEMMA DestroyArenaCells ==
  ASSUME IInv, DestroyArena, NEW u \in Workers
  PROVE  IF u = mi THEN ClearsCells(u) ELSE KeepsCells(u)
<1>1. /\ mpc = "free" /\ UNCHANGED <<wpc, call>>
      /\ queue' = [queue EXCEPT ![mi] = << >>]
      /\ current' = [current EXCEPT ![mi] = 1]
  BY DEF DestroyArena, threadVars
<1>2. queue \in [Workers -> Seq(Blocks)] /\ current \in [Workers -> Nat \ {0}]
  BY DEF IInv, TypeOK
<1>3. CASE u = mi
  <2>1. queue'[u] = << >>
    BY <1>1, <1>2, <1>3
  <2>2. wpc[u] \in {"null", "done"}
    BY <1>1, AcksAllTaken DEF IInv
  <2>3. \A b \in DOMAIN queue'[u] : FALSE
    BY <2>1
  <2>4. \A t, b, i : ~Owns(t, u, b, i)'
    BY <2>3 DEF Owns, BlocksOf
  <2> QED
    BY <1>1, <1>3, <2>2, <2>3, <2>4 DEF ClearsCells, Scanning, InCell
<1>4. CASE u # mi
  <2>1. queue'[u] = queue[u] /\ current'[u] = current[u] /\ call' = call
    BY <1>1, <1>2, <1>4
  <2>2. \A t, k, j : Claim(t, u, k, j)' <=> Claim(t, u, k, j)
    BY <2>1 DEF Claim
  <2>3. \A t, k, j : Owns(t, u, k, j)' <=> Owns(t, u, k, j)
    BY <2>1, <2>2, OwnsSame
  <2> QED
    BY <1>4, <2>1, <2>3 DEF KeepsCells
<1> QED
  BY <1>3, <1>4

(* Whatever the step, a worker keeps its cells, or gets one more, or loses *)
(* them all.                                                               *)
CellStep ==
  \A w \in Workers :
    \/ KeepsCells(w)
    \/ ClearsCells(w)
    \/ \E a \in Callers : \E b, i : TakesCell(a, w, b, i)

(* Each step is a CellStep. *)
LEMMA NextCells ==
  ASSUME IInv, CallsApart, CellsApart, [Next]_vars
  PROVE  CellStep
<1>1. Shape /\ LastInUse /\ OneTask /\ HandedOut /\ TornMarked
  BY ApartForms DEF IInv, Shape
<1> SUFFICES ASSUME NEW w \in Workers
             PROVE  \/ KeepsCells(w)
                    \/ ClearsCells(w)
                    \/ \E a \in Callers : \E b, i : TakesCell(a, w, b, i)
  BY DEF CellStep
<1>2. CASE InitWorker
  BY <1>1, <1>2, InitWorkerCells
<1>3. CASE StartDestroy \/ (DestroyStep /\ ~DestroyArena)
  <2>1. UNCHANGED <<queue, current, call>>
    BY <1>3 DEF StartDestroy, DestroyStep, SetShutdown, WakeToStop, AwaitAck,
       DestroyNullArena, Join, SkipMissing, arenaVars
  <2> QED
    BY <2>1, QuietKeeps
<1>4. CASE DestroyArena
  BY <1>4, DestroyArenaCells
<1>5. CASE Submit
  <2>1. PICK a \in Callers, v \in Workers, t \in Tasks :
          \/ \E n \in BOOLEAN : Enqueue(a, v, t, n)
          \/ EnqueueRefused(a, v, t)
    BY <1>5 DEF Submit
  <2>2. CASE EnqueueRefused(a, v, t)
    <3>1. UNCHANGED <<queue, current, call>>
      BY <2>2 DEF EnqueueRefused, arenaVars
    <3> QED
      BY <3>1, QuietKeeps
  <2>3. ASSUME NEW n \in BOOLEAN, Enqueue(a, v, t, n)
        PROVE  KeepsCells(w)
    <3> DEFINE new == [step |-> "alloc", w |-> v, t |-> t, notify |-> n, b |-> 0, i |-> 0]
    <3>1. /\ UNCHANGED <<queue, current>> /\ call[a] = Idle
          /\ call' = [call EXCEPT ![a] = new]
      BY <2>3 DEF Enqueue, Begin, MayCall, arenaVars
    <3>2. call \in [Callers -> Calls] /\ new.step = "alloc" /\ Idle.step = "idle"
      BY <1>1 DEF Shape, TypeOK, Idle
    <3> HIDE DEF new
    <3>3. \A x \in Callers :
            \/ call'[x] = call[x]
            \/ call[x].step \notin {"copy", "copying"} /\ call'[x].step \notin {"copy", "copying"}
      BY <3>1, <3>2
    <3> QED
      BY <3>1, <3>3, QuietKeeps
  <2> QED
    BY <2>1, <2>2, <2>3
<1>6. ASSUME NEW a \in Callers, EnqueueStep(a)
      PROVE  KeepsCells(w) \/ \E b, i : TakesCell(a, w, b, i)
  BY <1>1, <1>6, EnqueueCells
<1>7. ASSUME NEW v \in Workers, WorkerStep(v)
      PROVE  KeepsCells(w) \/ ClearsCells(w)
  <2>1. CASE Reset(v)
    BY <1>1, <2>1, ResetCells
  <2>2. CASE ~Reset(v)
    <3>1. UNCHANGED <<queue, current, call>>
      BY <1>1, <1>7, <2>2, WorkerData
    <3> QED
      BY <3>1, QuietKeeps
  <2> QED
    BY <2>1, <2>2
<1>8. CASE Terminating \/ UNCHANGED vars
  <2>1. UNCHANGED <<queue, current, call>>
    BY <1>8 DEF Terminating, vars, arenaVars
  <2> QED
    BY <2>1, QuietKeeps
<1> QED
  BY <1>2, <1>3, <1>4, <1>5, <1>6, <1>7, <1>8 DEF Next

(* A task is fresh until it is submitted, and never again. *)
LEMMA FreshShrinks ==
  ASSUME [Next]_vars
  PROVE  fresh' \subseteq fresh
<1>1. ASSUME NEW a \in Callers, EnqueueStep(a)
      PROVE  fresh' \subseteq fresh
  BY <1>1 DEF EnqueueStep, AllocHere, AllocNextBlock, AllocNewBlock, TakeCell,
     AllocOutOfMemory, CopyBegin, CopyEnd, Post, historyVars
<1>2. ASSUME NEW w \in Workers, WorkerStep(w)
      PROVE  fresh' \subseteq fresh
  BY <1>2 DEF WorkerStep, Top, SemWait, WokenToStop, StartScan, SkipWiped, NextBlock,
     ToNextBlock, TakeTask, OnLoad, Execute, Return, OnExit, Callback, Advance, Reset,
     Ack, ThreadOnly, historyVars
<1>3. CASE InitWorker \/ StartDestroy \/ Submit \/ DestroyStep \/ Terminating \/ UNCHANGED vars
  BY <1>3 DEF InitWorker, StartDestroy, Submit, Enqueue, EnqueueRefused, DestroyStep,
     SetShutdown, WakeToStop, AwaitAck, DestroyArena, DestroyNullArena, Join,
     SkipMissing, Terminating, vars, historyVars
<1> QED
  BY <1>1, <1>2, <1>3 DEF Next

(* The blocks of torn copies keep their mark. *)
LEMMA TornStays ==
  ASSUME Shape, Shape', TornMarked, NEW w \in Workers, NEW a \in Callers,
         KeepsCells(w) \/ \E x, b, i : TakesCell(x, w, b, i),
         call[a].step = "torn", call'[a] = call[a], call[a].w = w
  PROVE  queue'[call'[a].w][call'[a].b].wiped
<1>1. call[a].b \in DOMAIN queue[w] /\ queue[w][call[a].b].wiped
  BY DEF Shape, CallsInOrder, TornMarked
<1>2. CASE KeepsCells(w)
  BY <1>1, <1>2 DEF KeepsCells
<1>3. ASSUME NEW x, NEW b, NEW i, TakesCell(x, w, b, i)
      PROVE  queue'[w][call[a].b].wiped
  BY <1>1, <1>3 DEF TakesCell
<1> QED
  BY <1>2, <1>3

(* Copies meet only in marked blocks. *)
LEMMA NextTorn ==
  ASSUME IInv, IInv', CallsApart, CellsApart, [Next]_vars
  PROVE  TornMarked'
<1>1. Shape /\ Shape' /\ LastInUse /\ OneTask /\ HandedOut /\ TornMarked /\ CellStep
  BY ApartForms, NextCells DEF IInv, Shape
<1> SUFFICES ASSUME NEW a \in Callers, call'[a].step = "torn"
             PROVE  queue'[call'[a].w][call'[a].b].wiped
  BY DEF TornMarked
<1>2. ASSUME NEW x \in Callers, CopyBegin(x)
      PROVE  queue'[call'[a].w][call'[a].b].wiped
  <2>1. call[x].step = "copy"
    BY <1>2 DEF CopyBegin
  <2>2. /\ call'[a].w = call[a].w /\ call'[a].b = call[a].b
        /\ \/ call'[a] = call[a]
           \/ a = x /\ \E c \in Callers : Copying(x, c)
           \/ a # x /\ Copying(x, a)
    <3>1. /\ call'[a].w = call[a].w /\ call'[a].b = call[a].b
          /\ \/ call'[a] = call[a] /\ a # x /\ ~Copying(x, a)
             \/ a = x /\ call'[a].step = "copying" /\ \A c \in Callers : ~Copying(x, c)
             \/ a = x /\ call'[a].step = "torn" /\ \E c \in Callers : Copying(x, c)
             \/ a # x /\ call'[a].step = "torn" /\ Copying(x, a)
      BY <1>1, <1>2, CopyBeginCalls
    <3> QED
      BY <3>1
  <2>3. PICK w \in Workers : w = call[a].w
    BY <1>1, <2>2 DEF Shape, CallsInOrder
  <2>4. KeepsCells(w)
    BY <1>1, <1>2, CopyBeginKeeps
  <2>5. queue[call[a].w][call[a].b].wiped /\ call[a].b \in DOMAIN queue[call[a].w]
    <3>1. CASE call'[a] = call[a]
      BY <1>1, <3>1 DEF Shape, CallsInOrder, TornMarked
    <3>2. ASSUME NEW c \in Callers, Copying(x, c), ~queue[call[x].w][call[x].b].wiped
          PROVE  FALSE
      <4>1. c = x
        BY <1>1, <2>1, <3>2, CopiesApart DEF Copying
      <4> QED
        BY <2>1, <3>2, <4>1 DEF Copying
    <3>3. CASE a = x /\ \E c \in Callers : Copying(x, c)
      BY <1>1, <2>1, <3>2, <3>3 DEF Shape, CallsInOrder
    <3>4. CASE a # x /\ Copying(x, a)
      BY <1>1, <2>1, <3>2, <3>4 DEF Shape, CallsInOrder, Copying
    <3> QED
      BY <2>2, <3>1, <3>3, <3>4
  <2> QED
    BY <2>2, <2>3, <2>4, <2>5 DEF KeepsCells
<1>3. ASSUME NEW w \in Workers, Reset(w)
      PROVE  queue'[call'[a].w][call'[a].b].wiped
  <2>1. /\ call'[a] = IF call[a].w = w /\ call[a].step = "copying"
                      THEN Tear(call[a]) ELSE call[a]
        /\ queue' = [queue EXCEPT ![w] = Shred(queue[w])]
    BY <1>3 DEF Reset
  <2>2. call'[a].w \in Workers /\ call'[a].b \in DOMAIN queue'[call'[a].w]
    BY <1>1 DEF Shape, CallsInOrder
  <2>3. CASE call'[a].w = w
    <3>1. queue'[w] = Shred(queue[w])
      BY <1>1, <2>1 DEF Shape, TypeOK
    <3> QED
      BY <2>2, <2>3, <3>1 DEF Shred, ShreddedBlock
  <2>4. CASE call'[a].w # w
    <3>1. call'[a] = call[a]
      <4>1. CASE call[a].w = w /\ call[a].step = "copying"
        <5>1. call'[a].w = w
          BY <1>1, <2>1, <4>1, TearType DEF Shape, TypeOK
        <5> QED
          BY <2>4, <5>1
      <4> QED
        BY <2>1, <4>1
    <3>2. PICK u \in Workers : u = call[a].w
      BY <2>2, <3>1
    <3>3. KeepsCells(u)
      BY <1>1, <1>3, <2>4, <3>1, <3>2, ResetCells
    <3> QED
      BY <1>1, <3>1, <3>2, <3>3, TornStays
  <2> QED
    BY <2>3, <2>4
<1>5. ASSUME call'[a] = call[a], \A w \in Workers : call[a].w = w => KeepsCells(w)
      PROVE  queue'[call'[a].w][call'[a].b].wiped
  <2>1. PICK w \in Workers : w = call[a].w
    BY <1>1, <1>5 DEF Shape, CallsInOrder
  <2> QED
    BY <1>1, <1>5, <2>1, TornStays
<1>6. CASE InitWorker
  <2>1. call'[a] = call[a] /\ arena[mi] = "none"
    BY <1>1, <1>6, InitWorkerFrame
  <2>2. call[a].w # mi
    BY <1>1, <2>1 DEF Shape, CallsInOrder, Usable
  <2> QED
    BY <1>1, <1>5, <1>6, <2>1, <2>2, InitWorkerCells
<1>7. CASE DestroyArena
  <2>1. call[a] = Idle /\ call' = call
    BY <1>1, <1>7, AcksAllTaken DEF DestroyArena, Shape, CallsInOrder, Callers, IInv
  <2> QED
    BY <2>1 DEF Idle
<1>8. CASE StartDestroy \/ (DestroyStep /\ ~DestroyArena) \/ Terminating \/ UNCHANGED vars
  <2>1. UNCHANGED <<queue, current, call>>
    BY <1>8 DEF StartDestroy, DestroyStep, SetShutdown, WakeToStop, AwaitAck,
       DestroyNullArena, Join, SkipMissing, Terminating, vars, arenaVars
  <2> QED
    BY <1>5, <2>1, QuietKeeps
<1>9. ASSUME NEW w \in Workers, WorkerStep(w), ~Reset(w)
      PROVE  queue'[call'[a].w][call'[a].b].wiped
  <2>1. UNCHANGED <<queue, current, call>>
    BY <1>1, <1>9, WorkerData
  <2> QED
    BY <1>5, <2>1, QuietKeeps
<1>10. CASE Submit
  <2>1. PICK x \in Callers, v \in Workers, t \in Tasks :
          \/ \E n \in BOOLEAN : Enqueue(x, v, t, n)
          \/ EnqueueRefused(x, v, t)
    BY <1>10 DEF Submit
  <2>2. UNCHANGED <<queue, current>>
    BY <2>1 DEF Enqueue, EnqueueRefused, arenaVars
  <2>3. call'[a] = call[a]
    <3>1. CASE EnqueueRefused(x, v, t)
      BY <3>1 DEF EnqueueRefused
    <3>2. ASSUME NEW n \in BOOLEAN, Enqueue(x, v, t, n)
          PROVE  call'[a] = call[a]
      <4> DEFINE new == [step |-> "alloc", w |-> v, t |-> t, notify |-> n, b |-> 0, i |-> 0]
      <4>1. call' = [call EXCEPT ![x] = new] /\ call \in [Callers -> Calls]
        BY <1>1, <3>2 DEF Enqueue, Begin, Shape, TypeOK
      <4>2. new.step = "alloc"
        OBVIOUS
      <4> HIDE DEF new
      <4> QED
        BY <4>1, <4>2
    <3> QED
      BY <2>1, <3>1, <3>2
  <2> QED
    BY <1>1, <2>2, <2>3 DEF Shape, CallsInOrder, TornMarked
<1>11. ASSUME NEW x \in Callers, EnqueueStep(x), ~CopyBegin(x)
       PROVE  queue'[call'[a].w][call'[a].b].wiped
  <2>1. call'[a] = call[a]
    <3>1. CASE Allocs(x)
      <4>1. PICK b, q : TakeCell(x, b, q)
        BY <3>1 DEF Allocs, AllocHere, AllocNextBlock, AllocNewBlock
      <4> DEFINE new == [step |-> "copy", w |-> call[x].w, t |-> call[x].t,
                         notify |-> call[x].notify, b |-> b, i |-> q[b].off + 1]
      <4>2. call' = [call EXCEPT ![x] = new] /\ call \in [Callers -> Calls]
        BY <1>1, <4>1 DEF TakeCell, Shape, TypeOK
      <4>3. new.step = "copy"
        OBVIOUS
      <4> HIDE DEF new
      <4> QED
        BY <4>2, <4>3
    <3>2. CASE CopyEnd(x)
      BY <1>1, <3>2, CopyEndCalls DEF Idle
    <3>3. CASE AllocOutOfMemory(x) \/ Post(x)
      <4>1. call' = [call EXCEPT ![x] = Idle] /\ call \in [Callers -> Calls]
        BY <1>1, <3>3 DEF AllocOutOfMemory, Post, Shape, TypeOK
      <4>2. Idle.step = "idle"
        BY DEF Idle
      <4> QED
        BY <4>1, <4>2
    <3> QED
      BY <1>11, <3>1, <3>2, <3>3 DEF EnqueueStep, Allocs
  <2>2. ASSUME NEW w \in Workers, call[a].w = w
        PROVE  KeepsCells(w) \/ \E y, b, i : TakesCell(y, w, b, i)
    BY <1>1, <1>11, EnqueueCells
  <2>3. PICK w \in Workers : w = call[a].w
    BY <1>1, <2>1 DEF Shape, CallsInOrder
  <2> QED
    BY <1>1, <2>1, <2>2, <2>3, TornStays
<1> QED
  BY <1>2, <1>3, <1>6, <1>7, <1>8, <1>9, <1>10, <1>11 DEF Next

(* A cell that is owned after a step was owned before it, or has just been *)
(* handed out.                                                             *)
LEMMA OwnsNext ==
  ASSUME CellStep, NEW t, NEW w, NEW b, NEW i, Owns(t, w, b, i)'
  PROVE  Owns(t, w, b, i) \/ \E a \in Callers : TakesCell(a, w, b, i) /\ call[a].t = t
<1>1. w \in Workers
  BY DEF Owns
<1>2. CASE KeepsCells(w)
  BY <1>2 DEF KeepsCells
<1>3. CASE ClearsCells(w)
  BY <1>3 DEF ClearsCells
<1>4. ASSUME NEW a \in Callers, NEW c, NEW j, TakesCell(a, w, c, j)
      PROVE  Owns(t, w, b, i) \/ (TakesCell(a, w, b, i) /\ call[a].t = t)
  <2>1. Owns(t, w, b, i) \/ (t = call[a].t /\ b = c /\ i = j)
    BY <1>4 DEF TakesCell
  <2> QED
    BY <1>4, <2>1
<1> QED
  BY <1>1, <1>2, <1>3, <1>4 DEF CellStep

(* One step hands out one cell, to one caller. *)
LEMMA OneTaker ==
  ASSUME Shape, CallsApart, NEW a \in Callers, NEW c \in Callers,
         NEW v, NEW b, NEW i, NEW w, NEW d, NEW j,
         TakesCell(a, v, b, i), TakesCell(c, w, d, j)
  PROVE  call[a].t = call[c].t /\ v = w
<1>1. call[a].t \in fresh /\ call[c].t \in fresh /\ call[a].t = call[c].t
  BY DEF TakesCell
<1>2. call[a].t # NoTask /\ Idle.t = NoTask
  BY <1>1 DEF Shape, TypeOK, Idle
<1>3. a = c
  BY <1>1, <1>2 DEF CallsApart
<1> QED
  BY <1>1, <1>3 DEF TakesCell

(* The cells stay apart. *)
LEMMA NextApart ==
  ASSUME IInv, IInv', CallsApart, CellsApart, [Next]_vars
  PROVE  CellsApart'
<1>1. Shape /\ LastInUse /\ OneTask /\ OneCell /\ HandedOut /\ CellStep
  BY ApartForms, NextCells DEF IInv, Shape
<1>2. TornMarked'
  BY NextTorn
<1>3. LastInUse'
  <2> SUFFICES ASSUME NEW w \in Workers, NEW b \in DOMAIN queue'[w], ~queue'[w][b].wiped
               PROVE  current'[w] = Len(queue'[w])
    BY DEF LastInUse
  <2>1. CASE KeepsCells(w)
    BY <1>1, <2>1 DEF KeepsCells, LastInUse
  <2>2. CASE ClearsCells(w)
    BY <2>2 DEF ClearsCells
  <2>3. ASSUME NEW a \in Callers, NEW c, NEW j, TakesCell(a, w, c, j)
        PROVE  current'[w] = Len(queue'[w])
    BY <2>3 DEF TakesCell
  <2> QED
    BY <1>1, <2>1, <2>2, <2>3 DEF CellStep
<1>4. OneTask'
  <2> SUFFICES ASSUME NEW t, NEW u, NEW w, NEW b, NEW i, Owns(t, w, b, i)', Owns(u, w, b, i)'
               PROVE  t = u
    BY DEF OneTask
  <2>1. ASSUME NEW a \in Callers, TakesCell(a, w, b, i), NEW s, Owns(s, w, b, i)
        PROVE  FALSE
    <3>1. Before(b, i, b, i) /\ b \in Nat /\ i \in Nat
      BY <2>1 DEF TakesCell
    <3> QED
      BY <3>1 DEF Before
  <2>2. Owns(t, w, b, i) \/ \E a \in Callers : TakesCell(a, w, b, i) /\ call[a].t = t
    BY <1>1, OwnsNext
  <2>3. Owns(u, w, b, i) \/ \E a \in Callers : TakesCell(a, w, b, i) /\ call[a].t = u
    BY <1>1, OwnsNext
  <2>4. CASE Owns(t, w, b, i) /\ Owns(u, w, b, i)
    BY <1>1, <2>4 DEF OneTask
  <2>5. ASSUME NEW a \in Callers, TakesCell(a, w, b, i) /\ call[a].t = t,
               NEW c \in Callers, TakesCell(c, w, b, i) /\ call[c].t = u
        PROVE  t = u
    BY <1>1, <2>5, OneTaker
  <2> QED
    BY <2>1, <2>2, <2>3, <2>4, <2>5
<1>5. OneCell'
  <2> SUFFICES ASSUME NEW t, NEW v, NEW w, NEW b, NEW c, NEW i, NEW j,
                      Owns(t, v, b, i)', Owns(t, w, c, j)'
               PROVE  v = w /\ b = c /\ i = j
    BY DEF OneCell
  <2>1. ASSUME NEW a \in Callers, NEW x, NEW d, NEW k, TakesCell(a, x, d, k), call[a].t = t,
               NEW y, NEW e, NEW l, Owns(t, y, e, l)
        PROVE  FALSE
    BY <1>1, <2>1 DEF TakesCell, HandedOut
  <2>2. Owns(t, v, b, i) \/ \E a \in Callers : TakesCell(a, v, b, i) /\ call[a].t = t
    BY <1>1, OwnsNext
  <2>3. Owns(t, w, c, j) \/ \E a \in Callers : TakesCell(a, w, c, j) /\ call[a].t = t
    BY <1>1, OwnsNext
  <2>4. CASE Owns(t, v, b, i) /\ Owns(t, w, c, j)
    BY <1>1, <2>4 DEF OneCell
  <2>5. ASSUME NEW a \in Callers, TakesCell(a, v, b, i) /\ call[a].t = t,
               NEW d \in Callers, TakesCell(d, w, c, j) /\ call[d].t = t
        PROVE  v = w /\ b = c /\ i = j
    <3>1. v = w
      BY <1>1, <2>5, OneTaker
    <3>2. Owns(t, v, c, j) \/ (c = b /\ j = i)
      BY <2>5, <3>1 DEF TakesCell
    <3>3. ~Owns(t, v, c, j)
      BY <2>1, <2>5
    <3> QED
      BY <3>1, <3>2, <3>3
  <2> QED
    BY <2>1, <2>2, <2>3, <2>4, <2>5
<1>6. HandedOut'
  <2> SUFFICES ASSUME NEW t, NEW w, NEW b, NEW i, Owns(t, w, b, i)'
               PROVE  i <= queue'[w][b].off /\ t \notin fresh'
    BY DEF HandedOut
  <2>1. w \in Workers
    BY DEF Owns
  <2>2. CASE Owns(t, w, b, i)
    <3>1. b \in DOMAIN queue[w] /\ ~queue[w][b].wiped /\ i \in 1 .. BlockCap
      BY <2>2, OwnsRange
    <3>2. i <= queue[w][b].off /\ t \notin fresh
      BY <1>1, <2>2 DEF HandedOut
    <3>3. t \notin fresh'
      BY <3>2, FreshShrinks
    <3>4. CASE KeepsCells(w)
      BY <3>1, <3>2, <3>3, <3>4 DEF KeepsCells
    <3>5. CASE ClearsCells(w)
      BY <3>5 DEF ClearsCells
    <3>6. ASSUME NEW a \in Callers, NEW c, NEW j, TakesCell(a, w, c, j)
          PROVE  i <= queue'[w][b].off
      <4>1. queue'[w][b].off >= queue[w][b].off /\ b \in DOMAIN queue'[w]
        BY <3>1, <3>6 DEF TakesCell
      <4>2. queue[w] \in Seq(Blocks) /\ queue'[w] \in Seq(Blocks)
        BY <2>1 DEF IInv, TypeOK
      <4>3. queue[w][b].off \in Nat /\ queue'[w][b].off \in Nat
        BY <3>1, <4>1, <4>2, OffsetType
      <4> QED
        BY <3>1, <3>2, <4>1, <4>3
    <3> QED
      BY <1>1, <2>1, <3>3, <3>4, <3>5, <3>6 DEF CellStep
  <2>3. ASSUME NEW a \in Callers, TakesCell(a, w, b, i), call[a].t = t
        PROVE  i <= queue'[w][b].off /\ t \notin fresh'
    BY <2>3 DEF TakesCell
  <2> QED
    BY <1>1, <2>2, <2>3, OwnsNext
<1> QED
  BY <1>2, <1>3, <1>4, <1>5, <1>6
  DEF CellsApart, LastInUse, OneTask, OneCell, HandedOut, TornMarked, BlocksOf

-----------------------------------------------------------------------------
(* How a step moves the scan of a worker: not at all, ...                  *)
ScanStays(w) ==
  wpc'[w] = wpc[w] /\ rb'[w] = rb[w] /\ ro'[w] = ro[w] /\ active'[w] = active[w]

(* ... outside the cells and never back, ...                               *)
ScanOutside(w) ==
  /\ wpc'[w] \notin InCell
  /\ wpc[w] \in InCell => active'[w] = NoTask
  /\ wpc[w] \notin InCell => active'[w] = active[w]
  /\ \A b, i \in Nat : Ahead(w, b, i)' => Ahead(w, b, i)

(* ... into a cell, ...                                                    *)
ScanEnters(w) ==
  /\ wpc[w] = "scan" /\ wpc'[w] = "on_load" /\ ~queue[w][rb[w]].wiped
  /\ rb'[w] = rb[w] /\ ro'[w] = ro[w] /\ active'[w] = active[w]

(* ... through it, ...                                                     *)
ScanInside(w) ==
  /\ wpc[w] \in InCell /\ wpc'[w] \in InCell
  /\ Limit(w)' \in Nat /\ Limit(w) \in Nat /\ Limit(w) <= Limit(w)'
  /\ rb'[w] = rb[w] /\ ro'[w] = ro[w] /\ active'[w] = active[w]

ScanQuiet(w) == ScanStays(w) \/ ScanOutside(w) \/ ScanEnters(w) \/ ScanInside(w)

(* ... or through it and with a callback.                                  *)
ScanCalls(w, t, c) ==
  /\ wpc[w] \in InCell /\ wpc'[w] \in InCell /\ t \in Cell(w)
  /\ Limit(w)' \in Nat /\ Rank(c) \in Nat /\ Rank(c) = Limit(w) /\ Limit(w) < Limit(w)'
  /\ rb'[w] = rb[w] /\ ro'[w] = ro[w]
  /\ ran' = [ran EXCEPT ![t] = Append(@, c)]
  /\ active' = [active EXCEPT ![w] = t]
  /\ pending' = [pending EXCEPT ![w] = After(@, t)]

(* Each step of start_working() but arena_reset() is one of these.         *)
LEMMA WorkerScan ==
  ASSUME Shape, NEW w \in Workers, WorkerStep(w), ~Reset(w)
  PROVE  \/ ScanQuiet(w) /\ UNCHANGED <<ran, pending>>
         \/ \E t \in Tasks, c \in Callbacks : ScanCalls(w, t, c)
<1> USE DEF Go, At, ThreadOnly, historyVars
<1>1. /\ wpc \in [Workers -> WorkerSteps]
      /\ rb \in [Workers -> Nat \ {0}] /\ ro \in [Workers -> Nat]
      /\ rb[w] \in Nat /\ ro[w] \in Nat
      /\ active \in [Workers -> Tasks \cup {NoTask}]
  BY DEF Shape, TypeOK
<1>2. CASE Top(w) \/ SemWait(w) \/ WokenToStop(w) \/ Ack(w)
  <2>1. /\ wpc[w] \in {"top", "wait", "woken", "ack"}
        /\ wpc'[w] \in {"ack", "wait", "woken", "done"}
        /\ UNCHANGED <<ran, pending, active>>
    BY <1>1, <1>2 DEF Top, SemWait, WokenToStop, Ack
  <2>2. \A b, i \in Nat : Ahead(w, b, i)' => Ahead(w, b, i)
    BY <2>1 DEF Ahead, Scanning, InCell
  <2> QED
    BY <2>1, <2>2 DEF ScanQuiet, ScanOutside, InCell
<1>3. CASE StartScan(w)
  <2>1. /\ wpc[w] = "woken" /\ wpc'[w] = "scan"
        /\ UNCHANGED <<ran, pending, active>>
    BY <1>1, <1>3 DEF StartScan
  <2>2. \A b, i \in Nat : Ahead(w, b, i)' => Ahead(w, b, i)
    BY <2>1 DEF Ahead, Scanning, InCell
  <2> QED
    BY <2>1, <2>2 DEF ScanQuiet, ScanOutside, InCell
<1>4. CASE SkipWiped(w) \/ NextBlock(w)
  <2>1. /\ wpc[w] \in {"scan", "next"} /\ wpc'[w] \in {"scan", "reset"}
        /\ rb'[w] = rb[w] + 1 /\ ro'[w] = 0
        /\ UNCHANGED <<ran, pending, active>>
    BY <1>1, <1>4 DEF SkipWiped, NextBlock, ToNextBlock
  <2>2. \A b, i \in Nat : Before(rb[w] + 1, 0, b, i) => Before(rb[w], ro[w], b, i)
    BY <1>1 DEF Before
  <2>3. \A b, i \in Nat : Ahead(w, b, i)' => Ahead(w, b, i)
    BY <2>1, <2>2 DEF Ahead, Scanning, InCell, Before
  <2> QED
    BY <2>1, <2>3 DEF ScanQuiet, ScanOutside, InCell
<1>5. CASE TakeTask(w)
  <2>1. /\ wpc[w] = "scan" /\ wpc'[w] \in {"on_load", "next"} /\ ~queue[w][rb[w]].wiped
        /\ UNCHANGED <<ran, pending, active, rb, ro>>
    BY <1>1, <1>5 DEF TakeTask
  <2>2. CASE wpc'[w] = "on_load"
    BY <2>1, <2>2 DEF ScanQuiet, ScanEnters
  <2>3. CASE wpc'[w] = "next"
    <3>1. \A b, i \in Nat : Ahead(w, b, i)' => Ahead(w, b, i)
      BY <2>1, <2>3 DEF Ahead, Scanning, InCell, Before
    <3> QED
      BY <2>1, <2>3, <3>1 DEF ScanQuiet, ScanOutside, InCell
  <2> QED
    BY <2>1, <2>2, <2>3
<1>6. CASE Advance(w)
  <2>1. /\ wpc[w] = "advance" /\ wpc'[w] = "scan" /\ rb' = rb /\ ro'[w] = ro[w] + 1
        /\ UNCHANGED <<ran, pending>> /\ active'[w] = NoTask
    BY <1>1, <1>6 DEF Advance
  <2>2. \A b, i \in Nat : Ahead(w, b, i)' => Ahead(w, b, i)
    BY <2>1 DEF Ahead, Scanning, InCell, Before
  <2> QED
    BY <2>1, <2>2 DEF ScanQuiet, ScanOutside, InCell
<1>7. CASE Return(w)
  <2>1. /\ wpc[w] = "executing" /\ wpc'[w] = "on_exit"
        /\ UNCHANGED <<ran, pending, active, rb, ro>>
    BY <1>1, <1>7 DEF Return
  <2>2. Limit(w) = 3 /\ Limit(w)' = 3
    BY <2>1 DEF Limit
  <2> QED
    BY <2>1, <2>2 DEF ScanQuiet, ScanInside, InCell
<1>8. ASSUME NEW t \in Cell(w), NEW c \in Callbacks, Callback(w, t, c), wpc[w] = c,
             wpc'[w] = CASE c = "on_load" -> "execute"
                         [] c = "execute" -> IF t = NoTask THEN "on_exit" ELSE "executing"
                         [] c = "on_exit" -> "advance"
      PROVE  \/ ScanQuiet(w) /\ UNCHANGED <<ran, pending>>
             \/ \E u \in Tasks, d \in Callbacks : ScanCalls(w, u, d)
  <2>1. c \in {"on_load", "execute", "on_exit"}
    BY DEF Callbacks
  <2>2. /\ Limit(w) \in Nat /\ Limit(w)' \in Nat /\ Limit(w) = Rank(c) /\ Limit(w) < Limit(w)'
        /\ wpc[w] \in InCell /\ wpc'[w] \in InCell
    <3>1. CASE c = "on_load"
      BY <1>8, <3>1 DEF Limit, Rank, InCell
    <3>2. CASE c = "execute"
      <4>1. wpc'[w] \in {"on_exit", "executing"}
        BY <1>8, <3>2
      <4> QED
        BY <1>8, <3>2, <4>1 DEF Limit, Rank, InCell
    <3>3. CASE c = "on_exit"
      BY <1>8, <3>3 DEF Limit, Rank, InCell
    <3> QED
      BY <2>1, <3>1, <3>2, <3>3
  <2>3. UNCHANGED <<rb, ro>>
    BY <1>8 DEF Callback
  <2>4. CASE t = NoTask
    <3>1. UNCHANGED <<ran, active, pending>>
      BY <1>8, <2>4 DEF Callback
    <3> QED
      BY <2>2, <2>3, <3>1 DEF ScanQuiet, ScanInside
  <2>5. CASE t # NoTask
    <3>1. t \in Tasks
      BY <2>2, <2>5, CellType
    <3>2. /\ ran' = [ran EXCEPT ![t] = Append(@, c)]
          /\ active' = [active EXCEPT ![w] = t]
          /\ pending' = [pending EXCEPT ![w] = After(@, t)]
      BY <1>8, <2>5 DEF Callback
    <3>3. ScanCalls(w, t, c)
      BY <2>2, <2>3, <3>2 DEF ScanCalls
    <3> QED
      BY <3>1, <3>3
  <2> QED
    BY <2>4, <2>5
<1>9. CASE OnLoad(w)
  <2>1. PICK t \in Cell(w) : Callback(w, t, "on_load") /\ Go(w, "on_load", "execute")
    BY <1>9 DEF OnLoad
  <2> QED
    BY <1>1, <1>8, <2>1 DEF Callbacks
<1>10. CASE Execute(w)
  <2>1. PICK t \in Cell(w) :
          /\ Callback(w, t, "execute")
          /\ Go(w, "execute", IF t = NoTask THEN "on_exit" ELSE "executing")
    BY <1>10 DEF Execute
  <2> QED
    BY <1>1, <1>8, <2>1 DEF Callbacks
<1>11. CASE OnExit(w)
  <2>1. PICK t \in Cell(w) : Callback(w, t, "on_exit") /\ Go(w, "on_exit", "advance")
    BY <1>11 DEF OnExit
  <2> QED
    BY <1>1, <1>8, <2>1 DEF Callbacks
<1> QED
  BY <1>2, <1>3, <1>4, <1>5, <1>6, <1>7, <1>9, <1>10, <1>11 DEF WorkerStep

(* The other workers' scans stay. *)
LEMMA WorkerScanOthers ==
  ASSUME Shape, NEW w \in Workers, WorkerStep(w), NEW v \in Workers, v # w
  PROVE  ScanStays(v)
<1>1. /\ wpc' = [wpc EXCEPT ![w] = wpc'[w]] /\ wpc \in [Workers -> WorkerSteps]
      /\ rb \in [Workers -> Nat \ {0}] /\ ro \in [Workers -> Nat]
      /\ active \in [Workers -> Tasks \cup {NoTask}]
  BY WorkerFrame DEF Shape, TypeOK
<1>2. CASE Reset(w)
  <2>1. /\ rb' = [rb EXCEPT ![w] = 1] /\ ro' = [ro EXCEPT ![w] = 0] /\ active' = active
    BY <1>2 DEF Reset
  <2> QED
    BY <1>1, <2>1 DEF ScanStays
<1>3. CASE ~Reset(w)
  <2>1. /\ rb' \in {rb, [rb EXCEPT ![w] = 1], [rb EXCEPT ![w] = @ + 1]}
        /\ ro' \in {ro, [ro EXCEPT ![w] = 0], [ro EXCEPT ![w] = @ + 1]}
        /\ \/ active' \in {active, [active EXCEPT ![w] = NoTask]}
           \/ \E t \in Tasks : active' = [active EXCEPT ![w] = t]
    BY <1>3, WorkerData
  <2>2. rb'[v] = rb[v] /\ ro'[v] = ro[v]
    BY <1>1, <2>1
  <2>3. active'[v] = active[v]
    BY <1>1, <2>1
  <2>4. wpc'[v] = wpc[v]
    BY <1>1
  <2> QED
    BY <2>2, <2>3, <2>4 DEF ScanStays
<1> QED
  BY <1>2, <1>3

(* The block and the cells of a worker whose cells are not cleared.        *)
LEMMA CellsStay ==
  ASSUME CellStep, NEW w \in Workers, ~ClearsCells(w)
  PROVE  /\ \A b \in DOMAIN queue[w] : /\ b \in DOMAIN queue'[w]
                                       /\ queue'[w][b].wiped = queue[w][b].wiped
         /\ \A t, b, i : Owns(t, w, b, i) => Owns(t, w, b, i)'
<1>1. CASE KeepsCells(w)
  BY <1>1 DEF KeepsCells
<1>2. ASSUME NEW a, NEW c, NEW j, TakesCell(a, w, c, j)
      PROVE  /\ \A b \in DOMAIN queue[w] : /\ b \in DOMAIN queue'[w]
                                           /\ queue'[w][b].wiped = queue[w][b].wiped
             /\ \A t, b, i : Owns(t, w, b, i) => Owns(t, w, b, i)'
  BY <1>2 DEF TakesCell
<1> QED
  BY <1>1, <1>2 DEF CellStep

(* The cell a scan is in exists, and is owned by the tasks it holds. *)
LEMMA CellOwned ==
  ASSUME Shape, NEW w \in Workers, wpc[w] \in InCell, ~queue[w][rb[w]].wiped,
         NEW t \in Tasks, t \in Cell(w)
  PROVE  Owns(t, w, rb[w], ro[w] + 1)
<1>1. rb[w] \in DOMAIN queue[w] /\ ro[w] < queue[w][rb[w]].off
  BY DEF Shape, ScanInBounds, Scanning
<1>2. queue[w][rb[w]] \in Blocks /\ ro[w] \in Nat
  BY <1>1 DEF Shape, TypeOK
<1>3. ro[w] + 1 \in 1 .. BlockCap
  BY <1>1, <1>2 DEF Blocks
<1> QED
  BY <1>1, <1>3 DEF Owns, Cell, BlocksOf, Offsets

(* CallbacksInOrder, for one cell. *)
LEMMA CallbacksAt ==
  ASSUME CallbacksInOrder, NEW t, NEW w, NEW b, NEW i, Owns(t, w, b, i)
  PROVE  /\ Ahead(w, b, i) => ran[t] = << >>
         /\ Inside(w, b, i) => /\ active[w] = NoTask => ran[t] = << >>
                               /\ \A k \in DOMAIN ran[t] : Rank(ran[t][k]) < Limit(w)
<1>1. t \in Tasks /\ w \in Workers /\ b \in BlocksOf(w) /\ i \in Offsets
  BY DEF Owns
<1> QED
  BY <1>1 DEF CallbacksInOrder

(* Ahead and Inside follow the scan: when it stays, ... *)
LEMMA AheadStays ==
  ASSUME NEW w \in Workers, ScanStays(w), NEW b, NEW i
  PROVE  /\ Ahead(w, b, i)' <=> Ahead(w, b, i)
         /\ Inside(w, b, i)' <=> Inside(w, b, i)
         /\ Limit(w)' = Limit(w)
<1>1. wpc'[w] = wpc[w] /\ rb'[w] = rb[w] /\ ro'[w] = ro[w]
  BY DEF ScanStays
<1>2. Ahead(w, b, i)' <=> Ahead(w, b, i)
  BY <1>1 DEF Ahead, Before
<1>3. Inside(w, b, i)' <=> Inside(w, b, i)
  BY <1>1 DEF Inside
<1>4. Limit(w)' = Limit(w)
  BY <1>1 DEF Limit
<1> QED
  BY <1>2, <1>3, <1>4

(* ... when it goes through a cell, ... *)
LEMMA AheadInside ==
  ASSUME NEW w \in Workers, wpc[w] \in InCell, wpc'[w] \in InCell,
         rb'[w] = rb[w], ro'[w] = ro[w], NEW b, NEW i
  PROVE  /\ Ahead(w, b, i)' <=> Ahead(w, b, i)
         /\ Inside(w, b, i)' <=> Inside(w, b, i)
<1>1. wpc[w] # "reset" /\ wpc'[w] # "reset" /\ wpc[w] \in Scanning /\ wpc'[w] \in Scanning
  BY DEF InCell, Scanning
<1>2. Ahead(w, b, i)' <=> Ahead(w, b, i)
  BY <1>1 DEF Ahead, Before
<1>3. Inside(w, b, i)' <=> Inside(w, b, i)
  BY DEF Inside
<1> QED
  BY <1>2, <1>3

(* ... when it enters one. *)
LEMMA AheadEnters ==
  ASSUME Shape, NEW w \in Workers, ScanEnters(w), NEW b \in Nat, NEW i \in Nat
  PROVE  Ahead(w, b, i)' \/ Inside(w, b, i)' => Ahead(w, b, i)
<1>1. /\ wpc[w] = "scan" /\ wpc'[w] = "on_load" /\ rb'[w] = rb[w] /\ ro'[w] = ro[w]
      /\ rb[w] \in Nat /\ ro[w] \in Nat
  BY DEF ScanEnters, Shape, TypeOK
<1>2. Ahead(w, b, i) <=> Before(rb[w], ro[w], b, i)
  BY <1>1 DEF Ahead, Scanning, InCell
<1>3. Ahead(w, b, i)' <=> Before(rb[w], ro[w] + 1, b, i)
  BY <1>1 DEF Ahead, Scanning, InCell, Before
<1>4. Inside(w, b, i)' => b = rb[w] /\ i = ro[w] + 1
  BY <1>1 DEF Inside
<1> QED
  BY <1>1, <1>2, <1>3, <1>4 DEF Before

(* Before a cell that is owned is reached or left, the callbacks called in *)
(* it are those that it had.                                               *)
LEMMA QuietCallbacks ==
  ASSUME Shape, CallbacksInOrder, CellStep, fresh' \subseteq fresh, ran' = ran,
         \A v \in Workers : ScanQuiet(v) \/ (ClearsCells(v) /\ active'[v] = active[v])
  PROVE  CallbacksInOrder'
<1>1. ASSUME NEW w \in Workers, wpc'[w] \in InCell
      PROVE  ~queue'[w][rb'[w]].wiped
  <2>1. ~ClearsCells(w)
    BY <1>1 DEF ClearsCells, Scanning
  <2>2. rb'[w] = rb[w] /\ (wpc[w] \in InCell \/ ScanEnters(w))
    BY <1>1, <2>1 DEF ScanQuiet, ScanStays, ScanOutside, ScanEnters, ScanInside
  <2>3. ~queue[w][rb[w]].wiped /\ rb[w] \in DOMAIN queue[w]
    BY <2>2 DEF CallbacksInOrder, ScanEnters, Shape, ScanInBounds, Scanning
  <2> QED
    BY <2>1, <2>2, <2>3, CellsStay
<1>2. ASSUME NEW w \in Workers, active'[w] # NoTask
      PROVE  wpc'[w] \in InCell /\ Owns(active[w], w, rb[w], ro[w] + 1)'
  <2>1. active[w] # NoTask => wpc[w] \in InCell
    BY DEF CallbacksInOrder
  <2>2. ~ClearsCells(w)
    BY <1>2, <2>1
    DEF ClearsCells, Scanning, ScanQuiet, ScanStays, ScanOutside, ScanEnters, ScanInside
  <2>3. /\ wpc[w] \in InCell /\ wpc'[w] \in InCell
        /\ rb'[w] = rb[w] /\ ro'[w] = ro[w] /\ active'[w] = active[w]
    BY <1>2, <2>1, <2>2
    DEF ScanQuiet, ScanStays, ScanOutside, ScanEnters, ScanInside, InCell
  <2>4. Owns(active[w], w, rb[w], ro[w] + 1)
    BY <1>2, <2>3 DEF CallbacksInOrder
  <2>5. PICK t, b, i : t = active[w] /\ b = rb[w] /\ i = ro[w] + 1
    OBVIOUS
  <2>6. Owns(t, w, b, i)
    BY <2>4, <2>5
  <2>7. Owns(t, w, b, i)'
    BY <2>2, <2>6, CellsStay
  <2>8. t = active'[w] /\ b = rb'[w] /\ i = ro'[w] + 1
    BY <2>3, <2>5
  <2> QED
    BY <2>3, <2>7, <2>8 DEF Owns, BlocksOf
<1>3. ASSUME NEW w \in Workers, NEW b, NEW i, NEW t, Owns(t, w, b, i)'
      PROVE  /\ Ahead(w, b, i)' => ran'[t] = << >>
             /\ Inside(w, b, i)' => /\ active'[w] = NoTask => ran'[t] = << >>
                                    /\ \A k \in DOMAIN ran'[t] : Rank(ran'[t][k]) < Limit(w)'
  <2>1. ASSUME ran[t] = << >>
        PROVE  /\ ran'[t] = << >>
               /\ \A k \in DOMAIN ran'[t] : Rank(ran'[t][k]) < Limit(w)'
    BY <2>1
  <2>2. ASSUME NEW a, TakesCell(a, w, b, i), call[a].t = t
        PROVE  ran[t] = << >>
    BY <2>2 DEF TakesCell, CallbacksInOrder
  <2>3. CASE Owns(t, w, b, i)
    <3>1. ~ClearsCells(w)
      BY <1>3 DEF ClearsCells
    <3>2. /\ Ahead(w, b, i) => ran[t] = << >>
          /\ Inside(w, b, i) => /\ active[w] = NoTask => ran[t] = << >>
                                /\ \A k \in DOMAIN ran[t] : Rank(ran[t][k]) < Limit(w)
      BY <2>3, CallbacksAt
    <3>3. b \in Nat /\ i \in Nat /\ t \in Tasks
      <4>1. b \in DOMAIN queue[w] /\ i \in 1 .. BlockCap /\ t \in Tasks /\ queue[w] \in Seq(Blocks)
        BY <2>3, OwnsRange DEF Shape, TypeOK
      <4> QED
        BY <4>1
    <3>4. CASE ScanStays(w)
      <4>1. active'[w] = active[w]
        BY <3>4 DEF ScanStays
      <4> QED
        BY <3>2, <3>4, <4>1, AheadStays
    <3>5. CASE ScanOutside(w)
      BY <2>1, <3>2, <3>3, <3>5 DEF ScanOutside, Inside
    <3>6. CASE ScanEnters(w)
      BY <2>1, <3>2, <3>3, <3>6, AheadEnters
    <3>7. CASE ScanInside(w)
      <4>1. /\ Ahead(w, b, i)' <=> Ahead(w, b, i)
            /\ Inside(w, b, i)' <=> Inside(w, b, i)
            /\ active'[w] = active[w]
        BY <3>7, AheadInside DEF ScanInside
      <4>2. /\ Limit(w)' \in Nat /\ Limit(w) \in Nat /\ Limit(w) <= Limit(w)'
        BY <3>7 DEF ScanInside
      <4>3. ASSUME NEW k \in DOMAIN ran[t], Rank(ran[t][k]) < Limit(w)
            PROVE  Rank(ran[t][k]) < Limit(w)'
        <5>1. ran[t] \in Seq(Callbacks)
          BY <3>3 DEF Shape, TypeOK
        <5>2. ran[t][k] \in {"on_load", "execute", "on_exit"}
          BY <4>3, <5>1 DEF Callbacks
        <5>3. Rank(ran[t][k]) \in {1, 2, 3}
          BY <5>2 DEF Rank
        <5> QED
          BY <4>2, <4>3, <5>3
      <4> QED
        BY <3>2, <4>1, <4>3
    <3> QED
      BY <3>1, <3>4, <3>5, <3>6, <3>7 DEF ScanQuiet
  <2>4. Owns(t, w, b, i) \/ \E a \in Callers : TakesCell(a, w, b, i) /\ call[a].t = t
    BY <1>3, OwnsNext
  <2> QED
    BY <2>1, <2>2, <2>3, <2>4
<1>4. \A t \in fresh' : ran'[t] = << >>
  BY DEF CallbacksInOrder
<1> QED
  BY <1>1, <1>2, <1>3, <1>4 DEF CallbacksInOrder

(* A callback is called where the scan is, and after those that rank below *)
(* it.                                                                     *)
LEMMA CallsCallbacks ==
  ASSUME Shape, CallbacksInOrder, CellsApart, InOrderAtMostOnce,
         UNCHANGED <<queue, current, call, fresh>>,
         NEW w \in Workers, NEW t \in Tasks, NEW c \in Callbacks, ScanCalls(w, t, c),
         \A v \in Workers \ {w} : ScanStays(v)
  PROVE  CallbacksInOrder' /\ InOrderAtMostOnce'
<1>1. OneTask /\ OneCell /\ HandedOut
  BY ApartForms
<1>2. /\ wpc[w] \in InCell /\ wpc'[w] \in InCell /\ t \in Cell(w)
      /\ Limit(w)' \in Nat /\ Rank(c) \in Nat /\ Rank(c) = Limit(w) /\ Limit(w) < Limit(w)'
      /\ rb'[w] = rb[w] /\ ro'[w] = ro[w]
      /\ ran' = [ran EXCEPT ![t] = Append(ran[t], c)]
      /\ active' = [active EXCEPT ![w] = t]
  BY DEF ScanCalls
<1>3. /\ ran \in [Tasks -> Seq(Callbacks)] /\ ran[t] \in Seq(Callbacks)
      /\ active \in [Workers -> Tasks \cup {NoTask}] /\ t # NoTask
  BY DEF Shape, TypeOK
<1>4. PICK b, i : b = rb[w] /\ i = ro[w] + 1
  OBVIOUS
<1>5. ~queue[w][rb[w]].wiped /\ Owns(t, w, b, i)
  BY <1>2, <1>4, CellOwned DEF CallbacksInOrder
<1>6. \A v, u, d, j : Owns(u, v, d, j)' <=> Owns(u, v, d, j)
  BY DEF Owns, BlocksOf
<1>7. Inside(w, b, i)
  BY <1>2, <1>4 DEF Inside
<1>8. \A k \in DOMAIN ran[t] : Rank(ran[t][k]) < Rank(c)
  BY <1>2, <1>5, <1>7, CallbacksAt
<1>9. /\ ran'[t] = Append(ran[t], c)
      /\ \A u \in Tasks \ {t} : ran'[u] = ran[u]
  BY <1>2, <1>3
<1>10. /\ DOMAIN ran'[t] = 1 .. Len(ran[t]) + 1 /\ DOMAIN ran[t] = 1 .. Len(ran[t])
       /\ Len(ran[t]) \in Nat
       /\ \A k \in 1 .. Len(ran[t]) : ran'[t][k] = ran[t][k]
       /\ ran'[t][Len(ran[t]) + 1] = c
  BY <1>3, <1>9, AppendProperties
<1>11. InOrderAtMostOnce'
  <2> SUFFICES ASSUME NEW u \in Tasks, NEW j \in DOMAIN ran'[u], NEW k \in DOMAIN ran'[u], j < k
               PROVE  Rank(ran'[u][j]) < Rank(ran'[u][k])
    BY DEF InOrderAtMostOnce
  <2>1. CASE u # t
    BY <1>9, <2>1 DEF InOrderAtMostOnce
  <2>2. CASE u = t /\ k \in 1 .. Len(ran[t])
    <3>1. j \in DOMAIN ran[t] /\ k \in DOMAIN ran[t]
      BY <1>10, <2>2
    <3> QED
      BY <1>10, <2>2, <3>1 DEF InOrderAtMostOnce
  <2>3. CASE u = t /\ k \notin 1 .. Len(ran[t])
    <3>1. k = Len(ran[t]) + 1 /\ j \in DOMAIN ran[t]
      BY <1>10, <2>3
    <3> QED
      BY <1>8, <1>10, <2>3, <3>1
  <2> QED
    BY <2>1, <2>2, <2>3
<1>12. ASSUME NEW v \in Workers, wpc'[v] \in InCell
       PROVE  ~queue'[v][rb'[v]].wiped
  <2>1. CASE v = w
    BY <1>2, <1>5, <2>1
  <2>2. CASE v # w
    BY <1>12, <2>2 DEF ScanStays, CallbacksInOrder
  <2> QED
    BY <2>1, <2>2
<1>13. ASSUME NEW v \in Workers, active'[v] # NoTask
       PROVE  wpc'[v] \in InCell /\ Owns(active[v], v, rb[v], ro[v] + 1)'
  <2>1. CASE v = w
    <3>1. active'[v] = t /\ b = rb'[v] /\ i = ro'[v] + 1
      BY <1>2, <1>3, <1>4, <2>1
    <3>2. Owns(t, v, b, i)'
      BY <1>5, <1>6, <2>1
    <3> QED
      BY <1>2, <2>1, <3>1, <3>2 DEF Owns, BlocksOf
  <2>2. CASE v # w
    <3>1. wpc'[v] = wpc[v] /\ rb'[v] = rb[v] /\ ro'[v] = ro[v] /\ active'[v] = active[v]
      BY <2>2 DEF ScanStays
    <3>2. wpc[v] \in InCell /\ Owns(active[v], v, rb[v], ro[v] + 1)
      BY <1>13, <3>1 DEF CallbacksInOrder
    <3> QED
      BY <3>1, <3>2 DEF Owns, BlocksOf
  <2> QED
    BY <2>1, <2>2
<1>14. ASSUME NEW v \in Workers, NEW d, NEW j, NEW u, Owns(u, v, d, j)'
       PROVE  /\ Ahead(v, d, j)' => ran'[u] = << >>
              /\ Inside(v, d, j)' => /\ active'[v] = NoTask => ran'[u] = << >>
                                     /\ \A k \in DOMAIN ran'[u] : Rank(ran'[u][k]) < Limit(v)'
  <2>1. Owns(u, v, d, j) /\ u \in Tasks
    BY <1>6, <1>14, OwnsRange
  <2>2. /\ Ahead(v, d, j) => ran[u] = << >>
        /\ Inside(v, d, j) => /\ active[v] = NoTask => ran[u] = << >>
                              /\ \A k \in DOMAIN ran[u] : Rank(ran[u][k]) < Limit(v)
    BY <2>1, CallbacksAt
  <2>3. u = t => v = w /\ d = b /\ j = i
    BY <1>1, <1>5, <2>1 DEF OneCell
  <2>4. CASE v # w
    <3>1. ran'[u] = ran[u] /\ active'[v] = active[v]
      BY <1>9, <2>1, <2>3, <2>4 DEF ScanStays
    <3> QED
      BY <2>2, <2>4, <3>1, AheadStays
  <2>5. CASE v = w
    <3>1. /\ Ahead(v, d, j)' <=> Ahead(v, d, j)
          /\ Inside(v, d, j)' <=> Inside(v, d, j)
      BY <1>2, <2>5, AheadInside
    <3>2. ASSUME Ahead(v, d, j)
          PROVE  ran'[u] = << >>
      <4>1. rb[w] \in Nat /\ ro[w] \in Nat
        BY DEF Shape, TypeOK
      <4>2. Before(rb[w], ro[w] + 1, d, j)
        BY <1>2, <2>5, <3>2 DEF Ahead, Scanning
      <4>3. ~(d = b /\ j = i)
        BY <1>4, <4>1, <4>2 DEF Before
      <4> QED
        BY <1>9, <2>1, <2>2, <2>3, <3>2, <4>3
    <3>3. ASSUME Inside(v, d, j)
          PROVE  /\ active'[v] # NoTask
                 /\ \A k \in DOMAIN ran'[u] : Rank(ran'[u][k]) < Limit(v)'
      <4>1. d = b /\ j = i
        BY <1>4, <2>5, <3>3 DEF Inside
      <4>2. u = t
        BY <1>1, <1>5, <2>1, <2>5, <4>1 DEF OneTask
      <4>3. active'[v] # NoTask
        BY <1>2, <1>3, <2>5
      <4>4. ASSUME NEW k \in DOMAIN ran'[t]
            PROVE  Rank(ran'[t][k]) < Limit(w)'
        <5>1. CASE k = Len(ran[t]) + 1
          BY <1>2, <1>10, <5>1
        <5>2. CASE k \in 1 .. Len(ran[t])
          <6>1. Rank(ran[t][k]) < Rank(c) /\ ran'[t][k] = ran[t][k]
            BY <1>8, <1>10, <5>2
          <6>2. ran[t][k] \in {"on_load", "execute", "on_exit"}
            BY <1>3, <5>2 DEF Callbacks
          <6>3. Rank(ran[t][k]) \in {1, 2, 3}
            BY <6>2 DEF Rank
          <6> QED
            BY <1>2, <6>1, <6>3
        <5> QED
          BY <1>10, <5>1, <5>2
      <4> QED
        BY <2>5, <4>2, <4>3, <4>4
    <3> QED
      BY <3>1, <3>2, <3>3
  <2> QED
    BY <2>4, <2>5
<1>15. \A u \in fresh' : ran'[u] = << >>
  <2>1. t \notin fresh /\ fresh \subseteq Tasks
    BY <1>1, <1>5 DEF HandedOut, Shape, TypeOK
  <2> QED
    BY <1>9, <2>1 DEF CallbacksInOrder
<1> QED
  BY <1>11, <1>12, <1>13, <1>14, <1>15 DEF CallbacksInOrder

(* A step calls a callback, or moves at most one scan.                     *)
CallsBack ==
  \E w \in Workers, t \in Tasks, c \in Callbacks :
    /\ ScanCalls(w, t, c)
    /\ UNCHANGED <<queue, current, call, fresh, mpc, arena>>
    /\ \A v \in Workers \ {w} : ScanStays(v)

MovesQuietly ==
  /\ ran' = ran
  /\ \A v \in Workers : ScanQuiet(v) \/ (ClearsCells(v) /\ active'[v] = active[v])

(* Each step calls one callback back or moves the scans quietly. *)
LEMMA NextScan ==
  ASSUME IInv, [Next]_vars
  PROVE  CallsBack \/ MovesQuietly
<1>1. Shape
  BY DEF IInv, Shape
<1>2. ASSUME NEW w \in Workers, WorkerStep(w), ~Reset(w)
      PROVE  CallsBack \/ MovesQuietly
  <2>1. \A v \in Workers \ {w} : ScanStays(v)
    BY <1>1, <1>2, WorkerScanOthers
  <2>2. UNCHANGED <<queue, current, call, fresh, mpc, arena>>
    BY <1>1, <1>2, WorkerData, WorkerFrame DEF Shape
  <2>3. \/ ScanQuiet(w) /\ UNCHANGED <<ran, pending>>
        \/ \E t \in Tasks, c \in Callbacks : ScanCalls(w, t, c)
    BY <1>1, <1>2, WorkerScan
  <2>4. CASE ScanQuiet(w) /\ UNCHANGED <<ran, pending>>
    BY <2>1, <2>4 DEF MovesQuietly, ScanQuiet
  <2>5. ASSUME NEW t \in Tasks, NEW c \in Callbacks, ScanCalls(w, t, c)
        PROVE  CallsBack
    BY <2>1, <2>2, <2>5 DEF CallsBack
  <2> QED
    BY <2>3, <2>4, <2>5
<1>3. ASSUME NEW w \in Workers, Reset(w)
      PROVE  MovesQuietly
  <2>1. \A v \in Workers \ {w} : ScanStays(v)
    BY <1>1, <1>3, WorkerScanOthers DEF WorkerStep
  <2>2. ran' = ran /\ active' = active
    BY <1>3 DEF Reset
  <2>3. ClearsCells(w)
    BY <1>1, <1>3, ResetCells
  <2> QED
    BY <2>1, <2>2, <2>3 DEF MovesQuietly, ScanQuiet
<1>4. ASSUME UNCHANGED <<wpc, rb, ro, active, ran>>
      PROVE  MovesQuietly
  BY <1>4 DEF MovesQuietly, ScanQuiet, ScanStays
<1>5. CASE InitWorker
  <2>1. /\ UNCHANGED <<rb, ro, active, ran>>
        /\ \A w \in Workers \ {mi} : wpc'[w] = wpc[w]
    BY <1>1, <1>5, InitWorkerFrame
  <2>2. \A w \in Workers : w = mi => ClearsCells(w)
    BY <1>1, <1>5, InitWorkerCells
  <2> QED
    BY <2>1, <2>2 DEF MovesQuietly, ScanQuiet, ScanStays
<1>6. CASE StartDestroy \/ DestroyStep \/ Terminating \/ UNCHANGED vars
  <2>1. UNCHANGED <<wpc, rb, ro, active, ran>>
    BY <1>6 DEF StartDestroy, DestroyStep, SetShutdown, WakeToStop, AwaitAck, DestroyArena,
       DestroyNullArena, Join, SkipMissing, Terminating, vars, threadVars, historyVars
  <2> QED
    BY <1>4, <2>1
<1>7. CASE Submit
  <2>1. UNCHANGED <<wpc, rb, ro, active, ran>>
    BY <1>7 DEF Submit, Enqueue, EnqueueRefused, threadVars, historyVars
  <2> QED
    BY <1>4, <2>1
<1>8. ASSUME NEW a \in Callers, EnqueueStep(a)
      PROVE  MovesQuietly
  <2>1. UNCHANGED <<wpc, rb, ro, active, ran>>
    BY <1>8 DEF EnqueueStep, AllocHere, AllocNextBlock, AllocNewBlock, TakeCell,
       AllocOutOfMemory, CopyBegin, CopyEnd, Post, threadVars, historyVars
  <2> QED
    BY <1>4, <2>1
<1> QED
  BY <1>2, <1>3, <1>5, <1>6, <1>7, <1>8 DEF Next

(* The callbacks stay in order. *)
LEMMA NextCallbacks ==
  ASSUME IInv, CallsApart, CellsApart, CallbacksInOrder, InOrderAtMostOnce, [Next]_vars
  PROVE  CallbacksInOrder' /\ InOrderAtMostOnce'
<1>1. Shape /\ CellStep
  BY NextCells DEF IInv, Shape
<1>2. CASE CallsBack
  BY <1>1, <1>2, CallsCallbacks DEF CallsBack
<1>3. CASE MovesQuietly
  <2>1. CallbacksInOrder'
    BY <1>1, <1>3, QuietCallbacks, FreshShrinks DEF MovesQuietly
  <2>2. InOrderAtMostOnce'
    BY <1>3 DEF MovesQuietly, InOrderAtMostOnce
  <2> QED
    BY <2>1, <2>2
<1> QED
  BY <1>2, <1>3, NextScan

(* At first no cell is owned and nothing has run. *)
LEMMA InitNoCells ==
  ASSUME Init
  PROVE  /\ \A t, w, b, i : ~Owns(t, w, b, i)
         /\ \A w \in Workers : queue[w] = << >> /\ pending[w] = << >> /\ snap[w] = {}
                               /\ wpc[w] = "null" /\ active[w] = NoTask
         /\ \A t \in Tasks : ran[t] = << >>
         /\ \A a \in Callers : call[a].step = "idle"
<1>1. \A w \in Workers : queue[w] = << >>
  BY DEF Init
<1>2. \A t, w, b, i : ~Owns(t, w, b, i)
  BY <1>1 DEF Owns, BlocksOf
<1>3. \A a \in Callers : call[a].step = "idle"
  BY DEF Init, Idle
<1>4. /\ \A w \in Workers : /\ pending[w] = << >> /\ snap[w] = {}
                            /\ wpc[w] = "null" /\ active[w] = NoTask
      /\ \A t \in Tasks : ran[t] = << >>
  BY DEF Init
<1> QED
  BY <1>1, <1>2, <1>3, <1>4

(* So the invariants hold at first, ... *)
LEMMA InitApart == Init => CellsApart /\ CallbacksInOrder /\ InOrderAtMostOnce
<1> SUFFICES ASSUME Init PROVE CellsApart /\ CallbacksInOrder /\ InOrderAtMostOnce
  OBVIOUS
<1>1. /\ \A t, w, b, i : ~Owns(t, w, b, i)
      /\ \A w \in Workers : queue[w] = << >> /\ wpc[w] = "null" /\ active[w] = NoTask
      /\ \A t \in Tasks : ran[t] = << >>
      /\ \A a \in Callers : call[a].step = "idle"
      /\ fresh \subseteq Tasks
  BY InitNoCells DEF Init
<1>2. CellsApart
  BY <1>1 DEF CellsApart, BlocksOf
<1>3. CallbacksInOrder
  BY <1>1 DEF CallbacksInOrder, InCell
<1>4. InOrderAtMostOnce
  BY <1>1 DEF InOrderAtMostOnce
<1> QED
  BY <1>2, <1>3, <1>4

(* What the order of the callbacks rests on. *)
InOrder == IInv /\ Accounted /\ CellsApart /\ CallbacksInOrder /\ InOrderAtMostOnce

(* ... all of them, ... *)
LEMMA InitInOrder == Init => InOrder
BY InitIInv, InitAccounted, InitApart DEF InOrder

(* ... and after each step. *)
LEMMA NextInOrder == InOrder /\ [Next]_vars => InOrder'
<1> SUFFICES ASSUME InOrder, [Next]_vars PROVE InOrder'
  OBVIOUS
<1>1. IInv /\ Accounted /\ CallsApart /\ CellsApart /\ CallbacksInOrder /\ InOrderAtMostOnce
  BY DEF InOrder, Accounted
<1>2. IInv'
  BY <1>1, NextIInv
<1>3. Accounted'
  BY <1>1, <1>2, NextAccounted
<1>4. CellsApart'
  BY <1>1, <1>2, NextApart
<1>5. CallbacksInOrder' /\ InOrderAtMostOnce'
  BY <1>1, NextCallbacks
<1> QED
  BY <1>2, <1>3, <1>4, <1>5 DEF InOrder

(* The callbacks of a task are called at most once each and in order: its  *)
(* cell is its only one, the scan comes to it once, and torn copies and    *)
(* reused blocks are where no scan looks (reactor.c:57-82).                *)
THEOREM CallbacksOnceInOrder == Spec => []InOrderAtMostOnce
<1>1. InOrder => InOrderAtMostOnce
  BY DEF InOrder
<1> QED
  BY <1>1, InitInOrder, NextInOrder, PTL DEF Spec

-----------------------------------------------------------------------------
(* The tasks that wait for one worker, and their cells.                    *)
Distinct(w) ==
  \A k, l \in DOMAIN pending[w] : /\ pending[w][k] = pending[w][l] => k = l
                                  /\ pending[w][k] # active[w]
Waits(t, w) == \E k \in DOMAIN pending[w] : pending[w][k] = t
StillToCome(w, b, i) == Ahead(w, b, i) \/ (Inside(w, b, i) /\ active[w] = NoTask)
NoneForgotten(w) ==
  \A t, b, i : Owns(t, w, b, i) /\ StillToCome(w, b, i) => Waits(t, w)
SameOrder(w) ==
  \A b, c, i, j : \A k, l \in DOMAIN pending[w] :
    /\ Owns(pending[w][k], w, b, i) /\ Owns(pending[w][l], w, c, j)
    /\ Before(b, i, c, j)
    => k < l
Queued(w) == Distinct(w) /\ NoneForgotten(w) /\ SameOrder(w)

(* PendingInOrder in parts. *)
LEMMA PendingForms ==
  PendingInOrder <=> \A w \in Workers : Queued(w)
<1>1. ASSUME PendingInOrder, NEW w \in Workers
      PROVE  Queued(w)
  <2>1. Distinct(w)
    BY <1>1 DEF PendingInOrder, Distinct
  <2>2. NoneForgotten(w)
    BY <1>1, OwnsRange DEF PendingInOrder, NoneForgotten, StillToCome, Waits, BlocksOf, Offsets
  <2>3. SameOrder(w)
    BY <1>1, OwnsRange DEF PendingInOrder, SameOrder, BlocksOf, Offsets
  <2> QED
    BY <2>1, <2>2, <2>3 DEF Queued
<1>2. ASSUME \A w \in Workers : Queued(w)
      PROVE  PendingInOrder
  BY <1>2 DEF PendingInOrder, Queued, Distinct, NoneForgotten, StillToCome, Waits, SameOrder
<1> QED
  BY <1>1, <1>2

(* What a scan that calls nothing still has to come to, it had to come to. *)
LEMMA StillToComeBack ==
  ASSUME Shape, NEW w \in Workers, ScanQuiet(w), NEW b \in Nat, NEW i \in Nat,
         StillToCome(w, b, i)'
  PROVE  StillToCome(w, b, i)
<1>1. CASE ScanStays(w)
  <2>1. /\ Ahead(w, b, i)' <=> Ahead(w, b, i)
        /\ Inside(w, b, i)' <=> Inside(w, b, i)
        /\ active'[w] = active[w]
    BY <1>1, AheadStays DEF ScanStays
  <2> QED
    BY <2>1 DEF StillToCome
<1>2. CASE ScanOutside(w)
  BY <1>2 DEF ScanOutside, StillToCome, Inside
<1>3. CASE ScanEnters(w)
  BY <1>3, AheadEnters DEF StillToCome
<1>4. CASE ScanInside(w)
  <2>1. /\ Ahead(w, b, i)' <=> Ahead(w, b, i)
        /\ Inside(w, b, i)' <=> Inside(w, b, i)
        /\ active'[w] = active[w]
    BY <1>4, AheadInside DEF ScanInside
  <2> QED
    BY <2>1 DEF StillToCome
<1> QED
  BY <1>1, <1>2, <1>3, <1>4 DEF ScanQuiet

(* The cells stay and nothing is called: the queue stays. *)
LEMMA QuietQueued ==
  ASSUME Shape, NEW w \in Workers, Queued(w), KeepsCells(w), ScanQuiet(w),
         pending'[w] = pending[w], active'[w] \in {active[w], NoTask}
  PROVE  Queued(w)'
<1>1. \A t, b, i : Owns(t, w, b, i)' <=> Owns(t, w, b, i)
  BY DEF KeepsCells
<1>2. Distinct(w)'
  <2>1. pending[w] \in Seq(Tasks)
    BY DEF Shape, TypeOK
  <2>2. \A k \in DOMAIN pending[w] : pending[w][k] # NoTask
    BY <2>1
  <2>3. Distinct(w)
    BY DEF Queued
  <2> QED
    BY <2>2, <2>3 DEF Distinct
<1>3. NoneForgotten(w)'
  <2> SUFFICES ASSUME NEW t, NEW b, NEW i, Owns(t, w, b, i)', StillToCome(w, b, i)'
               PROVE  Waits(t, w)'
    BY DEF NoneForgotten
  <2>1. Owns(t, w, b, i)
    BY <1>1
  <2>2. b \in DOMAIN queue[w] /\ i \in 1 .. BlockCap /\ queue[w] \in Seq(Blocks)
    BY <2>1, OwnsRange DEF Shape, TypeOK
  <2>3. b \in Nat /\ i \in Nat
    BY <2>2
  <2>4. StillToCome(w, b, i)
    BY <2>3, StillToComeBack
  <2>5. Waits(t, w)
    BY <2>1, <2>4 DEF Queued, NoneForgotten
  <2> QED
    BY <2>5 DEF Waits
<1>4. SameOrder(w)'
  <2>1. SameOrder(w)
    BY DEF Queued
  <2> SUFFICES ASSUME NEW b, NEW c, NEW i, NEW j,
                      NEW k \in DOMAIN pending'[w], NEW l \in DOMAIN pending'[w],
                      Owns(pending[w][k], w, b, i)', Owns(pending[w][l], w, c, j)',
                      Before(b, i, c, j)
               PROVE  k < l
    BY DEF SameOrder, Before
  <2>2. PICK t, u : t = pending[w][k] /\ u = pending[w][l]
    OBVIOUS
  <2>3. t = pending'[w][k] /\ u = pending'[w][l]
    BY <2>2
  <2>4. Owns(t, w, b, i)' /\ Owns(u, w, c, j)'
    BY <2>3 DEF Owns, BlocksOf
  <2>5. Owns(t, w, b, i) /\ Owns(u, w, c, j)
    BY <1>1, <2>4
  <2>6. Owns(pending[w][k], w, b, i) /\ Owns(pending[w][l], w, c, j)
    BY <2>2, <2>5
  <2> QED
    BY <2>1, <2>6 DEF SameOrder
<1> QED
  BY <1>2, <1>3, <1>4 DEF Queued

(* The cells are cleared: whatever waits has none. *)
LEMMA ClearedQueued ==
  ASSUME Shape, NEW w \in Workers, Queued(w), ClearsCells(w),
         pending'[w] \in {pending[w], << >>}, active'[w] = active[w]
  PROVE  Queued(w)'
<1>1. Distinct(w)'
  BY DEF Queued, Distinct
<1>2. NoneForgotten(w)'
  BY DEF ClearsCells, NoneForgotten
<1>3. SameOrder(w)'
  <2> SUFFICES ASSUME NEW b, NEW i, NEW k, Owns(pending[w][k], w, b, i)'
               PROVE  FALSE
    BY DEF SameOrder
  <2>1. PICK t : t = pending'[w][k]
    OBVIOUS
  <2>2. Owns(t, w, b, i)'
    BY <2>1 DEF Owns, BlocksOf
  <2> QED
    BY <2>2 DEF ClearsCells
<1> QED
  BY <1>1, <1>2, <1>3 DEF Queued

(* A task that is accepted comes last. *)
LEMMA TakenQueued ==
  ASSUME Shape, WaitsWhereSent, HandedOut, CallbacksInOrder,
         NEW w \in Workers, Queued(w), ScanStays(w),
         NEW a, NEW b, NEW i, TakesCell(a, w, b, i),
         pending'[w] = Append(pending[w], call[a].t)
  PROVE  Queued(w)'
<1>1. PICK t : t = call[a].t
  OBVIOUS
<1>2. /\ t \in fresh /\ t \in Tasks /\ b \in Nat /\ i \in Nat
      /\ \A u, k, j : Owns(u, w, k, j)' <=>
           Owns(u, w, k, j) \/ (u = t /\ k = b /\ j = i /\ ~queue'[w][b].wiped)
      /\ \A u, k, j : Owns(u, w, k, j) => Before(k, j, b, i)
  <2>1. t \in fresh /\ b \in Nat /\ i \in 1 .. BlockCap
    BY <1>1 DEF TakesCell
  <2>2. t \in Tasks
    BY <2>1 DEF Shape, TypeOK
  <2>3. /\ \A u, k, j : Owns(u, w, k, j)' <=>
              Owns(u, w, k, j) \/ (u = t /\ k = b /\ j = i /\ ~queue'[w][b].wiped)
        /\ \A u, k, j : Owns(u, w, k, j) => Before(k, j, b, i)
    BY <1>1 DEF TakesCell
  <2> QED
    BY <2>1, <2>2, <2>3
<1>3. pending[w] \in Seq(Tasks) /\ Len(pending[w]) \in Nat
  BY DEF Shape, TypeOK
<1>4. /\ DOMAIN pending'[w] = 1 .. Len(pending[w]) + 1
      /\ DOMAIN pending[w] = 1 .. Len(pending[w])
      /\ \A k \in 1 .. Len(pending[w]) : pending'[w][k] = pending[w][k]
      /\ pending'[w][Len(pending[w]) + 1] = t
  BY <1>1, <1>2, <1>3, AppendProperties
<1>5. \A k \in DOMAIN pending[w] : pending[w][k] # t
  BY <1>2 DEF WaitsWhereSent
<1>6. active'[w] = active[w] /\ active[w] # t
  <2>1. active[w] # NoTask => Owns(active[w], w, rb[w], ro[w] + 1)
    BY DEF CallbacksInOrder
  <2>2. active[w] # NoTask => active[w] \notin fresh
    BY <2>1 DEF HandedOut
  <2> QED
    BY <1>2, <2>2 DEF ScanStays
<1>7. Distinct(w)'
  <2> SUFFICES ASSUME NEW k \in DOMAIN pending'[w], NEW l \in DOMAIN pending'[w]
               PROVE  /\ pending'[w][k] = pending'[w][l] => k = l
                      /\ pending'[w][k] # active'[w]
    BY DEF Distinct
  <2>1. CASE k \in DOMAIN pending[w] /\ l \in DOMAIN pending[w]
    BY <1>4, <1>6, <2>1 DEF Queued, Distinct
  <2>2. CASE k \notin DOMAIN pending[w] \/ l \notin DOMAIN pending[w]
    <3>1. pending'[w][k] = (IF k \in DOMAIN pending[w] THEN pending[w][k] ELSE t)
      BY <1>4
    <3>2. pending'[w][l] = (IF l \in DOMAIN pending[w] THEN pending[w][l] ELSE t)
      BY <1>4
    <3>3. k \notin DOMAIN pending[w] /\ l \notin DOMAIN pending[w] => k = l
      BY <1>4
    <3>4. k \in DOMAIN pending[w] => pending[w][k] # active[w]
      BY DEF Queued, Distinct
    <3> QED
      BY <1>5, <1>6, <2>2, <3>1, <3>2, <3>3, <3>4
  <2> QED
    BY <2>1, <2>2
<1>8. NoneForgotten(w)'
  <2> SUFFICES ASSUME NEW u, NEW c, NEW j, Owns(u, w, c, j)', StillToCome(w, c, j)'
               PROVE  Waits(u, w)'
    BY DEF NoneForgotten
  <2>1. CASE Owns(u, w, c, j)
    <3>1. /\ Ahead(w, c, j)' <=> Ahead(w, c, j)
          /\ Inside(w, c, j)' <=> Inside(w, c, j)
      BY AheadStays
    <3>2. StillToCome(w, c, j)
      BY <1>6, <3>1 DEF StillToCome
    <3>3. Waits(u, w)
      BY <2>1, <3>2 DEF Queued, NoneForgotten
    <3>4. PICK k \in DOMAIN pending[w] : pending[w][k] = u
      BY <3>3 DEF Waits
    <3>5. k \in DOMAIN pending'[w] /\ pending'[w][k] = u
      BY <1>3, <1>4, <3>4
    <3> QED
      BY <3>5 DEF Waits
  <2>2. CASE u = t
    <3>1. Len(pending[w]) + 1 \in DOMAIN pending'[w]
      BY <1>3, <1>4
    <3>2. \E k \in DOMAIN pending'[w] : pending'[w][k] = t
      BY <1>4, <3>1
    <3> QED
      BY <2>2, <3>2 DEF Waits
  <2> QED
    BY <1>2, <2>1, <2>2
<1>9. SameOrder(w)'
  <2> SUFFICES ASSUME NEW d, NEW c, NEW m, NEW j,
                      NEW k \in DOMAIN pending'[w], NEW l \in DOMAIN pending'[w],
                      Owns(pending[w][k], w, d, m)', Owns(pending[w][l], w, c, j)',
                      Before(d, m, c, j)
               PROVE  k < l
    BY DEF SameOrder, Before
  <2>1. PICK u, v : u = pending'[w][k] /\ v = pending'[w][l]
    OBVIOUS
  <2>2. Owns(u, w, d, m)' /\ Owns(v, w, c, j)'
    BY <2>1 DEF Owns, BlocksOf
  <2>3. u = t => d = b /\ m = i
    <3>1. ~Owns(t, w, d, m)
      BY <1>2 DEF HandedOut
    <3> QED
      BY <1>2, <2>2, <3>1
  <2>4. k \in DOMAIN pending[w] => Owns(pending[w][k], w, d, m)
    BY <1>2, <1>4, <1>5, <2>1, <2>2
  <2>5. l \in DOMAIN pending[w] => Owns(pending[w][l], w, c, j)
    BY <1>2, <1>4, <1>5, <2>1, <2>2
  <2>6. CASE k \in DOMAIN pending[w] /\ l \in DOMAIN pending[w]
    BY <2>4, <2>5, <2>6 DEF Queued, SameOrder
  <2>7. CASE k \in DOMAIN pending[w] /\ l \notin DOMAIN pending[w]
    <3>1. l = Len(pending[w]) + 1 /\ k \in 1 .. Len(pending[w])
      BY <1>4, <2>7
    <3> QED
      BY <1>3, <3>1
  <2>8. CASE k \notin DOMAIN pending[w]
    <3>1. u = t
      BY <1>4, <2>1, <2>8
    <3>2. d = b /\ m = i
      BY <2>3, <3>1
    <3>3. ~Before(b, i, b, i)
      BY <1>2 DEF Before
    <3>4. ASSUME Owns(v, w, c, j) PROVE FALSE
      <4>1. Before(c, j, b, i) /\ Before(b, i, c, j)
        BY <1>2, <3>2, <3>4
      <4>2. c \in Nat /\ j \in Nat
        <5>1. c \in DOMAIN queue[w] /\ j \in 1 .. BlockCap /\ queue[w] \in Seq(Blocks)
          BY <3>4, OwnsRange DEF Shape, TypeOK
        <5> QED
          BY <5>1
      <4> QED
        BY <1>2, <4>1, <4>2 DEF Before
    <3>5. c = b /\ j = i
      BY <1>2, <2>2, <3>4
    <3> QED
      BY <3>2, <3>3, <3>5
  <2> QED
    BY <2>6, <2>7, <2>8
<1> QED
  BY <1>7, <1>8, <1>9 DEF Queued

(* A callback of a task takes it, and those before it, from the queue. *)
LEMMA CallsQueued ==
  ASSUME Shape, CallbacksInOrder, OneTask, NEW w \in Workers, Queued(w),
         UNCHANGED <<queue, current, call>>,
         NEW t \in Tasks, NEW c \in Callbacks, ScanCalls(w, t, c)
  PROVE  Queued(w)'
<1>1. /\ pending \in [Workers -> Seq(Tasks)] /\ pending[w] \in Seq(Tasks)
      /\ active \in [Workers -> Tasks \cup {NoTask}] /\ t # NoTask
      /\ rb[w] \in Nat /\ ro[w] \in Nat
  BY DEF Shape, TypeOK
<1>2. /\ wpc[w] \in InCell /\ wpc'[w] \in InCell /\ t \in Cell(w)
      /\ rb'[w] = rb[w] /\ ro'[w] = ro[w]
      /\ active'[w] = t /\ pending'[w] = After(pending[w], t)
  BY <1>1 DEF ScanCalls
<1>3. PICK b, i : b = rb[w] /\ i = ro[w] + 1
  OBVIOUS
<1>4. Owns(t, w, b, i)
  BY <1>2, <1>3, CellOwned DEF CallbacksInOrder
<1>5. \A v, u, d, j : Owns(u, v, d, j)' <=> Owns(u, v, d, j)
  BY DEF Owns, BlocksOf
<1>6. PICK n \in Nat :
        /\ \A k \in DOMAIN pending'[w] : /\ k + n \in DOMAIN pending[w]
                                         /\ pending'[w][k] = pending[w][k + n]
                                         /\ pending'[w][k] # t
        /\ \A u : \A l \in DOMAIN pending[w] :
             pending[w][l] = u /\ (\A k \in DOMAIN pending[w] : pending[w][k] = t => k < l)
               => \E k \in DOMAIN pending'[w] : pending'[w][k] = u
  <2>1. CASE \E k \in DOMAIN pending[w] : pending[w][k] = t
    <3>1. PICK n \in DOMAIN pending[w] : pending[w][n] = t
      BY <2>1
    <3>2. \A l \in DOMAIN pending[w] : pending[w][l] = t => l = n
      BY <3>1 DEF Queued, Distinct
    <3>3. /\ Len(pending'[w]) = Len(pending[w]) - n
          /\ \A l \in DOMAIN pending'[w] : /\ l + n \in DOMAIN pending[w]
                                           /\ pending'[w][l] = pending[w][l + n]
      BY <1>1, <1>2, <3>1, <3>2, AfterIs
    <3>4. pending'[w] \in Seq(Tasks) /\ n \in Nat /\ n > 0 /\ n <= Len(pending[w])
      BY <1>1, <1>2, <3>1, AfterType
    <3>5. ASSUME NEW k \in DOMAIN pending'[w]
          PROVE  pending'[w][k] # t
      <4>1. k + n # n /\ k + n \in DOMAIN pending[w]
        BY <3>3, <3>4
      <4> QED
        BY <3>2, <3>3, <4>1
    <3>6. ASSUME NEW l \in DOMAIN pending[w], n < l
          PROVE  \E k \in DOMAIN pending'[w] : pending'[w][k] = pending[w][l]
      <4>1. l - n \in 1 .. Len(pending'[w]) /\ (l - n) + n = l
        BY <1>1, <3>3, <3>4, <3>6
      <4>2. l - n \in DOMAIN pending'[w]
        BY <3>4, <4>1
      <4>3. pending'[w][l - n] = pending[w][l]
        BY <3>3, <4>1, <4>2
      <4> QED
        BY <4>2, <4>3
    <3> QED
      BY <3>1, <3>3, <3>4, <3>5, <3>6
  <2>2. CASE ~\E k \in DOMAIN pending[w] : pending[w][k] = t
    <3>1. pending'[w] = pending[w]
      BY <1>2, <2>2 DEF After
    <3>2. \A k \in DOMAIN pending'[w] : k + 0 = k
      BY <1>1, <3>1
    <3> QED
      BY <2>2, <3>1, <3>2
  <2> QED
    BY <2>1, <2>2
<1>7. DOMAIN pending[w] \subseteq Nat
      /\ \A k, l \in DOMAIN pending'[w] : k \in Nat /\ l \in Nat /\ (k + n < l + n => k < l)
                                         /\ (k + n = l + n => k = l)
  <2>1. pending'[w] \in Seq(Tasks)
    BY <1>1, <1>2, AfterType
  <2>2. DOMAIN pending[w] \subseteq Nat /\ DOMAIN pending'[w] \subseteq Nat
    BY <1>1, <2>1
  <2> QED
    BY <2>2
<1>8. Distinct(w)'
  <2>1. Distinct(w)
    BY DEF Queued
  <2> QED
    BY <1>2, <1>6, <1>7, <2>1 DEF Distinct
<1>9. NoneForgotten(w)'
  <2> SUFFICES ASSUME NEW u, NEW d, NEW j, Owns(u, w, d, j)', StillToCome(w, d, j)'
               PROVE  Waits(u, w)'
    BY DEF NoneForgotten
  <2>1. Ahead(w, d, j)
    <3>1. Ahead(w, d, j)' <=> Ahead(w, d, j)
      BY <1>2, AheadInside
    <3> QED
      BY <1>1, <1>2, <3>1 DEF StillToCome
  <2>2. Owns(u, w, d, j)
    BY <1>5
  <2>3. Waits(u, w)
    BY <2>1, <2>2 DEF Queued, NoneForgotten, StillToCome
  <2>4. PICK l \in DOMAIN pending[w] : pending[w][l] = u
    BY <2>3 DEF Waits
  <2>5. Before(b, i, d, j)
    BY <1>2, <1>3, <2>1 DEF Ahead, Scanning
  <2>6. \A k \in DOMAIN pending[w] : pending[w][k] = t => k < l
    BY <1>4, <2>2, <2>4, <2>5 DEF Queued, SameOrder
  <2>7. \E k \in DOMAIN pending'[w] : pending'[w][k] = u
    BY <1>6, <2>4, <2>6
  <2> QED
    BY <2>7 DEF Waits
<1>10. SameOrder(w)'
  <2> SUFFICES ASSUME NEW d, NEW e, NEW m, NEW j,
                      NEW k \in DOMAIN pending'[w], NEW l \in DOMAIN pending'[w],
                      Owns(pending[w][k], w, d, m)', Owns(pending[w][l], w, e, j)',
                      Before(d, m, e, j)
               PROVE  k < l
    BY DEF SameOrder, Before
  <2>1. PICK u, v : u = pending'[w][k] /\ v = pending'[w][l]
    OBVIOUS
  <2>2. Owns(u, w, d, m)' /\ Owns(v, w, e, j)'
    BY <2>1 DEF Owns, BlocksOf
  <2>3. Owns(u, w, d, m) /\ Owns(v, w, e, j)
    BY <1>5, <2>2
  <2>4. /\ k + n \in DOMAIN pending[w] /\ l + n \in DOMAIN pending[w]
        /\ u = pending[w][k + n] /\ v = pending[w][l + n]
    BY <1>6, <2>1
  <2>5. k + n < l + n
    BY <2>3, <2>4 DEF Queued, SameOrder
  <2> QED
    BY <1>7, <2>5
<1> QED
  BY <1>8, <1>9, <1>10 DEF Queued

(* The order of what waits is kept by every step. *)
LEMMA NextQueued ==
  ASSUME IInv, Accounted, CellsApart, CallbacksInOrder, PendingInOrder, [Next]_vars
  PROVE  PendingInOrder'
<1>1. /\ Shape /\ CallsApart /\ WaitsWhereSent
      /\ LastInUse /\ OneTask /\ HandedOut /\ TornMarked
      /\ \A w \in Workers : Queued(w)
  BY ApartForms, PendingForms DEF IInv, Shape, Accounted
<1>2. /\ pending \in [Workers -> Seq(Tasks)] /\ mi \in Workers
      /\ call \in [Callers -> Calls]
  BY <1>1 DEF Shape, TypeOK
<1> SUFFICES ASSUME NEW w \in Workers PROVE Queued(w)'
  <2>1. ASSUME \A w \in Workers : Queued(w)'
        PROVE  PendingInOrder'
    BY <2>1
    DEF PendingInOrder, Queued, Distinct, NoneForgotten, StillToCome, Waits, SameOrder, BlocksOf
  <2> QED
    BY <2>1
<1>3. ASSUME KeepsCells(w), ScanStays(w), pending'[w] = pending[w]
      PROVE  Queued(w)'
  BY <1>1, <1>3, QuietQueued DEF ScanQuiet, ScanStays
<1>4. CASE InitWorker
  <2>1. UNCHANGED <<rb, ro, pending, active>>
    BY <1>1, <1>4, InitWorkerFrame
  <2>2. CASE w = mi
    <3>1. ClearsCells(w)
      BY <1>1, <1>4, <2>2, InitWorkerCells
    <3> QED
      BY <1>1, <2>1, <3>1, ClearedQueued
  <2>3. CASE w # mi
    <3>1. KeepsCells(w) /\ wpc'[w] = wpc[w]
      BY <1>1, <1>4, <2>3, InitWorkerCells, InitWorkerFrame
    <3> QED
      BY <1>3, <2>1, <3>1 DEF ScanStays
  <2> QED
    BY <2>2, <2>3
<1>5. CASE DestroyArena
  <2>1. UNCHANGED <<wpc, rb, ro, active>> /\ pending' = [pending EXCEPT ![mi] = << >>]
    BY <1>5 DEF DestroyArena, threadVars
  <2>2. CASE w = mi
    <3>1. ClearsCells(w)
      BY <1>5, <2>2, DestroyArenaCells
    <3>2. pending'[w] = << >>
      BY <1>2, <2>1, <2>2
    <3> QED
      BY <1>1, <2>1, <3>1, <3>2, ClearedQueued
  <2>3. CASE w # mi
    <3>1. KeepsCells(w) /\ pending'[w] = pending[w]
      BY <1>2, <1>5, <2>1, <2>3, DestroyArenaCells
    <3> QED
      BY <1>3, <2>1, <3>1 DEF ScanStays
  <2> QED
    BY <2>2, <2>3
<1>6. CASE \/ StartDestroy \/ (DestroyStep /\ ~DestroyArena)
           \/ Terminating \/ UNCHANGED vars
  <2>1. UNCHANGED <<queue, current, call, wpc, rb, ro, active, pending>>
    BY <1>6 DEF StartDestroy, DestroyStep, SetShutdown, WakeToStop, AwaitAck,
       DestroyNullArena, Join, SkipMissing, Terminating, vars, arenaVars, threadVars,
       historyVars
  <2>2. KeepsCells(w)
    BY <2>1, QuietKeeps
  <2> QED
    BY <1>3, <2>1, <2>2 DEF ScanStays
<1>7. CASE Submit
  <2>1. PICK a \in Callers, v \in Workers, t \in Tasks :
          \/ \E n \in BOOLEAN : Enqueue(a, v, t, n)
          \/ EnqueueRefused(a, v, t)
    BY <1>7 DEF Submit
  <2>2. UNCHANGED <<queue, current, wpc, rb, ro, active, pending>>
    BY <2>1 DEF Enqueue, EnqueueRefused, arenaVars, threadVars, historyVars
  <2>3. CASE EnqueueRefused(a, v, t)
    <3>1. KeepsCells(w)
      BY <2>2, <2>3, QuietKeeps DEF EnqueueRefused
    <3> QED
      BY <1>3, <2>2, <3>1 DEF ScanStays
  <2>4. ASSUME NEW n \in BOOLEAN, Enqueue(a, v, t, n)
        PROVE  Queued(w)'
    <3> DEFINE new == [step |-> "alloc", w |-> v, t |-> t, notify |-> n, b |-> 0, i |-> 0]
    <3>1. call[a] = Idle /\ call' = [call EXCEPT ![a] = new]
      BY <2>4 DEF Enqueue, Begin, MayCall
    <3>2. new.step = "alloc" /\ Idle.step = "idle"
      BY DEF Idle
    <3> HIDE DEF new
    <3>3. \A x \in Callers :
            \/ call'[x] = call[x]
            \/ call[x].step \notin {"copy", "copying"} /\ call'[x].step \notin {"copy", "copying"}
      BY <1>2, <3>1, <3>2
    <3>4. KeepsCells(w)
      BY <2>2, <3>3, QuietKeeps
    <3> QED
      BY <1>3, <2>2, <3>4 DEF ScanStays
  <2> QED
    BY <2>1, <2>3, <2>4
<1>8. ASSUME NEW a \in Callers, EnqueueStep(a)
      PROVE  Queued(w)'
  <2>1. ScanStays(w)
    BY <1>8 DEF EnqueueStep, AllocHere, AllocNextBlock, AllocNewBlock, TakeCell,
       AllocOutOfMemory, CopyBegin, CopyEnd, Post, threadVars, historyVars, ScanStays
  <2>2. CASE Allocs(a) /\ call[a].w = w
    <3>1. PICK b, i : TakesCell(a, w, b, i)
      BY <1>1, <1>8, <2>2, EnqueueCells
    <3>2. pending' = [pending EXCEPT ![call[a].w] = Append(@, call[a].t)]
      BY <2>2 DEF Allocs, AllocHere, AllocNextBlock, AllocNewBlock, TakeCell
    <3>3. pending'[w] = Append(pending[w], call[a].t)
      BY <1>2, <2>2, <3>2
    <3> QED
      BY <1>1, <2>1, <3>1, <3>3, TakenQueued
  <2>3. CASE Allocs(a) /\ call[a].w # w
    <3>1. pending' = [pending EXCEPT ![call[a].w] = Append(@, call[a].t)]
      BY <2>3 DEF Allocs, AllocHere, AllocNextBlock, AllocNewBlock, TakeCell
    <3>2. pending'[w] = pending[w]
      BY <1>2, <2>3, <3>1
    <3>3. KeepsCells(w)
      BY <1>1, <1>8, <2>3, EnqueueCells
    <3> QED
      BY <1>3, <2>1, <3>2, <3>3
  <2>4. CASE ~Allocs(a)
    <3>1. pending' = pending
      BY <1>8, <2>4 DEF EnqueueStep, Allocs, AllocOutOfMemory, CopyBegin, CopyEnd, Post,
         historyVars
    <3>2. KeepsCells(w)
      BY <1>1, <1>8, <2>4, EnqueueCells
    <3> QED
      BY <1>3, <2>1, <3>1, <3>2
  <2> QED
    BY <2>2, <2>3, <2>4
<1>9. ASSUME NEW v \in Workers, Reset(v)
      PROVE  Queued(w)'
  <2>1. pending' = [pending EXCEPT ![v] = << >>] /\ active' = active
    BY <1>9 DEF Reset
  <2>2. CASE w = v
    <3>1. ClearsCells(w)
      BY <1>1, <1>9, <2>2, ResetCells
    <3>2. pending'[w] = << >>
      BY <1>2, <2>1, <2>2
    <3> QED
      BY <1>1, <2>1, <3>1, <3>2, ClearedQueued
  <2>3. CASE w # v
    <3>1. KeepsCells(w) /\ pending'[w] = pending[w]
      BY <1>1, <1>2, <1>9, <2>1, <2>3, ResetCells
    <3>2. ScanStays(w)
      BY <1>1, <1>9, <2>3, WorkerScanOthers DEF WorkerStep
    <3> QED
      BY <1>3, <3>1, <3>2
  <2> QED
    BY <2>2, <2>3
<1>10. ASSUME NEW v \in Workers, WorkerStep(v), ~Reset(v)
       PROVE  Queued(w)'
  <2>1. UNCHANGED <<queue, current, call>>
    BY <1>1, <1>10, WorkerData
  <2>2. KeepsCells(w)
    BY <2>1, QuietKeeps
  <2>3. w # v => ScanStays(w)
    BY <1>1, <1>10, WorkerScanOthers
  <2>4. CASE ScanQuiet(v) /\ UNCHANGED <<ran, pending>>
    <3>1. ScanQuiet(w)
      BY <2>3, <2>4 DEF ScanQuiet
    <3>2. active'[w] \in {active[w], NoTask}
      BY <3>1 DEF ScanQuiet, ScanStays, ScanOutside, ScanEnters, ScanInside
    <3> QED
      BY <1>1, <2>2, <2>4, <3>1, <3>2, QuietQueued
  <2>5. ASSUME NEW t \in Tasks, NEW c \in Callbacks, ScanCalls(v, t, c)
        PROVE  Queued(w)'
    <3>1. CASE w = v
      BY <1>1, <2>1, <2>5, <3>1, CallsQueued
    <3>2. CASE w # v
      <4>1. pending'[w] = pending[w]
        BY <1>2, <2>5, <3>2 DEF ScanCalls
      <4> QED
        BY <1>3, <2>2, <2>3, <3>2, <4>1
    <3> QED
      BY <3>1, <3>2
  <2> QED
    BY <1>1, <1>10, <2>4, <2>5, WorkerScan
<1> QED
  BY <1>4, <1>5, <1>6, <1>7, <1>8, <1>9, <1>10 DEF Next

(* The third loop leaves no usable queue behind. *)
LEMMA NextDestroyed ==
  ASSUME IInv, DestroyedInOrder, [Next]_vars
  PROVE  DestroyedInOrder'
<1>1. /\ Shape /\ mi \in Workers /\ mi \in 1 .. N /\ N \in Nat
      /\ arena \in [Workers -> {"none", "live", "locked", "freed"}]
  BY DEF IInv, Shape, TypeOK, Workers
<1>2. ASSUME UNCHANGED <<mpc, mi>>, \A w \in Workers : Usable(w)' <=> Usable(w)
      PROVE  DestroyedInOrder'
  BY <1>2 DEF DestroyedInOrder
<1>3. CASE InitWorker
  <2>1. mpc' \in {"init", "run"}
    BY <1>1, <1>3, InitWorkerFrame
  <2> QED
    BY <2>1 DEF DestroyedInOrder
<1>4. CASE Submit
  <2>1. UNCHANGED <<mpc, mi, arena>>
    BY <1>4 DEF Submit, Enqueue, EnqueueRefused, ownerVars, arenaVars
  <2> QED
    BY <1>2, <2>1 DEF Usable
<1>5. ASSUME NEW a \in Callers, EnqueueStep(a)
      PROVE  DestroyedInOrder'
  <2>1. UNCHANGED <<mpc, mi>>
    BY <1>5 DEF EnqueueStep, AllocHere, AllocNextBlock, AllocNewBlock, TakeCell,
       AllocOutOfMemory, CopyBegin, CopyEnd, Post, ownerVars
  <2>2. CASE AllocOutOfMemory(a)
    <3>1. arena[call[a].w] = "live" /\ arena' = [arena EXCEPT ![call[a].w] = "locked"]
      BY <2>2 DEF AllocOutOfMemory
    <3>2. \A w \in Workers : Usable(w)' <=> Usable(w)
      BY <1>1, <3>1 DEF Usable
    <3> QED
      BY <1>2, <2>1, <3>2
  <2>3. CASE ~AllocOutOfMemory(a)
    <3>1. arena' = arena
      BY <1>5, <2>3 DEF EnqueueStep, AllocHere, AllocNextBlock, AllocNewBlock, TakeCell,
         CopyBegin, CopyEnd, Post, arenaVars
    <3> QED
      BY <1>2, <2>1, <3>1 DEF Usable
  <2> QED
    BY <2>2, <2>3
<1>6. ASSUME NEW w \in Workers, WorkerStep(w)
      PROVE  DestroyedInOrder'
  <2>1. UNCHANGED <<mpc, mi, arena>>
    BY <1>1, <1>6, WorkerFrame DEF Shape
  <2> QED
    BY <1>2, <2>1 DEF Usable
<1>7. CASE StartDestroy \/ SetShutdown \/ WakeToStop \/ DestroyNullArena
  <2>1. mpc' \in {"signal", "wake", "await", "crashed"}
    BY <1>7 DEF StartDestroy, SetShutdown, WakeToStop, DestroyNullArena, Loop
  <2> QED
    BY <2>1 DEF DestroyedInOrder
<1>8. CASE AwaitAck
  <2>1. mpc' = "await" \/ (mpc' = "free" /\ mi' = 1)
    BY <1>8 DEF AwaitAck, Loop
  <2> QED
    BY <2>1 DEF DestroyedInOrder, Workers
<1>9. CASE DestroyArena
  <2>1. mpc = "free" /\ mpc' = "join" /\ mi' = mi /\ arena' = [arena EXCEPT ![mi] = "freed"]
    BY <1>9 DEF DestroyArena
  <2> QED
    BY <1>1, <2>1 DEF DestroyedInOrder, Usable
<1>10. ASSUME mpc \in {"free", "join"}, Loop("free", "closed"), arena' = arena, ~Usable(mi)
       PROVE  DestroyedInOrder'
  <2>1. \A w \in Workers : w \in 1 .. N
    BY DEF Workers
  <2>2. \A w \in Workers : w < mi \/ w = mi => ~Usable(w)'
    BY <1>10 DEF DestroyedInOrder, Usable
  <2>3. CASE mi < N
    <3>1. mpc' = "free" /\ mi' = mi + 1
      BY <1>10, <2>3 DEF Loop
    <3> QED
      BY <1>1, <2>1, <2>2, <3>1 DEF DestroyedInOrder
  <2>4. CASE ~(mi < N)
    <3>1. mpc' = "closed" /\ \A w \in Workers : w < mi \/ w = mi
      BY <1>1, <1>10, <2>1, <2>4 DEF Loop
    <3> QED
      BY <2>2, <3>1 DEF DestroyedInOrder
  <2> QED
    BY <2>3, <2>4
<1>11. CASE Join
  <2>1. mpc = "join" /\ Loop("free", "closed") /\ arena' = arena
    BY <1>11 DEF Join, arenaVars
  <2>2. ~Usable(mi)
    BY <1>1, <2>1 DEF DestroyedInOrder
  <2> QED
    BY <1>10, <2>1, <2>2
<1>12. CASE SkipMissing
  <2>1. mpc \in {"signal", "await", "free"} /\ ~Present(mi) /\ arena' = arena
    BY <1>12 DEF SkipMissing, arenaVars
  <2>2. CASE mpc \in {"signal", "await"}
    <3>1. mpc' \in {"signal", "await"} \/ (mpc' = "free" /\ mi' = 1)
      BY <1>12, <2>2 DEF SkipMissing, Loop
    <3> QED
      BY <3>1 DEF DestroyedInOrder, Workers
  <2>3. CASE mpc = "free"
    <3>1. Loop("free", "closed")
      BY <1>12, <2>3 DEF SkipMissing
    <3>2. ~Usable(mi)
      BY <1>1, <2>1 DEF Shape, QueuesInOrder, Usable
    <3> QED
      BY <1>10, <2>1, <2>3, <3>1, <3>2
  <2> QED
    BY <2>1, <2>2, <2>3
<1>13. CASE Terminating \/ UNCHANGED vars
  <2>1. UNCHANGED <<mpc, mi, arena>>
    BY <1>13 DEF Terminating, vars, ownerVars, arenaVars
  <2> QED
    BY <1>2, <2>1 DEF Usable
<1> QED
  BY <1>3, <1>4, <1>5, <1>6, <1>7, <1>8, <1>9, <1>11, <1>12, <1>13 DEF Next, DestroyStep

(* Both hold at first. *)
LEMMA InitQueued == Init => PendingInOrder /\ DestroyedInOrder
<1> SUFFICES ASSUME Init PROVE PendingInOrder /\ DestroyedInOrder
  OBVIOUS
<1>1. mpc = "init" /\ \A w \in Workers : pending[w] = << >>
  BY DEF Init
<1>2. \A t, w, b, i : ~Owns(t, w, b, i)
  BY InitNoCells
<1>3. PendingInOrder
  BY <1>1, <1>2 DEF PendingInOrder
<1>4. DestroyedInOrder
  BY <1>1 DEF DestroyedInOrder
<1> QED
  BY <1>3, <1>4

-----------------------------------------------------------------------------
(* The pool implements TaskPool.                                           *)
Ordered == InOrder /\ PendingInOrder /\ DestroyedInOrder

(* Ordered holds at first ... *)
LEMMA InitOrdered == Init => Ordered
BY InitInOrder, InitQueued DEF Ordered

(* ... and after each step. *)
LEMMA NextOrdered == Ordered /\ [Next]_vars => Ordered'
<1> SUFFICES ASSUME Ordered, [Next]_vars PROVE Ordered'
  OBVIOUS
<1>1. /\ InOrder /\ IInv /\ Accounted /\ CellsApart /\ CallbacksInOrder
      /\ PendingInOrder /\ DestroyedInOrder
  BY DEF Ordered, InOrder
<1>2. InOrder'
  BY <1>1, NextInOrder
<1>3. PendingInOrder'
  BY <1>1, NextQueued
<1>4. DestroyedInOrder'
  BY <1>1, NextDestroyed
<1> QED
  BY <1>2, <1>3, <1>4 DEF Ordered

(* TaskPool's initial state ... *)
LEMMA InitPromises == Init => Abstract!Init
<1> SUFFICES ASSUME Init PROVE Abstract!Init
  OBVIOUS
<1>1. /\ fresh = Tasks /\ mpc = "init"
      /\ pending = [w \in Workers |-> << >>] /\ active = [w \in Workers |-> NoTask]
  BY DEF Init
<1>2. (mpc = "closed") = FALSE
  BY <1>1
<1> QED
  BY <1>1, <1>2 DEF Abstract!Init

(* Outside the cells no task is running. *)
LEMMA Inactive ==
  ASSUME CallbacksInOrder, NEW w \in Workers, wpc[w] \notin InCell
  PROVE  active[w] = NoTask
BY DEF CallbacksInOrder

(* The steps that TaskPool does not see. *)
LEMMA StutterPromises ==
  ASSUME UNCHANGED <<fresh, pending, active>>, (mpc = "closed")' <=> mpc = "closed"
  PROVE  UNCHANGED Abstract!abstractVars
BY DEF Abstract!abstractVars

(* Starting a task, or going on with it. *)
LEMMA CallPromises ==
  ASSUME Ordered, CallsBack
  PROVE  [Abstract!Next]_(Abstract!abstractVars)
<1>1. /\ IInv /\ Shape /\ CallbacksInOrder /\ PendingInOrder /\ OneTask
      /\ \A w \in Workers : Queued(w)
  BY PendingForms, ApartForms DEF Ordered, InOrder, IInv, Shape
<1>2. PICK w \in Workers, t \in Tasks, c \in Callbacks :
        ScanCalls(w, t, c) /\ UNCHANGED <<queue, current, call, fresh, mpc, arena>>
  BY DEF CallsBack
<1>3. /\ wpc[w] \in InCell /\ t \in Cell(w)
      /\ active' = [active EXCEPT ![w] = t]
      /\ pending' = [pending EXCEPT ![w] = After(@, t)]
  BY <1>2 DEF ScanCalls
<1>4. /\ active \in [Workers -> Tasks \cup {NoTask}] /\ pending \in [Workers -> Seq(Tasks)]
      /\ t # NoTask
  BY <1>1 DEF Shape, TypeOK
<1>5. PICK b, i : b = rb[w] /\ i = ro[w] + 1
  OBVIOUS
<1>6. Owns(t, w, b, i) /\ Inside(w, b, i)
  BY <1>1, <1>3, <1>5, CellOwned DEF CallbacksInOrder, Inside
<1>7. CASE active[w] = NoTask
  <2>1. Waits(t, w)
    BY <1>1, <1>6, <1>7 DEF Queued, NoneForgotten, StillToCome
  <2>2. PICK k \in DOMAIN pending[w] : k = CHOOSE l \in DOMAIN pending[w] : pending[w][l] = t
    BY <2>1 DEF Waits
  <2>3. pending[w][k] = t
    BY <2>1, <2>2 DEF Waits
  <2>4. After(pending[w], t) = SubSeq(pending[w], 1 + k, Len(pending[w]))
    BY <2>2, <2>3 DEF After
  <2>5. 1 + k = k + 1
    BY <1>4
  <2>6. mpc # "closed"
    BY <1>1, <1>3, AcksAllTaken DEF IInv, InCell
  <2>7. Abstract!Start(w, k)
    BY <1>2, <1>3, <1>7, <2>3, <2>4, <2>5, <2>6 DEF Abstract!Start
  <2> QED
    BY <2>7 DEF Abstract!Next
<1>8. CASE active[w] # NoTask
  <2>1. active[w] = t
    <3>1. Owns(active[w], w, rb[w], ro[w] + 1)
      BY <1>1, <1>8 DEF CallbacksInOrder
    <3>2. PICK u : u = active[w]
      OBVIOUS
    <3>3. Owns(u, w, b, i)
      BY <1>5, <3>1, <3>2
    <3> QED
      BY <1>1, <1>6, <3>2, <3>3 DEF OneTask
  <2>2. \A k \in DOMAIN pending[w] : pending[w][k] # t
    BY <1>1, <2>1 DEF Queued, Distinct
  <2>3. After(pending[w], t) = pending[w]
    BY <2>2 DEF After
  <2>4. active' = active
    BY <1>3, <1>4, <2>1
  <2>5. pending' = pending
    BY <1>3, <1>4, <2>3
  <2> QED
    BY <1>2, <2>4, <2>5, StutterPromises
<1> QED
  BY <1>7, <1>8

(* ... and its steps, taken by a worker, ... *)
LEMMA WorkerPromises ==
  ASSUME Ordered, NEW w \in Workers, WorkerStep(w)
  PROVE  [Abstract!Next]_(Abstract!abstractVars)
<1>1. IInv /\ Shape /\ CallbacksInOrder /\ active \in [Workers -> Tasks \cup {NoTask}]
  BY DEF Ordered, InOrder, IInv, Shape, TypeOK
<1>2. UNCHANGED <<fresh, mpc>>
  BY <1>1, WorkerFrame DEF Shape
<1>3. CASE Reset(w)
  <2>1. wpc[w] = "reset" /\ active' = active /\ pending' = [pending EXCEPT ![w] = << >>]
    BY <1>3 DEF Reset, Go, At
  <2>2. active[w] = NoTask
    BY <1>1, <2>1, Inactive DEF InCell
  <2>3. Abstract!Lose(w)
    BY <1>2, <2>1, <2>2 DEF Abstract!Lose
  <2> QED
    BY <2>3 DEF Abstract!Next
<1>4. CASE ~Reset(w)
  <2>1. \A v \in Workers \ {w} : ScanStays(v)
    BY <1>1, WorkerScanOthers
  <2>2. UNCHANGED <<queue, current, call, fresh, mpc, arena>>
    BY <1>1, <1>4, WorkerData, WorkerFrame DEF Shape
  <2>3. CASE ScanQuiet(w) /\ UNCHANGED <<ran, pending>>
    <3>1. active' \in {active, [active EXCEPT ![w] = NoTask]} \/ CallsBack
      <4>1. \/ active' \in {active, [active EXCEPT ![w] = NoTask]}
            \/ \E t \in Tasks, c \in Callbacks : ran' = [ran EXCEPT ![t] = Append(@, c)]
        BY <1>1, <1>4, WorkerData
      <4>2. ASSUME NEW t \in Tasks, NEW c \in Callbacks, ran' = [ran EXCEPT ![t] = Append(@, c)]
            PROVE  FALSE
        <5>1. ran \in [Tasks -> Seq(Callbacks)] /\ ran' = ran
          BY <1>1, <2>3 DEF Shape, TypeOK
        <5>2. ran[t] = Append(ran[t], c) /\ ran[t] \in Seq(Callbacks)
          BY <4>2, <5>1
        <5>3. Len(ran[t]) = Len(ran[t]) + 1 /\ Len(ran[t]) \in Nat
          BY <5>2, AppendProperties
        <5> QED
          BY <5>3
      <4> QED
        BY <4>1, <4>2
    <3>2. CASE active' = active
      BY <2>2, <2>3, <3>2, StutterPromises
    <3>3. CASE active' # active /\ active' = [active EXCEPT ![w] = NoTask]
      <4>1. active[w] # NoTask
        BY <1>1, <3>3
      <4>2. Abstract!Finish(w)
        BY <2>2, <2>3, <3>3, <4>1 DEF Abstract!Finish
      <4> QED
        BY <4>2 DEF Abstract!Next
    <3> QED
      BY <3>1, <3>2, <3>3, CallPromises
  <2>4. ASSUME NEW t \in Tasks, NEW c \in Callbacks, ScanCalls(w, t, c)
        PROVE  [Abstract!Next]_(Abstract!abstractVars)
    BY <2>1, <2>2, <2>4, CallPromises DEF CallsBack
  <2> QED
    BY <1>1, <1>4, <2>3, <2>4, WorkerScan
<1> QED
  BY <1>3, <1>4

(* ... by a caller ... *)
LEMMA CallerPromises ==
  ASSUME Ordered, NEW a \in Callers, EnqueueStep(a)
  PROVE  [Abstract!Next]_(Abstract!abstractVars)
<1>1. IInv /\ Shape /\ CallsApart
  BY DEF Ordered, InOrder, IInv, Shape, Accounted
<1>2. UNCHANGED <<mpc, active>>
  BY DEF EnqueueStep, AllocHere, AllocNextBlock, AllocNewBlock, TakeCell,
     AllocOutOfMemory, CopyBegin, CopyEnd, Post, ownerVars, historyVars
<1>3. ASSUME Allocating(a)
      PROVE  call[a].t \in fresh /\ call[a].t \in Tasks /\ call[a].w \in Workers /\ mpc # "closed"
  <2>1. call[a].step = "alloc" /\ call[a] # Idle
    BY <1>3 DEF Allocating, Idle
  <2>2. /\ call[a].w \in Workers /\ call[a].t \in Tasks
        /\ IF a = Main THEN mpc = "run" ELSE wpc[a] = "executing"
    BY <1>1, <2>1, CallInFlight
  <2>3. mpc # "closed"
    BY <1>1, <2>2, AcksAllTaken DEF IInv, Callers
  <2> QED
    BY <1>1, <2>1, <2>2, <2>3 DEF CallsApart
<1>4. CASE Allocs(a)
  <2>1. Allocating(a)
    BY <1>4 DEF Allocs, AllocHere, AllocNextBlock, AllocNewBlock
  <2>2. /\ fresh' = fresh \ {call[a].t}
        /\ pending' = [pending EXCEPT ![call[a].w] = Append(@, call[a].t)]
    BY <1>4 DEF Allocs, AllocHere, AllocNextBlock, AllocNewBlock, TakeCell
  <2>3. PICK w \in Workers, t \in Tasks : w = call[a].w /\ t = call[a].t
    BY <1>3, <2>1
  <2>4. Abstract!Accept(w, t)
    BY <1>2, <1>3, <2>1, <2>2, <2>3 DEF Abstract!Accept
  <2> QED
    BY <2>4 DEF Abstract!Next
<1>5. CASE AllocOutOfMemory(a)
  <2>1. Allocating(a) /\ fresh' = fresh \ {call[a].t} /\ pending' = pending
    BY <1>5 DEF AllocOutOfMemory
  <2>2. PICK t \in Tasks : t = call[a].t
    BY <1>3, <2>1
  <2>3. Abstract!Refuse(t)
    BY <1>2, <1>3, <2>1, <2>2 DEF Abstract!Refuse
  <2> QED
    BY <2>3 DEF Abstract!Next
<1>6. CASE CopyBegin(a) \/ CopyEnd(a) \/ Post(a)
  <2>1. UNCHANGED <<fresh, pending>>
    BY <1>6 DEF CopyBegin, CopyEnd, Post, historyVars
  <2> QED
    BY <1>2, <2>1, StutterPromises
<1> QED
  BY <1>4, <1>5, <1>6 DEF EnqueueStep, Allocs

(* ... or by the owner, ... *)
LEMMA OwnerPromises ==
  ASSUME Ordered, Ordered', InitWorker \/ StartDestroy \/ DestroyStep
  PROVE  [Abstract!Next]_(Abstract!abstractVars)
<1>1. /\ IInv /\ Shape /\ CallbacksInOrder /\ mi \in Workers
      /\ IInv' /\ WaitsWhereSent' /\ DestroyedInOrder' /\ CallbacksInOrder'
  BY DEF Ordered, InOrder, IInv, Shape, TypeOK, Accounted
<1>2. UNCHANGED <<fresh, active>>
  BY DEF InitWorker, StartDestroy, DestroyStep, SetShutdown, WakeToStop, AwaitAck,
     DestroyArena, DestroyNullArena, Join, SkipMissing, historyVars
<1>3. mpc # "closed"
  BY DEF InitWorker, StartDestroy, DestroyStep, SetShutdown, WakeToStop, AwaitAck,
     DestroyArena, DestroyNullArena, Join, SkipMissing
<1>4. CASE DestroyArena
  <2>1. mpc = "free" /\ mpc' = "join" /\ pending' = [pending EXCEPT ![mi] = << >>]
    BY <1>4 DEF DestroyArena
  <2>2. PICK w \in Workers : w = mi
    BY <1>1
  <2>3. active[w] = NoTask
    BY <1>1, <2>1, AcksAllTaken, Inactive DEF IInv, InCell
  <2>4. (mpc = "closed")' = (mpc = "closed")
    BY <2>1
  <2>5. Abstract!Lose(w)
    BY <1>2, <2>1, <2>2, <2>3, <2>4 DEF Abstract!Lose
  <2> QED
    BY <2>5 DEF Abstract!Next
<1>5. CASE ~DestroyArena
  <2>1. pending' = pending
    BY <1>5 DEF InitWorker, StartDestroy, DestroyStep, SetShutdown, WakeToStop, AwaitAck,
       DestroyNullArena, Join, SkipMissing, historyVars
  <2>2. CASE mpc' # "closed"
    BY <1>2, <1>3, <2>1, <2>2, StutterPromises
  <2>3. CASE mpc' = "closed"
    <3>1. \A w \in Workers : pending'[w] = << >>
      BY <1>1, <2>3 DEF DestroyedInOrder, WaitsWhereSent
    <3>2. \A w \in Workers : wpc'[w] \in {"null", "done"}
      <4>1. TypeOK' /\ AckAccounting' /\ mpc' \in {"free", "join", "closed", "crashed"}
        BY <1>1, <2>3 DEF IInv
      <4>2. mpc \in {"free", "join"}
        BY <2>3, <1>3, <1>5 DEF InitWorker, StartDestroy, DestroyStep, SetShutdown, WakeToStop,
           AwaitAck, DestroyNullArena, Join, SkipMissing, Loop
      <4>3. \A w \in Workers : wpc[w] \in {"null", "done"}
        BY <1>1, <4>2, AcksAllTaken DEF IInv
      <4>4. wpc' = wpc
        BY <1>5, <4>2 DEF InitWorker, StartDestroy, DestroyStep, SetShutdown, WakeToStop,
           AwaitAck, DestroyNullArena, Join, SkipMissing, threadVars
      <4> QED
        BY <4>3, <4>4
    <3>3. \A w \in Workers : active[w] = NoTask
      BY <1>1, <1>2, <3>2 DEF CallbacksInOrder, InCell
    <3>4. (mpc = "closed")' = TRUE
      BY <2>3
    <3>5. Abstract!Close
      BY <1>2, <2>1, <3>1, <3>3, <3>4 DEF Abstract!Close
    <3> QED
      BY <3>5 DEF Abstract!Next
  <2> QED
    BY <2>2, <2>3
<1> QED
  BY <1>4, <1>5

(* ... which are all the steps that it can see. *)
LEMMA NextPromises ==
  ASSUME Ordered, Ordered', [Next]_vars
  PROVE  [Abstract!Next]_(Abstract!abstractVars)
<1>1. CASE Submit
  <2>1. PICK a \in Callers, w \in Workers, t \in Tasks :
          \/ \E n \in BOOLEAN : Enqueue(a, w, t, n)
          \/ EnqueueRefused(a, w, t)
    BY <1>1 DEF Submit
  <2>2. ASSUME NEW n \in BOOLEAN, Enqueue(a, w, t, n)
        PROVE  UNCHANGED Abstract!abstractVars
    BY <2>2, StutterPromises DEF Enqueue, ownerVars, historyVars
  <2>3. CASE EnqueueRefused(a, w, t)
    <3>1. /\ t \in fresh /\ fresh' = fresh \ {t}
          /\ UNCHANGED <<pending, active, mpc>>
      BY <2>3 DEF EnqueueRefused, MayCall, ownerVars
    <3>2. Abstract!Refuse(t)
      BY <3>1 DEF Abstract!Refuse
    <3> QED
      BY <3>2 DEF Abstract!Next
  <2> QED
    BY <2>1, <2>2, <2>3
<1>2. CASE Terminating \/ UNCHANGED vars
  <2>1. UNCHANGED <<fresh, pending, active, mpc>>
    BY <1>2 DEF Terminating, vars, ownerVars, historyVars
  <2> QED
    BY <2>1, StutterPromises
<1> QED
  BY <1>1, <1>2, CallerPromises, WorkerPromises, OwnerPromises DEF Next

(* Seen from outside, the pool is the one that TaskPool describes.         *)
THEOREM PoolKeepsPromises == Spec => KeepsPromises
<1>1. Spec => []Ordered
  BY InitOrdered, NextOrdered, PTL DEF Spec
<1>2. Ordered /\ Ordered' /\ [Next]_vars => [Abstract!Next]_(Abstract!abstractVars)
  BY NextPromises
<1> QED
  BY <1>1, <1>2, InitPromises, PTL DEF Spec, KeepsPromises, Abstract!PoolSpec

-----------------------------------------------------------------------------
(* What a wake-up has found is not thrown away before it has run.          *)

(* A cell in use that holds one task keeps it, ...                         *)
Holds(w, t, b, i) ==
  /\ b \in BlocksOf(w) /\ i \in Offsets /\ ~queue[w][b].wiped
  /\ queue[w][b].data[i] = {t} /\ i <= queue[w][b].off

(* ... and so owns it, ... *)
LEMMA HoldsOwns ==
  ASSUME NEW t \in Tasks, NEW w \in Workers, NEW b, NEW i, Holds(w, t, b, i)
  PROVE  Owns(t, w, b, i)
BY DEF Holds, Owns

(* ... whoever writes to the queue, ...                                    *)
LEMMA CopyHolds ==
  ASSUME Shape, CallsApart, OneTask, TornMarked, NEW a \in Callers, CopyBegin(a) \/ CopyEnd(a),
         NEW t \in Tasks, NEW w \in Workers, NEW b, NEW i, Holds(w, t, b, i)
  PROVE  Holds(w, t, b, i)'
<1>1. /\ b \in DOMAIN queue[w] /\ i \in 1 .. BlockCap /\ ~queue[w][b].wiped
      /\ queue[w][b].data[i] = {t} /\ i <= queue[w][b].off
      /\ Owns(t, w, b, i)
  BY HoldsOwns DEF Holds, BlocksOf, Offsets
<1> DEFINE d == queue[call[a].w][call[a].b].data[call[a].i]
<1>2. PICK v : /\ call[a].step \in {"copy", "copying", "torn"} /\ WriteCell(a, v)
               /\ v \in {d \cup {call[a].t}, {call[a].t}}
  BY DEF CopyBegin, CopyEnd
<1>3. /\ DOMAIN queue'[w] = DOMAIN queue[w]
      /\ queue'[w][b].wiped = queue[w][b].wiped /\ queue'[w][b].off = queue[w][b].off
      /\ queue'[w][b].data[i] = IF w = call[a].w /\ b = call[a].b /\ i = call[a].i
                                THEN v ELSE queue[w][b].data[i]
  <2>1. /\ DOMAIN queue'[w] = DOMAIN queue[w]
        /\ \A k \in DOMAIN queue[w] :
             /\ queue'[w][k].wiped = queue[w][k].wiped
             /\ queue'[w][k].off = queue[w][k].off
             /\ \A j \in 1 .. BlockCap :
                  queue'[w][k].data[j] = IF w = call[a].w /\ k = call[a].b /\ j = call[a].i
                                         THEN v ELSE queue[w][k].data[j]
    <3>1. call[a].step \in {"copy", "copying", "torn"} /\ WriteCell(a, v)
      BY <1>2
    <3> HIDE DEF d
    <3> QED
      BY <3>1, WriteCellEffect, SMTT(30)
  <2>2. /\ queue'[w][b].wiped = queue[w][b].wiped
        /\ queue'[w][b].off = queue[w][b].off
        /\ \A j \in 1 .. BlockCap :
             queue'[w][b].data[j] = IF w = call[a].w /\ b = call[a].b /\ j = call[a].i
                                    THEN v ELSE queue[w][b].data[j]
    BY <1>1, <2>1
  <2>3. i \in 1 .. BlockCap
    BY <1>1
  <2> QED
    BY <2>1, <2>2, <2>3
<1>4. ASSUME w = call[a].w, b = call[a].b, i = call[a].i
      PROVE  v = {t}
  <2>1. d = {t}
    BY <1>1, <1>4
  <2>2. call[a].step \in {"copy", "copying"}
    BY <1>1, <1>2, <1>4 DEF TornMarked
  <2>3. call[a].t \in Tasks
    BY <2>2, CallInFlight
  <2>4. PICK u : u = call[a].t
    OBVIOUS
  <2>5. Owns(u, w, b, i)
    BY <1>1, <1>4, <2>2, <2>3, <2>4 DEF Owns, BlocksOf, Offsets
  <2>6. u = t
    BY <1>1, <2>5 DEF OneTask
  <2> HIDE DEF d
  <2> QED
    BY <1>2, <2>1, <2>4, <2>6
<1>5. queue'[w][b].data[i] = {t}
  BY <1>1, <1>3, <1>4
<1> QED
  BY <1>1, <1>3, <1>5 DEF Holds, BlocksOf, Offsets

(* ... or extends it, ... *)
LEMMA AllocHolds ==
  ASSUME Shape, LastInUse, NEW a \in Callers, Allocs(a),
         NEW t \in Tasks, NEW w \in Workers, NEW b, NEW i, Holds(w, t, b, i)
  PROVE  Holds(w, t, b, i)'
<1> DEFINE c == current[w]
<1>1. /\ b \in DOMAIN queue[w] /\ i \in 1 .. BlockCap /\ ~queue[w][b].wiped
      /\ queue[w][b].data[i] = {t} /\ i <= queue[w][b].off
  BY DEF Holds, BlocksOf, Offsets
<1>2. /\ queue \in [Workers -> Seq(Blocks)] /\ queue[w] \in Seq(Blocks)
      /\ queue[w][b] \in Blocks /\ queue[w][b].off \in Nat
      /\ DOMAIN queue[w] = 1 .. Len(queue[w]) /\ Len(queue[w]) \in Nat
  <2>1. queue \in [Workers -> Seq(Blocks)] /\ queue[w] \in Seq(Blocks)
    BY DEF Shape, TypeOK
  <2>2. queue[w][b] \in Blocks /\ queue[w][b].off \in Nat
    BY <1>1, <2>1, OffsetType
  <2> QED
    BY <2>1, <2>2
<1>3. PICK k, q : TakeCell(a, k, q) /\ Allocating(a)
                  /\ \/ AllocHere(a) /\ k = current[call[a].w] /\ q = queue[call[a].w]
                     \/ ~AllocHere(a) /\ current[call[a].w] < Len(queue[call[a].w])
                     \/ /\ k = current[call[a].w] + 1
                        /\ current[call[a].w] = Len(queue[call[a].w])
                        /\ q = Append(queue[call[a].w], NewBlock)
  BY DEF Allocs, AllocHere, AllocNextBlock, AllocNewBlock
<1>4. queue' = [queue EXCEPT ![call[a].w] = [q EXCEPT ![k] = Bump(q[k])]]
  BY <1>3 DEF TakeCell
<1>5. CASE call[a].w # w
  <2>1. queue'[w] = queue[w]
    BY <1>2, <1>4, <1>5
  <2> QED
    BY <2>1 DEF Holds, BlocksOf
<1>6. CASE call[a].w = w
  <2>1. c = Len(queue[w]) /\ c \in 1 .. Len(queue[w])
    <3>1. call[a].step # "idle"
      BY <1>3 DEF Allocating
    <3> QED
      BY <1>1, <1>6, <3>1, CallInFlight DEF LastInUse
  <2>2. /\ q \in Seq(Blocks) /\ k \in DOMAIN q /\ b \in DOMAIN q /\ q[b] = queue[w][b]
        /\ Fits(q[k])
    <3>1. CASE AllocHere(a) /\ k = c /\ q = queue[w]
      BY <1>1, <1>2, <1>6, <2>1, <3>1 DEF AllocHere
    <3>2. CASE k = c + 1 /\ q = Append(queue[w], NewBlock)
      <4>1. /\ q \in Seq(Blocks) /\ Len(q) = Len(queue[w]) + 1
            /\ \A l \in 1 .. Len(queue[w]) : q[l] = queue[w][l]
            /\ q[Len(queue[w]) + 1] = NewBlock
        BY <1>2, <3>2, NewBlockType, AppendProperties
      <4>2. DOMAIN q = 1 .. Len(queue[w]) + 1
        BY <4>1
      <4>3. k = Len(queue[w]) + 1 /\ k \in DOMAIN q /\ q[k] = NewBlock
        BY <1>2, <2>1, <3>2, <4>1, <4>2
      <4>4. Fits(q[k])
        BY <4>3, NewBlockType DEF Fits
      <4>5. b \in DOMAIN q /\ q[b] = queue[w][b]
        BY <1>1, <1>2, <4>1, <4>2
      <4> QED
        BY <4>1, <4>3, <4>4, <4>5
    <3>3. ~(c < Len(queue[w]))
      BY <1>2, <2>1
    <3> HIDE DEF c
    <3>4. c = current[w]
      BY DEF c
    <3> QED
      BY <1>3, <1>6, <3>1, <3>2, <3>3, <3>4
  <2>3. /\ q[k] \in Blocks /\ Bump(q[k]) \in Blocks /\ Bump(q[k]).off = q[k].off + 1
        /\ q[k].off \in Nat
    BY <2>2, OffsetType, BumpType
  <2>4. Bump(q[k]).wiped = q[k].wiped /\ Bump(q[k]).data = q[k].data
    BY <2>3 DEF Bump, Blocks
  <2>5. queue'[w] = [q EXCEPT ![k] = Bump(q[k])]
    BY <1>2, <1>4, <1>6
  <2>6. /\ DOMAIN queue'[w] = DOMAIN q
        /\ queue'[w][b] = IF b = k THEN Bump(q[k]) ELSE queue[w][b]
    BY <2>2, <2>5
  <2>7. /\ queue'[w][b].wiped = queue[w][b].wiped /\ queue'[w][b].data = queue[w][b].data
        /\ queue'[w][b].off >= queue[w][b].off /\ queue'[w][b].off \in Nat
    BY <1>2, <2>2, <2>3, <2>4, <2>6
  <2>8. i <= queue'[w][b].off
    BY <1>1, <1>2, <2>7
  <2> QED
    BY <1>1, <2>2, <2>6, <2>7, <2>8 DEF Holds, BlocksOf, Offsets
<1> QED
  BY <1>5, <1>6

(* ... until the worker itself clears its queue.                           *)
Busy(w) == wpc[w] \in Scanning \cup {"reset"}

LEMMA NextHolds ==
  ASSUME IInv, CallsApart, CellsApart, [Next]_vars,
         NEW t \in Tasks, NEW w \in Workers, Busy(w), ~Reset(w),
         NEW b, NEW i, Holds(w, t, b, i)
  PROVE  Holds(w, t, b, i)'
<1>1. Shape /\ LastInUse /\ OneTask /\ TornMarked /\ queue \in [Workers -> Seq(Blocks)]
      /\ mi \in Workers
  BY ApartForms DEF IInv, Shape, TypeOK
<1>2. ASSUME queue'[w] = queue[w] PROVE Holds(w, t, b, i)'
  BY <1>2 DEF Holds, BlocksOf
<1>3. CASE InitWorker
  <2>1. w # mi
    BY <1>1, <1>3, InitWorkerFrame DEF Busy, Scanning, InCell
  <2> QED
    BY <1>1, <1>2, <1>3, <2>1, InitWorkerFrame
<1>4. CASE DestroyArena
  <2>1. mpc = "free"
    BY <1>4 DEF DestroyArena
  <2>2. FALSE
    BY <2>1, AcksAllTaken DEF IInv, Busy, Scanning, InCell
  <2> QED
    BY <2>2
<1>5. CASE \/ StartDestroy \/ (DestroyStep /\ ~DestroyArena) \/ Submit
           \/ Terminating \/ UNCHANGED vars
  <2>1. queue' = queue
    BY <1>5 DEF StartDestroy, DestroyStep, SetShutdown, WakeToStop, AwaitAck,
       DestroyNullArena, Join, SkipMissing, Submit, Enqueue, EnqueueRefused,
       Terminating, vars, arenaVars
  <2> QED
    BY <1>2, <2>1
<1>6. ASSUME NEW a \in Callers, EnqueueStep(a)
      PROVE  Holds(w, t, b, i)'
  <2>1. CASE Allocs(a)
    BY <1>1, <2>1, AllocHolds
  <2>2. CASE CopyBegin(a) \/ CopyEnd(a)
    BY <1>1, <2>2, CopyHolds
  <2>3. CASE AllocOutOfMemory(a) \/ Post(a)
    <3>1. queue' = queue
      BY <2>3 DEF AllocOutOfMemory, Post, arenaVars
    <3> QED
      BY <1>2, <3>1
  <2> QED
    BY <1>6, <2>1, <2>2, <2>3 DEF EnqueueStep, Allocs
<1>7. ASSUME NEW v \in Workers, WorkerStep(v)
      PROVE  Holds(w, t, b, i)'
  <2>1. CASE Reset(v)
    <3>1. w # v
      BY <2>1
    <3>2. queue' = [queue EXCEPT ![v] = Shred(@)]
      BY <2>1 DEF Reset
    <3> QED
      BY <1>1, <1>2, <3>1, <3>2
  <2>2. CASE ~Reset(v)
    BY <1>1, <1>2, <1>7, <2>2, WorkerData
  <2> QED
    BY <2>1, <2>2
<1> QED
  BY <1>3, <1>4, <1>5, <1>6, <1>7 DEF Next

(* How far the scan is with such a cell. *)
Passed(w, t, b, i) ==
  /\ b < rb[w] \/ (b = rb[w] /\ i <= ro[w]) => ran[t] = AllCalled
  /\ wpc[w] = "next" /\ b = rb[w] => i <= ro[w]
  /\ wpc[w] = "reset" => b < rb[w]
  /\ Inside(w, b, i) => ran[t] = SubSeq(AllCalled, 1, Limit(w) - 1)

(* The callbacks called so far, one more at a time. *)
LEMMA AllCalledPrefixes ==
  /\ SubSeq(AllCalled, 1, 0) = << >>
  /\ Append(SubSeq(AllCalled, 1, 0), "on_load") = SubSeq(AllCalled, 1, 1)
  /\ Append(SubSeq(AllCalled, 1, 1), "execute") = SubSeq(AllCalled, 1, 2)
  /\ Append(SubSeq(AllCalled, 1, 2), "on_exit") = SubSeq(AllCalled, 1, 3)
  /\ SubSeq(AllCalled, 1, 3) = AllCalled
<1>1. /\ AllCalled \in Seq(Callbacks) /\ Len(AllCalled) = 3
      /\ AllCalled[1] = "on_load" /\ AllCalled[2] = "execute" /\ AllCalled[3] = "on_exit"
  BY DEF AllCalled, Callbacks
<1>2. ASSUME NEW k \in 0 .. 3
      PROVE  /\ SubSeq(AllCalled, 1, k) \in Seq(Callbacks)
             /\ Len(SubSeq(AllCalled, 1, k)) = k
             /\ \A i \in 1 .. k : SubSeq(AllCalled, 1, k)[i] = AllCalled[i]
  <2>1. \A i \in 1 .. k : AllCalled[i] \in Callbacks
    BY <1>1
  <2>2. 1 \in Int /\ k \in Int
    OBVIOUS
  <2>3. /\ SubSeq(AllCalled, 1, k) \in Seq(Callbacks)
        /\ Len(SubSeq(AllCalled, 1, k)) = IF 1 <= k THEN k - 1 + 1 ELSE 0
        /\ \A i \in 1 .. k - 1 + 1 : SubSeq(AllCalled, 1, k)[i] = AllCalled[1 + i - 1]
    BY <2>1, <2>2, SubSeqProperties
  <2> QED
    BY <2>3
<1>3. ASSUME NEW k \in 0 .. 2
      PROVE  Append(SubSeq(AllCalled, 1, k), AllCalled[k + 1]) = SubSeq(AllCalled, 1, k + 1)
  <2> DEFINE s == SubSeq(AllCalled, 1, k)
             u == SubSeq(AllCalled, 1, k + 1)
  <2>1. /\ s \in Seq(Callbacks) /\ Len(s) = k
        /\ \A i \in 1 .. k : s[i] = AllCalled[i]
    BY <1>2
  <2>2. /\ u \in Seq(Callbacks) /\ Len(u) = k + 1
        /\ \A i \in 1 .. k + 1 : u[i] = AllCalled[i]
    <3>1. k + 1 \in 0 .. 3
      OBVIOUS
    <3> QED
      BY <1>2, <3>1
  <2>3. AllCalled[k + 1] \in Callbacks
    BY <1>1
  <2> HIDE DEF s, u
  <2>4. /\ Append(s, AllCalled[k + 1]) \in Seq(Callbacks)
        /\ Len(Append(s, AllCalled[k + 1])) = k + 1
        /\ \A i \in 1 .. k : Append(s, AllCalled[k + 1])[i] = s[i]
        /\ Append(s, AllCalled[k + 1])[k + 1] = AllCalled[k + 1]
    BY <2>1, <2>3, AppendProperties
  <2>5. Append(s, AllCalled[k + 1]) = u
    BY <2>1, <2>2, <2>4, SeqEqual
  <2> QED
    BY <2>5 DEF s, u
<1>4. SubSeq(AllCalled, 1, 0) = << >>
  BY SubSeqEmpty
<1>5. SubSeq(AllCalled, 1, 3) = AllCalled
  BY <1>1, SubSeqFull
<1>6. /\ Append(SubSeq(AllCalled, 1, 0), AllCalled[0 + 1]) = SubSeq(AllCalled, 1, 0 + 1)
      /\ Append(SubSeq(AllCalled, 1, 1), AllCalled[1 + 1]) = SubSeq(AllCalled, 1, 1 + 1)
      /\ Append(SubSeq(AllCalled, 1, 2), AllCalled[2 + 1]) = SubSeq(AllCalled, 1, 2 + 1)
  BY <1>3
<1> QED
  BY <1>1, <1>4, <1>5, <1>6

(* A scan that stays has passed what it had. *)
LEMMA StayPassed ==
  ASSUME NEW w \in Workers, ScanStays(w), NEW t, ran'[t] = ran[t], NEW b, NEW i,
         Passed(w, t, b, i)
  PROVE  Passed(w, t, b, i)'
<1>1. wpc'[w] = wpc[w] /\ rb'[w] = rb[w] /\ ro'[w] = ro[w]
  BY DEF ScanStays
<1>2. (Inside(w, b, i)' <=> Inside(w, b, i)) /\ Limit(w)' = Limit(w)
  BY AheadStays
<1> QED
  BY <1>1, <1>2 DEF Passed

(* The scan passes a cell after the callbacks of its task. *)
LEMMA WorkerPassed ==
  ASSUME Shape, OneCell, CallbacksInOrder, NEW w \in Workers, WorkerStep(w),
         ~Reset(w), Busy(w),
         NEW t \in Tasks, NEW b, NEW i, Holds(w, t, b, i), Passed(w, t, b, i)
  PROVE  Passed(w, t, b, i)' /\ Busy(w)'
<1> USE DEF Go, At, ThreadOnly, historyVars
<1>1. /\ wpc \in [Workers -> WorkerSteps]
      /\ rb \in [Workers -> Nat \ {0}] /\ ro \in [Workers -> Nat]
      /\ rb[w] \in Nat /\ ro[w] \in Nat /\ queue[w] \in Seq(Blocks)
      /\ ran \in [Tasks -> Seq(Callbacks)]
  BY DEF Shape, TypeOK
<1>2. /\ b \in 1 .. Len(queue[w]) /\ b \in Nat /\ i \in Nat /\ Len(queue[w]) \in Nat
      /\ ~queue[w][b].wiped /\ queue[w][b].data[i] = {t} /\ i <= queue[w][b].off
      /\ Owns(t, w, b, i)
  <2>1. b \in DOMAIN queue[w] /\ i \in 1 .. BlockCap
    BY DEF Holds, BlocksOf, Offsets
  <2>2. ~queue[w][b].wiped /\ queue[w][b].data[i] = {t} /\ i <= queue[w][b].off
    BY DEF Holds
  <2>3. Owns(t, w, b, i)
    BY HoldsOwns
  <2>4. b \in 1 .. Len(queue[w]) /\ Len(queue[w]) \in Nat
    BY <1>1, <2>1
  <2>5. b \in Nat
    BY <2>4
  <2>6. i \in Nat
    BY <2>1
  <2> QED
    BY <2>2, <2>3, <2>4, <2>5, <2>6
<1>3. CASE Top(w) \/ SemWait(w) \/ WokenToStop(w) \/ StartScan(w) \/ Ack(w)
  BY <1>3 DEF Top, SemWait, WokenToStop, StartScan, Ack, Busy, Scanning, InCell
<1>4. CASE SkipWiped(w) \/ NextBlock(w)
  <2>1. /\ wpc[w] = "next" \/ (wpc[w] = "scan" /\ queue[w][rb[w]].wiped)
        /\ wpc'[w] = IF rb[w] < Len(queue[w]) THEN "scan" ELSE "reset"
        /\ rb'[w] = rb[w] + 1 /\ ro'[w] = 0
        /\ UNCHANGED ran
    BY <1>1, <1>4 DEF SkipWiped, NextBlock, ToNextBlock, HasNext
  <2>2. b = rb[w] => wpc[w] = "next" /\ i <= ro[w]
    BY <1>2, <2>1 DEF Passed
  <2>3. b < rb'[w] \/ (b = rb'[w] /\ i <= ro'[w]) => ran'[t] = AllCalled
    <3>1. i \in 1 .. BlockCap
      BY DEF Holds, Offsets
    <3>2. b < rb'[w] => b < rb[w] \/ b = rb[w]
      BY <1>1, <1>2, <2>1
    <3> QED
      BY <1>1, <1>2, <2>1, <2>2, <3>1, <3>2 DEF Passed
  <2>4. wpc'[w] = "reset" => b < rb'[w]
    BY <1>1, <1>2, <2>1
  <2>5. ~Inside(w, b, i)' /\ wpc'[w] # "next" /\ Busy(w)'
    BY <2>1 DEF Inside, InCell, Busy, Scanning
  <2> QED
    BY <2>3, <2>4, <2>5 DEF Passed
<1>5. CASE TakeTask(w)
  <2>1. /\ wpc[w] = "scan" /\ rb' = rb /\ ro' = ro /\ ran' = ran
        /\ wpc'[w] = IF ro[w] < queue[w][rb[w]].off THEN "on_load" ELSE "next"
    BY <1>1, <1>5 DEF TakeTask, Unread
  <2>2. CASE ro[w] < queue[w][rb[w]].off
    <3>1. wpc'[w] = "on_load"
      BY <2>1, <2>2
    <3>2. Inside(w, b, i)' => ran'[t] = SubSeq(AllCalled, 1, Limit(w)' - 1)
      <4>1. Inside(w, b, i)' => b = rb[w] /\ i = ro[w] + 1
        BY <2>1 DEF Inside
      <4>2. Inside(w, b, i)' => Ahead(w, b, i)
        BY <1>1, <1>2, <2>1, <4>1 DEF Ahead, Scanning, InCell, Before
      <4>3. Inside(w, b, i)' => ran[t] = << >>
        BY <1>2, <4>2, CallbacksAt
      <4>4. Limit(w)' - 1 = 0
        BY <3>1 DEF Limit
      <4> QED
        BY <2>1, <4>3, <4>4, AllCalledPrefixes
    <3>3. Busy(w)'
      BY <3>1 DEF Busy, Scanning, InCell
    <3> QED
      BY <2>1, <3>1, <3>2, <3>3 DEF Passed
  <2>3. CASE ~(ro[w] < queue[w][rb[w]].off)
    <3>1. wpc'[w] = "next"
      BY <2>1, <2>3
    <3>2. b = rb[w] => i <= ro[w]
      <4>1. queue[w][b].off \in Nat
        BY <1>1, <1>2, OffsetType
      <4> QED
        BY <1>1, <1>2, <2>3, <4>1
    <3>3. ~Inside(w, b, i)' /\ Busy(w)'
      BY <3>1 DEF Inside, InCell, Busy, Scanning
    <3> QED
      BY <2>1, <3>1, <3>2, <3>3 DEF Passed
  <2> QED
    BY <2>2, <2>3
<1>6. CASE Advance(w)
  <2>1. /\ wpc[w] = "advance" /\ wpc'[w] = "scan" /\ rb' = rb /\ ro'[w] = ro[w] + 1
        /\ ran' = ran
    BY <1>1, <1>6 DEF Advance
  <2>2. Limit(w) - 1 = 3
    BY <2>1 DEF Limit
  <2>3. b = rb[w] /\ i = ro[w] + 1 => ran[t] = AllCalled
    BY <2>1, <2>2, AllCalledPrefixes DEF Passed, Inside, InCell
  <2>4. i <= ro[w] + 1 => i <= ro[w] \/ i = ro[w] + 1
    BY <1>1, <1>2
  <2>5. ~Inside(w, b, i)' /\ Busy(w)'
    BY <2>1 DEF Inside, InCell, Busy, Scanning
  <2> QED
    BY <2>1, <2>3, <2>4, <2>5 DEF Passed
<1>7. ASSUME wpc[w] \in InCell, wpc'[w] \in InCell, UNCHANGED <<rb, ro>>,
             ~Inside(w, b, i) => ran'[t] = ran[t],
             Inside(w, b, i) => ran'[t] = SubSeq(AllCalled, 1, Limit(w)' - 1)
      PROVE  Passed(w, t, b, i)' /\ Busy(w)'
  <2>1. wpc'[w] \notin {"next", "reset"} /\ Busy(w)'
    BY <1>7 DEF InCell, Busy, Scanning
  <2>2. Inside(w, b, i)' <=> Inside(w, b, i)
    BY <1>7, AheadInside
  <2>3. Inside(w, b, i) => ~(b < rb[w] \/ (b = rb[w] /\ i <= ro[w]))
    BY <1>1, <1>2 DEF Inside
  <2> QED
    BY <1>7, <2>1, <2>2, <2>3 DEF Passed
<1>8. CASE Return(w)
  <2>1. /\ wpc[w] = "executing" /\ wpc'[w] = "on_exit"
        /\ UNCHANGED <<ran, rb, ro>>
    BY <1>1, <1>8 DEF Return
  <2>2. Limit(w) = 3 /\ Limit(w)' = 3
    BY <2>1 DEF Limit
  <2>3. wpc[w] \in InCell /\ wpc'[w] \in InCell
    BY <2>1 DEF InCell
  <2> QED
    BY <1>7, <2>1, <2>2, <2>3 DEF Passed
<1>9. ASSUME NEW u \in Cell(w), NEW c \in Callbacks, Callback(w, u, c), wpc[w] = c,
             wpc'[w] = CASE c = "on_load" -> "execute"
                         [] c = "execute" -> IF u = NoTask THEN "on_exit" ELSE "executing"
                         [] c = "on_exit" -> "advance"
      PROVE  Passed(w, t, b, i)' /\ Busy(w)'
  <2>1. c \in {"on_load", "execute", "on_exit"}
    BY DEF Callbacks
  <2>2. UNCHANGED <<rb, ro>>
    BY <1>9 DEF Callback
  <2>3. wpc[w] \in InCell /\ wpc'[w] \in InCell
    <3>1. wpc'[w] \in {"execute", "on_exit", "executing", "advance"}
      BY <1>9, <2>1
    <3> QED
      BY <1>9, <2>1, <3>1 DEF InCell
  <2>4. Inside(w, b, i) => u = t
    BY <1>2 DEF Inside, Cell
  <2>5. ASSUME ~Inside(w, b, i)
        PROVE  ran'[t] = ran[t]
    <3>1. CASE u = NoTask
      BY <1>9, <3>1 DEF Callback
    <3>2. CASE u # NoTask
      <4>1. u \in Tasks /\ ran' = [ran EXCEPT ![u] = Append(@, c)]
        BY <1>9, <2>3, <3>2, CellType DEF Callback
      <4>2. Owns(u, w, rb[w], ro[w] + 1)
        BY <2>3, <4>1, CellOwned DEF CallbacksInOrder
      <4>3. PICK d, j : d = rb[w] /\ j = ro[w] + 1
        OBVIOUS
      <4>4. Owns(u, w, d, j) /\ ~(d = b /\ j = i)
        BY <2>3, <2>5, <4>2, <4>3 DEF Inside
      <4>5. u # t
        BY <1>2, <4>4 DEF OneCell
      <4> QED
        BY <1>1, <4>1, <4>5
    <3> QED
      BY <3>1, <3>2
  <2>6. ASSUME Inside(w, b, i)
        PROVE  ran'[t] = SubSeq(AllCalled, 1, Limit(w)' - 1)
    <3>1. u = t /\ u # NoTask
      BY <2>4, <2>6
    <3>2. ran'[t] = Append(ran[t], c)
      BY <1>1, <1>9, <3>1 DEF Callback
    <3>3. ran[t] = SubSeq(AllCalled, 1, Limit(w) - 1)
      BY <2>6 DEF Passed
    <3>4. CASE c = "on_load"
      <4>1. Limit(w) - 1 = 0 /\ Limit(w)' - 1 = 1
        BY <1>9, <3>4 DEF Limit
      <4> QED
        BY <3>2, <3>3, <3>4, <4>1, AllCalledPrefixes
    <3>5. CASE c = "execute"
      <4>1. Limit(w) - 1 = 1 /\ Limit(w)' - 1 = 2
        BY <1>9, <3>1, <3>5 DEF Limit
      <4> QED
        BY <3>2, <3>3, <3>5, <4>1, AllCalledPrefixes
    <3>6. CASE c = "on_exit"
      <4>1. Limit(w) - 1 = 2 /\ Limit(w)' - 1 = 3
        BY <1>9, <3>6 DEF Limit
      <4> QED
        BY <3>2, <3>3, <3>6, <4>1, AllCalledPrefixes
    <3> QED
      BY <2>1, <3>4, <3>5, <3>6
  <2> QED
    BY <1>7, <2>2, <2>3, <2>5, <2>6
<1>10. CASE OnLoad(w)
  <2>1. PICK u \in Cell(w) : Callback(w, u, "on_load") /\ Go(w, "on_load", "execute")
    BY <1>10 DEF OnLoad
  <2> QED
    BY <1>1, <1>9, <2>1 DEF Callbacks
<1>11. CASE Execute(w)
  <2>1. PICK u \in Cell(w) :
          /\ Callback(w, u, "execute")
          /\ Go(w, "execute", IF u = NoTask THEN "on_exit" ELSE "executing")
    BY <1>11 DEF Execute
  <2> QED
    BY <1>1, <1>9, <2>1 DEF Callbacks
<1>12. CASE OnExit(w)
  <2>1. PICK u \in Cell(w) : Callback(w, u, "on_exit") /\ Go(w, "on_exit", "advance")
    BY <1>12 DEF OnExit
  <2> QED
    BY <1>1, <1>9, <2>1 DEF Callbacks
<1> QED
  BY <1>3, <1>4, <1>5, <1>6, <1>8, <1>10, <1>11, <1>12 DEF WorkerStep

(* What is left to find of one worker's snapshot. *)
Left(w) ==
  \A t \in snap[w] : Busy(w) /\ \E b \in BlocksOf(w), i \in Offsets : Found(w, t, b, i)

(* Found in its two halves. *)
LEMMA FoundForms ==
  /\ \A w, t, b, i : Found(w, t, b, i) <=> Holds(w, t, b, i) /\ Passed(w, t, b, i)
  /\ SnapshotInOrder <=> \A w \in Workers : Left(w)
BY DEF Found, Holds, Passed, SnapshotInOrder, Left, Busy

(* A snapshot that stays is still to be found if each of its cells is. *)
LEMMA LeftStays ==
  ASSUME NEW w \in Workers, Left(w), snap'[w] = snap[w],
         \A t \in snap[w] : Busy(w) =>
           /\ Busy(w)'
           /\ \A b, i : Holds(w, t, b, i) /\ Passed(w, t, b, i)
                          => Holds(w, t, b, i)' /\ Passed(w, t, b, i)'
  PROVE  Left(w)'
<1>1. SUFFICES ASSUME NEW t \in snap[w]
               PROVE  Busy(w)' /\ \E b \in BlocksOf(w)', i \in Offsets : Found(w, t, b, i)'
  BY DEF Left
<1>2. PICK b \in BlocksOf(w), i \in Offsets : Found(w, t, b, i)
  BY DEF Left
<1>3. Busy(w) /\ Holds(w, t, b, i) /\ Passed(w, t, b, i)
  BY <1>2, FoundForms DEF Left
<1>4. Busy(w)' /\ Holds(w, t, b, i)' /\ Passed(w, t, b, i)'
  BY <1>3
<1>5. Found(w, t, b, i)'
  BY <1>4 DEF Found, Holds, Passed
<1>6. b \in BlocksOf(w)' /\ i \in Offsets
  BY <1>4 DEF Holds
<1> QED
  BY <1>4, <1>5, <1>6

(* A wake-up finds what it can see, with the scan ahead of it. *)
LEMMA StartLeft ==
  ASSUME Shape, NEW w \in Workers, StartScan(w)
  PROVE  Left(w)'
<1>1. /\ wpc'[w] = "scan" /\ rb'[w] = 1 /\ ro'[w] = 0 /\ snap'[w] = Visible(w)
      /\ queue' = queue
      /\ queue \in [Workers -> Seq(Blocks)]
  BY DEF StartScan, Go, At, Shape, TypeOK, arenaVars
<1>2. SUFFICES ASSUME NEW t \in Visible(w)
               PROVE  Busy(w)' /\ \E b \in BlocksOf(w)', i \in Offsets : Found(w, t, b, i)'
  BY <1>1 DEF Left
<1>3. PICK b \in DOMAIN queue[w] :
        ~queue[w][b].wiped /\ \E i \in 1 .. queue[w][b].off : queue[w][b].data[i] = {t}
  BY DEF Visible
<1>4. PICK i \in 1 .. queue[w][b].off : queue[w][b].data[i] = {t}
  BY <1>3
<1>5. b \in Nat \ {0} /\ queue[w][b] \in Blocks
  BY <1>1, OffsetType
<1>6. queue[w][b].off \in 0 .. BlockCap
  BY <1>5 DEF Blocks
<1>7. i \in Offsets /\ i <= queue[w][b].off /\ i \in Nat \ {0}
  BY <1>6 DEF Offsets
<1>8. ~(b < 1 \/ (b = 1 /\ i <= 0))
  BY <1>5, <1>7
<1>9. Busy(w)' /\ ~Inside(w, b, i)'
  BY <1>1 DEF Busy, Scanning, Inside, InCell
<1>10. Found(w, t, b, i)'
  BY <1>1, <1>3, <1>4, <1>7, <1>8, <1>9 DEF Found, BlocksOf
<1> QED
  BY <1>1, <1>7, <1>9, <1>10 DEF BlocksOf

(* The worker finds what is left. *)
LEMMA WorkerLeft ==
  ASSUME Shape, OneCell, CallbacksInOrder, NEW w \in Workers, WorkerStep(w), Left(w)
  PROVE  Left(w)'
<1>1. snap \in [Workers -> SUBSET Tasks]
  BY DEF Shape, TypeOK
<1>2. CASE Reset(w)
  <2>1. snap'[w] = {}
    BY <1>1, <1>2 DEF Reset
  <2> QED
    BY <2>1 DEF Left
<1>3. CASE StartScan(w)
  BY <1>3, StartLeft
<1>4. CASE ~Reset(w) /\ ~StartScan(w)
  <2>1. snap' = snap
    BY <1>4 DEF WorkerStep, Top, SemWait, WokenToStop, SkipWiped, NextBlock, ToNextBlock,
       TakeTask, OnLoad, Execute, Return, OnExit, Callback, Advance, Ack, ThreadOnly, historyVars
  <2>2. queue' = queue
    BY <1>4, WorkerData
  <2>3. ASSUME NEW t \in snap[w], Busy(w)
        PROVE  /\ Busy(w)'
               /\ \A b, i : Holds(w, t, b, i) /\ Passed(w, t, b, i)
                              => Holds(w, t, b, i)' /\ Passed(w, t, b, i)'
    <3>1. t \in Tasks
      BY <1>1
    <3>2. ASSUME NEW b, NEW i, Holds(w, t, b, i), Passed(w, t, b, i)
          PROVE  Holds(w, t, b, i)' /\ Passed(w, t, b, i)' /\ Busy(w)'
      <4>1. Passed(w, t, b, i)' /\ Busy(w)'
        BY <1>4, <2>3, <3>1, <3>2, WorkerPassed
      <4>2. Holds(w, t, b, i)'
        BY <2>2, <3>2 DEF Holds, BlocksOf
      <4> QED
        BY <4>1, <4>2
    <3>3. PICK b \in BlocksOf(w), i \in Offsets : Found(w, t, b, i)
      BY DEF Left
    <3>4. Busy(w)'
      BY <3>2, <3>3, FoundForms
    <3> QED
      BY <3>2, <3>4
  <2> QED
    BY <2>1, <2>3, LeftStays
<1> QED
  BY <1>2, <1>3, <1>4

(* The others disturb neither the tasks it found nor its scan. *)
LEMMA OthersLeft ==
  ASSUME Shape, OneCell, CallbacksInOrder, NEW w \in Workers, NEW v \in Workers, v # w,
         WorkerStep(v), Left(w)
  PROVE  Left(w)'
<1>1. snap \in [Workers -> SUBSET Tasks] /\ queue \in [Workers -> Seq(Blocks)]
      /\ ran \in [Tasks -> Seq(Callbacks)]
  BY DEF Shape, TypeOK
<1>2. ScanStays(w)
  BY WorkerScanOthers
<1>3. queue'[w] = queue[w] /\ snap'[w] = snap[w]
  <2>1. CASE Reset(v)
    BY <1>1, <2>1 DEF Reset
  <2>2. CASE ~Reset(v)
    BY <1>1, <2>2, WorkerData
  <2> QED
    BY <2>1, <2>2
<1>4. ASSUME NEW t \in Tasks, NEW b, NEW i, Holds(w, t, b, i)
      PROVE  ran'[t] = ran[t]
  <2>1. CASE Reset(v)
    BY <2>1 DEF Reset
  <2>2. CASE ~Reset(v)
    <3>1. CASE ran' = ran
      BY <3>1
    <3>2. ASSUME NEW u \in Tasks, NEW c \in Callbacks, ScanCalls(v, u, c)
          PROVE  ran'[t] = ran[t]
      <4>1. ran' = [ran EXCEPT ![u] = Append(@, c)] /\ wpc[v] \in InCell /\ u \in Cell(v)
        BY <3>2 DEF ScanCalls
      <4>2. Owns(u, v, rb[v], ro[v] + 1)
        BY <4>1, CellOwned DEF CallbacksInOrder
      <4>3. Owns(t, w, b, i)
        BY <1>4, HoldsOwns
      <4>4. PICK d, j : d = rb[v] /\ j = ro[v] + 1
        OBVIOUS
      <4>5. u # t
        BY <4>2, <4>3, <4>4 DEF OneCell
      <4> QED
        BY <1>1, <4>1, <4>5
    <3> QED
      BY <2>2, <3>1, <3>2, WorkerScan
  <2> QED
    BY <2>1, <2>2
<1>5. ASSUME NEW t \in snap[w], Busy(w)
      PROVE  /\ Busy(w)'
             /\ \A b, i : Holds(w, t, b, i) /\ Passed(w, t, b, i)
                            => Holds(w, t, b, i)' /\ Passed(w, t, b, i)'
  <2>1. t \in Tasks
    BY <1>1
  <2>2. Busy(w)'
    BY <1>2, <1>5 DEF ScanStays, Busy
  <2>3. ASSUME NEW b, NEW i, Holds(w, t, b, i), Passed(w, t, b, i)
        PROVE  Holds(w, t, b, i)' /\ Passed(w, t, b, i)'
    <3>1. ran'[t] = ran[t]
      BY <1>4, <2>1, <2>3
    <3>2. Passed(w, t, b, i)'
      BY <1>2, <2>3, <3>1, StayPassed
    <3>3. Holds(w, t, b, i)'
      BY <1>3, <2>3 DEF Holds, BlocksOf
    <3> QED
      BY <3>2, <3>3
  <2> QED
    BY <2>2, <2>3
<1> QED
  BY <1>3, <1>5, LeftStays

(* So every step leaves the snapshot to be found. *)
LEMMA NextSnapshot ==
  ASSUME IInv, CallsApart, CellsApart, CallbacksInOrder, SnapshotInOrder, [Next]_vars
  PROVE  SnapshotInOrder'
<1>1. Shape /\ OneCell
  BY ApartForms DEF IInv, Shape
<1>2. SUFFICES ASSUME NEW w \in Workers PROVE Left(w)'
  BY DEF SnapshotInOrder, Left, Busy
<1>3. Left(w)
  BY FoundForms
<1>4. snap \in [Workers -> SUBSET Tasks] /\ mi \in Workers
  BY <1>1 DEF Shape, TypeOK
<1>5. ASSUME NEW v \in Workers, WorkerStep(v) PROVE Left(w)'
  BY <1>1, <1>3, <1>5, WorkerLeft, OthersLeft
<1>6. ASSUME ran' = ran, snap' = snap, ~Reset(w), Busy(w) => ScanStays(w)
      PROVE  Left(w)'
  <2>1. ASSUME NEW t \in snap[w], Busy(w)
        PROVE  /\ Busy(w)'
               /\ \A b, i : Holds(w, t, b, i) /\ Passed(w, t, b, i)
                              => Holds(w, t, b, i)' /\ Passed(w, t, b, i)'
    <3>1. t \in Tasks
      BY <1>4
    <3>2. Busy(w)'
      BY <1>6, <2>1 DEF ScanStays, Busy
    <3>3. ASSUME NEW b, NEW i, Holds(w, t, b, i), Passed(w, t, b, i)
          PROVE  Holds(w, t, b, i)' /\ Passed(w, t, b, i)'
      <4>1. ran'[t] = ran[t]
        BY <1>6
      <4>2. Passed(w, t, b, i)'
        BY <1>6, <2>1, <3>3, <4>1, StayPassed
      <4>3. Holds(w, t, b, i)'
        BY <1>6, <2>1, <3>1, <3>3, NextHolds
      <4> QED
        BY <4>2, <4>3
    <3> QED
      BY <3>2, <3>3
  <2> QED
    BY <1>3, <1>6, <2>1, LeftStays
<1>7. CASE InitWorker
  <2>1. /\ UNCHANGED <<rb, ro, active, ran, snap>> /\ wpc[mi] = "null"
        /\ \A v \in Workers \ {mi} : wpc'[v] = wpc[v]
    BY <1>1, <1>7, InitWorkerFrame
  <2>2. Busy(w) => w # mi
    BY <2>1 DEF Busy, Scanning, InCell
  <2>3. Busy(w) => ScanStays(w)
    BY <2>1, <2>2 DEF ScanStays
  <2>4. CASE Reset(w)
    BY <1>5, <2>4 DEF WorkerStep
  <2> QED
    BY <1>6, <2>1, <2>3, <2>4
<1>8. CASE StartDestroy \/ DestroyStep \/ Terminating \/ UNCHANGED vars \/ Submit
           \/ \E a \in Callers : EnqueueStep(a)
  <2>1. UNCHANGED <<wpc, rb, ro, active, ran, snap>>
    BY <1>8 DEF StartDestroy, DestroyStep, SetShutdown, WakeToStop, AwaitAck, DestroyArena,
       DestroyNullArena, Join, SkipMissing, Terminating, vars, threadVars, historyVars, Submit,
       Enqueue, EnqueueRefused, EnqueueStep, AllocHere, AllocNextBlock, AllocNewBlock, TakeCell,
       AllocOutOfMemory, CopyBegin, CopyEnd, Post
  <2>2. CASE Reset(w)
    BY <1>5, <2>2 DEF WorkerStep
  <2> QED
    BY <1>6, <2>1, <2>2 DEF ScanStays
<1> QED
  BY <1>5, <1>7, <1>8 DEF Next

(* At first there is none. *)
LEMMA InitSnapshot == Init => SnapshotInOrder
BY InitNoCells DEF SnapshotInOrder

(* What the snapshot of a wake-up rests on. *)
InSnapshot == InOrder /\ SnapshotInOrder

(* It holds at first ... *)
LEMMA InitInSnapshot == Init => InSnapshot
BY InitInOrder, InitSnapshot DEF InSnapshot

(* ... and after each step. *)
LEMMA NextInSnapshot == InSnapshot /\ [Next]_vars => InSnapshot'
<1> SUFFICES ASSUME InSnapshot, [Next]_vars PROVE InSnapshot'
  OBVIOUS
<1>1. InOrder /\ IInv /\ CallsApart /\ CellsApart /\ CallbacksInOrder /\ SnapshotInOrder
  BY DEF InSnapshot, InOrder, Accounted
<1>2. InOrder'
  BY <1>1, NextInOrder
<1>3. SnapshotInOrder'
  BY <1>1, NextSnapshot
<1> QED
  BY <1>2, <1>3 DEF InSnapshot

(* No reset throws away a task that its wake-up had found and whose        *)
(* callbacks have not all been called (reactor.c:94): the cell keeps the   *)
(* task while the scan passes it, whoever enqueues meanwhile.              *)
THEOREM SnapshotIsRun == Spec => []SnapshotRuns
<1>1. InSnapshot => SnapshotRuns
  <2> SUFFICES ASSUME InSnapshot, NEW w \in Workers, wpc[w] = "reset", NEW t \in snap[w]
               PROVE  ran[t] = AllCalled
    BY DEF SnapshotRuns
  <2>1. PICK b \in BlocksOf(w), i \in Offsets : Found(w, t, b, i)
    BY DEF InSnapshot, SnapshotInOrder
  <2> QED
    BY <2>1 DEF Found
<1> QED
  BY <1>1, InitInSnapshot, NextInSnapshot, PTL DEF Spec

(* The whole of TaskInv. *)
THEOREM TaskInvariance == Spec => []TaskInv
<1>1. Ordered /\ SnapshotInOrder => TaskInv
  BY DEF Ordered, InOrder, Accounted, TaskInv
<1>2. Init => Ordered /\ SnapshotInOrder
  BY InitOrdered, InitSnapshot
<1>3. Ordered /\ SnapshotInOrder /\ [Next]_vars => (Ordered /\ SnapshotInOrder)'
  <2> SUFFICES ASSUME Ordered, SnapshotInOrder, [Next]_vars
               PROVE  Ordered' /\ SnapshotInOrder'
    OBVIOUS
  <2>1. IInv /\ CallsApart /\ CellsApart /\ CallbacksInOrder
    BY DEF Ordered, InOrder, Accounted
  <2> QED
    BY <2>1, NextOrdered, NextSnapshot
<1> QED
  BY <1>1, <1>2, <1>3, PTL DEF Spec
=============================================================================
