# ShapeQuake in TLA+

TLA+ models of ShapeQuake's own core logic, the TLC runs that check them on
small instances, and TLAPS proofs of the properties that matter most. Every
definition that models code is listed in `PROJECT.json` (`map`) with the lines
it stands for. Paths below are relative to the repository's root; the shared
core is its `src/` and `include/`.

## 1. Inventory

ShapeQuake is four programs over one C core.

| Part | State it keeps | Operations | Hard behaviour | What makes it correct |
|---|---|---|---|---|
| Thread pool, `src/reactor.c` | per worker: thread, semaphore, `shutdown`, an arena as task queue; per pool: `ack_sem` | `start_working()`, `enqueue()`, `init_worker()`, `destroy_workers()` | queue scanned without a lock while callers and callbacks append and the worker resets it; shutdown handshake | a task runs at most once, callbacks in order, never after the pool is gone; nothing is freed in use; shutdown ends |
| Pool life cycle, `src/reactor.c` | `pool_t`, its tables of workers and jobs, child processes, shared data | `init_mode_*()`, `init_job()`, process driver, `destroy_job()`, `destroy_pool()` | early returns when a step fails, modes that disable steps | what was set up is torn down, once, in an order that touches nothing freed |
| Arena, `src/allocator.c` | a chain of blocks with offsets and `is_wiped`, `current`, resource flags, a mutex | `arena_init/alloc/reset/shred/destroy`, setters, `arena_strdup` | reused blocks, blocks larger than the default, failed `malloc()` | memory handed out is disjoint, and gone memory is not reachable |
| Heap tracker, `src/heap.c` | a table of `MAX_HEAPS` pointers, two counters, a mutex | `heap_alloc/free/free_all`, `tracking_health`, `tracker_init` | index of the next slot, a mutex kept on failure, counters read unlocked | counters agree with what is live; table names only live memory |
| Shared zones, `src/vma.c` | a POSIX shared memory object with its header inside | create, attach, alloc, reset, unmap, destroy | several processes, a process that dies holding the mutex | allocations disjoint and inside the zone, nothing leaked, the name kept |
| Status, `src/status.c` | none | pack and unpack category, condition, code | field overlap | round trip |
| Shell: input, callbacks, built-ins, `main.c`, `shell/src/core` | command line buffer, built-in table, stop flag | one byte at a time | a command may be entered while another runs | every command is accounted for |
| Shell: executer, context, ui, `shell/src/runtime`, `shell/src/ui` | pty descriptors, child's pid, read thread, state, output buffer | spawn, read thread | main thread and read threads share all of it without a lock | output reaches the screen, one prompt per command, no descriptor lost |
| Shell: tokenizer, pipe, redirection, `shell/src/core/module` | token table, pipes, children | tokenize, pipeline, redirections | growth at a limit, a failed `fork()` in the middle | no token lost, the right arguments, no end of a pipe left open, all children waited for |
| Server, `server/src` | arena, tracker, sockets, epoll set, SQLite context | accept, receive a packet, reply, destroy | partial receives, several clients, one arena | packets read in step, only whole payloads logged, shutdown ends, nothing released twice |
| Terminal, `terminal/src` | pty, read thread | create, write, resize, destroy | close while the read thread blocks | never freed under its thread, output shown |
| X11 window, `ui/src`, `sq_error`, logging in `test/` | | drawing and printing | none | |

Interactions: the pool allocates `pool_t`, tables, workers and jobs from the
heap tracker and its queues from arenas; the shell and the terminal share the
pty idiom; the server keeps its data in one arena and one tracker.

## 2. Modules

| Module | Models | Rests on |
|---|---|---|
| `Reactor` | thread pool: `start_working()`, `enqueue()`, `init_worker()`, `destroy_workers()` and the arena as a queue | |
| `TaskPool` | abstract: what the thread pool promises a caller of `enqueue()` | implemented by `Reactor` (`KeepsPromises`) |
| `HeapTracker` | the heap tracker, both halves of each call | |
| `PoolLifecycle` | set-up and tear-down of whole pools over the tracker, with jobs | |
| `SharedData` | the two zones of shared data of a pool | |
| `Arena` | the allocator: blocks and requests of any size | |
| `Vma` | shared memory zones used by processes that may die | |
| `Status` | the status word and its fields | |
| `Shell` | main thread, read threads, executer, children and ptys | |
| `ShellUi` | the screen's buffer under two threads | |
| `CommandLine` | from a line to tokens, processes, pipes and redirections | |
| `Heredoc` | the here-document | |
| `Server` | the server's loop, the reception of packets, its clients | |
| `ServerContext` | what the server's context acquires and releases, storage included | |
| `Terminal` | the two users of a pty in `terminal/` | |
| `MCReactor`, `MCHeapTracker`, `MCShell`, `MCVma`, `MCServer` | symmetry sets, constant definitions and constraints for TLC | the module of that name |
| `MCParts` | the seven small parts side by side: a behaviour follows one of them and leaves the others in their initial states | `CommandLine`, `ServerContext`, `ShellUi`, `SharedData`, `Status`, `Terminal`, `Heredoc` |
| `ReactorProofs`, `HeapTrackerProofs`, `PoolLifecycleProofs`, `ShellProofs`, `ArenaProofs`, `VmaProofs`, `ServerProofs` | theorems | the module of that name |
| `PartsProofs` | theorems, and what they need of sequences and folds | `Status`, `Terminal`, `SharedData`, `ServerContext`, `ShellUi`, `CommandLine`, `Heredoc` |

Definitions named "Slip: ..." in a module (`AdvanceNowhere`, `SetPidNot`, ...)
are not part of its specification. Each is a plausible mistake in the
definition that follows it, and `PROJECT.json` (`mutants`) says which property
it breaks; so every property is known to depend on the code.

### Reactor

| Code | Model |
|---|---|
| `start_working()`, one thread per `worker_t` | `wpc[w]`; `WorkerStep(w)` is one action per access to shared memory: `SemWait`, `StartScan`, `SkipWiped`, `TakeTask`, `OnLoad`, `Execute`, `Return`, `OnExit`, `Advance`, `NextBlock`, `Reset`, `Ack` |
| `worker_t.sem`, `.shutdown`, `pool_t.ack_sem` | `sem`, `shutdown`, `ack` |
| `worker_t.local_queues`: blocks, offsets, `is_wiped`, contents | `queue[w]`, a sequence of blocks counted in tasks; `current`; a cell holds zeroes, a task, or a torn task |
| the scan's local block and offset | `rb`, `ro` |
| `enqueue()` by the owner or by a running callback | `call[a]`: `Enqueue`, `EnqueueRefused`, `AllocHere` / `AllocNextBlock` / `AllocNewBlock` / `AllocOutOfMemory` (under the arena's mutex), then the copy outside it (`WriteCell`, or `CopyBegin` and `CopyEnd` with a torn cell between), `Notify`, `Post` |
| `init_worker()`, `destroy_workers()` | `mpc`, `mi`: `InitWorker`, `StartDestroy`, `SetShutdown`, `WakeToStop`, `AwaitAck`, `DestroyArena`, `Join` |

What the arena's mutex protects is one step. The scan of the queue and the
copy of a task are outside the mutex, so they interleave with everything. A
failure the code handles or ignores is a nondeterministic outcome named in
`Faults`. `fresh`, `pending`, `active`, `ran`, `posted` and `snap` are history:
no guard of the code's steps reads them, except that each task is submitted
once.

### HeapTracker

`ptr`, `active`, `allocated` and the mutex are the code's; `live` is what
`malloc()` has given and `free()` not taken back. `heap_alloc()` and
`heap_free()` are two steps each (the call under the mutex, and its end) with
the unlocked read of `tracking_health()` interleaved. `HeapFreeAll` and
`TrackerInit` take no mutex, as in the code; the first, which no code calls, runs
only between calls.
`Extra` names the calls that only some runs have. `reactor.c`, as long as it
has one pool, frees everything before it allocates anything again: `mixed`
is true once a behaviour has done otherwise, and what holds of one pool at a
time is stated for behaviours where it is false. `calm[t]` is history too: no
other thread's call has overlapped the health check of `t`.

### PoolLifecycle

`op` is the owner's program counter in one of the `init_mode_*()` calls or in
`destroy_pool()`, and a `heap_alloc()` or `heap_free()` is one step, with the
tracker's slot, counter and kept mutex modelled as in `HeapTracker`. A pool's
configuration covers the three `init_mode_*()` functions, with and without an
epoll descriptor. A child process is `up`, `told` (SIGTERM), `ended` or
`reaped`. `waitpid()` blocks: `ReapJob` is enabled only when the child has
ended. `StopWorkers` is the shutdown handshake as one step; `Reactor` has all
of it.

### Shell

`mpc` is the main thread, which reads a byte or is inside
`shell_executer_spawn()`; `tpc[c]` is the read thread made for command `c`.
`master`, `pid` and `running` are `master_fd`, `spawned_pid` and
`is_thread_running` of the one `shell_executer_t` that all of them share
without a lock; each access is a step. A pty holds up to `PtyCap` chunks;
`read()` on a pty with nothing in it blocks until a chunk comes or everybody
has closed the other end. The user may enter a command while another runs,
which nothing in the code prevents: `ahead` is true from then on. A `read()` that
waits takes what comes on the pty that `master_fd` names by then, not on the one
it began with; the two differ only for a user who is ahead.

### Arena

A call holds the arena's mutex from its first access to its last, so it is one
step. Sizes are in the 16 bytes that `align()` rounds to; `Word` of them are more
than a `size_t` counts, so a sum may wrap, and `Ids` is the width of a block's
id. The caller's writes are steps (`Write`): `dirty` is memory that is not zero.
`is_wiped` is set by a shred and cleared by nothing; `allocator.h:52` calls such
a block zeroed, which it is only until it is used again.

### Vma

An object (`zone[z]`) holds its own descriptor, address, bounds and mutex, in
shared memory, as its creator wrote them; each process has its mappings, its
descriptors and the pointers its code still has. `vma_alloc()` is three steps
(lock, load, store and unlock), `vma_create()` one for each store that an early
user would notice. `Die` is possible at any of them. A robust mutex passes on
(`orphan`: the next owner is told and does not look; after it the mutex is of
no use and lock calls fail), a plain one is kept (`lost`). `hurt`, `guests` and
`twice` are history: a zone that lost its exclusion, the processes that
attached, a zone destroyed twice.

### SharedData

Who makes, fills and destroys the shared data is any caller: in the repository
only `destroy_pool()` does. `destroy_workers()` and `destroy_job()` are taken to do
their work: they return at once when `tracking_health()` fails (`reactor.c:600-601,
649-650`), which it does not while one pool at a time is made (`CountersAgree`). The zone's header is smaller than a slot and the
rack is as large as the whole zone, so `vma_alloc()` never has room for it and
`pool->shared_*_count` starts at what it was (`InitShared` keeps the condition).

### Status

A word is the set of its bits: `|` is union, `& ~` difference. The constants are
the enumerators in use; `FieldsAssumption` says that each is in its field.

### CommandLine and Heredoc

A line is a sequence of classes of characters, a token a position and a length.
`extract_pipe()` runs in a process of its own (it ends in `_exit()`); nothing in
the repository calls it or the here-document yet, only the tokenizer is called.
`pipe()`, `fork()`, `malloc()` and `open()` may fail wherever they are called.
The loop of `handle_redirection()` is a recursive function of its passes (`Redirect`).
A program ends once its input has, and once what it writes has a reader or
nobody can read it (`MayEnd`, external). In `Heredoc` the arena is the chain of
what its blocks hold, and a line is stored with what rounds it up. The buffer
that `sq_heredoc_read_all()` copies the blocks to has room for the text and a
null only: where what rounds the lines up does not fit, the copy runs over its
end (`overrun`), and nothing more is modelled. A failed allocation may leave no
arena or no delimiter (`crash`), no buffer (`null`), or the arena's lock kept
(`stuck`).

### ShellUi

Without optimisation, as `make` builds it, each load and store of
`static_buf_idx`, `static_write_buf` and `static_last_char` is an access of its
own and a step here (the `deploy` target of `shell/Makefile` says `-O2`, under
which a compiler may merge some of them). The main thread echoes what is typed and flushes after each
character; the read thread of one command dispatches its output, flushes once
and puts the prompt. Enter is not among the keys: it starts a command, which is
`Shell`'s. The memory behind the buffer is not followed.

### Server and ServerContext

`main()` of the server ends before its loop at this commit (`main.c:28-31`); the
loop below is what `Server` models. A header is two units, its magic and its
`payload_size`, a payload none, one or two, and a client sends, stops or leaves
between any two. A payload may follow a wrong magic as well as a right one; the
server then leaves it in the stream, with the connection open (`net.c:243-251`),
and takes it for the next header: `astray` is the history of the clients to whom
that has happened, or whose payload had no memory. A header read in the middle of
a payload may announce anything (`Announced`). `last` is `ev.data.fd`, the
descriptor accepted last, which the code serves whichever descriptor the event
is of. `up` says how the loop came to an end: `done`, or in `recv()` for ever
(`spin`), in the arena's lock (`stuck`), or past `free()` of memory of the arena
(`undefined`), of which nothing more is modelled. `ServerContext` is about
ownership: what is there (`held`), which booleans say so (`flags`), what can no
longer be released (`lost`) and what was released twice or used after
(`misuse`), when the functions are called in any order.

### Terminal

`sq_terminal_t` (read thread, `sq_terminal_destroy()`) and the poll loop of
`main()`, each with its pty and program. A `read()` that has begun goes on when
its descriptor is closed under it. A pty takes `KeyCap` keys that its program has
not read; the write of another waits (`Stalled`), and fails once the program has
ended. The end of the program alone is `POLLHUP`, which the loop does not look at.

## 3. Runs

| Run | Question | Bounds, and why they are enough |
|---|---|---|
| `Reactor_one` | does a wake-up run what it finds, is a wake-up ever lost, is `TaskPool` implemented? | 1 worker, 4 tasks that may enqueue each other, blocks of 1, every failure: a block fills, a second one is made, both are reset and used again |
| `Reactor_live` | is anything freed in use, is every acknowledgement accounted for, when does `destroy_workers()` return, does a notified task leave its queue? Is `TaskInv`, which the proofs rest on, an invariant, and do callbacks stay in order? | 2 workers, 2 tasks, blocks of 1, every failure: a second task needs a new block, which may keep the queue's mutex; one worker fails and the other does not, and callbacks of each enqueue to the other during shutdown; `FairSpec`. Blocks of more than one task are the proofs' |
| `Heap_one_pool` | does the table name freed memory? With one pool at a time, are the counters right, can everything be freed, does the health check pass, is the mutex released? | 2 threads and 3 objects over 3 slots, freed in any order, `tracker_init()` and `heap_free_all()` at any time; `FairSpec` |
| `Pool_teardown` | does a failed set-up or a tear-down leave anything, is anything freed in use, does `destroy_pool()` return? | 2 pools in turn, up to 2 workers and 2 jobs, 6 slots against the 7 or more a full pool needs: the table may be too small; `FairSpec` |
| `Shell_commands` | is each command accounted for, overlapping or not? If the user waits: one reader on its own pty, output in order, each prompt back, each child waited for? | 2 programs and a built-in, 2 chunks through a pty of 1, every failure; `FairSpec` |
| `Arena_memory` | is memory handed out disjoint, inside its block, zero? Which sums wrap? | blocks of 1 unit, up to 3; requests of 1, 2, 4 and 5 with `Word` = 5: exact fits, larger blocks, sums that wrap; 2 ids for 3 blocks |
| `Vma_processes` | is memory of a zone handed out twice, by any processes, and what breaks that? What do they leak, of what do they die, who has the name? | 2 processes, 2 objects under one name, 2 descriptors and addresses each; 2 units, so that a zone fills. Constraint `Promised`: a behaviour is not followed past the first state that breaks a premise |
| `Server_clients` | what is read and logged, what is closed, when does the loop end? | 2 clients and descriptors, a descriptor used again, plans with payloads of both sizes, behind a right and a wrong magic, and two packets; batches of 2 |
| `Parts` | see below | |

`Parts` checks seven parts in one state space:

| Part | Question | Bounds |
|---|---|---|
| `CommandLine` | are the tokens the words, has the null room, does each program get its arguments, does the manager end, having waited for all? | all lines up to 3 characters and 5 longer ones with up to 3 commands; a table of 2, so that it grows |
| `ServerContext` | what is lost, what is released twice, are the booleans true? | none but one context: its flags and what there is are finite |
| `ShellUi` | is what is shown what was dispatched? Does anything stay in the buffer? | a buffer of 4 with a margin of 2, up to 2 keys against up to 4 characters: it is written out in the middle |
| `SharedData` | what is left of a pool's zones, and what goes too early? | 3 slots, 3 zones |
| `Status` | does a field keep its value? | 2 enumerators a field, one with its highest bit |
| `Terminal` | is a terminal freed under its thread, does the thread end, is output shown, and what does `main()` do after its program? | 2 pieces of output and 1 key in the pty |
| `Heredoc` | are the lines copied, when over the end of the buffer, and when is the text what it was? | 3 lines of up to 4, alignment 3, so that 0, 1 and 2 cells fill a line up; blocks of 6 |

Runs that find a statement of the repository violated (`findings` in
`PROJECT.json` quotes each):

| Run | What the code does |
|---|---|
| `Reactor_reset` | a worker resets its queue after one pass, and drops tasks that were notified meanwhile |
| `Heap_pools` | the next slot is a count: with a second pool the pointer of a live object is overwritten |
| `Shell_overlap` | a second command overwrites what the first one's read thread uses, and a child is never waited for |

A run checks one definition for each question. `HeapInv`, `PoolInv`, `ShellInv`,
`ArenaInv`, `VmaInv` and `ServerInv` are a component's type invariant with the
invariants that hold without any condition; `CountersAgree` (`Counted`,
`FreeFindsIt`, `HealthNeverFatal`), `TearDownIsClean` (`NothingLeft`,
`FreesSucceed`), `LineIsUnderstood`, `ContextIsKept`, `SharedIsKept`,
`TextComesBack`, `LastIsServed` and `TerminalMovesOn` join named parts that say
one thing of the code together; each part is stated and commented in its module.

Some properties name a case in which the code does less than one would expect,
and hold with that case excepted:

- `ShutdownCompletes` is exact: `destroy_workers()` returns if, and only if, the
  pool is `Whole`. A `worker_t` whose `pthread_create()` failed gives no
  acknowledgement, for which it waits for ever (`reactor.c:613`); a `malloc()` that
  failed in `arena_alloc()` keeps the queue's mutex (`allocator.c:108-111`), for
  which the worker's reset and `arena_destroy()` wait; and a `worker_t` without an
  arena is read through a null pointer (`reactor.c:624`).
  `PostedTaskLeavesQueue` excepts a worker that one of these holds (`Held`) and,
  once it has been told to stop, a pool that is not `Whole`. That nothing is freed
  in use holds with all of them.
- `NothingLeft` excepts `Left`: `destroy_job()` (`reactor.c:647`) does nothing for
  a pool without an epoll descriptor, which may have jobs.
- `WaitedChildIsReaped` (and `ChildIsReaped`, which `Shell_overlap` finds
  violated) excepts a command whose spawn failed; `PromptReturns` counts a failed
  spawn, after which no prompt is printed.
- `NoOverlap` of `Vma` excepts a zone that was used before it was ready
  (`vma.c:79-83`), that was reset during a call (`vma.c:119-129`) or whose lock
  was passed by; `UnlockedNeedsDeath` says what it takes for the last.
- `OnlyGuestsFault` excepts processes that called `vma_attach()`, which are given
  the creator's address and descriptor (`vma.c:134-136`).
- `NameUntilDestroyed` needs that no zone is destroyed twice (`vma.c:157`).
- `StoredStays` excepts the one slot that `pool->shared_*_count` does not show
  after a zone was destroyed (`reactor.c:582, 593`); `UnusedZonesGo` the job data of
  a pure thread pool and a zone dropped for another.
- `OnlyTheseAreLost` and `MisuseNeedsClose` list what the server's context does
  lose and release twice.
- `InStep` and `LoggedWhole` say nothing of a client once a payload of it was left
  unread, behind a wrong magic (`net.c:243-251`) or for want of memory
  (`net.c:274`); `ShutdownEnds` needs that the server does not wait for a silent client.
- `HangupEndsReader` excepts a terminal whose `pthread_create()` failed:
  `sq_terminal_destroy()` joins a thread that was never made.
- `ManagerEnds` excepts, in what it says of the children, a manager whose `pipe()` failed (`pipe.c:32-35`).
- `OutputIsShown` excepts the time in which `main()` waits in the write of a key
  (`main.c:41`); `MainOutlivesChild` states what `main()` does where its comment says
  otherwise: it does not exit when its program does (`main.c:49`), but polls on
  without a pause.
- `OverrunIfPadded` and `TextIfAligned` are exact: the copy of a here-document runs
  over its buffer if, and only if, more than one byte rounds up its lines, that of
  the last line included (`redirect.c:104, 111`); where it fits, what is returned is
  the text if every line but the last has a length that is a multiple of 16, and
  only then.

Facts about the code that the models contain and no property singles out: a
block handed out again stays marked `is_wiped` (`allocator.c:121`) and is
skipped by the scan (one of the ways `Reactor_reset` loses a task);
`worker_count` may be 96 while the tracker has 20 slots, and a pool too large for
it comes back with workers missing (`InitWorkerFails`); the state of the shell is
stored through a wrong cast and never says a command is running
(`EnterCommand`), which `RunBuiltin` relies on to print its prompt; the child of
a terminal is waited for by nobody; a second client's data waits until
it is the last accepted (`LastIsRead` promises no more).

`CHECK_DEADLOCK FALSE` is set where the code does stop: after a fault that ends
or blocks the process (a kept mutex, `process_spawn()`'s `_exit()`, the wait for
a thread that does not exist, a process that is killed), after a program's own
end (`extract_pipe()`'s `_exit()`, `main()`'s return), or when every object, pool
or zone of the bounded instance has been used.

**Fairness.** Weak fairness of each thread's own steps: the operating system
schedules every thread, mutexes are held for a bounded number of steps, and
`execute` callbacks return. The owner need not submit a task, destroy a pool,
or make another heap call; the user need not type. In `Shell` the programs
write and exit, in `PoolLifecycle` a child that got SIGTERM ends, in
`CommandLine` the children run and end when `MayEnd` allows it. In `Server` only
the server is fair (`Serve`), its clients need not send or leave; in
`Terminal` only the threads are, the program and the user need not do anything. No
strong fairness is used: where a semaphore or a blocking `read()` or `waitpid()`
is waited for, one thread waits and nobody takes what it waits for.

## 4. Proofs

For every value of the constants allowed by the modules' assumptions:

| Theorem | States |
|---|---|
| `ReactorProofs!Invariance` | `IInv` always holds |
| `TypeCorrect`, `AcksAccounted`, `ScanIsInBounds` | its conjuncts |
| `DestroyIsSafe` | `NoUseAfterDestroy` |
| `NoTaskIsStranded` | `NoStrandedTask` |
| `CallbacksOnceInOrder` | `InOrderAtMostOnce` |
| `SnapshotIsRun` | `SnapshotRuns` |
| `PoolKeepsPromises` | `KeepsPromises`: each step of `Reactor` is one of `TaskPool` or a stutter |
| `TaskInvariance` | `TaskInv`, which the last four rest on |
| `HeapTrackerProofs!HeapInvariance`, `HeapTypes` | `HeapInv`; the table's index stays within it |
| `NoSlotDangles` | the table names only live memory, each object once |
| `ActiveCounts` | `active` is the number of live objects when `heap_free_all()` is not called |
| `CountersAreRight` | `CountersAgree` |
| `PoolLifecycleProofs!PoolInvariance`, `PoolTypes` | `PoolInv`; the loops stay within their tables |
| `ThreadsAreSafe` | its conjunct `ThreadsUseLive` |
| `NothingIsLeft` | `TearDownIsClean`, given `OnePool` |
| `ShellProofs!ShellInvariance`, `ShellTypes` | `ShellInv`; the line stays within its buffer |
| `PromptsAccounted` | its conjunct `PromptAccounting` |
| `OneReaderAtATime`, `OutputInOrder` | `OneReader`, `ShownInOrder` |
| `ArenaProofs!ArenaHolds`, `ArenaTypes` | `ArenaInv`, for blocks and requests of any size |
| `AllocsDisjoint`, `FreshMemoryIsZero` | its conjuncts `NoOverlap`, `FreshIsZero` |
| `SumsAreSafe` | `WrapNeedsHuge` |
| `VmaProofs!VmaInvariance` | `VmaInv`, with its conjuncts `OnlyGuestsFault` and `NothingLeaks` |
| `Exclusion`, `LockLosses`, `NameKeeps` | `NoOverlap`, `UnlockedNeedsDeath`, `NameUntilDestroyed` |
| `ServerProofs!ServerInvariance` | `ServerInv`, with its conjuncts `LoggedWhole` and `InStep` |
| `OneClientIsSafe` | `SpinNeedsTwo` |
| `PartsProofs!StatusFields` | `FieldsKeepTheirValue` |
| `TerminalIsSafe` | `FreedUnread` |
| `SharedInvariance`, `SharedHolds` | `CountInv`, and `SharedIsKept` from it |
| `ContextInvariance`, `ContextHolds` | `ContextInv`, and `ContextIsKept` from it |
| `BufferDrains`, `OutputIsExact` | `NothingStaysBuffered`, `ExactAlone` |
| `EndsHold`, `LineHolds` | `EndsArePrivate`, `LineIsUnderstood` |
| `HeredocComesBack` | `TextComesBack` |

**Reactor.** The invariants are stacked. `NoUseAfterDestroy` is not inductive:
nothing in it says why all threads have ended when the first queue is freed.
`IInv` adds it. `AckAccounting` says the acknowledgements taken by the owner and
those left in `ack_sem` are together exactly the threads that have ended; in
`free` the owner has taken one for each `worker_t`, so all have ended
(`AcksAllTaken`, `FreedAfterAcks`). `CallsInOrder` says an `enqueue()` in flight
belongs to an owner in `run` or to a worker inside its callback, so none is left
by then. `OwnerInOrder` and `QueuesInOrder` keep the owner's loop index and the
blocks after `current` in order, which `ScanInBounds` needs: a scan follows the
chain without a lock, and is in a block that exists, before its offset. The
proof of a step has one lemma for each action (`...Shape`), and the
acknowledgements, which need cardinalities, are proved apart (`WorkerAcks`,
`OwnerAcks`).

`Accounted` adds where a task is: in no two calls at once (`CallsApart`), and
waiting only in the queue its `enqueue()` put it in (`WaitsWhereSent`); then
`WakeUpsCount` is inductive and is `NoStrandedTask` for a worker about to sleep.
`InOrder` adds what each cell holds while it is copied, read, wiped and reused:
a cell that no reset has marked belongs to one task, and a task to one such
cell, counted from `arena_alloc()` on (`CellsApart`); the callbacks that have
been called are those the scan has come to (`CallbacksInOrder`). A copy that is
torn ends in a marked block, which the scan passes by: so a task runs at most
once and its callbacks in order, although nothing locks the scan. `Ordered` adds
that the tasks ahead of the scan wait, in the order of their cells
(`PendingInOrder`), and that a queue that is gone has none (`DestroyedInOrder`);
with it each step is one of `TaskPool`'s, or none, under the mapping of
`Reactor` (`CallerPromises`, `WorkerPromises`, `OwnerPromises`).
`SnapshotInOrder` follows the tasks a wake-up has found through the scan, which
is why a reset drops none of those. `TaskInv` is all of these; `Reactor_live`
checks it (with the four tasks of `Reactor_one` it takes too long to evaluate).

**HeapTracker.** `NoDanglingSlot` needs `CallsExclusive`: a call under way has
the mutex and an object nobody else has, so `FreeBegin` clears the only slot
that names it. `ActiveCounts` is about runs without `heap_free_all()`, which
sets the counter while memory whose pointer was lost is still live.
`CountersAgree` becomes inductive with `Counting`: as long as objects are only
added they fill the table from its start, and a call under way is one size away
from the count. A sum over the live objects is a cardinality: `Units` is the set
of all the pairs of an object and one of its units, so one object more or less
changes it by that object's units (`UnitsCome`, `UnitsGo`). An undisturbed
health check (`calm`, a history variable) sees both counters rest; one that
another thread's call overlaps may fail, and the property says so.

**PoolLifecycle.** `ThreadsUseLive` becomes inductive with `OpInOrder` (the
call's pool and loop index) and `ThreadsInOrder`: no thread of a pool runs
before its first `init_worker()` or once the handshake is over, and until the
last `init_worker()` the pool and its table are live. A step then frees either
something of a pool without threads or something no thread uses, and the lemmas
about `HeapAlloc` and `HeapFree` (`AllocType`, `FreeType`) say that only that is
lost, also when the tracker cannot find it. The result holds for any number of
pools at once.

`TearDownIsClean` is about an owner who makes a pool only when no other is there
(`OnePool`), which is how the programs of the repository use it; without it (three
pools, the third made after the first is destroyed) frees do fail.
`CleanInv` says, for each step the one call under way can be at (`Phase`), which
of the pool's parts are live, which children have not been waited for and which
threads run (`PartsInOrder`); that only one pool is in play (`OneInPlay`); and
that the tracker names every part of it, each slot from the count on being empty
or of a pool that has gone (`PartsTracked`). The last is why no `heap_free()`
keeps the mutex, and a freed pool leaves nothing but what `Left` names.

**Shell.** `PromptAccounting` needs `CommandsInOrder`: the command being spawned
has no read thread yet and is not among the failed ones, so no step counts it
twice; and a read thread always finds a pty, so its loop is never skipped. It
needs `DataInOrder` as well: the state stays idle, which is why a built-in
prints its prompt at all. Cardinalities change by one at a time (`OneMore`). For
a user who waits, `OneReader` and `ShownInOrder` need `OneAtATime`: a spawn has
no read thread beside it, the descriptor and the pid are its command's from the
moment each is stored, and what has been read from a pty has been shown, but for
the chunk its thread holds. The three are inductive together (`Orderly`).

**Arena.** `ArenaInv` is `NoOverlap` and `FreshIsZero` with what they rest on.
`arena_alloc()` rewinds every block it goes over to offset 0
(`allocator.c:104`), which is only safe because nothing is handed out behind the
current block: `ChainInOrder` says the blocks behind it have offset 0, and
`AllocsInOrder` that what is handed out lies before its block's offset. Each of
the calls keeps them: a shred of one block takes back what is in that block
only. A lemma (`GiveInv`) covers the three ways memory is given, another the
shreds.

**Vma.** `VmaInv` is inductive as it stands. `CallsInOrder` and `MakersInOrder`
say which handles a process may have in each of its calls and what it has stored
of a zone it makes; `OwnersKnow` that a process that did not attach has, for
each zone it has mapped, the address and the descriptor the zone itself names,
which is why `vma_destroy()`, which reads them from shared memory, unmaps and
closes what is its own (`NothingLeaks`) and never touches memory it has not
(`OnlyGuestsFault`). `LocksInOrder` says when a mutex is gone or lost.
`Exclusive`, of a zone that is still whole, says that whoever is in a call on it
has its mutex and the offset it has read is the zone's, and that what was handed
out lies between the header and the offset: `NoOverlap`. The proofs cover any
number of processes and zones, of which any may die at any step. The assumption
`"free" \notin Procs` only keeps the names of the mutex's states apart from
those of processes.

**Server.** What is inductive is `IInv`: `ServerInv` without `InStep`, which
follows (`InStepFollows`). `Aligned` says that what a client has still to be
read from begins where the server expects it to, a header, the size or the data
of a payload, until a payload of that client was left unread (`astray`); `ClientsApart` that no two
clients have the same descriptor; `EventsFit` that with one client the batch of
events names what `last` does. The clients' `Plans` are any sequences of
packets (`PlansAssumption`), each with a right or a wrong magic and any payload,
sent in pieces of any length; the cut may be anywhere.

**Parts.** A status word is the union of its fields (`WordInv`), whose masks are
disjoint. A terminal that is joined has a closed descriptor, and a thread is
there only with one (`ReaderInv`). The count of a zone is at least what was
stored in it, less one after the count was set to none, and no more than that
unless a zone was dropped for another (`CountInv`): the first half is why
nothing stored goes, the second why what was not used does. In `ServerContext`,
whatever is used or released is there unless one of the two functions of
`storage.c` has been called, and whatever a context of `sq_server_create()`
holds has its flag, so that `sq_server_destroy()` finds it (`ContextInv`). In
`ShellUi`, while the index is not 0 one of the threads is on its way to a flush
(`UiInv`): a thread that puts back a stale index after the other's flush has its
own still to come. In `CommandLine`, the manager holds one read end between two
commands (`ManagerInOrder`), so a child is forked with that and with both ends
of the pipe behind it, and closes what it does not use (`KidInOrder`); what
redirection does with the rest does not matter. The tokenizer is always between
two runs and has all that lie before it (`TokensInOrder`); that a word has an
end at all is the least-number principle (`LeastOf`).

Three of the parts' properties say what a loop over data of any length gives.
The prover cannot instantiate an induction scheme, but it can take the least
number outside a set: `AllOf` is induction over a set of numbers, and from it
`Iterates` says that a recursive function has values, `FlattenIs` and
`FlattenAppend` what `FlattenSeq` does with one sequence more. With these:

- `ExactAlone` needs `AloneInv`: as long as no call begins during another, what
  is shown, what is in the buffer (`Unshown`) and what the call under way has
  still to put there (`Pending`) are together what was dispatched, with the carriage
  returns that go in front of it (`RenderedAppend`: one character more), and the
  index stays so far from the end that `\r\n` has room.
- `TextComesBack` needs `StoredInv`: without what rounds the lines up, the blocks
  hold the lines, and they are longer by just that (`FillsAppend`), which says when
  the buffer is too small; as they are they hold the lines exactly if all but the
  last are aligned, and else the result has something of the padding in it.
- `LineIsUnderstood` needs `LineInv`: the manager has started as many commands as
  there are bars before the one that begins (`ManagerSays`, `NextBar`), and each
  has what is between its two bars or, once it has run `handle_redirection()`,
  what is left of that (`KidSays`). `RedirectIs` says what is left: after n passes
  the loop has looked at n arguments or all of them, those that stay lie before
  its index and the rest of the line behind (`LookedAt`, `PassGoes`), so operators
  may follow each other or end the line.

For these the properties say what they say without operators that have no
definition in the prover: `Unpadded` drops the padding with a fold, `Arguments`
takes the arguments whose role (`Roles`) is to be left, and the k-th command is
between the bars with k and k + 1 bars up to them (`BarsTo`). `UiAssumption` says
that Enter is not among the keys, which `Shell` models.

**Only model-checked.** Liveness and fairness, which are out of the prover's
reach: `ShutdownCompletes`, `PostedTaskLeavesQueue`, `LockReleased`,
`PromptReturns`, `WaitedChildIsReaped`, `DestroyReturns`, `ShutdownEnds`,
`LastIsServed`, `ManagerEnds` and `TerminalMovesOn`. Every invariant and action
property that a run checks is proved.

## 5. What is not modelled, and the plan

Not modelled: drawing in X11 (`ui/`), logging (`test/`, `sq_error`), the body of
SQLite, `resolve_path()` and the build scripts, which are input and output
without state of their own; `parser.c`, the interceptor, the shell's connection
to the server and the rest of the process driver, which nothing calls or whose
body is commented out; the characters of the command line and `cd`;
`get_shared_task_slot()` and `get_shared_job_slot()`, which compute an address.
`PROJECT.json` (`components`, `hazards`) lists the parts and the hazards.

Four oddities of the code have no property of their own, because what happens then
is undefined or seen by nobody: `init_mode_threading()` in its error path destroys the pool's
semaphore after the pool is freed (`reactor.c:341`); a payload that is complete is
passed to `free()` though it lies in an arena (`net.c:289`, the state `undefined`
of `Server`); a read thread of the terminal that was never made is joined
(`terminal.c:50, 69`); and the copy of a here-document over the end of its buffer
(`redirect.c:111`), of which `OverrunIfPadded` says when it happens.

Next, in this order:

1. What is shown when the two threads' calls of `ShellUi` overlap, beyond that
   nothing stays in the buffer.
2. What pools with jobs and no epoll descriptor leave, exactly.
