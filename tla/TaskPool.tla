------------------------------ MODULE TaskPool ------------------------------
(***************************************************************************)
(* What the thread pool of reactor.c promises to whoever calls enqueue():  *)
(* every task is taken by at most one worker, which runs it at most once,  *)
(* alone, and never before a task that was accepted earlier and that it    *)
(* has already run; a task may be lost, but a lost or finished task never  *)
(* comes back; and once the pool is closed nothing runs any more.          *)
(* It says nothing of when or whether an accepted task runs: the code does *)
(* not promise that.                                                       *)
(***************************************************************************)
EXTENDS Naturals, Sequences

CONSTANTS Workers,  \* the worker threads
          Tasks,    \* the tasks that callers may submit, each at most once
          NoTask    \* no task

VARIABLES fresh,    \* the tasks nobody has submitted yet
          pending,  \* per worker, the accepted tasks it may still run, oldest first
          active,   \* per worker, the task it is running
          closed    \* the pool has been destroyed

abstractVars == <<fresh, pending, active, closed>>

Init ==
  /\ fresh = Tasks
  /\ pending = [w \in Workers |-> << >>]
  /\ active = [w \in Workers |-> NoTask]
  /\ closed = FALSE

(* A caller's task joins a worker's queue ... *)
Accept(w, t) ==
  /\ ~closed
  /\ t \in fresh
  /\ fresh' = fresh \ {t}
  /\ pending' = [pending EXCEPT ![w] = Append(@, t)]
  /\ UNCHANGED <<active, closed>>

(* ... or is turned down. *)
Refuse(t) ==
  /\ t \in fresh
  /\ fresh' = fresh \ {t}
  /\ UNCHANGED <<pending, active, closed>>

(* A worker starts the i-th task of its queue; the ones before it are lost. *)
Start(w, i) ==
  /\ ~closed
  /\ active[w] = NoTask
  /\ active' = [active EXCEPT ![w] = pending[w][i]]
  /\ pending' = [pending EXCEPT ![w] = SubSeq(@, i + 1, Len(@))]
  /\ UNCHANGED <<fresh, closed>>

Finish(w) ==
  /\ active[w] # NoTask
  /\ active' = [active EXCEPT ![w] = NoTask]
  /\ UNCHANGED <<fresh, pending, closed>>

(* Everything a worker has queued is thrown away, but only between tasks.  *)
Lose(w) ==
  /\ active[w] = NoTask
  /\ pending' = [pending EXCEPT ![w] = << >>]
  /\ UNCHANGED <<fresh, active, closed>>

Close ==
  /\ \A w \in Workers : active[w] = NoTask /\ pending[w] = << >>
  /\ closed' = TRUE
  /\ UNCHANGED <<fresh, pending, active>>

Next ==
  \/ \E t \in Tasks : Refuse(t)
  \/ \E w \in Workers :
        \/ \E t \in Tasks : Accept(w, t)
        \/ \E i \in DOMAIN pending[w] : Start(w, i)
        \/ Finish(w)
        \/ Lose(w)
  \/ Close

PoolSpec == Init /\ [][Next]_abstractVars
=============================================================================
