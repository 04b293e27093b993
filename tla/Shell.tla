------------------------------- MODULE Shell -------------------------------
(***************************************************************************)
(* The shell of main.c: the main thread that reads the keyboard byte by    *)
(* byte (shell/src/core), shell_executer_spawn() and the read threads it   *)
(* starts (shell/src/runtime/executer.c), and the children with their      *)
(* ptys, which the kernel keeps (external).                                *)
(*                                                                         *)
(* A command stands for the pty opened for it, the child forked for it and *)
(* the read thread created for it: each has one of each at most.  All read *)
(* threads and the main thread share one shell_executer_t, no field of     *)
(* which is locked, so each access to a field is a step of its own.        *)
(*                                                                         *)
(* Left out: an Enter on a blank line, which prints a prompt and changes   *)
(* nothing; what the output buffer of the ui does (ShellUi); the           *)
(* on_output callback, which nobody calls; shell_executer_cleanup(), which *)
(* nobody calls either.                                                    *)
(***************************************************************************)
EXTENDS Integers, Sequences, FiniteSets

CONSTANTS
  Programs,  \* the external commands the user may enter, each once
  Builtins,  \* the built-in commands he may enter, each once
  None,      \* no command, no pty (-1), no pid (0)
  MaxOut,    \* how many chunks a program writes before it exits
  PtyCap,    \* how many chunks a pty holds
  LineSize,  \* SHELL_COMMAND_LINE_BUF_SIZE
  Faults     \* what may fail: "openpty", "fork", "thread"

ASSUME CommandsAssumption ==
  /\ IsFiniteSet(Programs) /\ IsFiniteSet(Builtins)
  /\ Programs \cap Builtins = {}
  /\ None \notin Programs \cup Builtins
ASSUME SizesAssumption ==
  MaxOut \in Nat /\ PtyCap \in Nat \ {0} /\ LineSize \in Nat \ {0}

Commands == Programs \cup Builtins
Ids == Commands \cup {None}

VARIABLES
  mpc,      \* where the main thread is
  cmd,      \* the command it is spawning
  len,      \* shell_t.command_line_len
  stop,     \* g_stop_required
  state,    \* shell_t.ctx.state
  master,   \* shell_executer_t.master_fd
  pid,      \* shell_executer_t.spawned_pid
  running,  \* shell_executer_t.is_thread_running
  slaves,   \* the slave descriptors the shell has open
  tpc,      \* per command, where its read thread is
  got,      \* per command, the chunk its read thread has read
  child,    \* per command, its child
  written,  \* per command, the chunks its child has written
  taken,    \* per command, the chunks read from its pty
  fresh,    \* history: the commands not entered yet
  failed,   \* history: the commands whose spawn failed
  shown,    \* history: per command, its chunks in the order they are shown
  prompts,  \* history: the prompts printed for commands
  ahead     \* history: a command was entered while another was running

inputVars   == <<len, stop>>
execVars    == <<master, pid, running, slaves>>
threadVars  == <<tpc, got>>
childVars   == <<child, written, taken>>
historyVars == <<fresh, failed, shown, prompts, ahead>>
vars == <<mpc, cmd, inputVars, state, execVars, threadVars, childVars, historyVars>>

Active == {c \in Commands : tpc[c] \notin {"none", "done"}}

(* Nothing of an earlier command is still going on. *)
Quiet == Active = {} /\ \A c \in Commands : child[c] # "running"

-----------------------------------------------------------------------------
(* The main thread: main(), shell_input_byte() and the callbacks.          *)

Reading == mpc = "read" /\ ~stop

TypeChar ==
  /\ Reading
  /\ len < LineSize - 1
  /\ len' = len + 1
  /\ UNCHANGED <<mpc, cmd, stop, state, execVars, threadVars, childVars, historyVars>>

Backspace ==
  /\ Reading
  /\ len > 0
  /\ len' = len - 1
  /\ UNCHANGED <<mpc, cmd, stop, state, execVars, threadVars, childVars, historyVars>>

EnterExit ==
  /\ Reading
  /\ len > 0
  /\ stop' = TRUE
  /\ UNCHANGED <<mpc, cmd, len, state, execVars, threadVars, childVars, historyVars>>

(* shell_executer_spawn() begins by storing SHELL_STATE_EXECUTING, but     *)
(* through a cast of the shell to its context: what it overwrites are the  *)
(* first bytes of the command line, which are cleared before they are read *)
(* again, and the state stays as it is.                                    *)
EnterCommand(c) ==
  /\ Reading
  /\ len > 0
  /\ c \in fresh
  /\ ahead' = (ahead \/ ~Quiet)
  /\ fresh' = fresh \ {c}
  /\ cmd' = c
  /\ mpc' = "open"
  /\ UNCHANGED <<inputVars, state, execVars, threadVars, childVars, failed,
                 shown, prompts>>

(* shell_cb_execute_default() after the spawn: the line is cleared. *)
BackToReading ==
  /\ mpc' = "read"
  /\ cmd' = None
  /\ len' = 0
  /\ UNCHANGED stop

OpenPty ==
  /\ mpc = "open"
  /\ master' = cmd
  /\ slaves' = slaves \cup {cmd}
  /\ mpc' = "lookup"
  /\ UNCHANGED <<cmd, inputVars, state, pid, running, threadVars, childVars, historyVars>>

(* The spawn ends early; no prompt is printed. *)
GiveUp ==
  /\ failed' = failed \cup {cmd}
  /\ BackToReading
  /\ UNCHANGED <<state, fresh, shown, prompts, ahead>>

OpenPtyFails ==
  /\ mpc = "open"
  /\ "openpty" \in Faults
  /\ GiveUp
  /\ UNCHANGED <<execVars, threadVars, childVars>>

(* Slip: the prompt is printed twice.                                      *)
PutPromptTwice(s) == prompts' = IF s = "idle" THEN prompts + 2 ELSE prompts

(* shell_ui_put_prompt() *)
PutPrompt(s) == prompts' = IF s = "idle" THEN prompts + 1 ELSE prompts

RunBuiltin ==
  /\ mpc = "lookup"
  /\ cmd \in Builtins
  /\ PutPrompt(state)
  /\ BackToReading
  /\ UNCHANGED <<state, execVars, threadVars, childVars, fresh, failed, shown, ahead>>

Fork ==
  /\ mpc = "lookup"
  /\ cmd \in Programs
  /\ child' = [child EXCEPT ![cmd] = "running"]
  /\ mpc' = "forked"
  /\ UNCHANGED <<cmd, inputVars, state, execVars, threadVars, written, taken, historyVars>>

ForkFails ==
  /\ mpc = "lookup"
  /\ cmd \in Programs
  /\ "fork" \in Faults
  /\ GiveUp
  /\ UNCHANGED <<execVars, threadVars, childVars>>

(* Slip: the pid is not kept.                                              *)
SetPidNot ==
  /\ mpc = "forked"
  /\ slaves' = slaves \ {cmd}
  /\ mpc' = "set_running"
  /\ UNCHANGED <<cmd, inputVars, state, master, pid, running, threadVars, childVars,
                 historyVars>>

SetPid ==
  /\ mpc = "forked"
  /\ pid' = cmd
  /\ slaves' = slaves \ {cmd}
  /\ mpc' = "set_running"
  /\ UNCHANGED <<cmd, inputVars, state, master, running, threadVars, childVars, historyVars>>

(* Slip: the flag of the read thread is forgotten.                         *)
SetRunningNot ==
  /\ mpc = "set_running"
  /\ mpc' = "thread"
  /\ UNCHANGED <<cmd, inputVars, state, execVars, threadVars, childVars, historyVars>>

SetRunning ==
  /\ mpc = "set_running"
  /\ running' = TRUE
  /\ mpc' = "thread"
  /\ UNCHANGED <<cmd, inputVars, state, master, pid, slaves, threadVars, childVars,
                 historyVars>>

StartThread ==
  /\ mpc = "thread"
  /\ tpc' = [tpc EXCEPT ![cmd] = "start"]
  /\ BackToReading
  /\ UNCHANGED <<state, execVars, got, childVars, historyVars>>

(* The result of pthread_create() is not looked at. *)
StartThreadFails ==
  /\ mpc = "thread"
  /\ "thread" \in Faults
  /\ GiveUp
  /\ UNCHANGED <<execVars, threadVars, childVars>>

Spawn ==
  \/ OpenPty
  \/ OpenPtyFails
  \/ RunBuiltin
  \/ Fork
  \/ ForkFails
  \/ SetPid
  \/ SetRunning
  \/ StartThread
  \/ StartThreadFails

(* The loop ends when the flag is set or the input has ended; the process  *)
(* ends, and its threads with it.                                          *)
Exit ==
  /\ mpc = "read"
  /\ stop
  /\ mpc' = "exited"
  /\ UNCHANGED <<cmd, inputVars, state, execVars, threadVars, childVars, historyVars>>

EndOfInput ==
  /\ Reading
  /\ mpc' = "exited"
  /\ UNCHANGED <<cmd, inputVars, state, execVars, threadVars, childVars, historyVars>>

-----------------------------------------------------------------------------
(* shell_executer_read_thread(), the thread that was created for c.        *)

GoTo(c, from, to) ==
  /\ mpc # "exited"
  /\ tpc[c] = from
  /\ tpc' = [tpc EXCEPT ![c] = to]

Start(c) ==
  /\ GoTo(c, "start", IF master = None THEN "done" ELSE "check")
  /\ UNCHANGED <<mpc, cmd, inputVars, state, execVars, got, childVars, historyVars>>

Check(c) ==
  /\ GoTo(c, "check", IF running THEN "poll" ELSE "finish")
  /\ UNCHANGED <<mpc, cmd, inputVars, state, execVars, got, childVars, historyVars>>

Unread(p) == taken[p] < written[p]

(* poll() says there is something to read, or it times out or the other    *)
(* end has hung up.                                                        *)
Poll(c) ==
  /\ GoTo(c, "poll", IF Unread(master) THEN "read" ELSE "wait")
  /\ UNCHANGED <<mpc, cmd, inputVars, state, execVars, got, childVars, historyVars>>

(* read() of master_fd, which may be another pty by now, or whose output   *)
(* another thread may have taken: then it blocks until something comes ... *)
Read(c) ==
  /\ Unread(master)
  /\ GoTo(c, "read", "dispatch")
  /\ taken' = [taken EXCEPT ![master] = @ + 1]
  /\ got' = [got EXCEPT ![c] = <<master, taken[master] + 1>>]
  /\ UNCHANGED <<mpc, cmd, inputVars, state, execVars, child, written, historyVars>>

(* ... or nobody has the other end open any more. *)
HungUp(p) == p \notin slaves /\ child[p] \in {"exited", "reaped"}

ReadFails(c) ==
  /\ ~Unread(master) /\ HungUp(master)
  /\ GoTo(c, "read", "finish")
  /\ UNCHANGED <<mpc, cmd, inputVars, state, execVars, got, childVars, historyVars>>

(* Slip: a chunk is dispatched twice.                                      *)
DispatchTwice(c) ==
  /\ GoTo(c, "dispatch", "wait")
  /\ shown' = [shown EXCEPT ![got[c][1]] = Append(Append(@, got[c][2]), got[c][2])]
  /\ got' = [got EXCEPT ![c] = << >>]
  /\ UNCHANGED <<mpc, cmd, inputVars, state, execVars, childVars, fresh, failed, prompts, ahead>>

Dispatch(c) ==
  /\ GoTo(c, "dispatch", "wait")
  /\ shown' = [shown EXCEPT ![got[c][1]] = Append(@, got[c][2])]
  /\ got' = [got EXCEPT ![c] = << >>]
  /\ UNCHANGED <<mpc, cmd, inputVars, state, execVars, childVars, fresh, failed, prompts, ahead>>

(* Slip: the thread goes on after it has waited for its child. *)
ReapAndGoOn(c) ==
  /\ child[pid] = "exited"
  /\ GoTo(c, "wait", "check")
  /\ child' = [child EXCEPT ![pid] = "reaped"]
  /\ UNCHANGED <<mpc, cmd, inputVars, state, execVars, got, written, taken, historyVars>>

(* waitpid(exec->spawned_pid, &status, WNOHANG) > 0 *)
Reap(c) ==
  /\ child[pid] = "exited"
  /\ GoTo(c, "wait", "clear")
  /\ child' = [child EXCEPT ![pid] = "reaped"]
  /\ UNCHANGED <<mpc, cmd, inputVars, state, execVars, got, written, taken, historyVars>>

NothingToReap(c) ==
  /\ child[pid] # "exited"
  /\ GoTo(c, "wait", "check")
  /\ UNCHANGED <<mpc, cmd, inputVars, state, execVars, got, childVars, historyVars>>

ClearRunning(c) ==
  /\ GoTo(c, "clear", "finish")
  /\ running' = FALSE
  /\ UNCHANGED <<mpc, cmd, inputVars, state, master, pid, slaves, got, childVars, historyVars>>

(* The state is set to idle, the buffer flushed and the prompt printed.    *)
Finish(c) ==
  /\ GoTo(c, "finish", "done")
  /\ state' = "idle"
  /\ PutPrompt("idle")
  /\ UNCHANGED <<mpc, cmd, inputVars, execVars, got, childVars, fresh, failed, shown, ahead>>

ReadThread(c) ==
  \/ Start(c)
  \/ Check(c)
  \/ Poll(c)
  \/ Read(c)
  \/ ReadFails(c)
  \/ Dispatch(c)
  \/ Reap(c)
  \/ NothingToReap(c)
  \/ ClearRunning(c)
  \/ Finish(c)

-----------------------------------------------------------------------------
(* The children (external): a program writes MaxOut chunks to its pty and  *)
(* exits, or exits at once when it cannot be executed.                     *)

Write(c) ==
  /\ mpc # "exited"
  /\ child[c] = "running"
  /\ written[c] < MaxOut
  /\ written[c] - taken[c] < PtyCap
  /\ written' = [written EXCEPT ![c] = @ + 1]
  /\ UNCHANGED <<mpc, cmd, inputVars, state, execVars, threadVars, child, taken, historyVars>>

ChildExit(c) ==
  /\ mpc # "exited"
  /\ child[c] = "running"
  /\ written[c] \in {0, MaxOut}
  /\ child' = [child EXCEPT ![c] = "exited"]
  /\ UNCHANGED <<mpc, cmd, inputVars, state, execVars, threadVars, written, taken, historyVars>>

Child(c) == Write(c) \/ ChildExit(c)

-----------------------------------------------------------------------------
Init ==
  /\ mpc = "read"
  /\ cmd = None
  /\ len = 0
  /\ stop = FALSE
  /\ state = "idle"
  /\ master = None
  /\ pid = None
  /\ running = FALSE
  /\ slaves = {}
  /\ tpc = [c \in Commands |-> "none"]
  /\ got = [c \in Commands |-> << >>]
  /\ child = [c \in Ids |-> "none"]
  /\ written = [c \in Ids |-> 0]
  /\ taken = [c \in Ids |-> 0]
  /\ fresh = Commands
  /\ failed = {}
  /\ shown = [c \in Commands |-> << >>]
  /\ prompts = 0
  /\ ahead = FALSE

Terminating == mpc = "exited" /\ UNCHANGED vars

Next ==
  \/ TypeChar
  \/ Backspace
  \/ EnterExit
  \/ \E c \in Commands : EnterCommand(c)
  \/ Spawn
  \/ Exit
  \/ EndOfInput
  \/ \E c \in Commands : ReadThread(c)
  \/ \E c \in Programs : Child(c)
  \/ Terminating

Spec == Init /\ [][Next]_vars

(* The threads are scheduled, and the programs write and exit; the user    *)
(* need not type anything.                                                 *)
FairSpec ==
  /\ Spec
  /\ WF_vars(Spawn) /\ WF_vars(Exit)
  /\ \A c \in Commands : WF_vars(ReadThread(c))
  /\ \A c \in Programs : WF_vars(Child(c))

-----------------------------------------------------------------------------
(* Properties.                                                             *)

SpawnSteps == {"open", "lookup", "forked", "set_running", "thread"}
ThreadSteps == {"none", "start", "check", "poll", "read", "dispatch", "wait",
                "clear", "finish", "done"}

(* The type of every variable; the line, its terminating null included,    *)
(* stays within its buffer.                                                *)
TypeOK ==
  /\ mpc \in SpawnSteps \cup {"read", "exited"}
  /\ cmd \in Ids
  /\ len \in 0 .. LineSize - 1
  /\ stop \in BOOLEAN
  /\ state \in {"idle", "executing"}
  /\ master \in Ids
  /\ pid \in Ids
  /\ running \in BOOLEAN
  /\ slaves \subseteq Commands
  /\ tpc \in [Commands -> ThreadSteps]
  /\ got \in [Commands -> {<< >>} \cup (Ids \X Nat)]
  /\ child \in [Ids -> {"none", "running", "exited", "reaped"}]
  /\ written \in [Ids -> 0 .. MaxOut]
  /\ taken \in [Ids -> 0 .. MaxOut]
  /\ fresh \subseteq Commands
  /\ failed \subseteq Commands
  /\ shown \in [Commands -> Seq(Nat)]
  /\ prompts \in Nat
  /\ ahead \in BOOLEAN

(* However commands overlap and fail, every command has had its prompt, or *)
(* is still being spawned, or has a read thread that will print it, or is  *)
(* one whose spawn failed, and none of them two of these.                  *)
PromptAccounting ==
  Cardinality(Commands \ fresh) =
    prompts + Cardinality(Active) + Cardinality(failed)
            + (IF mpc \in SpawnSteps THEN 1 ELSE 0)

(* What that rests on: the command being spawned is one that was entered,  *)
(* has no read thread and has not failed; a command not entered yet has    *)
(* none of it either; and a read thread always finds a pty.                *)
CommandsInOrder ==
  /\ mpc \in SpawnSteps => cmd \in Commands \ (fresh \cup failed) /\ tpc[cmd] = "none"
  /\ \A c \in fresh : tpc[c] = "none" /\ c \notin failed
  /\ mpc \in SpawnSteps \ {"open"} => master # None
  /\ \A c \in Commands : tpc[c] \notin {"none", "done"} => master # None

(* The state of the shell never changes, and a chunk that is dispatched    *)
(* has been read.                                                          *)
DataInOrder ==
  /\ state = "idle"
  /\ \A c \in Commands : tpc[c] = "dispatch" => got[c] \in Ids \X Nat

(* Together they are inductive (executer.c:30-118), for commands that may  *)
(* overlap.                                                                *)
ShellInv == TypeOK /\ CommandsInOrder /\ DataInOrder /\ PromptAccounting

(* As long as the user waits for one command before he enters the next,    *)
(* there is one read thread, and master_fd and spawned_pid are its own.    *)
OneReader ==
  ~ahead =>
    \A c \in Active :
      /\ Active = {c}
      /\ master = c /\ pid = c
      /\ mpc \in {"read", "exited"}

(* Then the output of a program is shown in order, nothing left out before *)
(* its end.                                                                *)
ShownInOrder ==
  ~ahead => \A c \in Commands : \A i \in DOMAIN shown[c] : shown[c][i] = i

(* Both rest on this: a spawn has no read thread beside it, and has left   *)
(* the descriptor and the pid of its own command; and what has been read   *)
(* from a pty has been shown, but for the chunk its thread is holding.     *)
OneAtATime ==
  ~ahead =>
    /\ mpc \in SpawnSteps => Active = {}
    /\ mpc \in SpawnSteps \ {"open"} => master = cmd
    /\ mpc \in {"set_running", "thread"} => pid = cmd
    /\ \A c \in Commands :
         IF tpc[c] = "dispatch"
         THEN got[c] = <<c, taken[c]>> /\ taken[c] = Len(shown[c]) + 1
         ELSE taken[c] = Len(shown[c])

(* Then every command is answered by its prompt, unless its spawn failed,  *)
(* or the shell exits.                                                     *)
PromptReturns ==
  \A c \in Commands :
    mpc = "open" /\ cmd = c ~>
      \/ ahead
      \/ mpc = "exited"
      \/ mpc = "read" /\ tpc[c] \in {"none", "done"}
         /\ prompts + Cardinality(failed) = Cardinality(Commands \ fresh)

(* executer.c:74 says of a spawn that it is "monitoring it with            *)
(* pthread(waitpid)": a child that has ended is waited for, unless its     *)
(* read thread could not be created.                                       *)
ChildIsReaped ==
  \A c \in Programs :
    child[c] = "exited" ~> child[c] = "reaped" \/ c \in failed \/ mpc = "exited"

(* As long as the user waits, that is so. *)
WaitedChildIsReaped ==
  \A c \in Programs :
    child[c] = "exited" ~>
      child[c] = "reaped" \/ c \in failed \/ mpc = "exited" \/ ahead
=============================================================================
