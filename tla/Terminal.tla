------------------------------- MODULE Terminal -------------------------------
(***************************************************************************)
(* The two users of a pseudo terminal in terminal/src: sq_terminal_t of    *)
(* terminal.c, whose read thread races with sq_terminal_destroy(), and     *)
(* sq_pty_t, pty/sq_pty.c, with the loop of main.c that polls it.          *)
(***************************************************************************)
EXTENDS Naturals

CONSTANTS
  PtyCap, \* bound: how many pieces of output the pty holds
  KeyCap  \* bound: how many keys that the program has not read

VARIABLES
  term,    \* "none"; "made", "joining", "freed": a sq_terminal_t;
           \* "poll", "ready", "ended": main()
  master,  \* pty_master, or fd of the sq_pty_t: "none", "open", "closed"
  running, \* is_running
  reader,  \* the read thread: "none", "check", "call", "blocked", "ended"
  child,   \* "none", "runs", "ended"
  output,  \* what is in the pty
  input,   \* how many keys are
  revents, \* what poll() said: "key", "output"
  stdin,   \* "quiet", "key", "eof": whether poll() finds stdin readable
  unmade   \* history: pthread_create() failed

terminalVars ==
  <<term, master, running, reader, child, output, input, revents, stdin, unmade>>

-----------------------------------------------------------------------------
(* The program behind the pty: nobody but the user tells it to end.        *)

ChildWrites ==
  /\ child = "runs" /\ output < PtyCap /\ output' = output + 1
  /\ UNCHANGED <<term, master, running, reader, child, input, revents, stdin, unmade>>

ChildExits ==
  /\ child = "runs" /\ child' = "ended"
  /\ UNCHANGED <<term, master, running, reader, output, input, revents, stdin, unmade>>

ChildReads ==
  /\ child = "runs" /\ input > 0 /\ input' = input - 1
  /\ UNCHANGED <<term, master, running, reader, child, output, revents, stdin, unmade>>

(* What write() of a key does: it waits for room until the program reads   *)
(* or ends, and then fails, which nobody looks at.                         *)
Writes == input < KeyCap \/ child = "ended"
Written == IF child = "ended" THEN input ELSE input + 1

-----------------------------------------------------------------------------
(* sq_terminal_create().                                                   *)
CreateTerminal ==
  /\ term = "none"
  /\ term' = "made" /\ running' = TRUE
  /\ UNCHANGED <<master, reader, child, output, input, revents, stdin, unmade>>

(* sq_terminal_spawn(): forkpty(), which leaves pty_master alone when it   *)
(* fails, and pthread_create().                                            *)
SpawnTerminal(thread) ==
  /\ term = "made" /\ master = "none"
  /\ master' = "open" /\ child' = "runs"
  /\ reader' = IF thread THEN "check" ELSE "none"
  /\ unmade' = ~thread
  /\ UNCHANGED <<term, running, output, input, revents, stdin>>

(* sq_terminal_write_byte().                                               *)
WriteByte ==
  /\ term = "made" /\ master = "open" /\ Writes
  /\ input' = Written
  /\ UNCHANGED <<term, master, running, reader, child, output, revents, stdin, unmade>>

(* pty_read_thread().  A read() that has begun goes on when another thread *)
(* closes its descriptor; one that begins after that fails.                *)
ReaderChecks ==
  /\ reader = "check"
  /\ reader' = IF running THEN "call" ELSE "ended"
  /\ UNCHANGED <<term, master, running, child, output, input, revents, stdin, unmade>>

ReaderCalls ==
  /\ reader = "call"
  /\ reader' = "blocked"
  /\ master = "open"
  /\ UNCHANGED <<term, master, running, child, output, input, revents, stdin, unmade>>

(* Slip: an error of read() is tried again. *)
AfterErrorAgain == [reader |-> "check", running |-> running]

AfterError == [reader |-> "ended", running |-> FALSE]

ReaderFails ==
  /\ \/ reader = "call" /\ master = "closed"
     \/ reader = "blocked" /\ child = "ended" /\ output = 0
  /\ reader' = AfterError.reader /\ running' = AfterError.running
  /\ UNCHANGED <<term, master, child, output, input, revents, stdin, unmade>>

(* The output goes to the virtual terminal.                                *)
ReaderReads ==
  /\ reader = "blocked" /\ output > 0
  /\ output' = 0 /\ reader' = "check"
  /\ UNCHANGED <<term, master, running, child, input, revents, stdin, unmade>>

(* sq_terminal_destroy(): the descriptor is closed, the thread joined.     *)
DestroyTerminal ==
  /\ term = "made"
  /\ running' = FALSE
  /\ IF master = "open" THEN term' = "joining" /\ master' = "closed"
     ELSE term' = "freed" /\ master' = master
  /\ UNCHANGED <<reader, child, output, input, revents, stdin, unmade>>

(* A thread that was never made is joined by an identifier that was never  *)
(* written: whatever it does, nothing is modelled of it.                   *)
Joined == reader = "ended"

JoinAndFree ==
  /\ term = "joining" /\ Joined
  /\ term' = "freed"
  /\ UNCHANGED <<master, running, reader, child, output, input, revents, stdin, unmade>>

-----------------------------------------------------------------------------
(* main(): sq_pty_create(), sq_pty_spawn() and the loop.                   *)

MainSpawns(forked) ==
  /\ term = "none"
  /\ IF forked THEN term' = "poll" /\ master' = "open" /\ child' = "runs"
     ELSE term' = "ended" /\ UNCHANGED <<master, child>>
  /\ UNCHANGED <<running, reader, output, input, revents, stdin, unmade>>

UserActs ==
  /\ stdin = "quiet" /\ term \in {"poll", "ready"}
  /\ stdin' \in {"key", "eof"}
  /\ UNCHANGED <<term, master, running, reader, child, output, input, revents, unmade>>

(* What there is to read is POLLIN.  The end of the child alone is POLLHUP, *)
(* which returns at once, and which nothing looks at.                      *)
Poll ==
  /\ term = "poll"
  /\ stdin # "quiet" \/ output > 0 \/ child = "ended"
  /\ revents' = (IF stdin # "quiet" THEN {"key"} ELSE {})
                  \cup (IF output > 0 THEN {"output"} ELSE {})
  /\ term' = "ready"
  /\ UNCHANGED <<master, running, reader, child, output, input, stdin, unmade>>

Served == revents

(* The write of a key waits: nothing else is served.                       *)
Stalled == term = "ready" /\ "key" \in Served /\ stdin = "key" /\ ~Writes

(* A key goes to the pty, the end of stdin nowhere, the output to stdout.  *)
Serve ==
  /\ term = "ready" /\ ~Stalled
  /\ term' = "poll" /\ revents' = {}
  /\ IF "key" \in Served /\ stdin = "key"
     THEN stdin' = "quiet" /\ input' = Written
     ELSE UNCHANGED <<stdin, input>>
  /\ IF "output" \in Served THEN output' = 0 ELSE UNCHANGED output
  /\ UNCHANGED <<master, running, reader, child, unmade>>

(* poll() or the read() of output fails: sq_pty_destroy(). *)
MainFails ==
  /\ term = "poll" \/ (term = "ready" /\ "output" \in Served /\ ~Stalled)
  /\ term' = "ended" /\ master' = "closed"
  /\ UNCHANGED <<running, reader, child, output, input, revents, stdin, unmade>>

-----------------------------------------------------------------------------
TerminalInit ==
  /\ term = "none" /\ master = "none" /\ running = FALSE /\ reader = "none"
  /\ child = "none" /\ output = 0 /\ input = 0 /\ revents = {} /\ stdin = "quiet"
  /\ unmade = FALSE

Reader == ReaderChecks \/ ReaderCalls \/ ReaderFails \/ ReaderReads
MainLoop == Poll \/ Serve

TerminalNext ==
  \/ ChildWrites \/ ChildExits \/ ChildReads \/ UserActs \/ WriteByte
  \/ CreateTerminal \/ DestroyTerminal \/ JoinAndFree \/ MainFails
  \/ \E b \in BOOLEAN : SpawnTerminal(b) \/ MainSpawns(b)
  \/ Reader \/ MainLoop

(* The threads run; the program, the user and the failures need not.       *)
TerminalFair ==
  /\ WF_terminalVars(Reader) /\ WF_terminalVars(JoinAndFree)
  /\ WF_terminalVars(Poll) /\ WF_terminalVars(Serve)

-----------------------------------------------------------------------------
(* The terminal is freed under no read thread (terminal.c:14-20, 66-73),   *)
(* wherever in its loop it was when its descriptor was closed.             *)
FreedUnread == term = "freed" => reader \in {"none", "ended"}

(* The end of the program ends the read thread, and with it a destroy that *)
(* waits for the thread; nothing else does once it is blocked, for the     *)
(* program is not told (terminal.c:15-19, 68-69).                          *)
HangupEndsReader ==
  /\ (child = "ended" /\ reader # "none") ~> reader = "ended"
  /\ (child = "ended" /\ term = "joining" /\ ~unmade) ~> term = "freed"

(* Whatever stdin does, its end included, the output of the program is     *)
(* shown, unless poll() or read() fails or main() waits in a write for a   *)
(* program that does not read (main.c:33-52).                              *)
OutputIsShown ==
  (output > 0 /\ term \in {"poll", "ready"})
     ~> (output = 0 \/ term = "ended" \/ Stalled)

(* main.c:49 means to end with the program, but main() does not: it polls  *)
(* for ever, without a pause, once the program has ended (main.c:33-53).   *)
MainOutlivesChild ==
  <>[](child = "ended" /\ term \in {"poll", "ready"})
    => []<>(term = "poll") /\ []<>(term = "ready")

(* So a read thread ends with the program behind the pty, while main()     *)
(* shows what the program has written and then never sleeps again.         *)
TerminalMovesOn == HangupEndsReader /\ OutputIsShown /\ MainOutlivesChild
=============================================================================
