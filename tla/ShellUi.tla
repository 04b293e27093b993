------------------------------- MODULE ShellUi -------------------------------
(***************************************************************************)
(* The screen of the shell: shell_ui_dispatch_char(), shell_ui_flush() and *)
(* the prompt of shell/src/ui/ui.c, called without a lock by the main      *)
(* thread, which echoes each key typed and flushes it, and by the read     *)
(* thread of a command, which dispatches the output, flushes and prompts.  *)
(* Each access to the three static variables is a step.                    *)
(***************************************************************************)
EXTENDS Naturals, Sequences, SequencesExt

CONSTANTS
  Size, Margin, \* SHELL_UI_WRITE_BUF_SIZE, and the 16 kept free of it
  Scripts       \* <<what is typed, without "\n", which is Enter, and what a
                \* command writes>>

ASSUME UiAssumption ==
  /\ Size \in Nat /\ Margin \in Nat /\ 2 <= Margin /\ Margin < Size
  /\ Scripts \subseteq Seq(STRING) \X Seq(STRING)
  /\ \A s \in Scripts : \A i \in DOMAIN s[1] : s[1][i] # "\n"

VARIABLES
  widx,    \* static_buf_idx
  wbuf,    \* static_write_buf
  wlast,   \* static_last_char
  where,   \* per thread: where it is in which call
  char,    \* per thread: the character of the call
  put,     \* per thread: what it appends, a "\r" or that character
  reg,     \* per thread: the index it has read
  todo,    \* per thread: the characters it has yet to dispatch
  screen,  \* what write() has shown
  said,    \* history: the characters of the calls, in the order they began
  overlap  \* history: a call began during another

threadVars == <<where, char, put, reg, todo>>
uiVars == <<widx, wbuf, wlast, threadVars, screen, said, overlap>>

UiThreads == {"main", "reader"}
Prompt == "  "
NoChar == "0"

Goto(t, at) == where' = [where EXCEPT ![t] = at]
Idle(t) == where[t] \in {"out", "ended"}

Move(t, at) == Goto(t, at) /\ UNCHANGED <<char, put, reg, todo>>

Begin(t, c) ==
  /\ said' = Append(said, c)
  /\ overlap' = (overlap \/ \E u \in UiThreads \ {t} : ~Idle(u))

-----------------------------------------------------------------------------
(* shell_ui_dispatch_char().                                               *)

Dispatch(t) ==
  /\ where[t] = "out" /\ todo[t] # << >>
  /\ LET c == Head(todo[t]) IN
       /\ Begin(t, c)
       /\ char' = [char EXCEPT ![t] = c]
       /\ put' = [put EXCEPT ![t] = IF c = "\n" /\ wlast # "\r" THEN "\r" ELSE c]
  /\ todo' = [todo EXCEPT ![t] = Tail(@)]
  /\ reg' = [reg EXCEPT ![t] = 0]
  /\ Goto(t, "room")
  /\ UNCHANGED <<widx, wbuf, wlast, screen>>

(* What follows the attempt to append "\r", or the character itself.       *)
Appended(t) ==
  /\ Goto(t, IF put[t] = char[t] THEN "last" ELSE "room")
  /\ put' = [put EXCEPT ![t] = char[t]]
  /\ UNCHANGED <<char, reg, todo>>

Room(t) ==
  /\ where[t] = "room"
  /\ IF widx < Size THEN Move(t, "load") ELSE Appended(t)
  /\ UNCHANGED <<widx, wbuf, wlast, screen, said, overlap>>

(* static_write_buf[static_buf_idx++] = c, without optimisation: the index *)
(* is read, then written, then used.                                       *)
LoadIndex(t) ==
  /\ where[t] = "load"
  /\ reg' = [reg EXCEPT ![t] = widx]
  /\ Goto(t, "bump")
  /\ UNCHANGED <<widx, wbuf, wlast, char, put, todo, screen, said, overlap>>

BumpIndex(t) ==
  /\ where[t] = "bump"
  /\ widx' = reg[t] + 1
  /\ Move(t, "store")
  /\ UNCHANGED <<wbuf, wlast, screen, said, overlap>>

StoreChar(t) ==
  /\ where[t] = "store"
  /\ wbuf' = [i \in DOMAIN wbuf |-> IF i = reg[t] THEN put[t] ELSE wbuf[i]]
  /\ Appended(t)
  /\ UNCHANGED <<widx, wlast, screen, said, overlap>>

KeepLast(t) ==
  /\ where[t] = "last"
  /\ wlast' = char[t]
  /\ Move(t, "full")
  /\ UNCHANGED <<widx, wbuf, screen, said, overlap>>

(* Slip: the buffer is used to the end. *)
FullAtEnd(c) == c = "\n" \/ widx >= Size

Full(c) == c = "\n" \/ widx >= Size - Margin

(* The main thread flushes after every character, the read thread at last. *)
Done(t) == Move(t, IF t = "main" THEN "any" ELSE "out")

TestFull(t) ==
  /\ where[t] = "full"
  /\ IF Full(char[t]) THEN Move(t, "write") ELSE Done(t)
  /\ UNCHANGED <<widx, wbuf, wlast, screen, said, overlap>>

(* What is behind the buffer is not followed. *)
Buffered == [i \in 1 .. widx |-> IF i <= Size THEN wbuf[i - 1] ELSE NoChar]

WriteOut(t) ==
  /\ where[t] \in {"write", "flush"}
  /\ screen' = screen \o Buffered
  /\ Move(t, IF where[t] = "write" THEN "zero" ELSE "flushed")
  /\ UNCHANGED <<widx, wbuf, wlast, said, overlap>>

ZeroIndex(t) ==
  /\ where[t] = "zero"
  /\ widx' = 0
  /\ Done(t)
  /\ UNCHANGED <<wbuf, wlast, screen, said, overlap>>

-----------------------------------------------------------------------------
(* shell_ui_flush(), and what the thread does after it.                    *)

AfterFlush(t) == IF t = "main" THEN "out" ELSE "prompt"

TestAny(t) ==
  /\ where[t] = "any"
  /\ Move(t, IF widx > 0 THEN "flush" ELSE AfterFlush(t))
  /\ UNCHANGED <<widx, wbuf, wlast, screen, said, overlap>>

(* Slip: the index stays where it is. *)
FlushedIndexKept == widx

FlushedIndex == 0

Flushed(t) ==
  /\ where[t] = "flushed"
  /\ widx' = FlushedIndex
  /\ Move(t, AfterFlush(t))
  /\ UNCHANGED <<wbuf, wlast, screen, said, overlap>>

(* The end of the output: the last flush, then shell_ui_put_prompt(),      *)
(* which goes past the buffer.                                             *)
LastFlush ==
  /\ where["reader"] = "out" /\ todo["reader"] = << >>
  /\ Begin("reader", Prompt)
  /\ Move("reader", "any")
  /\ UNCHANGED <<widx, wbuf, wlast, screen>>

PutUiPrompt ==
  /\ where["reader"] = "prompt"
  /\ screen' = Append(screen, Prompt)
  /\ Move("reader", "ended")
  /\ UNCHANGED <<widx, wbuf, wlast, said, overlap>>

-----------------------------------------------------------------------------
UiInit ==
  /\ widx = 0 /\ wbuf = [i \in 0 .. Size - 1 |-> NoChar] /\ wlast = NoChar
  /\ screen = << >> /\ said = << >> /\ overlap = FALSE
  /\ where = [t \in UiThreads |-> "out"] /\ reg = [t \in UiThreads |-> 0]
  /\ char = [t \in UiThreads |-> NoChar] /\ put = [t \in UiThreads |-> NoChar]
  /\ \E script \in Scripts :
       todo = [t \in UiThreads |-> IF t = "main" THEN script[1] ELSE script[2]]

UiNext ==
  \/ \E t \in UiThreads :
       \/ Dispatch(t) \/ Room(t) \/ LoadIndex(t) \/ BumpIndex(t)
       \/ StoreChar(t) \/ KeepLast(t) \/ TestFull(t) \/ WriteOut(t)
       \/ ZeroIndex(t) \/ TestAny(t) \/ Flushed(t)
  \/ LastFlush \/ PutUiPrompt

-----------------------------------------------------------------------------
(* What a sequence of characters looks like: "\n" has a "\r" before it.    *)
Rendered(s) ==
  FlattenSeq([i \in DOMAIN s |->
    IF s[i] = "\n" /\ (i = 1 \/ s[i - 1] # "\r") THEN <<"\r", "\n">>
    ELSE <<s[i]>>])

(* As long as no call begins during another, what is shown and what is in  *)
(* the buffer are together what was dispatched, in order and with its      *)
(* carriage returns: the margin is wide enough for nothing to be dropped   *)
(* (ui.c:38-52).                                                           *)
ExactAlone ==
  ~overlap /\ (\A t \in UiThreads : Idle(t)) => screen \o Buffered = Rendered(said)

(* However the two threads interleave, nothing stays in the buffer once    *)
(* the command has ended and the keys are echoed (ui.c:44-59): the thread  *)
(* that changes the index last empties the buffer.                         *)
NothingStaysBuffered ==
  where["reader"] = "ended" /\ Idle("main") => widx = 0
=============================================================================
