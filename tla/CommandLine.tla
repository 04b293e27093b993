---------------------------- MODULE CommandLine ----------------------------
(***************************************************************************)
(* From a line to processes: shell_tokenize() of shell/src/core/           *)
(* tokenizer.c, extract_pipe() of module/common/pipe.c, run by a process   *)
(* of its own, and handle_redirection() of module/common/redirect.c, run   *)
(* by each of its children.  The shell calls the first; nobody calls       *)
(* extract_pipe() yet.                                                     *)
(*                                                                         *)
(* A line is a sequence of classes of characters, a token the position and *)
(* the length of its characters, an end of a pipe <<pipe, "r" or "w">>.    *)
(***************************************************************************)
EXTENDS Naturals, FiniteSets, Sequences, SequencesExt

CONSTANTS
  Lines,   \* what may be entered, of " ", "|", "<", ">" and "a", the others
  FirstCap, \* initial_token_capacity
  MaxKids  \* bound: no line has more commands

LineChars == {" ", "|", "<", ">", "a"}
ASSUME EnteredAssumption == Lines \subseteq Seq(LineChars)
ASSUME CapAssumption == FirstCap \in Nat \ {0}

VARIABLES
  phase,   \* "read", "tokens", "fork", "close", "wait", "exit"
  line, pos,
  tokens, cap, \* token_list_t; its count is Len(tokens)
  dropped, \* history: there was no memory for a token, or for the table
  first,   \* cmd_start
  prev,    \* the pipe whose read end is prev_fd, or 0
  ours,    \* the ends the manager holds
  kids,    \* the children, one per command; one that was not forked is gone
  waits,   \* how often wait() was called
  failed   \* history: pipe() failed

lineVars == <<line, pos, tokens, cap, dropped>>
pipeVars == <<first, prev, ours, kids, waits, failed>>
commandVars == <<phase, lineVars, pipeVars>>

Char(i) == line[i]
Blank(i) == Char(i) = " "
Word(i) == Char(i) \notin {" ", "|"}

-----------------------------------------------------------------------------
(* shell_tokenize().                                                       *)

(* With memory for the list and its table, or without: nullptr.            *)
EnterLine(l) ==
  /\ phase = "read"
  /\ line' = l /\ pos' = 1
  /\ \/ phase' = "tokens" /\ UNCHANGED dropped
     \/ phase' = "exit" /\ dropped' = TRUE
  /\ UNCHANGED <<tokens, cap, pipeVars>>

(* list->count + 1 >= list->capacity *)
Grow(n) == n + 1 >= cap

(* internal_add_token(), with memory or without. *)
Add(token) ==
  \/ /\ tokens' = Append(tokens, token)
     /\ cap' = IF Grow(Len(tokens)) THEN 2 * cap ELSE cap
     /\ UNCHANGED dropped
  \/ dropped' = TRUE /\ UNCHANGED <<tokens, cap>>

WordEnd(i) ==
  CHOOSE j \in i + 1 .. Len(line) + 1 :
    /\ \A k \in i .. j - 1 : Word(k)
    /\ j = Len(line) + 1 \/ ~Word(j)

SkipBlank ==
  /\ phase = "tokens" /\ pos <= Len(line) /\ Blank(pos)
  /\ pos' = pos + 1
  /\ UNCHANGED <<phase, line, tokens, cap, dropped, pipeVars>>

AddToken ==
  /\ phase = "tokens" /\ pos <= Len(line) /\ ~Blank(pos)
  /\ LET end == IF Word(pos) THEN WordEnd(pos) ELSE pos + 1 IN
       Add(<<pos, end - pos>>) /\ pos' = end
  /\ UNCHANGED <<phase, line, pipeVars>>

(* The terminating null always has room here: the table is never full.     *)
(* Without a token the caller does nothing.                                *)
Tokenized ==
  /\ phase = "tokens" /\ pos > Len(line)
  /\ phase' = IF tokens = << >> THEN "exit" ELSE "fork"
  /\ UNCHANGED <<lineVars, pipeVars>>

-----------------------------------------------------------------------------
(* handle_redirection().                                                   *)

Kind(t) ==
  CASE Char(t[1]) = ">" -> "out"
    [] Char(t[1]) = "<" /\ t[2] = 1 -> "in"
    [] Char(t[1]) = "|" -> "pipe"
    [] OTHER -> "arg"
Operator(t) == Kind(t) \in {"in", "out"}

(* Slip: only the operator goes. *)
WithoutOne(s, i) == SubSeq(s, 1, i - 1) \o SubSeq(s, i + 1, Len(s))

(* The operator and the name behind it are shifted out. *)
Without(s, i) == SubSeq(s, 1, i - 1) \o SubSeq(s, i + 2, Len(s))

(* One pass of the loop: an operator and its name go, what can be opened   *)
(* is redirected, or else the index moves on.                              *)
Pass(c, bad) ==
  CASE c.i > Len(c.argv) -> c
    [] c.i < Len(c.argv) /\ Operator(c.argv[c.i]) ->
         [argv |-> Without(c.argv, c.i), i |-> c.i,
          done |-> c.done \cup IF c.argv[c.i + 1] \in bad THEN {} ELSE {Kind(c.argv[c.i])}]
    [] OTHER -> [c EXCEPT !.i = @ + 1]

(* The loop over arguments s, which ends within Len(s) passes: what is left *)
(* of them and what of stdin and stdout was redirected, when the files in   *)
(* bad cannot be opened.                                                    *)
Redirect(s, bad) ==
  LET after[n \in 0 .. Len(s)] ==
        IF n = 0 THEN [argv |-> s, i |-> 1, done |-> {}] ELSE Pass(after[n - 1], bad)
  IN after[Len(s)]

-----------------------------------------------------------------------------
(* extract_pipe().                                                         *)

(* Where the current command ends. *)
CommandEnd ==
  CHOOSE j \in first .. Len(tokens) + 1 :
    /\ \A k \in first .. j - 1 : Kind(tokens[k]) # "pipe"
    /\ j = Len(tokens) + 1 \/ Kind(tokens[j]) = "pipe"
HasNext == CommandEnd <= Len(tokens)

Next1 == Len(kids) + 1 \* the number of the command, and of the pipe behind it
Ends(k) == {<<k, "r">>, <<k, "w">>}

(* pipe() and fork(); the child inherits every end.                        *)
ForkCommand(forked) ==
  LET all == ours \cup (IF HasNext THEN Ends(Next1) ELSE {}) IN
  /\ phase = "fork"
  /\ kids' = Append(kids,
       [run |-> IF forked THEN "new" ELSE "gone",
        ends |-> IF forked THEN all ELSE {}, in |-> prev,
        out |-> IF HasNext THEN Next1 ELSE 0,
        argv |-> SubSeq(tokens, first, CommandEnd - 1)])
  /\ ours' = all
  /\ phase' = "close"
  /\ UNCHANGED <<lineVars, first, prev, waits, failed>>

PipeFails ==
  /\ phase = "fork" /\ HasNext
  /\ phase' = "exit" /\ failed' = TRUE /\ ours' = {}
  /\ UNCHANGED <<lineVars, first, prev, kids, waits>>

Closing == IF prev = 0 THEN {} ELSE {<<prev, "r">>} \* prev_fd
Closed == Closing \cup (IF HasNext THEN {<<Len(kids), "w">>} ELSE {})

CloseEnds ==
  /\ phase = "close"
  /\ ours' = ours \ Closed
  /\ IF HasNext THEN phase' = "fork" /\ prev' = Len(kids) /\ first' = CommandEnd + 1
     ELSE phase' = "wait" /\ UNCHANGED <<prev, first>>
  /\ UNCHANGED <<lineVars, kids, waits, failed>>

(* Slip: only commands that were forked are waited for, once more. *)
CountedLess == Len(kids) - 1

Counted == Len(kids)

(* wait() reaps a child that has ended, or returns at once without any.    *)
WaitChild ==
  /\ phase = "wait" /\ waits < Counted
  /\ \/ /\ \A k \in DOMAIN kids : kids[k].run \in {"gone"}
        /\ UNCHANGED kids
     \/ \E k \in DOMAIN kids :
          kids[k].run = "ended" /\ kids' = [kids EXCEPT ![k].run = "gone"]
  /\ waits' = waits + 1
  /\ UNCHANGED <<phase, lineVars, first, prev, ours, failed>>

ManagerExits ==
  /\ phase = "wait" /\ waits = Counted
  /\ phase' = "exit" /\ ours' = {}
  /\ UNCHANGED <<lineVars, first, prev, kids, waits, failed>>

-----------------------------------------------------------------------------
(* A child.                                                                *)

(* Slip: the read end of its own output stays open. *)
KeptMore(k) == kids[k].ends \ (Ends(kids[k].in) \cup {<<kids[k].out, "w">>})

(* What is neither closed nor made stdin or stdout. *)
Kept(k) == kids[k].ends \ ({<<kids[k].in, "r">>} \cup Ends(kids[k].out))

(* dup2(), close() and handle_redirection(); in and out are then what      *)
(* stdin and stdout are, 0 for no pipe.                                    *)
ChildStarts(k, bad) ==
  LET kid == kids[k]
      r == Redirect(kid.argv, bad)
      in == IF "in" \in r.done THEN 0 ELSE kid.in
      out == IF "out" \in r.done THEN 0 ELSE kid.out IN
  /\ kid.run = "new"
  /\ kids' = [kids EXCEPT ![k] =
       [run |-> "run", in |-> in, out |-> out, argv |-> r.argv,
        ends |-> Kept(k) \cup (IF in = 0 THEN {} ELSE {<<in, "r">>})
                         \cup (IF out = 0 THEN {} ELSE {<<out, "w">>})]]
  /\ UNCHANGED <<phase, lineVars, first, prev, ours, waits, failed>>

Holders(e) == {k \in DOMAIN kids : e \in kids[k].ends}
OpenEnd(e) == e \in ours \/ Holders(e) # {}

(* A program ends when its input does, and its output goes somewhere:      *)
(* nobody can read it, or a program does.                                  *)
MayEnd(k) ==
  /\ kids[k].run = "run"
  /\ kids[k].in # 0 => ~OpenEnd(<<kids[k].in, "w">>)
  /\ kids[k].out # 0 => \/ ~OpenEnd(<<kids[k].out, "r">>)
                        \/ \E j \in Holders(<<kids[k].out, "r">>) :
                             kids[j].in = kids[k].out

ChildEnds(k) ==
  /\ MayEnd(k)
  /\ kids' = [kids EXCEPT ![k].run = "ended", ![k].ends = {}]
  /\ UNCHANGED <<phase, lineVars, first, prev, ours, waits, failed>>

-----------------------------------------------------------------------------
CommandInit ==
  /\ phase = "read" /\ line = << >> /\ pos = 1
  /\ tokens = << >> /\ cap = FirstCap /\ dropped = FALSE
  /\ first = 1 /\ prev = 0 /\ ours = {} /\ kids = << >>
  /\ waits = 0 /\ failed = FALSE

Manage ==
  \/ SkipBlank \/ AddToken \/ Tokenized
  \/ \E forked \in BOOLEAN : ForkCommand(forked)
  \/ PipeFails \/ CloseEnds \/ WaitChild \/ ManagerExits

Child(k) ==
  \/ \E bad \in SUBSET Range(tokens) : ChildStarts(k, bad)
  \/ ChildEnds(k)

CommandNext ==
  \/ \E l \in Lines : EnterLine(l)
  \/ Manage
  \/ \E k \in DOMAIN kids : Child(k)

(* The manager and its children run. *)
CommandFair ==
  /\ WF_commandVars(Manage)
  /\ \A k \in 1 .. MaxKids : WF_commandVars(k \in DOMAIN kids /\ Child(k))

-----------------------------------------------------------------------------
(* The tokens of a line are its maximal runs of word characters and its    *)
(* '|'s, in order, none lost unless memory is (tokenizer.c:65-80), and the *)
(* table has room for the null behind them (tokenizer.c:22, 95).           *)
IsRun(i, j) ==
  \/ j = 1 /\ Char(i) = "|"
  \/ /\ i + j - 1 <= Len(line)
     /\ \A k \in i .. i + j - 1 : Word(k)
     /\ i = 1 \/ ~Word(i - 1)
     /\ i + j - 1 = Len(line) \/ ~Word(i + j)
Runs == {r \in (1 .. Len(line)) \X (1 .. Len(line)) : IsRun(r[1], r[2])}

TokensAreRuns ==
  /\ \A i \in DOMAIN tokens : tokens[i] \in Runs
  /\ \A i, j \in DOMAIN tokens : i < j => tokens[i][1] < tokens[j][1]
  /\ phase \notin {"read", "tokens"} /\ ~dropped => Range(tokens) = Runs

NullHasRoom == Len(tokens) < cap

(* What becomes of each of the arguments s: an operator with a name behind *)
(* it, that name, or what is left.                                         *)
Roles(s) ==
  LET role[j \in 0 .. Len(s)] ==
        IF j = 0 THEN "left"
        ELSE IF role[j - 1] = "operator" THEN "name"
        ELSE IF j < Len(s) /\ Operator(s[j]) THEN "operator" ELSE "left"
  IN role

Arguments(s) ==
  FlattenSeq([j \in DOMAIN s |-> IF Roles(s)[j] = "left" THEN <<s[j]>> ELSE << >>])

(* The ends of the line and its '|'s, and which one j is.                  *)
Bars == {0, Len(tokens) + 1} \cup {j \in DOMAIN tokens : Kind(tokens[j]) = "pipe"}
BarsTo(j) == Cardinality({b \in Bars : b <= j})

(* The k-th program gets what is left of what is between the k-th bar and  *)
(* the next, in order (pipe.c:20-58, redirect.c:20-58).                    *)
ArgumentsAreRight ==
  \A k \in DOMAIN kids : kids[k].run \in {"run", "ended"} =>
    \E a, b \in Bars :
      /\ BarsTo(a) = k /\ BarsTo(b) = k + 1
      /\ kids[k].argv = Arguments(SubSeq(tokens, a + 1, b - 1))

(* So what the programs get is what the line says (tokenizer.c:60-97,      *)
(* redirect.c:20-58).                                                      *)
LineIsUnderstood == TokensAreRuns /\ NullHasRoom /\ ArgumentsAreRight

(* Once all have started, an end of a pipe is held by no process but the   *)
(* one whose input or output it is (pipe.c:41-66), whatever could not be   *)
(* forked and whatever is redirected: a reader sees the end of its input.  *)
EndsArePrivate ==
  phase \in {"wait", "exit"} /\ (\A k \in DOMAIN kids : kids[k].run # "new") =>
    /\ ours = {}
    /\ \A k \in DOMAIN kids : \A e \in kids[k].ends :
         e = <<k - 1, "r">> \/ e = <<k, "w">>

(* That rests on what the manager holds between two commands, the read end *)
(* for the next one; ...                                                   *)
ManagerInOrder ==
  /\ phase \in {"read", "tokens"} => kids = << >> /\ prev = 0 /\ ours = {}
  /\ phase = "fork" => prev = Len(kids) /\ ours \subseteq Closing
  /\ phase = "close" =>
       /\ prev + 1 = Len(kids)
       /\ ours \subseteq Closing \cup (IF HasNext THEN Ends(Len(kids)) ELSE {})
  /\ phase \in {"wait", "exit"} => ours = {}

(* ... and what the k-th command has been given.                           *)
KidInOrder(k) ==
  IF kids[k].run = "new"
  THEN /\ kids[k].in = k - 1 /\ kids[k].out \in {0, k}
       /\ kids[k].ends \subseteq {<<k - 1, "r">>} \cup (IF kids[k].out = 0 THEN {} ELSE Ends(k))
  ELSE kids[k].ends \subseteq {<<k - 1, "r">>, <<k, "w">>}

PipesInOrder ==
  /\ kids \in Seq(Range(kids)) /\ prev \in Nat
  /\ ManagerInOrder
  /\ \A k \in DOMAIN kids : KidInOrder(k)

(* And the tokens are right because the tokenizer is always between two    *)
(* runs, and has all that lie before it.                                   *)
TokensInOrder ==
  /\ phase \in {"read", "tokens", "fork", "close", "wait", "exit"}
  /\ line \in Seq(LineChars) /\ tokens \in Seq(Nat \X Nat) /\ cap \in Nat
  /\ pos \in 1 .. Len(line) + 1
  /\ phase = "read" => tokens = << >>
  /\ phase \notin {"read", "tokens"} => pos = Len(line) + 1 \/ (phase = "exit" /\ dropped)
  /\ pos = 1 \/ pos = Len(line) + 1 \/ ~Word(pos - 1) \/ ~Word(pos)
  /\ \A i \in DOMAIN tokens : tokens[i] \in Runs /\ tokens[i][1] < pos
  /\ \A i, j \in DOMAIN tokens : i < j => tokens[i][1] < tokens[j][1]
  /\ ~dropped => \A r \in Runs : r[1] < pos => \E i \in DOMAIN tokens : tokens[i] = r
  /\ NullHasRoom

(* The manager ends: nobody waits for input that cannot come               *)
(* (pipe.c:64-76); and its children have ended before it, unless pipe()    *)
(* failed between two of them (pipe.c:31-35, 75).                          *)
ManagerEnds ==
  phase # "read" ~>
    phase = "exit" /\ (failed \/ \A k \in DOMAIN kids : kids[k].run = "gone")
=============================================================================
