---------------------------- MODULE ShellProofs ----------------------------
(***************************************************************************)
(* Proofs about Shell, for any number of commands, any size of the line    *)
(* and of the ptys, with and without type-ahead and whatever fails.        *)
(***************************************************************************)
EXTENDS Shell, FiniteSetTheorems, TLAPS

USE CommandsAssumption, SizesAssumption

LEMMA CommandsFinite == IsFiniteSet(Commands) /\ None \notin Commands
BY FS_Union DEF Commands

(* One command more, or one less, in a set of commands. *)
LEMMA OneMore ==
  ASSUME NEW S \in SUBSET Commands, NEW c \in Commands
  PROVE  /\ Cardinality(S) \in Nat
         /\ c \notin S => Cardinality(S \cup {c}) = Cardinality(S) + 1
         /\ c \in S => Cardinality(S \ {c}) = Cardinality(S) - 1
<1>1. IsFiniteSet(S)
  BY CommandsFinite, FS_Subset
<1> QED
  BY <1>1, FS_AddElement, FS_RemoveElement, FS_CardinalityType

LEMMA InitShellInv == Init => ShellInv
<1> SUFFICES ASSUME Init
             PROVE  ShellInv
  OBVIOUS
<1> USE DEF Init
<1>1. TypeOK
  <2>1. shown \in [Commands -> Seq(Nat)] /\ got \in [Commands -> {<< >>} \cup (Ids \X Nat)]
    OBVIOUS
  <2>2. 0 \in 0 .. LineSize - 1 /\ 0 \in 0 .. MaxOut
    OBVIOUS
  <2>3. tpc \in [Commands -> ThreadSteps] /\ mpc \in SpawnSteps \cup {"read", "exited"}
    BY DEF SpawnSteps, ThreadSteps
  <2>4. /\ child \in [Ids -> {"none", "running", "exited", "reaped"}]
        /\ written \in [Ids -> 0 .. MaxOut] /\ taken \in [Ids -> 0 .. MaxOut]
    BY <2>2
  <2> QED
    BY <2>1, <2>2, <2>3, <2>4 DEF TypeOK, Ids
<1>2. CommandsInOrder
  BY DEF CommandsInOrder, SpawnSteps
<1>3. DataInOrder
  BY DEF DataInOrder
<1>4. PromptAccounting
  <2>1. Commands \ fresh = {} /\ Active = {} /\ failed = {}
    BY DEF Active
  <2>2. Cardinality({}) = 0
    BY FS_EmptySet
  <2>3. mpc \notin SpawnSteps /\ prompts = 0
    BY DEF SpawnSteps
  <2> HIDE DEF Init
  <2> QED
    BY <2>1, <2>2, <2>3 DEF PromptAccounting
<1> QED
  BY <1>1, <1>2, <1>3, <1>4 DEF ShellInv

-----------------------------------------------------------------------------
(* The steps of the main thread. *)
MainStep ==
  \/ TypeChar
  \/ Backspace
  \/ EnterExit
  \/ \E c \in Commands : EnterCommand(c)
  \/ Spawn
  \/ Exit
  \/ EndOfInput

LEMMA MainType == TypeOK /\ CommandsInOrder /\ MainStep => TypeOK'
<1> SUFFICES ASSUME TypeOK, CommandsInOrder, MainStep
             PROVE  TypeOK'
  OBVIOUS
<1> USE DEF TypeOK, inputVars, execVars, threadVars, childVars, historyVars
<1>1. CASE TypeChar
  BY <1>1 DEF TypeChar, Reading
<1>2. CASE Backspace
  BY <1>2 DEF Backspace, Reading
<1>3. CASE EnterExit
  BY <1>3 DEF EnterExit, Reading
<1>4. ASSUME NEW c \in Commands, EnterCommand(c)
      PROVE  TypeOK'
  BY <1>4 DEF EnterCommand, SpawnSteps, Ids
<1>5. CASE Spawn
  <2> USE DEF CommandsInOrder, SpawnSteps, BackToReading, GiveUp, PutPrompt, Ids
  <2>1. CASE OpenPty
    BY <2>1 DEF OpenPty
  <2>2. CASE OpenPtyFails
    BY <2>2 DEF OpenPtyFails
  <2>3. CASE RunBuiltin
    <3>1. prompts' \in Nat /\ mpc' = "read" /\ cmd' = None /\ len' = 0
      BY <2>3 DEF RunBuiltin
    <3>2. UNCHANGED <<stop, state, execVars, threadVars, childVars, fresh, failed, shown, ahead>>
      BY <2>3 DEF RunBuiltin
    <3> QED
      BY <3>1, <3>2
  <2>4. CASE Fork
    BY <2>4 DEF Fork
  <2>5. CASE ForkFails
    <3>1. mpc' = "read" /\ cmd' = None /\ len' = 0 /\ failed' \subseteq Commands
      BY <2>5 DEF ForkFails
    <3>2. UNCHANGED <<stop, state, execVars, threadVars, childVars, fresh, shown, prompts, ahead>>
      BY <2>5 DEF ForkFails
    <3>3. mpc' \in SpawnSteps \cup {"read", "exited"} /\ cmd' \in Ids
      BY <3>1
    <3>4. len' \in 0 .. LineSize - 1
      BY <3>1, SizesAssumption
    <3> HIDE DEF CommandsInOrder, BackToReading, GiveUp, PutPrompt, SpawnSteps, Ids
    <3> QED
      BY <3>1, <3>2, <3>3, <3>4
  <2>6. CASE SetPid
    <3>1. mpc' \in SpawnSteps /\ pid' \in Ids
      BY <2>6 DEF SetPid
    <3>2. slaves' \subseteq slaves
      BY <2>6 DEF SetPid
    <3>3. UNCHANGED <<cmd, inputVars, state, master, running, threadVars, childVars, historyVars>>
      BY <2>6 DEF SetPid
    <3> HIDE DEF CommandsInOrder, BackToReading, GiveUp, PutPrompt
    <3> QED
      BY <3>1, <3>2, <3>3
  <2>7. CASE SetRunning
    BY <2>7 DEF SetRunning
  <2>8. CASE StartThread
    BY <2>8 DEF StartThread, ThreadSteps
  <2>9. CASE StartThreadFails
    BY <2>9 DEF StartThreadFails
  <2> QED
    BY <1>5, <2>1, <2>2, <2>3, <2>4, <2>5, <2>6, <2>7, <2>8, <2>9 DEF Spawn
<1>6. CASE Exit
  BY <1>6 DEF Exit
<1>7. CASE EndOfInput
  BY <1>7 DEF EndOfInput
<1> QED
  BY <1>1, <1>2, <1>3, <1>4, <1>5, <1>6, <1>7 DEF MainStep

LEMMA MainOrder == TypeOK /\ CommandsInOrder /\ MainStep => CommandsInOrder'
<1> SUFFICES ASSUME TypeOK, CommandsInOrder, MainStep
             PROVE  CommandsInOrder'
  OBVIOUS
<1> USE CommandsFinite DEF CommandsInOrder, SpawnSteps, inputVars, execVars, threadVars,
        childVars, historyVars
<1>1. CASE TypeChar
  BY <1>1 DEF TypeChar, Reading
<1>2. CASE Backspace
  BY <1>2 DEF Backspace, Reading
<1>3. CASE EnterExit
  BY <1>3 DEF EnterExit, Reading
<1>4. ASSUME NEW c \in Commands, EnterCommand(c)
      PROVE  CommandsInOrder'
  BY <1>4 DEF EnterCommand, Reading
<1>5. CASE Spawn
  <2> USE DEF TypeOK, BackToReading, GiveUp
  <2>1. CASE OpenPty
    BY <2>1 DEF OpenPty
  <2>2. CASE OpenPtyFails
    BY <2>2 DEF OpenPtyFails
  <2>3. CASE RunBuiltin
    BY <2>3 DEF RunBuiltin
  <2>4. CASE Fork
    BY <2>4 DEF Fork
  <2>5. CASE ForkFails
    BY <2>5 DEF ForkFails
  <2>6. CASE SetPid
    BY <2>6 DEF SetPid
  <2>7. CASE SetRunning
    BY <2>7 DEF SetRunning
  <2>8. CASE StartThread
    BY <2>8 DEF StartThread
  <2>9. CASE StartThreadFails
    BY <2>9 DEF StartThreadFails
  <2> QED
    BY <1>5, <2>1, <2>2, <2>3, <2>4, <2>5, <2>6, <2>7, <2>8, <2>9 DEF Spawn
<1>6. CASE Exit
  BY <1>6 DEF Exit
<1>7. CASE EndOfInput
  BY <1>7 DEF EndOfInput, Reading
<1> QED
  BY <1>1, <1>2, <1>3, <1>4, <1>5, <1>6, <1>7 DEF MainStep

(* The main thread never stores the state, and starts a thread at its      *)
(* beginning.                                                              *)
LEMMA MainData ==
  ASSUME TypeOK, CommandsInOrder, DataInOrder, MainStep
  PROVE  DataInOrder'
<1>1. state' = state
  BY DEF MainStep, TypeChar, Backspace, EnterExit, EnterCommand, Spawn, OpenPty,
     OpenPtyFails, RunBuiltin, Fork, ForkFails, SetPid, SetRunning, StartThread,
     StartThreadFails, GiveUp, Exit, EndOfInput
<1>2. /\ got' = got
      /\ \/ tpc' = tpc
         \/ tpc' = [tpc EXCEPT ![cmd] = "start"]
  BY DEF MainStep, TypeChar, Backspace, EnterExit, EnterCommand, Spawn, OpenPty,
     OpenPtyFails, RunBuiltin, Fork, ForkFails, SetPid, SetRunning, StartThread,
     StartThreadFails, GiveUp, Exit, EndOfInput, threadVars
<1> QED
  BY <1>1, <1>2 DEF TypeOK, DataInOrder

-----------------------------------------------------------------------------
(* What is counted: the same number of commands is in every place ...      *)
SameCounts ==
  /\ Active' = Active
  /\ UNCHANGED <<fresh, failed, prompts>>
  /\ mpc \in SpawnSteps <=> mpc' \in SpawnSteps

LEMMA CountsKept == PromptAccounting /\ SameCounts => PromptAccounting'
BY DEF PromptAccounting, SameCounts

LEMMA MainAccounting ==
  ASSUME TypeOK, CommandsInOrder, DataInOrder, PromptAccounting, MainStep
  PROVE  PromptAccounting'
<1> DEFINE E == Commands \ fresh
<1>1. E \in SUBSET Commands /\ Active \in SUBSET Commands /\ failed \in SUBSET Commands
  BY DEF TypeOK, Active
<1>2. /\ Cardinality(E) \in Nat /\ Cardinality(Active) \in Nat
      /\ Cardinality(failed) \in Nat /\ prompts \in Nat
  BY <1>1, OneMore, CommandsFinite, FS_Subset, FS_CardinalityType DEF TypeOK
<1>3. ASSUME SameCounts PROVE PromptAccounting'
  BY <1>3, CountsKept
<1>4. ASSUME UNCHANGED <<tpc, fresh, failed, prompts>>,
             mpc \in SpawnSteps <=> mpc' \in SpawnSteps
      PROVE  PromptAccounting'
  BY <1>3, <1>4 DEF SameCounts, Active
<1>5. CASE TypeChar \/ Backspace \/ EnterExit
  BY <1>4, <1>5 DEF TypeChar, Backspace, EnterExit, threadVars, historyVars
<1>6. ASSUME NEW c \in Commands, EnterCommand(c)
      PROVE  PromptAccounting'
  <2>1. E' = E \cup {c} /\ c \notin E
    BY <1>6 DEF EnterCommand
  <2>2. /\ mpc \notin SpawnSteps /\ mpc' \in SpawnSteps
        /\ Active' = Active /\ UNCHANGED <<failed, prompts>>
    BY <1>6 DEF EnterCommand, Reading, SpawnSteps, Active, threadVars
  <2>3. Cardinality(E') = Cardinality(E) + 1
    BY <1>1, <2>1, OneMore
  <2> QED
    BY <1>2, <2>2, <2>3 DEF PromptAccounting
<1>7. CASE OpenPty \/ Fork \/ SetPid \/ SetRunning
  BY <1>4, <1>7 DEF OpenPty, Fork, SetPid, SetRunning, SpawnSteps, threadVars, historyVars
<1>8. CASE OpenPtyFails \/ ForkFails \/ StartThreadFails
  <2>1. /\ mpc \in SpawnSteps /\ mpc' \notin SpawnSteps /\ failed' = failed \cup {cmd}
        /\ UNCHANGED <<tpc, fresh, prompts>>
    BY <1>8 DEF OpenPtyFails, ForkFails, StartThreadFails, GiveUp, BackToReading,
       SpawnSteps, threadVars
  <2>2. cmd \in Commands \ failed
    BY <2>1 DEF CommandsInOrder
  <2>3. Cardinality(failed') = Cardinality(failed) + 1
    BY <1>1, <2>1, <2>2, OneMore
  <2> QED
    BY <1>2, <2>1, <2>3 DEF PromptAccounting, Active
<1>9. CASE RunBuiltin
  <2>1. /\ mpc \in SpawnSteps /\ mpc' \notin SpawnSteps /\ prompts' = prompts + 1
        /\ UNCHANGED <<tpc, fresh, failed>>
    BY <1>9 DEF RunBuiltin, PutPrompt, DataInOrder, BackToReading, SpawnSteps, threadVars
  <2> QED
    BY <1>2, <2>1 DEF PromptAccounting, Active
<1>10. CASE StartThread
  <2>1. /\ mpc \in SpawnSteps /\ mpc' \notin SpawnSteps
        /\ tpc' = [tpc EXCEPT ![cmd] = "start"]
        /\ UNCHANGED <<fresh, failed, prompts>>
    BY <1>10 DEF StartThread, BackToReading, SpawnSteps, historyVars
  <2>2. cmd \in Commands /\ cmd \notin Active
    BY <2>1 DEF CommandsInOrder, Active
  <2>3. Active' = Active \cup {cmd}
    BY <2>1, <2>2 DEF TypeOK, Active
  <2>4. Cardinality(Active') = Cardinality(Active) + 1
    BY <1>1, <2>2, <2>3, OneMore
  <2> QED
    BY <1>2, <2>1, <2>4 DEF PromptAccounting
<1>11. CASE Exit \/ EndOfInput
  BY <1>4, <1>11 DEF Exit, EndOfInput, Reading, SpawnSteps, threadVars, historyVars
<1> QED
  BY <1>5, <1>6, <1>7, <1>8, <1>9, <1>10, <1>11 DEF MainStep, Spawn

-----------------------------------------------------------------------------
(* The steps of a read thread. *)

LEMMA ThreadType ==
  ASSUME TypeOK, DataInOrder, NEW c \in Commands, ReadThread(c)
  PROVE  TypeOK'
<1> USE DEF TypeOK, GoTo, ThreadSteps, SpawnSteps, inputVars, execVars, threadVars,
        childVars, historyVars
<1>1. CASE Start(c)
  BY <1>1 DEF Start
<1>2. CASE Check(c)
  BY <1>2 DEF Check
<1>3. CASE Poll(c)
  BY <1>3 DEF Poll
<1>4. CASE Read(c)
  <2>1. master \in Ids /\ taken[master] \in Nat /\ taken[master] + 1 \in 0 .. MaxOut
    BY <1>4 DEF Read, Unread
  <2>2. taken' \in [Ids -> 0 .. MaxOut]
    BY <1>4, <2>1 DEF Read
  <2>3. <<master, taken[master] + 1>> \in Ids \X Nat
    BY <2>1
  <2>4. got' \in [Commands -> {<< >>} \cup (Ids \X Nat)]
    BY <1>4, <2>3 DEF Read
  <2> QED
    BY <1>4, <2>2, <2>4 DEF Read
<1>5. CASE ReadFails(c)
  BY <1>5 DEF ReadFails
<1>6. CASE Dispatch(c)
  <2>1. got[c] \in Ids \X Nat
    BY <1>6 DEF Dispatch, DataInOrder
  <2>2. got[c][2] \in Nat
    BY <2>1
  <2>3. shown' \in [Commands -> Seq(Nat)]
    <3>1. \A s \in Seq(Nat) : Append(s, got[c][2]) \in Seq(Nat)
      BY <2>2
    <3> QED
      BY <1>6, <3>1 DEF Dispatch
  <2>4. got' \in [Commands -> {<< >>} \cup (Ids \X Nat)]
    BY <1>6 DEF Dispatch
  <2> QED
    BY <1>6, <2>3, <2>4 DEF Dispatch
<1>7. CASE Reap(c)
  BY <1>7 DEF Reap
<1>8. CASE NothingToReap(c)
  BY <1>8 DEF NothingToReap
<1>9. CASE ClearRunning(c)
  BY <1>9 DEF ClearRunning
<1>10. CASE Finish(c)
  <2>1. tpc' \in [Commands -> ThreadSteps] /\ state' = "idle" /\ prompts' \in Nat
    BY <1>10 DEF Finish, PutPrompt
  <2>2. UNCHANGED <<mpc, cmd, inputVars, execVars, got, childVars, fresh, failed, shown, ahead>>
    BY <1>10 DEF Finish
  <2> QED
    BY <2>1, <2>2
<1> HIDE DEF TypeOK
<1> QED
  BY <1>1, <1>2, <1>3, <1>4, <1>5, <1>6, <1>7, <1>8, <1>9, <1>10 DEF ReadThread

(* A read thread that has begun moves on, to its end only by Finish. *)
LEMMA ThreadFrame ==
  ASSUME TypeOK, CommandsInOrder, NEW c \in Commands, ReadThread(c)
  PROVE  /\ tpc[c] \notin {"none", "done"}
         /\ UNCHANGED <<mpc, cmd, master, fresh, failed>>
         /\ tpc' = [tpc EXCEPT ![c] = tpc'[c]]
         /\ tpc'[c] \in ThreadSteps \ {"none"}
         /\ tpc'[c] = "done" <=> Finish(c)
         /\ ~Finish(c) => UNCHANGED prompts
<1> tpc \in [Commands -> ThreadSteps]
  BY DEF TypeOK
<1> USE DEF GoTo, ThreadSteps, execVars, historyVars
<1>1. CASE Start(c)
  <2>1. master # None
    BY <1>1 DEF Start, CommandsInOrder
  <2> QED
    BY <1>1, <2>1 DEF Start, Finish
<1>2. CASE Check(c)
  BY <1>2 DEF Check, Finish
<1>3. CASE Poll(c)
  BY <1>3 DEF Poll, Finish
<1>4. CASE Read(c)
  BY <1>4 DEF Read, Finish
<1>5. CASE ReadFails(c)
  BY <1>5 DEF ReadFails, Finish
<1>6. CASE Dispatch(c)
  BY <1>6 DEF Dispatch, Finish
<1>7. CASE Reap(c)
  BY <1>7 DEF Reap, Finish
<1>8. CASE NothingToReap(c)
  BY <1>8 DEF NothingToReap, Finish
<1>9. CASE ClearRunning(c)
  BY <1>9 DEF ClearRunning, Finish
<1>10. CASE Finish(c)
  BY <1>10 DEF Finish
<1>11. \/ Start(c) \/ Check(c) \/ Poll(c) \/ Read(c) \/ ReadFails(c) \/ Dispatch(c)
       \/ Reap(c) \/ NothingToReap(c) \/ ClearRunning(c) \/ Finish(c)
  BY DEF ReadThread
<1> HIDE DEF GoTo, ThreadSteps, execVars, historyVars
<1> QED
  BY <1>1, <1>2, <1>3, <1>4, <1>5, <1>6, <1>7, <1>8, <1>9, <1>10, <1>11

LEMMA ThreadOrder ==
  ASSUME TypeOK, CommandsInOrder, NEW c \in Commands, ReadThread(c)
  PROVE  CommandsInOrder'
<1>1. UNCHANGED <<mpc, cmd, master, fresh, failed>> /\ tpc[c] \notin {"none", "done"}
  BY ThreadFrame
<1>2. tpc' = [tpc EXCEPT ![c] = tpc'[c]]
  BY ThreadFrame
<1>3. tpc \in [Commands -> ThreadSteps]
  BY DEF TypeOK
<1>4. \A d \in Commands : tpc[d] = "none" => tpc'[d] = "none"
  BY <1>1, <1>2, <1>3
<1>5. \A d \in Commands : tpc[d] \notin {"none", "done"} => master # None
  BY DEF CommandsInOrder
<1>6. \A d \in Commands : tpc'[d] \notin {"none", "done"} => master # None
  <2> SUFFICES ASSUME NEW d \in Commands, tpc'[d] \notin {"none", "done"}, d # c
               PROVE  master # None
    BY <1>1, <1>5
  <2>1. tpc'[d] = tpc[d]
    BY <1>2, <1>3
  <2> QED
    BY <2>1, <1>5
<1>7. (mpc \in SpawnSteps => cmd \in Commands \ (fresh \cup failed) /\ tpc[cmd] = "none")'
  BY <1>1, <1>4 DEF CommandsInOrder
<1>8. (\A d \in fresh : tpc[d] = "none" /\ d \notin failed)'
  BY <1>1, <1>4 DEF CommandsInOrder, TypeOK
<1>9. (mpc \in SpawnSteps \ {"open"} => master # None)'
  BY <1>1 DEF CommandsInOrder
<1>10. master' = master
  BY <1>1
<1>11. (\A d \in Commands : tpc[d] \notin {"none", "done"} => master # None)'
  BY <1>6, <1>10
<1> QED
  BY <1>7, <1>8, <1>9, <1>11 DEF CommandsInOrder

LEMMA ThreadData ==
  ASSUME TypeOK, DataInOrder, NEW c \in Commands, ReadThread(c)
  PROVE  DataInOrder'
<1>1. state' = "idle"
  BY DEF DataInOrder, ReadThread, Start, Check, Poll, Read, ReadFails, Dispatch, Reap,
     NothingToReap, ClearRunning, Finish
<1>2. CASE Read(c)
  <2>1. got' = [got EXCEPT ![c] = <<master, taken[master] + 1>>]
    BY <1>2 DEF Read
  <2>2. <<master, taken[master] + 1>> \in Ids \X Nat
    BY <1>2 DEF Read, TypeOK
  <2>3. \A d \in Commands \ {c} : tpc'[d] = tpc[d] /\ got'[d] = got[d]
    BY <1>2, <2>1 DEF Read, GoTo, TypeOK
  <2> QED
    BY <1>1, <2>1, <2>2, <2>3 DEF DataInOrder, TypeOK
<1>3. CASE ~Read(c)
  <2>1. tpc'[c] # "dispatch"
    BY <1>3 DEF ReadThread, Start, Check, Poll, ReadFails, Dispatch, Reap, NothingToReap,
       ClearRunning, Finish, GoTo, TypeOK
  <2>2. \A d \in Commands \ {c} : tpc'[d] = tpc[d] /\ got'[d] = got[d]
    BY <1>3 DEF ReadThread, Start, Check, Poll, ReadFails, Dispatch, Reap, NothingToReap,
       ClearRunning, Finish, GoTo, TypeOK
  <2> QED
    BY <1>1, <2>1, <2>2 DEF DataInOrder
<1> QED
  BY <1>2, <1>3

LEMMA ThreadAccounting ==
  ASSUME TypeOK, CommandsInOrder, PromptAccounting, NEW c \in Commands, ReadThread(c)
  PROVE  PromptAccounting'
<1>1. /\ tpc' = [tpc EXCEPT ![c] = tpc'[c]]
      /\ tpc'[c] \in ThreadSteps \ {"none"}
      /\ tpc'[c] = "done" <=> Finish(c)
  BY ThreadFrame
<1>2. c \in Active /\ UNCHANGED <<mpc, fresh, failed>> /\ (~Finish(c) => UNCHANGED prompts)
  BY ThreadFrame DEF Active
<1>3. CASE Finish(c)
  <2>1. Active' = Active \ {c}
    BY <1>1, <1>3 DEF Active, TypeOK
  <2>2. prompts' = prompts + 1 /\ prompts \in Nat
    BY <1>3 DEF Finish, PutPrompt, TypeOK
  <2>3. Active \in SUBSET Commands /\ failed \in SUBSET Commands /\ Commands \ fresh \in SUBSET Commands
    BY DEF Active, TypeOK
  <2>4. /\ Cardinality(Active') = Cardinality(Active) - 1
        /\ Cardinality(Active) \in Nat
    BY <1>2, <2>1, <2>3, OneMore
  <2>5. Cardinality(failed) \in Nat /\ Cardinality(Commands \ fresh) \in Nat
    BY <2>3, CommandsFinite, FS_Subset, FS_CardinalityType
  <2> QED
    BY <1>2, <2>2, <2>4, <2>5 DEF PromptAccounting
<1>4. CASE ~Finish(c)
  <2>1. Active' = Active
    BY <1>1, <1>2, <1>4 DEF Active, TypeOK
  <2> QED
    BY <1>2, <1>4, <2>1, CountsKept DEF SameCounts
<1> QED
  BY <1>3, <1>4

-----------------------------------------------------------------------------
(* The steps of a child, which no other variable follows. *)
LEMMA ChildInv ==
  ASSUME ShellInv, NEW c \in Programs, Child(c)
  PROVE  ShellInv'
<1>1. UNCHANGED <<mpc, cmd, inputVars, state, execVars, threadVars, historyVars, taken>>
  BY DEF Child, Write, ChildExit
<1>2. /\ child' \in [Ids -> {"none", "running", "exited", "reaped"}]
      /\ written' \in [Ids -> 0 .. MaxOut]
  <2> USE DEF ShellInv, TypeOK, childVars
  <2>1. c \in Ids
    BY DEF Ids, Commands
  <2>2. CASE Write(c)
    <3>1. written[c] + 1 \in 0 .. MaxOut
      BY <2>1, <2>2 DEF Write
    <3> QED
      BY <2>2, <3>1 DEF Write
  <2>3. CASE ChildExit(c)
    BY <2>3 DEF ChildExit
  <2> QED
    BY <2>2, <2>3 DEF Child
<1>3. TypeOK'
  BY <1>1, <1>2 DEF ShellInv, TypeOK, inputVars, execVars, threadVars, historyVars
<1>4. CommandsInOrder' /\ DataInOrder'
  BY <1>1 DEF ShellInv, CommandsInOrder, DataInOrder, execVars, threadVars, historyVars
<1>5. PromptAccounting'
  BY <1>1 DEF ShellInv, PromptAccounting, Active, threadVars, historyVars
<1> QED
  BY <1>3, <1>4, <1>5 DEF ShellInv

LEMMA StutterInv == ShellInv /\ UNCHANGED vars => ShellInv'
BY DEF vars, inputVars, execVars, threadVars, childVars, historyVars, ShellInv, TypeOK,
   CommandsInOrder, DataInOrder, PromptAccounting, Active

LEMMA NextShellInv == ShellInv /\ [Next]_vars => ShellInv'
<1> SUFFICES ASSUME ShellInv, [Next]_vars
             PROVE  ShellInv'
  OBVIOUS
<1>1. CASE MainStep
  BY <1>1, MainType, MainOrder, MainData, MainAccounting DEF ShellInv
<1>2. ASSUME NEW c \in Commands, ReadThread(c)
      PROVE  ShellInv'
  BY <1>2, ThreadType, ThreadOrder, ThreadData, ThreadAccounting DEF ShellInv
<1>3. ASSUME NEW c \in Programs, Child(c)
      PROVE  ShellInv'
  BY <1>3, ChildInv
<1>4. CASE Terminating \/ UNCHANGED vars
  BY <1>4, StutterInv DEF Terminating
<1> QED
  BY <1>1, <1>2, <1>3, <1>4 DEF Next, MainStep

-----------------------------------------------------------------------------
(* The shell's threads stay in order and every command is accounted for,   *)
(* however commands overlap and fail (executer.c:30-118).                  *)
THEOREM ShellInvariance == Spec => []ShellInv
BY InitShellInv, NextShellInv, PTL DEF Spec

(* The line never outgrows its buffer, and every other variable keeps its  *)
(* type, however commands overlap.                                         *)
THEOREM ShellTypes == Spec => []TypeOK
<1>1. ShellInv => TypeOK
  BY DEF ShellInv
<1> QED
  BY <1>1, ShellInvariance, PTL

(* However commands overlap and fail, each is accounted for once: by its   *)
(* prompt, its spawn, its read thread or its failure.                      *)
THEOREM PromptsAccounted == Spec => []PromptAccounting
<1>1. ShellInv => PromptAccounting
  BY DEF ShellInv
<1> QED
  BY <1>1, ShellInvariance, PTL

-----------------------------------------------------------------------------
(* The one read thread of a user who waits, and what it shows.             *)
Orderly == OneReader /\ ShownInOrder /\ OneAtATime

(* What the main thread leaves alone, and all it does to the read threads: *)
(* it starts one, at the end of a spawn.                                   *)
LEMMA MainFrame ==
  ASSUME MainStep
  PROVE  /\ UNCHANGED <<shown, taken, got>>
         /\ tpc' = tpc \/ StartThread
         /\ ~ahead' => ~ahead
<1>1. ASSUME NEW c \in Commands, EnterCommand(c)
      PROVE  UNCHANGED <<shown, taken, got, tpc>> /\ (~ahead' => ~ahead)
  BY <1>1 DEF EnterCommand, threadVars, childVars
<1>2. CASE TypeChar \/ Backspace \/ EnterExit \/ Exit \/ EndOfInput
  BY <1>2 DEF TypeChar, Backspace, EnterExit, Exit, EndOfInput, threadVars, childVars,
     historyVars
<1>3. CASE OpenPty \/ Fork \/ SetPid \/ SetRunning \/ StartThread
  BY <1>3 DEF OpenPty, Fork, SetPid, SetRunning, StartThread, threadVars, childVars,
     historyVars
<1>4. CASE OpenPtyFails \/ RunBuiltin \/ ForkFails \/ StartThreadFails
  BY <1>4 DEF OpenPtyFails, RunBuiltin, ForkFails, StartThreadFails, GiveUp, threadVars,
     childVars
<1> QED
  BY <1>1, <1>2, <1>3, <1>4 DEF MainStep, Spawn

(* Where the main thread can get to while the user waits. *)
LEMMA MainMoves ==
  ASSUME MainStep, ~ahead', tpc' = tpc, OneReader, OneAtATime
  PROVE  /\ mpc' \in SpawnSteps => Active = {}
         /\ mpc' \in SpawnSteps \ {"open"} => master' = cmd'
         /\ mpc' \in {"set_running", "thread"} => pid' = cmd'
         /\ Active = {} \/ (mpc' \in {"read", "exited"} /\ UNCHANGED <<master, pid>>)
<1> ~ahead
  BY MainFrame
<1> USE DEF SpawnSteps, OneReader, OneAtATime, execVars, Reading
<1>1. CASE TypeChar \/ Backspace \/ EnterExit \/ Exit \/ EndOfInput
  BY <1>1 DEF TypeChar, Backspace, EnterExit, Exit, EndOfInput
<1>2. ASSUME NEW c \in Commands, EnterCommand(c)
      PROVE  Active = {} /\ mpc' = "open"
  BY <1>2 DEF EnterCommand, Quiet
<1>3. CASE OpenPty
  BY <1>3 DEF OpenPty
<1>4. CASE OpenPtyFails \/ RunBuiltin \/ ForkFails \/ StartThreadFails
  <2>1. Active = {} /\ mpc' = "read"
    BY <1>4 DEF OpenPtyFails, RunBuiltin, ForkFails, StartThreadFails, GiveUp, BackToReading
  <2> QED
    BY <2>1
<1>5. CASE Fork
  BY <1>5 DEF Fork
<1>6. CASE SetPid
  BY <1>6 DEF SetPid
<1>7. CASE SetRunning
  BY <1>7 DEF SetRunning
<1>8. CASE StartThread
  <2>1. Active = {} /\ mpc' = "read"
    BY <1>8 DEF StartThread, BackToReading
  <2> QED
    BY <2>1
<1> QED
  BY <1>1, <1>2, <1>3, <1>4, <1>5, <1>6, <1>7, <1>8 DEF MainStep, Spawn

LEMMA MainOrderly ==
  ASSUME TypeOK, CommandsInOrder, Orderly, MainStep
  PROVE  Orderly'
<1> SUFFICES ASSUME ~ahead'
             PROVE  Orderly'
  BY DEF Orderly, OneReader, ShownInOrder, OneAtATime
<1>1. ~ahead /\ UNCHANGED <<shown, taken, got>> /\ (tpc' = tpc \/ StartThread)
  BY MainFrame
<1>2. ShownInOrder'
  BY <1>1 DEF Orderly, ShownInOrder
<1>3. CASE tpc' = tpc
  <2>1. Active' = Active
    BY <1>3 DEF Active
  <2>2. /\ mpc' \in SpawnSteps => Active = {}
        /\ mpc' \in SpawnSteps \ {"open"} => master' = cmd'
        /\ mpc' \in {"set_running", "thread"} => pid' = cmd'
        /\ Active = {} \/ (mpc' \in {"read", "exited"} /\ UNCHANGED <<master, pid>>)
    BY <1>3, MainMoves DEF Orderly
  <2>3. OneReader'
    BY <1>1, <2>1, <2>2 DEF Orderly, OneReader
  <2>4. OneAtATime'
    BY <1>1, <1>3, <2>1, <2>2 DEF Orderly, OneAtATime
  <2> QED
    BY <1>2, <2>3, <2>4 DEF Orderly
<1>4. CASE StartThread
  <2>1. /\ mpc = "thread" /\ mpc' = "read" /\ UNCHANGED <<master, pid>>
        /\ tpc' = [tpc EXCEPT ![cmd] = "start"]
    BY <1>4 DEF StartThread, BackToReading, execVars
  <2>2. Active = {} /\ master = cmd /\ pid = cmd
    BY <1>1, <2>1 DEF Orderly, OneAtATime, SpawnSteps
  <2>3. cmd \in Commands /\ tpc[cmd] = "none"
    BY <2>1 DEF CommandsInOrder, SpawnSteps
  <2>4. Active' = {cmd}
    BY <2>1, <2>2, <2>3 DEF TypeOK, Active
  <2>5. OneReader'
    BY <2>1, <2>2, <2>4 DEF OneReader
  <2>6. OneAtATime'
    BY <1>1, <2>1, <2>3 DEF Orderly, OneAtATime, TypeOK, SpawnSteps
  <2> QED
    BY <1>2, <2>5, <2>6 DEF Orderly
<1> QED
  BY <1>1, <1>3, <1>4

(* What a read thread does to the chunks: it reads one from the pty that   *)
(* master_fd names, or shows the one it has.                               *)
LEMMA ThreadChunks ==
  ASSUME TypeOK, NEW c \in Commands, ReadThread(c)
  PROVE  /\ UNCHANGED <<mpc, cmd, master, pid, ahead>>
         /\ tpc' = [tpc EXCEPT ![c] = tpc'[c]]
         /\ \/ Read(c)
            \/ Dispatch(c)
            \/ /\ UNCHANGED <<shown, taken, got>>
               /\ tpc[c] # "dispatch" /\ tpc'[c] # "dispatch"
<1> tpc \in [Commands -> ThreadSteps]
  BY DEF TypeOK
<1> USE DEF GoTo, execVars, threadVars, childVars, historyVars
<1>1. CASE Start(c)
  BY <1>1 DEF Start
<1>2. CASE Check(c)
  BY <1>2 DEF Check
<1>3. CASE Poll(c)
  BY <1>3 DEF Poll
<1>4. CASE Read(c)
  BY <1>4 DEF Read
<1>5. CASE ReadFails(c)
  BY <1>5 DEF ReadFails
<1>6. CASE Dispatch(c)
  BY <1>6 DEF Dispatch
<1>7. CASE Reap(c)
  BY <1>7 DEF Reap
<1>8. CASE NothingToReap(c)
  BY <1>8 DEF NothingToReap
<1>9. CASE ClearRunning(c)
  BY <1>9 DEF ClearRunning
<1>10. CASE Finish(c)
  BY <1>10 DEF Finish
<1>11. \/ Start(c) \/ Check(c) \/ Poll(c) \/ Read(c) \/ ReadFails(c) \/ Dispatch(c)
       \/ Reap(c) \/ NothingToReap(c) \/ ClearRunning(c) \/ Finish(c)
  BY DEF ReadThread
<1> HIDE DEF GoTo, ThreadSteps, execVars, historyVars
<1> QED
  BY <1>1, <1>2, <1>3, <1>4, <1>5, <1>6, <1>7, <1>8, <1>9, <1>10, <1>11

LEMMA ThreadOrderly ==
  ASSUME TypeOK, CommandsInOrder, Orderly, NEW c \in Commands, ReadThread(c)
  PROVE  Orderly'
<1>1. /\ UNCHANGED <<mpc, cmd, master, pid, ahead>>
      /\ tpc' = [tpc EXCEPT ![c] = tpc'[c]]
      /\ \/ Read(c)
         \/ Dispatch(c)
         \/ /\ UNCHANGED <<shown, taken, got>>
            /\ tpc[c] # "dispatch" /\ tpc'[c] # "dispatch"
  BY ThreadChunks
<1> SUFFICES ASSUME ~ahead
             PROVE  Orderly'
  BY <1>1 DEF Orderly, OneReader, ShownInOrder, OneAtATime
<1>2. c \in Active
  BY ThreadFrame DEF Active
<1>3. Active = {c} /\ master = c /\ pid = c /\ mpc \in {"read", "exited"}
  BY <1>2 DEF Orderly, OneReader
<1>4. \A d \in Commands : d # c => tpc'[d] = tpc[d]
  BY <1>1 DEF TypeOK
<1>5. Active' \subseteq {c}
  BY <1>3, <1>4 DEF Active
<1>6. OneReader'
  BY <1>1, <1>3, <1>5 DEF OneReader
<1>7. mpc' \notin SpawnSteps /\ mpc' \notin {"set_running", "thread"}
  BY <1>1, <1>3 DEF SpawnSteps
<1> DEFINE Streamed(d) ==
      /\ \A i \in DOMAIN shown[d] : shown[d][i] = i
      /\ IF tpc[d] = "dispatch"
         THEN got[d] = <<d, taken[d]>> /\ taken[d] = Len(shown[d]) + 1
         ELSE taken[d] = Len(shown[d])
<1>8. \A d \in Commands : Streamed(d)
  BY DEF Orderly, ShownInOrder, OneAtATime
<1>9. ASSUME NEW d \in Commands, d # c
      PROVE  Streamed(d)'
  <2>1. shown'[d] = shown[d] /\ taken'[d] = taken[d] /\ got'[d] = got[d]
    <3>1. CASE Read(c)
      BY <1>3, <1>9, <3>1 DEF Read, TypeOK, Ids, historyVars
    <3>2. CASE Dispatch(c)
      <4>1. got[c] = <<c, taken[c]>>
        BY <1>8, <3>2 DEF Dispatch, GoTo
      <4>2. got[c][1] = c
        BY <4>1
      <4> QED
        BY <1>9, <3>2, <4>2 DEF Dispatch, TypeOK, childVars
    <3> QED
      BY <1>1, <3>1, <3>2
  <2>2. tpc'[d] = tpc[d] /\ Streamed(d)
    BY <1>4, <1>8, <1>9
  <2> QED
    BY <2>1, <2>2
<1>10. Streamed(c)'
  <2>1. Streamed(c) /\ shown[c] \in Seq(Nat) /\ taken[c] \in Nat
    BY <1>8 DEF TypeOK, Ids
  <2>2. CASE Read(c)
    <3>1. /\ tpc[c] = "read" /\ tpc'[c] = "dispatch"
          /\ taken' = [taken EXCEPT ![c] = taken[c] + 1]
          /\ got' = [got EXCEPT ![c] = <<c, taken[c] + 1>>]
          /\ shown' = shown
      BY <1>3, <2>2 DEF Read, GoTo, TypeOK, historyVars
    <3>2. taken'[c] = taken[c] + 1 /\ got'[c] = <<c, taken[c] + 1>>
      BY <3>1 DEF TypeOK, Ids
    <3> QED
      BY <2>1, <3>1, <3>2
  <2>3. CASE Dispatch(c)
    <3>1. /\ tpc[c] = "dispatch" /\ tpc'[c] = "wait" /\ taken' = taken
          /\ shown' = [shown EXCEPT ![got[c][1]] = Append(@, got[c][2])]
      BY <2>3 DEF Dispatch, GoTo, TypeOK, childVars
    <3>2. got[c] = <<c, taken[c]>> /\ taken[c] = Len(shown[c]) + 1
      BY <2>1, <3>1
    <3>3. got[c][1] = c /\ got[c][2] = taken[c]
      BY <3>2
    <3>4. shown'[c] = Append(shown[c], taken[c])
      BY <3>1, <3>3 DEF TypeOK
    <3> DEFINE q == shown[c]
               n == taken[c]
    <3>5. q \in Seq(Nat) /\ n = Len(q) + 1 /\ \A i \in DOMAIN q : q[i] = i
      BY <2>1, <3>2
    <3> HIDE DEF q, n
    <3>6. Len(Append(q, n)) = n /\ \A i \in DOMAIN Append(q, n) : Append(q, n)[i] = i
      <4>1. n \in Nat
        BY <3>5
      <4>2. /\ Len(Append(q, n)) = Len(q) + 1
            /\ \A i \in 1 .. Len(q) + 1 :
                 Append(q, n)[i] = IF i <= Len(q) THEN q[i] ELSE n
        BY <3>5, <4>1
      <4>3. DOMAIN Append(q, n) = 1 .. Len(q) + 1 /\ DOMAIN q = 1 .. Len(q)
        BY <3>5, <4>1
      <4>4. ASSUME NEW i \in 1 .. Len(q) + 1
            PROVE  Append(q, n)[i] = i
        BY <3>5, <4>2, <4>3
      <4> QED
        BY <3>5, <4>2, <4>3, <4>4
    <3>7. shown'[c] = Append(q, n) /\ taken'[c] = n
      BY <3>1, <3>4 DEF q, n
    <3> QED
      BY <3>1, <3>6, <3>7
  <2>4. CASE /\ UNCHANGED <<shown, taken, got>>
             /\ tpc[c] # "dispatch" /\ tpc'[c] # "dispatch"
    BY <2>1, <2>4
  <2> QED
    BY <1>1, <2>2, <2>3, <2>4
<1>11. \A d \in Commands : Streamed(d)'
  BY <1>9, <1>10
<1>12. ShownInOrder' /\ OneAtATime'
  BY <1>7, <1>11 DEF ShownInOrder, OneAtATime
<1> QED
  BY <1>6, <1>12 DEF Orderly

LEMMA OrderlyUntouched ==
  ASSUME Orderly, UNCHANGED <<mpc, cmd, master, pid, ahead, shown, taken, got, tpc>>
  PROVE  Orderly'
BY DEF Orderly, OneReader, ShownInOrder, OneAtATime, Active

LEMMA NextOrderly == ShellInv /\ Orderly /\ [Next]_vars => Orderly'
<1> SUFFICES ASSUME ShellInv, Orderly, [Next]_vars
             PROVE  Orderly'
  OBVIOUS
<1>1. CASE MainStep
  BY <1>1, MainOrderly DEF ShellInv
<1>2. ASSUME NEW c \in Commands, ReadThread(c)
      PROVE  Orderly'
  BY <1>2, ThreadOrderly DEF ShellInv
<1>3. ASSUME NEW c \in Programs, Child(c)
      PROVE  Orderly'
  <2>1. UNCHANGED <<mpc, cmd, master, pid, ahead, shown, taken, got, tpc>>
    BY <1>3 DEF Child, Write, ChildExit, execVars, threadVars, historyVars
  <2> QED
    BY <2>1, OrderlyUntouched
<1>4. CASE Terminating \/ UNCHANGED vars
  <2>1. UNCHANGED <<mpc, cmd, master, pid, ahead, shown, taken, got, tpc>>
    BY <1>4 DEF Terminating, vars, execVars, threadVars, childVars, historyVars
  <2> QED
    BY <2>1, OrderlyUntouched
<1> QED
  BY <1>1, <1>2, <1>3, <1>4 DEF Next, MainStep

LEMMA InitOrderly == Init => Orderly
<1> SUFFICES ASSUME Init
             PROVE  Orderly
  OBVIOUS
<1>1. /\ mpc = "read" /\ Active = {}
      /\ \A c \in Commands : tpc[c] = "none" /\ shown[c] = << >> /\ taken[c] = 0
  BY DEF Init, Active, Ids
<1>2. OneReader
  BY <1>1 DEF OneReader
<1>3. ShownInOrder
  BY <1>1 DEF ShownInOrder
<1>4. OneAtATime
  <2>1. Len(<< >>) = 0
    OBVIOUS
  <2> QED
    BY <1>1, <2>1 DEF OneAtATime, SpawnSteps
<1> QED
  BY <1>2, <1>3, <1>4 DEF Orderly

(* A user who waits has one read thread at a time, whose descriptor and    *)
(* pid nobody else has taken over, whatever fails (executer.c:30-118).     *)
THEOREM OneReaderAtATime == Spec => []OneReader
<1>1. Orderly => OneReader
  BY DEF Orderly
<1> QED
  BY <1>1, InitOrderly, NextOrderly, ShellInvariance, PTL DEF Spec

(* What his programs write is shown in order and nothing of it twice or    *)
(* left out before what is shown (executer.c:44-60).                       *)
THEOREM OutputInOrder == Spec => []ShownInOrder
<1>1. Orderly => ShownInOrder
  BY DEF Orderly
<1> QED
  BY <1>1, InitOrderly, NextOrderly, ShellInvariance, PTL DEF Spec

=============================================================================
