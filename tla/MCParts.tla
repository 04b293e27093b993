------------------------------- MODULE MCParts -------------------------------
(* The small parts of the system that share nothing, for TLC: a behaviour  *)
(* follows one of them, the others stay in their initial states.           *)
EXTENDS CommandLine, ServerContext, ShellUi, SharedData, Status, Terminal, Heredoc

VARIABLE part

Parts == {"command", "context", "ui", "shared", "status", "terminal", "heredoc"}

(* Lines of at most three characters, and some of interest.                *)
MCLines ==
  UNION {[1 .. n -> {" ", "|", ">", "a"}] : n \in 0 .. 3}
    \cup {<<"a", "|", "a", "|", "a">>, <<"<", " ", "a", "|", ">", "a">>,
          <<"a", ">", " ", "a", "|", "a">>, <<"a", " ", ">", " ", "a", "|", "a">>,
          <<"a", "a", " ", "<", "|", "<", " ", "a", " ", "a">>}

(* Output that fills the buffer, ends lines both ways and stops within one. *)
MCScripts ==
  ({<< >>, <<"k">>} \X {<< >>, <<"a">>, <<"\n">>, <<"a", "b", "\n">>,
                       <<"\r", "\n", "a">>, <<"a", "b", "c", "\n">>})
    \cup ({<<"k", "k">>} \X {<<"a">>, <<"\n">>})

(* Two enumerators of a field, one with the highest bit of it.             *)
Field(low, high) == {{low}, {low + 1, high}}
MCCats == Field(48, 63)
MCCnds == Field(32, 47)
MCIds == Field(16, 31)
MCFlgs == Field(0, 15)

Spare == <<commandVars, ctxVars, uiVars, sharedVars, statusVars, terminalVars, heredocVars>>

Init ==
  /\ part \in Parts
  /\ CommandInit /\ ContextInit /\ SharedInit /\ TerminalInit /\ HeredocInit
  /\ IF part = "ui" THEN UiInit
     ELSE UiInit /\ \A t \in UiThreads : todo[t] = << >>
  /\ IF part = "status" THEN StatusInit
     ELSE StatusInit /\ st = init_status(CHOOSE c \in Cats : TRUE)
  /\ part # "shared" => mode = "pure"

Unless(name, vars) == IF part = name THEN TRUE ELSE UNCHANGED vars

Others ==
  /\ part' = part
  /\ Unless("command", commandVars) /\ Unless("context", ctxVars)
  /\ Unless("ui", uiVars) /\ Unless("shared", sharedVars)
  /\ Unless("status", statusVars) /\ Unless("terminal", terminalVars)
  /\ Unless("heredoc", heredocVars)

Next ==
  \/ part = "command" /\ CommandNext /\ Others
  \/ part = "context" /\ ContextNext /\ Others
  \/ part = "ui" /\ UiNext /\ Others
  \/ part = "shared" /\ SharedNext /\ Others
  \/ part = "status" /\ StatusNext /\ Others
  \/ part = "terminal" /\ TerminalNext /\ Others
  \/ part = "heredoc" /\ HeredocNext /\ Others

Spec == Init /\ [][Next]_<<part, Spare>> /\ CommandFair /\ TerminalFair
=============================================================================
