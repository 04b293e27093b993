------------------------------ MODULE MCShell ------------------------------
(* Small instances of Shell for TLC. *)
EXTENDS Shell, TLC

(* Programs are interchangeable, and so are built-ins. *)
ShellSymmetry == Permutations(Programs) \cup Permutations(Builtins)
=============================================================================
