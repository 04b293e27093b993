------------------------------ MODULE MCServer ------------------------------
(* Server for TLC: a client sends up to two packets, of which the first    *)
(* may have a wrong magic and a payload.                                   *)
EXTENDS Server

MCPlans ==
  {<< >>, <<"right", "full", "data", "rest">>,
   <<"wrong", "half", "rest", "right", "none">>}
=============================================================================
