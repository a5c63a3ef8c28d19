------------------------------ MODULE MCBreaks ------------------------------
(***************************************************************************)
(* .break where MCWaitfor leaves it out: in a file that a loop includes.   *)
(***************************************************************************)
EXTENDS Waitfor

MCIncluding == {{"rept", "endrept", "break", "include", "eof"}}
=============================================================================
