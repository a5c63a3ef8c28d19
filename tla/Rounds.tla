------------------------------- MODULE Rounds -------------------------------
(***************************************************************************)
(* The state of the passes that the tables of names and of encodings       *)
(* share, and the loop over the passes (main2 and one_pass in 64tass.c;    *)
(* module Passes has the loop in full, with the pass for the listing).     *)
(*                                                                         *)
(* What the statements of a pass are may depend on values of the pass      *)
(* before, so every pass is any sequence of the source's statements.       *)
(***************************************************************************)
EXTENDS Integers

CONSTANT MaxPass  \* max_pass: after so many passes nothing may change any more

VARIABLES pass,          \* the number of the pass, from 1
          fixeddig,      \* nothing that the pass before had has changed
          constcreated,  \* the pass has made or revived a constant
          failed,        \* an error was reported in the pass
          done,          \* the loop over the passes has ended
          steps          \* the statements that the pass has had
rounds == <<pass, fixeddig, constcreated, failed, done, steps>>

RoundsInit ==
  /\ pass = 1 /\ fixeddig = TRUE /\ constcreated = FALSE
  /\ failed = FALSE /\ done = FALSE /\ steps = 0

\* "fixeddig && pass > max_pass": there should be no changes left.
TooLate(fixed) == fixed /\ pass > MaxPass

\* length: bound on the statements of a pass
Running(length) == ~done /\ steps < length

\* Another pass, when something changed, a constant is new, or something of the pass
\* before was read and not defined again.
Again(forwards) ==
  /\ forwards \/ ~fixeddig \/ constcreated
  /\ pass <= MaxPass
  /\ pass' = pass + 1 /\ steps' = 0
  /\ fixeddig' = TRUE /\ constcreated' = FALSE /\ failed' = FALSE
  /\ UNCHANGED done

\* The loop ends, with an error when the passes are used up.
Enough(forwards) ==
  /\ done' = TRUE
  /\ LET again == forwards \/ ~fixeddig \/ constcreated
     IN /\ again => pass > MaxPass
        /\ failed' = (failed \/ again)
        /\ fixeddig' = (fixeddig /\ ~forwards)
  /\ UNCHANGED <<pass, constcreated, steps>>
=============================================================================
