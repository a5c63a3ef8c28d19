------------------------------ MODULE Sections ------------------------------
(***************************************************************************)
(* Where sections are put, over the passes (section_start, .dsection,      *)
(* section.c, and the end of one_pass).                                    *)
(*                                                                         *)
(* A fragment of a section may come before the line that places it, so it  *)
(* is assembled where the section was in the pass before and moved when    *)
(* .dsection is met; and .dsection leaves as much space as the fragments   *)
(* took in the pass before, or in this one up to there.  The passes end    *)
(* when a pass had nothing that another one could change.                  *)
(*                                                                         *)
(* What the lines assemble to may depend on values of symbols.  As long as *)
(* these are not settled they may be anything in the next pass.            *)
(***************************************************************************)
EXTENDS Integers, Sequences

CONSTANTS
  Names,      \* of sections
  Programs,   \* sequences of lines
  MaxMoves,   \* bound on the passes after which values may still change
  MaxPass     \* passes before giving up

LineType == [op : {"data", "section", "dsection"}, sec : Names,
             gap : BOOLEAN, var : BOOLEAN, logical : BOOLEAN]

ASSUME PassAssumption == MaxMoves \in Nat /\ MaxPass \in Nat /\ MaxMoves < MaxPass
ASSUME ProgramsAssumption == Programs \subseteq Seq(LineType)

VARIABLES
  prog,       \* the source
  amount,     \* what the values make of its lines in this pass, 1 or 2
  unsettled,  \* a value that was used changed in the pass before
  pc,         \* the line
  pass,
  fixeddig,   \* another pass would not change anything
  here,       \* current_address->address in the root section
  section,    \* the sections
  errors,
  stage,      \* "pass", "done", "gave up"
  reserved,   \* history: the space that .dsection left in this pass,
  shifted,    \* the sections it found at another place than in the pass before,
  before      \* and what the values made of the lines in the pass before

vars == <<prog, amount, unsettled, pc, pass, fixeddig, here, section, errors, stage,
          reserved, shifted, before>>

Line == prog[pc]
Logical == 9  \* the program counter in a .logical block, the same in each pass

-----------------------------------------------------------------------------
(***************************************************************************)
(* A section.  A block knows how far its first byte is from the beginning  *)
(* of the section, by the address that labels of the fragment have.        *)
(***************************************************************************)
NewSection == [usepass |-> 0, defpass |-> 0, restart |-> 0, l_restart |-> 0, size |-> 0,
               start |-> 0, end |-> 0, address |-> 0, moved |-> FALSE,
               blocks |-> <<>>, lastaddr |-> 0, pending |-> 0]
Higher(x, y) == IF x > y THEN x ELSE y
EndOf(s) == IF ~s.moved /\ s.end < s.address THEN s.address ELSE s.end

\* new_memblocks at an address
Emptied(s, a) == [s EXCEPT !.start = a, !.end = a, !.restart = a, !.address = a,
                           !.blocks = <<>>, !.pending = 0, !.lastaddr = a]

MemJmp(s, a) ==
  IF s.pending = 0 THEN [s EXCEPT !.lastaddr = a]
  ELSE [s EXCEPT !.blocks = Append(@, [addr |-> s.lastaddr, len |-> s.pending,
                                       off |-> s.address - s.pending - s.restart]),
                 !.pending = 0, !.lastaddr = a]
Poke(s, n) == [s EXCEPT !.address = @ + n, !.pending = @ + n, !.moved = FALSE]
Skip(s, n) == LET c == MemJmp(s, s.address + n) IN [c EXCEPT !.address = @ + n, !.moved = FALSE]

\* Mutant: one pass more is waited.
LostLate(s) == s.usepass = 0 \/ s.defpass + 1 < pass - 1

\* A section that was not placed in the last pass
Lost(s) == s.usepass = 0 \/ s.defpass < pass - 1

-----------------------------------------------------------------------------
NextLine(h) == pc' = pc + 1 /\ here' = h
Unmoved == UNCHANGED <<prog, amount, unsettled, pass, stage, before>>
At(op) == stage = "pass" /\ pc <= Len(prog) /\ Line.op = op

Data ==
  /\ At("data") /\ Unmoved
  /\ NextLine(here + amount[pc])
  /\ UNCHANGED <<fixeddig, section, errors, reserved, shifted>>

\* section_start with the lines of the fragment
Started(s) ==
  IF Lost(s) THEN [Emptied(s, here) EXCEPT !.size = 0, !.l_restart = here, !.defpass = pass - 1]
  ELSE IF s.usepass # pass
  THEN [Emptied(s, s.restart) EXCEPT !.size = EndOf(s) - s.start, !.moved = TRUE]
  ELSE s
Unknown(s) == Lost(s) /\ s.usepass # 0 /\ s.usepass >= pass - 1
Filled(s, n, gap) == IF gap THEN Poke(Skip(Poke(s, n), 1), 1) ELSE Poke(s, n)

Fragment ==
  /\ At("section") /\ Unmoved
  /\ LET s == section[Line.sec]
     IN /\ section' = [section EXCEPT ![Line.sec] =
                         [Filled(Started(s), amount[pc], Line.gap) EXCEPT !.usepass = pass]]
        /\ errors' = IF Unknown(s) THEN errors \cup {"not defined"} ELSE errors
        /\ fixeddig' = (fixeddig /\ (Lost(s) => Unknown(s)))
  /\ NextLine(here)
  /\ UNCHANGED <<reserved, shifted>>

\* .dsection when fragments came before in this pass
Space(s) == Higher(s.size, EndOf(s) - s.start)

Shifted(s, a) ==
  LET change == a - s.restart
  IN [s EXCEPT !.end = @ + change, !.address = @ + change, !.lastaddr = @ + change,
               !.start = a, !.restart = a]
\* and when they come after it
Restarted(s, a) == [Emptied(s, a) EXCEPT !.size = EndOf(s) - s.start, !.moved = TRUE]

\* Mutant: the program counter is not compared.
SteadyAlways(s, l) == TRUE

\* The program counter is what the fragments before were assembled for.
Steady(s, l) == s.l_restart = l

Dsection ==
  /\ At("dsection") /\ (Line.var => amount[pc] = 2) /\ Unmoved
  /\ LET n == Line.sec
         l == IF Line.logical THEN Logical ELSE here
         old == section[n]
         s == IF Lost(old)
              THEN [Emptied(old, here) EXCEPT !.moved = FALSE, !.l_restart = l, !.usepass = pass]
              ELSE old
         placed == IF s.usepass = pass THEN Shifted(s, here) ELSE Restarted(s, here)
         t == IF s.usepass = pass THEN Space(s) ELSE placed.size
     IN IF old.defpass = pass
        THEN /\ errors' = errors \cup {"double"}
             /\ NextLine(here)
             /\ UNCHANGED <<section, fixeddig, reserved, shifted>>
        ELSE /\ section' = [section EXCEPT ![n] = [placed EXCEPT !.l_restart = l, !.usepass = pass,
                                                                 !.defpass = pass]]
             /\ reserved' = [reserved EXCEPT ![n] = t]
             /\ shifted' = IF s.restart = here THEN shifted ELSE shifted \cup {n}
             /\ fixeddig' = (fixeddig /\ ~Lost(old) /\ Steady(s, l))
             /\ NextLine(here + t)
             /\ UNCHANGED errors
NoDsection ==
  /\ At("dsection") /\ Line.var /\ amount[pc] = 1 /\ Unmoved
  /\ NextLine(here)
  /\ UNCHANGED <<fixeddig, section, errors, reserved, shifted>>

-----------------------------------------------------------------------------
(***************************************************************************)
(* Passes.                                                                 *)
(***************************************************************************)
Amounts == {a \in [DOMAIN prog -> 1 .. 2] : \A i \in DOMAIN prog : a[i] = 2 => prog[i].var}

\* Mutant: bytes after the highest end so far are not counted.
SizesAgreeByEnd ==
  \A n \in Names : LET s == section[n] IN s.defpass = pass => s.size = s.end - s.start

\* section_sizecheck
SizesAgree ==
  \A n \in Names : LET s == section[n] IN s.defpass = pass => s.size = EndOf(s) - s.start

PassEnd ==
  /\ stage = "pass" /\ pc > Len(prog)
  /\ unsettled' \in IF pass <= MaxMoves THEN BOOLEAN ELSE {FALSE}
  /\ IF fixeddig /\ ~unsettled' /\ SizesAgree
     THEN /\ stage' = "done"
          /\ section' = [n \in Names |-> IF section[n].defpass = pass THEN MemJmp(section[n], 0)
                                         ELSE section[n]]
          /\ UNCHANGED <<amount, pc, pass, fixeddig, here, errors, reserved, shifted, before>>
     ELSE IF pass = MaxPass
     THEN /\ stage' = "gave up"
          /\ UNCHANGED <<amount, pc, pass, fixeddig, here, section, errors, reserved, shifted, before>>
     ELSE /\ pass' = pass + 1 /\ pc' = 1 /\ here' = 0
          /\ fixeddig' = TRUE /\ errors' = {}
          /\ reserved' = [n \in Names |-> 0] /\ shifted' = {} /\ before' = amount
          /\ IF unsettled' THEN amount' \in Amounts ELSE UNCHANGED amount
          /\ UNCHANGED <<section, stage>>
  /\ UNCHANGED prog

Init ==
  /\ prog \in Programs /\ amount \in Amounts
  /\ unsettled = FALSE /\ pc = 1 /\ pass = 1 /\ fixeddig = TRUE /\ here = 0
  /\ section = [n \in Names |-> NewSection] /\ errors = {} /\ stage = "pass"
  /\ reserved = [n \in Names |-> 0] /\ shifted = {} /\ before = amount

Next == Data \/ Fragment \/ Dsection \/ NoDsection \/ PassEnd
Spec == Init /\ [][Next]_vars

-----------------------------------------------------------------------------
(***************************************************************************)
(* Properties.                                                             *)
(***************************************************************************)
Assembled == stage = "done" /\ errors = {}

\* After the last pass in which a value changed, one finds out the sizes, one puts what
\* follows in its place, and one finds nothing to change.
PassesSuffice == MaxMoves + 3 <= MaxPass

\* A .dsection of the section is in a .logical block, which keeps the program counter
\* the same when the section moves.
Logically(n) ==
  \E i \in DOMAIN prog : prog[i].op = "dsection" /\ prog[i].sec = n /\ prog[i].logical

\* The bytes are where the labels say, and the space left is the space they take.
InPlace(n) ==
  LET s == section[n]
  IN /\ \A i \in DOMAIN s.blocks : s.blocks[i].addr = s.restart + s.blocks[i].off
     /\ reserved[n] = EndOf(s) - s.start

\* Each byte of a section is where the addresses used in the fragment say,
\* wherever the section was when it was assembled; and the space that .dsection
\* left is the space the fragments take, so that what follows is not overwritten.
\* The only sections that may be out of place are those that .logical kept from being
\* compared, and that came to another place in the last pass.
Placed ==
  Assembled => \A n \in Names :
    section[n].defpass = pass => InPlace(n) \/ (Logically(n) /\ n \in shifted)

\* README:2894 "All .section fragments are compiled to the memory area
\* allocated by the .dsection directive": with .logical as well.
AllPlaced == Assembled => \A n \in Names : section[n].defpass = pass => InPlace(n)

\* The section was placed in the pass before, by a .dsection that is not met in this one.
LeftOut(n) ==
  /\ section[n].defpass = pass - 1
  /\ \E i \in DOMAIN prog : /\ prog[i].op = "dsection" /\ prog[i].sec = n /\ prog[i].var
                            /\ before[i] = 2 /\ amount[i] = 1

\* A fragment whose section has no place is an error, whatever the passes did. The only
\* one that is lost without a word is of a section whose .dsection is under a condition that
\* was true in the pass before and is not in the last one.
NotLost ==
  Assembled => \A n \in Names : section[n].usepass = pass => section[n].defpass = pass \/ LeftOut(n)

\* README:2894, as above: no fragment is lost.
NoneLost == Assembled => \A n \in Names : section[n].usepass = pass => section[n].defpass = pass

\* The sections settle by themselves, soon after the values did.
Settles == stage # "gave up"
=============================================================================
