------------------------------ MODULE MCTables ------------------------------
(***************************************************************************)
(* What the assembler keeps from pass to pass: sections with their places  *)
(* and sizes (Sections), the tables of names and of encodings (Tables),    *)
(* and the places of branches (Branches).  A behaviour is about one of     *)
(* these.                                                                  *)
(***************************************************************************)
EXTENDS MCSections, FiniteSets

CONSTANTS Ascii, Bound, Predefined, Buckets, str_hash, Cheap, Sources      \* of Tables
VARIABLES encodings, actual, efwcount, defs, texts, labels, spaces, stack, cheap, open, strength, fwcount, uses, marks,
          round, settled, constcreated, failed, done, rows, source
tables == <<encodings, actual, efwcount, defs, texts, labels, spaces, stack, cheap, open, strength, fwcount, uses, marks,
            round, settled, constcreated, failed, done, rows, source>>

\* What does not settle within two passes must not be taken as settled.
Found == INSTANCE Tables WITH MaxPass <- 2, pass <- round, fixeddig <- settled, steps <- rows
T == INSTANCE TableSources
MCPredefined == T!MCPredefined
MChash == T!MChash
MCSources == T!MCSources

CONSTANT BranchSources                                                     \* of Branches
VARIABLES lines, row, turn, place, shift, piece, code_labels, looked, stars, jumps, code, old_code, fixed, troubles, form
branches == <<lines, row, turn, place, shift, piece, code_labels, looked, stars, jumps, code, old_code, fixed, troubles, form>>

B == INSTANCE Branches WITH Reach <- 4, Top <- 64, MaxPass <- 8, Sources <- BranchSources, source <- lines,
       labels <- code_labels, before <- old_code, stage <- form

(* Programs of n lines, of which one defines the label, after a start.     *)
Sourced(chips, longs, alphabet, n, start) ==
  {[chip |-> c, longbranch |-> l, lines |-> start \o p] : c \in chips, l \in longs,
     p \in {q \in [1..n -> alphabet] : Cardinality({k \in 1..n : q[k].label = "a"}) = 1}}

Source(label, op, to, n, w) == [label |-> label, op |-> op, to |-> to, n |-> n, w |-> w]
Br(op, w) == Source("", op, "a", 0, w)
To(op, n) == Source("", op, "", n, 3)
Fill(n) == Source("", "bytes", "", n, 0)
Here == Source("a", "", "", 0, 0)
Exit == Source("a", "return", "", 0, 0)
Later == Source("a", "vary", "", 2, 0)
Moved == Source("", "logical", "", 40, 0)

MCBranchSources ==
  Sourced({"6502"}, {TRUE}, {Br("bxx", 3), Br("gxx", 3), Here, Exit, Fill(1), Fill(3)}, 5, <<>>)
  \cup Sourced({"6502", "65ce02"}, {TRUE}, {Br("bxx", 3), Br("gxx", 3), Br("bra", 3), Here, Fill(3)}, 5, <<>>)
  \cup Sourced({"r65c02"}, {TRUE}, {Br("bbx", 3), Br("gra", 3), Here, Exit, Fill(3)}, 5, <<>>)
  \cup Sourced({"6502", "65ce02"}, BOOLEAN,
                {Br("bxx", 0), Br("bxx", 1), Br("gxx", 0), Br("gxx", 3), To("bxx", 44), To("gra", 59), Later, Exit, Fill(3)},
                3, <<Moved>>)
  \cup Sourced({"6502"}, {TRUE}, {Br("bxx", 3), Moved, Here, Exit, Fill(3), Fill(6)}, 4, <<Moved, Br("bxx", 3), Moved>>)

-----------------------------------------------------------------------------
(* What a behaviour is not about stays as it is.                            *)
NoTables == /\ encodings = 0 /\ actual = 0 /\ efwcount = 0 /\ defs = 0 /\ texts = 0 /\ labels = 0 /\ spaces = 0
            /\ stack = 0 /\ cheap = 0 /\ open = 0 /\ strength = 0 /\ fwcount = 0 /\ uses = 0 /\ marks = 0
            /\ round = 0 /\ settled = 0 /\ constcreated = 0 /\ failed = 0 /\ done = 0 /\ rows = 0 /\ source = <<>>
NoSections == /\ prog = <<>> /\ amount = <<>> /\ unsettled = FALSE /\ pc = 0 /\ pass = 0 /\ fixeddig = TRUE
              /\ here = 0 /\ section = <<>> /\ errors = {} /\ stage = "none"
              /\ reserved = <<>> /\ shifted = {} /\ before = <<>>
AllInit == \/ Init /\ NoTables /\ B!BranchIdle
           \/ Found!Init /\ NoSections /\ B!BranchIdle
           \/ B!BranchInit /\ NoSections /\ NoTables
AllNext == \/ stage # "none" /\ Next /\ UNCHANGED <<tables, branches>>
           \/ source # <<>> /\ Found!Next /\ UNCHANGED <<vars, branches>>
           \/ form # "idle" /\ B!BranchNext /\ UNCHANGED <<vars, tables>>
AllSpec == AllInit /\ [][AllNext]_<<vars, tables, branches>>

(* Texts have the bytes of the definitions of the last pass (encobj.c).     *)
TextsSettle == source # <<>> => Found!TextsSettle
(* The trees of an encoding are balanced, and found in (avl.c).             *)
RangesFound == source # <<>> => Found!RangesFound
(* Names are the labels of the last pass (variables.c).                     *)
NamesSettle == source # <<>> => Found!NamesSettle
(* Anonymous labels are counted in their scope (variables.c).               *)
Nearest == source # <<>> => Found!Nearest
=============================================================================
