------------------------------ MODULE Branches ------------------------------
(* How branches to labels get their form over the passes (instruction.c,     *)
(* the part of instruction behind ADR_REL, and longjump.c).  A branch too    *)
(* far away is turned around and put over a jump, or goes to such a jump of  *)
(* a branch before; an always taken one becomes a jump, a return, the first  *)
(* byte of an instruction that takes the next one for its operand, or        *)
(* nothing at all.  Distances forward are those of the pass before.          *)
EXTENDS Integers, Sequences, SequencesExt, Folds

CONSTANTS Reach,      (* a branch gets from -Reach to Reach - 1 (128)       *)
          Top,        (* the addresses (16 bits)                            *)
          MaxPass,
          Sources     (* [chip, longbranch, lines]                          *)

(* A line: its label, what it is, what it goes to, a number and a size.      *)
Line(label, op, to, n, w) == [label |-> label, op |-> op, to |-> to, n |-> n, w |-> w]

VARIABLES source, row, turn,   (* what is assembled, the line and the pass  *)
          place, shift,        (* where in memory, and what .logical adds   *)
          piece,               (* which .logical                            *)
          labels, looked,      (* Code objects; labels read in this pass    *)
          stars,               (* where a branch ended in the pass before   *)
          jumps,               (* the jumps that branches may share         *)
          code, before,        (* what was assembled, and in the last pass  *)
          fixed,               (* fixeddig                                  *)
          troubles,            (* errors of this pass                       *)
          stage

branchVars == <<source, row, turn, place, shift, piece, labels, looked, stars, jumps, code, before, fixed, troubles, stage>>

Now == source.lines[row]
Chip == source.chip
star == (place + shift) % Top
Total(c) == FoldLeft(LAMBDA n, i: n + i.len, 0, c)
Near(d) == d \in -Reach..(Reach - 1)
Signed16(d) == LET m == d % Top IN IF 2 * m >= Top THEN m - Top ELSE m

-----------------------------------------------------------------------------
(* Labels: a line defines its label first, and knows its size at its end     *)
(* (create_code, update_code and set_size).                                  *)

Unseen == [addr |-> -1, apass |-> 0, size |-> 0, place |-> 0, sized |-> 0]

AtLine == IF Now.label = "" THEN labels
          ELSE [labels EXCEPT ![Now.label].addr = star, ![Now.label].apass = turn]

Unknown == Now.to # "" /\ AtLine[Now.to].addr = -1
IsCode == Now.to # "" /\ ~Unknown
Ahead == IsCode /\ AtLine[Now.to].apass # turn
target == IF Unknown \/ Now.to = "" THEN Now.n ELSE AtLine[Now.to].addr

(* What stands at the label, if it is one byte: for a label ahead this is    *)
(* what stood there in the last pass.                                        *)
code_opcode ==
  LET l == AtLine[Now.to]
      memory == IF l.sized = turn THEN code ELSE before
  IN IF l.size # 1 THEN "none"
     ELSE LET at == SelectSeq(memory, LAMBDA i: i.place = l.place /\ i.len > 0)
          IN IF at # <<>> THEN at[1].op ELSE "none"
GivesBack == IsCode /\ code_opcode = "rts"

-----------------------------------------------------------------------------
(* What is assembled: an instruction where it stands, and where it goes.     *)
(* "if" branches as the source says, "unless" the other way round, "skip" is *)
(* never taken and has the next bytes for its operand.                       *)

Ins(op, len, to) == [op |-> op, len |-> len, to |-> to % Top, at |-> star, place |-> place, piece |-> piece, row |-> row]
After(i, j) == <<i, [j EXCEPT !.at = (@ + i.len) % Top, !.place = @ + i.len]>>

Cond == Now.op \in {"bxx", "bbx", "gxx"}
Gcc == Now.op \in {"gxx", "gra"}                     \* ADR_ADDR
InsLength == IF Now.op = "bbx" THEN 3 ELSE 2
RelL == Chip = "65ce02" /\ Now.op \in {"bxx", "bra"}   \* ADR_REL_L
IsBranch == stage = "pass" /\ row <= Len(source.lines) /\ Now.op \in {"bxx", "bbx", "bra", "gxx", "gra"}

(* A branch forward is measured from where it ended in the last pass, as the *)
(* label is of that pass too.                                                *)
Starred == Unknown \/ (Ahead /\ ~RelL)
Displacement == IF Unknown THEN 0
            ELSE IF Starred /\ stars[row] # -1 THEN Signed16(target - stars[row])
            ELSE Signed16(target - star - InsLength)
Short == Near(Displacement) /\ Now.w # 1

(* The end of a line: st is where the branch ends.                           *)
EndsAt(c) == (star + Total(c)) % Top
Put(c, table, errs) ==
  LET size == Total(c)
      moved == Starred /\ stars[row] # -1 /\ stars[row] # EndsAt(c)
      old == IF Now.label = "" THEN Unseen ELSE labels[Now.label]
      redefined == Now.label # "" /\ (old.addr = -1 \/ old.size # size \/ (old.addr # star /\ Now.label \in looked))
  IN /\ code' = code \o c
     /\ place' = place + size
     /\ stars' = IF Starred /\ IsBranch THEN [stars EXCEPT ![row] = EndsAt(c)] ELSE stars
     /\ labels' = IF Now.label = "" THEN labels
                  ELSE [AtLine EXCEPT ![Now.label].size = size, ![Now.label].place = place, ![Now.label].sized = turn]
     /\ looked' = IF Now.to = "" THEN looked ELSE looked \cup {Now.to}
     /\ fixed' = (fixed /\ ~redefined /\ ~(IsBranch /\ moved))
     /\ jumps' = table
     /\ troubles' = troubles \cup errs
     /\ row' = row + 1
     /\ UNCHANGED <<source, turn, before, stage, shift, piece>>
Gives(c) == Put(c, jumps, {})

-----------------------------------------------------------------------------
(* Jumps that can be shared, by what they go to (new_longjump).              *)

Shared == {j \in jumps: j.to = target /\ j.label = Now.to}
SharedNow == {j \in Shared: j.pass = turn}
InReach == {j \in SharedNow: IsCode /\ Near(Signed16(j.dest - star - InsLength))}
Sharing(dest) == IF IsCode THEN (jumps \ Shared) \cup {[to |-> target, label |-> Now.to, dest |-> dest % Top, pass |-> turn]}
                 ELSE jumps

-----------------------------------------------------------------------------
(* The forms of a branch.                                                    *)

Special == Gcc /\ Now.w = 3 /\ IsCode
Swallows == IF Now.op = "gxx" THEN Displacement = 1 \/ (Displacement = 2 /\ Chip = "65ce02")
            ELSE Displacement = 1 /\ Chip = "r65c02"

Direct ==
  /\ IsBranch /\ Short
  /\ Special => ~GivesBack /\ ~(Ahead /\ (Displacement = 0 \/ Swallows))
  /\ Gives(<<Ins("if", InsLength, star + InsLength + Displacement)>>)
Omitted ==
  /\ IsBranch /\ Short /\ Special /\ Ahead /\ Displacement = 0
  /\ Gives(<<Ins("", 0, 0)>>)
Return ==
  /\ IsBranch /\ Short /\ Special /\ ~(Ahead /\ Displacement = 0) /\ GivesBack
  /\ Gives(<<Ins("rts", 1, 0)>>)
Skip ==
  /\ IsBranch /\ Short /\ Special /\ ~GivesBack /\ Ahead /\ Swallows
  /\ Gives(<<Ins("skip", Displacement, star + 2 * Displacement)>>)

LongRelative ==
  /\ IsBranch /\ ~Short /\ RelL /\ Now.w \in {1, 3}
  /\ Gives(<<Ins("if", 3, star + InsLength + Displacement)>>)
Fake == IsBranch /\ ~Short /\ ~(RelL /\ Now.w \in {1, 3}) /\ source.longbranch /\ ~Gcc /\ Now.w = 3
Reuse ==
  /\ Fake /\ Cond
  /\ \E j \in InReach: Gives(<<Ins("if", InsLength, j.dest)>>)
OverJump ==
  /\ Fake /\ Cond /\ InReach = {}
  /\ LET over == IF GivesBack THEN Ins("rts", 1, 0) ELSE Ins("jump", 3, target)
     IN Put(After(Ins("unless", InsLength, star + InsLength + over.len), over), Sharing(star + InsLength), {})
AsJump ==
  /\ IsBranch /\ ~Short /\ (Gcc \/ (Fake /\ ~Cond))
  /\ IF GivesBack THEN Put(<<Ins("rts", 1, 0)>>, Sharing(star), {})
     ELSE Put(IF Now.w = 0 THEN <<>> ELSE <<Ins("jump", 3, target)>>, jumps, IF Now.w = 0 THEN {"size"} ELSE {})
TooFar ==
  /\ IsBranch /\ ~Short /\ ~(RelL /\ Now.w \in {1, 3}) /\ ~Fake /\ ~Gcc
  /\ Put(<<Ins("if", InsLength, star + InsLength + Displacement)>>, jumps, {"too far"})

(* Other lines.  One that varies is a return until some pass, as a           *)
(* condition on a value that changes would make it.                          *)
Other ==
  /\ stage = "pass" /\ row <= Len(source.lines)
  /\ \/ Now.op = "bytes" /\ Gives(<<Ins("other", Now.n, 0)>>)
     \/ Now.op = "return" /\ Gives(<<Ins("rts", 1, 0)>>)
     \/ Now.op = "" /\ Gives(<<>>)
Varying ==
  /\ stage = "pass" /\ row <= Len(source.lines) /\ Now.op = "vary"
  /\ Gives(<<Ins(IF turn < Now.n THEN "rts" ELSE "other", 1, 0)>>)
Logical ==
  /\ stage = "pass" /\ row <= Len(source.lines) /\ Now.op = "logical"
  /\ shift' = Now.n - place /\ piece' = row
  /\ row' = row + 1
  /\ UNCHANGED <<source, turn, place, labels, looked, stars, jumps, code, before, fixed, troubles, stage>>

(* one_pass and the loop of main2.                                           *)
Varies == \E k \in DOMAIN source.lines: source.lines[k].op = "vary" /\ source.lines[k].n > turn
PassOver ==
  /\ stage = "pass" /\ row > Len(source.lines)
  /\ IF fixed /\ ~Varies THEN stage' = "done" /\ UNCHANGED <<row, turn, place, looked, code, before, fixed, troubles>>
     ELSE IF turn = MaxPass THEN stage' = "gave up" /\ UNCHANGED <<row, turn, place, looked, code, before, fixed, troubles>>
     ELSE /\ turn' = turn + 1 /\ row' = 1 /\ place' = 0 /\ looked' = {}
          /\ code' = <<>> /\ before' = code /\ fixed' = TRUE /\ troubles' = {}
          /\ UNCHANGED stage
  /\ shift' = 0 /\ piece' = 0
  /\ UNCHANGED <<source, labels, stars, jumps>>

BranchInit ==
  /\ source \in Sources
  /\ row = 1 /\ turn = 1 /\ place = 0 /\ shift = 0 /\ piece = 0
  /\ labels = [l \in {source.lines[k].label: k \in DOMAIN source.lines} \ {""} |-> Unseen]
  /\ looked = {} /\ stars = [k \in DOMAIN source.lines |-> -1] /\ jumps = {}
  /\ code = <<>> /\ before = <<>> /\ fixed = TRUE /\ troubles = {} /\ stage = "pass"
Over == stage \in {"done", "gave up"} /\ UNCHANGED branchVars

(* Nothing to assemble.                                                      *)
NoSource == [chip |-> "none", longbranch |-> FALSE, lines |-> <<>>]
BranchIdle ==
  /\ source = NoSource /\ stage = "idle"
  /\ row = 0 /\ turn = 0 /\ place = 0 /\ shift = 0 /\ piece = 0
  /\ labels = <<>> /\ looked = {} /\ stars = <<>> /\ jumps = {}
  /\ code = <<>> /\ before = <<>> /\ fixed = TRUE /\ troubles = {}
BranchNext ==
  Direct \/ Omitted \/ Return \/ Skip \/ LongRelative \/ Reuse \/ OverJump \/ AsJump \/ TooFar
    \/ Other \/ Varying \/ Logical \/ PassOver \/ Over
BranchSpec == BranchInit /\ [][BranchNext]_branchVars

-----------------------------------------------------------------------------

=============================================================================
