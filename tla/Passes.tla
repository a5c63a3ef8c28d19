------------------------------- MODULE Passes -------------------------------
(***************************************************************************)
(* The pass loop of the assembler (main2 and one_pass of 64tass.c) with    *)
(* the symbol table it iterates over.                                      *)
(*                                                                         *)
(* The source is assembled again and again until the values of all the     *)
(* symbols are stable.  Nothing compares two passes as a whole: stability  *)
(* is tracked by the flags fixeddig and constcreated, by the counter       *)
(* fwcount and by the defpass, usepass and fwpass numbers of each label,   *)
(* updated by the definitions and look-ups as they are met.  This module   *)
(* models that bookkeeping for programs made of data words, instructions   *)
(* whose length depends on the operand, constants, variables, code labels, *)
(* address assignments and conditionals, in one scope.                     *)
(*                                                                         *)
(* Code labels hold a reference to a mutable Code object, which update_code *)
(* changes in place and a constant can share ("b = a").                    *)
(***************************************************************************)
EXTENDS Naturals, Sequences, FiniteSets

CONSTANTS
  Name,      \* the symbols
  NoName,    \* stands for no symbol
  Programs,  \* the sources that may be assembled
  MaxPass,   \* the initial value of max_pass (MAX_PASS in 64tass.h)
  ZpTop,     \* the last address an instruction of two bytes can reach
  Listing,   \* whether a listing is asked for, which takes one more pass: a
             \* set of answers, as the options may be either
  Signals    \* whether SIGINT or SIGTERM may arrive

(***************************************************************************)
(* Expressions: a literal, a symbol, a symbol plus a literal.              *)
(***************************************************************************)
Expr == [sym : Name \cup {NoName}, plus : Nat]
Lit(k)     == [sym |-> NoName, plus |-> k]
Sym(n)     == [sym |-> n, plus |-> 0]
Plus(n, k) == [sym |-> n, plus |-> k]

(***************************************************************************)
(* Statements.  "if" compares arg with k and goes to no when they differ   *)
(* and to fi when the condition cannot be calculated; "jump" is the end of *)
(* the branch taken (.else) and goes to fi.                                *)
(***************************************************************************)
Ops == {"word", "instr", "const", "var", "label", "org", "if", "jump"}
Stmt == [op : Ops, name : Name \cup {NoName}, arg : Expr, k : Nat, no : Nat, fi : Nat]
S(op, n, e, k, no, fi) ==
  [op |-> op, name |-> n, arg |-> e, k |-> k, no |-> no, fi |-> fi]

WellFormed(p) ==
  /\ p \in Seq(Stmt)
  /\ \A i \in DOMAIN p :
       /\ p[i].op \in {"const", "var", "label"} => p[i].name \in Name
       /\ p[i].op = "if" => /\ p[i].no \in (i + 1) .. (Len(p) + 1)
                            /\ p[i].fi \in p[i].no .. (Len(p) + 1)
       /\ p[i].op = "jump" => p[i].fi \in (i + 1) .. (Len(p) + 1)

ASSUME NameAssumption == IsFiniteSet(Name) /\ NoName \notin Name
ASSUME ProgramsAssumption == \A p \in Programs : WellFormed(p)
ASSUME MaxPassAssumption == MaxPass \in Nat \ {0, 1}
ASSUME ZpTopAssumption == ZpTop \in Nat
ASSUME FlagsAssumption == Listing \subseteq BOOLEAN /\ Signals \in BOOLEAN

VARIABLES
  prog,          \* the source
  phase,         \* "assemble", "assembled", "list", "done" or "failed"
  pass, maxPass, \* pass, max_pass
  pc,            \* the line being assembled
  star,          \* the address of that line
  fixeddig,      \* no value read in this pass has changed since
  constcreated,  \* a symbol is defined that the previous pass did not define
  fwcount,       \* forward references whose definition is still to come
  label,         \* the symbol table (struct Label)
  code,          \* the Code objects
  errors,        \* the kinds of error of the current pass
  signal,        \* signal_received
  out,           \* what the current pass emitted
  seen,          \* history: the symbol values read in the current pass
  prevOut        \* history: what the last pass before the listing emitted

vars == <<prog, phase, pass, maxPass, pc, star, fixeddig, constcreated, fwcount,
          label, code, errors, signal, out, seen, prevOut>>
table == <<label, code>>
flags == <<fixeddig, constcreated, fwcount>>
control == <<prog, phase, pass, maxPass, signal, prevOut>>

(***************************************************************************)
(* Values.  "int" has its number in n; "code" refers to an object of the   *)
(* heap; "sum" is a Code object an expression has just made; "none" cannot *)
(* be calculated yet; "undef" is the error object of an unknown symbol.    *)
(***************************************************************************)
NoId == <<0, 0>>
Val(t, n, id) == [t |-> t, n |-> n, id |-> id, offs |-> 0]
None  == Val("none", 0, NoId)
Undef == Val("undef", 0, NoId)
IntVal(k) == Val("int", k, NoId)
Sum(a, o) == [t |-> "sum", n |-> a, id |-> NoId, offs |-> o]
Ref(id) == Val("code", 0, id)

Number(v) == IF v.t = "code" THEN code[v.id].addr + code[v.id].offs ELSE v.n + v.offs
IsNumber(v) == v.t \in {"int", "code", "sum"}

\* The same method of the objects: equal kind and equal contents.
Same(v, w) ==
  \/ v = w
  \/ /\ v.t = "code" /\ w.t = "code"
     /\ code[v.id] = code[w.id]
  \/ /\ v.t = "sum" /\ w.t = "code"
     /\ code[w.id] = [addr |-> v.n, offs |-> v.offs]

(***************************************************************************)
(* namespace_lookup: a symbol is found when this pass has defined it, or,  *)
(* for constants and labels, when the previous pass did; any earlier       *)
(* definition does too once a change was noticed.  The first look-up of a  *)
(* symbol that only the previous pass defined counts as a forward          *)
(* reference.                                                              *)
(***************************************************************************)
Visible(n) ==
  /\ n \in Name
  /\ label[n].present
  /\ \/ label[n].defpass = pass
     \/ /\ label[n].constant
        /\ ~fixeddig \/ label[n].defpass = pass - 1

\* Mutant: every look-up counts, not only the first one of a pass.
NewForwardEachTime(n) ==
  /\ Visible(n)
  /\ label[n].constant
  /\ label[n].defpass = pass - 1

NewForward(n) ==
  /\ Visible(n)
  /\ label[n].constant
  /\ label[n].defpass = pass - 1
  /\ label[n].fwpass # pass

Found(n) == IF NewForward(n) THEN [label EXCEPT ![n].fwpass = pass] ELSE label
Forwards(n) == IF NewForward(n) THEN fwcount + 1 ELSE fwcount

\* Mutant: the look-up leaves usepass alone.
TouchedUnmarked(n) == IF Visible(n) THEN Found(n) ELSE label

\* A look-up by an expression also marks the symbol as used (touch_label).
Touched(n) == IF Visible(n) THEN [Found(n) EXCEPT ![n].usepass = pass] ELSE label

\* get_exp: an unknown symbol is no error yet while symbols are being created.
Lookup(n) == IF Visible(n) THEN label[n].value
             ELSE IF constcreated /\ pass < maxPass THEN None ELSE Undef

Value(e) ==
  IF e.sym = NoName THEN IntVal(e.plus)
  ELSE LET v == Lookup(e.sym) IN
       IF v.t = "int" THEN IntVal(v.n + e.plus)
       ELSE IF v.t = "code" /\ e.plus # 0
            THEN Sum(code[v.id].addr, code[v.id].offs + e.plus)
            ELSE v

\* Mutant: silent as long as there are passes left, whether another one comes
\* or not.
UseErrorsLate(v) ==
  (IF v.t = "undef" /\ pass >= maxPass THEN {"notdef"} ELSE {})
    \cup
  (IF v.t = "none" /\ pass >= maxPass THEN {"none"} ELSE {})

\* Assembling with a value that is missing is reported, unless another pass
\* is certain to come.
UseErrors(v) ==
  (IF v.t = "undef" /\ ~(constcreated /\ pass < maxPass) THEN {"notdef"} ELSE {})
    \cup
  (IF v.t = "none" /\ ~((constcreated \/ ~fixeddig) /\ pass < maxPass) THEN {"none"} ELSE {})

\* err_msg_cant_calculate, only after the last allowed pass
CantCalculate == IF pass > maxPass THEN {"cant"} ELSE {}

See(n) == IF Visible(n) /\ IsNumber(label[n].value)
          THEN seen \cup {[name |-> n, v |-> Number(label[n].value)]} ELSE seen

-----------------------------------------------------------------------------
(***************************************************************************)
(* The statements.                                                         *)
(***************************************************************************)
Compiling == phase \in {"assemble", "list"}
stmt == prog[pc]
At(op) == Compiling /\ ~signal /\ pc \in DOMAIN prog /\ stmt.op = op

\* The look-ups an operand makes
Evaluate(e) ==
  /\ label' = Touched(e.sym)
  /\ fwcount' = Forwards(e.sym)
  /\ seen' = See(e.sym)

Emit(v, size) ==
  /\ out' = out \cup {[pc |-> pc, addr |-> star, size |-> size,
                      v |-> Number(v), known |-> IsNumber(v)]}
  /\ star' = star + size

\* .word: a missing value still takes its two bytes
Word ==
  /\ At("word")
  /\ Evaluate(stmt.arg)
  /\ Emit(Value(stmt.arg), 2)
  /\ errors' = errors \cup UseErrors(Value(stmt.arg))
  /\ pc' = pc + 1
  /\ UNCHANGED <<control, fixeddig, constcreated, code>>

\* An instruction like lda: short when the operand is known to be in the
\* direct page, long otherwise
InstrSize(v) == IF IsNumber(v) /\ Number(v) <= ZpTop THEN 2 ELSE 3
Instruction ==
  /\ At("instr")
  /\ Evaluate(stmt.arg)
  /\ Emit(Value(stmt.arg), InstrSize(Value(stmt.arg)))
  /\ errors' = errors \cup UseErrors(Value(stmt.arg))
  /\ pc' = pc + 1
  /\ UNCHANGED <<control, fixeddig, constcreated, code>>

\* "* = literal" (starhandle)
Org ==
  /\ At("org")
  /\ star' = stmt.k
  /\ pc' = pc + 1
  /\ UNCHANGED <<control, flags, table, errors, out, seen>>

\* .if and .else
If ==
  /\ At("if")
  /\ Evaluate(stmt.arg)
  /\ LET v == Value(stmt.arg) IN
       /\ errors' = errors \cup UseErrors(v)
       /\ pc' = IF ~IsNumber(v) THEN stmt.fi
                ELSE IF Number(v) = stmt.k THEN pc + 1 ELSE stmt.no
  /\ UNCHANGED <<control, fixeddig, constcreated, code, star, out>>

Jump ==
  /\ At("jump")
  /\ pc' = stmt.fi
  /\ UNCHANGED <<control, flags, table, star, errors, out, seen>>

(***************************************************************************)
(* Definitions.  What is assigned refers to an object of its own when the  *)
(* expression has just made one, and to the symbol's object otherwise.     *)
(***************************************************************************)
NewId == <<pc, pass>>
Stored(v) == IF v.t = "sum" THEN Ref(NewId) ELSE v
Extended(addr, offs) ==
  [i \in DOMAIN code \cup {NewId} |->
     IF i = NewId THEN [addr |-> addr, offs |-> offs] ELSE code[i]]
Allocated(v) == IF v.t = "sum" THEN Extended(v.n, v.offs) ELSE code

Defined(n) == label[n].present /\ label[n].defpass = pass
DoubleDefined == /\ errors' = errors \cup {"double"}
                 /\ UNCHANGED <<fixeddig, constcreated, code>>

\* A symbol the previous pass did not define: what was assembled before it
\* may have missed it.
Created(n) == ~label[n].present \/ label[n].defpass # pass - 1

\* The first half of a definition, common to constants and labels.  It works
\* on the table and the counter its look-ups left, lab and fw.
Discharged(n, lab, fw) ==
  IF lab[n].present /\ lab[n].fwpass = pass THEN fw - 1 ELSE fw

\* What every definition of a constant or a label leaves in the table
Settled(lab, n, v) ==
  [lab EXCEPT ![n] = [@ EXCEPT !.present = TRUE, !.constant = TRUE,
                               !.defpass = pass, !.value = v]]

CreatedErrors(n) == IF Created(n) /\ ~constcreated THEN CantCalculate ELSE {}

\* "name = expression" (const_assign)
Const ==
  /\ At("const")
  /\ seen' = See(stmt.arg.sym)
  /\ LET n   == stmt.name
         v   == Value(stmt.arg)
         lab == Touched(stmt.arg.sym)
         fw  == Forwards(stmt.arg.sym)
         used == /\ label[n].present
                 /\ fixeddig
                 /\ lab[n].usepass >= pass
         same == Same(v, label[n].value)
     IN IF Defined(n)
        THEN /\ DoubleDefined
             /\ label' = lab
             /\ fwcount' = fw
        ELSE /\ fwcount' = Discharged(n, lab, fw)
             /\ constcreated' = (constcreated \/ Created(n))
             /\ fixeddig' = (fixeddig /\ ~(used /\ ~same))
             /\ errors' = errors \cup CreatedErrors(n)
                            \cup IF used /\ ~same THEN CantCalculate ELSE {}
             /\ label' = Settled(lab, n, IF used /\ same THEN label[n].value ELSE Stored(v))
             /\ code' = IF used /\ same THEN code ELSE Allocated(v)
  /\ pc' = pc + 1
  /\ UNCHANGED <<control, star, out>>

\* ".var" and ":=": may be redefined, is never found by a forward reference,
\* and does not take part in the bookkeeping
Var ==
  /\ At("var")
  /\ seen' = See(stmt.arg.sym)
  /\ fwcount' = Forwards(stmt.arg.sym)
  /\ LET n   == stmt.name
         v   == Value(stmt.arg)
         lab == Touched(stmt.arg.sym)
     IN IF Defined(n) /\ label[n].constant
        THEN /\ DoubleDefined
             /\ label' = lab
        ELSE /\ label' = [lab EXCEPT ![n] =
                  [@ EXCEPT !.present = TRUE, !.defpass = pass, !.constant = FALSE,
                            !.value = Stored(v), !.usepass = 0]]
             /\ code' = Allocated(v)
             /\ UNCHANGED <<fixeddig, constcreated, errors>>
  /\ pc' = pc + 1
  /\ UNCHANGED <<control, star, out>>

\* "name" at the start of a line: the symbol itself is looked up first; a
\* Code object is updated in place (update_code), any other value is replaced
\* by a new one (create_code)
Label ==
  /\ At("label")
  /\ LET n     == stmt.name
         lab   == Found(n)
         fw    == Forwards(n)
         inPlace == label[n].present /\ label[n].value.t = "code"
         moved == inPlace /\ code[label[n].value.id] # [addr |-> star, offs |-> 0]
         used  == label[n].usepass >= pass
     IN IF Defined(n)
        THEN /\ DoubleDefined
             /\ label' = lab
             /\ fwcount' = fw
        ELSE /\ fwcount' = Discharged(n, lab, fw)
             /\ constcreated' = (constcreated \/ Created(n))
             /\ fixeddig' = (fixeddig /\ ~(moved /\ used))
             /\ errors' = errors \cup CreatedErrors(n)
                            \cup IF moved /\ used /\ fixeddig THEN CantCalculate ELSE {}
             /\ label' = Settled(lab, n, IF inPlace THEN label[n].value ELSE Ref(NewId))
             /\ code' = IF inPlace
                        THEN [code EXCEPT ![label[n].value.id] = [addr |-> star, offs |-> 0]]
                        ELSE Extended(star, 0)
  /\ pc' = pc + 1
  /\ UNCHANGED <<control, star, out, seen>>

Statement == Word \/ Instruction \/ Org \/ If \/ Jump \/ Const \/ Var \/ Label

\* Mutant: the rest of the pass is skipped without an error.
InterruptedSilently ==
  /\ Compiling /\ signal /\ pc \in DOMAIN prog
  /\ pc' = Len(prog) + 1
  /\ UNCHANGED <<control, flags, table, star, out, seen, errors>>

\* compile() ends at the next line once a signal has arrived.
Interrupted ==
  /\ Compiling /\ signal /\ pc \in DOMAIN prog
  /\ errors' = errors \cup {"signal"}
  /\ pc' = Len(prog) + 1
  /\ UNCHANGED <<control, flags, table, star, out, seen>>

\* signal_handler
Signal ==
  /\ Signals /\ ~signal
  /\ phase \notin {"done", "failed"}
  /\ signal' = TRUE
  /\ UNCHANGED <<prog, phase, pass, maxPass, pc, star, flags, table, errors, out,
                 seen, prevOut>>

-----------------------------------------------------------------------------
(***************************************************************************)
(* The passes.                                                             *)
(***************************************************************************)
PassOver == Compiling /\ pc = Len(prog) + 1

\* The beginning of one_pass
StartPass ==
  /\ fixeddig' = TRUE /\ constcreated' = FALSE /\ fwcount' = 0
  /\ errors' = {} /\ pc' = 1 /\ star' = 0
  /\ out' = {} /\ seen' = {}

\* Mutant: the forward references left over are forgotten.
FixedAnyway == fixeddig

\* What the end of one_pass leaves in fixeddig
Fixed == fixeddig /\ fwcount = 0
Stable == Fixed /\ ~constcreated

KeepPass == UNCHANGED <<pc, star, table, fwcount, constcreated, out, seen>>

\* The loop goes round, unless the passes are used up.
AnotherPass ==
  /\ phase = "assemble" /\ PassOver /\ ~signal /\ ~Stable
  /\ pass <= maxPass
  /\ pass' = pass + 1
  /\ StartPass
  /\ UNCHANGED <<prog, phase, maxPass, signal, prevOut, table>>

\* Mutant: the passes are counted one too far.
TooManyPassesLate ==
  /\ phase = "assemble" /\ PassOver /\ ~signal /\ ~Stable
  /\ pass > maxPass + 1
  /\ pass' = pass + 1
  /\ errors' = errors \cup {"toomany"}
  /\ fixeddig' = Fixed
  /\ phase' = "failed"
  /\ KeepPass /\ UNCHANGED <<prog, maxPass, signal, prevOut>>

TooManyPasses ==
  /\ phase = "assemble" /\ PassOver /\ ~signal /\ ~Stable
  /\ pass > maxPass
  /\ pass' = pass + 1
  /\ errors' = errors \cup {"toomany"}
  /\ fixeddig' = Fixed
  /\ phase' = "failed"
  /\ KeepPass /\ UNCHANGED <<prog, maxPass, signal, prevOut>>

\* err_msg_signal is a serious error too.
LoopInterrupted ==
  /\ phase = "assemble" /\ PassOver /\ signal
  /\ errors' = errors \cup {"signal"}
  /\ fixeddig' = Fixed
  /\ phase' = "failed"
  /\ KeepPass /\ UNCHANGED <<prog, pass, maxPass, signal, prevOut>>

\* The loop ends; errors of the last pass are final.
LoopEnds ==
  /\ phase = "assemble" /\ PassOver /\ ~signal /\ Stable
  /\ phase' = IF errors = {} THEN "assembled" ELSE "failed"
  /\ fixeddig' = Fixed
  /\ prevOut' = out
  /\ KeepPass /\ UNCHANGED <<prog, pass, maxPass, signal, errors>>

\* "assemble again to create listing"
StartListing ==
  /\ phase = "assembled" /\ TRUE \in Listing
  /\ maxPass' = pass
  /\ pass' = pass + 1
  /\ StartPass
  /\ phase' = "list"
  /\ UNCHANGED <<prog, signal, prevOut, table>>

ListingEnds ==
  /\ phase = "list" /\ PassOver
  /\ phase' = IF errors = {} THEN "done" ELSE "failed"
  /\ fixeddig' = Fixed
  /\ KeepPass /\ UNCHANGED <<prog, pass, maxPass, signal, errors, prevOut>>

\* The output files are written.
WriteOutput ==
  /\ phase = "assembled" /\ FALSE \in Listing
  /\ phase' = "done"
  /\ KeepPass /\ UNCHANGED <<prog, pass, maxPass, signal, errors, prevOut, fixeddig>>

NewLabel == [present |-> FALSE, constant |-> FALSE, value |-> None,
             defpass |-> 0, usepass |-> 0, fwpass |-> 0]

Init ==
  /\ prog \in Programs
  /\ phase = "assemble"
  /\ pass = 1 /\ maxPass = MaxPass
  /\ pc = 1 /\ star = 0
  /\ fixeddig = TRUE /\ constcreated = FALSE /\ fwcount = 0
  /\ label = [n \in Name |-> NewLabel]
  /\ code = [i \in {} |-> [addr |-> 0, offs |-> 0]]
  /\ errors = {} /\ signal = FALSE
  /\ out = {} /\ seen = {} /\ prevOut = {}

Assemble ==
  \/ Statement \/ Interrupted \/ AnotherPass \/ TooManyPasses \/ LoopInterrupted
  \/ LoopEnds \/ StartListing \/ ListingEnds \/ WriteOutput

Next == Assemble \/ Signal

Spec == Init /\ [][Next]_vars

\* The assembler is one thread and none of its steps waits for anything.
FairSpec == Spec /\ WF_vars(Assemble)

-----------------------------------------------------------------------------
(***************************************************************************)
(* Properties.                                                             *)
(***************************************************************************)
ObjVal == [t : {"int", "code", "none", "undef"}, n : Nat, id : Nat \X Nat, offs : Nat]
LabelRec == [present : BOOLEAN, constant : BOOLEAN, value : ObjVal,
             defpass : Nat, usepass : Nat, fwpass : Nat]

\* Types: every number of a label is a pass that has begun, and a label that
\* refers to a Code object refers to one that exists.
TypeOK ==
  /\ phase \in {"assemble", "assembled", "list", "done", "failed"}
  /\ pass \in Nat \ {0} /\ maxPass \in Nat
  /\ pc \in 1 .. (Len(prog) + 1)
  /\ star \in Nat /\ fwcount \in Nat
  /\ fixeddig \in BOOLEAN /\ constcreated \in BOOLEAN /\ signal \in BOOLEAN
  /\ label \in [Name -> LabelRec]
  /\ \A n \in Name :
       /\ label[n].defpass <= pass /\ label[n].usepass <= pass /\ label[n].fwpass <= pass
       /\ ~label[n].present => label[n].fwpass = 0 /\ label[n].usepass = 0
       /\ label[n].value.t = "code" => label[n].value.id \in DOMAIN code
  /\ \A i \in DOMAIN code : code[i] \in [addr : Nat, offs : Nat]

\* fwcount, which namespace_lookup increments and the definitions decrement,
\* is at every moment the number of symbols looked up ahead of their
\* definition in this pass and not defined as constants or labels since.
Awaited == {n \in Name : /\ label[n].fwpass = pass
                         /\ ~(label[n].defpass = pass /\ label[n].constant)}
FwcountExact == phase # "failed" => fwcount = Cardinality(Awaited)

\* When the pass loop ends without errors, every symbol the last pass looked
\* up was defined by that pass: a definition that went away, because the
\* condition around it changed, is not used for the output (one_pass,
\* namespace_lookup).
NoStaleLookup ==
  phase = "assembled" => \A n \in Name : label[n].usepass = pass => label[n].defpass = pass

\* What makes it so, at every step of a pass: as long as no change was noticed,
\* a symbol that was looked up and not defined yet is awaited.
ReadsAwaited ==
  Compiling /\ fixeddig =>
    \A n \in Name : label[n].usepass = pass /\ label[n].defpass # pass => n \in Awaited

\* Each read of a constant or a label in the last pass gave the value it has
\* at the end of that pass, however its definition follows the read: what
\* const_assign and update_code track with usepass is enough.
ReadsAreFinal ==
  phase = "assembled" =>
    \A r \in seen : label[r.name].constant => r.v = Number(label[r.name].value)

\* What it asks of the programs: a name is a label everywhere or nowhere, and no
\* constant is a bare symbol that may refer to the Code object of a label.
NamesOf(p, op) == {p[i].name : i \in {j \in DOMAIN p : p[j].op = op}}
Unshared ==
  \A p \in Programs : \A i \in DOMAIN p :
    /\ p[i].op \in {"const", "var"} => p[i].name \notin NamesOf(p, "label")
    /\ p[i].op = "const" /\ p[i].arg.plus = 0
         => p[i].arg.sym \notin NamesOf(p, "label") \cup NamesOf(p, "var")

\* The errors left unreported because another pass was certain to come never
\* reach the output: nothing that is written was assembled from a missing value
\* (touval, err_msg_still_none, err_msg_not_defined3).
NothingMissing == phase \in {"assembled", "done"} => \A o \in out : o.known

\* What makes it so: a pass that has passed over a missing value in silence is
\* not the last one.
MissingComesBack ==
  (Compiling /\ errors = {} /\ \E o \in out : ~o.known)
    => /\ constcreated \/ ~fixeddig
       /\ pass < maxPass

\* The pass made for the listing, whose memory image is the one that is
\* written, emits what the pass before it emitted, and an interrupted one is
\* never written (main2).
ListingRepeats == phase = "done" => out = prevOut

\* The assembler gives up or finishes: programs whose values never settle
\* end in "too many passes" (main2).
Terminates == <>(phase \in {"done", "failed"})
=============================================================================
