---------------------------- MODULE PassesProofs ----------------------------
(***************************************************************************)
(* Theorems about the pass loop, for every set of programs, any number of  *)
(* symbols and any limit on the passes.                                    *)
(*                                                                         *)
(* The invariant is in layers: the program is one of Programs (ProgOK);    *)
(* types and the bounds on the pass numbers (TypeOK) together with the     *)
(* meaning of fwcount (FwcountExact), which it needs to stay positive;     *)
(* and on top of those the facts about symbols that are still awaited,     *)
(* about values that are missing, and about values that were read.         *)
(***************************************************************************)
EXTENDS Passes, FiniteSetTheorems, TLAPS

ProgOK == prog \in Programs

(***************************************************************************)
(* Programs and expressions.                                               *)
(***************************************************************************)

\* A line of a program is a statement whose targets lie behind it.
LEMMA StatementType ==
  ASSUME ProgOK, pc \in DOMAIN prog
  PROVE  /\ stmt \in Stmt
         /\ Len(prog) \in Nat /\ pc \in 1 .. Len(prog)
         /\ stmt.op \in {"const", "var", "label"} => stmt.name \in Name
         /\ stmt.op = "if" => /\ stmt.no \in 1 .. (Len(prog) + 1)
                              /\ stmt.fi \in 1 .. (Len(prog) + 1)
         /\ stmt.op = "jump" => stmt.fi \in 1 .. (Len(prog) + 1)
<1>1. WellFormed(prog)
  BY ProgramsAssumption DEF ProgOK
<1>2. prog \in Seq(Stmt)
  BY <1>1 DEF WellFormed
<1>3. DOMAIN prog = 1 .. Len(prog) /\ Len(prog) \in Nat /\ stmt \in Stmt
  BY <1>2 DEF stmt
<1>4. QED
  BY <1>1, <1>3 DEF WellFormed, stmt, Stmt

LEMMA FirstLine ==
  ASSUME ProgOK
  PROVE  1 \in 1 .. (Len(prog) + 1)
<1>1. prog \in Seq(Stmt)
  BY ProgramsAssumption DEF ProgOK, WellFormed
<1>2. Len(prog) \in Nat
  BY <1>1
<1>3. QED
  BY <1>2

LEMMA ExprType ==
  ASSUME ProgOK, pc \in DOMAIN prog
  PROVE  stmt.arg \in Expr /\ stmt.k \in Nat
BY StatementType DEF Stmt

\* What an expression evaluates to
Evaluated == [t : {"int", "code", "none", "undef", "sum"}, n : Nat,
              id : Nat \X Nat, offs : Nat]

LEMMA NumberType ==
  ASSUME TypeOK, NEW v \in Evaluated, v.t = "code" => v.id \in DOMAIN code
  PROVE  Number(v) \in Nat
<1>1. v.t = "code" => code[v.id].addr \in Nat /\ code[v.id].offs \in Nat
  BY DEF TypeOK
<1>2. v.n \in Nat /\ v.offs \in Nat
  BY DEF Evaluated
<1>3. QED
  BY <1>1, <1>2 DEF Number

LEMMA ValueType ==
  ASSUME TypeOK, NEW e \in Expr
  PROVE  /\ Value(e) \in Evaluated
         /\ Value(e).t = "code" => Value(e).id \in DOMAIN code
<1>1. CASE e.sym = NoName
  BY <1>1 DEF Value, IntVal, Val, NoId, Evaluated, Expr
<1>2. CASE e.sym # NoName
  <2>1. e.sym \in Name /\ e.plus \in Nat
    BY <1>2 DEF Expr
  <2>2. label[e.sym].value \in ObjVal
    BY <2>1 DEF TypeOK, LabelRec
  <2>3. /\ Lookup(e.sym) \in Evaluated
        /\ Lookup(e.sym).t # "sum"
        /\ Lookup(e.sym).t = "code" => Lookup(e.sym).id \in DOMAIN code
    <3>1. CASE Visible(e.sym)
      <4>1. Lookup(e.sym) = label[e.sym].value
        BY <3>1 DEF Lookup
      <4>2. QED
        BY <2>1, <2>2, <4>1 DEF TypeOK, ObjVal, Evaluated
    <3>2. CASE ~Visible(e.sym)
      BY <3>2 DEF Lookup, None, Undef, Val, NoId, Evaluated
    <3>3. QED
      BY <3>1, <3>2
  <2> DEFINE v == Lookup(e.sym)
  <2>4. CASE v.t = "int"
    <3>1. Value(e) = IntVal(v.n + e.plus)
      BY <1>2, <2>4 DEF Value
    <3>2. QED
      BY <2>1, <2>3, <3>1 DEF IntVal, Val, NoId, Evaluated
  <2>5. CASE v.t = "code" /\ e.plus # 0
    <3>1. Value(e) = Sum(code[v.id].addr, code[v.id].offs + e.plus)
      BY <1>2, <2>5 DEF Value
    <3>2. code[v.id].addr \in Nat /\ code[v.id].offs \in Nat
      BY <2>3, <2>5 DEF TypeOK
    <3>3. QED
      BY <2>1, <3>1, <3>2 DEF Sum, NoId, Evaluated
  <2>6. CASE v.t # "int" /\ ~(v.t = "code" /\ e.plus # 0)
    <3>1. Value(e) = v
      BY <1>2, <2>6 DEF Value
    <3>2. QED
      BY <2>3, <3>1
  <2>8. QED
    BY <2>4, <2>5, <2>6
<1>3. QED
  BY <1>1, <1>2

(***************************************************************************)
(* The symbol table.  TableOK is what TypeOK says of it without the Code   *)
(* objects; AwaitedIn is Awaited of the table a look-up leaves.            *)
(***************************************************************************)
TableOK(lab) ==
  /\ lab \in [Name -> LabelRec]
  /\ \A m \in Name :
       /\ lab[m].defpass <= pass /\ lab[m].usepass <= pass /\ lab[m].fwpass <= pass
       /\ ~lab[m].present => lab[m].fwpass = 0 /\ lab[m].usepass = 0

AwaitedIn(lab) == {m \in Name : /\ lab[m].fwpass = pass
                                /\ ~(lab[m].defpass = pass /\ lab[m].constant)}

LEMMA AwaitedFinite ==
  ASSUME NEW lab
  PROVE  /\ IsFiniteSet(AwaitedIn(lab))
         /\ Cardinality(AwaitedIn(lab)) \in Nat
BY NameAssumption, FS_Subset, FS_CardinalityType DEF AwaitedIn

\* What a look-up changes: at most fwpass, and usepass with Touched.
LEMMA FoundTable ==
  ASSUME TypeOK, NEW n \in Name \cup {NoName}
  PROVE  /\ TableOK(Found(n))
         /\ \A m \in Name : /\ Found(n)[m].present = label[m].present
                            /\ Found(n)[m].constant = label[m].constant
                            /\ Found(n)[m].value = label[m].value
                            /\ Found(n)[m].defpass = label[m].defpass
                            /\ Found(n)[m].usepass = label[m].usepass
                            /\ Found(n)[m].fwpass =
                                 IF m = n /\ NewForward(n) THEN pass ELSE label[m].fwpass
<1>1. CASE NewForward(n)
  <2> DEFINE r == [label[n] EXCEPT !.fwpass = pass]
  <2>1. n \in Name /\ label[n].present /\ label[n] \in LabelRec /\ pass \in Nat
    BY <1>1 DEF NewForward, Visible, TypeOK
  <2>2. Found(n) = [label EXCEPT ![n] = r]
    BY <1>1 DEF Found
  <2>3. /\ r \in LabelRec
        /\ r.present = label[n].present /\ r.constant = label[n].constant
        /\ r.value = label[n].value /\ r.defpass = label[n].defpass
        /\ r.usepass = label[n].usepass /\ r.fwpass = pass
    BY <2>1 DEF LabelRec
  <2> HIDE DEF r
  <2>4. \A m \in Name : Found(n)[m] = IF m = n THEN r ELSE label[m]
    BY <2>1, <2>2 DEF TypeOK
  <2>5. Found(n) \in [Name -> LabelRec]
    BY <2>1, <2>2, <2>3 DEF TypeOK
  <2>6. TableOK(label) /\ pass <= pass
    BY <2>1 DEF TypeOK, TableOK
  <2>7. TableOK(Found(n))
    BY <2>1, <2>3, <2>4, <2>5, <2>6 DEF TableOK
  <2>8. QED
    BY <1>1, <2>3, <2>4, <2>7
<1>2. CASE ~NewForward(n)
  <2>1. Found(n) = label
    BY <1>2 DEF Found
  <2>2. QED
    BY <1>2, <2>1 DEF TableOK, TypeOK
<1>3. QED
  BY <1>1, <1>2

LEMMA TouchedTable ==
  ASSUME TypeOK, NEW n \in Name \cup {NoName}
  PROVE  /\ TableOK(Touched(n))
         /\ \A m \in Name : /\ Touched(n)[m].present = label[m].present
                            /\ Touched(n)[m].constant = label[m].constant
                            /\ Touched(n)[m].value = label[m].value
                            /\ Touched(n)[m].defpass = label[m].defpass
                            /\ Touched(n)[m].usepass =
                                 IF m = n /\ Visible(n) THEN pass ELSE label[m].usepass
                            /\ Touched(n)[m].fwpass =
                                 IF m = n /\ NewForward(n) THEN pass ELSE label[m].fwpass
<1>1. CASE Visible(n)
  <2>1. n \in Name /\ label[n].present
    BY <1>1 DEF Visible
  <2>2. pass \in Nat /\ Found(n) \in [Name -> LabelRec]
    BY FoundTable DEF TypeOK, TableOK
  <2> DEFINE r == [Found(n)[n] EXCEPT !.usepass = pass]
  <2>3. Touched(n) = [Found(n) EXCEPT ![n] = r]
    BY <1>1 DEF Touched
  <2>4. Found(n)[n] \in LabelRec
    BY <2>1, <2>2
  <2>5. /\ r \in LabelRec
        /\ r.present = Found(n)[n].present /\ r.constant = Found(n)[n].constant
        /\ r.value = Found(n)[n].value /\ r.defpass = Found(n)[n].defpass
        /\ r.fwpass = Found(n)[n].fwpass /\ r.usepass = pass
    BY <2>2, <2>4 DEF LabelRec
  <2> HIDE DEF r
  <2>6. \A m \in Name : Touched(n)[m] = IF m = n THEN r ELSE Found(n)[m]
    BY <2>1, <2>2, <2>3
  <2>7. Touched(n) \in [Name -> LabelRec]
    BY <2>1, <2>2, <2>3, <2>5
  <2>8. QED
    BY <1>1, <2>1, <2>2, <2>5, <2>6, <2>7, FoundTable DEF TableOK
<1>2. CASE ~Visible(n)
  <2>1. Touched(n) = label /\ ~NewForward(n)
    BY <1>2 DEF Touched, NewForward
  <2>2. QED
    BY <1>2, <2>1 DEF TableOK, TypeOK
<1>3. QED
  BY <1>1, <1>2

\* The counter follows the look-up: the symbol becomes awaited exactly when
\* namespace_lookup increments fwcount.
LEMMA LookupCounts ==
  ASSUME TypeOK, fwcount = Cardinality(Awaited),
         NEW n \in Name \cup {NoName}, NEW lab \in {Found(n), Touched(n)}
  PROVE  Forwards(n) = Cardinality(AwaitedIn(lab))
<1>1. \A m \in Name : /\ lab[m].constant = label[m].constant
                       /\ lab[m].defpass = label[m].defpass
                       /\ lab[m].fwpass =
                            IF m = n /\ NewForward(n) THEN pass ELSE label[m].fwpass
  BY FoundTable, TouchedTable
<1>2. IsFiniteSet(Awaited)
  BY AwaitedFinite DEF Awaited, AwaitedIn
<1>3. CASE NewForward(n)
  <2>1. /\ n \in Name /\ label[n].defpass = pass - 1 /\ label[n].fwpass # pass
        /\ pass \in Nat
    BY <1>3 DEF NewForward, Visible, TypeOK
  <2>2. n \notin Awaited
    BY <2>1 DEF Awaited
  <2>3. AwaitedIn(lab) = Awaited \cup {n}
    BY <1>1, <1>3, <2>1 DEF Awaited, AwaitedIn
  <2>4. Cardinality(Awaited \cup {n}) = Cardinality(Awaited) + 1
    BY <1>2, <2>2, FS_AddElement
  <2>5. QED
    BY <1>3, <2>3, <2>4 DEF Forwards
<1>4. CASE ~NewForward(n)
  <2>1. AwaitedIn(lab) = Awaited
    BY <1>1, <1>4 DEF Awaited, AwaitedIn
  <2>2. QED
    BY <1>4, <2>1 DEF Forwards
<1>5. QED
  BY <1>3, <1>4

\* A definition as a constant or a label takes the symbol off, and Discharged
\* decrements the counter exactly when it was awaited.
LEMMA DefinitionCounts ==
  ASSUME pass \in Nat \ {0},
         NEW n \in Name, NEW lab, TableOK(lab),
         ~(lab[n].present /\ lab[n].defpass = pass),
         NEW r \in LabelRec, r.defpass = pass, r.constant
  PROVE  Discharged(n, lab, Cardinality(AwaitedIn(lab)))
           = Cardinality(AwaitedIn([lab EXCEPT ![n] = r]))
<1> DEFINE new == [lab EXCEPT ![n] = r]
<1>1. AwaitedIn(new) = AwaitedIn(lab) \ {n}
  BY DEF AwaitedIn, TableOK
<1>2. n \in AwaitedIn(lab) <=> lab[n].present /\ lab[n].fwpass = pass
  BY DEF AwaitedIn, TableOK
<1>3. CASE n \in AwaitedIn(lab)
  <2>1. Cardinality(AwaitedIn(lab) \ {n}) = Cardinality(AwaitedIn(lab)) - 1
    BY <1>3, AwaitedFinite, FS_RemoveElement
  <2>2. QED
    BY <1>1, <1>2, <1>3, <2>1 DEF Discharged
<1>4. CASE n \notin AwaitedIn(lab)
  <2>1. AwaitedIn(new) = AwaitedIn(lab)
    BY <1>1, <1>4
  <2>2. QED
    BY <1>2, <1>4, <2>1 DEF Discharged
<1>5. QED
  BY <1>3, <1>4

(***************************************************************************)
(* The first layer of the invariant.                                       *)
(***************************************************************************)
Inv == ProgOK /\ TypeOK /\ FwcountExact

\* The part of it that is about the table.
TableInv ==
  /\ TableOK(label)
  /\ fwcount \in Nat
  /\ \A m \in Name : label[m].value.t = "code" => label[m].value.id \in DOMAIN code
  /\ \A i \in DOMAIN code : code[i] \in [addr : Nat, offs : Nat]
  /\ fwcount = Cardinality(Awaited)

\* What the rest of it asks of a step that stays within the pass.
ScalarsOK == /\ pc \in 1 .. (Len(prog) + 1)
             /\ star \in Nat
             /\ fixeddig \in BOOLEAN /\ constcreated \in BOOLEAN

LEMMA SamePass ==
  ASSUME Inv, UNCHANGED control, TableInv', ScalarsOK'
  PROVE  Inv'
BY DEF Inv, ProgOK, TypeOK, FwcountExact, control, TableInv, TableOK, ScalarsOK

\* The look-ups of an operand keep the table's part.
LEMMA EvaluateStep ==
  ASSUME Inv, phase # "failed", NEW e \in Expr, Evaluate(e),
         UNCHANGED <<control, code>>
  PROVE  TableInv'
<1>1. e.sym \in Name \cup {NoName}
  BY DEF Expr
<1>2. label' = Touched(e.sym) /\ fwcount' = Forwards(e.sym) /\ pass' = pass /\ code' = code
  BY DEF Evaluate, control
<1>3. TableOK(label)'
  BY <1>1, <1>2, TouchedTable DEF Inv, TableOK
<1>4. fwcount' = Cardinality(AwaitedIn(Touched(e.sym)))
  BY <1>1, <1>2, LookupCounts DEF Inv, FwcountExact
<1>5. AwaitedIn(Touched(e.sym)) = Awaited'
  BY <1>2 DEF AwaitedIn, Awaited
<1>6. fwcount' \in Nat
  BY <1>4, AwaitedFinite
<1>7. \A m \in Name : label'[m].value.t = "code" => label'[m].value.id \in DOMAIN code
  BY <1>1, <1>2, TouchedTable DEF Inv, TypeOK
<1>8. \A i \in DOMAIN code : code[i] \in [addr : Nat, offs : Nat]
  BY DEF Inv, TypeOK
<1>9. QED
  BY <1>2, <1>3, <1>4, <1>5, <1>6, <1>7, <1>8 DEF TableInv

LEMMA WordStep == Inv /\ Word => Inv'
<1> SUFFICES ASSUME Inv, Word PROVE Inv'
  OBVIOUS
<1>1. /\ phase # "failed" /\ ProgOK /\ TypeOK /\ pc \in DOMAIN prog
      /\ UNCHANGED <<control, fixeddig, constcreated, code>>
      /\ Evaluate(stmt.arg) /\ pc' = pc + 1
      /\ Emit(Value(stmt.arg), 2)
  BY DEF Inv, Word, At, Compiling
<1>2. stmt.arg \in Expr
  BY <1>1, ExprType
<1>3. TableInv'
  BY <1>1, <1>2, EvaluateStep
<1>4. star' \in Nat
  BY <1>1 DEF Emit, TypeOK
<1>5. ScalarsOK'
  BY <1>1, <1>4, StatementType DEF ScalarsOK, TypeOK, control
<1>6. QED
  BY <1>1, <1>3, <1>5, SamePass

LEMMA InstructionStep == Inv /\ Instruction => Inv'
<1> SUFFICES ASSUME Inv, Instruction PROVE Inv'
  OBVIOUS
<1>1. /\ phase # "failed" /\ ProgOK /\ TypeOK /\ pc \in DOMAIN prog
      /\ UNCHANGED <<control, fixeddig, constcreated, code>>
      /\ Evaluate(stmt.arg) /\ pc' = pc + 1
      /\ Emit(Value(stmt.arg), InstrSize(Value(stmt.arg)))
  BY DEF Inv, Instruction, At, Compiling
<1>2. stmt.arg \in Expr
  BY <1>1, ExprType
<1>3. TableInv'
  BY <1>1, <1>2, EvaluateStep
<1>4. star' \in Nat
  BY <1>1 DEF Emit, TypeOK, InstrSize
<1>5. ScalarsOK'
  BY <1>1, <1>4, StatementType DEF ScalarsOK, TypeOK, control
<1>6. QED
  BY <1>1, <1>3, <1>5, SamePass

LEMMA IfStep == Inv /\ If => Inv'
<1> SUFFICES ASSUME Inv, If PROVE Inv'
  OBVIOUS
<1>1. /\ phase # "failed" /\ ProgOK /\ TypeOK /\ pc \in DOMAIN prog /\ stmt.op = "if"
      /\ UNCHANGED <<control, fixeddig, constcreated, code, star>>
      /\ Evaluate(stmt.arg)
      /\ pc' \in {stmt.fi, pc + 1, stmt.no}
  BY DEF Inv, If, At, Compiling
<1>2. stmt.arg \in Expr
  BY <1>1, ExprType
<1>3. TableInv'
  BY <1>1, <1>2, EvaluateStep
<1>4. ScalarsOK'
  BY <1>1, StatementType DEF ScalarsOK, TypeOK, control
<1>5. QED
  BY <1>1, <1>3, <1>4, SamePass

\* Steps that leave the table alone
LEMMA TableKept ==
  ASSUME Inv, phase # "failed", UNCHANGED <<control, flags, table>>
  PROVE  TableInv'
BY DEF Inv, TypeOK, FwcountExact, control, flags, table, TableInv, TableOK, Awaited

LEMMA OtherStep == Inv /\ (Org \/ Jump \/ Interrupted) => Inv'
<1> SUFFICES ASSUME Inv, Org \/ Jump \/ Interrupted PROVE Inv'
  OBVIOUS
<1>1. /\ phase # "failed" /\ ProgOK /\ TypeOK /\ pc \in DOMAIN prog
      /\ UNCHANGED <<control, flags, table>>
  BY DEF Inv, Org, Jump, Interrupted, At, Compiling
<1>2. TableInv'
  BY <1>1, TableKept
<1>3. star' \in Nat /\ pc' \in 1 .. (Len(prog) + 1)
  BY <1>1, StatementType DEF Org, Jump, Interrupted, At, TypeOK, Stmt
<1>4. ScalarsOK'
  BY <1>1, <1>3 DEF ScalarsOK, TypeOK, control, flags
<1>5. QED
  BY <1>1, <1>2, <1>4, SamePass

(***************************************************************************)
(* Definitions.                                                            *)
(***************************************************************************)
CodeOK(c) == \A i \in DOMAIN c : c[i] \in [addr : Nat, offs : Nat]

\* A definition as a constant or a label, after the look-ups of it.
LEMMA SettledStep ==
  ASSUME Inv, phase # "failed", pass' = pass,
         NEW n \in Name, ~Defined(n),
         NEW m \in Name \cup {NoName}, NEW lab \in {Found(m), Touched(m)},
         NEW v \in ObjVal, v.t = "code" => v.id \in DOMAIN code',
         DOMAIN code \subseteq DOMAIN code', CodeOK(code'),
         label' = Settled(lab, n, v),
         fwcount' = Discharged(n, lab, Forwards(m))
  PROVE  TableInv'
<1> DEFINE r == [lab[n] EXCEPT !.present = TRUE, !.constant = TRUE,
                               !.defpass = pass, !.value = v]
<1>1. TypeOK /\ pass \in Nat \ {0} /\ fwcount = Cardinality(Awaited)
  BY DEF Inv, TypeOK, FwcountExact
<1>2. /\ TableOK(lab)
      /\ lab[n].present = label[n].present /\ lab[n].defpass = label[n].defpass
      /\ \A k \in Name : lab[k].value = label[k].value
  BY <1>1, FoundTable, TouchedTable
<1>3. label' = [lab EXCEPT ![n] = r]
  BY DEF Settled
<1>4. lab[n] \in LabelRec
  BY <1>2 DEF TableOK
<1>5. /\ r \in LabelRec
      /\ r.present /\ r.constant /\ r.defpass = pass /\ r.value = v
      /\ r.usepass = lab[n].usepass /\ r.fwpass = lab[n].fwpass
  BY <1>1, <1>4 DEF LabelRec
<1> HIDE DEF r
<1>6. label' \in [Name -> LabelRec]
  BY <1>2, <1>3, <1>5 DEF TableOK
<1>7. \A k \in Name : label'[k] = IF k = n THEN r ELSE lab[k]
  BY <1>2, <1>3 DEF TableOK
<1>8. TableOK(label)'
  <2>1. pass <= pass
    BY <1>1
  <2>2. QED
    BY <1>2, <1>5, <1>6, <1>7, <2>1 DEF TableOK
<1>9. \A k \in Name : label'[k].value.t = "code" => label'[k].value.id \in DOMAIN code'
  BY <1>2, <1>5, <1>7 DEF Inv, TypeOK
<1>10. fwcount' = Cardinality(Awaited')
  <2>1. ~(lab[n].present /\ lab[n].defpass = pass)
    BY <1>2 DEF Defined
  <2>2. fwcount' = Discharged(n, lab, Cardinality(AwaitedIn(lab)))
    BY <1>1, LookupCounts
  <2>3. Discharged(n, lab, Cardinality(AwaitedIn(lab)))
          = Cardinality(AwaitedIn([lab EXCEPT ![n] = r]))
    BY <1>1, <1>2, <1>5, <2>1, DefinitionCounts
  <2>4. AwaitedIn([lab EXCEPT ![n] = r]) = Awaited'
    BY <1>3 DEF AwaitedIn, Awaited
  <2>5. QED
    BY <2>2, <2>3, <2>4
<1>11. fwcount' \in Nat
  BY <1>10, NameAssumption, FS_Subset, FS_CardinalityType DEF Awaited
<1>12. QED
  BY <1>8, <1>9, <1>10, <1>11 DEF TableInv, CodeOK

\* The objects after an assignment
LEMMA AllocatedOK ==
  ASSUME Inv, pc \in Nat, NEW v \in Evaluated, v.t = "code" => v.id \in DOMAIN code
  PROVE  /\ Stored(v) \in ObjVal
         /\ DOMAIN code \subseteq DOMAIN Allocated(v)
         /\ CodeOK(Allocated(v))
         /\ Stored(v).t = "code" => Stored(v).id \in DOMAIN Allocated(v)
<1>1. TypeOK /\ NewId \in Nat \X Nat /\ CodeOK(code)
  BY DEF Inv, TypeOK, NewId, CodeOK
<1>2. CASE v.t = "sum"
  <2>1. Allocated(v) = Extended(v.n, v.offs) /\ Stored(v) = Ref(NewId)
    BY <1>2 DEF Allocated, Stored
  <2>2. v.n \in Nat /\ v.offs \in Nat
    BY DEF Evaluated
  <2>3. QED
    BY <1>1, <2>1, <2>2 DEF Extended, CodeOK, Ref, Val, ObjVal
<1>3. CASE v.t # "sum"
  <2>1. Allocated(v) = code /\ Stored(v) = v
    BY <1>3 DEF Allocated, Stored
  <2>2. v \in ObjVal
    BY <1>3 DEF Evaluated, ObjVal
  <2>3. QED
    BY <1>1, <2>1, <2>2
<1>4. QED
  BY <1>2, <1>3

LEMMA ConstStep == Inv /\ Const => Inv'
<1> SUFFICES ASSUME Inv, Const PROVE Inv'
  OBVIOUS
<1> DEFINE n == stmt.name
           v == Value(stmt.arg)
           m == stmt.arg.sym
           lab == Touched(m)
           used == label[n].present /\ fixeddig /\ lab[n].usepass >= pass
           same == Same(v, label[n].value)
           kept == used /\ same
<1>1. /\ phase # "failed" /\ ProgOK /\ TypeOK /\ pc \in DOMAIN prog
      /\ stmt.op = "const" /\ UNCHANGED <<control, star, out>>
      /\ pc' = pc + 1
  BY DEF Inv, Const, At, Compiling
<1>2. /\ stmt.arg \in Expr /\ n \in Name /\ m \in Name \cup {NoName}
      /\ pc \in Nat /\ pc' \in 1 .. (Len(prog) + 1)
  BY <1>1, StatementType DEF Stmt, Expr
<1>3. CASE Defined(n)
  <2>1. /\ Evaluate(stmt.arg) /\ UNCHANGED <<fixeddig, constcreated, code>>
    BY <1>3 DEF Const, DoubleDefined, Evaluate
  <2>2. TableInv'
    BY <1>1, <1>2, <2>1, EvaluateStep
  <2>3. ScalarsOK'
    BY <1>1, <1>2, <2>1 DEF ScalarsOK, TypeOK, control
  <2>4. QED
    BY <1>1, <2>2, <2>3, SamePass
<1>4. CASE ~Defined(n)
  <2>1. /\ fwcount' = Discharged(n, lab, Forwards(m))
        /\ constcreated' = (constcreated \/ Created(n))
        /\ fixeddig' = (fixeddig /\ ~(used /\ ~same))
        /\ label' = Settled(lab, n, IF kept THEN label[n].value ELSE Stored(v))
        /\ code' = IF kept THEN code ELSE Allocated(v)
    BY <1>4 DEF Const
  <2>2. v \in Evaluated /\ (v.t = "code" => v.id \in DOMAIN code)
    BY <1>1, <1>2, ValueType
  <2>3. TableInv'
    <3>1. CASE kept
      <4>1. /\ label[n].value \in ObjVal
            /\ label[n].value.t = "code" => label[n].value.id \in DOMAIN code
            /\ CodeOK(code)
        BY <1>1, <1>2 DEF TypeOK, LabelRec, CodeOK
      <4>2. label' = Settled(lab, n, label[n].value) /\ code' = code
        BY <2>1, <3>1
      <4>3. QED
        BY <1>1, <1>2, <1>4, <2>1, <4>1, <4>2, SettledStep DEF control
    <3>2. CASE ~kept
      <4>1. label' = Settled(lab, n, Stored(v)) /\ code' = Allocated(v)
        BY <2>1, <3>2
      <4>2. /\ Stored(v) \in ObjVal
            /\ DOMAIN code \subseteq DOMAIN code' /\ CodeOK(code')
            /\ Stored(v).t = "code" => Stored(v).id \in DOMAIN code'
        BY <1>2, <2>2, <4>1, AllocatedOK
      <4>3. QED
        BY <1>1, <1>2, <1>4, <2>1, <4>1, <4>2, SettledStep DEF control
    <3>3. QED
      BY <3>1, <3>2
  <2>4. fixeddig' \in BOOLEAN /\ constcreated' \in BOOLEAN
    BY <2>1
  <2>5. ScalarsOK'
    BY <1>1, <1>2, <2>4 DEF ScalarsOK, TypeOK, control
  <2>6. QED
    BY <1>1, <2>3, <2>5, SamePass
<1>5. QED
  BY <1>3, <1>4

LEMMA LabelStep == Inv /\ Label => Inv'
<1> SUFFICES ASSUME Inv, Label PROVE Inv'
  OBVIOUS
<1> DEFINE n == stmt.name
           lab == Found(n)
           inPlace == label[n].present /\ label[n].value.t = "code"
           moved == inPlace /\ code[label[n].value.id] # [addr |-> star, offs |-> 0]
           used == label[n].usepass >= pass
<1>1. /\ phase # "failed" /\ ProgOK /\ TypeOK /\ pc \in DOMAIN prog
      /\ stmt.op = "label" /\ UNCHANGED <<control, star, out>>
      /\ pc' = pc + 1
  BY DEF Inv, Label, At, Compiling
<1>2. /\ n \in Name /\ n \in Name \cup {NoName}
      /\ pc \in Nat /\ pc' \in 1 .. (Len(prog) + 1)
  BY <1>1, StatementType DEF Stmt
<1>3. star \in Nat /\ CodeOK(code) /\ pass' = pass
  BY <1>1 DEF TypeOK, CodeOK, control
<1>4. CASE Defined(n)
  <2>1. /\ label' = lab /\ fwcount' = Forwards(n)
        /\ UNCHANGED <<fixeddig, constcreated, code>>
    BY <1>4 DEF Label, DoubleDefined
  <2>2. TableOK(label)' /\ fwcount' = Cardinality(AwaitedIn(lab))
        /\ \A k \in Name : label'[k].value = label[k].value
    BY <1>1, <1>2, <1>3, <2>1, FoundTable, LookupCounts DEF TableOK, Inv, FwcountExact
  <2>3. AwaitedIn(lab) = Awaited' /\ fwcount' \in Nat
    BY <1>3, <2>1, <2>2, AwaitedFinite DEF AwaitedIn, Awaited
  <2>4. TableInv'
    BY <1>1, <1>3, <2>1, <2>2, <2>3 DEF TableInv, TypeOK, CodeOK
  <2>5. ScalarsOK'
    BY <1>1, <1>2, <2>1 DEF ScalarsOK, TypeOK, control
  <2>6. QED
    BY <1>1, <2>4, <2>5, SamePass
<1>5. CASE ~Defined(n)
  <2>1. /\ fwcount' = Discharged(n, lab, Forwards(n))
        /\ constcreated' = (constcreated \/ Created(n))
        /\ fixeddig' = (fixeddig /\ ~(moved /\ used))
        /\ label' = Settled(lab, n, IF inPlace THEN label[n].value ELSE Ref(NewId))
        /\ code' = IF inPlace
                   THEN [code EXCEPT ![label[n].value.id] = [addr |-> star, offs |-> 0]]
                   ELSE Extended(star, 0)
    BY <1>5 DEF Label
  <2>2. TableInv'
    <3>1. CASE inPlace
      <4>1. label[n].value \in ObjVal /\ label[n].value.id \in DOMAIN code
        BY <1>1, <1>2, <3>1 DEF TypeOK, LabelRec
      <4>2. label' = Settled(lab, n, label[n].value)
            /\ code' = [code EXCEPT ![label[n].value.id] = [addr |-> star, offs |-> 0]]
        BY <2>1, <3>1
      <4>3. DOMAIN code' = DOMAIN code /\ CodeOK(code')
        BY <1>3, <4>2 DEF CodeOK
      <4>4. QED
        BY <1>1, <1>2, <1>3, <1>5, <2>1, <4>1, <4>2, <4>3, SettledStep
    <3>2. CASE ~inPlace
      <4>1. label' = Settled(lab, n, Ref(NewId)) /\ code' = Extended(star, 0)
        BY <2>1, <3>2
      <4>2. Ref(NewId) \in ObjVal /\ Ref(NewId).id = NewId
        BY <1>1, <1>2 DEF Ref, Val, ObjVal, NewId, TypeOK
      <4>3. NewId \in DOMAIN code' /\ DOMAIN code \subseteq DOMAIN code' /\ CodeOK(code')
        BY <1>3, <4>1 DEF Extended, CodeOK
      <4>4. QED
        BY <1>1, <1>2, <1>3, <1>5, <2>1, <4>1, <4>2, <4>3, SettledStep
    <3>3. QED
      BY <3>1, <3>2
  <2>3. fixeddig' \in BOOLEAN /\ constcreated' \in BOOLEAN
    BY <2>1
  <2>4. ScalarsOK'
    BY <1>1, <1>2, <2>3 DEF ScalarsOK, TypeOK, control
  <2>5. QED
    BY <1>1, <2>2, <2>4, SamePass
<1>6. QED
  BY <1>4, <1>5

\* A variable is never awaited as one, but stays so if it was as a constant.
LEMMA VarStep == Inv /\ Var => Inv'
<1> SUFFICES ASSUME Inv, Var PROVE Inv'
  OBVIOUS
<1> DEFINE n == stmt.name
           v == Value(stmt.arg)
           m == stmt.arg.sym
           lab == Touched(m)
<1>1. /\ phase # "failed" /\ ProgOK /\ TypeOK /\ pc \in DOMAIN prog
      /\ stmt.op = "var" /\ UNCHANGED <<control, star, out>>
      /\ pc' = pc + 1 /\ fwcount' = Forwards(m)
      /\ UNCHANGED <<fixeddig, constcreated>>
  BY DEF Inv, Var, At, Compiling, DoubleDefined
<1>2. /\ stmt.arg \in Expr /\ n \in Name /\ m \in Name \cup {NoName}
      /\ pc \in Nat /\ pc' \in 1 .. (Len(prog) + 1)
  BY <1>1, StatementType DEF Stmt, Expr
<1>3. ScalarsOK'
  BY <1>1, <1>2 DEF ScalarsOK, TypeOK, control
<1>4. CASE Defined(n) /\ label[n].constant
  <2>1. /\ Evaluate(stmt.arg) /\ UNCHANGED code
    BY <1>4 DEF Var, DoubleDefined, Evaluate
  <2>2. TableInv'
    BY <1>1, <1>2, <2>1, EvaluateStep
  <2>3. QED
    BY <1>1, <1>3, <2>2, SamePass
<1>5. CASE ~(Defined(n) /\ label[n].constant)
  <2> DEFINE r == [lab[n] EXCEPT !.present = TRUE, !.defpass = pass, !.constant = FALSE,
                                 !.value = Stored(v), !.usepass = 0]
  <2>1. label' = [lab EXCEPT ![n] = r] /\ code' = Allocated(v)
    BY <1>5 DEF Var
  <2>2. v \in Evaluated /\ (v.t = "code" => v.id \in DOMAIN code)
    BY <1>1, <1>2, ValueType
  <2>3. /\ Stored(v) \in ObjVal
        /\ DOMAIN code \subseteq DOMAIN code' /\ CodeOK(code')
        /\ Stored(v).t = "code" => Stored(v).id \in DOMAIN code'
    BY <1>2, <2>1, <2>2, AllocatedOK
  <2>4. /\ TableOK(lab) /\ lab[n] \in LabelRec
        /\ lab[n].present = label[n].present /\ lab[n].defpass = label[n].defpass
        /\ lab[n].constant = label[n].constant
        /\ \A k \in Name : lab[k].value = label[k].value
    BY <1>1, <1>2, TouchedTable DEF TableOK
  <2>5. pass \in Nat \ {0} /\ pass <= pass /\ pass' = pass
    BY <1>1 DEF TypeOK, control
  <2>6. /\ r \in LabelRec
        /\ r.present /\ ~r.constant /\ r.defpass = pass /\ r.value = Stored(v)
        /\ r.usepass = 0 /\ r.fwpass = lab[n].fwpass
    BY <2>3, <2>4, <2>5 DEF LabelRec
  <2> HIDE DEF r
  <2>7. label' \in [Name -> LabelRec]
    BY <2>1, <2>4, <2>6 DEF TableOK
  <2>8. \A k \in Name : label'[k] = IF k = n THEN r ELSE lab[k]
    BY <2>1, <2>4 DEF TableOK
  <2>9. TableOK(label)'
    BY <2>4, <2>5, <2>6, <2>7, <2>8 DEF TableOK
  <2>10. \A k \in Name : label'[k].value.t = "code" => label'[k].value.id \in DOMAIN code'
    BY <1>1, <2>3, <2>4, <2>6, <2>8 DEF TypeOK
  <2>11. Awaited' = AwaitedIn(lab)
    <3>1. ~(lab[n].defpass = pass /\ lab[n].constant) \/ ~lab[n].present
      BY <1>5, <2>4 DEF Defined
    <3>2. ~lab[n].present => lab[n].fwpass = 0
      BY <1>2, <2>4 DEF TableOK
    <3>3. n \in Awaited' <=> n \in AwaitedIn(lab)
      BY <1>2, <2>5, <2>6, <2>8, <3>1, <3>2 DEF Awaited, AwaitedIn
    <3>4. \A k \in Name : k # n => (k \in Awaited' <=> k \in AwaitedIn(lab))
      BY <2>5, <2>8 DEF Awaited, AwaitedIn
    <3>5. QED
      BY <3>3, <3>4 DEF Awaited, AwaitedIn
  <2>12. fwcount' = Cardinality(Awaited') /\ fwcount' \in Nat
    BY <1>1, <1>2, <2>11, LookupCounts, AwaitedFinite DEF Inv, FwcountExact
  <2>13. TableInv'
    BY <2>3, <2>9, <2>10, <2>12 DEF TableInv, CodeOK
  <2>14. QED
    BY <1>1, <1>3, <2>13, SamePass
<1>6. QED
  BY <1>4, <1>5

(***************************************************************************)
(* The steps between passes.  A new pass has a number no label carries.    *)
(***************************************************************************)
LEMMA NewPassStep == Inv /\ (AnotherPass \/ StartListing) => Inv'
<1> SUFFICES ASSUME Inv, AnotherPass \/ StartListing PROVE Inv'
  OBVIOUS
<1>1. /\ TypeOK /\ ProgOK /\ prog' = prog /\ UNCHANGED table
      /\ pass' = pass + 1 /\ StartPass /\ signal' = signal
      /\ maxPass' \in {maxPass, pass} /\ phase' \in {"assemble", "list"}
  BY DEF Inv, AnotherPass, StartListing
<1>2. pass \in Nat \ {0} /\ pass' \in Nat \ {0}
  BY <1>1 DEF TypeOK
<1>3. 1 \in 1 .. (Len(prog) + 1)
  BY <1>1, FirstLine
<1>4. TypeOK'
  <2>1. \A n \in Name :
          /\ label'[n].defpass <= pass' /\ label'[n].usepass <= pass' /\ label'[n].fwpass <= pass'
          /\ ~label'[n].present => label'[n].fwpass = 0 /\ label'[n].usepass = 0
          /\ label'[n].value.t = "code" => label'[n].value.id \in DOMAIN code'
    BY <1>1, <1>2 DEF TypeOK, table, LabelRec
  <2>2. label' \in [Name -> LabelRec] /\ \A i \in DOMAIN code' : code'[i] \in [addr : Nat, offs : Nat]
    BY <1>1 DEF TypeOK, table
  <2>3. /\ pc' \in 1 .. (Len(prog') + 1) /\ star' \in Nat /\ fwcount' \in Nat
        /\ fixeddig' \in BOOLEAN /\ constcreated' \in BOOLEAN
    BY <1>1, <1>3 DEF StartPass
  <2>4. QED
    BY <1>1, <1>2, <2>1, <2>2, <2>3 DEF TypeOK
<1>5. Awaited' = {}
  <2>1. \A n \in Name : label'[n].fwpass # pass'
    BY <1>1, <1>2 DEF TypeOK, table, LabelRec
  <2>2. QED
    BY <2>1 DEF Awaited
<1>6. fwcount' = Cardinality(Awaited')
  BY <1>1, <1>5, FS_EmptySet DEF StartPass
<1>7. QED
  BY <1>1, <1>4, <1>6 DEF Inv, ProgOK, FwcountExact

LEMMA LastPassStep ==
  Inv /\ (TooManyPasses \/ LoopInterrupted \/ LoopEnds \/ ListingEnds \/ WriteOutput \/ Signal)
    => Inv'
<1> SUFFICES ASSUME Inv, TooManyPasses \/ LoopInterrupted \/ LoopEnds \/ ListingEnds
                           \/ WriteOutput \/ Signal
             PROVE  Inv'
  OBVIOUS
<1>1. TypeOK /\ ProgOK
  BY DEF Inv
<1>2. /\ UNCHANGED <<prog, table, fwcount, pc, star, constcreated, maxPass>>
      /\ fixeddig' \in {fixeddig, Fixed}
      /\ signal' \in {signal, TRUE}
      /\ phase' \in {phase, "assembled", "done", "failed"}
      /\ phase' # "failed" => phase # "failed" /\ pass' = pass
      /\ pass' \in {pass, pass + 1}
  BY DEF TooManyPasses, LoopInterrupted, LoopEnds, ListingEnds, WriteOutput, Signal,
         KeepPass, table, flags
<1>3. fixeddig' \in BOOLEAN
  BY <1>1, <1>2 DEF TypeOK, Fixed
<1>4. TypeOK'
  <2>1. pass' \in Nat \ {0} /\ pass <= pass'
    BY <1>1, <1>2 DEF TypeOK
  <2>2. \A n \in Name : /\ label[n].defpass <= pass' /\ label[n].usepass <= pass'
                        /\ label[n].fwpass <= pass'
    BY <1>1, <2>1 DEF TypeOK, LabelRec
  <2>3. QED
    BY <1>1, <1>2, <1>3, <2>1, <2>2 DEF TypeOK, table
<1>5. FwcountExact'
  BY <1>2 DEF Inv, FwcountExact, Awaited, table
<1>6. QED
  BY <1>1, <1>2, <1>4, <1>5 DEF Inv, ProgOK

LEMMA InitInv == Init => Inv
<1> SUFFICES ASSUME Init PROVE Inv
  OBVIOUS
<1>1. ProgOK
  BY DEF Init, ProgOK
<1>2. 1 \in 1 .. (Len(prog) + 1)
  BY <1>1, FirstLine
<1>3. NewLabel \in LabelRec
  BY DEF NewLabel, LabelRec, None, Val, NoId, ObjVal
<1>4. label \in [Name -> LabelRec]
  BY <1>3 DEF Init
<1>5. \A n \in Name : /\ label[n].defpass = 0 /\ label[n].usepass = 0 /\ label[n].fwpass = 0
                      /\ label[n].value.t = "none"
  BY DEF Init, NewLabel, None, Val
<1>6. TypeOK
  <2>1. \A n \in Name :
          /\ label[n].defpass <= pass /\ label[n].usepass <= pass /\ label[n].fwpass <= pass
          /\ ~label[n].present => label[n].fwpass = 0 /\ label[n].usepass = 0
          /\ label[n].value.t = "code" => label[n].value.id \in DOMAIN code
    BY <1>5 DEF Init
  <2>2. \A i \in DOMAIN code : code[i] \in [addr : Nat, offs : Nat]
    BY DEF Init
  <2>3. /\ pass \in Nat \ {0} /\ maxPass \in Nat /\ pc \in 1 .. (Len(prog) + 1)
        /\ star \in Nat /\ fwcount \in Nat /\ signal \in BOOLEAN
        /\ fixeddig \in BOOLEAN /\ constcreated \in BOOLEAN
        /\ phase \in {"assemble", "assembled", "list", "done", "failed"}
    <3>1. /\ pass = 1 /\ maxPass = MaxPass /\ pc = 1 /\ star = 0 /\ fwcount = 0
          /\ signal = FALSE /\ fixeddig = TRUE /\ constcreated = FALSE /\ phase = "assemble"
      BY DEF Init
    <3>2. pc \in 1 .. (Len(prog) + 1)
      BY <1>2, <3>1
    <3>3. /\ pass \in Nat \ {0} /\ maxPass \in Nat /\ star \in Nat /\ fwcount \in Nat
          /\ phase \in {"assemble", "assembled", "list", "done", "failed"}
      BY <3>1, MaxPassAssumption
    <3>4. QED
      BY <3>1, <3>2, <3>3
  <2>4. QED
    BY <1>4, <2>1, <2>2, <2>3 DEF TypeOK
<1>7. Awaited = {}
  BY <1>5 DEF Init, Awaited
<1>8. FwcountExact
  BY <1>7, FS_EmptySet DEF Init, FwcountExact
<1>9. QED
  BY <1>1, <1>6, <1>8 DEF Inv

LEMMA NextInv == Inv /\ [Next]_vars => Inv'
<1> SUFFICES ASSUME Inv, [Next]_vars PROVE Inv'
  OBVIOUS
<1>1. CASE Statement
  BY <1>1, WordStep, InstructionStep, IfStep, OtherStep, ConstStep, VarStep, LabelStep
     DEF Statement
<1>2. CASE Interrupted \/ AnotherPass \/ TooManyPasses \/ LoopInterrupted \/ LoopEnds
           \/ StartListing \/ ListingEnds \/ WriteOutput \/ Signal
  BY <1>2, OtherStep, NewPassStep, LastPassStep
<1>3. CASE UNCHANGED vars
  BY <1>3 DEF vars, Inv, ProgOK, TypeOK, FwcountExact, Awaited
<1>4. QED
  BY <1>1, <1>2, <1>3 DEF Next, Assemble

LEMMA InvHolds == Spec => []Inv
<1>1. QED
  BY InitInv, NextInv, PTL DEF Spec

\* Type correctness: in particular the pass numbers of the labels never run
\* ahead of the pass and the counter of forward references never goes below
\* zero, although it is decremented without a test (new_label, const_assign).
THEOREM TypeCorrect == Spec => []TypeOK
<1>1. Inv => TypeOK
  BY DEF Inv
<1>2. QED
  BY InvHolds, <1>1, PTL

\* The counter of forward references is exact: fwcount, which namespace_lookup
\* and the definitions keep, counts the awaited symbols of every program.
THEOREM ForwardReferencesExact == Spec => []FwcountExact
<1>1. Inv => FwcountExact
  BY DEF Inv
<1>2. QED
  BY InvHolds, <1>1, PTL

(***************************************************************************)
(* The second layer: a symbol that was looked up is defined or awaited.    *)
(***************************************************************************)
LEMMA LookupAwaited ==
  ASSUME Inv, ReadsAwaited, Compiling, fixeddig,
         NEW m \in Name \cup {NoName}, NEW lab \in {Found(m), Touched(m)}
  PROVE  \A n \in Name : lab[n].usepass = pass /\ lab[n].defpass # pass => n \in AwaitedIn(lab)
<1> SUFFICES ASSUME NEW n \in Name, lab[n].usepass = pass, lab[n].defpass # pass
             PROVE  n \in AwaitedIn(lab)
  OBVIOUS
<1>1. TypeOK
  BY DEF Inv
<1>2. /\ lab[n].defpass = label[n].defpass
      /\ lab[n].fwpass = IF n = m /\ NewForward(m) THEN pass ELSE label[n].fwpass
      /\ lab[n].usepass = label[n].usepass \/ (n = m /\ Visible(m))
  BY <1>1, FoundTable, TouchedTable
<1>3. CASE n = m /\ Visible(m)
  <2>1. label[n].constant /\ label[n].defpass = pass - 1
    BY <1>2, <1>3 DEF Visible
  <2>2. lab[n].fwpass = pass
    BY <1>2, <1>3, <2>1 DEF NewForward
  <2>3. QED
    BY <2>2 DEF AwaitedIn
<1>4. CASE ~(n = m /\ Visible(m))
  <2>1. n \in Awaited
    BY <1>2, <1>4 DEF ReadsAwaited
  <2>2. lab[n].fwpass = pass
    BY <1>2, <2>1 DEF Awaited
  <2>3. QED
    BY <2>2 DEF AwaitedIn
<1>5. QED
  BY <1>3, <1>4

\* The statements: each of them looks something up, defines something, or
\* leaves the table alone.
LEMMA StatementAwaited ==
  ASSUME Inv, ReadsAwaited, Statement, fixeddig'
  PROVE  ReadsAwaited'
<1>1. /\ Compiling /\ ProgOK /\ pc \in DOMAIN prog /\ TypeOK
      /\ pass' = pass
  BY DEF Statement, Word, Instruction, Org, If, Jump, Const, Var, Label, At, Inv, control
<1>2. /\ stmt.arg \in Expr /\ stmt.arg.sym \in Name \cup {NoName}
      /\ stmt.op \in {"const", "var", "label"} => stmt.name \in Name
  BY <1>1, StatementType, ExprType DEF Expr
<1>3. fixeddig
  BY DEF Statement, Word, Instruction, Org, If, Jump, Const, Var, Label, flags, DoubleDefined
<1>4. CASE label' = label
  BY <1>1, <1>3, <1>4 DEF ReadsAwaited, Awaited
<1>5. ASSUME NEW m \in Name \cup {NoName}, NEW lab \in {Found(m), Touched(m)},
             label' = lab
      PROVE  ReadsAwaited'
  <2>1. \A n \in Name : lab[n].usepass = pass /\ lab[n].defpass # pass => n \in AwaitedIn(lab)
    BY <1>1, <1>3, LookupAwaited
  <2>2. AwaitedIn(lab) = Awaited'
    BY <1>1, <1>5 DEF AwaitedIn, Awaited
  <2>3. QED
    BY <1>1, <1>5, <2>1, <2>2 DEF ReadsAwaited
<1>6. ASSUME NEW m \in Name \cup {NoName}, NEW lab \in {Found(m), Touched(m)},
             NEW k \in Name, NEW r, label' = [lab EXCEPT ![k] = r], r.defpass = pass
      PROVE  ReadsAwaited'
  <2>1. \A n \in Name : lab[n].usepass = pass /\ lab[n].defpass # pass => n \in AwaitedIn(lab)
    BY <1>1, <1>3, LookupAwaited
  <2>2. lab \in [Name -> LabelRec]
    BY <1>1, FoundTable, TouchedTable DEF TableOK
  <2>3. label'[k] = r /\ \A n \in Name : n # k => label'[n] = lab[n]
    BY <1>6, <2>2
  <2>4. \A n \in Name : n # k /\ n \in AwaitedIn(lab) => n \in Awaited'
    BY <1>1, <2>3 DEF AwaitedIn, Awaited
  <2>5. QED
    BY <1>1, <1>6, <2>1, <2>3, <2>4 DEF ReadsAwaited
<1>7. CASE Word \/ Instruction \/ If
  <2>1. label' = Touched(stmt.arg.sym)
    BY <1>7 DEF Word, Instruction, If, Evaluate
  <2>2. QED
    BY <1>2, <1>5, <2>1
<1>8. CASE Org \/ Jump
  BY <1>4, <1>8 DEF Org, Jump, table
<1>9. CASE Const
  <2>1. stmt.name \in Name
    BY <1>2, <1>9 DEF Const, At
  <2>2. \/ label' = Touched(stmt.arg.sym)
        \/ \E v : label' = Settled(Touched(stmt.arg.sym), stmt.name, v)
    BY <1>9 DEF Const
  <2>3. CASE label' = Touched(stmt.arg.sym)
    BY <1>2, <1>5, <2>3
  <2>4. ASSUME NEW v, label' = Settled(Touched(stmt.arg.sym), stmt.name, v)
        PROVE  ReadsAwaited'
    <3> DEFINE lab == Touched(stmt.arg.sym)
               r == [lab[stmt.name] EXCEPT !.present = TRUE, !.constant = TRUE,
                                           !.defpass = pass, !.value = v]
    <3>1. label' = [lab EXCEPT ![stmt.name] = r]
      BY <2>4 DEF Settled
    <3>2. r.defpass = pass
      BY <1>1, <1>2, <2>1, TouchedTable DEF TableOK, LabelRec
    <3>3. QED
      BY <1>2, <1>6, <2>1, <3>1, <3>2
  <2>5. QED
    BY <2>2, <2>3, <2>4
<1>10. CASE Var
  <2>1. stmt.name \in Name
    BY <1>2, <1>10 DEF Var, At
  <2> DEFINE lab == Touched(stmt.arg.sym)
             r == [lab[stmt.name] EXCEPT !.present = TRUE, !.defpass = pass,
                     !.constant = FALSE, !.value = Stored(Value(stmt.arg)), !.usepass = 0]
  <2>2. label' = lab \/ label' = [lab EXCEPT ![stmt.name] = r]
    BY <1>10 DEF Var
  <2>3. r.defpass = pass
    BY <1>1, <1>2, <2>1, TouchedTable DEF TableOK, LabelRec
  <2> HIDE DEF r
  <2>4. QED
    BY <1>2, <1>5, <1>6, <2>1, <2>2, <2>3
<1>11. CASE Label
  <2>1. stmt.name \in Name
    BY <1>2, <1>11 DEF Label, At
  <2>2. \/ label' = Found(stmt.name)
        \/ \E v : label' = Settled(Found(stmt.name), stmt.name, v)
    BY <1>11 DEF Label
  <2>3. CASE label' = Found(stmt.name)
    BY <1>5, <2>1, <2>3
  <2>4. ASSUME NEW v, label' = Settled(Found(stmt.name), stmt.name, v)
        PROVE  ReadsAwaited'
    <3> DEFINE lab == Found(stmt.name)
               r == [lab[stmt.name] EXCEPT !.present = TRUE, !.constant = TRUE,
                                           !.defpass = pass, !.value = v]
    <3>1. label' = [lab EXCEPT ![stmt.name] = r]
      BY <2>4 DEF Settled
    <3>2. r.defpass = pass
      BY <1>1, <2>1, FoundTable DEF TableOK, LabelRec
    <3>3. QED
      BY <1>6, <2>1, <3>1, <3>2
  <2>5. QED
    BY <2>2, <2>3, <2>4
<1>12. QED
  BY <1>7, <1>8, <1>9, <1>10, <1>11 DEF Statement

StaleInv == Inv /\ ReadsAwaited /\ NoStaleLookup

LEMMA StaleNext == StaleInv /\ [Next]_vars => StaleInv'
<1> SUFFICES ASSUME StaleInv, [Next]_vars PROVE ReadsAwaited' /\ NoStaleLookup'
  BY NextInv DEF StaleInv
<1>1. Inv /\ TypeOK /\ ReadsAwaited /\ NoStaleLookup
  BY DEF StaleInv, Inv
<1>2. CASE Statement
  <2>1. phase' # "assembled"
    BY <1>2 DEF Statement, Word, Instruction, Org, If, Jump, Const, Var, Label, At,
                Compiling, control
  <2>2. fixeddig' => ReadsAwaited'
    BY <1>1, <1>2, StatementAwaited
  <2>3. QED
    BY <2>1, <2>2 DEF ReadsAwaited, NoStaleLookup
<1>3. CASE Interrupted \/ Signal \/ UNCHANGED vars
  BY <1>1, <1>3 DEF Interrupted, Signal, vars, control, flags, table, ReadsAwaited,
                    NoStaleLookup, Compiling, Awaited
<1>4. CASE AnotherPass \/ StartListing
  <2>1. /\ pass' = pass + 1 /\ label' = label /\ phase' # "assembled"
    BY <1>4 DEF AnotherPass, StartListing, table
  <2>2. \A n \in Name : label'[n].usepass # pass'
    BY <1>1, <2>1 DEF TypeOK, LabelRec
  <2>3. QED
    BY <2>1, <2>2 DEF ReadsAwaited, NoStaleLookup
<1>5. CASE LoopEnds
  <2>1. /\ Compiling /\ fixeddig /\ fwcount = 0 /\ phase # "failed" /\ phase' \in {"assembled", "failed"}
        /\ UNCHANGED <<pass, label>>
    BY <1>5 DEF LoopEnds, PassOver, Stable, Fixed, KeepPass, table
  <2>2. Awaited = {}
    <3>1. IsFiniteSet(Awaited) /\ Cardinality(Awaited) = 0
      BY <1>1, <2>1, AwaitedFinite DEF Inv, FwcountExact, Awaited, AwaitedIn
    <3>2. QED
      BY <3>1, FS_EmptySet
  <2>3. \A n \in Name : label[n].usepass = pass => label[n].defpass = pass
    BY <1>1, <2>1, <2>2 DEF ReadsAwaited
  <2>4. QED
    BY <2>1, <2>3 DEF ReadsAwaited, NoStaleLookup, Compiling
<1>6. CASE TooManyPasses \/ LoopInterrupted \/ ListingEnds \/ WriteOutput
  BY <1>6 DEF TooManyPasses, LoopInterrupted, ListingEnds, WriteOutput,
              ReadsAwaited, NoStaleLookup, Compiling
<1>7. QED
  BY <1>2, <1>3, <1>4, <1>5, <1>6 DEF Next, Assemble

\* For every program: when the pass loop ends without errors, the last pass
\* defined every symbol it looked up.  No symbol that an earlier pass defined
\* and the last one did not reaches the output.
THEOREM NoStale == Spec => []NoStaleLookup
<1>1. Init => StaleInv
  <2> SUFFICES ASSUME Init PROVE ReadsAwaited /\ NoStaleLookup
    BY InitInv DEF StaleInv
  <2>1. \A n \in Name : label[n].usepass = 0 /\ pass = 1 /\ phase = "assemble"
    BY DEF Init, NewLabel
  <2>2. phase = "assemble"
    BY DEF Init
  <2>3. QED
    BY <2>1, <2>2 DEF ReadsAwaited, NoStaleLookup
<1>2. StaleInv => NoStaleLookup
  BY DEF StaleInv
<1>3. QED
  BY <1>1, <1>2, StaleNext, PTL DEF Spec

(***************************************************************************)
(* The third layer: a missing value passed over in silence brings another  *)
(* pass.  The listing pass has no pass after it, and passes over nothing.  *)
(***************************************************************************)
ListingIsLast == phase = "list" => pass = maxPass + 1

MissingInv == Inv /\ MissingComesBack /\ ListingIsLast /\ NothingMissing

\* Within a pass the reasons for another one only add up.
LEMMA ReasonsStay ==
  ASSUME Inv, Statement
  PROVE  /\ constcreated => constcreated'
         /\ ~fixeddig => ~fixeddig'
         /\ errors \subseteq errors'
         /\ UNCHANGED <<pass, maxPass, phase>>
BY DEF Inv, TypeOK, Statement, Word, Instruction, Org, If, Jump, Const, Var, Label,
       DoubleDefined, control, flags

LEMMA EmitMissing ==
  ASSUME Inv, MissingComesBack, Word \/ Instruction
  PROVE  MissingComesBack'
<1> DEFINE v == Value(stmt.arg)
<1>1. /\ Compiling /\ ProgOK /\ TypeOK /\ pc \in DOMAIN prog
      /\ \E size : Emit(v, size)
      /\ errors' = errors \cup UseErrors(v)
      /\ UNCHANGED <<pass, maxPass, phase, constcreated, fixeddig>>
  BY DEF Word, Instruction, At, Inv, control
<1>2. v \in Evaluated
  BY <1>1, ExprType, ValueType
<1>3. \A o \in out' : o \in out \/ o.known = IsNumber(v)
  BY <1>1 DEF Emit
<1>4. SUFFICES ASSUME errors' = {}, NEW o \in out', ~o.known
               PROVE  (constcreated \/ ~fixeddig) /\ pass < maxPass
  BY <1>1 DEF MissingComesBack, Compiling
<1>5. errors = {} /\ UseErrors(v) = {}
  BY <1>1, <1>4
<1>6. CASE o \in out
  BY <1>1, <1>4, <1>5, <1>6 DEF MissingComesBack
<1>7. CASE o \notin out
  <2>1. v.t \in {"undef", "none"}
    BY <1>2, <1>3, <1>4, <1>7 DEF IsNumber, Evaluated
  <2>2. QED
    BY <1>5, <2>1 DEF UseErrors
<1>8. QED
  BY <1>6, <1>7

LEMMA MissingNext == MissingInv /\ [Next]_vars => MissingInv'
<1> SUFFICES ASSUME MissingInv, [Next]_vars
             PROVE  MissingComesBack' /\ ListingIsLast' /\ NothingMissing'
  BY NextInv DEF MissingInv
<1>1. Inv /\ TypeOK /\ MissingComesBack /\ ListingIsLast /\ NothingMissing
  BY DEF MissingInv, Inv
<1>2. CASE Statement
  <2>1. UNCHANGED <<pass, maxPass, phase>> /\ Compiling
    BY <1>1, <1>2, ReasonsStay DEF Statement, Word, Instruction, Org, If, Jump, Const, Var,
                                   Label, At
  <2>2. MissingComesBack'
    <3>1. CASE Word \/ Instruction
      BY <1>1, <3>1, EmitMissing
    <3>2. CASE Org \/ If \/ Jump \/ Const \/ Var \/ Label
      <4>1. out' = out
        BY <3>2 DEF Org, If, Jump, Const, Var, Label
      <4>2. QED
        BY <1>1, <1>2, <2>1, <4>1, ReasonsStay DEF MissingComesBack, Compiling
    <3>3. QED
      BY <1>2, <3>1, <3>2 DEF Statement
  <2>3. QED
    BY <1>1, <2>1, <2>2 DEF ListingIsLast, NothingMissing, Compiling
<1>3. CASE Interrupted
  <2>1. errors' # {} /\ UNCHANGED <<pass, maxPass, phase>> /\ Compiling
    BY <1>3 DEF Interrupted, control
  <2>2. QED
    BY <1>1, <2>1 DEF MissingComesBack, ListingIsLast, NothingMissing, Compiling
<1>4. CASE Signal \/ UNCHANGED vars
  <2>1. UNCHANGED <<phase, pass, maxPass, errors, out, constcreated, fixeddig>>
    BY <1>4 DEF Signal, vars, flags
  <2>2. QED
    BY <1>1, <2>1 DEF MissingComesBack, ListingIsLast, NothingMissing, Compiling
<1>5. CASE AnotherPass \/ StartListing
  <2>1. /\ out' = {} /\ phase' \in {"assemble", "list"}
        /\ phase' = "list" => pass' = maxPass' + 1
    BY <1>5 DEF AnotherPass, StartListing, StartPass
  <2>2. ~(\E o \in out' : ~o.known)
    BY <2>1
  <2>3. MissingComesBack' /\ ListingIsLast'
    BY <2>1, <2>2 DEF MissingComesBack, ListingIsLast
  <2>4. NothingMissing'
    BY <2>1, <2>2 DEF NothingMissing
  <2>5. QED
    BY <2>3, <2>4
<1>6. CASE LoopEnds \/ ListingEnds
  <2>1. /\ Compiling /\ out' = out /\ ~(phase' \in {"assemble", "list"})
        /\ phase' # "failed" => errors = {}
        /\ phase = "list" \/ (fixeddig /\ ~constcreated)
    BY <1>6 DEF LoopEnds, ListingEnds, PassOver, KeepPass, Stable, Fixed, Compiling
  <2>2. phase = "list" => ~(pass < maxPass)
    BY <1>1 DEF ListingIsLast, TypeOK
  <2>3. errors = {} => \A o \in out : o.known
    BY <1>1, <2>1, <2>2 DEF MissingComesBack
  <2>4. QED
    BY <2>1, <2>3 DEF MissingComesBack, ListingIsLast, NothingMissing, Compiling
<1>7. CASE TooManyPasses \/ LoopInterrupted \/ WriteOutput
  <2>1. /\ out' = out /\ phase' \in {"failed", "done"}
        /\ phase' = "done" => phase = "assembled"
    BY <1>7 DEF TooManyPasses, LoopInterrupted, WriteOutput, KeepPass
  <2>2. QED
    BY <1>1, <2>1 DEF MissingComesBack, ListingIsLast, NothingMissing, Compiling
<1>8. QED
  BY <1>2, <1>3, <1>4, <1>5, <1>6, <1>7 DEF Next, Assemble

\* For every program: nothing that is written was assembled from a value that
\* was missing, although such values are passed over in silence (touval,
\* err_msg_still_none, err_msg_not_defined3).
THEOREM NoneMissing == Spec => []NothingMissing
<1>1. Init => MissingInv
  <2> SUFFICES ASSUME Init PROVE MissingComesBack /\ ListingIsLast /\ NothingMissing
    BY InitInv DEF MissingInv
  <2>1. phase = "assemble" /\ out = {}
    BY DEF Init
  <2>2. QED
    BY <2>1 DEF MissingComesBack, ListingIsLast, NothingMissing
<1>2. MissingInv => NothingMissing
  BY DEF MissingInv
<1>3. QED
  BY <1>1, <1>2, MissingNext, PTL DEF Spec

(***************************************************************************)
(* The fourth layer: what was read is what the symbols end with.  A value  *)
(* changes after it was read when a definition replaces it, or when a      *)
(* label moves and its Code object with it.  The code compares in the      *)
(* first case, and in the second one only for the symbol that is the label *)
(* itself: so no other constant may refer to the object (Owned).           *)
(***************************************************************************)
LabelNames == NamesOf(prog, "label")

\* Objects are numbered by the line and the pass that made them.
Fresh ==
  \A i, p \in Nat : <<i, p>> \in DOMAIN code => p < pass \/ (p = pass /\ i < pc)

Kinds ==
  \A n \in Name :
    /\ label[n].constant => label[n].present
    /\ label[n].present /\ ~label[n].constant =>
         /\ n \in NamesOf(prog, "var")
         /\ label[n].usepass = pass => label[n].defpass = pass
    /\ n \in LabelNames /\ label[n].present => label[n].constant /\ label[n].value.t = "code"

Owned ==
  \A l \in LabelNames : \A n \in Name \ {l} :
    label[l].present /\ label[n].constant /\ label[n].value.t = "code"
      => label[n].value.id # label[l].value.id

\* A read is accounted for: the symbol is a constant that has this value, and is
\* marked, or it is a variable of this pass.
Accounted(tab, c, r) ==
  /\ r.name \in Name /\ tab[r.name].present
  /\ IF tab[r.name].constant
     THEN /\ tab[r.name].usepass = pass
          /\ r.v = (IF tab[r.name].value.t = "code"
                    THEN c[tab[r.name].value.id].addr + c[tab[r.name].value.id].offs
                    ELSE tab[r.name].value.n + tab[r.name].value.offs)
     ELSE tab[r.name].defpass = pass

ReadsAccounted == Compiling /\ fixeddig => \A r \in seen : Accounted(label, code, r)

ReadInv == Inv /\ Fresh /\ Kinds /\ Owned /\ ReadsAccounted /\ ReadsAreFinal

LEMMA NamesType ==
  ASSUME ProgOK, NEW op \in {"const", "var", "label"}
  PROVE  /\ NamesOf(prog, op) \subseteq Name
         /\ \A i \in DOMAIN prog : prog[i].op = op => prog[i].name \in NamesOf(prog, op)
BY ProgramsAssumption DEF ProgOK, NamesOf, WellFormed

\* A look-up marks the symbol and changes nothing else that counts here.
LEMMA LookupKinds ==
  ASSUME ReadInv, Compiling, fixeddig' => fixeddig,
         UNCHANGED <<prog, phase, pass, code>>,
         NEW m \in Name \cup {NoName},
         \/ label' = Found(m) /\ seen' = seen
         \/ label' = Touched(m) /\ seen' = See(m)
  PROVE  Kinds' /\ Owned' /\ ReadsAccounted'
<1>1. TypeOK /\ pass \in Nat /\ Kinds /\ Owned /\ ReadsAccounted /\ ProgOK /\ LabelNames \subseteq Name
  BY NamesType DEF ReadInv, Inv, TypeOK, LabelNames
<1>2. \A k \in Name : /\ label'[k].present = label[k].present
                       /\ label'[k].constant = label[k].constant
                       /\ label'[k].value = label[k].value
                       /\ label'[k].defpass = label[k].defpass
                       /\ \/ label'[k].usepass = label[k].usepass
                          \/ label'[k].usepass = pass /\ label' = Touched(m) /\ k = m /\ Visible(m)
  BY <1>1, FoundTable, TouchedTable
<1>3. Visible(m) => /\ m \in Name /\ label[m].present
                     /\ (label[m].constant \/ label[m].defpass = pass)
  BY DEF Visible
<1>4. Kinds'
  BY <1>1, <1>2, <1>3 DEF Kinds, LabelNames
<1>5. Owned'
  BY <1>1, <1>2 DEF Owned, LabelNames
<1>6. ASSUME fixeddig', NEW r \in seen'
      PROVE  Accounted(label', code', r) /\ pass' = pass
  <2>1. CASE r \in seen
    <3>1. Accounted(label, code, r)
      BY <1>1, <1>6, <2>1 DEF ReadsAccounted
    <3>2. QED
      BY <1>2, <3>1 DEF Accounted
  <2>2. CASE r \notin seen
    <3>1. label' = Touched(m) /\ Visible(m) /\ r = [name |-> m, v |-> Number(label[m].value)]
      BY <2>2 DEF See
    <3>2. label'[m].usepass = pass
      BY <1>1, <1>3, <3>1, TouchedTable
    <3>3. QED
      BY <1>2, <1>3, <3>1, <3>2 DEF Accounted, Number
  <2>3. QED
    BY <2>1, <2>2
<1>7. QED
  BY <1>4, <1>5, <1>6 DEF ReadsAccounted, Accounted
\* A definition of a constant or a label.  Nothing that was read before may
\* have another value after it, or the pass is not the last one.
LEMMA DefinitionReads ==
  ASSUME ReadInv, Compiling, fixeddig' => fixeddig,
         UNCHANGED <<prog, phase, pass>>,
         NEW n \in Name, ~Defined(n),
         NEW m \in Name \cup {NoName}, NEW lab, NEW v \in ObjVal,
         \/ lab = Found(m) /\ seen' = seen
         \/ lab = Touched(m) /\ seen' = See(m),
         label' = Settled(lab, n, v),
         n \in LabelNames => v.t = "code",
         \A k \in Name \ {n} :
           v.t = "code" /\ label[k].value.t = "code"
             /\ ((n \in LabelNames /\ label[k].constant) \/ (k \in LabelNames /\ label[k].present))
             => label[k].value.id # v.id,
         fixeddig' =>
           /\ \A k \in Name \ {n} :
                label[k].constant /\ label[k].value.t = "code"
                  => code'[label[k].value.id] = code[label[k].value.id]
           /\ label[n].constant /\ lab[n].usepass = pass
                => v = label[n].value /\ (v.t = "code" => code'[v.id] = code[v.id])
  PROVE  Kinds' /\ Owned' /\ ReadsAccounted'
<1>1. TypeOK /\ pass \in Nat /\ Kinds /\ Owned /\ ReadsAccounted /\ ProgOK /\ LabelNames \subseteq Name
  BY NamesType DEF ReadInv, Inv, TypeOK, LabelNames
<1>2. /\ lab \in [Name -> LabelRec]
      /\ \A k \in Name :
           /\ lab[k].present = label[k].present
           /\ lab[k].constant = label[k].constant
           /\ lab[k].value = label[k].value
           /\ lab[k].defpass = label[k].defpass
           /\ \/ lab[k].usepass = label[k].usepass
              \/ lab[k].usepass = pass /\ lab = Touched(m) /\ k = m /\ Visible(m)
  BY <1>1, FoundTable, TouchedTable DEF TableOK
<1>3. Visible(m) => /\ m \in Name /\ label[m].present
                     /\ (label[m].constant \/ label[m].defpass = pass)
  BY DEF Visible
<1>4. PICK r0 \in LabelRec :
        /\ label' = [lab EXCEPT ![n] = r0]
        /\ r0.present /\ r0.constant /\ r0.defpass = pass /\ r0.value = v
        /\ r0.usepass = lab[n].usepass
  <2> DEFINE r == [lab[n] EXCEPT !.present = TRUE, !.constant = TRUE,
                                 !.defpass = pass, !.value = v]
  <2>1. lab[n] \in LabelRec
    BY <1>2
  <2>2. r \in LabelRec /\ r.present /\ r.constant /\ r.defpass = pass /\ r.value = v
        /\ r.usepass = lab[n].usepass
    BY <1>1, <2>1 DEF LabelRec
  <2>3. label' = [lab EXCEPT ![n] = r]
    BY DEF Settled
  <2> HIDE DEF r
  <2>4. QED
    BY <2>2, <2>3
<1>5. \A k \in Name : label'[k] = IF k = n THEN r0 ELSE lab[k]
  BY <1>2, <1>4
<1>6. Kinds'
  BY <1>1, <1>2, <1>3, <1>4, <1>5 DEF Kinds, LabelNames
<1>7. Owned'
  <2> SUFFICES ASSUME NEW l \in LabelNames, NEW k \in Name \ {l},
                      label'[l].present, label'[k].constant, label'[k].value.t = "code"
               PROVE  label'[k].value.id # label'[l].value.id
    BY DEF Owned, LabelNames
  <2>1. l \in Name
    BY <1>1
  <2>2. CASE k # n /\ l # n
    BY <1>1, <1>2, <1>5, <2>1, <2>2 DEF Owned
  <2>3. CASE k = n /\ l # n
    BY <1>1, <1>2, <1>4, <1>5, <2>1, <2>3 DEF Kinds
  <2>4. CASE k # n /\ l = n
    BY <1>1, <1>2, <1>4, <1>5, <2>1, <2>4
  <2>5. QED
    BY <2>2, <2>3, <2>4
<1>8. ASSUME fixeddig', NEW r \in seen'
      PROVE  Accounted(label', code', r)
  <2>1. /\ r.name \in Name /\ label[r.name].present
        /\ label[r.name].constant =>
             /\ lab[r.name].usepass = pass
             /\ r.v = Number(label[r.name].value)
        /\ ~label[r.name].constant => label[r.name].defpass = pass
    <3>1. CASE r \in seen
      <4>1. Accounted(label, code, r)
        BY <1>1, <1>8, <3>1 DEF ReadsAccounted
      <4>2. QED
        BY <1>2, <4>1 DEF Accounted, Number
    <3>2. CASE r \notin seen
      <4>1. lab = Touched(m) /\ Visible(m) /\ r = [name |-> m, v |-> Number(label[m].value)]
        BY <3>2 DEF See
      <4>2. lab[m].usepass = pass
        BY <1>1, <1>3, <4>1, TouchedTable
      <4>3. QED
        BY <1>3, <4>1, <4>2
    <3>3. QED
      BY <3>1, <3>2
  <2>2. CASE r.name = n
    <3>1. label[n].constant
      BY <2>1, <2>2 DEF Defined
    <3>2. v = label[n].value /\ (v.t = "code" => code'[v.id] = code[v.id])
      BY <1>8, <2>1, <2>2, <3>1
    <3>3. QED
      BY <1>4, <1>5, <2>1, <2>2, <3>1, <3>2 DEF Accounted, Number
  <2>3. CASE r.name # n
    <3>1. label'[r.name] = lab[r.name]
      BY <1>5, <2>1, <2>3
    <3>2. label[r.name].constant /\ label[r.name].value.t = "code"
            => code'[label[r.name].value.id] = code[label[r.name].value.id]
      BY <1>8, <2>1, <2>3
    <3>3. QED
      BY <1>2, <2>1, <3>1, <3>2 DEF Accounted, Number
  <2>4. QED
    BY <2>2, <2>3
<1>9. QED
  BY <1>6, <1>7, <1>8 DEF ReadsAccounted, Accounted
\* An object that has just been made is nobody else's.
LEMMA NewObject ==
  ASSUME Fresh, pc \in Nat, pass \in Nat
  PROVE  /\ NewId \notin DOMAIN code
         /\ \A a, o : /\ DOMAIN Extended(a, o) = DOMAIN code \cup {NewId}
                      /\ \A id \in DOMAIN code : Extended(a, o)[id] = code[id]
         /\ \A v : /\ DOMAIN Allocated(v) \subseteq DOMAIN code \cup {NewId}
                   /\ \A id \in DOMAIN code : Allocated(v)[id] = code[id]
<1>1. NewId \notin DOMAIN code
  BY DEF NewId, Fresh
<1>2. \A a, o : /\ DOMAIN Extended(a, o) = DOMAIN code \cup {NewId}
                /\ \A id \in DOMAIN code : Extended(a, o)[id] = code[id]
  BY <1>1 DEF Extended
<1>3. \A v : /\ DOMAIN Allocated(v) \subseteq DOMAIN code \cup {NewId}
             /\ \A id \in DOMAIN code : Allocated(v)[id] = code[id]
  BY <1>2 DEF Allocated
<1>4. QED
  BY <1>1, <1>2, <1>3

\* What a line of the program may define, when labels share nothing
LEMMA LineNames ==
  ASSUME Unshared, ProgOK, pc \in DOMAIN prog
  PROVE  /\ stmt.op \in {"const", "var"} => stmt.name \notin LabelNames
         /\ stmt.op = "label" => stmt.name \in LabelNames
         /\ stmt.op = "var" => stmt.name \in NamesOf(prog, "var")
         /\ stmt.op = "const" /\ stmt.arg.plus = 0 =>
              stmt.arg.sym \notin LabelNames /\ stmt.arg.sym \notin NamesOf(prog, "var")
<1>1. stmt.op \in {"const", "var"} => stmt.name \notin LabelNames
  BY DEF Unshared, ProgOK, LabelNames, stmt
<1>2. stmt.op = "const" /\ stmt.arg.plus = 0 =>
        stmt.arg.sym \notin LabelNames /\ stmt.arg.sym \notin NamesOf(prog, "var")
  BY DEF Unshared, ProgOK, LabelNames, stmt
<1>3. stmt.op = "label" => stmt.name \in LabelNames
  BY DEF LabelNames, stmt, NamesOf
<1>4. stmt.op = "var" => stmt.name \in NamesOf(prog, "var")
  BY DEF stmt, NamesOf
<1>5. QED
  BY <1>1, <1>2, <1>3, <1>4

LEMMA VarReads ==
  ASSUME Unshared, ReadInv, Var
  PROVE  Kinds' /\ Owned' /\ ReadsAccounted'
<1> DEFINE n == stmt.name
           v == Value(stmt.arg)
           m == stmt.arg.sym
           lab == Touched(m)
<1>1. /\ Compiling /\ ProgOK /\ TypeOK /\ Fresh /\ Kinds /\ Owned /\ ReadsAccounted
      /\ pc \in DOMAIN prog /\ stmt.op = "var"
      /\ prog' = prog /\ phase' = phase /\ pass' = pass
      /\ fixeddig' = fixeddig /\ seen' = See(m)
  BY DEF ReadInv, Inv, Var, At, control, DoubleDefined
<1>2. /\ stmt.arg \in Expr /\ n \in Name /\ m \in Name \cup {NoName}
      /\ pc \in Nat /\ pass \in Nat
      /\ n \notin LabelNames /\ n \in NamesOf(prog, "var") /\ LabelNames \subseteq Name
  BY <1>1, StatementType, LineNames, NamesType DEF Stmt, Expr, TypeOK, LabelNames
<1>3. CASE Defined(n) /\ label[n].constant
  <2>1. label' = Touched(m) /\ code' = code
    BY <1>3 DEF Var, DoubleDefined
  <2>2. QED
    BY <1>1, <1>2, <2>1, LookupKinds
<1>4. CASE ~(Defined(n) /\ label[n].constant)
  <2> DEFINE r == [lab[n] EXCEPT !.present = TRUE, !.defpass = pass, !.constant = FALSE,
                                 !.value = Stored(v), !.usepass = 0]
  <2>1. label' = [lab EXCEPT ![n] = r] /\ code' = Allocated(v)
    BY <1>4 DEF Var
  <2>2. /\ lab \in [Name -> LabelRec]
        /\ \A k \in Name :
             /\ lab[k].present = label[k].present
             /\ lab[k].constant = label[k].constant
             /\ lab[k].value = label[k].value
             /\ lab[k].defpass = label[k].defpass
             /\ lab[k].usepass = IF k = m /\ Visible(m) THEN pass ELSE label[k].usepass
    BY <1>1, <1>2, TouchedTable DEF TableOK
  <2>3. lab[n] \in LabelRec
    BY <1>2, <2>2
  <2>4. r.present /\ ~r.constant /\ r.defpass = pass /\ r.usepass = 0
    BY <1>2, <2>3 DEF LabelRec
  <2> HIDE DEF r
  <2>5. \A k \in Name : label'[k] = IF k = n THEN r ELSE lab[k]
    BY <2>1, <2>2
  <2>6. Visible(m) => /\ m \in Name /\ label[m].present
                       /\ (label[m].constant \/ label[m].defpass = pass)
    BY DEF Visible
  <2>7. pass # 0
    BY <1>1 DEF TypeOK
  <2>8. Kinds'
    BY <1>1, <1>2, <2>2, <2>4, <2>5, <2>6, <2>7 DEF Kinds, LabelNames
  <2>9. Owned'
    BY <1>1, <1>2, <2>2, <2>4, <2>5 DEF Owned, LabelNames
  <2>10. ASSUME fixeddig', NEW q \in seen'
         PROVE  Accounted(label', code', q)
    <3>1. /\ q.name \in Name /\ label[q.name].present
          /\ label[q.name].constant =>
               /\ lab[q.name].usepass = pass
               /\ q.v = Number(label[q.name].value)
          /\ ~label[q.name].constant => label[q.name].defpass = pass
      <4>1. CASE q \in seen
        <5>1. Accounted(label, code, q)
          BY <1>1, <2>10, <4>1 DEF ReadsAccounted
        <5>2. QED
          BY <2>2, <5>1 DEF Accounted, Number
      <4>2. CASE q \notin seen
        <5>1. Visible(m) /\ q = [name |-> m, v |-> Number(label[m].value)]
          BY <1>1, <4>2 DEF See
        <5>2. QED
          BY <2>2, <2>6, <5>1
      <4>3. QED
        BY <4>1, <4>2
    <3>2. CASE q.name = n
      BY <2>4, <2>5, <3>1, <3>2, <1>1 DEF Accounted
    <3>3. CASE q.name # n
      <4>1. label'[q.name] = lab[q.name]
        BY <2>5, <3>1, <3>3
      <4>2. label[q.name].value.t = "code" => label[q.name].value.id \in DOMAIN code
        BY <1>1, <3>1 DEF TypeOK
      <4>3. label[q.name].value.t = "code"
              => code'[label[q.name].value.id] = code[label[q.name].value.id]
        BY <1>1, <1>2, <2>1, <4>2, NewObject
      <4>4. QED
        BY <1>1, <2>2, <3>1, <4>1, <4>3 DEF Accounted, Number
    <3>4. QED
      BY <3>2, <3>3
  <2>11. QED
    BY <1>1, <2>8, <2>9, <2>10 DEF ReadsAccounted, Accounted
<1>5. QED
  BY <1>3, <1>4
\* A value that is not new and refers to an object is that of the bare symbol.
LEMMA BareValue ==
  ASSUME TypeOK, NEW e \in Expr, Value(e).t = "code"
  PROVE  /\ e.sym \in Name /\ e.plus = 0 /\ Visible(e.sym)
         /\ Value(e) = label[e.sym].value
<1>1. e.sym # NoName
  BY DEF Value, IntVal, Val
<1>2. e.sym \in Name
  BY <1>1 DEF Expr
<1>3. Lookup(e.sym).t = "code" /\ e.plus = 0 /\ Value(e) = Lookup(e.sym)
  BY <1>1 DEF Value, IntVal, Val, Sum
<1>4. Visible(e.sym) /\ Lookup(e.sym) = label[e.sym].value
  BY <1>3 DEF Lookup, None, Undef, Val
<1>5. QED
  BY <1>2, <1>3, <1>4

LEMMA ConstReads ==
  ASSUME Unshared, ReadInv, Const
  PROVE  Kinds' /\ Owned' /\ ReadsAccounted'
<1> DEFINE n == stmt.name
           v == Value(stmt.arg)
           m == stmt.arg.sym
           lab == Touched(m)
           used == label[n].present /\ fixeddig /\ lab[n].usepass >= pass
           same == Same(v, label[n].value)
           kept == used /\ same
           w == IF kept THEN label[n].value ELSE Stored(v)
<1>1. /\ Compiling /\ ProgOK /\ TypeOK /\ Inv /\ Fresh /\ Kinds /\ Owned /\ ReadsAccounted
      /\ pc \in DOMAIN prog /\ stmt.op = "const"
      /\ prog' = prog /\ phase' = phase /\ pass' = pass
      /\ seen' = See(m)
  BY DEF ReadInv, Inv, Const, At, control
<1>2. /\ stmt.arg \in Expr /\ n \in Name /\ m \in Name \cup {NoName}
      /\ pc \in Nat /\ pass \in Nat
      /\ n \notin LabelNames /\ LabelNames \subseteq Name
      /\ stmt.arg.plus = 0 => m \notin LabelNames /\ m \notin NamesOf(prog, "var")
  BY <1>1, StatementType, LineNames, NamesType DEF Stmt, Expr, TypeOK, LabelNames
<1>3. CASE Defined(n)
  <2>1. label' = Touched(m) /\ code' = code /\ fixeddig' = fixeddig
    BY <1>3 DEF Const, DoubleDefined
  <2>2. QED
    BY <1>1, <1>2, <2>1, LookupKinds
<1>4. CASE ~Defined(n)
  <2>1. /\ fixeddig' = (fixeddig /\ ~(used /\ ~same))
        /\ label' = Settled(lab, n, w)
        /\ code' = IF kept THEN code ELSE Allocated(v)
    BY <1>4 DEF Const
  <2>2. v \in Evaluated /\ (v.t = "code" => v.id \in DOMAIN code)
    BY <1>1, <1>2, ValueType
  <2>3. w \in ObjVal
    BY <1>1, <1>2, <2>2, AllocatedOK DEF TypeOK, LabelRec
  <2>4. /\ lab \in [Name -> LabelRec]
        /\ lab[n].usepass = IF n = m /\ Visible(m) THEN pass ELSE label[n].usepass
        /\ lab[n].usepass \in Nat /\ lab[n].usepass <= pass
    BY <1>1, <1>2, TouchedTable DEF TableOK, LabelRec
  <2>5. lab[n].usepass = pass /\ label[n].present => label[n].constant
    <3>1. Visible(m) => label[m].constant \/ (label[m].present /\ label[m].defpass = pass)
      BY DEF Visible
    <3>2. QED
      BY <1>1, <1>2, <1>4, <2>4, <3>1 DEF Kinds, Defined
  <2>6. used => label[n].constant
    BY <1>2, <2>4, <2>5
  <2>7. \A k \in Name : label[k].value.t = "code" => label[k].value.id \in DOMAIN code
    BY <1>1 DEF TypeOK
  <2>8. ASSUME NEW k \in Name \ {n}, w.t = "code", label[k].value.t = "code",
               k \in LabelNames, label[k].present
        PROVE  label[k].value.id # w.id
    <3>1. CASE kept
      BY <1>1, <1>2, <2>6, <2>8, <3>1 DEF Owned
    <3>2. CASE ~kept /\ v.t = "sum"
      <4>1. w = Ref(NewId)
        BY <3>2 DEF Stored
      <4>2. w.id = NewId
        BY <4>1 DEF Ref, Val
      <4>3. QED
        BY <1>1, <1>2, <2>7, <2>8, <4>2, NewObject
    <3>3. CASE ~kept /\ v.t # "sum"
      <4>1. w = v /\ v.t = "code"
        BY <2>8, <3>3 DEF Stored
      <4>2. m \in Name /\ stmt.arg.plus = 0 /\ Visible(m) /\ v = label[m].value
        BY <1>1, <1>2, <4>1, BareValue
      <4>3. label[m].constant
        BY <1>1, <1>2, <4>2 DEF Visible, Kinds
      <4>4. m # k
        BY <1>2, <2>8, <4>2
      <4>5. QED
        BY <1>1, <2>8, <4>1, <4>2, <4>3, <4>4 DEF Owned
    <3>4. QED
      BY <3>1, <3>2, <3>3
  <2>9. ASSUME fixeddig', NEW k \in Name \ {n}, label[k].value.t = "code"
        PROVE  code'[label[k].value.id] = code[label[k].value.id]
    BY <1>1, <1>2, <2>1, <2>7, <2>9, NewObject
  <2>10. ASSUME fixeddig', label[n].constant, lab[n].usepass = pass
         PROVE  w = label[n].value /\ code' = code
    <3>1. label[n].present /\ fixeddig
      BY <1>1, <1>2, <2>1, <2>10 DEF Kinds
    <3>2. used
      BY <1>2, <2>10, <3>1
    <3>3. QED
      BY <2>1, <2>10, <3>2
  <2>11. fixeddig' => fixeddig
    BY <2>1
  <2> HIDE DEF w, kept, used, same, n, m, v
  <2>12. QED
    BY <1>1, <1>2, <1>4, <2>1, <2>3, <2>8, <2>9, <2>10, <2>11, DefinitionReads
<1>5. QED
  BY <1>3, <1>4

LEMMA LabelReads ==
  ASSUME Unshared, ReadInv, Label
  PROVE  Kinds' /\ Owned' /\ ReadsAccounted'
<1> DEFINE n == stmt.name
           lab == Found(n)
           inPlace == label[n].present /\ label[n].value.t = "code"
           moved == inPlace /\ code[label[n].value.id] # [addr |-> star, offs |-> 0]
           used == label[n].usepass >= pass
           w == IF inPlace THEN label[n].value ELSE Ref(NewId)
<1>1. /\ Compiling /\ ProgOK /\ TypeOK /\ Inv /\ Fresh /\ Kinds /\ Owned /\ ReadsAccounted
      /\ pc \in DOMAIN prog /\ stmt.op = "label"
      /\ prog' = prog /\ phase' = phase /\ pass' = pass
      /\ seen' = seen
  BY DEF ReadInv, Inv, Label, At, control
<1>2. /\ n \in Name /\ n \in Name \cup {NoName}
      /\ pc \in Nat /\ pass \in Nat
      /\ n \in LabelNames /\ LabelNames \subseteq Name
  BY <1>1, StatementType, LineNames, NamesType DEF Stmt, TypeOK, LabelNames
<1>3. CASE Defined(n)
  <2>1. label' = Found(n) /\ code' = code /\ fixeddig' = fixeddig
    BY <1>3 DEF Label, DoubleDefined
  <2>2. QED
    BY <1>1, <1>2, <2>1, LookupKinds
<1>4. CASE ~Defined(n)
  <2>1. /\ fixeddig' = (fixeddig /\ ~(moved /\ used))
        /\ label' = Settled(lab, n, w)
        /\ code' = IF inPlace
                   THEN [code EXCEPT ![label[n].value.id] = [addr |-> star, offs |-> 0]]
                   ELSE Extended(star, 0)
    BY <1>4 DEF Label
  <2>2. \A k \in Name : label[k].value.t = "code" => label[k].value.id \in DOMAIN code
    BY <1>1 DEF TypeOK
  <2>3. Ref(NewId) \in ObjVal /\ Ref(NewId).t = "code" /\ Ref(NewId).id = NewId
    BY <1>2 DEF Ref, Val, ObjVal, NewId
  <2>4. w \in ObjVal /\ w.t = "code"
    BY <1>1, <1>2, <2>3 DEF TypeOK, LabelRec
  <2>5. lab[n].usepass = label[n].usepass
    BY <1>1, <1>2, FoundTable
  <2>6. \A k \in LabelNames : label[k].present => label[k].constant
    BY <1>1, <1>2 DEF Kinds
  <2>7. ASSUME NEW k \in Name \ {n}, label[k].value.t = "code", label[k].constant
        PROVE  label[k].value.id # w.id
    <3>1. CASE inPlace
      BY <1>1, <1>2, <2>7, <3>1 DEF Owned
    <3>2. CASE ~inPlace
      BY <1>1, <1>2, <2>2, <2>3, <2>7, <3>2, NewObject
    <3>3. QED
      BY <3>1, <3>2
  <2>8. ASSUME fixeddig', NEW k \in Name \ {n}, label[k].value.t = "code", label[k].constant
        PROVE  code'[label[k].value.id] = code[label[k].value.id]
    <3>1. label[k].value.id \in DOMAIN code
      BY <2>2, <2>8
    <3>2. CASE inPlace
      <4>1. label[k].value.id # label[n].value.id
        BY <2>7, <2>8, <3>2
      <4>2. QED
        BY <2>1, <3>1, <3>2, <4>1
    <3>3. CASE ~inPlace
      BY <1>1, <1>2, <2>1, <3>1, <3>3, NewObject
    <3>4. QED
      BY <3>2, <3>3
  <2>9. ASSUME fixeddig', label[n].constant, lab[n].usepass = pass
        PROVE  w = label[n].value /\ code'[w.id] = code[w.id]
    <3>1. inPlace /\ used
      BY <1>1, <1>2, <2>5, <2>9 DEF Kinds
    <3>2. code[label[n].value.id] = [addr |-> star, offs |-> 0]
      BY <2>1, <2>9, <3>1
    <3>3. label[n].value.id \in DOMAIN code
      BY <1>2, <2>2, <3>1
    <3>4. QED
      BY <2>1, <3>1, <3>2, <3>3
  <2>10. fixeddig' => fixeddig
    BY <2>1
  <2>11. \A k \in Name \ {n} :
           w.t = "code" /\ label[k].value.t = "code"
             /\ ((n \in LabelNames /\ label[k].constant) \/ (k \in LabelNames /\ label[k].present))
             => label[k].value.id # w.id
    BY <2>6, <2>7
  <2> HIDE DEF w, inPlace, moved, used, n
  <2>12. QED
    BY <1>1, <1>2, <1>4, <2>1, <2>4, <2>8, <2>9, <2>10, <2>11, DefinitionReads
<1>5. QED
  BY <1>3, <1>4
\* Every line makes at most one object, and lines are passed in order.
LEMMA StatementFresh ==
  ASSUME ReadInv, Statement
  PROVE  Fresh'
<1>1. /\ ProgOK /\ TypeOK /\ Fresh /\ pc \in DOMAIN prog /\ pass' = pass
  BY DEF ReadInv, Inv, Statement, Word, Instruction, Org, If, Jump, Const, Var, Label, At, control
<1>2. /\ pc \in Nat /\ pass \in Nat
      /\ stmt.op = "if" => stmt.no > pc /\ stmt.fi > pc
      /\ stmt.op = "jump" => stmt.fi > pc
  <2>1. WellFormed(prog)
    BY <1>1, ProgramsAssumption DEF ProgOK
  <2>2. pc \in Nat /\ pass \in Nat
    BY <1>1, StatementType DEF TypeOK
  <2>3. stmt.op = "if" => stmt.no > pc /\ stmt.fi > pc
    <3>1. Len(prog) \in Nat
      BY <1>1, StatementType
    <3>2. stmt.op = "if" => stmt.no \in (pc + 1) .. (Len(prog) + 1) /\ stmt.fi \in stmt.no .. (Len(prog) + 1)
      BY <1>1, <2>1 DEF WellFormed, stmt
    <3>3. QED
      BY <2>2, <3>1, <3>2
  <2>4. stmt.op = "jump" => stmt.fi > pc
    <3>1. Len(prog) \in Nat
      BY <1>1, StatementType
    <3>2. stmt.op = "jump" => stmt.fi \in (pc + 1) .. (Len(prog) + 1)
      BY <1>1, <2>1 DEF WellFormed, stmt
    <3>3. QED
      BY <2>2, <3>1, <3>2
  <2>5. QED
    BY <2>2, <2>3, <2>4
<1>3. pc' > pc
  <2>1. CASE Word \/ Instruction \/ Org \/ Const \/ Var \/ Label
    <3>1. pc' = pc + 1
      BY <2>1 DEF Word, Instruction, Org, Const, Var, Label
    <3>2. QED
      BY <1>2, <3>1
  <2>2. CASE If
    <3>1. stmt.op = "if" /\ pc' \in {stmt.fi, pc + 1, stmt.no}
      BY <2>2 DEF If, At
    <3>2. QED
      BY <1>2, <3>1
  <2>3. CASE Jump
    BY <1>2, <2>3 DEF Jump, At
  <2>4. QED
    BY <2>1, <2>2, <2>3 DEF Statement
<1>4. DOMAIN code' \subseteq DOMAIN code \cup {NewId}
  <2>1. CASE Word \/ Instruction \/ Org \/ If \/ Jump
    BY <2>1 DEF Word, Instruction, Org, If, Jump, table
  <2>2. CASE Const
    <3>1. \/ code' = code
          \/ code' = Allocated(Value(stmt.arg))
      BY <2>2 DEF Const, DoubleDefined
    <3>2. QED
      BY <1>1, <1>2, <3>1, NewObject
  <2>3. CASE Var
    <3>1. \/ code' = code
          \/ code' = Allocated(Value(stmt.arg))
      BY <2>3 DEF Var, DoubleDefined
    <3>2. QED
      BY <1>1, <1>2, <3>1, NewObject
  <2>4. CASE Label
    <3>1. \/ code' = code
          \/ code' = Extended(star, 0)
          \/ code' = [code EXCEPT ![label[stmt.name].value.id] = [addr |-> star, offs |-> 0]]
      BY <2>4 DEF Label, DoubleDefined
    <3>2. QED
      BY <1>1, <1>2, <3>1, NewObject
  <2>5. QED
    BY <2>1, <2>2, <2>3, <2>4 DEF Statement
<1>5. \A i, p \in Nat : <<i, p>> \in DOMAIN code' => p < pass \/ (p = pass /\ i < pc) \/ (p = pass /\ i = pc)
  BY <1>1, <1>4 DEF Fresh, NewId
<1>6. pc' \in Nat
  <2>1. Inv'
    BY NextInv DEF ReadInv, Next, Assemble
  <2>2. pc' \in 1 .. (Len(prog') + 1) /\ ProgOK'
    BY <2>1 DEF Inv, TypeOK
  <2>3. Len(prog') \in Nat
    BY <2>2, ProgramsAssumption DEF ProgOK, WellFormed
  <2>4. QED
    BY <2>2, <2>3
<1>7. QED
  BY <1>1, <1>2, <1>3, <1>5, <1>6 DEF Fresh

LEMMA StatementReads ==
  ASSUME Unshared, ReadInv, Statement
  PROVE  Kinds' /\ Owned' /\ ReadsAccounted'
<1>1. /\ Compiling /\ ProgOK /\ TypeOK /\ Kinds /\ Owned /\ ReadsAccounted
      /\ pc \in DOMAIN prog /\ UNCHANGED <<prog, phase, pass>>
  BY DEF ReadInv, Inv, Statement, Word, Instruction, Org, If, Jump, Const, Var, Label, At, control
<1>2. stmt.arg \in Expr /\ stmt.arg.sym \in Name \cup {NoName}
  BY <1>1, ExprType DEF Expr
<1>3. CASE Word \/ Instruction \/ If
  <2>1. /\ label' = Touched(stmt.arg.sym) /\ seen' = See(stmt.arg.sym)
        /\ code' = code /\ fixeddig' = fixeddig
    BY <1>3 DEF Word, Instruction, If, Evaluate
  <2>2. QED
    BY <1>1, <1>2, <2>1, LookupKinds
<1>4. CASE Org \/ Jump
  <2>1. UNCHANGED <<label, code, seen, fixeddig>>
    BY <1>4 DEF Org, Jump, table, flags
  <2>2. QED
    BY <1>1, <2>1 DEF Kinds, Owned, LabelNames, ReadsAccounted, Accounted, Compiling
<1>5. QED
  BY <1>3, <1>4, ConstReads, VarReads, LabelReads DEF Statement

LEMMA ReadNext == Unshared /\ ReadInv /\ [Next]_vars => ReadInv'
<1> SUFFICES ASSUME Unshared, ReadInv, [Next]_vars
             PROVE  Fresh' /\ Kinds' /\ Owned' /\ ReadsAccounted' /\ ReadsAreFinal'
  BY NextInv DEF ReadInv
<1>1. Inv /\ TypeOK /\ Fresh /\ Kinds /\ Owned /\ ReadsAccounted /\ ReadsAreFinal
  BY DEF ReadInv, Inv
<1>2. CASE Statement
  <2>1. phase' # "assembled"
    BY <1>2 DEF Statement, Word, Instruction, Org, If, Jump, Const, Var, Label, At,
                Compiling, control
  <2>2. QED
    BY <1>2, <2>1, StatementFresh, StatementReads DEF ReadsAreFinal
<1>3. CASE Interrupted
  <2>1. /\ Compiling /\ UNCHANGED <<prog, phase, pass, label, code, seen, fixeddig>>
        /\ pc' = Len(prog) + 1 /\ pc \in 1 .. (Len(prog) + 1)
    BY <1>1, <1>3 DEF Interrupted, control, flags, table, TypeOK
  <2>2. pc' >= pc /\ pc \in Nat /\ pc' \in Nat /\ pass \in Nat
    <3>1. Len(prog) \in Nat
      BY <1>1, ProgramsAssumption DEF Inv, ProgOK, WellFormed
    <3>2. QED
      BY <1>1, <2>1, <3>1 DEF TypeOK
  <2>3. Fresh'
    BY <1>1, <2>1, <2>2 DEF Fresh
  <2>4. QED
    BY <1>1, <2>1, <2>3 DEF Kinds, Owned, LabelNames, ReadsAccounted, Accounted, Compiling,
                            ReadsAreFinal
<1>4. CASE Signal \/ UNCHANGED vars
  <2>1. UNCHANGED <<prog, phase, pass, pc, label, code, seen, fixeddig>>
    BY <1>4 DEF Signal, vars, flags, table
  <2>2. Fresh' /\ Kinds' /\ Owned'
    BY <1>1, <2>1 DEF Fresh, Kinds, Owned, LabelNames
  <2>3. ReadsAccounted' /\ ReadsAreFinal'
    BY <1>1, <2>1 DEF ReadsAccounted, Accounted, Compiling, ReadsAreFinal, Number
  <2>4. QED
    BY <2>2, <2>3
<1>5. CASE AnotherPass \/ StartListing
  <2>1. /\ pass' = pass + 1 /\ prog' = prog /\ label' = label /\ code' = code /\ seen' = {}
        /\ phase' # "assembled"
    BY <1>5 DEF AnotherPass, StartListing, StartPass, table
  <2>2. pass \in Nat /\ \A n \in Name : label[n].usepass \in Nat /\ label[n].usepass <= pass
    BY <1>1 DEF TypeOK, LabelRec
  <2>3. Fresh'
    BY <1>1, <2>1, <2>2 DEF Fresh
  <2>4. Kinds' /\ Owned'
    BY <1>1, <2>1, <2>2 DEF Kinds, Owned, LabelNames
  <2>5. QED
    BY <2>1, <2>3, <2>4 DEF ReadsAccounted, ReadsAreFinal
<1>6. CASE LoopEnds
  <2>1. /\ Compiling /\ fixeddig /\ phase' \in {"assembled", "failed"}
        /\ UNCHANGED <<prog, pass, pc, label, code, seen>>
    BY <1>6 DEF LoopEnds, PassOver, Stable, Fixed, KeepPass, table
  <2>2. Fresh' /\ Kinds' /\ Owned'
    BY <1>1, <2>1 DEF Fresh, Kinds, Owned, LabelNames
  <2>3. \A r \in seen : label[r.name].constant => r.v = Number(label[r.name].value)
    BY <1>1, <2>1 DEF ReadsAccounted, Accounted, Number
  <2>4. ReadsAccounted' /\ ReadsAreFinal'
    BY <2>1, <2>3 DEF ReadsAccounted, Compiling, ReadsAreFinal, Number
  <2>5. QED
    BY <2>2, <2>4
<1>7. CASE TooManyPasses \/ LoopInterrupted \/ ListingEnds \/ WriteOutput
  <2>1. /\ phase' \in {"failed", "done"} /\ pass' \in {pass, pass + 1}
        /\ UNCHANGED <<prog, pc, label, code>>
    BY <1>7 DEF TooManyPasses, LoopInterrupted, ListingEnds, WriteOutput, KeepPass, table
  <2>2. pass \in Nat /\ \A n \in Name : label[n].usepass \in Nat /\ label[n].usepass <= pass
    BY <1>1 DEF TypeOK, LabelRec
  <2>3. Fresh'
    BY <1>1, <2>1, <2>2 DEF Fresh
  <2>4. Kinds' /\ Owned'
    BY <1>1, <2>1, <2>2 DEF Kinds, Owned, LabelNames
  <2>5. QED
    BY <2>1, <2>3, <2>4 DEF ReadsAccounted, ReadsAreFinal, Compiling
<1>8. QED
  BY <1>2, <1>3, <1>4, <1>5, <1>6, <1>7 DEF Next, Assemble

\* For every program in which a name is a label everywhere or nowhere, and no
\* constant shares the Code object of a label: what the last pass read of each
\* constant and label is what that pass ended with.  The code compares no two
\* passes; the marks usepass and defpass, tested where a definition changes
\* (const_assign, update_code), are enough.
THEOREM ReadsFinal == Unshared => (Spec => []ReadsAreFinal)
<1> SUFFICES ASSUME Unshared PROVE Spec => []ReadsAreFinal
  OBVIOUS
<1>1. Init => ReadInv
  <2> SUFFICES ASSUME Init PROVE Fresh /\ Kinds /\ Owned /\ ReadsAccounted /\ ReadsAreFinal
    BY InitInv DEF ReadInv
  <2>1. \A n \in Name : ~label[n].present /\ ~label[n].constant
    BY DEF Init, NewLabel
  <2>2. seen = {} /\ DOMAIN code = {} /\ phase # "assembled"
    BY DEF Init
  <2>3. ProgOK
    BY DEF Init, ProgOK
  <2>4. LabelNames \subseteq Name
    BY <2>3, NamesType DEF LabelNames
  <2>5. QED
    BY <2>1, <2>2, <2>4 DEF Fresh, Kinds, Owned, ReadsAccounted, ReadsAreFinal
<1>2. ReadInv /\ [Next]_vars => ReadInv'
  BY ReadNext
<1>3. ReadInv => ReadsAreFinal
  BY DEF ReadInv
<1>4. QED
  BY <1>1, <1>2, <1>3, PTL DEF Spec
=============================================================================
