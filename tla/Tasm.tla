-------------------------------- MODULE Tasm --------------------------------
(* The expressions of --tasm-compatible: get_exp_compat reads strictly from *)
(* left to right, `<`, `>` and `#` stand before a whole element of the list, *)
(* and get_val2_compat runs the postfix list (src/eval.c).  The state is     *)
(* that of Expressions and what one element of the list has in front.  The   *)
(* token ",a" is a comma with a label right after it, "," one with a blank.  *)
EXTENDS Expressions

VARIABLE
    compat        \* [on, conv, hash, first]

allVars == <<vars, compat>>

Binaries == "+" :> "ADD" @@ "-" :> "SUB" @@ "*" :> "MUL" @@ "/" :> "DIV"
            @@ "&" :> "AND" @@ "." :> "OR" @@ ":" :> "XOR"
Conversions == "<" :> "LOWER" @@ ">" :> "HIGHER"
NoConv == [op |-> "NONE", at |-> 0]

(* The start of an element. *)
RestHash ==
    /\ phase = "rest" /\ next = "#" /\ out = <<>> /\ compat.hash = 0
    /\ compat' = [compat EXCEPT !.hash = Here, !.first = FALSE, !.conv = NoConv]
    /\ Read("#", "")
    /\ UNCHANGED <<phase, opr, out, symbollist, result>>

RestEnd ==                                       \* even within parentheses
    /\ phase = "rest" /\ next = "end"
    /\ phase' = "evaluate"
    /\ UNCHANGED <<text, next, opr, out, symbollist, result, compat>>

(* An element has nothing in front until a conversion is read. *)
(* Mutant: that of the element before. *)
FreshKept == compat.conv
Fresh == NoConv

RestStart ==
    /\ phase = "rest" /\ next # "end"
    /\ ~(next = "#" /\ out = <<>> /\ compat.hash = 0)
    /\ phase' = "term"
    /\ LET started == IF out = <<>> /\ compat.hash # 0 THEN compat.first
                      ELSE next = "(" /\ stop \in {3, 4}
       IN IF next \in DOMAIN Conversions
          THEN /\ compat' = [compat EXCEPT !.conv = [op |-> Conversions[next], at |-> Here],
                                           !.first = started]
               /\ Read(next, "")
          ELSE /\ compat' = [compat EXCEPT !.conv = Fresh, !.first = started]
               /\ UNCHANGED <<text, next>>
    /\ UNCHANGED <<opr, out, symbollist, result>>

Term ==
    /\ phase = "term"
    /\ \/ /\ next = "("
          /\ opr' = opr \o Pending("PARENT", Here)
          /\ UNCHANGED <<phase, out>>
          /\ Read("(", "")
       \/ /\ next \in {"a", "1", "*"}
          /\ out' = Append(out, [op |-> IF next = "*" THEN "STAR" ELSE "VALUE", at |-> Here])
          /\ phase' = "after"
          /\ UNCHANGED opr
          /\ Read(next, "")
    /\ UNCHANGED <<symbollist, result, compat>>

NoTerm == phase = "term" /\ next \notin {"(", "a", "1", "*"} /\ Fail /\ UNCHANGED compat

(* After a term everything pending up to a parenthesis is due at once. *)
Due == Max({0} \cup {k \in 1 .. Len(opr) :
               \A j \in Len(opr) - k + 1 .. Len(opr) : opr[j].op # "PARENT"})

Element ==                                       \* what the element has in front
    (IF compat.conv.op = "NONE" THEN <<>> ELSE <<compat.conv>>)
    \o (IF compat.hash = 0 THEN <<>> ELSE Pending("HASH", compat.hash))

AfterRegister ==
    /\ next \in DOMAIN Register
    /\ out' = Flushed(Due)
    /\ opr' = Rest(Due) \o Pending(Register[next], Here)
    /\ Read(next, "")
    /\ UNCHANGED <<phase, symbollist, result, compat>>

AfterOperator ==
    /\ next \in DOMAIN Binaries \cup {"("}       \* yes, this is accepted by the original
    /\ out' = Flushed(Due)
    /\ opr' = Rest(Due) \o Pending(IF next = "(" THEN "XOR" ELSE Binaries[next], Here)
    /\ phase' = "term"
    /\ Read(IF next = "(" THEN "xor" ELSE next, "")
    /\ UNCHANGED <<symbollist, result, compat>>

AfterClose ==
    /\ next = ")" /\ Rest(Due) # <<>>
    /\ LET left == Front(Rest(Due)) IN
        /\ out' = Flushed(Due)
        /\ IF left = <<>> /\ compat.first
           THEN opr' = Pending("TUPLE", Here) /\ compat' = [compat EXCEPT !.first = FALSE]
           ELSE opr' = left /\ UNCHANGED compat
    /\ Read(")", "")
    /\ UNCHANGED <<phase, symbollist, result>>

(* A comma ends the element; a label right after it starts the next one      *)
(* without a look at what it has in front.                                   *)
AfterComma ==
    /\ next \in {",", ",a"} /\ stop # 1
    /\ opr' = Rest(Due)
    /\ IF next = ","
       THEN out' = Flushed(Due) \o Element /\ phase' = "rest"
       ELSE out' = Flushed(Due) \o Element \o Pending("VALUE", Here) /\ UNCHANGED phase
    /\ Read(next, "")
    /\ UNCHANGED <<symbollist, result, compat>>

AfterEnd ==
    /\ next = "end" \/ (next \in {",", ",a"} /\ stop = 1)
    /\ Rest(Due) = <<>>
    /\ out' = Flushed(Due) \o Element
    /\ opr' = <<>>
    /\ phase' = "evaluate"
    /\ UNCHANGED <<text, next, symbollist, result, compat>>

AfterWrong ==
    /\ \/ next \notin DOMAIN Binaries \cup DOMAIN Register \cup {"(", ")", ",", ",a", "end"}
       \/ next = ")" /\ Rest(Due) = <<>>
       \/ /\ next = "end" \/ (next \in {",", ",a"} /\ stop = 1)
          /\ Rest(Due) # <<>>
    /\ Fail /\ UNCHANGED compat

Evaluated_compat(s, i) ==
    LET op == out[i].op
        at == out[i].at
    IN  CASE s.syntaxe -> s
          [] op \in Leaves -> Made(s, Len(s.stack), <<Node(op, at, <<>>)>>)
          [] op = "TUPLE" -> Apart(s, 1, "AROUND", at)
          [] op \in {"LOWER", "HIGHER", "HASH", "COMMAX", "COMMAY"} -> Apart(s, 1, op, at)
          [] OTHER -> Apart(s, 2, op, at)

EvaluateCompat ==
    /\ phase = "evaluate"
    /\ result' = FoldLeft(Evaluated_compat, Nothing, [i \in 1 .. Len(out) |-> i])
    /\ phase' = "done"
    /\ UNCHANGED <<text, next, opr, out, symbollist, compat>>

TasmStep ==
    /\ UNCHANGED <<stop, alphabet>>
    /\ \/ RestHash \/ RestEnd \/ RestStart \/ Term \/ NoTerm \/ EvaluateCompat
       \/ /\ phase = "after"
          /\ \/ AfterRegister \/ AfterOperator \/ AfterClose \/ AfterComma
             \/ AfterEnd \/ AfterWrong

CONSTANT TasmAlphabets

AllInit ==
    \/ Init /\ compat = [on |-> FALSE, conv |-> NoConv, hash |-> 0, first |-> FALSE]
    \/ /\ alphabet \in TasmAlphabets /\ stop \in Stops[alphabet]
       /\ text = <<>> /\ next \in alphabet \cup {"end"} /\ phase = "rest"
       /\ opr = <<>> /\ out = <<>> /\ symbollist = 0 /\ result = Nothing
       /\ compat = [on |-> TRUE, conv |-> NoConv, hash |-> 0, first |-> FALSE]

AllNext == \/ ~compat.on /\ Next /\ UNCHANGED compat
           \/ compat.on /\ TasmStep
           \/ Over /\ UNCHANGED compat

AllSpec == AllInit /\ [][AllNext]_allVars

-----------------------------------------------------------------------------
(* Without priorities an operator takes all that stands to its left and one  *)
(* term to its right, a register index and the parentheses of an indirection *)
(* likewise.  What stands before an element of a list is about this element  *)
(* and no other, but for two things get_exp_compat does: a `#` before the    *)
(* first is about all of them, and a conversion also about the elements that *)
(* follow with a label right behind their comma.                             *)
Commas == {p \in 1 .. Len(text) : text[p] \in {",", ",a"}}
ElementOf(p) == Cardinality({c \in Commas : c <= p})
Marked == {"LOWER", "HIGHER", "HASH"}
InFront(k) ==
    {p \in 1 .. Len(text) :
        \/ text[p] = "#"
        \/ /\ text[p] \in DOMAIN Conversions
           /\ \A c \in Commas : p < c /\ ElementOf(c) <= k => text[c] = ",a"
           /\ ElementOf(p) <= k}
LeavesOf(k) == {i \in 1 .. Len(out) : out[i].op \in Leaves /\ ElementOf(out[i].at) = k}

(* In the list they come when the element is over, once each. *)
AtItsEnd(k) ==
    LET until == Min({Len(out) + 1} \cup LeavesOf(k + 1))
        marks == {i \in Min(LeavesOf(k)) .. until - 1 : out[i].op \in Marked}
    IN  /\ \A i \in marks : Max(LeavesOf(k)) < i
        /\ {out[i].at : i \in marks} = InFront(k)
        /\ Cardinality(marks) = Cardinality(InFront(k))

TasmReading ==
    compat.on /\ phase = "done" /\ out # <<>> =>
        /\ InOrder
        /\ \A t \in All :
              t.op \in {"XOR"} \cup {Binaries[b] : b \in DOMAIN Binaries} =>
                    \/ t.kids[2].op \in Leaves
                    \/ Depth(t.kids[2].at) > Depth(t.at)
        /\ \A k \in 0 .. Cardinality(Commas) : LeavesOf(k) # {} => AtItsEnd(k)
        /\ (\A c \in Commas : Depth(c) = 0) =>
              \A k \in 0 .. Cardinality(Commas) : LeavesOf(k) # {} =>
                {t.at : t \in {u \in All : u.op \in Marked
                                       /\ ToSet(Reads(u)) = {out[i].at : i \in LeavesOf(k)}}}
                  = InFront(k)
=============================================================================
