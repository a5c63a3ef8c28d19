----------------------------- MODULE MCSections -----------------------------
(***************************************************************************)
(* Programs of up to four lines with two sections.                         *)
(***************************************************************************)
EXTENDS Sections

L(op, sec, gap, var, logical) ==
  [op |-> op, sec |-> sec, gap |-> gap, var |-> var, logical |-> logical]
DataVar == L("data", "a", FALSE, TRUE, FALSE)
Plain(n) == {L("dsection", n, FALSE, FALSE, FALSE), L("section", n, FALSE, TRUE, FALSE)}
Gaps(n) == L("section", n, TRUE, FALSE, FALSE)
Cond(n) == L("dsection", n, FALSE, TRUE, FALSE)

Logic(n) == L("dsection", n, FALSE, FALSE, TRUE)

MCNames == {"a", "b"}
MCLines == {DataVar, Gaps("a")} \cup Plain("a") \cup Plain("b")
\* One section is in place in some passes only, or in a .logical block,
\* between the fragments of the same or of the other one.
MCOdd == [1 .. 4 -> {DataVar, Gaps("a"), Cond("a"), Logic("a")} \cup Plain("b")]
MCOptional == [1 .. 4 -> {DataVar, Cond("b")} \cup Plain("a")]
MCPrograms == UNION {[1 .. n -> MCLines] : n \in 1 .. 4} \cup MCOptional \cup MCOdd

ASSUME LinesAssumption == PassesSuffice
=============================================================================
