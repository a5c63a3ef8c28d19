------------------------------ MODULE MCPasses ------------------------------
(***************************************************************************)
(* Small programs for the model checker: every sequence of a few lines     *)
(* taken from an alphabet, some of them conditional.                       *)
(***************************************************************************)
EXTENDS Passes, TLC

\* Lines, built from the constants of the model
W(n)    == S("word", NoName, Sym(n), 0, 0, 0)
I(n)    == S("instr", NoName, Sym(n), 0, 0, 0)
C(n, e) == S("const", n, e, 0, 0, 0)
V(n, e) == S("var", n, e, 0, 0, 0)
L(n)    == S("label", n, Lit(0), 0, 0, 0)
O(k)    == S("org", NoName, Lit(0), k, 0, 0)
\* "if n = k / x / else / y" at line i of a program
Cond(i, n, k, x, y) ==
  << S("if", NoName, Sym(n), k, i + 3, i + 4), x, S("jump", NoName, Lit(0), 0, 0, i + 4), y >>

Lines(alphabet, len) == UNION {[1 .. l -> alphabet] : l \in 1 .. len}

\* A conditional in front of, or behind, a straight program
CondFirst(conds, tails) == {Cond(1, c[1], c[2], c[3], c[4]) \o t : c \in conds, t \in tails}
CondLast(heads, conds) ==
  {h \o Cond(Len(h) + 1, c[1], c[2], c[3], c[4]) : h \in heads, c \in conds}

-----------------------------------------------------------------------------
(* The models: address 2 is the last one of the direct page, so that a      *)
(* label can cross it when an instruction before it grows.                  *)

\* Straight programs: labels, and a constant that depends on another symbol
MCStraight ==
  LET alphabet == {W("a"), I("a"), I("b"), L("a"), C("b", Plus("a", 1)), C("b", Lit(1)), O(1)}
  IN Lines(alphabet, 5)

\* Conditionals on values that change from pass to pass, in front of and
\* behind what they depend on; "a" is always a label, "b" never is
MCConditional ==
  LET arms == {I("a"), W("b"), C("b", Lit(2)), L("a")}
      conds == {<<n, k, x, y>> : n \in {"a", "b"}, k \in {2, 3}, x \in arms, y \in arms}
      rest == {I("a"), L("a"), C("b", Plus("a", 1)), V("b", Sym("a"))}
  IN CondFirst(conds, Lines(rest, 2)) \cup CondLast(Lines(rest, 2), conds)

\* A symbol that comes and goes with the length of an instruction before it:
\* three bytes in the first pass, two when "e" is known
MCName3 == {"a", "b", "e"}
MCComesAndGoes ==
  LET arms == {I("a"), W("a"), L("a")}
  IN {<<I("e"), L("b")>> \o Cond(3, "b", k, x, y) \o <<O(0), L("e")>> :
        k \in {2, 3}, x \in arms, y \in arms}

\* The programs of the run that looks at everything
MCPrograms == MCStraight \cup MCConditional \cup MCComesAndGoes

\* What the theorem on the values read asks of them
ASSUME SharingAssumption == Unshared
=============================================================================
