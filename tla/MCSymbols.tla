------------------------------ MODULE MCSymbols ------------------------------
(***************************************************************************)
(* Programs that MCPasses leaves out: a name that is a constant in some    *)
(* passes and a label in others, and a constant that is a label's name.    *)
(***************************************************************************)
EXTENDS Passes, TLC

W(n)    == S("word", NoName, Sym(n), 0, 0, 0)
I(n)    == S("instr", NoName, Sym(n), 0, 0, 0)
C(n, e) == S("const", n, e, 0, 0, 0)
O(k)    == S("org", NoName, Lit(0), k, 0, 0)
L(n)    == S("label", n, Lit(0), 0, 0, 0)
\* "if n = k / x / else / y" at line i of a program
Cond(i, n, k, x, y) ==
  << S("if", NoName, Sym(n), k, i + 3, i + 4), x, S("jump", NoName, Lit(0), 0, 0, i + 4), y >>

MCName == {"a", "b", "e"}

\* "b" is at another address in the pass in which "e" is known; one pass later that makes
\* "a" a label or a constant.
MCFlips ==
  {<<W("a")>> \o Cond(2, "b", k, x, y) \o <<I("e"), L("b"), O(0), L("e")>> :
     k \in {4, 5}, x \in {L("a"), C("a", Lit(1))}, y \in {L("a"), C("a", Lit(1))}}

\* "b" shares the Code object of "a", whose address changes likewise.
MCAliases ==
  {<<W("b"), I("e")>> \o q \o <<O(0), L("e")>> : q \in [1 .. 2 -> {W("b"), C("b", Sym("a")), L("a")}]}
=============================================================================
