----------------------------- MODULE MCWaitfor -----------------------------
(***************************************************************************)
(* The two stacks of the interpreter: the blocks that lines open and close *)
(* (Waitfor), and the values that expressions push and pop, with the names *)
(* that keep some of them (Objects).  A behaviour is about one of the two. *)
(***************************************************************************)
EXTENDS Waitfor, Integers

CONSTANTS Names, Slots, Steps, Literals, Subscripts, Operators, Starts     \* of Objects
VARIABLES heap, values, vsp, label, said, holds, steps
holding == <<heap, values, vsp, label, said, holds, steps>>
Kept == INSTANCE Objects
P == INSTANCE Plain

-----------------------------------------------------------------------------
(* Alphabets of lines.                                                     *)

\* Conditionals, loops and macros, with jumps out of them
MCBranches == Conditionals \cup
  {"rept", "endrept", "break", "continue", "macrocall", "endm", "comment", "endc", "macro"}

\* Everything with a scope
MCScopes == {"if", "fi", "block", "bend", "with", "endwith", "proc", "pend", "brept",
             "endrept", "binclude", "funccall", "funcexpr", "endf", "function",
             "namespace", "endn", "eof"}

\* Jumps out of blocks with something to give back, and backwards
MCJumps == {"if", "fi", "block", "bend", "weak", "endweak", "brept", "endrept",
            "break", "segmentcall", "endm", "lbl", "goto"}

\* Everything that changes the address, and .weak and .encode
MCPlaces == {"if", "fi", "logical", "here", "virtual", "endv", "section", "send", "page",
             "endp", "union", "endu", "struct", "ends", "named struct", "named union",
             "dstruct", "dunion", "weak", "endweak", "encode", "endencode", "include",
             "segmentcall", "endm", "end"}

MCAlphabets == {MCBranches, MCScopes, MCJumps, MCPlaces}

ASSUME SourcesAssumption == BreaksApart

-----------------------------------------------------------------------------
(* Two names, a stack of two slots, and values in which sharing, several   *)
(* bytes of a character and colliding keys occur.                          *)
N(n) == P!Num(n)
Ab == P!Text(<<0, 2>>)        \* a character of one byte and one of two
Cab == P!Text(<<3, 0, 2, 1>>)
Pairs == P!Dict(<< <<N(2), N(1)>>, <<N(10), P!Nil>> >>, P!Nil)
Other == P!Dict(<< <<N(34), N(3)>>, <<N(2), N(5)>> >>, N(7))

MCNames == {"x", "y"}
MCLiterals == {N(2), Ab, P!List(<<N(3), N(2)>>), Pairs, P!Fold}
Of(value) == [name |-> "x", of |-> "", value |-> value, part |-> 0]
Same(p) == [name |-> "y", of |-> "x", value |-> P!Nil, part |-> p]
MCStarts == {<<Of(value), Same(p)>>: value \in {P!List(<<N(1), N(4)>>), P!List(<<P!List(<<N(1), N(4)>>), N(2), N(1)>>)}, p \in {0, 1}}
            \cup {<<Of(value), Same(0)>>: value \in {Cab, Other}}
Span(f, t, s) == P!Colon(<<f, t, s>>)
MCSubscripts == {<<N(-1)>>, <<N(1), N(0)>>, <<P!List(<<N(1), N(0), N(1)>>)>>, <<P!Colon(<<N(1), P!Default>>)>>,
                 <<Span(P!Default, N(-1), N(2))>>, <<Span(P!Default, P!Default, N(-1))>>, <<N(2)>>,
                 <<Span(N(5), N(-9), N(-2)), N(0)>>, <<P!Colon(<<P!Default, P!Default>>), N(-1)>>}
MCOperators == {"+", "..", "x", "<?", "in"}

-----------------------------------------------------------------------------
NoObjects == /\ heap = <<>> /\ values = <<>> /\ vsp = 0 /\ label = <<>>
             /\ said = <<>> /\ holds = <<>> /\ steps = 0
AllInit == (Init /\ NoObjects) \/ (Kept!Init /\ Init /\ line = MCJumps)
AllNext == \/ heap = <<>> /\ Next /\ UNCHANGED holding
           \/ heap # <<>> /\ Kept!Next /\ UNCHANGED vars
AllSpec == AllInit /\ [][AllNext]_<<vars, holding>>

(* No change in place is seen by another holder (eval.c, listobj.c).        *)
Means == heap # <<>> => Kept!Means
(* An object lives as long as it is held (obj.h, values.c).                 *)
CountsExact == heap # <<>> => Kept!CountsExact
(* The keys of a dictionary are found in its table (dictobj.c).             *)
KeysFound == heap # <<>> => Kept!KeysFound
=============================================================================
