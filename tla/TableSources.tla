---------------------------- MODULE TableSources ----------------------------
(* Small sources for the tables of names and of encodings, and constants   *)
(* that go with them.                                                      *)
EXTENDS Integers, Sequences

\* Characters 0 to 6 are in the table, the others take two bytes of a text.
MCPredefined ==
  [none |-> [escapes |-> <<>>, ranges |-> << <<0, 9, 0>> >>],
   screen |-> [escapes |-> << <<<<5, 2>>, 77>> >>, ranges |-> << <<0, 3, 100>>, <<4, 4, 3>>, <<5, 9, 90>> >>]]

Char(n) == [char |-> TRUE, n |-> n]
Byte(n) == [char |-> FALSE, n |-> n]

As(kind, what) == [x \in {kind} |-> what]
All(n, lines) == [1..n -> lines]

Ranges == All(3, {As("cdef", << <<1, 3, 10>> >>), As("cdef", << <<2, 3, 11>> >>), As("enc", "own"),
                  As("tdef", << <<1, 2, 3, 4, 8>>, <<20>> >>), As("text", <<"text", <<1, 3>> >>)})
Offsets == All(3, {As("enc", "own"), As("cdef", << <<1, 1, 250>>, <<4, 2, 254>> >>), As("cdef", << <<2, 4, 7>> >>),
                   As("tdef", << <<8, 3>>, <<5, 6>> >>), As("text", <<"text", <<8, 2>> >>)})
Escapes == All(3, {As("edef", << <<5>>, <<Byte(1)>> >>), As("edef", << <<5, 1>>, <<Byte(2), Byte(3)>> >>),
                   As("text", <<"text", <<5, 1, 5, 2>> >>)})
\* texts without some of the escapes that come and go
Parts == All(4, {As("edef", << <<5>>, <<Byte(1)>> >>), As("edef", << <<5, 1>>, <<Byte(2), Byte(3)>> >>),
                 As("text", <<"text", <<5, 2>> >>), As("text", <<"text", <<5, 1>> >>)})
Chars == All(3, {As("enc", "own"), As("cdef", << <<0, 9, 10>> >>), As("cdef", << <<0, 9, 40>> >>),
                 As("edef", << <<8, 1>>, <<Char(6), Byte(4)>> >>), As("text", <<"text", <<8, 1, 6>> >>)})
Modes == {<<As("edef", << <<5, 1>>, <<Byte(128), Byte(3)>> >>), As("enc", "screen"),
            As("edef", << <<5, 3>>, <<Byte(0)>> >>), As("text", <<mode, text>>)>>:
            mode \in {"text", "ptext", "null", "shift", "shiftl"}, text \in {<<>>, <<5, 2>>, <<5, 1, 0>>, <<5, 3>>}}

a == <<"a", 0>>
b == <<"b", 0>>
s == <<"s", 0>>
u == <<"_u", 0>>
Set(name, value) == As("assign", <<name, value>>)
See(name) == As("look", name)
BlockEnd == As("end", <<>>)
Unnamed == As("block", <<>>)

Nested == All(3, {Set(a, 1), Set(a, 2), See(a), Unnamed, As("scope", s)})
Weaker == All(3, {Set(a, 1), Set(a, 2), See(a), As("weak", <<>>), BlockEnd})
Labels == All(3, {As("label", <<a, 1>>), As("label", <<a, 2>>), As("label", <<b, 1>>), Set(u, 3), See(u)})
Blocks == All(3, {As("block", <<a, 1>>), Set(u, 3), See(u), Set(b, 1), As("member", <<a, b>>), BlockEnd})
Members == All(3, {As("scope", s), As("inside", <<s, a, 1>>), Set(a, 2), As("member", <<s, a>>), See(a)})
Withs == All(3, {As("scope", s), Set(a, 1), As("with", s), As("again", s), BlockEnd, See(a)})
Marks == All(3, {As("anon", <<"+", 1>>), As("anon", <<"-", 1>>), As("count", -1), As("count", 0), As("scope", s), BlockEnd})
Vars == All(4, {As("var", <<a, 1>>), As("default", <<a, 3>>), As("change", <<a, 2>>), Unnamed, See(a)})
Files == All(3, {Set(a, 1), Set(a, 2), As("scope", s), See(a), As("file", <<>>)})
Many == All(3, {Set(a, 1), Set(b, 1), Unnamed, As("scope", s), BlockEnd})

\* Some longer ones
Longer ==
  {<<See(a), Set(a, 1), Unnamed, See(a), Set(a, 2)>>,
   <<As("scope", s), Set(a, 1), BlockEnd, As("with", s), See(a), Set(a, 2)>>,
   <<As("count", 0), As("anon", <<"+", 1>>), As("scope", s), As("count", 0), BlockEnd, As("anon", <<"+", 1>>)>>,
   <<As("weak", <<>>), Set(a, 1), BlockEnd, See(a), Set(a, 2)>>,
   <<Set(a, 1), Set(b, 1), As("label", <<s, 1>>), Set(u, 1), See(a), See(u)>>,
   <<See(a), As("lbl", a), Set(a, 3), As("lbl", b), See(a)>>,
   <<As("enc", "own"), As("cdef", << <<1, 1, 5>> >>), As("file", <<>>), As("text", <<"text", <<1>> >>)>>,
   <<As("enc", "own"), As("text", <<"text", <<1>> >>), As("cdef", << <<1, 1, 5>> >>), As("cdef", << <<1, 1, 6>> >>)>>,
   <<As("enc", "own"), As("cdef", [i \in 1..6 |-> <<i, i, 9 * i>>]), As("cdef", << <<3, 4, 1>> >>), As("cdef", << <<2, 5, 1>> >>)>>}

MCSources ==
  Ranges \cup Offsets \cup Escapes \cup Parts \cup Chars \cup Modes \cup Nested \cup Weaker \cup Labels \cup Blocks
    \cup Members \cup Withs \cup Marks \cup Vars \cup Files \cup Many \cup Longer

Hash(n) == CASE n[1] = "a" -> 1 [] n[1] = "b" -> 33 [] n[1] = "s" -> 65 [] n[1] = "_u" -> 2
             [] n[1] = "." -> 3 + n[2] [] n[1] = "+" -> 7 + (32 * n[2]) [] OTHER -> 5 + (31 * n[2])
MChash == [n \in {a, b, s, u} \cup ({"+", "-", "."} \X (0..9)) |-> Hash(n)]
=============================================================================
