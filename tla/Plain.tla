------------------------------- MODULE Plain -------------------------------
(***************************************************************************)
(* What the operations on numbers, texts, lists and dictionaries mean, as  *)
(* functions of plain values: no memory, no references, no characters of   *)
(* several bytes.  Objects is checked against it.                          *)
(***************************************************************************)
EXTENDS Integers, FiniteSets, SequencesExt

Num(n) == [kind |-> "int", num |-> n]
Truth(b) == [kind |-> "bool", flag |-> b]
Text(s) == [kind |-> "str", text |-> s]
List(s) == [kind |-> "list", items |-> s]
Colon(s) == [kind |-> "colon", parts |-> s]
Dict(p, d) == [kind |-> "dict", pairs |-> p, def |-> d]
Wrong == [kind |-> "error"]
Fold == [kind |-> "fold"]
Default == [kind |-> "default"]
Nil == [kind |-> "nil"]

(* Characters 0 and 1 have one byte, the others a lead byte and their own. *)
Lead == 5
Continuation == 8
Code(c) == IF c < 2 THEN <<c>> ELSE <<Lead, Continuation + c>>
Encoded(s) == FlattenSeq([k \in DOMAIN s |-> Code(s[k])])
Decode(data) == LET own == SelectSeq(data, LAMBDA b: b # Lead)
                IN [k \in DOMAIN own |-> IF own[k] >= Continuation THEN own[k] - Continuation ELSE own[k]]

(* What a value has somewhere inside. *)
RECURSIVE Kinds(_)
Kinds(v) == {v.kind} \cup (IF v.kind = "list" THEN UNION {Kinds(v.items[k]): k \in DOMAIN v.items} ELSE {})
HasText(v) == "str" \in Kinds(v)
HasTruth(v) == "bool" \in Kinds(v)

(* The operations that need no conversion of texts and truth values.       *)
Understood(op, a, b) ==
  LET kinds == Kinds(a) \cup Kinds(b)
  IN /\ "bool" \notin kinds
     /\ ~({"fold", "dict"} \subseteq kinds)
     /\ op \in {"+", "<?"} => ~({"int", "str"} \subseteq kinds)
     /\ op = "+" => "str" \notin kinds
     /\ op = ".." => ~({"int", "str"} \subseteq kinds \ (IF a.kind = "list" /\ b.kind = "list" THEN {"int"} ELSE {}))
     /\ op = "x" => b.kind # "str"

RECURSIVE NegativeOf(_)
NegativeOf(a) == CASE a.kind = "int" -> Num(-a.num)
                   [] a.kind = "list" -> List([k \in DOMAIN a.items |-> NegativeOf(a.items[k])])
                   [] OTHER -> Wrong

RECURSIVE Smaller(_, _)
Smaller(s, t) == t # <<>> /\ (s = <<>> \/ Head(s) < Head(t) \/ (Head(s) = Head(t) /\ Smaller(Tail(s), Tail(t))))

(* The last data of a key, in the order of the first pairs. *)
Union(p, q) ==
  LET Has(s, key) == \E k \in DOMAIN s: s[k][1] = key
      Of(s, key) == s[CHOOSE k \in DOMAIN s: s[k][1] = key]
  IN [k \in DOMAIN p |-> IF Has(q, p[k][1]) THEN <<p[k][1], Of(q, p[k][1])[2]>> ELSE p[k]]
     \o SelectSeq(q, LAMBDA u: ~Has(p, u[1]))

ScalarResult(op, a, b) ==
  CASE op = "+" /\ a.kind = "int" /\ b.kind = "int" -> Num(a.num + b.num)
    [] op = "<?" /\ a.kind = "int" /\ b.kind = "int" -> IF a.num < b.num THEN a ELSE b
    [] op = "<?" /\ a.kind = "str" /\ b.kind = "str" -> IF Smaller(a.text, b.text) THEN a ELSE b
    [] op = ".." /\ a.kind = "str" /\ b.kind = "str" -> Text(a.text \o b.text)
    [] op = ".." /\ a.kind = "dict" /\ b.kind = "dict" -> Dict(Union(a.pairs, b.pairs), IF b.def = Nil THEN a.def ELSE b.def)
    [] OTHER -> Wrong

RECURSIVE ResultOf(_, _, _), LeftFold(_, _), RightFold(_, _)
LeftFold(op, s) == IF Len(s) = 1 THEN s[1] ELSE ResultOf(op, LeftFold(op, Front(s)), Last(s))
RightFold(op, s) == IF Len(s) = 1 THEN s[1] ELSE ResultOf(op, Head(s), RightFold(op, Tail(s)))
ResultOf(op, a, b) ==
  LET la == a.kind = "list"
      lb == b.kind = "list"
      Times(s) == IF b.kind = "int" /\ b.num >= 0 THEN FlattenSeq([k \in 1..b.num |-> s]) ELSE <<>>
  IN CASE a = Wrong \/ (b = Wrong /\ op # "x") -> Wrong
       [] a = Fold /\ lb /\ op # "x" -> IF b.items = <<>> THEN Wrong ELSE LeftFold(op, b.items)
       [] la /\ b = Fold /\ op # "x" -> IF a.items = <<>> THEN Wrong ELSE RightFold(op, a.items)
       [] op = "x" -> IF b.kind # "int" \/ a.kind \notin {"list", "str"} THEN Wrong
                      ELSE IF b.num < 0 THEN Wrong
                      ELSE IF la THEN List(Times(a.items)) ELSE Text(Times(a.text))
       [] la /\ lb /\ op = ".." -> List(a.items \o b.items)
       [] la /\ lb /\ op \notin {"..", "x"} /\ Len(a.items) = Len(b.items) ->
            List([k \in DOMAIN a.items |-> ResultOf(op, a.items[k], b.items[k])])
       [] la /\ lb /\ op \notin {"..", "x"} /\ Len(a.items) # Len(b.items) ->
            IF Len(a.items) = 1 THEN ResultOf(op, a.items[1], b)
            ELSE IF Len(b.items) = 1 THEN ResultOf(op, a, b.items[1]) ELSE Wrong
       [] la /\ ~lb /\ b # Fold /\ op # "x" -> List([k \in DOMAIN a.items |-> ResultOf(op, a.items[k], b)])
       [] ~la /\ lb /\ a # Fold /\ op # "x" -> List([k \in DOMAIN b.items |-> ResultOf(op, a, b.items[k])])
       [] OTHER -> ScalarResult(op, a, b)

(* in, where one comparison decides. *)
Searched(a, b) ==
  /\ a.kind \in {"int", "str"}
  /\ \/ b.kind = "list" /\ \A k \in DOMAIN b.items: b.items[k].kind = a.kind
     \/ b.kind = "str" /\ a.kind = "str"
     \/ b.kind = "dict"
FoundIn(a, b) ==
  Truth(CASE b.kind = "list" -> \E k \in DOMAIN b.items: b.items[k] = a
          [] b.kind = "dict" -> \E k \in DOMAIN b.pairs: b.pairs[k][1] = a
          [] b.kind = "str" -> \E p \in 0..(Len(b.text) - Len(a.text)): SubSeq(b.text, p + 1, p + Len(a.text)) = a.text)

-----------------------------------------------------------------------------
(* The places that a subscript names among len ones, from 0. *)

Place(n, len) == IF n < 0 THEN n + len ELSE n
InRange(n, len) == Place(n, len) \in 0..(len - 1)

RECURSIVE Walked(_, _, _)
Walked(from, to, step) == IF (step > 0 /\ from >= to) \/ (step < 0 /\ from <= to) THEN <<>>
                          ELSE <<from>> \o Walked(from + step, to, step)

(* from:to:step with what is left out: each place on the way that there is. *)
Taken(c, len, place(_)) ==
  LET Given(k) == k <= Len(c) /\ c[k] # Default
      step == IF Given(3) THEN c[3].num ELSE 1
      from == IF Given(1) THEN place(c[1]) ELSE IF step > 0 THEN 0 ELSE len - 1
      to == IF Given(2) THEN place(c[2]) ELSE IF step > 0 THEN len ELSE -1
      Within(n) == IF n < -1 THEN -1 ELSE IF n > len THEN len ELSE n
      start == IF step > 0 THEN (IF from < 0 THEN 0 ELSE from) ELSE (IF from > len - 1 THEN len - 1 ELSE from)
  IN Walked(start, Within(to), step)

PlaceOf(d, key) == (CHOOSE k \in DOMAIN d.pairs: d.pairs[k][1] = key) - 1
HasKey(d, key) == \E k \in DOMAIN d.pairs: d.pairs[k][1] = key
DataOf(d, key) == IF HasKey(d, key) THEN (LET p == d.pairs[PlaceOf(d, key) + 1] IN IF p[2] = Nil THEN p[1] ELSE p[2])
                  ELSE IF d.def = Nil THEN Wrong ELSE d.def

(* Subscripts of lists and texts are numbers. *)
Subscripted(v, args, n) ==
  /\ \A k \in DOMAIN args: v.kind \in {"list", "str"} /\ args[k].kind = "list" => \A j \in DOMAIN args[k].items: args[k].items[j].kind = "int"
  /\ \A k \in DOMAIN args: v.kind \in {"list", "str"} => args[k].kind # "str"

RECURSIVE PartOf(_, _, _)
PartOf(v, args, n) ==
  LET arg == args[n]
      Deeper(u) == IF n = Len(args) \/ u = Wrong THEN u ELSE PartOf(u, args, n + 1)
      len == Len(IF v.kind = "str" THEN v.text ELSE v.items)
      places == Taken(arg.parts, len, LAMBDA i: Place(i.num, len))
      keys == Taken(arg.parts, Len(v.pairs), LAMBDA key: PlaceOf(v, key))
      lost == \E k \in DOMAIN arg.parts: k < 3 /\ arg.parts[k] # Default /\ ~HasKey(v, arg.parts[k])
      Letter(i) == IF InRange(i.num, len) THEN <<v.text[Place(i.num, len) + 1]>> ELSE <<>>
      Item(i) == IF InRange(i.num, len) THEN Deeper(v.items[Place(i.num, len) + 1]) ELSE Wrong
  IN CASE v.kind \notin {"list", "str", "dict"} -> Wrong
       [] v.kind = "str" /\ n < Len(args) -> Wrong
       [] v.kind = "str" /\ n = Len(args) /\ arg.kind = "int" -> IF InRange(arg.num, len) THEN Text(Letter(arg)) ELSE Wrong
       [] v.kind = "str" /\ n = Len(args) /\ arg.kind = "list" ->
            IF \A k \in DOMAIN arg.items: InRange(arg.items[k].num, len)
            THEN Text(FlattenSeq([k \in DOMAIN arg.items |-> Letter(arg.items[k])])) ELSE Wrong
       [] v.kind = "str" /\ n = Len(args) /\ arg.kind = "colon" -> Text([k \in DOMAIN places |-> v.text[places[k] + 1]])
       [] v.kind = "list" /\ arg.kind = "int" -> Item(arg)
       [] v.kind = "list" /\ arg.kind = "list" -> List([k \in DOMAIN arg.items |-> Item(arg.items[k])])
       [] v.kind = "list" /\ arg.kind = "colon" -> List([k \in DOMAIN places |-> Deeper(v.items[places[k] + 1])])
       [] v.kind = "dict" /\ arg.kind = "list" -> List([k \in DOMAIN arg.items |-> Deeper(DataOf(v, arg.items[k]))])
       [] v.kind = "dict" /\ arg.kind = "colon" ->
            IF lost THEN Wrong
            ELSE IF n < Len(args) /\ \E k \in DOMAIN keys: v.pairs[keys[k] + 1][2] = Nil THEN Wrong
            ELSE Dict([k \in DOMAIN keys |-> LET p == v.pairs[keys[k] + 1]
                                             IN <<p[1], IF n = Len(args) THEN p[2] ELSE PartOf(p[2], args, n + 1)>>], Nil)
       [] OTHER -> Deeper(DataOf(v, arg))
=============================================================================
