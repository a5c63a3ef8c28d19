------------------------------ MODULE Objects ------------------------------
(***************************************************************************)
(* The objects that expressions compute with: lists (listobj.c), strings   *)
(* (strobj.c), dictionaries (dictobj.c) and the fold `...' (foldobj.c) on  *)
(* a heap of counted references (obj.h, values.c), as the evaluation loop  *)
(* of eval.c and the assignments of 64tass.c use them.  An operation whose *)
(* left operand has one reference works in the operand's own memory        *)
(* (oper_s.inplace), so the result of every operation depends on all the   *)
(* counts being right.                                                     *)
(*                                                                         *)
(* The heap maps the identifiers of the live objects to records with the   *)
(* kind, the reference count and the contents, which name other objects by *)
(* their identifiers.  Beside it `said' and `holds' keep the plain values  *)
(* (module Plain) that the slots and the names should have.                *)
(*                                                                         *)
(* A text is a sequence of bytes in which a character has one byte, or a   *)
(* lead byte and a continuation byte.  The numbers are small integers,     *)
(* whose own arithmetic is that of module Ints.  Running out of memory,    *)
(* tuples (lists of another type), the cached hashes and the conversion of *)
(* texts to numbers are left out.                                          *)
(***************************************************************************)
EXTENDS Plain

CONSTANTS Names,       \* the names of variables
          Slots,       \* the size of the evaluation stack
          Steps,       \* bound: the operations that a run performs
          Literals,    \* the plain values that expressions write
          Subscripts,  \* the lists of plain values between [ and ]
          Operators,   \* the binary operators
          Starts       \* what the names may hold at first

VARIABLES heap,        \* the live objects
          values,      \* eval_context_s.values: an object or NoObject in each slot
          vsp,         \* the number of slots in use; those above keep old objects
          label,       \* the object of each name
          said,        \* the plain value of each slot in use
          holds,       \* the plain value of each name
          steps
vars == <<heap, values, vsp, label, said, holds, steps>>

-----------------------------------------------------------------------------
(* References. *)

NoObject == 0
null_str == 1
null_list == 2
null_dict == 3
false_value == 4
true_value == 5
fold_value == 6
default_value == 7

Parts(o) ==
  CASE o.kind \in {"list", "colon", "error"} -> o.items
    [] o.kind = "dict" -> SelectSeq(FlattenSeq([k \in DOMAIN o.pairs |-> <<o.pairs[k].key, o.pairs[k].data>>]) \o <<o.def>>,
                                    LAMBDA i: i # NoObject)
    [] OTHER -> <<>>

Ref(h, i) == [h EXCEPT ![i].refs = @ + 1]
Keep(h, i) == [h |-> Ref(h, i), r |-> i]
RefAll(h, s) == FoldLeft(Ref, h, s)

(* A new object in the first free place. *)
New(h, o) == LET i == CHOOSE i \in 1..(Cardinality(DOMAIN h) + 1): i \notin DOMAIN h /\ \A j \in 1..(i - 1): j \in DOMAIN h
             IN [h |-> (i :> o) @@ h, r |-> i]

(* Drop a reference; the last one takes the object and its references.     *)
RECURSIVE val_destroy(_, _)
val_destroy(h, i) ==
  IF i = NoObject THEN h
  ELSE IF h[i].refs > 1 THEN [h EXCEPT ![i].refs = @ - 1]
  ELSE FoldLeft(LAMBDA g, j: val_destroy(g, j), [j \in DOMAIN h \ {i} |-> h[j]], Parts(h[i]))
DestroyAll(h, s) == FoldLeft(val_destroy, h, s)
(* A result, and something of the way to it that is dropped.                *)
Without(r, i) == [r EXCEPT !.h = val_destroy(@, i)]
WithoutAll(r, s) == [r EXCEPT !.h = DestroyAll(@, s)]
val_replace(res, i) == IF res.r = i THEN res ELSE Keep(val_destroy(res.h, res.r), i)

Counted(kind, items) == [kind |-> kind, refs |-> 1, items |-> items]
NewNumber(h, n) == New(h, [kind |-> "int", refs |-> 1, num |-> n])
NewList(h, items) == New(h, Counted("list", items))
NewText(h, data, chars) == New(h, [kind |-> "str", refs |-> 1, data |-> data, chars |-> chars])

(* An error refers to the objects that it tells about.                     *)
Failed(h, about) == New(RefAll(h, about), Counted("error", about))

iterable(o) == o.kind \in {"list", "dict"}

-----------------------------------------------------------------------------
(* The plain value of an object. *)

RECURSIVE Meaning(_, _)
Meaning(h, i) ==
  LET o == h[i]
      Plainly(j) == IF j = NoObject THEN Nil ELSE Meaning(h, j)
  IN CASE o.kind = "int" -> Num(o.num)
       [] o.kind = "bool" -> Truth(o.flag)
       [] o.kind = "str" -> Text(Decode(o.data))
       [] o.kind = "list" -> List([k \in DOMAIN o.items |-> Meaning(h, o.items[k])])
       [] o.kind = "colon" -> Colon([k \in DOMAIN o.items |-> Meaning(h, o.items[k])])
       [] o.kind = "dict" -> Dict([k \in DOMAIN o.pairs |-> <<Meaning(h, o.pairs[k].key), Plainly(o.pairs[k].data)>>], Plainly(o.def))
       [] o.kind = "error" -> Wrong
       [] o.kind = "fold" -> Fold
       [] o.kind = "default" -> Default

same(h, i, j) == Meaning(h, i) = Meaning(h, j)

(* Some function of the contents; the number of a list is that of the list *)
(* of the same elements.                                                   *)
RECURSIVE hash(_, _)
hash(h, i) ==
  LET o == h[i]
      Sum(s) == FoldLeft(LAMBDA n, j: n + hash(h, j), 0, s)
  IN CASE o.kind = "int" -> o.num
       [] o.kind = "str" -> FoldLeft(LAMBDA n, b: 3 * n + b, Len(o.data), o.data)
       [] o.kind = "list" -> Sum(o.items) + Len(o.items)
       [] o.kind = "dict" -> Sum(SelectSeq(Parts(o), LAMBDA j: h[j].kind # "colon"))
       [] OTHER -> 0
Hashable(o) == o.kind \in {"int", "bool", "str", "list", "dict"}

-----------------------------------------------------------------------------
(* Dictionaries: the pairs in order and, from the second pair on, a table  *)
(* of their places with open addressing.  max is the room for pairs.       *)

RECURSIVE TableSize(_, _)
TableSize(need, n) == IF need > n THEN TableSize(need, 2 * n) ELSE n
Empty(ln) == [k \in 0..(TableSize((ln * 3) \div 2, 8) - 1) |-> NoObject]
Inline(d) == d.index = <<>>

new_dict(ln) == [kind |-> "dict", refs |-> 1, pairs |-> <<>>, def |-> NoObject, max |-> IF ln > 1 THEN ln ELSE 1,
                 index |-> IF ln > 1 THEN Empty(ln) ELSE <<>>]

(* The first place on the path of a hash that is empty or has the wanted.  *)
RECURSIVE Probe(_, _, _, _)
Probe(index, offs, hs, wanted) ==
  IF index[offs] \in wanted \cup {NoObject} THEN offs
  ELSE Probe(index, (5 * offs + (hs \div 32) + 1) % Cardinality(DOMAIN index), hs \div 32, wanted)
Find(index, hs, wanted) == Probe(index, hs % Cardinality(DOMAIN index), hs, wanted)

pair_same(h, d, hs, key) == {k \in DOMAIN d.pairs:
   d.pairs[k].key = key \/ (d.pairs[k].hash = hs /\ h[d.pairs[k].key].kind = h[key].kind /\ same(h, d.pairs[k].key, key))}

(* Mutant: the path of a number stays in the table of its lowest bits.     *)
reindexFirst(d) == IF Inline(d) THEN d
  ELSE [d EXCEPT !.index = FoldLeft(LAMBDA ix, k: [ix EXCEPT ![d.pairs[k].hash % Cardinality(DOMAIN ix)] = k], d.index,
                                    [k \in DOMAIN d.pairs |-> k])]

reindex(d) == IF Inline(d) THEN d
  ELSE [d EXCEPT !.index = FoldLeft(LAMBDA ix, k: [ix EXCEPT ![Find(ix, d.pairs[k].hash, {})] = k], d.index,
                                    [k \in DOMAIN d.pairs |-> k])]

(* A table of another size is built anew; else the old one is moved.       *)
resize(d, ln) ==
  IF ~Inline(d) /\ Cardinality(DOMAIN Empty(ln)) = Cardinality(DOMAIN d.index) THEN [d EXCEPT !.max = ln]
  ELSE reindex([d EXCEPT !.max = ln, !.index = Empty(ln)])

normalize(d) == IF Inline(d) \/ d.max - Len(d.pairs) < 2 THEN d ELSE resize(d, Len(d.pairs))

(* d's pair for a key and its place, 0 without one.                        *)
dict_lookup(h, d, hs, key) ==
  LET like == pair_same(h, d, hs, key)
  IN IF Inline(d) THEN (IF 1 \in like THEN 1 ELSE 0) ELSE d.index[Find(d.index, hs, like)]

dict_update(h, i, p) ==
  LET d == h[i]
      at == IF Inline(d) THEN NoObject ELSE Find(d.index, p.hash, pair_same(h, d, p.hash, p.key))
      taken == IF p.data = NoObject THEN h ELSE Ref(h, p.data)
  IN IF ~Inline(d) /\ d.index[at] # NoObject
     THEN [val_destroy(taken, d.pairs[d.index[at]].data) EXCEPT ![i].pairs[d.index[at]].data = p.data]
     ELSE [Ref(taken, p.key) EXCEPT ![i].pairs = Append(@, p),
                                    ![i].index = IF Inline(d) THEN @ ELSE [@ EXCEPT ![at] = Len(d.pairs) + 1]]

SetDefault(h, i, j) == [val_destroy(IF j = NoObject THEN h ELSE Ref(h, j), h[i].def) EXCEPT ![i].def = j]

(* { ... } of the objects vs: keys, key:data and :default.                 *)
RECURSIVE ParsePairs(_, _, _)
ParsePairs(h, i, vs) ==
  IF vs = <<>> THEN [h |-> [h EXCEPT ![i] = normalize(@)], r |-> i]
  ELSE LET o == h[Head(vs)]
           key == IF o.kind = "colon" THEN o.items[1] ELSE Head(vs)
           data == IF o.kind = "colon" THEN o.items[2] ELSE NoObject
       IN IF o.kind = "error" THEN Keep(val_destroy(h, i), Head(vs))
          ELSE IF o.kind = "colon" /\ (Len(o.items) # 2 \/ (key # default_value /\ data = default_value))
               THEN Without(Failed(h, <<Head(vs)>>), i)
          ELSE IF key = default_value
               THEN ParsePairs(SetDefault(h, i, IF data = default_value THEN NoObject ELSE data), i, Tail(vs))
          ELSE IF ~Hashable(h[key]) THEN Without(Failed(h, <<key>>), i)
          ELSE ParsePairs(dict_update(h, i, [hash |-> hash(h, key), key |-> key, data |-> data]), i, Tail(vs))
dictobj_parse(h, vs) == LET d == New(h, new_dict(Len(vs))) IN ParsePairs(d.h, d.r, vs)

WithDefault(h, i, def) == IF def = NoObject \/ h[i].def = def THEN h ELSE SetDefault(h, i, def)
Updated(to, pairs, def) == [to EXCEPT !.h = WithDefault(FoldLeft(LAMBDA g, p: dict_update(g, to.r, p), @, pairs), to.r, def)]
Packed(d) == [d EXCEPT !.h = [@ EXCEPT ![d.r] = normalize(@)]]
(* dict .. dict: the second's pairs go into the first one or a copy of it. *)
DictConcat(h, a, b, inplace) ==
  LET u == h[a]
      v == h[b]
      ln == Len(u.pairs) + Len(v.pairs)
      copy == New(RefAll(h, Parts([u EXCEPT !.def = NoObject])), reindex([new_dict(ln) EXCEPT !.pairs = u.pairs]))
      own == Keep(IF ln > u.max THEN [h EXCEPT ![a] = resize(@, 2 * ln)] ELSE h, a)
      def == IF v.def # NoObject THEN v.def ELSE u.def
  IN IF v.pairs = <<>> /\ v.def = NoObject THEN Keep(h, a)
     ELSE IF u.pairs = <<>> /\ (u.def = NoObject \/ v.def # NoObject) THEN Keep(h, b)
     ELSE IF inplace = a THEN Updated(own, v.pairs, def) ELSE Packed(Updated(copy, v.pairs, def))

-----------------------------------------------------------------------------
(* Subscripts. *)

utf8len(b) == IF b = Lead THEN 2 ELSE 1
Narrow(o) == Len(o.data) = o.chars
Piece(data, p) == SubSeq(data, p, p + utf8len(data[p]) - 1)
Walk(data, k) == FoldLeft(LAMBDA p, j: p + utf8len(data[p]), 1, [j \in 1..k |-> j])

(* The offset of an index, -1 when it is out of range. *)
indexoffs(n, len) == IF n >= 0 THEN IF n < len THEN n ELSE -1
                     ELSE IF -n <= len THEN len + n ELSE -1

Part(h, c, k) == LET i == IF k > Len(h[c].items) THEN default_value ELSE h[c].items[k]
                 IN IF i = default_value THEN Default ELSE Num(h[i].num)
Stepped(offset, end, step) ==
  [offset |-> offset, end |-> end, step |-> step,
   length |-> IF step > 0 THEN (end - offset + step - 1) \div step ELSE (offset - end - step - 1) \div (-step)]
Bounded(offset, end, step) ==
  IF step > 0 THEN Stepped(IF offset > end THEN end ELSE offset, end, step)
  ELSE Stepped(offset, IF end > offset THEN offset ELSE end, step)

sliceparams(h, c, length) ==
  LET step == IF Part(h, c, 3) = Default THEN 1 ELSE Part(h, c, 3).num
      Least(n, low) == IF n < low THEN low ELSE n
      Most(n, high) == IF n > high THEN high ELSE n
      minus == IF step < 0 THEN -1 ELSE 0
      to == Part(h, c, 2)
      from == Part(h, c, 1)
  IN Bounded(IF from = Default THEN (IF step > 0 THEN 0 ELSE length - 1)
             ELSE Least(IF from.num >= 0 THEN Most(from.num, length + minus) ELSE from.num + length, minus),
             IF to = Default THEN (IF step > 0 THEN length ELSE -1)
             ELSE IF to.num >= 0 THEN Most(to.num, length) ELSE Least(to.num + length, -1), step)

(* Copy the characters of a slice to the front of its own text or of a new *)
(* one; what is read next must not have been written over.                 *)
Forward(data, s, inplace) ==
  LET Over(buf, p, piece) == [j \in DOMAIN buf |-> IF j >= p /\ j < p + Len(piece) THEN piece[j - p + 1] ELSE buf[j]]
      Next1(st, i) ==
        LET piece == Piece(IF inplace THEN st.buf ELSE data, st.p)
            past == st.p + Len(piece)
        IN IF (i - s.offset) % s.step # 0 THEN [st EXCEPT !.p = past]
           ELSE [buf |-> Over(st.buf, st.p2, piece), p |-> past, p2 |-> st.p2 + Len(piece)]
      all == FoldLeft(Next1, [buf |-> data, p |-> Walk(data, s.offset), p2 |-> 1], [j \in 1..(s.end - s.offset) |-> s.offset + j - 1])
  IN SubSeq(all.buf, 1, all.p2 - 1)
Backward(data, s) == FlattenSeq([k \in 1..s.length |-> Piece(data, Walk(data, s.offset + (k - 1) * s.step))])

Rewritten(h, i, data, chars) == Keep([h EXCEPT ![i].data = data, ![i].chars = chars], i)

(* text[numbers] *)
Letters(h, i, items) ==
  LET o == h[i]
      back == [k \in DOMAIN items |-> IF h[items[k]].kind = "int" THEN indexoffs(h[items[k]].num, o.chars) ELSE -1]
      wrong == {k \in DOMAIN items: back[k] < 0}
  IN IF items = <<>> THEN Keep(h, null_str)
     ELSE IF wrong # {} THEN Failed(h, <<items[CHOOSE k \in wrong: \A j \in wrong: k <= j]>>)
     ELSE NewText(h, FlattenSeq([k \in DOMAIN back |-> Piece(o.data, Walk(o.data, back[k]))]), Len(back))

(* text[from:to:step] *)
Span(h, i, s, inplace) ==
  LET o == h[i]
      own == inplace = i /\ s.step > 0
      data == IF s.step > 0 THEN Forward(o.data, s, own) ELSE Backward(o.data, s)
  IN IF s.length = 0 THEN Keep(h, null_str)
     ELSE IF s.step = 1 /\ s.length = o.chars THEN Keep(h, i)
     ELSE IF own THEN Rewritten(h, i, data, s.length) ELSE NewText(h, data, s.length)

(* text[number] *)
Letter(h, i, arg, inplace) ==
  LET o == h[i]
      offs == IF h[arg].kind = "int" THEN indexoffs(h[arg].num, o.chars) ELSE -1
      data == IF Narrow(o) THEN <<o.data[offs + 1]>> ELSE Piece(o.data, Walk(o.data, offs))
  IN IF offs < 0 THEN Failed(h, <<arg>>)
     ELSE IF inplace = i THEN Rewritten(h, i, data, 1) ELSE NewText(h, data, 1)

SliceText(h, i, arg, inplace) ==
  CASE h[arg].kind = "list" -> Letters(h, i, h[arg].items)
    [] h[arg].kind = "colon" -> Span(h, i, sliceparams(h, arg, h[i].chars), inplace)
    [] OTHER -> Letter(h, i, arg, inplace)

(* A list that keeps its first elements. *)
list_shrink(h, i, n) == DestroyAll([h EXCEPT ![i].items = SubSeq(@, 1, n)], SubSeq(h[i].items, n + 1, Len(h[i].items)))

Swapped(h, i, k, n) == [h EXCEPT ![i].items[k] = h[i].items[n], ![i].items[n] = h[i].items[k]]

(* The element of a list is another one, which is dropped when it is there.*)
Renewed(r, i, k, old) == [val_destroy(r.h, old) EXCEPT ![i].items[k] = r.r]
(* One result after the other, into a list's own elements or a new list.   *)
Each(h, n, Do(_, _), into) ==
  LET count == [k \in 1..n |-> k]
      InNew(a, k) == LET r == Do(a.h, k) IN [h |-> r.h, items |-> Append(a.items, r.r)]
      InOld(g, k) == Renewed(Do(g, k), into, k, g[into].items[k])
  IN IF into # NoObject THEN Keep(FoldLeft(InOld, h, count), into)
     ELSE LET all == FoldLeft(InNew, [h |-> h, items |-> <<>>], count) IN NewList(all.h, all.items)

FindIt(h, i, key) ==
  LET o == h[i]
      at == IF o.pairs = <<>> THEN 0 ELSE dict_lookup(h, o, hash(h, key), key)
  IN IF o.pairs # <<>> /\ ~Hashable(h[key]) THEN Failed(h, <<key>>)
     ELSE IF at > 0 THEN Keep(h, IF o.pairs[at].data # NoObject THEN o.pairs[at].data ELSE o.pairs[at].key)
     ELSE IF o.def # NoObject THEN Keep(h, o.def)
     ELSE Failed(h, <<key>>)

(* The places of the first and of the end key of a slice, 0 for none.      *)
dictsliceparams(h, i, c) ==
  LET o == h[i]
      items == h[c].items
      Given(k) == k <= Len(items) /\ items[k] # default_value
      step == IF Given(3) THEN h[items[3]].num ELSE 1
      indexof(k) == IF o.pairs = <<>> THEN 0 ELSE dict_lookup(h, o, hash(h, items[k]), items[k])
      bad == {k \in {1, 2}: Given(k) /\ indexof(k) = 0}
  IN IF bad # {} THEN [bad |-> items[IF 2 \in bad THEN 2 ELSE 1], params |-> Nil]
     ELSE [bad |-> NoObject,
           params |-> Bounded(IF Given(1) THEN indexof(1) - 1 ELSE IF step > 0 THEN 0 ELSE Len(o.pairs) - 1,
                              IF Given(2) THEN indexof(2) - 1 ELSE IF step > 0 THEN Len(o.pairs) ELSE -1, step)]

RECURSIVE slice(_, _, _, _, _)
(* An element, sliced by the arguments that follow. *)
Element(g, j, args, indx, inplace) == IF indx < Len(args) THEN slice(g, j, args, indx + 1, inplace) ELSE Keep(g, j)
ListSection(h, i, s, args, indx, inplace) ==
  LET items == h[i].items
      more == indx < Len(args)
      From(k) == s.offset + (k - 1) * s.step + 1
      Own(g, k) == IF more THEN Renewed(Element(g, g[i].items[From(k)], args, indx, inplace), i, k, g[i].items[k])
                   ELSE Swapped(g, i, k, From(k))
      moved == IF s.offset # 0 \/ s.step # 1 \/ more THEN FoldLeft(Own, h, [k \in 1..s.length |-> k]) ELSE h
  IN IF s.length = 0 THEN Keep(h, null_list)
     ELSE IF s.step > 0 /\ inplace = i THEN Keep(list_shrink(moved, i, s.length), i)
     ELSE IF s.step = 1 /\ s.length = Len(items) /\ ~more THEN Keep(h, i)
     ELSE Each(h, s.length, LAMBDA g, k: Element(g, items[From(k)], args, indx, inplace), NoObject)
SliceList(h, i, args, indx, inplace) ==
  LET items == h[i].items
      arg == args[indx]
      t == h[arg]
      At(g, val) == LET offs == IF g[val].kind = "int" THEN indexoffs(g[val].num, Len(items)) ELSE -1
                    IN IF offs < 0 THEN Failed(g, <<val>>) ELSE Element(g, items[offs + 1], args, indx, inplace)
  IN CASE t.kind = "list" /\ t.items = <<>> -> Keep(h, null_list)
       [] t.kind = "list" /\ t.items # <<>> -> Each(h, Len(t.items), LAMBDA g, k: At(g, t.items[k]), NoObject)
       [] t.kind = "colon" -> ListSection(h, i, sliceparams(h, arg, Len(items)), args, indx, inplace)
       [] OTHER -> At(h, arg)

Deeper(f, args, indx, inplace) ==
  IF indx < Len(args) /\ f.h[f.r].kind # "error" THEN Without(slice(f.h, f.r, args, indx + 1, inplace), f.r) ELSE f
WithPair(a, pair, d) == [a EXCEPT !.h = Ref(d.h, pair.key), !.pairs = Append(@, [pair EXCEPT !.data = d.r])]
NewDict(made, bad) == IF bad # NoObject THEN Without(Failed(made.h, <<bad>>), made.r) ELSE made
AsDict(all, n) == NewDict(New(all.h, reindex([new_dict(n) EXCEPT !.pairs = all.pairs])), all.bad)
DictSection(h, i, found, args, indx, inplace) ==
  LET o == h[i]
      s == found.params
      more == indx < Len(args)
      Pair(a, k) ==
        LET pair == o.pairs[s.offset + (k - 1) * s.step + 1]
        IN IF a.bad # NoObject THEN a
           ELSE IF pair.data = NoObject /\ more THEN [a EXCEPT !.bad = pair.key]
           ELSE WithPair(a, pair, IF pair.data = NoObject THEN [h |-> a.h, r |-> NoObject]
                                  ELSE Element(a.h, pair.data, args, indx, inplace))
  IN IF found.bad # NoObject THEN Failed(h, <<found.bad>>)
     ELSE IF s.length = 0 THEN Keep(h, null_dict)
     ELSE IF s.step = 1 /\ s.length = Len(o.pairs) /\ o.def = NoObject /\ ~more THEN Keep(h, i)
     ELSE AsDict(FoldLeft(Pair, [h |-> h, pairs |-> <<>>, bad |-> NoObject], [k \in 1..s.length |-> k]), s.length)
SliceDict(h, i, args, indx, inplace) ==
  LET arg == args[indx]
      t == h[arg]
      At(g, key) == Deeper(FindIt(g, i, key), args, indx, inplace)
  IN CASE t.kind = "list" /\ t.items = <<>> -> Keep(h, null_list)
       [] t.kind = "list" /\ t.items # <<>> -> Each(h, Len(t.items), LAMBDA g, k: At(g, t.items[k]), NoObject)
       [] t.kind = "colon" -> DictSection(h, i, dictsliceparams(h, i, arg), args, indx, inplace)
       [] OTHER -> At(h, arg)

(* object[args] *)
slice(h, i, args, indx, inplace) ==
  CASE h[i].kind = "list" -> SliceList(h, i, args, indx, inplace)
    [] h[i].kind = "dict" -> SliceDict(h, i, args, indx, inplace)
    [] h[i].kind = "str" -> IF indx < Len(args) THEN Failed(h, <<>>) ELSE SliceText(h, i, args[indx], inplace)
    [] h[i].kind = "error" -> Keep(h, i)
    [] OTHER -> Failed(h, <<i>>)

-----------------------------------------------------------------------------
(* Operators. *)

Sole(h, i) == IF h[i].refs = 1 THEN i ELSE NoObject

(* Mutant: the elements of a list that nobody else has are nobody else's.  *)
WithinAny(h, into, i) == IF into = NoObject THEN NoObject ELSE i

(* An element can be worked on in its own memory when its list can.        *)
Within(h, into, i) == IF into = NoObject THEN NoObject ELSE Sole(h, i)

Invalid(h, op, a, b) == Failed(h, IF op = "x" THEN <<a>> ELSE <<a, b>>)
Chosen(h, op, res, a, b) ==
  IF op # "<?" THEN res
  ELSE IF res.r = true_value THEN val_replace(res, a)
  ELSE IF res.r = false_value THEN val_replace(res, b) ELSE res
TruthOf(h, b) == Keep(h, IF b THEN true_value ELSE false_value)

RECURSIVE Before(_, _)
Before(s, t) == t # <<>> /\ (s = <<>> \/ Head(s) < Head(t) \/ (Head(s) = Head(t) /\ Before(Tail(s), Tail(t))))

calc2_int(h, op, a, b, inplace) ==
  LET sum == h[a].num + h[b].num
  IN CASE op = "+" -> IF inplace = a THEN Keep([h EXCEPT ![a].num = sum], a) ELSE NewNumber(h, sum)
       [] op = "<?" -> TruthOf(h, h[a].num < h[b].num)
       [] op = "==" -> TruthOf(h, h[a].num = h[b].num)
       [] OTHER -> Invalid(h, op, a, b)

calc2_str(h, op, a, b, inplace) ==
  LET u == h[a]
      v == h[b]
      both == u.data \o v.data
  IN CASE op = "<?" -> TruthOf(h, Before(u.data, v.data))
       [] op = "==" -> TruthOf(h, u.data = v.data)
       [] op = ".." ->
            IF u.data = <<>> THEN Keep(h, b)
            ELSE IF v.data = <<>> THEN Keep(h, a)
            ELSE IF inplace \in {a, b} THEN Rewritten(h, inplace, both, u.chars + v.chars)
            ELSE NewText(h, both, u.chars + v.chars)
       [] OTHER -> Invalid(h, op, a, b)

Times(s, n) == FlattenSeq([k \in 1..n |-> s])

(* Mutant: the elements of a list of its own are counted once too often.   *)
repeatCounted(h, a, b, inplace) ==
  LET o == h[a]
      rep == h[b].num
      again == IF o.kind = "list" THEN RefAll(h, Times(o.items, rep)) ELSE h
      own == inplace = a
  IN IF h[b].kind # "int" \/ rep < 0 THEN Failed(h, <<b>>)
     ELSE IF o.kind = "list"
          THEN IF rep = 0 \/ o.items = <<>> THEN Keep(h, null_list)
               ELSE IF rep = 1 THEN Keep(h, a)
               ELSE IF own THEN Keep([again EXCEPT ![a].items = Times(@, rep)], a) ELSE NewList(again, Times(o.items, rep))
     ELSE IF rep = 0 \/ o.data = <<>> THEN Keep(h, null_str)
     ELSE IF rep = 1 THEN Keep(h, a)
     ELSE IF own THEN Rewritten(h, a, Times(o.data, rep), o.chars * rep)
     ELSE NewText(h, Times(o.data, rep), o.chars * rep)

(* list x number and text x number *)
repeat(h, a, b, inplace) ==
  LET o == h[a]
      rep == h[b].num
      own == inplace = a
      again == IF o.kind = "list" THEN RefAll(h, Times(o.items, IF own THEN rep - 1 ELSE rep)) ELSE h
  IN IF h[b].kind # "int" \/ rep < 0 THEN Failed(h, <<b>>)
     ELSE IF o.kind = "list"
          THEN IF rep = 0 \/ o.items = <<>> THEN Keep(h, null_list)
               ELSE IF rep = 1 THEN Keep(h, a)
               ELSE IF own THEN Keep([again EXCEPT ![a].items = Times(@, rep)], a) ELSE NewList(again, Times(o.items, rep))
     ELSE IF rep = 0 \/ o.data = <<>> THEN Keep(h, null_str)
     ELSE IF rep = 1 THEN Keep(h, a)
     ELSE IF own THEN Rewritten(h, a, Times(o.data, rep), o.chars * rep)
     ELSE NewText(h, Times(o.data, rep), o.chars * rep)

ListConcat(h, a, b, inplace) ==
  LET u == h[a].items
      v == h[b].items
  IN IF u = <<>> THEN Keep(h, b)
     ELSE IF v = <<>> THEN Keep(h, a)
     ELSE IF inplace = a THEN Keep([RefAll(h, v) EXCEPT ![a].items = u \o v], a)
     ELSE IF inplace = b THEN Keep([RefAll(h, u) EXCEPT ![b].items = u \o v], b)
     ELSE NewList(RefAll(h, u \o v), u \o v)

RECURSIVE calc2(_, _, _, _, _), calc2_list(_, _, _, _, _)

(* The list at a, each element with the whole of b, and the other way.     *)
Spread(h, op, a, b, inplace) ==
  LET into == IF inplace = a THEN a ELSE NoObject
  IN Each(h, Len(h[a].items),
          LAMBDA g, k: LET e == IF into = NoObject THEN h[a].items[k] ELSE g[a].items[k]
                       IN Chosen(g, op, calc2(g, op, e, b, IF op = "<?" THEN NoObject ELSE Within(g, into, e)), e, b), into)
SpreadBack(h, op, a, b, inplace) ==
  LET into == IF inplace = b THEN b ELSE NoObject
  IN Each(h, Len(h[b].items),
          LAMBDA g, k: LET e == IF into = NoObject THEN h[b].items[k] ELSE g[b].items[k]
                       IN Chosen(g, op, calc2(g, op, a, e, IF op = "<?" THEN NoObject ELSE Within(g, into, e)), a, e), into)

(* An operation on a list and anything: rcalc2 of the list's type. *)
rcalc2_list(h, op, a, b, inplace) ==
  CASE h[a].kind \in {"error", "fold"} -> calc2(h, op, a, b, inplace)
    [] h[b].items = <<>> -> Keep(h, b)
    [] OTHER -> SpreadBack(h, op, a, b, inplace)

calc2_list(h, op, a, b, inplace) ==
  LET u == h[a].items
      v == h[b].items
      into == IF inplace \in {a, b} THEN inplace ELSE NoObject
      Pair(g, k) == LET e == IF into = a THEN g[a].items[k] ELSE u[k]
                        f == IF into = b THEN g[b].items[k] ELSE v[k]
                    IN Chosen(g, op, calc2(g, op, e, f, IF op = "<?" \/ into # a THEN NoObject ELSE Within(g, into, e)), e, f)
  IN IF op = ".." THEN ListConcat(h, a, b, inplace)
     ELSE IF Len(u) = Len(v) THEN (IF u = <<>> THEN Keep(h, a) ELSE Each(h, Len(u), Pair, into))
     ELSE IF Len(u) = 1 THEN
       (IF h[u[1]].kind = "list" THEN calc2_list(h, op, u[1], b, IF inplace = a THEN NoObject ELSE inplace)
        ELSE rcalc2_list(h, op, u[1], b, IF inplace = a THEN NoObject ELSE inplace))
     ELSE IF Len(v) = 1 THEN calc2(h, op, a, v[1], IF inplace = b THEN NoObject ELSE inplace)
     ELSE Failed(h, <<>>)

(* ... op list and list op ...: the elements one after the other.          *)
Folded(h, op, list, Join(_, _, _)) ==
  IF list = <<>> THEN Failed(h, <<>>)
  ELSE FoldLeft(LAMBDA acc, e: LET res == Join(acc.h, acc.r, e) IN [res EXCEPT !.h = val_destroy(res.h, acc.r)],
                Keep(h, Head(list)), Tail(list))
FoldLeftward(h, op, list) ==
  Folded(h, op, list, LAMBDA g, ret, e: Chosen(g, op, calc2(g, op, ret, e, IF op = "<?" THEN NoObject ELSE Sole(g, ret)), ret, e))
FoldRightward(h, op, list) ==
  Folded(h, op, Reverse(list), LAMBDA g, ret, e: Chosen(g, op, calc2(g, op, e, ret, IF op = "<?" THEN NoObject ELSE Sole(g, ret)), e, ret))

calc2(h, op, a, b, inplace) ==
  LET ka == h[a].kind
      kb == h[b].kind
  IN CASE ka = "error" -> Keep(h, a)
       [] ka = "fold" -> IF kb = "list" /\ op # "x" THEN FoldLeftward(h, op, h[b].items)
                         ELSE IF kb = "error" THEN Keep(h, b) ELSE Invalid(h, op, a, b)
       [] ka \in {"list", "str"} /\ op = "x" -> repeat(h, a, b, inplace)
       [] ka = "list" /\ op # "x" -> IF kb = "fold" THEN FoldRightward(h, op, h[a].items)
                                     ELSE IF kb = "list" THEN calc2_list(h, op, a, b, inplace)
                                     ELSE IF kb = "error" THEN Keep(h, b)
                                     ELSE IF h[a].items = <<>> THEN Keep(h, a)
                                     ELSE Spread(h, op, a, b, inplace)
       [] ka = "dict" /\ kb = "dict" -> IF op = ".." THEN DictConcat(h, a, b, inplace) ELSE Invalid(h, op, a, b)
       [] ka \in {"int", "str", "dict"} /\ kb = "error" -> Keep(h, b)
       [] ka \in {"int", "str", "dict"} /\ kb = "list" /\ ~(ka = "str" /\ op = "x") ->
            IF op = "x" THEN Invalid(h, op, a, b) ELSE rcalc2_list(h, op, a, b, inplace)
       [] ka = "int" /\ kb = "int" -> calc2_int(h, op, a, b, inplace)
       [] ka = "str" /\ kb = "str" /\ op # "x" -> calc2_str(h, op, a, b, inplace)
       [] OTHER -> Invalid(h, op, a, b)

RECURSIVE calc1(_, _, _)
calc1(h, a, inplace) ==
  CASE h[a].kind = "int" -> IF inplace = a THEN Keep([h EXCEPT ![a].num = -@], a) ELSE NewNumber(h, -h[a].num)
    [] h[a].kind = "list" /\ h[a].items # <<>> ->
         LET into == IF inplace = a THEN a ELSE NoObject
         IN Each(h, Len(h[a].items), LAMBDA g, k: LET e == IF into = NoObject THEN h[a].items[k] ELSE g[a].items[k]
                                                  IN calc1(g, e, Within(g, into, e)), into)
    [] h[a].kind \in {"list", "error"} -> Keep(h, a)
    [] OTHER -> Failed(h, <<a>>)

str_contains(s, t) == s = <<>> \/ \E p \in 0..(Len(t) - Len(s)): SubSeq(t, p + 1, p + Len(s)) = s

(* a in b: for a list with == on one element after the other. *)
contains(h, a, b) ==
  LET o == h[b]
  IN CASE o.kind = "list" -> TruthOf(h, \E k \in DOMAIN o.items: calc2(h, "==", a, o.items[k], NoObject).r = true_value)
       [] o.kind = "dict" -> IF o.pairs # <<>> /\ ~Hashable(h[a]) THEN Failed(h, <<a>>)
                             ELSE TruthOf(h, o.pairs # <<>> /\ dict_lookup(h, o, hash(h, a), a) > 0)
       [] o.kind = "str" /\ h[a].kind = "str" -> TruthOf(h, str_contains(h[a].data, o.data))
       [] OTHER -> Failed(h, <<a, b>>)

-----------------------------------------------------------------------------
(* The evaluation loop and the assignments. *)

(* The objects that an expression writes down. *)
RECURSIVE Written(_, _)
WrittenAll(h, s) == FoldLeft(LAMBDA a, v: LET r == Written(a.h, v) IN [h |-> r.h, ids |-> Append(a.ids, r.r)], [h |-> h, ids |-> <<>>], s)
ParsedDict(w) == WithoutAll(dictobj_parse(w.h, w.ids), w.ids)
Written(h, v) ==
  LET items == WrittenAll(h, v.items)
      parts == WrittenAll(h, v.parts)
      pairs == [k \in DOMAIN v.pairs |-> IF v.pairs[k][2] = Nil THEN v.pairs[k][1] ELSE Colon(v.pairs[k])]
               \o (IF v.def = Nil THEN <<>> ELSE <<Colon(<<Default, v.def>>)>>)
  IN CASE v.kind = "int" -> NewNumber(h, v.num)
       [] v.kind = "str" -> IF v.text = <<>> THEN Keep(h, null_str) ELSE NewText(h, Encoded(v.text), Len(v.text))
       [] v.kind = "list" -> IF v.items = <<>> THEN Keep(h, null_list) ELSE NewList(items.h, items.ids)
       [] v.kind = "colon" -> New(parts.h, Counted("colon", parts.ids))
       [] v.kind = "dict" -> IF v.pairs = <<>> /\ v.def = Nil THEN Keep(h, null_dict)
                             ELSE ParsedDict(WrittenAll(h, pairs))
       [] v.kind = "fold" -> Keep(h, fold_value)
       [] v.kind = "default" -> Keep(h, default_value)

(* The objects that live for as long as the program. *)
Builtin == (null_str :> [kind |-> "str", refs |-> 1, data |-> <<>>, chars |-> 0]) @@ (null_list :> Counted("list", <<>>))
           @@ (null_dict :> new_dict(0)) @@ (false_value :> [kind |-> "bool", refs |-> 2, flag |-> FALSE])
           @@ (true_value :> [kind |-> "bool", refs |-> 2, flag |-> TRUE])
           @@ (fold_value :> [kind |-> "fold", refs |-> 1]) @@ (default_value :> [kind |-> "default", refs |-> 1])

(* The first names hold values of their own and the same or parts of them. *)
WithName(r, name, names) == [h |-> r.h, label |-> (name :> r.r) @@ names]
Named(h, start) ==
  FoldLeft(LAMBDA a, p: WithName(IF p.of = "" THEN Written(a.h, p.value)
                                 ELSE Keep(a.h, IF p.part = 0 THEN a.label[p.of] ELSE a.h[a.label[p.of]].items[p.part]),
                                 p.name, a.label),
           [h |-> h, label |-> [n \in {} |-> NoObject]], start)

Starting(first) ==
  /\ heap = first.h /\ label = first.label
  /\ holds = [n \in Names |-> Meaning(first.h, first.label[n])]
  /\ values = [k \in 1..Slots |-> NoObject] /\ vsp = 0 /\ said = <<>> /\ steps = 0
Init == \E start \in Starts: Starting(Named(Builtin, start))

Step == steps < Steps /\ steps' = steps + 1

(* Slot k takes an object; what was there before is dropped. *)
Put(h, k, i) == /\ heap' = val_destroy(h, values[k])
                /\ values' = [values EXCEPT ![k] = i]

Push(r, plain) == /\ vsp < Slots
                  /\ Put(r.h, vsp + 1, r.r)
                  /\ vsp' = vsp + 1 /\ said' = Append(said, plain)
                  /\ UNCHANGED <<label, holds>>

Literal == Step /\ \E v \in Literals: Push(Written(heap, v), v)
Variable == Step /\ \E n \in Names: Push(Keep(heap, label[n]), holds[n])

Replace(r, k, plain) == /\ Put(r.h, k, r.r)
                        /\ vsp' = k /\ said' = Append(SubSeq(said, 1, k - 1), plain)
                        /\ UNCHANGED <<label, holds>>

(* ( ... ) and [ ... ]: the objects move into the list. *)
MakeList ==
  /\ Step /\ vsp > 1
  /\ LET r == NewList(heap, SubSeq(values, vsp - 1, vsp))
     IN heap' = r.h /\ values' = [values EXCEPT ![vsp - 1] = r.r, ![vsp] = NoObject]
  /\ vsp' = vsp - 1 /\ said' = Append(SubSeq(said, 1, vsp - 2), List(SubSeq(said, vsp - 1, vsp)))
  /\ UNCHANGED <<label, holds>>

Negate == /\ Step /\ vsp > 0 /\ ~HasText(said[vsp]) /\ ~HasTruth(said[vsp])
          /\ Replace(calc1(heap, values[vsp], Sole(heap, values[vsp])), vsp, NegativeOf(said[vsp]))

(* The result of an operator on slots a and b; that of <? is one of them.  *)
Took(op, r, a, b, plain) ==
  IF op = "<?" /\ r.r = false_value
  THEN /\ heap' = val_destroy(val_destroy(r.h, r.r), a)
       /\ values' = [values EXCEPT ![vsp - 1] = b, ![vsp] = NoObject]
       /\ vsp' = vsp - 1 /\ said' = Append(SubSeq(said, 1, vsp - 2), plain)
       /\ UNCHANGED <<label, holds>>
  ELSE Replace(IF op = "<?" /\ r.r = true_value THEN Keep(val_destroy(r.h, r.r), a) ELSE r, vsp - 1, plain)
Operate ==
  /\ Step /\ vsp > 1
  /\ \E op \in Operators \ {"in"}:
       LET a == values[vsp - 1]
           b == values[vsp]
       IN /\ Understood(op, said[vsp - 1], said[vsp])
          /\ Took(op, calc2(heap, op, a, b, IF op = "<?" THEN NoObject ELSE Sole(heap, a)), a, b,
                  ResultOf(op, said[vsp - 1], said[vsp]))

(* a in b: the loop takes it from the object on the right. *)
Search == /\ Step /\ vsp > 1 /\ "in" \in Operators /\ Searched(said[vsp - 1], said[vsp])
          /\ Replace(contains(heap, values[vsp - 1], values[vsp]), vsp - 1, FoundIn(said[vsp - 1], said[vsp]))

(* a[args]: the arguments are dropped when the result is there. *)
SlicedBy(w, i) == WithoutAll(slice(w.h, i, w.ids, 1, Sole(heap, i)), Reverse(w.ids))
Subscript ==
  /\ Step /\ vsp > 0
  /\ \E args \in Subscripts:
       /\ Subscripted(said[vsp], args, 1)
       /\ Replace(SlicedBy(WrittenAll(heap, args), values[vsp]), vsp, PartOf(said[vsp], args, 1))

(* The end of an expression: its value becomes that of a name. *)
Assign ==
  /\ Step /\ vsp = 1
  /\ \E n \in Names:
       /\ heap' = val_destroy(heap, label[n]) /\ label' = [label EXCEPT ![n] = values[1]]
       /\ holds' = [holds EXCEPT ![n] = said[1]]
  /\ values' = [values EXCEPT ![1] = NoObject] /\ vsp' = 0 /\ said' = <<>>

(* name op= value *)
Became(n, r) == heap' = val_destroy(val_destroy(r.h, values[1]), label[n]) /\ label' = [label EXCEPT ![n] = r.r]
Compound ==
  /\ Step /\ vsp = 1
  /\ \E n \in Names, op \in Operators \ {"in"}:
       LET a == label[n]
           b == values[1]
       IN /\ Understood(op, holds[n], said[1])
          /\ Became(n, Chosen(heap, op, calc2(heap, op, a, b, IF op = "<?" THEN NoObject ELSE Sole(heap, a)), a, b))
          /\ holds' = [holds EXCEPT ![n] = ResultOf(op, holds[n], said[1])]
  /\ values' = [values EXCEPT ![1] = NoObject] /\ vsp' = 0 /\ said' = <<>>

Next == Literal \/ Variable \/ MakeList \/ Negate \/ Operate \/ Search \/ Subscript \/ Assign \/ Compound
        \/ (steps = Steps /\ UNCHANGED vars)
Spec == Init /\ [][Next]_vars

-----------------------------------------------------------------------------
(* Properties. *)

(* Every slot and every name has the value that the operations give by     *)
(* their meaning: working in the memory of an operand is never seen by     *)
(* another holder of the operand or of its parts.                          *)
Means == /\ \A k \in 1..vsp: Meaning(heap, values[k]) = said[k]
         /\ \A n \in Names: Meaning(heap, label[n]) = holds[n]

(* The count of every object is the number of slots, names and objects     *)
(* that hold it (and more for those of the program), so that it lives as   *)
(* long as one of them and no longer.                                      *)
CountsExact ==
  \A i \in DOMAIN heap:
     heap[i].refs = Cardinality({k \in 1..Slots: values[k] = i}) + Cardinality({n \in Names: label[n] = i})
                    + (IF i \in DOMAIN Builtin THEN Builtin[i].refs ELSE 0)
                    + FoldFunction(LAMBDA o, n: n + Cardinality({k \in DOMAIN Parts(o): Parts(o)[k] = i}), 0, heap)

(* Each pair of a dictionary is found by the path of its key, which always *)
(* comes to an end, in a table that has every pair once.                   *)
KeysFound ==
  \A i \in DOMAIN heap: heap[i].kind = "dict" =>
     LET d == heap[i]
         places == {k \in DOMAIN d.index: d.index[k] # NoObject}
     IN /\ Len(d.pairs) <= d.max
        /\ Inline(d) => Len(d.pairs) <= 1
        /\ ~Inline(d) => Cardinality(places) = Len(d.pairs) /\ places # DOMAIN d.index
        /\ \A k \in DOMAIN d.pairs: /\ d.pairs[k].hash = hash(heap, d.pairs[k].key)
                                    /\ dict_lookup(heap, d, d.pairs[k].hash, d.pairs[k].key) = k

=============================================================================
