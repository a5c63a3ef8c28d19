----------------------------- MODULE Encodings -----------------------------
(***************************************************************************)
(* The text encodings (encobj.c, encoding.c, the commands .enc, .cdef,     *)
(* .tdef and .edef of 64tass.c and the texts of bytesobj.c).  An encoding  *)
(* gives bytes to ranges of characters and to escapes, which are texts.    *)
(* Its definitions outlive the pass: a text may stand before them, and     *)
(* then has the bytes that the pass before gave.                           *)
(*                                                                         *)
(* A character is a number; those below Ascii take one byte of the text,   *)
(* have a place in a table of their own, and are never the first byte of   *)
(* another.  The others share the first byte Lead.                         *)
(***************************************************************************)
EXTENDS Trees, Rounds, SequencesExt, Functions

CONSTANTS Ascii,   \* the characters below are single bytes
          Bound,   \* bound: the encodings made by a program beside those built in
          Predefined  \* the ranges <<start, end, code>> and the escapes <<text, code>> of
                      \* the built-in encodings, by name

VARIABLES encodings,  \* the encoding of each name
          actual,     \* the name of actual_encoding
          efwcount,   \* what was read of the pass before and not defined again yet
          defs,       \* history: the ranges and escapes that the pass defines
          texts       \* history: the texts that the pass has converted

tables == <<encodings, actual, efwcount, defs, texts>>

Codes == 256
Always == 255    \* the pass of what is built in
Unknown == Codes + 63
Lead == 195
NoLead == 256
AnyLead == 257

LeadOf(c) == IF c < Ascii THEN c ELSE Lead
WidthOf(c) == IF c < Ascii THEN 1 ELSE 2
BytesIn(s) == FoldLeft(LAMBDA n, c: n + WidthOf(c), 0, s)

-----------------------------------------------------------------------------
(* Definitions.  They work on a record with the encoding, the two counters *)
(* of the pass that they change, whether an error was reported, and the    *)
(* answer of the operation.                                                *)

new_enc == [ranges |-> EmptyTree, trans |-> <<>>, escapes |-> <<>>, escape_char |-> NoLead,
            escape_length |-> 1000, epass |-> 0, map |-> [c \in 0..Ascii - 1 |-> [value |-> 0, pass |-> 0]]]

Work == [enc |-> encodings[actual], efw |-> efwcount, fixed |-> fixeddig, bad |-> FALSE, double |-> FALSE, now |-> pass]

\* The pass has to be repeated.
Moved(m) == [m EXCEPT !.bad = @ \/ TooLate(m.fixed), !.fixed = FALSE]
\* The answer to a reader before is not one of the pass before any more.
Answered(m, entry) == [m EXCEPT !.efw = IF entry.fwpass = m.now THEN @ - 1 ELSE @]

\* -1 for a range above the other, 1 for one below, 0 when they meet; the larger one is
\* found on the right of a node.
trans_compare(a, b) == IF a[1] > b[2] THEN -1 ELSE IF a[2] < b[1] THEN 1 ELSE 0
Sides(enc, range) == [x \in DOMAIN enc.trans |-> -trans_compare(x, range)]

\* Mutant: codes that differ from those of the pass before are no reason for another.
TransAgainSilently(m, range, offset) ==
  LET old == m.enc.trans[range]
      renewed == Answered([m EXCEPT !.enc.trans[range].pass = m.now], old)
  IN IF old.pass >= m.now THEN [m EXCEPT !.double = old.offset # offset]
     ELSE [renewed EXCEPT !.enc.trans[range].offset = offset]

\* The codes of a range that there is already: of this pass they have to be the same.
TransAgain(m, range, offset) ==
  LET old == m.enc.trans[range]
      renewed == Answered([m EXCEPT !.enc.trans[range].pass = m.now], old)
  IN IF old.pass >= m.now THEN [m EXCEPT !.double = old.offset # offset]
     ELSE IF old.offset = offset THEN renewed
     ELSE Moved([renewed EXCEPT !.enc.trans[range].offset = offset])

RECURSIVE enc_trans_add(_, _, _)
\* The codes from offset for a range; ranges of the pass before in its way are dropped,
\* those of this pass are an error.
AddRange(m, b, range, offset) ==
  LET old == m.enc.trans[b.found]
  IN CASE b.found = Null ->
            Moved([m EXCEPT !.enc.ranges = b.tree,
                            !.enc.trans = @ @@ (range :> [offset |-> offset, pass |-> m.now, fwpass |-> 0]),
                            !.double = FALSE])
       [] b.found = range -> TransAgain([m EXCEPT !.double = FALSE], range, offset)
       [] b.found \notin {Null, range} /\ old.pass >= m.now -> [m EXCEPT !.double = TRUE]
       [] OTHER -> enc_trans_add(Answered([m EXCEPT !.enc.ranges = avltree_remove(@, b.found),
                                                    !.enc.trans = [r \in DOMAIN @ \ {b.found} |-> @[r]]], old),
                                 range, offset)
enc_trans_add(m, range, offset) == AddRange(m, avltree_insert(m.enc.ranges, range, Sides(m.enc, range)), range, offset)

\* The entry of an escape that has no value yet.
NoEscape == [code |-> <<>>, pass |-> 0, fwpass |-> 0]
EscapeAt(enc, s) ==
  LET found == ternary_search(enc.escapes, s)
  IN IF enc.escapes # <<>> /\ found.len = Len(s) /\ found.data # <<>> THEN found.data[1] ELSE NoEscape
WithEscape(m, s, e) == [m EXCEPT !.enc.escapes = ternary_insert(@, s, e)]

-----------------------------------------------------------------------------
(* Texts. *)

\* An entry answers in the pass that made it and in the next one; in a pass that will be
\* repeated anyway, always.
Answers(m, entry) == entry.pass >= m.now \/ ~m.fixed \/ entry.pass = m.now - 1
Ahead(m, entry) == entry.pass = m.now - 1 /\ entry.fwpass # m.now

\* The readers of the pass before are counted, once for each entry.
Counted(m, entry) == [m EXCEPT !.efw = IF Ahead(m, entry) THEN @ + 1 ELSE @]
Noted(m, entry) == [entry EXCEPT !.fwpass = IF Ahead(m, entry) THEN m.now ELSE @]

\* The escape at the start of a text, if there can be one.
EscapeOf(enc, s) ==
  IF enc.escape_char \in {LeadOf(Head(s)), AnyLead} /\ BytesIn(s) >= enc.escape_length
  THEN ternary_search(enc.escapes, s)
  ELSE [data |-> <<>>, len |-> 0]

\* The code of character c in the range found for it.
CodeIn(enc, range, c) == (c - range[1] + enc.trans[range].offset) % Codes

Remembered(m, range, c) ==
  IF c < Ascii THEN [m EXCEPT !.enc.map[c] = [value |-> CodeIn(m.enc, range, c), pass |-> m.enc.trans[range].pass]]
  ELSE m

\* One character: its place in the table, else its range, else an error and a code that
\* is none, reported once in a pass.
Translated(m, c) ==
  LET range == avltree_lookup(m.enc.ranges, m.enc.ranges.root, Sides(m.enc, <<c, c>>))
      entry == m.enc.trans[range]
  IN IF c < Ascii /\ m.enc.map[c].pass >= m.now THEN [m |-> m, code |-> m.enc.map[c].value]
     ELSE IF range # Null /\ (range # Null => Answers(m, entry))
     THEN [m |-> Remembered([Counted(m, entry) EXCEPT !.enc.trans[range] = Noted(m, entry)], range, c),
           code |-> CodeIn(m.enc, range, c)]
     ELSE [m |-> [m EXCEPT !.bad = TRUE, !.enc.epass = m.now], code |-> Unknown]

RECURSIVE enc_string(_, _, _)
\* The codes of text s are added to out.
enc_string(m, s, out) ==
  IF s = <<>> THEN [m |-> m, out |-> out]
  ELSE LET e == EscapeOf(m.enc, s)
           entry == e.data[1]
           known == e.data # <<>> /\ (e.data # <<>> => entry.pass > 0 /\ Answers(m, entry))
           c == Translated(m, Head(s))
       IN IF known
          THEN enc_string(IF Ahead(m, entry) THEN WithEscape(Counted(m, entry), SubSeq(s, 1, e.len), Noted(m, entry)) ELSE m,
                          SubSeq(s, e.len + 1, Len(s)), out \o entry.code)
          ELSE enc_string(c.m, Tail(s), Append(out, c.code))

\* What the codes become for .text, .ptext, .null, .shift and .shiftl
InMode(mode, codes) ==
  LET n == Len(codes)
      byte == [i \in 1..n |-> codes[i] % Codes]
      high == \E i \in 1..n: (codes[i] \div 128) % 2 = 1
      LastOdd(s, bit) == [s EXCEPT ![n] = @ + bit]
  IN CASE mode = "text" -> [bad |-> FALSE, bytes |-> byte]
       [] mode = "ptext" -> [bad |-> n + 1 > Codes, bytes |-> <<n % Codes>> \o byte]
       [] mode = "null" -> [bad |-> \E i \in 1..n: codes[i] = 0, bytes |-> Append(byte, 0)]
       [] mode = "shift" ->
            [bad |-> high \/ n = 0, bytes |-> IF n = 0 THEN <<>> ELSE LastOdd([i \in 1..n |-> byte[i] % 128], 128)]
       [] mode = "shiftl" ->
            [bad |-> high \/ n = 0, bytes |-> IF n = 0 THEN <<>> ELSE LastOdd([i \in 1..n |-> (2 * byte[i]) % Codes], 1)]

-----------------------------------------------------------------------------
(* The value of an escape is a list of numbers and of characters, which    *)
(* are encoded; the escape itself is not known while that is done.         *)

ItemCode(at, item) ==
  LET c == enc_string(at.m, <<item.n>>, <<>>)
  IN IF item.char THEN [m |-> c.m, code |-> Append(at.code, c.out[1] % Codes)]
     ELSE [at EXCEPT !.code = Append(@, item.n)]

Escaped(m, s, old, value) ==
  LET new == [code |-> value.code, pass |-> m.now, fwpass |-> 0]
      kept == WithEscape(value.m, s, old)
      again == Answered(WithEscape(value.m, s, [old EXCEPT !.pass = m.now, !.code = value.code]), old)
  IN CASE old.pass = 0 ->
            Moved([WithEscape(value.m, s, new) EXCEPT
                     !.enc.escape_length = IF BytesIn(s) < @ THEN BytesIn(s) ELSE @,
                     !.enc.escape_char = IF @ \in {NoLead, LeadOf(s[1])} THEN LeadOf(s[1]) ELSE AnyLead,
                     !.double = FALSE])
       [] old.pass \in {m.now, Always} -> [kept EXCEPT !.double = old.code # value.code]
       [] OTHER -> [(IF old.code = value.code THEN again ELSE Moved(again)) EXCEPT !.double = FALSE]
enc_escape_add(m, s, items) ==
  Escaped(m, s, EscapeAt(m.enc, s), FoldLeft(ItemCode, [m |-> WithEscape(m, s, NoEscape), code |-> <<>>], items))

-----------------------------------------------------------------------------
(* Commands. *)

\* add_esc and add_trans: what is built in belongs to every pass.
add_esc(m, e) ==
  [WithEscape(m, e[1], [code |-> <<e[2]>>, pass |-> Always, fwpass |-> 0]) EXCEPT
     !.enc.escape_char = LeadOf(e[1][1]), !.enc.escape_length = IF @ > BytesIn(e[1]) THEN BytesIn(e[1]) ELSE @]
add_trans(m, r) == enc_trans_add(m, <<r[1], r[2]>>, r[3])

enc_from_name(name) ==
  LET empty == [enc |-> new_enc, efw |-> 0, fixed |-> FALSE, bad |-> FALSE, double |-> FALSE, now |-> Always]
  IN IF name \notin DOMAIN Predefined THEN new_enc
     ELSE FoldLeft(add_trans, FoldLeft(add_esc, empty, Predefined[name].escapes), Predefined[name].ranges).enc

\* The result of a command: an error ends it, as m.double does.
Commit(m) ==
  /\ encodings' = [encodings EXCEPT ![actual] = m.enc]
  /\ efwcount' = m.efw
  /\ fixeddig' = m.fixed
  /\ failed' = (failed \/ m.bad \/ m.double)

\* A command ends at the first definition in the way of another.
Until(m, step) == IF m.double THEN m ELSE step

\* An entry of the history; late: an escape that comes back after a pass without it.
Def(kind, of, value) ==
  [enc |-> actual, kind |-> kind, of |-> of, value |-> value,
   late |-> kind = "escape" /\ EscapeAt(encodings[actual], of).pass \in 1..pass - 2]
Number(n) == [char |-> FALSE, n |-> n]
Ordered(d) == IF d[1] > d[2] THEN <<d[2], d[1]>> ELSE <<d[1], d[2]>>

\* .cdef with triples of the first and the last character and a code; 256 is not found
\* to be too large for the last character.
CdefOne(m, d) ==
  LET range == Ordered(d)
      last == d[3] + range[2] - range[1]
  IN Until(m, [enc_trans_add(m, range, d[3]) EXCEPT !.bad = @ \/ last > Codes])

cdef_command(triples) ==
  /\ Commit(FoldLeft(CdefOne, Work, triples))
  /\ defs' = defs \cup {Def("range", Ordered(d), <<Number(d[3])>>): d \in ToSet(triples)}
  /\ UNCHANGED <<actual, texts>>

\* .tdef with characters and one code to count from, or a code for each; a pair that is
\* left over is an error, and all pairs are done.
TdefOne(m, p) ==
  LET added == enc_trans_add(m, <<p[1], p[1]>>, p[2] % Codes)
  IN [added EXCEPT !.double = @ \/ m.double]

tdef_command(chars, codes) ==
  LET n == IF Len(codes) = 1 \/ Len(chars) < Len(codes) THEN Len(chars) ELSE Len(codes)
      pairs == [i \in 1..n |-> <<chars[i], IF Len(codes) = 1 THEN codes[1] + i - 1 ELSE codes[i]>>]
  IN /\ Commit([FoldLeft(TdefOne, Work, pairs) EXCEPT !.bad = @ \/ (Len(codes) > 1 /\ Len(chars) # Len(codes))
                                                             \/ (n > 0 /\ pairs[n][2] + 1 > Codes)])
     /\ defs' = defs \cup {Def("range", <<p[1], p[1]>>, <<Number(p[2])>>): p \in ToSet(pairs)}
     /\ UNCHANGED <<actual, texts>>

\* .edef; giving several bytes to a built-in escape is undefined behaviour (the byte of
\* the escape is taken for a structure) and left out.
edef_command(s, items) ==
  /\ LET old == EscapeAt(encodings[actual], s) IN s # <<>> /\ old.pass = Always => Len(items) = 1
  /\ IF s = <<>> THEN Commit([Work EXCEPT !.bad = TRUE]) ELSE Commit(enc_escape_add(Work, s, items))
  /\ defs' = defs \cup {Def("escape", s, items)}
  /\ UNCHANGED <<actual, texts>>

\* .enc with a name: an unknown one makes a new encoding.
enc_command(name) ==
  /\ name \in DOMAIN encodings \/ Cardinality(DOMAIN encodings) < Bound
  /\ encodings' = IF name \in DOMAIN encodings THEN encodings ELSE encodings @@ (name :> enc_from_name(name))
  /\ actual' = name
  /\ UNCHANGED <<efwcount, defs, texts, fixeddig, failed>>

\* .text and its kind with one text
Written(mode, s, m, made) ==
  /\ Commit([m EXCEPT !.bad = @ \/ made.bad])
  /\ texts' = texts \cup {[enc |-> actual, mode |-> mode, text |-> s, bytes |-> made.bytes]}
AsBytes(mode, s, read) ==
  Written(mode, s, read.m, IF s = <<>> /\ mode \in {"text", "shift", "shiftl"} THEN [bad |-> mode # "text", bytes |-> <<>>]
                           ELSE InMode(mode, read.out))
bytes_from_str(mode, s) == AsBytes(mode, s, enc_string(Work, s, <<>>)) /\ UNCHANGED <<actual, defs>>

EncodingsInit ==
  /\ encodings = [n \in {"none"} |-> enc_from_name("none")]
  /\ actual = "none"
  /\ efwcount = 0 /\ defs = {} /\ texts = {}

\* one_pass starts with the encoding "none".
EncodingsAgain ==
  /\ actual' = "none" /\ efwcount' = 0 /\ defs' = {} /\ texts' = {}
  /\ UNCHANGED encodings
=============================================================================
