------------------------------- MODULE Tables -------------------------------
(***************************************************************************)
(* The passes over a source that has names, scopes and text encodings.     *)
(* Both kinds of tables outlive a pass, answer with what the pass before   *)
(* left in them, and together decide if there is another one.              *)
(***************************************************************************)
EXTENDS Encodings, Names

CONSTANT Sources  \* the sources: sequences of lines, of one statement each

VARIABLE source

vars == <<encodings, actual, efwcount, defs, texts, labels, spaces, stack, cheap, open, strength, fwcount, uses, marks,
          pass, fixeddig, constcreated, failed, done, steps, source>>

Init == RoundsInit /\ EncodingsInit /\ NamesInit /\ source \in Sources

-----------------------------------------------------------------------------
(* The statements.  A line is a record of one field, which is named for    *)
(* the statement.                                                          *)

Line == source[steps + 1]
Statement(kind) == Running(Len(source)) /\ kind \in DOMAIN Line /\ steps' = steps + 1 /\ UNCHANGED <<pass, done, source>>
OfEncodings(kind) == Statement(kind) /\ UNCHANGED <<naming, constcreated>>
OfNames(kind) == Statement(kind) /\ UNCHANGED tables

Cdef == OfEncodings("cdef") /\ cdef_command(Line.cdef)
Tdef == OfEncodings("tdef") /\ tdef_command(Line.tdef[1], Line.tdef[2])
Edef == OfEncodings("edef") /\ edef_command(Line.edef[1], Line.edef[2])
Enc == OfEncodings("enc") /\ enc_command(Line.enc)
Text == OfEncodings("text") /\ bytes_from_str(Line.text[1], Line.text[2])

Assign == OfNames("assign") /\ Constant(Line.assign[1], Line.assign[2])
Goal == OfNames("lbl") /\ Lbl(Line.lbl, steps)
AssignMember == OfNames("inside") /\ MemberConstant(Line.inside[1], Line.inside[2], Line.inside[3])
Var == OfNames("var") /\ Variable(Line.var[1], Line.var[2])
DefaultVar == OfNames("default") /\ Default(Line.default[1], Line.default[2])
Reassign == OfNames("change") /\ Reassigned(Line.change[1], Line.change[2])
Lab == OfNames("label") /\ Label(Line.label[1], Line.label[2])
Anon == OfNames("anon") /\ AnonLabel(Line.anon[1], Line.anon[2])
Here == OfNames("look") /\ Look(Line.look)
HereAnon == OfNames("count") /\ LookAnon(Line.count)
There == OfNames("member") /\ Member(Line.member[1], Line.member[2])
OpenBlock == OfNames("block") /\ (IF Line.block = <<>> THEN Block(steps) ELSE BlockNamed(Line.block[1], Line.block[2], steps))
OpenScope == OfNames("scope") /\ Scope(Line.scope, steps)
OpenAgain == OfNames("again") /\ ScopeAgain(Line.again, steps)
OpenWith == OfNames("with") /\ With(Line.with)
OpenWeak == OfNames("weak") /\ Weak
Ended == OfNames("end") /\ Close
\* Every source file starts with the encoding "none".
Following ==
  /\ Statement("file") /\ NextFile /\ actual' = "none"
  /\ UNCHANGED <<encodings, efwcount, defs, texts>>

\* A condition leaves the line out in this pass; + and - are counted all the same.
Skipped ==
  \/ Running(Len(source)) /\ "anon" \notin DOMAIN Line /\ steps' = steps + 1
     /\ UNCHANGED <<pass, done, source, tables, naming, fixeddig, constcreated, failed>>
  \/ OfNames("anon") /\ AnonSkipped(Line.anon[1])

\* What is open is closed at the end of a pass.
Closing == ~done /\ steps = Len(source) /\ Close /\ UNCHANGED <<tables, pass, done, steps, source>>

-----------------------------------------------------------------------------
(* The passes. *)

Forwards == fwcount # 0 \/ efwcount # 0

NextPass == ~done /\ open = <<>> /\ steps = Len(source) /\ Again(Forwards) /\ NamesAgain /\ EncodingsAgain /\ UNCHANGED source
LastPass == ~done /\ open = <<>> /\ steps = Len(source) /\ Enough(Forwards) /\ UNCHANGED <<naming, tables, source>>
Over == done /\ UNCHANGED vars

Next ==
  \/ Cdef \/ Tdef \/ Edef \/ Enc \/ Text
  \/ Assign \/ Goal \/ AssignMember \/ Var \/ DefaultVar \/ Reassign \/ Lab \/ Anon \/ Here \/ HereAnon \/ There
  \/ OpenBlock \/ OpenScope \/ OpenAgain \/ OpenWith \/ OpenWeak \/ Ended \/ Following
  \/ Skipped \/ Closing \/ NextPass \/ LastPass \/ Over

Spec == Init /\ [][Next]_vars

-----------------------------------------------------------------------------
(* Texts. *)

Settled == done /\ ~failed

RangesOf(e) ==
  {<<d.of[1], d.of[2], d.value[1].n % Codes>>: d \in {x \in defs: x.kind = "range" /\ x.enc = e}}
    \cup (IF e \in DOMAIN Predefined THEN ToSet(Predefined[e].ranges) ELSE {})
CodeOf(e, c) == LET r == CHOOSE x \in RangesOf(e): c \in x[1]..x[2] IN (r[3] + (c - r[1])) % Codes
ItemsOf(e, items) == [i \in 1..Len(items) |-> IF items[i].char THEN CodeOf(e, items[i].n) ELSE items[i].n]
EscapesOf(e) ==
  {<<d.of, ItemsOf(e, d.value)>>: d \in {x \in defs: x.kind = "escape" /\ x.enc = e}}
    \cup (IF e \in DOMAIN Predefined THEN {<<x[1], <<x[2]>> >>: x \in ToSet(Predefined[e].escapes)} ELSE {})

RECURSIVE Meaning(_, _)
\* The codes of a text: at each place the longest escape, or else the range of the character.
Meaning(e, s) ==
  LET fits == {x \in EscapesOf(e): IsPrefix(x[1], s)}
      best == CHOOSE x \in fits: \A y \in fits: Len(y[1]) <= Len(x[1])
  IN IF s = <<>> THEN <<>>
     ELSE IF fits # {} THEN best[2] \o Meaning(e, SubSeq(s, Len(best[1]) + 1, Len(s)))
     ELSE <<CodeOf(e, Head(s))>> \o Meaning(e, Tail(s))

\* A text has an escape in it that is left of an earlier pass (such a one is not used any
\* more, but hides shorter ones), or that came back after a pass without it (which nobody
\* notices, although the text may not have been encoded with it).
Unsteady(t) ==
  \E s \in {SubSeq(t.text, i, j): i, j \in 1..Len(t.text)} \ {<<>>}:
    \/ EscapeAt(encodings[t.enc], s).pass \notin {0, pass, Always}
    \/ \E d \in defs: d.late /\ d.enc = t.enc /\ d.of = s

\* When the passes are over, every text has the bytes that the definitions of the last
\* pass give it, also the texts that stood before them, with the longest escape first
\* (enc_string, enc_trans_add and enc_escape_add with efwcount and fixeddig). Only a text
\* with such an escape in it may have other bytes, whatever else comes and goes.
TextsSettle ==
  Settled =>
    \A t \in texts: ~Unsteady(t) =>
      t.bytes = (IF t.text = <<>> /\ t.mode \notin {"null", "ptext"} THEN <<>>
                 ELSE InMode(t.mode, Meaning(t.enc, t.text)).bytes)

\* The ranges of an encoding are balanced trees at all times, and every character is found
\* in the range that has it, also after ranges of an earlier pass were taken out
\* (avltree_insert and avltree_remove).
RangesFound ==
  \A e \in DOMAIN encodings:
    LET enc == encodings[e]
    IN /\ Balanced(enc.ranges)
       /\ DOMAIN enc.ranges.node = DOMAIN enc.trans
       /\ \A r \in DOMAIN enc.trans: \A c \in {r[1], r[2]}:
            avltree_lookup(enc.ranges, enc.ranges.root, Sides(enc, <<c, c>>)) = r

-----------------------------------------------------------------------------
(* Names. *)

\* What a name means by the definitions of the last pass alone: the least weak label in
\* the innermost of the places; variables count from their definition on.
Meant(u) ==
  LET LabelsAt(p) == {id \in ToSet(spaces[p[1]].data) \ {Missing}:
                        /\ labels[id].name = p[2] /\ labels[id].defpass = pass
                        /\ labels[id].constant \/ id \in u.vars}
      at == SelectSeq(u.places, LAMBDA p: LabelsAt(p) # {})
  IN IF at = <<>> THEN Missing
     ELSE CHOOSE id \in LabelsAt(at[1]): \A other \in LabelsAt(at[1]): labels[id].strength <= labels[other].strength

\* When the passes are over, every name that was looked up is the label that the last
\* pass defines for it, in whatever order, and its value was the final one
\* (namespace_lookup, fwcount, constcreated and the comparisons with usepass).
NamesSettle ==
  Settled => \A u \in uses: u.id = Meant(u) /\ (u.fixed => u.id # Missing /\ u.value = labels[u.id].value)

\* An anonymous label that was looked up is the one that many lines + or - of its scope
\* away, forward for + and backward for - (backr and forwr).
Nearest ==
  Settled => \A u \in uses:
    LET l == labels[u.id]
        ns == CHOOSE n \in DOMAIN spaces: u.id \in ToSet(spaces[n].data)
        Between(sign, from, to) == {m \in marks: m.ns = ns /\ m.sign = sign /\ m.at \in from..to}
    IN /\ l.name[1] = "+" => l.at > u.at /\ Cardinality(Between("+", u.at, l.at)) = u.count + 1
       /\ l.name[1] = "-" => l.at < u.at /\ Cardinality(Between("-", l.at, u.at)) = -u.count
=============================================================================
