------------------------------- MODULE Names -------------------------------
(***************************************************************************)
(* The names of a program (variables.c, the members of namespaceobj.c and  *)
(* the commands of 64tass.c that define names and open scopes).  A name    *)
(* space is a hash table of labels that is never cleared: a label stays    *)
(* when its pass is over, and is not seen any more when the next passes do *)
(* not define it again.  A name is looked for in the name spaces of the    *)
(* context stack, from the innermost.                                      *)
(*                                                                         *)
(* A label is known by its place in the sequence labels, and the name      *)
(* space of a scope by the label of the scope; the first is Root.  A name  *)
(* is a pair of a word and a number: the number counts the anonymous       *)
(* labels + and -, tells the places of unnamed scopes apart, and is 0      *)
(* otherwise.  Names with upper and lower case, diagnostics (shadowing,    *)
(* case) and the positions of the labels are left out.                     *)
(***************************************************************************)
EXTENDS Rounds, SequencesExt, FiniteSetsExt

CONSTANTS Buckets,   \* the size of a new hash table
          str_hash,  \* the hash of a name
          Cheap      \* the words that start with an underscore

VARIABLES labels,    \* the labels of all name spaces
          spaces,    \* the name spaces: the hash table, and the numbers of - and + passed
          stack,     \* context_stack
          cheap,     \* cheap_context, the name space of the last label
          open,      \* what has to be closed
          strength,  \* 0, and one more in each .weak
          fwcount,   \* labels read of the pass before and not defined again yet
          uses,      \* history: the names that the pass has looked up
          marks      \* history: the lines + and - of the pass, in each name space
naming == <<labels, spaces, stack, cheap, open, strength, fwcount, uses, marks>>

Root == 1
Missing == 0
Contexts == [i \in 1..Len(stack) |-> stack[i].normal]
Current == Last(stack).normal
NewSpace == [data |-> <<>>, backr |-> 0, forwr |-> 0]
NoLabel == [name |-> <<"", 0>>, strength |-> 0, kind |-> "none", value |-> 0, constant |-> TRUE, defpass |-> 0,
            usepass |-> 0, fwpass |-> 0, at |-> 0]

-----------------------------------------------------------------------------
(* The hash table of a name space: places that hold a label or Missing.    *)
(* The operators work on a record of what a statement changes; strong is   *)
(* the strength of the labels that it makes.                               *)

Now == [labels |-> labels, spaces |-> spaces, fw |-> fwcount, fixed |-> fixeddig, created |-> constcreated,
         bad |-> FALSE, uses |-> {}]

RECURSIVE Walk(_, _, _, _)
\* The labels passed from place at on, up to a free place.
Walk(data, at, h, passed) ==
  IF data[at + 1] = Missing THEN [free |-> at + 1, passed |-> passed]
  ELSE Walk(data, ((5 * at) + (h \div 32) + 1) % Len(data), h \div 32, Append(passed, data[at + 1]))

Chain(data, name) == Walk(data, str_hash[name] % Len(data), str_hash[name], <<>>)
Kept(data) == SelectSeq(data, LAMBDA id: id # Missing)

EmptyTable(n) == [i \in 1..n |-> Missing]

\* The table of twice the size, with the labels put in anew.
Grown(w, data) ==
  LET PutIn(d, id) == [d EXCEPT ![Chain(d, w.labels[id].name).free] = id]
  IN FoldLeft(PutIn, EmptyTable(Len(data)) \o EmptyTable(IF data = <<>> THEN Buckets ELSE Len(data)), Kept(data))

NameFits(w, data, name) == SelectSeq(Chain(data, name).passed, LAMBDA id: w.labels[id].name = name)

\* namespace_update: the label of a name and a strength, or the table with the new one.
Updated(w, data, name, strong, new) ==
  LET same == SelectSeq(NameFits(w, data, name), LAMBDA id: w.labels[id].strength = strong)
  IN IF same # <<>> THEN [found |-> same[1], data |-> data]
     ELSE [found |-> Missing, data |-> [data EXCEPT ![Chain(data, name).free] = new]]
namespace_update(w, data, name, strong, new) ==
  LET full == (Len(Kept(data)) * 3) \div 2 >= (IF data = <<>> THEN 0 ELSE Len(data) - 1)
  IN Updated(w, IF full THEN Grown(w, data) ELSE data, name, strong, new)

\* A label is seen in the pass that defines it, and a constant in the next pass too, or
\* for as long as there will be another pass.
Seen(w, l) == l.defpass = pass \/ (l.constant /\ (~w.fixed \/ l.defpass = pass - 1))

\* namespace_lookup: the seen label of a name that is the least weak.
namespace_lookup(w, ns, name) ==
  LET data == w.spaces[ns].data
      fits == SelectSeq(NameFits(w, data, name), LAMBDA id: Seen(w, w.labels[id]))
      Stronger(best, id) == IF best = Missing \/ (best # Missing => w.labels[id].strength < w.labels[best].strength)
                            THEN id ELSE best
  IN IF data = <<>> THEN Missing ELSE FoldLeft(Stronger, Missing, fits)

\* Mutant: a label of the pass before is found without being counted.
FoundUncounted(w, id) == w

\* A label of the pass before is counted when it is found, once.
Early(l) == l.constant /\ l.defpass = pass - 1 /\ l.fwpass # pass
Found(w, id) ==
  IF id = Missing \/ (id # Missing => ~Early(w.labels[id])) THEN w
  ELSE [w EXCEPT !.labels[id].fwpass = pass, !.fw = @ + 1]

\* The first of the places <<name space, name>> where there is a label: find_label goes
\* through the contexts, find_label2 looks in one.
First(w, places) ==
  LET found == SelectSeq(places, LAMBDA p: namespace_lookup(w, p[1], p[2]) # Missing)
  IN IF found = <<>> THEN Missing ELSE namespace_lookup(w, found[1][1], found[1][2])

find_label(contexts, name) == [i \in 1..Len(contexts) |-> <<Reverse(contexts)[i], name>>]
find_label2(ns, name) == << <<ns, name>> >>
Named(name) == IF name[1] \in Cheap THEN find_label2(cheap, name) ELSE find_label(Contexts, name)

\* The name that an anonymous label has in a context: -1 is the last - passed, 0 the
\* next +.
AnonName(s, count) == IF count < 0 THEN <<"-", s.backr + count>> ELSE <<"+", s.forwr + count>>
find_anonlabel2(ns, count) ==
  IF count < 0 /\ spaces[ns].backr < -count THEN <<>> ELSE << <<ns, AnonName(spaces[ns], count)>> >>
find_anonlabel(count) == FlattenSeq([i \in 1..Len(stack) |-> find_anonlabel2(Reverse(Contexts)[i], count)])

-----------------------------------------------------------------------------
(* Reading a name. *)

\* The entry of the history: the variables of this pass are seen from their definition on.
Use(w, places, id, count) ==
  [places |-> places, id |-> id, count |-> count, at |-> steps, value |-> IF id = Missing THEN 0 ELSE w.labels[id].value,
   fixed |-> id # Missing /\ (id # Missing => w.labels[id].constant),
   vars |-> {v \in DOMAIN w.labels: ~w.labels[v].constant /\ w.labels[v].defpass = pass}]

\* The label found is touched.  A name that is not found is an error, unless constants
\* were made in this pass.
ReadLabel(w, places, id, count) ==
  LET found == Found(w, id)
      used == [found EXCEPT !.uses = @ \cup {Use(w, places, id, count)}]
  IN [id |-> id,
      w |-> IF id # Missing THEN [used EXCEPT !.labels[id].usepass = pass]
            ELSE [used EXCEPT !.bad = @ \/ ~(w.created /\ pass < MaxPass)]]
Read(w, places, count) == ReadLabel(w, places, First(w, places), count)

\* get_namespace: the name space of what was read; anything else is an error, nothing is
\* none_value, which is reported elsewhere.
IsScope(r) == r.id # Missing /\ (r.id # Missing => r.w.labels[r.id].kind \in {"code", "scope"})
NoScope(r) == [r.w EXCEPT !.bad = @ \/ r.id # Missing]

Become(w) ==
  /\ labels' = w.labels /\ spaces' = w.spaces /\ fwcount' = w.fw
  /\ fixeddig' = w.fixed /\ constcreated' = w.created /\ failed' = (failed \/ w.bad)
  /\ uses' = uses \cup w.uses

\* A name in an expression
Look(name) == Become(Read(Now, Named(name), 0).w) /\ UNCHANGED <<stack, cheap, open, strength, marks>>
\* + and - in an expression
LookAnon(count) == Become(Read(Now, find_anonlabel(count), count).w) /\ UNCHANGED <<stack, cheap, open, strength, marks>>

\* scope.name, with namespace_member
ReadMember(outer, name) == IF IsScope(outer) THEN Read(outer.w, find_label2(outer.id, name), 0).w ELSE NoScope(outer)
Member(scope, name) ==
  /\ Become(ReadMember(Read(Now, Named(scope), 0), name))
  /\ UNCHANGED <<stack, cheap, open, strength, marks>>

-----------------------------------------------------------------------------
(* Definitions. *)

\* new_label: the label of a name in a name space, old or new.
Entered(w, ns, name, u) ==
  LET none == [NoLabel EXCEPT !.name = name, !.strength = strength, !.defpass = pass]
      grown == [w EXCEPT !.spaces[ns].data = u.data]
  IN IF u.found # Missing THEN [id |-> u.found, exists |-> TRUE, w |-> grown]
     ELSE [id |-> Len(w.labels) + 1, exists |-> FALSE,
           w |-> [grown EXCEPT !.labels = Append(@, none), !.spaces = Append(@, NewSpace)]]
new_label(w, ns, name) ==
  Entered(w, ns, name, namespace_update(w, w.spaces[ns].data, name, strength, Len(w.labels) + 1))

TooLateCreated(w) == ~w.created /\ pass > MaxPass
\* A constant that is new in this pass makes another one necessary.
Created(w) == [w EXCEPT !.created = TRUE, !.bad = @ \/ TooLateCreated(w)]
Discharged(w, old) == IF old.fwpass = pass THEN [w EXCEPT !.fw = @ - 1] ELSE w
Revived(w, old) == IF old.defpass # pass - 1 THEN Created(w) ELSE w

Double(w) == [w EXCEPT !.bad = TRUE]
Changed(w) == [w EXCEPT !.bad = @ \/ TooLate(w.fixed), !.fixed = FALSE]

\* const_assign: a change is noted when the label was read before in this pass.
const_assign(w, id, kind, value) ==
  LET old == w.labels[id]
      now == [w EXCEPT !.labels[id].defpass = pass, !.labels[id].kind = kind, !.labels[id].value = value,
                       !.labels[id].at = steps]
  IN IF w.fixed /\ old.usepass >= pass /\ ~(old.kind = kind /\ old.value = value) THEN Changed(now) ELSE now

Bind(w, id, kind, value) ==
  [w EXCEPT !.labels[id].kind = kind, !.labels[id].value = value, !.labels[id].constant = TRUE,
            !.labels[id].defpass = pass, !.labels[id].at = steps]

\* The label of a constant
AssignedTo(n, kind, value) ==
  LET old == n.w.labels[n.id]
  IN CASE ~n.exists -> Created(Bind(n.w, n.id, kind, value))
       [] n.exists /\ old.defpass = pass -> Double(n.w)
       [] OTHER -> const_assign([Revived(Discharged(n.w, old), old) EXCEPT !.labels[n.id].constant = TRUE],
                                n.id, kind, value)
Assigned(w, ns, name, kind, value) == AssignedTo(new_label(w, ns, name), kind, value)

Space(name) == IF name[1] \in Cheap THEN cheap ELSE Current

\* name = value
Constant(name, value) ==
  /\ Become(Assigned(Now, Space(name), name, "const", value))
  /\ UNCHANGED <<stack, cheap, open, strength, marks>>

\* name .lbl: the value is the place of the line, for .goto.
Lbl(name, place) ==
  /\ Become(Assigned(Now, Space(name), name, "lbl", place))
  /\ UNCHANGED <<stack, cheap, open, strength, marks>>

\* scope.name = value: the scope has to be there.
AssignedIn(outer, name, value) ==
  IF IsScope(outer) THEN Assigned(outer.w, outer.id, name, "const", value) ELSE NoScope(outer)
MemberConstant(scope, name, value) ==
  /\ Become(AssignedIn(Read(Now, Named(scope), 0), name, value))
  /\ UNCHANGED <<stack, cheap, open, strength, marks>>

\* name := value
VariableTo(n, value) ==
  [n.w EXCEPT !.labels[n.id] =
     [@ EXCEPT !.constant = FALSE, !.kind = "const", !.value = value, !.defpass = pass, !.usepass = 0, !.at = steps]]
ByPass(n) == n.exists /\ n.w.labels[n.id].defpass = pass
VariableSet(n, value) == IF ByPass(n) /\ n.w.labels[n.id].constant THEN Double(n.w) ELSE VariableTo(n, value)
Variable(name, value) ==
  /\ Become(VariableSet(new_label(Now, Space(name), name), value))
  /\ UNCHANGED <<stack, cheap, open, strength, marks>>

\* name :?= value defines the variable unless this pass has it already; a constant is an
\* error.
VariableUnlessSet(n, value) ==
  IF ~ByPass(n) THEN VariableTo(n, value) ELSE IF n.w.labels[n.id].constant THEN Double(n.w) ELSE n.w
Default(name, value) ==
  /\ Become(VariableUnlessSet(new_label(Now, Space(name), name), value))
  /\ UNCHANGED <<stack, cheap, open, strength, marks>>

\* name ::= value changes the variable that is seen; a constant is an error.
Reassigned(name, value) ==
  LET id == First(Now, Named(name))
      w == Found(Now, id)
  IN /\ Become(IF id = Missing THEN [w EXCEPT !.bad = ~(w.created /\ pass < MaxPass)]
               ELSE IF w.labels[id].constant THEN [w EXCEPT !.bad = TRUE]
               ELSE [w EXCEPT !.labels[id].value = value, !.labels[id].usepass = 0])
     /\ UNCHANGED <<stack, cheap, open, strength, marks>>

\* update_code: the label is bound again to its code, and its scope starts anew.
update_code(w, id, value) ==
  LET old == w.labels[id]
      now == [Bind(w, id, "code", value) EXCEPT !.spaces[id].backr = 0, !.spaces[id].forwr = 0]
  IN IF old.value # value /\ old.usepass >= pass THEN Changed(now) ELSE now

\* A label in front of code; its name is looked for first, as it might be a macro.
LabelledAs(n, value) ==
  LET old == n.w.labels[n.id]
      ready == Discharged(Revived(n.w, old), old)
  IN [id |-> n.id, double |-> n.exists /\ old.defpass = pass,
      w |-> CASE ~n.exists -> Created(Bind(n.w, n.id, "code", value))
              [] n.exists /\ old.defpass = pass -> Double(n.w)
              [] n.exists /\ old.defpass # pass /\ old.kind = "code" -> update_code(ready, n.id, value)
              [] OTHER -> [Bind(ready, n.id, "code", value) EXCEPT !.spaces[n.id] = NewSpace]]

Labelled(w, ns, name, value) == LabelledAs(new_label(w, ns, name), value)
LabelNamed(name, value) == Labelled(Found(Now, First(Now, Named(name))), Space(name), name, value)

\* The labels after it with an underscore are its own.
Placed(l, name) == Become(l.w) /\ cheap' = IF l.double \/ name[1] \in Cheap THEN cheap ELSE l.id
Label(name, value) == Placed(LabelNamed(name, value), name) /\ UNCHANGED <<stack, open, strength, marks>>

\* The lines + and -, which count also where nothing is assembled
Passed(sign) ==
  IF sign = "-" THEN [Now EXCEPT !.spaces[Current].backr = @ + 1] ELSE [Now EXCEPT !.spaces[Current].forwr = @ + 1]
Mark(sign) ==
  /\ marks' = marks \cup {[ns |-> Current, sign |-> sign, at |-> steps]}
  /\ UNCHANGED <<stack, cheap, open, strength>>

AnonLabel(sign, value) ==
  LET number == IF sign = "-" THEN spaces[Current].backr ELSE spaces[Current].forwr
  IN Become(Labelled(Passed(sign), Current, <<sign, number>>, value).w) /\ Mark(sign)

\* Mutant: only the lines that are assembled count.
AnonSkippedUncounted(sign) == Become(Now) /\ Mark(sign)
AnonSkipped(sign) == Become(Passed(sign)) /\ Mark(sign)

-----------------------------------------------------------------------------
(* Scopes. *)

push_context(ns) ==
  /\ stack' = Append(stack, [normal |-> ns, cheap |-> cheap])
  /\ cheap' = ns
  /\ open' = Append(open, "scope")
  /\ UNCHANGED <<strength, marks>>

pop_context ==
  /\ cheap' = Last(stack).cheap
  /\ stack' = Front(stack)

\* anonlabel: the scope of an unnamed block, known by its place; it is no reason for
\* another pass.
ScopeFor(n) ==
  LET old == n.w.labels[n.id]
      ready == IF old.defpass = pass THEN Double(n.w) ELSE Discharged(n.w, old)
      bound == Bind(IF n.exists THEN ready ELSE n.w, n.id, "scope", 0)
  IN [id |-> n.id, w |-> [bound EXCEPT !.spaces[n.id].backr = 0, !.spaces[n.id].forwr = 0]]
anonlabel(w, place) == ScopeFor(new_label(w, Current, <<".", place>>))

Enter(b) == Become(b.w) /\ push_context(b.id)

\* .block without a label, and with one
Block(place) == Enter(anonlabel(Now, place))
BlockOf(l, place) == IF l.double THEN anonlabel(l.w, place) ELSE l
BlockNamed(name, value, place) == Enter(BlockOf(LabelNamed(name, value), place))

\* .namespace with a name of its own; without it when that is taken.
NewScope(n, place) ==
  LET old == n.w.labels[n.id]
      ready == Revived(Discharged(n.w, old), old)
      bound == Bind(IF n.exists THEN ready ELSE Created(n.w), n.id, "scope", 0)
      fresh == IF n.exists /\ old.kind # "scope" THEN NewSpace ELSE [n.w.spaces[n.id] EXCEPT !.backr = 0, !.forwr = 0]
  IN IF ByPass(n) THEN anonlabel(Double(n.w), place) ELSE [id |-> n.id, w |-> [bound EXCEPT !.spaces[n.id] = fresh]]
Scope(name, place) == Enter(NewScope(new_label(Now, Current, name), place))

\* .namespace with a scope goes on with it.
ScopeOf(outer, place) == IF IsScope(outer) THEN outer ELSE anonlabel(NoScope(outer), place)
ScopeAgain(scope, place) == Enter(ScopeOf(Read(Now, Named(scope), 0), place))

\* .with puts a scope behind the innermost.
WithScope(outer) ==
  /\ Become(IF IsScope(outer) THEN outer.w ELSE NoScope(outer))
  /\ stack' = IF ~IsScope(outer) THEN stack
              ELSE Front(stack) \o <<[Last(stack) EXCEPT !.normal = outer.id], [normal |-> Current, cheap |-> outer.id]>>
  /\ open' = Append(open, IF IsScope(outer) THEN "with" ELSE "nothing")
With(scope) == WithScope(Read(Now, Named(scope), 0)) /\ UNCHANGED <<cheap, strength, marks>>

Weak ==
  /\ strength' = strength + 1 /\ open' = Append(open, "weak")
  /\ UNCHANGED <<labels, spaces, stack, cheap, fwcount, uses, marks, fixeddig, constcreated, failed>>

\* pop_context2, pop_context and .endweak
CloseOne(what) ==
  \/ /\ what = "with"
     /\ stack' = Append(Front(Front(stack)), [stack[Len(stack) - 1] EXCEPT !.normal = Current])
     /\ UNCHANGED <<cheap, strength>>
  \/ what = "scope" /\ pop_context /\ UNCHANGED strength
  \/ what = "weak" /\ strength' = strength - 1 /\ UNCHANGED <<stack, cheap>>
  \/ what = "nothing" /\ UNCHANGED <<stack, cheap, strength>>

Close ==
  /\ open # <<>> /\ CloseOne(Last(open)) /\ open' = Front(open)
  /\ UNCHANGED <<labels, spaces, fwcount, uses, marks, fixeddig, constcreated, failed>>

\* reset_context, before every source file
reset_context ==
  /\ stack' = << [normal |-> Root, cheap |-> Root] >> /\ cheap' = Root
  /\ spaces' = [spaces EXCEPT ![Root].backr = 0, ![Root].forwr = 0]

NextFile ==
  /\ open = <<>> /\ reset_context
  /\ UNCHANGED <<labels, open, strength, fwcount, uses, marks, fixeddig, constcreated, failed>>

NamesInit ==
  /\ labels = <<NoLabel>> /\ spaces = <<NewSpace>>
  /\ stack = << [normal |-> Root, cheap |-> Root] >> /\ cheap = Root
  /\ open = <<>> /\ strength = 0 /\ fwcount = 0 /\ uses = {} /\ marks = {}

NamesAgain ==
  /\ reset_context
  /\ strength' = 0 /\ fwcount' = 0 /\ uses' = {} /\ marks' = {}
  /\ UNCHANGED <<labels, open>>
=============================================================================
