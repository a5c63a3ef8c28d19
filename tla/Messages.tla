------------------------------ MODULE Messages ------------------------------
(***************************************************************************)
(* The messages of a pass (error.c).                                       *)
(*                                                                         *)
(* Messages are kept in a list from the start of a pass (error_reset), and *)
(* only those of the last pass are shown, at the end (error_print).  The   *)
(* last one stays open until the next one comes, so that its text may      *)
(* grow; when it is closed it is dropped, with the notes that follow it,   *)
(* if it was there before.  A message is at a line of a node of the tree   *)
(* of included files and called macros, which is kept through all passes,  *)
(* and it has the text of the line if a macro parameter changed it.        *)
(***************************************************************************)
EXTENDS Integers, Sequences, SequencesExt, FiniteSetsExt

CONSTANTS
  Reports,   \* what a line may report
  Inclusions,\* the lines that include a file or call a macro
  MaxPass,   \* what max_pass is at first
  Limits     \* bounds, chosen together: of events over all passes, bytes,
             \* outputs; a listing or not, and whether files may be impossible to write

ASSUME MessagesAssumption ==
  /\ MaxPass \in Nat \ {0}
  /\ \A r \in Reports:
       /\ r.kind \in {"error", "diagnosed", "undefined", "none", "once"}
       /\ r.spot \in {"plain", "changed", "argument"}
  /\ \A i \in Inclusions: i.macro \in BOOLEAN
  /\ \A l \in Limits: l.events \in Nat /\ l.bytes \in Nat /\ l.files \in Nat
                      /\ l.listing \in BOOLEAN /\ l.faults \in BOOLEAN

VARIABLES
  limit,        \* the bounds of this behaviour
  events,       \* the number of events in all passes
  pass, max_pass,
  nodes,        \* the tree of file_list, nodes in the order they were made
  here,         \* current_file_list
  log,          \* error_list
  constcreated, fixeddig,
  notdefines,   \* the names that were not found in a scope: the pass of the last time
  once,         \* the pass in which the note was given that is given once a pass
  signal,       \* signal_received
  claims        \* what was reported in this pass: message and notes, and if it was too early

msgVars == <<limit, events, pass, max_pass, nodes, here, log, constcreated, fixeddig, notdefines, once, signal, claims>>

-----------------------------------------------------------------------------
(* The tree of files: node 0 is the program, top level files are below it. *)
Root == 0
MainNode == 1
CommandLineNode == 2
ParentOf(n) == IF n = Root THEN Root ELSE nodes[n].parent
NodeAt(ns, parent, inc) ==
  {n \in DOMAIN ns: ns[n].parent = parent /\ ns[n].at = inc.at /\ ns[n].file = inc.file}

\* enterfile: the node of an earlier pass, or a new one
Entered(ns, parent, inc, p) ==
  LET old == NodeAt(ns, parent, inc)
  IN IF old # {} THEN [nodes |-> [ns EXCEPT ![Max(old)].pass = p], node |-> Max(old)]
     ELSE [nodes |-> Append(ns, [parent |-> parent, at |-> inc.at, file |-> inc.file,
                                 macro |-> inc.macro, pass |-> p]),
           node |-> Len(ns) + 1]
MainFile == [at |-> 0, file |-> "main", macro |-> FALSE]
CommandLine == [at |-> 0, file |-> "command line", macro |-> FALSE]

-----------------------------------------------------------------------------
(* The list. *)
NoEntry == [sev |-> "nothing", node |-> Root, at |-> 0, line |-> "", text |-> ""]
Unlimited == -1
EmptyLog == [list |-> <<>>, open |-> NoEntry, dropping |-> FALSE, stop |-> Unlimited]
Entry(sev, node, at, line, text) ==
  [sev |-> sev, node |-> node, at |-> at, line |-> line, text |-> text]

\* Mutant: a note is always kept.
ClosedNote(l) ==
  IF l.open = NoEntry THEN l
  ELSE LET dup == l.open.sev # "note" /\ l.open \in ToSet(l.list)
       IN [l EXCEPT !.list = IF dup THEN @ ELSE Append(@, l.open), !.open = NoEntry, !.dropping = dup]

\* close_error, with duplicate_compare
Closed(l) ==
  IF l.open = NoEntry THEN l
  ELSE LET dup == IF l.open.sev = "note" THEN l.dropping ELSE l.open \in ToSet(l.list)
       IN [l EXCEPT !.list = IF dup THEN @ ELSE Append(@, l.open), !.open = NoEntry, !.dropping = dup]

\* new_error_msg_common, and the text that is added
Opened(l, e) == [Closed(l) EXCEPT !.open = e]
Logged(l, es) == FoldLeft(Opened, l, es)

\* Mutant: the message that is still open is not looked at.
SeriousClosed(l) == \E e \in ToSet(l.list): e.sev \in {"none error", "error", "fatal"}

\* error_serious
Serious(l) == \E e \in ToSet(Closed(l).list): e.sev \in {"none error", "error", "fatal"}

-----------------------------------------------------------------------------
(* A report: its message, moved to the call if it is about a parameter, and notes. *)
Moved(r) == r.spot = "argument" /\ nodes[here].macro
LineOf(r) == IF r.spot = "plain" \/ ~nodes[here].macro THEN "" ELSE r.line
At(sev, r, text) ==
  IF Moved(r) THEN Entry(sev, ParentOf(here), nodes[here].at, "", text)
  ELSE Entry(sev, here, r.at, LineOf(r), text)
Expanded(r, text) ==
  IF Moved(r) THEN <<Entry("note", here, r.at, LineOf(r), text)>> ELSE <<>>
Original(r) == IF r.note = 0 THEN <<>> ELSE <<Entry("note", MainNode, r.note, "", r.about)>>

OfStatement(r) == <<At("error", r, r.text)>> \o Expanded(r, "") \o Original(r)

\* new_error_msg2 adds the note before the text of the warning, which goes to the note.
OfDiagnostics(r) ==
  IF Moved(r) THEN <<At("warning", r, "")>> \o Expanded(r, r.text) ELSE <<At("warning", r, r.text)>>
OfName(r) == <<At("error", r, r.text)>> \o Expanded(r, "") \o Original(r)
OfUnknown(r) == <<At("none error", r, r.text)>>
WithAdvice(r) ==
  <<At("error", r, r.text)>> \o Expanded(r, "")
    \o (IF once = pass THEN <<>> ELSE <<Entry("note", here, r.at, "", r.about)>>)
Produced(r) ==
  CASE r.kind = "error" -> OfStatement(r) [] r.kind = "diagnosed" -> OfDiagnostics(r)
    [] r.kind = "undefined" -> OfName(r) [] r.kind = "none" -> OfUnknown(r)
    [] r.kind = "once" -> WithAdvice(r)

\* Nothing is said before the values have settled, if there is a pass to come.
Early(r) ==
  /\ pass < max_pass
  /\ \/ r.kind = "undefined" /\ constcreated
     \/ r.kind = "none" /\ (constcreated \/ ~fixeddig)

\* A name is reported once for a scope.
KeyOf(r) == <<r.text, r.note>>

\* Mutant: once in all passes
KnownEver(r) == r.kind = "undefined" /\ \E k \in notdefines: k[1] = KeyOf(r)

Known(r) == r.kind = "undefined" /\ <<KeyOf(r), pass>> \in notdefines

Within == events < limit.events
Report(r) ==
  /\ Within /\ here # Root
  /\ LET said == Produced(r)
         silent == Early(r) \/ Known(r)
     IN /\ log' = IF silent THEN log ELSE Logged(log, said)
        /\ once' = IF r.kind = "once" THEN pass ELSE once
        /\ notdefines' = IF r.kind # "undefined" \/ Early(r) THEN notdefines
                         ELSE {k \in notdefines: k[1] # KeyOf(r)} \cup {<<KeyOf(r), pass>>}
        /\ claims' = Append(claims, [message |-> said[1], notes |-> Tail(said),
                                     name |-> IF r.kind = "undefined" THEN KeyOf(r) ELSE <<>>,
                                     early |-> Early(r)])
  /\ events' = events + 1
  /\ UNCHANGED <<limit, pass, max_pass, nodes, here, constcreated, fixeddig, signal>>

\* .include, or a macro call
Enter(inc) ==
  /\ Within /\ here # Root
  /\ LET e == Entered(nodes, here, inc, pass) IN nodes' = e.nodes /\ here' = e.node
  /\ events' = events + 1
  /\ UNCHANGED <<limit, pass, max_pass, log, constcreated, fixeddig, notdefines, once, signal, claims>>
Exit ==
  /\ here # Root /\ ParentOf(here) # Root
  /\ here' = ParentOf(here)
  /\ UNCHANGED <<limit, events, pass, max_pass, nodes, log, constcreated, fixeddig, notdefines, once, signal, claims>>

\* A value changed, or a constant was made that was not there before.
Unsettled ==
  /\ Within
  /\ \/ fixeddig /\ fixeddig' = FALSE /\ UNCHANGED constcreated
     \/ ~constcreated /\ constcreated' = TRUE /\ UNCHANGED fixeddig
  /\ events' = events + 1
  /\ UNCHANGED <<limit, pass, max_pass, nodes, here, log, notdefines, once, signal, claims>>

\* What is reported outside of a line
Aside(e) == Append(claims, [message |-> e, notes |-> <<>>, name |-> <<>>, early |-> FALSE])
Failure(node, at, text) == Entry("fatal", node, at, "", text)

\* err_msg_signal: all that comes later is not shown.
Signalled(l, e) ==
  IF l.stop # Unlimited THEN l
  ELSE LET with == Opened(l, e) IN [with EXCEPT !.stop = Len(with.list) + 1]
Interrupt ==
  /\ Within /\ ~signal /\ signal' = TRUE
  /\ events' = events + 1
  /\ UNCHANGED <<limit, pass, max_pass, nodes, here, log, constcreated, fixeddig, notdefines, once, claims>>
Notice ==
  /\ signal /\ here # Root /\ log.stop = Unlimited
  /\ log' = Signalled(log, Failure(here, 1, "interrupted"))
  /\ claims' = Aside(Failure(here, 1, "interrupted"))
  /\ UNCHANGED <<limit, events, pass, max_pass, nodes, here, constcreated, fixeddig, notdefines, once, signal>>

\* one_pass: error_reset, and the files are entered, the command line as well.
StartPass ==
  LET e == Entered(nodes, Root, MainFile, pass')
  IN /\ log' = EmptyLog /\ claims' = <<>> /\ constcreated' = FALSE /\ fixeddig' = TRUE
     /\ nodes' = Entered(e.nodes, Root, CommandLine, pass').nodes /\ here' = e.node

MsgInit ==
  /\ limit \in Limits /\ events = 0 /\ pass = 1 /\ max_pass = MaxPass
  /\ nodes = Entered(Entered(<<>>, Root, MainFile, 1).nodes, Root, CommandLine, 1).nodes
  /\ here = MainNode /\ log = EmptyLog /\ constcreated = FALSE /\ fixeddig = TRUE
  /\ notdefines = {} /\ once = 0 /\ signal = FALSE /\ claims = <<>>
MsgStep == (\E r \in Reports: Report(r)) \/ (\E inc \in Inclusions: Enter(inc)) \/ Exit \/ Unsettled \/ Interrupt \/ Notice

-----------------------------------------------------------------------------
(* error_print. *)
Shown(l) == IF l.stop = Unlimited THEN l.list ELSE SubSeq(l.list, 1, l.stop)

\* walkfilelist: how often the last pass entered a file, two standing for more.  Nodes
\* below one that was not counted are left out.
Counted ==
  FoldLeft(LAMBDA acc, n:
             LET f == nodes[n].file
             IN IF nodes[n].parent \notin acc.walked \/ nodes[n].pass # pass \/ acc.times[f] > 1 THEN acc
                ELSE [walked |-> acc.walked \cup {n}, times |-> [acc.times EXCEPT ![f] = @ + 1]],
           [walked |-> {Root}, times |-> [f \in {nodes[n].file: n \in DOMAIN nodes} |-> 0]],
           [n \in 1..Len(nodes) |-> n])
entercount(n) == Counted.times[nodes[n].file]

\* The nodes from n up to a top level file, in steps
Above(n, k) == FoldLeft(LAMBDA m, i: ParentOf(m), n, [i \in 1..k |-> i])
Chain(n) == LET d == CHOOSE k \in 0..Len(nodes): ParentOf(Above(n, k)) = Root
            IN [k \in 1..d |-> Above(n, k)]

Ambiguous(n) ==
  \E k \in 0..Len(nodes): ParentOf(Above(n, k)) # Root /\ entercount(Above(n, k)) # 1

\* A line that tells where a file was included, the message itself, and its source line
print_error(out, e, caret) ==
  LET from == IF e.node = Root \/ e.node = out.from \/ ~Ambiguous(e.node) THEN <<>>
              ELSE [k \in DOMAIN Chain(e.node) |-> [what |-> "from", entry |-> e, node |-> Chain(e.node)[k]]]
      src == IF caret /\ e.node # Root /\ e.at # 0
             THEN <<[what |-> "source", entry |-> e, node |-> e.node]>> ELSE <<>>
  IN [from |-> IF e.node = Root THEN out.from ELSE e.node,
      lines |-> out.lines \o from \o <<[what |-> "message", entry |-> e, node |-> e.node]>> \o src]

\* Mutant: the file is not compared.
SameLine(e, f) == e.at = f.at /\ e.line = f.line

\* caret_needed
SamePlace(e, f) ==
  /\ e.at = f.at /\ e.line = f.line
  /\ (e.node = Root /\ f.node = Root) \/ (e.node # Root /\ f.node # Root /\ nodes[e.node].file = nodes[f.node].file)

\* The loop: err2 is the message before, err3 the one before that, which is still to be
\* printed.  A note drops the one before if it says the same.
Step(acc, e, any, hard) ==
  LET before(o) == IF acc.err3 = NoEntry THEN acc.out ELSE print_error(acc.out, acc.err3, ~SamePlace(o, acc.err3))
      hidden == (e.sev = "warning" /\ any) \/ (e.sev = "none error" /\ hard)
      counted == [acc EXCEPT !.warnings = @ + (IF e.sev = "warning" THEN 1 ELSE 0),
                             !.errors = @ + (IF e.sev = "warning" \/ hidden THEN 0 ELSE 1)]
  IN IF e.sev = "note"
     THEN IF ~acc.usenote THEN acc
          ELSE [acc EXCEPT !.out = IF acc.err3 = e THEN @ ELSE before(e), !.err3 = acc.err2, !.err2 = e]
     ELSE IF hidden THEN [counted EXCEPT !.usenote = FALSE]
     ELSE [counted EXCEPT !.out = before(acc.err2), !.err3 = acc.err2, !.err2 = e, !.usenote = TRUE]

error_print(shown) ==
  LET hard == \E e \in ToSet(shown): e.sev \in {"error", "fatal"}
      any == hard \/ \E e \in ToSet(shown): e.sev = "none error"
      end == FoldLeft(LAMBDA acc, e: Step(acc, e, any, hard),
                      [err2 |-> NoEntry, err3 |-> NoEntry, usenote |-> FALSE, errors |-> 0, warnings |-> 0,
                       out |-> [from |-> Root, lines |-> <<>>]], shown)
      third == IF end.err3 = NoEntry THEN end.out
               ELSE print_error(end.out, end.err3, ~SamePlace(end.err2, end.err3))
  IN [lines |-> (IF end.err2 = NoEntry THEN third ELSE print_error(third, end.err2, TRUE)).lines,
      errors |-> end.errors, warnings |-> end.warnings]
=============================================================================
