------------------------------- MODULE Outputs -------------------------------
(***************************************************************************)
(* The run of the program (main2): passes with their messages and bytes,   *)
(* from the blocks of the last pass to output files (memcomp of mem.c),    *)
(* what is shown, and the exit status.                                     *)
(*                                                                         *)
(* Each memory is a list of blocks in the order of the source, where a     *)
(* block may stand for the memory of a section.  For an output memcomp     *)
(* first puts the blocks of the section in its place, and, unless the      *)
(* format keeps overlapping blocks, makes the blocks disjoint and sorts    *)
(* them, in place.  A byte is known by when it was produced.               *)
(***************************************************************************)
EXTENDS Messages

CONSTANTS
  Size,        \* addresses are below it
  WithSection, \* there may be a section
  Keeps        \* which formats are asked for: keep overlapping blocks or not

ASSUME OutputsAssumption ==
  Size \in Nat \ {0} /\ WithSection \in BOOLEAN /\ Keeps \subseteq BOOLEAN

Mems == IF WithSection THEN {"root", "sec"} ELSE {"root"}
NoMem == "none"
NoOutput == [mem |-> NoMem, keep |-> FALSE]

VARIABLES
  stage,   \* "pass", then "listing", "symbols", "outputs" and "done"
  mem,     \* the Memblocks of each section
  source,  \* what they were after the last pass
  made,    \* the number of bytes produced
  output,  \* the output that is being written: its section and format
  stack,   \* the activations of memcomp
  files,   \* what was written
  printed, \* what error_print shows
  failed   \* the exit status

memVars == <<mem, source, made, output, stack, files>>
endVars == <<printed, failed>>
vars == <<msgVars, stage, memVars, endVars>>

-----------------------------------------------------------------------------
(***************************************************************************)
(* The last pass, as far as blocks are concerned.                          *)
(***************************************************************************)
NewMemblocks == [bytes |-> <<>>, blocks |-> <<>>, lastp |-> 0, lastaddr |-> 0,
                 flattened |-> FALSE, merged |-> FALSE]
InPass == stage \in {"pass", "listing"}
NextAddr(s) == s.lastaddr + Len(s.bytes) - s.lastp

MemJmp(s, adr) ==
  IF Len(s.bytes) = s.lastp THEN [s EXCEPT !.lastaddr = adr]
  ELSE [s EXCEPT !.blocks = Append(@, [p |-> s.lastp, addr |-> s.lastaddr,
                                       len |-> Len(s.bytes) - s.lastp, ref |-> NoMem]),
                 !.lastp = Len(s.bytes), !.lastaddr = adr]
AllocMem(s, adr) ==
  LET at == IF NextAddr(s) = adr THEN s ELSE MemJmp(s, adr)
      with == [at EXCEPT !.bytes = Append(@, made + 1)]
  IN IF NextAddr(with) = Size THEN MemJmp(with, 0) ELSE with

Refs(s) == {j \in DOMAIN s.blocks : s.blocks[j].ref # NoMem}

\* A byte in a section
Byte(m, adr) ==
  /\ InPass /\ made < limit.bytes
  /\ mem' = [mem EXCEPT ![m] = AllocMem(@, adr)]
  /\ made' = made + 1
  /\ UNCHANGED <<msgVars, stage, source, output, stack, files, endVars>>

\* .dsection, in the root section: memref, then memskip, which skips the space.
Dsection(ln) ==
  /\ InPass /\ WithSection /\ limit.bytes > 0 /\ Refs(mem["root"]) = {}
  /\ LET s == mem["root"]
         with == [s EXCEPT !.blocks = Append(@, [p |-> s.lastp, addr |-> NextAddr(s),
                                                 len |-> ln, ref |-> "sec"])]
     IN mem' = [mem EXCEPT !["root"] = IF ln = 0 THEN with
                                       ELSE MemJmp(with, (NextAddr(s) + ln) % Size)]
  /\ UNCHANGED <<msgVars, stage, source, made, output, stack, files, endVars>>

-----------------------------------------------------------------------------
(***************************************************************************)
(* main2, up to the outputs.                                               *)
(***************************************************************************)
NoBytes == [m \in Mems |-> NewMemblocks]
NewPass(next) ==
  /\ pass' = pass + 1 /\ StartPass
  /\ stage' = next /\ mem' = NoBytes /\ made' = 0
  /\ UNCHANGED <<limit, events, notdefines, once, signal, source, output, stack, files, endVars>>

\* All lines are read.  A section that is used has a place, or there is an error.
LinesOver ==
  /\ InPass /\ ParentOf(here) = Root
  /\ WithSection => mem["sec"].bytes = <<>> \/ Refs(mem["root"]) # {}
Again == ~signal /\ (~fixeddig \/ constcreated)
NextPass == stage = "pass" /\ LinesOver /\ Again /\ pass <= max_pass /\ NewPass("pass") /\ UNCHANGED max_pass

\* What the loop adds: it gave up, or was interrupted.
LoopSays ==
  IF stage = "pass" /\ Again THEN <<Failure(Root, 0, "too many passes")>>
  ELSE IF stage = "pass" /\ signal /\ log.stop = Unlimited THEN <<Failure(Root, 0, "interrupted")>>
  ELSE <<>>
LoopLog == IF LoopSays = <<>> THEN log ELSE IF Again THEN Opened(log, LoopSays[1]) ELSE Signalled(log, LoopSays[1])
LoopOver == LinesOver /\ (stage = "pass" /\ Again => pass > max_pass)

\* Without an error the source is read once more for the listing.
ListingPass ==
  /\ stage = "pass" /\ LoopOver /\ limit.listing /\ ~Serious(LoopLog)
  /\ max_pass' = pass /\ NewPass("listing")

\* error_serious
PassesOver ==
  /\ LoopOver /\ (stage = "pass" /\ limit.listing => Serious(LoopLog))
  /\ log' = Closed(LoopLog) /\ claims' = IF LoopSays = <<>> THEN claims ELSE Aside(LoopSays[1])
  /\ failed' = (stage = "pass" /\ Serious(LoopLog)) /\ stage' = IF failed' THEN "shown" ELSE "symbols"
  /\ pass' = IF stage = "pass" /\ Again THEN pass + 1 ELSE pass
  /\ here' = Root
  /\ UNCHANGED <<limit, events, max_pass, nodes, constcreated, fixeddig, notdefines, once, signal,
                 memVars, printed>>

\* A message outside of the passes
Failing(e) ==
  /\ log' = Opened(log, e) /\ claims' = Aside(e)
  /\ UNCHANGED <<limit, events, pass, max_pass, nodes, here, constcreated, fixeddig, notdefines, once, signal>>

\* labelprint and makefile; if they fail, nothing is written.
Symbols ==
  /\ stage = "symbols"
  /\ (limit.faults /\ Failing(Failure(CommandLineNode, 9, "cannot write"))) \/ UNCHANGED msgVars
  /\ failed' = Serious(log')
  /\ stage' = IF failed' THEN "shown" ELSE "outputs"
  /\ mem' = IF failed' THEN mem ELSE [m \in Mems |-> MemJmp(mem[m], 0)]   \* memclose
  /\ source' = mem'
  /\ UNCHANGED <<made, output, stack, files, printed>>

-----------------------------------------------------------------------------
(***************************************************************************)
(* memcomp, with its loops step by step.  i and j are blocks, k is the     *)
(* number of blocks that are done.                                         *)
(***************************************************************************)
Frame(m) == [mem |-> m, at |-> "enter", i |-> 0, j |-> 0, k |-> 0]
Top == stack[Len(stack)]
SetTop(f) == [stack EXCEPT ![Len(stack)] = f]
Here == mem[Top.mem]
Bi == Here.blocks[Top.i]
Bj == Here.blocks[Top.j]

\* The memory of an output that is not the last one is copied; the output works
\* on the original all the same, and the copy is thrown away.
Ready == stage = "outputs" /\ stack = <<>> /\ output = NoOutput /\ Len(files) < limit.files
NextOutput ==
  /\ Ready
  /\ \E m \in Mems, keep \in Keeps :
       /\ m = "sec" => Refs(source["root"]) # {}
       /\ output' = [mem |-> m, keep |-> keep]
       /\ stack' = <<Frame(m)>>
  /\ UNCHANGED <<msgVars, stage, mem, source, made, files, endVars>>

\* There is no such section, or the file cannot be opened; the next one follows.
Unopened ==
  /\ Ready /\ limit.faults
  /\ \E where \in {Root, CommandLineNode}:
       Failing(Failure(where, IF where = Root THEN 0 ELSE Len(files) + 1, "cannot write"))
  /\ files' = Append(files, [mem |-> "root", keep |-> FALSE, done |-> FALSE, content |-> <<>>])
  /\ UNCHANGED <<stage, mem, source, made, output, stack, endVars>>

Merging == ~output.keep /\ Len(Here.blocks) >= 2 /\ ~Here.merged
EnterMemcomp ==
  /\ stack # <<>> /\ Top.at = "enter"
  /\ IF ~Here.flattened /\ Refs(Here) # {}
     THEN /\ mem' = [mem EXCEPT ![Top.mem].flattened = TRUE]
          /\ stack' = Append(SetTop([Top EXCEPT !.at = "splice"]), Frame("sec"))
     ELSE /\ mem' = [mem EXCEPT ![Top.mem].flattened = TRUE, ![Top.mem].merged = @ \/ Merging]
          /\ stack' = IF Merging THEN SetTop([Top EXCEPT !.at = "merge", !.i = 2, !.j = 1])
                      ELSE Front(stack)
  /\ UNCHANGED <<msgVars, stage, source, made, output, files, endVars>>

\* The blocks of b with their bytes behind those of s
Copied(s, b) ==
  FoldLeft(LAMBDA acc, x : [bytes |-> acc.bytes \o SubSeq(b.bytes, x.p + 1, x.p + x.len),
                            blocks |-> Append(acc.blocks, [x EXCEPT !.p = Len(acc.bytes)])],
           [bytes |-> s.bytes, blocks |-> <<>>], b.blocks)

\* Mutant: the blocks of the section are put at the end.
SplicedLast(s, b) ==
  LET j == CHOOSE x \in Refs(s) : TRUE
      c == Copied(s, b)
  IN [s EXCEPT !.bytes = c.bytes,
               !.blocks = SubSeq(@, 1, j - 1) \o SubSeq(@, j + 1, Len(@)) \o c.blocks]

Spliced(s, b) ==
  LET j == CHOOSE x \in Refs(s) : TRUE
      c == Copied(s, b)
  IN [s EXCEPT !.bytes = c.bytes,
               !.blocks = SubSeq(@, 1, j - 1) \o c.blocks \o SubSeq(@, j + 1, Len(@))]
Splice ==
  /\ stack # <<>> /\ Top.at = "splice"
  /\ mem' = [mem EXCEPT ![Top.mem] = Spliced(@, mem["sec"])]
  /\ stack' = SetTop([Top EXCEPT !.at = "enter"])
  /\ UNCHANGED <<msgVars, stage, source, made, output, files, endVars>>

Low(x, y) == IF x < y THEN x ELSE y

Cut(b, n) == [b EXCEPT !.len = @ - n, !.p = @ + n, !.addr = @ + n]
Inner == stack # <<>> /\ Top.at = "merge" /\ Top.j <= Len(Here.blocks)
           /\ Bj.len # 0 /\ Top.i <= Len(Here.blocks)

\* Block i begins in block j.
Begins(x, y) == x.len # 0 /\ y.addr <= x.addr /\ x.addr < y.addr + y.len

\* Mutant: the bytes of the earlier block are kept.
Kept(i, j) ==
  LET over == Low(Bj.addr + Bj.len - Bi.addr, Bi.len)
  IN [Here EXCEPT !.blocks[i] = Cut(@, over)]

\* The later block is copied into the earlier one, and cut.
Over(i, j) ==
  LET over == Low(Bj.addr + Bj.len - Bi.addr, Bi.len)
      to == Bj.p + Bi.addr - Bj.addr
  IN [Here EXCEPT !.blocks[i] = Cut(@, over),
                  !.bytes = [x \in DOMAIN @ |-> IF x - to \in 1 .. over THEN @[Bi.p + x - to]
                                                ELSE @[x]]]
CopyLater ==
  /\ Inner /\ Begins(Bi, Bj)
  /\ mem' = [mem EXCEPT ![Top.mem] = Over(Top.i, Top.j)]
  /\ stack' = SetTop([Top EXCEPT !.i = @ + 1])
  /\ UNCHANGED <<msgVars, stage, source, made, output, files, endVars>>

\* The later block begins first: the earlier one is cut, perhaps to nothing.
CutEarlier ==
  /\ Inner /\ ~Begins(Bi, Bj) /\ Bi.len # 0 /\ Begins(Bj, Bi)
  /\ mem' = [mem EXCEPT ![Top.mem].blocks[Top.j] = Cut(@, Low(Bi.addr + Bi.len - Bj.addr, Bj.len))]
  /\ stack' = SetTop([Top EXCEPT !.i = @ + 1])
  /\ UNCHANGED <<msgVars, stage, source, made, output, files, endVars>>
Apart ==
  /\ Inner /\ ~Begins(Bi, Bj) /\ ~(Bi.len # 0 /\ Begins(Bj, Bi))
  /\ stack' = SetTop([Top EXCEPT !.i = @ + 1])
  /\ UNCHANGED <<msgVars, stage, mem, source, made, output, files, endVars>>

\* Mutant: an empty block is looked at again.
DoneOnlyKept(b, f) ==
  IF b.len = 0 THEN [blocks |-> Here.blocks, frame |-> f]
  ELSE [blocks |-> [Here.blocks EXCEPT ![f.k + 1] = b],
        frame |-> [f EXCEPT !.j = @ + 1, !.i = f.j + 2, !.k = @ + 1]]

\* Block j is compared with all: it is kept if something is left of it.
Done(b, f) ==
  IF b.len = 0 THEN [blocks |-> Here.blocks, frame |-> [f EXCEPT !.j = @ + 1, !.i = f.j + 2]]
  ELSE [blocks |-> [Here.blocks EXCEPT ![f.k + 1] = b],
        frame |-> [f EXCEPT !.j = @ + 1, !.i = f.j + 2, !.k = @ + 1]]
NextBlock ==
  /\ stack # <<>> /\ Top.at = "merge" /\ Top.j <= Len(Here.blocks)
  /\ Bj.len = 0 \/ Top.i > Len(Here.blocks)
  /\ mem' = [mem EXCEPT ![Top.mem].blocks = Done(Bj, Top).blocks]
  /\ stack' = SetTop(Done(Bj, Top).frame)
  /\ UNCHANGED <<msgVars, stage, source, made, output, files, endVars>>

\* qsort with memblockcomp: the same blocks, in some order in which the addresses do not fall
Orders(blocks) ==
  {[n \in DOMAIN blocks |-> blocks[order[n]]] :
     order \in {o \in Bijection(DOMAIN blocks, DOMAIN blocks) :
                  \A n, l \in DOMAIN blocks : n < l => blocks[o[n]].addr <= blocks[o[l]].addr}}
\* The end of memcomp
Sort ==
  /\ stack # <<>> /\ Top.at = "merge" /\ Top.j > Len(Here.blocks)
  /\ \E blocks \in Orders(SubSeq(Here.blocks, 1, Top.k)) : mem' = [mem EXCEPT ![Top.mem].blocks = blocks]
  /\ stack' = Front(stack)
  /\ UNCHANGED <<msgVars, stage, source, made, output, files, endVars>>

\* A writer: bytes with their addresses, block by block
Content(s, blocks) ==
  FoldLeft(LAMBDA acc, x : acc \o [k \in 1 .. x.len |-> <<x.addr + k - 1, s.bytes[x.p + k]>>],
           <<>>, blocks)
Write ==
  /\ output # NoOutput /\ stack = <<>>
  /\ \E done \in {TRUE, ~limit.faults}:
       /\ IF done THEN UNCHANGED msgVars
          ELSE Failing(Failure(CommandLineNode, Len(files) + 1, "cannot write"))
       /\ files' = Append(files, [mem |-> output.mem, keep |-> output.keep, done |-> done,
                                  content |-> Content(mem[output.mem], mem[output.mem].blocks)])
  /\ output' = NoOutput
  /\ UNCHANGED <<stage, mem, source, made, stack, endVars>>

OutputsOver ==
  /\ stage = "outputs" /\ stack = <<>> /\ output = NoOutput /\ Len(files) = limit.files
  /\ failed' = Serious(log) /\ stage' = "shown"
  /\ UNCHANGED <<msgVars, memVars, printed>>
Show ==
  /\ stage = "shown" /\ stage' = "done"
  /\ log' = Closed(log) /\ printed' = error_print(Shown(log'))
  /\ UNCHANGED <<limit, events, pass, max_pass, nodes, here, constcreated, fixeddig, notdefines, once, signal,
                 claims, memVars, failed>>

-----------------------------------------------------------------------------
Init ==
  /\ MsgInit
  /\ stage = "pass" /\ made = 0
  /\ mem = NoBytes /\ source = NoBytes
  /\ output = NoOutput /\ stack = <<>> /\ files = <<>>
  /\ printed = error_print(<<>>) /\ failed = FALSE

Pass ==
  \/ (\E m \in Mems, a \in 0 .. Size - 1 : Byte(m, a)) \/ Dsection(0) \/ Dsection(1)
  \/ InPass /\ MsgStep /\ UNCHANGED <<stage, memVars, endVars>>
Memcomp == EnterMemcomp \/ Splice \/ CopyLater \/ CutEarlier \/ Apart \/ NextBlock \/ Sort
Ending == NextOutput \/ Unopened \/ Memcomp \/ Write \/ OutputsOver
Next == Pass \/ NextPass \/ ListingPass \/ PassesOver \/ Symbols \/ Ending \/ Show

Spec == Init /\ [][Next]_vars
\* main2 goes on by itself; how long the source is, is not its affair.
FairSpec == Spec /\ WF_vars(Ending)

-----------------------------------------------------------------------------
(***************************************************************************)
(* Properties.                                                             *)
(***************************************************************************)
\* The bytes of a memory in the order of the blocks, those of the section at
\* its place, as a device would load them
Expand(store, m) ==
  LET s == store[m]
      of(b) == IF b.ref = NoMem THEN Content(s, <<b>>) ELSE Content(store["sec"], store["sec"].blocks)
  IN FoldLeft(LAMBDA acc, b : acc \o of(b), <<>>, s.blocks)

\* What is in memory after loading, a later byte over an earlier one
Loaded(content) ==
  [a \in 0 .. Size - 1 |->
     LET w == {k \in DOMAIN content : content[k][1] = a}
     IN IF w = {} THEN 0 ELSE content[CHOOSE k \in w : \A l \in w : l <= k][2]]

\* Whatever was written before, an output loads as the blocks of the source do:
\* making blocks disjoint keeps, of each address, the byte produced last, and
\* no turn of the loops of memcomp loses one.
Current(m) ==
  LET merge == {d \in DOMAIN stack : stack[d].mem = m /\ stack[d].at = "merge"}
      s == mem[m]
  IN IF merge = {} THEN Expand(mem, m)
     ELSE LET f == stack[CHOOSE d \in merge : TRUE]
          IN Content(s, SubSeq(s.blocks, 1, f.k) \o SubSeq(s.blocks, f.j, Len(s.blocks)))
ImageKept ==
  stage = "outputs" => \A m \in Mems : Loaded(Current(m)) = Loaded(Expand(source, m))

\* A format that is not told the address of each block gets blocks in the order of their
\* addresses, which do not overlap, so that the number of zeros it fills up with is never
\* negative; one that keeps overlapping blocks has all bytes in the order of the source, as
\* long as no other output made them disjoint.
KeptWhole ==
  /\ output # NoOutput /\ stack = <<>> /\ ~output.keep =>
       LET b == mem[output.mem].blocks
       IN \A i, j \in DOMAIN b : i < j => b[i].addr + b[i].len <= b[j].addr /\ b[j].len # 0
  /\ \A n \in DOMAIN files :
       files[n].keep /\ (\A l \in 1 .. n : files[l].keep)
         => files[n].content = Expand(source, files[n].mem)

-----------------------------------------------------------------------------
Faulty == {"none error", "error", "fatal"}
Ended == stage = "done"

\* What is said of what was reported in the last pass and after it: a name is told once for
\* a scope, and a message that was said before is the same one.  An interruption ends it.
Heard(i) ==
  /\ ~claims[i].early
  /\ claims[i].name = <<>> \/ \A j \in 1 .. i - 1 : claims[j].early \/ claims[j].name # claims[i].name
Said == {i \in DOMAIN claims : Heard(i) /\ \A j \in 1 .. i - 1 : Heard(j) => claims[j].message # claims[i].message}
IsEnd(e) == e.sev = "fatal" /\ e.text = "interrupted"
Told == {i \in Said : \A j \in 1 .. i - 1 : ~IsEnd(claims[j].message)}
Sevs == {claims[i].message.sev : i \in Told}

\* Among them the errors; where there are none, those that a value was not known; where
\* there are none either, the warnings
Wanted ==
  {i \in Told : /\ claims[i].message.sev = "warning" => Sevs \cap Faulty = {}
                /\ claims[i].message.sev = "none error" => Sevs \cap {"error", "fatal"} = {}}

\* Where messages are printed, and which of them are not notes
Printed == {n \in DOMAIN printed.lines : printed.lines[n].what = "message"}
EntryAt(n) == printed.lines[n].entry
Heads == {n \in Printed : EntryAt(n).sev # "note"}

\* Every message is shown, once and in order, and none is lost with an earlier pass or
\* because another like it was dropped (close_error, notdefines, error_print).
EachShown ==
  Ended =>
    /\ signal \/ \A c \in ToSet(claims) : ~c.early
    /\ \A i \in Wanted : \E n \in Heads : EntryAt(n) = claims[i].message
    /\ \A m, n \in Heads : m <= n =>
         \E i, j \in Wanted : /\ EntryAt(m) = claims[i].message /\ EntryAt(n) = claims[j].message
                              /\ i <= j /\ (i = j => m = n)
    /\ printed.errors = Cardinality({n \in Heads : EntryAt(n).sev # "warning"})

\* A note is below a message that it belongs to, and a message has all its notes before
\* a message that does not have them too: the notes of one that is dropped or hidden do
\* not get below another (close_error_duplicate, usenote).
NotesOf(n) == UNION {ToSet(claims[i].notes) : i \in {k \in Told : claims[k].message = EntryAt(n)}}
NotesBelow ==
  Ended =>
    /\ \A n \in Printed \ Heads :
         \E h \in Heads : h < n /\ EntryAt(n) \in NotesOf(h) /\ \A g \in Heads : g < n => g <= h
    /\ \A n \in Heads : \A e \in NotesOf(n) :
         \E p \in Printed : /\ n < p /\ EntryAt(p) = e
                            /\ \A h \in Heads : n <= h /\ h < p => e \in NotesOf(h)

\* The source line of a message is below it.  What comes before it is at the same place, or
\* belongs to a message that has a note there: error_print compares with this note and not
\* with what is printed next (caret_needed, different_line).
SourceOf(e) == <<IF e.node = Root THEN "" ELSE nodes[e.node].file, e.at, e.line>>
HeadOf(n) == CHOOSE h \in Heads : h <= n /\ \A g \in Heads : g <= n => g <= h
SourceBelow ==
  Ended =>
    \A i \in Heads :
      LET place == SourceOf(EntryAt(i))
      IN EntryAt(i).node # Root /\ EntryAt(i).at # 0 =>
           \E s \in i .. Len(printed.lines) :
             /\ printed.lines[s].what = "source" /\ SourceOf(EntryAt(s)) = place
             /\ \A b \in Printed \cap i .. s :
                  \/ SourceOf(EntryAt(b)) = place
                  \/ \E e \in NotesOf(HeadOf(b)) : SourceOf(e) = place

\* Unless the files on the way were entered once, it was told by which way a message came,
\* last for this very way (included_from).  Those entered from within a file that was
\* entered three times or more need not be among them (walkfilelist).
EnteredBy(n) == {m \in DOMAIN nodes : nodes[m].pass = pass /\ nodes[m].file = nodes[n].file}
Looked(n) == {m \in EnteredBy(n) : \A a \in ToSet(Chain(m)) : Cardinality(EnteredBy(a)) <= 2}
Traced ==
  Ended =>
    \A i \in Heads :
      LET n == EntryAt(i).node
      IN n # Root /\ (\E a \in {n} \cup ToSet(Chain(n)) : ParentOf(a) # Root /\ Cardinality(Looked(a)) > 1) =>
           \E f \in 1 .. i : /\ printed.lines[f].what = "from" /\ EntryAt(f).node = n
                            /\ \A b \in f .. i : EntryAt(b).node \in {n, Root}

\* One sees where a message is: its source line, and the way to it.
Located == SourceBelow /\ Traced

\* The exit status tells of errors, also if one of the outputs failed; none is written
\* after an error before.
StatusTold ==
  /\ Ended => (failed <=> printed.errors > 0)
  /\ files # <<>> => \A c \in ToSet(claims) : c.message.sev \in Faulty => c.message.text = "cannot write"
  /\ Ended => \A n \in DOMAIN files : ~files[n].done =>
       \E l \in ToSet(printed.lines) : l.what = "message" /\ l.entry.text = "cannot write"

\* memcomp ends, so that all outputs are written.
AllWritten == (stage = "outputs") ~> (stage = "shown" /\ Len(files) = limit.files)
=============================================================================
