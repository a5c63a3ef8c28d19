------------------------------- MODULE Memory -------------------------------
(***************************************************************************)
(* The address and the memory of one section: section_address_s with its   *)
(* Memblocks (64tass.c, mem.c).                                            *)
(*                                                                         *)
(* Bytes are appended to one array.  Where they belong is known from a     *)
(* list of closed blocks and from the address of the bytes that are not in *)
(* one yet.  The address of the section is counted apart from that, twice: *)
(* in the output memory and, for .logical and the bank the processor would *)
(* be in, as the program counter.                                          *)
(***************************************************************************)
EXTENDS Integers, Sequences, FiniteSets, FiniteSetsExt

CONSTANTS
  AllMem2,   \* all_mem2, the highest address of the output
  AllMem,    \* all_mem, the highest address of the processor
  Word,      \* the number of values of an address_t
  Starts,    \* where the section may begin
  Values,    \* the addresses that *=, .logical and the first label may be given,
             \* -1 for a value that is none
  MaxData,   \* bound on the bytes of one pokealloc or memskip
  MaxBytes,  \* bound on the bytes of the array
  MaxOpen,   \* bound on the blocks that are open
  MaxRefs,   \* bound on the .dsection lines
  Alphabets  \* the kinds of lines that one program may have

ASSUME WidthAssumption ==
  /\ AllMem2 \in Nat /\ AllMem \in Nat /\ Word \in Nat
  /\ AllMem2 < Word /\ AllMem < Word
  /\ Word % (AllMem2 + 1) = 0
ASSUME ValuesAssumption == Starts \subseteq 0 .. AllMem2 /\ Values \subseteq -1 .. AllMem
ASSUME BoundAssumption == MaxData \in Nat /\ MaxBytes \in Nat /\ MaxOpen \in Nat /\ MaxRefs \in Nat

VARIABLES
  at,        \* current_address, without its memory
  memp,      \* mem.p: the bytes of the array are 0 .. memp - 1
  data,      \* the closed blocks
  lastp,     \* the first byte that is not in a closed block
  lastaddr,  \* and its address
  todo,      \* len of alloc_mem: bytes that have no place yet
  inline,    \* in the middle of a line of data
  open,      \* the open .logical, .union, .struct, .dstruct and .dunion
  errors,    \* messages about the address so far
  mark,      \* a label, with what read_mem needs of it
  hist,      \* history, see below
  line       \* the kinds of lines in this program, never changed

blocks == <<memp, data, lastp, lastaddr>>
vars == <<at, blocks, todo, inline, open, errors, mark, hist, line>>

Size == AllMem2 + 1
Flat == AllMem2 = Word - 1       \* the output mode with 32 bit addresses
Kinds(what) == {i \in DOMAIN open : open[i].what \in what}
Logicals == Kinds({"logical"})   \* logicalrecursion

(***************************************************************************)
(* History.  top: the last byte of memory was reached; over: more          *)
(* followed; below: a range was opened below the start of the one around   *)
(* it, which forgets that.                                                 *)
(***************************************************************************)
Moved(h) == [h EXCEPT !.top = FALSE]
Filled(h, a, db) ==
  [h EXCEPT !.over = @ \/ db > Size - a.address \/ (h.top /\ db > 0),
            !.top = db = Size - a.address \/ (@ /\ db = 0)]

-----------------------------------------------------------------------------
(***************************************************************************)
(* memjmp: bytes without a block get one, the next ones belong at adr.     *)
(***************************************************************************)
Pending == memp - lastp
Own == {i \in DOMAIN data : ~data[i].ref}  \* the blocks with bytes of this memory
Closed(d, p) ==
  IF p = lastp THEN d
  ELSE Append(d, [p |-> lastp, addr |-> lastaddr, len |-> p - lastp, ref |-> FALSE])
MemJmp(p, adr) ==
  /\ data' = Closed(data, p)
  /\ lastp' = p
  /\ lastaddr' = adr

(***************************************************************************)
(* pokealloc and memskip: db bytes further, with a look at both counters.  *)
(***************************************************************************)
Complaints(a, db) ==
  (IF a.moved /\ a.address < a.start THEN {"section"} ELSE {})
    \cup (IF a.moved /\ a.wrapwarn THEN {"wrap"} ELSE {})
    \cup (IF db <= Size - a.address THEN {}
          ELSE {"wrap"} \cup (IF a.start # 0 THEN {"section"} ELSE {}))

\* The program counter
Counted(a, db) ==
  [a EXCEPT !.l_address = (@ + db) % (AllMem + 1)]

\* Mutant: the top is reached without a note that more must not follow.
AdvancedQuiet(a, db) ==
  [Counted(a, db) EXCEPT !.moved = (db = Size - a.address),
                         !.end = IF db >= Size - a.address /\ @ <= AllMem2 THEN Size ELSE @,
                         !.wrapwarn = FALSE, !.address = (@ + db) % Size]

\* The address.  The last byte of memory may be used without a warning.
Advanced(a, db) ==
  LET last == db = Size - a.address
  IN [Counted(a, db) EXCEPT
        !.address = (@ + db) % Size,
        !.moved = last,
        !.wrapwarn = last \/ (@ /\ ~a.moved /\ db < Size - a.address),
        !.end = IF db >= Size - a.address /\ @ <= AllMem2 THEN Size % Word ELSE @]

\* Mutant: the end is not looked at when the address moves away.
LeftAtOnce(a) == [a EXCEPT !.moved = TRUE]

\* What *=, .offs and the lines of a union do before they move the address
Left(a) == IF a.moved THEN a
           ELSE [a EXCEPT !.end = IF @ < a.address THEN a.address ELSE @, !.moved = TRUE]

-----------------------------------------------------------------------------
(***************************************************************************)
(* Lines.  Each line of a union begins at the same address; a line with    *)
(* data may then have several pieces.                                      *)
(***************************************************************************)
AtStart == at.unionmode => at.address = at.start /\ at.l_address = at.l_union
Ready == todo = 0 /\ ~inline /\ AtStart
Piece == /\ todo = 0 /\ (inline \/ Ready)
         /\ inline' \in IF at.unionmode THEN BOOLEAN ELSE {FALSE}

\* The address moves somewhere, by a jump that is made only when needed.
GoTo(a) ==
  /\ at' = a
  /\ IF a.address = at.address THEN UNCHANGED <<data, lastp, lastaddr>>
     ELSE MemJmp(memp, a.address)
  /\ mark' = [mark EXCEPT !.straight = FALSE]
  /\ UNCHANGED <<memp, todo, open, line>>

\* The address moves on by db.
GoOn(a, h, db) ==
  /\ at' = Advanced(a, db)
  /\ errors' = errors \cup Complaints(a, db)
  /\ UNCHANGED mark
  /\ hist' = Filled(h, a, db)

LineStart ==
  /\ todo = 0 /\ ~inline /\ ~AtStart
  /\ LET a == IF at.l_address = at.l_union THEN at
              ELSE [at EXCEPT !.l_address = at.l_union]
     IN GoTo(IF at.address = at.start THEN a
             ELSE [Left(a) EXCEPT !.wrapwarn = FALSE, !.address = at.start])
  /\ hist' = IF at.address = at.start THEN hist ELSE Moved(hist)
  /\ UNCHANGED <<inline, errors>>

\* pokealloc, which goes on with alloc_mem
Poke(db) ==
  /\ Piece /\ memp + db <= MaxBytes
  /\ GoOn(at, hist, db)
  /\ todo' = db
  /\ UNCHANGED <<blocks, open, line>>

\* Mutant: a block that fills the memory to the top is left open.
RoomTight == AllMem2 + 1 - (lastaddr + Pending)

\* left
Room == AllMem2 - (lastaddr + Pending)
AllocWraps ==
  /\ todo > 0 /\ todo > Room
  /\ memp' = memp + Room + 1
  /\ MemJmp(memp + Room + 1, 0)
  /\ todo' = todo - (Room + 1)
  /\ UNCHANGED <<at, inline, open, errors, mark, hist, line>>
AllocRest ==
  /\ todo > 0 /\ todo <= Room
  /\ memp' = memp + todo
  /\ todo' = 0
  /\ UNCHANGED <<at, data, lastp, lastaddr, inline, open, errors, mark, hist, line>>

\* memskip
Skip(db) ==
  /\ Piece
  /\ GoOn(at, hist, db)
  /\ MemJmp(memp, at'.address)
  /\ UNCHANGED <<memp, todo, open, line>>

\* *=, starhandle; v is -1 for a value that is no address.
Star(v) ==
  /\ Ready
  /\ LET a == [Left(at) EXCEPT !.wrapwarn = FALSE]
         adr == IF Flat /\ Logicals = {} THEN v ELSE (at.address + v - at.l_address) % Size
     IN IF v = -1 THEN GoTo(a)
        ELSE GoTo([a EXCEPT !.address = adr, !.l_address = v % (AllMem + 1)])
  /\ hist' = Moved(hist)
  /\ UNCHANGED <<inline, errors>>

\* .offs
Offs(i) ==
  /\ Ready
  /\ GoTo([Left(at) EXCEPT !.wrapwarn = FALSE, !.address = (at.l_address + i) % Size])
  /\ hist' = Moved(hist)
  /\ UNCHANGED <<inline, errors>>

\* A label
Label ==
  /\ Ready
  /\ mark' = [addr |-> at.address, membp |-> Len(data) + 1, from |-> memp,
              straight |-> TRUE, refs |-> FALSE]
  /\ UNCHANGED <<at, blocks, todo, inline, open, errors, hist, line>>

-----------------------------------------------------------------------------
(***************************************************************************)
(* Blocks that change how addresses are counted.                           *)
(***************************************************************************)
Last1 == open[Len(open)]
Opened(what) ==
  /\ Ready /\ Len(open) < MaxOpen
  /\ open' = Append(open, [what |-> what, unionmode |-> at.unionmode,
                           start |-> at.start, end |-> at.end, l_union |-> at.l_union,
                           laddr |-> IF at.unionmode THEN at.l_union ELSE at.l_address,
                           addr |-> at.address])
  /\ UNCHANGED line
Ends(what) ==
  /\ Ready /\ open # <<>> /\ Last1.what = what
  /\ open' = SubSeq(open, 1, Len(open) - 1)
  /\ UNCHANGED <<inline, line>>

Logical(v) ==
  /\ Opened("logical")
  /\ at' = IF v = -1 THEN at
           ELSE IF at.unionmode THEN [at EXCEPT !.l_union = v]
           ELSE [at EXCEPT !.l_address = v]
  /\ UNCHANGED <<blocks, todo, inline, errors, mark, hist>>

\* logical_close
Here ==
  /\ Ends("logical")
  /\ LET diff == (at.address - Last1.addr) % Size
     IN at' = IF at.unionmode THEN [at EXCEPT !.l_union = Last1.laddr]
              ELSE [at EXCEPT !.l_address = (Last1.laddr + diff) % (AllMem + 1)]
  /\ UNCHANGED <<blocks, todo, errors, mark, hist>>

\* .union, .dstruct and .dunion begin a range of addresses of their own.
Below == at.moved /\ at.address < at.start
Range1(what, unionmode) ==
  /\ Opened(what)
  /\ at' = [at EXCEPT !.unionmode = unionmode, !.start = at.address, !.end = at.address,
                      !.l_union = at.l_address]
  /\ hist' = [hist EXCEPT !.below = @ \/ Below]
  /\ UNCHANGED <<blocks, todo, inline, errors, mark>>
Union == Range1("union", TRUE)
Dstruct == Range1("dstruct", FALSE)
Dunion == Range1("dunion", TRUE)
Struct ==
  /\ Opened("struct")
  /\ at' = [at EXCEPT !.unionmode = FALSE]
  /\ UNCHANGED <<blocks, todo, inline, errors, mark, hist>>

Higher(x, y) == IF x > y THEN x ELSE y
\* The space that its longest line takes is skipped behind a union.
SkipTo(a, h, end) ==
  IF end > a.address
  THEN /\ GoOn(a, h, end - a.address)
       /\ MemJmp(memp, at'.address)
       /\ UNCHANGED <<memp, todo>>
  ELSE at' = a /\ UNCHANGED <<blocks, todo, errors, mark, hist>>

\* union_close
Endu ==
  /\ Ends("union")
  /\ LET end == Higher(at.address, at.end)
         a == [at EXCEPT !.unionmode = Last1.unionmode, !.l_union = Last1.l_union,
                         !.start = Last1.start, !.end = Higher(Last1.end, end)]
     IN SkipTo([a EXCEPT !.wrapwarn = @ /\ end <= at.address], Moved(hist), end)
EndStruct ==
  /\ Ends("struct")
  /\ at' = [at EXCEPT !.unionmode = Last1.unionmode]
  /\ UNCHANGED <<blocks, todo, errors, mark, hist>>
EndInstance ==
  /\ Ends("dstruct") \/ Ends("dunion")
  /\ SkipTo([at EXCEPT !.unionmode = Last1.unionmode, !.l_union = Last1.l_union,
                       !.start = Last1.start, !.end = Higher(Last1.end, at.end)], hist,
            IF at.unionmode THEN at.end ELSE at.address)

\* .dsection: memref and memskip.  The block of the other memory comes first.
Dsection(t) ==
  /\ Ready /\ Cardinality(DOMAIN data \ Own) < MaxRefs
  /\ LET d == Append(data, [p |-> lastp, addr |-> at.address, len |-> t, ref |-> TRUE]) IN
     IF t = 0
     THEN /\ data' = d
          /\ mark' = [mark EXCEPT !.refs = TRUE]
          /\ UNCHANGED <<at, memp, lastp, lastaddr, todo, errors, hist>>
     ELSE /\ at' = Advanced(at, t)
          /\ errors' = errors \cup Complaints(at, t)
          /\ data' = Closed(d, memp) /\ lastp' = memp /\ lastaddr' = at'.address
          /\ mark' = [mark EXCEPT !.refs = TRUE]
          /\ hist' = Filled(hist, at, t)
          /\ UNCHANGED <<memp, todo>>
  /\ UNCHANGED <<inline, open, line>>
-----------------------------------------------------------------------------
(***************************************************************************)
(* Reading: the byte k behind the label, by the blocks from there on, or   *)
(* -1.  walked[i] is the way to block i, gaps included.                    *)
(***************************************************************************)
OpenBlock == [p |-> lastp, addr |-> lastaddr, len |-> Pending, ref |-> FALSE]
Path == Append(SubSeq(data, mark.membp, Len(data)), OpenBlock)
Walked(way, from) ==
  LET walked[i \in DOMAIN way] ==
        IF i = 1 THEN (way[1].addr - from) % Size
        ELSE walked[i - 1] + way[i - 1].len
               + ((way[i].addr - (way[i - 1].addr + way[i - 1].len)) % Size)
  IN walked

\* Mutant: a block that begins before the label is read from its begin.
ReadFromBlock(k) ==
  LET walked == Walked(Path, mark.addr)
      hit == {i \in DOMAIN Path : walked[i] <= k /\ k < walked[i] + Path[i].len}
  IN IF hit = {} THEN -1
     ELSE LET i == CHOOSE j \in hit : TRUE IN Path[i].p + k - walked[i]

\* read_mem, as the number of the byte in the array
ReadMem(k) ==
  LET from == IF mark.addr > Path[1].addr THEN Path[1].addr ELSE mark.addr
      offs == k + mark.addr - from
      walked == Walked(Path, from)
      hit == {i \in DOMAIN Path : walked[i] <= offs /\ offs < walked[i] + Path[i].len}
  IN IF hit = {} THEN -1
     ELSE LET i == CHOOSE j \in hit : TRUE IN Path[i].p + offs - walked[i]

-----------------------------------------------------------------------------
(***************************************************************************)
(* The section begins somewhere; .logical may be in force.                 *)
(***************************************************************************)
Init ==
  /\ \E a \in Starts, l \in Values \ {-1} :
       /\ Flat => l = a % (AllMem + 1)
       /\ at = [address |-> a, l_address |-> l, start |-> a, end |-> a, l_union |-> l,
                unionmode |-> FALSE, moved |-> FALSE, wrapwarn |-> FALSE]
       /\ lastaddr = a
       /\ hist = [top |-> FALSE, over |-> FALSE, below |-> FALSE]
       /\ mark = [addr |-> a, membp |-> 1, from |-> 0, straight |-> TRUE,
                  refs |-> FALSE]
  /\ line \in Alphabets
  /\ memp = 0 /\ data = <<>> /\ lastp = 0
  /\ todo = 0 /\ inline = FALSE /\ open = <<>> /\ errors = {}

Data ==
  \/ \E db \in 1 .. MaxData : Poke(db)
  \/ "skip" \in line /\ \E db \in 1 .. MaxData : Skip(db)
  \/ "label" \in line /\ Label
  \/ "dsection" \in line /\ \E t \in 0 .. MaxData : Dsection(t)
Moves ==
  \/ "star" \in line /\ \E v \in Values : Star(v)
  \/ "offs" \in line /\ \E i \in -1 .. 1 : Offs(i)
Opens ==
  \/ "logical" \in line /\ \E v \in Values : Logical(v)
  \/ "union" \in line /\ (Union \/ Struct)
  \/ "instance" \in line /\ (Dstruct \/ Dunion)
Closes == Here \/ Endu \/ EndStruct \/ EndInstance

Next == LineStart \/ AllocWraps \/ AllocRest \/ Data \/ Moves \/ Opens \/ Closes

Spec == Init /\ [][Next]_vars

-----------------------------------------------------------------------------
(***************************************************************************)
(* Properties.                                                             *)
(***************************************************************************)

\* The address of byte p of the array, as the output will have it.
AddrOf(p) ==
  LET in == {i \in Own : data[i].p <= p /\ p < data[i].p + data[i].len}
  IN IF in = {} THEN lastaddr + p - lastp
     ELSE LET i == CHOOSE j \in in : TRUE IN data[i].addr + p - data[i].p

\* The list of blocks stands for an image in which each byte is at the address
\* that was current when it was produced, wrapping at the top, and stays there.
\* The address of the section is counted apart from the blocks (pokealloc,
\* memskip, memjmp, alloc_mem): the two must never drift.
I == INSTANCE Image WITH pos <- (at.address - todo) % Size,
                         log <- [p \in 1 .. memp |-> AddrOf(p - 1)]
Implements == I!Spec

\* Where the section, with the ranges inside it that are still open, ends
Limit == Max({at.end} \cup {open[i].end : i \in DOMAIN open}
               \cup IF at.moved THEN {} ELSE {at.address})
Begin == IF open = <<>> THEN at.start
         ELSE LET own == Kinds({"union", "dstruct", "dunion"})
              IN IF own = {} THEN at.start ELSE open[Min(own)].start

\* The bytes of a section are inside the space that start and end span, so that
\* the size of a section, a union or a label covers them, or it was complained.
\* A range that is opened below the start escapes the complaint.
Covered ==
  todo = 0 /\ errors \cap {"section", "wrap"} = {} /\ ~hist.below
    => \A p \in 0 .. memp - 1 : Begin <= AddrOf(p) /\ AddrOf(p) < Limit

\* When more than the memory holds was placed, it was complained, also when
\* the top was reached exactly and the rest came in a later line.
NoSilentWrap == hist.over => "wrap" \in errors

\* A label that is read as code gives the bytes that were placed behind it, at
\* the addresses they were placed at (read_mem); all of them, if the address
\* was not set in between.
ReadsBack ==
  todo = 0 /\ ~mark.refs =>
    /\ \A k \in 0 .. AllMem2 :
         LET p == ReadMem(k)
         IN p # -1 => mark.from <= p /\ p < memp /\ AddrOf(p) = (mark.addr + k) % Size
    /\ mark.straight /\ "wrap" \notin errors =>
         \A p \in mark.from .. memp - 1 : ReadMem((AddrOf(p) - mark.addr) % Size) = p
=============================================================================
