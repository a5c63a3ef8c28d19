---------------------------- MODULE SectionsProofs ----------------------------
(***************************************************************************)
(* Where sections are put, for every program, any number of sections and   *)
(* any number of passes: bytes are where labels say, no fragment is lost,  *)
(* and the passes end.                                                     *)
(***************************************************************************)
EXTENDS Sections, WellFoundedInduction, TLAPS

(***************************************************************************)
(* The invariant.  A section by itself: the byte that comes next is where  *)
(* the address says (InStep), and the closed blocks are where the labels   *)
(* of their fragments say (BlocksRight).                                   *)
(***************************************************************************)
Block == [addr : Int, len : Int, off : Int]
SectionType == [usepass : Nat, defpass : Nat, restart : Int, l_restart : Int, size : Int,
                start : Int, end : Int, address : Int, moved : BOOLEAN,
                blocks : Seq(Block), lastaddr : Int, pending : Nat]

InStep(s) == s.lastaddr + s.pending = s.address /\ s.start = s.restart
\* The program counter of a section is its address.
Level(s) == s.l_restart = s.restart
BlocksRight(s) == \A i \in DOMAIN s.blocks : s.blocks[i].addr = s.restart + s.blocks[i].off

TypeOK ==
  /\ prog \in Programs /\ amount \in [DOMAIN prog -> 1 .. 2] /\ pc \in Nat \ {0}
  /\ pass \in Nat \ {0} /\ fixeddig \in BOOLEAN /\ here \in Int
  /\ section \in [Names -> SectionType] /\ reserved \in [Names -> Int]
  /\ stage \in {"pass", "done", "gave up"}

\* The passes a section was used and placed in
Dated(s, p) == s.usepass <= p /\ s.defpass <= s.usepass /\ (s.usepass = p => s.defpass >= p - 1)
\* What is known of a section in pass p, whose space is r, unless another pass follows
Settled(s, p, r) ==
  s.defpass = p => s.size <= r /\ (r = s.size \/ r <= EndOf(s) - s.start)
Known(s, p, fixed, r) ==
  /\ InStep(s) /\ Dated(s, p)
  /\ s.usepass = p /\ (s.defpass = p => fixed) => BlocksRight(s)
  /\ fixed => Settled(s, p, r)
Sure(n) == fixeddig /\ n \notin shifted
\* A section without .logical is compared whenever it is placed.
Compared(n) == Level(section[n]) /\ (fixeddig => n \notin shifted)
Aware(n) == Known(section[n], pass, Sure(n), reserved[n])
SectionsOK == \A n \in Names : Aware(n) /\ (Logically(n) \/ Compared(n))

\* A line that places its section, when the values are v
Met(v, i) == prog[i].op = "dsection" /\ (prog[i].var => v[i] = 2)
Places(v, n) == \E i \in DOMAIN prog : Met(v, i) /\ prog[i].sec = n
\* What the lines before this one have done: a section has a place in this pass by one of
\* its lines, and in the pass before by one of that pass, unless a fragment gave it one and
\* asked for another pass.
PlacesOK ==
  /\ \A i \in DOMAIN prog : i < pc /\ Met(amount, i) => section[prog[i].sec].defpass = pass
  /\ \A n \in Names : section[n].defpass = pass => Places(amount, n)
  /\ \A n \in Names : section[n].defpass = pass - 1 =>
       \/ section[n].usepass = 0 \/ Places(before, n)
       \/ section[n].usepass = pass /\ (~fixeddig \/ errors # {})

(***************************************************************************)
(* What the operations do to one section.                                  *)
(***************************************************************************)

\* The end of a section is a number, not below its address unless that was set.
LEMMA EndType ==
  ASSUME NEW s \in SectionType
  PROVE  EndOf(s) \in Int
BY DEF EndOf, SectionType

\* The components of a section are numbers, and a sequence of blocks.
LEMMA Fields ==
  ASSUME NEW s \in SectionType
  PROVE  /\ s.usepass \in Nat /\ s.defpass \in Nat /\ s.restart \in Int /\ s.l_restart \in Int
         /\ s.size \in Int /\ s.start \in Int /\ s.end \in Int /\ s.address \in Int
         /\ s.moved \in BOOLEAN /\ s.blocks \in Seq(Block) /\ s.lastaddr \in Int /\ s.pending \in Nat
BY DEF SectionType

\* new_memblocks: the section begins anew at a.
LEMMA EmptiedIs ==
  ASSUME NEW s \in SectionType, NEW a \in Int
  PROVE  /\ Emptied(s, a) \in SectionType
         /\ Emptied(s, a).start = a /\ Emptied(s, a).end = a /\ Emptied(s, a).restart = a
         /\ Emptied(s, a).address = a /\ Emptied(s, a).lastaddr = a /\ Emptied(s, a).pending = 0
         /\ Emptied(s, a).blocks = <<>> /\ Emptied(s, a).size = s.size
         /\ Emptied(s, a).moved = s.moved /\ Emptied(s, a).l_restart = s.l_restart
         /\ Emptied(s, a).usepass = s.usepass /\ Emptied(s, a).defpass = s.defpass
<1>1. <<>> \in Seq(Block)
  OBVIOUS
<1>. QED BY <1>1 DEF Emptied, SectionType

\* What goes on in a section between its .dsection lines: bytes and gaps.
Goes(s, t) ==
  /\ t \in SectionType
  /\ t.usepass = s.usepass /\ t.defpass = s.defpass /\ t.restart = s.restart
  /\ t.l_restart = s.l_restart /\ t.size = s.size /\ t.start = s.start
  /\ InStep(s) => InStep(t)
  /\ InStep(s) /\ BlocksRight(s) => BlocksRight(t)
  /\ EndOf(s) <= EndOf(t)

\* What goes on twice goes on.
LEMMA GoesOn ==
  ASSUME NEW s \in SectionType, NEW t, NEW u, Goes(s, t), Goes(t, u)
  PROVE  Goes(s, u)
<1>1. EndOf(s) \in Int /\ EndOf(t) \in Int /\ EndOf(u) \in Int
  BY EndType DEF Goes
<1>2. EndOf(s) <= EndOf(t) /\ EndOf(t) <= EndOf(u)
  BY DEF Goes
<1>3. EndOf(s) <= EndOf(u)
  BY <1>1, <1>2
<1>. QED BY <1>3 DEF Goes

\* pokealloc: bytes are added behind the address.
LEMMA PokeGoes ==
  ASSUME NEW s \in SectionType, NEW n \in Nat
  PROVE  Goes(s, Poke(s, n))
<1>. DEFINE t == Poke(s, n)
<1>1. /\ t.usepass = s.usepass /\ t.defpass = s.defpass /\ t.restart = s.restart
      /\ t.l_restart = s.l_restart /\ t.size = s.size /\ t.start = s.start
      /\ t.end = s.end /\ t.blocks = s.blocks /\ t.lastaddr = s.lastaddr
  BY DEF Poke, SectionType
<1>2. t.address = s.address + n /\ t.pending = s.pending + n /\ t.moved = FALSE
  BY DEF Poke, SectionType
<1>3. t \in SectionType
  <2>1. PICK a \in Int, p \in Nat : a = s.address + n /\ p = s.pending + n
    BY DEF SectionType
  <2>2. t = [s EXCEPT !.address = a, !.pending = p, !.moved = FALSE]
    BY <2>1 DEF Poke
  <2>3. [s EXCEPT !.address = a, !.pending = p, !.moved = FALSE] \in SectionType
    BY DEF SectionType
  <2>. QED BY <2>2, <2>3
<1>. HIDE DEF t
<1>4. InStep(s) => InStep(t)
  BY <1>1, <1>2 DEF InStep, SectionType
<1>5. BlocksRight(s) => BlocksRight(t)
  BY <1>1 DEF BlocksRight
<1>6. EndOf(s) <= EndOf(t)
  BY <1>1, <1>2 DEF EndOf, SectionType
<1>. QED BY <1>1, <1>3, <1>4, <1>5, <1>6 DEF Goes, t

\* memjmp, when the section goes on at a
LEMMA MemJmpIs ==
  ASSUME NEW s \in SectionType, NEW a \in Int
  PROVE  LET t == MemJmp(s, a) IN
         /\ t \in SectionType
         /\ t.usepass = s.usepass /\ t.defpass = s.defpass /\ t.restart = s.restart
         /\ t.l_restart = s.l_restart /\ t.size = s.size /\ t.start = s.start
         /\ t.end = s.end /\ t.address = s.address /\ t.moved = s.moved
         /\ t.lastaddr = a /\ t.pending = 0
         /\ InStep(s) /\ BlocksRight(s) => BlocksRight(t)
<1>. DEFINE t == MemJmp(s, a)
<1>1. CASE s.pending = 0
  <2>1. t = [s EXCEPT !.lastaddr = a]
    BY <1>1 DEF MemJmp
  <2>2. t \in SectionType /\ t.blocks = s.blocks /\ t.restart = s.restart
    BY <2>1 DEF SectionType
  <2>. QED BY <1>1, <2>1, <2>2 DEF SectionType, BlocksRight
<1>2. CASE s.pending # 0
  <2>. DEFINE b == [addr |-> s.lastaddr, len |-> s.pending,
                    off |-> s.address - s.pending - s.restart]
  <2>1. t = [s EXCEPT !.blocks = Append(s.blocks, b), !.pending = 0, !.lastaddr = a]
    BY <1>2 DEF MemJmp
  <2>2. b \in Block
    BY DEF Block, SectionType
  <2>3. Append(s.blocks, b) \in Seq(Block)
    BY <2>2 DEF SectionType
  <2>4. t \in SectionType /\ t.blocks = Append(s.blocks, b) /\ t.restart = s.restart
    <3>1. PICK c \in Seq(Block) : c = Append(s.blocks, b)
      BY <2>3
    <3>2. t = [s EXCEPT !.blocks = c, !.pending = 0, !.lastaddr = a]
      BY <2>1, <3>1
    <3>3. /\ [s EXCEPT !.blocks = c, !.pending = 0, !.lastaddr = a] \in SectionType
          /\ [s EXCEPT !.blocks = c, !.pending = 0, !.lastaddr = a].blocks = c
          /\ [s EXCEPT !.blocks = c, !.pending = 0, !.lastaddr = a].restart = s.restart
      BY DEF SectionType
    <3>. QED BY <3>1, <3>2, <3>3
  <2>5. ASSUME InStep(s), BlocksRight(s) PROVE BlocksRight(t)
    <3>1. b.addr = s.restart + b.off
      BY <2>5 DEF InStep, SectionType
    <3>2. ASSUME NEW i \in DOMAIN Append(s.blocks, b)
          PROVE  Append(s.blocks, b)[i].addr = s.restart + Append(s.blocks, b)[i].off
      <4>1. s.blocks \in Seq(Block)
        BY DEF SectionType
      <4>2. i \in 1 .. Len(s.blocks) + 1
        BY <4>1
      <4>3. CASE i = Len(s.blocks) + 1
        BY <3>1, <4>1, <4>3
      <4>4. CASE i # Len(s.blocks) + 1
        <5>1. i \in DOMAIN s.blocks /\ Append(s.blocks, b)[i] = s.blocks[i]
          BY <4>1, <4>2, <4>4
        <5>. QED BY <2>5, <5>1 DEF BlocksRight
      <4>. QED BY <4>3, <4>4
    <3>. QED BY <2>4, <3>2 DEF BlocksRight
  <2>. QED BY <2>1, <2>4, <2>5 DEF SectionType
<1>. QED BY <1>1, <1>2

\* memskip: the pending bytes are closed, and the address moves on.
LEMMA SkipGoes ==
  ASSUME NEW s \in SectionType, NEW n \in Nat
  PROVE  Goes(s, Skip(s, n))
<1>1. PICK a \in Int : a = s.address + n
  BY DEF SectionType
<1>2. PICK c \in SectionType :
        /\ c = MemJmp(s, a)
        /\ c.usepass = s.usepass /\ c.defpass = s.defpass /\ c.restart = s.restart
        /\ c.l_restart = s.l_restart /\ c.size = s.size /\ c.start = s.start
        /\ c.end = s.end /\ c.address = s.address /\ c.moved = s.moved
        /\ c.lastaddr = a /\ c.pending = 0
        /\ InStep(s) /\ BlocksRight(s) => BlocksRight(c)
  BY MemJmpIs
<1>3. PICK t : t = [c EXCEPT !.address = a, !.moved = FALSE]
  OBVIOUS
<1>4. Skip(s, n) = t
  BY <1>1, <1>2, <1>3 DEF Skip
<1>5. t \in SectionType
  BY <1>3 DEF SectionType
<1>6. /\ t.usepass = s.usepass /\ t.defpass = s.defpass /\ t.restart = s.restart
      /\ t.l_restart = s.l_restart /\ t.size = s.size /\ t.start = s.start
      /\ t.end = s.end /\ t.blocks = c.blocks /\ t.lastaddr = a
  BY <1>2, <1>3 DEF SectionType
<1>7. t.address = a /\ t.pending = 0 /\ t.moved = FALSE
  BY <1>2, <1>3 DEF SectionType
<1>8. InStep(s) => InStep(t)
  BY <1>6, <1>7 DEF InStep
<1>9. InStep(s) /\ BlocksRight(s) => BlocksRight(t)
  BY <1>2, <1>6 DEF BlocksRight
<1>10. EndOf(s) <= EndOf(t)
  <2>1. s.end \in Int /\ s.address \in Int /\ s.address <= a
    BY <1>1, Fields
  <2>2. EndOf(t) = IF s.end < a THEN a ELSE s.end
    BY <1>6, <1>7 DEF EndOf
  <2>3. EndOf(s) \in {s.end, s.address}
    BY DEF EndOf
  <2>. QED BY <1>1, <2>1, <2>2, <2>3
<1>. QED BY <1>4, <1>5, <1>6, <1>8, <1>9, <1>10 DEF Goes

\* The lines of a fragment
LEMMA FilledGoes ==
  ASSUME NEW s \in SectionType, NEW n \in Nat, NEW gap \in BOOLEAN
  PROVE  Goes(s, Filled(s, n, gap))
<1>1. PICK p \in SectionType : p = Poke(s, n) /\ Goes(s, p)
  BY PokeGoes DEF Goes
<1>2. PICK q \in SectionType : q = Skip(p, 1) /\ Goes(p, q)
  BY SkipGoes DEF Goes
<1>3. PICK r \in SectionType : r = Poke(q, 1) /\ Goes(q, r)
  BY PokeGoes DEF Goes
<1>4. Goes(s, q)
  BY <1>1, <1>2, GoesOn
<1>5. Goes(s, r)
  BY <1>3, <1>4, GoesOn
<1>. QED BY <1>1, <1>2, <1>3, <1>5 DEF Filled

\* A .dsection behind fragments moves what is not in a block.
LEMMA ShiftedIs ==
  ASSUME NEW s \in SectionType, NEW a \in Int
  PROVE  LET t == Shifted(s, a) IN
         /\ t \in SectionType
         /\ t.size = s.size /\ t.start = a /\ t.restart = a
         /\ t.lastaddr = s.lastaddr + (a - s.restart) /\ t.address = s.address + (a - s.restart)
         /\ t.pending = s.pending /\ t.blocks = s.blocks
         /\ t.end = s.end + (a - s.restart) /\ t.moved = s.moved
<1>1. PICK e \in Int, d \in Int, l \in Int :
        /\ e = s.end + (a - s.restart) /\ d = s.address + (a - s.restart)
        /\ l = s.lastaddr + (a - s.restart)
  BY DEF SectionType
<1>2. PICK t : t = [s EXCEPT !.end = e, !.address = d, !.lastaddr = l, !.start = a, !.restart = a]
  OBVIOUS
<1>3. Shifted(s, a) = t
  BY <1>1, <1>2 DEF Shifted
<1>4. t \in SectionType
  BY <1>2 DEF SectionType
<1>5. t.size = s.size /\ t.start = a /\ t.restart = a /\ t.lastaddr = l /\ t.address = d
  BY <1>2 DEF SectionType
<1>6. t.pending = s.pending /\ t.blocks = s.blocks /\ t.end = e /\ t.moved = s.moved
  BY <1>2 DEF SectionType
<1>. QED BY <1>1, <1>3, <1>4, <1>5, <1>6

\* What .dsection does last
Marked(s, l, p) == [s EXCEPT !.l_restart = l, !.usepass = p, !.defpass = p]
\* It changes only the marks of the section.
LEMMA MarkedIs ==
  ASSUME NEW s \in SectionType, NEW l \in Int, NEW p \in Nat
  PROVE  LET t == Marked(s, l, p) IN
         /\ t \in SectionType
         /\ t.size = s.size /\ t.start = s.start /\ t.restart = s.restart /\ t.l_restart = l
         /\ t.usepass = p /\ t.defpass = p
         /\ t.lastaddr = s.lastaddr /\ t.address = s.address
         /\ t.pending = s.pending /\ t.blocks = s.blocks /\ t.end = s.end /\ t.moved = s.moved
<1>1. PICK t : t = [s EXCEPT !.l_restart = l, !.usepass = p, !.defpass = p]
  OBVIOUS
<1>2. t \in SectionType
  BY <1>1 DEF SectionType
<1>3. t.size = s.size /\ t.start = s.start /\ t.restart = s.restart /\ t.l_restart = l
  BY <1>1 DEF SectionType
<1>4. t.usepass = p /\ t.defpass = p /\ t.lastaddr = s.lastaddr /\ t.address = s.address
  BY <1>1 DEF SectionType
<1>5. t.pending = s.pending /\ t.blocks = s.blocks /\ t.end = s.end /\ t.moved = s.moved
  BY <1>1 DEF SectionType
<1>. QED BY <1>1, <1>2, <1>3, <1>4, <1>5 DEF Marked

\* The same, and no fragment before: the size of the pass before is kept.
LEMMA RestartedIs ==
  ASSUME NEW s \in SectionType, NEW a \in Int
  PROVE  LET t == Restarted(s, a) IN
         /\ t \in SectionType
         /\ t.size = EndOf(s) - s.start /\ t.start = a /\ t.restart = a
         /\ t.lastaddr = a /\ t.address = a /\ t.pending = 0 /\ t.blocks = <<>>
         /\ t.usepass = s.usepass /\ t.defpass = s.defpass /\ t.l_restart = s.l_restart
<1>1. PICK e \in SectionType :
        /\ e = Emptied(s, a) /\ e.start = a /\ e.restart = a /\ e.address = a /\ e.lastaddr = a
        /\ e.pending = 0 /\ e.blocks = <<>>
        /\ e.usepass = s.usepass /\ e.defpass = s.defpass /\ e.l_restart = s.l_restart
  BY EmptiedIs
<1>2. PICK z \in Int : z = EndOf(s) - s.start
  <2>1. EndOf(s) \in Int
    BY EndType
  <2>2. s.start \in Int
    BY Fields
  <2>. QED BY <2>1, <2>2
<1>3. PICK t : t = [e EXCEPT !.size = z, !.moved = TRUE]
  OBVIOUS
<1>4. Restarted(s, a) = t
  BY <1>1, <1>2, <1>3 DEF Restarted
<1>5. t \in SectionType
  BY <1>3 DEF SectionType
<1>6. t.size = z /\ t.start = a /\ t.restart = a
  BY <1>1, <1>3 DEF SectionType
<1>7. t.lastaddr = a /\ t.address = a /\ t.pending = 0 /\ t.blocks = <<>>
  BY <1>1, <1>3 DEF SectionType
<1>8. t.usepass = s.usepass /\ t.defpass = s.defpass /\ t.l_restart = s.l_restart
  BY <1>1, <1>3 DEF SectionType
<1>. QED BY <1>2, <1>4, <1>5, <1>6, <1>7, <1>8

\* A section that was lost is put anew, by .section,
Anew(s, a, p) == [Emptied(s, a) EXCEPT !.size = 0, !.l_restart = a, !.defpass = p]
\* It is empty, and in step with the program counter of the root section.
LEMMA AnewIs ==
  ASSUME NEW s \in SectionType, NEW a \in Int, NEW p \in Nat
  PROVE  LET t == Anew(s, a, p) IN
         /\ t \in SectionType
         /\ t.blocks = <<>> /\ t.restart = a /\ t.start = a /\ t.l_restart = a
         /\ t.lastaddr = a /\ t.address = a /\ t.pending = 0 /\ t.defpass = p
<1>1. PICK e \in SectionType :
        /\ e = Emptied(s, a) /\ e.start = a /\ e.restart = a /\ e.address = a /\ e.lastaddr = a
        /\ e.pending = 0 /\ e.blocks = <<>>
  BY EmptiedIs
<1>2. PICK t : t = [e EXCEPT !.size = 0, !.l_restart = a, !.defpass = p]
  OBVIOUS
<1>3. t \in SectionType
  <2>1. PICK z \in Int : z = 0
    OBVIOUS
  <2>2. t = [e EXCEPT !.size = z, !.l_restart = a, !.defpass = p]
    BY <1>2, <2>1
  <2>. QED BY <2>2 DEF SectionType
<1>4. t.blocks = <<>> /\ t.restart = a /\ t.start = a /\ t.l_restart = a
  BY <1>1, <1>2 DEF SectionType
<1>5. t.lastaddr = a /\ t.address = a /\ t.pending = 0 /\ t.defpass = p
  BY <1>1, <1>2 DEF SectionType
<1>6. Anew(s, a, p) = t
  BY <1>1, <1>2 DEF Anew
<1>. QED BY <1>3, <1>4, <1>5, <1>6

\* or by .dsection.
Put(s, a, l, p) == [Emptied(s, a) EXCEPT !.moved = FALSE, !.l_restart = l, !.usepass = p]
\* It is empty as well, and marked as used.
LEMMA PutIs ==
  ASSUME NEW s \in SectionType, NEW a \in Int, NEW l \in Int, NEW p \in Nat
  PROVE  LET t == Put(s, a, l, p) IN
         /\ t \in SectionType
         /\ t.blocks = <<>> /\ t.restart = a /\ t.start = a /\ t.lastaddr = a
         /\ t.address = a /\ t.pending = 0 /\ t.usepass = p /\ t.l_restart = l
<1>1. PICK e \in SectionType :
        /\ e = Emptied(s, a) /\ e.start = a /\ e.restart = a /\ e.address = a /\ e.lastaddr = a
        /\ e.pending = 0 /\ e.blocks = <<>>
  BY EmptiedIs
<1>2. PICK t : t = [e EXCEPT !.moved = FALSE, !.l_restart = l, !.usepass = p]
  OBVIOUS
<1>3. t \in SectionType
  BY <1>2 DEF SectionType
<1>4. t.blocks = <<>> /\ t.restart = a /\ t.start = a /\ t.lastaddr = a
  BY <1>1, <1>2 DEF SectionType
<1>5. t.address = a /\ t.pending = 0 /\ t.usepass = p /\ t.l_restart = l
  BY <1>1, <1>2 DEF SectionType
<1>6. Put(s, a, l, p) = t
  BY <1>1, <1>2 DEF Put
<1>. QED BY <1>3, <1>4, <1>5, <1>6

\* A fragment notes the pass.
LEMMA UsedIs ==
  ASSUME NEW f \in SectionType, NEW p \in Nat
  PROVE  LET t == [f EXCEPT !.usepass = p] IN
         /\ t \in SectionType /\ t.usepass = p /\ t.defpass = f.defpass
         /\ t.size = f.size /\ t.start = f.start /\ EndOf(t) = EndOf(f)
         /\ t.restart = f.restart /\ t.l_restart = f.l_restart
         /\ InStep(t) <=> InStep(f)
         /\ BlocksRight(t) <=> BlocksRight(f)
<1>1. PICK t : t = [f EXCEPT !.usepass = p]
  OBVIOUS
<1>2. t \in SectionType
  BY <1>1 DEF SectionType
<1>3. t.usepass = p /\ t.defpass = f.defpass /\ t.size = f.size /\ t.start = f.start
  BY <1>1 DEF SectionType
<1>4. t.end = f.end /\ t.moved = f.moved /\ t.address = f.address /\ t.lastaddr = f.lastaddr
  BY <1>1 DEF SectionType
<1>5. t.pending = f.pending /\ t.restart = f.restart /\ t.l_restart = f.l_restart /\ t.blocks = f.blocks
  BY <1>1 DEF SectionType
<1>6. EndOf(t) = EndOf(f)
  BY <1>4 DEF EndOf
<1>7. InStep(t) <=> InStep(f)
  BY <1>3, <1>4, <1>5 DEF InStep
<1>8. BlocksRight(t) <=> BlocksRight(f)
  BY <1>5 DEF BlocksRight
<1>. QED BY <1>1, <1>2, <1>3, <1>5, <1>6, <1>7, <1>8

\* section_start: where the fragment begins.
LEMMA StartedIs ==
  ASSUME pass \in Nat \ {0}, here \in Int, NEW sure \in BOOLEAN, NEW s \in SectionType, NEW r \in Int,
         Known(s, pass, sure, r)
  PROVE  LET t == Started(s) IN
         /\ t \in SectionType /\ InStep(t) /\ (Level(s) => Level(t))
         /\ t.defpass <= pass /\ t.defpass >= pass - 1
         /\ t.defpass = pass => t = s /\ s.usepass = pass
         /\ (t.defpass = pass => sure) => BlocksRight(t)
         /\ t.defpass = IF Lost(s) THEN pass - 1 ELSE s.defpass
<1>1. s.usepass \in Nat /\ s.defpass \in Nat /\ s.restart \in Int /\ s.l_restart \in Int
  BY Fields
<1>2. InStep(s) /\ s.usepass <= pass /\ s.defpass <= s.usepass
  BY DEF Known, Dated
<1>3. CASE Lost(s)
  <2>1. PICK q \in Nat : q = pass - 1
    OBVIOUS
  <2>6. PICK h \in Int : h = here
    OBVIOUS
  <2>2. PICK t \in SectionType :
          /\ t = Anew(s, h, q)
          /\ t.blocks = <<>> /\ t.restart = h /\ t.start = h /\ t.l_restart = h
          /\ t.lastaddr = h /\ t.address = h /\ t.pending = 0 /\ t.defpass = q
    <3>1. s \in SectionType /\ h \in Int /\ q \in Nat
      BY <2>1, <2>6
    <3>2. /\ Anew(s, h, q) \in SectionType
          /\ Anew(s, h, q).blocks = <<>> /\ Anew(s, h, q).restart = h /\ Anew(s, h, q).start = h
          /\ Anew(s, h, q).l_restart = h /\ Anew(s, h, q).lastaddr = h
          /\ Anew(s, h, q).address = h /\ Anew(s, h, q).pending = 0 /\ Anew(s, h, q).defpass = q
      BY ONLY <3>1, AnewIs
    <3>. QED BY ONLY <3>2
  <2>3. Started(s) = t
    BY <1>3, <2>1, <2>2, <2>6 DEF Started, Anew
  <2>4. InStep(t) /\ BlocksRight(t) /\ Level(t)
    BY <2>2 DEF InStep, BlocksRight, Level
  <2>5. q <= pass /\ q >= pass - 1 /\ q # pass
    BY <2>1
  <2>. QED BY <1>3, <2>1, <2>2, <2>3, <2>4, <2>5
<1>4. CASE ~Lost(s) /\ s.usepass # pass
  <2>1. PICK t \in SectionType :
          /\ t = Restarted(s, s.restart)
          /\ t.start = s.restart /\ t.restart = s.restart
          /\ t.lastaddr = s.restart /\ t.address = s.restart /\ t.pending = 0 /\ t.blocks = <<>>
          /\ t.usepass = s.usepass /\ t.defpass = s.defpass /\ t.l_restart = s.l_restart
    BY <1>1, RestartedIs
  <2>2. Started(s) = t
    BY <1>4, <2>1 DEF Started, Restarted
  <2>3. InStep(t) /\ BlocksRight(t) /\ (Level(s) => Level(t))
    BY <1>1, <1>2, <2>1 DEF InStep, BlocksRight, Level
  <2>4. s.defpass >= pass - 1 /\ s.defpass # pass /\ s.defpass <= pass
    BY <1>1, <1>2, <1>4 DEF Lost
  <2>. QED BY <1>4, <2>1, <2>2, <2>3, <2>4
<1>5. CASE ~Lost(s) /\ s.usepass = pass
  <2>1. Started(s) = s
    BY <1>5 DEF Started
  <2>2. s.defpass >= pass - 1 /\ s.defpass <= pass
    BY <1>1, <1>2, <1>5 DEF Lost
  <2>. QED BY <1>2, <1>5, <2>1, <2>2 DEF Known
<1>. QED BY <1>3, <1>4, <1>5

\* The section after a fragment
Extended(s, n, gap) == [Filled(Started(s), n, gap) EXCEPT !.usepass = pass]
\* A fragment goes on in a section that is placed in this pass, and leaves what is known
\* of one.
LEMMA FragmentKnown ==
  ASSUME pass \in Nat \ {0}, here \in Int, NEW sure \in BOOLEAN, NEW s \in SectionType, NEW r \in Int,
         Known(s, pass, sure, r), NEW n \in Nat, NEW gap \in BOOLEAN, NEW fixed \in BOOLEAN,
         fixed => sure
  PROVE  LET t == Extended(s, n, gap) IN
         /\ t \in SectionType /\ Known(t, pass, fixed, r) /\ t.usepass = pass
         /\ Level(s) => Level(t)
         /\ t.defpass = IF Lost(s) THEN pass - 1 ELSE s.defpass
<1>1. PICK b \in SectionType :
         /\ b = Started(s) /\ InStep(b) /\ (Level(s) => Level(b))
         /\ b.defpass <= pass /\ b.defpass >= pass - 1
         /\ b.defpass = pass => b = s /\ s.usepass = pass
         /\ (b.defpass = pass => sure) => BlocksRight(b)
         /\ b.defpass = IF Lost(s) THEN pass - 1 ELSE s.defpass
  BY StartedIs
<1>2. PICK f \in SectionType : f = Filled(b, n, gap) /\ Goes(b, f)
  BY FilledGoes DEF Goes
<1>3. PICK p \in Nat : p = pass
  OBVIOUS
<1>4. PICK t \in SectionType :
         /\ t = [f EXCEPT !.usepass = p] /\ t.usepass = p /\ t.defpass = f.defpass
         /\ t.size = f.size /\ t.start = f.start /\ EndOf(t) = EndOf(f)
         /\ t.restart = f.restart /\ t.l_restart = f.l_restart
         /\ InStep(t) <=> InStep(f)
         /\ BlocksRight(t) <=> BlocksRight(f)
  BY UsedIs
<1>5. f.defpass = b.defpass /\ f.size = b.size /\ f.start = b.start /\ EndOf(b) <= EndOf(f)
  BY <1>2 DEF Goes
<1>6. InStep(t)
  BY <1>1, <1>2, <1>4 DEF Goes
<1>7. ASSUME t.defpass = pass => fixed PROVE BlocksRight(t)
  <2>1. BlocksRight(b)
    BY <1>1, <1>4, <1>5, <1>7
  <2>. QED BY <1>1, <1>2, <1>4, <2>1 DEF Goes
<1>8. ASSUME fixed PROVE Settled(t, pass, r)
  <2>. SUFFICES ASSUME t.defpass = pass
                PROVE  t.size <= r /\ (r = t.size \/ r <= EndOf(t) - t.start)
    BY DEF Settled
  <2>1. b = s /\ s.usepass = pass /\ s.defpass = pass
    BY <1>1, <1>4, <1>5
  <2>2. s.size <= r /\ (r = s.size \/ r <= EndOf(s) - s.start)
    BY <1>8, <2>1 DEF Known, Settled
  <2>3. t.size = s.size /\ t.start = s.start /\ EndOf(s) <= EndOf(t)
    BY <1>4, <1>5, <2>1
  <2>4. EndOf(s) \in Int /\ EndOf(t) \in Int /\ s.start \in Int
    BY EndType, Fields
  <2>. QED BY <2>2, <2>3, <2>4
<1>9. Dated(t, pass)
  BY <1>1, <1>3, <1>4, <1>5 DEF Dated
<1>10. Known(t, pass, fixed, r)
  BY <1>6, <1>7, <1>8, <1>9 DEF Known
<1>11. Extended(s, n, gap) = t
  BY <1>1, <1>2, <1>3, <1>4 DEF Extended
<1>12. Level(s) => Level(t)
  BY <1>1, <1>2, <1>4 DEF Goes, Level
<1>. QED BY <1>1, <1>3, <1>4, <1>5, <1>10, <1>11, <1>12

\* .dsection: the section moves to a in pass p, and r is the space left for it.
MovedTo(s, a, p) == IF s.usepass = p THEN Shifted(s, a) ELSE Restarted(s, a)
SpaceOf(s, a, p) == IF s.usepass = p THEN Space(s) ELSE MovedTo(s, a, p).size
\* When the section did not move, its blocks stay right and the space is not too small.
MovesRight(s, a, l, p) ==
  \E t \in SectionType : \E r \in Int :
    /\ t = Marked(MovedTo(s, a, p), l, p) /\ r = SpaceOf(s, a, p)
    /\ InStep(t) /\ t.usepass = p /\ t.defpass = p
    /\ t.restart = a /\ t.l_restart = l
    /\ s.restart = a => t.size <= r /\ (r = t.size \/ r <= EndOf(t) - t.start)
    /\ s.restart = a /\ (s.usepass = p => BlocksRight(s)) => BlocksRight(t)
\* It does so for every section that is in step.
LEMMA MovedIs ==
  ASSUME NEW s \in SectionType, NEW a \in Int, NEW l \in Int, NEW p \in Nat, InStep(s)
  PROVE  MovesRight(s, a, l, p)
<1>1. /\ s.restart \in Int /\ s.size \in Int /\ s.start \in Int /\ s.end \in Int
      /\ s.address \in Int /\ s.lastaddr \in Int /\ s.pending \in Nat
  BY Fields
<1>2. s.lastaddr + s.pending = s.address /\ s.start = s.restart
  BY DEF InStep
<1>3. EndOf(s) \in Int
  BY EndType
<1>4. CASE s.usepass = p
  <2>1. PICK m \in SectionType :
          /\ m = Shifted(s, a)
          /\ m.size = s.size /\ m.start = a /\ m.restart = a
          /\ m.lastaddr = s.lastaddr + (a - s.restart) /\ m.address = s.address + (a - s.restart)
          /\ m.pending = s.pending /\ m.blocks = s.blocks
          /\ m.end = s.end + (a - s.restart) /\ m.moved = s.moved
    BY ONLY ShiftedIs, s \in SectionType, a \in Int
  <2>2. PICK t \in SectionType :
          /\ t = Marked(m, l, p)
          /\ t.size = m.size /\ t.start = m.start /\ t.restart = m.restart /\ t.l_restart = l
          /\ t.usepass = p /\ t.defpass = p
          /\ t.lastaddr = m.lastaddr /\ t.address = m.address
          /\ t.pending = m.pending /\ t.blocks = m.blocks /\ t.end = m.end /\ t.moved = m.moved
    <3>1. m \in SectionType /\ l \in Int /\ p \in Nat
      BY <2>1
    <3>. QED BY ONLY <3>1, MarkedIs
  <2>3. PICK r \in Int : r = Space(s)
    BY <1>1, <1>3 DEF Space, Higher
  <2>4. t = Marked(MovedTo(s, a, p), l, p) /\ r = SpaceOf(s, a, p)
    BY <1>4, <2>1, <2>2, <2>3 DEF MovedTo, SpaceOf
  <2>5. InStep(t)
    <3>1. t.lastaddr + t.pending = t.address
      BY <1>1, <1>2, <2>1, <2>2
    <3>. QED BY <2>1, <2>2, <3>1 DEF InStep
  <2>6. ASSUME s.restart = a
        PROVE  t.size <= r /\ (r = t.size \/ r <= EndOf(t) - t.start)
    <3>1. t.end = s.end /\ t.address = s.address /\ t.moved = s.moved
      BY <1>1, <2>1, <2>2, <2>6
    <3>2. EndOf(t) = EndOf(s)
      BY <3>1 DEF EndOf
    <3>3. t.size = s.size /\ t.start = s.start
      BY <1>2, <2>1, <2>2, <2>6
    <3>. QED BY <1>1, <1>3, <2>3, <3>2, <3>3 DEF Space, Higher
  <2>7. ASSUME s.restart = a, BlocksRight(s)
        PROVE  BlocksRight(t)
    <3>1. t.restart = s.restart /\ t.blocks = s.blocks
      BY <2>1, <2>2, <2>7
    <3>. QED BY <2>7, <3>1 DEF BlocksRight
  <2>. QED BY <1>4, <2>1, <2>2, <2>4, <2>5, <2>6, <2>7 DEF MovesRight
<1>5. CASE s.usepass # p
  <2>1. PICK m \in SectionType :
          /\ m = Restarted(s, a)
          /\ m.size = EndOf(s) - s.start /\ m.start = a /\ m.restart = a
          /\ m.lastaddr = a /\ m.address = a /\ m.pending = 0 /\ m.blocks = <<>>
    BY ONLY RestartedIs, s \in SectionType, a \in Int
  <2>2. PICK t \in SectionType :
          /\ t = Marked(m, l, p)
          /\ t.size = m.size /\ t.start = m.start /\ t.restart = m.restart /\ t.l_restart = l
          /\ t.usepass = p /\ t.defpass = p
          /\ t.lastaddr = m.lastaddr /\ t.address = m.address
          /\ t.pending = m.pending /\ t.blocks = m.blocks /\ t.end = m.end /\ t.moved = m.moved
    <3>1. m \in SectionType /\ l \in Int /\ p \in Nat
      BY <2>1
    <3>. QED BY ONLY <3>1, MarkedIs
  <2>3. PICK r \in Int : r = m.size
    BY <1>1, <1>3, <2>1
  <2>4. t = Marked(MovedTo(s, a, p), l, p) /\ r = SpaceOf(s, a, p)
    BY <1>5, <2>1, <2>2, <2>3 DEF MovedTo, SpaceOf
  <2>5. InStep(t) /\ BlocksRight(t)
    BY <2>1, <2>2 DEF InStep, BlocksRight
  <2>. QED BY <2>1, <2>2, <2>3, <2>4, <2>5 DEF MovesRight
<1>. QED BY <1>4, <1>5

\* .dsection for a section that has no place in this pass yet, when the program
\* counter is l
Found(s, a, l, p) == IF Lost(s) THEN Put(s, a, l, p) ELSE s
\* The section is in step; what else is known of it holds unless it moved or another pass
\* is asked for.
LEMMA DsectionKnown ==
  ASSUME pass \in Nat \ {0}, NEW s \in SectionType, NEW r \in Int, NEW sure \in BOOLEAN,
         Known(s, pass, sure, r), s.defpass # pass, NEW a \in Int, NEW l \in Int,
         NEW p \in Nat, p = pass, NEW still \in BOOLEAN,
         still => ~Lost(s) /\ Found(s, a, l, p).restart = a
  PROVE  \E t \in SectionType : \E q \in Int :
           /\ t = Marked(MovedTo(Found(s, a, l, p), a, p), l, p)
           /\ q = SpaceOf(Found(s, a, l, p), a, p)
           /\ Known(t, pass, still, q)
           /\ t.usepass = p /\ t.defpass = p /\ t.restart = a /\ t.l_restart = l
<1>1. PICK f \in SectionType : f = Found(s, a, l, p) /\ InStep(f) /\ (~Lost(s) => f = s)
  <2>1. CASE Lost(s)
    <3>1. PICK f \in SectionType :
           /\ f = Put(s, a, l, p)
           /\ f.blocks = <<>> /\ f.restart = a /\ f.start = a /\ f.lastaddr = a
           /\ f.address = a /\ f.pending = 0 /\ f.usepass = p /\ f.l_restart = l
      BY ONLY PutIs, s \in SectionType, a \in Int, l \in Int, p \in Nat
    <3>2. InStep(f)
      BY <3>1 DEF InStep
    <3>. QED BY <2>1, <3>1, <3>2 DEF Found
  <2>2. CASE ~Lost(s)
    BY <2>2 DEF Found, Known
  <2>. QED BY <2>1, <2>2
<1>2. PICK t \in SectionType, q \in Int :
           /\ t = Marked(MovedTo(f, a, p), l, p) /\ q = SpaceOf(f, a, p)
           /\ InStep(t) /\ t.usepass = p /\ t.defpass = p
           /\ t.restart = a /\ t.l_restart = l
           /\ f.restart = a => t.size <= q /\ (q = t.size \/ q <= EndOf(t) - t.start)
           /\ f.restart = a /\ (f.usepass = p => BlocksRight(f)) => BlocksRight(t)
  <2>1. f \in SectionType /\ a \in Int /\ l \in Int /\ p \in Nat /\ InStep(f)
    BY <1>1
  <2>2. MovesRight(f, a, l, p)
    BY ONLY <2>1, MovedIs
  <2>. QED BY ONLY <2>2 DEF MovesRight
<1>3. ASSUME still PROVE BlocksRight(t) /\ Settled(t, pass, q)
  <2>1. f = s /\ f.restart = a
    BY <1>1, <1>3
  <2>2. s.usepass = p => BlocksRight(s)
    BY DEF Known
  <2>. QED BY <1>2, <2>1, <2>2 DEF Settled
<1>4. Dated(t, pass)
  BY <1>2 DEF Dated
<1>5. Known(t, pass, still, q)
  BY <1>2, <1>3, <1>4 DEF Known
<1>. QED BY <1>1, <1>2, <1>5

(***************************************************************************)
(* The lines.                                                              *)
(***************************************************************************)

\* The line that is assembled next
LEMMA LineIs ==
  ASSUME TypeOK, pc <= Len(prog)
  PROVE  /\ pc \in DOMAIN prog /\ prog \in Seq(LineType) /\ Line \in LineType
         /\ Line.sec \in Names /\ Line.gap \in BOOLEAN /\ Line.logical \in BOOLEAN
         /\ amount[pc] \in Nat
<1>1. prog \in Seq(LineType)
  BY ProgramsAssumption DEF TypeOK
<1>2. pc \in DOMAIN prog
  <2>1. pc \in Nat \ {0}
    BY DEF TypeOK
  <2>2. DOMAIN prog = 1 .. Len(prog) /\ Len(prog) \in Nat
    BY ONLY <1>1
  <2>. QED BY ONLY <2>1, <2>2, pc <= Len(prog)
<1>3. Line \in LineType
  BY <1>1, <1>2 DEF Line
<1>4. amount[pc] \in Nat
  <2>1. amount \in [DOMAIN prog -> 1 .. 2]
    BY DEF TypeOK
  <2>2. amount[pc] \in 1 .. 2
    BY ONLY <1>2, <2>1
  <2>. QED BY ONLY <2>2
<1>. QED BY <1>1, <1>2, <1>3, <1>4 DEF LineType

\* Any line
LEMMA SecIs ==
  ASSUME TypeOK, NEW i \in DOMAIN prog
  PROVE  i \in Nat /\ prog[i].sec \in Names
<1>1. prog \in Seq(LineType)
  BY ProgramsAssumption DEF TypeOK
<1>2. i \in Nat /\ prog[i] \in LineType
  BY ONLY <1>1, i \in DOMAIN prog
<1>. QED BY <1>2 DEF LineType

\* What is known of a section stays known when another line asks for a pass.
LEMMA KnownLess ==
  ASSUME NEW s, NEW p, NEW r, NEW f \in BOOLEAN, NEW g \in BOOLEAN, g => f, Known(s, p, f, r)
  PROVE  Known(s, p, g, r)
BY DEF Known

\* Where sections are placed: the part of the invariant that does not look at the program
PlacedInv == TypeOK /\ (stage = "pass" => SectionsOK) /\ Placed

\* What is known of the sections looks only at these variables.
LEMMA SameSections ==
  SectionsOK /\ UNCHANGED <<prog, pass, fixeddig, section, reserved, shifted>> => SectionsOK'
BY DEF SectionsOK, Aware, Known, Sure, Compared, Logically, Level, InStep, BlocksRight, Dated, Settled, EndOf

\* What is known of one section
LEMMA SectionKnown ==
  ASSUME SectionsOK, NEW n \in Names
  PROVE  \E sure \in BOOLEAN : sure = Sure(n) /\ Known(section[n], pass, sure, reserved[n])
<1>1. PICK sure \in BOOLEAN : sure = Sure(n)
  BY DEF Sure
<1>2. Known(section[n], pass, Sure(n), reserved[n])
  BY DEF SectionsOK, Aware
<1>. QED BY <1>1, <1>2

\* Data in the root section moves only the address there.
LEMMA DataKeeps == PlacedInv /\ Data => PlacedInv'
<1>. SUFFICES ASSUME PlacedInv, Data PROVE PlacedInv'
  OBVIOUS
<1>1. TypeOK /\ stage = "pass" /\ pc <= Len(prog) /\ SectionsOK
  BY DEF PlacedInv, Data, At
<1>2. amount[pc] \in Nat
  BY <1>1, LineIs
<1>3. /\ pc' = pc + 1 /\ here' = here + amount[pc]
      /\ UNCHANGED <<prog, amount, pass, stage, fixeddig, section, reserved, shifted, errors>>
  BY DEF Data, NextLine, Unmoved
<1>4. TypeOK'
  BY <1>1, <1>2, <1>3 DEF TypeOK
<1>5. SectionsOK'
  BY <1>1, <1>3, SameSections
<1>6. Placed'
  BY <1>1, <1>3 DEF Placed, Assembled
<1>. QED BY <1>4, <1>5, <1>6 DEF PlacedInv

\* A .dsection that is not assembled changes nothing.
LEMMA NoDsectionKeeps == PlacedInv /\ NoDsection => PlacedInv'
<1>. SUFFICES ASSUME PlacedInv, NoDsection PROVE PlacedInv'
  OBVIOUS
<1>1. TypeOK /\ stage = "pass" /\ SectionsOK
  BY DEF PlacedInv, NoDsection, At
<1>3. /\ pc' = pc + 1 /\ here' = here
      /\ UNCHANGED <<prog, amount, pass, stage, fixeddig, section, reserved, shifted, errors>>
  BY DEF NoDsection, NextLine, Unmoved
<1>4. TypeOK'
  BY <1>1, <1>3 DEF TypeOK
<1>5. SectionsOK'
  BY <1>1, <1>3, SameSections
<1>6. Placed'
  BY <1>1, <1>3 DEF Placed, Assembled
<1>. QED BY <1>4, <1>5, <1>6 DEF PlacedInv

\* A fragment changes one section, of which enough is known.
LEMMA FragmentKeeps == PlacedInv /\ Fragment => PlacedInv'
<1>. SUFFICES ASSUME PlacedInv, Fragment PROVE PlacedInv'
  OBVIOUS
<1>1. TypeOK /\ stage = "pass" /\ pc <= Len(prog) /\ SectionsOK
  BY DEF PlacedInv, Fragment, At
<1>2. Line.sec \in Names /\ Line.gap \in BOOLEAN /\ amount[pc] \in Nat
  BY <1>1, LineIs
<1>. PICK m \in Names, k \in Nat, gap \in BOOLEAN : m = Line.sec /\ k = amount[pc] /\ gap = Line.gap
  BY <1>2
<1>3. /\ pc' = pc + 1 /\ here' = here
      /\ UNCHANGED <<prog, amount, pass, stage, reserved, shifted>>
      /\ fixeddig' = (fixeddig /\ (Lost(section[m]) => Unknown(section[m])))
      /\ section' = [section EXCEPT ![m] = Extended(section[m], k, gap)]
  BY DEF Fragment, NextLine, Unmoved, Extended
<1>4. /\ pass \in Nat \ {0} /\ here \in Int /\ fixeddig \in BOOLEAN /\ section \in [Names -> SectionType]
      /\ reserved \in [Names -> Int]
  BY <1>1 DEF TypeOK
<1>5. fixeddig' \in BOOLEAN /\ (fixeddig' => fixeddig)
  BY <1>3, <1>4
<1>6. PICK t \in SectionType :
        /\ t = Extended(section[m], k, gap) /\ Known(t, pass, Sure(m)', reserved[m])
        /\ Level(section[m]) => Level(t)
  <2>1. PICK sure \in BOOLEAN : sure = Sure(m) /\ Known(section[m], pass, sure, reserved[m])
    BY <1>1, SectionKnown
  <2>2. PICK still \in BOOLEAN : still = Sure(m)' /\ (still => sure)
    BY <1>3, <1>5, <2>1 DEF Sure
  <2>3. PICK s \in SectionType, r \in Int : s = section[m] /\ r = reserved[m]
    BY <1>4
  <2>. QED BY <1>4, <2>1, <2>2, <2>3, FragmentKnown
<1>7. section' = [section EXCEPT ![m] = t]
  BY <1>3, <1>6
<1>8. TypeOK'
  BY <1>1, <1>3, <1>5, <1>7 DEF TypeOK
<1>9. ASSUME NEW n \in Names
      PROVE  Known(section'[n], pass, Sure(n)', reserved[n])
  <2>1. CASE n = m
    BY <1>4, <1>6, <1>7, <2>1
  <2>2. CASE n # m
    <3>1. section'[n] = section[n]
      BY <1>4, <1>7, <2>2
    <3>2. PICK sure \in BOOLEAN : sure = Sure(n) /\ Known(section[n], pass, sure, reserved[n])
      BY <1>1, SectionKnown
    <3>3. PICK still \in BOOLEAN : still = Sure(n)' /\ (still => sure)
      BY <1>3, <1>5, <3>2 DEF Sure
    <3>. QED BY <3>1, <3>2, <3>3, KnownLess
  <2>. QED BY <2>1, <2>2
<1>12. ASSUME NEW n \in Names, ~Logically(n)'
       PROVE  Compared(n)'
  <2>1. Compared(n)
    BY <1>1, <1>3, <1>12 DEF SectionsOK, Logically
  <2>2. Level(section[n]) => Level(section'[n])
    BY <1>4, <1>6, <1>7
  <2>. QED BY <1>3, <1>5, <2>1, <2>2 DEF Compared
<1>10. SectionsOK'
  BY <1>3, <1>9, <1>12 DEF SectionsOK, Aware
<1>11. Placed'
  BY <1>1, <1>3 DEF Placed, Assembled
<1>. QED BY <1>8, <1>10, <1>11 DEF PlacedInv

\* What .dsection does with a section that has no place in this pass yet
LEMMA DsectionDoes ==
  ASSUME PlacedInv, Dsection, NEW m \in Names, m = Line.sec, section[m].defpass # pass
  PROVE  \E t \in SectionType, q \in Int :
           /\ section' = [section EXCEPT ![m] = t] /\ reserved' = [reserved EXCEPT ![m] = q]
           /\ here' = here + q
           /\ fixeddig' \in BOOLEAN /\ (fixeddig' => fixeddig)
           /\ \A n \in Names \ {m} : n \in shifted' <=> n \in shifted
           /\ Known(t, pass, Sure(m)', q)
           /\ ~Logically(m) => Level(t) /\ (fixeddig' => m \notin shifted')
           /\ t.usepass = pass /\ t.defpass = pass
<1>1. TypeOK /\ stage = "pass" /\ pc <= Len(prog) /\ SectionsOK /\ Line.op = "dsection"
  BY DEF PlacedInv, Dsection, At
<1>2. ~Logically(m) => ~Line.logical
  BY <1>1, LineIs DEF Logically, Line
<1>3. /\ pass \in Nat \ {0} /\ here \in Int /\ fixeddig \in BOOLEAN /\ section \in [Names -> SectionType]
      /\ reserved \in [Names -> Int]
  BY <1>1 DEF TypeOK
<1>. PICK a \in Int, p \in Nat : a = here /\ p = pass
  BY <1>3
<1>. PICK l \in Int : l = IF Line.logical THEN Logical ELSE a
  BY DEF Logical
<1>. PICK s \in SectionType, r \in Int : s = section[m] /\ r = reserved[m]
  BY <1>3
<1>. PICK sure \in BOOLEAN : sure = Sure(m) /\ Known(s, pass, sure, r)
  BY <1>1, SectionKnown
<1>. PICK f : f = Found(s, a, l, p)
  OBVIOUS
<1>4. /\ section' = [section EXCEPT ![m] = Marked(MovedTo(f, a, p), l, p)]
      /\ reserved' = [reserved EXCEPT ![m] = SpaceOf(f, a, p)]
      /\ shifted' = IF f.restart = a THEN shifted ELSE shifted \cup {m}
      /\ fixeddig' = (fixeddig /\ ~Lost(s) /\ Steady(f, l))
      /\ here' = here + SpaceOf(f, a, p)
  BY DEF Dsection, NextLine, Marked, MovedTo, SpaceOf, Found, Put
<1>5. fixeddig' \in BOOLEAN /\ (fixeddig' => fixeddig /\ ~Lost(s) /\ f.l_restart = l)
  BY <1>3, <1>4 DEF Steady
<1>6. PICK still \in BOOLEAN : still = Sure(m)' /\ (still => ~Lost(s) /\ f.restart = a)
  BY <1>4, <1>5 DEF Sure
<1>7. PICK t \in SectionType, q \in Int :
        /\ t = Marked(MovedTo(f, a, p), l, p) /\ q = SpaceOf(f, a, p)
        /\ Known(t, pass, still, q) /\ t.usepass = p /\ t.defpass = p
        /\ t.restart = a /\ t.l_restart = l
  BY <1>3, <1>6, DsectionKnown
<1>8. ASSUME ~Logically(m)
      PROVE  Level(t) /\ (fixeddig' => m \notin shifted')
  <2>1. l = a /\ Compared(m)
    BY <1>1, <1>2, <1>8 DEF SectionsOK
  <2>2. Level(t)
    BY <1>7, <2>1 DEF Level
  <2>3. ASSUME fixeddig' PROVE m \notin shifted'
    <3>1. f = s /\ f.l_restart = a
      BY <1>5, <2>1, <2>3 DEF Found
    <3>2. f.restart = a
      BY <2>1, <3>1 DEF Compared, Level
    <3>. QED BY <1>4, <1>5, <2>1, <2>3, <3>2 DEF Compared
  <2>. QED BY <2>2, <2>3
<1>. QED BY <1>4, <1>5, <1>6, <1>7, <1>8

\* .dsection: either the section has its place already, or it gets one.
LEMMA DsectionKeeps == PlacedInv /\ Dsection => PlacedInv'
<1>. SUFFICES ASSUME PlacedInv, Dsection PROVE PlacedInv'
  OBVIOUS
<1>1. TypeOK /\ stage = "pass" /\ pc <= Len(prog) /\ SectionsOK
  BY DEF PlacedInv, Dsection, At
<1>. PICK m \in Names : m = Line.sec
  BY <1>1, LineIs
<1>3. /\ pass \in Nat \ {0} /\ here \in Int /\ fixeddig \in BOOLEAN /\ section \in [Names -> SectionType]
      /\ reserved \in [Names -> Int]
  BY <1>1 DEF TypeOK
<1>4. UNCHANGED <<prog, amount, pass, stage>> /\ pc' = pc + 1
  BY DEF Dsection, Unmoved, NextLine
<1>5. Placed'
  BY <1>1, <1>4 DEF Placed, Assembled
<1>6. CASE section[m].defpass = pass
  <2>1. UNCHANGED <<section, reserved, shifted, fixeddig, here>>
    BY <1>6 DEF Dsection, NextLine
  <2>2. TypeOK'
    BY <1>1, <1>4, <2>1 DEF TypeOK
  <2>3. SectionsOK'
    BY <1>1, <1>4, <2>1, SameSections
  <2>. QED BY <1>5, <2>2, <2>3 DEF PlacedInv
<1>7. CASE section[m].defpass # pass
  <2>3. PICK t \in SectionType, q \in Int :
          /\ section' = [section EXCEPT ![m] = t] /\ reserved' = [reserved EXCEPT ![m] = q]
          /\ here' = here + q
          /\ fixeddig' \in BOOLEAN /\ (fixeddig' => fixeddig)
          /\ \A n \in Names \ {m} : n \in shifted' <=> n \in shifted
          /\ Known(t, pass, Sure(m)', q)
          /\ ~Logically(m) => Level(t) /\ (fixeddig' => m \notin shifted')
    BY <1>7, DsectionDoes
  <2>4. TypeOK'
    <3>1. section' \in [Names -> SectionType] /\ reserved' \in [Names -> Int]
      BY <1>3, <2>3
    <3>2. here' \in Int
      BY <1>3, <2>3
    <3>. QED BY <1>1, <1>4, <2>3, <3>1, <3>2 DEF TypeOK
  <2>5. ASSUME NEW n \in Names
        PROVE  Known(section'[n], pass, Sure(n)', reserved'[n])
    <3>1. CASE n = m
      BY <1>3, <2>3, <3>1
    <3>2. CASE n # m
      <4>1. section'[n] = section[n] /\ reserved'[n] = reserved[n]
        BY <1>3, <2>3, <3>2
      <4>2. PICK sure \in BOOLEAN : sure = Sure(n) /\ Known(section[n], pass, sure, reserved[n])
        BY <1>1, SectionKnown
      <4>3. PICK still \in BOOLEAN : still = Sure(n)' /\ (still => sure)
        BY <2>3, <3>2, <4>2 DEF Sure
      <4>. QED BY <4>1, <4>2, <4>3, KnownLess
    <3>. QED BY <3>1, <3>2
  <2>6. ASSUME NEW n \in Names, ~Logically(n)
        PROVE  Compared(n)'
    <3>1. CASE n = m
      BY <1>3, <2>3, <2>6, <3>1 DEF Compared
    <3>2. CASE n # m
      BY <1>1, <1>3, <2>3, <2>6, <3>2 DEF SectionsOK, Compared
    <3>. QED BY <3>1, <3>2
  <2>7. SectionsOK'
    BY <1>4, <2>5, <2>6 DEF SectionsOK, Aware, Logically
  <2>. QED BY <1>5, <2>4, <2>7 DEF PlacedInv
<1>. QED BY <1>6, <1>7

\* What is known at the end of a pass after which no other follows: a section
\* that is in place has the space it needs.
LEMMA DoneKnown ==
  ASSUME NEW s \in SectionType, NEW p \in Nat, NEW r \in Int, NEW sure \in BOOLEAN, sure,
         Known(s, p, sure, r), s.defpass = p, s.size = EndOf(s) - s.start
  PROVE  BlocksRight(s) /\ r = EndOf(s) - s.start
<1>1. s.usepass \in Nat /\ s.size \in Int /\ EndOf(s) \in Int /\ s.start \in Int
  BY Fields, EndType
<1>2. s.usepass = p
  BY <1>1 DEF Known, Dated
<1>3. BlocksRight(s)
  BY <1>2 DEF Known
<1>4. s.size <= r /\ (r = s.size \/ r <= EndOf(s) - s.start)
  BY DEF Known, Settled
<1>. QED BY <1>1, <1>3, <1>4

\* The end of a pass: either nothing could change in another one, and each section is in
\* place, or what is known begins anew.
LEMMA PassEndKeeps == PlacedInv /\ PassEnd => PlacedInv'
<1>. SUFFICES ASSUME PlacedInv, PassEnd PROVE PlacedInv'
  OBVIOUS
<1>1. TypeOK /\ stage = "pass" /\ SectionsOK /\ UNCHANGED prog
  BY DEF PlacedInv, PassEnd
<1>2. /\ pass \in Nat \ {0} /\ section \in [Names -> SectionType] /\ reserved \in [Names -> Int]
      /\ fixeddig \in BOOLEAN
  BY <1>1 DEF TypeOK
<1>3. CASE /\ fixeddig /\ SizesAgree /\ stage' = "done"
           /\ section' = [n \in Names |-> IF section[n].defpass = pass THEN MemJmp(section[n], 0)
                                          ELSE section[n]]
           /\ UNCHANGED <<amount, pc, pass, fixeddig, here, reserved, shifted, errors>>
  <2>1. ASSUME NEW n \in Names, NEW p \in Nat, p = pass
        PROVE  /\ section'[n] \in SectionType
               /\ section'[n].defpass = p =>
                    \/ n \in shifted /\ Logically(n)
                    \/ /\ BlocksRight(section'[n])
                       /\ reserved'[n] = EndOf(section'[n]) - section'[n].start
    <3>0. PICK s \in SectionType, r \in Int : s = section[n] /\ r = reserved[n]
      BY <1>2
    <3>1. PICK sure \in BOOLEAN : sure = Sure(n) /\ Known(s, p, sure, r)
      BY <1>1, <2>1, <3>0, SectionKnown
    <3>2. ~sure => n \in shifted /\ Logically(n)
      BY <1>1, <1>3, <3>1 DEF SectionsOK, Sure, Compared
    <3>3. CASE s.defpass = p
      <4>1. section'[n] = MemJmp(s, 0)
        BY <1>3, <2>1, <3>0, <3>3
      <4>2. PICK a \in Int : a = 0
        OBVIOUS
      <4>3. PICK t \in SectionType :
              /\ t = MemJmp(s, a) /\ t.start = s.start /\ t.end = s.end
              /\ t.address = s.address /\ t.moved = s.moved
              /\ InStep(s) /\ BlocksRight(s) => BlocksRight(t)
        <5>1. s \in SectionType /\ a \in Int
          BY <3>0
        <5>. QED BY ONLY <5>1, MemJmpIs
      <4>4. section'[n] = t /\ EndOf(t) = EndOf(s)
        BY <4>1, <4>2, <4>3 DEF EndOf
      <4>5. s.size = EndOf(s) - s.start
        BY <1>3, <2>1, <3>0, <3>3 DEF SizesAgree
      <4>6. ASSUME sure PROVE BlocksRight(s) /\ r = EndOf(s) - s.start
        BY <2>1, <3>1, <3>3, <4>5, <4>6, DoneKnown
      <4>7. ASSUME sure PROVE BlocksRight(t)
        BY <3>1, <4>3, <4>6, <4>7 DEF Known
      <4>. QED BY <1>3, <3>0, <3>1, <3>2, <4>3, <4>4, <4>6, <4>7
    <3>4. CASE s.defpass # p
      <4>1. section'[n] = s
        BY <1>3, <2>1, <3>0, <3>4
      <4>. QED BY <3>0, <3>4, <4>1
    <3>. QED BY <3>3, <3>4
  <2>2. TypeOK'
    <3>1. section' \in [Names -> SectionType]
      <4>1. ASSUME NEW n \in Names PROVE section'[n] \in SectionType
        BY <1>2, <2>1
      <4>. QED BY <1>3, <4>1
    <3>. QED BY <1>1, <1>3, <3>1 DEF TypeOK
  <2>3. Placed'
    BY <1>1, <1>2, <1>3, <2>1 DEF Placed, InPlace, BlocksRight, Logically
  <2>. QED BY <1>3, <2>2, <2>3 DEF PlacedInv
<1>4. CASE stage' = "gave up" /\ UNCHANGED <<amount, pc, pass, fixeddig, here, reserved, errors, section>>
  <2>1. TypeOK'
    BY <1>1, <1>4 DEF TypeOK
  <2>2. Placed'
    BY <1>4 DEF Placed, Assembled
  <2>. QED BY <1>4, <2>1, <2>2 DEF PlacedInv
<1>5. CASE /\ pass' = pass + 1 /\ pc' = 1 /\ here' = 0 /\ fixeddig' = TRUE
           /\ reserved' = [n \in Names |-> 0] /\ shifted' = {}
           /\ (amount' \in Amounts \/ UNCHANGED amount)
           /\ UNCHANGED <<section, stage>>
  <2>1. TypeOK'
    BY <1>1, <1>5 DEF TypeOK, Amounts
  <2>2. ASSUME NEW n \in Names
        PROVE  Known(section[n], pass + 1, Sure(n)', 0)
    <3>1. section[n] \in SectionType /\ Known(section[n], pass, Sure(n), reserved[n])
      BY <1>1, <1>2 DEF SectionsOK, Aware
    <3>2. section[n].usepass \in Nat /\ section[n].defpass \in Nat
      BY <3>1, Fields
    <3>3. section[n].usepass <= pass /\ section[n].defpass <= section[n].usepass
      BY <3>1 DEF Known, Dated
    <3>4. Dated(section[n], pass + 1) /\ section[n].usepass # pass + 1 /\ section[n].defpass # pass + 1
      BY <1>2, <3>2, <3>3 DEF Dated
    <3>. QED BY <3>1, <3>4 DEF Known, Settled
  <2>5. ASSUME NEW n \in Names, ~Logically(n)'
        PROVE  Compared(n)'
    BY <1>1, <1>5, <2>5 DEF SectionsOK, Compared, Logically
  <2>3. SectionsOK'
    BY <1>5, <2>2, <2>5 DEF SectionsOK, Aware
  <2>4. Placed'
    BY <1>1, <1>5 DEF Placed, Assembled
  <2>. QED BY <2>1, <2>3, <2>4 DEF PlacedInv
<1>. QED BY <1>1, <1>3, <1>4, <1>5 DEF PassEnd

\* At the beginning no section is used or placed.
LEMMA PlacedInit == Init => PlacedInv
<1>. SUFFICES ASSUME Init PROVE PlacedInv
  OBVIOUS
<1>. PICK z \in Nat : z = 0
  OBVIOUS
<1>0. <<>> \in Seq(Block)
  OBVIOUS
<1>. PICK e \in Seq(Block) : e = <<>>
  BY <1>0
<1>. PICK s : s = [usepass |-> z, defpass |-> z, restart |-> z, l_restart |-> z, size |-> z,
                   start |-> z, end |-> z, address |-> z, moved |-> FALSE,
                   blocks |-> e, lastaddr |-> z, pending |-> z]
  OBVIOUS
<1>1. s = NewSection
  BY DEF NewSection
<1>2. s \in SectionType
  BY DEF SectionType
<1>3. section = [n \in Names |-> s] /\ reserved = [n \in Names |-> z]
  BY <1>1 DEF Init
<1>4. TypeOK
  <2>1. section \in [Names -> SectionType] /\ reserved \in [Names -> Int]
    BY <1>2, <1>3
  <2>2. amount \in [DOMAIN prog -> 1 .. 2]
    BY DEF Init, Amounts
  <2>. QED BY <2>1, <2>2 DEF Init, TypeOK
<1>5. ASSUME NEW p, p = 1, NEW sure PROVE Known(s, p, sure, z) /\ Level(s)
  <2>1. InStep(s) /\ BlocksRight(s) /\ s.usepass = 0 /\ s.defpass = 0
    BY DEF InStep, BlocksRight
  <2>2. Dated(s, p) /\ Settled(s, p, z)
    BY <1>5, <2>1 DEF Dated, Settled
  <2>. QED BY <2>1, <2>2 DEF Known, Level
<1>6. SectionsOK
  <2>1. ASSUME NEW n \in Names PROVE section[n] = s /\ reserved[n] = z
    BY <1>3
  <2>2. shifted = {} /\ pass = 1
    BY DEF Init
  <2>3. ASSUME NEW n \in Names PROVE Aware(n)
    BY <1>5, <2>1, <2>2 DEF Aware
  <2>4. ASSUME NEW n \in Names PROVE Compared(n)
    BY <1>5, <2>1, <2>2 DEF Compared
  <2>. QED BY <2>3, <2>4 DEF SectionsOK
<1>7. Placed
  BY DEF Init, Placed, Assembled
<1>. QED BY <1>4, <1>6, <1>7 DEF PlacedInv

\* Every step keeps the sections in place.
LEMMA PlacedNext == PlacedInv /\ [Next]_vars => PlacedInv'
<1>. SUFFICES ASSUME PlacedInv, [Next]_vars PROVE PlacedInv'
  OBVIOUS
<1>1. CASE UNCHANGED vars
  <2>1. TypeOK' /\ UNCHANGED stage
    BY <1>1 DEF vars, PlacedInv, TypeOK
  <2>2. SectionsOK => SectionsOK'
    BY <1>1, SameSections DEF vars
  <2>3. Placed'
    BY <1>1 DEF vars, PlacedInv, Placed, Assembled, InPlace, Logically, EndOf
  <2>. QED BY <2>1, <2>2, <2>3 DEF PlacedInv
<1>. QED BY <1>1, DataKeeps, FragmentKeeps, DsectionKeeps, NoDsectionKeeps, PassEndKeeps DEF Next

\* The passes end only when each byte is where the labels of its fragment say, and
\* .dsection has left the space the section takes, for every program: but for a section
\* in a .logical block that came to another place in the last pass.
THEOREM SectionsInPlace == Spec => []Placed
<1>1. Init => PlacedInv
  BY PlacedInit
<1>2. PlacedInv /\ [Next]_vars => PlacedInv'
  BY PlacedNext
<1>3. PlacedInv => Placed
  BY DEF PlacedInv
<1>. QED BY <1>1, <1>2, <1>3, PTL DEF Spec

(***************************************************************************)
(* No fragment is lost.                                                    *)
(***************************************************************************)
\* Which sections are placed: by the line the pass has come to, and by the pass
LostInv == (stage = "pass" => PlacesOK) /\ NotLost

\* What the passes of a section say when nothing is asked about its addresses
LEMMA DatesKnown ==
  ASSUME PlacedInv, stage = "pass", NEW n \in Names
  PROVE  /\ section[n] \in SectionType /\ section[n].usepass \in Nat /\ section[n].defpass \in Nat
         /\ section[n].usepass <= pass /\ section[n].defpass <= section[n].usepass
         /\ section[n].usepass = pass => section[n].defpass >= pass - 1
<1>1. section[n] \in SectionType
  BY DEF PlacedInv, TypeOK
<1>2. Dated(section[n], pass)
  BY DEF PlacedInv, SectionsOK, Aware, Known
<1>. QED BY <1>1, <1>2, Fields DEF Dated

\* Lines outside of sections leave it open which sections are placed.
LEMMA DataLoses == PlacedInv /\ LostInv /\ (Data \/ NoDsection) => LostInv'
<1>. SUFFICES ASSUME PlacedInv, LostInv, Data \/ NoDsection PROVE LostInv'
  OBVIOUS
<1>1. TypeOK /\ stage = "pass" /\ pc <= Len(prog) /\ PlacesOK
  BY DEF PlacedInv, LostInv, Data, NoDsection, At
<1>2. /\ pc' = pc + 1 /\ UNCHANGED <<prog, amount, before, pass, stage, fixeddig, section, errors>>
      /\ ~Met(amount, pc)
  BY DEF Data, NoDsection, NextLine, Unmoved, At, Met, Line
<1>3. pc \in Nat /\ prog \in Seq(LineType)
  BY <1>1, LineIs DEF TypeOK
<1>4. ASSUME NEW i \in DOMAIN prog, i < pc', Met(amount, i)
      PROVE  section[prog[i].sec].defpass = pass
  <2>1. i < pc
    BY <1>2, <1>3, <1>4
  <2>. QED BY <1>1, <1>4, <2>1 DEF PlacesOK
<1>5. PlacesOK'
  <2>1. \A n \in Names : Places(amount, n)' <=> Places(amount, n)
    BY <1>2 DEF Places, Met
  <2>2. \A n \in Names : Places(before, n)' <=> Places(before, n)
    BY <1>2 DEF Places, Met
  <2>3. \A i \in DOMAIN prog : Met(amount, i)' <=> Met(amount, i)
    BY <1>2 DEF Met
  <2>. QED BY <1>1, <1>2, <1>4, <2>1, <2>2, <2>3 DEF PlacesOK
<1>. QED BY <1>1, <1>2, <1>5 DEF LostInv, NotLost, Assembled

\* A fragment of a section that was not placed by a .dsection of this pass or the one
\* before is an error, or asks for another pass.
LEMMA FragmentLoses == PlacedInv /\ LostInv /\ Fragment => LostInv'
<1>. SUFFICES ASSUME PlacedInv, LostInv, Fragment PROVE LostInv'
  OBVIOUS
<1>1. TypeOK /\ stage = "pass" /\ pc <= Len(prog) /\ PlacesOK /\ SectionsOK /\ Line.op = "section"
  BY DEF PlacedInv, LostInv, Fragment, At
<1>2. Line.sec \in Names /\ Line.gap \in BOOLEAN /\ amount[pc] \in Nat /\ pc \in DOMAIN prog
      /\ prog \in Seq(LineType) /\ pc \in Nat
  BY <1>1, LineIs DEF TypeOK
<1>. PICK m \in Names, k \in Nat, gap \in BOOLEAN : m = Line.sec /\ k = amount[pc] /\ gap = Line.gap
  BY <1>2
<1>. PICK s \in SectionType : s = section[m]
  BY DEF PlacedInv, TypeOK
<1>3. /\ pc' = pc + 1 /\ UNCHANGED <<prog, amount, before, pass, stage>>
      /\ fixeddig' = (fixeddig /\ (Lost(s) => Unknown(s)))
      /\ errors' = IF Unknown(s) THEN errors \cup {"not defined"} ELSE errors
      /\ section' = [section EXCEPT ![m] = Extended(s, k, gap)]
  BY DEF Fragment, NextLine, Unmoved, Extended
<1>4. /\ pass \in Nat \ {0} /\ here \in Int /\ fixeddig \in BOOLEAN /\ section \in [Names -> SectionType]
      /\ reserved \in [Names -> Int]
  BY <1>1 DEF TypeOK
<1>5. PICK t \in SectionType :
        /\ t = Extended(s, k, gap) /\ t.usepass = pass
        /\ t.defpass = IF Lost(s) THEN pass - 1 ELSE s.defpass
  <2>0. PICK r \in Int : r = reserved[m]
    BY <1>4
  <2>1. PICK sure \in BOOLEAN : Known(s, pass, sure, r)
    BY <1>1, <2>0, SectionKnown
  <2>2. PICK still \in BOOLEAN : still => sure
    OBVIOUS
  <2>. QED BY <1>4, <2>1, <2>2, FragmentKnown
<1>6. section' = [section EXCEPT ![m] = t]
  BY <1>3, <1>5
<1>7. /\ s.usepass \in Nat /\ s.defpass \in Nat /\ s.usepass <= pass /\ s.defpass <= s.usepass
      /\ s.usepass = pass => s.defpass >= pass - 1
  BY <1>1, DatesKnown
<1>8. s.defpass = pass <=> t.defpass = pass
  BY <1>4, <1>5, <1>7 DEF Lost
<1>9. ASSUME NEW n \in Names
      PROVE  /\ Places(amount, n)' <=> Places(amount, n)
             /\ Places(before, n)' <=> Places(before, n)
             /\ section'[n].defpass = pass <=> section[n].defpass = pass
  <2>1. n # m => section'[n] = section[n]
    BY <1>4, <1>6
  <2>2. n = m => section'[n] = t /\ section[n] = s
    BY <1>4, <1>6
  <2>. QED BY <1>3, <1>8, <2>1, <2>2 DEF Places, Met
<1>10. ASSUME NEW i \in DOMAIN prog, i < pc', Met(amount, i)
       PROVE  section'[prog[i].sec].defpass = pass
  <2>1. i # pc
    BY <1>1, <1>10 DEF Line, Met
  <2>2. i \in Nat /\ prog[i].sec \in Names
    BY <1>1, SecIs
  <2>3. i < pc + 1 /\ pc \in Nat
    BY <1>2, <1>3, <1>10
  <2>4. i < pc
    BY ONLY <2>1, <2>2, <2>3
  <2>. QED BY <1>1, <1>9, <1>10, <2>2, <2>4 DEF PlacesOK
<1>11. ASSUME NEW n \in Names, section'[n].defpass = pass - 1
       PROVE  \/ section'[n].usepass = 0 \/ Places(before, n)
              \/ section'[n].usepass = pass /\ (~fixeddig' \/ errors' # {})
  <2>1. (fixeddig' => fixeddig) /\ (errors # {} => errors' # {})
    BY <1>3, <1>4
  <2>2. CASE n # m
    <3>1. section'[n] = section[n]
      BY <1>4, <1>6, <2>2
    <3>. QED BY <1>1, <1>11, <2>1, <3>1 DEF PlacesOK
  <2>3. CASE n = m /\ Lost(s)
    <3>1. section'[n] = t
      BY <1>4, <1>6, <2>3
    <3>2. ~fixeddig' \/ errors' # {}
      BY <1>3, <2>3
    <3>. QED BY <1>5, <3>1, <3>2
  <2>4. CASE n = m /\ ~Lost(s)
    <3>1. section'[n] = t /\ s.usepass # 0 /\ s.defpass = pass - 1
      BY <1>4, <1>5, <1>6, <1>11, <2>4 DEF Lost
    <3>2. \/ Places(before, n)
          \/ ~fixeddig \/ errors # {}
      BY <1>1, <2>4, <3>1 DEF PlacesOK
    <3>. QED BY <1>5, <2>1, <3>1, <3>2
  <2>. QED BY <2>2, <2>3, <2>4
<1>12. PlacesOK'
  <2>1. \A i \in DOMAIN prog : Met(amount, i)' <=> Met(amount, i)
    BY <1>3 DEF Met
  <2>2. \A n \in Names : section'[n].defpass = pass => Places(amount, n)'
    BY <1>1, <1>9 DEF PlacesOK
  <2>3. /\ \A i \in DOMAIN prog' : i < pc' /\ Met(amount, i)' => section'[prog'[i].sec].defpass = pass'
        /\ \A n \in Names : section'[n].defpass = pass' - 1 =>
             \/ section'[n].usepass = 0 \/ Places(before, n)'
             \/ section'[n].usepass = pass' /\ (~fixeddig' \/ errors' # {})
    BY <1>3, <1>9, <1>10, <1>11, <2>1
  <2>. QED BY <1>3, <2>2, <2>3 DEF PlacesOK
<1>. QED BY <1>1, <1>3, <1>12 DEF LostInv, NotLost, Assembled

\* .dsection places its section.
LEMMA DsectionLoses == PlacedInv /\ LostInv /\ Dsection => LostInv'
<1>. SUFFICES ASSUME PlacedInv, LostInv, Dsection PROVE LostInv'
  OBVIOUS
<1>1. TypeOK /\ stage = "pass" /\ pc <= Len(prog) /\ PlacesOK /\ Line.op = "dsection" /\ Met(amount, pc)
  BY DEF PlacedInv, LostInv, Dsection, At, Met, Line
<1>2. Line.sec \in Names /\ pc \in DOMAIN prog /\ prog \in Seq(LineType) /\ pc \in Nat
  BY <1>1, LineIs DEF TypeOK
<1>. PICK m \in Names : m = Line.sec
  BY <1>2
<1>3. /\ pass \in Nat \ {0} /\ fixeddig \in BOOLEAN /\ section \in [Names -> SectionType]
  BY <1>1 DEF TypeOK
<1>4. UNCHANGED <<prog, amount, before, pass, stage>> /\ pc' = pc + 1
  BY DEF Dsection, Unmoved, NextLine
<1>5. /\ section'[m].defpass = pass
      /\ \A n \in Names \ {m} : section'[n] = section[n]
      /\ fixeddig' => fixeddig
      /\ errors # {} => errors' # {}
  <2>1. CASE section[m].defpass = pass
    BY <2>1 DEF Dsection
  <2>2. CASE section[m].defpass # pass
    <3>1. PICK t \in SectionType :
            /\ section' = [section EXCEPT ![m] = t] /\ (fixeddig' => fixeddig)
            /\ t.defpass = pass
      BY <2>2, DsectionDoes
    <3>2. UNCHANGED errors
      BY <2>2 DEF Dsection
    <3>. QED BY <1>3, <3>1, <3>2
  <2>. QED BY <2>1, <2>2
<1>6. ASSUME NEW i \in DOMAIN prog, i < pc', Met(amount, i)
      PROVE  section'[prog[i].sec].defpass = pass
  <2>1. i \in Nat /\ prog[i].sec \in Names
    BY <1>1, SecIs
  <2>2. CASE prog[i].sec = m
    BY <1>5, <2>2
  <2>3. CASE prog[i].sec # m
    <3>1. i # pc
      BY <2>3 DEF Line
    <3>2. i < pc + 1 /\ pc \in Nat
      BY <1>2, <1>4, <1>6
    <3>3. i < pc
      BY ONLY <2>1, <3>1, <3>2
    <3>4. section[prog[i].sec].defpass = pass
      BY <1>1, <1>6, <3>3 DEF PlacesOK
    <3>. QED BY <1>5, <2>1, <2>3, <3>4
  <2>. QED BY <2>2, <2>3
<1>7. ASSUME NEW n \in Names, section'[n].defpass = pass
      PROVE  Places(amount, n)
  <2>1. CASE n = m
    BY <1>1, <1>2, <2>1 DEF Places, Line
  <2>2. CASE n # m
    BY <1>1, <1>5, <1>7, <2>2 DEF PlacesOK
  <2>. QED BY <2>1, <2>2
<1>8. ASSUME NEW n \in Names, section'[n].defpass = pass - 1
      PROVE  \/ section'[n].usepass = 0 \/ Places(before, n)
             \/ section'[n].usepass = pass /\ (~fixeddig' \/ errors' # {})
  <2>1. n # m
    BY <1>3, <1>5, <1>8
  <2>2. section'[n] = section[n]
    BY <1>5, <2>1
  <2>. QED BY <1>1, <1>5, <1>8, <2>2 DEF PlacesOK
<1>9. PlacesOK'
  <2>1. /\ \A n \in Names : Places(amount, n)' <=> Places(amount, n)
        /\ \A n \in Names : Places(before, n)' <=> Places(before, n)
        /\ \A i \in DOMAIN prog : Met(amount, i)' <=> Met(amount, i)
    BY <1>4 DEF Places, Met
  <2>. QED BY <1>4, <1>6, <1>7, <1>8, <2>1 DEF PlacesOK
<1>. QED BY <1>1, <1>4, <1>9 DEF LostInv, NotLost, Assembled

\* At the end of the pass a section with fragments that is not placed was placed by a line
\* of the pass before, which is not met in this one.
LEMMA PassEndLoses == PlacedInv /\ LostInv /\ PassEnd => LostInv'
<1>. SUFFICES ASSUME PlacedInv, LostInv, PassEnd PROVE LostInv'
  OBVIOUS
<1>1. TypeOK /\ stage = "pass" /\ PlacesOK /\ pc > Len(prog) /\ UNCHANGED prog
  BY DEF PlacedInv, LostInv, PassEnd
<1>2. /\ pass \in Nat \ {0} /\ section \in [Names -> SectionType] /\ prog \in Programs
      /\ prog \in Seq(LineType) /\ pc \in Nat /\ amount \in [DOMAIN prog -> 1 .. 2]
  BY <1>1, ProgramsAssumption DEF TypeOK
<1>3. CASE /\ fixeddig /\ stage' = "done"
           /\ section' = [n \in Names |-> IF section[n].defpass = pass THEN MemJmp(section[n], 0)
                                          ELSE section[n]]
           /\ UNCHANGED <<amount, before, pass, errors>>
  <2>1. ASSUME errors = {}, NEW n \in Names, section[n].usepass = pass, section[n].defpass # pass
        PROVE  LeftOut(n)
    <3>1. section[n].defpass = pass - 1
      <4>1. /\ section[n].usepass \in Nat /\ section[n].defpass \in Nat
            /\ section[n].defpass <= section[n].usepass /\ section[n].defpass >= pass - 1
        BY <1>1, <2>1, DatesKnown
      <4>. QED BY <1>2, <2>1, <4>1
    <3>2. Places(before, n)
      BY <1>1, <1>2, <1>3, <2>1, <3>1 DEF PlacesOK
    <3>3. PICK i \in DOMAIN prog : Met(before, i) /\ prog[i].sec = n
      BY <3>2 DEF Places
    <3>4. i < pc
      <4>1. i \in 1 .. Len(prog) /\ Len(prog) \in Nat
        BY ONLY <1>2, i \in DOMAIN prog
      <4>. QED BY ONLY <1>1, <1>2, <4>1
    <3>5. ~Met(amount, i)
      BY <1>1, <2>1, <3>3, <3>4 DEF PlacesOK
    <3>6. amount[i] \in {1, 2}
      BY <1>2
    <3>7. prog[i].op = "dsection" /\ prog[i].var /\ before[i] = 2 /\ amount[i] = 1
      BY <3>3, <3>5, <3>6 DEF Met
    <3>. QED BY <3>1, <3>3, <3>7 DEF LeftOut
  <2>2. ASSUME NEW n \in Names
        PROVE  section'[n].usepass = section[n].usepass /\ section'[n].defpass = section[n].defpass
    <3>. PICK s \in SectionType, a \in Int : s = section[n] /\ a = 0
      BY <1>2
    <3>1. MemJmp(s, a).usepass = s.usepass /\ MemJmp(s, a).defpass = s.defpass
      BY ONLY MemJmpIs, s \in SectionType, a \in Int
    <3>. QED BY <1>3, <3>1
  <2>3. \A n \in Names : LeftOut(n) => LeftOut(n)'
    BY <1>1, <1>3, <2>2 DEF LeftOut
  <2>4. NotLost'
    BY <1>3, <2>1, <2>2, <2>3 DEF NotLost, Assembled
  <2>. QED BY <1>3, <2>4 DEF LostInv
<1>4. CASE stage' = "gave up"
  BY <1>4 DEF LostInv, NotLost, Assembled
<1>5. CASE pass' = pass + 1 /\ pc' = 1 /\ before' = amount /\ UNCHANGED <<section, stage>>
  <2>1. ASSUME NEW n \in Names
        PROVE  section[n].defpass # pass + 1
    <3>1. /\ section[n].usepass \in Nat /\ section[n].usepass <= pass
          /\ section[n].defpass \in Nat /\ section[n].defpass <= section[n].usepass
      BY <1>1, DatesKnown
    <3>. QED BY <1>2, <3>1
  <2>2. \A i \in DOMAIN prog : ~(i < 1)
    <3>1. DOMAIN prog = 1 .. Len(prog)
      BY ONLY <1>2
    <3>. QED BY ONLY <3>1
  <2>3. \A n \in Names : section[n].defpass = pass => Places(before, n)'
    BY <1>1, <1>5 DEF PlacesOK, Places, Met
  <2>4. (pass + 1) - 1 = pass
    BY <1>2
  <2>5. PlacesOK'
    BY <1>1, <1>5, <2>1, <2>2, <2>3, <2>4 DEF PlacesOK
  <2>. QED BY <1>1, <1>5, <2>5 DEF LostInv, NotLost, Assembled
<1>. QED BY <1>1, <1>3, <1>4, <1>5 DEF PassEnd

\* At the beginning no section has a fragment.
LEMMA LostInit == Init => LostInv
<1>. SUFFICES ASSUME Init PROVE LostInv
  OBVIOUS
<1>2. \A n \in Names : section[n].usepass = 0 /\ section[n].defpass = 0
  BY DEF Init, NewSection
<1>3. ASSUME NEW i \in DOMAIN prog PROVE ~(i < pc)
  <2>1. prog \in Seq(LineType)
    BY ProgramsAssumption DEF Init
  <2>2. i \in 1 .. Len(prog)
    BY ONLY <2>1, i \in DOMAIN prog
  <2>3. pc = 1
    BY DEF Init
  <2>. QED BY ONLY <2>2, <2>3
<1>4. pass = 1
  BY DEF Init
<1>5. PlacesOK
  BY <1>2, <1>3, <1>4 DEF PlacesOK
<1>6. NotLost
  BY DEF Init, NotLost, Assembled
<1>. QED BY <1>5, <1>6 DEF LostInv

\* For every program, however its conditions change from pass to pass: a fragment of a section
\* that has no place when the passes end is an error, but for a section whose conditional
\* .dsection was met in the pass before and is not in the last one.
THEOREM FragmentsPlaced == Spec => []NotLost
<1>1. Init => PlacedInv /\ LostInv
  BY PlacedInit, LostInit
<1>2. PlacedInv /\ LostInv /\ [Next]_vars => (PlacedInv /\ LostInv)'
  <2>. SUFFICES ASSUME PlacedInv, LostInv, [Next]_vars PROVE PlacedInv' /\ LostInv'
    OBVIOUS
  <2>1. PlacedInv'
    BY PlacedNext
  <2>2. LostInv'
    <3>1. CASE UNCHANGED vars
      <4>1. (stage' = "pass" => PlacesOK')
        BY <3>1 DEF vars, LostInv, PlacesOK, Places, Met
      <4>2. NotLost'
        BY <3>1 DEF vars, LostInv, NotLost, Assembled, LeftOut
      <4>. QED BY <4>1, <4>2 DEF LostInv
    <3>. QED BY <3>1, DataLoses, FragmentLoses, DsectionLoses, PassEndLoses DEF Next
  <2>. QED BY <2>1, <2>2
<1>3. LostInv => NotLost
  BY DEF LostInv
<1>. QED BY <1>1, <1>2, <1>3, PTL DEF Spec

(***************************************************************************)
(* The sections settle.  From the first pass on in which no value changes  *)
(* any more, each pass assembles the same lines.  What they take, and where *)
(* the lines are, is a sum over the lines; a section has what the lines    *)
(* before this one took (Taking), and in the next pass what all lines took *)
(* is the space that .dsection leaves, wherever the fragments are.         *)
(***************************************************************************)

\* Numbers have a smallest one.
LEMMA Smallest ==
  ASSUME NEW S \in SUBSET Nat, S # {}
  PROVE  \E x \in S : \A y \in S : x <= y
<1>. DEFINE R == OpToRel(<, Nat)
<1>1. IsWellFoundedOn(R, Nat)
  BY NatLessThanWellFounded
<1>2. PICK x \in S : \A y \in S : ~(<<y, x>> \in R)
  BY <1>1, WFMin
<1>3. ASSUME NEW y \in Nat, NEW z \in Nat, y < z PROVE <<y, z>> \in R
  BY <1>3 DEF OpToRel
<1>. HIDE DEF R
<1>4. ASSUME NEW y \in S PROVE x <= y
  <2>1. x \in Nat /\ y \in Nat /\ ~(y < x)
    BY <1>2, <1>3
  <2>. QED BY <2>1
<1>. QED BY <1>4

\* An induction over numbers is one over the set of those for which a fact holds.
LEMMA Inductive ==
  ASSUME NEW S, 0 \in S, \A n \in Nat : n \in S => n + 1 \in S
  PROVE  \A n \in Nat : n \in S
<1>. SUFFICES ASSUME Nat \ S # {} PROVE FALSE
  OBVIOUS
<1>. DEFINE T == Nat \ S
<1>1. T \in SUBSET Nat /\ T # {}
  OBVIOUS
<1>2. PICK m \in T : \A y \in T : m <= y
  BY <1>1, Smallest
<1>3. m \in Nat /\ m # 0 /\ m - 1 \in Nat /\ (m - 1) + 1 = m
  BY <1>2
<1>4. m - 1 \in S
  <2>1. ~(m <= m - 1)
    BY <1>3
  <2>. QED BY <1>2, <1>3, <2>1
<1>. QED BY <1>3, <1>4

\* The sums of f over the lines before each line
SumsUp(h, f, n) ==
  /\ h \in [1 .. n + 1 -> Nat]
  /\ h[1] = 0
  /\ \A i \in 1 .. n : h[i + 1] = h[i] + f[i]
Sum(f, n) == CHOOSE h : SumsUp(h, f, n)

\* There are such sums.
LEMMA SumIs ==
  ASSUME NEW n \in Nat, NEW f \in [1 .. n -> Nat]
  PROVE  SumsUp(Sum(f, n), f, n)
<1>. DEFINE T == {k \in Nat : k <= n => \E h : SumsUp(h, f, k)}
<1>1. 0 \in T
  <2>. DEFINE h == [i \in 1 .. 0 + 1 |-> 0]
  <2>1. h \in [1 .. 0 + 1 -> Nat] /\ h[1] = 0 /\ \A i \in 1 .. 0 : FALSE
    OBVIOUS
  <2>2. SumsUp(h, f, 0)
    BY <2>1 DEF SumsUp
  <2>. QED BY <2>2
<1>2. ASSUME NEW k \in Nat, k \in T PROVE k + 1 \in T
  <2>. SUFFICES ASSUME k + 1 <= n PROVE \E h : SumsUp(h, f, k + 1)
    OBVIOUS
  <2>1. PICK g : SumsUp(g, f, k)
    BY <1>2
  <2>. DEFINE h == [i \in 1 .. (k + 1) + 1 |-> IF i = k + 2 THEN g[k + 1] + f[k + 1] ELSE g[i]]
  <2>2. /\ \A i \in 1 .. k + 1 : g[i] \in Nat /\ i \in 1 .. (k + 1) + 1 /\ i # k + 2
        /\ f[k + 1] \in Nat /\ k + 1 \in 1 .. k + 1 /\ k + 2 \in 1 .. (k + 1) + 1
    BY <2>1 DEF SumsUp
  <2>3. /\ \A i \in 1 .. k + 1 : h[i] = g[i]
        /\ h[k + 2] = g[k + 1] + f[k + 1]
    BY <2>2
  <2>4. h \in [1 .. (k + 1) + 1 -> Nat]
    <3>1. ASSUME NEW i \in 1 .. (k + 1) + 1
          PROVE  (IF i = k + 2 THEN g[k + 1] + f[k + 1] ELSE g[i]) \in Nat
      <4>1. i = k + 2 \/ i \in 1 .. k + 1
        OBVIOUS
      <4>. QED BY ONLY <2>2, <4>1
    <3>. QED BY <3>1
  <2>5. h[1] = 0
    <3>1. 1 \in 1 .. k + 1
      OBVIOUS
    <3>. QED BY <2>1, <2>3, <3>1 DEF SumsUp
  <2>. HIDE DEF h
  <2>6. ASSUME NEW i \in 1 .. k + 1 PROVE h[i + 1] = h[i] + f[i]
    <3>1. CASE i = k + 1
      <4>1. i + 1 = k + 2
        BY <3>1
      <4>. QED BY <2>3, <3>1, <4>1
    <3>2. CASE i # k + 1
      <4>1. i \in 1 .. k /\ i + 1 \in 1 .. k + 1
        BY <3>2
      <4>. QED BY <2>1, <2>3, <4>1 DEF SumsUp
    <3>. QED BY <3>1, <3>2
  <2>7. SumsUp(h, f, k + 1)
    BY <2>4, <2>5, <2>6 DEF SumsUp
  <2>. QED BY <2>7
<1>3. n \in T
  <2>. HIDE DEF T
  <2>. QED BY <1>1, <1>2, Inductive
<1>4. \E h : SumsUp(h, f, n)
  BY <1>3
<1>. QED BY <1>4 DEF Sum

\* They do not fall.
LEMMA SumGrows ==
  ASSUME NEW n \in Nat, NEW f \in [1 .. n -> Nat], NEW h, SumsUp(h, f, n), NEW j \in 1 .. n + 1
  PROVE  h[j] <= h[n + 1]
<1>. DEFINE T == {k \in Nat : k < n + 1 => h[n + 1 - k] <= h[n + 1]}
<1>1. 0 \in T
  <2>1. h[n + 1] \in Nat /\ n + 1 - 0 = n + 1
    BY DEF SumsUp
  <2>. QED BY <2>1
<1>2. ASSUME NEW k \in Nat, k \in T PROVE k + 1 \in T
  <2>. SUFFICES ASSUME k + 1 < n + 1 PROVE h[n + 1 - (k + 1)] <= h[n + 1]
    OBVIOUS
  <2>1. h[n + 1 - k] <= h[n + 1]
    BY <1>2
  <2>2. PICK i \in 1 .. n : i = n + 1 - (k + 1) /\ i + 1 = n + 1 - k
    <3>1. n + 1 - (k + 1) \in 1 .. n /\ (n + 1 - (k + 1)) + 1 = n + 1 - k
      OBVIOUS
    <3>. QED BY <3>1
  <2>3. h[i + 1] = h[i] + f[i] /\ h[i] \in Nat /\ h[n + 1] \in Nat /\ f[i] \in Nat
    <3>1. i \in 1 .. n + 1 /\ n + 1 \in 1 .. n + 1
      OBVIOUS
    <3>. QED BY <3>1 DEF SumsUp
  <2>4. h[i + 1] <= h[n + 1]
    BY <2>1, <2>2
  <2>5. h[i] <= h[n + 1]
    BY ONLY <2>3, <2>4
  <2>. QED BY <2>2, <2>5
<1>3. \A k \in Nat : k \in T
  <2>. HIDE DEF T
  <2>. QED BY <1>1, <1>2, Inductive
<1>4. PICK k \in Nat : k = n + 1 - j /\ k < n + 1 /\ n + 1 - k = j
  <2>1. n + 1 - j \in Nat /\ n + 1 - j < n + 1 /\ n + 1 - (n + 1 - j) = j
    OBVIOUS
  <2>. QED BY <2>1
<1>. QED BY <1>3, <1>4

\* What the fragments of section n in the lines p take, with the amounts a
Pieces(p, a, n) ==
  [i \in 1 .. Len(p) |-> IF p[i].op = "section" /\ p[i].sec = n
                         THEN a[i] + (IF p[i].gap THEN 2 ELSE 0) ELSE 0]
Taken(p, a, n) == Sum(Pieces(p, a, n), Len(p))
Total(p, a, n) == Taken(p, a, n)[Len(p) + 1]

\* Line i places section n, and none before does.
Puts(p, a, i, n) == p[i].op = "dsection" /\ p[i].sec = n /\ (p[i].var => a[i] = 2)
First(p, a, i, n) == Puts(p, a, i, n) /\ \A j \in 1 .. Len(p) : j < i => ~Puts(p, a, j, n)

\* Where the lines are once each .dsection leaves what the fragments take
Moves(p, a) ==
  [i \in 1 .. Len(p) |-> IF p[i].op = "data" THEN a[i]
                         ELSE IF First(p, a, i, p[i].sec) THEN Total(p, a, p[i].sec) ELSE 0]
Place(p, a) == Sum(Moves(p, a), Len(p))
Counter(p, a, i) == IF p[i].logical THEN Logical ELSE Place(p, a)[i]

Source(p, a) == p \in Seq(LineType) /\ a \in [DOMAIN p -> 1 .. 2]

\* The lines of a program
LEMMA SourceIs ==
  ASSUME NEW p, NEW a, Source(p, a)
  PROVE  /\ Len(p) \in Nat /\ DOMAIN p = 1 .. Len(p)
         /\ \A i \in 1 .. Len(p) : p[i] \in LineType /\ p[i].sec \in Names /\ a[i] \in 1 .. 2
<1>1. p \in Seq(LineType) /\ a \in [DOMAIN p -> 1 .. 2]
  BY DEF Source
<1>2. Len(p) \in Nat /\ DOMAIN p = 1 .. Len(p) /\ \A i \in 1 .. Len(p) : p[i] \in LineType
  BY ONLY <1>1
<1>3. \A i \in 1 .. Len(p) : p[i].sec \in Names
  BY <1>2 DEF LineType
<1>. QED BY <1>1, <1>2, <1>3

\* What a section took grows line by line, up to what all lines take.
LEMMA TakenIs ==
  ASSUME NEW p, NEW a, Source(p, a), NEW n
  PROVE  /\ \A i \in 1 .. Len(p) + 1 : /\ Taken(p, a, n)[i] \in Nat
                                       /\ Taken(p, a, n)[i] <= Total(p, a, n)
         /\ Total(p, a, n) \in Nat
         /\ Taken(p, a, n)[1] = 0
         /\ \A i \in 1 .. Len(p) :
              Taken(p, a, n)[i + 1] =
                Taken(p, a, n)[i] + IF p[i].op = "section" /\ p[i].sec = n
                                    THEN a[i] + (IF p[i].gap THEN 2 ELSE 0) ELSE 0
<1>. DEFINE f == Pieces(p, a, n)
<1>1. Len(p) \in Nat /\ \A i \in 1 .. Len(p) : a[i] \in 1 .. 2
  BY SourceIs
<1>2. f \in [1 .. Len(p) -> Nat]
  <2>1. ASSUME NEW i \in 1 .. Len(p)
        PROVE  (IF p[i].op = "section" /\ p[i].sec = n
                THEN a[i] + (IF p[i].gap THEN 2 ELSE 0) ELSE 0) \in Nat
    <3>1. a[i] \in Nat /\ a[i] + 2 \in Nat /\ a[i] + 0 \in Nat
      BY <1>1
    <3>. QED BY <3>1
  <2>. QED BY <2>1 DEF Pieces
<1>3. SumsUp(Taken(p, a, n), f, Len(p))
  BY <1>1, <1>2, SumIs DEF Taken
<1>4. \A i \in 1 .. Len(p) + 1 : Taken(p, a, n)[i] <= Total(p, a, n)
  <2>. HIDE DEF f
  <2>. QED BY <1>1, <1>2, <1>3, SumGrows DEF Total
<1>5. \A i \in 1 .. Len(p) : f[i] = IF p[i].op = "section" /\ p[i].sec = n
                                    THEN a[i] + (IF p[i].gap THEN 2 ELSE 0) ELSE 0
  BY DEF Pieces
<1>6. Len(p) + 1 \in 1 .. Len(p) + 1
  BY <1>1
<1>. HIDE DEF f
<1>. QED BY <1>3, <1>4, <1>5, <1>6 DEF SumsUp, Total

\* A line is behind what the lines before it take.
LEMMA PlaceIs ==
  ASSUME NEW p, NEW a, Source(p, a)
  PROVE  /\ \A i \in 1 .. Len(p) + 1 : Place(p, a)[i] \in Nat
         /\ Place(p, a)[1] = 0
         /\ \A i \in 1 .. Len(p) :
              Place(p, a)[i + 1] =
                Place(p, a)[i] + IF p[i].op = "data" THEN a[i]
                                 ELSE IF First(p, a, i, p[i].sec) THEN Total(p, a, p[i].sec) ELSE 0
<1>. DEFINE f == Moves(p, a)
<1>1. Len(p) \in Nat /\ \A i \in 1 .. Len(p) : a[i] \in 1 .. 2
  BY SourceIs
<1>2. f \in [1 .. Len(p) -> Nat]
  <2>1. ASSUME NEW i \in 1 .. Len(p)
        PROVE  (IF p[i].op = "data" THEN a[i]
                ELSE IF First(p, a, i, p[i].sec) THEN Total(p, a, p[i].sec) ELSE 0) \in Nat
    <3>1. a[i] \in Nat /\ Total(p, a, p[i].sec) \in Nat
      BY <1>1, TakenIs
    <3>. QED BY <3>1
  <2>. QED BY <2>1 DEF Moves
<1>3. SumsUp(Place(p, a), f, Len(p))
  BY <1>1, <1>2, SumIs DEF Place
<1>4. \A i \in 1 .. Len(p) : f[i] = IF p[i].op = "data" THEN a[i]
                                    ELSE IF First(p, a, i, p[i].sec) THEN Total(p, a, p[i].sec) ELSE 0
  BY DEF Moves
<1>. HIDE DEF f
<1>. QED BY <1>3, <1>4 DEF SumsUp

\* The line that places a section first is only one.
LEMMA FirstIsOne ==
  ASSUME NEW p, NEW a, Source(p, a), NEW n,
         NEW i \in 1 .. Len(p), NEW j \in 1 .. Len(p), First(p, a, i, n), First(p, a, j, n)
  PROVE  i = j
<1>1. Len(p) \in Nat
  BY SourceIs
<1>2. ~(i < j) /\ ~(j < i)
  BY DEF First
<1>. QED BY ONLY <1>1, <1>2, i \in 1 .. Len(p), j \in 1 .. Len(p)

(***************************************************************************)
(* What the operations do to what a section takes.                         *)
(***************************************************************************)
Tight(s) == s.start = s.restart /\ s.end <= s.address /\ (s.moved => s.end = s.address)
Extent(s) == s.address - s.start

\* A section ends at its address.
LEMMA TightEnd ==
  ASSUME NEW s \in SectionType, Tight(s)
  PROVE  EndOf(s) = s.address /\ EndOf(s) - s.start = Extent(s) /\ Extent(s) \in Int
<1>1. s.end \in Int /\ s.address \in Int /\ s.start \in Int /\ s.moved \in BOOLEAN
  BY Fields
<1>. QED BY <1>1 DEF Tight, Extent, EndOf

\* Bytes or a gap of n are put behind a section.
Grown(s, t, n) ==
  /\ t \in SectionType /\ Tight(t) /\ Extent(t) = Extent(s) + n
  /\ t.usepass = s.usepass /\ t.defpass = s.defpass /\ t.size = s.size /\ t.l_restart = s.l_restart

\* Bytes make it that much longer,
LEMMA PokeGrows ==
  ASSUME NEW s \in SectionType, Tight(s), NEW n \in Nat
  PROVE  Grown(s, Poke(s, n), n)
<1>1. PICK t \in SectionType : t = Poke(s, n) /\ Goes(s, t)
  BY PokeGoes DEF Goes
<1>2. /\ t.address = s.address + n /\ t.moved = FALSE /\ t.end = s.end
  BY <1>1 DEF Poke, SectionType
<1>3. s.end \in Int /\ s.address \in Int /\ s.start \in Int /\ s.end <= s.address
  BY Fields DEF Tight
<1>4. t.start = s.start /\ t.restart = s.restart /\ s.start = s.restart
  BY <1>1 DEF Goes, Tight
<1>5. Tight(t)
  BY <1>2, <1>3, <1>4 DEF Tight
<1>6. Extent(t) = Extent(s) + n
  BY <1>2, <1>3, <1>4 DEF Extent
<1>. QED BY <1>1, <1>5, <1>6 DEF Grown, Goes

\* and so does a gap.
LEMMA SkipGrows ==
  ASSUME NEW s \in SectionType, Tight(s), NEW n \in Nat
  PROVE  Grown(s, Skip(s, n), n)
<1>1. PICK t \in SectionType : t = Skip(s, n) /\ Goes(s, t)
  BY SkipGoes DEF Goes
<1>2. /\ t.address = s.address + n /\ t.moved = FALSE /\ t.end = s.end
  <2>0. s.address \in Int
    BY Fields
  <2>1. PICK a \in Int : a = s.address + n
    BY <2>0
  <2>2. PICK c \in SectionType : c = MemJmp(s, a) /\ c.address = s.address /\ c.end = s.end
    BY MemJmpIs
  <2>3. t = [c EXCEPT !.address = s.address + n, !.moved = FALSE]
    BY <1>1, <2>1, <2>2 DEF Skip
  <2>. QED BY <2>2, <2>3 DEF SectionType
<1>3. s.end \in Int /\ s.address \in Int /\ s.start \in Int /\ s.end <= s.address
  BY Fields DEF Tight
<1>4. t.start = s.start /\ t.restart = s.restart /\ s.start = s.restart
  BY <1>1 DEF Goes, Tight
<1>5. Tight(t)
  BY <1>2, <1>3, <1>4 DEF Tight
<1>6. Extent(t) = Extent(s) + n
  BY <1>2, <1>3, <1>4 DEF Extent
<1>. QED BY <1>1, <1>5, <1>6 DEF Grown, Goes

\* The lines of a fragment
LEMMA FilledGrows ==
  ASSUME NEW s \in SectionType, Tight(s), NEW n \in Nat, NEW gap \in BOOLEAN
  PROVE  Grown(s, Filled(s, n, gap), n + (IF gap THEN 2 ELSE 0))
<1>1. PICK p \in SectionType : p = Poke(s, n) /\ Grown(s, p, n)
  BY PokeGrows DEF Grown
<1>2. PICK q \in SectionType : q = Skip(p, 1) /\ Grown(p, q, 1)
  <2>1. Tight(p)
    BY <1>1 DEF Grown
  <2>. QED BY <2>1, SkipGrows DEF Grown
<1>3. PICK r \in SectionType : r = Poke(q, 1) /\ Grown(q, r, 1)
  <2>1. Tight(q)
    BY <1>2 DEF Grown
  <2>. QED BY <2>1, PokeGrows DEF Grown
<1>4. Filled(s, n, gap) = IF gap THEN r ELSE p
  BY <1>1, <1>2, <1>3 DEF Filled
<1>5. Extent(r) = Extent(s) + (n + 2) /\ Extent(p) = Extent(s) + (n + 0)
  <2>1. Extent(s) \in Int
    BY TightEnd
  <2>2. Extent(p) = Extent(s) + n /\ Extent(q) = Extent(p) + 1 /\ Extent(r) = Extent(q) + 1
    BY <1>1, <1>2, <1>3 DEF Grown
  <2>. QED BY <2>1, <2>2
<1>6. Grown(s, r, n + 2) /\ Grown(s, p, n + 0)
  BY <1>1, <1>2, <1>3, <1>5 DEF Grown
<1>7. CASE gap
  BY <1>4, <1>6, <1>7
<1>8. CASE ~gap
  BY <1>4, <1>6, <1>8
<1>. QED BY <1>7, <1>8

\* A section begun anew, by new_memblocks, has taken nothing.
EmptyTight(s) == s.start = s.restart /\ s.end = s.address /\ s.start = s.address
\* It ends where it begins.
LEMMA EmptyIsTight ==
  ASSUME NEW s \in SectionType, EmptyTight(s)
  PROVE  Tight(s) /\ Extent(s) = 0
<1>1. s.end \in Int /\ s.address \in Int /\ s.start \in Int
  BY Fields
<1>. QED BY <1>1 DEF EmptyTight, Tight, Extent

\* The first line of a section in a pass keeps what it took in the pass before as its size.
LEMMA RestartedRests ==
  ASSUME NEW s \in SectionType, Tight(s), NEW a \in Int
  PROVE  LET t == Restarted(s, a) IN
         /\ t \in SectionType /\ Tight(t) /\ Extent(t) = 0 /\ t.size = Extent(s)
         /\ t.usepass = s.usepass /\ t.defpass = s.defpass /\ t.l_restart = s.l_restart
<1>1. PICK t \in SectionType : t = Restarted(s, a)
        /\ t.size = EndOf(s) - s.start /\ t.start = a /\ t.restart = a /\ t.address = a
        /\ t.usepass = s.usepass /\ t.defpass = s.defpass /\ t.l_restart = s.l_restart
  BY RestartedIs
<1>2. t.end = a
  <2>1. PICK e \in SectionType : e = Emptied(s, a) /\ e.end = a
    BY EmptiedIs
  <2>2. t = [e EXCEPT !.size = EndOf(s) - s.start, !.moved = TRUE]
    BY <1>1, <2>1 DEF Restarted
  <2>. QED BY <2>1, <2>2 DEF SectionType
<1>3. EmptyTight(t)
  BY <1>1, <1>2 DEF EmptyTight
<1>. QED BY <1>1, <1>3, EmptyIsTight, TightEnd

\* A fragment of a lost section begins it,
LEMMA AnewRests ==
  ASSUME NEW s \in SectionType, NEW a \in Int, NEW p \in Nat
  PROVE  LET t == Anew(s, a, p) IN
         t \in SectionType /\ Tight(t) /\ Extent(t) = 0 /\ t.defpass = p
<1>1. PICK t \in SectionType : t = Anew(s, a, p)
        /\ t.restart = a /\ t.start = a /\ t.address = a /\ t.defpass = p
  BY AnewIs
<1>2. t.end = a
  <2>1. PICK e \in SectionType : e = Emptied(s, a) /\ e.end = a
    BY EmptiedIs
  <2>2. t = [e EXCEPT !.size = 0, !.l_restart = a, !.defpass = p]
    BY <1>1, <2>1 DEF Anew
  <2>. QED BY <2>1, <2>2 DEF SectionType
<1>3. EmptyTight(t)
  BY <1>1, <1>2 DEF EmptyTight
<1>. QED BY <1>1, <1>3, EmptyIsTight

\* or its .dsection does.
LEMMA PutRests ==
  ASSUME NEW s \in SectionType, NEW a \in Int, NEW l \in Int, NEW p \in Nat
  PROVE  LET t == Put(s, a, l, p) IN
         t \in SectionType /\ Tight(t) /\ Extent(t) = 0 /\ t.usepass = p
<1>1. PICK t \in SectionType : t = Put(s, a, l, p)
        /\ t.restart = a /\ t.start = a /\ t.address = a /\ t.usepass = p
  BY PutIs
<1>2. t.end = a
  <2>1. PICK e \in SectionType : e = Emptied(s, a) /\ e.end = a
    BY EmptiedIs
  <2>2. t = [e EXCEPT !.moved = FALSE, !.l_restart = l, !.usepass = p]
    BY <1>1, <2>1 DEF Put
  <2>. QED BY <2>1, <2>2 DEF SectionType
<1>3. EmptyTight(t)
  BY <1>1, <1>2 DEF EmptyTight
<1>. QED BY <1>1, <1>3, EmptyIsTight

\* Moving a section changes nothing of what it takes,
LEMMA ShiftedRests ==
  ASSUME NEW s \in SectionType, Tight(s), NEW a \in Int
  PROVE  LET t == Shifted(s, a) IN
         /\ t \in SectionType /\ Tight(t) /\ Extent(t) = Extent(s) /\ t.size = s.size
<1>1. PICK t \in SectionType : t = Shifted(s, a)
        /\ t.size = s.size /\ t.start = a /\ t.restart = a
        /\ t.address = s.address + (a - s.restart)
        /\ t.end = s.end + (a - s.restart) /\ t.moved = s.moved
  BY ShiftedIs
<1>2. s.end \in Int /\ s.address \in Int /\ s.start \in Int /\ s.restart \in Int
  BY Fields
<1>3. s.start = s.restart /\ s.end <= s.address /\ (s.moved => s.end = s.address)
  BY DEF Tight
<1>4. Tight(t)
  BY <1>1, <1>2, <1>3 DEF Tight
<1>5. Extent(t) = Extent(s)
  BY <1>1, <1>2, <1>3 DEF Extent
<1>. QED BY <1>1, <1>4, <1>5

\* and neither does noting that it is placed.
LEMMA MarkedRests ==
  ASSUME NEW s \in SectionType, Tight(s), NEW l \in Int, NEW p \in Nat
  PROVE  LET t == Marked(s, l, p) IN
         /\ t \in SectionType /\ Tight(t) /\ Extent(t) = Extent(s) /\ t.size = s.size
         /\ t.usepass = p /\ t.defpass = p /\ t.l_restart = l
<1>1. PICK t \in SectionType : t = Marked(s, l, p)
        /\ t.size = s.size /\ t.start = s.start /\ t.restart = s.restart /\ t.l_restart = l
        /\ t.usepass = p /\ t.defpass = p /\ t.address = s.address /\ t.end = s.end
        /\ t.moved = s.moved
  BY MarkedIs
<1>. QED BY <1>1 DEF Tight, Extent

\* A fragment: what the section takes is what the fragment takes, and what those before it
\* in this pass took; the size is that of the pass before.
LEMMA FragmentGrows ==
  ASSUME pass \in Nat \ {0}, here \in Int, NEW s \in SectionType, Tight(s), Dated(s, pass),
         NEW n \in Nat, NEW gap \in BOOLEAN
  PROVE  LET t == Extended(s, n, gap) IN
         /\ t \in SectionType /\ Tight(t) /\ Dated(t, pass) /\ t.usepass = pass
         /\ Extent(t) = (IF s.usepass = pass THEN Extent(s) ELSE 0) + (n + (IF gap THEN 2 ELSE 0))
         /\ t.defpass = IF Lost(s) THEN pass - 1 ELSE s.defpass
         /\ ~Lost(s) => /\ t.l_restart = s.l_restart
                        /\ t.size = IF s.usepass = pass THEN s.size ELSE Extent(s)
<1>1. PICK q \in Nat, h \in Int, p \in Nat : q = pass - 1 /\ h = here /\ p = pass /\ p # 0
  OBVIOUS
<1>2. s.usepass \in Nat /\ s.defpass \in Nat /\ s.restart \in Int
  BY Fields
<1>3. s.usepass <= p /\ s.defpass <= s.usepass /\ (s.usepass = p => s.defpass >= p - 1)
  BY <1>1 DEF Dated
<1>4. Lost(s) => s.usepass # p
  BY <1>1, <1>2, <1>3 DEF Lost
<1>5. PICK b \in SectionType :
        /\ b = Started(s) /\ Tight(b)
        /\ Extent(b) = IF s.usepass = p THEN Extent(s) ELSE 0
        /\ b.defpass = IF Lost(s) THEN q ELSE s.defpass
        /\ ~Lost(s) => /\ b.l_restart = s.l_restart
                       /\ b.size = IF s.usepass = p THEN s.size ELSE Extent(s)
  <2>1. CASE Lost(s)
    <3>1. Anew(s, h, q) \in SectionType /\ Tight(Anew(s, h, q)) /\ Extent(Anew(s, h, q)) = 0
          /\ Anew(s, h, q).defpass = q
      BY AnewRests
    <3>2. Started(s) = Anew(s, h, q)
      BY <1>1, <2>1 DEF Started, Anew
    <3>. QED BY <1>4, <2>1, <3>1, <3>2
  <2>2. CASE ~Lost(s) /\ s.usepass # p
    <3>1. PICK b \in SectionType : b = Restarted(s, s.restart) /\ Tight(b) /\ Extent(b) = 0
            /\ b.size = Extent(s) /\ b.defpass = s.defpass /\ b.l_restart = s.l_restart
      BY <1>2, RestartedRests
    <3>2. Started(s) = b
      BY <1>1, <2>2, <3>1 DEF Started, Restarted
    <3>. QED BY <2>2, <3>1, <3>2
  <2>3. CASE ~Lost(s) /\ s.usepass = p
    BY <1>1, <2>3 DEF Started
  <2>. QED BY <2>1, <2>2, <2>3
<1>6. PICK f \in SectionType : f = Filled(b, n, gap) /\ Grown(b, f, n + (IF gap THEN 2 ELSE 0))
  BY <1>5, FilledGrows DEF Grown
<1>7. PICK t \in SectionType : t = [f EXCEPT !.usepass = p]
  BY DEF SectionType
<1>8. /\ t.usepass = p /\ t.defpass = f.defpass /\ t.size = f.size /\ t.l_restart = f.l_restart
      /\ t.start = f.start /\ t.restart = f.restart /\ t.end = f.end /\ t.address = f.address
      /\ t.moved = f.moved
  BY <1>7 DEF SectionType
<1>9. Tight(t) /\ Extent(t) = Extent(f)
  BY <1>6, <1>8 DEF Grown, Tight, Extent
<1>10. Extended(s, n, gap) = t
  BY <1>1, <1>5, <1>6, <1>7 DEF Extended
<1>11. t.defpass = b.defpass /\ t.size = b.size /\ t.l_restart = b.l_restart
       /\ Extent(t) = Extent(b) + (n + (IF gap THEN 2 ELSE 0))
  BY <1>6, <1>8, <1>9 DEF Grown
<1>12. Dated(t, pass)
  <2>1. b.defpass <= p /\ b.defpass >= p - 1
    BY <1>1, <1>2, <1>3, <1>5 DEF Lost
  <2>. QED BY <1>1, <1>8, <1>11, <2>1 DEF Dated
<1>. QED BY <1>1, <1>5, <1>8, <1>9, <1>10, <1>11, <1>12

\* .dsection: the space is what the section took in the pass before, or up to now if this
\* is more; what it took in this pass stays.
Placing(s, a, l, p) == IF Lost(s) THEN Put(s, a, l, p) ELSE s
\* The section is as long as before, and is placed.
LEMMA DsectionRests ==
  ASSUME pass \in Nat \ {0}, NEW s \in SectionType, Tight(s), Dated(s, pass),
         NEW a \in Int, NEW l \in Int, NEW p \in Nat, p = pass
  PROVE  LET f == Placing(s, a, l, p)
             t == Marked(MovedTo(f, a, p), l, p)
             r == SpaceOf(f, a, p)
         IN /\ t \in SectionType /\ Tight(t) /\ r \in Int
            /\ t.usepass = p /\ t.defpass = p /\ t.l_restart = l
            /\ Extent(t) = IF s.usepass = p THEN Extent(s) ELSE 0
            /\ ~Lost(s) => /\ t.size = IF s.usepass = p THEN s.size ELSE Extent(s)
                           /\ r = IF s.usepass = p THEN Higher(s.size, Extent(s)) ELSE Extent(s)
<1>1. s.usepass \in Nat /\ s.defpass \in Nat
  BY Fields
<1>2. s.usepass <= p /\ s.defpass <= s.usepass /\ (s.usepass = p => s.defpass >= p - 1)
  BY DEF Dated
<1>3. Lost(s) => s.usepass # p
  BY <1>1, <1>2 DEF Lost
<1>4. PICK f \in SectionType :
        /\ f = Placing(s, a, l, p) /\ Tight(f) /\ (~Lost(s) => f = s)
        /\ Lost(s) => f.usepass = p /\ Extent(f) = 0
  <2>1. CASE Lost(s)
    <3>1. Put(s, a, l, p) \in SectionType /\ Tight(Put(s, a, l, p)) /\ Extent(Put(s, a, l, p)) = 0
          /\ Put(s, a, l, p).usepass = p
      BY PutRests
    <3>. QED BY <2>1, <3>1 DEF Placing
  <2>2. CASE ~Lost(s)
    BY <2>2 DEF Placing
  <2>. QED BY <2>1, <2>2
<1>5. f.size \in Int /\ Extent(f) \in Int /\ EndOf(f) - f.start = Extent(f)
  BY <1>4, Fields, TightEnd
<1>6. PICK m \in SectionType, r \in Int :
        /\ m = MovedTo(f, a, p) /\ r = SpaceOf(f, a, p) /\ Tight(m)
        /\ Extent(m) = IF f.usepass = p THEN Extent(f) ELSE 0
        /\ m.size = IF f.usepass = p THEN f.size ELSE Extent(f)
        /\ r = IF f.usepass = p THEN Higher(f.size, Extent(f)) ELSE Extent(f)
  <2>1. CASE f.usepass = p
    <3>1. Shifted(f, a) \in SectionType /\ Tight(Shifted(f, a)) /\ Extent(Shifted(f, a)) = Extent(f)
          /\ Shifted(f, a).size = f.size
      BY <1>4, ShiftedRests
    <3>2. Space(f) = Higher(f.size, Extent(f)) /\ Space(f) \in Int
      BY <1>5 DEF Space, Higher
    <3>. QED BY <2>1, <3>1, <3>2 DEF MovedTo, SpaceOf
  <2>2. CASE f.usepass # p
    <3>1. Restarted(f, a) \in SectionType /\ Tight(Restarted(f, a)) /\ Extent(Restarted(f, a)) = 0
          /\ Restarted(f, a).size = Extent(f)
      BY <1>4, RestartedRests
    <3>. QED BY <1>5, <2>2, <3>1 DEF MovedTo, SpaceOf
  <2>. QED BY <2>1, <2>2
<1>7. PICK t \in SectionType :
        /\ t = Marked(m, l, p) /\ Tight(t) /\ Extent(t) = Extent(m) /\ t.size = m.size
        /\ t.usepass = p /\ t.defpass = p /\ t.l_restart = l
  BY <1>6, MarkedRests
<1>8. Extent(t) = IF s.usepass = p THEN Extent(s) ELSE 0
  BY <1>3, <1>4, <1>6, <1>7
<1>9. ASSUME ~Lost(s)
      PROVE  /\ t.size = IF s.usepass = p THEN s.size ELSE Extent(s)
             /\ r = IF s.usepass = p THEN Higher(s.size, Extent(s)) ELSE Extent(s)
  BY <1>4, <1>6, <1>7, <1>9
<1>. QED BY <1>4, <1>6, <1>7, <1>8, <1>9

(***************************************************************************)
(* The invariant.  What is known in each pass: what a section took so far, *)
(* and which sections are placed.  From the second pass on in which the    *)
(* values are those of the pass before: the size is what the section takes *)
(* in all, and the lines are where they belong.  From the third: nothing   *)
(* asks for another pass.                                                  *)
(***************************************************************************)
Quiet == MaxMoves + 1  \* the first pass with the values of the end

Taking ==
  \A n \in Names : LET s == section[n] IN
    /\ Tight(s) /\ Dated(s, pass)
    /\ IF s.usepass = pass THEN Extent(s) = Taken(prog, amount, n)[pc]
       ELSE Taken(prog, amount, n)[pc] = 0
Putting ==
  \A n \in Names : section[n].defpass = pass <=> \E i \in 1 .. Len(prog) : i < pc /\ Puts(prog, amount, i, n)
Using ==
  \A i \in 1 .. Len(prog) : prog[i].op = "section" =>
    /\ section[prog[i].sec].usepass >= pass - 1
    /\ i < pc => section[prog[i].sec].usepass >= pass
Repeated ==
  \A n \in Names : \A i \in 1 .. Len(prog) : First(prog, amount, i, n) =>
    LET s == section[n] IN
    /\ s.defpass >= pass - 1
    /\ IF s.usepass = pass THEN s.size = Total(prog, amount, n) ELSE Extent(s) = Total(prog, amount, n)
    /\ s.defpass = pass \/ pass > Quiet + 1 => s.l_restart = Counter(prog, amount, i)
Settling ==
  /\ TypeOK /\ pc <= Len(prog) + 1
  /\ Taking /\ Putting /\ Using
  /\ pass > Quiet => here = Place(prog, amount)[pc] /\ Repeated
  /\ pass > Quiet + 1 => fixeddig
SettleInv == (stage = "pass" => Settling) /\ Settles

\* A place to look at the program
LEMMA AtLine ==
  ASSUME TypeOK
  PROVE  /\ Source(prog, amount) /\ Len(prog) \in Nat /\ pc \in Nat \ {0} /\ pass \in Nat \ {0}
         /\ DOMAIN prog = 1 .. Len(prog)
         /\ here \in Int /\ fixeddig \in BOOLEAN /\ Quiet \in Nat /\ Quiet = MaxMoves + 1
         /\ section \in [Names -> SectionType] /\ reserved \in [Names -> Int]
<1>1. prog \in Seq(LineType) /\ amount \in [DOMAIN prog -> 1 .. 2]
  BY ProgramsAssumption DEF TypeOK
<1>2. Quiet \in Nat
  BY PassAssumption DEF Quiet
<1>. QED BY <1>1, <1>2, SourceIs DEF Source, TypeOK, Quiet

\* The lines before the next one are those before this one, and this one.
LEMMA NextIs ==
  ASSUME TypeOK, pc <= Len(prog)
  PROVE  /\ pc \in 1 .. Len(prog) /\ pc + 1 <= Len(prog) + 1 /\ pc + 1 \in Nat \ {0}
         /\ \A i \in 1 .. Len(prog) : i < pc + 1 <=> i < pc \/ i = pc
         /\ Line = prog[pc] /\ Line.sec \in Names /\ amount[pc] \in 1 .. 2 /\ Line.gap \in BOOLEAN
         /\ pc \in 1 .. Len(prog) + 1
<1>1. Len(prog) \in Nat /\ pc \in Nat \ {0}
  BY AtLine
<1>2. pc \in 1 .. Len(prog)
  BY <1>1
<1>3. \A i \in 1 .. Len(prog) : i < pc + 1 <=> i < pc \/ i = pc
  BY <1>1
<1>4. pc + 1 <= Len(prog) + 1 /\ pc + 1 \in Nat \ {0} /\ pc \in 1 .. Len(prog) + 1
  BY <1>1
<1>5. amount[pc] \in 1 .. 2
  BY <1>2, AtLine, SourceIs
<1>. QED BY <1>2, <1>3, <1>4, <1>5, LineIs DEF Line

\* Lines outside of sections go on to the next one.
LEMMA DataSettles == Settling /\ stage = "pass" /\ (Data \/ NoDsection) => Settling'
<1>. SUFFICES ASSUME Settling, stage = "pass", Data \/ NoDsection PROVE Settling'
  OBVIOUS
<1>1. TypeOK /\ pc <= Len(prog)
  BY DEF Settling, Data, NoDsection, At
<1>2. /\ UNCHANGED <<prog, amount, pass, stage, fixeddig, section, reserved, errors>> /\ pc' = pc + 1
  BY DEF Data, NoDsection, NextLine, Unmoved
<1>. DEFINE gone == IF Line.op = "data" THEN amount[pc] ELSE 0
<1>3. /\ Line.op # "section" /\ ~Puts(prog, amount, pc, Line.sec) /\ here' = here + gone
      /\ Line.op = "data" \/ Line.op = "dsection"
  <2>1. here \in Int
    BY <1>1, AtLine
  <2>2. CASE Data
    BY <2>2 DEF Data, NextLine, At, Puts, Line
  <2>3. CASE NoDsection
    <3>1. Line.op = "dsection" /\ Line.var /\ amount[pc] = 1 /\ here' = here
      BY <2>3 DEF NoDsection, NextLine, At
    <3>. QED BY <2>1, <3>1 DEF Puts, Line
  <2>. QED BY <2>2, <2>3
<1>4. Source(prog, amount) /\ pc \in 1 .. Len(prog) /\ Line = prog[pc] /\ pc \in 1 .. Len(prog) + 1
      /\ here \in Int /\ amount[pc] \in 1 .. 2
  BY <1>1, AtLine, NextIs
<1>5. TypeOK'
  <2>1. here' \in Int
    BY <1>3, <1>4
  <2>2. pc' \in Nat \ {0}
    BY <1>1, <1>2, NextIs
  <2>. QED BY <1>1, <1>2, <2>1, <2>2 DEF TypeOK
<1>6. \A n \in Names : Taken(prog, amount, n)[pc + 1] = Taken(prog, amount, n)[pc]
  <2>. SUFFICES ASSUME NEW n \in Names
                PROVE  Taken(prog, amount, n)[pc + 1] = Taken(prog, amount, n)[pc]
    OBVIOUS
  <2>1. Taken(prog, amount, n)[pc + 1] = Taken(prog, amount, n)[pc] + 0
    BY <1>3, <1>4, TakenIs
  <2>2. Taken(prog, amount, n)[pc] \in Nat
    BY <1>4, TakenIs
  <2>. QED BY <2>1, <2>2
<1>7. Taking'
  BY <1>2, <1>6 DEF Settling, Taking
<1>8. \A n \in Names : ~Puts(prog, amount, pc, n)
  BY <1>3, <1>4 DEF Puts
<1>9. Putting'
  BY <1>1, <1>2, <1>8, NextIs DEF Settling, Putting
<1>10. Using'
  BY <1>1, <1>2, <1>3, <1>4, NextIs DEF Settling, Using
<1>11. ASSUME pass > Quiet PROVE here' = Place(prog, amount)[pc + 1]
  <2>1. Place(prog, amount)[pc + 1] = Place(prog, amount)[pc] + gone
    BY <1>3, <1>4, <1>8, PlaceIs DEF First
  <2>2. here = Place(prog, amount)[pc]
    BY <1>11 DEF Settling
  <2>. QED BY <1>3, <2>1, <2>2
<1>12. pass > Quiet => Repeated'
  BY <1>2 DEF Settling, Repeated
<1>13. pc' <= Len(prog)' + 1
  BY <1>1, <1>2, NextIs
<1>. QED BY <1>2, <1>5, <1>7, <1>9, <1>10, <1>11, <1>12, <1>13 DEF Settling

\* A fragment takes what its lines take; it asks for another pass only when the section is
\* not known to have no place.
LEMMA FragmentSettles == Settling /\ stage = "pass" /\ Fragment => Settling'
<1>. SUFFICES ASSUME Settling, stage = "pass", Fragment PROVE Settling'
  OBVIOUS
<1>1. TypeOK /\ pc <= Len(prog) /\ Line.op = "section"
  BY DEF Settling, Fragment, At
<1>2. /\ Source(prog, amount) /\ pc \in 1 .. Len(prog) /\ Line = prog[pc] /\ pc \in 1 .. Len(prog) + 1
      /\ here \in Int /\ amount[pc] \in 1 .. 2 /\ pass \in Nat \ {0} /\ Line.sec \in Names
      /\ Line.gap \in BOOLEAN /\ fixeddig \in BOOLEAN /\ section \in [Names -> SectionType]
      /\ Len(prog) \in Nat
  BY <1>1, AtLine, NextIs
<1>. PICK m \in Names, k \in Nat, gap \in BOOLEAN : m = Line.sec /\ k = amount[pc] /\ gap = Line.gap
  BY <1>2
<1>. PICK s \in SectionType : s = section[m]
  BY <1>2
<1>3. /\ UNCHANGED <<prog, amount, pass, stage, reserved, here>> /\ pc' = pc + 1
      /\ fixeddig' = (fixeddig /\ (Lost(s) => Unknown(s)))
      /\ section' = [section EXCEPT ![m] = Extended(s, k, gap)]
  BY DEF Fragment, NextLine, Unmoved, Extended
<1>4. Tight(s) /\ Dated(s, pass)
  BY DEF Settling, Taking
<1>5. PICK t \in SectionType :
        /\ t = Extended(s, k, gap) /\ Tight(t) /\ Dated(t, pass) /\ t.usepass = pass
        /\ Extent(t) = (IF s.usepass = pass THEN Extent(s) ELSE 0) + (k + (IF gap THEN 2 ELSE 0))
        /\ t.defpass = IF Lost(s) THEN pass - 1 ELSE s.defpass
        /\ ~Lost(s) => /\ t.l_restart = s.l_restart
                       /\ t.size = IF s.usepass = pass THEN s.size ELSE Extent(s)
  <2>1. pass \in Nat \ {0} /\ here \in Int /\ s \in SectionType /\ Tight(s) /\ Dated(s, pass)
        /\ k \in Nat /\ gap \in BOOLEAN
    BY <1>2, <1>4
  <2>. QED BY ONLY <2>1, FragmentGrows
<1>6. /\ section'[m] = t /\ \A n \in Names : n # m => section'[n] = section[n]
      /\ section' \in [Names -> SectionType]
  BY <1>2, <1>3, <1>5
<1>7. /\ s.usepass \in Nat /\ s.defpass \in Nat /\ s.usepass <= pass /\ s.defpass <= s.usepass
      /\ s.usepass = pass => s.defpass >= pass - 1
  BY <1>4, Fields DEF Dated
<1>8. t.defpass = pass <=> s.defpass = pass
  BY <1>2, <1>5, <1>7 DEF Lost
<1>9. TypeOK'
  <2>1. pc' \in Nat \ {0} /\ fixeddig' \in BOOLEAN
    BY <1>1, <1>2, <1>3, NextIs
  <2>. QED BY <1>1, <1>3, <1>6, <2>1 DEF TypeOK
<1>10. ASSUME NEW n \in Names
       PROVE  /\ Tight(section'[n]) /\ Dated(section'[n], pass)
              /\ IF section'[n].usepass = pass
                 THEN Extent(section'[n]) = Taken(prog, amount, n)[pc + 1]
                 ELSE Taken(prog, amount, n)[pc + 1] = 0
  <2>1. /\ Tight(section[n]) /\ Dated(section[n], pass)
        /\ IF section[n].usepass = pass THEN Extent(section[n]) = Taken(prog, amount, n)[pc]
           ELSE Taken(prog, amount, n)[pc] = 0
    BY DEF Settling, Taking
  <2>2. Taken(prog, amount, n)[pc] \in Nat
    BY <1>2, TakenIs
  <2>3. CASE n = m
    <3>1. Taken(prog, amount, n)[pc + 1] = Taken(prog, amount, n)[pc] + (k + (IF gap THEN 2 ELSE 0))
      BY <1>1, <1>2, <2>3, TakenIs
    <3>2. Extent(t) = Taken(prog, amount, n)[pc] + (k + (IF gap THEN 2 ELSE 0))
      BY <1>5, <2>1, <2>3
    <3>. QED BY <1>5, <1>6, <2>3, <3>1, <3>2
  <2>4. CASE n # m
    <3>1. Taken(prog, amount, n)[pc + 1] = Taken(prog, amount, n)[pc] + 0
      BY <1>1, <1>2, <2>4, TakenIs
    <3>2. Taken(prog, amount, n)[pc + 1] = Taken(prog, amount, n)[pc]
      BY <2>2, <3>1
    <3>. QED BY <1>6, <2>1, <2>4, <3>2
  <2>. QED BY <2>3, <2>4
<1>11. Taking'
  BY <1>3, <1>10 DEF Taking
<1>12. \A n \in Names : ~Puts(prog, amount, pc, n)
  BY <1>1, <1>2 DEF Puts
<1>13. Putting'
  <2>1. \A n \in Names : section'[n].defpass = pass <=> section[n].defpass = pass
    BY <1>6, <1>8
  <2>. QED BY <1>1, <1>3, <1>12, <2>1, NextIs DEF Settling, Putting
<1>14. Using'
  <2>. SUFFICES ASSUME NEW i \in 1 .. Len(prog), prog[i].op = "section"
                PROVE  /\ section'[prog[i].sec].usepass >= pass - 1
                       /\ i < pc + 1 => section'[prog[i].sec].usepass >= pass
    BY <1>3 DEF Using
  <2>1. prog[i].sec \in Names
    BY <1>2, SourceIs
  <2>2. CASE prog[i].sec = m
    BY <1>2, <1>5, <1>6, <2>2
  <2>3. CASE prog[i].sec # m
    <3>1. i # pc
      BY <1>2, <2>3
    <3>2. i < pc + 1 => i < pc
      BY <1>1, <3>1, NextIs
    <3>. QED BY <1>6, <2>1, <2>3, <3>2 DEF Settling, Using
  <2>. QED BY <2>2, <2>3
<1>15. ASSUME pass > Quiet PROVE here' = Place(prog, amount)[pc + 1] /\ Repeated'
  <2>1. here = Place(prog, amount)[pc] /\ Repeated
    BY <1>15 DEF Settling
  <2>2. here' = Place(prog, amount)[pc + 1]
    <3>1. Place(prog, amount)[pc + 1] = Place(prog, amount)[pc] + 0
      BY <1>1, <1>2, <1>12, PlaceIs DEF First
    <3>2. Place(prog, amount)[pc] \in Nat
      BY <1>2, PlaceIs
    <3>. QED BY <1>3, <2>1, <3>1, <3>2
  <2>3. ASSUME NEW n \in Names, NEW i \in 1 .. Len(prog), First(prog, amount, i, n)
        PROVE  /\ section'[n].defpass >= pass - 1
               /\ IF section'[n].usepass = pass THEN section'[n].size = Total(prog, amount, n)
                  ELSE Extent(section'[n]) = Total(prog, amount, n)
               /\ section'[n].defpass = pass \/ pass > Quiet + 1
                    => section'[n].l_restart = Counter(prog, amount, i)
    <3>1. /\ section[n].defpass >= pass - 1
          /\ IF section[n].usepass = pass THEN section[n].size = Total(prog, amount, n)
             ELSE Extent(section[n]) = Total(prog, amount, n)
          /\ section[n].defpass = pass \/ pass > Quiet + 1
               => section[n].l_restart = Counter(prog, amount, i)
      BY <2>1, <2>3 DEF Repeated
    <3>2. CASE n = m
      <4>1. pass > 1
        BY <1>2, <1>15, AtLine, <1>1, PassAssumption
      <4>2. ~Lost(s)
        BY <1>2, <1>7, <3>1, <3>2, <4>1 DEF Lost
      <4>. QED BY <1>5, <1>6, <3>1, <3>2, <4>2
    <3>3. CASE n # m
      BY <1>6, <3>1, <3>3
    <3>. QED BY <3>2, <3>3
  <2>. QED BY <1>3, <2>2, <2>3 DEF Repeated
<1>16. ASSUME pass > Quiet + 1 PROVE fixeddig'
  <2>1. fixeddig
    BY <1>16 DEF Settling
  <2>2. s.usepass >= pass - 1
    BY <1>1, <1>2 DEF Settling, Using
  <2>3. s.usepass # 0
    <3>1. pass > 1
      BY <1>2, <1>16, AtLine, <1>1, PassAssumption
    <3>. QED BY <1>2, <1>7, <2>2, <3>1
  <2>. QED BY <1>3, <2>1, <2>2, <2>3 DEF Unknown
<1>17. pc' <= Len(prog)' + 1
  BY <1>1, <1>3, NextIs
<1>. QED BY <1>3, <1>9, <1>11, <1>13, <1>14, <1>15, <1>16, <1>17 DEF Settling

\* What .dsection does to a section that has no place in this pass yet, in the terms
\* of the lemmas
LEMMA DsectionSteps ==
  ASSUME TypeOK, Dsection, section[Line.sec].defpass # pass, Line.sec \in Names,
         NEW l, l = IF Line.logical THEN Logical ELSE here, l \in Int, here \in Int
  PROVE  LET s == section[Line.sec]
             f == Placing(s, here, l, pass)
         IN /\ section' = [section EXCEPT ![Line.sec] = Marked(MovedTo(f, here, pass), l, pass)]
            /\ reserved' = [reserved EXCEPT ![Line.sec] = SpaceOf(f, here, pass)]
            /\ fixeddig' = (fixeddig /\ ~Lost(s) /\ Steady(f, l))
            /\ here' = here + SpaceOf(f, here, pass)
<1>1. Dsection
  OBVIOUS
<1>. DEFINE f == Placing(section[Line.sec], here, l, pass)
<1>2. /\ section' = [section EXCEPT ![Line.sec] =
                       [(IF f.usepass = pass THEN Shifted(f, here) ELSE Restarted(f, here))
                          EXCEPT !.l_restart = l, !.usepass = pass, !.defpass = pass]]
      /\ reserved' = [reserved EXCEPT ![Line.sec] = SpaceOf(f, here, pass)]
      /\ fixeddig' = (fixeddig /\ ~Lost(section[Line.sec]) /\ Steady(f, l))
      /\ here' = here + SpaceOf(f, here, pass)
  BY DEF Dsection, Placing, Put, SpaceOf, MovedTo, NextLine
<1>. QED BY <1>2 DEF MovedTo, Marked

\* The first .dsection of a section places it; another one changes nothing.
LEMMA DsectionSettles == Settling /\ stage = "pass" /\ Dsection => Settling'
<1>. SUFFICES ASSUME Settling, stage = "pass", Dsection PROVE Settling'
  OBVIOUS
<1>1. TypeOK /\ pc <= Len(prog) /\ Line.op = "dsection" /\ (Line.var => amount[pc] = 2)
  BY DEF Settling, Dsection, At
<1>2. /\ Source(prog, amount) /\ pc \in 1 .. Len(prog) /\ Line = prog[pc] /\ pc \in 1 .. Len(prog) + 1
      /\ here \in Int /\ amount[pc] \in 1 .. 2 /\ pass \in Nat \ {0} /\ Line.sec \in Names
      /\ fixeddig \in BOOLEAN /\ section \in [Names -> SectionType] /\ reserved \in [Names -> Int]
      /\ Len(prog) \in Nat
  BY <1>1, AtLine, NextIs
<1>. PICK m \in Names : m = Line.sec
  BY <1>2
<1>. PICK s \in SectionType : s = section[m]
  BY <1>2
<1>3. UNCHANGED <<prog, amount, pass, stage>> /\ pc' = pc + 1
  BY DEF Dsection, NextLine, Unmoved
<1>4. Tight(s) /\ Dated(s, pass)
  BY DEF Settling, Taking
<1>5. /\ s.usepass \in Nat /\ s.defpass \in Nat /\ s.usepass <= pass /\ s.defpass <= s.usepass
      /\ s.usepass = pass => s.defpass >= pass - 1
  BY <1>4, Fields DEF Dated
<1>6. pc' <= Len(prog)' + 1 /\ pc' \in Nat \ {0}
  BY <1>1, <1>3, NextIs
<1>7. \A n \in Names : Puts(prog, amount, pc, n) <=> n = m
  BY <1>1, <1>2 DEF Puts
<1>8. First(prog, amount, pc, m) <=> s.defpass # pass
  <2>1. s.defpass = pass <=> \E i \in 1 .. Len(prog) : i < pc /\ Puts(prog, amount, i, m)
    BY DEF Settling, Putting
  <2>. QED BY <1>7, <2>1 DEF First
<1>9. \A n \in Names : Taken(prog, amount, n)[pc + 1] = Taken(prog, amount, n)[pc]
  <2>. SUFFICES ASSUME NEW n \in Names
                PROVE  Taken(prog, amount, n)[pc + 1] = Taken(prog, amount, n)[pc]
    OBVIOUS
  <2>1. Taken(prog, amount, n)[pc + 1] = Taken(prog, amount, n)[pc] + 0
    BY <1>1, <1>2, TakenIs
  <2>2. Taken(prog, amount, n)[pc] \in Nat
    BY <1>2, TakenIs
  <2>. QED BY <2>1, <2>2
<1>10. Place(prog, amount)[pc + 1] =
         Place(prog, amount)[pc] + IF s.defpass # pass THEN Total(prog, amount, m) ELSE 0
  <2>1. Place(prog, amount)[pc + 1] =
          Place(prog, amount)[pc] + IF prog[pc].op = "data" THEN amount[pc]
                                    ELSE IF First(prog, amount, pc, prog[pc].sec)
                                         THEN Total(prog, amount, prog[pc].sec) ELSE 0
    BY ONLY <1>2, PlaceIs
  <2>2. prog[pc].op # "data" /\ prog[pc].sec = m
    BY <1>1, <1>2
  <2>. QED BY ONLY <1>8, <2>1, <2>2
<1>11. Place(prog, amount)[pc] \in Nat
  BY <1>2, PlaceIs
<1>12. CASE s.defpass = pass
  <2>1. UNCHANGED <<section, reserved, fixeddig, here>>
    BY <1>12 DEF Dsection, NextLine
  <2>2. TypeOK'
    BY <1>1, <1>3, <1>6, <2>1 DEF TypeOK
  <2>3. Taking'
    BY <1>3, <1>9, <2>1 DEF Settling, Taking
  <2>4. Putting'
    <3>1. ASSUME NEW n \in Names
          PROVE  section[n].defpass = pass
                   <=> \E i \in 1 .. Len(prog) : i < pc + 1 /\ Puts(prog, amount, i, n)
      <4>1. section[n].defpass = pass
              <=> \E i \in 1 .. Len(prog) : i < pc /\ Puts(prog, amount, i, n)
        BY DEF Settling, Putting
      <4>. QED BY <1>1, <1>7, <1>12, <4>1, NextIs
    <3>. QED BY <1>3, <2>1, <3>1 DEF Putting
  <2>5. Using'
    BY <1>1, <1>2, <1>3, <2>1, NextIs DEF Settling, Using
  <2>6. ASSUME pass > Quiet PROVE here' = Place(prog, amount)[pc + 1] /\ Repeated'
    BY <1>3, <1>10, <1>11, <1>12, <2>1, <2>6 DEF Settling, Repeated
  <2>. QED BY <1>3, <1>6, <2>1, <2>2, <2>3, <2>4, <2>5, <2>6 DEF Settling
<1>13. CASE s.defpass # pass
  <2>. PICK l \in Int : l = IF Line.logical THEN Logical ELSE here
    BY <1>2 DEF Logical
  <2>. PICK a \in Int, p \in Nat : a = here /\ p = pass
    BY <1>2
  <2>. DEFINE f == Placing(s, a, l, p)
  <2>1. PICK t \in SectionType, r \in Int :
          /\ t = Marked(MovedTo(f, a, p), l, p) /\ r = SpaceOf(f, a, p)
          /\ Tight(t) /\ t.usepass = p /\ t.defpass = p /\ t.l_restart = l
          /\ Extent(t) = IF s.usepass = p THEN Extent(s) ELSE 0
          /\ ~Lost(s) => /\ t.size = IF s.usepass = p THEN s.size ELSE Extent(s)
                         /\ r = IF s.usepass = p THEN Higher(s.size, Extent(s)) ELSE Extent(s)
    <3>1. pass \in Nat \ {0} /\ s \in SectionType /\ Tight(s) /\ Dated(s, pass) /\ a \in Int
          /\ l \in Int /\ p \in Nat /\ p = pass
      BY <1>2, <1>4
    <3>. HIDE DEF f
    <3>. QED BY ONLY <3>1, DsectionRests DEF f
  <2>2. /\ section' = [section EXCEPT ![m] = t] /\ reserved' = [reserved EXCEPT ![m] = r]
        /\ fixeddig' = (fixeddig /\ ~Lost(s) /\ Steady(f, l)) /\ here' = here + r
    BY <1>1, <1>2, <1>13, <2>1, DsectionSteps
  <2>3. /\ section'[m] = t /\ \A n \in Names : n # m => section'[n] = section[n]
        /\ section' \in [Names -> SectionType] /\ reserved' \in [Names -> Int]
    BY <1>2, <2>1, <2>2
  <2>4. TypeOK'
    <3>1. fixeddig' \in BOOLEAN /\ here' \in Int
      BY <1>2, <2>1, <2>2
    <3>. QED BY <1>1, <1>3, <1>6, <2>3, <3>1 DEF TypeOK
  <2>5. ASSUME NEW n \in Names
        PROVE  /\ Tight(section'[n]) /\ Dated(section'[n], pass)
               /\ IF section'[n].usepass = pass
                  THEN Extent(section'[n]) = Taken(prog, amount, n)[pc + 1]
                  ELSE Taken(prog, amount, n)[pc + 1] = 0
    <3>1. /\ Tight(section[n]) /\ Dated(section[n], pass)
          /\ IF section[n].usepass = pass THEN Extent(section[n]) = Taken(prog, amount, n)[pc]
             ELSE Taken(prog, amount, n)[pc] = 0
      BY DEF Settling, Taking
    <3>2. CASE n = m
      <4>1. Dated(t, pass)
        BY <1>2, <2>1 DEF Dated
      <4>2. Extent(t) = Taken(prog, amount, n)[pc]
        BY <2>1, <3>1, <3>2
      <4>. QED BY <1>9, <2>1, <2>3, <3>2, <4>1, <4>2
    <3>3. CASE n # m
      BY <1>9, <2>3, <3>1, <3>3
    <3>. QED BY <3>2, <3>3
  <2>6. Taking'
    BY <1>3, <2>5 DEF Taking
  <2>7. Putting'
    <3>1. ASSUME NEW n \in Names
          PROVE  section'[n].defpass = pass
                   <=> \E i \in 1 .. Len(prog) : i < pc + 1 /\ Puts(prog, amount, i, n)
      <4>1. section[n].defpass = pass
              <=> \E i \in 1 .. Len(prog) : i < pc /\ Puts(prog, amount, i, n)
        BY DEF Settling, Putting
      <4>2. CASE n = m
        BY <1>1, <1>2, <1>7, <2>1, <2>3, <4>2, NextIs
      <4>3. CASE n # m
        BY <1>1, <1>7, <2>3, <4>1, <4>3, NextIs
      <4>. QED BY <4>2, <4>3
    <3>. QED BY <1>3, <3>1 DEF Putting
  <2>8. Using'
    <3>. SUFFICES ASSUME NEW i \in 1 .. Len(prog), prog[i].op = "section"
                  PROVE  /\ section'[prog[i].sec].usepass >= pass - 1
                         /\ i < pc + 1 => section'[prog[i].sec].usepass >= pass
      BY <1>3 DEF Using
    <3>1. prog[i].sec \in Names /\ i # pc
      BY <1>1, <1>2, SourceIs
    <3>2. i < pc + 1 => i < pc
      BY <1>1, <3>1, NextIs
    <3>3. CASE prog[i].sec = m
      BY <1>2, <2>1, <2>3, <3>3
    <3>4. CASE prog[i].sec # m
      BY <2>3, <3>1, <3>2, <3>4 DEF Settling, Using
    <3>. QED BY <3>3, <3>4
  <2>9. ASSUME pass > Quiet
        PROVE  /\ here' = Place(prog, amount)[pc + 1] /\ Repeated' /\ ~Lost(s)
               /\ l = Counter(prog, amount, pc)
               /\ pass > Quiet + 1 => s.l_restart = l
    <3>1. here = Place(prog, amount)[pc] /\ Repeated
      BY <2>9 DEF Settling
    <3>2. l = Counter(prog, amount, pc)
      BY <1>2, <3>1 DEF Counter
    <3>3. /\ s.defpass >= pass - 1
          /\ IF s.usepass = pass THEN s.size = Total(prog, amount, m)
             ELSE Extent(s) = Total(prog, amount, m)
          /\ pass > Quiet + 1 => s.l_restart = l
      BY <1>2, <1>8, <1>13, <3>1, <3>2 DEF Repeated
    <3>4. ~Lost(s)
      <4>1. pass > 1
        BY <1>2, <2>9, AtLine, <1>1, PassAssumption
      <4>. QED BY <1>2, <1>5, <3>3, <4>1 DEF Lost
    <3>5. r = Total(prog, amount, m) /\ t.size = Total(prog, amount, m)
      <4>1. CASE s.usepass = pass
        <5>1. Extent(s) = Taken(prog, amount, m)[pc]
          BY <4>1 DEF Settling, Taking
        <5>2. Taken(prog, amount, m)[pc] <= Total(prog, amount, m) /\ Taken(prog, amount, m)[pc] \in Nat
              /\ Total(prog, amount, m) \in Nat
          BY <1>2, TakenIs
        <5>3. Higher(s.size, Extent(s)) = s.size
          BY <3>3, <4>1, <5>1, <5>2 DEF Higher
        <5>. QED BY <2>1, <3>3, <3>4, <4>1, <5>3
      <4>2. CASE s.usepass # pass
        BY <2>1, <3>3, <3>4, <4>2
      <4>. QED BY <4>1, <4>2
    <3>6. here' = Place(prog, amount)[pc + 1]
      BY <1>10, <1>13, <2>2, <3>1, <3>5
    <3>7. ASSUME NEW n \in Names, NEW i \in 1 .. Len(prog), First(prog, amount, i, n)
          PROVE  /\ section'[n].defpass >= pass - 1
                 /\ IF section'[n].usepass = pass THEN section'[n].size = Total(prog, amount, n)
                    ELSE Extent(section'[n]) = Total(prog, amount, n)
                 /\ section'[n].defpass = pass \/ pass > Quiet + 1
                      => section'[n].l_restart = Counter(prog, amount, i)
      <4>1. CASE n = m
        <5>1. i = pc
          BY <1>2, <1>8, <1>13, <3>7, <4>1, FirstIsOne
        <5>. QED BY <1>2, <2>1, <2>3, <3>2, <3>5, <4>1, <5>1
      <4>2. CASE n # m
        BY <2>3, <3>1, <3>7, <4>2 DEF Repeated
      <4>. QED BY <4>1, <4>2
    <3>8. Repeated'
      BY <1>3, <3>7 DEF Repeated
    <3>. QED BY <3>2, <3>3, <3>4, <3>6, <3>8
  <2>10. ASSUME pass > Quiet + 1 PROVE fixeddig'
    <3>1. fixeddig /\ pass > Quiet
      <4>1. pass > Quiet
        BY <1>1, <1>2, <2>10, AtLine
      <4>. QED BY <2>10, <4>1 DEF Settling
    <3>2. ~Lost(s) /\ s.l_restart = l
      BY <2>9, <2>10, <3>1
    <3>3. f = s
      BY <3>2 DEF Placing
    <3>. QED BY <2>2, <3>1, <3>2, <3>3 DEF Steady
  <2>. QED BY <1>3, <1>6, <2>4, <2>6, <2>7, <2>8, <2>9, <2>10 DEF Settling
<1>. QED BY <1>12, <1>13

\* What is known of a section when a pass is over and the values stay the same
LEMMA PassOver ==
  ASSUME Settling, pc > Len(prog), NEW n \in Names
  PROVE  /\ section[n].usepass = pass =>
              EndOf(section[n]) - section[n].start = Total(prog, amount, n)
              /\ Extent(section[n]) = Total(prog, amount, n)
         /\ \A i \in 1 .. Len(prog) : First(prog, amount, i, n) =>
              section[n].defpass = pass /\ section[n].usepass = pass
         /\ section[n].defpass = pass => \E i \in 1 .. Len(prog) : First(prog, amount, i, n)
<1>. PICK s \in SectionType : s = section[n]
  BY AtLine DEF Settling
<1>1. /\ Source(prog, amount) /\ Len(prog) \in Nat /\ pc = Len(prog) + 1 /\ pass \in Nat \ {0}
  <2>1. TypeOK /\ pc <= Len(prog) + 1
    BY DEF Settling
  <2>2. Source(prog, amount) /\ Len(prog) \in Nat /\ pc \in Nat /\ pass \in Nat \ {0}
    BY <2>1, AtLine
  <2>3. pc = Len(prog) + 1
    BY ONLY <2>1, <2>2, pc > Len(prog)
  <2>. QED BY <2>2, <2>3
<1>2. /\ Tight(s) /\ Dated(s, pass)
      /\ s.usepass = pass => Extent(s) = Total(prog, amount, n)
  BY <1>1 DEF Settling, Taking, Total
<1>3. EndOf(s) - s.start = Extent(s)
  BY <1>2, TightEnd
<1>4. s.defpass = pass <=> \E i \in 1 .. Len(prog) : Puts(prog, amount, i, n)
  <2>1. s.defpass = pass <=> \E i \in 1 .. Len(prog) : i < pc /\ Puts(prog, amount, i, n)
    BY DEF Settling, Putting
  <2>2. \A i \in 1 .. Len(prog) : i < pc
    BY <1>1
  <2>. QED BY <2>1, <2>2
<1>5. s.defpass = pass => s.usepass = pass
  <2>1. s.usepass <= pass /\ s.defpass <= s.usepass /\ s.usepass \in Nat /\ s.defpass \in Nat
    BY <1>2, Fields DEF Dated
  <2>. QED BY <1>1, <2>1
<1>6. ASSUME s.defpass = pass PROVE \E i \in 1 .. Len(prog) : First(prog, amount, i, n)
  <2>. DEFINE S == {i \in 1 .. Len(prog) : Puts(prog, amount, i, n)}
  <2>1. S \in SUBSET Nat /\ S # {}
    <3>1. \A i \in 1 .. Len(prog) : i \in Nat
      BY <1>1
    <3>. QED BY <1>4, <1>6, <3>1
  <2>2. PICK i \in S : \A j \in S : i <= j
    <3>. HIDE DEF S
    <3>. QED BY <2>1, Smallest
  <2>3. \A j \in 1 .. Len(prog) : j < i => ~Puts(prog, amount, j, n)
    <3>1. \A j \in 1 .. Len(prog) : j < i => ~(i <= j)
      BY <1>1, <2>1
    <3>. QED BY <2>2, <3>1
  <2>. QED BY <2>2, <2>3 DEF First
<1>7. \A i \in 1 .. Len(prog) : First(prog, amount, i, n) => s.defpass = pass /\ s.usepass = pass
  BY <1>4, <1>5 DEF First
<1>. QED BY <1>2, <1>3, <1>6, <1>7

\* When a pass is over in which nothing asked for another one, the sizes agree.
LEMMA SizesSettle ==
  ASSUME Settling, pc > Len(prog), pass > Quiet
  PROVE  SizesAgree
<1>. SUFFICES ASSUME NEW n \in Names, section[n].defpass = pass
              PROVE  section[n].size = EndOf(section[n]) - section[n].start
  BY DEF SizesAgree
<1>1. PICK i \in 1 .. Len(prog) : First(prog, amount, i, n)
  BY PassOver
<1>2. section[n].usepass = pass
        /\ EndOf(section[n]) - section[n].start = Total(prog, amount, n)
  BY <1>1, PassOver
<1>3. section[n].size = Total(prog, amount, n)
  BY <1>1, <1>2 DEF Settling, Repeated
<1>. QED BY <1>2, <1>3

\* A pass ends: what it found out is what the next one begins with.
LEMMA PassEndSettles == PassesSuffice /\ Settling /\ stage = "pass" /\ PassEnd => SettleInv'
<1>. SUFFICES ASSUME PassesSuffice, Settling, stage = "pass", PassEnd PROVE SettleInv'
  OBVIOUS
<1>1. /\ TypeOK /\ pc > Len(prog) /\ prog' = prog
      /\ unsettled' \in IF pass <= MaxMoves THEN BOOLEAN ELSE {FALSE}
  BY DEF Settling, PassEnd
<1>2. /\ Source(prog, amount) /\ Len(prog) \in Nat /\ pass \in Nat \ {0} /\ Quiet = MaxMoves + 1
      /\ fixeddig \in BOOLEAN /\ section \in [Names -> SectionType] /\ reserved \in [Names -> Int]
      /\ MaxMoves \in Nat /\ MaxPass \in Nat
  BY <1>1, AtLine, PassAssumption
<1>3. pass > Quiet + 1 => fixeddig /\ SizesAgree /\ ~unsettled'
  <2>. SUFFICES ASSUME pass > Quiet + 1 PROVE fixeddig /\ SizesAgree /\ ~unsettled'
    OBVIOUS
  <2>1. pass > Quiet /\ ~(pass <= MaxMoves)
    BY <1>2
  <2>. QED BY <1>1, <2>1, SizesSettle DEF Settling
<1>4. CASE stage' = "done"
  BY <1>4 DEF SettleInv, Settles
<1>5. CASE ~(fixeddig /\ ~unsettled' /\ SizesAgree) /\ pass = MaxPass
  <2>1. pass > Quiet + 1
    BY <1>2, <1>5 DEF PassesSuffice
  <2>. QED BY <1>3, <1>5, <2>1
<1>6. CASE /\ ~(fixeddig /\ ~unsettled' /\ SizesAgree) /\ pass # MaxPass
  <2>1. /\ pass' = pass + 1 /\ pc' = 1 /\ here' = 0 /\ fixeddig' = TRUE
        /\ reserved' = [n \in Names |-> 0]
        /\ IF unsettled' THEN amount' \in Amounts ELSE UNCHANGED amount
        /\ UNCHANGED <<section, stage>>
    BY <1>6 DEF PassEnd
  <2>2. Source(prog, amount')
    BY <1>2, <2>1 DEF Source, Amounts
  <2>3. pass' > Quiet => amount' = amount
    <3>. SUFFICES ASSUME pass' > Quiet PROVE amount' = amount
      OBVIOUS
    <3>1. ~(pass <= MaxMoves)
      BY <1>2, <2>1
    <3>. QED BY <1>1, <2>1, <3>1
  <2>4. TypeOK'
    <3>1. pass' \in Nat \ {0} /\ pc' \in Nat \ {0} /\ here' \in Int /\ reserved' \in [Names -> Int]
      BY <1>2, <2>1
    <3>2. amount' \in [DOMAIN prog -> 1 .. 2]
      BY <2>2 DEF Source
    <3>. QED BY <1>1, <2>1, <3>1, <3>2 DEF TypeOK
  <2>5. ASSUME NEW n \in Names
        PROVE  /\ Tight(section[n]) /\ section[n].usepass \in Nat /\ section[n].defpass \in Nat
               /\ section[n].usepass <= pass /\ section[n].defpass <= section[n].usepass
    <3>1. Tight(section[n]) /\ Dated(section[n], pass)
      BY DEF Settling, Taking
    <3>. QED BY <1>2, <3>1, Fields DEF Dated
  <2>6. ASSUME NEW n \in Names
        PROVE  /\ Dated(section[n], pass + 1) /\ section[n].usepass # pass + 1
               /\ section[n].defpass # pass + 1
    BY <1>2, <2>5 DEF Dated
  <2>7. Taking'
    <3>1. \A n \in Names : Taken(prog, amount', n)[1] = 0
      BY <2>2, TakenIs
    <3>. QED BY <1>1, <2>1, <2>5, <2>6, <3>1 DEF Taking
  <2>8. \A i \in 1 .. Len(prog) : ~(i < 1)
    BY <1>2
  <2>9. Putting'
    BY <1>1, <2>1, <2>6, <2>8 DEF Putting
  <2>10. Using'
    <3>1. ASSUME NEW i \in 1 .. Len(prog), prog[i].op = "section"
          PROVE  section[prog[i].sec].usepass >= (pass + 1) - 1
      <4>1. i < pc
        BY <1>1, <1>2, AtLine
      <4>2. section[prog[i].sec].usepass >= pass
        BY <3>1, <4>1 DEF Settling, Using
      <4>3. section[prog[i].sec].usepass \in Nat
        BY <1>2, <2>5, SourceIs
      <4>. QED BY <1>2, <4>2, <4>3
    <3>. QED BY <1>1, <2>1, <2>8, <3>1 DEF Using
  <2>11. ASSUME pass' > Quiet PROVE here' = Place(prog, amount')[1] /\ Repeated'
    <3>1. Place(prog, amount')[1] = 0
      BY <2>2, PlaceIs
    <3>2. ASSUME NEW n \in Names, NEW i \in 1 .. Len(prog), First(prog, amount, i, n)
          PROVE  /\ section[n].defpass >= (pass + 1) - 1
                 /\ section[n].usepass # pass + 1 /\ section[n].defpass # pass + 1
                 /\ Extent(section[n]) = Total(prog, amount, n)
                 /\ pass + 1 > Quiet + 1 => section[n].l_restart = Counter(prog, amount, i)
      <4>1. /\ section[n].defpass = pass /\ section[n].usepass = pass
            /\ Extent(section[n]) = Total(prog, amount, n)
        BY <1>1, <3>2, PassOver
      <4>2. ASSUME pass + 1 > Quiet + 1 PROVE section[n].l_restart = Counter(prog, amount, i)
        <5>1. pass > Quiet
          BY <1>2, <4>2
        <5>. QED BY <3>2, <4>1, <5>1 DEF Settling, Repeated
      <4>. QED BY <1>2, <2>6, <4>1, <4>2
    <3>. QED BY <1>1, <2>1, <2>3, <2>11, <3>1, <3>2 DEF Repeated
  <2>12. Settling'
    <3>1. pc' <= Len(prog)' + 1
      BY <1>1, <1>2, <2>1
    <3>. QED BY <1>1, <2>1, <2>4, <2>7, <2>9, <2>10, <2>11, <3>1 DEF Settling
  <2>. QED BY <2>1, <2>12 DEF SettleInv, Settles
<1>. QED BY <1>4, <1>5, <1>6 DEF PassEnd

\* At the beginning no section has anything.
LEMMA SettleInit == Init => SettleInv
<1>. SUFFICES ASSUME Init PROVE SettleInv
  OBVIOUS
<1>1. TypeOK
  BY PlacedInit DEF PlacedInv
<1>2. /\ Source(prog, amount) /\ Len(prog) \in Nat /\ Quiet = MaxMoves + 1 /\ MaxMoves \in Nat
  BY <1>1, AtLine, PassAssumption
<1>3. pc = 1 /\ pass = 1 /\ here = 0 /\ fixeddig = TRUE /\ stage = "pass"
  BY DEF Init
<1>4. ASSUME NEW n \in Names
      PROVE  /\ Tight(section[n]) /\ Dated(section[n], pass)
             /\ section[n].usepass = 0 /\ section[n].defpass = 0
             /\ section[n].usepass # pass /\ section[n].defpass # pass
  <2>1. section[n] = NewSection
    BY DEF Init
  <2>2. section[n].usepass = 0 /\ section[n].defpass = 0 /\ Tight(section[n])
    BY <2>1 DEF NewSection, Tight
  <2>. QED BY <1>3, <2>2 DEF Dated
<1>5. \A n \in Names : Taken(prog, amount, n)[1] = 0
  BY <1>2, TakenIs
<1>6. Taking
  BY ONLY <1>3, <1>4, <1>5 DEF Taking
<1>7. \A i \in 1 .. Len(prog) : ~(i < 1)
  BY <1>2
<1>8. Putting
  BY ONLY <1>3, <1>4, <1>7 DEF Putting
<1>9. Using
  <2>1. \A i \in 1 .. Len(prog) : section[prog[i].sec].usepass = 0
    BY <1>2, <1>4, SourceIs
  <2>. QED BY <1>3, <1>7, <2>1 DEF Using
<1>10. ~(pass > Quiet) /\ ~(pass > Quiet + 1) /\ pc <= Len(prog) + 1
  BY <1>2, <1>3
<1>. QED BY <1>1, <1>3, <1>6, <1>8, <1>9, <1>10 DEF SettleInv, Settling, Settles

\* The passes end by themselves with sections that are settled, at most three passes after
\* the last one before which a value changed, for every program: with fragments before and
\* after the .dsection, in a .logical block or under a condition.
THEOREM SectionsSettle == PassesSuffice => (Spec => []Settles)
<1>. SUFFICES ASSUME PassesSuffice PROVE Spec => []Settles
  OBVIOUS
<1>1. Init => SettleInv
  BY SettleInit
<1>2. SettleInv /\ [Next]_vars => SettleInv'
  <2>. SUFFICES ASSUME SettleInv, [Next]_vars PROVE SettleInv'
    OBVIOUS
  <2>1. CASE UNCHANGED vars
    BY <2>1 DEF vars, SettleInv, Settling, Settles, TypeOK, Taking, Putting, Using, Repeated
  <2>2. CASE Next /\ stage = "pass"
    <3>1. Settling
      BY <2>2 DEF SettleInv
    <3>2. CASE Data \/ NoDsection \/ Fragment \/ Dsection
      <4>1. Settling'
        BY <2>2, <3>1, <3>2, DataSettles, FragmentSettles, DsectionSettles
      <4>2. stage' = stage
        BY <3>2 DEF Data, NoDsection, Fragment, Dsection, Unmoved
      <4>. QED BY <2>2, <4>1, <4>2 DEF SettleInv, Settles
    <3>. QED BY <2>2, <3>1, <3>2, PassEndSettles DEF Next
  <2>3. ~(Next /\ stage # "pass")
    BY DEF Next, Data, NoDsection, Fragment, Dsection, PassEnd, At
  <2>. QED BY <2>1, <2>2, <2>3
<1>3. SettleInv => Settles
  BY DEF SettleInv
<1>. QED BY <1>1, <1>2, <1>3, PTL DEF Spec
=============================================================================
