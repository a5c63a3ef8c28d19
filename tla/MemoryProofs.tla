---------------------------- MODULE MemoryProofs ----------------------------
(***************************************************************************)
(* Proofs about the memory of a section, for every width of the output and *)
(* of the processor.  The closed blocks and the open one divide the array, *)
(* each byte in exactly one of them; the address that is counted by        *)
(* pokealloc and memskip is the one that the list of blocks, kept by       *)
(* memjmp, gives to the next byte; and what the flags of the address say   *)
(* is enough to complain when the top of the memory is passed.  With these *)
(* three as the invariant, every line moves the position or places bytes   *)
(* from it on, as Image says, and moves no byte that is placed already.    *)
(* The bytes are in the space between the start of the section and its end *)
(* (Covered), and code that is read back from a label is what was placed   *)
(* behind it (ReadsBack).                                                  *)
(***************************************************************************)
EXTENDS Memory, SequenceTheorems, WellFoundedInduction, TLAPS

(***************************************************************************)
(* Remainders.                                                             *)
(***************************************************************************)
\* Division with a remainder, for numbers below 0 too
LEMMA Division ==
  ASSUME NEW S \in Nat \ {0}, NEW x \in Int
  PROVE  x % S \in 0 .. S - 1 /\ \E q \in Int : x = q * S + (x % S)
<1>1. x = S * (x \div S) + (x % S) /\ x % S \in 0 .. S - 1 /\ x \div S \in Int
  OBVIOUS
<1>2. S * (x \div S) = (x \div S) * S
  BY <1>1
<1>. QED BY <1>1, <1>2

\* Two multiples of S that differ are at least S apart.
LEMMA Apart ==
  ASSUME NEW S \in Nat \ {0}, NEW n \in Int, n >= 1
  PROVE  n * S >= S
<1>1. (n - 1) * S >= 0
  OBVIOUS
<1>2. n * S = (n - 1) * S + S
  OBVIOUS
<1>. QED BY <1>1, <1>2

\* A remainder is unique.
LEMMA Same ==
  ASSUME NEW S \in Nat \ {0}, NEW p \in Int, NEW q \in Int, NEW a \in 0 .. S - 1, NEW b \in 0 .. S - 1,
         p * S + a = q * S + b
  PROVE  a = b
<1>1. (p - q) * S = p * S - q * S /\ (q - p) * S = q * S - p * S
  OBVIOUS
<1>2. CASE p = q
  BY <1>2
<1>3. CASE p - q >= 1
  BY <1>1, <1>3, Apart
<1>4. CASE q - p >= 1
  BY <1>1, <1>4, Apart
<1>. QED BY <1>2, <1>3, <1>4

\* The remainder of what is given with its quotient
LEMMA Remainder ==
  ASSUME NEW S \in Nat \ {0}, NEW q \in Int, NEW r \in 0 .. S - 1
  PROVE  (q * S + r) % S = r
<1>1. q * S + r \in Int
  OBVIOUS
<1>2. PICK p \in Int : q * S + r = p * S + ((q * S + r) % S)
  BY <1>1, Division
<1>3. (q * S + r) % S \in 0 .. S - 1
  BY <1>1, Division
<1>. QED BY <1>2, <1>3, Same

\* What the widths are
LEMMA SizeNat ==
  /\ AllMem2 \in Nat /\ Size \in Nat \ {0} /\ AllMem \in Nat /\ Word \in Nat \ {0}
  /\ 0 .. AllMem2 = 0 .. Size - 1
BY WidthAssumption DEF Size

\* An address is its own remainder.
LEMMA Small ==
  ASSUME NEW a \in 0 .. AllMem2
  PROVE  a % Size = a
<1>1. 0 * Size + a = a /\ a \in 0 .. Size - 1
  BY SizeNat
<1>2. (0 * Size + a) % Size = a
  BY <1>1, Remainder, SizeNat
<1>. QED BY <1>1, <1>2

\* What alloc_mem still has to place begins where the address was.
LEMMA Behind ==
  ASSUME NEW a \in 0 .. AllMem2, NEW d \in Nat
  PROVE  (((a + d) % Size) - d) % Size = a
<1>. DEFINE r == (a + d) % Size
<1>1. a + d \in Int
  OBVIOUS
<1>2. PICK q \in Int : a + d = q * Size + r
  BY <1>1, Division, SizeNat
<1>3. r \in 0 .. Size - 1
  BY <1>1, Division, SizeNat
<1>4. (-q) * Size = -(q * Size) /\ q * Size \in Int
  BY SizeNat
<1>6. r - d = (-q) * Size + a
  BY <1>2, <1>3, <1>4
<1>5. ((-q) * Size + a) % Size = a
  BY Remainder, SizeNat
<1>. QED BY <1>5, <1>6

\* Bytes that fit below the top end where the address is.
LEMMA Rest ==
  ASSUME NEW a \in 0 .. AllMem2, NEW t \in Nat, NEW x \in Nat, x = (a - t) % Size, t <= AllMem2 - x
  PROVE  x + t = a
<1>1. a - t \in Int
  OBVIOUS
<1>2. PICK q \in Int : a - t = q * Size + x
  BY <1>1, Division, SizeNat
<1>3. 0 * Size + a = q * Size + (x + t)
  BY <1>2, SizeNat
<1>4. x + t \in 0 .. Size - 1 /\ a \in 0 .. Size - 1
  BY SizeNat
<1>. QED BY <1>3, <1>4, Same, SizeNat

\* After the bytes up to the top the next one belongs at 0.
LEMMA Wraps ==
  ASSUME NEW a \in 0 .. AllMem2, NEW t \in Nat, NEW x \in Nat, x = (a - t) % Size
  PROVE  (a - (t - (Size - x))) % Size = 0
<1>1. a - t \in Int
  OBVIOUS
<1>2. PICK q \in Int : a - t = q * Size + x
  BY <1>1, Division, SizeNat
<1>3. a - (t - (Size - x)) = (q + 1) * Size + 0
  BY <1>2, SizeNat
<1>4. ((q + 1) * Size + 0) % Size = 0
  BY Remainder, SizeNat
<1>. QED BY <1>3, <1>4

(***************************************************************************)
(* Blocks.  The definitions take the list as a parameter, to be used for   *)
(* the list before and behind a step.                                      *)
(***************************************************************************)
Block == [p : Nat, addr : Nat, len : Nat, ref : BOOLEAN]
OwnOf(d) == {i \in DOMAIN d : ~d[i].ref}
Holds(b, p) == b.p <= p /\ p < b.p + b.len
AddrIn(d, lp, la, p) ==
  LET in == {i \in OwnOf(d) : Holds(d[i], p)}
  IN IF in = {} THEN la + p - lp
     ELSE LET i == CHOOSE j \in in : TRUE IN d[i].addr + p - d[i].p
LogOf(d, lp, la, m) == [p \in 1 .. m |-> AddrIn(d, lp, la, p - 1)]

\* Each byte before lp is in one block, and none behind it is.
Partition(d, lp) ==
  /\ d \in Seq(Block) /\ lp \in Nat
  /\ \A i \in OwnOf(d) : d[i].p + d[i].len <= lp
  /\ \A i, j \in OwnOf(d) : \A p \in Nat : Holds(d[i], p) /\ Holds(d[j], p) => i = j
  /\ \A p \in 0 .. lp - 1 : \E i \in OwnOf(d) : Holds(d[i], p)

\* An element of a list of blocks is one.
LEMMA Typed ==
  ASSUME NEW d \in Seq(Block), NEW i \in DOMAIN d
  PROVE  d[i] \in Block
OBVIOUS

\* The address of a byte in a closed block
LEMMA InBlock ==
  ASSUME NEW d, NEW lp, NEW la, Partition(d, lp), NEW p \in Nat, NEW i \in OwnOf(d), Holds(d[i], p)
  PROVE  AddrIn(d, lp, la, p) = d[i].addr + p - d[i].p
<1>1. {j \in OwnOf(d) : Holds(d[j], p)} = {i}
  BY DEF Partition
<1>2. (CHOOSE j \in {i} : TRUE) = i
  OBVIOUS
<1>. QED BY <1>1, <1>2 DEF AddrIn

\* The address of a byte in the open block
LEMMA InOpen ==
  ASSUME NEW d, NEW lp, NEW la, Partition(d, lp), NEW p \in Nat, p >= lp
  PROVE  AddrIn(d, lp, la, p) = la + p - lp
<1>1. \A j \in OwnOf(d) : ~Holds(d[j], p)
  <2>. SUFFICES ASSUME NEW j \in OwnOf(d), Holds(d[j], p) PROVE FALSE
    OBVIOUS
  <2>1. d[j] \in Block /\ d[j].p + d[j].len <= lp /\ lp \in Nat
    BY Typed DEF Partition, OwnOf
  <2>. QED BY <2>1 DEF Block, Holds
<1>. QED BY <1>1 DEF AddrIn

\* A closed block keeps each byte where it was, and gives those of alloc_mem
\* the places behind the pending ones.
LEMMA OneMore ==
  ASSUME NEW d, NEW lp, Partition(d, lp), NEW la \in Nat, NEW m \in Nat, m > lp, NEW lb,
         NEW e \in Seq(Block), NEW n, n \notin OwnOf(d), OwnOf(e) = OwnOf(d) \cup {n},
         \A i \in OwnOf(d) : e[i] = d[i],
         e[n].p = lp, e[n].addr = la, e[n].len = m - lp
  PROVE  Partition(e, m) /\ LogOf(e, m, lb, m) = LogOf(d, lp, la, m)
<1>1. lp \in Nat /\ d \in Seq(Block)
  BY DEF Partition
<1>2. \A i \in OwnOf(d) : /\ d[i].p \in Nat /\ d[i].len \in Nat /\ d[i].addr \in Nat
                          /\ d[i].p + d[i].len <= lp
  BY <1>1, Typed DEF Partition, OwnOf, Block
<1>3. \A p \in Nat : Holds(e[n], p) <=> lp <= p /\ p < m
  BY <1>1 DEF Holds
<1>4. \A i \in OwnOf(d), p \in Nat : Holds(e[i], p) <=> Holds(d[i], p)
  OBVIOUS
<1>5. \A i \in OwnOf(d), p \in Nat : Holds(d[i], p) => p < lp
  BY <1>1, <1>2 DEF Holds
<1>6. \A p \in 0 .. lp - 1 : \E i \in OwnOf(d) : Holds(d[i], p)
  BY DEF Partition
<1>7. \A i, j \in OwnOf(d) : \A p \in Nat : Holds(d[i], p) /\ Holds(d[j], p) => i = j
  BY DEF Partition
<1>8. Partition(e, m)
  <2>1. ASSUME NEW i \in OwnOf(e) PROVE e[i].p + e[i].len <= m
    <3>1. CASE i = n
      BY <3>1, <1>1
    <3>2. CASE i \in OwnOf(d)
      <4>1. e[i] = d[i]
        BY <3>2
      <4>. QED BY <4>1, <3>2, <1>1, <1>2
    <3>. QED BY <3>1, <3>2
  <2>2. ASSUME NEW i \in OwnOf(e), NEW j \in OwnOf(e), NEW p \in Nat, Holds(e[i], p), Holds(e[j], p)
        PROVE  i = j
    <3>1. CASE p >= lp
      <4>1. ~(p < lp)
        BY <3>1, <1>1
      <4>. QED BY <4>1, <1>4, <1>5, <2>2
    <3>2. CASE ~(p >= lp)
      <4>1. ~Holds(e[n], p)
        BY <3>2, <1>3
      <4>. QED BY <4>1, <1>4, <1>7, <2>2
    <3>. QED BY <3>1, <3>2
  <2>3. ASSUME NEW p \in 0 .. m - 1 PROVE \E i \in OwnOf(e) : Holds(e[i], p)
    <3>1. CASE p >= lp
      <4>1. Holds(e[n], p)
        BY <3>1, <1>3
      <4>. QED BY <4>1
    <3>2. CASE ~(p >= lp)
      <4>1. p \in 0 .. lp - 1 /\ p \in Nat
        BY <3>2, <1>1
      <4>. QED BY <4>1, <1>4, <1>6
    <3>. QED BY <3>1, <3>2
  <2>. QED BY <2>1, <2>2, <2>3 DEF Partition
<1>11. \A p \in Nat : \A i \in OwnOf(e) : Holds(e[i], p) => AddrIn(e, m, lb, p) = e[i].addr + p - e[i].p
  <2>. SUFFICES ASSUME NEW p \in Nat, NEW i \in OwnOf(e), Holds(e[i], p)
                PROVE  AddrIn(e, m, lb, p) = e[i].addr + p - e[i].p
    OBVIOUS
  <2>. HIDE DEF Holds
  <2>. QED BY ONLY <1>8, InBlock, p \in Nat, i \in OwnOf(e), Holds(e[i], p)
<1>9. ASSUME NEW p \in 0 .. m - 1
      PROVE  AddrIn(e, m, lb, p) = AddrIn(d, lp, la, p)
  <2>0. p \in Nat /\ n \in OwnOf(e)
    OBVIOUS
  <2>1. CASE p >= lp
    <3>1. Holds(e[n], p)
      BY <2>0, <2>1, <1>3
    <3>2. AddrIn(e, m, lb, p) = e[n].addr + p - e[n].p
      BY <2>0, <3>1, <1>11
    <3>3. AddrIn(d, lp, la, p) = la + p - lp
      BY <2>0, <2>1, InOpen
    <3>. QED BY <3>2, <3>3
  <2>2. CASE ~(p >= lp)
    <3>1. p \in 0 .. lp - 1
      BY <2>2, <1>1
    <3>2. PICK i \in OwnOf(d) : Holds(d[i], p)
      BY <3>1, <1>6
    <3>3. AddrIn(d, lp, la, p) = d[i].addr + p - d[i].p
      BY <2>0, <3>2, InBlock
    <3>4. i \in OwnOf(e) /\ e[i] = d[i]
      BY <3>2
    <3>5. Holds(e[i], p)
      BY <3>2, <3>4
    <3>6. AddrIn(e, m, lb, p) = e[i].addr + p - e[i].p
      BY <2>0, <3>4, <3>5, <1>11
    <3>. QED BY <3>3, <3>4, <3>6
  <2>. QED BY <2>1, <2>2
<1>10. \A p \in 1 .. m : AddrIn(e, m, lb, p - 1) = AddrIn(d, lp, la, p - 1)
  <2>. SUFFICES ASSUME NEW p \in 1 .. m PROVE AddrIn(e, m, lb, p - 1) = AddrIn(d, lp, la, p - 1)
    OBVIOUS
  <2>1. p - 1 \in 0 .. m - 1
    OBVIOUS
  <2>. QED BY <2>1, <1>9
<1>. QED BY <1>8, <1>10 DEF LogOf

\* The place of the next byte is nothing to those that are in blocks.
LEMMA Moved1 ==
  ASSUME NEW d, NEW lp, Partition(d, lp), NEW la, NEW lb
  PROVE  LogOf(d, lp, lb, lp) = LogOf(d, lp, la, lp)
<1>1. ASSUME NEW p \in 1 .. lp
      PROVE  AddrIn(d, lp, lb, p - 1) = AddrIn(d, lp, la, p - 1)
  <2>1. p - 1 \in 0 .. lp - 1 /\ p - 1 \in Nat
    BY DEF Partition
  <2>2. PICK i \in OwnOf(d) : Holds(d[i], p - 1)
    BY <2>1 DEF Partition
  <2>. QED BY <2>1, <2>2, InBlock
<1>. QED BY <1>1 DEF LogOf

\* The list when the open block, of the bytes up to m, is closed
Enclosed(d, lp, la, m) ==
  IF m = lp THEN d ELSE Append(d, [p |-> lp, addr |-> la, len |-> m - lp, ref |-> FALSE])

\* To close the open block changes the address of no byte.
LEMMA ClosedKeeps ==
  ASSUME NEW d, NEW lp, Partition(d, lp), NEW la \in Nat, NEW m \in Nat, m >= lp, NEW lb
  PROVE  /\ Partition(Enclosed(d, lp, la, m), m)
         /\ LogOf(Enclosed(d, lp, la, m), m, lb, m) = LogOf(d, lp, la, m)
<1>. DEFINE e == Enclosed(d, lp, la, m)
<1>. DEFINE b == [p |-> lp, addr |-> la, len |-> m - lp, ref |-> FALSE]
<1>. DEFINE n == Len(d) + 1
<1>1. d \in Seq(Block) /\ lp \in Nat
  BY DEF Partition
<1>2. CASE m = lp
  <2>1. e = d
    BY <1>2 DEF Enclosed
  <2>. QED BY <1>2, <2>1, Moved1
<1>3. CASE m # lp
  <2>0. b \in Block /\ m > lp
    BY <1>1, <1>3 DEF Block
  <2>11. b.p = lp /\ b.addr = la /\ b.len = m - lp /\ b.ref = FALSE
    OBVIOUS
  <2>1. e = Append(d, b)
    BY <1>3 DEF Enclosed
  <2>. HIDE DEF b, e
  <2>2. e \in Seq(Block) /\ DOMAIN e = 1 .. n /\ DOMAIN d = 1 .. n - 1 /\ n \in Nat /\ e[n] = b
        /\ \A i \in DOMAIN d : e[i] = d[i]
    BY <1>1, <2>0, <2>1
  <2>3. OwnOf(e) = OwnOf(d) \cup {n} /\ n \notin OwnOf(d) /\ \A i \in OwnOf(d) : e[i] = d[i]
    BY <2>2, <2>11 DEF OwnOf
  <2>4. e[n].p = lp /\ e[n].addr = la /\ e[n].len = m - lp
    BY <2>2, <2>11
  <2>5. m > lp
    BY <2>0
  <2>. HIDE DEF n
  <2>6. e \in Seq(Block)
    BY <2>2
  <2>7. n \notin OwnOf(d)
    BY <2>3
  <2>8. OwnOf(e) = OwnOf(d) \cup {n}
    BY <2>3
  <2>9. \A i \in OwnOf(d) : e[i] = d[i]
    BY <2>3
  <2>10. Partition(e, m) /\ LogOf(e, m, lb, m) = LogOf(d, lp, la, m)
    BY ONLY Partition(d, lp), la \in Nat, m \in Nat, <2>5, <2>6, <2>7, <2>8, <2>9, <2>4, OneMore
  <2>. QED BY <2>10 DEF e
<1>. QED BY <1>2, <1>3

\* The block of another memory holds no byte of this one.
LEMMA SameOwn ==
  ASSUME NEW d, NEW lp, Partition(d, lp), NEW la, NEW m,
         NEW e \in Seq(Block), OwnOf(e) = OwnOf(d), \A i \in OwnOf(d) : e[i] = d[i]
  PROVE  Partition(e, lp) /\ LogOf(e, lp, la, m) = LogOf(d, lp, la, m)
<1>1. Partition(e, lp)
  BY DEF Partition
<1>2. ASSUME NEW p
      PROVE  AddrIn(e, lp, la, p) = AddrIn(d, lp, la, p)
  <2>. DEFINE in == {i \in OwnOf(d) : Holds(d[i], p)}
  <2>1. {i \in OwnOf(e) : Holds(e[i], p)} = in
    OBVIOUS
  <2>2. CASE in = {}
    BY <2>1, <2>2 DEF AddrIn
  <2>3. CASE in # {}
    <3>. DEFINE i == CHOOSE j \in in : TRUE
    <3>1. i \in in
      BY <2>3
    <3>2. e[i] = d[i]
      BY <3>1
    <3>3. AddrIn(d, lp, la, p) = d[i].addr + p - d[i].p
      BY <2>3 DEF AddrIn
    <3>4. AddrIn(e, lp, la, p) = e[i].addr + p - e[i].p
      BY <2>1, <2>3 DEF AddrIn
    <3>. QED BY <3>2, <3>3, <3>4
  <2>. QED BY <2>2, <2>3
<1>. QED BY <1>1, <1>2 DEF LogOf

\* memref
LEMMA ReferenceKeeps ==
  ASSUME NEW d, NEW lp, Partition(d, lp), NEW b \in Block, b.ref, NEW la, NEW m
  PROVE  /\ Partition(Append(d, b), lp)
         /\ LogOf(Append(d, b), lp, la, m) = LogOf(d, lp, la, m)
<1>. DEFINE e == Append(d, b)
<1>. DEFINE n == Len(d) + 1
<1>1. d \in Seq(Block)
  BY DEF Partition
<1>2. e \in Seq(Block) /\ DOMAIN e = 1 .. n /\ DOMAIN d = 1 .. n - 1 /\ n \in Nat /\ e[n] = b
      /\ \A i \in DOMAIN d : e[i] = d[i]
  BY <1>1
<1>3. OwnOf(e) = OwnOf(d) /\ \A i \in OwnOf(d) : e[i] = d[i]
  BY <1>2 DEF OwnOf
<1>. HIDE DEF e
<1>4. Partition(e, lp) /\ LogOf(e, lp, la, m) = LogOf(d, lp, la, m)
  BY ONLY Partition(d, lp), <1>2, <1>3, SameOwn
<1>. QED BY <1>4 DEF e

(***************************************************************************)
(* The invariant.                                                          *)
(***************************************************************************)
Counter == 0 .. AllMem
Address == 0 .. AllMem2
Position == [address : Address, l_address : Counter, start : Address, end : Nat, l_union : Counter,
             unionmode : BOOLEAN, moved : BOOLEAN, wrapwarn : BOOLEAN]
Frame == [what : {"logical", "union", "struct", "dstruct", "dunion"}, unionmode : BOOLEAN,
          start : Address, end : Nat, l_union : Counter, laddr : Counter, addr : Address]
History == [top : BOOLEAN, over : BOOLEAN, below : BOOLEAN]

TypeOK ==
  /\ at \in Position /\ open \in Seq(Frame) /\ hist \in History
  /\ memp \in Nat /\ lastp \in 0 .. memp /\ lastaddr \in Address /\ todo \in Nat

\* Both ways of counting come to the same address.
InStep == lastaddr + (memp - lastp) = (at.address - todo) % Size

\* Whether more came at the top can be told from the flags.
Warned(a, h, e) == (h.top => a.moved /\ a.wrapwarn) /\ (h.over => "wrap" \in e)

Blocks == Partition(data, lastp) /\ InStep
\* The inductive invariant
Inv == TypeOK /\ Blocks /\ Warned(at, hist, errors)

Log == LogOf(data, lastp, lastaddr, memp)
\* A step that places nothing leaves each byte where it is.
Kept == memp' = memp /\ Log' = Log

\* The program counter stays one.
LEMMA CounterMod ==
  ASSUME NEW x \in Int
  PROVE  x % (AllMem + 1) \in Counter
<1>. DEFINE n == AllMem + 1
<1>1. n \in Nat \ {0} /\ Counter = 0 .. n - 1
  BY SizeNat DEF Counter
<1>. HIDE DEF n
<1>2. x % n \in 0 .. n - 1
  BY <1>1, Division
<1>. QED BY <1>1, <1>2 DEF n

\* pokealloc and memskip keep the type of the address and say where it is.
LEMMA AdvancedType ==
  ASSUME NEW a \in Position, NEW db \in Nat
  PROVE  /\ Advanced(a, db) \in Position
         /\ Advanced(a, db).address = (a.address + db) % Size
         /\ Advanced(a, db).moved = (db = Size - a.address)
         /\ db = Size - a.address => Advanced(a, db).wrapwarn
<1>0. a.address + db \in Int /\ a.l_address + db \in Int
  BY SizeNat DEF Position, Address, Counter
<1>1. (a.address + db) % Size \in Address
  BY <1>0, SizeNat, Division DEF Address
<1>2. (a.l_address + db) % (AllMem + 1) \in Counter
  BY <1>0, CounterMod
<1>3. Size % Word \in Nat
  BY SizeNat, Division
<1>. QED BY <1>1, <1>2, <1>3, SizeNat DEF Advanced, Counted, Position

\* Left does not move the address.
LEMMA LeftType ==
  ASSUME NEW a \in Position
  PROVE  Left(a) \in Position /\ Left(a).address = a.address
<1>1. a.address \in Nat
  BY DEF Position, Address
<1>. QED BY <1>1 DEF Left, Position

\* memjmp
LEMMA Jumps ==
  ASSUME TypeOK, Partition(data, lastp), NEW adr \in Address, MemJmp(memp, adr), memp' = memp
  PROVE  /\ lastp' \in 0 .. memp' /\ lastaddr' = adr /\ memp' - lastp' = 0
         /\ Partition(data', lastp') /\ Kept
<1>1. data' = Enclosed(data, lastp, lastaddr, memp)
  BY DEF MemJmp, Closed, Enclosed
<1>4. lastp' = memp /\ lastaddr' = adr
  BY DEF MemJmp
<1>2. memp \in Nat
  BY DEF TypeOK
<1>5. memp >= lastp
  BY DEF TypeOK
<1>6. lastaddr \in Nat
  BY SizeNat DEF TypeOK, Address
<1>3. Partition(data', memp) /\ LogOf(data', memp, adr, memp) = LogOf(data, lastp, lastaddr, memp)
  BY ONLY Partition(data, lastp), <1>1, <1>2, <1>5, <1>6, ClosedKeeps
<1>. QED BY <1>2, <1>3, <1>4 DEF Kept, Log

\* memjmp to the address after the pending bytes
LEMMA Settled ==
  ASSUME at'.address \in Address, todo' = 0, lastaddr' = at'.address, memp' - lastp' = 0
  PROVE  InStep'
<1>1. (at.address - todo)' = at'.address
  BY SizeNat DEF Address
<1>2. at'.address % Size = at'.address
  BY Small DEF Address
<1>3. lastaddr' + (memp' - lastp') = at'.address
  BY SizeNat DEF Address
<1>. QED BY <1>1, <1>2, <1>3 DEF InStep

\* A jump that is made only when needed
LEMMA GoesTo ==
  ASSUME Inv, todo = 0, NEW a \in Position, GoTo(a)
  PROVE  /\ at' = a /\ Blocks' /\ Kept /\ open' = open /\ memp' \in Nat /\ todo' \in Nat
         /\ lastp' \in 0 .. memp' /\ lastaddr' \in Address
<1>1. at' = a /\ todo' = 0 /\ memp' = memp /\ open' = open /\ a.address \in Address
  BY DEF GoTo, Position
<1>2. CASE a.address = at.address
  <2>1. data' = data /\ lastp' = lastp /\ lastaddr' = lastaddr
    BY <1>2 DEF GoTo
  <2>. QED BY <1>1, <1>2, <2>1 DEF Inv, TypeOK, Blocks, InStep, Kept, Log
<1>3. CASE a.address # at.address
  <2>1. MemJmp(memp, a.address)
    BY <1>3 DEF GoTo
  <2>2. /\ lastp' \in 0 .. memp' /\ lastaddr' = a.address /\ memp' - lastp' = 0
        /\ Partition(data', lastp') /\ Kept
    BY <1>1, <2>1, Jumps DEF Inv, Blocks
  <2>6. InStep'
    BY <1>1, <2>2, Settled
  <2>. QED BY <1>1, <2>2, <2>6 DEF Blocks, Inv, TypeOK
<1>. QED BY <1>2, <1>3

\* What passes the top is told from the flags, and complained of.
LEMMA Advances ==
  ASSUME NEW a \in Position, NEW h \in History, Warned(a, h, errors), NEW db \in Nat \ {0},
         at' = Advanced(a, db), errors' = errors \cup Complaints(a, db), hist' = Filled(h, a, db)
  PROVE  /\ at' \in Position /\ at'.address = (a.address + db) % Size
         /\ hist' \in History /\ Warned(at', hist', errors')
<1>2. at' \in Position /\ at'.address = (a.address + db) % Size
  BY AdvancedType
<1>3. hist' \in History
  BY DEF Filled, History
<1>4. hist'.top => at'.moved /\ at'.wrapwarn
  BY AdvancedType DEF Filled, History
<1>5. hist'.over => "wrap" \in errors'
  <2>1. a.address \in Nat /\ Size \in Nat
    BY SizeNat DEF Position, Address
  <2>2. db > Size - a.address => "wrap" \in Complaints(a, db)
    BY <2>1 DEF Complaints
  <2>3. h.top => "wrap" \in Complaints(a, db)
    BY DEF Complaints, Warned
  <2>. QED BY <2>2, <2>3 DEF Filled, History, Warned
<1>. QED BY <1>2, <1>3, <1>4, <1>5 DEF Warned

\* The same for a step that is GoOn
LEMMA GoesOn ==
  ASSUME NEW a \in Position, NEW h \in History, Warned(a, h, errors), NEW db \in Nat \ {0}, GoOn(a, h, db)
  PROVE  /\ at' \in Position /\ at'.address = (a.address + db) % Size
         /\ hist' \in History /\ Warned(at', hist', errors')
BY Advances DEF GoOn

\* memskip
LEMMA Skips ==
  ASSUME Inv, todo = 0, NEW a \in Position, NEW h \in History, Warned(a, h, errors),
         NEW db \in Nat \ {0}, GoOn(a, h, db), MemJmp(memp, at'.address),
         memp' = memp, todo' = todo, open' \in Seq(Frame)
  PROVE  Inv' /\ Kept
<1>1. at' \in Position /\ hist' \in History /\ Warned(at', hist', errors')
  BY GoesOn
<1>2. at'.address \in Address
  BY <1>1 DEF Position
<1>3. /\ lastp' \in 0 .. memp' /\ lastaddr' = at'.address /\ memp' - lastp' = 0
      /\ Partition(data', lastp') /\ Kept
  BY <1>2, Jumps DEF Inv, Blocks
<1>4. InStep'
  BY <1>2, <1>3, Settled
<1>. QED BY <1>1, <1>2, <1>3, <1>4 DEF Inv, TypeOK, Blocks

\* The memory and the address stay.
LEMMA Stays ==
  ASSUME Inv, at' \in Position, at'.address = at.address, todo' = todo, UNCHANGED blocks,
         hist' \in History, Warned(at', hist', errors'), open' \in Seq(Frame)
  PROVE  Inv' /\ Kept
<1>1. memp' = memp /\ data' = data /\ lastp' = lastp /\ lastaddr' = lastaddr
  BY DEF blocks
<1>2. TypeOK'
  BY <1>1 DEF Inv, TypeOK
<1>3. InStep' /\ Partition(data, lastp)'
  BY <1>1 DEF Inv, Blocks, InStep
<1>4. Kept
  BY <1>1 DEF Kept, Log
<1>. QED BY <1>2, <1>3, <1>4 DEF Inv, Blocks

\* A block is closed, a block is opened.
LEMMA FrameGone ==
  ASSUME open \in Seq(Frame), open # <<>>
  PROVE  Last1 \in Frame /\ SubSeq(open, 1, Len(open) - 1) \in Seq(Frame)
<1>1. Len(open) \in Nat /\ Len(open) >= 1
  OBVIOUS
<1>2. Last1 \in Frame
  BY <1>1 DEF Last1
<1>3. \A i \in 1 .. Len(open) - 1 : open[i] \in Frame
  BY <1>1
<1>. QED BY <1>1, <1>2, <1>3

LEMMA FrameNew ==
  ASSUME TypeOK, NEW what \in {"logical", "union", "struct", "dstruct", "dunion"}, Opened(what)
  PROVE  open' \in Seq(Frame) /\ todo = 0
<1>. DEFINE f == [what |-> what, unionmode |-> at.unionmode,
                  start |-> at.start, end |-> at.end, l_union |-> at.l_union,
                  laddr |-> IF at.unionmode THEN at.l_union ELSE at.l_address,
                  addr |-> at.address]
<1>1. f \in Frame
  BY DEF TypeOK, Position, Frame
<1>2. open' = Append(open, f) /\ todo = 0
  BY DEF Opened, Ready
<1>. QED BY <1>1, <1>2 DEF TypeOK

(***************************************************************************)
(* The steps.  All but those of alloc_mem place nothing.                   *)
(***************************************************************************)
\* A move away from the top needs no flag.
LEMMA HistoryMoved ==
  ASSUME NEW h \in History, NEW a, NEW b, NEW e, Warned(a, h, e)
  PROVE  Moved(h) \in History /\ Warned(b, Moved(h), e)
BY DEF Moved, History, Warned

\* The lines of a union, *= and .offs
LEMMA MoveStep == ASSUME Inv, LineStart \/ (\E v \in Values : Star(v)) \/ (\E i \in -1 .. 1 : Offs(i))
                  PROVE  Inv' /\ Kept
<1>0. at \in Position /\ hist \in History /\ Warned(at, hist, errors)
  BY DEF Inv, TypeOK
<1>5. Left(at) \in Position /\ Left(at).address = at.address
  BY <1>0, LeftType
<1>1. ASSUME NEW a \in Position, todo = 0, GoTo(a), errors' = errors,
             hist' \in History, Warned(a, hist', errors)
      PROVE  Inv' /\ Kept
  <2>1. /\ at' = a /\ Blocks' /\ Kept /\ open' = open /\ memp' \in Nat /\ todo' \in Nat
        /\ lastp' \in 0 .. memp' /\ lastaddr' \in Address
    BY <1>1, GoesTo
  <2>. QED BY <1>1, <2>1 DEF Inv, TypeOK
<1>2. CASE LineStart
  <2>. DEFINE a == IF at.l_address = at.l_union THEN at ELSE [at EXCEPT !.l_address = at.l_union]
  <2>1. a \in Position /\ a.moved = at.moved /\ a.wrapwarn = at.wrapwarn
    BY <1>0 DEF Position
  <2>2. Left(a) \in Position
    BY <2>1, LeftType
  <2>3. todo = 0 /\ errors' = errors
    BY <1>2 DEF LineStart
  <2>4. CASE at.address = at.start
    <3>1. GoTo(a) /\ hist' = hist
      BY <1>2, <2>4 DEF LineStart
    <3>2. Warned(a, hist, errors)
      BY <1>0, <2>1 DEF Warned
    <3>. QED BY <1>0, <1>1, <2>1, <2>3, <3>1, <3>2
  <2>5. CASE at.address # at.start
    <3>. DEFINE b == [Left(a) EXCEPT !.wrapwarn = FALSE, !.address = at.start]
    <3>1. b \in Position
      BY <1>0, <2>2 DEF Position
    <3>2. GoTo(b) /\ hist' = Moved(hist)
      BY <1>2, <2>5 DEF LineStart
    <3>. HIDE DEF b
    <3>3. hist' \in History /\ Warned(b, hist', errors)
      BY <1>0, <3>2, HistoryMoved
    <3>. QED BY <1>1, <2>3, <3>1, <3>2, <3>3
  <2>. QED BY <2>4, <2>5
<1>3. ASSUME NEW v \in Values, Star(v) PROVE Inv' /\ Kept
  <2>. DEFINE a == [Left(at) EXCEPT !.wrapwarn = FALSE]
  <2>. DEFINE adr == IF Flat /\ Logicals = {} THEN v ELSE (at.address + v - at.l_address) % Size
  <2>. DEFINE b == [a EXCEPT !.address = adr, !.l_address = v % (AllMem + 1)]
  <2>1. a \in Position
    BY <1>5 DEF Position
  <2>2. todo = 0 /\ errors' = errors /\ hist' = Moved(hist)
    BY <1>3 DEF Star, Ready
  <2>3. CASE v = -1
    <3>1. GoTo(a)
      BY <1>3, <2>3 DEF Star
    <3>. HIDE DEF a
    <3>. QED BY <1>0, <1>1, <2>1, <2>2, <3>1, HistoryMoved
  <2>4. CASE v # -1
    <3>1. GoTo(b)
      BY <1>3, <2>4 DEF Star
    <3>2. v \in 0 .. AllMem /\ v \in Nat
      BY <2>4, ValuesAssumption, SizeNat
    <3>3. adr \in Address
      <4>1. CASE Flat /\ Logicals = {}
        BY <3>2, <4>1, WidthAssumption DEF Flat, Address
      <4>2. CASE ~(Flat /\ Logicals = {})
        <5>1. at.address + v - at.l_address \in Int
          BY <1>0, <3>2 DEF Position, Address, Counter
        <5>. QED BY <4>2, <5>1, Division, SizeNat DEF Address
      <4>. QED BY <4>1, <4>2
    <3>4. v % (AllMem + 1) \in Counter
      BY <3>2, CounterMod
    <3>. HIDE DEF a, adr
    <3>5. b \in Position
      BY <2>1, <3>3, <3>4 DEF Position
    <3>. HIDE DEF b
    <3>. QED BY <1>0, <1>1, <2>2, <3>1, <3>5, HistoryMoved
  <2>. QED BY <2>3, <2>4
<1>4. ASSUME NEW i \in -1 .. 1, Offs(i) PROVE Inv' /\ Kept
  <2>. DEFINE a == [Left(at) EXCEPT !.wrapwarn = FALSE, !.address = (at.l_address + i) % Size]
  <2>1. at.l_address + i \in Int
    BY <1>0 DEF Position, Counter
  <2>2. (at.l_address + i) % Size \in Address
    BY <2>1, Division, SizeNat DEF Address
  <2>3. a \in Position
    BY <1>5, <2>2 DEF Position
  <2>4. todo = 0 /\ errors' = errors /\ hist' = Moved(hist) /\ GoTo(a)
    BY <1>4 DEF Offs, Ready
  <2>. HIDE DEF a
  <2>. QED BY <1>0, <1>1, <2>3, <2>4, HistoryMoved
<1>. QED BY <1>2, <1>3, <1>4

\* pokealloc: the bytes have no place yet.
LEMMA PokeStep == ASSUME Inv, NEW db \in 1 .. MaxData, Poke(db) PROVE Inv' /\ Kept
<1>1. at \in Position /\ at.address \in 0 .. AllMem2 /\ hist \in History /\ Warned(at, hist, errors)
  BY DEF Inv, TypeOK, Position, Address
<1>2. db \in Nat \ {0}
  BY BoundAssumption
<1>3. todo = 0 /\ todo' = db /\ GoOn(at, hist, db) /\ open' = open
  BY DEF Poke, Piece
<1>4. memp' = memp /\ data' = data /\ lastp' = lastp /\ lastaddr' = lastaddr
  BY DEF Poke, blocks
<1>5. /\ at' \in Position /\ at'.address = (at.address + db) % Size
      /\ hist' \in History /\ Warned(at', hist', errors')
  BY <1>1, <1>2, <1>3, GoesOn
<1>6. InStep'
  <2>1. (((at.address + db) % Size) - db) % Size = at.address
    BY <1>1, <1>2, Behind
  <2>2. (at.address - todo) % Size = at.address
    BY <1>1, <1>3, Small
  <2>3. (at.address - todo)' = ((at.address + db) % Size) - db
    BY <1>3, <1>5
  <2>. QED BY <2>1, <2>2, <2>3, <1>4 DEF Inv, Blocks, InStep
<1>7. TypeOK'
  BY <1>2, <1>3, <1>4, <1>5 DEF Inv, TypeOK
<1>8. Partition(data, lastp)' /\ Kept
  BY <1>4 DEF Inv, Blocks, Kept, Log
<1>. QED BY <1>5, <1>6, <1>7, <1>8 DEF Inv, Blocks

\* memskip
LEMMA SkipStep == ASSUME Inv, NEW db \in 1 .. MaxData, Skip(db) PROVE Inv' /\ Kept
<1>1. at \in Position /\ hist \in History /\ Warned(at, hist, errors) /\ open \in Seq(Frame)
  BY DEF Inv, TypeOK
<1>2. db \in Nat \ {0}
  BY BoundAssumption
<1>3. /\ todo = 0 /\ GoOn(at, hist, db) /\ MemJmp(memp, at'.address)
      /\ memp' = memp /\ todo' = todo /\ open' = open
  BY DEF Skip, Piece
<1>. QED BY <1>1, <1>2, <1>3, Skips

\* A label and the lines that open a block
LEMMA OpenStep ==
  ASSUME Inv, Label \/ (\E v \in Values : Logical(v)) \/ Union \/ Struct \/ Dstruct \/ Dunion
  PROVE  Inv' /\ Kept
<1>0. TypeOK /\ at \in Position /\ hist \in History /\ Warned(at, hist, errors)
  BY DEF Inv, TypeOK
<1>1. CASE Label
  <2>1. /\ at' = at /\ todo' = todo /\ UNCHANGED blocks /\ hist' = hist /\ errors' = errors
        /\ open' \in Seq(Frame)
    BY <1>0, <1>1 DEF Label, TypeOK
  <2>. QED BY <1>0, <2>1, Stays
<1>2. ASSUME NEW v \in Values, Logical(v) PROVE Inv' /\ Kept
  <2>1. /\ todo' = todo /\ UNCHANGED blocks /\ hist' = hist /\ errors' = errors
        /\ Opened("logical")
    BY <1>2 DEF Logical
  <2>2. open' \in Seq(Frame)
    BY <1>0, <2>1, FrameNew
  <2>3. v # -1 => v \in Counter
    BY ValuesAssumption, SizeNat DEF Counter
  <2>4. /\ at' \in Position /\ at'.address = at.address /\ at'.moved = at.moved
        /\ at'.wrapwarn = at.wrapwarn
    BY <1>0, <1>2, <2>3 DEF Logical, Position
  <2>5. Warned(at', hist', errors')
    BY <1>0, <2>1, <2>4 DEF Warned
  <2>. QED BY <1>0, <2>1, <2>2, <2>4, <2>5, Stays
<1>3. ASSUME NEW what \in {"union", "dstruct", "dunion"}, NEW mode \in BOOLEAN, Range1(what, mode)
      PROVE  Inv' /\ Kept
  <2>1. /\ todo' = todo /\ UNCHANGED blocks /\ errors' = errors /\ Opened(what)
        /\ hist' = [hist EXCEPT !.below = @ \/ Below]
    BY <1>3 DEF Range1
  <2>2. open' \in Seq(Frame)
    BY <1>0, <2>1, FrameNew
  <2>3. hist' \in History /\ hist'.top = hist.top /\ hist'.over = hist.over
    BY <1>0, <2>1 DEF History, Below
  <2>4. /\ at' \in Position /\ at'.address = at.address /\ at'.moved = at.moved
        /\ at'.wrapwarn = at.wrapwarn
    <3>1. at.address \in Nat
      BY <1>0 DEF Position, Address
    <3>. QED BY <1>0, <1>3, <3>1 DEF Range1, Position
  <2>5. Warned(at', hist', errors')
    BY <1>0, <2>1, <2>3, <2>4 DEF Warned
  <2>. QED BY <1>0, <2>1, <2>2, <2>3, <2>4, <2>5, Stays
<1>4. CASE Struct
  <2>1. /\ todo' = todo /\ UNCHANGED blocks /\ hist' = hist /\ errors' = errors
        /\ Opened("struct")
    BY <1>4 DEF Struct
  <2>2. open' \in Seq(Frame)
    BY <1>0, <2>1, FrameNew
  <2>3. /\ at' \in Position /\ at'.address = at.address /\ at'.moved = at.moved
        /\ at'.wrapwarn = at.wrapwarn
    BY <1>0, <1>4 DEF Struct, Position
  <2>4. Warned(at', hist', errors')
    BY <1>0, <2>1, <2>3 DEF Warned
  <2>. QED BY <1>0, <2>1, <2>2, <2>3, <2>4, Stays
<1>. QED BY <1>1, <1>2, <1>3, <1>4 DEF Union, Dstruct, Dunion

\* The block that is closed was open.
LEMMA Ended ==
  ASSUME TypeOK, NEW what, Ends(what)
  PROVE  Last1 \in Frame /\ open' \in Seq(Frame) /\ todo = 0
<1>1. open \in Seq(Frame) /\ open # <<>> /\ open' = SubSeq(open, 1, Len(open) - 1) /\ todo = 0
  BY DEF Ends, TypeOK, Ready
<1>. QED BY <1>1, FrameGone

\* The space behind a union or an instance
LEMMA SkippedTo ==
  ASSUME Inv, todo = 0, NEW a \in Position, NEW h \in History, NEW end \in Nat, a.address = at.address,
         Warned(a, hist, errors), Warned(a, h, errors), SkipTo(a, h, end), open' \in Seq(Frame)
  PROVE  Inv' /\ Kept
<1>0. a.address \in Nat /\ hist \in History
  BY DEF Position, Address, Inv, TypeOK
<1>1. CASE end > a.address
  <2>1. GoOn(a, h, end - a.address) /\ MemJmp(memp, at'.address) /\ memp' = memp /\ todo' = todo
    BY <1>1 DEF SkipTo
  <2>2. end - a.address \in Nat \ {0}
    BY <1>0, <1>1
  <2>. QED BY <2>1, <2>2, Skips
<1>2. CASE ~(end > a.address)
  <2>1. at' = a /\ UNCHANGED blocks /\ todo' = todo /\ errors' = errors /\ hist' = hist
    BY <1>2 DEF SkipTo
  <2>. QED BY <1>0, <2>1, Stays
<1>. QED BY <1>1, <1>2

\* logical_close, union_close and the ends of the structures
LEMMA CloseStep == ASSUME Inv, Closes PROVE Inv' /\ Kept
<1>0. TypeOK /\ at \in Position /\ hist \in History /\ Warned(at, hist, errors)
  BY DEF Inv, TypeOK
<1>1. CASE Here
  <2>1. Ends("logical") /\ todo' = todo /\ UNCHANGED blocks /\ hist' = hist /\ errors' = errors
    BY <1>1 DEF Here
  <2>2. Last1 \in Frame /\ open' \in Seq(Frame)
    BY <1>0, <2>1, Ended
  <2>. DEFINE diff == (at.address - Last1.addr) % Size
  <2>3. diff \in Int
    <3>1. at.address - Last1.addr \in Int
      BY <1>0, <2>2 DEF Position, Frame, Address
    <3>. QED BY <3>1, Division, SizeNat
  <2>4. Last1.laddr \in Counter /\ Last1.laddr + diff \in Int
    BY <2>2, <2>3 DEF Frame, Counter
  <2>5. (Last1.laddr + diff) % (AllMem + 1) \in Counter
    BY <2>4, CounterMod
  <2>. HIDE DEF diff
  <2>6. at' = IF at.unionmode THEN [at EXCEPT !.l_union = Last1.laddr]
              ELSE [at EXCEPT !.l_address = (Last1.laddr + diff) % (AllMem + 1)]
    BY <1>1 DEF Here, diff
  <2>7. /\ at' \in Position /\ at'.address = at.address /\ at'.moved = at.moved
        /\ at'.wrapwarn = at.wrapwarn
    BY <1>0, <2>4, <2>5, <2>6 DEF Position
  <2>8. Warned(at', hist', errors')
    BY <1>0, <2>1, <2>7 DEF Warned
  <2>. QED BY <1>0, <2>1, <2>2, <2>7, <2>8, Stays
<1>2. CASE Endu
  <2>. DEFINE end == Higher(at.address, at.end)
  <2>. DEFINE a == [at EXCEPT !.unionmode = Last1.unionmode, !.l_union = Last1.l_union,
                              !.start = Last1.start, !.end = Higher(Last1.end, end)]
  <2>. DEFINE b == [a EXCEPT !.wrapwarn = @ /\ end <= at.address]
  <2>1. Ends("union") /\ SkipTo(b, Moved(hist), end)
    BY <1>2 DEF Endu
  <2>2. Last1 \in Frame /\ open' \in Seq(Frame) /\ todo = 0
    BY <1>0, <2>1, Ended
  <2>3. end \in Nat /\ Higher(Last1.end, end) \in Nat
    BY <1>0, <2>2 DEF Higher, Position, Frame, Address
  <2>. HIDE DEF end
  <2>4. /\ a \in Position /\ a.address = at.address /\ a.moved = at.moved
        /\ a.wrapwarn = at.wrapwarn
    BY <1>0, <2>2, <2>3 DEF Position, Frame
  <2>5. /\ b \in Position /\ b.address = at.address
    BY <2>4 DEF Position
  <2>6. Moved(hist) \in History /\ Warned(b, Moved(hist), errors)
    BY <1>0, HistoryMoved
  <2>7. CASE end > b.address
    <3>1. GoOn(b, Moved(hist), end - b.address) /\ MemJmp(memp, at'.address) /\ memp' = memp /\ todo' = todo
      BY <2>1, <2>7 DEF SkipTo
    <3>2. end - b.address \in Nat \ {0}
      BY <1>0, <2>3, <2>5, <2>7 DEF Position, Address
    <3>. HIDE DEF a, b
    <3>. QED BY <2>2, <2>5, <2>6, <3>1, <3>2, Skips
  <2>8. CASE ~(end > b.address)
    <3>1. b.wrapwarn = at.wrapwarn /\ b.moved = at.moved
      BY <1>0, <2>3, <2>4, <2>5, <2>8 DEF Position, Address
    <3>2. Warned(b, hist, errors)
      BY <1>0, <3>1 DEF Warned
    <3>. HIDE DEF a, b
    <3>. QED BY <2>1, <2>2, <2>3, <2>5, <2>6, <3>2, SkippedTo
  <2>. QED BY <2>7, <2>8
<1>3. CASE EndStruct
  <2>1. Ends("struct") /\ todo' = todo /\ UNCHANGED blocks /\ hist' = hist /\ errors' = errors
    BY <1>3 DEF EndStruct
  <2>2. Last1 \in Frame /\ open' \in Seq(Frame)
    BY <1>0, <2>1, Ended
  <2>3. /\ at' \in Position /\ at'.address = at.address /\ at'.moved = at.moved
        /\ at'.wrapwarn = at.wrapwarn
    BY <1>0, <1>3, <2>2 DEF EndStruct, Position, Frame
  <2>4. Warned(at', hist', errors')
    BY <1>0, <2>1, <2>3 DEF Warned
  <2>. QED BY <1>0, <2>1, <2>2, <2>3, <2>4, Stays
<1>4. CASE EndInstance
  <2>. DEFINE a == [at EXCEPT !.unionmode = Last1.unionmode, !.l_union = Last1.l_union,
                              !.start = Last1.start, !.end = Higher(Last1.end, at.end)]
  <2>. DEFINE end == IF at.unionmode THEN at.end ELSE at.address
  <2>1. (Ends("dstruct") \/ Ends("dunion")) /\ SkipTo(a, hist, end)
    BY <1>4 DEF EndInstance
  <2>2. Last1 \in Frame /\ open' \in Seq(Frame) /\ todo = 0
    BY <1>0, <2>1, Ended
  <2>3. end \in Nat /\ Higher(Last1.end, at.end) \in Nat
    BY <1>0, <2>2 DEF Higher, Position, Frame, Address
  <2>4. /\ a \in Position /\ a.address = at.address /\ a.moved = at.moved
        /\ a.wrapwarn = at.wrapwarn
    BY <1>0, <2>2, <2>3 DEF Position, Frame
  <2>5. Warned(a, hist, errors)
    BY <1>0, <2>4 DEF Warned
  <2>. HIDE DEF a, end
  <2>. QED BY <1>0, <2>1, <2>2, <2>3, <2>4, <2>5, SkippedTo
<1>. QED BY <1>1, <1>2, <1>3, <1>4 DEF Closes

\* .dsection: memref and memskip
LEMMA DsectionStep == ASSUME Inv, NEW n \in 0 .. MaxData, Dsection(n) PROVE Inv' /\ Kept
<1>. DEFINE b == [p |-> lastp, addr |-> at.address, len |-> n, ref |-> TRUE]
<1>. DEFINE d == Append(data, b)
<1>0. TypeOK /\ at \in Position /\ hist \in History /\ Warned(at, hist, errors)
  BY DEF Inv, TypeOK
<1>1. todo = 0 /\ open' = open
  BY DEF Dsection, Ready
<1>2. b \in Block /\ b.ref /\ n \in Nat
  BY <1>0, BoundAssumption DEF Block, TypeOK, Position, Address
<1>. HIDE DEF b
<1>3. Partition(d, lastp) /\ LogOf(d, lastp, lastaddr, memp) = LogOf(data, lastp, lastaddr, memp)
  BY ONLY Partition(data, lastp), Inv, <1>2, ReferenceKeeps DEF Inv, Blocks
<1>4. CASE n = 0
  <2>1. /\ data' = d /\ at' = at /\ memp' = memp /\ lastp' = lastp /\ lastaddr' = lastaddr
        /\ todo' = todo /\ errors' = errors /\ hist' = hist
    BY <1>4 DEF Dsection, b
  <2>. HIDE DEF d
  <2>2. TypeOK' /\ InStep'
    BY <1>1, <2>1 DEF Inv, TypeOK, Blocks, InStep
  <2>. QED BY <1>0, <1>3, <2>1, <2>2 DEF Inv, Blocks, Kept, Log
<1>5. CASE n # 0
  <2>1. /\ at' = Advanced(at, n) /\ errors' = errors \cup Complaints(at, n)
        /\ data' = Closed(d, memp) /\ lastp' = memp /\ lastaddr' = at'.address
        /\ hist' = Filled(hist, at, n) /\ memp' = memp /\ todo' = todo
    BY <1>5 DEF Dsection, b
  <2>. HIDE DEF d
  <2>2. n \in Nat \ {0}
    BY <1>2, <1>5
  <2>3. /\ at' \in Position /\ hist' \in History /\ Warned(at', hist', errors')
    BY <1>0, <2>1, <2>2, Advances
  <2>4. at'.address \in Address
    BY <2>3 DEF Position
  <2>5. data' = Enclosed(d, lastp, lastaddr, memp)
    BY <2>1 DEF Closed, Enclosed
  <2>6. memp \in Nat /\ memp >= lastp /\ lastaddr \in Nat /\ memp - memp = 0
    BY <1>0, SizeNat DEF TypeOK, Address
  <2>7. /\ Partition(data', memp)
        /\ LogOf(data', memp, at'.address, memp) = LogOf(d, lastp, lastaddr, memp)
    BY ONLY <1>3, <2>5, <2>6, ClosedKeeps
  <2>8. InStep'
    BY <1>1, <2>1, <2>4, <2>6, Settled
  <2>9. TypeOK'
    BY <1>0, <1>1, <2>1, <2>3, <2>4 DEF TypeOK
  <2>. QED BY <1>3, <2>1, <2>3, <2>7, <2>8, <2>9 DEF Inv, Blocks, Kept, Log
<1>. QED BY <1>2, <1>4, <1>5

(***************************************************************************)
(* alloc_mem.                                                              *)
(***************************************************************************)
\* Where the next byte goes
Pos == (at.address - todo) % Size
\* The bytes k of a step that places n of them
Places(n) == /\ Log' = Log \o [k \in 1 .. n |-> (Pos + k - 1) % Size]
             /\ Pos' = (Pos + n) % Size

\* The position is an address, and that behind the pending bytes.
LEMMA PositionType ==
  ASSUME TypeOK, InStep
  PROVE  /\ Pos = lastaddr + (memp - lastp) /\ Pos \in 0 .. AllMem2
         /\ Room = AllMem2 - Pos
<1>1. Pos = lastaddr + (memp - lastp)
  BY DEF InStep, Pos
<1>2. at.address - todo \in Int
  BY DEF TypeOK, Position, Address
<1>3. Pos \in 0 .. AllMem2
  BY <1>2, Division, SizeNat DEF Pos
<1>. QED BY <1>1, <1>3 DEF Room, Pending

\* A function that is g and then h is their concatenation.
LEMMA Joined ==
  ASSUME NEW m \in Nat, NEW n \in Nat, NEW g \in [1 .. m -> Int], NEW h \in [1 .. n -> Int],
         NEW w \in [1 .. m + n -> Int], \A i \in 1 .. m : w[i] = g[i], \A k \in 1 .. n : w[m + k] = h[k]
  PROVE  w = g \o h
<1>1. g \in Seq(Int) /\ h \in Seq(Int) /\ Len(g) = m /\ Len(h) = n
  OBVIOUS
<1>2. /\ g \o h \in Seq(Int) /\ Len(g \o h) = m + n
      /\ \A i \in 1 .. m + n : (g \o h)[i] = IF i <= m THEN g[i] ELSE h[i - m]
  <2>1. g \in Seq(Int) /\ h \in Seq(Int)
    BY <1>1
  <2>2. /\ g \o h \in Seq(Int) /\ Len(g \o h) = Len(g) + Len(h)
        /\ \A i \in 1 .. Len(g) + Len(h) : (g \o h)[i] = IF i <= Len(g) THEN g[i] ELSE h[i - Len(g)]
    BY ONLY <2>1, ConcatProperties, Zenon
  <2>3. Len(g) = m /\ Len(h) = n
    BY <1>1
  <2>. QED BY ONLY <2>2, <2>3, Zenon
<1>3. w \in Seq(Int) /\ Len(w) = m + n
  OBVIOUS
<1>4. ASSUME NEW i \in 1 .. m + n PROVE (g \o h)[i] = w[i]
  <2>1. CASE i <= m
    <3>1. i \in 1 .. m
      BY <2>1
    <3>. QED BY <2>1, <3>1, <1>2
  <2>2. CASE ~(i <= m)
    <3>1. i - m \in 1 .. n /\ m + (i - m) = i
      BY <2>2
    <3>2. (g \o h)[i] = h[i - m]
      BY <1>2, <2>2
    <3>. QED BY <3>1, <3>2
  <2>. QED BY <2>1, <2>2
<1>. DEFINE gh == g \o h
<1>5. gh \in Seq(Int) /\ Len(gh) = m + n /\ \A i \in 1 .. m + n : gh[i] = w[i]
  BY <1>2, <1>4
<1>. HIDE DEF gh
<1>6. w = gh
  BY <1>3, <1>5, SeqEqual
<1>. QED BY <1>6 DEF gh

\* Each byte has an address.
LEMMA AddrInt ==
  ASSUME NEW d, NEW lp, Partition(d, lp), NEW la \in Nat
  PROVE  \A p \in Nat : AddrIn(d, lp, la, p) \in Int
<1>. SUFFICES ASSUME NEW p \in Nat PROVE AddrIn(d, lp, la, p) \in Int
  OBVIOUS
<1>1. lp \in Nat /\ d \in Seq(Block)
  BY DEF Partition
<1>2. CASE p >= lp
  BY <1>1, <1>2, InOpen
<1>3. CASE ~(p >= lp)
  <2>1. p \in 0 .. lp - 1
    BY <1>1, <1>3
  <2>2. PICK i \in OwnOf(d) : Holds(d[i], p)
    BY <2>1 DEF Partition
  <2>3. d[i].p \in Nat /\ d[i].addr \in Nat
    BY <1>1, Typed DEF OwnOf, Block
  <2>. QED BY <2>2, <2>3, InBlock
<1>. QED BY <1>2, <1>3

\* What is appended to the open block gets the addresses from the position on.
LEMMA Appended ==
  ASSUME Inv, NEW n \in Nat, Pos + n <= Size
  PROVE  LogOf(data, lastp, lastaddr, memp + n) = Log \o [k \in 1 .. n |-> (Pos + k - 1) % Size]
<1>. DEFINE more == [k \in 1 .. n |-> (Pos + k - 1) % Size]
<1>. DEFINE whole == LogOf(data, lastp, lastaddr, memp + n)
<1>1. /\ memp \in Nat /\ lastp \in 0 .. memp /\ lastaddr \in Nat /\ Partition(data, lastp)
      /\ Pos = lastaddr + (memp - lastp) /\ Pos \in 0 .. AllMem2
  BY PositionType, SizeNat DEF Inv, TypeOK, Blocks, Address
<1>2. ASSUME NEW k \in 1 .. n
      PROVE  AddrIn(data, lastp, lastaddr, memp + k - 1) = (Pos + k - 1) % Size
  <2>1. memp + k - 1 \in Nat /\ memp + k - 1 >= lastp
    BY <1>1
  <2>2. AddrIn(data, lastp, lastaddr, memp + k - 1) = lastaddr + (memp + k - 1) - lastp
    BY <1>1, <2>1, InOpen
  <2>3. Pos + k - 1 \in 0 .. AllMem2
    BY <1>1, SizeNat DEF Size
  <2>4. (Pos + k - 1) % Size = Pos + k - 1
    BY <2>3, Small
  <2>5. lastaddr + (memp + k - 1) - lastp = Pos + k - 1
    BY <1>1
  <2>. QED BY <2>2, <2>4, <2>5
<1>3. memp + n \in Nat /\ memp + n >= memp
  BY <1>1
<1>4. whole \in [1 .. memp + n -> Int] /\ Log \in [1 .. memp -> Int]
  BY <1>1, AddrInt DEF LogOf, Log
<1>5. \A i \in 1 .. memp : whole[i] = Log[i]
  BY <1>1 DEF LogOf, Log
<1>6. \A k \in 1 .. n : more[k] = (Pos + k - 1) % Size
  OBVIOUS
<1>7. \A k \in 1 .. n : whole[memp + k] = more[k]
  <2>. SUFFICES ASSUME NEW k \in 1 .. n PROVE whole[memp + k] = more[k]
    OBVIOUS
  <2>1. memp + k \in 1 .. memp + n /\ (memp + k) - 1 = memp + k - 1
    BY <1>1
  <2>2. whole[memp + k] = AddrIn(data, lastp, lastaddr, memp + k - 1)
    BY <2>1 DEF LogOf
  <2>. QED BY <2>2, <1>2, <1>6
<1>8. more \in [1 .. n -> Int]
  <2>1. \A k \in 1 .. n : (Pos + k - 1) % Size \in Int
    <3>. SUFFICES ASSUME NEW k \in 1 .. n PROVE (Pos + k - 1) % Size \in Int
      OBVIOUS
    <3>1. Pos + k - 1 \in Int
      BY <1>1, SizeNat
    <3>. QED BY <3>1, Division, SizeNat
  <2>. QED BY <2>1
<1>. HIDE DEF whole, more
<1>9. whole = Log \o more
  BY ONLY <1>1, <1>4, <1>5, <1>7, <1>8, n \in Nat, Joined
<1>. QED BY <1>9 DEF whole, more

\* The rest fits below the top.
LEMMA RestStep == ASSUME Inv, AllocRest PROVE Inv' /\ todo \in 1 .. Size /\ Places(todo)
<1>1. /\ todo \in Nat \ {0} /\ todo <= Room /\ memp' = memp + todo /\ todo' = 0
      /\ at' = at /\ data' = data /\ lastp' = lastp /\ lastaddr' = lastaddr
      /\ open' = open /\ errors' = errors /\ hist' = hist
  BY DEF AllocRest, Inv, TypeOK
<1>2. /\ memp \in Nat /\ lastp \in 0 .. memp /\ at.address \in 0 .. AllMem2 /\ lastaddr \in Nat
      /\ Pos = lastaddr + (memp - lastp) /\ Pos \in 0 .. AllMem2 /\ Room = AllMem2 - Pos
  BY PositionType, SizeNat DEF Inv, TypeOK, Blocks, Position, Address
<1>3. Pos + todo = at.address
  <2>1. Pos = (at.address - todo) % Size /\ Pos \in Nat /\ todo <= AllMem2 - Pos /\ todo \in Nat
    BY <1>1, <1>2, SizeNat DEF Pos
  <2>. HIDE DEF Pos
  <2>. QED BY <1>2, <2>1, Rest
<1>4. at.address % Size = at.address
  BY <1>2, Small
<1>5. Pos' = at.address
  <2>1. (at.address - todo)' = at.address
    BY <1>1, <1>2
  <2>. QED BY <2>1, <1>4 DEF Pos
<1>6. InStep'
  <2>1. lastaddr' + (memp' - lastp') = at.address
    BY <1>1, <1>2, <1>3
  <2>2. (at.address - todo)' = at.address
    BY <1>1, <1>2
  <2>. QED BY <2>1, <2>2, <1>4 DEF InStep
<1>7. Log' = LogOf(data, lastp, lastaddr, memp + todo)
  BY <1>1 DEF Log
<1>8. Pos + todo <= Size /\ todo \in 1 .. Size
  BY <1>1, <1>2, <1>3, SizeNat DEF Size
<1>9. Log' = Log \o [k \in 1 .. todo |-> (Pos + k - 1) % Size]
  BY <1>1, <1>7, <1>8, Appended
<1>10. TypeOK'
  BY <1>1, <1>2 DEF Inv, TypeOK
<1>11. Partition(data, lastp)' /\ Warned(at, hist, errors)'
  BY <1>1 DEF Inv, Blocks
<1>. QED BY <1>3, <1>4, <1>5, <1>6, <1>8, <1>9, <1>10, <1>11 DEF Inv, Blocks, Places

\* What fits is placed; a block for it is closed, and the rest goes to 0.
LEMMA WrapsStep == ASSUME Inv, AllocWraps PROVE Inv' /\ Room + 1 \in 1 .. Size /\ Places(Room + 1)
<1>. DEFINE n == Room + 1
<1>1. /\ todo \in Nat \ {0} /\ todo > Room /\ memp' = memp + n /\ todo' = todo - n
      /\ at' = at /\ MemJmp(memp + n, 0)
      /\ open' = open /\ errors' = errors /\ hist' = hist
  <2>1. memp + Room + 1 = memp + n
    BY PositionType, SizeNat DEF Inv, TypeOK, Blocks
  <2>. QED BY <2>1 DEF AllocWraps, Inv, TypeOK
<1>2. /\ memp \in Nat /\ lastp \in 0 .. memp /\ at.address \in 0 .. AllMem2 /\ lastaddr \in Nat
      /\ Pos = lastaddr + (memp - lastp) /\ Pos \in 0 .. AllMem2 /\ Room = AllMem2 - Pos
  BY PositionType, SizeNat DEF Inv, TypeOK, Blocks, Position, Address
<1>3. n = Size - Pos /\ n \in 1 .. Size /\ Pos + n = Size /\ n \in Nat
  BY <1>2, SizeNat DEF Size
<1>4. todo - n \in Nat
  BY <1>1, <1>2, <1>3
<1>. HIDE DEF n
<1>5. (at.address - (todo - n)) % Size = 0
  <2>1. Pos = (at.address - todo) % Size /\ Pos \in Nat /\ todo \in Nat
    BY <1>1, <1>2, SizeNat DEF Pos
  <2>. HIDE DEF Pos
  <2>. QED BY <1>2, <1>3, <2>1, Wraps
<1>6. Pos' = 0
  <2>1. (at.address - todo)' = at.address - (todo - n)
    BY <1>1
  <2>. QED BY <2>1, <1>5 DEF Pos
<1>7. (Pos + n) % Size = 0
  <2>1. Size = 1 * Size + 0 /\ 0 \in 0 .. Size - 1
    BY SizeNat
  <2>2. (1 * Size + 0) % Size = 0
    BY <2>1, Remainder, SizeNat
  <2>. QED BY <2>1, <2>2, <1>3
<1>8. lastp' = memp + n /\ lastaddr' = 0 /\ data' = Enclosed(data, lastp, lastaddr, memp + n)
  BY <1>1 DEF MemJmp, Closed, Enclosed
<1>9. InStep'
  <2>1. lastaddr' + (memp' - lastp') = 0
    BY <1>1, <1>2, <1>3, <1>8
  <2>2. (at.address - todo)' = at.address - (todo - n)
    BY <1>1
  <2>. QED BY <2>1, <2>2, <1>5 DEF InStep
<1>10. /\ Partition(data', memp + n)
       /\ LogOf(data', memp + n, 0, memp + n) = LogOf(data, lastp, lastaddr, memp + n)
  <2>1. memp + n \in Nat /\ memp + n >= lastp /\ Partition(data, lastp)
    BY <1>2, <1>3 DEF Inv, Blocks
  <2>. QED BY ONLY <1>2, <1>8, <2>1, ClosedKeeps
<1>11. Log' = LogOf(data, lastp, lastaddr, memp + n)
  BY <1>1, <1>8, <1>10 DEF Log
<1>12. Log' = Log \o [k \in 1 .. n |-> (Pos + k - 1) % Size]
  <2>1. Pos + n <= Size
    BY <1>3, SizeNat
  <2>. QED BY <1>3, <1>11, <2>1, Appended
<1>13. TypeOK'
  <2>1. memp' \in Nat /\ lastp' \in 0 .. memp' /\ lastaddr' \in Address
    BY <1>1, <1>2, <1>3, <1>8, SizeNat DEF Address
  <2>. QED BY <1>1, <1>4, <2>1 DEF Inv, TypeOK
<1>14. Partition(data, lastp)' /\ Warned(at, hist, errors)'
  BY <1>1, <1>8, <1>10 DEF Inv
<1>15. Inv'
  BY <1>9, <1>13, <1>14 DEF Inv, Blocks
<1>16. Places(n)
  BY <1>6, <1>7, <1>12 DEF Places
<1>. QED BY <1>3, <1>15, <1>16 DEF n

(***************************************************************************)
(* The theorems.                                                           *)
(***************************************************************************)
\* A section begins with no bytes at an address.
LEMMA InitInv == Init => Inv
<1>. SUFFICES ASSUME Init PROVE Inv
  OBVIOUS
<1>1. PICK a \in Starts, l \in Values \ {-1} :
        /\ at = [address |-> a, l_address |-> l, start |-> a, end |-> a, l_union |-> l,
                 unionmode |-> FALSE, moved |-> FALSE, wrapwarn |-> FALSE]
        /\ lastaddr = a /\ hist = [top |-> FALSE, over |-> FALSE, below |-> FALSE]
  BY DEF Init
<1>2. memp = 0 /\ data = <<>> /\ lastp = 0 /\ todo = 0 /\ open = <<>>
  BY DEF Init
<1>3. a \in Address /\ a \in Nat /\ l \in Counter
  BY ValuesAssumption, SizeNat DEF Address, Counter
<1>4. TypeOK
  BY <1>1, <1>2, <1>3 DEF TypeOK, Position, History
<1>5. Warned(at, hist, errors)
  BY <1>1 DEF Warned
<1>6. InStep
  <2>1. a % Size = a
    BY <1>3, Small DEF Address
  <2>2. at.address - todo = a /\ lastaddr + (memp - lastp) = a
    BY <1>1, <1>2, <1>3
  <2>. QED BY <2>1, <2>2 DEF InStep
<1>7. Partition(data, lastp)
  BY <1>2 DEF Partition, OwnOf
<1>. QED BY <1>4, <1>5, <1>6, <1>7 DEF Inv, Blocks

\* Each line keeps the invariant, and every byte where it is.
LEMMA NextInv ==
  ASSUME Inv, [Next]_vars
  PROVE  Inv' /\ (Kept \/ \E n \in 1 .. Size : Places(n))
<1>1. CASE AllocRest
  BY <1>1, RestStep
<1>2. CASE AllocWraps
  BY <1>2, WrapsStep
<1>3. CASE Data
  BY <1>3, PokeStep, SkipStep, OpenStep, DsectionStep DEF Data
<1>4. CASE LineStart \/ Moves
  BY <1>4, MoveStep DEF Moves
<1>5. CASE Opens
  BY <1>5, OpenStep DEF Opens
<1>6. CASE Closes
  BY <1>6, CloseStep
<1>7. CASE UNCHANGED vars
  <2>1. /\ at' = at /\ UNCHANGED blocks /\ todo' = todo /\ open' = open /\ errors' = errors
        /\ hist' = hist
    BY <1>7 DEF vars
  <2>. QED BY <2>1, Stays DEF Inv, TypeOK
<1>. QED BY <1>1, <1>2, <1>3, <1>4, <1>5, <1>6, <1>7 DEF Next

\* The invariant holds in every state.
LEMMA Invariance == Spec => []Inv
<1>1. Inv /\ [Next]_vars => Inv'
  BY NextInv
<1>. QED BY InitInv, <1>1, PTL DEF Spec

\* The address is inside the output and the program counter inside the
\* processor, and no closed block goes further than the bytes there are, what
\* lines a program has and how wide the output is (compile, new_star).
THEOREM TypeCorrect == Spec => []TypeOK
<1>1. Inv => TypeOK
  BY DEF Inv
<1>. QED BY Invariance, <1>1, PTL

\* The address that pokealloc, memskip and *= count never drifts from the one
\* that memjmp and alloc_mem keep with the blocks.
THEOREM AddressesInStep == Spec => []InStep
<1>1. Inv => InStep
  BY DEF Inv, Blocks
<1>. QED BY Invariance, <1>1, PTL

\* A program that places more than the memory holds is told (pokealloc, memskip).
THEOREM WrapIsReported == Spec => []NoSilentWrap
<1>1. Inv => NoSilentWrap
  BY DEF Inv, Warned, NoSilentWrap
<1>. QED BY Invariance, <1>1, PTL

\* The addresses of Memory are those of the lemmas.
LEMMA SameLog == [p \in 1 .. memp |-> AddrOf(p - 1)] = Log
BY DEF AddrOf, Own, Log, LogOf, AddrIn, OwnOf, Holds

\* The blocks implement the image: each byte is where the address was when its
\* line was assembled, wrapped at the top (alloc_mem), and stays there.
THEOREM ImageImplemented == Spec => Implements
<1>1. Init => I!Init
  <2>. SUFFICES ASSUME Init PROVE I!Init
    OBVIOUS
  <2>1. Inv /\ memp = 0
    BY InitInv DEF Init
  <2>2. Pos \in 0 .. Size - 1
    BY <2>1, PositionType, SizeNat DEF Inv, Blocks
  <2>3. [p \in 1 .. memp |-> AddrOf(p - 1)] = <<>>
    BY <2>1
  <2>. QED BY <2>2, <2>3 DEF I!Init, Pos
<1>2. Inv /\ [Next]_vars => [I!Next]_I!vars
  <2>. SUFFICES ASSUME Inv, [Next]_vars PROVE I!Next
    OBVIOUS
  <2>1. Inv' /\ (Kept \/ \E n \in 1 .. Size : Places(n))
    BY NextInv
  <2>2. Pos' \in 0 .. Size - 1
    <3>1. (at.address - todo)' \in Int
      BY <2>1 DEF Inv, TypeOK, Position, Address
    <3>. QED BY <3>1, Division, SizeNat DEF Pos
  <2>3. [p \in 1 .. memp |-> AddrOf(p - 1)]' = Log'
    BY DEF AddrOf, Own, Log, LogOf, AddrIn, OwnOf, Holds
  <2>4. CASE Kept
    BY <2>2, <2>3, <2>4, SameLog DEF Kept, I!Next, I!Move, Pos
  <2>5. ASSUME NEW n \in 1 .. Size, Places(n) PROVE I!Next
    BY <2>3, <2>5, SameLog DEF Places, I!Next, I!Put, Pos
  <2>. QED BY <2>1, <2>4, <2>5
<1>. QED BY Invariance, <1>1, <1>2, PTL DEF Spec, Implements, I!Spec

(***************************************************************************)
(* The bytes of a section are in the space between its start and its end,  *)
(* for every width of the output and every sequence of lines, unless it    *)
(* was complained.                                                         *)
(*                                                                         *)
(* The ranges that are open begin at or above the ones around them, and    *)
(* the ends of a range that is closed are handed on to the one around it   *)
(* (Shape).  So where the outermost range begins never changes, and where  *)
(* the section ends only grows (Grows): a byte that is covered when it is  *)
(* placed stays so.  pokealloc complains when it begins below the start,   *)
(* or the end would be above the top (Complaints).                         *)
(***************************************************************************)

(***************************************************************************)
(* The invariant, with the address and the open ranges as parameters.      *)
(***************************************************************************)
Ranges == {"union", "dstruct", "dunion"}
\* The ends that a byte may be below
Reach(a, o) ==
  {a.end} \cup {o[i].end : i \in DOMAIN o} \cup (IF a.moved THEN {} ELSE {a.address})
Under(x, a, o) == \E y \in Reach(a, o) : x < y
Grows(a, o, b, q) == \A y \in Reach(a, o) : \E z \in Reach(b, q) : y <= z

\* Where the outermost range begins
First(a, o) == IF o = <<>> THEN a.start ELSE o[1].start

Plain(o, n) == \A k \in DOMAIN o : k < n => o[k].what \notin Ranges
Ordered(a, o) ==
  /\ \A i \in DOMAIN o : o[i].start <= a.start
  /\ \A i, j \in DOMAIN o : i <= j => o[i].start <= o[j].start
SameStart(a, o) ==
  /\ \A i \in DOMAIN o : Plain(o, i) => o[i].start = o[1].start
  /\ Plain(o, Len(o) + 1) => a.start = First(a, o)
Handed(a, o) ==
  \A i \in DOMAIN o : o[i].what \notin Ranges =>
    o[i].end <= IF i = Len(o) THEN a.end ELSE o[i + 1].end
Bounded(a, o) == a.end <= Size /\ \A i \in DOMAIN o : o[i].end <= Size
Shape(a, o) ==
  /\ ~a.moved => a.start <= a.address
  /\ Ordered(a, o) /\ SameStart(a, o) /\ Handed(a, o) /\ Bounded(a, o)

\* Nothing was complained, and no range begins below the one around it.
Good(e, h) == e \cap {"section", "wrap"} = {} /\ ~h.below
Inside(x, a, o) == First(a, o) <= x /\ Under(x, a, o)
\* The bytes that have a place, and those that alloc_mem will place
AllInside ==
  /\ \A p \in 1 .. memp : Inside(Log[p], at, open)
  /\ Pos + todo <= Size
  /\ \A x \in Pos .. Pos + todo - 1 : Inside(x, at, open)
CoverInv == Good(errors, hist) => Shape(at, open) /\ AllInside

(***************************************************************************)
(* Numbers.                                                                *)
(***************************************************************************)
\* The address and the frames hold numbers.
LEMMA Numbers ==
  ASSUME NEW a \in Position
  PROVE  a.address \in Nat /\ a.address < Size /\ a.start \in Nat /\ a.end \in Nat /\ a.moved \in BOOLEAN
BY SizeNat DEF Position, Address

LEMMA FrameNumbers ==
  ASSUME NEW o \in Seq(Frame), NEW i \in DOMAIN o
  PROVE  o[i].start \in Nat /\ o[i].end \in Nat /\ i \in Nat \ {0} /\ i <= Len(o) /\ o[i] \in Frame
<1>1. o[i] \in Frame /\ i \in 1 .. Len(o) /\ Len(o) \in Nat
  OBVIOUS
<1>. QED BY <1>1, SizeNat DEF Frame, Address

\* What is in reach is a number.
LEMMA ReachNat ==
  ASSUME NEW a \in Position, NEW o \in Seq(Frame), NEW y \in Reach(a, o)
  PROVE  y \in Nat
BY Numbers, FrameNumbers DEF Reach

\* A set of numbers that is not empty has a smallest one.
LEMMA Smallest ==
  ASSUME NEW S \in SUBSET Nat, S # {}
  PROVE  Min(S) \in S /\ \A y \in S : Min(S) <= y
<1>. DEFINE R == OpToRel(<, Nat)
<1>1. IsWellFoundedOn(R, Nat)
  BY NatLessThanWellFounded
<1>2. PICK x \in S : \A y \in S : ~(<<y, x>> \in R)
  BY <1>1, WFMin
<1>4. ASSUME NEW y \in Nat, NEW z \in Nat, y < z PROVE <<y, z>> \in R
  BY <1>4 DEF OpToRel
<1>. HIDE DEF R
<1>3. ASSUME NEW y \in S PROVE x <= y
  <2>1. x \in Nat /\ y \in Nat /\ ~(y < x)
    BY <1>2, <1>4
  <2>. QED BY <2>1
<1>. QED BY <1>3 DEF Min

\* A set of numbers that are not above n has a largest one.
LEMMA Largest ==
  ASSUME NEW n \in Nat, NEW S \in SUBSET (0 .. n), S # {}
  PROVE  Max(S) \in S /\ \A y \in S : y <= Max(S)
<1>. DEFINE T == {n - y : y \in S}
<1>1. T \in SUBSET Nat /\ T # {}
  <2>1. \A y \in S : n - y \in Nat
    OBVIOUS
  <2>2. T \subseteq Nat
    BY <2>1
  <2>3. PICK y \in S : TRUE
    OBVIOUS
  <2>4. n - y \in T
    OBVIOUS
  <2>. QED BY <2>2, <2>4
<1>2. PICK t \in T : \A z \in T : t <= z
  BY <1>1, Smallest
<1>3. PICK x \in S : t = n - x
  BY <1>2
<1>4. \A y \in S : y <= x
  <2>. SUFFICES ASSUME NEW y \in S PROVE y <= x
    OBVIOUS
  <2>1. n - y \in T
    OBVIOUS
  <2>2. t <= n - y
    BY <1>2, <2>1
  <2>. QED BY <1>3, <2>2
<1>5. \A y \in S : x >= y
  BY <1>4
<1>6. Max(S) \in S /\ \A y \in S : Max(S) >= y
  BY <1>5 DEF Max
<1>. QED BY <1>6

(***************************************************************************)
(* What the lines do to the range they are in.                             *)
(***************************************************************************)
\* The address moves, in the same range: the end grows with it.
LEMMA SameRange ==
  ASSUME NEW a \in Position, NEW b \in Position, NEW o \in Seq(Frame), Shape(a, o),
         b.start = a.start, a.end <= b.end, b.end <= Size, ~b.moved => b.start <= b.address,
         ~a.moved => a.address <= b.end \/ (~b.moved /\ a.address <= b.address)
  PROVE  Shape(b, o) /\ Grows(a, o, b, o) /\ First(b, o) = First(a, o)
<1>1. /\ a.address \in Nat /\ a.end \in Nat /\ a.start \in Nat
      /\ b.address \in Nat /\ b.end \in Nat /\ b.start \in Nat
  BY Numbers
<1>2. First(b, o) = First(a, o)
  BY DEF First
<1>3. Ordered(b, o) /\ SameStart(b, o) /\ Bounded(b, o)
  BY <1>2 DEF Shape, Ordered, SameStart, Bounded
<1>4. Handed(b, o)
  <2>. SUFFICES ASSUME NEW i \in DOMAIN o, o[i].what \notin Ranges
                PROVE  o[i].end <= IF i = Len(o) THEN b.end ELSE o[i + 1].end
    BY DEF Handed
  <2>1. o[i].end <= IF i = Len(o) THEN a.end ELSE o[i + 1].end
    BY DEF Shape, Handed
  <2>2. o[i].end \in Nat
    BY FrameNumbers
  <2>. QED BY <1>1, <2>1, <2>2
<1>5. Grows(a, o, b, o)
  <2>. SUFFICES ASSUME NEW y \in Reach(a, o) PROVE \E z \in Reach(b, o) : y <= z
    BY DEF Grows
  <2>1. CASE y = a.end
    BY <2>1 DEF Reach
  <2>2. CASE ~a.moved /\ y = a.address
    BY <2>2 DEF Reach
  <2>3. CASE y \in {o[i].end : i \in DOMAIN o}
    <3>1. y \in Reach(b, o) /\ y \in Nat
      BY <2>3, ReachNat DEF Reach
    <3>. QED BY <3>1
  <2>. QED BY <2>1, <2>2, <2>3 DEF Reach
<1>. QED BY <1>2, <1>3, <1>4, <1>5 DEF Shape

\* pokealloc and memskip, when nothing is complained
LEMMA AdvancedRange ==
  ASSUME Size < Word, NEW a \in Position, NEW o \in Seq(Frame), Shape(a, o), NEW db \in Nat \ {0},
         Complaints(a, db) \cap {"section", "wrap"} = {}
  PROVE  /\ Shape(Advanced(a, db), o) /\ Grows(a, o, Advanced(a, db), o)
         /\ First(Advanced(a, db), o) = First(a, o)
         /\ a.address + db <= Size /\ a.start <= a.address
         /\ \A x \in Nat : x < a.address + db => Under(x, Advanced(a, db), o)
<1>. DEFINE last == db = Size - a.address
<1>1. a.address \in Nat /\ a.address < Size /\ a.start \in Nat /\ a.end \in Nat /\ a.moved \in BOOLEAN
  BY Numbers
<1>2. Size \in Nat \ {0} /\ Size = AllMem2 + 1 /\ AllMem2 \in Nat
  BY SizeNat DEF Size
<1>3. a.address + db <= Size
  <2>1. db <= Size - a.address
    BY DEF Complaints
  <2>. QED BY <1>1, <1>2, <2>1
<1>4. a.start <= a.address
  <2>1. CASE a.moved
    <3>1. ~(a.address < a.start)
      BY <2>1 DEF Complaints
    <3>. QED BY <1>1, <3>1
  <2>2. CASE ~a.moved
    BY <2>2 DEF Shape
  <2>. QED BY <1>1, <2>1, <2>2
<1>. PICK b \in Position : b = Advanced(a, db)
  BY AdvancedType
<1>5. b.address = (a.address + db) % Size /\ b.moved = last
  BY AdvancedType
<1>6. b.start = a.start /\ b.end = IF db >= Size - a.address /\ a.end <= AllMem2 THEN Size % Word ELSE a.end
  BY DEF Advanced, Counted, Position
<1>7. Size % Word = Size
  <2>1. Word \in Nat \ {0} /\ Size \in 0 .. Word - 1 /\ 0 * Word + Size = Size
    BY <1>2, SizeNat
  <2>2. (0 * Word + Size) % Word = Size
    BY <2>1, Remainder
  <2>. QED BY <2>1, <2>2
<1>8. a.end <= Size
  BY DEF Shape, Bounded
<1>9. CASE last
  <2>1. b.moved /\ b.end = Size
    <3>1. db >= Size - a.address
      BY <1>1, <1>2, <1>9
    <3>2. b.end = IF a.end <= AllMem2 THEN Size ELSE a.end
      BY <1>6, <1>7, <3>1
    <3>3. b.end = Size
      BY <1>1, <1>2, <1>8, <3>2
    <3>4. b.moved
      BY ONLY <1>5, <1>9
    <3>. QED BY <3>3, <3>4
  <2>2. Shape(b, o) /\ Grows(a, o, b, o) /\ First(b, o) = First(a, o)
    BY <1>1, <1>2, <1>6, <1>8, <2>1, SameRange
  <2>3. \A x \in Nat : x < a.address + db => Under(x, b, o)
    BY <1>1, <1>2, <1>3, <2>1 DEF Under, Reach
  <2>. QED BY <1>3, <1>4, <2>2, <2>3
<1>10. CASE ~last
  <2>1. a.address + db \in 0 .. AllMem2
    BY <1>1, <1>2, <1>3, <1>10
  <2>2. b.address = a.address + db /\ ~b.moved
    BY <1>5, <1>10, <2>1, Small
  <2>3. b.end = a.end
    BY <1>1, <1>2, <1>3, <1>6, <1>10
  <2>4. b.start <= b.address /\ a.address <= b.address
    BY <1>1, <1>4, <1>6, <2>2
  <2>5. a.end <= b.end
    BY <1>1, <2>3
  <2>6. Shape(b, o) /\ Grows(a, o, b, o) /\ First(b, o) = First(a, o)
    BY <1>6, <1>8, <2>2, <2>3, <2>4, <2>5, SameRange
  <2>7. \A x \in Nat : x < a.address + db => Under(x, b, o)
    BY <2>2 DEF Under, Reach
  <2>. QED BY <1>3, <1>4, <2>6, <2>7
<1>. QED BY <1>9, <1>10

\* A block is opened: a range of its own begins where the address is, the others
\* go on in the range around them.
LEMMA OpenedRange ==
  ASSUME NEW a \in Position, NEW b \in Position, NEW o \in Seq(Frame), NEW f \in Frame, Shape(a, o),
         f.start = a.start, f.end = a.end, b.moved = a.moved, b.address = a.address,
         IF f.what \in Ranges
         THEN b.start = a.address /\ b.end = a.address /\ ~(a.moved /\ a.address < a.start)
         ELSE b.start = a.start /\ b.end = a.end
  PROVE  Shape(b, Append(o, f)) /\ Grows(a, o, b, Append(o, f)) /\ First(b, Append(o, f)) = First(a, o)
<1>0. Append(o, f) \in Seq(Frame)
  OBVIOUS
<1>. PICK q \in Seq(Frame) : q = Append(o, f)
  BY <1>0
<1>. PICK n \in Nat : n = Len(o)
  OBVIOUS
<1>1. /\ a.address \in Nat /\ a.end \in Nat /\ a.start \in Nat /\ a.address < Size
      /\ b.address \in Nat /\ b.end \in Nat /\ b.start \in Nat /\ a.moved \in BOOLEAN
  BY Numbers
<1>2. Len(q) = n + 1 /\ DOMAIN q = 1 .. n + 1 /\ DOMAIN o = 1 .. n /\ q[n + 1] = f
  OBVIOUS
<1>3. \A i \in DOMAIN o : q[i] = o[i]
  OBVIOUS
<1>4. \A i \in DOMAIN q : i \in DOMAIN o \/ i = n + 1
  BY <1>2
<1>5. \A i \in DOMAIN o : i \in DOMAIN q /\ o[i].start \in Nat /\ o[i].end \in Nat /\ i # n + 1
  BY <1>2, FrameNumbers
<1>6. n + 1 \in DOMAIN q /\ q # <<>>
  BY <1>2
<1>7. a.start <= b.start /\ (~b.moved => b.start <= b.address)
  <2>1. ~a.moved => a.start <= a.address
    BY DEF Shape
  <2>. QED BY <1>1, <2>1
<1>8. First(b, q) = First(a, o)
  <2>1. CASE o = <<>>
    <3>1. n = 0
      BY <2>1
    <3>. QED BY <1>2, <1>6, <2>1, <3>1 DEF First
  <2>2. CASE o # <<>>
    <3>1. 1 \in DOMAIN o
      BY <1>2, <2>2
    <3>. QED BY <1>3, <1>6, <2>2, <3>1 DEF First
  <2>. QED BY <2>1, <2>2
<1>9. Ordered(b, q)
  <2>1. /\ \A i \in DOMAIN o : o[i].start <= a.start
        /\ \A i, j \in DOMAIN o : i <= j => o[i].start <= o[j].start
    BY DEF Shape, Ordered
  <2>2. ASSUME NEW i \in DOMAIN q PROVE q[i].start <= b.start
    <3>1. CASE i \in DOMAIN o
      <4>1. q[i] = o[i] /\ o[i].start <= a.start /\ o[i].start \in Nat
        BY <1>3, <1>5, <2>1, <3>1
      <4>. QED BY <1>1, <1>7, <4>1
    <3>2. CASE i = n + 1
      BY <1>2, <1>7, <3>2
    <3>. QED BY <1>4, <3>1, <3>2
  <2>3. ASSUME NEW i \in DOMAIN q, NEW j \in DOMAIN q, i <= j PROVE q[i].start <= q[j].start
    <3>1. CASE i \in DOMAIN o /\ j \in DOMAIN o
      BY <1>3, <2>1, <2>3, <3>1
    <3>2. CASE i \in DOMAIN o /\ j = n + 1
      BY <1>2, <1>3, <2>1, <3>2
    <3>3. CASE i = n + 1
      <4>1. j = n + 1
        BY <1>2, <2>3, <3>3
      <4>. QED BY <1>1, <1>2, <3>3, <4>1
    <3>. QED BY <1>4, <3>1, <3>2, <3>3
  <2>. QED BY <2>2, <2>3 DEF Ordered
<1>10. SameStart(b, q)
  <2>1. /\ \A i \in DOMAIN o : Plain(o, i) => o[i].start = o[1].start
        /\ Plain(o, n + 1) => a.start = First(a, o)
    BY DEF Shape, SameStart
  <2>2. \A m \in 1 .. n + 1 : Plain(q, m) => Plain(o, m)
    BY <1>3, <1>5 DEF Plain
  <2>3. ASSUME NEW i \in DOMAIN q, Plain(q, i) PROVE q[i].start = q[1].start
    <3>1. CASE i \in DOMAIN o
      <4>1. 1 \in DOMAIN o
        BY <1>2, <3>1
      <4>. QED BY <1>2, <1>3, <2>1, <2>2, <2>3, <3>1, <4>1
    <3>2. CASE i = n + 1
      <4>1. a.start = First(a, o)
        BY <1>2, <2>1, <2>2, <2>3, <3>2
      <4>2. q[1].start = First(b, q)
        BY <1>6 DEF First
      <4>. QED BY <1>2, <1>8, <3>2, <4>1, <4>2
    <3>. QED BY <1>4, <3>1, <3>2
  <2>4. ASSUME Plain(q, Len(q) + 1) PROVE b.start = First(b, q)
    <3>1. f.what \notin Ranges
      <4>1. n + 1 < Len(q) + 1
        BY <1>2
      <4>. QED BY <1>2, <1>6, <2>4, <4>1 DEF Plain
    <3>2. Plain(o, n + 1)
      <4>1. \A k \in DOMAIN o : k < Len(q) + 1
        BY <1>2
      <4>. QED BY <1>3, <1>5, <2>4, <4>1 DEF Plain
    <3>. QED BY <1>8, <2>1, <3>1, <3>2
  <2>. QED BY <2>3, <2>4 DEF SameStart
<1>11. Handed(b, q)
  <2>. SUFFICES ASSUME NEW i \in DOMAIN q, q[i].what \notin Ranges
                PROVE  q[i].end <= IF i = Len(q) THEN b.end ELSE q[i + 1].end
    BY DEF Handed
  <2>1. CASE i = n + 1
    BY <1>1, <1>2, <2>1
  <2>2. CASE i \in DOMAIN o
    <3>1. q[i] = o[i] /\ i # Len(q)
      BY <1>2, <1>3, <2>2
    <3>2. o[i].end <= IF i = n THEN a.end ELSE o[i + 1].end
      BY <2>2, <3>1 DEF Shape, Handed
    <3>3. CASE i = n
      BY <1>2, <3>1, <3>2, <3>3
    <3>4. CASE i # n
      <4>1. i + 1 \in DOMAIN o
        BY <1>2, <2>2, <3>4
      <4>. QED BY <1>3, <3>1, <3>2, <3>4, <4>1
    <3>. QED BY <3>3, <3>4
  <2>. QED BY <1>4, <2>1, <2>2
<1>12. Bounded(b, q)
  <2>1. a.end <= Size /\ \A i \in DOMAIN o : o[i].end <= Size
    BY DEF Shape, Bounded
  <2>2. b.end <= Size
    BY <1>1, <2>1, SizeNat
  <2>3. ASSUME NEW i \in DOMAIN q PROVE q[i].end <= Size
    BY <1>2, <1>3, <1>4, <2>1
  <2>. QED BY <2>2, <2>3 DEF Bounded
<1>13. Grows(a, o, b, q)
  <2>. SUFFICES ASSUME NEW y \in Reach(a, o) PROVE y \in Reach(b, q)
    BY ReachNat DEF Grows
  <2>1. CASE y = a.end
    <3>1. q[n + 1].end = y
      BY <1>2, <2>1
    <3>. QED BY <1>6, <3>1 DEF Reach
  <2>2. CASE ~a.moved /\ y = a.address
    BY <2>2 DEF Reach
  <2>3. CASE y \in {o[i].end : i \in DOMAIN o}
    <3>1. PICK i \in DOMAIN o : y = o[i].end
      BY <2>3
    <3>2. i \in DOMAIN q /\ y = q[i].end
      BY <1>3, <1>5, <3>1
    <3>. QED BY <3>2 DEF Reach
  <2>. QED BY <2>1, <2>2, <2>3 DEF Reach
<1>. QED BY <1>7, <1>8, <1>9, <1>10, <1>11, <1>12, <1>13 DEF Shape

\* A block is closed: a range of its own hands its end on to the one around it.
LEMMA ClosedRange ==
  ASSUME NEW a \in Position, NEW b \in Position, NEW o \in Seq(Frame), o # <<>>, Shape(a, o),
         NEW f, f = o[Len(o)], b.moved = a.moved, b.address = a.address,
         IF f.what \in Ranges
         THEN b.start = f.start /\ f.end <= b.end /\ a.end <= b.end /\ b.end <= Size
         ELSE b.start = a.start /\ b.end = a.end
  PROVE  LET q == SubSeq(o, 1, Len(o) - 1)
         IN Shape(b, q) /\ Grows(a, o, b, q) /\ First(b, q) = First(a, o)
<1>. PICK n \in Nat : n = Len(o) - 1
  BY FrameGone
<1>0. SubSeq(o, 1, Len(o) - 1) \in Seq(Frame) /\ Len(SubSeq(o, 1, Len(o) - 1)) = n
  <2>1. \A i \in 1 .. Len(o) - 1 : o[i] \in Frame
    OBVIOUS
  <2>. QED BY <2>1
<1>. PICK q \in Seq(Frame) : q = SubSeq(o, 1, Len(o) - 1) /\ Len(q) = n
  BY <1>0
<1>1. /\ a.address \in Nat /\ a.end \in Nat /\ a.start \in Nat /\ a.address < Size
      /\ b.address \in Nat /\ b.end \in Nat /\ b.start \in Nat /\ a.moved \in BOOLEAN
  BY Numbers
<1>2. Len(o) = n + 1 /\ DOMAIN q = 1 .. n /\ DOMAIN o = 1 .. n + 1 /\ o[n + 1] = f
  OBVIOUS
<1>3. \A i \in DOMAIN q : q[i] = o[i]
  BY <1>2
<1>4. \A i \in DOMAIN o : i \in DOMAIN q \/ i = n + 1
  BY <1>2
<1>5. /\ \A i \in DOMAIN q : i \in DOMAIN o /\ i # n + 1 /\ o[i].start \in Nat /\ o[i].end \in Nat
      /\ f.start \in Nat /\ f.end \in Nat /\ n + 1 \in DOMAIN o
  <2>1. n + 1 \in DOMAIN o /\ \A i \in DOMAIN q : i \in DOMAIN o /\ i # n + 1
    BY <1>2
  <2>. QED BY <1>2, <2>1, FrameNumbers
<1>6. f.start <= a.start /\ b.start <= a.start /\ a.end <= b.end
  <2>1. o[n + 1].start <= a.start
    BY <1>5 DEF Shape, Ordered
  <2>. QED BY <1>1, <1>2, <2>1
<1>7. ~b.moved => b.start <= b.address
  <2>1. ~a.moved => a.start <= a.address
    BY DEF Shape
  <2>. QED BY <1>1, <1>6, <2>1
<1>8. First(b, q) = First(a, o)
  <2>1. CASE q = <<>>
    <3>0. n = 0
      BY <2>1
    <3>1. First(a, o) = f.start /\ First(b, q) = b.start
      BY <1>2, <2>1, <3>0 DEF First
    <3>2. CASE f.what \in Ranges
      BY <3>1, <3>2
    <3>3. CASE f.what \notin Ranges
      <4>1. Plain(o, Len(o) + 1)
        BY <1>2, <3>0, <3>3 DEF Plain
      <4>2. a.start = First(a, o)
        BY <4>1 DEF Shape, SameStart
      <4>. QED BY <3>1, <3>3, <4>2
    <3>. QED BY <3>2, <3>3
  <2>2. CASE q # <<>>
    <3>1. 1 \in DOMAIN q
      BY <1>2, <2>2
    <3>. QED BY <1>3, <2>2, <3>1 DEF First
  <2>. QED BY <2>1, <2>2
<1>9. Ordered(b, q)
  <2>1. /\ \A i \in DOMAIN o : o[i].start <= a.start
        /\ \A i, j \in DOMAIN o : i <= j => o[i].start <= o[j].start
    BY DEF Shape, Ordered
  <2>2. ASSUME NEW i \in DOMAIN q PROVE q[i].start <= b.start
    <3>1. CASE f.what \in Ranges
      <4>1. i <= n + 1
        BY <1>2
      <4>2. o[i].start <= o[n + 1].start
        BY <1>5, <2>1, <4>1
      <4>. QED BY <1>2, <1>3, <3>1, <4>2
    <3>2. CASE f.what \notin Ranges
      BY <1>3, <1>5, <2>1, <3>2
    <3>. QED BY <3>1, <3>2
  <2>3. \A i, j \in DOMAIN q : i <= j => q[i].start <= q[j].start
    BY <1>3, <1>5, <2>1
  <2>. QED BY <2>2, <2>3 DEF Ordered
<1>10. SameStart(b, q)
  <2>1. /\ \A i \in DOMAIN o : Plain(o, i) => o[i].start = o[1].start
        /\ Plain(o, n + 2) => a.start = First(a, o)
    <3>1. Len(o) + 1 = n + 2
      BY <1>2
    <3>. QED BY <3>1 DEF Shape, SameStart
  <2>2. \A m \in 1 .. n + 1 : Plain(q, m) => Plain(o, m)
    <3>. SUFFICES ASSUME NEW m \in 1 .. n + 1, Plain(q, m) PROVE Plain(o, m)
      OBVIOUS
    <3>1. ASSUME NEW k \in DOMAIN o, k < m PROVE o[k].what \notin Ranges
      <4>1. k \in DOMAIN q
        BY <1>2, <3>1
      <4>. QED BY <1>3, <3>1, <4>1 DEF Plain
    <3>. QED BY <3>1 DEF Plain
  <2>3. ASSUME NEW i \in DOMAIN q, Plain(q, i) PROVE q[i].start = q[1].start
    <3>1. i \in 1 .. n + 1 /\ i \in DOMAIN o /\ 1 \in DOMAIN q
      BY <1>2
    <3>. QED BY <1>3, <2>1, <2>2, <2>3, <3>1
  <2>4. ASSUME Plain(q, Len(q) + 1) PROVE b.start = First(b, q)
    <3>1. Plain(o, n + 1)
      BY <2>2, <2>4
    <3>2. f.start = o[1].start /\ First(a, o) = o[1].start
      BY <1>2, <1>5, <2>1, <3>1 DEF First
    <3>3. CASE f.what \in Ranges
      BY <1>8, <3>2, <3>3
    <3>4. CASE f.what \notin Ranges
      <4>1. ASSUME NEW k \in DOMAIN o PROVE o[k].what \notin Ranges
        <5>1. CASE k = n + 1
          BY <1>2, <3>4, <5>1
        <5>2. CASE k # n + 1
          <6>1. k < n + 1
            BY <1>2, <5>2
          <6>. QED BY <3>1, <6>1 DEF Plain
        <5>. QED BY <5>1, <5>2
      <4>2. Plain(o, n + 2)
        BY <4>1 DEF Plain
      <4>. QED BY <1>8, <2>1, <3>4, <4>2
    <3>. QED BY <3>3, <3>4
  <2>. QED BY <2>3, <2>4 DEF SameStart
<1>11. Handed(b, q)
  <2>. SUFFICES ASSUME NEW i \in DOMAIN q, q[i].what \notin Ranges
                PROVE  q[i].end <= IF i = Len(q) THEN b.end ELSE q[i + 1].end
    BY DEF Handed
  <2>1. q[i] = o[i] /\ i \in DOMAIN o /\ i # Len(o) /\ o[i].end \in Nat
    BY <1>2, <1>3, <1>5
  <2>2. o[i].end <= o[i + 1].end
    BY <2>1 DEF Shape, Handed
  <2>3. CASE i = n
    <3>1. o[i].end <= f.end
      BY <1>2, <2>2, <2>3
    <3>2. f.end <= b.end
      <4>1. CASE f.what \in Ranges
        BY <4>1
      <4>2. CASE f.what \notin Ranges
        <5>1. o[n + 1].end <= a.end
          BY <1>2, <1>5, <4>2 DEF Shape, Handed
        <5>. QED BY <1>2, <4>2, <5>1
      <4>. QED BY <4>1, <4>2
    <3>. QED BY <1>1, <1>5, <2>1, <2>3, <3>1, <3>2
  <2>4. CASE i # n
    <3>1. i + 1 \in DOMAIN q
      BY <1>2, <2>4
    <3>. QED BY <1>3, <2>1, <2>2, <2>4, <3>1
  <2>. QED BY <2>3, <2>4
<1>12. Bounded(b, q)
  <2>1. a.end <= Size /\ \A i \in DOMAIN o : o[i].end <= Size
    BY DEF Shape, Bounded
  <2>. QED BY <1>3, <1>5, <2>1 DEF Bounded
<1>13. Grows(a, o, b, q)
  <2>. SUFFICES ASSUME NEW y \in Reach(a, o) PROVE \E z \in Reach(b, q) : y <= z
    BY DEF Grows
  <2>0. y \in Nat /\ b.end \in Reach(b, q)
    BY ReachNat DEF Reach
  <2>1. CASE y = a.end
    BY <1>6, <2>0, <2>1
  <2>2. CASE ~a.moved /\ y = a.address
    <3>1. y \in Reach(b, q)
      BY <2>2 DEF Reach
    <3>. QED BY <2>0, <3>1
  <2>3. ASSUME NEW i \in DOMAIN o, y = o[i].end PROVE \E z \in Reach(b, q) : y <= z
    <3>1. CASE i \in DOMAIN q
      <4>1. y = q[i].end
        BY <1>3, <2>3, <3>1
      <4>2. y \in Reach(b, q)
        BY <3>1, <4>1 DEF Reach
      <4>. QED BY <2>0, <4>2
    <3>2. CASE i = n + 1
      <4>1. y = f.end
        BY <1>2, <2>3, <3>2
      <4>2. CASE f.what \in Ranges
        BY <2>0, <4>1, <4>2
      <4>3. CASE f.what \notin Ranges
        <5>1. o[n + 1].end <= a.end
          BY <1>2, <1>5, <4>3 DEF Shape, Handed
        <5>. QED BY <1>2, <2>0, <4>1, <4>3, <5>1
      <4>. QED BY <4>2, <4>3
    <3>. QED BY <1>4, <3>1, <3>2
  <2>. QED BY <2>1, <2>2, <2>3 DEF Reach
<1>. QED BY <1>7, <1>8, <1>9, <1>10, <1>11, <1>12, <1>13 DEF Shape

(***************************************************************************)
(* What a step does to the bytes.                                          *)
(***************************************************************************)
\* What is inside stays inside.
LEMMA StaysInside ==
  ASSUME NEW a \in Position, NEW o \in Seq(Frame), NEW b \in Position, NEW q \in Seq(Frame),
         Grows(a, o, b, q), First(b, q) = First(a, o), NEW x \in Int, Inside(x, a, o)
  PROVE  Inside(x, b, q)
<1>1. PICK y \in Reach(a, o) : x < y
  BY DEF Inside, Under
<1>2. PICK z \in Reach(b, q) : y <= z
  BY DEF Grows
<1>3. y \in Nat /\ z \in Nat
  BY ReachNat
<1>4. x < z
  BY <1>1, <1>2, <1>3
<1>. QED BY <1>4 DEF Inside, Under

\* A section that grows twice grows.
LEMMA GrowsOn ==
  ASSUME NEW a \in Position, NEW o \in Seq(Frame), NEW b \in Position, NEW q \in Seq(Frame),
         NEW c \in Position, NEW r \in Seq(Frame), Grows(a, o, b, q), Grows(b, q, c, r)
  PROVE  Grows(a, o, c, r)
<1>. SUFFICES ASSUME NEW y \in Reach(a, o) PROVE \E z \in Reach(c, r) : y <= z
  BY DEF Grows
<1>1. PICK x \in Reach(b, q) : y <= x
  BY DEF Grows
<1>2. PICK z \in Reach(c, r) : x <= z
  BY DEF Grows
<1>3. x \in Nat /\ y \in Nat /\ z \in Nat
  BY ReachNat
<1>4. y <= z
  BY <1>1, <1>2, <1>3
<1>. QED BY <1>4

\* The outermost range begins no higher than the innermost.
LEMMA FirstLow ==
  ASSUME NEW a \in Position, NEW o \in Seq(Frame), Shape(a, o)
  PROVE  First(a, o) \in Nat /\ First(a, o) <= a.start
<1>1. a.start \in Nat
  BY Numbers
<1>2. CASE o = <<>>
  BY <1>1, <1>2 DEF First
<1>3. CASE o # <<>>
  <2>1. 1 \in DOMAIN o
    BY <1>3
  <2>2. o[1].start \in Nat /\ o[1].start <= a.start
    BY <2>1, FrameNumbers DEF Shape, Ordered
  <2>. QED BY <1>3, <2>2 DEF First
<1>. QED BY <1>2, <1>3

\* The addresses of the bytes are numbers, and the position is an address.
LEMMA LogInt == Inv => \A p \in 1 .. memp : Log[p] \in Int
<1>. SUFFICES ASSUME Inv, NEW p \in 1 .. memp PROVE Log[p] \in Int
  OBVIOUS
<1>1. lastaddr \in Nat /\ Partition(data, lastp) /\ memp \in Nat
  BY SizeNat DEF Inv, TypeOK, Blocks, Address
<1>2. p - 1 \in Nat
  BY <1>1
<1>3. AddrIn(data, lastp, lastaddr, p - 1) \in Int
  BY <1>1, <1>2, AddrInt
<1>. QED BY <1>3 DEF Log, LogOf

LEMMA PosInt == Inv => Pos \in 0 .. Size - 1 /\ todo \in Nat
BY PositionType, SizeNat DEF Inv, Blocks, TypeOK

\* A step that places no byte
LEMMA KeepsInside ==
  ASSUME Inv, Inv', CoverInv, Kept, todo' = 0,
         Good(errors', hist') => Good(errors, hist) /\ Shape(at', open')
                                 /\ Grows(at, open, at', open') /\ First(at', open') = First(at, open)
  PROVE  CoverInv'
<1>. SUFFICES ASSUME Good(errors', hist') PROVE Shape(at', open') /\ AllInside'
  BY DEF CoverInv
<1>1. /\ at \in Position /\ open \in Seq(Frame) /\ at' \in Position /\ open' \in Seq(Frame)
      /\ memp' = memp /\ Log' = Log
  BY DEF Inv, TypeOK, Kept
<1>2. \A p \in 1 .. memp : Inside(Log[p], at, open) /\ Log[p] \in Int
  BY LogInt DEF CoverInv, AllInside
<1>3. \A p \in 1 .. memp : Inside(Log[p], at', open')
  BY <1>1, <1>2, StaysInside
<1>4. Pos' \in 0 .. Size - 1
  <2>1. (at.address - todo)' \in Int
    BY DEF Inv, TypeOK, Position, Address
  <2>. QED BY <2>1, Division, SizeNat DEF Pos
<1>5. Pos' + todo' <= Size /\ Pos' .. Pos' + todo' - 1 = {}
  <2>1. ASSUME NEW z \in 0 .. Size - 1 PROVE z + 0 <= Size /\ z .. z + 0 - 1 = {}
    BY SizeNat
  <2>. HIDE DEF Pos
  <2>. QED BY <1>4, <2>1
<1>6. \A p \in 1 .. memp' : Inside(Log'[p], at', open')
  BY <1>1, <1>3
<1>. QED BY <1>5, <1>6 DEF AllInside

\* What is complained stays so: when nothing was complained afterwards, nothing was.
LEMMA GoodBefore ==
  ASSUME NEW e, NEW f, NEW h, NEW g, Good(e \cup f, g), h.below => g.below
  PROVE  Good(e, h) /\ f \cap {"section", "wrap"} = {}
BY DEF Good

\* The history keeps what is noted of a range below its start.
LEMMA BelowKept ==
  ASSUME NEW h \in History, NEW a, NEW db
  PROVE  Moved(h).below = h.below /\ Filled(h, a, db).below = h.below
BY DEF Moved, Filled, History

\* pokealloc: the bytes that will be placed are in the section.
LEMMA PokeInside ==
  ASSUME Size < Word, Inv, CoverInv, NEW db \in 1 .. MaxData, Poke(db)
  PROVE  CoverInv'
<1>. SUFFICES ASSUME Good(errors', hist') PROVE Shape(at', open') /\ AllInside'
  BY DEF CoverInv
<1>0. Inv' /\ Kept
  BY PokeStep
<1>1. /\ todo = 0 /\ todo' = db /\ at' = Advanced(at, db) /\ errors' = errors \cup Complaints(at, db)
      /\ hist' = Filled(hist, at, db) /\ open' = open /\ UNCHANGED blocks
  BY DEF Poke, Piece, GoOn
<1>2. /\ at \in Position /\ open \in Seq(Frame) /\ at' \in Position /\ hist \in History
      /\ memp' = memp /\ Log' = Log /\ db \in Nat \ {0} /\ at.address \in 0 .. AllMem2
  BY <1>0, BoundAssumption DEF Inv, TypeOK, Kept, Position, Address
<1>3. Good(errors, hist) /\ Complaints(at, db) \cap {"section", "wrap"} = {}
  BY <1>1, <1>2, GoodBefore, BelowKept
<1>4. Shape(at, open) /\ AllInside
  BY <1>3 DEF CoverInv
<1>5. /\ Shape(at', open) /\ Grows(at, open, at', open) /\ First(at', open) = First(at, open)
      /\ at.address + db <= Size /\ at.start <= at.address
      /\ \A x \in Nat : x < at.address + db => Under(x, at', open)
  BY <1>1, <1>2, <1>3, <1>4, AdvancedRange
<1>6. Pos' = at.address
  <2>1. (((at.address + db) % Size) - db) % Size = at.address
    BY <1>2, Behind
  <2>2. (at.address - todo)' = ((at.address + db) % Size) - db
    BY <1>1, <1>2, AdvancedType
  <2>. QED BY <2>1, <2>2 DEF Pos
<1>7. \A p \in 1 .. memp' : Inside(Log'[p], at', open')
  <2>1. \A p \in 1 .. memp : Inside(Log[p], at, open) /\ Log[p] \in Int
    BY <1>4, LogInt DEF AllInside
  <2>2. \A p \in 1 .. memp : Inside(Log[p], at', open)
    BY <1>2, <1>5, <2>1, StaysInside
  <2>. QED BY <1>1, <1>2, <2>2
<1>8. ASSUME NEW x \in Pos' .. Pos' + todo' - 1 PROVE Inside(x, at', open')
  <2>1. x \in Nat /\ at.address <= x /\ x < at.address + db
    <3>1. x \in at.address .. at.address + db - 1
      BY <1>1, <1>6
    <3>. QED BY <1>2, <3>1, SizeNat
  <2>2. Under(x, at', open)
    BY <1>5, <2>1
  <2>3. First(at, open) \in Nat /\ First(at, open) <= at.start /\ at.start \in Nat /\ at.address \in Nat
    BY <1>2, <1>4, FirstLow, Numbers
  <2>4. First(at', open) <= x
    BY <1>5, <2>1, <2>3
  <2>. QED BY <1>1, <2>2, <2>4 DEF Inside
<1>9. Pos' + todo' <= Size
  BY <1>1, <1>5, <1>6
<1>. QED BY <1>1, <1>5, <1>7, <1>8, <1>9 DEF AllInside

\* The elements of a sequence that is put together from two
LEMMA Halves ==
  ASSUME NEW m \in Nat, NEW n \in Nat, NEW g \in [1 .. m -> Int], NEW h \in [1 .. n -> Int]
  PROVE  \A i \in 1 .. m + n : (g \o h)[i] = IF i <= m THEN g[i] ELSE h[i - m]
<1>1. g \in Seq(Int) /\ h \in Seq(Int) /\ Len(g) = m /\ Len(h) = n
  OBVIOUS
<1>2. \A i \in 1 .. Len(g) + Len(h) : (g \o h)[i] = IF i <= Len(g) THEN g[i] ELSE h[i - Len(g)]
  BY ONLY <1>1, ConcatProperties, Zenon
<1>. QED BY ONLY <1>1, <1>2, Zenon

\* alloc_mem: what it places was in the section before.
LEMMA AllocInside ==
  ASSUME Inv, Inv', CoverInv, NEW n \in 1 .. Size, Places(n), n <= todo, memp' = memp + n, todo' = todo - n,
         n < todo => Pos + n = Size,
         at' = at, open' = open, errors' = errors, hist' = hist
  PROVE  CoverInv'
<1>. SUFFICES ASSUME Good(errors, hist) PROVE Shape(at, open) /\ AllInside'
  BY DEF CoverInv
<1>1. Shape(at, open) /\ AllInside
  BY DEF CoverInv
<1>2. /\ at \in Position /\ open \in Seq(Frame) /\ memp \in Nat /\ todo \in Nat /\ n \in Nat
      /\ Pos \in 0 .. AllMem2
  BY PosInt, SizeNat DEF Inv, TypeOK
<1>3. Pos + todo <= Size /\ \A x \in Pos .. Pos + todo - 1 : Inside(x, at, open)
  BY <1>1 DEF AllInside
<1>4. n = todo /\ todo' = 0
  <2>1. Size \in Nat
    BY SizeNat
  <2>. HIDE DEF Pos
  <2>. QED BY <1>2, <1>3, <2>1
<1>5. Log' = Log \o [k \in 1 .. n |-> (Pos + k - 1) % Size]
  BY DEF Places
<1>6. ASSUME NEW p \in 1 .. memp' PROVE Inside(Log'[p], at, open)
  <2>. DEFINE more == [k \in 1 .. n |-> (Pos + k - 1) % Size]
  <2>0. Log \in [1 .. memp -> Int] /\ more \in [1 .. n -> Int]
    <3>1. \A k \in 1 .. n : (Pos + k - 1) % Size \in Int
      <4>. SUFFICES ASSUME NEW k \in 1 .. n PROVE (Pos + k - 1) % Size \in Int
        OBVIOUS
      <4>1. Pos + k - 1 \in Int
        BY <1>2, SizeNat
      <4>. QED BY <4>1, Division, SizeNat
    <3>2. \A q \in 1 .. memp : Log[q] \in Int
      BY LogInt
    <3>. QED BY <3>1, <3>2 DEF Log, LogOf
  <2>2. \A i \in 1 .. memp + n : (Log \o more)[i] = IF i <= memp THEN Log[i] ELSE more[i - memp]
    BY ONLY <1>2, <2>0, Halves, Zenon
  <2>3. Log' = Log \o more
    BY <1>5
  <2>4. p \in 1 .. memp + n
    OBVIOUS
  <2>5. CASE p <= memp
    <3>1. p \in 1 .. memp
      BY <1>2, <2>4, <2>5
    <3>2. (Log \o more)[p] = Log[p]
      BY ONLY <2>2, <2>4, <2>5
    <3>3. Log'[p] = Log[p]
      BY ONLY <2>3, <3>2
    <3>. QED BY <1>1, <3>1, <3>3 DEF AllInside
  <2>6. CASE ~(p <= memp)
    <3>. PICK k \in 1 .. n : p = memp + k
      <4>1. p - memp \in 1 .. n /\ p = memp + (p - memp)
        BY <1>2, <2>4, <2>6
      <4>. QED BY <4>1
    <3>1. Log'[p] = (Pos + k - 1) % Size
      <4>1. (Log \o more)[p] = more[p - memp]
        BY ONLY <2>2, <2>4, <2>6
      <4>2. p - memp = k
        BY <1>2
      <4>3. Log'[p] = more[k]
        BY ONLY <2>3, <4>1, <4>2
      <4>. QED BY <4>3
    <3>2. Pos + k - 1 \in 0 .. AllMem2 /\ Pos + k - 1 \in Pos .. Pos + todo - 1
      <4>1. Size = AllMem2 + 1 /\ AllMem2 \in Nat
        BY SizeNat DEF Size
      <4>. HIDE DEF Pos
      <4>. QED BY <1>2, <1>3, <1>4, <4>1
    <3>3. Log'[p] = Pos + k - 1
      BY <3>1, <3>2, Small
    <3>. QED BY <1>3, <3>2, <3>3
  <2>. QED BY <2>5, <2>6
<1>7. Pos' \in 0 .. Size - 1
  <2>1. (at.address - todo)' \in Int
    BY DEF Inv, TypeOK, Position, Address
  <2>. QED BY <2>1, Division, SizeNat DEF Pos
<1>8. Pos' + todo' <= Size /\ Pos' .. Pos' + todo' - 1 = {}
  <2>1. ASSUME NEW z \in 0 .. Size - 1 PROVE z + 0 <= Size /\ z .. z + 0 - 1 = {}
    BY SizeNat
  <2>. HIDE DEF Pos
  <2>. QED BY <1>4, <1>7, <2>1
<1>. QED BY <1>1, <1>6, <1>8 DEF AllInside

\* alloc_mem, up to the top or with all that is left
LEMMA AllocKeeps == ASSUME Inv, CoverInv, AllocWraps \/ AllocRest PROVE CoverInv'
<1>1. CASE AllocRest
  <2>1. Inv' /\ todo \in 1 .. Size /\ Places(todo)
    BY <1>1, RestStep
  <2>2. /\ memp' = memp + todo /\ todo' = todo - todo /\ todo <= todo
        /\ at' = at /\ open' = open /\ errors' = errors /\ hist' = hist
    BY <1>1, <2>1 DEF AllocRest
  <2>. QED BY <2>1, <2>2, AllocInside
<1>2. CASE AllocWraps
  <2>. DEFINE n == Room + 1
  <2>1. Inv' /\ n \in 1 .. Size /\ Places(n)
    BY <1>2, WrapsStep
  <2>2. memp \in Nat /\ todo \in Nat /\ Room = AllMem2 - Pos /\ Pos \in 0 .. AllMem2
    BY PositionType DEF Inv, TypeOK, Blocks
  <2>3. Room \in Int /\ Pos + n = Size
    BY <2>2, SizeNat DEF Size
  <2>4. memp + Room + 1 = memp + n /\ todo - (Room + 1) = todo - n
    BY <2>2, <2>3
  <2>5. n <= todo
    BY <1>2, <2>2, <2>3 DEF AllocWraps
  <2>6. /\ memp' = memp + n /\ todo' = todo - n
        /\ at' = at /\ open' = open /\ errors' = errors /\ hist' = hist
    BY <1>2, <2>4 DEF AllocWraps
  <2>. HIDE DEF n
  <2>. QED BY <2>1, <2>3, <2>5, <2>6, AllocInside
<1>. QED BY <1>1, <1>2

\* The address moves in its range, or stays.
LEMMA MovedKeeps ==
  ASSUME Inv, Inv', Kept, CoverInv, todo' = 0, open' = open, errors' = errors, hist'.below = hist.below,
         at'.start = at.start,
         \/ at'.moved = at.moved /\ at'.end = at.end /\ at'.address = at.address
         \/ at'.moved /\ at'.end = Left(at).end
  PROVE  CoverInv'
<1>1. at \in Position /\ open \in Seq(Frame) /\ at' \in Position
  BY DEF Inv, TypeOK
<1>. SUFFICES ASSUME Good(errors, hist)
              PROVE  /\ Shape(at', open) /\ Grows(at, open, at', open)
                     /\ First(at', open) = First(at, open)
  BY KeepsInside DEF Good
<1>2. Shape(at, open)
  BY DEF CoverInv
<1>3. /\ at.address \in Nat /\ at.address < Size /\ at.start \in Nat /\ at.end \in Nat /\ at.end <= Size
      /\ ~at.moved => at.start <= at.address
  BY <1>1, <1>2, Numbers DEF Shape, Bounded
<1>4. CASE at'.moved = at.moved /\ at'.end = at.end /\ at'.address = at.address
  <2>1. at.end <= at'.end /\ at'.end <= Size /\ (~at'.moved => at'.start <= at'.address)
    BY <1>3, <1>4
  <2>2. ~at.moved => at.address <= at'.end \/ (~at'.moved /\ at.address <= at'.address)
    BY <1>3, <1>4
  <2>. QED BY <1>1, <1>2, <2>1, <2>2, SameRange
<1>5. CASE at'.moved /\ at'.end = Left(at).end
  <2>0. Left(at).end = IF at.moved \/ ~(at.end < at.address) THEN at.end ELSE at.address
    BY <1>1 DEF Left, Position
  <2>1. at.end <= at'.end /\ at'.end <= Size /\ (~at.moved => at.address <= at'.end)
    BY <1>3, <1>5, <2>0, SizeNat
  <2>. QED BY <1>1, <1>2, <1>5, <2>1, SameRange
<1>. QED BY <1>4, <1>5

\* The lines of a union, *= and .offs
LEMMA MoveKeeps ==
  ASSUME Inv, CoverInv,
         LineStart \/ (\E v \in Values : Star(v)) \/ (\E i \in -1 .. 1 : Offs(i))
  PROVE  CoverInv'
<1>0. Inv' /\ Kept
  BY MoveStep
<1>1. at \in Position /\ hist \in History /\ Left(at) \in Position /\ Left(at).moved /\ Left(at).start = at.start
  <2>1. at \in Position /\ hist \in History
    BY DEF Inv, TypeOK
  <2>. QED BY <2>1, LeftType DEF Left, Position
<1>2. Moved(hist).below = hist.below
  BY <1>1, BelowKept
<1>3. CASE LineStart
  <2>. DEFINE a == IF at.l_address = at.l_union THEN at ELSE [at EXCEPT !.l_address = at.l_union]
  <2>1. todo = 0 /\ errors' = errors /\ hist'.below = hist.below
    BY <1>2, <1>3 DEF LineStart
  <2>2. /\ a.moved = at.moved /\ a.end = at.end /\ a.address = at.address /\ a.start = at.start
        /\ a \in Position
    BY <1>1 DEF Position
  <2>3. CASE at.address = at.start
    <3>1. GoTo(a)
      BY <1>3, <2>3 DEF LineStart
    <3>. HIDE DEF a
    <3>2. at' = a /\ todo' = 0 /\ open' = open
      BY <2>1, <3>1 DEF GoTo
    <3>. QED BY <1>0, <2>1, <2>2, <3>2, MovedKeeps
  <2>4. CASE at.address # at.start
    <3>. DEFINE b == [Left(a) EXCEPT !.wrapwarn = FALSE, !.address = at.start]
    <3>1. GoTo(b)
      BY <1>3, <2>4 DEF LineStart
    <3>2. Left(a) \in Position /\ Left(a).end = Left(at).end /\ Left(a).moved /\ Left(a).start = at.start
      <4>. HIDE DEF a
      <4>1. Left(a) \in Position
        BY <2>2, LeftType
      <4>. QED BY <1>1, <2>2, <4>1 DEF Left, Position
    <3>3. b.end = Left(at).end /\ b.moved /\ b.start = at.start
      BY <3>2 DEF Position
    <3>. HIDE DEF b
    <3>4. at' = b /\ todo' = 0 /\ open' = open
      BY <2>1, <3>1 DEF GoTo
    <3>. QED BY <1>0, <2>1, <3>3, <3>4, MovedKeeps
  <2>. QED BY <2>3, <2>4
<1>4. ASSUME NEW a, GoTo(a), todo = 0, errors' = errors, hist' = Moved(hist),
             a.end = Left(at).end, a.moved, a.start = at.start
      PROVE  CoverInv'
  <2>1. at' = a /\ todo' = 0 /\ open' = open
    BY <1>4 DEF GoTo
  <2>. QED BY <1>0, <1>2, <1>4, <2>1, MovedKeeps
<1>5. ASSUME NEW v \in Values, Star(v) PROVE CoverInv'
  <2>. DEFINE a == [Left(at) EXCEPT !.wrapwarn = FALSE]
  <2>. DEFINE adr == IF Flat /\ Logicals = {} THEN v ELSE (at.address + v - at.l_address) % Size
  <2>. DEFINE b == [a EXCEPT !.address = adr, !.l_address = v % (AllMem + 1)]
  <2>1. todo = 0 /\ errors' = errors /\ hist' = Moved(hist)
    BY <1>5 DEF Star, Ready
  <2>2. GoTo(IF v = -1 THEN a ELSE b)
    BY <1>5 DEF Star
  <2>3. a.end = Left(at).end /\ a.moved /\ a.start = at.start
    BY <1>1 DEF Position
  <2>4. b.end = Left(at).end /\ b.moved /\ b.start = at.start
    BY <1>1 DEF Position
  <2>. HIDE DEF a, b
  <2>. QED BY <1>4, <2>1, <2>2, <2>3, <2>4
<1>6. ASSUME NEW i \in -1 .. 1, Offs(i) PROVE CoverInv'
  <2>. DEFINE a == [Left(at) EXCEPT !.wrapwarn = FALSE, !.address = (at.l_address + i) % Size]
  <2>1. todo = 0 /\ errors' = errors /\ hist' = Moved(hist) /\ GoTo(a)
    BY <1>6 DEF Offs, Ready
  <2>2. a.end = Left(at).end /\ a.moved /\ a.start = at.start
    BY <1>1 DEF Position
  <2>. HIDE DEF a
  <2>. QED BY <1>4, <2>1, <2>2
<1>. QED BY <1>3, <1>5, <1>6

\* memskip
LEMMA AdvancedKeeps ==
  ASSUME Size < Word, Inv, Inv', Kept, CoverInv, todo' = 0, open' = open, NEW db \in Nat \ {0},
         at' = Advanced(at, db), errors' = errors \cup Complaints(at, db), hist'.below = hist.below
  PROVE  CoverInv'
<1>1. at \in Position /\ open \in Seq(Frame)
  BY DEF Inv, TypeOK
<1>2. ASSUME Good(errors', hist')
      PROVE  Good(errors, hist) /\ Complaints(at, db) \cap {"section", "wrap"} = {}
  BY <1>2, GoodBefore
<1>3. ASSUME Good(errors', hist')
      PROVE  Shape(at', open') /\ Grows(at, open, at', open') /\ First(at', open') = First(at, open)
  <2>1. Shape(at, open)
    BY <1>2, <1>3 DEF CoverInv
  <2>. QED BY <1>1, <1>2, <1>3, <2>1, AdvancedRange
<1>. QED BY <1>2, <1>3, KeepsInside

\* memskip and .dsection
LEMMA SkipKeeps ==
  ASSUME Size < Word, Inv, CoverInv,
         (\E db \in 1 .. MaxData : Skip(db)) \/ (\E n \in 0 .. MaxData : Dsection(n))
  PROVE  CoverInv'
<1>0. hist \in History
  BY DEF Inv, TypeOK
<1>1. ASSUME NEW db \in 1 .. MaxData, Skip(db) PROVE CoverInv'
  <2>1. Inv' /\ Kept
    BY <1>1, SkipStep
  <2>2. /\ todo' = 0 /\ open' = open /\ at' = Advanced(at, db)
        /\ errors' = errors \cup Complaints(at, db) /\ hist' = Filled(hist, at, db)
    BY <1>1 DEF Skip, Piece, GoOn
  <2>3. db \in Nat \ {0} /\ hist'.below = hist.below
    BY <1>0, <2>2, BelowKept, BoundAssumption
  <2>. QED BY <2>1, <2>2, <2>3, AdvancedKeeps
<1>2. ASSUME NEW n \in 0 .. MaxData, Dsection(n) PROVE CoverInv'
  <2>1. Inv' /\ Kept
    BY <1>2, DsectionStep
  <2>2. todo = 0 /\ open' = open
    BY <1>2 DEF Dsection, Ready
  <2>3. CASE n = 0
    <3>1. at' = at /\ todo' = todo /\ errors' = errors /\ hist' = hist
      BY <1>2, <2>3 DEF Dsection
    <3>. QED BY <2>1, <2>2, <3>1, MovedKeeps
  <2>4. CASE n # 0
    <3>1. /\ at' = Advanced(at, n) /\ errors' = errors \cup Complaints(at, n)
          /\ hist' = Filled(hist, at, n) /\ todo' = todo
      BY <1>2, <2>4 DEF Dsection
    <3>2. n \in Nat \ {0} /\ hist'.below = hist.below
      BY <1>0, <2>4, <3>1, BelowKept, BoundAssumption
    <3>. QED BY <2>1, <2>2, <3>1, <3>2, AdvancedKeeps
  <2>. QED BY <2>3, <2>4
<1>. QED BY <1>1, <1>2

\* A block is opened.
LEMMA OpenedKeeps ==
  ASSUME Inv, Inv', Kept, CoverInv, todo' = 0, errors' = errors, NEW f \in Frame, open' = Append(open, f),
         f.start = at.start, f.end = at.end, at'.moved = at.moved, at'.address = at.address,
         IF f.what \in Ranges
         THEN at'.start = at.address /\ at'.end = at.address /\ hist'.below = (hist.below \/ Below)
         ELSE at'.start = at.start /\ at'.end = at.end /\ hist'.below = hist.below
  PROVE  CoverInv'
<1>1. at \in Position /\ open \in Seq(Frame) /\ at' \in Position
  BY DEF Inv, TypeOK
<1>2. ASSUME Good(errors', hist')
      PROVE  Good(errors, hist) /\ (f.what \in Ranges => ~(at.moved /\ at.address < at.start))
  BY <1>2 DEF Good, Below
<1>3. ASSUME Good(errors', hist')
      PROVE  Shape(at', open') /\ Grows(at, open, at', open') /\ First(at', open') = First(at, open)
  <2>1. Shape(at, open)
    BY <1>2, <1>3 DEF CoverInv
  <2>. QED BY <1>1, <1>2, <1>3, <2>1, OpenedRange
<1>. QED BY <1>2, <1>3, KeepsInside

\* A label and the lines that open a block
LEMMA OpenKeeps ==
  ASSUME Inv, CoverInv, Label \/ (\E v \in Values : Logical(v)) \/ Union \/ Struct \/ Dstruct \/ Dunion
  PROVE  CoverInv'
<1>0. Inv' /\ Kept /\ at \in Position /\ hist \in History
  BY OpenStep DEF Inv, TypeOK
<1>1. CASE Label
  <2>1. at' = at /\ todo' = 0 /\ open' = open /\ errors' = errors /\ hist' = hist
    BY <1>1 DEF Label, Ready
  <2>. QED BY <1>0, <2>1, MovedKeeps
<1>2. ASSUME NEW what \in {"logical", "union", "struct", "dstruct", "dunion"}, Opened(what)
      PROVE  \E f \in Frame : /\ open' = Append(open, f) /\ f.start = at.start /\ f.end = at.end
                              /\ f.what = what
  <2>. DEFINE f == [what |-> what, unionmode |-> at.unionmode,
                    start |-> at.start, end |-> at.end, l_union |-> at.l_union,
                    laddr |-> IF at.unionmode THEN at.l_union ELSE at.l_address,
                    addr |-> at.address]
  <2>1. f \in Frame
    BY <1>0 DEF Position, Frame
  <2>2. open' = Append(open, f)
    BY <1>2 DEF Opened
  <2>3. f.start = at.start /\ f.end = at.end /\ f.what = what
    OBVIOUS
  <2>. HIDE DEF f
  <2>. QED BY <2>1, <2>2, <2>3
<1>3. ASSUME NEW v \in Values, Logical(v) PROVE CoverInv'
  <2>1. todo' = todo /\ todo = 0 /\ errors' = errors /\ hist' = hist /\ Opened("logical")
    BY <1>3 DEF Logical, Opened, Ready
  <2>2. /\ at'.moved = at.moved /\ at'.address = at.address
        /\ at'.start = at.start /\ at'.end = at.end
    BY <1>0, <1>3 DEF Logical, Position
  <2>3. PICK f \in Frame : /\ open' = Append(open, f) /\ f.start = at.start /\ f.end = at.end
                           /\ f.what = "logical"
    BY <1>2, <2>1
  <2>. QED BY <1>0, <2>1, <2>2, <2>3, OpenedKeeps DEF Ranges
<1>4. ASSUME NEW what \in Ranges, NEW mode \in BOOLEAN, Range1(what, mode) PROVE CoverInv'
  <2>1. /\ todo' = todo /\ todo = 0 /\ errors' = errors /\ Opened(what)
        /\ hist' = [hist EXCEPT !.below = @ \/ Below]
    BY <1>4 DEF Range1, Opened, Ready
  <2>2. /\ at'.moved = at.moved /\ at'.address = at.address
        /\ at'.start = at.address /\ at'.end = at.address
    BY <1>0, <1>4 DEF Range1, Position
  <2>3. hist'.below = (hist.below \/ Below)
    BY <1>0, <2>1 DEF History
  <2>4. PICK f \in Frame : /\ open' = Append(open, f) /\ f.start = at.start /\ f.end = at.end
                           /\ f.what = what
    BY <1>2, <2>1 DEF Ranges
  <2>. QED BY <1>0, <2>1, <2>2, <2>3, <2>4, OpenedKeeps
<1>5. CASE Struct
  <2>1. todo' = todo /\ todo = 0 /\ errors' = errors /\ hist' = hist /\ Opened("struct")
    BY <1>5 DEF Struct, Opened, Ready
  <2>2. /\ at'.moved = at.moved /\ at'.address = at.address
        /\ at'.start = at.start /\ at'.end = at.end
    BY <1>0, <1>5 DEF Struct, Position
  <2>3. PICK f \in Frame : /\ open' = Append(open, f) /\ f.start = at.start /\ f.end = at.end
                           /\ f.what = "struct"
    BY <1>2, <2>1
  <2>. QED BY <1>0, <2>1, <2>2, <2>3, OpenedKeeps DEF Ranges
<1>. QED BY <1>1, <1>3, <1>4, <1>5 DEF Union, Dstruct, Dunion, Ranges

\* A block is closed, and the space behind it may be skipped.
LEMMA ClosedOff ==
  ASSUME Size < Word, Inv, Inv', Kept, CoverInv, todo' = 0, NEW a \in Position,
         open # <<>>, open' = SubSeq(open, 1, Len(open) - 1), a.moved = at.moved, a.address = at.address,
         IF Last1.what \in Ranges
         THEN /\ a.start = Last1.start /\ Last1.end <= a.end /\ at.end <= a.end
              /\ a.end \in {Last1.end, at.end, at.address}
         ELSE a.start = at.start /\ a.end = at.end,
         hist'.below = hist.below,
         \/ at' = a /\ errors' = errors
         \/ \E db \in Nat \ {0} : at' = Advanced(a, db) /\ errors' = errors \cup Complaints(a, db)
  PROVE  CoverInv'
<1>1. /\ at \in Position /\ open \in Seq(Frame) /\ at' \in Position /\ open' \in Seq(Frame)
      /\ Last1 = open[Len(open)] /\ Len(open) \in DOMAIN open
  <2>1. open \in Seq(Frame)
    BY DEF Inv, TypeOK
  <2>. QED BY <2>1 DEF Inv, TypeOK, Last1
<1>2. ASSUME Good(errors, hist)
      PROVE  Shape(a, open') /\ Grows(at, open, a, open') /\ First(a, open') = First(at, open)
  <2>1. Shape(at, open)
    BY <1>2 DEF CoverInv
  <2>2. Last1.what \in Ranges => a.end <= Size
    <3>1. at.end <= Size /\ Last1.end <= Size /\ at.address <= Size
      BY <1>1, <2>1, Numbers, SizeNat DEF Shape, Bounded
    <3>. QED BY <3>1
  <2>. QED BY <1>1, <2>1, <2>2, ClosedRange
<1>3. CASE at' = a /\ errors' = errors
  <2>1. Good(errors', hist') => Good(errors, hist)
    BY <1>3 DEF Good
  <2>. QED BY <1>2, <1>3, <2>1, KeepsInside
<1>4. ASSUME NEW db \in Nat \ {0}, at' = Advanced(a, db), errors' = errors \cup Complaints(a, db)
      PROVE  CoverInv'
  <2>1. ASSUME Good(errors', hist')
        PROVE  Good(errors, hist) /\ Complaints(a, db) \cap {"section", "wrap"} = {}
    BY <1>4, <2>1, GoodBefore
  <2>2. ASSUME Good(errors', hist')
        PROVE  Shape(at', open') /\ Grows(at, open, at', open') /\ First(at', open') = First(at, open)
    <3>1. Shape(a, open') /\ Grows(at, open, a, open') /\ First(a, open') = First(at, open)
      BY <1>2, <2>1, <2>2
    <3>2. Shape(at', open') /\ Grows(a, open', at', open') /\ First(at', open') = First(a, open')
      BY <1>1, <1>4, <2>1, <2>2, <3>1, AdvancedRange
    <3>3. Grows(at, open, at', open')
      BY ONLY <1>1, <3>1, <3>2, a \in Position, GrowsOn, Zenon
    <3>. QED BY <3>1, <3>2, <3>3
  <2>. QED BY <2>1, <2>2, KeepsInside
<1>. QED BY <1>3, <1>4

\* logical_close, union_close and the ends of the structures
LEMMA CloseKeeps == ASSUME Size < Word, Inv, CoverInv, Closes PROVE CoverInv'
<1>0. Inv' /\ Kept /\ TypeOK /\ at \in Position /\ hist \in History
  BY CloseStep DEF Inv, TypeOK
<1>1. ASSUME NEW what, Ends(what)
      PROVE  /\ Last1 \in Frame /\ Last1.what = what /\ todo = 0
             /\ open # <<>> /\ open' = SubSeq(open, 1, Len(open) - 1)
  BY <1>0, <1>1, Ended DEF Ends
<1>2. CASE Here
  <2>1. Ends("logical") /\ todo' = todo /\ hist' = hist /\ errors' = errors
    BY <1>2 DEF Here
  <2>2. /\ at'.moved = at.moved /\ at'.address = at.address /\ at'.start = at.start /\ at'.end = at.end
    BY <1>0, <1>2 DEF Here, Position
  <2>3. at' \in Position
    BY <1>0 DEF Inv, TypeOK
  <2>4. "logical" \notin Ranges
    BY DEF Ranges
  <2>. QED BY <1>0, <1>1, <2>1, <2>2, <2>3, <2>4, ClosedOff
<1>3. CASE EndStruct
  <2>1. Ends("struct") /\ todo' = todo /\ hist' = hist /\ errors' = errors
    BY <1>3 DEF EndStruct
  <2>2. /\ at'.moved = at.moved /\ at'.address = at.address /\ at'.start = at.start /\ at'.end = at.end
    BY <1>0, <1>3 DEF EndStruct, Position
  <2>3. at' \in Position
    BY <1>0 DEF Inv, TypeOK
  <2>4. "struct" \notin Ranges
    BY DEF Ranges
  <2>. QED BY <1>0, <1>1, <2>1, <2>2, <2>3, <2>4, ClosedOff
<1>4. ASSUME NEW b \in Position, NEW h \in History, NEW end \in Nat, SkipTo(b, h, end), b.address = at.address,
             h.below = hist.below, todo = 0
      PROVE  /\ todo' = 0 /\ hist'.below = hist.below
             /\ \/ at' = b /\ errors' = errors
                \/ \E db \in Nat \ {0} : at' = Advanced(b, db) /\ errors' = errors \cup Complaints(b, db)
  <2>1. CASE end > b.address
    <3>1. /\ at' = Advanced(b, end - b.address) /\ errors' = errors \cup Complaints(b, end - b.address)
          /\ hist' = Filled(h, b, end - b.address) /\ todo' = todo
      BY <1>4, <2>1 DEF SkipTo, GoOn
    <3>2. end - b.address \in Nat \ {0}
      BY <2>1, Numbers
    <3>3. hist'.below = hist.below
      BY <1>4, <3>1, BelowKept
    <3>. QED BY <1>4, <3>1, <3>2, <3>3
  <2>2. CASE ~(end > b.address)
    BY <1>4, <2>2 DEF SkipTo
  <2>. QED BY <2>1, <2>2
<1>5. CASE Endu
  <2>. DEFINE end == Higher(at.address, at.end)
  <2>. DEFINE high == Higher(Last1.end, end)
  <2>. DEFINE a == [at EXCEPT !.unionmode = Last1.unionmode, !.l_union = Last1.l_union,
                              !.start = Last1.start, !.end = high]
  <2>. DEFINE b == [a EXCEPT !.wrapwarn = @ /\ end <= at.address]
  <2>1. Ends("union") /\ SkipTo(b, Moved(hist), end)
    BY <1>5 DEF Endu
  <2>2. Last1 \in Frame /\ Last1.what = "union" /\ todo = 0
    BY <1>1, <2>1
  <2>3. /\ end \in Nat /\ high \in Nat /\ Last1.end <= high /\ at.end <= high
        /\ high \in {Last1.end, at.end, at.address}
    <3>1. at.address \in Nat /\ at.end \in Nat /\ Last1.end \in Nat
      BY <1>0, <2>2, SizeNat DEF Position, Frame, Address
    <3>. QED BY <3>1 DEF Higher
  <2>. HIDE DEF high, end
  <2>4. /\ b \in Position /\ b.moved = at.moved /\ b.address = at.address
        /\ b.start = Last1.start /\ b.end = high
    BY <1>0, <2>2, <2>3 DEF Position, Frame
  <2>5. Moved(hist) \in History /\ Moved(hist).below = hist.below
    BY <1>0, BelowKept DEF Moved, History
  <2>6. "union" \in Ranges
    BY DEF Ranges
  <2>. HIDE DEF a, b
  <2>7. /\ todo' = 0 /\ hist'.below = hist.below
        /\ \/ at' = b /\ errors' = errors
           \/ \E db \in Nat \ {0} : at' = Advanced(b, db) /\ errors' = errors \cup Complaints(b, db)
    BY <1>4, <2>1, <2>2, <2>3, <2>4, <2>5
  <2>8. open # <<>> /\ open' = SubSeq(open, 1, Len(open) - 1)
    BY <1>1, <2>1
  <2>. QED BY <1>0, <2>2, <2>3, <2>4, <2>6, <2>7, <2>8, ClosedOff
<1>6. CASE EndInstance
  <2>. DEFINE high == Higher(Last1.end, at.end)
  <2>. DEFINE a == [at EXCEPT !.unionmode = Last1.unionmode, !.l_union = Last1.l_union,
                              !.start = Last1.start, !.end = high]
  <2>. DEFINE end == IF at.unionmode THEN at.end ELSE at.address
  <2>1. (Ends("dstruct") \/ Ends("dunion")) /\ SkipTo(a, hist, end)
    BY <1>6 DEF EndInstance
  <2>2. Last1 \in Frame /\ Last1.what \in Ranges /\ todo = 0
    BY <1>1, <2>1 DEF Ranges
  <2>3. /\ end \in Nat /\ high \in Nat /\ Last1.end <= high /\ at.end <= high
        /\ high \in {Last1.end, at.end, at.address}
    <3>1. at.address \in Nat /\ at.end \in Nat /\ Last1.end \in Nat
      BY <1>0, <2>2, SizeNat DEF Position, Frame, Address
    <3>. QED BY <3>1 DEF Higher
  <2>. HIDE DEF high, end
  <2>4. /\ a \in Position /\ a.moved = at.moved /\ a.address = at.address
        /\ a.start = Last1.start /\ a.end = high
    BY <1>0, <2>2, <2>3 DEF Position, Frame
  <2>. HIDE DEF a
  <2>7. /\ todo' = 0 /\ hist'.below = hist.below
        /\ \/ at' = a /\ errors' = errors
           \/ \E db \in Nat \ {0} : at' = Advanced(a, db) /\ errors' = errors \cup Complaints(a, db)
    BY <1>0, <1>4, <2>1, <2>2, <2>3, <2>4
  <2>8. open # <<>> /\ open' = SubSeq(open, 1, Len(open) - 1)
    BY <1>1, <2>1
  <2>. QED BY <1>0, <2>2, <2>3, <2>4, <2>7, <2>8, ClosedOff
<1>. QED BY <1>2, <1>3, <1>5, <1>6 DEF Closes

(***************************************************************************)
(* The theorem.                                                            *)
(***************************************************************************)
\* A section begins with no bytes, no range is open.
LEMMA InitCover == Init => CoverInv
<1>. SUFFICES ASSUME Init PROVE Shape(at, open) /\ AllInside
  BY DEF CoverInv
<1>0. Inv
  BY InitInv
<1>1. PICK a \in Starts :
        /\ at.address = a /\ at.start = a /\ at.end = a /\ ~at.moved
        /\ memp = 0 /\ todo = 0 /\ open = <<>>
  BY DEF Init
<1>2. a \in Nat /\ a <= Size
  BY ValuesAssumption, SizeNat DEF Size
<1>3. Shape(at, open)
  BY <1>1, <1>2 DEF Shape, Ordered, SameStart, First, Handed, Bounded
<1>4. Pos \in 0 .. Size - 1
  BY <1>0, PosInt
<1>5. Pos + todo <= Size /\ Pos .. Pos + todo - 1 = {}
  <2>1. ASSUME NEW z \in 0 .. Size - 1 PROVE z + 0 <= Size /\ z .. z + 0 - 1 = {}
    BY SizeNat
  <2>. HIDE DEF Pos
  <2>. QED BY <1>1, <1>4, <2>1
<1>. QED BY <1>1, <1>3, <1>5 DEF AllInside

\* Each line keeps the bytes covered.
LEMMA NextCover ==
  ASSUME Size < Word, Inv, CoverInv, [Next]_vars
  PROVE  CoverInv'
<1>1. CASE AllocWraps \/ AllocRest
  BY <1>1, AllocKeeps
<1>2. CASE Data
  BY <1>2, PokeInside, SkipKeeps, OpenKeeps DEF Data
<1>3. CASE LineStart \/ Moves
  BY <1>3, MoveKeeps DEF Moves
<1>4. CASE Opens
  BY <1>4, OpenKeeps DEF Opens
<1>5. CASE Closes
  BY <1>5, CloseKeeps
<1>6. CASE UNCHANGED vars
  <2>1. /\ at' = at /\ memp' = memp /\ data' = data /\ lastp' = lastp /\ lastaddr' = lastaddr
        /\ todo' = todo /\ open' = open /\ errors' = errors /\ hist' = hist
    BY <1>6 DEF vars, blocks
  <2>2. Pos' = Pos /\ Log' = Log
    BY <2>1 DEF Pos, Log
  <2>. QED BY <2>1, <2>2 DEF CoverInv, AllInside
<1>. QED BY <1>1, <1>2, <1>3, <1>4, <1>5, <1>6 DEF Next

\* Begin finds where the outermost range begins.
LEMMA BeginIs ==
  ASSUME at \in Position, open \in Seq(Frame), Shape(at, open)
  PROVE  Begin = First(at, open)
<1>. DEFINE own == Kinds({"union", "dstruct", "dunion"})
<1>1. own = {i \in DOMAIN open : open[i].what \in Ranges}
  BY DEF Kinds, Ranges
<1>2. /\ \A i \in DOMAIN open : Plain(open, i) => open[i].start = open[1].start
      /\ Plain(open, Len(open) + 1) => at.start = First(at, open)
  BY DEF Shape, SameStart
<1>3. CASE open = <<>>
  BY <1>3 DEF Begin, First
<1>4. CASE open # <<>> /\ own = {}
  <2>1. Plain(open, Len(open) + 1)
    BY <1>1, <1>4 DEF Plain
  <2>2. Begin = at.start
    BY <1>4 DEF Begin
  <2>. QED BY <1>2, <2>1, <2>2
<1>5. CASE open # <<>> /\ own # {}
  <2>1. own \in SUBSET Nat
    BY <1>1
  <2>2. PICK i : i = Min(own) /\ i \in own /\ \A y \in own : i <= y
    BY <1>5, <2>1, Smallest
  <2>3. i \in DOMAIN open /\ Plain(open, i)
    <3>1. \A k \in DOMAIN open : k < i => k \notin own
      BY <2>1, <2>2
    <3>. QED BY <1>1, <2>2, <3>1 DEF Plain
  <2>4. open[i].start = open[1].start
    BY <1>2, <2>3
  <2>5. Begin = open[i].start
    BY <1>5, <2>2 DEF Begin
  <2>. QED BY <1>5, <2>4, <2>5 DEF First
<1>. QED BY <1>3, <1>4, <1>5

\* What is in reach is not above the limit.
LEMMA LimitIs ==
  ASSUME at \in Position, open \in Seq(Frame), Shape(at, open)
  PROVE  Limit \in Nat /\ \A y \in Reach(at, open) : y <= Limit
<1>1. ASSUME NEW y \in Reach(at, open) PROVE y \in 0 .. Size
  <2>1. y \in Nat
    BY ReachNat
  <2>2. at.address <= Size /\ at.end <= Size /\ \A i \in DOMAIN open : open[i].end <= Size
    BY Numbers, SizeNat DEF Shape, Bounded
  <2>. QED BY <2>1, <2>2, SizeNat DEF Reach
<1>2. at.end \in Reach(at, open)
  BY DEF Reach
<1>. DEFINE R == Reach(at, open)
<1>3. R \in SUBSET (0 .. Size) /\ R # {} /\ Size \in Nat
  BY <1>1, <1>2, SizeNat
<1>4. Limit = Max(R)
  BY DEF Limit, Reach
<1>. HIDE DEF R
<1>5. Max(R) \in R /\ \A y \in R : y <= Max(R)
  BY <1>3, Largest
<1>. QED BY <1>3, <1>4, <1>5 DEF R

\* The size of a section, a union or an instance covers the bytes in it, when
\* nothing was complained (pokealloc, memskip, union_close and the ends of the
\* structures).  In the output mode with 32 bit addresses the end of a section
\* that is filled to the top is 0, and says nothing.
THEOREM BytesCovered == ~Flat => (Spec => []Covered)
<1>. SUFFICES ASSUME ~Flat PROVE Spec => []Covered
  OBVIOUS
<1>0. Size < Word
  BY WidthAssumption DEF Flat, Size
<1>1. Inv /\ CoverInv /\ [Next]_vars => CoverInv'
  BY <1>0, NextCover
<1>2. Inv /\ CoverInv => Covered
  <2>. SUFFICES ASSUME Inv, CoverInv, errors \cap {"section", "wrap"} = {}, ~hist.below,
                       NEW p \in 0 .. memp - 1
                PROVE  Begin <= AddrOf(p) /\ AddrOf(p) < Limit
    BY DEF Covered
  <2>1. Shape(at, open) /\ AllInside /\ at \in Position /\ open \in Seq(Frame) /\ memp \in Nat
    BY DEF CoverInv, Good, Inv, TypeOK
  <2>2. p + 1 \in 1 .. memp /\ (p + 1) - 1 = p
    BY <2>1
  <2>3. AddrOf(p) = Log[p + 1]
    <3>1. [q \in 1 .. memp |-> AddrOf(q - 1)][p + 1] = AddrOf(p)
      BY <2>2
    <3>. QED BY <3>1, SameLog
  <2>4. Inside(AddrOf(p), at, open) /\ AddrOf(p) \in Int
    BY <2>1, <2>2, <2>3, LogInt DEF AllInside
  <2>5. Begin <= AddrOf(p)
    BY <2>1, <2>4, BeginIs DEF Inside
  <2>6. PICK y \in Reach(at, open) : AddrOf(p) < y
    BY <2>4 DEF Inside, Under
  <2>7. y <= Limit /\ Limit \in Nat /\ y \in Nat
    BY <2>1, LimitIs, ReachNat
  <2>. QED BY <2>4, <2>5, <2>6, <2>7
<1>. QED BY InitCover, Invariance, <1>1, <1>2, PTL DEF Spec

(***************************************************************************)
(* Code that is read back from a label is what was placed behind it        *)
(* (read_mem), for every width of the output and every sequence of lines.  *)
(*                                                                         *)
(* read_mem goes through the blocks from the one that was open at the      *)
(* label, and sums up their lengths and the gaps between them, each as a   *)
(* way forward that may go over the top.  The sum is a recursive function; *)
(* that it leads to the address of each block, over the top some times, is *)
(* an induction along the list (WalkedMod), and without a step over the    *)
(* top it is the distance itself (WalkedExact).                            *)
(*                                                                         *)
(* What is read is right because only one block can begin before the       *)
(* label, the first one (Served), and no block goes over the top (Low).    *)
(* All of it is found because the blocks rise (Rising), as long as the     *)
(* address only moves on.  That it does not go over the top without a      *)
(* message takes the most: the last byte of memory may be used without     *)
(* one, and the next line must be caught by the flags, also when it only   *)
(* closes a union or an instance that reached less far (AtTop, Topped).    *)
(***************************************************************************)
(***************************************************************************)
(* The invariant, with the label k, the list d of closed blocks, the bytes *)
(* lp .. m - 1 that wait for one and their address la as parameters.       *)
(***************************************************************************)
\* The blocks that read_mem goes through
Since(k, d) == {i \in DOMAIN d : k.membp <= i}
\* The label: where it was in the list and in the array of bytes
Marked == [addr : Address, membp : Nat, from : Nat, straight : BOOLEAN, refs : BOOLEAN]
MarkOK(k, d, m) == k \in Marked /\ k.membp \in 1 .. Len(d) + 1 /\ k.from \in 0 .. m
\* No block goes over the top.
Low(d) == \A i \in OwnOf(d) : d[i].addr < Size /\ d[i].addr + d[i].len <= Size

\* Only the first of the blocks may begin before the label, which is in it then.
Serves(k, first, p, addr) == p >= k.from \/ (first /\ k.addr = addr + (k.from - p))
Served(k, d, lp, la) ==
  /\ \A i \in OwnOf(d) : i < k.membp => d[i].p + d[i].len <= k.from
  /\ \A i \in Since(k, d) : ~d[i].ref /\ Serves(k, i = k.membp, d[i].p, d[i].addr)
  /\ Serves(k, k.membp = Len(d) + 1, lp, la)

\* As long as the address only moves on, each block is above the ones before.
Rising(k, d) ==
  /\ \A i, j \in Since(k, d) : i < j => d[i].addr + d[i].len <= d[j].addr
  /\ \A i \in Since(k, d) : d[i].p >= k.from => d[i].addr >= k.addr
Above(k, d, lp, la) ==
  /\ \A i \in Since(k, d) : d[i].addr + d[i].len <= la
  /\ lp >= k.from => la >= k.addr

\* The last byte of memory was passed: that is known from the flags, and the
\* ends that a line may yet skip to are at the top or at 0.
Topped(a, o) ==
  /\ a.end \in {0, Size}
  /\ \A i \in DOMAIN o : \/ o[i].end \in {0, Size} \/ a.end = Size
                         \/ \E j \in DOMAIN o : i < j /\ o[j].end = Size
AtTop(a, o) == a.address = 0 /\ a.moved /\ a.wrapwarn /\ Topped(a, o)
\* There are t bytes without a place, which begin at pos.
Fits(pos, t, a, o) == pos + t <= Size /\ (t > 0 /\ pos + t = Size => AtTop(a, o))
Over(lp, la, m, t, a, o) == lp = m /\ la = 0 /\ t = 0 /\ AtTop(a, o)

Straight(k, d, lp, la, m, pos, t, a, o) ==
  Rising(k, d) /\ ((Above(k, d, lp, la) /\ Fits(pos, t, a, o)) \/ Over(lp, la, m, t, a, o))
EndsKept(a, o) == Handed(a, o) /\ Bounded(a, o)

ReadInv ==
  /\ MarkOK(mark, data, memp) /\ Low(data) /\ EndsKept(at, open)
  /\ ~mark.refs =>
       /\ Served(mark, data, lastp, lastaddr)
       /\ mark.straight /\ "wrap" \notin errors =>
            Straight(mark, data, lastp, lastaddr, memp, Pos, todo, at, open)

(***************************************************************************)
(* Recursion.  An induction over numbers is one over the set of those for  *)
(* which a fact holds: otherwise there is a smallest one for which it does *)
(* not.                                                                    *)
(***************************************************************************)
LEMMA Inductive ==
  ASSUME NEW S, 0 \in S, \A n \in Nat : n \in S => n + 1 \in S
  PROVE  \A n \in Nat : n \in S
<1>. SUFFICES ASSUME Nat \ S # {} PROVE FALSE
  OBVIOUS
<1>. DEFINE T == Nat \ S
<1>1. T \in SUBSET Nat /\ T # {}
  OBVIOUS
<1>2. PICK m \in T : \A y \in T : m <= y
  BY <1>1, Smallest
<1>3. m \in Nat /\ m # 0 /\ m - 1 \in Nat /\ (m - 1) + 1 = m
  BY <1>2
<1>4. m - 1 \in S
  <2>1. ~(m <= m - 1)
    BY <1>3
  <2>. QED BY <1>2, <1>3, <2>1
<1>. QED BY <1>3, <1>4

\* A sum along a list is a function.
LEMMA Recursion ==
  ASSUME NEW first \in Int, NEW N \in Nat, NEW step \in [1 .. N -> Int]
  PROVE  \E f \in [1 .. N -> Int] : f = [i \in 1 .. N |-> IF i = 1 THEN first ELSE f[i - 1] + step[i]]
<1>. DEFINE Good1(n, f) == /\ f \in [1 .. n -> Int]
                           /\ f = [i \in 1 .. n |-> IF i = 1 THEN first ELSE f[i - 1] + step[i]]
<1>. DEFINE S == {n \in Nat : n <= N => \E f : Good1(n, f)}
<1>1. 0 \in S
  <2>. DEFINE f == [i \in 1 .. 0 |-> 0]
  <2>1. Good1(0, f)
    OBVIOUS
  <2>. QED BY <2>1
<1>2. ASSUME NEW n \in Nat, n \in S PROVE n + 1 \in S
  <2>. SUFFICES ASSUME n + 1 <= N PROVE \E f : Good1(n + 1, f)
    OBVIOUS
  <2>0. n <= N
    OBVIOUS
  <2>1. PICK g : Good1(n, g)
    BY ONLY <1>2, <2>0 DEF S
  <2>. DEFINE f == [i \in 1 .. n + 1 |-> IF i <= n THEN g[i]
                                        ELSE IF i = 1 THEN first ELSE g[n] + step[i]]
  <2>2. \A i \in 1 .. n + 1 : i \in 1 .. n \/ i = n + 1
    OBVIOUS
  <2>3. f \in [1 .. n + 1 -> Int]
    <3>1. \A i \in 1 .. n : g[i] \in Int
      BY <2>1
    <3>2. n + 1 # 1 => g[n] \in Int /\ step[n + 1] \in Int
      BY <3>1
    <3>. QED BY <3>1, <3>2
  <2>4. ASSUME NEW i \in 1 .. n + 1 PROVE f[i] = IF i = 1 THEN first ELSE f[i - 1] + step[i]
    <3>1. CASE i \in 1 .. n
      <4>1. f[i] = g[i] /\ (i # 1 => f[i - 1] = g[i - 1])
        BY <3>1
      <4>2. g[i] = IF i = 1 THEN first ELSE g[i - 1] + step[i]
        BY <2>1, <3>1
      <4>. QED BY <4>1, <4>2
    <3>2. CASE i = n + 1
      <4>1. i # 1 => i - 1 \in 1 .. n /\ f[i - 1] = g[n]
        BY <3>2
      <4>2. f[i] = IF i = 1 THEN first ELSE g[n] + step[i]
        BY <3>2
      <4>. QED BY <4>1, <4>2
    <3>. QED BY <2>2, <3>1, <3>2
  <2>5. f = [i \in 1 .. n + 1 |-> IF i = 1 THEN first ELSE f[i - 1] + step[i]]
    <3>. DEFINE h == [i \in 1 .. n + 1 |-> IF i = 1 THEN first ELSE f[i - 1] + step[i]]
    <3>. HIDE DEF f
    <3>1. \A i \in 1 .. n + 1 : f[i] = h[i]
      BY <2>4
    <3>. QED BY <2>3, <3>1
  <2>6. Good1(n + 1, f)
    BY <2>3, <2>5
  <2>. QED BY <2>6
<1>. HIDE DEF S
<1>3. N \in S
  BY <1>1, <1>2, Inductive
<1>4. \E f : Good1(N, f)
  BY <1>3 DEF S
<1>. QED BY <1>4

\* The way through the blocks: from each to the next one, which may be behind
\* the top.
LEMMA WalkedIs ==
  ASSUME NEW way \in Seq(Block), NEW from \in Int
  PROVE  /\ Walked(way, from) \in [1 .. Len(way) -> Int]
         /\ \A i \in 1 .. Len(way) :
              Walked(way, from)[i] =
                IF i = 1 THEN (way[1].addr - from) % Size
                ELSE Walked(way, from)[i - 1] + way[i - 1].len
                       + ((way[i].addr - (way[i - 1].addr + way[i - 1].len)) % Size)
<1>. DEFINE N == Len(way)
<1>. DEFINE first == IF N = 0 THEN 0 ELSE (way[1].addr - from) % Size
<1>. DEFINE step == [i \in 1 .. N |-> IF i = 1 THEN 0 ELSE
                       way[i - 1].len + ((way[i].addr - (way[i - 1].addr + way[i - 1].len)) % Size)]
<1>1. N \in Nat /\ DOMAIN way = 1 .. N
  OBVIOUS
<1>2. \A i \in 1 .. N : way[i].addr \in Nat /\ way[i].len \in Nat
  <2>1. \A i \in 1 .. N : way[i] \in Block
    OBVIOUS
  <2>. HIDE DEF N
  <2>. QED BY <2>1 DEF Block
<1>3. first \in Int
  <2>1. CASE N = 0
    BY <2>1
  <2>2. CASE N # 0
    <3>1. 1 \in 1 .. N
      BY <1>1, <2>2
    <3>2. way[1].addr - from \in Int
      BY <1>2, <3>1
    <3>3. (way[1].addr - from) % Size \in Int
      <4>1. ASSUME NEW z \in Int PROVE z % Size \in Int
        BY Division, SizeNat
      <4>. QED BY ONLY <3>2, <4>1
    <3>. QED BY <2>2, <3>3
  <2>. QED BY <2>1, <2>2
<1>4. ASSUME NEW i \in 1 .. N, i # 1
      PROVE  way[i - 1].len + ((way[i].addr - (way[i - 1].addr + way[i - 1].len)) % Size) \in Int
  <2>1. i - 1 \in 1 .. N
    BY <1>1, <1>4
  <2>2. way[i].addr - (way[i - 1].addr + way[i - 1].len) \in Int /\ way[i - 1].len \in Int
    BY <1>2, <2>1
  <2>3. (way[i].addr - (way[i - 1].addr + way[i - 1].len)) % Size \in Int
    BY <2>2, Division, SizeNat
  <2>. QED BY <2>2, <2>3
<1>5. step \in [1 .. N -> Int]
  BY <1>4
<1>6. PICK f \in [1 .. N -> Int] : f = [i \in 1 .. N |-> IF i = 1 THEN first ELSE f[i - 1] + step[i]]
  <2>. HIDE DEF first, step, N
  <2>. QED BY ONLY <1>1, <1>3, <1>5, Recursion
<1>7. f = [i \in DOMAIN way |->
             IF i = 1 THEN (way[1].addr - from) % Size
             ELSE f[i - 1] + way[i - 1].len
                    + ((way[i].addr - (way[i - 1].addr + way[i - 1].len)) % Size)]
  <2>. DEFINE g == [i \in DOMAIN way |->
             IF i = 1 THEN (way[1].addr - from) % Size
             ELSE f[i - 1] + way[i - 1].len
                    + ((way[i].addr - (way[i - 1].addr + way[i - 1].len)) % Size)]
  <2>1. ASSUME NEW i \in 1 .. N PROVE f[i] = g[i]
    <3>1. CASE i = 1
      BY <1>1, <1>6, <3>1
    <3>2. CASE i # 1
      <4>1. i - 1 \in 1 .. N
        BY <1>1, <3>2
      <4>2. f[i] = f[i - 1] + step[i]
        BY <1>6, <3>2
      <4>3. step[i] = way[i - 1].len + ((way[i].addr - (way[i - 1].addr + way[i - 1].len)) % Size)
        BY <3>2
      <4>0. f \in [1 .. N -> Int]
        BY <1>6
      <4>4. f[i - 1] \in Int /\ way[i - 1].len \in Int
        <5>. HIDE DEF N, first, step
        <5>1. f[i - 1] \in Int
          BY ONLY <4>0, <4>1
        <5>. QED BY <1>2, <4>1, <5>1
      <4>5. (way[i].addr - (way[i - 1].addr + way[i - 1].len)) % Size \in Int
        <5>. HIDE DEF N, first, step
        <5>1. way[i].addr - (way[i - 1].addr + way[i - 1].len) \in Int
          <6>1. way[i].addr \in Nat /\ way[i - 1].addr \in Nat /\ way[i - 1].len \in Nat
            BY ONLY <1>2, <4>1, i \in 1 .. N
          <6>. QED BY <6>1
        <5>. QED BY <5>1, Division, SizeNat
      <4>6. g[i] = f[i - 1] + way[i - 1].len
                     + ((way[i].addr - (way[i - 1].addr + way[i - 1].len)) % Size)
        BY <1>1, <3>2
      <4>. QED BY ONLY <4>2, <4>3, <4>4, <4>5, <4>6
    <3>. QED BY <3>1, <3>2
  <2>2. DOMAIN f = DOMAIN g
    BY <1>1, <1>6
  <2>3. f = [i \in 1 .. N |-> f[i]] /\ g = [i \in 1 .. N |-> g[i]]
    <3>. HIDE DEF N, first, step
    <3>1. f = [i \in 1 .. N |-> f[i]]
      OBVIOUS
    <3>. QED BY <1>1, <3>1
  <2>. HIDE DEF g
  <2>4. f = g
    BY ONLY <2>1, <2>3
  <2>. QED BY <2>4 DEF g
<1>8. Walked(way, from) =
        CHOOSE w : w = [i \in DOMAIN way |->
                          IF i = 1 THEN (way[1].addr - from) % Size
                          ELSE w[i - 1] + way[i - 1].len
                                 + ((way[i].addr - (way[i - 1].addr + way[i - 1].len)) % Size)]
  BY DEF Walked
<1>9. Walked(way, from) =
        [i \in DOMAIN way |->
           IF i = 1 THEN (way[1].addr - from) % Size
           ELSE Walked(way, from)[i - 1] + way[i - 1].len
                  + ((way[i].addr - (way[i - 1].addr + way[i - 1].len)) % Size)]
  BY ONLY <1>7, <1>8
<1>10. \A i \in 1 .. N :
         Walked(way, from)[i] =
           IF i = 1 THEN (way[1].addr - from) % Size
           ELSE Walked(way, from)[i - 1] + way[i - 1].len
                  + ((way[i].addr - (way[i - 1].addr + way[i - 1].len)) % Size)
  BY ONLY <1>1, <1>9
<1>. DEFINE W == Walked(way, from)
<1>12. \A n \in Nat : n \in {k \in Nat : k + 1 \in 1 .. N => W[k + 1] \in Int}
  <2>. DEFINE S == {k \in Nat : k + 1 \in 1 .. N => W[k + 1] \in Int}
  <2>1. 0 \in S
    <3>. SUFFICES ASSUME 0 + 1 \in 1 .. N PROVE W[0 + 1] \in Int
      OBVIOUS
    <3>1. 0 + 1 = 1 /\ N # 0
      BY <1>1
    <3>2. W[1] = (way[1].addr - from) % Size
      BY ONLY <1>10, <3>1, 0 + 1 \in 1 .. N
    <3>. HIDE DEF W
    <3>. QED BY <1>3, <3>1, <3>2
  <2>2. ASSUME NEW n \in Nat, n \in S PROVE n + 1 \in S
    <3>. SUFFICES ASSUME (n + 1) + 1 \in 1 .. N PROVE W[(n + 1) + 1] \in Int
      OBVIOUS
    <3>1. n + 1 \in 1 .. N /\ (n + 1) + 1 # 1 /\ ((n + 1) + 1) - 1 = n + 1
      BY <1>1
    <3>. PICK i \in 1 .. N : i = (n + 1) + 1
      OBVIOUS
    <3>2. W[i] = W[i - 1] + way[i - 1].len
                   + ((way[i].addr - (way[i - 1].addr + way[i - 1].len)) % Size)
      BY ONLY <1>10, <3>1, i = (n + 1) + 1, i \in 1 .. N
    <3>. HIDE DEF W, N
    <3>3. W[i - 1] \in Int
      BY <2>2, <3>1
    <3>4. way[i].addr \in Nat /\ way[i - 1].addr \in Nat /\ way[i - 1].len \in Nat
      BY <1>2, <3>1
    <3>5. ASSUME NEW z \in Int PROVE z % Size \in Int
      BY Division, SizeNat
    <3>6. (way[i].addr - (way[i - 1].addr + way[i - 1].len)) % Size \in Int
      <4>1. way[i].addr - (way[i - 1].addr + way[i - 1].len) \in Int
        BY <3>4
      <4>. QED BY ONLY <3>5, <4>1
    <3>. QED BY ONLY <3>2, <3>3, <3>4, <3>6, i = (n + 1) + 1
  <2>. HIDE DEF S
  <2>3. \A n \in Nat : n \in S
    BY ONLY <2>1, <2>2, Inductive
  <2>. QED BY <2>3 DEF S
<1>13. W \in [1 .. N -> Int]
  <2>. HIDE DEF first, step, N
  <2>1. ASSUME NEW i \in 1 .. N PROVE W[i] \in Int
    <3>1. i - 1 \in Nat /\ (i - 1) + 1 = i
      BY <1>1
    <3>. HIDE DEF W
    <3>. QED BY <1>12, <3>1
  <2>2. W = [i \in 1 .. N |-> W[i]]
    <3>1. DOMAIN way = 1 .. N
      BY <1>1
    <3>. QED BY ONLY <1>9, <3>1
  <2>. HIDE DEF W
  <2>. QED BY <2>1, <2>2
<1>. QED BY <1>10, <1>13

\* A sum and its remainder differ by a multiple of the size.
LEMMA Lifted ==
  ASSUME NEW x \in Int
  PROVE  x % Size \in 0 .. Size - 1 /\ \E q \in Int : x % Size = x + q * Size
<1>1. x % Size \in 0 .. Size - 1 /\ \E q \in Int : x = q * Size + (x % Size)
  BY Division, SizeNat
<1>. PICK r \in 0 .. Size - 1 : r = x % Size
  BY <1>1
<1>2. PICK q \in Int : x = q * Size + r
  BY <1>1
<1>3. (-q) * Size = -(q * Size) /\ q * Size \in Int
  BY SizeNat
<1>4. r = x + (-q) * Size
  BY <1>2, <1>3, SizeNat
<1>. QED BY <1>4

\* The way to a block is where it is, over the top some times.
LEMMA WalkedMod ==
  ASSUME NEW way \in Seq(Block), NEW from \in Int
  PROVE  \A i \in 1 .. Len(way) : \E q \in Int : Walked(way, from)[i] = way[i].addr - from + q * Size
<1>. DEFINE N == Len(way)
<1>. DEFINE W == Walked(way, from)
<1>. DEFINE Agrees(i) == \E q \in Int : W[i] = way[i].addr - from + q * Size
<1>. DEFINE S == {k \in Nat : k + 1 \in 1 .. N => Agrees(k + 1)}
<1>1. N \in Nat /\ \A i \in 1 .. N : way[i].addr \in Nat /\ way[i].len \in Nat
  <2>1. \A i \in 1 .. N : way[i] \in Block
    OBVIOUS
  <2>. HIDE DEF N
  <2>2. \A i \in 1 .. N : way[i].addr \in Nat /\ way[i].len \in Nat
    BY <2>1 DEF Block
  <2>3. N \in Nat
    BY DEF N
  <2>. QED BY <2>2, <2>3
<1>2. /\ W \in [1 .. N -> Int]
      /\ \A i \in 1 .. N : W[i] = IF i = 1 THEN (way[1].addr - from) % Size
                ELSE W[i - 1] + way[i - 1].len
                       + ((way[i].addr - (way[i - 1].addr + way[i - 1].len)) % Size)
  BY WalkedIs
<1>. HIDE DEF W, N
<1>3. 0 \in S
  <2>. SUFFICES ASSUME 0 + 1 \in 1 .. N PROVE Agrees(0 + 1)
    OBVIOUS
  <2>1. 0 + 1 = 1 /\ 1 \in 1 .. N
    OBVIOUS
  <2>2. W[1] = (way[1].addr - from) % Size
    BY <1>2, <2>1
  <2>3. way[1].addr - from \in Int
    BY <1>1, <2>1
  <2>4. PICK q \in Int : (way[1].addr - from) % Size = (way[1].addr - from) + q * Size
    BY ONLY <2>3, Lifted
  <2>5. Agrees(1)
    BY ONLY <2>2, <2>4, q \in Int
  <2>. QED BY <2>1, <2>5
<1>4. ASSUME NEW n \in Nat, n \in S PROVE n + 1 \in S
  <2>. SUFFICES ASSUME (n + 1) + 1 \in 1 .. N PROVE Agrees((n + 1) + 1)
    OBVIOUS
  <2>. PICK i \in 1 .. N : i = (n + 1) + 1
    OBVIOUS
  <2>. PICK h \in 1 .. N : h = n + 1
    BY <1>1
  <2>1. i # 1 /\ i - 1 = h /\ Agrees(h)
    BY <1>4
  <2>2. PICK q \in Int : W[h] = way[h].addr - from + q * Size
    BY <2>1
  <2>3. W[i] = W[h] + way[h].len + ((way[i].addr - (way[h].addr + way[h].len)) % Size)
    BY ONLY <1>2, <2>1, i \in 1 .. N
  <2>4. way[i].addr \in Nat /\ way[h].addr \in Nat /\ way[h].len \in Nat
    BY <1>1
  <2>5. way[i].addr - (way[h].addr + way[h].len) \in Int
    BY <2>4
  <2>6. PICK r \in Int : (way[i].addr - (way[h].addr + way[h].len)) % Size
                           = (way[i].addr - (way[h].addr + way[h].len)) + r * Size
    BY ONLY <2>5, Lifted
  <2>7. q * Size \in Int /\ r * Size \in Int /\ (q + r) * Size = q * Size + r * Size /\ q + r \in Int
    BY SizeNat
  <2>8. W[i] = way[i].addr - from + (q * Size + r * Size)
    <3>. PICK u \in Int : u = q * Size
      BY <2>7
    <3>. PICK v \in Int : v = r * Size
      BY <2>7
    <3>1. W[h] = way[h].addr - from + u
      BY ONLY <2>2, u = q * Size
    <3>2. (way[i].addr - (way[h].addr + way[h].len)) % Size = (way[i].addr - (way[h].addr + way[h].len)) + v
      BY ONLY <2>6, v = r * Size
    <3>. PICK x \in Nat, y \in Nat, z \in Nat : x = way[i].addr /\ y = way[h].addr /\ z = way[h].len
      BY <2>4
    <3>4. W[i] = (y - from + u) + z + ((x - (y + z)) + v)
      BY ONLY <2>3, <3>1, <3>2, x = way[i].addr, y = way[h].addr, z = way[h].len
    <3>5. W[i] = x - from + (u + v)
      BY ONLY <3>4, x \in Nat, y \in Nat, z \in Nat, from \in Int, u \in Int, v \in Int
    <3>3. W[i] = way[i].addr - from + (u + v)
      BY ONLY <3>5, x = way[i].addr
    <3>. QED BY ONLY <3>3, u = q * Size, v = r * Size
  <2>9. Agrees(i)
    BY <2>7, <2>8
  <2>. QED BY <2>9
<1>. HIDE DEF S
<1>5. \A n \in Nat : n \in S
  BY ONLY <1>3, <1>4, Inductive
<1>6. ASSUME NEW i \in 1 .. N PROVE Agrees(i)
  <2>1. i - 1 \in Nat /\ (i - 1) + 1 = i
    BY <1>1
  <2>. HIDE DEF Agrees
  <2>. QED BY <1>5, <2>1 DEF S
<1>. QED BY <1>6 DEF W, N

\* The way to a block is its distance, when no block begins below the one before.
LEMMA WalkedExact ==
  ASSUME NEW way \in Seq(Block), NEW from \in Nat, NEW m \in 1 .. Len(way),
         \A i \in 1 .. m : way[i].addr < Size, from <= way[1].addr,
         \A i \in 1 .. m : i # 1 => way[i - 1].addr + way[i - 1].len <= way[i].addr
  PROVE  \A i \in 1 .. m : Walked(way, from)[i] = way[i].addr - from
<1>. DEFINE N == Len(way)
<1>. DEFINE W == Walked(way, from)
<1>. DEFINE S == {k \in Nat : k + 1 \in 1 .. m => W[k + 1] = way[k + 1].addr - from}
<1>0. N \in Nat /\ m \in 1 .. N
  OBVIOUS
<1>1. \A i \in 1 .. N : way[i].addr \in Nat /\ way[i].len \in Nat
  <2>1. \A i \in 1 .. N : way[i] \in Block
    OBVIOUS
  <2>. HIDE DEF N
  <2>. QED BY <2>1 DEF Block
<1>2. /\ W \in [1 .. N -> Int]
      /\ \A i \in 1 .. N : W[i] = IF i = 1 THEN (way[1].addr - from) % Size
                ELSE W[i - 1] + way[i - 1].len
                       + ((way[i].addr - (way[i - 1].addr + way[i - 1].len)) % Size)
  BY WalkedIs
<1>. HIDE DEF W, N
<1>7. Size = AllMem2 + 1 /\ AllMem2 \in Nat
  BY SizeNat DEF Size
<1>3. 0 \in S
  <2>1. 0 + 1 = 1 /\ 1 \in 1 .. N /\ 1 \in 1 .. m
    BY <1>0
  <2>2. W[1] = (way[1].addr - from) % Size
    BY <1>2, <2>1
  <2>3. way[1].addr - from \in 0 .. AllMem2
    BY <1>1, <1>7, <2>1
  <2>4. W[1] = way[1].addr - from
    BY ONLY <2>2, <2>3, Small
  <2>. QED BY <2>1, <2>4
<1>4. ASSUME NEW n \in Nat, n \in S PROVE n + 1 \in S
  <2>. SUFFICES ASSUME (n + 1) + 1 \in 1 .. m PROVE W[(n + 1) + 1] = way[(n + 1) + 1].addr - from
    OBVIOUS
  <2>. PICK i \in 1 .. m : i = (n + 1) + 1
    OBVIOUS
  <2>. PICK h \in 1 .. m : h = n + 1
    BY <1>0
  <2>1. i # 1 /\ i - 1 = h /\ W[h] = way[h].addr - from /\ i \in 1 .. N /\ h \in 1 .. N
    BY <1>0, <1>4
  <2>3. W[i] = W[h] + way[h].len + ((way[i].addr - (way[h].addr + way[h].len)) % Size)
    BY ONLY <1>2, <2>1
  <2>4. way[i].addr \in Nat /\ way[h].addr \in Nat /\ way[h].len \in Nat
    BY <1>1, <2>1
  <2>5. way[h].addr + way[h].len <= way[i].addr /\ way[i].addr < Size
    BY <2>1
  <2>6. way[i].addr - (way[h].addr + way[h].len) \in 0 .. AllMem2
    <3>. PICK x \in Nat, y \in Nat, z \in Nat : x = way[i].addr /\ y = way[h].addr /\ z = way[h].len
      BY <2>4
    <3>1. y + z <= x /\ x < Size
      BY <2>5
    <3>2. x - (y + z) \in 0 .. AllMem2
      BY ONLY <1>7, <3>1, x \in Nat, y \in Nat, z \in Nat
    <3>. QED BY <3>2
  <2>7. (way[i].addr - (way[h].addr + way[h].len)) % Size = way[i].addr - (way[h].addr + way[h].len)
    BY ONLY <2>6, Small
  <2>8. W[i] = way[i].addr - from
    BY ONLY <2>1, <2>3, <2>4, <2>7, from \in Nat
  <2>. QED BY <2>8
<1>. HIDE DEF S
<1>5. \A n \in Nat : n \in S
  BY ONLY <1>3, <1>4, Inductive
<1>6. ASSUME NEW i \in 1 .. m PROVE W[i] = way[i].addr - from
  <2>1. i - 1 \in Nat /\ (i - 1) + 1 = i
    BY <1>0
  <2>. QED BY <1>5, <2>1 DEF S
<1>. QED BY <1>6 DEF W

(***************************************************************************)
(* read_mem, with the blocks and the address of the label as parameters.   *)
(***************************************************************************)
From(way, addr) == IF addr > way[1].addr THEN way[1].addr ELSE addr
Hits(way, addr, k) ==
  {i \in DOMAIN way : /\ Walked(way, From(way, addr))[i] <= k + addr - From(way, addr)
                      /\ k + addr - From(way, addr) < Walked(way, From(way, addr))[i] + way[i].len}
Off(way, addr, k, i) == k + addr - From(way, addr) - Walked(way, From(way, addr))[i]

\* read_mem gives the byte in one of the blocks that are hit.
LEMMA ReadMemIs ==
  ASSUME NEW k
  PROVE  ReadMem(k) = IF Hits(Path, mark.addr, k) = {} THEN -1
                      ELSE LET i == CHOOSE j \in Hits(Path, mark.addr, k) : TRUE
                           IN Path[i].p + (k + mark.addr - From(Path, mark.addr))
                                - Walked(Path, From(Path, mark.addr))[i]
BY DEF ReadMem, Hits, From

\* What the blocks on the way hold are numbers.
LEMMA WayNumbers ==
  ASSUME NEW way \in Seq(Block), NEW i \in DOMAIN way
  PROVE  way[i].p \in Nat /\ way[i].addr \in Nat /\ way[i].len \in Nat
<1>1. way[i] \in Block
  OBVIOUS
<1>. QED BY <1>1 DEF Block

\* It starts at the label, or at the first block when that begins before it.
LEMMA FromInt ==
  ASSUME NEW way \in Seq(Block), way # <<>>, NEW addr \in Nat
  PROVE  /\ From(way, addr) \in Nat /\ From(way, addr) <= way[1].addr
         /\ 1 \in DOMAIN way /\ way[1].addr \in Nat
<1>1. 1 \in DOMAIN way
  <2>1. Len(way) \in Nat /\ Len(way) # 0 /\ DOMAIN way = 1 .. Len(way)
    OBVIOUS
  <2>. QED BY <2>1
<1>2. way[1].addr \in Nat
  BY <1>1, WayNumbers
<1>. QED BY <1>1, <1>2 DEF From

\* A block that is hit has the byte, at the address that was asked for.
LEMMA HitIs ==
  ASSUME NEW way \in Seq(Block), way # <<>>, NEW addr \in Nat, NEW k \in Nat, NEW i \in Hits(way, addr, k)
  PROVE  /\ Off(way, addr, k, i) \in 0 .. way[i].len - 1
         /\ way[i].addr + Off(way, addr, k, i) < Size => way[i].addr + Off(way, addr, k, i) = (addr + k) % Size
         /\ i = 1 /\ way[1].addr < addr => Off(way, addr, k, i) = k + addr - way[1].addr
<1>. PICK f \in Nat : f = From(way, addr)
  BY FromInt
<1>0. i \in DOMAIN way /\ 1 \in DOMAIN way /\ way[1].addr \in Nat /\ DOMAIN way = 1 .. Len(way)
  <2>1. i \in DOMAIN way
    BY DEF Hits
  <2>2. DOMAIN way = 1 .. Len(way)
    OBVIOUS
  <2>. QED BY <2>1, <2>2, FromInt
<1>1. way[i].addr \in Nat /\ way[i].len \in Nat
  BY <1>0, WayNumbers
<1>. PICK x \in Nat, l \in Nat : x = way[i].addr /\ l = way[i].len
  BY <1>1
<1>2. PICK q \in Int : Walked(way, f)[i] = way[i].addr - f + q * Size
  BY <1>0, WalkedMod
<1>. PICK w : w = Walked(way, f)[i]
  OBVIOUS
<1>. PICK u \in Int : u = q * Size
  BY SizeNat
<1>3. w = x - f + u /\ w \in Int
  BY <1>1, <1>2
<1>4. w <= k + addr - f /\ k + addr - f < w + l
  BY DEF Hits
<1>5. Off(way, addr, k, i) = k + addr - f - w
  BY DEF Off
<1>. PICK o \in Int : o = k + addr - f - w
  BY <1>3
<1>6. o \in 0 .. l - 1
  BY ONLY <1>3, <1>4, o \in Int, o = k + addr - f - w, l \in Nat, k \in Nat, addr \in Nat, f \in Nat
<1>7. way[i].addr + o < Size => way[i].addr + o = (addr + k) % Size
  <2>. SUFFICES ASSUME way[i].addr + o < Size PROVE way[i].addr + o = (addr + k) % Size
    OBVIOUS
  <2>. PICK r : r = x + o
    OBVIOUS
  <2>1. r \in 0 .. Size - 1
    <3>1. x + o < Size
      OBVIOUS
    <3>. QED BY ONLY <1>6, <3>1, r = x + o, x \in Nat, l \in Nat, SizeNat
  <2>2. addr + k = u + r
    BY ONLY <1>3, r = x + o, o = k + addr - f - w, x \in Nat, k \in Nat, addr \in Nat, f \in Nat, u \in Int
  <2>3. (q * Size + r) % Size = r
    BY <2>1, Remainder, SizeNat
  <2>. QED BY <2>2, <2>3
<1>8. i = 1 /\ way[1].addr < addr => o = k + addr - way[1].addr
  <2>. SUFFICES ASSUME i = 1, way[1].addr < addr PROVE o = k + addr - way[1].addr
    OBVIOUS
  <2>1. f = way[1].addr
    BY <1>0 DEF From
  <2>2. w = (way[1].addr - f) % Size
    BY <1>0, WalkedIs
  <2>3. way[1].addr - f = 0 /\ 0 \in 0 .. AllMem2
    BY <1>0, <2>1, SizeNat
  <2>4. w = 0
    BY <2>2, <2>3, Small
  <2>. QED BY <1>0, <2>1, <2>4
<1>. QED BY <1>5, <1>6, <1>7, <1>8

\* The way from the label: the blocks since then, and the bytes without one.
LEMMA PathIs ==
  ASSUME Inv, MarkOK(mark, data, memp)
  PROVE  /\ Path \in Seq(Block) /\ Path # <<>>
         /\ Len(Path) = Len(data) + 2 - mark.membp /\ Path[Len(Path)] = OpenBlock
         /\ \A j \in 1 .. Len(Path) - 1 :
              mark.membp + j - 1 \in Since(mark, data) /\ Path[j] = data[mark.membp + j - 1]
<1>. PICK b : b = mark.membp
  OBVIOUS
<1>1. data \in Seq(Block) /\ Len(data) \in Nat /\ DOMAIN data = 1 .. Len(data) /\ b \in 1 .. Len(data) + 1
  <2>1. data \in Seq(Block) /\ b \in 1 .. Len(data) + 1
    BY DEF Inv, Blocks, Partition, MarkOK, Marked
  <2>. QED BY <2>1
<1>2. OpenBlock \in Block
  <2>1. lastp \in Nat /\ lastaddr \in Nat /\ memp - lastp \in Nat
    BY SizeNat DEF Inv, TypeOK, Address
  <2>. QED BY <2>1 DEF OpenBlock, Pending, Block
<1>. DEFINE s == SubSeq(data, b, Len(data))
<1>3. s \in Seq(Block) /\ Len(s) = Len(data) + 1 - b /\ \A j \in 1 .. Len(s) : s[j] = data[b + j - 1]
  <2>1. s \in Seq(Block)
    <3>1. \A i \in b .. Len(data) : data[i] \in Block
      BY <1>1
    <3>. QED BY <1>1, <3>1
  <2>2. Len(s) = Len(data) + 1 - b
    BY <1>1
  <2>3. \A j \in 1 .. Len(s) : s[j] = data[b + j - 1]
    BY <1>1, <2>2
  <2>. QED BY <2>1, <2>2, <2>3
<1>4. Path = Append(s, OpenBlock)
  BY DEF Path
<1>. HIDE DEF s
<1>. PICK n \in Nat : n = Len(s)
  BY <1>3
<1>5. Path \in Seq(Block) /\ Len(Path) = n + 1 /\ Path[n + 1] = OpenBlock /\ \A j \in 1 .. n : Path[j] = s[j]
  BY <1>2, <1>3, <1>4
<1>6. \A j \in 1 .. n : b + j - 1 \in Since(mark, data)
  BY <1>1, <1>3 DEF Since
<1>7. Path # <<>> /\ Len(Path) - 1 = n
  BY <1>5
<1>. QED BY <1>1, <1>3, <1>5, <1>6, <1>7

\* The address of a byte, with the list of blocks as a parameter
LEMMA AddrOfIs == ASSUME NEW p PROVE AddrOf(p) = AddrIn(data, lastp, lastaddr, p)
BY DEF AddrOf, AddrIn, Own, OwnOf, Holds

\* Where the bytes of a block on the way are
LEMMA PlaceOf ==
  ASSUME Inv, MarkOK(mark, data, memp), Low(data), Served(mark, data, lastp, lastaddr), todo = 0,
         NEW i \in DOMAIN Path, NEW o \in Nat, o < Path[i].len
  PROVE  /\ Path[i].p + o \in 0 .. memp - 1
         /\ AddrOf(Path[i].p + o) = Path[i].addr + o
         /\ Path[i].addr + o \in 0 .. Size - 1
<1>1. DOMAIN Path = 1 .. Len(Path) /\ Len(Path) \in Nat
  BY PathIs
<1>2. Partition(data, lastp) /\ lastp \in 0 .. memp /\ memp \in Nat /\ lastaddr \in Nat
  BY SizeNat DEF Inv, Blocks, TypeOK, Address
<1>3. CASE i = Len(Path)
  <2>1. Path[i] = OpenBlock
    BY <1>3, PathIs
  <2>2. Path[i].p = lastp /\ Path[i].addr = lastaddr /\ Path[i].len = memp - lastp
    BY <2>1 DEF OpenBlock, Pending
  <2>3. lastp + o \in 0 .. memp - 1 /\ lastp + o \in Nat /\ lastp + o >= lastp
    BY <1>2, <2>2
  <2>4. AddrOf(lastp + o) = lastaddr + (lastp + o) - lastp
    BY <1>2, <2>3, InOpen, AddrOfIs
  <2>5. lastaddr + (memp - lastp) <= AllMem2
    <3>1. Pos = lastaddr + (memp - lastp) /\ Pos \in 0 .. AllMem2
      BY PositionType DEF Inv, Blocks
    <3>. QED BY <1>2, <3>1, SizeNat
  <2>6. lastaddr + o \in 0 .. Size - 1
    BY <1>2, <2>2, <2>5, SizeNat
  <2>. QED BY <1>2, <2>2, <2>3, <2>4, <2>6
<1>4. CASE i # Len(Path)
  <2>1. i \in 1 .. Len(Path) - 1
    BY <1>1, <1>4
  <2>. PICK j \in Since(mark, data) : Path[i] = data[j]
    BY <2>1, PathIs
  <2>2. j \in OwnOf(data)
    BY DEF Since, Served, OwnOf
  <2>. PICK b \in Block : b = Path[i]
    BY <1>2, <2>2, Typed DEF Partition, OwnOf
  <2>3. b.p \in Nat /\ b.addr \in Nat /\ b.len \in Nat
    BY DEF Block
  <2>4. b.p + b.len <= lastp /\ b.addr + b.len <= Size
    BY <1>2, <2>2 DEF Partition, Low
  <2>5. b.p + o \in 0 .. memp - 1 /\ b.addr + o \in 0 .. Size - 1 /\ b.p + o \in Nat
    BY <1>2, <2>3, <2>4, SizeNat
  <2>6. Holds(data[j], b.p + o)
    BY <2>3 DEF Holds
  <2>8. data[j] = b
    OBVIOUS
  <2>9. AddrIn(data, lastp, lastaddr, b.p + o) = data[j].addr + (b.p + o) - data[j].p
    BY ONLY <1>2, <2>2, <2>5, <2>6, InBlock
  <2>7. AddrOf(b.p + o) = b.addr + (b.p + o) - b.p
    BY <2>8, <2>9, AddrOfIs
  <2>. QED BY <2>3, <2>5, <2>7
<1>. QED BY <1>3, <1>4

\* Only the first block on the way may begin before the label.
LEMMA PathServes ==
  ASSUME Inv, MarkOK(mark, data, memp), Served(mark, data, lastp, lastaddr), NEW i \in DOMAIN Path
  PROVE  Path[i].p >= mark.from \/ (i = 1 /\ mark.addr = Path[1].addr + (mark.from - Path[1].p))
<1>1. /\ Len(Path) = Len(data) + 2 - mark.membp /\ Path[Len(Path)] = OpenBlock
      /\ \A j \in 1 .. Len(Path) - 1 :
           mark.membp + j - 1 \in Since(mark, data) /\ Path[j] = data[mark.membp + j - 1]
      /\ Path \in Seq(Block)
  BY PathIs
<1>2. DOMAIN Path = 1 .. Len(Path) /\ Len(Path) \in Nat /\ Len(data) \in Nat /\ mark.membp \in Nat
  <2>1. data \in Seq(Block)
    BY DEF Inv, Blocks, Partition
  <2>2. Len(data) \in Nat /\ mark.membp \in Nat
    BY <2>1 DEF MarkOK, Marked
  <2>3. DOMAIN Path = 1 .. Len(Path) /\ Len(Path) \in Nat
    BY <1>1
  <2>. QED BY <2>2, <2>3
<1>3. CASE i = Len(Path)
  <2>1. Path[i].p = lastp /\ Path[i].addr = lastaddr
    BY <1>1, <1>3 DEF OpenBlock
  <2>2. mark.membp = Len(data) + 1 => i = 1
    BY <1>1, <1>2, <1>3
  <2>3. Serves(mark, mark.membp = Len(data) + 1, lastp, lastaddr)
    BY DEF Served
  <2>. QED BY <2>1, <2>2, <2>3 DEF Serves
<1>4. CASE i # Len(Path)
  <2>1. i \in 1 .. Len(Path) - 1
    BY <1>2, <1>4
  <2>. PICK j \in Since(mark, data) : j = mark.membp + i - 1 /\ Path[i] = data[j]
    BY <1>1, <2>1
  <2>2. j = mark.membp => i = 1
    BY <1>2
  <2>3. Serves(mark, j = mark.membp, data[j].p, data[j].addr)
    BY DEF Served
  <2>. QED BY <2>2, <2>3 DEF Serves
<1>. QED BY <1>3, <1>4

\* What is read was placed behind the label, at the address that was asked for.
LEMMA ReadsSound ==
  ASSUME Inv, MarkOK(mark, data, memp), Low(data), Served(mark, data, lastp, lastaddr), todo = 0,
         NEW k \in 0 .. AllMem2, ReadMem(k) # -1
  PROVE  /\ mark.from <= ReadMem(k) /\ ReadMem(k) < memp
         /\ AddrOf(ReadMem(k)) = (mark.addr + k) % Size
<1>. PICK h : h = Hits(Path, mark.addr, k)
  OBVIOUS
<1>1. h # {}
  BY ReadMemIs
<1>. PICK i : i = CHOOSE j \in h : TRUE
  OBVIOUS
<1>2. i \in h
  BY <1>1
<1>3. /\ Path \in Seq(Block) /\ Path # <<>> /\ mark.addr \in Nat /\ k \in Nat /\ mark.from \in Nat
      /\ memp \in Nat
  BY PathIs, SizeNat DEF MarkOK, Marked, Address, Inv, TypeOK
<1>4. i \in DOMAIN Path /\ 1 \in DOMAIN Path
  <2>1. i \in DOMAIN Path
    BY <1>2 DEF Hits
  <2>2. 1 \in DOMAIN Path
    BY <1>3, FromInt
  <2>. QED BY <2>1, <2>2
<1>. PICK f \in Nat : f = From(Path, mark.addr)
  BY <1>3, FromInt
<1>. PICK w : w = Walked(Path, f)[i]
  OBVIOUS
<1>5. w \in Int
  <2>1. Walked(Path, f) \in [1 .. Len(Path) -> Int]
    BY ONLY <1>3, f \in Nat, WalkedIs
  <2>2. i \in 1 .. Len(Path)
    BY <1>3, <1>4
  <2>. QED BY <2>1, <2>2
<1>6. ReadMem(k) = Path[i].p + (k + mark.addr - f) - w
  BY <1>1, ReadMemIs
<1>. PICK o : o = Off(Path, mark.addr, k, i)
  OBVIOUS
<1>7. o = k + mark.addr - f - w
  BY DEF Off
<1>8. /\ o \in 0 .. Path[i].len - 1
      /\ Path[i].addr + o < Size => Path[i].addr + o = (mark.addr + k) % Size
      /\ i = 1 /\ Path[1].addr < mark.addr => o = k + mark.addr - Path[1].addr
  <2>1. i \in Hits(Path, mark.addr, k)
    BY <1>2
  <2>. QED BY ONLY <1>3, <2>1, HitIs, o = Off(Path, mark.addr, k, i)
<1>. PICK x \in Nat, a \in Nat, l \in Nat : x = Path[i].p /\ a = Path[i].addr /\ l = Path[i].len
  BY <1>3, <1>4, WayNumbers
<1>9. o \in Nat /\ o < l
  BY <1>8
<1>10. ReadMem(k) = x + o
  <2>1. ReadMem(k) = x + (k + mark.addr - f) - w
    BY <1>6
  <2>. QED BY ONLY <2>1, <1>3, <1>5, <1>7, x \in Nat, f \in Nat
<1>11. x + o \in 0 .. memp - 1 /\ AddrOf(x + o) = a + o /\ a + o \in 0 .. Size - 1
  BY <1>4, <1>9, PlaceOf
<1>12. mark.from <= x + o
  <2>. PICK m \in Nat, y \in Nat : m = mark.from /\ y = mark.addr
    BY <1>3
  <2>1. CASE x >= m
    BY ONLY <1>9, <2>1, m = mark.from, m \in Nat, x \in Nat
  <2>2. CASE ~(x >= m)
    <3>1. i = 1 /\ y = a + (m - x)
      BY <1>4, <2>2, PathServes
    <3>2. a < y
      BY ONLY <2>2, <3>1, m \in Nat, x \in Nat, y \in Nat, a \in Nat
    <3>3. o = k + y - a
      BY <1>8, <3>1, <3>2
    <3>4. m <= x + o
      BY ONLY <1>3, <3>1, <3>3, m \in Nat, x \in Nat, y \in Nat, a \in Nat
    <3>. QED BY <3>4
  <2>. QED BY <2>1, <2>2
<1>. QED
  <2>1. x + o < memp
    BY <1>3, <1>11
  <2>2. a + o < Size
    BY <1>11, SizeNat
  <2>3. a + o = (mark.addr + k) % Size
    BY <1>8, <2>2
  <2>. QED BY <1>10, <1>11, <1>12, <2>1, <2>3
\* The first m blocks rise, and those behind are empty.
Climbs(way, m) ==
  /\ m \in 1 .. Len(way)
  /\ \A i, j \in 1 .. m : i < j => way[i].addr + way[i].len <= way[j].addr
  /\ \A i \in 1 .. m : way[i].addr < Size
  /\ \A j \in 1 .. Len(way) : j > m => way[j].len = 0
\* Byte o of block i is the byte k behind addr.
ByteAt(way, i, o, addr, k) ==
  o \in Nat /\ o < way[i].len /\ addr <= way[i].addr + o /\ k = way[i].addr + o - addr

\* On blocks that rise, one block is hit.
LEMMA HitOnly ==
  ASSUME NEW way \in Seq(Block), NEW addr \in Nat, NEW m, Climbs(way, m),
         NEW i \in 1 .. m, NEW o, NEW k, ByteAt(way, i, o, addr, k)
  PROVE  Hits(way, addr, k) = {i} /\ Off(way, addr, k, i) = o
<1>. PICK N \in Nat : N = Len(way)
  OBVIOUS
<1>9. /\ \A u, j \in 1 .. m : u < j => way[u].addr + way[u].len <= way[j].addr
      /\ \A u \in 1 .. m : way[u].addr < Size
      /\ \A j \in 1 .. N : j > m => way[j].len = 0
      /\ m \in 1 .. N
  BY DEF Climbs
<1>10. o \in Nat /\ o < way[i].len /\ addr <= way[i].addr + o /\ k = way[i].addr + o - addr
  BY DEF ByteAt
<1>. USE <1>9, <1>10
<1>1. DOMAIN way = 1 .. N /\ m \in 1 .. N /\ way # <<>> /\ m \in Nat
  OBVIOUS
<1>. PICK f \in Nat : f = From(way, addr)
  BY <1>1, FromInt
<1>2. f <= way[1].addr
  BY <1>1, FromInt
<1>. PICK W : W = Walked(way, f)
  OBVIOUS
<1>3. \A j \in 1 .. N : way[j].addr \in Nat /\ way[j].len \in Nat /\ W[j] \in Int
  <2>1. W \in [1 .. N -> Int]
    BY WalkedIs
  <2>. QED BY <1>1, <2>1, WayNumbers
<1>4. \A j \in 1 .. m : W[j] = way[j].addr - f
  <2>1. \A j \in 1 .. m : j # 1 => way[j - 1].addr + way[j - 1].len <= way[j].addr
    <3>. SUFFICES ASSUME NEW j \in 1 .. m, j # 1 PROVE way[j - 1].addr + way[j - 1].len <= way[j].addr
      OBVIOUS
    <3>1. j - 1 \in 1 .. m /\ j - 1 < j
      BY <1>1
    <3>. QED BY <3>1
  <2>. QED BY <1>2, <2>1, WalkedExact
<1>0. i \in 1 .. N
  BY <1>1
<1>. PICK x \in Nat, l \in Nat : x = way[i].addr /\ l = way[i].len
  BY <1>0, <1>3
<1>5. k + addr - f = x + o - f
  BY ONLY k = way[i].addr + o - addr, x = way[i].addr, x \in Nat, o \in Nat, addr \in Nat, f \in Nat
<1>6. ASSUME NEW j \in 1 .. N
      PROVE  (W[j] <= x + o - f /\ x + o - f < W[j] + way[j].len) <=> j = i
  <2>. PICK y \in Nat, n \in Nat, w \in Int : y = way[j].addr /\ n = way[j].len /\ w = W[j]
    BY <1>3
  <2>. SUFFICES (w <= x + o - f /\ x + o - f < w + n) <=> j = i
    OBVIOUS
  <2>0. x \in Nat /\ l \in Nat /\ y \in Nat /\ n \in Nat /\ w \in Int /\ f \in Nat /\ o \in Nat /\ o < l
    OBVIOUS
  <2>1. CASE j = i
    <3>1. w = x - f /\ n = l
      BY <1>4, <2>1
    <3>. QED BY ONLY <2>0, <2>1, <3>1
  <2>2. CASE j > m
    <3>1. n = 0
      BY <2>2
    <3>2. j # i
      BY <2>2
    <3>3. ~(w <= x + o - f /\ x + o - f < w + n)
      BY ONLY <2>0, <3>1
    <3>. QED BY <3>2, <3>3
  <2>3. CASE j \in 1 .. m /\ j < i
    <3>1. w = y - f /\ y + n <= x
      BY <1>4, <2>3
    <3>2. j # i
      BY <2>3
    <3>3. ~(w <= x + o - f /\ x + o - f < w + n)
      BY ONLY <2>0, <3>1
    <3>. QED BY <3>2, <3>3
  <2>4. CASE j \in 1 .. m /\ i < j
    <3>1. w = y - f /\ x + l <= y
      BY <1>4, <2>4
    <3>2. j # i
      BY <2>4
    <3>3. ~(w <= x + o - f /\ x + o - f < w + n)
      BY ONLY <2>0, <3>1
    <3>. QED BY <3>2, <3>3
  <2>. QED BY <1>1, <2>1, <2>2, <2>3, <2>4
<1>7. Hits(way, addr, k) = {i}
  <2>1. Hits(way, addr, k) = {j \in 1 .. N : W[j] <= x + o - f /\ x + o - f < W[j] + way[j].len}
    BY <1>1, <1>5 DEF Hits
  <2>. QED BY ONLY <1>0, <1>6, <2>1
<1>8. Off(way, addr, k, i) = o
  <2>. PICK z \in Int : z = x + o - f
    OBVIOUS
  <2>3. z = k + addr - f
    BY <1>5
  <2>1. Off(way, addr, k, i) = z - W[i]
    <3>1. Off(way, addr, k, i) = k + addr - From(way, addr) - Walked(way, From(way, addr))[i]
      BY DEF Off
    <3>2. From(way, addr) = f
      OBVIOUS
    <3>3. Walked(way, From(way, addr))[i] = W[i]
      BY ONLY <3>2, W = Walked(way, f)
    <3>4. k + addr - From(way, addr) = z
      BY ONLY <2>3, <3>2
    <3>7. k = x + o - addr /\ o \in Nat
      BY <1>10
    <3>8. k \in Int
      BY ONLY <3>7, x \in Nat, addr \in Nat
    <3>5. k \in Int /\ W[i] \in Int
      BY <1>0, <1>3, <3>8
    <3>6. Off(way, addr, k, i) = k + addr - f - W[i]
      BY ONLY <3>1, <3>2, <3>3
    <3>. QED BY ONLY <3>6, <2>3, <3>5, addr \in Nat, f \in Nat
  <2>2. W[i] = x - f
    BY <1>4
  <2>. QED BY ONLY <2>1, <2>2, z = x + o - f, x \in Nat, o \in Nat, f \in Nat
<1>. QED BY <1>7, <1>8

\* Each byte behind the label is in a block on the way.
LEMMA OnPath ==
  ASSUME Inv, MarkOK(mark, data, memp), Served(mark, data, lastp, lastaddr), NEW p \in mark.from .. memp - 1
  PROVE  \E i \in DOMAIN Path : Path[i].p <= p /\ p < Path[i].p + Path[i].len
<1>1. /\ Len(Path) = Len(data) + 2 - mark.membp /\ Path[Len(Path)] = OpenBlock
      /\ \A j \in 1 .. Len(Path) - 1 :
           mark.membp + j - 1 \in Since(mark, data) /\ Path[j] = data[mark.membp + j - 1]
      /\ DOMAIN Path = 1 .. Len(Path) /\ Path # <<>>
  <2>1. Path \in Seq(Block)
    BY PathIs
  <2>. QED BY <2>1, PathIs
<1>2. /\ Partition(data, lastp) /\ lastp \in Nat /\ lastp <= memp /\ memp \in Nat
      /\ DOMAIN data = 1 .. Len(data) /\ Len(data) \in Nat
      /\ mark.from \in Nat /\ p \in Nat /\ mark.from <= p /\ p < memp /\ mark.membp \in 1 .. Len(data) + 1
  <2>1. Partition(data, lastp) /\ lastp \in 0 .. memp /\ memp \in Nat
    BY DEF Inv, Blocks, TypeOK
  <2>2. DOMAIN data = 1 .. Len(data) /\ Len(data) \in Nat
    BY <2>1 DEF Partition
  <2>3. mark.from \in Nat /\ mark.membp \in 1 .. Len(data) + 1
    BY DEF MarkOK, Marked
  <2>. QED BY <2>1, <2>2, <2>3
<1>3. CASE p >= lastp
  <2>1. Len(Path) \in DOMAIN Path
    BY <1>1, <1>2
  <2>2. Path[Len(Path)].p = lastp /\ Path[Len(Path)].len = memp - lastp
    BY <1>1 DEF OpenBlock, Pending
  <2>3. lastp <= p /\ p < lastp + (memp - lastp)
    BY <1>2, <1>3
  <2>. QED BY <2>1, <2>2, <2>3
<1>4. CASE ~(p >= lastp)
  <2>1. p \in 0 .. lastp - 1
    BY <1>2, <1>4
  <2>2. PICK j \in OwnOf(data) : Holds(data[j], p)
    BY <1>2, <2>1 DEF Partition
  <2>3. data[j].p \in Nat /\ data[j].len \in Nat /\ j \in DOMAIN data
    BY <1>2, WayNumbers DEF OwnOf, Partition
  <2>4. ~(j < mark.membp)
    <3>1. p < data[j].p + data[j].len
      BY <2>2 DEF Holds
    <3>2. j < mark.membp => data[j].p + data[j].len <= mark.from
      BY DEF Served
    <3>. QED BY <1>2, <2>3, <3>1, <3>2
  <2>. PICK i : i = j - mark.membp + 1
    OBVIOUS
  <2>9. mark.membp \in Nat
    BY <1>2
  <2>10. Len(Path) \in Nat
    BY <1>2
  <2>. PICK b \in Nat, n \in Nat, l \in Nat : b = mark.membp /\ n = Len(data) /\ l = Len(Path)
    BY <1>2, <2>9, <2>10
  <2>7. j \in 1 .. n /\ ~(j < b) /\ b \in 1 .. n + 1 /\ i = j - b + 1 /\ l = n + 2 - b /\ DOMAIN Path = 1 .. l
    BY <1>1, <1>2, <2>3, <2>4
  <2>8. i \in 1 .. l - 1 /\ b + i - 1 = j /\ i \in 1 .. l
    BY ONLY <2>7, n \in Nat
  <2>5. i \in 1 .. Len(Path) - 1 /\ mark.membp + i - 1 = j /\ i \in DOMAIN Path
    BY <2>7, <2>8
  <2>6. Path[i] = data[j]
    BY <1>1, <2>5
  <2>. QED BY <2>2, <2>5, <2>6 DEF Holds
<1>. QED BY <1>3, <1>4

\* The blocks on the way rise, but for the last one, which is empty when the
\* top was passed.
LEMMA PathRises ==
  ASSUME Inv, MarkOK(mark, data, memp), Low(data), Served(mark, data, lastp, lastaddr),
         Straight(mark, data, lastp, lastaddr, memp, Pos, todo, at, open),
         NEW h \in DOMAIN Path, Path[h].len # 0
  PROVE  \E m \in 1 .. Len(Path) :
           /\ h \in 1 .. m /\ Climbs(Path, m)
           /\ \A i \in 1 .. m : Path[i].p >= mark.from => Path[i].addr >= mark.addr
<1>1. /\ Path[Len(Path)] = OpenBlock
      /\ \A j \in 1 .. Len(Path) - 1 :
           mark.membp + j - 1 \in Since(mark, data) /\ Path[j] = data[mark.membp + j - 1]
  BY PathIs
<1>2. Path \in Seq(Block) /\ Path # <<>> /\ mark.membp \in Nat
  BY PathIs DEF MarkOK, Marked
<1>. PICK n \in Nat : n = Len(Path) /\ n # 0 /\ DOMAIN Path = 1 .. n
  BY <1>2
<1>. PICK b \in Nat : b = mark.membp
  BY <1>2
<1>. PICK P \in Seq(Block) : P = Path
  BY <1>2
<1>3. P[n].p = lastp /\ P[n].addr = lastaddr /\ P[n].len = memp - lastp
  BY <1>1 DEF OpenBlock, Pending
<1>4. \A j \in 1 .. n - 1 : b + j - 1 \in Since(mark, data) /\ P[j] = data[b + j - 1]
  BY <1>1
<1>5. Rising(mark, data)
  BY DEF Straight
<1>6. ASSUME NEW i \in 1 .. n - 1, NEW j \in 1 .. n - 1, i < j PROVE P[i].addr + P[i].len <= P[j].addr
  <2>1. b + i - 1 < b + j - 1
    BY <1>6
  <2>. QED BY <1>4, <1>5, <2>1 DEF Rising
<1>7. ASSUME NEW i \in 1 .. n - 1
      PROVE  P[i].addr < Size /\ (P[i].p >= mark.from => P[i].addr >= mark.addr)
  <2>. PICK e \in Since(mark, data) : P[i] = data[e]
    BY <1>4
  <2>1. e \in OwnOf(data)
    BY DEF Since, Served, OwnOf
  <2>2. data[e].addr < Size
    BY <2>1 DEF Low
  <2>3. data[e].p >= mark.from => data[e].addr >= mark.addr
    BY <1>5 DEF Rising
  <2>. QED BY <2>2, <2>3
<1>8. CASE Above(mark, data, lastp, lastaddr)
  <2>1. lastaddr < Size
    <3>1. lastaddr \in 0 .. AllMem2
      BY DEF Inv, TypeOK, Address
    <3>. QED BY <3>1, SizeNat
  <2>2. ASSUME NEW i \in 1 .. n - 1 PROVE P[i].addr + P[i].len <= P[n].addr
    BY <1>3, <1>4, <1>8 DEF Above
  <2>3. lastp >= mark.from => lastaddr >= mark.addr
    BY <1>8 DEF Above
  <2>4. \A i \in 1 .. n : i \in 1 .. n - 1 \/ i = n
    OBVIOUS
  <2>5. \A i, j \in 1 .. n : i < j => P[i].addr + P[i].len <= P[j].addr
    <3>. SUFFICES ASSUME NEW i \in 1 .. n, NEW j \in 1 .. n, i < j PROVE P[i].addr + P[i].len <= P[j].addr
      OBVIOUS
    <3>1. i \in 1 .. n - 1
      OBVIOUS
    <3>2. CASE j = n
      BY <2>2, <3>1, <3>2
    <3>3. CASE j \in 1 .. n - 1
      BY <1>6, <3>1, <3>3
    <3>. QED BY <2>4, <3>2, <3>3
  <2>6. \A i \in 1 .. n : P[i].addr < Size /\ (P[i].p >= mark.from => P[i].addr >= mark.addr)
    BY <1>3, <1>7, <2>1, <2>3, <2>4
  <2>7. n \in 1 .. n /\ h \in 1 .. n /\ \A j \in 1 .. n : ~(j > n)
    OBVIOUS
  <2>8. Climbs(Path, n)
    BY <2>5, <2>6, <2>7 DEF Climbs
  <2>. QED BY <2>6, <2>7, <2>8
<1>9. CASE Over(lastp, lastaddr, memp, todo, at, open)
  <2>1. P[n].len = 0
    <3>1. lastp = memp /\ memp \in Nat
      BY <1>9 DEF Over, Inv, TypeOK
    <3>. QED BY <1>3, <3>1
  <2>2. h \in 1 .. n - 1 /\ n - 1 \in 1 .. n
    <3>1. h # n /\ h \in 1 .. n
      BY <2>1
    <3>. QED BY <3>1
  <2>3. \A j \in 1 .. n : j > n - 1 => j = n
    OBVIOUS
  <2>. PICK m \in 1 .. n : m = n - 1
    BY <2>2
  <2>4. \A i, j \in 1 .. m : i < j => Path[i].addr + Path[i].len <= Path[j].addr
    BY ONLY <1>6, m = n - 1, P = Path
  <2>5. \A i \in 1 .. m : Path[i].addr < Size /\ (Path[i].p >= mark.from => Path[i].addr >= mark.addr)
    BY ONLY <1>7, m = n - 1, P = Path
  <2>6. \A j \in 1 .. n : j > m => Path[j].len = 0
    BY <2>1, <2>3
  <2>7. Climbs(Path, m)
    BY <2>2, <2>4, <2>5, <2>6 DEF Climbs
  <2>. QED BY <2>2, <2>5, <2>7
<1>. QED BY <1>8, <1>9 DEF Straight

\* All of what was placed behind the label is read.
LEMMA ReadsComplete ==
  ASSUME Inv, MarkOK(mark, data, memp), Low(data), Served(mark, data, lastp, lastaddr), todo = 0,
         Straight(mark, data, lastp, lastaddr, memp, Pos, todo, at, open),
         NEW p \in mark.from .. memp - 1
  PROVE  ReadMem((AddrOf(p) - mark.addr) % Size) = p
<1>1. /\ Path \in Seq(Block) /\ Path # <<>> /\ mark.addr \in Nat /\ mark.from \in Nat /\ memp \in Nat
      /\ p \in Nat /\ mark.from <= p
  <2>1. mark.from \in Nat /\ mark.addr \in Nat
    BY SizeNat DEF MarkOK, Marked, Address
  <2>2. memp \in Nat
    BY DEF Inv, TypeOK
  <2>. QED BY <2>1, <2>2, PathIs
<1>. PICK i \in DOMAIN Path : Path[i].p <= p /\ p < Path[i].p + Path[i].len
  BY OnPath
<1>. PICK x \in Nat, a \in Nat, l \in Nat : x = Path[i].p /\ a = Path[i].addr /\ l = Path[i].len
  BY <1>1, WayNumbers
<1>. PICK o \in Nat : o = p - x
  BY <1>1
<1>2. o < l /\ x + o = p /\ l # 0
  <2>1. p < x + l /\ p \in Nat
    BY <1>1
  <2>. QED BY ONLY <2>1, o = p - x, o \in Nat, x \in Nat, l \in Nat
<1>3. AddrOf(p) = a + o /\ a + o \in 0 .. Size - 1
  BY <1>2, PlaceOf
<1>. PICK m \in 1 .. Len(Path) :
           /\ i \in 1 .. m /\ Climbs(Path, m)
           /\ \A u \in 1 .. m : Path[u].p >= mark.from => Path[u].addr >= mark.addr
  BY <1>2, PathRises
<1>4. mark.addr <= a + o
  <2>. PICK y \in Nat, f \in Nat : y = mark.addr /\ f = mark.from
    BY <1>1
  <2>1. CASE x >= f
    <3>1. a >= y
      BY <2>1
    <3>. QED BY ONLY <3>1, y = mark.addr, y \in Nat, a \in Nat, o \in Nat
  <2>2. CASE ~(x >= f)
    <3>1. y = a + (f - x)
      BY <2>2, PathServes
    <3>. QED BY ONLY <1>1, <1>2, <3>1, y = mark.addr, f = mark.from, y \in Nat, f \in Nat, a \in Nat, o \in Nat, x \in Nat
  <2>. QED BY <2>1, <2>2
<1>. PICK k : k = a + o - mark.addr
  OBVIOUS
<1>5. k \in 0 .. AllMem2
  <2>. PICK y \in Nat : y = mark.addr
    BY <1>1
  <2>. QED BY ONLY <1>3, <1>4, k = a + o - mark.addr, y = mark.addr, y \in Nat, SizeNat
<1>6. (AddrOf(p) - mark.addr) % Size = k
  <2>1. AddrOf(p) - mark.addr = k
    <3>1. AddrOf(p) = a + o /\ mark.addr \in Nat
      BY <1>1, <1>3
    <3>. QED BY ONLY <3>1, k = a + o - mark.addr, a \in Nat, o \in Nat
  <2>2. k % Size = k
    BY ONLY <1>5, Small
  <2>. QED BY ONLY <2>1, <2>2
<1>7. Hits(Path, mark.addr, k) = {i} /\ Off(Path, mark.addr, k, i) = o
  <2>. PICK way \in Seq(Block) : way = Path
    BY <1>1
  <2>. PICK y \in Nat : y = mark.addr
    BY <1>1
  <2>1. ByteAt(way, i, o, y, k)
    BY <1>2, <1>4 DEF ByteAt
  <2>2. Hits(way, y, k) = {i} /\ Off(way, y, k, i) = o
    BY ONLY <2>1, HitOnly, way \in Seq(Block), y \in Nat, i \in 1 .. m, Climbs(Path, m), way = Path
  <2>. QED BY ONLY <2>2, way = Path, y = mark.addr
<1>8. ReadMem(k) = x + o
  <2>1. (CHOOSE j \in {i} : TRUE) = i
    OBVIOUS
  <2>. PICK f \in Nat : f = From(Path, mark.addr)
    BY <1>1, FromInt
  <2>. PICK w : w = Walked(Path, f)[i]
    OBVIOUS
  <2>2. w \in Int
    <3>1. Walked(Path, f) \in [1 .. Len(Path) -> Int]
      <4>1. f \in Int
        OBVIOUS
      <4>. QED BY ONLY <1>1, <4>1, WalkedIs
    <3>2. i \in 1 .. Len(Path)
      BY <1>1
    <3>. QED BY <3>1, <3>2
  <2>3. ReadMem(k) = x + (k + mark.addr - f) - w
    BY <1>7, <2>1, ReadMemIs
  <2>4. o = k + mark.addr - f - w
    BY <1>7 DEF Off
  <2>5. k \in Int
    BY <1>5
  <2>. QED BY ONLY <1>1, <2>2, <2>3, <2>4, <2>5, x \in Nat, f \in Nat
<1>. QED BY <1>2, <1>6, <1>8

\* The invariant is enough for what read_mem promises.
LEMMA ReadsFollow == Inv /\ ReadInv => ReadsBack
<1>. SUFFICES ASSUME Inv, ReadInv, todo = 0, ~mark.refs
              PROVE  /\ \A k \in 0 .. AllMem2 :
                          LET p == ReadMem(k)
                          IN p # -1 => mark.from <= p /\ p < memp /\ AddrOf(p) = (mark.addr + k) % Size
                     /\ mark.straight /\ "wrap" \notin errors =>
                          \A p \in mark.from .. memp - 1 : ReadMem((AddrOf(p) - mark.addr) % Size) = p
  BY DEF ReadsBack
<1>1. /\ MarkOK(mark, data, memp) /\ Low(data) /\ Served(mark, data, lastp, lastaddr)
      /\ mark.straight /\ "wrap" \notin errors =>
           Straight(mark, data, lastp, lastaddr, memp, Pos, todo, at, open)
  BY DEF ReadInv
<1>2. \A k \in 0 .. AllMem2 : ReadMem(k) # -1 =>
        /\ mark.from <= ReadMem(k) /\ ReadMem(k) < memp
        /\ AddrOf(ReadMem(k)) = (mark.addr + k) % Size
  BY <1>1, ReadsSound
<1>3. mark.straight /\ "wrap" \notin errors =>
        \A p \in mark.from .. memp - 1 : ReadMem((AddrOf(p) - mark.addr) % Size) = p
  BY <1>1, ReadsComplete
<1>. QED BY <1>2, <1>3

(***************************************************************************)
(* A block that is closed.                                                 *)
(***************************************************************************)
\* The list when a block is added
LEMMA OneBlock ==
  ASSUME NEW d \in Seq(Block), NEW b \in Block
  PROVE  /\ Append(d, b) \in Seq(Block) /\ Len(Append(d, b)) = Len(d) + 1
         /\ DOMAIN Append(d, b) = 1 .. Len(d) + 1 /\ DOMAIN d = 1 .. Len(d) /\ Len(d) \in Nat
         /\ \A i \in DOMAIN d : Append(d, b)[i] = d[i] /\ i # Len(d) + 1
         /\ Append(d, b)[Len(d) + 1] = b
         /\ \A i \in DOMAIN Append(d, b) : i \in DOMAIN d \/ i = Len(d) + 1
<1>1. /\ Append(d, b) \in Seq(Block) /\ Len(Append(d, b)) = Len(d) + 1
      /\ DOMAIN d = 1 .. Len(d) /\ Len(d) \in Nat
      /\ Append(d, b)[Len(d) + 1] = b
  OBVIOUS
<1>2. DOMAIN Append(d, b) = 1 .. Len(d) + 1
  BY <1>1
<1>3. \A i \in DOMAIN d : Append(d, b)[i] = d[i] /\ i # Len(d) + 1
  BY <1>1
<1>. QED BY <1>1, <1>2, <1>3

\* The label stays where it was, and the blocks since then serve it.
LEMMA BlockServes ==
  ASSUME NEW d \in Seq(Block), NEW b \in Block, ~b.ref, NEW k, NEW m \in Nat, MarkOK(k, d, m),
         Low(d), b.addr < Size, b.addr + b.len <= Size, NEW n \in Nat, m <= n, NEW lb \in Nat
  PROVE  /\ MarkOK(k, Append(d, b), n) /\ Low(Append(d, b))
         /\ Served(k, d, b.p, b.addr) => Served(k, Append(d, b), n, lb)
<1>. PICK e \in Seq(Block) : e = Append(d, b)
  BY OneBlock
<1>1. /\ Len(e) = Len(d) + 1 /\ DOMAIN e = 1 .. Len(d) + 1 /\ DOMAIN d = 1 .. Len(d) /\ Len(d) \in Nat
      /\ \A i \in DOMAIN d : e[i] = d[i] /\ i # Len(d) + 1
      /\ e[Len(d) + 1] = b
      /\ \A i \in DOMAIN e : i \in DOMAIN d \/ i = Len(d) + 1
  BY OneBlock
<1>2. k.membp \in Nat /\ k.membp <= Len(d) + 1 /\ k.from \in Nat /\ k.from <= n
  BY <1>1 DEF MarkOK, Marked
<1>3. MarkOK(k, e, n)
  <2>1. k.membp \in 1 .. Len(e) + 1 /\ k.from \in 0 .. n
    BY <1>1, <1>2 DEF MarkOK, Marked
  <2>. QED BY <2>1 DEF MarkOK, Marked
<1>4. Low(e)
  <2>. SUFFICES ASSUME NEW i \in OwnOf(e) PROVE e[i].addr < Size /\ e[i].addr + e[i].len <= Size
    BY DEF Low
  <2>1. CASE i \in DOMAIN d
    <3>1. e[i] = d[i] /\ i \in OwnOf(d)
      BY <1>1, <2>1 DEF OwnOf
    <3>. QED BY <3>1 DEF Low
  <2>2. CASE i = Len(d) + 1
    BY <1>1, <2>2
  <2>. QED BY <1>1, <2>1, <2>2 DEF OwnOf
<1>5. ASSUME Served(k, d, b.p, b.addr) PROVE Served(k, e, n, lb)
  <2>1. ASSUME NEW i \in OwnOf(e), i < k.membp PROVE e[i].p + e[i].len <= k.from
    <3>1. i \in DOMAIN d
      <4>1. i # Len(d) + 1 /\ i \in DOMAIN e
        BY <1>1, <1>2, <2>1 DEF OwnOf
      <4>. QED BY <1>1, <4>1
    <3>2. e[i] = d[i] /\ i \in OwnOf(d)
      BY <1>1, <3>1 DEF OwnOf
    <3>. QED BY <1>5, <2>1, <3>2 DEF Served
  <2>2. ASSUME NEW i \in Since(k, e) PROVE ~e[i].ref /\ Serves(k, i = k.membp, e[i].p, e[i].addr)
    <3>1. CASE i \in DOMAIN d
      <4>1. e[i] = d[i] /\ i \in Since(k, d)
        BY <1>1, <3>1 DEF Since
      <4>. QED BY <1>5, <4>1 DEF Served
    <3>2. CASE i = Len(d) + 1
      <4>1. e[i] = b /\ Serves(k, k.membp = Len(d) + 1, b.p, b.addr)
        BY <1>1, <1>5, <3>2 DEF Served
      <4>2. k.membp = Len(d) + 1 => i = k.membp
        BY <3>2
      <4>. QED BY <4>1, <4>2 DEF Serves
    <3>. QED BY <1>1, <3>1, <3>2 DEF Since
  <2>3. Serves(k, k.membp = Len(e) + 1, n, lb)
    BY <1>2 DEF Serves
  <2>. QED BY <2>1, <2>2, <2>3 DEF Served
<1>. QED BY <1>3, <1>4, <1>5

\* A block above the others leaves the list rising.
LEMMA BlockRises ==
  ASSUME NEW d \in Seq(Block), NEW b \in Block, NEW k, NEW m \in Nat, MarkOK(k, d, m),
         Served(k, d, b.p, b.addr), Rising(k, d), Above(k, d, b.p, b.addr), b.p + b.len >= k.from
  PROVE  /\ Rising(k, Append(d, b))
         /\ \A lb \in Nat : b.addr + b.len <= lb => Above(k, Append(d, b), b.p + b.len, lb)
<1>. PICK e \in Seq(Block) : e = Append(d, b)
  BY OneBlock
<1>1. /\ Len(e) = Len(d) + 1 /\ DOMAIN e = 1 .. Len(d) + 1 /\ DOMAIN d = 1 .. Len(d) /\ Len(d) \in Nat
      /\ \A i \in DOMAIN d : e[i] = d[i] /\ i # Len(d) + 1
      /\ e[Len(d) + 1] = b
      /\ \A i \in DOMAIN e : i \in DOMAIN d \/ i = Len(d) + 1
  BY OneBlock
<1>2. k.from \in Nat /\ k.addr \in Nat
  BY SizeNat DEF MarkOK, Marked, Address
<1>3. b.p \in Nat /\ b.addr \in Nat /\ b.len \in Nat
  BY DEF Block
<1>4. ASSUME NEW i \in Since(k, e) PROVE (i \in Since(k, d) /\ e[i] = d[i]) \/ (i = Len(d) + 1 /\ e[i] = b)
  BY <1>1 DEF Since
<1>5. ASSUME NEW i \in Since(k, d) PROVE d[i].addr \in Nat /\ d[i].len \in Nat /\ d[i].addr + d[i].len <= b.addr
  <2>1. d[i].addr \in Nat /\ d[i].len \in Nat
    BY WayNumbers DEF Since
  <2>. QED BY <2>1 DEF Above
<1>6. ASSUME NEW i \in Since(k, e), NEW j \in Since(k, e), i < j PROVE e[i].addr + e[i].len <= e[j].addr
  <2>1. CASE i \in Since(k, d) /\ e[i] = d[i] /\ j \in Since(k, d) /\ e[j] = d[j]
    BY <1>6, <2>1 DEF Rising
  <2>2. CASE i \in Since(k, d) /\ e[i] = d[i] /\ j = Len(d) + 1 /\ e[j] = b
    BY <1>5, <2>2
  <2>3. i # Len(d) + 1
    BY <1>1, <1>6 DEF Since
  <2>. QED BY <1>4, <2>1, <2>2, <2>3
<1>7. ASSUME NEW i \in Since(k, e), e[i].p >= k.from PROVE e[i].addr >= k.addr
  <2>1. CASE i \in Since(k, d) /\ e[i] = d[i]
    BY <1>7, <2>1 DEF Rising
  <2>2. CASE i = Len(d) + 1 /\ e[i] = b
    BY <1>7, <2>2 DEF Above
  <2>. QED BY <1>4, <2>1, <2>2
<1>8. Rising(k, e)
  BY <1>6, <1>7 DEF Rising
<1>9. ASSUME NEW lb \in Nat, b.addr + b.len <= lb PROVE Above(k, e, b.p + b.len, lb)
  <2>1. ASSUME NEW i \in Since(k, e) PROVE e[i].addr + e[i].len <= lb
    <3>1. CASE i \in Since(k, d) /\ e[i] = d[i]
      BY <1>3, <1>5, <1>9, <3>1
    <3>2. CASE i = Len(d) + 1 /\ e[i] = b
      BY <1>9, <3>2
    <3>. QED BY <1>4, <3>1, <3>2
  <2>2. lb >= k.addr
    <3>1. CASE b.p >= k.from
      <4>1. b.addr >= k.addr
        BY <3>1 DEF Above
      <4>. QED BY <1>2, <1>3, <1>9, <4>1
    <3>2. CASE ~(b.p >= k.from)
      <4>1. k.addr = b.addr + (k.from - b.p)
        BY <3>2 DEF Served, Serves
      <4>. QED BY <1>2, <1>3, <1>9, <4>1
    <3>. QED BY <3>1, <3>2
  <2>. QED BY <2>1, <2>2 DEF Above
<1>. QED BY <1>8, <1>9

\* memjmp, which closes the open block when it is not empty
LEMMA EnclosedServes ==
  ASSUME NEW d \in Seq(Block), NEW lp \in Nat, NEW la \in Nat, la < Size, NEW p \in Nat, lp <= p,
         la + (p - lp) <= Size, NEW k, NEW m \in Nat, m <= p, MarkOK(k, d, m), Low(d), NEW lb \in Nat
  PROVE  /\ MarkOK(k, Enclosed(d, lp, la, p), p) /\ Low(Enclosed(d, lp, la, p))
         /\ Served(k, d, lp, la) => Served(k, Enclosed(d, lp, la, p), p, lb)
<1>1. CASE p = lp
  <2>1. Enclosed(d, lp, la, p) = d
    BY <1>1 DEF Enclosed
  <2>2. k.from \in 0 .. m
    BY DEF MarkOK, Marked
  <2>3. k.from \in 0 .. p /\ p >= k.from
    BY <2>2
  <2>4. MarkOK(k, d, p)
    BY <2>3 DEF MarkOK, Marked
  <2>5. Served(k, d, lp, la) => Served(k, d, p, lb)
    BY <2>3 DEF Served, Serves
  <2>. QED BY <2>1, <2>4, <2>5
<1>2. CASE p # lp
  <2>. PICK b : b = [p |-> lp, addr |-> la, len |-> p - lp, ref |-> FALSE]
    OBVIOUS
  <2>1. Enclosed(d, lp, la, p) = Append(d, b)
    BY <1>2 DEF Enclosed
  <2>2. b \in Block /\ ~b.ref /\ b.p = lp /\ b.addr = la /\ b.len = p - lp
    BY DEF Block
  <2>3. /\ MarkOK(k, Append(d, b), p) /\ Low(Append(d, b))
        /\ Served(k, d, b.p, b.addr) => Served(k, Append(d, b), p, lb)
    BY <2>2, BlockServes
  <2>. QED BY <2>1, <2>2, <2>3
<1>. QED BY <1>1, <1>2

\* It is above the ones before it when its bytes were.
LEMMA EnclosedRises ==
  ASSUME NEW d \in Seq(Block), NEW lp \in Nat, NEW la \in Nat, NEW p \in Nat, lp <= p,
         NEW k, NEW m \in Nat, m <= p, MarkOK(k, d, m), Served(k, d, lp, la),
         Rising(k, d), Above(k, d, lp, la), NEW lb \in Nat
  PROVE  /\ Rising(k, Enclosed(d, lp, la, p))
         /\ la + (p - lp) <= lb => Above(k, Enclosed(d, lp, la, p), p, lb)
<1>0. k.from \in Nat /\ k.from <= p /\ k.addr \in Nat
  <2>1. k.from \in 0 .. m
    BY DEF MarkOK, Marked
  <2>2. k.addr \in Nat
    BY SizeNat DEF MarkOK, Marked, Address
  <2>. QED BY <2>1, <2>2
<1>1. CASE p = lp
  <2>1. Enclosed(d, lp, la, p) = d
    BY <1>1 DEF Enclosed
  <2>2. ASSUME la + (p - lp) <= lb PROVE Above(k, d, p, lb)
    <3>1. la <= lb
      BY <1>1, <2>2
    <3>2. ASSUME NEW i \in Since(k, d) PROVE d[i].addr + d[i].len <= lb
      <4>1. d[i].addr \in Nat /\ d[i].len \in Nat
        BY WayNumbers DEF Since
      <4>2. d[i].addr + d[i].len <= la
        BY DEF Above
      <4>. QED BY <3>1, <4>1, <4>2
    <3>3. lb >= k.addr
      <4>1. la >= k.addr
        BY <1>0, <1>1 DEF Above
      <4>. QED BY <1>0, <3>1, <4>1
    <3>. QED BY <3>2, <3>3 DEF Above
  <2>. QED BY <2>1, <2>2
<1>2. CASE p # lp
  <2>. PICK b : b = [p |-> lp, addr |-> la, len |-> p - lp, ref |-> FALSE]
    OBVIOUS
  <2>1. Enclosed(d, lp, la, p) = Append(d, b)
    BY <1>2 DEF Enclosed
  <2>2. b \in Block /\ b.p = lp /\ b.addr = la /\ b.len = p - lp
    BY DEF Block
  <2>3. b.p + b.len = p /\ b.p + b.len >= k.from
    BY <1>0, <2>2
  <2>4. /\ Rising(k, Append(d, b))
        /\ b.addr + b.len <= lb => Above(k, Append(d, b), b.p + b.len, lb)
    BY <2>2, <2>3, BlockRises
  <2>. QED BY <2>1, <2>2, <2>3, <2>4
<1>. QED BY <1>1, <1>2

(***************************************************************************)
(* The ends.                                                               *)
(***************************************************************************)
\* The end of the innermost range grows.
LEMMA EndGrows ==
  ASSUME NEW a \in Position, NEW b \in Position, NEW o \in Seq(Frame), EndsKept(a, o),
         a.end <= b.end, b.end <= Size
  PROVE  EndsKept(b, o)
<1>1. Bounded(b, o)
  BY DEF EndsKept, Bounded
<1>2. ASSUME NEW i \in DOMAIN o, o[i].what \notin Ranges
      PROVE  o[i].end <= IF i = Len(o) THEN b.end ELSE o[i + 1].end
  <2>1. o[i].end <= IF i = Len(o) THEN a.end ELSE o[i + 1].end
    BY <1>2 DEF EndsKept, Handed
  <2>2. o[i].end \in Nat /\ a.end \in Nat /\ b.end \in Nat
    BY Numbers, FrameNumbers
  <2>. QED BY <2>1, <2>2
<1>. QED BY <1>1, <1>2 DEF EndsKept, Handed

\* A block is opened.
LEMMA EndOpened ==
  ASSUME NEW a \in Position, NEW b \in Position, NEW o \in Seq(Frame), NEW f \in Frame, EndsKept(a, o),
         f.end = a.end, f.what \notin Ranges => b.end = a.end, b.end <= Size
  PROVE  EndsKept(b, Append(o, f))
<1>0. Append(o, f) \in Seq(Frame)
  OBVIOUS
<1>. PICK q \in Seq(Frame) : q = Append(o, f)
  BY <1>0
<1>. PICK n \in Nat : n = Len(o)
  OBVIOUS
<1>1. Len(q) = n + 1 /\ DOMAIN q = 1 .. n + 1 /\ DOMAIN o = 1 .. n /\ q[n + 1] = f
  OBVIOUS
<1>2. \A i \in DOMAIN o : q[i] = o[i]
  OBVIOUS
<1>3. a.end \in Nat /\ b.end \in Nat
  BY Numbers
<1>4. Bounded(b, q)
  <2>1. \A i \in DOMAIN q : i \in DOMAIN o \/ i = n + 1
    BY <1>1
  <2>. QED BY <1>1, <1>2, <2>1 DEF EndsKept, Bounded
<1>5. ASSUME NEW i \in DOMAIN q, q[i].what \notin Ranges
      PROVE  q[i].end <= IF i = Len(q) THEN b.end ELSE q[i + 1].end
  <2>1. CASE i = n + 1
    BY <1>1, <1>3, <1>5, <2>1
  <2>2. CASE i \in DOMAIN o /\ i = n
    <3>1. o[i].end <= a.end
      BY <1>2, <1>5, <2>2 DEF EndsKept, Handed
    <3>2. i # Len(q) /\ q[i + 1] = f
      BY <1>1, <2>2
    <3>. QED BY <1>2, <2>2, <3>1, <3>2
  <2>3. CASE i \in DOMAIN o /\ i # n
    <3>1. o[i].end <= o[i + 1].end
      BY <1>2, <1>5, <2>3 DEF EndsKept, Handed
    <3>2. i # Len(q) /\ i + 1 \in DOMAIN o
      BY <1>1, <2>3
    <3>3. q[i] = o[i] /\ q[i + 1] = o[i + 1]
      BY <1>2, <2>3, <3>2
    <3>. QED BY <3>1, <3>2, <3>3
  <2>. QED BY <1>1, <2>1, <2>2, <2>3
<1>. QED BY <1>4, <1>5 DEF EndsKept, Handed

\* A block is closed.
LEMMA EndClosed ==
  ASSUME NEW a \in Position, NEW b \in Position, NEW o \in Seq(Frame), o # <<>>, EndsKept(a, o),
         o[Len(o)].end <= b.end, b.end <= Size
  PROVE  EndsKept(b, SubSeq(o, 1, Len(o) - 1))
<1>. PICK n \in Nat : n = Len(o)
  OBVIOUS
<1>0. n # 0 /\ DOMAIN o = 1 .. n
  OBVIOUS
<1>4. SubSeq(o, 1, n - 1) \in Seq(Frame)
  <2>1. \A i \in 1 .. n - 1 : o[i] \in Frame
    BY <1>0
  <2>. QED BY <1>0, <2>1
<1>. PICK q \in Seq(Frame) : q = SubSeq(o, 1, n - 1)
  BY <1>4
<1>1. Len(q) = n - 1 /\ DOMAIN q = 1 .. n - 1 /\ \A i \in DOMAIN q : q[i] = o[i] /\ i \in DOMAIN o
  BY <1>0
<1>2. Bounded(b, q)
  BY <1>1 DEF EndsKept, Bounded
<1>3. ASSUME NEW i \in DOMAIN q, q[i].what \notin Ranges
      PROVE  q[i].end <= IF i = Len(q) THEN b.end ELSE q[i + 1].end
  <2>0. i # n /\ i \in DOMAIN o /\ i + 1 \in DOMAIN o
    BY <1>0, <1>1
  <2>1. o[i].end <= o[i + 1].end
    BY <1>1, <1>3, <2>0 DEF EndsKept, Handed
  <2>2. o[i].end \in Nat /\ o[i + 1].end \in Nat /\ b.end \in Nat
    BY <2>0, Numbers, FrameNumbers
  <2>3. CASE i = Len(q)
    <3>1. i + 1 = n
      BY <1>0, <1>1, <2>3
    <3>2. o[i + 1].end <= b.end
      BY <3>1
    <3>. QED BY <1>1, <2>1, <2>2, <2>3, <3>2
  <2>4. CASE i # Len(q)
    <3>1. i + 1 \in DOMAIN q
      BY <1>0, <1>1, <2>4
    <3>. QED BY <1>1, <2>1, <2>4, <3>1
  <2>. QED BY <2>3, <2>4
<1>. QED BY <1>2, <1>3 DEF EndsKept, Handed

\* The ends stay at the top or at 0 when a block is opened or closed.
LEMMA ToppedOpened ==
  ASSUME NEW a, NEW b, NEW o \in Seq(Frame), NEW f \in Frame, Topped(a, o), f.end = a.end, b.end \in {0, Size}
  PROVE  Topped(b, Append(o, f))
<1>0. Append(o, f) \in Seq(Frame)
  OBVIOUS
<1>. PICK q \in Seq(Frame) : q = Append(o, f)
  BY <1>0
<1>. PICK n \in Nat : n = Len(o)
  OBVIOUS
<1>1. DOMAIN q = 1 .. n + 1 /\ DOMAIN o = 1 .. n /\ q[n + 1] = f
  OBVIOUS
<1>2. \A i \in DOMAIN o : q[i] = o[i]
  OBVIOUS
<1>3. ASSUME NEW i \in DOMAIN q
      PROVE  q[i].end \in {0, Size} \/ b.end = Size \/ \E j \in DOMAIN q : i < j /\ q[j].end = Size
  <2>1. CASE i = n + 1
    BY <1>1, <2>1 DEF Topped
  <2>2. CASE i \in DOMAIN o
    <3>1. CASE o[i].end \in {0, Size}
      BY <1>2, <2>2, <3>1
    <3>2. CASE a.end = Size
      <4>1. n + 1 \in DOMAIN q /\ i < n + 1 /\ q[n + 1].end = Size
        BY <1>1, <2>2, <3>2
      <4>. QED BY <4>1
    <3>3. CASE \E j \in DOMAIN o : i < j /\ o[j].end = Size
      <4>. PICK j \in DOMAIN o : i < j /\ o[j].end = Size
        BY <3>3
      <4>1. j \in DOMAIN q /\ q[j] = o[j]
        BY <1>1, <1>2
      <4>. QED BY <4>1
    <3>. QED BY <2>2, <3>1, <3>2, <3>3 DEF Topped
  <2>. QED BY <1>1, <2>1, <2>2
<1>. QED BY <1>3 DEF Topped

\* The same when a block is closed: the end that counts is handed on.
LEMMA ToppedClosed ==
  ASSUME NEW a, NEW b, NEW o \in Seq(Frame), o # <<>>, Topped(a, o), b.end \in {0, Size},
         a.end = Size \/ o[Len(o)].end = Size => b.end = Size
  PROVE  Topped(b, SubSeq(o, 1, Len(o) - 1))
<1>. PICK n \in Nat : n = Len(o)
  OBVIOUS
<1>0. n # 0 /\ DOMAIN o = 1 .. n
  OBVIOUS
<1>. PICK q : q = SubSeq(o, 1, n - 1)
  OBVIOUS
<1>1. DOMAIN q = 1 .. n - 1 /\ \A i \in DOMAIN q : q[i] = o[i] /\ i \in DOMAIN o
  BY <1>0
<1>2. ASSUME NEW i \in DOMAIN q
      PROVE  q[i].end \in {0, Size} \/ b.end = Size \/ \E j \in DOMAIN q : i < j /\ q[j].end = Size
  <2>1. i \in DOMAIN o /\ q[i] = o[i]
    BY <1>1
  <2>2. CASE o[i].end \in {0, Size} \/ a.end = Size
    BY <2>1, <2>2
  <2>3. CASE \E j \in DOMAIN o : i < j /\ o[j].end = Size
    <3>. PICK j \in DOMAIN o : i < j /\ o[j].end = Size
      BY <2>3
    <3>1. CASE j = n
      BY <3>1
    <3>2. CASE j # n
      <4>1. j \in DOMAIN q /\ q[j] = o[j]
        BY <1>0, <1>1, <3>2
      <4>. QED BY <4>1
    <3>. QED BY <3>1, <3>2
  <2>. QED BY <2>1, <2>2, <2>3 DEF Topped
<1>. QED BY <1>2 DEF Topped

\* pokealloc and memskip: the end is where it was, or at the top.
LEMMA AdvancedEnd ==
  ASSUME Size < Word, NEW a \in Position, a.end <= Size, NEW db \in Nat
  PROVE  /\ a.end <= Advanced(a, db).end /\ Advanced(a, db).end <= Size
         /\ db = Size - a.address => \A o : AtTop(Advanced(a, db), o)
<1>. PICK b \in Position : b = Advanced(a, db)
  BY AdvancedType
<1>1. Size \in Nat \ {0} /\ Size = AllMem2 + 1 /\ AllMem2 \in Nat /\ Word \in Nat \ {0}
  BY SizeNat DEF Size
<1>2. a.end \in Nat /\ b.end \in Nat /\ a.address \in Nat
  BY Numbers
<1>3. Size % Word = Size
  <2>1. Size \in 0 .. Word - 1 /\ 0 * Word + Size = Size
    BY <1>1
  <2>2. (0 * Word + Size) % Word = Size
    BY <1>1, <2>1, Remainder
  <2>. QED BY <2>1, <2>2
<1>4. b.end = IF db >= Size - a.address /\ a.end <= AllMem2 THEN Size ELSE a.end
  BY <1>3 DEF Advanced, Counted, Position
<1>5. a.end <= b.end /\ b.end <= Size
  BY <1>1, <1>2, <1>4
<1>6. ASSUME db = Size - a.address, NEW o PROVE AtTop(b, o)
  <2>1. b.end = Size
    BY <1>1, <1>2, <1>4, <1>6
  <2>2. b.moved = TRUE /\ b.wrapwarn
    <3>1. b.moved = (db = Size - a.address)
      BY AdvancedType
    <3>2. db = Size - a.address => b.wrapwarn
      BY AdvancedType
    <3>. QED BY <1>6, <3>1, <3>2
  <2>3. b.address = 0
    <3>1. b.address = (a.address + db) % Size
      BY AdvancedType
    <3>2. a.address + db = 1 * Size + 0
      BY <1>1, <1>2, <1>6
    <3>3. (1 * Size + 0) % Size = 0
      <4>1. 0 \in 0 .. Size - 1 /\ 1 \in Int
        BY <1>1
      <4>. QED BY ONLY <1>1, <4>1, Remainder
    <3>. QED BY <3>1, <3>2, <3>3
  <2>. QED BY <2>1, <2>2, <2>3 DEF AtTop, Topped
<1>. QED BY <1>5, <1>6

(***************************************************************************)
(* The lines.                                                              *)
(***************************************************************************)
\* A step that moves no byte and no address
LEMMA StaysReads ==
  ASSUME Inv, ReadInv, UNCHANGED <<blocks, mark, todo, errors>>, at'.address = at.address,
         EndsKept(at, open)', AtTop(at, open) => AtTop(at, open)'
  PROVE  ReadInv'
<1>1. /\ memp' = memp /\ data' = data /\ lastp' = lastp /\ lastaddr' = lastaddr
      /\ mark' = mark /\ todo' = todo /\ errors' = errors
  BY DEF blocks
<1>2. Pos' = Pos
  BY <1>1 DEF Pos
<1>3. /\ MarkOK(mark, data, memp) /\ Low(data)
      /\ ~mark.refs =>
           /\ Served(mark, data, lastp, lastaddr)
           /\ mark.straight /\ "wrap" \notin errors =>
                Straight(mark, data, lastp, lastaddr, memp, Pos, todo, at, open)
  BY DEF ReadInv
<1>4. Straight(mark, data, lastp, lastaddr, memp, Pos, todo, at, open)
        => Straight(mark, data, lastp, lastaddr, memp, Pos, todo, at, open)'
  <2>. SUFFICES ASSUME Straight(mark, data, lastp, lastaddr, memp, Pos, todo, at, open)
                PROVE  Straight(mark', data', lastp', lastaddr', memp', Pos', todo', at', open')
    OBVIOUS
  <2>1. Fits(Pos, todo, at, open) => Fits(Pos', todo', at', open')
    BY <1>1, <1>2 DEF Fits
  <2>2. Over(lastp, lastaddr, memp, todo, at, open) => Over(lastp', lastaddr', memp', todo', at', open')
    BY <1>1 DEF Over
  <2>. QED BY <1>1, <2>1, <2>2 DEF Straight
<1>5. MarkOK(mark, data, memp)' /\ Low(data)'
  BY <1>1, <1>3 DEF MarkOK, Marked, Low, OwnOf
<1>6. Served(mark, data, lastp, lastaddr) => Served(mark, data, lastp, lastaddr)'
  BY <1>1
<1>. QED BY <1>1, <1>3, <1>4, <1>5, <1>6 DEF ReadInv

\* What of the types the lemmas need
LEMMA ReadTypes ==
  ASSUME Inv
  PROVE  /\ data \in Seq(Block) /\ memp \in Nat /\ lastp \in Nat /\ lastp <= memp /\ lastaddr \in Nat
         /\ lastaddr < Size /\ lastaddr + (memp - lastp) = Pos /\ Pos \in 0 .. AllMem2 /\ Pos < Size
         /\ at \in Position /\ open \in Seq(Frame) /\ todo \in Nat /\ Room = AllMem2 - Pos
<1>1. data \in Seq(Block)
  BY DEF Inv, Blocks, Partition
<1>2. memp \in Nat /\ lastp \in 0 .. memp /\ lastaddr \in 0 .. AllMem2 /\ at \in Position
      /\ open \in Seq(Frame) /\ todo \in Nat
  BY DEF Inv, TypeOK, Address
<1>3. Pos = lastaddr + (memp - lastp) /\ Pos \in 0 .. AllMem2 /\ Room = AllMem2 - Pos
  BY PositionType DEF Inv, Blocks
<1>4. lastp \in Nat /\ lastp <= memp
  BY <1>2
<1>5. lastaddr \in Nat /\ lastaddr < Size
  BY <1>2, SizeNat
<1>6. Pos < Size
  BY <1>3, SizeNat
<1>. QED BY <1>1, <1>2, <1>3, <1>4, <1>5, <1>6

\* With no byte without a place the position is the address.
LEMMA PosAddress == ASSUME Inv, todo = 0 PROVE Pos = at.address
<1>1. at.address \in 0 .. AllMem2
  BY DEF Inv, TypeOK, Position, Address
<1>2. at.address - todo = at.address
  BY <1>1
<1>. QED BY <1>1, <1>2, Small DEF Pos

\* memjmp keeps the label served.
LEMMA JumpServes ==
  ASSUME Inv, ReadInv, NEW adr \in Nat, MemJmp(memp, adr)
  PROVE  /\ data' = Enclosed(data, lastp, lastaddr, memp) /\ lastp' = memp /\ lastaddr' = adr
         /\ MarkOK(mark, data', memp) /\ Low(data')
         /\ ~mark.refs => Served(mark, data', memp, adr)
<1>1. data' = Enclosed(data, lastp, lastaddr, memp) /\ lastp' = memp /\ lastaddr' = adr
  BY DEF MemJmp, Closed, Enclosed
<1>2. /\ data \in Seq(Block) /\ memp \in Nat /\ lastp \in Nat /\ lastp <= memp /\ lastaddr \in Nat
      /\ lastaddr < Size /\ lastaddr + (memp - lastp) <= Size
  <2>1. lastaddr + (memp - lastp) <= Size
    BY ReadTypes, SizeNat
  <2>. QED BY <2>1, ReadTypes
<1>3. MarkOK(mark, data, memp) /\ Low(data) /\ (~mark.refs => Served(mark, data, lastp, lastaddr))
  BY DEF ReadInv
<1>. PICK e : e = Enclosed(data, lastp, lastaddr, memp)
  OBVIOUS
<1>4. /\ MarkOK(mark, e, memp) /\ Low(e)
      /\ Served(mark, data, lastp, lastaddr) => Served(mark, e, memp, adr)
  <2>1. memp <= memp
    BY <1>2
  <2>. QED BY ONLY <1>2, <1>3, <2>1, adr \in Nat, e = Enclosed(data, lastp, lastaddr, memp), EnclosedServes
<1>. QED BY <1>1, <1>3, <1>4

\* The address moves away: what was placed is read as before, with gaps.
LEMMA GoToReads ==
  ASSUME Inv, ReadInv, Inv', NEW a, GoTo(a), a.end \in {at.end, Left(at).end}
  PROVE  ReadInv'
<1>1. mark' = [mark EXCEPT !.straight = FALSE] /\ at' = a /\ open' = open /\ memp' = memp
  BY DEF GoTo
<1>2. /\ mark \in Marked /\ MarkOK(mark, data, memp) /\ Low(data) /\ EndsKept(at, open)
      /\ (~mark.refs => Served(mark, data, lastp, lastaddr))
  BY DEF ReadInv, MarkOK
<1>3. /\ mark' \in Marked /\ mark'.membp = mark.membp /\ mark'.from = mark.from
      /\ mark'.addr = mark.addr /\ mark'.refs = mark.refs /\ ~mark'.straight
  BY <1>1, <1>2 DEF Marked
<1>. PICK k : k = mark'
  OBVIOUS
<1>4. /\ MarkOK(mark, data', memp) /\ Low(data')
      /\ ~mark.refs => Served(mark, data', lastp', lastaddr')
  <2>1. CASE a.address = at.address
    <3>1. data' = data /\ lastp' = lastp /\ lastaddr' = lastaddr
      BY <2>1 DEF GoTo
    <3>2. MarkOK(mark, data', memp) /\ Low(data')
      BY <1>2, <3>1 DEF MarkOK, Low, OwnOf
    <3>. QED BY <1>2, <3>1, <3>2
  <2>2. CASE a.address # at.address
    <3>1. MemJmp(memp, a.address)
      BY <2>2 DEF GoTo
    <3>2. a.address \in Nat
      <4>1. lastaddr' = a.address
        BY <3>1 DEF MemJmp
      <4>2. lastaddr' \in Nat
        BY SizeNat DEF Inv, TypeOK, Address
      <4>. QED BY <4>1, <4>2
    <3>. PICK adr \in Nat : adr = a.address
      BY <3>2
    <3>. QED BY <3>1, JumpServes
  <2>. QED BY <2>1, <2>2
<1>5. MarkOK(k, data', memp')
  BY <1>1, <1>3, <1>4 DEF MarkOK
<1>6. ~k.refs => Served(k, data', lastp', lastaddr')
  BY <1>3, <1>4 DEF Served, Serves, Since
<1>7. EndsKept(at', open')
  <2>1. at \in Position /\ at' \in Position /\ open \in Seq(Frame) /\ Left(at) \in Position
    BY LeftType DEF Inv, TypeOK
  <2>2. at.end \in Nat /\ at.address \in Nat /\ at.address < Size /\ at.end <= Size
    BY <1>2, <2>1, Numbers DEF EndsKept, Bounded
  <2>3. Left(at).end = IF at.moved \/ ~(at.end < at.address) THEN at.end ELSE at.address
    BY <2>1 DEF Left, Position
  <2>4. at'.end = at.end \/ at'.end = Left(at).end
    BY <1>1
  <2>5. at.end <= at'.end /\ at'.end <= Size
    <3>1. CASE at'.end = at.end
      BY <2>2, <3>1
    <3>2. CASE at'.end = Left(at).end
      BY <2>2, <2>3, <3>2, SizeNat
    <3>. QED BY <2>4, <3>1, <3>2
  <2>6. EndsKept(at', open)
    BY <1>2, <2>1, <2>5, EndGrows
  <2>. QED BY <1>1, <2>6
<1>8. Low(data')
  BY <1>4
<1>. QED BY <1>3, <1>5, <1>6, <1>7, <1>8 DEF ReadInv

\* The lines that move the address
LEMMA MoveReads ==
  ASSUME Inv, ReadInv, LineStart \/ (\E v \in Values : Star(v)) \/ (\E i \in -1 .. 1 : Offs(i))
  PROVE  ReadInv'
<1>0. Inv'
  BY MoveStep
<1>1. at \in Position /\ Left(at) \in Position
  <2>1. at \in Position
    BY DEF Inv, TypeOK
  <2>. QED BY <2>1, LeftType
<1>2. CASE LineStart
  <2>. DEFINE a == IF at.l_address = at.l_union THEN at ELSE [at EXCEPT !.l_address = at.l_union]
  <2>1. a.moved = at.moved /\ a.end = at.end /\ a.address = at.address /\ a \in Position
    BY <1>1 DEF Position
  <2>2. CASE at.address = at.start
    <3>1. GoTo(a)
      BY <1>2, <2>2 DEF LineStart
    <3>. HIDE DEF a
    <3>. QED BY <1>0, <2>1, <3>1, GoToReads
  <2>3. CASE at.address # at.start
    <3>. DEFINE b == [Left(a) EXCEPT !.wrapwarn = FALSE, !.address = at.start]
    <3>1. GoTo(b)
      BY <1>2, <2>3 DEF LineStart
    <3>2. Left(a) \in Position /\ Left(a).end = Left(at).end
      <4>. HIDE DEF a
      <4>1. Left(a) \in Position
        BY <2>1, LeftType
      <4>. QED BY <1>1, <2>1, <4>1 DEF Left, Position
    <3>3. b.end = Left(at).end
      BY <3>2 DEF Position
    <3>. HIDE DEF b
    <3>. QED BY <1>0, <3>1, <3>3, GoToReads
  <2>. QED BY <2>2, <2>3
<1>3. ASSUME NEW v \in Values, Star(v) PROVE ReadInv'
  <2>. DEFINE a == [Left(at) EXCEPT !.wrapwarn = FALSE]
  <2>. DEFINE adr == IF Flat /\ Logicals = {} THEN v ELSE (at.address + v - at.l_address) % Size
  <2>. DEFINE b == [a EXCEPT !.address = adr, !.l_address = v % (AllMem + 1)]
  <2>1. GoTo(IF v = -1 THEN a ELSE b)
    BY <1>3 DEF Star
  <2>2. a.end = Left(at).end
    BY <1>1 DEF Position
  <2>3. b.end = Left(at).end
    BY <1>1 DEF Position
  <2>. HIDE DEF a, b
  <2>. QED BY <1>0, <2>1, <2>2, <2>3, GoToReads
<1>4. ASSUME NEW i \in -1 .. 1, Offs(i) PROVE ReadInv'
  <2>. DEFINE a == [Left(at) EXCEPT !.wrapwarn = FALSE, !.address = (at.l_address + i) % Size]
  <2>1. GoTo(a)
    BY <1>4 DEF Offs
  <2>2. a.end = Left(at).end
    BY <1>1 DEF Position
  <2>. HIDE DEF a
  <2>. QED BY <1>0, <2>1, <2>2, GoToReads
<1>. QED BY <1>2, <1>3, <1>4

\* pokealloc: the bytes have no place yet, and room if it was not complained.
LEMMA PokeReads ==
  ASSUME Size < Word, Inv, ReadInv, NEW db \in 1 .. MaxData, Poke(db)
  PROVE  ReadInv'
<1>0. db \in Nat \ {0}
  BY BoundAssumption
<1>1. /\ todo = 0 /\ todo' = db /\ open' = open /\ mark' = mark /\ at' = Advanced(at, db)
      /\ errors' = errors \cup Complaints(at, db)
      /\ memp' = memp /\ data' = data /\ lastp' = lastp /\ lastaddr' = lastaddr
  BY DEF Poke, Piece, GoOn, blocks
<1>2. /\ MarkOK(mark, data, memp) /\ Low(data) /\ EndsKept(at, open)
      /\ ~mark.refs =>
           /\ Served(mark, data, lastp, lastaddr)
           /\ mark.straight /\ "wrap" \notin errors =>
                Straight(mark, data, lastp, lastaddr, memp, Pos, todo, at, open)
  BY DEF ReadInv
<1>3. at \in Position /\ at' \in Position /\ open \in Seq(Frame) /\ at.address \in Nat /\ at.address < Size
  <2>1. at \in Position /\ open \in Seq(Frame)
    BY ReadTypes
  <2>2. at' \in Position
    BY <1>0, <1>1, <2>1, AdvancedType
  <2>. QED BY <2>1, <2>2, Numbers
<1>4. at.end <= Size /\ at.end <= at'.end /\ at'.end <= Size /\ (db = Size - at.address => AtTop(at', open))
  <2>1. at.end <= Size
    BY <1>2 DEF EndsKept, Bounded
  <2>. QED BY <1>0, <1>1, <1>3, <2>1, AdvancedEnd
<1>5. EndsKept(at', open')
  BY <1>1, <1>2, <1>3, <1>4, EndGrows
<1>6. Pos = at.address
  BY <1>1, PosAddress
<1>7. Pos' = at.address
  <2>1. (((at.address + db) % Size) - db) % Size = at.address
    <3>1. at.address \in 0 .. AllMem2
      BY <1>3 DEF Position, Address
    <3>. QED BY <1>0, <3>1, Behind
  <2>2. at'.address = (at.address + db) % Size
    BY <1>0, <1>1, <1>3, AdvancedType
  <2>3. (at.address - todo)' = ((at.address + db) % Size) - db
    BY <1>1, <2>2
  <2>. QED BY <2>1, <2>3 DEF Pos
<1>8. ASSUME "wrap" \notin errors', Straight(mark, data, lastp, lastaddr, memp, Pos, todo, at, open)
      PROVE  Straight(mark', data', lastp', lastaddr', memp', Pos', todo', at', open')
  <2>1. db <= Size - at.address /\ ~(at.moved /\ at.wrapwarn)
    BY <1>1, <1>8 DEF Complaints
  <2>2. Rising(mark', data') /\ Above(mark', data', lastp', lastaddr')
    BY <1>1, <1>8, <2>1 DEF Straight, Over, AtTop
  <2>3. Fits(Pos', todo', at', open')
    <3>1. at.address + db <= Size
      BY <1>0, <1>3, <2>1, SizeNat
    <3>2. at.address + db = Size => db = Size - at.address
      BY <1>0, <1>3, SizeNat
    <3>. QED BY <1>1, <1>4, <1>7, <3>1, <3>2 DEF Fits
  <2>. QED BY <2>2, <2>3 DEF Straight
<1>9. MarkOK(mark', data', memp') /\ Low(data')
  BY <1>1, <1>2 DEF MarkOK, Low, OwnOf
<1>10. ~mark.refs => Served(mark', data', lastp', lastaddr')
  BY <1>1, <1>2
<1>11. "wrap" \notin errors' => "wrap" \notin errors
  BY <1>1
<1>. QED BY <1>1, <1>2, <1>5, <1>8, <1>9, <1>10, <1>11 DEF ReadInv

\* alloc_mem: the bytes get their places behind the pending ones.
LEMMA RestReads == ASSUME Inv, ReadInv, AllocRest PROVE ReadInv'
<1>0. Inv'
  BY RestStep
<1>1. /\ memp' = memp + todo /\ todo' = 0 /\ todo > 0 /\ todo <= Room
      /\ UNCHANGED <<at, data, lastp, lastaddr, open, errors, mark>>
  BY DEF AllocRest
<1>2. /\ MarkOK(mark, data, memp) /\ Low(data) /\ EndsKept(at, open)
      /\ ~mark.refs =>
           /\ Served(mark, data, lastp, lastaddr)
           /\ mark.straight /\ "wrap" \notin errors =>
                Straight(mark, data, lastp, lastaddr, memp, Pos, todo, at, open)
  BY DEF ReadInv
<1>3. MarkOK(mark', data', memp') /\ Low(data')
  <2>1. memp \in Nat /\ todo \in Nat /\ mark.from \in 0 .. memp
    BY <1>2, ReadTypes DEF MarkOK
  <2>2. mark.from \in 0 .. memp + todo
    BY <2>1
  <2>. QED BY <1>1, <1>2, <2>2 DEF MarkOK, Low, OwnOf
<1>4. ~mark.refs => Served(mark', data', lastp', lastaddr')
  BY <1>1, <1>2
<1>5. ASSUME Straight(mark, data, lastp, lastaddr, memp, Pos, todo, at, open)
      PROVE  Straight(mark', data', lastp', lastaddr', memp', Pos', todo', at', open')
  <2>1. Rising(mark', data') /\ Above(mark', data', lastp', lastaddr')
    BY <1>1, <1>5 DEF Straight, Over
  <2>2. Pos' \in Nat /\ Pos' <= Size
    <3>1. at.address \in 0 .. AllMem2
      BY ReadTypes DEF Position, Address
    <3>2. (at.address - todo)' = at.address
      BY <1>1, <3>1
    <3>3. Pos' = at.address
      BY <3>1, <3>2, Small DEF Pos
    <3>. QED BY <3>1, <3>3, SizeNat
  <2>3. Fits(Pos', todo', at', open')
    <3>1. Pos' + todo' <= Size /\ ~(todo' > 0)
      BY <1>1, <2>2
    <3>. QED BY <3>1 DEF Fits
  <2>. QED BY <2>1, <2>3 DEF Straight
<1>6. EndsKept(at', open')
  BY <1>1, <1>2
<1>. QED BY <1>1, <1>2, <1>3, <1>4, <1>5, <1>6 DEF ReadInv

\* alloc_mem at the top: the block is closed, and the next byte is at 0.
LEMMA WrapsReads == ASSUME Inv, ReadInv, AllocWraps PROVE ReadInv'
<1>. PICK n : n = memp + Room + 1
  OBVIOUS
<1>1. /\ memp' = n /\ todo' = todo - (Room + 1) /\ todo > 0 /\ todo > Room
      /\ data' = Enclosed(data, lastp, lastaddr, n) /\ lastp' = n /\ lastaddr' = 0
      /\ UNCHANGED <<at, open, errors, mark>>
  BY DEF AllocWraps, MemJmp, Closed, Enclosed
<1>2. /\ MarkOK(mark, data, memp) /\ Low(data) /\ EndsKept(at, open)
      /\ ~mark.refs =>
           /\ Served(mark, data, lastp, lastaddr)
           /\ mark.straight /\ "wrap" \notin errors =>
                Straight(mark, data, lastp, lastaddr, memp, Pos, todo, at, open)
  BY DEF ReadInv
<1>3. /\ data \in Seq(Block) /\ memp \in Nat /\ lastp \in Nat /\ lastp <= memp /\ lastaddr \in Nat
      /\ lastaddr < Size /\ todo \in Nat /\ lastaddr + (memp - lastp) = Pos /\ Pos \in 0 .. AllMem2
      /\ Room = AllMem2 - Pos
  BY ReadTypes
<1>4. Size = AllMem2 + 1 /\ AllMem2 \in Nat
  BY SizeNat DEF Size
<1>. PICK r \in Nat : r = Room
  BY <1>3, <1>4
<1>5. n \in Nat /\ lastp <= n /\ memp <= n /\ lastaddr + (n - lastp) = Size
  BY <1>3, <1>4
<1>. PICK e : e = Enclosed(data, lastp, lastaddr, n)
  OBVIOUS
<1>6. /\ MarkOK(mark, e, n) /\ Low(e)
      /\ Served(mark, data, lastp, lastaddr) => Served(mark, e, n, 0)
  <2>1. lastaddr + (n - lastp) <= Size
    BY <1>4, <1>5
  <2>. QED BY ONLY <1>2, <1>3, <1>5, <2>1, e = Enclosed(data, lastp, lastaddr, n), EnclosedServes
<1>7. MarkOK(mark', data', memp') /\ Low(data')
  BY <1>1, <1>6
<1>8. ~mark.refs => Served(mark', data', lastp', lastaddr')
  BY <1>1, <1>2, <1>6
<1>9. ASSUME Straight(mark, data, lastp, lastaddr, memp, Pos, todo, at, open), ~mark.refs
      PROVE  Straight(mark', data', lastp', lastaddr', memp', Pos', todo', at', open')
  <2>1. Rising(mark, data) /\ Above(mark, data, lastp, lastaddr) /\ Fits(Pos, todo, at, open)
    BY <1>1, <1>9 DEF Straight, Over
  <2>2. Pos + todo <= Size /\ (Pos + todo = Size => AtTop(at, open))
    BY <1>1, <2>1 DEF Fits
  <2>3. Pos + todo = Size /\ todo - (Room + 1) = 0
    BY <1>1, <1>3, <1>4, <2>2
  <2>4. Rising(mark, e)
    BY <1>2, <1>3, <1>5, <1>9, <2>1, EnclosedRises
  <2>5. Over(lastp', lastaddr', memp', todo', at', open')
    BY <1>1, <2>2, <2>3 DEF Over
  <2>. QED BY <1>1, <2>4, <2>5 DEF Straight
<1>10. EndsKept(at', open')
  BY <1>1, <1>2
<1>. QED BY <1>1, <1>2, <1>7, <1>8, <1>9, <1>10 DEF ReadInv

\* memskip, by a line or behind a block: the address only goes up, to the top
\* at most, or it was complained.
LEMMA SkipsRead ==
  ASSUME Size < Word, Inv, ReadInv, todo = 0, NEW a \in Position, a.address = at.address, a.end <= Size,
         NEW db \in Nat \ {0}, NEW h, GoOn(a, h, db), MemJmp(memp, at'.address), memp' = memp, todo' = todo,
         EndsKept(at, open)', AtTop(at, open) => db = Size \/ "wrap" \in errors'
  PROVE  ReadInv'
<1>1. /\ at' = Advanced(a, db) /\ errors' = errors \cup Complaints(a, db) /\ mark' = mark
      /\ memp' = memp /\ todo' = 0
  BY DEF GoOn
<1>2. /\ MarkOK(mark, data, memp) /\ Low(data) /\ EndsKept(at, open)
      /\ ~mark.refs =>
           /\ Served(mark, data, lastp, lastaddr)
           /\ mark.straight /\ "wrap" \notin errors =>
                Straight(mark, data, lastp, lastaddr, memp, Pos, todo, at, open)
  BY DEF ReadInv
<1>3. /\ data \in Seq(Block) /\ memp \in Nat /\ lastp \in Nat /\ lastp <= memp /\ lastaddr \in Nat
      /\ lastaddr + (memp - lastp) = at.address
  BY ReadTypes, PosAddress
<1>4. a.address \in Nat /\ a.address < Size /\ Size = AllMem2 + 1 /\ AllMem2 \in Nat
  BY Numbers, SizeNat DEF Size
<1>. PICK x \in Nat : x = a.address
  BY <1>4
<1>. PICK adr : adr = (x + db) % Size
  OBVIOUS
<1>5. adr \in 0 .. AllMem2 /\ adr \in Nat /\ at'.address = adr
  <2>1. x + db \in Int
    OBVIOUS
  <2>2. adr \in 0 .. AllMem2
    BY ONLY <2>1, adr = (x + db) % Size, Division, SizeNat
  <2>3. at'.address = adr
    BY <1>1, AdvancedType
  <2>. QED BY <2>2, <2>3
<1>6. /\ data' = Enclosed(data, lastp, lastaddr, memp) /\ lastp' = memp /\ lastaddr' = adr
      /\ MarkOK(mark, data', memp) /\ Low(data')
      /\ ~mark.refs => Served(mark, data', memp, adr)
  BY <1>5, JumpServes
<1>7. Pos' = adr
  <2>1. (at.address - todo)' = adr
    BY <1>1, <1>5
  <2>. QED BY <1>5, <2>1, Small DEF Pos
<1>8. ASSUME db = Size - x PROVE adr = 0 /\ AtTop(at', open')
  <2>1. AtTop(at', open')
    BY <1>1, <1>8, AdvancedEnd
  <2>. QED BY <1>5, <2>1 DEF AtTop
<1>9. ASSUME "wrap" \notin errors', Straight(mark, data, lastp, lastaddr, memp, Pos, todo, at, open), ~mark.refs
      PROVE  Straight(mark', data', lastp', lastaddr', memp', Pos', todo', at', open')
  <2>1. db <= Size - x
    BY <1>1, <1>9 DEF Complaints
  <2>2. CASE Above(mark, data, lastp, lastaddr)
    <3>1. Rising(mark, data) /\ Served(mark, data, lastp, lastaddr) /\ memp <= memp
      BY <1>2, <1>3, <1>9 DEF Straight
    <3>. PICK e : e = Enclosed(data, lastp, lastaddr, memp)
      OBVIOUS
    <3>2. Rising(mark, e) /\ (lastaddr + (memp - lastp) <= adr => Above(mark, e, memp, adr))
      BY ONLY <1>2, <1>3, <1>5, <2>2, <3>1, e = Enclosed(data, lastp, lastaddr, memp), EnclosedRises
    <3>3. CASE db = Size - x
      <4>1. Over(lastp', lastaddr', memp', todo', at', open')
        BY <1>1, <1>6, <1>8, <3>3 DEF Over
      <4>. QED BY <1>1, <1>6, <3>2, <4>1 DEF Straight
    <3>4. CASE db # Size - x
      <4>1. x + db \in 0 .. AllMem2
        BY <1>4, <2>1, <3>4
      <4>2. adr = x + db
        BY <4>1, Small
      <4>3. lastaddr + (memp - lastp) <= adr
        BY <1>3, <4>2
      <4>4. Above(mark', data', lastp', lastaddr')
        BY <1>1, <1>6, <3>2, <4>3
      <4>5. Fits(Pos', todo', at', open')
        <5>1. Pos' + todo' <= Size /\ ~(todo' > 0)
          BY <1>1, <1>4, <1>5, <1>7
        <5>. QED BY <5>1 DEF Fits
      <4>. QED BY <1>1, <1>6, <3>2, <4>4, <4>5 DEF Straight
    <3>. QED BY <3>3, <3>4
  <2>3. CASE Over(lastp, lastaddr, memp, todo, at, open)
    <3>1. lastp = memp /\ AtTop(at, open) /\ x = 0
      BY <2>3 DEF Over, AtTop
    <3>2. db = Size
      BY <1>9, <3>1
    <3>3. db = Size - x
      BY <1>4, <3>1, <3>2
    <3>4. data' = data
      BY <1>6, <3>1 DEF Enclosed
    <3>5. Rising(mark', data')
      BY <1>1, <1>9, <3>4 DEF Straight
    <3>6. Over(lastp', lastaddr', memp', todo', at', open')
      BY <1>1, <1>6, <1>8, <3>3 DEF Over
    <3>. QED BY <3>5, <3>6 DEF Straight
  <2>. QED BY <1>9, <2>2, <2>3 DEF Straight
<1>10. MarkOK(mark', data', memp') /\ Low(data') /\ (~mark'.refs => Served(mark', data', lastp', lastaddr'))
  BY <1>1, <1>6
<1>11. "wrap" \notin errors' => "wrap" \notin errors
  BY <1>1
<1>. QED BY <1>1, <1>2, <1>9, <1>10, <1>11 DEF ReadInv

\* memskip, by a line
LEMMA SkipReads ==
  ASSUME Size < Word, Inv, ReadInv, NEW db \in 1 .. MaxData, Skip(db)
  PROVE  ReadInv'
<1>0. db \in Nat \ {0}
  BY BoundAssumption
<1>1. /\ todo = 0 /\ todo' = todo /\ open' = open /\ GoOn(at, hist, db) /\ MemJmp(memp, at'.address)
      /\ memp' = memp /\ at' = Advanced(at, db) /\ errors' = errors \cup Complaints(at, db)
  BY DEF Skip, Piece, GoOn
<1>2. at \in Position /\ open \in Seq(Frame) /\ EndsKept(at, open) /\ at.end <= Size
  BY ReadTypes DEF ReadInv, EndsKept, Bounded
<1>3. at' \in Position /\ at.end <= at'.end /\ at'.end <= Size
  BY <1>0, <1>1, <1>2, AdvancedType, AdvancedEnd
<1>4. EndsKept(at, open)'
  BY <1>1, <1>2, <1>3, EndGrows
<1>5. AtTop(at, open) => "wrap" \in errors'
  BY <1>1 DEF AtTop, Complaints
<1>. QED BY <1>0, <1>1, <1>2, <1>4, <1>5, SkipsRead

\* A label begins anew, behind all that is placed.
LEMMA LabelReads == ASSUME Inv, ReadInv, Label PROVE ReadInv'
<1>1. /\ mark' = [addr |-> at.address, membp |-> Len(data) + 1, from |-> memp,
                  straight |-> TRUE, refs |-> FALSE]
      /\ UNCHANGED <<at, memp, data, lastp, lastaddr, todo, open, errors>> /\ todo = 0
  BY DEF Label, Ready, blocks
<1>2. /\ data \in Seq(Block) /\ memp \in Nat /\ lastp \in Nat /\ lastp <= memp /\ lastaddr \in Nat
      /\ lastaddr + (memp - lastp) = at.address /\ Pos = at.address /\ Pos < Size /\ Pos \in Nat
  <2>1. Pos = at.address
    BY <1>1, PosAddress
  <2>2. Pos \in 0 .. AllMem2
    BY ReadTypes
  <2>3. Pos \in Nat
    BY <2>2
  <2>. QED BY <2>1, <2>3, ReadTypes
<1>3. DOMAIN data = 1 .. Len(data) /\ Len(data) \in Nat /\ at.address \in Address
  BY <1>2, ReadTypes DEF Position
<1>. PICK k : k = mark'
  OBVIOUS
<1>4. /\ k \in Marked /\ k.addr = at.address /\ k.membp = Len(data) + 1 /\ k.from = memp /\ ~k.refs
  BY <1>1, <1>2, <1>3 DEF Marked
<1>5. Since(k, data) = {}
  BY <1>3, <1>4 DEF Since
<1>6. MarkOK(k, data, memp)
  BY <1>2, <1>3, <1>4 DEF MarkOK
<1>7. Served(k, data, lastp, lastaddr)
  <2>1. ASSUME NEW i \in OwnOf(data) PROVE data[i].p + data[i].len <= k.from
    <3>1. data[i].p + data[i].len <= lastp
      BY DEF Inv, Blocks, Partition
    <3>2. data[i].p \in Nat /\ data[i].len \in Nat
      BY <1>2, WayNumbers DEF OwnOf
    <3>. QED BY <1>2, <1>4, <3>1, <3>2
  <2>2. Serves(k, k.membp = Len(data) + 1, lastp, lastaddr)
    BY <1>2, <1>4 DEF Serves
  <2>. QED BY <1>5, <2>1, <2>2 DEF Served
<1>8. Straight(k, data, lastp, lastaddr, memp, Pos, todo, at, open)
  <2>1. Rising(k, data)
    BY <1>5 DEF Rising
  <2>2. lastp >= k.from => lastaddr >= k.addr
    BY <1>2, <1>4
  <2>3. Above(k, data, lastp, lastaddr)
    BY <1>5, <2>2 DEF Above
  <2>4. Fits(Pos, todo, at, open)
    <3>1. Pos + todo <= Size /\ ~(todo > 0)
      BY <1>1, <1>2, SizeNat
    <3>. QED BY <3>1 DEF Fits
  <2>. QED BY <2>1, <2>3, <2>4 DEF Straight
<1>9. Pos' = Pos
  BY <1>1 DEF Pos
<1>10. Low(data') /\ EndsKept(at', open')
  BY <1>1 DEF ReadInv
<1>11. MarkOK(mark', data', memp') /\ Served(mark', data', lastp', lastaddr')
  BY <1>1, <1>6, <1>7
<1>12. Straight(mark', data', lastp', lastaddr', memp', Pos', todo', at', open')
  BY <1>1, <1>8, <1>9
<1>. QED BY <1>10, <1>11, <1>12 DEF ReadInv

\* .dsection: its block is of another memory, and the label is not read past it.
LEMMA DsectionReads ==
  ASSUME Size < Word, Inv, ReadInv, NEW n \in 0 .. MaxData, Dsection(n)
  PROVE  ReadInv'
<1>. DEFINE b == [p |-> lastp, addr |-> at.address, len |-> n, ref |-> TRUE]
<1>1. /\ data \in Seq(Block) /\ memp \in Nat /\ lastp \in Nat /\ lastp <= memp /\ lastaddr \in Nat
      /\ lastaddr < Size /\ at \in Position /\ open \in Seq(Frame) /\ at.address \in Nat /\ n \in Nat
      /\ lastaddr + (memp - lastp) <= Size
  <2>1. lastaddr + (memp - lastp) <= Size
    BY ReadTypes, SizeNat
  <2>. QED BY <2>1, ReadTypes, Numbers, BoundAssumption
<1>2. b \in Block /\ b.ref
  BY <1>1 DEF Block
<1>3. mark' = [mark EXCEPT !.refs = TRUE] /\ open' = open /\ memp' = memp
  <2>1. mark' = [mark EXCEPT !.refs = TRUE] /\ open' = open
    BY DEF Dsection
  <2>2. memp' = memp
    BY DEF Dsection
  <2>. QED BY <2>1, <2>2
<1>4. MarkOK(mark, data, memp) /\ Low(data) /\ EndsKept(at, open) /\ at.end <= Size
  BY DEF ReadInv, EndsKept, Bounded
<1>5. /\ mark' \in Marked /\ mark'.membp = mark.membp /\ mark'.from = mark.from /\ mark'.refs
  BY <1>3, <1>4 DEF MarkOK, Marked
<1>. PICK k : k = mark'
  OBVIOUS
<1>. HIDE DEF b
<1>. PICK d \in Seq(Block) : d = Append(data, b)
  BY <1>1, <1>2, OneBlock
<1>6. /\ Len(d) = Len(data) + 1 /\ DOMAIN d = 1 .. Len(data) + 1 /\ DOMAIN data = 1 .. Len(data)
      /\ Len(data) \in Nat
      /\ \A i \in DOMAIN data : d[i] = data[i] /\ i # Len(data) + 1
      /\ d[Len(data) + 1] = b
      /\ \A i \in DOMAIN d : i \in DOMAIN data \/ i = Len(data) + 1
  BY <1>1, <1>2, OneBlock
<1>7. MarkOK(k, d, memp)
  <2>1. k.membp \in 1 .. Len(d) + 1 /\ k.from \in 0 .. memp
    BY <1>4, <1>5, <1>6 DEF MarkOK
  <2>. QED BY <1>5, <2>1 DEF MarkOK
<1>8. Low(d)
  <2>. SUFFICES ASSUME NEW i \in OwnOf(d) PROVE d[i].addr < Size /\ d[i].addr + d[i].len <= Size
    BY DEF Low
  <2>1. i \in DOMAIN d /\ ~d[i].ref
    BY DEF OwnOf
  <2>2. d[i] = data[i] /\ i \in OwnOf(data)
    BY <1>2, <1>6, <2>1 DEF OwnOf
  <2>. QED BY <1>4, <2>2 DEF Low
<1>9. CASE n = 0
  <2>1. data' = d /\ at' = at
    BY <1>9 DEF Dsection, b
  <2>2. MarkOK(mark', data', memp') /\ Low(data') /\ EndsKept(at', open')
    BY <1>3, <1>4, <1>7, <1>8, <2>1
  <2>. QED BY <1>5, <2>2 DEF ReadInv
<1>10. CASE n # 0
  <2>1. at' = Advanced(at, n) /\ data' = Enclosed(d, lastp, lastaddr, memp)
    BY <1>10 DEF Dsection, Closed, Enclosed, b
  <2>. PICK e : e = Enclosed(d, lastp, lastaddr, memp)
    OBVIOUS
  <2>2. MarkOK(k, e, memp) /\ Low(e)
    <3>1. memp <= memp /\ 0 \in Nat
      BY <1>1
    <3>. QED BY ONLY <1>1, <1>7, <1>8, <3>1, d \in Seq(Block), e = Enclosed(d, lastp, lastaddr, memp), EnclosedServes
  <2>3. EndsKept(at', open')
    <3>1. at' \in Position /\ at.end <= at'.end /\ at'.end <= Size
      BY <1>1, <1>4, <2>1, AdvancedType, AdvancedEnd
    <3>. QED BY <1>1, <1>3, <1>4, <3>1, EndGrows
  <2>4. MarkOK(mark', data', memp') /\ Low(data')
    BY <1>3, <2>1, <2>2
  <2>. QED BY <1>5, <2>3, <2>4 DEF ReadInv
<1>. QED BY <1>9, <1>10

\* A block is opened.
LEMMA OpenedReads ==
  ASSUME Inv, Inv', ReadInv, UNCHANGED <<blocks, mark, todo, errors>>,
         NEW f \in Frame, open' = Append(open, f), f.end = at.end,
         at'.address = at.address, at'.moved = at.moved, at'.wrapwarn = at.wrapwarn,
         at'.end = IF f.what \in Ranges THEN at.address ELSE at.end
  PROVE  ReadInv'
<1>1. /\ at \in Position /\ at' \in Position /\ open \in Seq(Frame) /\ EndsKept(at, open)
      /\ at.end <= Size /\ at.address \in Nat /\ at.address < Size
  <2>1. at \in Position /\ at' \in Position /\ open \in Seq(Frame)
    BY DEF Inv, TypeOK
  <2>2. EndsKept(at, open) /\ at.end <= Size
    BY DEF ReadInv, EndsKept, Bounded
  <2>. QED BY <2>1, <2>2, Numbers
<1>2. at'.end <= Size
  <2>1. CASE f.what \in Ranges
    BY <1>1, <2>1, SizeNat
  <2>2. CASE f.what \notin Ranges
    BY <1>1, <2>2
  <2>. QED BY <2>1, <2>2
<1>3. EndsKept(at', Append(open, f))
  BY <1>1, <1>2, EndOpened
<1>4. ASSUME AtTop(at, open) PROVE AtTop(at', Append(open, f))
  <2>1. at'.end \in {0, Size}
    BY <1>4 DEF AtTop, Topped
  <2>2. Topped(at', Append(open, f))
    BY <1>1, <1>4, <2>1, ToppedOpened DEF AtTop
  <2>. QED BY <1>4, <2>2 DEF AtTop
<1>. QED BY <1>3, <1>4, StaysReads

\* The lines that open a block
LEMMA OpenReads ==
  ASSUME Inv, ReadInv, (\E v \in Values : Logical(v)) \/ Union \/ Struct \/ Dstruct \/ Dunion
  PROVE  ReadInv'
<1>0. Inv' /\ at \in Position
  BY OpenStep DEF Inv, TypeOK
<1>1. ASSUME NEW what \in {"logical", "union", "struct", "dstruct", "dunion"}, Opened(what)
      PROVE  \E f \in Frame : open' = Append(open, f) /\ f.end = at.end /\ f.what = what
  <2>. DEFINE f == [what |-> what, unionmode |-> at.unionmode,
                    start |-> at.start, end |-> at.end, l_union |-> at.l_union,
                    laddr |-> IF at.unionmode THEN at.l_union ELSE at.l_address,
                    addr |-> at.address]
  <2>1. f \in Frame
    BY <1>0 DEF Position, Frame
  <2>2. open' = Append(open, f)
    BY <1>1 DEF Opened
  <2>3. f.end = at.end /\ f.what = what
    OBVIOUS
  <2>. HIDE DEF f
  <2>. QED BY <2>1, <2>2, <2>3
<1>2. ASSUME NEW v \in Values, Logical(v) PROVE ReadInv'
  <2>1. UNCHANGED <<blocks, mark, todo, errors>> /\ Opened("logical")
    BY <1>2 DEF Logical
  <2>2. /\ at'.moved = at.moved /\ at'.address = at.address
        /\ at'.wrapwarn = at.wrapwarn /\ at'.end = at.end
    BY <1>0, <1>2 DEF Logical, Position
  <2>3. PICK f \in Frame : open' = Append(open, f) /\ f.end = at.end /\ f.what = "logical"
    BY <1>1, <2>1
  <2>4. f.what \notin Ranges
    BY <2>3 DEF Ranges
  <2>. QED BY <1>0, <2>1, <2>2, <2>3, <2>4, OpenedReads
<1>3. ASSUME NEW what \in Ranges, NEW mode \in BOOLEAN, Range1(what, mode) PROVE ReadInv'
  <2>1. UNCHANGED <<blocks, mark, todo, errors>> /\ Opened(what)
    BY <1>3 DEF Range1
  <2>2. /\ at'.moved = at.moved /\ at'.address = at.address
        /\ at'.wrapwarn = at.wrapwarn /\ at'.end = at.address
    BY <1>0, <1>3 DEF Range1, Position
  <2>3. PICK f \in Frame : open' = Append(open, f) /\ f.end = at.end /\ f.what = what
    BY <1>1, <2>1 DEF Ranges
  <2>. QED BY <1>0, <2>1, <2>2, <2>3, OpenedReads
<1>4. CASE Struct
  <2>1. UNCHANGED <<blocks, mark, todo, errors>> /\ Opened("struct")
    BY <1>4 DEF Struct
  <2>2. /\ at'.moved = at.moved /\ at'.address = at.address
        /\ at'.wrapwarn = at.wrapwarn /\ at'.end = at.end
    BY <1>0, <1>4 DEF Struct, Position
  <2>3. PICK f \in Frame : open' = Append(open, f) /\ f.end = at.end /\ f.what = "struct"
    BY <1>1, <2>1
  <2>4. f.what \notin Ranges
    BY <2>3 DEF Ranges
  <2>. QED BY <1>0, <2>1, <2>2, <2>3, <2>4, OpenedReads
<1>. QED BY <1>2, <1>3, <1>4 DEF Union, Dstruct, Dunion, Ranges

\* A block is closed: its end goes over to the block around it.
LEMMA ClosedEnds ==
  ASSUME Inv, ReadInv, open # <<>>, NEW a \in Position,
         IF Last1.what \in Ranges
         THEN Last1.end <= a.end /\ at.end <= a.end /\ a.end \in {Last1.end, at.end, at.address}
         ELSE a.end = at.end
  PROVE  /\ EndsKept(a, SubSeq(open, 1, Len(open) - 1))
         /\ AtTop(at, open) => Topped(a, SubSeq(open, 1, Len(open) - 1))
<1>1. at \in Position /\ open \in Seq(Frame) /\ EndsKept(at, open)
  BY ReadTypes DEF ReadInv
<1>. PICK n \in Nat : n = Len(open)
  BY <1>1
<1>2. n \in DOMAIN open /\ Last1 = open[n]
  BY <1>1 DEF Last1
<1>3. /\ at.end \in Nat /\ a.end \in Nat /\ open[n].end \in Nat /\ at.address \in Nat /\ Size \in Nat
      /\ at.address < Size
  BY <1>1, <1>2, Numbers, FrameNumbers, SizeNat
<1>4. at.end <= Size /\ open[n].end <= Size
  BY <1>1, <1>2 DEF EndsKept, Bounded
<1>5. open[n].end <= a.end /\ at.end <= a.end /\ a.end <= Size
  <2>1. CASE Last1.what \in Ranges
    BY <1>2, <1>3, <1>4, <2>1
  <2>2. CASE Last1.what \notin Ranges
    <3>1. open[n].end <= at.end
      BY <1>1, <1>2, <2>2 DEF EndsKept, Handed
    <3>. QED BY <1>3, <1>4, <2>2, <3>1
  <2>. QED BY <2>1, <2>2
<1>6. EndsKept(a, SubSeq(open, 1, Len(open) - 1))
  BY <1>1, <1>2, <1>5, EndClosed
<1>7. ASSUME AtTop(at, open) PROVE Topped(a, SubSeq(open, 1, Len(open) - 1))
  <2>1. Topped(at, open) /\ at.address = 0
    BY <1>7 DEF AtTop
  <2>2. at.end = Size \/ open[n].end = Size => a.end = Size
    BY <1>3, <1>5
  <2>3. a.end \in {0, Size}
    <3>1. at.end \in {0, Size} /\ (open[n].end \in {0, Size} \/ at.end = Size)
      <4>1. ~\E j \in DOMAIN open : n < j
        BY <1>1
      <4>. QED BY <1>2, <2>1, <4>1 DEF Topped
    <3>2. a.end \in {open[n].end, at.end, 0}
      BY <1>2, <2>1
    <3>. QED BY <2>2, <3>1, <3>2
  <2>. QED BY <1>1, <2>1, <2>2, <2>3, ToppedClosed
<1>. QED BY <1>6, <1>7

\* It stays where it is, or the space of its longest line is skipped.
LEMMA ClosedReads ==
  ASSUME Size < Word, Inv, Inv', ReadInv, todo = 0, open # <<>>, open' = SubSeq(open, 1, Len(open) - 1),
         NEW a \in Position, a.address = at.address, a.moved = at.moved,
         IF Last1.what \in Ranges
         THEN Last1.end <= a.end /\ at.end <= a.end /\ a.end \in {Last1.end, at.end, at.address}
         ELSE a.end = at.end,
         \/ at' = a /\ UNCHANGED <<blocks, mark, todo, errors>> /\ (AtTop(at, open) => a.wrapwarn)
         \/ \E h, db : /\ db \in Nat \ {0} /\ GoOn(a, h, db) /\ MemJmp(memp, at'.address)
                       /\ memp' = memp /\ todo' = todo
                       /\ AtTop(at, open) => db = Size \/ "wrap" \in errors'
  PROVE  ReadInv'
<1>1. /\ EndsKept(a, open')
      /\ AtTop(at, open) => Topped(a, open')
  BY ClosedEnds
<1>2. CASE at' = a /\ UNCHANGED <<blocks, mark, todo, errors>> /\ (AtTop(at, open) => a.wrapwarn)
  <2>1. AtTop(at, open) => AtTop(at', open')
    BY <1>1, <1>2 DEF AtTop
  <2>. QED BY <1>1, <1>2, <2>1, StaysReads
<1>3. ASSUME NEW h, NEW db \in Nat \ {0}, GoOn(a, h, db), MemJmp(memp, at'.address),
             memp' = memp, todo' = todo, AtTop(at, open) => db = Size \/ "wrap" \in errors'
      PROVE  ReadInv'
  <2>1. at' = Advanced(a, db) /\ at' \in Position /\ open' \in Seq(Frame)
    BY <1>3 DEF GoOn, Inv, TypeOK
  <2>2. a.end <= Size
    BY <1>1 DEF EndsKept, Bounded
  <2>3. a.end <= at'.end /\ at'.end <= Size
    <3>1. db \in Nat
      OBVIOUS
    <3>. QED BY <2>1, <2>2, <3>1, AdvancedEnd
  <2>4. EndsKept(at', open')
    BY <1>1, <2>1, <2>3, EndGrows
  <2>. QED BY <1>3, <2>2, <2>4, SkipsRead
<1>. QED BY <1>2, <1>3

\* The lines that close a block
LEMMA CloseReads == ASSUME Size < Word, Inv, ReadInv, Closes PROVE ReadInv'
<1>0. Inv' /\ TypeOK /\ at \in Position /\ Size \in Nat
  BY CloseStep, SizeNat DEF Inv, TypeOK
<1>1. ASSUME NEW what, Ends(what)
      PROVE  /\ Last1 \in Frame /\ Last1.what = what /\ todo = 0
             /\ open # <<>> /\ open' = SubSeq(open, 1, Len(open) - 1)
  BY <1>0, <1>1, Ended DEF Ends
<1>2. CASE Here
  <2>1. Ends("logical") /\ UNCHANGED <<blocks, mark, todo, errors>>
    BY <1>2 DEF Here
  <2>2. /\ at'.moved = at.moved /\ at'.address = at.address
        /\ at'.wrapwarn = at.wrapwarn /\ at'.end = at.end
    BY <1>0, <1>2 DEF Here, Position
  <2>3. at' \in Position
    BY <1>0 DEF Inv, TypeOK
  <2>4. Last1.what \notin Ranges
    BY <1>1, <2>1 DEF Ranges
  <2>5. AtTop(at, open) => at'.wrapwarn
    BY <2>2 DEF AtTop
  <2>. QED BY <1>0, <1>1, <2>1, <2>2, <2>3, <2>4, <2>5, ClosedReads
<1>3. CASE EndStruct
  <2>1. Ends("struct") /\ UNCHANGED <<blocks, mark, todo, errors>>
    BY <1>3 DEF EndStruct
  <2>2. /\ at'.moved = at.moved /\ at'.address = at.address
        /\ at'.wrapwarn = at.wrapwarn /\ at'.end = at.end
    BY <1>0, <1>3 DEF EndStruct, Position
  <2>3. at' \in Position
    BY <1>0 DEF Inv, TypeOK
  <2>4. Last1.what \notin Ranges
    BY <1>1, <2>1 DEF Ranges
  <2>5. AtTop(at, open) => at'.wrapwarn
    BY <2>2 DEF AtTop
  <2>. QED BY <1>0, <1>1, <2>1, <2>2, <2>3, <2>4, <2>5, ClosedReads
<1>4. ASSUME NEW b \in Position, NEW h, NEW end \in Nat, SkipTo(b, h, end), b.address = at.address,
             AtTop(at, open) => IF end > b.address THEN end = Size \/ (b.moved /\ b.wrapwarn) ELSE b.wrapwarn
      PROVE  \/ at' = b /\ UNCHANGED <<blocks, mark, todo, errors>> /\ (AtTop(at, open) => b.wrapwarn)
             \/ \E g, db : /\ db \in Nat \ {0} /\ GoOn(b, g, db) /\ MemJmp(memp, at'.address)
                           /\ memp' = memp /\ todo' = todo
                           /\ AtTop(at, open) => db = Size \/ "wrap" \in errors'
  <2>1. CASE end > b.address
    <3>. PICK db : db = end - b.address
      OBVIOUS
    <3>1. GoOn(b, h, db) /\ MemJmp(memp, at'.address) /\ memp' = memp /\ todo' = todo
      BY <1>4, <2>1 DEF SkipTo
    <3>2. db \in Nat \ {0}
      BY <2>1, Numbers
    <3>3. ASSUME AtTop(at, open) PROVE db = Size \/ "wrap" \in errors'
      <4>1. at.address = 0
        BY <3>3 DEF AtTop
      <4>2. CASE end = Size
        BY <1>0, <1>4, <4>1, <4>2
      <4>3. CASE b.moved /\ b.wrapwarn
        <5>1. errors' = errors \cup Complaints(b, db)
          BY <3>1 DEF GoOn
        <5>. QED BY <4>3, <5>1 DEF Complaints
      <4>. QED BY <1>4, <2>1, <3>3, <4>2, <4>3
    <3>. QED BY <3>1, <3>2, <3>3
  <2>2. CASE ~(end > b.address)
    BY <1>4, <2>2 DEF SkipTo
  <2>. QED BY <2>1, <2>2
<1>5. CASE Endu
  <2>. DEFINE end == Higher(at.address, at.end)
  <2>. DEFINE high == Higher(Last1.end, end)
  <2>. DEFINE a == [at EXCEPT !.unionmode = Last1.unionmode, !.l_union = Last1.l_union,
                              !.start = Last1.start, !.end = high]
  <2>. DEFINE b == [a EXCEPT !.wrapwarn = @ /\ end <= at.address]
  <2>1. Ends("union") /\ SkipTo(b, Moved(hist), end)
    BY <1>5 DEF Endu
  <2>2. Last1 \in Frame /\ Last1.what \in Ranges /\ todo = 0
    BY <1>1, <2>1 DEF Ranges
  <2>3. /\ end \in Nat /\ high \in Nat /\ Last1.end <= high /\ at.end <= high
        /\ high \in {Last1.end, at.end, at.address}
        /\ AtTop(at, open) => (end > at.address => end = Size)
    <3>1. at.address \in Nat /\ at.end \in Nat /\ Last1.end \in Nat
      BY <1>0, <2>2, SizeNat DEF Position, Frame, Address
    <3>2. AtTop(at, open) => at.address = 0 /\ at.end \in {0, Size}
      BY DEF AtTop, Topped
    <3>. QED BY <1>0, <3>1, <3>2 DEF Higher
  <2>. HIDE DEF high, end
  <2>4. /\ b \in Position /\ b.moved = at.moved /\ b.address = at.address /\ b.end = high
        /\ b.wrapwarn = (at.wrapwarn /\ end <= at.address)
    <3>1. a \in Position /\ a.moved = at.moved /\ a.address = at.address /\ a.end = high
          /\ a.wrapwarn = at.wrapwarn
      BY <1>0, <2>2, <2>3 DEF Position, Frame
    <3>. HIDE DEF a
    <3>2. (a.wrapwarn /\ end <= at.address) \in BOOLEAN
      OBVIOUS
    <3>3. b \in Position /\ b.moved = a.moved /\ b.address = a.address /\ b.end = a.end
      BY <3>1, <3>2 DEF Position
    <3>4. b.wrapwarn = (a.wrapwarn /\ end <= at.address)
      BY <3>1 DEF Position
    <3>. QED BY <3>1, <3>3, <3>4
  <2>. HIDE DEF a, b
  <2>5. AtTop(at, open) => IF end > b.address THEN end = Size \/ (b.moved /\ b.wrapwarn) ELSE b.wrapwarn
    <3>1. CASE end > at.address
      BY <2>3, <2>4, <3>1
    <3>2. CASE ~(end > at.address)
      <4>1. end <= at.address
        BY <1>0, <2>3, <3>2, Numbers
      <4>. QED BY <2>4, <3>2, <4>1 DEF AtTop
    <3>. QED BY <3>1, <3>2
  <2>6. \/ at' = b /\ UNCHANGED <<blocks, mark, todo, errors>> /\ (AtTop(at, open) => b.wrapwarn)
        \/ \E g, db : /\ db \in Nat \ {0} /\ GoOn(b, g, db) /\ MemJmp(memp, at'.address)
                      /\ memp' = memp /\ todo' = todo
                      /\ AtTop(at, open) => db = Size \/ "wrap" \in errors'
    BY <1>4, <2>1, <2>3, <2>4, <2>5
  <2>7. open # <<>> /\ open' = SubSeq(open, 1, Len(open) - 1)
    BY <1>1, <2>1
  <2>. QED BY <1>0, <2>2, <2>3, <2>4, <2>6, <2>7, ClosedReads
<1>6. CASE EndInstance
  <2>. DEFINE high == Higher(Last1.end, at.end)
  <2>. DEFINE a == [at EXCEPT !.unionmode = Last1.unionmode, !.l_union = Last1.l_union,
                              !.start = Last1.start, !.end = high]
  <2>. DEFINE end == IF at.unionmode THEN at.end ELSE at.address
  <2>1. (Ends("dstruct") \/ Ends("dunion")) /\ SkipTo(a, hist, end)
    BY <1>6 DEF EndInstance
  <2>2. Last1 \in Frame /\ Last1.what \in Ranges /\ todo = 0
    BY <1>1, <2>1 DEF Ranges
  <2>3. /\ end \in Nat /\ high \in Nat /\ Last1.end <= high /\ at.end <= high
        /\ high \in {Last1.end, at.end, at.address}
    <3>1. at.address \in Nat /\ at.end \in Nat /\ Last1.end \in Nat
      BY <1>0, <2>2, SizeNat DEF Position, Frame, Address
    <3>. QED BY <3>1 DEF Higher
  <2>. HIDE DEF high, end
  <2>4. /\ a \in Position /\ a.moved = at.moved /\ a.address = at.address
        /\ a.wrapwarn = at.wrapwarn /\ a.end = high
    BY <1>0, <2>2, <2>3 DEF Position, Frame
  <2>. HIDE DEF a
  <2>5. AtTop(at, open) => IF end > a.address THEN end = Size \/ (a.moved /\ a.wrapwarn) ELSE a.wrapwarn
    BY <2>4 DEF AtTop
  <2>6. \/ at' = a /\ UNCHANGED <<blocks, mark, todo, errors>> /\ (AtTop(at, open) => a.wrapwarn)
        \/ \E g, db : /\ db \in Nat \ {0} /\ GoOn(a, g, db) /\ MemJmp(memp, at'.address)
                      /\ memp' = memp /\ todo' = todo
                      /\ AtTop(at, open) => db = Size \/ "wrap" \in errors'
    BY <1>4, <2>1, <2>3, <2>4, <2>5
  <2>7. open # <<>> /\ open' = SubSeq(open, 1, Len(open) - 1)
    BY <1>1, <2>1
  <2>. QED BY <1>0, <2>2, <2>3, <2>4, <2>6, <2>7, ClosedReads
<1>. QED BY <1>2, <1>3, <1>5, <1>6 DEF Closes

(***************************************************************************)
(* The theorem.                                                            *)
(***************************************************************************)
\* A section begins with no bytes, at its first label.
LEMMA InitRead == Init => ReadInv
<1>. SUFFICES ASSUME Init PROVE ReadInv
  OBVIOUS
<1>0. Inv
  BY InitInv
<1>a. PICK a \in Starts, l \in Values \ {-1} :
        /\ at = [address |-> a, l_address |-> l, start |-> a, end |-> a, l_union |-> l,
                 unionmode |-> FALSE, moved |-> FALSE, wrapwarn |-> FALSE]
        /\ lastaddr = a
        /\ mark = [addr |-> a, membp |-> 1, from |-> 0, straight |-> TRUE, refs |-> FALSE]
  BY DEF Init
<1>1. /\ at.address = a /\ at.end = a /\ lastaddr = a
      /\ memp = 0 /\ lastp = 0 /\ todo = 0 /\ data = <<>> /\ open = <<>>
      /\ mark = [addr |-> a, membp |-> 1, from |-> 0, straight |-> TRUE, refs |-> FALSE]
  BY <1>a DEF Init
<1>2. a \in Nat /\ a \in Address /\ a < Size /\ a <= Size
  BY ValuesAssumption, SizeNat DEF Size, Address
<1>3. /\ mark \in Marked /\ mark.addr = a /\ mark.membp = 1 /\ mark.from = 0 /\ mark.straight /\ ~mark.refs
  BY <1>1, <1>2 DEF Marked
<1>4. DOMAIN data = {} /\ Len(data) = 0 /\ DOMAIN open = {}
  BY <1>1
<1>5. Since(mark, data) = {} /\ OwnOf(data) = {}
  BY <1>4 DEF Since, OwnOf
<1>6. MarkOK(mark, data, memp) /\ Low(data)
  BY <1>1, <1>3, <1>4, <1>5 DEF MarkOK, Low
<1>7. EndsKept(at, open)
  BY <1>1, <1>2, <1>4 DEF EndsKept, Handed, Bounded
<1>8. Served(mark, data, lastp, lastaddr)
  <2>1. lastp >= mark.from
    BY <1>1, <1>3
  <2>2. Serves(mark, mark.membp = Len(data) + 1, lastp, lastaddr)
    BY <2>1 DEF Serves
  <2>. QED BY <1>5, <2>2 DEF Served
<1>9. Straight(mark, data, lastp, lastaddr, memp, Pos, todo, at, open)
  <2>1. Rising(mark, data) /\ Above(mark, data, lastp, lastaddr)
    <3>1. lastaddr >= mark.addr
      BY <1>1, <1>2, <1>3
    <3>. QED BY <1>5, <3>1 DEF Rising, Above
  <2>2. Pos = a
    BY <1>0, <1>1, PosAddress
  <2>3. Fits(Pos, todo, at, open)
    BY <1>1, <1>2, <2>2 DEF Fits
  <2>. QED BY <2>1, <2>3 DEF Straight
<1>. QED BY <1>6, <1>7, <1>8, <1>9 DEF ReadInv

\* Each line keeps the bytes readable.
LEMMA NextRead ==
  ASSUME Size < Word, Inv, ReadInv, [Next]_vars
  PROVE  ReadInv'
<1>1. CASE AllocWraps \/ AllocRest
  BY <1>1, WrapsReads, RestReads
<1>2. CASE Data
  BY <1>2, PokeReads, SkipReads, LabelReads, DsectionReads DEF Data
<1>3. CASE LineStart \/ Moves
  BY <1>3, MoveReads DEF Moves
<1>4. CASE Opens
  BY <1>4, OpenReads DEF Opens
<1>5. CASE Closes
  BY <1>5, CloseReads
<1>6. CASE UNCHANGED vars
  <2>1. /\ at' = at /\ open' = open
        /\ UNCHANGED <<blocks, mark, todo, errors>>
    BY <1>6 DEF vars, blocks
  <2>2. EndsKept(at, open)' /\ (AtTop(at, open) => AtTop(at, open)')
    BY <2>1 DEF ReadInv
  <2>. QED BY <2>1, <2>2, StaysReads
<1>. QED BY <1>1, <1>2, <1>3, <1>4, <1>5, <1>6 DEF Next

\* What read_mem gives for the bytes behind a label are bytes that were placed
\* behind it, at the addresses they were placed at, whatever blocks memjmp made
\* of them and however often the address went over the top; and when the
\* address was not set since then and nothing went over the top, it gives all
\* of them.  In the output mode with 32 bit addresses the end of a section that
\* is filled to the top is 0, and a union behind it may go on from there.
THEOREM CodeReadsBack == ~Flat => (Spec => []ReadsBack)
<1>. SUFFICES ASSUME ~Flat PROVE Spec => []ReadsBack
  OBVIOUS
<1>0. Size < Word
  BY WidthAssumption DEF Flat, Size
<1>1. Inv /\ ReadInv /\ [Next]_vars => ReadInv'
  BY <1>0, NextRead
<1>. QED BY InitRead, Invariance, ReadsFollow, <1>1, PTL DEF Spec
=============================================================================
