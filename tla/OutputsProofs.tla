--------------------------- MODULE OutputsProofs ---------------------------
(***************************************************************************)
(* Theorems about the outputs (memcomp of mem.c), for any number of bytes, *)
(* blocks, outputs and messages, and any size of the address space.        *)
(*                                                                         *)
(* What a list of blocks loads is told by the last block at an address     *)
(* (Shows); a turn of the loops changes blocks and bytes, but not what is  *)
(* shown by the blocks that count, those done and those not yet compared   *)
(* (Live).  This needs that no byte is of two blocks and that a block      *)
(* that is done is apart from all others (Merges).  What is left behind    *)
(* in the list between them is empty or a copy of one that is done, so     *)
(* that also the whole list shows the same.                                *)
(*                                                                         *)
(* Folds are functions of sets here; that they go through a list element   *)
(* by element is proved first, by induction over sets of numbers.          *)
(***************************************************************************)
EXTENDS Outputs, SequenceTheorems, WellFoundedInduction, TLAPS

(***************************************************************************)
(* Numbers.                                                                *)
(***************************************************************************)

\* Numbers have a smallest one.
LEMMA Smallest ==
  ASSUME NEW S \in SUBSET Nat, S # {}
  PROVE  \E x \in S : \A y \in S : x <= y
<1>. DEFINE R == OpToRel(<, Nat)
<1>1. IsWellFoundedOn(R, Nat)
  BY NatLessThanWellFounded
<1>2. PICK x \in S : \A y \in S : ~(<<y, x>> \in R)
  BY <1>1, WFMin
<1>4. ASSUME NEW y \in Nat, NEW z \in Nat, y < z PROVE <<y, z>> \in R
  BY <1>4 DEF OpToRel
<1>. HIDE DEF R
<1>3. ASSUME NEW y \in S PROVE x <= y
  <2>1. x \in Nat /\ y \in Nat /\ ~(y < x)
    BY <1>2, <1>4
  <2>. QED BY <2>1
<1>. QED BY <1>3

\* An induction over numbers is one over the set of those for which a fact holds.
LEMMA Inductive ==
  ASSUME NEW S, 0 \in S, \A n \in Nat : n \in S => n + 1 \in S
  PROVE  \A n \in Nat : n \in S
<1>. SUFFICES ASSUME Nat \ S # {} PROVE FALSE
  OBVIOUS
<1>. DEFINE T == Nat \ S
<1>1. T \in SUBSET Nat /\ T # {}
  OBVIOUS
<1>2. PICK m \in T : \A y \in T : m <= y
  BY <1>1, Smallest
<1>3. m \in Nat /\ m # 0 /\ m - 1 \in Nat /\ (m - 1) + 1 = m
  BY <1>2
<1>4. m - 1 \in S
  <2>1. ~(m <= m - 1)
    BY <1>3
  <2>. QED BY <1>2, <1>3, <2>1
<1>. QED BY <1>3, <1>4

\* A set of numbers that are not above n has a largest one.
LEMMA Largest ==
  ASSUME NEW n \in Nat, NEW S \in SUBSET (1 .. n), S # {}
  PROVE  Max(S) \in S /\ \A y \in S : y <= Max(S)
<1>. DEFINE T == {n - y : y \in S}
<1>1. T \in SUBSET Nat /\ T # {}
  <2>1. \A y \in S : n - y \in Nat
    OBVIOUS
  <2>2. T \subseteq Nat
    BY <2>1
  <2>3. PICK y \in S : TRUE
    OBVIOUS
  <2>4. n - y \in T
    OBVIOUS
  <2>. QED BY <2>2, <2>4
<1>2. PICK t \in T : \A z \in T : t <= z
  BY <1>1, Smallest
<1>3. PICK x \in S : t = n - x
  BY <1>2
<1>4. \A y \in S : y <= x
  <2>. SUFFICES ASSUME NEW y \in S PROVE y <= x
    OBVIOUS
  <2>1. n - y \in T
    OBVIOUS
  <2>2. t <= n - y
    BY <1>2, <2>1
  <2>. QED BY <1>3, <2>2
<1>5. \A y \in S : x >= y
  BY <1>4
<1>6. Max(S) \in S /\ \A y \in S : Max(S) >= y
  BY <1>5 DEF Max
<1>. QED BY <1>6

\* The largest number up to i + 1 is i + 1, and without it there are those up to i.
LEMMA LastOne ==
  ASSUME NEW i \in Nat
  PROVE  /\ Max(1 .. i + 1) = i + 1
         /\ (1 .. i + 1) \ {i + 1} = 1 .. i
<1>1. i + 1 \in Nat /\ 1 .. i + 1 \in SUBSET (1 .. i + 1) /\ 1 .. i + 1 # {}
  OBVIOUS
<1>2. Max(1 .. i + 1) \in 1 .. i + 1 /\ \A y \in 1 .. i + 1 : y <= Max(1 .. i + 1)
  BY ONLY <1>1, Largest
<1>. HIDE DEF Max
<1>. QED BY <1>2

(***************************************************************************)
(* A fold along 1 .. n exists as a function of the sets it goes through,   *)
(* and goes through 1 .. i.                                                *)
(***************************************************************************)
Folded(n, base, step, h) ==
  h = [S \in SUBSET (1 .. n) |-> IF S = {} THEN base ELSE step[<<Max(S), h[S \ {Max(S)}]>>]]
FoldRuns(n, Acc, base, step, h, r) ==
  /\ r \in [0 .. n -> Acc]
  /\ r[0] = base
  /\ \A i \in 1 .. n : r[i] = step[<<i, r[i - 1]>>]
  /\ h[1 .. n] = r[n]

\* A function on the sets of numbers up to n that folds exists.
LEMMA FoldExists ==
  ASSUME NEW n \in Nat, NEW Acc, NEW base \in Acc, NEW step \in [(1 .. n) \X Acc -> Acc]
  PROVE  \E h : h \in [SUBSET (1 .. n) -> Acc] /\ Folded(n, base, step, h)
<1>. DEFINE Good(l, h) ==
       /\ h \in [SUBSET (1 .. l) -> Acc]
       /\ \A S \in SUBSET (1 .. l) :
            h[S] = IF S = {} THEN base ELSE step[<<Max(S), h[S \ {Max(S)}]>>]
<1>. DEFINE T == {l \in Nat : l <= n => \E h : Good(l, h)}
<1>1. 0 \in T
  <2>. DEFINE g == [S \in SUBSET (1 .. 0) |-> base]
  <2>1. g \in [SUBSET (1 .. 0) -> Acc]
    OBVIOUS
  <2>2. \A S \in SUBSET (1 .. 0) : S = {} /\ g[S] = base
    OBVIOUS
  <2>3. Good(0, g)
    BY <2>1, <2>2
  <2>. QED BY <2>3
<1>2. ASSUME NEW l \in Nat, l \in T PROVE l + 1 \in T
  <2>. HIDE DEF Good
  <2>. SUFFICES ASSUME l + 1 <= n PROVE \E g : Good(l + 1, g)
    OBVIOUS
  <2>1. l <= n
    OBVIOUS
  <2>2. PICK h : Good(l, h)
    BY <1>2, <2>1
  <2>. USE DEF Good
  <2>. DEFINE g == [S \in SUBSET (1 .. l + 1) |->
                      IF l + 1 \in S THEN step[<<l + 1, h[S \ {l + 1}]>>] ELSE h[S]]
  <2>3. ASSUME NEW S \in SUBSET (1 .. l + 1), l + 1 \in S
        PROVE  /\ S \ {l + 1} \in SUBSET (1 .. l) /\ Max(S) = l + 1
               /\ g[S] = step[<<l + 1, h[S \ {l + 1}]>>]
               /\ g[S \ {l + 1}] = h[S \ {l + 1}] /\ g[S] \in Acc
    <3>1. S \ {l + 1} \in SUBSET (1 .. l)
      BY <2>3
    <3>2. Max(S) = l + 1
      <4>0. l + 1 \in Nat /\ S # {}
        BY <2>3
      <4>1. Max(S) \in S /\ \A y \in S : y <= Max(S)
        BY ONLY <4>0, <2>3, Largest
      <4>2. l + 1 <= Max(S) /\ Max(S) \in 1 .. l + 1
        BY ONLY <2>3, <4>1
      <4>3. \A m \in 1 .. l + 1 : l + 1 <= m => m = l + 1
        OBVIOUS
      <4>. QED BY ONLY <4>2, <4>3
    <3>3. h[S \ {l + 1}] \in Acc /\ l + 1 \in 1 .. n
      BY <2>2, <3>1
    <3>4. S \ {l + 1} \in SUBSET (1 .. l + 1) /\ l + 1 \notin S \ {l + 1}
      BY <3>1
    <3>. QED BY <2>3, <3>1, <3>2, <3>3, <3>4
  <2>4. ASSUME NEW S \in SUBSET (1 .. l + 1), l + 1 \notin S
        PROVE  /\ S \in SUBSET (1 .. l) /\ g[S] = h[S] /\ g[S] \in Acc
               /\ S # {} => S \ {Max(S)} \in SUBSET (1 .. l) /\ g[S \ {Max(S)}] = h[S \ {Max(S)}]
    <3>1. S \in SUBSET (1 .. l)
      BY <2>4
    <3>2. S \ {Max(S)} \in SUBSET (1 .. l) /\ S \ {Max(S)} \in SUBSET (1 .. l + 1)
          /\ l + 1 \notin S \ {Max(S)}
      BY <2>4, <3>1
    <3>. QED BY <2>2, <2>4, <3>1, <3>2
  <2>. HIDE DEF g
  <2>5. g \in [SUBSET (1 .. l + 1) -> Acc]
    <3>1. \A S \in SUBSET (1 .. l + 1) : g[S] \in Acc
      BY <2>3, <2>4
    <3>. QED BY <3>1 DEF g
  <2>6. ASSUME NEW S \in SUBSET (1 .. l + 1)
        PROVE  g[S] = IF S = {} THEN base ELSE step[<<Max(S), g[S \ {Max(S)}]>>]
    <3>1. CASE l + 1 \in S
      BY <2>3, <3>1
    <3>2. CASE l + 1 \notin S
      BY <2>2, <2>4, <3>2
    <3>. QED BY <3>1, <3>2
  <2>. QED BY <2>5, <2>6
<1>3. n \in T
  <2>. HIDE DEF T
  <2>. QED BY <1>1, <1>2, Inductive
<1>4. PICK h : Good(n, h)
  <2>. HIDE DEF Good
  <2>1. n <= n
    OBVIOUS
  <2>. QED BY <1>3, <2>1
<1>5. h = [S \in SUBSET (1 .. n) |->
             IF S = {} THEN base ELSE step[<<Max(S), h[S \ {Max(S)}]>>]]
  BY <1>4
<1>6. Folded(n, base, step, h)
  BY <1>5 DEF Folded
<1>7. h \in [SUBSET (1 .. n) -> Acc]
  BY <1>4
<1>. HIDE DEF Good
<1>. QED BY <1>6, <1>7

\* Such a function goes through the values step by step.
LEMMA FoldRun ==
  ASSUME NEW n \in Nat, NEW Acc, NEW base \in Acc, NEW step \in [(1 .. n) \X Acc -> Acc],
         NEW h, Folded(n, base, step, h)
  PROVE  \E r : FoldRuns(n, Acc, base, step, h, r)
<1>. DEFINE r == [i \in 0 .. n |-> h[1 .. i]]
<1>0. \A S \in SUBSET (1 .. n) :
        h[S] = IF S = {} THEN base ELSE step[<<Max(S), h[S \ {Max(S)}]>>]
  <2>. SUFFICES ASSUME NEW S \in SUBSET (1 .. n)
                PROVE  h[S] = IF S = {} THEN base ELSE step[<<Max(S), h[S \ {Max(S)}]>>]
    OBVIOUS
  <2>. QED BY DEF Folded
<1>1. h[1 .. 0] = base
  <2>1. 1 .. 0 = {} /\ 1 .. 0 \in SUBSET (1 .. n)
    OBVIOUS
  <2>. QED BY <1>0, <2>1
<1>2. \A i \in Nat : i + 1 <= n => h[1 .. i + 1] = step[<<i + 1, h[1 .. i]>>]
  <2>. SUFFICES ASSUME NEW i \in Nat, i + 1 <= n PROVE h[1 .. i + 1] = step[<<i + 1, h[1 .. i]>>]
    OBVIOUS
  <2>1. 1 .. i + 1 \in SUBSET (1 .. n) /\ 1 .. i + 1 # {}
    OBVIOUS
  <2>2. Max(1 .. i + 1) = i + 1 /\ (1 .. i + 1) \ {i + 1} = 1 .. i
    BY LastOne
  <2>. QED BY ONLY <1>0, <2>1, <2>2
<1>. DEFINE T == {i \in Nat : i <= n => h[1 .. i] \in Acc}
<1>3. \A i \in Nat : i \in T
  <2>1. 0 \in T
    BY <1>1
  <2>2. ASSUME NEW i \in Nat, i \in T PROVE i + 1 \in T
    <3>. SUFFICES ASSUME i + 1 <= n PROVE h[1 .. i + 1] \in Acc
      OBVIOUS
    <3>1. i <= n /\ i + 1 \in 1 .. n
      OBVIOUS
    <3>2. h[1 .. i] \in Acc
      BY <2>2, <3>1
    <3>3. h[1 .. i + 1] = step[<<i + 1, h[1 .. i]>>]
      BY <1>2
    <3>. QED BY ONLY <3>1, <3>2, <3>3, step \in [(1 .. n) \X Acc -> Acc]
  <2>. HIDE DEF T
  <2>. QED BY <2>1, <2>2, Inductive
<1>4. r \in [0 .. n -> Acc]
  <2>1. \A i \in 0 .. n : i \in Nat /\ i <= n
    OBVIOUS
  <2>2. \A i \in 0 .. n : h[1 .. i] \in Acc
    BY <1>3, <2>1
  <2>. QED BY <2>2
<1>5. \A i \in 1 .. n : r[i] = step[<<i, r[i - 1]>>]
  <2>. SUFFICES ASSUME NEW i \in 1 .. n PROVE r[i] = step[<<i, r[i - 1]>>]
    OBVIOUS
  <2>1. i - 1 \in Nat /\ (i - 1) + 1 = i /\ i <= n /\ i - 1 \in 0 .. n /\ i \in 0 .. n
    OBVIOUS
  <2>2. h[1 .. i] = step[<<i, h[1 .. i - 1]>>]
    BY <1>2, <2>1
  <2>. QED BY <2>1, <2>2
<1>6. r[0] = base /\ h[1 .. n] = r[n]
  <2>1. 0 \in 0 .. n /\ n \in 0 .. n
    OBVIOUS
  <2>. QED BY ONLY <1>1, <2>1
<1>. HIDE DEF r
<1>. QED BY <1>4, <1>5, <1>6 DEF FoldRuns

(***************************************************************************)
(* Sequences of addresses with their bytes, put one behind another.        *)
(***************************************************************************)
Places == Int \X Int
Runs(r, P) ==
  /\ r \in [0 .. Len(P) -> Seq(Places)]
  /\ r[0] = <<>>
  /\ \A i \in 1 .. Len(P) : r[i] = r[i - 1] \o P[i]
Joined(P) == (CHOOSE r : Runs(r, P))[Len(P)]
Pieces == Seq(Seq(Places))

\* There is a way to join pieces one by one.
LEMMA RunsExist ==
  ASSUME NEW P \in Pieces
  PROVE  \E r : Runs(r, P)
<1>. DEFINE n == Len(P)
            base == <<>>
            Acc == Seq(Places)
            step == [x \in (1 .. n) \X Acc |-> x[2] \o P[x[1]]]
<1>1. n \in Nat /\ base \in Acc /\ \A i \in 1 .. n : P[i] \in Acc
  BY DEF Pieces
<1>2. \A i \in 1 .. n : \A a \in Acc : step[<<i, a>>] = a \o P[i]
  OBVIOUS
<1>3. step \in [(1 .. n) \X Acc -> Acc]
  <2>1. \A x \in (1 .. n) \X Acc : x[2] \o P[x[1]] \in Acc
    BY <1>1
  <2>. QED BY <2>1
<1>. HIDE DEF n, base, Acc, step
<1>8. n \in Nat /\ base \in Acc
  BY <1>1
<1>4. PICK h : Folded(n, base, step, h)
  BY ONLY <1>8, <1>3, FoldExists
<1>5. PICK r : FoldRuns(n, Acc, base, step, h, r)
  BY ONLY <1>8, <1>3, <1>4, FoldRun
<1>6. \A i \in 1 .. n : r[i - 1] \in Acc
  BY <1>1, <1>5 DEF FoldRuns
<1>7. \A i \in 1 .. n : r[i] = r[i - 1] \o P[i]
  BY ONLY <1>2, <1>5, <1>6 DEF FoldRuns
<1>. QED BY <1>5, <1>7 DEF FoldRuns, Runs, n, base, Acc

\* There is only one.
LEMMA RunsAgree ==
  ASSUME NEW P \in Pieces, NEW r, NEW q, Runs(r, P), Runs(q, P)
  PROVE  r[Len(P)] = q[Len(P)]
<1>. DEFINE T == {i \in Nat : i <= Len(P) => r[i] = q[i]}
<1>0. Len(P) \in Nat
  BY DEF Pieces
<1>1. 0 \in T
  BY DEF Runs
<1>2. ASSUME NEW i \in Nat, i \in T PROVE i + 1 \in T
  <2>. SUFFICES ASSUME i + 1 <= Len(P) PROVE r[i + 1] = q[i + 1]
    OBVIOUS
  <2>1. i + 1 \in 1 .. Len(P) /\ (i + 1) - 1 = i /\ i <= Len(P)
    BY <1>0
  <2>2. r[i] = q[i]
    BY <1>2, <2>1
  <2>. QED BY <2>1, <2>2 DEF Runs
<1>3. \A i \in Nat : i \in T
  <2>. HIDE DEF T
  <2>. QED BY <1>1, <1>2, Inductive
<1>. QED BY <1>0, <1>3

\* Whatever goes piece by piece ends with the joined sequence.
LEMMA JoinedIs ==
  ASSUME NEW P \in Pieces, NEW r, Runs(r, P)
  PROVE  Joined(P) = r[Len(P)]
BY RunsAgree DEF Joined

\* Pieces joined are a sequence of places.
LEMMA JoinedType ==
  ASSUME NEW P \in Pieces
  PROVE  Joined(P) \in Seq(Places)
<1>1. PICK r : Runs(r, P)
  BY RunsExist
<1>2. Len(P) \in 0 .. Len(P)
  BY DEF Pieces
<1>. QED BY <1>1, <1>2, JoinedIs DEF Runs

\* No pieces make nothing.
LEMMA JoinedEmpty == Joined(<<>>) = <<>> /\ <<>> \in Pieces
<1>1. <<>> \in Pieces /\ Len(<<>>) = 0
  BY DEF Pieces
<1>2. PICK r : Runs(r, <<>>)
  BY <1>1, RunsExist
<1>3. Joined(<<>>) = r[Len(<<>>)]
  BY ONLY <1>1, <1>2, JoinedIs
<1>. QED BY <1>1, <1>2, <1>3 DEF Runs

\* One more piece is put at the end.
LEMMA JoinedAppend ==
  ASSUME NEW P \in Pieces, NEW x \in Seq(Places)
  PROVE  Append(P, x) \in Pieces /\ Joined(Append(P, x)) = Joined(P) \o x
<1>. DEFINE Q == Append(P, x)
            n == Len(P)
<1>1. Q \in Pieces /\ Len(Q) = n + 1 /\ n \in Nat /\ Q[n + 1] = x /\ \A i \in 1 .. n : Q[i] = P[i]
  BY DEF Pieces
<1>2. PICK q : Runs(q, Q)
  BY <1>1, RunsExist
<1>. DEFINE r == [i \in 0 .. n |-> q[i]]
<1>. HIDE DEF Q, n
<1>3. Runs(r, P)
  <2>1. r \in [0 .. n -> Seq(Places)] /\ r[0] = <<>>
    BY <1>1, <1>2 DEF Runs
  <2>2. \A i \in 1 .. n : r[i] = r[i - 1] \o P[i]
    <3>. SUFFICES ASSUME NEW i \in 1 .. n PROVE r[i] = r[i - 1] \o P[i]
      OBVIOUS
    <3>1. i \in 1 .. Len(Q) /\ i \in 0 .. n /\ i - 1 \in 0 .. n /\ Q[i] = P[i]
      BY <1>1
    <3>2. q[i] = q[i - 1] \o Q[i]
      BY <1>2, <3>1 DEF Runs
    <3>. QED BY <3>1, <3>2
  <2>. QED BY <2>1, <2>2 DEF Runs, n
<1>4. Joined(Q) = q[n + 1]
  BY <1>1, <1>2, JoinedIs
<1>5. Joined(P) = q[n]
  <2>1. Joined(P) = r[Len(P)]
    BY <1>3, JoinedIs
  <2>. QED BY <1>1, <2>1 DEF n
<1>6. q[n + 1] = q[n] \o x
  <2>1. n + 1 \in 1 .. Len(Q) /\ (n + 1) - 1 = n
    BY <1>1
  <2>. QED BY <1>1, <1>2, <2>1 DEF Runs
<1>. QED BY <1>1, <1>4, <1>5, <1>6 DEF Q

\* One piece makes itself.
LEMMA JoinedOne ==
  ASSUME NEW x \in Seq(Places)
  PROVE  <<x>> \in Pieces /\ Joined(<<x>>) = x
<1>1. Append(<<>>, x) = <<x>>
  OBVIOUS
<1>2. Joined(<<x>>) = <<>> \o x /\ <<x>> \in Pieces
  BY <1>1, JoinedEmpty, JoinedAppend
<1>. QED BY <1>2, ConcatEmptySeq

\* One more of a sequence
LEMMA PrefixGrows ==
  ASSUME NEW S, NEW Q \in Seq(S), NEW i \in Nat, i + 1 <= Len(Q)
  PROVE  /\ SubSeq(Q, 1, i) \in Seq(S) /\ Q[i + 1] \in S
         /\ SubSeq(Q, 1, i + 1) = Append(SubSeq(Q, 1, i), Q[i + 1])
<1>1. i \in 0 .. Len(Q) /\ i + 1 \in 1 .. Len(Q) /\ Len(Q) \in Nat
  OBVIOUS
<1>2. SubSeq(Q, 1, i) \in Seq(S) /\ Q[i + 1] \in S /\ Len(SubSeq(Q, 1, i)) = i
  BY <1>1
<1>3. SubSeq(Q, 1, i + 1) \in Seq(S) /\ Len(SubSeq(Q, 1, i + 1)) = i + 1
  BY <1>1
<1>4. \A k \in 1 .. i + 1 : SubSeq(Q, 1, i + 1)[k] = Append(SubSeq(Q, 1, i), Q[i + 1])[k]
  BY <1>1, <1>2, <1>3
<1>5. Append(SubSeq(Q, 1, i), Q[i + 1]) \in Seq(S) /\ Len(Append(SubSeq(Q, 1, i), Q[i + 1])) = i + 1
  BY <1>2
<1>6. SubSeq(Q, 1, i + 1) = Append(SubSeq(Q, 1, i), Q[i + 1])
  BY ONLY <1>3, <1>4, <1>5, SeqEqual
<1>. QED BY <1>2, <1>6

\* Joining two lists of pieces is joining each, one behind the other.
LEMMA JoinedConcat ==
  ASSUME NEW P \in Pieces, NEW Q \in Pieces
  PROVE  P \o Q \in Pieces /\ Joined(P \o Q) = Joined(P) \o Joined(Q)
<1>. DEFINE Pre(i) == SubSeq(Q, 1, i)
            T == {i \in Nat : i <= Len(Q) =>
                    Joined(P \o Pre(i)) = Joined(P) \o Joined(Pre(i))}
<1>0. Len(Q) \in Nat /\ P \o Q \in Pieces
  BY DEF Pieces
<1>1. 0 \in T
  <2>1. Pre(0) = <<>>
    BY DEF Pieces
  <2>2. P \o <<>> = P /\ Joined(P) \o <<>> = Joined(P)
    BY ConcatEmptySeq, JoinedType DEF Pieces
  <2>. QED BY <2>1, <2>2, JoinedEmpty
<1>2. ASSUME NEW i \in Nat, i \in T PROVE i + 1 \in T
  <2>. SUFFICES ASSUME i + 1 <= Len(Q)
                PROVE  Joined(P \o Pre(i + 1)) = Joined(P) \o Joined(Pre(i + 1))
    OBVIOUS
  <2>1. Pre(i) \in Pieces /\ Q[i + 1] \in Seq(Places) /\ Pre(i + 1) = Append(Pre(i), Q[i + 1])
    BY PrefixGrows DEF Pieces
  <2>2. Joined(P \o Pre(i)) = Joined(P) \o Joined(Pre(i))
    BY <1>0, <1>2
  <2>. HIDE DEF Pre
  <2>3. PICK A : A = Pre(i)
    OBVIOUS
  <2>4. PICK x : x = Q[i + 1]
    OBVIOUS
  <2>5. A \in Pieces /\ x \in Seq(Places)
    BY <2>1, <2>3, <2>4
  <2>6. P \o A \in Pieces
    BY <2>5 DEF Pieces
  <2>7. P \o Append(A, x) = Append(P \o A, x)
    <3>1. Append(A, x) = A \o <<x>> /\ Append(P \o A, x) = (P \o A) \o <<x>>
      BY <2>5, <2>6, AppendIsConcat DEF Pieces
    <3>2. <<x>> \in Seq(Seq(Places))
      BY <2>5
    <3>3. (P \o A) \o <<x>> = P \o (A \o <<x>>)
      <4>1. PICK S : S = Seq(Places)
        OBVIOUS
      <4>2. P \in Seq(S) /\ A \in Seq(S) /\ <<x>> \in Seq(S)
        BY <2>5, <3>2, <4>1 DEF Pieces
      <4>3. PICK u : u = <<x>>
        OBVIOUS
      <4>4. (P \o A) \o u = P \o (A \o u)
        BY ONLY <4>2, <4>3, ConcatAssociative
      <4>. QED BY ONLY <4>3, <4>4
    <3>. QED BY <3>1, <3>3
  <2>8. Joined(Append(P \o A, x)) = Joined(P \o A) \o x
    BY ONLY <2>5, <2>6, JoinedAppend
  <2>9. Joined(Append(A, x)) = Joined(A) \o x
    BY ONLY <2>5, JoinedAppend
  <2>10. (Joined(P) \o Joined(A)) \o x = Joined(P) \o (Joined(A) \o x)
    <3>1. PICK y \in Seq(Places), z \in Seq(Places), u \in Seq(Places) : y = Joined(P) /\ z = Joined(A) /\ u = x
      BY ONLY <2>5, P \in Pieces, JoinedType
    <3>2. (y \o z) \o u = y \o (z \o u)
      BY ONLY y \in Seq(Places), z \in Seq(Places), u \in Seq(Places), ConcatAssociative
    <3>. QED BY ONLY <3>1, <3>2
  <2>. QED BY ONLY <2>1, <2>2, <2>3, <2>4, <2>7, <2>8, <2>9, <2>10
<1>3. \A i \in Nat : i \in T
  <2>. HIDE DEF T
  <2>. QED BY <1>1, <1>2, Inductive
<1>4. Pre(Len(Q)) = Q
  BY SubSeqFull DEF Pieces
<1>5. Joined(P \o Pre(Len(Q))) = Joined(P) \o Joined(Pre(Len(Q)))
  BY <1>0, <1>3
<1>. HIDE DEF Pre
<1>. QED BY ONLY <1>0, <1>4, <1>5

\* An induction along a sequence
LEMMA Lengthening ==
  ASSUME NEW S, NEW T, <<>> \in T,
         \A s \in Seq(S) : \A e \in S : s \in T => Append(s, e) \in T
  PROVE  \A s \in Seq(S) : s \in T
<1>. SUFFICES ASSUME NEW s \in Seq(S) PROVE s \in T
  OBVIOUS
<1>. DEFINE Pre(i) == SubSeq(s, 1, i)
            N == {i \in Nat : i <= Len(s) => Pre(i) \in T}
<1>1. 0 \in N
  <2>1. Pre(0) = <<>>
    OBVIOUS
  <2>. QED BY <2>1
<1>2. ASSUME NEW i \in Nat, i \in N PROVE i + 1 \in N
  <2>. SUFFICES ASSUME i + 1 <= Len(s) PROVE Pre(i + 1) \in T
    OBVIOUS
  <2>1. Pre(i) \in Seq(S) /\ s[i + 1] \in S /\ Pre(i + 1) = Append(Pre(i), s[i + 1])
    BY PrefixGrows
  <2>2. Pre(i) \in T
    BY <1>2
  <2>. HIDE DEF Pre
  <2>. QED BY ONLY <2>1, <2>2, \A t \in Seq(S) : \A e \in S : t \in T => Append(t, e) \in T
<1>3. \A i \in Nat : i \in N
  <2>. HIDE DEF N
  <2>. QED BY <1>1, <1>2, Inductive
<1>4. Pre(Len(s)) = s
  BY SubSeqFull
<1>5. Pre(Len(s)) \in T
  BY <1>3
<1>. HIDE DEF Pre
<1>. QED BY ONLY <1>4, <1>5

(***************************************************************************)
(* What a memory has at an address after loading: the last byte written.   *)
(***************************************************************************)
Has(c, a) == \E k \in 1 .. Len(c) : c[k][1] = a
Says(c, a, v) ==
  \E k \in 1 .. Len(c) : /\ c[k] = <<a, v>>
                         /\ \A l \in 1 .. Len(c) : l > k => c[l][1] # a
SameImage(c, d) == \A a \in Int, v \in Int : Says(c, a, v) <=> Says(d, a, v)

\* An address that is loaded has a value.
LEMMA SaysHas ==
  ASSUME NEW c \in Seq(Places), NEW a \in Int
  PROVE  Has(c, a) <=> \E v \in Int : Says(c, a, v)
<1>1. ASSUME NEW v \in Int, Says(c, a, v) PROVE Has(c, a)
  BY <1>1 DEF Says, Has
<1>2. ASSUME Has(c, a) PROVE \E v \in Int : Says(c, a, v)
  <2>. DEFINE w == {k \in 1 .. Len(c) : c[k][1] = a}
              m == Max(w)
  <2>1. Len(c) \in Nat /\ w \in SUBSET (1 .. Len(c)) /\ w # {}
    BY <1>2 DEF Has
  <2>2. m \in w /\ \A y \in w : y <= m
    BY ONLY <2>1, Largest
  <2>. HIDE DEF m
  <2>3. m \in 1 .. Len(c) /\ c[m][1] = a /\ c[m] \in Places
    BY <2>2
  <2>4. c[m] = <<a, c[m][2]>> /\ c[m][2] \in Int
    BY <2>3 DEF Places
  <2>5. \A l \in 1 .. Len(c) : l > m => c[l][1] # a
    BY <2>2, <2>3
  <2>. QED BY <2>3, <2>4, <2>5 DEF Says
<1>. QED BY <1>1, <1>2

\* Of two sequences the second one wins, where it has the address.
LEMMA SaysConcat ==
  ASSUME NEW c \in Seq(Places), NEW d \in Seq(Places), NEW a \in Int, NEW v \in Int
  PROVE  /\ Says(c \o d, a, v) <=> (Says(d, a, v) \/ (~Has(d, a) /\ Says(c, a, v)))
         /\ Has(c \o d, a) <=> (Has(c, a) \/ Has(d, a))
<1>. DEFINE m == Len(c)
            n == Len(d)
            e == c \o d
<1>1. /\ m \in Nat /\ n \in Nat /\ Len(e) = m + n
      /\ \A i \in 1 .. m + n : e[i] = IF i <= m THEN c[i] ELSE d[i - m]
  BY ConcatProperties
<1>2. \A i \in 1 .. m : i \in 1 .. m + n /\ e[i] = c[i]
  BY <1>1
<1>3. \A i \in 1 .. n : i + m \in 1 .. m + n /\ e[i + m] = d[i]
  <2>. SUFFICES ASSUME NEW i \in 1 .. n PROVE i + m \in 1 .. m + n /\ e[i + m] = d[i]
    OBVIOUS
  <2>1. i + m \in 1 .. m + n /\ ~(i + m <= m) /\ (i + m) - m = i
    BY <1>1
  <2>. QED BY <1>1, <2>1
<1>4. \A i \in 1 .. m + n : i > m => i - m \in 1 .. n /\ e[i] = d[i - m]
  BY <1>1
<1>. HIDE DEF m, n, e
<1>5. Has(e, a) <=> (Has(c, a) \/ Has(d, a))
  <2>1. ASSUME Has(e, a) PROVE Has(c, a) \/ Has(d, a)
    <3>1. PICK k \in 1 .. m + n : e[k][1] = a
      BY <1>1, <2>1 DEF Has
    <3>2. CASE k <= m
      <4>1. k \in 1 .. m
        BY <1>1, <3>2
      <4>. QED BY <1>2, <3>1, <4>1 DEF Has, m
    <3>3. CASE k > m
      BY <1>4, <3>1, <3>3 DEF Has, n
    <3>. QED BY <1>1, <3>2, <3>3
  <2>2. ASSUME Has(c, a) PROVE Has(e, a)
    <3>1. PICK k \in 1 .. m : c[k][1] = a
      BY <2>2 DEF Has, m
    <3>. QED BY <1>1, <1>2, <3>1 DEF Has
  <2>3. ASSUME Has(d, a) PROVE Has(e, a)
    <3>1. PICK k \in 1 .. n : d[k][1] = a
      BY <2>3 DEF Has, n
    <3>. QED BY <1>1, <1>3, <3>1 DEF Has
  <2>. QED BY <2>1, <2>2, <2>3
<1>6. ASSUME Says(d, a, v) PROVE Says(e, a, v)
  <2>1. PICK k \in 1 .. n : d[k] = <<a, v>> /\ \A l \in 1 .. n : l > k => d[l][1] # a
    BY <1>6 DEF Says, n
  <2>2. k + m \in 1 .. m + n /\ e[k + m] = <<a, v>>
    BY <1>3, <2>1
  <2>3. ASSUME NEW l \in 1 .. m + n, l > k + m PROVE e[l][1] # a
    <3>1. l > m /\ l - m > k
      BY <1>1, <2>3
    <3>. QED BY <1>4, <2>1, <3>1
  <2>. QED BY <1>1, <2>2, <2>3 DEF Says
<1>7. ASSUME Says(c, a, v), ~Has(d, a) PROVE Says(e, a, v)
  <2>1. PICK k \in 1 .. m : c[k] = <<a, v>> /\ \A l \in 1 .. m : l > k => c[l][1] # a
    BY <1>7 DEF Says, m
  <2>2. k \in 1 .. m + n /\ e[k] = <<a, v>>
    BY <1>2, <2>1
  <2>3. ASSUME NEW l \in 1 .. m + n, l > k PROVE e[l][1] # a
    <3>1. CASE l <= m
      <4>1. l \in 1 .. m
        BY <1>1, <3>1
      <4>. QED BY <1>2, <2>1, <2>3, <4>1
    <3>2. CASE l > m
      BY <1>4, <1>7, <3>2 DEF Has, n
    <3>. QED BY <1>1, <3>1, <3>2
  <2>. QED BY <1>1, <2>2, <2>3 DEF Says
<1>8. ASSUME Says(e, a, v), ~Says(d, a, v) PROVE ~Has(d, a) /\ Says(c, a, v)
  <2>1. PICK k \in 1 .. m + n : e[k] = <<a, v>> /\ \A l \in 1 .. m + n : l > k => e[l][1] # a
    BY <1>1, <1>8 DEF Says
  <2>2. k <= m
    <3>1. SUFFICES ASSUME k > m PROVE Says(d, a, v)
      BY <1>1, <1>8
    <3>2. k - m \in 1 .. n /\ d[k - m] = <<a, v>>
      BY <1>4, <2>1, <3>1
    <3>3. ASSUME NEW l \in 1 .. n, l > k - m PROVE d[l][1] # a
      <4>1. l + m > k
        BY <1>1, <3>3
      <4>. QED BY <1>3, <2>1, <4>1
    <3>. QED BY <3>2, <3>3 DEF Says, n
  <2>3. k \in 1 .. m /\ c[k] = <<a, v>>
    BY <1>1, <1>2, <2>1, <2>2
  <2>4. ASSUME NEW l \in 1 .. m, l > k PROVE c[l][1] # a
    BY <1>2, <2>1, <2>4
  <2>5. ASSUME NEW l \in 1 .. n PROVE d[l][1] # a
    <3>1. l + m > k
      BY <1>1, <2>2
    <3>. QED BY <1>3, <2>1, <3>1
  <2>. QED BY <2>3, <2>4, <2>5 DEF Says, Has, m, n
<1>9. Says(e, a, v) <=> (Says(d, a, v) \/ (~Has(d, a) /\ Says(c, a, v)))
  BY <1>6, <1>7, <1>8
<1>. QED BY <1>5, <1>9 DEF e

\* The same image is of the same addresses.
LEMMA SameHas ==
  ASSUME NEW c \in Seq(Places), NEW d \in Seq(Places), SameImage(c, d), NEW a \in Int
  PROVE  Has(c, a) <=> Has(d, a)
BY SaysHas DEF SameImage

\* Which is all that Loaded depends on.
LEMMA SameLoaded ==
  ASSUME NEW c \in Seq(Places), NEW d \in Seq(Places), SameImage(c, d)
  PROVE  Loaded(c) = Loaded(d)
<1>. DEFINE w(e, a) == {k \in DOMAIN e : e[k][1] = a}
            last(e, a) == CHOOSE k \in w(e, a) : \A l \in w(e, a) : l <= k
<1>1. ASSUME NEW e \in Seq(Places), NEW a \in Int, NEW v, Says(e, a, v)
      PROVE  w(e, a) # {} /\ e[last(e, a)][2] = v
  <2>1. PICK k \in 1 .. Len(e) : e[k] = <<a, v>> /\ \A l \in 1 .. Len(e) : l > k => e[l][1] # a
    BY <1>1 DEF Says
  <2>2. k \in w(e, a) /\ \A l \in w(e, a) : l <= k
    BY <2>1
  <2>3. last(e, a) \in w(e, a) /\ \A l \in w(e, a) : l <= last(e, a)
    BY <2>2
  <2>4. last(e, a) \in Int /\ k \in Int
    BY <2>3
  <2>. HIDE DEF last
  <2>5. last(e, a) = k
    BY <2>2, <2>3, <2>4
  <2>. QED BY <2>1, <2>2, <2>5
<1>2. ASSUME NEW e \in Seq(Places), NEW a \in Int, ~Has(e, a) PROVE w(e, a) = {}
  BY <1>2 DEF Has
<1>. HIDE DEF w, last
<1>3. ASSUME NEW a \in 0 .. Size - 1
      PROVE  (IF w(c, a) = {} THEN 0 ELSE c[last(c, a)][2]) = (IF w(d, a) = {} THEN 0 ELSE d[last(d, a)][2])
  <2>0. a \in Int
    BY OutputsAssumption
  <2>1. CASE Has(c, a)
    <3>1. PICK v \in Int : Says(c, a, v)
      BY <2>0, <2>1, SaysHas
    <3>2. Says(d, a, v)
      BY <2>0, <3>1 DEF SameImage
    <3>. QED BY <1>1, <2>0, <3>1, <3>2
  <2>2. CASE ~Has(c, a)
    <3>1. ~Has(d, a)
      BY <2>0, <2>2, SameHas
    <3>. QED BY <1>2, <2>0, <2>2, <3>1
  <2>. QED BY <2>1, <2>2
<1>4. ASSUME NEW e \in Seq(Places)
      PROVE  Loaded(e) = [a \in 0 .. Size - 1 |-> IF w(e, a) = {} THEN 0 ELSE e[last(e, a)][2]]
  BY DEF Loaded, w, last
<1>5. /\ Loaded(c) = [a \in 0 .. Size - 1 |-> IF w(c, a) = {} THEN 0 ELSE c[last(c, a)][2]]
      /\ Loaded(d) = [a \in 0 .. Size - 1 |-> IF w(d, a) = {} THEN 0 ELSE d[last(d, a)][2]]
  BY <1>4
<1>. QED BY ONLY <1>3, <1>5

\* Nothing loads nothing.
LEMMA SaysEmpty == \A a, v : ~Says(<<>>, a, v) /\ ~Has(<<>>, a)
BY DEF Says, Has

\* Of pieces, the last one that has the address says what is there.
LEMMA SaysJoined ==
  ASSUME NEW P \in Pieces, NEW a \in Int, NEW v \in Int
  PROVE  /\ Has(Joined(P), a) <=> \E i \in 1 .. Len(P) : Has(P[i], a)
         /\ Says(Joined(P), a, v) <=>
              \E i \in 1 .. Len(P) : /\ Says(P[i], a, v)
                                     /\ \A l \in 1 .. Len(P) : l > i => ~Has(P[l], a)
<1>. DEFINE HasOne(Q) == \E i \in 1 .. Len(Q) : Has(Q[i], a)
            FinalOne(Q) == \E i \in 1 .. Len(Q) : /\ Says(Q[i], a, v)
                                              /\ \A l \in 1 .. Len(Q) : l > i => ~Has(Q[l], a)
            T == {Q \in Pieces : /\ Has(Joined(Q), a) <=> HasOne(Q)
                                 /\ Says(Joined(Q), a, v) <=> FinalOne(Q)}
<1>1. <<>> \in T
  <2>1. ~HasOne(<<>>) /\ ~FinalOne(<<>>)
    OBVIOUS
  <2>. QED BY <2>1, JoinedEmpty, SaysEmpty
<1>2. ASSUME NEW Q \in Pieces, NEW x \in Seq(Places), Q \in T PROVE Append(Q, x) \in T
  <2>1. PICK n \in Nat : n = Len(Q)
    BY DEF Pieces
  <2>2. PICK R : R = Append(Q, x)
    OBVIOUS
  <2>3. /\ R \in Pieces /\ Len(R) = n + 1 /\ R[n + 1] = x
        /\ \A i \in 1 .. n : i \in 1 .. n + 1 /\ R[i] = Q[i]
        /\ n + 1 \in 1 .. n + 1
    BY <2>1, <2>2 DEF Pieces
  <2>4. Joined(R) = Joined(Q) \o x /\ Joined(Q) \in Seq(Places)
    BY <2>2, JoinedAppend, JoinedType
  <2>5. \A i \in 1 .. n + 1 : i \in 1 .. n \/ i = n + 1
    OBVIOUS
  <2>6. (Has(Joined(Q), a) <=> HasOne(Q)) /\ (Says(Joined(Q), a, v) <=> FinalOne(Q))
    BY <1>2
  <2>7. HasOne(R) <=> (HasOne(Q) \/ Has(x, a))
    BY <2>1, <2>3, <2>5
  <2>8. FinalOne(R) <=> (Says(x, a, v) \/ (~Has(x, a) /\ FinalOne(Q)))
    <3>1. ASSUME FinalOne(R), ~Says(x, a, v) PROVE ~Has(x, a) /\ FinalOne(Q)
      <4>1. PICK i \in 1 .. n + 1 : Says(R[i], a, v) /\ \A l \in 1 .. n + 1 : l > i => ~Has(R[l], a)
        BY <2>3, <3>1
      <4>2. i \in 1 .. n
        BY <2>3, <2>5, <3>1, <4>1
      <4>3. n + 1 > i
        BY <4>2
      <4>. QED BY <2>1, <2>3, <4>1, <4>2, <4>3
    <3>2. ASSUME Says(x, a, v) PROVE FinalOne(R)
      <4>1. \A l \in 1 .. n + 1 : ~(l > n + 1)
        OBVIOUS
      <4>. QED BY <2>3, <3>2, <4>1
    <3>3. ASSUME ~Has(x, a), FinalOne(Q) PROVE FinalOne(R)
      <4>1. PICK i \in 1 .. n : Says(Q[i], a, v) /\ \A l \in 1 .. n : l > i => ~Has(Q[l], a)
        BY <2>1, <3>3
      <4>2. \A l \in 1 .. n + 1 : l > i => ~Has(R[l], a)
        BY <2>3, <2>5, <3>3, <4>1
      <4>. QED BY <2>3, <4>1, <4>2
    <3>. QED BY <3>1, <3>2, <3>3
  <2>9. /\ Says(Joined(Q) \o x, a, v) <=> (Says(x, a, v) \/ (~Has(x, a) /\ Says(Joined(Q), a, v)))
        /\ Has(Joined(Q) \o x, a) <=> (Has(Joined(Q), a) \/ Has(x, a))
    BY <2>4, SaysConcat
  <2>. HIDE DEF HasOne, FinalOne
  <2>. QED BY <2>2, <2>3, <2>4, <2>6, <2>7, <2>8, <2>9
<1>3. \A Q \in Pieces : Q \in T
  <2>. HIDE DEF T
  <2>. QED BY <1>1, <1>2, Lengthening DEF Pieces
<1>. QED BY <1>3

(***************************************************************************)
(* What a list of blocks stands for: the folds of Outputs are Joined.      *)
(***************************************************************************)
Block == [p : Nat, addr : Int, len : Nat, ref : {NoMem, "sec"}]
Fits(b, x) == x.p + x.len <= Len(b)
AllFit(b, bs) == \A i \in 1 .. Len(bs) : Fits(b, bs[i])
Bytes(b, x) == [k \in 1 .. x.len |-> <<x.addr + k - 1, b[x.p + k]>>]
PiecesOf(b, bs) == [i \in 1 .. Len(bs) |-> Bytes(b, bs[i])]

\* The bytes of a block that fits are places.
LEMMA BytesType ==
  ASSUME NEW b \in Seq(Nat), NEW x \in Block, Fits(b, x)
  PROVE  /\ Bytes(b, x) \in Seq(Places) /\ Len(Bytes(b, x)) = x.len
         /\ \A k \in 1 .. x.len : b[x.p + k] \in Nat
<1>1. x.p \in Nat /\ x.len \in Nat /\ x.addr \in Int /\ Len(b) \in Nat /\ x.p + x.len <= Len(b)
  BY DEF Block, Fits
<1>2. \A k \in 1 .. x.len : x.p + k \in 1 .. Len(b) /\ x.addr + k - 1 \in Int
  <2>1. PICK p \in Nat, l \in Nat, a \in Int, n \in Nat : p = x.p /\ l = x.len /\ a = x.addr /\ n = Len(b)
    BY ONLY <1>1
  <2>2. p + l <= n
    BY ONLY <1>1, <2>1
  <2>3. \A k \in 1 .. l : p + k \in 1 .. n /\ a + k - 1 \in Int
    BY ONLY <2>2, p \in Nat, l \in Nat, a \in Int, n \in Nat
  <2>. QED BY ONLY <2>1, <2>3
<1>3. ASSUME NEW k \in 1 .. x.len PROVE b[x.p + k] \in Nat
  <2>1. PICK n \in 1 .. Len(b) : n = x.p + k
    BY <1>2
  <2>2. b[n] \in Nat
    BY ONLY b \in Seq(Nat), n \in 1 .. Len(b), ElementOfSeq
  <2>. QED BY ONLY <2>1, <2>2
<1>4. \A k \in 1 .. x.len : <<x.addr + k - 1, b[x.p + k]>> \in Places
  <2>. SUFFICES ASSUME NEW k \in 1 .. x.len PROVE <<x.addr + k - 1, b[x.p + k]>> \in Places
    OBVIOUS
  <2>1. x.addr + k - 1 \in Int /\ b[x.p + k] \in Int
    BY <1>2, <1>3
  <2>. QED BY <2>1 DEF Places
<1>5. Bytes(b, x) \in [1 .. x.len -> Places]
  BY <1>4 DEF Bytes
<1>6. Bytes(b, x) \in Seq(Places)
  <2>1. PICK m \in Nat : m = x.len
    BY <1>1
  <2>. QED BY <1>5, <2>1
<1>7. DOMAIN Bytes(b, x) = 1 .. x.len
  BY DEF Bytes
<1>8. Len(Bytes(b, x)) = x.len
  BY <1>1, <1>6, <1>7
<1>. QED BY <1>3, <1>6, <1>8

\* The bytes of blocks that fit are pieces, one for each block.
LEMMA PiecesType ==
  ASSUME NEW b \in Seq(Nat), NEW bs \in Seq(Block), AllFit(b, bs)
  PROVE  /\ PiecesOf(b, bs) \in Pieces /\ Len(PiecesOf(b, bs)) = Len(bs)
         /\ \A i \in 1 .. Len(bs) : PiecesOf(b, bs)[i] = Bytes(b, bs[i])
<1>1. \A i \in 1 .. Len(bs) : Bytes(b, bs[i]) \in Seq(Places)
  <2>. SUFFICES ASSUME NEW i \in 1 .. Len(bs) PROVE Bytes(b, bs[i]) \in Seq(Places)
    OBVIOUS
  <2>1. bs[i] \in Block /\ Fits(b, bs[i])
    BY DEF AllFit
  <2>. QED BY <2>1, BytesType
<1>2. PiecesOf(b, bs) \in [1 .. Len(bs) -> Seq(Places)] /\ Len(bs) \in Nat
  BY <1>1 DEF PiecesOf
<1>3. PiecesOf(b, bs) \in Seq(Seq(Places))
  BY <1>2
<1>4. Len(PiecesOf(b, bs)) = Len(bs)
  BY <1>2, <1>3
<1>. QED BY <1>3, <1>4 DEF Pieces, PiecesOf

\* There is a function on sets of numbers that joins pieces in their order.
LEMMA ChainExists ==
  ASSUME NEW P \in Pieces
  PROVE  \E h \in [SUBSET (1 .. Len(P)) -> Seq(Places)] : \A S \in SUBSET (1 .. Len(P)) :
            h[S] = IF S = {} THEN <<>> ELSE h[S \ {Max(S)}] \o P[Max(S)]
<1>. DEFINE n == Len(P)
            base == <<>>
            Acc == Seq(Places)
            step == [x \in (1 .. n) \X Acc |-> x[2] \o P[x[1]]]
<1>1. n \in Nat /\ base \in Acc /\ \A i \in 1 .. n : P[i] \in Acc
  BY DEF Pieces
<1>2. \A i \in 1 .. n : \A a \in Acc : step[<<i, a>>] = a \o P[i]
  OBVIOUS
<1>3. step \in [(1 .. n) \X Acc -> Acc]
  <2>1. \A x \in (1 .. n) \X Acc : x[2] \o P[x[1]] \in Acc
    BY <1>1
  <2>. QED BY <2>1
<1>. HIDE DEF n, base, Acc, step
<1>8. n \in Nat /\ base \in Acc
  BY <1>1
<1>4. PICK h : h \in [SUBSET (1 .. n) -> Acc] /\ Folded(n, base, step, h)
  BY ONLY <1>8, <1>3, FoldExists
<1>5. ASSUME NEW S \in SUBSET (1 .. n)
      PROVE  h[S] = IF S = {} THEN base ELSE h[S \ {Max(S)}] \o P[Max(S)]
  <2>1. h = [V \in SUBSET (1 .. n) |-> IF V = {} THEN base ELSE step[<<Max(V), h[V \ {Max(V)}]>>]]
    BY <1>4 DEF Folded
  <2>2. h[S] = IF S = {} THEN base ELSE step[<<Max(S), h[S \ {Max(S)}]>>]
    BY <2>1
  <2>3. CASE S # {}
    <3>1. Max(S) \in S
      BY ONLY <1>8, <2>3, S \in SUBSET (1 .. n), Largest
    <3>2. Max(S) \in 1 .. n /\ S \ {Max(S)} \in SUBSET (1 .. n)
      BY <3>1
    <3>3. h[S \ {Max(S)}] \in Acc
      BY <1>4, <3>2
    <3>. QED BY ONLY <1>2, <2>2, <2>3, <3>2, <3>3
  <2>. QED BY <2>2, <2>3
<1>. QED BY <1>4, <1>5 DEF n, base, Acc

\* Such a function joins all of them.
LEMMA ChainIs ==
  ASSUME NEW P \in Pieces, NEW h, h[{}] = <<>>,
         \A i \in Nat : i + 1 <= Len(P) => h[1 .. i + 1] = h[1 .. i] \o P[i + 1]
  PROVE  h[1 .. Len(P)] = Joined(P)
<1>. DEFINE n == Len(P)
            r == [i \in 0 .. n |-> h[1 .. i]]
            T == {i \in Nat : i <= n => h[1 .. i] \in Seq(Places)}
<1>0. n \in Nat /\ \A i \in 1 .. n : P[i] \in Seq(Places)
  BY DEF Pieces
<1>4. 1 .. 0 = {}
  OBVIOUS
<1>1. \A i \in Nat : i \in T
  <2>1. 0 \in T
    <3>1. h[1 .. 0] = <<>>
      BY <1>4
    <3>2. <<>> \in Seq(Places)
      OBVIOUS
    <3>. QED BY <3>1, <3>2
  <2>2. ASSUME NEW i \in Nat, i \in T PROVE i + 1 \in T
    <3>. SUFFICES ASSUME i + 1 <= n PROVE h[1 .. i + 1] \in Seq(Places)
      OBVIOUS
    <3>1. i <= n /\ i + 1 \in 1 .. n
      BY <1>0
    <3>2. h[1 .. i] \in Seq(Places) /\ P[i + 1] \in Seq(Places)
      BY <1>0, <2>2, <3>1
    <3>3. h[1 .. i + 1] = h[1 .. i] \o P[i + 1]
      OBVIOUS
    <3>. QED BY <3>2, <3>3
  <2>. HIDE DEF T
  <2>. QED BY <2>1, <2>2, Inductive
<1>2. r \in [0 .. n -> Seq(Places)]
  <2>1. \A i \in 0 .. n : i \in Nat /\ i <= n
    BY <1>0
  <2>2. \A i \in 0 .. n : h[1 .. i] \in Seq(Places)
    BY <1>1, <2>1
  <2>. QED BY <2>2
<1>3. \A i \in 1 .. n : r[i] = r[i - 1] \o P[i]
  <2>. SUFFICES ASSUME NEW i \in 1 .. n PROVE r[i] = r[i - 1] \o P[i]
    OBVIOUS
  <2>1. i - 1 \in Nat /\ (i - 1) + 1 = i /\ i <= n /\ i - 1 \in 0 .. n /\ i \in 0 .. n
    BY <1>0
  <2>2. h[1 .. i] = h[1 .. i - 1] \o P[i]
    BY <2>1
  <2>. QED BY <2>1, <2>2
<1>5. r[0] = <<>> /\ r[n] = h[1 .. n]
  BY <1>0, <1>4
<1>. HIDE DEF r
<1>6. Runs(r, P)
  BY <1>2, <1>3, <1>5 DEF Runs
<1>. QED BY <1>5, <1>6, JoinedIs

\* What a writer puts out (Content) is the bytes of the blocks, joined.
LEMMA ContentIs ==
  ASSUME NEW s, s.bytes \in Seq(Nat), NEW t \in Seq(Block), AllFit(s.bytes, t)
  PROVE  Content(s, t) = Joined(PiecesOf(s.bytes, t))
<1>. DEFINE n == Len(t)
            P == PiecesOf(s.bytes, t)
            F(h) == h = [S \in SUBSET (DOMAIN t) |->
                           IF S = {} THEN <<>> ELSE h[S \ {Max(S)}] \o Bytes(s.bytes, t[Max(S)])]
<1>1. n \in Nat /\ DOMAIN t = 1 .. n
  OBVIOUS
<1>2. P \in Pieces /\ Len(P) = n /\ \A i \in 1 .. n : P[i] = Bytes(s.bytes, t[i])
  BY PiecesType
<1>3. Content(s, t) = (CHOOSE h : F(h))[DOMAIN t]
  BY DEF Content, FoldLeft, MapThenFoldSet, Bytes
<1>. HIDE DEF P
<1>4. \E h : F(h)
  <2>1. PICK h \in [SUBSET (1 .. n) -> Seq(Places)] : \A S \in SUBSET (1 .. n) :
            h[S] = IF S = {} THEN <<>> ELSE h[S \ {Max(S)}] \o P[Max(S)]
    BY <1>2, ChainExists
  <2>2. ASSUME NEW S \in SUBSET (1 .. n)
        PROVE  h[S] = IF S = {} THEN <<>> ELSE h[S \ {Max(S)}] \o Bytes(s.bytes, t[Max(S)])
    <3>1. CASE S # {}
      <4>0. n \in Nat
        BY <1>1
      <4>1. Max(S) \in S
        BY ONLY <4>0, <3>1, S \in SUBSET (1 .. n), Largest
      <4>2. Max(S) \in 1 .. n
        BY <4>1
      <4>. QED BY ONLY <1>2, <2>1, <3>1, <4>2, S \in SUBSET (1 .. n)
    <3>. QED BY <2>1, <3>1
  <2>. QED BY <1>1, <2>1, <2>2
<1>5. PICK h : h = CHOOSE g : F(g)
  OBVIOUS
<1>6. F(h)
  <2>. HIDE DEF F
  <2>. QED BY <1>4, <1>5
<1>7. \A S \in SUBSET (1 .. n) :
        h[S] = IF S = {} THEN <<>> ELSE h[S \ {Max(S)}] \o Bytes(s.bytes, t[Max(S)])
  <2>. SUFFICES ASSUME NEW S \in SUBSET (1 .. n)
                PROVE  h[S] = IF S = {} THEN <<>> ELSE h[S \ {Max(S)}] \o Bytes(s.bytes, t[Max(S)])
    OBVIOUS
  <2>. QED BY <1>1, <1>6
<1>8. h[{}] = <<>>
  BY <1>7
<1>9. \A i \in Nat : i + 1 <= Len(P) => h[1 .. i + 1] = h[1 .. i] \o P[i + 1]
  <2>. SUFFICES ASSUME NEW i \in Nat, i + 1 <= n PROVE h[1 .. i + 1] = h[1 .. i] \o P[i + 1]
    BY <1>2
  <2>1. 1 .. i + 1 \in SUBSET (1 .. n) /\ 1 .. i + 1 # {} /\ i + 1 \in 1 .. n
    <3>1. PICK l \in Nat : l = n
      BY ONLY <1>1
    <3>2. 1 .. i + 1 \in SUBSET (1 .. l) /\ i + 1 \in 1 .. i + 1 /\ i + 1 \in 1 .. l
      BY <3>1
    <3>. QED BY <3>1, <3>2
  <2>2. Max(1 .. i + 1) = i + 1 /\ (1 .. i + 1) \ {i + 1} = 1 .. i
    BY LastOne
  <2>. QED BY ONLY <1>2, <1>7, <2>1, <2>2
<1>10. h[1 .. Len(P)] = Joined(P)
  BY ONLY <1>2, <1>8, <1>9, ChainIs
<1>. HIDE DEF F
<1>. QED BY <1>1, <1>2, <1>3, <1>5, <1>10 DEF P

\* It is a sequence of places.
LEMMA ContentType ==
  ASSUME NEW s, s.bytes \in Seq(Nat), NEW t \in Seq(Block), AllFit(s.bytes, t)
  PROVE  Content(s, t) \in Seq(Places)
BY ContentIs, PiecesType, JoinedType

\* For one block it is the bytes of this block.
LEMMA ContentOne ==
  ASSUME NEW s, s.bytes \in Seq(Nat), NEW x \in Block, Fits(s.bytes, x)
  PROVE  Content(s, <<x>>) = Bytes(s.bytes, x)
<1>1. <<x>> \in Seq(Block) /\ Len(<<x>>) = 1 /\ <<x>>[1] = x
  OBVIOUS
<1>2. AllFit(s.bytes, <<x>>)
  BY <1>1 DEF AllFit
<1>3. Content(s, <<x>>) = Joined(PiecesOf(s.bytes, <<x>>))
  BY <1>1, <1>2, ContentIs
<1>4. PiecesOf(s.bytes, <<x>>) = <<Bytes(s.bytes, x)>>
  BY <1>1 DEF PiecesOf
<1>. QED BY <1>3, <1>4, JoinedOne, BytesType

(***************************************************************************)
(* Expand                                                                  *)
(***************************************************************************)
\* A memory whose blocks are well formed
Sound(s) ==
  /\ s.bytes \in Seq(Nat) /\ s.blocks \in Seq(Block)
  /\ \A i \in 1 .. Len(s.blocks) : s.blocks[i].ref = NoMem => Fits(s.bytes, s.blocks[i])
Parts(s, c) ==
  [i \in 1 .. Len(s.blocks) |-> IF s.blocks[i].ref = NoMem THEN Bytes(s.bytes, s.blocks[i]) ELSE c]

\* The parts of a memory are pieces, one for each block.
LEMMA PartsType ==
  ASSUME NEW s, Sound(s), NEW c \in Seq(Places)
  PROVE  /\ Parts(s, c) \in Pieces /\ Len(Parts(s, c)) = Len(s.blocks)
         /\ \A i \in 1 .. Len(s.blocks) : Parts(s, c)[i] =
               IF s.blocks[i].ref = NoMem THEN Bytes(s.bytes, s.blocks[i]) ELSE c
<1>0. Len(s.blocks) \in Nat /\ s.bytes \in Seq(Nat)
  BY DEF Sound
<1>1. ASSUME NEW i \in 1 .. Len(s.blocks)
      PROVE  (IF s.blocks[i].ref = NoMem THEN Bytes(s.bytes, s.blocks[i]) ELSE c) \in Seq(Places)
  <2>1. CASE s.blocks[i].ref = NoMem
    <3>1. s.blocks[i] \in Block /\ Fits(s.bytes, s.blocks[i])
      BY <2>1 DEF Sound
    <3>. QED BY <1>0, <2>1, <3>1, BytesType
  <2>. QED BY <2>1
<1>2. Parts(s, c) \in [1 .. Len(s.blocks) -> Seq(Places)]
  BY <1>1 DEF Parts
<1>3. Parts(s, c) \in Seq(Seq(Places))
  BY <1>0, <1>2
<1>4. Len(Parts(s, c)) = Len(s.blocks)
  BY <1>0, <1>2, <1>3
<1>. QED BY <1>3, <1>4 DEF Pieces, Parts

\* A memory with its section (Expand) is its parts, joined.
LEMMA ExpandIs ==
  ASSUME NEW store, NEW m, Sound(store[m]), NEW c \in Seq(Places),
         \A i \in 1 .. Len(store[m].blocks) :
           store[m].blocks[i].ref # NoMem => c = Content(store["sec"], store["sec"].blocks)
  PROVE  Expand(store, m) = Joined(Parts(store[m], c))
<1>. DEFINE s == store[m]
            t == s.blocks
            n == Len(t)
            P == Parts(s, c)
            of(b) == IF b.ref = NoMem THEN Content(s, <<b>>)
                     ELSE Content(store["sec"], store["sec"].blocks)
            F(h) == h = [S \in SUBSET (DOMAIN t) |->
                           IF S = {} THEN <<>> ELSE h[S \ {Max(S)}] \o of(t[Max(S)])]
<1>1. n \in Nat /\ DOMAIN t = 1 .. n
  BY DEF Sound
<1>3. Expand(store, m) = (CHOOSE h : F(h))[DOMAIN t]
  BY DEF Expand, FoldLeft, MapThenFoldSet
<1>2. P \in Pieces /\ Len(P) = n /\ \A i \in 1 .. n : P[i] = of(t[i])
  <2>1. /\ P \in Pieces /\ Len(P) = n
        /\ \A i \in 1 .. n : P[i] = IF t[i].ref = NoMem THEN Bytes(s.bytes, t[i]) ELSE c
    BY PartsType
  <2>2. ASSUME NEW i \in 1 .. n PROVE P[i] = of(t[i])
    <3>1. CASE t[i].ref = NoMem
      <4>1. s.bytes \in Seq(Nat) /\ t[i] \in Block /\ Fits(s.bytes, t[i])
        BY <3>1 DEF Sound
      <4>2. Content(s, <<t[i]>>) = Bytes(s.bytes, t[i])
        BY <4>1, ContentOne
      <4>. QED BY <2>1, <3>1, <4>2
    <3>. QED BY <2>1, <3>1
  <2>. QED BY <2>1, <2>2
<1>. HIDE DEF P, of
<1>4. \E h : F(h)
  <2>1. PICK h \in [SUBSET (1 .. n) -> Seq(Places)] : \A S \in SUBSET (1 .. n) :
            h[S] = IF S = {} THEN <<>> ELSE h[S \ {Max(S)}] \o P[Max(S)]
    BY <1>2, ChainExists
  <2>2. ASSUME NEW S \in SUBSET (1 .. n)
        PROVE  h[S] = IF S = {} THEN <<>> ELSE h[S \ {Max(S)}] \o of(t[Max(S)])
    <3>1. CASE S # {}
      <4>0. n \in Nat
        BY <1>1
      <4>1. Max(S) \in S
        BY ONLY <4>0, <3>1, S \in SUBSET (1 .. n), Largest
      <4>2. Max(S) \in 1 .. n
        BY <4>1
      <4>. QED BY ONLY <1>2, <2>1, <3>1, <4>2, S \in SUBSET (1 .. n)
    <3>. QED BY <2>1, <3>1
  <2>. QED BY <1>1, <2>1, <2>2
<1>5. PICK h : h = CHOOSE g : F(g)
  OBVIOUS
<1>6. F(h)
  <2>. HIDE DEF F
  <2>. QED BY <1>4, <1>5
<1>7. \A S \in SUBSET (1 .. n) :
        h[S] = IF S = {} THEN <<>> ELSE h[S \ {Max(S)}] \o of(t[Max(S)])
  <2>. SUFFICES ASSUME NEW S \in SUBSET (1 .. n)
                PROVE  h[S] = IF S = {} THEN <<>> ELSE h[S \ {Max(S)}] \o of(t[Max(S)])
    OBVIOUS
  <2>. QED BY <1>1, <1>6
<1>8. h[{}] = <<>>
  BY <1>7
<1>9. \A i \in Nat : i + 1 <= Len(P) => h[1 .. i + 1] = h[1 .. i] \o P[i + 1]
  <2>. SUFFICES ASSUME NEW i \in Nat, i + 1 <= n PROVE h[1 .. i + 1] = h[1 .. i] \o P[i + 1]
    BY <1>2
  <2>1. 1 .. i + 1 \in SUBSET (1 .. n) /\ 1 .. i + 1 # {} /\ i + 1 \in 1 .. n
    <3>1. PICK l \in Nat : l = n
      BY ONLY <1>1
    <3>2. 1 .. i + 1 \in SUBSET (1 .. l) /\ i + 1 \in 1 .. i + 1 /\ i + 1 \in 1 .. l
      BY <3>1
    <3>. QED BY <3>1, <3>2
  <2>2. Max(1 .. i + 1) = i + 1 /\ (1 .. i + 1) \ {i + 1} = 1 .. i
    BY LastOne
  <2>. QED BY ONLY <1>2, <1>7, <2>1, <2>2
<1>10. h[1 .. Len(P)] = Joined(P)
  BY ONLY <1>2, <1>8, <1>9, ChainIs
<1>. HIDE DEF F
<1>12. Expand(store, m) = Joined(P)
  BY ONLY <1>1, <1>2, <1>3, <1>5, <1>10
<1>. QED BY <1>12 DEF P

(***************************************************************************)
(* What blocks have at an address: the byte of the last one of them there. *)
(***************************************************************************)
Covers(x, a) == x.addr <= a /\ a < x.addr + x.len
ByteAt(b, x, a) == b[x.p + (a - x.addr + 1)]
Shows(b, bs, L, a, v) ==
  \E i \in L : /\ Covers(bs[i], a) /\ ByteAt(b, bs[i], a) = v
               /\ \A l \in L : l > i => ~Covers(bs[l], a)
SameShown(b, bs, L, d, ds, M) ==
  \A a \in Int, v \in Int : Shows(b, bs, L, a, v) <=> Shows(d, ds, M, a, v)

\* What the bytes of one block load: each address that it covers, once.
LEMMA BytesSay ==
  ASSUME NEW b \in Seq(Nat), NEW x \in Block, Fits(b, x), NEW a \in Int, NEW v \in Int
  PROVE  /\ Has(Bytes(b, x), a) <=> Covers(x, a)
         /\ Says(Bytes(b, x), a, v) <=> Covers(x, a) /\ ByteAt(b, x, a) = v
<1>. DEFINE c == Bytes(b, x)
<1>1. PICK p \in Nat, m \in Nat, r \in Int : p = x.p /\ m = x.len /\ r = x.addr
  BY DEF Block
<1>2. c \in Seq(Places) /\ Len(c) = m
  BY <1>1, BytesType
<1>3. \A k \in 1 .. m : c[k] = <<r + k - 1, b[p + k]>> /\ c[k][1] = r + k - 1
  BY <1>1 DEF Bytes
<1>4. Covers(x, a) <=> r <= a /\ a < r + m
  BY <1>1 DEF Covers
<1>5. ByteAt(b, x, a) = b[p + (a - r + 1)]
  BY <1>1 DEF ByteAt
<1>. HIDE DEF c
<1>6. ASSUME NEW k \in 1 .. m, c[k][1] = a PROVE Covers(x, a) /\ k = a - r + 1
  <2>1. r + k - 1 = a
    BY <1>3, <1>6
  <2>2. r <= a /\ a < r + m /\ k = a - r + 1
    BY <2>1
  <2>. QED BY <1>4, <2>2
<1>7. ASSUME Covers(x, a) PROVE a - r + 1 \in 1 .. m /\ c[a - r + 1] = <<a, ByteAt(b, x, a)>>
  <2>1. a - r + 1 \in 1 .. m /\ r + (a - r + 1) - 1 = a
    BY <1>4, <1>7
  <2>2. PICK k \in 1 .. m : k = a - r + 1
    BY <2>1
  <2>3. c[k] = <<r + k - 1, b[p + k]>> /\ r + k - 1 = a
    BY <1>3, <2>1, <2>2
  <2>. QED BY <1>5, <2>2, <2>3
<1>8. Has(c, a) <=> Covers(x, a)
  <2>1. ASSUME Covers(x, a) PROVE Has(c, a)
    <3>1. PICK k \in 1 .. m : c[k] = <<a, ByteAt(b, x, a)>>
      BY <1>7, <2>1
    <3>. QED BY <1>2, <3>1 DEF Has
  <2>. QED BY <1>2, <1>6, <2>1 DEF Has
<1>9. ASSUME Says(c, a, v) PROVE Covers(x, a) /\ ByteAt(b, x, a) = v
  <2>1. PICK k \in 1 .. m : c[k] = <<a, v>>
    BY <1>2, <1>9 DEF Says
  <2>2. Covers(x, a) /\ k = a - r + 1
    BY <1>6, <2>1
  <2>. QED BY <1>7, <2>1, <2>2
<1>10. ASSUME Covers(x, a), ByteAt(b, x, a) = v PROVE Says(c, a, v)
  <2>1. PICK k \in 1 .. m : k = a - r + 1 /\ c[k] = <<a, v>>
    BY <1>7, <1>10
  <2>2. \A l \in 1 .. m : l > k => c[l][1] # a
    <3>1. \A l \in 1 .. m : l > k => ~(l = a - r + 1)
      BY <2>1
    <3>. QED BY <1>6, <3>1
  <2>. QED BY <1>2, <2>1, <2>2 DEF Says
<1>. QED BY <1>8, <1>9, <1>10 DEF c

\* What is loaded from blocks is what the last block at the address has there.
LEMMA ContentSays ==
  ASSUME NEW s, s.bytes \in Seq(Nat), NEW t \in Seq(Block), AllFit(s.bytes, t), NEW a \in Int, NEW v \in Int
  PROVE  Says(Content(s, t), a, v) <=> Shows(s.bytes, t, 1 .. Len(t), a, v)
<1>1. PICK b \in Seq(Nat) : b = s.bytes
  OBVIOUS
<1>. DEFINE P == PiecesOf(b, t)
<1>2. P \in Pieces /\ Len(P) = Len(t) /\ \A i \in 1 .. Len(t) : P[i] = Bytes(b, t[i])
  BY <1>1, PiecesType
<1>3. Content(s, t) = Joined(P)
  BY <1>1, ContentIs
<1>4. \A i \in 1 .. Len(t) : /\ Has(P[i], a) <=> Covers(t[i], a)
                             /\ Says(P[i], a, v) <=> Covers(t[i], a) /\ ByteAt(b, t[i], a) = v
  <2>. SUFFICES ASSUME NEW i \in 1 .. Len(t)
                PROVE  /\ Has(P[i], a) <=> Covers(t[i], a)
                       /\ Says(P[i], a, v) <=> Covers(t[i], a) /\ ByteAt(b, t[i], a) = v
    OBVIOUS
  <2>1. t[i] \in Block /\ Fits(b, t[i])
    BY <1>1 DEF AllFit
  <2>2. PICK x \in Block : x = t[i] /\ Fits(b, x)
    BY <2>1
  <2>3. /\ Has(Bytes(b, x), a) <=> Covers(x, a)
        /\ Says(Bytes(b, x), a, v) <=> Covers(x, a) /\ ByteAt(b, x, a) = v
    BY ONLY <2>2, BytesSay, a \in Int, v \in Int, b \in Seq(Nat)
  <2>4. P[i] = Bytes(b, x)
    BY <1>2, <2>2
  <2>. HIDE DEF P
  <2>. QED BY ONLY <2>2, <2>3, <2>4
<1>. HIDE DEF P
<1>5. Says(Joined(P), a, v) <=>
        \E i \in 1 .. Len(P) : /\ Says(P[i], a, v)
                               /\ \A l \in 1 .. Len(P) : l > i => ~Has(P[l], a)
  BY <1>2, SaysJoined
<1>. QED BY <1>1, <1>2, <1>3, <1>4, <1>5 DEF Shows

\* Pieces that have the same image have it together.
LEMMA SameJoined ==
  ASSUME NEW P \in Pieces, NEW Q \in Pieces, Len(P) = Len(Q),
         \A i \in 1 .. Len(P) : SameImage(P[i], Q[i])
  PROVE  SameImage(Joined(P), Joined(Q))
<1>. SUFFICES ASSUME NEW a \in Int, NEW v \in Int
              PROVE  Says(Joined(P), a, v) <=> Says(Joined(Q), a, v)
  BY DEF SameImage
<1>1. \A i \in 1 .. Len(P) : P[i] \in Seq(Places) /\ Q[i] \in Seq(Places)
  BY DEF Pieces
<1>2. \A i \in 1 .. Len(P) : /\ Has(P[i], a) <=> Has(Q[i], a)
                             /\ Says(P[i], a, v) <=> Says(Q[i], a, v)
  <2>. SUFFICES ASSUME NEW i \in 1 .. Len(P)
                PROVE  /\ Has(P[i], a) <=> Has(Q[i], a)
                       /\ Says(P[i], a, v) <=> Says(Q[i], a, v)
    OBVIOUS
  <2>1. P[i] \in Seq(Places) /\ Q[i] \in Seq(Places) /\ SameImage(P[i], Q[i])
    BY <1>1
  <2>. QED BY <2>1, SameHas DEF SameImage
<1>. QED BY <1>2, SaysJoined

\* An image is the same as itself.
LEMMA SameItself == \A c : SameImage(c, c)
BY DEF SameImage

\* A section whose image is the same stands for the same.
LEMMA SameParts ==
  ASSUME NEW s, Sound(s), NEW c \in Seq(Places), NEW d \in Seq(Places), SameImage(c, d)
  PROVE  SameImage(Joined(Parts(s, c)), Joined(Parts(s, d)))
<1>1. PICK P : P = Parts(s, c)
  OBVIOUS
<1>2. PICK Q : Q = Parts(s, d)
  OBVIOUS
<1>3. /\ P \in Pieces /\ Len(P) = Len(s.blocks)
      /\ \A i \in 1 .. Len(s.blocks) : P[i] = IF s.blocks[i].ref = NoMem THEN Bytes(s.bytes, s.blocks[i]) ELSE c
  BY <1>1, PartsType
<1>4. /\ Q \in Pieces /\ Len(Q) = Len(s.blocks)
      /\ \A i \in 1 .. Len(s.blocks) : Q[i] = IF s.blocks[i].ref = NoMem THEN Bytes(s.bytes, s.blocks[i]) ELSE d
  BY <1>2, PartsType
<1>5. \A i \in 1 .. Len(P) : SameImage(P[i], Q[i])
  BY <1>3, <1>4, SameItself
<1>6. SameImage(Joined(P), Joined(Q))
  BY ONLY <1>3, <1>4, <1>5, SameJoined
<1>. QED BY <1>1, <1>2, <1>6

(***************************************************************************)
(* Making blocks disjoint.                                                 *)
(***************************************************************************)
Live(bs, j, k) == (1 .. k) \cup (j .. Len(bs))
BytesApart(x, y) == x.p + x.len <= y.p \/ y.p + y.len <= x.p
PlacesApart(x, y) ==
  x.len = 0 \/ y.len = 0 \/ x.addr + x.len <= y.addr \/ y.addr + y.len <= x.addr

\* No byte is of two blocks; a block that is done has bytes, and no address with another;
\* block j has no address with those before i; and what is left behind is empty or done.
OwnBytes(bs, L) == \A x \in L : \A y \in L : x < y => BytesApart(bs[x], bs[y])
DoneFull(bs, k) == \A x \in 1 .. k : bs[x].len # 0
DoneApart(bs, j, k) == \A x \in 1 .. k : \A y \in Live(bs, j, k) : x # y => PlacesApart(bs[x], bs[y])
TurnApart(bs, i, j) == \A y \in j .. Len(bs) : j < y /\ y < i => PlacesApart(bs[j], bs[y])
LeftBehind(bs, j, k) == \A y \in k + 1 .. j - 1 : bs[y].len = 0 \/ \E x \in 1 .. k : bs[y] = bs[x]
Whole(b, bs) == /\ b \in Seq(Nat) /\ bs \in Seq(Block) /\ AllFit(b, bs)
                /\ \A x \in 1 .. Len(bs) : bs[x].ref = NoMem
Turns(bs, i, j, k) == /\ i \in Nat /\ j \in Nat /\ k \in Nat
                      /\ k < j /\ j < i /\ j <= Len(bs) + 1
Merges(b, bs, i, j, k) ==
  /\ Whole(b, bs) /\ Turns(bs, i, j, k)
  /\ OwnBytes(bs, Live(bs, j, k)) /\ DoneFull(bs, k) /\ DoneApart(bs, j, k)
  /\ TurnApart(bs, i, j) /\ LeftBehind(bs, j, k)

\* Blocks that are apart have no address in common.
LEMMA ApartShares ==
  ASSUME NEW x \in Block, NEW y \in Block, PlacesApart(x, y), NEW a \in Int
  PROVE  ~(Covers(x, a) /\ Covers(y, a))
<1>1. PICK xa \in Int, xl \in Nat, ya \in Int, yl \in Nat :
         xa = x.addr /\ xl = x.len /\ ya = y.addr /\ yl = y.len
  BY DEF Block
<1>2. xl = 0 \/ yl = 0 \/ xa + xl <= ya \/ ya + yl <= xa
  BY <1>1 DEF PlacesApart
<1>3. /\ Covers(x, a) <=> xa <= a /\ a < xa + xl
      /\ Covers(y, a) <=> ya <= a /\ a < ya + yl
  BY <1>1 DEF Covers
<1>4. ~((xa <= a /\ a < xa + xl) /\ (ya <= a /\ a < ya + yl))
  BY <1>2
<1>. QED BY <1>3, <1>4

\* A block that is cut: its address, place and length.
LEMMA CutIs ==
  ASSUME NEW x \in Block, NEW n \in Nat, n <= x.len
  PROVE  /\ Cut(x, n) \in Block /\ Cut(x, n).ref = x.ref
         /\ Cut(x, n).p = x.p + n /\ Cut(x, n).addr = x.addr + n /\ Cut(x, n).len = x.len - n
<1>1. x.p \in Nat /\ x.addr \in Int /\ x.len \in Nat /\ x.ref \in {NoMem, "sec"}
  BY DEF Block
<1>2. x.p + n \in Nat /\ x.addr + n \in Int /\ x.len - n \in Nat
  BY <1>1
<1>3. PICK p \in Nat, c \in Int, l \in Nat, r \in {NoMem, "sec"} :
         x = [p |-> p, addr |-> c, len |-> l, ref |-> r]
  BY DEF Block
<1>4. Cut(x, n) = [[[x EXCEPT !.len = x.len - n] EXCEPT !.p = x.p + n] EXCEPT !.addr = x.addr + n]
  BY <1>3 DEF Cut
<1>5. [[[x EXCEPT !.len = x.len - n] EXCEPT !.p = x.p + n] EXCEPT !.addr = x.addr + n]
        = [p |-> p + n, addr |-> c + n, len |-> l - n, ref |-> r]
  <2>0. x.len = l /\ x.p = p /\ x.addr = c
    BY <1>3
  <2>1. PICK u, v, w : u = l - n /\ v = p + n /\ w = c + n
    OBVIOUS
  <2>2. [x EXCEPT !.len = u] = [p |-> p, addr |-> c, len |-> u, ref |-> r]
    BY ONLY <1>3
  <2>3. [[p |-> p, addr |-> c, len |-> u, ref |-> r] EXCEPT !.p = v] = [p |-> v, addr |-> c, len |-> u, ref |-> r]
    BY ONLY TRUE
  <2>4. [[p |-> v, addr |-> c, len |-> u, ref |-> r] EXCEPT !.addr = w] = [p |-> v, addr |-> w, len |-> u, ref |-> r]
    BY ONLY TRUE
  <2>. QED BY ONLY <2>0, <2>1, <2>2, <2>3, <2>4
<1>6. p + n \in Nat /\ c + n \in Int /\ l - n \in Nat
  BY <1>2, <1>3
<1>. QED BY <1>3, <1>4, <1>5, <1>6 DEF Block

\* A block that is cut stays apart from what it was apart from.
LEMMA CutApart ==
  ASSUME NEW x \in Block, NEW n \in Nat, n <= x.len, NEW y \in Block
  PROVE  /\ PlacesApart(x, y) => PlacesApart(Cut(x, n), y) /\ PlacesApart(y, Cut(x, n))
         /\ PlacesApart(y, x) => PlacesApart(Cut(x, n), y) /\ PlacesApart(y, Cut(x, n))
         /\ BytesApart(x, y) => BytesApart(Cut(x, n), y) /\ BytesApart(y, Cut(x, n))
         /\ BytesApart(y, x) => BytesApart(Cut(x, n), y) /\ BytesApart(y, Cut(x, n))
<1>1. PICK xp \in Nat, xa \in Int, xl \in Nat, yp \in Nat, ya \in Int, yl \in Nat :
         xp = x.p /\ xa = x.addr /\ xl = x.len /\ yp = y.p /\ ya = y.addr /\ yl = y.len
  BY DEF Block
<1>2. PICK c : c = Cut(x, n)
  OBVIOUS
<1>3. c.p = xp + n /\ c.addr = xa + n /\ c.len = xl - n /\ n <= xl
  BY <1>1, <1>2, CutIs
<1>4. /\ PlacesApart(x, y) => PlacesApart(c, y) /\ PlacesApart(y, c)
      /\ PlacesApart(y, x) => PlacesApart(c, y) /\ PlacesApart(y, c)
  BY <1>1, <1>3 DEF PlacesApart
<1>5. /\ BytesApart(x, y) => BytesApart(c, y) /\ BytesApart(y, c)
      /\ BytesApart(y, x) => BytesApart(c, y) /\ BytesApart(y, c)
  BY <1>1, <1>3 DEF BytesApart
<1>. QED BY <1>2, <1>4, <1>5

\* What a turn does at one address: block i gives its byte to block j, ...
HandsOver(b, bs, d, ds, L, i, j, a) ==
  /\ \A x \in L : x # i => (Covers(ds[x], a) <=> Covers(bs[x], a))
  /\ Covers(ds[i], a) <=> Covers(bs[i], a) /\ ~Covers(bs[j], a)
  /\ \A x \in L : x # j /\ Covers(ds[x], a) => ByteAt(d, ds[x], a) = ByteAt(b, bs[x], a)
  /\ Covers(bs[j], a) /\ Covers(bs[i], a) => ByteAt(d, ds[j], a) = ByteAt(b, bs[i], a)
  /\ Covers(bs[j], a) /\ ~Covers(bs[i], a) => ByteAt(d, ds[j], a) = ByteAt(b, bs[j], a)
  /\ \A x \in L : j < x /\ x < i => ~(Covers(bs[j], a) /\ Covers(bs[x], a))

\* A turn that hands bytes over changes nothing of what is shown.
LEMMA HandedOver ==
  ASSUME NEW b, NEW bs, NEW d, NEW ds, NEW L \in SUBSET Int, NEW i \in L, NEW j \in L, j < i,
         NEW a, NEW v, HandsOver(b, bs, d, ds, L, i, j, a)
  PROVE  Shows(b, bs, L, a, v) <=> Shows(d, ds, L, a, v)
<1>0. \A x \in L : Covers(ds[x], a) => Covers(bs[x], a)
  BY DEF HandsOver
<1>1. ASSUME NEW x \in L, Covers(bs[x], a), ByteAt(b, bs[x], a) = v,
             \A l \in L : l > x => ~Covers(bs[l], a)
      PROVE  Shows(d, ds, L, a, v)
  <2>1. CASE x = i /\ Covers(bs[j], a)
    <3>1. Covers(ds[j], a) /\ ByteAt(d, ds[j], a) = v
      BY <1>1, <2>1 DEF HandsOver
    <3>2. ASSUME NEW l \in L, l > j PROVE ~Covers(ds[l], a)
      <4>1. CASE l = i
        BY <2>1, <4>1 DEF HandsOver
      <4>2. CASE l < i
        BY <1>0, <2>1, <3>2, <4>2 DEF HandsOver
      <4>3. CASE l > i
        BY <1>0, <1>1, <2>1, <4>3
      <4>. QED BY <4>1, <4>2, <4>3
    <3>. QED BY <3>1, <3>2 DEF Shows
  <2>2. CASE x = i /\ ~Covers(bs[j], a)
    BY <1>0, <1>1, <2>2 DEF HandsOver, Shows
  <2>3. CASE x = j
    <3>1. ~Covers(bs[i], a)
      BY <1>1, <2>3
    <3>. QED BY <1>0, <1>1, <2>3, <3>1 DEF HandsOver, Shows
  <2>4. CASE x # i /\ x # j
    BY <1>0, <1>1, <2>4 DEF HandsOver, Shows
  <2>. QED BY <2>1, <2>2, <2>3, <2>4
<1>2. ASSUME NEW x \in L, Covers(ds[x], a), ByteAt(d, ds[x], a) = v,
             \A l \in L : l > x => ~Covers(ds[l], a)
      PROVE  Shows(b, bs, L, a, v)
  <2>1. \A l \in L : l > x /\ l # i => ~Covers(bs[l], a)
    BY <1>2 DEF HandsOver
  <2>2. CASE x = j /\ Covers(bs[i], a)
    <3>1. Covers(bs[i], a) /\ ByteAt(b, bs[i], a) = v
      BY <1>0, <1>2, <2>2 DEF HandsOver
    <3>2. \A l \in L : l > i => l > x /\ l # i
      BY <2>2
    <3>. QED BY <2>1, <3>1, <3>2 DEF Shows
  <2>3. CASE x = j /\ ~Covers(bs[i], a)
    BY <1>0, <1>2, <2>1, <2>3 DEF HandsOver, Shows
  <2>4. CASE x = i
    <3>1. ByteAt(b, bs[i], a) = v /\ Covers(bs[i], a)
      BY <1>0, <1>2, <2>4 DEF HandsOver
    <3>2. \A l \in L : l > i => l # i
      OBVIOUS
    <3>. QED BY <2>1, <2>4, <3>1, <3>2 DEF Shows
  <2>5. CASE x # i /\ x # j
    <3>1. ByteAt(b, bs[x], a) = v /\ Covers(bs[x], a)
      BY <1>0, <1>2, <2>5 DEF HandsOver
    <3>2. ~(i > x /\ Covers(bs[i], a))
      <4>. SUFFICES ASSUME i > x, Covers(bs[i], a) PROVE FALSE
        OBVIOUS
      <4>1. ~Covers(ds[i], a)
        BY <1>2
      <4>2. Covers(bs[j], a) /\ Covers(ds[j], a)
        BY <4>1 DEF HandsOver
      <4>3. ~(j > x)
        BY <1>2, <4>2
      <4>4. j < x
        BY <2>5, <4>3
      <4>. QED BY <3>1, <4>2, <4>4 DEF HandsOver
    <3>. QED BY <2>1, <3>1, <3>2 DEF Shows
  <2>. QED BY <2>2, <2>3, <2>4, <2>5
<1>. QED BY <1>1, <1>2 DEF Shows

\* ... or block j gives up an address that block i has.
GivesUp(b, bs, ds, L, i, j, a) ==
  /\ \A x \in L : x # j => (Covers(ds[x], a) <=> Covers(bs[x], a))
  /\ Covers(ds[j], a) <=> Covers(bs[j], a) /\ ~Covers(bs[i], a)
  /\ \A x \in L : Covers(ds[x], a) => ByteAt(b, ds[x], a) = ByteAt(b, bs[x], a)

\* Neither does a turn that gives addresses up.
LEMMA GivenUp ==
  ASSUME NEW b, NEW bs, NEW ds, NEW L \in SUBSET Int, NEW i \in L, NEW j \in L, j < i,
         NEW a, NEW v, GivesUp(b, bs, ds, L, i, j, a)
  PROVE  Shows(b, bs, L, a, v) <=> Shows(b, ds, L, a, v)
<1>0. \A x \in L : Covers(ds[x], a) => Covers(bs[x], a)
  BY DEF GivesUp
<1>1. ASSUME NEW x \in L, Covers(bs[x], a), ByteAt(b, bs[x], a) = v,
             \A l \in L : l > x => ~Covers(bs[l], a)
      PROVE  Shows(b, ds, L, a, v)
  <2>1. x = j => ~Covers(bs[i], a)
    BY <1>1
  <2>2. Covers(ds[x], a)
    BY <1>1, <2>1 DEF GivesUp
  <2>. QED BY <1>0, <1>1, <2>2 DEF GivesUp, Shows
<1>2. ASSUME NEW x \in L, Covers(ds[x], a), ByteAt(b, ds[x], a) = v,
             \A l \in L : l > x => ~Covers(ds[l], a)
      PROVE  Shows(b, bs, L, a, v)
  <2>1. Covers(bs[x], a) /\ ByteAt(b, bs[x], a) = v
    BY <1>0, <1>2 DEF GivesUp
  <2>2. ASSUME NEW l \in L, l > x, Covers(bs[l], a) PROVE FALSE
    <3>1. l = j /\ Covers(bs[i], a)
      BY <1>2, <2>2 DEF GivesUp
    <3>2. i > x /\ i # j
      BY <2>2, <3>1
    <3>3. Covers(ds[i], a)
      BY <3>1, <3>2 DEF GivesUp
    <3>. QED BY <1>2, <3>2, <3>3
  <2>. QED BY <2>1, <2>2 DEF Shows
<1>. QED BY <1>1, <1>2 DEF Shows

Overlap(bs, i, j) == Low(bs[j].addr + bs[j].len - bs[i].addr, bs[i].len)
Target(bs, i, j) == bs[j].p + bs[i].addr - bs[j].addr
Written(b, bs, i, j) ==
  [q \in DOMAIN b |-> IF q - Target(bs, i, j) \in 1 .. Overlap(bs, i, j)
                      THEN b[bs[i].p + q - Target(bs, i, j)] ELSE b[q]]
CutAt(bs, i, n) == [bs EXCEPT ![i] = Cut(@, n)]

\* The blocks that count in the loops are well formed, those being compared among them.
LEMMA LiveIs ==
  ASSUME NEW b, NEW bs, NEW i, NEW j, NEW k, Merges(b, bs, i, j, k)
  PROVE  /\ Len(bs) \in Nat /\ i \in Nat /\ j \in Nat /\ k \in Nat /\ k < j /\ j < i
         /\ Live(bs, j, k) \in SUBSET Int
         /\ \A x \in Live(bs, j, k) : x \in 1 .. Len(bs) /\ bs[x] \in Block /\ Fits(b, bs[x])
         /\ \A x \in 1 .. k : x \in Live(bs, j, k) /\ x < j
         /\ j <= Len(bs) => j \in Live(bs, j, k)
         /\ i <= Len(bs) => i \in Live(bs, j, k) /\ j \in Live(bs, j, k)
<1>1. Len(bs) \in Nat /\ i \in Nat /\ j \in Nat /\ k \in Nat /\ k < j /\ j < i /\ j <= Len(bs) + 1
  BY DEF Merges, Turns, Whole
<1>2. \A x \in Live(bs, j, k) : x \in 1 .. Len(bs)
  <2>1. PICK n \in Nat : n = Len(bs)
    BY <1>1
  <2>. QED BY <1>1, <2>1 DEF Live
<1>3. \A x \in 1 .. Len(bs) : bs[x] \in Block /\ Fits(b, bs[x])
  BY DEF Merges, Whole, AllFit
<1>4. \A x \in 1 .. k : x \in Live(bs, j, k) /\ x < j
  BY <1>1 DEF Live
<1>5. j <= Len(bs) => j \in Live(bs, j, k)
  BY <1>1 DEF Live
<1>6. i <= Len(bs) => i \in Live(bs, j, k) /\ j \in Live(bs, j, k)
  BY <1>1 DEF Live
<1>. QED BY <1>1, <1>2, <1>3, <1>4, <1>5, <1>6

\* Cutting one of the blocks that are left, and looking at the next one
LEMMA CutKeeps ==
  ASSUME NEW b, NEW bs, NEW i, NEW j, NEW k, Merges(b, bs, i, j, k), i <= Len(bs),
         NEW c \in {i, j}, NEW n \in Nat, n <= bs[c].len,
         NEW d \in Seq(Nat), Len(d) = Len(b),
         PlacesApart(CutAt(bs, c, n)[j], CutAt(bs, c, n)[i])
  PROVE  Merges(d, CutAt(bs, c, n), i + 1, j, k)
<1>. DEFINE ds == CutAt(bs, c, n)
            L == Live(bs, j, k)
<1>1. /\ Len(bs) \in Nat /\ i \in Nat /\ j \in Nat /\ k \in Nat /\ k < j /\ j < i
      /\ c \in 1 .. Len(bs) /\ c \in L /\ j \in 1 .. Len(bs) /\ i \in 1 .. Len(bs)
  BY LiveIs
<1>2. \A x \in 1 .. Len(bs) : bs[x] \in Block /\ Fits(b, bs[x]) /\ bs[x].ref = NoMem
  BY DEF Merges, Whole, AllFit
<1>3. PICK y : y = Cut(bs[c], n)
  OBVIOUS
<1>4. /\ y \in Block /\ y.ref = NoMem /\ y.len = bs[c].len - n
      /\ y.p = bs[c].p + n /\ y.addr = bs[c].addr + n
  <2>1. bs[c] \in Block /\ bs[c].ref = NoMem
    BY ONLY <1>1, <1>2
  <2>2. PICK x \in Block : x = bs[c]
    BY ONLY <2>1
  <2>3. /\ Cut(x, n) \in Block /\ Cut(x, n).ref = x.ref
        /\ Cut(x, n).p = x.p + n /\ Cut(x, n).addr = x.addr + n /\ Cut(x, n).len = x.len - n
    BY <2>2, CutIs
  <2>. QED BY ONLY <1>3, <2>1, <2>2, <2>3
<1>5. bs \in Seq(Block)
  BY DEF Merges, Whole
<1>6. /\ ds \in Seq(Block) /\ Len(ds) = Len(bs)
      /\ ds[c] = y /\ \A x \in 1 .. Len(bs) : x # c => ds[x] = bs[x]
  BY <1>1, <1>3, <1>4, <1>5 DEF CutAt
<1>7. Live(ds, j, k) = L /\ L \subseteq 1 .. Len(bs)
  BY <1>6, LiveIs DEF Live
<1>8. PlacesApart(ds[j], ds[i])
  OBVIOUS
<1>. HIDE DEF ds, L
<1>9. Whole(d, ds)
  <2>1. ASSUME NEW x \in 1 .. Len(bs) PROVE Fits(d, ds[x]) /\ ds[x].ref = NoMem
    <3>1. CASE x # c
      BY <1>2, <1>6, <3>1 DEF Fits
    <3>2. CASE x = c
      <4>1. bs[c].p + bs[c].len <= Len(b) /\ bs[c].p \in Nat /\ bs[c].len \in Nat
        BY <1>1, <1>2 DEF Fits, Block
      <4>. QED BY <1>4, <1>6, <3>2, <4>1 DEF Fits
    <3>. QED BY <3>1, <3>2
  <2>. QED BY <1>6, <2>1 DEF Whole, AllFit
<1>10. Turns(ds, i + 1, j, k)
  BY <1>1, <1>6 DEF Turns
<1>11. OwnBytes(ds, L)
  <2>. SUFFICES ASSUME NEW x \in L, NEW z \in L, x < z PROVE BytesApart(ds[x], ds[z])
    BY DEF OwnBytes
  <2>1. BytesApart(bs[x], bs[z])
    BY DEF Merges, OwnBytes, L
  <2>2. x \in 1 .. Len(bs) /\ z \in 1 .. Len(bs) /\ x # z /\ bs[x] \in Block /\ bs[z] \in Block
    BY <1>2, <1>7
  <2>3. CASE x # c /\ z # c
    BY <1>6, <2>1, <2>2, <2>3
  <2>4. CASE x = c
    <3>1. BytesApart(y, bs[z])
      BY <1>3, <2>1, <2>2, <2>4, CutApart
    <3>. QED BY <1>6, <2>2, <2>4, <3>1
  <2>5. CASE z = c
    <3>1. BytesApart(bs[x], y)
      BY <1>3, <2>1, <2>2, <2>5, CutApart
    <3>. QED BY <1>6, <2>2, <2>5, <3>1
  <2>. QED BY <2>3, <2>4, <2>5
<1>12. \A x \in 1 .. k : x \in 1 .. Len(bs) /\ x # c /\ ds[x] = bs[x] /\ x \in L
  BY <1>1, <1>6, LiveIs DEF L
<1>13. DoneFull(ds, k)
  BY <1>12 DEF DoneFull, Merges
<1>14. DoneApart(ds, j, k)
  <2>. SUFFICES ASSUME NEW x \in 1 .. k, NEW z \in L, x # z PROVE PlacesApart(ds[x], ds[z])
    BY <1>7 DEF DoneApart
  <2>1. PlacesApart(bs[x], bs[z])
    BY DEF Merges, DoneApart, L
  <2>2. z \in 1 .. Len(bs) /\ bs[x] \in Block /\ bs[z] \in Block
    BY <1>2, <1>7, <1>12
  <2>3. CASE z # c
    BY <1>6, <1>12, <2>1, <2>2, <2>3
  <2>4. CASE z = c
    <3>1. PlacesApart(bs[x], y)
      BY <1>3, <2>1, <2>2, <2>4, CutApart
    <3>. QED BY <1>6, <1>12, <2>2, <2>4, <3>1
  <2>. QED BY <2>3, <2>4
<1>15. TurnApart(ds, i + 1, j)
  <2>. SUFFICES ASSUME NEW z \in j .. Len(bs), j < z, z < i + 1 PROVE PlacesApart(ds[j], ds[z])
    BY <1>6 DEF TurnApart
  <2>0. z \in 1 .. Len(bs) /\ z \in Nat /\ (z = i \/ z < i)
    BY <1>1
  <2>1. CASE z = i
    BY <1>8, <2>1
  <2>2. CASE z < i
    <3>1. PlacesApart(bs[j], bs[z])
      BY <2>2 DEF Merges, TurnApart
    <3>2. z # j /\ z # i /\ bs[j] \in Block /\ bs[z] \in Block
      BY <1>1, <1>2, <2>0, <2>2
    <3>3. CASE c = j
      <4>1. PlacesApart(y, bs[z])
        BY <1>3, <3>1, <3>2, <3>3, CutApart
      <4>. QED BY <1>6, <2>0, <3>2, <3>3, <4>1
    <3>4. CASE c # j
      BY <1>1, <1>6, <2>0, <3>1, <3>2, <3>4
    <3>. QED BY <3>3, <3>4
  <2>. QED BY <2>0, <2>1, <2>2
<1>16. LeftBehind(ds, j, k)
  <2>. SUFFICES ASSUME NEW z \in k + 1 .. j - 1
                PROVE  ds[z].len = 0 \/ \E x \in 1 .. k : ds[z] = ds[x]
    BY DEF LeftBehind
  <2>1. z \in 1 .. Len(bs) /\ z # c
    BY <1>1
  <2>2. bs[z].len = 0 \/ \E x \in 1 .. k : bs[z] = bs[x]
    BY DEF Merges, LeftBehind
  <2>. QED BY <1>6, <1>12, <2>1, <2>2
<1>17. Merges(d, ds, i + 1, j, k)
  BY <1>7, <1>9, <1>10, <1>11, <1>13, <1>14, <1>15, <1>16 DEF Merges
<1>. QED BY <1>17 DEF ds

\* The smaller one of two numbers is one of them, and not above either.
LEMMA LowIs ==
  ASSUME NEW x \in Int, NEW y \in Int
  PROVE  Low(x, y) \in {x, y} /\ Low(x, y) <= x /\ Low(x, y) <= y
BY DEF Low

\* The later block is copied into the earlier one, and cut.
LEMMA CopyTurns ==
  ASSUME NEW b, NEW bs, NEW i, NEW j, NEW k, Merges(b, bs, i, j, k), i <= Len(bs), Begins(bs[i], bs[j])
  PROVE  /\ Merges(Written(b, bs, i, j), CutAt(bs, i, Overlap(bs, i, j)), i + 1, j, k)
         /\ SameShown(b, bs, Live(bs, j, k),
                      Written(b, bs, i, j), CutAt(bs, i, Overlap(bs, i, j)), Live(bs, j, k))
<1>. DEFINE L == Live(bs, j, k)
<1>1. /\ Len(bs) \in Nat /\ i \in Nat /\ j \in Nat /\ k \in Nat /\ k < j /\ j < i
      /\ i \in L /\ j \in L /\ L \in SUBSET Int /\ j \in 1 .. Len(bs) /\ i \in 1 .. Len(bs)
  BY LiveIs
<1>2. \A x \in L : x \in 1 .. Len(bs) /\ bs[x] \in Block /\ Fits(b, bs[x])
  BY LiveIs
<1>3. PICK xp \in Nat, xa \in Int, xl \in Nat, yp \in Nat, ya \in Int, yl \in Nat :
        /\ xp = bs[i].p /\ xa = bs[i].addr /\ xl = bs[i].len
        /\ yp = bs[j].p /\ ya = bs[j].addr /\ yl = bs[j].len
  BY <1>1, <1>2 DEF Block
<1>4. xl # 0 /\ ya <= xa /\ xa < ya + yl
  BY <1>3 DEF Begins
<1>5. PICK over : over = Overlap(bs, i, j)
  OBVIOUS
<1>6. /\ over \in Nat /\ 1 <= over /\ over <= xl /\ xa + over <= ya + yl
      /\ over = xl \/ xa + over = ya + yl
  <2>1. over = Low(ya + yl - xa, xl)
    BY <1>3, <1>5 DEF Overlap
  <2>2. over \in {ya + yl - xa, xl} /\ over <= ya + yl - xa /\ over <= xl
    BY <2>1, LowIs
  <2>. QED BY <1>4, <2>2
<1>7. PICK to \in Int : to = Target(bs, i, j) /\ to = yp + xa - ya
  BY <1>3 DEF Target
<1>8. yp <= to /\ to + over <= yp + yl
  BY <1>4, <1>6, <1>7
<1>9. b \in Seq(Nat) /\ bs \in Seq(Block)
  BY DEF Merges, Whole
<1>10. PICK m \in Nat : m = Len(b) /\ DOMAIN b = 1 .. m
  BY <1>9
<1>11. xp + xl <= m /\ yp + yl <= m
  BY <1>1, <1>2, <1>3, <1>10 DEF Fits
<1>12. PICK d : d = Written(b, bs, i, j)
  OBVIOUS
<1>13. PICK ds : ds = CutAt(bs, i, over)
  OBVIOUS
<1>14. PICK y : y = Cut(bs[i], over)
  OBVIOUS
<1>15. y \in Block /\ y.len = xl - over /\ y.p = xp + over /\ y.addr = xa + over
  BY <1>1, <1>2, <1>3, <1>6, <1>14, CutIs
<1>16. ds[i] = y /\ \A x \in 1 .. Len(bs) : x # i => ds[x] = bs[x]
  BY <1>1, <1>9, <1>13, <1>14 DEF CutAt
<1>17. d = [q \in 1 .. m |-> IF q - to \in 1 .. over THEN b[xp + q - to] ELSE b[q]]
  BY <1>3, <1>5, <1>7, <1>10, <1>12 DEF Written
<1>18. d \in Seq(Nat) /\ Len(d) = m
  <2>1. ASSUME NEW q \in 1 .. m PROVE (IF q - to \in 1 .. over THEN b[xp + q - to] ELSE b[q]) \in Nat
    <3>1. CASE q - to \in 1 .. over
      <4>1. xp + q - to \in 1 .. m
        BY <1>6, <1>11, <3>1
      <4>. QED BY <1>9, <1>10, <3>1, <4>1
    <3>. QED BY <1>9, <1>10, <3>1
  <2>2. d \in [1 .. m -> Nat]
    BY <1>17, <2>1
  <2>3. d \in Seq(Nat)
    BY <2>2
  <2>. QED BY <2>2, <2>3
<1>. HIDE DEF L
<1>19. PlacesApart(ds[j], ds[i])
  <2>1. ds[j] = bs[j]
    BY <1>1, <1>16
  <2>2. xl - over = 0 \/ ya + yl <= xa + over
    BY <1>6
  <2>. QED BY <1>3, <1>15, <1>16, <2>1, <2>2 DEF PlacesApart
<1>20. Merges(d, ds, i + 1, j, k)
  <2>1. over \in Nat /\ over <= bs[i].len /\ i \in {i, j} /\ Len(d) = Len(b)
    BY <1>3, <1>6, <1>10, <1>18
  <2>2. PlacesApart(CutAt(bs, i, over)[j], CutAt(bs, i, over)[i])
    BY <1>13, <1>19
  <2>3. Merges(d, CutAt(bs, i, over), i + 1, j, k)
    BY ONLY <1>18, <2>1, <2>2, CutKeeps, Merges(b, bs, i, j, k), i <= Len(bs)
  <2>. QED BY <1>13, <2>3
\* Bytes of other blocks are not changed.
<1>21. ASSUME NEW z \in L, z # j, NEW q \in Nat, bs[z].p + 1 <= q, q <= bs[z].p + bs[z].len
       PROVE  d[q] = b[q]
  <2>1. PICK zp \in Nat, zl \in Nat : zp = bs[z].p /\ zl = bs[z].len
    BY <1>2 DEF Block
  <2>2. zp + zl <= m
    BY <1>2, <1>10, <2>1 DEF Fits
  <2>3. zp + zl <= yp \/ yp + yl <= zp
    <3>1. z \in Int /\ j \in Int /\ (z < j \/ j < z)
      BY <1>1, <1>21
    <3>2. BytesApart(bs[z], bs[j]) \/ BytesApart(bs[j], bs[z])
      BY <1>1, <3>1 DEF Merges, OwnBytes, L
    <3>. QED BY <1>3, <2>1, <3>2 DEF BytesApart
  <2>4. ~(q - to \in 1 .. over)
    BY <1>6, <1>7, <1>8, <1>21, <2>1, <2>3
  <2>5. q \in 1 .. m
    BY <1>21, <2>1, <2>2
  <2>. QED BY <1>17, <2>4, <2>5
<1>22. ASSUME NEW a \in Int PROVE HandsOver(b, bs, d, ds, L, i, j, a)
  <2>1. /\ Covers(bs[i], a) <=> xa <= a /\ a < xa + xl
        /\ Covers(bs[j], a) <=> ya <= a /\ a < ya + yl
    BY <1>3 DEF Covers
  <2>2. Covers(ds[i], a) <=> xa + over <= a /\ a < xa + over + (xl - over)
    BY <1>15, <1>16 DEF Covers
  <2>3. Covers(ds[i], a) <=> Covers(bs[i], a) /\ ~Covers(bs[j], a)
    BY <1>4, <1>6, <2>1, <2>2
  <2>4. \A x \in L : x # i => (Covers(ds[x], a) <=> Covers(bs[x], a))
    BY <1>2, <1>16
  <2>5. ASSUME NEW z \in L, z # j, Covers(ds[z], a) PROVE ByteAt(d, ds[z], a) = ByteAt(b, bs[z], a)
    <3>1. PICK zp \in Nat, za \in Int, zl \in Nat : zp = bs[z].p /\ zl = bs[z].len /\ za = bs[z].addr
      BY <1>2 DEF Block
    <3>2. za <= a /\ a < za + zl
      <4>1. Covers(bs[z], a)
        BY <2>3, <2>4, <2>5
      <4>. QED BY <3>1, <4>1 DEF Covers
    <3>3. PICK q \in Nat : q = zp + (a - za + 1) /\ zp + 1 <= q /\ q <= zp + zl
      BY <3>2
    <3>4. d[q] = b[q]
      BY <1>21, <2>5, <3>1, <3>3
    <3>5. ByteAt(b, bs[z], a) = b[q]
      BY <3>1, <3>3 DEF ByteAt
    <3>6. ByteAt(d, ds[z], a) = d[q]
      <4>1. CASE z = i
        <5>1. ByteAt(d, ds[z], a) = d[(xp + over) + (a - (xa + over) + 1)]
          BY <1>15, <1>16, <4>1 DEF ByteAt
        <5>2. zp = xp /\ za = xa
          BY <1>3, <3>1, <4>1
        <5>3. (xp + over) + (a - (xa + over) + 1) = q
          BY <1>6, <3>3, <5>2
        <5>. QED BY <5>1, <5>3
      <4>2. CASE z # i
        BY <1>2, <1>16, <3>1, <3>3, <4>2 DEF ByteAt
      <4>. QED BY <4>1, <4>2
    <3>. QED BY <3>4, <3>5, <3>6
  <2>6. ASSUME Covers(bs[j], a)
        PROVE  ByteAt(d, ds[j], a) = IF Covers(bs[i], a) THEN ByteAt(b, bs[i], a) ELSE ByteAt(b, bs[j], a)
    <3>1. PICK q \in Nat : q = yp + (a - ya + 1) /\ yp + 1 <= q /\ q <= yp + yl
      BY <2>1, <2>6
    <3>2. ByteAt(d, ds[j], a) = d[q] /\ ByteAt(b, bs[j], a) = b[q]
      <4>1. ds[j] = bs[j]
        BY <1>1, <1>16
      <4>2. ByteAt(b, bs[j], a) = b[yp + (a - ya + 1)] /\ ByteAt(d, bs[j], a) = d[yp + (a - ya + 1)]
        BY <1>3 DEF ByteAt
      <4>. QED BY ONLY <3>1, <4>1, <4>2
    <3>3. q \in 1 .. m /\ q - to = a - xa + 1
      BY <1>7, <1>11, <3>1
    <3>4. CASE Covers(bs[i], a)
      <4>1. q - to \in 1 .. over
        BY <1>4, <1>6, <2>1, <2>6, <3>3, <3>4
      <4>2. d[q] = b[xp + q - to] /\ xp + q - to = xp + (a - xa + 1)
        BY <1>17, <3>3, <4>1
      <4>3. ByteAt(b, bs[i], a) = b[xp + (a - xa + 1)]
        BY <1>3 DEF ByteAt
      <4>. QED BY <3>2, <3>4, <4>2, <4>3
    <3>5. CASE ~Covers(bs[i], a)
      <4>1. ~(q - to \in 1 .. over)
        BY <1>6, <2>1, <3>3, <3>5
      <4>. QED BY <1>17, <3>2, <3>3, <3>5, <4>1
    <3>. QED BY <3>4, <3>5
  <2>7. ASSUME NEW z \in L, j < z, z < i PROVE ~(Covers(bs[j], a) /\ Covers(bs[z], a))
    <3>1. z \in j .. Len(bs)
      BY <1>1, <1>2, <2>7
    <3>2. PlacesApart(bs[j], bs[z])
      BY <2>7, <3>1 DEF Merges, TurnApart
    <3>. QED BY <1>1, <1>2, <3>2, ApartShares
  <2>. QED BY <2>3, <2>4, <2>5, <2>6, <2>7 DEF HandsOver
<1>23. SameShown(b, bs, L, d, ds, L)
  <2>. SUFFICES ASSUME NEW a \in Int, NEW v \in Int PROVE Shows(b, bs, L, a, v) <=> Shows(d, ds, L, a, v)
    BY DEF SameShown
  <2>1. HandsOver(b, bs, d, ds, L, i, j, a)
    BY <1>22
  <2>. QED BY ONLY <1>1, <2>1, HandedOver
<1>. QED BY <1>5, <1>12, <1>13, <1>20, <1>23 DEF L

\* The later block begins first: the earlier one is cut.
LEMMA CutTurns ==
  ASSUME NEW b, NEW bs, NEW i, NEW j, NEW k, Merges(b, bs, i, j, k), i <= Len(bs), Begins(bs[j], bs[i])
  PROVE  /\ Merges(b, CutAt(bs, j, Overlap(bs, j, i)), i + 1, j, k)
         /\ SameShown(b, bs, Live(bs, j, k), b, CutAt(bs, j, Overlap(bs, j, i)), Live(bs, j, k))
<1>. DEFINE L == Live(bs, j, k)
<1>1. /\ Len(bs) \in Nat /\ i \in Nat /\ j \in Nat /\ k \in Nat /\ k < j /\ j < i
      /\ i \in L /\ j \in L /\ L \in SUBSET Int /\ j \in 1 .. Len(bs) /\ i \in 1 .. Len(bs)
  BY LiveIs
<1>2. \A x \in L : x \in 1 .. Len(bs) /\ bs[x] \in Block /\ Fits(b, bs[x])
  BY LiveIs
<1>3. PICK xp \in Nat, xa \in Int, xl \in Nat, yp \in Nat, ya \in Int, yl \in Nat :
        /\ xp = bs[i].p /\ xa = bs[i].addr /\ xl = bs[i].len
        /\ yp = bs[j].p /\ ya = bs[j].addr /\ yl = bs[j].len
  BY <1>1, <1>2 DEF Block
<1>4. yl # 0 /\ xa <= ya /\ ya < xa + xl
  BY <1>3 DEF Begins
<1>5. PICK over : over = Overlap(bs, j, i)
  OBVIOUS
<1>6. /\ over \in Nat /\ 1 <= over /\ over <= yl /\ ya + over <= xa + xl
      /\ over = yl \/ ya + over = xa + xl
  <2>1. over = Low(xa + xl - ya, yl)
    BY <1>3, <1>5 DEF Overlap
  <2>2. over \in {xa + xl - ya, yl} /\ over <= xa + xl - ya /\ over <= yl
    BY <2>1, LowIs
  <2>. QED BY <1>4, <2>2
<1>9. b \in Seq(Nat) /\ bs \in Seq(Block)
  BY DEF Merges, Whole
<1>13. PICK ds : ds = CutAt(bs, j, over)
  OBVIOUS
<1>14. PICK y : y = Cut(bs[j], over)
  OBVIOUS
<1>15. y \in Block /\ y.len = yl - over /\ y.p = yp + over /\ y.addr = ya + over
  BY <1>1, <1>2, <1>3, <1>6, <1>14, CutIs
<1>16. ds[j] = y /\ \A x \in 1 .. Len(bs) : x # j => ds[x] = bs[x]
  BY <1>1, <1>9, <1>13, <1>14 DEF CutAt
<1>. HIDE DEF L
<1>19. PlacesApart(ds[j], ds[i])
  <2>1. ds[i] = bs[i]
    BY <1>1, <1>16
  <2>2. yl - over = 0 \/ xa + xl <= ya + over
    BY <1>6
  <2>. QED BY <1>3, <1>15, <1>16, <2>1, <2>2 DEF PlacesApart
<1>20. Merges(b, ds, i + 1, j, k)
  <2>1. over \in Nat /\ over <= bs[j].len /\ j \in {i, j} /\ Len(b) = Len(b)
    BY <1>3, <1>6
  <2>2. PlacesApart(CutAt(bs, j, over)[j], CutAt(bs, j, over)[i])
    BY <1>13, <1>19
  <2>3. Merges(b, CutAt(bs, j, over), i + 1, j, k)
    BY ONLY <1>9, <2>1, <2>2, CutKeeps, Merges(b, bs, i, j, k), i <= Len(bs)
  <2>. QED BY <1>13, <2>3
<1>22. ASSUME NEW a \in Int PROVE GivesUp(b, bs, ds, L, i, j, a)
  <2>1. /\ Covers(bs[i], a) <=> xa <= a /\ a < xa + xl
        /\ Covers(bs[j], a) <=> ya <= a /\ a < ya + yl
    BY <1>3 DEF Covers
  <2>2. Covers(ds[j], a) <=> ya + over <= a /\ a < ya + over + (yl - over)
    BY <1>15, <1>16 DEF Covers
  <2>3. Covers(ds[j], a) <=> Covers(bs[j], a) /\ ~Covers(bs[i], a)
    BY <1>4, <1>6, <2>1, <2>2
  <2>4. \A x \in L : x # j => (Covers(ds[x], a) <=> Covers(bs[x], a))
    BY <1>2, <1>16
  <2>5. ASSUME NEW z \in L, Covers(ds[z], a) PROVE ByteAt(b, ds[z], a) = ByteAt(b, bs[z], a)
    <3>1. CASE z = j
      <4>1. ByteAt(b, ds[z], a) = b[(yp + over) + (a - (ya + over) + 1)]
        BY <1>15, <1>16, <3>1 DEF ByteAt
      <4>2. ByteAt(b, bs[z], a) = b[yp + (a - ya + 1)]
        BY <1>3, <3>1 DEF ByteAt
      <4>3. (yp + over) + (a - (ya + over) + 1) = yp + (a - ya + 1)
        BY <1>6
      <4>. QED BY <4>1, <4>2, <4>3
    <3>2. CASE z # j
      BY <1>2, <1>16, <3>2
    <3>. QED BY <3>1, <3>2
  <2>. QED BY <2>3, <2>4, <2>5 DEF GivesUp
<1>23. SameShown(b, bs, L, b, ds, L)
  <2>. SUFFICES ASSUME NEW a \in Int, NEW v \in Int PROVE Shows(b, bs, L, a, v) <=> Shows(b, ds, L, a, v)
    BY DEF SameShown
  <2>1. GivesUp(b, bs, ds, L, i, j, a)
    BY <1>22
  <2>. QED BY ONLY <1>1, <2>1, GivenUp
<1>. QED BY <1>5, <1>13, <1>20, <1>23 DEF L

\* Blocks that have no address in common: nothing to do
LEMMA ApartTurns ==
  ASSUME NEW b, NEW bs, NEW i, NEW j, NEW k, Merges(b, bs, i, j, k), i <= Len(bs),
         ~Begins(bs[i], bs[j]), ~(bs[i].len # 0 /\ Begins(bs[j], bs[i]))
  PROVE  Merges(b, bs, i + 1, j, k)
<1>1. /\ Len(bs) \in Nat /\ i \in Nat /\ j \in Nat /\ k \in Nat /\ k < j /\ j < i
      /\ j \in 1 .. Len(bs) /\ i \in 1 .. Len(bs) /\ bs[i] \in Block /\ bs[j] \in Block
  BY LiveIs
<1>2. PlacesApart(bs[j], bs[i])
  <2>1. PICK xa \in Int, xl \in Nat, ya \in Int, yl \in Nat :
          xa = bs[i].addr /\ xl = bs[i].len /\ ya = bs[j].addr /\ yl = bs[j].len
    BY <1>1 DEF Block
  <2>2. ~(xl # 0 /\ ya <= xa /\ xa < ya + yl)
    BY <2>1 DEF Begins
  <2>3. ~(xl # 0 /\ yl # 0 /\ xa <= ya /\ ya < xa + xl)
    BY <2>1 DEF Begins
  <2>4. yl = 0 \/ xl = 0 \/ ya + yl <= xa \/ xa + xl <= ya
    BY <2>2, <2>3
  <2>. QED BY <2>1, <2>4 DEF PlacesApart
<1>3. TurnApart(bs, i + 1, j)
  <2>. SUFFICES ASSUME NEW z \in j .. Len(bs), j < z, z < i + 1 PROVE PlacesApart(bs[j], bs[z])
    BY DEF TurnApart
  <2>1. z = i \/ z < i
    BY <1>1
  <2>2. z < i => PlacesApart(bs[j], bs[z])
    BY DEF Merges, TurnApart
  <2>. QED BY <1>2, <2>1, <2>2
<1>4. Turns(bs, i + 1, j, k)
  BY <1>1 DEF Merges, Turns
<1>. QED BY <1>3, <1>4 DEF Merges

\* An empty block is left behind.
LEMMA EmptyTurns ==
  ASSUME NEW b, NEW bs, NEW i, NEW j, NEW k, Merges(b, bs, i, j, k), j <= Len(bs), bs[j].len = 0
  PROVE  /\ Merges(b, bs, j + 2, j + 1, k)
         /\ SameShown(b, bs, Live(bs, j, k), b, bs, Live(bs, j + 1, k))
<1>. DEFINE L == Live(bs, j, k)
            M == Live(bs, j + 1, k)
<1>1. /\ Len(bs) \in Nat /\ i \in Nat /\ j \in Nat /\ k \in Nat /\ k < j /\ j < i /\ j \in 1 .. Len(bs)
  BY LiveIs
<1>2. M \subseteq L /\ L = M \cup {j} /\ j \in L
  <2>1. PICK n \in Nat : n = Len(bs)
    BY <1>1
  <2>. QED BY <1>1, <2>1 DEF Live
<1>3. L \subseteq Int /\ \A x \in L : bs[x] \in Block
  BY LiveIs
<1>4. Turns(bs, j + 2, j + 1, k)
  BY <1>1 DEF Turns
<1>5. TurnApart(bs, j + 2, j + 1)
  <2>1. \A z \in j + 1 .. Len(bs) : ~(j + 1 < z /\ z < j + 2)
    BY <1>1
  <2>. QED BY <2>1 DEF TurnApart
<1>6. LeftBehind(bs, j + 1, k)
  <2>. SUFFICES ASSUME NEW z \in k + 1 .. (j + 1) - 1
                PROVE  bs[z].len = 0 \/ \E x \in 1 .. k : bs[z] = bs[x]
    BY DEF LeftBehind
  <2>1. z = j \/ z \in k + 1 .. j - 1
    BY <1>1
  <2>. QED BY <2>1 DEF Merges, LeftBehind
<1>7. OwnBytes(bs, M)
  BY <1>2 DEF Merges, OwnBytes
<1>8. DoneApart(bs, j + 1, k)
  BY <1>2 DEF Merges, DoneApart
<1>9. Merges(b, bs, j + 2, j + 1, k)
  BY <1>4, <1>5, <1>6, <1>7, <1>8 DEF Merges
<1>10. SameShown(b, bs, L, b, bs, M)
  <2>. SUFFICES ASSUME NEW a \in Int, NEW v \in Int PROVE Shows(b, bs, L, a, v) <=> Shows(b, bs, M, a, v)
    BY DEF SameShown
  <2>1. ~Covers(bs[j], a)
    <3>1. bs[j].addr \in Int
      BY <1>2, <1>3 DEF Block
    <3>. QED BY <3>1 DEF Covers
  <2>. HIDE DEF L, M
  <2>. QED BY <1>2, <2>1 DEF Shows
<1>. QED BY <1>9, <1>10

\* A block that has been compared with all is kept.
LEMMA DoneTurns ==
  ASSUME NEW b, NEW bs, NEW i, NEW j, NEW k, Merges(b, bs, i, j, k), j <= Len(bs), bs[j].len # 0, i > Len(bs)
  PROVE  /\ Merges(b, [bs EXCEPT ![k + 1] = bs[j]], j + 2, j + 1, k + 1)
         /\ SameShown(b, bs, Live(bs, j, k),
                      b, [bs EXCEPT ![k + 1] = bs[j]], Live([bs EXCEPT ![k + 1] = bs[j]], j + 1, k + 1))
<1>1. /\ Len(bs) \in Nat /\ i \in Nat /\ j \in Nat /\ k \in Nat /\ k < j /\ j < i /\ j \in 1 .. Len(bs)
      /\ k + 1 \in 1 .. Len(bs)
  BY LiveIs
<1>2. PICK n \in Nat : n = Len(bs)
  BY <1>1
<1>. DEFINE L == Live(bs, j, k)
<1>3. PICK ds : ds = [bs EXCEPT ![k + 1] = bs[j]]
  OBVIOUS
<1>4. bs \in Seq(Block) /\ b \in Seq(Nat)
  BY DEF Merges, Whole
<1>5. bs[j] \in Block
  BY <1>1, <1>4
<1>6. /\ ds \in Seq(Block) /\ Len(ds) = n /\ ds[k + 1] = bs[j]
      /\ \A x \in 1 .. n : x # k + 1 => ds[x] = bs[x]
  BY <1>1, <1>2, <1>3, <1>4, <1>5
<1>. DEFINE M == Live(ds, j + 1, k + 1)
<1>7. M = (1 .. k + 1) \cup (j + 1 .. n) /\ L = (1 .. k) \cup (j .. n)
  BY <1>2, <1>6 DEF Live
<1>. HIDE DEF L, M
\* where a block comes from
<1>. DEFINE from(x) == IF x = k + 1 THEN j ELSE x
<1>8. ASSUME NEW x \in M
      PROVE  /\ x \in 1 .. n /\ from(x) \in L /\ ds[x] = bs[from(x)] /\ from(x) \in 1 .. n
             /\ x # k + 1 => x <= k \/ j < x
  <2>1. x \in 1 .. n /\ from(x) \in L /\ from(x) \in 1 .. n /\ (x # k + 1 => x <= k \/ j < x)
    BY <1>1, <1>2, <1>7
  <2>. QED BY <1>6, <2>1
<1>9. ASSUME NEW x \in L
      PROVE  x # j => x \in M /\ from(x) = x
  BY <1>1, <1>2, <1>7
<1>10. k + 1 \in M /\ from(k + 1) = j /\ j \in L
  BY <1>1, <1>2, <1>7
<1>11. ASSUME NEW x \in M, NEW y \in M, x < y PROVE from(x) < from(y)
  <2>1. x \in Int /\ y \in Int /\ (x # k + 1 => x <= k \/ j < x) /\ (y # k + 1 => y <= k \/ j < y)
    BY <1>8
  <2>2. CASE x = k + 1
    <3>1. y # k + 1 /\ ~(y <= k)
      BY <1>1, <1>11, <2>1, <2>2
    <3>. QED BY <2>1, <2>2, <3>1
  <2>3. CASE x # k + 1 /\ y = k + 1
    BY <1>1, <1>11, <2>1, <2>3
  <2>4. CASE x # k + 1 /\ y # k + 1
    BY <1>11, <2>4
  <2>. QED BY <2>2, <2>3, <2>4
<1>. HIDE DEF from
<1>12. Whole(b, ds)
  <2>1. \A x \in 1 .. n : Fits(b, bs[x]) /\ bs[x].ref = NoMem
    BY <1>2 DEF Merges, Whole, AllFit
  <2>2. \A x \in 1 .. n : Fits(b, ds[x]) /\ ds[x].ref = NoMem
    BY <1>1, <1>2, <1>6, <2>1
  <2>. QED BY <1>4, <1>6, <2>2 DEF Whole, AllFit
<1>13. Turns(ds, j + 2, j + 1, k + 1)
  BY <1>1, <1>2, <1>6 DEF Turns
<1>14. OwnBytes(ds, M)
  <2>. SUFFICES ASSUME NEW x \in M, NEW y \in M, x < y PROVE BytesApart(ds[x], ds[y])
    BY DEF OwnBytes
  <2>1. BytesApart(bs[from(x)], bs[from(y)])
    BY <1>8, <1>11 DEF Merges, OwnBytes, L
  <2>. QED BY <1>8, <2>1
<1>15. DoneFull(ds, k + 1)
  <2>. SUFFICES ASSUME NEW x \in 1 .. k + 1 PROVE ds[x].len # 0
    BY DEF DoneFull
  <2>1. x # k + 1 => x \in 1 .. k /\ x \in 1 .. n
    BY <1>1, <1>2
  <2>. QED BY <1>6, <2>1 DEF Merges, DoneFull
<1>16. ASSUME NEW x \in 1 .. k, NEW y \in L, x # y PROVE PlacesApart(bs[x], bs[y])
  BY <1>16 DEF Merges, DoneApart, L
<1>17. ASSUME NEW y \in L, y # j PROVE PlacesApart(bs[j], bs[y])
  <2>1. y \in 1 .. k \/ (y \in j .. Len(bs) /\ j < y /\ y < i)
    BY <1>1, <1>2, <1>7, <1>17
  <2>2. CASE y \in 1 .. k
    <3>1. PlacesApart(bs[y], bs[j])
      BY <1>10, <1>16, <1>17, <2>2
    <3>. QED BY <3>1 DEF PlacesApart
  <2>3. CASE y \in j .. Len(bs) /\ j < y /\ y < i
    BY <2>3 DEF Merges, TurnApart
  <2>. QED BY <2>1, <2>2, <2>3
<1>18. DoneApart(ds, j + 1, k + 1)
  <2>. SUFFICES ASSUME NEW x \in 1 .. k + 1, NEW y \in M, x # y PROVE PlacesApart(ds[x], ds[y])
    BY DEF DoneApart, M
  <2>1. x \in M /\ (x \in 1 .. k \/ x = k + 1)
    BY <1>1, <1>7
  <2>2. from(y) \in L /\ ds[y] = bs[from(y)] /\ ds[x] = bs[from(x)] /\ from(x) # from(y)
    <3>1. x \in Int /\ y \in Int /\ (x < y \/ y < x)
      BY <1>8, <2>1
    <3>2. from(x) \in Int /\ from(y) \in Int
      BY <1>8, <2>1
    <3>. QED BY <1>8, <1>11, <2>1, <3>1, <3>2
  <2>3. CASE x \in 1 .. k
    <3>1. x # j /\ x \in L
      BY <1>1, <1>7, <2>3
    <3>2. from(x) = x
      BY <1>9, <3>1
    <3>. QED BY <1>16, <2>2, <2>3, <3>2
  <2>4. CASE x = k + 1
    BY <1>10, <1>17, <2>2, <2>4
  <2>. QED BY <2>1, <2>3, <2>4
<1>19. TurnApart(ds, j + 2, j + 1)
  <2>1. \A z \in j + 1 .. Len(ds) : ~(j + 1 < z /\ z < j + 2)
    BY <1>1, <1>2, <1>6
  <2>. QED BY <2>1 DEF TurnApart
<1>20. LeftBehind(ds, j + 1, k + 1)
  <2>. SUFFICES ASSUME NEW z \in k + 1 + 1 .. (j + 1) - 1
                PROVE  ds[z].len = 0 \/ \E x \in 1 .. k + 1 : ds[z] = ds[x]
    BY DEF LeftBehind
  <2>1. z \in 1 .. n /\ z # k + 1 /\ ds[z] = bs[z] /\ (z = j \/ z \in k + 1 .. j - 1)
    BY <1>1, <1>2, <1>6
  <2>2. CASE z = j
    <3>1. k + 1 \in 1 .. k + 1 /\ ds[z] = ds[k + 1]
      BY <1>1, <1>6, <2>1, <2>2
    <3>. QED BY <3>1
  <2>3. CASE z \in k + 1 .. j - 1
    <3>1. bs[z].len = 0 \/ \E x \in 1 .. k : bs[z] = bs[x]
      BY <2>3 DEF Merges, LeftBehind
    <3>2. \A x \in 1 .. k : x \in 1 .. k + 1 /\ x \in 1 .. n /\ x # k + 1
      BY <1>1, <1>2
    <3>. QED BY <1>6, <2>1, <3>1, <3>2
  <2>. QED BY <2>1, <2>2, <2>3
<1>21. Merges(b, ds, j + 2, j + 1, k + 1)
  BY <1>12, <1>13, <1>14, <1>15, <1>18, <1>19, <1>20 DEF Merges, M
<1>22. SameShown(b, bs, L, b, ds, M)
  <2>. SUFFICES ASSUME NEW a \in Int, NEW v \in Int PROVE Shows(b, bs, L, a, v) <=> Shows(b, ds, M, a, v)
    BY DEF SameShown
  <2>1. ASSUME Shows(b, bs, L, a, v) PROVE Shows(b, ds, M, a, v)
    <3>1. PICK x \in L : /\ Covers(bs[x], a) /\ ByteAt(b, bs[x], a) = v
                         /\ \A l \in L : l > x => ~Covers(bs[l], a)
      BY <2>1 DEF Shows
    <3>2. PICK y \in M : from(y) = x
      BY <1>9, <1>10
    <3>3. Covers(ds[y], a) /\ ByteAt(b, ds[y], a) = v
      BY <1>8, <3>1, <3>2
    <3>4. ASSUME NEW l \in M, l > y PROVE ~Covers(ds[l], a)
      <4>1. y < l /\ y \in Int /\ l \in Int
        BY <1>8, <3>4
      <4>2. from(y) < from(l) /\ from(l) \in L /\ from(y) \in Int /\ from(l) \in Int
        BY <1>8, <1>11, <4>1
      <4>3. from(l) > x
        BY <3>2, <4>2
      <4>. QED BY <1>8, <3>1, <4>2, <4>3
    <3>. QED BY <3>3, <3>4 DEF Shows
  <2>2. ASSUME Shows(b, ds, M, a, v) PROVE Shows(b, bs, L, a, v)
    <3>1. PICK y \in M : /\ Covers(ds[y], a) /\ ByteAt(b, ds[y], a) = v
                         /\ \A l \in M : l > y => ~Covers(ds[l], a)
      BY <2>2 DEF Shows
    <3>2. PICK x \in L : x = from(y)
      BY <1>8
    <3>3. Covers(bs[x], a) /\ ByteAt(b, bs[x], a) = v
      BY <1>8, <3>1, <3>2
    <3>4. ASSUME NEW l \in L, l > x PROVE ~Covers(bs[l], a)
      <4>1. PICK z \in M : from(z) = l
        BY <1>9, <1>10
      <4>2. z \in Int /\ y \in Int /\ x \in Int /\ l \in Int
        BY <1>8, <3>2, <4>1
      <4>3. z > y
        <5>1. ~(z < y)
          <6>1. z < y => from(z) < from(y)
            BY <1>11
          <6>. QED BY <3>2, <3>4, <4>1, <4>2, <6>1
        <5>2. z # y
          BY <3>2, <3>4, <4>1, <4>2
        <5>. QED BY <4>2, <5>1, <5>2
      <4>. QED BY <1>8, <3>1, <4>1, <4>3
    <3>. QED BY <3>3, <3>4 DEF Shows
  <2>. QED BY <2>1, <2>2
<1>. QED BY <1>3, <1>21, <1>22 DEF L, M

Neat(bs) ==
  \A y \in 1 .. Len(bs) :
    bs[y].len # 0 /\ \A x \in 1 .. Len(bs) : x < y => bs[x].addr + bs[x].len <= bs[y].addr

\* At first all blocks are to be compared.
LEMMA FirstTurn ==
  ASSUME NEW b, NEW bs, Whole(b, bs), OwnBytes(bs, 1 .. Len(bs)), Len(bs) >= 1
  PROVE  Merges(b, bs, 2, 1, 0) /\ Live(bs, 1, 0) = 1 .. Len(bs)
<1>1. PICK n \in Nat : n = Len(bs)
  BY DEF Whole
<1>2. Live(bs, 1, 0) = 1 .. Len(bs)
  BY <1>1 DEF Live
<1>3. Turns(bs, 2, 1, 0)
  BY <1>1 DEF Turns
<1>4. 1 .. 0 = {} /\ 0 + 1 .. 1 - 1 = {}
  OBVIOUS
<1>5. DoneFull(bs, 0) /\ DoneApart(bs, 1, 0) /\ LeftBehind(bs, 1, 0)
  BY <1>4 DEF DoneFull, DoneApart, LeftBehind
<1>6. TurnApart(bs, 2, 1)
  <2>1. \A z \in 1 .. Len(bs) : ~(1 < z /\ z < 2)
    BY <1>1
  <2>. QED BY <2>1 DEF TurnApart
<1>. QED BY <1>2, <1>3, <1>5, <1>6 DEF Merges

\* What is left behind changes nothing: the list with it has the same image.
LEMMA RawShown ==
  ASSUME NEW b, NEW bs, NEW i, NEW j, NEW k, Merges(b, bs, i, j, k)
  PROVE  SameShown(b, bs, 1 .. Len(bs), b, bs, Live(bs, j, k))
<1>. DEFINE L == Live(bs, j, k)
<1>1. PICK n \in Nat : n = Len(bs)
  BY LiveIs
<1>2. k \in Nat /\ j \in Nat /\ k < j /\ j <= n + 1
  BY <1>1 DEF Merges, Turns
<1>3. \A x \in L : x \in 1 .. n /\ bs[x] \in Block
  BY <1>1, LiveIs
<1>4. \A x \in 1 .. k : x \in L
  BY LiveIs
<1>5. \A x \in 1 .. n : bs[x] \in Block
  BY <1>1 DEF Merges, Whole
<1>. SUFFICES ASSUME NEW a \in Int, NEW v \in Int
              PROVE  Shows(b, bs, 1 .. n, a, v) <=> Shows(b, bs, L, a, v)
  BY <1>1 DEF SameShown
<1>6. ASSUME NEW x \in 1 .. n, Covers(bs[x], a), x \notin L
      PROVE  \E z \in 1 .. k : bs[x] = bs[z]
  <2>1. x \in k + 1 .. j - 1
    BY <1>1, <1>2, <1>6 DEF Live
  <2>2. bs[x].len # 0
    <3>1. bs[x].addr \in Int
      BY <1>5 DEF Block
    <3>. QED BY <1>6, <3>1 DEF Covers
  <2>. QED BY <2>1, <2>2 DEF Merges, LeftBehind
<1>7. ASSUME NEW z \in 1 .. k, Covers(bs[z], a), NEW y \in L, Covers(bs[y], a)
      PROVE  y = z
  <2>1. SUFFICES ASSUME z # y PROVE FALSE
    OBVIOUS
  <2>2. PlacesApart(bs[z], bs[y])
    BY <2>1 DEF Merges, DoneApart
  <2>3. bs[z] \in Block /\ bs[y] \in Block
    BY <1>3, <1>4
  <2>. QED BY <1>7, <2>2, <2>3, ApartShares
<1>. HIDE DEF L
<1>8. ASSUME Shows(b, bs, 1 .. n, a, v) PROVE Shows(b, bs, L, a, v)
  <2>1. PICK x \in 1 .. n : /\ Covers(bs[x], a) /\ ByteAt(b, bs[x], a) = v
                            /\ \A l \in 1 .. n : l > x => ~Covers(bs[l], a)
    BY <1>8 DEF Shows
  <2>2. CASE x \in L
    BY <1>3, <2>1, <2>2 DEF Shows
  <2>3. CASE x \notin L
    <3>1. PICK z \in 1 .. k : bs[x] = bs[z]
      BY <1>6, <2>1, <2>3
    <3>2. z \in L /\ Covers(bs[z], a) /\ ByteAt(b, bs[z], a) = v
      BY <1>4, <2>1, <3>1
    <3>3. \A l \in L : l > z => ~Covers(bs[l], a)
      BY <1>7, <3>2
    <3>. QED BY <3>2, <3>3 DEF Shows
  <2>. QED BY <2>2, <2>3
<1>9. ASSUME Shows(b, bs, L, a, v) PROVE Shows(b, bs, 1 .. n, a, v)
  <2>1. PICK x \in L : /\ Covers(bs[x], a) /\ ByteAt(b, bs[x], a) = v
                       /\ \A l \in L : l > x => ~Covers(bs[l], a)
    BY <1>9 DEF Shows
  <2>. DEFINE C == {l \in 1 .. n : Covers(bs[l], a)}
  <2>2. C \in SUBSET (1 .. n) /\ C # {} /\ x \in C
    BY <1>3, <2>1
  <2>3. PICK m \in C : \A y \in C : y <= m
    BY ONLY <2>2, <1>1, Largest
  <2>4. m \in 1 .. n /\ Covers(bs[m], a) /\ x <= m
    BY <2>2, <2>3
  <2>5. \A l \in 1 .. n : l > m => ~Covers(bs[l], a)
    <3>1. \A l \in 1 .. n : Covers(bs[l], a) => l <= m
      BY <2>3
    <3>. QED BY <2>4, <3>1
  <2>6. ByteAt(b, bs[m], a) = v
    <3>1. CASE m \in L
      <4>1. ~(m > x) /\ m \in Int /\ x \in Int
        BY <1>3, <2>1, <2>4, <3>1
      <4>2. m = x
        BY <2>4, <4>1
      <4>. QED BY <2>1, <4>2
    <3>2. CASE m \notin L
      <4>1. PICK z \in 1 .. k : bs[m] = bs[z]
        BY <1>6, <2>4, <3>2
      <4>2. x = z
        BY <1>7, <2>1, <2>4, <4>1
      <4>. QED BY <2>1, <4>1, <4>2
    <3>. QED BY <3>1, <3>2
  <2>. QED BY <2>4, <2>5, <2>6 DEF Shows
<1>. QED BY <1>8, <1>9

\* The blocks that are done, sorted
LEMMA LastTurn ==
  ASSUME NEW b, NEW bs, NEW i, NEW j, NEW k, Merges(b, bs, i, j, k), j > Len(bs),
         NEW ds \in Orders(SubSeq(bs, 1, k))
  PROVE  /\ Whole(b, ds) /\ Neat(ds)
         /\ SameShown(b, bs, Live(bs, j, k), b, ds, 1 .. Len(ds))
<1>1. /\ Len(bs) \in Nat /\ j \in Nat /\ k \in Nat /\ k < j /\ j = Len(bs) + 1
      /\ bs \in Seq(Block) /\ b \in Seq(Nat)
  BY DEF Merges, Turns, Whole
<1>2. PICK Q : Q = SubSeq(bs, 1, k)
  OBVIOUS
<1>3. Q \in Seq(Block) /\ Len(Q) = k /\ DOMAIN Q = 1 .. k /\ \A x \in 1 .. k : Q[x] = bs[x] /\ x \in 1 .. Len(bs)
  <2>1. \A x \in 1 .. k : x \in 1 .. Len(bs)
    BY <1>1
  <2>2. \A x \in 1 .. k : bs[x] \in Block
    BY <1>1, <2>1
  <2>3. k \in Int /\ 1 \in Int /\ \A x \in 1 .. k : 1 + x - 1 = x
    BY <1>1
  <2>4. /\ Q \in Seq(Block) /\ Len(Q) = IF 1 <= k THEN k - 1 + 1 ELSE 0
        /\ \A x \in 1 .. k - 1 + 1 : Q[x] = bs[1 + x - 1]
    BY ONLY <1>2, <2>2, <2>3, SubSeqProperties
  <2>5. Len(Q) = k
    BY <1>1, <2>4
  <2>6. \A x \in 1 .. k : Q[x] = bs[x]
    <3>. SUFFICES ASSUME NEW x \in 1 .. k PROVE Q[x] = bs[x]
      OBVIOUS
    <3>1. x \in 1 .. k - 1 + 1 /\ 1 + x - 1 = x
      BY <1>1
    <3>. QED BY <2>4, <3>1
  <2>. QED BY <2>1, <2>4, <2>5, <2>6
<1>4. PICK o \in Bijection(1 .. k, 1 .. k) :
        /\ \A x, y \in 1 .. k : x < y => Q[o[x]].addr <= Q[o[y]].addr
        /\ ds = [x \in 1 .. k |-> Q[o[x]]]
  BY <1>2, <1>3 DEF Orders
<1>5. /\ o \in [1 .. k -> 1 .. k]
      /\ \A x, y \in 1 .. k : o[x] = o[y] => x = y
      /\ \A y \in 1 .. k : \E x \in 1 .. k : o[x] = y
  BY DEF Bijection, Injection, Surjection, IsInjective
<1>6. /\ ds \in Seq(Block) /\ Len(ds) = k
      /\ \A x \in 1 .. k : o[x] \in 1 .. k /\ ds[x] = bs[o[x]] /\ ds[x] \in Block
  <2>1. \A x \in 1 .. k : o[x] \in 1 .. k /\ Q[o[x]] \in Block /\ Q[o[x]] = bs[o[x]]
    BY <1>3, <1>5
  <2>2. ds \in [1 .. k -> Block]
    BY <1>4, <2>1
  <2>3. ds \in Seq(Block)
    BY <1>1, <2>2
  <2>. QED BY <1>1, <1>4, <2>1, <2>2, <2>3
<1>7. \A x \in 1 .. k : x \in Live(bs, j, k)
  BY LiveIs
<1>8. \A x, y \in 1 .. k : x # y => PlacesApart(bs[x], bs[y])
  BY <1>7 DEF Merges, DoneApart
<1>9. \A x \in 1 .. k : bs[x].len # 0
  BY DEF Merges, DoneFull
<1>10. Whole(b, ds)
  <2>1. \A x \in 1 .. Len(bs) : Fits(b, bs[x]) /\ bs[x].ref = NoMem
    BY DEF Merges, Whole, AllFit
  <2>2. ASSUME NEW x \in 1 .. k PROVE Fits(b, ds[x]) /\ ds[x].ref = NoMem
    <3>1. o[x] \in 1 .. k /\ ds[x] = bs[o[x]]
      BY <1>6
    <3>2. o[x] \in 1 .. Len(bs)
      BY <1>3, <3>1
    <3>. QED BY <2>1, <3>1, <3>2
  <2>. QED BY <1>1, <1>6, <2>2 DEF Whole, AllFit
<1>11. Neat(ds)
  <2>. SUFFICES ASSUME NEW y \in 1 .. k, NEW x \in 1 .. k, x < y
                PROVE  ds[x].addr + ds[x].len <= ds[y].addr
    BY <1>6, <1>9 DEF Neat
  <2>1. o[x] # o[y]
    BY <1>5
  <2>2. PlacesApart(ds[x], ds[y]) /\ ds[x].len # 0 /\ ds[y].len # 0
    BY <1>6, <1>8, <1>9, <2>1
  <2>3. ds[x].addr <= ds[y].addr
    BY <1>4
  <2>4. ds[x].addr \in Int /\ ds[x].len \in Nat /\ ds[y].addr \in Int /\ ds[y].len \in Nat
    BY <1>6 DEF Block
  <2>. QED BY <2>2, <2>3, <2>4 DEF PlacesApart
<1>12. Live(bs, j, k) = 1 .. k
  BY <1>1 DEF Live
<1>13. SameShown(b, bs, 1 .. k, b, ds, 1 .. k)
  <2>. SUFFICES ASSUME NEW a \in Int, NEW v \in Int
                PROVE  Shows(b, bs, 1 .. k, a, v) <=> Shows(b, ds, 1 .. k, a, v)
    BY DEF SameShown
  <2>1. \A x, y \in 1 .. k : x # y => ~(Covers(bs[x], a) /\ Covers(bs[y], a))
    <3>1. \A x \in 1 .. k : bs[x] \in Block
      BY <1>1, <1>3
    <3>. QED BY <1>8, <3>1, ApartShares
  <2>2. \A x, y \in 1 .. k : x # y => ~(Covers(ds[x], a) /\ Covers(ds[y], a))
    <3>. SUFFICES ASSUME NEW x \in 1 .. k, NEW y \in 1 .. k, x # y
                  PROVE  ~(Covers(ds[x], a) /\ Covers(ds[y], a))
      OBVIOUS
    <3>1. o[x] \in 1 .. k /\ o[y] \in 1 .. k /\ o[x] # o[y] /\ ds[x] = bs[o[x]] /\ ds[y] = bs[o[y]]
      BY <1>5, <1>6
    <3>. QED BY <2>1, <3>1
  <2>3. \A x, y \in 1 .. k : x > y => x # y
    OBVIOUS
  <2>4. Shows(b, bs, 1 .. k, a, v) <=> \E x \in 1 .. k : Covers(bs[x], a) /\ ByteAt(b, bs[x], a) = v
    BY <2>1, <2>3 DEF Shows
  <2>5. Shows(b, ds, 1 .. k, a, v) <=> \E x \in 1 .. k : Covers(ds[x], a) /\ ByteAt(b, ds[x], a) = v
    BY <2>2, <2>3 DEF Shows
  <2>6. (\E x \in 1 .. k : Covers(bs[x], a) /\ ByteAt(b, bs[x], a) = v)
          <=> \E x \in 1 .. k : Covers(ds[x], a) /\ ByteAt(b, ds[x], a) = v
    <3>1. ASSUME NEW x \in 1 .. k, Covers(bs[x], a), ByteAt(b, bs[x], a) = v
          PROVE  \E y \in 1 .. k : Covers(ds[y], a) /\ ByteAt(b, ds[y], a) = v
      <4>1. PICK y \in 1 .. k : o[y] = x
        BY <1>5
      <4>2. ds[y] = bs[x]
        BY <1>6, <4>1
      <4>. QED BY <3>1, <4>2
    <3>2. ASSUME NEW x \in 1 .. k, Covers(ds[x], a), ByteAt(b, ds[x], a) = v
          PROVE  \E y \in 1 .. k : Covers(bs[y], a) /\ ByteAt(b, bs[y], a) = v
      <4>1. o[x] \in 1 .. k /\ ds[x] = bs[o[x]]
        BY <1>6
      <4>. QED BY <3>2, <4>1
    <3>. QED BY <3>1, <3>2
  <2>. QED BY <2>4, <2>5, <2>6
<1>. QED BY <1>6, <1>10, <1>11, <1>12, <1>13

\* The list without what is left behind
LEMMA LiveShown ==
  ASSUME NEW b, NEW bs, NEW i, NEW j, NEW k, Merges(b, bs, i, j, k), NEW q,
         q = SubSeq(bs, 1, k) \o SubSeq(bs, j, Len(bs))
  PROVE  Whole(b, q) /\ SameShown(b, q, 1 .. Len(q), b, bs, Live(bs, j, k))
<1>1. PICK n \in Nat : n = Len(bs)
  BY LiveIs
<1>2. j \in Nat /\ k \in Nat /\ k < j /\ j <= n + 1 /\ bs \in Seq(Block) /\ b \in Seq(Nat)
  BY <1>1 DEF Merges, Turns, Whole
<1>3. PICK s : s = SubSeq(bs, 1, k)
  OBVIOUS
<1>4. PICK t : t = SubSeq(bs, j, n)
  OBVIOUS
<1>5. s \in Seq(Block) /\ Len(s) = k /\ \A x \in 1 .. k : s[x] = bs[x]
  <2>2. \A x \in 1 .. k : bs[x] \in Block
    BY <1>1, <1>2
  <2>3. k \in Int /\ 1 \in Int
    BY <1>2
  <2>4. /\ s \in Seq(Block) /\ Len(s) = IF 1 <= k THEN k - 1 + 1 ELSE 0
        /\ \A x \in 1 .. k - 1 + 1 : s[x] = bs[1 + x - 1]
    BY ONLY <1>3, <2>2, <2>3, SubSeqProperties
  <2>5. Len(s) = k
    BY <1>2, <2>4
  <2>6. \A x \in 1 .. k : x \in 1 .. k - 1 + 1 /\ 1 + x - 1 = x
    BY <1>2
  <2>. QED BY <2>4, <2>5, <2>6
<1>6. t \in Seq(Block) /\ Len(t) = n - j + 1 /\ \A x \in 1 .. n - j + 1 : t[x] = bs[j + x - 1]
  <2>2. \A x \in j .. n : bs[x] \in Block
    BY <1>1, <1>2
  <2>3. j \in Int /\ n \in Int
    BY <1>2
  <2>4. /\ t \in Seq(Block) /\ Len(t) = IF j <= n THEN n - j + 1 ELSE 0
        /\ \A x \in 1 .. n - j + 1 : t[x] = bs[j + x - 1]
    BY ONLY <1>4, <2>2, <2>3, SubSeqProperties
  <2>5. Len(t) = n - j + 1
    BY <1>2, <2>4
  <2>. QED BY <2>4, <2>5
<1>7. PICK m \in Nat : m = n - j + 1
  BY <1>2
<1>8. q \in Seq(Block) /\ Len(q) = k + m /\ \A x \in 1 .. k + m : q[x] = IF x <= k THEN s[x] ELSE t[x - k]
  <2>1. q = s \o t /\ Len(t) = m
    BY <1>1, <1>3, <1>4, <1>6, <1>7
  <2>2. /\ s \o t \in Seq(Block) /\ Len(s \o t) = Len(s) + Len(t)
        /\ \A x \in 1 .. Len(s) + Len(t) : (s \o t)[x] = IF x <= Len(s) THEN s[x] ELSE t[x - Len(s)]
    BY <1>5, <1>6, ConcatProperties
  <2>. QED BY ONLY <2>1, <2>2, <1>5
<1>. DEFINE from(x) == IF x <= k THEN x ELSE x - k + j - 1
            L == Live(bs, j, k)
<1>9. L = (1 .. k) \cup (j .. n)
  BY <1>1 DEF Live
<1>10. ASSUME NEW x \in 1 .. k + m PROVE from(x) \in L /\ from(x) \in 1 .. n /\ q[x] = bs[from(x)]
  <2>1. CASE x <= k
    <3>1. x \in 1 .. k /\ from(x) = x /\ x \in 1 .. n
      BY <1>2, <1>7, <2>1
    <3>. QED BY <1>5, <1>8, <1>9, <3>1
  <2>2. CASE ~(x <= k)
    <3>1. x - k \in 1 .. n - j + 1 /\ from(x) = j + (x - k) - 1 /\ from(x) \in j .. n /\ from(x) \in 1 .. n
      BY <1>2, <1>7, <2>2
    <3>. QED BY <1>6, <1>8, <1>9, <2>2, <3>1
  <2>. QED BY <2>1, <2>2
<1>11. ASSUME NEW y \in L PROVE \E x \in 1 .. k + m : from(x) = y
  <2>1. CASE y \in 1 .. k
    <3>1. y \in 1 .. k + m /\ from(y) = y
      BY <1>2, <1>7, <2>1
    <3>. QED BY <3>1
  <2>2. CASE y \in j .. n
    <3>1. y - j + 1 + k \in 1 .. k + m /\ from(y - j + 1 + k) = y
      BY <1>2, <1>7, <2>2
    <3>. QED BY <3>1
  <2>. QED BY <1>9, <2>1, <2>2
<1>12. ASSUME NEW x \in 1 .. k + m, NEW y \in 1 .. k + m PROVE x < y <=> from(x) < from(y)
  BY <1>2, <1>7
<1>. HIDE DEF from, L
<1>13. Whole(b, q)
  <2>1. \A x \in 1 .. n : Fits(b, bs[x]) /\ bs[x].ref = NoMem
    BY <1>1 DEF Merges, Whole, AllFit
  <2>. QED BY <1>2, <1>8, <1>10, <2>1 DEF Whole, AllFit
<1>14. SameShown(b, q, 1 .. k + m, b, bs, L)
  <2>. SUFFICES ASSUME NEW a \in Int, NEW v \in Int
                PROVE  Shows(b, q, 1 .. k + m, a, v) <=> Shows(b, bs, L, a, v)
    BY DEF SameShown
  <2>1. ASSUME Shows(b, q, 1 .. k + m, a, v) PROVE Shows(b, bs, L, a, v)
    <3>1. PICK x \in 1 .. k + m : /\ Covers(q[x], a) /\ ByteAt(b, q[x], a) = v
                                  /\ \A l \in 1 .. k + m : l > x => ~Covers(q[l], a)
      BY <2>1 DEF Shows
    <3>2. PICK y \in L : y = from(x)
      BY <1>10
    <3>3. ASSUME NEW l \in L, l > y PROVE ~Covers(bs[l], a)
      <4>1. PICK z \in 1 .. k + m : from(z) = l
        BY <1>11
      <4>2. from(x) < from(z)
        BY <1>10, <3>2, <3>3, <4>1
      <4>3. z > x
        BY <1>12, <4>2
      <4>. QED BY <1>10, <3>1, <4>1, <4>3
    <3>. QED BY <1>10, <3>1, <3>2, <3>3 DEF Shows
  <2>2. ASSUME Shows(b, bs, L, a, v) PROVE Shows(b, q, 1 .. k + m, a, v)
    <3>1. PICK y \in L : /\ Covers(bs[y], a) /\ ByteAt(b, bs[y], a) = v
                         /\ \A l \in L : l > y => ~Covers(bs[l], a)
      BY <2>2 DEF Shows
    <3>2. PICK x \in 1 .. k + m : from(x) = y
      BY <1>11
    <3>3. ASSUME NEW l \in 1 .. k + m, l > x PROVE ~Covers(q[l], a)
      <4>1. from(x) < from(l) /\ from(l) \in L /\ from(l) \in Int /\ from(x) \in Int
        BY <1>10, <1>12, <3>3
      <4>2. from(l) > y
        BY <3>2, <4>1
      <4>. QED BY <1>10, <3>1, <4>1, <4>2
    <3>. QED BY <1>10, <3>1, <3>2, <3>3 DEF Shows
  <2>. QED BY <2>1, <2>2
<1>. QED BY <1>8, <1>13, <1>14 DEF L

(***************************************************************************)
(* Putting the blocks of the section in its place.                         *)
(***************************************************************************)
Instead(P, j, C) == SubSeq(P, 1, j - 1) \o C \o SubSeq(P, j + 1, Len(P))
InsteadAt(P, j, C, R) ==
  /\ Len(R) = Len(P) - 1 + Len(C)
  /\ \A x \in 1 .. Len(R) : /\ x < j => R[x] = P[x]
                            /\ j <= x /\ x < j + Len(C) => R[x] = C[x - j + 1]
                            /\ j + Len(C) <= x => R[x] = P[x - Len(C) + 1]

\* A part of a sequence.
LEMMA PartOf ==
  ASSUME NEW S, NEW P \in Seq(S), NEW l \in Nat, NEW h \in Nat, 1 <= l, h <= Len(P), l <= h + 1
  PROVE  /\ SubSeq(P, l, h) \in Seq(S) /\ Len(SubSeq(P, l, h)) = h - l + 1
         /\ \A x \in 1 .. h - l + 1 : SubSeq(P, l, h)[x] = P[l + x - 1]
<1>1. \A x \in l .. h : P[x] \in S
  <2>. SUFFICES ASSUME NEW x \in l .. h PROVE P[x] \in S
    OBVIOUS
  <2>1. x \in 1 .. Len(P)
    OBVIOUS
  <2>. QED BY <2>1
<1>2. l \in Int /\ h \in Int
  OBVIOUS
<1>3. /\ SubSeq(P, l, h) \in Seq(S) /\ Len(SubSeq(P, l, h)) = IF l <= h THEN h - l + 1 ELSE 0
      /\ \A x \in 1 .. h - l + 1 : SubSeq(P, l, h)[x] = P[l + x - 1]
  BY ONLY <1>1, <1>2, SubSeqProperties
<1>4. Len(SubSeq(P, l, h)) = h - l + 1
  BY <1>3
<1>. QED BY <1>3, <1>4

\* Putting a sequence in the place of an element: where each element comes from.
LEMMA InsteadIs ==
  ASSUME NEW S, NEW P \in Seq(S), NEW C \in Seq(S), NEW j \in 1 .. Len(P)
  PROVE  Instead(P, j, C) \in Seq(S) /\ InsteadAt(P, j, C, Instead(P, j, C))
<1>1. PICK n \in Nat, m \in Nat : n = Len(P) /\ m = Len(C)
  OBVIOUS
<1>2. j \in Nat /\ 1 <= j /\ j <= n
  BY <1>1
<1>3. PICK A : A = SubSeq(P, 1, j - 1)
  OBVIOUS
<1>4. PICK B : B = SubSeq(P, j + 1, n)
  OBVIOUS
<1>5. A \in Seq(S) /\ Len(A) = j - 1 /\ \A x \in 1 .. j - 1 : A[x] = P[x]
  <2>1. j - 1 \in Nat /\ 1 \in Nat /\ 1 <= 1 /\ j - 1 <= Len(P) /\ 1 <= (j - 1) + 1
    BY <1>1, <1>2
  <2>2. /\ A \in Seq(S) /\ Len(A) = (j - 1) - 1 + 1
        /\ \A x \in 1 .. (j - 1) - 1 + 1 : A[x] = P[1 + x - 1]
    BY ONLY <1>3, <2>1, PartOf, P \in Seq(S)
  <2>3. (j - 1) - 1 + 1 = j - 1 /\ \A x \in 1 .. j - 1 : 1 + x - 1 = x
    BY <1>2
  <2>. QED BY <2>2, <2>3
<1>6. B \in Seq(S) /\ Len(B) = n - j /\ \A x \in 1 .. n - j : B[x] = P[j + x]
  <2>1. j + 1 \in Nat /\ n \in Nat /\ 1 <= j + 1 /\ n <= Len(P) /\ j + 1 <= n + 1
    BY <1>1, <1>2
  <2>2. /\ B \in Seq(S) /\ Len(B) = n - (j + 1) + 1
        /\ \A x \in 1 .. n - (j + 1) + 1 : B[x] = P[(j + 1) + x - 1]
    BY ONLY <1>4, <2>1, PartOf, P \in Seq(S)
  <2>3. n - (j + 1) + 1 = n - j /\ \A x \in 1 .. n - j : (j + 1) + x - 1 = j + x
    BY <1>1, <1>2
  <2>. QED BY <2>2, <2>3
<1>7. PICK R : R = A \o C \o B
  OBVIOUS
<1>8. /\ A \o C \in Seq(S) /\ Len(A \o C) = j - 1 + m
      /\ \A x \in 1 .. j - 1 + m : (A \o C)[x] = IF x <= j - 1 THEN A[x] ELSE C[x - (j - 1)]
  <2>1. /\ A \o C \in Seq(S) /\ Len(A \o C) = Len(A) + Len(C)
        /\ \A x \in 1 .. Len(A) + Len(C) : (A \o C)[x] = IF x <= Len(A) THEN A[x] ELSE C[x - Len(A)]
    BY <1>5, ConcatProperties
  <2>. QED BY ONLY <1>1, <1>5, <2>1
<1>9. /\ R \in Seq(S) /\ Len(R) = (j - 1 + m) + (n - j)
      /\ \A x \in 1 .. (j - 1 + m) + (n - j) : R[x] = IF x <= j - 1 + m THEN (A \o C)[x] ELSE B[x - (j - 1 + m)]
  <2>1. /\ R \in Seq(S) /\ Len(R) = Len(A \o C) + Len(B)
        /\ \A x \in 1 .. Len(A \o C) + Len(B) :
             R[x] = IF x <= Len(A \o C) THEN (A \o C)[x] ELSE B[x - Len(A \o C)]
    <3>1. PICK D \in Seq(S) : D = A \o C
      BY ONLY <1>8
    <3>2. R = D \o B
      BY ONLY <1>7, <3>1
    <3>3. PICK E \in Seq(S) : E = B
      BY ONLY <1>6
    <3>4. /\ D \o E \in Seq(S) /\ Len(D \o E) = Len(D) + Len(E)
          /\ \A x \in 1 .. Len(D) + Len(E) : (D \o E)[x] = IF x <= Len(D) THEN D[x] ELSE E[x - Len(D)]
      BY ONLY D \in Seq(S), E \in Seq(S), ConcatProperties
    <3>. QED BY ONLY <3>1, <3>2, <3>3, <3>4
  <2>. QED BY ONLY <1>6, <1>8, <2>1
<1>10. Len(R) = n - 1 + m
  BY <1>1, <1>2, <1>9
<1>11. ASSUME NEW x \in 1 .. n - 1 + m
       PROVE  /\ x < j => R[x] = P[x]
              /\ j <= x /\ x < j + m => R[x] = C[x - j + 1]
              /\ j + m <= x => R[x] = P[x - m + 1]
  <2>0. x \in 1 .. (j - 1 + m) + (n - j) /\ x \in Nat
    BY <1>1, <1>2
  <2>1. CASE x < j
    <3>1. x <= j - 1 /\ x <= j - 1 + m /\ x \in 1 .. j - 1 + m /\ x \in 1 .. j - 1
      BY <1>1, <1>2, <2>1
    <3>2. R[x] = P[x]
      BY <1>5, <1>8, <1>9, <2>0, <3>1
    <3>. QED BY <1>1, <1>2, <2>1, <3>2
  <2>2. CASE j <= x /\ x < j + m
    <3>1. ~(x <= j - 1) /\ x <= j - 1 + m /\ x \in 1 .. j - 1 + m /\ x - (j - 1) = x - j + 1
      BY <1>1, <1>2, <2>2
    <3>2. R[x] = C[x - j + 1]
      BY <1>8, <1>9, <2>0, <3>1
    <3>. QED BY <1>1, <1>2, <2>2, <3>2
  <2>3. CASE j + m <= x
    <3>1. ~(x <= j - 1 + m) /\ x - (j - 1 + m) \in 1 .. n - j /\ j + (x - (j - 1 + m)) = x - m + 1
      BY <1>1, <1>2, <2>3
    <3>2. R[x] = P[x - m + 1]
      BY <1>6, <1>9, <2>0, <3>1
    <3>. QED BY <1>1, <1>2, <2>3, <3>2
  <2>. QED BY <1>1, <1>2, <2>1, <2>2, <2>3
<1>12. InsteadAt(P, j, C, R)
  BY <1>1, <1>10, <1>11 DEF InsteadAt
<1>13. R = Instead(P, j, C)
  BY <1>1, <1>3, <1>4, <1>7 DEF Instead
<1>. QED BY <1>9, <1>12, <1>13

\* There is one sequence like that.
LEMMA InsteadOnly ==
  ASSUME NEW S, NEW P \in Seq(S), NEW C \in Seq(S), NEW j \in 1 .. Len(P), NEW R \in Seq(S),
         InsteadAt(P, j, C, R)
  PROVE  R = Instead(P, j, C)
<1>1. PICK Q : Q = Instead(P, j, C)
  OBVIOUS
<1>2. Q \in Seq(S) /\ InsteadAt(P, j, C, Q)
  BY <1>1, InsteadIs
<1>3. Len(R) = Len(Q)
  BY <1>2 DEF InsteadAt
<1>4. \A x \in 1 .. Len(R) : R[x] = Q[x]
  <2>. SUFFICES ASSUME NEW x \in 1 .. Len(R) PROVE R[x] = Q[x]
    OBVIOUS
  <2>1. x \in Int /\ j \in Int /\ Len(C) \in Nat
    OBVIOUS
  <2>2. x < j \/ (j <= x /\ x < j + Len(C)) \/ j + Len(C) <= x
    BY <2>1
  <2>3. x \in 1 .. Len(Q)
    BY <1>3
  <2>. QED BY <1>2, <2>2, <2>3 DEF InsteadAt
<1>5. R = Q
  BY ONLY <1>2, <1>3, <1>4, SeqEqual, R \in Seq(S)
<1>. QED BY <1>1, <1>5

\* Pieces in the place of what they make together make the same.
LEMMA JoinedInstead ==
  ASSUME NEW P \in Pieces, NEW C \in Pieces, NEW j \in 1 .. Len(P), P[j] = Joined(C)
  PROVE  Joined(Instead(P, j, C)) = Joined(P)
<1>1. PICK n \in Nat : n = Len(P)
  BY DEF Pieces
<1>2. PICK x : x = P[j]
  OBVIOUS
<1>3. PICK A : A = SubSeq(P, 1, j - 1)
  OBVIOUS
<1>4. PICK B : B = SubSeq(P, j + 1, n)
  OBVIOUS
<1>5. PICK S : S = Seq(Places)
  OBVIOUS
<1>6. P \in Seq(S) /\ C \in Seq(S) /\ x \in S
  BY <1>2, <1>5 DEF Pieces
<1>7. j \in Nat /\ 1 <= j /\ j <= n
  BY <1>1
<1>8. A \in Seq(S) /\ B \in Seq(S)
  <2>1. j - 1 \in Nat /\ 1 \in Nat /\ 1 <= 1 /\ j - 1 <= Len(P) /\ 1 <= (j - 1) + 1
    BY <1>1, <1>7
  <2>2. j + 1 \in Nat /\ n \in Nat /\ 1 <= j + 1 /\ n <= Len(P) /\ j + 1 <= n + 1
    BY <1>1, <1>7
  <2>3. A \in Seq(S)
    BY ONLY <1>3, <1>6, <2>1, PartOf
  <2>4. B \in Seq(S)
    BY ONLY <1>4, <1>6, <2>2, PartOf
  <2>. QED BY <2>3, <2>4
<1>9. A \in Pieces /\ B \in Pieces
  BY <1>5, <1>8 DEF Pieces
<1>10. P = (A \o <<x>>) \o B
  <2>1. SubSeq(P, 1, j) = Append(A, x)
    <3>1. j - 1 \in Nat /\ (j - 1) + 1 <= Len(P) /\ (j - 1) + 1 = j
      BY <1>1, <1>7
    <3>2. SubSeq(P, 1, (j - 1) + 1) = Append(SubSeq(P, 1, j - 1), P[(j - 1) + 1])
      BY ONLY <1>6, <3>1, PrefixGrows
    <3>. QED BY ONLY <1>2, <1>3, <3>1, <3>2
  <2>2. SubSeq(P, 1, j) \o B = SubSeq(P, 1, n)
    <3>1. 1 \in 1 .. Len(P) + 1 /\ j \in 1 - 1 .. Len(P) /\ n \in j .. Len(P)
      BY <1>1, <1>7
    <3>. QED BY ONLY <1>4, <1>6, <3>1, ConcatAdjacentSubSeq
  <2>3. SubSeq(P, 1, n) = P
    BY ONLY <1>1, <1>6, SubSeqFull
  <2>4. Append(A, x) = A \o <<x>>
    BY ONLY <1>6, <1>8, AppendIsConcat
  <2>. QED BY ONLY <2>1, <2>2, <2>3, <2>4
<1>11. x \in Seq(Places)
  BY <1>5, <1>6
<1>12. <<x>> \in Pieces /\ Joined(<<x>>) = x
  BY <1>11, JoinedOne
<1>13. PICK u : u = <<x>>
  OBVIOUS
<1>14. A \o u \in Pieces /\ Joined(A \o u) = Joined(A) \o Joined(u)
  BY ONLY <1>9, <1>12, <1>13, JoinedConcat
<1>15. Joined((A \o u) \o B) = Joined(A \o u) \o Joined(B)
  BY ONLY <1>9, <1>14, JoinedConcat
<1>16. A \o C \in Pieces /\ Joined(A \o C) = Joined(A) \o Joined(C)
  BY ONLY <1>9, C \in Pieces, JoinedConcat
<1>17. Joined((A \o C) \o B) = Joined(A \o C) \o Joined(B)
  BY ONLY <1>9, <1>16, JoinedConcat
<1>18. Instead(P, j, C) = (A \o C) \o B
  BY <1>1, <1>3, <1>4 DEF Instead
<1>. QED BY ONLY <1>2, <1>10, <1>12, <1>13, <1>14, <1>15, <1>16, <1>17, <1>18, P[j] = Joined(C)

Store == [bytes : Seq(Nat), blocks : Seq(Block)]
CopiedBlock(c, x) == [x EXCEPT !.p = Len(c.bytes)]
Slice(b, x) == SubSeq(b, x.p + 1, x.p + x.len)
CopiedOn(b, c, x) ==
  [bytes |-> c.bytes \o Slice(b, x),
   blocks |-> Append(c.blocks, CopiedBlock(c, x))]

\* The first i blocks of b are copied behind the bytes g.
CopiedUpTo(g, b, bs, i, c) ==
  /\ c \in Store /\ Len(c.blocks) = i /\ Len(g) <= Len(c.bytes)
  /\ \A q \in 1 .. Len(g) : c.bytes[q] = g[q]
  /\ \A l \in 1 .. i : /\ c.blocks[l].addr = bs[l].addr /\ c.blocks[l].len = bs[l].len
                       /\ c.blocks[l].ref = NoMem
                       /\ Len(g) <= c.blocks[l].p /\ Fits(c.bytes, c.blocks[l])
  /\ \A l \in 1 .. i : \A q \in 1 .. bs[l].len :
        c.bytes[c.blocks[l].p + q] = b[bs[l].p + q]
  /\ \A m \in 1 .. i : \A l \in 1 .. i : l < m => c.blocks[l].p + c.blocks[l].len <= c.blocks[m].p

\* Bytes behind others: where they are.
LEMMA Enough ==
  ASSUME NEW e \in Nat, NEW f \in Nat, NEW m \in Nat, NEW n \in Nat, e + f <= m
  PROVE  /\ e + f <= m + n
         /\ \A q \in 1 .. f : e + q \in 1 .. m + n /\ e + q <= m
OBVIOUS

\* A block that is copied has another place and the same address and length.
LEMMA CopiedBlockIs ==
  ASSUME NEW x \in Block, NEW c \in Store
  PROVE  /\ CopiedBlock(c, x) \in Block /\ CopiedBlock(c, x).p = Len(c.bytes)
         /\ CopiedBlock(c, x).addr = x.addr /\ CopiedBlock(c, x).len = x.len
         /\ CopiedBlock(c, x).ref = x.ref
<1>1. PICK n \in Nat : n = Len(c.bytes)
  BY DEF Store
<1>2. PICK p \in Nat, a \in Int, l \in Nat, r \in {NoMem, "sec"} :
         x = [p |-> p, addr |-> a, len |-> l, ref |-> r]
  BY DEF Block
<1>3. CopiedBlock(c, x) = [x EXCEPT !.p = n]
  BY <1>1 DEF CopiedBlock
<1>4. [x EXCEPT !.p = n] = [p |-> n, addr |-> a, len |-> l, ref |-> r]
  BY ONLY <1>2
<1>. QED BY <1>1, <1>2, <1>3, <1>4 DEF Block

\* One more block copied makes a store again, with the bytes of this block.
LEMMA CopiedOnType ==
  ASSUME NEW b, NEW bs, Whole(b, bs), NEW i \in 1 .. Len(bs), NEW c \in Store,
         NEW x, x = bs[i]
  PROVE  /\ CopiedOn(b, c, x) \in Store
         /\ Slice(b, x) \in Seq(Nat) /\ Len(Slice(b, x)) = x.len
         /\ \A q \in 1 .. x.len : Slice(b, x)[q] = b[x.p + q]
         /\ x.ref = NoMem /\ x \in Block
<1>1. PICK t : t = Slice(b, x)
  OBVIOUS
<1>2. x \in Block /\ Fits(b, x) /\ x.ref = NoMem /\ b \in Seq(Nat)
  BY DEF Whole, AllFit
<1>3. PICK p \in Nat, n \in Nat : p = x.p /\ n = x.len
  BY <1>2 DEF Block
<1>5. PICK g \in Seq(Nat) : g = b
  BY <1>2
<1>6. t \in Seq(Nat) /\ Len(t) = n /\ \A q \in 1 .. n : t[q] = b[x.p + q]
  <2>1. p + 1 \in Nat /\ p + n \in Nat /\ 1 <= p + 1 /\ p + n <= Len(g) /\ p + 1 <= p + n + 1
    <3>1. p + n <= Len(g)
      BY ONLY <1>2, <1>3, <1>5 DEF Fits
    <3>. QED BY ONLY <3>1, p \in Nat, n \in Nat
  <2>2. t = SubSeq(g, p + 1, p + n)
    BY <1>1, <1>3, <1>5 DEF Slice
  <2>3. /\ t \in Seq(Nat) /\ Len(t) = (p + n) - (p + 1) + 1
        /\ \A q \in 1 .. (p + n) - (p + 1) + 1 : t[q] = g[(p + 1) + q - 1]
    BY ONLY <2>1, <2>2, PartOf
  <2>4. (p + n) - (p + 1) + 1 = n /\ \A q \in 1 .. n : (p + 1) + q - 1 = p + q
    BY ONLY p \in Nat, n \in Nat
  <2>. QED BY ONLY <1>3, <1>5, <2>3, <2>4
<1>7. CopiedBlock(c, x) \in Block
  BY <1>2, CopiedBlockIs
<1>8. c.bytes \o t \in Seq(Nat) /\ Append(c.blocks, CopiedBlock(c, x)) \in Seq(Block)
  BY <1>6, <1>7 DEF Store
<1>9. CopiedOn(b, c, x) \in Store
  BY <1>1, <1>8 DEF CopiedOn, Store
<1>. QED BY <1>1, <1>2, <1>3, <1>6, <1>9

\* Copying goes on block by block.
LEMMA CopiedGrows ==
  ASSUME NEW g \in Seq(Nat), NEW b, NEW bs, Whole(b, bs), NEW i \in Nat, i + 1 <= Len(bs), NEW c,
         CopiedUpTo(g, b, bs, i, c)
  PROVE  CopiedUpTo(g, b, bs, i + 1, CopiedOn(b, c, bs[i + 1]))
<1>1. PICK d : d = CopiedOn(b, c, bs[i + 1])
  OBVIOUS
<1>2. PICK x : x = bs[i + 1]
  OBVIOUS
<1>3. PICK t : t = Slice(b, x)
  OBVIOUS
<1>4. i + 1 \in 1 .. Len(bs) /\ c \in Store /\ Len(c.blocks) = i
  BY DEF CopiedUpTo, Whole
<1>5. /\ d \in Store
      /\ t \in Seq(Nat) /\ Len(t) = x.len /\ \A q \in 1 .. x.len : t[q] = b[x.p + q]
      /\ x.ref = NoMem /\ x \in Block
  <2>1. PICK n \in 1 .. Len(bs) : n = i + 1
    BY <1>4
  <2>2. CopiedOn(b, c, x) = d
    BY <1>1, <1>2
  <2>3. x = bs[n]
    BY <1>2, <2>1
  <2>4. Whole(b, bs) /\ c \in Store
    BY <1>4
  <2>5. /\ CopiedOn(b, c, x) \in Store
        /\ Slice(b, x) \in Seq(Nat) /\ Len(Slice(b, x)) = x.len
        /\ \A q \in 1 .. x.len : Slice(b, x)[q] = b[x.p + q]
        /\ x.ref = NoMem /\ x \in Block
    BY ONLY <2>3, <2>4, CopiedOnType
  <2>. QED BY ONLY <1>3, <2>2, <2>5
<1>6. PICK y : y = CopiedBlock(c, x)
  OBVIOUS
<1>7. y \in Block /\ y.p = Len(c.bytes) /\ y.addr = x.addr /\ y.len = x.len /\ y.ref = NoMem
  BY <1>4, <1>5, <1>6, CopiedBlockIs
<1>8. PICK m \in Nat, n \in Nat, u \in Nat : m = Len(c.bytes) /\ n = x.len /\ u = Len(g)
  <2>1. Len(c.bytes) \in Nat
    BY <1>4 DEF Store
  <2>2. x.len \in Nat
    BY <1>5 DEF Block
  <2>3. Len(g) \in Nat
    OBVIOUS
  <2>. QED BY <2>1, <2>2, <2>3
<1>9. d.bytes = c.bytes \o t /\ d.blocks = Append(c.blocks, y)
  BY <1>1, <1>2, <1>3, <1>6 DEF CopiedOn
<1>10. /\ Len(d.bytes) = m + n
       /\ \A q \in 1 .. m + n : d.bytes[q] = IF q <= m THEN c.bytes[q] ELSE t[q - m]
  <2>1. /\ Len(c.bytes \o t) = Len(c.bytes) + Len(t)
        /\ \A q \in 1 .. Len(c.bytes) + Len(t) :
             (c.bytes \o t)[q] = IF q <= Len(c.bytes) THEN c.bytes[q] ELSE t[q - Len(c.bytes)]
    <3>1. PICK e \in Seq(Nat) : e = c.bytes
      BY <1>4 DEF Store
    <3>2. /\ Len(e \o t) = Len(e) + Len(t)
          /\ \A q \in 1 .. Len(e) + Len(t) : (e \o t)[q] = IF q <= Len(e) THEN e[q] ELSE t[q - Len(e)]
      BY ONLY <1>5, ConcatProperties, e \in Seq(Nat)
    <3>. QED BY ONLY <3>1, <3>2
  <2>. QED BY ONLY <1>5, <1>8, <1>9, <2>1
<1>11. /\ Len(d.blocks) = i + 1 /\ d.blocks[i + 1] = y
       /\ \A l \in 1 .. i : d.blocks[l] = c.blocks[l]
  <2>1. c.blocks \in Seq(Block)
    BY <1>4 DEF Store
  <2>. QED BY <1>4, <1>7, <1>9, <2>1
<1>12. \A l \in 1 .. i + 1 : l \in 1 .. i \/ l = i + 1
  OBVIOUS
<1>13. u <= m
  BY <1>8 DEF CopiedUpTo
<1>14. ASSUME NEW l \in 1 .. i
       PROVE  /\ c.blocks[l].addr = bs[l].addr /\ c.blocks[l].len = bs[l].len
              /\ c.blocks[l].ref = NoMem /\ u <= c.blocks[l].p
              /\ c.blocks[l].p \in Nat /\ c.blocks[l].len \in Nat
              /\ c.blocks[l].p + c.blocks[l].len <= m
  <2>1. c.blocks[l] \in Block
    BY <1>4 DEF Store
  <2>. QED BY <1>8, <2>1 DEF CopiedUpTo, Fits, Block
<1>15. Len(g) <= Len(d.bytes)
  BY <1>8, <1>10, <1>13
<1>16. \A q \in 1 .. Len(g) : d.bytes[q] = g[q]
  <2>. SUFFICES ASSUME NEW q \in 1 .. u PROVE d.bytes[q] = g[q]
    BY <1>8
  <2>1. q \in 1 .. m + n /\ q <= m
    BY <1>13
  <2>2. c.bytes[q] = g[q]
    BY <1>8 DEF CopiedUpTo
  <2>. QED BY <1>10, <2>1, <2>2
<1>17. ASSUME NEW l \in 1 .. i + 1
       PROVE  /\ d.blocks[l].addr = bs[l].addr /\ d.blocks[l].len = bs[l].len
              /\ d.blocks[l].ref = NoMem
              /\ Len(g) <= d.blocks[l].p /\ Fits(d.bytes, d.blocks[l])
  <2>1. CASE l \in 1 .. i
    <3>1. c.blocks[l].p + c.blocks[l].len <= m + n
      <4>1. PICK e \in Nat, f \in Nat : e = c.blocks[l].p /\ f = c.blocks[l].len /\ e + f <= m
        BY <1>14, <2>1
      <4>2. e + f <= m + n
        BY ONLY <4>1, Enough, e \in Nat, f \in Nat, m \in Nat, n \in Nat
      <4>. QED BY <4>1, <4>2
    <3>. QED BY <1>8, <1>10, <1>11, <1>14, <2>1, <3>1 DEF Fits
  <2>2. CASE l = i + 1
    BY <1>2, <1>7, <1>8, <1>10, <1>11, <1>13, <2>2 DEF Fits
  <2>. QED BY <1>12, <2>1, <2>2
<1>18. ASSUME NEW l \in 1 .. i + 1, NEW q \in 1 .. bs[l].len
       PROVE  d.bytes[d.blocks[l].p + q] = b[bs[l].p + q]
  <2>1. CASE l \in 1 .. i
    <3>1. c.bytes[c.blocks[l].p + q] = b[bs[l].p + q]
      BY <2>1 DEF CopiedUpTo
    <3>2. PICK e \in Nat, f \in Nat : e = c.blocks[l].p /\ f = c.blocks[l].len /\ e + f <= m /\ q \in 1 .. f
      BY <1>14, <2>1
    <3>3. e + q \in 1 .. m + n /\ e + q <= m
      <4>1. e + f <= m /\ q \in 1 .. f
        BY <3>2
      <4>. QED BY ONLY <4>1, Enough, e \in Nat, f \in Nat, m \in Nat, n \in Nat
    <3>. QED BY <1>10, <1>11, <2>1, <3>1, <3>2, <3>3
  <2>2. CASE l = i + 1
    <3>1. q \in 1 .. n
      BY <1>2, <1>8, <2>2
    <3>2. m + q \in 1 .. m + n /\ ~(m + q <= m) /\ (m + q) - m = q
      BY <3>1
    <3>3. d.bytes[m + q] = t[q]
      BY <1>10, <3>2
    <3>4. t[q] = b[x.p + q]
      BY <1>5, <1>8, <3>1
    <3>. QED BY <1>2, <1>7, <1>8, <1>11, <2>2, <3>3, <3>4
  <2>. QED BY <1>12, <2>1, <2>2
<1>19. ASSUME NEW h \in 1 .. i + 1, NEW l \in 1 .. i + 1, l < h
       PROVE  d.blocks[l].p + d.blocks[l].len <= d.blocks[h].p
  <2>1. l \in 1 .. i
    BY <1>19
  <2>2. CASE h \in 1 .. i
    <3>1. c.blocks[l].p + c.blocks[l].len <= c.blocks[h].p
      BY <1>19, <2>1, <2>2 DEF CopiedUpTo
    <3>. QED BY <1>11, <2>1, <2>2, <3>1
  <2>3. CASE h = i + 1
    BY <1>7, <1>8, <1>11, <1>14, <2>1, <2>3
  <2>. QED BY <1>12, <2>2, <2>3
<1>20. CopiedUpTo(g, b, bs, i + 1, d)
  BY <1>5, <1>11, <1>15, <1>16, <1>17, <1>18, <1>19 DEF CopiedUpTo
<1>. QED BY <1>1, <1>20

\* The fold of Splice copies all blocks, one behind the other.
LEMMA CopiedIs ==
  ASSUME NEW s, s.bytes \in Seq(Nat), NEW b, Whole(b.bytes, b.blocks)
  PROVE  CopiedUpTo(s.bytes, b.bytes, b.blocks, Len(b.blocks), Copied(s, b))
<1>. DEFINE n == Len(b.blocks)
            base == [bytes |-> s.bytes, blocks |-> <<>>]
            step == [x \in (1 .. n) \X Store |-> CopiedOn(b.bytes, x[2], b.blocks[x[1]])]
            F(h) == h = [S \in SUBSET (DOMAIN b.blocks) |->
                           IF S = {} THEN base ELSE CopiedOn(b.bytes, h[S \ {Max(S)}], b.blocks[Max(S)])]
<1>1. n \in Nat /\ DOMAIN b.blocks = 1 .. n
  BY DEF Whole
<1>2. base \in Store
  BY DEF Store
<1>3. step \in [(1 .. n) \X Store -> Store]
  <2>1. \A x \in (1 .. n) \X Store : CopiedOn(b.bytes, x[2], b.blocks[x[1]]) \in Store
    BY CopiedOnType
  <2>. QED BY <2>1
<1>4. \A i \in 1 .. n : \A c \in Store : step[<<i, c>>] = CopiedOn(b.bytes, c, b.blocks[i])
  OBVIOUS
<1>5. Copied(s, b) = (CHOOSE h : F(h))[DOMAIN b.blocks]
  BY DEF Copied, FoldLeft, MapThenFoldSet, CopiedOn, CopiedBlock, Slice
<1>. HIDE DEF base, step
<1>6. \E h : F(h)
  <2>0. n \in Nat
    BY <1>1
  <2>. HIDE DEF n
  <2>1. PICK h : h \in [SUBSET (1 .. n) -> Store] /\ Folded(n, base, step, h)
    BY ONLY <1>2, <1>3, <2>0, FoldExists
  <2>2. ASSUME NEW S \in SUBSET (1 .. n)
        PROVE  h[S] = IF S = {} THEN base ELSE CopiedOn(b.bytes, h[S \ {Max(S)}], b.blocks[Max(S)])
    <3>1. h = [V \in SUBSET (1 .. n) |-> IF V = {} THEN base ELSE step[<<Max(V), h[V \ {Max(V)}]>>]]
      BY <2>1 DEF Folded
    <3>2. h[S] = IF S = {} THEN base ELSE step[<<Max(S), h[S \ {Max(S)}]>>]
      BY <3>1
    <3>3. CASE S # {}
      <4>1. Max(S) \in S
        BY ONLY <2>0, <3>3, S \in SUBSET (1 .. n), Largest
      <4>2. Max(S) \in 1 .. n /\ S \ {Max(S)} \in SUBSET (1 .. n)
        BY <4>1
      <4>3. h[S \ {Max(S)}] \in Store
        BY <2>1, <4>2
      <4>. QED BY ONLY <1>4, <3>2, <3>3, <4>2, <4>3
    <3>. QED BY <3>2, <3>3
  <2>. QED BY <1>1, <2>1, <2>2
<1>7. PICK h : h = CHOOSE f : F(f)
  OBVIOUS
<1>8. F(h)
  <2>. HIDE DEF F
  <2>. QED BY <1>6, <1>7
<1>9. \A S \in SUBSET (1 .. n) :
        h[S] = IF S = {} THEN base ELSE CopiedOn(b.bytes, h[S \ {Max(S)}], b.blocks[Max(S)])
  <2>. SUFFICES ASSUME NEW S \in SUBSET (1 .. n)
                PROVE  h[S] = IF S = {} THEN base ELSE CopiedOn(b.bytes, h[S \ {Max(S)}], b.blocks[Max(S)])
    OBVIOUS
  <2>. QED BY <1>1, <1>8
<1>. DEFINE T == {i \in Nat : i <= n => CopiedUpTo(s.bytes, b.bytes, b.blocks, i, h[1 .. i])}
<1>10. 0 \in T
  <2>1. 1 .. 0 = {} /\ 1 .. 0 \in SUBSET (1 .. n)
    OBVIOUS
  <2>2. h[1 .. 0] = base
    BY <1>9, <2>1
  <2>3. base.bytes = s.bytes /\ base.blocks = <<>> /\ Len(base.blocks) = 0
    BY DEF base
  <2>4. Len(s.bytes) <= Len(s.bytes)
    OBVIOUS
  <2>5. CopiedUpTo(s.bytes, b.bytes, b.blocks, 0, base)
    BY <1>2, <2>1, <2>3, <2>4 DEF CopiedUpTo
  <2>. QED BY <2>2, <2>5
<1>11. ASSUME NEW i \in Nat, i \in T PROVE i + 1 \in T
  <2>. SUFFICES ASSUME i + 1 <= n PROVE CopiedUpTo(s.bytes, b.bytes, b.blocks, i + 1, h[1 .. i + 1])
    OBVIOUS
  <2>1. 1 .. i + 1 \in SUBSET (1 .. n) /\ 1 .. i + 1 # {} /\ i <= n
    <3>1. PICK l \in Nat : l = n
      BY <1>1
    <3>2. 1 .. i + 1 \in SUBSET (1 .. l) /\ i + 1 \in 1 .. i + 1 /\ i <= l
      BY <3>1
    <3>. QED BY <3>1, <3>2
  <2>2. Max(1 .. i + 1) = i + 1 /\ (1 .. i + 1) \ {i + 1} = 1 .. i
    BY LastOne
  <2>3. h[1 .. i + 1] = CopiedOn(b.bytes, h[1 .. i], b.blocks[i + 1])
    BY ONLY <1>9, <2>1, <2>2
  <2>4. CopiedUpTo(s.bytes, b.bytes, b.blocks, i, h[1 .. i])
    BY <1>11, <2>1
  <2>5. PICK c : c = h[1 .. i]
    OBVIOUS
  <2>6. PICK g \in Seq(Nat) : g = s.bytes
    OBVIOUS
  <2>7. CopiedUpTo(g, b.bytes, b.blocks, i + 1, CopiedOn(b.bytes, c, b.blocks[i + 1]))
    BY ONLY <2>4, <2>5, <2>6, i \in Nat, i + 1 <= n, Whole(b.bytes, b.blocks), CopiedGrows
  <2>. QED BY ONLY <2>3, <2>5, <2>6, <2>7
<1>12. \A i \in Nat : i \in T
  <2>. HIDE DEF T
  <2>. QED BY <1>10, <1>11, Inductive
<1>13. CopiedUpTo(s.bytes, b.bytes, b.blocks, n, h[1 .. n])
  BY <1>1, <1>12
<1>. HIDE DEF F, T
<1>14. Copied(s, b) = h[1 .. n]
  BY ONLY <1>1, <1>5, <1>7
<1>. QED BY <1>13, <1>14

(***************************************************************************)
(* A memory, as the passes fill it and as memcomp changes it.              *)
(***************************************************************************)
Memory == [bytes : Seq(Nat), blocks : Seq(Block), lastp : Nat, lastaddr : Int,
           flattened : BOOLEAN, merged : BOOLEAN]
Own(bs) == {x \in 1 .. Len(bs) : bs[x].ref = NoMem}

\* Blocks at the same address with the same bytes load the same.
LEMMA SameBytes ==
  ASSUME NEW b, NEW d, NEW x, NEW y, x.addr = y.addr, x.len = y.len,
         \A q \in 1 .. x.len : d[y.p + q] = b[x.p + q]
  PROVE  Bytes(d, y) = Bytes(b, x)
BY DEF Bytes

Refill(s, d, ds) == [s EXCEPT !.bytes = d, !.blocks = ds]

\* Other bytes and blocks: the flags stay.
LEMMA Refilled ==
  ASSUME NEW s \in Memory, NEW d \in Seq(Nat), NEW ds \in Seq(Block)
  PROVE  /\ Refill(s, d, ds) \in Memory /\ Refill(s, d, ds).bytes = d /\ Refill(s, d, ds).blocks = ds
         /\ Refill(s, d, ds).flattened = s.flattened /\ Refill(s, d, ds).merged = s.merged
<1>1. PICK s1 : s1 = [s EXCEPT !.bytes = d]
  OBVIOUS
<1>2. s1 \in Memory /\ s1.bytes = d /\ s1.flattened = s.flattened /\ s1.merged = s.merged
  BY <1>1 DEF Memory
<1>3. PICK t : t = [s1 EXCEPT !.blocks = ds]
  OBVIOUS
<1>4. t \in Memory /\ t.bytes = d /\ t.blocks = ds /\ t.flattened = s.flattened /\ t.merged = s.merged
  BY <1>2, <1>3 DEF Memory
<1>5. t = Refill(s, d, ds)
  BY ONLY <1>1, <1>3 DEF Refill
<1>. QED BY ONLY <1>4, <1>5

\* A memory with the blocks of its section in their place has the same content, and no
\* byte is of two blocks.
LEMMA SplicedIs ==
  ASSUME NEW s \in Memory, Sound(s), OwnBytes(s.blocks, Own(s.blocks)),
         NEW j \in Refs(s), \A x \in Refs(s) : x = j, NEW b, Whole(b.bytes, b.blocks)
  PROVE  LET t == Spliced(s, b)
         IN /\ t \in Memory /\ t.flattened = s.flattened /\ t.merged = s.merged
            /\ Whole(t.bytes, t.blocks) /\ OwnBytes(t.blocks, 1 .. Len(t.blocks))
            /\ Content(t, t.blocks) = Joined(Parts(s, Content(b, b.blocks)))
<1>1. PICK bs \in Seq(Block) : bs = s.blocks
  BY DEF Memory
<1>2. PICK g \in Seq(Nat) : g = s.bytes
  BY DEF Memory
<1>3. PICK c : c = Copied(s, b)
  OBVIOUS
<1>4. PICK bb, bbs : bb = b.bytes /\ bbs = b.blocks /\ Whole(bb, bbs)
  OBVIOUS
<1>5. PICK m \in Nat : m = Len(bbs)
  BY <1>4 DEF Whole
<1>6. CopiedUpTo(g, bb, bbs, m, c)
  <2>1. s.bytes \in Seq(Nat)
    BY <1>2
  <2>2. CopiedUpTo(s.bytes, b.bytes, b.blocks, Len(b.blocks), Copied(s, b))
    BY ONLY <2>1, CopiedIs, Whole(b.bytes, b.blocks)
  <2>. QED BY ONLY <1>2, <1>3, <1>4, <1>5, <2>2
<1>7. PICK d \in Seq(Nat), ds \in Seq(Block) : d = c.bytes /\ ds = c.blocks /\ Len(ds) = m
  BY <1>6 DEF CopiedUpTo, Store
<1>8. PICK n \in Nat : n = Len(bs)
  OBVIOUS
<1>9. j \in 1 .. n /\ j \in 1 .. Len(bs) /\ bs[j].ref # NoMem
      /\ \A x \in 1 .. n : x # j => bs[x].ref = NoMem
  BY <1>1, <1>8 DEF Refs
<1>10. (CHOOSE x \in Refs(s) : TRUE) = j
  OBVIOUS
<1>11. PICK R : R = Instead(bs, j, ds)
  OBVIOUS
<1>12. PICK t : t = Spliced(s, b)
  OBVIOUS
<1>13. t = [s EXCEPT !.bytes = d, !.blocks = R]
  BY <1>1, <1>3, <1>7, <1>10, <1>11, <1>12 DEF Spliced, Instead
<1>14. R \in Seq(Block) /\ InsteadAt(bs, j, ds, R)
  BY ONLY <1>9, <1>11, InsteadIs, bs \in Seq(Block), ds \in Seq(Block)
<1>15. t \in Memory /\ t.bytes = d /\ t.blocks = R /\ t.flattened = s.flattened /\ t.merged = s.merged
  <2>1. t = Refill(s, d, R)
    BY ONLY <1>13 DEF Refill
  <2>2. R \in Seq(Block) /\ d \in Seq(Nat)
    BY ONLY <1>14, d \in Seq(Nat)
  <2>3. /\ Refill(s, d, R) \in Memory /\ Refill(s, d, R).bytes = d /\ Refill(s, d, R).blocks = R
        /\ Refill(s, d, R).flattened = s.flattened /\ Refill(s, d, R).merged = s.merged
    BY ONLY <2>2, s \in Memory, Refilled
  <2>. QED BY ONLY <2>1, <2>3
<1>16. PICK r \in Nat : r = n - 1 + m /\ Len(R) = r
  BY <1>7, <1>8, <1>9, <1>14 DEF InsteadAt
<1>17. ASSUME NEW x \in 1 .. r
       PROVE  /\ x < j => R[x] = bs[x] /\ x \in 1 .. n /\ x # j
              /\ j <= x /\ x < j + m => R[x] = ds[x - j + 1] /\ x - j + 1 \in 1 .. m
              /\ j + m <= x => R[x] = bs[x - m + 1] /\ x - m + 1 \in 1 .. n /\ x - m + 1 > j
              /\ x < j \/ (j <= x /\ x < j + m) \/ j + m <= x
  <2>1. /\ x < j => R[x] = bs[x]
        /\ j <= x /\ x < j + m => R[x] = ds[x - j + 1]
        /\ j + m <= x => R[x] = bs[x - m + 1]
    BY <1>7, <1>14, <1>16 DEF InsteadAt
  <2>2. x \in Nat /\ j \in Nat /\ 1 <= j /\ j <= n
    BY <1>9
  <2>. QED BY <1>16, <2>1, <2>2
<1>18. PICK u \in Nat, w \in Nat : u = Len(g) /\ w = Len(d) /\ u <= w /\ \A q \in 1 .. u : d[q] = g[q]
  <2>1. Len(g) \in Nat /\ Len(d) \in Nat
    OBVIOUS
  <2>. QED BY <1>6, <1>7, <2>1 DEF CopiedUpTo
<1>19. ASSUME NEW y \in 1 .. n, y # j
       PROVE  /\ bs[y] \in Block /\ bs[y].ref = NoMem /\ bs[y].p + bs[y].len <= u
              /\ Fits(d, bs[y]) /\ Bytes(d, bs[y]) = Bytes(g, bs[y])
  <2>1. bs[y] \in Block /\ bs[y].ref = NoMem
    BY <1>8, <1>9, <1>19
  <2>2. PICK p \in Nat, l \in Nat : p = bs[y].p /\ l = bs[y].len
    BY <2>1 DEF Block
  <2>3. Fits(g, bs[y])
    BY <1>1, <1>2, <1>8, <2>1 DEF Sound
  <2>4. p + l <= u
    BY <1>18, <2>2, <2>3 DEF Fits
  <2>5. p + l <= w
    BY <1>18, <2>4
  <2>6. ASSUME NEW q \in 1 .. l PROVE d[p + q] = g[p + q]
    <3>1. p + q \in 1 .. u
      BY <2>4
    <3>. QED BY <1>18, <3>1
  <2>7. Bytes(d, bs[y]) = Bytes(g, bs[y])
    <3>1. PICK z : z = bs[y]
      OBVIOUS
    <3>2. \A q \in 1 .. z.len : d[z.p + q] = g[z.p + q]
      BY <2>2, <2>6, <3>1
    <3>3. Bytes(d, z) = Bytes(g, z)
      BY ONLY <3>2 DEF Bytes
    <3>. QED BY ONLY <3>1, <3>3
  <2>. QED BY <1>18, <2>1, <2>2, <2>4, <2>5, <2>7 DEF Fits
<1>20. ASSUME NEW y \in 1 .. m
       PROVE  /\ ds[y] \in Block /\ ds[y].ref = NoMem /\ u <= ds[y].p
              /\ Fits(d, ds[y]) /\ Bytes(d, ds[y]) = Bytes(bb, bbs[y])
  <2>1. /\ ds[y].addr = bbs[y].addr /\ ds[y].len = bbs[y].len /\ ds[y].ref = NoMem
        /\ u <= ds[y].p /\ Fits(d, ds[y])
    BY <1>6, <1>7, <1>18 DEF CopiedUpTo
  <2>2. \A q \in 1 .. bbs[y].len : d[ds[y].p + q] = bb[bbs[y].p + q]
    BY <1>6, <1>7 DEF CopiedUpTo
  <2>3. Bytes(d, ds[y]) = Bytes(bb, bbs[y])
    <3>1. PICK z, e : z = ds[y] /\ e = bbs[y]
      OBVIOUS
    <3>2. z.addr = e.addr /\ z.len = e.len /\ \A q \in 1 .. e.len : d[z.p + q] = bb[e.p + q]
      BY <2>1, <2>2, <3>1
    <3>3. Bytes(d, z) = Bytes(bb, e)
      BY ONLY <3>2, SameBytes
    <3>. QED BY ONLY <3>1, <3>3
  <2>4. ds[y] \in Block
    BY <1>7
  <2>. QED BY <2>1, <2>3, <2>4
<1>21. Whole(d, R)
  <2>1. ASSUME NEW x \in 1 .. r PROVE Fits(d, R[x]) /\ R[x].ref = NoMem
    <3>1. CASE x < j
      <4>1. R[x] = bs[x] /\ x \in 1 .. n /\ x # j
        BY <1>17, <3>1
      <4>. QED BY <1>19, <4>1
    <3>2. CASE j <= x /\ x < j + m
      <4>1. R[x] = ds[x - j + 1] /\ x - j + 1 \in 1 .. m
        BY <1>17, <3>2
      <4>2. PICK y \in 1 .. m : y = x - j + 1
        BY <4>1
      <4>. QED BY <1>20, <4>1, <4>2
    <3>3. CASE j + m <= x
      <4>1. R[x] = bs[x - m + 1] /\ x - m + 1 \in 1 .. n /\ x - m + 1 > j
        BY <1>17, <3>3
      <4>2. PICK y \in 1 .. n : y = x - m + 1
        BY <4>1
      <4>3. y # j
        BY <1>9, <4>1, <4>2
      <4>. QED BY <1>19, <4>1, <4>2, <4>3
    <3>. QED BY <1>17, <3>1, <3>2, <3>3
  <2>. QED BY <1>14, <1>16, <2>1 DEF Whole, AllFit
<1>22. OwnBytes(R, 1 .. r)
  <2>. SUFFICES ASSUME NEW x \in 1 .. r, NEW y \in 1 .. r, x < y PROVE BytesApart(R[x], R[y])
    BY DEF OwnBytes
  <2>0. x \in Nat /\ y \in Nat /\ j \in Nat
    BY <1>9
  <2>1. ASSUME NEW e \in 1 .. n, NEW h \in 1 .. n, e # j, h # j, e < h PROVE BytesApart(bs[e], bs[h])
    <3>1. e \in Own(bs) /\ h \in Own(bs)
      BY <1>8, <1>19, <2>1 DEF Own
    <3>. QED BY <1>1, <2>1, <3>1 DEF OwnBytes
  <2>2. ASSUME NEW e \in 1 .. n, e # j, NEW h \in 1 .. m
        PROVE BytesApart(bs[e], ds[h]) /\ BytesApart(ds[h], bs[e])
    <3>1. bs[e].p + bs[e].len <= u /\ u <= ds[h].p /\ bs[e] \in Block /\ ds[h] \in Block
      BY <1>19, <1>20, <2>2
    <3>2. bs[e].p \in Nat /\ bs[e].len \in Nat /\ ds[h].p \in Nat
      BY <3>1 DEF Block
    <3>3. bs[e].p + bs[e].len <= ds[h].p
      <4>1. PICK pe \in Nat, le \in Nat, ph \in Nat : pe = bs[e].p /\ le = bs[e].len /\ ph = ds[h].p
        BY ONLY <3>2
      <4>2. pe + le <= u /\ u <= ph
        BY ONLY <3>1, <4>1
      <4>3. pe + le <= ph
        BY ONLY <4>2, pe \in Nat, le \in Nat, ph \in Nat, u \in Nat
      <4>. QED BY ONLY <4>1, <4>3
    <3>. QED BY <3>3 DEF BytesApart
  <2>3. ASSUME NEW e \in 1 .. m, NEW h \in 1 .. m, e < h PROVE BytesApart(ds[e], ds[h])
    BY <1>6, <1>7, <2>3 DEF CopiedUpTo, BytesApart
  <2>4. CASE x < j
    <3>1. R[x] = bs[x] /\ x \in 1 .. n /\ x # j
      BY <1>9, <1>17, <2>4
    <3>2. CASE y < j
      <4>1. R[y] = bs[y] /\ y \in 1 .. n /\ y # j
        BY <1>9, <1>17, <3>2
      <4>. QED BY <2>1, <3>1, <4>1
    <3>3. CASE j <= y /\ y < j + m
      <4>1. R[y] = ds[y - j + 1] /\ y - j + 1 \in 1 .. m
        BY <1>17, <3>3
      <4>. QED BY <2>2, <3>1, <4>1
    <3>4. CASE j + m <= y
      <4>1. PICK z \in 1 .. n : z = y - m + 1 /\ R[y] = bs[z] /\ z > j
        BY <1>17, <3>4
      <4>2. z # j /\ x < z
        BY ONLY <2>0, <2>4, <4>1, z \in 1 .. n
      <4>. QED BY <2>1, <3>1, <4>1, <4>2
    <3>. QED BY <1>17, <3>2, <3>3, <3>4
  <2>5. CASE j <= x /\ x < j + m
    <3>1. PICK e \in 1 .. m : e = x - j + 1 /\ R[x] = ds[e]
      BY <1>17, <2>5
    <3>2. CASE y < j + m
      <4>1. j <= y
        BY ONLY <2>0, <2>5, x < y
      <4>2. PICK h \in 1 .. m : h = y - j + 1 /\ R[y] = ds[h]
        BY <1>17, <3>2, <4>1
      <4>3. e < h
        BY ONLY <2>0, <3>1, <4>2, x < y
      <4>. QED BY <2>3, <3>1, <4>2, <4>3
    <3>3. CASE j + m <= y
      <4>1. PICK z \in 1 .. n : z = y - m + 1 /\ R[y] = bs[z] /\ z > j
        BY <1>17, <3>3
      <4>2. z # j
        BY ONLY <2>0, <4>1, z \in 1 .. n
      <4>. QED BY <2>2, <3>1, <4>1, <4>2
    <3>. QED BY <2>0, <3>2, <3>3
  <2>6. CASE j + m <= x
    <3>1. PICK e \in 1 .. n : e = x - m + 1 /\ R[x] = bs[e] /\ e > j
      BY <1>17, <2>6
    <3>2. j + m <= y
      BY ONLY <2>0, <2>6, x < y, m \in Nat
    <3>3. PICK z \in 1 .. n : z = y - m + 1 /\ R[y] = bs[z] /\ z > j
      BY <1>17, <3>2
    <3>4. e # j /\ z # j /\ e < z
      BY ONLY <2>0, <3>1, <3>3, x < y, m \in Nat, e \in 1 .. n, z \in 1 .. n
    <3>. QED BY <2>1, <3>1, <3>3, <3>4
  <2>. QED BY <1>17, <2>4, <2>5, <2>6
<1>23. PICK C : C = PiecesOf(bb, bbs)
  OBVIOUS
<1>24. C \in Pieces /\ Len(C) = m /\ \A y \in 1 .. m : C[y] = Bytes(bb, bbs[y])
  <2>1. bb \in Seq(Nat) /\ bbs \in Seq(Block) /\ AllFit(bb, bbs)
    BY <1>4 DEF Whole
  <2>2. /\ PiecesOf(bb, bbs) \in Pieces /\ Len(PiecesOf(bb, bbs)) = Len(bbs)
        /\ \A i \in 1 .. Len(bbs) : PiecesOf(bb, bbs)[i] = Bytes(bb, bbs[i])
    BY ONLY <2>1, PiecesType
  <2>. QED BY ONLY <1>5, <1>23, <2>2
<1>25. Content(b, b.blocks) = Joined(C)
  <2>1. b.bytes \in Seq(Nat) /\ b.blocks \in Seq(Block) /\ AllFit(b.bytes, b.blocks)
    BY DEF Whole
  <2>. QED BY ONLY <1>4, <1>23, <2>1, ContentIs
<1>26. PICK cc \in Seq(Places) : cc = Joined(C)
  BY <1>24, JoinedType
<1>27. PICK P : P = Parts(s, cc)
  OBVIOUS
<1>28. /\ P \in Pieces /\ Len(P) = n
       /\ \A y \in 1 .. n : P[y] = IF bs[y].ref = NoMem THEN Bytes(g, bs[y]) ELSE cc
  <2>1. /\ Parts(s, cc) \in Pieces /\ Len(Parts(s, cc)) = Len(s.blocks)
        /\ \A i \in 1 .. Len(s.blocks) : Parts(s, cc)[i] =
              IF s.blocks[i].ref = NoMem THEN Bytes(s.bytes, s.blocks[i]) ELSE cc
    BY PartsType
  <2>. QED BY ONLY <1>1, <1>2, <1>8, <1>27, <2>1
<1>29. PICK Q : Q = PiecesOf(d, R)
  OBVIOUS
<1>30. Q \in Pieces /\ Len(Q) = r /\ \A x \in 1 .. r : Q[x] = Bytes(d, R[x])
  <2>1. d \in Seq(Nat) /\ R \in Seq(Block) /\ AllFit(d, R)
    BY <1>21 DEF Whole
  <2>2. /\ PiecesOf(d, R) \in Pieces /\ Len(PiecesOf(d, R)) = Len(R)
        /\ \A i \in 1 .. Len(R) : PiecesOf(d, R)[i] = Bytes(d, R[i])
    BY ONLY <2>1, PiecesType
  <2>. QED BY ONLY <1>16, <1>29, <2>2
<1>31. InsteadAt(P, j, C, Q)
  <2>1. ASSUME NEW x \in 1 .. r
        PROVE  /\ x < j => Q[x] = P[x]
               /\ j <= x /\ x < j + m => Q[x] = C[x - j + 1]
               /\ j + m <= x => Q[x] = P[x - m + 1]
    <3>1. CASE x < j
      <4>1. Q[x] = Bytes(d, bs[x]) /\ x \in 1 .. n /\ x # j
        BY <1>17, <1>30, <3>1
      <4>2. Q[x] = P[x]
        BY <1>19, <1>28, <4>1
      <4>3. ~(j <= x) /\ ~(j + m <= x)
        BY ONLY <1>9, <3>1, m \in Nat, x \in 1 .. r
      <4>. QED BY ONLY <4>2, <4>3
    <3>2. CASE j <= x /\ x < j + m
      <4>1. Q[x] = C[x - j + 1]
        BY <1>17, <1>20, <1>24, <1>30, <3>2
      <4>2. ~(x < j) /\ ~(j + m <= x)
        BY ONLY <1>9, <3>2, m \in Nat, x \in 1 .. r
      <4>. QED BY ONLY <4>1, <4>2
    <3>3. CASE j + m <= x
      <4>1. PICK y \in 1 .. n : y = x - m + 1 /\ R[x] = bs[y] /\ y > j
        BY <1>17, <3>3
      <4>2. y # j /\ j \in Nat /\ x \in Nat
        BY ONLY <1>9, <4>1, y \in 1 .. n, x \in 1 .. r
      <4>3. Q[x] = Bytes(d, bs[y])
        BY <1>30, <4>1
      <4>4. Q[x] = P[y]
        BY <1>19, <1>28, <4>1, <4>2, <4>3
      <4>. QED BY <3>3, <4>1, <4>2, <4>4
    <3>. QED BY <1>17, <3>1, <3>2, <3>3
  <2>. QED BY <1>16, <1>24, <1>28, <1>30, <2>1 DEF InsteadAt
<1>32. Joined(Q) = Joined(P)
  <2>1. PICK S : S = Seq(Places)
    OBVIOUS
  <2>2. P \in Seq(S) /\ C \in Seq(S) /\ Q \in Seq(S) /\ j \in 1 .. Len(P)
    BY <1>9, <1>24, <1>28, <1>30, <2>1 DEF Pieces
  <2>3. Q = Instead(P, j, C)
    BY ONLY <1>31, <2>2, InsteadOnly
  <2>4. P[j] = Joined(C)
    BY <1>9, <1>26, <1>28
  <2>5. Joined(Instead(P, j, C)) = Joined(P)
    BY ONLY <1>24, <1>28, <2>2, <2>4, JoinedInstead
  <2>. QED BY ONLY <2>3, <2>5
<1>33. Content(t, t.blocks) = Joined(Q)
  <2>1. t.bytes \in Seq(Nat) /\ t.blocks \in Seq(Block) /\ AllFit(t.bytes, t.blocks)
    BY <1>14, <1>15, <1>21 DEF Whole
  <2>2. Content(t, t.blocks) = Joined(PiecesOf(t.bytes, t.blocks))
    BY ONLY <2>1, ContentIs
  <2>. QED BY ONLY <1>15, <1>29, <2>2
<1>. QED BY <1>12, <1>15, <1>16, <1>21, <1>22, <1>25, <1>26, <1>27, <1>32, <1>33

Raw(s) ==
  /\ s.lastp <= Len(s.bytes) /\ ~s.flattened /\ ~s.merged
  /\ \A x \in Own(s.blocks) : s.blocks[x].p + s.blocks[x].len <= s.lastp
  /\ OwnBytes(s.blocks, Own(s.blocks))
Referring(s, m) ==
  /\ \A x \in Refs(s) : \A y \in Refs(s) : x = y
  /\ Refs(s) # {} => WithSection /\ m = "root"
Stored(store) ==
  /\ store \in [Mems -> Memory]
  /\ \A m \in Mems : Sound(store[m]) /\ Referring(store[m], m)

\* What a pass fills is well formed.
LEMMA RawSound ==
  ASSUME NEW s \in Memory, Raw(s)
  PROVE  Sound(s)
<1>. SUFFICES ASSUME NEW x \in 1 .. Len(s.blocks), s.blocks[x].ref = NoMem
              PROVE  Fits(s.bytes, s.blocks[x])
  BY DEF Sound, Memory
<1>1. PICK b \in Block : b = s.blocks[x]
  BY DEF Memory
<1>2. PICK lp \in Nat, l \in Nat : lp = s.lastp /\ l = Len(s.bytes)
  BY DEF Memory
<1>3. b.p + b.len <= lp /\ lp <= l
  BY <1>1, <1>2 DEF Raw, Own
<1>4. b.p + b.len \in Nat
  BY DEF Block
<1>. QED BY <1>1, <1>2, <1>3, <1>4 DEF Fits

\* One more block is the last one.
LEMMA AppendBlock ==
  ASSUME NEW bs \in Seq(Block), NEW x \in Block
  PROVE  /\ Append(bs, x) \in Seq(Block) /\ Len(Append(bs, x)) = Len(bs) + 1
         /\ \A y \in 1 .. Len(bs) : Append(bs, x)[y] = bs[y]
         /\ Append(bs, x)[Len(bs) + 1] = x
OBVIOUS

\* One more block behind the others
With(s, x, lp, la) == [s EXCEPT !.blocks = Append(@, x), !.lastp = lp, !.lastaddr = la]

\* One more block: the other fields.
LEMMA WithIs ==
  ASSUME NEW s \in Memory, NEW x \in Block, NEW lp \in Nat, NEW la \in Int
  PROVE  /\ With(s, x, lp, la) \in Memory
         /\ With(s, x, lp, la).bytes = s.bytes /\ With(s, x, lp, la).blocks = Append(s.blocks, x)
         /\ With(s, x, lp, la).lastp = lp
         /\ With(s, x, lp, la).flattened = s.flattened /\ With(s, x, lp, la).merged = s.merged
<1>0. s.blocks \in Seq(Block)
  BY DEF Memory
<1>1. PICK bs \in Seq(Block) : bs = Append(s.blocks, x)
  BY ONLY <1>0, AppendBlock, x \in Block
<1>2. PICK s1 : s1 = [s EXCEPT !.blocks = bs]
  OBVIOUS
<1>3. s1 \in Memory /\ s1.bytes = s.bytes /\ s1.blocks = bs /\ s1.flattened = s.flattened /\ s1.merged = s.merged
  BY <1>2 DEF Memory
<1>4. PICK s2 : s2 = [s1 EXCEPT !.lastp = lp]
  OBVIOUS
<1>5. s2 \in Memory /\ s2.bytes = s.bytes /\ s2.blocks = bs /\ s2.flattened = s.flattened /\ s2.merged = s.merged
      /\ s2.lastp = lp
  BY <1>3, <1>4 DEF Memory
<1>6. PICK s3 : s3 = [s2 EXCEPT !.lastaddr = la]
  OBVIOUS
<1>7. s3 \in Memory /\ s3.bytes = s.bytes /\ s3.blocks = bs /\ s3.flattened = s.flattened /\ s3.merged = s.merged
      /\ s3.lastp = lp
  BY <1>5, <1>6 DEF Memory
<1>8. s3 = With(s, x, lp, la)
  BY ONLY <1>1, <1>2, <1>4, <1>6 DEF With
<1>. QED BY ONLY <1>1, <1>7, <1>8

\* A block of its own, with all pending bytes, and one for a section
LEMMA WithOwn ==
  ASSUME NEW s \in Memory, Raw(s), NEW x \in Block, x.ref = NoMem, x.p = s.lastp,
         NEW lp \in Nat, x.p + x.len = lp, lp = Len(s.bytes), NEW la \in Int, NEW m, Referring(s, m)
  PROVE  Raw(With(s, x, lp, la)) /\ Referring(With(s, x, lp, la), m)
<1>1. PICK bs \in Seq(Block) : bs = s.blocks
  BY DEF Memory
<1>0. PICK n \in Nat : n = Len(bs)
  OBVIOUS
<1>2. PICK ds \in Seq(Block) :
        /\ ds = Append(bs, x) /\ n = Len(bs) /\ Len(ds) = n + 1
        /\ \A y \in 1 .. n : ds[y] = bs[y]
        /\ ds[n + 1] = x
  BY ONLY <1>0, AppendBlock, x \in Block, bs \in Seq(Block)
<1>3. PICK t : t = With(s, x, lp, la)
  OBVIOUS
<1>4. t.bytes = s.bytes /\ t.blocks = ds /\ t.lastp = lp /\ t.flattened = s.flattened /\ t.merged = s.merged
  <2>1. /\ With(s, x, lp, la).bytes = s.bytes /\ With(s, x, lp, la).blocks = Append(s.blocks, x)
        /\ With(s, x, lp, la).lastp = lp
        /\ With(s, x, lp, la).flattened = s.flattened /\ With(s, x, lp, la).merged = s.merged
    BY ONLY WithIs, s \in Memory, x \in Block, lp \in Nat, la \in Int
  <2>. QED BY ONLY <1>1, <1>2, <1>3, <2>1
<1>5. PICK op \in Nat, xp \in Nat, xl \in Nat : op = s.lastp /\ xp = x.p /\ xl = x.len
  BY DEF Memory, Block
<1>6. ASSUME NEW y \in Own(ds) PROVE y = n + 1 \/ (y \in Own(bs) /\ ds[y] = bs[y] /\ y < n + 1)
  <2>1. y \in 1 .. n + 1 /\ ds[y].ref = NoMem
    BY <1>2 DEF Own
  <2>2. CASE y \in 1 .. n
    BY <1>2, <2>1, <2>2 DEF Own
  <2>. QED BY <2>1, <2>2
<1>7. ASSUME NEW y \in Own(bs)
      PROVE  bs[y].p + bs[y].len <= op /\ bs[y].p + bs[y].len <= lp
  <2>0. PICK c \in Block : c = bs[y]
    BY DEF Own
  <2>1. PICK e \in Nat, l \in Nat : e = bs[y].p /\ l = bs[y].len
    BY <2>0 DEF Block
  <2>2. e + l <= op
    BY <1>1, <1>5, <2>1 DEF Raw
  <2>3. op <= lp
    BY <1>5
  <2>. QED BY <2>1, <2>2, <2>3
<1>8. ASSUME NEW y \in Own(ds) PROVE ds[y].p + ds[y].len <= lp
  <2>1. CASE y = n + 1
    <3>1. ds[y] = x
      BY <1>2, <2>1
    <3>. QED BY <1>5, <3>1
  <2>2. CASE y \in Own(bs) /\ ds[y] = bs[y]
    BY <1>7, <2>2
  <2>. QED BY <1>6, <2>1, <2>2
<1>9. OwnBytes(ds, Own(ds))
  <2>. SUFFICES ASSUME NEW y \in Own(ds), NEW z \in Own(ds), y < z PROVE BytesApart(ds[y], ds[z])
    BY DEF OwnBytes
  <2>1. y \in Own(bs) /\ ds[y] = bs[y]
    BY <1>2, <1>6 DEF Own
  <2>2. CASE z = n + 1
    BY <1>2, <1>5, <1>7, <2>1, <2>2 DEF BytesApart
  <2>3. CASE z \in Own(bs) /\ ds[z] = bs[z]
    BY <1>1, <2>1, <2>3 DEF Raw, OwnBytes
  <2>. QED BY <1>6, <2>2, <2>3
<1>10. Raw(t)
  BY <1>4, <1>8, <1>9 DEF Raw
<1>11. Refs(t) = Refs(s)
  <2>1. ASSUME NEW y PROVE y \in Refs(t) <=> y \in Refs(s)
    <3>1. y \in Refs(t) <=> y \in 1 .. n + 1 /\ ds[y].ref # NoMem
      BY <1>2, <1>4 DEF Refs
    <3>2. y \in Refs(s) <=> y \in 1 .. n /\ bs[y].ref # NoMem
      BY <1>1, <1>2 DEF Refs
    <3>3. y \in 1 .. n + 1 <=> y \in 1 .. n \/ y = n + 1
      OBVIOUS
    <3>. QED BY <1>2, <3>1, <3>2, <3>3
  <2>. QED BY <2>1
<1>12. Referring(t, m)
  BY <1>11 DEF Referring
<1>. QED BY <1>3, <1>10, <1>12

\* A block that stands for the section leaves the pending bytes alone.
LEMMA WithSec ==
  ASSUME NEW s \in Memory, Raw(s), NEW x \in Block, x.ref # NoMem, NEW la \in Int, Refs(s) = {}, WithSection
  PROVE  Raw(With(s, x, s.lastp, la)) /\ Referring(With(s, x, s.lastp, la), "root")
<1>1. PICK bs \in Seq(Block) : bs = s.blocks
  BY DEF Memory
<1>0. PICK n \in Nat : n = Len(bs)
  OBVIOUS
<1>2. PICK ds \in Seq(Block) :
        /\ ds = Append(bs, x) /\ n = Len(bs) /\ Len(ds) = n + 1
        /\ \A y \in 1 .. n : ds[y] = bs[y]
        /\ ds[n + 1] = x
  BY ONLY <1>0, AppendBlock, x \in Block, bs \in Seq(Block)
<1>3. PICK lp \in Nat : lp = s.lastp
  BY DEF Memory
<1>4. PICK t : t = With(s, x, lp, la)
  OBVIOUS
<1>5. t.bytes = s.bytes /\ t.blocks = ds /\ t.lastp = lp /\ t.flattened = s.flattened /\ t.merged = s.merged
  <2>1. /\ With(s, x, lp, la).bytes = s.bytes /\ With(s, x, lp, la).blocks = Append(s.blocks, x)
        /\ With(s, x, lp, la).lastp = lp
        /\ With(s, x, lp, la).flattened = s.flattened /\ With(s, x, lp, la).merged = s.merged
    BY ONLY WithIs, s \in Memory, x \in Block, lp \in Nat, la \in Int
  <2>. QED BY ONLY <1>1, <1>2, <1>4, <2>1
<1>6. ASSUME NEW y \in Own(ds) PROVE y \in Own(bs) /\ ds[y] = bs[y]
  <2>1. y \in 1 .. n + 1 /\ ds[y].ref = NoMem
    BY <1>2 DEF Own
  <2>2. y \in 1 .. n
    BY <1>2, <2>1
  <2>. QED BY <1>2, <2>1, <2>2 DEF Own
<1>7. Raw(t)
  <2>1. \A y \in Own(ds) : ds[y].p + ds[y].len <= lp
    BY <1>1, <1>3, <1>6 DEF Raw
  <2>2. OwnBytes(ds, Own(ds))
    BY <1>1, <1>6 DEF Raw, OwnBytes
  <2>. QED BY <1>3, <1>5, <2>1, <2>2 DEF Raw
<1>8. Refs(t) \subseteq {n + 1}
  <2>1. ASSUME NEW y \in Refs(t) PROVE y = n + 1
    <3>1. y \in 1 .. n + 1 /\ ds[y].ref # NoMem
      BY <1>2, <1>5 DEF Refs
    <3>2. CASE y \in 1 .. n
      BY <1>1, <1>2, <3>1, <3>2 DEF Refs
    <3>. QED BY <3>1, <3>2
  <2>. QED BY <2>1
<1>. QED BY <1>3, <1>4, <1>7, <1>8 DEF Referring

Filling(s, m) == s \in Memory /\ Raw(s) /\ Referring(s, m)

\* A jump closes the pending bytes with a block of their own (memjmp).
LEMMA JmpKeeps ==
  ASSUME NEW s, NEW m, Filling(s, m), NEW adr \in Int
  PROVE  Filling(MemJmp(s, adr), m)
<1>0. s \in Memory /\ Raw(s) /\ Referring(s, m)
  BY DEF Filling
<1>1. PICK lp \in Nat, la \in Int, g \in Seq(Nat) : lp = s.lastp /\ la = s.lastaddr /\ g = s.bytes
  BY <1>0 DEF Memory
<1>2. PICK l \in Nat : l = Len(g)
  OBVIOUS
<1>3. CASE l = lp
  <2>1. PICK t : t = [s EXCEPT !.lastaddr = adr]
    OBVIOUS
  <2>2. t \in Memory /\ t.bytes = s.bytes /\ t.blocks = s.blocks /\ t.lastp = s.lastp
        /\ t.flattened = s.flattened /\ t.merged = s.merged
    BY <1>0, <2>1 DEF Memory
  <2>3. MemJmp(s, adr) = t
    BY <1>1, <1>2, <1>3, <2>1 DEF MemJmp
  <2>4. Raw(t)
    BY <1>0, <2>2 DEF Raw
  <2>5. Refs(t) = Refs(s)
    BY <2>2 DEF Refs
  <2>. QED BY <1>0, <2>2, <2>3, <2>4, <2>5 DEF Filling, Referring
<1>4. CASE l # lp
  <2>1. PICK d \in Nat : d = l - lp /\ lp + d = l
    BY <1>0, <1>1, <1>2 DEF Raw
  <2>2. PICK x : x = [p |-> lp, addr |-> la, len |-> d, ref |-> NoMem]
    OBVIOUS
  <2>3. x \in Block /\ x.ref = NoMem /\ x.p = s.lastp /\ x.p + x.len = l
    BY <1>1, <2>1, <2>2 DEF Block
  <2>4. MemJmp(s, adr) = With(s, x, l, adr)
    BY <1>1, <1>2, <1>4, <2>1, <2>2 DEF MemJmp, With
  <2>5. With(s, x, l, adr) \in Memory
    BY ONLY <1>0, <2>3, l \in Nat, adr \in Int, WithIs
  <2>6. l = Len(s.bytes)
    BY <1>1, <1>2
  <2>7. Raw(With(s, x, l, adr)) /\ Referring(With(s, x, l, adr), m)
    BY ONLY <1>0, <2>3, <2>6, l \in Nat, adr \in Int, WithOwn
  <2>. QED BY ONLY <2>4, <2>5, <2>7 DEF Filling
<1>. QED BY <1>3, <1>4

\* A byte is added behind the pending ones, after a jump if it is elsewhere.
LEMMA AllocKeeps ==
  ASSUME NEW s, NEW m, Filling(s, m), NEW adr \in Int, made \in Nat
  PROVE  Filling(AllocMem(s, adr), m)
<1>1. PICK at : at = IF NextAddr(s) = adr THEN s ELSE MemJmp(s, adr)
  OBVIOUS
<1>2. Filling(at, m)
  BY <1>1, JmpKeeps
<1>3. PICK t : t = [at EXCEPT !.bytes = Append(@, made + 1)]
  OBVIOUS
<1>4. at \in Memory /\ Raw(at) /\ Referring(at, m)
  BY <1>2 DEF Filling
<1>5. PICK g \in Seq(Nat) : g = at.bytes
  BY <1>4 DEF Memory
<1>6. PICK h \in Seq(Nat) : h = Append(g, made + 1) /\ Len(h) = Len(g) + 1
  <2>1. PICK e \in Nat : e = made + 1
    OBVIOUS
  <2>2. Append(g, e) \in Seq(Nat) /\ Len(Append(g, e)) = Len(g) + 1
    BY ONLY g \in Seq(Nat), e \in Nat
  <2>. QED BY ONLY <2>1, <2>2
<1>7. t = [at EXCEPT !.bytes = h]
  BY <1>3, <1>5, <1>6
<1>8. t \in Memory /\ t.bytes = h /\ t.blocks = at.blocks /\ t.lastp = at.lastp
      /\ t.flattened = at.flattened /\ t.merged = at.merged
  BY ONLY <1>4, <1>7, h \in Seq(Nat) DEF Memory
<1>9. PICK lp \in Nat : lp = at.lastp
  BY <1>4 DEF Memory
<1>10. lp <= Len(h)
  <2>1. lp <= Len(g) /\ Len(g) \in Nat
    BY <1>4, <1>5, <1>9 DEF Raw
  <2>. QED BY <1>6, <2>1
<1>11. Raw(t)
  BY <1>4, <1>8, <1>9, <1>10 DEF Raw
<1>12. Refs(t) = Refs(at)
  BY <1>8 DEF Refs
<1>13. Filling(t, m)
  BY <1>4, <1>8, <1>11, <1>12 DEF Filling, Referring
<1>14. AllocMem(s, adr) = IF NextAddr(t) = Size THEN MemJmp(t, 0) ELSE t
  BY <1>1, <1>3 DEF AllocMem
<1>15. Filling(MemJmp(t, 0), m)
  BY <1>13, JmpKeeps
<1>. QED BY <1>13, <1>14, <1>15

\* The place of a section is one block that stands for it (memref).
LEMMA SectionKeeps ==
  ASSUME NEW s, Filling(s, "root"), NEW ln \in Nat, Refs(s) = {}, WithSection, NEW t,
         t = [s EXCEPT !.blocks = Append(@, [p |-> s.lastp, addr |-> NextAddr(s), len |-> ln, ref |-> "sec"])]
  PROVE  Filling(t, "root") /\ NextAddr(s) \in Int
<1>0. s \in Memory /\ Raw(s) /\ Referring(s, "root")
  BY DEF Filling
<1>1. PICK lp \in Nat, la \in Int, g \in Seq(Nat), bs \in Seq(Block) :
        lp = s.lastp /\ la = s.lastaddr /\ g = s.bytes /\ bs = s.blocks
  BY <1>0 DEF Memory
<1>2. PICK l \in Nat : l = Len(g)
  OBVIOUS
<1>3. PICK na \in Int : na = NextAddr(s) /\ na = la + l - lp
  BY <1>1, <1>2 DEF NextAddr
<1>4. PICK x : x = [p |-> lp, addr |-> na, len |-> ln, ref |-> "sec"]
  OBVIOUS
<1>5. x \in Block /\ x.ref # NoMem
  BY <1>4 DEF Block, NoMem
<1>6. PICK ds \in Seq(Block) : ds = Append(bs, x)
  BY ONLY <1>5, bs \in Seq(Block), AppendBlock
<1>7. t = [s EXCEPT !.blocks = ds]
  BY ONLY <1>1, <1>3, <1>4, <1>6,
          t = [s EXCEPT !.blocks = Append(@, [p |-> s.lastp, addr |-> NextAddr(s), len |-> ln, ref |-> "sec"])]
<1>8. t \in Memory /\ t.bytes = s.bytes /\ t.blocks = ds /\ t.lastp = s.lastp
      /\ t.flattened = s.flattened /\ t.merged = s.merged
  BY ONLY <1>0, <1>7, ds \in Seq(Block) DEF Memory
<1>9. PICK u : u = With(s, x, lp, la)
  OBVIOUS
<1>10. Raw(u) /\ Referring(u, "root")
  <2>1. Raw(With(s, x, s.lastp, la)) /\ Referring(With(s, x, s.lastp, la), "root")
    BY ONLY <1>0, <1>5, la \in Int, Refs(s) = {}, WithSection, WithSec
  <2>. QED BY ONLY <1>1, <1>9, <2>1
<1>11. u.bytes = s.bytes /\ u.blocks = Append(s.blocks, x) /\ u.lastp = lp
       /\ u.flattened = s.flattened /\ u.merged = s.merged
  <2>1. /\ With(s, x, lp, la).bytes = s.bytes /\ With(s, x, lp, la).blocks = Append(s.blocks, x)
        /\ With(s, x, lp, la).lastp = lp
        /\ With(s, x, lp, la).flattened = s.flattened /\ With(s, x, lp, la).merged = s.merged
    <3>1. s \in Memory /\ x \in Block
      BY ONLY <1>0, <1>5
    <3>2. With(s, x, lp, la).bytes = s.bytes
      BY ONLY <3>1, lp \in Nat, la \in Int, WithIs
    <3>3. With(s, x, lp, la).blocks = Append(s.blocks, x)
      BY ONLY <3>1, lp \in Nat, la \in Int, WithIs
    <3>4. With(s, x, lp, la).lastp = lp
      BY ONLY <3>1, lp \in Nat, la \in Int, WithIs
    <3>5. With(s, x, lp, la).flattened = s.flattened
      BY ONLY <3>1, lp \in Nat, la \in Int, WithIs
    <3>6. With(s, x, lp, la).merged = s.merged
      BY ONLY <3>1, lp \in Nat, la \in Int, WithIs
    <3>. QED BY ONLY <3>2, <3>3, <3>4, <3>5, <3>6
  <2>. QED BY ONLY <1>9, <2>1
<1>12. Raw(t)
  BY <1>1, <1>6, <1>8, <1>10, <1>11 DEF Raw
<1>13. Refs(t) = Refs(u)
  BY <1>1, <1>6, <1>8, <1>11 DEF Refs
<1>. QED BY <1>3, <1>8, <1>10, <1>12, <1>13 DEF Filling, Referring

(***************************************************************************)
(* What a memory stands for, with the section in it.                       *)
(***************************************************************************)
SecOf(store) == IF WithSection THEN Content(store["sec"], store["sec"].blocks) ELSE <<>>

\* What is known of one memory of the store.
LEMMA StoredIs ==
  ASSUME NEW store, Stored(store), NEW m \in Mems
  PROVE  /\ store[m] \in Memory /\ Sound(store[m]) /\ Referring(store[m], m)
         /\ store[m].bytes \in Seq(Nat) /\ store[m].blocks \in Seq(Block)
<1>1. store[m] \in Memory
  BY DEF Stored
<1>. QED BY <1>1 DEF Stored, Memory

\* Without a section all blocks of a memory are its own.
LEMMA SoundWhole ==
  ASSUME NEW s, Sound(s), Refs(s) = {}
  PROVE  Whole(s.bytes, s.blocks)
<1>1. \A x \in 1 .. Len(s.blocks) : s.blocks[x].ref = NoMem
  BY DEF Refs, Sound
<1>. QED BY <1>1 DEF Sound, Whole, AllFit

\* And the other way round.
LEMMA WholeSound ==
  ASSUME NEW s, Whole(s.bytes, s.blocks)
  PROVE  Sound(s) /\ Refs(s) = {}
BY DEF Refs, Sound, Whole, AllFit

\* The section stands for a sequence of places; its blocks are its own.
LEMMA SecIs ==
  ASSUME NEW store, Stored(store)
  PROVE  /\ SecOf(store) \in Seq(Places)
         /\ WithSection => "sec" \in Mems /\ Whole(store["sec"].bytes, store["sec"].blocks)
<1>1. CASE WithSection
  <2>1. "sec" \in Mems
    BY <1>1 DEF Mems
  <2>2. Sound(store["sec"]) /\ Refs(store["sec"]) = {}
    BY <2>1, StoredIs DEF Referring
  <2>3. PICK e : e = store["sec"]
    OBVIOUS
  <2>4. Whole(e.bytes, e.blocks)
    BY <2>2, <2>3, SoundWhole
  <2>5. Content(e, e.blocks) \in Seq(Places)
    BY <2>4, ContentType DEF Whole
  <2>. QED BY <1>1, <2>1, <2>3, <2>4, <2>5 DEF SecOf
<1>2. CASE ~WithSection
  BY <1>2 DEF SecOf
<1>. QED BY <1>1, <1>2

\* Each memory stands for a sequence of places.
LEMMA ExpandAll ==
  ASSUME NEW store, Stored(store), NEW m \in Mems
  PROVE  /\ Expand(store, m) = Joined(Parts(store[m], SecOf(store)))
         /\ Expand(store, m) \in Seq(Places)
<1>1. Sound(store[m]) /\ Referring(store[m], m)
  BY StoredIs
<1>2. SecOf(store) \in Seq(Places)
  BY SecIs
<1>3. \A i \in 1 .. Len(store[m].blocks) :
        store[m].blocks[i].ref # NoMem => SecOf(store) = Content(store["sec"], store["sec"].blocks)
  <2>. SUFFICES ASSUME NEW i \in 1 .. Len(store[m].blocks), store[m].blocks[i].ref # NoMem
                PROVE  WithSection
    BY DEF SecOf
  <2>1. i \in Refs(store[m])
    BY <1>1 DEF Refs, Sound
  <2>. QED BY <1>1, <2>1 DEF Referring
<1>4. PICK c \in Seq(Places) : c = SecOf(store)
  BY <1>2
<1>5. Expand(store, m) = Joined(Parts(store[m], c))
  BY ONLY <1>1, <1>3, <1>4, c \in Seq(Places), ExpandIs
<1>6. Parts(store[m], c) \in Pieces
  BY ONLY <1>1, c \in Seq(Places), PartsType
<1>7. Joined(Parts(store[m], c)) \in Seq(Places)
  BY ONLY <1>6, JoinedType
<1>. QED BY ONLY <1>4, <1>5, <1>7

\* Without a section in it a memory stands for what a writer would put out.
LEMMA ExpandClosed ==
  ASSUME NEW store, Stored(store), NEW m \in Mems, Refs(store[m]) = {}
  PROVE  /\ Whole(store[m].bytes, store[m].blocks)
         /\ Expand(store, m) = Content(store[m], store[m].blocks)
<1>1. PICK s : s = store[m]
  OBVIOUS
<1>2. Whole(s.bytes, s.blocks)
  BY <1>1, StoredIs, SoundWhole
<1>3. Content(s, s.blocks) = Joined(PiecesOf(s.bytes, s.blocks))
  BY <1>2, ContentIs DEF Whole
<1>4. Parts(s, SecOf(store)) = PiecesOf(s.bytes, s.blocks)
  BY <1>2 DEF Whole, Parts, PiecesOf
<1>5. Expand(store, m) = Joined(Parts(s, SecOf(store)))
  BY ONLY <1>1, ExpandAll, Stored(store), m \in Mems
<1>. QED BY ONLY <1>1, <1>2, <1>3, <1>4, <1>5

\* What a memory stands for depends on bytes and blocks only.
LEMMA SameData ==
  ASSUME NEW store, Stored(store), NEW other, Stored(other),
         \A l \in Mems : other[l].bytes = store[l].bytes /\ other[l].blocks = store[l].blocks,
         NEW m \in Mems
  PROVE  Expand(other, m) = Expand(store, m)
<1>1. SecOf(other) = SecOf(store)
  <2>1. CASE WithSection
    <3>1. "sec" \in Mems
      BY <2>1 DEF Mems
    <3>2. Content(other["sec"], other["sec"].blocks) = Content(store["sec"], store["sec"].blocks)
      <4>1. PICK e, f : e = store["sec"] /\ f = other["sec"]
        OBVIOUS
      <4>2. f.bytes = e.bytes /\ f.blocks = e.blocks
        BY <3>1, <4>1
      <4>3. Whole(e.bytes, e.blocks) /\ Whole(f.bytes, f.blocks)
        BY ONLY <2>1, <4>1, SecIs, Stored(store), Stored(other)
      <4>4. Content(e, e.blocks) = Joined(PiecesOf(e.bytes, e.blocks))
        BY ONLY <4>3, ContentIs DEF Whole
      <4>5. Content(f, f.blocks) = Joined(PiecesOf(f.bytes, f.blocks))
        BY ONLY <4>3, ContentIs DEF Whole
      <4>. QED BY ONLY <4>1, <4>2, <4>4, <4>5
    <3>. QED BY <2>1, <3>2 DEF SecOf
  <2>. QED BY <2>1 DEF SecOf
<1>2. Parts(other[m], SecOf(other)) = Parts(store[m], SecOf(store))
  <2>1. PICK c : c = SecOf(store)
    OBVIOUS
  <2>2. Parts(other[m], c) = Parts(store[m], c)
    BY DEF Parts, Bytes
  <2>. QED BY ONLY <1>1, <2>1, <2>2
<1>3. Expand(other, m) = Joined(Parts(other[m], SecOf(other)))
  BY ONLY ExpandAll, Stored(other), m \in Mems
<1>4. Expand(store, m) = Joined(Parts(store[m], SecOf(store)))
  BY ONLY ExpandAll, Stored(store), m \in Mems
<1>. QED BY ONLY <1>2, <1>3, <1>4

\* Having the same image is transitive and symmetric.
LEMMA SameTrans ==
  ASSUME NEW c, NEW d, NEW e, SameImage(c, d), SameImage(d, e)
  PROVE  SameImage(c, e) /\ SameImage(d, c)
BY DEF SameImage

\* Other blocks with the same image for one memory
Turned(store, m, t) == [store EXCEPT ![m] = t]

\* The store with one memory replaced.
LEMMA TurnedStored ==
  ASSUME NEW store, Stored(store), NEW m \in Mems, NEW t \in Memory, Sound(t), Referring(t, m)
  PROVE  /\ Stored(Turned(store, m, t)) /\ Turned(store, m, t)[m] = t
         /\ \A l \in Mems : l # m => Turned(store, m, t)[l] = store[l]
BY DEF Stored, Turned

\* Blocks that are all of the memory itself stand for no section.
LEMMA WholeReferring ==
  ASSUME NEW t, Whole(t.bytes, t.blocks), NEW m
  PROVE  Sound(t) /\ Referring(t, m) /\ Refs(t) = {}
BY WholeSound DEF Referring

\* If one memory shows the same as before, so does each one that it is in.
LEMMA TurnKeeps ==
  ASSUME NEW store, Stored(store), NEW m \in Mems, Refs(store[m]) = {},
         NEW t \in Memory, Whole(t.bytes, t.blocks),
         SameShown(store[m].bytes, store[m].blocks, 1 .. Len(store[m].blocks),
                   t.bytes, t.blocks, 1 .. Len(t.blocks)),
         NEW l \in Mems
  PROVE  Stored(Turned(store, m, t)) /\ SameImage(Expand(Turned(store, m, t), l), Expand(store, l))
<1>1. PICK s : s = store[m]
  OBVIOUS
<1>2. Sound(t) /\ Referring(t, m) /\ Refs(t) = {}
  BY WholeReferring
<1>3. PICK other : other = Turned(store, m, t)
  OBVIOUS
<1>4. Stored(other) /\ other[m] = t /\ \A n \in Mems : n # m => other[n] = store[n]
  BY ONLY <1>2, <1>3, Stored(store), m \in Mems, t \in Memory, TurnedStored
<1>5. Whole(s.bytes, s.blocks) /\ Expand(store, m) = Content(s, s.blocks)
  BY ONLY <1>1, ExpandClosed, Stored(store), m \in Mems, Refs(store[m]) = {}
<1>6. Expand(other, m) = Content(t, t.blocks)
  BY ONLY <1>2, <1>4, ExpandClosed, m \in Mems
<1>7. SameImage(Content(t, t.blocks), Content(s, s.blocks))
  <2>. SUFFICES ASSUME NEW a \in Int, NEW v \in Int
                PROVE  Says(Content(t, t.blocks), a, v) <=> Says(Content(s, s.blocks), a, v)
    BY Zenon DEF SameImage
  <2>1. s.bytes \in Seq(Nat) /\ s.blocks \in Seq(Block) /\ AllFit(s.bytes, s.blocks)
    BY ONLY <1>5 DEF Whole
  <2>2. t.bytes \in Seq(Nat) /\ t.blocks \in Seq(Block) /\ AllFit(t.bytes, t.blocks)
    BY DEF Whole
  <2>3. Says(Content(s, s.blocks), a, v) <=> Shows(s.bytes, s.blocks, 1 .. Len(s.blocks), a, v)
    BY ONLY <2>1, a \in Int, v \in Int, ContentSays
  <2>4. Says(Content(t, t.blocks), a, v) <=> Shows(t.bytes, t.blocks, 1 .. Len(t.blocks), a, v)
    BY ONLY <2>2, a \in Int, v \in Int, ContentSays
  <2>5. Shows(s.bytes, s.blocks, 1 .. Len(s.blocks), a, v) <=> Shows(t.bytes, t.blocks, 1 .. Len(t.blocks), a, v)
    BY <1>1 DEF SameShown
  <2>. QED BY ONLY <2>3, <2>4, <2>5
<1>8. CASE l = m
  BY ONLY <1>3, <1>4, <1>5, <1>6, <1>7, <1>8
<1>9. CASE l # m
  <2>1. SameImage(SecOf(other), SecOf(store))
    <3>1. CASE WithSection /\ m = "sec"
      <4>1. SecOf(other) = Content(t, t.blocks)
        BY <1>4, <3>1 DEF SecOf
      <4>2. SecOf(store) = Content(s, s.blocks)
        BY <1>1, <3>1 DEF SecOf
      <4>. QED BY ONLY <1>7, <4>1, <4>2
    <3>2. CASE WithSection /\ m # "sec"
      <4>1. other["sec"] = store["sec"]
        BY <1>4, <3>2 DEF Mems
      <4>2. SecOf(other) = SecOf(store)
        BY ONLY <4>1 DEF SecOf
      <4>. QED BY ONLY <4>2, SameItself
    <3>3. CASE ~WithSection
      <4>1. SecOf(other) = SecOf(store)
        BY ONLY <3>3 DEF SecOf
      <4>. QED BY ONLY <4>1, SameItself
    <3>. QED BY <3>1, <3>2, <3>3
  <2>2. PICK c \in Seq(Places), d \in Seq(Places) : c = SecOf(other) /\ d = SecOf(store)
    BY ONLY <1>4, SecIs, Stored(store)
  <2>3. Sound(store[l])
    BY ONLY StoredIs, Stored(store), l \in Mems
  <2>4. PICK e : e = store[l]
    OBVIOUS
  <2>5. SameImage(Joined(Parts(e, c)), Joined(Parts(e, d)))
    BY ONLY <2>1, <2>2, <2>3, <2>4, SameParts, c \in Seq(Places), d \in Seq(Places)
  <2>6. Expand(other, l) = Joined(Parts(other[l], SecOf(other)))
    BY ONLY <1>4, ExpandAll, l \in Mems
  <2>7. Expand(store, l) = Joined(Parts(store[l], SecOf(store)))
    BY ONLY Stored(store), ExpandAll, l \in Mems
  <2>8. other[l] = e
    BY <1>4, <1>9, <2>4
  <2>. QED BY ONLY <1>3, <1>4, <2>2, <2>4, <2>5, <2>6, <2>7, <2>8
<1>. QED BY ONLY <1>8, <1>9

\* Putting the blocks of the section in its place keeps what all memories stand for.
LEMMA SpliceKeeps ==
  ASSUME NEW store, Stored(store), WithSection, Refs(store["root"]) # {},
         OwnBytes(store["root"].blocks, Own(store["root"].blocks)),
         NEW t, t = Spliced(store["root"], store["sec"]), NEW l \in Mems
  PROVE  /\ t \in Memory /\ t.flattened = store["root"].flattened /\ t.merged = store["root"].merged
         /\ Whole(t.bytes, t.blocks) /\ OwnBytes(t.blocks, 1 .. Len(t.blocks))
         /\ Stored(Turned(store, "root", t))
         /\ Expand(Turned(store, "root", t), l) = Expand(store, l)
<1>1. PICK s, b : s = store["root"] /\ b = store["sec"]
  OBVIOUS
<1>2. "root" \in Mems /\ "sec" \in Mems
  BY DEF Mems
<1>3. s \in Memory /\ Sound(s) /\ Referring(s, "root")
  BY ONLY <1>1, <1>2, Stored(store), StoredIs
<1>4. Whole(b.bytes, b.blocks)
  BY ONLY <1>1, Stored(store), WithSection, SecIs
<1>5. PICK j \in Refs(s) : \A x \in Refs(s) : x = j
  BY <1>1, <1>3 DEF Referring
<1>6. OwnBytes(s.blocks, Own(s.blocks)) /\ t = Spliced(s, b)
  BY ONLY <1>1, OwnBytes(store["root"].blocks, Own(store["root"].blocks)), t = Spliced(store["root"], store["sec"])
<1>7. /\ t \in Memory /\ t.flattened = s.flattened /\ t.merged = s.merged
      /\ Whole(t.bytes, t.blocks) /\ OwnBytes(t.blocks, 1 .. Len(t.blocks))
      /\ Content(t, t.blocks) = Joined(Parts(s, Content(b, b.blocks)))
  BY ONLY <1>3, <1>4, <1>5, <1>6, j \in Refs(s), SplicedIs
<1>8. PICK other : other = Turned(store, "root", t)
  OBVIOUS
<1>9. Sound(t) /\ Referring(t, "root") /\ Refs(t) = {}
  BY ONLY <1>7, WholeReferring
<1>10. Stored(other) /\ other["root"] = t /\ \A n \in Mems : n # "root" => other[n] = store[n]
  BY ONLY <1>2, <1>7, <1>8, <1>9, Stored(store), TurnedStored
<1>11. other["sec"] = b
  BY <1>1, <1>2, <1>10
<1>12. Expand(other, l) = Expand(store, l)
  <2>1. CASE l = "root"
    <3>1. Expand(other, "root") = Content(t, t.blocks)
      BY ONLY <1>2, <1>9, <1>10, ExpandClosed
    <3>2. Expand(store, "root") = Joined(Parts(s, SecOf(store)))
      BY ONLY <1>1, <1>2, Stored(store), ExpandAll
    <3>3. SecOf(store) = Content(b, b.blocks)
      BY <1>1 DEF SecOf
    <3>. QED BY ONLY <1>7, <2>1, <3>1, <3>2, <3>3
  <2>2. CASE l # "root"
    <3>1. Expand(other, l) = Joined(Parts(other[l], SecOf(other)))
      BY ONLY <1>10, ExpandAll, l \in Mems
    <3>2. Expand(store, l) = Joined(Parts(store[l], SecOf(store)))
      BY ONLY Stored(store), ExpandAll, l \in Mems
    <3>3. SecOf(other) = SecOf(store)
      BY ONLY <1>1, <1>11 DEF SecOf
    <3>. QED BY <1>10, <2>2, <3>1, <3>2, <3>3
  <2>. QED BY <2>1, <2>2
<1>. QED BY ONLY <1>1, <1>7, <1>8, <1>10, <1>12

(***************************************************************************)
(* The invariant of the outputs, over a store of memories.                 *)
(***************************************************************************)
Frames == [mem : Mems, at : {"enter", "splice", "merge"}, i : Nat, j : Nat, k : Nat]
Formats == [mem : Mems, keep : BOOLEAN]
Active(st, m, at) == \E d \in 1 .. Len(st) : st[d].mem = m /\ st[d].at = at

Activations(out, st) ==
  /\ st \in Seq(Frames) /\ Len(st) <= 2
  /\ IF out = NoOutput THEN st = <<>> ELSE out \in Formats
  /\ Len(st) >= 1 => st[1].mem = out.mem
  /\ Len(st) = 2 => st[1].at = "splice" /\ st[2].mem = "sec" /\ st[2].at # "splice"
  /\ \A d \in 1 .. Len(st) : /\ st[d].at = "splice" => st[d].mem = "root" /\ WithSection
                             /\ st[d].at # "merge" => st[d].k = 0

Unmerged(s) == ~s.merged => OwnBytes(s.blocks, Own(s.blocks))
Flat(s, m, st) == s.flattened => Refs(s) = {} \/ Active(st, m, "splice")
Merged(s, m, st) == s.merged => s.flattened /\ (Neat(s.blocks) \/ Active(st, m, "merge"))
Splicing(s) == s.flattened /\ ~s.merged /\ Refs(s) # {}
MergingAt(s, f) == s.flattened /\ s.merged /\ Refs(s) = {} /\ Merges(s.bytes, s.blocks, f.i, f.j, f.k)
Complete(s, keep) == s.flattened /\ (keep \/ Len(s.blocks) < 2 \/ Neat(s.blocks))

Progress(store, out, st) ==
  /\ \A m \in Mems : Unmerged(store[m]) /\ Flat(store[m], m, st) /\ Merged(store[m], m, st)
  /\ \A d \in 1 .. Len(st) :
       /\ st[d].at = "splice" => Splicing(store[st[d].mem])
       /\ st[d].at = "merge" => ~out.keep /\ MergingAt(store[st[d].mem], st[d])
  /\ out # NoOutput /\ st = <<>> => Complete(store[out.mem], out.keep)

AllKeep(out, fs) == (out # NoOutput => out.keep) /\ \A n \in DOMAIN fs : fs[n].keep
Images(store, src, out, fs) ==
  \A m \in Mems : /\ SameImage(Expand(store, m), Expand(src, m))
                  /\ AllKeep(out, fs) => Expand(store, m) = Expand(src, m)

Writing(store, src, out, st, fs) ==
  Stored(store) /\ Activations(out, st) /\ Progress(store, out, st) /\ Images(store, src, out, fs)

\* Only flags are set.
LEMMA FlagKeeps ==
  ASSUME NEW store, Stored(store), NEW m \in Mems, NEW t \in Memory,
         t.bytes = store[m].bytes, t.blocks = store[m].blocks, NEW l \in Mems
  PROVE  /\ Stored(Turned(store, m, t)) /\ Expand(Turned(store, m, t), l) = Expand(store, l)
         /\ Refs(t) = Refs(store[m])
<1>1. Sound(store[m]) /\ Referring(store[m], m)
  BY StoredIs
<1>2. Refs(t) = Refs(store[m])
  BY DEF Refs
<1>3. Sound(t) /\ Referring(t, m)
  BY <1>1, <1>2 DEF Sound, Referring
<1>4. PICK other : other = Turned(store, m, t)
  OBVIOUS
<1>5. Stored(other) /\ other[m] = t /\ \A n \in Mems : n # m => other[n] = store[n]
  BY ONLY <1>3, <1>4, Stored(store), m \in Mems, t \in Memory, TurnedStored
<1>6. ASSUME NEW n \in Mems PROVE other[n].bytes = store[n].bytes /\ other[n].blocks = store[n].blocks
  BY <1>5
<1>7. Expand(other, l) = Expand(store, l)
  BY ONLY <1>5, <1>6, Stored(store), l \in Mems, SameData
<1>. QED BY ONLY <1>2, <1>4, <1>5, <1>7

\* The image of each memory stays what it is.
LEMMA ImagesSame ==
  ASSUME NEW store, NEW src, NEW out, NEW fs, Images(store, src, out, fs), NEW other,
         \A l \in Mems : Expand(other, l) = Expand(store, l)
  PROVE  Images(other, src, out, fs)
BY DEF Images

\* If each memory has the same image as before, it has that of the source, which is
\* enough for outputs of which not all keep overlapping blocks.
LEMMA ImagesKept ==
  ASSUME NEW store, NEW src, NEW out, NEW fs, Images(store, src, out, fs), NEW other,
         \A l \in Mems : SameImage(Expand(other, l), Expand(store, l)), ~AllKeep(out, fs)
  PROVE  Images(other, src, out, fs)
<1>. SUFFICES ASSUME NEW l \in Mems PROVE SameImage(Expand(other, l), Expand(src, l))
  BY DEF Images
<1>1. SameImage(Expand(store, l), Expand(src, l))
  BY DEF Images
<1>. QED BY <1>1, SameTrans

\* A stack of one activation.
LEMMA OneFrame ==
  ASSUME NEW S, NEW f \in S
  PROVE  <<f>> \in Seq(S) /\ Len(<<f>>) = 1 /\ <<f>>[1] = f
OBVIOUS

\* A stack of two.
LEMMA TwoFrames ==
  ASSUME NEW S, NEW f \in S, NEW g \in S
  PROVE  <<f, g>> \in Seq(S) /\ Len(<<f, g>>) = 2 /\ <<f, g>>[1] = f /\ <<f, g>>[2] = g
OBVIOUS

\* The first activation
LEMMA FirstFrame ==
  ASSUME NEW store, NEW src, NEW fs, Writing(store, src, NoOutput, <<>>, fs), NEW m \in Mems, NEW keep \in BOOLEAN,
         NEW out, out = [mem |-> m, keep |-> keep]
  PROVE  Writing(store, src, out, <<Frame(m)>>, fs)
<1>1. PICK f : f = Frame(m)
  OBVIOUS
<1>2. f \in Frames /\ f.mem = m /\ f.at = "enter" /\ f.k = 0
  BY <1>1 DEF Frame, Frames
<1>3. PICK st : st = <<f>> /\ st \in Seq(Frames) /\ Len(st) = 1 /\ st[1] = f
  BY ONLY <1>2, OneFrame
<1>4. out \in Formats /\ out.mem = m /\ out # NoOutput
  <2>1. m # NoMem
    BY DEF Mems, NoMem
  <2>2. NoOutput.mem = NoMem
    BY DEF NoOutput
  <2>. QED BY <2>1, <2>2 DEF Formats
<1>5. Activations(out, st)
  BY <1>2, <1>3, <1>4 DEF Activations
<1>6. Progress(store, out, st)
  <2>1. ASSUME NEW l \in Mems PROVE Unmerged(store[l]) /\ Flat(store[l], l, st) /\ Merged(store[l], l, st)
    <3>1. ~Active(<<>>, l, "splice") /\ ~Active(<<>>, l, "merge")
      BY DEF Active
    <3>2. Unmerged(store[l]) /\ Flat(store[l], l, <<>>) /\ Merged(store[l], l, <<>>)
      BY DEF Writing, Progress
    <3>. QED BY <3>1, <3>2 DEF Flat, Merged
  <2>. QED BY <1>2, <1>3, <2>1 DEF Progress
<1>7. Images(store, src, out, fs)
  <2>1. AllKeep(out, fs) => AllKeep(NoOutput, fs)
    BY DEF AllKeep
  <2>. QED BY <2>1 DEF Writing, Images
<1>. QED BY <1>1, <1>3, <1>5, <1>6, <1>7 DEF Writing

\* An activation on top of one.
LEMMA AppendOne ==
  ASSUME NEW S, NEW f \in S, NEW g \in S
  PROVE  Append(<<f>>, g) = <<f, g>>
<1>1. PICK p : p = <<f>> /\ p \in Seq(S) /\ Len(p) = 1 /\ p[1] = f
  BY ONLY OneFrame, f \in S
<1>2. <<f, g>> \in Seq(S) /\ Len(<<f, g>>) = 2 /\ <<f, g>>[1] = f /\ <<f, g>>[2] = g
  OBVIOUS
<1>3. Append(p, g) \in Seq(S) /\ Len(Append(p, g)) = 2 /\ Append(p, g)[1] = f /\ Append(p, g)[2] = g
  <2>1. p \in Seq(S)
    BY <1>1
  <2>2. /\ Append(p, g) \in Seq(S) /\ Len(Append(p, g)) = Len(p) + 1
        /\ \A i \in 1 .. Len(p) : Append(p, g)[i] = p[i]
        /\ Append(p, g)[Len(p) + 1] = g
    BY ONLY <2>1, g \in S, AppendProperties
  <2>. QED BY ONLY <1>1, <2>2
<1>6. PICK q, r : q = <<f, g>> /\ r = Append(p, g)
  OBVIOUS
<1>4. \A i \in 1 .. Len(r) : r[i] = q[i]
  <2>1. \A i \in 1 .. 2 : i = 1 \/ i = 2
    OBVIOUS
  <2>. QED BY ONLY <1>2, <1>3, <1>6, <2>1
<1>5. r = q
  BY ONLY <1>2, <1>3, <1>4, <1>6, SeqEqual
<1>. QED BY ONLY <1>1, <1>5, <1>6

\* The stack has the last frame f, and, below it, perhaps the one that splices.
LEMMA TopIs ==
  ASSUME NEW out, NEW st, Activations(out, st), st # <<>>, NEW f, f = st[Len(st)]
  PROVE  /\ f \in Frames /\ out # NoOutput /\ out \in Formats
         /\ \/ Len(st) = 1 /\ st = <<f>> /\ f.mem = out.mem
            \/ Len(st) = 2 /\ st = <<st[1], f>> /\ f.mem = "sec" /\ f.at # "splice"
               /\ st[1] \in Frames /\ st[1].mem = "root" /\ st[1].at = "splice" /\ out.mem = "root"
         /\ f.at = "splice" => f.mem = "root" /\ WithSection
         /\ f.at # "merge" => f.k = 0
<1>1. st \in Seq(Frames) /\ Len(st) <= 2
  BY DEF Activations
<1>2. Len(st) \in {1, 2}
  <2>1. PICK l \in Nat : l = Len(st)
    BY <1>1
  <2>2. l # 0
    BY <1>1, <2>1
  <2>. QED BY ONLY <1>1, <2>1, <2>2
<1>3. f \in Frames
  BY <1>1, <1>2
<1>4. out # NoOutput /\ out \in Formats
  BY DEF Activations
<1>5. st[1].mem = out.mem
  BY <1>2 DEF Activations
<1>6. f.at = "splice" => f.mem = "root" /\ WithSection
  BY <1>2 DEF Activations
<1>7. f.at # "merge" => f.k = 0
  BY <1>2 DEF Activations
<1>8. CASE Len(st) = 1
  <2>1. st = <<f>>
    BY <1>1, <1>8
  <2>. QED BY <1>3, <1>4, <1>5, <1>6, <1>7, <1>8, <2>1
<1>9. CASE Len(st) = 2
  <2>1. st = <<st[1], f>>
    BY <1>1, <1>9
  <2>2. st[1] \in Frames
    BY <1>1, <1>9
  <2>3. st[1].at = "splice" /\ st[2].mem = "sec" /\ st[2].at # "splice"
    BY <1>9 DEF Activations
  <2>4. st[1].mem = "root"
    BY <1>9, <2>3 DEF Activations
  <2>. QED BY <1>3, <1>4, <1>5, <1>6, <1>7, <1>9, <2>1, <2>2, <2>3, <2>4
<1>. QED BY <1>2, <1>8, <1>9

Flattening(s) == [s EXCEPT !.flattened = TRUE]

\* Setting the first flag changes nothing else.
LEMMA FlatteningIs ==
  ASSUME NEW s \in Memory
  PROVE  /\ Flattening(s) \in Memory /\ Flattening(s).flattened
         /\ Flattening(s).bytes = s.bytes /\ Flattening(s).blocks = s.blocks
         /\ Flattening(s).merged = s.merged
BY DEF Memory, Flattening

\* memcomp sees a section, and calls itself for it first.
LEMMA EnterSplice ==
  ASSUME NEW store, NEW src, NEW out, NEW st, NEW fs, Writing(store, src, out, st, fs), st # <<>>,
         NEW f, f = st[Len(st)], f.at = "enter", ~store[f.mem].flattened, Refs(store[f.mem]) # {},
         NEW t, t = Flattening(store[f.mem]),
         NEW st2, st2 = Append([st EXCEPT ![Len(st)] = [f EXCEPT !.at = "splice"]], Frame("sec"))
  PROVE  Writing(Turned(store, f.mem, t), src, out, st2, fs)
<1>0. Stored(store) /\ Activations(out, st) /\ Progress(store, out, st) /\ Images(store, src, out, fs)
  BY DEF Writing
<1>1. f \in Frames /\ out # NoOutput /\ out \in Formats /\ f.k = 0
  BY ONLY <1>0, TopIs, st # <<>>, f = st[Len(st)], f.at = "enter"
<1>2. f.mem \in Mems
  BY <1>1 DEF Frames
<1>3. store[f.mem] \in Memory /\ Referring(store[f.mem], f.mem)
  BY <1>0, <1>2, StoredIs
<1>4. f.mem = "root" /\ WithSection
  BY <1>3 DEF Referring
<1>5. Len(st) = 1 /\ st = <<f>> /\ out.mem = "root"
  <2>1. \/ Len(st) = 1 /\ st = <<f>> /\ f.mem = out.mem
        \/ f.mem = "sec"
    BY ONLY <1>0, TopIs, st # <<>>, f = st[Len(st)]
  <2>. QED BY <1>4, <2>1
<1>6. PICK f2, g : f2 = [f EXCEPT !.at = "splice"] /\ g = Frame("sec")
  OBVIOUS
<1>7. f2 \in Frames /\ f2.mem = "root" /\ f2.at = "splice" /\ f2.k = 0
  BY <1>1, <1>4, <1>6 DEF Frames
<1>8. g \in Frames /\ g.mem = "sec" /\ g.at = "enter" /\ g.k = 0
  BY <1>4, <1>6 DEF Frame, Frames, Mems
<1>9. st2 = <<f2, g>>
  <2>1. [<<f>> EXCEPT ![1] = f2] = <<f2>>
    OBVIOUS
  <2>2. Append(<<f2>>, g) = <<f2, g>>
    <3>1. PICK S : S = Frames
      OBVIOUS
    <3>. QED BY ONLY <1>7, <1>8, <3>1, AppendOne
  <2>. QED BY <1>5, <1>6, <2>1, <2>2
<1>10. st2 \in Seq(Frames) /\ Len(st2) = 2 /\ st2[1] = f2 /\ st2[2] = g
  BY ONLY <1>7, <1>8, <1>9, TwoFrames
<1>11. Activations(out, st2)
  <2>1. \A d \in 1 .. Len(st2) : /\ st2[d].at = "splice" => st2[d].mem = "root" /\ WithSection
                                 /\ st2[d].at # "merge" => st2[d].k = 0
    <3>1. \A d \in 1 .. Len(st2) : d = 1 \/ d = 2
      BY <1>10
    <3>. QED BY <1>4, <1>7, <1>8, <1>10, <3>1
  <2>. QED BY <1>1, <1>5, <1>7, <1>8, <1>10, <2>1 DEF Activations
<1>12. PICK s : s = store["root"]
  OBVIOUS
<1>13. t \in Memory /\ t.flattened /\ t.bytes = s.bytes /\ t.blocks = s.blocks /\ t.merged = s.merged
  BY ONLY <1>3, <1>4, <1>12, t = Flattening(store[f.mem]), FlatteningIs
<1>14. "root" \in Mems
  BY <1>2, <1>4
<1>15. PICK other : other = Turned(store, "root", t)
  OBVIOUS
<1>16. \A l \in Mems : Stored(other) /\ Expand(other, l) = Expand(store, l) /\ Refs(t) = Refs(s)
  BY ONLY <1>0, <1>12, <1>13, <1>14, <1>15, FlagKeeps
<1>17. other["root"] = t /\ \A n \in Mems : n # "root" => other[n] = store[n]
  BY ONLY <1>0, <1>14, <1>15 DEF Turned, Stored
<1>18. Unmerged(s) /\ ~s.merged
  <2>1. Unmerged(s) /\ Merged(s, "root", st)
    BY <1>0, <1>12, <1>14 DEF Progress
  <2>. QED BY <1>4, <1>12, <2>1 DEF Merged
<1>19. Progress(other, out, st2)
  <2>1. ASSUME NEW m \in Mems PROVE Unmerged(other[m]) /\ Flat(other[m], m, st2) /\ Merged(other[m], m, st2)
    <3>1. CASE m = "root"
      <4>1. Active(st2, "root", "splice")
        <5>1. 1 \in 1 .. Len(st2)
          BY <1>10
        <5>. QED BY ONLY <1>7, <1>10, <5>1 DEF Active
      <4>. QED BY <1>13, <1>17, <1>18, <3>1, <4>1 DEF Unmerged, Flat, Merged
    <3>2. CASE m # "root"
      <4>1. Unmerged(store[m]) /\ Flat(store[m], m, st) /\ Merged(store[m], m, st)
        BY <1>0 DEF Progress
      <4>2. ~Active(st, m, "splice") /\ ~Active(st, m, "merge")
        <5>1. \A d \in 1 .. Len(st) : st[d] = f
          BY <1>5
        <5>. QED BY <1>4, <3>2, <5>1 DEF Active
      <4>3. other[m] = store[m]
        BY <1>17, <3>2
      <4>. QED BY <4>1, <4>2, <4>3 DEF Unmerged, Flat, Merged
    <3>. QED BY <3>1, <3>2
  <2>2. ASSUME NEW d \in 1 .. Len(st2)
        PROVE  /\ st2[d].at = "splice" => Splicing(other[st2[d].mem])
               /\ st2[d].at = "merge" => ~out.keep /\ MergingAt(other[st2[d].mem], st2[d])
    <3>1. d = 1 \/ d = 2
      BY <1>10
    <3>2. Splicing(t)
      BY <1>4, <1>12, <1>13, <1>14, <1>16, <1>18 DEF Splicing
    <3>. QED BY ONLY <1>7, <1>8, <1>10, <1>17, <3>1, <3>2
  <2>3. st2 # <<>>
    BY <1>10
  <2>. QED BY <2>1, <2>2, <2>3 DEF Progress
<1>20. Images(other, src, out, fs)
  BY ONLY <1>0, <1>16, ImagesSame
<1>. QED BY ONLY <1>4, <1>11, <1>14, <1>15, <1>16, <1>19, <1>20 DEF Writing

\* Where the activations are: the last one, or the one below it that waits for the section.
LEMMA AtTop ==
  ASSUME NEW out, NEW st, Activations(out, st), st # <<>>, NEW f, f = st[Len(st)], NEW m, NEW at
  PROVE  Active(st, m, at) <=> ((f.mem = m /\ f.at = at) \/ (Len(st) = 2 /\ m = "root" /\ at = "splice"))
<1>1. \/ Len(st) = 1 /\ st[1] = f
      \/ Len(st) = 2 /\ st[2] = f /\ st[1].mem = "root" /\ st[1].at = "splice"
  <2>1. Len(st) = 1 \/ (Len(st) = 2 /\ st[1].mem = "root" /\ st[1].at = "splice")
    BY ONLY TopIs, Activations(out, st), st # <<>>, f = st[Len(st)]
  <2>. QED BY <2>1
<1>2. CASE Len(st) = 1 /\ st[1] = f
  <2>1. \A d : d \in 1 .. 1 <=> d = 1
    OBVIOUS
  <2>. QED BY ONLY <1>2, <2>1 DEF Active
<1>3. CASE Len(st) = 2 /\ st[2] = f /\ st[1].mem = "root" /\ st[1].at = "splice"
  <2>1. \A d : d \in 1 .. 2 <=> (d = 1 \/ d = 2)
    OBVIOUS
  <2>2. Active(st, m, at) <=> (st[1].mem = m /\ st[1].at = at) \/ (st[2].mem = m /\ st[2].at = at)
    BY ONLY <1>3, <2>1 DEF Active
  <2>. QED BY ONLY <1>3, <2>2
<1>. QED BY ONLY <1>1, <1>2, <1>3

Retop(st, f) == [st EXCEPT ![Len(st)] = f]

\* The last activation goes on.
LEMMA Replaced ==
  ASSUME NEW out, NEW st, Activations(out, st), st # <<>>, NEW f, f = st[Len(st)],
         NEW f2 \in Frames, f2.mem = f.mem, f2.at = "splice" => f2.mem = "root" /\ WithSection /\ Len(st) = 1,
         f2.at # "merge" => f2.k = 0, NEW st2, st2 = Retop(st, f2)
  PROVE  Activations(out, st2) /\ st2 # <<>> /\ Len(st2) = Len(st) /\ f2 = st2[Len(st2)]
<1>1. st \in Seq(Frames) /\ Len(st) <= 2
  BY DEF Activations
<1>2. Len(st) = 1 \/ Len(st) = 2
  BY ONLY TopIs, Activations(out, st), st # <<>>, f = st[Len(st)]
<1>3. st2 \in Seq(Frames) /\ Len(st2) = Len(st)
  BY <1>1 DEF Retop
<1>4. \A d \in 1 .. Len(st) : st2[d] = IF d = Len(st) THEN f2 ELSE st[d]
  BY <1>1 DEF Retop
<1>5. f2 = st2[Len(st2)] /\ \A d \in 1 .. Len(st2) : d # Len(st2) => st2[d] = st[d]
  BY <1>2, <1>3, <1>4
<1>6. st2 # <<>>
  <2>1. Len(st2) # 0
    BY <1>2, <1>3
  <2>. QED BY <2>1
<1>7. out # NoOutput /\ out \in Formats
  BY ONLY TopIs, Activations(out, st), st # <<>>, f = st[Len(st)]
<1>8. st2[1].mem = out.mem
  <2>1. st[1].mem = out.mem
    BY <1>2 DEF Activations
  <2>. QED BY <1>2, <1>3, <1>5, <2>1
<1>9. Len(st2) = 2 => st2[1].at = "splice" /\ st2[2].mem = "sec" /\ st2[2].at # "splice"
  <2>. SUFFICES ASSUME Len(st2) = 2 PROVE st2[1].at = "splice" /\ st2[2].mem = "sec" /\ st2[2].at # "splice"
    OBVIOUS
  <2>1. st[1].at = "splice" /\ st[2].mem = "sec"
    BY <1>3 DEF Activations
  <2>0. Len(st2) = 2 /\ Len(st) = 2
    BY ONLY <1>3, Len(st2) = 2
  <2>2. f = st[2] /\ f2 = st2[2] /\ st2[1] = st[1]
    <3>1. 1 \in 1 .. 2 /\ 1 # 2
      OBVIOUS
    <3>. QED BY ONLY <1>5, <2>0, <3>1, f = st[Len(st)]
  <2>3. f2.at # "splice"
    BY ONLY <2>0, f2.at = "splice" => f2.mem = "root" /\ WithSection /\ Len(st) = 1
  <2>4. f2.mem = "sec"
    BY ONLY <2>1, <2>2, f2.mem = f.mem
  <2>. QED BY ONLY <2>1, <2>2, <2>3, <2>4
<1>10. \A d \in 1 .. Len(st2) : /\ st2[d].at = "splice" => st2[d].mem = "root" /\ WithSection
                                /\ st2[d].at # "merge" => st2[d].k = 0
  <2>. SUFFICES ASSUME NEW d \in 1 .. Len(st2)
                PROVE  /\ st2[d].at = "splice" => st2[d].mem = "root" /\ WithSection
                       /\ st2[d].at # "merge" => st2[d].k = 0
    OBVIOUS
  <2>1. CASE d = Len(st2)
    BY <1>5, <2>1
  <2>2. CASE d # Len(st2)
    <3>1. st2[d] = st[d] /\ d \in 1 .. Len(st)
      BY <1>3, <1>5, <2>2
    <3>. QED BY <3>1 DEF Activations
  <2>. QED BY <2>1, <2>2
<1>11. Activations(out, st2)
  BY <1>1, <1>3, <1>7, <1>8, <1>9, <1>10 DEF Activations
<1>. QED BY <1>3, <1>5, <1>6, <1>11

\* A step of the last activation that does not end it
LEMMA TopStep ==
  ASSUME NEW store, Stored(store), NEW out, NEW st, Activations(out, st), Progress(store, out, st), st # <<>>,
         NEW f, f = st[Len(st)],
         NEW f2 \in Frames, f2.mem = f.mem, f2.at = "splice" => f2.mem = "root" /\ WithSection /\ Len(st) = 1,
         f2.at # "merge" => f2.k = 0, NEW st2, st2 = Retop(st, f2),
         NEW t, Unmerged(t), t.flattened => Refs(t) = {} \/ f2.at = "splice",
         t.merged => t.flattened /\ (Neat(t.blocks) \/ f2.at = "merge"),
         f2.at = "splice" => Splicing(t), f2.at = "merge" => ~out.keep /\ MergingAt(t, f2)
  PROVE  Activations(out, st2) /\ Progress(Turned(store, f.mem, t), out, st2)
<1>0. Activations(out, st2) /\ st2 # <<>> /\ Len(st2) = Len(st) /\ f2 = st2[Len(st2)]
  <2>1. f2.at = "splice" => f2.mem = "root" /\ WithSection /\ Len(st) = 1
    OBVIOUS
  <2>2. f2.at # "merge" => f2.k = 0
    OBVIOUS
  <2>. QED BY ONLY Replaced, Activations(out, st), st # <<>>, f = st[Len(st)], f2 \in Frames, f2.mem = f.mem,
          <2>1, <2>2, st2 = Retop(st, f2)
<1>1. /\ st2 # <<>> /\ Len(st2) = Len(st) /\ f2 = st2[Len(st2)]
      /\ \A d \in 1 .. Len(st2) : d # Len(st2) => st2[d] = st[d]
  <2>1. st \in Seq(Frames)
    BY DEF Activations
  <2>2. \A d \in 1 .. Len(st) : st2[d] = IF d = Len(st) THEN f2 ELSE st[d]
    BY ONLY <2>1, st2 = Retop(st, f2) DEF Retop
  <2>. QED BY ONLY <1>0, <2>2
<1>2. f \in Frames /\ (Len(st) = 1 \/ (Len(st) = 2 /\ f.mem = "sec"))
  BY ONLY TopIs, Activations(out, st), st # <<>>, f = st[Len(st)]
<1>3. PICK m \in Mems : m = f.mem
  BY <1>2 DEF Frames
<1>4. PICK other : other = Turned(store, m, t)
  OBVIOUS
<1>5. other[m] = t /\ \A n \in Mems : n # m => other[n] = store[n]
  BY <1>4 DEF Turned, Stored
<1>6. \A n : \A at : n # m => (Active(st2, n, at) <=> Active(st, n, at))
  <2>. SUFFICES ASSUME NEW n, NEW at, n # m PROVE Active(st2, n, at) <=> Active(st, n, at)
    OBVIOUS
  <2>1. Active(st, n, at) <=> ((f.mem = n /\ f.at = at) \/ (Len(st) = 2 /\ n = "root" /\ at = "splice"))
    BY ONLY AtTop, Activations(out, st), st # <<>>, f = st[Len(st)]
  <2>2. Active(st2, n, at) <=> ((f2.mem = n /\ f2.at = at) \/ (Len(st2) = 2 /\ n = "root" /\ at = "splice"))
    <3>1. Activations(out, st2)
      BY ONLY <1>0
    <3>2. st2 # <<>>
      BY ONLY <1>0
    <3>3. f2 = st2[Len(st2)]
      BY ONLY <1>0
    <3>. QED BY ONLY AtTop, <3>1, <3>2, <3>3
  <2>. QED BY ONLY <1>1, <1>3, <2>1, <2>2, f2.mem = f.mem, n # m
<1>7. \A at : f2.at = at => Active(st2, m, at)
  <2>. SUFFICES ASSUME NEW at, f2.at = at PROVE Active(st2, m, at)
    OBVIOUS
  <2>2. Active(st2, m, at) <=> ((f2.mem = m /\ f2.at = at) \/ (Len(st2) = 2 /\ m = "root" /\ at = "splice"))
    <3>1. Activations(out, st2)
      BY ONLY <1>0
    <3>2. st2 # <<>>
      BY ONLY <1>0
    <3>3. f2 = st2[Len(st2)]
      BY ONLY <1>0
    <3>. QED BY ONLY AtTop, <3>1, <3>2, <3>3
  <2>. QED BY ONLY <1>3, <2>2, f2.mem = f.mem, f2.at = at
<1>8. ASSUME NEW n \in Mems PROVE Unmerged(other[n]) /\ Flat(other[n], n, st2) /\ Merged(other[n], n, st2)
  <2>1. CASE n = m
    BY <1>5, <1>7, <2>1 DEF Flat, Merged
  <2>2. CASE n # m
    <3>1. Unmerged(store[n]) /\ Flat(store[n], n, st) /\ Merged(store[n], n, st)
      BY DEF Progress
    <3>. QED BY ONLY <1>5, <1>6, <2>2, <3>1, n \in Mems DEF Flat, Merged
  <2>. QED BY <2>1, <2>2
<1>9. ASSUME NEW d \in 1 .. Len(st2)
      PROVE  /\ st2[d].at = "splice" => Splicing(other[st2[d].mem])
             /\ st2[d].at = "merge" => ~out.keep /\ MergingAt(other[st2[d].mem], st2[d])
  <2>1. CASE d = Len(st2)
    <3>1. st2[d] = f2 /\ other[f2.mem] = t
      BY <1>1, <1>3, <1>5, <2>1
    <3>. QED BY <3>1
  <2>2. CASE d # Len(st2)
    <3>1. st2[d] = st[d] /\ d \in 1 .. Len(st)
      BY <1>1, <2>2
    <3>2. d = 1 /\ Len(st) = 2 /\ m = "sec"
      BY <1>1, <1>2, <1>3, <2>2
    <3>3. st[1].at = "splice" /\ st[1].mem = "root"
      BY <3>1, <3>2 DEF Activations
    <3>4. Splicing(store["root"])
      BY <3>1, <3>2, <3>3 DEF Progress
    <3>5. other["root"] = store["root"]
      BY <1>5, <3>2 DEF Mems
    <3>. QED BY <3>1, <3>2, <3>3, <3>4, <3>5
  <2>. QED BY <2>1, <2>2
<1>10. Progress(other, out, st2)
  BY ONLY <1>1, <1>8, <1>9 DEF Progress
<1>. QED BY ONLY <1>0, <1>3, <1>4, <1>10

\* The stack without its last activation.
LEMMA FrontOf ==
  ASSUME NEW S, NEW f \in S, NEW g \in S
  PROVE  Front(<<f>>) = <<>> /\ Front(<<f, g>>) = <<f>>
<1>1. PICK p, q : p = <<f>> /\ q = <<f, g>>
  OBVIOUS
<1>2. p \in Seq(S) /\ Len(p) = 1
  BY <1>1
<1>3. q \in Seq(S) /\ Len(q) = 2 /\ q[1] = f
  BY <1>1
<1>4. SubSeq(p, 1, 0) = <<>>
  BY <1>2
<1>5. SubSeq(q, 1, 1) = <<f>>
  <2>1. SubSeq(q, 1, 1) \in Seq(S) /\ Len(SubSeq(q, 1, 1)) = 1 /\ SubSeq(q, 1, 1)[1] = q[1]
    BY ONLY <1>3
  <2>2. p \in Seq(S) /\ Len(p) = 1 /\ p[1] = f
    BY <1>1
  <2>3. PICK r : r = SubSeq(q, 1, 1)
    OBVIOUS
  <2>4. \A i \in 1 .. Len(r) : r[i] = p[i]
    <3>1. \A i \in 1 .. 1 : i = 1
      OBVIOUS
    <3>. QED BY ONLY <1>3, <2>1, <2>2, <2>3, <3>1
  <2>5. r = p
    BY ONLY <2>1, <2>2, <2>3, <2>4, SeqEqual
  <2>. QED BY ONLY <1>1, <2>3, <2>5
<1>6. Front(p) = SubSeq(p, 1, 0) /\ Front(q) = SubSeq(q, 1, 1)
  BY <1>2, <1>3 DEF Front
<1>. QED BY ONLY <1>1, <1>4, <1>5, <1>6

\* The last activation ends.
LEMMA PopStep ==
  ASSUME NEW store, Stored(store), NEW out, NEW st, Activations(out, st), Progress(store, out, st), st # <<>>,
         NEW f, f = st[Len(st)], f.at # "splice", NEW st2, st2 = Front(st),
         NEW t, Unmerged(t), t.flattened, Refs(t) = {}, t.merged => Neat(t.blocks), Complete(t, out.keep)
  PROVE  Activations(out, st2) /\ Progress(Turned(store, f.mem, t), out, st2)
<1>1. /\ f \in Frames /\ out # NoOutput /\ out \in Formats
      /\ \/ Len(st) = 1 /\ st = <<f>> /\ f.mem = out.mem
         \/ Len(st) = 2 /\ st = <<st[1], f>> /\ f.mem = "sec" /\ f.at # "splice"
            /\ st[1] \in Frames /\ st[1].mem = "root" /\ st[1].at = "splice" /\ out.mem = "root"
  BY ONLY TopIs, Activations(out, st), st # <<>>, f = st[Len(st)]
<1>2. PICK m \in Mems : m = f.mem
  BY <1>1 DEF Frames
<1>3. PICK other : other = Turned(store, m, t)
  OBVIOUS
<1>4. other[m] = t /\ \A n \in Mems : n # m => other[n] = store[n]
  BY <1>3 DEF Turned, Stored
<1>5. CASE Len(st) = 1 /\ st = <<f>> /\ f.mem = out.mem
  <2>1. st2 = <<>>
    BY ONLY <1>1, <1>5, FrontOf, st2 = Front(st)
  <2>2. Activations(out, st2)
    BY <1>1, <2>1 DEF Activations
  <2>3. ASSUME NEW n, NEW at PROVE ~Active(st2, n, at)
    BY <2>1 DEF Active
  <2>4. ASSUME NEW n \in Mems PROVE Unmerged(other[n]) /\ Flat(other[n], n, st2) /\ Merged(other[n], n, st2)
    <3>1. CASE n = m
      BY <1>4, <3>1 DEF Flat, Merged
    <3>2. CASE n # m
      <4>1. Unmerged(store[n]) /\ Flat(store[n], n, st) /\ Merged(store[n], n, st)
        BY DEF Progress
      <4>2. ~Active(st, n, "splice") /\ ~Active(st, n, "merge")
        <5>1. Active(st, n, "splice") <=> 
              ((f.mem = n /\ f.at = "splice") \/ (Len(st) = 2 /\ n = "root" /\ "splice" = "splice"))
          BY ONLY AtTop, Activations(out, st), st # <<>>, f = st[Len(st)]
        <5>2. Active(st, n, "merge") <=> 
              ((f.mem = n /\ f.at = "merge") \/ (Len(st) = 2 /\ n = "root" /\ "merge" = "splice"))
          BY ONLY AtTop, Activations(out, st), st # <<>>, f = st[Len(st)]
        <5>. QED BY ONLY <1>2, <1>5, <3>2, <5>1, <5>2
      <4>3. other[n] = store[n]
        BY <1>4, <3>2
      <4>. QED BY ONLY <4>1, <4>2, <4>3 DEF Flat, Merged
    <3>. QED BY <3>1, <3>2
  <2>5. Progress(other, out, st2)
    <3>1. \A d \in 1 .. Len(st2) : FALSE
      BY <2>1
    <3>2. Complete(other[out.mem], out.keep)
      BY <1>2, <1>4, <1>5
    <3>. QED BY ONLY <2>4, <3>1, <3>2 DEF Progress
  <2>. QED BY <1>2, <1>3, <2>2, <2>5
<1>6. CASE /\ Len(st) = 2 /\ st = <<st[1], f>> /\ f.mem = "sec" /\ f.at # "splice"
           /\ st[1] \in Frames /\ st[1].mem = "root" /\ st[1].at = "splice" /\ out.mem = "root"
  <2>0. PICK g \in Frames : g = st[1] /\ g.mem = "root" /\ g.at = "splice"
    BY <1>6
  <2>1. st2 = <<g>>
    <3>1. st = <<g, f>>
      BY <1>6, <2>0
    <3>. QED BY ONLY <1>1, <3>1, FrontOf, g \in Frames, st2 = Front(st)
  <2>2. st2 \in Seq(Frames) /\ Len(st2) = 1 /\ st2[1] = g
    BY ONLY <2>1, OneFrame, g \in Frames
  <2>3. WithSection /\ g.k = 0
    BY <1>6, <2>0 DEF Activations
  <2>4. Activations(out, st2)
    <3>1. \A d \in 1 .. Len(st2) : st2[d] = g
      BY <2>2
    <3>. QED BY ONLY <1>1, <1>6, <2>0, <2>2, <2>3, <3>1 DEF Activations
  <2>5. st2 # <<>> /\ g = st2[Len(st2)]
    <3>1. Len(st2) # 0
      BY ONLY <2>2
    <3>2. Len(<<>>) = 0
      OBVIOUS
    <3>3. st2 # <<>>
      BY ONLY <3>1, <3>2
    <3>. QED BY ONLY <2>2, <3>3
  <2>6. m = "sec" /\ "root" \in Mems /\ other["root"] = store["root"]
    BY <1>2, <1>4, <1>6 DEF Mems
  <2>7. ASSUME NEW n \in Mems PROVE Unmerged(other[n]) /\ Flat(other[n], n, st2) /\ Merged(other[n], n, st2)
    <3>1. CASE n = m
      BY <1>4, <3>1 DEF Flat, Merged
    <3>2. CASE n # m
      <4>0. n = "root"
        BY <2>6, <3>2 DEF Mems
      <4>1. Unmerged(store[n]) /\ Flat(store[n], n, st) /\ Merged(store[n], n, st)
        BY DEF Progress
      <4>2. Active(st2, n, "splice")
        <5>1. Active(st2, n, "splice") <=> 
              ((g.mem = n /\ g.at = "splice") \/ (Len(st2) = 2 /\ n = "root" /\ "splice" = "splice"))
          BY ONLY AtTop, <2>4, <2>5
        <5>. QED BY ONLY <2>0, <4>0, <5>1
      <4>3. Splicing(store[n])
        BY <1>6, <2>0, <4>0 DEF Progress
      <4>4. other[n] = store[n]
        BY <1>4, <3>2
      <4>. QED BY ONLY <4>1, <4>2, <4>3, <4>4 DEF Flat, Merged, Splicing
    <3>. QED BY <3>1, <3>2
  <2>8. Progress(other, out, st2)
    <3>1. \A d \in 1 .. Len(st2) : st2[d] = g
      BY <2>2
    <3>2. Splicing(other["root"])
      BY <1>6, <2>0, <2>6 DEF Progress
    <3>. QED BY ONLY <2>0, <2>5, <2>7, <3>1, <3>2 DEF Progress
  <2>. QED BY <1>2, <1>3, <2>4, <2>8
<1>. QED BY ONLY <1>1, <1>5, <1>6

Marked(s, e) == [s EXCEPT !.flattened = TRUE, !.merged = @ \/ e]

\* Setting both flags changes nothing else.
LEMMA MarkedIs ==
  ASSUME NEW s \in Memory, NEW e \in BOOLEAN
  PROVE  /\ Marked(s, e) \in Memory /\ Marked(s, e).flattened
         /\ Marked(s, e).bytes = s.bytes /\ Marked(s, e).blocks = s.blocks
         /\ Marked(s, e).merged <=> s.merged \/ e
<1>1. PICK s1 : s1 = [s EXCEPT !.flattened = TRUE]
  OBVIOUS
<1>2. s1 \in Memory /\ s1.flattened /\ s1.bytes = s.bytes /\ s1.blocks = s.blocks /\ s1.merged = s.merged
  BY <1>1 DEF Memory
<1>3. PICK t : t = [s1 EXCEPT !.merged = @ \/ e]
  OBVIOUS
<1>4. t \in Memory /\ t.flattened /\ t.bytes = s1.bytes /\ t.blocks = s1.blocks /\ (t.merged <=> s1.merged \/ e)
  BY <1>2, <1>3 DEF Memory
<1>5. t = Marked(s, e)
  BY ONLY <1>1, <1>3 DEF Marked
<1>. QED BY ONLY <1>2, <1>4, <1>5

\* Blocks of a memory without a section are all its own.
LEMMA OwnAll ==
  ASSUME NEW b, NEW bs, Whole(b, bs)
  PROVE  Own(bs) = 1 .. Len(bs)
BY DEF Own, Whole

\* What is known of the last activation and its memory
LEMMA TopState ==
  ASSUME NEW store, NEW src, NEW out, NEW st, NEW fs, Writing(store, src, out, st, fs), st # <<>>,
         NEW f, f = st[Len(st)]
  PROVE  /\ f \in Frames /\ f.mem \in Mems /\ store[f.mem] \in Memory
         /\ Unmerged(store[f.mem])
         /\ f.at = "splice" => /\ f.mem = "root" /\ WithSection /\ Len(st) = 1 /\ Splicing(store[f.mem])
         /\ f.at = "merge" => ~out.keep /\ out # NoOutput /\ MergingAt(store[f.mem], f)
         /\ f.at = "enter" => /\ store[f.mem].flattened => Refs(store[f.mem]) = {}
                              /\ store[f.mem].merged => Neat(store[f.mem].blocks)
         /\ f.at # "merge" => f.k = 0
<1>0. Stored(store) /\ Activations(out, st) /\ Progress(store, out, st) /\ Images(store, src, out, fs)
  BY DEF Writing
<1>1. /\ f \in Frames /\ out # NoOutput /\ out \in Formats
      /\ \/ Len(st) = 1 /\ st = <<f>> /\ f.mem = out.mem
         \/ Len(st) = 2 /\ st = <<st[1], f>> /\ f.mem = "sec" /\ f.at # "splice"
            /\ st[1] \in Frames /\ st[1].mem = "root" /\ st[1].at = "splice" /\ out.mem = "root"
      /\ f.at = "splice" => f.mem = "root" /\ WithSection
      /\ f.at # "merge" => f.k = 0
  BY ONLY <1>0, TopIs, st # <<>>, f = st[Len(st)]
<1>2. f.mem \in Mems
  BY <1>1 DEF Frames
<1>3. PICK s : s = store[f.mem]
  OBVIOUS
<1>4. s \in Memory
  BY <1>0, <1>2, <1>3, StoredIs
<1>5. Unmerged(s) /\ Flat(s, f.mem, st) /\ Merged(s, f.mem, st)
  BY <1>0, <1>2, <1>3 DEF Progress
<1>6. Len(st) \in 1 .. Len(st)
  BY <1>1
<1>7. f.at = "splice" => f.mem = "root" /\ WithSection /\ Len(st) = 1 /\ Splicing(s)
  BY <1>0, <1>1, <1>3, <1>6 DEF Progress
<1>8. f.at = "merge" => ~out.keep /\ MergingAt(s, f)
  BY <1>0, <1>3, <1>6 DEF Progress
<1>9. ASSUME f.at = "enter"
      PROVE  (s.flattened => Refs(s) = {}) /\ (s.merged => Neat(s.blocks))
  <2>1. Active(st, f.mem, "splice") <=> 
        ((f.mem = f.mem /\ f.at = "splice") \/ (Len(st) = 2 /\ f.mem = "root" /\ "splice" = "splice"))
    BY ONLY <1>0, AtTop, st # <<>>, f = st[Len(st)]
  <2>2. Active(st, f.mem, "merge") <=> 
        ((f.mem = f.mem /\ f.at = "merge") \/ (Len(st) = 2 /\ f.mem = "root" /\ "merge" = "splice"))
    BY ONLY <1>0, AtTop, st # <<>>, f = st[Len(st)]
  <2>3. ~Active(st, f.mem, "splice") /\ ~Active(st, f.mem, "merge")
    BY ONLY <1>1, <1>9, <2>1, <2>2
  <2>. QED BY ONLY <1>5, <2>3 DEF Flat, Merged
<1>. QED BY ONLY <1>1, <1>2, <1>3, <1>4, <1>5, <1>7, <1>8, <1>9

\* memcomp begins to make blocks disjoint.
LEMMA EnterMerge ==
  ASSUME NEW store, NEW src, NEW out, NEW st, NEW fs, Writing(store, src, out, st, fs), st # <<>>,
         NEW f, f = st[Len(st)], f.at = "enter", NEW s, s = store[f.mem],
         s.flattened \/ Refs(s) = {}, ~out.keep, Len(s.blocks) >= 2, ~s.merged,
         NEW f2, f2 = [f EXCEPT !.at = "merge", !.i = 2, !.j = 1],
         NEW st2, st2 = Retop(st, f2), NEW t, t = Marked(s, TRUE)
  PROVE  Writing(Turned(store, f.mem, t), src, out, st2, fs)
<1>0. Stored(store) /\ Activations(out, st) /\ Progress(store, out, st) /\ Images(store, src, out, fs)
  BY DEF Writing
<1>1. /\ f \in Frames /\ f.mem \in Mems /\ s \in Memory /\ Unmerged(s) /\ f.k = 0
      /\ s.flattened => Refs(s) = {}
  BY ONLY Writing(store, src, out, st, fs), st # <<>>, f = st[Len(st)], f.at = "enter", s = store[f.mem], TopState
<1>2. Refs(s) = {}
  BY <1>1
<1>3. t \in Memory /\ t.flattened /\ t.bytes = s.bytes /\ t.blocks = s.blocks /\ t.merged
  BY ONLY <1>1, t = Marked(s, TRUE), MarkedIs
<1>4. PICK m \in Mems : m = f.mem
  BY <1>1
<1>5. \A l \in Mems : /\ Stored(Turned(store, m, t)) /\ Expand(Turned(store, m, t), l) = Expand(store, l)
                      /\ Refs(t) = Refs(s)
  BY ONLY <1>0, <1>3, <1>4, s = store[f.mem], FlagKeeps
<1>6. f2 \in Frames /\ f2.mem = f.mem /\ f2.at = "merge" /\ f2.i = 2 /\ f2.j = 1 /\ f2.k = 0
  <2>1. PICK i \in Nat, j \in Nat, k \in Nat, e \in {"enter", "splice", "merge"} :
          f = [mem |-> m, at |-> e, i |-> i, j |-> j, k |-> k]
    BY <1>1, <1>4 DEF Frames
  <2>2. k = 0
    BY <1>1, <2>1
  <2>3. f2 = [mem |-> m, at |-> "merge", i |-> 2, j |-> 1, k |-> 0]
    BY ONLY <2>1, <2>2, f2 = [f EXCEPT !.at = "merge", !.i = 2, !.j = 1]
  <2>4. f2.mem = m /\ f2.at = "merge" /\ f2.i = 2 /\ f2.j = 1 /\ f2.k = 0
    BY ONLY <2>3
  <2>5. f2 \in Frames
    BY ONLY <2>3, m \in Mems DEF Frames
  <2>. QED BY ONLY <1>4, <2>4, <2>5
<1>7. Merges(s.bytes, s.blocks, 2, 1, 0)
  <2>1. Sound(s)
    BY <1>0, <1>1, StoredIs
  <2>2. Whole(s.bytes, s.blocks)
    BY ONLY <1>2, <2>1, SoundWhole
  <2>3. OwnBytes(s.blocks, 1 .. Len(s.blocks))
    <3>1. Own(s.blocks) = 1 .. Len(s.blocks)
      BY ONLY <2>2, OwnAll
    <3>2. OwnBytes(s.blocks, Own(s.blocks))
      BY <1>1 DEF Unmerged
    <3>. QED BY ONLY <3>1, <3>2
  <2>4. Len(s.blocks) >= 1
    <3>0. PICK bs \in Seq(Block) : bs = s.blocks
      BY <2>2 DEF Whole
    <3>1. PICK l \in Nat : l = Len(s.blocks)
      BY <3>0
    <3>. QED BY <3>1
  <2>. QED BY ONLY <2>2, <2>3, <2>4, FirstTurn
<1>8. MergingAt(t, f2)
  BY ONLY <1>2, <1>3, <1>5, <1>6, <1>4, <1>7 DEF MergingAt
<1>9. Unmerged(t)
  BY ONLY <1>3 DEF Unmerged
<1>10. f2.at = "splice" => FALSE
  BY <1>6
<1>11. Refs(t) = {}
  BY ONLY <1>2, <1>4, <1>5
<1>12. Activations(out, st2) /\ Progress(Turned(store, f.mem, t), out, st2)
  <2>1. t.flattened => Refs(t) = {} \/ f2.at = "splice"
    BY <1>11
  <2>2. t.merged => t.flattened /\ (Neat(t.blocks) \/ f2.at = "merge")
    BY <1>3, <1>6
  <2>3. f2.at = "merge" => ~out.keep /\ MergingAt(t, f2)
    BY <1>8
  <2>4. f2.at # "merge" => f2.k = 0
    BY <1>6
  <2>5. f2.at = "splice" => f2.mem = "root" /\ WithSection /\ Len(st) = 1
    BY <1>10
  <2>6. f2.at = "splice" => Splicing(t)
    BY <1>10
  <2>7. f2 \in Frames /\ f2.mem = f.mem
    BY <1>6
  <2>. QED BY ONLY <1>0, <1>9, <2>1, <2>2, <2>3, <2>4, <2>5, <2>6, <2>7,
                   st # <<>>, f = st[Len(st)], st2 = Retop(st, f2), TopStep
<1>13. PICK other : other = Turned(store, m, t)
  OBVIOUS
<1>14. Stored(other) /\ Images(other, src, out, fs)
  <2>1. \A l \in Mems : Expand(other, l) = Expand(store, l)
    BY ONLY <1>5, <1>13
  <2>2. Images(other, src, out, fs)
    BY ONLY <1>0, <2>1, ImagesSame
  <2>. QED BY ONLY <1>4, <1>5, <1>13, <2>2
<1>. QED BY ONLY <1>4, <1>12, <1>13, <1>14 DEF Writing

\* memcomp has nothing to do, and returns.
LEMMA EnterOver ==
  ASSUME NEW store, NEW src, NEW out, NEW st, NEW fs, Writing(store, src, out, st, fs), st # <<>>,
         NEW f, f = st[Len(st)], f.at = "enter", NEW s, s = store[f.mem],
         s.flattened \/ Refs(s) = {}, ~(~out.keep /\ Len(s.blocks) >= 2 /\ ~s.merged),
         NEW st2, st2 = Front(st), NEW t, t = Marked(s, FALSE)
  PROVE  Writing(Turned(store, f.mem, t), src, out, st2, fs)
<1>0. Stored(store) /\ Activations(out, st) /\ Progress(store, out, st) /\ Images(store, src, out, fs)
  BY DEF Writing
<1>1. /\ f \in Frames /\ f.mem \in Mems /\ s \in Memory /\ Unmerged(s)
      /\ (s.flattened => Refs(s) = {}) /\ (s.merged => Neat(s.blocks))
  BY ONLY Writing(store, src, out, st, fs), st # <<>>, f = st[Len(st)], f.at = "enter", s = store[f.mem], TopState
<1>2. Refs(s) = {}
  BY <1>1
<1>3. t \in Memory /\ t.flattened /\ t.bytes = s.bytes /\ t.blocks = s.blocks /\ (t.merged <=> s.merged)
  BY ONLY <1>1, t = Marked(s, FALSE), MarkedIs
<1>4. PICK m \in Mems : m = f.mem
  BY <1>1
<1>5. \A l \in Mems : /\ Stored(Turned(store, m, t)) /\ Expand(Turned(store, m, t), l) = Expand(store, l)
                      /\ Refs(t) = Refs(s)
  BY ONLY <1>0, <1>3, <1>4, s = store[f.mem], FlagKeeps
<1>6. Unmerged(t)
  BY ONLY <1>1, <1>3 DEF Unmerged
<1>7. t.merged => Neat(t.blocks)
  BY ONLY <1>1, <1>3
<1>8. Complete(t, out.keep)
  <2>1. PICK bs \in Seq(Block) : bs = s.blocks
    BY <1>1 DEF Memory
  <2>2. PICK l \in Nat : l = Len(bs)
    OBVIOUS
  <2>3. out.keep \/ l < 2 \/ s.merged
    BY <2>1, <2>2
  <2>. QED BY ONLY <1>1, <1>3, <2>1, <2>2, <2>3 DEF Complete
<1>9. Refs(t) = {}
  BY ONLY <1>2, <1>4, <1>5
<1>10. Activations(out, st2) /\ Progress(Turned(store, f.mem, t), out, st2)
  <2>1. f.at # "splice"
    OBVIOUS
  <2>. QED BY ONLY <1>0, <1>3, <1>6, <1>7, <1>8, <1>9, <2>1, st # <<>>, f = st[Len(st)], st2 = Front(st), PopStep
<1>11. PICK other : other = Turned(store, m, t)
  OBVIOUS
<1>12. Stored(other) /\ Images(other, src, out, fs)
  <2>1. \A l \in Mems : Expand(other, l) = Expand(store, l)
    BY ONLY <1>5, <1>11
  <2>2. Images(other, src, out, fs)
    BY ONLY <1>0, <2>1, ImagesSame
  <2>. QED BY ONLY <1>4, <1>5, <1>11, <2>2
<1>. QED BY ONLY <1>4, <1>10, <1>11, <1>12 DEF Writing

\* memcomp puts the blocks of the section in its place, and looks again.
LEMMA SpliceStep ==
  ASSUME NEW store, NEW src, NEW out, NEW st, NEW fs, Writing(store, src, out, st, fs), st # <<>>,
         NEW f, f = st[Len(st)], f.at = "splice",
         NEW f2, f2 = [f EXCEPT !.at = "enter"],
         NEW st2, st2 = Retop(st, f2), NEW t, t = Spliced(store[f.mem], store["sec"])
  PROVE  Writing(Turned(store, f.mem, t), src, out, st2, fs)
<1>0. Stored(store) /\ Activations(out, st) /\ Progress(store, out, st) /\ Images(store, src, out, fs)
  BY DEF Writing
<1>1. /\ f \in Frames /\ f.mem \in Mems /\ Unmerged(store[f.mem])
      /\ f.mem = "root" /\ WithSection /\ Len(st) = 1 /\ Splicing(store[f.mem])
      /\ f.k = 0
  BY ONLY Writing(store, src, out, st, fs), st # <<>>, f = st[Len(st)], f.at = "splice", TopState
<1>2. PICK s : s = store["root"]
  OBVIOUS
<1>3. s.flattened /\ ~s.merged /\ Refs(s) # {} /\ OwnBytes(s.blocks, Own(s.blocks))
  BY <1>1, <1>2 DEF Splicing, Unmerged
<1>4. t = Spliced(store["root"], store["sec"])
  BY <1>1
<1>5. \A l \in Mems : /\ t \in Memory /\ t.flattened = s.flattened /\ t.merged = s.merged
         /\ Whole(t.bytes, t.blocks) /\ OwnBytes(t.blocks, 1 .. Len(t.blocks))
         /\ Stored(Turned(store, "root", t))
         /\ Expand(Turned(store, "root", t), l) = Expand(store, l)
  BY ONLY <1>0, <1>1, <1>2, <1>3, <1>4, SpliceKeeps
<1>6. "root" \in Mems
  BY DEF Mems
<1>7. /\ t \in Memory /\ t.flattened = s.flattened /\ t.merged = s.merged
      /\ Whole(t.bytes, t.blocks) /\ OwnBytes(t.blocks, 1 .. Len(t.blocks))
      /\ Stored(Turned(store, "root", t))
  BY ONLY <1>5, <1>6
<1>8. t.flattened /\ ~t.merged
  BY ONLY <1>3, <1>7
<1>9. Refs(t) = {} /\ Unmerged(t)
  <2>1. Refs(t) = {}
    BY ONLY <1>7, WholeSound
  <2>2. Own(t.blocks) = 1 .. Len(t.blocks)
    BY ONLY <1>7, OwnAll
  <2>. QED BY ONLY <1>7, <2>1, <2>2 DEF Unmerged
<1>10. f2 \in Frames /\ f2.mem = f.mem /\ f2.at = "enter" /\ f2.k = 0
  BY <1>1 DEF Frames
<1>11. Activations(out, st2) /\ Progress(Turned(store, f.mem, t), out, st2)
  <2>1. t.flattened => Refs(t) = {} \/ f2.at = "splice"
    BY <1>9
  <2>2. t.merged => t.flattened /\ (Neat(t.blocks) \/ f2.at = "merge")
    BY <1>8
  <2>3. f2.at = "merge" => ~out.keep /\ MergingAt(t, f2)
    BY <1>10
  <2>4. f2.at # "merge" => f2.k = 0
    BY <1>10
  <2>5. f2.at = "splice" => f2.mem = "root" /\ WithSection /\ Len(st) = 1
    BY <1>10
  <2>6. f2.at = "splice" => Splicing(t)
    BY <1>10
  <2>7. f2 \in Frames /\ f2.mem = f.mem
    BY <1>10
  <2>8. Unmerged(t)
    BY <1>9
  <2>. QED BY ONLY <1>0, <2>1, <2>2, <2>3, <2>4, <2>5, <2>6, <2>7, <2>8,
                   st # <<>>, f = st[Len(st)], st2 = Retop(st, f2), TopStep
<1>12. PICK other : other = Turned(store, "root", t)
  OBVIOUS
<1>13. Stored(other) /\ Images(other, src, out, fs)
  <2>1. \A l \in Mems : Expand(other, l) = Expand(store, l)
    BY ONLY <1>5, <1>12
  <2>2. Images(other, src, out, fs)
    BY ONLY <1>0, <2>1, ImagesSame
  <2>. QED BY ONLY <1>7, <1>12, <2>2
<1>. QED BY ONLY <1>1, <1>11, <1>12, <1>13 DEF Writing

\* Showing the same is transitive,
LEMMA ShownTrans ==
  ASSUME NEW b, NEW bs, NEW L, NEW d, NEW ds, NEW M, NEW e, NEW es, NEW N,
         SameShown(b, bs, L, d, ds, M), SameShown(d, ds, M, e, es, N)
  PROVE  SameShown(b, bs, L, e, es, N)
BY DEF SameShown

\* and symmetric.
LEMMA ShownBack ==
  ASSUME NEW b, NEW bs, NEW L, NEW d, NEW ds, NEW M, SameShown(b, bs, L, d, ds, M)
  PROVE  SameShown(d, ds, M, b, bs, L)
BY DEF SameShown

\* Not all formats keep overlapping blocks.
LEMMA MergingImages ==
  ASSUME NEW store, NEW src, NEW out, NEW fs, Stored(store), Images(store, src, out, fs),
         ~out.keep, out # NoOutput, NEW m \in Mems, Refs(store[m]) = {},
         NEW t \in Memory, Whole(t.bytes, t.blocks),
         SameShown(store[m].bytes, store[m].blocks, 1 .. Len(store[m].blocks),
                   t.bytes, t.blocks, 1 .. Len(t.blocks))
  PROVE  Stored(Turned(store, m, t)) /\ Images(Turned(store, m, t), src, out, fs)
<1>1. PICK other : other = Turned(store, m, t)
  OBVIOUS
<1>2. ASSUME NEW l \in Mems
      PROVE  Stored(other) /\ SameImage(Expand(other, l), Expand(store, l))
  <2>1. SameShown(store[m].bytes, store[m].blocks, 1 .. Len(store[m].blocks),
                  t.bytes, t.blocks, 1 .. Len(t.blocks))
    OBVIOUS
  <2>. QED BY ONLY <1>1, <2>1, Stored(store), m \in Mems, Refs(store[m]) = {}, t \in Memory,
                   Whole(t.bytes, t.blocks), l \in Mems, TurnKeeps
<1>3. ~AllKeep(out, fs)
  BY DEF AllKeep
<1>4. \A l \in Mems : SameImage(Expand(other, l), Expand(store, l))
  BY ONLY <1>2
<1>5. Images(other, src, out, fs)
  BY ONLY <1>3, <1>4, Images(store, src, out, fs), ImagesKept
<1>. QED BY ONLY <1>1, <1>2, <1>5, m \in Mems

\* A turn of the loops: f becomes f2 while the memory becomes t.
LEMMA TurnStep ==
  ASSUME NEW store, NEW src, NEW out, NEW st, NEW fs, Writing(store, src, out, st, fs), st # <<>>,
         NEW f, f = st[Len(st)], f.at = "merge", NEW s, s = store[f.mem],
         NEW f2 \in Frames, f2.mem = f.mem, f2.at = "merge", NEW st2, st2 = Retop(st, f2),
         NEW t \in Memory, t.flattened, t.merged, Merges(t.bytes, t.blocks, f2.i, f2.j, f2.k),
         SameShown(s.bytes, s.blocks, Live(s.blocks, f.j, f.k), t.bytes, t.blocks, Live(t.blocks, f2.j, f2.k))
  PROVE  Writing(Turned(store, f.mem, t), src, out, st2, fs)
<1>0. Stored(store) /\ Activations(out, st) /\ Progress(store, out, st) /\ Images(store, src, out, fs)
  BY DEF Writing
<1>1. /\ f \in Frames /\ f.mem \in Mems /\ s \in Memory
      /\ ~out.keep /\ out # NoOutput /\ MergingAt(s, f)
  BY ONLY Writing(store, src, out, st, fs), st # <<>>, f = st[Len(st)], f.at = "merge", s = store[f.mem], TopState
<1>2. PICK m \in Mems : m = f.mem
  BY <1>1
<1>3. Refs(s) = {} /\ Merges(s.bytes, s.blocks, f.i, f.j, f.k)
  BY <1>1 DEF MergingAt
<1>4. Whole(t.bytes, t.blocks)
  BY DEF Merges
<1>5. SameShown(s.bytes, s.blocks, 1 .. Len(s.blocks), t.bytes, t.blocks, 1 .. Len(t.blocks))
  <2>1. SameShown(s.bytes, s.blocks, 1 .. Len(s.blocks), s.bytes, s.blocks, Live(s.blocks, f.j, f.k))
    BY ONLY <1>3, RawShown
  <2>2. SameShown(t.bytes, t.blocks, 1 .. Len(t.blocks), t.bytes, t.blocks, Live(t.blocks, f2.j, f2.k))
    BY ONLY RawShown, Merges(t.bytes, t.blocks, f2.i, f2.j, f2.k)
  <2>3. SameShown(t.bytes, t.blocks, Live(t.blocks, f2.j, f2.k), t.bytes, t.blocks, 1 .. Len(t.blocks))
    BY ONLY <2>2, ShownBack
  <2>4. SameShown(s.bytes, s.blocks, Live(s.blocks, f.j, f.k), t.bytes, t.blocks, Live(t.blocks, f2.j, f2.k))
    OBVIOUS
  <2>5. SameShown(s.bytes, s.blocks, 1 .. Len(s.blocks), t.bytes, t.blocks, Live(t.blocks, f2.j, f2.k))
    BY ONLY <2>1, <2>4, ShownTrans
  <2>. QED BY ONLY <2>3, <2>5, ShownTrans
<1>6. Stored(Turned(store, m, t)) /\ Images(Turned(store, m, t), src, out, fs)
  <2>1. s = store[m]
    BY ONLY <1>2, s = store[f.mem]
  <2>. QED BY ONLY <1>0, <1>1, <1>3, <1>4, <1>5, <2>1, m \in Mems, t \in Memory, MergingImages
<1>7. Refs(t) = {}
  BY ONLY <1>4, WholeSound
<1>8. Activations(out, st2) /\ Progress(Turned(store, f.mem, t), out, st2)
  <2>1. t.flattened => Refs(t) = {} \/ f2.at = "splice"
    BY <1>7
  <2>2. t.merged => t.flattened /\ (Neat(t.blocks) \/ f2.at = "merge")
    OBVIOUS
  <2>3. f2.at = "merge" => ~out.keep /\ MergingAt(t, f2)
    BY <1>1, <1>7 DEF MergingAt
  <2>4. f2.at # "merge" => f2.k = 0
    OBVIOUS
  <2>5. f2.at = "splice" => f2.mem = "root" /\ WithSection /\ Len(st) = 1
    OBVIOUS
  <2>6. f2.at = "splice" => Splicing(t)
    OBVIOUS
  <2>8. Unmerged(t)
    BY DEF Unmerged
  <2>. QED BY ONLY <1>0, <2>1, <2>2, <2>3, <2>4, <2>5, <2>6, <2>8, f2 \in Frames, f2.mem = f.mem,
                   st # <<>>, f = st[Len(st)], st2 = Retop(st, f2), TopStep
<1>. QED BY ONLY <1>2, <1>6, <1>8 DEF Writing

\* memcomp sorts what is done, and returns.
LEMMA SortStep ==
  ASSUME NEW store, NEW src, NEW out, NEW st, NEW fs, Writing(store, src, out, st, fs), st # <<>>,
         NEW f, f = st[Len(st)], f.at = "merge", NEW s, s = store[f.mem], f.j > Len(s.blocks),
         NEW st2, st2 = Front(st), NEW ds \in Orders(SubSeq(s.blocks, 1, f.k)),
         NEW t, t = [s EXCEPT !.blocks = ds]
  PROVE  Writing(Turned(store, f.mem, t), src, out, st2, fs)
<1>0. Stored(store) /\ Activations(out, st) /\ Progress(store, out, st) /\ Images(store, src, out, fs)
  BY DEF Writing
<1>1. /\ f \in Frames /\ f.mem \in Mems /\ s \in Memory
      /\ ~out.keep /\ out # NoOutput /\ MergingAt(s, f)
  BY ONLY Writing(store, src, out, st, fs), st # <<>>, f = st[Len(st)], f.at = "merge", s = store[f.mem], TopState
<1>2. PICK m \in Mems : m = f.mem
  BY <1>1
<1>3. Refs(s) = {} /\ s.flattened /\ s.merged /\ Merges(s.bytes, s.blocks, f.i, f.j, f.k)
  BY <1>1 DEF MergingAt
<1>4. /\ Whole(s.bytes, ds) /\ Neat(ds)
      /\ SameShown(s.bytes, s.blocks, Live(s.blocks, f.j, f.k), s.bytes, ds, 1 .. Len(ds))
  BY ONLY <1>3, f.j > Len(s.blocks), ds \in Orders(SubSeq(s.blocks, 1, f.k)), LastTurn
<1>5. t \in Memory /\ t.bytes = s.bytes /\ t.blocks = ds /\ t.flattened /\ t.merged
  <2>1. ds \in Seq(Block)
    BY <1>4 DEF Whole
  <2>. QED BY ONLY <1>1, <1>3, <2>1, t = [s EXCEPT !.blocks = ds] DEF Memory
<1>6. Whole(t.bytes, t.blocks) /\ Refs(t) = {}
  BY ONLY <1>4, <1>5, WholeSound
<1>7. SameShown(s.bytes, s.blocks, 1 .. Len(s.blocks), t.bytes, t.blocks, 1 .. Len(t.blocks))
  <2>1. SameShown(s.bytes, s.blocks, 1 .. Len(s.blocks), s.bytes, s.blocks, Live(s.blocks, f.j, f.k))
    BY ONLY <1>3, RawShown
  <2>2. SameShown(s.bytes, s.blocks, 1 .. Len(s.blocks), s.bytes, ds, 1 .. Len(ds))
    BY ONLY <1>4, <2>1, ShownTrans
  <2>. QED BY ONLY <1>5, <2>2
<1>8. Stored(Turned(store, m, t)) /\ Images(Turned(store, m, t), src, out, fs)
  <2>1. s = store[m]
    BY ONLY <1>2, s = store[f.mem]
  <2>. QED BY ONLY <1>0, <1>1, <1>3, <1>5, <1>6, <1>7, <2>1, m \in Mems, MergingImages
<1>9. Activations(out, st2) /\ Progress(Turned(store, f.mem, t), out, st2)
  <2>1. f.at # "splice"
    OBVIOUS
  <2>2. t.merged => Neat(t.blocks)
    BY ONLY <1>4, <1>5
  <2>3. Complete(t, out.keep)
    BY ONLY <1>4, <1>5 DEF Complete
  <2>4. Unmerged(t)
    BY ONLY <1>5 DEF Unmerged
  <2>. QED BY ONLY <1>0, <1>5, <1>6, <2>1, <2>2, <2>3, <2>4, st # <<>>, f = st[Len(st)], st2 = Front(st), PopStep
<1>. QED BY ONLY <1>2, <1>8, <1>9 DEF Writing

(***************************************************************************)
(* The steps of memcomp keep it.                                           *)
(***************************************************************************)
Now == Writing(mem, source, output, stack, files)

\* EnterMemcomp keeps the invariant of the outputs.
LEMMA EnterNow ==
  ASSUME Now, EnterMemcomp
  PROVE  Writing(mem', source, output, stack', files)
<1>1. PICK M, S, out, st, fs : M = mem /\ S = source /\ out = output /\ st = stack /\ fs = files
  OBVIOUS
<1>2. Writing(M, S, out, st, fs) /\ st # <<>>
  BY <1>1 DEF Now, EnterMemcomp
<1>3. PICK f : f = st[Len(st)]
  OBVIOUS
<1>4. Top = f /\ f.at = "enter"
  BY <1>1, <1>3 DEF Top, EnterMemcomp
<1>5. PICK m : m = f.mem
  OBVIOUS
<1>6. PICK s : s = M[m]
  OBVIOUS
<1>7. Here = s
  BY <1>1, <1>4, <1>5, <1>6 DEF Here
<1>8. PICK M2, st2 : M2 = mem' /\ st2 = stack'
  OBVIOUS
<1>9. CASE ~s.flattened /\ Refs(s) # {}
  <2>1. PICK t : t = Flattening(s)
    OBVIOUS
  <2>2. M2 = Turned(M, m, t)
    <3>1. mem' = [mem EXCEPT ![m].flattened = TRUE]
      BY ONLY EnterMemcomp, <1>4, <1>5, <1>7, <1>9 DEF EnterMemcomp
    <3>2. M2 = [M EXCEPT ![m].flattened = TRUE]
      BY ONLY <1>1, <1>8, <3>1
    <3>. QED BY ONLY <1>6, <2>1, <3>2 DEF Turned, Flattening
  <2>3. st2 = Append([st EXCEPT ![Len(st)] = [f EXCEPT !.at = "splice"]], Frame("sec"))
    <3>1. stack' = Append(SetTop([f EXCEPT !.at = "splice"]), Frame("sec"))
      BY ONLY EnterMemcomp, <1>4, <1>5, <1>7, <1>9 DEF EnterMemcomp
    <3>. QED BY ONLY <1>1, <1>8, <3>1 DEF SetTop
  <2>4. Writing(Turned(M, f.mem, t), S, out, st2, fs)
    <3>1. ~M[f.mem].flattened /\ Refs(M[f.mem]) # {} /\ t = Flattening(M[f.mem])
      BY ONLY <1>5, <1>6, <1>9, <2>1
    <3>. QED BY ONLY <1>2, <1>3, <1>4, <2>3, <3>1, EnterSplice
  <2>. QED BY ONLY <1>1, <1>5, <1>8, <2>2, <2>4
<1>10. CASE ~(~s.flattened /\ Refs(s) # {})
  <2>1. s \in Memory /\ f.mem \in Mems
    BY ONLY <1>2, <1>3, <1>5, <1>6, TopState
  <2>2. s.flattened \/ Refs(s) = {}
    BY <1>10
  <2>3. Merging <=> ~out.keep /\ Len(s.blocks) >= 2 /\ ~s.merged
    BY <1>1, <1>7 DEF Merging
  <2>4. /\ mem' = [mem EXCEPT ![m].flattened = TRUE, ![m].merged = @ \/ Merging]
        /\ stack' = IF Merging THEN SetTop([f EXCEPT !.at = "merge", !.i = 2, !.j = 1]) ELSE Front(stack)
    BY ONLY EnterMemcomp, <1>4, <1>5, <1>7, <1>10 DEF EnterMemcomp
  <2>5. CASE Merging
    <3>1. PICK t : t = Marked(s, TRUE)
      OBVIOUS
    <3>2. mem' = [mem EXCEPT ![m].flattened = TRUE, ![m].merged = @ \/ TRUE]
      BY <2>4, <2>5
    <3>3. M2 = Turned(M, m, t)
      <4>1. M2 = [M EXCEPT ![m].flattened = TRUE, ![m].merged = @ \/ TRUE]
        BY ONLY <1>1, <1>8, <3>2
      <4>. QED BY ONLY <1>6, <3>1, <4>1 DEF Turned, Marked
    <3>4. PICK f2 : f2 = [f EXCEPT !.at = "merge", !.i = 2, !.j = 1]
      OBVIOUS
    <3>5. st2 = Retop(st, f2)
      BY ONLY <1>1, <1>8, <2>4, <2>5, <3>4 DEF SetTop, Retop
    <3>6. ~out.keep /\ Len(s.blocks) >= 2 /\ ~s.merged
      BY ONLY <2>3, <2>5
    <3>7. s = M[f.mem]
      BY ONLY <1>5, <1>6
    <3>8. Writing(Turned(M, f.mem, t), S, out, st2, fs)
      BY ONLY <1>2, <1>3, <1>4, <2>2, <3>1, <3>4, <3>5, <3>6, <3>7, EnterMerge
    <3>. QED BY ONLY <1>1, <1>5, <1>8, <3>3, <3>8
  <2>6. CASE ~Merging
    <3>1. PICK t : t = Marked(s, FALSE)
      OBVIOUS
    <3>2. mem' = [mem EXCEPT ![m].flattened = TRUE, ![m].merged = @ \/ FALSE]
      BY <2>4, <2>6
    <3>3. M2 = Turned(M, m, t)
      <4>1. M2 = [M EXCEPT ![m].flattened = TRUE, ![m].merged = @ \/ FALSE]
        BY ONLY <1>1, <1>8, <3>2
      <4>. QED BY ONLY <1>6, <3>1, <4>1 DEF Turned, Marked
    <3>5. st2 = Front(st)
      BY ONLY <1>1, <1>8, <2>4, <2>6
    <3>6. ~(~out.keep /\ Len(s.blocks) >= 2 /\ ~s.merged)
      BY ONLY <2>3, <2>6
    <3>7. s = M[f.mem]
      BY ONLY <1>5, <1>6
    <3>8. Writing(Turned(M, f.mem, t), S, out, st2, fs)
      BY ONLY <1>2, <1>3, <1>4, <2>2, <3>1, <3>5, <3>6, <3>7, EnterOver
    <3>. QED BY ONLY <1>1, <1>5, <1>8, <3>3, <3>8
  <2>. QED BY ONLY <2>5, <2>6
<1>. QED BY ONLY <1>9, <1>10

\* Splice keeps it.
LEMMA SpliceNow ==
  ASSUME Now, Splice
  PROVE  Writing(mem', source, output, stack', files)
<1>1. PICK M, S, out, st, fs : M = mem /\ S = source /\ out = output /\ st = stack /\ fs = files
  OBVIOUS
<1>2. Writing(M, S, out, st, fs) /\ st # <<>>
  BY <1>1 DEF Now, Splice
<1>3. PICK f : f = st[Len(st)]
  OBVIOUS
<1>4. Top = f /\ f.at = "splice"
  BY <1>1, <1>3 DEF Top, Splice
<1>5. PICK t : t = Spliced(M[f.mem], M["sec"])
  OBVIOUS
<1>6. PICK M2, st2 : M2 = mem' /\ st2 = stack'
  OBVIOUS
<1>7. M2 = Turned(M, f.mem, t)
  <2>1. mem' = [mem EXCEPT ![f.mem] = Spliced(@, mem["sec"])]
    BY ONLY Splice, <1>4 DEF Splice
  <2>. QED BY ONLY <1>1, <1>5, <1>6, <2>1 DEF Turned
<1>8. PICK f2 : f2 = [f EXCEPT !.at = "enter"]
  OBVIOUS
<1>9. st2 = Retop(st, f2)
  BY ONLY Splice, <1>1, <1>4, <1>6, <1>8 DEF Splice, SetTop, Retop
<1>10. Writing(Turned(M, f.mem, t), S, out, st2, fs)
  BY ONLY <1>2, <1>3, <1>4, <1>5, <1>8, <1>9, SpliceStep
<1>. QED BY ONLY <1>1, <1>6, <1>7, <1>10

\* The turns of the merge loops, for an activation f that merges memory s
Turn(s, f, t, f2) ==
  /\ t \in Memory /\ t.flattened /\ t.merged /\ f2 \in Frames /\ f2.mem = f.mem /\ f2.at = "merge"
  /\ Merges(t.bytes, t.blocks, f2.i, f2.j, f2.k)
  /\ SameShown(s.bytes, s.blocks, Live(s.blocks, f.j, f.k), t.bytes, t.blocks, Live(t.blocks, f2.j, f2.k))

\* A turn of the merge loops keeps it.
LEMMA TurnNow ==
  ASSUME Now, stack # <<>>, Top.at = "merge", NEW f, f = Top, NEW s, s = Here,
         NEW t, NEW f2, Turn(s, f, t, f2), mem' = [mem EXCEPT ![f.mem] = t], stack' = SetTop(f2)
  PROVE  Writing(mem', source, output, stack', files)
<1>1. PICK M, S, out, st, fs : M = mem /\ S = source /\ out = output /\ st = stack /\ fs = files
  OBVIOUS
<1>2. Writing(M, S, out, st, fs) /\ st # <<>>
  BY <1>1 DEF Now
<1>3. f = st[Len(st)] /\ f.at = "merge" /\ s = M[f.mem]
  BY <1>1 DEF Top, Here
<1>4. PICK M2, st2 : M2 = mem' /\ st2 = stack'
  OBVIOUS
<1>5. M2 = Turned(M, f.mem, t) /\ st2 = Retop(st, f2)
  BY <1>1, <1>4 DEF Turned, Retop, SetTop
<1>6. /\ t \in Memory /\ t.flattened /\ t.merged /\ f2 \in Frames /\ f2.mem = f.mem /\ f2.at = "merge"
      /\ Merges(t.bytes, t.blocks, f2.i, f2.j, f2.k)
      /\ SameShown(s.bytes, s.blocks, Live(s.blocks, f.j, f.k), t.bytes, t.blocks, Live(t.blocks, f2.j, f2.k))
  BY DEF Turn
<1>7. Writing(Turned(M, f.mem, t), S, out, st2, fs)
  BY ONLY <1>2, <1>3, <1>5, <1>6, TurnStep
<1>. QED BY ONLY <1>1, <1>4, <1>5, <1>7

\* What is known of an activation that merges, and of its memory.
LEMMA TopNow ==
  ASSUME Now, stack # <<>>, Top.at = "merge"
  PROVE  /\ Top \in Frames /\ Top.mem \in Mems /\ Here \in Memory /\ mem \in [Mems -> Memory]
         /\ Here.flattened /\ Here.merged
         /\ Merges(Here.bytes, Here.blocks, Top.i, Top.j, Top.k)
<1>1. PICK M, S, out, st, fs : M = mem /\ S = source /\ out = output /\ st = stack /\ fs = files
  OBVIOUS
<1>2. Writing(M, S, out, st, fs) /\ st # <<>>
  BY <1>1 DEF Now
<1>3. PICK f : f = st[Len(st)]
  OBVIOUS
<1>4. Top = f /\ f.at = "merge" /\ Here = M[f.mem]
  BY <1>1, <1>3 DEF Top, Here
<1>5. f \in Frames /\ f.mem \in Mems /\ M[f.mem] \in Memory /\ MergingAt(M[f.mem], f)
  BY ONLY <1>2, <1>3, <1>4, TopState
<1>6. M \in [Mems -> Memory]
  BY <1>2 DEF Writing, Stored
<1>. QED BY ONLY <1>1, <1>4, <1>5, <1>6 DEF MergingAt

\* What the turns read of an activation and of its memory
LEMMA FrameOn ==
  ASSUME NEW f \in Frames, f.at = "merge"
  PROVE  /\ [f EXCEPT !.i = @ + 1] \in Frames /\ [f EXCEPT !.i = @ + 1].mem = f.mem
         /\ [f EXCEPT !.i = @ + 1].at = "merge" /\ [f EXCEPT !.i = @ + 1].i = f.i + 1
         /\ [f EXCEPT !.i = @ + 1].j = f.j /\ [f EXCEPT !.i = @ + 1].k = f.k
BY DEF Frames

\* Cutting a block does not change which blocks count.
LEMMA LiveSame ==
  ASSUME NEW bs \in Seq(Block), NEW c, NEW n, NEW j, NEW k
  PROVE  Live(CutAt(bs, c, n), j, k) = Live(bs, j, k)
<1>1. Len(CutAt(bs, c, n)) = Len(bs)
  BY DEF CutAt
<1>. QED BY ONLY <1>1 DEF Live

\* CopyLater is such a turn.
LEMMA CopyNow ==
  ASSUME Now, CopyLater
  PROVE  Writing(mem', source, output, stack', files)
<1>1. PICK f, s : f = Top /\ s = Here
  OBVIOUS
<1>2. stack # <<>> /\ Top.at = "merge"
  BY DEF CopyLater, Inner
<1>3. /\ f \in Frames /\ f.mem \in Mems /\ s \in Memory
      /\ s.flattened /\ s.merged /\ Merges(s.bytes, s.blocks, f.i, f.j, f.k)
  BY ONLY Now, <1>1, <1>2, TopNow
<1>4. PICK b \in Seq(Nat), bs \in Seq(Block) : b = s.bytes /\ bs = s.blocks
  BY <1>3 DEF Memory
<1>5. PICK i, j, k : i = f.i /\ j = f.j /\ k = f.k
  OBVIOUS
<1>6. i <= Len(bs) /\ Begins(bs[i], bs[j])
  BY <1>1, <1>4, <1>5 DEF CopyLater, Inner, Bi, Bj
<1>7. PICK d, ds : d = Written(b, bs, i, j) /\ ds = CutAt(bs, i, Overlap(bs, i, j))
  OBVIOUS
<1>8. Merges(d, ds, i + 1, j, k) /\ SameShown(b, bs, Live(bs, j, k), d, ds, Live(bs, j, k))
  <2>1. Merges(b, bs, i, j, k)
    BY ONLY <1>3, <1>4, <1>5
  <2>. QED BY ONLY <1>6, <1>7, <2>1, CopyTurns
<1>9. PICK t : t = Refill(s, d, ds)
  OBVIOUS
<1>10. t \in Memory /\ t.bytes = d /\ t.blocks = ds /\ t.flattened /\ t.merged
  <2>1. d \in Seq(Nat) /\ ds \in Seq(Block)
    BY <1>8 DEF Merges, Whole
  <2>2. /\ Refill(s, d, ds) \in Memory /\ Refill(s, d, ds).bytes = d /\ Refill(s, d, ds).blocks = ds
        /\ Refill(s, d, ds).flattened = s.flattened /\ Refill(s, d, ds).merged = s.merged
    BY ONLY <1>3, <2>1, Refilled
  <2>. QED BY ONLY <1>3, <1>9, <2>2
<1>11. Over(i, j) = t
  <2>1. Over(i, j) = [s EXCEPT !.blocks[i] = Cut(@, Overlap(bs, i, j)),
                               !.bytes = [x \in DOMAIN @ |-> IF x - Target(bs, i, j) \in 1 .. Overlap(bs, i, j)
                                                             THEN @[bs[i].p + x - Target(bs, i, j)] ELSE @[x]]]
    BY <1>1, <1>4, <1>5 DEF Over, Bi, Bj, Overlap, Target
  <2>2. PICK s1 : s1 = [s EXCEPT !.blocks = ds]
    OBVIOUS
  <2>3. Over(i, j) = [s1 EXCEPT !.bytes = d]
    BY <1>4, <1>7, <2>1, <2>2 DEF CutAt, Written
  <2>4. t = [s EXCEPT !.bytes = d, !.blocks = ds]
    BY ONLY <1>9 DEF Refill
  <2>. QED BY <1>3, <2>2, <2>3, <2>4 DEF Memory
<1>12. mem' = [mem EXCEPT ![f.mem] = t]
  BY <1>1, <1>5, <1>11 DEF CopyLater
<1>13. PICK f2 : f2 = [f EXCEPT !.i = @ + 1]
  OBVIOUS
<1>14. stack' = SetTop(f2)
  BY <1>1, <1>13 DEF CopyLater
<1>15. /\ f2 \in Frames /\ f2.mem = f.mem /\ f2.at = "merge"
       /\ f2.i = i + 1 /\ f2.j = j /\ f2.k = k
  BY ONLY <1>1, <1>2, <1>3, <1>5, <1>13, FrameOn
<1>16. Turn(s, f, t, f2)
  <2>1. Live(ds, j, k) = Live(bs, j, k)
    BY ONLY <1>7, LiveSame, bs \in Seq(Block)
  <2>. QED BY ONLY <1>4, <1>5, <1>8, <1>10, <1>15, <2>1 DEF Turn
<1>. QED BY ONLY Now, <1>1, <1>2, <1>12, <1>14, <1>16, TurnNow

\* CutEarlier is one.
LEMMA CutNow ==
  ASSUME Now, CutEarlier
  PROVE  Writing(mem', source, output, stack', files)
<1>1. PICK f, s : f = Top /\ s = Here
  OBVIOUS
<1>2. stack # <<>> /\ Top.at = "merge"
  BY DEF CutEarlier, Inner
<1>3. /\ f \in Frames /\ f.mem \in Mems /\ s \in Memory /\ mem \in [Mems -> Memory]
      /\ s.flattened /\ s.merged /\ Merges(s.bytes, s.blocks, f.i, f.j, f.k)
  BY ONLY Now, <1>1, <1>2, TopNow
<1>4. PICK b \in Seq(Nat), bs \in Seq(Block) : b = s.bytes /\ bs = s.blocks
  BY <1>3 DEF Memory
<1>5. PICK i, j, k : i = f.i /\ j = f.j /\ k = f.k
  OBVIOUS
<1>6. i <= Len(bs) /\ Begins(bs[j], bs[i])
  BY <1>1, <1>4, <1>5 DEF CutEarlier, Inner, Bi, Bj
<1>7. PICK ds : ds = CutAt(bs, j, Overlap(bs, j, i))
  OBVIOUS
<1>8. Merges(b, ds, i + 1, j, k) /\ SameShown(b, bs, Live(bs, j, k), b, ds, Live(bs, j, k))
  <2>1. Merges(b, bs, i, j, k)
    BY ONLY <1>3, <1>4, <1>5
  <2>. QED BY ONLY <1>6, <1>7, <2>1, CutTurns
<1>9. PICK t : t = [s EXCEPT !.blocks = ds]
  OBVIOUS
<1>10. t \in Memory /\ t.bytes = b /\ t.blocks = ds /\ t.flattened /\ t.merged
  <2>1. ds \in Seq(Block)
    BY <1>8 DEF Merges, Whole
  <2>. QED BY ONLY <1>3, <1>4, <1>9, <2>1 DEF Memory
<1>12. mem' = [mem EXCEPT ![f.mem] = t]
  <2>1. mem' = [mem EXCEPT ![f.mem].blocks[j] = Cut(@, Overlap(bs, j, i))]
    BY <1>1, <1>4, <1>5 DEF CutEarlier, Bi, Bj, Overlap
  <2>2. mem[f.mem] = s
    BY <1>1 DEF Here
  <2>. QED BY ONLY <1>4, <1>7, <1>9, <2>1, <2>2 DEF CutAt
<1>13. PICK f2 : f2 = [f EXCEPT !.i = @ + 1]
  OBVIOUS
<1>14. stack' = SetTop(f2)
  BY <1>1, <1>13 DEF CutEarlier
<1>15. /\ f2 \in Frames /\ f2.mem = f.mem /\ f2.at = "merge"
       /\ f2.i = i + 1 /\ f2.j = j /\ f2.k = k
  BY ONLY <1>1, <1>2, <1>3, <1>5, <1>13, FrameOn
<1>16. Turn(s, f, t, f2)
  <2>1. Live(ds, j, k) = Live(bs, j, k)
    BY ONLY <1>7, LiveSame, bs \in Seq(Block)
  <2>. QED BY ONLY <1>4, <1>5, <1>8, <1>10, <1>15, <2>1 DEF Turn
<1>. QED BY ONLY Now, <1>1, <1>2, <1>12, <1>14, <1>16, TurnNow

\* A list shows the same as itself.
LEMMA ShownItself ==
  ASSUME NEW b, NEW bs, NEW L
  PROVE  SameShown(b, bs, L, b, bs, L)
BY DEF SameShown

\* Apart is one, with nothing changed but the block to compare with.
LEMMA ApartNow ==
  ASSUME Now, Apart
  PROVE  Writing(mem', source, output, stack', files)
<1>1. PICK f, s : f = Top /\ s = Here
  OBVIOUS
<1>2. stack # <<>> /\ Top.at = "merge"
  BY DEF Apart, Inner
<1>3. /\ f \in Frames /\ f.mem \in Mems /\ s \in Memory /\ mem \in [Mems -> Memory]
      /\ s.flattened /\ s.merged /\ Merges(s.bytes, s.blocks, f.i, f.j, f.k)
  BY ONLY Now, <1>1, <1>2, TopNow
<1>4. PICK b \in Seq(Nat), bs \in Seq(Block) : b = s.bytes /\ bs = s.blocks
  BY <1>3 DEF Memory
<1>5. PICK i, j, k : i = f.i /\ j = f.j /\ k = f.k
  OBVIOUS
<1>6. i <= Len(bs) /\ ~Begins(bs[i], bs[j]) /\ ~(bs[i].len # 0 /\ Begins(bs[j], bs[i]))
  BY <1>1, <1>4, <1>5 DEF Apart, Inner, Bi, Bj
<1>8. Merges(b, bs, i + 1, j, k) /\ SameShown(b, bs, Live(bs, j, k), b, bs, Live(bs, j, k))
  <2>1. Merges(b, bs, i, j, k)
    BY ONLY <1>3, <1>4, <1>5
  <2>. QED BY ONLY <1>6, <2>1, ApartTurns, ShownItself
<1>12. mem' = [mem EXCEPT ![f.mem] = s]
  <2>1. mem' = mem
    BY DEF Apart
  <2>2. mem[f.mem] = s
    BY <1>1 DEF Here
  <2>. QED BY ONLY <1>3, <2>1, <2>2
<1>13. PICK f2 : f2 = [f EXCEPT !.i = @ + 1]
  OBVIOUS
<1>14. stack' = SetTop(f2)
  BY <1>1, <1>13 DEF Apart
<1>15. /\ f2 \in Frames /\ f2.mem = f.mem /\ f2.at = "merge"
       /\ f2.i = i + 1 /\ f2.j = j /\ f2.k = k
  BY ONLY <1>1, <1>2, <1>3, <1>5, <1>13, FrameOn
<1>16. Turn(s, f, s, f2)
  BY ONLY <1>3, <1>4, <1>5, <1>8, <1>15 DEF Turn
<1>. QED BY ONLY Now, <1>1, <1>2, <1>12, <1>14, <1>16, TurnNow

\* NextBlock is one if nothing is left of the block,
LEMMA EmptyNow ==
  ASSUME Now, NextBlock, Bj.len = 0
  PROVE  Writing(mem', source, output, stack', files)
<1>1. PICK f, s : f = Top /\ s = Here
  OBVIOUS
<1>2. stack # <<>> /\ Top.at = "merge"
  BY DEF NextBlock
<1>3. /\ f \in Frames /\ f.mem \in Mems /\ s \in Memory /\ mem \in [Mems -> Memory]
      /\ s.flattened /\ s.merged /\ Merges(s.bytes, s.blocks, f.i, f.j, f.k)
  BY ONLY Now, <1>1, <1>2, TopNow
<1>4. PICK b \in Seq(Nat), bs \in Seq(Block) : b = s.bytes /\ bs = s.blocks
  BY <1>3 DEF Memory
<1>5. PICK i, j, k : i = f.i /\ j = f.j /\ k = f.k
  OBVIOUS
<1>6. j <= Len(bs) /\ bs[j].len = 0
  BY <1>1, <1>4, <1>5 DEF NextBlock, Bj
<1>8. Merges(b, bs, j + 2, j + 1, k) /\ SameShown(b, bs, Live(bs, j, k), b, bs, Live(bs, j + 1, k))
  <2>1. Merges(b, bs, i, j, k)
    BY ONLY <1>3, <1>4, <1>5
  <2>. QED BY ONLY <1>6, <2>1, EmptyTurns
<1>9. PICK t : t = [s EXCEPT !.blocks = bs]
  OBVIOUS
<1>10. t \in Memory /\ t.bytes = b /\ t.blocks = bs /\ t.flattened /\ t.merged
  BY ONLY <1>3, <1>4, <1>9, bs \in Seq(Block) DEF Memory
<1>11. Done(Bj, Top) = [blocks |-> bs, frame |-> [f EXCEPT !.j = @ + 1, !.i = f.j + 2]]
  BY <1>1, <1>4 DEF Done
<1>12. mem' = [mem EXCEPT ![f.mem] = t]
  <2>1. mem' = [mem EXCEPT ![f.mem].blocks = bs]
    BY <1>1, <1>11 DEF NextBlock
  <2>2. mem[f.mem] = s
    BY <1>1 DEF Here
  <2>. QED BY ONLY <1>9, <2>1, <2>2
<1>13. PICK f2 : f2 = [f EXCEPT !.j = @ + 1, !.i = f.j + 2]
  OBVIOUS
<1>14. stack' = SetTop(f2)
  BY <1>1, <1>11, <1>13 DEF NextBlock
<1>15. /\ f2 \in Frames /\ f2.mem = f.mem /\ f2.at = "merge"
       /\ f2.i = j + 2 /\ f2.j = j + 1 /\ f2.k = k
  <2>1. f.at = "merge"
    BY <1>1, <1>2
  <2>2. PICK m \in Mems, x \in Nat, y \in Nat, z \in Nat :
          f = [mem |-> m, at |-> "merge", i |-> x, j |-> y, k |-> z]
    BY ONLY <1>3, <2>1 DEF Frames
  <2>3. f2 = [mem |-> m, at |-> "merge", i |-> y + 2, j |-> y + 1, k |-> z]
    BY ONLY <1>13, <2>2
  <2>4. f.mem = m /\ j = y /\ k = z
    BY ONLY <1>5, <2>2
  <2>5. f2.mem = m /\ f2.at = "merge" /\ f2.i = y + 2 /\ f2.j = y + 1 /\ f2.k = z
    BY ONLY <2>3
  <2>6. f2 \in Frames
    BY ONLY <2>3, m \in Mems, y \in Nat, z \in Nat DEF Frames
  <2>. QED BY ONLY <2>4, <2>5, <2>6
<1>16. Turn(s, f, t, f2)
  BY ONLY <1>4, <1>5, <1>8, <1>10, <1>15 DEF Turn
<1>. QED BY ONLY Now, <1>1, <1>2, <1>12, <1>14, <1>16, TurnNow

\* and if something is.
LEMMA DoneNow ==
  ASSUME Now, NextBlock, Bj.len # 0
  PROVE  Writing(mem', source, output, stack', files)
<1>1. PICK f, s : f = Top /\ s = Here
  OBVIOUS
<1>2. stack # <<>> /\ Top.at = "merge"
  BY DEF NextBlock
<1>3. /\ f \in Frames /\ f.mem \in Mems /\ s \in Memory /\ mem \in [Mems -> Memory]
      /\ s.flattened /\ s.merged /\ Merges(s.bytes, s.blocks, f.i, f.j, f.k)
  BY ONLY Now, <1>1, <1>2, TopNow
<1>4. PICK b \in Seq(Nat), bs \in Seq(Block) : b = s.bytes /\ bs = s.blocks
  BY <1>3 DEF Memory
<1>5. PICK i, j, k : i = f.i /\ j = f.j /\ k = f.k
  OBVIOUS
<1>6. j <= Len(bs) /\ bs[j].len # 0 /\ i > Len(bs)
  BY <1>1, <1>4, <1>5 DEF NextBlock, Bj
<1>7. PICK ds : ds = [bs EXCEPT ![k + 1] = bs[j]]
  OBVIOUS
<1>8. Merges(b, ds, j + 2, j + 1, k + 1) /\ SameShown(b, bs, Live(bs, j, k), b, ds, Live(ds, j + 1, k + 1))
  <2>1. Merges(b, bs, i, j, k)
    BY ONLY <1>3, <1>4, <1>5
  <2>2. /\ Merges(b, [bs EXCEPT ![k + 1] = bs[j]], j + 2, j + 1, k + 1)
        /\ SameShown(b, bs, Live(bs, j, k),
                     b, [bs EXCEPT ![k + 1] = bs[j]], Live([bs EXCEPT ![k + 1] = bs[j]], j + 1, k + 1))
    BY ONLY <1>6, <2>1, DoneTurns
  <2>. QED BY ONLY <1>7, <2>2
<1>9. PICK t : t = [s EXCEPT !.blocks = ds]
  OBVIOUS
<1>10. t \in Memory /\ t.bytes = b /\ t.blocks = ds /\ t.flattened /\ t.merged
  <2>1. ds \in Seq(Block)
    BY <1>8 DEF Merges, Whole
  <2>. QED BY ONLY <1>3, <1>4, <1>9, <2>1 DEF Memory
<1>11. Done(Bj, Top) = [blocks |-> ds, frame |-> [f EXCEPT !.j = @ + 1, !.i = f.j + 2, !.k = @ + 1]]
  BY <1>1, <1>4, <1>5, <1>7 DEF Done, Bj
<1>12. mem' = [mem EXCEPT ![f.mem] = t]
  <2>1. mem' = [mem EXCEPT ![f.mem].blocks = ds]
    BY <1>1, <1>11 DEF NextBlock
  <2>2. mem[f.mem] = s
    BY <1>1 DEF Here
  <2>. QED BY ONLY <1>9, <2>1, <2>2
<1>13. PICK f2 : f2 = [f EXCEPT !.j = @ + 1, !.i = f.j + 2, !.k = @ + 1]
  OBVIOUS
<1>14. stack' = SetTop(f2)
  BY <1>1, <1>11, <1>13 DEF NextBlock
<1>15. /\ f2 \in Frames /\ f2.mem = f.mem /\ f2.at = "merge"
       /\ f2.i = j + 2 /\ f2.j = j + 1 /\ f2.k = k + 1
  <2>1. f.at = "merge"
    BY <1>1, <1>2
  <2>2. PICK m \in Mems, x \in Nat, y \in Nat, z \in Nat :
          f = [mem |-> m, at |-> "merge", i |-> x, j |-> y, k |-> z]
    BY ONLY <1>3, <2>1 DEF Frames
  <2>3. f2 = [mem |-> m, at |-> "merge", i |-> y + 2, j |-> y + 1, k |-> z + 1]
    BY ONLY <1>13, <2>2
  <2>4. f.mem = m /\ j = y /\ k = z
    BY ONLY <1>5, <2>2
  <2>5. f2.mem = m /\ f2.at = "merge" /\ f2.i = y + 2 /\ f2.j = y + 1 /\ f2.k = z + 1
    BY ONLY <2>3
  <2>6. f2 \in Frames
    BY ONLY <2>3, m \in Mems, y \in Nat, z \in Nat DEF Frames
  <2>. QED BY ONLY <2>4, <2>5, <2>6
<1>16. Turn(s, f, t, f2)
  BY ONLY <1>4, <1>5, <1>8, <1>10, <1>15 DEF Turn
<1>. QED BY ONLY Now, <1>1, <1>2, <1>12, <1>14, <1>16, TurnNow

\* Sort keeps the invariant of the outputs.
LEMMA SortNow ==
  ASSUME Now, Sort
  PROVE  Writing(mem', source, output, stack', files)
<1>1. PICK M, S, out, st, fs : M = mem /\ S = source /\ out = output /\ st = stack /\ fs = files
  OBVIOUS
<1>2. Writing(M, S, out, st, fs) /\ st # <<>>
  BY <1>1 DEF Now, Sort
<1>3. PICK f : f = st[Len(st)]
  OBVIOUS
<1>4. Top = f /\ f.at = "merge"
  BY <1>1, <1>3 DEF Top, Sort
<1>5. PICK s : s = M[f.mem]
  OBVIOUS
<1>6. Here = s
  BY <1>1, <1>4, <1>5 DEF Here
<1>7. PICK M2, st2 : M2 = mem' /\ st2 = stack'
  OBVIOUS
<1>8. /\ Top.j > Len(Here.blocks)
      /\ \E blocks \in Orders(SubSeq(Here.blocks, 1, Top.k)) : mem' = [mem EXCEPT ![Top.mem].blocks = blocks]
      /\ stack' = Front(stack)
  BY DEF Sort
<1>9. PICK ds \in Orders(SubSeq(s.blocks, 1, f.k)) : mem' = [mem EXCEPT ![f.mem].blocks = ds]
  BY ONLY <1>4, <1>6, <1>8
<1>10. PICK t : t = [s EXCEPT !.blocks = ds]
  OBVIOUS
<1>11. M2 = Turned(M, f.mem, t)
  BY ONLY <1>1, <1>5, <1>7, <1>9, <1>10 DEF Turned
<1>12. st2 = Front(st) /\ f.j > Len(s.blocks)
  BY ONLY <1>1, <1>4, <1>6, <1>7, <1>8
<1>13. Writing(Turned(M, f.mem, t), S, out, st2, fs)
  BY ONLY <1>2, <1>3, <1>4, <1>5, <1>9, <1>10, <1>12, SortStep
<1>. QED BY ONLY <1>1, <1>7, <1>11, <1>13

\* NextOutput begins with the first activation.
LEMMA NextOutputNow ==
  ASSUME Now, NextOutput
  PROVE  Writing(mem, source, output', stack', files)
<1>1. PICK M, S, fs : M = mem /\ S = source /\ fs = files
  OBVIOUS
<1>2. Writing(M, S, NoOutput, <<>>, fs)
  BY <1>1 DEF Now, NextOutput, Ready
<1>3. PICK m \in Mems, keep \in Keeps : output' = [mem |-> m, keep |-> keep] /\ stack' = <<Frame(m)>>
  BY DEF NextOutput
<1>4. keep \in BOOLEAN
  BY OutputsAssumption
<1>5. PICK out, st : out = output' /\ st = stack'
  OBVIOUS
<1>6. Writing(M, S, out, <<Frame(m)>>, fs)
  BY ONLY <1>2, <1>3, <1>4, <1>5, FirstFrame
<1>. QED BY ONLY <1>1, <1>3, <1>5, <1>6

\* Between two outputs
LEMMA BetweenOutputs ==
  ASSUME NEW store, NEW src, NEW out, NEW fs, Writing(store, src, out, <<>>, fs), NEW fs2,
         AllKeep(NoOutput, fs2) => AllKeep(out, fs)
  PROVE  Writing(store, src, NoOutput, <<>>, fs2)
<1>1. Activations(NoOutput, <<>>)
  <2>1. Len(<<>>) = 0 /\ 1 .. 0 = {} /\ <<>> \in Seq(Frames)
    OBVIOUS
  <2>. QED BY <2>1 DEF Activations
<1>2. Progress(store, NoOutput, <<>>)
  BY DEF Writing, Progress
<1>3. Images(store, src, NoOutput, fs2)
  BY DEF Writing, Images
<1>. QED BY <1>1, <1>2, <1>3 DEF Writing

\* What is in a list of files
LEMMA AppendFile ==
  ASSUME NEW S, NEW fs \in Seq(S), NEW x
  PROVE  /\ Append(fs, x) \in Seq(S \cup {x}) /\ DOMAIN Append(fs, x) = 1 .. Len(fs) + 1
         /\ \A n \in 1 .. Len(fs) : Append(fs, x)[n] = fs[n]
         /\ Append(fs, x)[Len(fs) + 1] = x
<1>1. fs \in Seq(S \cup {x})
  BY SeqDef
<1>. QED BY <1>1, AppendProperties

FilesWhole(src, fs) ==
  /\ \E S : fs \in Seq(S)
  /\ \A n \in DOMAIN fs : fs[n].keep /\ (\A l \in 1 .. n : fs[l].keep) => fs[n].content = Expand(src, fs[n].mem)

\* A file that is written has the content of its memory; if all files keep overlapping
\* blocks, that is what the memory of the source stands for.
LEMMA WrittenKeep ==
  ASSUME NEW store, NEW src, NEW out, NEW fs, Writing(store, src, out, <<>>, fs), out # NoOutput,
         FilesWhole(src, fs), NEW x, x.mem = out.mem, x.keep = out.keep,
         x.content = Content(store[out.mem], store[out.mem].blocks),
         NEW fs2, fs2 = Append(fs, x)
  PROVE  FilesWhole(src, fs2) /\ Writing(store, src, NoOutput, <<>>, fs2)
<1>1. PICK S : fs \in Seq(S)
  BY DEF FilesWhole
<1>2. PICK n \in Nat : n = Len(fs)
  BY <1>1, LenProperties
<1>3. /\ fs2 \in Seq(S \cup {x}) /\ DOMAIN fs2 = 1 .. n + 1
      /\ \A l \in 1 .. n : fs2[l] = fs[l]
      /\ fs2[n + 1] = x
  BY ONLY <1>1, <1>2, fs2 = Append(fs, x), AppendFile
<1>4. DOMAIN fs = 1 .. n
  BY ONLY <1>1, <1>2, LenProperties
<1>5. ASSUME \A l \in 1 .. n + 1 : fs2[l].keep PROVE AllKeep(out, fs)
  <2>1. out.keep
    <3>1. n + 1 \in 1 .. n + 1
      OBVIOUS
    <3>. QED BY <1>3, <1>5, <3>1
  <2>2. ASSUME NEW l \in 1 .. n PROVE fs[l].keep
    <3>1. l \in 1 .. n + 1
      OBVIOUS
    <3>. QED BY <1>3, <1>5, <3>1
  <2>. QED BY <1>4, <2>1, <2>2 DEF AllKeep
<1>6. Writing(store, src, NoOutput, <<>>, fs2)
  <2>1. AllKeep(NoOutput, fs2) => AllKeep(out, fs)
    BY <1>3, <1>5 DEF AllKeep
  <2>. QED BY ONLY <2>1, Writing(store, src, out, <<>>, fs), BetweenOutputs
<1>7. ASSUME NEW l \in 1 .. n + 1, fs2[l].keep, \A q \in 1 .. l : fs2[q].keep
      PROVE  fs2[l].content = Expand(src, fs2[l].mem)
  <2>1. CASE l = n + 1
    <3>1. AllKeep(out, fs)
      BY <1>5, <1>7, <2>1
    <3>2. PICK m \in Mems : m = out.mem
      BY DEF Writing, Activations, Formats
    <3>3. Stored(store) /\ Complete(store[m], out.keep) /\ Flat(store[m], m, <<>>)
      BY <3>2 DEF Writing, Progress
    <3>4. Refs(store[m]) = {}
      <4>1. ~Active(<<>>, m, "splice")
        BY DEF Active
      <4>. QED BY ONLY <3>3, <4>1 DEF Complete, Flat
    <3>5. Expand(store, m) = Content(store[m], store[m].blocks)
      BY ONLY <3>3, <3>4, m \in Mems, ExpandClosed
    <3>6. Expand(store, m) = Expand(src, m)
      BY <3>1 DEF Writing, Images
    <3>. QED BY <1>3, <2>1, <3>2, <3>5, <3>6
  <2>2. CASE l # n + 1
    <3>1. l \in 1 .. n
      BY <2>2
    <3>2. fs2[l] = fs[l]
      BY <1>3, <3>1
    <3>3. \A q \in 1 .. l : q \in 1 .. n /\ fs2[q] = fs[q]
      BY <1>3, <3>1
    <3>4. fs[l].keep /\ \A q \in 1 .. l : fs[q].keep
      BY <1>7, <3>2, <3>3
    <3>5. fs[l].content = Expand(src, fs[l].mem)
      BY <1>4, <3>1, <3>4 DEF FilesWhole
    <3>. QED BY <3>2, <3>5
  <2>. QED BY <2>1, <2>2
<1>8. FilesWhole(src, fs2)
  BY ONLY <1>3, <1>7 DEF FilesWhole
<1>. QED BY ONLY <1>6, <1>8

\* A file that was not opened is none that has all bytes.
LEMMA MissingKeep ==
  ASSUME NEW store, NEW src, NEW fs, Writing(store, src, NoOutput, <<>>, fs),
         FilesWhole(src, fs), NEW x, ~x.keep, NEW fs2, fs2 = Append(fs, x)
  PROVE  FilesWhole(src, fs2) /\ Writing(store, src, NoOutput, <<>>, fs2)
<1>1. PICK S : fs \in Seq(S)
  BY DEF FilesWhole
<1>2. PICK n \in Nat : n = Len(fs)
  BY <1>1, LenProperties
<1>3. /\ fs2 \in Seq(S \cup {x}) /\ DOMAIN fs2 = 1 .. n + 1
      /\ \A l \in 1 .. n : fs2[l] = fs[l]
      /\ fs2[n + 1] = x
  BY ONLY <1>1, <1>2, fs2 = Append(fs, x), AppendFile
<1>4. DOMAIN fs = 1 .. n
  BY ONLY <1>1, <1>2, LenProperties
<1>6. Writing(store, src, NoOutput, <<>>, fs2)
  <2>1. ~AllKeep(NoOutput, fs2)
    <3>1. n + 1 \in 1 .. n + 1
      OBVIOUS
    <3>. QED BY <1>3, <3>1 DEF AllKeep
  <2>. QED BY ONLY <2>1, Writing(store, src, NoOutput, <<>>, fs), BetweenOutputs
<1>7. ASSUME NEW l \in 1 .. n + 1, fs2[l].keep, \A q \in 1 .. l : fs2[q].keep
      PROVE  fs2[l].content = Expand(src, fs2[l].mem)
  <2>1. l \in 1 .. n
    BY <1>3, <1>7
  <2>2. fs2[l] = fs[l]
    BY <1>3, <2>1
  <2>3. \A q \in 1 .. l : q \in 1 .. n /\ fs2[q] = fs[q]
    BY <1>3, <2>1
  <2>4. fs[l].keep /\ \A q \in 1 .. l : fs[q].keep
    BY <1>7, <2>2, <2>3
  <2>5. fs[l].content = Expand(src, fs[l].mem)
    BY <1>4, <2>1, <2>4 DEF FilesWhole
  <2>. QED BY <2>2, <2>5
<1>8. FilesWhole(src, fs2)
  BY ONLY <1>3, <1>7 DEF FilesWhole
<1>. QED BY ONLY <1>6, <1>8

\* Write keeps the invariant of the outputs and of the files.
LEMMA WriteNow ==
  ASSUME Now, Write, FilesWhole(source, files)
  PROVE  FilesWhole(source, files') /\ Writing(mem, source, output', stack', files')
<1>1. PICK M, S, out, fs, fs2 : M = mem /\ S = source /\ out = output /\ fs = files /\ fs2 = files'
  OBVIOUS
<1>2. Writing(M, S, out, <<>>, fs) /\ out # NoOutput /\ FilesWhole(S, fs)
  BY <1>1 DEF Now, Write
<1>3. PICK done : fs2 = Append(fs, [mem |-> out.mem, keep |-> out.keep, done |-> done,
                                    content |-> Content(M[out.mem], M[out.mem].blocks)])
  BY <1>1 DEF Write
<1>4. PICK x : x = [mem |-> out.mem, keep |-> out.keep, done |-> done,
                    content |-> Content(M[out.mem], M[out.mem].blocks)]
  OBVIOUS
<1>5. /\ x.mem = out.mem /\ x.keep = out.keep
      /\ x.content = Content(M[out.mem], M[out.mem].blocks)
  BY ONLY <1>4
<1>6. FilesWhole(S, fs2) /\ Writing(M, S, NoOutput, <<>>, fs2)
  BY ONLY <1>2, <1>3, <1>4, <1>5, WrittenKeep
<1>7. output' = NoOutput /\ stack' = <<>>
  BY DEF Write
<1>. QED BY ONLY <1>1, <1>6, <1>7

\* So does Unopened.
LEMMA UnopenedNow ==
  ASSUME Now, Unopened, FilesWhole(source, files)
  PROVE  FilesWhole(source, files') /\ Writing(mem, source, output, stack, files')
<1>1. PICK M, S, fs, fs2 : M = mem /\ S = source /\ fs = files /\ fs2 = files'
  OBVIOUS
<1>2. output = NoOutput /\ stack = <<>>
  BY DEF Unopened, Ready
<1>3. Writing(M, S, NoOutput, <<>>, fs) /\ FilesWhole(S, fs)
  BY <1>1, <1>2 DEF Now
<1>4. PICK x : x = [mem |-> "root", keep |-> FALSE, done |-> FALSE, content |-> <<>>]
  OBVIOUS
<1>5. ~x.keep /\ fs2 = Append(fs, x)
  BY <1>1, <1>4 DEF Unopened
<1>6. FilesWhole(S, fs2) /\ Writing(M, S, NoOutput, <<>>, fs2)
  BY ONLY <1>3, <1>5, MissingKeep
<1>. QED BY ONLY <1>1, <1>2, <1>6

(***************************************************************************)
(* The invariant of the run, and the theorems.                             *)
(***************************************************************************)
Reading(store) == store \in [Mems -> Memory] /\ \A m \in Mems : Filling(store[m], m)

\* An empty memory is one that a pass fills.
LEMMA NothingFilled == Reading(NoBytes)
<1>. SUFFICES ASSUME NEW m \in Mems PROVE Filling(NewMemblocks, m)
  BY DEF Reading, NoBytes, Filling
<1>1. PICK s : s = NewMemblocks
  OBVIOUS
<1>2. /\ s.bytes = <<>> /\ s.blocks = <<>> /\ s.lastp = 0 /\ s.lastaddr = 0
      /\ s.flattened = FALSE /\ s.merged = FALSE
  BY <1>1 DEF NewMemblocks
<1>3. s \in Memory
  BY <1>1 DEF NewMemblocks, Memory
<1>4. Own(s.blocks) = {} /\ Refs(s) = {}
  BY <1>2 DEF Own, Refs
<1>5. Len(s.bytes) = 0
  BY <1>2
<1>6. Raw(s)
  BY <1>2, <1>4, <1>5 DEF Raw, OwnBytes
<1>. QED BY <1>1, <1>3, <1>4, <1>6 DEF Filling, Referring

\* Filling one memory leaves the others.
LEMMA ReadingTurns ==
  ASSUME NEW store, Reading(store), NEW m \in Mems, NEW t, Filling(t, m), NEW other, other = [store EXCEPT ![m] = t]
  PROVE  Reading(other)
BY DEF Reading, Filling

\* The outputs begin with what the last pass left.
LEMMA OpeningNow ==
  ASSUME NEW store, Reading(store)
  PROVE  Writing(store, store, NoOutput, <<>>, <<>>)
<1>1. Stored(store)
  BY RawSound DEF Reading, Filling, Stored
<1>2. Activations(NoOutput, <<>>)
  <2>1. Len(<<>>) = 0 /\ 1 .. 0 = {} /\ <<>> \in Seq(Frames)
    OBVIOUS
  <2>. QED BY <2>1 DEF Activations
<1>3. Progress(store, NoOutput, <<>>)
  <2>1. ASSUME NEW m \in Mems
        PROVE  Unmerged(store[m]) /\ Flat(store[m], m, <<>>) /\ Merged(store[m], m, <<>>)
    <3>1. Raw(store[m])
      BY DEF Reading, Filling
    <3>. QED BY <3>1 DEF Raw, Unmerged, Flat, Merged
  <2>2. 1 .. Len(<<>>) = {}
    OBVIOUS
  <2>. QED BY <2>1, <2>2 DEF Progress
<1>4. Images(store, store, NoOutput, <<>>)
  BY SameItself DEF Images
<1>. QED BY <1>1, <1>2, <1>3, <1>4 DEF Writing

\* There is nothing wrong with no file.
LEMMA NoFiles == \A src : FilesWhole(src, <<>>)
<1>1. DOMAIN <<>> = {} /\ <<>> \in Seq({})
  OBVIOUS
<1>. QED BY ONLY <1>1 DEF FilesWhole

OutInv ==
  /\ made \in Nat
  /\ stage \in {"pass", "listing", "symbols"} => Reading(mem) /\ files = <<>>
  /\ stage # "outputs" => stack = <<>> /\ output = NoOutput
  /\ stage = "outputs" => Stored(source) /\ Now
  /\ FilesWhole(source, files)

\* The invariant holds at first.
LEMMA OutInit == Init => OutInv
<1>. SUFFICES ASSUME Init PROVE OutInv
  OBVIOUS
<1>1. Reading(mem)
  BY NothingFilled DEF Init
<1>2. FilesWhole(source, files)
  BY NoFiles DEF Init
<1>. QED BY <1>1, <1>2 DEF Init, OutInv

\* A byte keeps it,
LEMMA ByteKeeps ==
  ASSUME OutInv, NEW m \in Mems, NEW adr \in 0 .. Size - 1, Byte(m, adr)
  PROVE  OutInv'
<1>1. stage \in {"pass", "listing"} /\ made \in Nat /\ Reading(mem)
  BY DEF OutInv, Byte, InPass
<1>2. PICK t : t = AllocMem(mem[m], adr)
  OBVIOUS
<1>3. adr \in Int
  BY OutputsAssumption
<1>4. Filling(mem[m], m)
  BY <1>1 DEF Reading
<1>5. Filling(t, m)
  BY ONLY <1>1, <1>2, <1>3, <1>4, AllocKeeps
<1>6. mem' = [mem EXCEPT ![m] = t]
  BY <1>2 DEF Byte
<1>7. Reading(mem')
  BY ONLY <1>1, <1>5, <1>6, m \in Mems, ReadingTurns
<1>8. /\ made' = made + 1 /\ stage' = stage /\ source' = source /\ output' = output
      /\ stack' = stack /\ files' = files
  BY DEF Byte
<1>9. made' \in Nat
  BY <1>1, <1>8
<1>. QED BY <1>1, <1>7, <1>8, <1>9 DEF OutInv

\* the place of a section too,
LEMMA DsectionKeeps ==
  ASSUME OutInv, NEW ln \in Nat, Dsection(ln)
  PROVE  OutInv'
<1>1. stage \in {"pass", "listing"} /\ Reading(mem) /\ WithSection /\ Refs(mem["root"]) = {}
  BY DEF OutInv, Dsection, InPass
<1>2. "root" \in Mems
  BY DEF Mems
<1>3. PICK s : s = mem["root"]
  OBVIOUS
<1>4. Filling(s, "root")
  BY <1>1, <1>2, <1>3 DEF Reading
<1>5. PICK t : t = [s EXCEPT !.blocks = Append(@, [p |-> s.lastp, addr |-> NextAddr(s), len |-> ln, ref |-> "sec"])]
  OBVIOUS
<1>6. Filling(t, "root") /\ NextAddr(s) \in Int
  BY ONLY <1>1, <1>3, <1>4, <1>5, ln \in Nat, SectionKeeps
<1>7. PICK n \in Int : n = (NextAddr(s) + ln) % Size
  BY <1>6, OutputsAssumption
<1>8. PICK u : u = IF ln = 0 THEN t ELSE MemJmp(t, n)
  OBVIOUS
<1>9. Filling(u, "root")
  <2>1. Filling(MemJmp(t, n), "root")
    BY ONLY <1>6, n \in Int, JmpKeeps
  <2>. QED BY <1>6, <1>8, <2>1
<1>10. mem' = [mem EXCEPT !["root"] = u]
  BY <1>3, <1>5, <1>7, <1>8 DEF Dsection
<1>11. Reading(mem')
  BY ONLY <1>1, <1>2, <1>9, <1>10, ReadingTurns
<1>12. /\ made' = made /\ stage' = stage /\ source' = source /\ output' = output
       /\ stack' = stack /\ files' = files
  BY DEF Dsection
<1>. QED BY <1>1, <1>11, <1>12 DEF OutInv

\* Only the last two of the stages and those of the passes have no output.
LEMMA NewPassKeeps ==
  ASSUME OutInv, NEW next \in {"pass", "listing"}, stage = "pass", NewPass(next)
  PROVE  OutInv'
<1>1. mem' = NoBytes /\ made' = 0 /\ stage' = next
  BY DEF NewPass
<1>2. source' = source /\ output' = output /\ stack' = stack /\ files' = files
  BY DEF NewPass
<1>3. Reading(mem')
  BY <1>1, NothingFilled
<1>4. files = <<>> /\ stack = <<>> /\ output = NoOutput
  BY DEF OutInv
<1>. QED BY <1>1, <1>2, <1>3, <1>4 DEF OutInv

\* and the end of the passes.
LEMMA PassesOverKeeps ==
  ASSUME OutInv, PassesOver
  PROVE  OutInv'
<1>1. stage \in {"pass", "listing"} /\ stage' \in {"shown", "symbols"}
  BY DEF PassesOver, LoopOver, LinesOver, InPass
<1>2. mem' = mem /\ made' = made /\ source' = source /\ output' = output /\ stack' = stack /\ files' = files
  BY DEF PassesOver, memVars
<1>. QED BY <1>1, <1>2 DEF OutInv

\* memclose closes all memories; what they are then, is the source of all outputs.
LEMMA SymbolsKeeps ==
  ASSUME OutInv, Symbols
  PROVE  OutInv'
<1>1. stage = "symbols" /\ Reading(mem) /\ files = <<>> /\ stack = <<>> /\ output = NoOutput
  BY DEF OutInv, Symbols
<1>2. /\ source' = mem' /\ made' = made /\ output' = NoOutput /\ stack' = <<>> /\ files' = <<>>
      /\ stage' \in {"shown", "outputs"}
  BY <1>1 DEF Symbols
<1>3. Reading(mem')
  <2>1. CASE mem' = mem
    BY <1>1, <2>1
  <2>2. CASE mem' = [m \in Mems |-> MemJmp(mem[m], 0)]
    <3>1. ASSUME NEW m \in Mems PROVE Filling(MemJmp(mem[m], 0), m)
      <4>1. Filling(mem[m], m) /\ 0 \in Int
        BY <1>1 DEF Reading
      <4>. QED BY ONLY <4>1, JmpKeeps
    <3>. QED BY ONLY <2>2, <3>1 DEF Reading, Filling
  <2>. QED BY <2>1, <2>2 DEF Symbols
<1>4. Writing(mem', mem', NoOutput, <<>>, <<>>)
  BY ONLY <1>3, OpeningNow
<1>5. FilesWhole(mem', <<>>)
  BY ONLY NoFiles
<1>6. Now' /\ Stored(source')
  BY <1>2, <1>4 DEF Now, Writing
<1>7. made \in Nat
  BY DEF OutInv
<1>. QED BY <1>2, <1>5, <1>6, <1>7 DEF OutInv

\* Every step of memcomp keeps the invariant.
LEMMA MemcompKeeps ==
  ASSUME OutInv, Memcomp
  PROVE  OutInv'
<1>1. stack # <<>> /\ stage' = stage /\ source' = source /\ made' = made /\ output' = output /\ files' = files
  BY DEF Memcomp, EnterMemcomp, Splice, CopyLater, CutEarlier, Apart, NextBlock, Sort, Inner
<1>2. stage = "outputs" /\ Now
  BY <1>1 DEF OutInv
<1>3. Writing(mem', source, output, stack', files)
  <2>1. CASE EnterMemcomp
    BY <1>2, <2>1, EnterNow
  <2>2. CASE Splice
    BY <1>2, <2>2, SpliceNow
  <2>3. CASE CopyLater
    BY <1>2, <2>3, CopyNow
  <2>4. CASE CutEarlier
    BY <1>2, <2>4, CutNow
  <2>5. CASE Apart
    BY <1>2, <2>5, ApartNow
  <2>6. CASE NextBlock
    BY <1>2, <2>6, EmptyNow, DoneNow
  <2>7. CASE Sort
    BY <1>2, <2>7, SortNow
  <2>. QED BY <2>1, <2>2, <2>3, <2>4, <2>5, <2>6, <2>7 DEF Memcomp
<1>4. Now'
  BY <1>1, <1>3 DEF Now
<1>. QED BY <1>1, <1>2, <1>4 DEF OutInv

\* So do the other steps of the outputs.
LEMMA EndingKeeps ==
  ASSUME OutInv, NextOutput \/ Unopened \/ Write \/ OutputsOver
  PROVE  OutInv'
<1>1. CASE NextOutput
  <2>1. stage = "outputs" /\ Now
    BY <1>1 DEF OutInv, NextOutput, Ready
  <2>2. Writing(mem, source, output', stack', files)
    BY ONLY <1>1, <2>1, NextOutputNow
  <2>3. stage' = stage /\ mem' = mem /\ source' = source /\ made' = made /\ files' = files
    BY <1>1 DEF NextOutput
  <2>4. Now'
    BY <2>2, <2>3 DEF Now
  <2>. QED BY <2>1, <2>3, <2>4 DEF OutInv
<1>2. CASE Unopened
  <2>1. stage = "outputs" /\ Now /\ FilesWhole(source, files)
    BY <1>2 DEF OutInv, Unopened, Ready
  <2>2. FilesWhole(source, files') /\ Writing(mem, source, output, stack, files')
    BY ONLY <1>2, <2>1, UnopenedNow
  <2>3. /\ stage' = stage /\ mem' = mem /\ source' = source /\ made' = made /\ output' = output
        /\ stack' = stack
    BY <1>2 DEF Unopened
  <2>4. Now'
    BY <2>2, <2>3 DEF Now
  <2>. QED BY <2>1, <2>2, <2>3, <2>4 DEF OutInv
<1>3. CASE Write
  <2>1. stage = "outputs" /\ Now /\ FilesWhole(source, files)
    BY <1>3 DEF OutInv, Write
  <2>2. FilesWhole(source, files') /\ Writing(mem, source, output', stack', files')
    BY ONLY <1>3, <2>1, WriteNow
  <2>3. stage' = stage /\ mem' = mem /\ source' = source /\ made' = made
    BY <1>3 DEF Write
  <2>4. Now'
    BY <2>2, <2>3 DEF Now
  <2>. QED BY <2>1, <2>2, <2>3, <2>4 DEF OutInv
<1>4. CASE OutputsOver
  <2>1. stack = <<>> /\ output = NoOutput /\ stage' = "shown"
    BY <1>4 DEF OutputsOver
  <2>2. mem' = mem /\ made' = made /\ source' = source /\ output' = output /\ stack' = stack /\ files' = files
    BY <1>4 DEF OutputsOver, memVars
  <2>. QED BY <2>1, <2>2 DEF OutInv
<1>. QED BY <1>1, <1>2, <1>3, <1>4

\* Steps that change neither blocks nor outputs keep it.
LEMMA OutStays ==
  ASSUME OutInv, stage' = stage, UNCHANGED memVars
  PROVE  OutInv'
BY DEF OutInv, memVars, Now

\* Every step keeps the invariant.
LEMMA OutNext ==
  ASSUME OutInv, [Next]_vars
  PROVE  OutInv'
<1>1. CASE UNCHANGED vars
  BY <1>1, OutStays DEF vars, memVars
<1>2. CASE Pass
  <2>1. CASE \E m \in Mems, a \in 0 .. Size - 1 : Byte(m, a)
    BY <2>1, ByteKeeps
  <2>2. CASE Dsection(0) \/ Dsection(1)
    BY <2>2, DsectionKeeps
  <2>3. CASE InPass /\ MsgStep /\ UNCHANGED <<stage, memVars, endVars>>
    BY <2>3, OutStays
  <2>. QED BY <1>2, <2>1, <2>2, <2>3 DEF Pass
<1>3. CASE NextPass \/ ListingPass
  BY <1>3, NewPassKeeps DEF NextPass, ListingPass
<1>4. CASE PassesOver
  BY <1>4, PassesOverKeeps
<1>5. CASE Symbols
  BY <1>5, SymbolsKeeps
<1>6. CASE Ending
  BY <1>6, MemcompKeeps, EndingKeeps DEF Ending
<1>7. CASE Show
  <2>1. stage = "shown" /\ stage' = "done" /\ UNCHANGED memVars
    BY <1>7 DEF Show
  <2>. QED BY <2>1 DEF OutInv, memVars
<1>. QED BY <1>1, <1>2, <1>3, <1>4, <1>5, <1>6, <1>7 DEF Next

\* While memcomp merges a memory, what is done and what is left show what all of it shows.
LEMMA MidwaySame ==
  ASSUME NEW store, Stored(store), NEW m \in Mems, NEW f, MergingAt(store[m], f),
         NEW q, q = SubSeq(store[m].blocks, 1, f.k) \o SubSeq(store[m].blocks, f.j, Len(store[m].blocks))
  PROVE  Content(store[m], q) \in Seq(Places) /\ SameImage(Content(store[m], q), Expand(store, m))
<1>1. PICK s : s = store[m]
  OBVIOUS
<1>2. PICK b, bs : b = s.bytes /\ bs = s.blocks
  OBVIOUS
<1>3. Refs(s) = {} /\ Merges(b, bs, f.i, f.j, f.k)
  BY <1>1, <1>2 DEF MergingAt
<1>4. Whole(b, bs) /\ Expand(store, m) = Content(s, bs)
  BY ONLY <1>1, <1>2, <1>3, Stored(store), m \in Mems, ExpandClosed
<1>5. q = SubSeq(bs, 1, f.k) \o SubSeq(bs, f.j, Len(bs))
  BY <1>1, <1>2
<1>6. Whole(b, q) /\ SameShown(b, q, 1 .. Len(q), b, bs, Live(bs, f.j, f.k))
  BY ONLY <1>3, <1>5, LiveShown
<1>7. SameShown(b, bs, 1 .. Len(bs), b, bs, Live(bs, f.j, f.k))
  BY ONLY <1>3, RawShown
<1>8. s.bytes \in Seq(Nat) /\ bs \in Seq(Block) /\ AllFit(s.bytes, bs) /\ q \in Seq(Block) /\ AllFit(s.bytes, q)
  BY ONLY <1>2, <1>4, <1>6 DEF Whole
<1>9. Content(s, q) \in Seq(Places)
  BY ONLY <1>8, ContentType
<1>10. ASSUME NEW a \in Int, NEW v \in Int PROVE Says(Content(s, q), a, v) <=> Says(Content(s, bs), a, v)
  <2>1. Says(Content(s, q), a, v) <=> Shows(s.bytes, q, 1 .. Len(q), a, v)
    BY ONLY <1>8, a \in Int, v \in Int, ContentSays
  <2>2. Says(Content(s, bs), a, v) <=> Shows(s.bytes, bs, 1 .. Len(bs), a, v)
    BY ONLY <1>8, a \in Int, v \in Int, ContentSays
  <2>3. Shows(b, q, 1 .. Len(q), a, v) <=> Shows(b, bs, 1 .. Len(bs), a, v)
    BY ONLY <1>6, <1>7, a \in Int, v \in Int DEF SameShown
  <2>. QED BY ONLY <1>2, <2>1, <2>2, <2>3
<1>11. SameImage(Content(s, q), Content(s, bs))
  BY ONLY <1>10 DEF SameImage
<1>. QED BY ONLY <1>1, <1>4, <1>9, <1>11

\* What ImageKept looks at has the image of the memory.
LEMMA CurrentSame ==
  ASSUME Now, NEW m \in Mems
  PROVE  Current(m) \in Seq(Places) /\ SameImage(Current(m), Expand(mem, m))
<1>1. PICK M, S, out, st, fs : M = mem /\ S = source /\ out = output /\ st = stack /\ fs = files
  OBVIOUS
<1>2. Stored(M) /\ Activations(out, st) /\ Progress(M, out, st)
  BY <1>1 DEF Now, Writing
<1>3. PICK merge : merge = {d \in DOMAIN st : st[d].mem = m /\ st[d].at = "merge"}
  OBVIOUS
<1>4. CASE merge = {}
  <2>1. Current(m) = Expand(M, m)
    BY <1>1, <1>3, <1>4 DEF Current
  <2>. QED BY ONLY <1>1, <1>2, <2>1, m \in Mems, ExpandAll, SameItself
<1>5. CASE merge # {}
  <2>1. PICK e : e = CHOOSE d \in merge : TRUE
    OBVIOUS
  <2>2. e \in merge
    BY <1>5, <2>1
  <2>3. PICK f : f = st[e]
    OBVIOUS
  <2>4. f.mem = m /\ f.at = "merge" /\ e \in 1 .. Len(st)
    BY <1>2, <1>3, <2>2, <2>3 DEF Activations
  <2>5. MergingAt(M[m], f)
    BY ONLY <1>2, <2>3, <2>4 DEF Progress
  <2>6. PICK q : q = SubSeq(M[m].blocks, 1, f.k) \o SubSeq(M[m].blocks, f.j, Len(M[m].blocks))
    OBVIOUS
  <2>7. Current(m) = Content(M[m], q)
    BY ONLY <1>1, <1>3, <1>5, <2>1, <2>3, <2>6, Zenon DEF Current
  <2>. QED BY ONLY <1>1, <1>2, <2>5, <2>6, <2>7, m \in Mems, MidwaySame
<1>. QED BY ONLY <1>4, <1>5

\* The invariant implies ImageKept,
LEMMA ImageFollows == OutInv => ImageKept
<1>. SUFFICES ASSUME OutInv, stage = "outputs", NEW m \in Mems
              PROVE  Loaded(Current(m)) = Loaded(Expand(source, m))
  BY DEF ImageKept
<1>1. Now
  BY DEF OutInv
<1>2. Current(m) \in Seq(Places) /\ SameImage(Current(m), Expand(mem, m))
  BY ONLY <1>1, m \in Mems, CurrentSame
<1>3. SameImage(Expand(mem, m), Expand(source, m)) /\ Stored(mem)
  BY <1>1 DEF Now, Writing, Images
<1>4. SameImage(Current(m), Expand(source, m))
  BY ONLY <1>2, <1>3, SameTrans
<1>5. Expand(source, m) \in Seq(Places)
  <2>1. Stored(source)
    BY DEF OutInv
  <2>. QED BY ONLY <2>1, m \in Mems, ExpandAll
<1>. QED BY ONLY <1>2, <1>4, <1>5, SameLoaded

\* and KeptWhole.
LEMMA WholeFollows == OutInv => KeptWhole
<1>. SUFFICES ASSUME OutInv PROVE KeptWhole
  OBVIOUS
<1>1. ASSUME output # NoOutput, stack = <<>>, ~output.keep, NEW b, b = mem[output.mem].blocks,
             NEW i \in DOMAIN b, NEW j \in DOMAIN b, i < j
      PROVE  b[i].addr + b[i].len <= b[j].addr /\ b[j].len # 0
  <2>1. Now
    BY <1>1 DEF OutInv
  <2>2. PICK m \in Mems : m = output.mem
    BY <1>1, <2>1 DEF Now, Writing, Activations, Formats
  <2>3. Complete(mem[m], output.keep) /\ Stored(mem)
    BY <1>1, <2>1, <2>2 DEF Now, Writing, Progress
  <2>4. PICK bs \in Seq(Block) : bs = b
    BY <1>1, <2>2, <2>3, StoredIs
  <2>5. Len(bs) < 2 \/ Neat(bs)
    BY <1>1, <2>2, <2>3, <2>4 DEF Complete
  <2>6. i \in 1 .. Len(bs) /\ j \in 1 .. Len(bs) /\ Len(bs) \in Nat
    BY <1>1, <2>4
  <2>7. Neat(bs)
    BY ONLY <1>1, <2>5, <2>6
  <2>. QED BY ONLY <1>1, <2>4, <2>6, <2>7 DEF Neat
<1>2. \A n \in DOMAIN files :
        files[n].keep /\ (\A l \in 1 .. n : files[l].keep) => files[n].content = Expand(source, files[n].mem)
  BY DEF OutInv, FilesWhole
<1>. QED BY ONLY <1>1, <1>2 DEF KeptWhole

\* The invariant holds in every behaviour: memories are filled with blocks that share no
\* byte, and from the source on each step of memcomp keeps the image of each memory, and its
\* content as long as only formats that keep overlapping blocks are asked for.
THEOREM OutKept == Spec => []OutInv
<1>1. OutInv /\ [Next]_vars => OutInv'
  BY OutNext
<1>. QED BY ONLY <1>1, OutInit, PTL DEF Spec

\* Whatever sections, addresses and formats, an output loads as the blocks of the source do:
\* no turn of the loops of memcomp (mem.c) loses the byte that was produced last for an address.
THEOREM ImageIsKept == Spec => []ImageKept
BY OutKept, ImageFollows, PTL

\* Blocks that were made disjoint are in the order of their addresses when they are written,
\* and formats that keep overlapping blocks get all bytes in the order of the source.
THEOREM WrittenWhole == Spec => []KeptWhole
BY OutKept, WholeFollows, PTL
=============================================================================
