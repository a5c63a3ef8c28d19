--------------------------- MODULE MessagesProofs ---------------------------
(***************************************************************************)
(* Theorems about the messages (error.c) and the exit status, for any      *)
(* reports, inclusions, passes, interruptions and outputs.                 *)
(***************************************************************************)
EXTENDS OutputsProofs, FiniteSetTheorems

(***************************************************************************)
(* Folds.                                                                  *)
(***************************************************************************)

\* A function on sets of numbers that makes the steps of a fold as long as the values
\* before are in a set that the steps do not leave goes through them one by one.
LEMMA FoldThrough ==
  ASSUME NEW n \in Nat, NEW Acc, NEW base \in Acc, NEW step \in [(1 .. n) \X Acc -> Acc],
         NEW h, h[{}] = base,
         \A S \in SUBSET (1 .. n) :
           S # {} /\ h[S \ {Max(S)}] \in Acc => h[S] = step[<<Max(S), h[S \ {Max(S)}]>>]
  PROVE  \E r : FoldRuns(n, Acc, base, step, h, r)
<1>. DEFINE r == [i \in 0 .. n |-> h[1 .. i]]
            T == {i \in Nat : i <= n => h[1 .. i] \in Acc}
<1>1. h[1 .. 0] = base
  <2>1. 1 .. 0 = {}
    OBVIOUS
  <2>. QED BY <2>1
<1>2. ASSUME NEW i \in Nat, i + 1 <= n, h[1 .. i] \in Acc
      PROVE  h[1 .. i + 1] = step[<<i + 1, h[1 .. i]>>] /\ h[1 .. i + 1] \in Acc
  <2>1. 1 .. i + 1 \in SUBSET (1 .. n) /\ 1 .. i + 1 # {} /\ i + 1 \in 1 .. n
    <3>1. i + 1 <= n
      BY <1>2
    <3>2. i + 1 \in 1 .. n /\ i + 1 \in 1 .. i + 1
      BY ONLY <3>1, n \in Nat, i \in Nat
    <3>3. \A y \in 1 .. i + 1 : y \in 1 .. n
      BY ONLY <3>1, n \in Nat, i \in Nat
    <3>. QED BY ONLY <3>2, <3>3
  <2>2. Max(1 .. i + 1) = i + 1 /\ (1 .. i + 1) \ {i + 1} = 1 .. i
    BY LastOne
  <2>3. h[1 .. i + 1] = step[<<i + 1, h[1 .. i]>>]
    BY ONLY <1>2, <2>1, <2>2,
       \A S \in SUBSET (1 .. n) :
           S # {} /\ h[S \ {Max(S)}] \in Acc => h[S] = step[<<Max(S), h[S \ {Max(S)}]>>]
  <2>. QED BY ONLY <1>2, <2>1, <2>3, step \in [(1 .. n) \X Acc -> Acc]
<1>3. \A i \in Nat : i \in T
  <2>1. 0 \in T
    BY <1>1
  <2>2. ASSUME NEW i \in Nat, i \in T PROVE i + 1 \in T
    <3>. SUFFICES ASSUME i + 1 <= n PROVE h[1 .. i + 1] \in Acc
      OBVIOUS
    <3>1. h[1 .. i] \in Acc
      BY <2>2
    <3>. QED BY <1>2, <3>1
  <2>. HIDE DEF T
  <2>. QED BY <2>1, <2>2, Inductive
<1>4. r \in [0 .. n -> Acc]
  <2>1. \A i \in 0 .. n : i \in Nat /\ i <= n
    OBVIOUS
  <2>2. \A i \in 0 .. n : h[1 .. i] \in Acc
    BY <1>3, <2>1
  <2>. QED BY <2>2
<1>5. \A i \in 1 .. n : r[i] = step[<<i, r[i - 1]>>]
  <2>. SUFFICES ASSUME NEW i \in 1 .. n PROVE r[i] = step[<<i, r[i - 1]>>]
    OBVIOUS
  <2>1. i - 1 \in Nat /\ (i - 1) + 1 = i /\ i <= n /\ i - 1 <= n /\ i - 1 \in 0 .. n /\ i \in 0 .. n
    OBVIOUS
  <2>2. h[1 .. i - 1] \in Acc
    BY <1>3, <2>1
  <2>3. h[1 .. i] = step[<<i, h[1 .. i - 1]>>]
    BY <1>2, <2>1, <2>2
  <2>. QED BY <2>1, <2>3
<1>6. r[0] = base /\ h[1 .. n] = r[n]
  <2>1. 0 \in 0 .. n /\ n \in 0 .. n
    OBVIOUS
  <2>. QED BY ONLY <1>1, <2>1
<1>. HIDE DEF r
<1>. QED BY <1>4, <1>5, <1>6 DEF FoldRuns

FoldedBy(n, Acc, base, step, h) ==
  /\ h = [S \in SUBSET (1 .. n) |-> h[S]]
  /\ h[{}] = base
  /\ \A S \in SUBSET (1 .. n) :
       S # {} => /\ Max(S) \in 1 .. n /\ h[S \ {Max(S)}] \in Acc
                 /\ h[S] = step[<<Max(S), h[S \ {Max(S)}]>>]

\* In what FoldExists finds, each value is made from one that is in the set as well.
LEMMA FoldedValues ==
  ASSUME NEW n \in Nat, NEW Acc, NEW base \in Acc, NEW step \in [(1 .. n) \X Acc -> Acc]
  PROVE  \E h : FoldedBy(n, Acc, base, step, h)
<1>1. PICK h : h \in [SUBSET (1 .. n) -> Acc] /\ Folded(n, base, step, h)
  BY ONLY FoldExists, n \in Nat, base \in Acc, step \in [(1 .. n) \X Acc -> Acc]
<1>2. h = [S \in SUBSET (1 .. n) |-> IF S = {} THEN base ELSE step[<<Max(S), h[S \ {Max(S)}]>>]]
  BY <1>1 DEF Folded
<1>3. ASSUME NEW S \in SUBSET (1 .. n), S # {}
      PROVE  /\ Max(S) \in 1 .. n /\ h[S \ {Max(S)}] \in Acc
             /\ h[S] = step[<<Max(S), h[S \ {Max(S)}]>>]
  <2>1. Max(S) \in S
    BY ONLY <1>3, Largest, n \in Nat
  <2>2. Max(S) \in 1 .. n /\ S \ {Max(S)} \in SUBSET (1 .. n)
    BY <2>1
  <2>3. h[S] = IF S = {} THEN base ELSE step[<<Max(S), h[S \ {Max(S)}]>>]
    BY <1>2
  <2>. QED BY <1>1, <1>3, <2>2, <2>3
<1>4. h[{}] = base
  <2>1. {} \in SUBSET (1 .. n)
    OBVIOUS
  <2>2. h[{}] = IF {} = {} THEN base ELSE step[<<Max({}), h[{} \ {Max({})}]>>]
    BY <1>2, <2>1
  <2>. QED BY <2>2
<1>5. h = [S \in SUBSET (1 .. n) |-> h[S]]
  BY <1>1
<1>. QED BY <1>3, <1>4, <1>5 DEF FoldedBy

(***************************************************************************)
(* Types.                                                                  *)
(***************************************************************************)
Severities == {"note", "warning", "none error", "error", "fatal"}
Ats == Nat \cup {r.at : r \in Reports} \cup {r.note : r \in Reports} \cup {i.at : i \in Inclusions}
LineTexts == {""} \cup {r.line : r \in Reports}
Texts == {"", "cannot write", "interrupted", "too many passes"}
           \cup {r.text : r \in Reports} \cup {r.about : r \in Reports}
FileNames == {"main", "command line"} \cup {i.file : i \in Inclusions}

\* A node of the tree is below an older one.
TreeNode == [parent : Nat, at : Ats, file : FileNames, macro : BOOLEAN, pass : Nat]
Tree(ns) == ns \in Seq(TreeNode) /\ \A i \in 1 .. Len(ns) : ns[i].parent < i

\* Messages at one of n nodes, and the list with one that is open
MessagesAt(n) == [sev : Severities, node : 0 .. n, at : Ats, line : LineTexts, text : Texts]
NotesAt(n) == {e \in MessagesAt(n) : e.sev = "note"}
LogsAt(n) == [list : Seq(MessagesAt(n)), open : MessagesAt(n) \cup {NoEntry},
              dropping : BOOLEAN, stop : Int]
Names == {<<>>} \cup {KeyOf(r) : r \in Reports}
ClaimsAt(n) == [message : MessagesAt(n), notes : Seq(NotesAt(n)), name : Names, early : BOOLEAN]

\* No message is the one that stands for none.
LEMMA NoEntryIs ==
  ASSUME NEW n
  PROVE  NoEntry \notin MessagesAt(n) /\ NoEntry.sev = "nothing" /\ NoEntry.node = Root
BY DEF NoEntry, MessagesAt, Severities

\* A message at one of n nodes is at one of more nodes.
LEMMA MoreNodes ==
  ASSUME NEW n \in Nat, NEW m \in Nat, n <= m
  PROVE  /\ MessagesAt(n) \subseteq MessagesAt(m) /\ LogsAt(n) \subseteq LogsAt(m)
         /\ ClaimsAt(n) \subseteq ClaimsAt(m)
<1>1. MessagesAt(n) \subseteq MessagesAt(m)
  <2>1. 0 .. n \subseteq 0 .. m
    OBVIOUS
  <2>. QED BY <2>1 DEF MessagesAt
<1>2. NotesAt(n) \subseteq NotesAt(m)
  BY <1>1 DEF NotesAt
<1>3. Seq(MessagesAt(n)) \subseteq Seq(MessagesAt(m)) /\ Seq(NotesAt(n)) \subseteq Seq(NotesAt(m))
  BY <1>1, <1>2
<1>4. LogsAt(n) \subseteq LogsAt(m)
  BY <1>1, <1>3 DEF LogsAt
<1>5. ClaimsAt(n) \subseteq ClaimsAt(m)
  BY <1>1, <1>3 DEF ClaimsAt
<1>. QED BY <1>1, <1>4, <1>5

(***************************************************************************)
(* The tree of files.                                                      *)
(***************************************************************************)

\* The parent of a node is an older one, and that of the root is the root.
LEMMA ParentIs ==
  ASSUME Tree(nodes), NEW n \in 0 .. Len(nodes)
  PROVE  /\ ParentOf(n) \in 0 .. Len(nodes)
         /\ IF n = 0 THEN ParentOf(n) = 0 ELSE ParentOf(n) < n
<1>1. nodes \in Seq(TreeNode) /\ Len(nodes) \in Nat
  BY DEF Tree
<1>2. CASE n = 0
  BY <1>1, <1>2 DEF ParentOf, Root
<1>3. CASE n # 0
  <2>1. n \in 1 .. Len(nodes)
    BY <1>1, <1>3
  <2>2. nodes[n].parent \in Nat /\ nodes[n].parent < n
    <3>1. nodes[n] \in TreeNode
      BY <1>1, <2>1
    <3>2. nodes[n].parent < n
      BY <2>1 DEF Tree
    <3>. QED BY <3>1, <3>2 DEF TreeNode
  <2>3. ParentOf(n) = nodes[n].parent
    BY <1>3 DEF ParentOf, Root
  <2>. QED BY <1>1, <1>3, <2>2, <2>3
<1>. QED BY <1>2, <1>3

\* enterfile keeps the tree, and gives a node of it.
LEMMA EnteredIs ==
  ASSUME NEW ns, Tree(ns), NEW parent \in 0 .. Len(ns), NEW inc, inc.at \in Ats, inc.file \in FileNames,
         inc.macro \in BOOLEAN, NEW p \in Nat, NEW e, e = Entered(ns, parent, inc, p)
  PROVE  /\ Tree(e.nodes) /\ Len(ns) <= Len(e.nodes)
         /\ e.node \in 1 .. Len(e.nodes) /\ e.node >= 1
<1>1. ns \in Seq(TreeNode) /\ Len(ns) \in Nat /\ DOMAIN ns = 1 .. Len(ns)
  BY DEF Tree
<1>2. PICK old : old = NodeAt(ns, parent, inc)
  OBVIOUS
<1>3. CASE old # {}
  <2>1. old \in SUBSET (1 .. Len(ns))
    BY <1>1, <1>2 DEF NodeAt
  <2>2. Max(old) \in 1 .. Len(ns)
    <3>1. Max(old) \in old
      BY ONLY <1>1, <1>3, <2>1, Largest
    <3>. QED BY <2>1, <3>1
  <2>3. PICK m \in 1 .. Len(ns) : m = Max(old)
    BY <2>2
  <2>4. e = [nodes |-> [ns EXCEPT ![m].pass = p], node |-> m]
    BY <1>2, <1>3, <2>3 DEF Entered
  <2>5. PICK t : t = [ns EXCEPT ![m].pass = p]
    OBVIOUS
  <2>6. PICK x \in TreeNode : x = ns[m]
    BY <1>1, <2>3
  <2>7. [x EXCEPT !.pass = p] \in TreeNode /\ [x EXCEPT !.pass = p].parent = x.parent
    BY DEF TreeNode
  <2>8. t = [ns EXCEPT ![m] = [x EXCEPT !.pass = p]]
    BY <2>5, <2>6
  <2>9. t \in Seq(TreeNode) /\ Len(t) = Len(ns) /\ \A i \in 1 .. Len(ns) : t[i].parent = ns[i].parent
    BY <1>1, <2>3, <2>6, <2>7, <2>8
  <2>10. Tree(t)
    BY <2>9 DEF Tree
  <2>. QED BY <1>1, <2>3, <2>4, <2>5, <2>9, <2>10
<1>4. CASE old = {}
  <2>1. PICK x : x = [parent |-> parent, at |-> inc.at, file |-> inc.file, macro |-> inc.macro, pass |-> p]
    OBVIOUS
  <2>2. x \in TreeNode /\ x.parent = parent
    BY <1>1, <2>1 DEF TreeNode
  <2>3. e = [nodes |-> Append(ns, x), node |-> Len(ns) + 1]
    BY <1>2, <1>4, <2>1 DEF Entered
  <2>4. PICK t : t = Append(ns, x)
    OBVIOUS
  <2>5. /\ t \in Seq(TreeNode) /\ Len(t) = Len(ns) + 1 /\ t[Len(ns) + 1] = x
        /\ \A i \in 1 .. Len(ns) : t[i] = ns[i]
    BY ONLY <1>1, <2>2, <2>4, AppendProperties
  <2>6. \A i \in 1 .. Len(t) : t[i].parent < i
    BY <1>1, <2>2, <2>5 DEF Tree
  <2>. QED BY <1>1, <2>3, <2>4, <2>5, <2>6 DEF Tree
<1>. QED BY <1>3, <1>4

\* Each way up leads to a node that is older by a step at least, or to the root.
LEMMA AboveIs ==
  ASSUME Tree(nodes), NEW n \in 0 .. Len(nodes), NEW k \in Nat
  PROVE  Above(n, k) \in 0 .. Len(nodes) /\ (Above(n, k) = 0 \/ Above(n, k) <= n - k)
<1>. DEFINE A == 0 .. Len(nodes)
            s == [i \in 1 .. k |-> i]
            step == [x \in (1 .. k) \X A |-> ParentOf(x[2])]
            F(h) == h = [S \in SUBSET (DOMAIN s) |->
                           IF S = {} THEN n ELSE ParentOf(h[S \ {Max(S)}])]
<1>1. DOMAIN s = 1 .. k /\ n \in A
  OBVIOUS
<1>2. step \in [(1 .. k) \X A -> A]
  <2>1. \A x \in (1 .. k) \X A : ParentOf(x[2]) \in A
    BY ParentIs
  <2>. QED BY <2>1
<1>3. \A i \in 1 .. k : \A c \in A : step[<<i, c>>] = ParentOf(c)
  OBVIOUS
<1>4. Above(n, k) = (CHOOSE h : F(h))[DOMAIN s]
  BY DEF Above, FoldLeft, MapThenFoldSet
<1>. HIDE DEF step, A
<1>5. \E h : F(h)
  <2>1. PICK h : FoldedBy(k, A, n, step, h)
    <3>1. n \in A
      BY <1>1
    <3>. HIDE DEF F, s
    <3>. QED BY ONLY <3>1, <1>2, k \in Nat, FoldedValues
  <2>2. \A S \in SUBSET (1 .. k) : h[S] = IF S = {} THEN n ELSE ParentOf(h[S \ {Max(S)}])
    BY <1>3, <2>1 DEF FoldedBy
  <2>. QED BY <1>1, <2>1, <2>2 DEF FoldedBy
<1>6. PICK h : h = CHOOSE f : F(f)
  OBVIOUS
<1>7. F(h)
  <2>. HIDE DEF F
  <2>. QED BY <1>5, <1>6
<1>8. \A S \in SUBSET (1 .. k) : h[S] = IF S = {} THEN n ELSE ParentOf(h[S \ {Max(S)}])
  <2>. SUFFICES ASSUME NEW S \in SUBSET (1 .. k)
                PROVE  h[S] = IF S = {} THEN n ELSE ParentOf(h[S \ {Max(S)}])
    OBVIOUS
  <2>. QED BY <1>1, <1>7
<1>9. h[{}] = n
  <2>1. {} \in SUBSET (1 .. k)
    OBVIOUS
  <2>. QED BY <1>8, <2>1
<1>10. \A S \in SUBSET (1 .. k) :
         S # {} /\ h[S \ {Max(S)}] \in A => h[S] = step[<<Max(S), h[S \ {Max(S)}]>>]
  <2>. SUFFICES ASSUME NEW S \in SUBSET (1 .. k), S # {}, h[S \ {Max(S)}] \in A
                PROVE  h[S] = step[<<Max(S), h[S \ {Max(S)}]>>]
    OBVIOUS
  <2>1. Max(S) \in S
    BY ONLY Largest, k \in Nat, S \in SUBSET (1 .. k), S # {}
  <2>. QED BY <1>3, <1>8, <2>1
<1>11. PICK r : FoldRuns(k, A, n, step, h, r)
  <2>1. n \in A
    BY <1>1
  <2>. HIDE DEF F, s
  <2>. QED BY ONLY <2>1, <1>2, <1>9, <1>10, k \in Nat, FoldThrough
<1>12. Above(n, k) = r[k] /\ r \in [0 .. k -> A] /\ r[0] = n /\ \A i \in 1 .. k : r[i] = ParentOf(r[i - 1])
  <2>1. Above(n, k) = h[1 .. k]
    BY ONLY <1>1, <1>4, <1>6
  <2>2. \A i \in 1 .. k : r[i - 1] \in A
    <3>1. \A i \in 1 .. k : i - 1 \in 0 .. k
      OBVIOUS
    <3>. QED BY <1>11, <3>1 DEF FoldRuns
  <2>. QED BY <1>3, <1>11, <2>1, <2>2 DEF FoldRuns
<1>. HIDE DEF F, s
<1>. DEFINE T == {i \in Nat : i <= k => r[i] = 0 \/ r[i] <= n - i}
<1>13. 0 \in T
  BY <1>12
<1>14. ASSUME NEW i \in Nat, i \in T PROVE i + 1 \in T
  <2>. SUFFICES ASSUME i + 1 <= k PROVE r[i + 1] = 0 \/ r[i + 1] <= n - (i + 1)
    OBVIOUS
  <2>1. i + 1 \in 1 .. k /\ (i + 1) - 1 = i /\ i \in 0 .. k /\ i <= k
    OBVIOUS
  <2>2. PICK c \in 0 .. Len(nodes) : c = r[i]
    BY <1>12, <2>1 DEF A
  <2>3. r[i + 1] = ParentOf(c)
    BY <1>12, <2>1, <2>2
  <2>4. ParentOf(c) \in 0 .. Len(nodes) /\ IF c = 0 THEN ParentOf(c) = 0 ELSE ParentOf(c) < c
    BY ParentIs
  <2>5. c = 0 \/ c <= n - i
    BY <1>14, <2>1, <2>2
  <2>6. ParentOf(c) = 0 \/ ParentOf(c) <= n - (i + 1)
    BY <2>4, <2>5
  <2>. QED BY <2>3, <2>6
<1>15. k \in T
  <2>. HIDE DEF T
  <2>. QED BY <1>13, <1>14, Inductive
<1>16. k \in 0 .. k
  OBVIOUS
<1>. QED BY <1>12, <1>15, <1>16 DEF A

\* The way up to a top level file is a sequence of nodes.
LEMMA ChainWays ==
  ASSUME Tree(nodes), NEW n \in 0 .. Len(nodes)
  PROVE  \E d \in Nat : /\ Chain(n) = [k \in 1 .. d |-> Above(n, k)]
                        /\ \A k \in 1 .. d : Above(n, k) \in 0 .. Len(nodes)
<1>1. PICK l \in Nat : l = Len(nodes)
  BY DEF Tree
<1>2. Above(n, l) = 0
  <2>1. Above(n, l) \in 0 .. l /\ (Above(n, l) = 0 \/ Above(n, l) <= n - l)
    BY <1>1, AboveIs
  <2>. QED BY <1>1, <2>1
<1>3. ParentOf(Above(n, l)) = Root /\ l \in 0 .. Len(nodes)
  BY <1>1, <1>2 DEF ParentOf, Root
<1>4. PICK d : d = CHOOSE k \in 0 .. Len(nodes) : ParentOf(Above(n, k)) = Root
  OBVIOUS
<1>5. d \in 0 .. Len(nodes)
  BY <1>3, <1>4
<1>6. Chain(n) = [k \in 1 .. d |-> Above(n, k)] /\ d \in Nat
  BY <1>1, <1>4, <1>5 DEF Chain
<1>7. ASSUME NEW k \in 1 .. d PROVE Above(n, k) \in 0 .. Len(nodes)
  <2>1. k \in Nat
    BY <1>6
  <2>. QED BY <2>1, AboveIs
<1>. QED BY <1>6, <1>7

(***************************************************************************)
(* The list of messages.                                                   *)
(***************************************************************************)

\* The list d is c, perhaps with e behind it.
Longer(c, d, e) ==
  /\ Len(c) <= Len(d)
  /\ \A i \in 1 .. Len(c) : d[i] = c[i]
  /\ \A i \in 1 .. Len(d) : i \in 1 .. Len(c) \/ (i = Len(c) + 1 /\ d[i] = e)

\* close_error keeps the list, and the open message, unless a note, is in it then.
LEMMA ClosedIs ==
  ASSUME NEW n \in Nat, NEW l \in LogsAt(n), NEW c, c = Closed(l)
  PROVE  /\ c \in LogsAt(n) /\ c.open = NoEntry /\ c.stop = l.stop
         /\ Longer(l.list, c.list, l.open)
         /\ l.open # NoEntry /\ l.open.sev # "note" =>
              \/ l.open \in ToSet(l.list)
              \/ Len(c.list) = Len(l.list) + 1 /\ c.list[Len(l.list) + 1] = l.open
<1>1. PICK list \in Seq(MessagesAt(n)), open \in MessagesAt(n) \cup {NoEntry}, dropping \in BOOLEAN, stop \in Int :
        l = [list |-> list, open |-> open, dropping |-> dropping, stop |-> stop]
  BY DEF LogsAt
<1>2. PICK k \in Nat : k = Len(list)
  BY <1>1
<1>3. Longer(list, list, open)
  BY <1>2 DEF Longer
<1>4. CASE open = NoEntry
  <2>1. c = l
    BY <1>1, <1>4 DEF Closed
  <2>. QED BY <1>1, <1>3, <1>4, <2>1
<1>5. CASE open # NoEntry
  <2>1. PICK dup \in BOOLEAN : dup <=> (IF open.sev = "note" THEN dropping ELSE open \in ToSet(list))
    OBVIOUS
  <2>2. dup = (IF open.sev = "note" THEN dropping ELSE open \in ToSet(list))
    BY <1>1, <2>1
  <2>3. c = [l EXCEPT !.list = IF dup THEN @ ELSE Append(@, l.open), !.open = NoEntry, !.dropping = dup]
    BY <1>1, <1>5, <2>2 DEF Closed
  <2>4. PICK d : d = IF dup THEN list ELSE Append(list, open)
    OBVIOUS
  <2>5. c = [list |-> d, open |-> NoEntry, dropping |-> dup, stop |-> stop]
    BY ONLY <1>1, <2>3, <2>4
  <2>6. /\ Append(list, open) \in Seq(MessagesAt(n)) /\ Len(Append(list, open)) = k + 1
        /\ Append(list, open)[k + 1] = open
        /\ \A i \in 1 .. k : Append(list, open)[i] = list[i]
    BY <1>2, <1>5, AppendProperties
  <2>7. d \in Seq(MessagesAt(n))
    BY <2>4, <2>6
  <2>8. Longer(list, d, open)
    BY <1>2, <1>3, <2>4, <2>6 DEF Longer
  <2>9. c \in LogsAt(n)
    BY <2>1, <2>5, <2>7 DEF LogsAt
  <2>10. open.sev # "note" /\ open \notin ToSet(list) => Len(d) = Len(list) + 1 /\ d[Len(list) + 1] = open
    BY <1>2, <2>1, <2>4, <2>6
  <2>. QED BY <1>1, <2>5, <2>8, <2>9, <2>10
<1>. QED BY <1>4, <1>5

\* A message of which some are is in the list or open.
In(e, l) == (\E i \in 1 .. Len(l.list) : l.list[i] = e) \/ (l.open = e /\ e # NoEntry)

\* The elements of a list
LEMMA ToSetIs ==
  ASSUME NEW S, NEW s \in Seq(S), NEW e
  PROVE  e \in ToSet(s) <=> \E i \in 1 .. Len(s) : s[i] = e
BY DEF ToSet

\* What is not a note stays when a message is closed, and nothing comes.
LEMMA ClosedIn ==
  ASSUME NEW n \in Nat, NEW l \in LogsAt(n), NEW c, c = Closed(l), NEW e
  PROVE  /\ In(e, c) => In(e, l)
         /\ In(e, l) /\ e.sev # "note" => In(e, c)
         /\ In(e, c) <=> e \in ToSet(c.list)
<1>1. /\ c \in LogsAt(n) /\ c.open = NoEntry /\ c.stop = l.stop
      /\ Longer(l.list, c.list, l.open)
      /\ l.open # NoEntry /\ l.open.sev # "note" =>
           \/ l.open \in ToSet(l.list)
           \/ Len(c.list) = Len(l.list) + 1 /\ c.list[Len(l.list) + 1] = l.open
  BY ClosedIs
<1>2. PICK p \in Seq(MessagesAt(n)), q \in Seq(MessagesAt(n)) : p = l.list /\ q = c.list
  BY <1>1 DEF LogsAt
<1>3. PICK k \in Nat, m \in Nat : k = Len(p) /\ m = Len(q)
  BY <1>2
<1>4. k <= m /\ (\A i \in 1 .. k : q[i] = p[i]) /\ \A i \in 1 .. m : i \in 1 .. k \/ q[i] = l.open
  BY <1>1, <1>2, <1>3 DEF Longer
<1>5. NoEntry \notin MessagesAt(n)
  BY NoEntryIs
<1>6. In(e, c) <=> e \in ToSet(q)
  BY <1>1, <1>2, ToSetIs DEF In
<1>7. ASSUME In(e, c) PROVE In(e, l)
  <2>1. PICK i \in 1 .. m : q[i] = e
    BY <1>1, <1>2, <1>3, <1>7 DEF In
  <2>2. e \in MessagesAt(n)
    BY <1>2, <1>3, <2>1
  <2>. QED BY <1>2, <1>3, <1>4, <1>5, <2>1, <2>2 DEF In
<1>8. ASSUME In(e, l), e.sev # "note" PROVE In(e, c)
  <2>1. CASE \E i \in 1 .. k : p[i] = e
    <3>1. PICK i \in 1 .. k : p[i] = e
      BY <2>1
    <3>2. i \in 1 .. m /\ q[i] = e
      BY <1>4, <3>1
    <3>. QED BY <1>2, <1>3, <3>2 DEF In
  <2>2. CASE l.open = e /\ e # NoEntry
    <3>1. CASE l.open \in ToSet(l.list)
      <4>1. \E i \in 1 .. k : p[i] = e
        BY <1>2, <1>3, <2>2, <3>1, ToSetIs
      <4>. QED BY <2>1, <4>1
    <3>2. CASE m = k + 1 /\ q[k + 1] = l.open
      <4>1. k + 1 \in 1 .. m
        BY <3>2
      <4>. QED BY <1>2, <1>3, <2>2, <3>2, <4>1 DEF In
    <3>. QED BY <1>1, <1>2, <1>3, <1>8, <2>2, <3>1, <3>2
  <2>. QED BY <1>2, <1>3, <1>8, <2>1, <2>2 DEF In
<1>. QED BY <1>2, <1>6, <1>7, <1>8

\* error_serious sees the errors in the list and the one that is open.
LEMMA SeriousIs ==
  ASSUME NEW n \in Nat, NEW l \in LogsAt(n)
  PROVE  Serious(l) <=> \E e \in MessagesAt(n) : In(e, l) /\ e.sev \in Faulty
<1>1. PICK c : c = Closed(l)
  OBVIOUS
<1>2. c \in LogsAt(n)
  BY <1>1, ClosedIs
<1>3. \A e \in ToSet(c.list) : e \in MessagesAt(n)
  BY <1>2, ToSetIs DEF LogsAt
<1>4. \A e : e.sev \in Faulty => e.sev # "note"
  BY DEF Faulty
<1>5. Serious(l) <=> \E e \in ToSet(c.list) : e.sev \in Faulty
  BY <1>1 DEF Serious, Faulty
<1>6. \A e : e.sev \in Faulty => (In(e, l) <=> e \in ToSet(c.list))
  BY <1>1, <1>4, ClosedIn
<1>. QED BY <1>3, <1>5, <1>6

\* The interruption is where it ends the list, or is still open.
StopOK(l) ==
  IF l.stop = Unlimited THEN \A e : In(e, l) => ~IsEnd(e)
  ELSE \/ l.stop \in 1 .. Len(l.list) /\ IsEnd(l.list[l.stop])
       \/ l.stop = Len(l.list) + 1 /\ l.open # NoEntry /\ IsEnd(l.open) /\ l.open \notin ToSet(l.list)

\* Closing keeps it there.
LEMMA ClosedStop ==
  ASSUME NEW n \in Nat, NEW l \in LogsAt(n), StopOK(l), NEW c, c = Closed(l)
  PROVE  /\ StopOK(c) /\ c.stop = l.stop
         /\ c.stop # Unlimited => c.stop \in 1 .. Len(c.list) /\ IsEnd(c.list[c.stop])
<1>1. /\ c \in LogsAt(n) /\ c.open = NoEntry /\ c.stop = l.stop
      /\ Longer(l.list, c.list, l.open)
      /\ l.open # NoEntry /\ l.open.sev # "note" =>
           \/ l.open \in ToSet(l.list)
           \/ Len(c.list) = Len(l.list) + 1 /\ c.list[Len(l.list) + 1] = l.open
  BY ClosedIs
<1>2. CASE l.stop = Unlimited
  <2>1. \A e : In(e, c) => In(e, l)
    BY ClosedIn
  <2>. QED BY <1>1, <1>2, <2>1 DEF StopOK
<1>3. CASE l.stop # Unlimited
  <2>1. PICK k \in Nat, m \in Nat : k = Len(l.list) /\ m = Len(c.list)
    BY <1>1 DEF LogsAt
  <2>2. CASE l.stop \in 1 .. k /\ IsEnd(l.list[l.stop])
    BY <1>1, <1>3, <2>1, <2>2 DEF StopOK, Longer
  <2>3. CASE l.stop = k + 1 /\ l.open # NoEntry /\ IsEnd(l.open) /\ l.open \notin ToSet(l.list)
    <3>1. l.open.sev # "note"
      BY <2>3 DEF IsEnd
    <3>2. m = k + 1 /\ c.list[k + 1] = l.open
      BY <1>1, <2>1, <2>3, <3>1
    <3>3. k + 1 \in 1 .. m
      BY <3>2
    <3>. QED BY <1>1, <1>3, <2>1, <2>3, <3>2, <3>3 DEF StopOK
  <2>. QED BY <1>3, <2>1, <2>2, <2>3 DEF StopOK
<1>. QED BY <1>2, <1>3

\* The next message
LEMMA OpenedIs ==
  ASSUME NEW n \in Nat, NEW l \in LogsAt(n), NEW x \in MessagesAt(n), NEW o, o = Opened(l, x)
  PROVE  /\ o \in LogsAt(n) /\ o.stop = l.stop /\ o.open = x
         /\ \A e : e.sev # "note" => (In(e, o) <=> In(e, l) \/ e = x)
         /\ \A e : In(e, o) => In(e, l) \/ e = x
         /\ Serious(o) <=> Serious(l) \/ x.sev \in Faulty
         /\ StopOK(l) /\ (l.stop # Unlimited \/ ~IsEnd(x)) => StopOK(o)
<1>1. PICK c : c = Closed(l)
  OBVIOUS
<1>2. c \in LogsAt(n) /\ c.open = NoEntry /\ c.stop = l.stop
  BY <1>1, ClosedIs
<1>3. x # NoEntry
  BY NoEntryIs
<1>4. o = [c EXCEPT !.open = x]
  BY <1>1 DEF Opened
<1>5. o \in LogsAt(n) /\ o.stop = l.stop /\ o.open = x /\ o.list = c.list
  BY <1>2, <1>4 DEF LogsAt
<1>6. \A e : In(e, o) <=> In(e, c) \/ e = x
  BY <1>2, <1>3, <1>5 DEF In
<1>7. \A e : (In(e, c) => In(e, l)) /\ (In(e, l) /\ e.sev # "note" => In(e, c))
  BY <1>1, ClosedIn
<1>8. Serious(o) <=> Serious(l) \/ x.sev \in Faulty
  <2>1. Serious(o) <=> \E e \in MessagesAt(n) : In(e, o) /\ e.sev \in Faulty
    BY <1>5, SeriousIs
  <2>2. Serious(l) <=> \E e \in MessagesAt(n) : In(e, l) /\ e.sev \in Faulty
    BY SeriousIs
  <2>3. \A e : e.sev \in Faulty => e.sev # "note"
    BY DEF Faulty
  <2>. QED BY <1>6, <1>7, <2>1, <2>2, <2>3
<1>9. ASSUME StopOK(l), l.stop # Unlimited \/ ~IsEnd(x) PROVE StopOK(o)
  <2>1. StopOK(c) /\ (c.stop # Unlimited => c.stop \in 1 .. Len(c.list) /\ IsEnd(c.list[c.stop]))
    BY <1>1, <1>9, ClosedStop
  <2>2. CASE l.stop = Unlimited
    BY <1>2, <1>5, <1>6, <1>9, <2>1, <2>2 DEF StopOK
  <2>3. CASE l.stop # Unlimited
    BY <1>2, <1>5, <2>1, <2>3 DEF StopOK
  <2>. QED BY <2>2, <2>3
<1>. QED BY <1>5, <1>6, <1>7, <1>8, <1>9

\* The interruption itself, which comes once
LEMMA SignalledIs ==
  ASSUME NEW n \in Nat, NEW l \in LogsAt(n), StopOK(l), l.stop = Unlimited,
         NEW x \in MessagesAt(n), IsEnd(x), NEW o, o = Signalled(l, x)
  PROVE  /\ o \in LogsAt(n) /\ StopOK(o) /\ o.stop # Unlimited /\ Serious(o)
         /\ o.stop = Len(Closed(l).list) + 1 /\ Closed(o).list = Append(Closed(l).list, x)
<1>1. PICK w : w = Opened(l, x)
  OBVIOUS
<1>2. w \in LogsAt(n) /\ w.stop = l.stop /\ w.open = x /\ w.list = Closed(l).list
  <2>1. w = [Closed(l) EXCEPT !.open = x]
    BY <1>1 DEF Opened
  <2>2. Closed(l) \in LogsAt(n)
    BY ClosedIs
  <2>3. w.list = Closed(l).list
    BY <2>1, <2>2 DEF LogsAt
  <2>. QED BY <1>1, <2>3, OpenedIs
<1>3. PICK k \in Nat : k = Len(w.list)
  BY <1>2 DEF LogsAt
<1>4. o = [w EXCEPT !.stop = k + 1]
  BY <1>1, <1>3 DEF Signalled
<1>5. o \in LogsAt(n) /\ o.stop = k + 1 /\ o.open = x /\ o.list = w.list
  BY <1>2, <1>4 DEF LogsAt
<1>6. x # NoEntry /\ k + 1 # Unlimited
  BY NoEntryIs DEF Unlimited
<1>7. x \notin ToSet(w.list)
  <2>1. In(x, Closed(l)) => In(x, l)
    BY ClosedIn
  <2>2. x \in ToSet(w.list) <=> In(x, Closed(l))
    BY <1>2, ClosedIn
  <2>. QED BY <2>1, <2>2 DEF StopOK
<1>8. StopOK(o)
  BY <1>3, <1>5, <1>6, <1>7 DEF StopOK
<1>9. In(x, o) /\ x.sev \in Faulty
  BY <1>5, <1>6 DEF In, IsEnd, Faulty
<1>10. Serious(o)
  BY <1>5, <1>9, SeriousIs
<1>11. Closed(o).list = Append(w.list, x)
  <2>1. PICK list, dropping, stop : o = [list |-> list, open |-> x, dropping |-> dropping, stop |-> stop] /\ list = w.list
    BY <1>5 DEF LogsAt
  <2>2. o.open.sev # "note" /\ o.open # NoEntry /\ o.open \notin ToSet(o.list)
    BY <1>6, <1>7, <2>1 DEF IsEnd
  <2>3. PICK dup : dup = IF o.open.sev = "note" THEN o.dropping ELSE o.open \in ToSet(o.list)
    OBVIOUS
  <2>4. ~dup
    BY ONLY <2>2, <2>3
  <2>5. Closed(o) = [o EXCEPT !.list = IF dup THEN @ ELSE Append(@, o.open), !.open = NoEntry, !.dropping = dup]
    BY ONLY <2>2, <2>3 DEF Closed
  <2>. QED BY ONLY <2>1, <2>4, <2>5
<1>. QED BY <1>2, <1>3, <1>5, <1>6, <1>8, <1>10, <1>11

\* An interruption in the list is an error.
LEMMA StopSerious ==
  ASSUME NEW n \in Nat, NEW l \in LogsAt(n), StopOK(l), l.stop # Unlimited
  PROVE  Serious(l)
<1>1. CASE l.stop \in 1 .. Len(l.list) /\ IsEnd(l.list[l.stop])
  <2>1. l.list[l.stop] \in MessagesAt(n)
    BY <1>1 DEF LogsAt
  <2>2. In(l.list[l.stop], l) /\ l.list[l.stop].sev \in Faulty
    BY <1>1 DEF In, IsEnd, Faulty
  <2>. QED BY <2>1, <2>2, SeriousIs
<1>2. CASE l.open # NoEntry /\ IsEnd(l.open)
  <2>1. l.open \in MessagesAt(n)
    BY <1>2 DEF LogsAt
  <2>2. In(l.open, l) /\ l.open.sev \in Faulty
    BY <1>2 DEF In, IsEnd, Faulty
  <2>. QED BY <2>1, <2>2, SeriousIs
<1>. QED BY <1>1, <1>2 DEF StopOK

(***************************************************************************)
(* Reports.                                                                *)
(***************************************************************************)

\* What a report says: a message, and notes
Spoken(n, s, sev) ==
  /\ s \in Seq(MessagesAt(n)) /\ Len(s) >= 1 /\ s[1].sev = sev
  /\ \A i \in 2 .. Len(s) : s[i] \in NotesAt(n)
SevOf(r) ==
  IF r.kind = "diagnosed" THEN "warning" ELSE IF r.kind = "none" THEN "none error" ELSE "error"

\* One message alone
LEMMA SpokenOne ==
  ASSUME NEW n \in Nat, NEW x \in MessagesAt(n)
  PROVE  Spoken(n, <<x>>, x.sev)
BY DEF Spoken

\* More notes
LEMMA SpokenMore ==
  ASSUME NEW n \in Nat, NEW s, NEW sev, Spoken(n, s, sev), NEW p \in Seq(NotesAt(n))
  PROVE  Spoken(n, s \o p, sev)
<1>1. s \in Seq(MessagesAt(n)) /\ p \in Seq(MessagesAt(n))
  BY DEF Spoken, NotesAt
<1>2. PICK k \in Nat, m \in Nat : k = Len(s) /\ m = Len(p)
  BY <1>1
<1>3. PICK t : t = s \o p
  OBVIOUS
<1>4. /\ t \in Seq(MessagesAt(n)) /\ Len(t) = k + m
      /\ \A i \in 1 .. k + m : t[i] = IF i <= k THEN s[i] ELSE p[i - k]
  BY ONLY <1>1, <1>2, <1>3, ConcatProperties
<1>5. k >= 1 /\ s[1].sev = sev /\ \A i \in 2 .. k : s[i] \in NotesAt(n)
  BY <1>2 DEF Spoken
<1>6. k + m >= 1 /\ 1 \in 1 .. k + m /\ t[1] = s[1]
  BY <1>4, <1>5
<1>7. ASSUME NEW i \in 2 .. k + m PROVE t[i] \in NotesAt(n)
  <2>1. CASE i <= k
    BY <1>4, <1>5, <2>1
  <2>2. CASE ~(i <= k)
    <3>1. i - k \in 1 .. m /\ i \in 1 .. k + m
      BY <2>2
    <3>2. t[i] = p[i - k]
      BY <1>4, <2>2, <3>1
    <3>. QED BY <1>2, <3>1, <3>2
  <2>. QED BY <2>1, <2>2
<1>. QED BY <1>3, <1>4, <1>5, <1>6, <1>7 DEF Spoken

\* Messages at a line, or at the call
LEMMA EntryIs ==
  ASSUME Tree(nodes), here \in 1 .. Len(nodes), NEW r \in Reports, NEW sev \in Severities, NEW text \in Texts
  PROVE  /\ At(sev, r, text) \in MessagesAt(Len(nodes)) /\ At(sev, r, text).sev = sev
         /\ At(sev, r, text).text = text
         /\ Entry(sev, here, r.at, LineOf(r), text) \in MessagesAt(Len(nodes))
         /\ Entry(sev, here, r.at, LineOf(r), text).sev = sev
<1>1. nodes \in Seq(TreeNode) /\ Len(nodes) \in Nat /\ nodes[here] \in TreeNode
  BY DEF Tree
<1>2. r.at \in Ats /\ LineOf(r) \in LineTexts /\ "" \in LineTexts /\ nodes[here].at \in Ats
  BY <1>1 DEF Ats, LineOf, LineTexts, TreeNode
<1>3. here \in 0 .. Len(nodes)
  BY <1>1
<1>4. ParentOf(here) \in 0 .. Len(nodes)
  BY <1>3, ParentIs
<1>5. \A node \in 0 .. Len(nodes), at \in Ats, line \in LineTexts :
        /\ Entry(sev, node, at, line, text) \in MessagesAt(Len(nodes))
        /\ Entry(sev, node, at, line, text).sev = sev
        /\ Entry(sev, node, at, line, text).text = text
  BY DEF Entry, MessagesAt
<1>. QED BY <1>2, <1>3, <1>4, <1>5 DEF At

\* What the notes of a report say
LEMMA NotesAre ==
  ASSUME Tree(nodes), Len(nodes) >= 2, here \in 1 .. Len(nodes), NEW r \in Reports, NEW text \in Texts
  PROVE  /\ Expanded(r, text) \in Seq(NotesAt(Len(nodes)))
         /\ Original(r) \in Seq(NotesAt(Len(nodes)))
         /\ <<Entry("note", here, r.at, "", r.about)>> \in Seq(NotesAt(Len(nodes)))
<1>1. Len(nodes) \in Nat /\ "note" \in Severities /\ r.about \in Texts
  <2>1. nodes \in Seq(TreeNode)
    BY DEF Tree
  <2>2. Len(nodes) \in Nat
    BY <2>1
  <2>3. "note" \in Severities
    BY DEF Severities
  <2>4. r.about \in Texts
    BY DEF Texts
  <2>. QED BY <2>2, <2>3, <2>4
<1>2. Entry("note", here, r.at, LineOf(r), text) \in NotesAt(Len(nodes))
  BY <1>1, EntryIs DEF NotesAt
<1>3. Entry("note", MainNode, r.note, "", r.about) \in NotesAt(Len(nodes))
  <2>1. r.note \in Ats /\ "" \in LineTexts /\ MainNode \in 0 .. Len(nodes)
    BY <1>1 DEF Ats, LineTexts, MainNode
  <2>. QED BY <1>1, <2>1 DEF Entry, NotesAt, MessagesAt
<1>4. Entry("note", here, r.at, "", r.about) \in NotesAt(Len(nodes))
  <2>1. r.at \in Ats /\ "" \in LineTexts /\ here \in 0 .. Len(nodes)
    BY <1>1 DEF Ats, LineTexts
  <2>. QED BY <1>1, <2>1 DEF Entry, NotesAt, MessagesAt
<1>5. \A e \in NotesAt(Len(nodes)) : <<e>> \in Seq(NotesAt(Len(nodes)))
  OBVIOUS
<1>6. <<>> \in Seq(NotesAt(Len(nodes)))
  OBVIOUS
<1>7. Expanded(r, text) \in Seq(NotesAt(Len(nodes)))
  BY <1>2, <1>5, <1>6 DEF Expanded
<1>8. Original(r) \in Seq(NotesAt(Len(nodes)))
  BY <1>3, <1>5, <1>6 DEF Original
<1>. QED BY <1>4, <1>5, <1>7, <1>8

\* Each kind of report is a message of its severity, with notes.
LEMMA ProducedIs ==
  ASSUME Tree(nodes), Len(nodes) >= 2, here \in 1 .. Len(nodes), NEW r \in Reports
  PROVE  Spoken(Len(nodes), Produced(r), SevOf(r))
<1>1. PICK n \in Nat : n = Len(nodes)
  BY DEF Tree
<1>2. r.text \in Texts /\ "" \in Texts
  BY DEF Texts
<1>3. \A sev \in Severities, text \in Texts : Spoken(n, <<At(sev, r, text)>>, sev)
  BY <1>1, EntryIs, SpokenOne
<1>4. /\ \A text \in Texts : Expanded(r, text) \in Seq(NotesAt(n))
      /\ Original(r) \in Seq(NotesAt(n)) /\ <<>> \in Seq(NotesAt(n))
      /\ <<Entry("note", here, r.at, "", r.about)>> \in Seq(NotesAt(n))
  <2>1. \A text \in Texts : Expanded(r, text) \in Seq(NotesAt(n))
    BY <1>1, NotesAre
  <2>2. Original(r) \in Seq(NotesAt(n)) /\ <<Entry("note", here, r.at, "", r.about)>> \in Seq(NotesAt(n))
    BY <1>1, <1>2, NotesAre
  <2>3. <<>> \in Seq(NotesAt(n))
    OBVIOUS
  <2>. QED BY <2>1, <2>2, <2>3
<1>5. \A s, sev : Spoken(n, s, sev) => \A p \in Seq(NotesAt(n)) : Spoken(n, s \o p, sev)
  BY SpokenMore
<1>6. Spoken(n, OfStatement(r), "error") /\ Spoken(n, OfName(r), "error")
  <2>1. Spoken(n, <<At("error", r, r.text)>>, "error")
    BY <1>2, <1>3 DEF Severities
  <2>. QED BY <1>2, <1>4, <1>5, <2>1 DEF OfStatement, OfName
<1>7. Spoken(n, OfDiagnostics(r), "warning")
  <2>1. Spoken(n, <<At("warning", r, "")>>, "warning") /\ Spoken(n, <<At("warning", r, r.text)>>, "warning")
    BY <1>2, <1>3 DEF Severities
  <2>. QED BY <1>2, <1>4, <1>5, <2>1 DEF OfDiagnostics
<1>8. Spoken(n, OfUnknown(r), "none error")
  BY <1>2, <1>3 DEF Severities, OfUnknown
<1>9. Spoken(n, WithAdvice(r), "error")
  <2>1. Spoken(n, <<At("error", r, r.text)>>, "error")
    BY <1>2, <1>3 DEF Severities
  <2>2. Spoken(n, <<At("error", r, r.text)>> \o Expanded(r, ""), "error")
    BY <1>2, <1>4, <1>5, <2>1
  <2>3. PICK p \in Seq(NotesAt(n)) :
          p = IF once = pass THEN <<>> ELSE <<Entry("note", here, r.at, "", r.about)>>
    BY <1>4
  <2>. QED BY <1>5, <2>2, <2>3 DEF WithAdvice
<1>10. r.kind \in {"error", "diagnosed", "undefined", "none", "once"}
  BY MessagesAssumption
<1>. QED BY <1>1, <1>6, <1>7, <1>8, <1>9, <1>10 DEF Produced, SevOf

\* The list d is c, and the first i of some messages behind it.
Extended(c, es, i, d) ==
  /\ Len(d) = Len(c) + i
  /\ \A p \in 1 .. Len(c) : d[p] = c[p]
  /\ \A k \in 1 .. i : d[Len(c) + k] = es[k]

\* What is closed is behind the list, unless it is dropped.
Drops(c, x) == IF x.sev = "note" THEN c.dropping ELSE x \in ToSet(c.list)
OpensTo(c, x, o) ==
  IF Drops(c, x) THEN o.list = c.list /\ o.dropping ELSE o.list = Append(c.list, x) /\ ~o.dropping
LEMMA OpenedList ==
  ASSUME NEW n \in Nat, NEW l \in LogsAt(n), NEW x \in MessagesAt(n), NEW c, c = Closed(l),
         NEW o, o = Closed(Opened(l, x))
  PROVE  OpensTo(c, x, o)
<1>1. c \in LogsAt(n) /\ c.open = NoEntry
  BY ClosedIs
<1>2. PICK list \in Seq(MessagesAt(n)), dropping \in BOOLEAN, stop \in Int :
        c = [list |-> list, open |-> NoEntry, dropping |-> dropping, stop |-> stop]
  BY <1>1 DEF LogsAt
<1>3. PICK w : w = Opened(l, x)
  OBVIOUS
<1>4. w = [list |-> list, open |-> x, dropping |-> dropping, stop |-> stop]
  <2>1. w = [c EXCEPT !.open = x]
    BY <1>3 DEF Opened
  <2>. QED BY ONLY <1>2, <2>1
<1>5. x # NoEntry
  BY NoEntryIs
<1>6. PICK dup : dup = IF w.open.sev = "note" THEN w.dropping ELSE w.open \in ToSet(w.list)
  OBVIOUS
<1>7. dup \in BOOLEAN /\ dup = IF x.sev = "note" THEN c.dropping ELSE x \in ToSet(c.list)
  <2>1. dup = IF x.sev = "note" THEN dropping ELSE x \in ToSet(list)
    BY ONLY <1>4, <1>6
  <2>2. c.dropping = dropping /\ c.list = list
    BY ONLY <1>2
  <2>3. dup \in BOOLEAN
    <3>1. CASE x.sev = "note"
      BY ONLY <2>1, <3>1, dropping \in BOOLEAN
    <3>2. CASE x.sev # "note"
      <4>1. dup = (x \in ToSet(list))
        BY ONLY <2>1, <3>2
      <4>. QED BY ONLY <4>1
    <3>. QED BY <3>1, <3>2
  <2>4. dup = IF x.sev = "note" THEN c.dropping ELSE x \in ToSet(c.list)
    BY ONLY <2>1, <2>2
  <2>. QED BY <2>3, <2>4
<1>8. o = [w EXCEPT !.list = IF dup THEN @ ELSE Append(@, w.open), !.open = NoEntry, !.dropping = dup]
  <2>1. w.open # NoEntry
    BY ONLY <1>4, <1>5
  <2>. QED BY ONLY <1>3, <1>6, <2>1, o = Closed(Opened(l, x)) DEF Closed
<1>9. o.list = (IF dup THEN list ELSE Append(list, x)) /\ o.dropping = dup
  BY ONLY <1>4, <1>8
<1>10. c.list = list
  BY ONLY <1>2
<1>11. o.list = IF dup THEN c.list ELSE Append(c.list, x)
  BY ONLY <1>9, <1>10
<1>12. Drops(c, x) <=> dup
  <2>1. CASE x.sev = "note"
    BY ONLY <1>7, <2>1 DEF Drops
  <2>2. CASE x.sev # "note"
    BY ONLY <1>7, <2>2 DEF Drops
  <2>. QED BY <2>1, <2>2
<1>13. o.dropping <=> dup
  BY ONLY <1>9
<1>. QED BY ONLY <1>11, <1>12, <1>13 DEF OpensTo

\* A message that is in the list is dropped with its notes; one that is not is put behind it.
Grown(l, es, i, o) ==
  /\ Closed(o).dropping <=> es[1] \in ToSet(Closed(l).list)
  /\ IF es[1] \in ToSet(Closed(l).list) THEN Closed(o).list = Closed(l).list
     ELSE Extended(Closed(l).list, es, i, Closed(o).list)

\* One more message
LEMMA GrownNext ==
  ASSUME NEW n \in Nat, NEW l \in LogsAt(n), NEW es \in Seq(MessagesAt(n)), NEW i \in Nat, i + 1 <= Len(es),
         es[1].sev # "note", \A k \in 2 .. Len(es) : es[k].sev = "note",
         NEW w \in LogsAt(n), IF i = 0 THEN w = l ELSE Grown(l, es, i, w), NEW o, o = Opened(w, es[i + 1])
  PROVE  Grown(l, es, i + 1, o)
<1>1. PICK x \in MessagesAt(n) : x = es[i + 1]
  OBVIOUS
<1>2. PICK c, d, e : c = Closed(l) /\ d = Closed(w) /\ e = Closed(o)
  OBVIOUS
<1>3. OpensTo(d, x, e)
  <2>1. e = Closed(Opened(w, x))
    BY ONLY <1>1, <1>2, o = Opened(w, es[i + 1])
  <2>. QED BY ONLY <1>2, <2>1, n \in Nat, w \in LogsAt(n), x \in MessagesAt(n), OpenedList
<1>4. PICK C \in Seq(MessagesAt(n)), D \in Seq(MessagesAt(n)) : C = c.list /\ D = d.list
  <2>1. c \in LogsAt(n) /\ d \in LogsAt(n)
    BY <1>2, ClosedIs
  <2>. QED BY <2>1 DEF LogsAt
<1>5. PICK m \in Nat, a \in Nat : m = Len(C) /\ a = Len(D)
  BY <1>4
<1>6. Drops(d, x) <=> es[1] \in ToSet(C)
  <2>1. CASE i = 0
    <3>1. x = es[1] /\ D = C /\ x.sev # "note"
      BY <1>1, <1>2, <1>4, <2>1
    <3>. QED BY ONLY <1>4, <3>1 DEF Drops
  <2>2. CASE i # 0
    <3>1. i + 1 \in 2 .. Len(es)
      BY <2>2
    <3>2. x.sev = "note" /\ (d.dropping <=> es[1] \in ToSet(C))
      BY <1>1, <1>2, <1>4, <2>2, <3>1 DEF Grown
    <3>. QED BY ONLY <3>2 DEF Drops
  <2>. QED BY <2>1, <2>2
<1>7. CASE es[1] \in ToSet(C)
  <2>1. D = C
    BY <1>2, <1>4, <1>7 DEF Grown
  <2>2. Drops(d, x)
    BY ONLY <1>6, <1>7
  <2>3. e.list = C /\ e.dropping
    BY ONLY <1>3, <1>4, <2>1, <2>2 DEF OpensTo
  <2>. QED BY ONLY <1>2, <1>4, <1>7, <2>3 DEF Grown
<1>8. CASE es[1] \notin ToSet(C)
  <2>1. Extended(C, es, i, D)
    <3>1. CASE i = 0
      BY <1>2, <1>4, <1>5, <3>1 DEF Extended
    <3>2. CASE i # 0
      BY <1>2, <1>4, <1>8, <3>2 DEF Grown
    <3>. QED BY <3>1, <3>2
  <2>2. a = m + i /\ (\A p \in 1 .. m : D[p] = C[p]) /\ \A k \in 1 .. i : D[m + k] = es[k]
    BY <1>5, <2>1 DEF Extended
  <2>3. PICK E : E = Append(D, x)
    OBVIOUS
  <2>4. e.list = E /\ ~e.dropping
    <3>1. ~Drops(d, x)
      BY ONLY <1>6, <1>8
    <3>. QED BY ONLY <1>3, <1>4, <2>3, <3>1 DEF OpensTo
  <2>5. Len(E) = a + 1 /\ E[a + 1] = x /\ \A p \in 1 .. a : E[p] = D[p]
    BY <1>5, <2>3, AppendProperties
  <2>6. \A p \in 1 .. m : E[p] = C[p]
    <3>1. \A p \in 1 .. m : p \in 1 .. a
      BY <2>2
    <3>. QED BY <2>2, <2>5, <3>1
  <2>7. ASSUME NEW k \in 1 .. i + 1 PROVE E[m + k] = es[k]
    <3>1. CASE k = i + 1
      <4>1. m + k = a + 1
        BY <2>2, <3>1
      <4>. QED BY <1>1, <2>5, <3>1, <4>1
    <3>2. CASE k # i + 1
      <4>1. k \in 1 .. i /\ m + k \in 1 .. a
        BY <2>2, <3>2
      <4>. QED BY <2>2, <2>5, <4>1
    <3>. QED BY <3>1, <3>2
  <2>8. Extended(C, es, i + 1, E)
    <3>1. Len(E) = Len(C) + (i + 1)
      BY <1>5, <2>2, <2>5
    <3>. QED BY <1>5, <2>6, <2>7, <3>1 DEF Extended
  <2>. QED BY <1>2, <1>4, <1>8, <2>4, <2>8 DEF Grown
<1>. QED BY <1>7, <1>8

\* The list when the first i of some messages were reported
LoggedUpTo(n, l, es, i, o) ==
  /\ o \in LogsAt(n) /\ o.stop = l.stop /\ StopOK(o)
  /\ Serious(o) <=> Serious(l) \/ \E k \in 1 .. i : es[k].sev \in Faulty
  /\ IF i = 0 THEN o = l ELSE Grown(l, es, i, o)

\* A message and its notes come one after another.
LEMMA LoggedIs ==
  ASSUME NEW n \in Nat, NEW l \in LogsAt(n), StopOK(l), NEW es \in Seq(MessagesAt(n)),
         \A k \in 1 .. Len(es) : ~IsEnd(es[k]),
         es[1].sev # "note", \A k \in 2 .. Len(es) : es[k].sev = "note"
  PROVE  LoggedUpTo(n, l, es, Len(es), Logged(l, es))
<1>. DEFINE m == Len(es)
            Acc == LogsAt(n)
            step == [x \in (1 .. m) \X Acc |-> Opened(x[2], es[x[1]])]
            F(h) == h = [S \in SUBSET (DOMAIN es) |->
                           IF S = {} THEN l ELSE Opened(h[S \ {Max(S)}], es[Max(S)])]
<1>1. m \in Nat /\ DOMAIN es = 1 .. m
  OBVIOUS
<1>2. step \in [(1 .. m) \X Acc -> Acc]
  <2>1. \A x \in (1 .. m) \X Acc : Opened(x[2], es[x[1]]) \in Acc
    <3>. SUFFICES ASSUME NEW i \in 1 .. m, NEW c \in Acc PROVE Opened(c, es[i]) \in Acc
      OBVIOUS
    <3>1. es[i] \in MessagesAt(n)
      OBVIOUS
    <3>. QED BY <3>1, OpenedIs
  <2>. QED BY <2>1
<1>3. \A i \in 1 .. m : \A c \in Acc : step[<<i, c>>] = Opened(c, es[i])
  OBVIOUS
<1>4. Logged(l, es) = (CHOOSE h : F(h))[DOMAIN es]
  BY DEF Logged, FoldLeft, MapThenFoldSet
<1>. HIDE DEF step, Acc
<1>5. l \in Acc
  BY DEF Acc
<1>6. \E h : F(h)
  <2>1. PICK h : FoldedBy(m, Acc, l, step, h)
    <3>1. m \in Nat
      BY <1>1
    <3>. HIDE DEF F, m
    <3>. QED BY ONLY <3>1, <1>2, <1>5, FoldedValues
  <2>2. \A S \in SUBSET (1 .. m) : h[S] = IF S = {} THEN l ELSE Opened(h[S \ {Max(S)}], es[Max(S)])
    BY <1>3, <2>1 DEF FoldedBy
  <2>3. h = [S \in SUBSET (1 .. m) |-> h[S]]
    BY <2>1 DEF FoldedBy
  <2>4. h = [S \in SUBSET (DOMAIN es) |-> IF S = {} THEN l ELSE Opened(h[S \ {Max(S)}], es[Max(S)])]
    BY ONLY <1>1, <2>2, <2>3
  <2>. QED BY <2>4
<1>7. PICK h : h = CHOOSE f : F(f)
  OBVIOUS
<1>8. F(h)
  <2>. HIDE DEF F
  <2>. QED BY <1>6, <1>7
<1>9. \A S \in SUBSET (1 .. m) : h[S] = IF S = {} THEN l ELSE Opened(h[S \ {Max(S)}], es[Max(S)])
  <2>. SUFFICES ASSUME NEW S \in SUBSET (1 .. m)
                PROVE  h[S] = IF S = {} THEN l ELSE Opened(h[S \ {Max(S)}], es[Max(S)])
    OBVIOUS
  <2>. QED BY <1>1, <1>8
<1>10. Logged(l, es) = h[1 .. m]
  BY ONLY <1>1, <1>4, <1>7
<1>. HIDE DEF F
<1>11. h[{}] = l
  <2>1. {} \in SUBSET (1 .. m)
    OBVIOUS
  <2>. QED BY <1>9, <2>1
<1>12. \A S \in SUBSET (1 .. m) :
         S # {} /\ h[S \ {Max(S)}] \in Acc => h[S] = step[<<Max(S), h[S \ {Max(S)}]>>]
  <2>. SUFFICES ASSUME NEW S \in SUBSET (1 .. m), S # {}, h[S \ {Max(S)}] \in Acc
                PROVE  h[S] = step[<<Max(S), h[S \ {Max(S)}]>>]
    OBVIOUS
  <2>1. Max(S) \in S
    BY ONLY Largest, <1>1, S \in SUBSET (1 .. m), S # {}
  <2>. QED BY <1>3, <1>9, <2>1
<1>13. PICK r : FoldRuns(m, Acc, l, step, h, r)
  <2>1. m \in Nat
    BY <1>1
  <2>. HIDE DEF m
  <2>. QED BY ONLY <2>1, <1>2, <1>5, <1>11, <1>12, FoldThrough
<1>. DEFINE T == {i \in Nat : i <= m => LoggedUpTo(n, l, es, i, r[i])}
<1>14. 0 \in T
  BY <1>5, <1>13 DEF FoldRuns, LoggedUpTo, Acc
<1>15. ASSUME NEW i \in Nat, i \in T PROVE i + 1 \in T
  <2>. SUFFICES ASSUME i + 1 <= m PROVE LoggedUpTo(n, l, es, i + 1, r[i + 1])
    OBVIOUS
  <2>1. i + 1 \in 1 .. m /\ (i + 1) - 1 = i /\ i <= m
    BY <1>1
  <2>2. PICK c : c = r[i]
    OBVIOUS
  <2>3. LoggedUpTo(n, l, es, i, c)
    BY <1>15, <2>1, <2>2
  <2>4. c \in LogsAt(n) /\ c.stop = l.stop /\ StopOK(c)
    BY <2>3 DEF LoggedUpTo
  <2>5. PICK x \in MessagesAt(n) : x = es[i + 1] /\ ~IsEnd(x)
    BY <2>1
  <2>6. PICK o : o = Opened(c, x)
    OBVIOUS
  <2>7. r[i + 1] = o
    <3>1. r[i + 1] = step[<<i + 1, c>>]
      BY <1>13, <2>1, <2>2 DEF FoldRuns
    <3>. QED BY <1>3, <2>1, <2>4, <2>5, <2>6, <3>1 DEF Acc
  <2>8. o \in LogsAt(n) /\ o.stop = c.stop /\ StopOK(o) /\ (Serious(o) <=> Serious(c) \/ x.sev \in Faulty)
    <3>1. c \in LogsAt(n) /\ StopOK(c) /\ x \in MessagesAt(n) /\ ~IsEnd(x)
      BY <2>4, <2>5
    <3>. QED BY ONLY <3>1, <2>6, n \in Nat, OpenedIs
  <2>9. (\E k \in 1 .. i + 1 : es[k].sev \in Faulty) <=> (\E k \in 1 .. i : es[k].sev \in Faulty) \/ x.sev \in Faulty
    <3>1. \A k : k \in 1 .. i + 1 <=> k \in 1 .. i \/ k = i + 1
      OBVIOUS
    <3>. QED BY <2>5, <3>1
  <2>10. Grown(l, es, i + 1, o)
    <3>1. IF i = 0 THEN c = l ELSE Grown(l, es, i, c)
      BY <2>3 DEF LoggedUpTo
    <3>2. i + 1 <= Len(es) /\ o = Opened(c, es[i + 1])
      BY <2>1, <2>5, <2>6
    <3>. QED BY ONLY <2>4, <3>1, <3>2, n \in Nat, l \in LogsAt(n), es \in Seq(MessagesAt(n)), i \in Nat,
                es[1].sev # "note", \A k \in 2 .. Len(es) : es[k].sev = "note", GrownNext
  <2>11. i + 1 # 0
    BY <2>1
  <2>. QED BY <2>3, <2>4, <2>7, <2>8, <2>9, <2>10, <2>11 DEF LoggedUpTo
<1>16. \A i \in Nat : i \in T
  <2>. HIDE DEF T
  <2>. QED BY <1>14, <1>15, Inductive
<1>17. LoggedUpTo(n, l, es, m, r[m])
  BY <1>1, <1>16
<1>. QED BY <1>10, <1>13, <1>17 DEF FoldRuns

\* A report makes the list serious, unless it is a warning.
LEMMA ReportLogs ==
  ASSUME Tree(nodes), Len(nodes) >= 2, here \in 1 .. Len(nodes), NEW r \in Reports,
         NEW l \in LogsAt(Len(nodes)), StopOK(l), NEW o, o = Logged(l, Produced(r))
  PROVE  /\ o \in LogsAt(Len(nodes)) /\ StopOK(o) /\ o.stop = l.stop
         /\ Serious(o) <=> Serious(l) \/ SevOf(r) \in Faulty
         /\ Grown(l, Produced(r), Len(Produced(r)), o)
<1>1. PICK n \in Nat : n = Len(nodes)
  BY DEF Tree
<1>2. PICK es : es = Produced(r)
  OBVIOUS
<1>3. Spoken(n, es, SevOf(r))
  BY <1>1, <1>2, ProducedIs
<1>4. es \in Seq(MessagesAt(n)) /\ Len(es) \in Nat /\ Len(es) >= 1 /\ es[1].sev = SevOf(r)
      /\ \A i \in 2 .. Len(es) : es[i].sev = "note"
  BY <1>3 DEF Spoken, NotesAt
<1>5. \A k \in 1 .. Len(es) : k = 1 \/ k \in 2 .. Len(es)
  BY <1>4
<1>6. \A k \in 1 .. Len(es) : ~IsEnd(es[k])
  <2>1. SevOf(r) # "fatal"
    BY DEF SevOf
  <2>. QED BY <1>4, <1>5, <2>1 DEF IsEnd
<1>9. es[1].sev # "note"
  BY <1>4 DEF SevOf
<1>7. LoggedUpTo(n, l, es, Len(es), o)
  BY <1>1, <1>2, <1>4, <1>6, <1>9, LoggedIs
<1>8. (\E k \in 1 .. Len(es) : es[k].sev \in Faulty) <=> SevOf(r) \in Faulty
  <2>1. 1 \in 1 .. Len(es)
    BY <1>4
  <2>2. "note" \notin Faulty
    BY DEF Faulty
  <2>. QED BY <1>4, <1>5, <2>1, <2>2
<1>. QED BY <1>1, <1>2, <1>4, <1>7, <1>8 DEF LoggedUpTo

(***************************************************************************)
(* The invariant of the messages, and the steps of a pass.                 *)
(***************************************************************************)
MsgTyped ==
  /\ limit \in Limits /\ pass \in Nat /\ max_pass \in Nat
  /\ Tree(nodes) /\ Len(nodes) >= 2 /\ here \in 0 .. Len(nodes)
  /\ log \in LogsAt(Len(nodes)) /\ StopOK(log)
  /\ claims \in Seq(ClaimsAt(Len(nodes)))
  /\ constcreated \in BOOLEAN /\ fixeddig \in BOOLEAN /\ signal \in BOOLEAN

\* An error was reported, and was not said because there is a pass to come.
Claimed == \E c \in ToSet(claims) : c.message.sev \in Faulty
Pending == stage = "pass" /\ pass < max_pass /\ (constcreated \/ ~fixeddig)
DuringPasses ==
  /\ stage = "listing" => pass > max_pass
  /\ Claimed => Serious(log) \/ Pending
  /\ \A k \in notdefines : k[2] \in Nat /\ k[2] <= pass /\ (k[2] = pass => Serious(log))

AddedTo(s, x, t) == \A e : e \in ToSet(t) <=> e \in ToSet(s) \/ e = x

\* One more in a sequence
LEMMA OneMore ==
  ASSUME NEW S, NEW s \in Seq(S), NEW x \in S, NEW t, t = Append(s, x)
  PROVE  t \in Seq(S) /\ AddedTo(s, x, t)
<1>1. PICK n \in Nat : n = Len(s)
  OBVIOUS
<1>2. t \in Seq(S) /\ Len(t) = n + 1 /\ t[n + 1] = x /\ \A i \in 1 .. n : t[i] = s[i]
  BY <1>1, AppendProperties
<1>3. \A i : i \in 1 .. n + 1 <=> i \in 1 .. n \/ i = n + 1
  OBVIOUS
<1>4. \A e : e \in ToSet(s) <=> \E i \in 1 .. n : s[i] = e
  BY <1>1, ToSetIs
<1>5. \A e : e \in ToSet(t) <=> \E i \in 1 .. n + 1 : t[i] = e
  <2>1. t \in Seq(S)
    BY <1>2
  <2>2. \A e : e \in ToSet(t) <=> \E i \in 1 .. Len(t) : t[i] = e
    BY ONLY <2>1, ToSetIs
  <2>. QED BY <1>2, <2>2
<1>6. \A e : (\E i \in 1 .. n + 1 : t[i] = e) <=> (\E i \in 1 .. n : s[i] = e) \/ e = x
  BY <1>2, <1>3
<1>. QED BY ONLY <1>2, <1>4, <1>5, <1>6 DEF AddedTo

\* What is reported is a claim.
LEMMA ClaimIs ==
  ASSUME NEW n \in Nat, NEW r \in Reports, NEW s, Spoken(n, s, SevOf(r)), NEW c,
         c = [message |-> s[1], notes |-> Tail(s), name |-> IF r.kind = "undefined" THEN KeyOf(r) ELSE <<>>,
              early |-> Early(r)]
  PROVE  c \in ClaimsAt(n) /\ c.message = s[1] /\ c.message.sev = SevOf(r)
<1>1. PICK k \in Nat : k = Len(s) /\ k >= 1
  BY DEF Spoken
<1>2. s \in Seq(MessagesAt(n)) /\ s[1] \in MessagesAt(n) /\ s[1].sev = SevOf(r)
  BY <1>1 DEF Spoken
<1>3. Tail(s) \in Seq(NotesAt(n))
  <2>1. /\ Tail(s) \in Seq(MessagesAt(n)) /\ Len(Tail(s)) = k - 1
        /\ \A i \in 1 .. k - 1 : Tail(s)[i] = s[i + 1]
    <3>1. s # <<>>
      BY <1>1
    <3>. QED BY <1>1, <1>2, <3>1, HeadTailProperties
  <2>2. \A i \in 1 .. k - 1 : Tail(s)[i] \in NotesAt(n)
    <3>1. \A i \in 1 .. k - 1 : i + 1 \in 2 .. k
      OBVIOUS
    <3>. QED BY <1>1, <2>1, <3>1 DEF Spoken
  <2>3. PICK t : t = Tail(s)
    OBVIOUS
  <2>4. t = [i \in 1 .. k - 1 |-> t[i]] /\ k - 1 \in Nat
    <3>1. t \in Seq(MessagesAt(n)) /\ Len(t) = k - 1 /\ k - 1 \in Nat
      BY <1>1, <2>1, <2>3
    <3>. QED BY ONLY <3>1
  <2>5. \A i \in 1 .. k - 1 : t[i] \in NotesAt(n)
    BY <2>2, <2>3
  <2>6. t \in Seq(NotesAt(n))
    BY ONLY <2>4, <2>5
  <2>. QED BY <2>3, <2>6
<1>4. (IF r.kind = "undefined" THEN KeyOf(r) ELSE <<>>) \in Names
  BY DEF Names
<1>5. Early(r) \in BOOLEAN
  BY DEF Early
<1>. QED BY <1>2, <1>3, <1>4, <1>5 DEF ClaimsAt

\* It is too early for a report only if there is a pass to come.
LEMMA EarlyPending ==
  ASSUME MsgTyped, InPass, DuringPasses, NEW r, Early(r)
  PROVE  Pending
<1>1. pass < max_pass /\ (constcreated \/ ~fixeddig)
  BY DEF Early
<1>2. stage # "listing"
  BY <1>1 DEF DuringPasses, MsgTyped
<1>. QED BY <1>1, <1>2 DEF Pending, InPass

\* A report in a pass
LEMMA ReportKeeps ==
  ASSUME MsgTyped, InPass, DuringPasses, NEW r \in Reports, Report(r), stage' = stage
  PROVE  MsgTyped' /\ DuringPasses'
<1>1. PICK n \in Nat : n = Len(nodes)
  BY DEF MsgTyped, Tree
<1>2. here \in 1 .. n /\ Tree(nodes) /\ n >= 2
  <2>1. here # 0 /\ here \in 0 .. n
    BY <1>1 DEF MsgTyped, Report, Root
  <2>. QED BY <1>1, <2>1 DEF MsgTyped
<1>3. PICK said : said = Produced(r)
  OBVIOUS
<1>4. Spoken(n, said, SevOf(r))
  BY <1>1, <1>2, <1>3, ProducedIs
<1>5. PICK c : c = [message |-> said[1], notes |-> Tail(said), name |-> IF r.kind = "undefined" THEN KeyOf(r) ELSE <<>>,
                    early |-> Early(r)]
  OBVIOUS
<1>6. c \in ClaimsAt(n) /\ c.message.sev = SevOf(r)
  BY <1>4, <1>5, ClaimIs
<1>7. claims' = Append(claims, c)
  BY <1>3, <1>5 DEF Report
<1>8. claims' \in Seq(ClaimsAt(n)) /\ AddedTo(claims, c, claims')
  <2>1. claims \in Seq(ClaimsAt(n)) /\ c \in ClaimsAt(n)
    BY <1>1, <1>6 DEF MsgTyped
  <2>. QED BY ONLY <1>7, <2>1, OneMore
<1>9. PICK o : o = Logged(log, said)
  OBVIOUS
<1>10. /\ log \in LogsAt(n) /\ StopOK(log)
       /\ o \in LogsAt(n) /\ StopOK(o) /\ o.stop = log.stop
       /\ Serious(o) <=> Serious(log) \/ SevOf(r) \in Faulty
  BY <1>1, <1>2, <1>3, <1>9, ReportLogs DEF MsgTyped
<1>11. log' = IF Early(r) \/ Known(r) THEN log ELSE o
  BY <1>3, <1>9 DEF Report
<1>12. /\ limit' = limit /\ pass' = pass /\ max_pass' = max_pass /\ nodes' = nodes /\ here' = here
       /\ constcreated' = constcreated /\ fixeddig' = fixeddig /\ signal' = signal
       /\ notdefines' = IF r.kind # "undefined" \/ Early(r) THEN notdefines
                        ELSE {k \in notdefines : k[1] # KeyOf(r)} \cup {<<KeyOf(r), pass>>}
  BY DEF Report
<1>13. MsgTyped'
  BY <1>1, <1>8, <1>10, <1>11, <1>12 DEF MsgTyped
<1>14. Serious(log) => Serious(log')
  BY <1>10, <1>11
<1>15. Pending' <=> Pending
  BY <1>12 DEF Pending
<1>16. Known(r) => Serious(log)
  BY DEF Known, DuringPasses
<1>17. Early(r) => Pending
  BY EarlyPending
<1>18. SevOf(r) \in Faulty => Serious(log') \/ Pending
  BY <1>10, <1>11, <1>14, <1>16, <1>17
<1>19. Claimed' => Serious(log') \/ Pending'
  <2>. SUFFICES ASSUME Claimed' PROVE Serious(log') \/ Pending
    BY <1>15
  <2>1. PICK e \in ToSet(claims') : e.message.sev \in Faulty
    BY DEF Claimed
  <2>2. CASE e = c
    BY <1>6, <1>18, <2>1, <2>2
  <2>3. CASE e \in ToSet(claims)
    <3>1. Claimed
      BY <2>1, <2>3 DEF Claimed
    <3>. QED BY <1>14, <3>1 DEF DuringPasses
  <2>. QED BY <1>8, <2>1, <2>2, <2>3 DEF AddedTo
<1>20. ASSUME NEW k \in notdefines' PROVE k[2] \in Nat /\ k[2] <= pass /\ (k[2] = pass => Serious(log'))
  <2>1. CASE k \in notdefines
    BY <1>14, <2>1 DEF DuringPasses
  <2>2. CASE k \notin notdefines
    <3>1. r.kind = "undefined" /\ ~Early(r) /\ k = <<KeyOf(r), pass>>
      BY <1>12, <1>20, <2>2
    <3>2. k[2] = pass /\ pass \in Nat
      BY <3>1 DEF MsgTyped
    <3>3. SevOf(r) \in Faulty
      BY <3>1 DEF SevOf, Faulty
    <3>4. Serious(log')
      BY <1>10, <1>11, <1>14, <1>16, <3>1, <3>3
    <3>. QED BY <3>2, <3>4
  <2>. QED BY <2>1, <2>2
<1>21. stage' = "listing" => pass' > max_pass'
  BY <1>12 DEF DuringPasses
<1>. QED BY <1>12, <1>13, <1>19, <1>20, <1>21 DEF DuringPasses

\* The steps of a pass that report nothing
LEMMA QuietKeeps ==
  ASSUME MsgTyped, InPass, DuringPasses, stage' = stage,
         (\E inc \in Inclusions : Enter(inc)) \/ Exit \/ Unsettled \/ Interrupt
  PROVE  MsgTyped' /\ DuringPasses'
<1>1. PICK n \in Nat : n = Len(nodes)
  BY DEF MsgTyped, Tree
<1>2. log' = log /\ claims' = claims /\ notdefines' = notdefines /\ pass' = pass /\ max_pass' = max_pass /\ limit' = limit
  BY DEF Enter, Exit, Unsettled, Interrupt
<1>3. /\ constcreated' \in BOOLEAN /\ fixeddig' \in BOOLEAN /\ signal' \in BOOLEAN
      /\ constcreated => constcreated'
      /\ ~fixeddig => ~fixeddig'
  <2>1. constcreated \in BOOLEAN /\ fixeddig \in BOOLEAN /\ signal \in BOOLEAN
    BY DEF MsgTyped
  <2>2. CASE (\E inc \in Inclusions : Enter(inc)) \/ Exit
    <3>1. constcreated' = constcreated /\ fixeddig' = fixeddig /\ signal' = signal
      BY <2>2 DEF Enter, Exit
    <3>. QED BY <2>1, <3>1
  <2>3. CASE Unsettled
    <3>1. signal' = signal
      BY <2>3 DEF Unsettled
    <3>2. CASE fixeddig /\ fixeddig' = FALSE /\ UNCHANGED constcreated
      BY <2>1, <3>1, <3>2
    <3>3. CASE ~constcreated /\ constcreated' = TRUE /\ UNCHANGED fixeddig
      BY <2>1, <3>1, <3>3
    <3>. QED BY <2>3, <3>2, <3>3 DEF Unsettled
  <2>4. CASE Interrupt
    <3>1. constcreated' = constcreated /\ fixeddig' = fixeddig /\ signal' = TRUE
      BY <2>4 DEF Interrupt
    <3>. QED BY <2>1, <3>1
  <2>. QED BY <2>2, <2>3, <2>4
<1>4. Tree(nodes') /\ n <= Len(nodes') /\ here' \in 0 .. Len(nodes') /\ Len(nodes') \in Nat
  <2>1. CASE \E inc \in Inclusions : Enter(inc)
    <3>1. PICK inc \in Inclusions : Enter(inc)
      BY <2>1
    <3>2. PICK e : e = Entered(nodes, here, inc, pass)
      OBVIOUS
    <3>3. inc.at \in Ats /\ inc.file \in FileNames /\ inc.macro \in BOOLEAN
      BY MessagesAssumption DEF Ats, FileNames
    <3>4. Tree(nodes) /\ here \in 0 .. Len(nodes) /\ pass \in Nat
      BY DEF MsgTyped
    <3>5. Tree(e.nodes) /\ Len(nodes) <= Len(e.nodes) /\ e.node \in 1 .. Len(e.nodes)
      BY ONLY <3>2, <3>3, <3>4, EnteredIs
    <3>6. nodes' = e.nodes /\ here' = e.node
      BY <3>1, <3>2 DEF Enter
    <3>7. Len(e.nodes) \in Nat
      BY <3>5 DEF Tree
    <3>. QED BY <1>1, <3>5, <3>6, <3>7
  <2>2. CASE Exit
    <3>1. nodes' = nodes /\ here' = ParentOf(here)
      BY <2>2 DEF Exit
    <3>2. ParentOf(here) \in 0 .. Len(nodes)
      BY ParentIs DEF MsgTyped
    <3>. QED BY <1>1, <3>1, <3>2 DEF MsgTyped
  <2>3. CASE Unsettled \/ Interrupt
    BY <1>1, <2>3 DEF Unsettled, Interrupt, MsgTyped
  <2>. QED BY <2>1, <2>2, <2>3
<1>5. PICK m \in Nat : m = Len(nodes') /\ n <= m
  BY <1>4
<1>6. log \in LogsAt(m) /\ claims \in Seq(ClaimsAt(m)) /\ m >= 2
  <2>1. LogsAt(n) \subseteq LogsAt(m) /\ ClaimsAt(n) \subseteq ClaimsAt(m)
    BY <1>5, MoreNodes
  <2>2. log \in LogsAt(n) /\ claims \in Seq(ClaimsAt(n)) /\ n >= 2
    BY <1>1 DEF MsgTyped
  <2>3. claims \in Seq(ClaimsAt(m))
    BY <2>1, <2>2
  <2>. QED BY <1>5, <2>1, <2>2, <2>3
<1>7. MsgTyped'
  BY <1>2, <1>3, <1>4, <1>5, <1>6 DEF MsgTyped
<1>8. Pending => Pending'
  BY <1>2, <1>3 DEF Pending
<1>9. Claimed' <=> Claimed
  BY <1>2 DEF Claimed
<1>10. DuringPasses'
  BY <1>2, <1>8, <1>9 DEF DuringPasses
<1>. QED BY <1>7, <1>10

ProgramTexts == {"cannot write", "interrupted", "too many passes"}

\* What the program says by itself is a message, and a claim.
LEMMA AsideIs ==
  ASSUME MsgTyped, NEW node \in 0 .. Len(nodes), NEW at \in Nat,
         NEW text \in ProgramTexts, NEW e, e = Failure(node, at, text)
  PROVE  /\ e \in MessagesAt(Len(nodes)) /\ e.sev = "fatal" /\ e.text = text /\ e.sev \in Faulty
         /\ Aside(e) \in Seq(ClaimsAt(Len(nodes)))
         /\ \E c : c.message = e /\ AddedTo(claims, c, Aside(e))
<1>1. at \in Ats /\ "" \in LineTexts /\ text \in Texts /\ "fatal" \in Severities
  BY DEF Ats, LineTexts, Texts, Severities, ProgramTexts
<1>2. e \in MessagesAt(Len(nodes)) /\ e.sev = "fatal" /\ e.text = text
  BY <1>1 DEF Failure, Entry, MessagesAt
<1>3. PICK c : c = [message |-> e, notes |-> <<>>, name |-> <<>>, early |-> FALSE]
  OBVIOUS
<1>4. c \in ClaimsAt(Len(nodes)) /\ c.message = e
  <2>1. <<>> \in Names
    BY DEF Names
  <2>2. <<>> \in Seq(NotesAt(Len(nodes)))
    BY ONLY EmptySeq
  <2>. QED BY <1>2, <1>3, <2>1, <2>2 DEF ClaimsAt
<1>5. Aside(e) = Append(claims, c)
  BY <1>3 DEF Aside
<1>6. claims \in Seq(ClaimsAt(Len(nodes)))
  BY DEF MsgTyped
<1>7. Aside(e) \in Seq(ClaimsAt(Len(nodes))) /\ AddedTo(claims, c, Aside(e))
  BY ONLY <1>4, <1>5, <1>6, OneMore
<1>8. "fatal" \in Faulty
  BY DEF Faulty
<1>. QED BY <1>2, <1>4, <1>7, <1>8

\* The interruption in a pass
LEMMA NoticeKeeps ==
  ASSUME MsgTyped, InPass, DuringPasses, Notice, stage' = stage
  PROVE  MsgTyped' /\ DuringPasses'
<1>1. PICK n \in Nat : n = Len(nodes)
  BY DEF MsgTyped, Tree
<1>2. PICK e : e = Failure(here, 1, "interrupted")
  OBVIOUS
<1>3. /\ e \in MessagesAt(n) /\ e.sev = "fatal" /\ e.text = "interrupted"
      /\ Aside(e) \in Seq(ClaimsAt(n))
  <2>1. here \in 0 .. Len(nodes)
    BY DEF MsgTyped
  <2>2. "interrupted" \in ProgramTexts /\ 1 \in Nat
    BY DEF ProgramTexts
  <2>3. e \in MessagesAt(Len(nodes)) /\ e.sev = "fatal" /\ e.text = "interrupted"
        /\ Aside(e) \in Seq(ClaimsAt(Len(nodes)))
    BY ONLY <1>2, <2>1, <2>2, MsgTyped, AsideIs
  <2>. QED BY ONLY <1>1, <2>3
<1>4. IsEnd(e)
  BY <1>3 DEF IsEnd
<1>5. PICK o : o = Signalled(log, e)
  OBVIOUS
<1>6. log' = o /\ claims' = Aside(e)
      /\ limit' = limit /\ pass' = pass /\ max_pass' = max_pass /\ nodes' = nodes /\ here' = here
      /\ constcreated' = constcreated /\ fixeddig' = fixeddig /\ signal' = signal /\ notdefines' = notdefines
  BY <1>2, <1>5 DEF Notice
<1>7. o \in LogsAt(n) /\ StopOK(o) /\ Serious(o)
  <2>1. log \in LogsAt(n) /\ StopOK(log) /\ log.stop = Unlimited
    BY <1>1 DEF MsgTyped, Notice
  <2>. QED BY <1>3, <1>4, <1>5, <2>1, SignalledIs
<1>8. MsgTyped'
  BY <1>1, <1>3, <1>6, <1>7 DEF MsgTyped
<1>9. DuringPasses'
  BY <1>6, <1>7 DEF DuringPasses
<1>. QED BY <1>8, <1>9

\* All steps of a pass
LEMMA MsgKeeps ==
  ASSUME MsgTyped, InPass, DuringPasses, MsgStep, stage' = stage
  PROVE  MsgTyped' /\ DuringPasses'
BY ReportKeeps, QuietKeeps, NoticeKeeps DEF MsgStep

\* The program and the command line are in the tree when a pass begins.
LEMMA PassEntered ==
  ASSUME NEW ns, Tree(ns), NEW p \in Nat, NEW e, e = Entered(ns, Root, MainFile, p),
         NEW f, f = Entered(e.nodes, Root, CommandLine, p)
  PROVE  /\ Tree(f.nodes) /\ Len(ns) <= Len(f.nodes) /\ e.node \in 0 .. Len(f.nodes)
<1>1. Tree(ns) /\ Root \in 0 .. Len(ns)
  BY DEF Tree, Root
<1>2. /\ MainFile.at \in Ats /\ MainFile.file \in FileNames /\ MainFile.macro \in BOOLEAN
      /\ CommandLine.at \in Ats /\ CommandLine.file \in FileNames /\ CommandLine.macro \in BOOLEAN
  BY DEF MainFile, CommandLine, Ats, FileNames
<1>3. Tree(e.nodes) /\ Len(ns) <= Len(e.nodes) /\ e.node \in 1 .. Len(e.nodes)
  BY ONLY <1>1, <1>2, p \in Nat, e = Entered(ns, Root, MainFile, p), EnteredIs
<1>4. Root \in 0 .. Len(e.nodes)
  BY <1>3 DEF Tree, Root
<1>5. Tree(f.nodes) /\ Len(e.nodes) <= Len(f.nodes)
  BY ONLY <1>2, <1>3, <1>4, p \in Nat, f = Entered(e.nodes, Root, CommandLine, p), EnteredIs
<1>6. PICK i \in Nat, j \in Nat, k \in Nat : i = Len(ns) /\ j = Len(e.nodes) /\ k = Len(f.nodes)
  BY <1>1, <1>3, <1>5 DEF Tree
<1>. QED BY <1>3, <1>5, <1>6

(***************************************************************************)
(* error_print.                                                            *)
(***************************************************************************)
PrintLines(n) == [what : {"from", "message", "source"}, entry : MessagesAt(n), node : Nat]
Outs(n) == [from : Nat, lines : Seq(PrintLines(n))]
Prints(out, e) == \E l \in ToSet(out.lines) : l.what = "message" /\ l.entry = e

BothIn(s, t, u) == \A e : e \in ToSet(u) <=> e \in ToSet(s) \/ e \in ToSet(t)

\* The elements of two sequences one behind the other
LEMMA ToSetConcat ==
  ASSUME NEW S, NEW s \in Seq(S), NEW t \in Seq(S), NEW u, u = s \o t
  PROVE  u \in Seq(S) /\ BothIn(s, t, u)
<1>1. PICK k \in Nat, m \in Nat : k = Len(s) /\ m = Len(t)
  OBVIOUS
<1>2. u \in Seq(S) /\ Len(u) = k + m /\ \A i \in 1 .. k + m : u[i] = IF i <= k THEN s[i] ELSE t[i - k]
  BY <1>1, ConcatProperties
<1>3. \A e : e \in ToSet(s) <=> \E i \in 1 .. k : s[i] = e
  BY <1>1, ToSetIs
<1>4. \A e : e \in ToSet(t) <=> \E i \in 1 .. m : t[i] = e
  BY <1>1, ToSetIs
<1>5. \A e : e \in ToSet(u) <=> \E i \in 1 .. k + m : u[i] = e
  <2>1. u \in Seq(S)
    BY <1>2
  <2>2. \A e : e \in ToSet(u) <=> \E i \in 1 .. Len(u) : u[i] = e
    BY ONLY <2>1, ToSetIs
  <2>. QED BY <1>2, <2>2
<1>6. ASSUME NEW e, NEW i \in 1 .. k + m, u[i] = e
      PROVE  (\E j \in 1 .. k : s[j] = e) \/ \E j \in 1 .. m : t[j] = e
  <2>1. CASE i <= k
    BY <1>2, <1>6, <2>1
  <2>2. CASE ~(i <= k)
    <3>1. i - k \in 1 .. m
      BY <2>2
    <3>. QED BY <1>2, <1>6, <2>2, <3>1
  <2>. QED BY <2>1, <2>2
<1>7. ASSUME NEW e, NEW j \in 1 .. k, s[j] = e PROVE \E i \in 1 .. k + m : u[i] = e
  <2>1. j \in 1 .. k + m /\ j <= k
    OBVIOUS
  <2>2. u[j] = s[j]
    BY ONLY <1>2, <2>1
  <2>. QED BY ONLY <1>7, <2>1, <2>2
<1>8. ASSUME NEW e, NEW j \in 1 .. m, t[j] = e PROVE \E i \in 1 .. k + m : u[i] = e
  <2>1. j + k \in 1 .. k + m /\ ~(j + k <= k) /\ (j + k) - k = j
    OBVIOUS
  <2>2. u[j + k] = t[j]
    BY <1>2, <2>1
  <2>. QED BY <1>8, <2>1, <2>2
<1>. QED BY <1>2, <1>3, <1>4, <1>5, <1>6, <1>7, <1>8 DEF BothIn

\* Of the lines that are new one is the message e.
NewLines(lines, more, e) ==
  /\ Len(lines) < Len(more)
  /\ \A i \in 1 .. Len(lines) : more[i] = lines[i]
  /\ \E q \in Len(lines) + 1 .. Len(more) :
       /\ more[q].what = "message" /\ more[q].entry = e
       /\ \A i \in Len(lines) + 1 .. Len(more) : more[i].what = "message" => i = q

\* What is around the message is not one.
LEMMA NewLinesAre ==
  ASSUME NEW S, NEW lines \in Seq(S), NEW from \in Seq(S), NEW m \in S, NEW src \in Seq(S),
         m.what = "message", \A i \in 1 .. Len(from) : from[i].what # "message",
         \A i \in 1 .. Len(src) : src[i].what # "message",
         NEW a, a = lines \o from, NEW one, one = <<m>>, NEW b, b = a \o one, NEW c, c = b \o src
  PROVE  NewLines(lines, c, m.entry)
<1>1. PICK x \in Nat, y \in Nat, z \in Nat : x = Len(lines) /\ y = Len(from) /\ z = Len(src)
  OBVIOUS
<1>2. a \in Seq(S) /\ Len(a) = x + y /\ \A i \in 1 .. x + y : a[i] = IF i <= x THEN lines[i] ELSE from[i - x]
  BY <1>1, ConcatProperties
<1>3. one \in Seq(S) /\ Len(one) = 1 /\ one[1] = m
  OBVIOUS
<1>4. b \in Seq(S) /\ Len(b) = x + y + 1 /\ \A i \in 1 .. x + y + 1 : b[i] = IF i <= x + y THEN a[i] ELSE one[i - (x + y)]
  <2>1. b \in Seq(S) /\ Len(b) = Len(a) + Len(one)
        /\ \A i \in 1 .. Len(a) + Len(one) : b[i] = IF i <= Len(a) THEN a[i] ELSE one[i - Len(a)]
    BY ONLY a \in Seq(S), one \in Seq(S), b = a \o one, <1>2, <1>3, ConcatProperties
  <2>. QED BY ONLY <1>2, <1>3, <2>1
<1>5. /\ c \in Seq(S) /\ Len(c) = (x + y + 1) + z
      /\ \A i \in 1 .. (x + y + 1) + z : c[i] = IF i <= x + y + 1 THEN b[i] ELSE src[i - (x + y + 1)]
  <2>1. b \in Seq(S)
    BY ONLY <1>4
  <2>2. c \in Seq(S) /\ Len(c) = Len(b) + Len(src)
        /\ \A i \in 1 .. Len(b) + Len(src) : c[i] = IF i <= Len(b) THEN b[i] ELSE src[i - Len(b)]
    BY ONLY <2>1, src \in Seq(S), c = b \o src, ConcatProperties
  <2>. QED BY ONLY <1>1, <1>4, <2>2
<1>6. ASSUME NEW i \in 1 .. x PROVE c[i] = lines[i]
  <2>1. i \in 1 .. x + y /\ i \in 1 .. x + y + 1 /\ i \in 1 .. (x + y + 1) + z /\ i <= x /\ i <= x + y /\ i <= x + y + 1
    OBVIOUS
  <2>. QED BY ONLY <1>2, <1>4, <1>5, <2>1
<1>7. PICK q : q = x + y + 1
  OBVIOUS
<1>8. c[q] = m
  <2>1. q \in 1 .. x + y + 1 /\ q \in 1 .. (x + y + 1) + z /\ ~(q <= x + y) /\ q <= x + y + 1 /\ q - (x + y) = 1
    BY <1>7
  <2>. QED BY ONLY <1>3, <1>4, <1>5, <2>1
<1>9. ASSUME NEW i \in x + 1 .. (x + y + 1) + z, i # q PROVE c[i].what # "message"
  <2>1. CASE i <= x + y
    <3>1. i \in 1 .. x + y /\ i \in 1 .. x + y + 1 /\ i \in 1 .. (x + y + 1) + z /\ ~(i <= x) /\ i <= x + y + 1 /\ i - x \in 1 .. y
      BY <2>1
    <3>2. c[i] = from[i - x]
      BY ONLY <1>2, <1>4, <1>5, <2>1, <3>1
    <3>. QED BY <1>1, <3>1, <3>2
  <2>2. CASE ~(i <= x + y)
    <3>1. i \in 1 .. (x + y + 1) + z /\ ~(i <= x + y + 1) /\ i - (x + y + 1) \in 1 .. z
      BY <1>7, <1>9, <2>2
    <3>2. c[i] = src[i - (x + y + 1)]
      BY ONLY <1>5, <3>1
    <3>. QED BY <1>1, <3>1, <3>2
  <2>. QED BY <2>1, <2>2
<1>10. q \in x + 1 .. (x + y + 1) + z /\ x < (x + y + 1) + z
  BY <1>7
<1>11. x = Len(lines) /\ Len(c) = (x + y + 1) + z
  BY <1>1, <1>5
<1>12. PICK w : w = (x + y + 1) + z
  OBVIOUS
<1>13. Len(c) = w /\ q \in x + 1 .. w /\ x < w /\ \A i \in x + 1 .. w : i # q => c[i].what # "message"
  BY ONLY <1>9, <1>10, <1>11, <1>12
<1>14. c[q].what = "message" /\ c[q].entry = m.entry
  BY <1>8
<1>. QED BY ONLY <1>6, <1>11, <1>13, <1>14 DEF NewLines

\* A message is printed behind what was printed before.
LEMMA PrintErrorIs ==
  ASSUME Tree(nodes), NEW n \in Nat, n = Len(nodes), NEW out \in Outs(n), NEW e \in MessagesAt(n),
         NEW caret \in BOOLEAN, NEW o, o = print_error(out, e, caret)
  PROVE  /\ o \in Outs(n) /\ Prints(o, e) /\ \A x : Prints(out, x) => Prints(o, x)
         /\ NewLines(out.lines, o.lines, e)
<1>1. PICK lines \in Seq(PrintLines(n)) : lines = out.lines
  BY DEF Outs
<1>2. e.node \in 0 .. n /\ e.node \in Nat
  BY DEF MessagesAt
<1>3. PICK d \in Nat : /\ Chain(e.node) = [k \in 1 .. d |-> Above(e.node, k)]
                       /\ \A k \in 1 .. d : Above(e.node, k) \in 0 .. n
  BY <1>2, ChainWays
<1>4. PICK from \in Seq(PrintLines(n)) :
        from = IF e.node = Root \/ e.node = out.from \/ ~Ambiguous(e.node) THEN <<>>
               ELSE [k \in DOMAIN Chain(e.node) |-> [what |-> "from", entry |-> e, node |-> Chain(e.node)[k]]]
  <2>1. PICK f : f = [k \in DOMAIN Chain(e.node) |-> [what |-> "from", entry |-> e, node |-> Chain(e.node)[k]]]
    OBVIOUS
  <2>2. f = [k \in 1 .. d |-> [what |-> "from", entry |-> e, node |-> Above(e.node, k)]]
    BY <1>3, <2>1
  <2>3. \A k \in 1 .. d : [what |-> "from", entry |-> e, node |-> Above(e.node, k)] \in PrintLines(n)
    BY <1>3 DEF PrintLines
  <2>4. f \in Seq(PrintLines(n))
    BY <2>2, <2>3
  <2>5. <<>> \in Seq(PrintLines(n))
    BY ONLY EmptySeq
  <2>. QED BY <2>1, <2>4, <2>5
<1>5. PICK m \in PrintLines(n) : m = [what |-> "message", entry |-> e, node |-> e.node]
  BY <1>2 DEF PrintLines
<1>6. PICK src \in Seq(PrintLines(n)) :
        src = IF caret /\ e.node # Root /\ e.at # 0
              THEN <<[what |-> "source", entry |-> e, node |-> e.node]>> ELSE <<>>
  <2>1. [what |-> "source", entry |-> e, node |-> e.node] \in PrintLines(n)
    BY <1>2 DEF PrintLines
  <2>2. <<[what |-> "source", entry |-> e, node |-> e.node]>> \in Seq(PrintLines(n)) /\ <<>> \in Seq(PrintLines(n))
    BY ONLY <2>1, EmptySeq
  <2>. QED BY <2>2
<1>7. o = [from |-> IF e.node = Root THEN out.from ELSE e.node, lines |-> lines \o from \o <<m>> \o src]
  BY <1>1, <1>4, <1>5, <1>6 DEF print_error
<1>8. PICK a : a = lines \o from
  OBVIOUS
<1>9. PICK one \in Seq(PrintLines(n)) : one = <<m>> /\ m \in ToSet(one)
  <2>1. <<m>> \in Seq(PrintLines(n)) /\ 1 \in 1 .. Len(<<m>>) /\ <<m>>[1] = m
    OBVIOUS
  <2>2. m \in ToSet(<<m>>)
    BY ONLY <2>1, ToSetIs
  <2>. QED BY ONLY <2>1, <2>2
<1>10. PICK b, c : b = a \o one /\ c = b \o src
  OBVIOUS
<1>15. a \in Seq(PrintLines(n)) /\ BothIn(lines, from, a)
  BY ONLY <1>8, lines \in Seq(PrintLines(n)), from \in Seq(PrintLines(n)), ToSetConcat
<1>16. b \in Seq(PrintLines(n)) /\ BothIn(a, one, b)
  BY ONLY <1>10, <1>15, one \in Seq(PrintLines(n)), ToSetConcat
<1>17. c \in Seq(PrintLines(n)) /\ BothIn(b, src, c)
  BY ONLY <1>10, <1>16, src \in Seq(PrintLines(n)), ToSetConcat
<1>18. m \in ToSet(c) /\ \A x : x \in ToSet(lines) => x \in ToSet(c)
  BY ONLY <1>9, <1>15, <1>16, <1>17 DEF BothIn
<1>11. o = [from |-> IF e.node = Root THEN out.from ELSE e.node, lines |-> c]
  BY ONLY <1>7, <1>8, <1>9, <1>10
<1>12. o \in Outs(n) /\ o.lines = c
  <2>1. out.from \in Nat
    BY DEF Outs
  <2>. QED BY <1>2, <1>17, <1>11, <2>1 DEF Outs
<1>13. Prints(o, e)
  <2>1. m.what = "message" /\ m.entry = e
    BY <1>5
  <2>. QED BY ONLY <1>12, <1>18, <2>1 DEF Prints
<1>14. \A x : Prints(out, x) => Prints(o, x)
  BY ONLY <1>1, <1>12, <1>18 DEF Prints
<1>19. \A i \in 1 .. Len(from) : from[i].what # "message"
  <2>1. CASE from = <<>>
    <3>1. Len(from) = 0 /\ 1 .. 0 = {}
      BY <2>1
    <3>. QED BY <3>1
  <2>2. CASE from = [k \in DOMAIN Chain(e.node) |-> [what |-> "from", entry |-> e, node |-> Chain(e.node)[k]]]
    <3>1. \A i \in DOMAIN from : from[i].what = "from"
      BY ONLY <2>2
    <3>. QED BY <3>1
  <2>. QED BY <1>4, <2>1, <2>2
<1>20. \A i \in 1 .. Len(src) : src[i].what # "message"
  <2>1. CASE src = <<>>
    <3>1. Len(src) = 0 /\ 1 .. 0 = {}
      BY <2>1
    <3>. QED BY <3>1
  <2>2. CASE src = <<[what |-> "source", entry |-> e, node |-> e.node]>>
    <3>1. \A i \in 1 .. Len(src) : i = 1
      BY <2>2
    <3>2. src[1].what = "source"
      BY <2>2
    <3>. QED BY <3>1, <3>2
  <2>. QED BY <1>6, <2>1, <2>2
<1>21. NewLines(lines, c, m.entry)
  <2>1. m.what = "message" /\ one = <<m>> /\ b = a \o one /\ c = b \o src
    BY <1>5, <1>9, <1>10
  <2>. QED BY ONLY <1>8, <1>19, <1>20, <2>1, lines \in Seq(PrintLines(n)), from \in Seq(PrintLines(n)),
              m \in PrintLines(n), src \in Seq(PrintLines(n)), NewLinesAre
<1>22. NewLines(out.lines, o.lines, e)
  <2>1. m.entry = e
    BY <1>5
  <2>. QED BY ONLY <1>1, <1>12, <1>21, <2>1
<1>. QED BY <1>12, <1>13, <1>14, <1>22

\* The loop of error_print, with the two messages that are not printed yet
Printing(n) ==
  [err2 : MessagesAt(n) \cup {NoEntry}, err3 : MessagesAt(n) \cup {NoEntry}, usenote : BOOLEAN,
   errors : Nat, warnings : Nat, out : Outs(n)]
Waits(acc, e) == Prints(acc.out, e) \/ acc.err2 = e \/ acc.err3 = e
Hidden(e, any, hard) == (e.sev = "warning" /\ any) \/ (e.sev = "none error" /\ hard)
Counts(e, any, hard) == e.sev \notin {"note", "warning"} /\ ~Hidden(e, any, hard)

\* What is printed before the next message is put behind the one before
Before(acc, o) ==
  IF acc.err3 = NoEntry THEN acc.out ELSE print_error(acc.out, acc.err3, ~SamePlace(o, acc.err3))

\* The last but one message is printed.
LEMMA BeforeIs ==
  ASSUME Tree(nodes), NEW n \in Nat, n = Len(nodes), NEW acc \in Printing(n), NEW o, NEW b, b = Before(acc, o)
  PROVE  /\ b \in Outs(n)
         /\ acc.err3 # NoEntry => Prints(b, acc.err3) /\ NewLines(acc.out.lines, b.lines, acc.err3)
         /\ acc.err3 = NoEntry => b = acc.out
         /\ \A x : Prints(acc.out, x) => Prints(b, x)
<1>1. acc.out \in Outs(n) /\ acc.err3 \in MessagesAt(n) \cup {NoEntry}
  BY DEF Printing
<1>2. CASE acc.err3 = NoEntry
  BY <1>1, <1>2 DEF Before
<1>3. CASE acc.err3 # NoEntry
  <2>1. PICK caret \in BOOLEAN : caret = ~SamePlace(o, acc.err3)
    BY DEF SamePlace
  <2>2. b = print_error(acc.out, acc.err3, caret)
    BY <1>3, <2>1 DEF Before
  <2>3. acc.err3 \in MessagesAt(n)
    BY <1>1, <1>3
  <2>. QED BY <1>1, <1>3, <2>2, <2>3, PrintErrorIs
<1>. QED BY <1>2, <1>3

\* One turn of the loop keeps what is not a note, and counts.
LEMMA StepIs ==
  ASSUME Tree(nodes), NEW n \in Nat, n = Len(nodes), NEW acc \in Printing(n), NEW e \in MessagesAt(n),
         NEW any \in BOOLEAN, NEW hard \in BOOLEAN, NEW o, o = Step(acc, e, any, hard)
  PROVE  /\ o \in Printing(n)
         /\ o.errors = acc.errors + (IF Counts(e, any, hard) THEN 1 ELSE 0)
         /\ \A x \in MessagesAt(n) : x.sev # "note" /\ Waits(acc, x) => Waits(o, x)
         /\ e.sev # "note" /\ ~Hidden(e, any, hard) => Waits(o, e)
<1>1. PICK err2 \in MessagesAt(n) \cup {NoEntry}, err3 \in MessagesAt(n) \cup {NoEntry}, usenote \in BOOLEAN,
           errors \in Nat, warnings \in Nat, out \in Outs(n) :
        acc = [err2 |-> err2, err3 |-> err3, usenote |-> usenote, errors |-> errors, warnings |-> warnings, out |-> out]
  BY DEF Printing
<1>2. NoEntry \notin MessagesAt(n)
  BY NoEntryIs
<1>3. CASE e.sev = "note"
  <2>1. ~Counts(e, any, hard)
    BY <1>3 DEF Counts
  <2>2. CASE ~usenote
    <3>1. o = acc
      BY <1>1, <1>3, <2>2 DEF Step
    <3>. QED BY <1>1, <1>3, <2>1, <3>1
  <2>3. CASE usenote
    <3>1. PICK b : b = Before(acc, e)
      OBVIOUS
    <3>2. b \in Outs(n) /\ (err3 # NoEntry => Prints(b, err3)) /\ \A x : Prints(out, x) => Prints(b, x)
      <4>1. b \in Outs(n) /\ (acc.err3 # NoEntry => Prints(b, acc.err3)) /\ \A x : Prints(acc.out, x) => Prints(b, x)
        BY <3>1, BeforeIs
      <4>. QED BY <1>1, <4>1
    <3>3. PICK c : c = IF err3 = e THEN out ELSE b
      OBVIOUS
    <3>4. o = [acc EXCEPT !.out = c, !.err3 = acc.err2, !.err2 = e]
      BY <1>1, <1>3, <2>3, <3>1, <3>3 DEF Step, Before
    <3>5. o = [err2 |-> e, err3 |-> err2, usenote |-> usenote, errors |-> errors, warnings |-> warnings, out |-> c]
      BY ONLY <1>1, <3>4
    <3>6. c \in Outs(n)
      BY <3>2, <3>3
    <3>7. o \in Printing(n)
      BY <3>5, <3>6 DEF Printing
    <3>8. ASSUME NEW x \in MessagesAt(n), x.sev # "note", Waits(acc, x) PROVE Waits(o, x)
      <4>1. Prints(out, x) \/ err2 = x \/ err3 = x
        BY <1>1, <3>8 DEF Waits
      <4>2. x # e /\ x # NoEntry
        BY <1>2, <1>3, <3>8
      <4>3. Prints(c, x) \/ err2 = x
        BY <3>2, <3>3, <4>1, <4>2
      <4>. QED BY <3>5, <4>3 DEF Waits
    <3>. QED BY <1>1, <1>3, <2>1, <3>5, <3>7, <3>8
  <2>. QED BY <2>2, <2>3
<1>4. CASE e.sev # "note"
  <2>1. PICK w \in Nat : w = warnings + (IF e.sev = "warning" THEN 1 ELSE 0)
    OBVIOUS
  <2>2. PICK k \in Nat : k = errors + (IF Counts(e, any, hard) THEN 1 ELSE 0)
    OBVIOUS
  <2>3. PICK counted : counted = [acc EXCEPT !.warnings = w, !.errors = k]
    OBVIOUS
  <2>4. counted = [err2 |-> err2, err3 |-> err3, usenote |-> usenote, errors |-> k, warnings |-> w, out |-> out]
    BY ONLY <1>1, <2>3
  <2>5. (IF Counts(e, any, hard) THEN 1 ELSE 0) =
          (IF e.sev = "warning" \/ Hidden(e, any, hard) THEN 0 ELSE 1)
    BY <1>4 DEF Counts
  <2>6. o = IF Hidden(e, any, hard) THEN [counted EXCEPT !.usenote = FALSE]
            ELSE [counted EXCEPT !.out = Before(acc, acc.err2), !.err3 = acc.err2, !.err2 = e, !.usenote = TRUE]
    <3>1. k = errors + (IF e.sev = "warning" \/ Hidden(e, any, hard) THEN 0 ELSE 1)
      BY ONLY <2>2, <2>5
    <3>2. counted = [acc EXCEPT !.warnings = @ + (IF e.sev = "warning" THEN 1 ELSE 0),
                                !.errors = @ + (IF e.sev = "warning" \/ Hidden(e, any, hard) THEN 0 ELSE 1)]
      BY ONLY <1>1, <2>1, <2>3, <3>1
    <3>. QED BY <1>4, <3>2 DEF Step, Hidden, Before
  <2>7. CASE Hidden(e, any, hard)
    <3>1. o = [err2 |-> err2, err3 |-> err3, usenote |-> FALSE, errors |-> k, warnings |-> w, out |-> out]
      BY ONLY <2>4, <2>6, <2>7
    <3>2. o \in Printing(n)
      BY <3>1 DEF Printing
    <3>3. \A x : Waits(acc, x) => Waits(o, x)
      BY <1>1, <3>1 DEF Waits
    <3>. QED BY <1>1, <2>2, <2>7, <3>1, <3>2, <3>3
  <2>8. CASE ~Hidden(e, any, hard)
    <3>1. PICK b : b = Before(acc, acc.err2)
      OBVIOUS
    <3>2. b \in Outs(n) /\ (err3 # NoEntry => Prints(b, err3)) /\ \A x : Prints(out, x) => Prints(b, x)
      <4>1. b \in Outs(n) /\ (acc.err3 # NoEntry => Prints(b, acc.err3)) /\ \A x : Prints(acc.out, x) => Prints(b, x)
        BY <3>1, BeforeIs
      <4>. QED BY <1>1, <4>1
    <3>3. o = [err2 |-> e, err3 |-> err2, usenote |-> TRUE, errors |-> k, warnings |-> w, out |-> b]
      BY ONLY <1>1, <2>4, <2>6, <2>8, <3>1
    <3>4. o \in Printing(n)
      BY <3>2, <3>3 DEF Printing
    <3>5. \A x \in MessagesAt(n) : Waits(acc, x) => Waits(o, x)
      BY <1>1, <1>2, <3>2, <3>3 DEF Waits
    <3>6. Waits(o, e)
      BY <3>3 DEF Waits
    <3>. QED BY <1>1, <2>2, <3>3, <3>4, <3>5, <3>6
  <2>. QED BY <2>7, <2>8
<1>. QED BY <1>3, <1>4

(***************************************************************************)
(* What the loop of error_print has queued or printed of the first k       *)
(* messages and notes of s: the set K of their numbers.                    *)
(***************************************************************************)
Visible(s, any, hard, h) == s[h].sev # "note" /\ ~Hidden(s[h], any, hard)
Reaches(s, h, j) == h <= j /\ \A x \in h + 1 .. j : s[x].sev = "note"
Below(s, h, j) == h < j /\ Reaches(s, h, j)

\* All messages that are not hidden are kept, and of the notes only those below them.
KeptOnly(s, any, hard, k, K) ==
  /\ K \subseteq 1 .. k
  /\ \A h \in 1 .. k : Visible(s, any, hard, h) => h \in K
  /\ \A x \in K : Visible(s, any, hard, x) \/ \E h \in 1 .. k : Visible(s, any, hard, h) /\ Below(s, h, x)

\* A note that comes is below a message that is not hidden, or not used.
Noting(s, any, hard, k, usenote) == usenote <=> \E h \in 1 .. k : Visible(s, any, hard, h) /\ Reaches(s, h, k)

\* A note is kept, or the same one below later messages is, with no others in between.
FoundFor(s, any, hard, k, h, j, p) ==
  /\ j <= p /\ s[p] = s[j]
  /\ \A g \in 1 .. k : Visible(s, any, hard, g) /\ h <= g /\ g < p => \E y \in 1 .. k : Below(s, g, y) /\ s[y] = s[j]
NotesFound(s, any, hard, k, K) ==
  \A h, j \in 1 .. k : Visible(s, any, hard, h) /\ Below(s, h, j) => \E p \in K : FoundFor(s, any, hard, k, h, j, p)
AllKept(s, any, hard, k, usenote, K) ==
  KeptOnly(s, any, hard, k, K) /\ Noting(s, any, hard, k, usenote) /\ NotesFound(s, any, hard, k, K)

\* One more message or note
LEMMA NextReached ==
  ASSUME NEW k \in Nat, NEW s, NEW m, m = k + 1, NEW h \in 1 .. k
  PROVE  /\ Reaches(s, h, m) <=> Reaches(s, h, k) /\ s[m].sev = "note"
         /\ Below(s, h, m) <=> Reaches(s, h, m)
<1>1. \A x : x \in h + 1 .. m <=> x \in h + 1 .. k \/ x = m
  OBVIOUS
<1>2. h <= k /\ h <= m /\ h < m
  OBVIOUS
<1>. QED BY <1>1, <1>2 DEF Reaches, Below

\* What was found is still found.
LEMMA StillFound ==
  ASSUME NEW k \in Nat, NEW s, NEW any, NEW hard, NEW m, m = k + 1, NEW h \in 1 .. k, NEW j \in 1 .. k, NEW p \in 1 .. k,
         FoundFor(s, any, hard, k, h, j, p)
  PROVE  FoundFor(s, any, hard, m, h, j, p)
<1>1. \A x \in 1 .. m : x < p => x \in 1 .. k
  OBVIOUS
<1>2. 1 .. k \subseteq 1 .. m
  OBVIOUS
<1>. QED BY <1>1, <1>2 DEF FoundFor

\* A message or note is left out: a note that is not used, or a message that is hidden.
LEMMA WholeSkips ==
  ASSUME NEW k \in Nat, NEW s, NEW any, NEW hard, NEW usenote \in BOOLEAN, NEW K, AllKept(s, any, hard, k, usenote, K),
         NEW m, m = k + 1, ~Visible(s, any, hard, m), s[m].sev = "note" => ~usenote
  PROVE  AllKept(s, any, hard, m, FALSE, K)
<1>1. \A h : h \in 1 .. m <=> h \in 1 .. k \/ h = m
  OBVIOUS
<1>2. \A h \in 1 .. k : Visible(s, any, hard, h) => ~Reaches(s, h, m) /\ ~Below(s, h, m)
  <2>. SUFFICES ASSUME NEW h \in 1 .. k, Visible(s, any, hard, h) PROVE ~Reaches(s, h, m) /\ ~Below(s, h, m)
    OBVIOUS
  <2>1. Reaches(s, h, k) => usenote
    BY DEF AllKept, Noting
  <2>. QED BY <2>1, NextReached
<1>3. KeptOnly(s, any, hard, m, K)
  BY <1>1 DEF AllKept, KeptOnly
<1>4. Noting(s, any, hard, m, FALSE)
  BY <1>1, <1>2 DEF Noting
<1>5. ASSUME NEW h \in 1 .. m, NEW j \in 1 .. m, Visible(s, any, hard, h), Below(s, h, j)
      PROVE  \E p \in K : FoundFor(s, any, hard, m, h, j, p)
  <2>1. h \in 1 .. k /\ j \in 1 .. k
    <3>1. h \in 1 .. k
      BY <1>1, <1>5
    <3>. QED BY <1>1, <1>2, <1>5, <3>1
  <2>2. PICK p \in K : FoundFor(s, any, hard, k, h, j, p)
    BY <1>5, <2>1 DEF AllKept, NotesFound
  <2>3. p \in 1 .. k
    BY DEF AllKept, KeptOnly
  <2>. QED BY <2>1, <2>2, <2>3, StillFound
<1>. QED BY <1>3, <1>4, <1>5 DEF AllKept, NotesFound

\* The note that comes is found for the messages that it is below.
LEMMA NewFound ==
  ASSUME NEW k \in Nat, NEW s, NEW any, NEW hard, NEW m, m = k + 1, NEW h \in 1 .. m, Below(s, h, m)
  PROVE  FoundFor(s, any, hard, m, h, m, m)
<1>1. m \in 1 .. m /\ m <= m
  OBVIOUS
<1>2. ASSUME NEW g \in 1 .. m, Visible(s, any, hard, g), h <= g, g < m PROVE Below(s, g, m)
  <2>1. g = h \/ g \in h + 1 .. m
    BY <1>2
  <2>2. g = h
    BY <1>2, <2>1 DEF Visible, Below, Reaches
  <2>. QED BY <2>2
<1>. QED BY <1>1, <1>2 DEF FoundFor

\* It is put into the queue: a message, or a note that is used.
LEMMA WholeKeeps ==
  ASSUME NEW k \in Nat, NEW s, NEW any, NEW hard, NEW usenote \in BOOLEAN, NEW K, AllKept(s, any, hard, k, usenote, K),
         NEW m, m = k + 1, Visible(s, any, hard, m) \/ (s[m].sev = "note" /\ usenote)
  PROVE  AllKept(s, any, hard, m, TRUE, K \cup {m})
<1>1. \A h : h \in 1 .. m <=> h \in 1 .. k \/ h = m
  OBVIOUS
<1>2. \E h \in 1 .. m : Visible(s, any, hard, h) /\ Reaches(s, h, m) /\ (h # m => Below(s, h, m))
  <2>1. CASE Visible(s, any, hard, m)
    <3>1. m <= m /\ m + 1 .. m = {}
      OBVIOUS
    <3>2. Reaches(s, m, m)
      BY <3>1 DEF Reaches
    <3>. QED BY <1>1, <2>1, <3>2
  <2>2. CASE s[m].sev = "note" /\ usenote
    <3>1. PICK h \in 1 .. k : Visible(s, any, hard, h) /\ Reaches(s, h, k)
      BY <2>2 DEF AllKept, Noting
    <3>. QED BY <1>1, <2>2, <3>1, NextReached
  <2>. QED BY <2>1, <2>2
<1>3. KeptOnly(s, any, hard, m, K \cup {m})
  <2>1. Visible(s, any, hard, m) \/ \E h \in 1 .. m : Visible(s, any, hard, h) /\ Below(s, h, m)
    BY <1>2
  <2>. QED BY <1>1, <2>1 DEF AllKept, KeptOnly
<1>4. Noting(s, any, hard, m, TRUE)
  BY <1>2 DEF Noting
<1>5. ASSUME NEW h \in 1 .. m, NEW j \in 1 .. m, Visible(s, any, hard, h), Below(s, h, j)
      PROVE  \E p \in K \cup {m} : FoundFor(s, any, hard, m, h, j, p)
  <2>1. CASE j = m
    BY <1>5, <2>1, NewFound
  <2>2. CASE j \in 1 .. k
    <3>1. h \in 1 .. k
      BY <1>5, <2>2 DEF Below
    <3>2. PICK p \in K : FoundFor(s, any, hard, k, h, j, p)
      BY <1>5, <2>2, <3>1 DEF AllKept, NotesFound
    <3>3. p \in 1 .. k
      BY DEF AllKept, KeptOnly
    <3>. QED BY <2>2, <3>1, <3>2, <3>3, StillFound
  <2>. QED BY <1>1, <2>1, <2>2
<1>. QED BY <1>3, <1>4, <1>5 DEF AllKept, NotesFound

\* i2 is the last that was kept, i3 the one before, and what comes is the same note.
AtLast(s, i2, i3, m, K) ==
  /\ i2 \in K /\ i3 \in K /\ i3 < i2 /\ s[i3] = s[m]
  /\ \A x \in K : x < i3 \/ x = i3 \/ x = i2
Requeued(K, i, m) == (K \ {i}) \cup {m}

\* It is put there in place of the same note, which was last but one.
LEMMA WholeDrops ==
  ASSUME NEW k \in Nat, NEW s, NEW any, NEW hard, NEW K, AllKept(s, any, hard, k, TRUE, K),
         NEW m, m = k + 1, s[m].sev = "note", NEW i2, NEW i3, AtLast(s, i2, i3, m, K)
  PROVE  AllKept(s, any, hard, m, TRUE, Requeued(K, i3, m))
<1>. USE DEF Requeued
<1>10. /\ i2 \in K /\ i3 \in K /\ i3 < i2 /\ s[i3] = s[m]
       /\ \A x \in K : x < i3 \/ x = i3 \/ x = i2
  BY DEF AtLast
<1>1. \A h : h \in 1 .. m <=> h \in 1 .. k \/ h = m
  OBVIOUS
<1>2. K \subseteq 1 .. k /\ m \notin 1 .. k
  BY DEF AllKept, KeptOnly
<1>3. PICK i \in 1 .. k : Visible(s, any, hard, i) /\ Reaches(s, i, k)
  BY DEF AllKept, Noting
<1>4. Reaches(s, i, m) /\ Below(s, i, m)
  BY <1>3, NextReached
<1>5. i \in K /\ ~Visible(s, any, hard, i3) /\ ~Visible(s, any, hard, m)
  BY <1>3, <1>10 DEF AllKept, KeptOnly, Visible
<1>6. KeptOnly(s, any, hard, m, (K \ {i3}) \cup {m})
  BY <1>1, <1>3, <1>4, <1>5, <1>10 DEF AllKept, KeptOnly
<1>7. Noting(s, any, hard, m, TRUE)
  BY <1>1, <1>3, <1>4 DEF Noting
<1>8. ASSUME NEW g \in 1 .. k, Visible(s, any, hard, g), i3 <= g PROVE Below(s, g, m)
  <2>1. g \in K /\ g # i3
    BY <1>5, <1>8 DEF AllKept, KeptOnly
  <2>2. g = i2
    <3>1. i3 \in 1 .. k
      BY <1>2, <1>10
    <3>2. i3 <= g => ~(g < i3)
      BY ONLY <3>1, g \in 1 .. k, k \in Nat
    <3>. QED BY <1>8, <1>10, <2>1, <3>2
  <2>3. i = i2 \/ i < i2
    <3>1. i < i3 \/ i = i3 \/ i = i2
      BY <1>5, <1>10
    <3>. QED BY <1>2, <1>10, <3>1
  <2>4. i = i2
    <3>. SUFFICES ASSUME i < i2 PROVE FALSE
      BY <2>3
    <3>1. i2 \in i + 1 .. k
      BY <1>2, <1>3, <1>10
    <3>. QED BY <1>3, <1>8, <2>2, <3>1 DEF Reaches, Visible
  <2>. QED BY <1>4, <2>2, <2>4
<1>9. ASSUME NEW h \in 1 .. m, NEW j \in 1 .. m, Visible(s, any, hard, h), Below(s, h, j)
      PROVE  \E p \in (K \ {i3}) \cup {m} : FoundFor(s, any, hard, m, h, j, p)
  <2>1. CASE j = m
    BY <1>9, <2>1, NewFound
  <2>2. CASE j \in 1 .. k
    <3>1. h \in 1 .. k
      BY <1>9, <2>2 DEF Below
    <3>2. PICK p \in K : FoundFor(s, any, hard, k, h, j, p)
      BY <1>9, <2>2, <3>1 DEF AllKept, NotesFound
    <3>3. p \in 1 .. k
      BY <1>2
    <3>4. CASE p # i3
      BY <2>2, <3>1, <3>2, <3>3, <3>4, StillFound
    <3>5. CASE p = i3
      <4>1. s[m] = s[j] /\ j <= m
        BY <1>1, <1>9, <1>10, <2>2, <3>2, <3>5 DEF FoundFor
      <4>2. ASSUME NEW g \in 1 .. m, Visible(s, any, hard, g), h <= g, g < m
            PROVE  \E y \in 1 .. m : Below(s, g, y) /\ s[y] = s[j]
        <5>1. g \in 1 .. k
          BY <4>2
        <5>2. CASE g < i3
          <6>1. PICK y \in 1 .. k : Below(s, g, y) /\ s[y] = s[j]
            BY <3>2, <3>5, <4>2, <5>1, <5>2 DEF FoundFor
          <6>. QED BY <1>1, <6>1
        <5>3. CASE i3 <= g
          BY <1>1, <1>8, <4>1, <4>2, <5>1, <5>3
        <5>4. i3 \in 1 .. k
          BY <1>2, <1>10
        <5>5. g < i3 \/ i3 <= g
          BY ONLY <5>1, <5>4, k \in Nat
        <5>. QED BY ONLY <5>2, <5>3, <5>5
      <4>3. FoundFor(s, any, hard, m, h, j, m)
        BY <4>1, <4>2 DEF FoundFor
      <4>. QED BY <4>3
    <3>. QED BY <3>4, <3>5
  <2>. QED BY <1>1, <2>1, <2>2
<1>. QED BY <1>6, <1>7, <1>9 DEF AllKept, NotesFound

(***************************************************************************)
(* The lines that are messages: line p is about number g[p] of s.          *)
(***************************************************************************)
MessageLines(lines) == {p \in 1 .. Len(lines) : lines[p].what = "message"}
On(lines, g) == {g[p] : p \in MessageLines(lines)}
Lines(s, lines, g) ==
  /\ g \in [MessageLines(lines) -> 1 .. Len(s)]
  /\ \A p \in MessageLines(lines) : lines[p].entry = s[g[p]]
  /\ \A p, q \in MessageLines(lines) : p < q => g[p] < g[q]

\* Another message is printed.
LEMMA LinesGrow ==
  ASSUME NEW s, NEW lines, Len(lines) \in Nat, NEW more, Len(more) \in Nat, NEW g, Lines(s, lines, g), Len(s) \in Nat,
         NEW i \in 1 .. Len(s), NewLines(lines, more, s[i]), \A x \in On(lines, g) : x < i
  PROVE  \E f : Lines(s, more, f) /\ On(more, f) = On(lines, g) \cup {i}
<1>1. PICK a \in Nat, b \in Nat, z \in Nat : a = Len(lines) /\ b = Len(more) /\ z = Len(s)
  OBVIOUS
<1>2. a < b /\ \A p \in 1 .. a : more[p] = lines[p]
  BY <1>1 DEF NewLines
<1>3. PICK q \in a + 1 .. b : /\ more[q].what = "message" /\ more[q].entry = s[i]
                              /\ \A p \in a + 1 .. b : more[p].what = "message" => p = q
  BY <1>1 DEF NewLines
<1>4. q \in Nat /\ ~(q <= a) /\ q \in 1 .. b /\ \A p \in 1 .. a : p < q /\ p <= a /\ p \in 1 .. b
  BY <1>2
<1>5. \A p : p \in MessageLines(more) <=> p \in MessageLines(lines) \/ p = q
  <2>1. \A p \in 1 .. b : p \in 1 .. a \/ p \in a + 1 .. b
    OBVIOUS
  <2>. QED BY <1>1, <1>2, <1>3, <1>4, <2>1 DEF MessageLines
<1>6. MessageLines(lines) \subseteq 1 .. a
  BY <1>1 DEF MessageLines
<1>7. PICK f : f = [p \in MessageLines(more) |-> IF p <= a THEN g[p] ELSE i]
  OBVIOUS
<1>8. f[q] = i /\ \A p \in MessageLines(lines) : f[p] = g[p]
  BY <1>4, <1>5, <1>6, <1>7
<1>9. f \in [MessageLines(more) -> 1 .. z]
  <2>1. \A p \in MessageLines(more) : f[p] \in 1 .. z
    BY <1>1, <1>5, <1>8 DEF Lines
  <2>. QED BY <1>7, <2>1
<1>10. \A p \in MessageLines(more) : more[p].entry = s[f[p]]
  BY <1>2, <1>3, <1>5, <1>6, <1>8 DEF Lines
<1>11. ASSUME NEW p \in MessageLines(more), NEW r \in MessageLines(more), p < r PROVE f[p] < f[r]
  <2>1. CASE p \in MessageLines(lines) /\ r \in MessageLines(lines)
    BY <1>8, <1>11, <2>1 DEF Lines
  <2>2. CASE p \in MessageLines(lines) /\ r = q
    BY <1>8, <2>2 DEF On
  <2>3. p # q
    <3>. SUFFICES ASSUME p = q PROVE FALSE
      OBVIOUS
    <3>1. r \in 1 .. a \/ r = q
      BY <1>5, <1>6
    <3>. QED BY <1>4, <1>11, <3>1
  <2>. QED BY <1>5, <2>1, <2>2, <2>3
<1>12. On(more, f) = On(lines, g) \cup {i}
  <2>1. \A x : x \in On(more, f) <=> x \in On(lines, g) \/ x = i
    BY <1>5, <1>8 DEF On
  <2>. QED BY <2>1
<1>13. Lines(s, more, f)
  BY <1>1, <1>9, <1>10, <1>11 DEF Lines
<1>. QED BY <1>12, <1>13

\* What is printed, and the two that are queued
Waiting(s, i) == IF i = 0 THEN NoEntry ELSE s[i]
Lined(s, k, acc, g, i2, i3, K) ==
  /\ Lines(s, acc.out.lines, g)
  /\ i2 \in 0 .. k /\ i3 \in 0 .. k /\ (i3 # 0 => i3 < i2)
  /\ acc.err2 = Waiting(s, i2) /\ acc.err3 = Waiting(s, i3)
  /\ \A x \in On(acc.out.lines, g) : x < i3
  /\ K = ({i2, i3} \ {0}) \cup On(acc.out.lines, g)

\* err3 is printed, as the next one comes behind err2.
LEMMA QueueLines ==
  ASSUME Tree(nodes), NEW n \in Nat, n = Len(nodes), NEW s \in Seq(MessagesAt(n)), NEW k \in Nat, NEW m, m = k + 1,
         m <= Len(s), NEW acc \in Printing(n), NEW g, NEW i2, NEW i3, NEW K, Lined(s, k, acc, g, i2, i3, K),
         NEW o, NEW x, o.out = Before(acc, x), o.err3 = acc.err2, o.err2 = s[m]
  PROVE  \E f : Lined(s, m, o, f, m, i2, K \cup {m})
<1>1. PICK lines : lines = acc.out.lines /\ Len(lines) \in Nat
  BY DEF Printing, Outs
<1>2. PICK b : b = Before(acc, x)
  OBVIOUS
<1>3. /\ b \in Outs(n)
      /\ acc.err3 # NoEntry => Prints(b, acc.err3) /\ NewLines(acc.out.lines, b.lines, acc.err3)
      /\ acc.err3 = NoEntry => b = acc.out
      /\ \A y : Prints(acc.out, y) => Prints(b, y)
  BY ONLY <1>2, Tree(nodes), n \in Nat, n = Len(nodes), acc \in Printing(n), BeforeIs
<1>4. Len(b.lines) \in Nat
  BY <1>3 DEF Outs
<1>5. i2 \in 0 .. k /\ i3 \in 0 .. k /\ m \in 1 .. m /\ m # 0 /\ i2 \in 0 .. m /\ i2 < m
  BY DEF Lined
<1>6. \E f : Lines(s, b.lines, f) /\ On(b.lines, f) = ({i3} \ {0}) \cup On(lines, g)
  <2>1. CASE i3 = 0
    <3>1. b = acc.out
      BY <1>3, <2>1 DEF Lined, Waiting
    <3>. QED BY <1>1, <2>1, <3>1 DEF Lined
  <2>2. CASE i3 # 0
    <3>1. i3 \in 1 .. Len(s) /\ Len(s) \in Nat
      BY <1>5, <2>2
    <3>2. s[i3] \in MessagesAt(n) /\ acc.err3 = s[i3]
      BY <2>2, <3>1 DEF Lined, Waiting
    <3>3. acc.err3 # NoEntry
      BY <3>2, NoEntryIs
    <3>4. NewLines(lines, b.lines, s[i3])
      BY ONLY <1>1, <1>3, <3>2, <3>3
    <3>5. Lines(s, lines, g) /\ \A y \in On(lines, g) : y < i3
      BY <1>1 DEF Lined
    <3>6. PICK f : Lines(s, b.lines, f) /\ On(b.lines, f) = On(lines, g) \cup {i3}
      BY ONLY <1>1, <1>4, <3>1, <3>4, <3>5, LinesGrow
    <3>7. {i3} \ {0} = {i3}
      BY <2>2
    <3>. QED BY <3>6, <3>7
  <2>. QED BY <2>1, <2>2
<1>7. PICK f : Lines(s, b.lines, f) /\ On(b.lines, f) = ({i3} \ {0}) \cup On(lines, g)
  BY <1>6
<1>8. \A y \in On(b.lines, f) : y < i2
  <2>. SUFFICES ASSUME NEW y \in On(b.lines, f) PROVE y < i2
    OBVIOUS
  <2>1. CASE y = i3 /\ i3 # 0
    BY <2>1 DEF Lined
  <2>2. CASE y \in On(lines, g)
    <3>1. y < i3 /\ y \in 1 .. Len(s)
      BY <1>1, <2>2 DEF Lined, Lines, On
    <3>2. i3 # 0
      BY <3>1
    <3>3. i3 < i2
      BY <3>2 DEF Lined
    <3>. QED BY <1>5, <3>1, <3>3
  <2>. QED BY <1>7, <2>1, <2>2
<1>9. K \cup {m} = ({m, i2} \ {0}) \cup On(b.lines, f)
  <2>1. K = ({i2, i3} \ {0}) \cup On(lines, g)
    BY <1>1 DEF Lined
  <2>. QED BY <1>5, <1>7, <2>1
<1>10. o.err3 = Waiting(s, i2) /\ o.err2 = Waiting(s, m) /\ o.out = b
  BY <1>2, <1>5 DEF Lined, Waiting
<1>11. m \in 0 .. m /\ i2 \in 0 .. m
  BY <1>5
<1>. QED BY ONLY <1>5, <1>7, <1>8, <1>9, <1>10, <1>11 DEF Lined

\* err3 is dropped, as the same note comes behind err2.
LEMMA DropLines ==
  ASSUME NEW n \in Nat, NEW s \in Seq(MessagesAt(n)), NEW k \in Nat, NEW m, m = k + 1,
         m <= Len(s), NEW acc, NEW g, NEW i2, NEW i3, NEW K, Lined(s, k, acc, g, i2, i3, K),
         NEW o, o.out = acc.out, o.err3 = acc.err2, o.err2 = s[m], acc.err3 = s[m]
  PROVE  Lined(s, m, o, g, m, i2, Requeued(K, i3, m)) /\ AtLast(s, i2, i3, m, K)
<1>1. i2 \in 0 .. k /\ i3 \in 0 .. k /\ m \in 1 .. Len(s) /\ m # 0
  BY DEF Lined
<1>2. i3 # 0
  <2>1. s[m] # NoEntry
    BY <1>1, NoEntryIs
  <2>. QED BY <2>1 DEF Lined, Waiting
<1>3. i3 < i2 /\ s[i3] = s[m] /\ i2 # 0
  <2>1. i3 < i2
    BY <1>2 DEF Lined
  <2>. QED BY <1>1, <1>2, <2>1 DEF Lined, Waiting
<1>4. PICK L : L = On(acc.out.lines, g)
  OBVIOUS
<1>5. K = {i2, i3} \cup L /\ \A x \in L : x < i3
  BY <1>2, <1>3, <1>4 DEF Lined
<1>6. \A x \in L : x \in 1 .. Len(s)
  BY <1>4 DEF Lined, Lines, On
<1>7. Requeued(K, i3, m) = ({m, i2} \ {0}) \cup L
  <2>1. i3 # i2 /\ i3 \notin L
    BY <1>1, <1>3, <1>5
  <2>. QED BY <1>1, <1>3, <1>5, <2>1 DEF Requeued
<1>8. \A x \in L : x < i2
  <2>. SUFFICES ASSUME NEW x \in L PROVE x < i2
    OBVIOUS
  <2>1. x < i3 /\ x \in 1 .. Len(s)
    BY <1>5, <1>6
  <2>. QED BY <1>1, <1>3, <2>1
<1>9. m \in 0 .. m /\ i2 \in 0 .. m /\ i2 < m
  BY <1>1
<1>10. o.err3 = Waiting(s, i2) /\ o.err2 = Waiting(s, m) /\ o.out = acc.out
  BY <1>1 DEF Lined, Waiting
<1>11. Lines(s, acc.out.lines, g)
  BY DEF Lined
<1>12. Lined(s, m, o, g, m, i2, Requeued(K, i3, m))
  BY ONLY <1>4, <1>7, <1>8, <1>9, <1>10, <1>11 DEF Lined
<1>13. AtLast(s, i2, i3, m, K)
  BY <1>3, <1>5 DEF AtLast
<1>. QED BY ONLY <1>12, <1>13

\* What a turn of the loop does with the queue
Skips(acc, o) == o.out = acc.out /\ o.err2 = acc.err2 /\ o.err3 = acc.err3
Queues(acc, e, o) == o.err3 = acc.err2 /\ o.err2 = e /\ o.usenote = TRUE

\* What a turn of the loop does with an entry
Handled(acc, e, any, hard, o) ==
  IF e.sev # "note" /\ ~Hidden(e, any, hard) THEN Queues(acc, e, o) /\ o.out = Before(acc, acc.err2)
  ELSE IF e.sev = "note" /\ acc.usenote
       THEN Queues(acc, e, o) /\ o.out = IF acc.err3 = e THEN acc.out ELSE Before(acc, e)
       ELSE Skips(acc, o) /\ o.usenote = FALSE

\* A note that is used and a message that is shown come into the queue, and the others do not.
LEMMA StepQueues ==
  ASSUME NEW n \in Nat, NEW acc \in Printing(n), NEW e, NEW any \in BOOLEAN, NEW hard \in BOOLEAN,
         NEW o, o = Step(acc, e, any, hard)
  PROVE  Handled(acc, e, any, hard, o)
<1>1. PICK err2 \in MessagesAt(n) \cup {NoEntry}, err3 \in MessagesAt(n) \cup {NoEntry}, usenote \in BOOLEAN,
           errors \in Nat, warnings \in Nat, out \in Outs(n) :
        acc = [err2 |-> err2, err3 |-> err3, usenote |-> usenote, errors |-> errors, warnings |-> warnings, out |-> out]
  BY DEF Printing
<1>2. CASE e.sev = "note"
  <2>1. CASE ~usenote
    <3>1. o = acc
      BY <1>1, <1>2, <2>1 DEF Step
    <3>. QED BY <1>1, <1>2, <2>1, <3>1 DEF Skips, Handled
  <2>2. CASE usenote
    <3>1. PICK c : c = IF acc.err3 = e THEN acc.out ELSE Before(acc, e)
      OBVIOUS
    <3>2. o = [acc EXCEPT !.out = c, !.err3 = acc.err2, !.err2 = e]
      BY <1>1, <1>2, <2>2, <3>1 DEF Step, Before
    <3>3. o = [err2 |-> e, err3 |-> err2, usenote |-> usenote, errors |-> errors, warnings |-> warnings, out |-> c]
      BY ONLY <1>1, <3>2
    <3>. QED BY <1>1, <1>2, <2>2, <3>1, <3>3 DEF Queues, Handled
  <2>. QED BY <2>1, <2>2
<1>3. CASE e.sev # "note"
  <2>1. PICK w, k : /\ w = acc.warnings + (IF e.sev = "warning" THEN 1 ELSE 0)
                    /\ k = acc.errors + (IF e.sev = "warning" \/ Hidden(e, any, hard) THEN 0 ELSE 1)
    OBVIOUS
  <2>2. PICK counted : counted = [acc EXCEPT !.warnings = w, !.errors = k]
    OBVIOUS
  <2>3. counted = [err2 |-> err2, err3 |-> err3, usenote |-> usenote, errors |-> k, warnings |-> w, out |-> out]
    BY ONLY <1>1, <2>2
  <2>4. o = IF Hidden(e, any, hard) THEN [counted EXCEPT !.usenote = FALSE]
            ELSE [counted EXCEPT !.out = Before(acc, acc.err2), !.err3 = acc.err2, !.err2 = e, !.usenote = TRUE]
    <3>1. counted = [acc EXCEPT !.warnings = @ + (IF e.sev = "warning" THEN 1 ELSE 0),
                                !.errors = @ + (IF e.sev = "warning" \/ Hidden(e, any, hard) THEN 0 ELSE 1)]
      BY ONLY <1>1, <2>1, <2>2
    <3>. QED BY <1>3, <3>1 DEF Step, Hidden, Before
  <2>5. CASE Hidden(e, any, hard)
    <3>1. o = [err2 |-> err2, err3 |-> err3, usenote |-> FALSE, errors |-> k, warnings |-> w, out |-> out]
      BY ONLY <2>3, <2>4, <2>5
    <3>. QED BY <1>1, <1>3, <2>5, <3>1 DEF Skips, Handled
  <2>6. CASE ~Hidden(e, any, hard)
    <3>1. PICK b : b = Before(acc, acc.err2)
      OBVIOUS
    <3>2. o = [err2 |-> e, err3 |-> err2, usenote |-> TRUE, errors |-> k, warnings |-> w, out |-> b]
      BY ONLY <1>1, <2>3, <2>4, <2>6, <3>1
    <3>. QED BY <1>1, <1>3, <2>6, <3>1, <3>2 DEF Queues, Handled
  <2>. QED BY <2>5, <2>6
<1>. QED BY <1>2, <1>3

\* How many count as errors
CountedIn(s, any, hard, k) == {j \in 1 .. k : Counts(s[j], any, hard)}

\* One more is counted if it is an error that is shown.
LEMMA OneMoreCounted ==
  ASSUME NEW k \in Nat, NEW m, m = k + 1, NEW s, NEW any, NEW hard
  PROVE  /\ Cardinality(CountedIn(s, any, hard, m)) =
              Cardinality(CountedIn(s, any, hard, k)) + (IF Counts(s[m], any, hard) THEN 1 ELSE 0)
         /\ Cardinality(CountedIn(s, any, hard, k)) \in Nat
<1>1. IsFiniteSet(1 .. k) /\ CountedIn(s, any, hard, k) \subseteq 1 .. k
  <2>1. IsFiniteSet(1 .. k)
    BY FS_Interval
  <2>. QED BY <2>1 DEF CountedIn
<1>2. PICK C : C = CountedIn(s, any, hard, k)
  OBVIOUS
<1>3. IsFiniteSet(C) /\ Cardinality(C) \in Nat
  <2>1. IsFiniteSet(C)
    BY <1>1, <1>2, FS_Subset
  <2>. QED BY <2>1, FS_CardinalityType
<1>4. m \notin C
  BY <1>1, <1>2
<1>5. \A j : j \in 1 .. m <=> j \in 1 .. k \/ j = m
  OBVIOUS
<1>6. CASE Counts(s[m], any, hard)
  <2>1. CountedIn(s, any, hard, m) = C \cup {m}
    BY <1>2, <1>5, <1>6 DEF CountedIn
  <2>2. Cardinality(C \cup {m}) = Cardinality(C) + 1
    BY <1>3, <1>4, FS_AddElement
  <2>. QED BY <1>2, <1>3, <1>6, <2>1, <2>2
<1>7. CASE ~Counts(s[m], any, hard)
  <2>1. CountedIn(s, any, hard, m) = C
    BY <1>2, <1>5, <1>7 DEF CountedIn
  <2>. QED BY <1>2, <1>3, <1>7, <2>1
<1>. QED BY <1>6, <1>7

\* What the loop has done with the first k
Tracked(s, any, hard, k, acc) ==
  /\ acc.errors = Cardinality(CountedIn(s, any, hard, k))
  /\ \E g, i2, i3, K : Lined(s, k, acc, g, i2, i3, K) /\ AllKept(s, any, hard, k, acc.usenote, K)

\* A turn of the loop keeps it.
LEMMA TrackedNext ==
  ASSUME Tree(nodes), NEW n \in Nat, n = Len(nodes), NEW s \in Seq(MessagesAt(n)), NEW k \in Nat, NEW m, m = k + 1,
         m <= Len(s), NEW any \in BOOLEAN, NEW hard \in BOOLEAN, NEW acc \in Printing(n), Tracked(s, any, hard, k, acc),
         NEW e, e = s[m], NEW o, o = Step(acc, e, any, hard)
  PROVE  Tracked(s, any, hard, m, o)
<1>1. PICK g, i2, i3, K : Lined(s, k, acc, g, i2, i3, K) /\ AllKept(s, any, hard, k, acc.usenote, K)
  BY DEF Tracked
<1>2. e \in MessagesAt(n) /\ m \in 1 .. Len(s) /\ acc.usenote \in BOOLEAN
  BY DEF Printing
<1>3. o.errors = Cardinality(CountedIn(s, any, hard, m))
  <2>2. PICK x \in MessagesAt(n) : x = e
    BY <1>2
  <2>3. o = Step(acc, x, any, hard)
    BY <2>2
  <2>4. /\ o \in Printing(n)
        /\ o.errors = acc.errors + (IF Counts(x, any, hard) THEN 1 ELSE 0)
        /\ \A y \in MessagesAt(n) : y.sev # "note" /\ Waits(acc, y) => Waits(o, y)
        /\ x.sev # "note" /\ ~Hidden(x, any, hard) => Waits(o, x)
    BY ONLY <2>3, x \in MessagesAt(n), Tree(nodes), n \in Nat, n = Len(nodes), acc \in Printing(n), any \in BOOLEAN, hard \in BOOLEAN, StepIs
  <2>1. o.errors = acc.errors + (IF Counts(e, any, hard) THEN 1 ELSE 0)
    BY <2>2, <2>4
  <2>. QED BY <2>1, OneMoreCounted DEF Tracked
<1>4. IF e.sev # "note" /\ ~Hidden(e, any, hard) THEN Queues(acc, e, o) /\ o.out = Before(acc, acc.err2)
      ELSE IF e.sev = "note" /\ acc.usenote
           THEN Queues(acc, e, o) /\ o.out = IF acc.err3 = e THEN acc.out ELSE Before(acc, e)
           ELSE Skips(acc, o) /\ o.usenote = FALSE
  <2>1. Handled(acc, e, any, hard, o)
    BY ONLY n \in Nat, acc \in Printing(n), any \in BOOLEAN, hard \in BOOLEAN, o = Step(acc, e, any, hard), StepQueues
  <2>. QED BY ONLY <2>1 DEF Handled
<1>5. Visible(s, any, hard, m) <=> e.sev # "note" /\ ~Hidden(e, any, hard)
  BY DEF Visible
<1>6. ASSUME Queues(acc, e, o), NEW x, o.out = Before(acc, x), Visible(s, any, hard, m) \/ (e.sev = "note" /\ acc.usenote)
      PROVE  \E f, j2, j3, L : Lined(s, m, o, f, j2, j3, L) /\ AllKept(s, any, hard, m, o.usenote, L)
  <2>1. o.err3 = acc.err2 /\ o.err2 = s[m] /\ o.usenote = TRUE
    BY <1>6 DEF Queues
  <2>2. \E f : Lined(s, m, o, f, m, i2, K \cup {m})
    BY ONLY <1>1, <1>6, <2>1, Tree(nodes), n \in Nat, n = Len(nodes), s \in Seq(MessagesAt(n)), k \in Nat, m = k + 1,
            m <= Len(s), acc \in Printing(n), QueueLines
  <2>3. AllKept(s, any, hard, m, TRUE, K \cup {m})
    BY ONLY <1>1, <1>2, <1>6, k \in Nat, m = k + 1, e = s[m], WholeKeeps
  <2>. QED BY ONLY <2>1, <2>2, <2>3
<1>7. ASSUME Queues(acc, e, o), o.out = acc.out, acc.err3 = e, e.sev = "note", acc.usenote
      PROVE  \E f, j2, j3, L : Lined(s, m, o, f, j2, j3, L) /\ AllKept(s, any, hard, m, o.usenote, L)
  <2>1. o.err3 = acc.err2 /\ o.err2 = s[m] /\ o.usenote = TRUE /\ acc.err3 = s[m]
    BY <1>7 DEF Queues
  <2>2. Lined(s, m, o, g, m, i2, Requeued(K, i3, m)) /\ AtLast(s, i2, i3, m, K)
    BY ONLY <1>1, <1>7, <2>1, n \in Nat, s \in Seq(MessagesAt(n)), k \in Nat, m = k + 1, m <= Len(s), DropLines
  <2>3. acc.usenote = TRUE /\ s[m].sev = "note"
    BY <1>2, <1>7
  <2>4. AllKept(s, any, hard, k, TRUE, K)
    BY ONLY <1>1, <2>3
  <2>5. AllKept(s, any, hard, m, TRUE, Requeued(K, i3, m))
    BY ONLY <2>2, <2>3, <2>4, k \in Nat, m = k + 1, WholeDrops
  <2>. QED BY ONLY <2>1, <2>2, <2>5
<1>8. ASSUME Skips(acc, o), o.usenote = FALSE, ~Visible(s, any, hard, m), e.sev = "note" => ~acc.usenote
      PROVE  \E f, j2, j3, L : Lined(s, m, o, f, j2, j3, L) /\ AllKept(s, any, hard, m, o.usenote, L)
  <2>1. AllKept(s, any, hard, m, FALSE, K)
    BY ONLY <1>1, <1>2, <1>8, k \in Nat, m = k + 1, e = s[m], WholeSkips
  <2>2. 0 .. k \subseteq 0 .. m
    OBVIOUS
  <2>3. Lined(s, m, o, g, i2, i3, K)
    BY ONLY <1>1, <1>8, <2>2 DEF Lined, Skips
  <2>. QED BY ONLY <1>8, <2>1, <2>3
<1>9. \E f, j2, j3, L : Lined(s, m, o, f, j2, j3, L) /\ AllKept(s, any, hard, m, o.usenote, L)
  <2>1. CASE Visible(s, any, hard, m)
    <3>1. Queues(acc, e, o) /\ o.out = Before(acc, acc.err2)
      BY ONLY <1>4, <1>5, <2>1
    <3>. QED BY ONLY <1>6, <2>1, <3>1
  <2>2. CASE e.sev = "note" /\ acc.usenote
    <3>1. Queues(acc, e, o) /\ o.out = IF acc.err3 = e THEN acc.out ELSE Before(acc, e)
      BY ONLY <1>4, <2>2
    <3>. QED BY ONLY <1>6, <1>7, <2>2, <3>1
  <2>3. CASE ~Visible(s, any, hard, m) /\ ~(e.sev = "note" /\ acc.usenote)
    <3>1. Skips(acc, o) /\ o.usenote = FALSE
      BY ONLY <1>4, <1>5, <2>3
    <3>. QED BY ONLY <1>8, <2>3, <3>1
  <2>. QED BY ONLY <2>1, <2>2, <2>3
<1>. QED BY ONLY <1>3, <1>9 DEF Tracked

\* At first nothing is printed.
Unprinted ==
  [err2 |-> NoEntry, err3 |-> NoEntry, usenote |-> FALSE, errors |-> 0, warnings |-> 0,
   out |-> [from |-> Root, lines |-> <<>>]]

\* It is so before the first turn.
LEMMA TrackedFirst ==
  ASSUME NEW s, NEW any, NEW hard, NEW acc, acc = Unprinted
  PROVE  Tracked(s, any, hard, 0, acc)
<1>1. /\ acc.out.lines = <<>> /\ acc.err2 = NoEntry /\ acc.err3 = NoEntry /\ acc.errors = 0 /\ acc.usenote = FALSE
  BY DEF Unprinted
<1>2. MessageLines(acc.out.lines) = {} /\ 0 \in 0 .. 0 /\ 1 .. 0 = {}
  BY <1>1 DEF MessageLines
<1>3. PICK g : g = [p \in {} |-> 0]
  OBVIOUS
<1>4. Lined(s, 0, acc, g, 0, 0, {})
  <2>1. On(acc.out.lines, g) = {}
    BY <1>2 DEF On
  <2>2. Lines(s, acc.out.lines, g)
    BY <1>2, <1>3 DEF Lines
  <2>. QED BY <1>1, <1>2, <2>1, <2>2 DEF Lined, Waiting
<1>5. AllKept(s, any, hard, 0, FALSE, {})
  BY <1>2 DEF AllKept, KeptOnly, Noting, NotesFound
<1>6. CountedIn(s, any, hard, 0) = {} /\ Cardinality({}) = 0
  BY <1>2, FS_EmptySet DEF CountedIn
<1>. QED BY <1>1, <1>4, <1>5, <1>6 DEF Tracked

\* At last all that is queued is printed.
Remaining(end) ==
  LET third == IF end.err3 = NoEntry THEN end.out
               ELSE print_error(end.out, end.err3, ~SamePlace(end.err2, end.err3))
  IN IF end.err2 = NoEntry THEN third ELSE print_error(third, end.err2, TRUE)
PrintsAll(s, any, hard, lines) ==
  /\ Len(lines) \in Nat /\ DOMAIN lines = 1 .. Len(lines)
  /\ \E g, usenote : Lines(s, lines, g) /\ AllKept(s, any, hard, Len(s), usenote, On(lines, g))

\* After the last turn the queue is printed, and all that was kept is there.
LEMMA TrackedLast ==
  ASSUME Tree(nodes), NEW n \in Nat, n = Len(nodes), NEW s \in Seq(MessagesAt(n)), NEW any, NEW hard,
         NEW acc \in Printing(n), Tracked(s, any, hard, Len(s), acc), NEW o, o = Remaining(acc)
  PROVE  PrintsAll(s, any, hard, o.lines)
<1>1. PICK k \in Nat : k = Len(s)
  OBVIOUS
<1>2. PICK g, i2, i3, K : Lined(s, k, acc, g, i2, i3, K) /\ AllKept(s, any, hard, k, acc.usenote, K)
  BY <1>1 DEF Tracked
<1>3. PICK b : b = Before(acc, acc.err2)
  OBVIOUS
<1>4. o = IF acc.err2 = NoEntry THEN b ELSE print_error(b, acc.err2, TRUE)
  BY <1>3 DEF Remaining, Before
<1>5. i2 \in 0 .. k /\ i3 \in 0 .. k /\ (i3 # 0 => i3 < i2)
  BY <1>2 DEF Lined
<1>6. CASE i2 = 0
  <2>1. i3 = 0
    BY <1>5, <1>6
  <2>2. acc.err2 = NoEntry /\ acc.err3 = NoEntry
    BY <1>2, <1>6, <2>1 DEF Lined, Waiting
  <2>3. o = acc.out
    BY <1>3, <1>4, <2>2 DEF Before
  <2>4. Lines(s, acc.out.lines, g) /\ K = On(acc.out.lines, g)
    BY <1>2, <1>6, <2>1 DEF Lined
  <2>5. Len(o.lines) \in Nat /\ DOMAIN o.lines = 1 .. Len(o.lines)
    BY <2>3 DEF Printing, Outs
  <2>. QED BY ONLY <1>1, <1>2, <2>3, <2>4, <2>5 DEF PrintsAll
<1>7. CASE i2 # 0
  <2>1. i2 \in 1 .. k /\ i2 \in 1 .. Len(s)
    BY <1>1, <1>5, <1>7
  <2>2. s[i2] \in MessagesAt(n) /\ acc.err2 = s[i2] /\ s[i2] # NoEntry
    BY <1>2, <1>7, <2>1, NoEntryIs DEF Lined, Waiting
  <2>3. PICK m : m = k + 1
    OBVIOUS
  <2>4. PICK x : x = acc.err2
    OBVIOUS
  <2>5. /\ b \in Outs(n)
        /\ acc.err3 # NoEntry => Prints(b, acc.err3) /\ NewLines(acc.out.lines, b.lines, acc.err3)
        /\ acc.err3 = NoEntry => b = acc.out
        /\ \A y : Prints(acc.out, y) => Prints(b, y)
    BY ONLY <1>3, Tree(nodes), n \in Nat, n = Len(nodes), acc \in Printing(n), BeforeIs
  <2>6. Len(acc.out.lines) \in Nat /\ Len(b.lines) \in Nat /\ Len(s) \in Nat
    BY <2>5 DEF Printing, Outs
  <2>7. \E f : Lines(s, b.lines, f) /\ On(b.lines, f) = ({i3} \ {0}) \cup On(acc.out.lines, g)
    <3>1. CASE i3 = 0
      <4>1. b = acc.out
        BY <1>2, <2>5, <3>1 DEF Lined, Waiting
      <4>. QED BY <1>2, <3>1, <4>1 DEF Lined
    <3>2. CASE i3 # 0
      <4>1. i3 \in 1 .. Len(s)
        BY <1>1, <1>5, <3>2
      <4>2. acc.err3 = s[i3] /\ s[i3] \in MessagesAt(n)
        BY <1>2, <3>2, <4>1 DEF Lined, Waiting
      <4>3. NewLines(acc.out.lines, b.lines, s[i3])
        BY ONLY <2>5, <4>2, NoEntryIs
      <4>4. Lines(s, acc.out.lines, g) /\ \A y \in On(acc.out.lines, g) : y < i3
        BY <1>2 DEF Lined
      <4>5. PICK f : Lines(s, b.lines, f) /\ On(b.lines, f) = On(acc.out.lines, g) \cup {i3}
        BY ONLY <2>6, <4>1, <4>3, <4>4, LinesGrow
      <4>6. {i3} \ {0} = {i3}
        BY <3>2
      <4>. QED BY <4>5, <4>6
    <3>. QED BY <3>1, <3>2
  <2>8. PICK f : Lines(s, b.lines, f) /\ On(b.lines, f) = ({i3} \ {0}) \cup On(acc.out.lines, g)
    BY <2>7
  <2>9. \A y \in On(b.lines, f) : y < i2
    <3>. SUFFICES ASSUME NEW y \in On(b.lines, f) PROVE y < i2
      OBVIOUS
    <3>1. CASE y = i3 /\ i3 # 0
      BY <1>5, <3>1
    <3>2. CASE y \in On(acc.out.lines, g)
      <4>1. y < i3 /\ y \in 1 .. Len(s)
        BY <1>2, <3>2 DEF Lined, Lines, On
      <4>2. i3 # 0
        BY <4>1, <1>5
      <4>. QED BY <1>1, <1>5, <4>1, <4>2
    <3>. QED BY <2>8, <3>1, <3>2
  <2>10. PICK caret \in BOOLEAN : caret = TRUE
    OBVIOUS
  <2>11. o = print_error(b, s[i2], caret)
    BY <1>4, <2>2, <2>10
  <2>12. o \in Outs(n) /\ NewLines(b.lines, o.lines, s[i2])
    <3>1. /\ o \in Outs(n) /\ Prints(o, s[i2]) /\ \A y : Prints(b, y) => Prints(o, y)
          /\ NewLines(b.lines, o.lines, s[i2])
      BY ONLY <2>2, <2>5, <2>11, Tree(nodes), n \in Nat, n = Len(nodes), caret \in BOOLEAN, PrintErrorIs
    <3>. QED BY <3>1
  <2>13. Len(o.lines) \in Nat /\ DOMAIN o.lines = 1 .. Len(o.lines)
    BY <2>12 DEF Outs
  <2>14. PICK h : Lines(s, o.lines, h) /\ On(o.lines, h) = On(b.lines, f) \cup {i2}
    <3>1. Lines(s, b.lines, f) /\ Len(b.lines) \in Nat /\ Len(s) \in Nat /\ i2 \in 1 .. Len(s)
      BY <2>1, <2>6, <2>8
    <3>2. NewLines(b.lines, o.lines, s[i2])
      BY <2>12
    <3>. QED BY ONLY <2>9, <2>13, <3>1, <3>2, LinesGrow
  <2>15. K = On(o.lines, h)
    <3>1. K = ({i2, i3} \ {0}) \cup On(acc.out.lines, g)
      BY <1>2 DEF Lined
    <3>. QED BY <1>7, <2>8, <2>14, <3>1
  <2>. QED BY ONLY <1>1, <1>2, <2>13, <2>14, <2>15 DEF PrintsAll
<1>. QED BY <1>6, <1>7

\* The loop as a fold
HardIn(shown) == \E e \in ToSet(shown) : e.sev \in {"error", "fatal"}
AnyIn(shown) == HardIn(shown) \/ \E e \in ToSet(shown) : e.sev = "none error"
PrintFold(shown) == FoldLeft(LAMBDA acc, e : Step(acc, e, AnyIn(shown), HardIn(shown)), Unprinted, shown)
PrintedUpTo(n, shown, i, acc) ==
  /\ acc \in Printing(n)
  /\ acc.errors > 0 <=> \E k \in 1 .. i : Counts(shown[k], AnyIn(shown), HardIn(shown))
  /\ \A k \in 1 .. i : shown[k].sev # "note" /\ ~Hidden(shown[k], AnyIn(shown), HardIn(shown)) => Waits(acc, shown[k])
  /\ Tracked(shown, AnyIn(shown), HardIn(shown), i, acc)

\* The loop of error_print goes through the messages one by one.
LEMMA PrintFoldIs ==
  ASSUME Tree(nodes), NEW n \in Nat, n = Len(nodes), NEW shown \in Seq(MessagesAt(n))
  PROVE  PrintedUpTo(n, shown, Len(shown), PrintFold(shown))
<1>. DEFINE m == Len(shown)
            any == AnyIn(shown)
            hard == HardIn(shown)
            Acc == Printing(n)
            step == [x \in (1 .. m) \X Acc |-> Step(x[2], shown[x[1]], any, hard)]
            F(h) == h = [S \in SUBSET (DOMAIN shown) |->
                           IF S = {} THEN Unprinted ELSE Step(h[S \ {Max(S)}], shown[Max(S)], any, hard)]
<1>1. m \in Nat /\ DOMAIN shown = 1 .. m
  OBVIOUS
<1>2. any \in BOOLEAN /\ hard \in BOOLEAN
  BY DEF AnyIn, HardIn
<1>3. PrintFold(shown) = (CHOOSE h : F(h))[DOMAIN shown]
  BY DEF PrintFold, FoldLeft, MapThenFoldSet
<1>. HIDE DEF any, hard
<1>4. step \in [(1 .. m) \X Acc -> Acc]
  <2>1. \A x \in (1 .. m) \X Acc : Step(x[2], shown[x[1]], any, hard) \in Acc
    <3>. SUFFICES ASSUME NEW i \in 1 .. m, NEW c \in Acc PROVE Step(c, shown[i], any, hard) \in Acc
      OBVIOUS
    <3>1. shown[i] \in MessagesAt(n)
      OBVIOUS
    <3>. QED BY <1>2, <3>1, StepIs
  <2>. QED BY <2>1
<1>5. \A i \in 1 .. m : \A c \in Acc : step[<<i, c>>] = Step(c, shown[i], any, hard)
  OBVIOUS
<1>. HIDE DEF step, Acc
<1>6. Unprinted \in Acc
  <2>1. <<>> \in Seq(PrintLines(n))
    BY ONLY EmptySeq
  <2>2. [from |-> Root, lines |-> <<>>] \in Outs(n)
    BY <2>1 DEF Outs, Root
  <2>. QED BY <2>2 DEF Acc, Printing, Unprinted
<1>7. \E h : F(h)
  <2>1. PICK h : FoldedBy(m, Acc, Unprinted, step, h)
    <3>1. m \in Nat
      BY <1>1
    <3>. HIDE DEF F, m
    <3>. QED BY ONLY <3>1, <1>4, <1>6, FoldedValues
  <2>2. \A S \in SUBSET (1 .. m) :
          h[S] = IF S = {} THEN Unprinted ELSE Step(h[S \ {Max(S)}], shown[Max(S)], any, hard)
    BY <1>5, <2>1 DEF FoldedBy
  <2>. QED BY <1>1, <2>1, <2>2 DEF FoldedBy
<1>8. PICK h : h = CHOOSE f : F(f)
  OBVIOUS
<1>9. F(h)
  <2>. HIDE DEF F
  <2>. QED BY <1>7, <1>8
<1>10. \A S \in SUBSET (1 .. m) :
         h[S] = IF S = {} THEN Unprinted ELSE Step(h[S \ {Max(S)}], shown[Max(S)], any, hard)
  <2>. SUFFICES ASSUME NEW S \in SUBSET (1 .. m)
                PROVE  h[S] = IF S = {} THEN Unprinted ELSE Step(h[S \ {Max(S)}], shown[Max(S)], any, hard)
    OBVIOUS
  <2>. QED BY <1>1, <1>9
<1>11. PrintFold(shown) = h[1 .. m]
  BY ONLY <1>1, <1>3, <1>8
<1>. HIDE DEF F
<1>12. h[{}] = Unprinted
  <2>1. {} \in SUBSET (1 .. m)
    OBVIOUS
  <2>. QED BY <1>10, <2>1
<1>13. \A S \in SUBSET (1 .. m) :
         S # {} /\ h[S \ {Max(S)}] \in Acc => h[S] = step[<<Max(S), h[S \ {Max(S)}]>>]
  <2>. SUFFICES ASSUME NEW S \in SUBSET (1 .. m), S # {}, h[S \ {Max(S)}] \in Acc
                PROVE  h[S] = step[<<Max(S), h[S \ {Max(S)}]>>]
    OBVIOUS
  <2>1. Max(S) \in S
    BY ONLY Largest, <1>1, S \in SUBSET (1 .. m), S # {}
  <2>. QED BY <1>5, <1>10, <2>1
<1>14. PICK r : FoldRuns(m, Acc, Unprinted, step, h, r)
  <2>1. m \in Nat
    BY <1>1
  <2>. HIDE DEF m
  <2>. QED BY ONLY <2>1, <1>4, <1>6, <1>12, <1>13, FoldThrough
<1>. DEFINE T == {i \in Nat : i <= m => PrintedUpTo(n, shown, i, r[i])}
<1>15. 0 \in T
  <2>1. r[0] = Unprinted /\ r[0] \in Printing(n) /\ Unprinted.errors = 0
    BY <1>6, <1>14 DEF FoldRuns, Acc, Unprinted
  <2>2. Tracked(shown, AnyIn(shown), HardIn(shown), 0, Unprinted)
    BY TrackedFirst
  <2>. QED BY <2>1, <2>2 DEF PrintedUpTo
<1>16. ASSUME NEW i \in Nat, i \in T PROVE i + 1 \in T
  <2>. SUFFICES ASSUME i + 1 <= m PROVE PrintedUpTo(n, shown, i + 1, r[i + 1])
    OBVIOUS
  <2>1. i + 1 \in 1 .. m /\ (i + 1) - 1 = i /\ i <= m
    BY <1>1
  <2>2. PICK c : c = r[i]
    OBVIOUS
  <2>3. PrintedUpTo(n, shown, i, c)
    BY <1>16, <2>1, <2>2
  <2>4. c \in Printing(n) /\ c.errors \in Nat
    BY <2>3 DEF PrintedUpTo, Printing
  <2>5. PICK x \in MessagesAt(n) : x = shown[i + 1]
    BY <2>1
  <2>6. PICK o : o = Step(c, x, any, hard)
    OBVIOUS
  <2>7. r[i + 1] = o
    <3>1. r[i + 1] = step[<<i + 1, c>>]
      BY <1>14, <2>1, <2>2 DEF FoldRuns
    <3>. QED BY <1>5, <2>1, <2>4, <2>5, <2>6, <3>1 DEF Acc
  <2>8. /\ o \in Printing(n)
        /\ o.errors = c.errors + (IF Counts(x, any, hard) THEN 1 ELSE 0)
        /\ \A y \in MessagesAt(n) : y.sev # "note" /\ Waits(c, y) => Waits(o, y)
        /\ x.sev # "note" /\ ~Hidden(x, any, hard) => Waits(o, x)
    BY ONLY <1>2, <2>4, <2>6, x \in MessagesAt(n), Tree(nodes), n \in Nat, n = Len(nodes), StepIs
  <2>9. \A k : k \in 1 .. i + 1 <=> k \in 1 .. i \/ k = i + 1
    OBVIOUS
  <2>10. o.errors > 0 <=> \E k \in 1 .. i + 1 : Counts(shown[k], any, hard)
    <3>1. o.errors > 0 <=> c.errors > 0 \/ Counts(x, any, hard)
      BY <2>4, <2>8
    <3>2. c.errors > 0 <=> \E k \in 1 .. i : Counts(shown[k], any, hard)
      BY <2>3 DEF PrintedUpTo, any, hard
    <3>. QED BY <2>5, <2>9, <3>1, <3>2
  <2>11. ASSUME NEW k \in 1 .. i + 1, shown[k].sev # "note", ~Hidden(shown[k], any, hard)
         PROVE  Waits(o, shown[k])
    <3>1. CASE k \in 1 .. i
      <4>1. Waits(c, shown[k])
        BY <2>3, <2>11, <3>1 DEF PrintedUpTo, any, hard
      <4>2. shown[k] \in MessagesAt(n)
        BY <2>1, <3>1
      <4>. QED BY <2>8, <2>11, <4>1, <4>2
    <3>2. CASE k = i + 1
      BY <2>5, <2>8, <2>11, <3>2
    <3>. QED BY <2>9, <3>1, <3>2
  <2>12. Tracked(shown, any, hard, i + 1, o)
    <3>1. Tracked(shown, any, hard, i, c)
      BY <2>3 DEF PrintedUpTo, any, hard
    <3>2. PICK j : j = i + 1
      OBVIOUS
    <3>3. j = i + 1 /\ j <= Len(shown) /\ x = shown[j] /\ c \in Printing(n)
      BY <2>1, <2>4, <2>5, <3>2
    <3>4. Tracked(shown, any, hard, j, o)
      BY ONLY <1>2, <2>6, <3>1, <3>3, i \in Nat, Tree(nodes), n \in Nat, n = Len(nodes), shown \in Seq(MessagesAt(n)), TrackedNext
    <3>. QED BY <3>2, <3>4
  <2>. QED BY <2>7, <2>8, <2>10, <2>11, <2>12 DEF PrintedUpTo, any, hard
<1>17. \A i \in Nat : i \in T
  <2>. HIDE DEF T
  <2>. QED BY <1>15, <1>16, Inductive
<1>18. PrintedUpTo(n, shown, m, r[m])
  BY <1>1, <1>17
<1>. QED BY <1>11, <1>14, <1>18 DEF FoldRuns

\* error_print counts an error if and only if there is one, and prints all that are fatal.
LEMMA ErrorPrintIs ==
  ASSUME Tree(nodes), NEW n \in Nat, n = Len(nodes), NEW shown \in Seq(MessagesAt(n)), NEW p, p = error_print(shown)
  PROVE  /\ p.errors > 0 <=> \E e \in ToSet(shown) : e.sev \in Faulty
         /\ \A e \in ToSet(shown) : e.sev = "fatal" => \E l \in ToSet(p.lines) : l.what = "message" /\ l.entry = e
         /\ PrintsAll(shown, AnyIn(shown), HardIn(shown), p.lines)
         /\ p.errors = Cardinality(CountedIn(shown, AnyIn(shown), HardIn(shown), Len(shown)))
<1>1. PICK end : end = PrintFold(shown)
  OBVIOUS
<1>2. PrintedUpTo(n, shown, Len(shown), end)
  BY <1>1, PrintFoldIs
<1>3. end \in Printing(n) /\ end.err2 \in MessagesAt(n) \cup {NoEntry}
  BY <1>2 DEF PrintedUpTo, Printing
<1>4. PICK third : third = Before(end, end.err2)
  OBVIOUS
<1>5. /\ third \in Outs(n)
      /\ end.err3 # NoEntry => Prints(third, end.err3)
      /\ \A x : Prints(end.out, x) => Prints(third, x)
  BY ONLY <1>3, <1>4, Tree(nodes), n \in Nat, n = Len(nodes), BeforeIs
<1>6. PICK last : last = IF end.err2 = NoEntry THEN third ELSE print_error(third, end.err2, TRUE)
  OBVIOUS
<1>7. /\ end.err2 # NoEntry => Prints(last, end.err2)
      /\ \A x : Prints(third, x) => Prints(last, x)
  <2>1. CASE end.err2 = NoEntry
    BY <1>6, <2>1
  <2>2. CASE end.err2 # NoEntry
    <3>1. end.err2 \in MessagesAt(n) /\ last = print_error(third, end.err2, TRUE)
      BY <1>3, <1>6, <2>2
    <3>2. PICK caret \in BOOLEAN : caret = TRUE
      OBVIOUS
    <3>4. last = print_error(third, end.err2, caret)
      BY ONLY <3>1, <3>2
    <3>3. Prints(last, end.err2) /\ \A x : Prints(third, x) => Prints(last, x)
      BY ONLY <1>5, <3>1, <3>4, caret \in BOOLEAN, Tree(nodes), n \in Nat, n = Len(nodes), PrintErrorIs
    <3>. QED BY <3>3
  <2>. QED BY <2>1, <2>2
<1>8. p.lines = last.lines /\ p.errors = end.errors
  BY <1>1, <1>4, <1>6 DEF error_print, PrintFold, Before, AnyIn, HardIn, Unprinted
<1>9. \A e : e \in ToSet(shown) <=> \E k \in 1 .. Len(shown) : shown[k] = e
  BY ToSetIs
<1>10. \A e \in ToSet(shown) : e \in MessagesAt(n) /\ e.sev \in Severities
  <2>. SUFFICES ASSUME NEW e \in ToSet(shown) PROVE e \in MessagesAt(n) /\ e.sev \in Severities
    OBVIOUS
  <2>1. PICK k \in 1 .. Len(shown) : shown[k] = e
    BY <1>9
  <2>2. e \in MessagesAt(n)
    BY <2>1
  <2>. QED BY <2>2 DEF MessagesAt
<1>11. p.errors > 0 <=> \E e \in ToSet(shown) : e.sev \in Faulty
  <2>1. p.errors > 0 <=> \E e \in ToSet(shown) : Counts(e, AnyIn(shown), HardIn(shown))
    BY <1>2, <1>8, <1>9 DEF PrintedUpTo
  <2>2. ASSUME NEW e \in ToSet(shown), Counts(e, AnyIn(shown), HardIn(shown)) PROVE e.sev \in Faulty
    BY <1>10, <2>2 DEF Counts, Faulty, Severities
  <2>3. ASSUME NEW e \in ToSet(shown), e.sev \in Faulty
        PROVE  \E d \in ToSet(shown) : Counts(d, AnyIn(shown), HardIn(shown))
    <3>1. CASE HardIn(shown)
      <4>1. PICK d \in ToSet(shown) : d.sev \in {"error", "fatal"}
        BY <3>1 DEF HardIn
      <4>2. Counts(d, AnyIn(shown), HardIn(shown))
        BY <4>1 DEF Counts, Hidden
      <4>. QED BY <4>2
    <3>2. CASE ~HardIn(shown)
      <4>1. Counts(e, AnyIn(shown), HardIn(shown))
        BY <2>3, <3>2 DEF Counts, Hidden, Faulty
      <4>. QED BY <4>1
    <3>. QED BY <3>1, <3>2
  <2>. QED BY <2>1, <2>2, <2>3
<1>12. ASSUME NEW e \in ToSet(shown), e.sev = "fatal" PROVE Prints(last, e)
  <2>1. PICK k \in 1 .. Len(shown) : shown[k] = e
    BY <1>9
  <2>2. e.sev # "note" /\ ~Hidden(e, AnyIn(shown), HardIn(shown)) /\ e # NoEntry
    BY <1>12, NoEntryIs DEF Hidden
  <2>3. Waits(end, e)
    BY <1>2, <2>1, <2>2 DEF PrintedUpTo
  <2>. QED BY <1>5, <1>7, <2>2, <2>3 DEF Waits
<1>13. PrintsAll(shown, AnyIn(shown), HardIn(shown), p.lines)
  <2>1. PICK any, hard : any = AnyIn(shown) /\ hard = HardIn(shown)
    OBVIOUS
  <2>2. Tracked(shown, any, hard, Len(shown), end)
    BY <1>2, <2>1 DEF PrintedUpTo
  <2>3. last = Remaining(end)
    BY <1>4, <1>6 DEF Remaining, Before
  <2>4. PrintsAll(shown, any, hard, last.lines)
    BY ONLY <1>3, <2>2, <2>3, Tree(nodes), n \in Nat, n = Len(nodes), shown \in Seq(MessagesAt(n)), TrackedLast
  <2>. QED BY ONLY <1>8, <2>1, <2>4
<1>14. p.errors = Cardinality(CountedIn(shown, AnyIn(shown), HardIn(shown), Len(shown)))
  BY <1>2, <1>8 DEF PrintedUpTo, Tracked
<1>. QED BY <1>8, <1>11, <1>12, <1>13, <1>14 DEF Prints

(***************************************************************************)
(* The exit status.                                                        *)
(***************************************************************************)
Stages == {"pass", "listing", "symbols", "outputs", "shown", "done"}

\* A file that cannot be written is a message, and no other error is before outputs.
Unwritten(l) == \E e : In(e, l) /\ e.sev = "fatal" /\ e.text = "cannot write"
OnlyUnwritten(cs) == \A c \in ToSet(cs) : c.message.sev \in Faulty => c.message.text = "cannot write"
FilesTold(l, cs, fs) ==
  /\ l.stop = Unlimited /\ OnlyUnwritten(cs)
  /\ \A i \in DOMAIN fs : ~fs[i].done => Unwritten(l)
EndTold ==
  /\ failed <=> printed.errors > 0
  /\ \A i \in DOMAIN files : ~files[i].done =>
       \E l \in ToSet(printed.lines) : l.what = "message" /\ l.entry.text = "cannot write"

StatusInv ==
  /\ MsgTyped /\ stage \in Stages
  /\ InPass => DuringPasses
  /\ stage = "symbols" => (Claimed => Serious(log))
  /\ stage = "outputs" \/ files # <<>> => FilesTold(log, claims, files)
  /\ stage = "shown" => (failed <=> Serious(log))
  /\ Ended => EndTold

\* A list that is closed has the same errors.
LEMMA ClosedSerious ==
  ASSUME NEW n \in Nat, NEW l \in LogsAt(n)
  PROVE  /\ Serious(Closed(l)) <=> Serious(l)
         /\ Unwritten(l) => Unwritten(Closed(l))
<1>1. PICK c : c = Closed(l)
  OBVIOUS
<1>2. c \in LogsAt(n)
  BY <1>1, ClosedIs
<1>3. \A e : (In(e, c) => In(e, l)) /\ (In(e, l) /\ e.sev # "note" => In(e, c))
  BY <1>1, ClosedIn
<1>4. Serious(l) <=> \E e \in MessagesAt(n) : In(e, l) /\ e.sev \in Faulty
  BY SeriousIs
<1>5. Serious(c) <=> \E e \in MessagesAt(n) : In(e, c) /\ e.sev \in Faulty
  BY <1>2, SeriousIs
<1>6. \A e : e.sev \in Faulty => e.sev # "note"
  BY DEF Faulty
<1>7. Serious(c) <=> Serious(l)
  BY ONLY <1>3, <1>4, <1>5, <1>6
<1>8. Unwritten(l) => Unwritten(c)
  BY ONLY <1>3 DEF Unwritten
<1>. QED BY ONLY <1>1, <1>7, <1>8

\* The tree at first
LEMMA FirstTree ==
  ASSUME NEW ns, ns = Entered(Entered(<<>>, Root, MainFile, 1).nodes, Root, CommandLine, 1).nodes
  PROVE  Tree(ns) /\ Len(ns) = 2
<1>1. PICK x : x = [parent |-> Root, at |-> 0, file |-> "main", macro |-> FALSE, pass |-> 1]
  OBVIOUS
<1>2. PICK y : y = [parent |-> Root, at |-> 0, file |-> "command line", macro |-> FALSE, pass |-> 1]
  OBVIOUS
<1>3. x \in TreeNode /\ y \in TreeNode /\ x.parent = 0 /\ y.parent = 0
  BY <1>1, <1>2 DEF TreeNode, Root, Ats, FileNames
<1>4. NodeAt(<<>>, Root, MainFile) = {}
  BY DEF NodeAt
<1>5. Entered(<<>>, Root, MainFile, 1).nodes = <<x>>
  <2>1. Entered(<<>>, Root, MainFile, 1) = [nodes |-> Append(<<>>, x), node |-> Len(<<>>) + 1]
    BY <1>1, <1>4 DEF Entered, MainFile
  <2>. QED BY <1>3, <2>1
<1>6. NodeAt(<<x>>, Root, CommandLine) = {}
  <2>1. \A i \in DOMAIN <<x>> : <<x>>[i] = x
    OBVIOUS
  <2>2. x.file # CommandLine.file
    BY <1>1 DEF CommandLine
  <2>. QED BY <2>1, <2>2 DEF NodeAt
<1>7. ns = Append(<<x>>, y)
  <2>1. Entered(<<x>>, Root, CommandLine, 1) = [nodes |-> Append(<<x>>, y), node |-> Len(<<x>>) + 1]
    BY <1>2, <1>6 DEF Entered, CommandLine
  <2>. QED BY <1>5, <2>1
<1>8. ns = <<x, y>>
  BY <1>3, <1>7, AppendOne
<1>9. ns \in Seq(TreeNode) /\ Len(ns) = 2 /\ ns[1] = x /\ ns[2] = y
  <2>1. <<x, y>> \in Seq(TreeNode) /\ Len(<<x, y>>) = 2 /\ <<x, y>>[1] = x /\ <<x, y>>[2] = y
    BY ONLY <1>3, TwoFrames
  <2>. QED BY ONLY <1>8, <2>1
<1>10. \A i \in 1 .. 2 : i = 1 \/ i = 2
  OBVIOUS
<1>. QED BY <1>3, <1>9, <1>10 DEF Tree

\* An empty list
LEMMA EmptyLogIs ==
  ASSUME NEW n \in Nat
  PROVE  EmptyLog \in LogsAt(n) /\ StopOK(EmptyLog) /\ <<>> \in Seq(ClaimsAt(n)) /\ ToSet(<<>>) = {}
<1>1. <<>> \in Seq(MessagesAt(n)) /\ <<>> \in Seq(ClaimsAt(n))
  BY ONLY EmptySeq
<1>2. EmptyLog \in LogsAt(n)
  BY <1>1 DEF EmptyLog, LogsAt, Unlimited
<1>3. StopOK(EmptyLog)
  BY DEF EmptyLog, StopOK, In
<1>4. ToSet(<<>>) = {}
  BY DEF ToSet
<1>. QED BY <1>1, <1>2, <1>3, <1>4

\* The invariant holds at first.
LEMMA StatusInit == Init => StatusInv
<1>. SUFFICES ASSUME Init PROVE StatusInv
  OBVIOUS
<1>1. Tree(nodes) /\ Len(nodes) = 2
  BY FirstTree DEF Init, MsgInit
<1>2. MsgTyped
  <2>1. limit \in Limits /\ pass \in Nat /\ max_pass \in Nat /\ here \in 0 .. Len(nodes)
    BY <1>1, MessagesAssumption DEF Init, MsgInit, MainNode
  <2>2. constcreated \in BOOLEAN /\ fixeddig \in BOOLEAN /\ signal \in BOOLEAN
    BY DEF Init, MsgInit
  <2>3. log \in LogsAt(Len(nodes)) /\ StopOK(log) /\ claims \in Seq(ClaimsAt(Len(nodes)))
    BY <1>1, EmptyLogIs DEF Init, MsgInit
  <2>. QED BY <1>1, <2>1, <2>2, <2>3 DEF MsgTyped
<1>3. stage = "pass" /\ files = <<>> /\ claims = <<>> /\ notdefines = {}
  BY DEF Init, MsgInit
<1>4. ~Claimed
  BY <1>3, EmptyLogIs DEF Claimed
<1>. QED BY <1>2, <1>3, <1>4 DEF StatusInv, Stages, DuringPasses, Ended

\* Steps that have nothing to do with messages
LEMMA StatusStays ==
  ASSUME StatusInv, UNCHANGED <<msgVars, stage, files, endVars>>
  PROVE  StatusInv'
<1>1. /\ UNCHANGED <<limit, events, pass, max_pass, nodes, here, log>>
      /\ UNCHANGED <<constcreated, fixeddig, notdefines, once, signal, claims>>
      /\ UNCHANGED <<stage, files, printed, failed>>
  BY DEF msgVars, endVars
<1>2. MsgTyped' <=> MsgTyped
  BY <1>1 DEF MsgTyped
<1>3. (InPass' <=> InPass) /\ (DuringPasses' <=> DuringPasses) /\ (Claimed' <=> Claimed)
  BY <1>1 DEF InPass, DuringPasses, Claimed, Pending
<1>4. (Ended' <=> Ended) /\ (EndTold' <=> EndTold)
  BY <1>1 DEF Ended, EndTold
<1>. QED BY <1>1, <1>2, <1>3, <1>4 DEF StatusInv

\* Nothing is written before the outputs.
LEMMA NoFilesYet ==
  ASSUME OutInv, stage \in {"pass", "listing", "symbols"}
  PROVE  files = <<>>
BY DEF OutInv

\* Messages of a pass
LEMMA MsgStatus ==
  ASSUME StatusInv, OutInv, InPass, MsgStep, UNCHANGED <<stage, memVars, endVars>>
  PROVE  StatusInv'
<1>1. stage' = stage /\ files' = files /\ stage \in {"pass", "listing"}
  BY DEF memVars, InPass
<1>2. MsgTyped' /\ DuringPasses'
  BY <1>1, MsgKeeps DEF StatusInv
<1>3. files = <<>>
  BY <1>1, NoFilesYet
<1>. QED BY <1>1, <1>2, <1>3 DEF StatusInv, Stages, Ended

\* A new pass
LEMMA NewPassStatus ==
  ASSUME StatusInv, OutInv, InPass, NEW next \in {"pass", "listing"}, NewPass(next), max_pass' \in Nat,
         next = "listing" => max_pass' = pass
  PROVE  StatusInv'
<1>1. pass \in Nat /\ pass' = pass + 1 /\ pass' \in Nat /\ limit' = limit /\ limit \in Limits
  BY DEF NewPass, StatusInv, MsgTyped
<1>2. PICK e : e = Entered(nodes, Root, MainFile, pass')
  OBVIOUS
<1>3. PICK f : f = Entered(e.nodes, Root, CommandLine, pass')
  OBVIOUS
<1>4. /\ log' = EmptyLog /\ claims' = <<>> /\ constcreated' = FALSE /\ fixeddig' = TRUE
      /\ nodes' = f.nodes /\ here' = e.node
  BY <1>2, <1>3 DEF NewPass, StartPass
<1>5. Tree(nodes) /\ Len(nodes) >= 2 /\ Len(nodes) \in Nat
  BY DEF StatusInv, MsgTyped, Tree
<1>6. Tree(f.nodes) /\ Len(nodes) <= Len(f.nodes) /\ e.node \in 0 .. Len(f.nodes)
  BY ONLY <1>1, <1>2, <1>3, <1>5, PassEntered
<1>7. Tree(nodes') /\ here' \in 0 .. Len(nodes') /\ Len(nodes') \in Nat /\ Len(nodes') >= 2
  <2>1. Len(f.nodes) \in Nat
    BY <1>6 DEF Tree
  <2>. QED BY <1>4, <1>5, <1>6, <2>1
<1>8. log' \in LogsAt(Len(nodes')) /\ StopOK(log') /\ claims' \in Seq(ClaimsAt(Len(nodes'))) /\ ToSet(claims') = {}
  BY <1>4, <1>7, EmptyLogIs
<1>9. signal' = signal /\ signal \in BOOLEAN
  BY DEF NewPass, StatusInv, MsgTyped
<1>10. MsgTyped'
  BY <1>1, <1>4, <1>7, <1>8, <1>9 DEF MsgTyped
<1>11. stage' = next /\ files' = files /\ notdefines' = notdefines
  BY DEF NewPass
<1>12. ~Claimed'
  BY <1>8 DEF Claimed
<1>13. \A k \in notdefines : k[2] \in Nat /\ k[2] <= pass' /\ k[2] # pass'
  <2>1. \A k \in notdefines : k[2] \in Nat /\ k[2] <= pass
    BY DEF StatusInv, DuringPasses
  <2>. QED BY <1>1, <2>1
<1>14. stage' = "listing" => pass' > max_pass'
  BY <1>1, <1>11
<1>15. DuringPasses'
  BY <1>11, <1>12, <1>13, <1>14 DEF DuringPasses
<1>16. files = <<>>
  BY NoFilesYet DEF InPass
<1>. QED BY <1>10, <1>11, <1>15, <1>16 DEF StatusInv, Stages, Ended

\* What is said when the loop of passes ends is an error.
LEMMA LoopIs ==
  ASSUME StatusInv, InPass
  PROVE  /\ LoopLog \in LogsAt(Len(nodes)) /\ StopOK(LoopLog)
         /\ IF LoopSays = <<>> THEN LoopLog = log
            ELSE Serious(LoopLog) /\ Aside(LoopSays[1]) \in Seq(ClaimsAt(Len(nodes)))
<1>1. PICK n \in Nat : n = Len(nodes)
  BY DEF StatusInv, MsgTyped, Tree
<1>2. MsgTyped /\ log \in LogsAt(n) /\ StopOK(log) /\ Root \in 0 .. Len(nodes) /\ 0 \in Nat
  BY <1>1 DEF StatusInv, MsgTyped, Root
<1>3. CASE stage = "pass" /\ Again
  <2>1. PICK e : e = Failure(Root, 0, "too many passes")
    OBVIOUS
  <2>2. LoopSays = <<e>> /\ LoopSays # <<>> /\ LoopSays[1] = e
    BY <1>3, <2>1 DEF LoopSays
  <2>3. "too many passes" \in ProgramTexts
    BY DEF ProgramTexts
  <2>4. /\ e \in MessagesAt(Len(nodes)) /\ e.sev = "fatal" /\ e.text = "too many passes"
        /\ Aside(e) \in Seq(ClaimsAt(Len(nodes)))
    <3>1. e \in MessagesAt(Len(nodes)) /\ Aside(e) \in Seq(ClaimsAt(Len(nodes)))
      BY ONLY <1>2, <2>1, <2>3, AsideIs
    <3>2. e.sev = "fatal" /\ e.text = "too many passes"
      BY ONLY <2>1 DEF Failure, Entry
    <3>. QED BY ONLY <3>1, <3>2
  <2>5. LoopLog = Opened(log, e)
    BY <1>3, <2>2 DEF LoopLog
  <2>6. ~IsEnd(e) /\ e \in MessagesAt(n)
    BY <1>1, <2>4 DEF IsEnd
  <2>7. LoopLog \in LogsAt(n) /\ StopOK(LoopLog) /\ Serious(LoopLog)
    BY ONLY <1>2, <2>4, <2>5, <2>6, n \in Nat, OpenedIs DEF Faulty
  <2>. QED BY <1>1, <2>2, <2>4, <2>7
<1>4. CASE ~(stage = "pass" /\ Again) /\ stage = "pass" /\ signal /\ log.stop = Unlimited
  <2>1. PICK e : e = Failure(Root, 0, "interrupted")
    OBVIOUS
  <2>2. LoopSays = <<e>> /\ LoopSays # <<>> /\ LoopSays[1] = e
    BY <1>4, <2>1 DEF LoopSays
  <2>3. "interrupted" \in ProgramTexts
    BY DEF ProgramTexts
  <2>4. /\ e \in MessagesAt(Len(nodes)) /\ e.sev = "fatal" /\ e.text = "interrupted"
        /\ Aside(e) \in Seq(ClaimsAt(Len(nodes)))
    BY ONLY <1>2, <2>1, <2>3, AsideIs
  <2>5. LoopLog = Signalled(log, e)
    BY <1>4, <2>2 DEF LoopLog
  <2>6. IsEnd(e) /\ e \in MessagesAt(n)
    BY <1>1, <2>4 DEF IsEnd
  <2>7. LoopLog \in LogsAt(n) /\ StopOK(LoopLog) /\ Serious(LoopLog)
    BY ONLY <1>2, <1>4, <2>5, <2>6, n \in Nat, SignalledIs
  <2>. QED BY <1>1, <2>2, <2>4, <2>7
<1>5. CASE ~(stage = "pass" /\ Again) /\ ~(stage = "pass" /\ signal /\ log.stop = Unlimited)
  <2>1. LoopSays = <<>>
    BY <1>5 DEF LoopSays
  <2>2. LoopLog = log
    BY <2>1 DEF LoopLog
  <2>. QED BY <1>1, <1>2, <2>1, <2>2
<1>. QED BY <1>3, <1>4, <1>5

\* The passes are over: no error is forgotten.
LEMMA PassesOverStatus ==
  ASSUME StatusInv, OutInv, PassesOver
  PROVE  StatusInv'
<1>1. InPass
  BY DEF PassesOver, LoopOver, LinesOver
<1>2. PICK n \in Nat : n = Len(nodes)
  BY DEF StatusInv, MsgTyped, Tree
<1>3. /\ LoopLog \in LogsAt(n) /\ StopOK(LoopLog)
      /\ IF LoopSays = <<>> THEN LoopLog = log
         ELSE Serious(LoopLog) /\ Aside(LoopSays[1]) \in Seq(ClaimsAt(n))
  BY <1>1, <1>2, LoopIs
<1>4. /\ log' = Closed(LoopLog) /\ claims' = (IF LoopSays = <<>> THEN claims ELSE Aside(LoopSays[1]))
      /\ failed' = (stage = "pass" /\ Serious(LoopLog)) /\ stage' = (IF failed' THEN "shown" ELSE "symbols")
      /\ pass' = (IF stage = "pass" /\ Again THEN pass + 1 ELSE pass)
      /\ here' = Root
      /\ UNCHANGED <<limit, max_pass, nodes, constcreated, fixeddig, notdefines, signal, files>>
  BY DEF PassesOver, memVars
<1>5. log' \in LogsAt(n) /\ StopOK(log') /\ (Serious(log') <=> Serious(LoopLog))
  BY ONLY <1>3, <1>4, n \in Nat, ClosedIs, ClosedStop, ClosedSerious
<1>6. claims' \in Seq(ClaimsAt(n))
  BY <1>2, <1>3, <1>4 DEF StatusInv, MsgTyped
<1>7. pass' \in Nat
  BY <1>4 DEF StatusInv, MsgTyped
<1>8. here' \in 0 .. Len(nodes')
  BY <1>2, <1>4 DEF Root
<1>9. MsgTyped'
  BY <1>2, <1>4, <1>5, <1>6, <1>7, <1>8 DEF StatusInv, MsgTyped
<1>10. files' = <<>>
  BY <1>1, <1>4, NoFilesYet DEF InPass
<1>11. stage' = "shown" => failed' /\ Serious(log')
  BY <1>4, <1>5
<1>12. stage' = "symbols" => (Claimed' => Serious(log'))
  <2>. SUFFICES ASSUME stage' = "symbols", Claimed', ~Serious(log') PROVE FALSE
    OBVIOUS
  <2>1. LoopSays = <<>> /\ LoopLog = log /\ ~Serious(log)
    BY <1>3, <1>5
  <2>2. Claimed
    BY <1>4, <2>1 DEF Claimed
  <2>3. Pending
    BY <1>1, <2>1, <2>2 DEF StatusInv, DuringPasses
  <2>4. stage = "pass" /\ ~Again
    BY <2>1, <2>3 DEF Pending, LoopSays
  <2>5. signal
    BY <2>3, <2>4 DEF Pending, Again
  <2>6. log.stop # Unlimited
    BY <2>1, <2>4, <2>5 DEF LoopSays
  <2>7. Serious(log)
    BY <1>2, <2>6, StopSerious DEF StatusInv, MsgTyped
  <2>. QED BY <2>1, <2>7
<1>13. stage' \in {"shown", "symbols"}
  BY <1>4
<1>. QED BY <1>9, <1>10, <1>11, <1>12, <1>13 DEF StatusInv, Stages, InPass, Ended

\* A file that cannot be written is an error, and makes the list serious.
LEMMA FailingIs ==
  ASSUME MsgTyped, NEW node \in 0 .. Len(nodes), NEW at \in Nat, Failing(Failure(node, at, "cannot write"))
  PROVE  /\ MsgTyped' /\ Serious(log') /\ Unwritten(log') /\ log'.stop = log.stop
         /\ OnlyUnwritten(claims) => OnlyUnwritten(claims')
<1>1. PICK n \in Nat : n = Len(nodes)
  <2>1. nodes \in Seq(TreeNode)
    BY ONLY MsgTyped DEF MsgTyped, Tree
  <2>2. Len(nodes) \in Nat
    BY ONLY <2>1
  <2>. QED BY ONLY <2>2
<1>2. PICK e : e = Failure(node, at, "cannot write")
  OBVIOUS
<1>3. "cannot write" \in ProgramTexts
  BY DEF ProgramTexts
<1>4. /\ e \in MessagesAt(Len(nodes)) /\ e.sev = "fatal" /\ e.text = "cannot write" /\ e.sev \in Faulty
      /\ Aside(e) \in Seq(ClaimsAt(Len(nodes)))
      /\ \E c : c.message = e /\ AddedTo(claims, c, Aside(e))
  <2>1. e \in MessagesAt(Len(nodes)) /\ Aside(e) \in Seq(ClaimsAt(Len(nodes)))
    BY ONLY <1>2, <1>3, MsgTyped, node \in 0 .. Len(nodes), at \in Nat, AsideIs
  <2>3. e.sev = "fatal" /\ e.text = "cannot write"
    BY ONLY <1>2 DEF Failure, Entry
  <2>2. \E c : c.message = e /\ AddedTo(claims, c, Aside(e))
    BY ONLY <1>2, <1>3, MsgTyped, node \in 0 .. Len(nodes), at \in Nat, AsideIs
  <2>. QED BY ONLY <2>1, <2>2, <2>3 DEF Faulty
<1>5. /\ log' = Opened(log, e) /\ claims' = Aside(e)
      /\ UNCHANGED <<limit, pass, max_pass, nodes, here, constcreated, fixeddig, notdefines, signal>>
  BY <1>2 DEF Failing
<1>6. log \in LogsAt(n) /\ StopOK(log) /\ ~IsEnd(e) /\ e \in MessagesAt(n)
  BY <1>1, <1>4 DEF MsgTyped, IsEnd
<1>7. PICK o : o = Opened(log, e)
  OBVIOUS
<1>8. /\ o \in LogsAt(n) /\ o.stop = log.stop /\ o.open = e
      /\ Serious(o) <=> Serious(log) \/ e.sev \in Faulty
      /\ StopOK(log) /\ (log.stop # Unlimited \/ ~IsEnd(e)) => StopOK(o)
  BY ONLY <1>6, <1>7, n \in Nat, OpenedIs
<1>9. Unwritten(o)
  <2>1. e # NoEntry
    BY <1>6, NoEntryIs
  <2>2. In(e, o)
    BY <1>8, <2>1 DEF In
  <2>. QED BY <1>4, <2>2 DEF Unwritten
<1>10. MsgTyped'
  BY <1>1, <1>4, <1>5, <1>6, <1>7, <1>8 DEF MsgTyped
<1>11. ASSUME OnlyUnwritten(claims) PROVE OnlyUnwritten(claims')
  BY <1>4, <1>5, <1>11 DEF OnlyUnwritten, AddedTo
<1>. QED BY <1>4, <1>5, <1>6, <1>7, <1>8, <1>9, <1>10, <1>11

\* Labels and makefile
LEMMA SymbolsStatus ==
  ASSUME StatusInv, OutInv, Symbols
  PROVE  StatusInv'
<1>1. /\ stage = "symbols" /\ failed' = Serious(log') /\ stage' = (IF failed' THEN "shown" ELSE "outputs")
      /\ files' = files /\ files = <<>>
  BY NoFilesYet DEF Symbols
<1>2. MsgTyped
  BY DEF StatusInv
<1>3. CASE UNCHANGED msgVars
  <2>1. /\ UNCHANGED <<limit, pass, max_pass, nodes, here, log>>
        /\ UNCHANGED <<constcreated, fixeddig, signal, claims>>
    BY <1>3 DEF msgVars
  <2>2. MsgTyped'
    BY <1>2, <2>1 DEF MsgTyped
  <2>3. ASSUME ~Serious(log) PROVE FilesTold(log, claims, <<>>)
    <3>1. ~Claimed
      BY <1>1, <2>3 DEF StatusInv
    <3>2. OnlyUnwritten(claims)
      BY <3>1 DEF Claimed, OnlyUnwritten
    <3>3. log.stop = Unlimited
      <4>1. Len(nodes) \in Nat /\ log \in LogsAt(Len(nodes)) /\ StopOK(log)
        BY <1>2 DEF MsgTyped, Tree
      <4>. QED BY <2>3, <4>1, StopSerious
    <3>. QED BY <3>2, <3>3 DEF FilesTold
  <2>4. CASE Serious(log)
    <3>1. stage' = "shown" /\ failed'
      BY <1>1, <2>1, <2>4
    <3>. QED BY <1>1, <2>1, <2>2, <2>4, <3>1 DEF StatusInv, Stages, InPass, Ended
  <2>5. CASE ~Serious(log)
    <3>1. stage' = "outputs"
      BY <1>1, <2>1, <2>5
    <3>. QED BY <1>1, <2>1, <2>2, <2>3, <2>5, <3>1 DEF StatusInv, Stages, InPass, Ended
  <2>. QED BY <2>4, <2>5
<1>4. CASE Failing(Failure(CommandLineNode, 9, "cannot write"))
  <2>1. CommandLineNode \in 0 .. Len(nodes) /\ 9 \in Nat
    BY <1>2 DEF MsgTyped, Tree, CommandLineNode
  <2>2. MsgTyped' /\ Serious(log')
    BY <1>2, <1>4, <2>1, FailingIs
  <2>3. stage' = "shown" /\ failed'
    BY <1>1, <2>2
  <2>. QED BY <1>1, <2>2, <2>3 DEF StatusInv, Stages, InPass, Ended
<1>. QED BY <1>3, <1>4 DEF Symbols

\* One more file, of which it is told if it could not be written
LEMMA FileTold ==
  ASSUME NEW l, NEW cs, NEW fs, FilesTold(l, cs, fs), NEW S, fs \in Seq(S),
         NEW m, m.stop = l.stop, Unwritten(l) => Unwritten(m),
         NEW ds, OnlyUnwritten(cs) => OnlyUnwritten(ds),
         NEW x, ~x.done => Unwritten(m), NEW gs, gs = Append(fs, x)
  PROVE  FilesTold(m, ds, gs)
<1>1. PICK k \in Nat : k = Len(fs) /\ DOMAIN fs = 1 .. k
  OBVIOUS
<1>2. DOMAIN gs = 1 .. k + 1 /\ gs[k + 1] = x /\ \A i \in 1 .. k : gs[i] = fs[i]
  <2>1. fs \in Seq(S \cup {x}) /\ x \in S \cup {x}
    OBVIOUS
  <2>2. gs \in Seq(S \cup {x}) /\ Len(gs) = k + 1 /\ gs[k + 1] = x /\ \A i \in 1 .. k : gs[i] = fs[i]
    BY ONLY <1>1, <2>1, gs = Append(fs, x), AppendProperties
  <2>. QED BY <2>2
<1>3. \A i \in 1 .. k + 1 : i \in 1 .. k \/ i = k + 1
  OBVIOUS
<1>. QED BY <1>1, <1>2, <1>3 DEF FilesTold

\* An output that could not be opened
LEMMA UnopenedStatus ==
  ASSUME StatusInv, OutInv, Unopened
  PROVE  StatusInv'
<1>1. stage = "outputs" /\ stage' = stage /\ MsgTyped /\ FilesTold(log, claims, files)
  BY DEF Unopened, Ready, StatusInv
<1>2. PICK where \in {Root, CommandLineNode} :
        Failing(Failure(where, IF where = Root THEN 0 ELSE Len(files) + 1, "cannot write"))
  BY DEF Unopened
<1>3. PICK S : files \in Seq(S)
  BY DEF OutInv, FilesWhole
<1>4. PICK at \in Nat : at = IF where = Root THEN 0 ELSE Len(files) + 1
  <2>1. Len(files) \in Nat
    BY <1>3
  <2>. QED BY <2>1
<1>5. where \in 0 .. Len(nodes)
  BY <1>1 DEF MsgTyped, Tree, Root, CommandLineNode
<1>6. /\ MsgTyped' /\ Unwritten(log') /\ log'.stop = log.stop
      /\ OnlyUnwritten(claims) => OnlyUnwritten(claims')
  BY <1>1, <1>2, <1>4, <1>5, FailingIs
<1>7. PICK x : x = [mem |-> "root", keep |-> FALSE, done |-> FALSE, content |-> <<>>] /\ files' = Append(files, x)
  BY DEF Unopened
<1>8. FilesTold(log', claims', files')
  BY ONLY <1>1, <1>3, <1>6, <1>7, FileTold
<1>. QED BY <1>1, <1>6, <1>8 DEF StatusInv, Stages, InPass, Ended

\* An output that was written, or not
LEMMA WriteStatus ==
  ASSUME StatusInv, OutInv, Write
  PROVE  StatusInv'
<1>1. stage = "outputs"
  BY DEF Write, OutInv
<1>2. stage' = stage /\ MsgTyped /\ FilesTold(log, claims, files)
  BY <1>1 DEF Write, StatusInv
<1>3. PICK done \in {TRUE, ~limit.faults} :
        /\ IF done THEN UNCHANGED msgVars
           ELSE Failing(Failure(CommandLineNode, Len(files) + 1, "cannot write"))
        /\ files' = Append(files, [mem |-> output.mem, keep |-> output.keep, done |-> done,
                                   content |-> Content(mem[output.mem], mem[output.mem].blocks)])
  BY DEF Write
<1>4. PICK x : x.done = done /\ files' = Append(files, x)
  BY <1>3
<1>5. PICK S : files \in Seq(S)
  BY DEF OutInv, FilesWhole
<1>6. CASE done
  <2>1. /\ UNCHANGED <<limit, pass, max_pass, nodes, here, log>>
        /\ UNCHANGED <<constcreated, fixeddig, signal, claims>>
    BY <1>3, <1>6 DEF msgVars
  <2>2. MsgTyped'
    BY <1>2, <2>1 DEF MsgTyped
  <2>3. FilesTold(log', claims', files')
    BY ONLY <1>2, <1>4, <1>5, <1>6, <2>1, FileTold
  <2>. QED BY <1>1, <1>2, <2>2, <2>3 DEF StatusInv, Stages, InPass, Ended
<1>7. CASE ~done
  <2>1. CommandLineNode \in 0 .. Len(nodes)
    BY <1>2 DEF MsgTyped, Tree, CommandLineNode
  <2>2. Len(files) + 1 \in Nat
    BY <1>5
  <2>3. /\ MsgTyped' /\ Unwritten(log') /\ log'.stop = log.stop
        /\ OnlyUnwritten(claims) => OnlyUnwritten(claims')
    BY <1>2, <1>3, <1>7, <2>1, <2>2, FailingIs
  <2>4. FilesTold(log', claims', files')
    BY ONLY <1>2, <1>4, <1>5, <2>3, FileTold
  <2>. QED BY <1>1, <1>2, <2>3, <2>4 DEF StatusInv, Stages, InPass, Ended
<1>. QED BY <1>6, <1>7

\* All outputs are done.
LEMMA OutputsOverStatus ==
  ASSUME StatusInv, OutputsOver
  PROVE  StatusInv'
<1>1. /\ stage = "outputs" /\ failed' = Serious(log) /\ stage' = "shown" /\ files' = files
      /\ UNCHANGED <<limit, pass, max_pass, nodes, here, log>>
      /\ UNCHANGED <<constcreated, fixeddig, signal, claims>>
  BY DEF OutputsOver, msgVars, memVars
<1>2. MsgTyped'
  BY <1>1 DEF StatusInv, MsgTyped
<1>. QED BY <1>1, <1>2 DEF StatusInv, Stages, InPass, Ended

\* What is shown tells of the errors in the list, if it was cut short as well.
LEMMA ShowStatus ==
  ASSUME StatusInv, Show
  PROVE  StatusInv'
<1>1. /\ stage = "shown" /\ stage' = "done" /\ log' = Closed(log) /\ printed' = error_print(Shown(log'))
      /\ failed' = failed /\ files' = files
      /\ UNCHANGED <<limit, pass, max_pass, nodes, here>>
      /\ UNCHANGED <<constcreated, fixeddig, signal, claims>>
  BY DEF Show, memVars
<1>2. PICK n \in Nat : n = Len(nodes)
  BY DEF StatusInv, MsgTyped, Tree
<1>3. Tree(nodes) /\ log \in LogsAt(n) /\ StopOK(log)
  BY <1>2 DEF StatusInv, MsgTyped
<1>4. PICK c : c = Closed(log)
  OBVIOUS
<1>5. c \in LogsAt(n) /\ c.open = NoEntry /\ c.stop = log.stop
  BY <1>3, <1>4, ClosedIs
<1>6. StopOK(c) /\ (c.stop # Unlimited => c.stop \in 1 .. Len(c.list) /\ IsEnd(c.list[c.stop]))
  BY <1>3, <1>4, ClosedStop
<1>7. MsgTyped'
  BY <1>1, <1>2, <1>4, <1>5, <1>6 DEF StatusInv, MsgTyped
<1>8. PICK list \in Seq(MessagesAt(n)) : list = c.list
  BY <1>5 DEF LogsAt
<1>9. PICK shown : shown = Shown(c)
  OBVIOUS
<1>10. Serious(log) <=> \E e \in ToSet(list) : e.sev \in Faulty
  BY <1>4, <1>8 DEF Serious, Faulty
<1>11. shown \in Seq(MessagesAt(n)) /\ (Serious(log) <=> \E e \in ToSet(shown) : e.sev \in Faulty)
  <2>1. CASE c.stop = Unlimited
    BY <1>8, <1>9, <1>10, <2>1 DEF Shown
  <2>2. CASE c.stop # Unlimited
    <3>1. PICK k \in 1 .. Len(list) : k = c.stop /\ IsEnd(list[k])
      BY <1>6, <1>8, <2>2
    <3>2. shown = SubSeq(list, 1, k)
      BY <1>8, <1>9, <2>2, <3>1 DEF Shown
    <3>3. /\ k \in Nat /\ 1 <= k /\ k <= Len(list) /\ 1 \in Nat
      BY <3>1
    <3>4. shown \in Seq(MessagesAt(n)) /\ Len(shown) = k /\ shown[k] = list[k]
      <4>1. shown \in Seq(MessagesAt(n))
        BY <3>2, <3>3
      <4>2. Len(shown) = k /\ shown[k] = list[k]
        BY <3>2, <3>3
      <4>. QED BY <4>1, <4>2
    <3>5. list[k] \in ToSet(shown)
      <4>1. k \in 1 .. Len(shown) /\ shown[k] = list[k] /\ shown \in Seq(MessagesAt(n))
        BY <3>3, <3>4
      <4>. QED BY ONLY <4>1, ToSetIs
    <3>6. list[k].sev \in Faulty
      BY <3>1 DEF IsEnd, Faulty
    <3>7. Serious(log)
      BY <1>3, <1>5, <2>2, StopSerious
    <3>. QED BY <3>4, <3>5, <3>6, <3>7
  <2>. QED BY <2>1, <2>2
<1>12. PICK p : p = error_print(shown)
  OBVIOUS
<1>13. /\ p.errors > 0 <=> \E e \in ToSet(shown) : e.sev \in Faulty
       /\ \A e \in ToSet(shown) : e.sev = "fatal" => \E l \in ToSet(p.lines) : l.what = "message" /\ l.entry = e
       /\ PrintsAll(shown, AnyIn(shown), HardIn(shown), p.lines)
       /\ p.errors = Cardinality(CountedIn(shown, AnyIn(shown), HardIn(shown), Len(shown)))
  BY <1>2, <1>3, <1>11, <1>12, ErrorPrintIs
<1>14. printed' = p
  BY <1>1, <1>4, <1>9, <1>12
<1>15. failed' <=> p.errors > 0
  BY <1>1, <1>11, <1>13 DEF StatusInv
<1>16. ASSUME NEW i \in DOMAIN files, ~files[i].done
       PROVE  \E l \in ToSet(p.lines) : l.what = "message" /\ l.entry.text = "cannot write"
  <2>1. files # <<>>
    BY <1>16
  <2>2. FilesTold(log, claims, files)
    BY <2>1 DEF StatusInv
  <2>3. Unwritten(log) /\ log.stop = Unlimited
    BY <1>16, <2>2 DEF FilesTold
  <2>4. Unwritten(c)
    BY <1>3, <1>4, <2>3, ClosedSerious
  <2>5. PICK e : In(e, c) /\ e.sev = "fatal" /\ e.text = "cannot write"
    BY <2>4 DEF Unwritten
  <2>6. e \in ToSet(c.list)
    BY <1>3, <1>4, <2>5, ClosedIn
  <2>7. shown = c.list
    BY <1>5, <1>9, <2>3 DEF Shown
  <2>8. e \in ToSet(shown)
    BY ONLY <2>6, <2>7
  <2>9. PICK l \in ToSet(p.lines) : l.what = "message" /\ l.entry = e
    BY ONLY <1>13, <2>5, <2>8
  <2>10. l.entry.text = "cannot write"
    BY ONLY <2>5, <2>9
  <2>. QED BY <2>9, <2>10
<1>17. EndTold'
  BY <1>1, <1>14, <1>15, <1>16 DEF EndTold
<1>18. files' # <<>> => FilesTold(log', claims', files')
  <2>. SUFFICES ASSUME files # <<>> PROVE FilesTold(c, claims, files)
    BY <1>1, <1>4
  <2>1. FilesTold(log, claims, files)
    BY DEF StatusInv
  <2>2. Unwritten(log) => Unwritten(c)
    BY <1>3, <1>4, ClosedSerious
  <2>. QED BY <1>5, <2>1, <2>2 DEF FilesTold
<1>. QED BY <1>1, <1>7, <1>17, <1>18 DEF StatusInv, Stages, InPass

\* Every step keeps the invariant.
LEMMA StatusNext ==
  ASSUME StatusInv, OutInv, [Next]_vars
  PROVE  StatusInv'
<1>1. CASE UNCHANGED vars
  <2>1. UNCHANGED <<msgVars, stage, files, endVars>>
    BY <1>1 DEF vars, memVars
  <2>. QED BY <2>1, StatusStays
<1>2. CASE Pass
  <2>1. CASE (\E m \in Mems, a \in 0 .. Size - 1 : Byte(m, a)) \/ Dsection(0) \/ Dsection(1)
    <3>1. UNCHANGED <<msgVars, stage, files, endVars>>
      BY <2>1 DEF Byte, Dsection
    <3>. QED BY <3>1, StatusStays
  <2>2. CASE InPass /\ MsgStep /\ UNCHANGED <<stage, memVars, endVars>>
    BY <2>2, MsgStatus
  <2>. QED BY <1>2, <2>1, <2>2 DEF Pass
<1>3. CASE NextPass
  <2>1. InPass /\ NewPass("pass") /\ max_pass' \in Nat /\ "pass" \in {"pass", "listing"}
    BY <1>3 DEF NextPass, InPass, StatusInv, MsgTyped
  <2>. QED BY <2>1, NewPassStatus
<1>4. CASE ListingPass
  <2>1. InPass /\ NewPass("listing") /\ max_pass' \in Nat /\ max_pass' = pass /\ "listing" \in {"pass", "listing"}
    BY <1>4 DEF ListingPass, InPass, StatusInv, MsgTyped
  <2>. QED BY <2>1, NewPassStatus
<1>5. CASE NextOutput \/ Memcomp
  <2>1. UNCHANGED <<msgVars, stage, files, endVars>>
    BY <1>5 DEF NextOutput, Memcomp, EnterMemcomp, Splice, CopyLater, CutEarlier, Apart, NextBlock, Sort
  <2>. QED BY <2>1, StatusStays
<1>. QED BY <1>1, <1>2, <1>3, <1>4, <1>5, PassesOverStatus, SymbolsStatus, UnopenedStatus, WriteStatus,
            OutputsOverStatus, ShowStatus DEF Next, Ending

\* The invariant implies StatusTold.
LEMMA StatusFollows == StatusInv => StatusTold
BY DEF StatusInv, EndTold, StatusTold, FilesTold, OnlyUnwritten

\* The exit status tells of errors, also if one of the outputs failed or the program was
\* interrupted, and none is written after an error before (error_serious, main2).
THEOREM StatusIsTold == Spec => []StatusTold
<1>1. OutInv /\ StatusInv /\ [Next]_vars => StatusInv'
  BY StatusNext
<1>. QED BY <1>1, OutKept, StatusInit, StatusFollows, PTL DEF Spec

(***************************************************************************)
(* What was said, and where it is in the list.                             *)
(***************************************************************************)
HeardIn(cl, i) ==
  ~cl[i].early /\ (cl[i].name = <<>> \/ \A j \in 1 .. i - 1 : cl[j].early \/ cl[j].name # cl[i].name)
SaidIn(cl) == {i \in 1 .. Len(cl) : HeardIn(cl, i) /\ \A j \in 1 .. i - 1 : HeardIn(cl, j) => cl[j].message # cl[i].message}

\* The claims of K are in the list L, each with its notes at its place, and nothing else is.
AtPlace(cl, L, i, p) ==
  /\ p \in 1 .. Len(L) /\ L[p] = cl[i].message /\ p + Len(cl[i].notes) <= Len(L)
  /\ \A x \in 1 .. Len(cl[i].notes) : L[p + x] = cl[i].notes[x]
Blocks(cl, K, L, at) ==
  /\ K \subseteq 1 .. Len(cl) /\ at \in [K -> Nat]
  /\ \A i \in K : AtPlace(cl, L, i, at[i])
  /\ \A i, j \in K : i < j => at[i] + Len(cl[i].notes) < at[j]
  /\ \A p \in 1 .. Len(L) : \E i \in K : at[i] <= p /\ p <= at[i] + Len(cl[i].notes)
  /\ \A i, j \in K : cl[i].message = cl[j].message => i = j

\* All that was said is in the list.
Claims(n, cl) == cl \in Seq(ClaimsAt(n)) /\ \A i \in 1 .. Len(cl) : cl[i].message.sev # "note"
Recorded(n, cl, L, at) ==
  /\ Claims(n, cl) /\ L \in Seq(MessagesAt(n))
  /\ Blocks(cl, SaidIn(cl), L, at)
  /\ \A j \in 1 .. Len(cl) : HeardIn(cl, j) => \E i \in SaidIn(cl) : i <= j /\ cl[i].message = cl[j].message

\* One more claim
OneClaim(n, cl, c, dl) ==
  /\ Claims(n, cl) /\ Claims(n, dl) /\ Len(dl) = Len(cl) + 1 /\ dl[Len(cl) + 1] = c
  /\ \A i \in 1 .. Len(cl) : dl[i] = cl[i]

\* A claim at the end leaves those before as they are.
LEMMA OneClaimIs ==
  ASSUME NEW n \in Nat, NEW cl, Claims(n, cl), NEW c \in ClaimsAt(n), c.message.sev # "note", NEW dl, dl = Append(cl, c)
  PROVE  OneClaim(n, cl, c, dl)
<1>1. cl \in Seq(ClaimsAt(n)) /\ Len(cl) \in Nat
  BY DEF Claims
<1>2. /\ dl \in Seq(ClaimsAt(n)) /\ Len(dl) = Len(cl) + 1 /\ dl[Len(cl) + 1] = c
      /\ \A i \in 1 .. Len(cl) : dl[i] = cl[i]
  BY ONLY <1>1, c \in ClaimsAt(n), dl = Append(cl, c), AppendProperties
<1>3. \A i \in 1 .. Len(dl) : i \in 1 .. Len(cl) \/ i = Len(cl) + 1
  BY <1>1, <1>2
<1>4. Claims(n, dl)
  BY <1>2, <1>3 DEF Claims
<1>. QED BY <1>2, <1>4 DEF OneClaim

\* What is heard of the claims before stays the same.
LEMMA HeardStays ==
  ASSUME NEW n \in Nat, NEW cl, NEW c, NEW dl, OneClaim(n, cl, c, dl)
  PROVE  /\ Len(cl) \in Nat
         /\ \A i \in 1 .. Len(cl) : HeardIn(dl, i) <=> HeardIn(cl, i)
         /\ \A i : i \in SaidIn(cl) <=> i \in SaidIn(dl) /\ i # Len(cl) + 1
         /\ \A i \in 1 .. Len(dl) : i \in 1 .. Len(cl) \/ i = Len(cl) + 1
<1>1. PICK m \in Nat : m = Len(cl) /\ Len(dl) = m + 1
  BY DEF OneClaim, Claims
<1>2. \A i \in 1 .. m : dl[i] = cl[i]
  BY <1>1 DEF OneClaim
<1>3. \A i \in 1 .. m : \A j \in 1 .. i - 1 : j \in 1 .. m
  OBVIOUS
<1>4. \A i \in 1 .. m : HeardIn(dl, i) <=> HeardIn(cl, i)
  BY <1>2, <1>3 DEF HeardIn
<1>5. \A i : i \in 1 .. m + 1 <=> i \in 1 .. m \/ i = m + 1
  OBVIOUS
<1>6. m + 1 \notin 1 .. m
  OBVIOUS
<1>7. \A i : i \in SaidIn(cl) <=> i \in SaidIn(dl) /\ i # m + 1
  <2>1. \A i \in 1 .. m : i \in SaidIn(cl) <=> i \in SaidIn(dl)
    BY <1>1, <1>2, <1>3, <1>4, <1>5 DEF SaidIn
  <2>2. \A i : i \in SaidIn(cl) => i \in 1 .. m
    BY <1>1 DEF SaidIn
  <2>3. \A i : i \in SaidIn(dl) => i \in 1 .. m \/ i = m + 1
    BY <1>1, <1>5 DEF SaidIn
  <2>. QED BY ONLY <1>6, <2>1, <2>2, <2>3
<1>. QED BY <1>1, <1>4, <1>5, <1>7

\* A claim of which nothing is heard, or that was said before, changes nothing.
LEMMA NotSaid ==
  ASSUME NEW n \in Nat, NEW cl, NEW c, NEW dl, OneClaim(n, cl, c, dl), NEW L, NEW at, Recorded(n, cl, L, at),
         HeardIn(dl, Len(dl)) => \E i \in SaidIn(cl) : cl[i].message = c.message
  PROVE  Recorded(n, dl, L, at) /\ SaidIn(dl) = SaidIn(cl)
<1>1. /\ Len(cl) \in Nat
      /\ \A i \in 1 .. Len(cl) : HeardIn(dl, i) <=> HeardIn(cl, i)
      /\ \A i : i \in SaidIn(cl) <=> i \in SaidIn(dl) /\ i # Len(cl) + 1
      /\ \A i \in 1 .. Len(dl) : i \in 1 .. Len(cl) \/ i = Len(cl) + 1
  BY HeardStays
<1>2. PICK m \in Nat : m = Len(cl) /\ Len(dl) = m + 1 /\ dl[m + 1] = c /\ \A i \in 1 .. m : dl[i] = cl[i]
  BY <1>1 DEF OneClaim
<1>3. SaidIn(cl) \subseteq 1 .. m /\ \A i \in SaidIn(cl) : HeardIn(cl, i)
  BY <1>2 DEF SaidIn
<1>4. m + 1 \notin SaidIn(dl)
  <2>. SUFFICES ASSUME m + 1 \in SaidIn(dl) PROVE FALSE
    OBVIOUS
  <2>1. HeardIn(dl, m + 1) /\ \A j \in 1 .. (m + 1) - 1 : HeardIn(dl, j) => dl[j].message # dl[m + 1].message
    BY <1>2 DEF SaidIn
  <2>2. PICK i \in SaidIn(cl) : cl[i].message = c.message
    BY <1>2, <2>1
  <2>3. i \in 1 .. m /\ HeardIn(dl, i) /\ i \in 1 .. (m + 1) - 1
    BY <1>1, <1>2, <1>3, <2>2
  <2>. QED BY <1>2, <2>1, <2>2, <2>3
<1>5. SaidIn(dl) = SaidIn(cl)
  BY <1>1, <1>2, <1>4
<1>6. \A i \in SaidIn(cl) : dl[i] = cl[i]
  BY <1>2, <1>3
<1>7. Blocks(dl, SaidIn(dl), L, at)
  <2>1. 1 .. m \subseteq 1 .. m + 1
    OBVIOUS
  <2>2. Blocks(cl, SaidIn(cl), L, at)
    BY DEF Recorded
  <2>3. ASSUME NEW i \in SaidIn(cl) PROVE AtPlace(dl, L, i, at[i])
    <3>1. dl[i] = cl[i] /\ AtPlace(cl, L, i, at[i])
      BY <1>6, <2>2 DEF Blocks
    <3>. QED BY ONLY <3>1 DEF AtPlace
  <2>. QED BY <1>2, <1>3, <1>5, <1>6, <2>1, <2>2, <2>3 DEF Blocks
<1>8. ASSUME NEW j \in 1 .. Len(dl), HeardIn(dl, j)
      PROVE  \E i \in SaidIn(dl) : i <= j /\ dl[i].message = dl[j].message
  <2>1. CASE j \in 1 .. m
    <3>1. HeardIn(cl, j)
      BY <1>1, <1>2, <1>8, <2>1
    <3>2. PICK i \in SaidIn(cl) : i <= j /\ cl[i].message = cl[j].message
      BY <1>2, <2>1, <3>1 DEF Recorded
    <3>. QED BY <1>2, <1>5, <1>6, <2>1, <3>2
  <2>2. CASE j = m + 1
    <3>1. PICK i \in SaidIn(cl) : cl[i].message = c.message
      BY <1>2, <1>8, <2>2
    <3>2. i <= j
      BY <1>3, <2>2, <3>1
    <3>. QED BY <1>2, <1>5, <1>6, <2>2, <3>1, <3>2
  <2>. QED BY <1>1, <1>2, <2>1, <2>2
<1>. QED BY <1>5, <1>7, <1>8 DEF Recorded, OneClaim

\* What is in the list and not a note was said.
LEMMA MessageSaid ==
  ASSUME NEW n \in Nat, NEW cl, NEW L, NEW at, Recorded(n, cl, L, at), NEW p \in 1 .. Len(L), L[p].sev # "note"
  PROVE  \E i \in SaidIn(cl) : at[i] = p /\ cl[i].message = L[p]
<1>1. PICK i \in SaidIn(cl) : at[i] <= p /\ p <= at[i] + Len(cl[i].notes)
  BY DEF Recorded, Blocks
<1>2. at[i] \in Nat /\ Len(cl[i].notes) \in Nat /\ cl[i].notes \in Seq(NotesAt(n)) /\ AtPlace(cl, L, i, at[i])
  <2>1. i \in 1 .. Len(cl) /\ cl[i] \in ClaimsAt(n)
    BY DEF SaidIn, Recorded, Claims
  <2>2. cl[i].notes \in Seq(NotesAt(n))
    BY <2>1 DEF ClaimsAt
  <2>. QED BY <2>2 DEF Recorded, Blocks
<1>3. CASE p = at[i]
  BY <1>2, <1>3 DEF AtPlace
<1>4. CASE p # at[i]
  <2>1. PICK x \in 1 .. Len(cl[i].notes) : p = at[i] + x
    <3>1. p - at[i] \in 1 .. Len(cl[i].notes) /\ p = at[i] + (p - at[i])
      BY <1>1, <1>2, <1>4
    <3>. QED BY <3>1
  <2>2. L[p] = cl[i].notes[x] /\ cl[i].notes[x] \in NotesAt(n)
    BY <1>2, <2>1 DEF AtPlace
  <2>. QED BY <2>2 DEF NotesAt
<1>. QED BY <1>3, <1>4

\* A message that was not said before is behind the others, with its notes.
Behind(L, c, M) ==
  /\ Len(M) = Len(L) + 1 + Len(c.notes)
  /\ \A p \in 1 .. Len(L) : M[p] = L[p]
  /\ M[Len(L) + 1] = c.message
  /\ \A x \in 1 .. Len(c.notes) : M[Len(L) + 1 + x] = c.notes[x]

\* Then all that was said is recorded.
Added(n, cl, dl, L, M, at) ==
  \E bt : /\ Recorded(n, dl, M, bt) /\ bt[Len(dl)] = Len(L) + 1
          /\ SaidIn(dl) = SaidIn(cl) \cup {Len(dl)}
          /\ \A i \in SaidIn(cl) : bt[i] = at[i]
LEMMA AddSaid ==
  ASSUME NEW n \in Nat, NEW cl, NEW c \in ClaimsAt(n), NEW dl, OneClaim(n, cl, c, dl), NEW L, NEW at, Recorded(n, cl, L, at),
         HeardIn(dl, Len(dl)), \A p \in 1 .. Len(L) : L[p] # c.message,
         NEW M \in Seq(MessagesAt(n)), Behind(L, c, M)
  PROVE  Added(n, cl, dl, L, M, at)
<1>1. /\ Len(cl) \in Nat
      /\ \A i \in 1 .. Len(cl) : HeardIn(dl, i) <=> HeardIn(cl, i)
      /\ \A i : i \in SaidIn(cl) <=> i \in SaidIn(dl) /\ i # Len(cl) + 1
      /\ \A i \in 1 .. Len(dl) : i \in 1 .. Len(cl) \/ i = Len(cl) + 1
  BY HeardStays
<1>2. PICK m \in Nat : m = Len(cl) /\ Len(dl) = m + 1 /\ dl[m + 1] = c /\ \A i \in 1 .. m : dl[i] = cl[i]
  BY <1>1 DEF OneClaim
<1>3. PICK K : K = SaidIn(cl)
  OBVIOUS
<1>4. K \subseteq 1 .. m /\ \A i \in K : HeardIn(cl, i)
  BY <1>2, <1>3 DEF SaidIn
<1>5. L \in Seq(MessagesAt(n)) /\ Blocks(cl, K, L, at)
  BY <1>3 DEF Recorded
<1>6. PICK a \in Nat, b \in Nat : a = Len(L) /\ b = Len(c.notes) /\ Len(M) = a + 1 + b
  <2>1. c.notes \in Seq(NotesAt(n))
    BY DEF ClaimsAt
  <2>2. Len(c.notes) \in Nat /\ Len(L) \in Nat
    BY <1>5, <2>1
  <2>. QED BY <2>2 DEF Behind
<1>7. (\A p \in 1 .. a : M[p] = L[p]) /\ M[a + 1] = c.message /\ \A x \in 1 .. b : M[a + 1 + x] = c.notes[x]
  BY <1>6 DEF Behind
<1>8. ASSUME NEW j \in 1 .. m, HeardIn(cl, j) PROVE \E i \in K : i <= j /\ cl[i].message = cl[j].message
  BY <1>2, <1>3, <1>8 DEF Recorded
<1>9. ASSUME NEW i \in K PROVE cl[i].message # c.message /\ dl[i] = cl[i] /\ AtPlace(cl, L, i, at[i]) /\ i \in 1 .. m
  <2>1. AtPlace(cl, L, i, at[i])
    BY <1>5 DEF Blocks
  <2>2. at[i] \in 1 .. Len(L) /\ L[at[i]] = cl[i].message
    BY <2>1 DEF AtPlace
  <2>. QED BY <1>2, <1>4, <2>1, <2>2
<1>10. m + 1 \in SaidIn(dl)
  <2>1. ASSUME NEW j \in 1 .. (m + 1) - 1, HeardIn(dl, j) PROVE dl[j].message # dl[m + 1].message
    <3>1. j \in 1 .. m /\ HeardIn(cl, j)
      BY <1>1, <1>2, <2>1
    <3>2. PICK i \in K : cl[i].message = cl[j].message
      BY <1>8, <3>1
    <3>. QED BY <1>2, <1>9, <3>1, <3>2
  <2>2. m + 1 \in 1 .. Len(dl)
    BY <1>2
  <2>3. HeardIn(dl, m + 1)
    BY <1>2
  <2>. QED BY <2>1, <2>2, <2>3 DEF SaidIn
<1>11. SaidIn(dl) = K \cup {m + 1} /\ m + 1 \notin K
  BY <1>1, <1>2, <1>3, <1>10
<1>12. PICK bt : bt = [i \in K \cup {m + 1} |-> IF i = m + 1 THEN a + 1 ELSE at[i]]
  OBVIOUS
<1>13. bt[m + 1] = a + 1 /\ \A i \in K : bt[i] = at[i] /\ at[i] \in Nat
  <2>1. \A i \in K : at[i] \in Nat
    BY <1>5 DEF Blocks
  <2>. QED BY <1>11, <1>12, <2>1
<1>14. bt \in [SaidIn(dl) -> Nat]
  BY <1>11, <1>12, <1>13
<1>15. ASSUME NEW i \in K PROVE /\ Len(cl[i].notes) \in Nat /\ at[i] + Len(cl[i].notes) <= a
                               /\ at[i] \in 1 .. a /\ L[at[i]] = cl[i].message
                               /\ \A x \in 1 .. Len(cl[i].notes) : L[at[i] + x] = cl[i].notes[x]
  <2>1. cl[i] \in ClaimsAt(n)
    BY <1>2, <1>9 DEF OneClaim, Claims
  <2>2. cl[i].notes \in Seq(NotesAt(n))
    BY <2>1 DEF ClaimsAt
  <2>3. Len(cl[i].notes) \in Nat
    BY <2>2
  <2>. QED BY <1>6, <1>9, <2>3 DEF AtPlace
<1>16. ASSUME NEW i \in SaidIn(dl) PROVE AtPlace(dl, M, i, bt[i])
  <2>1. CASE i \in K
    <3>1. PICK q \in Nat, k \in Nat : q = at[i] /\ k = Len(cl[i].notes) /\ q + k <= a /\ q \in 1 .. a
      BY <1>13, <1>15, <2>1
    <3>2. q \in 1 .. a + 1 + b /\ q + k <= a + 1 + b /\ \A x \in 1 .. k : q + x \in 1 .. a
      <4>1. 1 <= q /\ q <= a /\ q + k <= a
        BY ONLY <3>1
      <4>. QED BY ONLY <4>1, a \in Nat, b \in Nat, q \in Nat, k \in Nat
    <3>3. M[q] = cl[i].message
      BY <1>7, <1>15, <2>1, <3>1
    <3>4. \A x \in 1 .. k : M[q + x] = cl[i].notes[x]
      BY <1>7, <1>15, <2>1, <3>1, <3>2
    <3>5. dl[i] = cl[i] /\ bt[i] = q
      BY <1>9, <1>13, <2>1, <3>1
    <3>. QED BY ONLY <1>6, <3>1, <3>2, <3>3, <3>4, <3>5 DEF AtPlace
  <2>2. CASE i = m + 1
    <3>1. a + 1 \in 1 .. Len(M) /\ a + 1 + b <= Len(M)
      <4>1. PICK z : z = Len(M)
        OBVIOUS
      <4>2. z = a + 1 + b
        BY ONLY <1>6, <4>1
      <4>3. a + 1 \in 1 .. z /\ a + 1 + b <= z
        BY ONLY <4>2, a \in Nat, b \in Nat
      <4>. QED BY ONLY <4>1, <4>3
    <3>2. dl[i] = c /\ bt[i] = a + 1
      BY ONLY <1>2, <1>13, <2>2
    <3>. QED BY ONLY <1>6, <1>7, <3>1, <3>2 DEF AtPlace
  <2>. QED BY <1>11, <2>1, <2>2
<1>17. ASSUME NEW i \in SaidIn(dl), NEW j \in SaidIn(dl), i < j PROVE bt[i] + Len(dl[i].notes) < bt[j]
  <2>1. i \in K
    BY <1>9, <1>11, <1>17
  <2>2. CASE j \in K
    BY <1>5, <1>9, <1>13, <1>17, <2>1, <2>2 DEF Blocks
  <2>3. CASE j = m + 1
    <3>1. PICK q \in Nat, k \in Nat : q = at[i] /\ k = Len(cl[i].notes) /\ q + k <= a
      BY <1>13, <1>15, <2>1
    <3>2. bt[i] = at[i] /\ dl[i] = cl[i] /\ bt[j] = a + 1
      BY ONLY <1>9, <1>13, <2>1, <2>3
    <3>3. q + k < a + 1
      BY ONLY <3>1, a \in Nat, q \in Nat, k \in Nat
    <3>. QED BY ONLY <3>1, <3>2, <3>3
  <2>. QED BY <1>11, <2>2, <2>3
<1>18. ASSUME NEW p \in 1 .. Len(M) PROVE \E i \in SaidIn(dl) : bt[i] <= p /\ p <= bt[i] + Len(dl[i].notes)
  <2>1. CASE p <= a
    <3>1. PICK i \in K : at[i] <= p /\ p <= at[i] + Len(cl[i].notes)
      BY <1>5, <1>6, <2>1 DEF Blocks
    <3>. QED BY <1>9, <1>11, <1>13, <3>1
  <2>2. CASE ~(p <= a)
    <3>2. p \in Nat /\ p <= a + 1 + b
      <4>1. PICK z : z = Len(M)
        OBVIOUS
      <4>2. z = a + 1 + b /\ p \in 1 .. z
        BY ONLY <1>6, <4>1, p \in 1 .. Len(M)
      <4>. QED BY ONLY <4>2, a \in Nat, b \in Nat
    <3>3. a + 1 <= p
      BY ONLY <2>2, <3>2, a \in Nat
    <3>4. bt[m + 1] = a + 1 /\ Len(dl[m + 1].notes) = b
      BY ONLY <1>2, <1>6, <1>13
    <3>1. bt[m + 1] <= p /\ p <= bt[m + 1] + Len(dl[m + 1].notes)
      BY ONLY <3>2, <3>3, <3>4
    <3>. QED BY <1>10, <3>1
  <2>. QED BY <2>1, <2>2
<1>19. ASSUME NEW i \in SaidIn(dl), NEW j \in SaidIn(dl), dl[i].message = dl[j].message PROVE i = j
  <2>1. \A k \in K : dl[k].message # dl[m + 1].message /\ dl[k] = cl[k]
    BY <1>2, <1>9
  <2>2. CASE i \in K /\ j \in K
    BY <1>5, <1>19, <2>1, <2>2 DEF Blocks
  <2>. QED BY <1>11, <1>19, <2>1, <2>2
<1>20. Blocks(dl, SaidIn(dl), M, bt)
  <2>1. SaidIn(dl) \subseteq 1 .. Len(dl)
    BY DEF SaidIn
  <2>. QED BY ONLY <1>14, <1>16, <1>17, <1>18, <1>19, <2>1 DEF Blocks
<1>21. ASSUME NEW j \in 1 .. Len(dl), HeardIn(dl, j)
       PROVE  \E i \in SaidIn(dl) : i <= j /\ dl[i].message = dl[j].message
  <2>1. CASE j \in 1 .. m
    <3>1. HeardIn(cl, j)
      BY <1>1, <1>2, <1>21, <2>1
    <3>2. PICK i \in K : i <= j /\ cl[i].message = cl[j].message
      BY <1>8, <2>1, <3>1
    <3>. QED BY <1>2, <1>9, <1>11, <2>1, <3>2
  <2>2. CASE j = m + 1
    BY <1>10, <2>2
  <2>. QED BY <1>1, <1>2, <2>1, <2>2
<1>22. Recorded(n, dl, M, bt)
  <2>1. Claims(n, dl)
    BY DEF OneClaim
  <2>. QED BY ONLY <1>20, <1>21, <2>1, M \in Seq(MessagesAt(n)) DEF Recorded
<1>. QED BY <1>2, <1>3, <1>6, <1>11, <1>13, <1>22 DEF Added

\* The interruption is the last that is shown, and has no notes.
EndsAt(cl, at, stop) ==
  IF stop = Unlimited THEN \A i \in 1 .. Len(cl) : ~IsEnd(cl[i].message)
  ELSE \E j \in SaidIn(cl) : /\ IsEnd(cl[j].message) /\ at[j] = stop /\ cl[j].notes = <<>>
                             /\ \A i \in 1 .. Len(cl) : i # j => ~IsEnd(cl[i].message)
Saying(n, cl, l) == \E at : Recorded(n, cl, Closed(l).list, at) /\ EndsAt(cl, at, l.stop)

\* One more claim that is not an interruption
LEMMA EndsStays ==
  ASSUME NEW n \in Nat, NEW cl, NEW c, ~IsEnd(c.message), NEW dl, OneClaim(n, cl, c, dl),
         NEW at, NEW bt, \A i \in SaidIn(cl) : bt[i] = at[i], SaidIn(cl) \subseteq SaidIn(dl),
         NEW stop, EndsAt(cl, at, stop)
  PROVE  EndsAt(dl, bt, stop)
<1>1. PICK m \in Nat : /\ m = Len(cl) /\ Len(dl) = m + 1 /\ dl[m + 1] = c
                       /\ \A i \in 1 .. m : dl[i] = cl[i]
                       /\ \A i \in 1 .. Len(dl) : i \in 1 .. m \/ i = m + 1
  BY HeardStays DEF OneClaim
<1>2. CASE stop = Unlimited
  BY <1>1, <1>2 DEF EndsAt
<1>3. CASE stop # Unlimited
  <2>1. PICK j \in SaidIn(cl) : /\ IsEnd(cl[j].message) /\ at[j] = stop /\ cl[j].notes = <<>>
                                /\ \A i \in 1 .. Len(cl) : i # j => ~IsEnd(cl[i].message)
    BY <1>3 DEF EndsAt
  <2>2. j \in 1 .. m /\ dl[j] = cl[j] /\ bt[j] = stop /\ j \in SaidIn(dl)
    BY <1>1, <2>1 DEF SaidIn
  <2>3. \A i \in 1 .. Len(dl) : i # j => ~IsEnd(dl[i].message)
    BY <1>1, <2>1
  <2>. QED BY <1>3, <2>1, <2>2, <2>3 DEF EndsAt
<1>. QED BY <1>2, <1>3

\* What is reported is said, unless it is not heard or was said before.
LEMMA SaysReport ==
  ASSUME NEW n \in Nat, NEW l \in LogsAt(n), NEW cl, Saying(n, cl, l), NEW c \in ClaimsAt(n),
         ~IsEnd(c.message), c.message.sev # "note", NEW dl, dl = Append(cl, c),
         NEW o \in LogsAt(n), o.stop = l.stop,
         IF HeardIn(dl, Len(dl)) /\ c.message \notin ToSet(Closed(l).list)
         THEN Behind(Closed(l).list, c, Closed(o).list) ELSE Closed(o).list = Closed(l).list
  PROVE  Saying(n, dl, o)
<1>1. PICK L, M : L = Closed(l).list /\ M = Closed(o).list
  OBVIOUS
<1>2. L \in Seq(MessagesAt(n)) /\ M \in Seq(MessagesAt(n))
  BY <1>1, ClosedIs DEF LogsAt
<1>3. PICK at : Recorded(n, cl, L, at) /\ EndsAt(cl, at, l.stop)
  BY <1>1 DEF Saying
<1>4. OneClaim(n, cl, c, dl)
  <2>1. Claims(n, cl)
    BY <1>3 DEF Recorded
  <2>. QED BY <2>1, OneClaimIs
<1>5. \A e : e \in ToSet(L) <=> \E p \in 1 .. Len(L) : L[p] = e
  BY <1>2, ToSetIs
<1>6. CASE HeardIn(dl, Len(dl)) /\ c.message \notin ToSet(L)
  <2>1. Behind(L, c, M) /\ \A p \in 1 .. Len(L) : L[p] # c.message
    BY <1>1, <1>5, <1>6
  <2>4. HeardIn(dl, Len(dl)) /\ M \in Seq(MessagesAt(n)) /\ Recorded(n, cl, L, at)
    BY ONLY <1>2, <1>3, <1>6
  <2>2. PICK bt : /\ Recorded(n, dl, M, bt) /\ bt[Len(dl)] = Len(L) + 1
                  /\ SaidIn(dl) = SaidIn(cl) \cup {Len(dl)}
                  /\ \A i \in SaidIn(cl) : bt[i] = at[i]
    <3>1. Added(n, cl, dl, L, M, at)
      BY ONLY <1>4, <2>1, <2>4, n \in Nat, c \in ClaimsAt(n), AddSaid
    <3>. QED BY ONLY <3>1 DEF Added
  <2>3. EndsAt(dl, bt, l.stop)
    BY <1>3, <1>4, <2>2, EndsStays
  <2>. QED BY <1>1, <2>2, <2>3 DEF Saying
<1>7. CASE ~(HeardIn(dl, Len(dl)) /\ c.message \notin ToSet(L))
  <2>1. ASSUME HeardIn(dl, Len(dl)) PROVE \E i \in SaidIn(cl) : cl[i].message = c.message
    <3>1. PICK p \in 1 .. Len(L) : L[p] = c.message
      BY <1>5, <1>7, <2>1
    <3>. QED BY <1>3, <3>1, MessageSaid
  <2>2. Recorded(n, dl, L, at) /\ SaidIn(dl) = SaidIn(cl)
    BY <1>3, <1>4, <2>1, NotSaid
  <2>3. EndsAt(dl, at, l.stop)
    BY <1>3, <1>4, <2>2, EndsStays
  <2>4. M = L
    BY <1>1, <1>7
  <2>. QED BY <1>1, <2>2, <2>3, <2>4 DEF Saying
<1>. QED BY <1>6, <1>7

\* The interruption
LEMMA SaysEnd ==
  ASSUME NEW n \in Nat, NEW l \in LogsAt(n), NEW cl, Saying(n, cl, l), l.stop = Unlimited, NEW c \in ClaimsAt(n),
         IsEnd(c.message), c.notes = <<>>, c.name = <<>>, ~c.early, NEW dl, dl = Append(cl, c),
         NEW o \in LogsAt(n), Behind(Closed(l).list, c, Closed(o).list), o.stop = Len(Closed(l).list) + 1
  PROVE  Saying(n, dl, o)
<1>1. PICK L, M : L = Closed(l).list /\ M = Closed(o).list
  OBVIOUS
<1>2. L \in Seq(MessagesAt(n)) /\ M \in Seq(MessagesAt(n))
  BY <1>1, ClosedIs DEF LogsAt
<1>3. PICK at : Recorded(n, cl, L, at) /\ EndsAt(cl, at, l.stop)
  BY <1>1 DEF Saying
<1>4. c.message.sev # "note"
  BY DEF IsEnd
<1>5. OneClaim(n, cl, c, dl)
  <2>1. Claims(n, cl)
    BY <1>3 DEF Recorded
  <2>. QED BY <1>4, <2>1, OneClaimIs
<1>6. PICK m \in Nat : /\ m = Len(cl) /\ Len(dl) = m + 1 /\ dl[m + 1] = c
                       /\ \A i \in 1 .. m : dl[i] = cl[i]
                       /\ \A i \in 1 .. Len(dl) : i \in 1 .. m \/ i = m + 1
  <2>1. Len(cl) \in Nat /\ \A i \in 1 .. Len(dl) : i \in 1 .. Len(cl) \/ i = Len(cl) + 1
    BY ONLY n \in Nat, <1>5, HeardStays
  <2>2. Len(dl) = Len(cl) + 1 /\ dl[Len(cl) + 1] = c /\ \A i \in 1 .. Len(cl) : dl[i] = cl[i]
    BY ONLY <1>5 DEF OneClaim
  <2>. QED BY ONLY <2>1, <2>2
<1>7. \A i \in 1 .. m : ~IsEnd(cl[i].message)
  BY <1>3, <1>6 DEF EndsAt
<1>8. HeardIn(dl, Len(dl))
  BY <1>6 DEF HeardIn
<1>9. ASSUME NEW p \in 1 .. Len(L), L[p] = c.message PROVE FALSE
  <2>1. PICK i \in SaidIn(cl) : cl[i].message = c.message
    BY <1>3, <1>4, <1>9, MessageSaid
  <2>2. i \in 1 .. m
    BY <1>6, <2>1 DEF SaidIn
  <2>. QED BY <1>7, <2>1, <2>2
<1>10. PICK bt : /\ Recorded(n, dl, M, bt) /\ bt[Len(dl)] = Len(L) + 1
                 /\ SaidIn(dl) = SaidIn(cl) \cup {Len(dl)}
                 /\ \A i \in SaidIn(cl) : bt[i] = at[i]
  <2>1. Behind(L, c, M) /\ \A p \in 1 .. Len(L) : L[p] # c.message
    BY <1>1, <1>9
  <2>2. M \in Seq(MessagesAt(n)) /\ Recorded(n, cl, L, at)
    BY <1>2, <1>3
  <2>3. Added(n, cl, dl, L, M, at)
    BY ONLY <1>5, <1>8, <2>1, <2>2, n \in Nat, c \in ClaimsAt(n), AddSaid
  <2>. QED BY ONLY <2>3 DEF Added
<1>11. EndsAt(dl, bt, o.stop)
  <2>1. m + 1 \in SaidIn(dl) /\ bt[m + 1] = o.stop /\ dl[m + 1].notes = <<>> /\ IsEnd(dl[m + 1].message)
    BY <1>1, <1>6, <1>10
  <2>2. \A i \in 1 .. Len(dl) : i # m + 1 => ~IsEnd(dl[i].message)
    BY <1>6, <1>7
  <2>3. o.stop # Unlimited
    BY <1>1, <1>2 DEF Unlimited
  <2>. QED BY <2>1, <2>2, <2>3 DEF EndsAt
<1>. QED BY <1>1, <1>10, <1>11 DEF Saying

\* A list that is closed is the same when it is closed again.
LEMMA SaysClosed ==
  ASSUME NEW n \in Nat, NEW l \in LogsAt(n), NEW cl, Saying(n, cl, l)
  PROVE  Saying(n, cl, Closed(l))
<1>1. PICK c : c = Closed(l)
  OBVIOUS
<1>2. c.open = NoEntry /\ c.stop = l.stop
  BY <1>1, ClosedIs
<1>3. Closed(c) = c
  BY <1>2 DEF Closed
<1>. QED BY <1>1, <1>2, <1>3 DEF Saying

\* The same at more nodes
LEMMA SaysMore ==
  ASSUME NEW n \in Nat, NEW m \in Nat, n <= m, NEW cl, NEW l, Saying(n, cl, l)
  PROVE  Saying(m, cl, l)
<1>1. PICK at : Recorded(n, cl, Closed(l).list, at) /\ EndsAt(cl, at, l.stop)
  BY DEF Saying
<1>2. ClaimsAt(n) \subseteq ClaimsAt(m) /\ MessagesAt(n) \subseteq MessagesAt(m)
  BY MoreNodes
<1>3. Claims(m, cl)
  <2>1. cl \in Seq(ClaimsAt(n)) /\ \A i \in 1 .. Len(cl) : cl[i].message.sev # "note"
    BY <1>1 DEF Recorded, Claims
  <2>2. cl \in Seq(ClaimsAt(m))
    BY ONLY <1>2, <2>1
  <2>. QED BY <2>1, <2>2 DEF Claims
<1>4. Closed(l).list \in Seq(MessagesAt(m))
  <2>1. Closed(l).list \in Seq(MessagesAt(n))
    BY <1>1 DEF Recorded
  <2>. QED BY ONLY <1>2, <2>1
<1>5. Recorded(m, cl, Closed(l).list, at)
  BY <1>1, <1>3, <1>4 DEF Recorded
<1>. QED BY <1>1, <1>5 DEF Saying

\* Nothing was said yet.
LEMMA SaysNothing ==
  ASSUME NEW n \in Nat
  PROVE  Saying(n, <<>>, EmptyLog)
<1>1. Closed(EmptyLog) = EmptyLog /\ EmptyLog.list = <<>> /\ EmptyLog.stop = Unlimited
  BY DEF Closed, EmptyLog
<1>2. <<>> \in Seq(MessagesAt(n)) /\ <<>> \in Seq(ClaimsAt(n)) /\ Len(<<>>) = 0 /\ 1 .. Len(<<>>) = {}
  <2>1. <<>> \in Seq(MessagesAt(n)) /\ <<>> \in Seq(ClaimsAt(n))
    BY ONLY EmptySeq
  <2>2. Len(<<>>) = 0
    OBVIOUS
  <2>. QED BY <2>1, <2>2
<1>3. SaidIn(<<>>) = {}
  BY <1>2 DEF SaidIn
<1>4. PICK at : at = [i \in {} |-> 0]
  OBVIOUS
<1>5. at \in [SaidIn(<<>>) -> Nat]
  BY <1>3, <1>4
<1>6. Blocks(<<>>, SaidIn(<<>>), <<>>, at)
  BY ONLY <1>2, <1>3, <1>5 DEF Blocks
<1>7. Recorded(n, <<>>, <<>>, at)
  BY ONLY <1>2, <1>6 DEF Recorded, Claims
<1>8. EndsAt(<<>>, at, Unlimited)
  BY ONLY <1>2 DEF EndsAt
<1>. QED BY <1>1, <1>7, <1>8 DEF Saying

\* A message and its notes, as they were reported
LEMMA BehindSpoken ==
  ASSUME NEW n \in Nat, NEW said \in Seq(MessagesAt(n)), Len(said) >= 1, NEW c,
         c.message = said[1], c.notes = Tail(said), NEW L \in Seq(MessagesAt(n)),
         NEW M, Extended(L, said, Len(said), M)
  PROVE  Behind(L, c, M)
<1>1. PICK a \in Nat, k \in Nat : a = Len(L) /\ k = Len(said) /\ k >= 1
  OBVIOUS
<1>2. PICK t : t = Tail(said)
  OBVIOUS
<1>3. Len(t) = k - 1 /\ \A i \in 1 .. k - 1 : t[i] = said[i + 1]
  <2>1. said # <<>>
    BY <1>1
  <2>. QED BY <1>1, <1>2, <2>1, HeadTailProperties
<1>4. Len(M) = a + k /\ (\A p \in 1 .. a : M[p] = L[p]) /\ \A i \in 1 .. k : M[a + i] = said[i]
  BY <1>1 DEF Extended
<1>5. M[a + 1] = c.message
  <2>1. 1 \in 1 .. k
    BY <1>1
  <2>. QED BY <1>4, <2>1
<1>6. ASSUME NEW x \in 1 .. k - 1 PROVE M[a + 1 + x] = t[x]
  <2>1. x + 1 \in 1 .. k /\ a + 1 + x = a + (x + 1)
    BY <1>1
  <2>2. M[a + (x + 1)] = said[x + 1]
    BY <1>4, <2>1
  <2>. QED BY <1>3, <2>1, <2>2
<1>7. Len(M) = a + 1 + Len(t)
  BY <1>1, <1>3, <1>4
<1>8. c.notes = t
  BY <1>2
<1>. QED BY ONLY <1>1, <1>3, <1>4, <1>5, <1>6, <1>7, <1>8 DEF Behind

\* A message alone
LEMMA BehindAlone ==
  ASSUME NEW n \in Nat, NEW L \in Seq(MessagesAt(n)), NEW c, c.message \in MessagesAt(n), c.notes = <<>>,
         NEW M, M = Append(L, c.message)
  PROVE  Behind(L, c, M)
<1>1. PICK a \in Nat : a = Len(L)
  OBVIOUS
<1>2. Len(M) = a + 1 /\ M[a + 1] = c.message /\ \A i \in 1 .. a : M[i] = L[i]
  BY <1>1, AppendProperties
<1>3. Len(c.notes) = 0 /\ 1 .. 0 = {}
  OBVIOUS
<1>4. Len(M) = a + 1 + 0
  BY <1>2
<1>. QED BY <1>1, <1>2, <1>3, <1>4 DEF Behind

\* A claim was too early.
AnyEarly(cl) == \E c \in ToSet(cl) : c.early

\* What the program says by itself is said.
LEMMA AsideSays ==
  ASSUME MsgTyped, Saying(Len(nodes), claims, log), NEW node \in 0 .. Len(nodes), NEW at \in Nat,
         NEW text \in ProgramTexts, NEW e, e = Failure(node, at, text),
         NEW o, IF text = "interrupted" THEN log.stop = Unlimited /\ o = Signalled(log, e) ELSE o = Opened(log, e)
  PROVE  Saying(Len(nodes), Aside(e), o) /\ (AnyEarly(Aside(e)) <=> AnyEarly(claims))
<1>1. PICK n \in Nat : n = Len(nodes)
  BY DEF MsgTyped, Tree
<1>2. e.sev = "fatal" /\ e.text = text
  BY DEF Failure, Entry
<1>3. e \in MessagesAt(n)
  BY ONLY <1>1, MsgTyped, node \in 0 .. Len(nodes), at \in Nat, text \in ProgramTexts, e = Failure(node, at, text), AsideIs
<1>4. PICK c : c = [message |-> e, notes |-> <<>>, name |-> <<>>, early |-> FALSE]
  OBVIOUS
<1>5. c \in ClaimsAt(n) /\ c.message = e /\ c.notes = <<>> /\ c.name = <<>> /\ ~c.early
  <2>1. <<>> \in Names
    BY DEF Names
  <2>2. <<>> \in Seq(NotesAt(n))
    BY ONLY EmptySeq
  <2>. QED BY <1>3, <1>4, <2>1, <2>2 DEF ClaimsAt
<1>6. PICK dl : dl = Append(claims, c) /\ dl = Aside(e)
  BY <1>4 DEF Aside
<1>7. claims \in Seq(ClaimsAt(n)) /\ log \in LogsAt(n) /\ StopOK(log) /\ Saying(n, claims, log)
  BY <1>1 DEF MsgTyped
<1>8. PICK L \in Seq(MessagesAt(n)) : L = Closed(log).list
  BY <1>7, ClosedIs DEF LogsAt
<1>9. Saying(n, dl, o)
  <2>1. CASE text = "interrupted"
    <3>1. IsEnd(e) /\ log.stop = Unlimited /\ o = Signalled(log, e)
      BY <1>2, <2>1 DEF IsEnd
    <3>2. o \in LogsAt(n) /\ o.stop = Len(L) + 1 /\ Closed(o).list = Append(L, e)
      BY ONLY <1>3, <1>7, <1>8, <3>1, n \in Nat, SignalledIs
    <3>3. Behind(L, c, Closed(o).list)
      BY ONLY <1>3, <1>5, <3>2, n \in Nat, L \in Seq(MessagesAt(n)), BehindAlone
    <3>4. IsEnd(c.message)
      BY <1>5, <3>1
    <3>. QED BY ONLY <1>5, <1>6, <1>7, <1>8, <3>1, <3>2, <3>3, <3>4, n \in Nat, SaysEnd
  <2>2. CASE text # "interrupted"
    <3>1. ~IsEnd(e) /\ o = Opened(log, e)
      BY <1>2, <2>2 DEF IsEnd
    <3>2. o \in LogsAt(n) /\ o.stop = log.stop
      BY ONLY <1>3, <1>7, <3>1, n \in Nat, OpenedIs
    <3>3. PICK d : d = Closed(o)
      OBVIOUS
    <3>4. OpensTo(Closed(log), e, d)
      BY ONLY <1>3, <1>7, <3>1, <3>3, n \in Nat, OpenedList
    <3>5. d.list = IF e \in ToSet(L) THEN L ELSE Append(L, e)
      <4>1. Drops(Closed(log), e) <=> e \in ToSet(L)
        BY ONLY <1>2, <1>8 DEF Drops
      <4>. QED BY ONLY <1>8, <3>4, <4>1 DEF OpensTo
    <3>6. IF e \in ToSet(L) THEN Closed(o).list = L ELSE Behind(L, c, Closed(o).list)
      <4>1. CASE e \in ToSet(L)
        BY <3>3, <3>5, <4>1
      <4>2. CASE e \notin ToSet(L)
        BY <1>3, <1>5, <3>3, <3>5, <4>2, BehindAlone
      <4>. QED BY <4>1, <4>2
    <3>7. HeardIn(dl, Len(dl))
      <4>1. PICK m \in Nat : m = Len(claims)
        BY <1>7
      <4>3. dl = Append(claims, c) /\ claims \in Seq(ClaimsAt(n)) /\ c \in ClaimsAt(n)
        BY ONLY <1>5, <1>6, <1>7
      <4>4. Len(dl) = Len(claims) + 1 /\ dl[Len(claims) + 1] = c
        BY ONLY <4>3, AppendProperties
      <4>2. Len(dl) = m + 1 /\ dl[m + 1] = c
        BY ONLY <4>1, <4>4
      <4>. QED BY <1>5, <4>2 DEF HeardIn
    <3>8. ~IsEnd(c.message) /\ c.message.sev # "note"
      BY <1>2, <1>5, <3>1
    <3>9. IF HeardIn(dl, Len(dl)) /\ c.message \notin ToSet(Closed(log).list)
          THEN Behind(Closed(log).list, c, Closed(o).list) ELSE Closed(o).list = Closed(log).list
      BY ONLY <1>5, <1>8, <3>6, <3>7
    <3>. QED BY ONLY <1>5, <1>6, <1>7, <3>2, <3>8, <3>9, n \in Nat, SaysReport
  <2>. QED BY <2>1, <2>2
<1>10. AddedTo(claims, c, dl)
  BY ONLY <1>5, <1>6, <1>7, OneMore
<1>11. AnyEarly(dl) <=> AnyEarly(claims)
  BY ONLY <1>5, <1>10 DEF AnyEarly, AddedTo
<1>. QED BY <1>1, <1>6, <1>9, <1>11

\* The names that were not found in this pass are those of which it was told.
NamesTold ==
  \A key : <<key, pass>> \in notdefines
             <=> key # <<>> /\ \E j \in 1 .. Len(claims) : ~claims[j].early /\ claims[j].name = key
SaidInv ==
  /\ Saying(Len(nodes), claims, log)
  /\ InPass => NamesTold
  /\ AnyEarly(claims) => IF InPass THEN Pending ELSE signal

\* The key of a name is not that of a report without one.
LEMMA KeyNotEmpty == ASSUME NEW r PROVE KeyOf(r) # <<>>
BY DEF KeyOf

\* A report is heard unless it is too early or known.
LEMMA ReportHeard ==
  ASSUME StatusInv, SaidInv, InPass, NEW r \in Reports, NEW c,
         c.name = IF r.kind = "undefined" THEN KeyOf(r) ELSE <<>>, c.early = Early(r),
         NEW dl, Len(dl) = Len(claims) + 1, dl[Len(claims) + 1] = c, \A i \in 1 .. Len(claims) : dl[i] = claims[i]
  PROVE  HeardIn(dl, Len(dl)) <=> ~(Early(r) \/ Known(r))
<1>1. PICK m \in Nat : m = Len(claims)
  BY DEF StatusInv, MsgTyped
<1>2. HeardIn(dl, Len(dl)) <=>
        ~c.early /\ (c.name = <<>> \/ \A j \in 1 .. m : claims[j].early \/ claims[j].name # c.name)
  <2>1. (m + 1) - 1 = m
    OBVIOUS
  <2>. QED BY <1>1, <2>1 DEF HeardIn
<1>3. NamesTold
  BY DEF SaidInv
<1>4. CASE r.kind = "undefined"
  <2>1. Known(r) <=> \E j \in 1 .. m : ~claims[j].early /\ claims[j].name = KeyOf(r)
    BY <1>1, <1>3, <1>4, KeyNotEmpty DEF Known, NamesTold
  <2>2. c.name = KeyOf(r) /\ KeyOf(r) # <<>>
    BY <1>4, KeyNotEmpty
  <2>. QED BY <1>2, <2>1, <2>2
<1>5. CASE r.kind # "undefined"
  BY <1>2, <1>5 DEF Known
<1>. QED BY <1>4, <1>5

\* A report in a pass
LEMMA ReportSays ==
  ASSUME StatusInv, SaidInv, InPass, NEW r \in Reports, Report(r), stage' = stage
  PROVE  SaidInv'
<1>1. PICK n \in Nat : n = Len(nodes)
  BY DEF StatusInv, MsgTyped, Tree
<1>2. MsgTyped /\ DuringPasses /\ here \in 1 .. n /\ Tree(nodes) /\ n >= 2
  <2>1. here # 0 /\ here \in 0 .. n
    BY <1>1 DEF StatusInv, MsgTyped, Report, Root
  <2>2. here \in 1 .. n
    BY <2>1
  <2>. QED BY <1>1, <2>2 DEF StatusInv, MsgTyped
<1>3. PICK said : said = Produced(r)
  OBVIOUS
<1>4. Spoken(n, said, SevOf(r))
  BY <1>1, <1>2, <1>3, ProducedIs
<1>5. PICK c : c = [message |-> said[1], notes |-> Tail(said), name |-> IF r.kind = "undefined" THEN KeyOf(r) ELSE <<>>,
                    early |-> Early(r)]
  OBVIOUS
<1>6. c \in ClaimsAt(n) /\ c.message.sev = SevOf(r)
  BY <1>4, <1>5, ClaimIs
<1>7. PICK dl : dl = Append(claims, c) /\ claims' = dl
  BY <1>3, <1>5 DEF Report
<1>8. PICK m \in Nat : m = Len(claims) /\ Len(dl) = m + 1 /\ dl[m + 1] = c /\ \A i \in 1 .. m : dl[i] = claims[i]
  <2>1. claims \in Seq(ClaimsAt(n)) /\ c \in ClaimsAt(n) /\ dl = Append(claims, c)
    BY <1>1, <1>2, <1>6, <1>7 DEF MsgTyped
  <2>2. Len(dl) = Len(claims) + 1 /\ dl[Len(claims) + 1] = c /\ \A i \in 1 .. Len(claims) : dl[i] = claims[i]
    BY ONLY <2>1, AppendProperties
  <2>3. Len(claims) \in Nat
    BY <2>1
  <2>. QED BY <2>2, <2>3
<1>9. PICK o : o = Logged(log, said)
  OBVIOUS
<1>10. log \in LogsAt(n) /\ o \in LogsAt(n) /\ o.stop = log.stop /\ Grown(log, said, Len(said), o)
  <2>1. log \in LogsAt(Len(nodes)) /\ StopOK(log)
    BY <1>2 DEF MsgTyped
  <2>. QED BY <1>1, <1>2, <1>3, <1>9, <2>1, ReportLogs
<1>11. /\ log' = (IF Early(r) \/ Known(r) THEN log ELSE o)
       /\ pass' = pass /\ max_pass' = max_pass /\ nodes' = nodes
       /\ constcreated' = constcreated /\ fixeddig' = fixeddig
       /\ notdefines' = IF r.kind # "undefined" \/ Early(r) THEN notdefines
                        ELSE {k \in notdefines : k[1] # KeyOf(r)} \cup {<<KeyOf(r), pass>>}
  BY <1>3, <1>9 DEF Report
<1>12. c.name = (IF r.kind = "undefined" THEN KeyOf(r) ELSE <<>>) /\ c.early = Early(r)
       /\ c.message = said[1] /\ c.notes = Tail(said)
  BY <1>5
<1>13. HeardIn(dl, Len(dl)) <=> ~(Early(r) \/ Known(r))
  BY <1>8, <1>12, ReportHeard
<1>14. PICK L \in Seq(MessagesAt(n)) : L = Closed(log).list
  BY <1>10, ClosedIs DEF LogsAt
<1>15. said \in Seq(MessagesAt(n)) /\ Len(said) >= 1
  BY <1>4 DEF Spoken
<1>16. IF HeardIn(dl, Len(dl)) /\ c.message \notin ToSet(Closed(log).list)
       THEN Behind(Closed(log).list, c, Closed(log').list) ELSE Closed(log').list = Closed(log).list
  <2>1. CASE Early(r) \/ Known(r)
    BY <1>11, <1>13, <2>1
  <2>2. CASE ~(Early(r) \/ Known(r)) /\ c.message \in ToSet(L)
    BY <1>10, <1>11, <1>12, <1>14, <2>2 DEF Grown
  <2>3. CASE ~(Early(r) \/ Known(r)) /\ c.message \notin ToSet(L)
    <3>1. Extended(L, said, Len(said), Closed(o).list)
      BY <1>10, <1>12, <1>14, <2>3 DEF Grown
    <3>2. Behind(L, c, Closed(o).list)
      BY ONLY <1>12, <1>15, <3>1, n \in Nat, L \in Seq(MessagesAt(n)), BehindSpoken
    <3>. QED BY <1>11, <1>13, <1>14, <2>3, <3>2
  <2>. QED BY <1>14, <2>1, <2>2, <2>3
<1>17. Saying(n, dl, log')
  <2>1. ~IsEnd(c.message) /\ c.message.sev # "note"
    BY <1>6 DEF SevOf, IsEnd
  <2>2. log' \in LogsAt(n) /\ log'.stop = log.stop
    BY <1>10, <1>11
  <2>3. Saying(n, claims, log) /\ dl = Append(claims, c)
    BY <1>1, <1>7 DEF SaidInv
  <2>4. PICK l, k : l = log /\ k = log'
    OBVIOUS
  <2>5. /\ ~IsEnd(c.message) /\ c.message.sev # "note" /\ k \in LogsAt(n) /\ l \in LogsAt(n) /\ k.stop = l.stop
        /\ Saying(n, claims, l) /\ dl = Append(claims, c) /\ c \in ClaimsAt(n)
        /\ IF HeardIn(dl, Len(dl)) /\ c.message \notin ToSet(Closed(l).list)
           THEN Behind(Closed(l).list, c, Closed(k).list) ELSE Closed(k).list = Closed(l).list
    BY ONLY <1>6, <1>10, <1>16, <2>1, <2>2, <2>3, <2>4
  <2>6. Saying(n, dl, k)
    BY ONLY <2>5, n \in Nat, SaysReport
  <2>. QED BY ONLY <2>4, <2>6
<1>18. (InPass' <=> InPass) /\ (Pending' <=> Pending)
  BY <1>11 DEF InPass, Pending
<1>19. NamesTold'
  <2>. SUFFICES ASSUME NEW key
                PROVE  <<key, pass>> \in notdefines'
                         <=> key # <<>> /\ \E j \in 1 .. m + 1 : ~dl[j].early /\ dl[j].name = key
    <3>1. claims' = dl /\ Len(dl) = m + 1 /\ pass' = pass
      BY ONLY <1>7, <1>8, <1>11
    <3>. QED BY <3>1 DEF NamesTold
  <2>1. <<key, pass>> \in notdefines <=> key # <<>> /\ \E j \in 1 .. m : ~dl[j].early /\ dl[j].name = key
    BY <1>8 DEF SaidInv, NamesTold
  <2>2. \A j : j \in 1 .. m + 1 <=> j \in 1 .. m \/ j = m + 1
    OBVIOUS
  <2>3. (\E j \in 1 .. m + 1 : ~dl[j].early /\ dl[j].name = key)
          <=> (\E j \in 1 .. m : ~dl[j].early /\ dl[j].name = key) \/ (~Early(r) /\ c.name = key)
    BY <1>8, <1>12, <2>2
  <2>4. CASE r.kind # "undefined" \/ Early(r)
    <3>1. notdefines' = notdefines
      BY <1>11, <2>4
    <3>2. r.kind # "undefined" => c.name = <<>>
      BY <1>12
    <3>. QED BY <2>1, <2>3, <2>4, <3>1, <3>2
  <2>5. CASE r.kind = "undefined" /\ ~Early(r)
    <3>1. notdefines' = {k \in notdefines : k[1] # KeyOf(r)} \cup {<<KeyOf(r), pass>>}
      BY <1>11, <2>5
    <3>2. PICK K : K = KeyOf(r) /\ K # <<>> /\ c.name = K
      BY <1>12, <2>5, KeyNotEmpty
    <3>3. <<key, pass>> \in notdefines' <=> (<<key, pass>> \in notdefines /\ key # K) \/ key = K
      BY <3>1, <3>2
    <3>. QED BY <2>1, <2>3, <2>5, <3>2, <3>3
  <2>. QED BY <2>4, <2>5
<1>20. ASSUME AnyEarly(dl) PROVE Pending
  <2>1. AddedTo(claims, c, dl)
    <3>1. claims \in Seq(ClaimsAt(n)) /\ dl = Append(claims, c)
      BY <1>1, <1>2, <1>7 DEF MsgTyped
    <3>. QED BY ONLY <1>6, <3>1, OneMore
  <2>2. AnyEarly(claims) \/ c.early
    BY ONLY <1>20, <2>1 DEF AnyEarly, AddedTo
  <2>3. CASE AnyEarly(claims)
    BY <2>3 DEF SaidInv
  <2>4. CASE c.early
    BY <1>2, <1>12, <2>4, EarlyPending
  <2>. QED BY <2>2, <2>3, <2>4
<1>. QED BY <1>1, <1>7, <1>11, <1>17, <1>18, <1>19, <1>20 DEF SaidInv

\* Steps that report nothing
LEMMA QuietSays ==
  ASSUME StatusInv, SaidInv, InPass, stage' = stage,
         (\E inc \in Inclusions : Enter(inc)) \/ Exit \/ Unsettled \/ Interrupt
  PROVE  SaidInv'
<1>1. PICK n \in Nat : n = Len(nodes)
  BY DEF StatusInv, MsgTyped, Tree
<1>2. log' = log /\ claims' = claims /\ notdefines' = notdefines /\ pass' = pass /\ max_pass' = max_pass
  BY DEF Enter, Exit, Unsettled, Interrupt
<1>3. Pending => Pending'
  <2>1. (constcreated => constcreated') /\ (~fixeddig => ~fixeddig')
    <3>1. constcreated \in BOOLEAN /\ fixeddig \in BOOLEAN
      BY DEF StatusInv, MsgTyped
    <3>. QED BY <3>1 DEF Enter, Exit, Unsettled, Interrupt
  <2>. QED BY <1>2, <2>1 DEF Pending
<1>4. n <= Len(nodes') /\ Len(nodes') \in Nat
  <2>1. CASE \E inc \in Inclusions : Enter(inc)
    <3>1. PICK inc \in Inclusions : Enter(inc)
      BY <2>1
    <3>2. PICK e : e = Entered(nodes, here, inc, pass)
      OBVIOUS
    <3>3. inc.at \in Ats /\ inc.file \in FileNames /\ inc.macro \in BOOLEAN
      BY MessagesAssumption DEF Ats, FileNames
    <3>4. Tree(nodes) /\ here \in 0 .. Len(nodes) /\ pass \in Nat
      BY DEF StatusInv, MsgTyped
    <3>5. Tree(e.nodes) /\ Len(nodes) <= Len(e.nodes)
      BY ONLY <3>2, <3>3, <3>4, EnteredIs
    <3>6. nodes' = e.nodes
      BY <3>1, <3>2 DEF Enter
    <3>7. Len(e.nodes) \in Nat
      BY <3>5 DEF Tree
    <3>. QED BY <1>1, <3>5, <3>6, <3>7
  <2>2. CASE Exit \/ Unsettled \/ Interrupt
    BY <1>1, <2>2 DEF Exit, Unsettled, Interrupt
  <2>. QED BY <2>1, <2>2
<1>5. Saying(Len(nodes'), claims, log)
  <2>1. Saying(n, claims, log)
    BY <1>1 DEF SaidInv
  <2>. QED BY ONLY <1>4, <2>1, n \in Nat, SaysMore
<1>6. (InPass' <=> InPass) /\ (NamesTold' <=> NamesTold)
  BY <1>2 DEF InPass, NamesTold
<1>. QED BY <1>2, <1>3, <1>5, <1>6 DEF SaidInv

\* The interruption in a pass
LEMMA NoticeSays ==
  ASSUME StatusInv, SaidInv, InPass, Notice, stage' = stage
  PROVE  SaidInv'
<1>1. MsgTyped /\ Saying(Len(nodes), claims, log) /\ here \in 0 .. Len(nodes)
  BY DEF StatusInv, SaidInv, MsgTyped
<1>2. PICK e, o : e = Failure(here, 1, "interrupted") /\ o = Signalled(log, e)
  OBVIOUS
<1>3. PICK text \in ProgramTexts : text = "interrupted"
  BY DEF ProgramTexts
<1>4. log.stop = Unlimited /\ 1 \in Nat
  BY DEF Notice
<1>5. e = Failure(here, 1, text) /\ IF text = "interrupted" THEN log.stop = Unlimited /\ o = Signalled(log, e) ELSE o = Opened(log, e)
  BY ONLY <1>2, <1>3, <1>4
<1>6. Saying(Len(nodes), Aside(e), o) /\ (AnyEarly(Aside(e)) <=> AnyEarly(claims))
  BY ONLY <1>1, <1>4, <1>5, text \in ProgramTexts, AsideSays
<1>7. /\ log' = o /\ claims' = Aside(e) /\ notdefines' = notdefines
      /\ pass' = pass /\ max_pass' = max_pass /\ nodes' = nodes /\ constcreated' = constcreated /\ fixeddig' = fixeddig
  BY <1>2 DEF Notice
<1>8. (InPass' <=> InPass) /\ (Pending' <=> Pending)
  BY <1>7 DEF InPass, Pending
<1>9. NamesTold'
  <2>1. claims \in Seq(ClaimsAt(Len(nodes)))
    BY <1>1 DEF MsgTyped
  <2>2. PICK m \in Nat : m = Len(claims)
    BY <2>1
  <2>3. PICK c : c.name = <<>> /\ claims' = Append(claims, c)
    BY <1>7 DEF Aside
  <2>4. claims' = Append(claims, c) /\ claims \in Seq(ClaimsAt(Len(nodes)) \cup {c}) /\ c \in ClaimsAt(Len(nodes)) \cup {c}
    BY <2>1, <2>3
  <2>5. Len(claims') = Len(claims) + 1 /\ claims'[Len(claims) + 1] = c /\ \A i \in 1 .. Len(claims) : claims'[i] = claims[i]
    BY ONLY <2>4, AppendProperties
  <2>6. \A j : j \in 1 .. m + 1 <=> j \in 1 .. m \/ j = m + 1
    OBVIOUS
  <2>7. \A key : (key # <<>> /\ \E j \in 1 .. m + 1 : ~claims'[j].early /\ claims'[j].name = key)
                   <=> key # <<>> /\ \E j \in 1 .. m : ~claims[j].early /\ claims[j].name = key
    BY <2>2, <2>3, <2>5, <2>6
  <2>8. NamesTold
    BY DEF SaidInv
  <2>. QED BY <1>7, <2>2, <2>5, <2>7, <2>8 DEF NamesTold
<1>. QED BY <1>6, <1>7, <1>8, <1>9 DEF SaidInv

\* A new pass
LEMMA NewPassSays ==
  ASSUME StatusInv, InPass, NEW next \in {"pass", "listing"}, NewPass(next)
  PROVE  SaidInv'
<1>1. log' = EmptyLog /\ claims' = <<>> /\ notdefines' = notdefines /\ pass' = pass + 1 /\ pass \in Nat
  BY DEF NewPass, StartPass, StatusInv, MsgTyped
<1>2. PICK e : e = Entered(nodes, Root, MainFile, pass')
  OBVIOUS
<1>3. PICK f : f = Entered(e.nodes, Root, CommandLine, pass') /\ nodes' = f.nodes
  BY <1>2 DEF NewPass, StartPass
<1>4. Len(nodes') \in Nat
  <2>1. Tree(nodes) /\ pass' \in Nat
    BY <1>1 DEF StatusInv, MsgTyped
  <2>2. Tree(f.nodes)
    BY ONLY <1>2, <1>3, <2>1, PassEntered
  <2>. QED BY <1>3, <2>2 DEF Tree
<1>5. Saying(Len(nodes'), claims', log')
  BY <1>1, <1>4, SaysNothing
<1>6. NamesTold'
  <2>1. \A k \in notdefines : k[2] \in Nat /\ k[2] <= pass
    BY DEF StatusInv, DuringPasses
  <2>2. ASSUME NEW key, <<key, pass + 1>> \in notdefines PROVE FALSE
    <3>1. <<key, pass + 1>>[2] <= pass
      BY <2>1, <2>2
    <3>2. <<key, pass + 1>>[2] = pass + 1
      OBVIOUS
    <3>. QED BY <1>1, <3>1, <3>2
  <2>3. Len(<<>>) = 0 /\ 1 .. 0 = {}
    OBVIOUS
  <2>. QED BY <1>1, <2>2, <2>3 DEF NamesTold
<1>7. ~AnyEarly(claims')
  BY <1>1, EmptyLogIs DEF AnyEarly
<1>. QED BY <1>5, <1>6, <1>7 DEF SaidInv

\* The passes are over.
LEMMA PassesOverSays ==
  ASSUME StatusInv, SaidInv, PassesOver
  PROVE  SaidInv'
<1>1. InPass /\ LoopOver
  BY DEF PassesOver, LoopOver, LinesOver
<1>2. PICK n \in Nat : n = Len(nodes)
  BY DEF StatusInv, MsgTyped, Tree
<1>3. /\ MsgTyped /\ Saying(Len(nodes), claims, log) /\ Root \in 0 .. Len(nodes) /\ 0 \in Nat
  BY <1>2 DEF StatusInv, SaidInv, Root
<1>4. PICK dl : dl = IF LoopSays = <<>> THEN claims ELSE Aside(LoopSays[1])
  OBVIOUS
<1>5. Saying(n, dl, LoopLog) /\ (AnyEarly(dl) <=> AnyEarly(claims))
  <2>1. CASE stage = "pass" /\ Again
    <3>1. PICK e : e = Failure(Root, 0, "too many passes")
      OBVIOUS
    <3>2. LoopSays = <<e>> /\ LoopSays # <<>> /\ LoopSays[1] = e
      BY <2>1, <3>1 DEF LoopSays
    <3>3. PICK text \in ProgramTexts : text = "too many passes" /\ text # "interrupted"
      BY DEF ProgramTexts
    <3>4. PICK o : o = Opened(log, e)
      OBVIOUS
    <3>5. e = Failure(Root, 0, text) /\ IF text = "interrupted" THEN log.stop = Unlimited /\ o = Signalled(log, e) ELSE o = Opened(log, e)
      BY ONLY <3>1, <3>3, <3>4
    <3>6. Saying(Len(nodes), Aside(e), o) /\ (AnyEarly(Aside(e)) <=> AnyEarly(claims))
      BY ONLY <1>3, <3>5, text \in ProgramTexts, AsideSays
    <3>7. LoopLog = o
      BY <2>1, <3>2, <3>4 DEF LoopLog
    <3>. QED BY <1>2, <1>4, <3>2, <3>6, <3>7
  <2>2. CASE ~(stage = "pass" /\ Again) /\ stage = "pass" /\ signal /\ log.stop = Unlimited
    <3>1. PICK e : e = Failure(Root, 0, "interrupted")
      OBVIOUS
    <3>2. LoopSays = <<e>> /\ LoopSays # <<>> /\ LoopSays[1] = e
      BY <2>2, <3>1 DEF LoopSays
    <3>3. PICK text \in ProgramTexts : text = "interrupted"
      BY DEF ProgramTexts
    <3>4. PICK o : o = Signalled(log, e)
      OBVIOUS
    <3>5. e = Failure(Root, 0, text) /\ IF text = "interrupted" THEN log.stop = Unlimited /\ o = Signalled(log, e) ELSE o = Opened(log, e)
      BY ONLY <2>2, <3>1, <3>3, <3>4
    <3>6. Saying(Len(nodes), Aside(e), o) /\ (AnyEarly(Aside(e)) <=> AnyEarly(claims))
      BY ONLY <1>3, <3>5, text \in ProgramTexts, AsideSays
    <3>7. LoopLog = o
      BY <2>2, <3>2, <3>4 DEF LoopLog
    <3>. QED BY <1>2, <1>4, <3>2, <3>6, <3>7
  <2>3. CASE ~(stage = "pass" /\ Again) /\ ~(stage = "pass" /\ signal /\ log.stop = Unlimited)
    <3>1. LoopSays = <<>>
      BY <2>3 DEF LoopSays
    <3>2. LoopLog = log
      BY <3>1 DEF LoopLog
    <3>. QED BY <1>2, <1>3, <1>4, <3>1, <3>2
  <2>. QED BY <2>1, <2>2, <2>3
<1>6. LoopLog \in LogsAt(n)
  BY <1>1, <1>2, LoopIs
<1>7. Saying(n, dl, Closed(LoopLog))
  BY ONLY <1>5, <1>6, n \in Nat, SaysClosed
<1>8. log' = Closed(LoopLog) /\ claims' = dl /\ nodes' = nodes /\ signal' = signal /\ stage' \in {"shown", "symbols"}
  BY <1>4 DEF PassesOver
<1>9. ASSUME AnyEarly(claims) PROVE signal
  <2>1. Pending
    BY <1>1, <1>9 DEF SaidInv
  <2>2. stage = "pass" /\ pass < max_pass /\ (constcreated \/ ~fixeddig)
    BY <2>1 DEF Pending
  <2>3. ~Again
    <3>1. pass \in Nat /\ max_pass \in Nat
      BY <1>3 DEF MsgTyped
    <3>. QED BY <1>1, <2>2, <3>1 DEF LoopOver
  <2>. QED BY <2>2, <2>3 DEF Again
<1>10. ~InPass'
  BY <1>8 DEF InPass
<1>. QED BY <1>2, <1>5, <1>7, <1>8, <1>9, <1>10 DEF SaidInv

\* A file that cannot be written
LEMMA FailingSays ==
  ASSUME StatusInv, SaidInv, ~InPass, ~InPass', NEW node \in 0 .. Len(nodes), NEW at \in Nat,
         Failing(Failure(node, at, "cannot write"))
  PROVE  SaidInv'
<1>1. MsgTyped /\ Saying(Len(nodes), claims, log)
  BY DEF StatusInv, SaidInv
<1>2. PICK e, o : e = Failure(node, at, "cannot write") /\ o = Opened(log, e)
  OBVIOUS
<1>3. PICK text \in ProgramTexts : text = "cannot write" /\ text # "interrupted"
  BY DEF ProgramTexts
<1>4. e = Failure(node, at, text) /\ IF text = "interrupted" THEN log.stop = Unlimited /\ o = Signalled(log, e) ELSE o = Opened(log, e)
  BY ONLY <1>2, <1>3
<1>5. Saying(Len(nodes), Aside(e), o) /\ (AnyEarly(Aside(e)) <=> AnyEarly(claims))
  BY ONLY <1>1, <1>4, text \in ProgramTexts, node \in 0 .. Len(nodes), at \in Nat, AsideSays
<1>6. log' = o /\ claims' = Aside(e) /\ nodes' = nodes /\ signal' = signal
  BY <1>2 DEF Failing
<1>. QED BY <1>5, <1>6 DEF SaidInv

\* Steps after the passes that report nothing
LEMMA AfterSays ==
  ASSUME SaidInv, ~InPass, ~InPass', UNCHANGED <<nodes, claims, signal>>, log' = log
  PROVE  SaidInv'
BY DEF SaidInv

\* Steps that have nothing to do with messages
LEMMA SaysStays ==
  ASSUME SaidInv, UNCHANGED <<msgVars, stage>>
  PROVE  SaidInv'
<1>1. /\ UNCHANGED <<limit, events, pass, max_pass, nodes, here, log, stage>>
      /\ UNCHANGED <<constcreated, fixeddig, notdefines, once, signal, claims>>
  BY DEF msgVars
<1>2. (InPass' <=> InPass) /\ (NamesTold' <=> NamesTold) /\ (Pending' <=> Pending)
  BY <1>1 DEF InPass, NamesTold, Pending
<1>. QED BY <1>1, <1>2 DEF SaidInv

\* Nothing is said at first.
LEMMA SaysInit == Init => SaidInv
<1>. SUFFICES ASSUME Init PROVE SaidInv
  OBVIOUS
<1>1. Len(nodes) \in Nat
  BY FirstTree DEF Init, MsgInit
<1>2. log = EmptyLog /\ claims = <<>> /\ notdefines = {}
  BY DEF Init, MsgInit
<1>3. Saying(Len(nodes), claims, log)
  BY <1>1, <1>2, SaysNothing
<1>4. Len(<<>>) = 0 /\ 1 .. 0 = {}
  OBVIOUS
<1>5. NamesTold
  BY <1>2, <1>4 DEF NamesTold
<1>6. ~AnyEarly(claims)
  BY <1>2, EmptyLogIs DEF AnyEarly
<1>. QED BY <1>3, <1>5, <1>6 DEF SaidInv

\* Every step keeps it.
LEMMA SaysNext ==
  ASSUME StatusInv, StatusInv', OutInv, SaidInv, [Next]_vars
  PROVE  SaidInv'
<1>1. CASE UNCHANGED vars
  <2>1. UNCHANGED <<msgVars, stage>>
    BY <1>1 DEF vars
  <2>. QED BY <2>1, SaysStays
<1>2. CASE Pass
  <2>1. CASE (\E m \in Mems, a \in 0 .. Size - 1 : Byte(m, a)) \/ Dsection(0) \/ Dsection(1)
    <3>1. UNCHANGED <<msgVars, stage>>
      BY <2>1 DEF Byte, Dsection
    <3>. QED BY <3>1, SaysStays
  <2>2. CASE InPass /\ MsgStep /\ UNCHANGED <<stage, memVars, endVars>>
    <3>1. stage' = stage /\ InPass /\ MsgStep
      BY <2>2
    <3>. QED BY <3>1, ReportSays, QuietSays, NoticeSays DEF MsgStep
  <2>. QED BY <1>2, <2>1, <2>2 DEF Pass
<1>3. CASE NextPass \/ ListingPass
  <2>1. InPass /\ (NewPass("pass") \/ NewPass("listing")) /\ "pass" \in {"pass", "listing"} /\ "listing" \in {"pass", "listing"}
    BY <1>3 DEF NextPass, ListingPass, InPass
  <2>. QED BY <2>1, NewPassSays
<1>4. CASE PassesOver
  BY <1>4, PassesOverSays
<1>5. CASE NextOutput \/ Memcomp
  <2>1. UNCHANGED <<msgVars, stage>>
    BY <1>5 DEF NextOutput, Memcomp, EnterMemcomp, Splice, CopyLater, CutEarlier, Apart, NextBlock, Sort
  <2>. QED BY <2>1, SaysStays
<1>6. CASE Symbols
  <2>1. ~InPass /\ ~InPass'
    BY <1>6 DEF Symbols, InPass
  <2>2. CASE Failing(Failure(CommandLineNode, 9, "cannot write"))
    <3>1. CommandLineNode \in 0 .. Len(nodes) /\ 9 \in Nat
      BY DEF StatusInv, MsgTyped, Tree, CommandLineNode
    <3>. QED BY <2>1, <2>2, <3>1, FailingSays
  <2>3. CASE UNCHANGED msgVars
    BY <2>1, <2>3, AfterSays DEF msgVars
  <2>. QED BY <1>6, <2>2, <2>3 DEF Symbols
<1>7. CASE Unopened
  <2>1. ~InPass /\ ~InPass'
    BY <1>7 DEF Unopened, Ready, InPass
  <2>2. PICK where \in {Root, CommandLineNode} :
          Failing(Failure(where, IF where = Root THEN 0 ELSE Len(files) + 1, "cannot write"))
    BY <1>7 DEF Unopened
  <2>3. PICK at \in Nat : at = IF where = Root THEN 0 ELSE Len(files) + 1
    <3>1. PICK S : files \in Seq(S)
      BY DEF OutInv, FilesWhole
    <3>2. Len(files) \in Nat
      BY <3>1
    <3>. QED BY <3>2
  <2>4. where \in 0 .. Len(nodes)
    BY DEF StatusInv, MsgTyped, Tree, Root, CommandLineNode
  <2>. QED BY <2>1, <2>2, <2>3, <2>4, FailingSays
<1>8. CASE Write
  <2>1. ~InPass /\ ~InPass'
    <3>1. stage = "outputs"
      BY <1>8 DEF Write, OutInv
    <3>. QED BY <1>8, <3>1 DEF Write, InPass
  <2>2. PICK done \in {TRUE, ~limit.faults} :
          IF done THEN UNCHANGED msgVars ELSE Failing(Failure(CommandLineNode, Len(files) + 1, "cannot write"))
    BY <1>8 DEF Write
  <2>3. CASE done
    BY <2>1, <2>2, <2>3, AfterSays DEF msgVars
  <2>4. CASE ~done
    <3>1. CommandLineNode \in 0 .. Len(nodes)
      BY DEF StatusInv, MsgTyped, Tree, CommandLineNode
    <3>2. PICK S : files \in Seq(S)
      BY DEF OutInv, FilesWhole
    <3>3. Len(files) + 1 \in Nat
      BY <3>2
    <3>. QED BY <2>1, <2>2, <2>4, <3>1, <3>3, FailingSays
  <2>. QED BY <2>3, <2>4
<1>9. CASE OutputsOver
  <2>1. ~InPass /\ ~InPass' /\ UNCHANGED msgVars
    BY <1>9 DEF OutputsOver, InPass
  <2>. QED BY <2>1, AfterSays DEF msgVars
<1>10. CASE Show
  <2>1. ~InPass /\ ~InPass' /\ log' = Closed(log) /\ UNCHANGED <<nodes, claims, signal>>
    BY <1>10 DEF Show, InPass
  <2>2. log \in LogsAt(Len(nodes)) /\ Len(nodes) \in Nat
    BY DEF StatusInv, MsgTyped, Tree
  <2>3. Saying(Len(nodes), claims, Closed(log))
    BY <2>2, SaysClosed DEF SaidInv
  <2>. QED BY <2>1, <2>3 DEF SaidInv
<1>. QED BY <1>1, <1>2, <1>3, <1>4, <1>5, <1>6, <1>7, <1>8, <1>9, <1>10 DEF Next, Ending

(***************************************************************************)
(* What is shown.                                                          *)
(***************************************************************************)
ToldIn(cl) == {i \in SaidIn(cl) : \A j \in 1 .. i - 1 : ~IsEnd(cl[j].message)}

\* What was told is what is in the list before the interruption, and it.
LEMMA ToldEnds ==
  ASSUME NEW n \in Nat, NEW cl, NEW L, NEW at, Recorded(n, cl, L, at), NEW stop, EndsAt(cl, at, stop),
         stop # Unlimited => stop \in 1 .. Len(L), NEW N, N = IF stop = Unlimited THEN Len(L) ELSE stop
  PROVE  \A i \in SaidIn(cl) : /\ i \in ToldIn(cl) <=> at[i] <= N
                               /\ i \in ToldIn(cl) => at[i] + Len(cl[i].notes) <= N
<1>. SUFFICES ASSUME NEW i \in SaidIn(cl)
              PROVE  /\ i \in ToldIn(cl) <=> at[i] <= N
                     /\ i \in ToldIn(cl) => at[i] + Len(cl[i].notes) <= N
  OBVIOUS
<1>1. /\ cl \in Seq(ClaimsAt(n)) /\ L \in Seq(MessagesAt(n)) /\ at \in [SaidIn(cl) -> Nat]
      /\ \A j, k \in SaidIn(cl) : j < k => at[j] + Len(cl[j].notes) < at[k]
      /\ at[i] \in 1 .. Len(L) /\ at[i] + Len(cl[i].notes) <= Len(L)
  BY DEF Recorded, Claims, Blocks, AtPlace
<1>2. PICK m \in Nat : m = Len(cl)
  BY <1>1
<1>3. \A k \in SaidIn(cl) : k \in 1 .. m /\ Len(cl[k].notes) \in Nat /\ at[k] \in Nat
  <2>. SUFFICES ASSUME NEW k \in SaidIn(cl) PROVE k \in 1 .. m /\ Len(cl[k].notes) \in Nat /\ at[k] \in Nat
    OBVIOUS
  <2>1. k \in 1 .. m
    BY <1>2 DEF SaidIn
  <2>2. cl[k] \in ClaimsAt(n)
    BY <1>1, <1>2, <2>1
  <2>. QED BY <1>1, <2>1, <2>2 DEF ClaimsAt
<1>4. i \in 1 .. m /\ \A j \in 1 .. i - 1 : j \in 1 .. m
  <2>1. i \in 1 .. m
    BY <1>3
  <2>. QED BY <2>1
<1>5. CASE stop = Unlimited
  <2>1. \A j \in 1 .. m : ~IsEnd(cl[j].message)
    BY <1>2, <1>5 DEF EndsAt
  <2>2. i \in ToldIn(cl)
    BY <1>4, <2>1 DEF ToldIn
  <2>3. at[i] <= N /\ at[i] + Len(cl[i].notes) <= N
    BY <1>1, <1>3, <1>5
  <2>. QED BY <2>2, <2>3
<1>6. CASE stop # Unlimited
  <2>1. PICK j \in SaidIn(cl) : /\ IsEnd(cl[j].message) /\ at[j] = stop /\ cl[j].notes = <<>>
                                /\ \A k \in 1 .. Len(cl) : k # j => ~IsEnd(cl[k].message)
    BY <1>6 DEF EndsAt
  <2>2. N = at[j] /\ N \in Nat /\ Len(cl[j].notes) = 0 /\ j \in 1 .. m
    BY <1>3, <1>6, <2>1
  <2>3. CASE i < j
    <3>1. \A k \in 1 .. i - 1 : k \in 1 .. m /\ k # j
      BY <1>4, <2>2, <2>3
    <3>2. i \in ToldIn(cl)
      BY <1>2, <2>1, <3>1 DEF ToldIn
    <3>3. at[i] + Len(cl[i].notes) < N
      BY <1>1, <2>2, <2>3
    <3>4. at[i] <= N /\ at[i] + Len(cl[i].notes) <= N
      <4>1. PICK x \in Nat, y \in Nat : x = at[i] /\ y = Len(cl[i].notes)
        BY <1>3
      <4>2. x + y < N /\ N \in Nat
        BY ONLY <2>2, <3>3, <4>1
      <4>3. x <= N /\ x + y <= N
        BY ONLY <4>2, x \in Nat, y \in Nat
      <4>. QED BY ONLY <4>1, <4>3
    <3>. QED BY <3>2, <3>4
  <2>4. CASE i = j
    <3>1. \A k \in 1 .. i - 1 : k \in 1 .. m /\ k # j
      BY <1>4, <2>2, <2>4
    <3>2. i \in ToldIn(cl)
      BY <1>2, <2>1, <3>1 DEF ToldIn
    <3>3. at[i] <= N /\ at[i] + Len(cl[i].notes) <= N
      BY <2>2, <2>4
    <3>. QED BY <3>2, <3>3
  <2>5. CASE j < i
    <3>1. j \in 1 .. i - 1
      BY <1>4, <2>2, <2>5
    <3>2. i \notin ToldIn(cl)
      BY <2>1, <3>1 DEF ToldIn
    <3>3. at[j] + Len(cl[j].notes) < at[i]
      BY <1>1, <2>5
    <3>4. ~(at[i] <= N)
      BY <1>3, <2>2, <3>3
    <3>. QED BY <3>2, <3>4
  <2>6. i < j \/ i = j \/ j < i
    BY <1>4, <2>2
  <2>. QED BY <2>3, <2>4, <2>5, <2>6
<1>. QED BY <1>5, <1>6

\* What was told is all of what is shown.
LEMMA ShownBlocks ==
  ASSUME NEW n \in Nat, NEW cl, NEW L, NEW at, Recorded(n, cl, L, at), NEW stop, EndsAt(cl, at, stop),
         stop # Unlimited => stop \in 1 .. Len(L),
         NEW s \in Seq(MessagesAt(n)), Len(s) = IF stop = Unlimited THEN Len(L) ELSE stop,
         \A p \in 1 .. Len(s) : s[p] = L[p]
  PROVE  \E bt : Blocks(cl, ToldIn(cl), s, bt)
<1>1. PICK N \in Nat : N = Len(s)
  OBVIOUS
<1>2. PICK T : T = ToldIn(cl)
  OBVIOUS
<1>3. \A i \in SaidIn(cl) : (i \in T <=> at[i] <= N) /\ (i \in T => at[i] + Len(cl[i].notes) <= N)
  <2>1. N = IF stop = Unlimited THEN Len(L) ELSE stop
    BY <1>1
  <2>. QED BY ONLY <1>2, <2>1, n \in Nat, Recorded(n, cl, L, at), EndsAt(cl, at, stop),
              stop # Unlimited => stop \in 1 .. Len(L), ToldEnds
<1>4. T \subseteq SaidIn(cl)
  BY <1>2 DEF ToldIn
<1>5. PICK bt : bt = [i \in T |-> at[i]]
  OBVIOUS
<1>6. Blocks(cl, SaidIn(cl), L, at) /\ L \in Seq(MessagesAt(n)) /\ cl \in Seq(ClaimsAt(n))
  BY DEF Recorded, Claims
<1>7. N <= Len(L) /\ Len(L) \in Nat
  <2>1. Len(L) \in Nat
    BY <1>6
  <2>. QED BY <1>1, <2>1
<1>8. T \subseteq 1 .. Len(cl) /\ bt \in [T -> Nat] /\ \A i \in T : bt[i] = at[i]
  BY <1>4, <1>5, <1>6 DEF Blocks
<1>9. ASSUME NEW i \in T PROVE AtPlace(cl, s, i, bt[i])
  <2>1. AtPlace(cl, L, i, at[i]) /\ at[i] <= N /\ at[i] + Len(cl[i].notes) <= N
    BY <1>3, <1>4, <1>6, <1>9 DEF Blocks
  <2>2. PICK a, b : a = at[i] /\ b = Len(cl[i].notes)
    OBVIOUS
  <2>3. a \in 1 .. Len(L) /\ L[a] = cl[i].message /\ \A x \in 1 .. b : L[a + x] = cl[i].notes[x]
    BY <2>1, <2>2 DEF AtPlace
  <2>4. b \in Nat
    <3>1. cl[i] \in ClaimsAt(n)
      BY <1>6, <1>8
    <3>. QED BY <2>2, <3>1 DEF ClaimsAt
  <2>5. a \in 1 .. N /\ a + b <= N /\ \A x \in 1 .. b : a + x \in 1 .. N
    <3>1. a \in Nat /\ 1 <= a /\ a <= N /\ a + b <= N
      BY ONLY <1>7, <2>1, <2>2, <2>3
    <3>. QED BY ONLY <2>4, <3>1, N \in Nat
  <2>6. s[a] = cl[i].message /\ \A x \in 1 .. b : s[a + x] = cl[i].notes[x]
    BY <1>1, <2>3, <2>5
  <2>. QED BY <1>1, <1>8, <2>2, <2>5, <2>6 DEF AtPlace
<1>10. \A i, j \in T : i < j => bt[i] + Len(cl[i].notes) < bt[j]
  BY <1>4, <1>6, <1>8 DEF Blocks
<1>11. ASSUME NEW p \in 1 .. Len(s) PROVE \E i \in T : bt[i] <= p /\ p <= bt[i] + Len(cl[i].notes)
  <2>1. p \in 1 .. Len(L) /\ p <= N
    BY <1>1, <1>7
  <2>2. PICK i \in SaidIn(cl) : at[i] <= p /\ p <= at[i] + Len(cl[i].notes)
    BY <1>6, <2>1 DEF Blocks
  <2>3. at[i] \in Nat
    BY <1>6 DEF Blocks
  <2>4. at[i] <= N
    BY <1>1, <2>1, <2>2, <2>3
  <2>. QED BY <1>3, <1>8, <2>2, <2>4
<1>12. \A i, j \in T : cl[i].message = cl[j].message => i = j
  BY <1>4, <1>6 DEF Blocks
<1>13. Blocks(cl, T, s, bt)
  BY <1>8, <1>9, <1>10, <1>11, <1>12 DEF Blocks
<1>. QED BY <1>2, <1>13

\* The messages and their notes in what is shown
Placed(n, cl, K, s, at) == Claims(n, cl) /\ s \in Seq(MessagesAt(n)) /\ Blocks(cl, K, s, at)

\* A message that is placed has its notes right behind it.
LEMMA PlacedIs ==
  ASSUME NEW n \in Nat, NEW cl, NEW K, NEW s, NEW at, Placed(n, cl, K, s, at), NEW i \in K
  PROVE  /\ i \in Nat /\ at[i] \in 1 .. Len(s) /\ s[at[i]] = cl[i].message /\ cl[i].message.sev # "note"
         /\ cl[i].notes \in Seq(NotesAt(n)) /\ at[i] + Len(cl[i].notes) <= Len(s)
         /\ \A x \in 1 .. Len(cl[i].notes) : s[at[i] + x] = cl[i].notes[x] /\ cl[i].notes[x].sev = "note"
<1>1. K \subseteq 1 .. Len(cl) /\ AtPlace(cl, s, i, at[i]) /\ cl \in Seq(ClaimsAt(n))
  BY DEF Placed, Blocks, Claims
<1>2. i \in 1 .. Len(cl) /\ cl[i] \in ClaimsAt(n)
  BY <1>1
<1>3. cl[i].notes \in Seq(NotesAt(n)) /\ cl[i].message.sev # "note"
  BY <1>2 DEF ClaimsAt, Placed, Claims
<1>4. \A x \in 1 .. Len(cl[i].notes) : cl[i].notes[x].sev = "note"
  <2>1. \A x \in 1 .. Len(cl[i].notes) : cl[i].notes[x] \in NotesAt(n)
    BY <1>3
  <2>. QED BY <2>1 DEF NotesAt
<1>5. /\ at[i] \in 1 .. Len(s) /\ s[at[i]] = cl[i].message /\ at[i] + Len(cl[i].notes) <= Len(s)
      /\ \A x \in 1 .. Len(cl[i].notes) : s[at[i] + x] = cl[i].notes[x]
  BY ONLY <1>1 DEF AtPlace
<1>6. i \in Nat
  BY ONLY <1>2
<1>. QED BY ONLY <1>3, <1>4, <1>5, <1>6

\* What is not a note is a message that was told.
LEMMA HeadsAre ==
  ASSUME NEW n \in Nat, NEW cl, NEW K, NEW s, NEW at, Placed(n, cl, K, s, at), NEW p \in 1 .. Len(s)
  PROVE  s[p].sev # "note" <=> \E i \in K : at[i] = p
<1>1. ASSUME NEW i \in K, at[i] = p PROVE s[p].sev # "note"
  BY <1>1, PlacedIs
<1>2. ASSUME s[p].sev # "note" PROVE \E i \in K : at[i] = p
  <2>1. PICK i \in K : at[i] <= p /\ p <= at[i] + Len(cl[i].notes)
    BY DEF Placed, Blocks
  <2>2. /\ at[i] \in 1 .. Len(s) /\ Len(cl[i].notes) \in Nat
        /\ \A x \in 1 .. Len(cl[i].notes) : s[at[i] + x].sev = "note"
    <3>1. /\ at[i] \in 1 .. Len(s) /\ cl[i].notes \in Seq(NotesAt(n))
          /\ \A x \in 1 .. Len(cl[i].notes) : s[at[i] + x] = cl[i].notes[x] /\ cl[i].notes[x].sev = "note"
      BY PlacedIs
    <3>2. \A x \in 1 .. Len(cl[i].notes) : s[at[i] + x].sev = "note"
      BY <3>1
    <3>3. Len(cl[i].notes) \in Nat
      BY <3>1
    <3>. QED BY <3>1, <3>2, <3>3
  <2>3. PICK a, b \in Nat : a = at[i] /\ b = Len(cl[i].notes)
    BY <2>2
  <2>6. a <= p /\ p <= a + b /\ p \in Nat
    BY <2>1, <2>3
  <2>4. p # a => (p - a) \in 1 .. b /\ a + (p - a) = p
    BY ONLY <2>6, a \in Nat, b \in Nat
  <2>5. p = a
    BY <1>2, <2>2, <2>3, <2>4
  <2>. QED BY <2>3, <2>5
<1>. QED BY <1>1, <1>2

\* What is below a message are its notes.
LEMMA BelowIs ==
  ASSUME NEW n \in Nat, NEW cl, NEW K, NEW s, NEW at, Placed(n, cl, K, s, at), NEW i \in K, NEW e
  PROVE  e \in ToSet(cl[i].notes) <=> \E y \in 1 .. Len(s) : Below(s, at[i], y) /\ s[y] = e
<1>1. /\ at[i] \in 1 .. Len(s) /\ cl[i].notes \in Seq(NotesAt(n)) /\ at[i] + Len(cl[i].notes) <= Len(s)
      /\ \A x \in 1 .. Len(cl[i].notes) : s[at[i] + x] = cl[i].notes[x] /\ cl[i].notes[x].sev = "note"
      /\ i \in Nat
  BY PlacedIs
<1>2. PICK a \in Nat, b \in Nat, N \in Nat : a = at[i] /\ b = Len(cl[i].notes) /\ N = Len(s)
  BY <1>1 DEF Placed
<1>3. a \in 1 .. N /\ a + b <= N /\ \A x \in 1 .. b : s[a + x] = cl[i].notes[x] /\ s[a + x].sev = "note"
  BY <1>1, <1>2
<1>4. e \in ToSet(cl[i].notes) <=> \E x \in 1 .. b : cl[i].notes[x] = e
  BY <1>1, <1>2, ToSetIs
<1>5. ASSUME NEW x \in 1 .. b PROVE a + x \in 1 .. N /\ Below(s, a, a + x)
  <2>1. a + x \in 1 .. N /\ a < a + x /\ a <= a + x
    BY <1>3
  <2>2. ASSUME NEW z \in a + 1 .. a + x PROVE s[z].sev = "note"
    <3>1. z - a \in 1 .. b /\ a + (z - a) = z
      BY <1>5
    <3>. QED BY <1>3, <3>1
  <2>. QED BY <2>1, <2>2 DEF Below, Reaches
<1>6. ASSUME NEW y \in 1 .. N, Below(s, a, y) PROVE \E x \in 1 .. b : y = a + x
  <2>1. a < y /\ \A z \in a + 1 .. y : s[z].sev = "note"
    BY <1>6 DEF Below, Reaches
  <2>2. PICK j \in K : at[j] <= y /\ y <= at[j] + Len(cl[j].notes)
    BY <1>2 DEF Placed, Blocks
  <2>3. /\ at[j] \in 1 .. Len(s) /\ Len(cl[j].notes) \in Nat /\ s[at[j]] = cl[j].message /\ cl[j].message.sev # "note"
        /\ j \in Nat
    BY PlacedIs
  <2>4. PICK c \in Nat, d \in Nat : c = at[j] /\ d = Len(cl[j].notes)
    BY <2>3
  <2>5. c <= y /\ y <= c + d /\ s[c].sev # "note"
    BY <2>2, <2>3, <2>4
  <2>6. CASE j < i
    <3>1. c + d < a
      BY <1>2, <2>4, <2>6 DEF Placed, Blocks
    <3>. QED BY <2>1, <2>5, <3>1
  <2>7. CASE i < j
    <3>1. a + b < c
      BY <1>2, <2>4, <2>7 DEF Placed, Blocks
    <3>2. c \in a + 1 .. y
      BY <2>5, <3>1
    <3>. QED BY <2>1, <2>5, <3>2
  <2>8. CASE i = j
    <3>1. a = c /\ b = d
      BY <1>2, <2>4, <2>8
    <3>2. y - a \in 1 .. b /\ y = a + (y - a)
      BY <2>1, <2>5, <3>1
    <3>. QED BY <3>2
  <2>9. i < j \/ i = j \/ j < i
    BY <1>1, <2>3
  <2>. QED BY <2>6, <2>7, <2>8, <2>9
<1>7. ASSUME e \in ToSet(cl[i].notes) PROVE \E y \in 1 .. N : Below(s, a, y) /\ s[y] = e
  <2>1. PICK x \in 1 .. b : cl[i].notes[x] = e
    BY <1>4, <1>7
  <2>2. PICK y : y = a + x
    OBVIOUS
  <2>3. y \in 1 .. N /\ Below(s, a, y) /\ s[y] = e
    BY <1>3, <1>5, <2>1, <2>2
  <2>. QED BY <2>3
<1>8. ASSUME NEW y \in 1 .. N, Below(s, a, y), s[y] = e PROVE e \in ToSet(cl[i].notes)
  <2>1. PICK x \in 1 .. b : y = a + x
    BY <1>6, <1>8
  <2>2. cl[i].notes[x] = e
    BY <1>3, <1>8, <2>1
  <2>. QED BY <1>4, <2>2
<1>. QED BY <1>2, <1>7, <1>8

\* A message is hidden if it is not wanted.
WantedIn(cl, K) ==
  LET sevs == {cl[i].message.sev : i \in K}
  IN {i \in K : /\ cl[i].message.sev = "warning" => sevs \cap Faulty = {}
                /\ cl[i].message.sev = "none error" => sevs \cap {"error", "fatal"} = {}}

\* Those that are wanted are those that error_print does not hide.
LEMMA WantedIs ==
  ASSUME NEW n \in Nat, NEW cl, NEW K, NEW s, NEW at, Placed(n, cl, K, s, at), NEW i \in K
  PROVE  i \in WantedIn(cl, K) <=> Visible(s, AnyIn(s), HardIn(s), at[i])
<1>1. PICK sevs : sevs = {cl[j].message.sev : j \in K}
  OBVIOUS
<1>2. \A j \in K : at[j] \in 1 .. Len(s) /\ s[at[j]] = cl[j].message /\ cl[j].message.sev # "note"
  BY PlacedIs
<1>3. \A e : e \in ToSet(s) <=> \E p \in 1 .. Len(s) : s[p] = e
  BY ToSetIs DEF Placed
<1>4. ASSUME NEW sev, sev # "note" PROVE (\E e \in ToSet(s) : e.sev = sev) <=> sev \in sevs
  <2>1. ASSUME NEW e \in ToSet(s), e.sev = sev PROVE sev \in sevs
    <3>1. PICK p \in 1 .. Len(s) : s[p] = e
      BY <1>3
    <3>2. PICK j \in K : at[j] = p
      BY <1>4, <2>1, <3>1, HeadsAre
    <3>. QED BY <1>1, <1>2, <2>1, <3>1, <3>2
  <2>2. ASSUME sev \in sevs PROVE \E e \in ToSet(s) : e.sev = sev
    <3>1. PICK j \in K : cl[j].message.sev = sev
      BY <1>1, <2>2
    <3>2. s[at[j]] \in ToSet(s)
      BY <1>2, <1>3
    <3>. QED BY <1>2, <3>1, <3>2
  <2>. QED BY <2>1, <2>2
<1>5. HardIn(s) <=> sevs \cap {"error", "fatal"} # {}
  <2>1. HardIn(s) <=> (\E e \in ToSet(s) : e.sev = "error") \/ \E e \in ToSet(s) : e.sev = "fatal"
    BY DEF HardIn
  <2>2. HardIn(s) <=> "error" \in sevs \/ "fatal" \in sevs
    BY <1>4, <2>1
  <2>. QED BY <2>2
<1>6. AnyIn(s) <=> sevs \cap Faulty # {}
  <2>1. AnyIn(s) <=> HardIn(s) \/ "none error" \in sevs
    BY <1>4 DEF AnyIn
  <2>. QED BY <1>5, <2>1 DEF Faulty
<1>7. Visible(s, AnyIn(s), HardIn(s), at[i]) <=>
        /\ cl[i].message.sev = "warning" => ~AnyIn(s)
        /\ cl[i].message.sev = "none error" => ~HardIn(s)
  BY <1>2 DEF Visible, Hidden
<1>. QED BY <1>1, <1>5, <1>6, <1>7 DEF WantedIn

\* The lines that are messages and not notes
HeadLines(lines) == {p \in MessageLines(lines) : lines[p].entry.sev # "note"}
ShownAs(n, cl, K, s, at, lines, g) ==
  /\ Placed(n, cl, K, s, at) /\ Lines(s, lines, g)
  /\ \E usenote : AllKept(s, AnyIn(s), HardIn(s), Len(s), usenote, On(lines, g))

\* They are about the messages that are wanted.
LEMMA HeadsShown ==
  ASSUME NEW n \in Nat, NEW cl, NEW K, NEW s, NEW at, NEW lines, NEW g, ShownAs(n, cl, K, s, at, lines, g)
  PROVE  /\ \A p \in MessageLines(lines) : p \in Nat /\ g[p] \in 1 .. Len(s) /\ lines[p].entry = s[g[p]]
         /\ \A p, q \in MessageLines(lines) : p < q <=> g[p] < g[q]
         /\ \A p, q \in MessageLines(lines) : p = q <=> g[p] = g[q]
         /\ \A p \in HeadLines(lines) : \E i \in WantedIn(cl, K) : at[i] = g[p]
         /\ \A i \in WantedIn(cl, K) : \E p \in HeadLines(lines) : at[i] = g[p]
         /\ \A i \in WantedIn(cl, K) : i \in K /\ i \in Nat
         /\ \A i, j \in K : (i < j <=> at[i] < at[j]) /\ (i = j <=> at[i] = at[j])
<1>1. \A p \in MessageLines(lines) : p \in Nat /\ g[p] \in 1 .. Len(s) /\ lines[p].entry = s[g[p]]
  BY DEF ShownAs, Lines, MessageLines
<1>2. \A p, q \in MessageLines(lines) : p < q => g[p] < g[q]
  BY DEF ShownAs, Lines
<1>3. \A p, q \in MessageLines(lines) : (p < q <=> g[p] < g[q]) /\ (p = q <=> g[p] = g[q])
  <2>. SUFFICES ASSUME NEW p \in MessageLines(lines), NEW q \in MessageLines(lines)
                PROVE  (p < q <=> g[p] < g[q]) /\ (p = q <=> g[p] = g[q])
    OBVIOUS
  <2>1. PICK a, b : a = g[p] /\ b = g[q]
    OBVIOUS
  <2>2. p \in Nat /\ q \in Nat /\ a \in Nat /\ b \in Nat
    BY <1>1, <2>1
  <2>3. (p < q => a < b) /\ (q < p => b < a) /\ (p = q => a = b)
    BY <1>2, <2>1
  <2>4. (p < q <=> a < b) /\ (p = q <=> a = b)
    BY ONLY <2>2, <2>3
  <2>. QED BY <2>1, <2>4
<1>4. PICK any, hard : any = AnyIn(s) /\ hard = HardIn(s)
  OBVIOUS
<1>5. KeptOnly(s, any, hard, Len(s), On(lines, g)) /\ Placed(n, cl, K, s, at)
  BY <1>4 DEF ShownAs, AllKept
<1>6. \A i \in K : i \in WantedIn(cl, K) <=> Visible(s, any, hard, at[i])
  BY <1>4, <1>5, WantedIs
<1>7. WantedIn(cl, K) \subseteq K
  BY DEF WantedIn
<1>8. \A i \in K : i \in Nat /\ at[i] \in 1 .. Len(s)
  <2>. SUFFICES ASSUME NEW i \in K PROVE i \in Nat /\ at[i] \in 1 .. Len(s)
    OBVIOUS
  <2>. QED BY <1>5, PlacedIs
<1>9. ASSUME NEW p \in HeadLines(lines) PROVE \E i \in WantedIn(cl, K) : at[i] = g[p]
  <2>1. p \in MessageLines(lines) /\ lines[p].entry.sev # "note"
    BY DEF HeadLines
  <2>2. PICK x \in 1 .. Len(s) : x = g[p]
    BY <1>1, <2>1
  <2>3. s[x].sev # "note" /\ x \in On(lines, g)
    BY <1>1, <2>1, <2>2 DEF On
  <2>4. Visible(s, any, hard, x)
    <3>1. Visible(s, any, hard, x) \/ \E h \in 1 .. Len(s) : Below(s, h, x)
      BY <1>5, <2>3 DEF KeptOnly
    <3>2. ASSUME NEW h \in 1 .. Len(s), Below(s, h, x) PROVE FALSE
      <4>1. x \in h + 1 .. x
        BY <3>2 DEF Below
      <4>. QED BY <2>3, <3>2, <4>1 DEF Below, Reaches
    <3>. QED BY <3>1, <3>2
  <2>5. PICK i \in K : at[i] = x
    BY <1>5, <2>3, HeadsAre
  <2>. QED BY <1>6, <2>2, <2>4, <2>5
<1>10. ASSUME NEW i \in WantedIn(cl, K) PROVE \E p \in HeadLines(lines) : at[i] = g[p]
  <2>1. i \in K /\ Visible(s, any, hard, at[i]) /\ at[i] \in 1 .. Len(s)
    BY <1>6, <1>7, <1>8
  <2>2. at[i] \in On(lines, g)
    BY <1>5, <2>1 DEF KeptOnly
  <2>3. PICK p \in MessageLines(lines) : at[i] = g[p]
    BY <2>2 DEF On
  <2>4. lines[p].entry.sev # "note"
    BY <1>1, <2>1, <2>3 DEF Visible
  <2>. QED BY <2>3, <2>4 DEF HeadLines
<1>11. \A i, j \in K : (i < j <=> at[i] < at[j]) /\ (i = j <=> at[i] = at[j])
  <2>. SUFFICES ASSUME NEW i \in K, NEW j \in K PROVE (i < j <=> at[i] < at[j]) /\ (i = j <=> at[i] = at[j])
    OBVIOUS
  <2>1. PICK a, b : a = at[i] /\ b = at[j]
    OBVIOUS
  <2>2. PICK c, d : c = Len(cl[i].notes) /\ d = Len(cl[j].notes)
    OBVIOUS
  <2>3. cl[i].notes \in Seq(NotesAt(n)) /\ cl[j].notes \in Seq(NotesAt(n))
    BY <1>5, PlacedIs
  <2>4. c \in Nat /\ d \in Nat
    BY <2>2, <2>3
  <2>5. i \in Nat /\ j \in Nat /\ a \in Nat /\ b \in Nat
    BY <1>8, <2>1
  <2>6. (i < j => a + c < b) /\ (j < i => b + d < a) /\ (i = j => a = b)
    BY <1>5, <2>1, <2>2 DEF Placed, Blocks
  <2>7. (i < j <=> a < b) /\ (i = j <=> a = b)
    BY ONLY <2>4, <2>5, <2>6
  <2>. QED BY <2>1, <2>7
<1>. QED BY <1>1, <1>3, <1>7, <1>8, <1>9, <1>10, <1>11

\* Each that is wanted is shown, once and in order.
LEMMA EachIs ==
  ASSUME NEW n \in Nat, NEW cl, NEW K, NEW s, NEW at, NEW lines, NEW g, ShownAs(n, cl, K, s, at, lines, g)
  PROVE  /\ \A i \in WantedIn(cl, K) : \E p \in HeadLines(lines) : lines[p].entry = cl[i].message
         /\ \A p, q \in HeadLines(lines) : p <= q =>
              \E i, j \in WantedIn(cl, K) : /\ lines[p].entry = cl[i].message /\ lines[q].entry = cl[j].message
                                            /\ i <= j /\ (i = j => p = q)
<1>1. /\ \A p \in MessageLines(lines) : p \in Nat /\ g[p] \in 1 .. Len(s) /\ lines[p].entry = s[g[p]]
      /\ \A p, q \in MessageLines(lines) : p < q <=> g[p] < g[q]
      /\ \A p, q \in MessageLines(lines) : p = q <=> g[p] = g[q]
      /\ \A p \in HeadLines(lines) : \E i \in WantedIn(cl, K) : at[i] = g[p]
      /\ \A i \in WantedIn(cl, K) : \E p \in HeadLines(lines) : at[i] = g[p]
      /\ \A i \in WantedIn(cl, K) : i \in K /\ i \in Nat
      /\ \A i, j \in K : (i < j <=> at[i] < at[j]) /\ (i = j <=> at[i] = at[j])
  BY HeadsShown
<1>2. \A p \in HeadLines(lines) : p \in MessageLines(lines)
  BY DEF HeadLines
<1>3. \A i \in WantedIn(cl, K) : s[at[i]] = cl[i].message
  <2>. SUFFICES ASSUME NEW i \in WantedIn(cl, K) PROVE s[at[i]] = cl[i].message
    OBVIOUS
  <2>1. i \in K /\ Placed(n, cl, K, s, at)
    BY <1>1 DEF ShownAs
  <2>. QED BY <2>1, PlacedIs
<1>4. ASSUME NEW i \in WantedIn(cl, K) PROVE \E p \in HeadLines(lines) : lines[p].entry = cl[i].message
  BY <1>1, <1>2, <1>3
<1>5. ASSUME NEW p \in HeadLines(lines), NEW q \in HeadLines(lines), p <= q
      PROVE  \E i, j \in WantedIn(cl, K) : /\ lines[p].entry = cl[i].message /\ lines[q].entry = cl[j].message
                                           /\ i <= j /\ (i = j => p = q)
  <2>1. PICK i \in WantedIn(cl, K) : at[i] = g[p]
    BY <1>1
  <2>2. PICK j \in WantedIn(cl, K) : at[j] = g[q]
    BY <1>1
  <2>3. lines[p].entry = cl[i].message /\ lines[q].entry = cl[j].message
    BY <1>1, <1>2, <1>3, <2>1, <2>2
  <2>4. p \in Nat /\ q \in Nat /\ i \in Nat /\ j \in Nat /\ i \in K /\ j \in K
    BY <1>1, <1>2
  <2>5. p < q <=> i < j
    BY <1>1, <1>2, <2>1, <2>2, <2>4
  <2>6. p = q <=> i = j
    BY <1>1, <1>2, <2>1, <2>2, <2>4
  <2>7. i <= j /\ (i = j => p = q)
    BY ONLY <1>5, <2>4, <2>5, <2>6
  <2>. QED BY <2>3, <2>7
<1>. QED BY <1>4, <1>5

\* Those that count as errors are shown.
LEMMA CountIs ==
  ASSUME NEW n \in Nat, NEW cl, NEW K, NEW s, NEW at, NEW lines, Len(lines) \in Nat, NEW g,
         ShownAs(n, cl, K, s, at, lines, g)
  PROVE  Cardinality(CountedIn(s, AnyIn(s), HardIn(s), Len(s))) =
           Cardinality({p \in HeadLines(lines) : lines[p].entry.sev # "warning"})
<1>1. /\ \A p \in MessageLines(lines) : p \in Nat /\ g[p] \in 1 .. Len(s) /\ lines[p].entry = s[g[p]]
      /\ \A p, q \in MessageLines(lines) : p < q <=> g[p] < g[q]
      /\ \A p, q \in MessageLines(lines) : p = q <=> g[p] = g[q]
      /\ \A p \in HeadLines(lines) : \E i \in WantedIn(cl, K) : at[i] = g[p]
      /\ \A i \in WantedIn(cl, K) : \E p \in HeadLines(lines) : at[i] = g[p]
      /\ \A i \in WantedIn(cl, K) : i \in K /\ i \in Nat
      /\ \A i, j \in K : (i < j <=> at[i] < at[j]) /\ (i = j <=> at[i] = at[j])
  BY HeadsShown
<1>2. PICK any, hard : any = AnyIn(s) /\ hard = HardIn(s)
  OBVIOUS
<1>3. PICK S : S = {p \in HeadLines(lines) : lines[p].entry.sev # "warning"}
  OBVIOUS
<1>4. PICK T : T = CountedIn(s, any, hard, Len(s))
  OBVIOUS
<1>5. PICK f : f = [p \in S |-> g[p]]
  OBVIOUS
<1>6. \A p \in S : p \in HeadLines(lines) /\ p \in MessageLines(lines) /\ f[p] = g[p]
  BY <1>3, <1>5 DEF HeadLines
<1>7. Placed(n, cl, K, s, at)
  BY DEF ShownAs
<1>8. ASSUME NEW p \in S PROVE f[p] \in T
  <2>1. PICK i \in WantedIn(cl, K) : at[i] = g[p]
    BY <1>1, <1>6
  <2>2. Visible(s, any, hard, g[p])
    BY <1>1, <1>2, <1>7, <2>1, WantedIs
  <2>3. s[g[p]].sev # "warning" /\ g[p] \in 1 .. Len(s)
    BY <1>1, <1>3, <1>6
  <2>. QED BY <1>4, <1>6, <2>2, <2>3 DEF CountedIn, Counts, Visible
<1>9. ASSUME NEW x \in T PROVE \E p \in S : f[p] = x
  <2>1. x \in 1 .. Len(s) /\ s[x].sev # "note" /\ s[x].sev # "warning" /\ ~Hidden(s[x], any, hard)
    BY <1>4 DEF CountedIn, Counts
  <2>2. PICK i \in K : at[i] = x
    BY <1>7, <2>1, HeadsAre
  <2>3. i \in WantedIn(cl, K)
    BY <1>2, <1>7, <2>1, <2>2, WantedIs DEF Visible
  <2>4. PICK p \in HeadLines(lines) : at[i] = g[p]
    BY <1>1, <2>3
  <2>5. p \in S
    <3>1. lines[p].entry = s[x]
      BY <1>1, <2>2, <2>4 DEF HeadLines
    <3>. QED BY <1>3, <2>1, <3>1
  <2>. QED BY <1>6, <2>2, <2>4, <2>5
<1>10. f \in Bijection(S, T)
  <2>1. f \in [S -> T]
    BY <1>5, <1>8
  <2>2. \A p, q \in S : f[p] = f[q] => p = q
    BY <1>1, <1>6
  <2>3. \A p, q \in S : p # q => f[p] # f[q]
    BY <2>2
  <2>. QED BY <1>9, <2>1, <2>2, <2>3 DEF Bijection, Injection, Surjection, IsInjective
<1>11. IsFiniteSet(S)
  <2>1. IsFiniteSet(1 .. Len(lines))
    BY FS_Interval
  <2>2. S \subseteq 1 .. Len(lines)
    BY <1>6 DEF MessageLines
  <2>. QED BY <2>1, <2>2, FS_Subset
<1>12. Cardinality(T) = Cardinality(S)
  <2>1. ExistsBijection(S, T)
    BY <1>10 DEF ExistsBijection
  <2>. QED BY <1>11, <2>1, FS_Bijection
<1>. QED BY <1>2, <1>3, <1>4, <1>12

\* The notes of a message
NotesIn(cl, K, e) == UNION {ToSet(cl[i].notes) : i \in {k \in K : cl[k].message = e}}
NotesUnder(cl, K, s, p) == \A e : e \in NotesIn(cl, K, s[p]) <=> \E y \in 1 .. Len(s) : Below(s, p, y) /\ s[y] = e

\* The notes of a message are those below it.
LEMMA NotesInIs ==
  ASSUME NEW n \in Nat, NEW cl, NEW K, NEW s, NEW at, Placed(n, cl, K, s, at), NEW p \in 1 .. Len(s), s[p].sev # "note"
  PROVE  NotesUnder(cl, K, s, p)
<1>1. PICK i \in K : at[i] = p
  BY HeadsAre
<1>2. cl[i].message = s[p]
  BY <1>1, PlacedIs
<1>3. \A k \in K : cl[k].message = s[p] => k = i
  BY <1>2 DEF Placed, Blocks
<1>4. \A e : e \in NotesIn(cl, K, s[p]) <=> e \in ToSet(cl[i].notes)
  BY <1>2, <1>3 DEF NotesIn
<1>5. \A e : e \in ToSet(cl[i].notes) <=> \E y \in 1 .. Len(s) : Below(s, at[i], y) /\ s[y] = e
  BY BelowIs
<1>. QED BY <1>1, <1>4, <1>5 DEF NotesUnder

\* A note is below the message it belongs to.
LEMMA NotesOwned ==
  ASSUME NEW n \in Nat, NEW cl, NEW K, NEW s, NEW at, NEW lines, NEW g, ShownAs(n, cl, K, s, at, lines, g),
         NEW p \in MessageLines(lines) \ HeadLines(lines)
  PROVE  \E h \in HeadLines(lines) : /\ h < p /\ lines[p].entry \in NotesIn(cl, K, lines[h].entry)
                                     /\ \A q \in HeadLines(lines) : q < p => q <= h
<1>1. /\ \A q \in MessageLines(lines) : q \in Nat /\ g[q] \in 1 .. Len(s) /\ lines[q].entry = s[g[q]]
      /\ \A q, r \in MessageLines(lines) : q < r <=> g[q] < g[r]
      /\ \A q, r \in MessageLines(lines) : q = r <=> g[q] = g[r]
      /\ \A q \in HeadLines(lines) : \E i \in WantedIn(cl, K) : at[i] = g[q]
      /\ \A i \in WantedIn(cl, K) : \E q \in HeadLines(lines) : at[i] = g[q]
      /\ \A i \in WantedIn(cl, K) : i \in K /\ i \in Nat
      /\ \A i, j \in K : (i < j <=> at[i] < at[j]) /\ (i = j <=> at[i] = at[j])
  BY HeadsShown
<1>2. \A q : q \in HeadLines(lines) <=> q \in MessageLines(lines) /\ lines[q].entry.sev # "note"
  BY DEF HeadLines
<1>3. PICK any, hard : any = AnyIn(s) /\ hard = HardIn(s)
  OBVIOUS
<1>4. KeptOnly(s, any, hard, Len(s), On(lines, g)) /\ Placed(n, cl, K, s, at)
  BY <1>3 DEF ShownAs, AllKept
<1>5. PICK x \in 1 .. Len(s) : x = g[p] /\ lines[p].entry = s[x] /\ x \in On(lines, g) /\ s[x].sev = "note"
  BY <1>1, <1>2 DEF On
<1>6. PICK y \in 1 .. Len(s) : Visible(s, any, hard, y) /\ Below(s, y, x)
  BY <1>4, <1>5 DEF KeptOnly, Visible
<1>7. y \in On(lines, g) /\ s[y].sev # "note"
  BY <1>4, <1>6 DEF KeptOnly, Visible
<1>8. PICK h \in MessageLines(lines) : g[h] = y
  BY <1>7 DEF On
<1>9. h \in HeadLines(lines) /\ lines[h].entry = s[y]
  BY <1>1, <1>2, <1>7, <1>8
<1>10. h < p
  BY <1>1, <1>5, <1>6, <1>8 DEF Below
<1>11. s[x] \in NotesIn(cl, K, s[y])
  <2>1. NotesUnder(cl, K, s, y)
    BY <1>4, <1>7, NotesInIs
  <2>. QED BY <1>6, <2>1 DEF NotesUnder
<1>12. ASSUME NEW q \in HeadLines(lines), q < p PROVE q <= h
  <2>1. q \in MessageLines(lines) /\ s[g[q]].sev # "note" /\ g[q] < x /\ g[q] \in 1 .. Len(s)
    BY <1>1, <1>2, <1>5, <1>12
  <2>2. ~(y < g[q])
    <3>. SUFFICES ASSUME y < g[q] PROVE FALSE
      OBVIOUS
    <3>1. g[q] \in y + 1 .. x
      BY <2>1
    <3>. QED BY <1>6, <2>1, <3>1 DEF Below, Reaches
  <2>3. ~(h < q)
    BY <1>1, <1>8, <2>1, <2>2
  <2>4. h \in Nat /\ q \in Nat
    BY <1>1, <2>1
  <2>. QED BY ONLY <2>3, <2>4
<1>. QED BY <1>5, <1>9, <1>10, <1>11, <1>12

\* A message has all its notes before one that does not have them too.
LEMMA NotesShown ==
  ASSUME NEW n \in Nat, NEW cl, NEW K, NEW s, NEW at, NEW lines, NEW g, ShownAs(n, cl, K, s, at, lines, g),
         NEW h \in HeadLines(lines), NEW e \in NotesIn(cl, K, lines[h].entry)
  PROVE  \E p \in MessageLines(lines) :
           /\ h < p /\ lines[p].entry = e
           /\ \A q \in HeadLines(lines) : h <= q /\ q < p => e \in NotesIn(cl, K, lines[q].entry)
<1>1. /\ \A q \in MessageLines(lines) : q \in Nat /\ g[q] \in 1 .. Len(s) /\ lines[q].entry = s[g[q]]
      /\ \A q, r \in MessageLines(lines) : q < r <=> g[q] < g[r]
      /\ \A q, r \in MessageLines(lines) : q = r <=> g[q] = g[r]
      /\ \A q \in HeadLines(lines) : \E i \in WantedIn(cl, K) : at[i] = g[q]
      /\ \A i \in WantedIn(cl, K) : \E q \in HeadLines(lines) : at[i] = g[q]
      /\ \A i \in WantedIn(cl, K) : i \in K /\ i \in Nat
      /\ \A i, j \in K : (i < j <=> at[i] < at[j]) /\ (i = j <=> at[i] = at[j])
  BY HeadsShown
<1>2. \A q : q \in HeadLines(lines) <=> q \in MessageLines(lines) /\ lines[q].entry.sev # "note"
  BY DEF HeadLines
<1>3. PICK any, hard : any = AnyIn(s) /\ hard = HardIn(s)
  OBVIOUS
<1>4. NotesFound(s, any, hard, Len(s), On(lines, g)) /\ Placed(n, cl, K, s, at)
  BY <1>3 DEF ShownAs, AllKept
<1>5. \A q \in HeadLines(lines) : Visible(s, any, hard, g[q])
  BY <1>1, <1>3, <1>4, WantedIs
<1>6. PICK x \in 1 .. Len(s) : x = g[h] /\ lines[h].entry = s[x] /\ s[x].sev # "note"
  BY <1>1, <1>2
<1>7. PICK y \in 1 .. Len(s) : Below(s, x, y) /\ s[y] = e
  <2>1. NotesUnder(cl, K, s, x)
    <3>1. s[x].sev # "note"
      BY <1>6
    <3>2. Placed(n, cl, K, s, at)
      BY <1>4
    <3>. QED BY ONLY <3>1, <3>2, n \in Nat, x \in 1 .. Len(s), NotesInIs
  <2>2. e \in NotesIn(cl, K, s[x])
    BY <1>6
  <2>. QED BY <2>1, <2>2 DEF NotesUnder
<1>8. PICK z \in On(lines, g) : FoundFor(s, any, hard, Len(s), x, y, z)
  <2>1. Visible(s, any, hard, x)
    BY <1>5, <1>6
  <2>. QED BY <1>4, <1>7, <2>1 DEF NotesFound
<1>9. PICK p \in MessageLines(lines) : g[p] = z
  BY DEF On
<1>10. lines[p].entry = e /\ z \in 1 .. Len(s)
  BY <1>1, <1>7, <1>8, <1>9 DEF FoundFor
<1>11. h < p
  <2>1. x < y /\ y <= z
    BY <1>7, <1>8 DEF Below, FoundFor
  <2>2. x < z
    BY <1>10, <2>1
  <2>. QED BY <1>1, <1>2, <1>6, <1>9, <2>2
<1>12. ASSUME NEW q \in HeadLines(lines), h <= q, q < p PROVE e \in NotesIn(cl, K, lines[q].entry)
  <2>1. q \in MessageLines(lines) /\ h \in MessageLines(lines) /\ q \in Nat /\ h \in Nat
    BY <1>1, <1>2
  <2>2. h = q \/ h < q
    BY <1>12, <2>1
  <2>3. x = g[q] \/ x < g[q]
    BY <1>1, <1>6, <2>1, <2>2
  <2>4. PICK w \in 1 .. Len(s) : w = g[q] /\ lines[q].entry = s[w] /\ s[w].sev # "note"
    BY <1>1, <1>2, <2>1
  <2>5. x <= w /\ w < z /\ Visible(s, any, hard, w)
    <3>1. Visible(s, any, hard, w)
      BY <1>5, <2>4
    <3>2. w < z
      BY <1>1, <1>9, <1>12, <2>1, <2>4
    <3>3. x <= w
      BY ONLY <2>3, <2>4, x \in 1 .. Len(s), w \in 1 .. Len(s)
    <3>. QED BY <3>1, <3>2, <3>3
  <2>6. PICK v \in 1 .. Len(s) : Below(s, w, v) /\ s[v] = s[y]
    BY <1>8, <2>4, <2>5 DEF FoundFor
  <2>7. NotesUnder(cl, K, s, w)
    <3>1. s[w].sev # "note"
      BY <2>4
    <3>2. Placed(n, cl, K, s, at)
      BY <1>4
    <3>. QED BY ONLY <3>1, <3>2, n \in Nat, w \in 1 .. Len(s), NotesInIs
  <2>8. e \in NotesIn(cl, K, s[w])
    BY <1>7, <2>6, <2>7 DEF NotesUnder
  <2>. QED BY <2>4, <2>8
<1>. QED BY <1>9, <1>10, <1>11, <1>12

\* What was printed is what was told.
PrintedAs ==
  \E s, at : /\ Placed(Len(nodes), claims, ToldIn(claims), s, at)
             /\ PrintsAll(s, AnyIn(s), HardIn(s), printed.lines)
             /\ printed.errors = Cardinality(CountedIn(s, AnyIn(s), HardIn(s), Len(s)))

\* The messages are printed.
LEMMA ShowPrints ==
  ASSUME StatusInv, SaidInv, Show
  PROVE  PrintedAs'
<1>1. /\ log' = Closed(log) /\ printed' = error_print(Shown(log')) /\ nodes' = nodes /\ claims' = claims
  BY DEF Show
<1>2. PICK n \in Nat : n = Len(nodes)
  BY DEF StatusInv, MsgTyped, Tree
<1>3. Tree(nodes) /\ log \in LogsAt(n) /\ StopOK(log)
  BY <1>2 DEF StatusInv, MsgTyped
<1>4. PICK c : c = Closed(log)
  OBVIOUS
<1>5. c \in LogsAt(n) /\ c.open = NoEntry /\ c.stop = log.stop
  BY <1>3, <1>4, ClosedIs
<1>6. StopOK(c) /\ c.stop = log.stop /\ (c.stop # Unlimited => c.stop \in 1 .. Len(c.list) /\ IsEnd(c.list[c.stop]))
  BY <1>3, <1>4, ClosedStop
<1>7. PICK L \in Seq(MessagesAt(n)) : L = c.list
  BY <1>5 DEF LogsAt
<1>8. PICK stop : stop = c.stop
  OBVIOUS
<1>9. PICK at : Recorded(n, claims, L, at) /\ EndsAt(claims, at, stop)
  BY <1>2, <1>4, <1>6, <1>7, <1>8 DEF SaidInv, Saying
<1>10. stop # Unlimited => stop \in 1 .. Len(L)
  BY <1>6, <1>7, <1>8
<1>11. PICK s : s = Shown(c)
  OBVIOUS
<1>12. s \in Seq(MessagesAt(n)) /\ Len(s) = (IF stop = Unlimited THEN Len(L) ELSE stop) /\ \A p \in 1 .. Len(s) : s[p] = L[p]
  <2>1. CASE stop = Unlimited
    <3>1. s = L
      BY <1>7, <1>8, <1>11, <2>1 DEF Shown
    <3>. QED BY <2>1, <3>1
  <2>2. CASE stop # Unlimited
    <3>1. s = SubSeq(L, 1, stop) /\ stop \in 1 .. Len(L)
      BY <1>7, <1>8, <1>10, <1>11, <2>2 DEF Shown
    <3>2. s \in Seq(MessagesAt(n))
      BY <3>1
    <3>3. Len(s) = stop /\ \A p \in 1 .. stop : s[p] = L[p]
      BY <3>1
    <3>. QED BY <2>2, <3>2, <3>3
  <2>. QED BY <2>1, <2>2
<1>13. PICK bt : Blocks(claims, ToldIn(claims), s, bt)
  BY ONLY <1>9, <1>10, <1>12, n \in Nat, ShownBlocks
<1>14. Placed(n, claims, ToldIn(claims), s, bt)
  <2>1. Claims(n, claims)
    BY <1>9 DEF Recorded
  <2>. QED BY <1>12, <1>13, <2>1 DEF Placed
<1>15. PICK pr : pr = error_print(s)
  OBVIOUS
<1>16. /\ pr.errors > 0 <=> \E e \in ToSet(s) : e.sev \in Faulty
       /\ \A e \in ToSet(s) : e.sev = "fatal" => \E l \in ToSet(pr.lines) : l.what = "message" /\ l.entry = e
       /\ PrintsAll(s, AnyIn(s), HardIn(s), pr.lines)
       /\ pr.errors = Cardinality(CountedIn(s, AnyIn(s), HardIn(s), Len(s)))
  BY ONLY <1>2, <1>3, <1>12, <1>15, n \in Nat, ErrorPrintIs
<1>17. printed' = pr
  BY <1>1, <1>4, <1>11, <1>15
<1>. QED BY <1>1, <1>2, <1>14, <1>16, <1>17 DEF PrintedAs

\* The definitions of Outputs, by number
LEMMA ToldAre ==
  ASSUME StatusInv, SaidInv
  PROVE  Told = ToldIn(claims) /\ Wanted = WantedIn(claims, ToldIn(claims))
<1>1. DOMAIN claims = 1 .. Len(claims)
  BY DEF StatusInv, MsgTyped
<1>2. \A i : Heard(i) <=> HeardIn(claims, i)
  BY DEF Heard, HeardIn
<1>3. Said = SaidIn(claims)
  BY <1>1, <1>2 DEF Said, SaidIn
<1>4. Told = ToldIn(claims)
  BY <1>3 DEF Told, ToldIn
<1>. QED BY <1>4 DEF Wanted, WantedIn, Sevs

\* What was printed has the properties.
LEMMA ShownFollows ==
  ASSUME StatusInv, SaidInv, Ended, PrintedAs
  PROVE  EachShown /\ NotesBelow
<1>1. PICK n \in Nat : n = Len(nodes)
  BY DEF StatusInv, MsgTyped, Tree
<1>2. PICK K : K = ToldIn(claims)
  OBVIOUS
<1>3. PICK lines : lines = printed.lines
  OBVIOUS
<1>4. PICK s, at : /\ Placed(n, claims, K, s, at) /\ PrintsAll(s, AnyIn(s), HardIn(s), lines)
                   /\ printed.errors = Cardinality(CountedIn(s, AnyIn(s), HardIn(s), Len(s)))
  BY <1>1, <1>2, <1>3 DEF PrintedAs
<1>5. Len(lines) \in Nat /\ DOMAIN lines = 1 .. Len(lines)
  BY <1>4 DEF PrintsAll
<1>6. PICK g : ShownAs(n, claims, K, s, at, lines, g)
  BY <1>4 DEF PrintsAll, ShownAs
<1>7. Told = K /\ Wanted = WantedIn(claims, K)
  BY <1>2, ToldAre
<1>8. Printed = MessageLines(lines) /\ Heads = HeadLines(lines) /\ \A p : EntryAt(p) = lines[p].entry
  BY <1>3, <1>5 DEF Printed, Heads, EntryAt, MessageLines, HeadLines
<1>9. \A p : NotesOf(p) = NotesIn(claims, K, lines[p].entry)
  BY <1>7, <1>8 DEF NotesOf, NotesIn
<1>10. EachShown
  <2>1. signal \/ \A c \in ToSet(claims) : ~c.early
    <3>. SUFFICES ASSUME NEW c \in ToSet(claims), c.early PROVE signal
      OBVIOUS
    <3>1. ~InPass
      BY DEF Ended, InPass
    <3>2. AnyEarly(claims)
      <4>1. claims \in Seq(ClaimsAt(n))
        BY <1>1 DEF StatusInv, MsgTyped
      <4>2. PICK i \in 1 .. Len(claims) : claims[i] = c
        BY <4>1, ToSetIs
      <4>. QED BY <4>2 DEF AnyEarly
    <3>. QED BY <3>1, <3>2 DEF SaidInv
  <2>2. /\ \A i \in WantedIn(claims, K) : \E p \in HeadLines(lines) : lines[p].entry = claims[i].message
        /\ \A p, q \in HeadLines(lines) : p <= q =>
             \E i, j \in WantedIn(claims, K) : /\ lines[p].entry = claims[i].message /\ lines[q].entry = claims[j].message
                                               /\ i <= j /\ (i = j => p = q)
    BY <1>6, EachIs
  <2>3. printed.errors = Cardinality({p \in HeadLines(lines) : lines[p].entry.sev # "warning"})
    BY <1>4, <1>5, <1>6, CountIs
  <2>4. \A i \in Wanted : \E p \in Heads : EntryAt(p) = claims[i].message
    BY <1>7, <1>8, <2>2
  <2>5. ASSUME NEW p \in Heads, NEW q \in Heads, p <= q
        PROVE  \E i, j \in Wanted : /\ EntryAt(p) = claims[i].message /\ EntryAt(q) = claims[j].message
                                     /\ i <= j /\ (i = j => p = q)
    <3>1. p \in HeadLines(lines) /\ q \in HeadLines(lines)
      BY <1>8
    <3>2. PICK i, j \in WantedIn(claims, K) : /\ lines[p].entry = claims[i].message /\ lines[q].entry = claims[j].message
                                              /\ i <= j /\ (i = j => p = q)
      BY <2>2, <2>5, <3>1
    <3>. QED BY <1>7, <1>8, <3>2
  <2>6. {p \in HeadLines(lines) : lines[p].entry.sev # "warning"} = {p \in Heads : EntryAt(p).sev # "warning"}
    BY <1>8
  <2>7. printed.errors = Cardinality({p \in Heads : EntryAt(p).sev # "warning"})
    BY ONLY <2>3, <2>6
  <2>. QED BY ONLY <2>1, <2>4, <2>5, <2>7 DEF EachShown
<1>11. NotesBelow
  <2>1. \A p \in MessageLines(lines) \ HeadLines(lines) :
          \E h \in HeadLines(lines) : /\ h < p /\ lines[p].entry \in NotesIn(claims, K, lines[h].entry)
                                      /\ \A q \in HeadLines(lines) : q < p => q <= h
    BY <1>6, NotesOwned
  <2>2. \A h \in HeadLines(lines) : \A e \in NotesIn(claims, K, lines[h].entry) :
          \E p \in MessageLines(lines) :
            /\ h < p /\ lines[p].entry = e
            /\ \A q \in HeadLines(lines) : h <= q /\ q < p => e \in NotesIn(claims, K, lines[q].entry)
    <3>. SUFFICES ASSUME NEW h \in HeadLines(lines), NEW e \in NotesIn(claims, K, lines[h].entry)
                  PROVE  \E p \in MessageLines(lines) :
                           /\ h < p /\ lines[p].entry = e
                           /\ \A q \in HeadLines(lines) : h <= q /\ q < p => e \in NotesIn(claims, K, lines[q].entry)
      OBVIOUS
    <3>. QED BY <1>6, NotesShown
  <2>. QED BY <1>8, <1>9, <2>1, <2>2 DEF NotesBelow
<1>. QED BY <1>10, <1>11

\* What was said is in the list, and at the end it was printed.
ShownInv == SaidInv /\ (Ended => PrintedAs)

\* Every step keeps it: it is printed once, at the very end.
LEMMA ShownNext ==
  ASSUME StatusInv, StatusInv', OutInv, ShownInv, [Next]_vars
  PROVE  ShownInv'
<1>1. SaidInv'
  BY SaysNext DEF ShownInv
<1>2. ASSUME Ended' PROVE PrintedAs'
  <2>1. stage' = "done"
    BY <1>2 DEF Ended
  <2>2. CASE Show
    BY <2>2, ShowPrints DEF ShownInv
  <2>3. CASE UNCHANGED <<msgVars, stage, endVars>>
    <3>1. UNCHANGED <<stage, nodes, claims, printed>>
      BY <2>3 DEF msgVars, endVars
    <3>. QED BY <2>1, <3>1 DEF ShownInv, Ended, PrintedAs
  <2>4. CASE UNCHANGED vars \/ NextOutput \/ Memcomp
    <3>1. UNCHANGED <<msgVars, stage, endVars>>
      BY <2>4 DEF vars, NextOutput, Memcomp, EnterMemcomp, Splice, CopyLater, CutEarlier, Apart, NextBlock, Sort
    <3>. QED BY <2>3, <3>1
  <2>5. ~Pass
    <3>1. (\E m \in Mems, a \in 0 .. Size - 1 : Byte(m, a)) => InPass /\ stage' = stage
      BY DEF Byte
    <3>2. Dsection(0) \/ Dsection(1) => InPass /\ stage' = stage
      BY DEF Dsection
    <3>. QED BY <2>1, <3>1, <3>2 DEF Pass, InPass
  <2>6. ~NextPass /\ ~ListingPass
    BY <2>1 DEF NextPass, ListingPass, NewPass
  <2>7. ~PassesOver /\ ~Symbols /\ ~OutputsOver
    <3>1. PassesOver => stage' \in {"shown", "symbols"}
      BY DEF PassesOver
    <3>2. Symbols => stage' \in {"shown", "outputs"}
      BY DEF Symbols
    <3>. QED BY <2>1, <3>1, <3>2 DEF OutputsOver
  <2>8. ~Unopened
    BY <2>1 DEF Unopened, Ready
  <2>9. ~Write
    BY <2>1 DEF Write, OutInv
  <2>. QED BY <2>2, <2>4, <2>5, <2>6, <2>7, <2>8, <2>9 DEF Next, Ending
<1>. QED BY <1>1, <1>2 DEF ShownInv

\* It is so at first.
LEMMA ShownInit == Init => ShownInv
<1>1. Init => ~Ended
  BY DEF Init, Ended
<1>. QED BY <1>1, SaysInit DEF ShownInv

\* The invariants imply the properties.
LEMMA ShownIsFollows == StatusInv /\ ShownInv => EachShown /\ NotesBelow
<1>. SUFFICES ASSUME StatusInv, ShownInv PROVE EachShown /\ NotesBelow
  OBVIOUS
<1>1. CASE Ended
  BY <1>1, ShownFollows DEF ShownInv
<1>2. CASE ~Ended
  BY <1>2 DEF EachShown, NotesBelow
<1>. QED BY <1>1, <1>2

\* Both invariants hold.
LEMMA ShownKept == Spec => []StatusInv /\ []ShownInv
<1>1. OutInv /\ StatusInv /\ [Next]_vars => StatusInv'
  BY StatusNext
<1>2. OutInv /\ StatusInv /\ StatusInv' /\ ShownInv /\ [Next]_vars => ShownInv'
  BY ShownNext
<1>. QED BY <1>1, <1>2, OutKept, StatusInit, ShownInit, PTL DEF Spec

\* What is shown are the messages of the last pass, each once and in the order they were
\* reported; none is lost because an earlier pass or an earlier line said the same, and
\* the errors are counted as they are shown (close_error, error_print).
THEOREM EachIsShown == Spec => []EachShown
BY ShownKept, ShownIsFollows, PTL

\* Notes are below the message they belong to, and a message has all of its notes before
\* one follows that does not have them too, also if notes were dropped as they were said
\* twice (new_error_msg_common, error_print).
THEOREM NotesAreBelow == Spec => []NotesBelow
BY ShownKept, ShownIsFollows, PTL
=============================================================================
