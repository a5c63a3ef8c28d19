------------------------------- MODULE Trees -------------------------------
(***************************************************************************)
(* The two search trees that the tables of the assembler are kept in: the  *)
(* balanced tree with parent links of avl.c, and the ternary search tree   *)
(* of ternary.c, which finds the longest entry at the start of a text.     *)
(*                                                                         *)
(* A balanced tree is a record with the root and a function from its       *)
(* entries to nodes.  Its two sides are -1 (left) and 1 (right), so that   *)
(* the mirrored halves of the code are one definition here.  The order is  *)
(* not known to the tree: the caller gives for every entry the side on     *)
(* which the new one belongs, 0 where both are the same (the comparison    *)
(* function of the code).                                                  *)
(*                                                                         *)
(* A ternary tree is <<>> or <<splitchar, lokid, eqkid, hikid>>; below the *)
(* mark End, which is greater than every character, eqkid is the data.     *)
(***************************************************************************)
EXTENDS Integers, Sequences, FiniteSets, TLC

-----------------------------------------------------------------------------
(* Balanced trees. *)

Null == <<>>
EmptyTree == [root |-> Null, node |-> <<>>]

Child(t, n, s) == t.node[n].kid[s]
Parent(t, n) == t.node[n].parent
Balance(t, n) == t.node[n].balance

SideOf(t, n, parent) == IF Child(t, parent, -1) = n THEN -1 ELSE 1
WithChild(t, n, s, c) == [t EXCEPT !.node[n].kid[s] = c]
WithParent(t, n, p) == IF n = Null THEN t ELSE [t EXCEPT !.node[n].parent = p]
WithBalance(t, n, b) == [t EXCEPT !.node[n].balance = b]

\* The parent's link to n leads to c from now on.
Hang(t, n, c) ==
  LET p == Parent(t, n)
  IN IF p = Null THEN [t EXCEPT !.root = c] ELSE WithChild(t, p, SideOf(t, n, p), c)

\* p goes down to the side s of its child on the other side, which takes its place.
Rotate(t, p, s) ==
  LET q == Child(t, p, -s)
      inner == Child(t, q, s)
      moved == [Hang(t, p, q) EXCEPT !.node[q].parent = Parent(t, p), !.node[p].parent = q,
                                     !.node[p].kid[-s] = inner, !.node[q].kid[s] = p]
  IN WithParent(moved, inner, p)

RECURSIVE avltree_lookup(_, _, _)
\* The entry that side says is the same, or Null; at is where the search goes on.
avltree_lookup(t, at, side) ==
  IF at = Null \/ side[at] = 0 THEN at ELSE avltree_lookup(t, Child(t, at, side[at]), side)

RECURSIVE do_lookup(_, _, _, _)
do_lookup(t, at, place, side) ==
  IF at = Null THEN [place EXCEPT !.found = Null]
  ELSE LET seen == [place EXCEPT !.unbalanced = IF Balance(t, at) # 0 THEN at ELSE @]
       IN IF side[at] = 0 THEN [seen EXCEPT !.found = at]
          ELSE do_lookup(t, Child(t, at, side[at]), [seen EXCEPT !.parent = at, !.side = side[at]], side)

\* The two or three nodes at n are brought to balance when its side s is two higher.
Straighten(t, n, s) ==
  LET high == Child(t, n, s)
      inner == Child(t, high, -s)
      b == Balance(t, inner)
  IN IF Balance(t, high) = s
     THEN Rotate(WithBalance(WithBalance(t, n, 0), high, 0), n, -s)
     ELSE LET weighed == [t EXCEPT !.node[n].balance = IF b = s THEN -s ELSE 0,
                                   !.node[high].balance = IF b = -s THEN s ELSE 0,
                                   !.node[inner].balance = 0]
          IN Rotate(Rotate(weighed, high, s), n, -s)

RECURSIVE Weigh(_, _, _)
\* n has grown: the balances change up to the last node that was not in balance.
Weigh(t, n, last) ==
  LET p == Parent(t, n)
      heavier == WithBalance(t, p, Balance(t, p) + SideOf(t, n, p))
  IN IF p = last THEN heavier ELSE Weigh(heavier, p, last)

\* The tree with n in it, or the entry found in its place.
avltree_insert(t, n, side) ==
  LET place == do_lookup(t, t.root, [found |-> Null, parent |-> Null, unbalanced |-> t.root, side |-> -1], side)
      p == place.parent
      added == [t EXCEPT !.node = @ @@ (n :> [kid |-> [s \in {-1, 1} |-> Null], parent |-> p, balance |-> 0])]
      weighed == Weigh(WithChild(added, p, place.side, n), n, place.unbalanced)
      b == Balance(weighed, place.unbalanced)
  IN IF place.found # Null THEN [found |-> place.found, tree |-> t]
     ELSE [found |-> Null,
           tree |-> IF p = Null THEN [added EXCEPT !.root = n]
                    ELSE IF b \in {-2, 2} THEN Straighten(weighed, place.unbalanced, b \div 2) ELSE weighed]

RECURSIVE Lighten(_, _, _)
\* The side s of n has become lower by one.
Lighten(t, n, s) ==
  IF n = Null THEN t
  ELSE LET p == Parent(t, n)
           onward == IF p = Null THEN 1 ELSE SideOf(t, n, p)
           b == Balance(t, n) - s
           high == Child(t, n, -s)
           lighter == WithBalance(t, n, b)
       IN CASE b = 0 -> Lighten(lighter, p, onward)
            [] b = -s -> lighter
            [] OTHER ->
                 IF Balance(t, high) = 0
                 THEN Rotate([t EXCEPT !.node[n].balance = -s, !.node[high].balance = s], n, s)
                 ELSE Lighten(Straighten(lighter, n, -s), p, onward)

RECURSIVE Leftmost(_, _)
Leftmost(t, n) == IF Child(t, n, -1) = Null THEN n ELSE Leftmost(t, Child(t, n, -1))

Without(t, n) == [t EXCEPT !.node = [m \in DOMAIN @ \ {n} |-> @[m]]]

\* Mutant: the successor keeps the balance of its old place.
avltree_removeBalance(t, n) ==
  LET left == Child(t, n, -1)
      right == Child(t, n, 1)
      p == Parent(t, n)
      next == IF left = Null THEN right ELSE IF right = Null THEN left ELSE Leftmost(t, right)
      child == Child(t, next, 1)
      hung == Hang(t, n, next)
      under == IF next = right THEN next ELSE Parent(t, next)
      moved == IF next = right THEN hung ELSE WithChild(WithChild(hung, under, -1, child), next, 1, right)
      placed == [WithParent(WithParent(moved, right, next), left, next) EXCEPT
                   !.node[next].kid[-1] = left, !.node[next].parent = p]
  IN IF left # Null /\ right # Null
     THEN Lighten(Without(WithParent(placed, child, under), n), under, IF next = right THEN 1 ELSE -1)
     ELSE Lighten(Without(WithParent(hung, next, p), n), p, IF p = Null THEN 1 ELSE SideOf(t, n, p))

\* n leaves the tree: with two children the next entry takes its place and its balance.
avltree_remove(t, n) ==
  LET left == Child(t, n, -1)
      right == Child(t, n, 1)
      p == Parent(t, n)
      next == IF left = Null THEN right ELSE IF right = Null THEN left ELSE Leftmost(t, right)
      child == Child(t, next, 1)
      hung == Hang(t, n, next)
      under == IF next = right THEN next ELSE Parent(t, next)
      moved == IF next = right THEN hung ELSE WithChild(WithChild(hung, under, -1, child), next, 1, right)
      placed == [WithParent(WithParent(moved, right, next), left, next) EXCEPT
                   !.node[next].kid[-1] = left, !.node[next].parent = p,
                   !.node[next].balance = Balance(t, n)]
  IN IF left # Null /\ right # Null
     THEN Lighten(Without(WithParent(placed, child, under), n), under, IF next = right THEN 1 ELSE -1)
     ELSE Lighten(Without(WithParent(hung, next, p), n), p, IF p = Null THEN 1 ELSE SideOf(t, n, p))

-----------------------------------------------------------------------------
(* Ternary search trees. *)

End == 1000

RECURSIVE Put(_, _, _)
Put(t, key, data) ==
  IF t = <<>> THEN <<key[1], <<>>, IF key[1] = End THEN data ELSE Put(<<>>, Tail(key), data), <<>> >>
  ELSE IF key[1] = t[1] THEN [t EXCEPT ![3] = IF key[1] = End THEN data ELSE Put(@, Tail(key), data)]
  ELSE IF key[1] < t[1] THEN [t EXCEPT ![2] = Put(@, key, data)]
  ELSE [t EXCEPT ![4] = Put(@, key, data)]

\* The tree in which the slot of text s holds data.
ternary_insert(t, s, data) == Put(t, Append(s, End), data)

RECURSIVE HighEnd(_)
HighEnd(t) == IF t = <<>> \/ t[1] = End THEN t ELSE HighEnd(t[4])

RECURSIVE Seek(_, _, _, _)
\* key[i] is compared with t next; last is the tree behind the last character found.
Seek(t, key, i, last) ==
  IF t = <<>> THEN LET mark == HighEnd(last)
                   IN [data |-> IF mark = <<>> THEN <<>> ELSE <<mark[3]>>, len |-> i - 1]
  ELSE IF key[i] = t[1]
       THEN IF key[i] = End THEN [data |-> <<t[3]>>, len |-> i - 1] ELSE Seek(t[3], key, i + 1, t[3])
  ELSE Seek(IF key[i] < t[1] THEN t[2] ELSE t[4], key, i, last)

\* What the tree holds for the start of text s: <<>> or <<data>>, and the length used.
ternary_search(t, s) == Seek(t, Append(s, End), 1, <<>>)

RECURSIVE Entries(_)
\* The data of all texts in the tree.
Entries(t) ==
  IF t = <<>> THEN {} ELSE Entries(t[2]) \cup Entries(t[4]) \cup (IF t[1] = End THEN {t[3]} ELSE Entries(t[3]))

-----------------------------------------------------------------------------
(* What a balanced tree has to be. *)

RECURSIVE Height(_, _)
\* The height below n, or -1 when a link, a balance or the order before (entries that
\* have to come first) is broken.
Height(t, n) ==
  IF n = Null THEN 0
  ELSE LET h == [s \in {-1, 1} |-> Height(t, Child(t, n, s))]
           sound == /\ h[-1] >= 0 /\ h[1] >= 0
                    /\ Balance(t, n) = h[1] - h[-1]
                    /\ Balance(t, n) \in -1..1
                    /\ \A s \in {-1, 1}: Child(t, n, s) # Null => Parent(t, Child(t, n, s)) = n
       IN IF sound THEN 1 + (IF h[1] > h[-1] THEN h[1] ELSE h[-1]) ELSE -1

Balanced(t) == Height(t, t.root) >= 0 /\ (t.root # Null => Parent(t, t.root) = Null)
=============================================================================
