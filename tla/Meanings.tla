------------------------------- MODULE Meanings -------------------------------
(***************************************************************************)
(* What the values of expressions are, as the manual has it (README, "Bit  *)
(* string constants" and "Byte string constants", "Integer constants",     *)
(* "Boolean constants", and the tables of the operators): a number; a      *)
(* number n of w bits, where -2^w <= n < 2^w and the bits seen are those   *)
(* of n modulo 2^w; bytes and a sign; or a truth value.  Nothing here is   *)
(* taken from the way the code computes them.                              *)
(***************************************************************************)
EXTENDS Integers, Sequences, FiniteSets
LOCAL INSTANCE SequencesExt
LOCAL INSTANCE FiniteSetsExt
LOCAL INSTANCE Bitwise

CONSTANTS BYTE,    (* bits of a byte                                       *)
          WIDE     (* bits enough for every number that occurs             *)

int(n) == [type |-> "int", n |-> n]
bits(n, w) == [type |-> "bits", n |-> n, w |-> w]
bytes(b, neg) == [type |-> "bytes", b |-> b, neg |-> neg]
bool(b) == [type |-> "bool", b |-> b]
error == [type |-> "error"]

Length(m) == CASE m.type = "bits" -> m.w [] m.type = "bytes" -> Len(m.b) [] m.type = "bool" -> 1
Unsigned(b) == FoldRight(LAMBDA y, s : s * 2^BYTE + y, b, 0)
N(m) ==
  CASE m.type \in {"int", "bits"} -> m.n
    [] m.type = "bytes" -> Unsigned(m.b) - (IF m.neg THEN 2^(BYTE * Len(m.b)) ELSE 0)
    [] m.type = "bool" -> IF m.b THEN 1 ELSE 0
Magnitude(n) == IF n < 0 THEN -1 - n ELSE n
Least(n, unit) == CHOOSE w \in 0..WIDE : Magnitude(n) < 2^(unit * w) /\ (w = 0 \/ Magnitude(n) >= 2^(unit * (w - 1)))
OfBytes(n, len) == bytes([i \in 1..len |-> ((n % 2^(BYTE * len)) \div 2^(BYTE * (i - 1))) % 2^BYTE], n < 0)
AsBits(m) ==
  CASE m.type = "int" -> bits(m.n, Least(m.n, 1)) [] m.type = "bytes" -> bits(N(m), BYTE * Len(m.b)) [] OTHER -> bits(N(m), Length(m))
AsBytes(m) ==
  CASE m.type = "int" -> OfBytes(m.n, Least(m.n, BYTE)) [] m.type = "bytes" -> m
    [] OTHER -> OfBytes(N(m), (Length(m) + BYTE - 1) \div BYTE)

(* The numbers' own operators.                                             *)
Floor(a, b) == IF b > 0 THEN a \div b ELSE (-a) \div (-b)
(* On infinitely many bits of two's complement, of which the first WIDE    *)
(* and the sign say all.                                                   *)
Wrapped(n) == n % 2^WIDE
Unwrapped(u) == IF u >= 2^(WIDE - 1) THEN u - 2^WIDE ELSE u
Logic(op, a, b) ==
  Unwrapped(CASE op = "and" -> Wrapped(a) & Wrapped(b)
              [] op = "or" -> Wrapped(a) | Wrapped(b)
              [] op = "xor" -> Wrapped(a) ^^ Wrapped(b))
Holds(op, a, b) ==
  CASE op = "eq" -> a = b [] op = "ne" -> a # b [] op = "lt" -> a < b
    [] op = "le" -> a <= b [] op = "gt" -> a > b [] op = "ge" -> a >= b
(* Strings of bytes are in the order of a dictionary.                      *)
Before(a, b) ==
  LET k == Min({i \in 1..Len(a) + 1 : i > Len(a) \/ i > Len(b) \/ a[i] # b[i]})
  IN k <= Len(b) /\ (k > Len(a) \/ a[k] < b[k])
Order(a, b) ==
  IF a.type = "bytes" /\ b.type = "bytes" THEN IF a.b = b.b THEN 0 ELSE IF Before(a.b, b.b) THEN -1 ELSE 1
  ELSE IF N(a) = N(b) THEN 0 ELSE IF N(a) < N(b) THEN -1 ELSE 1

(* How long a result of and, or and xor is: the sign of the shorter one    *)
(* goes on for ever, so it is what decides.                                *)
LogicLength(op, na, la, nb, lb) ==
  LET short == Min({la, lb})
      long == Max({la, lb})
      OfShort(neg) == \E p \in {<<na, la>>, <<nb, lb>>} : p[2] = short /\ (p[1] < 0) = neg
  IN CASE op = "and" -> IF OfShort(FALSE) THEN short ELSE long
       [] op = "or" -> IF OfShort(TRUE) THEN short ELSE long
       [] op = "xor" -> long

Compares == {"cmp", "eq", "ne", "lt", "le", "gt", "ge"}
Shifted(op, n, k) == IF (op = "lshift") = (k >= 0) THEN n * 2^(IF k < 0 THEN -k ELSE k) ELSE n \div 2^(IF k < 0 THEN -k ELSE k)
Binary(op, a, b) ==
  LET types == {a.type, b.type}
      p == AsBits(a)
      q == AsBits(b)
  IN CASE op = "cmp" -> int(Order(a, b))
       [] op \in Compares -> bool(Holds(op, Order(a, b), 0))
       [] op = "add" -> int(N(a) + N(b)) [] op = "sub" -> int(N(a) - N(b)) [] op = "mul" -> int(N(a) * N(b))
       [] op = "div" -> IF N(b) = 0 THEN error ELSE int(Floor(N(a), N(b)))
       [] op = "mod" -> IF N(b) = 0 THEN error ELSE int(N(a) - N(b) * Floor(N(a), N(b)))
       [] op = "exp" -> int(IF N(b) = 0 THEN 1 ELSE N(a)^N(b))
       [] op = "land" -> IF N(a) # 0 THEN b ELSE a
       [] op = "lor" -> IF N(a) # 0 THEN a ELSE b
       [] op = "lxor" -> IF (N(a) # 0) = (N(b) # 0) THEN bool(FALSE) ELSE IF N(a) # 0 THEN a ELSE b
       [] op = "in" -> IF types # {"bytes"} THEN error
                       ELSE bool(\E i \in 0..Len(b.b) - Len(a.b) : SubSeq(b.b, i + 1, i + Len(a.b)) = a.b)
       [] op \in {"and", "or", "xor"} ->
            LET n == Logic(op, N(a), N(b))
            IN IF "int" \in types THEN int(n)
               ELSE IF types = {"bool"} THEN bool(n # 0)
               ELSE IF types = {"bytes"} THEN OfBytes(n, LogicLength(op, N(a), Length(a), N(b), Length(b)))
               ELSE bits(n, LogicLength(op, p.n, p.w, q.n, q.w))
       [] op \in {"lshift", "rshift"} ->
            LET k == IF op = "lshift" THEN N(b) ELSE -N(b)
                n == Shifted("lshift", N(a), k)
            IN IF a.type = "int" THEN int(n) ELSE bits(n, Max({0, p.w + k}))
       [] op = "concat" ->
            IF "int" \in types THEN error
            ELSE IF types = {"bytes"} THEN bytes(a.b \o b.b, IF Len(a.b) = 0 /\ Len(b.b) # 0 /\ a.neg = b.neg THEN b.neg ELSE a.neg)
            ELSE bits(p.n * 2^q.w + (q.n % 2^q.w), p.w + q.w)

Byte(n, i) == (n \div 2^(BYTE * i)) % 2^BYTE
Unary(op, a) ==
  LET Pair(lo, hi) == bits(Byte(N(a), lo) + 2^BYTE * Byte(N(a), hi), 2 * BYTE)
      p == AsBits(a)
  IN CASE op = "lower" -> bits(Byte(N(a), 0), BYTE) [] op = "higher" -> bits(Byte(N(a), 1), BYTE)
       [] op = "bank" -> bits(Byte(N(a), 2), BYTE)
       [] op = "word" -> Pair(0, 1) [] op = "hword" -> Pair(1, 2) [] op = "bsword" -> Pair(1, 0)
       [] op = "inv" -> (CASE a.type = "int" -> int(-1 - a.n) [] a.type = "bytes" -> OfBytes(-1 - N(a), Len(a.b))
                           [] OTHER -> bits(-1 - p.n, p.w))
       [] op = "neg" -> (IF a.type = "int" \/ (N(a) < 0 /\ -N(a) = 2^p.w) THEN int(-N(a))
                         ELSE IF a.type = "bytes" THEN OfBytes(-N(a), Len(a.b)) ELSE bits(-p.n, p.w))
       [] op = "pos" -> IF a.type = "bool" THEN p ELSE a
       [] op = "lnot" -> bool(N(a) = 0)

(* The bits or bytes that are seen, the lowest or first one first.         *)
Elements(a) == IF a.type = "bytes" THEN a.b ELSE [i \in 1..a.w |-> (a.n \div 2^(i - 1)) % 2]
OfElements(a, s) ==
  IF a.type = "bytes" THEN bytes(s, FALSE) ELSE bits(FoldRight(LAMBDA y, t : t * 2 + y, s, 0), Len(s))
(* Repeated, the sign stays as it is.                                      *)
Repeat(a, times) ==
  IF a.type \notin {"bits", "bytes"} THEN error
  ELSE LET s == FlattenSeq([i \in 1..times |-> Elements(a)])
       IN IF N(a) >= 0 THEN OfElements(a, s)
          ELSE IF a.type = "bytes" THEN bytes(s, TRUE) ELSE bits(OfElements(a, s).n - 2^Len(s), Len(s))
(* The places of a slice: from first by step, up to last, each of which    *)
(* counts from the end when it is negative and may be beyond an end.       *)
Slice(a, first, last, step, None) ==
  LET len == Length(a)
      From(i, out) == IF i = None THEN out ELSE IF i < 0 THEN len + i ELSE i
      f == From(first, IF step > 0 THEN 0 ELSE len - 1)
      l == From(last, IF step > 0 THEN len ELSE -1)
      start == IF step > 0 THEN Max({f, 0}) ELSE Min({f, len - 1})
      In(p) == p \in 0..len - 1 /\ (IF step > 0 THEN p < l ELSE p > l)
      places == {p \in 0..len - 1 : In(p) /\ (IF step > 0 THEN p >= start ELSE p <= start)
                                     /\ (p - start) % (IF step > 0 THEN step ELSE -step) = 0}
  IN OfElements(a, [i \in 1..Cardinality(places) |-> Elements(a)[start + (i - 1) * step + 1]])
Index(a, i) ==
  IF i \in -Length(a)..Length(a) - 1 THEN OfElements(a, <<Elements(a)[(i % Length(a)) + 1]>>) ELSE error

(* all: every bit, byte or number is not zero; any: one of them is not.    *)
Truth(f, a) ==
  CASE a.type \in {"bits", "bytes"} ->
         bool(IF f = "all" THEN \A i \in DOMAIN Elements(a) : Elements(a)[i] # 0 ELSE \E i \in DOMAIN Elements(a) : Elements(a)[i] # 0)
    [] OTHER -> bool(N(a) # 0)
Convert(type, a) == CASE type = "int" -> int(N(a)) [] type = "bits" -> AsBits(a) [] type = "bytes" -> AsBytes(a)
(* In so many bits or bytes, of which one is for the sign when the number  *)
(* given is negative.  A string must not be longer than that, and a truth  *)
(* value is a byte for bytes.                                              *)
Size(type, a, size) ==
  LET c == Convert(type, a)
      unit == IF type = "bits" THEN 1 ELSE BYTE
      len == IF size < 0 THEN -size ELSE size
      fits == /\ size < 0 => Magnitude(N(a)) < 2^(unit * len - 1)
              /\ size >= 0 /\ a.type \in {"int", "bool"} => N(a) \in 0..2^(unit * len) - 1
              /\ a.type \in {"bits", "bytes"} \cup (IF type = "bytes" THEN {"bool"} ELSE {}) => Length(c) <= len
  IN IF ~fits THEN error ELSE IF type = "bits" THEN bits(N(a), len) ELSE OfBytes(N(a), len)
=============================================================================
