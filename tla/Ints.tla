-------------------------------- MODULE Ints --------------------------------
(***************************************************************************)
(* Integers of any size (intobj.c): a sign and a sequence of digits, the   *)
(* lowest first, without zeros at the top.  The length of the object's     *)
(* `len' is Len(d) and its sign is neg; zero has no digits.  The digits    *)
(* have SHIFT bits (32 in the program), and every sum, product and shift   *)
(* of digits is cut to a digit where the code's variable is a digit_t.     *)
(* Memory (inew, the buffer inside of the object, the objects shared for   *)
(* small values, in place results) is left out: a result is a new value.   *)
(***************************************************************************)
EXTENDS Integers, Sequences
LOCAL INSTANCE SequencesExt
LOCAL INSTANCE FiniteSetsExt
LOCAL INSTANCE Bitwise

CONSTANTS SHIFT,   (* bits of a digit_t                                    *)
          Refused  (* an error in the place of a result                    *)

B == 2^SHIFT
MASK == B - 1

At(d, i) == IF i \in 1..Len(d) THEN d[i] ELSE 0
Bit(c) == IF c THEN 1 ELSE 0
Strip(d) == SubSeq(d, 1, Max({0} \cup {i \in 1..Len(d) : d[i] # 0}))
normalize(d, neg) == LET s == Strip(d) IN [neg |-> neg /\ s # <<>>, d |-> s]
zero == normalize(<<>>, FALSE)
one == normalize(<<1>>, FALSE)
minus1 == normalize(<<1>>, TRUE)

(* A loop over n digits with a carry: Step gives the digit and the carry.  *)
Ripple(n, start, Step(_, _)) ==
  FoldLeft(LAMBDA x, i : LET s == Step(i, x.c) IN [c |-> s[2], d |-> Append(x.d, s[1])],
           [c |-> start, d |-> <<>>], [i \in 1..n |-> i])

negate(v) == normalize(v.d, ~v.neg)

(* Sums and differences of the digits, the signs left aside.  Whether a    *)
(* digit overflowed is seen from the sum, which is cut to a digit.         *)
iadd(x, y) ==
  LET a == IF Len(x) < Len(y) THEN y ELSE x
      b == IF Len(x) < Len(y) THEN x ELSE y
      r == Ripple(Len(a), FALSE, LAMBDA i, c :
             LET v == (a[i] + At(b, i) + Bit(c)) % B
             IN <<v, IF c THEN v <= a[i] ELSE v < a[i]>>)
  IN normalize(Append(r.d, Bit(r.c)), FALSE)

Below(x, y) ==
  \/ Len(x) < Len(y)
  \/ /\ Len(x) = Len(y)
     /\ \E i \in 1..Len(x) : x[i] < y[i] /\ \A j \in i+1..Len(x) : x[j] = y[j]
isub(x, y) ==
  LET a == IF Below(x, y) THEN y ELSE x
      b == IF Below(x, y) THEN x ELSE y
      r == Ripple(Len(a), FALSE, LAMBDA i, c :
             <<(a[i] - At(b, i) - Bit(c)) % B, IF c THEN a[i] <= At(b, i) ELSE a[i] < At(b, i)>>)
  IN normalize(r.d, Below(x, y))

imul(x, y) ==
  LET Row(v, i) ==
        LET r == Ripple(Len(y), 0, LAMBDA j, c :
                   LET t == c + v[i + j - 1] + x[i] * y[j] IN <<t % B, t \div B>>)
        IN [k \in DOMAIN v |->
              IF k - i + 1 \in 1..Len(y) THEN r.d[k - i + 1] ELSE IF k = i + Len(y) THEN v[k] + r.c ELSE v[k]]
  IN normalize(FoldLeft(Row, [k \in 1..Len(x) + Len(y) |-> 0], [i \in 1..Len(x) |-> i]), FALSE)

Signed(v, neg) == normalize(v.d, v.neg # neg)
Add(v, w) ==
  IF v.neg = w.neg THEN Signed(iadd(v.d, w.d), v.neg)
  ELSE IF v.neg THEN isub(w.d, v.d) ELSE isub(v.d, w.d)
Sub(v, w) ==
  IF v.neg # w.neg THEN Signed(iadd(v.d, w.d), v.neg)
  ELSE Signed(isub(v.d, w.d), v.neg)
Mul(v, w) == Signed(imul(v.d, w.d), v.neg # w.neg)

invert(v) == IF v.neg THEN isub(v.d, <<1>>) ELSE Signed(iadd(v.d, <<1>>), TRUE)

(***************************************************************************)
(* Division.  By one digit the quotient's digits come one by one; by more  *)
(* (Knuth's algorithm D) both are shifted until the divisor's top bit is   *)
(* set, a digit is estimated from the top two digits, corrected by the     *)
(* third, and once more when the subtraction goes below zero.  The         *)
(* estimate is cast to a digit: `full' remembers one that does not fit.    *)
(***************************************************************************)
Shl(d, s, n) == [i \in 1..n |-> ((At(d, i) * 2^s) % B) + At(d, i - 1) \div 2^(SHIFT - s)]
ByDigit(a, n) ==
  LET r == FoldRight(LAMBDA h, x : LET t == x.r * B + h IN [q |-> <<t \div n>> \o x.q, r |-> t % n],
                     a, [q |-> <<>>, r |-> 0])
  IN [q |-> r.q, r |-> <<r.r>>, full |-> FALSE]

Shift(b) == Min({s \in 0..SHIFT-1 : (b[Len(b)] * 2^s) % B > MASK \div 2})
Estimate(top, second, third, w) ==
  LET wm1 == w[Len(w)]
      wm2 == w[Len(w) - 1]
      q0 == (top * B + second) \div wm1
      Fix[qr \in Int \X Int] ==
        IF qr[1] * wm2 > qr[2] * B + third
        THEN IF qr[2] + wm1 > MASK THEN qr[1] - 1 ELSE Fix[<<qr[1] - 1, qr[2] + wm1>>]
        ELSE qr[1]
  IN [q |-> Fix[<<q0 % B, (top * B + second - (q0 % B) * wm1) % B>>], full |-> q0 > MASK]
(* v without q times w at digit j; e is the product's carry, c the borrow. *)
Subtract(v, w, j, q) ==
  LET r == Ripple(Len(w), [e |-> 0, c |-> FALSE], LAMBDA i, x :
             LET e == x.e + q * w[i]
                 t == e % B
                 d == v[j + i - 1]
             IN <<(d - t - Bit(x.c)) % B, [e |-> e \div B, c |-> IF x.c THEN d <= t ELSE d < t]>>)
      top == v[j + Len(w)]
  IN [v |-> [k \in DOMAIN v |-> IF k - j + 1 \in 1..Len(w) THEN r.d[k - j + 1] ELSE v[k]],
      below |-> IF r.c.c THEN top <= r.c.e ELSE top < r.c.e]
(* Mutant: the divisor is not added back.                                  *)
AddBackNot(v, w, j) == v
AddBack(v, w, j) ==
  LET r == Ripple(Len(w), FALSE, LAMBDA i, c :
             LET t == v[j + i - 1]
                 s == (t + w[i] + Bit(c)) % B
             IN <<s, IF c THEN s <= t ELSE s < t>>)
  IN [k \in DOMAIN v |-> IF k - j + 1 \in 1..Len(w) THEN r.d[k - j + 1] ELSE v[k]]
Corrected(sub, q, w, j) ==
  [v |-> IF sub.below THEN AddBack(sub.v, w, j) ELSE sub.v, q |-> (IF sub.below THEN q - 1 ELSE q) % B]
Stepped(x, est, w, j) ==
  LET next == Corrected(Subtract(x.v, w, j, est.q), est.q, w, j)
  IN [v |-> next.v, q |-> <<next.q>> \o x.q, full |-> x.full \/ est.full]
Unshifted(x, s, n) ==
  [q |-> x.q, full |-> x.full,
   r |-> [i \in 1..n |-> x.v[i] \div 2^s + (IF i < n THEN (x.v[i + 1] * 2^(SHIFT - s)) % B ELSE 0)]]
ByDigits(a, b) ==
  LET s == Shift(b)
      w == Shl(b, s, Len(b))
      v0 == Shl(a, s, Len(a) + 1)
      n == IF v0[Len(a) + 1] # 0 \/ v0[Len(a)] >= w[Len(b)] THEN Len(a) + 1 ELSE Len(a)
      Step(x, j) == Stepped(x, Estimate(x.v[j + Len(b)], x.v[j + Len(b) - 1], x.v[j + Len(b) - 2], w), w, j)
  IN Unshifted(FoldLeft(Step, [v |-> v0, q |-> <<>>, full |-> FALSE],
                        [i \in 1..n - Len(b) |-> n - Len(b) + 1 - i]), s, Len(b))

(* Too small to divide: only the length and the top digit are looked at.   *)
Less(a, b) == Len(a) < Len(b) \/ (Len(a) = Len(b) /\ a[Len(a)] < b[Len(b)])
Divided(a, b) == IF Len(b) = 1 THEN ByDigit(a, b[1]) ELSE ByDigits(a, b)
(* The quotient is one more when its sign is negative and something is     *)
(* left; a carry out of its digits has no place to go.                     *)
Up(d) == Ripple(Len(d), TRUE, LAMBDA i, c : <<(d[i] + Bit(c)) % B, c /\ d[i] = MASK>>)
Rest(x) == Strip(x.r) # <<>>
Quotient(x, neg) == normalize(IF neg /\ Rest(x) THEN Up(x.q).d ELSE x.q, neg)
Div(v, w) ==
  LET neg == v.neg # w.neg
  IN IF Less(v.d, w.d) THEN IF neg /\ v.d # <<>> THEN minus1 ELSE zero
     ELSE Quotient(Divided(v.d, w.d), neg)
Floored(r, w) ==
  IF r.d # <<>> /\ r.neg # w.neg THEN (IF r.neg THEN isub(w.d, r.d) ELSE isub(r.d, w.d)) ELSE r
Mod(v, w) == Floored(IF Less(v.d, w.d) THEN v ELSE normalize(Divided(v.d, w.d).r, v.neg), w)
Truncated(v, w) == ~Less(v.d, w.d) /\ Divided(v.d, w.d).full
Carried(x) == Rest(x) /\ Up(x.q).c
Overflown(v, w) == ~Less(v.d, w.d) /\ v.neg # w.neg /\ Carried(Divided(v.d, w.d))

(* Squared for every bit of the exponent below its top one, and multiplied *)
(* where the bit is set.                                                   *)
BitAt(d, i) == (At(d, i \div SHIFT + 1) \div 2^(i % SHIFT)) % 2
power(v, w) ==
  LET top == Max({i \in 0..SHIFT * Len(w.d) - 1 : BitAt(w.d, i) = 1})
      r == FoldLeft(LAMBDA x, i : LET s == imul(x, x).d IN IF BitAt(w.d, top - i) = 1 THEN imul(s, v.d).d ELSE s,
                    v.d, [i \in 1..top |-> i])
  IN normalize(r, v.neg /\ w.d[1] % 2 = 1)
Exp(v, w) == IF w.d = <<>> THEN one ELSE IF v.d = <<>> THEN v ELSE power(v, w)

(***************************************************************************)
(* Shifts.  A negative number is shifted right as one of infinitely many   *)
(* one bits: one less, shifted, and one more.                              *)
(***************************************************************************)
lshift(v, s) ==
  normalize([i \in 1..s \div SHIFT |-> 0] \o Shl(v.d, s % SHIFT, Len(v.d) + Bit(s % SHIFT # 0)), v.neg)
Down(d, c) == Ripple(Len(d), c, LAMBDA i, b : <<(d[i] - Bit(b)) % B, b /\ d[i] = 0>>).d
Shr(d, s) == [i \in 1..Len(d) |-> d[i] \div 2^s + ((At(d, i + 1) * 2^(SHIFT - s)) % B)]
Whole(v, s) == \A i \in 1..s \div SHIFT : v.d[i] = 0
rshift(v, s) ==
  LET hi == SubSeq(v.d, s \div SHIFT + 1, Len(v.d))
      bit == s % SHIFT
  IN IF Len(v.d) <= s \div SHIFT THEN IF v.neg THEN minus1 ELSE zero
     ELSE IF ~v.neg THEN normalize(Shr(hi, bit), FALSE)
     ELSE IF bit = 0 THEN normalize(IF Whole(v, s) THEN hi ELSE Up(hi).d, TRUE)
     ELSE normalize(Up(Shr(Down(hi, Whole(v, s)), bit)).d, TRUE)
ShiftedOut(v, s) ==
  LET hi == SubSeq(v.d, s \div SHIFT + 1, Len(v.d))
  IN v.neg /\ s % SHIFT = 0 /\ hi # <<>> /\ ~Whole(v, s) /\ Up(hi).c

(***************************************************************************)
(* Logic on the two's complement of infinitely many bits: negative         *)
(* operands are complemented on the way in (c1, c2) and a negative result  *)
(* on the way out (c), one digit longer than the operands.  The four cases *)
(* of signs, loops of their own in the code, are one here.  Operands of    *)
(* one digit take a path of their own, which has only one digit.           *)
(***************************************************************************)
Neg(x, c, neg) == IF neg THEN (MASK - x + Bit(c)) % B ELSE x
Digitwise(Op(_, _), v, w, neg) ==
  LET r == Ripple(Max({Len(v.d), Len(w.d)}), [c1 |-> TRUE, c2 |-> TRUE, c |-> TRUE], LAMBDA i, x :
             LET e == At(v.d, i)
                 f == At(w.d, i)
                 g == Op(Neg(e, x.c1, v.neg), Neg(f, x.c2, w.neg))
             IN <<Neg(g, x.c, neg), [c1 |-> x.c1 /\ e = 0, c2 |-> x.c2 /\ f = 0, c |-> x.c /\ g = 0]>>)
  IN normalize(Append(r.d, IF neg /\ r.c.c THEN 1 ELSE 0), neg)
Small(v, w) == Len(v.d) <= 1 /\ Len(w.d) <= 1
OneDigit(Op(_, _), v, w, neg) ==
  normalize(<<Neg(Op(Neg(At(v.d, 1), TRUE, v.neg), Neg(At(w.d, 1), TRUE, w.neg)), TRUE, neg)>>, neg)
Logic(Op(_, _), v, w, neg) == IF Small(v, w) THEN OneDigit(Op, v, w, neg) ELSE Digitwise(Op, v, w, neg)
And2(x, y) == x & y
Or2(x, y) == x | y
Xor2(x, y) == x ^^ y
and_(v, w) == Logic(And2, v, w, v.neg /\ w.neg)
or_(v, w) == Logic(Or2, v, w, v.neg \/ w.neg)
xor_(v, w) == Logic(Xor2, v, w, v.neg # w.neg)
(* A negative result of one digit whose low digit is zero has no sign.     *)
Signless(Op(_, _), v, w, neg) == neg /\ Small(v, w) /\ OneDigit(Op, v, w, TRUE) = zero

icmp(v, w) ==
  IF v.neg # w.neg THEN IF v.neg THEN -1 ELSE 1
  ELSE IF v.d = w.d THEN 0
  ELSE IF Below(v.d, w.d) # v.neg THEN -1 ELSE 1

(***************************************************************************)
(* Into a machine word of the given number of bits: Refused says that the  *)
(* number is not let through.                                              *)
(***************************************************************************)
ival(v, bits) ==
  LET d == IF v.neg THEN v.d[1] - 1 ELSE v.d[1]
  IN IF v.d = <<>> THEN 0
     ELSE IF Len(v.d) > 1 \/ (bits <= SHIFT /\ d \div 2^(bits - 1) # 0) THEN Refused
     ELSE IF v.neg THEN -1 - d ELSE d
uval(v, bits) ==
  IF v.d = <<>> THEN 0
  ELSE IF v.neg \/ Len(v.d) > 1 \/ (bits < SHIFT /\ v.d[1] \div 2^bits # 0) THEN Refused
  ELSE v.d[1]
(* The low digit of the two's complement.                                  *)
ldigit(v) == Neg(At(v.d, 1), TRUE, v.neg)

(***************************************************************************)
(* To decimal and back, in groups of digits of which DMUL is the first     *)
(* number too large.                                                       *)
(***************************************************************************)
Grouped(v, DMUL) ==
  LET Carry[h \in Nat] == IF h = 0 THEN <<>> ELSE <<h % DMUL>> \o Carry[h \div DMUL]
      Digit(h, out) ==
        LET r == Ripple(Len(out), h, LAMBDA j, c : LET t == out[j] * B + c IN <<t % DMUL, t \div DMUL>>)
        IN r.d \o Carry[r.c]
  IN FoldRight(Digit, v.d, <<>>)
Ungrouped(groups, neg, DMUL) ==
  LET Group(val, d) ==
        LET r == Ripple(Len(d), val, LAMBDA j, c : LET t == d[j] * DMUL + c IN <<t % B, t \div B>>)
        IN IF r.c # 0 THEN Append(r.d, r.c) ELSE r.d
  IN normalize(FoldRight(Group, groups, <<>>), neg)

Number(v) == (IF v.neg THEN -1 ELSE 1) * FoldRight(LAMBDA h, x : x * B + h, v.d, 0)
=============================================================================
