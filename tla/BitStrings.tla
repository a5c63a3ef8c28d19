----------------------------- MODULE BitStrings -----------------------------
(***************************************************************************)
(* Strings of bits (bitsobj.c): a number of bits, and a content that is    *)
(* kept inverted when the object's `len' is negative, so that a string     *)
(* stands for a number as well: its content, or -1 minus it.  The content  *)
(* is a sequence of digits, the lowest first, without zeros at the top.    *)
(* In place results and memory are left out, as in Ints.                   *)
(***************************************************************************)
EXTENDS Integers, Sequences
LOCAL INSTANCE SequencesExt
LOCAL INSTANCE FiniteSetsExt

CONSTANTS SHIFT,  (* bits of a digit                                       *)
          BYTE,   (* bits of a byte                                        *)
          Refused (* an error in the place of a result                     *)
I == INSTANCE Ints

normalize(d, inv, bits) == [inv |-> inv, d |-> I!Strip(d), bits |-> bits]
null_bits == normalize(<<>>, FALSE, 0)
inv_bits == normalize(<<>>, TRUE, 0)
bits_value(b) == normalize(<<I!Bit(b)>>, FALSE, 1)
Words(bits) == (bits + SHIFT - 1) \div SHIFT
Ones(n) == 2^n - 1

invert(v) == [v EXCEPT !.inv = ~@]
(* Refused when the result needs one bit more: a number is negated then.      *)
TooWide(v) ==
  LET full == Max({i \in 0..Len(v.d) : \A j \in 1..i : v.d[j] = I!MASK})
      bs == v.bits % SHIFT
  IN /\ v.inv
     /\ full = v.bits \div SHIFT
     /\ bs = 0 \/ (full < Len(v.d) /\ v.d[full + 1] % 2^bs = Ones(bs))
negate(v) ==
  LET up == I!Up(v.d)
  IN IF v.d = <<>> /\ ~v.inv THEN v
     ELSE IF TooWide(v) THEN Refused
     ELSE IF v.inv THEN normalize(Append(up.d, I!Bit(up.c)), FALSE, v.bits)
     ELSE normalize(I!Down(v.d, TRUE), TRUE, v.bits)

TruthAll(v) ==
  LET ones == IF v.inv THEN 0 ELSE I!MASK
      whole == Min({v.bits \div SHIFT, Len(v.d)})
      b == I!At(v.d, whole + 1)
      rest == v.bits % SHIFT
  IN \/ v.bits = 0
     \/ /\ \A i \in 1..whole : v.d[i] = ones
        /\ rest = 0 \/ b % 2^rest = ones % 2^rest
TruthAny(v) == v.bits # 0 /\ (v.inv \/ v.d # <<>>)
Truth(v) == v.inv \/ v.d # <<>>

(* In a machine word: a number that is negative is its two's complement.   *)
uvalx(v, bits) ==
  IF Len(v.d) > 1 \/ (v.inv /\ v.bits > bits) \/ (~v.inv /\ bits < SHIFT /\ I!At(v.d, 1) \div 2^bits # 0)
  THEN Refused
  ELSE IF v.inv THEN I!MASK - I!At(v.d, 1) ELSE I!At(v.d, 1)
ldigit(v) == IF v.inv THEN I!MASK - I!At(v.d, 1) ELSE I!At(v.d, 1)
(* A byte or two of a word: the letters of the operators < > ` >` <> ><.   *)
bits_calc1(op, val) ==
  LET Byte(i) == (val \div 2^(BYTE * i)) % 2^BYTE
      Pair(lo, hi) == normalize(<<Byte(lo) + 2^BYTE * Byte(hi)>>, FALSE, 2 * BYTE)
  IN CASE op = "bank"   -> normalize(<<Byte(2)>>, FALSE, BYTE)
       [] op = "higher" -> normalize(<<Byte(1)>>, FALSE, BYTE)
       [] op = "lower"  -> normalize(<<Byte(0)>>, FALSE, BYTE)
       [] op = "word"   -> Pair(0, 1)
       [] op = "hword"  -> Pair(1, 2)
       [] op = "bsword" -> Pair(1, 0)

icmp(v, w) ==
  LET len(x) == IF x.inv THEN -1 - Len(x.d) ELSE Len(x.d)
  IN IF len(v) # len(w) THEN len(v) - len(w)
     ELSE IF v.d = w.d THEN 0
     ELSE IF I!Below(v.d, w.d) THEN -len(v) ELSE len(v)

(* AND, OR and XOR of two contents: operands that are inverted and a       *)
(* result that is are complemented, so that no carry is needed.            *)
binary(op, x, y) ==
  LET v == IF Len(x.d) < Len(y.d) THEN y ELSE x
      w == IF Len(x.d) < Len(y.d) THEN x ELSE y
      sz == CASE op = "and" -> Len(IF w.inv THEN v.d ELSE w.d)
              [] op = "or"  -> Len(IF w.inv THEN w.d ELSE v.d)
              [] op = "xor" -> Len(v.d)
      neg == CASE op = "and" -> v.inv /\ w.inv
               [] op = "or"  -> v.inv \/ w.inv
               [] op = "xor" -> v.inv # w.inv
      narrow == IF v.bits < w.bits THEN v ELSE w
      wide == IF v.bits < w.bits THEN w ELSE v
      bits == CASE op = "and" -> IF narrow.inv THEN wide.bits ELSE narrow.bits
                [] op = "or"  -> IF narrow.inv THEN narrow.bits ELSE wide.bits
                [] op = "xor" -> wide.bits
      Inv(d, inv) == IF inv THEN I!MASK - d ELSE d
      Op(e, f) == CASE op = "and" -> I!And2(e, f) [] op = "or" -> I!Or2(e, f) [] op = "xor" -> I!Xor2(e, f)
  IN normalize([i \in 1..sz |-> IF i <= Len(w.d) THEN Inv(Op(Inv(v.d[i], v.inv), Inv(w.d[i], w.inv)), neg)
                                ELSE v.d[i]], neg, bits)

(* hi above the bits of lo, whose content fits in them.                    *)
Join(hi, lo, bits) ==
  LET h == [i \in 1..bits \div SHIFT |-> 0] \o I!Shl(hi, bits % SHIFT, Len(hi) + 1)
  IN [i \in 1..Max({Len(h), Len(lo)}) |-> I!At(h, i) + I!At(lo, i)]
concat(v, w) ==
  LET inv == v.inv # w.inv
      rbits == w.bits \div SHIFT
      bits == w.bits % SHIFT
      low == [i \in 1..Words(w.bits) |->
                IF ~inv THEN I!At(w.d, i)
                ELSE IF i <= rbits THEN I!MASK - I!At(w.d, i)
                ELSE (I!MASK - I!At(w.d, i)) % 2^bits]
  IN IF w.bits = 0 THEN v
     ELSE IF v.bits = 0 /\ ~inv THEN w
     ELSE normalize(Join(v.d, low, w.bits), v.inv, v.bits + w.bits)
repeat(v, rep) ==
  IF rep = 0 \/ v.bits = 0 THEN IF v.inv THEN inv_bits ELSE null_bits
  ELSE normalize(FoldLeft(LAMBDA d, k : Join(v.d, d, k * v.bits), v.d, [k \in 1..rep - 1 |-> k]),
                 v.inv, rep * v.bits)

(* A shift to the left moves zeros in, which are ones in inverted content. *)
lshift(v, s) ==
  LET d == [i \in 1..s \div SHIFT |-> IF v.inv THEN I!MASK ELSE 0]
           \o I!Shl(v.d, s % SHIFT, Len(v.d) + I!Bit(s % SHIFT # 0))
      w == s \div SHIFT + 1
  IN normalize(IF v.inv /\ s % SHIFT # 0 THEN [d EXCEPT ![w] = @ + Ones(s % SHIFT)] ELSE d, v.inv, v.bits + s)
rshift(v, s) ==
  IF v.bits <= s THEN IF v.inv THEN inv_bits ELSE null_bits
  ELSE normalize(I!Shr(SubSeq(v.d, s \div SHIFT + 1, Len(v.d)), s % SHIFT), v.inv, v.bits - s)

(* The bits at the offsets; never inverted.                                *)
Picked(v, offsets) ==
  LET n == Len(offsets)
      b(i) == I!Bit((I!BitAt(v.d, offsets[i]) = 1) # v.inv)
      Digit(k) == FoldLeft(LAMBDA x, i : x + b(SHIFT * (k - 1) + i) * 2^(i - 1), 0,
                           [i \in 1..Min({SHIFT, n - SHIFT * (k - 1)}) |-> i])
  IN normalize([k \in 1..Words(n) |-> Digit(k)], FALSE, n)

(* Numbers and bytes as bits, and bits as numbers.                         *)
bits_from_int(v) ==
  LET d == IF v.neg THEN I!Down(v.d, TRUE) ELSE v.d
      len == Min({n \in 0..SHIFT : d[Len(d)] < 2^n})
  IN IF v = I!zero THEN null_bits
     ELSE IF v = I!minus1 THEN inv_bits
     ELSE normalize(d, v.neg, (Len(d) - 1) * SHIFT + len)
bits_from_bytes(v) ==
  LET per == SHIFT \div BYTE
      n == Len(v.d)
      Digit(k) == FoldRight(LAMBDA b, x : x * 2^BYTE + b, SubSeq(v.d, per * (k - 1) + 1, Min({per * k, n})), 0)
  IN normalize([k \in 1..(n + per - 1) \div per |-> Digit(k)], v.inv, n * BYTE)
int_from_bits(v) ==
  LET up == I!Up(v.d)
  IN I!normalize(IF v.inv THEN Append(up.d, I!Bit(up.c)) ELSE v.d, v.inv)

(* bits(value, n): in n bits, or for a number -n in n bits with a sign.    *)
convert2(v, n, isnumber, wide) ==
  LET len == IF n >= 0 THEN n ELSE -(1 + n)
      blen == len \div SHIFT + 1
      bits == IF n >= 0 THEN len ELSE len + 1
  IN IF n >= 0 /\ isnumber /\ v.inv THEN Refused
     ELSE IF \/ wide /\ v.bits > bits
             \/ Len(v.d) > blen
             \/ Len(v.d) = blen /\ v.d[blen] \div 2^(len % SHIFT) # 0
     THEN Refused
     ELSE [v EXCEPT !.bits = bits]

(* A literal of binary digits, the highest first.                          *)
bits_from_binstr(s) ==
  LET Digit(k) == FoldLeft(LAMBDA x, i : x + I!At(Reverse(s), SHIFT * (k - 1) + i) * 2^(i - 1), 0,
                           [i \in 1..SHIFT |-> i])
  IN normalize([k \in 1..Words(Len(s)) |-> Digit(k)], FALSE, Len(s))
(* The digits of repr, and how they are read back.                         *)
Digits(v) == [i \in 1..v.bits |-> I!BitAt(v.d, v.bits - i)]
=============================================================================
