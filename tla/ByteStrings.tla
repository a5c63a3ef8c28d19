---------------------------- MODULE ByteStrings ----------------------------
(***************************************************************************)
(* Strings of bytes (bytesobj.c): a sequence of bytes, kept inverted when  *)
(* the object's `len' is negative.  As a number the first byte is the      *)
(* lowest, and zeros at the end are part of the string.                    *)
(***************************************************************************)
EXTENDS Integers, Sequences
LOCAL INSTANCE SequencesExt
LOCAL INSTANCE FiniteSetsExt

CONSTANTS SHIFT,  (* bits of a digit                                       *)
          BYTE,   (* bits of a byte                                        *)
          Refused (* an error in the place of a result                     *)
I == INSTANCE Ints

FF == 2^BYTE - 1
Bytes(d, inv) == [inv |-> inv, d |-> d]
null_bytes == Bytes(<<>>, FALSE)
inv_bytes == Bytes(<<>>, TRUE)
(* A byte as it is seen: data ^ inv in the code.                           *)
Seen(v, i) == IF v.inv THEN FF - v.d[i] ELSE v.d[i]

invert(v) == Bytes(v.d, ~v.inv)
negate(v) ==
  LET skipped == IF v.inv THEN FF ELSE 0
      i == Min({k \in DOMAIN v.d : v.d[k] # skipped})
  IN IF \A k \in DOMAIN v.d : v.d[k] = skipped THEN (IF v.inv THEN Refused ELSE v)
     ELSE Bytes([k \in DOMAIN v.d |->
                   IF k < i THEN (IF v.inv THEN 0 ELSE FF)
                   ELSE IF k = i THEN (IF v.inv THEN v.d[k] + 1 ELSE v.d[k] - 1) ELSE v.d[k]], ~v.inv)

to_bool(v) == v.inv \/ \E i \in DOMAIN v.d : v.d[i] # 0
TruthAll(v) == \A i \in DOMAIN v.d : v.d[i] # (IF v.inv THEN FF ELSE 0)
TruthAny(v) == v.d # <<>> /\ to_bool(v)

(* In a machine word of some bits.                                         *)
uvalx(v, bits) ==
  LET u == FoldRight(LAMBDA b, x : x * 2^BYTE + b, v.d, 0)
  IN IF Len(v.d) > bits \div BYTE THEN Refused ELSE IF v.inv THEN I!MASK - u ELSE u
(* The word the operators < > ` <> >` >< take their bytes from: the third  *)
(* byte is put over the second one.                                        *)
Word(v) ==
  LET At(i) == IF Len(v.d) >= i THEN v.d[i] ELSE 0
      u == At(1) + 2^BYTE * I!Or2(At(2), At(3))
  IN IF v.inv THEN I!MASK - u ELSE u

binary(op, x, y) ==
  LET v == IF Len(x.d) < Len(y.d) THEN y ELSE x
      w == IF Len(x.d) < Len(y.d) THEN x ELSE y
      sz == CASE op = "and" -> Len(IF w.inv THEN v.d ELSE w.d)
              [] op = "or"  -> Len(IF w.inv THEN w.d ELSE v.d)
              [] op = "xor" -> Len(v.d)
      neg == CASE op = "and" -> v.inv /\ w.inv
               [] op = "or"  -> v.inv \/ w.inv
               [] op = "xor" -> v.inv # w.inv
      Op(e, f) == CASE op = "and" -> I!And2(e, f) [] op = "or" -> I!Or2(e, f) [] op = "xor" -> I!Xor2(e, f)
      Both(i) == Op(Seen(v, i), Seen(w, i))
  IN Bytes([i \in 1..sz |-> IF i > Len(w.d) THEN v.d[i] ELSE IF neg THEN FF - Both(i) ELSE Both(i)], neg)

concat(v, w) ==
  IF w.d = <<>> THEN v
  ELSE IF v.d = <<>> /\ v.inv = w.inv THEN w
  ELSE Bytes(v.d \o [i \in DOMAIN w.d |-> IF v.inv # w.inv THEN FF - w.d[i] ELSE w.d[i]], v.inv)

(* Strings are compared byte by byte, and not as numbers.                  *)
icmp(v, w) ==
  LET ln == Min({Len(v.d), Len(w.d)})
      differ == {i \in 1..ln : v.d[i] # (IF v.inv = w.inv THEN w.d[i] ELSE FF - w.d[i])}
      i == Min(differ)
      h == v.d[i] - (IF v.inv = w.inv THEN w.d[i] ELSE FF - w.d[i])
  IN IF differ # {} THEN IF v.inv THEN -h ELSE h
     ELSE Len(v.d) - Len(w.d)

repeat(v, rep) ==
  IF v.d = <<>> \/ rep = 0 THEN IF v.inv THEN inv_bytes ELSE null_bytes
  ELSE Bytes([i \in 1..Len(v.d) * rep |-> v.d[1 + ((i - 1) % Len(v.d))]], v.inv)

(* The bytes at the offsets; never inverted, but where all are taken.      *)
Picked(v, offsets) == Bytes([i \in DOMAIN offsets |-> Seen(v, offsets[i] + 1)], FALSE)

(* v in w: the first byte is looked for, then the others are compared.     *)
bytes_contains(v, w) ==
  LET len1 == Len(v.d)
      Goes(c, i) == w.d[c + i - 1] = (IF v.inv # w.inv THEN FF - v.d[i] ELSE v.d[i])
  IN len1 = 0 \/ \E c \in 1..Len(w.d) - len1 + 1 : \A i \in 1..len1 : Goes(c, i)

(* Numbers and bits as bytes, and bytes as numbers.                        *)
PerDigit == SHIFT \div BYTE
Split(d) == [i \in 1..PerDigit * Len(d) |-> (d[(i - 1) \div PerDigit + 1] \div 2^(BYTE * ((i - 1) % PerDigit))) % 2^BYTE]
bytes_from_int(v) ==
  IF v = I!zero THEN null_bytes
  ELSE IF v = I!minus1 THEN inv_bytes
  ELSE IF ~v.neg /\ Len(v.d) = 1 /\ v.d[1] <= FF THEN Bytes(v.d, FALSE)
  ELSE Bytes(I!Strip(Split(IF v.neg THEN I!Down(v.d, TRUE) ELSE v.d)), v.neg)
bytes_from_bits(v) ==
  LET sz == (v.bits + BYTE - 1) \div BYTE
  IN Bytes([i \in 1..sz |-> I!At(Split(v.d), i)], v.inv)
int_from_bytes(v) ==
  LET n == Len(v.d)
      per == PerDigit
      Digit(d, k) == FoldRight(LAMBDA b, x : x * 2^BYTE + b, SubSeq(d, per * (k - 1) + 1, Min({per * k, Len(d)})), 0)
      up == I!Ripple(n, TRUE, LAMBDA i, c : <<(v.d[i] + I!Bit(c)) % 2^BYTE, c /\ v.d[i] = FF>>)
      d == IF v.inv THEN Append(up.d, I!Bit(up.c)) ELSE v.d
  IN I!normalize([k \in 1..(Len(d) + per - 1) \div per |-> Digit(d, k)], v.inv)

(* bytes(value, n): in n bytes, or for a number -n in n bytes with a sign. *)
convert2(v, n, isnumber) ==
  LET len == IF n >= 0 THEN n ELSE -n
  IN IF n >= 0 /\ isnumber /\ v.inv THEN Refused
     ELSE IF Len(v.d) > len \/ (n < 0 /\ Len(v.d) = len /\ v.d[len] >= 2^(BYTE - 1)) THEN Refused
     ELSE Bytes([i \in 1..len |-> IF i <= Len(v.d) THEN v.d[i] ELSE 0], v.inv)

(***************************************************************************)
(* Groups of GROUP bytes are written as GROUP + 1 digits to the base RADIX *)
(* (four as five to the base 85), highest first; n bytes that are left, as *)
(* n + 1 digits.                                                           *)
(***************************************************************************)
Groups(n, size) == (n + size - 1) \div size
z85_encode(v, GROUP, RADIX) ==
  LET Chars(k) ==
        LET part == SubSeq(v.d, GROUP * (k - 1) + 1, Min({GROUP * k, Len(v.d)}))
            tmp == FoldLeft(LAMBDA x, b : x * 2^BYTE + b, 0, part)
        IN [j \in 1..Len(part) + 1 |-> (tmp \div RADIX^(Len(part) + 1 - j)) % RADIX]
  IN FlattenSeq([k \in 1..Groups(Len(v.d), GROUP) |-> Chars(k)])
z85_decode(s, GROUP, RADIX) ==
  LET Part(k) ==
        LET chars == SubSeq(s, (GROUP + 1) * (k - 1) + 1, Min({(GROUP + 1) * k, Len(s)}))
            tmp == FoldLeft(LAMBDA x, c : x * RADIX + c, 0, chars)
            n == Len(chars) - 1
        IN [i \in 1..n |-> (tmp \div 2^(BYTE * (n - i))) % 2^BYTE]
  IN Bytes(FlattenSeq([k \in 1..Groups(Len(s), GROUP + 1) |-> Part(k)]), FALSE)
=============================================================================
