------------------------------- MODULE Values -------------------------------
(***************************************************************************)
(* An expression's value under the operators: objects of the types int,    *)
(* bits, bytes and bool (intobj.c, bitsobj.c, bytesobj.c, boolobj.c), and  *)
(* which of them does an operator's work when the types differ: calc2 of   *)
(* the left one, rcalc2 of the right one, after a conversion of either.    *)
(* Beside the object goes what the manual says it is: a number, a number   *)
(* of some bits, the bytes themselves, a truth value.                      *)
(***************************************************************************)
EXTENDS Integers, Sequences, FiniteSets
LOCAL INSTANCE SequencesExt
LOCAL INSTANCE FiniteSetsExt

CONSTANTS
  Refused,    \* an error in the place of a result
  None,       \* the part of a slice that is left out
  SHIFT,      \* bits of a digit
  BYTE,       \* bits of a byte
  WIDE,       \* bits enough for every number
  Seeds,      \* the objects an expression starts from
  Operands,   \* the objects on the other side of the first operator
  Few,        \* and of the next ones
  Counts,     \* the numbers of repeats, sizes and indexes
  Places,     \* the ends of slices
  Strides,    \* and their steps
  MaxShift,   \* larger shifts and exponents are left out
  MaxNumber,  \* larger numbers are not gone on from
  MaxBits,    \* and neither are longer strings of bits
  MaxSteps,   \* operators in an expression
  Careful     \* whether the operations known to lose something are left out

ASSUME SizesAssumption == SHIFT \in Nat \ {0} /\ BYTE \in Nat \ {0} /\ SHIFT % BYTE = 0 /\ MaxSteps \in Nat

M == INSTANCE Meanings
Ints == INSTANCE Ints
Bits == INSTANCE BitStrings
Bytes == INSTANCE ByteStrings

VARIABLES
  v,      \* the object
  x,      \* what it is to be
  steps   \* operators so far
vars == <<v, x, steps>>

IntOf(o) == [type |-> "int", o |-> o]
BitsOf(o) == [type |-> "bits", o |-> o]
BytesOf(o) == [type |-> "bytes", o |-> o]
Bool(b) == [type |-> "bool", b |-> b]
Error == [type |-> "error"]
int_value(b) == IF b THEN Ints!one ELSE Ints!zero

int_from_obj(a) ==
  CASE a.type = "int" -> a.o
    [] a.type = "bool" -> int_value(a.b)
    [] a.type = "bits" -> Bits!int_from_bits(a.o)
    [] a.type = "bytes" -> Bytes!int_from_bytes(a.o)
bits_from_obj(a) ==
  CASE a.type = "bits" -> a.o
    [] a.type = "bool" -> Bits!bits_value(a.b)
    [] a.type = "int" -> Bits!bits_from_int(a.o)
    [] a.type = "bytes" -> Bits!bits_from_bytes(a.o)
bytes_from_obj(a) ==
  CASE a.type = "bytes" -> a.o
    [] a.type = "bool" -> Bytes!Bytes(<<Ints!Bit(a.b)>>, FALSE)
    [] a.type = "int" -> Bytes!bytes_from_int(a.o)
    [] a.type = "bits" -> Bytes!bytes_from_bits(a.o)

(***************************************************************************)
(* The operators of two operands.                                          *)
(***************************************************************************)
Arithmetic == {"add", "sub", "mul", "div", "mod", "exp"}
Logics == {"and", "or", "xor"}
Shifts == {"lshift", "rshift"}
Compares == {"cmp", "eq", "ne", "lt", "le", "gt", "ge"}
Binaries == Arithmetic \cup Logics \cup Shifts \cup Compares \cup {"concat", "land", "lor", "lxor", "in"}

Compared(op, c) ==
  CASE op = "cmp" -> IntOf(IF c < 0 THEN Ints!minus1 ELSE int_value(c > 0))
    [] op = "eq" -> Bool(c = 0) [] op = "ne" -> Bool(c # 0)
    [] op = "lt" -> Bool(c < 0) [] op = "le" -> Bool(c <= 0)
    [] op = "gt" -> Bool(c > 0) [] op = "ge" -> Bool(c >= 0)

(* A shift by a word's value; a negative one goes the other way.           *)
ShiftBy(op, s, Left(_), Right(_)) ==
  IF s = 0 \/ s = Refused THEN s ELSE IF (op = "lshift") = (s > 0) THEN Left(IF s > 0 THEN s ELSE -s)
                                            ELSE Right(IF s > 0 THEN s ELSE -s)
calc2_int(op, a, b) ==
  CASE op \in Compares -> Compared(op, Ints!icmp(a, b))
    [] op = "add" -> IntOf(Ints!Add(a, b)) [] op = "sub" -> IntOf(Ints!Sub(a, b)) [] op = "mul" -> IntOf(Ints!Mul(a, b))
    [] op = "div" -> IF b = Ints!zero THEN Error ELSE IntOf(Ints!Div(a, b))
    [] op = "mod" -> IF b = Ints!zero THEN Error ELSE IntOf(Ints!Mod(a, b))
    [] op = "exp" -> IntOf(Ints!Exp(a, b))
    [] op = "and" -> IntOf(Ints!and_(a, b)) [] op = "or" -> IntOf(Ints!or_(a, b)) [] op = "xor" -> IntOf(Ints!xor_(a, b))
    [] op \in Shifts ->
         LET s == Ints!ival(b, SHIFT)
             l(k) == IntOf(Ints!lshift(a, k))
             r(k) == IntOf(Ints!rshift(a, k))
         IN IF s = Refused THEN Error ELSE IF s = 0 THEN IntOf(a) ELSE ShiftBy(op, s, l, r)
    [] OTHER -> Error
(* The count of a shift of bits: a number, or the word other bits are.     *)
Count(b) ==
  LET word == Bits!uvalx(b.o, SHIFT)
  IN IF b.type = "int" THEN Ints!ival(b.o, SHIFT)
     ELSE IF word # Refused /\ word >= 2^(SHIFT - 1) THEN word - 2^SHIFT ELSE word
ShiftBits(op, a, b) ==
  LET s == Count(b)
      l(k) == BitsOf(Bits!lshift(a, k))
      r(k) == BitsOf(Bits!rshift(a, k))
  IN IF s = Refused THEN Error ELSE IF s = 0 THEN BitsOf(a) ELSE ShiftBy(op, s, l, r)
calc2_bits(op, a, b) ==
  CASE op \in Compares -> Compared(op, Bits!icmp(a, b))
    [] op \in Logics -> BitsOf(Bits!binary(op, a, b))
    [] op = "concat" -> BitsOf(Bits!concat(a, b))
    [] op \in Shifts -> ShiftBits(op, a, BitsOf(b))
    [] OTHER -> calc2_int(op, Bits!int_from_bits(a), Bits!int_from_bits(b))
calc2_bytes(op, a, b) ==
  CASE op \in Compares -> Compared(op, Bytes!icmp(a, b))
    [] op \in Logics -> BytesOf(Bytes!binary(op, a, b))
    [] op = "concat" -> BytesOf(Bytes!concat(a, b))
    [] op \in Shifts -> ShiftBits(op, Bits!bits_from_bytes(a), IntOf(Bytes!int_from_bytes(b)))
    [] op \in Arithmetic -> calc2_int(op, Bytes!int_from_bytes(a), Bytes!int_from_bytes(b))
calc2_bool(op, a, b) ==
  LET m == Ints!Bit(a)
      k == Ints!Bit(b)
      Uval(i) == IntOf(Ints!normalize(<<i>>, FALSE))
      Pair(c, bits) == BitsOf(Bits!normalize(<<c>>, FALSE, bits))
  IN CASE op \in {"sub", "cmp"} -> IntOf(IF m < k THEN Ints!minus1 ELSE int_value(m # k))
       [] op \in Compares -> Compared(op, m - k)
       [] op = "add" -> Uval(m + k) [] op = "mul" -> Uval(m * k) [] op = "exp" -> IntOf(int_value(a \/ ~b))
       [] op = "div" -> IF b THEN Uval(m) ELSE Error
       [] op = "mod" -> IF b THEN Uval(0) ELSE Error
       [] op = "and" -> Bool(a /\ b) [] op = "or" -> Bool(a \/ b) [] op = "xor" -> Bool(a # b)
       [] op = "lshift" -> IF b THEN Pair(2 * m, 2) ELSE BitsOf(Bits!bits_value(a))
       [] op = "rshift" -> BitsOf(IF b THEN Bits!null_bits ELSE Bits!bits_value(a))
       [] op = "concat" -> Pair(2 * m + k, 2)

(* Bits with bits or a number, and either with the other types converted.  *)
BitsOrInt(op, a, b) ==
  IF a.type = "bits" /\ b.type = "bits" THEN calc2_bits(op, a.o, b.o)
  ELSE IF a.type = "bits" /\ op \in Shifts THEN ShiftBits(op, a.o, b)
  ELSE calc2_int(op, int_from_obj(a), int_from_obj(b))
Truly(a) ==
  CASE a.type = "int" -> a.o # Ints!zero [] a.type = "bits" -> Bits!Truth(a.o) [] a.type = "bytes" -> Bytes!to_bool(a.o) [] a.type = "bool" -> a.b
calc2_lxor(a, b) == IF Truly(a) = Truly(b) THEN Bool(FALSE) ELSE IF Truly(a) THEN a ELSE b
contains(a, b) ==
  IF a.type = "bytes" /\ b.type = "bytes" THEN Bool(Bytes!bytes_contains(a.o, b.o)) ELSE Error
As(o, bits) == IF bits THEN BitsOf(bits_from_obj(o)) ELSE IntOf(int_from_obj(o))
(* Either operand, after what the other one's type makes of it.            *)
LeftAs(op, a, b) ==
  IF a.type = "bytes" THEN As(a, op \in Logics \cup Shifts \cup {"concat"})
  ELSE IF a.type = "bool" /\ b.type = "bytes" THEN As(a, op \in Logics \cup Shifts \cup {"concat"})
  ELSE IF a.type = "bool" THEN As(a, b.type = "bits" \/ op \in Shifts)
  ELSE a
RightAs(op, a, b) ==
  IF b.type = "bytes" THEN As(b, op \in Logics \cup {"concat"})
  ELSE IF b.type = "bool" /\ a.type = "bytes" THEN As(b, op \in Logics \cup Shifts \cup {"concat"})
  ELSE IF b.type = "bool" /\ a.type # "bool" THEN As(b, a.type = "bits")
  ELSE b
calc2(op, a, b) ==
  IF op = "land" THEN IF Truly(a) THEN b ELSE a
  ELSE IF op = "lor" THEN IF Truly(a) THEN a ELSE b
  ELSE IF op = "lxor" THEN calc2_lxor(a, b)
  ELSE IF op = "in" THEN contains(a, b)
  ELSE IF a.type = b.type THEN
    (CASE a.type = "int" -> calc2_int(op, a.o, b.o) [] a.type = "bits" -> calc2_bits(op, a.o, b.o)
       [] a.type = "bytes" -> calc2_bytes(op, a.o, b.o) [] a.type = "bool" -> calc2_bool(op, a.b, b.b))
  ELSE BitsOrInt(op, LeftAs(op, a, b), RightAs(op, a, b))

repeat(a, rep) ==
  CASE a.type = "bits" -> BitsOf(Bits!repeat(a.o, rep))
    [] a.type = "bytes" -> BytesOf(Bytes!repeat(a.o, rep))
    [] OTHER -> Error

(***************************************************************************)
(* The operators of one operand.                                           *)
(***************************************************************************)
WordOps == {"lower", "higher", "bank", "word", "hword", "bsword"}
Unaries == WordOps \cup {"inv", "neg", "pos", "lnot"}
Negated(a, r, Of(_)) == IF r = Refused THEN IntOf(Ints!negate(int_from_obj(a))) ELSE Of(r)
calc1(op, a) ==
  CASE op \in WordOps ->
         BitsOf(Bits!bits_calc1(op, CASE a.type = "int" -> Ints!ldigit(a.o) [] a.type = "bits" -> Bits!ldigit(a.o)
                                      [] a.type = "bytes" -> Bytes!Word(a.o) [] a.type = "bool" -> Ints!Bit(a.b)))
    [] op = "inv" -> (CASE a.type = "int" -> IntOf(Ints!invert(a.o)) [] a.type = "bits" -> BitsOf(Bits!invert(a.o))
                        [] a.type = "bytes" -> BytesOf(Bytes!invert(a.o))
                        [] a.type = "bool" -> BitsOf(Bits!invert(Bits!bits_value(a.b))))
    [] op = "neg" -> (CASE a.type = "int" -> IntOf(Ints!negate(a.o)) [] a.type = "bits" -> Negated(a, Bits!negate(a.o), BitsOf)
                        [] a.type = "bytes" -> Negated(a, Bytes!negate(a.o), BytesOf)
                        [] a.type = "bool" -> BitsOf(IF a.b THEN Bits!invert(Bits!bits_value(FALSE)) ELSE Bits!bits_value(FALSE)))
    [] op = "pos" -> IF a.type = "bool" THEN BitsOf(Bits!bits_value(a.b)) ELSE a
    [] op = "lnot" -> Bool(~Truly(a))

(***************************************************************************)
(* Indexes and slices: the places a slice goes through.                    *)
(***************************************************************************)
indexoffs(i, len) ==
  IF i >= 0 THEN IF i < len THEN i ELSE Refused
  ELSE IF -i <= len THEN len + i ELSE Refused
sliceparams(first, last, step, length) ==
  LET minus == IF step < 0 THEN -1 ELSE 0
      end0 == IF last = None THEN IF step > 0 THEN length ELSE -1
              ELSE IF last >= 0 THEN Min({last, length}) ELSE Max({last + length, -1})
      offs0 == IF first = None THEN IF step > 0 THEN 0 ELSE length - 1
               ELSE Max({minus, IF first >= 0 THEN Min({first, length + minus}) ELSE first + length})
      offs == IF step > 0 THEN Min({offs0, end0}) ELSE offs0
      end == IF step < 0 THEN Min({end0, offs}) ELSE end0
      many == IF step > 0 THEN (end - offs + step - 1) \div step ELSE (offs - end - step - 1) \div (-step)
  IN [i \in 1..many |-> offs + (i - 1) * step]
Length(a) == IF a.type = "bits" THEN a.o.bits ELSE Len(a.o.d)
(* A slice of everything is the string itself, unless it is inverted.      *)
Taken(a, offsets) ==
  IF ~a.o.inv /\ offsets = [i \in 1..Length(a) |-> i - 1] /\ offsets # <<>> THEN a
  ELSE IF a.type = "bits" THEN BitsOf(Bits!Picked(a.o, offsets)) ELSE BytesOf(Bytes!Picked(a.o, offsets))

(* The functions all and any.                                              *)
truth(f, a) ==
  CASE a.type = "bits" -> Bool(IF f = "all" THEN Bits!TruthAll(a.o) ELSE Bits!TruthAny(a.o))
    [] a.type = "bytes" -> Bool(IF f = "all" THEN Bytes!TruthAll(a.o) ELSE Bytes!TruthAny(a.o))
    [] a.type = "int" -> Bool(a.o # Ints!zero)
    [] a.type = "bool" -> a

(* bits(a, n) and bytes(a, n).                                             *)
Sized(type, a, size) ==
  IF type = "bits"
  THEN LET r == Bits!convert2(bits_from_obj(a), size, a.type \in {"int", "bool"}, a.type \in {"bits", "bytes"})
       IN IF r = Refused THEN Error ELSE BitsOf(r)
  ELSE LET r == Bytes!convert2(bytes_from_obj(a), size, a.type \in {"int", "bool"})
       IN IF r = Refused THEN Error ELSE BytesOf(r)
Converted(type, a) ==
  CASE type = "int" -> IntOf(int_from_obj(a)) [] type = "bits" -> BitsOf(bits_from_obj(a))
    [] type = "bytes" -> BytesOf(bytes_from_obj(a))

(* Written as a literal and read back: repr, and the scanner's conversions.*)
DMUL == 10
GROUP == SHIFT \div BYTE
RADIX == 3
Reread(a) ==
  CASE a.type = "int" -> IntOf(Ints!Ungrouped(Ints!Grouped(a.o, DMUL), a.o.neg, DMUL))
    [] a.type = "bits" -> BitsOf(LET r == Bits!bits_from_binstr(Bits!Digits(a.o)) IN IF a.o.inv THEN Bits!invert(r) ELSE r)
    [] a.type = "bytes" -> BytesOf(LET r == Bytes!z85_decode(Bytes!z85_encode(a.o, GROUP, RADIX), GROUP, RADIX)
                                   IN IF a.o.inv THEN Bytes!invert(r) ELSE r)
    [] OTHER -> a

(***************************************************************************)
(* What an object is.                                                      *)
(***************************************************************************)
Abs(a) ==
  CASE a.type = "int" -> M!int(Ints!Number(a.o))
    [] a.type = "bits" -> LET n == Ints!Number([neg |-> FALSE, d |-> a.o.d]) IN M!bits(IF a.o.inv THEN -1 - n ELSE n, a.o.bits)
    [] a.type = "bytes" -> M!bytes([i \in DOMAIN a.o.d |-> Bytes!Seen(a.o, i)], a.o.inv)
    [] a.type = "bool" -> M!bool(a.b)
    [] a.type = "error" -> M!error

(* The operations that are known to lose something: a carry out of the     *)
(* quotient's digits or a quotient's digit, of a division; the top of a    *)
(* negative result of one digit; a carry out of the digits that are left   *)
(* of a negative number; the third byte of bytes; and what all and any say *)
(* of bits and of inverted strings.                                        *)
Numbers(op, a, b) ==  \* the operator is done by the integers
  \/ a.type = b.type /\ a.type \in {"bits", "bytes"} /\ op \in Arithmetic
  \/ "bool" \notin {a.type, b.type} /\ a.type # b.type /\ op \in Arithmetic \cup Logics \cup Shifts /\ ~(op \in Shifts /\ a.type # "int")
  \/ a.type = "int" \/ b.type = "int"
Loses(op, a, b) ==
  LET p == int_from_obj(a)
      q == int_from_obj(b)
      s == IF op \in Shifts THEN Ints!ival(q, SHIFT) ELSE 0
  IN \/ op \in {"div", "mod"} /\ q # Ints!zero /\ Ints!Truncated(p, q)
     \/ op = "div" /\ q # Ints!zero /\ Ints!Overflown(p, q)
     \/ Numbers(op, a, b) /\ op = "and" /\ Ints!Signless(Ints!And2, p, q, p.neg /\ q.neg)
     \/ Numbers(op, a, b) /\ op = "xor" /\ Ints!Signless(Ints!Xor2, p, q, p.neg # q.neg)
     \/ a.type = "int" /\ op \in Shifts /\ s # Refused /\ (op = "rshift") = (s > 0) /\ Ints!ShiftedOut(p, IF s > 0 THEN s ELSE -s)
LosesWord(op, a) == op \in {"bank", "hword", "higher", "word", "bsword"} /\ a.type = "bytes" /\ Len(a.o.d) > 2
LosesTruth(f, a) ==
  \/ f = "any" /\ a.type \in {"bits", "bytes"} /\ a.o.inv
  \/ f = "all" /\ a.type = "bits"

(***************************************************************************)
(* An expression: one operator after the other, on what came out so far.   *)
(***************************************************************************)
Init ==
  /\ v \in Seeds
  /\ x = Abs(v)
  /\ steps = 0

Goes == v # Error /\ steps < MaxSteps
(* Larger values are not gone on from.                                     *)
Becomes(obj, meaning) ==
  /\ meaning.type \in {"int", "bits"} => meaning.n \in -MaxNumber..MaxNumber
  /\ meaning.type \in {"bits", "bytes"} => M!AsBits(meaning).w <= MaxBits
  /\ v' = obj
  /\ x' = meaning
  /\ steps' = steps + 1
Bounded(op, p, q) ==
  /\ op \in Shifts \cup {"exp"} => M!N(q) \in (IF op = "exp" THEN 0 ELSE -MaxShift)..MaxShift
  /\ op \in Shifts /\ q.type = "bits" => q.w <= SHIFT  \* a count is a word
  /\ op = "exp" => \/ M!N(p) \in -5..5
                  \/ M!N(q) < 2
  /\ op \in {"mul", "concat"} => M!Magnitude(M!N(p)) <= MaxNumber
(* The operators of the code that the manual speaks of: a result and what  *)
(* it is.                                                                  *)
Operate(other, left, op) ==
  LET a == IF left THEN v ELSE other
      b == IF left THEN other ELSE v
  IN /\ Goes
     /\ Bounded(op, Abs(a), Abs(b))
     /\ Careful => ~Loses(op, a, b)
     /\ Becomes(calc2(op, a, b), M!Binary(op, Abs(a), Abs(b)))
Apply(op) ==
  /\ Goes
  /\ Careful => ~LosesWord(op, v)
  /\ Becomes(calc1(op, v), M!Unary(op, x))
Times(rep) ==
  /\ Goes
  /\ v.type \in {"bits", "bytes"} => M!AsBits(x).w * rep <= MaxBits
  /\ Becomes(repeat(v, rep), M!Repeat(x, rep))
IsString == v.type \in {"bits", "bytes"}
Cut(first, last, step) ==
  /\ Goes /\ IsString
  /\ Becomes(Taken(v, sliceparams(first, last, step, Length(v))), M!Slice(x, first, last, step, None))
Element(i) ==
  /\ Goes /\ IsString
  /\ LET offs == indexoffs(i, Length(v))
     IN Becomes(IF offs = Refused THEN Error ELSE Taken(v, <<offs>>), M!Index(x, i))
Question(f) ==
  /\ Goes
  /\ Careful => ~LosesTruth(f, v)
  /\ Becomes(truth(f, v), M!Truth(f, x))
ToSize(type, size) ==
  /\ Goes
  /\ Becomes(Sized(type, v, size), M!Size(type, x, size))
To(type) ==
  /\ Goes
  /\ Becomes(Converted(type, v), M!Convert(type, x))
Printed ==
  /\ Goes
  /\ Becomes(Reread(v), x)

Next ==
  \/ \E other \in IF steps = 0 THEN Operands ELSE Few, left \in BOOLEAN, op \in Binaries : Operate(other, left, op)
  \/ \E op \in Unaries : Apply(op)
  \/ \E rep \in Counts : rep >= 0 /\ Times(rep)
  \/ \E first, last \in Places \cup {None}, step \in Strides : Cut(first, last, step)
  \/ \E i \in Counts : Element(i)
  \/ \E f \in {"all", "any"} : Question(f)
  \/ \E type \in {"bits", "bytes"}, size \in Counts : ToSize(type, size)
  \/ \E type \in {"int", "bits", "bytes"} : To(type)
  \/ Printed
Spec == Init /\ [][Next]_vars

-----------------------------------------------------------------------------
Digits(d) == /\ \A i \in DOMAIN d : d[i] \in 0..2^SHIFT - 1
             /\ d # <<>> => d[Len(d)] # 0

(* An object is kept the one way the code's comparisons rely on: no digits *)
(* of zero at the top, no sign on a zero, no bit of the content beyond the *)
(* string's length.                                                        *)
Canonical ==
  CASE v.type = "int" -> Digits(v.o.d) /\ (v.o.neg => v.o.d # <<>>)
    [] v.type = "bits" -> Digits(v.o.d) /\ v.o.bits \in Nat /\ Ints!Number([neg |-> FALSE, d |-> v.o.d]) < 2^v.o.bits
    [] v.type = "bytes" -> \A i \in DOMAIN v.o.d : v.o.d[i] \in 0..2^BYTE - 1
    [] OTHER -> TRUE

(* The objects are what the manual says comes out of the operators: of any *)
(* two operands of any types, through the conversions of the one or the    *)
(* other, in numbers longer than the digits they are kept in, and with the *)
(* content kept inverted, the value, the length and the type are right,    *)
(* and there is an error just where there is to be one.                    *)
Exact == Canonical /\ Abs(v) = x
=============================================================================
