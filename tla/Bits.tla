-------------------------------- MODULE Bits --------------------------------
(***************************************************************************)
(* The symbolic bits of opt_bit.c.  A bit is known to be 0 or 1, or it is  *)
(* a symbol; the same symbol at two places is the same unknown value, and  *)
(* each symbol has a complement (Bit.r in the code).  A bit here is a pair *)
(* <<id, v>>: id 0 is a known bit, id and -id are a symbol and its         *)
(* complement, and v is the value the bit has in the execution followed by *)
(* the model.  The code has no v: no operator below decides on the v of an *)
(* unknown bit, it is only carried along, as what the bit stands for.      *)
(***************************************************************************)
EXTENDS Integers, TLAPS

Known(v) == <<0, v>>
Zero == Known(0)
One == Known(1)
(* A new unknown bit; id is one that occurs nowhere else.                  *)
Unknown(id, v) == <<id, v>>

IsKnown(b) == b[1] = 0
Is(b, v) == b = Known(v)

Inv(b) == <<-b[1], 1 - b[2]>>

(* Certainly equal, certainly different.                                   *)
EqBit(a, b) == a = b
NeqBit(a, b) == IsKnown(a) /\ IsKnown(b) /\ a # b

AndBit(a, b, id) ==
  CASE Is(a, 0) \/ Is(b, 0) \/ a = Inv(b) -> Zero
    [] Is(a, 1) -> b
    [] Is(b, 1) \/ a = b -> a
    [] OTHER -> Unknown(id, a[2] * b[2])

OrBit(a, b, id) ==
  CASE Is(a, 1) \/ Is(b, 1) \/ a = Inv(b) -> One
    [] Is(a, 0) -> b
    [] Is(b, 0) \/ a = b -> a
    [] OTHER -> Unknown(id, a[2] + b[2] - a[2] * b[2])

XorBit(a, b, id) ==
  CASE a = b -> Zero
    [] a = Inv(b) -> One
    [] Is(a, 0) -> b
    [] Is(a, 1) -> Inv(b)
    [] Is(b, 0) -> a
    [] Is(b, 1) -> Inv(a)
    [] OTHER -> Unknown(id, (a[2] + b[2]) % 2)

(* The full adder.  Two equal inputs decide the carry and leave the third  *)
(* as the sum; two complementary ones pass the third on as carry.          *)
AddBit(a, b, ci, id) ==
  LET sum == a[2] + b[2] + ci[2] IN
  CASE a = b -> [sum |-> ci, carry |-> a]
    [] b = ci -> [sum |-> a, carry |-> b]
    [] a = ci -> [sum |-> b, carry |-> a]
    [] a = Inv(b) -> [sum |-> Inv(ci), carry |-> ci]
    [] a = Inv(ci) -> [sum |-> Inv(b), carry |-> b]
    [] b = Inv(ci) -> [sum |-> Inv(a), carry |-> a]
    [] OTHER -> [sum |-> Unknown(id, sum % 2), carry |-> Unknown(id + 1, sum \div 2)]

(* The overflow of an addition: the top bits a and b of the operands agree *)
(* and the top bit c of the sum differs from them.                         *)
VBit(a, b, c, id) ==
  CASE a = Inv(b) \/ a = c \/ b = c -> Zero
    [] a = b /\ IsKnown(a) -> IF Is(a, 0) THEN c ELSE Inv(c)
    [] a = b /\ IsKnown(c) -> IF Is(c, 0) THEN a ELSE Inv(a)
    [] a = b /\ a = Inv(c) -> One
    [] a = Inv(c) /\ IsKnown(a) -> IF Is(a, 0) THEN Inv(b) ELSE b
    [] b = Inv(c) /\ IsKnown(b) -> IF Is(b, 0) THEN Inv(a) ELSE a
    [] a = Inv(c) /\ IsKnown(b) -> IF Is(b, 0) THEN c ELSE a
    [] b = Inv(c) /\ IsKnown(a) -> IF Is(a, 0) THEN c ELSE b
    [] OTHER -> Unknown(id, IF a[2] = b[2] /\ a[2] # c[2] THEN 1 ELSE 0)

(***************************************************************************)
(* The operators for every bit there can be: whatever cases they tell      *)
(* apart, the bit they return stands for the result of the operation on    *)
(* the values its operands stand for.  What cpu_opt knows of a register is *)
(* put together from these.                                                *)
(***************************************************************************)
SymbolicBit == Int \X {0, 1}

(* The complement of a bit is a bit and stands for the other value.        *)
LEMMA InvType ==
  ASSUME NEW a \in SymbolicBit
  PROVE  Inv(a) \in SymbolicBit /\ Inv(a)[2] = 1 - a[2]
BY DEF SymbolicBit, Inv

(* The complement of the complement is the bit itself (v->r->r == v).      *)
THEOREM InvInvolution ==
  ASSUME NEW a \in SymbolicBit
  PROVE  Inv(Inv(a)) = a
<1>1. PICK i \in Int, v \in {0, 1} : a = <<i, v>>
  BY DEF SymbolicBit
<1>2. Inv(a) = <<-i, 1 - v>>
  BY <1>1 DEF Inv
<1>3. Inv(Inv(a)) = <<-(-i), 1 - (1 - v)>>
  BY <1>2 DEF Inv
<1>4. -(-i) = i /\ 1 - (1 - v) = v
  BY <1>1
<1>. QED BY <1>1, <1>3, <1>4

(* and_bit: the result is a bit, and stands for the conjunction.           *)
THEOREM AndBitRight ==
  ASSUME NEW a \in SymbolicBit, NEW b \in SymbolicBit, NEW id \in Int
  PROVE  AndBit(a, b, id) \in SymbolicBit /\ AndBit(a, b, id)[2] = a[2] * b[2]
<1>1. PICK i \in Int, v \in {0, 1} : a = <<i, v>>
  BY DEF SymbolicBit
<1>2. PICK j \in Int, w \in {0, 1} : b = <<j, w>>
  BY DEF SymbolicBit
<1>3. v * w \in {0, 1} /\ 0 * w = 0 /\ v * 0 = 0 /\ 1 * w = w /\ v * 1 = v /\ (1 - w) * w = 0 /\ v * v = v
  OBVIOUS
<1>. QED BY <1>1, <1>2, <1>3 DEF SymbolicBit, AndBit, Is, Known, Zero, Inv, Unknown

(* or_bit: the result is a bit, and stands for the disjunction.            *)
THEOREM OrBitRight ==
  ASSUME NEW a \in SymbolicBit, NEW b \in SymbolicBit, NEW id \in Int
  PROVE  OrBit(a, b, id) \in SymbolicBit /\ OrBit(a, b, id)[2] = a[2] + b[2] - a[2] * b[2]
<1>1. PICK i \in Int, v \in {0, 1} : a = <<i, v>>
  BY DEF SymbolicBit
<1>2. PICK j \in Int, w \in {0, 1} : b = <<j, w>>
  BY DEF SymbolicBit
<1>3. /\ v + w - v * w \in {0, 1} /\ 1 + w - 1 * w = 1 /\ v + 1 - v * 1 = 1 /\ 0 + w - 0 * w = w
      /\ v + 0 - v * 0 = v /\ (1 - w) + w - (1 - w) * w = 1 /\ v + v - v * v = v
  OBVIOUS
<1>. QED BY <1>1, <1>2, <1>3 DEF SymbolicBit, OrBit, Is, Known, One, Inv, Unknown

(* xor_bit: the result is a bit, and stands for the exclusive or.          *)
THEOREM XorBitRight ==
  ASSUME NEW a \in SymbolicBit, NEW b \in SymbolicBit, NEW id \in Int
  PROVE  XorBit(a, b, id) \in SymbolicBit /\ XorBit(a, b, id)[2] = (a[2] + b[2]) % 2
<1>1. PICK i \in Int, v \in {0, 1} : a = <<i, v>>
  BY DEF SymbolicBit
<1>2. PICK j \in Int, w \in {0, 1} : b = <<j, w>>
  BY DEF SymbolicBit
<1>3. /\ (v + w) % 2 = (IF v = w THEN 0 ELSE 1)
  BY <1>1, <1>2
<1>. QED BY <1>1, <1>2, <1>3 DEF SymbolicBit, XorBit, Is, Known, Zero, One, Inv, Unknown

(* add_bit: sum and carry are bits, and stand for the sum of the three     *)
(* inputs, in all of the cases decided without knowing them.               *)
THEOREM AddBitRight ==
  ASSUME NEW a \in SymbolicBit, NEW b \in SymbolicBit, NEW ci \in SymbolicBit, NEW id \in Int
  PROVE  LET r == AddBit(a, b, ci, id) IN
         /\ r.sum \in SymbolicBit
         /\ r.carry \in SymbolicBit
         /\ r.sum[2] + 2 * r.carry[2] = a[2] + b[2] + ci[2]
<1>1. PICK i \in Int, v \in {0, 1} : a = <<i, v>>
  BY DEF SymbolicBit
<1>2. PICK j \in Int, w \in {0, 1} : b = <<j, w>>
  BY DEF SymbolicBit
<1>3. PICK k \in Int, u \in {0, 1} : ci = <<k, u>>
  BY DEF SymbolicBit
<1>4. /\ (v + w + u) % 2 \in {0, 1}
      /\ (v + w + u) \div 2 \in {0, 1}
      /\ ((v + w + u) % 2) + 2 * ((v + w + u) \div 2) = v + w + u
  BY <1>1, <1>2, <1>3
<1>. QED BY <1>1, <1>2, <1>3, <1>4 DEF SymbolicBit, AddBit, Inv, Unknown

(* v_bit: the result is a bit, and stands for the overflow, which is set   *)
(* when the operands have the same sign and the sum the other one.         *)
THEOREM VBitRight ==
  ASSUME NEW a \in SymbolicBit, NEW b \in SymbolicBit, NEW c \in SymbolicBit, NEW id \in Int
  PROVE  /\ VBit(a, b, c, id) \in SymbolicBit
         /\ VBit(a, b, c, id)[2] = (IF a[2] = b[2] /\ a[2] # c[2] THEN 1 ELSE 0)
<1>1. PICK i \in Int, v \in {0, 1} : a = <<i, v>>
  BY DEF SymbolicBit
<1>2. PICK j \in Int, w \in {0, 1} : b = <<j, w>>
  BY DEF SymbolicBit
<1>3. PICK k \in Int, u \in {0, 1} : c = <<k, u>>
  BY DEF SymbolicBit
<1>. QED BY <1>1, <1>2, <1>3 DEF SymbolicBit, VBit, Is, IsKnown, Known, Zero, One, Inv, Unknown
=============================================================================
