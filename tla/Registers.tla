------------------------------ MODULE Registers ------------------------------
(***************************************************************************)
(* The analysis behind -Woptimize (optimizer.c): what the assembler knows  *)
(* of the registers and flags while it follows the instructions it has     *)
(* just assembled, and the advice it gives from it.                        *)
(*                                                                         *)
(* cpu is that knowledge, a symbolic bit (module Bits) for every bit; mach *)
(* is the processor the program runs on.  The program is chosen one        *)
(* instruction at a time.  When an instruction leaves the straight line    *)
(* the next one can only be reached over a label, where the code forgets   *)
(* all it knows.  A byte has W bits.                                       *)
(***************************************************************************)
EXTENDS Bits, Sequences, FiniteSets, Processor

CONSTANT Programs   \* the programs: a processor, the instructions there are, how many of them
                    \* follow each other, and what may be in the registers before

\* A byte has two bits at least.
WAssumption == W \in Nat /\ W >= 2

VARIABLES cputype, ops, cpu, mach, prev, step, advice, away, left
vars == <<cputype, ops, cpu, mach, prev, step, advice, away, left>>

c65c02 == cputype = "65c02"
c65ce02 == cputype = "65ce02"

TopBit == W - 1
Positions == 0 .. TopBit
ByteValues == 0 .. 2^W - 1
Regs == {"a", "x", "y", "z", "s", "sh", "b"}
(* The order the knowledge is written down in.                             *)
RegOrder == <<"a", "x", "y", "z", "s", "sh", "b", "z1", "z2", "z3">>
FlagOrder == <<"n", "v", "e", "d", "i", "zf", "c", "cc">>

Hidden == {"z1", "z2", "z3"}
Flags == {"n", "v", "e", "d", "i", "zf", "c"}

--------------------------------------------------------------------------------
(* Symbolic registers.  id numbers the new symbols of a step.              *)
Imm(n) == [i \in Positions |-> Known(Bit(n, i))]
Mem(n, id) == [i \in Positions |-> Unknown(id + i, Bit(n, i))]

(* What stands in a register, by the values its bits stand for.            *)
Value(r) == LET add[i \in -1 .. TopBit] == IF i < 0 THEN 0 ELSE add[i - 1] + 2^i * r[i][2]
            IN add[TopBit]

is_zero(r) == \A i \in Positions : Is(r[i], 0)
is_known(r) == \A i \in Positions : IsKnown(r[i])
Inverse8(r) == [i \in Positions |-> Inv(r[i])]

(* Addition of two registers from carry in ci: sum and carry out.          *)
Adder(a, b, ci, id) ==
  LET co[i \in -1 .. TopBit] ==
        IF i < 0 THEN [sum |-> ci, carry |-> ci]
                 ELSE AddBit(a[i], b[i], co[i - 1].carry, id + 2 * i)
  IN [sum |-> [i \in Positions |-> co[i].sum], carry |-> co[TopBit].carry]

IncDec(r, inc, id) == Adder(Imm(IF inc THEN 0 ELSE 2^W - 1), r, IF inc THEN One ELSE Zero, id).sum
Negated(r, id) == Adder(Imm(0), Inverse8(r), One, id).sum
Compared(s, v, id) == Adder(s, Inverse8(v), One, id)
Shl(r, b) == [i \in Positions |-> IF i = 0 THEN b ELSE r[i - 1]]
Shr(r, b) == [i \in Positions |-> IF i = TopBit THEN b ELSE r[i + 1]]

(* The knowledge k with every occurrence of the symbol of bit replaced.    *)
SetSymbol(b, bit, v) ==
  CASE b[1] = bit[1] -> Known(v)
    [] b[1] = -bit[1] -> Known(1 - v)
    [] OTHER -> b

mod_bit(k, bit, v) ==
  [f \in DOMAIN k |->
     CASE f \in Regs \cup Hidden -> [i \in Positions |-> SetSymbol(k[f][i], bit, v)]
       [] f \in Flags \cup {"cc"} -> SetSymbol(k[f], bit, v)
       [] OTHER -> k[f]]

(* A bit is made known: by what is learnt of its symbol if it has one.     *)
Learn(k, f, v) == IF IsKnown(k[f]) THEN [k EXCEPT ![f] = Known(v)] ELSE mod_bit(k, k[f], v)
LearnBit(k, f, i, v) == IF IsKnown(k[f][i]) THEN k ELSE mod_bit(k, k[f][i], v)

--------------------------------------------------------------------------------
(* The results of the functions below: the new knowledge, and in ret       *)
(* whether nothing changed.                                                *)
calc_z(k, r) ==
  LET eq == is_zero(r)
      neq == \E i \in Positions : Is(r[i], 1)
      z == IF eq THEN One ELSE IF neq THEN Zero
           ELSE Unknown(200, IF Value(r) = 0 THEN 1 ELSE 0)
  IN [k |-> [k EXCEPT !.z1 = r, !.zf = z, !.zcmp = @ /\ (eq \/ neq)],
      ret |-> IF eq \/ neq THEN EqBit(k.zf, z) ELSE r = k.z1]

calc_nz(k, r) ==
  LET z == calc_z([k EXCEPT !.n = r[TopBit]], r)
  IN [z EXCEPT !.ret = @ /\ EqBit(k.n, r[TopBit])]

(* The carry by the last comparison, when the flag itself is not known.    *)
flag_c(k) ==
  LET co == Compared(k.z2, k.z3, 220).carry IN
  IF IsKnown(k.c) \/ ~k.ccmp THEN [k |-> k, b |-> k.c]
  ELSE [k |-> IF IsKnown(co) /\ ~IsKnown(k.cc) THEN mod_bit(k, k.cc, co[2]) ELSE k, b |-> co]

flag_is_zero(k) ==
  IF IsKnown(k.zf) THEN Is(k.zf, 1)
  ELSE IF k.zcmp THEN k.z2 = k.z3 ELSE is_zero(k.z1)

flag_is_nonzero(k) ==
  IF IsKnown(k.zf) THEN Is(k.zf, 0)
  ELSE \E i \in Positions : IF k.zcmp THEN NeqBit(k.z2[i], k.z3[i]) ELSE Is(k.z1[i], 1)

(* Asking for the Z flag also sets it once it is known.                    *)
Asked(k) == [k EXCEPT !.zf = CASE flag_is_zero(k) -> One [] flag_is_nonzero(k) -> Zero [] OTHER -> @]

transreg(k, from, to) == [k |-> [k EXCEPT ![to] = k[from]], ret |-> k[from] = k[to]]
transreg2(k, from, to) ==
  LET nz == calc_nz([k EXCEPT ![to] = k[from]], k[from])
  IN [nz EXCEPT !.ret = @ /\ k[from] = k[to]]

(* A shift of value r: new value r2, carry c.  The register, if there is   *)
(* one, is set by the caller.                                              *)
Shifted(k, r, r2, c) ==
  LET nz == calc_nz([k EXCEPT !.c = c, !.ccmp = FALSE], r2)
  IN [nz EXCEPT !.ret = @ /\ EqBit(k.c, c) /\ r = r2]

shl(k, r, b) == Shifted(k, r, Shl(r, b), r[TopBit])
shr(k, r, b) == Shifted(k, r, Shr(r, b), r[0])

cmp(k, s, v) ==
  LET same == k.z2 = s /\ k.z3 = v
      sum == Compared(s, v, 240)
      co == IF same /\ k.ccmp THEN k.cc ELSE sum.carry
      k1 == [k EXCEPT !.z2 = s, !.z3 = v, !.c = co, !.cc = co]
      nz == calc_nz(k1, IF same /\ k.zcmp THEN k.z1 ELSE sum.sum)
      cEq == EqBit(k.c, co)
  IN [k |-> [nz.k EXCEPT !.zcmp = TRUE, !.ccmp = TRUE],
      ret |-> nz.ret /\ cEq,
      cc |-> IF ~cEq /\ nz.ret /\ IsKnown(co) THEN IF co = Zero THEN "clc" ELSE "sec" ELSE ""]

(* The fields are not known any more: after is what the processor is left  *)
(* with, and id the first of the new symbols.                              *)
Reset(k, fields, after, id) ==
  LET fresh(f) == id + W * (CHOOSE j \in 1 .. 18 : (RegOrder \o FlagOrder)[j] = f)
  IN [f \in DOMAIN k |-> CASE f \notin fields -> k[f]
                           [] f \in Regs -> Mem(after[f], fresh(f))
                           [] f = "z1" -> Mem(0, fresh(f))
                           [] OTHER -> Unknown(fresh(f), after[f])]

(* Mutant: the last comparison is not forgotten.                           *)
UncomparedNot(k) == k

Uncompared(k) == [k EXCEPT !.zcmp = FALSE, !.ccmp = FALSE]

adcsbc(k, r, inv, after) ==
  LET sum == Adder(k.a, IF inv THEN Inverse8(r) ELSE r, k.c, 260)
      vv == VBit(r[TopBit], k.a[TopBit], sum.sum[TopBit], 290)
      nz == calc_nz([k EXCEPT !.a = sum.sum, !.v = vv, !.c = sum.carry], sum.sum)
  IN IF ~Is(k.d, 0)
     THEN [k |-> Uncompared(Reset(k, {"a", "z1", "n", "v", "zf", "c"}, after, 400)), ret |-> FALSE]
     ELSE [k |-> Uncompared(nz.k),
           ret |-> nz.ret /\ sum.sum = k.a /\ EqBit(k.v, vv) /\ EqBit(k.c, sum.carry)]

BitOp(op, a, b, id) ==
  CASE op \in {"and", "bit", "anc"} -> AndBit(a, b, id)
    [] op = "ora" -> OrBit(a, b, id)
    [] op = "eor" -> XorBit(a, b, id)

Calculated(op, r, v) == [i \in Positions |-> BitOp(op, r[i], v[i], 300 + i)]

(* ret: register v is unchanged; ret2: the result is the operand r.        *)
bincalc_reg(k, op, r, v) ==
  LET e == Calculated(op, r, v)
      nz == calc_nz(k, e)
  IN [k |-> nz.k, e |-> e, ret |-> nz.ret /\ e = v, ret2 |-> e = r]

(* Mutant: a load is redundant when the register does not change.          *)
ld_regOnly(k, r, v) == LET nz == calc_nz(k, r) IN [nz EXCEPT !.ret = r = v]

ld_reg(k, r, v) == LET nz == calc_nz(k, r) IN [nz EXCEPT !.ret = @ /\ r = v]

--------------------------------------------------------------------------------
(* Advice: <<kind, mnemonic>>.                                             *)
None == <<"none", "">>
Adv(kind) == <<kind, "">>
RemoveIf(ret, else) == IF ret THEN Adv("remove") ELSE else
Replace(name) == IF name = "" THEN None ELSE <<"replace", name>>

First(candidates) ==
  LET hits == SelectSeq(candidates, LAMBDA p : p[1]) IN IF hits = <<>> THEN "" ELSE hits[1][2]

try_a(k, v) ==
  First(<< <<v = k.x, "txa">>, <<v = k.y, "tya">>,
           <<c65ce02 /\ v = k.z, "tza">>, <<c65ce02 /\ v = k.b, "tba">>,
           <<k.c = k.a[TopBit] /\ v = Shl(k.a, Zero), "asl">>,
           <<k.c = k.a[TopBit] /\ v = Shl(k.a, k.c), "rol">>,
           <<k.c = k.a[0] /\ v = Shr(k.a, Zero), "lsr">>,
           <<k.c = k.a[0] /\ v = Shr(k.a, k.c), "ror">>,
           <<c65ce02 /\ k.c = k.a[0] /\ v = Shr(k.a, k.a[TopBit]), "asr">>,
           <<(c65c02 \/ c65ce02) /\ v = IncDec(k.a, TRUE, 310), "ina">>,
           <<(c65c02 \/ c65ce02) /\ v = IncDec(k.a, FALSE, 310), "dea">>,
           <<c65ce02 /\ v = Negated(k.a, 310), "neg">> >>)

try_x(k, v) ==
  First(<< <<v = k.a, "tax">>, <<v = k.s, "tsx">>,
           <<v = IncDec(k.x, TRUE, 310), "inx">>, <<v = IncDec(k.x, FALSE, 310), "dex">> >>)

try_y(k, v) ==
  First(<< <<v = k.a, "tay">>, <<c65ce02 /\ v = k.sh, "tsy">>,
           <<v = IncDec(k.y, TRUE, 310), "iny">>, <<v = IncDec(k.y, FALSE, 310), "dey">> >>)

try_z(k, v) ==
  First(<< <<v = k.a, "taz">>,
           <<v = IncDec(k.z, TRUE, 310), "inz">>, <<v = IncDec(k.z, FALSE, 310), "dez">> >>)

Try(k, t, v) ==
  CASE t = "a" -> try_a(k, v) [] t = "x" -> try_x(k, v) [] t = "y" -> try_y(k, v) [] t = "z" -> try_z(k, v)

(* altmode: an index register that is known, or zero in ($12),y.           *)
Indexed(k, i) ==
  CASE i[2] = "memx" -> is_known(k.x)
    [] i[2] = "memy" -> is_known(k.y)
    [] i[2] = "ix" -> c65c02 /\ is_known(k.x)
    [] i[2] = "iy" -> c65c02 /\ is_zero(k.y)
    [] OTHER -> FALSE
IndexAdvice(k, i, else) == IF Indexed(k, i) THEN Adv("constind") ELSE else

Operand(i, v) == IF i[2] = "imm" THEN Imm(v) ELSE Mem(v, 600)
AndR(a, b, id) == [j \in Positions |-> AndBit(a[j], b[j], id + j)]
Result(k, adv) == [k |-> k, adv |-> adv]

Pull(k) == LET s == IncDec(k.s, TRUE, 320) IN [calc_nz(k, s).k EXCEPT !.s = s]
Push(k) == LET s == IncDec(k.s, FALSE, 320) IN [calc_nz(k, s).k EXCEPT !.s = s]

Load(k, i, v) ==
  LET op == i[1]
      k1 == CASE op \in {"pla", "plx", "plz"} -> Pull(k)
              [] op = "ply" -> LET y == IncDec(k.y, TRUE, 320) IN [calc_nz(k, y).k EXCEPT !.y = y]
              [] OTHER -> k
      r == Operand(i, v)
      t == LoadOf[op]
      ld == ld_reg(k1, r, k1[t])
  IN Result([ld.k EXCEPT ![t] = r],
            IF i[2] = "imm" THEN RemoveIf(ld.ret, Replace(Try(ld.k, t, r)))
                            ELSE IndexAdvice(k, i, None))

LoadAX(k, i, v) ==
  LET r == Mem(v, 600) IN Result([calc_nz(k, r).k EXCEPT !.a = r, !.x = r], IndexAdvice(k, i, None))

(* AND, ORA and EOR of r with the accumulator.                             *)
Calculate(k, i, op, r) ==
  LET b == bincalc_reg(k, op, r, k.a)
      ind == IF b.ret2 THEN Adv("indresult") ELSE None
      name == try_a(b.k, b.e)
  IN Result([b.k EXCEPT !.a = b.e],
            IF i[2] = "imm"
            THEN RemoveIf(b.ret, IF name # "" THEN Replace(name)
                                 ELSE IF is_known(b.e) THEN Adv("constresult") ELSE ind)
            ELSE IndexAdvice(k, i, ind))

AndCarry(k, v) ==
  LET b == bincalc_reg(k, "anc", Imm(v), k.a)
      top == k.a[TopBit]
      k1 == [b.k EXCEPT !.c = top]
      same == EqBit(k.c, top)
  IN Result([k1 EXCEPT !.a = b.e],
            IF b.ret THEN RemoveIf(same, IF Is(top, 0) THEN Replace("clc")
                                         ELSE IF Is(top, 1) THEN Replace("sec") ELSE None)
            ELSE IF same THEN Replace(try_a(b.k, b.e)) ELSE None)

AddSub(k, i, v, after) ==
  LET s == adcsbc(k, Operand(i, v), i[1] = "sbc", after)
  IN Result(s.k, IF i[2] = "imm" THEN RemoveIf(s.ret, None) ELSE IndexAdvice(k, i, None))

(* Shifts of the accumulator or of a byte in memory.                       *)
Shift(k, i, v) ==
  LET op == i[1]
      asked == IF op \in {"rol", "ror"} THEN flag_c(k) ELSE [k |-> k, b |-> One]
      kc == asked.k
      rr == IF i[2] = "a" THEN kc.a ELSE Mem(v, 600)
      s == CASE op = "asl" -> shl(kc, rr, Zero)
             [] op = "rol" -> shl(kc, rr, kc.c)
             [] op = "lsr" -> shr(kc, rr, Zero)
             [] op = "ror" -> shr(kc, rr, kc.c)
             [] op = "asr" -> shr(kc, rr, rr[TopBit])
      simple == IF asked.b = Zero THEN <<"simplify", IF op = "rol" THEN "asl" ELSE "lsr">> ELSE None
  IN IF i[2] = "a" THEN Result([s.k EXCEPT !.a = s.k.z1], RemoveIf(s.ret, simple))
                   ELSE Result(s.k, IndexAdvice(k, i, simple))

(* A shift in memory followed by AND, ORA or EOR with the result.          *)
ShiftCalculate(k, i, v) ==
  LET op == CombinedOf[i[1]]
      s == Shift(k, <<op[1], "mem">>, v).k
  IN LET c == Calculate(s, <<op[2], "mem">>, op[2], s.z1)
     IN Result(c.k, IndexAdvice(k, i, c.adv))

Comparison(k, i, v) ==
  LET r == Operand(i, v)
      dec == IncDec(r, FALSE, 320)
      c == IF i[1] = "dcp" THEN cmp(calc_nz(k, dec).k, k.a, dec) ELSE cmp(k, k[CompareOf[i[1]]], r)
  IN Result(c.k, IF i[2] = "imm" THEN RemoveIf(c.ret, Replace(c.cc)) ELSE IndexAdvice(k, i, None))

sbx(k, v) ==
  LET s == AndR(k.x, k.a, 330)
      c == cmp([k EXCEPT !.zcmp = FALSE], s, Imm(v))
      r == c.k.z1
      k1 == Uncompared(c.k)
      ret == calc_nz(k, r).ret /\ r = k.x
      cEq == EqBit(k.c, c.k.c)
  IN Result([k1 EXCEPT !.x = r],
            RemoveIf(ret /\ cEq,
                     IF cEq THEN Replace(try_x(k1, r))
                     ELSE IF ret /\ IsKnown(c.k.c) THEN Replace(IF c.k.c = Zero THEN "clc" ELSE "sec")
                     ELSE None))

BitTest(k, i, v) ==
  LET r == Operand(i, v)
      both == AndR(r, k.a, 330)
      k1 == IF i[1] = "bit" /\ i[2] # "imm" THEN [k EXCEPT !.n = r[TopBit], !.v = r[TopBit - 1]] ELSE k
      z == calc_z(k1, both)
  IN Result(z.k, IF i[2] = "imm" THEN RemoveIf(z.ret, None) ELSE IndexAdvice(k, i, None))

Move(k, i) ==
  LET m == MoveOf[i[1]]
      t == IF i[1] \in Unflagged THEN transreg(k, m[1], m[2]) ELSE transreg2(k, m[1], m[2])
  IN Result(t.k, RemoveIf(t.ret, None))

Count(k, i, v) ==
  LET reg == i[1] \in DOMAIN StepOf
      inc == i[1] = "inc" \/ (reg /\ StepOf[i[1]][2] = 1)
      r == IncDec(IF reg THEN k[StepOf[i[1]][1]] ELSE Mem(v, 600), inc, 320)
      nz == calc_nz(k, r)
  IN IF reg THEN Result([nz.k EXCEPT ![StepOf[i[1]][1]] = r], None)
            ELSE Result(nz.k, IndexAdvice(k, i, None))

Negate(k) ==
  LET r == Negated(k.a, 320)
      nz == calc_nz(k, r)
  IN Result([nz.k EXCEPT !.a = r], RemoveIf(nz.ret /\ r = k.a, None))

(* asri: AND and a shift right.                                            *)
AndShift(k, v) ==
  LET both == AndR(k.a, Imm(v), 330)
      s == Shifted(k, k.a, Shr(both, Zero), both[0])
  IN Result([s.k EXCEPT !.a = s.k.z1], RemoveIf(s.ret, None))

SetFlag(k, i) ==
  LET f == FlagOf[i[1]]
      c == IF f[1] = "c" THEN flag_c(k) ELSE [k |-> k, b |-> k[f[1]]]
  IN Result([c.k EXCEPT ![f[1]] = Known(f[2]), !.ccmp = @ /\ f[1] # "c"],
            IF Is(c.b, f[2]) THEN Adv(IF f[2] = 1 THEN "removeset" ELSE "removeclr") ELSE None)

Store(k, i) ==
  LET r == CASE i[1] = "sta" -> k.a [] i[1] = "stx" -> k.x [] i[1] = "sty" -> k.y [] OTHER -> Imm(1)
  IN Result(k, IndexAdvice(k, i, IF c65c02 /\ is_zero(r) THEN <<"simplify", "stz">> ELSE None))

--------------------------------------------------------------------------------
(* Places from the top down where z3 is v: there z2 must be v as well when *)
(* the comparison of z2 with z3 came out on the side of v.                 *)
Down(k, v) ==
  LET f[n \in 0 .. W] ==
        IF n = 0 THEN [k |-> k, at |-> TopBit]
        ELSE LET p == f[n - 1] IN
             IF p.at = W - n /\ Is(p.k.z3[p.at], v)
             THEN [k |-> LearnBit(p.k, "z2", p.at, v), at |-> p.at - 1] ELSE p
  IN f[W]

AtLeast(k) == IF k.ccmp THEN [Down(k, 1).k EXCEPT !.ccmp = FALSE] ELSE k

LessThan(k) ==
  LET d == Down(k, 0)
      power == d.at >= 0 /\ Is(k.z3[d.at], 1) /\ \A i \in 0 .. d.at - 1 : Is(k.z3[i], 0)
      k1 == IF power THEN LearnBit(d.k, "z2", d.at, 0) ELSE d.k
      k2 == IF k.zcmp THEN [Learn(k1, "zf", 0) EXCEPT !.zcmp = FALSE] ELSE k1
  IN IF k.ccmp THEN [k2 EXCEPT !.ccmp = FALSE] ELSE k

(* All bits of register f: those of the mask get the value of with.        *)
LearnAll(k, f, mask, with) ==
  LET g[i \in -1 .. TopBit] ==
        IF i < 0 THEN k
        ELSE IF i \in mask THEN LearnBit(g[i - 1], f, i, with[i]) ELSE g[i - 1]
  IN g[TopBit]

EqualTo(k) ==
  LET known == {i \in Positions : IsKnown(k.z3[i])}
      k1 == LearnAll(k, "z2", known, [i \in Positions |-> k.z3[i][2]])
      k2 == IF k.ccmp THEN [Learn(k1, "c", 1) EXCEPT !.ccmp = FALSE] ELSE k1
  IN IF k.zcmp THEN [k2 EXCEPT !.zcmp = FALSE] ELSE LearnAll(k, "z1", Positions, [i \in Positions |-> 0])

(* A branch that is not taken leaves the flag on the other value, and tells*)
(* what the comparison or the result behind the flag must have been.       *)
NotTaken(k, op) ==
  LET f == BranchOf[op][1]
      k1 == Learn(k, f, 1 - BranchOf[op][2])
  IN CASE op = "bcc" -> AtLeast(k1)
       [] op = "bcs" -> LessThan(k1)
       [] op = "bne" -> EqualTo(k1)
       [] op = "beq" -> [k1 EXCEPT !.zcmp = FALSE]
       [] OTHER -> k1

(* tgt: the next instruction, the one after it, or one further away.       *)
Branch(k, i, tgt) ==
  LET op == i[1]
      f == BranchOf[op][1]
      on == BranchOf[op][2]
      asked == CASE f = "c" -> flag_c(k)
                 [] f = "zf" -> [k |-> Asked(k), b |-> Asked(k).zf]
                 [] OTHER -> [k |-> k, b |-> k[f]]
  IN CASE Is(asked.b, 1 - on) -> Result(asked.k, Adv("removecond"))
       [] tgt = "next" /\ ~Is(asked.b, 1 - on) -> Result(IF f = "c" THEN asked.k ELSE k, Adv("jump"))
       [] tgt # "next" /\ Is(asked.b, on) ->
            Result([asked.k EXCEPT !.branched = TRUE],
                   CASE tgt = "near" -> <<"always", op>>
                     [] c65c02 \/ c65ce02 -> <<"always", "bra">>
                     [] OTHER -> None)
       [] OTHER -> Result(NotTaken(asked.k, op), None)

(* A jump to a near target is replaced by a branch that is always taken.   *)
Jump(k, tgt) ==
  LET c == flag_c(k).b
      z == Asked(k).zf
      name == First(<< <<Is(z, 0), "bne">>, <<Is(z, 1), "beq">>, <<Is(c, 0), "bcc">>, <<Is(c, 1), "bcs">>,
                       <<Is(k.n, 0), "bpl">>, <<Is(k.n, 1), "bmi">>, <<Is(k.v, 0), "bvc">>, <<Is(k.v, 1), "bvs">>,
                       <<c65c02 \/ c65ce02, "bra">> >>)
  IN IF tgt = "next" THEN Result(k, Adv("jump"))
     ELSE Result([k EXCEPT !.branched = TRUE],
                 IF tgt = "near" /\ name # "" THEN <<"always", name>> ELSE None)

Called(k, after) ==
  [Uncompared(Reset(k, {"a", "x", "y", "z", "b", "z1"} \cup Flags, after, 400)) EXCEPT !.call = TRUE]

PullFlags(k, after) == Uncompared(Reset(Pull(k), Flags \cup {"z1"}, after, 400))

cpu_opt_invalidate(k, after) ==
  [Uncompared(Reset(k, Regs \cup {"z1"} \cup Flags, after, 400)) EXCEPT !.branched = FALSE, !.call = FALSE]

--------------------------------------------------------------------------------
(* The same knowledge with its symbols numbered in the order they occur,   *)
(* without what is left of a comparison that is no longer looked at.       *)
Trimmed(k) ==
  [k EXCEPT !.z2 = IF k.zcmp \/ k.ccmp THEN @ ELSE Imm(0),
            !.z3 = IF k.zcmp \/ k.ccmp THEN @ ELSE Imm(0),
            !.cc = IF k.zcmp \/ k.ccmp THEN @ ELSE Zero]

Canonical(full) ==
  LET k == Trimmed(full)
      symbols == {<<p, IF p <= 10 * W THEN k[RegOrder[((p - 1) \div W) + 1]][(p - 1) % W][1]
                                      ELSE k[FlagOrder[p - 10 * W]][1]>> : p \in 1 .. 10 * W + 8}
      Number(b) ==
        LET same == {s \in symbols : s[2] \in {b[1], -b[1]}}
            first == CHOOSE s \in same : \A u \in same : s[1] <= u[1]
        IN IF b[1] = 0 THEN b ELSE <<IF first[2] = b[1] THEN first[1] ELSE -first[1], b[2]>>
  IN [f \in DOMAIN k |->
        CASE f \in Regs \cup Hidden -> [i \in Positions |-> Number(k[f][i])]
          [] f \in Flags \cup {"cc"} -> Number(k[f])
          [] OTHER -> k[f]]

Forgotten(after) ==
  cpu_opt_invalidate([f \in Regs \cup Hidden \cup Flags \cup {"cc", "zcmp", "ccmp", "branched", "call"} |->
                        CASE f \in Regs \cup Hidden -> Imm(0) [] f \in Flags -> Zero
                          [] f = "cc" -> Zero [] OTHER -> FALSE], after)

--------------------------------------------------------------------------------
Init == \E p \in Programs :
  /\ cputype = p.cpu
  /\ ops = p.ops
  /\ mach \in p.start
  /\ prev = mach
  /\ cpu = Canonical(Forgotten(mach))
  /\ step = <<<<"nop", "">>, 0>>
  /\ advice = None
  /\ away = FALSE
  /\ left = p.len

(* What is known when the next instruction is looked at.                   *)
Entry == [IF cpu.branched THEN cpu_opt_invalidate(cpu, mach) ELSE cpu EXCEPT !.call = FALSE]

Step(i, v, r, gone) ==
  /\ cpu' = Canonical(r.k)
  /\ mach' = Exec(mach, i, v)
  /\ prev' = mach
  /\ step' = <<i, v>>
  /\ advice' = r.adv
  /\ away' = gone
  /\ left' = left - 1
  /\ UNCHANGED <<cputype, ops>>

Assembled(names) == {i \in ops : i[1] \in names /\ ~away /\ left > 0}
Varies(i) == i[2] \in {"imm", "mem", "memx", "memy", "ix", "iy"}
Operands(i) == CASE i[1] \in {"jsr", "plp", "rti"} -> {0, 1}
                 [] Varies(i) \/ i[1] \in DOMAIN LoadOf -> ByteValues
                 [] OTHER -> {0}
Targets == {"next", "near", "far"}

(* An instruction that goes on with the next one.                          *)
Straight(names, Handle(_, _)) ==
  \E i \in Assembled(names) : \E v \in Operands(i) : Step(i, v, Handle(i, v), FALSE)

Loads == Straight(DOMAIN LoadOf, LAMBDA i, v : Load(Entry, i, v))
LoadsAX == Straight({"lax"}, LAMBDA i, v : LoadAX(Entry, i, v))
Logics == Straight({"and", "ora", "eor", "anc"},
                   LAMBDA i, v : IF i[1] = "anc" THEN AndCarry(Entry, v)
                                 ELSE Calculate(Entry, i, i[1], Operand(i, v)))
AddSubs == Straight({"adc", "sbc"}, LAMBDA i, v : AddSub(Entry, i, v, Exec(mach, i, v)))
Shifts == Straight({"asl", "rol", "lsr", "ror", "asr"}, LAMBDA i, v : Shift(Entry, i, v))
Combined == Straight(DOMAIN CombinedOf, LAMBDA i, v : ShiftCalculate(Entry, i, v))
Comparisons == Straight({"cmp", "cpx", "cpy", "cpz", "dcp"}, LAMBDA i, v : Comparison(Entry, i, v))
BitTests == Straight({"bit", "trb"}, LAMBDA i, v : BitTest(Entry, i, v))
Moves == Straight(DOMAIN MoveOf, LAMBDA i, v : Move(Entry, i))
Counts == Straight(DOMAIN StepOf \cup {"inc", "dec"}, LAMBDA i, v : Count(Entry, i, v))
SetFlags == Straight(DOMAIN FlagOf, LAMBDA i, v : SetFlag(Entry, i))
Stores == Straight({"sta", "stx", "sty", "stz"}, LAMBDA i, v : Store(Entry, i))
Unstable ==
  Straight({"neg", "alr", "arr", "sbx", "shs", "lds"},
           LAMBDA i, v :
             CASE i[1] = "neg" -> Negate(Entry)
               [] i[1] = "alr" -> AndShift(Entry, v)
               [] i[1] = "sbx" -> sbx(Entry, v)
               [] i[1] = "shs" -> Result([Entry EXCEPT !.s = AndR(Entry.a, Entry.x, 330)], None)
               [] i[1] = "lds" -> LET k == bincalc_reg(Entry, "and", Mem(v, 600), Entry.s).k
                                  IN Result([k EXCEPT !.a = k.s, !.x = k.s], None)
               [] i[1] = "arr" -> Result(Uncompared(Reset(Entry, {"a", "z1", "n", "v", "zf", "c"},
                                                          Exec(mach, i, v), 400)),
                                         IndexAdvice(Entry, i, None)))
Stack ==
  Straight({"pha", "php", "phx", "plp"},
           LAMBDA i, v : Result(IF i[1] = "plp" THEN PullFlags(Entry, Exec(mach, i, v)) ELSE Push(Entry), None))
Calls == Straight({"jsr"}, LAMBDA i, v : Result(Called(Entry, Exec(mach, i, v)), None))
Breaks == Straight({"brk"}, LAMBDA i, v : Result(cpu_opt_invalidate(Entry, mach), None))

Branches == \E i \in Assembled(DOMAIN BranchOf) : \E tgt \in Targets :
  Step(i, 0, Branch(Entry, i, tgt), tgt # "next" /\ Taken(mach, i[1]))

Jumps == \E i \in Assembled({"jmp", "bra"}) : \E tgt \in Targets :
  LET j == Jump(Entry, tgt)
  IN Step(i, 0, IF i[1] = "bra" /\ j.adv[1] = "always" THEN Result(j.k, None) ELSE j, tgt # "next")

Returns == \E i \in Assembled({"rts", "rti"}) :
  Step(i, 0, Result([Entry EXCEPT !.branched = TRUE],
                    IF i[1] = "rts" /\ cpu.call /\ ~cpu.branched THEN Adv("tailcall") ELSE None), TRUE)

(* A label somebody refers to: execution may come from anywhere.           *)
Label == \E v \in {0, 1} :
  /\ left > 0
  /\ mach' = Clobber(mach, Regs \cup Flags, v)
  /\ cpu' = Canonical(cpu_opt_invalidate(cpu, mach'))
  /\ prev' = mach'
  /\ step' = <<<<"nop", "">>, 0>>
  /\ advice' = None
  /\ away' = FALSE
  /\ left' = left - 1
  /\ UNCHANGED <<cputype, ops>>

Next == Loads \/ LoadsAX \/ Logics \/ AddSubs \/ Shifts \/ Combined \/ Comparisons \/ BitTests \/ Moves
        \/ Counts \/ SetFlags \/ Stores \/ Unstable \/ Stack \/ Calls \/ Breaks \/ Branches \/ Jumps
        \/ Returns \/ Label

Spec == Init /\ [][Next]_vars

--------------------------------------------------------------------------------

(* As long as the processor follows the instructions in the order they are *)
(* assembled, whatever cpu_opt knows of a register or flag is what it      *)
(* holds, and two places with the same symbol hold the same bit: after any *)
(* number of instructions, of compares the branches after them refer to,   *)
(* of flags set from results already overwritten.  And it never gets to    *)
(* the code after an instruction that is said to be always taken.          *)
Sound ==
  ~away => /\ \A f \in Regs : Value(cpu[f]) = mach[f]
           /\ \A f \in Flags : cpu[f][2] = mach[f]
           /\ ~cpu.branched

(* The advice is right: without an instruction called redundant, or with   *)
(* the one proposed in its place, the registers and flags would be the     *)
(* same; a condition that is never met is not met, one always met is.      *)
AdviceRight ==
  LET i == step[1]
      kind == advice[1]
      name == advice[2]
      mode == IF name \in {"asl", "rol", "lsr", "ror", "asr"} /\ kind = "replace" THEN "a" ELSE i[2]
      index == IF i[2] \in {"memx", "ix"} THEN cpu.x ELSE cpu.y
      store == CASE i[1] = "sta" -> mach.a [] i[1] = "stx" -> mach.x [] OTHER -> mach.y
  IN CASE kind \in {"remove", "removeset", "removeclr"} -> mach = prev
       [] kind = "removecond" -> ~Taken(prev, i[1])
       [] kind = "always" -> name = "bra" \/ Taken(prev, name)
       [] kind = "replace" -> mach = Exec(prev, <<name, mode>>, step[2])
       [] kind = "simplify" -> IF name = "stz" THEN store = 0 ELSE mach = Exec(prev, <<name, mode>>, step[2])
       [] kind = "indresult" -> mach.a = IF i[1] \in DOMAIN CombinedOf THEN Moved(prev, CombinedOf[i[1]][1], step[2])[1] ELSE step[2]
       [] OTHER -> TRUE
=============================================================================
