------------------------------ MODULE Processor ------------------------------
(***************************************************************************)
(* The processors the assembler writes programs for, as far as the advice  *)
(* of optimizer.c is about them: what each instruction does to the         *)
(* registers and flags.  Not part of the sources: it is what the code      *)
(* relies on, by the opcodes and mnemonics in its tables.  An instruction  *)
(* is <<mnemonic, mode>>, v the immediate operand or the byte in memory.   *)
(* A byte has W bits, and the top two are those BIT puts in the flags.     *)
(***************************************************************************)
EXTENDS Integers, Bitwise

CONSTANT W
M == 2^W
Bit(n, i) == (n \div 2^i) % 2

NZ(m, r) == [m EXCEPT !.n = Bit(r, W - 1), !.zf = IF r = 0 THEN 1 ELSE 0]

LoadOf == [lda |-> "a", ldx |-> "x", ldy |-> "y", ldz |-> "z",
           pla |-> "a", plx |-> "x", ply |-> "y", plz |-> "z"]
CompareOf == [cmp |-> "a", cpx |-> "x", cpy |-> "y", cpz |-> "z"]
StepOf == [inx |-> <<"x", 1>>, iny |-> <<"y", 1>>, inz |-> <<"z", 1>>, ina |-> <<"a", 1>>,
           dex |-> <<"x", -1>>, dey |-> <<"y", -1>>, dez |-> <<"z", -1>>, dea |-> <<"a", -1>>]
MoveOf == [tax |-> <<"a", "x">>, tay |-> <<"a", "y">>, taz |-> <<"a", "z">>, tab |-> <<"a", "b">>,
           txa |-> <<"x", "a">>, tya |-> <<"y", "a">>, tza |-> <<"z", "a">>, tba |-> <<"b", "a">>,
           txs |-> <<"x", "s">>, tsx |-> <<"s", "x">>, tys |-> <<"y", "sh">>, tsy |-> <<"sh", "y">>]
FlagOf == [clc |-> <<"c", 0>>, cli |-> <<"i", 0>>, clv |-> <<"v", 0>>, cld |-> <<"d", 0>>, cle |-> <<"e", 0>>,
           sec |-> <<"c", 1>>, sei |-> <<"i", 1>>, sed |-> <<"d", 1>>, see |-> <<"e", 1>>]
(* The flag of a branch and the value it is taken on.                      *)
BranchOf == [bpl |-> <<"n", 0>>, bmi |-> <<"n", 1>>, bvc |-> <<"v", 0>>, bvs |-> <<"v", 1>>,
             bcc |-> <<"c", 0>>, bcs |-> <<"c", 1>>, bne |-> <<"zf", 0>>, beq |-> <<"zf", 1>>]
Unflagged == {"txs", "tab", "tys"}

Taken(m, op) == m[BranchOf[op][1]] = BranchOf[op][2]

(* Results the code knows nothing of: all that was there, or none of it.   *)
Clobber(m, fields, v) ==
  [f \in DOMAIN m |-> IF f \notin fields \/ v % 2 = 0 THEN m[f]
                      ELSE IF f \in {"n", "v", "e", "d", "i", "zf", "c"} THEN 1 - m[f]
                      ELSE M - 1 - m[f]]

Subtract(m, r, v) == NZ([m EXCEPT !.c = IF r >= v THEN 1 ELSE 0], (r - v) % M)

Add(m, v) ==
  LET sum == m.a + v + m.c
      r == sum % M
      o == IF Bit(m.a, W - 1) = Bit(v, W - 1) /\ Bit(r, W - 1) # Bit(v, W - 1) THEN 1 ELSE 0
  IN IF m.d = 1 THEN Clobber(m, {"a", "n", "v", "zf", "c"}, v)
     ELSE NZ([m EXCEPT !.a = r, !.v = o, !.c = sum \div M], r)

Logic(op, a, v) == CASE op \in {"and", "anc"} -> a & v [] op = "ora" -> a | v [] op = "eor" -> a ^^ v

(* A shift of r: the result and the bit that falls out.                    *)
Moved(m, op, r) ==
  CASE op = "asl" -> <<(2 * r) % M, Bit(r, W - 1)>>
    [] op = "rol" -> <<((2 * r) % M) + m.c, Bit(r, W - 1)>>
    [] op = "lsr" -> <<r \div 2, Bit(r, 0)>>
    [] op = "ror" -> <<(r \div 2) + m.c * 2^(W - 1), Bit(r, 0)>>
    [] op = "asr" -> <<(r \div 2) + Bit(r, W - 1) * 2^(W - 1), Bit(r, 0)>>

(* Read, shift and write back, and then the same with the accumulator.     *)
CombinedOf == [slo |-> <<"asl", "ora">>, rla |-> <<"rol", "and">>, sre |-> <<"lsr", "eor">>]

Exec(m, i, v) ==
  LET op == i[1]
      Shift(o, r, mm) == NZ([mm EXCEPT !.c = Moved(m, o, r)[2]], Moved(m, o, r)[1])
      InA(r, mm) == [NZ(mm, r) EXCEPT !.a = r]
  IN
  CASE op \in {"lda", "ldx", "ldy", "ldz"} -> [NZ(m, v) EXCEPT ![LoadOf[op]] = v]
    [] op \in {"pla", "plx", "ply", "plz"} -> [NZ(m, v) EXCEPT ![LoadOf[op]] = v, !.s = (@ + 1) % M]
    [] op = "lax" -> [NZ(m, v) EXCEPT !.a = v, !.x = v]
    [] op \in {"and", "ora", "eor"} -> InA(Logic(op, m.a, v), m)
    [] op = "anc" -> InA(m.a & v, [m EXCEPT !.c = Bit(m.a & v, W - 1)])
    [] op = "adc" -> Add(m, v)
    [] op = "sbc" -> Add(m, M - 1 - v)
    [] op \in DOMAIN CompareOf -> Subtract(m, m[CompareOf[op]], v)
    [] op = "dcp" -> Subtract(m, m.a, (v - 1) % M)
    [] op = "sbx" -> [Subtract(m, m.a & m.x, v) EXCEPT !.x = ((m.a & m.x) - v) % M]
    [] op \in {"bit", "trb"} ->
         [m EXCEPT !.zf = IF (m.a & v) = 0 THEN 1 ELSE 0,
                   !.n = IF op = "bit" /\ i[2] # "imm" THEN Bit(v, W - 1) ELSE @,
                   !.v = IF op = "bit" /\ i[2] # "imm" THEN Bit(v, W - 2) ELSE @]
    [] op \in DOMAIN MoveOf ->
         LET r == m[MoveOf[op][1]] IN
         [IF op \in Unflagged THEN m ELSE NZ(m, r) EXCEPT ![MoveOf[op][2]] = r]
    [] op \in DOMAIN StepOf ->
         LET r == (m[StepOf[op][1]] + StepOf[op][2]) % M IN [NZ(m, r) EXCEPT ![StepOf[op][1]] = r]
    [] op \in {"inc", "dec"} -> NZ(m, (v + IF op = "inc" THEN 1 ELSE -1) % M)
    [] op = "neg" -> InA((-m.a) % M, m)
    [] op \in DOMAIN FlagOf -> [m EXCEPT ![FlagOf[op][1]] = FlagOf[op][2]]
    [] op \in {"asl", "rol", "lsr", "ror", "asr"} ->
         IF i[2] = "a" THEN [Shift(op, m.a, m) EXCEPT !.a = Moved(m, op, m.a)[1]] ELSE Shift(op, v, m)
    [] op \in DOMAIN CombinedOf ->
         LET s == Moved(m, CombinedOf[op][1], v) IN
         InA(Logic(CombinedOf[op][2], m.a, s[1]), [m EXCEPT !.c = s[2]])
    [] op = "alr" -> InA((m.a & v) \div 2, [m EXCEPT !.c = Bit(m.a & v, 0)])
    [] op = "arr" -> Clobber(m, {"a", "n", "v", "zf", "c"}, v)
    [] op = "shs" -> [m EXCEPT !.s = m.a & m.x]
    [] op = "lds" -> LET r == v & m.s IN [InA(r, m) EXCEPT !.x = r, !.s = r]
    [] op \in {"pha", "php", "phx"} -> [m EXCEPT !.s = (@ - 1) % M]
    [] op = "plp" -> [Clobber(m, {"n", "v", "d", "i", "zf", "c"}, v) EXCEPT !.s = (@ + 1) % M]
    [] op = "jsr" -> Clobber(m, {"a", "x", "y", "z", "b", "n", "v", "d", "i", "zf", "c"}, v)
    [] OTHER -> m        \* stores, jumps, branches, nop
=============================================================================
