-------------------------- MODULE RegisterPrograms --------------------------
(***************************************************************************)
(* Small instruction sets for TLC: groups of instructions that act on the  *)
(* same knowledge.                                                         *)
(***************************************************************************)
EXTENDS Integers, Sequences

Start(as, xs) ==
  {[a |-> a, x |-> x, y |-> 2, z |-> 3, s |-> 3, sh |-> 1, b |-> 0,
    n |-> 0, v |-> 1, e |-> 1, d |-> d, i |-> 0, zf |-> a % 2, c |-> x % 2] : a \in as, x \in xs, d \in {0}}
Decimal(starts) == {[m EXCEPT !.d = 1] : m \in starts}
Implied(names) == names \X {""}
Immediate(names) == names \X {"imm"}
FromMemory(names) == names \X {"mem"}
Length(type, len, start, instructions) == [cpu |-> type, len |-> len, start |-> start, ops |-> instructions]
Set(type, start, instructions) == Length(type, 3, start, instructions)

(* Comparisons and the branches that learn from them.                      *)
Compares ==
  Set("6502", Start({1, 2}, {1}),
      Immediate({"cmp", "cpx"}) \cup FromMemory({"cmp", "lda"}) \cup Implied({"bcc", "bcs", "bne", "beq", "clc"}))
Twice ==
  Length("6502", 5, Start({1, 2}, {1}), Immediate({"cmp"}) \cup Implied({"bcc", "bcs", "bne", "beq"}))
(* Loads, counting and moves between registers.                            *)
Moved6502 ==
  Set("6502", Start({0, 3}, {1}),
      Immediate({"lda", "ldx"}) \cup Implied({"tax", "tay", "txs", "tsx", "inx", "dex", "txa", "bmi", "beq"})
      \cup {<<"lda", "memx">>})
(* Results that are partly known, and the flags they leave.                *)
Calculated6502 ==
  Set("6502", Start({1, 2}, {1}),
      Immediate({"and", "ora", "eor"}) \cup FromMemory({"and", "ora"}) \cup Implied({"bne", "bpl", "tay", "sec"})
      \cup {<<"rol", "a">>, <<"lsr", "a">>, <<"ror", "mem">>})
Added ==
  Set("65c02", LET s == Start({1, 2}, {1}) IN s \cup Decimal(s),
      Immediate({"adc", "lda"}) \cup {<<"adc", "memx">>} \cup Implied({"clc", "sec", "clv", "cld", "bvs", "bcs"}))
(* What stands behind a call, a jump or a label.                           *)
Flow ==
  Set("65c02", Start({1}, {1}),
      Immediate({"lda", "bit"}) \cup Implied({"jmp", "bra", "jsr", "rts", "rti", "brk", "sec", "bcs", "plp", "sei", "tax", "plx"}) \cup {<<"sta", "mem">>})
Stored ==
  Set("65c02", Start({1}, {2}),
      Immediate({"lda", "ldy"})
      \cup {<<"sta", "iy">>, <<"lda", "ix">>, <<"stx", "mem">>, <<"bit", "mem">>, <<"trb", "mem">>, <<"inc", "memx">>,
            <<"ina", "">>, <<"bvc", "">>, <<"bpl", "">>, <<"pla", "">>, <<"dea", "">>, <<"bne", "">>})
Undocumented ==
  Set("6502i", Start({1, 3}, {2}),
      Immediate({"alr", "sbx", "arr", "lda"})
      \cup FromMemory({"slo", "rla", "sre", "lax"}) \cup Implied({"shs", "tsx", "bcc", "clc"}))
Extended ==
  Set("65ce02", Start({1, 2}, {1}),
      Immediate({"ldz", "lda"})
      \cup Implied({"neg", "taz", "tza", "tab", "tba", "tys", "tsy", "inz", "see", "beq"}) \cup {<<"asr", "a">>})
MCPrograms == {Compares, Twice, Moved6502, Calculated6502, Added, Flow, Stored, Undocumented, Extended}
=============================================================================
