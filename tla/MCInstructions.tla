---------------------------- MODULE MCInstructions ----------------------------
(* Bytes of four values, banks of sixteen: a 65816 with four banks, a 6502 *)
(* and a 45GS02 with one.  What -Woptimize knows and advises is looked at  *)
(* in programs of their own.                                               *)
EXTENDS Instructions

CONSTANTS W, Programs                                                    \* of Registers
VARIABLES cputype, ops, known, mach, prev, step, advice, away, rest
knowing == <<cputype, ops, known, mach, prev, step, advice, away, rest>>
R == INSTANCE Registers WITH cpu <- known, left <- rest
P == INSTANCE RegisterPrograms
ASSUME R!WAssumption
MCPrograms == P!MCPrograms

MCProgram ==
  [w65816 |-> {"lda", "ldx", "jmp", "bne", "brl", "rep", "sep", "pea", "mvn", "ldr"},
   c6502 |-> {"lda", "ldx", "jmp", "bne"},
   c45gs02 |-> {"lda", "ldq", "jmp", "bne", "bbr", "rmb", "phw"}]

MCopcode ==
  [w65816 |->
     [lda |-> {"IMMEDIATE", "LONG", "ADDR", "ZP", "LONG_X", "ADDR_X", "ZP_X", "ZP_X_I", "ZP_S", "ZP_S_I_Y",
               "ADDR_Y", "ZP_I_Y", "ZP_I", "ZP_LI_Y", "ZP_LI"},
      ldx |-> {"IMMEDIATE", "ADDR", "ZP", "ADDR_Y", "ZP_Y"},
      jmp |-> {"ADDR_K_X_I", "ADDR_0_LI", "ADDR_0_I", "ADDR_K"},
      bne |-> {"IMMEDIATE", "REL"}, brl |-> {"IMMEDIATE", "REL_L"},
      rep |-> {"IMMEDIATE"}, sep |-> {"IMMEDIATE"}, pea |-> {"IMMEDIATE", "ADDR"},
      mvn |-> {"MOVE"}, ldr |-> {}],
   c6502 |->
     [lda |-> {"IMMEDIATE", "ADDR", "ZP", "ADDR_X", "ZP_X", "ZP_X_I", "ADDR_Y", "ZP_I_Y"},
      ldx |-> {"IMMEDIATE", "ADDR", "ZP", "ADDR_Y", "ZP_Y"},
      jmp |-> {"ADDR_0_I", "ADDR_K"}, bne |-> {"IMMEDIATE", "REL"}],
   c45gs02 |->
     [lda |-> {"IMMEDIATE", "ADDR", "ZP", "ADDR_X", "ZP_X", "ZP_X_I", "ZP_S_I_Y", "ADDR_Y",
               "ZP_I_Y", "ZP_I_Z", "ZP_LI_Z"},
      ldq |-> {"ADDR", "ZP", "ZP_I_Z", "ZP_LI_Z"},
      jmp |-> {"ADDR_K_X_I", "ADDR_0_I", "ADDR_K"},
      bne |-> {"IMMEDIATE", "REL_L", "REL"}, bbr |-> {"BIT_ZP_REL"}, rmb |-> {"BIT_ZP"},
      phw |-> {"IMMEDIATE", "ADDR"}]]

MCregopcode == [c \in DOMAIN MCProgram |-> [mn \in MCProgram[c] |-> IF mn = "lda" THEN {"x", "y"} ELSE {}]]
MCMemory == [w65816 |-> 64, c6502 |-> 16, c45gs02 |-> 16]

MCBases == {Number(6), Label(1, 0, <<>>, FALSE), Label(20, 0, <<>>, FALSE), Label(13, 0, <<>>, FALSE),
            Label(2, 0, <<"X">>, FALSE), Label(3, 0, <<>>, TRUE), RegisterOf("x"), None,
            ListOf(<<Number(1), Label(20, -1, <<>>, FALSE)>>)}
MCOthers == {Number(-5), Label(5, 1, <<>>, FALSE), RegisterOf("y"),
             AddressOf(Number(2), <<"IMM">>), AddressOf(Number(3), <<"D">>), AddressOf(Number(1), <<"S", "I">>)}
MCSeconds == {RegisterOf("y"), Label(2, -1, <<>>, FALSE), ListOf(<<Number(1), Number(6)>>)}
MCPlaces == {<<3, 0, 1>>, <<25, 6, 0>>}
MCSteps == 2

(* An operand, or a program for -Woptimize.                                *)
Idle == /\ cpu = "c6502" /\ all_mem = 0 /\ pc = 0 /\ dpage = 0 /\ databank = 0
        /\ longaccu = FALSE /\ longindex = FALSE /\ wide = {}
        /\ vals = <<>> /\ abs = Nothing /\ left = 0 /\ asked = <<>> /\ out = <<>>
Unknowing == /\ cputype = "" /\ ops = {} /\ known = <<>> /\ mach = <<>> /\ prev = <<>> /\ step = <<>>
             /\ advice = <<>> /\ away = FALSE /\ rest = 0
AllInit == (Init /\ Unknowing) \/ (R!Init /\ Idle)
AllNext == \/ cputype = "" /\ Next /\ UNCHANGED knowing
           \/ cputype # "" /\ (R!Next \/ (rest = 0 /\ UNCHANGED knowing)) /\ UNCHANGED vars
AllSpec == AllInit /\ [][AllNext]_<<vars, knowing>>

(* What is taken as known of registers and flags is so (optimizer.c).      *)
Sound == cputype # "" => R!Sound
(* An instruction advised against does nothing (optimizer.c).              *)
AdviceRight == cputype # "" => R!AdviceRight
===============================================================================
