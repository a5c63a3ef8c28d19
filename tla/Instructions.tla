---------------------------- MODULE Instructions ----------------------------
(***************************************************************************)
(* How an instruction is assembled (instruction.c): the addressing mode    *)
(* that an operand asks for is matched with the modes the instruction has, *)
(* the size of the operand is chosen, and the address is made relative to  *)
(* the direct page, the banks or the program counter.  Operands are put    *)
(* together with the operators of Operands and assembled; Reached and      *)
(* Designates say what a processor does with the result and what the       *)
(* source meant.  Branches to labels, which depend on the passes, are in   *)
(* Branches.  Bytes have Byte values in place of 256.                      *)
(***************************************************************************)
EXTENDS Operands, FiniteSets, Bags

CONSTANTS Byte,      (* the values of a byte                               *)
          Cpus,      (* the processors tried                               *)
          Program,   (* Program[cpu]: the mnemonics tried for it           *)
          opcode,    (* opcode[cpu][mnemonic]: the modes there are         *)
          regopcode, (* regopcode[cpu][mnemonic]: the registers it takes   *)
          Memory,    (* Memory[cpu]: its addresses                         *)
          Places,    (* the settings tried: <<pc, dpage, databank>>        *)
          Bases, Others,  (* operands begin with a base and go on with others *)
          Seconds,   (* operands that follow                               *)
          Steps      (* by so many operators and operands                  *)

Bank == Byte * Byte

ASSUME Scale == Byte \in Nat \ {0, 1} /\ Unsigned = Bank * Bank

VARIABLES cpu, pc, dpage, databank,  (* the processor and where it is      *)
          longaccu, longindex,       (* the sizes assumed for immediates   *)
          wide,     (* the registers the processor has 16 bits wide        *)
          vals,     (* the operands: the first one is being put together   *)
          abs,      (* what the first one is: its value and modes          *)
          left,     (* operators and operands that may still be added      *)
          asked,    (* the mnemonic and size of the instruction            *)
          out       (* what was assembled                                  *)

vars == <<all_mem, cpu, pc, dpage, databank, longaccu, longindex, wide, vals, abs, left, asked, out>>

Native == cpu \in {"w65816", "c65el02"}
Has(mn, mode) == mode \in opcode[cpu][mn]

(***************************************************************************)
(* adrmatch: the first operand mode of the instruction for these modes,    *)
(* and how its address is made.                                            *)
(***************************************************************************)
Raw(ms) == IF Len(ms) > 1 /\ ms[1] = "IMM" THEN Tail(ms) ELSE ms

Rows ==
  << <<<<"B">>, "ADDR", "WORD">>, <<<<"K">>, "REL", "BYTE">>,
     <<<<"K">>, "REL_L", "RELPB">>, <<<<"K">>, "ADDR_K", "WORD">>,
     <<<<"D">>, "ZP", "BYTE">>, <<<<"B", "X">>, "ADDR_X", "WORD">>,
     <<<<"D", "X">>, "ZP_X", "BYTE">>, <<<<"X">>, "ZP_X", "DB3">>,
     <<<<"X">>, "ADDR_X", "DB3">>, <<<<"X">>, "LONG_X", "DB3">>,
     <<<<"B", "Y">>, "ADDR_Y", "WORD">>, <<<<"D", "Y">>, "ZP_Y", "BYTE">>,
     <<<<"Y">>, "ZP_Y", "DB2">>, <<<<"Y">>, "ADDR_Y", "DB2">>,
     <<<<"S">>, "ZP_S", "BYTE">>, <<<<"R">>, "ZP_R", "BYTE">>,
     <<<<"D", "I", "Y">>, "ZP_I_Y", "BYTE">>,
     <<<<"I", "Y">>, "ZP_I_Y", "ZP">>,
     <<<<"D", "I", "Z">>, "ZP_I_Z", "BYTE">>,
     <<<<"I", "Z">>, "ZP_I_Z", "ZP">>,
     <<<<"S", "I", "Y">>, "ZP_S_I_Y", "BYTE">>,
     <<<<"R", "I", "Y">>, "ZP_R_I_Y", "BYTE">>,
     <<<<"D", "LI", "Y">>, "ZP_LI_Y", "BYTE">>,
     <<<<"LI", "Y">>, "ZP_LI_Y", "ZP">>,
     <<<<"X", "I">>, "ADDR_K_X_I", "PB">>, <<<<"X", "I">>, "ZP_X_I", "ZP">>,
     <<<<"K", "X", "I">>, "ADDR_K_X_I", "WORD">>,
     <<<<"D", "X", "I">>, "ZP_X_I", "BYTE">>, <<<<"I">>, "ADDR_0_I", "B0">>,
     <<<<"I">>, "ZP_I", "ZP">>, <<<<"D", "I">>, "ZP_I", "BYTE">>,
     <<<<"LI">>, "ADDR_0_LI", "B0">>, <<<<"LI">>, "ZP_LI", "ZP">>,
     <<<<"D", "LI">>, "ZP_LI", "BYTE">>,
     <<<<"D", "LI", "Z">>, "ZP_LI_Z", "BYTE">>,
     <<<<"LI", "Z">>, "ZP_LI_Z", "ZP">> >>

Candidates(ms) == SelectSeq(Rows, LAMBDA r : r[1] = ms)

(* Modes that a number may stand in front of with #: those of a register.  *)
TakesRaw(ms) == Candidates(ms) # <<>> /\ Candidates(ms)[1][3] \in {"BYTE", "WORD"}

NoMatch == <<"none", "none">>

Immediate(mn, signed, w) ==
    LET word == IF signed THEN "SINT" ELSE "SWORD"
        byte == IF signed THEN "CHAR" ELSE "SBYTE"
        long == CASE mn \in {"cpx", "cpy", "ldx", "ldy"} -> (longindex /\ w # 0) \/ w = 1
                  [] OTHER -> (longaccu /\ w # 0) \/ w = 1
    IN CASE mn \in {"pea", "phw"} -> <<"IMMEDIATE", word>>
         [] mn \in {"sep", "rep"} /\ Native -> IF signed THEN NoMatch ELSE <<"IMMEDIATE", "BYTE">>
         [] mn \in {"brk", "cop"} \/ Has(mn, "REL") \/ Has(mn, "REL_L") -> <<"IMMEDIATE", byte>>
         [] OTHER -> <<"IMMEDIATE", IF long THEN word ELSE byte>>

(* `x` indexing is tried as a whole, the size is found later.              *)
adrmatch(mn, am, w) ==
    LET ms == IF TakesRaw(Raw(am)) THEN Raw(am) ELSE am
        fit == SelectSeq(Candidates(ms), LAMBDA r : Has(mn, r[2]))
    IN CASE am \in {<<"IMM">>, <<"SIGNED">>} ->
                IF Has(mn, "IMMEDIATE") THEN Immediate(mn, am = <<"SIGNED">>, w) ELSE NoMatch
         [] fit = <<>> \/ (ms = <<"B">> /\ mn = "pea") -> NoMatch
         [] ms = <<"X">> -> <<"ZP_X", "DB3">>
         [] ms = <<"Y">> -> <<"ZP_Y", "DB2">>
         [] OTHER -> Tail(fit[1])

(***************************************************************************)
(* What is assembled: the prefixes, the mnemonic and mode of the opcode,   *)
(* the bytes of the operand and the number in them.  "refused" is an error *)
(* that assembles nothing, "error" one that does; "later" waits for a      *)
(* value that another pass will know.                                      *)
(***************************************************************************)
Assembled(mn, mode, ln, adr) ==
    [verdict |-> "ok", warned |-> FALSE, prefix |-> <<>>, mn |-> mn, mode |-> mode, ln |-> ln, adr |-> adr % Byte^ln]
Refuse == [verdict |-> "refused", warned |-> FALSE, prefix |-> <<>>, mn |-> "none", mode |-> "none", ln |-> 0, adr |-> 0]
Warn(b, r) == IF b THEN [r EXCEPT !.warned = TRUE] ELSE r
Bad(r) == [r EXCEPT !.verdict = "error"]

Undefined(v) == v.kind = "none" \/ (v.kind = "address" /\ v.val.kind = "none")
(* A value that could not be had: nothing to tell yet, or an error.        *)
Missed(v, r) == [r EXCEPT !.verdict = IF Undefined(v) THEN "later" ELSE "error"]

SizeOk(w, size) == w \in {3, size}

(* The address of a value with its offset, and without.                    *)
Inner(v) == IF v.kind = "address" THEN v.val ELSE v
IsLabel(v) == Inner(v).kind = "code" /\ ~Inner(v).enum
Value(v) == IF IsLabel(v) THEN code_address(Inner(v)) ELSE uaddress(v, all_mem)
Base(v) == IF IsLabel(v) THEN Inner(v).addr ELSE Value(v)
Refuses(v) == Value(v) = Refused
(* An address that does not fit is told of where the offset counts, and    *)
(* wherever a label is asked for a plain number.                           *)
Wraps(v) == Inner(v).kind = "code" /\ code_address(Inner(v)) \notin 0..(all_mem - 1)
Asked(v, r) == Warn(Wraps(v), r)
AskedEnum(v, r) == Warn(Wraps(v) /\ ~IsLabel(v), r)

NearDirect(n) == (n - dpage) % Bank < Byte /\ n < Bank

DirectPage(mn, mode, v, n) ==
    LET adr == (Value(v) - dpage) % Unsigned
        r == Assembled(mn, mode, 1, adr)
    IN CASE n >= Bank -> Bad(Assembled(mn, mode, 1, 0))
         [] n < Bank /\ ~NearDirect(n) -> Bad(r)
         [] OTHER -> Warn(IF Native THEN Wraps(v) ELSE adr >= Byte, r)

AG_ZP(mn, mode, v, w) ==
    CASE ~SizeOk(w, 0) -> Refuse
      [] SizeOk(w, 0) /\ Refuses(v) -> Missed(v, Assembled(mn, mode, 1, 0))
      [] OTHER -> DirectPage(mn, mode, v, (IF Native THEN Value(v) ELSE Base(v)) % all_mem)

AG_B0(mn, mode, v, w) ==
    CASE ~SizeOk(w, 1) -> Refuse
      [] SizeOk(w, 1) /\ Refuses(v) -> Missed(v, Assembled(mn, mode, 2, 0))
      [] OTHER -> IF Base(v) % all_mem < Bank THEN Warn(Value(v) >= Bank, Assembled(mn, mode, 2, Value(v)))
                  ELSE Bad(Assembled(mn, mode, 2, 0))

SameBank(m, n) == m \div Bank = n \div Bank

AG_PB(mn, mode, v, w) ==
    CASE ~SizeOk(w, 1) -> Refuse
      [] SizeOk(w, 1) /\ Refuses(v) -> Missed(v, Assembled(mn, mode, 2, 0))
      [] OTHER -> IF SameBank(pc, Base(v)) THEN Warn(~SameBank(pc, Value(v)), Assembled(mn, mode, 2, Value(v)))
                  ELSE Bad(Assembled(mn, mode, 2, 0))

(* A number of a fixed size.                                               *)
Fixed(mn, mode, v, w, ln, signed) ==
    LET n == IF signed THEN iaddress(v, Byte^ln) ELSE uaddress(v, Byte^ln)
    IN CASE ~SizeOk(w, ln - 1) -> Refuse
         [] SizeOk(w, ln - 1) /\ n = Refused -> Missed(v, Assembled(mn, mode, ln, 0))
         [] OTHER -> Asked(v, Assembled(mn, mode, ln, n))

(* Two or three sizes: the shorter ones are at lower numbers of w.         *)
Sizes(mode) == CASE mode = "ZP" -> <<"ZP", "ADDR", "LONG">>
                 [] mode = "ZP_X" -> <<"ZP_X", "ADDR_X", "LONG_X">>
                 [] mode = "ZP_Y" -> <<"ZP_Y", "ADDR_Y", "none">>

(* Mutant: 16 bits are enough for every address.                           *)
InAnyBank(v) == databank >= 0

InDataBank(v) == databank = (Value(v) % all_mem) \div Bank

AutoSize(mn, sizes, v, indexed) ==
    LET n == (IF indexed /\ ~Native THEN Base(v) ELSE Value(v)) % all_mem
        r(w) == Warn(Wraps(v), Assembled(mn, sizes[w + 1], w + 1, Value(v)))
        least == IF Has(mn, sizes[2]) THEN 1 ELSE 0
    IN CASE Refuses(v) -> Missed(v, Assembled(mn, sizes[least + 1], least + 1, 0))
         [] ~Refuses(v) /\ Has(mn, sizes[1]) /\ NearDirect(n) -> DirectPage(mn, sizes[1], v, n)
         [] ~Refuses(v) /\ ~(Has(mn, sizes[1]) /\ NearDirect(n)) ->
                CASE Has(mn, sizes[2]) /\ InDataBank(v) -> r(1)
                  [] ~(Has(mn, sizes[2]) /\ InDataBank(v)) /\ Has(mn, sizes[3]) -> r(2)
                  [] OTHER -> Bad(Assembled(mn, sizes[least + 1], least + 1, 0))

ForcedSize(mn, sizes, v, w) ==
    LET r == Assembled(mn, sizes[w + 1], w + 1, Value(v))
    IN CASE Refuses(v) -> Missed(v, Assembled(mn, sizes[w + 1], w + 1, 0))
         [] ~Refuses(v) /\ ~Has(mn, sizes[w + 1]) -> Refuse
         [] ~Refuses(v) /\ Has(mn, sizes[w + 1]) ->
                CASE w = 0 -> DirectPage(mn, sizes[1], v, (IF Native THEN Value(v) ELSE Base(v)) % all_mem)
                  [] w = 1 -> IF InDataBank(v) THEN r ELSE Bad(r)
                  [] w = 2 -> Warn(Wraps(v), [r EXCEPT !.adr = Value(v) % all_mem])

AG_DB(mn, mode, v, w) ==
    IF w = 3 THEN AutoSize(mn, Sizes(mode), v, mode # "ZP") ELSE ForcedSize(mn, Sizes(mode), v, w)

(* Long branches: BRL counts from behind the operand on a 65816, from the  *)
(* middle of it on a 65CE02.                                               *)
Behind == IF cpu \in {"c65ce02", "c4510", "c45gs02"} THEN 2 ELSE 3

AG_REL(mn, v, w, limit) ==
    LET n == uaddress(v, limit)
    IN CASE ~SizeOk(w, 1) -> Refuse
         [] SizeOk(w, 1) /\ n = Refused -> Missed(v, Assembled(mn, "REL_L", 2, 0))
         [] OTHER -> IF limit = Bank \/ SameBank(pc, n)
                     THEN Asked(v, Assembled(mn, "REL_L", 2, n - pc - Behind))
                     ELSE Bad(Assembled(mn, "REL_L", 2, 0))

(***************************************************************************)
(* Short branches, to an address or by a distance.  Far ones are made long *)
(* where there are long branches.                                          *)
(***************************************************************************)
(* Mutant: a branch is one short of its reach.                             *)
FarOff(d) == d \in (Byte \div 2 - 1)..(Bank - Byte \div 2 - 1)

Far(d) == d \in (Byte \div 2)..(Bank - Byte \div 2 - 1)

Branch(mn, mode, ln, v, w, n, d, cross) ==
    LET r == CASE ~Far(d) /\ ~cross /\ w \in {0, 3} -> Assembled(mn, mode, ln, d)
               [] (Far(d) \/ cross \/ w \in {1, 2}) /\ Has(mn, "REL_L") /\ ~cross /\ w \in {1, 3} ->
                      Assembled(mn, "REL_L", 2, d)
               [] OTHER -> Bad(Assembled(mn, mode, ln, d))
    IN IF n = Refused THEN Missed(v, r) ELSE Asked(v, r)

Relative(mn, mode, ln, v, w, limit) ==
    LET n == uaddress(v, limit)
        there == CASE n = Refused -> pc + 1 + ln
                   [] n # Refused /\ limit = Bank -> (pc \div Bank) * Bank + n
                   [] OTHER -> n
    IN Branch(mn, mode, ln, v, w, n, (there - pc - 1 - ln) % Bank, ~SameBank(pc, there) /\ n # Refused)

ByDistance(mn, mode, ln, v, w, signed) ==
    LET limit == IF Has(mn, "REL_L") /\ w # 0 THEN Bank ELSE Byte
        n == IF signed THEN iaddress(v, limit) ELSE uaddress(v, limit)
        d == CASE n = Refused -> 0
               [] n # Refused /\ limit = Byte -> ((n + Byte \div 2) % Byte) - Byte \div 2
               [] OTHER -> n
    IN Branch(mn, mode, ln, v, w, n, d % Bank, FALSE)

(***************************************************************************)
(* The instruction: with one operand, with an operand and the registers    *)
(* that index it, with a register in front, or with several numbers.       *)
(***************************************************************************)
Quads == {"adq", "ldq", "stq"}
Longs == {"ZP_LI", "ZP_LI_Y", "ZP_LI_Z"}
Prefixed(mn, mode, r) ==
    IF cpu # "c45gs02" THEN r
    ELSE [r EXCEPT !.prefix = (IF mn \in Quads THEN <<"neg", "neg">> ELSE <<>>)
                              \o (IF mode \in Longs THEN <<"nop">> ELSE <<>>)]

Encode(mn, v, w, mode, ag) ==
    CASE mode = "REL" -> Relative(mn, mode, 1, v, w, Bank)
      [] mode = "IMMEDIATE" /\ Has(mn, "REL") -> ByDistance(mn, "REL", 1, v, w, ag = "CHAR")
      [] mode = "IMMEDIATE" /\ ~Has(mn, "REL") /\ Has(mn, "REL_L") ->
            (IF w = 0 THEN Bad(ByDistance(mn, "REL_L", 2, v, w, ag = "CHAR"))
             ELSE ByDistance(mn, "REL_L", 2, v, w, ag = "CHAR"))
      [] OTHER ->
            CASE ag = "ZP" -> AG_ZP(mn, mode, v, w)
              [] ag = "B0" -> AG_B0(mn, mode, v, w)
              [] ag = "PB" -> AG_PB(mn, mode, v, w)
              [] ag \in {"DB2", "DB3"} -> AG_DB(mn, mode, v, w)
              [] ag = "RELPB" -> AG_REL(mn, v, w, Bank)
              [] ag \in {"BYTE", "SBYTE"} -> Fixed(mn, mode, v, w, 1, FALSE)
              [] ag = "CHAR" -> Fixed(mn, mode, v, w, 1, TRUE)
              [] ag \in {"WORD", "SWORD"} -> Fixed(mn, mode, v, w, 2, FALSE)
              [] ag = "SINT" -> Fixed(mn, mode, v, w, 2, TRUE)

WithModes(mn, w, v, am) ==
    LET m == adrmatch(mn, am, w)
    IN IF m = NoMatch THEN Refuse ELSE Prefixed(mn, m[1], AskedEnum(v, Encode(mn, v, w, m[1], m[2])))

RegisterOperand(mn, r) ==
    CASE r \in regopcode[cpu][mn] -> Assembled(mn, "REG", 0, 0)
      [] <<mn, r>> \in {<<"sta", "a">>, <<"stx", "x">>, <<"sty", "y">>} -> Assembled(mn, "none", 0, 0)
      [] OTHER -> Refuse

OneOperand(mn, w, v) ==
    CASE ModesOf(v) # <<>> -> WithModes(mn, w, v, ModesOf(v))
      [] ModesOf(v) = <<>> /\ v.kind = "register" -> RegisterOperand(mn, v.name)
      [] OTHER ->
            CASE Has(mn, "REL") -> Relative(mn, "REL", 1, v, w, all_mem)
              [] ~Has(mn, "REL") /\ Has(mn, "REL_L") -> AG_REL(mn, v, w, all_mem)
              [] Has(mn, "ADDR_K") -> AskedEnum(v, AG_PB(mn, "ADDR", v, w))
              [] mn = "pea" -> Fixed(mn, "ADDR", v, w, 2, FALSE)
              [] mn # "pea" /\ opcode[cpu][mn] \cap {"ZP", "ADDR", "LONG"} # {} ->
                    Prefixed(mn, "ZP", AskedEnum(v, AG_DB(mn, "ZP", v, w)))
              [] OTHER -> Refuse

(* ldr a, v is lda v, and so on.                                           *)
register_generic(mn, r) ==
    CASE r = "a" /\ mn = "ldr" -> "lda" [] r = "x" /\ mn = "ldr" -> "ldx"
      [] r = "a" /\ mn = "str" -> "sta" [] r = "x" /\ mn = "str" -> "stx"
      [] OTHER -> "none"

(* The address of a bit instruction, or the error.                         *)
BitAddress(v) == IF ModesOf(v) = <<"D">> THEN Fixed("bit", "ZP", v, 3, 1, FALSE)
                 ELSE IF ModesOf(v) # <<>> THEN Bad(Assembled("bit", "ZP", 1, 0))
                 ELSE LET n == uaddress(v, all_mem)
                      IN CASE n = Refused -> Missed(v, Assembled("bit", "ZP", 1, 0))
                           [] n # Refused /\ ~NearDirect(n) -> Bad(Assembled("bit", "ZP", 1, 0))
                           [] OTHER -> Asked(v, Assembled("bit", "ZP", 1, n - dpage))

Worse(r, s) == [r EXCEPT !.warned = r.warned \/ s.warned, !.verdict = CASE "refused" \in {r.verdict, s.verdict} -> "refused"
                                       [] "error" \in {r.verdict, s.verdict} -> "error"
                                       [] "later" \in {r.verdict, s.verdict} -> "later"
                                       [] OTHER -> "ok"]

BitNumber(v) == LET r == Assembled("bit", "none", 0, 0)
                IN IF uval(v, 8) = Refused THEN Missed(v, r) ELSE r

BankByte(v) == IF ModesOf(v) \notin {<<>>, <<"IMM">>} THEN Bad(Assembled("mvn", "MOVE", 1, 0))
               ELSE Fixed("mvn", "MOVE", v, 3, 1, FALSE)

Move(mn, w, v1, v2) ==
    LET b1 == BankByte(v1)  b2 == BankByte(v2)
    IN IF ~SizeOk(w, 1) THEN Refuse
       ELSE Worse(Worse(Assembled(mn, "MOVE", 2, b1.adr * Byte + b2.adr), b1), b2)

BitBranch(mn, w, v2, v3) ==
    LET a == BitAddress(v2)
        d == CASE ModesOf(v3) = <<"K">> -> Relative(mn, "BIT_ZP_REL", 2, v3, w, Bank)
               [] ModesOf(v3) \in {<<"IMM">>, <<"SIGNED">>} ->
                     ByDistance(mn, "BIT_ZP_REL", 2, v3, w, ModesOf(v3) = <<"SIGNED">>)
               [] OTHER -> Relative(mn, "BIT_ZP_REL", 2, v3, w, all_mem)
    IN IF ~SizeOk(w, 1) THEN Refuse
       ELSE Worse([d EXCEPT !.adr = a.adr + (d.adr % Byte) * Byte], a)

BitZp(mn, w, v2) ==
    LET r == IF ModesOf(v2) = <<"D">> THEN Fixed(mn, "ZP", v2, w, 1, FALSE)
             ELSE AskedEnum(v2, AG_ZP(mn, "ZP", v2, w))
    IN IF ModesOf(v2) \notin {<<>>, <<"D">>} /\ r.verdict = "ok" THEN Bad(r) ELSE r

RECURSIVE instruction(_, _, _)
instruction(mn, w, vs) ==
    LET v == vs[1]
        regs == {i \in DOMAIN vs : vs[i].kind = "register" /\ register_to_indexing(vs[i]) # "none"}
        generic == IF v.kind = "register" THEN register_generic(mn, v.name) ELSE "none"
    IN CASE Len(vs) = 1 -> OneOperand(mn, w, v)
         [] Len(vs) > 1 /\ v.kind = "register" -> IF generic = "none" THEN Refuse ELSE instruction(generic, w, Tail(vs))
         [] Len(vs) > 1 /\ v.kind # "register" /\ regs = 2..Len(vs) ->
                WithModes(mn, w, v, ModesOf(v) \o [i \in 1..(Len(vs) - 1) |-> register_to_indexing(vs[i + 1])])
         [] OTHER ->
                CASE Len(vs) = 2 /\ Has(mn, "MOVE") -> Move(mn, w, v, vs[2])
                  [] Len(vs) = 2 /\ Has(mn, "BIT_ZP") ->
                        (IF ~SizeOk(w, 0) THEN Refuse
                         ELSE Worse(BitZp(mn, w, vs[2]), BitNumber(v)))
                  [] Len(vs) = 3 /\ Has(mn, "BIT_ZP_REL") ->
                        Worse(BitBranch(mn, w, vs[2], vs[3]), BitNumber(v))
                  [] OTHER -> Refuse

(***************************************************************************)
(* Lists as operands: one instruction for each element, those of a list of *)
(* one element are used again.                                             *)
(***************************************************************************)
ListOf(es) == [kind |-> "list", elements |-> es]
Length(v) == IF v.kind = "list" THEN Len(v.elements) ELSE 1
Element(v, k) == CASE v.kind # "list" -> v
                   [] v.kind = "list" /\ Len(v.elements) = 1 -> v.elements[1]
                   [] OTHER -> v.elements[k]

Rounds(vs) == LET many == {Length(vs[i]) : i \in DOMAIN vs} \ {1}
              IN CASE many = {} -> 1
                   [] Cardinality(many) = 1 -> CHOOSE n \in many : TRUE
                   [] OTHER -> -1
Round(vs, k) == [i \in DOMAIN vs |-> Element(vs[i], k)]

broadcast(mn, w, vs) == IF Rounds(vs) = -1 THEN <<Refuse>>
                        ELSE [k \in 1..Rounds(vs) |-> instruction(mn, w, Round(vs, k))]

(* With .autsiz the immediates follow the flags that SEP and REP change:   *)
(* the index registers by the lower bit, the accumulator by the next one.  *)
Flag(n, bit) == (n \div bit) % 2 = 1
XBit == 1
MBit == 2
Sep(r) == r.mn = "sep" /\ r.verdict = "ok"
Rep(r) == r.mn = "rep" /\ r.verdict = "ok"
autosize(long, bit) == LET at == SelectLastInSeq(out', LAMBDA r : (Sep(r) \/ Rep(r)) /\ Flag(r.adr, bit))
                       IN IF at = 0 THEN long ELSE Rep(out'[at])

(***************************************************************************)
(* What a value stands for: a number, the modes up to the last indirection *)
(* and, in no order, those after it.                                       *)
(***************************************************************************)
Mode(n, inner, outer) == [n |-> n, inner |-> inner, outer |-> outer]
AsBag(ms) == [m \in Range(ms) |-> Cardinality({i \in DOMAIN ms : ms[i] = m})]
Shape(n, ms) == LET last == SelectLastInSeq(ms, LAMBDA m : m \in Indirects)
                IN Mode(n, SubSeq(ms, 1, last), AsBag(SubSeq(ms, last + 1, Len(ms))))

RECURSIVE NumberIn(_)
NumberIn(v) == CASE v.kind = "int" -> v.n
                 [] v.kind = "code" -> v.addr + v.offs
                 [] v.kind = "address" -> NumberIn(v.val)
                 [] OTHER -> 0

Unsure == Mode(0, <<"none">>, EmptyBag)
Meaning(v) == CASE Lost(v) \/ v = RegisterOf("a") -> Unsure
                [] v.kind = "register" /\ v.name # "a" -> Shape(0, <<register_to_indexing(v)>>)
                [] OTHER -> Shape(NumberIn(v), ModesOf(v))

(* Nothing is said of some sums: of two registers, or of an indirection    *)
(* and anything but a register.                                            *)
Unsaid(v, b) == \/ Unsure \in {Meaning(v), Meaning(b)}
                \/ (v.kind = "register" /\ b.kind = "register")
                \/ (Meaning(v).inner # <<>> /\ b.kind # "register")
                \/ (Meaning(b).inner # <<>> /\ v.kind # "register")

(* The difference of two labels is their distance, which has no modes: of  *)
(* the difference of labels with modes nothing is said either.             *)
Plain(v) == v.kind = "code" /\ ~v.enum
Distance(op, v, b) == op = "sub" /\ Plain(Inner(v)) /\ Plain(Inner(b))
Sum(op, a, b) ==
    CASE op = "add" -> Mode(a.n + b.n, a.inner \o b.inner, a.outer (+) b.outer)
      [] op = "sub" -> Mode(a.n - b.n, a.inner, a.outer (-) b.outer)
      [] op = "mul" -> Mode(a.n * b.n, a.inner, a.outer (+) b.outer)

(* Of the operators only sums must come to a value.                        *)
Hence(op, v, b, result, meaning) ==
    IF \/ (op = "add" /\ Unsaid(v, b))
       \/ (op # "add" /\ Lost(Inner(result)))
       \/ (Distance(op, v, b) /\ ModesOf(v) \o ModesOf(b) # <<>>)
    THEN Unsure ELSE meaning

(***************************************************************************)
(* The machine: an operand is begun, operators are applied to it, others   *)
(* follow it, and an instruction is made of them.                          *)
(***************************************************************************)
Nothing == Shape(0, <<>>)

Init == /\ cpu \in Cpus /\ all_mem = Memory[cpu]
        /\ \E place \in Places :
              /\ pc = place[1] % Memory[cpu] /\ dpage = place[2]
              /\ databank = IF Memory[cpu] > Bank THEN place[3] ELSE 0
        /\ longaccu = FALSE /\ longindex = FALSE /\ wide = {}
        /\ vals = <<>> /\ abs = Nothing /\ left = Steps
        /\ asked = <<>> /\ out = <<>>

Settings == <<all_mem, cpu, pc, dpage, databank>>
Flags == <<longaccu, longindex, wide>>

Begin(v) == /\ vals = <<>> /\ out = <<>>
            /\ vals' = <<v>>
            /\ abs' = IF v.kind = "list" THEN Nothing ELSE Meaning(v)
            /\ UNCHANGED <<Settings, Flags, left, asked, out>>

Combining == Len(vals) = 1 /\ out = <<>> /\ left > 0 /\ vals[1].kind # "list" /\ abs # Unsure

(* An operator with another value on the right or on the left.             *)
Operate(op, v) == /\ Combining
                  /\ vals' = <<calc2(op, vals[1], v)>>
                  /\ abs' = Hence(op, vals[1], v, vals'[1], Sum(op, abs, Meaning(v)))
                  /\ left' = left - 1
                  /\ UNCHANGED <<Settings, Flags, asked, out>>

Operated(op, v) == /\ Combining /\ op # "mul"
                   /\ vals' = <<calc2(op, v, vals[1])>>
                   /\ abs' = Hence(op, v, vals[1], vals'[1], Sum(op, Meaning(v), abs))
                   /\ left' = left - 1
                   /\ UNCHANGED <<Settings, Flags, asked, out>>

(* Parentheses, brackets, # and ,x put modes around the value.             *)
Surround(m) == /\ Combining /\ ~Lost(vals[1]) /\ vals[1].kind # "register"
               /\ vals' = <<apply_addressing(vals[1], m)>>
               /\ abs' = IF m \in Indirects
                         THEN Mode(abs.n, Append(ModesOf(vals[1]), m), EmptyBag)
                         ELSE Mode(abs.n, abs.inner, abs.outer (+) SetToBag({m}))
               /\ left' = left - 1
               /\ UNCHANGED <<Settings, Flags, asked, out>>

(* Conversion to an address, and the low byte of one.                      *)
Convert == /\ Combining
           /\ vals' = <<address_from_obj(vals[1])>>
           /\ abs' = IF Lost(vals'[1]) THEN Unsure ELSE abs
           /\ left' = left - 1
           /\ UNCHANGED <<Settings, Flags, asked, out>>

TakeLower == /\ Combining
             /\ vals' = <<Lower(vals[1], Byte)>>
             /\ abs' = IF Lost(vals'[1]) THEN Unsure ELSE [abs EXCEPT !.n = @ % Byte]
             /\ left' = left - 1
             /\ UNCHANGED <<Settings, Flags, asked, out>>

AddOperand(v) == /\ vals # <<>> /\ left > 0 /\ out = <<>>
                 /\ vals' = Append(vals, v)
                 /\ left' = left - 1
                 /\ UNCHANGED <<Settings, Flags, abs, asked, out>>

(* What SEP and REP do to the widths of the processor.                     *)
Execute(was, r) == CASE Rep(r) -> was \cup {b \in {XBit, MBit} : Flag(r.adr, b)}
                     [] Sep(r) -> {b \in was : ~Flag(r.adr, b)}
                     [] OTHER -> was

Assemble(mn, w) ==
    /\ vals # <<>> /\ out = <<>>
    /\ out' = broadcast(mn, w, vals) /\ asked' = <<mn, w>>
    /\ longindex' = autosize(longindex, XBit)
    /\ longaccu' = autosize(longaccu, MBit)
    /\ wide' = FoldLeft(Execute, wide, out')
    /\ UNCHANGED <<Settings, vals, abs, left>>

Again == /\ out # <<>>
         /\ vals' = <<>> /\ asked' = <<>> /\ out' = <<>> /\ abs' = Nothing /\ left' = Steps
         /\ UNCHANGED <<Settings, Flags>>

(* Labels are in the memory of the processor.                              *)
InMemory(v) == /\ v.kind = "code" => v.addr < all_mem
               /\ v.kind = "list" => \A i \in DOMAIN v.elements :
                                      v.elements[i].kind = "code" => v.elements[i].addr < all_mem
Operators == {"add", "sub", "mul"}

Next == \/ \E v \in Bases : InMemory(v) /\ Begin(v)
        \/ \E v \in Others, op \in Operators : InMemory(v) /\ (Operate(op, v) \/ Operated(op, v))
        \/ \E m \in {"IMM", "SIGNED", "I", "LI", "X", "Y"} : Surround(m)
        \/ Convert
        \/ TakeLower
        \/ \E v \in Seconds : InMemory(v) /\ AddOperand(v)
        \/ \E mn \in Program[cpu], w \in 0..3 : Assemble(mn, w)
        \/ Again

Spec == Init /\ [][Next]_vars

(***************************************************************************)
(* What the processor does with a mode: the base of the address, and the   *)
(* registers and indirections that follow.                                 *)
(***************************************************************************)
HwModes == [ZP |-> <<"D">>, ADDR |-> <<"B">>, LONG |-> <<"L">>, ADDR_K |-> <<"K">>,
            ZP_X |-> <<"D", "X">>, ADDR_X |-> <<"B", "X">>, LONG_X |-> <<"L", "X">>,
            ZP_Y |-> <<"D", "Y">>, ADDR_Y |-> <<"B", "Y">>, ZP_S |-> <<"S">>,
            ZP_I |-> <<"D", "I">>, ZP_LI |-> <<"D", "LI">>, ZP_I_Y |-> <<"D", "I", "Y">>,
            ZP_LI_Y |-> <<"D", "LI", "Y">>, ZP_LI_Z |-> <<"D", "LI", "Z">>, ZP_I_Z |-> <<"D", "I", "Z">>,
            ZP_X_I |-> <<"D", "X", "I">>, ZP_S_I_Y |-> <<"S", "I", "Y">>,
            ADDR_0_I |-> <<"0", "I">>, ADDR_0_LI |-> <<"0", "LI">>, ADDR_K_X_I |-> <<"K", "X", "I">>,
            REL |-> <<"K">>, REL_L |-> <<"K">>, BIT_ZP_REL |-> <<"K">>]

HwOf(mn, mode) == IF mode = "ADDR" /\ Has(mn, "ADDR_K") THEN <<"K">> ELSE HwModes[mode]

InBank(k, n) == k * Bank + (n % Bank)
Signed(n) == IF n >= Byte \div 2 THEN n - Byte ELSE n

(* The address the processor goes to, before it indexes.  Branches count   *)
(* from where they end, long ones of the 65CE02 do not.                    *)
Start(mode) == pc + CASE mode = "REL" -> 2 [] mode = "BIT_ZP_REL" -> 3 [] mode = "REL_L" -> Behind
Reached(r) ==
    LET k == pc \div Bank
    IN CASE r.mode = "REL" -> InBank(k, Start(r.mode) + Signed(r.adr))
         [] r.mode = "BIT_ZP_REL" -> InBank(k, Start(r.mode) + Signed(r.adr \div Byte))
         [] r.mode = "REL_L" -> InBank(k, Start(r.mode) + r.adr)
         [] OTHER -> CASE Head(HwOf(r.mn, r.mode)) = "D" -> InBank(0, dpage + r.adr)
                       [] Head(HwOf(r.mn, r.mode)) = "B" -> InBank(databank, r.adr)
                       [] Head(HwOf(r.mn, r.mode)) = "K" -> InBank(k, r.adr)
                       [] OTHER -> r.adr

(* The modes of an operand: with the registers that follow it.  A # before *)
(* another mode says that the number is not an address.                    *)
Indexed(a, regs) == IF a = Unsure THEN a ELSE [a EXCEPT !.outer = regs (+) @]
Bare(a) == IF BagCardinality(a.outer) > 1 \/ a.inner # <<>>
           THEN [a EXCEPT !.outer = [m \in DOMAIN @ \ {"IMM"} |-> @[m]],
                          !.inner = SelectSeq(@, LAMBDA m : m # "IMM")]
           ELSE a
Same(a, ms) == a = Shape(a.n, ms)
Congruent(a, b, m) == (a - b) % m = 0

(* A number that goes into the operand as it is, or an address reached.    *)
Immediately(r, n) ==
    /\ Congruent(r.adr, n, Byte^r.ln)
    /\ r.warned \/ n < Byte^r.ln \/ n % all_mem < Byte^r.ln
    /\ r.mn \in {"lda", "ldx"} /\ asked[2] = 3 =>
          (r.ln = 2) = ((IF r.mn = "ldx" THEN XBit ELSE MBit) \in wide)

Directly(r, n) == LET there == Reached(r)
                  IN IF r.warned THEN Congruent(there, n, Byte^(IF r.mode = "BIT_ZP_REL" THEN 1 ELSE r.ln))
                     ELSE Congruent(there, n, all_mem)

(***************************************************************************)
(* What the source says: the meaning of each operand of round k, the one   *)
(* that was put together by what it was put together of.  A register in    *)
(* front is part of the mnemonic, those behind are modes.                  *)
(***************************************************************************)
Meanings(k) == LET vs == Round(vals, k)
                   ms == [i \in DOMAIN vs |-> IF i = 1 /\ vals[1].kind # "list" THEN abs ELSE Meaning(vs[i])]
                   first == IF vs[1].kind = "register" THEN 2 ELSE 1
                   regs == {i \in (first + 1)..Len(vs) : vs[i].kind = "register"}
               IN IF regs # (first + 1)..Len(vs) \/ regs = {} THEN SubSeq(ms, first, Len(ms))
                  ELSE <<Indexed(ms[first], AsBag([i \in 1..Cardinality(regs) |-> register_to_indexing(vs[first + i])]))>>

(* The last operand is the address, or what the mode says.                 *)
Designates(r, a) ==
    LET hw == HwOf(r.mn, r.mode)
    IN CASE r.mn = "pea" -> Immediately(r, a.n)
         [] r.mode = "IMMEDIATE" -> Immediately(r, a.n) /\ (Same(a, <<"IMM">>) \/ Same(a, <<"SIGNED">>))
         [] Head(hw) = "K" /\ (Same(a, <<"IMM">>) \/ Same(a, <<"SIGNED">>)) ->
                Congruent(Reached(r), Start(r.mode) + a.n, IF r.mode = "REL_L" THEN Bank ELSE Byte)
         [] Same(Bare(a), hw) -> IF Head(hw) = "K" THEN Congruent(Reached(r), a.n, Bank)
                                ELSE Congruent(r.adr, a.n, IF r.warned THEN Byte^r.ln ELSE all_mem)
         [] OTHER -> Same(a, Tail(hw)) /\ Head(hw) \notin {"S", "R"} /\ Directly(r, a.n)

DesignatesAll(r, ms) ==
    CASE r.mode = "MOVE" -> r.adr = ((ms[1].n % Byte) * Byte) + (ms[2].n % Byte)
      [] r.mode = "BIT_ZP_REL" -> Designates(r, ms[3]) /\ Designates([r EXCEPT !.mode = "ZP", !.adr = @ % Byte, !.ln = 1], ms[2])
      [] OTHER -> Designates(r, Last(ms))

(***************************************************************************)
(* Properties.                                                             *)
(***************************************************************************)
(* Operators on addresses calculate with the number inside and leave its   *)
(* modes: an operand that came to a value has the number and the modes of  *)
(* all it was made of, whatever the order of the operators, and adding a   *)
(* number or a register to an address without an indirection never fails.  *)
Arithmetic ==
    vals # <<>> /\ vals[1].kind # "list" =>
        IF Lost(vals[1]) \/ Lost(Inner(vals[1])) \/ abs = Unsure THEN abs = Unsure
        ELSE /\ Congruent(Meaning(vals[1]).n, abs.n, all_mem)
             /\ [Meaning(vals[1]) EXCEPT !.n = 0] = [abs EXCEPT !.n = 0]

(* Round k takes a label that an offset has put out of the memory.  A       *)
(* forced word size reduces it before it is tested.                        *)
Wrapped(k) == Len(vals) = 1 /\ asked[2] # 1 /\ IsLabel(Round(vals, k)[1]) /\ Wraps(Round(vals, k)[1])

(* An instruction assembled without an error goes to the address its       *)
(* operand designates, by the modes written around it: exactly, or but for *)
(* the wrap around that was warned about; and an address that an offset    *)
(* takes out of the memory is never used silently.  A register or the      *)
(* accumulator gets the immediate value in the width it has at this point. *)
Reaches == \A k \in DOMAIN out :
             out[k].verdict = "ok" /\ out[k].mode \notin {"REG", "none"}
             => /\ Unsure \notin Range(Meanings(k)) => DesignatesAll(out[k], Meanings(k))
                /\ Wrapped(k) => out[k].warned

(* The modes of the instruction that would reach address n exactly.        *)
Covers(mn, mode, n) ==
    LET hw == HwOf(mn, mode)
    IN CASE mn = "pea" -> n < Bank
         [] mode = "REL" -> SameBank(pc, n) /\ \E d \in 0..(Byte - 1) : Congruent(n, pc + 2 + Signed(d), Bank)
         [] mode # "REL" /\ Head(hw) = "D" -> n < Bank /\ (n - dpage) % Bank < Byte
         [] mode # "REL" /\ Head(hw) = "B" -> n \div Bank = databank
         [] mode # "REL" /\ Head(hw) = "K" -> SameBank(pc, n)
         [] OTHER -> n < Bank \/ mode \in {"LONG", "LONG_X"}

LengthOf(mode) == CASE mode \in {"LONG", "LONG_X"} -> 3
                    [] mode \in {"ADDR", "ADDR_K", "ADDR_X", "ADDR_Y", "ADDR_0_I", "ADDR_0_LI", "ADDR_K_X_I", "REL_L"} -> 2
                    [] OTHER -> 1

Exact(mn, a) == {m \in opcode[cpu][mn] \cap (DOMAIN HwModes \ {"BIT_ZP_REL"}) :
                   /\ Same(a, Tail(HwOf(mn, m))) /\ Head(HwOf(mn, m)) \notin {"S", "R"}
                   /\ Covers(mn, m, a.n)}

(* When no size is forced, an address that some mode of the instruction    *)
(* reaches is assembled, and in the shortest of these modes.               *)
Best == \A k \in DOMAIN out :
          LET v == Round(vals, k)[1]
              a == Meanings(k)[1]
          IN /\ asked[2] = 3 /\ Len(Meanings(k)) = 1 /\ ~Lost(Inner(v)) /\ v.kind # "register" /\ a # Unsure
             /\ a.n = NumberIn(v) /\ a.n \in 0..(all_mem - 1) /\ (IsLabel(v) => Inner(v).offs = 0)
             => \A m \in Exact(asked[1], a) : out[k].verdict = "ok" /\ out[k].ln <= LengthOf(m)
=============================================================================
