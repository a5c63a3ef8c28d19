------------------------------ MODULE Operands ------------------------------
(***************************************************************************)
(* The values an operand of an instruction is made of (addressobj.c,       *)
(* codeobj.c, registerobj.c): numbers, labels with an offset, registers,   *)
(* and addresses, that is values with addressing modes around them.  The   *)
(* modes of an address are a sequence, the innermost first, where the code *)
(* has the digits of a number; `(5),y` is the address of 5 with the modes  *)
(* <<"I", "Y">>.  Numbers are scaled down: all_mem addresses in place of   *)
(* 2^16 or 2^24, Unsigned values of a uval_t in place of 2^32.             *)
(***************************************************************************)
EXTENDS Integers, Sequences, SequencesExt

CONSTANTS Unsigned,  (* the values of uval_t and address_t                 *)
          Limit      (* the offsets of a label are below it, 2^30          *)

ASSUME Widths == {Unsigned, Limit} \subseteq Nat \ {0} /\ Limit < Unsigned

VARIABLE all_mem     (* the addresses of the processor: all_mem + 1        *)

None == [kind |-> "none"]
Error == [kind |-> "error"]
Number(n) == [kind |-> "int", n |-> n]
RegisterOf(r) == [kind |-> "register", name |-> r]
AddressOf(v, ms) == [kind |-> "address", val |-> v, modes |-> ms]
(* A label: where it is, the offset added to it, the modes of the program  *)
(* counter it was made with, and whether it belongs to an enumeration.     *)
Label(a, o, ms, e) == [kind |-> "code", addr |-> a, offs |-> o, typ |-> ms, enum |-> e]

Lost(v) == v.kind \in {"none", "error"}
Indirects == {"I", "LI"}
Immediates == {"IMM", "SIGNED"}
Indexes == {"X", "Y", "Z", "R", "S", "D", "B", "K"}

(***************************************************************************)
(* Conversions.                                                            *)
(***************************************************************************)
code_address(v) == (v.addr + v.offs) % Unsigned

get_code_address(v) == LET n == Number(code_address(v) % all_mem)
                       IN IF v.typ = <<>> THEN n ELSE AddressOf(n, v.typ)

code_remove_address(v) == Label(v.addr, v.offs, <<>>, v.enum)

code_to_address(v) == AddressOf(code_remove_address(v), v.typ)

(* All the modes of a value, from the inside: address().                   *)
RECURSIVE ModesOf(_)
ModesOf(v) == CASE v.kind = "address" -> ModesOf(v.val) \o v.modes
                [] v.kind = "code" -> v.typ
                [] OTHER -> <<>>

check_addr(ms) == \E i \in DOMAIN ms : ms[i] \in Indirects
check_addr2(ms) == \E i \in DOMAIN ms : ms[i] \in Indirects \cup Indexes

(* The value as an unsigned number below limit, or Refused: uaddress.      *)
Refused == -1 - Unsigned
RECURSIVE uaddress(_, _)
uaddress(v, limit) ==
    CASE v.kind = "int" -> IF v.n \in 0..(limit - 1) THEN v.n ELSE Refused
      [] v.kind = "code" -> IF code_address(v) % all_mem < limit THEN code_address(v) % all_mem ELSE Refused
      [] v.kind = "address" -> uaddress(v.val, limit)
      [] OTHER -> Refused

RECURSIVE iaddress(_, _)
iaddress(v, limit) ==
    CASE v.kind = "int" -> IF v.n \in -(limit \div 2)..(limit \div 2 - 1) THEN v.n ELSE Refused
      [] v.kind = "code" -> IF code_address(v) % all_mem < limit \div 2 THEN code_address(v) % all_mem ELSE Refused
      [] v.kind = "address" -> iaddress(v.val, limit)
      [] OTHER -> Refused

(* As a number to calculate with: modes are in the way, none and errors    *)
(* are not.                                                                *)
RECURSIVE ival(_, _)
ival(v, limit) ==
    CASE v.kind = "code" -> IF v.typ # <<>> THEN Refused ELSE iaddress(v, limit)
      [] v.kind = "address" -> IF v.modes # <<>> /\ ~Lost(v.val) THEN Refused ELSE ival(v.val, limit)
      [] OTHER -> iaddress(v, limit)

RECURSIVE uval(_, _)
uval(v, limit) ==
    CASE v.kind = "code" -> IF v.typ # <<>> THEN Refused ELSE uaddress(v, limit)
      [] v.kind = "address" -> IF v.modes # <<>> /\ ~Lost(v.val) THEN Refused ELSE uval(v.val, limit)
      [] OTHER -> uaddress(v, limit)

(***************************************************************************)
(* The conversion address(v), and the modes the parser puts around a value *)
(* (apply_addressing): #v, (v), [v], v,x.                                  *)
(***************************************************************************)
address_from_obj(v) ==
    CASE v.kind = "code" /\ v.typ # <<>> -> code_to_address(v)
      [] v.kind = "code" /\ v.typ = <<>> -> AddressOf(v, <<>>)
      [] v.kind = "int" -> AddressOf(v, <<>>)
      [] v.kind = "register" -> Error
      [] OTHER -> v

apply_addressing(v, m) ==
    CASE v.kind = "address" -> AddressOf(v.val, Append(v.modes, m))
      [] v.kind = "code" /\ v.typ # <<>> -> AddressOf(code_remove_address(v), Append(v.typ, m))
      [] OTHER -> AddressOf(v, <<m>>)

register_to_indexing(r) == IF r.name \in {"s", "r", "z", "y", "x", "d", "b", "k"}
                           THEN CASE r.name = "s" -> "S" [] r.name = "r" -> "R" [] r.name = "z" -> "Z"
                                  [] r.name = "y" -> "Y" [] r.name = "x" -> "X" [] r.name = "d" -> "D"
                                  [] r.name = "b" -> "B" [] r.name = "k" -> "K"
                           ELSE "none"

(* The outcome of an operator on values it is not for.                     *)
Wrong(v) == IF v.kind = "address" /\ Lost(v.val) THEN v.val ELSE Error

(* What is left of the modes ms without the modes rs.                      *)
Missing == <<"none">>
RECURSIVE Without(_, _)
Without(ms, rs) ==
    CASE rs = <<>> -> ms
      [] rs # <<>> /\ Head(rs) \in Range(ms) -> Without(Remove(ms, Head(rs)), Tail(rs))
      [] OTHER -> Missing

(* The modes without a register that is outside of every indirection.      *)
Unindexed(ms, m) ==
    LET last == SelectLastInSeq(ms, LAMBDA k : k = m)
        inner == SelectLastInSeq(ms, LAMBDA k : k \in Indirects \cup Immediates)
    IN IF last = 0 \/ inner > last THEN Missing ELSE RemoveAt(ms, last)

Unless(missing, v) == IF missing THEN Error ELSE v
Around(v, ms) == IF ms = <<>> THEN v ELSE AddressOf(v, ms)

(***************************************************************************)
(* The operators: "add", "sub", and "mul" for those that keep the modes of *)
(* a number only.  Comparisons, which need the same modes, are left out.   *)
(***************************************************************************)
calc2_int(op, m, n) == Number(CASE op = "add" -> m + n [] op = "sub" -> m - n [] op = "mul" -> m * n)

(* An offset added to a label.                                             *)
Shifted(v, n) == Label(v.addr, CASE v.offs + n >= Limit -> Limit - 1
                                 [] v.offs + n < -Limit -> -Limit
                                 [] OTHER -> v.offs + n, v.typ, v.enum)

Sign(op, n) == IF op = "sub" THEN -n ELSE n
Small(v) == IF ival(v, 2 * Limit) = Refused THEN Refused ELSE ival(v, 2 * Limit)

RECURSIVE calc2(_, _, _)

CodeAndNumber(op, a, b) ==
    IF op \in {"add", "sub"} /\ Small(b) # Refused
    THEN Shifted(a, Sign(op, Small(b)))
    ELSE calc2(op, get_code_address(a), b)

NumberAndCode(op, a, b) ==
    IF op = "add" /\ Small(a) # Refused
    THEN Shifted(b, Small(a))
    ELSE calc2(op, a, get_code_address(b))

CodeAndCode(op, a, b) ==
    CASE b.enum /\ ~a.enum -> CodeAndNumber(op, a, b)
      [] a.enum /\ ~b.enum -> NumberAndCode(op, a, b)
      [] op = "sub" -> Number((code_address(a) % all_mem) - (code_address(b) % all_mem))
      [] OTHER -> calc2(op, get_code_address(a), get_code_address(b))

AddressAndAddress(op, a, b) ==
    CASE op = "mul" \/ check_addr(a.modes) \/ check_addr(b.modes) -> Wrong(a)
      [] op = "add" -> Around(calc2(op, a.val, b.val), a.modes \o b.modes)
      [] op = "sub" -> IF Without(a.modes, b.modes) = Missing THEN Wrong(a)
                       ELSE Around(calc2(op, a.val, b.val), Without(a.modes, b.modes))

AddressAndNumber(op, a, b) ==
    CASE op = "mul" /\ a.modes = <<>> -> calc2(op, a.val, b)
      [] (op \in {"add", "sub"} /\ check_addr(a.modes)) \/ (op = "mul" /\ check_addr2(a.modes)) -> Wrong(a)
      [] OTHER -> AddressOf(calc2(op, a.val, b), a.modes)

(* Mutant: an address may be subtracted from a number.                     *)
NumberAndAddressAny(op, a, b) ==
    CASE (op \in {"add", "sub"} /\ check_addr(b.modes)) \/ (op = "mul" /\ check_addr2(b.modes)) -> Wrong(b)
      [] OTHER -> AddressOf(calc2(op, a, b.val), b.modes)

NumberAndAddress(op, a, b) ==
    CASE op = "sub" -> IF b.modes = <<>> THEN calc2(op, a, b.val) ELSE Wrong(b)
      [] (op = "add" /\ check_addr(b.modes)) \/ (op = "mul" /\ check_addr2(b.modes)) -> Wrong(b)
      [] OTHER -> AddressOf(calc2(op, a, b.val), b.modes)

AddressAndRegister(op, a, b) ==
    LET m == register_to_indexing(b)
    IN CASE m = "none" \/ op = "mul" -> Wrong(a)
         [] op = "add" -> AddressOf(a.val, Append(a.modes, m))
         [] op = "sub" -> IF Unindexed(a.modes, m) = Missing THEN Wrong(a)
                          ELSE Around(a.val, Unindexed(a.modes, m))

RegisterFirst(op, a, b) ==
    LET m == register_to_indexing(a)
    IN CASE b.kind = "register" -> Error
         [] b.kind = "address" /\ op = "add" /\ m # "none" -> AddressOf(b.val, Append(b.modes, m))
         [] b.kind = "address" /\ op = "sub" /\ b.modes = <<m>> -> calc2(op, Number(0), b.val)
         [] b.kind \in {"int", "code"} /\ op = "add" /\ m # "none" -> AddressOf(b, <<m>>)
         [] b.kind \in {"int", "code"} /\ op = "sub" /\ m # "none" -> AddressOf(calc2(op, Number(0), b), <<m>>)
         [] OTHER -> Wrong(b)

calc2(op, a, b) ==
    CASE Lost(a) -> a
      [] Lost(b) /\ ~Lost(a) -> b
      [] a.kind = "int" /\ b.kind = "int" -> calc2_int(op, a.n, b.n)
      [] a.kind = "int" /\ b.kind = "code" -> NumberAndCode(op, a, b)
      [] a.kind = "int" /\ b.kind = "address" -> NumberAndAddress(op, a, b)
      [] a.kind = "int" /\ b.kind = "register" ->
            Unless(op # "add" \/ register_to_indexing(b) = "none", AddressOf(a, <<register_to_indexing(b)>>))
      [] a.kind = "code" /\ b.kind = "int" -> CodeAndNumber(op, a, b)
      [] a.kind = "code" /\ b.kind = "code" -> CodeAndCode(op, a, b)
      [] a.kind = "code" /\ b.kind \in {"address", "register"} -> calc2(op, code_to_address(a), b)
      [] a.kind = "address" /\ b.kind = "int" -> AddressAndNumber(op, a, b)
      [] a.kind = "address" /\ b.kind = "code" -> calc2(op, a, code_to_address(b))
      [] a.kind = "address" /\ b.kind = "address" -> AddressAndAddress(op, a, b)
      [] a.kind = "address" /\ b.kind = "register" -> AddressAndRegister(op, a, b)
      [] a.kind = "register" /\ ~Lost(b) -> RegisterFirst(op, a, b)

(* One operand: the low byte, of as many values.                           *)
RECURSIVE Lower(_, _)
Lower(v, byte) ==
    CASE v.kind = "int" -> Number(v.n % byte)
      [] v.kind = "code" -> Lower(get_code_address(v), byte)
      [] v.kind = "address" /\ ~check_addr2(v.modes) -> Around(Lower(v.val, byte), v.modes)
      [] v.kind = "address" /\ check_addr2(v.modes) -> Wrong(v)
      [] v.kind = "register" -> Error
      [] OTHER -> v
=============================================================================
