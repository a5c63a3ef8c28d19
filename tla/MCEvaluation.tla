---------------------------- MODULE MCEvaluation ----------------------------
(***************************************************************************)
(* The evaluation of an expression: how its text is read (Tasm) and what   *)
(* the operators compute (Values).  A behaviour is about one of the two.   *)
(***************************************************************************)
EXTENDS MCValues

CONSTANTS Alphabets, TasmAlphabets, MaxLength, Stops           \* of Tasm

VARIABLES stop, alphabet, text, next, phase, opr, out, symbollist, result, compat
reading == <<stop, alphabet, text, next, phase, opr, out, symbollist, result, compat>>
Texts == INSTANCE Tasm

-----------------------------------------------------------------------------
(* Every text of a few small alphabets, each of which brings together the   *)
(* operators that meet in one rule of the parser.                           *)
MCAlphabets == {
    {"a", "+", "*", "**", "-", "<", "(", ")"},        \* priorities, signs, the star
    {"a", "?", "??", ":", ",", "==", "(", ")"},       \* conditions and slices
    {"a", "[", "]", "{", "}", ":", ",", "*"},         \* lists and splats
    {"a", ".", ".a", ".(", "(", ")", "[", "]", "+"},  \* members and calls
    {"a", "#", "(", ")", "[", "]", ",x", ",", "?"},   \* addressing
    {"a", "&&", "||", "in", "!", ">>", "x"},          \* looser than arithmetic
    {"a", "..", "x", "~", "|", "&", "<?", "^"},       \* tighter than arithmetic
    {"a", "=", "+=", ",", "?", ":", "#+"}             \* what ends an expression
}

MCTasm == {
    {"a", "1", "+", "*", "(", ")", "<", ",", ",a"},
    {"a", ":", "(", ")", "#", ">", ",x", ",", ",a"}
}

(* stop is about commas, equal signs and brackets.                          *)
MCStops == [a \in MCAlphabets \cup MCTasm |->
              (IF {",", "="} \cap a # {} THEN {0, 1, 4, 5} ELSE {0}) \cup (IF "(" \in a THEN {4} ELSE {})]

-----------------------------------------------------------------------------
(* What a behaviour is not about stays as it is.                            *)
NoText == /\ stop = 0 /\ alphabet = {} /\ text = <<>> /\ next = "end" /\ phase = "none"
          /\ opr = <<>> /\ out = <<>> /\ symbollist = 0 /\ result = <<>> /\ compat = <<>>
NoValue == v = Error /\ x = [type |-> "error"] /\ steps = 0
AllInit == (Init /\ NoText) \/ (Texts!AllInit /\ NoValue)
AllNext ==
  \/ phase = "none" /\ Next /\ UNCHANGED reading
  \/ phase = "none" /\ (v = Error \/ steps = MaxSteps) /\ UNCHANGED <<vars, reading>>
  \/ phase # "none" /\ Texts!AllNext /\ UNCHANGED vars
AllSpec == AllInit /\ [][AllNext]_<<vars, reading>>

-----------------------------------------------------------------------------
(* The properties of the modules, each of the behaviours it is about.      *)

(* Nothing that was read is lost, used twice or moved (get_exp2, get_val2). *)
Complete == phase # "none" => Texts!Complete
(* Operators take what binds tighter on both sides (get_exp2).              *)
Precedence == phase # "none" => Texts!Precedence
(* From left to right, with what is in front of an element (get_exp_compat). *)
TasmReading == phase # "none" => Texts!TasmReading
=============================================================================
