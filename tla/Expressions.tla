---------------------------- MODULE Expressions ----------------------------
(* The expression parser and the order of evaluation of 64tass: get_exp2    *)
(* turns the text of an operand into a postfix list with an operator stack, *)
(* one token a step, and get_val2 runs the list on a stack of values        *)
(* (src/eval.c).  Values are abstracted to the tree of operations that       *)
(* makes them: a node [op, at, kids] stands for the result of calc1, calc2,  *)
(* slice, contains and the like, and `at` is the place of the token in the   *)
(* text.  Tokens are chosen as the parser reads them; two of them written    *)
(* with a blank between them never merge, so every choice is some text.      *)
EXTENDS Integers, Sequences, SequencesExt, FiniteSetsExt, TLC

CONSTANTS
    Alphabets,    \* sets of tokens: a text is written with one of them
    MaxLength,    \* longest text, in pieces
    Stops,        \* the values of get_exp's parameter `stop` tried with each
    Careful       \* TRUE keeps to the texts whose operators bind as they should

VARIABLES
    stop,         \* what ends the expression: 1 and 5 a comma, 5 an equal sign
    alphabet,     \* the tokens of this text
    text,         \* pieces read so far
    next,         \* the token under the cursor, "end" after the last
    phase,        \* "operand", "operator", "done" or "error"
    opr,          \* stack of pending operators [op, at]
    out,          \* postfix list [op, at]
    symbollist,   \* depth of the brackets whose labels are member names
    result        \* [stack, syntaxe, told]: what get_val2 leaves

vars == <<stop, alphabet, text, next, phase, opr, out, symbollist, result>>

-----------------------------------------------------------------------------
(* The table of operators. *)
prio ==
    [o \in {"FUNC", "INDEX", "BRACE", "BRACKET", "PARENT"} |-> 0]
    @@ [o \in {"COMMA"} |-> 1]
    @@ [o \in {"ADD_ASSIGN", "QUEST", "DQUEST", "COLON"} |-> 2]
    @@ [o \in {"COND", "DCOND", "COLON2", "HASH", "HASH_SIGNED"} |-> 3]
    @@ [o \in {"WORD", "LOWER", "HIGHER", "BANK", "STRING"} |-> 4]
    @@ [o \in {"LOR"} |-> 5] @@ [o \in {"LXOR"} |-> 6] @@ [o \in {"LAND"} |-> 7]
    @@ [o \in {"IDENTITY", "IN", "EQ", "LT", "GT"} |-> 8]
    @@ [o \in {"MIN", "MAX"} |-> 9] @@ [o \in {"OR"} |-> 10]
    @@ [o \in {"XOR"} |-> 11] @@ [o \in {"AND"} |-> 12]
    @@ [o \in {"LSHIFT", "RSHIFT"} |-> 13] @@ [o \in {"ADD", "SUB"} |-> 14]
    @@ [o \in {"MUL", "DIV", "MOD"} |-> 15] @@ [o \in {"EXP"} |-> 16]
    @@ [o \in {"NEG", "POS", "INV", "LNOT"} |-> 17] @@ [o \in {"SPLAT"} |-> 18]
    @@ [o \in {"CONCAT"} |-> 19] @@ [o \in {"X"} |-> 20]
    @@ [o \in {"COMMAX", "COMMAY"} |-> 21] @@ [o \in {"MEMBER"} |-> 22]

(* What a token is where an operator is expected, and what is left of it.   *)
Infix ==
    "+" :> <<"ADD", "">> @@ "-" :> <<"SUB", "">> @@ "*" :> <<"MUL", "">>
    @@ "/" :> <<"DIV", "">> @@ "%" :> <<"MOD", "">> @@ "**" :> <<"EXP", "">>
    @@ "<<" :> <<"LSHIFT", "">> @@ ">>" :> <<"RSHIFT", "">>
    @@ "&" :> <<"AND", "">> @@ "|" :> <<"OR", "">> @@ "^" :> <<"XOR", "">>
    @@ "&&" :> <<"LAND", "">> @@ "||" :> <<"LOR", "">> @@ "^^" :> <<"LXOR", "">>
    @@ "<" :> <<"LT", "">> @@ ">" :> <<"GT", "">> @@ "==" :> <<"EQ", "">>
    @@ "===" :> <<"IDENTITY", "">> @@ "in" :> <<"IN", "">>
    @@ "<?" :> <<"MIN", "">> @@ ">?" :> <<"MAX", "">>
    @@ ".." :> <<"CONCAT", "">> @@ "x" :> <<"X", "">> @@ "." :> <<"MEMBER", "">>
    @@ ".a" :> <<"MEMBER", "a">> @@ ".(" :> <<"MEMBER", "(">>
    @@ ".[" :> <<"MEMBER", "[">> @@ "+=" :> <<"ADD_ASSIGN", "">>

(* What a token is where an operand is expected. *)
Prefix ==
    "+" :> <<"POS", "">> @@ "-" :> <<"NEG", "">> @@ "*" :> <<"SPLAT", "">>
    @@ "**" :> <<"SPLAT", "*">> @@ "!" :> <<"LNOT", "">> @@ "~" :> <<"INV", "">>
    @@ "<" :> <<"LOWER", "">> @@ "<<" :> <<"LOWER", "<">>
    @@ "<>" :> <<"WORD", "">> @@ ">" :> <<"HIGHER", "">>
    @@ ">>" :> <<"HIGHER", ">">> @@ "<?" :> <<"LOWER", "?">>
    @@ ">?" :> <<"HIGHER", "?">> @@ "bank" :> <<"BANK", "">>
    @@ "^" :> <<"STRING", "">> @@ "^^" :> <<"STRING", "^">>
    @@ "#" :> <<"HASH", "">> @@ "#+" :> <<"HASH_SIGNED", "+">>
    @@ "+=" :> <<"POS", "=">>

Opener == "(" :> "PARENT" @@ "[" :> "BRACKET" @@ "{" :> "BRACE"
After  == "(" :> "FUNC" @@ "[" :> "INDEX"
Closes == ")" :> {"PARENT", "FUNC"} @@ "]" :> {"BRACKET", "INDEX"} @@ "}" :> {"BRACE"}
Closed == ")" :> "RPARENT" @@ "]" :> "RBRACKET" @@ "}" :> "RBRACE"
Listed == ")" :> "TUPLE" @@ "]" :> "LIST" @@ "}" :> "DICT"
Openers == {"PARENT", "BRACKET", "BRACE", "FUNC", "INDEX"}
Register == ",x" :> "COMMAX" @@ ",y" :> "COMMAY"
Leaves == {"VALUE", "SYMBOL", "DEFAULT", "GAP", "STAR", "STARSYMBOL", "ANON", "ANONSYMBOL"}

-----------------------------------------------------------------------------
(* Reading. *)
Here == Len(text) + 1
Top == IF opr = <<>> THEN "NONE" ELSE Last(opr).op
Under == IF Len(opr) < 2 THEN "NONE" ELSE opr[Len(opr) - 1].op
Naming(o) == o = "MEMBER" \/ symbollist # 0     \* labels are names, not values

(* The cursor moves past one piece; the next token is any, or what is left  *)
(* of this one.                                                              *)
Read(piece, rest) ==
    /\ text' = Append(text, piece)
    /\ next' \in IF rest # "" THEN {rest}
                 ELSE {"end"} \cup (IF Len(text) + 1 < MaxLength THEN alphabet ELSE {})

(* How many operators of at least priority p, none of them in `keep`, are   *)
(* on top.                                                                   *)
(* Mutant: what binds as tight stays pending. *)
PoppedTighter(p, keep) ==
    Max({0} \cup {k \in 1 .. Len(opr) :
        \A j \in Len(opr) - k + 1 .. Len(opr) : prio[opr[j].op] > p /\ opr[j].op \notin keep})
Popped(p, keep) ==
    Max({0} \cup {k \in 1 .. Len(opr) :
        \A j \in Len(opr) - k + 1 .. Len(opr) : prio[opr[j].op] >= p /\ opr[j].op \notin keep})
Flushed(k) == out \o Reverse(SubSeq(opr, Len(opr) - k + 1, Len(opr)))
Rest(k) == SubSeq(opr, 1, Len(opr) - k)
Pending(op, at) == <<[op |-> op, at |-> at]>>

Operand(op, at) ==
    /\ out' = Append(out, [op |-> op, at |-> at])
    /\ phase' = "operator"

(* The operators on top give way to priority p and op is left pending. *)
Push(op, p, keep) ==
    LET k == Popped(p, keep)
    IN  /\ out' = Flushed(k)
        /\ opr' = Rest(k) \o Pending(op, Here)
        /\ phase' = "operand"

Fail == /\ phase' = "error"
        /\ UNCHANGED <<text, next, opr, out, symbollist, result>>

-----------------------------------------------------------------------------
(* Where an operand is expected. *)
Label ==
    /\ next \in {"a", "x", "in"}
    /\ Operand(IF Naming(Top) THEN "SYMBOL" ELSE "VALUE", Here)
    /\ Read(next, "")
    /\ UNCHANGED <<opr, symbollist>>

DotLabel ==                                      \* .a is always a name
    /\ next = ".a"
    /\ Operand("SYMBOL", Here)
    /\ Read(".a", "")
    /\ UNCHANGED <<opr, symbollist>>

Gap ==
    /\ next \in {"?", "??"} /\ Top \notin {"SPLAT", "POS", "NEG"}
    /\ Operand("GAP", Here)
    /\ Read("?", IF next = "??" THEN "?" ELSE "")
    /\ UNCHANGED <<opr, symbollist>>

DefaultFirst ==                                  \* an opcode's left out operand
    /\ next = "," /\ stop = 4 /\ opr = <<>>
    /\ out' = Append(out, [op |-> "DEFAULT", at |-> Here])
    /\ Read(",", "")
    /\ UNCHANGED <<phase, opr, symbollist>>

Opening == {"(", "[", "{", ".(", ".["}

Open ==
    /\ next \in Opening
    /\ LET b == CASE next = ".(" -> "(" [] next = ".[" -> "[" [] OTHER -> next IN
        /\ opr' = opr \o Pending(Opener[b], Here)
        /\ out' = Append(out, [op |-> Opener[b], at |-> Here])
        /\ symbollist' = IF b # "{" /\ (next # b \/ Naming(Top)) THEN symbollist + 1
                         ELSE symbollist
    /\ Read(next, "")
    /\ UNCHANGED phase

Unary ==
    /\ next \in DOMAIN Prefix /\ Top # "SPLAT"
    /\ opr' = opr \o Pending(Prefix[next][1], Here)
    /\ Read(next, Prefix[next][2])
    /\ UNCHANGED <<phase, out, symbollist>>

(* `*` with no operand is the program counter.  The operator after it is    *)
(* read again where an operator is expected.                                 *)
StarOp ==
    /\ next \in DOMAIN Prefix /\ Top = "SPLAT"
    /\ Operand(IF Naming(Under) THEN "STARSYMBOL" ELSE "STAR", Last(opr).at)
    /\ opr' = Front(opr)
    /\ UNCHANGED <<text, next, symbollist>>

(* Closing an empty bracket, or one after a trailing comma. *)
Closer == next \in DOMAIN Closes /\ opr # <<>>
Empty == /\ Closer /\ Top \in Closes[next]
         /\ phase' = "operator"
         /\ UNCHANGED <<text, next, opr, out, symbollist>>
Trailing == Closer /\ Top = "COMMA"

DefaultBefore ==
    /\ next = ":" /\ (opr = <<>> \/ Top \in Openers \cup {"COMMA"})
    /\ Operand("DEFAULT", Here)
    /\ UNCHANGED <<text, next, opr, symbollist>>

(* tryanon: no operand starts here.  Signs are an anonymous label, `*` the  *)
(* program counter, and a colon may go without its right side.               *)
NoOperand ==
    \/ next \in {"end", ".", "..", "/", "%", "&", "|", "&&", "||", "=", "==", "==="}
    \/ next = "," /\ ~(stop = 4 /\ opr = <<>>)
    \/ next \in {"?", "??"} /\ Top \in {"SPLAT", "POS", "NEG"}
    \/ next = ":" /\ opr # <<>> /\ Top \notin Openers \cup {"COMMA"}
    \/ next \in DOMAIN Closes /\ ~(Closer /\ Top \in Closes[next]) /\ ~Trailing
    \/ next \in {",x", ",y"}

Signs(op) == Max({0} \cup {k \in 1 .. Len(opr) :
                  \A j \in Len(opr) - k + 1 .. Len(opr) : opr[j].op = op})

Anonymous ==
    /\ NoOperand /\ Top \in {"POS", "NEG"}
    /\ LET k == Signs(Top)
           below == IF k = Len(opr) THEN "NONE" ELSE opr[Len(opr) - k].op IN
        /\ Operand(IF Naming(below) THEN "ANONSYMBOL" ELSE "ANON", opr[Len(opr) - k + 1].at)
        /\ opr' = Rest(k)
    /\ UNCHANGED <<text, next, symbollist>>

DefaultAfter ==
    /\ NoOperand /\ Top = "COLON"
    /\ Operand("DEFAULT", Here)
    /\ UNCHANGED <<text, next, opr, symbollist>>

StarAlone ==
    /\ NoOperand /\ Top = "SPLAT"
    /\ Operand(IF Naming(Under) THEN "STARSYMBOL" ELSE "STAR", Last(opr).at)
    /\ opr' = Front(opr)
    /\ UNCHANGED <<text, next, symbollist>>

NothingAtAll ==
    /\ text = <<>> /\ next = "end" /\ phase' = "done"
    /\ UNCHANGED <<text, next, opr, out, symbollist>>

NotOperand ==
    /\ NoOperand /\ Top \notin {"POS", "NEG", "COLON", "SPLAT"}
    /\ text # <<>> \/ next # "end"
    /\ Fail

ExpectOperand ==
    /\ phase = "operand"
    /\ \/ /\ UNCHANGED result
          /\ \/ Label \/ DotLabel \/ Gap \/ DefaultFirst \/ Open \/ Unary \/ StarOp \/ Empty
             \/ DefaultBefore \/ Anonymous \/ DefaultAfter \/ StarAlone \/ NothingAtAll
       \/ NotOperand
    /\ UNCHANGED <<stop, alphabet>>

-----------------------------------------------------------------------------
(* Where an operator is expected. *)
Binary ==
    /\ next \in DOMAIN Infix /\ Infix[next][1] # "EXP"
    /\ Push(Infix[next][1], prio[Infix[next][1]], {})
    /\ Read(IF Infix[next][2] # "" THEN "." ELSE next, Infix[next][2])
    /\ UNCHANGED <<symbollist, result>>

(* `**` groups to the right: nothing gives way to it, whatever its priority. *)
Power ==
    /\ next = "**"
    /\ opr' = opr \o Pending("EXP", Here)
    /\ phase' = "operand"
    /\ Read(next, "")
    /\ UNCHANGED <<out, symbollist, result>>

Question ==
    /\ next \in {"?", "??"}
    /\ Push(IF next = "?" THEN "QUEST" ELSE "DQUEST", prio["COND"] + 1, {})
    /\ Read(next, "")
    /\ UNCHANGED <<symbollist, result>>

(* A colon completes the innermost question, or builds a slice. *)
Colon ==
    /\ next = ":"
    /\ LET k == Popped(prio["COLON"] + 1, {})
           kept == Rest(k)
           asked == IF kept = <<>> THEN "NONE" ELSE Last(kept).op IN
        /\ out' = Flushed(k)
        /\ opr' = CASE asked = "QUEST" -> [kept EXCEPT ![Len(kept)].op = "COND"] \o Pending("COLON2", Here)
                    [] asked = "DQUEST" -> [kept EXCEPT ![Len(kept)].op = "DCOND"] \o Pending("COLON2", Here)
                    [] OTHER -> kept \o Pending("COLON", Here)
    /\ phase' = "operand"
    /\ Read(":", "")
    /\ UNCHANGED <<symbollist, result>>

(* A register index ends the operand it follows, not a whole condition. *)
Indexed ==
    /\ next \in DOMAIN Register
    /\ LET k == Popped(prio["HASH"], {"COLON2", "COND", "DCOND"}) IN
        /\ out' = Flushed(k)
        /\ opr' = Rest(k) \o Pending(Register[next], Here)
    /\ Read(next, "")
    /\ UNCHANGED <<phase, symbollist, result>>

AtTop(p) == Popped(p, {}) = Len(opr)             \* nothing would be left pending

Comma ==
    /\ next = "," /\ ~(stop \in {1, 5} /\ AtTop(prio["COMMA"]))
    /\ LET k == Popped(prio["COMMA"], {}) IN
        /\ out' = Flushed(k) \o Pending("COMMA", Here)
        /\ opr' = Rest(k) \o Pending("COMMA", Here)
    /\ phase' = "operand"
    /\ Read(",", "")
    /\ UNCHANGED <<symbollist, result>>

Equal ==
    /\ next = "=" /\ ~(stop = 5 /\ AtTop(prio["EQ"]))
    /\ Push("EQ", prio["EQ"], {})
    /\ Read("=", "")
    /\ UNCHANGED <<symbollist, result>>

(* A call or an index applies to the names and members before it. *)
Apply ==
    /\ next \in DOMAIN After
    /\ LET k == Popped(prio["MEMBER"], {}) IN
        /\ out' = Flushed(k) \o Pending(Opener[next], Here)
        /\ opr' = Rest(k) \o Pending(After[next], Here)
    /\ symbollist' = IF symbollist # 0 THEN symbollist + 1 ELSE 0
    /\ phase' = "operand"
    /\ Read(next, "")
    /\ UNCHANGED result

Unnested == IF next # "}" /\ symbollist # 0 THEN symbollist - 1 ELSE symbollist

(* A closing bracket takes everything down to its opening one. *)
Close(stack, plain) ==
    LET open == {k \in 1 .. Len(stack) : stack[k].op \in Openers}
        k == Max({0} \cup open)
    IN  IF k = 0 \/ stack[k].op \notin Closes[next]
        THEN Fail
        ELSE /\ out' = out \o Reverse(SubSeq(stack, k + 1, Len(stack)))
                    \o <<[op |-> IF stack[k].op \in {"FUNC", "INDEX"} THEN stack[k].op ELSE plain,
                          at |-> stack[k].at]>>
             /\ opr' = SubSeq(stack, 1, k - 1)
             /\ symbollist' = Unnested
             /\ phase' = "operator"
             /\ Read(next, "")
             /\ UNCHANGED result

Closing == next \in DOMAIN Closes /\ Close(opr, Closed[next])
TrailingComma == phase = "operand" /\ Trailing /\ Close(Front(opr), Listed[next])

NotOperator ==
    /\ next \notin DOMAIN Infix \cup DOMAIN Register \cup DOMAIN After \cup DOMAIN Closes
                  \cup {"?", "??", ":", ",", "=", "end"}
    /\ Fail
-----------------------------------------------------------------------------
(* get_val2: the postfix list from left to right on a stack of values. *)
Node(op, at, kids) == [op |-> op, at |-> at, kids |-> kids]
Iterable == {"TUPLE", "LIST", "DICT"}
Unaries == {"WORD", "LOWER", "HIGHER", "BANK", "STRING", "INV", "NEG", "POS", "LNOT",
            "COMMAX", "COMMAY", "HASH", "HASH_SIGNED"}
EndsList == {"RPARENT", "RBRACKET", "RBRACE", "FUNC", "INDEX", "COMMA"}

(* The values above the nearest marker m of an opening bracket. *)
Above(stack, m) == SubSeq(stack, m + 1, Len(stack))
(* Mutant: the outermost bracket of the kind is taken. *)
MarkerOuter(stack, op) ==
    LET at == {k \in 1 .. Len(stack) : stack[k].op = op} IN IF at = {} THEN 0 ELSE Min(at)
Marker(stack, op) == Max({0} \cup {k \in 1 .. Len(stack) : stack[k].op = op})
Made(s, keep, nodes) == [s EXCEPT !.stack = SubSeq(s.stack, 1, keep) \o nodes]
Syntax(s) == [s EXCEPT !.syntaxe = TRUE, !.stack = <<>>]

(* Brackets around all there is of an operand are indirection. *)
Indirect(i) ==
    /\ stop \in {3, 4}
    /\ out[i].op \in {"RPARENT", "RBRACKET"}
    /\ \/ i = Len(out)
       \/ out[i + 1].op \in EndsList \cup {"COMMAX", "COMMAY"}

Bracketed(s, i) ==
    LET op == out[i].op
        m == Marker(s.stack, CASE op \in {"RPARENT", "TUPLE", "FUNC"} -> "PARENT"
                               [] op \in {"RBRACKET", "LIST", "INDEX"} -> "BRACKET"
                               [] OTHER -> "BRACE")
        args == Above(s.stack, m)
        at == out[i].at
    IN  CASE m = 0 -> Syntax(s)
          [] op \in {"FUNC", "INDEX"} ->
                IF m = 1 THEN Syntax(s)
                ELSE Made(s, m - 2, <<Node(op, at, <<s.stack[m - 1]>> \o args)>>)
          [] op \in {"RBRACE", "DICT"} -> Made(s, m - 1, <<Node("DICT", at, args)>>)
          [] Len(args) = 1 /\ Indirect(i) -> Made(s, m - 1, <<Node("INDIRECT", at, args)>>)
          [] Len(args) = 1 /\ op = "RPARENT" -> Made(s, m - 1, args)
          [] OTHER -> Made(s, m - 1,
                <<Node(IF op \in {"RPARENT", "TUPLE"} THEN "TUPLE" ELSE "LIST", at, args)>>)

(* A run of colons makes one list of all they separate. *)
Colons(i) == Max({k \in 1 .. Len(out) - i + 1 :
                 \A j \in i .. i + k - 1 : out[j].op = "COLON"})

Splat(s, i) ==
    IF i < Len(out) /\ out[i + 1].op \notin EndsList
    THEN IF out[i + 1].op = "MEMBER" THEN s
         ELSE [Made(s, Len(s.stack) - 1, <<Node("LOST", out[i].at, <<>>)>>) EXCEPT !.told = TRUE]
    ELSE IF Last(s.stack).op \in Iterable THEN Made(s, Len(s.stack) - 1, Last(s.stack).kids)
    ELSE s

Apart(s, n, op, at) ==                           \* the top n values become one
    IF Len(s.stack) < n THEN Syntax(s)
    ELSE Made(s, Len(s.stack) - n, <<Node(op, at, Above(s.stack, Len(s.stack) - n))>>)

Evaluated(s, i) ==
    LET op == out[i].op
        at == out[i].at
    IN  CASE s.syntaxe -> s
          [] s.skip > 0 -> [s EXCEPT !.skip = s.skip - 1]
          [] op \in Leaves \cup {"PARENT", "BRACKET", "BRACE"} ->
                Made(s, Len(s.stack), <<Node(op, at, <<>>)>>)
          [] op \in {"COMMA", "COLON2"} -> s
          [] op \in {"FUNC", "INDEX", "RPARENT", "RBRACKET", "RBRACE", "TUPLE", "LIST", "DICT"} ->
                Bracketed(s, i)
          [] op \in {"COND", "DCOND"} -> Apart(s, 3, op, at)
          [] op \in {"QUEST", "DQUEST"} -> [Apart(s, 2, "LOST", at) EXCEPT !.told = TRUE]
          [] op = "COLON" ->
                [Apart(s, Colons(i) + 1, op, at) EXCEPT !.skip = Colons(i) - 1]
          [] op \in Unaries -> Apart(s, 1, op, at)
          [] op = "SPLAT" -> IF s.stack = <<>> THEN Syntax(s) ELSE Splat(s, i)
          [] OTHER -> Apart(s, 2, op, at)

Nothing == [stack |-> <<>>, skip |-> 0, syntaxe |-> FALSE, told |-> FALSE]
get_val2 == FoldLeft(Evaluated, Nothing, [i \in 1 .. Len(out) |-> i])

(* The end of the text, or the comma or equal sign the caller wants. *)
AtEnd ==
    \/ next = "end"
    \/ next = "," /\ stop \in {1, 5} /\ AtTop(prio["COMMA"])
    \/ next = "=" /\ stop = 5 /\ AtTop(prio["EQ"])

Finish ==                                        \* everything pending is due
    /\ AtEnd
    /\ \A k \in 1 .. Len(opr) : opr[k].op \notin Openers
    /\ out' = Flushed(Len(opr))
    /\ opr' = <<>>
    /\ phase' = "evaluate"
    /\ UNCHANGED <<text, next, symbollist, result>>

Unclosed ==
    /\ AtEnd
    /\ \E k \in 1 .. Len(opr) : opr[k].op \in Openers
    /\ Fail

(* Operators that do not make the ones above them give way to what comes:   *)
(* a power after a member, repetition or register index, and what is applied *)
(* to a register index.                                                      *)
Binds ==
    /\ next = "**" => Top \in {"NONE"} \cup {o \in DOMAIN prio : prio[o] <= prio["NEG"]}
    /\ next \in DOMAIN After \cup {".", ".a", ".(", ".["} => Top \notin {"COMMAX", "COMMAY"}

ExpectOperator ==
    /\ phase = "operator"
    /\ \/ Careful /\ ~Binds /\ Fail            \* not looked at any further
       \/ /\ Careful => Binds
          /\ \/ Binary \/ Power \/ Question \/ Colon \/ Indexed \/ Comma \/ Equal
             \/ Apply \/ Closing \/ NotOperator \/ Finish \/ Unclosed
    /\ UNCHANGED <<stop, alphabet>>

TakeTrailing == TrailingComma /\ UNCHANGED <<stop, alphabet>>

Evaluate ==
    /\ phase = "evaluate"
    /\ result' = get_val2
    /\ phase' = "done"
    /\ UNCHANGED <<stop, alphabet, text, next, opr, out, symbollist>>

Init ==
    /\ alphabet \in Alphabets /\ stop \in Stops[alphabet]
    /\ text = <<>> /\ next \in alphabet \cup {"end"} /\ phase = "operand"
    /\ opr = <<>> /\ out = <<>> /\ symbollist = 0 /\ result = Nothing

Over == phase \in {"done", "error"} /\ UNCHANGED vars

Next == ExpectOperand \/ ExpectOperator \/ TakeTrailing \/ Evaluate \/ Over

Spec == Init /\ [][Next]_vars

-----------------------------------------------------------------------------
(* How a text should be read. *)
Good == phase = "done" /\ alphabet \in Alphabets /\ ~result.syntaxe /\ ~result.told

Opens(piece) == piece \in {"(", "[", "{", ".(", ".["}
Depth(p) == Cardinality({q \in 1 .. p - 1 : Opens(text[q])})
            - Cardinality({q \in 1 .. p : q <= Len(text) /\ text[q] \in DOMAIN Closes})
Ends(p) == Min({q \in p + 1 .. Len(text) : Depth(q) = Depth(p)})   \* p's closing bracket
Encloses(q, p) == Opens(text[q]) /\ q < p /\ p <= Ends(q)

RECURSIVE Reads(_), Nodes(_)
Reads(tree) == IF tree.op \in Leaves THEN <<tree.at>>
               ELSE FlattenSeq([k \in 1 .. Len(tree.kids) |-> Reads(tree.kids[k])])
Nodes(tree) == {tree} \cup UNION {Nodes(tree.kids[k]) : k \in 1 .. Len(tree.kids)}
All == UNION {Nodes(result.stack[k]) : k \in 1 .. Len(result.stack)}

InOrder ==                                       \* every operand, where it was
    FlattenSeq([k \in 1 .. Len(result.stack) |-> Reads(result.stack[k])])
        = [k \in 1 .. Len(SelectSeq(out, LAMBDA e : e.op \in Leaves)) |->
             SelectSeq(out, LAMBDA e : e.op \in Leaves)[k].at]

(* Operators that leave an operand unfinished on their right or their left. *)
Heads == {"HASH", "HASH_SIGNED", "WORD", "LOWER", "HIGHER", "BANK", "STRING",
             "INV", "NEG", "POS", "LNOT"}
OpenLeft == (DOMAIN prio \ (Openers \cup Heads \cup {"SPLAT", "COMMA"})) \cup {"FUNC", "INDEX"}
OpenRight == (DOMAIN prio \ (Openers \cup {"COMMAX", "COMMAY", "SPLAT", "COMMA"}))
Pulls(op) == CASE op \in {"COMMAX", "COMMAY"} -> 3      \* on what is to its left
               [] op \in {"COND", "DCOND"} -> 4
               [] op \in {"FUNC", "INDEX"} -> 22
               [] op = "COLON" -> 3
               [] OTHER -> prio[op]

RECURSIVE LeftSpine(_, _), RightSpine(_, _)
LeftSpine(tree, d) ==
    IF tree.op \notin OpenLeft \/ Depth(tree.at) # d THEN {}
    ELSE {tree} \cup LeftSpine(tree.kids[1], d)
RightSpine(tree, d) ==
    IF tree.op \notin OpenRight \/ Depth(tree.at) # d THEN {}
    ELSE {tree} \cup RightSpine(Last(tree.kids), d)

-----------------------------------------------------------------------------

(* Nothing that was read is lost, used twice or moved: a text that is        *)
(* accepted never runs the stack of values dry, the results hold every       *)
(* operand in the order of the text, and a list, a call or an index holds    *)
(* exactly what its brackets enclose.                                        *)
Complete ==
    /\ ~result.syntaxe
    /\ Good =>
        /\ InOrder
        /\ \A t \in All :
              t.op \in Iterable \cup {"FUNC", "INDEX", "INDIRECT"} =>
                LET held == IF t.op \in {"FUNC", "INDEX"} THEN Tail(t.kids) ELSE t.kids
                IN  ToSet(FlattenSeq([k \in 1 .. Len(held) |-> Reads(held[k])]))
                      = {out[k].at : k \in {j \in 1 .. Len(out) :
                            out[j].op \in Leaves /\ Encloses(t.at, out[j].at)}}

(* An operator takes what binds tighter than itself on both sides: no        *)
(* operator that is left open within its left operand binds looser, none     *)
(* within its right one binds looser or as tight, and only powers group to   *)
(* the right.                                                                *)
Precedence ==
    Good => \A t \in All :
        /\ t.op \in OpenLeft =>
              \A u \in RightSpine(t.kids[1], Depth(t.at)) :
                  /\ prio[u.op] >= Pulls(t.op)
                  /\ t.op # "EXP"
                  /\ ~(t.op \in {"COMMAX", "COMMAY"} /\ u.op \in {"COND", "DCOND"})
        /\ t.op \in OpenRight =>
              \A u \in LeftSpine(Last(t.kids), Depth(t.at)) :
                  \/ Pulls(u.op) > prio[t.op]
                  \/ u.op = "EXP"
                  \/ u.op \in {"COMMAX", "COMMAY"} /\ t.op \in {"COND", "DCOND"}

=============================================================================
