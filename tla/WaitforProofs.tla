--------------------------- MODULE WaitforProofs ---------------------------
EXTENDS Waitfor, TLAPS

(***************************************************************************)
(* The blocks of a source give back what they took, and the byte skip is   *)
(* exact, for any alphabets, sections and depths.                          *)
(*                                                                         *)
(* The invariant Inv says of each open frame what environment its block    *)
(* ends in, and that closing it gives the environment of the frame below   *)
(* (FrameOK), and of each activation of compile which frame is its base    *)
(* and what its caller gives back when it returns (CallOK).  The frames    *)
(* and activations together form one chain from the topmost environment    *)
(* down to NewEnv; a step adds a link at the end, takes one away or        *)
(* replaces the last one.  .break is the only step that changes links      *)
(* inside the chain.                                                       *)
(***************************************************************************)

(***************************************************************************)
(* Definitions with the stacks as parameters.                              *)
(***************************************************************************)
Includes == {"include", "binclude"}
Choosing == {"W_FI2", "W_SWITCH2"}
BaseWhats == {"W_NONE", "W_ENDMACRO2", "W_ENDSEGMENT2", "W_ENDF2", "W_ENDF3", "W_ENDS2",
              "W_ENDU2", "W_ENDS3", "W_ENDU3", "W_ENDREPT2"}
Whats == BaseWhats \cup DOMAIN ClosedBy
FrameType == [what : Whats, skip : 0 .. 2, breakout : BOOLEAN, saved : Env,
              on : BOOLEAN, taken : BOOLEAN, inner : Env]
CallType == [kind : Files \cup Loops, base : Nat, pushed : 0 .. 2,
             ret : {"none", "goto", "null", "value"}, saved : Env, what : Whats]
PlaceType == [depth : Nat, ctx : Nat, file : Nat]

\* The frame at the base of an activation, the scopes pushed for it and the
\* environment its lines begin in
BaseWhat(kind) ==
  CASE kind \in {"source", "include", "binclude"} -> "W_NONE"
    [] kind = "macrocall" -> "W_ENDMACRO2"
    [] kind = "segmentcall" -> "W_ENDSEGMENT2"
    [] kind = "funccall" -> "W_ENDF2"
    [] kind = "funcexpr" -> "W_ENDF3"
    [] kind = "named struct" -> "W_ENDS2"
    [] kind = "named union" -> "W_ENDU2"
    [] kind = "dstruct" -> "W_ENDS3"
    [] kind = "dunion" -> "W_ENDU3"
    [] kind \in Loops -> "W_ENDREPT2"
PushedBy(kind) ==
  IF kind \in {"funccall", "funcexpr"} THEN 2
  ELSE IF kind \in {"binclude", "macrocall", "named struct", "named union", "dunion", "brept"}
       THEN 1 ELSE 0
Entered(kind, n, e) ==
  CASE kind \in {"source", "include", "segmentcall", "rept"} -> e
    [] kind \in {"binclude", "macrocall", "brept"} -> PushContext(e)
    [] kind = "funccall" -> MemberOf(e)
    [] kind = "funcexpr" -> NewAddress(MemberOf(e), n, FALSE)
    [] kind = "named struct" -> PushContext(NewAddress(e, n, FALSE))
    [] kind = "named union" -> PushContext(NewAddress(e, n, TRUE))
    [] kind = "dstruct" -> UnionMode(e, FALSE)
    [] kind = "dunion" -> PushContext(UnionMode(e, TRUE))
EnteredBy(c) == Entered(c.kind, c.base, c.saved)

\* An environment in n frames: the addresses made for further ones are unused.
EnvGood(e, n) ==
  /\ e \in Env /\ e.bottom < e.ctx
  /\ \A j \in 1 .. MaxFrames : j > n => e.addr # <<"local", j>> /\ ~e.union[<<"local", j>>]

OnTo(fs, n) == \A j \in 1 .. n : fs[j].on
SkipOK(fs, i) ==
  /\ fs[i].skip = 1 <=> OnTo(fs, i)
  /\ fs[i].what \in Choosing =>
       /\ fs[i].skip = 2 <=> OnTo(fs, i - 1) /\ ~fs[i].taken
       /\ fs[i].on => fs[i].taken

\* A frame that is no base gives back the environment below when it is closed.
UnionLines == line \cap {"union", "struct"} # {}
Gives(f, below) ==
  /\ Closed(f, f.inner) = below
  /\ f.what \notin BaseWhats
  /\ f.what \in {"W_ENDU", "W_ENDS"} /\ f.skip = 1 => UnionLines
Hidden(f, c) == [f EXCEPT !.what = c.what, !.inner = c.saved]

HasBase(cs, i) == \E k \in DOMAIN cs : cs[k].base = i
CallOK(fs, cs, k) ==
  LET c == cs[k] IN
  /\ c.base \in 1 .. Len(fs) /\ c.pushed = PushedBy(c.kind) /\ c.kind \in line \cup {"source"}
  /\ EnvGood(c.saved, c.base)
  /\ c.kind \in Loops => OnTo(fs, c.base - 1)
  /\ k < Len(cs) => c.ret = "none"
  /\ IF k = 1 THEN c.kind = "source" /\ c.base = 1 /\ c.saved = NewEnv ELSE c.kind # "source"
  /\ \A j \in 1 .. k - 1 : cs[j].base <= c.base
  /\ (\A j \in k + 1 .. Len(cs) : cs[j].base > c.base) =>
       fs[c.base].what = BaseWhat(c.kind) /\ fs[c.base].inner = EnteredBy(c)
  /\ k > 1 /\ c.kind \notin Includes =>
       c.base > 1 /\ c.saved = fs[c.base - 1].inner /\ \A j \in 1 .. k - 1 : cs[j].base < c.base
  /\ c.kind \in Includes =>
       /\ fs[c.base].skip = 1
       /\ IF cs[k - 1].base = c.base
          THEN c.what = BaseWhat(cs[k - 1].kind) /\ c.saved = EnteredBy(cs[k - 1])
          ELSE /\ c.base > 1 /\ Gives(Hidden(fs[c.base], c), fs[c.base - 1].inner)
               /\ c.what \in Choosing => fs[c.base].taken

TypeOK ==
  /\ frames \in Seq(FrameType) /\ Depth \in 1 .. MaxFrames /\ calls \in Seq(CallType)
  /\ env \in Env /\ lbl \in PlaceType /\ line \in Alphabets

FrameOK(fs, cs, i) ==
  /\ EnvGood(fs[i].inner, i) /\ SkipOK(fs, i)
  /\ i > 1 /\ ~HasBase(cs, i) => Gives(fs[i], fs[i - 1].inner)
FramesOK == \A i \in 1 .. Depth : FrameOK(frames, calls, i)
CallsOK == \A k \in DOMAIN calls : CallOK(frames, calls, k)
EndsOK == calls = <<>> => Depth = 1 /\ env = NewEnv
GotoOK == calls # <<>> /\ Call.ret = "goto" => lbl.depth >= Call.base
Inv == TypeOK /\ FramesOK /\ CallsOK /\ EndsOK /\ GotoOK /\ env = Top.inner

(***************************************************************************)
(* What is given back.                                                     *)
(***************************************************************************)
LEMMA PopPush ==
  ASSUME NEW e \in Env, e.bottom < e.ctx
  PROVE  PopContext(PushContext(e)) = e
<1>. DEFINE p == PushContext(e)
<1>2. e.ctx \in Nat /\ e.bottom \in Nat /\ e.ctx + 1 \in Nat
  BY DEF Env
<1>5. p \in Env /\ p.ctx = e.ctx + 1 /\ p.bottom = e.bottom
  BY <1>2 DEF PushContext, Env
<1>6. [p EXCEPT !.ctx = e.ctx] = e
  BY <1>2 DEF PushContext, Env
<1>1. p \in Env /\ p.ctx = e.ctx + 1 /\ p.bottom = e.bottom /\ [p EXCEPT !.ctx = e.ctx] = e
  BY <1>5, <1>6
<1>. HIDE DEF p
<1>3. p.ctx > 1 + p.bottom /\ p.ctx - 1 = e.ctx
  BY <1>1, <1>2
<1>4. PopContext(p) = [p EXCEPT !.ctx = e.ctx]
  BY <1>3 DEF PopContext
<1>. QED BY <1>1, <1>4 DEF p

\* Union mode set for a block and set back.
LEMMA UnionBack ==
  ASSUME NEW e \in Env, NEW b \in BOOLEAN
  PROVE  UnionMode(UnionMode(e, b), e.union[e.addr]) = e
<1>1. [[e.union EXCEPT ![e.addr] = b] EXCEPT ![e.addr] = e.union[e.addr]] = e.union
  BY DEF Env
<1>. QED BY <1>1 DEF UnionMode, Env

\* The address made for a frame is one of the addresses.
LEMMA LocalAddress ==
  ASSUME NEW n \in 1 .. MaxFrames
  PROVE  <<"local", n>> \in Addresses
BY DEF Addresses

\* virtual_start and virtual_close: a new address, then the old one.
LEMMA AddressBack ==
  ASSUME NEW e \in Env, NEW n \in 1 .. MaxFrames, ~e.union[<<"local", n>>], NEW b \in BOOLEAN
  PROVE  OldAddress(NewAddress(e, n, b), e.addr) = e
<1>. DEFINE a == <<"local", n>>
<1>1. a \in Addresses
  BY LocalAddress
<1>. HIDE DEF a
<1>2. e.union[a] = FALSE
  BY <1>1 DEF a, Env
<1>3. [[e.union EXCEPT ![a] = b] EXCEPT ![a] = FALSE] = e.union
  BY <1>1, <1>2 DEF Env
<1>4. NewAddress(e, n, b) = [e EXCEPT !.addr = a, !.union[a] = b]
  BY DEF NewAddress, a
<1>. QED BY <1>1, <1>3, <1>4 DEF OldAddress, Env

\* What begins a block leaves an environment that is good: push_context,
LEMMA GoodPush ==
  ASSUME NEW n \in Nat, NEW e, EnvGood(e, n)
  PROVE  EnvGood(PushContext(e), n)
BY DEF EnvGood, PushContext, Env

\* ... member_of and the bottom that a function sets,
LEMMA GoodMember ==
  ASSUME NEW n \in Nat, NEW e, EnvGood(e, n)
  PROVE  EnvGood(MemberOf(e), n)
<1>0. e \in Env
  BY DEF EnvGood
<1>1. e.ctx \in Nat /\ e.bottom \in Nat /\ e.ctx + 2 \in Nat
  BY <1>0 DEF Env
<1>2. MemberOf(e) \in Env
  BY <1>0, <1>1 DEF MemberOf, Env
<1>3. MemberOf(e).bottom = e.ctx /\ MemberOf(e).ctx = e.ctx + 2
  BY <1>1 DEF EnvGood, MemberOf, Env
<1>4. MemberOf(e).addr = e.addr /\ MemberOf(e).union = e.union
  BY DEF EnvGood, MemberOf, Env
<1>5. e.ctx < e.ctx + 2
  BY <1>1
<1>. QED BY <1>2, <1>3, <1>4, <1>5 DEF EnvGood

\* ... union mode of an address in use,
LEMMA GoodUnion ==
  ASSUME NEW n \in Nat, NEW e, EnvGood(e, n), NEW b \in BOOLEAN
  PROVE  EnvGood(UnionMode(e, b), n)
BY DEF EnvGood, UnionMode, Env

\* ... a new address,
LEMMA GoodAddress ==
  ASSUME NEW n \in 1 .. MaxFrames, NEW e, EnvGood(e, n), NEW b \in BOOLEAN
  PROVE  EnvGood(NewAddress(e, n, b), n)
<1>1. <<"local", n>> \in Addresses
  BY LocalAddress
<1>. DEFINE m == NewAddress(e, n, b)
<1>2. e \in Env /\ e.bottom < e.ctx
  BY DEF EnvGood
<1>3. /\ m \in Env /\ m.bottom = e.bottom /\ m.ctx = e.ctx /\ m.addr = <<"local", n>>
      /\ m.union = [e.union EXCEPT ![<<"local", n>>] = b]
  BY <1>1, <1>2 DEF NewAddress, Env
<1>. HIDE DEF m
<1>4. ASSUME NEW j \in 1 .. MaxFrames, j > n PROVE m.addr # <<"local", j>> /\ ~m.union[<<"local", j>>]
  <2>1. <<"local", j>> # <<"local", n>>
    BY <1>4
  <2>2. <<"local", j>> \in Addresses /\ ~e.union[<<"local", j>>] /\ e.union \in [Addresses -> BOOLEAN]
    BY <1>2, <1>4, LocalAddress DEF EnvGood, Env
  <2>. QED BY <1>3, <2>1, <2>2
<1>5. EnvGood(m, n)
  BY <1>2, <1>3, <1>4 DEF EnvGood
<1>. QED BY <1>5 DEF m

\* ... and with more frames open than before.
LEMMA GoodMore ==
  ASSUME NEW n \in Nat, NEW m \in Nat, n <= m, NEW e, EnvGood(e, n)
  PROVE  EnvGood(e, m)
BY DEF EnvGood

\* What the callers of compile give back is what they were called with.
LEMMA EnteredGood ==
  ASSUME NEW kind \in Files \cup Loops, NEW n \in 1 .. MaxFrames, NEW e, EnvGood(e, n)
  PROVE  EnvGood(Entered(kind, n, e), n)
<1>0. n \in Nat
  OBVIOUS
<1>1. CASE kind \in {"source", "include", "segmentcall", "rept"}
  BY <1>1 DEF Entered
<1>2. CASE kind \in {"binclude", "macrocall", "brept"}
  BY <1>0, <1>2, GoodPush DEF Entered
<1>3. CASE kind = "funccall"
  BY <1>0, <1>3, GoodMember DEF Entered
<1>4. CASE kind = "funcexpr"
  BY <1>0, <1>4, GoodMember, GoodAddress DEF Entered
<1>5. CASE kind \in {"named struct", "named union"}
  BY <1>0, <1>5, GoodPush, GoodAddress DEF Entered
<1>6. CASE kind \in {"dstruct", "dunion"}
  BY <1>0, <1>6, GoodPush, GoodUnion DEF Entered
<1>. QED BY <1>1, <1>2, <1>3, <1>4, <1>5, <1>6 DEF Files, Loops

LeftFrom(c, e) ==
  LET p == PopContexts(IF c.kind \in {"funccall", "funcexpr"}
                       THEN [e EXCEPT !.bottom = c.saved.bottom] ELSE e, c.pushed)
  IN IF c.kind \in {"funcexpr", "named struct", "named union"} THEN OldAddress(p, c.saved.addr)
     ELSE IF c.kind \in {"dstruct", "dunion"} THEN UnionMode(p, c.saved.union[c.saved.addr])
     ELSE p

\* A caller that pushed no scope pops none, one that pushed one pops one.
LEMMA OneContext ==
  ASSUME NEW e
  PROVE  PopContexts(e, 0) = e /\ PopContexts(e, 1) = PopContext(e)
BY DEF PopContexts

\* A function is left by two scopes.
LEMMA MemberLeft ==
  ASSUME NEW e \in Env, e.bottom < e.ctx
  PROVE  PopContexts([MemberOf(e) EXCEPT !.bottom = e.bottom], 2) = e
<1>. DEFINE m == [MemberOf(e) EXCEPT !.bottom = e.bottom]
<1>1. e.ctx \in Nat /\ e.bottom \in Nat /\ e.ctx + 1 \in Nat /\ e.ctx + 2 \in Nat
  BY DEF Env
<1>2. m = PushContext(PushContext(e))
  <2>1. m = [e EXCEPT !.ctx = e.ctx + 2]
    BY <1>1 DEF MemberOf, Env
  <2>2. PushContext(PushContext(e)) = [e EXCEPT !.ctx = (e.ctx + 1) + 1]
    BY <1>1 DEF PushContext, Env
  <2>3. (e.ctx + 1) + 1 = e.ctx + 2
    BY <1>1
  <2>. QED BY <2>1, <2>2, <2>3
<1>3. PushContext(e) \in Env /\ PushContext(e).ctx = e.ctx + 1 /\ PushContext(e).bottom = e.bottom
  BY <1>1 DEF PushContext, Env
<1>4. PushContext(e).bottom < PushContext(e).ctx
  BY <1>1, <1>3
<1>. HIDE DEF m
<1>5. PopContexts(m, 2) = PopContext(PopContext(m))
  BY DEF PopContexts
<1>6. PopContext(m) = PushContext(e)
  BY <1>2, <1>3, <1>4, PopPush
<1>7. PopContext(PushContext(e)) = e
  BY PopPush
<1>. QED BY <1>5, <1>6, <1>7 DEF m

\* What the callers of compile give back is what they were called with.
LEMMA LeftAsBefore ==
  ASSUME NEW n \in 1 .. MaxFrames, NEW c \in CallType, c.base = n, EnvGood(c.saved, n),
         c.pushed = PushedBy(c.kind),
         c.kind \in {"funcexpr", "named struct", "named union"} => ~c.saved.union[<<"local", n>>]
  PROVE  LeftFrom(c, EnteredBy(c)) = c.saved
<1>. DEFINE e == c.saved
<1>0. e \in Env /\ e.bottom < e.ctx /\ c.kind \in Files \cup Loops
  BY DEF EnvGood, CallType
<1>. HIDE DEF e
<1>1. CASE c.kind \in {"source", "include", "segmentcall", "rept"}
  <2>1. EnteredBy(c) = e /\ c.pushed = 0
    BY <1>1 DEF EnteredBy, Entered, PushedBy, e
  <2>. QED BY <1>1, <2>1 DEF LeftFrom, PopContexts, e
<1>2. CASE c.kind \in {"binclude", "macrocall", "brept"}
  <2>1. EnteredBy(c) = PushContext(e) /\ c.pushed = 1
    BY <1>2 DEF EnteredBy, Entered, PushedBy, e
  <2>2. LeftFrom(c, EnteredBy(c)) = PopContexts(EnteredBy(c), c.pushed)
    BY <1>2 DEF LeftFrom
  <2>3. PopContexts(PushContext(e), 1) = e
    BY <1>0, PopPush, OneContext, Zenon
  <2>. QED BY <2>1, <2>2, <2>3 DEF e
<1>3. CASE c.kind = "funccall"
  <2>1. EnteredBy(c) = MemberOf(e) /\ c.pushed = 2
    BY <1>3 DEF EnteredBy, Entered, PushedBy, e
  <2>2. PopContexts([MemberOf(e) EXCEPT !.bottom = e.bottom], 2) = e
    BY <1>0, MemberLeft
  <2>3. LeftFrom(c, EnteredBy(c)) = PopContexts([EnteredBy(c) EXCEPT !.bottom = e.bottom], c.pushed)
    BY <1>3 DEF LeftFrom, e
  <2>4. EnteredBy(c) = MemberOf(e)
    BY <2>1
  <2>5. c.pushed = 2
    BY <2>1
  <2>6. LeftFrom(c, EnteredBy(c)) = e
    BY ONLY <2>2, <2>3, <2>4, <2>5, Zenon
  <2>. QED BY <2>6 DEF e
<1>4. CASE c.kind = "funcexpr"
  <2>. DEFINE m == NewAddress(e, n, FALSE)
  <2>1. EnteredBy(c) = NewAddress(MemberOf(e), n, FALSE) /\ c.pushed = 2
    BY <1>4 DEF EnteredBy, Entered, PushedBy, e
  <2>2. [NewAddress(MemberOf(e), n, FALSE) EXCEPT !.bottom = e.bottom]
          = [MemberOf(m) EXCEPT !.bottom = m.bottom]
    BY <1>0 DEF NewAddress, MemberOf, Env
  <2>3. m \in Env /\ m.bottom < m.ctx
    BY <1>0, LocalAddress DEF NewAddress, Env
  <2>4. PopContexts([MemberOf(m) EXCEPT !.bottom = m.bottom], 2) = m
    BY <2>3, MemberLeft
  <2>5. LeftFrom(c, EnteredBy(c)) = OldAddress(m, e.addr)
    BY <1>4, <2>1, <2>2, <2>4 DEF LeftFrom, e
  <2>6. OldAddress(m, e.addr) = e
    BY <1>0, <1>4, AddressBack DEF e
  <2>. QED BY <2>5, <2>6 DEF e
<1>5. ASSUME NEW b \in BOOLEAN, c.kind \in {"named struct", "named union"},
             EnteredBy(c) = PushContext(NewAddress(e, n, b))
      PROVE  LeftFrom(c, EnteredBy(c)) = e
  <2>. DEFINE m == NewAddress(e, n, b)
  <2>1. c.pushed = 1
    BY <1>5 DEF PushedBy
  <2>2. m \in Env /\ m.bottom < m.ctx
    BY <1>0, LocalAddress DEF NewAddress, Env
  <2>3. PopContext(PushContext(m)) = m
    BY <2>2, PopPush
  <2>4. OldAddress(m, e.addr) = e
    BY <1>0, <1>5, AddressBack DEF e
  <2>. HIDE DEF m
  <2>5. EnteredBy(c) = PushContext(m)
    BY <1>5 DEF m
  <2>6. PopContexts(PushContext(m), 1) = m
    BY <2>3, OneContext, Zenon
  <2>7. LeftFrom(c, EnteredBy(c)) = OldAddress(PopContexts(EnteredBy(c), c.pushed), e.addr)
    BY <1>5 DEF LeftFrom, e
  <2>. QED BY <2>1, <2>4, <2>5, <2>6, <2>7
<1>6. CASE c.kind = "named struct"
  BY <1>5, <1>6 DEF EnteredBy, Entered, e
<1>7. CASE c.kind = "named union"
  BY <1>5, <1>7 DEF EnteredBy, Entered, e
<1>8. CASE c.kind = "dstruct"
  <2>1. EnteredBy(c) = UnionMode(e, FALSE) /\ c.pushed = 0
    BY <1>8 DEF EnteredBy, Entered, PushedBy, e
  <2>. QED BY <1>0, <1>8, <2>1, UnionBack DEF LeftFrom, PopContexts, e
<1>9. CASE c.kind = "dunion"
  <2>. DEFINE m == UnionMode(e, TRUE)
  <2>1. EnteredBy(c) = PushContext(m) /\ c.pushed = 1
    BY <1>9 DEF EnteredBy, Entered, PushedBy, e
  <2>2. m \in Env /\ m.bottom < m.ctx
    BY <1>0 DEF UnionMode, Env
  <2>3. PopContext(PushContext(m)) = m
    BY <2>2, PopPush
  <2>4. UnionMode(m, e.union[e.addr]) = e
    BY <1>0, UnionBack
  <2>. HIDE DEF m
  <2>. QED BY <1>9, <2>1, <2>3, <2>4 DEF LeftFrom, PopContexts, e
<1>. QED BY <1>0, <1>1, <1>2, <1>3, <1>4, <1>6, <1>7, <1>8, <1>9 DEF Files, Loops, e

(***************************************************************************)
(* Opening.                                                                *)
(***************************************************************************)
\* The frames whose closing changes something
Changing == Scopes \cup {"W_WEAK2", "W_ENDENCODE2", "W_HERE2", "W_SEND2", "W_ENDV2"}
Unions == {"W_ENDU", "W_ENDS"}

\* What check_waitfor does for each kind of frame: scopes,
LEMMA ClosedScope ==
  ASSUME NEW f, f.what \in Scopes, NEW e \in Env, e.bottom < e.ctx
  PROVE  Closed(f, PushContext(e)) = e
<1>1. Closed(f, PushContext(e)) = PopContext(PushContext(e))
  BY DEF Closed
<1>. QED BY <1>1, PopPush

\* ... blocks with nothing to give back,
LEMMA ClosedPlain ==
  ASSUME NEW f, NEW e, f.what \notin Changing, f.what \notin Unions \/ f.skip % 2 # 1
  PROVE  Closed(f, e) = e
BY DEF Closed, UnionClosed, AddressClosed, Changing, Unions

\* ... structures and unions,
LEMMA ClosedUnion ==
  ASSUME NEW e \in Env, NEW f, f.what \in Unions, f.skip = 1, f.saved = e, NEW b \in BOOLEAN
  PROVE  Closed(f, UnionMode(e, b)) = e
<1>1. f.skip % 2 = 1
  OBVIOUS
<1>2. Closed(f, UnionMode(e, b)) = UnionMode(UnionMode(e, b), e.union[e.addr])
  BY <1>1 DEF Closed, UnionClosed, AddressClosed, Unions, Scopes
<1>. QED BY <1>2, UnionBack

\* ... .weak,
LEMMA ClosedWeak ==
  ASSUME NEW e \in Env, NEW f, f.what = "W_WEAK2"
  PROVE  Closed(f, [e EXCEPT !.strength = @ + 1]) = e
<1>. DEFINE w == [e EXCEPT !.strength = @ + 1]
<1>0. e.strength \in Nat
  BY DEF Env
<1>1. w.strength = e.strength + 1 /\ [w EXCEPT !.strength = e.strength] = e
  BY <1>0 DEF Env
<1>2. w.strength - 1 = e.strength
  BY <1>0, <1>1
<1>3. Closed(f, w) = [w EXCEPT !.strength = w.strength - 1]
  BY DEF Closed, Scopes
<1>. QED BY <1>1, <1>2, <1>3

\* ... .logical,
LEMMA ClosedLogical ==
  ASSUME NEW e \in Env, NEW f, f.what = "W_HERE2"
  PROVE  Closed(f, [e EXCEPT !.logical[e.sec] = @ + 1]) = e
<1>. DEFINE n == e.logical[e.sec]
<1>. DEFINE l == [e.logical EXCEPT ![e.sec] = n + 1]
<1>. DEFINE h == [e EXCEPT !.logical[e.sec] = @ + 1]
<1>0. e.logical \in [Sections -> Nat] /\ e.sec \in Sections
  BY DEF Env
<1>1. n \in Nat /\ (n + 1) - 1 = n
  BY <1>0
<1>2. h = [e EXCEPT !.logical = l] /\ h.logical = l /\ h.sec = e.sec /\ l[e.sec] = n + 1
  BY <1>0 DEF Env
<1>3. [l EXCEPT ![e.sec] = n] = e.logical
  BY <1>0, <1>1
<1>4. [h EXCEPT !.logical = e.logical] = e
  BY <1>2 DEF Env
<1>. HIDE DEF h, l, n
<1>5. Closed(f, h) = [h EXCEPT !.logical[h.sec] = h.logical[h.sec] - 1]
  BY DEF Closed, Scopes
<1>6. Closed(f, h) = [h EXCEPT !.logical = [l EXCEPT ![e.sec] = n]]
  BY <1>1, <1>2, <1>5
<1>7. Closed(f, h) = e
  BY <1>3, <1>4, <1>6
<1>. QED BY <1>7 DEF h

\* ... .encode,
LEMMA ClosedEncode ==
  ASSUME NEW e \in Env, NEW f, f.saved = e, f.what = "W_ENDENCODE2", NEW n \in Nat
  PROVE  Closed(f, [e EXCEPT !.enc = n]) = e
<1>1. Closed(f, [e EXCEPT !.enc = n]) = [[e EXCEPT !.enc = n] EXCEPT !.enc = e.enc]
  BY DEF Closed, Scopes
<1>. QED BY <1>1 DEF Env

\* ... sections,
LEMMA ClosedSection ==
  ASSUME NEW e \in Env, NEW f, f.saved = e, f.what = "W_SEND2", NEW s \in Section
  PROVE  Closed(f, [e EXCEPT !.sec = s, !.addr = <<"section", s>>]) = e
<1>. DEFINE g == [e EXCEPT !.sec = s, !.addr = <<"section", s>>]
<1>1. [g EXCEPT !.sec = e.sec, !.addr = e.addr] = e
  BY DEF Env
<1>. HIDE DEF g
<1>2. Closed(f, g) = [g EXCEPT !.sec = e.sec, !.addr = e.addr]
  BY DEF Closed, Scopes, UnionClosed, AddressClosed
<1>3. Closed(f, g) = e
  BY <1>1, <1>2
<1>. QED BY <1>3 DEF g

\* ... and .virtual.
LEMMA ClosedVirtual ==
  ASSUME NEW e \in Env, NEW f, f.saved = e, f.what = "W_ENDV2", NEW n \in 1 .. MaxFrames,
         NEW b \in BOOLEAN, ~e.union[<<"local", n>>]
  PROVE  Closed(f, NewAddress(e, n, b)) = e
<1>1. Closed(f, NewAddress(e, n, b)) = OldAddress(NewAddress(e, n, b), e.addr)
  BY DEF Closed, Scopes, UnionClosed, AddressClosed
<1>. QED BY <1>1, AddressBack

\* A frame that may be pushed
NewFrame(f) ==
  /\ f \in FrameType /\ EnvGood(f.inner, Depth + 1) /\ Gives(f, env)
  /\ f.skip = 1 <=> OnTo(frames, Depth) /\ f.on
  /\ f.what \in Choosing => /\ f.skip = 2 <=> OnTo(frames, Depth) /\ ~f.taken
                            /\ f.on => f.taken

\* What the invariant says of the topmost frame and the environment.
LEMMA TopGood ==
  ASSUME Inv
  PROVE  /\ Depth \in Nat \ {0} /\ Top \in FrameType /\ EnvGood(env, Depth) /\ env \in Env
         /\ env.bottom < env.ctx /\ Top.skip \in 0 .. 2 /\ (Top.skip = 1 <=> OnTo(frames, Depth))
         /\ (Assembled <=> Top.skip = 1)
<1>1. Depth \in 1 .. MaxFrames /\ frames \in Seq(FrameType) /\ env = Top.inner /\ env \in Env
  BY DEF Inv, TypeOK
<1>2. Depth \in Nat \ {0} /\ Depth \in DOMAIN frames
  BY <1>1, BoundsAssumption DEF Depth
<1>3. Top \in FrameType
  BY <1>1, <1>2 DEF Top
<1>4. EnvGood(env, Depth) /\ (Top.skip = 1 <=> OnTo(frames, Depth))
  <2>1. FrameOK(frames, calls, Depth)
    BY <1>1 DEF Inv, FramesOK
  <2>. QED BY <1>1, <2>1 DEF FrameOK, SkipOK, Top
<1>5. env.bottom < env.ctx
  BY <1>4 DEF EnvGood
<1>6. Top.skip \in 0 .. 2
  BY <1>3 DEF FrameType
<1>7. Assembled <=> Top.skip = 1
  BY <1>6 DEF Assembled
<1>. QED BY <1>1, <1>2, <1>3, <1>4, <1>5, <1>6, <1>7

\* The fields of a frame that new_waitfor makes.
LEMMA NewIs ==
  ASSUME Inv, NEW what \in Whats, what \notin BaseWhats, what \notin Choosing,
         NEW e, EnvGood(e, Depth + 1), Closed(New(what, e), e) = env,
         what \in Unions /\ Assembled => UnionLines
  PROVE  NewFrame(New(what, e))
<1>. DEFINE f == New(what, e)
<1>1. e \in Env
  BY DEF EnvGood
<1>2. /\ f.what = what /\ f.skip = Top.skip /\ f.saved = env /\ f.on = TRUE /\ f.taken = FALSE
      /\ f.inner = e
  BY DEF New, Frame
<1>3. f \in FrameType
  BY <1>1, TopGood DEF New, Frame, FrameType
<1>. HIDE DEF f
<1>4. Gives(f, env)
  BY <1>2, TopGood DEF Gives, Unions, f
<1>. QED BY <1>2, <1>3, <1>4, TopGood DEF NewFrame, f

\* A frame with its lines turned off is a frame.
LEMMA OffType ==
  ASSUME NEW f \in FrameType
  PROVE  /\ Off(f) \in FrameType /\ Off(f).what = f.what /\ Off(f).skip = 0 /\ Off(f).on = FALSE
         /\ Off(f).taken = f.taken /\ Off(f).inner = f.inner /\ Off(f).saved = f.saved
<1>. DEFINE g == [f EXCEPT !.skip = 0]
<1>1. g \in FrameType
  BY DEF FrameType
<1>2. Off(f) = [g EXCEPT !.on = FALSE]
  BY DEF Off
<1>. HIDE DEF g
<1>3. Off(f) \in FrameType
  BY <1>1, <1>2 DEF FrameType
<1>4. Off(f).what = f.what /\ Off(f).skip = 0 /\ Off(f).inner = f.inner /\ Off(f).saved = f.saved
  BY DEF Off, FrameType
<1>5. Off(f).on = FALSE /\ Off(f).taken = f.taken
  BY DEF Off, FrameType
<1>. QED BY <1>3, <1>4, <1>5

\* ... and what it keeps.
LEMMA OffIs ==
  ASSUME Inv, NEW what \in Whats, what \notin BaseWhats, what \notin Choosing,
         NEW e, EnvGood(e, Depth + 1), Closed(Off(New(what, e)), e) = env
  PROVE  NewFrame(Off(New(what, e)))
<1>. DEFINE f == Off(New(what, e))
<1>1. e \in Env
  BY DEF EnvGood
<1>2. /\ New(what, e) \in FrameType /\ New(what, e).what = what /\ New(what, e).taken = FALSE
      /\ New(what, e).inner = e
  BY <1>1, TopGood DEF New, Frame, FrameType
<1>3. /\ f \in FrameType /\ f.what = what /\ f.skip = 0 /\ f.on = FALSE /\ f.taken = FALSE
      /\ f.inner = e
  BY <1>2, OffType
<1>. HIDE DEF f
<1>4. Gives(f, env)
  BY <1>3 DEF Gives, f
<1>. QED BY <1>3, <1>4 DEF NewFrame, f

\* Frames that stay as they are, and those below them, stay right.
LEMMA FramesKept ==
  ASSUME Inv, line' = line, NEW m \in 0 .. Depth, \A i \in 1 .. m : frames'[i] = frames[i],
         \A j \in 1 .. m : HasBase(calls', j) <=> HasBase(calls, j)
  PROVE  /\ \A n \in 0 .. m : OnTo(frames', n) <=> OnTo(frames, n)
         /\ \A i \in 1 .. m : FrameOK(frames, calls, i)'
<1>0. Depth \in Nat
  BY TopGood
<1>1. \A n \in 0 .. m : OnTo(frames', n) <=> OnTo(frames, n)
  BY <1>0 DEF OnTo
<1>2. ASSUME NEW i \in 1 .. m PROVE FrameOK(frames, calls, i)'
  <2>1. FrameOK(frames, calls, i)
    BY <1>0 DEF Inv, FramesOK
  <2>2. frames'[i] = frames[i] /\ (i > 1 => frames'[i - 1] = frames[i - 1])
    BY <1>0
  <2>3. i \in 0 .. m /\ i - 1 \in 0 .. m /\ i \in Nat
    BY <1>0
  <2>4. SkipOK(frames, i)'
    BY <1>1, <2>1, <2>2, <2>3 DEF FrameOK, SkipOK
  <2>5. i > 1 /\ ~HasBase(calls, i) => Gives(frames[i], frames[i - 1].inner)
    BY <2>1 DEF FrameOK
  <2>6. i > 1 /\ ~HasBase(calls', i) => Gives(frames[i], frames[i - 1].inner)'
    BY <2>2, <2>3, <2>5 DEF Gives, UnionLines
  <2>. QED BY <2>1, <2>2, <2>4, <2>6 DEF FrameOK
<1>. QED BY <1>1, <1>2

\* So does a call whose frames stay, but for what an include puts in its own.
LEMMA CallKept ==
  ASSUME Inv, line' = line, NEW k \in DOMAIN calls, k \in DOMAIN calls',
         \A j \in 1 .. k : /\ calls'[j].kind = calls[j].kind /\ calls'[j].base = calls[j].base
                           /\ calls'[j].pushed = calls[j].pushed /\ calls'[j].saved = calls[j].saved
                           /\ calls'[j].what = calls[j].what,
         k < Len(calls') => calls'[k].ret = "none",
         NEW b, b = calls[k].base, b <= Len(frames'), Len(frames') \in Nat,
         (\A j \in k + 1 .. Len(calls') : calls'[j].base > b) =>
           frames'[b].what = BaseWhat(calls[k].kind) /\ frames'[b].inner = EnteredBy(calls[k]),
         \A i \in 1 .. b - 1 : frames'[i] = frames[i],
         calls[k].kind \in Includes =>
           /\ frames'[b].skip = frames[b].skip /\ frames'[b].taken = frames[b].taken
           /\ Hidden(frames'[b], calls[k]) = Hidden(frames[b], calls[k])
  PROVE  CallOK(frames, calls, k)'
<1>. DEFINE c == calls[k]
<1>. DEFINE d == calls'[k]
<1>0. Depth \in Nat /\ Depth = Len(frames) /\ k \in Nat /\ k >= 1
  <2>1. calls \in Seq(CallType)
    BY DEF Inv, TypeOK
  <2>. QED BY <2>1, TopGood DEF Depth
<1>1. CallOK(frames, calls, k)
  BY DEF Inv, CallsOK
<1>2. b \in 1 .. Depth /\ b \in Nat /\ b - 1 \in Nat
  BY <1>0, <1>1 DEF CallOK
<1>3. /\ d.kind = c.kind /\ d.base = b /\ d.pushed = c.pushed /\ d.saved = c.saved /\ d.what = c.what
      /\ c.base = b
  BY <1>0
<1>4. \A j \in 1 .. k - 1 : calls'[j].base = calls[j].base
  BY <1>0
<1>5. b \in 1 .. Len(frames')
  BY <1>2
<1>6. OnTo(frames', b - 1) <=> OnTo(frames, b - 1)
  BY <1>2 DEF OnTo
<1>7. b > 1 => frames'[b - 1] = frames[b - 1]
  BY <1>2
<1>8. EnteredBy(d) = EnteredBy(c)
  BY <1>3 DEF EnteredBy
<1>9. k > 1 => /\ calls'[k - 1].base = calls[k - 1].base /\ calls'[k - 1].kind = calls[k - 1].kind
               /\ EnteredBy(calls'[k - 1]) = EnteredBy(calls[k - 1])
  BY <1>0 DEF EnteredBy
<1>10. \A f, g : Gives(f, g)' <=> Gives(f, g)
  BY DEF Gives, UnionLines
<1>11. \A f : Hidden(f, d) = Hidden(f, c)
  BY <1>3 DEF Hidden
<1>. HIDE DEF c, d
<1>12. c.kind \in Includes =>
         /\ frames'[b].skip = 1
         /\ IF calls[k - 1].base = b
            THEN c.what = BaseWhat(calls[k - 1].kind) /\ c.saved = EnteredBy(calls[k - 1])
            ELSE /\ b > 1 /\ Gives(Hidden(frames'[b], c), frames[b - 1].inner)
                 /\ c.what \in Choosing => frames'[b].taken
  BY <1>1, <1>3 DEF CallOK, c
<1>13. c.kind \in Includes => k > 1
  BY <1>0, <1>1, <1>3 DEF CallOK, Includes, c
<1>14. c.kind \in Includes =>
         /\ frames'[b].skip = 1
         /\ IF calls'[k - 1].base = b
            THEN d.what = BaseWhat(calls'[k - 1].kind) /\ d.saved = EnteredBy(calls'[k - 1])
            ELSE /\ b > 1 /\ Gives(Hidden(frames'[b], d), frames'[b - 1].inner)
                 /\ d.what \in Choosing => frames'[b].taken
  BY <1>3, <1>7, <1>9, <1>11, <1>12, <1>13
<1>15. /\ d.pushed = PushedBy(d.kind) /\ d.kind \in line' \cup {"source"} /\ EnvGood(d.saved, b)
       /\ d.kind \in Loops => OnTo(frames', b - 1)
       /\ k < Len(calls') => d.ret = "none"
  BY <1>1, <1>3, <1>6 DEF CallOK, c, d
<1>16. /\ IF k = 1 THEN d.kind = "source" /\ b = 1 /\ d.saved = NewEnv ELSE d.kind # "source"
       /\ \A j \in 1 .. k - 1 : calls'[j].base <= b
  BY <1>1, <1>3, <1>4 DEF CallOK, c
<1>17. (\A j \in k + 1 .. Len(calls') : calls'[j].base > b) =>
         frames'[b].what = BaseWhat(d.kind) /\ frames'[b].inner = EnteredBy(d)
  BY <1>3, <1>8 DEF c
<1>18. k > 1 /\ d.kind \notin Includes =>
         b > 1 /\ d.saved = frames'[b - 1].inner /\ \A j \in 1 .. k - 1 : calls'[j].base < b
  BY <1>1, <1>3, <1>4, <1>7 DEF CallOK, c
<1>19. d.kind \in Includes =>
         /\ frames'[b].skip = 1
         /\ IF calls'[k - 1].base = b
            THEN d.what = BaseWhat(calls'[k - 1].kind) /\ d.saved = EnteredBy(calls'[k - 1])
            ELSE /\ b > 1 /\ Gives(Hidden(frames[b], calls[k]), frames[b - 1].inner)'
                 /\ d.what \in Choosing => frames'[b].taken
  <2>1. UnionLines' = UnionLines
    BY DEF UnionLines
  <2>2. Gives(Hidden(frames'[b], d), frames'[b - 1].inner) =>
          Gives(Hidden(frames[b], calls[k]), frames[b - 1].inner)'
    BY <2>1 DEF Gives, d
  <2>. QED BY <1>3, <1>14, <2>2
<1>. QED BY <1>3, <1>5, <1>15, <1>16, <1>17, <1>18, <1>19 DEF CallOK, d

\* The activations do not notice a new frame.
LEMMA CallsKept ==
  ASSUME Inv, line' = line, calls' = calls, NEW m \in 0 .. Depth, m <= Len(frames'),
         Len(frames') \in Nat, \A i \in 1 .. m : frames'[i] = frames[i],
         \A k \in DOMAIN calls : calls[k].base <= m
  PROVE  CallsOK'
<1>. SUFFICES ASSUME NEW k \in DOMAIN calls PROVE CallOK(frames, calls, k)'
  BY DEF CallsOK
<1>1. CallOK(frames, calls, k) /\ calls[k].base \in 1 .. m /\ Len(calls) \in Nat /\ k \in 1 .. Len(calls)
  <2>1. CallOK(frames, calls, k) /\ calls \in Seq(CallType)
    BY DEF Inv, CallsOK, TypeOK
  <2>2. calls[k].base \in 1 .. Len(frames)
    BY <2>1 DEF CallOK
  <2>. QED BY TopGood, <2>1, <2>2
<1>2. k < Len(calls) => calls[k].ret = "none"
  BY <1>1 DEF CallOK
<1>3. PICK b \in Nat : b = calls[k].base
  BY <1>1
<1>4. frames'[b] = frames[b] /\ b <= Len(frames') /\ \A i \in 1 .. b - 1 : frames'[i] = frames[i]
  BY <1>1, <1>3, TopGood
<1>5. (\A j \in k + 1 .. Len(calls) : calls[j].base > b) =>
        frames[b].what = BaseWhat(calls[k].kind) /\ frames[b].inner = EnteredBy(calls[k])
  BY <1>1, <1>3 DEF CallOK
<1>. QED BY <1>2, <1>3, <1>4, <1>5, CallKept

\* new_waitfor with a frame that will give back the environment.
LEMMA PushStep ==
  ASSUME Inv, calls # <<>>, NEW f, NewFrame(f), Push(f)
  PROVE  Inv'
<1>0. /\ frames' = Append(frames, f) /\ env' = f.inner /\ Depth < MaxFrames
      /\ calls' = calls /\ lbl' = lbl /\ line' = line
  BY DEF Push
<1>1. /\ frames \in Seq(FrameType) /\ Depth \in 1 .. MaxFrames /\ calls \in Seq(CallType)
      /\ Depth = Len(frames) /\ Depth \in Nat \ {0} /\ MaxFrames \in Nat
  BY TopGood, BoundsAssumption DEF Inv, TypeOK, Depth
<1>2. f \in FrameType
  BY DEF NewFrame
<1>3. /\ frames' \in Seq(FrameType) /\ Depth' = Depth + 1 /\ frames'[Depth + 1] = f
      /\ Len(frames') = Depth + 1 /\ \A i \in 1 .. Depth : frames'[i] = frames[i]
  BY <1>0, <1>1, <1>2 DEF Depth
<1>4. TypeOK'
  <2>1. env' \in Env
    BY <1>0, <1>2 DEF FrameType
  <2>. QED BY <1>0, <1>1, <1>3, <2>1 DEF Inv, TypeOK
<1>5. /\ \A n \in 0 .. Depth : OnTo(frames', n) <=> OnTo(frames, n)
      /\ \A i \in 1 .. Depth : FrameOK(frames, calls, i)'
  <2>1. Depth \in 0 .. Depth /\ \A j \in 1 .. Depth : HasBase(calls', j) <=> HasBase(calls, j)
    BY <1>0, <1>1
  <2>. QED BY <1>0, <1>3, <2>1, FramesKept
<1>6. PICK n \in Nat : n = Depth + 1
  BY <1>1
<1>7. FrameOK(frames, calls, n)'
  <2>0. n \in Nat /\ n - 1 = Depth /\ Depth' = n /\ frames'[n] = f
    BY <1>1, <1>3, <1>6
  <2>1. EnvGood(f.inner, n)
    BY <1>6 DEF NewFrame
  <2>2. OnTo(frames', n) <=> OnTo(frames, Depth) /\ f.on
    BY <1>1, <1>3, <1>5, <1>6 DEF OnTo
  <2>3. OnTo(frames', n - 1) <=> OnTo(frames, Depth)
    BY <1>1, <1>5, <2>0
  <2>4. SkipOK(frames', n)
    BY <2>0, <2>2, <2>3 DEF SkipOK, NewFrame
  <2>5. frames'[n - 1].inner = env
    BY <1>1, <1>3, <2>0 DEF Inv, Top
  <2>6. Gives(frames[n], frames[n - 1].inner)'
    BY <1>0, <2>0, <2>5 DEF NewFrame, Gives, UnionLines
  <2>. QED BY <1>6, <2>0, <2>1, <2>4, <2>6 DEF FrameOK
<1>8. FramesOK'
  <2>. SUFFICES ASSUME NEW i \in 1 .. Depth' PROVE FrameOK(frames, calls, i)'
    BY DEF FramesOK
  <2>1. i \in 1 .. Depth \/ i = n
    BY <1>1, <1>3, <1>6
  <2>. QED BY <2>1, <1>5, <1>7
<1>9. CallsOK'
  <2>1. \A k \in DOMAIN calls : calls[k].base <= Depth
    BY DEF Inv, CallsOK, CallOK, Depth
  <2>2. Depth \in 0 .. Depth /\ Depth <= Len(frames') /\ Len(frames') \in Nat
    BY <1>1, <1>3
  <2>. QED BY <1>0, <1>3, <2>1, <2>2, CallsKept
<1>10. EndsOK' /\ GotoOK'
  BY <1>0 DEF Inv, EndsOK, GotoOK, Call
<1>11. env' = Top'.inner
  BY <1>0, <1>3 DEF Top
<1>. QED BY <1>4, <1>8, <1>9, <1>10, <1>11 DEF Inv

\* The kinds of frame that directives open.
LEMMA WhatsAre ==
  Whats = BaseWhats \cup
    {"W_BEND", "W_BEND2", "W_ENDN", "W_ENDN2", "W_ENDWITH", "W_ENDWITH2", "W_WEAK", "W_WEAK2",
     "W_ENDENCODE", "W_ENDENCODE2", "W_HERE", "W_HERE2", "W_ENDV", "W_ENDV2", "W_SEND", "W_SEND2",
     "W_ENDP", "W_ENDP2", "W_ENDU", "W_ENDS", "W_PEND", "W_ENDC", "W_ENDMACRO", "W_ENDF",
     "W_ENDREPT", "W_ENDREPT3", "W_FI", "W_FI2", "W_SWITCH", "W_SWITCH2"}
BY DEF Whats, ClosedBy

\* A new frame has the byte skip of the one below, or 0.
LEMMA NewFields ==
  ASSUME NEW what, NEW e
  PROVE  /\ New(what, e).what = what /\ New(what, e).skip = Top.skip /\ New(what, e).saved = env
         /\ Off(New(what, e)).what = what /\ Off(New(what, e)).skip = 0
BY DEF New, Frame, Off

\* A block is opened whose environment is e.
LEMMA PushNew ==
  ASSUME Inv, calls # <<>>, NEW what \in Whats, what \notin BaseWhats, what \notin Choosing,
         NEW e, EnvGood(e, Depth), Closed(New(what, e), e) = env,
         what \in Unions /\ Assembled => UnionLines, Push(New(what, e))
  PROVE  Inv'
<1>1. EnvGood(e, Depth + 1)
  BY TopGood, GoodMore
<1>. QED BY <1>1, NewIs, PushStep

\* A block is opened that gives nothing back.
LEMMA PushPlain ==
  ASSUME Inv, calls # <<>>, NEW what \in Whats, what \notin BaseWhats, what \notin Choosing,
         what \notin Changing, what \in Unions => ~Assembled,
         Push(New(what, env)) \/ Push(Off(New(what, env)))
  PROVE  Inv'
<1>1. EnvGood(env, Depth) /\ EnvGood(env, Depth + 1)
  BY TopGood, GoodMore
<1>2. what \in Unions => New(what, env).skip % 2 # 1
  BY NewFields, TopGood DEF Assembled
<1>3. Closed(New(what, env), env) = env
  BY <1>2, NewFields, ClosedPlain
<1>4. Closed(Off(New(what, env)), env) = env
  BY NewFields, ClosedPlain
<1>5. CASE Push(New(what, env))
  BY <1>1, <1>3, <1>5, PushNew
<1>6. CASE Push(Off(New(what, env)))
  BY <1>1, <1>4, <1>6, OffIs, PushStep
<1>. QED BY <1>5, <1>6

\* A block is opened with a scope.
LEMMA PushScope ==
  ASSUME Inv, calls # <<>>, NEW what \in Scopes,
         Push(New(what, PushContext(env))) \/ Push(Off(New(what, PushContext(env))))
  PROVE  Inv'
<1>. DEFINE e == PushContext(env)
<1>0. what \in Whats /\ what \notin BaseWhats /\ what \notin Choosing /\ what \notin Unions
  <2>1. what \in Whats
    BY WhatsAre DEF Scopes
  <2>2. what \notin BaseWhats
    BY DEF Scopes, BaseWhats
  <2>3. what \notin Choosing /\ what \notin Unions
    BY DEF Scopes, Choosing, Unions
  <2>. QED BY <2>1, <2>2, <2>3
<1>1. EnvGood(e, Depth) /\ EnvGood(e, Depth + 1)
  BY TopGood, GoodPush, GoodMore
<1>2. Closed(New(what, e), e) = env
  BY NewFields, TopGood, ClosedScope
<1>3. Closed(Off(New(what, e)), e) = env
  BY NewFields, TopGood, ClosedScope
<1>. HIDE DEF e
<1>4. CASE Push(New(what, e))
  BY <1>0, <1>1, <1>2, <1>4, PushNew
<1>5. CASE Push(Off(New(what, e)))
  BY <1>0, <1>1, <1>3, <1>5, OffIs, PushStep
<1>. QED BY <1>4, <1>5 DEF e

\* An opening directive where lines are assembled.
LEMMA OpenLiveStep ==
  ASSUME Inv, NEW l, OpenLive(l)
  PROVE  Inv'
<1>0. l \in line /\ calls # <<>> /\ Assembled /\ Top.skip = 1
  BY TopGood DEF OpenLive, Met, Running
<1>1. EnvGood(env, Depth) /\ env \in Env /\ Depth \in Nat \ {0}
  BY TopGood
<1>2. CASE l \in {"block", "namespace", "proc"}
  BY <1>0, <1>2, PushScope, PushPlain DEF OpenLive, Scopes
<1>p. ASSUME NEW what \in {"W_ENDWITH", "W_ENDENCODE", "W_SEND", "W_ENDP2", "W_ENDC",
                          "W_ENDMACRO", "W_ENDF"},
             Push(New(what, env)) \/ Push(Off(New(what, env)))
      PROVE  Inv'
  <2>1. what \in Whats
    BY WhatsAre
  <2>2. what \notin BaseWhats /\ what \notin Choosing /\ what \notin Unions
    BY DEF BaseWhats, Choosing, Unions
  <2>3. what \notin Changing
    BY DEF Changing, Scopes
  <2>. QED BY <1>0, <1>p, <2>1, <2>2, <2>3, PushPlain
<1>3. CASE l = "with"
  <2>1. Push(New("W_ENDWITH2", PushContext(env))) \/ Push(New("W_ENDWITH", env))
    BY <1>3 DEF OpenLive
  <2>. QED BY <1>0, <1>p, <2>1, PushScope DEF Scopes
<1>4. CASE l = "weak"
  <2>. DEFINE e == [env EXCEPT !.strength = @ + 1]
  <2>1. Push(New("W_WEAK2", e))
    BY <1>4 DEF OpenLive
  <2>2. EnvGood(e, Depth)
    BY <1>1 DEF EnvGood, Env
  <2>3. Closed(New("W_WEAK2", e), e) = env
    <3>1. New("W_WEAK2", e).what = "W_WEAK2"
      BY NewFields
    <3>. QED BY ONLY <1>1, <3>1, ClosedWeak
  <2>. HIDE DEF e
  <2>. QED BY <1>0, <2>1, <2>2, <2>3, PushNew, WhatsAre DEF BaseWhats, Choosing, Unions
<1>5. CASE l = "logical"
  <2>. DEFINE e == [env EXCEPT !.logical[env.sec] = @ + 1]
  <2>1. Push(New("W_HERE2", e))
    BY <1>5 DEF OpenLive
  <2>2. EnvGood(e, Depth)
    <3>1. env.logical \in [Sections -> Nat] /\ env.sec \in Sections
      BY <1>1 DEF Env
    <3>2. env.logical[env.sec] + 1 \in Nat
      BY <3>1
    <3>. QED BY <1>1, <3>1, <3>2 DEF EnvGood, Env
  <2>3. Closed(New("W_HERE2", e), e) = env
    <3>1. New("W_HERE2", e).what = "W_HERE2"
      BY NewFields
    <3>. QED BY ONLY <1>1, <3>1, ClosedLogical
  <2>. HIDE DEF e
  <2>. QED BY <1>0, <2>1, <2>2, <2>3, PushNew, WhatsAre DEF BaseWhats, Choosing, Unions
<1>6. CASE l = "virtual"
  <2>1. PICK n \in Nat : n = Depth + 1
    BY <1>1
  <2>. DEFINE e == NewAddress(env, n, env.union[env.addr])
  <2>. DEFINE f == New("W_ENDV2", e)
  <2>2. Push(f)
    BY <1>6, <2>1 DEF OpenLive
  <2>3. n \in 1 .. MaxFrames
    BY <1>1, <2>1, <2>2, BoundsAssumption DEF Push
  <2>4. env.union[env.addr] \in BOOLEAN
    BY <1>1 DEF Env
  <2>5. ~env.union[<<"local", n>>]
    BY <1>1, <2>1, <2>3 DEF EnvGood
  <2>6. Closed(f, e) = env
    <3>1. f.what = "W_ENDV2" /\ f.saved = env
      BY NewFields
    <3>. HIDE DEF f
    <3>. QED BY <1>1, <2>3, <2>4, <2>5, <3>1, ClosedVirtual
  <2>7. EnvGood(e, n)
    BY <1>1, <2>1, <2>3, <2>4, GoodMore, GoodAddress
  <2>. HIDE DEF e
  <2>8. NewFrame(f)
    BY <2>1, <2>6, <2>7, NewIs, WhatsAre DEF BaseWhats, Choosing, Unions
  <2>. QED BY <1>0, <2>2, <2>8, PushStep
<1>7. CASE l = "section"
  <2>1. ASSUME NEW s \in Section, Push(New("W_SEND2", [env EXCEPT !.sec = s, !.addr = <<"section", s>>]))
        PROVE  Inv'
    <3>. DEFINE e == [env EXCEPT !.sec = s, !.addr = <<"section", s>>]
    <3>1. s \in Sections /\ <<"section", s>> \in Addresses
      BY DEF Sections, Addresses
    <3>2. /\ e \in Env /\ e.bottom = env.bottom /\ e.ctx = env.ctx /\ e.union = env.union
          /\ e.addr = <<"section", s>>
      BY <1>1, <3>1 DEF Env
    <3>. HIDE DEF e
    <3>3. EnvGood(e, Depth)
      BY <1>1, <3>2 DEF EnvGood
    <3>4. Closed(New("W_SEND2", e), e) = env
      <4>1. New("W_SEND2", e).what = "W_SEND2" /\ New("W_SEND2", e).saved = env
        BY NewFields
      <4>. QED BY ONLY <1>1, <4>1, ClosedSection DEF e
    <3>5. Push(New("W_SEND2", e))
      BY <2>1 DEF e
    <3>. QED BY <1>0, <3>3, <3>4, <3>5, PushNew, WhatsAre DEF BaseWhats, Choosing, Unions
  <2>2. \/ \E s \in Section : Push(New("W_SEND2", [env EXCEPT !.sec = s, !.addr = <<"section", s>>]))
        \/ Push(New("W_SEND", env))
    BY <1>7 DEF OpenLive
  <2>3. CASE Push(New("W_SEND", env))
    BY <1>p, <2>3
  <2>. QED BY <2>1, <2>2, <2>3
<1>8. CASE l \in {"page", "comment", "macro", "function"}
  <2>1. CASE l = "page"
    BY <2>1, <1>p DEF OpenLive
  <2>2. CASE l # "page"
    <3>1. Push(Off(New(Skipped(l), env)))
      BY <1>8, <2>2 DEF OpenLive
    <3>2. Skipped(l) \in {"W_ENDC", "W_ENDMACRO", "W_ENDF"}
      BY <1>8, <2>2 DEF Skipped
    <3>. QED BY <1>p, <3>1, <3>2
  <2>. QED BY <2>1, <2>2
<1>9. CASE l \in {"union", "struct"}
  <2>. DEFINE e(b) == UnionMode(env, b)
  <2>1. PICK b \in BOOLEAN, what \in Unions : Push(New(what, e(b)))
    BY <1>9 DEF OpenLive, Unions
  <2>2. EnvGood(e(b), Depth)
    BY <1>1, GoodUnion
  <2>3. Closed(New(what, e(b)), e(b)) = env
    BY <1>0, <1>1, NewFields, ClosedUnion
  <2>4. UnionLines
    BY <1>0, <1>9 DEF UnionLines
  <2>5. what \in Whats /\ what \notin BaseWhats /\ what \notin Choosing
    BY WhatsAre DEF Unions, BaseWhats, Choosing
  <2>. HIDE DEF e
  <2>. QED BY <1>0, <2>1, <2>2, <2>3, <2>4, <2>5, PushNew
<1>10. CASE l = "encode"
  <2>1. ASSUME Push(New("W_ENDENCODE2", [env EXCEPT !.enc = Depth])) PROVE Inv'
    <3>. DEFINE e == [env EXCEPT !.enc = Depth]
    <3>1. EnvGood(e, Depth)
      BY <1>1 DEF EnvGood, Env
    <3>2. Closed(New("W_ENDENCODE2", e), e) = env
      <4>1. New("W_ENDENCODE2", e).what = "W_ENDENCODE2" /\ New("W_ENDENCODE2", e).saved = env
        BY NewFields
      <4>. QED BY ONLY <1>1, <4>1, ClosedEncode
    <3>3. Push(New("W_ENDENCODE2", e))
      BY <2>1
    <3>. HIDE DEF e
    <3>. QED BY <1>0, <3>1, <3>2, <3>3, PushNew, WhatsAre DEF BaseWhats, Choosing, Unions
  <2>2. Push(New("W_ENDENCODE2", [env EXCEPT !.enc = Depth])) \/ Push(New("W_ENDENCODE", env))
    BY <1>10 DEF OpenLive
  <2>. QED BY <1>p, <2>1, <2>2
<1>. QED BY <1>2, <1>3, <1>4, <1>5, <1>6, <1>7, <1>8, <1>9, <1>10 DEF OpenLive

\* An opening directive where they are not.
LEMMA OpenDeadStep ==
  ASSUME Inv, NEW l, OpenDead(l)
  PROVE  Inv'
<1>0. l \in line /\ calls # <<>> /\ ~Assembled
  BY DEF OpenDead, Met, Running
<1>1. ASSUME NEW what \in {"W_ENDWITH", "W_ENDENCODE", "W_WEAK", "W_HERE", "W_ENDV", "W_SEND", "W_ENDP",
                           "W_ENDU", "W_ENDS", "W_ENDREPT", "W_ENDC", "W_ENDMACRO", "W_ENDF"},
             Push(New(what, env)) \/ Push(Off(New(what, env)))
      PROVE  Inv'
  <2>1. what \in Whats
    BY WhatsAre
  <2>2. what \notin BaseWhats /\ what \notin Choosing
    BY DEF BaseWhats, Choosing
  <2>3. what \notin Changing
    BY DEF Changing, Scopes
  <2>. QED BY <1>0, <1>1, <2>1, <2>2, <2>3, PushPlain
<1>2. CASE l \in DOMAIN Nested /\ Push(New(Nested[l], env))
  <2>1. Nested[l] \in {"W_ENDWITH", "W_ENDENCODE", "W_WEAK", "W_HERE", "W_ENDV", "W_SEND", "W_ENDP",
                       "W_ENDU", "W_ENDS", "W_ENDREPT"}
    BY <1>2 DEF Nested
  <2>. QED BY <1>1, <1>2, <2>1
<1>3. CASE l \in DOMAIN NestedScope /\ Push(New(NestedScope[l], PushContext(env)))
  <2>1. NestedScope[l] \in Scopes
    BY <1>3 DEF NestedScope, Scopes
  <2>. QED BY <1>0, <1>3, <2>1, PushScope
<1>4. CASE l = "proc" /\ Push(Off(New("W_PEND", PushContext(env))))
  BY <1>0, <1>4, PushScope DEF Scopes
<1>5. CASE l \in {"comment", "macro", "function"} /\ Push(Off(New(Skipped(l), env)))
  <2>1. Skipped(l) \in {"W_ENDC", "W_ENDMACRO", "W_ENDF"}
    BY <1>5 DEF Skipped
  <2>. QED BY <1>1, <1>5, <2>1
<1>. QED BY <1>2, <1>3, <1>4, <1>5 DEF OpenDead

\* A loop that is not entered leaves a frame for its end.
LEMMA UnrolledStep ==
  ASSUME Inv, NEW l, Unrolled(l)
  PROVE  Inv'
<1>1. calls # <<>> /\ Push(Off(New("W_ENDREPT", env)))
  BY DEF Unrolled, Met, Running
<1>2. "W_ENDREPT" \in Whats
  BY WhatsAre
<1>3. "W_ENDREPT" \notin BaseWhats \cup Choosing \cup Changing \cup Unions
  BY DEF BaseWhats, Choosing, Changing, Scopes, Unions
<1>. QED BY <1>1, <1>2, <1>3, PushPlain

\* .if and .switch
LEMMA ChoiceIs ==
  ASSUME Inv, calls # <<>>, NEW what \in Choosing, NEW skip \in 0 .. 2, NEW on \in BOOLEAN,
         NEW taken \in BOOLEAN, on => taken, skip = 1 <=> Top.skip = 1 /\ on,
         skip = 2 <=> Top.skip = 1 /\ ~taken,
         Push([New(what, env) EXCEPT !.skip = skip, !.on = on, !.taken = taken])
  PROVE  Inv'
<1>. DEFINE f == [New(what, env) EXCEPT !.skip = skip, !.on = on, !.taken = taken]
<1>0. what \in Whats /\ what \notin BaseWhats /\ what \notin Changing \cup Unions
  <2>1. what \in Whats
    BY WhatsAre DEF Choosing
  <2>2. what \notin BaseWhats
    BY DEF Choosing, BaseWhats
  <2>3. what \notin Changing \cup Unions
    BY DEF Choosing, Changing, Scopes, Unions
  <2>. QED BY <2>1, <2>2, <2>3
<1>. DEFINE g == New(what, env)
<1>. DEFINE h == [g EXCEPT !.skip = skip]
<1>. DEFINE i == [h EXCEPT !.on = on]
<1>1. g \in FrameType /\ g.what = what /\ g.inner = env
  BY <1>0, TopGood DEF New, Frame, FrameType
<1>. HIDE DEF g
<1>a. h \in FrameType /\ h.what = what /\ h.inner = env /\ h.skip = skip
  BY <1>1 DEF FrameType
<1>c. f = [i EXCEPT !.taken = taken]
  BY DEF g
<1>. HIDE DEF h, f
<1>b. i \in FrameType /\ i.what = what /\ i.inner = env /\ i.skip = skip /\ i.on = on
  BY <1>a DEF FrameType
<1>. HIDE DEF i
<1>2. f \in FrameType
  BY <1>b, <1>c DEF FrameType
<1>3. f.what = what /\ f.skip = skip /\ f.on = on /\ f.taken = taken /\ f.inner = env
  BY <1>b, <1>c DEF FrameType
<1>4. Push(f)
  BY DEF f, g
<1>5. Closed(f, env) = env
  BY <1>0, <1>3, ClosedPlain
<1>6. Gives(f, env)
  BY <1>0, <1>3, <1>5 DEF Gives, Unions
<1>7. EnvGood(f.inner, Depth + 1)
  <2>1. EnvGood(env, Depth) /\ Depth \in Nat
    BY TopGood
  <2>2. Depth + 1 \in Nat /\ Depth <= Depth + 1
    BY <2>1
  <2>3. EnvGood(env, Depth + 1)
    BY ONLY <2>1, <2>2, GoodMore
  <2>. QED BY <1>3, <2>3
<1>8. NewFrame(f)
  BY <1>2, <1>3, <1>6, <1>7, TopGood DEF NewFrame
<1>. QED BY <1>4, <1>8, PushStep

\* .if and .switch.
LEMMA IfStep ==
  ASSUME Inv, If \/ Switch
  PROVE  Inv'
<1>1. calls # <<>> /\ Top.skip \in 0 .. 2
  BY TopGood DEF If, Switch, Met, Running
<1>2. CASE If
  <2>1. PICK r \in Outcome :
          Push([New("W_FI2", env) EXCEPT
                  !.skip = IF Top.skip # 1 THEN 0 ELSE ByOutcome(r),
                  !.on = (r = "true"), !.taken = (r # "false")])
    BY <1>2 DEF If
  <2>. DEFINE skip == IF Top.skip # 1 THEN 0 ELSE ByOutcome(r)
  <2>. DEFINE on == (r = "true")
  <2>. DEFINE taken == (r # "false")
  <2>2. /\ skip \in 0 .. 2 /\ (on => taken) /\ (skip = 1 <=> Top.skip = 1 /\ on)
        /\ (skip = 2 <=> Top.skip = 1 /\ ~taken)
    BY DEF ByOutcome, Outcome
  <2>3. "W_FI2" \in Choosing /\ on \in BOOLEAN /\ taken \in BOOLEAN
    BY DEF Choosing
  <2>4. Push([New("W_FI2", env) EXCEPT !.skip = skip, !.on = on, !.taken = taken])
    BY <2>1
  <2>. HIDE DEF skip, on, taken
  <2>. QED BY <1>1, <2>2, <2>3, <2>4, ChoiceIs
<1>3. CASE Switch
  <2>1. PICK known \in BOOLEAN :
          Push([New("W_SWITCH2", env) EXCEPT
                  !.skip = IF Top.skip = 1 /\ known THEN 2 ELSE 0, !.on = FALSE, !.taken = ~known])
    BY <1>3 DEF Switch
  <2>. DEFINE skip == IF Top.skip = 1 /\ known THEN 2 ELSE 0
  <2>. DEFINE taken == ~known
  <2>2. skip \in 0 .. 2 /\ skip # 1 /\ (skip = 2 <=> Top.skip = 1 /\ ~taken)
    OBVIOUS
  <2>3. "W_SWITCH2" \in Choosing /\ taken \in BOOLEAN /\ FALSE \in BOOLEAN
    BY DEF Choosing
  <2>4. Push([New("W_SWITCH2", env) EXCEPT !.skip = skip, !.on = FALSE, !.taken = taken])
    BY <2>1
  <2>. HIDE DEF skip, taken
  <2>. QED BY <1>1, <2>2, <2>3, <2>4, ChoiceIs
<1>. QED BY <1>2, <1>3
(***************************************************************************)
(* Closing.                                                                *)
(***************************************************************************)
LEMMA BaseWhatIs ==
  ASSUME NEW kind \in Files \cup Loops
  PROVE  BaseWhat(kind) \in BaseWhats /\ (BaseWhat(kind) = "W_ENDREPT2" => kind \in Loops)
BY DEF Files, Loops, BaseWhat, BaseWhats

\* The kinds of the frames at a base are no kinds that directives close.
LEMMA BasesApart ==
  ASSUME NEW what \in BaseWhats
  PROVE  /\ what \notin DOMAIN ClosedBy /\ what \notin Choosing /\ what \notin Changing \cup Unions
         /\ what \in Whats
<1>1. what \notin DOMAIN ClosedBy
  BY DEF BaseWhats, ClosedBy
<1>2. what \notin Choosing /\ what \notin Changing \cup Unions
  BY DEF BaseWhats, Choosing, Changing, Scopes, Unions
<1>. QED BY <1>1, <1>2 DEF Whats

\* The activation that is running, and the frame at its base
LEMMA CallGood ==
  ASSUME Inv, calls # <<>>
  PROVE  /\ Len(calls) \in Nat \ {0} /\ Len(calls) \in DOMAIN calls /\ DOMAIN calls = 1 .. Len(calls)
         /\ Call \in CallType /\ Call = calls[Len(calls)] /\ CallOK(frames, calls, Len(calls))
         /\ Call.base \in 1 .. Depth /\ Call.kind \in Files \cup Loops
         /\ frames[Call.base].what = BaseWhat(Call.kind)
         /\ frames[Call.base].inner = EnteredBy(Call)
         /\ \A k \in DOMAIN calls : calls[k].base <= Call.base /\ calls[k].base \in 1 .. Depth
         /\ \A j \in Nat : j > Call.base => ~HasBase(calls, j)
<1>. DEFINE n == Len(calls)
<1>1. calls \in Seq(CallType)
  BY DEF Inv, TypeOK
<1>2. n \in Nat \ {0} /\ n \in DOMAIN calls /\ DOMAIN calls = 1 .. n
  BY <1>1
<1>3. Call = calls[n] /\ Call \in CallType
  BY <1>1, <1>2 DEF Call
<1>4. CallOK(frames, calls, n)
  BY <1>2 DEF Inv, CallsOK
<1>. HIDE DEF n
<1>5. Call.base \in 1 .. Depth /\ Call.kind \in Files \cup Loops
  BY <1>3, <1>4 DEF CallOK, CallType, Depth
<1>6. \A j \in n + 1 .. Len(calls) : calls[j].base > Call.base
  BY <1>2 DEF n
<1>7. frames[Call.base].what = BaseWhat(Call.kind) /\ frames[Call.base].inner = EnteredBy(Call)
  BY <1>3, <1>4, <1>6 DEF CallOK
<1>8. ASSUME NEW k \in DOMAIN calls PROVE calls[k].base <= Call.base /\ calls[k].base \in 1 .. Depth
  <2>1. CallOK(frames, calls, k)
    BY DEF Inv, CallsOK
  <2>2. calls[k].base \in 1 .. Depth
    BY <2>1 DEF CallOK, Depth
  <2>3. k = n \/ k \in 1 .. n - 1
    BY <1>2
  <2>4. calls[k].base <= Call.base
    BY <1>3, <1>4, <1>5, <2>3, TopGood DEF CallOK
  <2>. QED BY <2>2, <2>4
<1>9. \A j \in Nat : j > Call.base => ~HasBase(calls, j)
  BY <1>5, <1>8, TopGood DEF HasBase
<1>. QED BY <1>2, <1>3, <1>4, <1>5, <1>7, <1>8, <1>9 DEF n

\* A frame above the base gives back the environment of the frame below.
LEMMA TopGives ==
  ASSUME Inv, calls # <<>>, Depth > Call.base
  PROVE  Gives(Top, frames[Depth - 1].inner) /\ Depth > 1 /\ Closed(Top, env) = frames[Depth - 1].inner
<1>1. Depth \in Nat /\ Depth > 1 /\ ~HasBase(calls, Depth)
  BY TopGood, CallGood
<1>2. FrameOK(frames, calls, Depth)
  BY <1>1 DEF Inv, FramesOK
<1>3. Gives(Top, frames[Depth - 1].inner)
  BY <1>1, <1>2 DEF FrameOK, Top
<1>. QED BY <1>1, <1>3 DEF Gives, Inv

\* close_waitfor on a frame that is no base.
LEMMA PopStep ==
  ASSUME Inv, calls # <<>>, Depth > Call.base, Pop, UNCHANGED <<calls, lbl, line>>
  PROVE  Inv'
<1>1. PICK n \in Nat : n = Depth - 1
  BY TopGood
<1>2. /\ n >= 1 /\ Depth = n + 1 /\ n \in 0 .. Depth /\ n \in 1 .. MaxFrames
      /\ frames \in Seq(FrameType) /\ Len(frames) = n + 1 /\ frames' = SubSeq(frames, 1, n)
  BY <1>1, TopGives, TopGood, BoundsAssumption DEF Inv, TypeOK, Pop, Below, Depth
<1>3. /\ frames' \in Seq(FrameType) /\ Len(frames') = n /\ Depth' = n
      /\ \A i \in 1 .. n : frames'[i] = frames[i]
  BY <1>2 DEF Depth
<1>4. env' = frames[n].inner /\ Top' = frames[n]
  BY <1>1, <1>2, <1>3, TopGives DEF Pop, Top
<1>5. TypeOK'
  <2>1. frames[n] \in FrameType
    BY <1>2
  <2>2. env' \in Env
    BY <1>4, <2>1 DEF FrameType
  <2>. QED BY <1>2, <1>3, <2>2 DEF Inv, TypeOK
<1>6. FramesOK'
  <2>1. \A i \in 1 .. n : FrameOK(frames, calls, i)'
    BY <1>2, <1>3, FramesKept
  <2>. QED BY <1>3, <2>1 DEF FramesOK
<1>7. CallsOK'
  <2>1. \A k \in DOMAIN calls : calls[k].base <= n
    BY <1>2, CallGood
  <2>. QED BY <1>2, <1>3, <2>1, CallsKept
<1>8. EndsOK' /\ GotoOK'
  BY DEF Inv, EndsOK, GotoOK, Call
<1>. QED BY <1>4, <1>5, <1>6, <1>7, <1>8 DEF Inv

\* A closing directive, and what compile closes when it returns.
LEMMA CloseStep ==
  ASSUME Inv, NEW l, Close(l) \/ Unwind
  PROVE  Inv'
<1>1. calls # <<>> /\ Pop /\ UNCHANGED <<calls, lbl, line>>
  BY DEF Close, Unwind, Met, Running
<1>2. CASE Close(l)
  <2>1. Top.what \notin BaseWhats
    BY <1>2, BasesApart DEF Close
  <2>2. Depth # Call.base
    BY <1>1, <2>1, CallGood, BaseWhatIs DEF Top
  <2>3. Depth > Call.base
    BY <1>1, <2>2, CallGood, TopGood
  <2>. QED BY <1>1, <2>3, PopStep
<1>3. CASE Unwind
  <2>1. Depth > Call.base
    BY <1>1, <1>3, CallGood, TopGood DEF Unwind, Inv, GotoOK, TypeOK, PlaceType
  <2>. QED BY <1>1, <2>1, PopStep
<1>. QED BY <1>2, <1>3

(***************************************************************************)
(* Conditionals.                                                           *)
(***************************************************************************)
LEMMA SetTopStep ==
  ASSUME Inv, calls # <<>>, Depth > Call.base, NEW g \in FrameType, frames' = SetTop(g),
         UNCHANGED <<calls, env, lbl, line>>, g.inner = env, Gives(g, frames[Depth - 1].inner),
         g.skip = 1 <=> OnTo(frames, Depth - 1) /\ g.on,
         g.what \in Choosing => /\ g.skip = 2 <=> OnTo(frames, Depth - 1) /\ ~g.taken
                                /\ g.on => g.taken
  PROVE  Inv'
<1>1. PICK n \in Nat : n = Depth
  BY TopGood
<1>2. PICK m \in Nat : m = Depth - 1
  BY TopGood
<1>3. /\ n = m + 1 /\ m >= 1 /\ m \in 0 .. Depth /\ n \in 1 .. MaxFrames /\ Depth = n
      /\ frames \in Seq(FrameType) /\ Len(frames) = n /\ frames' = [frames EXCEPT ![n] = g]
  BY <1>1, <1>2, TopGives, TopGood DEF Inv, TypeOK, SetTop, Depth
<1>4. /\ frames' \in Seq(FrameType) /\ Len(frames') = n /\ Depth' = n /\ frames'[n] = g
      /\ \A i \in 1 .. m : frames'[i] = frames[i]
  BY <1>3 DEF Depth
<1>5. TypeOK'
  BY <1>3, <1>4 DEF Inv, TypeOK
<1>6. /\ \A i \in 0 .. m : OnTo(frames', i) <=> OnTo(frames, i)
      /\ \A i \in 1 .. m : FrameOK(frames, calls, i)'
  BY <1>3, <1>4, FramesKept
<1>7. FrameOK(frames, calls, n)'
  <2>1. EnvGood(g.inner, n)
    BY <1>1, TopGood
  <2>2. OnTo(frames', m) <=> OnTo(frames, m)
    BY <1>2, <1>6
  <2>3. OnTo(frames', n) <=> OnTo(frames', m) /\ g.on
    BY <1>3, <1>4 DEF OnTo
  <2>4. SkipOK(frames', n)
    <3>1. n - 1 = m
      BY <1>3
    <3>. QED BY <1>2, <1>4, <2>2, <2>3, <3>1 DEF SkipOK
  <2>5. Gives(frames[n], frames[n - 1].inner)'
    <3>1. frames'[n - 1] = frames[Depth - 1]
      BY <1>1, <1>3, <1>4
    <3>. QED BY <1>4, <3>1 DEF Gives, UnionLines
  <2>. QED BY <1>4, <2>1, <2>4, <2>5 DEF FrameOK
<1>8. FramesOK'
  <2>. SUFFICES ASSUME NEW i \in 1 .. Depth' PROVE FrameOK(frames, calls, i)'
    BY DEF FramesOK
  <2>1. i \in 1 .. m \/ i = n
    BY <1>3, <1>4
  <2>. QED BY <2>1, <1>6, <1>7
<1>9. CallsOK'
  <2>1. \A k \in DOMAIN calls : calls[k].base <= m
    BY <1>2, <1>3, CallGood
  <2>2. m <= Len(frames') /\ Len(frames') \in Nat
    BY <1>3, <1>4
  <2>. QED BY <1>3, <1>4, <2>1, <2>2, CallsKept
<1>10. EndsOK' /\ GotoOK' /\ env' = Top'.inner
  BY <1>3, <1>4 DEF Inv, EndsOK, GotoOK, Call, Top
<1>. QED BY <1>5, <1>8, <1>9, <1>10 DEF Inv
\* Only skip, on and taken change from one part to the next.
LEMMA OtherPart ==
  ASSUME Inv, calls # <<>>, Top.what \in Choosing, NEW g \in FrameType, frames' = SetTop(g),
         UNCHANGED <<calls, env, lbl, line>>, g.inner = Top.inner,
         g.what \in {"W_FI2", "W_SWITCH2", "W_FI", "W_SWITCH"},
         g.skip = 1 <=> OnTo(frames, Depth - 1) /\ g.on,
         g.what \in Choosing => /\ g.skip = 2 <=> OnTo(frames, Depth - 1) /\ ~g.taken
                                /\ g.on => g.taken
  PROVE  Inv'
<1>1. Depth > Call.base
  <2>1. Depth # Call.base
    BY CallGood, BaseWhatIs, BasesApart DEF Top
  <2>. QED BY <2>1, CallGood, TopGood
<1>2. Top.what \notin Changing \cup Unions /\ g.what \notin Changing \cup Unions
  BY DEF Choosing, Changing, Scopes, Unions
<1>3. g.what \notin BaseWhats
  BY DEF BaseWhats
<1>4. env = frames[Depth - 1].inner
  BY <1>1, <1>2, TopGives, ClosedPlain
<1>5. g.inner = env
  BY DEF Inv
<1>6. Closed(g, env) = env
  BY <1>2, ClosedPlain
<1>7. Gives(g, frames[Depth - 1].inner)
  BY <1>2, <1>3, <1>4, <1>5, <1>6 DEF Gives, Unions
<1>. QED BY <1>1, <1>5, <1>7, SetTopStep

Part(f, skip, on, taken) == [f EXCEPT !.skip = skip, !.on = on, !.taken = taken]
\* The next part of a conditional is a frame.
LEMMA PartType ==
  ASSUME NEW f \in FrameType, NEW skip \in 0 .. 2, NEW on \in BOOLEAN, NEW taken \in BOOLEAN
  PROVE  /\ Part(f, skip, on, taken) \in FrameType
         /\ Part(f, skip, on, taken).skip = skip
         /\ Part(f, skip, on, taken).on = on
         /\ Part(f, skip, on, taken).taken = taken
<1>. DEFINE g == Part(f, skip, on, taken)
<1>. DEFINE h == [f EXCEPT !.skip = skip]
<1>. DEFINE i == [h EXCEPT !.on = on]
<1>1. h \in FrameType /\ h.what = f.what /\ h.skip = skip /\ h.inner = f.inner
  BY DEF FrameType
<1>2. g = [i EXCEPT !.taken = taken]
  BY DEF Part
<1>. HIDE DEF h, g
<1>3. i \in FrameType /\ i.what = f.what /\ i.skip = skip /\ i.on = on /\ i.inner = f.inner
  BY <1>1 DEF FrameType
<1>. HIDE DEF i
<1>4. g \in FrameType
  BY <1>2, <1>3 DEF FrameType
<1>5. g.what = f.what /\ g.skip = skip /\ g.inner = f.inner
  BY <1>2, <1>3 DEF FrameType
<1>6. g.on = on /\ g.taken = taken
  BY <1>2, <1>3 DEF FrameType
<1>. QED BY <1>4, <1>5, <1>6 DEF g

\* From one part of a conditional to the next.
LEMMA PartStep ==
  ASSUME Inv, calls # <<>>, Top.what \in Choosing, NEW skip \in 0 .. 2, NEW on \in BOOLEAN,
         NEW taken \in BOOLEAN, frames' = SetTop(Part(Top, skip, on, taken)),
         UNCHANGED <<calls, env, lbl, line>>, on => taken,
         skip = 1 <=> OnTo(frames, Depth - 1) /\ on,
         skip = 2 <=> OnTo(frames, Depth - 1) /\ ~taken
  PROVE  Inv'
<1>0. PICK f \in FrameType : f = Top
  BY TopGood
<1>. DEFINE g == Part(f, skip, on, taken)
<1>1. /\ g \in FrameType /\ g.what = f.what /\ g.skip = skip /\ g.on = on /\ g.taken = taken
      /\ g.inner = f.inner
  <2>1. g.what = f.what /\ g.inner = f.inner
    BY DEF Part, FrameType
  <2>2. g \in FrameType
    BY PartType
  <2>3. g.skip = skip
    BY DEF Part, FrameType
  <2>4. g.on = on
    BY DEF Part, FrameType
  <2>5. g.taken = taken
    BY DEF Part, FrameType
  <2>. HIDE DEF g
  <2>. QED BY ONLY <2>1, <2>2, <2>3, <2>4, <2>5
<1>2. g.what \in {"W_FI2", "W_SWITCH2", "W_FI", "W_SWITCH"}
  BY <1>0, <1>1 DEF Choosing
<1>3. frames' = SetTop(g)
  BY <1>0
<1>. HIDE DEF g
<1>. QED BY <1>0, <1>1, <1>2, <1>3, OtherPart

\* What skip says of a part that may still be selected
LEMMA EligibleIs ==
  ASSUME Inv, Top.what \in Choosing
  PROVE  /\ Top.skip = 2 <=> Eligible
         /\ Eligible <=> OnTo(frames, Depth - 1) /\ ~Top.taken
         /\ Top.skip \in 0 .. 2 /\ Top.taken \in BOOLEAN /\ Eligible \in BOOLEAN
<1>1. FrameOK(frames, calls, Depth)
  BY TopGood DEF Inv, FramesOK
<1>2. Top.skip = 2 <=> OnTo(frames, Depth - 1) /\ ~Top.taken
  BY <1>1 DEF FrameOK, SkipOK, Top
<1>3. Eligible <=> OnTo(frames, Depth - 1) /\ ~Top.taken
  BY DEF Eligible, AllOn, OnTo
<1>4. Top.skip \in 0 .. 2 /\ Top.taken \in BOOLEAN
  BY TopGood DEF FrameType
<1>5. Eligible \in BOOLEAN
  BY DEF Eligible
<1>. QED BY <1>2, <1>3, <1>4, <1>5

\* .elsif.
LEMMA ElsifStep ==
  ASSUME Inv, Elsif
  PROVE  Inv'
<1>1. calls # <<>> /\ Top.what = "W_FI2" /\ Top.what \in Choosing
  BY DEF Elsif, Met, Running, Choosing
<1>2. PICK r \in Outcome :
        frames' = SetTop([Top EXCEPT
          !.skip = IF @ # 2 THEN 0 ELSE ByOutcome(r),
          !.on = Eligible /\ r = "true", !.taken = @ \/ (Eligible /\ r # "false")])
  BY DEF Elsif
<1>. DEFINE skip == IF Top.skip # 2 THEN 0 ELSE ByOutcome(r)
<1>. DEFINE on == Eligible /\ r = "true"
<1>. DEFINE taken == Top.taken \/ (Eligible /\ r # "false")
<1>3. frames' = SetTop(Part(Top, skip, on, taken))
  BY <1>2 DEF Part
<1>4. skip \in 0 .. 2 /\ on \in BOOLEAN /\ taken \in BOOLEAN
  BY <1>1, EligibleIs DEF ByOutcome
<1>5. (skip = 1 <=> on) /\ (on => taken) /\ (skip = 2 <=> Eligible /\ r = "false")
  BY <1>1, EligibleIs DEF ByOutcome, Outcome
<1>6. skip = 1 <=> OnTo(frames, Depth - 1) /\ on
  BY <1>1, <1>5, EligibleIs
<1>7. skip = 2 <=> OnTo(frames, Depth - 1) /\ ~taken
  BY <1>1, <1>5, EligibleIs
<1>. HIDE DEF skip, on, taken
<1>8. UNCHANGED <<calls, env, lbl, line>>
  BY DEF Elsif
<1>. QED BY <1>1, <1>3, <1>4, <1>5, <1>6, <1>7, <1>8, PartStep

\* .case.
LEMMA CaseStep ==
  ASSUME Inv, Case
  PROVE  Inv'
<1>1. calls # <<>> /\ Top.what = "W_SWITCH2" /\ Top.what \in Choosing
  BY DEF Case, Met, Running, Choosing
<1>2. PICK r \in Outcome \cup {"unreadable"} :
        frames' = SetTop([Top EXCEPT
          !.skip = IF @ # 2 \/ r = "unreadable" THEN 0 ELSE IF r = "true" THEN 1 ELSE 2,
          !.on = Eligible /\ r = "true",
          !.taken = @ \/ (Eligible /\ r \in {"true", "unreadable"})])
  BY DEF Case
<1>. DEFINE skip == IF Top.skip # 2 \/ r = "unreadable" THEN 0 ELSE IF r = "true" THEN 1 ELSE 2
<1>. DEFINE on == Eligible /\ r = "true"
<1>. DEFINE taken == Top.taken \/ (Eligible /\ r \in {"true", "unreadable"})
<1>3. frames' = SetTop(Part(Top, skip, on, taken))
  BY <1>2 DEF Part
<1>4. skip \in 0 .. 2 /\ on \in BOOLEAN /\ taken \in BOOLEAN
  BY <1>1, EligibleIs
<1>5. (skip = 1 <=> on) /\ (on => taken) /\ (skip = 2 <=> Eligible /\ r \notin {"true", "unreadable"})
  BY <1>1, EligibleIs
<1>6. skip = 1 <=> OnTo(frames, Depth - 1) /\ on
  BY <1>1, <1>5, EligibleIs
<1>7. skip = 2 <=> OnTo(frames, Depth - 1) /\ ~taken
  BY <1>1, <1>5, EligibleIs
<1>. HIDE DEF skip, on, taken
<1>8. UNCHANGED <<calls, env, lbl, line>>
  BY DEF Case
<1>. QED BY <1>1, <1>3, <1>4, <1>5, <1>6, <1>7, <1>8, PartStep

\* .else and .default.
LEMMA ElseStep ==
  ASSUME Inv, Else \/ Default
  PROVE  Inv'
<1>1. calls # <<>> /\ Top.what \in Choosing
  BY DEF Else, Default, Met, Running, Choosing
<1>2. PICK what \in {"W_FI", "W_SWITCH"} : Otherwise(what)
  BY DEF Else, Default
<1>. DEFINE skip == Top.skip \div 2
<1>. DEFINE g == [Top EXCEPT !.what = what, !.skip = skip, !.on = Eligible]
<1>. DEFINE h == [Top EXCEPT !.what = what]
<1>. DEFINE i == [h EXCEPT !.skip = skip]
<1>3. frames' = SetTop(g) /\ UNCHANGED <<calls, env, lbl, line>>
  BY <1>2 DEF Otherwise
<1>4. skip \in 0 .. 2 /\ (skip = 1 <=> Eligible) /\ Eligible \in BOOLEAN
  BY <1>1, EligibleIs
<1>. HIDE DEF skip
<1>5. h \in FrameType /\ h.what = what /\ h.inner = Top.inner
  <2>1. what \in Whats
    BY WhatsAre
  <2>. QED BY <2>1, TopGood DEF FrameType
<1>6. g = [i EXCEPT !.on = Eligible]
  OBVIOUS
<1>. HIDE DEF h, g
<1>7. i \in FrameType /\ i.what = what /\ i.skip = skip /\ i.inner = Top.inner
  BY <1>4, <1>5 DEF FrameType
<1>. HIDE DEF i
<1>8. g \in FrameType
  BY <1>4, <1>6, <1>7 DEF FrameType
<1>9. g.what = what /\ g.skip = skip /\ g.on = Eligible /\ g.inner = Top.inner
  BY <1>4, <1>6, <1>7 DEF FrameType
<1>10. g.skip = 1 <=> OnTo(frames, Depth - 1) /\ g.on
  BY <1>1, <1>4, <1>9, EligibleIs
<1>11. g.what \notin Choosing
  BY <1>9 DEF Choosing
<1>. QED BY <1>1, <1>3, <1>8, <1>9, <1>10, <1>11, OtherPart
(***************************************************************************)
(* Activations that return or jump, and go on.                             *)
(***************************************************************************)
LEMMA SetCallIs ==
  ASSUME Inv, calls # <<>>, NEW r \in {"none", "goto", "null", "value"},
         calls' = SetCall([Call EXCEPT !.ret = r])
  PROVE  /\ calls' \in Seq(CallType) /\ Len(calls') = Len(calls) /\ calls' # <<>>
         /\ Call'.ret = r /\ Call'.base = Call.base
         /\ \A k \in DOMAIN calls :
              /\ calls'[k].kind = calls[k].kind /\ calls'[k].base = calls[k].base
              /\ calls'[k].pushed = calls[k].pushed /\ calls'[k].saved = calls[k].saved
              /\ calls'[k].what = calls[k].what
              /\ k < Len(calls') => calls'[k].ret = "none"
         /\ \A j \in Nat : HasBase(calls', j) <=> HasBase(calls, j)
<1>1. PICK n \in Nat \ {0} : n = Len(calls)
  BY CallGood
<1>2. calls \in Seq(CallType) /\ n \in DOMAIN calls /\ DOMAIN calls = 1 .. n /\ Call = calls[n]
  BY <1>1, CallGood DEF Inv, TypeOK
<1>3. PICK c \in CallType : c = Call
  BY CallGood
<1>4. PICK d \in CallType : d = [c EXCEPT !.ret = r]
  BY DEF CallType
<1>5. /\ d.kind = c.kind /\ d.base = c.base /\ d.pushed = c.pushed /\ d.saved = c.saved
      /\ d.what = c.what /\ d.ret = r
  BY <1>4 DEF CallType
<1>6. calls' = [calls EXCEPT ![n] = d]
  BY <1>1, <1>3, <1>4 DEF SetCall
<1>7. /\ calls' \in Seq(CallType) /\ Len(calls') = n /\ DOMAIN calls' = 1 .. n
      /\ calls'[n] = d /\ \A k \in 1 .. n : k # n => calls'[k] = calls[k]
  BY <1>2, <1>6
<1>8. Call' = d
  BY <1>7 DEF Call
<1>9. \A k \in DOMAIN calls :
        /\ calls'[k].kind = calls[k].kind /\ calls'[k].base = calls[k].base
        /\ calls'[k].pushed = calls[k].pushed /\ calls'[k].saved = calls[k].saved
        /\ calls'[k].what = calls[k].what
  BY <1>2, <1>3, <1>5, <1>7
<1>10. ASSUME NEW k \in DOMAIN calls, k < Len(calls') PROVE calls'[k].ret = "none"
  <2>1. CallOK(frames, calls, k)
    BY DEF Inv, CallsOK
  <2>2. k < Len(calls) => calls[k].ret = "none"
    BY <2>1 DEF CallOK
  <2>3. k < n /\ calls'[k] = calls[k]
    BY <1>2, <1>7, <1>10
  <2>. QED BY <1>1, <2>2, <2>3
<1>11. \A j \in Nat : HasBase(calls', j) <=> HasBase(calls, j)
  BY <1>2, <1>7, <1>9 DEF HasBase
<1>. QED BY <1>1, <1>3, <1>5, <1>7, <1>8, <1>9, <1>10, <1>11

\* An activation notes what it returns.
LEMMA RetStep ==
  ASSUME Inv, calls # <<>>, NEW r \in {"none", "goto", "null", "value"},
         calls' = SetCall([Call EXCEPT !.ret = r]), UNCHANGED <<frames, env, lbl, line>>,
         r = "goto" => lbl.depth >= Call.base
  PROVE  Inv'
<1>1. TypeOK'
  BY SetCallIs DEF Inv, TypeOK, Depth
<1>2. FramesOK'
  <2>1. Depth \in 0 .. Depth /\ \A j \in 1 .. Depth : HasBase(calls', j) <=> HasBase(calls, j)
    BY TopGood, SetCallIs
  <2>2. \A i \in 1 .. Depth : FrameOK(frames, calls, i)'
    BY <2>1, FramesKept
  <2>. QED BY <2>2 DEF FramesOK, Depth
<1>3. CallsOK'
  <2>0. calls \in Seq(CallType) /\ calls' \in Seq(CallType) /\ Len(calls') = Len(calls)
    BY SetCallIs DEF Inv, TypeOK
  <2>. SUFFICES ASSUME NEW k \in DOMAIN calls PROVE CallOK(frames, calls, k)'
    BY <2>0 DEF CallsOK
  <2>1. CallOK(frames, calls, k) /\ DOMAIN calls = 1 .. Len(calls) /\ Len(calls) \in Nat
    BY CallGood DEF Inv, CallsOK
  <2>2. PICK b \in Nat : b = calls[k].base /\ b \in 1 .. Len(frames) /\ Len(frames) \in Nat
    BY <2>1, CallGood, TopGood DEF Depth
  <2>3. k \in DOMAIN calls'
    BY <2>0
  <2>4. ASSUME NEW j \in k + 1 .. Len(calls) PROVE calls'[j].base = calls[j].base
    <3>1. j \in DOMAIN calls
      BY <2>1
    <3>. QED BY <3>1, SetCallIs
  <2>5. (\A j \in k + 1 .. Len(calls) : calls[j].base > b) =>
          frames[b].what = BaseWhat(calls[k].kind) /\ frames[b].inner = EnteredBy(calls[k])
    BY <2>1, <2>2 DEF CallOK
  <2>6. \A j \in 1 .. k : /\ calls'[j].kind = calls[j].kind /\ calls'[j].base = calls[j].base
                          /\ calls'[j].pushed = calls[j].pushed /\ calls'[j].saved = calls[j].saved
                          /\ calls'[j].what = calls[j].what
    BY <2>1, SetCallIs
  <2>7. k < Len(calls') => calls'[k].ret = "none"
    BY SetCallIs
  <2>8. (\A j \in k + 1 .. Len(calls') : calls'[j].base > b) =>
          frames'[b].what = BaseWhat(calls[k].kind) /\ frames'[b].inner = EnteredBy(calls[k])
    BY <2>0, <2>4, <2>5
  <2>9. line' = line /\ b <= Len(frames') /\ Len(frames') \in Nat /\ frames' = frames
    BY <2>2
  <2>. QED BY <2>2, <2>3, <2>6, <2>7, <2>8, <2>9, CallKept
<1>4. EndsOK' /\ GotoOK'
  BY SetCallIs DEF EndsOK, GotoOK
<1>. QED BY <1>1, <1>2, <1>3, <1>4 DEF Inv, Top, Depth

\* The lines that end an activation, and the jump inside it.
LEMMA GotoStep ==
  ASSUME Inv, NEW l, Return(l) \/ End(l) \/ Goto \/ Jumped
  PROVE  Inv'
<1>1. calls # <<>> /\ UNCHANGED <<frames, env, lbl, line>>
  BY DEF Return, End, Goto, Jumped, Met, Running
<1>2. \E r \in {"none", "goto", "null", "value"} :
        calls' = SetCall([Call EXCEPT !.ret = r]) /\ (r = "goto" => lbl.depth >= Call.base)
  <2>1. CASE Return(l)
    <3>1. \E r \in {"null", "value"} : calls' = SetCall([Call EXCEPT !.ret = r])
      BY <2>1 DEF Return
    <3>. QED BY <3>1
  <2>2. CASE End(l)
    BY <2>2 DEF End
  <2>3. CASE Goto
    BY <2>3 DEF Goto
  <2>4. CASE Jumped
    BY <2>4 DEF Jumped
  <2>. QED BY <2>1, <2>2, <2>3, <2>4
<1>. QED BY <1>1, <1>2, RetStep

\* .lbl.
LEMMA LblStep ==
  ASSUME Inv, Lbl
  PROVE  Inv'
<1>1. UNCHANGED <<frames, calls, env, line>> /\ lbl' = Place
  BY DEF Lbl
<1>2. lbl' \in PlaceType
  <2>1. Depth \in Nat /\ env.ctx \in Nat
    BY TopGood DEF Env
  <2>2. FileDepth \in Nat
    <3>1. calls \in Seq(CallType)
      BY DEF Inv, TypeOK
    <3>. QED BY <3>1 DEF FileDepth
  <2>. QED BY <1>1, <2>1, <2>2 DEF Place, PlaceType
<1>3. TypeOK'
  BY <1>1, <1>2 DEF Inv, TypeOK, Depth
<1>4. FramesOK' /\ CallsOK' /\ EndsOK'
  <2>1. \A i : FrameOK(frames, calls, i)' <=> FrameOK(frames, calls, i)
    BY <1>1 DEF FrameOK, Gives, UnionLines
  <2>2. \A k : CallOK(frames, calls, k)' <=> CallOK(frames, calls, k)
    BY <1>1 DEF CallOK, Gives, UnionLines
  <2>. QED BY <1>1, <2>1, <2>2 DEF Inv, FramesOK, CallsOK, EndsOK, Depth
<1>5. GotoOK'
  <2>1. Call'.ret = "none"
    BY <1>1 DEF Lbl, Met, Running, Call
  <2>. QED BY <2>1 DEF GotoOK
<1>. QED BY <1>1, <1>3, <1>4, <1>5 DEF Inv, Top, Depth
(***************************************************************************)
(* Activations that begin.                                                 *)
(***************************************************************************)
LEMMA NewCall ==
  ASSUME Inv, calls # <<>>, NEW c \in CallType, calls' = Append(calls, c), c.ret = "none"
  PROVE  /\ calls' \in Seq(CallType) /\ calls' # <<>> /\ Len(calls') = Len(calls) + 1
         /\ DOMAIN calls' = 1 .. Len(calls) + 1
         /\ \A k \in DOMAIN calls : calls'[k] = calls[k] /\ (calls[k].ret = "none" \/ k = Len(calls))
         /\ calls'[Len(calls) + 1] = c /\ Call' = c
         /\ \A j \in Nat : HasBase(calls', j) <=> HasBase(calls, j) \/ j = c.base
<1>1. PICK n \in Nat \ {0} : n = Len(calls)
  BY CallGood
<1>2. calls \in Seq(CallType) /\ DOMAIN calls = 1 .. n
  BY <1>1, CallGood DEF Inv, TypeOK
<1>3. /\ calls' \in Seq(CallType) /\ Len(calls') = n + 1 /\ DOMAIN calls' = 1 .. n + 1
      /\ calls'[n + 1] = c /\ \A k \in 1 .. n : calls'[k] = calls[k]
  BY <1>1, <1>2
<1>4. Call' = c
  BY <1>3 DEF Call
<1>5. ASSUME NEW k \in DOMAIN calls PROVE calls[k].ret = "none" \/ k = n
  <2>1. CallOK(frames, calls, k)
    BY DEF Inv, CallsOK
  <2>2. k < Len(calls) => calls[k].ret = "none"
    BY <2>1 DEF CallOK
  <2>. QED BY <1>1, <1>2, <2>2
<1>6. ASSUME NEW j \in Nat PROVE HasBase(calls', j) <=> HasBase(calls, j) \/ j = c.base
  <2>1. CASE j = c.base
    BY <1>3, <2>1 DEF HasBase
  <2>2. CASE j # c.base
    BY <1>2, <1>3, <2>2 DEF HasBase
  <2>. QED BY <2>1, <2>2
<1>. QED BY <1>1, <1>2, <1>3, <1>4, <1>5, <1>6

\* In a frame of its own
LEMMA EnterStep ==
  ASSUME Inv, calls # <<>>, Call.ret = "none", Assembled, NEW kind \in line,
         kind \in Files \cup Loops, kind \notin Includes \cup {"source"},
         NEW e, e = Entered(kind, Depth + 1, env),
         Enter(kind, With(New(BaseWhat(kind), env)), PushedBy(kind), e)
  PROVE  Inv'
<1>1. PICK m \in Nat \ {0} : m = Depth
  BY TopGood
<1>2. PICK n \in Nat : n = m + 1
  OBVIOUS
<1>. DEFINE what == BaseWhat(kind)
<1>. DEFINE f == [New(what, env) EXCEPT !.inner = e]
<1>3. what \in BaseWhats /\ what \in Whats /\ what \notin Choosing
  BY BaseWhatIs, BasesApart
<1>4. New(what, env) \in FrameType /\ Top.skip = 1
  BY <1>3, TopGood DEF New, Frame, FrameType
<1>5. frames \in Seq(FrameType) /\ Len(frames) = m /\ n = Depth + 1
  BY <1>1, <1>2 DEF Inv, TypeOK, Depth
<1>6. /\ With(New(what, env)) \in Seq(FrameType) /\ Len(With(New(what, env))) = n
      /\ With(New(what, env))[n] = New(what, env)
      /\ \A i \in 1 .. m : With(New(what, env))[i] = frames[i]
  BY <1>2, <1>4, <1>5 DEF With
<1>7. n \in 1 .. MaxFrames /\ n <= MaxFrames
  BY <1>2, <1>6, BoundsAssumption DEF Enter
<1>8. EnvGood(env, n) /\ EnvGood(e, n) /\ e \in Env
  <2>1. EnvGood(env, m)
    BY <1>1, TopGood
  <2>2. EnvGood(env, n)
    BY ONLY <2>1, <1>1, <1>2, GoodMore
  <2>3. EnvGood(Entered(kind, n, env), n)
    BY ONLY <1>7, <2>2, EnteredGood, kind \in Files \cup Loops
  <2>. QED BY <1>5, <2>2, <2>3 DEF EnvGood
<1>9. f \in FrameType /\ f.what = what /\ f.skip = 1 /\ f.on = TRUE /\ f.inner = e
  <2>1. New(what, env).what = what /\ New(what, env).skip = 1 /\ New(what, env).on = TRUE
    BY <1>4 DEF New, Frame
  <2>. HIDE DEF what
  <2>2. f \in FrameType /\ f.inner = e
    BY <1>4, <1>8 DEF FrameType
  <2>3. f.what = what /\ f.skip = 1 /\ f.on = TRUE
    BY <1>4, <2>1 DEF FrameType
  <2>. QED BY <2>2, <2>3
<1>10. frames' = [With(New(what, env)) EXCEPT ![n] = f]
  BY <1>6 DEF Enter
<1>. HIDE DEF f
<1>11. /\ frames' \in Seq(FrameType) /\ Len(frames') = n /\ Depth' = n /\ frames'[n] = f
       /\ \A i \in 1 .. m : frames'[i] = frames[i]
  BY <1>1, <1>2, <1>6, <1>9, <1>10 DEF Depth
<1>. DEFINE c == [kind |-> kind, base |-> n, pushed |-> PushedBy(kind), ret |-> "none",
                  saved |-> env, what |-> Top.what]
<1>12. c \in CallType /\ calls' = Append(calls, c)
  <2>1. calls' = Append(calls, c)
    BY <1>6 DEF Enter
  <2>2. PushedBy(kind) \in 0 .. 2
    <3>1. PushedBy(kind) = 0 \/ PushedBy(kind) = 1 \/ PushedBy(kind) = 2
      BY Zenon DEF PushedBy
    <3>. QED BY <3>1
  <2>3. Top.what \in Whats /\ env \in Env
    BY TopGood DEF FrameType
  <2>. QED BY <1>2, <2>1, <2>2, <2>3 DEF CallType
<1>13. c.kind = kind /\ c.base = n /\ c.pushed = PushedBy(kind) /\ c.ret = "none" /\ c.saved = env
  OBVIOUS
<1>. HIDE DEF c
<1>14. /\ calls' \in Seq(CallType) /\ calls' # <<>> /\ Len(calls') = Len(calls) + 1
       /\ DOMAIN calls' = 1 .. Len(calls) + 1 /\ calls'[Len(calls) + 1] = c /\ Call' = c
       /\ \A k \in DOMAIN calls : calls'[k] = calls[k] /\ (calls[k].ret = "none" \/ k = Len(calls))
       /\ \A j \in Nat : HasBase(calls', j) <=> HasBase(calls, j) \/ j = n
  BY <1>12, <1>13, NewCall
<1>15. TypeOK'
  BY <1>7, <1>8, <1>11, <1>14 DEF Inv, TypeOK, Enter
<1>16. /\ \A j \in 0 .. m : OnTo(frames', j) <=> OnTo(frames, j)
       /\ \A i \in 1 .. m : FrameOK(frames, calls, i)'
  <2>1. m \in 0 .. Depth /\ \A j \in 1 .. m : HasBase(calls', j) <=> HasBase(calls, j)
    BY <1>1, <1>2, <1>14
  <2>2. line' = line
    BY DEF Enter
  <2>. QED BY <1>11, <2>1, <2>2, FramesKept
<1>17. OnTo(frames', m) /\ OnTo(frames', n)
  <2>1. OnTo(frames, m)
    BY <1>1, <1>4, TopGood
  <2>2. OnTo(frames', m)
    BY <1>1, <1>16, <2>1
  <2>. QED BY <1>2, <1>9, <1>11, <2>2 DEF OnTo
<1>18. FrameOK(frames, calls, n)'
  <2>1. SkipOK(frames', n)
    BY <1>3, <1>9, <1>11, <1>17 DEF SkipOK
  <2>2. HasBase(calls', n)
    BY <1>14
  <2>. QED BY <1>8, <1>9, <1>11, <2>1, <2>2 DEF FrameOK
<1>19. FramesOK'
  <2>. SUFFICES ASSUME NEW i \in 1 .. Depth' PROVE FrameOK(frames, calls, i)'
    BY DEF FramesOK
  <2>1. i \in 1 .. m \/ i = n
    BY <1>1, <1>2, <1>11
  <2>. QED BY <2>1, <1>16, <1>18
<1>20. ASSUME NEW k \in DOMAIN calls PROVE CallOK(frames, calls, k)'
  <2>1. CallOK(frames, calls, k) /\ DOMAIN calls = 1 .. Len(calls) /\ Len(calls) \in Nat
    BY CallGood DEF Inv, CallsOK
  <2>2. PICK b \in Nat : b = calls[k].base /\ b \in 1 .. m
    BY <1>1, CallGood
  <2>3. k \in DOMAIN calls' /\ k \in Nat
    BY <1>14, <2>1
  <2>4. (\A j \in k + 1 .. Len(calls) : calls[j].base > b) =>
          frames[b].what = BaseWhat(calls[k].kind) /\ frames[b].inner = EnteredBy(calls[k])
    BY <2>1, <2>2 DEF CallOK
  <2>5. ASSUME \A j \in k + 1 .. Len(calls') : calls'[j].base > b
        PROVE  \A j \in k + 1 .. Len(calls) : calls[j].base > b
    <3>. SUFFICES ASSUME NEW j \in k + 1 .. Len(calls) PROVE calls[j].base > b
      OBVIOUS
    <3>1. j \in DOMAIN calls /\ j \in k + 1 .. Len(calls')
      BY <1>14, <2>1, <2>3
    <3>. QED BY <1>14, <2>5, <3>1
  <2>6. \A j \in 1 .. k : calls'[j] = calls[j]
    BY <1>14, <2>1, <2>3
  <2>7. calls'[k].ret = "none"
    BY <1>14 DEF Call
  <2>8. frames'[b] = frames[b] /\ \A i \in 1 .. b - 1 : frames'[i] = frames[i]
    BY <1>1, <1>11, <2>2
  <2>9. line' = line /\ b <= Len(frames') /\ Len(frames') \in Nat
    BY <1>1, <1>2, <1>11, <2>2 DEF Enter
  <2>10. (\A j \in k + 1 .. Len(calls') : calls'[j].base > b) =>
           frames'[b].what = BaseWhat(calls[k].kind) /\ frames'[b].inner = EnteredBy(calls[k])
    BY <2>4, <2>5, <2>8
  <2>. QED BY <2>2, <2>3, <2>6, <2>7, <2>8, <2>9, <2>10, CallKept
<1>21. PICK l \in Nat : l = Len(calls) + 1 /\ l > 1 /\ DOMAIN calls = 1 .. l - 1
  BY CallGood
<1>22. CallOK(frames, calls, l)'
  <2>1. calls'[l] = c /\ Len(calls') = l /\ DOMAIN calls' = 1 .. l
    BY <1>14, <1>21
  <2>2. \A j \in 1 .. l - 1 : calls'[j].base < n
    BY <1>1, <1>2, <1>14, <1>21, CallGood
  <2>3. frames'[n].what = BaseWhat(kind) /\ frames'[n].inner = EnteredBy(c)
    <3>1. e = Entered(kind, n, env)
      BY <1>5
    <3>. QED BY <1>9, <1>11, <1>13, <3>1 DEF EnteredBy
  <2>4. n \in 1 .. Len(frames') /\ n - 1 = m /\ n > 1
    BY <1>1, <1>2, <1>11
  <2>5. kind \in line' \cup {"source"} /\ frames'[m].inner = env
    <3>1. line' = line
      BY DEF Enter
    <3>2. frames'[m] = Top /\ env = Top.inner
      BY <1>1, <1>11 DEF Inv, Top
    <3>. QED BY <3>1, <3>2
  <2>6. \A j \in 1 .. l - 1 : calls'[j].base <= n
    <3>. SUFFICES ASSUME NEW j \in 1 .. l - 1 PROVE calls'[j].base <= n
      OBVIOUS
    <3>. QED BY <1>1, <1>2, <1>14, <1>21, CallGood
  <2>. QED BY <1>8, <1>13, <1>17, <1>21, <2>1, <2>2, <2>3, <2>4, <2>5, <2>6 DEF CallOK
<1>23. CallsOK'
  <2>. SUFFICES ASSUME NEW k \in DOMAIN calls' PROVE CallOK(frames, calls, k)'
    BY DEF CallsOK
  <2>1. k \in DOMAIN calls \/ k = l
    BY <1>14, <1>21
  <2>. QED BY <2>1, <1>20, <1>22
<1>24. EndsOK' /\ GotoOK'
  BY <1>13, <1>14 DEF EndsOK, GotoOK
<1>25. env' = Top'.inner
  BY <1>9, <1>11 DEF Enter, Top
<1>. QED BY <1>15, <1>19, <1>23, <1>24, <1>25 DEF Inv
\* .include and .binclude use the frame that is on top.
LEMMA IncludesAre ==
  ASSUME NEW kind \in Includes
  PROVE  kind \in Files /\ PushedBy(kind) \in 0 .. 2 /\ BaseWhat(kind) = "W_NONE"
<1>1. kind \in Files
  BY DEF Includes, Files
<1>2. kind \in {"source", "include", "binclude"}
  BY DEF Includes
<1>3. BaseWhat("include") = "W_NONE" /\ BaseWhat("binclude") = "W_NONE"
  BY DEF BaseWhat, Loops
<1>4. PushedBy("include") = 0 /\ PushedBy("binclude") = 1
  BY DEF PushedBy
<1>. QED BY <1>1, <1>3, <1>4 DEF Includes

\* In the frame of the line that includes a file
LEMMA IncludeStep ==
  ASSUME Inv, calls # <<>>, Call.ret = "none", Assembled, NEW kind \in line, kind \in Includes,
         NEW e, e = Entered(kind, Depth, env),
         Enter(kind, SetTop([Top EXCEPT !.what = "W_NONE"]), PushedBy(kind), e)
  PROVE  Inv'
<1>1. PICK n \in Nat \ {0} : n = Depth
  BY TopGood
<1>2. PICK m \in Nat : m = n - 1
  OBVIOUS
<1>3. PICK t \in FrameType : t = Top
  BY TopGood
<1>4. t.skip = 1 /\ OnTo(frames, n) /\ EnvGood(env, n) /\ env \in Env /\ t.inner = env
  BY <1>1, <1>3, TopGood DEF Inv
<1>5. frames \in Seq(FrameType) /\ Len(frames) = n /\ n \in 1 .. MaxFrames /\ frames[n] = t
  BY <1>1, <1>3 DEF Inv, TypeOK, Depth, Top
<1>. DEFINE h == [t EXCEPT !.what = "W_NONE"]
<1>. DEFINE f == [h EXCEPT !.inner = e]
<1>6. EnvGood(e, n) /\ e \in Env
  <2>1. kind \in Files \cup Loops
    BY DEF Includes, Files
  <2>2. EnvGood(Entered(kind, n, env), n)
    BY ONLY <1>4, <1>5, <2>1, EnteredGood
  <2>. QED BY <1>1, <2>2 DEF EnvGood
<1>7. "W_NONE" \in Whats /\ "W_NONE" \notin Choosing
  BY BasesApart DEF BaseWhats
<1>8. h \in FrameType /\ h.what = "W_NONE" /\ h.skip = 1 /\ h.on = t.on /\ h.taken = t.taken
  BY <1>4, <1>7 DEF FrameType
<1>9. \A c : Hidden(h, c) = Hidden(t, c)
  BY DEF Hidden, FrameType
<1>10. SetTop([Top EXCEPT !.what = "W_NONE"]) = [frames EXCEPT ![n] = h]
  BY <1>1, <1>3 DEF SetTop
<1>. HIDE DEF h
<1>11. /\ f \in FrameType /\ f.what = "W_NONE" /\ f.skip = 1 /\ f.on = t.on /\ f.taken = t.taken
       /\ f.inner = e
  BY <1>6, <1>8 DEF FrameType
<1>12. \A c : Hidden(f, c) = Hidden(t, c)
  <2>1. \A c : Hidden(f, c) = Hidden(h, c)
    BY <1>8 DEF Hidden, FrameType
  <2>. QED BY <1>9, <2>1
<1>. DEFINE g == [frames EXCEPT ![n] = h]
<1>a. g \in Seq(FrameType) /\ Len(g) = n /\ g[n] = h /\ \A i \in 1 .. m : g[i] = frames[i]
  BY <1>2, <1>5, <1>8
<1>. HIDE DEF g
<1>b. Len(SetTop([Top EXCEPT !.what = "W_NONE"])) = n
  BY <1>10, <1>a DEF g
<1>13. frames' = [g EXCEPT ![n] = f]
  <2>1. frames' = [g EXCEPT ![n].inner = e]
    BY <1>10, <1>b DEF Enter, g
  <2>. QED BY <1>a, <2>1
<1>. HIDE DEF f
<1>14. /\ frames' \in Seq(FrameType) /\ Len(frames') = n /\ Depth' = n /\ frames'[n] = f
       /\ \A i \in 1 .. m : frames'[i] = frames[i]
  BY <1>2, <1>5, <1>a, <1>11, <1>13 DEF Depth
<1>c. /\ kind \in Files /\ PushedBy(kind) \in 0 .. 2 /\ BaseWhat(kind) = "W_NONE"
  BY IncludesAre
<1>15. PICK c \in CallType :
         c = [kind |-> kind, base |-> n, pushed |-> PushedBy(kind), ret |-> "none",
              saved |-> env, what |-> t.what]
  BY <1>c, <1>4 DEF CallType, FrameType
<1>d. calls' = Append(calls, c)
  BY <1>3, <1>b, <1>15 DEF Enter
<1>16. /\ c.kind = kind /\ c.base = n /\ c.pushed = PushedBy(kind) /\ c.ret = "none" /\ c.saved = env
       /\ c.what = t.what
  BY <1>15
<1>17. /\ calls' \in Seq(CallType) /\ calls' # <<>> /\ Len(calls') = Len(calls) + 1
       /\ DOMAIN calls' = 1 .. Len(calls) + 1 /\ calls'[Len(calls) + 1] = c /\ Call' = c
       /\ \A k \in DOMAIN calls : calls'[k] = calls[k] /\ (calls[k].ret = "none" \/ k = Len(calls))
       /\ \A j \in Nat : HasBase(calls', j) <=> HasBase(calls, j) \/ j = n
  BY <1>d, <1>16, NewCall
<1>18. TypeOK'
  BY <1>5, <1>6, <1>14, <1>17 DEF Inv, TypeOK, Enter
<1>19. line' = line /\ m \in 0 .. Depth /\ \A j \in 1 .. m : HasBase(calls', j) <=> HasBase(calls, j)
  BY <1>1, <1>2, <1>17 DEF Enter
<1>20. /\ \A j \in 0 .. m : OnTo(frames', j) <=> OnTo(frames, j)
       /\ \A i \in 1 .. m : FrameOK(frames, calls, i)'
  BY <1>14, <1>19, FramesKept
<1>21. OnTo(frames', n)
  BY <1>2, <1>4, <1>5, <1>11, <1>14 DEF OnTo
<1>22. FrameOK(frames, calls, n)'
  <2>1. SkipOK(frames', n)
    BY <1>7, <1>11, <1>14, <1>21 DEF SkipOK
  <2>2. HasBase(calls', n)
    BY <1>17
  <2>. QED BY <1>6, <1>11, <1>14, <2>1, <2>2 DEF FrameOK
<1>23. FramesOK'
  <2>. SUFFICES ASSUME NEW i \in 1 .. Depth' PROVE FrameOK(frames, calls, i)'
    BY DEF FramesOK
  <2>1. i \in 1 .. m \/ i = n
    BY <1>2, <1>14
  <2>. QED BY <2>1, <1>20, <1>22
<1>24. PICK l \in Nat : l = Len(calls) + 1 /\ l > 1 /\ DOMAIN calls = 1 .. l - 1
  BY CallGood
<1>25. ASSUME NEW k \in DOMAIN calls PROVE CallOK(frames, calls, k)'
  <2>1. CallOK(frames, calls, k)
    BY DEF Inv, CallsOK
  <2>2. PICK b \in Nat : b = calls[k].base /\ b \in 1 .. n
    BY <1>1, CallGood
  <2>3. k \in DOMAIN calls' /\ k \in Nat /\ k >= 1 /\ k < l /\ Len(calls') = l
    BY <1>17, <1>24
  <2>4. b < n => /\ frames'[b] = frames[b]
                 /\ (\A j \in k + 1 .. Len(calls) : calls[j].base > b) =>
                      frames[b].what = BaseWhat(calls[k].kind) /\ frames[b].inner = EnteredBy(calls[k])
    BY <1>2, <1>14, <2>1, <2>2 DEF CallOK
  <2>5. ASSUME \A j \in k + 1 .. Len(calls') : calls'[j].base > b
        PROVE  b < n /\ \A j \in k + 1 .. Len(calls) : calls[j].base > b
    <3>1. l \in k + 1 .. Len(calls') /\ calls'[l].base = n
      BY <1>16, <1>17, <1>24, <2>3
    <3>2. b < n
      BY <2>5, <3>1, <2>2
    <3>. SUFFICES ASSUME NEW j \in k + 1 .. Len(calls) PROVE calls[j].base > b
      BY <3>2
    <3>3. j \in DOMAIN calls /\ j \in k + 1 .. Len(calls')
      BY <1>24, <2>3
    <3>. QED BY <1>17, <2>5, <3>3
  <2>6. \A j \in 1 .. k : calls'[j] = calls[j]
    BY <1>17, <1>24, <2>3
  <2>7. calls'[k].ret = "none"
    BY <1>17 DEF Call
  <2>8. \A i \in 1 .. b - 1 : frames'[i] = frames[i]
    BY <1>2, <1>14, <2>2
  <2>9. b <= Len(frames') /\ Len(frames') \in Nat
    BY <1>14, <2>2
  <2>10. (\A j \in k + 1 .. Len(calls') : calls'[j].base > b) =>
           frames'[b].what = BaseWhat(calls[k].kind) /\ frames'[b].inner = EnteredBy(calls[k])
    BY <2>4, <2>5
  <2>11. /\ frames'[b].skip = frames[b].skip /\ frames'[b].taken = frames[b].taken
         /\ Hidden(frames'[b], calls[k]) = Hidden(frames[b], calls[k])
    <3>1. CASE b = n
      BY <1>4, <1>5, <1>11, <1>12, <1>14, <3>1
    <3>2. CASE b < n
      BY <2>4, <3>2
    <3>. QED BY <2>2, <3>1, <3>2
  <2>. QED BY <1>19, <2>2, <2>3, <2>6, <2>7, <2>8, <2>9, <2>10, <2>11, CallKept
<1>26. CallOK(frames, calls, l)'
  <2>1. calls'[l] = c /\ Len(calls') = l
    BY <1>17, <1>24
  <2>2. ASSUME NEW j \in 1 .. l - 1 PROVE calls'[j] = calls[j] /\ calls[j].base <= n /\ calls[j].base \in 1 .. n
    BY <1>1, <1>17, <1>24, CallGood
  <2>3. frames'[n].what = BaseWhat(kind) /\ frames'[n].inner = EnteredBy(c)
    <3>1. e = Entered(kind, n, env)
      BY <1>1
    <3>. QED BY <1>c, <1>11, <1>14, <1>16, <3>1 DEF EnteredBy
  <2>4. kind \in line' /\ kind # "source" /\ kind \notin Loops
    BY <1>19 DEF Includes, Loops
  <2>5. l - 1 \in 1 .. l - 1 /\ Call = calls[l - 1] /\ 1 \in 1 .. l - 1 /\ l - 1 = Len(calls)
    BY <1>24 DEF Call
  <2>6. ASSUME calls'[l - 1].base = n
        PROVE  c.what = BaseWhat(calls'[l - 1].kind) /\ c.saved = EnteredBy(calls'[l - 1])
    <3>1. calls'[l - 1] = Call /\ Call.base = n
      BY <2>2, <2>5, <2>6
    <3>2. t.what = BaseWhat(Call.kind) /\ t.inner = EnteredBy(Call)
      BY <1>5, <3>1, CallGood
    <3>. QED BY <1>4, <1>16, <3>1, <3>2
  <2>7. ASSUME calls'[l - 1].base # n
        PROVE  /\ n > 1 /\ Gives(Hidden(frames[n], c), frames[n - 1].inner)'
               /\ c.what \in Choosing => frames'[n].taken
    <3>1. Depth > Call.base
      BY <1>1, <2>2, <2>5, <2>7
    <3>2. Gives(Top, frames[Depth - 1].inner) /\ Depth > 1
      BY <3>1, TopGives
    <3>3. Hidden(frames'[n], c) = t
      <4>1. Hidden(t, c) = t
        BY <1>4, <1>16 DEF Hidden, FrameType
      <4>. QED BY <1>12, <1>14, <4>1
    <3>4. frames'[n - 1] = frames[Depth - 1]
      BY <1>1, <1>2, <1>14, <3>2
    <3>5. UnionLines' = UnionLines
      BY <1>19 DEF UnionLines
    <3>6. Gives(Hidden(frames'[n], c), frames'[n - 1].inner)
      BY <1>3, <3>2, <3>3, <3>4
    <3>7. Gives(Hidden(frames[n], c), frames[n - 1].inner)'
      BY <3>5, <3>6 DEF Gives
    <3>8. FrameOK(frames, calls, n)
      BY <1>1, <1>5 DEF Inv, FramesOK
    <3>9. c.what \in Choosing => t.taken
      BY <1>4, <1>5, <1>16, <3>8 DEF FrameOK, SkipOK, OnTo
    <3>. QED BY <1>1, <1>11, <1>14, <3>2, <3>7, <3>9
  <2>. QED BY <1>4, <1>5, <1>11, <1>14, <1>16, <1>24, <2>1, <2>2, <2>3, <2>4, <2>6, <2>7 DEF CallOK
<1>27. CallsOK'
  <2>. SUFFICES ASSUME NEW k \in DOMAIN calls' PROVE CallOK(frames, calls, k)'
    BY DEF CallsOK
  <2>1. k \in DOMAIN calls \/ k = l
    BY <1>17, <1>24
  <2>. QED BY <2>1, <1>25, <1>26
<1>28. EndsOK' /\ GotoOK'
  BY <1>16, <1>17 DEF EndsOK, GotoOK
<1>29. env' = Top'.inner
  BY <1>11, <1>14 DEF Enter, Top
<1>. QED BY <1>18, <1>23, <1>27, <1>28, <1>29 DEF Inv
\* What each kind of activation begins with.
LEMMA KindsAre ==
  /\ BaseWhat("macrocall") = "W_ENDMACRO2" /\ PushedBy("macrocall") = 1
  /\ BaseWhat("segmentcall") = "W_ENDSEGMENT2" /\ PushedBy("segmentcall") = 0
  /\ BaseWhat("funccall") = "W_ENDF2" /\ PushedBy("funccall") = 2
  /\ BaseWhat("funcexpr") = "W_ENDF3" /\ PushedBy("funcexpr") = 2
  /\ BaseWhat("named struct") = "W_ENDS2" /\ PushedBy("named struct") = 1
  /\ BaseWhat("named union") = "W_ENDU2" /\ PushedBy("named union") = 1
  /\ BaseWhat("dstruct") = "W_ENDS3" /\ PushedBy("dstruct") = 0
  /\ BaseWhat("dunion") = "W_ENDU3" /\ PushedBy("dunion") = 1
  /\ BaseWhat("rept") = "W_ENDREPT2" /\ PushedBy("rept") = 0
  /\ BaseWhat("brept") = "W_ENDREPT2" /\ PushedBy("brept") = 1
  /\ PushedBy("include") = 0 /\ PushedBy("binclude") = 1
<1>1. /\ BaseWhat("macrocall") = "W_ENDMACRO2" /\ BaseWhat("segmentcall") = "W_ENDSEGMENT2"
      /\ BaseWhat("funccall") = "W_ENDF2" /\ BaseWhat("funcexpr") = "W_ENDF3"
      /\ BaseWhat("named struct") = "W_ENDS2" /\ BaseWhat("named union") = "W_ENDU2"
  BY DEF BaseWhat, Loops
<1>2. /\ BaseWhat("dstruct") = "W_ENDS3" /\ BaseWhat("dunion") = "W_ENDU3"
      /\ BaseWhat("rept") = "W_ENDREPT2" /\ BaseWhat("brept") = "W_ENDREPT2"
  BY DEF BaseWhat, Loops
<1>. QED BY <1>1, <1>2 DEF PushedBy

\* All the callers of compile.
LEMMA InvokeStep ==
  ASSUME Inv, NEW l, Invoke(l)
  PROVE  Inv'
<1>1. l \in line /\ calls # <<>> /\ Call.ret = "none" /\ Assembled
  BY DEF Invoke, Met, Running
<1>2. ASSUME Enter(l, With(New(BaseWhat(l), env)), PushedBy(l), Entered(l, Depth + 1, env)),
             l \in (Files \cup Loops) \ (Includes \cup {"source"})
      PROVE  Inv'
  BY <1>1, <1>2, EnterStep
<1>3. ASSUME Enter(l, SetTop([Top EXCEPT !.what = "W_NONE"]), PushedBy(l), Entered(l, Depth, env)),
             l \in Includes
      PROVE  Inv'
  BY <1>1, <1>3, IncludeStep
<1>4. CASE l \in Includes
  <2>1. CASE l = "include"
    <3>1. Enter(l, SetTop([Top EXCEPT !.what = "W_NONE"]), 0, env)
      BY <2>1 DEF Invoke
    <3>2. PushedBy(l) = 0 /\ Entered(l, Depth, env) = env
      BY <2>1, KindsAre DEF Entered
    <3>. QED BY <1>3, <1>4, <3>1, <3>2
  <2>2. CASE l = "binclude"
    <3>1. Enter(l, SetTop([Top EXCEPT !.what = "W_NONE"]), 1, PushContext(env))
      BY <2>2 DEF Invoke
    <3>2. PushedBy(l) = 1 /\ Entered(l, Depth, env) = PushContext(env)
      BY <2>2, KindsAre DEF Entered
    <3>. QED BY <1>3, <1>4, <3>1, <3>2
  <2>. QED BY <1>4, <2>1, <2>2 DEF Includes
<1>5. CASE l \in {"macrocall", "segmentcall", "funccall", "funcexpr", "named struct", "named union",
                  "dstruct", "dunion", "rept", "brept"}
  <2>1. l \in (Files \cup Loops) \ (Includes \cup {"source"})
    BY <1>5 DEF Files, Loops, Includes
  <2>2. CASE l = "macrocall"
    <3>1. Enter(l, With(New("W_ENDMACRO2", env)), 1, PushContext(env))
      BY <2>2 DEF Invoke
    <3>2. BaseWhat(l) = "W_ENDMACRO2" /\ PushedBy(l) = 1
      BY <2>2, KindsAre
    <3>3. Entered(l, Depth + 1, env) = PushContext(env)
      BY <2>2 DEF Entered
    <3>. QED BY <1>2, <2>1, <3>1, <3>2, <3>3
  <2>3. CASE l = "segmentcall"
    <3>1. Enter(l, With(New("W_ENDSEGMENT2", env)), 0, env)
      BY <2>3 DEF Invoke
    <3>2. BaseWhat(l) = "W_ENDSEGMENT2" /\ PushedBy(l) = 0
      BY <2>3, KindsAre
    <3>3. Entered(l, Depth + 1, env) = env
      BY <2>3 DEF Entered
    <3>. QED BY <1>2, <2>1, <3>1, <3>2, <3>3
  <2>4. CASE l = "funccall"
    <3>1. Enter(l, With(New("W_ENDF2", env)), 2, MemberOf(env))
      BY <2>4 DEF Invoke
    <3>2. BaseWhat(l) = "W_ENDF2" /\ PushedBy(l) = 2
      BY <2>4, KindsAre
    <3>3. Entered(l, Depth + 1, env) = MemberOf(env)
      BY <2>4 DEF Entered
    <3>. QED BY <1>2, <2>1, <3>1, <3>2, <3>3
  <2>5. CASE l = "funcexpr"
    <3>1. Enter(l, With(New("W_ENDF3", env)), 2, NewAddress(MemberOf(env), Depth + 1, FALSE))
      BY <2>5 DEF Invoke
    <3>2. BaseWhat(l) = "W_ENDF3" /\ PushedBy(l) = 2
      BY <2>5, KindsAre
    <3>3. Entered(l, Depth + 1, env) = NewAddress(MemberOf(env), Depth + 1, FALSE)
      BY <2>5 DEF Entered
    <3>. QED BY <1>2, <2>1, <3>1, <3>2, <3>3
  <2>6. CASE l = "named struct"
    <3>1. Enter(l, With(New("W_ENDS2", env)), 1, PushContext(NewAddress(env, Depth + 1, FALSE)))
      BY <2>6 DEF Invoke
    <3>2. BaseWhat(l) = "W_ENDS2" /\ PushedBy(l) = 1
      BY <2>6, KindsAre
    <3>3. Entered(l, Depth + 1, env) = PushContext(NewAddress(env, Depth + 1, FALSE))
      BY <2>6 DEF Entered
    <3>. QED BY <1>2, <2>1, <3>1, <3>2, <3>3
  <2>7. CASE l = "named union"
    <3>1. Enter(l, With(New("W_ENDU2", env)), 1, PushContext(NewAddress(env, Depth + 1, TRUE)))
      BY <2>7 DEF Invoke
    <3>2. BaseWhat(l) = "W_ENDU2" /\ PushedBy(l) = 1
      BY <2>7, KindsAre
    <3>3. Entered(l, Depth + 1, env) = PushContext(NewAddress(env, Depth + 1, TRUE))
      BY <2>7 DEF Entered
    <3>. QED BY <1>2, <2>1, <3>1, <3>2, <3>3
  <2>8. CASE l = "dstruct"
    <3>1. Enter(l, With(New("W_ENDS3", env)), 0, UnionMode(env, FALSE))
      BY <2>8 DEF Invoke
    <3>2. BaseWhat(l) = "W_ENDS3" /\ PushedBy(l) = 0
      BY <2>8, KindsAre
    <3>3. Entered(l, Depth + 1, env) = UnionMode(env, FALSE)
      BY <2>8 DEF Entered
    <3>. QED BY <1>2, <2>1, <3>1, <3>2, <3>3
  <2>9. CASE l = "dunion"
    <3>1. Enter(l, With(New("W_ENDU3", env)), 1, PushContext(UnionMode(env, TRUE)))
      BY <2>9 DEF Invoke
    <3>2. BaseWhat(l) = "W_ENDU3" /\ PushedBy(l) = 1
      BY <2>9, KindsAre
    <3>3. Entered(l, Depth + 1, env) = PushContext(UnionMode(env, TRUE))
      BY <2>9 DEF Entered
    <3>. QED BY <1>2, <2>1, <3>1, <3>2, <3>3
  <2>10. CASE l = "rept"
    <3>1. Enter(l, With(New("W_ENDREPT2", env)), 0, env)
      BY <2>10 DEF Invoke
    <3>2. BaseWhat(l) = "W_ENDREPT2" /\ PushedBy(l) = 0
      BY <2>10, KindsAre
    <3>3. Entered(l, Depth + 1, env) = env
      BY <2>10 DEF Entered
    <3>. QED BY <1>2, <2>1, <3>1, <3>2, <3>3
  <2>11. CASE l = "brept"
    <3>1. Enter(l, With(New("W_ENDREPT2", env)), 1, PushContext(env))
      BY <2>11 DEF Invoke
    <3>2. BaseWhat(l) = "W_ENDREPT2" /\ PushedBy(l) = 1
      BY <2>11, KindsAre
    <3>3. Entered(l, Depth + 1, env) = PushContext(env)
      BY <2>11 DEF Entered
    <3>. QED BY <1>2, <2>1, <3>1, <3>2, <3>3
  <2>. QED BY <1>5, <2>2, <2>3, <2>4, <2>5, <2>6, <2>7, <2>8, <2>9, <2>10, <2>11
<1>. QED BY <1>4, <1>5 DEF Invoke, Includes
(***************************************************************************)
(* Activations that end.                                                   *)
(***************************************************************************)
LEMMA LeftIs ==
  ASSUME Inv, calls # <<>>, Depth = Call.base
  PROVE  Left = Call.saved /\ env = EnteredBy(Call) /\ EnvGood(Call.saved, Depth)
<1>1. PICK n \in 1 .. MaxFrames : n = Depth
  BY DEF Inv, TypeOK
<1>2. PICK c \in CallType : c = Call
  BY CallGood
<1>3. PICK l \in Nat \ {0} : l = Len(calls) /\ c = calls[l]
  BY <1>2, CallGood
<1>4. CallOK(frames, calls, l)
  BY <1>3, CallGood
<1>5. c.base = n /\ EnvGood(c.saved, n) /\ c.pushed = PushedBy(c.kind)
  BY <1>1, <1>2, <1>3, <1>4 DEF CallOK
<1>6. ASSUME c.kind \in {"funcexpr", "named struct", "named union"}
      PROVE  ~c.saved.union[<<"local", n>>]
  <2>1. c.kind \notin Includes /\ c.kind # "source"
    BY <1>6 DEF Includes
  <2>2. l > 1 /\ n > 1 /\ c.saved = frames[n - 1].inner
    BY <1>3, <1>4, <1>5, <2>1 DEF CallOK
  <2>3. n - 1 \in 1 .. Depth
    BY <1>1, <2>2
  <2>4. EnvGood(frames[n - 1].inner, n - 1)
    BY <2>3 DEF Inv, FramesOK, FrameOK
  <2>. QED BY <2>2, <2>4 DEF EnvGood
<1>7. LeftFrom(c, EnteredBy(c)) = c.saved
  BY <1>5, <1>6, LeftAsBefore
<1>8. env = EnteredBy(c)
  BY <1>1, <1>2, CallGood DEF Inv, Top
<1>9. Left = LeftFrom(Call, env)
  BY DEF Left, LeftFrom
<1>10. Left = LeftFrom(c, EnteredBy(c))
  BY ONLY <1>2, <1>8, <1>9
<1>. QED BY <1>1, <1>2, <1>5, <1>7, <1>8, <1>10

\* The activations without the last one.
LEMMA OuterIs ==
  ASSUME Inv, calls # <<>>, Call.kind # "source", calls' = Outer
  PROVE  /\ Len(calls) \in Nat /\ Len(calls) > 1 /\ DOMAIN calls = 1 .. Len(calls)
         /\ calls' \in Seq(CallType) /\ Len(calls') = Len(calls) - 1
         /\ DOMAIN calls' = 1 .. Len(calls) - 1 /\ calls' # <<>>
         /\ \A k \in 1 .. Len(calls) - 1 : calls'[k] = calls[k] /\ calls'[k].ret = "none"
         /\ Call'.ret = "none"
         /\ \A j \in Nat : HasBase(calls, j) <=> HasBase(calls', j) \/ j = Call.base
<1>1. PICK n \in Nat \ {0} : n = Len(calls)
  BY CallGood
<1>2. calls \in Seq(CallType) /\ DOMAIN calls = 1 .. n /\ Call = calls[n] /\ CallOK(frames, calls, n)
  BY <1>1, CallGood DEF Inv, TypeOK
<1>3. n > 1
  BY <1>1, <1>2 DEF CallOK
<1>4. PICK m \in Nat : m = n - 1
  BY <1>1
<1>5. calls' = SubSeq(calls, 1, m)
  BY <1>1, <1>4 DEF Outer
<1>6. /\ calls' \in Seq(CallType) /\ Len(calls') = m /\ DOMAIN calls' = 1 .. m
      /\ \A k \in 1 .. m : calls'[k] = calls[k]
  BY <1>1, <1>2, <1>4, <1>5
<1>7. ASSUME NEW k \in 1 .. m PROVE calls'[k].ret = "none"
  <2>1. k \in DOMAIN calls /\ k < Len(calls)
    BY <1>1, <1>2, <1>4, <1>7
  <2>2. CallOK(frames, calls, k)
    BY <2>1 DEF Inv, CallsOK
  <2>3. calls[k].ret = "none"
    BY <2>1, <2>2 DEF CallOK
  <2>. QED BY <1>6, <1>7, <2>3
<1>8. Call' = calls'[m] /\ m \in 1 .. m
  BY <1>3, <1>4, <1>6 DEF Call
<1>9. \A j \in Nat : HasBase(calls, j) <=> HasBase(calls', j) \/ j = Call.base
  <2>. SUFFICES ASSUME NEW j \in Nat
                PROVE  HasBase(calls, j) <=> HasBase(calls', j) \/ j = Call.base
    OBVIOUS
  <2>1. \A k : k \in 1 .. n <=> k \in 1 .. m \/ k = n
    BY <1>1, <1>4
  <2>. QED BY <1>2, <1>6, <2>1 DEF HasBase
<1>. QED BY <1>1, <1>2, <1>3, <1>4, <1>6, <1>7, <1>8, <1>9

\* An activation with a frame of its own ends and its frame goes, or stays
\* for the line that closes it.
LEMMA LeaveStep ==
  ASSUME Inv, calls # <<>>, Depth = Call.base, Call.kind \notin Includes \cup {"source"},
         calls' = Outer, env' = Left, UNCHANGED <<lbl, line>>, NEW g \in FrameType,
         frames' \in {Below, SetTop(g)},
         g.what \in {"W_ENDS", "W_ENDU", "W_ENDREPT"}, g.skip = 0, g.on = FALSE, g.inner = Call.saved
  PROVE  Inv'
<1>1. PICK n \in Nat \ {0} : n = Depth
  BY TopGood
<1>2. PICK m \in Nat : m = n - 1
  OBVIOUS
<1>3. PICK l \in Nat \ {0} : l = Len(calls) /\ l > 1 /\ DOMAIN calls = 1 .. l
  BY OuterIs
<1>4. CallOK(frames, calls, l) /\ Call = calls[l]
  BY <1>3, CallGood
<1>5. n > 1 /\ Call.saved = frames[m].inner /\ \A k \in 1 .. l - 1 : calls[k].base < n
  BY <1>1, <1>2, <1>3, <1>4 DEF CallOK
<1>6. Left = frames[m].inner /\ EnvGood(frames[m].inner, n) /\ Left \in Env
  BY <1>1, <1>5, LeftIs DEF EnvGood
<1>7. frames \in Seq(FrameType) /\ Len(frames) = n /\ n \in 1 .. MaxFrames
  BY <1>1 DEF Inv, TypeOK, Depth
<1>8. /\ frames' \in Seq(FrameType) /\ Len(frames') \in {m, n} /\ Depth' = Len(frames')
      /\ \A i \in 1 .. m : frames'[i] = frames[i]
      /\ Len(frames') = n => frames'[n] = g
  <2>1. CASE frames' = Below
    <3>1. frames' = SubSeq(frames, 1, m)
      BY <1>1, <1>2, <2>1 DEF Below
    <3>. QED BY <1>2, <1>5, <1>7, <3>1 DEF Depth
  <2>2. CASE frames' = SetTop(g)
    <3>1. frames' = [frames EXCEPT ![n] = g]
      BY <1>1, <2>2 DEF SetTop
    <3>. QED BY <1>2, <1>5, <1>7, <3>1 DEF Depth
  <2>. QED BY <2>1, <2>2
<1>9. TypeOK'
  <2>1. Depth' \in 1 .. MaxFrames
    BY <1>2, <1>5, <1>7, <1>8, BoundsAssumption
  <2>. QED BY <1>6, <1>8, <2>1, OuterIs DEF Inv, TypeOK
<1>10. /\ \A j \in 0 .. m : OnTo(frames', j) <=> OnTo(frames, j)
       /\ \A i \in 1 .. m : FrameOK(frames, calls, i)'
  <2>1. m \in 0 .. Depth /\ \A j \in 1 .. m : HasBase(calls', j) <=> HasBase(calls, j)
    BY <1>1, <1>2, OuterIs
  <2>. QED BY <1>8, <2>1, FramesKept
<1>11. ASSUME Len(frames') = n PROVE FrameOK(frames, calls, n)'
  <2>1. frames'[n] = g /\ frames'[n - 1] = frames[m]
    BY <1>2, <1>5, <1>8, <1>11
  <2>2. ~OnTo(frames', n)
    BY <2>1 DEF OnTo
  <2>3. g.what \notin Choosing /\ g.what \notin BaseWhats /\ g.what \notin Changing
    BY DEF Choosing, BaseWhats, Changing, Scopes
  <2>4. SkipOK(frames', n)
    BY <2>1, <2>2, <2>3 DEF SkipOK
  <2>5. Closed(g, g.inner) = g.inner
    BY <2>3, ClosedPlain
  <2>6. Gives(frames[n], frames[n - 1].inner)'
    BY <1>5, <2>1, <2>3, <2>5 DEF Gives
  <2>. QED BY <1>5, <1>6, <2>1, <2>4, <2>6 DEF FrameOK
<1>12. FramesOK'
  <2>. SUFFICES ASSUME NEW i \in 1 .. Depth' PROVE FrameOK(frames, calls, i)'
    BY DEF FramesOK
  <2>1. i \in 1 .. m \/ (i = n /\ Len(frames') = n)
    BY <1>2, <1>8
  <2>. QED BY <2>1, <1>10, <1>11
<1>13. CallsOK'
  <2>. SUFFICES ASSUME NEW k \in DOMAIN calls' PROVE CallOK(frames, calls, k)'
    BY DEF CallsOK
  <2>1. k \in 1 .. l - 1 /\ k \in DOMAIN calls /\ Len(calls') = l - 1
    BY <1>3, OuterIs
  <2>2. CallOK(frames, calls, k)
    BY <2>1 DEF Inv, CallsOK
  <2>3. PICK b \in Nat : b = calls[k].base /\ b \in 1 .. m
    BY <1>1, <1>2, <1>5, <2>1, CallGood
  <2>4. (\A j \in k + 1 .. Len(calls) : calls[j].base > b) =>
          frames[b].what = BaseWhat(calls[k].kind) /\ frames[b].inner = EnteredBy(calls[k])
    BY <2>2, <2>3 DEF CallOK
  <2>5. ASSUME \A j \in k + 1 .. Len(calls') : calls'[j].base > b
        PROVE  \A j \in k + 1 .. Len(calls) : calls[j].base > b
    <3>. SUFFICES ASSUME NEW j \in k + 1 .. l PROVE calls[j].base > b
      BY <1>3
    <3>1. CASE j = l
      BY <1>1, <1>2, <1>4, <2>3, <3>1
    <3>2. CASE j # l
      <4>1. j \in 1 .. Len(calls) - 1 /\ j \in k + 1 .. Len(calls')
        BY <1>3, <2>1, <3>2
      <4>2. calls'[j] = calls[j]
        BY <4>1, OuterIs
      <4>. QED BY <2>5, <4>1, <4>2
    <3>. QED BY <3>1, <3>2
  <2>6. \A j \in 1 .. k : calls'[j] = calls[j]
    BY <1>3, <2>1, OuterIs
  <2>7. calls'[k].ret = "none"
    BY <1>3, <2>1, OuterIs
  <2>8. frames'[b] = frames[b] /\ \A i \in 1 .. b - 1 : frames'[i] = frames[i]
    BY <1>2, <1>8, <2>3
  <2>9. line' = line /\ b <= Len(frames') /\ Len(frames') \in Nat
    BY <1>2, <1>8, <2>3
  <2>10. (\A j \in k + 1 .. Len(calls') : calls'[j].base > b) =>
           frames'[b].what = BaseWhat(calls[k].kind) /\ frames'[b].inner = EnteredBy(calls[k])
    BY <2>4, <2>5, <2>8
  <2>. QED BY <2>1, <2>3, <2>6, <2>7, <2>8, <2>9, <2>10, CallKept
<1>14. EndsOK' /\ GotoOK'
  BY OuterIs DEF EndsOK, GotoOK
<1>15. env' = Top'.inner
  <2>1. CASE Len(frames') = n
    BY <1>5, <1>6, <1>8, <2>1 DEF Top
  <2>2. CASE Len(frames') = m
    <3>1. m \in 1 .. m
      BY <1>2, <1>5
    <3>. QED BY <1>6, <1>8, <2>2, <3>1 DEF Top
  <2>. QED BY <1>8, <2>1, <2>2
<1>. QED BY <1>9, <1>12, <1>13, <1>14, <1>15 DEF Inv
\* The kind that a caller tests is the kind its activation began with.
LEMMA BaseOfIs ==
  ASSUME NEW kind \in DOMAIN BaseOf
  PROVE  BaseWhat(kind) = BaseOf[kind]
<1>1. kind \in {"macrocall", "segmentcall", "funccall", "funcexpr", "dstruct", "dunion"}
  BY DEF BaseOf
<1>2. /\ BaseOf["macrocall"] = "W_ENDMACRO2" /\ BaseOf["segmentcall"] = "W_ENDSEGMENT2"
      /\ BaseOf["funccall"] = "W_ENDF2" /\ BaseOf["funcexpr"] = "W_ENDF3"
      /\ BaseOf["dstruct"] = "W_ENDS3" /\ BaseOf["dunion"] = "W_ENDU3"
  BY DEF BaseOf
<1>. QED BY <1>1, <1>2, KindsAre

\* The frame of a caller that gets its own kind back.
LEMMA RestoredType ==
  ASSUME NEW f \in FrameType, NEW what \in Whats, NEW e \in Env
  PROVE  [f EXCEPT !.what = what, !.inner = e] \in FrameType
<1>. DEFINE h == [f EXCEPT !.what = what]
<1>1. [f EXCEPT !.what = what, !.inner = e] = [h EXCEPT !.inner = e]
  OBVIOUS
<1>2. h \in FrameType
  BY DEF FrameType
<1>. HIDE DEF h
<1>3. [h EXCEPT !.inner = e] \in FrameType
  BY <1>2 DEF FrameType
<1>. QED BY <1>1, <1>3

\* A macro, function, structure or loop returns.
LEMMA LeaveCallStep ==
  ASSUME Inv, ReturnCall \/ ReturnNamed \/ LoopEnds
  PROVE  Inv'
<1>1. /\ calls # <<>> /\ Depth = Call.base /\ calls' = Outer /\ env' = Left
      /\ UNCHANGED <<lbl, line>>
  BY DEF ReturnCall, ReturnNamed, LoopEnds, Returned, Back
<1>2. PICK f \in FrameType : f = Top
  BY TopGood
<1>3. PICK e \in Env : e = Call.saved
  BY <1>1, CallGood DEF CallType
<1>4. Call.kind \in DOMAIN BaseOf \cup {"named struct", "named union"} \cup Loops
  BY DEF ReturnCall, ReturnNamed, LoopEnds, Returned
<1>5. Call.kind \notin Includes \cup {"source"}
  BY <1>4 DEF BaseOf, Loops, Includes
<1>6. Top.what = BaseWhat(Call.kind)
  BY <1>1, CallGood DEF Top
<1>7. \E what \in {"W_ENDS", "W_ENDU", "W_ENDREPT"} : frames' \in {Below, SetTop(Off(Restored(what)))}
  <2>1. CASE ReturnCall
    <3>1. frames' = CloseFrame(BaseOf[Call.kind]) /\ Call.kind \in DOMAIN BaseOf
      BY <2>1 DEF ReturnCall, Back, Returned
    <3>2. BaseWhat(Call.kind) = BaseOf[Call.kind]
      BY <3>1, BaseOfIs
    <3>. QED BY <1>6, <3>1, <3>2 DEF CloseFrame
  <2>2. CASE ReturnNamed
    BY <2>2 DEF ReturnNamed, Back
  <2>3. CASE LoopEnds
    <3>1. Call.kind \in Loops
      BY <2>3 DEF LoopEnds, Returned
    <3>2. BaseWhat(Call.kind) = "W_ENDREPT2"
      BY <3>1, KindsAre DEF Loops
    <3>. QED BY <1>6, <2>3, <3>2 DEF LoopEnds, Back, CloseFrame
  <2>. QED BY <2>1, <2>2, <2>3
<1>8. PICK what \in {"W_ENDS", "W_ENDU", "W_ENDREPT"} :
        frames' \in {Below, SetTop(Off([f EXCEPT !.what = what, !.inner = e]))}
  BY <1>2, <1>3, <1>7 DEF Restored
<1>. DEFINE h == [f EXCEPT !.what = what, !.inner = e]
<1>9. what \in Whats
  BY WhatsAre
<1>10. h \in FrameType /\ h.what = what /\ h.inner = e
  <2>1. h \in FrameType
    BY <1>9, RestoredType
  <2>2. h.what = what
    BY DEF FrameType
  <2>3. h.inner = e
    BY DEF FrameType
  <2>. HIDE DEF h
  <2>. QED BY ONLY <2>1, <2>2, <2>3
<1>11. frames' \in {Below, SetTop(Off(h))}
  BY <1>8
<1>. HIDE DEF h
<1>12. /\ Off(h) \in FrameType /\ Off(h).what = what /\ Off(h).skip = 0 /\ Off(h).on = FALSE
       /\ Off(h).inner = Call.saved
  BY <1>3, <1>10, OffType
<1>. QED BY <1>1, <1>5, <1>11, <1>12, LeaveStep

\* An included file ends; its caller puts the kind of the frame back.
LEMMA LeaveIncludeStep ==
  ASSUME Inv, ReturnInclude
  PROVE  Inv'
<1>1. /\ calls # <<>> /\ Depth = Call.base /\ calls' = Outer /\ env' = Left
      /\ UNCHANGED <<lbl, line>> /\ Call.kind \in Includes /\ Call.kind # "source"
      /\ frames' = SetTop(Restored(Call.what))
  BY DEF ReturnInclude, Returned, Back, Includes
<1>2. PICK n \in Nat \ {0} : n = Depth
  BY TopGood
<1>3. PICK m \in Nat : m = n - 1
  OBVIOUS
<1>4. PICK l \in Nat \ {0} : l = Len(calls) /\ l > 1 /\ DOMAIN calls = 1 .. l
  <2>1. Len(calls) \in Nat \ {0} /\ Len(calls) > 1 /\ DOMAIN calls = 1 .. Len(calls)
    BY <1>1, CallGood, OuterIs
  <2>. QED BY <2>1
<1>5. PICK f \in FrameType : f = Top
  BY TopGood
<1>6. PICK c \in CallType : c = Call /\ c = calls[l] /\ c.base = n
  BY <1>1, <1>2, <1>4, CallGood
<1>7. CallOK(frames, calls, l)
  BY <1>1, <1>4, CallGood
<1>8. frames \in Seq(FrameType) /\ Len(frames) = n /\ n \in 1 .. MaxFrames /\ frames[n] = f
  BY <1>2, <1>5 DEF Inv, TypeOK, Depth, Top
<1>9. /\ f.skip = 1 /\ (\A k \in 1 .. l - 1 : calls[k].base <= n)
      /\ calls[l - 1].base = n =>
           c.what = BaseWhat(calls[l - 1].kind) /\ c.saved = EnteredBy(calls[l - 1])
      /\ calls[l - 1].base # n =>
           /\ n > 1 /\ Gives(Hidden(f, c), frames[n - 1].inner)
           /\ c.what \in Choosing => f.taken
  BY <1>1, <1>4, <1>6, <1>7, <1>8 DEF CallOK
<1>10. c.what \in Whats /\ c.saved \in Env
  BY DEF CallType
<1>. DEFINE g == [f EXCEPT !.what = c.what, !.inner = c.saved]
<1>11. /\ g \in FrameType /\ g.what = c.what /\ g.inner = c.saved /\ g.skip = f.skip
       /\ g.on = f.on /\ g.taken = f.taken
  <2>1. g \in FrameType
    BY <1>10, RestoredType
  <2>2. g.what = c.what /\ g.skip = f.skip /\ g.on = f.on /\ g.taken = f.taken
    BY DEF FrameType
  <2>3. g.inner = c.saved
    BY DEF FrameType
  <2>. HIDE DEF g
  <2>. QED BY ONLY <2>1, <2>2, <2>3
<1>12. g = Hidden(f, c) /\ frames' = [frames EXCEPT ![n] = g]
  BY <1>1, <1>2, <1>5, <1>6 DEF Hidden, SetTop, Restored
<1>13. \A d : Hidden(g, d) = Hidden(f, d)
  <2>. DEFINE h == [f EXCEPT !.what = c.what]
  <2>1. h \in FrameType /\ \A d : Hidden(h, d) = Hidden(f, d)
    BY <1>10 DEF Hidden, FrameType
  <2>2. g = [h EXCEPT !.inner = c.saved]
    OBVIOUS
  <2>. HIDE DEF g, h
  <2>3. \A d : Hidden(g, d) = Hidden(h, d)
    BY <1>10, <2>1, <2>2 DEF Hidden, FrameType
  <2>. QED BY <2>1, <2>3
<1>. HIDE DEF g
<1>14. /\ frames' \in Seq(FrameType) /\ Len(frames') = n /\ Depth' = n /\ frames'[n] = g
       /\ \A i \in 1 .. m : frames'[i] = frames[i]
  BY <1>3, <1>8, <1>11, <1>12 DEF Depth
<1>15. Left = c.saved /\ EnvGood(c.saved, n) /\ env' = c.saved
  BY <1>1, <1>2, <1>6, LeftIs
<1>16. TypeOK'
  BY <1>1, <1>8, <1>10, <1>14, <1>15, OuterIs DEF Inv, TypeOK
<1>17. m \in 0 .. Depth /\ line' = line /\ \A j \in 1 .. m : HasBase(calls', j) <=> HasBase(calls, j)
  BY <1>1, <1>2, <1>3, OuterIs
<1>18. /\ \A j \in 0 .. m : OnTo(frames', j) <=> OnTo(frames, j)
       /\ \A i \in 1 .. m : FrameOK(frames, calls, i)'
  BY <1>14, <1>17, FramesKept
<1>19. OnTo(frames', n)
  <2>1. OnTo(frames, n)
    BY <1>2, <1>5, <1>9, TopGood
  <2>. QED BY <1>3, <1>8, <1>11, <1>14, <2>1 DEF OnTo
<1>20. ASSUME ~HasBase(calls', n)
       PROVE  n > 1 /\ Gives(g, frames[n - 1].inner) /\ (c.what \in Choosing => f.taken)
  <2>1. l - 1 \in DOMAIN calls' /\ calls'[l - 1] = calls[l - 1]
    BY <1>1, <1>4, OuterIs
  <2>2. calls[l - 1].base # n
    BY <1>20, <2>1 DEF HasBase
  <2>. QED BY <1>9, <1>12, <2>2
<1>21. c.what \in Choosing => f.taken
  <2>1. CASE calls[l - 1].base = n
    <3>1. calls[l - 1].kind \in Files \cup Loops
      <4>1. l - 1 \in 1 .. Len(calls) /\ calls \in Seq(CallType)
        BY <1>4 DEF Inv, TypeOK
      <4>2. calls[l - 1] \in CallType
        BY <4>1
      <4>. QED BY <4>2 DEF CallType
    <3>. QED BY <1>9, <2>1, <3>1, BaseWhatIs, BasesApart
  <2>2. CASE calls[l - 1].base # n
    BY <1>9, <2>2
  <2>. QED BY <2>1, <2>2
<1>22. FrameOK(frames, calls, n)'
  <2>1. SkipOK(frames', n)
    BY <1>9, <1>11, <1>14, <1>19, <1>21 DEF SkipOK, FrameType
  <2>2. n > 1 /\ ~HasBase(calls', n) => Gives(frames[n], frames[n - 1].inner)'
    <3>1. UnionLines' = UnionLines
      BY <1>17 DEF UnionLines
    <3>2. n > 1 => frames'[n - 1] = frames[n - 1]
      BY <1>3, <1>14
    <3>. QED BY <1>14, <1>20, <3>1, <3>2 DEF Gives
  <2>. QED BY <1>11, <1>14, <1>15, <2>1, <2>2 DEF FrameOK
<1>23. FramesOK'
  <2>. SUFFICES ASSUME NEW i \in 1 .. Depth' PROVE FrameOK(frames, calls, i)'
    BY DEF FramesOK
  <2>1. i \in 1 .. m \/ i = n
    BY <1>3, <1>14
  <2>. QED BY <2>1, <1>18, <1>22
<1>24. CallsOK'
  <2>. SUFFICES ASSUME NEW k \in DOMAIN calls' PROVE CallOK(frames, calls, k)'
    BY DEF CallsOK
  <2>1. k \in 1 .. l - 1 /\ k \in DOMAIN calls /\ Len(calls') = l - 1
    BY <1>1, <1>4, OuterIs
  <2>2. CallOK(frames, calls, k)
    BY <2>1 DEF Inv, CallsOK
  <2>3. PICK b \in Nat : b = calls[k].base /\ b \in 1 .. n
    BY <1>1, <1>2, <2>1, CallGood
  <2>4. \A j \in 1 .. l - 1 : calls'[j] = calls[j]
    BY <1>1, <1>4, OuterIs
  <2>5. calls'[k].ret = "none"
    BY <1>1, <1>4, <2>1, OuterIs
  <2>6. ASSUME \A j \in k + 1 .. Len(calls') : calls'[j].base > b
        PROVE  frames'[b].what = BaseWhat(calls[k].kind) /\ frames'[b].inner = EnteredBy(calls[k])
    <3>1. CASE b < n
      <4>1. \A j \in k + 1 .. Len(calls) : calls[j].base > b
        <5>. SUFFICES ASSUME NEW j \in k + 1 .. l PROVE calls[j].base > b
          BY <1>4
        <5>1. CASE j = l
          BY <1>6, <3>1, <5>1
        <5>2. CASE j # l
          <6>1. j \in 1 .. l - 1 /\ j \in k + 1 .. Len(calls')
            BY <1>4, <2>1, <5>2
          <6>. QED BY <2>4, <2>6, <6>1
        <5>. QED BY <5>1, <5>2
      <4>2. frames[b].what = BaseWhat(calls[k].kind) /\ frames[b].inner = EnteredBy(calls[k])
        BY <2>2, <2>3, <4>1 DEF CallOK
      <4>3. frames'[b] = frames[b]
        BY <1>3, <1>14, <2>3, <3>1
      <4>. QED BY <4>2, <4>3
    <3>2. CASE b = n
      <4>1. k = l - 1
        <5>1. CASE k < l - 1
          <6>1. l - 1 \in k + 1 .. Len(calls') /\ l - 1 \in 1 .. l - 1
            BY <1>4, <2>1, <5>1
          <6>2. calls[l - 1].base > n /\ calls[l - 1].base <= n
            BY <1>9, <2>4, <2>6, <3>2, <6>1
          <6>3. calls[l - 1].base \in Nat
            BY <6>1, <1>1, <1>4, CallGood
          <6>. QED BY <6>2, <6>3
        <5>. QED BY <1>4, <2>1, <5>1
      <4>. QED BY <1>9, <1>11, <1>14, <2>3, <3>2, <4>1
    <3>. QED BY <2>3, <3>1, <3>2
  <2>7. /\ frames'[b].skip = frames[b].skip /\ frames'[b].taken = frames[b].taken
        /\ Hidden(frames'[b], calls[k]) = Hidden(frames[b], calls[k])
    <3>1. CASE b = n
      BY <1>8, <1>11, <1>13, <1>14, <3>1
    <3>2. CASE b # n
      <4>1. frames'[b] = frames[b]
        BY <1>3, <1>14, <2>3, <3>2
      <4>. QED BY <4>1
    <3>. QED BY <3>1, <3>2
  <2>8. b <= Len(frames') /\ Len(frames') \in Nat /\ \A i \in 1 .. b - 1 : frames'[i] = frames[i]
    BY <1>3, <1>14, <2>3
  <2>9. \A j \in 1 .. k : calls'[j] = calls[j]
    BY <1>4, <2>1, <2>4
  <2>. QED BY <1>17, <2>1, <2>3, <2>5, <2>6, <2>7, <2>8, <2>9, CallKept
<1>25. EndsOK' /\ GotoOK'
  BY <1>1, OuterIs DEF EndsOK, GotoOK
<1>26. env' = Top'.inner
  BY <1>11, <1>14, <1>15 DEF Top
<1>. QED BY <1>16, <1>23, <1>24, <1>25, <1>26 DEF Inv
\* Each round of a loop begins in the same environment.
LEMMA LoopEntered ==
  ASSUME NEW n, NEW e
  PROVE  Entered("rept", n, e) = e /\ Entered("brept", n, e) = PushContext(e)
BY DEF Entered

\* The next round of a loop.
LEMMA LoopGoesOnStep ==
  ASSUME Inv, LoopGoesOn
  PROVE  Inv'
<1>1. /\ calls # <<>> /\ Depth = Call.base /\ Call.kind \in Loops /\ UNCHANGED <<lbl, line>>
      /\ calls' = SetCall([Call EXCEPT !.ret = "none"])
      /\ frames' = SetTop([Top EXCEPT !.skip = 1, !.on = TRUE])
      /\ env' = IF Call.pushed = 1 THEN PushContext(Left) ELSE Left
  BY DEF LoopGoesOn, Returned
<1>2. PICK n \in Nat \ {0} : n = Depth
  BY TopGood
<1>3. PICK m \in Nat : m = n - 1
  OBVIOUS
<1>4. PICK l \in Nat \ {0} : l = Len(calls) /\ DOMAIN calls = 1 .. l
  BY <1>1, CallGood
<1>5. PICK f \in FrameType : f = Top
  BY TopGood
<1>6. PICK c \in CallType : c = Call /\ c = calls[l] /\ c.base = n
  BY <1>1, <1>2, <1>4, CallGood
<1>7. CallOK(frames, calls, l)
  BY <1>1, <1>4, CallGood
<1>8. frames \in Seq(FrameType) /\ Len(frames) = n /\ n \in 1 .. MaxFrames /\ frames[n] = f
  BY <1>2, <1>5 DEF Inv, TypeOK, Depth, Top
<1>9. /\ c.kind \in Loops /\ c.kind \notin Includes /\ c.kind # "source" /\ c.pushed = PushedBy(c.kind)
      /\ OnTo(frames, m) /\ \A k \in 1 .. l - 1 : calls[k].base < n
  <2>1. c.kind \in Loops /\ c.kind \notin Includes /\ c.kind # "source"
    BY <1>1, <1>6 DEF Loops, Includes
  <2>2. l = 1 => c.kind = "source"
    BY <1>6, <1>7 DEF CallOK
  <2>3. c.kind \in Loops => OnTo(frames, n - 1)
    BY <1>6, <1>7 DEF CallOK
  <2>4. c.pushed = PushedBy(c.kind)
    BY <1>6, <1>7 DEF CallOK
  <2>5. l > 1 /\ c.kind \notin Includes => \A k \in 1 .. l - 1 : calls[k].base < n
    BY <1>6, <1>7 DEF CallOK
  <2>. QED BY <1>3, <1>4, <2>1, <2>2, <2>3, <2>4, <2>5
<1>10. env' = EnteredBy(c) /\ env' = env /\ f.inner = env
  <2>1. Left = c.saved /\ env = EnteredBy(c)
    BY <1>1, <1>6, LeftIs
  <2>2. EnteredBy(c) = IF c.pushed = 1 THEN PushContext(c.saved) ELSE c.saved
    <3>1. CASE c.kind = "rept"
      <4>1. EnteredBy(c) = Entered("rept", c.base, c.saved)
        BY <3>1 DEF EnteredBy
      <4>2. c.pushed = 0
        BY <1>9, <3>1, KindsAre
      <4>3. Entered("rept", c.base, c.saved) = c.saved
        BY ONLY LoopEntered
      <4>. QED BY ONLY <4>1, <4>2, <4>3
    <3>2. CASE c.kind = "brept"
      <4>1. EnteredBy(c) = Entered("brept", c.base, c.saved)
        BY <3>2 DEF EnteredBy
      <4>2. c.pushed = 1
        BY <1>9, <3>2, KindsAre
      <4>3. Entered("brept", c.base, c.saved) = PushContext(c.saved)
        BY ONLY LoopEntered
      <4>. QED BY ONLY <4>1, <4>2, <4>3
    <3>. QED BY <1>9, <3>1, <3>2 DEF Loops
  <2>3. f.inner = env
    BY <1>5 DEF Inv
  <2>. QED BY <1>1, <1>6, <2>1, <2>2, <2>3
<1>11. f.what = BaseWhat(c.kind) /\ f.what \notin Choosing
  <2>1. f.what = BaseWhat(c.kind) /\ c.kind \in Files \cup Loops
    BY <1>1, <1>6, <1>8, CallGood
  <2>. QED BY <2>1, BaseWhatIs, BasesApart
<1>. DEFINE g == [f EXCEPT !.skip = 1, !.on = TRUE]
<1>12. g \in FrameType /\ g.what = f.what /\ g.skip = 1 /\ g.on = TRUE /\ g.inner = f.inner
  <2>1. g \in FrameType
    <3>. DEFINE h == [f EXCEPT !.skip = 1]
    <3>1. h \in FrameType /\ g = [h EXCEPT !.on = TRUE]
      BY DEF FrameType
    <3>. HIDE DEF h, g
    <3>. QED BY <3>1 DEF FrameType
  <2>2. g.what = f.what /\ g.skip = 1 /\ g.inner = f.inner
    BY DEF FrameType
  <2>3. g.on = TRUE
    BY DEF FrameType
  <2>. HIDE DEF g
  <2>. QED BY ONLY <2>1, <2>2, <2>3
<1>13. frames' = [frames EXCEPT ![n] = g]
  BY <1>1, <1>2, <1>5 DEF SetTop
<1>. HIDE DEF g
<1>14. /\ frames' \in Seq(FrameType) /\ Len(frames') = n /\ Depth' = n /\ frames'[n] = g
       /\ \A i \in 1 .. m : frames'[i] = frames[i]
  BY <1>3, <1>8, <1>12, <1>13 DEF Depth
<1>15. TypeOK'
  BY <1>1, <1>8, <1>10, <1>14, SetCallIs DEF Inv, TypeOK
<1>16. m \in 0 .. Depth /\ line' = line /\ \A j \in Nat : HasBase(calls', j) <=> HasBase(calls, j)
  <2>1. m \in 0 .. Depth /\ line' = line
    BY <1>1, <1>2, <1>3
  <2>2. \A j \in Nat : HasBase(calls', j) <=> HasBase(calls, j)
    BY <1>1, SetCallIs
  <2>. QED BY <2>1, <2>2
<1>17. /\ \A j \in 0 .. m : OnTo(frames', j) <=> OnTo(frames, j)
       /\ \A i \in 1 .. m : FrameOK(frames, calls, i)'
  <2>1. \A j \in 1 .. m : HasBase(calls', j) <=> HasBase(calls, j)
    BY <1>16
  <2>. QED BY <1>14, <1>16, <2>1, FramesKept
<1>18. OnTo(frames', n)
  <2>1. OnTo(frames', m)
    BY <1>3, <1>9, <1>17
  <2>. QED BY <1>3, <1>12, <1>14, <2>1 DEF OnTo
<1>19. FrameOK(frames, calls, n)'
  <2>1. SkipOK(frames', n)
    BY <1>11, <1>12, <1>14, <1>18 DEF SkipOK
  <2>2. HasBase(calls', n)
    <3>1. HasBase(calls, n)
      BY <1>4, <1>6 DEF HasBase
    <3>. QED BY <1>16, <3>1
  <2>3. EnvGood(g.inner, n)
    BY <1>2, <1>10, <1>12, TopGood
  <2>. QED BY <1>14, <2>1, <2>2, <2>3 DEF FrameOK
<1>20. FramesOK'
  <2>. SUFFICES ASSUME NEW i \in 1 .. Depth' PROVE FrameOK(frames, calls, i)'
    BY DEF FramesOK
  <2>1. i \in 1 .. m \/ i = n
    BY <1>3, <1>14
  <2>. QED BY <2>1, <1>17, <1>19
<1>21. CallsOK'
  <2>0. calls \in Seq(CallType) /\ calls' \in Seq(CallType) /\ Len(calls') = l
    BY <1>1, <1>4, SetCallIs DEF Inv, TypeOK
  <2>. SUFFICES ASSUME NEW k \in DOMAIN calls PROVE CallOK(frames, calls, k)'
    BY <1>4, <2>0 DEF CallsOK
  <2>1. CallOK(frames, calls, k) /\ k \in 1 .. l /\ k \in DOMAIN calls'
    BY <1>4, <2>0 DEF Inv, CallsOK
  <2>2. PICK b \in Nat : b = calls[k].base /\ b \in 1 .. n
    BY <1>1, <1>2, CallGood
  <2>3. ASSUME NEW j \in k + 1 .. l PROVE calls'[j].base = calls[j].base
    <3>1. j \in DOMAIN calls
      BY <1>4, <2>1
    <3>. QED BY <1>1, <3>1, SetCallIs
  <2>4. (\A j \in k + 1 .. l : calls[j].base > b) =>
          frames[b].what = BaseWhat(calls[k].kind) /\ frames[b].inner = EnteredBy(calls[k])
    BY <1>4, <2>1, <2>2 DEF CallOK
  <2>5. frames'[b].what = frames[b].what /\ frames'[b].inner = frames[b].inner
    <3>1. CASE b = n
      BY <1>8, <1>12, <1>14, <3>1
    <3>2. CASE b # n
      <4>1. frames'[b] = frames[b]
        BY <1>3, <1>14, <2>2, <3>2
      <4>. QED BY <4>1
    <3>. QED BY <3>1, <3>2
  <2>6. calls[k].kind \in Includes => frames'[b] = frames[b]
    <3>. SUFFICES ASSUME calls[k].kind \in Includes PROVE frames'[b] = frames[b]
      OBVIOUS
    <3>1. k # l
      BY <1>6, <1>9
    <3>2. b < n
      BY <1>9, <2>1, <2>2, <3>1
    <3>. QED BY <1>3, <1>14, <2>2, <3>2
  <2>7. \A j \in 1 .. k : /\ calls'[j].kind = calls[j].kind /\ calls'[j].base = calls[j].base
                          /\ calls'[j].pushed = calls[j].pushed /\ calls'[j].saved = calls[j].saved
                          /\ calls'[j].what = calls[j].what
    <3>. SUFFICES ASSUME NEW j \in 1 .. k
                  PROVE  /\ calls'[j].kind = calls[j].kind /\ calls'[j].base = calls[j].base
                         /\ calls'[j].pushed = calls[j].pushed /\ calls'[j].saved = calls[j].saved
                         /\ calls'[j].what = calls[j].what
      OBVIOUS
    <3>1. j \in DOMAIN calls
      BY <1>4, <2>1
    <3>. QED BY <1>1, <3>1, SetCallIs
  <2>8. k < Len(calls') => calls'[k].ret = "none"
    BY <1>1, SetCallIs
  <2>9. (\A j \in k + 1 .. Len(calls') : calls'[j].base > b) =>
          frames'[b].what = BaseWhat(calls[k].kind) /\ frames'[b].inner = EnteredBy(calls[k])
    BY <2>0, <2>3, <2>4, <2>5
  <2>10. b <= Len(frames') /\ Len(frames') \in Nat /\ \A i \in 1 .. b - 1 : frames'[i] = frames[i]
    BY <1>3, <1>14, <2>2
  <2>. QED BY <1>16, <2>1, <2>2, <2>6, <2>7, <2>8, <2>9, <2>10, CallKept
<1>22. EndsOK' /\ GotoOK'
  BY <1>1, SetCallIs DEF EndsOK, GotoOK
<1>23. env' = Top'.inner
  BY <1>10, <1>12, <1>14 DEF Top
<1>. QED BY <1>15, <1>20, <1>21, <1>22, <1>23 DEF Inv

\* The source ends with the stacks it began with.
LEMMA EndStep ==
  ASSUME Inv, SourceEnds
  PROVE  Inv'
<1>1. /\ calls # <<>> /\ Depth = Call.base /\ Call.kind = "source" /\ calls' = <<>>
      /\ UNCHANGED <<frames, env, lbl, line>>
  BY DEF SourceEnds, Returned
<1>2. PICK l \in Nat \ {0} : l = Len(calls) /\ Call = calls[l] /\ CallOK(frames, calls, l)
  BY <1>1, CallGood
<1>3. l = 1 /\ Call.base = 1 /\ Call.saved = NewEnv
  BY <1>1, <1>2 DEF CallOK
<1>4. env = NewEnv
  BY <1>1, <1>3, LeftIs DEF EnteredBy, Entered
<1>5. EndsOK' /\ CallsOK' /\ GotoOK'
  BY <1>1, <1>3, <1>4 DEF EndsOK, CallsOK, GotoOK, Depth
<1>6. TypeOK'
  BY <1>1 DEF Inv, TypeOK, Depth
<1>7. FramesOK'
  <2>1. FrameOK(frames, calls, 1) /\ Depth' = 1
    BY <1>1, <1>3 DEF Inv, FramesOK, Depth
  <2>2. FrameOK(frames, calls, 1)'
    BY <1>1, <2>1 DEF FrameOK
  <2>3. \A i \in 1 .. 1 : i = 1
    OBVIOUS
  <2>. QED BY <2>1, <2>2, <2>3 DEF FramesOK
<1>. QED BY <1>1, <1>5, <1>6, <1>7 DEF Inv, Top, Depth
(***************************************************************************)
(* .break and .continue.                                                   *)
(***************************************************************************)
LEMMA BasesTell ==
  ASSUME NEW kind \in Files \cup Loops
  PROVE  /\ BaseWhat(kind) = "W_ENDREPT2" <=> kind \in Loops
         /\ BaseWhat(kind) = "W_ENDF3" <=> kind = "funcexpr"
BY DEF Files, Loops, BaseWhat

\* Without includes each activation has a base of its own, above those before.
LEMMA OwnBases ==
  ASSUME Inv, calls # <<>>, line \cap Includes = {}
  PROVE  /\ DOMAIN calls = 1 .. Len(calls) /\ Len(calls) \in Nat \ {0}
         /\ \A k \in DOMAIN calls :
              /\ calls[k].base \in 1 .. Depth /\ calls[k].kind \in (Files \cup Loops) \ Includes
              /\ \A j \in 1 .. k - 1 : calls[j].base < calls[k].base
              /\ frames[calls[k].base].what = BaseWhat(calls[k].kind)
              /\ frames[calls[k].base].inner = EnteredBy(calls[k])
         /\ \A i \in 1 .. Depth : frames[i].what \in BaseWhats => HasBase(calls, i)
<1>1. PICK n \in Nat \ {0} : n = Len(calls) /\ DOMAIN calls = 1 .. n
  BY CallGood
<1>2. calls \in Seq(CallType)
  BY DEF Inv, TypeOK
<1>3. ASSUME NEW k \in 1 .. n
      PROVE  /\ calls[k].base \in 1 .. Depth /\ calls[k].kind \in (Files \cup Loops) \ Includes
             /\ \A j \in 1 .. k - 1 : calls[j].base < calls[k].base
             /\ CallOK(frames, calls, k)
  <2>1. CallOK(frames, calls, k)
    BY <1>1 DEF Inv, CallsOK
  <2>2. calls[k].kind \in line \cup {"source"}
    BY <2>1 DEF CallOK
  <2>3. calls[k].kind \in (Files \cup Loops) \ Includes
    <3>1. calls[k] \in CallType
      BY <1>1, <1>2
    <3>. QED BY <2>2, <3>1 DEF CallType, Includes
  <2>4. \A j \in 1 .. k - 1 : calls[j].base < calls[k].base
    <3>1. k > 1 => \A j \in 1 .. k - 1 : calls[j].base < calls[k].base
      BY <2>1, <2>3 DEF CallOK
    <3>. QED BY <3>1
  <2>. QED BY <1>1, <2>1, <2>3, <2>4, CallGood
<1>4. ASSUME NEW k \in 1 .. n
      PROVE  /\ frames[calls[k].base].what = BaseWhat(calls[k].kind)
             /\ frames[calls[k].base].inner = EnteredBy(calls[k])
  <2>1. \A j \in k + 1 .. n : calls[j].base > calls[k].base
    <3>. SUFFICES ASSUME NEW j \in k + 1 .. n PROVE calls[j].base > calls[k].base
      OBVIOUS
    <3>1. j \in 1 .. n /\ k \in 1 .. j - 1
      BY <1>1
    <3>2. calls[k].base < calls[j].base /\ calls[k].base \in Nat /\ calls[j].base \in Nat
      BY <1>3, <3>1, TopGood
    <3>. QED BY <3>2
  <2>. QED BY <1>1, <1>3, <2>1 DEF CallOK
<1>5. ASSUME NEW i \in 1 .. Depth, frames[i].what \in BaseWhats PROVE HasBase(calls, i)
  <2>1. CASE i = 1
    <3>1. CallOK(frames, calls, 1) /\ 1 \in DOMAIN calls
      BY <1>1, <1>3
    <3>2. calls[1].base = 1
      BY <3>1 DEF CallOK
    <3>. QED BY <2>1, <3>1, <3>2 DEF HasBase
  <2>2. CASE i > 1
    <3>1. FrameOK(frames, calls, i)
      BY DEF Inv, FramesOK
    <3>. QED BY <1>5, <2>2, <3>1 DEF FrameOK, Gives
  <2>. QED BY <2>1, <2>2, TopGood
<1>. QED BY <1>1, <1>3, <1>4, <1>5

\* The loop found by its frame is the one that is being assembled.
LEMMA LoopFound ==
  ASSUME Inv, calls # <<>>, line \cap Includes = {}
  PROVE  LoopFrames = LoopMeant
<1>1. PICK n \in Nat \ {0} : n = Len(calls) /\ DOMAIN calls = 1 .. n
  BY CallGood
<1>2. \A k \in 1 .. n :
        /\ calls[k].base \in 1 .. Depth /\ calls[k].kind \in Files \cup Loops
        /\ \A j \in 1 .. k - 1 : calls[j].base < calls[k].base
        /\ frames[calls[k].base].what = BaseWhat(calls[k].kind)
  BY <1>1, OwnBases
<1>3. \A i \in 1 .. Depth : frames[i].what \in BaseWhats => \E k \in 1 .. n : calls[k].base = i
  BY <1>1, OwnBases DEF HasBase
<1>4. "W_ENDREPT2" \in BaseWhats /\ "W_ENDF3" \in BaseWhats
  BY DEF BaseWhats
<1>5. ASSUME NEW k \in 1 .. n, NEW j \in k .. n PROVE calls[k].base <= calls[j].base
  <2>1. CASE j = k
    BY <1>2, <2>1, TopGood
  <2>2. CASE j # k
    <3>1. k \in 1 .. j - 1 /\ j \in 1 .. n
      BY <2>2
    <3>2. calls[k].base < calls[j].base /\ calls[k].base \in Nat /\ calls[j].base \in Nat
      BY <1>2, <3>1, TopGood
    <3>. QED BY <3>2
  <2>. QED BY <2>1, <2>2
<1>6. ASSUME NEW i \in LoopFrames PROVE i \in LoopMeant
  <2>1. i \in 1 .. Depth /\ frames[i].what = "W_ENDREPT2" /\ \A j \in i .. Depth : frames[j].what # "W_ENDF3"
    BY DEF LoopFrames
  <2>2. PICK k \in 1 .. n : calls[k].base = i
    BY <1>3, <1>4, <2>1
  <2>3. calls[k].kind \in Loops
    BY <1>2, <2>1, <2>2, BasesTell
  <2>4. ASSUME NEW j \in k .. n PROVE calls[j].kind # "funcexpr"
    <3>1. j \in 1 .. n
      OBVIOUS
    <3>2. calls[j].base \in i .. Depth
      BY <1>2, <1>5, <2>2, <3>1, TopGood
    <3>3. frames[calls[j].base].what # "W_ENDF3"
      BY <2>1, <3>2
    <3>. QED BY <1>2, <3>1, <3>3, BasesTell
  <2>. QED BY <1>1, <2>2, <2>3, <2>4 DEF LoopMeant
<1>7. ASSUME NEW i \in LoopMeant PROVE i \in LoopFrames
  <2>1. PICK k \in 1 .. n : /\ calls[k].base = i /\ calls[k].kind \in Loops
                            /\ \A j \in k .. n : calls[j].kind # "funcexpr"
    BY <1>1 DEF LoopMeant
  <2>2. i \in 1 .. Depth /\ frames[i].what = "W_ENDREPT2"
    BY <1>2, <2>1, BasesTell
  <2>3. ASSUME NEW j \in i .. Depth, frames[j].what = "W_ENDF3" PROVE FALSE
    <3>1. j \in 1 .. Depth
      BY <2>2
    <3>2. PICK p \in 1 .. n : calls[p].base = j
      BY <1>3, <1>4, <2>3, <3>1
    <3>3. calls[p].kind = "funcexpr"
      BY <1>2, <2>3, <3>2, BasesTell
    <3>4. p \notin k .. n
      BY <2>1, <3>3
    <3>5. p \in 1 .. k - 1
      BY <3>4
    <3>6. j < i
      BY <1>2, <2>1, <3>2, <3>5
    <3>. QED BY <2>2, <3>6
  <2>. QED BY <2>2, <2>3 DEF LoopFrames
<1>. QED BY <1>6, <1>7
\* A frame that .break turned off is a frame.
LEMMA CutType ==
  ASSUME NEW f \in FrameType, NEW skip \in 0 .. 2, NEW brk \in BOOLEAN, NEW on \in BOOLEAN
  PROVE  [f EXCEPT !.skip = skip, !.breakout = brk, !.on = on] \in FrameType
<1>. DEFINE h == [f EXCEPT !.skip = skip]
<1>. DEFINE i == [h EXCEPT !.breakout = brk]
<1>1. [f EXCEPT !.skip = skip, !.breakout = brk, !.on = on] = [i EXCEPT !.on = on]
  OBVIOUS
<1>2. h \in FrameType
  BY DEF FrameType
<1>. HIDE DEF h
<1>3. i \in FrameType
  BY <1>2 DEF FrameType
<1>. HIDE DEF i
<1>4. [i EXCEPT !.on = on] \in FrameType
  BY <1>3 DEF FrameType
<1>. QED BY <1>1, <1>4

\* .break and .continue turn off all the frames down to the loop.
LEMMA BreakStep ==
  ASSUME BreaksApart, Inv, NEW l, Break(l)
  PROVE  Inv'
<1>1. calls # <<>> /\ l \in line /\ l \in {"break", "continue"} /\ UNCHANGED <<calls, env, lbl, line>>
  BY DEF Break, Met, Running
<1>2. line \cap Includes = {} /\ ~UnionLines
  <2>1. line \in Alphabets
    BY DEF Inv, TypeOK
  <2>2. line \cap {"include", "binclude", "union", "struct"} = {}
    BY <1>1, <2>1 DEF BreaksApart
  <2>. QED BY <2>2 DEF Includes, UnionLines
<1>3. PICK m \in LoopMeant :
        /\ Latest(LoopMeant, m)
        /\ frames' = [i \in 1 .. Depth |-> [frames[i] EXCEPT
             !.skip = IF i >= m THEN 0 ELSE @,
             !.breakout = IF i = m THEN @ \/ l = "break" ELSE @,
             !.on = IF i >= m THEN FALSE ELSE @]]
  <2>1. PICK w \in LoopFrames, m \in LoopMeant :
          /\ Latest(LoopFrames, w) /\ Latest(LoopMeant, m)
          /\ frames' = [i \in 1 .. Depth |-> [frames[i] EXCEPT
               !.skip = IF i >= w THEN 0 ELSE @,
               !.breakout = IF i = w THEN @ \/ l = "break" ELSE @,
               !.on = IF i >= m THEN FALSE ELSE @]]
    BY DEF Break
  <2>2. LoopFrames = LoopMeant
    BY <1>1, <1>2, LoopFound
  <2>3. w <= m /\ m <= w /\ w \in Nat /\ m \in Nat
    <3>1. w \in LoopMeant /\ m \in LoopFrames
      BY <2>1, <2>2
    <3>2. w \in 1 .. Depth /\ m \in 1 .. Depth /\ Depth \in Nat
      BY <2>1, <3>1, TopGood DEF LoopFrames
    <3>3. w <= m /\ m <= w
      BY ONLY <2>1, <3>1 DEF Latest
    <3>4. w \in Nat /\ m \in Nat
      BY ONLY <3>2
    <3>. QED BY <3>3, <3>4
  <2>4. w = m
    BY <2>3
  <2>. QED BY <2>1, <2>4
<1>4. PICK d \in Nat \ {0} : d = Depth
  BY TopGood
<1>5. frames \in Seq(FrameType) /\ Len(frames) = d /\ DOMAIN frames = 1 .. d
  BY <1>4 DEF Inv, TypeOK, Depth
<1>6. m \in 1 .. d /\ frames[m].what = "W_ENDREPT2" /\ m \in Nat /\ d \in Nat
  <2>1. m \in LoopFrames
    BY <1>1, <1>2, <1>3, LoopFound
  <2>. QED BY <1>4, <2>1 DEF LoopFrames
<1>7. ASSUME NEW i \in 1 .. d
      PROVE  /\ frames'[i] \in FrameType /\ frames'[i].what = frames[i].what
             /\ frames'[i].saved = frames[i].saved /\ frames'[i].inner = frames[i].inner
             /\ frames'[i].taken = frames[i].taken
             /\ i >= m => frames'[i].skip = 0 /\ frames'[i].on = FALSE
             /\ i < m => frames'[i].skip = frames[i].skip /\ frames'[i].on = frames[i].on
  <2>1. PICK f \in FrameType : f = frames[i]
    BY <1>5
  <2>2. f.skip \in 0 .. 2 /\ f.breakout \in BOOLEAN /\ f.on \in BOOLEAN
    BY DEF FrameType
  <2>3. PICK s \in 0 .. 2 : s = IF i >= m THEN 0 ELSE f.skip
    BY <2>2
  <2>4. PICK b \in BOOLEAN : b = IF i = m THEN f.breakout \/ l = "break" ELSE f.breakout
    BY <2>2
  <2>5. PICK o \in BOOLEAN : o = IF i >= m THEN FALSE ELSE f.on
    BY <2>2
  <2>6. PICK g : g = frames'[i]
    OBVIOUS
  <2>7. g = [f EXCEPT !.skip = s, !.breakout = b, !.on = o]
    BY <1>3, <1>4, <2>1, <2>3, <2>4, <2>5, <2>6
  <2>8. g \in FrameType
    BY ONLY <2>7, CutType
  <2>9. g.what = f.what /\ g.saved = f.saved /\ g.inner = f.inner
    BY <2>7 DEF FrameType
  <2>10. g.taken = f.taken /\ g.skip = s
    BY <2>7 DEF FrameType
  <2>11. g.on = o
    BY <2>7 DEF FrameType
  <2>12. i >= m => s = 0 /\ o = FALSE
    BY <1>6, <2>3, <2>5
  <2>13. ASSUME i < m PROVE s = f.skip /\ o = f.on
    <3>1. ~(i >= m)
      BY <1>6, <2>13
    <3>2. s = f.skip
      BY <2>3, <3>1
    <3>3. o = f.on
      BY <2>5, <3>1
    <3>. QED BY <3>2, <3>3
  <2>. QED BY <2>1, <2>6, <2>8, <2>9, <2>10, <2>11, <2>12, <2>13
<1>8. frames' \in Seq(FrameType) /\ Len(frames') = d /\ Depth' = d
  <2>1. PICK fs : fs = frames'
    OBVIOUS
  <2>2. DOMAIN fs = 1 .. d /\ fs = [i \in 1 .. d |-> fs[i]]
    BY <1>3, <1>4, <2>1
  <2>3. fs \in [1 .. d -> FrameType]
    BY <1>7, <2>1, <2>2
  <2>4. fs \in Seq(FrameType) /\ Len(fs) = d
    BY <2>3
  <2>. QED BY <2>1, <2>4 DEF Depth
<1>9. \A i \in 1 .. d : frames'[i].inner = frames[i].inner /\ frames'[i].what = frames[i].what
  BY <1>7
<1>10. ASSUME NEW j \in 0 .. d
       PROVE  /\ j >= m => ~OnTo(frames', j)
              /\ j < m => (OnTo(frames', j) <=> OnTo(frames, j))
  <2>1. ASSUME j >= m PROVE ~OnTo(frames', j)
    <3>1. m >= m /\ m \in 1 .. j
      BY <1>6, <2>1
    <3>2. frames'[m].on = FALSE
      BY <1>6, <1>7, <3>1
    <3>. QED BY <3>1, <3>2 DEF OnTo
  <2>2. ASSUME j < m PROVE OnTo(frames', j) <=> OnTo(frames, j)
    <3>1. ASSUME NEW i \in 1 .. j PROVE frames'[i].on = frames[i].on
      <4>1. i \in 1 .. d /\ i < m
        BY <1>6, <2>2
      <4>. QED BY <1>7, <4>1
    <3>. QED BY <3>1 DEF OnTo
  <2>. QED BY <2>1, <2>2
<1>11. UnionLines' = UnionLines /\ \A i : HasBase(calls, i)' <=> HasBase(calls, i)
  BY <1>1 DEF UnionLines, HasBase
<1>12. ASSUME NEW i \in 1 .. d PROVE FrameOK(frames, calls, i)'
  <2>1. FrameOK(frames, calls, i)
    BY <1>4 DEF Inv, FramesOK
  <2>2. i - 1 \in 0 .. d /\ i \in 0 .. d
    OBVIOUS
  <2>3. SkipOK(frames', i)
    <3>1. CASE i > m
      <4>1. i >= m /\ i - 1 >= m
        BY <1>6, <3>1
      <4>2. frames'[i].skip = 0 /\ frames'[i].on = FALSE
        BY <1>7, <4>1
      <4>3. ~OnTo(frames', i) /\ ~OnTo(frames', i - 1)
        BY <1>10, <2>2, <4>1
      <4>. QED BY <4>2, <4>3 DEF SkipOK
    <3>2. CASE i = m
      <4>1. frames'[i].what \notin Choosing
        BY <1>6, <1>7, <3>2 DEF Choosing
      <4>2. i >= m
        BY <1>6, <3>2
      <4>3. frames'[i].skip = 0
        BY <1>7, <4>2
      <4>4. ~OnTo(frames', i)
        BY <1>10, <2>2, <4>2
      <4>. QED BY <4>1, <4>3, <4>4 DEF SkipOK
    <3>3. CASE i < m
      <4>1. SkipOK(frames, i)
        BY <2>1 DEF FrameOK
      <4>2. /\ frames'[i].skip = frames[i].skip /\ frames'[i].on = frames[i].on
            /\ frames'[i].taken = frames[i].taken /\ frames'[i].what = frames[i].what
        BY <1>6, <1>7, <3>3
      <4>3. (OnTo(frames', i) <=> OnTo(frames, i)) /\ (OnTo(frames', i - 1) <=> OnTo(frames, i - 1))
        BY <1>6, <1>10, <2>2, <3>3
      <4>. QED BY <4>1, <4>2, <4>3 DEF SkipOK
    <3>. QED BY <1>6, <3>1, <3>2, <3>3
  <2>4. ASSUME i > 1, ~HasBase(calls, i) PROVE Gives(frames[i], frames[i - 1].inner)'
    <3>1. Gives(frames[i], frames[i - 1].inner)
      BY <2>1, <2>4 DEF FrameOK
    <3>2. frames'[i - 1].inner = frames[i - 1].inner
      BY <1>9, <2>4
    <3>3. frames[i].what \in Unions => frames[i].skip # 1
      BY <1>2, <3>1 DEF Gives, Unions
    <3>4. frames[i] \in FrameType /\ frames'[i] \in FrameType
      <4>1. frames[i] \in FrameType
        BY <1>5
      <4>. QED BY <1>7, <4>1
    <3>5. frames[i].what \in Unions => frames[i].skip % 2 # 1 /\ frames'[i].skip % 2 # 1
      <4>1. frames[i].skip \in 0 .. 2
        BY <3>4 DEF FrameType
      <4>2. i >= m \/ i < m
        BY <1>6
      <4>3. frames'[i].skip = 0 \/ frames'[i].skip = frames[i].skip
        BY <1>7, <4>2
      <4>. QED BY <3>3, <4>1, <4>3
    <3>6. frames'[i].what = frames[i].what /\ frames'[i].saved = frames[i].saved
      BY <1>7
    <3>7. \A e : Closed(frames'[i], e) = Closed(frames[i], e)
      BY <3>5, <3>6 DEF Closed, AddressClosed, UnionClosed, Unions
    <3>8. Closed(frames'[i], frames'[i].inner) = frames'[i - 1].inner
      BY <1>9, <3>1, <3>2, <3>7 DEF Gives
    <3>9. frames'[i].what \notin BaseWhats
      BY <3>1, <3>6 DEF Gives
    <3>10. ~(frames'[i].what \in {"W_ENDU", "W_ENDS"} /\ frames'[i].skip = 1)
      <4>1. i >= m \/ i < m
        BY <1>6
      <4>2. frames'[i].skip = 0 \/ frames'[i].skip = frames[i].skip
        BY <1>7, <4>1
      <4>. QED BY <3>3, <3>6, <4>2 DEF Unions
    <3>. QED BY <3>8, <3>9, <3>10 DEF Gives
  <2>. QED BY <1>9, <1>11, <2>1, <2>3, <2>4 DEF FrameOK
<1>13. FramesOK'
  BY <1>8, <1>12 DEF FramesOK
<1>14. ASSUME NEW k \in DOMAIN calls PROVE CallOK(frames, calls, k)'
  <2>1. CallOK(frames, calls, k) /\ calls[k].base \in 1 .. d /\ calls[k].kind \notin Includes
    BY <1>1, <1>2, <1>4, OwnBases DEF Inv, CallsOK
  <2>2. PICK b \in 1 .. d : b = calls[k].base
    BY <2>1
  <2>3. ASSUME calls[k].kind \in Loops PROVE OnTo(frames', b - 1)
    <3>1. OnTo(frames, b - 1)
      BY <2>1, <2>2, <2>3 DEF CallOK
    <3>2. b <= m
      <4>1. PICK p \in DOMAIN calls : /\ calls[p].base = m /\ calls[p].kind \in Loops
                                      /\ \A j \in p .. Len(calls) : calls[j].kind # "funcexpr"
        BY DEF LoopMeant
      <4>2. DOMAIN calls = 1 .. Len(calls) /\ Len(calls) \in Nat
        BY <1>1, CallGood
      <4>3. CASE k < p
        <5>1. k \in 1 .. p - 1
          BY <4>2, <4>3
        <5>2. b < m
          BY <1>1, <1>2, <2>2, <4>1, <5>1, OwnBases
        <5>. QED BY <1>6, <5>2
      <4>4. CASE k >= p
        <5>1. \A j \in k .. Len(calls) : calls[j].kind # "funcexpr"
          BY <4>1, <4>2, <4>4
        <5>2. b \in LoopMeant
          BY <2>2, <2>3, <5>1 DEF LoopMeant
        <5>. QED BY <1>3, <5>2 DEF Latest
      <4>. QED BY <4>2, <4>3, <4>4
    <3>3. b - 1 \in 0 .. d /\ b - 1 < m
      BY <1>6, <3>2
    <3>. QED BY <1>10, <3>1, <3>3
  <2>4. frames'[b].what = frames[b].what /\ frames'[b].inner = frames[b].inner
    BY <1>9
  <2>5. b > 1 => frames'[b - 1].inner = frames[b - 1].inner
    BY <1>9
  <2>6. b \in 1 .. Len(frames') /\ Len(frames) = d
    BY <1>5, <1>8
  <2>. QED BY <1>1, <2>1, <2>2, <2>3, <2>4, <2>5, <2>6 DEF CallOK
<1>15. CallsOK'
  BY <1>1, <1>14 DEF CallsOK
<1>16. TypeOK'
  BY <1>1, <1>4, <1>8 DEF Inv, TypeOK
<1>17. EndsOK' /\ GotoOK'
  BY <1>1 DEF Inv, EndsOK, GotoOK, Call
<1>18. env' = Top'.inner
  <2>1. Top'.inner = frames[d].inner
    BY <1>8, <1>9 DEF Top
  <2>. QED BY <1>1, <1>4, <2>1 DEF Inv, Top
<1>. QED BY <1>13, <1>15, <1>16, <1>17, <1>18 DEF Inv
(***************************************************************************)
(* A source begins, the invariant and what follows.                        *)
(***************************************************************************)
LEMMA NewEnvGood == EnvGood(NewEnv, 1)
<1>1. <<"section", 0>> \in Addresses /\ 0 \in Sections
  BY DEF Addresses, Sections
<1>2. NewEnv \in Env
  BY <1>1 DEF NewEnv, Env
<1>3. NewEnv.bottom < NewEnv.ctx
  BY DEF NewEnv
<1>4. ASSUME NEW j \in 1 .. MaxFrames PROVE NewEnv.addr # <<"local", j>> /\ ~NewEnv.union[<<"local", j>>]
  <2>1. <<"local", j>> \in Addresses
    BY DEF Addresses
  <2>2. <<"section", 0>> # <<"local", j>>
    OBVIOUS
  <2>. QED BY <2>1, <2>2 DEF NewEnv
<1>. QED BY <1>2, <1>3, <1>4 DEF EnvGood

\* The stacks one_pass begins with.
LEMMA BeginsWell == Init => Inv
<1>. SUFFICES ASSUME Init PROVE Inv
  OBVIOUS
<1>. /\ frames = <<Bottom>> /\ calls = <<Source>> /\ env = NewEnv
     /\ lbl = NoLbl /\ line \in Alphabets
  BY DEF Init
<1>1. Len(frames) = 1 /\ frames[1] = Bottom /\ Depth = 1 /\ Top = Bottom
  BY DEF Depth, Top
<1>2. Len(calls) = 1 /\ calls[1] = Source /\ DOMAIN calls = {1} /\ Call = Source /\ calls # <<>>
  <2>1. 1 .. 1 = {1}
    OBVIOUS
  <2>. QED BY <2>1 DEF Call
<1>3. NewEnv \in Env
  BY NewEnvGood DEF EnvGood
<1>4. Bottom \in FrameType
  <2>1. "W_NONE" \in Whats
    BY DEF Whats, BaseWhats
  <2>. QED BY <1>3, <2>1 DEF Bottom, Frame, FrameType
<1>5. Source \in CallType
  <2>1. "W_NONE" \in Whats /\ "source" \in Files
    BY DEF Whats, BaseWhats, Files
  <2>. QED BY <1>3, <2>1 DEF Source, CallType
<1>6. TypeOK
  <2>1. frames \in Seq(FrameType) /\ calls \in Seq(CallType)
    BY <1>4, <1>5
  <2>2. Depth \in 1 .. MaxFrames
    BY <1>1, BoundsAssumption
  <2>3. lbl \in PlaceType
    BY DEF NoLbl, PlaceType
  <2>. QED BY <1>3, <2>1, <2>2, <2>3 DEF TypeOK
<1>7. FramesOK
  <2>1. SkipOK(frames, 1)
    <3>1. OnTo(frames, 1)
      BY <1>1 DEF OnTo, Bottom, Frame
    <3>2. frames[1].skip = 1 /\ frames[1].what \notin Choosing
      BY <1>1 DEF Bottom, Frame, Choosing
    <3>. QED BY <3>1, <3>2 DEF SkipOK
  <2>2. EnvGood(frames[1].inner, 1)
    BY <1>1, NewEnvGood DEF Bottom, Frame
  <2>3. \A i \in 1 .. 1 : i = 1
    OBVIOUS
  <2>. QED BY <1>1, <2>1, <2>2, <2>3 DEF FramesOK, FrameOK
<1>8. CallsOK
  <2>1. PICK c : c = calls[1]
    OBVIOUS
  <2>2. c.kind = "source" /\ c.base = 1 /\ c.pushed = 0 /\ c.ret = "none" /\ c.saved = NewEnv
    BY <1>2, <2>1 DEF Source
  <2>3. "source" \notin Loops /\ "source" \notin Includes /\ PushedBy("source") = 0 /\ BaseWhat("source") = "W_NONE"
    BY DEF Loops, Includes, PushedBy, BaseWhat
  <2>4. EnteredBy(c) = NewEnv
    BY <2>2 DEF EnteredBy, Entered
  <2>5. frames[1].what = "W_NONE" /\ frames[1].inner = NewEnv
    BY <1>1 DEF Bottom, Frame
  <2>6. CallOK(frames, calls, 1)
    BY <1>1, <1>2, <2>1, <2>2, <2>3, <2>4, <2>5, NewEnvGood DEF CallOK
  <2>. QED BY <1>2, <2>6 DEF CallsOK
<1>9. EndsOK /\ GotoOK
  BY <1>2 DEF EndsOK, GotoOK, Source
<1>10. env = Top.inner
  BY <1>1 DEF Bottom, Frame
<1>. QED BY <1>6, <1>7, <1>8, <1>9, <1>10 DEF Inv

\* The next file begins as the first did.
LEMMA NextFileStep ==
  ASSUME Inv, NextFile
  PROVE  Inv'
<1>1. env = NewEnv
  BY DEF NextFile, Inv, EndsOK
<1>2. env' = NewEnv
  <2>1. NewEnv.addr = <<"section", 0>> /\ NewEnv.addr \in Addresses /\ 0 \in Sections
    BY DEF NewEnv, Addresses, Sections
  <2>2. [NewEnv.union EXCEPT ![NewEnv.addr] = FALSE] = NewEnv.union
    BY <2>1 DEF NewEnv
  <2>3. [NewEnv.logical EXCEPT ![0] = 0] = NewEnv.logical
    BY <2>1 DEF NewEnv
  <2>4. env' = [NewEnv EXCEPT !.union = NewEnv.union, !.logical = NewEnv.logical]
    BY <1>1, <2>2, <2>3 DEF NextFile
  <2>5. NewEnv \in Env
    BY NewEnvGood DEF EnvGood
  <2>. QED BY <2>4, <2>5 DEF Env
<1>3. frames' = <<Bottom>> /\ calls' = <<Source>> /\ lbl' = NoLbl /\ line' \in Alphabets
  BY DEF NextFile, Inv, TypeOK
<1>4. Init'
  BY <1>2, <1>3 DEF Init
<1>. QED BY <1>4, BeginsWell, PTL

\* The step that changes nothing.
LEMMA NothingStep ==
  ASSUME Inv, UNCHANGED vars
  PROVE  Inv'
<1>1. UNCHANGED <<frames, calls, env, lbl, line>>
  BY DEF vars
<1>2. Depth' = Depth /\ Top' = Top /\ UnionLines' = UnionLines
  BY <1>1 DEF Depth, Top, UnionLines
<1>3. TypeOK' /\ EndsOK' /\ GotoOK' /\ env' = Top'.inner
  BY <1>1, <1>2 DEF Inv, TypeOK, EndsOK, GotoOK, Call
<1>4. FramesOK'
  BY <1>1, <1>2 DEF Inv, FramesOK, FrameOK, Gives
<1>5. CallsOK'
  BY <1>1, <1>2 DEF Inv, CallsOK, CallOK, Gives
<1>. QED BY <1>3, <1>4, <1>5 DEF Inv

\* Every step keeps the invariant.
LEMMA NextInv ==
  ASSUME BreaksApart, Inv, [Next]_vars
  PROVE  Inv'
<1>1. ASSUME NEW l \in line,
             \/ OpenLive(l) \/ OpenDead(l) \/ Close(l) \/ Invoke(l)
             \/ Unrolled(l) \/ Return(l) \/ End(l) \/ Break(l)
      PROVE  Inv'
  BY <1>1, OpenLiveStep, OpenDeadStep, CloseStep, InvokeStep, UnrolledStep, GotoStep, BreakStep
<1>2. CASE If \/ Elsif \/ Else \/ Switch \/ Case \/ Default
  BY <1>2, IfStep, ElsifStep, CaseStep, ElseStep
<1>3. CASE Lbl \/ Goto \/ Jumped \/ Unwind
  BY <1>3, LblStep, GotoStep, CloseStep
<1>4. CASE ReturnInclude \/ ReturnCall \/ ReturnNamed \/ LoopEnds \/ LoopGoesOn
  BY <1>4, LeaveIncludeStep, LeaveCallStep, LoopGoesOnStep
<1>5. CASE SourceEnds \/ NextFile
  BY <1>5, EndStep, NextFileStep
<1>6. CASE UNCHANGED vars
  BY <1>6, NothingStep
<1>. QED BY <1>1, <1>2, <1>3, <1>4, <1>5, <1>6 DEF Next

\* The stacks of frames and activations, the environment and the mark of .lbl
\* agree with each other whatever lines follow whatever lines, to any depth,
\* unless a source has both .break and .include or .break and unions.
THEOREM StacksAgree == BreaksApart => (Spec => []Inv)
<1>. SUFFICES ASSUME BreaksApart PROVE Spec => []Inv
  OBVIOUS
<1>1. Init => Inv
  BY BeginsWell
<1>2. Inv /\ [Next]_vars => Inv'
  BY NextInv
<1>. QED BY <1>1, <1>2, PTL DEF Spec

\* The byte skip that compile looks at for each line (64tass.c:3838) says
\* whether every open block is in a part that is selected.
THEOREM SkipIsExact == BreaksApart => (Spec => []SkipExact)
<1>. SUFFICES ASSUME BreaksApart PROVE Spec => []SkipExact
  OBVIOUS
<1>1. Inv => SkipExact
  <2>. SUFFICES ASSUME Inv PROVE Assembled <=> AllOn(Depth)
    BY DEF SkipExact
  <2>. QED BY TopGood DEF AllOn, OnTo
<1>. QED BY <1>1, StacksAgree, PTL

\* When a block is left, by its directive, the end of its file, .goto, a return
\* or .break, what it changed is what it was (check_waitfor, close_waitfor, the
\* callers of compile).
THEOREM BlocksGiveBack == BreaksApart => (Spec => []Balanced)
<1>. SUFFICES ASSUME BreaksApart PROVE Spec => []Balanced
  OBVIOUS
<1>1. Inv => Balanced
  BY DEF Inv, Balanced
<1>. QED BY <1>1, StacksAgree, PTL
=============================================================================
