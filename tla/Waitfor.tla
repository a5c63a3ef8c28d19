------------------------------- MODULE Waitfor -------------------------------
(***************************************************************************)
(* The block structure of a source: the waitfor stack of compile (64tass.c) *)
(* with its nested activations.                                            *)
(*                                                                         *)
(* Every block that is open has a frame on one stack.  A frame says by its *)
(* kind (what) which directive closes it and what there is to give back    *)
(* then: a scope, a level of .weak, the section, the address, the encoding *)
(* ...  Its byte skip says whether the lines in it are assembled.  Loops,  *)
(* macros, functions, structures and included files run compile again, on  *)
(* the same stack, with frames of their own at the base.                   *)
(*                                                                         *)
(* The source is any sequence of lines over one of the alphabets, its       *)
(* conditions have any outcome, and loops go round any number of times.    *)
(***************************************************************************)
EXTENDS Naturals, Sequences

CONSTANTS
  Alphabets,  \* sets of the kinds of line that a source is made of
  Section,    \* the sections, numbers from 1; 0 is the root section
  MaxFrames,  \* bound on the frames that are open
  MaxCalls    \* bound on the activations of compile

Conditionals == {"if", "elsif", "else", "fi", "switch", "case", "default", "endswitch"}
Opening == {"block", "namespace", "with", "weak", "encode", "logical", "virtual",
            "section", "page", "union", "struct", "proc", "comment", "macro", "function"}
Closing == {"bend", "endn", "endwith", "endweak", "endencode", "here", "endv", "send",
            "endp", "endu", "ends", "pend", "endc", "endm", "endf", "endrept"}
Looping == {"rept", "brept", "break", "continue", "lbl", "goto"}
Calling == {"include", "binclude", "macrocall", "segmentcall", "funccall", "funcexpr",
            "named struct", "named union", "dstruct", "dunion"}
Ending  == {"end", "eof"}

ASSUME AlphabetsAssumption ==
  UNION Alphabets \subseteq Conditionals \cup Opening \cup Closing \cup Looping \cup Calling \cup Ending
ASSUME SectionAssumption == Section \subseteq Nat \ {0}
ASSUME BoundsAssumption == MaxFrames \in Nat \ {0} /\ MaxCalls \in Nat \ {0}

VARIABLES
  frames,  \* waitfors[0 .. waitfor_p]
  calls,   \* the activations of compile, with what their callers keep
  env,     \* what the blocks change and give back
  lbl,     \* where a .lbl is
  line     \* the kinds of line of this source

vars == <<frames, calls, env, lbl, line>>

(***************************************************************************)
(* The environment: the depth of the context stack and the bottom a        *)
(* function sets, strength, the current section, address and encoding, the *)
(* union mode of each address and the depth of .logical in each section.   *)
(***************************************************************************)
Sections == {0} \cup Section
Addresses == {<<"section", s>> : s \in Sections} \cup {<<"local", n>> : n \in 1 .. MaxFrames}
Env == [ctx : Nat, bottom : Nat, strength : Nat, sec : Sections, addr : Addresses,
        enc : Nat, union : [Addresses -> BOOLEAN], logical : [Sections -> Nat]]
NewEnv == [ctx |-> 1, bottom |-> 0, strength |-> 0, sec |-> 0, addr |-> <<"section", 0>>,
           enc |-> 0, union |-> [a \in Addresses |-> FALSE], logical |-> [s \in Sections |-> 0]]

PushContext(e) == [e EXCEPT !.ctx = @ + 1]
\* pop_context and pop_context2 refuse to go below what a function began with
PopContext(e) == IF e.ctx > 1 + e.bottom THEN [e EXCEPT !.ctx = @ - 1] ELSE e
UnionMode(e, b) == [e EXCEPT !.union[e.addr] = b]
\* a new address is made for a block, in the union mode b, and freed after it
NewAddress(e, n, b) == [e EXCEPT !.addr = <<"local", n>>, !.union[<<"local", n>>] = b]
OldAddress(e, a) == [e EXCEPT !.addr = a, !.union[e.addr] = FALSE]
MemberOf(e) == [e EXCEPT !.ctx = @ + 2, !.bottom = e.ctx] \* in a function of one name space

(***************************************************************************)
(* Frames.  saved is what the code keeps in a frame, of which each kind    *)
(* uses a part.  on, taken and inner are history: whether the lines are in *)
(* a part of the block that its own condition selects, whether it selected *)
(* one already, and the environment the lines are in.                      *)
(***************************************************************************)
Frame(what, skip, saved, inner) ==
  [what |-> what, skip |-> skip, breakout |-> FALSE, saved |-> saved,
   on |-> TRUE, taken |-> FALSE, inner |-> inner]
Off(f) == [f EXCEPT !.skip = 0, !.on = FALSE]

Depth == Len(frames)
Top == frames[Depth]
Below == SubSeq(frames, 1, Depth - 1)
SetTop(f) == [frames EXCEPT ![Depth] = f]
Assembled == Top.skip % 2 = 1
AllOn(n) == \A i \in 1 .. n : frames[i].on

Call == calls[Len(calls)]
Outer == SubSeq(calls, 1, Len(calls) - 1)
SetCall(c) == [calls EXCEPT ![Len(calls)] = c]
Running == calls # <<>> /\ Call.ret = "none"

\* A line is met.  In a comment only its own directives are.
Met(l) ==
  /\ l \in line /\ Running
  /\ Top.what = "W_ENDC" /\ ~Assembled => l \in {"comment", "endc", "eof"}

-----------------------------------------------------------------------------
(***************************************************************************)
(* Opening.  new_waitfor copies skip from the frame below.                 *)
(***************************************************************************)
New(what, e) == Frame(what, Top.skip, env, e)
Push(f) ==
  /\ Depth < MaxFrames
  /\ frames' = Append(frames, f)
  /\ env' = f.inner
  /\ UNCHANGED <<calls, lbl, line>>

Skipped(l) == [comment |-> "W_ENDC", macro |-> "W_ENDMACRO", function |-> "W_ENDF"][l]

\* In an assembled part.  Some blocks have a frame without anything to give
\* back when their operand is wrong.
OpenLive(l) ==
  /\ Met(l) /\ Assembled
  /\ \/ l = "block"     /\ Push(New("W_BEND2", PushContext(env)))
     \/ l = "namespace" /\ \E w \in {"W_ENDN2", "W_ENDN"} : Push(New(w, PushContext(env)))
     \/ l = "with"      /\ \/ Push(New("W_ENDWITH2", PushContext(env)))
                           \/ Push(New("W_ENDWITH", env))
     \/ l = "encode"    /\ \/ Push(New("W_ENDENCODE2", [env EXCEPT !.enc = Depth]))
                           \/ Push(New("W_ENDENCODE", env))
     \/ l = "weak"      /\ Push(New("W_WEAK2", [env EXCEPT !.strength = @ + 1]))
     \/ l = "logical"   /\ Push(New("W_HERE2", [env EXCEPT !.logical[env.sec] = @ + 1]))
     \/ l = "virtual"   /\ Push(New("W_ENDV2", NewAddress(env, Depth + 1, env.union[env.addr])))
     \/ l = "section"   /\ \/ \E s \in Section :
                                Push(New("W_SEND2", [env EXCEPT !.sec = s, !.addr = <<"section", s>>]))
                           \/ Push(New("W_SEND", env))
     \/ l = "page"      /\ Push(New("W_ENDP2", env))
     \/ l = "union"     /\ Push(New("W_ENDU", UnionMode(env, TRUE)))
     \/ l = "struct"    /\ Push(New("W_ENDS", UnionMode(env, FALSE)))
     \/ l = "proc"      /\ \/ Push(New("W_PEND", PushContext(env)))
                           \/ Push(Off(New("W_PEND", PushContext(env))))
     \/ l \in {"comment", "macro", "function"} /\ Push(Off(New(Skipped(l), env)))

\* In a part that is not assembled the frames only keep the nesting.
Nested == [with |-> "W_ENDWITH", encode |-> "W_ENDENCODE", weak |-> "W_WEAK",
           logical |-> "W_HERE", virtual |-> "W_ENDV", section |-> "W_SEND",
           page |-> "W_ENDP", union |-> "W_ENDU", struct |-> "W_ENDS", rept |-> "W_ENDREPT"]
NestedScope == [block |-> "W_BEND", namespace |-> "W_ENDN", brept |-> "W_ENDREPT3"]

OpenDead(l) ==
  /\ Met(l) /\ ~Assembled
  /\ \/ l \in DOMAIN Nested /\ Push(New(Nested[l], env))
     \/ l \in DOMAIN NestedScope /\ Push(New(NestedScope[l], PushContext(env)))
     \/ l = "proc" /\ Push(Off(New("W_PEND", PushContext(env))))
     \/ l \in {"comment", "macro", "function"} /\ Push(Off(New(Skipped(l), env)))

(***************************************************************************)
(* Closing: what the directive, or check_waitfor when it is missing, gives *)
(* back.                                                                   *)
(***************************************************************************)
Scopes == {"W_BEND", "W_BEND2", "W_ENDN", "W_ENDN2", "W_ENDWITH2", "W_PEND", "W_ENDREPT3"}

\* union_close, .ends
UnionClosed(f, e) ==
  IF f.what \in {"W_ENDU", "W_ENDS"} /\ f.skip % 2 = 1
  THEN UnionMode(e, f.saved.union[f.saved.addr]) ELSE e
\* Mutant: the section is put back, but not its address.
SectionOnlyClosed(f, e) ==
  IF f.what = "W_SEND2" THEN [e EXCEPT !.sec = f.saved.sec]
  ELSE IF f.what = "W_ENDV2" THEN OldAddress(e, f.saved.addr)
  ELSE e
\* section_close, virtual_close
AddressClosed(f, e) ==
  IF f.what = "W_SEND2" THEN [e EXCEPT !.sec = f.saved.sec, !.addr = f.saved.addr]
  ELSE IF f.what = "W_ENDV2" THEN OldAddress(e, f.saved.addr)
  ELSE e

Closed(f, e) ==
  IF f.what \in Scopes THEN PopContext(e)
  ELSE IF f.what = "W_WEAK2" THEN [e EXCEPT !.strength = @ - 1]
  ELSE IF f.what = "W_ENDENCODE2" THEN [e EXCEPT !.enc = f.saved.enc]
  ELSE IF f.what = "W_HERE2" THEN [e EXCEPT !.logical[e.sec] = @ - 1]
  ELSE AddressClosed(f, UnionClosed(f, e))

ClosedBy == [
  W_BEND |-> "bend", W_BEND2 |-> "bend", W_ENDN |-> "endn", W_ENDN2 |-> "endn",
  W_ENDWITH |-> "endwith", W_ENDWITH2 |-> "endwith", W_WEAK |-> "endweak",
  W_WEAK2 |-> "endweak", W_ENDENCODE |-> "endencode", W_ENDENCODE2 |-> "endencode",
  W_HERE |-> "here", W_HERE2 |-> "here", W_ENDV |-> "endv", W_ENDV2 |-> "endv",
  W_SEND |-> "send", W_SEND2 |-> "send", W_ENDP |-> "endp", W_ENDP2 |-> "endp",
  W_ENDU |-> "endu", W_ENDS |-> "ends", W_PEND |-> "pend", W_ENDC |-> "endc",
  W_ENDMACRO |-> "endm", W_ENDF |-> "endf", W_ENDREPT |-> "endrept",
  W_ENDREPT3 |-> "endrept", W_FI |-> "fi", W_FI2 |-> "fi",
  W_SWITCH |-> "endswitch", W_SWITCH2 |-> "endswitch"]

Pop ==
  /\ frames' = Below
  /\ env' = Closed(Top, env)

Close(l) ==
  /\ Met(l)
  /\ Top.what \in DOMAIN ClosedBy /\ ClosedBy[Top.what] = l
  /\ Pop
  /\ UNCHANGED <<calls, lbl, line>>

-----------------------------------------------------------------------------
(***************************************************************************)
(* Conditionals.  skip is 1 in the part that is assembled, 2 as long as a  *)
(* part may still be selected, and 0 otherwise.  A condition is evaluated  *)
(* only where it matters, and may be wrong.                                *)
(***************************************************************************)
Outcome == {"true", "false", "wrong"}
ByOutcome(r) == IF r = "true" THEN 1 ELSE IF r = "false" THEN 2 ELSE 0
Eligible == AllOn(Depth - 1) /\ ~Top.taken

If ==
  /\ Met("if")
  /\ \E r \in Outcome :
       Push([New("W_FI2", env) EXCEPT
               !.skip = IF Top.skip # 1 THEN 0 ELSE ByOutcome(r),
               !.on = (r = "true"), !.taken = (r # "false")])

Elsif ==
  /\ Met("elsif") /\ Top.what = "W_FI2"
  /\ \E r \in Outcome :
       frames' = SetTop([Top EXCEPT
         !.skip = IF @ # 2 THEN 0 ELSE ByOutcome(r),
         !.on = Eligible /\ r = "true", !.taken = @ \/ (Eligible /\ r # "false")])
  /\ UNCHANGED <<calls, env, lbl, line>>

\* Mutant: .else only turns round what was there.
OtherwiseTurned(what) ==
  /\ frames' = SetTop([Top EXCEPT !.what = what, !.skip = IF @ = 1 THEN 0 ELSE 1,
                                  !.on = Eligible])
  /\ UNCHANGED <<calls, env, lbl, line>>

\* .else and .default
Otherwise(what) ==
  /\ frames' = SetTop([Top EXCEPT !.what = what, !.skip = @ \div 2, !.on = Eligible])
  /\ UNCHANGED <<calls, env, lbl, line>>
Else == Met("else") /\ Top.what = "W_FI2" /\ Otherwise("W_FI")
Default == Met("default") /\ Top.what = "W_SWITCH2" /\ Otherwise("W_SWITCH")

\* The value of .switch may not be known.
Switch ==
  /\ Met("switch")
  /\ \E known \in BOOLEAN :
       Push([New("W_SWITCH2", env) EXCEPT
               !.skip = IF Top.skip = 1 /\ known THEN 2 ELSE 0,
               !.on = FALSE, !.taken = ~known])

\* A comparison that fails leaves .case unselected, an operand that cannot
\* be read ends the .switch.
Case ==
  /\ Met("case") /\ Top.what = "W_SWITCH2"
  /\ \E r \in Outcome \cup {"unreadable"} :
       frames' = SetTop([Top EXCEPT
         !.skip = IF @ # 2 \/ r = "unreadable" THEN 0 ELSE IF r = "true" THEN 1 ELSE 2,
         !.on = Eligible /\ r = "true",
         !.taken = @ \/ (Eligible /\ r \in {"true", "unreadable"})])
  /\ UNCHANGED <<calls, env, lbl, line>>

-----------------------------------------------------------------------------
(***************************************************************************)
(* Activations.  A call has the base of its frames (oldwaitforp), the      *)
(* scopes its caller pushed, and what the caller saved.  ret is "none"     *)
(* while compile reads lines, "goto" while it closes blocks for a jump,    *)
(* and afterwards whether it returns a null value.                         *)
(***************************************************************************)
Loops == {"rept", "brept"}
Files == {"source", "include", "binclude", "macrocall", "segmentcall", "funccall",
          "funcexpr", "named struct", "named union", "dstruct", "dunion"}

Enter(kind, fs, pushed, e) ==
  /\ Len(fs) <= MaxFrames /\ Len(calls) < MaxCalls
  /\ frames' = [fs EXCEPT ![Len(fs)].inner = e]
  /\ calls' = Append(calls, [kind |-> kind, base |-> Len(fs), pushed |-> pushed,
                             ret |-> "none", saved |-> env, what |-> Top.what])
  /\ env' = e
  /\ UNCHANGED <<lbl, line>>

With(f) == Append(frames, f)

Invoke(l) ==
  /\ Met(l) /\ Assembled
  /\ \/ l = "include"      /\ Enter(l, SetTop([Top EXCEPT !.what = "W_NONE"]), 0, env)
     \/ l = "binclude"     /\ Enter(l, SetTop([Top EXCEPT !.what = "W_NONE"]), 1, PushContext(env))
     \/ l = "macrocall"    /\ Enter(l, With(New("W_ENDMACRO2", env)), 1, PushContext(env))
     \/ l = "segmentcall"  /\ Enter(l, With(New("W_ENDSEGMENT2", env)), 0, env)
     \/ l = "funccall"     /\ Enter(l, With(New("W_ENDF2", env)), 2, MemberOf(env))
     \/ l = "funcexpr"     /\ Enter(l, With(New("W_ENDF3", env)), 2,
                                    NewAddress(MemberOf(env), Depth + 1, FALSE))
     \/ l = "named struct" /\ Enter(l, With(New("W_ENDS2", env)), 1,
                                    PushContext(NewAddress(env, Depth + 1, FALSE)))
     \/ l = "named union"  /\ Enter(l, With(New("W_ENDU2", env)), 1,
                                    PushContext(NewAddress(env, Depth + 1, TRUE)))
     \/ l = "dstruct"      /\ Enter(l, With(New("W_ENDS3", env)), 0, UnionMode(env, FALSE))
     \/ l = "dunion"       /\ Enter(l, With(New("W_ENDU3", env)), 1, PushContext(UnionMode(env, TRUE)))
     \/ l = "rept"         /\ Enter(l, With(New("W_ENDREPT2", env)), 0, env)
     \/ l = "brept"        /\ Enter(l, With(New("W_ENDREPT2", env)), 1, PushContext(env))

\* A loop that does not go round at all
Unrolled(l) == /\ Met(l) /\ Assembled /\ l \in Loops
               /\ Push(Off(New("W_ENDREPT", env)))

\* The directives that end an activation leave its frame to the caller.
ReturnedBy == [W_ENDMACRO2 |-> "endm", W_ENDSEGMENT2 |-> "endm", W_ENDF2 |-> "endf",
               W_ENDF3 |-> "endf", W_ENDS2 |-> "ends", W_ENDS3 |-> "ends",
               W_ENDU2 |-> "endu", W_ENDU3 |-> "endu", W_ENDREPT2 |-> "endrept"]
Return(l) ==
  /\ Met(l)
  /\ Top.what \in DOMAIN ReturnedBy /\ ReturnedBy[Top.what] = l
  /\ calls' = SetCall([Call EXCEPT !.ret = IF l = "endrept" THEN "value" ELSE "null"])
  /\ UNCHANGED <<frames, env, lbl, line>>

\* .end, which has no test of skip, and the end of the file, or a signal
End(l) ==
  /\ Met(l) /\ l \in Ending
  /\ calls' = SetCall([Call EXCEPT !.ret = "null"])
  /\ UNCHANGED <<frames, env, lbl, line>>

\* .break and .continue: the loop is looked for by its frame, the frames from
\* there on are not assembled any more.  The loop meant is the one whose
\* lines are being assembled.
LoopFrames == {i \in 1 .. Depth : /\ frames[i].what = "W_ENDREPT2"
                                  /\ \A j \in i .. Depth : frames[j].what # "W_ENDF3"}
LoopMeant == {calls[k].base : k \in {k \in DOMAIN calls :
                /\ calls[k].kind \in Loops
                /\ \A j \in k .. Len(calls) : calls[j].kind # "funcexpr"}}
Latest(set, n) == n \in set /\ \A i \in set : i <= n

Break(l) ==
  /\ Met(l) /\ Assembled /\ l \in {"break", "continue"}
  /\ \E w \in LoopFrames, m \in LoopMeant :
       /\ Latest(LoopFrames, w) /\ Latest(LoopMeant, m)
       /\ frames' = [i \in 1 .. Depth |-> [frames[i] EXCEPT
            !.skip = IF i >= w THEN 0 ELSE @,
            !.breakout = IF i = w THEN @ \/ l = "break" ELSE @,
            !.on = IF i >= m THEN FALSE ELSE @]]
  /\ UNCHANGED <<calls, env, lbl, line>>

\* .lbl and .goto, which stays in its activation, its file and its scope
FileDepth == Len(SelectSeq(calls, LAMBDA c : c.kind \in Files))
Place == [depth |-> Depth, ctx |-> env.ctx, file |-> FileDepth]
Lbl == /\ Met("lbl") /\ Assembled
       /\ lbl' = Place
       /\ UNCHANGED <<frames, calls, env, line>>
Goto ==
  /\ Met("goto") /\ Assembled
  /\ lbl.depth >= Call.base /\ lbl.ctx = env.ctx /\ lbl.file = FileDepth
  /\ calls' = SetCall([Call EXCEPT !.ret = "goto"])
  /\ UNCHANGED <<frames, env, lbl, line>>
Jumped ==
  /\ calls # <<>> /\ Call.ret = "goto" /\ Depth <= lbl.depth
  /\ calls' = SetCall([Call EXCEPT !.ret = "none"])
  /\ UNCHANGED <<frames, env, lbl, line>>

\* Blocks that are open still when compile returns or jumps out of them
Unwind ==
  /\ calls # <<>> /\ ~Running
  /\ Depth > IF Call.ret = "goto" THEN lbl.depth ELSE Call.base
  /\ Pop
  /\ UNCHANGED <<calls, lbl, line>>

-----------------------------------------------------------------------------
(***************************************************************************)
(* What the callers do after compile has returned.                         *)
(***************************************************************************)
Returned(kinds) ==
  /\ calls # <<>> /\ Call.ret \in {"null", "value"} /\ Depth = Call.base
  /\ Call.kind \in kinds

PopContexts(e, n) == IF n = 0 THEN e
                     ELSE IF n = 1 THEN PopContext(e) ELSE PopContext(PopContext(e))

\* The bottom of the context stack goes back before the scopes do.
Left ==
  LET e == PopContexts(IF Call.kind \in {"funccall", "funcexpr"}
                       THEN [env EXCEPT !.bottom = Call.saved.bottom] ELSE env, Call.pushed)
  IN IF Call.kind \in {"funcexpr", "named struct", "named union"}
     THEN OldAddress(e, Call.saved.addr)
     ELSE IF Call.kind \in {"dstruct", "dunion"}
     THEN UnionMode(e, Call.saved.union[Call.saved.addr])
     ELSE e

Back(fs) == /\ frames' = fs
            /\ calls' = Outer
            /\ env' = Left
            /\ UNCHANGED <<lbl, line>>
Restored(what) == [Top EXCEPT !.what = what, !.inner = Call.saved]
\* close_waitfor, which does nothing to any other frame
CloseFrame(what) == IF Top.what = what THEN Below ELSE frames

ReturnInclude == Returned({"include", "binclude"}) /\ Back(SetTop(Restored(Call.what)))

BaseOf == [macrocall |-> "W_ENDMACRO2", segmentcall |-> "W_ENDSEGMENT2",
           funccall |-> "W_ENDF2", funcexpr |-> "W_ENDF3",
           dstruct |-> "W_ENDS3", dunion |-> "W_ENDU3"]
ReturnCall == Returned(DOMAIN BaseOf) /\ Back(CloseFrame(BaseOf[Call.kind]))

\* The line that ended a named structure is read again, by the outer compile.
ReturnNamed ==
  \/ Returned({"named struct"}) /\ Back(SetTop(Off(Restored("W_ENDS"))))
  \/ Returned({"named union"}) /\ Back(SetTop(Off(Restored("W_ENDU"))))

LoopEnds ==
  /\ Returned(Loops)
  /\ \/ Call.ret = "null" /\ Back(SetTop(Off(Restored("W_ENDREPT"))))
     \/ Call.ret = "value" /\ Back(CloseFrame("W_ENDREPT2"))
LoopGoesOn ==
  /\ Returned(Loops) /\ Call.ret = "value" /\ ~Top.breakout
  /\ env' = IF Call.pushed = 1 THEN PushContext(Left) ELSE Left
  /\ frames' = SetTop([Top EXCEPT !.skip = 1, !.on = TRUE])
  /\ calls' = SetCall([Call EXCEPT !.ret = "none"])
  /\ UNCHANGED <<lbl, line>>

SourceEnds == /\ Returned({"source"})
              /\ calls' = <<>>
              /\ UNCHANGED <<frames, env, lbl, line>>

Bottom == Frame("W_NONE", 1, NewEnv, NewEnv)
Source == [kind |-> "source", base |-> 1, pushed |-> 0, ret |-> "none",
           saved |-> NewEnv, what |-> "W_NONE"]
NoLbl == [depth |-> 0, ctx |-> 0, file |-> 0]

\* The next file on the command line, or the next pass; one_pass begins with
\* the same stacks, but the sections are as the file before left them.
NextFile ==
  /\ calls = <<>>
  /\ frames' = <<Bottom>> /\ calls' = <<Source>> /\ lbl' = NoLbl
  /\ env' = [NewEnv EXCEPT !.union = [env.union EXCEPT ![NewEnv.addr] = FALSE],
                           !.logical = [env.logical EXCEPT ![0] = 0]]
  /\ UNCHANGED line

Init ==
  /\ frames = <<Bottom>> /\ calls = <<Source>>
  /\ env = NewEnv /\ lbl = NoLbl /\ line \in Alphabets

Next ==
  \/ \E l \in line : \/ OpenLive(l) \/ OpenDead(l) \/ Close(l) \/ Invoke(l)
                     \/ Unrolled(l) \/ Return(l) \/ End(l) \/ Break(l)
  \/ If \/ Elsif \/ Else \/ Switch \/ Case \/ Default \/ Lbl \/ Goto \/ Jumped
  \/ Unwind \/ ReturnInclude \/ ReturnCall \/ ReturnNamed
  \/ LoopEnds \/ LoopGoesOn \/ SourceEnds \/ NextFile

Spec == Init /\ [][Next]_vars

-----------------------------------------------------------------------------
(***************************************************************************)
(* Properties.                                                             *)
(***************************************************************************)

\* .break in a union or structure leaves its union mode on, and .break in an
\* included file misses the loop around the file.  The properties are those of
\* sources with .break that have neither.
BreaksApart ==
  \A a \in Alphabets :
    a \cap {"break", "continue"} = {} \/ a \cap {"include", "binclude", "union", "struct"} = {}

\* The one byte skip of the topmost frame says exactly whether all the open
\* blocks are in a part that is selected (new_waitfor, .if ... .default,
\* .break, the loops).
SkipExact == Running => (Assembled <=> AllOn(Depth))

\* However a block was left - by its directive, at the end of its file, by a
\* jump or cut short by .break - scopes, .weak, section, address, encoding,
\* union mode and .logical are those of the block around it.
Balanced == Running => env = Top.inner
=============================================================================
