-------------------------------- MODULE Image --------------------------------
(***************************************************************************)
(* What assembling does to a memory, without blocks: bytes are placed one  *)
(* after the other from a position that wraps round at the top, and the    *)
(* position can be moved.  A later byte hides an earlier one.              *)
(***************************************************************************)
EXTENDS Naturals, Sequences

CONSTANT Size  \* of the memory, at least 1

VARIABLES
  pos,  \* where the next byte goes
  log   \* the address of each byte placed, in order

vars == <<pos, log>>

Put(n) ==
  /\ log' = log \o [k \in 1 .. n |-> (pos + k - 1) % Size]
  /\ pos' = (pos + n) % Size
Move ==
  /\ pos' \in 0 .. Size - 1
  /\ UNCHANGED log

Init == pos \in 0 .. Size - 1 /\ log = <<>>
Next == Move \/ \E n \in 1 .. Size : Put(n)
Spec == Init /\ [][Next]_vars

=============================================================================
