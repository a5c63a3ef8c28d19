------------------------------ MODULE MCMemory ------------------------------
(***************************************************************************)
(* A memory of three bytes, all of which the processor addresses.          *)
(* Each alphabet is one way in which the operations meet.                  *)
(***************************************************************************)
EXTENDS Memory

MCStarts == {0, 1}
MCValues == {-1, 0, 2}
MCAlphabets ==
  {{"skip", "star", "label"}, {"label", "dsection"}, {"dsection", "union"},
   {"logical", "star"}, {"logical", "union"}, {"logical", "instance"},
   {"union", "star"}, {"union", "instance"}, {"instance", "star"}, {"offs"}}

ASSUME ModeAssumption == ~Flat
=============================================================================
