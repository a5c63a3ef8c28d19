------------------------------ MODULE MCOutputs ------------------------------
(***************************************************************************)
(* A section in a memory of three bytes, and two files; or a source with   *)
(* a macro call and a file included at two lines, and few bytes.           *)
(***************************************************************************)
EXTENDS Outputs
MCBoth == BOOLEAN
MCLimits ==
  {[events |-> 0, bytes |-> 4, files |-> 1, listing |-> FALSE, faults |-> FALSE],
   [events |-> 0, bytes |-> 3, files |-> 2, listing |-> FALSE, faults |-> FALSE],
   [events |-> 4, bytes |-> 0, files |-> 1, listing |-> FALSE, faults |-> FALSE],
   [events |-> 1, bytes |-> 1, files |-> 2, listing |-> FALSE, faults |-> TRUE],
   [events |-> 2, bytes |-> 0, files |-> 2, listing |-> TRUE, faults |-> TRUE]}
R(kind, spot, at, line, text, note, about) ==
  [kind |-> kind, spot |-> spot, at |-> at, line |-> line, text |-> text, note |-> note, about |-> about]
MCReports ==
  {R("error", "plain", 3, "", "wrong", 0, ""),
   R("error", "changed", 2, "x", "double", 3, "first was here"),
   R("error", "argument", 2, "x", "double", 3, "first was here"),
   R("diagnosed", "plain", 1, "", "odd", 0, ""),
   R("undefined", "plain", 2, "", "name", 4, "searched"),
   R("undefined", "plain", 1, "", "name", 4, "searched"),
   R("undefined", "plain", 2, "", "name", 5, "searched"),
   R("none", "plain", 1, "", "unknown", 0, ""),
   R("once", "plain", 2, "", "signed", 0, "advice")}
MCInclusions ==
  {[at |-> 5, file |-> "main", macro |-> TRUE], [at |-> 6, file |-> "inc", macro |-> FALSE],
   [at |-> 7, file |-> "inc", macro |-> FALSE]}
=============================================================================
