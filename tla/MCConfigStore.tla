---------------------------- MODULE MCConfigStore ----------------------------
(* Two setters, two sections with two values each, four files: enough for a *)
(* saver to meet a file abandoned by the other while a third is published.  *)
EXTENDS ConfigStore, TLC

CONSTANTS device, mcp

MCSections == {device, mcp}
MCValues   == {"unset", "set"}
MCDefault  == [s \in MCSections |-> "unset"]
Symmetry   == Permutations(Procs) \cup Permutations(Files)
=============================================================================
