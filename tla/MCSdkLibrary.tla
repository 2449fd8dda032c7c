---------------------------- MODULE MCSdkLibrary ----------------------------
(* Two archives: the second lacks the source that is not required.          *)
EXTENDS SdkLibrary, TLC

CONSTANTS hdr, core

MCArchives == { [f \in Files |-> 1], [f \in Files |-> IF f = core THEN Absent ELSE 2] }

Symmetry == Permutations(Calls)
=============================================================================
