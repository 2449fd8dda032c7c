--------------------------- MODULE MCDiagnosisAuth ---------------------------
(* Operations of one kind are interchangeable until they are used.          *)
EXTENDS DiagnosisAuth, TLC

Symmetry == Permutations(CliOps) \cup Permutations(Ops \ CliOps)
=============================================================================
