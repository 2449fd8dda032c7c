---------------------------- MODULE MCBoardIndex ----------------------------
(* An id two boards may claim, one of a bridge and one of BOARD_MAP.        *)
EXTENDS BoardIndex, TLC

CONSTANTS usb, bridge, link, b1, b2

MCManifests == {{<<usb, b1>>, <<bridge, b1>>, <<link, b1>>}, {<<usb, b2>>}}

Symmetry == Permutations(Procs) \cup Permutations(Platforms)
=============================================================================
