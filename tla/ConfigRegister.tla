--------------------------- MODULE ConfigRegister ---------------------------
(***************************************************************************)
(* What ~/.nff/config.json promises to the commands and tools that use it: *)
(* a register whose sections are replaced one at a time, atomically, for   *)
(* as long as no two setters run at the same time.  Once two of them have  *)
(* overlapped the code promises nothing about what is read.                *)
(***************************************************************************)
CONSTANTS Sections,   \* device, diagnosis, mcp, build.backend, build.board
          Values,     \* what a section may hold, its default included
          Default,    \* Config::default()
          Empty, Torn \* a file serde refuses: truncated, or two texts mixed

VARIABLES value,      \* what load() reads
          overlapped  \* two setters have run at the same time

regvars == <<value, overlapped>>

Configs == [Sections -> Values]

RegInit == value = Default /\ overlapped = FALSE

\* One setter takes effect: its own section changes, the others do not.  A setter
\* that cannot read the file changes nothing.
Replace(s, v) ==
  /\ value \in Configs
  /\ value' = [value EXCEPT ![s] = v]
  /\ UNCHANGED overlapped

Overlap ==
  /\ overlapped' = TRUE
  /\ UNCHANGED value

\* After an overlap a section may go back in time or the file may be unreadable.
Disturbed ==
  /\ overlapped
  /\ value' \in Configs \cup {Empty, Torn}
  /\ UNCHANGED overlapped

RegNext ==
  \/ \E s \in Sections, v \in Values : Replace(s, v)
  \/ Overlap
  \/ Disturbed

RegSpec == RegInit /\ [][RegNext]_regvars
=============================================================================
