----------------------------- MODULE OneServer -----------------------------
(***************************************************************************)
(* What `nff init` and `nff mcp` promise of the background server, without *)
(* a word of ports, looks and binds: at most one process serves, another   *)
(* may serve only when it has ended, and a user who was told of a running  *)
(* server has one until then.                                              *)
(***************************************************************************)
CONSTANTS Servers,  \* the processes that may serve
          Inits     \* the users who may be told so

VARIABLES serving,  \* the processes that serve
          promised  \* who was told of the one that serves now

Init == serving = {} /\ promised = {}

Begin(s) ==
  /\ serving = {}
  /\ serving' = {s}
  /\ UNCHANGED promised

Promise(i) ==
  /\ serving # {}
  /\ promised' = promised \cup {i}
  /\ UNCHANGED serving

\* Promises end with the server they were made about.
Finish ==
  /\ serving # {}
  /\ serving' = {} /\ promised' = {}

Next == (\E s \in Servers : Begin(s)) \/ (\E i \in Inits : Promise(i)) \/ Finish

Spec == Init /\ [][Next]_<<serving, promised>>
=============================================================================
