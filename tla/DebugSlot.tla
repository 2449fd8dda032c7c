------------------------------ MODULE DebugSlot ------------------------------
(***************************************************************************)
(* The live debug session of the MCP server: debug_start, debug_stop and   *)
(* the tools that use the session (mcp_server.rs), DebugSession::start and *)
(* stop (tools/debug.rs), and the OpenOCD and GDB processes they own.      *)
(* Tool calls run concurrently; the session they share sits in one         *)
(* mutex-protected slot.  debug_start opens the new session before it      *)
(* locks the slot, and the assignment drops the session it replaces while  *)
(* the lock is held.  A tool holds it for as long as GDB takes to answer.  *)
(*                                                                         *)
(* A session, its OpenOCD and its GDB carry the name of the debug_start    *)
(* call that opened them.  Slot... are the names each specification has,   *)
(* so that one module can extend this one and GdbChannel.                  *)
(***************************************************************************)
CONSTANTS Calls,  \* tool calls: debug_start, debug_stop, or one that uses the session
          None

ASSUME DebugAssumption == None \notin Calls

VARIABLES
  pc,      \* where each call is
  ocd,     \* OpenOCD of each debug_start: up (not listening yet), serving :3333
  gdbs,    \* GDB of each debug_start
  remote,  \* the OpenOCD each GDB is connected to
  slot,    \* NffServer.debug_session
  lock,    \* the call that holds its mutex
  victim,  \* the session each call is dropping
  orphans, \* OpenOCDs that outlived the server process that started them
  crossed  \* ghost: a debug_start has begun while :3333 was not free for it

procs    == <<ocd, gdbs, remote>>
slotVars == <<pc, ocd, gdbs, remote, slot, lock, victim, orphans, crossed>>

Opening   == {"waiting", "answered", "handshake", "ready"}
Dropping  == {"dropGdb", "dropOcd"}
Finished  == {"done", "failed"}
Holding   == Dropping \cup {"tool"}               \* inside the mutex
AskingGdb == {"handshake", "tool", "dropGdb"}     \* inside exec(), which GDB ends
Live(c)   == ocd[c] \in {"up", "serving"}
Serving   == {c \in Calls : ocd[c] = "serving"}

SlotInit ==
  /\ pc = [c \in Calls |-> "idle"]
  /\ ocd = [c \in Calls |-> "none"]
  /\ gdbs = [c \in Calls |-> "none"]
  /\ remote = [c \in Calls |-> None]
  /\ slot = None
  /\ lock = None
  /\ victim = [c \in Calls |-> None]
  /\ orphans = {}
  /\ crossed = FALSE

Goto(c, label) == pc' = [pc EXCEPT ![c] = label]

-----------------------------------------------------------------------------
(* OpenOCD, seen through the port the code probes.                         *)

OcdListens(c) ==
  /\ ocd[c] = "up"
  /\ Serving = {}
  /\ ocd' = [ocd EXCEPT ![c] = "serving"]
  /\ UNCHANGED <<pc, gdbs, remote, slot, lock, victim, orphans, crossed>>

\* No probe, or :3333 (or the probe) is taken: OpenOCD reports it and exits.
OcdGivesUp(c) ==
  /\ ocd[c] = "up"
  /\ ocd' = [ocd EXCEPT ![c] = "exited"]
  /\ UNCHANGED <<pc, gdbs, remote, slot, lock, victim, orphans, crossed>>

-----------------------------------------------------------------------------
(* debug_start, up to the point where the session is ready to be stored.   *)

\* open_session() finds no OpenOCD, no GDB or no such ELF, or cannot start OpenOCD.
OpenFails(c) ==
  /\ pc[c] = "idle"
  /\ Goto(c, "failed")
  /\ UNCHANGED <<procs, slot, lock, victim, orphans, crossed>>

SpawnOpenocd(c) ==
  /\ pc[c] = "idle"
  /\ ocd' = [ocd EXCEPT ![c] = "up"]
  /\ crossed' = (crossed \/ slot # None \/ orphans # {}
                   \/ \E d \in Calls : pc[d] \in Opening \cup Dropping)
  /\ Goto(c, "waiting")
  /\ UNCHANGED <<gdbs, remote, slot, lock, victim, orphans>>

\* wait_for_gdb_server: a connection to :3333 succeeds, whoever accepts it.
ServerAnswers(c) ==
  /\ pc[c] = "waiting"
  /\ Serving # {}
  /\ Goto(c, "answered")
  /\ UNCHANGED <<procs, slot, lock, victim, orphans, crossed>>

\* ... the child has exited, or the 15 s are over; kill() ends what is left.
ServerNeverUp(c) ==
  /\ pc[c] = "waiting"
  /\ ocd' = [ocd EXCEPT ![c] = "exited"]
  /\ Goto(c, "failed")
  /\ UNCHANGED <<gdbs, remote, slot, lock, victim, orphans, crossed>>

SpawnGdb(c) ==
  /\ pc[c] = "answered"
  /\ gdbs' = [gdbs EXCEPT ![c] = "up"]
  /\ Goto(c, "handshake")
  /\ UNCHANGED <<ocd, remote, slot, lock, victim, orphans, crossed>>

\* The failure path without its kill(): OpenOCD keeps the port and the probe.
SpawnGdbLeaks(c) ==
  /\ pc[c] = "answered"
  /\ Goto(c, "failed")
  /\ UNCHANGED <<procs, slot, lock, victim, orphans, crossed>>

SpawnGdbFails(c) ==
  /\ pc[c] = "answered"
  /\ ocd' = [ocd EXCEPT ![c] = "exited"]
  /\ Goto(c, "failed")
  /\ UNCHANGED <<gdbs, remote, slot, lock, victim, orphans, crossed>>

\* -target-select connects to the OpenOCD that owns the port by now.
Handshake(c) ==
  /\ pc[c] = "handshake"
  /\ \E d \in Serving : remote' = [remote EXCEPT ![c] = d]
  /\ Goto(c, "ready")
  /\ UNCHANGED <<ocd, gdbs, slot, lock, victim, orphans, crossed>>

\* An error of the handshake that start() would not propagate.
HandshakeIgnoresError(c) ==
  /\ pc[c] = "handshake"
  /\ Goto(c, "ready")
  /\ UNCHANGED <<procs, slot, lock, victim, orphans, crossed>>

\* A step of the handshake answers ^error (or the pipe breaks): stop().
HandshakeFails(c) ==
  /\ pc[c] = "handshake"
  /\ ocd' = [ocd EXCEPT ![c] = "exited"]
  /\ gdbs' = [gdbs EXCEPT ![c] = "exited"]
  /\ Goto(c, "failed")
  /\ UNCHANGED <<remote, slot, lock, victim, orphans, crossed>>

-----------------------------------------------------------------------------
(* The slot.                                                               *)

\* *debug_session.lock() = Some(session), an empty slot
Store(c) ==
  /\ pc[c] = "ready"
  /\ lock = None
  /\ slot = None
  /\ slot' = c
  /\ Goto(c, "done")
  /\ UNCHANGED <<procs, lock, victim, orphans, crossed>>

\* ... and an occupied one: the old session is dropped in place first.
Replace(c) ==
  /\ pc[c] = "ready"
  /\ lock = None
  /\ slot # None
  /\ lock' = c
  /\ victim' = [victim EXCEPT ![c] = slot]
  /\ Goto(c, "dropGdb")
  /\ UNCHANGED <<procs, slot, orphans, crossed>>

\* debug_stop: take() the session; it is dropped before the guard is.
Take(c) ==
  /\ pc[c] = "idle"
  /\ lock = None
  /\ slot # None
  /\ lock' = c
  /\ victim' = [victim EXCEPT ![c] = slot]
  /\ slot' = None
  /\ Goto(c, "dropGdb")
  /\ UNCHANGED <<procs, orphans, crossed>>

\* A tool finds no session: debug_stop has nothing to stop, the others say so.
NoSession(c) ==
  /\ pc[c] = "idle"
  /\ lock = None
  /\ slot = None
  /\ Goto(c, "done")
  /\ UNCHANGED <<procs, slot, lock, victim, orphans, crossed>>

\* with_session(), get_session_info(): the tool talks to GDB inside the guard.
UseSession(c) ==
  /\ pc[c] = "idle"
  /\ lock = None
  /\ slot # None
  /\ lock' = c
  /\ Goto(c, "tool")
  /\ UNCHANGED <<procs, slot, victim, orphans, crossed>>

\* ... until each of its commands is answered, or GDB has ended.
ToolReturns(c) ==
  /\ pc[c] = "tool"
  /\ lock' = None
  /\ Goto(c, "done")
  /\ UNCHANGED <<procs, slot, victim, orphans, crossed>>

\* DebugSession::stop: -gdb-exit, kill and wait for GDB, then for OpenOCD.
DropGdb(c) ==
  /\ pc[c] = "dropGdb"
  /\ gdbs' = [gdbs EXCEPT ![victim[c]] = "exited"]
  /\ Goto(c, "dropOcd")
  /\ UNCHANGED <<ocd, remote, slot, lock, victim, orphans, crossed>>

\* A guard that outlives the drop: nobody can lock the slot again.
DropOcdKeepsLock(c) ==
  /\ pc[c] = "dropOcd"
  /\ ocd' = [ocd EXCEPT ![victim[c]] = "exited"]
  /\ victim' = [victim EXCEPT ![c] = None]
  /\ slot' = IF slot = victim[c] THEN c ELSE slot
  /\ Goto(c, "done")
  /\ UNCHANGED <<gdbs, remote, lock, orphans, crossed>>

DropOcd(c) ==
  /\ pc[c] = "dropOcd"
  /\ ocd' = [ocd EXCEPT ![victim[c]] = "exited"]
  /\ victim' = [victim EXCEPT ![c] = None]
  /\ slot' = IF slot = victim[c] THEN c ELSE slot
  /\ lock' = None
  /\ Goto(c, "done")
  /\ UNCHANGED <<gdbs, remote, orphans, crossed>>

\* The server is killed and started again: no destructor runs.  GDB ends with
\* its stdin; OpenOCD does not.
Restart ==
  /\ \E c \in Calls : pc[c] \notin {"idle", "failed"}
  /\ pc' = [c \in Calls |-> IF pc[c] = "idle" THEN "idle" ELSE "failed"]
  /\ gdbs' = [c \in Calls |-> IF gdbs[c] = "up" THEN "exited" ELSE gdbs[c]]
  /\ slot' = None
  /\ lock' = None
  /\ victim' = [c \in Calls |-> None]
  /\ orphans' = {c \in Calls : Live(c)}
  /\ UNCHANGED <<ocd, remote, crossed>>

\* What ends only when GDB answers or dies: exec() reads its lines without a limit.
AskGdb(c) ==
  \/ Handshake(c)
  \/ HandshakeFails(c)
  \/ ToolReturns(c)
  \/ DropGdb(c)

OwnStep(c) ==
  \/ OpenFails(c)
  \/ SpawnOpenocd(c)
  \/ ServerAnswers(c)
  \/ ServerNeverUp(c)
  \/ SpawnGdb(c)
  \/ SpawnGdbFails(c)
  \/ Store(c)
  \/ Replace(c)
  \/ Take(c)
  \/ NoSession(c)
  \/ UseSession(c)
  \/ DropOcd(c)

SlotNext ==
  \/ \E c \in Calls : OwnStep(c) \/ AskGdb(c) \/ OcdListens(c) \/ OcdGivesUp(c)
  \/ Restart

SlotSpec == SlotInit /\ [][SlotNext]_slotVars

\* Every thread of the server runs (wait_for_gdb_server has a limit of 15 s).  Neither
\* GDB nor OpenOCD is under any obligation.
SlotFairSpec == SlotSpec /\ \A c \in Calls : WF_slotVars(OwnStep(c))

-----------------------------------------------------------------------------
\* The variables have their types; the mutex is held exactly by the call that is
\* dropping a session or using the stored one.
SlotTypeOK ==
  /\ pc \in [Calls -> {"idle"} \cup Opening \cup Holding \cup Finished]
  /\ ocd \in [Calls -> {"none", "up", "serving", "exited"}]
  /\ gdbs \in [Calls -> {"none", "up", "exited"}]
  /\ remote \in [Calls -> Calls \cup {None}]
  /\ slot \in Calls \cup {None}
  /\ lock \in Calls \cup {None}
  /\ victim \in [Calls -> Calls \cup {None}]
  /\ orphans \in SUBSET Calls
  /\ crossed \in BOOLEAN
  /\ \A c \in Calls : pc[c] \in Holding <=> lock = c

\* The call that will still end session c's processes, or its owner.
Accountable(c) ==
  \/ pc[c] \in Opening \cup Dropping
  \/ slot = c
  \/ \E d \in Calls : pc[d] \in Dropping /\ victim[d] = c

\* "Stop the session and shut down OpenOCD + GDB": on no path - a failed wait, a
\* failed handshake, a replaced or a stopped session - does a GDB or an OpenOCD of
\* this server stay behind with nothing left that would end it.
NoProcessLeaks ==
  \A c \in Calls :
    /\ gdbs[c] = "up" => Accountable(c)
    /\ Live(c) => Accountable(c) \/ c \in orphans

\* A session that was started while :3333 was free is, once stored, connected to
\* its own OpenOCD, and that one is running.
OwnServerUnlessCrossed ==
  \A c \in Calls :
    slot = c /\ ~crossed => remote[c] = c /\ ocd[c] = "serving" /\ gdbs[c] = "up"

\* Only a GDB that does not answer keeps a call from returning: unless some call waits
\* for GDB for ever, each one returns, those that queue for the mutex included.
CallsReturn ==
  \/ \E d \in Calls : <>[](pc[d] \in AskingGdb)
  \/ \A c \in Calls : pc[c] # "idle" ~> pc[c] \in Finished
=============================================================================
