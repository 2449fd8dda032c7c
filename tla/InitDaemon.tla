----------------------------- MODULE InitDaemon -----------------------------
(***************************************************************************)
(* `nff init` and the background MCP server (commands/init.rs and mcp.rs,  *)
(* tools/daemon.rs): sign in, keep an existing configuration or write a    *)
(* new one, then find or start the server and confirm it.  Several inits   *)
(* and manual `nff mcp` share one port, which another program may hold.    *)
(* Daemon... are the names each specification has, so that one module can  *)
(* extend this one and OAuthProxy.                                         *)
(***************************************************************************)
EXTENDS Naturals

CONSTANTS Inits,     \* `nff init` commands; each may spawn a server of its own
          Manuals,   \* `nff mcp` commands
          Forced,    \* the inits with --force
          Polls,     \* how often start_background() looks again
          Nobody, Other

Servers == Inits \cup Manuals     \* named after the command that starts them

ASSUME InitsAssumption ==
  /\ Inits \cap Manuals = {} /\ Forced \subseteq Inits /\ Polls \in Nat
  /\ Nobody \notin Servers /\ Other \notin Servers /\ Nobody # Other

VARIABLES
  signedIn,   \* the config holds a platform token
  device,     \* it holds a default device with a port
  port,       \* who listens on 127.0.0.1:3010: a server, Other, or Nobody
  server,     \* where each server process is
  at, polls,
  told,       \* what each init tells its user
  kept        \* ghost: inits that said so of an nff server, none of which has ended since

daemonVars == <<signedIn, device, port, server, at, polls, told, kept>>

DaemonInit ==
  /\ signedIn \in BOOLEAN /\ device \in BOOLEAN /\ port \in {Nobody, Other}
  /\ server = [s \in Servers |-> "none"]
  /\ at = [i \in Inits |-> "new"] /\ polls = [i \in Inits |-> 0]
  /\ told = [i \in Inits |-> "nothing"]
  /\ kept = {}

Move(i, l) == at' = [at EXCEPT ![i] = l]
Tell(i, m) == told' = [told EXCEPT ![i] = m] /\ Move(i, "done")
TellUp(i) == Tell(i, "running") /\ kept' = IF port = Other THEN kept ELSE kept \cup {i}

\* is_running(): something accepts connections.
IsRunning == port # Nobody

-----------------------------------------------------------------------------
(* commands/init.rs, run().                                                *)

\* require_login(): a token that is there is not checked; otherwise the browser is
\* waited for, 300 s, twice.
Login(i) ==
  /\ at[i] = "new"
  /\ signedIn' = TRUE
  /\ Move(i, "guard")
  /\ UNCHANGED <<device, port, server, polls, told, kept>>

LoginFails(i) ==
  /\ at[i] = "new" /\ ~signedIn
  /\ Tell(i, "no login")
  /\ UNCHANGED <<signedIn, device, port, server, polls, kept>>

\* After the toolchain, best effort: a configured device is kept, and init is over.
KeepConfig(i) ==
  /\ at[i] = "guard" /\ device /\ i \notin Forced
  /\ Tell(i, "exists")
  /\ UNCHANGED <<signedIn, device, port, server, polls, kept>>

\* The device given, found or picked is stored.
WriteDevice(i) ==
  /\ at[i] = "guard" /\ (~device \/ i \in Forced)
  /\ device' = TRUE
  /\ Move(i, "register")
  /\ UNCHANGED <<signedIn, port, server, polls, told, kept>>

\* register_mcp_claude_code(): `claude mcp add` ends, one way or the other.
Register(i) ==
  /\ at[i] = "register"
  /\ Move(i, "probe")
  /\ UNCHANGED <<signedIn, device, port, server, polls, told, kept>>

\* No board, no answer at the prompt, or a config that cannot be written.
NoDevice(i) ==
  /\ at[i] = "guard" /\ (~device \/ i \in Forced)
  /\ Tell(i, "failed")
  /\ UNCHANGED <<signedIn, device, port, server, polls, kept>>

-----------------------------------------------------------------------------
(* start_background().                                                     *)

AlreadyUp(i) ==
  /\ at[i] = "probe" /\ IsRunning
  /\ TellUp(i)
  /\ UNCHANGED <<signedIn, device, port, server, polls>>

Spawn(i) ==
  /\ at[i] = "probe" /\ ~IsRunning
  /\ server' = [server EXCEPT ![i] = "starting"]
  /\ Move(i, "poll")
  /\ UNCHANGED <<signedIn, device, port, polls, told, kept>>

\* No log file, no executable, no process.
SpawnFails(i) ==
  /\ at[i] = "probe" /\ ~IsRunning
  /\ Tell(i, "run nff mcp")
  /\ UNCHANGED <<signedIn, device, port, server, polls, kept>>

\* Taking the spawned process for a running server.
TrustSpawn(i) ==
  /\ at[i] = "poll"
  /\ TellUp(i)
  /\ UNCHANGED <<signedIn, device, port, server, polls>>

\* Waiting for the server without a limit.
PollForever(i) ==
  /\ at[i] = "poll"
  /\ \/ IsRunning /\ TellUp(i)
     \/ ~IsRunning /\ UNCHANGED <<at, told, kept>>
  /\ UNCHANGED <<signedIn, device, port, server, polls>>

\* One look too many.
PollOnceMore(i) ==
  /\ at[i] = "poll"
  /\ \/ IsRunning /\ TellUp(i) /\ UNCHANGED polls
     \/ ~IsRunning /\ polls' = [polls EXCEPT ![i] = @ + 1]
        /\ IF polls[i] > Polls THEN Tell(i, "run nff mcp") ELSE UNCHANGED <<at, told>>
        /\ UNCHANGED kept
  /\ UNCHANGED <<signedIn, device, port, server>>

\* Thirty times, a tenth of a second apart, and once more at the end.
Poll(i) ==
  /\ at[i] = "poll"
  /\ \/ IsRunning /\ TellUp(i) /\ UNCHANGED polls
     \/ ~IsRunning /\ polls[i] < Polls
        /\ polls' = [polls EXCEPT ![i] = @ + 1] /\ UNCHANGED <<at, told, kept>>
     \/ ~IsRunning /\ polls[i] = Polls /\ Tell(i, "run nff mcp") /\ UNCHANGED <<polls, kept>>
  /\ UNCHANGED <<signedIn, device, port, server>>

-----------------------------------------------------------------------------
(* `nff mcp`.                                                              *)

Launch(m) ==
  /\ m \in Manuals /\ server[m] = "none"
  /\ server' = [server EXCEPT ![m] = "starting"]
  /\ UNCHANGED <<signedIn, device, port, at, polls, told, kept>>

\* It looks first, and leaves if somebody listens ...
Look(s) ==
  /\ server[s] = "starting"
  /\ server' = [server EXCEPT ![s] = IF IsRunning THEN "ended" ELSE "binding"]
  /\ UNCHANGED <<signedIn, device, port, at, polls, told, kept>>

\* Letting the last one have the port.
BindOver(s) ==
  /\ server[s] = "binding"
  /\ port' = s /\ server' = [server EXCEPT ![s] = "serving"]
  /\ UNCHANGED <<signedIn, device, at, polls, told, kept>>

\* Trying again until the port is free.
BindRetry(s) ==
  /\ server[s] = "binding"
  /\ IF port = Nobody
     THEN port' = s /\ server' = [server EXCEPT ![s] = "serving"]
     ELSE UNCHANGED <<server, port>>
  /\ UNCHANGED <<signedIn, device, at, polls, told, kept>>

\* ... then binds, which fails if somebody was faster.
Bind(s) ==
  /\ server[s] = "binding"
  /\ IF port = Nobody
     THEN port' = s /\ server' = [server EXCEPT ![s] = "serving"]
     ELSE server' = [server EXCEPT ![s] = "ended"] /\ UNCHANGED port
  /\ UNCHANGED <<signedIn, device, at, polls, told, kept>>

\* A server is killed, or crashes.
End(s) ==
  /\ server[s] \in {"starting", "binding", "serving"}
  /\ server' = [server EXCEPT ![s] = "ended"]
  /\ port' = IF port = s THEN Nobody ELSE port
  /\ kept' = IF port = s THEN {} ELSE kept
  /\ UNCHANGED <<signedIn, device, at, polls, told>>

Reboot ==
  /\ server' = [s \in Servers |-> IF server[s] = "none" THEN "none" ELSE "ended"]
  /\ at' = [i \in Inits |-> IF at[i] = "new" THEN "new" ELSE "done"]
  /\ port' = Nobody /\ kept' = {}
  /\ UNCHANGED <<signedIn, device, polls, told>>

\* The user interrupts an init: the server it has spawned has its own process group.
Interrupt(i) ==
  /\ at[i] \in {"guard", "register", "probe", "poll"}
  /\ Move(i, "done")
  /\ UNCHANGED <<signedIn, device, port, server, polls, told, kept>>

\* `nff auth logout`.
Logout ==
  /\ signedIn /\ signedIn' = FALSE
  /\ UNCHANGED <<device, port, server, at, polls, told, kept>>

\* Another program takes the port, or gives it up.
OtherPort ==
  /\ port \in {Nobody, Other}
  /\ port' \in {Nobody, Other} \ {port}
  /\ UNCHANGED <<signedIn, device, server, at, polls, told, kept>>

Ends == Reboot \/ \E s \in Servers : End(s)

Setup(i) == Login(i) \/ KeepConfig(i) \/ WriteDevice(i) \/ NoDevice(i) \/ Register(i)
Start(i) == AlreadyUp(i) \/ Spawn(i) \/ SpawnFails(i) \/ Poll(i)
Serve(s) == Look(s) \/ Bind(s)

DaemonNext ==
  \/ \E i \in Inits : Setup(i) \/ LoginFails(i) \/ Start(i) \/ Interrupt(i)
  \/ \E m \in Manuals : Launch(m)
  \/ \E s \in Servers : Serve(s)
  \/ Ends \/ Logout \/ OtherPort

DaemonSpec == DaemonInit /\ [][DaemonNext]_daemonVars

\* start_background() and the servers take their steps.  What init does before has no
\* limit: the toolchain (pip), the prompt for a board, `claude mcp add`.
DaemonFairSpec ==
  /\ DaemonSpec
  /\ \A i \in Inits : WF_daemonVars(Start(i))
  /\ \A s \in Servers : WF_daemonVars(Serve(s))

-----------------------------------------------------------------------------
\* The variables have their types.
DaemonTypeOK ==
  /\ signedIn \in BOOLEAN /\ device \in BOOLEAN
  /\ port \in Servers \cup {Nobody, Other}
  /\ server \in [Servers -> {"none", "starting", "binding", "serving", "ended"}]
  /\ at \in [Inits -> {"new", "guard", "register", "probe", "poll", "done"}]
  /\ polls \in [Inits -> 0..Polls]
  /\ told \in [Inits -> {"nothing", "no login", "exists", "failed", "running", "run nff mcp"}]
  /\ kept \in SUBSET Inits

\* "Server running" is kept: the user who was told so, while no other program had the
\* port, has an nff server there until one is ended, however many inits and `nff mcp`
\* raced to start one and whichever of their processes had to give way.
RunningIsKept == kept # {} => port \in Servers

\* The server on the port and the server process that serves are one.
OneServes == \A s \in Servers : server[s] = "serving" <=> port = s

Single == INSTANCE OneServer WITH serving <- {s \in Servers : server[s] = "serving"},
                                  promised <- kept

\* The look before the bind, the polls and the spawned processes that find the port
\* taken do not show: however they race, servers follow each other one at a time, and
\* a promise is made of one that serves and is kept while it does.
ImplementsOneServer == Single!Spec

\* An init that has come to the server ends, whether one comes up or not, whoever has or
\* takes the port meanwhile ...
InitEnds == \A i \in Inits : at[i] = "probe" ~> at[i] = "done"

\* ... and no spawned process is left over that neither serves nor ends.
NoStrayServer == \A s \in Servers : server[s] = "starting" ~> server[s] \in {"serving", "ended"}
=============================================================================
