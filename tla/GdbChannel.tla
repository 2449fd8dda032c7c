----------------------------- MODULE GdbChannel -----------------------------
(***************************************************************************)
(* One DebugSession (tools/debug.rs) after its handshake: the tools write  *)
(* GDB/MI commands and read what GDB prints up to a (gdb) prompt.  GDB     *)
(* prints one block per command, and one block more each time the target   *)
(* stops.  exec() takes whichever block comes first for the answer, and    *)
(* the end of the output, when GDB has died, for an empty one.  The        *)
(* session mutex lets one tool run at a time.                              *)
(***************************************************************************)
EXTENDS Naturals, Sequences

CONSTANTS MaxCmds,     \* bound: MI commands written
          MaxStops,    \* bound: times the target stops
          MaxExpired   \* bound: exec() calls that give up after 20 s

ASSUME ChannelAssumption ==
  MaxCmds \in Nat /\ MaxStops \in Nat /\ MaxExpired \in Nat

\* What each tool does, in order: commands to exec(), and its effect on `halted`.
\* Reads of two commands stand for get_registers, get_variables, expand_variable.
Programs ==
  [read        |-> {<<"query">>, <<"query", "query">>},
   step        |-> {<<"resume", "info">>},
   breakpoint  |-> {<<"query">>},
   pause       |-> {<<"interrupt", "set", "info">>},
   continue    |-> {<<"resume", "clear">>},
   gdb_command |-> {<<"query">>, <<"resume">>},
   session_info |-> {<<"info">>}]

Tools     == DOMAIN Programs
NeedsHalt == {"read", "step"}          \* the tools that call require_halted()
Commands  == {"query", "info", "resume", "interrupt"}
Steps     == Commands \cup {"set", "clear"}

VARIABLES
  target,  \* the CPU: halted or running
  halted,  \* DebugSession.halted
  todo,    \* what is left of the running tool's program
  cur,     \* the command exec() waits for, 0 outside exec()
  got,     \* the command whose record exec() has read, 0 if none
  mid,     \* the record of the first unread block is read, its prompt is not
  sent,    \* number of commands written
  queue,   \* commands GDB has not taken yet: their kind and number
  out,     \* blocks not read yet: a command's number, 0 for *stopped
  stops,   \* ghost: how often the target stopped
  expired, \* ghost: how many exec() calls gave up
  refused, \* the last tool was refused by require_halted()
  gdb,     \* "up" or "dead"
  eofs     \* ghost: how many exec() calls read the end of the output

vars == <<target, halted, todo, cur, got, mid, sent, queue, out, stops, expired, refused, gdb, eofs>>

Init ==
  /\ target = "halted"        \* monitor reset halt
  /\ halted = TRUE
  /\ todo = <<>>
  /\ cur = 0
  /\ got = 0
  /\ mid = FALSE
  /\ sent = 0
  /\ queue = <<>>
  /\ out = <<>>
  /\ stops = 0
  /\ expired = 0
  /\ refused = FALSE
  /\ gdb = "up" /\ eofs = 0

-----------------------------------------------------------------------------
(* The tools.                                                              *)

Call(t) ==
  /\ cur = 0 /\ todo = <<>>
  /\ t \in NeedsHalt => halted
  /\ todo' \in Programs[t]
  /\ refused' = FALSE
  /\ UNCHANGED <<target, halted, cur, got, mid, sent, queue, out, stops, expired, gdb, eofs>>

Refuse(t) ==
  /\ cur = 0 /\ todo = <<>>
  /\ t \in NeedsHalt /\ ~halted
  /\ refused' = TRUE
  /\ UNCHANGED <<target, halted, todo, cur, got, mid, sent, queue, out, stops, expired, gdb, eofs>>

\* A command that stays in the pipe's buffer: writeln! without flush.
SendUnflushed ==
  /\ cur = 0 /\ todo # <<>>
  /\ Head(todo) \in Commands
  /\ Head(todo) = "info" => halted
  /\ sent < MaxCmds
  /\ sent' = sent + 1
  /\ cur' = sent'
  /\ got' = 0
  /\ UNCHANGED <<target, halted, todo, mid, queue, out, stops, expired, refused, gdb, eofs>>

\* Writing to a GDB that is gone, and not being told.
SendBuffered ==
  /\ cur = 0 /\ todo # <<>>
  /\ Head(todo) \in Commands
  /\ Head(todo) = "info" => halted
  /\ sent < MaxCmds
  /\ sent' = sent + 1
  /\ cur' = sent'
  /\ got' = 0
  /\ queue' = Append(queue, [kind |-> Head(todo), id |-> sent'])
  /\ UNCHANGED <<target, halted, todo, mid, out, stops, expired, refused, gdb, eofs>>

\* exec(): write the next command.  session_info() asks for the frame only if halted.
Send ==
  /\ cur = 0 /\ todo # <<>> /\ gdb = "up"
  /\ Head(todo) \in Commands
  /\ Head(todo) = "info" => halted
  /\ sent < MaxCmds
  /\ sent' = sent + 1
  /\ cur' = sent'
  /\ got' = 0
  /\ queue' = Append(queue, [kind |-> Head(todo), id |-> sent'])
  /\ UNCHANGED <<target, halted, todo, mid, out, stops, expired, refused, gdb, eofs>>

\* The write to a GDB that is gone fails, and so does the tool; session_info() leaves
\* the frame out.
WriteFails ==
  /\ cur = 0 /\ todo # <<>> /\ gdb = "dead"
  /\ Head(todo) \in Commands
  /\ Head(todo) = "info" => halted
  /\ todo' = <<>>
  /\ UNCHANGED <<target, halted, cur, got, mid, sent, queue, out, stops, expired, refused, gdb, eofs>>

\* pause() sets the flag and continue() clears it, once their command has answered.
SetFlag ==
  /\ cur = 0 /\ todo # <<>>
  /\ \/ Head(todo) \in {"set", "clear"} /\ halted' = (Head(todo) = "set")
     \/ Head(todo) = "info" /\ ~halted /\ UNCHANGED halted
  /\ todo' = Tail(todo)
  /\ UNCHANGED <<target, cur, got, mid, sent, queue, out, stops, expired, refused, gdb, eofs>>

\* An exec() that returns as soon as it has the result record.
ReturnAtRecord ==
  /\ cur # 0 /\ out # <<>> /\ ~mid
  /\ got' = IF Head(out) = 0 THEN got ELSE Head(out)
  /\ mid' = TRUE
  /\ cur' = 0
  /\ todo' = Tail(todo)
  /\ UNCHANGED <<target, halted, sent, queue, out, stops, expired, refused, gdb, eofs>>

\* exec() reads the lines of a block up to its prompt; *stopped is no record to it.
ReadRecord ==
  /\ cur # 0 /\ out # <<>> /\ ~mid
  /\ got' = IF Head(out) = 0 THEN got ELSE Head(out)
  /\ mid' = TRUE
  /\ UNCHANGED <<target, halted, todo, cur, sent, queue, out, stops, expired, refused, gdb, eofs>>

\* The prompt, or the end of the output, ends exec(), whatever came before it.
ReadPrompt ==
  /\ cur # 0 /\ mid
  /\ mid' = FALSE
  /\ out' = Tail(out)
  /\ cur' = 0
  /\ \/ todo' = Tail(todo)
     \/ Head(todo) = "query" /\ todo' = <<>>     \* result() turns ^error into Err
  /\ UNCHANGED <<target, halted, got, sent, queue, stops, expired, refused, gdb, eofs>>

\* The end of the output also ends exec(): an empty class, which is not "error".
ReadEof ==
  /\ cur # 0 /\ out = <<>> /\ gdb = "dead"
  /\ eofs' = eofs + 1
  /\ cur' = 0
  /\ todo' = Tail(todo)
  /\ UNCHANGED <<target, halted, got, mid, sent, queue, out, stops, expired, refused, gdb>>

\* A timeout that throws the block away but forgets that half of it was read.
ExpireDrops ==
  /\ cur # 0 /\ out # <<>>
  /\ expired < MaxExpired
  /\ expired' = expired + 1
  /\ cur' = 0
  /\ todo' = <<>>
  /\ out' = Tail(out)
  /\ UNCHANGED <<target, halted, got, mid, sent, queue, stops, refused, gdb, eofs>>

\* The deadline is looked at before each line, so only after some line has come.
\* The tool returns the error; what GDB has printed stays unread.
Expire ==
  /\ cur # 0 /\ out # <<>>
  /\ expired < MaxExpired
  /\ expired' = expired + 1
  /\ cur' = 0
  /\ todo' = <<>>
  /\ UNCHANGED <<target, halted, got, mid, sent, queue, out, stops, refused, gdb, eofs>>

-----------------------------------------------------------------------------
(* GDB and the target.                                                     *)

GdbAnswers ==
  /\ queue # <<>> /\ gdb = "up"
  /\ queue' = Tail(queue)
  /\ out' = Append(out, Head(queue).id)
  /\ target' \in {target} \cup IF Head(queue).kind = "resume" THEN {"running"} ELSE {}
  /\ UNCHANGED <<halted, todo, cur, got, mid, sent, stops, expired, refused, gdb, eofs>>

\* A breakpoint, the end of a step or an interrupt: GDB prints *stopped.
TargetStops ==
  /\ target = "running" /\ gdb = "up"
  /\ stops < MaxStops
  /\ target' = "halted"
  /\ out' = Append(out, 0)
  /\ stops' = stops + 1
  /\ UNCHANGED <<halted, todo, cur, got, mid, sent, queue, expired, refused, gdb, eofs>>

\* GDB crashes or is killed: what it has printed can still be read.
GdbDies ==
  /\ gdb = "up" /\ gdb' = "dead"
  /\ UNCHANGED <<target, halted, todo, cur, got, mid, sent, queue, out, stops, expired, refused, eofs>>

ToolStep == Send \/ WriteFails \/ SetFlag \/ ReadRecord \/ ReadPrompt \/ ReadEof

Next ==
  \/ \E t \in Tools : Call(t) \/ Refuse(t)
  \/ ToolStep
  \/ Expire
  \/ GdbAnswers
  \/ TargetStops
  \/ GdbDies

Spec == Init /\ [][Next]_vars

\* The tool's thread runs; GDB answers what it is sent while the target is halted.
FairSpec ==
  /\ Spec
  /\ WF_vars(ToolStep)
  /\ WF_vars(target = "halted" /\ GdbAnswers)

-----------------------------------------------------------------------------
\* The variables have their types; exec() is inside a tool, and a half-read block
\* is there to be read.
TypeOK ==
  /\ target \in {"halted", "running"}
  /\ halted \in BOOLEAN
  /\ todo \in Seq(Steps)
  /\ cur \in Nat /\ got \in Nat /\ sent \in Nat /\ stops \in Nat /\ expired \in Nat
  /\ mid \in BOOLEAN
  /\ queue \in Seq([kind : Commands, id : Nat])
  /\ out \in Seq(Nat)
  /\ refused \in BOOLEAN
  /\ gdb \in {"up", "dead"} /\ eofs \in Nat
  /\ cur # 0 => cur = sent /\ todo # <<>>
  /\ mid => out # <<>>

\* Each (gdb) prompt is read by one exec(): the blocks the session is behind are
\* exactly the stops GDB reported and the answers exec() gave up on, or GDB never gave.
LagAccounted ==
  Len(out) + Len(queue) = stops + expired + eofs + IF cur # 0 THEN 1 ELSE 0

\* An answer is never newer than its question, and never older than the stops and
\* the abandoned answers before it account for.  Without either it is the answer.
StalenessBounded ==
  got # 0 => got <= sent /\ sent - got <= stops + expired

\* exec() takes the end of the output for an answer and result() for a success: pause
\* says halted, continue says running.  It happens to the one command GDB died over:
\* from then on every tool that has anything to ask fails.
EofOnce == eofs # 0 => eofs = 1 /\ gdb = "dead" /\ cur = 0 /\ out = <<>>

\* While the target stays halted, or once GDB has died, a tool gets past every exec()
\* it makes.  (On a running target GDB may print nothing, and read_line() has no limit.)
ExecReturns ==
  cur # 0 /\ (target = "halted" \/ gdb = "dead")
    ~> cur = 0 \/ (target = "running" /\ gdb = "up")

\* "Most tools require a halted target (hit a breakpoint or call pause_execution
\* first)": once the target has stopped by itself, a tool refused because the target
\* is running finds it running.
BreakpointAllowsInspection ==
  [][stops > 0 /\ refused' /\ ~refused => target = "running"]_vars
=============================================================================
