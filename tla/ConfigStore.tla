----------------------------- MODULE ConfigStore -----------------------------
(***************************************************************************)
(* tools/config.rs: the file ~/.nff/config.json, shared by every nff       *)
(* process (the MCP server, whose tool calls and OAuth handlers run on     *)
(* several threads, and each CLI command).  There is no lock: a setter     *)
(* loads the whole file, replaces one section and saves the whole file     *)
(* through config.json.tmp, a name every saver shares.                     *)
(*                                                                         *)
(* Files are modelled as the kernel sees them: names point to files, an    *)
(* open descriptor keeps pointing to the file it opened after a rename.    *)
(***************************************************************************)
EXTENDS FiniteSets

CONSTANTS Procs,      \* threads and processes that call a setter
          Sections,   \* device, diagnosis, mcp, build.backend, build.board
          Values,     \* what a section may hold
          Default,    \* Config::default()
          Files,      \* inodes
          NoFile,     \* a name that points nowhere, a descriptor not open
          Empty, Torn \* contents serde refuses

Configs == [Sections -> Values]
Damage  == {Empty, Torn}

ASSUME ConfigAssumption ==
  /\ Default \in Configs
  /\ NoFile \notin Files
  /\ Damage \cap Configs = {}
  /\ Empty # Torn

VARIABLES
  cfg,        \* the file named config.json
  tmp,        \* the file named config.json.tmp
  data,       \* the contents of each file
  pc,         \* where each setter is
  fd,         \* the temporary file each saver opened
  buf,        \* the Config each setter holds in memory
  overlapped, \* ghost: two setters have been in progress at once
  collided    \* ghost: two savers have been between create and rename at once

files == <<cfg, tmp, data>>
vars  == <<cfg, tmp, data, pc, fd, buf, overlapped, collided>>

Idle   == {p \in Procs : pc[p] = "idle"}
Saving == {p \in Procs : pc[p] \in {"open", "written"}}

\* What load() finds: a missing file is Config::default().
Published == IF cfg = NoFile THEN Default ELSE data[cfg]

\* An inode nothing points to: creat() may hand it out.
Free(f) == f # cfg /\ f # tmp /\ \A q \in Procs : fd[q] # f

Init ==
  /\ cfg = NoFile
  /\ tmp = NoFile
  /\ data = [f \in Files |-> Empty]
  /\ pc = [p \in Procs |-> "idle"]
  /\ fd = [p \in Procs |-> NoFile]
  /\ buf = [p \in Procs |-> Default]
  /\ overlapped = FALSE
  /\ collided = FALSE

\* The setter's call is over.
Return(p) ==
  /\ pc' = [pc EXCEPT ![p] = "idle"]
  /\ fd' = [fd EXCEPT ![p] = NoFile]
  /\ buf' = [buf EXCEPT ![p] = Default]
  /\ UNCHANGED <<overlapped, collided>>

-----------------------------------------------------------------------------
(* The setters: load, replace one section, save.                           *)

\* A setter that starts from Config::default() instead of what is on disk.
LoadDefault(p, s, v) ==
  /\ pc[p] = "idle"
  /\ Published \notin Damage
  /\ buf' = [buf EXCEPT ![p] = [Default EXCEPT ![s] = v]]
  /\ pc' = [pc EXCEPT ![p] = "loaded"]
  /\ overlapped' = (overlapped \/ Idle # Procs)
  /\ UNCHANGED <<files, fd, collided>>

Load(p, s, v) ==
  /\ pc[p] = "idle"
  /\ Published \notin Damage
  /\ buf' = [buf EXCEPT ![p] = [Published EXCEPT ![s] = v]]
  /\ pc' = [pc EXCEPT ![p] = "loaded"]
  /\ overlapped' = (overlapped \/ Idle # Procs)
  /\ UNCHANGED <<files, fd, collided>>

\* serde_json::from_str fails: the setter returns the error and saves nothing.
LoadFails(p) ==
  /\ pc[p] = "idle"
  /\ Published \in Damage
  /\ Return(p)
  /\ UNCHANGED files

\* fs::write(tmp), first half: create or truncate.
OpenInPlace(p) ==
  /\ pc[p] = "loaded"
  /\ \/ cfg # NoFile /\ tmp' = cfg
     \/ cfg = NoFile /\ \E f \in Files : Free(f) /\ tmp' = f
  /\ data' = [data EXCEPT ![tmp'] = Empty]
  /\ fd' = [fd EXCEPT ![p] = tmp']
  /\ pc' = [pc EXCEPT ![p] = "open"]
  /\ collided' = (collided \/ Saving # {})
  /\ UNCHANGED <<cfg, buf, overlapped>>

OpenTmp(p) ==
  /\ pc[p] = "loaded"
  /\ \/ tmp # NoFile /\ UNCHANGED tmp
     \/ tmp = NoFile /\ \E f \in Files : Free(f) /\ tmp' = f
  /\ data' = [data EXCEPT ![tmp'] = Empty]
  /\ fd' = [fd EXCEPT ![p] = tmp']
  /\ pc' = [pc EXCEPT ![p] = "open"]
  /\ collided' = (collided \/ Saving # {})
  /\ UNCHANGED <<cfg, buf, overlapped>>

\* fs::write(tmp), second half.  The text goes to offset 0 of the file that was
\* opened, whatever it is called by now; over another text it may be shorter.
WriteTmp(p) ==
  /\ pc[p] = "open"
  /\ \E d \in {buf[p]} \cup IF data[fd[p]] \in {Empty, buf[p]} THEN {} ELSE {Torn} :
       data' = [data EXCEPT ![fd[p]] = d]
  /\ pc' = [pc EXCEPT ![p] = "written"]
  /\ UNCHANGED <<cfg, tmp, fd, buf, overlapped, collided>>

\* The disk is full: part of the text is there, save() returns the error.
WriteFails(p) ==
  /\ pc[p] = "open"
  /\ data' = [data EXCEPT ![fd[p]] = Torn]
  /\ Return(p)
  /\ UNCHANGED <<cfg, tmp>>

\* fs::rename(tmp, path), which fails when another saver has renamed it away.
RenameKeepsFd(p) ==
  /\ pc[p] = "written"
  /\ IF tmp # NoFile
     THEN cfg' = tmp /\ tmp' = NoFile
     ELSE UNCHANGED <<cfg, tmp>>
  /\ pc' = [pc EXCEPT ![p] = "idle"]
  /\ UNCHANGED <<data, fd, buf, overlapped, collided>>

Rename(p) ==
  /\ pc[p] = "written"
  /\ \/ tmp # NoFile /\ cfg' = tmp /\ tmp' = NoFile /\ Return(p)
     \/ tmp = NoFile /\ UNCHANGED <<cfg, tmp>> /\ Return(p)
  /\ UNCHANGED data

\* The process ends between two steps; what it wrote stays.
Crash(p) ==
  /\ pc[p] # "idle"
  /\ Return(p)
  /\ UNCHANGED files

Step(p) ==
  \/ \E s \in Sections, v \in Values : Load(p, s, v)
  \/ LoadFails(p)
  \/ OpenTmp(p)
  \/ WriteTmp(p)
  \/ WriteFails(p)
  \/ Rename(p)
  \/ Crash(p)

Next == \E p \in Procs : Step(p)

Spec == Init /\ [][Next]_vars

-----------------------------------------------------------------------------
\* The variables have their types, and a setter has a file open exactly while
\* it is inside save() (config.rs: fs::write up to fs::rename).
TypeOK ==
  /\ cfg \in Files \cup {NoFile}
  /\ tmp \in Files \cup {NoFile}
  /\ data \in [Files -> Configs \cup Damage]
  /\ pc \in [Procs -> {"idle", "loaded", "open", "written"}]
  /\ fd \in [Procs -> Files \cup {NoFile}]
  /\ buf \in [Procs -> Configs]
  /\ overlapped \in BOOLEAN
  /\ collided \in BOOLEAN
  /\ \A p \in Procs : fd[p] # NoFile <=> pc[p] \in {"open", "written"}

\* Crashes at any step, a full disk and temporary files left behind never make
\* config.json unreadable: only two savers sharing config.json.tmp do.
ReadableUnlessCollided == ~collided => Published \in Configs

Register == INSTANCE ConfigRegister WITH value <- Published

\* config.json is an atomic register until two setters overlap: each step
\* changes nothing or exactly one section, even when setters crash or fail.
ImplementsRegister == Register!RegSpec
=============================================================================
