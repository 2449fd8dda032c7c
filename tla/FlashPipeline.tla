---------------------------- MODULE FlashPipeline ----------------------------
(***************************************************************************)
(* Compile and upload over PlatformIO: `nff flash` (commands/flash.rs, the *)
(* streaming runner), the flash tool of the MCP server (flash_project, the *)
(* timed runner) and compile_only(), with the retries of tools/retry.rs.   *)
(* All the jobs below build sketches of one name: they share one scratch   *)
(* project, its sources and its platformio.ini.  Each job has a sketch and *)
(* a board.                                                                *)
(***************************************************************************)
EXTENDS Naturals

CONSTANTS Jobs,      \* a job is also the name of its sketch and of its board
          CliJobs,   \* those started with `nff flash`; the others use the timed runner
          Retries,   \* backoff.len(): retries after the first attempt
          None,
          Partial    \* the content of a device while an upload has begun and not ended

ASSUME JobsAssumption == CliJobs \subseteq Jobs /\ None \notin Jobs \cup {"ok", "error", "aborted"}
ASSUME RetriesAssumption == Retries \in Nat

VARIABLES
  main,       \* whose code src/main.cpp is
  tabs,       \* whose files are in src/ beside it
  ini,        \* whose board platformio.ini names
  upto,       \* the last stage of each job: compile, for `nff compile` and the tool, or upload
  pc,         \* where each job is
  stage,      \* compile, then upload
  tries,      \* attempts of this stage that failed
  alive,      \* the jobs whose pio, or what it started, is running
  build,      \* what the running pio found in the project
  board,      \* what the job's device holds: a build, None before
  outcome,    \* what the job's user is told
  disturbed,  \* ghost: another job wrote or built the project meanwhile, or left files in it
  killed      \* ghost: a signal ended one of the job's pio processes

vars == <<main, tabs, ini, upto, pc, stage, tries, alive, build, board, outcome, disturbed, killed>>

Builds == [main : Jobs \cup {None}, tabs : SUBSET Jobs, ini : Jobs]

ASSUME ContentAssumption == None \notin Builds /\ Partial \notin Builds /\ None # Partial

\* The sources and the board of job j and of no other.
OwnBuild(j, b) == b.ini = j /\ {b.main} \cup b.tabs \in {{j}, {j, None}}

Init ==
  /\ main = None /\ tabs = {} /\ ini = None
  /\ upto \in [Jobs -> {"compile", "upload"}] /\ \A j \in CliJobs : upto[j] = "upload"
  /\ pc = [j \in Jobs |-> "new"]
  /\ stage = [j \in Jobs |-> "compile"]
  /\ tries = [j \in Jobs |-> 0]
  /\ alive = {}
  /\ build = [j \in Jobs |-> None]
  /\ board = [j \in Jobs |-> None]
  /\ outcome = [j \in Jobs |-> None]
  /\ disturbed = [j \in Jobs |-> FALSE]
  /\ killed = [j \in Jobs |-> FALSE]

Goto(j, l)  == pc' = [pc EXCEPT ![j] = l]
Underway(j) == pc[j] \notin {"new", "done"}
Disturb(j)  == disturbed' = [k \in Jobs |-> disturbed[k] \/ (k # j /\ Underway(k))]

-----------------------------------------------------------------------------
(* resolve_project().                                                      *)

\* Code or a single file becomes main.cpp; what else is in src/ stays.
WriteMain(j) ==
  /\ pc[j] = "new"
  /\ main' = j
  /\ disturbed' = [k \in Jobs |-> disturbed[k] \/ (IF k = j THEN tabs # {} ELSE Underway(k))]
  /\ Goto(j, "ini")
  /\ UNCHANGED <<tabs, ini, stage, tries, alive, build, board, outcome, killed, upto>>

\* The old sources stay where they are.
CopyWithoutWipe(j) ==
  /\ pc[j] = "new"
  /\ UNCHANGED <<main, tabs>>
  /\ Disturb(j)
  /\ Goto(j, "copy")
  /\ UNCHANGED <<ini, stage, tries, alive, build, board, outcome, killed, upto>>

\* A sketch folder: the old sources are removed, then the folder's are copied.  A file
\* that cannot be removed stays, and nothing is said.
WipeSources(j) ==
  /\ pc[j] = "new"
  /\ main' \in {main, None} /\ tabs' \in SUBSET tabs
  /\ disturbed' = [k \in Jobs |->
       disturbed[k] \/ (IF k = j THEN {main'} \cup tabs' # {None} ELSE Underway(k))]
  /\ Goto(j, "copy")
  /\ UNCHANGED <<ini, stage, tries, alive, build, board, outcome, killed, upto>>

\* ... whose own main.cpp, if it has one, comes with them.
CopySources(j) ==
  /\ pc[j] = "copy"
  /\ tabs' = tabs \cup {j} /\ main' \in {main, j}
  /\ Disturb(j)
  /\ Goto(j, "ini")
  /\ UNCHANGED <<ini, stage, tries, alive, build, board, outcome, killed, upto>>

-----------------------------------------------------------------------------
(* What a failed pio printed: signs of a serial, upload or file fault, of a *)
(* broken package, a compiler's `error:`, and weak phrases ("timed out").  *)

Signs == {"strong", "package", "error", "weak"}

\* is_transient(): strong signs win over `error:`, which wins over weak ones.
Transient(signs) ==
  \/ "strong" \in signs \/ "package" \in signs
  \/ "weak" \in signs /\ "error" \notin signs

-----------------------------------------------------------------------------
(* stream_with_retry() and run_with_retry_recover().                       *)

\* Each stage writes platformio.ini for its board: the streaming runner before each
\* attempt, the timed one before the first.
WriteIni(j) ==
  /\ pc[j] = "ini"
  /\ ini' = j
  /\ Disturb(j)
  /\ Goto(j, "spawn")
  /\ UNCHANGED <<main, tabs, stage, tries, alive, build, board, outcome, killed, upto>>

Finish(j, o) ==
  /\ Goto(j, "done")
  /\ outcome' = [outcome EXCEPT ![j] = o]

\* A folder without sources, or one that cannot be copied: part of it may be there.
CopyFails(j) ==
  /\ pc[j] = "copy"
  /\ tabs' \in {tabs, tabs \cup {j}}
  /\ Disturb(j)
  /\ Finish(j, "error")
  /\ UNCHANGED <<main, ini, stage, tries, alive, build, board, killed, upto>>

\* pio is missing or cannot be started: not a transient failure.
SpawnFails(j) ==
  /\ pc[j] = "spawn"
  /\ Finish(j, "error")
  /\ UNCHANGED <<main, tabs, ini, stage, tries, alive, build, board, disturbed, killed, upto>>

\* `pio run` builds the project as it is; with -t upload it then flashes that build.
\* Two of them at once share one build directory.
Spawn(j) ==
  /\ pc[j] = "spawn"
  /\ alive' = alive \cup {j}
  /\ disturbed' = [k \in Jobs |-> disturbed[k] \/ (alive \ {j} # {} /\ k \in alive')]
  /\ build' = [build EXCEPT ![j] = [main |-> main, tabs |-> tabs, ini |-> ini]]
  /\ board' = IF stage[j] = "upload" THEN [board EXCEPT ![j] = Partial] ELSE board
  /\ Goto(j, "run")
  /\ UNCHANGED <<main, tabs, ini, stage, tries, outcome, killed, upto>>

\* The stage is over: upload comes after compile, unless only that was asked for, and
\* then the answer, for a compile with the files of the build.
StageDone(j) ==
  \/ /\ stage[j] # upto[j]
     /\ stage' = [stage EXCEPT ![j] = "upload"]
     /\ tries' = [tries EXCEPT ![j] = 0]
     /\ Goto(j, "ini")
     /\ UNCHANGED outcome
  \/ /\ stage[j] = upto[j]
     /\ Finish(j, "ok")
     /\ UNCHANGED <<stage, tries>>

\* The process the timed runner has started is gone, and so is its timer; what that
\* process started still holds the pipes.
PioExits(j) ==
  /\ pc[j] = "run" /\ j \notin CliJobs
  /\ Goto(j, "exited")
  /\ UNCHANGED <<main, tabs, ini, stage, tries, alive, build, board, outcome, disturbed, killed, upto>>

Succeeds(j) ==
  /\ pc[j] \in {"run", "exited"}
  /\ board' = IF stage[j] = "upload" THEN [board EXCEPT ![j] = build[j]] ELSE board
  /\ alive' = alive \ {j}
  /\ StageDone(j)
  /\ UNCHANGED <<main, tabs, ini, build, disturbed, killed, upto>>

\* Where the next attempt starts.
Again(j) == IF j \in CliJobs THEN "ini" ELSE "spawn"

\* recover_packages(): `pio pkg uninstall` of the board's platform, by the timed runner.  The
\* next `pio run` installs it again; one that runs meanwhile may fail for want of it.
Recover(j) ==
  /\ pc[j] = "recover"
  /\ Goto(j, Again(j))
  /\ UNCHANGED <<main, tabs, ini, stage, tries, alive, build, board, outcome, disturbed, killed, upto>>

\* A retry that forgets to count.
RetryForever(j, signs) ==
  \/ /\ Transient(signs)
     /\ Goto(j, Again(j))
     /\ UNCHANGED <<tries, outcome>>
  \/ ~Transient(signs) /\ Finish(j, "error") /\ UNCHANGED tries

\* One attempt too many: 0..=retries taken for the number of retries.
RetryOnceMore(j, signs) ==
  \/ /\ Transient(signs) /\ tries[j] <= Retries
     /\ tries' = [tries EXCEPT ![j] = @ + 1]
     /\ Goto(j, Again(j))
     /\ UNCHANGED outcome
  \/ ~Transient(signs) /\ Finish(j, "error") /\ UNCHANGED tries

\* A failed attempt: a transient failure is retried while attempts remain, after a
\* repair if a package is to blame.
Failed(j, signs) ==
  \/ /\ Transient(signs) /\ tries[j] < Retries
     /\ tries' = [tries EXCEPT ![j] = @ + 1]
     /\ Goto(j, IF "package" \in signs THEN "recover" ELSE Again(j))
     /\ UNCHANGED outcome
  \/ /\ ~Transient(signs) \/ tries[j] = Retries
     /\ Finish(j, "error")
     /\ UNCHANGED tries

Fails(j) ==
  /\ pc[j] \in {"run", "exited"}
  /\ alive' = alive \ {j}
  /\ \E signs \in SUBSET Signs : Failed(j, signs)
  /\ UNCHANGED <<main, tabs, ini, stage, build, board, disturbed, killed, upto>>

\* The kill without the wait for the pipes of what pio has started.
TimesOutAtOnce(j) ==
  /\ pc[j] = "run" /\ j \notin CliJobs
  /\ \E signs \in SUBSET Signs : Failed(j, signs \cup {"weak"})
  /\ UNCHANGED <<main, tabs, ini, stage, alive, build, board, disturbed, killed, upto>>

\* run_timed() kills a pio that overran its limit.  The streaming runner has no limit.
TimesOut(j) ==
  /\ pc[j] = "run" /\ j \notin CliJobs
  /\ Goto(j, "drain")
  /\ UNCHANGED <<main, tabs, ini, stage, tries, alive, build, board, outcome, disturbed, killed, upto>>

\* Its output ends when the last process pio started has closed the pipes; then the
\* attempt has failed, "timed out".
Drained(j) ==
  /\ pc[j] = "drain"
  /\ alive' = alive \ {j}
  /\ \E signs \in SUBSET Signs : Failed(j, signs \cup {"weak"})
  /\ UNCHANGED <<main, tabs, ini, stage, build, board, disturbed, killed, upto>>

\* A signal ends pio, but perhaps not the compiler or the uploader it has started.
\* run_timed() fails; run_stream_attempt() takes the missing exit code for 0.
Killed(j) ==
  /\ pc[j] \in {"run", "exited"}
  /\ killed' = [killed EXCEPT ![j] = TRUE]
  /\ alive' \in {alive, alive \ {j}}
  /\ \/ j \in CliJobs /\ StageDone(j)
     \/ j \notin CliJobs /\ (\E signs \in SUBSET Signs : Failed(j, signs)) /\ UNCHANGED stage
  /\ UNCHANGED <<main, tabs, ini, build, board, disturbed, upto>>

\* Ctrl+C, or the server is stopped: the files stay as they are, and so may pio.
Abort(j) ==
  /\ Underway(j)
  /\ alive' \in {alive, alive \ {j}}
  /\ Finish(j, "aborted")
  /\ UNCHANGED <<main, tabs, ini, stage, tries, build, board, disturbed, killed, upto>>

\* What nobody waits for any more ends too, an upload complete or not.
OrphanEnds(j) ==
  /\ j \in alive /\ pc[j] \notin {"run", "exited", "drain"}
  /\ alive' = alive \ {j}
  /\ \/ UNCHANGED board
     \/ board[j] = Partial /\ board' = [board EXCEPT ![j] = build[j]]
  /\ UNCHANGED <<main, tabs, ini, pc, stage, tries, build, outcome, disturbed, killed, upto>>

Exits(j) == Succeeds(j) \/ Fails(j) \/ Killed(j)

Prepares(j) == CopySources(j) \/ CopyFails(j) \/ WriteIni(j) \/ Spawn(j) \/ SpawnFails(j)

Next ==
  \E j \in Jobs : \/ WriteMain(j) \/ WipeSources(j)
                  \/ Prepares(j)
                  \/ PioExits(j) \/ Exits(j) \/ TimesOut(j) \/ Drained(j)
                  \/ Recover(j)
                  \/ Abort(j) \/ OrphanEnds(j)

Spec == Init /\ [][Next]_vars

\* nff's own steps are taken and its timers ring.  Nothing else need end: not pio, and
\* not what it has started, which the kill does not reach.
FairSpec ==
  /\ Spec
  /\ \A j \in Jobs : WF_vars(Prepares(j)) /\ WF_vars(TimesOut(j))

-----------------------------------------------------------------------------
\* The variables have their types, and no stage is tried more often than its
\* backoff list allows (run_with_retry: 0..=retries).
TypeOK ==
  /\ main \in Jobs \cup {None} /\ tabs \in SUBSET Jobs /\ ini \in Jobs \cup {None}
  /\ pc \in [Jobs -> {"new", "copy", "ini", "spawn", "run", "exited", "drain", "recover", "done"}]
  /\ upto \in [Jobs -> {"compile", "upload"}]
  /\ stage \in [Jobs -> {"compile", "upload"}]
  /\ tries \in [Jobs -> 0..Retries]
  /\ alive \in SUBSET Jobs
  /\ build \in [Jobs -> Builds \cup {None}]
  /\ board \in [Jobs -> Builds \cup {None, Partial}]
  /\ outcome \in [Jobs -> {None, "ok", "error", "aborted"}]
  /\ disturbed \in [Jobs -> BOOLEAN] /\ killed \in [Jobs -> BOOLEAN]

\* What an answer is about: the device, or the files discover_artifacts() finds.
Answered(j) == IF upto[j] = "upload" THEN board[j] ELSE build[j]

\* Whatever was retried, repaired, timed out or aborted before: a job that reports
\* success, alone in the project and with no pio killed under it, has put its own
\* sketch, built for its own board, on the device, or names the files of that build.
OkIsFlashed ==
  \A j \in Jobs : outcome[j] = "ok" /\ ~disturbed[j] /\ ~killed[j] =>
                    Answered(j) \notin {None, Partial} /\ OwnBuild(j, Answered(j))

Device(j) ==
  IF board[j] = None THEN "old"
  ELSE IF board[j] = Partial THEN "part"
  ELSE IF OwnBuild(j, board[j]) THEN "own" ELSE "foreign"

Promised == INSTANCE Flashing WITH asked <- upto, said <- outcome,
                                   device <- [j \in Jobs |-> Device(j)],
                                   excused <- {j \in Jobs : disturbed[j] \/ killed[j]}

\* What outlives an attempt - a project half prepared, a pio that was timed out, what it
\* has started - does not show: the device has the job's build from the step in which OK
\* is said, and keeps it; after an error too nothing of the job writes to it any more.
ImplementsFlashing == Promised!Spec

\* The limits on pio and the bounded retries end every flash and compile of the MCP
\* server, even when no pio process ever ends by itself: only a wait for pipes that stay
\* open - of a pio that has ended or was killed - can keep one.
McpFlashEnds ==
  \A j \in Jobs \ CliJobs :
    \/ <>[](pc[j] \in {"exited", "drain", "recover"})
    \/ Underway(j) ~> pc[j] = "done"
=============================================================================
