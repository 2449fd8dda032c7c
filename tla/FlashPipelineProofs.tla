------------------------- MODULE FlashPipelineProofs -------------------------
(***************************************************************************)
(* For any number of jobs and retries: a flash that says OK, undisturbed,  *)
(* has flashed its own sketch for its own board.                           *)
(***************************************************************************)
EXTENDS FlashPipeline, TLAPS

\* Only job j's files are in src/, and at least one of them.
OwnSources(j, m, t) == {m} \cup t \in {{j}, {j, None}}

\* What an undisturbed job may count on, from its first write to its answer.
ProjectIsOwn ==
  \A j \in Jobs : ~disturbed[j] =>
    /\ pc[j] = "copy" => main = None /\ tabs = {}
    /\ pc[j] \in {"ini", "spawn", "run", "exited", "drain", "recover"} => OwnSources(j, main, tabs)
    /\ pc[j] \in {"spawn", "run", "exited", "drain", "recover"} => ini = j
    /\ pc[j] \in {"run", "exited"} => build[j] \in Builds /\ OwnBuild(j, build[j])

\* platformio.ini names a board once a job is ready to start pio, a job that has
\* answered is over, and only a killed pio or an aborted job leaves a process behind.
Progress ==
  \A j \in Jobs : /\ pc[j] \in {"spawn", "run", "exited", "drain", "recover"} => ini \in Jobs
                  /\ j \in alive => \/ pc[j] \in {"run", "exited", "drain"}
                                    \/ killed[j] \/ outcome[j] = "aborted"
                  /\ outcome[j] # None => pc[j] = "done"

\* Who may write to a device, and what: a job that was asked to upload, through the pio that
\* runs, even when nobody waits for it, and from the build that pio began with.
Writers ==
  \A j \in Jobs :
    /\ stage[j] = "upload" => upto[j] = "upload"
    /\ upto[j] = "compile" => board[j] = None
    /\ pc[j] \in {"run", "exited", "drain"} => j \in alive
    /\ j \in alive => build[j] \in Builds /\ (~disturbed[j] => OwnBuild(j, build[j]))

IInv == TypeOK /\ Progress /\ ProjectIsOwn /\ OkIsFlashed /\ Writers

-----------------------------------------------------------------------------
LEMMA InitInv == Init => IInv
  BY RetriesAssumption, JobsAssumption DEF Init, IInv, TypeOK, Progress, ProjectIsOwn, OkIsFlashed, Answered, Writers

LEMMA TypeStep == TypeOK /\ Progress /\ [Next]_vars => TypeOK'
  <1> SUFFICES ASSUME TypeOK, Progress, [Next]_vars PROVE TypeOK'
    OBVIOUS
  <1>1. ASSUME NEW j \in Jobs, WriteMain(j) PROVE TypeOK'
    BY <1>1, RetriesAssumption DEF WriteMain, TypeOK, Progress, Builds, Goto, Finish, StageDone, Failed, Again, Disturb, Underway
  <1>2. ASSUME NEW j \in Jobs, WipeSources(j) PROVE TypeOK'
    BY <1>2, RetriesAssumption DEF WipeSources, TypeOK, Progress, Builds, Goto, Finish, StageDone, Failed, Again, Disturb, Underway
  <1>3. ASSUME NEW j \in Jobs, CopySources(j) PROVE TypeOK'
    BY <1>3, RetriesAssumption DEF CopySources, TypeOK, Progress, Builds, Goto, Finish, StageDone, Failed, Again, Disturb, Underway
  <1>4. ASSUME NEW j \in Jobs, WriteIni(j) PROVE TypeOK'
    BY <1>4, RetriesAssumption DEF WriteIni, TypeOK, Progress, Builds, Goto, Finish, StageDone, Failed, Again, Disturb, Underway
  <1>5. ASSUME NEW j \in Jobs, Spawn(j) PROVE TypeOK'
    BY <1>5, RetriesAssumption DEF Spawn, TypeOK, Progress, Builds, Goto, Finish, StageDone, Failed, Again, Disturb, Underway
  <1>6. ASSUME NEW j \in Jobs, SpawnFails(j) PROVE TypeOK'
    BY <1>6, RetriesAssumption DEF SpawnFails, TypeOK, Progress, Builds, Goto, Finish, StageDone, Failed, Again, Disturb, Underway
  <1>7. ASSUME NEW j \in Jobs, Succeeds(j) PROVE TypeOK'
    BY <1>7, RetriesAssumption DEF Succeeds, TypeOK, Progress, Builds, Goto, Finish, StageDone, Failed, Again, Disturb, Underway
  <1>8. ASSUME NEW j \in Jobs, Fails(j) PROVE TypeOK'
    BY <1>8, RetriesAssumption DEF Fails, TypeOK, Progress, Builds, Goto, Finish, StageDone, Failed, Again, Disturb, Underway
  <1>9. ASSUME NEW j \in Jobs, Killed(j) PROVE TypeOK'
    BY <1>9, RetriesAssumption DEF Killed, TypeOK, Progress, Builds, Goto, Finish, StageDone, Failed, Again, Disturb, Underway
  <1>10. ASSUME NEW j \in Jobs, TimesOut(j) PROVE TypeOK'
    BY <1>10, RetriesAssumption DEF TimesOut, TypeOK, Progress, Builds, Goto, Finish, StageDone, Failed, Again, Disturb, Underway
  <1>11. ASSUME NEW j \in Jobs, Drained(j) PROVE TypeOK'
    BY <1>11, RetriesAssumption DEF Drained, TypeOK, Progress, Builds, Goto, Finish, StageDone, Failed, Again, Disturb, Underway
  <1>12. ASSUME NEW j \in Jobs, Abort(j) PROVE TypeOK'
    BY <1>12, RetriesAssumption DEF Abort, TypeOK, Progress, Builds, Goto, Finish, StageDone, Failed, Again, Disturb, Underway
  <1>13. ASSUME NEW j \in Jobs, CopyFails(j) PROVE TypeOK'
    BY <1>13, RetriesAssumption DEF CopyFails, TypeOK, Progress, Builds, Goto, Finish, StageDone, Failed, Again, Disturb, Underway
  <1>14. ASSUME NEW j \in Jobs, OrphanEnds(j) PROVE TypeOK'
    BY <1>14, RetriesAssumption DEF OrphanEnds, TypeOK, Progress, Builds, Goto, Finish, StageDone, Failed, Again, Disturb, Underway
  <1>15. ASSUME NEW j \in Jobs, Recover(j) PROVE TypeOK'
    BY <1>15, RetriesAssumption DEF Recover, TypeOK, Progress, Builds, Goto, Finish, StageDone, Failed, Again, Disturb, Underway
  <1>15a. ASSUME NEW j \in Jobs, PioExits(j) PROVE TypeOK'
    BY <1>15a, RetriesAssumption DEF PioExits, TypeOK, Progress, Builds, Goto, Finish, StageDone, Failed, Again, Disturb, Underway
  <1>16. CASE UNCHANGED vars
    BY <1>16 DEF vars, TypeOK
  <1>17. QED
    BY <1>1, <1>2, <1>3, <1>4, <1>5, <1>6, <1>7, <1>8, <1>9, <1>10, <1>11, <1>12, <1>13, <1>14, <1>15, <1>15a,
       <1>16
    DEF Next, Prepares, Exits

LEMMA ProgressStep == TypeOK /\ Progress /\ [Next]_vars => Progress'
  <1> SUFFICES ASSUME TypeOK, Progress, [Next]_vars PROVE Progress'
    OBVIOUS
  <1>1. ASSUME NEW j \in Jobs, WriteMain(j) PROVE Progress'
    BY <1>1, JobsAssumption DEF WriteMain, TypeOK, Progress, Goto, Finish, StageDone, Failed, Again, Disturb, Underway
  <1>2. ASSUME NEW j \in Jobs, WipeSources(j) PROVE Progress'
    BY <1>2, JobsAssumption DEF WipeSources, TypeOK, Progress, Goto, Finish, StageDone, Failed, Again, Disturb, Underway
  <1>3. ASSUME NEW j \in Jobs, CopySources(j) PROVE Progress'
    BY <1>3, JobsAssumption DEF CopySources, TypeOK, Progress, Goto, Finish, StageDone, Failed, Again, Disturb, Underway
  <1>4. ASSUME NEW j \in Jobs, WriteIni(j) PROVE Progress'
    BY <1>4, JobsAssumption DEF WriteIni, TypeOK, Progress, Goto, Finish, StageDone, Failed, Again, Disturb, Underway
  <1>5. ASSUME NEW j \in Jobs, Spawn(j) PROVE Progress'
    BY <1>5, JobsAssumption DEF Spawn, TypeOK, Progress, Goto, Finish, StageDone, Failed, Again, Disturb, Underway
  <1>6. ASSUME NEW j \in Jobs, SpawnFails(j) PROVE Progress'
    BY <1>6, JobsAssumption DEF SpawnFails, TypeOK, Progress, Goto, Finish, StageDone, Failed, Again, Disturb, Underway
  <1>7. ASSUME NEW j \in Jobs, Succeeds(j) PROVE Progress'
    BY <1>7, JobsAssumption DEF Succeeds, TypeOK, Progress, Goto, Finish, StageDone, Failed, Again, Disturb, Underway
  <1>8. ASSUME NEW j \in Jobs, Fails(j) PROVE Progress'
    BY <1>8, JobsAssumption DEF Fails, TypeOK, Progress, Goto, Finish, StageDone, Failed, Again, Disturb, Underway
  <1>9. ASSUME NEW j \in Jobs, Killed(j) PROVE Progress'
    BY <1>9, JobsAssumption DEF Killed, TypeOK, Progress, Goto, Finish, StageDone, Failed, Again, Disturb, Underway
  <1>10. ASSUME NEW j \in Jobs, TimesOut(j) PROVE Progress'
    BY <1>10, JobsAssumption DEF TimesOut, TypeOK, Progress, Goto, Finish, StageDone, Failed, Again, Disturb, Underway
  <1>11. ASSUME NEW j \in Jobs, Drained(j) PROVE Progress'
    BY <1>11, JobsAssumption DEF Drained, TypeOK, Progress, Goto, Finish, StageDone, Failed, Again, Disturb, Underway
  <1>12. ASSUME NEW j \in Jobs, Abort(j) PROVE Progress'
    BY <1>12, JobsAssumption DEF Abort, TypeOK, Progress, Goto, Finish, StageDone, Failed, Again, Disturb, Underway
  <1>13. ASSUME NEW j \in Jobs, CopyFails(j) PROVE Progress'
    BY <1>13, JobsAssumption DEF CopyFails, TypeOK, Progress, Goto, Finish, StageDone, Failed, Again, Disturb, Underway
  <1>14. ASSUME NEW j \in Jobs, OrphanEnds(j) PROVE Progress'
    BY <1>14, JobsAssumption DEF OrphanEnds, TypeOK, Progress, Goto, Finish, StageDone, Failed, Again, Disturb, Underway
  <1>15. ASSUME NEW j \in Jobs, Recover(j) PROVE Progress'
    BY <1>15, JobsAssumption DEF Recover, TypeOK, Progress, Goto, Finish, StageDone, Failed, Again, Disturb, Underway
  <1>15a. ASSUME NEW j \in Jobs, PioExits(j) PROVE Progress'
    BY <1>15a, JobsAssumption DEF PioExits, TypeOK, Progress, Goto, Finish, StageDone, Failed, Again, Disturb, Underway
  <1>16. CASE UNCHANGED vars
    BY <1>16 DEF vars, Progress
  <1>17. QED
    BY <1>1, <1>2, <1>3, <1>4, <1>5, <1>6, <1>7, <1>8, <1>9, <1>10, <1>11, <1>12, <1>13, <1>14, <1>15, <1>15a,
       <1>16
    DEF Next, Prepares, Exits

LEMMA ProjectStep == TypeOK /\ Progress /\ ProjectIsOwn /\ [Next]_vars => ProjectIsOwn'
  <1> SUFFICES ASSUME TypeOK, Progress, ProjectIsOwn, [Next]_vars PROVE ProjectIsOwn'
    OBVIOUS
  <1>1. ASSUME NEW j \in Jobs, WriteMain(j) PROVE ProjectIsOwn'
    <2>1. /\ main' = j /\ UNCHANGED <<tabs, ini, build>> /\ pc' = [pc EXCEPT ![j] = "ini"]
          /\ ~disturbed'[j] => ~disturbed[j] /\ tabs = {}
      BY <1>1 DEF WriteMain, Goto, TypeOK
    <2>2. ~disturbed'[j] => OwnSources(j, main', tabs')
      BY <2>1 DEF OwnSources
    <2>3. ASSUME NEW k \in Jobs, ~disturbed'[k], k # j
          PROVE ~disturbed[k] /\ pc[k] \in {"new", "done"}
      BY <1>1, <2>3 DEF WriteMain, Underway, TypeOK
    <2>4. QED
      BY <2>1, <2>2, <2>3 DEF TypeOK, ProjectIsOwn
  <1>2. ASSUME NEW j \in Jobs, WipeSources(j) PROVE ProjectIsOwn'
    <2>1. /\ UNCHANGED <<ini, build>> /\ pc' = [pc EXCEPT ![j] = "copy"]
          /\ ~disturbed'[j] => main' = None /\ tabs' = {}
      BY <1>2, JobsAssumption DEF WipeSources, Goto, TypeOK
    <2>2. ASSUME NEW k \in Jobs, ~disturbed'[k], k # j
          PROVE ~disturbed[k] /\ pc[k] \in {"new", "done"}
      BY <1>2, <2>2 DEF WipeSources, Underway, TypeOK
    <2>3. QED
      BY <2>1, <2>2 DEF TypeOK, ProjectIsOwn
  <1>3. ASSUME NEW j \in Jobs, CopySources(j) PROVE ProjectIsOwn'
    <2>1. /\ main' \in {main, j} /\ tabs' = tabs \cup {j}
          /\ UNCHANGED <<ini, build>>
          /\ pc' = [pc EXCEPT ![j] = "ini"] /\ pc[j] = "copy"
      BY <1>3 DEF CopySources, Goto
    <2>2. ~disturbed[j] => OwnSources(j, main', tabs')
      BY <2>1 DEF ProjectIsOwn, OwnSources
    <2>3. ASSUME NEW k \in Jobs, ~disturbed'[k], k # j
          PROVE ~disturbed[k] /\ pc[k] \in {"new", "done"}
      BY <1>3, <2>3 DEF CopySources, Disturb, Underway, TypeOK
    <2>4. disturbed'[j] = disturbed[j]
      BY <1>3 DEF CopySources, Disturb, TypeOK
    <2>5. QED
      BY <2>1, <2>2, <2>3, <2>4 DEF TypeOK, ProjectIsOwn
  <1>4. ASSUME NEW j \in Jobs, WriteIni(j) PROVE ProjectIsOwn'
    <2>1. /\ UNCHANGED <<main, tabs, build>> /\ ini' = j
          /\ pc' = [pc EXCEPT ![j] = "spawn"] /\ pc[j] = "ini" /\ disturbed'[j] = disturbed[j]
      BY <1>4 DEF WriteIni, Goto, Disturb, TypeOK
    <2>2. ASSUME NEW k \in Jobs, ~disturbed'[k], k # j
          PROVE ~disturbed[k] /\ pc[k] \in {"new", "done"}
      BY <1>4, <2>2 DEF WriteIni, Disturb, Underway, TypeOK
    <2>3. QED
      BY <2>1, <2>2 DEF TypeOK, ProjectIsOwn
  <1>5. ASSUME NEW j \in Jobs, Spawn(j) PROVE ProjectIsOwn'
    BY <1>5, JobsAssumption DEF Spawn, TypeOK, Progress, ProjectIsOwn, OwnSources, OwnBuild, Builds, Goto, Finish, StageDone, Failed, Again, Disturb, Underway
  <1>6. ASSUME NEW j \in Jobs, SpawnFails(j) PROVE ProjectIsOwn'
    BY <1>6 DEF SpawnFails, TypeOK, ProjectIsOwn, Finish, Goto
  <1>7. ASSUME NEW j \in Jobs, Succeeds(j) PROVE ProjectIsOwn'
    <2>1. /\ UNCHANGED <<main, tabs, ini, build, disturbed>>
          /\ \E l \in {"ini", "done"} : pc' = [pc EXCEPT ![j] = l]
          /\ pc[j] \in {"run", "exited"}
      BY <1>7 DEF Succeeds, StageDone, Goto, Finish
    <2>2. QED
      BY <2>1 DEF TypeOK, ProjectIsOwn
  <1>8. ASSUME NEW j \in Jobs, Fails(j) PROVE ProjectIsOwn'
    <2>1. /\ UNCHANGED <<main, tabs, ini, build, disturbed>>
          /\ \E l \in {"ini", "spawn", "recover", "done"} : pc' = [pc EXCEPT ![j] = l]
          /\ pc[j] \in {"run", "exited", "drain"}
      BY <1>8 DEF Fails, StageDone, Failed, Again, Goto, Finish
    <2>2. QED
      BY <2>1 DEF TypeOK, ProjectIsOwn
  <1>9. ASSUME NEW j \in Jobs, Killed(j) PROVE ProjectIsOwn'
    <2>1. /\ UNCHANGED <<main, tabs, ini, build, disturbed>>
          /\ \E l \in {"ini", "spawn", "recover", "done"} : pc' = [pc EXCEPT ![j] = l]
          /\ pc[j] \in {"run", "exited", "drain"}
      BY <1>9 DEF Killed, StageDone, Failed, Again, Goto, Finish
    <2>2. QED
      BY <2>1 DEF TypeOK, ProjectIsOwn
  <1>10. ASSUME NEW j \in Jobs, TimesOut(j) PROVE ProjectIsOwn'
    BY <1>10, JobsAssumption DEF TimesOut, TypeOK, Progress, ProjectIsOwn, OwnSources, OwnBuild, Builds, Goto, Finish, StageDone, Failed, Again, Disturb, Underway
  <1>11. ASSUME NEW j \in Jobs, Drained(j) PROVE ProjectIsOwn'
    <2>1. /\ UNCHANGED <<main, tabs, ini, build, disturbed>>
          /\ \E l \in {"ini", "spawn", "recover", "done"} : pc' = [pc EXCEPT ![j] = l]
          /\ pc[j] \in {"run", "exited", "drain"}
      BY <1>11 DEF Drained, StageDone, Failed, Again, Goto, Finish
    <2>2. QED
      BY <2>1 DEF TypeOK, ProjectIsOwn
  <1>12. ASSUME NEW j \in Jobs, Abort(j) PROVE ProjectIsOwn'
    BY <1>12, JobsAssumption DEF Abort, TypeOK, Progress, ProjectIsOwn, OwnSources, OwnBuild, Builds, Goto, Finish, StageDone, Failed, Again, Disturb, Underway
  <1>13. ASSUME NEW j \in Jobs, CopyFails(j) PROVE ProjectIsOwn'
    <2>1. UNCHANGED <<ini, build>> /\ pc' = [pc EXCEPT ![j] = "done"]
      BY <1>13 DEF CopyFails, Finish, Goto
    <2>2. ASSUME NEW k \in Jobs, ~disturbed'[k], k # j
          PROVE ~disturbed[k] /\ pc[k] \in {"new", "done"}
      BY <1>13, <2>2 DEF CopyFails, Disturb, Underway, TypeOK
    <2>3. QED
      BY <2>1, <2>2 DEF TypeOK, ProjectIsOwn
  <1>14. ASSUME NEW j \in Jobs, OrphanEnds(j) PROVE ProjectIsOwn'
    BY <1>14, JobsAssumption DEF OrphanEnds, TypeOK, Progress, ProjectIsOwn, OwnSources, OwnBuild, Builds, Goto, Finish, StageDone, Failed, Again, Disturb, Underway
  <1>15. ASSUME NEW j \in Jobs, Recover(j) PROVE ProjectIsOwn'
    BY <1>15, JobsAssumption DEF Recover, TypeOK, Progress, ProjectIsOwn, OwnSources, OwnBuild, Builds, Goto, Finish, StageDone, Failed, Again, Disturb, Underway
  <1>15a. ASSUME NEW j \in Jobs, PioExits(j) PROVE ProjectIsOwn'
    BY <1>15a, JobsAssumption DEF PioExits, TypeOK, Progress, ProjectIsOwn, OwnSources, OwnBuild, Builds, Goto, Finish, StageDone, Failed, Again, Disturb, Underway
  <1>16. CASE UNCHANGED vars
    BY <1>16 DEF vars, ProjectIsOwn
  <1>17. QED
    BY <1>1, <1>2, <1>3, <1>4, <1>5, <1>6, <1>7, <1>8, <1>9, <1>10, <1>11, <1>12, <1>13, <1>14, <1>15, <1>15a,
       <1>16
    DEF Next, Prepares, Exits

LEMMA FlashedStep == TypeOK /\ Progress /\ ProjectIsOwn /\ OkIsFlashed /\ [Next]_vars => OkIsFlashed'
  <1> SUFFICES ASSUME TypeOK, Progress, ProjectIsOwn, OkIsFlashed, [Next]_vars PROVE OkIsFlashed'
    OBVIOUS
  <1>1. ASSUME NEW j \in Jobs, WriteMain(j) PROVE OkIsFlashed'
    BY <1>1, ContentAssumption, JobsAssumption DEF WriteMain, TypeOK, Progress, ProjectIsOwn, OkIsFlashed, Answered, Goto, Finish, StageDone, Failed, Again, Disturb, Underway
  <1>2. ASSUME NEW j \in Jobs, WipeSources(j) PROVE OkIsFlashed'
    BY <1>2, ContentAssumption, JobsAssumption DEF WipeSources, TypeOK, Progress, ProjectIsOwn, OkIsFlashed, Answered, Goto, Finish, StageDone, Failed, Again, Disturb, Underway
  <1>3. ASSUME NEW j \in Jobs, CopySources(j) PROVE OkIsFlashed'
    BY <1>3, ContentAssumption, JobsAssumption DEF CopySources, TypeOK, Progress, ProjectIsOwn, OkIsFlashed, Answered, Goto, Finish, StageDone, Failed, Again, Disturb, Underway
  <1>4. ASSUME NEW j \in Jobs, WriteIni(j) PROVE OkIsFlashed'
    BY <1>4, ContentAssumption, JobsAssumption DEF WriteIni, TypeOK, Progress, ProjectIsOwn, OkIsFlashed, Answered, Goto, Finish, StageDone, Failed, Again, Disturb, Underway
  <1>5. ASSUME NEW j \in Jobs, Spawn(j) PROVE OkIsFlashed'
    BY <1>5, ContentAssumption, JobsAssumption DEF Spawn, TypeOK, Progress, ProjectIsOwn, OkIsFlashed, Answered, Goto, Finish, StageDone, Failed, Again, Disturb, Underway
  <1>6. ASSUME NEW j \in Jobs, SpawnFails(j) PROVE OkIsFlashed'
    BY <1>6, ContentAssumption, JobsAssumption DEF SpawnFails, TypeOK, Progress, ProjectIsOwn, OkIsFlashed, Answered, Goto, Finish, StageDone, Failed, Again, Disturb, Underway
  <1>7. ASSUME NEW j \in Jobs, Succeeds(j) PROVE OkIsFlashed'
    BY <1>7, ContentAssumption, JobsAssumption DEF Succeeds, TypeOK, Progress, ProjectIsOwn, OkIsFlashed, Answered, Goto, Finish, StageDone, Failed, Again, Disturb, Underway
  <1>8. ASSUME NEW j \in Jobs, Fails(j) PROVE OkIsFlashed'
    BY <1>8, ContentAssumption, JobsAssumption DEF Fails, TypeOK, Progress, ProjectIsOwn, OkIsFlashed, Answered, Goto, Finish, StageDone, Failed, Again, Disturb, Underway
  <1>9. ASSUME NEW j \in Jobs, Killed(j) PROVE OkIsFlashed'
    BY <1>9, ContentAssumption, JobsAssumption DEF Killed, TypeOK, Progress, ProjectIsOwn, OkIsFlashed, Answered, Goto, Finish, StageDone, Failed, Again, Disturb, Underway
  <1>10. ASSUME NEW j \in Jobs, TimesOut(j) PROVE OkIsFlashed'
    BY <1>10, ContentAssumption, JobsAssumption DEF TimesOut, TypeOK, Progress, ProjectIsOwn, OkIsFlashed, Answered, Goto, Finish, StageDone, Failed, Again, Disturb, Underway
  <1>11. ASSUME NEW j \in Jobs, Drained(j) PROVE OkIsFlashed'
    BY <1>11, ContentAssumption, JobsAssumption DEF Drained, TypeOK, Progress, ProjectIsOwn, OkIsFlashed, Answered, Goto, Finish, StageDone, Failed, Again, Disturb, Underway
  <1>12. ASSUME NEW j \in Jobs, Abort(j) PROVE OkIsFlashed'
    BY <1>12, ContentAssumption, JobsAssumption DEF Abort, TypeOK, Progress, ProjectIsOwn, OkIsFlashed, Answered, Goto, Finish, StageDone, Failed, Again, Disturb, Underway
  <1>13. ASSUME NEW j \in Jobs, CopyFails(j) PROVE OkIsFlashed'
    BY <1>13, ContentAssumption, JobsAssumption DEF CopyFails, TypeOK, Progress, ProjectIsOwn, OkIsFlashed, Answered, Goto, Finish, StageDone, Failed, Again, Disturb, Underway
  <1>14. ASSUME NEW j \in Jobs, OrphanEnds(j) PROVE OkIsFlashed'
    BY <1>14, ContentAssumption, JobsAssumption DEF OrphanEnds, TypeOK, Progress, ProjectIsOwn, OkIsFlashed, Answered, Goto, Finish, StageDone, Failed, Again, Disturb, Underway
  <1>15. ASSUME NEW j \in Jobs, Recover(j) PROVE OkIsFlashed'
    BY <1>15, ContentAssumption, JobsAssumption DEF Recover, TypeOK, Progress, ProjectIsOwn, OkIsFlashed, Answered, Goto, Finish, StageDone, Failed, Again, Disturb, Underway
  <1>15a. ASSUME NEW j \in Jobs, PioExits(j) PROVE OkIsFlashed'
    BY <1>15a, ContentAssumption, JobsAssumption DEF PioExits, TypeOK, Progress, ProjectIsOwn, OkIsFlashed, Answered, Goto, Finish, StageDone, Failed, Again, Disturb, Underway
  <1>16. CASE UNCHANGED vars
    BY <1>16 DEF vars, OkIsFlashed, Answered
  <1>17. QED
    BY <1>1, <1>2, <1>3, <1>4, <1>5, <1>6, <1>7, <1>8, <1>9, <1>10, <1>11, <1>12, <1>13, <1>14, <1>15, <1>15a,
       <1>16
    DEF Next, Prepares, Exits

\* The steps of a job that start no pio and write to no device.
LEMMA NoWriter ==
  ASSUME TypeOK, Writers, NEW j \in Jobs, UNCHANGED <<upto, stage, build, board>>,
         \A k \in Jobs : disturbed[k] => disturbed'[k], alive' \in {alive, alive \ {j}},
         \A k \in Jobs : k # j => pc'[k] = pc[k],
         pc'[j] \in {"run", "exited", "drain"} => pc[j] \in {"run", "exited", "drain"} /\ alive' = alive
  PROVE  Writers'
  BY DEF TypeOK, Writers

LEMMA WritersStep == TypeOK /\ Progress /\ ProjectIsOwn /\ Writers /\ [Next]_vars => Writers'
  <1> SUFFICES ASSUME TypeOK, Progress, ProjectIsOwn, Writers, [Next]_vars PROVE Writers'
    OBVIOUS
  <1>1. ASSUME NEW j \in Jobs,
               \/ WriteMain(j) \/ WipeSources(j) \/ CopySources(j) \/ CopyFails(j) \/ WriteIni(j)
               \/ SpawnFails(j) \/ Recover(j)
        PROVE  Writers'
    <2>1. UNCHANGED <<upto, stage, build, board, alive>>
          /\ \E l \in {"copy", "ini", "spawn", "done"} : pc' = [pc EXCEPT ![j] = l]
      BY <1>1 DEF WriteMain, WipeSources, CopySources, CopyFails, WriteIni, SpawnFails, Recover, Finish, Goto, Again
    <2>2. \A k \in Jobs : disturbed[k] => disturbed'[k]
      BY <1>1 DEF WriteMain, WipeSources, CopySources, CopyFails, WriteIni, SpawnFails, Recover, Disturb
    <2>3. QED
      BY <2>1, <2>2, NoWriter DEF TypeOK
  <1>2. ASSUME NEW j \in Jobs, Fails(j) \/ Drained(j) \/ Abort(j) \/ TimesOut(j) \/ PioExits(j) PROVE Writers'
    <2>1. UNCHANGED <<upto, stage, build, board, disturbed>> /\ alive' \in {alive, alive \ {j}}
          /\ \E l \in {"ini", "spawn", "recover", "exited", "drain", "done"} :
                /\ pc' = [pc EXCEPT ![j] = l]
                /\ l \in {"exited", "drain"} => pc[j] = "run" /\ alive' = alive
      BY <1>2 DEF Fails, Drained, Abort, TimesOut, PioExits, Failed, Finish, Goto, Again
    <2>2. QED
      BY <2>1, NoWriter DEF TypeOK
  <1>3. ASSUME NEW j \in Jobs, Succeeds(j) \/ Killed(j) PROVE Writers'
    <2>1. /\ UNCHANGED <<upto, build, disturbed>> /\ alive' \in {alive, alive \ {j}}
          /\ \E l \in {"ini", "spawn", "recover", "done"} : pc' = [pc EXCEPT ![j] = l]
          /\ stage' = stage \/ (stage[j] # upto[j] /\ stage' = [stage EXCEPT ![j] = "upload"])
      BY <1>3 DEF Succeeds, Killed, StageDone, Failed, Finish, Goto, Again
    <2>2. board' = board \/ (stage[j] = "upload" /\ board' = [board EXCEPT ![j] = build[j]])
      BY <1>3 DEF Succeeds, Killed
    <2>3. \A k \in Jobs : stage'[k] = "upload" => upto'[k] = "upload"
      BY <2>1 DEF TypeOK, Writers
    <2>4. \A k \in Jobs : upto'[k] = "compile" => board'[k] = None
      BY <2>1, <2>2 DEF TypeOK, Writers
    <2>5. QED
      BY <2>1, <2>3, <2>4 DEF TypeOK, Writers
  <1>4. ASSUME NEW j \in Jobs, Spawn(j) PROVE Writers'
    <2>1. /\ UNCHANGED <<upto, stage>> /\ alive' = alive \cup {j} /\ pc' = [pc EXCEPT ![j] = "run"]
          /\ build' = [build EXCEPT ![j] = [main |-> main, tabs |-> tabs, ini |-> ini]]
          /\ board' = IF stage[j] = "upload" THEN [board EXCEPT ![j] = Partial] ELSE board
          /\ \A k \in Jobs : disturbed[k] => disturbed'[k]
      BY <1>4 DEF Spawn, Goto
    <2>2. build'[j] \in Builds
      BY <1>4, <2>1 DEF Spawn, TypeOK, Progress, Builds
    <2>3. ~disturbed[j] => OwnBuild(j, build'[j])
      BY <1>4, <2>1 DEF Spawn, TypeOK, ProjectIsOwn, OwnSources, OwnBuild
    <2>4. \A k \in Jobs : upto'[k] = "compile" => board'[k] = None
      BY <2>1 DEF TypeOK, Writers
    <2>5. QED
      BY <2>1, <2>2, <2>3, <2>4 DEF TypeOK, Writers
  <1>5. ASSUME NEW j \in Jobs, OrphanEnds(j) PROVE Writers'
    <2>1. /\ UNCHANGED <<upto, stage, build, disturbed, pc>> /\ alive' = alive \ {j}
          /\ pc[j] \notin {"run", "exited", "drain"}
          /\ board' = board \/ (board[j] = Partial /\ board' = [board EXCEPT ![j] = build[j]])
      BY <1>5 DEF OrphanEnds
    <2>2. \A k \in Jobs : upto'[k] = "compile" => board'[k] = None
      BY <2>1, ContentAssumption DEF TypeOK, Writers
    <2>3. QED
      BY <2>1, <2>2 DEF TypeOK, Writers
  <1>6. CASE UNCHANGED vars
    BY <1>6 DEF vars, Writers
  <1>7. QED
    BY <1>1, <1>2, <1>3, <1>4, <1>5, <1>6 DEF Next, Prepares, Exits

LEMMA Invariance == Spec => []IInv
  <1>1. IInv /\ [Next]_vars => IInv'
    BY TypeStep, ProgressStep, ProjectStep, FlashedStep, WritersStep DEF IInv
  <1>2. QED
    BY InitInv, <1>1, PTL DEF Spec

-----------------------------------------------------------------------------
\* The jobs' variables are well typed, and no stage is tried more than 1 + Retries times.
THEOREM TypeCorrect == Spec => []TypeOK
  <1>1. IInv => TypeOK
    BY DEF IInv
  <1>2. QED
    BY Invariance, <1>1, PTL

\* The project a job left, its platformio.ini and the build stay its own until another
\* job writes there, through every retry: OK means its sketch is on its device.
THEOREM OkIsTrue == Spec => []OkIsFlashed
  <1>1. IInv => OkIsFlashed
    BY DEF IInv
  <1>2. QED
    BY Invariance, <1>1, PTL

-----------------------------------------------------------------------------
(* The refinement of Flashing.                                             *)

Devices == [j \in Jobs |-> Device(j)]
Excused == {j \in Jobs : disturbed[j] \/ killed[j]}

\* A device that is not written to shows nothing.
LEMMA SameDevices ==
  ASSUME board' = board
  PROVE  Devices' = Devices
  BY DEF Devices, Device

\* A device that holds a build holds the job's own, or the job is excused.
LEMMA BuildOnDevice ==
  ASSUME TypeOK, Writers, NEW j \in Jobs, j \in alive, board' = [board EXCEPT ![j] = build[j]]
  PROVE  \E d \in {"own", "foreign"} : /\ Devices' = [Devices EXCEPT ![j] = d]
                                       /\ d = "foreign" => j \in Excused
  <1>1. build[j] \in Builds /\ build[j] \notin {None, Partial}
    BY ContentAssumption DEF Writers
  <1>2. board'[j] = build[j] /\ \A k \in Jobs : k # j => board'[k] = board[k]
    BY DEF TypeOK
  <1> DEFINE d == IF OwnBuild(j, build[j]) THEN "own" ELSE "foreign"
  <1>3. Device(j)' = d /\ \A k \in Jobs : k # j => Device(k)' = Device(k)
    BY <1>1, <1>2 DEF Device
  <1>4. Devices' = [Devices EXCEPT ![j] = d]
    BY <1>3 DEF Devices
  <1>5. d = "foreign" => j \in Excused
    BY DEF Writers, Excused
  <1>6. QED
    BY <1>4, <1>5

\* What a failed attempt says, if anything, is an error.
LEMMA FailureSays ==
  ASSUME TypeOK, NEW j \in Jobs, outcome[j] = None, NEW signs, Failed(j, signs)
  PROVE  outcome' = outcome \/ Promised!Answers(j, "error")
  BY DEF Failed, Finish, Promised!Answers

LEMMA FlashingStep ==
  IInv /\ [Next]_vars =>
    [Promised!Next]_<<upto, [j \in Jobs |-> Device(j)], outcome, {j \in Jobs : disturbed[j] \/ killed[j]}>>
  <1> SUFFICES ASSUME IInv, [Next]_vars
               PROVE  Promised!Next \/ UNCHANGED <<upto, Devices, outcome, Excused>>
    BY DEF Devices, Excused
  <1> USE DEF IInv
  <1>1. upto' = upto /\ Excused \subseteq Excused'
    BY DEF Next, Prepares, Exits, WriteMain, WipeSources, CopySources, CopyFails, WriteIni, Spawn,
           SpawnFails, Recover, Succeeds, Fails, Killed, PioExits, TimesOut, Drained, Abort, OrphanEnds, Disturb,
           TypeOK, Excused, vars
  <1> DEFINE Act == \/ \E j \in Jobs : \/ Promised!Erase(j) \/ Promised!Flash(j) \/ Promised!Compile(j)
                                       \/ Promised!Fail(j) \/ Promised!Mislead(j) \/ Promised!Linger(j)
                    \/ UNCHANGED <<Devices, outcome>>
  <1>2. SUFFICES Act
    BY <1>1 DEF Promised!Next, Devices, Excused
  <1>3. ASSUME NEW j \in Jobs, WriteMain(j) \/ WipeSources(j) \/ CopySources(j) \/ WriteIni(j) \/ Recover(j)
                              \/ PioExits(j) \/ TimesOut(j)
        PROVE  Act
    <2>1. UNCHANGED <<board, outcome>>
      BY <1>3 DEF WriteMain, WipeSources, CopySources, WriteIni, Recover, PioExits, TimesOut
    <2>2. QED
      BY <2>1, SameDevices
  <1>4. ASSUME NEW j \in Jobs, CopyFails(j) \/ SpawnFails(j) \/ Fails(j) \/ Drained(j) \/ Abort(j) PROVE Act
    <2>1. outcome[j] = None /\ board' = board
      BY <1>4 DEF CopyFails, SpawnFails, Fails, Drained, Abort, Underway, Progress, TypeOK
    <2>2. outcome' = outcome \/ Promised!Answers(j, "error") \/ Promised!Answers(j, "aborted")
      <3>1. CASE CopyFails(j) \/ SpawnFails(j) \/ Abort(j)
        BY <2>1, <3>1 DEF CopyFails, SpawnFails, Abort, Finish, Promised!Answers
      <3>2. CASE Fails(j) \/ Drained(j)
        <4>1. PICK signs : Failed(j, signs)
          BY <3>2 DEF Fails, Drained
        <4>2. QED
          BY <2>1, <4>1, FailureSays
      <3>3. QED
        BY <1>4, <3>1, <3>2
    <2>3. QED
      BY <2>1, <2>2, SameDevices DEF Promised!Fail, Devices
  <1>5. ASSUME NEW j \in Jobs, Spawn(j) PROVE Act
    <2>1. outcome' = outcome /\ outcome[j] = None
      BY <1>5 DEF Spawn, Progress
    <2>2. CASE stage[j] = "upload"
      <3>1. board' = [board EXCEPT ![j] = Partial] /\ upto[j] = "upload"
        BY <1>5, <2>2 DEF Spawn, Writers
      <3>2. board'[j] = Partial /\ \A k \in Jobs : k # j => board'[k] = board[k]
        BY <3>1 DEF TypeOK
      <3>3. Device(j)' = "part" /\ \A k \in Jobs : k # j => Device(k)' = Device(k)
        BY <3>2, ContentAssumption DEF Device
      <3>4. Devices' = [Devices EXCEPT ![j] = "part"]
        BY <3>3 DEF Devices
      <3>5. Promised!Erase(j)
        BY <2>1, <3>1, <3>4 DEF Promised!Erase, Promised!Writes, Devices
      <3>6. QED
        BY <3>5
    <2>3. CASE stage[j] # "upload"
      BY <1>5, <2>1, <2>3, SameDevices DEF Spawn
    <2>4. QED
      BY <2>2, <2>3
  <1>6. ASSUME NEW j \in Jobs, Succeeds(j) PROVE Act
    <2>1. outcome[j] = None /\ j \in alive
      BY <1>6 DEF Succeeds, Progress, Writers
    <2>2. CASE stage[j] = "upload"
      <3>1. upto[j] = "upload" /\ Promised!Answers(j, "ok")
        BY <1>6, <2>1, <2>2 DEF Succeeds, StageDone, Finish, Writers, Promised!Answers
      <3>0. board' = [board EXCEPT ![j] = build[j]]
        BY <1>6, <2>2 DEF Succeeds
      <3>2. PICK d \in {"own", "foreign"} : /\ Devices' = [Devices EXCEPT ![j] = d]
                                            /\ d = "foreign" => j \in Excused
        BY <2>1, <3>0, BuildOnDevice, Zenon
      <3>3. CASE d = "own"
        BY <3>1, <3>2, <3>3 DEF Promised!Flash, Promised!Writes, Devices
      <3>4. CASE d = "foreign"
        <4>1. j \in Excused'
          BY <1>1, <3>2, <3>4
        <4>2. QED
          BY <3>1, <3>2, <3>4, <4>1 DEF Promised!Mislead, Promised!Writes, Devices, Excused
      <3>5. QED
        BY <3>3, <3>4
    <2>3. CASE stage[j] # "upload"
      <3>1. board' = board /\ stage[j] = "compile"
        BY <1>6, <2>3 DEF Succeeds, TypeOK
      <3>2. outcome' = outcome \/ (upto[j] = "compile" /\ Promised!Answers(j, "ok"))
        BY <1>6, <2>1, <3>1 DEF Succeeds, StageDone, Finish, Promised!Answers
      <3>3. QED
        BY <3>1, <3>2, SameDevices DEF Promised!Compile, Devices
    <2>4. QED
      BY <2>2, <2>3
  <1>7. ASSUME NEW j \in Jobs, Killed(j) PROVE Act
    <2>1. outcome[j] = None /\ board' = board /\ j \in Excused'
      BY <1>7 DEF Killed, Progress, TypeOK, Excused
    <2>2. outcome' = outcome \/ Promised!Answers(j, "ok") \/ Promised!Answers(j, "error")
      <3>1. CASE StageDone(j)
        BY <2>1, <3>1 DEF StageDone, Finish, Promised!Answers
      <3>2. ASSUME NEW signs, Failed(j, signs)
            PROVE  outcome' = outcome \/ Promised!Answers(j, "error")
        BY <2>1, <3>2, FailureSays
      <3>3. QED
        BY <1>7, <3>1, <3>2 DEF Killed
    <2>3. QED
      BY <2>1, <2>2, SameDevices DEF Promised!Fail, Promised!Mislead, Devices, Excused
  <1>8. ASSUME NEW j \in Jobs, OrphanEnds(j) PROVE Act
    <2>1. outcome' = outcome /\ j \in alive /\ (killed[j] \/ outcome[j] = "aborted")
      BY <1>8 DEF OrphanEnds, Progress
    <2>2. CASE board' = board
      BY <2>1, <2>2, SameDevices
    <2>3. CASE board[j] = Partial /\ board' = [board EXCEPT ![j] = build[j]]
      <3>1. upto[j] = "upload"
        BY <2>3, ContentAssumption DEF TypeOK, Writers
      <3>2. PICK d \in {"own", "foreign"} : /\ Devices' = [Devices EXCEPT ![j] = d]
                                            /\ d = "foreign" => j \in Excused
        BY <2>1, <2>3, BuildOnDevice, Zenon
      <3>3. outcome[j] = "aborted" \/ j \in Excused
        BY <2>1 DEF Excused
      <3>4. Promised!Linger(j)
        BY <2>1, <3>1, <3>2, <3>3 DEF Promised!Linger, Promised!Writes, Devices, Excused
      <3>5. QED
        BY <3>4
    <2>4. QED
      BY <1>8, <2>2, <2>3 DEF OrphanEnds
  <1>9. CASE UNCHANGED vars
    BY <1>9, SameDevices DEF vars
  <1>10. QED
    BY <1>3, <1>4, <1>5, <1>6, <1>7, <1>8, <1>9 DEF Next, Prepares, Exits

\* Any number of flashes and compiles, over one project, implement what Flashing promises of
\* their devices: OK and the build come in one step, and after an answer nothing is written.
THEOREM FlashedAtOnce == Spec => ImplementsFlashing
  <1>1. Init => Promised!Init
    BY DEF Init, Promised!Init, Device
  <1>2. QED
    BY Invariance, <1>1, FlashingStep, PTL DEF Spec, ImplementsFlashing, Promised!Spec
=============================================================================
