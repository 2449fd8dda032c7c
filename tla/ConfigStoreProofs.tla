-------------------------- MODULE ConfigStoreProofs --------------------------
(***************************************************************************)
(* For any processes, sections and values: config.json stays readable      *)
(* unless two savers collide, and it is an atomic register until two       *)
(* setters overlap.                                                        *)
(***************************************************************************)
EXTENDS ConfigStore, TLAPS

\* rename() moves the name: no file is both config.json and config.json.tmp.
NamesDiffer == cfg # NoFile => cfg # tmp

\* Until two savers collide, the one inside save() owns config.json.tmp, and
\* what is in it is nothing yet or the text it wrote.
SaverOwnsTmp ==
  ~collided =>
    /\ Published \in Configs
    /\ \A p, q \in Procs : p \in Saving /\ q \in Saving => p = q
    /\ \A p \in Procs : p \in Saving => fd[p] = tmp
    /\ \A p \in Procs : pc[p] = "open" => data[fd[p]] = Empty
    /\ \A p \in Procs : pc[p] = "written" => data[fd[p]] = buf[p]

\* Until two setters overlap, the one in progress holds what is published with
\* one section replaced.
SetterIsCurrent ==
  ~overlapped =>
    /\ ~collided
    /\ \A p, q \in Procs : pc[p] # "idle" /\ pc[q] # "idle" => p = q
    /\ \A p \in Procs : pc[p] # "idle" =>
         \E s \in Sections, v \in Values : buf[p] = [Published EXCEPT ![s] = v]

IInv == TypeOK /\ NamesDiffer /\ SaverOwnsTmp /\ SetterIsCurrent

-----------------------------------------------------------------------------
LEMMA InitInv == Init => IInv
  BY ConfigAssumption
  DEF Init, IInv, TypeOK, NamesDiffer, SaverOwnsTmp, SetterIsCurrent, Saving,
      Published, Damage

LEMMA TypeStep == TypeOK /\ [Next]_vars => TypeOK'
  <1> SUFFICES ASSUME TypeOK, [Next]_vars PROVE TypeOK'
    OBVIOUS
  <1> USE ConfigAssumption DEF TypeOK
  <1>1. ASSUME NEW p \in Procs, NEW s \in Sections, NEW v \in Values, Load(p, s, v)
        PROVE  TypeOK'
    <2>1. Published \in Configs
      BY <1>1 DEF Load, Published, Damage
    <2>2. [Published EXCEPT ![s] = v] \in Configs
      BY <2>1 DEF Configs
    <2>3. QED
      BY <1>1, <2>2 DEF Load, files
  <1>2. ASSUME NEW p \in Procs, LoadFails(p) PROVE TypeOK'
    BY <1>2 DEF LoadFails, Return, files
  <1>3. ASSUME NEW p \in Procs, OpenTmp(p) PROVE TypeOK'
    <2>1. tmp' \in Files
      BY <1>3 DEF OpenTmp
    <2>2. QED
      BY <1>3, <2>1 DEF OpenTmp, Damage
  <1>4. ASSUME NEW p \in Procs, WriteTmp(p) PROVE TypeOK'
    BY <1>4 DEF WriteTmp, Damage
  <1>5. ASSUME NEW p \in Procs, WriteFails(p) PROVE TypeOK'
    BY <1>5 DEF WriteFails, Return, Damage
  <1>6. ASSUME NEW p \in Procs, Rename(p) PROVE TypeOK'
    BY <1>6 DEF Rename, Return
  <1>7. ASSUME NEW p \in Procs, Crash(p) PROVE TypeOK'
    BY <1>7 DEF Crash, Return, files
  <1>8. CASE UNCHANGED vars
    BY <1>8 DEF vars
  <1>9. QED
    BY <1>1, <1>2, <1>3, <1>4, <1>5, <1>6, <1>7, <1>8 DEF Next, Step

LEMMA NamesStep == TypeOK /\ NamesDiffer /\ [Next]_vars => NamesDiffer'
  <1> SUFFICES ASSUME TypeOK, NamesDiffer, [Next]_vars PROVE NamesDiffer'
    OBVIOUS
  <1> USE ConfigAssumption DEF TypeOK, NamesDiffer
  <1>1. ASSUME NEW p \in Procs, OpenTmp(p) PROVE NamesDiffer'
    BY <1>1 DEF OpenTmp, Free
  <1>2. ASSUME NEW p \in Procs, Rename(p) PROVE NamesDiffer'
    BY <1>2 DEF Rename
  <1>3. ASSUME UNCHANGED <<cfg, tmp>> PROVE NamesDiffer'
    BY <1>3
  <1>4. QED
    BY <1>1, <1>2, <1>3
    DEF Next, Step, Load, LoadFails, WriteTmp, WriteFails, Crash, vars, files

LEMMA OwnsStep == IInv /\ [Next]_vars => SaverOwnsTmp'
  <1> SUFFICES ASSUME IInv, [Next]_vars, ~collided' PROVE SaverOwnsTmp'
    BY DEF SaverOwnsTmp
  <1> USE ConfigAssumption DEF IInv, TypeOK, NamesDiffer, SaverOwnsTmp, Saving, Published
  <1>1. ASSUME NEW p \in Procs, NEW s \in Sections, NEW v \in Values, Load(p, s, v)
        PROVE  SaverOwnsTmp'
    BY <1>1 DEF Load, files
  <1>2. ASSUME NEW p \in Procs, LoadFails(p) PROVE SaverOwnsTmp'
    BY <1>2 DEF LoadFails, Return, files
  <1>3. ASSUME NEW p \in Procs, OpenTmp(p) PROVE SaverOwnsTmp'
    <2>1. ~collided /\ Saving = {} /\ tmp' \in Files /\ cfg # tmp'
      BY <1>3 DEF OpenTmp, Free
    <2>2. (Published \in Configs)'
      BY <1>3, <2>1 DEF OpenTmp
    <2>3. \A q \in Procs : pc'[q] \in {"open", "written"} => q = p /\ pc'[q] = "open"
      BY <1>3, <2>1 DEF OpenTmp
    <2>4. fd'[p] = tmp' /\ data'[fd'[p]] = Empty
      BY <1>3, <2>1 DEF OpenTmp
    <2>5. QED
      BY <2>2, <2>3, <2>4
  <1>4. ASSUME NEW p \in Procs, WriteTmp(p) PROVE SaverOwnsTmp'
    <2>1. ~collided /\ fd[p] = tmp /\ fd[p] # cfg /\ data[fd[p]] = Empty /\ fd[p] \in Files
      BY <1>4 DEF WriteTmp
    <2>2. data' = [data EXCEPT ![fd[p]] = buf[p]]
      BY <1>4, <2>1 DEF WriteTmp
    <2>3. QED
      BY <1>4, <2>1, <2>2 DEF WriteTmp
  <1>5. ASSUME NEW p \in Procs, WriteFails(p) PROVE SaverOwnsTmp'
    BY <1>5 DEF WriteFails, Return
  <1>6. ASSUME NEW p \in Procs, Rename(p) PROVE SaverOwnsTmp'
    BY <1>6 DEF Rename, Return
  <1>7. ASSUME NEW p \in Procs, Crash(p) PROVE SaverOwnsTmp'
    BY <1>7 DEF Crash, Return, files
  <1>8. CASE UNCHANGED vars
    BY <1>8 DEF vars
  <1>9. QED
    BY <1>1, <1>2, <1>3, <1>4, <1>5, <1>6, <1>7, <1>8 DEF Next, Step

LEMMA CurrentStep == IInv /\ [Next]_vars => SetterIsCurrent'
  <1> SUFFICES ASSUME IInv, [Next]_vars, ~overlapped' PROVE SetterIsCurrent'
    BY DEF SetterIsCurrent
  <1> USE ConfigAssumption DEF IInv, TypeOK, SetterIsCurrent, Saving, Idle, Published
  <1>1. ASSUME NEW p \in Procs, NEW s \in Sections, NEW v \in Values, Load(p, s, v)
        PROVE  SetterIsCurrent'
    <2>1. ~overlapped /\ \A q \in Procs : pc[q] = "idle"
      BY <1>1 DEF Load
    <2>2. \A q \in Procs : pc'[q] # "idle" => q = p
      BY <1>1, <2>1 DEF Load
    <2>3. buf'[p] = [Published' EXCEPT ![s] = v]
      BY <1>1 DEF Load, files
    <2>4. QED
      BY <1>1, <2>1, <2>2, <2>3 DEF Load
  <1>2. ASSUME NEW p \in Procs, LoadFails(p) PROVE SetterIsCurrent'
    BY <1>2 DEF LoadFails, Return, files
  <1>3. ASSUME NEW p \in Procs, OpenTmp(p) PROVE SetterIsCurrent'
    <2>1. ~overlapped /\ pc[p] = "loaded" /\ tmp' \in Files /\ cfg # tmp'
      BY <1>3 DEF OpenTmp, Free, NamesDiffer
    <2>2. Published' = Published
      BY <1>3, <2>1 DEF OpenTmp
    <2>3. \A q \in Procs : pc[q] # "idle" => q = p
      BY <2>1
    <2>4. ~collided'
      BY <1>3, <2>1, <2>3 DEF OpenTmp
    <2>5. \A q \in Procs : pc'[q] # "idle" => q = p
      BY <1>3, <2>3 DEF OpenTmp
    <2>6. \E s \in Sections, v \in Values : buf'[p] = [Published' EXCEPT ![s] = v]
      BY <1>3, <2>1, <2>2 DEF OpenTmp
    <2>7. QED
      BY <2>4, <2>5, <2>6
  <1>4. ASSUME NEW p \in Procs, WriteTmp(p) PROVE SetterIsCurrent'
    <2>1. fd[p] = tmp /\ fd[p] # cfg /\ fd[p] \in Files
      BY <1>4 DEF WriteTmp, SaverOwnsTmp, NamesDiffer
    <2>2. Published' = Published
      BY <1>4, <2>1 DEF WriteTmp
    <2>3. QED
      BY <1>4, <2>2 DEF WriteTmp
  <1>5. ASSUME NEW p \in Procs, WriteFails(p) PROVE SetterIsCurrent'
    BY <1>5 DEF WriteFails, Return
  <1>6. ASSUME NEW p \in Procs, Rename(p) PROVE SetterIsCurrent'
    BY <1>6 DEF Rename, Return
  <1>7. ASSUME NEW p \in Procs, Crash(p) PROVE SetterIsCurrent'
    BY <1>7 DEF Crash, Return, files
  <1>8. CASE UNCHANGED vars
    BY <1>8 DEF vars
  <1>9. QED
    BY <1>1, <1>2, <1>3, <1>4, <1>5, <1>6, <1>7, <1>8 DEF Next, Step

LEMMA Invariance == Spec => []IInv
  <1>1. IInv /\ [Next]_vars => IInv'
    BY TypeStep, NamesStep, OwnsStep, CurrentStep DEF IInv
  <1>2. QED
    BY InitInv, <1>1, PTL DEF Spec

-----------------------------------------------------------------------------
\* Every reachable state of the files, descriptors and setters is well typed, and
\* a descriptor is open exactly during save().
THEOREM TypeCorrect == Spec => []TypeOK
  <1>1. IInv => TypeOK
    BY DEF IInv
  <1>2. QED
    BY Invariance, <1>1, PTL

\* config.json always parses as long as no two savers were between fs::write and
\* fs::rename at once, whatever crashes and whatever the disk refuses.
THEOREM Readable == Spec => []ReadableUnlessCollided
  <1>1. IInv => ReadableUnlessCollided
    BY DEF IInv, SaverOwnsTmp, ReadableUnlessCollided
  <1>2. QED
    BY Invariance, <1>1, PTL

\* load-modify-save through config.json.tmp implements a register with atomic
\* section updates, until two setters overlap.
THEOREM AtomicUntilOverlap == Spec => ImplementsRegister
  <1> USE ConfigAssumption DEF Register!Configs, Configs
  <1>1. Init => Register!RegInit
    BY DEF Init, Register!RegInit, Published
  <1>2. IInv /\ IInv' /\ [Next]_vars => [Register!RegNext]_(Register!regvars)
    <2> SUFFICES ASSUME IInv, IInv', [Next]_vars
                 PROVE  Register!RegNext \/ UNCHANGED <<Published, overlapped>>
      BY DEF Register!regvars
    <2> USE DEF IInv, TypeOK, Published
    <2>1. CASE overlapped /\ overlapped'
      BY <2>1 DEF Register!RegNext, Register!Disturbed, Damage
    <2>2. CASE ~overlapped /\ overlapped'
      <3>1. Published' = Published
        BY <2>2 DEF Next, Step, Load, LoadFails, OpenTmp, WriteTmp, WriteFails, Rename,
                    Crash, Return, vars, files
      <3>2. QED
        BY <2>2, <3>1 DEF Register!RegNext, Register!Overlap
    <2>3. CASE overlapped /\ ~overlapped'
      BY <2>3 DEF Next, Step, Load, LoadFails, OpenTmp, WriteTmp, WriteFails, Rename,
                  Crash, Return, vars
    <2>4. CASE ~overlapped /\ ~overlapped'
      <3>1. ASSUME NEW p \in Procs, Rename(p) PROVE Register!RegNext
        <4>1. fd[p] = tmp /\ tmp # NoFile /\ data[tmp] = buf[p]
          BY <3>1, <2>4 DEF Rename, SetterIsCurrent, SaverOwnsTmp, Saving
        <4>2. Published' = buf[p]
          BY <3>1, <4>1 DEF Rename
        <4>3. PICK s \in Sections, v \in Values : buf[p] = [Published EXCEPT ![s] = v]
          BY <3>1, <2>4 DEF Rename, SetterIsCurrent
        <4>4. Published \in Configs
          BY <2>4 DEF SetterIsCurrent, SaverOwnsTmp
        <4>5. Register!Replace(s, v)
          BY <2>4, <4>2, <4>3, <4>4 DEF Register!Replace
        <4>6. QED
          BY <4>5 DEF Register!RegNext
      <3>2. ASSUME NEW p \in Procs, OpenTmp(p) PROVE Published' = Published
        BY <3>2 DEF OpenTmp, Free, NamesDiffer
      <3>3. ASSUME NEW p \in Procs, WriteTmp(p) \/ WriteFails(p)
            PROVE  Published' = Published
        <4>1. fd[p] # cfg /\ pc[p] = "open"
          BY <3>3, <2>4 DEF WriteTmp, WriteFails, SetterIsCurrent, SaverOwnsTmp, Saving,
                            NamesDiffer
        <4>2. QED
          BY <3>3, <4>1 DEF WriteTmp, WriteFails
      <3>4. QED
        BY <2>4, <3>1, <3>2, <3>3
        DEF Next, Step, Load, LoadFails, Crash, Return, vars, files
    <2>5. QED
      BY <2>1, <2>2, <2>3, <2>4
  <1>3. QED
    BY Invariance, <1>1, <1>2, PTL DEF Spec, ImplementsRegister, Register!RegSpec
=============================================================================
