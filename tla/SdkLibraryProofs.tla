-------------------------- MODULE SdkLibraryProofs --------------------------
(***************************************************************************)
(* For any tasks, processes, projects, files and archives: a               *)
(* library.properties outside the suspect destinations vouches for a whole *)
(* library, and an edit of the checkout is warned about.                   *)
(***************************************************************************)
EXTENDS SdkLibrary, TLAPS

Writing(t) == Copying(t) \/ pc[t] = "meta"

\* Of two tasks that write to one destination, the one that did not come last knows.
Alone ==
  \A t, u \in Tasks : t # u /\ dest[t] = dest[u] /\ Writing(t) /\ Copying(u) => disturbed[t]

\* What an undisturbed task has copied is what its source holds, the rest is not there yet.
Counts(t) == ~disturbed[t] /\ (Copying(t) \/ (pc[t] = "meta" /\ dest[t] = Sketchbook))
Kept(t) == /\ \A f \in Files : lib[dest[t]][f] = IF f \in todo[t] THEN Absent ELSE Source(t)[f]
           /\ pc[t] # "copy" => todo[t] = {}
           /\ Whole(Source(t))
Faithful == \A t \in Tasks : Counts(t) => Kept(t)

\* An installation over an older library.properties is one of the suspect.
Exposed == \A t \in Tasks : Copying(t) /\ props[dest[t]] # None => dest[t] \in suspect

\* Nobody writes to the sketchbook while its marker vouches for it.
SketchAtRest == meta = "local" => \A t \in Tasks : Copying(t) => dest[t] # Sketchbook

IInv == TypeOK /\ Alone /\ Faithful /\ Exposed /\ SketchAtRest /\ PropsMeanWhole /\ EditIsNoticed

-----------------------------------------------------------------------------
LEMMA InitInv == Init => IInv
  <1> SUFFICES ASSUME Init PROVE IInv
    OBVIOUS
  <1>1. TypeOK
    BY NamesAssumption, ArchivesAssumption DEF Init, TypeOK, Tasks, Procs, Dests, Trees, NoTree
  <1>2. QED
    BY <1>1, NamesAssumption DEF Init, IInv, Alone, Faithful, Exposed, SketchAtRest, PropsMeanWhole,
      EditIsNoticed, Writing, Copying, Counts, Warns

LEMMA CopyPicks ==
  ASSUME NEW t \in Tasks, Copy(t)
  PROVE \E f \in todo[t] :
          /\ todo' = [todo EXCEPT ![t] = todo[t] \ {f}]
          /\ lib' = IF Source(t)[f] = Absent THEN lib
                    ELSE [lib EXCEPT ![dest[t]][f] = Source(t)[f]]
          /\ pc' = [pc EXCEPT ![t] = IF todo[t] = {f} THEN "props" ELSE "copy"]
  BY DEF Copy, Goto

LEMMA SourceType == ASSUME TypeOK, NEW t \in Tasks PROVE Source(t) \in Trees
  BY NamesAssumption DEF TypeOK, Source, Proc, Tasks, Procs

LEMMA TypeStep == TypeOK /\ [Next]_vars => TypeOK'
  <1> SUFFICES ASSUME TypeOK, [Next]_vars PROVE TypeOK'
    OBVIOUS
  <1> USE NamesAssumption, ArchivesAssumption DEF TypeOK, Trees, NoTree, Tasks, Procs, Dests, Proc, Goto, Disturb
  <1>1. ASSUME NEW t \in Tasks, Present(t) PROVE TypeOK'
    BY <1>1 DEF Present
  <1>2. ASSUME NEW t \in Tasks, Start(t) PROVE TypeOK'
    BY <1>2 DEF Start
  <1>3. ASSUME NEW t \in Tasks, Unpack(t) PROVE TypeOK'
    BY <1>3 DEF Unpack, Unpacked, Over
  <1>4. ASSUME NEW t \in Tasks, UnpackFails(t) PROVE TypeOK'
    BY <1>4 DEF UnpackFails, Unpacked
  <1>5. ASSUME NEW t \in Tasks, RemoveTmp(t) PROVE TypeOK'
    BY <1>5 DEF RemoveTmp, Unpacked
  <1>6. ASSUME NEW t \in Tasks, Refuse(t) PROVE TypeOK'
    BY <1>6 DEF Refuse
  <1>7. ASSUME NEW t \in Tasks, Wipe(t) PROVE TypeOK'
    BY <1>7 DEF Wipe, Copying, Missing
  <1>8. ASSUME NEW t \in Tasks, Copy(t) PROVE TypeOK'
    <2>1. Source(t) \in Trees
      BY SourceType
    <2>2. PICK f \in todo[t] :
            /\ todo' = [todo EXCEPT ![t] = todo[t] \ {f}]
            /\ lib' = IF Source(t)[f] = Absent THEN lib
                      ELSE [lib EXCEPT ![dest[t]][f] = Source(t)[f]]
            /\ pc' = [pc EXCEPT ![t] = IF todo[t] = {f} THEN "props" ELSE "copy"]
      BY <1>8, CopyPicks
    <2>3. lib' \in [Dests -> Trees]
      BY <2>1, <2>2
    <2> QED
      BY <1>8, <2>2, <2>3 DEF Copy
  <1>9. ASSUME NEW t \in Tasks, WriteProps(t) PROVE TypeOK'
    <2>1. Source(t) \in Trees
      BY SourceType
    <2> QED
      BY <1>9, <2>1 DEF WriteProps
  <1>10. ASSUME NEW t \in Tasks, WriteMeta(t) PROVE TypeOK'
    BY <1>10 DEF WriteMeta
  <1>11. ASSUME NEW t \in Tasks, CopyFails(t) PROVE TypeOK'
    <2>1. lib' \in [Dests -> Trees]
      <3>1. CASE UNCHANGED lib
        BY <3>1
      <3>2. CASE \E f \in todo[t] : lib' = [lib EXCEPT ![dest[t]][f] = Torn]
        BY <3>2
      <3> QED
        BY <1>11, <3>1, <3>2 DEF CopyFails
    <2> QED
      BY <1>11, <2>1 DEF CopyFails
  <1>12. ASSUME NEW p \in Procs, Crash(p) PROVE TypeOK'
    BY <1>12 DEF Crash
  <1>13. ASSUME NEW d \in Projects, Clean(d) PROVE TypeOK'
    BY <1>13 DEF Clean
  <1>14. ASSUME EditLocal PROVE TypeOK'
    BY <1>14 DEF EditLocal, UsesLocal
  <1>15. ASSUME RemoveLocal PROVE TypeOK'
    BY <1>15 DEF RemoveLocal, UsesLocal
  <1>16. CASE UNCHANGED vars
    BY <1>16 DEF vars
  <1>17. QED
    BY <1>1, <1>2, <1>3, <1>4, <1>5, <1>6, <1>7, <1>8, <1>9, <1>10, <1>11, <1>12, <1>13, <1>14, <1>15, <1>16 DEF Next, Flatten

LEMMA AloneStep == TypeOK /\ Alone /\ [Next]_vars => Alone'
  <1> SUFFICES ASSUME TypeOK, Alone, [Next]_vars PROVE Alone'
    OBVIOUS
  <1> USE NamesAssumption, ArchivesAssumption DEF TypeOK, Trees, NoTree, Tasks, Procs, Dests, Proc, Goto, Disturb
  <1>1. ASSUME NEW t \in Tasks, Present(t) PROVE Alone'
    BY <1>1 DEF Present, Alone, Writing, Copying
  <1>2. ASSUME NEW t \in Tasks, Start(t) PROVE Alone'
    BY <1>2 DEF Start, Alone, Writing, Copying
  <1>3. ASSUME NEW t \in Tasks, Unpack(t) PROVE Alone'
    BY <1>3 DEF Unpack, Unpacked, Over, Alone, Writing, Copying
  <1>4. ASSUME NEW t \in Tasks, UnpackFails(t) PROVE Alone'
    BY <1>4 DEF UnpackFails, Unpacked, Alone, Writing, Copying
  <1>5. ASSUME NEW t \in Tasks, RemoveTmp(t) PROVE Alone'
    BY <1>5 DEF RemoveTmp, Unpacked, Alone, Writing, Copying
  <1>6. ASSUME NEW t \in Tasks, Refuse(t) PROVE Alone'
    BY <1>6 DEF Refuse, Alone, Writing, Copying
  <1>7. ASSUME NEW t \in Tasks, Wipe(t) PROVE Alone'
    BY <1>7 DEF Wipe, Copying, Missing, Alone, Writing, Copying
  <1>8. ASSUME NEW t \in Tasks, Copy(t) PROVE Alone'
    BY <1>8 DEF Copy, Alone, Writing, Copying
  <1>9. ASSUME NEW t \in Tasks, WriteProps(t) PROVE Alone'
    BY <1>9 DEF WriteProps, Alone, Writing, Copying
  <1>10. ASSUME NEW t \in Tasks, WriteMeta(t) PROVE Alone'
    BY <1>10 DEF WriteMeta, Alone, Writing, Copying
  <1>11. ASSUME NEW t \in Tasks, CopyFails(t) PROVE Alone'
    BY <1>11 DEF CopyFails, Alone, Writing, Copying
  <1>12. ASSUME NEW p \in Procs, Crash(p) PROVE Alone'
    BY <1>12 DEF Crash, Alone, Writing, Copying
  <1>13. ASSUME NEW d \in Projects, Clean(d) PROVE Alone'
    BY <1>13 DEF Clean, Alone, Writing, Copying
  <1>14. ASSUME EditLocal PROVE Alone'
    BY <1>14 DEF EditLocal, UsesLocal, Alone, Writing, Copying
  <1>15. ASSUME RemoveLocal PROVE Alone'
    BY <1>15 DEF RemoveLocal, UsesLocal, Alone, Writing, Copying
  <1>16. CASE UNCHANGED vars
    BY <1>16 DEF vars, Alone, Writing, Copying
  <1>17. QED
    BY <1>1, <1>2, <1>3, <1>4, <1>5, <1>6, <1>7, <1>8, <1>9, <1>10, <1>11, <1>12, <1>13, <1>14, <1>15, <1>16 DEF Next, Flatten

LEMMA FaithfulStep == TypeOK /\ Alone /\ Faithful /\ [Next]_vars => Faithful'
  <1> SUFFICES ASSUME TypeOK, Alone, Faithful, [Next]_vars PROVE Faithful'
    OBVIOUS
  <1> USE NamesAssumption, ArchivesAssumption DEF TypeOK, Trees, NoTree, Tasks, Procs, Dests, Proc, Goto, Disturb
  <1>1. ASSUME NEW t \in Tasks, Present(t) PROVE Faithful'
    BY <1>1 DEF Present, Alone, Writing, Faithful, Counts, Kept, Copying, Source, Whole
  <1>2. ASSUME NEW t \in Tasks, Start(t) PROVE Faithful'
    BY <1>2 DEF Start, Alone, Writing, Faithful, Counts, Kept, Copying, Source, Whole
  <1>3. ASSUME NEW t \in Tasks, Unpack(t) PROVE Faithful'
    <2> SUFFICES ASSUME NEW u \in Tasks, Counts(u)' PROVE Kept(u)'
      BY DEF Faithful
    <2>1. Counts(u) /\ Source(u)' = Source(u)
      BY <1>3 DEF Unpack, Unpacked, Over, Counts, Copying, Source
    <2>2. UNCHANGED <<lib, todo, dest>> /\ (pc[u] = "copy" => pc'[u] = "copy")
      BY <1>3, <2>1 DEF Unpack, Unpacked, Over, Counts, Copying
    <2>3. pc'[u] = pc[u]
      BY <1>3, <2>1 DEF Unpack, Unpacked, Over, Counts, Copying
    <2> QED
      BY <2>1, <2>2, <2>3 DEF Faithful, Kept, Whole
  <1>4. ASSUME NEW t \in Tasks, UnpackFails(t) PROVE Faithful'
    <2> SUFFICES ASSUME NEW u \in Tasks, Counts(u)' PROVE Kept(u)'
      BY DEF Faithful
    <2>1. Counts(u) /\ Source(u)' = Source(u)
      BY <1>4 DEF UnpackFails, Unpacked, Counts, Copying, Source
    <2>2. UNCHANGED <<lib, todo, dest>> /\ (pc[u] = "copy" => pc'[u] = "copy")
      BY <1>4, <2>1 DEF UnpackFails, Unpacked, Counts, Copying
    <2>3. pc'[u] = pc[u]
      BY <1>4, <2>1 DEF UnpackFails, Unpacked, Counts, Copying
    <2> QED
      BY <2>1, <2>2, <2>3 DEF Faithful, Kept, Whole
  <1>5. ASSUME NEW t \in Tasks, RemoveTmp(t) PROVE Faithful'
    <2> SUFFICES ASSUME NEW u \in Tasks, Counts(u)' PROVE Kept(u)'
      BY DEF Faithful
    <2>1. Counts(u) /\ Source(u)' = Source(u)
      BY <1>5 DEF RemoveTmp, Unpacked, Counts, Copying, Source
    <2>2. UNCHANGED <<lib, todo, dest>> /\ (pc[u] = "copy" => pc'[u] = "copy")
      BY <1>5, <2>1 DEF RemoveTmp, Unpacked, Counts, Copying
    <2>3. pc'[u] = pc[u]
      BY <1>5, <2>1 DEF RemoveTmp, Unpacked, Counts, Copying
    <2> QED
      BY <2>1, <2>2, <2>3 DEF Faithful, Kept, Whole
  <1>6. ASSUME NEW t \in Tasks, Refuse(t) PROVE Faithful'
    BY <1>6 DEF Refuse, Alone, Writing, Faithful, Counts, Kept, Copying, Source, Whole
  <1>7. ASSUME NEW t \in Tasks, Wipe(t) PROVE Faithful'
    <2> SUFFICES ASSUME NEW u \in Tasks, Counts(u)' PROVE Kept(u)'
      BY DEF Faithful
    <2>1. Source(u)' = Source(u)
      BY <1>7 DEF Wipe, Source
    <2>2. CASE u = t
      <3>1. lib'[dest[t]] = NoTree /\ todo'[t] = Files /\ dest' = dest /\ pc'[t] = "copy"
        BY <1>7 DEF Wipe
      <3>2. \A f \in Files : Source(t)[f] # Torn
        BY <1>7, <2>2 DEF Wipe, Counts
      <3>3. Whole(Source(t))
        BY <1>7, <3>2, RequiredAssumption DEF Wipe, Missing, Whole
      <3> QED
        BY <2>1, <2>2, <3>1, <3>3 DEF Kept, Whole
    <2>3. CASE u # t
      <3>1. Counts(u) /\ pc'[u] = pc[u] /\ todo'[u] = todo[u] /\ dest' = dest
        BY <1>7, <2>3 DEF Wipe, Counts, Copying
      <3>2. dest[u] # dest[t]
        BY <1>7, <2>3, <3>1 DEF Wipe, Counts, Copying
      <3>3. lib'[dest[u]] = lib[dest[u]]
        BY <1>7, <3>2 DEF Wipe
      <3> QED
        BY <2>1, <3>1, <3>3 DEF Faithful, Kept, Whole
    <2> QED
      BY <2>2, <2>3
  <1>8. ASSUME NEW t \in Tasks, Copy(t) PROVE Faithful'
    BY <1>8 DEF Copy, Alone, Writing, Faithful, Counts, Kept, Copying, Source, Whole
  <1>9. ASSUME NEW t \in Tasks, WriteProps(t) PROVE Faithful'
    BY <1>9 DEF WriteProps, Alone, Writing, Faithful, Counts, Kept, Copying, Source, Whole
  <1>10. ASSUME NEW t \in Tasks, WriteMeta(t) PROVE Faithful'
    BY <1>10 DEF WriteMeta, Alone, Writing, Faithful, Counts, Kept, Copying, Source, Whole
  <1>11. ASSUME NEW t \in Tasks, CopyFails(t) PROVE Faithful'
    <2> SUFFICES ASSUME NEW u \in Tasks, Counts(u)' PROVE Kept(u)'
      BY DEF Faithful
    <2>1. u # t /\ Counts(u) /\ pc'[u] = pc[u]
      BY <1>11 DEF CopyFails, Counts, Copying
    <2>2. UNCHANGED <<todo, dest, src, local, tmp>>
      BY <1>11 DEF CopyFails
    <2>3. lib'[dest[u]] = lib[dest[u]]
      <3>1. CASE UNCHANGED lib
        BY <3>1
      <3>2. CASE pc[t] = "copy"
        <4>1. dest[u] # dest[t]
          BY <2>1, <3>2 DEF Alone, Writing, Copying, Counts
        <4> QED
          BY <1>11, <4>1 DEF CopyFails
      <3> QED
        BY <1>11, <3>1, <3>2 DEF CopyFails
    <2> QED
      BY <2>1, <2>2, <2>3 DEF Faithful, Kept, Whole, Source
  <1>12. ASSUME NEW p \in Procs, Crash(p) PROVE Faithful'
    BY <1>12 DEF Crash, Alone, Writing, Faithful, Counts, Kept, Copying, Source, Whole
  <1>13. ASSUME NEW d \in Projects, Clean(d) PROVE Faithful'
    <2> SUFFICES ASSUME NEW u \in Tasks, Counts(u)' PROVE Kept(u)'
      BY DEF Faithful
    <2>1. Counts(u) /\ pc' = pc /\ UNCHANGED <<todo, dest, src, local, tmp>>
      BY <1>13 DEF Clean, Counts, Copying
    <2>2. dest[u] # d
      BY <1>13, <2>1 DEF Clean, Counts, Copying
    <2>3. lib'[dest[u]] = lib[dest[u]]
      BY <1>13, <2>2 DEF Clean
    <2> QED
      BY <2>1, <2>3 DEF Faithful, Kept, Whole, Source
  <1>14. ASSUME EditLocal PROVE Faithful'
    <2> SUFFICES ASSUME NEW u \in Tasks, Counts(u)' PROVE Kept(u)'
      BY DEF Faithful
    <2>1. Counts(u) /\ Source(u)' = Source(u)
      BY <1>14 DEF EditLocal, UsesLocal, Counts, Copying, Source
    <2>2. UNCHANGED <<lib, todo, dest>> /\ (pc[u] = "copy" => pc'[u] = "copy")
      BY <1>14, <2>1 DEF EditLocal, UsesLocal, Counts, Copying
    <2>3. pc'[u] = pc[u]
      BY <1>14, <2>1 DEF EditLocal, UsesLocal, Counts, Copying
    <2> QED
      BY <2>1, <2>2, <2>3 DEF Faithful, Kept, Whole
  <1>15. ASSUME RemoveLocal PROVE Faithful'
    <2> SUFFICES ASSUME NEW u \in Tasks, Counts(u)' PROVE Kept(u)'
      BY DEF Faithful
    <2>1. Counts(u) /\ Source(u)' = Source(u)
      BY <1>15 DEF RemoveLocal, UsesLocal, Counts, Copying, Source
    <2>2. UNCHANGED <<lib, todo, dest>> /\ (pc[u] = "copy" => pc'[u] = "copy")
      BY <1>15, <2>1 DEF RemoveLocal, UsesLocal, Counts, Copying
    <2>3. pc'[u] = pc[u]
      BY <1>15, <2>1 DEF RemoveLocal, UsesLocal, Counts, Copying
    <2> QED
      BY <2>1, <2>2, <2>3 DEF Faithful, Kept, Whole
  <1>16. CASE UNCHANGED vars
    BY <1>16 DEF vars, Alone, Writing, Faithful, Counts, Kept, Copying, Source, Whole
  <1>17. QED
    BY <1>1, <1>2, <1>3, <1>4, <1>5, <1>6, <1>7, <1>8, <1>9, <1>10, <1>11, <1>12, <1>13, <1>14, <1>15, <1>16 DEF Next, Flatten

LEMMA ExposedStep == TypeOK /\ Alone /\ Faithful /\ Exposed /\ [Next]_vars => Exposed'
  <1> SUFFICES ASSUME TypeOK, Alone, Faithful, Exposed, [Next]_vars PROVE Exposed'
    OBVIOUS
  <1> USE NamesAssumption, ArchivesAssumption DEF TypeOK, Trees, NoTree, Tasks, Procs, Dests, Proc, Goto, Disturb
  <1>1. ASSUME NEW t \in Tasks, Present(t) PROVE Exposed'
    BY <1>1 DEF Present, Exposed, Alone, Writing, Copying
  <1>2. ASSUME NEW t \in Tasks, Start(t) PROVE Exposed'
    BY <1>2 DEF Start, Exposed, Alone, Writing, Copying
  <1>3. ASSUME NEW t \in Tasks, Unpack(t) PROVE Exposed'
    BY <1>3 DEF Unpack, Unpacked, Over, Exposed, Alone, Writing, Copying
  <1>4. ASSUME NEW t \in Tasks, UnpackFails(t) PROVE Exposed'
    BY <1>4 DEF UnpackFails, Unpacked, Exposed, Alone, Writing, Copying
  <1>5. ASSUME NEW t \in Tasks, RemoveTmp(t) PROVE Exposed'
    BY <1>5 DEF RemoveTmp, Unpacked, Exposed, Alone, Writing, Copying
  <1>6. ASSUME NEW t \in Tasks, Refuse(t) PROVE Exposed'
    BY <1>6 DEF Refuse, Exposed, Alone, Writing, Copying
  <1>7. ASSUME NEW t \in Tasks, Wipe(t) PROVE Exposed'
    BY <1>7 DEF Wipe, Copying, Missing, Exposed, Alone, Writing, Copying
  <1>8. ASSUME NEW t \in Tasks, Copy(t) PROVE Exposed'
    BY <1>8 DEF Copy, Exposed, Alone, Writing, Copying
  <1>9. ASSUME NEW t \in Tasks, WriteProps(t) PROVE Exposed'
    BY <1>9 DEF WriteProps, Exposed, Alone, Writing, Copying
  <1>10. ASSUME NEW t \in Tasks, WriteMeta(t) PROVE Exposed'
    BY <1>10 DEF WriteMeta, Exposed, Alone, Writing, Copying
  <1>11. ASSUME NEW t \in Tasks, CopyFails(t) PROVE Exposed'
    BY <1>11 DEF CopyFails, Exposed, Alone, Writing, Copying
  <1>12. ASSUME NEW p \in Procs, Crash(p) PROVE Exposed'
    BY <1>12 DEF Crash, Exposed, Alone, Writing, Copying
  <1>13. ASSUME NEW d \in Projects, Clean(d) PROVE Exposed'
    BY <1>13 DEF Clean, Exposed, Alone, Writing, Copying
  <1>14. ASSUME EditLocal PROVE Exposed'
    BY <1>14 DEF EditLocal, UsesLocal, Exposed, Alone, Writing, Copying
  <1>15. ASSUME RemoveLocal PROVE Exposed'
    BY <1>15 DEF RemoveLocal, UsesLocal, Exposed, Alone, Writing, Copying
  <1>16. CASE UNCHANGED vars
    BY <1>16 DEF vars, Exposed, Alone, Writing, Copying
  <1>17. QED
    BY <1>1, <1>2, <1>3, <1>4, <1>5, <1>6, <1>7, <1>8, <1>9, <1>10, <1>11, <1>12, <1>13, <1>14, <1>15, <1>16 DEF Next, Flatten

LEMMA SketchAtRestStep == TypeOK /\ Alone /\ SketchAtRest /\ [Next]_vars => SketchAtRest'
  <1> SUFFICES ASSUME TypeOK, Alone, SketchAtRest, [Next]_vars PROVE SketchAtRest'
    OBVIOUS
  <1> USE NamesAssumption, ArchivesAssumption DEF TypeOK, Trees, NoTree, Tasks, Procs, Dests, Proc, Goto, Disturb
  <1>1. ASSUME NEW t \in Tasks, Present(t) PROVE SketchAtRest'
    BY <1>1 DEF Present, SketchAtRest, Alone, Writing, Copying
  <1>2. ASSUME NEW t \in Tasks, Start(t) PROVE SketchAtRest'
    BY <1>2 DEF Start, SketchAtRest, Alone, Writing, Copying
  <1>3. ASSUME NEW t \in Tasks, Unpack(t) PROVE SketchAtRest'
    BY <1>3 DEF Unpack, Unpacked, Over, SketchAtRest, Alone, Writing, Copying
  <1>4. ASSUME NEW t \in Tasks, UnpackFails(t) PROVE SketchAtRest'
    BY <1>4 DEF UnpackFails, Unpacked, SketchAtRest, Alone, Writing, Copying
  <1>5. ASSUME NEW t \in Tasks, RemoveTmp(t) PROVE SketchAtRest'
    BY <1>5 DEF RemoveTmp, Unpacked, SketchAtRest, Alone, Writing, Copying
  <1>6. ASSUME NEW t \in Tasks, Refuse(t) PROVE SketchAtRest'
    BY <1>6 DEF Refuse, SketchAtRest, Alone, Writing, Copying
  <1>7. ASSUME NEW t \in Tasks, Wipe(t) PROVE SketchAtRest'
    BY <1>7 DEF Wipe, Copying, Missing, SketchAtRest, Alone, Writing, Copying
  <1>8. ASSUME NEW t \in Tasks, Copy(t) PROVE SketchAtRest'
    BY <1>8 DEF Copy, SketchAtRest, Alone, Writing, Copying
  <1>9. ASSUME NEW t \in Tasks, WriteProps(t) PROVE SketchAtRest'
    BY <1>9 DEF WriteProps, SketchAtRest, Alone, Writing, Copying
  <1>10. ASSUME NEW t \in Tasks, WriteMeta(t) PROVE SketchAtRest'
    BY <1>10 DEF WriteMeta, SketchAtRest, Alone, Writing, Copying
  <1>11. ASSUME NEW t \in Tasks, CopyFails(t) PROVE SketchAtRest'
    BY <1>11 DEF CopyFails, SketchAtRest, Alone, Writing, Copying
  <1>12. ASSUME NEW p \in Procs, Crash(p) PROVE SketchAtRest'
    BY <1>12 DEF Crash, SketchAtRest, Alone, Writing, Copying
  <1>13. ASSUME NEW d \in Projects, Clean(d) PROVE SketchAtRest'
    BY <1>13 DEF Clean, SketchAtRest, Alone, Writing, Copying
  <1>14. ASSUME EditLocal PROVE SketchAtRest'
    BY <1>14 DEF EditLocal, UsesLocal, SketchAtRest, Alone, Writing, Copying
  <1>15. ASSUME RemoveLocal PROVE SketchAtRest'
    BY <1>15 DEF RemoveLocal, UsesLocal, SketchAtRest, Alone, Writing, Copying
  <1>16. CASE UNCHANGED vars
    BY <1>16 DEF vars, SketchAtRest, Alone, Writing, Copying
  <1>17. QED
    BY <1>1, <1>2, <1>3, <1>4, <1>5, <1>6, <1>7, <1>8, <1>9, <1>10, <1>11, <1>12, <1>13, <1>14, <1>15, <1>16 DEF Next, Flatten

LEMMA PropsMeanWholeStep == TypeOK /\ Faithful /\ Exposed /\ PropsMeanWhole /\ [Next]_vars => PropsMeanWhole'
  <1> SUFFICES ASSUME TypeOK, Faithful, Exposed, PropsMeanWhole, [Next]_vars PROVE PropsMeanWhole'
    OBVIOUS
  <1> USE NamesAssumption, ArchivesAssumption DEF TypeOK, Trees, NoTree, Tasks, Procs, Dests, Proc, Goto, Disturb
  <1>1. ASSUME NEW t \in Tasks, Present(t) PROVE PropsMeanWhole'
    BY <1>1 DEF Present, PropsMeanWhole, Exposed, Faithful, Counts, Kept, Copying, Whole, Source
  <1>2. ASSUME NEW t \in Tasks, Start(t) PROVE PropsMeanWhole'
    BY <1>2 DEF Start, PropsMeanWhole, Exposed, Faithful, Counts, Kept, Copying, Whole, Source
  <1>3. ASSUME NEW t \in Tasks, Unpack(t) PROVE PropsMeanWhole'
    BY <1>3 DEF Unpack, Unpacked, Over, PropsMeanWhole, Exposed, Faithful, Counts, Kept, Copying, Whole, Source
  <1>4. ASSUME NEW t \in Tasks, UnpackFails(t) PROVE PropsMeanWhole'
    BY <1>4 DEF UnpackFails, Unpacked, PropsMeanWhole, Exposed, Faithful, Counts, Kept, Copying, Whole, Source
  <1>5. ASSUME NEW t \in Tasks, RemoveTmp(t) PROVE PropsMeanWhole'
    BY <1>5 DEF RemoveTmp, Unpacked, PropsMeanWhole, Exposed, Faithful, Counts, Kept, Copying, Whole, Source
  <1>6. ASSUME NEW t \in Tasks, Refuse(t) PROVE PropsMeanWhole'
    BY <1>6 DEF Refuse, PropsMeanWhole, Exposed, Faithful, Counts, Kept, Copying, Whole, Source
  <1>7. ASSUME NEW t \in Tasks, Wipe(t) PROVE PropsMeanWhole'
    BY <1>7 DEF Wipe, Copying, Missing, PropsMeanWhole, Exposed, Faithful, Counts, Kept, Copying, Whole, Source
  <1>8. ASSUME NEW t \in Tasks, Copy(t) PROVE PropsMeanWhole'
    BY <1>8 DEF Copy, PropsMeanWhole, Exposed, Faithful, Counts, Kept, Copying, Whole, Source
  <1>9. ASSUME NEW t \in Tasks, WriteProps(t) PROVE PropsMeanWhole'
    <2> SUFFICES ASSUME NEW d \in Dests, d \notin suspect', props'[d] # None
                 PROVE  Whole(props'[d]) /\ lib'[d] = props'[d]
      BY DEF PropsMeanWhole
    <2>1. CASE d = dest[t]
      <3>1. pc[t] = "props" /\ props'[d] = Source(t) /\ lib' = lib
        BY <1>9, <2>1 DEF WriteProps
      <3>2. ~disturbed[t]
        <4> SUFFICES ASSUME disturbed[t] PROVE FALSE
          OBVIOUS
        <4>1. suspect' = suspect \cup {dest[t]}
          BY <1>9, Zenon DEF WriteProps
        <4> QED
          BY <2>1, <4>1
      <3>3. Counts(t)
        <4>1. Copying(t)
          BY <3>1 DEF Copying
        <4> QED
          BY <3>2, <4>1, Zenon DEF Counts
      <3>4. Kept(t) /\ Source(t) \in Trees
        BY <3>3, SourceType DEF Faithful
      <3>5. \A f \in Files : lib[d][f] = Source(t)[f]
        BY <2>1, <3>1, <3>4 DEF Kept
      <3>6. lib[d] \in Trees
        OBVIOUS
      <3> QED
        BY <3>1, <3>4, <3>5, <3>6 DEF Kept
    <2>2. CASE d # dest[t]
      BY <1>9, <2>2 DEF WriteProps, PropsMeanWhole
    <2> QED
      BY <2>1, <2>2
  <1>10. ASSUME NEW t \in Tasks, WriteMeta(t) PROVE PropsMeanWhole'
    BY <1>10 DEF WriteMeta, PropsMeanWhole, Exposed, Faithful, Counts, Kept, Copying, Whole, Source
  <1>11. ASSUME NEW t \in Tasks, CopyFails(t) PROVE PropsMeanWhole'
    <2> SUFFICES ASSUME NEW d \in Dests, d \notin suspect', props'[d] # None
                 PROVE  Whole(props'[d]) /\ lib'[d] = props'[d]
      BY DEF PropsMeanWhole
    <2>1. props' = props /\ suspect' = suspect
      BY <1>11 DEF CopyFails
    <2>2. lib'[d] = lib[d]
      <3>1. CASE UNCHANGED lib
        BY <3>1
      <3>2. CASE pc[t] = "copy"
        <4>1. dest[t] # d
          BY <2>1, <3>2 DEF Exposed, Copying
        <4> QED
          BY <1>11, <4>1 DEF CopyFails
      <3> QED
        BY <1>11, <3>1, <3>2 DEF CopyFails
    <2> QED
      BY <2>1, <2>2 DEF PropsMeanWhole
  <1>12. ASSUME NEW p \in Procs, Crash(p) PROVE PropsMeanWhole'
    <2> SUFFICES ASSUME NEW d \in Dests, d \notin suspect', props'[d] # None
                 PROVE  Whole(props'[d]) /\ lib'[d] = props'[d]
      BY DEF PropsMeanWhole
    <2>1. props' = props /\ suspect' = suspect
      BY <1>12 DEF Crash
    <2>2. \A t \in Tasks : dest[t] = d => pc[t] # "copy"
      BY <2>1 DEF Exposed, Copying
    <2>3. lib'[d] = [f \in Files |-> lib[d][f]]
      BY <1>12, <2>2 DEF Crash
    <2>4. lib[d] = [f \in Files |-> lib[d][f]]
      OBVIOUS
    <2> QED
      BY <2>1, <2>3, <2>4 DEF PropsMeanWhole
  <1>13. ASSUME NEW d \in Projects, Clean(d) PROVE PropsMeanWhole'
    BY <1>13 DEF Clean, PropsMeanWhole, Exposed, Faithful, Counts, Kept, Copying, Whole, Source
  <1>14. ASSUME EditLocal PROVE PropsMeanWhole'
    BY <1>14 DEF EditLocal, UsesLocal, PropsMeanWhole, Exposed, Faithful, Counts, Kept, Copying, Whole, Source
  <1>15. ASSUME RemoveLocal PROVE PropsMeanWhole'
    BY <1>15 DEF RemoveLocal, UsesLocal, PropsMeanWhole, Exposed, Faithful, Counts, Kept, Copying, Whole, Source
  <1>16. CASE UNCHANGED vars
    BY <1>16 DEF vars, PropsMeanWhole, Exposed, Faithful, Counts, Kept, Copying, Whole, Source
  <1>17. QED
    BY <1>1, <1>2, <1>3, <1>4, <1>5, <1>6, <1>7, <1>8, <1>9, <1>10, <1>11, <1>12, <1>13, <1>14, <1>15, <1>16 DEF Next, Flatten

LEMMA EditIsNoticedStep == TypeOK /\ Faithful /\ SketchAtRest /\ EditIsNoticed /\ [Next]_vars => EditIsNoticed'
  <1> SUFFICES ASSUME TypeOK, Faithful, SketchAtRest, EditIsNoticed, [Next]_vars PROVE EditIsNoticed'
    OBVIOUS
  <1> USE NamesAssumption, ArchivesAssumption DEF TypeOK, Trees, NoTree, Tasks, Procs, Dests, Proc, Goto, Disturb
  <1>1. ASSUME NEW t \in Tasks, Present(t) PROVE EditIsNoticed'
    BY <1>1 DEF Present, EditIsNoticed, SketchAtRest, Faithful, Counts, Kept, Copying, Warns, Source
  <1>2. ASSUME NEW t \in Tasks, Start(t) PROVE EditIsNoticed'
    BY <1>2 DEF Start, EditIsNoticed, SketchAtRest, Faithful, Counts, Kept, Copying, Warns, Source
  <1>3. ASSUME NEW t \in Tasks, Unpack(t) PROVE EditIsNoticed'
    BY <1>3 DEF Unpack, Unpacked, Over, EditIsNoticed, SketchAtRest, Faithful, Counts, Kept, Copying, Warns, Source
  <1>4. ASSUME NEW t \in Tasks, UnpackFails(t) PROVE EditIsNoticed'
    BY <1>4 DEF UnpackFails, Unpacked, EditIsNoticed, SketchAtRest, Faithful, Counts, Kept, Copying, Warns, Source
  <1>5. ASSUME NEW t \in Tasks, RemoveTmp(t) PROVE EditIsNoticed'
    BY <1>5 DEF RemoveTmp, Unpacked, EditIsNoticed, SketchAtRest, Faithful, Counts, Kept, Copying, Warns, Source
  <1>6. ASSUME NEW t \in Tasks, Refuse(t) PROVE EditIsNoticed'
    BY <1>6 DEF Refuse, EditIsNoticed, SketchAtRest, Faithful, Counts, Kept, Copying, Warns, Source
  <1>7. ASSUME NEW t \in Tasks, Wipe(t) PROVE EditIsNoticed'
    BY <1>7 DEF Wipe, Copying, Missing, EditIsNoticed, SketchAtRest, Faithful, Counts, Kept, Copying, Warns, Source
  <1>8. ASSUME NEW t \in Tasks, Copy(t) PROVE EditIsNoticed'
    BY <1>8 DEF Copy, EditIsNoticed, SketchAtRest, Faithful, Counts, Kept, Copying, Warns, Source
  <1>9. ASSUME NEW t \in Tasks, WriteProps(t) PROVE EditIsNoticed'
    BY <1>9 DEF WriteProps, EditIsNoticed, SketchAtRest, Faithful, Counts, Kept, Copying, Warns, Source
  <1>10. ASSUME NEW t \in Tasks, WriteMeta(t) PROVE EditIsNoticed'
    BY <1>10 DEF WriteMeta, EditIsNoticed, SketchAtRest, Faithful, Counts, Kept, Copying, Warns, Source
  <1>11. ASSUME NEW t \in Tasks, CopyFails(t) PROVE EditIsNoticed'
    BY <1>11 DEF CopyFails, EditIsNoticed, SketchAtRest, Faithful, Counts, Kept, Copying, Warns, Source
  <1>12. ASSUME NEW p \in Procs, Crash(p) PROVE EditIsNoticed'
    BY <1>12 DEF Crash, EditIsNoticed, SketchAtRest, Faithful, Counts, Kept, Copying, Warns, Source
  <1>13. ASSUME NEW d \in Projects, Clean(d) PROVE EditIsNoticed'
    BY <1>13 DEF Clean, EditIsNoticed, SketchAtRest, Faithful, Counts, Kept, Copying, Warns, Source
  <1>14. ASSUME EditLocal PROVE EditIsNoticed'
    BY <1>14 DEF EditLocal, UsesLocal, EditIsNoticed, SketchAtRest, Faithful, Counts, Kept, Copying, Warns, Source
  <1>15. ASSUME RemoveLocal PROVE EditIsNoticed'
    BY <1>15 DEF RemoveLocal, UsesLocal, EditIsNoticed, SketchAtRest, Faithful, Counts, Kept, Copying, Warns, Source
  <1>16. CASE UNCHANGED vars
    BY <1>16 DEF vars, EditIsNoticed, SketchAtRest, Faithful, Counts, Kept, Copying, Warns, Source
  <1>17. QED
    BY <1>1, <1>2, <1>3, <1>4, <1>5, <1>6, <1>7, <1>8, <1>9, <1>10, <1>11, <1>12, <1>13, <1>14, <1>15, <1>16 DEF Next, Flatten

LEMMA InvStep == IInv /\ [Next]_vars => IInv'
  BY TypeStep, AloneStep, FaithfulStep, ExposedStep, SketchAtRestStep, PropsMeanWholeStep,
     EditIsNoticedStep
  DEF IInv

LEMMA Inductive == Spec => []IInv
  BY InitInv, InvStep, PTL DEF Spec

\* Every variable keeps its type, for any constants.
THEOREM TypeCorrect == Spec => []TypeOK
  BY Inductive, PTL DEF IInv

\* A library.properties vouches for a whole library of its own tree after any failure or
\* crash of a first installation, and after every undisturbed one over an old library.  It
\* does not while an overwrite is under way or after one was cut short, after a partial
\* clean, and after an installer that shared its destination or its source.
THEOREM PropsVouch == Spec => []PropsMeanWhole
  BY Inductive, PTL DEF IInv

\* A source newer than an undisturbed sync of the sketchbook is never passed over.
THEOREM EditsNoticed == Spec => []EditIsNoticed
  BY Inductive, PTL DEF IInv
=============================================================================
