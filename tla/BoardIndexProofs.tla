-------------------------- MODULE BoardIndexProofs --------------------------
(***************************************************************************)
(* For any processes, platforms, manifests and times: the cache under      *)
(* today's signature is today's index, and an index that no change         *)
(* overlapped names a device by an unambiguous claim.                      *)
(***************************************************************************)
EXTENDS BoardIndex, TLAPS

\* What a process has read so far, while nothing has changed.
ReadSoFar(q) == /\ left[q] \subseteq Present
                /\ got[q] = UNION {claims[p] : p \in Present \ left[q]}

Vouches(s) == s = Signature /\ s \notin masked

\* The files, under the signature they carry.
FilesHonest == \A f \in {cache, tmpfile} \ {None, Torn} : Vouches(f.sig) => f.index = Index(AllClaims)

\* The processes, under the signature they will write down.
ReadersHonest ==
  \A q \in Procs : Vouches(sig[q]) =>
    /\ pc[q] = "build" => ReadSoFar(q)
    /\ pc[q] \in {"save", "write", "rename"} => memo[q] = Index(AllClaims)

\* A process writes down the signature it has read.
SigRead == \A q \in Procs : pc[q] \in {"lookup", "build", "save", "write", "rename"} => sig[q] # None

\* A process whose resolve nothing has overlapped.
Undisturbed ==
  \A q \in Procs : ~overlap[q] =>
    /\ pc[q] \in {"lookup", "build"} => sig[q] = Signature /\ want[q] = AllClaims
    /\ pc[q] = "build" => ReadSoFar(q)
    /\ pc[q] \in {"save", "write", "rename", "ready"} => memo[q] = Index(want[q])

IInv == TypeOK /\ SigRead /\ FilesHonest /\ ReadersHonest /\ Undisturbed

-----------------------------------------------------------------------------
LEMMA IndexType == ASSUME NEW C \in SUBSET (Ids \X Boards) PROVE Index(C) \in SUBSET (Ids \X Boards)
  BY DEF Index

LEMMA ClaimsType == ASSUME TypeOK PROVE AllClaims \in SUBSET (Ids \X Boards) /\ Signature \in Signatures
  BY DEF TypeOK, AllClaims, Present, Signature, Signatures

LEMMA InitInv == Init => IInv
  <1> SUFFICES ASSUME Init PROVE IInv
    OBVIOUS
  <1>1. TypeOK
    BY ManifestsAssumption, TimesAssumption DEF Init, TypeOK
  <1>2. QED
    BY <1>1, NoneAssumption DEF Init, IInv, SigRead, FilesHonest, ReadersHonest, Undisturbed, Vouches

\* A step of nff, or of the clock, leaves the platforms as they are ...
Steady == Signature' = Signature /\ AllClaims' = AllClaims /\ Present' = Present
          /\ claims' = claims /\ masked' = masked

LEMMA NffSteady ==
  ASSUME \/ \E q \in Procs : Resolve(q) \/ Save(q) \/ Exit(q)
         \/ Tick \/ UNCHANGED vars
  PROVE  Steady
  <1>1. UNCHANGED <<dirtime, times, claims, masked>>
    BY DEF Resolve, Save, Start, UseCache, BeginBuild, ReadPlatform, Built, OpenTmp, WriteTmp,
           RenameTmp, SaveFails, Exit, Tick, vars
  <1>2. QED
    BY <1>1 DEF Steady, Signature, AllClaims, Present

\* ... and a change to them masks a signature that somebody has written down.
LEMMA ChangeMasks ==
  ASSUME \E p \in Platforms : Install(p) \/ Fill(p) \/ Remove(p)
  PROVE  Changed /\ (Signature' \in Recorded => Signature' \in masked')
  <1>1. Changed
    BY DEF Install, Fill, Remove
  <1>2. QED
    BY <1>1 DEF Changed

LEMMA TypeStep == TypeOK /\ SigRead /\ [Next]_vars => TypeOK'
  <1> SUFFICES ASSUME TypeOK, SigRead, [Next]_vars PROVE TypeOK'
    OBVIOUS
  <1>1. ASSUME NEW q \in Procs, Start(q) PROVE TypeOK'
    BY <1>1, IndexType, ClaimsType, ManifestsAssumption, TimesAssumption DEF Start, TypeOK, SigRead, Goto, Return, Caches
  <1>2. ASSUME NEW q \in Procs, UseCache(q) PROVE TypeOK'
    BY <1>2, IndexType, ClaimsType, ManifestsAssumption, TimesAssumption DEF UseCache, Fresh, TypeOK, SigRead, Goto, Return, Caches
  <1>3. ASSUME NEW q \in Procs, BeginBuild(q) PROVE TypeOK'
    BY <1>3 DEF BeginBuild, TypeOK, SigRead, Goto, Present
  <1>4. ASSUME NEW q \in Procs, ReadPlatform(q) PROVE TypeOK'
    BY <1>4, IndexType, ClaimsType, ManifestsAssumption, TimesAssumption DEF ReadPlatform, TypeOK, SigRead, Goto, Return, Caches
  <1>5. ASSUME NEW q \in Procs, Built(q) PROVE TypeOK'
    BY <1>5, IndexType, ClaimsType, ManifestsAssumption, TimesAssumption DEF Built, TypeOK, SigRead, Goto, Return, Caches
  <1>6. ASSUME NEW q \in Procs, OpenTmp(q) PROVE TypeOK'
    BY <1>6, IndexType, ClaimsType, ManifestsAssumption, TimesAssumption DEF OpenTmp, TypeOK, SigRead, Goto, Return, Caches
  <1>7. ASSUME NEW q \in Procs, WriteTmp(q) PROVE TypeOK'
    BY <1>7, IndexType, ClaimsType, ManifestsAssumption, TimesAssumption DEF WriteTmp, TypeOK, SigRead, Goto, Return, Caches
  <1>8. ASSUME NEW q \in Procs, RenameTmp(q) PROVE TypeOK'
    BY <1>8, IndexType, ClaimsType, ManifestsAssumption, TimesAssumption DEF RenameTmp, TypeOK, SigRead, Goto, Return, Caches
  <1>9. ASSUME NEW q \in Procs, SaveFails(q) PROVE TypeOK'
    BY <1>9, IndexType, ClaimsType, ManifestsAssumption, TimesAssumption DEF SaveFails, TypeOK, SigRead, Goto, Return, Caches
  <1>10. ASSUME NEW q \in Procs, Exit(q) PROVE TypeOK'
    BY <1>10, IndexType, ClaimsType, ManifestsAssumption, TimesAssumption DEF Exit, TypeOK, SigRead, Goto, Return, Caches
  <1>11. ASSUME Tick PROVE TypeOK'
    BY <1>11, IndexType, ClaimsType, ManifestsAssumption, TimesAssumption DEF Tick, TypeOK, SigRead, Goto, Return, Caches
  <1>12. CASE UNCHANGED vars
    BY <1>12, IndexType, ClaimsType, ManifestsAssumption, TimesAssumption DEF vars, TypeOK, SigRead, Goto, Return, Caches
  <1>13. ASSUME NEW p \in Platforms, Install(p) PROVE TypeOK'
    <2>1. Changed /\ dirtime' \in Nat /\ times' \in [Platforms -> Nat \cup {None}]
      BY <1>13 DEF Install, TypeOK
    <2>2. claims' \in [Platforms -> SUBSET (Ids \X Boards)]
      BY <1>13, ManifestsAssumption DEF Install, TypeOK
    <2>3. Signature' \in Signatures
      BY <2>1 DEF Signature, Signatures
    <2>4. QED
      BY <2>1, <2>2, <2>3, TimesAssumption DEF Changed, TypeOK
  <1>14. ASSUME NEW p \in Platforms, Fill(p) PROVE TypeOK'
    <2>1. Changed /\ dirtime' \in Nat /\ times' \in [Platforms -> Nat \cup {None}]
      BY <1>14 DEF Fill, TypeOK
    <2>2. claims' \in [Platforms -> SUBSET (Ids \X Boards)]
      BY <1>14, ManifestsAssumption DEF Fill, TypeOK
    <2>3. Signature' \in Signatures
      BY <2>1 DEF Signature, Signatures
    <2>4. QED
      BY <2>1, <2>2, <2>3, TimesAssumption DEF Changed, TypeOK
  <1>15. ASSUME NEW p \in Platforms, Remove(p) PROVE TypeOK'
    <2>1. Changed /\ dirtime' \in Nat /\ times' \in [Platforms -> Nat \cup {None}]
      BY <1>15 DEF Remove, TypeOK
    <2>2. claims' \in [Platforms -> SUBSET (Ids \X Boards)]
      BY <1>15, ManifestsAssumption DEF Remove, TypeOK
    <2>3. Signature' \in Signatures
      BY <2>1 DEF Signature, Signatures
    <2>4. QED
      BY <2>1, <2>2, <2>3, TimesAssumption DEF Changed, TypeOK
  <1>16. QED
    BY <1>1, <1>2, <1>3, <1>4, <1>5, <1>6, <1>7, <1>8, <1>9, <1>10, <1>11, <1>12, <1>13, <1>14, <1>15 DEF Next, Resolve, Save

LEMMA SigStep == TypeOK /\ SigRead /\ [Next]_vars => SigRead'
  <1> SUFFICES ASSUME TypeOK, SigRead, [Next]_vars PROVE SigRead'
    OBVIOUS
  <1>1. ASSUME NEW q \in Procs, Start(q) PROVE SigRead'
    BY <1>1, NoneAssumption, ClaimsType DEF Start, TypeOK, SigRead, Goto, Return
  <1>2. ASSUME NEW q \in Procs, UseCache(q) PROVE SigRead'
    BY <1>2, NoneAssumption, ClaimsType DEF UseCache, Fresh, TypeOK, SigRead, Goto, Return
  <1>3. ASSUME NEW q \in Procs, BeginBuild(q) PROVE SigRead'
    BY <1>3, NoneAssumption, ClaimsType DEF BeginBuild, TypeOK, SigRead, Goto, Return
  <1>4. ASSUME NEW q \in Procs, ReadPlatform(q) PROVE SigRead'
    BY <1>4, NoneAssumption, ClaimsType DEF ReadPlatform, TypeOK, SigRead, Goto, Return
  <1>5. ASSUME NEW q \in Procs, Built(q) PROVE SigRead'
    BY <1>5, NoneAssumption, ClaimsType DEF Built, TypeOK, SigRead, Goto, Return
  <1>6. ASSUME NEW q \in Procs, OpenTmp(q) PROVE SigRead'
    BY <1>6, NoneAssumption, ClaimsType DEF OpenTmp, TypeOK, SigRead, Goto, Return
  <1>7. ASSUME NEW q \in Procs, WriteTmp(q) PROVE SigRead'
    BY <1>7, NoneAssumption, ClaimsType DEF WriteTmp, TypeOK, SigRead, Goto, Return
  <1>8. ASSUME NEW q \in Procs, RenameTmp(q) PROVE SigRead'
    BY <1>8, NoneAssumption, ClaimsType DEF RenameTmp, TypeOK, SigRead, Goto, Return
  <1>9. ASSUME NEW q \in Procs, SaveFails(q) PROVE SigRead'
    BY <1>9, NoneAssumption, ClaimsType DEF SaveFails, TypeOK, SigRead, Goto, Return
  <1>10. ASSUME NEW q \in Procs, Exit(q) PROVE SigRead'
    BY <1>10, NoneAssumption, ClaimsType DEF Exit, TypeOK, SigRead, Goto, Return
  <1>11. ASSUME Tick PROVE SigRead'
    BY <1>11, NoneAssumption, ClaimsType DEF Tick, TypeOK, SigRead, Goto, Return
  <1>12. CASE UNCHANGED vars
    BY <1>12, NoneAssumption, ClaimsType DEF vars, TypeOK, SigRead, Goto, Return
  <1>13. ASSUME NEW p \in Platforms, Install(p) PROVE SigRead'
    BY <1>13, NoneAssumption, ClaimsType DEF Install, Changed, TypeOK, SigRead, Goto, Return
  <1>14. ASSUME NEW p \in Platforms, Fill(p) PROVE SigRead'
    BY <1>14, NoneAssumption, ClaimsType DEF Fill, Changed, TypeOK, SigRead, Goto, Return
  <1>15. ASSUME NEW p \in Platforms, Remove(p) PROVE SigRead'
    BY <1>15, NoneAssumption, ClaimsType DEF Remove, Changed, TypeOK, SigRead, Goto, Return
  <1>16. QED
    BY <1>1, <1>2, <1>3, <1>4, <1>5, <1>6, <1>7, <1>8, <1>9, <1>10, <1>11, <1>12, <1>13, <1>14, <1>15 DEF Next, Resolve, Save

LEMMA FilesStep == TypeOK /\ SigRead /\ FilesHonest /\ ReadersHonest /\ [Next]_vars => FilesHonest'
  <1> SUFFICES ASSUME TypeOK, SigRead, FilesHonest, ReadersHonest, [Next]_vars PROVE FilesHonest'
    OBVIOUS
  <1>1. ASSUME NEW q \in Procs, Start(q) PROVE FilesHonest'
    <2>1. Steady
      BY <1>1, NffSteady DEF Resolve, Save
    <2>2. QED
      BY <1>1, <2>1, NoneAssumption DEF Steady, Start, TypeOK, FilesHonest, Vouches, Goto, Return, vars
  <1>2. ASSUME NEW q \in Procs, UseCache(q) PROVE FilesHonest'
    <2>1. Steady
      BY <1>2, NffSteady DEF Resolve, Save
    <2>2. QED
      BY <1>2, <2>1, NoneAssumption DEF Steady, UseCache, Fresh, TypeOK, FilesHonest, Vouches, Goto, Return, vars
  <1>3. ASSUME NEW q \in Procs, BeginBuild(q) PROVE FilesHonest'
    <2>1. Steady
      BY <1>3, NffSteady DEF Resolve, Save
    <2>2. QED
      BY <1>3, <2>1, NoneAssumption DEF Steady, BeginBuild, TypeOK, FilesHonest, Vouches, Goto, Return, vars
  <1>4. ASSUME NEW q \in Procs, ReadPlatform(q) PROVE FilesHonest'
    <2>1. Steady
      BY <1>4, NffSteady DEF Resolve, Save
    <2>2. QED
      BY <1>4, <2>1, NoneAssumption DEF Steady, ReadPlatform, TypeOK, FilesHonest, Vouches, Goto, Return, vars
  <1>5. ASSUME NEW q \in Procs, Built(q) PROVE FilesHonest'
    <2>1. Steady
      BY <1>5, NffSteady DEF Resolve, Save
    <2>2. QED
      BY <1>5, <2>1, NoneAssumption DEF Steady, Built, TypeOK, FilesHonest, Vouches, Goto, Return, vars
  <1>6. ASSUME NEW q \in Procs, OpenTmp(q) PROVE FilesHonest'
    <2>1. Steady
      BY <1>6, NffSteady DEF Resolve, Save
    <2>2. QED
      BY <1>6, <2>1, NoneAssumption DEF Steady, OpenTmp, TypeOK, FilesHonest, Vouches, Goto, Return, vars
  <1>7. ASSUME NEW q \in Procs, WriteTmp(q) PROVE FilesHonest'
    <2>1. Steady
      BY <1>7, NffSteady DEF Resolve, Save
    <2> DEFINE new == [sig |-> sig[q], built |-> now, index |-> memo[q]]
    <2>2. new.sig = sig[q] /\ new.index = memo[q]
      OBVIOUS
    <2>3. Vouches(sig[q]) => memo[q] = Index(AllClaims)
      BY <1>7 DEF WriteTmp, ReadersHonest
    <2>4. {cache', tmpfile'} \subseteq {cache, tmpfile, new}
      BY <1>7 DEF WriteTmp
    <2> HIDE DEF new
    <2>5. QED
      BY <2>1, <2>2, <2>3, <2>4 DEF Steady, FilesHonest, Vouches
  <1>8. ASSUME NEW q \in Procs, RenameTmp(q) PROVE FilesHonest'
    <2>1. Steady
      BY <1>8, NffSteady DEF Resolve, Save
    <2>2. QED
      BY <1>8, <2>1, NoneAssumption DEF Steady, RenameTmp, TypeOK, FilesHonest, Vouches, Goto, Return, vars
  <1>9. ASSUME NEW q \in Procs, SaveFails(q) PROVE FilesHonest'
    <2>1. Steady
      BY <1>9, NffSteady DEF Resolve, Save
    <2>2. QED
      BY <1>9, <2>1, NoneAssumption DEF Steady, SaveFails, TypeOK, FilesHonest, Vouches, Goto, Return, vars
  <1>10. ASSUME NEW q \in Procs, Exit(q) PROVE FilesHonest'
    <2>1. Steady
      BY <1>10, NffSteady DEF Resolve, Save
    <2>2. QED
      BY <1>10, <2>1, NoneAssumption DEF Steady, Exit, TypeOK, FilesHonest, Vouches, Goto, Return, vars
  <1>11. ASSUME Tick PROVE FilesHonest'
    <2>1. Steady
      BY <1>11, NffSteady DEF Resolve, Save
    <2>2. QED
      BY <1>11, <2>1, NoneAssumption DEF Steady, Tick, TypeOK, FilesHonest, Vouches, Goto, Return, vars
  <1>12. CASE UNCHANGED vars
    <2>1. Steady
      BY <1>12, NffSteady DEF Resolve, Save
    <2>2. QED
      BY <1>12, <2>1, NoneAssumption DEF Steady, vars, TypeOK, FilesHonest, Vouches, Goto, Return, vars
  <1>13. ASSUME \E p \in Platforms : Install(p) \/ Fill(p) \/ Remove(p) PROVE FilesHonest'
    <2>1. Changed /\ (Signature' \in Recorded => Signature' \in masked')
      BY <1>13, ChangeMasks
    <2> SUFFICES ASSUME NEW f \in ({cache, tmpfile} \ {None, Torn})', Vouches(f.sig)'
                 PROVE  FALSE
      BY DEF FilesHonest
    <2>2. f.sig \in Recorded
      BY <2>1 DEF Changed, Recorded
    <2>3. QED
      BY <2>1, <2>2 DEF Vouches
  <1>14. QED
    BY <1>1, <1>2, <1>3, <1>4, <1>5, <1>6, <1>7, <1>8, <1>9, <1>10, <1>11, <1>12, <1>13 DEF Next, Resolve, Save

LEMMA ReadersStep == TypeOK /\ SigRead /\ ReadersHonest /\ [Next]_vars => ReadersHonest'
  <1> SUFFICES ASSUME TypeOK, SigRead, ReadersHonest, [Next]_vars PROVE ReadersHonest'
    OBVIOUS
  <1>1. ASSUME NEW q \in Procs, Start(q) PROVE ReadersHonest'
    <2>1. Steady
      BY <1>1, NffSteady DEF Resolve, Save
    <2>2. ASSUME NEW u \in Procs, u # q, Vouches(sig[u])'
          PROVE /\ pc'[u] = "build" => ReadSoFar(u)'
                /\ pc'[u] \in {"save", "write", "rename"} => memo'[u] = Index(AllClaims)'
      BY <1>1, <2>1, <2>2 DEF Steady, Start, TypeOK, ReadersHonest, Vouches, ReadSoFar, Goto, Return
    <2>3. ASSUME Vouches(sig[q])'
          PROVE /\ pc'[q] = "build" => ReadSoFar(q)'
                /\ pc'[q] \in {"save", "write", "rename"} => memo'[q] = Index(AllClaims)'
      BY <1>1, <2>1, <2>3 DEF Steady, Start, TypeOK, ReadersHonest, Vouches, ReadSoFar, Goto, Return
    <2>4. QED
      BY <2>2, <2>3 DEF ReadersHonest
  <1>2. ASSUME NEW q \in Procs, UseCache(q) PROVE ReadersHonest'
    <2>1. Steady
      BY <1>2, NffSteady DEF Resolve, Save
    <2>2. ASSUME NEW u \in Procs, u # q, Vouches(sig[u])'
          PROVE /\ pc'[u] = "build" => ReadSoFar(u)'
                /\ pc'[u] \in {"save", "write", "rename"} => memo'[u] = Index(AllClaims)'
      BY <1>2, <2>1, <2>2 DEF Steady, UseCache, TypeOK, ReadersHonest, Vouches, ReadSoFar, Goto, Return
    <2>3. ASSUME Vouches(sig[q])'
          PROVE /\ pc'[q] = "build" => ReadSoFar(q)'
                /\ pc'[q] \in {"save", "write", "rename"} => memo'[q] = Index(AllClaims)'
      BY <1>2, <2>1, <2>3 DEF Steady, UseCache, TypeOK, ReadersHonest, Vouches, ReadSoFar, Goto, Return
    <2>4. QED
      BY <2>2, <2>3 DEF ReadersHonest
  <1>3. ASSUME NEW q \in Procs, BeginBuild(q) PROVE ReadersHonest'
    <2>1. Steady
      BY <1>3, NffSteady DEF Resolve, Save
    <2>2. ASSUME NEW u \in Procs, u # q, Vouches(sig[u])'
          PROVE /\ pc'[u] = "build" => ReadSoFar(u)'
                /\ pc'[u] \in {"save", "write", "rename"} => memo'[u] = Index(AllClaims)'
      BY <1>3, <2>1, <2>2 DEF Steady, BeginBuild, TypeOK, ReadersHonest, Vouches, ReadSoFar, Goto, Return
    <2>3. ASSUME Vouches(sig[q])'
          PROVE /\ pc'[q] = "build" => ReadSoFar(q)'
                /\ pc'[q] \in {"save", "write", "rename"} => memo'[q] = Index(AllClaims)'
      BY <1>3, <2>1, <2>3 DEF Steady, BeginBuild, TypeOK, ReadersHonest, Vouches, ReadSoFar, Goto, Return, AllClaims
    <2>4. QED
      BY <2>2, <2>3 DEF ReadersHonest
  <1>4. ASSUME NEW q \in Procs, ReadPlatform(q) PROVE ReadersHonest'
    <2>1. Steady
      BY <1>4, NffSteady DEF Resolve, Save
    <2>2. ASSUME NEW u \in Procs, u # q, Vouches(sig[u])'
          PROVE /\ pc'[u] = "build" => ReadSoFar(u)'
                /\ pc'[u] \in {"save", "write", "rename"} => memo'[u] = Index(AllClaims)'
      BY <1>4, <2>1, <2>2 DEF Steady, ReadPlatform, TypeOK, ReadersHonest, Vouches, ReadSoFar, Goto, Return
    <2>3. ReadSoFar(q) => ReadSoFar(q)'
      BY <1>4, <2>1 DEF Steady, ReadPlatform, TypeOK, ReadSoFar
    <2>4. ASSUME Vouches(sig[q])'
          PROVE /\ pc'[q] = "build" => ReadSoFar(q)'
                /\ pc'[q] \in {"save", "write", "rename"} => memo'[q] = Index(AllClaims)'
      BY <1>4, <2>1, <2>3, <2>4 DEF Steady, ReadPlatform, TypeOK, ReadersHonest, Vouches, Goto, Return
    <2>5. QED
      BY <2>2, <2>4 DEF ReadersHonest
  <1>5. ASSUME NEW q \in Procs, Built(q) PROVE ReadersHonest'
    <2>1. Steady
      BY <1>5, NffSteady DEF Resolve, Save
    <2>2. ASSUME NEW u \in Procs, u # q, Vouches(sig[u])'
          PROVE /\ pc'[u] = "build" => ReadSoFar(u)'
                /\ pc'[u] \in {"save", "write", "rename"} => memo'[u] = Index(AllClaims)'
      BY <1>5, <2>1, <2>2 DEF Steady, Built, TypeOK, ReadersHonest, Vouches, ReadSoFar, Goto, Return
    <2>3. Vouches(sig[q]) => got[q] = AllClaims
      BY <1>5 DEF Built, ReadersHonest, ReadSoFar, AllClaims
    <2>4. ASSUME Vouches(sig[q])'
          PROVE /\ pc'[q] = "build" => ReadSoFar(q)'
                /\ pc'[q] \in {"save", "write", "rename"} => memo'[q] = Index(AllClaims)'
      BY <1>5, <2>1, <2>3, <2>4 DEF Steady, Built, TypeOK, ReadersHonest, Vouches, ReadSoFar, Goto, Return
    <2>5. QED
      BY <2>2, <2>4 DEF ReadersHonest
  <1>6. ASSUME NEW q \in Procs, OpenTmp(q) PROVE ReadersHonest'
    <2>1. Steady
      BY <1>6, NffSteady DEF Resolve, Save
    <2>2. ASSUME NEW u \in Procs, u # q, Vouches(sig[u])'
          PROVE /\ pc'[u] = "build" => ReadSoFar(u)'
                /\ pc'[u] \in {"save", "write", "rename"} => memo'[u] = Index(AllClaims)'
      BY <1>6, <2>1, <2>2 DEF Steady, OpenTmp, TypeOK, ReadersHonest, Vouches, ReadSoFar, Goto, Return
    <2>3. ASSUME Vouches(sig[q])'
          PROVE /\ pc'[q] = "build" => ReadSoFar(q)'
                /\ pc'[q] \in {"save", "write", "rename"} => memo'[q] = Index(AllClaims)'
      BY <1>6, <2>1, <2>3 DEF Steady, OpenTmp, TypeOK, ReadersHonest, Vouches, ReadSoFar, Goto, Return
    <2>4. QED
      BY <2>2, <2>3 DEF ReadersHonest
  <1>7. ASSUME NEW q \in Procs, WriteTmp(q) PROVE ReadersHonest'
    <2>1. Steady
      BY <1>7, NffSteady DEF Resolve, Save
    <2>2. ASSUME NEW u \in Procs, u # q, Vouches(sig[u])'
          PROVE /\ pc'[u] = "build" => ReadSoFar(u)'
                /\ pc'[u] \in {"save", "write", "rename"} => memo'[u] = Index(AllClaims)'
      BY <1>7, <2>1, <2>2 DEF Steady, WriteTmp, TypeOK, ReadersHonest, Vouches, ReadSoFar, Goto, Return
    <2>3. ASSUME Vouches(sig[q])'
          PROVE /\ pc'[q] = "build" => ReadSoFar(q)'
                /\ pc'[q] \in {"save", "write", "rename"} => memo'[q] = Index(AllClaims)'
      BY <1>7, <2>1, <2>3 DEF Steady, WriteTmp, TypeOK, ReadersHonest, Vouches, ReadSoFar, Goto, Return
    <2>4. QED
      BY <2>2, <2>3 DEF ReadersHonest
  <1>8. ASSUME NEW q \in Procs, RenameTmp(q) PROVE ReadersHonest'
    <2>1. Steady
      BY <1>8, NffSteady DEF Resolve, Save
    <2>2. ASSUME NEW u \in Procs, u # q, Vouches(sig[u])'
          PROVE /\ pc'[u] = "build" => ReadSoFar(u)'
                /\ pc'[u] \in {"save", "write", "rename"} => memo'[u] = Index(AllClaims)'
      BY <1>8, <2>1, <2>2 DEF Steady, RenameTmp, TypeOK, ReadersHonest, Vouches, ReadSoFar, Goto, Return
    <2>3. ASSUME Vouches(sig[q])'
          PROVE /\ pc'[q] = "build" => ReadSoFar(q)'
                /\ pc'[q] \in {"save", "write", "rename"} => memo'[q] = Index(AllClaims)'
      BY <1>8, <2>1, <2>3 DEF Steady, RenameTmp, TypeOK, ReadersHonest, Vouches, ReadSoFar, Goto, Return
    <2>4. QED
      BY <2>2, <2>3 DEF ReadersHonest
  <1>9. ASSUME NEW q \in Procs, SaveFails(q) PROVE ReadersHonest'
    <2>1. Steady
      BY <1>9, NffSteady DEF Resolve, Save
    <2>2. ASSUME NEW u \in Procs, u # q, Vouches(sig[u])'
          PROVE /\ pc'[u] = "build" => ReadSoFar(u)'
                /\ pc'[u] \in {"save", "write", "rename"} => memo'[u] = Index(AllClaims)'
      BY <1>9, <2>1, <2>2 DEF Steady, SaveFails, TypeOK, ReadersHonest, Vouches, ReadSoFar, Goto, Return
    <2>3. ASSUME Vouches(sig[q])'
          PROVE /\ pc'[q] = "build" => ReadSoFar(q)'
                /\ pc'[q] \in {"save", "write", "rename"} => memo'[q] = Index(AllClaims)'
      BY <1>9, <2>1, <2>3 DEF Steady, SaveFails, TypeOK, ReadersHonest, Vouches, ReadSoFar, Goto, Return
    <2>4. QED
      BY <2>2, <2>3 DEF ReadersHonest
  <1>10. ASSUME NEW q \in Procs, Exit(q) PROVE ReadersHonest'
    <2>1. Steady
      BY <1>10, NffSteady DEF Resolve, Save
    <2>2. ASSUME NEW u \in Procs, u # q, Vouches(sig[u])'
          PROVE /\ pc'[u] = "build" => ReadSoFar(u)'
                /\ pc'[u] \in {"save", "write", "rename"} => memo'[u] = Index(AllClaims)'
      BY <1>10, <2>1, <2>2 DEF Steady, Exit, TypeOK, ReadersHonest, Vouches, ReadSoFar, Goto, Return
    <2>3. ASSUME Vouches(sig[q])'
          PROVE /\ pc'[q] = "build" => ReadSoFar(q)'
                /\ pc'[q] \in {"save", "write", "rename"} => memo'[q] = Index(AllClaims)'
      BY <1>10, <2>1, <2>3 DEF Steady, Exit, TypeOK, ReadersHonest, Vouches, ReadSoFar, Goto, Return
    <2>4. QED
      BY <2>2, <2>3 DEF ReadersHonest
  <1>11. ASSUME Tick PROVE ReadersHonest'
    <2>1. Steady
      BY <1>11, NffSteady DEF Resolve, Save
    <2>2. QED
      BY <1>11, <2>1, NoneAssumption DEF Steady, Tick, TypeOK, ReadersHonest, SigRead, Vouches, ReadSoFar, Goto, Return, vars
  <1>12. CASE UNCHANGED vars
    <2>1. Steady
      BY <1>12, NffSteady DEF Resolve, Save
    <2>2. QED
      BY <1>12, <2>1, NoneAssumption DEF Steady, vars, TypeOK, ReadersHonest, SigRead, Vouches, ReadSoFar, Goto, Return, vars
  <1>13. ASSUME \E p \in Platforms : Install(p) \/ Fill(p) \/ Remove(p) PROVE ReadersHonest'
    <2>1. Changed /\ (Signature' \in Recorded => Signature' \in masked')
      BY <1>13, ChangeMasks
    <2> SUFFICES ASSUME NEW q \in Procs, Vouches(sig[q])' PROVE FALSE
      BY DEF ReadersHonest
    <2>2. sig'[q] \in Recorded
      BY <2>1 DEF Changed, Recorded
    <2>3. QED
      BY <2>1, <2>2 DEF Vouches
  <1>14. QED
    BY <1>1, <1>2, <1>3, <1>4, <1>5, <1>6, <1>7, <1>8, <1>9, <1>10, <1>11, <1>12, <1>13 DEF Next, Resolve, Save

LEMMA UndisturbedStep == TypeOK /\ SigRead /\ FilesHonest /\ Undisturbed /\ [Next]_vars => Undisturbed'
  <1> SUFFICES ASSUME TypeOK, SigRead, FilesHonest, Undisturbed, [Next]_vars PROVE Undisturbed'
    OBVIOUS
  <1>1. ASSUME NEW q \in Procs, Start(q) PROVE Undisturbed'
    <2>1. Steady
      BY <1>1, NffSteady DEF Resolve, Save
    <2>2. QED
      BY <1>1, <2>1, NoneAssumption DEF Steady, Start, TypeOK, Undisturbed, ReadSoFar, Goto, Return, vars
  <1>2. ASSUME NEW q \in Procs, UseCache(q) PROVE Undisturbed'
    <2>1. Steady
      BY <1>2, NffSteady DEF Resolve, Save
    <2>2. ~overlap'[q] => cache.index = Index(want[q])
      <3> SUFFICES ASSUME ~overlap'[q] PROVE cache.index = Index(want[q])
        OBVIOUS
      <3>1. ~overlap[q] /\ sig[q] \notin masked
        BY <1>2 DEF UseCache, TypeOK
      <3>2. sig[q] = Signature /\ want[q] = AllClaims
        BY <1>2, <3>1 DEF UseCache, Undisturbed
      <3>3. cache \notin {None, Torn} /\ cache.sig = sig[q]
        BY <1>2 DEF UseCache, Fresh
      <3>4. QED
        BY <3>1, <3>2, <3>3 DEF FilesHonest, Vouches
    <2>3. QED
      BY <1>2, <2>1, <2>2 DEF Steady, UseCache, TypeOK, Undisturbed, ReadSoFar, Goto, Return
  <1>3. ASSUME NEW q \in Procs, BeginBuild(q) PROVE Undisturbed'
    <2>1. Steady
      BY <1>3, NffSteady DEF Resolve, Save
    <2>2. QED
      BY <1>3, <2>1, NoneAssumption DEF Steady, BeginBuild, TypeOK, Undisturbed, ReadSoFar, Goto, Return, vars
  <1>4. ASSUME NEW q \in Procs, ReadPlatform(q) PROVE Undisturbed'
    <2>1. Steady
      BY <1>4, NffSteady DEF Resolve, Save
    <2>2. QED
      BY <1>4, <2>1, NoneAssumption DEF Steady, ReadPlatform, TypeOK, Undisturbed, ReadSoFar, Goto, Return, vars
  <1>5. ASSUME NEW q \in Procs, Built(q) PROVE Undisturbed'
    <2>1. Steady
      BY <1>5, NffSteady DEF Resolve, Save
    <2>2. ~overlap[q] => got[q] = want[q]
      BY <1>5 DEF Built, Undisturbed, ReadSoFar, AllClaims
    <2>3. QED
      BY <1>5, <2>1, <2>2 DEF Steady, Built, TypeOK, Undisturbed, ReadSoFar, Goto
  <1>6. ASSUME NEW q \in Procs, OpenTmp(q) PROVE Undisturbed'
    <2>1. Steady
      BY <1>6, NffSteady DEF Resolve, Save
    <2>2. QED
      BY <1>6, <2>1, NoneAssumption DEF Steady, OpenTmp, TypeOK, Undisturbed, ReadSoFar, Goto, Return, vars
  <1>7. ASSUME NEW q \in Procs, WriteTmp(q) PROVE Undisturbed'
    <2>1. Steady
      BY <1>7, NffSteady DEF Resolve, Save
    <2>2. QED
      BY <1>7, <2>1, NoneAssumption DEF Steady, WriteTmp, TypeOK, Undisturbed, ReadSoFar, Goto, Return, vars
  <1>8. ASSUME NEW q \in Procs, RenameTmp(q) PROVE Undisturbed'
    <2>1. Steady
      BY <1>8, NffSteady DEF Resolve, Save
    <2>2. QED
      BY <1>8, <2>1, NoneAssumption DEF Steady, RenameTmp, TypeOK, Undisturbed, ReadSoFar, Goto, Return, vars
  <1>9. ASSUME NEW q \in Procs, SaveFails(q) PROVE Undisturbed'
    <2>1. Steady
      BY <1>9, NffSteady DEF Resolve, Save
    <2>2. QED
      BY <1>9, <2>1, NoneAssumption DEF Steady, SaveFails, TypeOK, Undisturbed, ReadSoFar, Goto, Return, vars
  <1>10. ASSUME NEW q \in Procs, Exit(q) PROVE Undisturbed'
    <2>1. Steady
      BY <1>10, NffSteady DEF Resolve, Save
    <2>2. QED
      BY <1>10, <2>1, NoneAssumption DEF Steady, Exit, TypeOK, Undisturbed, ReadSoFar, Goto, Return, vars
  <1>11. ASSUME Tick PROVE Undisturbed'
    <2>1. Steady
      BY <1>11, NffSteady DEF Resolve, Save
    <2>2. QED
      BY <1>11, <2>1, NoneAssumption DEF Steady, Tick, TypeOK, Undisturbed, ReadSoFar, Goto, Return, vars
  <1>12. CASE UNCHANGED vars
    <2>1. Steady
      BY <1>12, NffSteady DEF Resolve, Save
    <2>2. QED
      BY <1>12, <2>1, NoneAssumption DEF Steady, vars, TypeOK, Undisturbed, ReadSoFar, Goto, Return, vars
  <1>13. ASSUME \E p \in Platforms : Install(p) \/ Fill(p) \/ Remove(p) PROVE Undisturbed'
    <2>1. Changed
      BY <1>13, ChangeMasks
    <2>2. QED
      BY <2>1 DEF Changed, TypeOK, Undisturbed
  <1>14. QED
    BY <1>1, <1>2, <1>3, <1>4, <1>5, <1>6, <1>7, <1>8, <1>9, <1>10, <1>11, <1>12, <1>13 DEF Next, Resolve, Save

LEMMA Inductive == Spec => []IInv
  <1>1. IInv /\ [Next]_vars => IInv'
    BY TypeStep, SigStep, FilesStep, ReadersStep, UndisturbedStep DEF IInv
  <1>2. QED
    BY InitInv, <1>1, PTL DEF Spec

\* Every variable keeps its type, for any constants.
THEOREM TypeCorrect == Spec => []TypeOK
  BY Inductive, PTL DEF IInv

\* However the processes that save the cache interleave, and whatever pio does under
\* their eyes, a cache under a signature that was never reused is up to date.
THEOREM CacheCurrent == Spec => []CacheIsCurrent
  <1>1. IInv => CacheIsCurrent
    BY DEF IInv, FilesHonest, CacheIsCurrent, Vouches
  <1>2. QED
    BY Inductive, <1>1, PTL

\* A device is named by BOARD_MAP, by the only board that claims it, or not at all.
THEOREM Unambiguous == Spec => []NamesAreUnambiguous
  <1>1. ASSUME IInv PROVE NamesAreUnambiguous
    <2> SUFFICES ASSUME NEW q \in Procs, NEW id \in Ids, pc[q] = "ready", ~overlap[q]
                 PROVE  Identify(id, memo[q]) =
                          IF id \in Curated THEN {"curated"}
                          ELSE LET named == {b \in Boards : <<id, b>> \in want[q]} IN
                               IF id \notin Bridges /\ \E b \in Boards : named = {b}
                               THEN named ELSE {}
      BY DEF NamesAreUnambiguous
    <2>1. memo[q] = Index(want[q]) /\ want[q] \in SUBSET (Ids \X Boards)
      BY <1>1 DEF IInv, TypeOK, Undisturbed
    <2> DEFINE named == {b \in Boards : <<id, b>> \in want[q]}
    <2>2. \A b \in Boards : <<id, b>> \in memo[q] <=>
            id \notin Bridges /\ b \in named /\ \A d \in named : d = b
      <3>1. ASSUME NEW b \in Boards, <<id, b>> \in memo[q]
            PROVE id \notin Bridges /\ b \in named /\ \A d \in named : d = b
        BY <2>1, <3>1 DEF Index
      <3>2. ASSUME NEW b \in Boards, id \notin Bridges, b \in named, \A d \in named : d = b
            PROVE <<id, b>> \in memo[q]
        BY <2>1, <3>2 DEF Index
      <3>3. QED
        BY <3>1, <3>2
    <2> DEFINE claimed == {b \in Boards : <<id, b>> \in memo[q]}
    <2> HIDE DEF named
    <2>3. ASSUME id \notin Curated, id \notin Bridges, NEW b \in Boards, named = {b}
          PROVE  claimed = named
      <3>1. \A d \in Boards : <<id, d>> \in memo[q] <=> d = b
        BY <2>2, <2>3
      <3>2. QED
        BY <3>1, <2>3
    <2>4. ASSUME id \notin Curated, ~(id \notin Bridges /\ \E b \in Boards : named = {b})
          PROVE  claimed = {}
      <3>1. ASSUME NEW b \in Boards, <<id, b>> \in memo[q] PROVE FALSE
        <4>1. id \notin Bridges /\ b \in named /\ \A d \in named : d = b
          BY <2>2, <3>1
        <4>2. named = {b}
          BY <4>1
        <4>3. QED
          BY <4>1, <4>2, <2>4
      <3>2. QED
        BY <3>1
    <2>5. Identify(id, memo[q]) = IF id \in Curated THEN {"curated"} ELSE claimed
      BY DEF Identify
    <2> HIDE DEF claimed
    <2>6. Identify(id, memo[q]) =
            IF id \in Curated THEN {"curated"}
            ELSE IF id \notin Bridges /\ \E b \in Boards : named = {b} THEN named ELSE {}
      BY <2>3, <2>4, <2>5
    <2>7. QED
      BY <2>6 DEF named
  <1>2. QED
    BY Inductive, <1>1, PTL
=============================================================================
