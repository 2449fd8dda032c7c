----------------------------- MODULE BoardIndex -----------------------------
(***************************************************************************)
(* USB board detection (tools/boards.rs): the curated BOARD_MAP, then an   *)
(* index of the manifests of the installed PlatformIO platforms, cached in *)
(* board_hwids_cache.json under a signature of modification times.  Each   *)
(* nff process resolves the index once, while pio installs, upgrades or    *)
(* removes platforms.                                                      *)
(***************************************************************************)
EXTENDS Naturals

CONSTANTS Procs,      \* nff processes
          Platforms,
          Ids, Boards,
          Manifests,  \* what the boards/ of a platform may claim: sets of <<id, board>>
          Curated,    \* the ids of BOARD_MAP
          Bridges,    \* the ids of BRIDGE_VIDS
          TTL,
          MaxTime, MaxChanges, \* bounds: of the clock, of the changes to the platforms
          None, Torn

ASSUME ManifestsAssumption == Manifests \subseteq SUBSET (Ids \X Boards)
ASSUME TimesAssumption == {TTL, MaxTime, MaxChanges} \subseteq Nat

VARIABLES
  now,       \* the clock: times are as coarse as the file system's
  dirtime,   \* when the platforms directory was modified
  times,     \* when each platform's directory was: None if it is not there
  claims,    \* what the manifests of each platform say
  cache,     \* board_hwids_cache.json
  tmpfile,   \* board_hwids_cache.json.tmp
  pc, sig, left, got,
  memo,      \* INDEX of each process
  want,      \* ghost: all claims when the process began to resolve
  overlap,   \* ghost: they changed since, or the cache it took was masked
  changes,   \* bound: how often the platforms changed
  masked     \* ghost: signatures that stand for more than one state of the manifests

vars == <<now, dirtime, times, claims, cache, tmpfile, pc, sig, left, got, memo, want, overlap, changes, masked>>

Present == {p \in Platforms : times[p] # None}
Signature == <<dirtime, times>>
AllClaims == UNION {claims[p] : p \in Present}
Signatures == Nat \X [Platforms -> Nat \cup {None}]
Caches == [sig : Signatures, built : Nat, index : SUBSET (Ids \X Boards)]

ASSUME NoneAssumption == None \notin Nat \cup Caches \cup Signatures /\ Torn \notin Caches /\ None # Torn

\* build_manifest_index(): an id is kept if it is no bridge's and one board claims it.
Index(C) == {c \in C : c[1] \notin Bridges /\ \A d \in C : d[1] = c[1] => d[2] = c[2]}

\* identify_ids(): the curated map first; "curated" is its board.
Identify(id, index) ==
  IF id \in Curated THEN {"curated"} ELSE {b \in Boards : <<id, b>> \in index}

Init ==
  /\ now = 0 /\ dirtime = 0
  /\ times \in [Platforms -> {None, 0}] /\ claims \in [Platforms -> Manifests \cup {{}}]
  /\ \A p \in Platforms : times[p] = None => claims[p] = {}
  /\ cache = None /\ tmpfile = None
  /\ pc = [q \in Procs |-> "new"]
  /\ sig = [q \in Procs |-> None]
  /\ left = [q \in Procs |-> {}] /\ got = [q \in Procs |-> {}]
  /\ memo = [q \in Procs |-> {}] /\ want = [q \in Procs |-> {}]
  /\ overlap = [q \in Procs |-> FALSE]
  /\ changes = 0 /\ masked = {}

Goto(q, l) == pc' = [pc EXCEPT ![q] = l]

\* resolve_index() returns.
Return(q) == Goto(q, "ready") /\ sig' = [sig EXCEPT ![q] = None]

-----------------------------------------------------------------------------
(* resolve_index().                                                        *)

\* The signature is read before everything else.
Start(q) ==
  /\ pc[q] = "new"
  /\ sig' = [sig EXCEPT ![q] = Signature]
  /\ want' = [want EXCEPT ![q] = AllClaims]
  /\ overlap' = [overlap EXCEPT ![q] = FALSE]
  /\ Goto(q, "lookup")
  /\ UNCHANGED <<now, dirtime, times, claims, cache, tmpfile, left, got, memo, changes, masked>>

\* Fresh for its age alone.
FreshByAge(q) == cache \notin {None, Torn} /\ now - cache.built < TTL

\* A cache that cannot be read, of another signature or too old is not used.
Fresh(q) ==
  /\ cache \notin {None, Torn}
  /\ cache.sig = sig[q]
  /\ now - cache.built < TTL

UseCache(q) ==
  /\ pc[q] = "lookup" /\ Fresh(q)
  /\ memo' = [memo EXCEPT ![q] = cache.index]
  /\ overlap' = [overlap EXCEPT ![q] = @ \/ sig[q] \in masked]
  /\ Return(q)
  /\ UNCHANGED <<now, dirtime, times, claims, cache, tmpfile, left, got, want, changes, masked>>

BeginBuild(q) ==
  /\ pc[q] = "lookup" /\ ~Fresh(q)
  /\ left' = [left EXCEPT ![q] = Present] /\ got' = [got EXCEPT ![q] = {}]
  /\ Goto(q, "build")
  /\ UNCHANGED <<now, dirtime, times, claims, cache, tmpfile, sig, memo, want, overlap, changes, masked>>

\* A manifest that cannot be parsed is taken in instead of skipped.
ReadUnparsed(q) ==
  /\ pc[q] = "build"
  /\ \E p \in left[q] : /\ left' = [left EXCEPT ![q] = @ \ {p}]
                        /\ got' = [got EXCEPT ![q] = @ \cup claims[p] \cup {None}]
  /\ UNCHANGED <<now, dirtime, times, claims, cache, tmpfile, pc, sig, memo, want, overlap, changes, masked>>

\* Platform by platform; one that is gone meanwhile claims nothing.
ReadPlatform(q) ==
  /\ pc[q] = "build"
  /\ \E p \in left[q] : /\ left' = [left EXCEPT ![q] = @ \ {p}]
                        /\ got' = [got EXCEPT ![q] = @ \cup claims[p]]
  /\ UNCHANGED <<now, dirtime, times, claims, cache, tmpfile, pc, sig, memo, want, overlap, changes, masked>>

\* The signature that goes into the cache, read again after the build.
LateSignature(q) ==
  /\ pc[q] = "build" /\ left[q] = {}
  /\ memo' = [memo EXCEPT ![q] = Index(got[q])]
  /\ sig' = [sig EXCEPT ![q] = Signature]
  /\ Goto(q, "save")
  /\ UNCHANGED <<now, dirtime, times, claims, cache, tmpfile, left, got, want, overlap, changes, masked>>

Built(q) ==
  /\ pc[q] = "build" /\ left[q] = {}
  /\ memo' = [memo EXCEPT ![q] = Index(got[q])]
  /\ got' = [got EXCEPT ![q] = {}]
  /\ Goto(q, "save")
  /\ UNCHANGED <<now, dirtime, times, claims, cache, tmpfile, sig, left, want, overlap, changes, masked>>

(* save_cache(): a temporary file of one name for all, then rename.        *)

OpenTmp(q) ==
  /\ pc[q] = "save"
  /\ tmpfile' = Torn
  /\ Goto(q, "write")
  /\ UNCHANGED <<now, dirtime, times, claims, cache, sig, left, got, memo, want, overlap, changes, masked>>

\* The data goes where the file is now: another process may have renamed it.
WriteTmp(q) ==
  LET new == [sig |-> sig[q], built |-> now, index |-> memo[q]] IN
  /\ pc[q] = "write"
  /\ \/ tmpfile = None /\ cache' = new /\ UNCHANGED tmpfile
     \/ tmpfile # None /\ tmpfile' = new /\ UNCHANGED cache
  /\ Goto(q, "rename")
  /\ UNCHANGED <<now, dirtime, times, claims, sig, left, got, memo, want, overlap, changes, masked>>

RenameTmp(q) ==
  /\ pc[q] = "rename"
  /\ IF tmpfile = None THEN UNCHANGED <<cache, tmpfile>> ELSE cache' = tmpfile /\ tmpfile' = None
  /\ Return(q)
  /\ UNCHANGED <<now, dirtime, times, claims, left, got, memo, want, overlap, changes, masked>>

\* No config directory, a full disk, a lock: the index is used all the same.
SaveFails(q) ==
  /\ pc[q] \in {"save", "write", "rename"}
  /\ Return(q)
  /\ UNCHANGED <<now, dirtime, times, claims, cache, tmpfile, left, got, memo, want, overlap, changes, masked>>

\* The process ends, at any point; the next one starts without an index.
Exit(q) ==
  /\ pc[q] # "new"
  /\ Goto(q, "new")
  /\ sig' = [sig EXCEPT ![q] = None]
  /\ left' = [left EXCEPT ![q] = {}] /\ got' = [got EXCEPT ![q] = {}]
  /\ memo' = [memo EXCEPT ![q] = {}] /\ want' = [want EXCEPT ![q] = {}]
  /\ overlap' = [overlap EXCEPT ![q] = FALSE]
  /\ UNCHANGED <<now, dirtime, times, claims, cache, tmpfile, changes, masked>>

Resolve(q) == Start(q) \/ UseCache(q) \/ BeginBuild(q) \/ ReadPlatform(q) \/ Built(q)
Save(q) == OpenTmp(q) \/ WriteTmp(q) \/ RenameTmp(q) \/ SaveFails(q)

-----------------------------------------------------------------------------
(* What pio and the user do to ~/.platformio/platforms meanwhile.          *)

\* Signatures somebody has written down.
Recorded == {sig[q] : q \in Procs} \cup {f.sig : f \in {cache, tmpfile} \ {None, Torn}}

Changed ==
  /\ masked' = IF Signature' \in Recorded THEN masked \cup {Signature'} ELSE masked
  /\ overlap' = [q \in Procs |-> overlap[q] \/ pc[q] \in {"lookup", "build"}]
  /\ changes < MaxChanges /\ changes' = changes + 1
  /\ UNCHANGED <<now, cache, tmpfile, pc, sig, left, got, memo, want>>

\* A platform's directory appears with its manifests (renamed into place) or empty, or
\* is replaced by another version.
Install(p) ==
  /\ dirtime' = now /\ times' = [times EXCEPT ![p] = now]
  /\ \E m \in Manifests \cup {{}} : claims' = [claims EXCEPT ![p] = m]
  /\ Changed

\* A manifest is written under boards/, two levels down: no time the signature looks
\* at changes.
Fill(p) ==
  /\ p \in Present
  /\ \E m \in Manifests : m # claims[p] /\ claims' = [claims EXCEPT ![p] = m]
  /\ UNCHANGED <<dirtime, times>>
  /\ Changed

Remove(p) ==
  /\ p \in Present
  /\ dirtime' = now /\ times' = [times EXCEPT ![p] = None]
  /\ claims' = [claims EXCEPT ![p] = {}]
  /\ Changed

Tick ==
  /\ now < MaxTime /\ now' = now + 1
  /\ UNCHANGED <<dirtime, times, claims, cache, tmpfile, pc, sig, left, got, memo, want, overlap, changes, masked>>

Next ==
  \/ \E q \in Procs : Resolve(q) \/ Save(q) \/ Exit(q)
  \/ \E p \in Platforms : Install(p) \/ Fill(p) \/ Remove(p)
  \/ Tick

Spec == Init /\ [][Next]_vars

-----------------------------------------------------------------------------
\* The variables have their types.
TypeOK ==
  /\ now \in Nat /\ dirtime \in Nat /\ times \in [Platforms -> Nat \cup {None}]
  /\ claims \in [Platforms -> SUBSET (Ids \X Boards)]
  /\ {cache, tmpfile} \subseteq Caches \cup {None, Torn}
  /\ pc \in [Procs -> {"new", "lookup", "build", "save", "write", "rename", "ready"}]
  /\ sig \in [Procs -> Signatures \cup {None}]
  /\ left \in [Procs -> SUBSET Platforms]
  /\ got \in [Procs -> SUBSET (Ids \X Boards)]
  /\ memo \in [Procs -> SUBSET (Ids \X Boards)] /\ want \in [Procs -> SUBSET (Ids \X Boards)]
  /\ overlap \in [Procs -> BOOLEAN] /\ masked \subseteq Signatures
  /\ changes \in 0..MaxChanges

\* The cache promises that its signature catches what pio does: one that carries today's
\* signature holds today's index, whoever wrote it and however the writers interleaved,
\* unless the manifests changed under that very signature.
CacheIsCurrent ==
  cache \notin {None, Torn} /\ cache.sig = Signature /\ Signature \notin masked
    => cache.index = Index(AllClaims)

\* Layer A "always wins", Layer B "only ever adds unambiguous native-USB boards": a
\* process whose index no change overlapped names for each device the curated board, or
\* the one board that all installed manifests claim it for, or none.
NamesAreUnambiguous ==
  \A q \in Procs, id \in Ids : pc[q] = "ready" /\ ~overlap[q] =>
    Identify(id, memo[q]) =
      IF id \in Curated THEN {"curated"}
      ELSE LET named == {b \in Boards : <<id, b>> \in want[q]} IN
           IF id \notin Bridges /\ \E b \in Boards : named = {b} THEN named ELSE {}
=============================================================================
