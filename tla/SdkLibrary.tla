----------------------------- MODULE SdkLibrary -----------------------------
(***************************************************************************)
(* The nff device library: install_nff_library_to() flattens nff-sdk-c, a  *)
(* local checkout or a downloaded archive, into the Arduino sketchbook     *)
(* (`nff init`, every time) or into lib/nff of a scratch project (a flash, *)
(* unless library.properties is there already).  Tasks run at once: tool   *)
(* calls are threads of one server and share its temporary directory,      *)
(* commands are processes.  local_sdk_newer_than_synced() warns of edits.  *)
(***************************************************************************)
EXTENDS Naturals

CONSTANTS Calls,       \* flashes asked of the MCP server, threads of one process
          Commands,    \* `nff flash`, a process each
          Syncs,       \* `nff init`: the resync of the sketchbook, a process each
          Projects,    \* scratch projects: each has a lib/nff
          Sketchbook,
          Files,       \* the sources of the library
          Required,    \* the headers and the port flatten_sdk() insists on
          Versions,    \* of a file
          Absent, Torn,
          Archives,    \* the trees the upstream branch has pointed to
          None, Server

Tasks  == Calls \cup Commands \cup Syncs
Procs  == Commands \cup Syncs \cup {Server}
Dests  == Projects \cup {Sketchbook}
Trees  == [Files -> Versions \cup {Absent, Torn}]
NoTree == [f \in Files |-> Absent]
Whole(tree) == \A f \in Required : tree[f] \notin {Absent, Torn}

ASSUME RequiredAssumption == Required \subseteq Files
ASSUME ArchivesAssumption == Archives \subseteq Trees
ASSUME NamesAssumption ==
  /\ Absent # Torn /\ Absent \notin Versions /\ Torn \notin Versions
  /\ None \notin Trees \cup Dests /\ Sketchbook \notin Projects
  /\ Server \notin Tasks /\ Calls \cap (Commands \cup Syncs) = {}
  /\ Syncs \cap (Calls \cup Commands) = {}

VARIABLES
  lib,        \* the sources in each destination
  props,      \* its library.properties, complete or not, as the tree it came from, or None
  tmp,        \* the temporary directory nff_sdk_<pid> of each process
  local,      \* the developer's checkout
  edited,     \* a file of it is newer than the sketchbook's .nff_sync_meta
  pc, dest, src,
  todo,       \* the files the task has still to copy
  meta,       \* .nff_sync_meta of the sketchbook: "none", or what it vouches for (ghost)
  disturbed,  \* ghost: what the task reads or writes was changed by another
  suspect     \* ghost: the destinations a disturbed task finished or an overwrite hit

vars == <<lib, props, tmp, local, edited, pc, dest, src, todo, meta, disturbed, suspect>>

Proc(t)   == IF t \in Calls THEN Server ELSE t
Source(t) == IF src[t] = "local" THEN local ELSE tmp[Proc(t)]

Copying(t)   == pc[t] \in {"copy", "props"}
Unpacked(t)  == src[t] = "archive" /\ pc[t] \in {"check", "copy", "props", "meta"}
UsesLocal(t) == src[t] = "local" /\ pc[t] \in {"copy", "props", "meta"}

Goto(t, l) == pc' = [pc EXCEPT ![t] = l]
Disturb(S) == disturbed' = [t \in Tasks |-> disturbed[t] \/ t \in S]

Init ==
  /\ lib = [d \in Dests |-> NoTree] /\ props = [d \in Dests |-> None]
  /\ tmp = [p \in Procs |-> NoTree]
  /\ local \in {tree \in Archives : Whole(tree)} /\ edited = FALSE
  /\ pc = [t \in Tasks |-> "new"]
  /\ dest = [t \in Tasks |-> Sketchbook] /\ src = [t \in Tasks |-> "archive"]
  /\ todo = [t \in Tasks |-> {}]
  /\ meta = "none"
  /\ disturbed = [t \in Tasks |-> FALSE] /\ suspect = {}

-----------------------------------------------------------------------------
(* materialize_nff_lib() and install_nff_library().                        *)

\* The warning: there is a marker, and a newer source.
Warns == meta # "none" /\ edited

\* A flash finds library.properties in the project and builds with what is there.
Present(t) ==
  /\ pc[t] = "new" /\ t \notin Syncs
  /\ \E d \in Projects : props[d] # None
  /\ Goto(t, "done")
  /\ UNCHANGED <<lib, props, tmp, local, edited, dest, src, todo, meta, disturbed, suspect>>

\* Otherwise it installs from the checkout, if it sees one, or from the archive.
Start(t) ==
  /\ pc[t] = "new"
  /\ \E d \in IF t \in Syncs THEN {Sketchbook} ELSE {p \in Projects : props[p] = None},
        s \in {"local", "archive"} :
       /\ dest' = [dest EXCEPT ![t] = d]
       /\ src' = [src EXCEPT ![t] = s]
       /\ Goto(t, IF s = "local" THEN "check" ELSE "unpack")
  /\ UNCHANGED <<lib, props, tmp, local, edited, todo, meta, disturbed, suspect>>

-----------------------------------------------------------------------------
(* install_nff_library_to(): the download.                                 *)

\* Unpacking lays the archive over what the directory holds already.
Over(tree, old) == [f \in Files |-> IF tree[f] = Absent THEN old[f] ELSE tree[f]]

Unpack(t) ==
  /\ pc[t] = "unpack"
  /\ \E tree \in Archives : tmp' = [tmp EXCEPT ![Proc(t)] = Over(tree, @)]
  /\ Disturb({u \in Tasks : Unpacked(u) /\ Proc(u) = Proc(t)}
             \cup IF tmp[Proc(t)] = NoTree THEN {} ELSE {t})
  /\ Goto(t, "check")
  /\ UNCHANGED <<lib, props, local, edited, dest, src, todo, meta, suspect>>

\* No network, or a disk that is full: what was unpacked stays.
UnpackFails(t) ==
  /\ pc[t] = "unpack"
  /\ \E tree \in Archives, S \in SUBSET Files :
       tmp' = [tmp EXCEPT ![Proc(t)] =
                 [f \in Files |-> IF f \in S /\ tree[f] # Absent THEN Torn ELSE @[f]]]
  /\ Disturb({u \in Tasks : Unpacked(u) /\ Proc(u) = Proc(t)})
  /\ Goto(t, "done")
  /\ UNCHANGED <<lib, props, local, edited, dest, src, todo, meta, suspect>>

-----------------------------------------------------------------------------
(* flatten_sdk().                                                          *)

Missing(t) == \E f \in Required : Source(t)[f] = Absent

\* A tree that lacks a required file is refused before anything is changed.
Refuse(t) ==
  /\ pc[t] = "check" /\ Missing(t)
  /\ Goto(t, "done")
  /\ UNCHANGED <<lib, props, tmp, local, edited, dest, src, todo, meta, disturbed, suspect>>

\* The old sources stay.
KeepOld(t) ==
  /\ pc[t] = "check" /\ ~Missing(t)
  /\ todo' = [todo EXCEPT ![t] = Files]
  /\ suspect' = IF props[dest[t]] = None THEN suspect \ {dest[t]} ELSE suspect \cup {dest[t]}
  /\ Goto(t, "copy")
  /\ UNCHANGED <<lib, props, tmp, local, edited, dest, src, meta, disturbed>>

\* library.properties is copied with the headers.
PropsFirst(t) ==
  /\ pc[t] = "check" /\ ~Missing(t)
  /\ lib' = [lib EXCEPT ![dest[t]] = NoTree]
  /\ props' = [props EXCEPT ![dest[t]] = Source(t)]
  /\ todo' = [todo EXCEPT ![t] = Files]
  /\ suspect' = IF props[dest[t]] = None THEN suspect \ {dest[t]} ELSE suspect \cup {dest[t]}
  /\ Goto(t, "copy")
  /\ UNCHANGED <<tmp, local, edited, dest, src, meta, disturbed>>

\* A sync that takes an old library.properties for a whole library, as a flash does.
SkipPresent(t) ==
  /\ pc[t] = "check" /\ ~Missing(t)
  /\ Goto(t, IF props[dest[t]] = None THEN "copy" ELSE "meta")
  /\ lib' = IF props[dest[t]] = None THEN [lib EXCEPT ![dest[t]] = NoTree] ELSE lib
  /\ todo' = [todo EXCEPT ![t] = Files]
  /\ UNCHANGED <<props, tmp, local, edited, dest, src, meta, disturbed, suspect>>

\* The old src/ is removed; library.properties is not.
Wipe(t) ==
  LET d == dest[t]
      others == {u \in Tasks \ {t} : dest[u] = d}
      mixed == (\E u \in others : Copying(u)) \/ \E f \in Files : Source(t)[f] = Torn
  IN
  /\ pc[t] = "check" /\ ~Missing(t)
  /\ lib' = [lib EXCEPT ![d] = NoTree]
  /\ todo' = [todo EXCEPT ![t] = Files]
  /\ meta' = IF d = Sketchbook /\ meta # "none" THEN "other" ELSE meta
  /\ suspect' = IF props[d] = None THEN suspect \ {d} ELSE suspect \cup {d}
  /\ Disturb({u \in others : Copying(u) \/ pc[u] = "meta"} \cup IF mixed THEN {t} ELSE {})
  /\ Goto(t, "copy")
  /\ UNCHANGED <<props, tmp, local, edited, dest, src>>

\* File by file: a source that is not there is not listed.
Copy(t) ==
  /\ pc[t] = "copy"
  /\ \E f \in todo[t] :
       /\ f \in Required => Source(t)[f] # Absent
       /\ todo' = [todo EXCEPT ![t] = @ \ {f}]
       /\ lib' = IF Source(t)[f] = Absent THEN lib
                 ELSE [lib EXCEPT ![dest[t]][f] = Source(t)[f]]
       /\ Goto(t, IF todo[t] = {f} THEN "props" ELSE "copy")
  /\ UNCHANGED <<props, tmp, local, edited, dest, src, meta, disturbed, suspect>>

\* library.properties comes after every source: it is there from the first byte on, and
\* a failure or a crash at "meta" may have cut it short ...
WriteProps(t) ==
  /\ pc[t] = "props"
  /\ props' = [props EXCEPT ![dest[t]] = Source(t)]
  /\ suspect' = IF disturbed[t] THEN suspect \cup {dest[t]} ELSE suspect \ {dest[t]}
  /\ Goto(t, "meta")
  /\ UNCHANGED <<lib, tmp, local, edited, dest, src, todo, meta, disturbed>>

\* ... and the marker last.  The warning reads that of the sketchbook.
WriteMeta(t) ==
  /\ pc[t] = "meta"
  /\ IF dest[t] = Sketchbook
     THEN /\ edited' = FALSE
          /\ meta' = IF src[t] = "local" /\ ~disturbed[t] THEN "local" ELSE "other"
     ELSE UNCHANGED <<edited, meta>>
  /\ Goto(t, IF src[t] = "local" THEN "done" ELSE "remove")
  /\ UNCHANGED <<lib, props, tmp, local, dest, src, todo, disturbed, suspect>>

\* A file that cannot be read or written ends the installation, without tidying up.
CopyFails(t) ==
  /\ pc[t] \in {"copy", "props", "meta"}
  /\ \/ UNCHANGED lib
     \/ pc[t] = "copy" /\ \E f \in todo[t] : lib' = [lib EXCEPT ![dest[t]][f] = Torn]
  /\ Goto(t, "done")
  /\ UNCHANGED <<props, tmp, local, edited, dest, src, todo, meta, disturbed, suspect>>

\* remove_dir_all(&tmp).ok(): a failure leaves files behind, and is not told.
RemoveTmp(t) ==
  /\ pc[t] = "remove"
  /\ \E S \in SUBSET Files :
       tmp' = [tmp EXCEPT ![Proc(t)] = [f \in Files |-> IF f \in S THEN @[f] ELSE Absent]]
  /\ Disturb({u \in Tasks : Unpacked(u) /\ Proc(u) = Proc(t)})
  /\ Goto(t, "done")
  /\ UNCHANGED <<lib, props, local, edited, dest, src, todo, meta, suspect>>

-----------------------------------------------------------------------------
(* What happens around an installation.                                    *)

\* A process ends with all its tasks; a file being copied is torn.  Its successor
\* may get its number, and so its temporary directory.
Crash(p) ==
  LET hit == {t \in Tasks : Proc(t) = p /\ pc[t] \notin {"new", "done"}} IN
  /\ hit # {}
  /\ \E torn \in SUBSET {<<dest[t], f>> : t \in {u \in hit : pc[u] = "copy"}, f \in Files} :
       /\ \A x \in torn : \E t \in hit : pc[t] = "copy" /\ dest[t] = x[1] /\ x[2] \in todo[t]
       /\ lib' = [d \in Dests |-> [f \in Files |-> IF <<d, f>> \in torn THEN Torn ELSE lib[d][f]]]
  /\ tmp' \in {tmp, [tmp EXCEPT ![p] = NoTree]}
  /\ pc' = [t \in Tasks |-> IF t \in hit THEN "done" ELSE pc[t]]
  /\ UNCHANGED <<props, local, edited, dest, src, todo, meta, disturbed, suspect>>

\* `nff clean` removes the scratch projects; a file it cannot remove stays.
Clean(d) ==
  /\ lib[d] # NoTree
  /\ \E S \in SUBSET Files, p \in {props[d], None} :
       /\ lib' = [lib EXCEPT ![d] = [f \in Files |-> IF f \in S THEN @[f] ELSE Absent]]
       /\ props' = [props EXCEPT ![d] = p]
       /\ suspect' = IF p = None THEN suspect \ {d} ELSE suspect \cup {d}
  /\ Disturb({t \in Tasks : dest[t] = d /\ Copying(t)})
  /\ UNCHANGED <<tmp, local, edited, pc, dest, src, todo, meta>>

\* The developer changes a source, or removes one.
EditLocal ==
  /\ \E f \in Files, v \in Versions : v # local[f] /\ local' = [local EXCEPT ![f] = v]
  /\ edited' = TRUE
  /\ Disturb({t \in Tasks : UsesLocal(t)})
  /\ UNCHANGED <<lib, props, tmp, pc, dest, src, todo, meta, suspect>>

RemoveLocal ==
  /\ \E f \in Files \ Required : local[f] # Absent /\ local' = [local EXCEPT ![f] = Absent]
  /\ Disturb({t \in Tasks : UsesLocal(t)})
  /\ UNCHANGED <<lib, props, tmp, edited, pc, dest, src, todo, meta, suspect>>

-----------------------------------------------------------------------------
Flatten(t) == Refuse(t) \/ Wipe(t) \/ Copy(t) \/ WriteProps(t) \/ WriteMeta(t) \/ CopyFails(t)

Next ==
  \/ \E t \in Tasks : \/ Present(t) \/ Start(t)
                      \/ Unpack(t) \/ UnpackFails(t) \/ RemoveTmp(t)
                      \/ Flatten(t)
  \/ \E p \in Procs : Crash(p)
  \/ \E d \in Projects : Clean(d)
  \/ EditLocal \/ RemoveLocal

Spec == Init /\ [][Next]_vars

-----------------------------------------------------------------------------
\* The variables have their types.
TypeOK ==
  /\ lib \in [Dests -> Trees] /\ props \in [Dests -> Trees \cup {None}]
  /\ tmp \in [Procs -> Trees] /\ local \in Trees /\ edited \in BOOLEAN
  /\ pc \in [Tasks -> {"new", "unpack", "check", "copy", "props", "meta", "remove", "done"}]
  /\ dest \in [Tasks -> Dests] /\ src \in [Tasks -> {"local", "archive"}]
  /\ todo \in [Tasks -> SUBSET Files]
  /\ meta \in {"none", "local", "other"}
  /\ disturbed \in [Tasks -> BOOLEAN]
  /\ suspect \in SUBSET Dests

\* materialize_nff_lib() takes the existence of library.properties for the proof that a
\* whole library is there.  It is, in spite of failed downloads and copies, crashes and
\* restarts, of a first installation, and again once an undisturbed one has gone over the
\* old: library.properties stands beside every source of the tree it came from, and no
\* other.  Suspect, and so excepted, is a destination whose overwriting is under way or was
\* cut short, which was partly cleaned, or whose last installer shared the destination, its
\* temporary directory (or what an earlier one had left there), or a checkout being edited.
PropsMeanWhole ==
  \A d \in Dests \ suspect : props[d] # None => Whole(props[d]) /\ lib[d] = props[d]

\* The footgun local_sdk_newer_than_synced() is for: after an undisturbed sync of the
\* sketchbook from the checkout, a source that differs from the copy there is warned
\* about, whatever else was installed, refused or broken off in between.
EditIsNoticed ==
  meta = "local" => \/ Warns
                    \/ \A f \in Files : local[f] \in {Absent, lib[Sketchbook][f]}
=============================================================================
