# A TLA+ model of nff

nff lets a language model work on a microcontroller: it compiles and flashes sketches,
reads the serial port, debugs on the chip and asks a server for a diagnosis. The program
is one Rust crate, `src/nff-rs/nff/src/`, run as a command line tool and as an MCP server;
the Python package `src/nff/` is the twin it was ported from.

This directory holds TLA+ modules of the parts of the crate whose difficulty is in the
order of events, TLC configurations that check them on small instances, and proofs, checked
by TLAPS, of their safety properties for every value of the constants. `PROJECT.json` says
for each definition which lines of the code it stands for, lists the hazards of the code
with the properties that cover them, and for each property a change of the code that the
property notices.

In what follows `crate/` is `src/nff-rs/nff/src/`; a path such as `nff/tools/debug.py` is
under `src/`.


## 1. The system

### Components

| component | state | operations | where |
|---|---|---|---|
| **Config store** | `~/.nff/config.json` (device, diagnosis, mcp, build sections), `config.json.tmp` | `load`, `save`, one setter per section | `crate/tools/config.rs` |
| **Debug session** | a slot (mutex) in the server with at most one session; a session owns an OpenOCD and a GDB process | `debug_start`, `debug_stop`, `Drop` | `crate/mcp_server.rs`, `crate/tools/debug.rs` |
| **GDB/MI channel** | GDB's stdin and stdout, the `halted` flag | `exec`, `result`, `require_halted`, one method per debug tool | `crate/tools/debug.rs` |
| **OAuth proxy** | browser sessions, unspent codes (memory), the token pair (config) | `/oauth/authorize`, `/oauth/callback`, `/oauth/token` | `crate/mcp_server.rs` |
| **Flash pipeline, compile** | the scratch project of a sketch name (`src/`, `platformio.ini`), pio processes, the board | `nff flash`, `nff compile`, the `flash` and `compile` tools, retry classification, package repair | `crate/tools/{pio,toolchain,retry}.rs`, `crate/commands/{flash,compile}.rs` |
| **Diagnosis login and repair** | the diagnosis tokens (config), the listener of a login that waits | `authenticate`, `complete_authentication`, `repair`, `nff auth` | `crate/mcp_server.rs`, `crate/tools/auth.rs`, `crate/commands/{auth,repair}.rs` |
| **Background server** | the server process, its port, the configured device | `nff init`, `nff mcp` | `crate/tools/daemon.rs`, `crate/commands/{init,mcp}.rs` |
| **Board detection** | an index per process, its cache on disk, the installed platforms | `list_devices`, `resolve_index`, `save_cache` | `crate/tools/boards.rs` |
| **SDK library** | `lib/nff` of each scratch project, the library of the sketchbook and its marker, a temporary directory per process | install, resync, warn, `nff clean` | `crate/tools/{arduino_lib,pio}.rs`, `crate/commands/clean.rs` |
| **Serial tools** | a port, open for one call | `serial_read`, `serial_write`, `reset_device`, monitor | `crate/tools/serial.rs`, `crate/commands/monitor.rs` |
| **Cloud agent client** | one SSE stream | `nff agent` | `crate/commands/agent.rs` |
| **Pi probe, provisioning, OTA, installers, doctor, command line** | none that interacts | one call each | `crate/tools/{pi,installer}.rs`, `crate/commands/*.rs`, `crate/{cli,main}.rs` |

### How they interact

- Every component that stores something stores it in the one config file. The MCP server's
  tool calls and OAuth handlers run on several threads, and each CLI command is a process of
  its own; nothing locks the file.
- The debug tools share the slot's mutex; a tool holds it for as long as it talks to GDB.
- A flash started by `nff flash` and one started by a tool call meet in the scratch project
  under the temporary directory when their sketches have the same name.
- The OAuth proxy hands out tokens of its own and reads whether the user has diagnosis
  tokens; login, repair and logout change the latter in the same file.
- A flash that finds no library in its scratch project installs one. Tool calls that do so at
  once share the temporary directory of the server process; `nff clean` removes the scratch
  projects under all of them, and `nff init` resyncs the sketchbook from the same sources.
- Uploads, serial tools, the monitor and programs other than nff want one serial port, which
  is opened for one of them at a time.
- `nff init` and `nff mcp` meet at TCP port 3010, and processes that detect boards at
  `board_hwids_cache.json` and its temporary file.
- The session of the debugger and the OpenOCD processes of other sessions, even of an
  earlier server, meet at TCP port 3333.

### What is hard, and what correct means

| component | hard | correct |
|---|---|---|
| Config store | no lock; a shared temporary name; crashes between create, write and rename; full disk | the file is a register whose sections are replaced one at a time and atomically, as long as setters do not overlap; it stays readable unless two savers collide |
| Debug session | a start opens before it locks; the old session is dropped under the lock; destructors that a killed server never runs; a probe that only asks whether *someone* listens | no process is left without an owner; the stored session talks to its own OpenOCD; no call is stuck but behind a GDB that does not answer |
| GDB/MI channel | answers are paired with commands by counting prompts, and stops print prompts too; timeouts leave answers behind; GDB may die, and its end of file looks like an answer; `halted` is a guess | how far behind a session is can be explained by stops and timeouts; a stale answer is at most that old; a death is taken for an answer once |
| OAuth proxy | callbacks and redemptions repeated; restarts; read, then act on a shared file | one answer per login; a rotated token does not come back; an answer never has an older refresh token than its access token |
| Flash pipeline | failures, retries, timeouts and signals at each stage; shared scratch files; processes that outlive pio | success means that the job's own build is on its board; a tool call ends, short of pipes that stay open |
| Diagnosis login and repair | tokens read long before they are written; rotation at the server; a browser that answers late | tokens that are good are not thrown away, and not lost in a crash if that can be avoided |
| Background server | check, spawn, poll and bind, each of which another process can overtake | a user who was told of a server has one until it is ended; one server serves; an init that looks for a server ends and no spawned process lingers |
| Board detection | a signature read before the build and checked against times that do not see every change; one temporary file for all | a cache with today's signature is today's index; no board is named that another manifest claims too |
| SDK library | a tree copied file by file under the very file that vouches for it; a temporary directory shared by threads and left behind by errors | `library.properties` means a whole library of one version; an edit that is not installed is warned about |
| Serial tools | retries of operations that were half done; a port that is held, gone or reset | a message is handled once at most, and never if the tool answers ERROR (OK says only that the port took it); what is left of a failed write spoils one line; a reading has no gaps; every call ends |


## 2. The modules

| module | models | abstract specification |
|---|---|---|
| `ConfigRegister` | what the config file promises | – |
| `ConfigStore`, `MCConfigStore` | `load`, `save` and the setters | `ConfigRegister` |
| `DebugSlot` | the debug session's life | – |
| `GdbChannel` | one session's conversation with GDB | – |
| `TokenService` | what the OAuth proxy promises its clients | – |
| `OAuthProxy`, `MCOAuthProxy` | the OAuth proxy over the config file | `TokenService` |
| `DiagnosisAuth`, `MCDiagnosisAuth` | login, repair and logout against the diagnosis server | – |
| `Flashing` | what a flash promises of the device | – |
| `FlashPipeline` | compile and upload over PlatformIO | `Flashing` |
| `SdkLibrary`, `MCSdkLibrary` | installing the device library | – |
| `BoardIndex`, `MCBoardIndex` | the index of board manifests and its cache | – |
| `OneServer` | what is promised of the background server | – |
| `InitDaemon` | `nff init`, `nff mcp` and the server's port | `OneServer` |
| `Delivery` | what `serial_write` promises its caller | – |
| `SerialPort` | the serial tools and the monitor | `Delivery` |
| `ServerProofs` | theorems and proofs about `OAuthProxy` and `InitDaemon`, the server's two halves | – |
| `DebugProofs` | theorems and proofs about `GdbChannel` and `DebugSlot` | – |
| other `*Proofs` | theorems and proofs about the module they are named for | – |

Each module has one action per step of the code that another thread, process or a crash can
fall between. Definitions that no next-state relation uses, such as `OpenInPlace` or
`RetryForever`, are the changed forms of actions that `PROJECT.json` names under `mutants`:
each is a plausible slip, and the property named beside it finds it.

Variables marked *ghost* are read by no action of the program. They record history that a
property needs for its condition or its bound.

### ConfigStore

Files are seen as the kernel sees them. `cfg` and `tmp` are what the names `config.json` and
`config.json.tmp` point to, `data` is what each file holds, `fd` is what a saver has open: a
rename moves a name and leaves descriptors where they are. `load()` is one step: it reads a
file that has been renamed into place. (A file being overwritten in place *can* be read half
way, but then its content, `Empty` or `Torn`, is a state of the model and a load between two
writes finds it.) `fs::write` is two steps, `OpenTmp` (create or truncate) and `WriteTmp`
(text at offset 0 of the descriptor's file), so a second saver can come between them;
`WriteFails` is a full disk and `Crash` the end of the process at any point. A text written
over another one is either the new text or, if it is shorter, the new text with the old
one's tail, `Torn`. A setter whose load fails returns the error (`LoadFails`).

The contents of sections are a parameter. What serde does with missing fields, and
`normalize_backend`, concern single values and are left out.

### DebugSlot

`Calls` are tool calls; each becomes a `debug_start`, a `debug_stop` or a tool that uses the
session (`UseSession` to `ToolReturns`, or `NoSession`: `with_session` and
`get_session_info`). A session, its
OpenOCD and its GDB bear the name of the call that opened them. `SpawnOpenocd` to
`HandshakeFails` are the steps of `open_session` and `DebugSession::start`; `Store`,
`Replace`, `Take`, `DropGdb` and `DropOcd` the two tools' use of the slot. `lock` is the slot's
mutex. It is held while a tool talks to GDB, and while a replaced or taken session is
dropped, because the value dropped is a temporary of the statement that locks. The steps that
end only when GDB answers or dies are kept apart (`AskGdb`: the handshake, a tool's commands,
the `-gdb-exit` of a drop) from those the server takes by itself (`OwnStep`). `ServerAnswers` is the code's probe: *some* OpenOCD
accepts on port 3333. Only one process can listen there; an OpenOCD that finds the port
or the probe taken exits (`OcdGivesUp`). `Restart` ends the server without destructors: GDB ends
with its stdin, OpenOCD does not, and stays as one of `orphans`.

An OpenOCD that serves does not end by itself, and a poisoned mutex is not modelled. The
names every specification has are prefixed here (`SlotInit`, `SlotNext`, `SlotTypeOK`), as in
`InitDaemon` (`DaemonInit`, ...), so that a module of proofs can extend this one and another.

### GdbChannel

What GDB prints is a sequence of blocks, each ended by a prompt: one per command, bearing the
command's number, and one per stop of the target, 0. `exec()` is `Send`, `ReadRecord`,
`ReadPrompt` (or `Expire`). The tools are programs, `Programs`: which commands they send
and where they set or clear `halted`. A target that runs does not answer at once, so
`GdbAnswers` can be arbitrarily late. `pause` sets the flag when its command has been
answered, which may be before the target has stopped.

The deadline of `exec()` is looked at between lines: `Expire` is enabled only when GDB has
printed something. (Against the constant's name and the error's text, `debug.rs:26` and `:772`,
a GDB that prints nothing is waited for without limit; `ExecReturns` therefore excepts a GDB
that is silent because its target runs, and nothing obliges it to answer then.) `GdbDies` is possible at any point. What GDB had printed can still be
read; then the end of the output ends the `exec()` in progress as if it were an answer
(`ReadEof`), and the tool goes on: `pause` sets the flag, `continue` clears it. The next
command cannot be written (`WriteFails`). The text of the records, which `MiParser` and the
`shape_` functions turn into JSON, is reduced to which command a record answers.

### OAuthProxy

`Reqs` are HTTP requests and other writers of the config; each is used once, and
repetition is another request. A token pair is the number of its mint, so newer is greater. A
setter is a load (`Mint`, `Callback`, `LoadOther`, `LoadMcp`) and a save (`SaveMint`,
`SaveDiag`, `SaveOther` or `ClearDiag`, `ClearMcp`) with anything in between; a save that fails
is ignored by the handlers, and so it is here. `auth_clear` is two setters, one after the
other: `ClearDiag` and, even if that failed, `LoadMcp` and `ClearMcp`, which removes the stored
pair. The ghosts: `stale` are the setters whose load another save has made old, `newest` is the
latest pair stored so far, `overlapped` says that a stale setter saved, `cleared` that
`auth_clear` has removed the pair, `failed` that the file could not be read or written. The save is atomic in this module: that `save` behaves like that, short of a
collision of two savers, is what `ConfigStore` shows. `auth_codes` is locked across a mint
(`LockCodes` to `SaveMint`) because the insertion's argument is computed under the guard. `Reply` reads the refresh
token from the config at the time of the answer, and answers with none if the read fails.

`TokenService` has no sessions, codes, requests or restarts: the stored pair is replaced by
one newer than all before it (`Rotate`) or removed (`Clear`), each in one step, and an answer
gives an access token nobody was given before, not newer than the newest pair, with the refresh
token that is stored, none if there is none, and answers a login that has had no answer
(`Answer`). So a code that is redeemed after `auth_clear` is answered with an access token and
no refresh token, as in the code. After setters have overlapped, or a read or a save
has failed, only that no access token is given twice and no login answered twice is promised
(`Disorder`): not that the refresh token is the stored one, nor that pairs get newer. `ImplementsTokens` takes for `stored` the pair in the
config, for `answers` the replies without the requests that made them, and for `disordered`
the ghosts `overlapped` and `failed`. Two refreshes with one token that both pass the
comparison before either has stored its pair are both answered, each with a pair of its own:
the code holds no lock over both steps, and the specification does not forbid it. An answer to a refresh must carry a new access token;
`TokenRefreshReuses` is the form in which it does not.

Left out: the constant `.well-known` and `register` routes, and `bearer_auth`, which reads
the config and changes nothing. Codes do not expire in the code, so they do not here.

### DiagnosisAuth

`Ops` are tool calls and commands, each used once; `CliOps` are those with a process of
their own, which can end alone (`Crash`), while `Restart` ends all the others and drops
`pending_auth`. A token pair is the number of its issue. An operation reads the config when
it starts (`StartCall`, `StartLogout`) and writes it when the server has answered, seconds
or minutes later; what happens in between is the module's subject. A setter by itself is
one step, which may fail: how it can go wrong is `ConfigStore`'s subject.

*Login.* `Authenticate` puts a listener in the slot, closing the one it finds there, and
`CompleteAuthentication` takes it out and waits, as `WaitForLogin` does in the same call.
After `WaitTimesOut` the thread that accepts is still there: it answers the browser, and
the tokens go nowhere. `DirectLogin` is a login by email and password. `OAuthCallback` is the
OAuth proxy's, which stores what the URL carries before it looks at the session: a fresh pair,
one whose refresh token is missing (the server takes none for it), or the pair of an earlier
URL (`urls`) that is opened again. If the server would not take the stored pair any more when
it was saved from such a URL, the ghost `stale` says so.

*Repair.* `Call` needs no guard: the code looks for "401" in the text of the error, so more
than a refusal can lead to the refresh. The call repeated after a refresh changes nothing
here and is part of `KeepRefreshed`. `nff agent` follows the same path; a CLI repair
without tokens is a login and then a repair.

*The server* is external. It may or may not spend a refresh token when it is used, and may
end a session at any time (`EndSession`). The ghost `crossed` says that an operation wrote
over a pair other than the one it had read: two repairs that refresh at the same time, of
which the loser clears the winner's pair, are the plainest case. `lost` says that a refresh
was not answered, or its pair not saved. Nothing in the code prevents either; the
module shows that without them, and short of a `stale` pair, no repair takes good tokens from
the user.

### FlashPipeline

All `Jobs` have sketches of one name, the only case in which they meet. `main`, `tabs` and `ini` are
whose code is `src/main.cpp`, whose other files are in `src/`, and whose board
`platformio.ini` names. `upto` is the last stage of a job: `nff compile` and the compile tool
stop after the first, on the same scratch project and with the timed runner. `WriteMain` and
`WipeSources`/`CopySources` are the two ways of
`resolve_project`; `WriteIni`, `Spawn` and the exits are one attempt of a stage. What a pio
run reads of the project is what `Spawn` records in `build`; two pio processes at once in one
project share its build directory, and both jobs count as `disturbed`. What a failed pio has
printed is a set of signs, and `Transient` is `is_transient`. A sign of a broken package sends
the job through `Recover`, which uninstalls the platform before the next attempt. CLI jobs
stream: no time limit, `platformio.ini` rewritten before each attempt, a missing exit code
taken for 0. The other jobs are timed: `TimesOut` kills pio, `Drained` is the end of its
pipes. What pio has started holds them too, and the kill does not reach it, so the wait has no
limit; nor has the wait of a job whose pio has ended by itself while something still holds the
pipes (`PioExits`), nor the package repair (`Recover`). `WipeSources` may leave any of the old
files, since errors of the removal are ignored; the job is then `disturbed`. `alive` are the jobs of which a process is running, perhaps without anybody waiting
(`OrphanEnds`).

The property is conditional on `killed` for a reason. `run_stream_attempt`
(`toolchain.rs:489`) takes the missing exit code of a pio that a signal ended for 0, so an
interrupted upload of `nff flash` is reported complete; its Python twin and `run_timed` take
it for a failure.

`Flashing` knows only what was asked of a job, what its device holds and what it has said. An
upload erases the device, and the answer OK and the job's own build come in one step; a
compile never touches the device; after an answer it is written to only by an aborted job's
pio, or if the job is excused (disturbed or killed), and only then with a foreign build.
`ImplementsFlashing` maps a device to "old", "part", "own" or "foreign" by the build on it.
Every step of the project's preparation, every retry, repair and timeout is a stutter or an
erasure. That an ERROR is also the end of the writing depends on `run_timed` waiting for the
pipes after it has killed pio (`TimesOutAtOnce` is the form without it).

Left out: the arduino-cli backend, projects that bring their own `platformio.ini`, and which
of several files of a kind discovery names.

### SdkLibrary

A *tree* says of each source which version it has, or that it is absent or torn. `Dests` are
the scratch projects' `lib/nff` and the sketchbook. `library.properties` is kept apart from
the other sources, in `props`, because the flash takes it for the proof that the library is
there; its value is the tree it was copied with. `Start` to `RemoveTmp` are
`install_nff_library_to`, `Wipe` to `WriteMeta` are `flatten_sdk` in its order: refuse a tree
that lacks something, remove `src/`, copy file by file, then `library.properties`, then the
marker. Threads of the server (`Calls`) share the temporary directory `nff_sdk_<pid>`;
commands and resyncs have one each. It may hold what an earlier error left (`Over`), and
`RemoveTmp` and `Clean` may remove a part, since their errors are ignored.

Ghosts: `disturbed` are the tasks whose source or destination another one changed under
them, or that began over leftovers, and `suspect` the destinations such a task completed,
where an installation began over a `library.properties` that was there and has not ended, or
where a clean left the `library.properties`. The model thus says precisely what
the code relies on and does not enforce: one installer per destination, one download per
process, no crash in the middle of a resync. A `library.properties` is there from its first
byte, and asked for nothing but its existence (`pio.rs:305`); a torn one is not told from a
whole one. `meta`
is the marker, with what it vouches for; `Warns` is `local_sdk_newer_than_synced`. It looks at the
sketchbook's marker only and warns while a flash goes on with whatever the scratch project
holds, so it does not bear out the comment in `commands/flash.rs` that a flash "never silently
builds old code"; the property that holds, and that is stated, is about the sketchbook.

### BoardIndex

A manifest is a set of claims `<<id, board>>`. `Signature` is a tuple of modification times
where the code adds them up: two states whose times have one sum are as unlikely as two
equal sums of nanoseconds, and are not modelled. Times are as coarse as the clock `now`, so
that changes within one tick cannot be told apart. `Start` reads the signature, `UseCache`
or `BeginBuild`, `ReadPlatform` and `Built` resolve the index, platform by platform, and
`OpenTmp`, `WriteTmp`, `RenameTmp` save it: a write reaches the file another process has
renamed meanwhile, as the kernel has it. `Install`, `Fill` and `Remove` are pio's; `Fill`
writes a manifest where no time the signature reads changes. Such signatures are `masked`
(ghost): they stand for more than one state of the manifests, and a cache under one of them
may be old until its time to live ends. `Identify` is `identify_ids`.

Left out: reading a manifest that is half written (it does not parse and is skipped, which
is a claim fewer, as in `Fill`), the version field and the path of the platforms directory.

### InitDaemon

`Inits` are `nff init` commands, each of which may spawn a server of its own name,
`Manuals` are `nff mcp` commands. `Login` to `NoDevice` are `run` in `commands/init.rs`, with
`Register` for `claude mcp add`, which may take any time, `AlreadyUp` to
`Poll` are `start_background`, `Look` and `Bind` the server's own probe and its bind. The port
is held by a server, by `Other`, or by nobody: `is_running` asks only whether anybody accepts.
`kept` (ghost) are the inits that told their user of a server while an nff server had the
port; the end of the server on the port, or a reboot, clears it. An init that finds a
configured device says so and returns without a look at the server, although `nff doctor`
(`doctor.rs:197`) advises to re-run `nff init` to start one: `KeepConfig` is that path.

`OneServer` is what a user may rely on, without ports and looks: a process begins to serve
when none does, users are told of it while it serves, and what they were told ends with it.
`ImplementsOneServer` takes for `serving` the servers whose state is "serving" and for
`promised` the ghost `kept`; probes, spawns, polls and failed binds are stutters.

### SerialPort

`pc` is where a call is in `with_serial_retry`: before the open, with the port open, half
way, all of it accepted, or asleep between attempts. `holder` is who has the port, exclusively,
as the serial library opens it. A message is two pieces, the second with the newline. That the
port accepts a piece (`WriteHead`, `WriteTail`) and that the board gets it (`HeadArrives`,
`TailArrives`, in the board's own time; `arrived` counts them) are different steps. Nothing
flushes: `Wrote` answers OK and closes the port when all has been accepted, and what has not
arrived by then is lost. `line` is what the board has of a line, the first pieces of messages,
and `handled` says in which line it has handled a message: by itself ("intact"), behind what
was left there ("joined"), without its beginning ("cut", after a reset), or a second time
("again"). The board's output is numbered, `rx` is what the
operating system holds for the open port, `captured` what a call has read. A fault is transient or
not: a port that is held is, a port that is missing is not (its message has none of the
transient signs). `spoilt` and `hit` are ghosts: an attempt that is over left the beginning of
the line, and the board was reset or unplugged under a write.

`Delivery` is the promise of `serial_write` without ports, attempts and pieces. A message is
handled at most once (`Handle`), before its call answers and never if that is ERROR (`Refuse`);
it is handled by itself unless a half was left there, and that half is used up, so each spoils
one line. Only a board that was disturbed under the call may handle the end of a message. An
answer OK promises nothing about the board: the message may have been handled (`Take`) or be
lost, perhaps leaving a half (`Lose`). `ImplementsDelivery` maps `half` to `spoilt` and `excused`
to `hit`; the arrival of the last piece is the `Handle`, the arrival of the first a stutter.

The monitor has no retries, and ends at any error. It also drops complete lines that came with its
last chunk when its deadline is over (`LineIter::next` looks at the deadline first); that is
not modelled, as what is read counts as shown.


## 3. The runs

Passing runs; the state counts are distinct states.

| run | instance | states | what it shows |
|---|---|---|---|
| `config_store` | 2 setters, 2 sections of 2 values, 4 files | 108 314 | `ReadableUnlessCollided`: crashes, a full disk and leftover temporary files never make the file unreadable, as long as two savers do not share the temporary file. `ImplementsRegister`: until two setters overlap, each step changes one section, completely, or nothing |
| `debug_slot` | 3 calls | 17 144 | `NoProcessLeaks`: on no path does a process stay behind with nothing that would end it. `OwnServerUnlessCrossed`: a session started on a free port, once stored, talks to its own live OpenOCD. `CallsReturn`: unless some call waits for GDB for ever, each one returns, those that queue for the mutex included |
| `gdb_channel` | 5 commands, 2 stops, 2 timeouts, GDB's death | 106 186 | `LagAccounted`: unread blocks are exactly the stops and abandoned answers. `StalenessBounded`: the answer a tool gets is at most that many commands old. `EofOnce`: one command at most takes GDB's end for an answer. `ExecReturns`: every exec ends, unless its target runs and GDB lives and is silent |
| `oauth_proxy` | 5 requests | 396 142 | `OneReplyPerLogin`, `PairsOnlyGetNewer`, `RefreshNotOlder`, as in section 1. `ImplementsTokens`: neither the setters' two steps nor repeated requests nor restarts nor `auth_clear` in between show in what clients are answered |
| `diagnosis_auth` | 2 tool calls and 2 commands | 1 631 785 | `StoredIsGood`: the stored refresh token is one the server takes or has itself ended, or its successor is about to be stored. `OnlyRefusedCleared`: a repair clears no tokens the server would still refresh. Both short of crossed writes and lost answers, the first also of a callback URL that is opened again or carries no refresh token |
| `flash` | 1 CLI and 1 MCP job, 1 retry | 950 776 | `OkIsFlashed`: success, undisturbed, means the job's own sketch and board. `ImplementsFlashing`: the device has the build from the step that says OK, and an answer is the end of the writing. `McpFlashEnds`: a tool call ends although pio never need to, unless it waits for ever for pipes that something keeps open, or for a package repair |
| `sdk_projects` | 2 tool calls, 2 projects, 2 sources of 2 versions | 1 835 137 | `PropsMeanWhole`: `library.properties` means a whole library of its own version, whatever failed, crashed or was partly cleaned before |
| `sdk_sync` | 2 resyncs of the sketchbook, a developer | 352 174 | `PropsMeanWhole` where installations go over older ones: after a resync was cut short, the next makes the library whole again. `EditIsNoticed`: a source that differs from what was synced is warned about |
| `board_index` | 2 processes, 2 platforms, 3 ids, 2 boards, 1 change, 2 instants | 624 750 | `CacheIsCurrent`: a cache under today's signature is today's index. `NamesAreUnambiguous`: a device has the curated name, or that of the one board all manifests claim it for, or none |
| `init_daemon` | 2 inits, 1 manual server, 2 polls | 40 480 | `OneServes`: the process that serves is the one on the port. `ImplementsOneServer`: whatever the order of looks and binds, "server running" is said only while a server serves, and is true until that server is ended. `InitEnds` and `NoStrayServer`: neither an init that looks for a server nor a spawned process lingers |
| `serial_port` | 1 write, 1 read, 1 reset, 1 monitor, 1 retry, 3 prints | 553 362 | `ReadsAreWhole`: a reading is one piece of the output. `ImplementsDelivery`: a message is handled once at most, and never if the answer is ERROR; a half left behind spoils one line. `CallsEnd`: every tool call ends |

Each run but the two of the SDK library also checks its module's `TypeOK` (`SlotTypeOK`,
`DaemonTypeOK`), which includes what the types alone do not say: who holds a lock, when a
file is open, how many attempts there are. `RunningIsKept` of `InitDaemon` is what
`ImplementsOneServer` says of single states. It is proved, and so is `TypeOK` of `SdkLibrary`;
no run repeats them.

One run finds a disagreement between the code and what is written about it; it checks one
property that states the sentence quoted in `PROJECT.json`.

| run | sentence | what happens |
|---|---|---|
| `debug_refused` | README.md:196-197, "hit a breakpoint or call `pause_execution` first" | a target that has stopped at a breakpoint is refused as running |

Other places where the code does less than a sentence promises show as conditions of
the properties above:

- savers that collide (`ReadableUnlessCollided`; ARCHITECTURE.md:136 says "Written atomically");
- a start over a live session (`OwnServerUnlessCrossed`; the comment at `mcp_server.rs:19-21` has
  the replacing start drain the old session, but the new GDB connects to the old OpenOCD, which
  the replacement then kills);
- two refreshes with one token, which are both answered (`mcp_server.rs:448` says of the rotation
  that it invalidates the old pair), and an answer of `/oauth/token` that joins an access token
  with a later pair's refresh token (`RefreshNotOlder` excludes only the earlier one;
  `mcp_server.rs:224-225` speaks of a pair);
- a callback whose tokens are stored although its session is unknown (`StoredIsGood`, `stale`);
- a killed pio (`OkIsFlashed`), and a timeout that waits for what pio has started (`McpFlashEnds`;
  `toolchain.rs:261-263` speaks of a wall-clock timeout);
- a silent GDB (`ExecReturns`, `CallsReturn`; `nff/tools/debug.py:38` calls the limit a
  "per-MI-command ceiling").

### Why the bounds are enough

- *Config store.* Two setters are enough for each overlap, and four files for the case in which one is
  published, one is left behind as the temporary file and each setter holds one open that no
  name points to. The proofs cover every number. Setters are identical, and so are files:
  symmetry is sound for the safety properties checked.
- *Debug slot.* A stop, a start and a start it races with; or an orphan, a live session
  and a replacement. Three calls are the least that has all pairs, and `Restart` in between.
- *GDB channel.* Five commands let a tool of two commands run behind two stops and two
  timeouts and still ask something of its own. `MaxCmds`, `MaxStops`, `MaxExpired` are bounds on the
  history, in the guards of `Send`, `TargetStops` and `Expire`; when they are used up the
  model stops, hence no deadlock check.
- *OAuth.* Five requests are an authorize, a callback, a redemption and two more of any kind:
  a second login, a repeated callback or redemption, a refresh, an `auth_clear` or another setter.
- *Diagnosis.* Four operations are two repairs, a login and a logout, of which two are in
  the server and two are processes of their own; a callback URL can be opened twice. Operations of one kind are identical, and
  only safety is checked: symmetry is sound.
- *Flash.* Two jobs meet in every way two can; one retry has a first and a last attempt, and
  an attempt after a repair. With the two retries of the code's backoff lists (`Retries` is
  `backoff.len()`) the run passes too, in two minutes.
- *SDK library.* Two tasks are what it takes to unpack over, wipe under or remove from one another, in
  one process (`sdk_projects`), or to resync over one another in the sketchbook, from the checkout
  or the archive (`sdk_sync`). The two runs share no task: a call and a resync meet only in the
  checkout, which both only read, and the proof covers them together. Two sources,
  of which one is required, are the least that can be mixed or partly copied. The proof
  covers every number. Projects and calls are identical, and only safety is checked:
  symmetry is sound.
- *Board index.* A change while one process builds and the other reads or saves; two instants
  let a cache run out. `MaxTime` and `MaxChanges` are bounds, in the guards of `Tick` and
  `Changed`. The manifests of `MCBoardIndex` have a claim of each kind: unique, contested, a
  bridge's, a curated id's.
- *Init.* Two inits and a manual server are three racers for one port. Two polls have a first,
  a last and the look after it.
- *Serial.* A call of each kind, so that each finds the port held by each other kind. One retry
  has a first and a last attempt; the half that a first attempt leaves is joined to the second.
  Two writers and two retries, with nobody reading, pass too (`ImplementsDelivery` and
  `CallsEnd`, half a minute), and the proof covers every number. `MaxPrints` bounds the board's output, in the guard of
  `Output`: three prints can have a gap in the middle.

Deadlock is checked for the config store. In the others the calls, requests, operations and jobs of an
instance are used up, and the system may stop.

### Fairness, and why the code justifies it

- `DebugSlot`: the threads of the server run (weak fairness of `OwnStep`). Nothing is assumed of
  GDB, since `read_line` waits without a limit in the handshake, in a tool and in the drop of a
  session (`AskGdb`): a call that waits for GDB for ever is what `CallsReturn` excepts, with those
  behind it. OpenOCD owes nothing either:
  `wait_for_gdb_server` gives up after 15 s. Weak fairness suffices for the lock, because nobody can
  take it infinitely often: each call takes it once.
- `GdbChannel`: the tool's thread runs, and GDB answers what it is sent while the target is
  halted. Nothing is assumed of GDB while the target runs, nor that a target ever stops, nor
  that GDB dies.
- `FlashPipeline`: nff's own steps are taken and its timer rings (`Prepares`, `TimesOut`). Nothing
  is assumed of a pio that runs, of the pipes of one that has ended or was killed, or of the
  package repair: the reader threads are joined without a limit, so `McpFlashEnds` excepts a job
  that stays at "exited", "drain" or "recover".
- `InitDaemon`: an init that has come to `start_background` takes its steps, and a
  spawned process runs. What comes before waits without a limit for a login, for the toolchain
  (pip), for the prompt and for `claude mcp add`, so nothing is assumed of it, and `InitEnds` begins
  at "probe". Nothing is assumed of servers once they serve, nor of other programs.
- `SerialPort`: the thread of a tool runs; its reads, writes and opens return, since the port
  is opened with a timeout. Nothing is assumed of the board, the cable or whoever else holds
  the port. The monitor need not end.
- `ConfigStore`, `OAuthProxy`, `DiagnosisAuth`, `SdkLibrary` and `BoardIndex` have safety
  properties only.


## 4. The proofs

Each `*Proofs` module proves its component's safety properties for all values of the
constants, under the assumptions the component's module names. They only say that special
values are not elements of the sets they are used beside, and that bounds are natural
numbers.

| module | theorems | inductive invariant, and why |
|---|---|---|
| `ConfigStoreProofs` | `TypeCorrect`, `Readable`, `AtomicUntilOverlap` | `TypeOK`, the names point to different files, a lone saver's descriptor is what `tmp` points to, and a lone setter's buffer is the published value with one section changed. Without the third a rename could publish another file than the one written; without the fourth it could undo a section |
| `DebugProofs`, of `DebugSlot` | `SlotTypeCorrect`, `NothingLeaks`, `OwnServer` | `LeakInv`: `TypeOK`, which processes a call owns at each point of its path, that a session being dropped is in one call's hands, and `NoProcessLeaks`. `OneAtATime` adds: while nothing has crossed there is at most one session in the making, in the slot or being dropped |
| `DebugProofs`, of `GdbChannel` | `TypeCorrect`, `LagIsExact`, `StalenessIsBounded`, `DeathIsNoticed` | `TypeOK`, `LagAccounted` and `InOrder`: the commands in `out` and `queue`, read in that order, are consecutive and end at `sent`. Position and lag together give the age of the first block, which `StalenessBounded` is about. `EofOnce` is inductive beside them |
| `ServerProofs`, of `OAuthProxy` | `TypeCorrect`, `LoginAnsweredOnce`, `RefreshIsNotOlder`, `RotationIsFinal`, `TokensInOrder` | `OneCarrier`: the right to answer a login is at any time in one place – its session, one request, its code or a reply. `Bookkeeping` ties sessions, codes and replies to where their requests are. `FreshPairs`: who is about to save a new pair loaded an older one. `StoredFirst`: tokens on their way to a client are not newer than the newest pair stored, which is the one in the config unless `auth_clear` has removed it. `OnePair`: an unspent code, a request on its way to an answer and a reply hold different pairs |
| `ServerProofs`, of `InitDaemon` | `DaemonTypeCorrect`, `DaemonOneOnThePort`, `DaemonPromiseKept`, `DaemonOneAtATime` | `DaemonIInv`: `DaemonTypeOK`, `RunningIsKept` and `OneServes` are inductive together. `RunningIsKept` alone is not: that the end of the server on the port clears the promises about it is enough only because no other process serves (`OneServes`) |
| `DiagnosisAuthProofs` | `TypeCorrect`, `GoodIsStored`, `RefusedIsCleared` | `Numbered`: no pair is known before it is issued. `Unshared`: a pair that one operation holds and has not stored is known to no other, so nobody else can spend its refresh token. `Refused`: who is about to clear has seen its pair refused, unless something was lost |
| `FlashPipelineProofs` | `TypeCorrect`, `OkIsTrue`, `FlashedAtOnce` | `ProjectIsOwn`: while a job is undisturbed, what it has prepared so far is in the project, and only that. `Progress`: a process that nobody waits for belongs to a killed or aborted job, so no later pio of another job runs beside it unnoticed. `Writers`: a device is written to only by the pio of a job that was asked to upload, and what that pio began with is the job's own build unless the job was disturbed; a retry cannot change that |
| `SdkLibraryProofs` | `TypeCorrect`, `PropsVouch`, `EditsNoticed` | `Alone`: of two tasks that write to one destination, the one that did not come last is disturbed. `Faithful`: what an undisturbed task has copied is what its source holds, and the rest is not there yet. `Exposed`: an installation over an older `library.properties` is suspect until it is over. `SketchAtRest`: nobody writes to the sketchbook while its marker vouches for it |
| `BoardIndexProofs` | `TypeCorrect`, `CacheCurrent`, `Unambiguous` | `FilesHonest` and `ReadersHonest`: a file, and a process about to write one, under a signature that is today's and not masked holds today's index, or today's claims so far. The property about the cache alone is not inductive: a rename publishes what a process read before. `Undisturbed`: the same of a process that no change overlapped, against the claims when it began |
| `SerialPortProofs` | `TypeCorrect`, `ReadingsWhole`, `DeliveredOnce` | `Unanswered`: a message that has been handled is that of the call that holds the port, with all of it arrived, or its call has answered OK. `LineIsKnown`: what the line holds was left by writes that are over (`spoilt`), or is the first piece of the call that has the port, or nothing; a first piece that arrived and is not there was lost to a reset (`hit`). `NotYetRead`, `StartsEmpty`, `SightIsWhole`: a call that has just opened the port, or failed, has read nothing, and what it has read joined to what the operating system holds is one piece of the output, which is what keeps `ReadsAreWhole` |

`DebugProofs` and `ServerProofs` hold the proofs of two components each and extend both.
Nothing is proved there of the two together.

`AtomicUntilOverlap` is a refinement: `ConfigStore`, with `value` standing for `Published`,
implements `ConfigRegister`. Initial states map to initial states, and each step of any
number of setters is a `Replace`, an `Overlap`, a `Disturbed` or a stutter. The last two
exist only where the code promises nothing, after an overlap.

Four more refinements are proved in the same way, each with one lemma per kind of abstract
step and one that puts them together.

- `DaemonOneAtATime` (`OneServerStep`): a `Bind` that succeeds is a `Begin` (`BindBegins`), an
  answer "running" is a `Promise` (`TellingPromises`), the end of the server on the port, or a
  reboot, is a `Finish` (`EndsFinish`), and everything else stutters. `ServingIsOnPort` gives
  that at most one process serves.
- `DeliveredOnce` (`DeliveryStep`): the arrival of the last piece is a `Handle` (`TailHandles`), an
  OK a `Take` if the message has been handled and a `Lose` if not (`WroteTakes`); a failure is a
  `Retry` or a `Refuse` (`GivingRefuses`, `BreakRetries`, and `LeavingUnhandled` for what they leave);
  a reset or an unplugging is a `Disturb` of whoever has the port (`BoardExcuses`), and a line that
  starts anew an `Anew` (`BlankIsAnew`). That a message is not handled twice, nor under an ERROR,
  is `Unanswered`; which line it is handled in, `LineIsKnown`.
- `TokensInOrder` (`TokenStep`): a save is a `Rotate`, a `Clear` or changes nothing that shows
  (`SavesRotate`, from `FreshPairs`), or it overlaps or fails and is a `Disorder`; a `Reply` is an
  `Answer` or a `Disorder` (`ReplyGives`). That its access token is new is `OnePair`, that its
  login is, `OneCarrier`, and that it is not newer than the newest pair, `StoredFirst`.
- `FlashedAtOnce` (`FlashingStep`): a `Spawn` of an upload is an `Erase`; an upload that ends is
  a `Flash`, or a `Mislead` if the build is not the job's, which `BuildOnDevice` derives from
  `Writers`; orphans are `Linger`.

The strengthened invariants were checked by TLC on the instances above before they were
proved.

Only model-checked: the liveness properties `CallsReturn`, `ExecReturns`, `McpFlashEnds`,
`InitEnds`, `NoStrayServer` and `CallsEnd` (fairness and ENABLED are out of the prover's
reach), and the disagreement, which is a
counterexample and needs no proof. No module uses recursion over data.


## 5. What is not modelled, and why

- *The arduino-cli backend* of compile and flash: the same runner and retries with another
  program and a build directory of its own; projects with their own `platformio.ini`, in
  which nff writes nothing.
- *Text:* `MiParser` and the shapers of debug answers, the SSE parser of `nff agent`, the
  extraction of errors from compiler output, URL and JSON forms. They are sequential functions
  of strings, with unit tests; their outcomes are nondeterministic choices of the models.
- *Discovery* of chips, probes, executables and ELF files: choices among paths. `resolve_elf`
  takes the newest `firmware.elf` of any scratch project, whatever board a session is for;
  nothing in the code ties the two, so no property could hold.
- *The Pi probe, provisioning, OTA, connect, installers, doctor, the command line:* sequences
  of single calls without state that interacts. `nff clean` is part of `SdkLibrary`. What the
  toolchain step of `nff init` installs, best effort, is left out of `InitDaemon`; that it may take
  any time is not.
- *The page of a late browser*, which says "authenticated" after the wait for it is over:
  `DiagnosisAuth` has the late page and its dropped tokens, but not the text shown.
- *The Python twin*, which serves as documentation of what the port promises.

What would come next: `OAuthProxy` and `DiagnosisAuth` composed over `ConfigRegister`, to
carry what is proved of each over to the two together; an abstract specification of the debug
session, beside its invariants.
